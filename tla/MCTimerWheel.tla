---------------------------- MODULE MCTimerWheel ----------------------------
(***************************************************************************)
(* Values for model checking TimerWheel: two lists per vector, so that     *)
(* every cascade happens within 16 ticks, and a word of 64 ticks, with     *)
(* initial values on both sides of its end and of every carry.             *)
(***************************************************************************)
EXTENDS TimerWheel

MCTimers == {"t1", "t2"}
MCStartTicks == {13, 62}
MCDelays == {-3, 0, 1, 5, 15}
MCGaps == {-1, 0, 14}
=============================================================================
