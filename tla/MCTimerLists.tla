---------------------------- MODULE MCTimerLists ----------------------------
(***************************************************************************)
(* Values for model checking TimerLists: three timers, so that a list has  *)
(* a first, a last and one between, and delays and a start by which lists  *)
(* of all three cascade from every vector but the last.                    *)
(***************************************************************************)
EXTENDS TimerLists, TLC

MCStartTicks == {13}
MCDelays == {0, 3, 8}
MCGaps == {4}
MCSymmetry == Permutations(Timers)
=============================================================================
