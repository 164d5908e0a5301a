------------------------------- MODULE MCIpc -------------------------------
(***************************************************************************)
(* Values for model checking Ipc.                                          *)
(***************************************************************************)
EXTENDS Ipc, TLC

CONSTANTS m1, m2, m3, m4

ThreeMsgs == {m1, m2, m3}
FourMsgs == {m1, m2, m3, m4}

\* Messages are alike; no property singles one out.
Alike == Permutations(Msgs)
=============================================================================
