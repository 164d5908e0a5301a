------------------------------- MODULE MCCps -------------------------------
(***************************************************************************)
(* Values for model checking Cps: a second of 4 clock ticks, a millisecond *)
(* of 2, two segments at most, and words of 32, which time times rate      *)
(* exceeds after a pause.                                                  *)
(***************************************************************************)
EXTENDS Cps

Flat(r, ms) == [cps_start |-> r, cps_end |-> r, seg_total_ms |-> ms]
FromTo(r, s, ms) == [cps_start |-> r, cps_end |-> s, seg_total_ms |-> ms]

Schedule(a, b) ==
    [k \in 0 .. 3 |-> IF k = 0 THEN a ELSE IF k = 1 THEN b ELSE Flat(0, 0)]

MCSchedules ==
    { Schedule(Flat(3, 0), Flat(0, 0)),             \* one rate for ever
      Schedule(FromTo(1, 4, 3), FromTo(4, 0, 3)),   \* up and down
      Schedule(Flat(0, 2), Flat(2, 4)),             \* a pause first
      Schedule(FromTo(4, 2, 4), Flat(2, 0)) }       \* down, then for ever

MCStartTscs == {0, 3}
MCPauses == {1, 2, 7}
=============================================================================
