----------------------------- MODULE ObjectPool -----------------------------
(***************************************************************************)
(* What an object pool promises: a call hands out an object of the pool    *)
(* that nobody holds, and none only when all of them are held.             *)
(***************************************************************************)
EXTENDS Naturals

CONSTANTS
    Pools,
    Objects,
    Home(_)     \* the pool an object belongs to

VARIABLES
    held,       \* held[o]: how many holders the object has
    refused     \* refused[p]: the last call for an object of p got none

Init ==
    /\ held = [o \in Objects |-> 0]
    /\ refused = [p \in Pools |-> FALSE]

Take(p) ==
    \E o \in Objects :
        /\ Home(o) = p /\ held[o] = 0
        /\ held' = [held EXCEPT ![o] = 1]
        /\ refused' = [refused EXCEPT ![p] = FALSE]

TakeNone(p) ==
    /\ \A o \in Objects : Home(o) = p => held[o] = 1
    /\ refused' = [refused EXCEPT ![p] = TRUE]
    /\ UNCHANGED held

GiveBack(o) ==
    /\ held[o] = 1
    /\ held' = [held EXCEPT ![o] = 0]
    /\ UNCHANGED refused

Next ==
    \/ \E p \in Pools : Take(p) \/ TakeNone(p)
    \/ \E o \in Objects : GiveBack(o)

Spec == Init /\ [][Next]_<<held, refused>>
=============================================================================
