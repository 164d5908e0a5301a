---------------------------- MODULE TimerService ----------------------------
(***************************************************************************)
(* What the timers promise, without a wheel: time advances one tick at a   *)
(* time, a timer that is set fires during its tick, once, and a tick is    *)
(* not over before all its timers have fired or were cancelled.  Timers of *)
(* one tick fire in no particular order.                                   *)
(***************************************************************************)
EXTENDS Naturals

CONSTANTS Timers, Never     \* Never is no time

VARIABLES
    next,     \* the first tick that has not begun
    due       \* due[t]: the tick at which timer t fires, or Never

vars == <<next, due>>

TypeOK ==
    /\ next \in Nat
    /\ due \in [Timers -> Nat \cup {Never}]

Init == next \in Nat /\ due = [t \in Timers |-> Never]

\* Set anew, or moved; a time that is past counts as the next tick.
Set(t) ==
    /\ due'[t] \in Nat /\ due'[t] >= next
    /\ due' = [due EXCEPT ![t] = due'[t]]
    /\ UNCHANGED next

Cancel(t) ==
    /\ due' = [due EXCEPT ![t] = Never]
    /\ UNCHANGED next

Tick ==
    /\ \A t \in Timers : due[t] # Never => due[t] >= next
    /\ next' = next + 1
    /\ UNCHANGED due

Fire(t) ==
    /\ due[t] # Never
    /\ due[t] + 1 = next
    /\ due' = [due EXCEPT ![t] = Never]
    /\ UNCHANGED next

Next == Tick \/ \E t \in Timers : Set(t) \/ Cancel(t) \/ Fire(t)

Spec == Init /\ [][Next]_vars
=============================================================================
