----------------------------- MODULE TimerLists -----------------------------
(***************************************************************************)
(* The links under the timer wheel: each list is a ring of timers and one  *)
(* head, doubly linked as in dkfw_list.h, and a timer is pending if its    *)
(* next is not NULL.  Timers change lists while a list is being walked, and*)
(* a cascade adds them to their new lists without taking them off the old. *)
(*                                                                         *)
(* What does not concern links is taken from TimerWheel, which this module *)
(* implements.                                                             *)
(***************************************************************************)
EXTENDS Integers, Sequences, FiniteSets

CONSTANTS
    Timers, NoTimer, TvrSize, TvnSize, Word, Clamp, StartTicks, Delays, Gaps,
    MaxTicks,       \* as in TimerWheel
    NULL, POISON    \* no node; LIST_POISON2

VARIABLES
    timer_ticks, expires, absms, calling, ticks, due,   \* as in TimerWheel
    link            \* link[n]: the next and prev of head or timer n

vars == <<timer_ticks, expires, absms, calling, ticks, due, link>>

Lists == ({1} \X (0 .. TvrSize - 1)) \cup ((2 .. 5) \X (0 .. TvnSize - 1))

\* The head on the stack of __run_timers.
WorkList == <<0, 0>>

Heads == Lists \cup {WorkList}
Nodes == Heads \cup Timers

TimerPending(t) == link[t].next # NULL

ASSUME NodesAssumption ==
    /\ IsFiniteSet(Timers)
    /\ Timers \cap Heads = {}
    /\ {NULL, POISON} \cap Nodes = {} /\ NULL # POISON

\* No list is longer.
Longest == Cardinality(Timers)

(***************************************************************************)
(* The timers of a list, by following next from its head: from[n][curr]    *)
(* are those from curr to the head of its list, n at most.                 *)
(***************************************************************************)
Listed(head) ==
    LET from[n \in 0 .. Longest] ==
            [curr \in Nodes \cup {NULL} |->
                IF n = 0 \/ curr \notin Timers THEN <<>>
                ELSE <<curr>> \o from[n - 1][link[curr].next]]
    IN from[Longest][link[head].next]

Wheel == INSTANCE TimerWheel WITH
    vec <- [l \in Lists |-> Listed(l)],
    work <- Listed(WorkList)

ASSUME ConstantsAssumption == Wheel!WheelAssumption

(***************************************************************************)
(* dkfw_list.h.                                                            *)
(***************************************************************************)
InitHead(lk, head) == [lk EXCEPT ![head] = [next |-> head, prev |-> head]]

AddBetween(lk, n, prev, next) ==
    [lk EXCEPT ![next].prev = n, ![n] = [next |-> next, prev |-> prev],
               ![prev].next = n]

AddFirst(lk, n, head) == AddBetween(lk, n, head, lk[head].next)

AddTail(lk, n, head) == AddBetween(lk, n, lk[head].prev, head)

Del(lk, prev, next) == [lk EXCEPT ![next].prev = prev, ![prev].next = next]

ListEmpty(lk, head) == lk[head].next = head

Splice(lk, list, head) ==
    LET at == lk[head].next IN
    [lk EXCEPT ![lk[list].next].prev = head, ![head].next = lk[list].next,
               ![lk[list].prev].next = at, ![at].prev = lk[list].prev]

SpliceOnly(lk, list, head) ==
    IF ListEmpty(lk, list) THEN lk ELSE Splice(lk, list, head)

SpliceInit(lk, list, head) ==
    IF ListEmpty(lk, list) THEN lk ELSE InitHead(Splice(lk, list, head), list)

(***************************************************************************)
(* internal_add_timer and detach_timer.                                    *)
(***************************************************************************)
Add(lk, t, e) == AddTail(lk, t, Wheel!ListOf(e, timer_ticks))

DetachOnly(lk, t) ==
    [Del(lk, lk[t].prev, lk[t].next) EXCEPT ![t].prev = POISON]

DetachPoisons(lk, t) == DetachOnly(lk, t)

Detach(lk, t) == [DetachOnly(lk, t) EXCEPT ![t].next = NULL]

-----------------------------------------------------------------------------
Init ==
    /\ link = [n \in Nodes |->
                 IF n \in Heads THEN [next |-> n, prev |-> n]
                                ELSE [next |-> NULL, prev |-> NULL]]
    /\ Wheel!Init

SetAt(t, d, lk) ==
    LET e == (timer_ticks + d) % Word IN
    /\ Wheel!MayCall
    /\ expires' = [expires EXCEPT ![t] = e]
    /\ link' = Add(lk, t, e)
    /\ due' = [due EXCEPT ![t] = Wheel!Due(d)]
    /\ UNCHANGED <<timer_ticks, absms, calling, ticks>>

\* init_timer clears next, so that a pending timer is never detached: the
\* caller must not start one.
StartTimer(t, d) ==
    /\ ~TimerPending(t)
    /\ SetAt(t, d, [link EXCEPT ![t].next = NULL])

RestartTimer(t, d) ==
    SetAt(t, d, IF TimerPending(t) THEN DetachOnly(link, t) ELSE link)

StopTimer(t) ==
    /\ Wheel!MayCall
    /\ link' = IF TimerPending(t) THEN Detach(link, t) ELSE link
    /\ due' = [due EXCEPT ![t] = Wheel!NotDue]
    /\ UNCHANGED <<timer_ticks, expires, absms, calling, ticks>>

(***************************************************************************)
(* cascade walks the list by the next it reads before it moves a timer.    *)
(***************************************************************************)
MoveNext(at, head) ==
    IF at.curr = head THEN at
    ELSE [lk |-> Add(at.lk, at.curr, expires[at.curr]), curr |-> at.lk[at.curr].next]

MoveAll(lk, head) ==
    LET after[n \in 0 .. Longest] ==
            IF n = 0 THEN [lk |-> lk, curr |-> lk[head].next]
            ELSE MoveNext(after[n - 1], head)
    IN after[Longest].lk

Cascade(lk, head) == InitHead(MoveAll(lk, head), head)

Cascaded ==
    LET index(n) == Wheel!Index(n)
        l2 == Cascade(link, <<2, index(0)>>)
        l3 == IF index(0) = 0 THEN Cascade(l2, <<3, index(1)>>) ELSE l2
        l4 == IF index(0) = 0 /\ index(1) = 0 THEN Cascade(l3, <<4, index(2)>>) ELSE l3
        l5 == IF index(0) = 0 /\ index(1) = 0 /\ index(2) = 0
              THEN Cascade(l4, <<5, index(3)>>) ELSE l4
    IN IF timer_ticks % TvrSize = 0 THEN l5 ELSE link

Idling == ListEmpty(link, WorkList) /\ calling = NoTimer

RunTimer(gap) == UNCHANGED link /\ Wheel!RunTimer(gap)

Tick ==
    /\ absms # Wheel!Idle
    /\ Idling
    /\ Wheel!TimeAfterEq(absms, timer_ticks)
    /\ timer_ticks' = (timer_ticks + 1) % Word
    /\ link' = SpliceInit(InitHead(Cascaded, WorkList),
                          <<1, timer_ticks % TvrSize>>, WorkList)
    /\ ticks' = ticks + 1
    /\ UNCHANGED <<expires, absms, calling, due>>

Fire ==
    LET t == link[WorkList].next IN
    /\ t # WorkList
    /\ calling = NoTimer
    /\ calling' = t
    /\ link' = Detach(link, t)
    /\ due' = [due EXCEPT ![t] = Wheel!NotDue]
    /\ UNCHANGED <<timer_ticks, expires, absms, ticks>>

CallbackReturns == UNCHANGED link /\ Wheel!CallbackReturns

RunReturns ==
    /\ absms # Wheel!Idle
    /\ Idling
    /\ ~Wheel!TimeAfterEq(absms, timer_ticks)
    /\ absms' = Wheel!Idle
    /\ UNCHANGED <<timer_ticks, expires, calling, ticks, due, link>>

Next ==
    \/ \E t \in Timers, d \in Delays : StartTimer(t, d) \/ RestartTimer(t, d)
    \/ \E t \in Timers : StopTimer(t)
    \/ \E gap \in Gaps : RunTimer(gap)
    \/ Tick
    \/ Fire
    \/ CallbackReturns
    \/ RunReturns

Spec == Init /\ [][Next]_vars
-----------------------------------------------------------------------------
(***************************************************************************)
(* Every list is a ring in both directions, whatever was moved, spliced or *)
(* taken out of its middle: following next and then prev leads back, for   *)
(* the heads and every pending timer.                                      *)
(***************************************************************************)
WellLinked ==
    \A n \in Heads \cup {t \in Timers : TimerPending(t)} :
        /\ link[n].next \in Nodes /\ link[n].prev \in Nodes
        /\ link[link[n].next].prev = n
        /\ link[link[n].prev].next = n

(***************************************************************************)
(* A timer is pending, by its next, exactly when it is due: what the calls *)
(* take off its list, or do not, by that one pointer is right also for the *)
(* timer that fires and for those that its callback starts and stops.      *)
(***************************************************************************)
PendingIffDue == \A t \in Timers : TimerPending(t) <=> due[t] # Wheel!NotDue

(***************************************************************************)
(* The links implement the wheel of TimerWheel, in which lists are         *)
(* sequences.                                                              *)
(***************************************************************************)
WheelSpec == Wheel!Spec
=============================================================================
