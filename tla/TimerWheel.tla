----------------------------- MODULE TimerWheel -----------------------------
(***************************************************************************)
(* The cascading timer wheel of one core: five vectors of lists, of which  *)
(* the first has a list per tick and each further one lists per group of   *)
(* ticks.  A core runs it from its loop; callbacks may start, restart and  *)
(* stop any timer, also those of the tick that is running.  One thread     *)
(* owns a wheel, so a step is a call, or the part of dkfw_run_timer up to  *)
(* or after one callback.                                                  *)
(*                                                                         *)
(* A list of timers is a sequence; TimerLists has the links that make one. *)
(***************************************************************************)
EXTENDS Integers, Sequences, FiniteSets, Functions

CONSTANTS
    Timers,
    NoTimer,
    TvrSize,        \* TVR_SIZE, the lists of the first vector
    TvnSize,        \* TVN_SIZE, the lists of the others
    Word,           \* 2^64, the number of unsigned longs
    Clamp,          \* 0xffffffffUL
    StartTicks,     \* what the wheel may be initialised with
    Delays,         \* bound: how far from the next tick timers are set
    Gaps,           \* bound: how far from the next tick the wheel is run to
    MaxTicks        \* bound: ticks that are ever run

\* Timers may be set this far ahead.  The last vector is reached only with
\* longer delays, for which Clamp is too small (see the README).
Horizon == TvrSize * TvnSize * TvnSize * TvnSize

\* The ticks that a list of vector k stands for.
Span(k) ==
    CASE k = 1 -> 1
      [] k = 2 -> TvrSize
      [] k = 3 -> TvrSize * TvnSize
      [] k = 4 -> TvrSize * TvnSize * TvnSize
      [] k = 5 -> Horizon

ASSUME WheelAssumption ==
    /\ NoTimer \notin Timers
    /\ TvrSize \in Nat \ {0} /\ TvnSize \in Nat \ {0}
    /\ Word \in Nat /\ Word % (Horizon * TvnSize) = 0 /\ Word >= 4 * Horizon
    /\ Clamp \in Nat
    /\ StartTicks \subseteq 0 .. Word - 1
    /\ Delays \subseteq -Horizon .. Horizon - 1
    /\ Gaps \subseteq -Horizon .. Horizon - 1
    /\ MaxTicks \in Nat

Lists == ({1} \X (0 .. TvrSize - 1)) \cup ((2 .. 5) \X (0 .. TvnSize - 1))

NotDue == -1
Idle == -1

VARIABLES
    timer_ticks,  \* the first tick that has not begun
    vec,          \* the lists of tv1 to tv5
    work,         \* work_list: timers of the running tick, to be called
    expires,      \* expires[t]
    absms,        \* where dkfw_run_timer is to run to, or Idle
    calling,      \* the timer whose callback runs, or NoTimer
    ticks,        \* history: the number of ticks begun, which does not wrap
    due           \* history: due[t], in such ticks, when t is to fire

vars == <<timer_ticks, vec, work, expires, absms, calling, ticks, due>>

Pending(t) == (\E l \in Lists : t \in Range(vec[l])) \/ t \in Range(work)

TypeOK ==
    /\ timer_ticks \in 0 .. Word - 1
    /\ vec \in [Lists -> Seq(Timers)]
    /\ work \in Seq(Timers)
    /\ expires \in [Timers -> 0 .. Word - 1]
    /\ absms \in {Idle} \cup (0 .. Word - 1)
    /\ calling \in Timers \cup {NoTimer}
    /\ ticks \in 0 .. MaxTicks
    /\ due \in [Timers -> Int]

Init ==
    /\ timer_ticks \in StartTicks
    /\ vec = [l \in Lists |-> <<>>]
    /\ work = <<>>
    /\ expires = [t \in Timers |-> 0]
    /\ absms = Idle
    /\ calling = NoTimer
    /\ ticks = 0
    /\ due = [t \in Timers |-> NotDue]

(***************************************************************************)
(* internal_add_timer, with base->timer_ticks = now.                       *)
(***************************************************************************)
ListOf(e, now) ==
    LET idx == (e - now) % Word
        clamped == IF idx > Clamp THEN (Clamp + now) % Word ELSE e
    IN CASE idx < Span(2) -> <<1, e % TvrSize>>
         [] idx >= Span(2) /\ idx < Span(3) -> <<2, (e \div Span(2)) % TvnSize>>
         [] idx >= Span(3) /\ idx < Span(4) -> <<3, (e \div Span(3)) % TvnSize>>
         [] idx >= Span(4) /\ idx < Span(5) -> <<4, (e \div Span(4)) % TvnSize>>
         [] idx >= Span(5) /\ idx >= Word \div 2 -> <<1, now % TvrSize>>
         [] OTHER -> <<5, (clamped \div Span(5)) % TvnSize>>

Insert(v, t, e, now) == [v EXCEPT ![ListOf(e, now)] = Append(@, t)]

\* The timers of a list that are in S, in their order.
OnlyUpTo(s, S) ==
    LET only[i \in 0 .. Len(s)] ==
            IF i = 0 THEN <<>>
            ELSE IF s[i] \in S THEN Append(only[i - 1], s[i]) ELSE only[i - 1]
    IN only

Only(s, S) == OnlyUpTo(s, S)[Len(s)]

Without(s, t) == Only(s, Timers \ {t})

Detached(v, t) == [l \in Lists |-> Without(v[l], t)]

(***************************************************************************)
(* dkfw_start_timer, for a timer that is not pending: it forgets the list  *)
(* the timer is in.  dkfw_restart_timer, for any timer.                    *)
(***************************************************************************)
MayCall == absms = Idle \/ calling # NoTimer

Due(d) == ticks + (IF d < 0 THEN 0 ELSE d)

StartTimer(t, d) ==
    LET e == (timer_ticks + d) % Word IN
    /\ MayCall
    /\ ~Pending(t)
    /\ expires' = [expires EXCEPT ![t] = e]
    /\ vec' = Insert(vec, t, e, timer_ticks)
    /\ due' = [due EXCEPT ![t] = Due(d)]
    /\ UNCHANGED <<timer_ticks, work, absms, calling, ticks>>

RestartTimer(t, d) ==
    LET e == (timer_ticks + d) % Word IN
    /\ MayCall
    /\ expires' = [expires EXCEPT ![t] = e]
    /\ vec' = Insert(Detached(vec, t), t, e, timer_ticks)
    /\ work' = Without(work, t)
    /\ due' = [due EXCEPT ![t] = Due(d)]
    /\ UNCHANGED <<timer_ticks, absms, calling, ticks>>

StopTimer(t) ==
    /\ MayCall
    /\ vec' = Detached(vec, t)
    /\ work' = Without(work, t)
    /\ due' = [due EXCEPT ![t] = NotDue]
    /\ UNCHANGED <<timer_ticks, expires, absms, calling, ticks>>

(***************************************************************************)
(* dkfw_run_timer.                                                         *)
(***************************************************************************)
TimeAfterEqUnsigned(a, b) == a >= b

\* Signed distance.
TimeAfterEq(a, b) == (a - b) % Word < Word \div 2

RunTimer(gap) ==
    LET to == (timer_ticks + gap) % Word IN
    /\ absms = Idle
    /\ ticks + gap < MaxTicks
    /\ absms' = IF TimeAfterEq(to, timer_ticks) THEN to ELSE Idle
    /\ UNCHANGED <<timer_ticks, vec, work, expires, calling, ticks, due>>

\* The timers that belong in list m now.
Belong(m) == {t \in Timers : ListOf(expires[t], timer_ticks) = m}

CascadeKept(v, l) == [m \in Lists |-> v[m] \o Only(v[l], Belong(m))]

\* Each timer of list l goes where it belongs now, which is never l again.
Cascade(v, l) ==
    [m \in Lists |-> IF m = l THEN <<>> ELSE v[m] \o Only(v[l], Belong(m))]

\* INDEX(n), of vector n + 2.
Index(n) == (timer_ticks \div Span(n + 2)) % TvnSize

CascadedOneByOne ==
    IF timer_ticks % TvrSize # 0 THEN vec
    ELSE IF Index(0) # 0 THEN Cascade(vec, <<2, Index(0)>>)
    ELSE IF Index(1) # 0 THEN Cascade(vec, <<3, Index(1)>>)
    ELSE Cascade(vec, <<4, Index(2)>>)

\* The lists after the cascades that a tick begins with: vector 2 when the
\* first wraps, and each further one when the one before it wraps.
Cascaded ==
    LET v2 == Cascade(vec, <<2, Index(0)>>)
        v3 == IF Index(0) = 0 THEN Cascade(v2, <<3, Index(1)>>) ELSE v2
        v4 == IF Index(0) = 0 /\ Index(1) = 0 THEN Cascade(v3, <<4, Index(2)>>) ELSE v3
        v5 == IF Index(0) = 0 /\ Index(1) = 0 /\ Index(2) = 0
              THEN Cascade(v4, <<5, Index(3)>>) ELSE v4
    IN IF timer_ticks % TvrSize = 0 THEN v5 ELSE vec

TickDone == absms # Idle /\ work = <<>> /\ calling = NoTimer

\* The list of the tick is taken off the wheel as a whole.
Tick ==
    LET now == <<1, timer_ticks % TvrSize>> IN
    /\ TickDone
    /\ TimeAfterEq(absms, timer_ticks)
    /\ timer_ticks' = (timer_ticks + 1) % Word
    /\ work' = Cascaded[now]
    /\ vec' = [Cascaded EXCEPT ![now] = <<>>]
    /\ ticks' = ticks + 1
    /\ UNCHANGED <<expires, absms, calling, due>>

FireAttached ==
    /\ work # <<>>
    /\ calling = NoTimer
    /\ calling' = Head(work)
    /\ due' = [due EXCEPT ![Head(work)] = NotDue]
    /\ UNCHANGED <<timer_ticks, vec, work, expires, absms, ticks>>

Fire ==
    /\ work # <<>>
    /\ calling = NoTimer
    /\ calling' = Head(work)
    /\ work' = Tail(work)
    /\ due' = [due EXCEPT ![Head(work)] = NotDue]
    /\ UNCHANGED <<timer_ticks, vec, expires, absms, ticks>>

CallbackReturns ==
    /\ calling # NoTimer
    /\ calling' = NoTimer
    /\ UNCHANGED <<timer_ticks, vec, work, expires, absms, ticks, due>>

RunReturns ==
    /\ TickDone
    /\ ~TimeAfterEq(absms, timer_ticks)
    /\ absms' = Idle
    /\ UNCHANGED <<timer_ticks, vec, work, expires, calling, ticks, due>>

Run == Tick \/ Fire \/ CallbackReturns \/ RunReturns

Next ==
    \/ \E t \in Timers, d \in Delays : StartTimer(t, d) \/ RestartTimer(t, d)
    \/ \E t \in Timers : StopTimer(t)
    \/ \E gap \in Gaps : RunTimer(gap)
    \/ Run

Spec == Init /\ [][Next]_vars

\* dkfw_run_timer has no wait in it, and callbacks return.
FairSpec == Spec /\ WF_vars(Run)
-----------------------------------------------------------------------------
(***************************************************************************)
(* A timer is in at most one list, once, through cascades, callbacks that  *)
(* restart or stop timers of the tick that is running, and restarts from   *)
(* the timer's own callback.                                               *)
(***************************************************************************)
Occurrences(s, t) == {i \in DOMAIN s : s[i] = t}

Places(t) == UNION {{l} \X Occurrences(vec[l], t) : l \in Lists}

OnePlace ==
    \A t \in Timers :
        Cardinality(Places(t)) + Cardinality(Occurrences(work, t))
            = IF due[t] = NotDue THEN 0 ELSE 1

(***************************************************************************)
(* The wheel fires each timer exactly at its tick, and at most once for    *)
(* each time it is set, wherever the tick counter stands and also when it  *)
(* wraps around.                                                           *)
(***************************************************************************)
Service == INSTANCE TimerService WITH next <- ticks, Never <- NotDue

ServiceSpec == Service!Spec

(***************************************************************************)
(* dkfw_run_timer returns, whatever the callbacks start: a timer that is   *)
(* set from a callback never joins the list that is being run.             *)
(***************************************************************************)
RunEnds == (absms # Idle) ~> (absms = Idle)
=============================================================================
