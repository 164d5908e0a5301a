-------------------------------- MODULE Cps --------------------------------
(***************************************************************************)
(* The rate control of one sender: a rate that follows a list of segments, *)
(* each a ramp over a number of milliseconds, and the number of events due *)
(* now, which is the rate times the time since tsc_last.  tsc_last moves   *)
(* on by the time the counted events stand for, so that what is not        *)
(* counted yet is not forgotten.                                           *)
(*                                                                         *)
(* The application reads both clocks and passes them in.  Here they are    *)
(* one clock, now, read in milliseconds by Ms; a clock may start at 0.     *)
(***************************************************************************)
EXTENDS Integers

CONSTANTS
    TscPerSec,      \* tsc_per_sec
    TscPerMs,
    SegsMax,        \* DKFW_CPS_SEGS_MAX
    RemainMax,      \* the most limited sends saved up, 64
    Word,           \* 2^64
    Schedules,      \* what the application may fill cps_segs with
    StartTscs,      \* where the clock may stand at first
    Pauses,         \* bound: the times that may pass between two calls
    MaxTsc          \* bound: the clock

Inds == 0 .. SegsMax + 1

Segment == [cps_start : Nat, cps_end : Nat, seg_total_ms : Nat]

\* A schedule has at most SegsMax segments and zeroes behind them, as
\* dkfw_cps_create leaves them.  Nobody asks for more events than the clock
\* has ticks: an event would stand for no time at all.
ASSUME CpsAssumption ==
    /\ TscPerSec \in Nat \ {0} /\ TscPerMs \in Nat \ {0}
    /\ SegsMax \in Nat /\ RemainMax \in Nat
    /\ Word \in Nat \ {0}
    /\ Schedules \subseteq [Inds -> Segment]
    /\ \A s \in Schedules :
         /\ \E k \in 0 .. SegsMax : s[k].seg_total_ms = 0
         /\ \A k \in Inds : s[k].cps_start <= TscPerSec /\ s[k].cps_end <= TscPerSec
    /\ StartTscs \subseteq Nat /\ Pauses \subseteq Nat /\ MaxTsc \in Nat

VARIABLES
    now,                \* the clock
    tsc_last,           \* up to when events are counted; 0: no call yet
    send_cnt_remain,    \* counted, but kept back by dkfw_cps_limited_get
    cps_seg_curr_ind,
    cps_segs,
    seg_start_ms,       \* by segment; 0: not started
    first,              \* history: tsc_last after the first call
    counted,            \* history: the events counted since
    grants,             \* history: the calls that counted any
    given               \* history: the events the application was given

vars == <<now, tsc_last, send_cnt_remain, cps_seg_curr_ind, cps_segs,
          seg_start_ms, first, counted, grants, given>>

TypeOK ==
    /\ now \in Nat
    /\ tsc_last \in Nat
    /\ send_cnt_remain \in 0 .. RemainMax
    /\ cps_seg_curr_ind \in 0 .. SegsMax
    /\ cps_segs \in Schedules
    /\ seg_start_ms \in [Inds -> Nat]
    /\ first \in Nat /\ counted \in Nat /\ grants \in Nat /\ given \in Nat

Init ==
    /\ now \in StartTscs
    /\ tsc_last = 0
    /\ send_cnt_remain = 0
    /\ cps_seg_curr_ind = 0
    /\ cps_segs \in Schedules
    /\ seg_start_ms = [k \in Inds |-> 0]
    /\ first = 0 /\ counted = 0 /\ grants = 0 /\ given = 0

Ms == now \div TscPerMs

(***************************************************************************)
(* get_curr_cps: the rate at millisecond ms, and the step of the schedule  *)
(* that asking for it takes: the current segment starts when it is first   *)
(* asked about and is left when it is asked about after its end.           *)
(***************************************************************************)
Seg == cps_segs[cps_seg_curr_ind]

Started == seg_start_ms[cps_seg_curr_ind] # 0

Offset(ms) == (ms - seg_start_ms[cps_seg_curr_ind]) % Word

RampUpOnly(seg, offset) ==
    seg.cps_start
      + ((offset * ((seg.cps_end - seg.cps_start) % Word)) % Word) \div seg.seg_total_ms

Ramp(seg, offset) ==
    IF seg.cps_start <= seg.cps_end
    THEN seg.cps_start
           + ((offset * (seg.cps_end - seg.cps_start)) % Word) \div seg.seg_total_ms
    ELSE seg.cps_start
           - ((offset * (seg.cps_start - seg.cps_end)) % Word) \div seg.seg_total_ms

CurrCps(ms) ==
    IF Seg.seg_total_ms = 0 \/ ~Started THEN Seg.cps_start
    ELSE IF Offset(ms) >= Seg.seg_total_ms THEN Seg.cps_end
    ELSE Ramp(Seg, Offset(ms))

FollowFromZero(ms) ==
    /\ cps_seg_curr_ind' =
         IF Seg.seg_total_ms # 0 /\ ms >= Seg.seg_total_ms
         THEN cps_seg_curr_ind + 1 ELSE cps_seg_curr_ind
    /\ seg_start_ms' =
         IF Seg.seg_total_ms # 0 /\ ~Started
         THEN [seg_start_ms EXCEPT ![cps_seg_curr_ind] = ms] ELSE seg_start_ms

FollowUnbounded(ms) ==
    /\ cps_seg_curr_ind' =
         IF Started /\ Offset(ms) >= Seg.seg_total_ms
         THEN cps_seg_curr_ind + 1 ELSE cps_seg_curr_ind
    /\ seg_start_ms' =
         IF ~Started THEN [seg_start_ms EXCEPT ![cps_seg_curr_ind] = ms] ELSE seg_start_ms

Follow(ms) ==
    /\ cps_seg_curr_ind' =
         IF Seg.seg_total_ms # 0 /\ Started /\ Offset(ms) >= Seg.seg_total_ms
         THEN cps_seg_curr_ind + 1 ELSE cps_seg_curr_ind
    /\ seg_start_ms' =
         IF Seg.seg_total_ms # 0 /\ ~Started
         THEN [seg_start_ms EXCEPT ![cps_seg_curr_ind] = ms] ELSE seg_start_ms

(***************************************************************************)
(* dkfw_cps_get: the events due at now, in words.                          *)
(***************************************************************************)
Due(cps) == ((now - tsc_last) * cps) % Word

CountOne(cps) == IF Due(cps) < TscPerSec THEN 0 ELSE 1

CountRounded(cps) ==
    IF Due(cps) < TscPerSec THEN 0 ELSE (Due(cps) + TscPerSec \div 2) \div TscPerSec

\* The whole events among them.  Due(0) = 0, so that none is due at rate 0.
Count(cps) == Due(cps) \div TscPerSec

AdvanceToNow(cnt, cps) == now

Advance(cnt, cps) == tsc_last + ((TscPerSec * cnt) % Word) \div cps

Counted == IF tsc_last = 0 THEN 0 ELSE Count(CurrCps(Ms))

\* The first call only starts the clock.
CountEvents ==
    IF tsc_last = 0
    THEN /\ tsc_last' = now
         /\ first' = now
         /\ UNCHANGED <<cps_seg_curr_ind, seg_start_ms, counted, grants>>
    ELSE /\ Follow(Ms)
         /\ tsc_last' = IF Counted = 0 THEN tsc_last ELSE Advance(Counted, CurrCps(Ms))
         /\ counted' = counted + Counted
         /\ grants' = IF Counted = 0 THEN grants ELSE grants + 1
         /\ UNCHANGED first

Get ==
    /\ CountEvents
    /\ given' = given + Counted
    /\ UNCHANGED <<now, send_cnt_remain, cps_segs>>

(***************************************************************************)
(* dkfw_cps_limited_get: at most one event a call; what is due besides is  *)
(* kept for calls at which nothing is due, up to RemainMax.                *)
(***************************************************************************)
SavedWithOwn(cnt) ==
    IF send_cnt_remain + cnt > RemainMax THEN RemainMax ELSE send_cnt_remain + cnt

Saved(cnt) ==
    IF send_cnt_remain + (cnt - 1) > RemainMax THEN RemainMax
    ELSE send_cnt_remain + (cnt - 1)

LimitedGet ==
    /\ CountEvents
    /\ IF Counted > 0
       THEN /\ given' = given + 1
            /\ send_cnt_remain' = Saved(Counted)
       ELSE IF send_cnt_remain > 0
       THEN /\ given' = given + 1
            /\ send_cnt_remain' = send_cnt_remain - 1
       ELSE UNCHANGED <<given, send_cnt_remain>>
    /\ UNCHANGED <<now, cps_segs>>

\* dkfw_cps_abs_value_get: the rate is only asked for, but the schedule steps.
AbsValueGet ==
    /\ Follow(Ms)
    /\ UNCHANGED <<now, tsc_last, send_cnt_remain, cps_segs, first, counted, grants, given>>

\* Time passes.
Pass(pause) ==
    /\ now + pause <= MaxTsc
    /\ now' = now + pause
    /\ UNCHANGED <<tsc_last, send_cnt_remain, cps_seg_curr_ind, cps_segs,
                   seg_start_ms, first, counted, grants, given>>

Next ==
    \/ Get
    \/ LimitedGet
    \/ AbsValueGet
    \/ \E pause \in Pauses : Pass(pause)

Spec == Init /\ [][Next]_vars
-----------------------------------------------------------------------------
(***************************************************************************)
(* Events are never counted before their time: through rounding, ramps and *)
(* products that overflow after a long pause, tsc_last does not pass the   *)
(* clock.  If it did, the next difference would be almost 2^64 and the     *)
(* next call would return a flood (cps.c:61).                              *)
(***************************************************************************)
BaseNotAhead == tsc_last <= now

(***************************************************************************)
(* The rate is kept: the time that tsc_last has moved on, times the lowest *)
(* and the highest rate of the schedule so far, bounds what was counted,   *)
(* but for less than one clock tick per counting call, which cps.c:69      *)
(* rounds off.                                                             *)
(***************************************************************************)
Rates == UNION {{cps_segs[k].cps_start, cps_segs[k].cps_end} : k \in 0 .. cps_seg_curr_ind}

RateKept ==
    \A lo, hi \in Rates :
        (\A r \in Rates : lo <= r /\ r <= hi) =>
            /\ lo * (tsc_last - first) <= counted * TscPerSec
            /\ counted * TscPerSec <= hi * (tsc_last - first + grants)

(***************************************************************************)
(* A call leaves less than one event and one clock tick uncounted, unless  *)
(* the product of time and rate does not fit its 64 bits.                  *)
(***************************************************************************)
CatchUpStep ==
    LET cps == CurrCps(Ms) IN
    (counted' # counted /\ (now - tsc_last) * cps < Word) =>
        (now - tsc_last') * cps < TscPerSec + cps

CatchesUp == [][CatchUpStep]_vars

(***************************************************************************)
(* dkfw_cps_limited_get neither invents nor forgets events: what is counted*)
(* is given or saved, except for what exceeds the RemainMax that may be    *)
(* saved.                                                                  *)
(***************************************************************************)
OwedStep ==
    LET change == (given' + send_cnt_remain') - (given + send_cnt_remain) IN
    /\ change <= counted' - counted
    /\ change < counted' - counted => send_cnt_remain' = RemainMax

OwedKept == [][OwedStep]_vars

(***************************************************************************)
(* The schedule is followed segment by segment, whichever of the calls ask:*)
(* none is skipped, none ends before its time is over, and none starts     *)
(* before the one before it has ended.                                     *)
(***************************************************************************)
SegmentEnd(k) == seg_start_ms[k] + cps_segs[k].seg_total_ms

SegmentsInOrder ==
    \A k \in 0 .. cps_seg_curr_ind - 1 :
        /\ cps_segs[k].seg_total_ms # 0
        /\ seg_start_ms[k] # 0
        /\ SegmentEnd(k) <= Ms
        /\ seg_start_ms[k + 1] # 0 => SegmentEnd(k) <= seg_start_ms[k + 1]

(***************************************************************************)
(* Within a segment the rate goes from the first value to the last without *)
(* leaving the range between them or turning back, up as well as down.     *)
(***************************************************************************)
RampMonotone ==
    \A m \in Ms .. MaxTsc \div TscPerMs :
        LET here == CurrCps(Ms)
            later == CurrCps(m)
        IN /\ Seg.cps_start <= Seg.cps_end =>
                Seg.cps_start <= here /\ here <= later /\ later <= Seg.cps_end
           /\ Seg.cps_start >= Seg.cps_end =>
                Seg.cps_start >= here /\ here >= later /\ later >= Seg.cps_end
=============================================================================
