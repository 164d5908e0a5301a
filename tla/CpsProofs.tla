------------------------------ MODULE CpsProofs ------------------------------
(***************************************************************************)
(* Theorems about Cps, for every schedule the application may fill in,     *)
(* every clock and every word size.                                        *)
(*                                                                         *)
(* The products of variables are hard for the provers.  What the           *)
(* properties need to know of them is stated once, in the lemmas on        *)
(* numbers, and the steps of the specification only cite it.               *)
(***************************************************************************)
EXTENDS Cps, TLAPS

-----------------------------------------------------------------------------
(***************************************************************************)
(* Numbers.                                                                *)
(***************************************************************************)
\* What C's unsigned division and modulo return.
LEMMA DivFacts ==
    ASSUME NEW n \in Nat, NEW b \in Nat \ {0}
    PROVE  /\ n \div b \in Nat
           /\ b * (n \div b) <= n
           /\ n < b * (n \div b) + b
           /\ n % b \in Nat
           /\ n % b <= n
           /\ n < b => n % b = n
<1> DEFINE d == n \div b
           m == n % b
<1>1. d \in Int /\ m \in Int /\ n = b * d + m /\ 0 <= m /\ m < b
  OBVIOUS
<1>2. d >= 0
  <2> SUFFICES ASSUME d <= -1 PROVE FALSE
    BY <1>1
  <2>1. b * (-1 - d) >= 0
    BY <1>1
  <2>2. b * (-1 - d) = -b - b * d
    BY <1>1
  <2> QED
    BY <1>1, <2>1, <2>2
<1>3. b * d >= 0
  BY <1>1, <1>2
<1>4. n < b => d = 0
  <2> SUFFICES ASSUME n < b, d >= 1 PROVE FALSE
    BY <1>1, <1>2
  <2>1. b * (d - 1) >= 0
    BY <1>1
  <2> QED
    BY <1>1, <2>1
<1>5. d = 0 => b * d = 0
  BY <1>1
<1> HIDE DEF d, m
<1>6. /\ d \in Nat /\ m \in Nat
      /\ b * d <= n /\ n < b * d + b /\ m <= n
      /\ n < b => m = n
  BY <1>1, <1>2, <1>3, <1>4, <1>5
<1> QED
  BY <1>6 DEF d, m

\* A product grows with its factors.
LEMMA TimesGrows ==
    ASSUME NEW a \in Nat, NEW b \in Nat, NEW c \in Nat, a <= b
    PROVE  a * c <= b * c /\ c * a <= c * b /\ a * c \in Nat /\ c * a = a * c
<1>1. (b - a) * c >= 0
  OBVIOUS
<1>2. (b - a) * c = b * c - a * c
  OBVIOUS
<1>3. a * c \in Nat /\ c * a = a * c /\ c * b = b * c
  OBVIOUS
<1> QED
  BY <1>1, <1>2, <1>3

\* A quotient is at most a bound q of which the divisor's multiple bounds n.
LEMMA DivBound ==
    ASSUME NEW n \in Nat, NEW b \in Nat \ {0}, NEW q \in Nat, n <= b * q
    PROVE  n \div b <= q
<1> DEFINE d == n \div b
<1>1. d \in Nat /\ b * d <= n
  BY DivFacts
<1> HIDE DEF d
<1> SUFFICES ASSUME d >= q + 1 PROVE FALSE
  BY <1>1 DEF d
<1>2. b * (d - q) >= b
  BY <1>1
<1>3. b * (d - q) = b * d - b * q
  BY <1>1
<1> QED
  BY <1>1, <1>2, <1>3

LEMMA DivGrows ==
    ASSUME NEW m \in Nat, NEW n \in Nat, NEW b \in Nat \ {0}, m <= n
    PROVE  m \div b <= n \div b
<1> DEFINE q == n \div b
           d == m \div b
<1>1. q \in Nat /\ n < b * q + b /\ d \in Nat /\ b * d <= m
  BY DivFacts
<1> HIDE DEF q, d
<1>2. ~(d >= q + 1)
  <2> SUFFICES ASSUME d >= q + 1 PROVE FALSE
    OBVIOUS
  <2>1. b * (d - q) >= b
    BY <1>1
  <2>2. b * (d - q) = b * d - b * q
    BY <1>1
  <2>3. b * d \in Int /\ b * q \in Int
    BY <1>1
  <2> QED
    BY <1>1, <2>1, <2>2, <2>3
<1>3. d <= q
  BY <1>1, <1>2
<1> QED
  BY <1>3 DEF d, q

(***************************************************************************)
(* What dkfw_cps_get computes when it counts any event: cnt of them in     *)
(* time t at rate c, which stand for time delta.                           *)
(***************************************************************************)
LEMMA CountingFacts ==
    ASSUME NEW t \in Nat, NEW c \in Nat, NEW s \in Nat \ {0}, NEW w \in Nat \ {0},
           NEW cnt, cnt = ((t * c) % w) \div s, cnt # 0,
           NEW delta, delta = ((s * cnt) % w) \div c
    PROVE  /\ cnt \in Nat /\ delta \in Nat
           /\ delta <= t
           /\ c * delta <= s * cnt
           /\ s * cnt <= c * delta + c
           /\ t * c < w => (t - delta) * c < s + c
<1> DEFINE d == (t * c) % w
           e == (s * cnt) % w
<1>1. t * c \in Nat
  BY TimesGrows
<1>2. d \in Nat /\ d <= t * c /\ d < w /\ (t * c < w => d = t * c)
  BY <1>1, DivFacts
<1>3. cnt \in Nat /\ s * cnt <= d /\ d < s * cnt + s
  BY <1>2, DivFacts
<1>4. s * cnt \in Nat
  BY <1>3
<1>5. c # 0
  <2> SUFFICES ASSUME c = 0 PROVE FALSE
    OBVIOUS
  <2>1. t * c = 0
    OBVIOUS
  <2>2. d = 0
    BY <1>2, <2>1
  <2>3. s * (cnt - 1) >= 0
    BY <1>3
  <2>4. s * (cnt - 1) = s * cnt - s
    BY <1>3
  <2> HIDE DEF d
  <2> QED
    BY <1>3, <1>4, <2>2, <2>3, <2>4
<1>6. e = s * cnt
  <2>1. s * cnt < w
    <3> HIDE DEF d
    <3> QED
      BY <1>2, <1>3, <1>4
  <2> QED
    BY <1>4, <2>1, DivFacts
<1>7. delta \in Nat /\ c * delta <= s * cnt /\ s * cnt < c * delta + c
  <2> DEFINE x == s * cnt
  <2>1. delta = x \div c /\ x \in Nat /\ c \in Nat \ {0}
    BY <1>4, <1>5, <1>6
  <2> HIDE DEF x, d, e
  <2>2. delta \in Nat /\ c * delta <= x /\ x < c * delta + c
    <3>1. x \div c \in Nat /\ c * (x \div c) <= x /\ x < c * (x \div c) + c
      BY <2>1, DivFacts, Zenon
    <3> QED
      BY <2>1, <3>1
  <2> QED
    BY <2>2 DEF x
<1>8. delta <= t
  <2>1. s * cnt <= c * t
    <3>1. c * t = t * c
      OBVIOUS
    <3> HIDE DEF d
    <3> QED
      BY <1>1, <1>2, <1>3, <1>4, <3>1
  <2>2. delta = (s * cnt) \div c
    BY <1>6
  <2> QED
    BY <1>4, <1>5, <2>1, <2>2, DivBound
<1>9. t * c < w => (t - delta) * c < s + c
  <2>1. (t - delta) * c = t * c - c * delta
    BY <1>7
  <2> HIDE DEF d
  <2>2. c * delta \in Nat
    BY <1>7
  <2> QED
    BY <1>1, <1>2, <1>3, <1>4, <1>7, <2>1, <2>2
<1> QED
  BY <1>3, <1>4, <1>7, <1>8, <1>9
-----------------------------------------------------------------------------
(***************************************************************************)
(* The invariant.  SegmentsInOrder is not inductive by itself: that a      *)
(* segment starts after the one before it has ended needs Begun, and that  *)
(* the current one exists needs the zero segment of CpsAssumption.         *)
(* RateKept speaks of the rates of the schedule so far, of which there are *)
(* more after a segment ends; RateBound is the same for any two bounds.    *)
(***************************************************************************)
Begun ==
    \A k \in Inds :
        /\ seg_start_ms[k] <= Ms
        /\ k > cps_seg_curr_ind => seg_start_ms[k] = 0

Bound(lo, hi) == \A r \in Rates : lo <= r /\ r <= hi

RateBound ==
    /\ first <= tsc_last
    /\ tsc_last = 0 => counted = 0 /\ grants = 0
    /\ \A lo, hi \in Nat : Bound(lo, hi) =>
         /\ lo * (tsc_last - first) <= counted * TscPerSec
         /\ counted * TscPerSec <= hi * (tsc_last - first + grants)

IInv == TypeOK /\ BaseNotAhead /\ SegmentsInOrder /\ Begun /\ RateBound

\* The schedule in force and its current segment.
LEMMA SegType ==
    ASSUME TypeOK
    PROVE  /\ cps_segs \in [Inds -> Segment]
           /\ cps_seg_curr_ind \in Inds
           /\ Seg \in Segment
           /\ \E k \in 0 .. SegsMax : cps_segs[k].seg_total_ms = 0
<1>1. cps_segs \in [Inds -> Segment] /\ cps_seg_curr_ind \in Inds
  BY CpsAssumption DEF TypeOK, Inds
<1> QED
  BY <1>1, CpsAssumption DEF TypeOK, Seg

LEMMA MsType ==
    ASSUME now \in Nat
    PROVE  Ms \in Nat
BY CpsAssumption, DivFacts DEF Ms

\* The part of a ramp from one value to another that is over after o of m ms.
LEMMA RampPart ==
    ASSUME NEW o \in Nat, NEW m \in Nat \ {0}, NEW diff \in Nat, o < m
    PROVE  ((o * diff) % Word) \div m \in 0 .. diff
<1> DEFINE x == (o * diff) % Word
<1>1. o * diff <= m * diff /\ o * diff \in Nat
  BY TimesGrows
<1>2. x \in Nat /\ x <= o * diff
  BY <1>1, CpsAssumption, DivFacts
<1>3. m * diff \in Nat
  BY TimesGrows
<1> HIDE DEF x
<1>4. x <= m * diff
  BY <1>1, <1>2, <1>3
<1>5. x \div m \in Nat /\ x \div m <= diff
  BY <1>2, <1>4, DivFacts, DivBound
<1> QED
  BY <1>5 DEF x

\* The rate stays between the two values of the current segment.
LEMMA CpsInRange ==
    ASSUME TypeOK, NEW lo \in Nat, NEW hi \in Nat,
           lo <= Seg.cps_start, Seg.cps_start <= hi, lo <= Seg.cps_end, Seg.cps_end <= hi
    PROVE  CurrCps(Ms) \in Nat /\ lo <= CurrCps(Ms) /\ CurrCps(Ms) <= hi
<1> DEFINE o == Offset(Ms)
<1>1. /\ Seg.cps_start \in Nat /\ Seg.cps_end \in Nat /\ Seg.seg_total_ms \in Nat
      /\ o \in Nat
  <2>1. Ms \in Nat /\ seg_start_ms[cps_seg_curr_ind] \in Nat
    BY SegType, MsType DEF TypeOK
  <2> QED
    BY <2>1, SegType, CpsAssumption DEF Segment, Offset
<1>2. CASE Seg.seg_total_ms = 0 \/ ~Started \/ o >= Seg.seg_total_ms
  BY <1>1, <1>2 DEF CurrCps
<1>3. CASE Seg.seg_total_ms # 0 /\ Started /\ o < Seg.seg_total_ms
  <2>1. CurrCps(Ms) = Ramp(Seg, o)
    BY <1>1, <1>3 DEF CurrCps
  <2> HIDE DEF o
  <2>2. CASE Seg.cps_start <= Seg.cps_end
    <3> DEFINE diff == Seg.cps_end - Seg.cps_start
               part == ((o * diff) % Word) \div Seg.seg_total_ms
    <3>1. part \in 0 .. diff
      <4>1. diff \in Nat /\ Seg.seg_total_ms \in Nat \ {0}
        BY <1>1, <1>3, <2>2
      <4> HIDE DEF diff
      <4> QED
        BY <1>1, <1>3, <4>1, RampPart, Zenon
    <3>2. Ramp(Seg, o) = Seg.cps_start + part
      BY <2>2 DEF Ramp
    <3> HIDE DEF part
    <3> QED
      BY <1>1, <2>1, <3>1, <3>2
  <2>3. CASE ~(Seg.cps_start <= Seg.cps_end)
    <3> DEFINE diff == Seg.cps_start - Seg.cps_end
               part == ((o * diff) % Word) \div Seg.seg_total_ms
    <3>1. part \in 0 .. diff
      <4>1. diff \in Nat /\ Seg.seg_total_ms \in Nat \ {0}
        BY <1>1, <1>3, <2>3
      <4> HIDE DEF diff
      <4> QED
        BY <1>1, <1>3, <4>1, RampPart, Zenon
    <3>2. Ramp(Seg, o) = Seg.cps_start - part
      BY <2>3 DEF Ramp
    <3> HIDE DEF part
    <3> QED
      BY <1>1, <2>1, <3>1, <3>2
  <2> QED
    BY <2>2, <2>3
<1> QED
  BY <1>1, <1>2, <1>3

LEMMA CpsType ==
    ASSUME TypeOK
    PROVE  CurrCps(Ms) \in Nat
<1> DEFINE hi == Seg.cps_start + Seg.cps_end
<1>1. Seg.cps_start \in Nat /\ Seg.cps_end \in Nat
  BY SegType DEF Segment
<1>2. 0 <= Seg.cps_start /\ Seg.cps_start <= hi /\ 0 <= Seg.cps_end /\ Seg.cps_end <= hi
      /\ hi \in Nat /\ 0 \in Nat
  BY <1>1
<1> HIDE DEF hi
<1> QED
  BY <1>2, CpsInRange
-----------------------------------------------------------------------------
(***************************************************************************)
(* Init and the steps.                                                     *)
(***************************************************************************)
LEMMA InitIInv == Init => IInv
<1> SUFFICES ASSUME Init PROVE IInv
  OBVIOUS
<1>1. TypeOK
  <2>1. cps_seg_curr_ind = 0 /\ 0 \in 0 .. SegsMax /\ 0 \in 0 .. RemainMax
    BY CpsAssumption DEF Init
  <2>2. now \in Nat
    BY CpsAssumption DEF Init
  <2> QED
    BY <2>1, <2>2 DEF Init, TypeOK
<1>2. BaseNotAhead
  BY <1>1 DEF Init, TypeOK, BaseNotAhead
<1>3. SegmentsInOrder
  BY DEF Init, SegmentsInOrder
<1>4. Begun
  <2>1. Ms \in Nat
    BY <1>1, MsType DEF TypeOK
  <2> QED
    BY <2>1 DEF Init, Begun
<1>5. RateBound
  BY CpsAssumption DEF Init, RateBound
<1> QED
  BY <1>1, <1>2, <1>3, <1>4, <1>5 DEF IInv

\* The step of the schedule that every entry point takes.
LEMMA FollowKeeps ==
    ASSUME IInv, Follow(Ms), UNCHANGED <<now, cps_segs>>
    PROVE  /\ cps_seg_curr_ind' \in 0 .. SegsMax
           /\ cps_seg_curr_ind' \in {cps_seg_curr_ind, cps_seg_curr_ind + 1}
           /\ seg_start_ms' \in [Inds -> Nat]
           /\ SegmentsInOrder' /\ Begun'
<1> DEFINE ind == cps_seg_curr_ind
<1>1. /\ Ms \in Nat /\ Ms' = Ms
      /\ ind \in 0 .. SegsMax /\ ind \in Inds /\ ind + 1 \in Inds
      /\ SegsMax \in Nat
      /\ seg_start_ms \in [Inds -> Nat]
      /\ cps_segs \in [Inds -> Segment] /\ Seg \in Segment
  BY MsType, SegType, CpsAssumption DEF IInv, TypeOK, Inds, Ms
<1>2. Inds = 0 .. SegsMax + 1
  BY DEF Inds
<1>3. CASE Seg.seg_total_ms # 0 /\ Started /\ Offset(Ms) >= Seg.seg_total_ms
  <2>1. cps_seg_curr_ind' = ind + 1 /\ seg_start_ms' = seg_start_ms
    BY <1>3 DEF Follow
  <2>2. ind + 1 <= SegsMax
    <3>1. PICK k \in 0 .. SegsMax : cps_segs[k].seg_total_ms = 0
      BY SegType DEF IInv
    <3>2. ~(k <= ind)
      BY <1>1, <1>3, <3>1 DEF IInv, SegmentsInOrder, Seg
    <3> QED
      BY <1>1, <3>1, <3>2
  <2>3. SegmentEnd(ind) <= Ms
    <3>1. seg_start_ms[ind] <= Ms /\ seg_start_ms[ind] \in Nat
      BY <1>1 DEF IInv, Begun
    <3>2. Offset(Ms) \in Nat /\ Offset(Ms) <= Ms - seg_start_ms[ind]
      <4> DEFINE n == Ms - seg_start_ms[ind]
      <4>1. n \in Nat /\ Word \in Nat \ {0}
        BY <1>1, <3>1, CpsAssumption
      <4>2. Offset(Ms) = n % Word
        BY DEF Offset
      <4> HIDE DEF n
      <4>3. Offset(Ms) \in Nat /\ Offset(Ms) <= n
        BY <4>1, <4>2, DivFacts
      <4> QED
        BY <4>3 DEF n
    <3>3. Seg.seg_total_ms \in Nat
      BY <1>1 DEF Segment
    <3> QED
      BY <1>1, <1>3, <3>1, <3>2, <3>3 DEF SegmentEnd, Seg
  <2>4. SegmentsInOrder'
    <3> SUFFICES ASSUME NEW k \in 0 .. ind
                 PROVE  /\ cps_segs[k].seg_total_ms # 0
                        /\ seg_start_ms[k] # 0
                        /\ SegmentEnd(k) <= Ms
                        /\ seg_start_ms[k + 1] # 0 => SegmentEnd(k) <= seg_start_ms[k + 1]
      BY <1>1, <2>1 DEF SegmentsInOrder, SegmentEnd
    <3>1. CASE k = ind
      <4>1. seg_start_ms[ind + 1] = 0
        BY <1>1 DEF IInv, Begun
      <4> QED
        BY <1>3, <2>3, <3>1, <4>1 DEF Seg, Started
    <3>2. CASE k < ind
      <4>1. k \in 0 .. ind - 1
        BY <1>1, <3>2
      <4> QED
        BY <4>1 DEF IInv, SegmentsInOrder
    <3> QED
      BY <1>1, <3>1, <3>2
  <2>5. Begun'
    BY <1>1, <2>1 DEF IInv, Begun, Inds
  <2> QED
    BY <1>1, <2>1, <2>2, <2>4, <2>5
<1>4. CASE Seg.seg_total_ms # 0 /\ ~Started
  <2>1. /\ cps_seg_curr_ind' = ind
        /\ seg_start_ms' = [seg_start_ms EXCEPT ![ind] = Ms]
    BY <1>4 DEF Follow
  <2>2. seg_start_ms' \in [Inds -> Nat]
    BY <1>1, <2>1
  <2>3. Begun'
    BY <1>1, <2>1 DEF IInv, Begun
  <2>4. SegmentsInOrder'
    <3> SUFFICES ASSUME NEW k \in 0 .. ind - 1
                 PROVE  /\ cps_segs[k].seg_total_ms # 0
                        /\ seg_start_ms'[k] # 0
                        /\ SegmentEnd(k)' <= Ms
                        /\ seg_start_ms'[k + 1] # 0 =>
                              SegmentEnd(k)' <= seg_start_ms'[k + 1]
      BY <1>1, <2>1 DEF SegmentsInOrder
    <3>1. k \in Inds /\ k + 1 \in Inds /\ k # ind
      BY <1>1, <1>2
    <3>2. seg_start_ms'[k] = seg_start_ms[k] /\ SegmentEnd(k)' = SegmentEnd(k)
      BY <1>1, <2>1, <3>1 DEF SegmentEnd
    <3>3. seg_start_ms'[k + 1] = IF k + 1 = ind THEN Ms ELSE seg_start_ms[k + 1]
      BY <1>1, <2>1, <3>1
    <3> QED
      BY <3>2, <3>3 DEF IInv, SegmentsInOrder
  <2> QED
    BY <1>1, <2>1, <2>2, <2>3, <2>4
<1>5. CASE /\ ~(Seg.seg_total_ms # 0 /\ Started /\ Offset(Ms) >= Seg.seg_total_ms)
           /\ ~(Seg.seg_total_ms # 0 /\ ~Started)
  <2>1. cps_seg_curr_ind' = ind /\ seg_start_ms' = seg_start_ms
    BY <1>5 DEF Follow
  <2>2. SegmentsInOrder' /\ Begun'
    BY <1>1, <2>1 DEF IInv, SegmentsInOrder, SegmentEnd, Begun
  <2> QED
    BY <1>1, <2>1, <2>2
<1> QED
  BY <1>3, <1>4, <1>5

\* What a call that counts events does to the time base.
LEMMA Counting ==
    ASSUME TypeOK, BaseNotAhead, Counted # 0,
           NEW c, c = CurrCps(Ms),
           NEW delta, delta = Advance(Counted, c) - tsc_last
    PROVE  /\ Counted \in Nat /\ delta \in Nat /\ c \in Nat
           /\ Advance(Counted, c) = tsc_last + delta
           /\ delta <= now - tsc_last
           /\ c * delta <= TscPerSec * Counted
           /\ TscPerSec * Counted <= c * delta + c
           /\ (now - tsc_last) * c < Word =>
                 ((now - tsc_last) - delta) * c < TscPerSec + c
<1> DEFINE t == now - tsc_last
           d == ((TscPerSec * Counted) % Word) \div c
<1>1. t \in Nat /\ c \in Nat /\ tsc_last \in Nat
  BY CpsType DEF TypeOK, BaseNotAhead
<1>2. Counted = ((t * c) % Word) \div TscPerSec
  BY DEF Counted, Count, Due
<1>3. TscPerSec \in Nat \ {0} /\ Word \in Nat \ {0}
  BY CpsAssumption
<1> HIDE DEF t
<1>4. /\ Counted \in Nat /\ d \in Nat
      /\ d <= t
      /\ c * d <= TscPerSec * Counted
      /\ TscPerSec * Counted <= c * d + c
      /\ t * c < Word => (t - d) * c < TscPerSec + c
  BY <1>1, <1>2, <1>3, CountingFacts, ZenonT(60)
<1>5. delta = d /\ Advance(Counted, c) = tsc_last + d
  <2>1. Advance(Counted, c) = tsc_last + d
    BY DEF Advance
  <2> HIDE DEF d
  <2> QED
    BY <1>1, <1>4, <2>1
<1> HIDE DEF d
<1> QED
  BY <1>1, <1>4, <1>5 DEF t

LEMMA CountedType ==
    ASSUME TypeOK, BaseNotAhead
    PROVE  Counted \in Nat
<1>1. CASE Counted = 0
  BY <1>1
<1>2. CASE Counted # 0
  BY <1>2, Counting
<1> QED
  BY <1>1, <1>2

\* The sums of RateBound after a call that counts cnt events at rate c.
LEMMA SumsGrow ==
    ASSUME NEW lo \in Nat, NEW hi \in Nat, NEW c \in Nat, lo <= c, c <= hi,
           NEW s \in Nat, NEW x \in Nat, NEW g \in Nat, NEW n \in Nat,
           NEW cnt \in Nat, NEW delta \in Nat,
           lo * x <= n * s, n * s <= hi * (x + g),
           c * delta <= s * cnt, s * cnt <= c * delta + c
    PROVE  /\ lo * (x + delta) <= (n + cnt) * s
           /\ (n + cnt) * s <= hi * (x + delta + (g + 1))
<1>1. lo * delta <= c * delta /\ lo * delta \in Nat /\ c * delta \in Nat
  BY TimesGrows
<1>2. c * (delta + 1) <= hi * (delta + 1) /\ hi * (delta + 1) \in Nat
  BY TimesGrows
<1>3. c * (delta + 1) = c * delta + c
  OBVIOUS
<1>4. (n + cnt) * s = n * s + s * cnt
  OBVIOUS
<1>5. lo * (x + delta) = lo * x + lo * delta
  OBVIOUS
<1>6. hi * (x + delta + (g + 1)) = hi * (x + g) + hi * (delta + 1)
  OBVIOUS
<1>7. lo * x \in Nat /\ n * s \in Nat /\ hi * (x + g) \in Nat /\ s * cnt \in Nat
  OBVIOUS
<1> QED
  BY <1>1, <1>2, <1>3, <1>4, <1>5, <1>6, <1>7

\* What bounds the rates of a schedule that has moved on bounds those before,
\* and the rate asked for now.
LEMMA BoundKeeps ==
    ASSUME TypeOK, NEW lo \in Nat, NEW hi \in Nat, Bound(lo, hi)', cps_segs' = cps_segs,
           cps_seg_curr_ind' \in {cps_seg_curr_ind, cps_seg_curr_ind + 1}
    PROVE  Bound(lo, hi) /\ lo <= CurrCps(Ms) /\ CurrCps(Ms) <= hi
<1>1. Rates \subseteq Rates'
  BY DEF Rates, TypeOK
<1>2. Bound(lo, hi)
  BY <1>1 DEF Bound
<1>3. Seg.cps_start \in Rates /\ Seg.cps_end \in Rates
  <2>1. cps_seg_curr_ind \in 0 .. cps_seg_curr_ind
    BY DEF TypeOK
  <2> QED
    BY <2>1 DEF Rates, Seg
<1>4. lo <= Seg.cps_start /\ Seg.cps_start <= hi /\ lo <= Seg.cps_end /\ Seg.cps_end <= hi
  BY <1>2, <1>3 DEF Bound
<1> QED
  BY <1>2, <1>4, CpsInRange

\* The types of what CountEvents changes.
CountTyped ==
    /\ tsc_last \in Nat
    /\ cps_seg_curr_ind \in 0 .. SegsMax
    /\ seg_start_ms \in [Inds -> Nat]
    /\ first \in Nat /\ counted \in Nat /\ grants \in Nat

LEMMA CountKeeps ==
    ASSUME IInv, CountEvents, UNCHANGED <<now, cps_segs>>
    PROVE  CountTyped' /\ BaseNotAhead' /\ SegmentsInOrder' /\ Begun' /\ RateBound'
<1> USE DEF CountTyped
<1>1. TypeOK /\ BaseNotAhead /\ CountTyped /\ now \in Nat /\ now' = now
  BY DEF IInv, TypeOK
<1>2. CASE tsc_last = 0
  <2>1. /\ tsc_last' = now /\ first' = now
        /\ UNCHANGED <<cps_seg_curr_ind, seg_start_ms, counted, grants>>
    BY <1>2 DEF CountEvents
  <2>2. CountTyped'
    BY <1>1, <2>1
  <2>3. BaseNotAhead'
    BY <1>1, <2>1 DEF BaseNotAhead
  <2>4. SegmentsInOrder' /\ Begun'
    BY <1>1, <2>1 DEF IInv, SegmentsInOrder, SegmentEnd, Begun, Ms
  <2>5. RateBound'
    BY <1>1, <1>2, <2>1, CpsAssumption DEF IInv, RateBound
  <2> QED
    BY <2>2, <2>3, <2>4, <2>5
<1>3. CASE tsc_last # 0
  <2>1. /\ Follow(Ms)
        /\ tsc_last' = IF Counted = 0 THEN tsc_last ELSE Advance(Counted, CurrCps(Ms))
        /\ counted' = counted + Counted
        /\ grants' = IF Counted = 0 THEN grants ELSE grants + 1
        /\ first' = first
    BY <1>3 DEF CountEvents
  <2>2. /\ cps_seg_curr_ind' \in 0 .. SegsMax
        /\ cps_seg_curr_ind' \in {cps_seg_curr_ind, cps_seg_curr_ind + 1}
        /\ seg_start_ms' \in [Inds -> Nat]
        /\ SegmentsInOrder' /\ Begun'
    BY <2>1, FollowKeeps
  <2> DEFINE c == CurrCps(Ms)
             x == tsc_last - first
  <2>3. x \in Nat /\ TscPerSec \in Nat /\ c \in Nat /\ Counted \in Nat
    BY <1>1, CpsAssumption, CpsType, CountedType DEF IInv, RateBound
  <2>4. ASSUME NEW lo \in Nat, NEW hi \in Nat, Bound(lo, hi)'
        PROVE  /\ lo <= c /\ c <= hi
               /\ lo * x <= counted * TscPerSec
               /\ counted * TscPerSec <= hi * (x + grants)
    <3>1. Bound(lo, hi) /\ lo <= c /\ c <= hi
      BY <1>1, <2>2, <2>4, BoundKeeps
    <3> QED
      BY <3>1 DEF IInv, RateBound
  <2>5. CASE Counted = 0
    <3>1. tsc_last' = tsc_last /\ counted' = counted /\ grants' = grants /\ first' = first
      BY <1>1, <2>1, <2>5
    <3>2. RateBound'
      <4>1. first' <= tsc_last' /\ tsc_last' # 0
        BY <1>3, <3>1 DEF IInv, RateBound
      <4> QED
        BY <2>4, <3>1, <4>1 DEF RateBound
    <3> QED
      BY <1>1, <2>2, <3>1, <3>2 DEF BaseNotAhead
  <2>6. CASE Counted # 0
    <3> DEFINE delta == Advance(Counted, c) - tsc_last
    <3>0. Advance(Counted, c) = tsc_last + delta
      BY <1>1, <2>6, Counting
    <3>1. /\ Counted \in Nat /\ delta \in Nat /\ delta <= now - tsc_last
          /\ c * delta <= TscPerSec * Counted
          /\ TscPerSec * Counted <= c * delta + c
      BY <1>1, <2>6, Counting
    <3>2. tsc_last' = tsc_last + delta /\ counted' = counted + Counted
          /\ grants' = grants + 1 /\ first' = first
      BY <2>1, <2>6, <3>0
    <3> HIDE DEF delta, c
    <3>3. CountTyped' /\ BaseNotAhead'
      BY <1>1, <2>2, <3>1, <3>2 DEF BaseNotAhead
    <3>4. RateBound'
      <4>1. first' <= tsc_last' /\ tsc_last' # 0
        BY <1>1, <1>3, <3>1, <3>2 DEF IInv, RateBound
      <4>2. ASSUME NEW lo \in Nat, NEW hi \in Nat, Bound(lo, hi)'
            PROVE  /\ lo * (tsc_last' - first') <= counted' * TscPerSec
                   /\ counted' * TscPerSec <= hi * (tsc_last' - first' + grants')
        <5>1. tsc_last' - first' = x + delta
          BY <1>1, <3>1, <3>2
        <5>2. /\ lo <= c /\ c <= hi
              /\ lo * x <= counted * TscPerSec
              /\ counted * TscPerSec <= hi * (x + grants)
          BY <4>2, <2>4
        <5> HIDE DEF x
        <5>3. /\ lo * (x + delta) <= (counted + Counted) * TscPerSec
              /\ (counted + Counted) * TscPerSec <= hi * (x + delta + (grants + 1))
          BY <1>1, <2>3, <3>1, <5>2, SumsGrow, ZenonT(60)
        <5> QED
          BY <3>2, <5>1, <5>3
      <4> QED
        BY <4>1, <4>2 DEF RateBound
    <3> QED
      BY <2>2, <3>3, <3>4
  <2> QED
    BY <2>5, <2>6
<1> QED
  BY <1>2, <1>3

LEMMA GetKeeps ==
    ASSUME IInv, Get
    PROVE  IInv'
<1>1. /\ CountEvents /\ given' = given + Counted
      /\ UNCHANGED <<now, send_cnt_remain, cps_segs>>
  BY DEF Get
<1>2. CountTyped' /\ BaseNotAhead' /\ SegmentsInOrder' /\ Begun' /\ RateBound'
  BY <1>1, CountKeeps
<1>3. given' \in Nat
  BY <1>1, CountedType DEF IInv, TypeOK
<1> QED
  BY <1>1, <1>2, <1>3 DEF IInv, TypeOK, CountTyped

\* How the events given and saved add up after dkfw_cps_limited_get.
LEMMA LimitedFacts ==
    ASSUME IInv, LimitedGet
    PROVE  given' \in Nat /\ send_cnt_remain' \in 0 .. RemainMax /\ OwedStep
<1>1. /\ Counted \in Nat /\ RemainMax \in Nat /\ given \in Nat /\ counted \in Nat
      /\ send_cnt_remain \in 0 .. RemainMax
  BY CountedType, CpsAssumption DEF IInv, TypeOK
<1>2. counted' = counted + Counted
  BY <1>1 DEF LimitedGet, CountEvents, Counted
<1>3. CASE Counted > 0
  <2>1. given' = given + 1 /\ send_cnt_remain' = Saved(Counted)
    BY <1>3 DEF LimitedGet
  <2> QED
    BY <1>1, <1>2, <1>3, <2>1 DEF Saved, OwedStep
<1>4. CASE ~(Counted > 0)
  <2>1. /\ Counted = 0
        /\ \/ given' = given + 1 /\ send_cnt_remain' = send_cnt_remain - 1
              /\ send_cnt_remain > 0
           \/ given' = given /\ send_cnt_remain' = send_cnt_remain
    BY <1>1, <1>4 DEF LimitedGet
  <2> QED
    BY <1>1, <1>2, <2>1 DEF OwedStep
<1> QED
  BY <1>3, <1>4

LEMMA LimitedGetKeeps ==
    ASSUME IInv, LimitedGet
    PROVE  IInv'
<1>1. CountEvents /\ UNCHANGED <<now, cps_segs>>
  BY DEF LimitedGet
<1>2. CountTyped' /\ BaseNotAhead' /\ SegmentsInOrder' /\ Begun' /\ RateBound'
  BY <1>1, CountKeeps
<1> QED
  BY <1>1, <1>2, LimitedFacts DEF IInv, TypeOK, CountTyped

LEMMA AbsValueGetKeeps ==
    ASSUME IInv, AbsValueGet
    PROVE  IInv'
<1>1. /\ Follow(Ms)
      /\ UNCHANGED <<now, tsc_last, send_cnt_remain, cps_segs, first, counted,
                     grants, given>>
  BY DEF AbsValueGet
<1>2. /\ cps_seg_curr_ind' \in 0 .. SegsMax
      /\ cps_seg_curr_ind' \in {cps_seg_curr_ind, cps_seg_curr_ind + 1}
      /\ seg_start_ms' \in [Inds -> Nat]
      /\ SegmentsInOrder' /\ Begun'
  BY <1>1, FollowKeeps
<1>3. TypeOK' /\ BaseNotAhead'
  BY <1>1, <1>2 DEF IInv, TypeOK, BaseNotAhead
<1>4. RateBound'
  <2>1. ASSUME NEW lo \in Nat, NEW hi \in Nat, Bound(lo, hi)'
        PROVE  Bound(lo, hi)
    BY <1>1, <1>2, <2>1, BoundKeeps DEF IInv
  <2> QED
    BY <1>1, <2>1 DEF IInv, RateBound
<1> QED
  BY <1>2, <1>3, <1>4 DEF IInv

LEMMA PassKeeps ==
    ASSUME IInv, NEW pause \in Pauses, Pass(pause)
    PROVE  IInv'
<1>1. /\ now' = now + pause
      /\ UNCHANGED <<tsc_last, send_cnt_remain, cps_seg_curr_ind, cps_segs,
                     seg_start_ms, first, counted, grants, given>>
  BY DEF Pass
<1>2. now \in Nat /\ now' \in Nat /\ now <= now'
  BY <1>1, CpsAssumption DEF IInv, TypeOK
<1>3. Ms \in Nat /\ Ms' \in Nat /\ Ms <= Ms'
  <2>1. now' \div TscPerMs \in Nat /\ now \div TscPerMs <= now' \div TscPerMs
    BY <1>2, CpsAssumption, DivFacts, DivGrows
  <2> QED
    BY <1>2, <2>1, MsType DEF Ms
<1>4. TypeOK' /\ BaseNotAhead'
  BY <1>1, <1>2 DEF IInv, TypeOK, BaseNotAhead
<1>5. SegmentsInOrder'
  <2> SUFFICES ASSUME NEW k \in 0 .. cps_seg_curr_ind - 1
               PROVE  SegmentEnd(k) <= Ms'
    BY <1>1 DEF IInv, SegmentsInOrder, SegmentEnd
  <2>1. SegmentEnd(k) <= Ms
    BY DEF IInv, SegmentsInOrder
  <2>2. SegmentEnd(k) \in Nat
    <3>1. k \in Inds
      BY CpsAssumption DEF IInv, TypeOK, Inds
    <3> QED
      BY <3>1, SegType DEF IInv, TypeOK, SegmentEnd, Segment
  <2> QED
    BY <1>3, <2>1, <2>2
<1>6. Begun'
  BY <1>1, <1>3 DEF IInv, TypeOK, Begun
<1>7. RateBound'
  BY <1>1 DEF IInv, RateBound, Bound, Rates
<1> QED
  BY <1>4, <1>5, <1>6, <1>7 DEF IInv

LEMMA NextIInv == IInv /\ [Next]_vars => IInv'
<1> SUFFICES ASSUME IInv, [Next]_vars PROVE IInv'
  OBVIOUS
<1>1. CASE Get
  BY <1>1, GetKeeps
<1>2. CASE LimitedGet
  BY <1>2, LimitedGetKeeps
<1>3. CASE AbsValueGet
  BY <1>3, AbsValueGetKeeps
<1>4. ASSUME NEW pause \in Pauses, Pass(pause) PROVE IInv'
  BY <1>4, PassKeeps
<1>5. CASE UNCHANGED vars
  BY <1>5 DEF vars, IInv, TypeOK, BaseNotAhead, SegmentsInOrder, SegmentEnd, Begun, Ms,
              RateBound, Bound, Rates
<1> QED
  BY <1>1, <1>2, <1>3, <1>4, <1>5 DEF Next

LEMMA Invariant == Spec => []IInv
BY InitIInv, NextIInv, PTL DEF Spec
-----------------------------------------------------------------------------
(***************************************************************************)
(* The variables keep their types; that the index of the segment does is   *)
(* due to the zero segment behind the last (cps.c:34 checks no bound).     *)
(***************************************************************************)
THEOREM TypeCorrect == Spec => []TypeOK
<1>1. IInv => TypeOK
  BY DEF IInv
<1> QED
  BY <1>1, Invariant, PTL

(***************************************************************************)
(* The time base never passes the clock, whatever overflows (cps.c:61).    *)
(***************************************************************************)
THEOREM NeverAhead == Spec => []BaseNotAhead
<1>1. IInv => BaseNotAhead
  BY DEF IInv
<1> QED
  BY <1>1, Invariant, PTL

(***************************************************************************)
(* Segments end after their time and start in order (cps.c:26-36).         *)
(***************************************************************************)
THEOREM InOrder == Spec => []SegmentsInOrder
<1>1. IInv => SegmentsInOrder
  BY DEF IInv
<1> QED
  BY <1>1, Invariant, PTL

(***************************************************************************)
(* What is counted lies between the lowest and the highest rate of the     *)
(* schedule so far, over the time that tsc_last has moved, but for a tick  *)
(* per counting call (cps.c:61-69).                                        *)
(***************************************************************************)
THEOREM RateIsKept == Spec => []RateKept
<1>1. IInv => RateKept
  <2> SUFFICES ASSUME IInv,
                      NEW lo \in Rates, NEW hi \in Rates,
                      \A r \in Rates : lo <= r /\ r <= hi
               PROVE  /\ lo * (tsc_last - first) <= counted * TscPerSec
                      /\ counted * TscPerSec <= hi * (tsc_last - first + grants)
    BY DEF RateKept
  <2>1. Rates \subseteq Nat
    <3>1. \A k \in 0 .. cps_seg_curr_ind : cps_segs[k] \in Segment
      BY SegType, CpsAssumption DEF IInv, TypeOK, Inds
    <3> QED
      BY <3>1 DEF Rates, Segment
  <2> QED
    BY <2>1 DEF IInv, RateBound, Bound
<1> QED
  BY <1>1, Invariant, PTL

(***************************************************************************)
(* A call that counts leaves less than an event and a tick, if time times  *)
(* rate fits a word (cps.c:61).                                            *)
(***************************************************************************)
THEOREM LeavesLessThanOne == Spec => CatchesUp
<1>1. IInv /\ [Next]_vars => [CatchUpStep]_vars
  <2> SUFFICES ASSUME IInv, Next, counted' # counted,
                      (now - tsc_last) * CurrCps(Ms) < Word
               PROVE  (now - tsc_last') * CurrCps(Ms) < TscPerSec + CurrCps(Ms)
    BY DEF CatchUpStep
  <2> DEFINE c == CurrCps(Ms)
             delta == Advance(Counted, c) - tsc_last
  <2>1. CountEvents
    BY DEF Next, Get, LimitedGet, AbsValueGet, Pass
  <2>2. Counted # 0 /\ tsc_last' = Advance(Counted, c)
    <3>1. counted \in Nat
      BY DEF IInv, TypeOK
    <3> QED
      BY <2>1, <3>1 DEF CountEvents
  <2>3. /\ tsc_last' = tsc_last + delta /\ delta \in Nat
        /\ ((now - tsc_last) - delta) * c < TscPerSec + c
    BY <2>2, Counting DEF IInv
  <2>4. now - tsc_last' = (now - tsc_last) - delta
    BY <2>3 DEF IInv, TypeOK
  <2> HIDE DEF delta
  <2> QED
    BY <2>3, <2>4
<1> QED
  BY <1>1, Invariant, PTL DEF Spec, CatchesUp

(***************************************************************************)
(* The limited call neither invents nor forgets events, but for those above*)
(* what may be saved (cps.c:74-97).                                        *)
(***************************************************************************)
THEOREM NothingForgotten == Spec => OwedKept
<1>1. IInv /\ [Next]_vars => [OwedStep]_vars
  <2> SUFFICES ASSUME IInv, Next PROVE OwedStep
    OBVIOUS
  <2>1. Counted \in Nat /\ given \in Nat /\ counted \in Nat /\ RemainMax \in Nat
        /\ send_cnt_remain \in 0 .. RemainMax
    BY CountedType, CpsAssumption DEF IInv, TypeOK
  <2>2. CASE Get
    <3>1. counted' = counted + Counted /\ given' = given + Counted
          /\ send_cnt_remain' = send_cnt_remain
      BY <2>1, <2>2 DEF Get, CountEvents, Counted
    <3> QED
      BY <2>1, <3>1 DEF OwedStep
  <2>3. CASE LimitedGet
    BY <2>3, LimitedFacts
  <2>4. CASE AbsValueGet \/ \E pause \in Pauses : Pass(pause)
    <3>1. UNCHANGED <<send_cnt_remain, counted, given>>
      BY <2>4 DEF AbsValueGet, Pass
    <3> QED
      BY <2>1, <3>1 DEF OwedStep
  <2> QED
    BY <2>2, <2>3, <2>4 DEF Next
<1> QED
  BY <1>1, Invariant, PTL DEF Spec, OwedKept
-----------------------------------------------------------------------------
(***************************************************************************)
(* Ramps.  They need a word that holds the clock and the product of the    *)
(* length of a ramp and its rise or fall.                                  *)
(***************************************************************************)
RampsFit ==
    /\ MaxTsc < Word
    /\ \A s \in Schedules, k \in Inds :
         /\ s[k].seg_total_ms * (s[k].cps_end - s[k].cps_start) < Word
         /\ s[k].seg_total_ms * (s[k].cps_start - s[k].cps_end) < Word

\* How far a ramp of m ms has come at o on its way of diff.
Part(o, m, diff) == IF o >= m THEN diff ELSE ((o * diff) % Word) \div m

LEMMA PartGrows ==
    ASSUME NEW x \in Nat, NEW y \in Nat, x <= y,
           NEW m \in Nat \ {0}, NEW diff \in Nat, m * diff < Word
    PROVE  /\ Part(x, m, diff) \in Nat /\ Part(x, m, diff) <= Part(y, m, diff)
           /\ Part(y, m, diff) \in Nat /\ Part(y, m, diff) <= diff
<1>1. ASSUME NEW z \in Nat
      PROVE  Part(z, m, diff) \in Nat /\ Part(z, m, diff) <= diff
  <2>1. CASE z < m
    <3>1. ((z * diff) % Word) \div m \in 0 .. diff
      BY <2>1, RampPart
    <3> QED
      BY <2>1, <3>1 DEF Part
  <2>2. CASE ~(z < m)
    BY <2>2 DEF Part
  <2> QED
    BY <2>1, <2>2
<1>2. CASE y < m
  <2>1. /\ x * diff \in Nat /\ y * diff \in Nat /\ m * diff \in Nat
        /\ x * diff <= y * diff /\ y * diff <= m * diff
    BY <1>2, TimesGrows
  <2>2. (x * diff) % Word = x * diff /\ (y * diff) % Word = y * diff
    <3>1. x * diff < Word /\ y * diff < Word /\ Word \in Nat \ {0}
      BY <2>1, CpsAssumption
    <3> QED
      BY <2>1, <3>1, DivFacts
  <2>3. (x * diff) \div m <= (y * diff) \div m
    BY <2>1, DivGrows
  <2>4. Part(x, m, diff) = (x * diff) \div m /\ Part(y, m, diff) = (y * diff) \div m
    BY <1>2, <2>2 DEF Part
  <2> QED
    BY <1>1, <2>3, <2>4
<1>3. CASE ~(y < m)
  <2>1. Part(y, m, diff) = diff
    BY <1>3 DEF Part
  <2> QED
    BY <1>1, <2>1
<1> QED
  BY <1>2, <1>3

\* The rate is the first value and what the ramp has come by.
LEMMA RateIsPart ==
    ASSUME TypeOK, Seg.seg_total_ms # 0, Started, NEW ms, Offset(ms) \in Nat
    PROVE  /\ Seg.cps_start <= Seg.cps_end =>
                CurrCps(ms) = Seg.cps_start
                   + Part(Offset(ms), Seg.seg_total_ms, Seg.cps_end - Seg.cps_start)
           /\ Seg.cps_start >= Seg.cps_end =>
                CurrCps(ms) = Seg.cps_start
                   - Part(Offset(ms), Seg.seg_total_ms, Seg.cps_start - Seg.cps_end)
<1> DEFINE o == Offset(ms)
           up == Seg.cps_end - Seg.cps_start
           down == Seg.cps_start - Seg.cps_end
<1>1. Seg.cps_start \in Nat /\ Seg.cps_end \in Nat /\ Seg.seg_total_ms \in Nat \ {0}
  BY SegType DEF Segment
<1>2. CASE o >= Seg.seg_total_ms
  <2>1. CurrCps(ms) = Seg.cps_end
    BY <1>2 DEF CurrCps
  <2>2. Part(o, Seg.seg_total_ms, up) = up /\ Part(o, Seg.seg_total_ms, down) = down
    BY <1>2 DEF Part
  <2> QED
    BY <1>1, <2>1, <2>2
<1>3. CASE ~(o >= Seg.seg_total_ms)
  <2>1. CurrCps(ms) = Ramp(Seg, o)
    BY <1>3 DEF CurrCps
  <2>2. ASSUME Seg.cps_start <= Seg.cps_end
        PROVE  Ramp(Seg, o) = Seg.cps_start + Part(o, Seg.seg_total_ms, up)
    BY <1>3, <2>2 DEF Ramp, Part
  <2>3. ASSUME Seg.cps_start >= Seg.cps_end
        PROVE  Ramp(Seg, o) = Seg.cps_start - Part(o, Seg.seg_total_ms, down)
    <3>1. CASE Seg.cps_start = Seg.cps_end
      <4>1. up = 0 /\ down = 0
        BY <1>1, <3>1
      <4>2. Part(o, Seg.seg_total_ms, 0) = 0
        <5>1. ((o * 0) % Word) \div Seg.seg_total_ms \in 0 .. 0
          BY <1>1, <1>3, RampPart
        <5> QED
          BY <1>3, <5>1 DEF Part
      <4>3. Ramp(Seg, o) = Seg.cps_start + Part(o, Seg.seg_total_ms, up)
        BY <1>1, <2>2, <3>1
      <4> HIDE DEF up, down, o
      <4> QED
        BY <1>1, <4>1, <4>2, <4>3
    <3>2. CASE Seg.cps_start # Seg.cps_end
      <4>1. ~(Seg.cps_start <= Seg.cps_end)
        BY <1>1, <2>3, <3>2
      <4> QED
        BY <1>3, <4>1 DEF Ramp, Part
    <3> QED
      BY <3>1, <3>2
  <2> QED
    BY <2>1, <2>2, <2>3
<1> QED
  BY <1>2, <1>3

(***************************************************************************)
(* Asked at any later time, the same segment gives a rate no further from  *)
(* its last value, up as well as down (cps.c:42-45), for every schedule    *)
(* and clock that RampsFit admits.                                         *)
(***************************************************************************)
THEOREM RampsDoNotTurn == RampsFit => (Spec => []RampMonotone)
<1> SUFFICES ASSUME RampsFit PROVE Spec => []RampMonotone
  OBVIOUS
<1>1. IInv => RampMonotone
  <2> SUFFICES ASSUME IInv, NEW m \in Ms .. MaxTsc \div TscPerMs
               PROVE  /\ Seg.cps_start <= Seg.cps_end =>
                           /\ Seg.cps_start <= CurrCps(Ms) /\ CurrCps(Ms) <= CurrCps(m)
                           /\ CurrCps(m) <= Seg.cps_end
                      /\ Seg.cps_start >= Seg.cps_end =>
                           /\ Seg.cps_start >= CurrCps(Ms) /\ CurrCps(Ms) >= CurrCps(m)
                           /\ CurrCps(m) >= Seg.cps_end
    BY DEF RampMonotone
  <2> DEFINE start == seg_start_ms[cps_seg_curr_ind]
             total == Seg.seg_total_ms
  <2>1. TypeOK /\ Begun
    BY DEF IInv
  <2>2. Ms \in Nat /\ MaxTsc \in Nat /\ Word \in Nat \ {0} /\ TscPerMs \in Nat \ {0}
    BY <2>1, MsType, CpsAssumption DEF TypeOK
  <2>3. /\ Seg.cps_start \in Nat /\ Seg.cps_end \in Nat /\ total \in Nat
        /\ cps_seg_curr_ind \in Inds
    BY <2>1, SegType DEF Segment
  <2>4. CASE total = 0 \/ ~Started
    <3>1. CurrCps(Ms) = Seg.cps_start /\ CurrCps(m) = Seg.cps_start
      BY <2>4 DEF CurrCps
    <3> QED
      BY <2>3, <3>1
  <2>5. CASE total # 0 /\ Started
    <3>1. start \in Nat /\ start <= Ms
      BY <2>1, <2>3 DEF TypeOK, Begun
    <3>2. m \in Nat /\ Ms <= m /\ m < Word
      <4>1. MaxTsc \div TscPerMs \in Nat /\ MaxTsc \div TscPerMs <= MaxTsc
        <5>1. MaxTsc <= TscPerMs * MaxTsc
          <6>1. 1 * MaxTsc <= TscPerMs * MaxTsc
            BY <2>2, TimesGrows
          <6> QED
            BY <2>2, <6>1
        <5> QED
          BY <2>2, <5>1, DivFacts, DivBound
      <4> QED
        BY <2>2, <4>1 DEF RampsFit
    <3>3. ASSUME NEW z \in {Ms, m} PROVE Offset(z) = z - start /\ z - start \in Nat
      <4>1. z - start \in Nat /\ z - start < Word
        BY <2>2, <3>1, <3>2
      <4> QED
        BY <2>2, <4>1, DivFacts DEF Offset
    <3>4. Offset(Ms) \in Nat /\ Offset(m) \in Nat /\ Offset(Ms) <= Offset(m)
      BY <2>2, <3>1, <3>2, <3>3
    <3> DEFINE up == Seg.cps_end - Seg.cps_start
               down == Seg.cps_start - Seg.cps_end
    <3>5. total * up < Word /\ total * down < Word
      BY <2>1, <2>3 DEF RampsFit, TypeOK, Seg
    <3>6. ASSUME Seg.cps_start <= Seg.cps_end
          PROVE  /\ Seg.cps_start <= CurrCps(Ms) /\ CurrCps(Ms) <= CurrCps(m)
                 /\ CurrCps(m) <= Seg.cps_end
      <4>1. up \in Nat
        BY <2>3, <3>6
      <4>2. /\ CurrCps(Ms) = Seg.cps_start + Part(Offset(Ms), total, up)
            /\ CurrCps(m) = Seg.cps_start + Part(Offset(m), total, up)
        BY <2>1, <2>5, <3>4, <3>6, RateIsPart
      <4>3. /\ Part(Offset(Ms), total, up) \in Nat /\ Part(Offset(m), total, up) \in Nat
            /\ Part(Offset(Ms), total, up) <= Part(Offset(m), total, up)
            /\ Part(Offset(m), total, up) <= up
        <5> HIDE DEF up, total
        <5>1. total \in Nat \ {0}
          BY <2>3, <2>5
        <5> QED
          BY <3>4, <3>5, <4>1, <5>1, PartGrows
      <4> QED
        BY <2>3, <4>2, <4>3
    <3>7. ASSUME Seg.cps_start >= Seg.cps_end
          PROVE  /\ Seg.cps_start >= CurrCps(Ms) /\ CurrCps(Ms) >= CurrCps(m)
                 /\ CurrCps(m) >= Seg.cps_end
      <4>1. down \in Nat
        BY <2>3, <3>7
      <4>2. /\ CurrCps(Ms) = Seg.cps_start - Part(Offset(Ms), total, down)
            /\ CurrCps(m) = Seg.cps_start - Part(Offset(m), total, down)
        BY <2>1, <2>5, <3>4, <3>7, RateIsPart
      <4>3. /\ Part(Offset(Ms), total, down) \in Nat /\ Part(Offset(m), total, down) \in Nat
            /\ Part(Offset(Ms), total, down) <= Part(Offset(m), total, down)
            /\ Part(Offset(m), total, down) <= down
        <5> HIDE DEF down, total
        <5>1. total \in Nat \ {0}
          BY <2>3, <2>5
        <5> QED
          BY <3>4, <3>5, <4>1, <5>1, PartGrows
      <4> QED
        BY <2>3, <4>2, <4>3
    <3> QED
      BY <3>6, <3>7
  <2> QED
    BY <2>4, <2>5
<1> QED
  BY <1>1, Invariant, PTL
=============================================================================
