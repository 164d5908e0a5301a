-------------------------- MODULE TimerWheelProofs --------------------------
(***************************************************************************)
(* The cascading wheel keeps the promise of TimerService for vectors of    *)
(* any size, any width of the tick counter and any value it starts with.   *)
(***************************************************************************)
EXTENDS TimerWheel, SequenceTheorems, FiniteSetTheorems, WellFoundedInduction, TLAPS

(***************************************************************************)
(* Arithmetic of ticks.                                                    *)
(***************************************************************************)
LEMMA Division ==
    ASSUME NEW a \in Int, NEW m \in Nat \ {0}
    PROVE  /\ a \div m \in Int /\ a % m \in 0 .. m - 1
           /\ a = m * (a \div m) + (a % m)
OBVIOUS

LEMMA DivisionIs ==
    ASSUME NEW m \in Nat \ {0}, NEW q \in Int, NEW r \in 0 .. m - 1
    PROVE  (m * q + r) \div m = q /\ (m * q + r) % m = r
<1> DEFINE a == m * q + r
<1>0. a \in Int
  OBVIOUS
<1>1. PICK d \in Int, e \in 0 .. m - 1 : d = a \div m /\ e = a % m /\ a = m * d + e
  BY <1>0, Division
<1>2. m * (q - d) = e - r
  BY <1>1
<1>3. ~(q - d >= 1)
  <2> SUFFICES ASSUME q - d >= 1 PROVE FALSE
    OBVIOUS
  <2>1. m * (q - d) >= m
    BY <1>1
  <2> QED
    BY <1>1, <1>2, <2>1
<1>4. ~(d - q >= 1)
  <2> SUFFICES ASSUME d - q >= 1 PROVE FALSE
    OBVIOUS
  <2>1. m * (d - q) >= m
    BY <1>1
  <2> QED
    BY <1>1, <1>2, <2>1
<1>5. d = q
  BY <1>1, <1>3, <1>4
<1> QED
  BY <1>1, <1>5

LEMMA PlaceIs ==
    ASSUME NEW a \in Int, NEW m \in Nat \ {0}, NEW q \in Int, NEW e \in 0 .. m - 1,
           a = m * q + e
    PROVE  a % m = e
BY DivisionIs

\* a and b differ by rounds of m.
Congruent(a, b, m) == \E k \in Int : a = b + m * k

LEMMA SamePlace ==
    ASSUME NEW a \in Int, NEW b \in Int, NEW m \in Nat \ {0}, Congruent(a, b, m)
    PROVE  a % m = b % m
<1>0. PICK k \in Int : a = b + m * k
  BY DEF Congruent
<1>1. PICK d \in Int, e \in 0 .. m - 1 : e = b % m /\ b = m * d + e
  BY Division
<1>2. PICK q \in Int : q = d + k
  OBVIOUS
<1>3. a = m * q + e
  BY <1>0, <1>1, <1>2
<1>4. a % m = e
  BY ONLY a \in Int, m \in Nat \ {0}, <1>3, PlaceIs
<1> QED
  BY <1>1, <1>4

LEMMA CongruentLater ==
    ASSUME NEW a \in Int, NEW b \in Int, NEW y \in Int, NEW m \in Nat \ {0}, Congruent(a, b, m)
    PROVE  Congruent(a + y, b + y, m)
BY DEF Congruent

LEMMA CongruentPlace ==
    ASSUME NEW a \in Int, NEW m \in Nat \ {0}
    PROVE  Congruent(a, a % m, m)
<1>1. a = (a % m) + m * (a \div m)
  BY Division
<1> QED
  BY <1>1, Division DEF Congruent

LEMMA CongruentWord ==
    ASSUME NEW a \in Int, NEW b \in Int, NEW m \in Nat \ {0}, NEW c \in Nat \ {0},
           Congruent(a, b, m * c)
    PROVE  Congruent(a, b, m)
<1>1. PICK k \in Int : a = b + (m * c) * k
  BY DEF Congruent
<1>2. (m * c) * k = m * (c * k)
  BY ONLY m \in Nat, c \in Nat, k \in Int
<1>3. a = b + m * (c * k) /\ c * k \in Int
  BY <1>1, <1>2
<1> QED
  BY <1>3 DEF Congruent

(* A round that divides the word survives a wrap. *)
LEMMA Wrapped ==
    ASSUME NEW a \in Int, NEW y \in Int, NEW m \in Nat \ {0}, NEW c \in Nat \ {0}
    PROVE  ((a % (m * c)) + y) % m = (a + y) % m
<1>1. PICK w \in Nat \ {0} : w = m * c
  OBVIOUS
<1>2. PICK e \in Int : e = a % w
  BY Division
<1>3. Congruent(a, e, m)
  BY <1>1, <1>2, CongruentPlace, CongruentWord
<1>4. Congruent(a + y, e + y, m)
  BY <1>3, CongruentLater
<1>5. a + y \in Int /\ e + y \in Int
  OBVIOUS
<1>6. (a + y) % m = (e + y) % m
  BY <1>4, <1>5, SamePlace
<1> QED
  BY <1>1, <1>2, <1>6

(* The place in a round of n lists of s ticks is a list and a place in it. *)
LEMMA InRound ==
    ASSUME NEW a \in Int, NEW s \in Nat \ {0}, NEW n \in Nat \ {0}, NEW w, w = s * n
    PROVE  a % w = ((a \div s) % n) * s + (a % s)
<1>1. PICK d \in Int, e \in 0 .. s - 1 : d = a \div s /\ e = a % s /\ a = s * d + e
  BY Division
<1>2. PICK q \in Int, r \in 0 .. n - 1 : r = d % n /\ d = n * q + r
  BY Division
<1>3. PICK t : t = r * s + e
  OBVIOUS
<1>4. t \in 0 .. w - 1
  <2>1. (n - r) * s >= s
    BY <1>2
  <2>2. n * s - r * s >= s /\ r * s >= 0 /\ r * s \in Int
    BY <1>2, <2>1
  <2> QED
    BY <1>1, <1>3, <2>2
<1>5. a = w * q + t
  <2>1. s * d = s * (n * q) + s * r
    BY <1>2
  <2>2. s * (n * q) = (s * n) * q
    OBVIOUS
  <2> QED
    BY <1>1, <1>3, <2>1, <2>2
<1>6. w \in Nat \ {0}
  OBVIOUS
<1>7. a % w = t
  BY <1>4, <1>5, <1>6, PlaceIs
<1> QED
  BY <1>1, <1>2, <1>3, <1>7

(* Two places of one round less than a round apart. *)
LEMMA RoundBegins ==
    ASSUME NEW a \in Int, NEW m \in Nat \ {0}, NEW f \in 0 .. m - 1, (a + f) % m = a % m
    PROVE  f = 0
<1>1. PICK d \in Int, e \in 0 .. m - 1 : e = a % m /\ a = m * d + e
  BY Division
<1>2. CASE e + f < m
  <2>1. a + f = m * d + (e + f) /\ e + f \in 0 .. m - 1
    BY <1>1, <1>2
  <2>2. (a + f) % m = e + f
    BY ONLY a + f \in Int, m \in Nat \ {0}, d \in Int, d + 1 \in Int, <2>1, PlaceIs
  <2> QED
    BY <1>1, <2>2
<1>3. CASE e + f >= m
  <2>1. a + f = m * (d + 1) + (e + f - m) /\ e + f - m \in 0 .. m - 1 /\ d + 1 \in Int
    BY <1>1, <1>3
  <2>2. (a + f) % m = e + f - m
    BY ONLY a + f \in Int, m \in Nat \ {0}, d \in Int, d + 1 \in Int, <2>1, PlaceIs
  <2> QED
    BY <1>1, <2>2
<1> QED
  BY <1>1, <1>2, <1>3

(***************************************************************************)
(* Lists of timers.                                                        *)
(***************************************************************************)
NoRepeat(s) == \A i, j \in 1 .. Len(s) : s[i] = s[j] => i = j

LEMMA RangeIs ==
    ASSUME NEW X, NEW s \in Seq(X)
    PROVE  /\ \A t : t \in Range(s) <=> \E i \in 1 .. Len(s) : s[i] = t
           /\ Range(s) \subseteq X
           /\ Len(s) \in Nat
           /\ s = <<>> <=> Range(s) = {}
<1>1. Len(s) \in Nat /\ DOMAIN s = 1 .. Len(s) /\ \A i \in 1 .. Len(s) : s[i] \in X
  BY SeqDef, LenProperties
<1>2. \A t : t \in Range(s) <=> \E i \in 1 .. Len(s) : s[i] = t
  BY <1>1 DEF Range
<1>3. s # <<>> => 1 \in 1 .. Len(s)
  BY <1>1, EmptySeq
<1>4. Len(<<>>) = 0
  BY EmptySeq
<1>5. s = <<>> <=> Range(s) = {}
  <2>1. ASSUME s # <<>> PROVE Range(s) # {}
    BY <1>2, <1>3, <2>1
  <2>2. ASSUME s = <<>>, NEW t \in Range(s) PROVE FALSE
    BY <1>2, <1>4, <2>2
  <2> QED
    BY <2>1, <2>2
<1>6. Range(s) \subseteq X
  BY <1>1, <1>2
<1> QED
  BY <1>1, <1>2, <1>5, <1>6

LEMMA AppendFacts ==
    ASSUME NEW X, NEW s \in Seq(X), NEW t \in X
    PROVE  /\ Append(s, t) \in Seq(X)
           /\ Range(Append(s, t)) = Range(s) \cup {t}
           /\ NoRepeat(s) /\ t \notin Range(s) => NoRepeat(Append(s, t))
<1> PICK k \in Nat : k = Len(s)
  BY RangeIs
<1>1. PICK a \in Seq(X) : a = Append(s, t)
  BY AppendProperties
<1>2. Len(a) = k + 1 /\ (\A i \in 1 .. k : a[i] = s[i]) /\ a[k + 1] = t
  BY <1>1, AppendProperties
<1>3. \A i : i \in 1 .. k + 1 <=> i \in 1 .. k \/ i = k + 1
  OBVIOUS
<1>4. \A x : x \in Range(a) <=> \E i \in 1 .. k + 1 : a[i] = x
  BY <1>2, RangeIs
<1>5. \A x : x \in Range(s) <=> \E i \in 1 .. k : s[i] = x
  BY RangeIs
<1>6. Range(a) = Range(s) \cup {t}
  BY <1>2, <1>3, <1>4, <1>5
<1>7. ASSUME NoRepeat(s), t \notin Range(s) PROVE NoRepeat(a)
  <2>1. \A i \in 1 .. k : s[i] # t
    BY <1>5, <1>7
  <2> QED
    BY <1>2, <1>3, <1>7, <2>1 DEF NoRepeat
<1> QED
  BY <1>1, <1>6, <1>7

LEMMA ConcatFacts ==
    ASSUME NEW X, NEW s \in Seq(X), NEW r \in Seq(X)
    PROVE  /\ s \o r \in Seq(X)
           /\ Range(s \o r) = Range(s) \cup Range(r)
           /\ NoRepeat(s) /\ NoRepeat(r) /\ Range(s) \cap Range(r) = {} => NoRepeat(s \o r)
<1> PICK k \in Nat, l \in Nat : k = Len(s) /\ l = Len(r)
  BY RangeIs
<1> PICK q \in Seq(X) : q = s \o r
  BY ConcatProperties
<1>1. /\ Len(q) = k + l
      /\ \A i \in 1 .. k + l : q[i] = IF i <= k THEN s[i] ELSE r[i - k]
  BY ConcatProperties
<1>2. /\ \A t : t \in Range(s) <=> \E i \in 1 .. k : s[i] = t
      /\ \A t : t \in Range(r) <=> \E i \in 1 .. l : r[i] = t
  BY RangeIs
<1>3. \A t : t \in Range(q) <=> \E i \in 1 .. k + l : q[i] = t
  <2>1. \A t : t \in Range(q) <=> \E i \in 1 .. Len(q) : q[i] = t
    BY ONLY q \in Seq(X), RangeIs
  <2> QED
    BY <1>1, <2>1
<1>4. \A i \in 1 .. k : i \in 1 .. k + l /\ q[i] = s[i]
  BY <1>1
<1>5. ASSUME NEW j \in 1 .. l PROVE k + j \in 1 .. k + l /\ q[k + j] = r[j]
  <2>1. k + j \in 1 .. k + l /\ ~(k + j <= k) /\ (k + j) - k = j
    OBVIOUS
  <2> QED
    BY <1>1, <2>1
<1>6. ASSUME NEW i \in 1 .. k + l PROVE i \in 1 .. k \/ \E j \in 1 .. l : i = k + j
  <2>1. CASE i > k
    <3>1. i - k \in 1 .. l /\ i = k + (i - k)
      BY <2>1
    <3> QED
      BY <3>1
  <2>2. CASE i <= k
    BY <2>2
  <2> QED
    BY <2>1, <2>2
<1>7. Range(q) = Range(s) \cup Range(r)
  <2>1. ASSUME NEW t \in Range(q) PROVE t \in Range(s) \cup Range(r)
    <3>1. PICK i \in 1 .. k + l : q[i] = t
      BY <1>3, <2>1
    <3>2. i \in 1 .. k \/ \E j \in 1 .. l : i = k + j
      BY <1>6
    <3> QED
      BY <1>2, <1>4, <1>5, <3>1, <3>2
  <2>2. ASSUME NEW t \in Range(s) PROVE t \in Range(q)
    BY <1>2, <1>3, <1>4, <2>2
  <2>3. ASSUME NEW t \in Range(r) PROVE t \in Range(q)
    <3>1. PICK j \in 1 .. l : r[j] = t
      BY <1>2, <2>3
    <3>2. k + j \in 1 .. k + l /\ q[k + j] = t
      BY <1>5, <3>1
    <3> QED
      BY <1>3, <3>2
  <2> QED
    BY <2>1, <2>2, <2>3
<1>8. ASSUME NoRepeat(s), NoRepeat(r), Range(s) \cap Range(r) = {}
      PROVE  NoRepeat(q)
  <2>1. \A i \in 1 .. k, j \in 1 .. l : s[i] # r[j]
    BY <1>2, <1>8
  <2> SUFFICES ASSUME NEW i \in 1 .. k + l, NEW j \in 1 .. k + l, q[i] = q[j]
               PROVE  i = j
    BY <1>1 DEF NoRepeat
  <2>2. CASE i \in 1 .. k /\ j \in 1 .. k
    BY <1>4, <1>8, <2>2 DEF NoRepeat
  <2>3. CASE \E m, n \in 1 .. l : i = k + m /\ j = k + n
    BY <1>5, <1>8, <2>3 DEF NoRepeat
  <2>4. CASE i \in 1 .. k /\ \E n \in 1 .. l : j = k + n
    BY <1>4, <1>5, <2>1, <2>4
  <2>5. CASE j \in 1 .. k /\ \E m \in 1 .. l : i = k + m
    BY <1>4, <1>5, <2>1, <2>5
  <2>6. /\ i \in 1 .. k \/ \E m \in 1 .. l : i = k + m
        /\ j \in 1 .. k \/ \E n \in 1 .. l : j = k + n
    BY <1>6
  <2> QED
    BY <2>2, <2>3, <2>4, <2>5, <2>6
<1> QED
  BY <1>1, <1>7, <1>8

LEMMA HeadFacts ==
    ASSUME NEW X, NEW s \in Seq(X), s # <<>>
    PROVE  /\ Head(s) \in X /\ Tail(s) \in Seq(X)
           /\ Range(s) = Range(Tail(s)) \cup {Head(s)}
           /\ NoRepeat(s) => NoRepeat(Tail(s)) /\ Head(s) \notin Range(Tail(s))
<1> PICK k \in Nat \ {0} : k = Len(s)
  BY RangeIs, EmptySeq
<1> PICK r \in Seq(X), h \in X : r = Tail(s) /\ h = Head(s)
  BY HeadTailProperties
<1>1. h = s[1] /\ Len(r) = k - 1 /\ \A i \in 1 .. k - 1 : r[i] = s[i + 1]
  BY HeadTailProperties
<1>2. /\ \A t : t \in Range(s) <=> \E i \in 1 .. k : s[i] = t
      /\ \A t : t \in Range(r) <=> \E i \in 1 .. k - 1 : r[i] = t
  BY <1>1, RangeIs
<1>3. \A i \in 1 .. k - 1 : i + 1 \in 1 .. k /\ i + 1 # 1 /\ r[i] = s[i + 1]
  BY <1>1
<1>4. ASSUME NEW i \in 1 .. k PROVE i = 1 \/ \E j \in 1 .. k - 1 : i = j + 1
  <2>1. CASE i # 1
    <3>1. i - 1 \in 1 .. k - 1 /\ i = (i - 1) + 1
      BY <2>1
    <3> QED
      BY <3>1
  <2> QED
    BY <2>1
<1>5. 1 \in 1 .. k
  OBVIOUS
<1>6. Range(s) = Range(r) \cup {h}
  <2>1. ASSUME NEW t \in Range(s) PROVE t \in Range(r) \cup {h}
    <3>1. PICK i \in 1 .. k : s[i] = t
      BY <1>2, <2>1
    <3>2. CASE i = 1
      BY <1>1, <3>1, <3>2
    <3>3. CASE \E j \in 1 .. k - 1 : i = j + 1
      BY <1>2, <1>3, <3>1, <3>3
    <3> QED
      BY <1>4, <3>2, <3>3
  <2>2. ASSUME NEW t \in Range(r) PROVE t \in Range(s)
    BY <1>2, <1>3, <2>2
  <2>3. h \in Range(s)
    BY <1>1, <1>2, <1>5
  <2> QED
    BY <2>1, <2>2, <2>3
<1>7. ASSUME NoRepeat(s) PROVE NoRepeat(r) /\ h \notin Range(r)
  <2>1. \A i, j \in 1 .. k - 1 : i + 1 = j + 1 => i = j
    OBVIOUS
  <2>2. NoRepeat(r)
    BY <1>1, <1>3, <1>7, <2>1 DEF NoRepeat
  <2> QED
    BY <1>1, <1>2, <1>3, <1>5, <1>7, <2>2 DEF NoRepeat
<1> QED
  BY <1>1, <1>6, <1>7

LEMMA LeastNat ==
    ASSUME NEW T \in SUBSET Nat, T # {}
    PROVE  \E n \in T : \A m \in T : n <= m
<1>1. PICK R : R = OpToRel(<, Nat)
  OBVIOUS
<1>2. IsWellFoundedOn(R, Nat)
  BY <1>1, NatLessThanWellFounded
<1>3. PICK n \in T : \A m \in T : ~(<<m, n>> \in R)
  BY <1>2, WFMin
<1>4. ASSUME NEW m \in T PROVE n <= m
  <2>1. <<m, n>> \in R <=> m < n
    BY <1>1 DEF OpToRel
  <2> QED
    BY <1>3, <2>1
<1> QED
  BY <1>4

\* u[n] is what of the first n members of s is in S, for n up to k.
OnlyIs(u, s, S, k) ==
    /\ u = [n \in 0 .. k |-> u[n]] /\ u[0] = <<>>
    /\ \A n \in 1 .. k : u[n] = IF s[n] \in S THEN Append(u[n - 1], s[n]) ELSE u[n - 1]

LEMMA OnlyExists ==
    ASSUME NEW l \in Nat, NEW s, NEW S
    PROVE  \E u : OnlyIs(u, s, S, l)
<1> DEFINE Bad == {k \in Nat : ~\E u : OnlyIs(u, s, S, k)}
<1>1. ASSUME Bad # {} PROVE FALSE
  <2>1. PICK k \in Bad : \A m \in Bad : k <= m
    <3>1. Bad \in SUBSET Nat
      OBVIOUS
    <3> QED
      BY <1>1, <3>1, LeastNat
  <2>2. CASE k = 0
    <3>1. PICK u : u = [n \in 0 .. 0 |-> <<>>]
      OBVIOUS
    <3>2. OnlyIs(u, s, S, 0)
      BY <3>1 DEF OnlyIs
    <3> QED
      BY <2>1, <2>2, <3>2
  <2>3. CASE k # 0
    <3>1. k \in 1 .. k /\ k - 1 \in Nat /\ ~(k <= k - 1)
      BY <2>1, <2>3
    <3>2. PICK u : OnlyIs(u, s, S, k - 1)
      BY <2>1, <3>1
    <3>3. PICK w : w = [n \in 0 .. k |->
                           IF n # k THEN u[n]
                           ELSE IF s[k] \in S THEN Append(u[k - 1], s[k]) ELSE u[k - 1]]
      OBVIOUS
    <3>4. w = [n \in 0 .. k |-> w[n]] /\ w[0] = <<>>
      BY <3>1, <3>2, <3>3 DEF OnlyIs
    <3>5. ASSUME NEW n \in 1 .. k
          PROVE  w[n] = IF s[n] \in S THEN Append(w[n - 1], s[n]) ELSE w[n - 1]
      <4>1. n \in 0 .. k /\ n - 1 \in 0 .. k /\ n - 1 # k
        BY <3>1
      <4>2. w[n - 1] = u[n - 1]
        BY <3>3, <4>1
      <4>3. CASE n = k
        BY <3>3, <4>1, <4>2, <4>3
      <4>4. CASE n # k
        <5>1. n \in 1 .. k - 1
          BY <3>1, <4>4
        <5> QED
          BY <3>2, <3>3, <4>1, <4>2, <4>4, <5>1 DEF OnlyIs
      <4> QED
        BY <4>3, <4>4
    <3>6. OnlyIs(w, s, S, k)
      BY <3>4, <3>5 DEF OnlyIs
    <3> QED
      BY <2>1, <3>6
  <2> QED
    BY <2>2, <2>3
<1> QED
  BY <1>1

LEMMA OnlySteps ==
    ASSUME NEW s \in Seq(Timers), NEW S
    PROVE  /\ OnlyUpTo(s, S)[0] = <<>>
           /\ \A i \in 1 .. Len(s) :
                  OnlyUpTo(s, S)[i] = IF s[i] \in S THEN Append(OnlyUpTo(s, S)[i - 1], s[i])
                                                   ELSE OnlyUpTo(s, S)[i - 1]
<1> DEFINE P(u) == u = [i \in 0 .. Len(s) |->
                           IF i = 0 THEN <<>>
                           ELSE IF s[i] \in S THEN Append(u[i - 1], s[i]) ELSE u[i - 1]]
           O == CHOOSE u : P(u)
<1>0. Len(s) \in Nat /\ \A i \in 0 .. Len(s) : i # 0 => i \in 1 .. Len(s)
  BY RangeIs
<1>1. PICK u : OnlyIs(u, s, S, Len(s))
  BY <1>0, OnlyExists
<1>2. P(u)
  <2>1. \A i \in 0 .. Len(s) :
            u[i] = IF i = 0 THEN <<>>
                   ELSE IF s[i] \in S THEN Append(u[i - 1], s[i]) ELSE u[i - 1]
    BY <1>0, <1>1 DEF OnlyIs
  <2> QED
    BY <1>1, <2>1 DEF OnlyIs
<1>3. P(O)
  BY <1>2
<1>4. OnlyUpTo(s, S) = O
  BY DEF OnlyUpTo
<1> HIDE DEF O
<1>5. \A i \in 0 .. Len(s) :
          O[i] = IF i = 0 THEN <<>>
                 ELSE IF s[i] \in S THEN Append(O[i - 1], s[i]) ELSE O[i - 1]
  BY <1>3
<1>6. \A i \in 1 .. Len(s) : i \in 0 .. Len(s) /\ i # 0
  BY <1>0
<1> HIDE DEF P
<1> QED
  BY <1>0, <1>4, <1>5, <1>6

LEMMA OnlyFacts ==
    ASSUME NEW s \in Seq(Timers), NEW S
    PROVE  /\ Only(s, S) \in Seq(Timers)
           /\ Range(Only(s, S)) = Range(s) \cap S
           /\ NoRepeat(s) => NoRepeat(Only(s, S))
<1>0. Len(s) \in Nat /\ \A i \in 1 .. Len(s) : s[i] \in Timers
  BY RangeIs, ElementOfSeq
<1> PICK O : O = OnlyUpTo(s, S)
  OBVIOUS
<1>5. /\ O[0] = <<>>
      /\ \A i \in 1 .. Len(s) : O[i] = IF s[i] \in S THEN Append(O[i - 1], s[i]) ELSE O[i - 1]
  BY OnlySteps
<1> DEFINE First(i) == {s[j] : j \in 1 .. i}
           Fine(i) == /\ O[i] \in Seq(Timers)
                      /\ Range(O[i]) = First(i) \cap S
                      /\ NoRepeat(s) => NoRepeat(O[i])
           Bad == {i \in 0 .. Len(s) : ~Fine(i)}
<1>6. ASSUME NEW i \in 1 .. Len(s), Fine(i - 1) PROVE Fine(i)
  <2>1. First(i) = First(i - 1) \cup {s[i]}
    <3>1. \A j \in 1 .. i : j \in 1 .. i - 1 \/ j = i
      OBVIOUS
    <3> QED
      BY <3>1
  <2>2. NoRepeat(s) => s[i] \notin First(i - 1)
    BY <1>0 DEF NoRepeat
  <2>3. s[i] \in Timers
    BY <1>0
  <2> HIDE DEF First
  <2>4. CASE s[i] \in S
    <3>1. O[i] = Append(O[i - 1], s[i])
      BY <1>5, <2>4
    <3> QED
      BY <1>6, <2>1, <2>2, <2>3, <2>4, <3>1, AppendFacts
  <2>5. CASE s[i] \notin S
    BY <1>5, <1>6, <2>1, <2>5
  <2> QED
    BY <2>4, <2>5
<1>7. Fine(0)
  <2>1. First(0) = {} /\ <<>> \in Seq(Timers) /\ NoRepeat(<<>>)
    BY EmptySeq DEF NoRepeat
  <2>2. Range(<<>>) = {}
    BY <2>1, RangeIs
  <2> HIDE DEF First
  <2> QED
    BY <1>5, <2>1, <2>2
<1> HIDE DEF Fine
<1>8. ASSUME Bad # {} PROVE FALSE
  <2>1. PICK k \in Bad : \A m \in Bad : k <= m
    <3>1. Bad \in SUBSET Nat
      BY <1>0
    <3> QED
      BY <1>8, <3>1, LeastNat
  <2>2. k # 0
    BY <1>7, <2>1
  <2>3. k \in 1 .. Len(s) /\ k - 1 \in 0 .. Len(s) /\ ~(k <= k - 1)
    BY <1>0, <2>1, <2>2
  <2>4. Fine(k - 1)
    BY <2>1, <2>3
  <2> QED
    BY <1>6, <2>1, <2>3, <2>4
<1>9. Fine(Len(s))
  BY <1>0, <1>8
<1>10. Only(s, S) = O[Len(s)]
  BY DEF Only
<1>11. First(Len(s)) = Range(s)
  <2>1. \A t : t \in Range(s) <=> \E i \in 1 .. Len(s) : s[i] = t
    BY RangeIs
  <2> QED
    BY <2>1
<1> QED
  BY <1>9, <1>10, <1>11 DEF Fine

-----------------------------------------------------------------------------
(***************************************************************************)
(* The invariant.  A timer in list j of vector k is due within the Span(k) *)
(* ticks that begin f ticks from now, when that list is emptied next.  In  *)
(* the first vector that tick is its own; in the others it is the tick     *)
(* that cascades the list, and expires still says when the timer is due.   *)
(***************************************************************************)
Slots(k) == IF k = 1 THEN TvrSize ELSE TvnSize

\* For a timer that is due left ticks from now, and f no less than first.
Placed(first, now, left, e, k, j) ==
    \E f \in first .. Span(k + 1) - 1 :
        /\ f <= left /\ left < f + Span(k)
        /\ (now + f) % Span(k + 1) = j * Span(k)
        /\ k # 1 => e = (now + left) % Word

\* Timers are set less than the horizon ahead: none needs vector 5.
WellPlaced(v) ==
    \A l \in Lists : \A t \in Range(v[l]) :
        /\ l[1] \in 1 .. 4
        /\ Placed(0, timer_ticks, due[t] - ticks, expires[t], l[1], l[2])

\* No list of vector k is to be emptied at this tick.
Flushed(v, k) ==
    \A j \in 0 .. Slots(k) - 1 : \A t \in Range(v[<<k, j>>]) :
        Placed(1, timer_ticks, due[t] - ticks, expires[t], k, j)

WorkDue == \A t \in Range(work) : due[t] + 1 = ticks

\* Lists that share no timer.
Separate(v) ==
    /\ \A l \in Lists : NoRepeat(v[l])
    /\ \A l, m \in Lists : l # m => Range(v[l]) \cap Range(v[m]) = {}

InWheel(v, t) == \E l \in Lists : t \in Range(v[l])

Once ==
    /\ Separate(vec) /\ NoRepeat(work)
    /\ \A t \in Range(work) : ~InWheel(vec, t)
    /\ \A t \in Timers : due[t] # NotDue <=> InWheel(vec, t) \/ t \in Range(work)

Typed ==
    /\ timer_ticks \in 0 .. Word - 1
    /\ vec \in [Lists -> Seq(Timers)]
    /\ work \in Seq(Timers)
    /\ expires \in [Timers -> 0 .. Word - 1]
    /\ calling \in Timers \cup {NoTimer}
    /\ ticks \in 0 .. MaxTicks
    /\ due \in [Timers -> Nat \cup {NotDue}]

\* A run ends less than the horizon ahead.
Ends ==
    absms # Idle =>
        \E g \in -1 .. Horizon - 1 :
            absms = (timer_ticks + g) % Word /\ ticks + g < MaxTicks

IInv == Typed /\ WellPlaced(vec) /\ WorkDue /\ Once /\ Ends
-----------------------------------------------------------------------------
LEMMA Spans ==
    /\ Span(1) = 1 /\ Span(2) = TvrSize /\ Span(5) = Horizon
    /\ \A k \in 1 .. 5 : Span(k) \in Nat \ {0}
    /\ \A k \in 1 .. 4 : Slots(k) \in Nat \ {0} /\ Span(k + 1) = Span(k) * Slots(k)
    /\ Word \in Nat \ {0} /\ Word >= 4 * Horizon
<1>1. TvrSize \in Nat \ {0} /\ TvnSize \in Nat \ {0} /\ Word \in Nat /\ Word >= 4 * Horizon
  BY WheelAssumption
<1>2. \A a, b \in Nat \ {0} : a * b \in Nat \ {0}
  OBVIOUS
<1>3. /\ Span(1) = 1 /\ Span(2) = TvrSize /\ Span(3) = Span(2) * TvnSize
      /\ Span(4) = Span(3) * TvnSize /\ Span(5) = Span(4) * TvnSize /\ Span(5) = Horizon
  BY DEF Span, Horizon
<1>4. Span(2) = Span(1) * TvrSize
  BY <1>1, <1>3
<1>5. Span(2) \in Nat \ {0} /\ Span(3) \in Nat \ {0}
  BY <1>1, <1>2, <1>3
<1>6. Span(4) \in Nat \ {0} /\ Span(5) \in Nat \ {0}
  BY <1>1, <1>2, <1>3, <1>5
<1>7. ASSUME NEW k \in 1 .. 4
      PROVE  Slots(k) \in Nat \ {0} /\ Span(k + 1) = Span(k) * Slots(k)
  <2>1. k = 1 \/ k = 2 \/ k = 3 \/ k = 4
    OBVIOUS
  <2> QED
    BY <1>1, <1>3, <1>4, <2>1 DEF Slots
<1>8. \A k \in 1 .. 5 : k = 1 \/ k = 2 \/ k = 3 \/ k = 4 \/ k = 5
  OBVIOUS
<1>9. Word \in Nat \ {0}
  BY <1>1, <1>3, <1>6
<1> QED
  BY <1>1, <1>3, <1>5, <1>6, <1>7, <1>8, <1>9

LEMMA WordIsRounds ==
    ASSUME NEW k \in 1 .. 4
    PROVE  \E c \in Nat \ {0} : Word = Span(k + 1) * c
<1>1. /\ TvnSize \in Nat \ {0} /\ Word \in Nat \ {0} /\ Horizon \in Nat \ {0}
      /\ Word % (Horizon * TvnSize) = 0
  BY WheelAssumption, Spans
<1> PICK h \in Nat \ {0} : h = Horizon * TvnSize
  BY <1>1
<1>2. PICK q \in Int : Word = h * q
  <2>1. PICK w \in Int : w = Word
    BY <1>1
  <2>2. w % h = 0
    BY <1>1, <2>1
  <2>3. w \div h \in Int /\ w = h * (w \div h) + (w % h)
    BY ONLY w \in Int, h \in Nat \ {0}, Division
  <2>4. PICK q \in Int : q = w \div h
    BY <2>3
  <2>5. w = h * q + 0
    BY <2>2, <2>3, <2>4
  <2>6. w = h * q
    BY ONLY <2>5, w \in Int, h \in Nat, q \in Int
  <2> QED
    BY <2>1, <2>6
<1>3. PICK r \in Nat \ {0} : Word = Horizon * r
  <2>1. h * q = Horizon * (TvnSize * q)
    BY <1>1
  <2>2. PICK r \in Int : r = TvnSize * q
    BY <1>1
  <2>3. Word = Horizon * r
    BY ONLY <1>1, <1>2, <2>1, <2>2, h \in Nat
  <2>4. r > 0
    BY ONLY <1>1, <2>3, r \in Int
  <2> QED
    BY <2>3, <2>4
<1>4. /\ TvrSize \in Nat \ {0} /\ Span(2) = TvrSize /\ Span(3) = Span(2) * TvnSize
      /\ Span(4) = Span(3) * TvnSize /\ Span(5) = Span(4) * TvnSize /\ Span(5) = Horizon
  BY WheelAssumption DEF Span, Horizon
<1>5. ASSUME NEW s \in Nat \ {0}, NEW t \in Nat \ {0}, NEW c \in Nat \ {0},
             t = s * TvnSize, Word = t * c
      PROVE  \E d \in Nat \ {0} : Word = s * d
  <2>1. Word = s * (TvnSize * c) /\ TvnSize * c \in Nat \ {0}
    BY <1>1, <1>5
  <2> QED
    BY <2>1
<1>6. Span(2) \in Nat \ {0} /\ Span(3) \in Nat \ {0} /\ Span(4) \in Nat \ {0} /\ Span(5) \in Nat \ {0}
  BY Spans
<1>7. \E c \in Nat \ {0} : Word = Span(4) * c
  BY <1>3, <1>4, <1>5, <1>6
<1>8. \E c \in Nat \ {0} : Word = Span(3) * c
  BY <1>4, <1>5, <1>6, <1>7
<1>9. \E c \in Nat \ {0} : Word = Span(2) * c
  BY <1>4, <1>5, <1>6, <1>8
<1>10. k = 1 \/ k = 2 \/ k = 3 \/ k = 4
  OBVIOUS
<1> QED
  BY <1>3, <1>4, <1>7, <1>8, <1>9, <1>10

(* Longer spans are those of higher vectors. *)
LEMMA SpansGrow ==
    ASSUME NEW k \in 1 .. 5, NEW m \in 1 .. 5
    PROVE  /\ k <= m => Span(k) <= Span(m)
           /\ Span(k) < Span(m) => k < m
<1>1. ASSUME NEW i \in 1 .. 4 PROVE Span(i) <= Span(i + 1)
  <2>0. /\ i \in 1 .. 5 /\ Span(i) \in Nat \ {0} /\ Slots(i) \in Nat \ {0}
        /\ Span(i + 1) = Span(i) * Slots(i)
    BY Spans
  <2>1. PICK s \in Nat \ {0}, n \in Nat \ {0} : s = Span(i) /\ Span(i + 1) = s * n
    BY <2>0
  <2>2. s * n >= s
    OBVIOUS
  <2> QED
    BY <2>1, <2>2
<1>2. Span(1) <= Span(2) /\ Span(2) <= Span(3) /\ Span(3) <= Span(4) /\ Span(4) <= Span(5)
  <2>1. Span(1) <= Span(1 + 1) /\ Span(2) <= Span(2 + 1) /\ Span(3) <= Span(3 + 1)
        /\ Span(4) <= Span(4 + 1)
    BY <1>1
  <2> QED
    BY <2>1
<1>3. \A i \in 1 .. 5 : Span(i) \in Nat
  BY Spans
<1>4. \A i \in 1 .. 5 : i = 1 \/ i = 2 \/ i = 3 \/ i = 4 \/ i = 5
  OBVIOUS
<1>5. k <= m => Span(k) <= Span(m)
  BY <1>2, <1>3, <1>4
<1>6. m <= k => Span(m) <= Span(k)
  BY <1>2, <1>3, <1>4
<1> QED
  BY <1>3, <1>5, <1>6

(* What the counter reads is as good as the time itself. *)
LEMMA Wraps ==
    ASSUME NEW a \in Int, NEW y \in Int
    PROVE  /\ \A k \in 1 .. 4 : ((a % Word) + y) % Span(k + 1) = (a + y) % Span(k + 1)
           /\ ((a % Word) + y) % Word = (a + y) % Word
<1>1. Word \in Nat \ {0}
  BY Spans
<1>2. ASSUME NEW k \in 1 .. 4
      PROVE  ((a % Word) + y) % Span(k + 1) = (a + y) % Span(k + 1)
  <2>1. PICK s \in Nat \ {0}, c \in Nat \ {0} : s = Span(k + 1) /\ Word = s * c
    BY Spans, WordIsRounds
  <2>2. ((a % (s * c)) + y) % s = (a + y) % s
    BY Wrapped
  <2> QED
    BY <2>1, <2>2
<1>3. PICK w \in Nat \ {0} : w = Word
  BY <1>1
<1>4. ((a % (w * 1)) + y) % w = (a + y) % w
  BY ONLY a \in Int, y \in Int, w \in Nat \ {0}, 1 \in Nat \ {0}, Wrapped
<1>5. w * 1 = w
  OBVIOUS
<1> QED
  BY <1>2, <1>3, <1>4, <1>5

(* Where a timer belongs in vector k, and when its list is emptied. *)
LEMMA SlotOf ==
    ASSUME NEW k \in 1 .. 4, NEW now \in Nat, NEW d \in Nat, NEW e, e = (now + d) % Word,
           k # 1 => Span(k) <= d, d < Span(k + 1)
    PROVE  LET j == (e \div Span(k)) % Slots(k)
           IN j \in 0 .. Slots(k) - 1 /\ Placed(IF k = 1 THEN 0 ELSE 1, now, d, e, k, j)
<1>1. PICK s \in Nat \ {0}, n \in Nat \ {0}, w \in Nat \ {0} :
          s = Span(k) /\ n = Slots(k) /\ w = Span(k + 1) /\ w = s * n /\ (k = 1 => s = 1)
  <2>1. /\ Span(k) \in Nat \ {0} /\ Slots(k) \in Nat \ {0} /\ Span(k + 1) = Span(k) * Slots(k)
        /\ Span(k + 1) \in Nat \ {0} /\ (k = 1 => Span(k) = 1)
    BY Spans
  <2> QED
    BY <2>1
<1>2. e \in Int
  BY Spans, Division
<1>3. PICK q \in Int, r \in 0 .. s - 1 : q = e \div s /\ r = e % s /\ e = s * q + r
  BY ONLY <1>2, s \in Nat \ {0}, Division
<1>4. PICK j \in 0 .. n - 1 : j = q % n
  BY Division
<1>5. PICK f \in Int : f = d - r
  OBVIOUS
<1>6. /\ f <= d /\ d < f + s
      /\ f >= 0 /\ (k # 1 => f >= 1)
      /\ f < w
  <2>1. (k = 1 => s = 1) /\ (k # 1 => s <= d) /\ d < w
    BY <1>1
  <2> QED
    BY ONLY <1>5, <2>1, d \in Nat, f \in Int, r \in 0 .. s - 1, s \in Nat, w \in Nat
<1>7. (now + f) % w = (e + (0 - r)) % w
  <2>1. (((now + d) % Word) + (0 - r)) % w = (now + d + (0 - r)) % w
    <3>1. PICK a \in Int, y \in Int : a = now + d /\ y = 0 - r
      OBVIOUS
    <3>2. ((a % Word) + y) % Span(k + 1) = (a + y) % Span(k + 1)
      BY ONLY a \in Int, y \in Int, k \in 1 .. 4, Wraps
    <3> QED
      BY <1>1, <3>1, <3>2
  <2>2. now + d + (0 - r) = now + f
    BY <1>5
  <2> QED
    BY <2>1, <2>2
<1>8. (e + (0 - r)) % w = j * s
  <2>1. PICK a \in Int : a = s * q
    OBVIOUS
  <2>2. a \div s = q /\ a % s = 0
    <3>1. (s * q + 0) \div s = q /\ (s * q + 0) % s = 0
      BY DivisionIs
    <3>2. s * q + 0 = a
      BY <2>1
    <3> QED
      BY <3>1, <3>2
  <2>3. a % w = ((a \div s) % n) * s + (a % s)
    <3>1. w = s * n
      BY <1>1
    <3> QED
      BY ONLY <3>1, a \in Int, s \in Nat \ {0}, n \in Nat \ {0}, InRound
  <2>4. a % w = j * s + 0
    BY <1>4, <2>2, <2>3
  <2>5. e + (0 - r) = a
    BY <1>2, <1>3, <2>1
  <2>6. j * s + 0 = j * s
    OBVIOUS
  <2> QED
    BY <2>4, <2>5, <2>6
<1>9. f \in (IF k = 1 THEN 0 ELSE 1) .. w - 1
  BY <1>6
<1>10. (now + f) % w = j * s
  BY <1>7, <1>8
<1> QED
  BY <1>1, <1>3, <1>4, <1>6, <1>9, <1>10 DEF Placed

LEMMA InLists ==
    /\ \A k \in 1 .. 5 : \A j \in 0 .. Slots(k) - 1 : <<k, j>> \in Lists
    /\ \A l \in Lists : l[1] \in 1 .. 5 /\ l[2] \in 0 .. Slots(l[1]) - 1 /\ l = <<l[1], l[2]>>
<1>1. ASSUME NEW k \in 1 .. 5, NEW j \in 0 .. Slots(k) - 1 PROVE <<k, j>> \in Lists
  BY DEF Lists, Slots
<1>2. ASSUME NEW l \in Lists
      PROVE  l[1] \in 1 .. 5 /\ l[2] \in 0 .. Slots(l[1]) - 1 /\ l = <<l[1], l[2]>>
  <2>1. CASE l \in {1} \X (0 .. TvrSize - 1)
    BY <2>1 DEF Slots
  <2>2. CASE l \in (2 .. 5) \X (0 .. TvnSize - 1)
    BY <2>2 DEF Slots
  <2> QED
    BY <2>1, <2>2 DEF Lists
<1> QED
  BY <1>1, <1>2

(* The distance of a time from now, as internal_add_timer computes it. *)
LEMMA Distance ==
    ASSUME NEW now \in 0 .. Word - 1, NEW d \in -Horizon .. Horizon - 1,
           NEW e, e = (now + d) % Word
    PROVE  (e - now) % Word = IF d < 0 THEN Word + d ELSE d
<1>1. Word \in Nat \ {0} /\ Horizon \in Nat /\ Word >= 4 * Horizon
  BY Spans
<1>2. d \in Int /\ now \in Int
  BY <1>1
<1>3. PICK a \in Int, y \in Int : a = now + d /\ y = 0 - now
  BY <1>2
<1>4. ((a % Word) + y) % Word = (a + y) % Word
  BY ONLY a \in Int, y \in Int, Wraps
<1>5. a + y = d
  BY <1>2, <1>3
<1>6. e + y = e - now
  <2>1. e \in Int
    BY <1>1, <1>3, Division
  <2> QED
    BY <1>2, <1>3, <2>1
<1>7. (e - now) % Word = d % Word
  BY <1>3, <1>4, <1>5, <1>6
<1>8. CASE d < 0
  <2>1. Word + d \in 0 .. Word - 1 /\ d = Word * (-1) + (Word + d)
    BY <1>1, <1>2, <1>8
  <2>2. d % Word = Word + d
    BY ONLY <1>1, <1>2, <2>1, PlaceIs
  <2> QED
    BY <1>7, <1>8, <2>2
<1>9. CASE d >= 0
  <2>1. d \in 0 .. Word - 1 /\ d = Word * 0 + d
    BY <1>1, <1>2, <1>9
  <2>2. d % Word = d
    BY ONLY <1>1, <1>2, <2>1, PlaceIs
  <2> QED
    BY <1>2, <1>7, <1>9, <2>2
<1> QED
  BY <1>2, <1>8, <1>9

(***************************************************************************)
(* internal_add_timer puts a timer where the invariant wants it, and into  *)
(* a list of another vector than the first only ahead of time.             *)
(***************************************************************************)
LEMMA ListOfPlaces ==
    ASSUME NEW now \in 0 .. Word - 1, NEW d \in -Horizon .. Horizon - 1,
           NEW e, e = (now + d) % Word
    PROVE  \E k \in 1 .. 4 : \E j \in 0 .. Slots(k) - 1 :
               /\ ListOf(e, now) = <<k, j>>
               /\ Placed(IF k = 1 THEN 0 ELSE 1, now, IF d < 0 THEN 0 ELSE d, e, k, j)
               /\ d >= 0 /\ k # 1 => Span(k) <= d
<1>0. /\ Word \in Nat \ {0} /\ Horizon \in Nat \ {0} /\ Word >= 4 * Horizon
      /\ Span(1) = 1 /\ Span(2) = TvrSize /\ Span(5) = Horizon
      /\ Span(2) \in Nat \ {0} /\ Span(3) \in Nat /\ Span(4) \in Nat
      /\ now \in Nat /\ d \in Int /\ now \in Int
  BY Spans
<1>1. Span(2) <= Span(3) /\ Span(3) <= Span(4) /\ Span(4) <= Span(5)
  BY SpansGrow
<1>2. PICK idx \in Int : idx = (e - now) % Word /\ idx = IF d < 0 THEN Word + d ELSE d
  <2>1. (e - now) % Word = IF d < 0 THEN Word + d ELSE d
    BY Distance
  <2>2. (IF d < 0 THEN Word + d ELSE d) \in Int
    BY <1>0
  <2> QED
    BY <2>1, <2>2
<1>3. ASSUME NEW k \in 1 .. 4, d >= 0, k # 1 => Span(k) <= d, d < Span(k + 1),
             ListOf(e, now) = <<k, (e \div Span(k)) % Slots(k)>>
      PROVE  \E j \in 0 .. Slots(k) - 1 :
                 /\ ListOf(e, now) = <<k, j>>
                 /\ Placed(IF k = 1 THEN 0 ELSE 1, now, IF d < 0 THEN 0 ELSE d, e, k, j)
  <2>1. d \in Nat /\ ~(d < 0)
    BY <1>0, <1>3
  <2>2. /\ (e \div Span(k)) % Slots(k) \in 0 .. Slots(k) - 1
        /\ Placed(IF k = 1 THEN 0 ELSE 1, now, d, e, k, (e \div Span(k)) % Slots(k))
    BY <1>0, <1>3, <2>1, SlotOf
  <2> QED
    BY <1>3, <2>1, <2>2
<1>4. CASE d < 0
  <2>1. idx = Word + d /\ idx >= Word \div 2 /\ idx >= Span(5)
    BY <1>0, <1>2, <1>4
  <2>2. ListOf(e, now) = <<1, now % TvrSize>>
    BY <1>0, <1>1, <1>2, <2>1 DEF ListOf
  <2>3. PICK j \in 0 .. TvrSize - 1 : j = now % TvrSize
    BY <1>0, Division
  <2>4. (now + 0) % Span(1 + 1) = j * Span(1)
    BY <1>0, <2>3
  <2>5. Placed(0, now, 0, e, 1, j)
    <3>1. 0 \in 0 .. Span(1 + 1) - 1 /\ 0 <= 0 /\ 0 < 0 + Span(1)
      BY <1>0
    <3> QED
      BY <2>4, <3>1 DEF Placed
  <2>6. 1 \in 1 .. 4 /\ j \in 0 .. Slots(1) - 1
    BY DEF Slots
  <2> QED
    BY <1>4, <2>2, <2>3, <2>5, <2>6
<1>5. CASE d >= 0
  <2>0. idx = d
    BY <1>0, <1>2, <1>5
  <2>1. CASE d < Span(2)
    <3>1. ListOf(e, now) = <<1, e % TvrSize>>
      BY <1>0, <1>1, <1>2, <2>0, <2>1 DEF ListOf
    <3>2. e \div 1 = e
      <4>1. e \in Int
        BY <1>0, Division
      <4> QED
        BY <4>1
    <3>3. ListOf(e, now) = <<1, (e \div Span(1)) % Slots(1)>>
      BY <1>0, <3>1, <3>2 DEF Slots
    <3>4. 1 \in 1 .. 4 /\ Span(1 + 1) = Span(2)
      OBVIOUS
    <3> QED
      BY <1>3, <1>5, <2>1, <3>3, <3>4
  <2>2. CASE d >= Span(2) /\ d < Span(3)
    <3>1. ListOf(e, now) = <<2, (e \div Span(2)) % TvnSize>>
      BY <1>0, <1>1, <1>2, <2>0, <2>2 DEF ListOf
    <3>2. ListOf(e, now) = <<2, (e \div Span(2)) % Slots(2)>>
      BY <3>1 DEF Slots
    <3>3. 2 \in 1 .. 4 /\ Span(2 + 1) = Span(3) /\ Span(2) <= d
      BY <1>0, <2>2
    <3> QED
      BY <1>3, <1>5, <2>2, <3>2, <3>3
  <2>3. CASE d >= Span(3) /\ d < Span(4)
    <3>1. ListOf(e, now) = <<3, (e \div Span(3)) % TvnSize>>
      BY <1>0, <1>1, <1>2, <2>0, <2>3 DEF ListOf
    <3>2. ListOf(e, now) = <<3, (e \div Span(3)) % Slots(3)>>
      BY <3>1 DEF Slots
    <3>3. 3 \in 1 .. 4 /\ Span(3 + 1) = Span(4) /\ Span(3) <= d
      BY <1>0, <2>3
    <3> QED
      BY <1>3, <1>5, <2>3, <3>2, <3>3
  <2>4. CASE d >= Span(4) /\ d < Span(5)
    <3>1. ListOf(e, now) = <<4, (e \div Span(4)) % TvnSize>>
      BY <1>0, <1>1, <1>2, <2>0, <2>4 DEF ListOf
    <3>2. ListOf(e, now) = <<4, (e \div Span(4)) % Slots(4)>>
      BY <3>1 DEF Slots
    <3>3. 4 \in 1 .. 4 /\ Span(4 + 1) = Span(5) /\ Span(4) <= d
      BY <1>0, <2>4
    <3> QED
      BY <1>3, <1>5, <2>4, <3>2, <3>3
  <2>5. d < Span(5)
    BY <1>0
  <2> QED
    BY <1>0, <2>1, <2>2, <2>3, <2>4, <2>5
<1> QED
  BY <1>0, <1>4, <1>5

(* The list of vector k that time stands at, and how far into it. *)
LEMMA Stands ==
    ASSUME NEW k \in 1 .. 4, NEW now \in Nat
    PROVE  \E s \in Nat \ {0}, n \in Nat \ {0}, w \in Nat \ {0}, p \in 0 .. Slots(k) - 1,
              r \in 0 .. Span(k) - 1 :
               /\ s = Span(k) /\ n = Slots(k) /\ w = Span(k + 1) /\ w = s * n
               /\ p = (now \div Span(k)) % Slots(k) /\ r = now % Span(k)
               /\ now % w = p * s + r
<1>1. /\ Span(k) \in Nat \ {0} /\ Slots(k) \in Nat \ {0} /\ Span(k + 1) = Span(k) * Slots(k)
      /\ Span(k + 1) \in Nat \ {0}
  BY Spans
<1>2. PICK s \in Nat \ {0}, n \in Nat \ {0}, w \in Nat \ {0} :
          s = Span(k) /\ n = Slots(k) /\ w = Span(k + 1) /\ w = s * n
  BY <1>1
<1>3. PICK q \in Int : q = now \div s
  BY Division
<1>4. PICK p \in 0 .. n - 1 : p = q % n
  BY Division
<1>5. PICK r \in 0 .. s - 1 : r = now % s
  BY Division
<1>6. now % w = ((now \div s) % n) * s + (now % s)
  <2>1. now \in Int
    OBVIOUS
  <2> QED
    BY ONLY <1>2, <2>1, s \in Nat \ {0}, n \in Nat \ {0}, InRound
<1>7. now % w = p * s + r
  BY <1>3, <1>4, <1>5, <1>6
<1> QED
  BY <1>2, <1>3, <1>4, <1>5, <1>7

(* A list that time does not stand at the beginning of is emptied later. *)
LEMMA EmptiedLater ==
    ASSUME NEW k \in 1 .. 4, NEW now \in Nat, NEW left \in Int, NEW e,
           NEW j \in 0 .. Slots(k) - 1, Placed(0, now, left, e, k, j),
           now % Span(k) # 0 \/ (now \div Span(k)) % Slots(k) # j
    PROVE  Placed(1, now, left, e, k, j)
<1>1. PICK s \in Nat \ {0}, n \in Nat \ {0}, w \in Nat \ {0}, p \in 0 .. Slots(k) - 1,
           r \in 0 .. Span(k) - 1 :
          /\ s = Span(k) /\ n = Slots(k) /\ w = Span(k + 1) /\ w = s * n
          /\ p = (now \div Span(k)) % Slots(k) /\ r = now % Span(k)
          /\ now % w = p * s + r
  BY ONLY k \in 1 .. 4, now \in Nat, Stands
<1>2. PICK f \in 0 .. w - 1 :
          /\ f <= left /\ left < f + s /\ (now + f) % w = j * s
          /\ k # 1 => e = (now + left) % Word
  BY <1>1 DEF Placed
<1>3. ASSUME f = 0 PROVE FALSE
  <2>1. j * s = p * s + r
    BY <1>1, <1>2, <1>3
  <2>2. p \in 0 .. n - 1 /\ j \in 0 .. n - 1 /\ r \in 0 .. s - 1
    BY <1>1
  <2>3. (j - p) * s = r
    BY ONLY <2>1, <2>2, s \in Nat, n \in Nat
  <2>4. ~(j - p >= 1)
    <3> SUFFICES ASSUME j - p >= 1 PROVE FALSE
      OBVIOUS
    <3>1. (j - p) * s >= s
      BY ONLY <2>2, s \in Nat, n \in Nat, j - p >= 1
    <3> QED
      BY <2>2, <2>3, <3>1
  <2>5. ~(p - j >= 1)
    <3> SUFFICES ASSUME p - j >= 1 PROVE FALSE
      OBVIOUS
    <3>1. (p - j) * s >= s /\ (p - j) * s = 0 - r
      BY ONLY <2>2, <2>3, s \in Nat, n \in Nat, p - j >= 1
    <3> QED
      BY <2>2, <3>1
  <2>6. p = j
    BY <2>2, <2>4, <2>5
  <2>7. r = 0
    BY <2>1, <2>2, <2>6
  <2> QED
    BY <1>1, <2>6, <2>7
<1>4. f \in 1 .. Span(k + 1) - 1
  BY <1>1, <1>2, <1>3
<1> QED
  BY <1>1, <1>2, <1>4 DEF Placed

(* What is in the list that time stands at the beginning of is due before  *)
(* the next one begins.                                                    *)
LEMMA EmptiedNow ==
    ASSUME NEW k \in 1 .. 4, NEW now \in Nat, NEW left \in Int, NEW e,
           NEW j, j = (now \div Span(k)) % Slots(k), Placed(0, now, left, e, k, j),
           now % Span(k) = 0
    PROVE  0 <= left /\ left < Span(k) /\ (k # 1 => e = (now + left) % Word)
<1>1. PICK s \in Nat \ {0}, n \in Nat \ {0}, w \in Nat \ {0}, p \in 0 .. Slots(k) - 1,
           r \in 0 .. Span(k) - 1 :
          /\ s = Span(k) /\ n = Slots(k) /\ w = Span(k + 1) /\ w = s * n
          /\ p = (now \div Span(k)) % Slots(k) /\ r = now % Span(k)
          /\ now % w = p * s + r
  BY ONLY k \in 1 .. 4, now \in Nat, Stands
<1>2. PICK f \in 0 .. w - 1 :
          /\ f <= left /\ left < f + s /\ (now + f) % w = j * s
          /\ k # 1 => e = (now + left) % Word
  BY <1>1 DEF Placed
<1>3. now % w = p * s
  BY <1>1
<1>4. (now + f) % w = now % w
  BY <1>1, <1>2, <1>3
<1>5. f = 0
  <2>1. now \in Int
    OBVIOUS
  <2> QED
    BY ONLY <1>4, <2>1, w \in Nat \ {0}, f \in 0 .. w - 1, RoundBegins
<1> QED
  BY <1>1, <1>2, <1>5

(* A tick later. *)
LEMMA OneTickOn ==
    ASSUME NEW k \in 1 .. 4, NEW now \in Nat, NEW left \in Int, NEW e, NEW j,
           Placed(1, now, left, e, k, j)
    PROVE  Placed(0, (now + 1) % Word, left - 1, e, k, j)
<1>1. PICK s \in Nat \ {0}, w \in Nat \ {0} : s = Span(k) /\ w = Span(k + 1)
  BY Spans
<1>2. PICK f \in 1 .. w - 1 :
          /\ f <= left /\ left < f + s /\ (now + f) % w = j * s
          /\ k # 1 => e = (now + left) % Word
  BY <1>1 DEF Placed
<1>3. PICK a \in Int, y \in Int, z \in Int : a = now + 1 /\ y = f - 1 /\ z = left - 1
  OBVIOUS
<1>4. ((a % Word) + y) % w = (a + y) % w
  BY ONLY <1>1, a \in Int, y \in Int, k \in 1 .. 4, Wraps
<1>5. ((a % Word) + z) % Word = (a + z) % Word
  BY ONLY a \in Int, z \in Int, Wraps
<1>6. a + y = now + f /\ a + z = now + left
  BY <1>3
<1>7. y \in 0 .. w - 1 /\ y <= z /\ z < y + s
  BY <1>2, <1>3
<1> QED
  BY <1>1, <1>2, <1>3, <1>4, <1>5, <1>6, <1>7 DEF Placed

-----------------------------------------------------------------------------
(***************************************************************************)
(* Cascades.  Good(v): lists v hold the timers of vec, well placed.        *)
(***************************************************************************)
Good(v) ==
    /\ v \in [Lists -> Seq(Timers)] /\ Separate(v) /\ WellPlaced(v)
    /\ \A t \in Timers : InWheel(v, t) <=> InWheel(vec, t)

LEMMA TypedFacts ==
    ASSUME Typed
    PROVE  /\ timer_ticks \in Nat /\ timer_ticks \in 0 .. Word - 1 /\ ticks \in Nat
           /\ \A t \in Timers : /\ due[t] \in Int /\ due[t] - ticks \in Int
                                /\ expires[t] \in 0 .. Word - 1
<1>1. \A t \in Timers : due[t] \in Nat \cup {NotDue}
  BY DEF Typed
<1>2. NotDue \in Int
  BY DEF NotDue
<1> QED
  BY <1>1, <1>2, WheelAssumption DEF Typed

LEMMA Listed ==
    ASSUME NEW v \in [Lists -> Seq(Timers)], NEW l \in Lists
    PROVE  v[l] \in Seq(Timers) /\ Range(v[l]) \subseteq Timers
BY RangeIs

LEMMA PlacedAt ==
    ASSUME NEW v, WellPlaced(v), NEW l \in Lists, NEW t \in Range(v[l])
    PROVE  /\ l[1] \in 1 .. 4 /\ l[2] \in 0 .. Slots(l[1]) - 1
           /\ Placed(0, timer_ticks, due[t] - ticks, expires[t], l[1], l[2])
BY InLists DEF WellPlaced

(* What Cascade does to the lists, as long as no timer goes back to the    *)
(* list it comes from.                                                     *)
LEMMA CascadeMoves ==
    ASSUME NEW v \in [Lists -> Seq(Timers)], Separate(v), NEW l \in Lists,
           \A t \in Range(v[l]) : ListOf(expires[t], timer_ticks) \in Lists \ {l}
    PROVE  LET c == Cascade(v, l)
           IN /\ c \in [Lists -> Seq(Timers)] /\ Separate(c)
              /\ c[l] = <<>> /\ Range(c[l]) = {}
              /\ \A m \in Lists \ {l} : \A t :
                     t \in Range(c[m])
                         <=> \/ t \in Range(v[m])
                             \/ t \in Range(v[l]) /\ ListOf(expires[t], timer_ticks) = m
              /\ \A t : InWheel(c, t) <=> InWheel(v, t)
<1> DEFINE To(t) == ListOf(expires[t], timer_ticks)
           c == Cascade(v, l)
           o(m) == Only(v[l], Belong(m))
<1>0. /\ \A m \in Lists : v[m] \in Seq(Timers) /\ Range(v[m]) \subseteq Timers
      /\ \A m \in Lists : NoRepeat(v[m])
      /\ \A m, n \in Lists : m # n => Range(v[m]) \cap Range(v[n]) = {}
      /\ \A t \in Range(v[l]) : To(t) \in Lists \ {l}
  BY Listed DEF Separate
<1>1. ASSUME NEW m \in Lists
      PROVE  /\ o(m) \in Seq(Timers) /\ NoRepeat(o(m))
             /\ \A t : t \in Range(o(m)) <=> t \in Range(v[l]) /\ To(t) = m
  <2>1. /\ o(m) \in Seq(Timers) /\ NoRepeat(o(m))
        /\ Range(o(m)) = Range(v[l]) \cap Belong(m)
    BY <1>0, OnlyFacts
  <2>2. \A t : t \in Belong(m) <=> t \in Timers /\ To(t) = m
    BY DEF Belong
  <2> QED
    BY <1>0, <2>1, <2>2
<1>2. c = [m \in Lists |-> IF m = l THEN <<>> ELSE v[m] \o o(m)]
  BY DEF Cascade
<1> HIDE DEF To, c, o
<1>3. ASSUME NEW m \in Lists \ {l}
      PROVE  /\ c[m] \in Seq(Timers) /\ NoRepeat(c[m])
             /\ \A t : t \in Range(c[m]) <=> t \in Range(v[m]) \/ (t \in Range(v[l]) /\ To(t) = m)
  <2>1. c[m] = v[m] \o o(m)
    BY <1>2
  <2>2. Range(v[m]) \cap Range(o(m)) = {}
    BY <1>0, <1>1
  <2>3. /\ v[m] \o o(m) \in Seq(Timers)
        /\ Range(v[m] \o o(m)) = Range(v[m]) \cup Range(o(m))
        /\ NoRepeat(v[m] \o o(m))
    BY <1>0, <1>1, <2>2, ConcatFacts
  <2>4. Range(c[m]) = Range(v[m]) \cup Range(o(m))
    BY <2>1, <2>3
  <2>5. \A t : t \in Range(o(m)) <=> t \in Range(v[l]) /\ To(t) = m
    BY <1>1
  <2>6. ASSUME NEW t
        PROVE  t \in Range(c[m]) <=> t \in Range(v[m]) \/ (t \in Range(v[l]) /\ To(t) = m)
    <3>1. t \in Range(c[m]) <=> t \in Range(v[m]) \/ t \in Range(o(m))
      BY ONLY <2>4
    <3>2. t \in Range(o(m)) <=> t \in Range(v[l]) /\ To(t) = m
      BY ONLY <2>5
    <3> QED
      BY ONLY <3>1, <3>2
  <2> QED
    BY <2>1, <2>3, <2>6
<1>4. c[l] = <<>> /\ c[l] \in Seq(Timers) /\ NoRepeat(c[l]) /\ Range(c[l]) = {}
  <2>1. c[l] = <<>>
    BY <1>2
  <2>2. <<>> \in Seq(Timers) /\ NoRepeat(<<>>)
    BY EmptySeq DEF NoRepeat
  <2> QED
    BY <2>1, <2>2, RangeIs
<1>5. c \in [Lists -> Seq(Timers)]
  <2>1. c = [m \in Lists |-> c[m]]
    BY <1>2
  <2>2. \A m \in Lists : c[m] \in Seq(Timers)
    BY <1>3, <1>4
  <2> QED
    BY <2>1, <2>2
<1>6. Separate(c)
  <2>1. \A m \in Lists : NoRepeat(c[m])
    BY <1>3, <1>4
  <2>2. ASSUME NEW m \in Lists, NEW n \in Lists, m # n, NEW t, t \in Range(c[m]), t \in Range(c[n])
        PROVE  FALSE
    <3>1. m # l /\ n # l
      BY <1>4, <2>2
    <3>2. /\ t \in Range(v[m]) \/ (t \in Range(v[l]) /\ To(t) = m)
          /\ t \in Range(v[n]) \/ (t \in Range(v[l]) /\ To(t) = n)
      BY <1>3, <2>2, <3>1
    <3> QED
      BY <1>0, <2>2, <3>1, <3>2
  <2> QED
    BY <2>1, <2>2 DEF Separate
<1>7. ASSUME NEW t PROVE InWheel(c, t) <=> InWheel(v, t)
  <2>1. ASSUME NEW m \in Lists, t \in Range(c[m]) PROVE InWheel(v, t)
    <3>1. m # l
      BY <1>4, <2>1
    <3>2. t \in Range(v[m]) \/ t \in Range(v[l])
      BY <1>3, <2>1, <3>1
    <3> QED
      BY <3>2 DEF InWheel
  <2>2. ASSUME NEW m \in Lists, t \in Range(v[m]) PROVE InWheel(c, t)
    <3>1. CASE m = l
      <4>1. To(t) \in Lists \ {l}
        BY <1>0, <2>2, <3>1
      <4>2. t \in Range(c[To(t)])
        BY <1>3, <2>2, <3>1, <4>1
      <4> QED
        BY <4>1, <4>2 DEF InWheel
    <3>2. CASE m # l
      <4>1. m \in Lists \ {l}
        BY <3>2
      <4>2. \A x : x \in Range(c[m]) <=> x \in Range(v[m]) \/ (x \in Range(v[l]) /\ To(x) = m)
        BY <1>3, <4>1
      <4>3. t \in Range(c[m])
        BY ONLY <2>2, <4>2
      <4> QED
        BY <4>3 DEF InWheel
    <3> QED
      BY <3>1, <3>2
  <2> QED
    BY <2>1, <2>2 DEF InWheel
<1>8. /\ \A m \in Lists \ {l} : \A t :
             t \in Range(c[m]) <=> t \in Range(v[m]) \/ (t \in Range(v[l]) /\ To(t) = m)
      /\ \A t : InWheel(c, t) <=> InWheel(v, t)
  BY <1>3, <1>7
<1> QED
  BY ONLY <1>4, <1>5, <1>6, <1>8 DEF To, c

LEMMA PlacedWeaker ==
    ASSUME NEW k \in 1 .. 4, NEW now, NEW left, NEW e, NEW j, Placed(1, now, left, e, k, j)
    PROVE  Placed(0, now, left, e, k, j)
<1>1. PICK w \in Nat \ {0} : w = Span(k + 1)
  BY Spans
<1>2. \A f \in 1 .. w - 1 : f \in 0 .. w - 1
  OBVIOUS
<1> QED
  BY <1>1, <1>2 DEF Placed

(* INDEX(k - 2) is the list of vector k that time stands at. *)
LEMMA IndexIs ==
    ASSUME Typed, NEW k \in 2 .. 5
    PROVE  /\ Index(k - 2) = (timer_ticks \div Span(k)) % Slots(k)
           /\ Index(k - 2) \in 0 .. Slots(k) - 1
           /\ <<k, Index(k - 2)>> \in Lists
<1>1. k - 2 + 2 = k /\ k # 1 /\ Slots(k) = TvnSize
  BY DEF Slots
<1>2. Index(k - 2) = (timer_ticks \div Span(k)) % TvnSize
  BY <1>1 DEF Index
<1>3. Span(k) \in Nat \ {0} /\ TvnSize \in Nat \ {0} /\ timer_ticks \in Int
  BY Spans, TypedFacts, WheelAssumption
<1>4. PICK q \in Int : q = timer_ticks \div Span(k)
  BY <1>3, Division
<1>5. q % TvnSize \in 0 .. TvnSize - 1
  BY <1>3, Division
<1> QED
  BY <1>1, <1>2, <1>4, <1>5, InLists

(* The timers of a list that is cascaded go to vectors below it, into      *)
(* lists that are not emptied at this tick, or else into the first vector. *)
LEMMA CascadesDown ==
    ASSUME Typed, NEW v, Good(v), NEW k \in 2 .. 5, k # 5 => timer_ticks % Span(k) = 0,
           NEW t \in Range(v[<<k, Index(k - 2)>>])
    PROVE  /\ k # 5
           /\ \E m \in 1 .. 4 : \E i \in 0 .. Slots(m) - 1 :
                  /\ m < k /\ ListOf(expires[t], timer_ticks) = <<m, i>>
                  /\ Placed(IF m = 1 THEN 0 ELSE 1, timer_ticks, due[t] - ticks, expires[t], m, i)
<1>1. PICK j \in 0 .. Slots(k) - 1, l \in Lists :
          /\ j = (timer_ticks \div Span(k)) % Slots(k)
          /\ l = <<k, j>> /\ l[1] = k /\ l[2] = j /\ l = <<k, Index(k - 2)>>
  <2>1. PICK j \in 0 .. Slots(k) - 1 : j = Index(k - 2) /\ <<k, j>> \in Lists
    BY IndexIs
  <2> QED
    BY <2>1, IndexIs
<1>2. v \in [Lists -> Seq(Timers)] /\ t \in Range(v[l]) /\ WellPlaced(v)
  BY <1>1 DEF Good
<1>3. t \in Timers
  BY <1>2, Listed
<1>4. PICK left \in Int, now \in 0 .. Word - 1, e \in 0 .. Word - 1 :
          /\ left = due[t] - ticks /\ now = timer_ticks /\ e = expires[t] /\ now \in Nat
  BY <1>3, TypedFacts
<1>5. k \in 1 .. 4 /\ Placed(0, now, left, e, k, j)
  BY <1>1, <1>2, <1>4, PlacedAt
<1>6. now % Span(k) = 0 /\ k # 1
  BY <1>4, <1>5
<1>7. 0 <= left /\ left < Span(k) /\ e = (now + left) % Word
  BY <1>1, <1>4, <1>5, <1>6, EmptiedNow
<1>8. Span(k) <= Span(5) /\ Span(5) = Horizon /\ Horizon \in Nat /\ Span(k) \in Nat
  <2>1. k <= 5 /\ k \in 1 .. 5 /\ 5 \in 1 .. 5
    BY <1>5
  <2> QED
    BY <2>1, Spans, SpansGrow
<1>9. left \in -Horizon .. Horizon - 1
  BY <1>7, <1>8
<1>10. PICK m \in 1 .. 4 : \E i \in 0 .. Slots(m) - 1 :
          /\ ListOf(e, now) = <<m, i>>
          /\ Placed(IF m = 1 THEN 0 ELSE 1, now, IF left < 0 THEN 0 ELSE left, e, m, i)
          /\ left >= 0 /\ m # 1 => Span(m) <= left
  BY <1>7, <1>9, ListOfPlaces
<1>11. ~(left < 0) /\ left >= 0
  BY <1>7
<1>12. m < k
  <2>1. CASE m = 1
    BY <2>1, <1>6
  <2>2. CASE m # 1
    <3>1. Span(m) <= left
      BY <1>10, <1>11, <2>2
    <3>2. Span(m) \in Nat /\ m \in 1 .. 5 /\ k \in 1 .. 5
      BY <1>5, Spans
    <3>3. Span(m) < Span(k)
      BY <1>7, <1>8, <3>1, <3>2
    <3> QED
      BY <3>2, <3>3, SpansGrow
  <2> QED
    BY <2>1, <2>2
<1>13. k # 5
  BY <1>5
<1> QED
  BY <1>4, <1>10, <1>11, <1>12, <1>13

LEMMA CascadeStep ==
    ASSUME Typed, NEW v, Good(v), NEW k \in 2 .. 5, k # 5 => timer_ticks % Span(k) = 0
    PROVE  LET c == Cascade(v, <<k, Index(k - 2)>>)
           IN /\ Good(c)
              /\ k # 5 => Flushed(c, k)
              /\ \A m \in 2 .. 4 : Flushed(v, m) => Flushed(c, m)
<1>1. PICK j \in 0 .. Slots(k) - 1, l \in Lists :
          /\ j = (timer_ticks \div Span(k)) % Slots(k)
          /\ l = <<k, j>> /\ l[1] = k /\ l[2] = j /\ l = <<k, Index(k - 2)>>
  <2>1. PICK j \in 0 .. Slots(k) - 1 : j = Index(k - 2) /\ <<k, j>> \in Lists
    BY IndexIs
  <2> QED
    BY <2>1, IndexIs
<1> DEFINE To(t) == ListOf(expires[t], timer_ticks)
           At(first, t, m, i) == Placed(first, timer_ticks, due[t] - ticks, expires[t], m, i)
<1>2. v \in [Lists -> Seq(Timers)] /\ Separate(v) /\ WellPlaced(v)
  BY DEF Good
<1>3. ASSUME NEW t \in Range(v[l])
      PROVE  \E m \in 1 .. 4 : \E i \in 0 .. Slots(m) - 1 :
                 m < k /\ To(t) = <<m, i>> /\ At(IF m = 1 THEN 0 ELSE 1, t, m, i)
  BY <1>1, CascadesDown
<1>4. PICK c : c = Cascade(v, l)
  OBVIOUS
<1> HIDE DEF To, At
<1>5. ASSUME NEW t \in Range(v[l]) PROVE To(t) \in Lists \ {l}
  <2>1. PICK m \in 1 .. 4 : \E i \in 0 .. Slots(m) - 1 : m < k /\ To(t) = <<m, i>>
    BY <1>3
  <2>2. PICK i \in 0 .. Slots(m) - 1 : m < k /\ To(t) = <<m, i>>
    BY <2>1
  <2>3. <<m, i>> \in Lists
    BY InLists
  <2> QED
    BY <1>1, <2>2, <2>3
<1>6. /\ c \in [Lists -> Seq(Timers)] /\ Separate(c)
      /\ Range(c[l]) = {}
      /\ \A m \in Lists \ {l} : \A t :
             t \in Range(c[m]) <=> t \in Range(v[m]) \/ (t \in Range(v[l]) /\ To(t) = m)
      /\ \A t : InWheel(c, t) <=> InWheel(v, t)
  <2>1. v \in [Lists -> Seq(Timers)] /\ Separate(v)
    BY <1>2
  <2>2. \A t \in Range(v[l]) : ListOf(expires[t], timer_ticks) \in Lists \ {l}
    BY <1>5 DEF To
  <2>3. /\ Cascade(v, l) \in [Lists -> Seq(Timers)] /\ Separate(Cascade(v, l))
        /\ Range(Cascade(v, l)[l]) = {}
        /\ \A m \in Lists \ {l} : \A t :
               t \in Range(Cascade(v, l)[m])
                   <=> \/ t \in Range(v[m])
                       \/ t \in Range(v[l]) /\ ListOf(expires[t], timer_ticks) = m
        /\ \A t : InWheel(Cascade(v, l), t) <=> InWheel(v, t)
    BY ONLY <2>1, <2>2, l \in Lists, CascadeMoves
  <2> QED
    BY ONLY <1>4, <2>3 DEF To
<1>7. ASSUME NEW n \in Lists, NEW t \in Range(v[l]), To(t) = n
      PROVE  n[1] \in 1 .. 4 /\ At(IF n[1] = 1 THEN 0 ELSE 1, t, n[1], n[2])
  <2>1. PICK m \in 1 .. 4 : \E i \in 0 .. Slots(m) - 1 :
                 m < k /\ To(t) = <<m, i>> /\ At(IF m = 1 THEN 0 ELSE 1, t, m, i)
    BY <1>3
  <2> QED
    BY <1>7, <2>1
<1>8. WellPlaced(c)
  <2> SUFFICES ASSUME NEW n \in Lists, NEW t \in Range(c[n])
               PROVE  n[1] \in 1 .. 4 /\ At(0, t, n[1], n[2])
    BY DEF WellPlaced, At
  <2>0. n # l
    BY <1>6
  <2>1. CASE t \in Range(v[n])
    BY <1>2, <2>1, PlacedAt DEF At
  <2>2. CASE t \in Range(v[l]) /\ To(t) = n
    <3>1. n[1] \in 1 .. 4 /\ At(IF n[1] = 1 THEN 0 ELSE 1, t, n[1], n[2])
      BY <1>7, <2>2
    <3>2. CASE n[1] = 1
      BY <3>1, <3>2
    <3>3. CASE n[1] # 1
      BY <3>1, <3>3, PlacedWeaker DEF At
    <3> QED
      BY <3>2, <3>3
  <2> QED
    BY <1>6, <2>0, <2>1, <2>2
<1>9. Good(c)
  BY <1>6, <1>8 DEF Good
<1>10. ASSUME k # 5 PROVE Flushed(c, k)
  <2> SUFFICES ASSUME NEW i \in 0 .. Slots(k) - 1, NEW t \in Range(c[<<k, i>>])
               PROVE  At(1, t, k, i)
    BY DEF Flushed, At
  <2>1. PICK n \in Lists : n = <<k, i>> /\ n[1] = k /\ n[2] = i
    BY InLists
  <2>2. n # l /\ i # j
    BY <1>1, <1>6, <2>1
  <2>3. CASE t \in Range(v[n])
    <3>1. t \in Timers
      BY <1>2, <2>3, Listed
    <3>2. PICK left \in Int, now \in Nat, e \in 0 .. Word - 1 :
              left = due[t] - ticks /\ now = timer_ticks /\ e = expires[t]
      BY <3>1, TypedFacts
    <3>3. k \in 1 .. 4 /\ Placed(0, now, left, e, k, i)
      BY <1>2, <2>1, <2>3, <3>2, PlacedAt
    <3>4. (now \div Span(k)) % Slots(k) # i
      BY <1>1, <2>2, <3>2
    <3>5. Placed(1, now, left, e, k, i)
      BY <3>3, <3>4, EmptiedLater
    <3> QED
      BY <3>2, <3>5 DEF At
  <2>4. CASE t \in Range(v[l]) /\ To(t) = n
    <3>1. k # 1
      OBVIOUS
    <3> QED
      BY <1>7, <2>1, <2>4, <3>1
  <2> QED
    BY <1>6, <2>1, <2>2, <2>3, <2>4
<1>11. ASSUME NEW m \in 2 .. 4, Flushed(v, m) PROVE Flushed(c, m)
  <2> SUFFICES ASSUME NEW i \in 0 .. Slots(m) - 1, NEW t \in Range(c[<<m, i>>])
               PROVE  At(1, t, m, i)
    BY DEF Flushed, At
  <2>1. PICK n \in Lists : n = <<m, i>> /\ n[1] = m /\ n[2] = i
    BY InLists
  <2>2. n # l
    BY <1>6, <2>1
  <2>3. CASE t \in Range(v[n])
    BY <1>11, <2>1, <2>3 DEF Flushed, At
  <2>4. CASE t \in Range(v[l]) /\ To(t) = n
    <3>1. m # 1
      OBVIOUS
    <3> QED
      BY <1>7, <2>1, <2>4, <3>1
  <2> QED
    BY <1>6, <2>1, <2>2, <2>3, <2>4
<1> QED
  BY <1>1, <1>4, <1>9, <1>10, <1>11

(* A vector wraps when the one before it is at its first list, and that    *)
(* one wraps as well.                                                      *)
LEMMA VectorWraps ==
    ASSUME Typed, NEW k \in 2 .. 4
    PROVE  timer_ticks % Span(k + 1) = 0 <=> Index(k - 2) = 0 /\ timer_ticks % Span(k) = 0
<1>1. PICK now \in Nat : now = timer_ticks
  BY TypedFacts
<1>2. PICK s \in Nat \ {0}, n \in Nat \ {0}, w \in Nat \ {0}, p \in 0 .. Slots(k) - 1,
           r \in 0 .. Span(k) - 1 :
          /\ s = Span(k) /\ n = Slots(k) /\ w = Span(k + 1) /\ w = s * n
          /\ p = (now \div Span(k)) % Slots(k) /\ r = now % Span(k)
          /\ now % w = p * s + r
  <2>1. k \in 1 .. 4
    OBVIOUS
  <2> QED
    BY <2>1, Stands
<1>3. p = Index(k - 2)
  BY <1>1, <1>2, IndexIs
<1>4. p \in Nat /\ r \in Nat
  BY <1>2
<1>5. p * s + r = 0 <=> p = 0 /\ r = 0
  <2>1. p # 0 => p * s >= s
    BY <1>4
  <2>2. p = 0 => p * s = 0
    OBVIOUS
  <2>3. p * s \in Int
    BY <1>4
  <2> QED
    BY <1>4, <2>1, <2>2, <2>3
<1> QED
  BY <1>1, <1>2, <1>3, <1>5

(* One of the cascades that a tick begins with, or none.                   *)
LEMMA MaybeCascade ==
    ASSUME Typed, NEW v, Good(v), NEW k \in 2 .. 5,
           \A m \in 2 .. 4 : m < k => Flushed(v, m),
           NEW u,
           \/ /\ k # 5 => timer_ticks % Span(k) = 0
              /\ u = Cascade(v, <<k, Index(k - 2)>>)
           \/ (k # 5 => timer_ticks % Span(k) # 0) /\ u = v
    PROVE  Good(u) /\ \A m \in 2 .. 4 : m <= k => Flushed(u, m)
<1>0. \A m \in 2 .. 4 : m <= k => m < k \/ (m = k /\ k # 5)
  <2>1. PICK n \in Int : n = k
    OBVIOUS
  <2>2. \A m \in 2 .. 4 : m <= n => m < n \/ (m = n /\ n # 5)
    BY ONLY n \in Int
  <2> QED
    BY ONLY <2>1, <2>2
<1>1. CASE (k # 5 => timer_ticks % Span(k) = 0) /\ u = Cascade(v, <<k, Index(k - 2)>>)
  <2>1. /\ Good(u) /\ (k # 5 => Flushed(u, k))
        /\ \A m \in 2 .. 4 : Flushed(v, m) => Flushed(u, m)
    BY <1>1, CascadeStep
  <2> QED
    BY <1>0, <2>1
<1>2. CASE (k # 5 => timer_ticks % Span(k) # 0) /\ u = v
  <2>1. ASSUME k # 5 PROVE Flushed(v, k)
    <3> DEFINE At(t, i) == Placed(1, timer_ticks, due[t] - ticks, expires[t], k, i)
    <3> SUFFICES ASSUME NEW i \in 0 .. Slots(k) - 1, NEW t \in Range(v[<<k, i>>])
                 PROVE  At(t, i)
      BY DEF Flushed
    <3>1. PICK n \in Lists : n = <<k, i>> /\ n[1] = k /\ n[2] = i
      BY InLists
    <3>2. v \in [Lists -> Seq(Timers)] /\ WellPlaced(v)
      BY DEF Good
    <3>3. t \in Timers
      BY <3>1, <3>2, Listed
    <3>4. PICK left \in Int, now \in Nat, e \in 0 .. Word - 1 :
              left = due[t] - ticks /\ now = timer_ticks /\ e = expires[t]
      BY <3>3, TypedFacts
    <3>5. k \in 1 .. 4 /\ Placed(0, now, left, e, k, i)
      BY <3>1, <3>2, <3>4, PlacedAt
    <3>6. now % Span(k) # 0
      BY <1>2, <2>1, <3>4
    <3>7. Placed(1, now, left, e, k, i)
      BY <3>5, <3>6, EmptiedLater
    <3> QED
      BY <3>4, <3>7
  <2> QED
    BY <1>0, <1>2, <2>1
<1> QED
  BY <1>1, <1>2

LEMMA CascadedFacts ==
    ASSUME Typed, Once, WellPlaced(vec)
    PROVE  Good(Cascaded) /\ \A k \in 2 .. 4 : Flushed(Cascaded, k)
<1>0. Good(vec)
  BY DEF Good, Typed, Once
<1> DEFINE B2 == timer_ticks % TvrSize = 0
           B3 == Index(0) = 0
           B4 == Index(0) = 0 /\ Index(1) = 0
           B5 == Index(0) = 0 /\ Index(1) = 0 /\ Index(2) = 0
           v2 == Cascade(vec, <<2, Index(0)>>)
           v3 == IF B3 THEN Cascade(v2, <<3, Index(1)>>) ELSE v2
           v4 == IF B4 THEN Cascade(v3, <<4, Index(2)>>) ELSE v3
           v5 == IF B5 THEN Cascade(v4, <<5, Index(3)>>) ELSE v4
<1>1. Cascaded = IF B2 THEN v5 ELSE vec
  BY DEF Cascaded
<1>2. /\ B2 <=> timer_ticks % Span(2) = 0
      /\ B2 => (B3 <=> timer_ticks % Span(3) = 0)
      /\ B2 => (B4 <=> timer_ticks % Span(4) = 0)
      /\ ~B2 => timer_ticks % Span(2) # 0 /\ timer_ticks % Span(3) # 0 /\ timer_ticks % Span(4) # 0
  <2>1. timer_ticks % Span(2 + 1) = 0 <=> Index(2 - 2) = 0 /\ timer_ticks % Span(2) = 0
    BY VectorWraps
  <2>2. timer_ticks % Span(3 + 1) = 0 <=> Index(3 - 2) = 0 /\ timer_ticks % Span(3) = 0
    BY VectorWraps
  <2>3. 2 + 1 = 3 /\ 2 - 2 = 0 /\ 3 + 1 = 4 /\ 3 - 2 = 1
    OBVIOUS
  <2>4. Span(2) = TvrSize
    BY Spans
  <2> QED
    BY <2>1, <2>2, <2>3, <2>4
<1>3. /\ v3 = IF B3 THEN Cascade(v2, <<3, Index(3 - 2)>>) ELSE v2
      /\ v4 = IF B4 THEN Cascade(v3, <<4, Index(4 - 2)>>) ELSE v3
      /\ v5 = IF B5 THEN Cascade(v4, <<5, Index(5 - 2)>>) ELSE v4
      /\ v2 = Cascade(vec, <<2, Index(2 - 2)>>)
  OBVIOUS
<1> HIDE DEF B2, B3, B4, B5, v2, v3, v4, v5
<1>4. CASE ~B2
  <2>1. \A k \in 2 .. 4 : timer_ticks % Span(k) # 0
    <3>1. \A k \in 2 .. 4 : k = 2 \/ k = 3 \/ k = 4
      OBVIOUS
    <3> QED
      BY <1>2, <1>4, <3>1
  <2>2. ASSUME NEW k \in 2 .. 4, \A m \in 2 .. 4 : m < k => Flushed(vec, m)
        PROVE  \A m \in 2 .. 4 : m <= k => Flushed(vec, m)
    <3>1. k \in 2 .. 5 /\ timer_ticks % Span(k) # 0 /\ vec = vec
      BY <2>1
    <3>2. PICK u : u = vec
      OBVIOUS
    <3>3. \A m \in 2 .. 4 : m <= k => Flushed(u, m)
      BY <1>0, <2>2, <3>1, <3>2, MaybeCascade
    <3> QED
      BY <3>2, <3>3
  <2>3. \A m \in 2 .. 4 : m <= 2 => Flushed(vec, m)
    BY <2>2
  <2>4. \A m \in 2 .. 4 : m <= 3 => Flushed(vec, m)
    BY <2>2, <2>3
  <2>5. \A m \in 2 .. 4 : m <= 4 => Flushed(vec, m)
    BY <2>2, <2>4
  <2> QED
    BY <1>0, <1>1, <1>4, <2>5
<1>5. CASE B2
  <2>2. Good(v2) /\ \A m \in 2 .. 4 : m <= 2 => Flushed(v2, m)
    <3>1. 2 \in 2 .. 5 /\ 2 # 5 /\ timer_ticks % Span(2) = 0
      BY <1>2, <1>5
    <3>2. \A m \in 2 .. 4 : m < 2 => Flushed(vec, m)
      OBVIOUS
    <3> QED
      BY <1>0, <1>3, <3>1, <3>2, MaybeCascade
  <2>3. Good(v3) /\ \A m \in 2 .. 4 : m <= 3 => Flushed(v3, m)
    <3>1. 3 \in 2 .. 5 /\ 3 # 5 /\ (B3 <=> timer_ticks % Span(3) = 0)
      BY <1>2, <1>5
    <3>2. \A m \in 2 .. 4 : m < 3 => Flushed(v2, m)
      BY <2>2
    <3>3. \/ timer_ticks % Span(3) = 0 /\ v3 = Cascade(v2, <<3, Index(3 - 2)>>)
          \/ timer_ticks % Span(3) # 0 /\ v3 = v2
      BY <1>3, <3>1
    <3> QED
      BY <2>2, <3>1, <3>2, <3>3, MaybeCascade
  <2>4. Good(v4) /\ \A m \in 2 .. 4 : m <= 4 => Flushed(v4, m)
    <3>1. 4 \in 2 .. 5 /\ 4 # 5 /\ (B4 <=> timer_ticks % Span(4) = 0)
      BY <1>2, <1>5
    <3>2. \A m \in 2 .. 4 : m < 4 => Flushed(v3, m)
      BY <2>3
    <3>3. \/ timer_ticks % Span(4) = 0 /\ v4 = Cascade(v3, <<4, Index(4 - 2)>>)
          \/ timer_ticks % Span(4) # 0 /\ v4 = v3
      BY <1>3, <3>1
    <3> QED
      BY <2>3, <3>1, <3>2, <3>3, MaybeCascade
  <2>5. Good(v5) /\ \A m \in 2 .. 4 : m <= 5 => Flushed(v5, m)
    <3>1. 5 \in 2 .. 5
      OBVIOUS
    <3>2. \A m \in 2 .. 4 : m < 5 => Flushed(v4, m)
      BY <2>4
    <3>3. v5 = Cascade(v4, <<5, Index(5 - 2)>>) \/ v5 = v4
      BY <1>3
    <3> QED
      BY <2>4, <3>1, <3>2, <3>3, MaybeCascade
  <2>6. \A m \in 2 .. 4 : m <= 5
    OBVIOUS
  <2> QED
    BY <1>1, <1>5, <2>5, <2>6
<1> QED
  BY <1>4, <1>5

-----------------------------------------------------------------------------
(***************************************************************************)
(* The steps.                                                              *)
(***************************************************************************)
LEMMA NotYetDue ==
    ASSUME IInv, NEW t \in Timers, InWheel(vec, t)
    PROVE  due[t] \in Nat /\ due[t] >= ticks
<1>1. Typed /\ WellPlaced(vec)
  BY DEF IInv
<1>2. PICK l \in Lists : t \in Range(vec[l])
  BY DEF InWheel
<1>3. PICK k \in 1 .. 4 : Placed(0, timer_ticks, due[t] - ticks, expires[t], k, l[2])
  BY <1>1, <1>2 DEF WellPlaced
<1>4. PICK left \in Int : left = due[t] - ticks
  BY <1>1, TypedFacts
<1>5. PICK w \in Nat : w = Span(k + 1)
  BY Spans
<1>6. left >= 0
  BY <1>3, <1>4, <1>5 DEF Placed
<1> QED
  BY <1>1, <1>4, <1>6, TypedFacts

(* The run is not over: its end is no earlier than the next tick.          *)
LEMMA RunEnd ==
    ASSUME IInv, absms # Idle
    PROVE  \E g \in -1 .. Horizon - 1 :
               /\ absms = (timer_ticks + g) % Word /\ ticks + g < MaxTicks
               /\ TimeAfterEq(absms, timer_ticks) <=> g >= 0
<1>1. PICK g \in -1 .. Horizon - 1 : absms = (timer_ticks + g) % Word /\ ticks + g < MaxTicks
  BY DEF IInv, Ends
<1>2. Horizon \in Nat \ {0} /\ Word \in Nat \ {0} /\ Word >= 4 * Horizon
  BY Spans
<1>3. g \in Int /\ g \in -Horizon .. Horizon - 1
  BY <1>2
<1>4. PICK now \in 0 .. Word - 1 : now = timer_ticks
  BY TypedFacts DEF IInv
<1>5. (absms - now) % Word = IF g < 0 THEN Word + g ELSE g
  BY <1>1, <1>3, <1>4, Distance
<1>6. CASE g < 0
  <2>1. g = -1 /\ ~(Word + g < Word \div 2)
    BY <1>2, <1>3, <1>6
  <2> QED
    BY <1>1, <1>3, <1>4, <1>5, <1>6, <2>1 DEF TimeAfterEq
<1>7. CASE g >= 0
  <2>1. g < Word \div 2
    BY <1>2, <1>3, <1>7
  <2> QED
    BY <1>1, <1>3, <1>4, <1>5, <1>7, <2>1 DEF TimeAfterEq
<1> QED
  BY <1>3, <1>6, <1>7

LEMMA TickKeeps ==
    ASSUME IInv, Tick
    PROVE  IInv'
<1>0. Typed /\ Once /\ WellPlaced(vec) /\ work = <<>> /\ absms # Idle
  BY DEF IInv, Tick, TickDone
<1>1. PICK now \in 0 .. Word - 1 : now = timer_ticks /\ now \in Nat
  BY <1>0, TypedFacts
<1>2. PICK j \in 0 .. Slots(1) - 1, l \in Lists :
          /\ j = now % TvrSize /\ j = (now \div Span(1)) % Slots(1) /\ now % Span(1) = 0
          /\ l = <<1, j>> /\ l[1] = 1 /\ l[2] = j
  <2>1. TvrSize \in Nat \ {0} /\ Span(1) = 1
    BY Spans
  <2>2. PICK j \in 0 .. TvrSize - 1 : j = now % TvrSize
    <3>1. now \in Int
      BY <1>1
    <3> QED
      BY ONLY <2>1, <3>1, Division
  <2>3. now \div 1 = now /\ now % 1 = 0
    OBVIOUS
  <2>4. j = (now \div Span(1)) % Slots(1)
    BY <2>1, <2>2, <2>3 DEF Slots
  <2>5. <<1, j>> \in Lists /\ j \in 0 .. Slots(1) - 1
    BY <2>2, InLists DEF Slots
  <2> QED
    BY <2>1, <2>2, <2>3, <2>4, <2>5
<1>3. PICK c : c = Cascaded
  OBVIOUS
<1>4. /\ c \in [Lists -> Seq(Timers)] /\ Separate(c) /\ WellPlaced(c)
      /\ \A t \in Timers : InWheel(c, t) <=> InWheel(vec, t)
      /\ \A k \in 2 .. 4 : Flushed(c, k)
  BY <1>0, <1>3, CascadedFacts DEF Good
<1>5. /\ timer_ticks' = (now + 1) % Word /\ ticks' = ticks + 1
      /\ work' = c[l] /\ vec' = [c EXCEPT ![l] = <<>>]
      /\ expires' = expires /\ absms' = absms /\ calling' = calling /\ due' = due
  BY <1>1, <1>2, <1>3 DEF Tick
<1>6. /\ vec' \in [Lists -> Seq(Timers)] /\ vec'[l] = <<>> /\ Range(vec'[l]) = {}
      /\ NoRepeat(vec'[l])
      /\ \A m \in Lists : m # l => vec'[m] = c[m]
  <2>1. <<>> \in Seq(Timers) /\ NoRepeat(<<>>) /\ Range(<<>>) = {}
    <3>1. <<>> \in Seq(Timers) /\ NoRepeat(<<>>)
      BY EmptySeq DEF NoRepeat
    <3> QED
      BY <3>1, RangeIs
  <2> QED
    BY <1>4, <1>5, <2>1
<1>7. PICK g \in -1 .. Horizon - 1 :
          absms = (now + g) % Word /\ ticks + g < MaxTicks /\ g >= 0
  <2>1. TimeAfterEq(absms, timer_ticks)
    BY DEF Tick
  <2> QED
    BY <1>0, <1>1, <2>1, RunEnd
<1>8. Typed'
  <2>1. timer_ticks' \in 0 .. Word - 1
    <3>1. now + 1 \in Int /\ Word \in Nat \ {0}
      BY Spans
    <3> QED
      BY <1>5, <3>1, Division
  <2>2. ticks' \in 0 .. MaxTicks
    <3>1. ticks \in Nat /\ MaxTicks \in Nat /\ Horizon \in Nat
      BY <1>0, TypedFacts, WheelAssumption, Spans
    <3> QED
      BY <1>5, <1>7, <3>1
  <2>3. work' \in Seq(Timers)
    BY <1>4, <1>5
  <2> QED
    BY <1>0, <1>5, <1>6, <2>1, <2>2, <2>3 DEF Typed
<1>9. ASSUME NEW m \in Lists, NEW t \in Range(c[m])
      PROVE  /\ m[1] \in 1 .. 4 /\ t \in Timers
             /\ m # l => Placed(0, timer_ticks', due'[t] - ticks', expires'[t], m[1], m[2])
             /\ m = l => due[t] = ticks
  <2>1. t \in Timers
    BY <1>4, Listed
  <2>2. PICK left \in Int, e \in 0 .. Word - 1 : left = due[t] - ticks /\ e = expires[t]
    BY <1>0, <2>1, TypedFacts
  <2>3. m[1] \in 1 .. 4 /\ m[2] \in 0 .. Slots(m[1]) - 1 /\ Placed(0, now, left, e, m[1], m[2])
    BY <1>1, <1>4, <2>2, PlacedAt
  <2>4. due[t] \in Int /\ ticks \in Nat
    BY <1>0, <2>1, TypedFacts
  <2>5. ASSUME m # l PROVE Placed(1, now, left, e, m[1], m[2])
    <3>1. CASE m[1] = 1
      <4>1. m[2] # j
        BY <1>2, <2>3, <2>5, <3>1, InLists
      <4>2. PICK i \in 0 .. Slots(1) - 1 : i = m[2] /\ Placed(0, now, left, e, 1, i) /\ i # j
        BY <2>3, <3>1, <4>1
      <4>3. Placed(1, now, left, e, 1, i)
        BY <1>2, <4>2, EmptiedLater
      <4> QED
        BY <3>1, <4>2, <4>3
    <3>2. CASE m[1] # 1
      <4>1. m[1] \in 2 .. 4
        BY <2>3, <3>2
      <4>2. m = <<m[1], m[2]>>
        BY InLists
      <4> QED
        BY <1>1, <1>4, <2>2, <2>3, <4>1, <4>2 DEF Flushed
    <3> QED
      BY <3>1, <3>2
  <2>6. ASSUME m # l PROVE Placed(0, timer_ticks', due'[t] - ticks', expires'[t], m[1], m[2])
    <3>1. Placed(0, (now + 1) % Word, left - 1, e, m[1], m[2])
      BY <2>3, <2>5, <2>6, OneTickOn
    <3>2. due'[t] - ticks' = left - 1
      <4>1. due'[t] = due[t] /\ ticks' = ticks + 1
        BY <1>5
      <4> QED
        BY ONLY <4>1, <2>2, <2>4
    <3> QED
      BY <1>5, <2>2, <3>1, <3>2
  <2>7. ASSUME m = l PROVE due[t] = ticks
    <3>1. Placed(0, now, left, e, 1, j)
      BY <1>2, <2>3, <2>7
    <3>2. 0 <= left /\ left < Span(1)
      <4>1. 1 \in 1 .. 4
        OBVIOUS
      <4> QED
        BY <1>2, <3>1, <4>1, EmptiedNow
    <3>3. left = 0
      BY <3>2, Spans
    <3> QED
      BY <2>2, <2>4, <3>3
  <2> QED
    BY <2>1, <2>3, <2>6, <2>7
<1>10. WellPlaced(vec)'
  <2> SUFFICES ASSUME NEW m \in Lists, NEW t \in Range(vec'[m])
               PROVE  /\ m[1] \in 1 .. 4
                      /\ Placed(0, timer_ticks', due'[t] - ticks', expires'[t], m[1], m[2])
    BY DEF WellPlaced
  <2>1. m # l /\ t \in Range(c[m])
    BY <1>6
  <2> QED
    BY <1>9, <2>1
<1>11. WorkDue'
  <2>1. ASSUME NEW t \in Range(work') PROVE due'[t] + 1 = ticks'
    <3>1. t \in Range(c[l])
      BY <1>5, <2>1
    <3>2. due[t] = ticks
      BY <1>9, <3>1
    <3> QED
      BY <1>5, <3>2
  <2> QED
    BY <2>1 DEF WorkDue
<1>12. Once'
  <2>1. /\ \A m \in Lists : NoRepeat(c[m])
        /\ \A m, n \in Lists : m # n => Range(c[m]) \cap Range(c[n]) = {}
    BY <1>4 DEF Separate
  <2>2. Separate(vec')
    <3>1. \A m \in Lists : NoRepeat(vec'[m])
      BY <1>6, <2>1
    <3>2. ASSUME NEW m \in Lists, NEW n \in Lists, m # n
          PROVE  Range(vec'[m]) \cap Range(vec'[n]) = {}
      BY <1>6, <2>1, <3>2
    <3> QED
      BY <3>1, <3>2 DEF Separate
  <2>3. NoRepeat(work')
    BY <1>5, <2>1
  <2>4. ASSUME NEW t \in Range(work') PROVE ~InWheel(vec', t)
    BY <1>5, <1>6, <2>1, <2>4 DEF InWheel
  <2>5. ASSUME NEW t \in Timers
        PROVE  due'[t] # NotDue <=> InWheel(vec', t) \/ t \in Range(work')
    <3>1. due[t] # NotDue <=> InWheel(vec, t)
      <4>1. Range(work) = {}
        BY <1>0, RangeIs DEF Typed
      <4> QED
        BY <1>0, <4>1 DEF Once
    <3>2. InWheel(c, t) <=> InWheel(vec', t) \/ t \in Range(work')
      BY <1>5, <1>6 DEF InWheel
    <3> QED
      BY <1>4, <1>5, <3>1, <3>2
  <2> QED
    BY <2>2, <2>3, <2>4, <2>5 DEF Once, Separate, InWheel
<1>13. Ends'
  <2>1. PICK a \in Int, y \in Int : a = now + 1 /\ y = g - 1
    <3>1. g \in Int
      BY Spans
    <3> QED
      BY <3>1
  <2>2. ((a % Word) + y) % Word = (a + y) % Word
    BY ONLY a \in Int, y \in Int, Wraps
  <2>3. a + y = now + g /\ y \in -1 .. Horizon - 1 /\ ticks' + y < MaxTicks
    <3>1. ticks \in Nat /\ Horizon \in Nat /\ g \in Int
      BY <1>0, TypedFacts, Spans
    <3> QED
      BY <1>5, <1>7, <2>1, <3>1
  <2>4. absms' = (timer_ticks' + y) % Word
    BY <1>5, <1>7, <2>1, <2>2, <2>3
  <2> QED
    BY <2>3, <2>4 DEF Ends
<1> QED
  BY <1>8, <1>10, <1>11, <1>12, <1>13 DEF IInv

LEMMA DetachedFacts ==
    ASSUME Typed, Separate(vec), NEW t \in Timers
    PROVE  LET v == Detached(vec, t)
           IN /\ v \in [Lists -> Seq(Timers)] /\ Separate(v)
              /\ \A l \in Lists : \A x : x \in Range(v[l]) <=> x \in Range(vec[l]) /\ x # t
<1> DEFINE v == Detached(vec, t)
<1>1. v = [l \in Lists |-> Without(vec[l], t)]
  BY DEF Detached
<1>2. vec \in [Lists -> Seq(Timers)]
  BY DEF Typed
<1> HIDE DEF v
<1>3. ASSUME NEW l \in Lists
      PROVE  /\ v[l] \in Seq(Timers) /\ NoRepeat(v[l])
             /\ \A x : x \in Range(v[l]) <=> x \in Range(vec[l]) /\ x # t
  <2>1. v[l] = Only(vec[l], Timers \ {t})
    BY <1>1 DEF Without
  <2>2. vec[l] \in Seq(Timers) /\ Range(vec[l]) \subseteq Timers /\ NoRepeat(vec[l])
    BY <1>2, Listed DEF Separate
  <2> QED
    BY <2>1, <2>2, OnlyFacts
<1>4. v \in [Lists -> Seq(Timers)]
  BY <1>1, <1>3
<1>5. Separate(v)
  <2>1. \A l, m \in Lists : l # m => Range(vec[l]) \cap Range(vec[m]) = {}
    BY DEF Separate
  <2>2. ASSUME NEW l \in Lists, NEW m \in Lists, l # m PROVE Range(v[l]) \cap Range(v[m]) = {}
    <3>1. Range(v[l]) \subseteq Range(vec[l]) /\ Range(v[m]) \subseteq Range(vec[m])
      BY <1>3
    <3> QED
      BY <2>1, <2>2, <3>1
  <2> QED
    BY <1>3, <2>2 DEF Separate
<1> QED
  BY <1>3, <1>4, <1>5 DEF v

LEMMA WithoutFacts ==
    ASSUME NEW s \in Seq(Timers), NEW t \in Timers
    PROVE  /\ Without(s, t) \in Seq(Timers)
           /\ NoRepeat(s) => NoRepeat(Without(s, t))
           /\ \A x : x \in Range(Without(s, t)) <=> x \in Range(s) /\ x # t
<1>1. Range(s) \subseteq Timers
  BY RangeIs
<1> QED
  BY <1>1, OnlyFacts DEF Without

LEMMA InsertedFacts ==
    ASSUME NEW v \in [Lists -> Seq(Timers)], Separate(v), NEW t \in Timers, ~InWheel(v, t),
           NEW l \in Lists
    PROVE  LET u == [v EXCEPT ![l] = Append(@, t)]
           IN /\ u \in [Lists -> Seq(Timers)] /\ Separate(u)
              /\ \A m \in Lists : \A x :
                     x \in Range(u[m]) <=> x \in Range(v[m]) \/ (m = l /\ x = t)
<1> DEFINE u == [v EXCEPT ![l] = Append(@, t)]
<1>1. /\ \A m \in Lists : v[m] \in Seq(Timers) /\ NoRepeat(v[m]) /\ t \notin Range(v[m])
      /\ \A m, n \in Lists : m # n => Range(v[m]) \cap Range(v[n]) = {}
  BY Listed DEF Separate, InWheel
<1>2. /\ Append(v[l], t) \in Seq(Timers) /\ NoRepeat(Append(v[l], t))
      /\ Range(Append(v[l], t)) = Range(v[l]) \cup {t}
  BY <1>1, AppendFacts
<1>3. u = [m \in Lists |-> IF m = l THEN Append(v[l], t) ELSE v[m]]
  OBVIOUS
<1> HIDE DEF u
<1>4. ASSUME NEW m \in Lists
      PROVE  /\ u[m] \in Seq(Timers) /\ NoRepeat(u[m])
             /\ \A x : x \in Range(u[m]) <=> x \in Range(v[m]) \/ (m = l /\ x = t)
  <2>1. CASE m = l
    <3>1. u[m] = Append(v[l], t)
      BY <1>3, <2>1
    <3>2. \A x : x \in Range(u[m]) <=> x \in Range(v[m]) \/ (m = l /\ x = t)
      BY ONLY <1>2, <2>1, <3>1
    <3> QED
      BY ONLY <1>2, <3>1, <3>2
  <2>2. CASE m # l
    <3>1. u[m] = v[m]
      BY <1>3, <2>2
    <3>2. v[m] \in Seq(Timers) /\ NoRepeat(v[m])
      BY <1>1
    <3> QED
      BY ONLY <2>2, <3>1, <3>2
  <2> QED
    BY <2>1, <2>2
<1>5. u \in [Lists -> Seq(Timers)]
  BY <1>3, <1>4
<1>6. Separate(u)
  <2>1. ASSUME NEW m \in Lists, NEW n \in Lists, m # n, NEW x, x \in Range(u[m]), x \in Range(u[n])
        PROVE  FALSE
    <3>1. /\ x \in Range(v[m]) \/ (m = l /\ x = t)
          /\ x \in Range(v[n]) \/ (n = l /\ x = t)
      BY <1>4, <2>1
    <3> QED
      BY <1>1, <2>1, <3>1
  <2> QED
    BY <1>4, <2>1 DEF Separate
<1> QED
  BY <1>4, <1>5, <1>6 DEF u

(* A timer that is in no list of v or w is set; what the other timers are  *)
(* in has not changed.                                                     *)
LEMMA SetKeeps ==
    ASSUME IInv, NEW t \in Timers, NEW d \in Delays, NEW e, e = (timer_ticks + d) % Word,
           NEW v \in [Lists -> Seq(Timers)], Separate(v),
           \A l \in Lists : \A x : x \in Range(v[l]) <=> x \in Range(vec[l]) /\ x # t,
           NEW w \in Seq(Timers), NoRepeat(w),
           \A x : x \in Range(w) <=> x \in Range(work) /\ x # t,
           expires' = [expires EXCEPT ![t] = e], vec' = Insert(v, t, e, timer_ticks),
           work' = w, due' = [due EXCEPT ![t] = Due(d)],
           UNCHANGED <<timer_ticks, absms, calling, ticks>>
    PROVE  IInv' /\ due'[t] \in Nat /\ due'[t] >= ticks
<1>0. Typed /\ Once /\ WellPlaced(vec) /\ WorkDue /\ Ends
  BY DEF IInv
<1>1. PICK now \in 0 .. Word - 1 : now = timer_ticks /\ now \in Nat
  BY <1>0, TypedFacts
<1>2. /\ d \in Int /\ d \in -Horizon .. Horizon - 1 /\ Word \in Nat \ {0} /\ ticks \in Nat
      /\ e \in 0 .. Word - 1
  <2>1. Delays \subseteq -Horizon .. Horizon - 1 /\ Horizon \in Nat /\ Word \in Nat \ {0}
    BY WheelAssumption, Spans
  <2>2. d \in Int /\ d \in -Horizon .. Horizon - 1
    BY <2>1
  <2>3. PICK a \in Int : a = now + d
    BY <2>2
  <2>4. a % Word \in 0 .. Word - 1
    BY <2>1, Division
  <2> QED
    BY <1>0, <1>1, <2>1, <2>2, <2>3, <2>4, TypedFacts
<1>3. PICK left \in Nat : left = IF d < 0 THEN 0 ELSE d
  BY <1>2
<1>4. PICK k \in 1 .. 4 : \E j \in 0 .. Slots(k) - 1 :
          ListOf(e, now) = <<k, j>> /\ Placed(IF k = 1 THEN 0 ELSE 1, now, left, e, k, j)
  BY <1>1, <1>2, <1>3, ListOfPlaces
<1>5. PICK l \in Lists : l = ListOf(e, now) /\ l[1] = k /\ Placed(0, now, left, e, k, l[2])
  <2>1. PICK j \in 0 .. Slots(k) - 1 :
            ListOf(e, now) = <<k, j>> /\ Placed(IF k = 1 THEN 0 ELSE 1, now, left, e, k, j)
    BY <1>4
  <2>2. Placed(0, now, left, e, k, j)
    BY <2>1, PlacedWeaker
  <2>3. <<k, j>> \in Lists
    BY InLists
  <2> QED
    BY <2>1, <2>2, <2>3
<1>6. ~InWheel(v, t)
  BY DEF InWheel
<1>7. vec' = [v EXCEPT ![l] = Append(@, t)]
  BY <1>1, <1>5 DEF Insert
<1>8. /\ vec' \in [Lists -> Seq(Timers)] /\ Separate(vec')
      /\ \A m \in Lists : \A x : x \in Range(vec'[m]) <=> x \in Range(v[m]) \/ (m = l /\ x = t)
  <2>1. v \in [Lists -> Seq(Timers)] /\ Separate(v) /\ t \in Timers /\ l \in Lists
    OBVIOUS
  <2>2. LET u == [v EXCEPT ![l] = Append(@, t)]
        IN /\ u \in [Lists -> Seq(Timers)] /\ Separate(u)
           /\ \A m \in Lists : \A x : x \in Range(u[m]) <=> x \in Range(v[m]) \/ (m = l /\ x = t)
    BY ONLY <1>6, <2>1, InsertedFacts
  <2>3. PICK u : u = [v EXCEPT ![l] = Append(@, t)]
    OBVIOUS
  <2>4. vec' = u
    BY <1>7, <2>3
  <2> QED
    BY ONLY <2>2, <2>3, <2>4
<1>9. /\ due'[t] = ticks + left /\ expires'[t] = e
      /\ \A x \in Timers : x # t => due'[x] = due[x] /\ expires'[x] = expires[x]
      /\ due' \in [Timers -> Nat \cup {NotDue}]
      /\ expires' \in [Timers -> 0 .. Word - 1]
  <2>1. Due(d) = ticks + left
    BY <1>3 DEF Due
  <2>2. due \in [Timers -> Nat \cup {NotDue}] /\ expires \in [Timers -> 0 .. Word - 1]
    BY <1>0 DEF Typed
  <2>3. ticks + left \in Nat
    BY <1>2
  <2> QED
    BY <1>2, <2>1, <2>2, <2>3
<1>10. Typed'
  BY <1>0, <1>8, <1>9 DEF Typed
<1>11. WellPlaced(vec)'
  <2> SUFFICES ASSUME NEW m \in Lists, NEW x \in Range(vec'[m])
               PROVE  /\ m[1] \in 1 .. 4
                      /\ Placed(0, timer_ticks', due'[x] - ticks', expires'[x], m[1], m[2])
    BY DEF WellPlaced
  <2>1. CASE x \in Range(v[m])
    <3>1. x \in Range(vec[m]) /\ x # t
      BY <2>1
    <3>2. x \in Timers
      BY <2>1, Listed
    <3>3. /\ m[1] \in 1 .. 4
          /\ Placed(0, timer_ticks, due[x] - ticks, expires[x], m[1], m[2])
      BY <1>0, <3>1 DEF WellPlaced
    <3> QED
      BY <1>9, <3>1, <3>2, <3>3
  <2>2. CASE m = l /\ x = t
    <3>1. due'[x] - ticks' = left
      BY <1>2, <1>9, <2>2
    <3> QED
      BY <1>1, <1>5, <1>9, <2>2, <3>1
  <2> QED
    BY <1>8, <2>1, <2>2
<1>12. WorkDue'
  <2> SUFFICES ASSUME NEW x \in Range(w) PROVE due'[x] + 1 = ticks'
    BY DEF WorkDue
  <2>1. x \in Range(work) /\ x # t /\ x \in Timers
    BY RangeIs
  <2> QED
    BY <1>0, <1>9, <2>1 DEF WorkDue
<1>13. Once'
  <2>1. ASSUME NEW x \in Timers
        PROVE  InWheel(vec', x) <=> (InWheel(vec, x) /\ x # t) \/ x = t
    <3>1. \A m \in Lists :
              x \in Range(vec'[m]) <=> (x \in Range(vec[m]) /\ x # t) \/ (m = l /\ x = t)
      BY <1>8
    <3>2. ASSUME NEW m \in Lists, x \in Range(vec'[m])
          PROVE  (InWheel(vec, x) /\ x # t) \/ x = t
      BY <3>1, <3>2 DEF InWheel
    <3>3. ASSUME NEW m \in Lists, x \in Range(vec[m]), x # t PROVE InWheel(vec', x)
      <4>1. x \in Range(vec'[m])
        BY <3>1, <3>3
      <4> QED
        BY <4>1 DEF InWheel
    <3>4. x = t => InWheel(vec', x)
      BY <3>1 DEF InWheel
    <3> QED
      BY <3>2, <3>3, <3>4 DEF InWheel
  <2>2. ASSUME NEW x \in Range(w) PROVE ~InWheel(vec', x)
    <3>1. x \in Range(work) /\ x # t /\ x \in Timers
      BY <2>2, RangeIs
    <3>2. ~InWheel(vec, x)
      BY <1>0, <3>1 DEF Once
    <3> QED
      BY <2>1, <3>1, <3>2
  <2>3. ASSUME NEW x \in Timers
        PROVE  due'[x] # NotDue <=> InWheel(vec', x) \/ x \in Range(w)
    <3>1. CASE x = t
      <4>1. due'[x] # NotDue
        BY <1>2, <1>9, <3>1 DEF NotDue
      <4> QED
        BY <2>1, <3>1, <4>1
    <3>2. CASE x # t
      <4>1. due[x] # NotDue <=> InWheel(vec, x) \/ x \in Range(work)
        BY <1>0 DEF Once
      <4> QED
        BY <1>9, <2>1, <3>2, <4>1
    <3> QED
      BY <3>1, <3>2
  <2> QED
    BY <1>8, <2>2, <2>3 DEF Once, Separate, InWheel
<1>14. Ends'
  BY <1>0 DEF Ends
<1>15. due'[t] \in Nat /\ due'[t] >= ticks
  BY <1>2, <1>9
<1> QED
  BY <1>10, <1>11, <1>12, <1>13, <1>14, <1>15 DEF IInv

LEMMA StartKeeps ==
    ASSUME IInv, NEW t \in Timers, NEW d \in Delays, StartTimer(t, d)
    PROVE  IInv' /\ due'[t] \in Nat /\ due'[t] >= ticks
<1>1. Typed /\ Once
  BY DEF IInv
<1>2. PICK e : e = (timer_ticks + d) % Word
  OBVIOUS
<1>3. /\ expires' = [expires EXCEPT ![t] = e] /\ vec' = Insert(vec, t, e, timer_ticks)
      /\ work' = work /\ due' = [due EXCEPT ![t] = Due(d)]
      /\ UNCHANGED <<timer_ticks, absms, calling, ticks>>
  BY <1>2 DEF StartTimer
<1>4. /\ \A l \in Lists : t \notin Range(vec[l])
      /\ t \notin Range(work)
  BY DEF StartTimer, Pending
<1>5. /\ vec \in [Lists -> Seq(Timers)] /\ Separate(vec)
      /\ work \in Seq(Timers) /\ NoRepeat(work)
  BY <1>1 DEF Typed, Once
<1>6. /\ \A l \in Lists : \A x : x \in Range(vec[l]) <=> x \in Range(vec[l]) /\ x # t
      /\ \A x : x \in Range(work) <=> x \in Range(work) /\ x # t
  BY <1>4
<1>7. PICK v, w : v = vec /\ w = work
  OBVIOUS
<1> QED
  BY <1>2, <1>3, <1>5, <1>6, <1>7, SetKeeps

LEMMA RestartKeeps ==
    ASSUME IInv, NEW t \in Timers, NEW d \in Delays, RestartTimer(t, d)
    PROVE  IInv' /\ due'[t] \in Nat /\ due'[t] >= ticks
<1>1. Typed /\ Once
  BY DEF IInv
<1>2. PICK e, v, w : /\ e = (timer_ticks + d) % Word
                     /\ v = Detached(vec, t) /\ w = Without(work, t)
  OBVIOUS
<1>3. /\ expires' = [expires EXCEPT ![t] = e] /\ vec' = Insert(v, t, e, timer_ticks)
      /\ work' = w /\ due' = [due EXCEPT ![t] = Due(d)]
      /\ UNCHANGED <<timer_ticks, absms, calling, ticks>>
  BY <1>2 DEF RestartTimer
<1>4. /\ v \in [Lists -> Seq(Timers)] /\ Separate(v)
      /\ \A l \in Lists : \A x : x \in Range(v[l]) <=> x \in Range(vec[l]) /\ x # t
  BY <1>1, <1>2, DetachedFacts DEF Once
<1>5. /\ w \in Seq(Timers) /\ NoRepeat(w)
      /\ \A x : x \in Range(w) <=> x \in Range(work) /\ x # t
  BY <1>1, <1>2, WithoutFacts DEF Once, Typed
<1> QED
  BY <1>2, <1>3, <1>4, <1>5, SetKeeps

LEMMA StopKeeps ==
    ASSUME IInv, NEW t \in Timers, StopTimer(t)
    PROVE  IInv'
<1>0. Typed /\ Once /\ WellPlaced(vec) /\ WorkDue /\ Ends
  BY DEF IInv
<1>1. PICK v, w : v = Detached(vec, t) /\ w = Without(work, t)
  OBVIOUS
<1>2. /\ vec' = v /\ work' = w /\ due' = [due EXCEPT ![t] = NotDue]
      /\ UNCHANGED <<timer_ticks, expires, absms, calling, ticks>>
  BY <1>1 DEF StopTimer
<1>3. /\ v \in [Lists -> Seq(Timers)] /\ Separate(v)
      /\ \A l \in Lists : \A x : x \in Range(v[l]) <=> x \in Range(vec[l]) /\ x # t
  BY <1>0, <1>1, DetachedFacts DEF Once
<1>4. /\ w \in Seq(Timers) /\ NoRepeat(w)
      /\ \A x : x \in Range(w) <=> x \in Range(work) /\ x # t
  BY <1>0, <1>1, WithoutFacts DEF Once, Typed
<1>5. /\ due'[t] = NotDue /\ \A x \in Timers : x # t => due'[x] = due[x]
      /\ due' \in [Timers -> Nat \cup {NotDue}]
  BY <1>0, <1>2 DEF Typed
<1>6. Typed'
  BY <1>0, <1>2, <1>3, <1>4, <1>5 DEF Typed
<1>7. WellPlaced(vec)'
  <2> SUFFICES ASSUME NEW m \in Lists, NEW x \in Range(v[m])
               PROVE  /\ m[1] \in 1 .. 4
                      /\ Placed(0, timer_ticks', due'[x] - ticks', expires'[x], m[1], m[2])
    BY <1>2 DEF WellPlaced
  <2>1. x \in Range(vec[m]) /\ x # t /\ x \in Timers
    BY <1>3, Listed
  <2>2. /\ m[1] \in 1 .. 4
        /\ Placed(0, timer_ticks, due[x] - ticks, expires[x], m[1], m[2])
    BY <1>0, <2>1 DEF WellPlaced
  <2> QED
    BY <1>2, <1>5, <2>1, <2>2
<1>8. WorkDue'
  <2> SUFFICES ASSUME NEW x \in Range(w) PROVE due'[x] + 1 = ticks'
    BY <1>2 DEF WorkDue
  <2>1. x \in Range(work) /\ x # t /\ x \in Timers
    BY <1>4, RangeIs
  <2> QED
    BY <1>0, <1>2, <1>5, <2>1 DEF WorkDue
<1>9. Once'
  <2>1. \A x \in Timers : InWheel(v, x) <=> InWheel(vec, x) /\ x # t
    BY <1>3 DEF InWheel
  <2>2. ASSUME NEW x \in Range(w) PROVE ~InWheel(v, x)
    <3>1. x \in Range(work) /\ x # t /\ x \in Timers
      BY <1>4, <2>2, RangeIs
    <3> QED
      BY <1>0, <2>1, <3>1 DEF Once
  <2>3. ASSUME NEW x \in Timers
        PROVE  due'[x] # NotDue <=> InWheel(v, x) \/ x \in Range(w)
    <3>1. due[x] # NotDue <=> InWheel(vec, x) \/ x \in Range(work)
      BY <1>0 DEF Once
    <3> QED
      BY <1>4, <1>5, <2>1, <3>1
  <2> QED
    BY <1>2, <1>3, <1>4, <2>2, <2>3 DEF Once, Separate, InWheel
<1>10. Ends'
  BY <1>0, <1>2 DEF Ends
<1> QED
  BY <1>6, <1>7, <1>8, <1>9, <1>10 DEF IInv

LEMMA FireKeeps ==
    ASSUME IInv, Fire
    PROVE  /\ IInv'
           /\ Head(work) \in Timers /\ due[Head(work)] # NotDue /\ due[Head(work)] + 1 = ticks
<1>0. Typed /\ Once /\ WellPlaced(vec) /\ WorkDue /\ Ends /\ work # <<>>
  BY DEF IInv, Fire
<1>1. PICK t, w : t = Head(work) /\ w = Tail(work)
  OBVIOUS
<1>2. /\ t \in Timers /\ w \in Seq(Timers) /\ NoRepeat(w)
      /\ \A x : x \in Range(w) <=> x \in Range(work) /\ x # t
      /\ t \in Range(work)
  <2>1. work \in Seq(Timers) /\ NoRepeat(work)
    BY <1>0 DEF Typed, Once
  <2>2. /\ t \in Timers /\ w \in Seq(Timers) /\ Range(work) = Range(w) \cup {t}
        /\ NoRepeat(w) /\ t \notin Range(w)
    BY <1>0, <1>1, <2>1, HeadFacts
  <2> QED
    BY <2>2
<1>3. /\ work' = w /\ calling' = t /\ due' = [due EXCEPT ![t] = NotDue]
      /\ UNCHANGED <<timer_ticks, vec, expires, absms, ticks>>
  BY <1>1 DEF Fire
<1>4. ~InWheel(vec, t)
  BY <1>0, <1>2 DEF Once
<1>5. /\ due'[t] = NotDue /\ \A x \in Timers : x # t => due'[x] = due[x]
      /\ due' \in [Timers -> Nat \cup {NotDue}]
  BY <1>0, <1>2, <1>3 DEF Typed
<1>6. Typed'
  BY <1>0, <1>2, <1>3, <1>5 DEF Typed
<1>7. WellPlaced(vec)'
  <2> SUFFICES ASSUME NEW m \in Lists, NEW x \in Range(vec[m])
               PROVE  /\ m[1] \in 1 .. 4
                      /\ Placed(0, timer_ticks', due'[x] - ticks', expires'[x], m[1], m[2])
    BY <1>3 DEF WellPlaced
  <2>1. x \in Timers /\ x # t
    BY <1>0, <1>4, Listed DEF InWheel, Typed
  <2>2. /\ m[1] \in 1 .. 4
        /\ Placed(0, timer_ticks, due[x] - ticks, expires[x], m[1], m[2])
    BY <1>0 DEF WellPlaced
  <2> QED
    BY <1>3, <1>5, <2>1, <2>2
<1>8. WorkDue'
  <2> SUFFICES ASSUME NEW x \in Range(w) PROVE due'[x] + 1 = ticks'
    BY <1>3 DEF WorkDue
  <2>1. x \in Range(work) /\ x # t /\ x \in Timers
    BY <1>2, RangeIs
  <2> QED
    BY <1>0, <1>3, <1>5, <2>1 DEF WorkDue
<1>9. Once'
  <2>1. ASSUME NEW x \in Timers
        PROVE  due'[x] # NotDue <=> InWheel(vec, x) \/ x \in Range(w)
    <3>1. due[x] # NotDue <=> InWheel(vec, x) \/ x \in Range(work)
      BY <1>0 DEF Once
    <3> QED
      BY <1>2, <1>4, <1>5, <3>1
  <2>2. \A x \in Range(w) : ~InWheel(vec, x)
    BY <1>0, <1>2 DEF Once
  <2>3. vec' = vec /\ Separate(vec)
    BY <1>0, <1>3 DEF Once
  <2> QED
    BY <1>2, <1>3, <2>1, <2>2, <2>3 DEF Once, Separate, InWheel
<1>10. Ends'
  BY <1>0, <1>3 DEF Ends
<1>11. due[t] # NotDue /\ due[t] + 1 = ticks
  BY <1>0, <1>2 DEF Once, WorkDue
<1> QED
  BY <1>1, <1>2, <1>6, <1>7, <1>8, <1>9, <1>10, <1>11 DEF IInv

LEMMA RunKeeps ==
    ASSUME IInv, NEW gap \in Gaps, RunTimer(gap)
    PROVE  IInv'
<1>0. Typed /\ Once /\ WellPlaced(vec) /\ WorkDue
  BY DEF IInv
<1>1. PICK now \in 0 .. Word - 1 : now = timer_ticks
  BY <1>0, TypedFacts
<1> DEFINE to == (now + gap) % Word
<1>2. Horizon \in Nat \ {0} /\ Word \in Nat \ {0} /\ Word >= 4 * Horizon
  BY Spans
<1>3. gap \in Int /\ gap \in -Horizon .. Horizon - 1
  BY <1>2, WheelAssumption
<1>4. (to - now) % Word = IF gap < 0 THEN Word + gap ELSE gap
  BY <1>1, <1>3, Distance
<1>5. ASSUME TimeAfterEq(to, now) PROVE gap >= 0
  <2>1. gap < 0 => ~(Word + gap < Word \div 2)
    BY <1>2, <1>3
  <2> QED
    BY <1>3, <1>4, <1>5, <2>1 DEF TimeAfterEq
<1>6. /\ absms' = IF TimeAfterEq(to, now) THEN to ELSE Idle
      /\ ticks + gap < MaxTicks
      /\ UNCHANGED <<timer_ticks, vec, work, expires, calling, ticks, due>>
  BY <1>1 DEF RunTimer
<1> HIDE DEF to
<1>7. Ends'
  <2> SUFFICES ASSUME absms' # Idle
               PROVE  \E g \in -1 .. Horizon - 1 :
                          absms' = (timer_ticks' + g) % Word /\ ticks' + g < MaxTicks
    BY DEF Ends
  <2>1. TimeAfterEq(to, now) /\ absms' = to
    BY <1>6
  <2>2. gap \in -1 .. Horizon - 1
    BY <1>2, <1>3, <1>5, <2>1
  <2> QED
    BY <1>1, <1>6, <2>1, <2>2 DEF to
<1>8. Typed' /\ Once' /\ WellPlaced(vec)' /\ WorkDue'
  BY <1>0, <1>6 DEF Typed, Once, Separate, InWheel, WellPlaced, WorkDue
<1> QED
  BY <1>7, <1>8 DEF IInv

(* Every step keeps the invariant, and is a step of the service or none.   *)
LEMMA WheelSteps ==
    ASSUME IInv, [Next]_vars
    PROVE  IInv' /\ [Service!Next]_<<ticks, due>>
<1>1. ASSUME NEW t \in Timers, due'[t] \in Nat /\ due'[t] >= ticks,
             NEW x, due' = [due EXCEPT ![t] = x], UNCHANGED ticks
      PROVE  Service!Next
  <2>1. due \in [Timers -> Nat \cup {NotDue}]
    BY DEF IInv, Typed
  <2>2. due' = [due EXCEPT ![t] = due'[t]]
    BY <1>1, <2>1
  <2>3. Service!Set(t)
    BY <1>1, <2>2 DEF Service!Set
  <2> QED
    BY <2>3 DEF Service!Next
<1>2. ASSUME NEW t \in Timers, NEW d \in Delays, StartTimer(t, d)
      PROVE  IInv' /\ Service!Next
  <2>1. IInv' /\ due'[t] \in Nat /\ due'[t] >= ticks
    BY <1>2, StartKeeps
  <2>2. PICK x : due' = [due EXCEPT ![t] = x] /\ UNCHANGED ticks
    BY <1>2 DEF StartTimer
  <2> QED
    BY <1>1, <2>1, <2>2
<1>3. ASSUME NEW t \in Timers, NEW d \in Delays, RestartTimer(t, d)
      PROVE  IInv' /\ Service!Next
  <2>1. IInv' /\ due'[t] \in Nat /\ due'[t] >= ticks
    BY <1>3, RestartKeeps
  <2>2. PICK x : due' = [due EXCEPT ![t] = x] /\ UNCHANGED ticks
    BY <1>3 DEF RestartTimer
  <2> QED
    BY <1>1, <2>1, <2>2
<1>4. ASSUME NEW t \in Timers, StopTimer(t) PROVE IInv' /\ Service!Next
  <2>1. Service!Cancel(t)
    BY <1>4 DEF StopTimer, Service!Cancel
  <2> QED
    BY <1>4, <2>1, StopKeeps DEF Service!Next
<1>5. ASSUME NEW gap \in Gaps, RunTimer(gap) PROVE IInv' /\ UNCHANGED <<ticks, due>>
  BY <1>5, RunKeeps DEF RunTimer
<1>6. ASSUME Tick PROVE IInv' /\ Service!Next
  <2>1. IInv'
    BY <1>6, TickKeeps
  <2>2. ASSUME NEW t \in Timers, due[t] # NotDue PROVE due[t] >= ticks
    <3>1. Range(work) = {}
      BY <1>6, RangeIs DEF Tick, TickDone, IInv, Typed
    <3>2. InWheel(vec, t)
      BY <2>2, <3>1 DEF IInv, Once
    <3> QED
      BY <3>2, NotYetDue
  <2>3. ticks' = ticks + 1 /\ UNCHANGED due
    BY <1>6 DEF Tick
  <2>4. Service!Tick
    BY <2>2, <2>3 DEF Service!Tick
  <2> QED
    BY <2>1, <2>4 DEF Service!Next
<1>7. ASSUME Fire PROVE IInv' /\ Service!Next
  <2>1. PICK t \in Timers : t = Head(work) /\ due[t] # NotDue /\ due[t] + 1 = ticks /\ IInv'
    BY <1>7, FireKeeps
  <2>2. due' = [due EXCEPT ![t] = NotDue] /\ UNCHANGED ticks
    BY <1>7, <2>1 DEF Fire
  <2>3. Service!Fire(t)
    BY <2>1, <2>2 DEF Service!Fire
  <2> QED
    BY <2>1, <2>3 DEF Service!Next
<1>8. ASSUME CallbackReturns PROVE IInv' /\ UNCHANGED <<ticks, due>>
  BY <1>8 DEF CallbackReturns, IInv, Typed, Once, Separate, InWheel, WellPlaced, WorkDue, Ends
<1>9. ASSUME RunReturns PROVE IInv' /\ UNCHANGED <<ticks, due>>
  BY <1>9 DEF RunReturns, IInv, Typed, Once, Separate, InWheel, WellPlaced, WorkDue, Ends
<1>10. ASSUME UNCHANGED vars PROVE IInv' /\ UNCHANGED <<ticks, due>>
  BY <1>10 DEF vars, IInv, Typed, Once, Separate, InWheel, WellPlaced, WorkDue, Ends
<1> QED
  BY <1>2, <1>3, <1>4, <1>5, <1>6, <1>7, <1>8, <1>9, <1>10 DEF Next, Run

-----------------------------------------------------------------------------
(***************************************************************************)
(* The wheel is in order in every reachable state.                         *)
(***************************************************************************)
LEMMA WheelBegins ==
    ASSUME Init
    PROVE  IInv
<1>1. /\ timer_ticks \in 0 .. Word - 1 /\ MaxTicks \in Nat /\ Word \in Nat \ {0}
  BY WheelAssumption, Spans DEF Init
<1>2. <<>> \in Seq(Timers) /\ NoRepeat(<<>>)
  BY EmptySeq DEF NoRepeat
<1>3. Range(<<>>) = {}
  BY <1>2, RangeIs
<1>4. /\ vec = [l \in Lists |-> <<>>] /\ work = <<>> /\ expires = [t \in Timers |-> 0]
      /\ absms = Idle /\ calling = NoTimer /\ ticks = 0 /\ due = [t \in Timers |-> NotDue]
  BY DEF Init
<1>5. Typed
  BY <1>1, <1>2, <1>4 DEF Typed
<1>6. \A l \in Lists : vec[l] = <<>>
  BY <1>4
<1>7. Once
  BY <1>2, <1>3, <1>4, <1>6 DEF Once, Separate, InWheel
<1>8. WellPlaced(vec) /\ WorkDue /\ Ends
  BY <1>3, <1>4, <1>6 DEF WellPlaced, WorkDue, Ends
<1> QED
  BY <1>5, <1>7, <1>8 DEF IInv

LEMMA InOrder == Spec => []IInv
<1>1. Init => IInv
  BY WheelBegins
<1>2. IInv /\ [Next]_vars => IInv'
  BY WheelSteps
<1> QED
  BY <1>1, <1>2, PTL DEF Spec

(* Every variable has its type; in particular the tick counter, expires    *)
(* and the end of a run stay within the word.                              *)
THEOREM TypeCorrect == Spec => []TypeOK
<1>1. IInv => TypeOK
  <2> SUFFICES ASSUME IInv PROVE TypeOK
    OBVIOUS
  <2>1. absms \in {Idle} \cup (0 .. Word - 1)
    <3>1. CASE absms # Idle
      <4>1. PICK g \in -1 .. Horizon - 1 : absms = (timer_ticks + g) % Word
        BY <3>1 DEF IInv, Ends
      <4>2. Word \in Nat \ {0} /\ Horizon \in Nat /\ timer_ticks \in Nat
        BY Spans, TypedFacts DEF IInv
      <4>3. PICK a \in Int : a = timer_ticks + g
        BY <4>2
      <4> QED
        BY <4>1, <4>2, <4>3, Division
    <3> QED
      BY <3>1
  <2>2. due \in [Timers -> Int]
    BY DEF IInv, Typed, NotDue
  <2> QED
    BY <2>1, <2>2 DEF IInv, Typed, TypeOK
<1> QED
  BY <1>1, InOrder, PTL

LEMMA OccurrencesAre ==
    ASSUME NEW s \in Seq(Timers), NoRepeat(s), NEW t
    PROVE  /\ t \notin Range(s) => Occurrences(s, t) = {}
           /\ t \in Range(s) => \E i : Occurrences(s, t) = {i}
<1>1. /\ DOMAIN s = 1 .. Len(s)
      /\ t \in Range(s) <=> \E i \in 1 .. Len(s) : s[i] = t
  BY RangeIs, SeqDef, LenProperties
<1>2. ASSUME NEW i \in 1 .. Len(s), s[i] = t PROVE Occurrences(s, t) = {i}
  BY <1>1, <1>2 DEF Occurrences, NoRepeat
<1> QED
  BY <1>1, <1>2 DEF Occurrences

(* A timer that is set is in one list, once, and no other timer is in any. *)
THEOREM InOnePlace == Spec => []OnePlace
<1>1. IInv => OnePlace
  <2> SUFFICES ASSUME IInv, NEW t \in Timers
               PROVE  Cardinality(Places(t)) + Cardinality(Occurrences(work, t))
                          = IF due[t] = NotDue THEN 0 ELSE 1
    BY DEF OnePlace
  <2>0. Typed /\ Once
    BY DEF IInv
  <2>1. \A l \in Lists : vec[l] \in Seq(Timers) /\ NoRepeat(vec[l])
    BY <2>0 DEF Typed, Once, Separate
  <2>2. Cardinality({}) = 0 /\ \A x : Cardinality({x}) = 1
    BY FS_EmptySet, FS_Singleton
  <2>3. InWheel(vec, t) => \E p : Places(t) = {p}
    <3> SUFFICES ASSUME NEW l \in Lists, t \in Range(vec[l]) PROVE \E p : Places(t) = {p}
      BY DEF InWheel
    <3>1. PICK i : Occurrences(vec[l], t) = {i}
      BY <2>1, OccurrencesAre
    <3>2. ASSUME NEW m \in Lists, m # l PROVE Occurrences(vec[m], t) = {}
      <4>1. t \notin Range(vec[m])
        BY <2>0, <3>2 DEF Once, Separate
      <4> QED
        BY <2>1, <4>1, OccurrencesAre
    <3>3. Places(t) = {<<l, i>>}
      <4>1. ASSUME NEW p \in Places(t) PROVE p = <<l, i>>
        <5>1. PICK m \in Lists : p \in {m} \X Occurrences(vec[m], t)
          BY <4>1 DEF Places
        <5>2. m = l
          BY <3>2, <5>1
        <5> QED
          BY <3>1, <5>1, <5>2
      <4>2. <<l, i>> \in Places(t)
        BY <3>1 DEF Places
      <4> QED
        BY <4>1, <4>2
    <3> QED
      BY <3>3
  <2>4. ~InWheel(vec, t) => Places(t) = {}
    <3>1. ASSUME ~InWheel(vec, t), NEW l \in Lists PROVE Occurrences(vec[l], t) = {}
      BY <2>1, <3>1, OccurrencesAre DEF InWheel
    <3> QED
      BY <3>1 DEF Places
  <2>5. /\ t \in Range(work) => \E i : Occurrences(work, t) = {i}
        /\ t \notin Range(work) => Occurrences(work, t) = {}
    BY <2>0, OccurrencesAre DEF Typed, Once
  <2>6. /\ due[t] # NotDue <=> InWheel(vec, t) \/ t \in Range(work)
        /\ ~(InWheel(vec, t) /\ t \in Range(work))
    BY <2>0 DEF Once
  <2>7. CASE InWheel(vec, t)
    <3>1. Cardinality(Places(t)) = 1 /\ Cardinality(Occurrences(work, t)) = 0
      BY <2>2, <2>3, <2>5, <2>6, <2>7
    <3> QED
      BY <2>6, <2>7, <3>1
  <2>8. CASE t \in Range(work)
    <3>1. Cardinality(Places(t)) = 0 /\ Cardinality(Occurrences(work, t)) = 1
      BY <2>2, <2>4, <2>5, <2>6, <2>8
    <3> QED
      BY <2>6, <2>8, <3>1
  <2>9. CASE ~InWheel(vec, t) /\ t \notin Range(work)
    <3>1. Cardinality(Places(t)) = 0 /\ Cardinality(Occurrences(work, t)) = 0
      BY <2>2, <2>4, <2>5, <2>9
    <3> QED
      BY <2>6, <2>9, <3>1
  <2> QED
    BY <2>7, <2>8, <2>9
<1> QED
  BY <1>1, InOrder, PTL

(* Each timer fires at its tick, once for each time it is set, and no tick *)
(* ends before all its timers fired: through cascades, the wrapping of the *)
(* vectors and of the counter, and whatever the callbacks do.              *)
THEOREM FiresOnTime == Spec => ServiceSpec
<1>1. Init => Service!Init
  BY DEF Init, Service!Init
<1>2. IInv /\ [Next]_vars => [Service!Next]_<<ticks, due>>
  BY WheelSteps
<1>3. [Service!Next]_<<ticks, due>> => [Service!Next]_Service!vars
  BY DEF Service!vars
<1> QED
  BY <1>1, <1>2, <1>3, InOrder, PTL DEF Spec, ServiceSpec, Service!Spec

=============================================================================
