--------------------------- MODULE MonitoringProofs ---------------------------
(***************************************************************************)
(* Theorems about Monitoring, for any number of cores, any size of the     *)
(* pools and any number of items: the free lists implement a pool, and     *)
(* what the statistics say of the cores and of a card is true.             *)
(***************************************************************************)
EXTENDS Monitoring, Integers, Sequences, Functions, SequenceTheorems, FiniteSetTheorems,
        WellFoundedInduction, TLAPS

(***************************************************************************)
(* Sums over the cores.  SumUpTo is a recursive function, and what it      *)
(* gives is shown by the least number of cores for which it would not.     *)
(***************************************************************************)
LEMMA LeastNat ==
    ASSUME NEW T \in SUBSET Nat, T # {}
    PROVE  \E n \in T : \A m \in T : n <= m
<1>1. PICK R : R = OpToRel(<, Nat)
  OBVIOUS
<1>2. IsWellFoundedOn(R, Nat)
  BY <1>1, NatLessThanWellFounded
<1>3. PICK n \in T : \A m \in T : ~(<<m, n>> \in R)
  BY <1>2, WFMin
<1>4. ASSUME NEW m \in T PROVE n <= m
  <2>1. <<m, n>> \in R <=> m < n
    BY <1>1 DEF OpToRel
  <2> QED
    BY <1>3, <2>1
<1> QED
  BY <1>4

\* s[n] is the sum of g over the first n cores, up to k of them.
SumsTo(s, g, k) ==
    /\ s \in [0 .. k -> Nat] /\ s[0] = 0
    /\ \A n \in 1 .. k : s[n] = s[n - 1] + g[n - 1]

Sums(s, g) == SumsTo(s, g, CoreCnt)

LEMMA SumsExist ==
    ASSUME NEW g \in [Cores -> Nat]
    PROVE  \E s : Sums(s, g)
<1> DEFINE Bad == {k \in 0 .. CoreCnt : ~\E s : SumsTo(s, g, k)}
<1>0. CoreCnt \in Nat \ {0} /\ Cores = 0 .. CoreCnt - 1
  BY MonitoringAssumption DEF Cores
<1>1. ASSUME Bad # {} PROVE FALSE
  <2>1. PICK k \in Bad : \A m \in Bad : k <= m
    <3>1. Bad \in SUBSET Nat
      BY <1>0
    <3> QED
      BY <1>1, <3>1, LeastNat
  <2>2. CASE k = 0
    <3>1. SumsTo([n \in 0 .. 0 |-> 0], g, 0)
      BY DEF SumsTo
    <3> QED
      BY <2>1, <2>2, <3>1
  <2>3. CASE k # 0
    <3>1. k \in 1 .. CoreCnt /\ k - 1 \in 0 .. CoreCnt - 1 /\ k - 1 \in 0 .. CoreCnt
          /\ ~(k <= k - 1)
      BY <1>0, <2>1, <2>3
    <3>2. PICK s : SumsTo(s, g, k - 1)
      BY <2>1, <3>1
    <3>3. PICK t : t = [n \in 0 .. k |-> IF n = k THEN s[k - 1] + g[k - 1] ELSE s[n]]
      OBVIOUS
    <3>4. /\ s \in [0 .. k - 1 -> Nat] /\ s[0] = 0
          /\ \A n \in 1 .. k - 1 : s[n] = s[n - 1] + g[n - 1]
      BY <3>2 DEF SumsTo
    <3>5. s[k - 1] \in Nat /\ g[k - 1] \in Nat
      BY <1>0, <3>1, <3>4
    <3>6. \A n \in 0 .. k : n # k => n \in 0 .. k - 1
      BY <3>1
    <3>7. t \in [0 .. k -> Nat]
      BY <3>3, <3>4, <3>5, <3>6
    <3>8. t[0] = 0
      BY <3>1, <3>3, <3>4
    <3>9. ASSUME NEW n \in 1 .. k PROVE t[n] = t[n - 1] + g[n - 1]
      BY <3>1, <3>3, <3>4, <3>9
    <3>10. SumsTo(t, g, k)
      BY <3>7, <3>8, <3>9 DEF SumsTo
    <3> QED
      BY <2>1, <3>10
  <2> QED
    BY <2>2, <2>3
<1>2. CoreCnt \in 0 .. CoreCnt
  BY <1>0
<1> QED
  BY <1>1, <1>2 DEF Sums

LEMMA SumUpToSums ==
    ASSUME NEW g \in [Cores -> Nat]
    PROVE  Sums(SumUpTo(g), g)
<1> DEFINE P(u) == u = [n \in 0 .. CoreCnt |-> IF n = 0 THEN 0 ELSE u[n - 1] + g[n - 1]]
           Up == CHOOSE u : P(u)
<1>0. CoreCnt \in Nat \ {0} /\ Cores = 0 .. CoreCnt - 1
  BY MonitoringAssumption DEF Cores
<1>1. PICK s : Sums(s, g)
  BY SumsExist
<1>2. P(s)
  <2>1. \A n \in 0 .. CoreCnt : s[n] = IF n = 0 THEN 0 ELSE s[n - 1] + g[n - 1]
    BY <1>0, <1>1 DEF Sums, SumsTo
  <2> QED
    BY <1>1, <2>1 DEF Sums, SumsTo
<1>3. P(Up)
  BY <1>2
<1>4. SumUpTo(g) = Up
  BY DEF SumUpTo
<1> HIDE DEF Up
<1>5. Up[0] = 0 /\ \A n \in 1 .. CoreCnt : Up[n] = Up[n - 1] + g[n - 1]
  BY <1>0, <1>3
<1>6. ASSUME NEW k \in 0 .. CoreCnt PROVE Up[k] \in Nat
  <2> DEFINE Bad == {n \in 0 .. CoreCnt : Up[n] \notin Nat}
  <2>1. ASSUME Bad # {} PROVE FALSE
    <3>1. PICK m \in Bad : \A n \in Bad : m <= n
      <4>1. Bad \in SUBSET Nat
        BY <1>0
      <4> QED
        BY <2>1, <4>1, LeastNat
    <3>2. m # 0
      BY <1>5, <3>1
    <3>3. m - 1 \in 0 .. CoreCnt /\ m - 1 \in Cores /\ m \in 1 .. CoreCnt /\ ~(m <= m - 1)
      BY <1>0, <3>1, <3>2
    <3>4. Up[m - 1] \in Nat /\ g[m - 1] \in Nat
      BY <3>1, <3>3
    <3> QED
      BY <1>5, <3>1, <3>3, <3>4
  <2> QED
    BY <2>1
<1>7. Up \in [0 .. CoreCnt -> Nat]
  BY <1>3, <1>6
<1> QED
  BY <1>4, <1>5, <1>7 DEF Sums, SumsTo

\* What a counter is for each core.
Counts(g) == g \in [Cores -> Nat]

\* What SumUpTo gives, to be used without its definition.
LEMMA SumFacts ==
    ASSUME NEW g, Counts(g)
    PROVE  /\ SumUpTo(g)[0] = 0
           /\ \A n \in 0 .. CoreCnt : SumUpTo(g)[n] \in Nat
           /\ \A c \in Cores : SumUpTo(g)[c + 1] = SumUpTo(g)[c] + g[c]
<1>0. CoreCnt \in Nat \ {0} /\ Cores = 0 .. CoreCnt - 1
  BY MonitoringAssumption DEF Cores
<1>1. \A c \in Cores : c + 1 \in 1 .. CoreCnt /\ (c + 1) - 1 = c
  BY <1>0
<1> QED
  <2>1. PICK s : s = SumUpTo(g) /\ Sums(s, g)
    BY SumUpToSums DEF Counts
  <2> QED
    BY <1>1, <2>1 DEF Sums, SumsTo

\* Two sums compare as their summands do; d and e are by how much they may differ.
Within(g, h, d, e) ==
    /\ d \in [0 .. CoreCnt -> Nat] /\ e \in [0 .. CoreCnt -> Nat] /\ d[0] <= e[0]
    /\ \A c \in Cores : d[c + 1] + g[c] + e[c] <= e[c + 1] + h[c] + d[c]

LEMMA SumsCompare ==
    ASSUME NEW g, NEW h, NEW d, NEW e, Counts(g), Counts(h), Within(g, h, d, e)
    PROVE  \A n \in 0 .. CoreCnt : SumUpTo(g)[n] + d[n] <= SumUpTo(h)[n] + e[n]
<1> DEFINE Bad == {n \in 0 .. CoreCnt : ~(SumUpTo(g)[n] + d[n] <= SumUpTo(h)[n] + e[n])}
<1>0. CoreCnt \in Nat \ {0} /\ Cores = 0 .. CoreCnt - 1
  BY MonitoringAssumption DEF Cores
<1>1. ASSUME Bad # {} PROVE FALSE
  <2>1. PICK m \in Bad : \A n \in Bad : m <= n
    <3>1. Bad \in SUBSET Nat
      BY <1>0
    <3> QED
      BY <1>1, <3>1, LeastNat
  <2>2. m # 0
    <3>1. 0 \in 0 .. CoreCnt
      BY <1>0
    <3>2. SumUpTo(g)[0] = 0 /\ SumUpTo(h)[0] = 0
      BY SumFacts
    <3>3. d[0] \in Nat /\ e[0] \in Nat /\ d[0] <= e[0]
      BY <3>1 DEF Within
    <3> QED
      BY <2>1, <3>2, <3>3
  <2>3. PICK c \in Cores : m = c + 1
    <3>1. m - 1 \in Cores /\ m = (m - 1) + 1
      BY <1>0, <2>1, <2>2
    <3> QED
      BY <3>1
  <2>4. c \in 0 .. CoreCnt /\ c + 1 \in 0 .. CoreCnt /\ ~(m <= c)
    BY <1>0, <2>3
  <2>5. SumUpTo(g)[c] + d[c] <= SumUpTo(h)[c] + e[c]
    BY <2>1, <2>4
  <2>6. /\ SumUpTo(g)[c + 1] = SumUpTo(g)[c] + g[c] /\ SumUpTo(g)[c] \in Nat
        /\ SumUpTo(h)[c + 1] = SumUpTo(h)[c] + h[c] /\ SumUpTo(h)[c] \in Nat
    BY <2>4, SumFacts
  <2>7. /\ d[c + 1] + g[c] + e[c] <= e[c + 1] + h[c] + d[c]
        /\ d[c] \in Nat /\ d[c + 1] \in Nat /\ e[c] \in Nat /\ e[c + 1] \in Nat
        /\ g[c] \in Nat /\ h[c] \in Nat
    BY <2>4 DEF Within, Counts
  <2>8. SumUpTo(g)[c + 1] + d[c + 1] <= SumUpTo(h)[c + 1] + e[c + 1]
    BY <2>5, <2>6, <2>7
  <2> QED
    BY <2>1, <2>3, <2>8
<1> QED
  BY <1>1

LEMMA SumsMonotone ==
    ASSUME NEW g, NEW h, Counts(g), Counts(h), \A c \in Cores : g[c] <= h[c]
    PROVE  \A n \in 0 .. CoreCnt : SumUpTo(g)[n] <= SumUpTo(h)[n]
<1>0. CoreCnt \in Nat \ {0} /\ Cores = 0 .. CoreCnt - 1
  BY MonitoringAssumption DEF Cores
<1>1. PICK z : z = [n \in 0 .. CoreCnt |-> 0]
  OBVIOUS
<1>2. z \in [0 .. CoreCnt -> Nat] /\ z[0] = 0 /\ \A n \in 0 .. CoreCnt : z[n] = 0
  BY <1>0, <1>1
<1>3. \A c \in Cores : z[c + 1] + g[c] + z[c] <= z[c + 1] + h[c] + z[c]
  <2> SUFFICES ASSUME NEW c \in Cores
               PROVE  z[c + 1] + g[c] + z[c] <= z[c + 1] + h[c] + z[c]
    OBVIOUS
  <2>1. z[c] = 0 /\ z[c + 1] = 0 /\ g[c] \in Nat /\ h[c] \in Nat /\ g[c] <= h[c]
    BY <1>0, <1>2 DEF Counts
  <2> QED
    BY <2>1
<1>4. \A n \in 0 .. CoreCnt : SumUpTo(g)[n] + z[n] <= SumUpTo(h)[n] + z[n]
  <2>1. Within(g, h, z, z)
    BY <1>2, <1>3 DEF Within
  <2> QED
    BY <2>1, SumsCompare
<1> QED
  BY <1>2, <1>4, SumFacts

LEMMA SumOfZeros ==
    ASSUME NEW g, Counts(g), \A c \in Cores : g[c] = 0
    PROVE  SumUpTo(g)[CoreCnt] = 0
<1> DEFINE Bad == {n \in 0 .. CoreCnt : SumUpTo(g)[n] # 0}
<1>0. CoreCnt \in Nat \ {0} /\ Cores = 0 .. CoreCnt - 1
  BY MonitoringAssumption DEF Cores
<1>1. ASSUME Bad # {} PROVE FALSE
  <2>1. PICK m \in Bad : \A n \in Bad : m <= n
    <3>1. Bad \in SUBSET Nat
      BY <1>0
    <3> QED
      BY <1>1, <3>1, LeastNat
  <2>2. m # 0
    BY <2>1, SumFacts
  <2>3. PICK c \in Cores : m = c + 1
    <3>1. m - 1 \in Cores /\ m = (m - 1) + 1
      BY <1>0, <2>1, <2>2
    <3> QED
      BY <3>1
  <2>4. c \in 0 .. CoreCnt /\ ~(m <= c)
    BY <1>0, <2>3
  <2>5. SumUpTo(g)[c + 1] = 0 + 0
    BY <2>1, <2>4, SumFacts
  <2> QED
    BY <2>1, <2>3, <2>5
<1> QED
  BY <1>0, <1>1

LEMMA SumsGrow ==
    ASSUME NEW g, Counts(g), NEW n \in 0 .. CoreCnt
    PROVE  SumUpTo(g)[n] <= SumUpTo(g)[CoreCnt]
<1> DEFINE Bad == {k \in n .. CoreCnt : ~(SumUpTo(g)[n] <= SumUpTo(g)[k])}
<1>0. CoreCnt \in Nat \ {0} /\ Cores = 0 .. CoreCnt - 1
  BY MonitoringAssumption DEF Cores
<1>1. ASSUME Bad # {} PROVE FALSE
  <2>1. PICK m \in Bad : \A k \in Bad : m <= k
    <3>1. Bad \in SUBSET Nat
      BY <1>0
    <3> QED
      BY <1>1, <3>1, LeastNat
  <2>2. m # n
    <3>1. SumUpTo(g)[n] \in Nat
      BY SumFacts
    <3> QED
      BY <2>1, <3>1
  <2>3. PICK c \in Cores : m = c + 1
    <3>1. m - 1 \in Cores /\ m = (m - 1) + 1
      BY <1>0, <2>1, <2>2
    <3> QED
      BY <3>1
  <2>4. c \in n .. CoreCnt /\ c \in 0 .. CoreCnt /\ ~(m <= c)
    BY <1>0, <2>1, <2>2, <2>3
  <2>5. SumUpTo(g)[n] <= SumUpTo(g)[c]
    BY <2>1, <2>4
  <2>6. SumUpTo(g)[c + 1] = SumUpTo(g)[c] + g[c] /\ SumUpTo(g)[c] \in Nat
    BY <2>4, SumFacts
  <2>7. g[c] \in Nat /\ SumUpTo(g)[n] \in Nat
    BY SumFacts DEF Counts
  <2>8. SumUpTo(g)[n] <= SumUpTo(g)[c + 1]
    BY <2>5, <2>6, <2>7
  <2> QED
    BY <2>1, <2>3, <2>8
<1> QED
  BY <1>0, <1>1

\* A core counts one.
LEMMA SumOneMore ==
    ASSUME NEW g, NEW h, Counts(g), Counts(h), NEW core \in Cores,
           \A c \in Cores : h[c] = IF c = core THEN g[c] + 1 ELSE g[c]
    PROVE  SumUpTo(h)[CoreCnt] = SumUpTo(g)[CoreCnt] + 1
<1>0. CoreCnt \in Nat \ {0} /\ Cores = 0 .. CoreCnt - 1
  BY MonitoringAssumption DEF Cores
<1>1. PICK z, d : /\ z = [n \in 0 .. CoreCnt |-> 0]
                  /\ d = [n \in 0 .. CoreCnt |-> IF core < n THEN 1 ELSE 0]
  OBVIOUS
<1>2. /\ z \in [0 .. CoreCnt -> Nat] /\ z[0] = 0 /\ \A n \in 0 .. CoreCnt : z[n] = 0
      /\ d \in [0 .. CoreCnt -> Nat] /\ d[0] = 0 /\ d[CoreCnt] = 1
      /\ \A n \in 0 .. CoreCnt : d[n] = IF core < n THEN 1 ELSE 0
  BY <1>0, <1>1
<1>3. ASSUME NEW c \in Cores
      PROVE  /\ d[c + 1] + g[c] + z[c] <= z[c + 1] + h[c] + d[c]
             /\ z[c + 1] + h[c] + d[c] <= d[c + 1] + g[c] + z[c]
  <2>1. c \in 0 .. CoreCnt /\ c + 1 \in 0 .. CoreCnt /\ core \in Nat /\ c \in Nat
    BY <1>0
  <2>2. /\ z[c] = 0 /\ z[c + 1] = 0 /\ g[c] \in Nat /\ h[c] = IF c = core THEN g[c] + 1 ELSE g[c]
        /\ d[c] = IF core < c THEN 1 ELSE 0
        /\ d[c + 1] = IF core < c + 1 THEN 1 ELSE 0
    BY <1>2, <2>1 DEF Counts
  <2>3. CASE c = core
    BY <2>1, <2>2, <2>3
  <2>4. CASE c # core
    BY <2>1, <2>2, <2>4
  <2> QED
    BY <2>3, <2>4
<1>4. \A n \in 0 .. CoreCnt : SumUpTo(g)[n] + d[n] <= SumUpTo(h)[n] + z[n]
  <2>1. Within(g, h, d, z)
    BY <1>2, <1>3 DEF Within
  <2> QED
    BY <2>1, SumsCompare
<1>5. \A n \in 0 .. CoreCnt : SumUpTo(h)[n] + z[n] <= SumUpTo(g)[n] + d[n]
  <2>1. Within(h, g, z, d)
    BY <1>2, <1>3 DEF Within
  <2> QED
    BY <2>1, SumsCompare
<1>6. CoreCnt \in 0 .. CoreCnt /\ SumUpTo(h)[CoreCnt] \in Nat /\ SumUpTo(g)[CoreCnt] \in Nat
  BY <1>0, SumFacts
<1> QED
  BY <1>2, <1>4, <1>5, <1>6
-----------------------------------------------------------------------------
(***************************************************************************)
(* The pools.  The free list of a pool, as a sequence: it has just the     *)
(* objects of the pool that nobody holds, each once, linked in its order.  *)
(***************************************************************************)
FreeList(p, s) ==
    /\ s \in Seq(Headers) /\ IsInjective(s)
    /\ \A h \in Headers : h \in Range(s) <=> (Pool(h) = p /\ held[h] = 0)
    /\ first[p] = IF s = <<>> THEN NULL ELSE s[1]
    /\ \A i \in 1 .. Len(s) : next[s[i]] = IF i = Len(s) THEN NULL ELSE s[i + 1]

PoolTyped ==
    /\ first \in [Pools -> Headers \cup {NULL}]
    /\ next \in [Headers -> Headers \cup {NULL}]
    /\ held \in [Headers -> {0, 1}]
    /\ refused \in [Pools -> BOOLEAN]

PoolInv == PoolTyped /\ \A p \in Pools : \E s : FreeList(p, s)

LEMMA SeqFacts ==
    ASSUME NEW S, NEW s \in Seq(S)
    PROVE  /\ Len(s) \in Nat /\ DOMAIN s = 1 .. Len(s)
           /\ \A i \in 1 .. Len(s) : s[i] \in S /\ s[i] \in Range(s)
           /\ \A x : x \in Range(s) <=> \E i \in 1 .. Len(s) : x = s[i]
           /\ s = <<>> <=> Len(s) = 0
BY LenProperties, ElementOfSeq, EmptySeq DEF Range

LEMMA PoolInitInv == PoolInit => PoolInv
<1> SUFFICES ASSUME PoolInit PROVE PoolInv
  OBVIOUS
<1>0. Cnt \in Nat /\ NULL \notin Headers
  BY MonitoringAssumption
<1>1. \A p \in Pools, n \in 0 .. Cnt - 1 : <<p, n>> \in Headers /\ Pool(<<p, n>>) = p
  BY DEF Headers, Pool
<1>2. \A h \in Headers : /\ h[1] \in Pools /\ h[2] \in 0 .. Cnt - 1 /\ h = <<h[1], h[2]>>
  BY DEF Headers
<1>3. PoolTyped
  <2>1. first \in [Pools -> Headers \cup {NULL}]
    BY <1>0, <1>1 DEF PoolInit
  <2>2. ASSUME NEW h \in Headers, h[2] # 0 PROVE <<h[1], h[2] - 1>> \in Headers
    <3>1. h[2] - 1 \in 0 .. Cnt - 1
      BY <1>0, <1>2, <2>2
    <3> QED
      BY <1>1, <1>2, <3>1
  <2>3. next \in [Headers -> Headers \cup {NULL}]
    BY <2>2 DEF PoolInit
  <2> QED
    BY <2>1, <2>3 DEF PoolInit, PoolTyped
<1>4. ASSUME NEW p \in Pools PROVE \E s : FreeList(p, s)
  <2>1. PICK s : s = [i \in 1 .. Cnt |-> <<p, Cnt - i>>]
    OBVIOUS
  <2>2. \A i \in 1 .. Cnt : Cnt - i \in 0 .. Cnt - 1
    BY <1>0
  <2>3. \A i \in 1 .. Cnt : <<p, Cnt - i>> \in Headers
    BY <1>1, <2>2
  <2>4. s \in Seq(Headers) /\ Len(s) = Cnt /\ DOMAIN s = 1 .. Cnt
    <3>1. s \in [1 .. Cnt -> Headers]
      BY <2>1, <2>3
    <3> QED
      BY <1>0, <3>1, SeqDef
  <2>5. \A i \in 1 .. Cnt : s[i] = <<p, Cnt - i>>
    BY <2>1
  <2>6. IsInjective(s)
    BY <1>0, <2>4, <2>5 DEF IsInjective
  <2>7. ASSUME NEW h \in Headers PROVE h \in Range(s) <=> (Pool(h) = p /\ held[h] = 0)
    <3>1. held[h] = 0
      BY DEF PoolInit
    <3>2. ASSUME h \in Range(s) PROVE Pool(h) = p
      <4>1. PICK i \in 1 .. Cnt : h = s[i]
        BY <2>4, <3>2 DEF Range
      <4> QED
        BY <2>5, <4>1 DEF Pool
    <3>3. ASSUME Pool(h) = p PROVE h \in Range(s)
      <4>1. h = <<p, h[2]>> /\ h[2] \in 0 .. Cnt - 1
        BY <1>2, <3>3 DEF Pool
      <4>2. PICK i \in 1 .. Cnt : i = Cnt - h[2] /\ Cnt - i = h[2]
        BY <1>0, <4>1
      <4>3. s[i] = h
        BY <2>5, <4>1, <4>2
      <4> QED
        BY <2>4, <4>3 DEF Range
    <3> QED
      BY <3>1, <3>2, <3>3
  <2>8. first[p] = IF s = <<>> THEN NULL ELSE s[1]
    <3>1. s = <<>> <=> Cnt = 0
      BY <2>4, SeqFacts
    <3>2. Cnt # 0 => s[1] = <<p, Cnt - 1>>
      BY <1>0, <2>5
    <3> QED
      BY <3>1, <3>2 DEF PoolInit
  <2>9. ASSUME NEW i \in 1 .. Cnt PROVE next[s[i]] = IF i = Cnt THEN NULL ELSE s[i + 1]
    <3>1. s[i] \in Headers /\ s[i] = <<p, Cnt - i>>
      BY <2>3, <2>5
    <3>2. next[s[i]] = IF Cnt - i = 0 THEN NULL ELSE <<p, (Cnt - i) - 1>>
      BY <3>1 DEF PoolInit
    <3>3. i # Cnt => i + 1 \in 1 .. Cnt /\ (Cnt - i) - 1 = Cnt - (i + 1)
      BY <1>0
    <3> QED
      BY <1>0, <2>5, <3>2, <3>3
  <2> QED
    BY <2>4, <2>6, <2>7, <2>8, <2>9 DEF FreeList
<1> QED
  BY <1>3, <1>4 DEF PoolInv

\* The list of another pool is not touched by what happens to an object.
LEMMA OtherList ==
    ASSUME PoolTyped, PoolTyped', NEW p, NEW q, NEW s, FreeList(q, s), p # q, NEW header \in Headers,
           Pool(header) = p, first'[q] = first[q],
           \A h \in Headers : h # header => next'[h] = next[h] /\ held'[h] = held[h]
    PROVE  FreeList(q, s)'
<1>1. s \in Seq(Headers)
  BY DEF FreeList
<1>2. \A i \in 1 .. Len(s) : s[i] \in Headers /\ s[i] \in Range(s)
  BY <1>1, SeqFacts
<1>3. \A i \in 1 .. Len(s) : s[i] # header
  BY <1>2 DEF FreeList
<1>4. \A i \in 1 .. Len(s) : next'[s[i]] = next[s[i]]
  BY <1>2, <1>3
<1>5. \A h \in Headers : h \in Range(s) <=> (Pool(h) = q /\ held'[h] = 0)
  BY DEF FreeList, Pool
<1> QED
  BY <1>4, <1>5 DEF FreeList

LEMMA AllocPool ==
    ASSUME PoolInv, NEW p \in Pools, Alloc(p)
    PROVE  PoolInv' /\ Promised!Take(p)
<1>0. PICK s : FreeList(p, s)
  BY DEF PoolInv
<1>1. NULL \notin Headers /\ PoolTyped
  BY MonitoringAssumption DEF PoolInv
<1>2. PICK header : header = first[p]
  OBVIOUS
<1>3. /\ header # NULL
      /\ first' = [first EXCEPT ![p] = next[header]]
      /\ next' = [next EXCEPT ![header] = NULL]
      /\ held' = [held EXCEPT ![header] = held[header] + 1]
      /\ refused' = [refused EXCEPT ![p] = FALSE]
  BY <1>2 DEF Alloc
<1>4. s \in Seq(Headers) /\ s # <<>> /\ header = s[1]
  BY <1>0, <1>2, <1>3 DEF FreeList
<1>5. /\ Len(s) \in Nat /\ Len(s) >= 1 /\ DOMAIN s = 1 .. Len(s) /\ 1 \in 1 .. Len(s)
      /\ Tail(s) \in Seq(Headers) /\ Len(Tail(s)) = Len(s) - 1
      /\ DOMAIN Tail(s) = 1 .. Len(s) - 1
      /\ \A i \in 1 .. Len(s) - 1 : Tail(s)[i] = s[i + 1] /\ i + 1 \in 1 .. Len(s)
  BY <1>4, HeadTailProperties
<1>6. header \in Headers /\ header \in Range(s)
  BY <1>4, <1>5, SeqFacts
<1>7. Pool(header) = p /\ held[header] = 0
  BY <1>0, <1>6 DEF FreeList
<1>8. /\ \A h \in Headers : held'[h] = IF h = header THEN 1 ELSE held[h]
      /\ \A h \in Headers : next'[h] = IF h = header THEN NULL ELSE next[h]
      /\ \A q \in Pools : first'[q] = IF q = p THEN next[header] ELSE first[q]
  BY <1>1, <1>3, <1>6, <1>7 DEF PoolTyped
<1>9. PoolTyped'
  BY <1>1, <1>3, <1>6, <1>7 DEF PoolTyped
<1>10. FreeList(p, Tail(s))'
  <2>1. IsInjective(s)
    BY <1>0 DEF FreeList
  <2>2. IsInjective(Tail(s))
    BY <1>5, <2>1 DEF IsInjective
  <2>3. \A i \in 1 .. Len(s) - 1 : s[i + 1] # header /\ s[i + 1] \in Headers
    <3>1. \A i \in 1 .. Len(s) - 1 : i + 1 # 1
      BY <1>5
    <3> QED
      BY <1>4, <1>5, <2>1, <3>1, SeqFacts DEF IsInjective
  <2>4. ASSUME NEW h \in Headers
        PROVE  h \in Range(Tail(s)) <=> (h \in Range(s) /\ h # header)
    <3>1. ASSUME h \in Range(Tail(s)) PROVE h \in Range(s) /\ h # header
      <4>1. PICK i \in 1 .. Len(s) - 1 : h = s[i + 1]
        BY <1>5, <3>1 DEF Range
      <4> QED
        BY <1>4, <1>5, <2>3, <4>1, SeqFacts
    <3>2. ASSUME h \in Range(s), h # header PROVE h \in Range(Tail(s))
      <4>1. PICK i \in 1 .. Len(s) : h = s[i]
        BY <1>4, <3>2, SeqFacts
      <4>2. i # 1 /\ i - 1 \in 1 .. Len(s) - 1 /\ (i - 1) + 1 = i
        BY <1>4, <1>5, <3>2, <4>1
      <4>3. Tail(s)[i - 1] = h
        BY <1>5, <4>1, <4>2
      <4> QED
        BY <1>5, <4>2, <4>3 DEF Range
    <3> QED
      BY <3>1, <3>2
  <2>5. \A h \in Headers : h \in Range(Tail(s)) <=> (Pool(h) = p /\ held'[h] = 0)
    BY <1>0, <1>8, <2>4 DEF FreeList
  <2>6. \A i \in 1 .. Len(s) : next[s[i]] = IF i = Len(s) THEN NULL ELSE s[i + 1]
    BY <1>0 DEF FreeList
  <2>7. first'[p] = IF Tail(s) = <<>> THEN NULL ELSE Tail(s)[1]
    <3>1. Tail(s) = <<>> <=> Len(s) = 1
      <4>1. Tail(s) = <<>> <=> Len(Tail(s)) = 0
        BY <1>5, SeqFacts
      <4>2. Len(Tail(s)) = Len(s) - 1 /\ Len(s) \in Nat
        BY <1>5
      <4> QED
        BY <4>1, <4>2
    <3>2. first'[p] = IF 1 = Len(s) THEN NULL ELSE s[1 + 1]
      BY <1>4, <1>5, <1>8, <2>6
    <3>3. Len(s) # 1 => 1 \in 1 .. Len(s) - 1
      BY <1>5
    <3> QED
      BY <1>5, <3>1, <3>2, <3>3
  <2>8. ASSUME NEW i \in 1 .. Len(s) - 1
        PROVE next'[Tail(s)[i]] = IF i = Len(s) - 1 THEN NULL ELSE Tail(s)[i + 1]
    <3>1. next'[Tail(s)[i]] = next[s[i + 1]]
      BY <1>5, <1>8, <2>3
    <3>2. next[s[i + 1]] = IF i + 1 = Len(s) THEN NULL ELSE s[(i + 1) + 1]
      BY <1>5, <2>6
    <3>3. i # Len(s) - 1 => i + 1 \in 1 .. Len(s) - 1
      <4>1. Len(s) \in Nat
        BY <1>5
      <4> QED
        BY <4>1
    <3>4. CASE i = Len(s) - 1
      <4>1. i + 1 = Len(s)
        BY <1>5, <3>4
      <4> QED
        BY <3>1, <3>2, <3>4, <4>1
    <3>5. CASE i # Len(s) - 1
      <4>1. Tail(s)[i + 1] = s[(i + 1) + 1]
        BY <1>5, <3>3, <3>5
      <4>2. Len(s) \in Nat
        BY <1>5
      <4>3. i + 1 # Len(s)
        BY <3>5, <4>2
      <4> QED
        BY <3>1, <3>2, <3>5, <4>1, <4>3
    <3> QED
      BY <3>4, <3>5
  <2> QED
    BY <1>5, <2>2, <2>5, <2>7, <2>8 DEF FreeList
<1>11. ASSUME NEW q \in Pools PROVE \E t : FreeList(q, t)'
  <2>1. CASE q = p
    BY <1>10, <2>1
  <2>2. CASE q # p
    <3>1. PICK t : FreeList(q, t)
      BY DEF PoolInv
    <3> QED
      BY <1>1, <1>6, <1>7, <1>8, <1>9, <2>2, <3>1, OtherList
  <2> QED
    BY <2>1, <2>2
<1>12. Promised!Take(p)
  <2>1. held' = [held EXCEPT ![header] = 1]
    BY <1>3, <1>7
  <2> QED
    BY <1>3, <1>6, <1>7, <2>1 DEF Promised!Take
<1> QED
  BY <1>9, <1>11, <1>12 DEF PoolInv

LEMMA AllocFailsPool ==
    ASSUME PoolInv, NEW p \in Pools, AllocFails(p)
    PROVE  PoolInv' /\ Promised!TakeNone(p)
<1>0. PICK s : FreeList(p, s)
  BY DEF PoolInv
<1>1. /\ first[p] = NULL /\ refused' = [refused EXCEPT ![p] = TRUE]
      /\ UNCHANGED <<first, next, held>>
  BY DEF AllocFails
<1>2. NULL \notin Headers /\ PoolTyped /\ s \in Seq(Headers)
  BY <1>0, MonitoringAssumption DEF PoolInv, FreeList
<1>3. s = <<>>
  <2>1. ASSUME s # <<>> PROVE s[1] \in Headers
    BY <1>2, <2>1, HeadTailProperties
  <2> QED
    BY <1>0, <1>1, <1>2, <2>1 DEF FreeList
<1>4. \A h \in Headers : h \notin Range(s)
  BY <1>3 DEF Range
<1>5. \A h \in Headers : Pool(h) = p => held[h] = 1
  BY <1>0, <1>2, <1>4 DEF FreeList, PoolTyped
<1>6. Promised!TakeNone(p)
  BY <1>1, <1>5 DEF Promised!TakeNone
<1>7. PoolInv'
  BY <1>1 DEF PoolInv, PoolTyped, FreeList
<1> QED
  BY <1>6, <1>7

LEMMA FreePool ==
    ASSUME PoolInv, NEW header \in Headers, Free(header)
    PROVE  PoolInv' /\ Promised!GiveBack(header)
<1>0. PICK p : p = Pool(header)
  OBVIOUS
<1>1. /\ held[header] > 0
      /\ next' = [next EXCEPT ![header] = first[p]]
      /\ first' = [first EXCEPT ![p] = header]
      /\ held' = [held EXCEPT ![header] = held[header] - 1]
      /\ UNCHANGED refused
  BY <1>0 DEF Free
<1>2. PoolTyped /\ p \in Pools /\ held[header] = 1
  BY <1>0, <1>1 DEF PoolInv, PoolTyped, Headers, Pool
<1>3. PICK s : FreeList(p, s)
  BY <1>2 DEF PoolInv
<1>4. /\ \A h \in Headers : held'[h] = IF h = header THEN 0 ELSE held[h]
      /\ \A h \in Headers : next'[h] = IF h = header THEN first[p] ELSE next[h]
      /\ \A q \in Pools : first'[q] = IF q = p THEN header ELSE first[q]
  BY <1>1, <1>2 DEF PoolTyped
<1>5. PoolTyped'
  BY <1>1, <1>2 DEF PoolTyped
<1>6. /\ s \in Seq(Headers) /\ IsInjective(s)
      /\ \A h \in Headers : h \in Range(s) <=> (Pool(h) = p /\ held[h] = 0)
      /\ first[p] = IF s = <<>> THEN NULL ELSE s[1]
      /\ \A i \in 1 .. Len(s) : next[s[i]] = IF i = Len(s) THEN NULL ELSE s[i + 1]
  BY <1>3 DEF FreeList
<1>7. header \notin Range(s)
  BY <1>2, <1>6
<1>8. PICK t : t = [i \in 1 .. Len(s) + 1 |-> IF i = 1 THEN header ELSE s[i - 1]]
  OBVIOUS
<1>9. /\ Len(s) \in Nat /\ DOMAIN s = 1 .. Len(s)
      /\ \A i \in 1 .. Len(s) : s[i] \in Headers /\ s[i] \in Range(s)
      /\ s = <<>> <=> Len(s) = 0
  BY <1>6, SeqFacts
<1>10. /\ t[1] = header /\ \A i \in 1 .. Len(s) : t[i + 1] = s[i]
       /\ \A i \in 1 .. Len(s) + 1 : i = 1 \/ (i - 1 \in 1 .. Len(s) /\ t[i] = s[i - 1])
  BY <1>8, <1>9
<1>11. t \in Seq(Headers) /\ Len(t) = Len(s) + 1 /\ DOMAIN t = 1 .. Len(s) + 1
  <2>1. t \in [1 .. Len(s) + 1 -> Headers]
    BY <1>8, <1>9
  <2> QED
    BY <1>9, <2>1, SeqDef
<1>12. FreeList(p, t)'
  <2>1. IsInjective(t)
    <3> SUFFICES ASSUME NEW i \in 1 .. Len(s) + 1, NEW j \in 1 .. Len(s) + 1, t[i] = t[j]
                 PROVE  i = j
      BY <1>11 DEF IsInjective
    <3>1. CASE i = 1 \/ j = 1
      BY <1>7, <1>9, <1>10, <3>1
    <3>2. CASE i # 1 /\ j # 1
      <4>1. i - 1 \in 1 .. Len(s) /\ j - 1 \in 1 .. Len(s) /\ s[i - 1] = s[j - 1]
        BY <1>10, <3>2
      <4>2. i - 1 = j - 1
        BY <1>6, <1>9, <4>1 DEF IsInjective
      <4> QED
        BY <1>9, <4>2
    <3> QED
      BY <3>1, <3>2
  <2>2. ASSUME NEW h \in Headers PROVE h \in Range(t) <=> (h \in Range(s) \/ h = header)
    <3>1. ASSUME h \in Range(t) PROVE h \in Range(s) \/ h = header
      <4>1. PICK i \in 1 .. Len(s) + 1 : h = t[i]
        BY <1>11, <3>1 DEF Range
      <4> QED
        BY <1>9, <1>10, <4>1
    <3>2. ASSUME h \in Range(s) PROVE h \in Range(t)
      <4>1. PICK i \in 1 .. Len(s) : h = s[i]
        BY <1>9, <3>2 DEF Range
      <4>2. t[i + 1] = h /\ i + 1 \in 1 .. Len(s) + 1
        BY <1>9, <1>10, <4>1
      <4> QED
        BY <1>11, <4>2 DEF Range
    <3>3. header \in Range(t)
      <4>1. 1 \in DOMAIN t
        BY <1>9, <1>11
      <4> QED
        BY <1>10, <4>1 DEF Range
    <3> QED
      BY <3>1, <3>2, <3>3
  <2>3. \A h \in Headers : h \in Range(t) <=> (Pool(h) = p /\ held'[h] = 0)
    BY <1>0, <1>4, <1>6, <2>2
  <2>4. first'[p] = IF t = <<>> THEN NULL ELSE t[1]
    <3>1. t # <<>>
      BY <1>9, <1>11, SeqFacts
    <3> QED
      BY <1>2, <1>4, <1>10, <3>1
  <2>5. ASSUME NEW i \in 1 .. Len(s) + 1
        PROVE  next'[t[i]] = IF i = Len(s) + 1 THEN NULL ELSE t[i + 1]
    <3>1. CASE i = 1
      <4>1. next'[t[i]] = first[p]
        BY <1>4, <1>10, <3>1
      <4>2. Len(s) # 0 => t[1 + 1] = s[1]
        BY <1>9, <1>10
      <4>3. CASE Len(s) = 0
        BY <1>6, <1>9, <3>1, <4>1, <4>3
      <4>4. CASE Len(s) # 0
        <5>1. first[p] = s[1]
          BY <1>6, <1>9, <4>4
        <5>2. i # Len(s) + 1 /\ t[i + 1] = s[1]
          BY <1>9, <3>1, <4>2, <4>4
        <5> QED
          BY <4>1, <5>1, <5>2
      <4> QED
        BY <4>3, <4>4
    <3>2. CASE i # 1
      <4>1. i - 1 \in 1 .. Len(s) /\ t[i] = s[i - 1]
        BY <1>10, <3>2
      <4>2. next'[t[i]] = next[s[i - 1]]
        BY <1>4, <1>7, <1>9, <4>1
      <4>3. next[s[i - 1]] = IF i - 1 = Len(s) THEN NULL ELSE s[(i - 1) + 1]
        BY <1>6, <4>1
      <4>4. i # Len(s) + 1 => i \in 1 .. Len(s) /\ (i - 1) + 1 = i
        BY <1>9, <4>1
      <4> QED
        BY <1>9, <1>10, <4>1, <4>2, <4>3, <4>4
    <3> QED
      BY <3>1, <3>2
  <2> QED
    BY <1>11, <2>1, <2>3, <2>4, <2>5 DEF FreeList
<1>13. ASSUME NEW q \in Pools PROVE \E u : FreeList(q, u)'
  <2>1. CASE q = p
    BY <1>12, <2>1
  <2>2. CASE q # p
    <3>1. PICK u : FreeList(q, u)
      BY DEF PoolInv
    <3> QED
      BY <1>0, <1>2, <1>4, <1>5, <2>2, <3>1, OtherList
  <2> QED
    BY <2>1, <2>2
<1>14. Promised!GiveBack(header)
  <2>1. held' = [held EXCEPT ![header] = 0]
    BY <1>1, <1>2
  <2> QED
    BY <1>1, <1>2, <2>1 DEF Promised!GiveBack
<1> QED
  BY <1>5, <1>13, <1>14 DEF PoolInv

LEMMA NextPool ==
    PoolInv /\ [Next]_vars => PoolInv' /\ [Promised!Next]_<<held, refused>>
<1> SUFFICES ASSUME PoolInv, [Next]_vars
             PROVE  PoolInv' /\ [Promised!Next]_<<held, refused>>
  OBVIOUS
<1>0. Pools = Cores
  BY MonitoringAssumption
<1>1. ASSUME NEW core \in Cores, CoreAllocs(core)
      PROVE  PoolInv' /\ [Promised!Next]_<<held, refused>>
  BY <1>0, <1>1, AllocPool DEF CoreAllocs, Promised!Next
<1>2. ASSUME NEW core \in Cores, CoreIsRefused(core)
      PROVE  PoolInv' /\ [Promised!Next]_<<held, refused>>
  BY <1>0, <1>2, AllocFailsPool DEF CoreIsRefused, Promised!Next
<1>3. ASSUME NEW core \in Cores, CoreFrees(core)
      PROVE  PoolInv' /\ [Promised!Next]_<<held, refused>>
  <2>1. PICK h \in Headers : Free(h)
    BY <1>3 DEF CoreFrees, InUse
  <2> QED
    BY <2>1, FreePool DEF Promised!Next
<1>4. ASSUME UNCHANGED poolVars
      PROVE  PoolInv' /\ [Promised!Next]_<<held, refused>>
  BY <1>4 DEF poolVars, PoolInv, PoolTyped, FreeList
<1>5. ASSUME NEW id \in Ids, NEW t \in ItemTypes, Register(id, t) PROVE UNCHANGED poolVars
  BY <1>5 DEF Register
<1>6. ASSUME NEW core \in Cores, CoreCounts(core) PROVE UNCHANGED poolVars
  BY <1>6 DEF CoreCounts
<1>7. ASSUME NEW core \in Cores, NEW id \in Ids, NEW f \in AllFields,
             CoreCountsOther(core, id, f)
      PROVE  UNCHANGED poolVars
  BY <1>7 DEF CoreCountsOther
<1>8. ASSUME Monitor \/ MonitorCard \/ CardCounts \/ UNCHANGED vars PROVE UNCHANGED poolVars
  BY <1>8 DEF Monitor, MonitorCard, CardCounts, vars
<1> QED
  BY <1>1, <1>2, <1>3, <1>4, <1>5, <1>6, <1>7, <1>8 DEF Next

(***************************************************************************)
(* The free lists of all pools keep what a pool promises: no object is     *)
(* handed out twice or by another pool, and an allocation fails only when  *)
(* the pool is used up (mempool.c:10-58).                                  *)
(***************************************************************************)
THEOREM PoolsKeepPromise == Spec => PoolSpec
<1>1. Init => PoolInv /\ Promised!Init
  BY PoolInitInv DEF Init, PoolInit, Promised!Init
<1> QED
  BY <1>1, NextPool, PTL DEF Spec, PoolSpec, Promised!Spec
-----------------------------------------------------------------------------
(***************************************************************************)
(* The card.  While an update runs, what it has read is in the counter of  *)
(* the card, of the process or of both.                                    *)
(***************************************************************************)
CardInv ==
    /\ hw \in Nat /\ nic \in Nat /\ read \in Nat /\ truth \in Nat /\ between \in Nat
    /\ update \in {"idle", "get", "add", "reset"}
    /\ update \in {"idle", "get"} =>
          /\ ~kept => nic + hw <= truth
          /\ nic + hw + between >= truth
    /\ update = "add" =>
          /\ read <= hw
          /\ ~kept => nic + hw <= truth
          /\ nic + read + between >= truth
    /\ update = "reset" =>
          /\ read <= hw
          /\ ~kept => nic + hw <= truth + read
          /\ nic + between >= truth

LEMMA NextCard == CardInv /\ [Next]_vars => CardInv'
<1> SUFFICES ASSUME CardInv, [Next]_vars PROVE CardInv'
  OBVIOUS
<1>1. ASSUME Arrive PROVE CardInv'
  <2>1. CASE update \in {"idle", "get"}
    BY <1>1, <2>1 DEF Arrive, CardInv
  <2>2. CASE update = "add"
    BY <1>1, <2>2 DEF Arrive, CardInv
  <2>3. CASE update = "reset"
    BY <1>1, <2>3 DEF Arrive, CardInv
  <2> QED
    BY <2>1, <2>2, <2>3 DEF CardInv
<1>2. ASSUME UpdateBegin PROVE CardInv'
  BY <1>2 DEF UpdateBegin, CardInv
<1>3. ASSUME Get PROVE CardInv'
  BY <1>3 DEF Get, CardInv
<1>4. ASSUME Add PROVE CardInv'
  BY <1>4 DEF Add, CardInv
<1>5. ASSUME Reset PROVE CardInv'
  BY <1>5 DEF Reset, CardInv
<1>6. ASSUME UNCHANGED intfVars PROVE CardInv'
  BY <1>6 DEF intfVars, CardInv
<1>7. ASSUME NEW id \in Ids, NEW t \in ItemTypes, Register(id, t) PROVE UNCHANGED intfVars
  BY <1>7 DEF Register
<1>8. ASSUME NEW core \in Cores,
             CoreAllocs(core) \/ CoreIsRefused(core) \/ CoreFrees(core) \/ CoreCounts(core)
      PROVE  UNCHANGED intfVars
  BY <1>8 DEF CoreAllocs, CoreIsRefused, CoreFrees, CoreCounts, Called
<1>9. ASSUME NEW core \in Cores, NEW id \in Ids, NEW f \in AllFields,
             CoreCountsOther(core, id, f)
      PROVE  UNCHANGED intfVars
  BY <1>9 DEF CoreCountsOther
<1>10. ASSUME Monitor \/ UNCHANGED vars PROVE UNCHANGED intfVars
  BY <1>10 DEF Monitor, vars
<1>11. ASSUME MonitorCard PROVE UpdateBegin \/ Get \/ Add \/ Reset
  BY <1>11 DEF MonitorCard, UpdateStep
<1>12. ASSUME CardCounts PROVE Arrive
  BY <1>12 DEF CardCounts
<1> QED
  BY <1>1, <1>2, <1>3, <1>4, <1>5, <1>6, <1>7, <1>8, <1>9, <1>10, <1>11, <1>12 DEF Next

(***************************************************************************)
(* No packet is in nic_stats twice unless a reset has failed, and none is  *)
(* missing but those that came between a read and its reset                *)
(* (intf.c:388-413).                                                       *)
(***************************************************************************)
THEOREM PacketsCountedOnce == Spec => []NicStatsTrue
<1>1. Init => CardInv
  BY DEF Init, IntfInit, CardInv
<1>2. CardInv => NicStatsTrue
  BY DEF CardInv, NicStatsTrue
<1> QED
  BY <1>1, <1>2, NextCard, PTL DEF Spec
-----------------------------------------------------------------------------
(***************************************************************************)
(* The statistics.  An item is counted in only once it is registered, and  *)
(* only in the counters its type has.                                      *)
(***************************************************************************)
PoolFields == {"alloc_succ", "alloc_fail", "free"}

StatsTyped ==
    /\ type \in [Ids -> Types] /\ typeSum \in [Ids -> Types]
    /\ cell \in [Ids -> [Cores -> [AllFields -> Nat]]]
    /\ sum \in [Ids -> [AllFields -> Nat]]
    /\ low \in [Ids -> [AllFields -> Nat]]
    /\ walk \in [op : {"idle", "dup", "item", "fields"}, id : 0 .. MaxId, core : Cores,
                 left : SUBSET AllFields]
    /\ walk.op = "idle" => walk = Idle
    /\ walk.op = "fields" => walk.id < MaxId
    /\ event \in [Cores -> PoolFields \cup {"none"}]
    /\ calls \in 0 .. MaxCalls

Counted ==
    /\ \A id \in Ids, core \in Cores, f \in AllFields :
          cell[id][core][f] # 0 => f \in Fields(type[id])
    /\ type[PoolItem] \in {"NONE", "RESOURCE_POOL"}
    /\ \A core \in Cores : event[core] # "none" => type[PoolItem] = "RESOURCE_POOL"

(***************************************************************************)
(* Every call into a pool is counted, or is yet to be, and so are those in *)
(* other items; and what is taken and not given back is in use.            *)
(***************************************************************************)
Busy == {core \in Cores : event[core] # "none"}

OthersFit == \A id \in Ids, f \in AllFields : id # PoolItem => Total(id, f) <= calls

Accounted ==
    /\ Total(PoolItem, "alloc_succ") + Total(PoolItem, "alloc_fail") + Total(PoolItem, "free")
          + Cardinality(Busy) <= calls
    /\ OthersFit
    /\ Total(PoolItem, "alloc_succ") + Cardinality(Pending("alloc_succ"))
          = Total(PoolItem, "free") + Cardinality(Pending("free")) + Cardinality(InUse)

SInv == StatsTyped /\ Counted /\ TypesAgree /\ Accounted

LEMMA Constants ==
    /\ CoreCnt \in Nat \ {0} /\ Cores = 0 .. CoreCnt - 1 /\ 0 \in Cores
    /\ MaxId \in Nat /\ Ids = 0 .. MaxId - 1 /\ PoolItem \in Ids
    /\ MaxCalls \in Nat /\ Word \in Nat /\ MaxCalls < Word
    /\ ItemTypes \subseteq Types
BY MonitoringAssumption DEF Cores, Ids

LEMMA FieldFacts ==
    /\ \A t \in Types : Fields(t) \subseteq AllFields
    /\ PoolFields = Fields("RESOURCE_POOL") /\ PoolFields \subseteq AllFields
    /\ Fields("NONE") = {} /\ {"NONE", "RESOURCE_POOL"} \subseteq Types
    /\ "alloc_succ" \in AllFields /\ "alloc_fail" \in AllFields /\ "free" \in AllFields
<1>1. \A t \in Types : Fields(t) \subseteq AllFields
  BY DEF AllFields
<1>2. PoolFields = Fields("RESOURCE_POOL") /\ Fields("NONE") = {}
  BY DEF Fields, PoolFields
<1>3. {"NONE", "RESOURCE_POOL"} \subseteq Types
  BY DEF Types
<1>4. PoolFields \subseteq AllFields
  BY <1>1, <1>2, <1>3
<1>5. "alloc_succ" \in PoolFields /\ "alloc_fail" \in PoolFields /\ "free" \in PoolFields
  BY DEF PoolFields
<1> QED
  BY <1>1, <1>2, <1>3, <1>4, <1>5

LEMMA ModSmall ==
    ASSUME NEW n \in Nat, NEW w \in Nat, n < w
    PROVE  n % w = n
OBVIOUS

LEMMA Finite ==
    /\ IsFiniteSet(Busy) /\ Cardinality(Busy) \in Nat
    /\ \A e : IsFiniteSet(Pending(e)) /\ Cardinality(Pending(e)) \in Nat
    /\ IsFiniteSet(InUse) /\ Cardinality(InUse) \in Nat
<1>1. IsFiniteSet(Cores)
  BY Constants, FS_Interval
<1>2. IsFiniteSet(Headers)
  <2>1. IsFiniteSet(0 .. Cnt - 1) /\ IsFiniteSet(Pools)
    BY <1>1, MonitoringAssumption, FS_Interval
  <2> QED
    BY <2>1, FS_Product DEF Headers
<1>3. IsFiniteSet(InUse) /\ Cardinality(InUse) \in Nat
  <2>1. InUse \in SUBSET Headers
    BY DEF InUse
  <2> QED
    BY <1>2, <2>1, FS_Subset, FS_CardinalityType
<1>4. IsFiniteSet(Busy) /\ Cardinality(Busy) \in Nat
  <2>1. Busy \in SUBSET Cores
    BY DEF Busy
  <2> QED
    BY <1>1, <2>1, FS_Subset, FS_CardinalityType
<1>5. ASSUME NEW e PROVE IsFiniteSet(Pending(e)) /\ Cardinality(Pending(e)) \in Nat
  <2>1. Pending(e) \in SUBSET Cores
    BY DEF Pending
  <2> QED
    BY <1>1, <2>1, FS_Subset, FS_CardinalityType
<1> QED
  BY <1>3, <1>4, <1>5

LEMMA ColumnCounts ==
    ASSUME StatsTyped, NEW id \in Ids, NEW f \in AllFields
    PROVE  /\ Counts(Column(id, f))
           /\ \A core \in Cores : Column(id, f)[core] = cell[id][core][f] /\ cell[id][core][f] \in Nat
           /\ Total(id, f) \in Nat
<1>1. Counts(Column(id, f))
  BY DEF StatsTyped, Column, Counts
<1>2. \A core \in Cores : Column(id, f)[core] = cell[id][core][f] /\ cell[id][core][f] \in Nat
  BY DEF StatsTyped, Column
<1>3. CoreCnt \in 0 .. CoreCnt
  BY Constants
<1> QED
  BY <1>1, <1>2, <1>3, SumFacts DEF Total

\* No counter of a core, and no sum of them, ever wraps around.
LEMMA TotalsFit ==
    ASSUME SInv, NEW id \in Ids, NEW f \in AllFields
    PROVE  Total(id, f) \in Nat /\ Total(id, f) <= MaxCalls
<1>0. StatsTyped /\ Counted /\ Accounted
  BY DEF SInv
<1>1. CASE id = PoolItem /\ f \in PoolFields
  <2>1. /\ Total(PoolItem, "alloc_succ") \in Nat /\ Total(PoolItem, "alloc_fail") \in Nat
        /\ Total(PoolItem, "free") \in Nat
    BY <1>0, Constants, FieldFacts, ColumnCounts
  <2>2. calls \in Nat /\ calls <= MaxCalls /\ Cardinality(Busy) \in Nat
    BY <1>0, Constants, Finite DEF StatsTyped
  <2>3. Total(PoolItem, "alloc_succ") + Total(PoolItem, "alloc_fail") + Total(PoolItem, "free")
          + Cardinality(Busy) <= calls
    BY <1>0 DEF Accounted
  <2>4. /\ Total(PoolItem, "alloc_succ") <= MaxCalls /\ Total(PoolItem, "alloc_fail") <= MaxCalls
        /\ Total(PoolItem, "free") <= MaxCalls
    BY <2>1, <2>2, <2>3, Constants
  <2> QED
    BY <1>1, <2>1, <2>4 DEF PoolFields
<1>2. CASE id = PoolItem /\ f \notin PoolFields
  <2>1. \A core \in Cores : cell[id][core][f] = 0
    BY <1>0, <1>2, FieldFacts DEF Counted
  <2>2. Counts(Column(id, f)) /\ \A core \in Cores : Column(id, f)[core] = 0
    BY <1>0, <2>1, ColumnCounts
  <2>3. Total(id, f) = 0
    BY <2>2, SumOfZeros DEF Total
  <2> QED
    BY <2>3, Constants
<1>3. CASE id # PoolItem
  <2>1. Total(id, f) \in Nat /\ Total(id, f) <= calls
    BY <1>0, <1>3, ColumnCounts DEF Accounted, OthersFit
  <2>2. calls \in Nat /\ calls <= MaxCalls
    BY <1>0, Constants DEF StatsTyped
  <2> QED
    BY <2>1, <2>2, Constants
<1> QED
  BY <1>1, <1>2, <1>3

LEMMA InitS == Init => SInv
<1> SUFFICES ASSUME Init PROVE SInv
  OBVIOUS
<1>1. ZeroCore \in [AllFields -> Nat] /\ \A f \in AllFields : ZeroCore[f] = 0
  BY DEF ZeroCore
<1>2. Idle \in [op : {"idle", "dup", "item", "fields"}, id : 0 .. MaxId, core : Cores,
                left : SUBSET AllFields] /\ Idle.op = "idle"
  BY Constants DEF Idle
<1>3. StatsTyped
  BY <1>1, <1>2, Constants, FieldFacts DEF Init, StatsInit, StatsTyped
<1>4. Counted
  BY <1>1, Constants DEF Init, StatsInit, Counted
<1>5. TypesAgree
  BY DEF Init, StatsInit, TypesAgree
<1>6. ASSUME NEW id \in Ids, NEW f \in AllFields PROVE Total(id, f) = 0
  <2>1. \A core \in Cores : cell[id][core][f] = 0
    BY <1>1, <1>6, Constants DEF Init, StatsInit
  <2> QED
    BY <1>3, <2>1, Constants, ColumnCounts, SumOfZeros DEF Total
<1>7. Busy = {} /\ Pending("alloc_succ") = {} /\ Pending("free") = {} /\ InUse = {}
  BY DEF Init, PoolInit, Busy, Pending, InUse
<1>8. calls = 0 /\ Cardinality({}) = 0
  BY FS_EmptySet DEF Init
<1>9. OthersFit
  BY <1>6, <1>8 DEF OthersFit
<1>10. Accounted
  <2>1. /\ Total(PoolItem, "alloc_succ") = 0 /\ Total(PoolItem, "alloc_fail") = 0
        /\ Total(PoolItem, "free") = 0
    <3>1. PoolItem \in Ids /\ {"alloc_succ", "alloc_fail", "free"} \subseteq AllFields
      BY Constants, FieldFacts DEF PoolFields
    <3> QED
      BY <1>6, <3>1
  <2>2. /\ Cardinality(Busy) = 0 /\ Cardinality(InUse) = 0
        /\ Cardinality(Pending("alloc_succ")) = 0 /\ Cardinality(Pending("free")) = 0
    BY <1>7, <1>8
  <2> QED
    BY <1>8, <1>9, <2>1, <2>2 DEF Accounted
<1> QED
  BY <1>3, <1>4, <1>5, <1>10 DEF SInv

\* Steps that neither count nor call.
LEMMA SameAccounts ==
    ASSUME Accounted, UNCHANGED <<cell, event, calls, held>>
    PROVE  Accounted'
<1>1. \A id, f : Total(id, f)' = Total(id, f)
  BY DEF Total, Column
<1>2. Busy' = Busy /\ InUse' = InUse /\ \A e : Pending(e)' = Pending(e)
  BY DEF Busy, InUse, Pending
<1> QED
  BY <1>1, <1>2 DEF Accounted, OthersFit

LEMMA RegisterS ==
    ASSUME SInv, NEW id \in Ids, NEW t \in ItemTypes, Register(id, t)
    PROVE  SInv'
<1>1. /\ t \in Types /\ type[id] = "NONE" /\ type' = [type EXCEPT ![id] = t]
      /\ id = PoolItem => t = "RESOURCE_POOL"
      /\ UNCHANGED <<typeSum, cell, sum, walk, low, held, event, calls>>
  BY Constants DEF Register, AddItem, poolVars, ownVars
<1>2. StatsTyped /\ Counted /\ TypesAgree /\ Accounted
  BY DEF SInv
<1>3. \A x \in Ids : type'[x] = IF x = id THEN t ELSE type[x]
  BY <1>1, <1>2 DEF StatsTyped
<1>4. StatsTyped'
  BY <1>1, <1>2 DEF StatsTyped
<1>5. Counted'
  <2>1. \A core \in Cores, f \in AllFields : cell[id][core][f] = 0
    BY <1>1, <1>2, FieldFacts DEF Counted
  <2> QED
    BY <1>1, <1>2, <1>3, <2>1, Constants DEF Counted
<1>6. TypesAgree'
  BY <1>1, <1>2, <1>3 DEF TypesAgree
<1>7. Accounted'
  BY <1>1, <1>2, SameAccounts
<1> QED
  BY <1>4, <1>5, <1>6, <1>7 DEF SInv

\* A call, of which the core has yet to count e.
LEMMA CalledS ==
    ASSUME SInv, NEW core \in Cores, NEW e \in PoolFields, Called(core, e)
    PROVE  /\ StatsTyped' /\ Counted' /\ TypesAgree' /\ OthersFit'
           /\ \A f : Total(PoolItem, f)' = Total(PoolItem, f)
           /\ calls' = calls + 1 /\ Cardinality(Busy') = Cardinality(Busy) + 1
           /\ Cardinality(Pending(e)') = Cardinality(Pending(e)) + 1
           /\ \A x : x # e /\ x # "none" => Pending(x)' = Pending(x)
<1>1. /\ type[PoolItem] # "NONE" /\ event[core] = "none" /\ calls < MaxCalls
      /\ event' = [event EXCEPT ![core] = e] /\ calls' = calls + 1
      /\ UNCHANGED <<type, typeSum, cell, sum, walk, low>>
  BY DEF Called, statsVars
<1>2. StatsTyped /\ Counted /\ TypesAgree /\ OthersFit
  BY DEF SInv, Accounted
<1>3. \A c \in Cores : event'[c] = IF c = core THEN e ELSE event[c]
  BY <1>1, <1>2 DEF StatsTyped
<1>4. calls + 1 \in 0 .. MaxCalls
  BY <1>1, <1>2, Constants DEF StatsTyped
<1>5. e # "none"
  BY DEF PoolFields
<1>6. StatsTyped'
  BY <1>1, <1>2, <1>4 DEF StatsTyped
<1>7. Counted'
  BY <1>1, <1>2, <1>3 DEF Counted
<1>8. TypesAgree'
  BY <1>1, <1>2 DEF TypesAgree
<1>9. \A f : Total(PoolItem, f)' = Total(PoolItem, f)
  BY <1>1 DEF Total, Column
<1>10. Busy' = Busy \cup {core} /\ core \notin Busy
  BY <1>1, <1>3, <1>5 DEF Busy
<1>11. Pending(e)' = Pending(e) \cup {core} /\ core \notin Pending(e)
  BY <1>1, <1>3, <1>5 DEF Pending
<1>12. \A x : x # e /\ x # "none" => Pending(x)' = Pending(x)
  BY <1>1, <1>3 DEF Pending
<1>13. Cardinality(Busy') = Cardinality(Busy) + 1
  BY <1>10, Finite, FS_AddElement
<1>14. Cardinality(Pending(e)') = Cardinality(Pending(e)) + 1
  BY <1>11, Finite, FS_AddElement
<1>15. OthersFit'
  <2>1. ASSUME NEW id \in Ids, NEW f \in AllFields, id # PoolItem PROVE Total(id, f)' <= calls'
    <3>1. Total(id, f)' = Total(id, f)
      BY <1>1 DEF Total, Column
    <3>2. Total(id, f) \in Nat /\ Total(id, f) <= calls
      BY <1>2, <2>1, ColumnCounts DEF OthersFit
    <3>3. calls \in Nat
      BY <1>2, Constants DEF StatsTyped
    <3> QED
      BY <1>1, <3>1, <3>2, <3>3
  <2> QED
    BY <2>1 DEF OthersFit
<1> QED
  BY <1>1, <1>6, <1>7, <1>8, <1>9, <1>12, <1>13, <1>14, <1>15

LEMMA Naturals3 ==
    ASSUME SInv
    PROVE  /\ Total(PoolItem, "alloc_succ") \in Nat /\ Total(PoolItem, "alloc_fail") \in Nat
           /\ Total(PoolItem, "free") \in Nat /\ calls \in Nat
           /\ Cardinality(Busy) \in Nat /\ Cardinality(InUse) \in Nat
           /\ Cardinality(Pending("alloc_succ")) \in Nat /\ Cardinality(Pending("free")) \in Nat
<1>1. calls \in Nat
  BY Constants DEF SInv, StatsTyped
<1> QED
  BY <1>1, TotalsFit, Constants, FieldFacts, Finite

LEMMA AllocsS ==
    ASSUME SInv, PoolInv, NEW core \in Cores, CoreAllocs(core)
    PROVE  SInv'
<1>0. "alloc_succ" \in PoolFields
  BY DEF PoolFields
<1>1. Called(core, "alloc_succ") /\ Alloc(core) /\ core \in Pools
  BY MonitoringAssumption DEF CoreAllocs
<1>2. /\ StatsTyped' /\ Counted' /\ TypesAgree' /\ OthersFit'
      /\ \A f : Total(PoolItem, f)' = Total(PoolItem, f)
      /\ calls' = calls + 1 /\ Cardinality(Busy') = Cardinality(Busy) + 1
      /\ Cardinality(Pending("alloc_succ")') = Cardinality(Pending("alloc_succ")) + 1
      /\ Pending("free")' = Pending("free")
  BY <1>0, <1>1, CalledS
<1>3. PICK header \in Headers : held[header] = 0 /\ held' = [held EXCEPT ![header] = 1]
  BY <1>1, AllocPool DEF Promised!Take
<1>4. InUse' = InUse \cup {header} /\ header \notin InUse
  BY <1>3 DEF InUse, PoolInv, PoolTyped
<1>5. Cardinality(InUse') = Cardinality(InUse) + 1
  BY <1>4, Finite, FS_AddElement
<1>6. Accounted'
  BY <1>2, <1>5, Naturals3 DEF SInv, Accounted
<1> QED
  BY <1>2, <1>6 DEF SInv

LEMMA RefusedS ==
    ASSUME SInv, NEW core \in Cores, CoreIsRefused(core)
    PROVE  SInv'
<1>0. "alloc_fail" \in PoolFields
  BY DEF PoolFields
<1>1. Called(core, "alloc_fail") /\ UNCHANGED held
  BY DEF CoreIsRefused, AllocFails
<1>2. /\ StatsTyped' /\ Counted' /\ TypesAgree' /\ OthersFit'
      /\ \A f : Total(PoolItem, f)' = Total(PoolItem, f)
      /\ calls' = calls + 1 /\ Cardinality(Busy') = Cardinality(Busy) + 1
      /\ Pending("alloc_succ")' = Pending("alloc_succ") /\ Pending("free")' = Pending("free")
  BY <1>0, <1>1, CalledS
<1>3. InUse' = InUse
  BY <1>1 DEF InUse
<1>4. Accounted'
  BY <1>2, <1>3, Naturals3 DEF SInv, Accounted
<1> QED
  BY <1>2, <1>4 DEF SInv

LEMMA FreesS ==
    ASSUME SInv, PoolInv, NEW core \in Cores, CoreFrees(core)
    PROVE  SInv'
<1>0. "free" \in PoolFields
  BY DEF PoolFields
<1>1. PICK header \in Headers : Free(header) /\ Called(core, "free")
  BY DEF CoreFrees, InUse
<1>2. /\ StatsTyped' /\ Counted' /\ TypesAgree' /\ OthersFit'
      /\ \A f : Total(PoolItem, f)' = Total(PoolItem, f)
      /\ calls' = calls + 1 /\ Cardinality(Busy') = Cardinality(Busy) + 1
      /\ Cardinality(Pending("free")') = Cardinality(Pending("free")) + 1
      /\ Pending("alloc_succ")' = Pending("alloc_succ")
  BY <1>0, <1>1, CalledS
<1>3. held[header] = 1 /\ held' = [held EXCEPT ![header] = 0]
  BY <1>1, FreePool DEF Promised!GiveBack
<1>4. InUse' = InUse \ {header} /\ header \in InUse
  BY <1>3 DEF InUse, PoolInv, PoolTyped
<1>5. Cardinality(InUse') = Cardinality(InUse) - 1
  BY <1>4, Finite, FS_RemoveElement
<1>6. Accounted'
  BY <1>2, <1>5, Naturals3 DEF SInv, Accounted
<1> QED
  BY <1>2, <1>6 DEF SInv

\* One counter of one core goes up by one.
CountsOne(id, core, e) ==
    /\ cell' = [cell EXCEPT ![id][core][e] = cell[id][core][e] + 1]
    /\ UNCHANGED <<type, typeSum, sum, walk, low, held>>

\* It does not wrap while the total fits a word.
LEMMA IncrCountsOne ==
    ASSUME StatsTyped, NEW id \in Ids, NEW core \in Cores, NEW e \in AllFields,
           Total(id, e) + 1 < Word, Incr(id, core, e), UNCHANGED held
    PROVE  CountsOne(id, core, e)
<1>1. PICK n \in Nat : n = cell[id][core][e]
  BY ColumnCounts
<1>2. n <= Total(id, e) /\ Total(id, e) \in Nat
  <2>1. Counts(Column(id, e)) /\ Column(id, e)[core] = n
    BY <1>1, ColumnCounts
  <2>2. core \in 0 .. CoreCnt /\ core + 1 \in 0 .. CoreCnt
    BY Constants
  <2>3. /\ SumUpTo(Column(id, e))[core + 1] = SumUpTo(Column(id, e))[core] + n
        /\ SumUpTo(Column(id, e))[core] \in Nat
    BY <2>1, <2>2, SumFacts
  <2>4. SumUpTo(Column(id, e))[core + 1] <= SumUpTo(Column(id, e))[CoreCnt]
    BY <2>1, <2>2, SumsGrow
  <2>5. SumUpTo(Column(id, e))[CoreCnt] \in Nat
    BY <2>1, Constants, SumFacts
  <2> QED
    BY <2>3, <2>4, <2>5 DEF Total
<1>3. n + 1 < Word
  BY <1>2, Constants
<1>4. (n + 1) % Word = n + 1
  BY <1>3, Constants, ModSmall
<1>5. cell' = [cell EXCEPT ![id][core][e] = (cell[id][core][e] + 1) % Word]
  BY DEF Incr
<1> QED
  BY <1>1, <1>4, <1>5 DEF Incr, CountsOne

\* The totals after it.
LEMMA CountedTotals ==
    ASSUME StatsTyped, NEW here \in Ids, NEW core \in Cores, NEW e \in AllFields,
           CountsOne(here, core, e)
    PROVE  /\ cell' \in [Ids -> [Cores -> [AllFields -> Nat]]]
           /\ \A id \in Ids, c \in Cores, f \in AllFields :
                 cell'[id][c][f] = IF id = here /\ c = core /\ f = e THEN cell[id][c][f] + 1
                                   ELSE cell[id][c][f]
           /\ \A id \in Ids, f \in AllFields :
                 Total(id, f)' = IF id = here /\ f = e THEN Total(id, f) + 1 ELSE Total(id, f)
<1>1. cell' = [cell EXCEPT ![here][core][e] = cell[here][core][e] + 1]
  BY DEF CountsOne
<1>2. cell \in [Ids -> [Cores -> [AllFields -> Nat]]]
  BY DEF StatsTyped
<1>3. \A id \in Ids, c \in Cores, f \in AllFields :
        cell'[id][c][f] = IF id = here /\ c = core /\ f = e THEN cell[id][c][f] + 1
                          ELSE cell[id][c][f]
  BY <1>1, <1>2
<1>4. cell' \in [Ids -> [Cores -> [AllFields -> Nat]]]
  <2>1. cell[here][core][e] + 1 \in Nat
    BY <1>2
  <2>2. [cell[here][core] EXCEPT ![e] = cell[here][core][e] + 1] \in [AllFields -> Nat]
    BY <1>2, <2>1
  <2> QED
    BY <1>1, <1>2, <2>2
<1>5. ASSUME NEW id \in Ids, NEW f \in AllFields
      PROVE  Total(id, f)' = IF id = here /\ f = e THEN Total(id, f) + 1 ELSE Total(id, f)
  <2>1. PICK g, h : g = Column(id, f) /\ h = Column(id, f)'
    OBVIOUS
  <2>2. Counts(g) /\ \A c \in Cores : g[c] = cell[id][c][f]
    BY <2>1, ColumnCounts
  <2>3. Counts(h) /\ \A c \in Cores : h[c] = cell'[id][c][f]
    BY <1>4, <2>1 DEF Column, Counts
  <2>4. CASE id = here /\ f = e
    <3>1. \A c \in Cores : h[c] = IF c = core THEN g[c] + 1 ELSE g[c]
      BY <1>3, <2>2, <2>3, <2>4
    <3>2. SumUpTo(h)[CoreCnt] = SumUpTo(g)[CoreCnt] + 1
      BY <2>2, <2>3, <3>1, SumOneMore
    <3> QED
      BY <2>1, <2>4, <3>2 DEF Total
  <2>5. CASE ~(id = here /\ f = e)
    <3>1. \A c \in Cores : h[c] = g[c]
      BY <1>3, <2>2, <2>3, <2>5
    <3>2. h = g
      BY <2>2, <2>3, <3>1 DEF Counts
    <3> QED
      BY <2>1, <2>5, <3>2 DEF Total
  <2> QED
    BY <2>4, <2>5
<1> QED
  BY <1>3, <1>4, <1>5

\* A core counts its last call into its pool.
LEMMA CoreCountsOne ==
    ASSUME SInv, NEW core \in Cores, CoreCounts(core)
    PROVE  /\ event[core] \in PoolFields /\ event[core] \in AllFields
           /\ CountsOne(PoolItem, core, event[core])
           /\ event' = [event EXCEPT ![core] = "none"] /\ calls' = calls
<1>1. /\ event[core] # "none" /\ Incr(PoolItem, core, event[core])
      /\ event' = [event EXCEPT ![core] = "none"] /\ calls' = calls /\ held' = held
  BY DEF CoreCounts, poolVars
<1>2. PICK e \in PoolFields : e = event[core]
  BY <1>1 DEF SInv, StatsTyped
<1>3. StatsTyped /\ PoolItem \in Ids /\ e \in AllFields
  BY Constants, FieldFacts DEF SInv
<1>4. Total(PoolItem, e) + 1 < Word
  <2>1. Cardinality(Busy) >= 1
    <3>1. Busy # {}
      BY <1>1 DEF Busy
    <3> QED
      BY <3>1, Finite, FS_EmptySet
  <2>2. Total(PoolItem, e) + 1 <= calls
    <3>1. Total(PoolItem, "alloc_succ") + Total(PoolItem, "alloc_fail") + Total(PoolItem, "free")
            + Cardinality(Busy) <= calls
      BY DEF SInv, Accounted
    <3>2. /\ Total(PoolItem, "alloc_succ") + 1 <= calls /\ Total(PoolItem, "alloc_fail") + 1 <= calls
          /\ Total(PoolItem, "free") + 1 <= calls
      BY <2>1, <3>1, Naturals3
    <3> QED
      BY <3>2 DEF PoolFields
  <2>3. calls \in Nat /\ calls <= MaxCalls
    BY Constants DEF SInv, StatsTyped
  <2>4. Total(PoolItem, e) \in Nat
    BY <1>3, TotalsFit
  <2> QED
    BY <2>2, <2>3, <2>4, Constants
<1>5. CountsOne(PoolItem, core, e)
  BY <1>1, <1>2, <1>3, <1>4, IncrCountsOne
<1> QED
  BY <1>1, <1>2, <1>3, <1>5

\* A core counts in another item.
LEMMA OtherCountsOne ==
    ASSUME SInv, NEW core \in Cores, NEW id \in Ids, NEW f \in AllFields,
           CoreCountsOther(core, id, f)
    PROVE  /\ id # PoolItem /\ f \in Fields(type[id]) /\ CountsOne(id, core, f)
           /\ calls' = calls + 1 /\ calls < MaxCalls /\ event' = event
<1>1. /\ id # PoolItem /\ f \in Fields(type[id]) /\ calls < MaxCalls /\ Incr(id, core, f)
      /\ calls' = calls + 1 /\ UNCHANGED <<event, held>>
  BY DEF CoreCountsOther, poolVars
<1>2. Total(id, f) \in Nat /\ Total(id, f) <= calls
  BY <1>1, ColumnCounts DEF SInv, Accounted, OthersFit
<1>3. calls \in Nat
  BY Constants DEF SInv, StatsTyped
<1>4. Total(id, f) + 1 < Word
  BY <1>1, <1>2, <1>3, Constants
<1> QED
  BY <1>1, <1>4, IncrCountsOne DEF SInv

LEMMA OtherCountsS ==
    ASSUME SInv, NEW core \in Cores, NEW here \in Ids, NEW e \in AllFields,
           CoreCountsOther(core, here, e)
    PROVE  SInv'
<1>1. /\ here # PoolItem /\ e \in Fields(type[here]) /\ CountsOne(here, core, e)
      /\ calls' = calls + 1 /\ calls < MaxCalls /\ event' = event
  BY OtherCountsOne
<1>2. UNCHANGED <<type, typeSum, sum, walk, low, held>>
  BY <1>1 DEF CountsOne
<1>3. StatsTyped /\ Counted /\ TypesAgree /\ Accounted /\ OthersFit /\ calls \in Nat
  <2>1. calls \in Nat
    BY Constants DEF SInv, StatsTyped
  <2> QED
    BY <2>1 DEF SInv, Accounted
<1>4. /\ cell' \in [Ids -> [Cores -> [AllFields -> Nat]]]
      /\ \A id \in Ids, c \in Cores, f \in AllFields :
            cell'[id][c][f] = IF id = here /\ c = core /\ f = e THEN cell[id][c][f] + 1
                              ELSE cell[id][c][f]
      /\ \A id \in Ids, f \in AllFields :
            Total(id, f)' = IF id = here /\ f = e THEN Total(id, f) + 1 ELSE Total(id, f)
  BY <1>1, <1>3, CountedTotals
<1>5. StatsTyped'
  <2>1. calls' \in 0 .. MaxCalls
    BY <1>1, <1>3, Constants
  <2> QED
    BY <1>1, <1>2, <1>3, <1>4, <2>1 DEF StatsTyped
<1>6. Counted'
  <2>1. ASSUME NEW id \in Ids, NEW c \in Cores, NEW f \in AllFields, cell'[id][c][f] # 0
        PROVE  f \in Fields(type'[id])
    <3>1. CASE id = here /\ c = core /\ f = e
      BY <1>1, <1>2, <3>1
    <3>2. CASE ~(id = here /\ c = core /\ f = e)
      <4>1. cell[id][c][f] # 0
        BY <1>4, <2>1, <3>2
      <4> QED
        BY <1>2, <1>3, <4>1 DEF Counted
    <3> QED
      BY <3>1, <3>2
  <2>2. /\ type'[PoolItem] \in {"NONE", "RESOURCE_POOL"}
        /\ \A c \in Cores : event'[c] # "none" => type'[PoolItem] = "RESOURCE_POOL"
    BY <1>1, <1>2, <1>3 DEF Counted
  <2> QED
    BY <2>1, <2>2 DEF Counted
<1>7. TypesAgree'
  BY <1>2, <1>3 DEF TypesAgree
<1>8. OthersFit'
  <2>1. ASSUME NEW id \in Ids, NEW f \in AllFields, id # PoolItem PROVE Total(id, f)' <= calls'
    <3>1. Total(id, f) \in Nat /\ Total(id, f) <= calls
      BY <1>3, <2>1, ColumnCounts DEF OthersFit
    <3>2. Total(id, f)' = Total(id, f) + 1 \/ Total(id, f)' = Total(id, f)
      BY <1>4
    <3> QED
      BY <1>1, <1>3, <3>1, <3>2
  <2> QED
    BY <2>1 DEF OthersFit
<1>9. Accounted'
  <2>1. \A f \in AllFields : Total(PoolItem, f)' = Total(PoolItem, f)
    BY <1>1, <1>4, Constants
  <2>2. Busy' = Busy /\ InUse' = InUse /\ \A x : Pending(x)' = Pending(x)
    BY <1>1, <1>2 DEF Busy, InUse, Pending
  <2> QED
    BY <1>1, <1>3, <1>8, <2>1, <2>2, FieldFacts, Naturals3 DEF Accounted
<1> QED
  BY <1>5, <1>6, <1>7, <1>9 DEF SInv

LEMMA CountsS ==
    ASSUME SInv, NEW core \in Cores, CoreCounts(core)
    PROVE  SInv'
<1>0. PICK e : e = event[core]
  OBVIOUS
<1>1. /\ e \in PoolFields /\ event[core] = e /\ e # "none" /\ e \in AllFields
      /\ CountsOne(PoolItem, core, e)
      /\ event' = [event EXCEPT ![core] = "none"]
      /\ UNCHANGED <<type, typeSum, sum, walk, low, calls, held>>
  BY <1>0, CoreCountsOne DEF CountsOne, PoolFields
<1>2. StatsTyped /\ Counted /\ TypesAgree /\ Accounted /\ PoolItem \in Ids
  BY Constants DEF SInv
<1>3. /\ cell' \in [Ids -> [Cores -> [AllFields -> Nat]]]
      /\ \A id \in Ids, c \in Cores, f \in AllFields :
            cell'[id][c][f] = IF id = PoolItem /\ c = core /\ f = e THEN cell[id][c][f] + 1
                              ELSE cell[id][c][f]
      /\ \A id \in Ids, f \in AllFields :
            Total(id, f)' = IF id = PoolItem /\ f = e THEN Total(id, f) + 1 ELSE Total(id, f)
  BY <1>1, <1>2, CountedTotals
<1>4. \A c \in Cores : event'[c] = IF c = core THEN "none" ELSE event[c]
  BY <1>1, <1>2 DEF StatsTyped
<1>5. StatsTyped' /\ Counted'
  <2>1. type[PoolItem] = "RESOURCE_POOL"
    BY <1>1, <1>2 DEF Counted
  <2>2. e \in Fields(type[PoolItem])
    BY <1>1, <2>1, FieldFacts
  <2>3. event' \in [Cores -> PoolFields \cup {"none"}]
    BY <1>1, <1>2 DEF StatsTyped
  <2>4. StatsTyped'
    BY <1>1, <1>2, <1>3, <2>3 DEF StatsTyped
  <2>5. ASSUME NEW id \in Ids, NEW c \in Cores, NEW f \in AllFields, cell'[id][c][f] # 0
        PROVE  f \in Fields(type'[id])
    <3>1. CASE id = PoolItem /\ c = core /\ f = e
      BY <1>1, <2>2, <3>1
    <3>2. CASE ~(id = PoolItem /\ c = core /\ f = e)
      <4>1. cell[id][c][f] # 0
        BY <1>3, <2>5, <3>2
      <4> QED
        BY <1>1, <1>2, <4>1 DEF Counted
    <3> QED
      BY <3>1, <3>2
  <2>6. \A c \in Cores : event'[c] # "none" => type'[PoolItem] = "RESOURCE_POOL"
    BY <1>1, <2>1
  <2>7. Counted'
    BY <1>1, <2>1, <2>5, <2>6 DEF Counted
  <2> QED
    BY <2>4, <2>7
<1>6. TypesAgree'
  BY <1>1, <1>2 DEF TypesAgree
<1>7. Accounted'
  <2>1. Busy' = Busy \ {core} /\ core \in Busy
    BY <1>1, <1>4 DEF Busy
  <2>2. Cardinality(Busy') = Cardinality(Busy) - 1
    BY <2>1, Finite, FS_RemoveElement
  <2>3. InUse' = InUse
    BY <1>1 DEF InUse
  <2>4. ASSUME NEW x \in PoolFields
        PROVE  Cardinality(Pending(x)') = IF x = e THEN Cardinality(Pending(x)) - 1
                                          ELSE Cardinality(Pending(x))
    <3>1. CASE x = e
      <4>1. Pending(x)' = Pending(x) \ {core} /\ core \in Pending(x)
        BY <1>1, <1>4, <3>1 DEF Pending
      <4>2. PICK old, new : old = Pending(x) /\ new = Pending(x)'
        OBVIOUS
      <4>3. IsFiniteSet(old) /\ new = old \ {core} /\ core \in old
        BY <4>1, <4>2, Finite
      <4>4. Cardinality(new) = Cardinality(old) - 1
        BY <4>3, FS_RemoveElement
      <4> QED
        BY <3>1, <4>2, <4>4
    <3>2. CASE x # e
      <4>1. x # "none"
        BY DEF PoolFields
      <4>2. Pending(x)' = Pending(x)
        BY <1>1, <1>4, <3>2, <4>1 DEF Pending
      <4> QED
        BY <3>2, <4>2
    <3> QED
      BY <3>1, <3>2
  <2>5. "alloc_succ" \in PoolFields /\ "free" \in PoolFields
    BY DEF PoolFields
  <2>6. OthersFit'
    <3>1. ASSUME NEW id \in Ids, NEW f \in AllFields, id # PoolItem
          PROVE  Total(id, f)' <= calls'
      <4>1. Total(id, f)' = Total(id, f)
        BY <1>3, <3>1
      <4>2. Total(id, f) <= calls
        BY <1>2, <3>1 DEF Accounted, OthersFit
      <4> QED
        BY <1>1, <4>1, <4>2
    <3> QED
      BY <3>1 DEF OthersFit
  <2>7. \A f \in AllFields :
           Total(PoolItem, f)' = IF f = e THEN Total(PoolItem, f) + 1 ELSE Total(PoolItem, f)
    BY <1>2, <1>3
  <2>8. CASE e = "alloc_succ"
    BY <1>1, <1>2, <2>2, <2>3, <2>4, <2>5, <2>6, <2>7, <2>8, Naturals3, FieldFacts DEF Accounted
  <2>9. CASE e = "alloc_fail"
    BY <1>1, <1>2, <2>2, <2>3, <2>4, <2>5, <2>6, <2>7, <2>9, Naturals3, FieldFacts DEF Accounted
  <2>10. CASE e = "free"
    BY <1>1, <1>2, <2>2, <2>3, <2>4, <2>5, <2>6, <2>7, <2>10, Naturals3, FieldFacts DEF Accounted
  <2> QED
    BY <1>1, <2>8, <2>9, <2>10 DEF PoolFields
<1> QED
  BY <1>5, <1>6, <1>7 DEF SInv
-----------------------------------------------------------------------------
(***************************************************************************)
(* The sum.  b is what the cells were when it began.  A counter that has   *)
(* been read of some of the cores lies between what those cores had then   *)
(* and what they have now.                                                 *)
(***************************************************************************)
Start(b, id, f) == [core \in Cores |-> b[id][core][f]]

\* The item has been read, or is being read.
Visited(id) ==
    \/ walk.op \in {"idle", "dup"}
    \/ id < walk.id
    \/ walk.op = "fields" /\ id = walk.id

\* Of how many cores.
Reached(id, f) ==
    IF walk.op = "fields" /\ id = walk.id
    THEN IF f \in walk.left THEN walk.core ELSE walk.core + 1
    ELSE CoreCnt

Between(b, id, f) ==
    /\ SumUpTo(Start(b, id, f))[Reached(id, f)] <= sum[id][f]
    /\ sum[id][f] <= SumUpTo(Column(id, f))[Reached(id, f)]

Bracket(b) ==
    /\ b \in [Ids -> [Cores -> [AllFields -> Nat]]]
    /\ \A id \in Ids, f \in AllFields :
          /\ \A core \in Cores : b[id][core][f] <= cell[id][core][f]
          /\ low[id][f] = SumUpTo(Start(b, id, f))[CoreCnt]
          /\ Visited(id) => Between(b, id, f)

BInv == \E b : Bracket(b)

LEMMA StartCounts ==
    ASSUME NEW b \in [Ids -> [Cores -> [AllFields -> Nat]]], NEW id \in Ids, NEW f \in AllFields
    PROVE  /\ Counts(Start(b, id, f))
           /\ \A core \in Cores : Start(b, id, f)[core] = b[id][core][f] /\ b[id][core][f] \in Nat
BY DEF Start, Counts

LEMMA ReachedIn ==
    ASSUME StatsTyped, NEW id \in Ids, NEW f \in AllFields
    PROVE  Reached(id, f) \in 0 .. CoreCnt
<1>1. walk.core \in Cores /\ walk.core \in 0 .. CoreCnt /\ walk.core + 1 \in 0 .. CoreCnt
  BY Constants DEF StatsTyped
<1> QED
  BY <1>1, Constants DEF Reached

LEMMA InitB == Init => BInv
<1> SUFFICES ASSUME Init PROVE BInv
  OBVIOUS
<1>0. SInv /\ StatsTyped
  BY InitS DEF SInv
<1>1. \A f \in AllFields : ZeroCore[f] = 0
  BY DEF ZeroCore
<1>2. PICK b : b = cell
  OBVIOUS
<1>3. b \in [Ids -> [Cores -> [AllFields -> Nat]]]
  BY <1>0, <1>2 DEF StatsTyped
<1>4. ASSUME NEW id \in Ids, NEW f \in AllFields
      PROVE  /\ \A core \in Cores : b[id][core][f] <= cell[id][core][f]
             /\ low[id][f] = SumUpTo(Start(b, id, f))[CoreCnt]
             /\ Between(b, id, f)
  <2>1. \A core \in Cores : cell[id][core][f] = 0
    BY <1>1 DEF Init, StatsInit
  <2>2. low[id][f] = 0 /\ sum[id][f] = 0
    BY <1>1 DEF Init, StatsInit
  <2>3. Counts(Start(b, id, f)) /\ \A core \in Cores : Start(b, id, f)[core] = 0
    BY <1>2, <1>3, <2>1, StartCounts
  <2>4. Counts(Column(id, f)) /\ \A core \in Cores : Column(id, f)[core] = 0
    BY <1>0, <2>1, ColumnCounts
  <2>5. SumUpTo(Start(b, id, f))[CoreCnt] = 0 /\ SumUpTo(Column(id, f))[CoreCnt] = 0
    BY <2>3, <2>4, SumOfZeros
  <2>6. Reached(id, f) = CoreCnt
    BY DEF Init, StatsInit, Idle, Reached
  <2> QED
    BY <1>2, <2>1, <2>2, <2>5, <2>6 DEF Between
<1> QED
  BY <1>3, <1>4 DEF BInv, Bracket

\* Cores count, or items are registered, while the monitor stands still.
LEMMA CellsGrow ==
    ASSUME StatsTyped, StatsTyped', BInv, UNCHANGED <<sum, low, walk>>,
           \A id \in Ids, c \in Cores, f \in AllFields : cell[id][c][f] <= cell'[id][c][f]
    PROVE  BInv'
<1>1. PICK b : Bracket(b)
  BY DEF BInv
<1>2. b \in [Ids -> [Cores -> [AllFields -> Nat]]]
  BY <1>1 DEF Bracket
<1>3. ASSUME NEW id \in Ids, NEW f \in AllFields
      PROVE  /\ \A core \in Cores : b[id][core][f] <= cell'[id][core][f]
             /\ low'[id][f] = SumUpTo(Start(b, id, f))[CoreCnt]
             /\ Visited(id)' => Between(b, id, f)'
  <2>1. /\ \A core \in Cores : b[id][core][f] <= cell[id][core][f]
        /\ low[id][f] = SumUpTo(Start(b, id, f))[CoreCnt]
        /\ Visited(id) => Between(b, id, f)
    BY <1>1 DEF Bracket
  <2>2. PICK g, h : g = Column(id, f) /\ h = Column(id, f)'
    OBVIOUS
  <2>3. Counts(g) /\ \A c \in Cores : g[c] = cell[id][c][f] /\ g[c] \in Nat
    BY <2>2, ColumnCounts
  <2>4. Counts(h) /\ \A c \in Cores : h[c] = cell'[id][c][f] /\ h[c] \in Nat
    BY <2>2 DEF StatsTyped, Column, Counts
  <2>5. \A c \in Cores : g[c] <= h[c]
    BY <2>3, <2>4
  <2>6. \A n \in 0 .. CoreCnt : SumUpTo(g)[n] <= SumUpTo(h)[n]
    BY <2>3, <2>4, <2>5, SumsMonotone
  <2>7. PICK n \in 0 .. CoreCnt : n = Reached(id, f)
    BY ReachedIn
  <2>8. Reached(id, f)' = n /\ (Visited(id)' <=> Visited(id))
    BY <2>7 DEF Reached, Visited
  <2>9. SumUpTo(g)[n] \in Nat /\ SumUpTo(h)[n] \in Nat /\ SumUpTo(g)[n] <= SumUpTo(h)[n]
    BY <2>3, <2>4, <2>6, SumFacts
  <2>10. sum[id][f] \in Nat
    BY DEF StatsTyped
  <2>11. ASSUME Visited(id) PROVE Between(b, id, f)'
    <3>1. SumUpTo(Start(b, id, f))[n] <= sum[id][f] /\ sum[id][f] <= SumUpTo(g)[n]
      BY <2>1, <2>2, <2>7, <2>11 DEF Between
    <3>2. sum[id][f] <= SumUpTo(h)[n]
      BY <2>9, <2>10, <3>1
    <3> QED
      BY <2>2, <2>8, <3>1, <3>2 DEF Between
  <2>12. \A core \in Cores : b[id][core][f] <= cell'[id][core][f]
    <3>1. \A core \in Cores : b[id][core][f] \in Nat
      BY <1>2
    <3> QED
      BY <2>1, <2>3, <2>4, <2>5, <3>1
  <2> QED
    BY <2>1, <2>8, <2>11, <2>12
<1> QED
  BY <1>2, <1>3 DEF BInv, Bracket

\* The monitor moves on without reading.
LEMMA MovesOn ==
    ASSUME NEW b, Bracket(b), UNCHANGED <<cell, sum, low>>,
           \A id \in Ids, f \in AllFields :
              Visited(id)' => Visited(id) /\ Reached(id, f)' = Reached(id, f)
    PROVE  Bracket(b)'
<1>1. b \in [Ids -> [Cores -> [AllFields -> Nat]]]
  BY DEF Bracket
<1>2. ASSUME NEW id \in Ids, NEW f \in AllFields
      PROVE  /\ \A core \in Cores : b[id][core][f] <= cell'[id][core][f]
             /\ low'[id][f] = SumUpTo(Start(b, id, f))[CoreCnt]
             /\ Visited(id)' => Between(b, id, f)'
  <2>1. /\ \A core \in Cores : b[id][core][f] <= cell[id][core][f]
        /\ low[id][f] = SumUpTo(Start(b, id, f))[CoreCnt]
        /\ Visited(id) => Between(b, id, f)
    BY DEF Bracket
  <2>2. Column(id, f)' = Column(id, f)
    BY DEF Column
  <2>3. Visited(id)' => Visited(id) /\ Reached(id, f)' = Reached(id, f)
    OBVIOUS
  <2> QED
    BY <2>1, <2>2, <2>3 DEF Between
<1> QED
  BY <1>1, <1>2 DEF Bracket

\* A counter that an item of this type does not have is 0, so it need not be read.
LEMMA NothingToRead ==
    ASSUME SInv, NEW b, Bracket(b), NEW id \in Ids, NEW f \in AllFields, NEW c \in Cores,
           f \notin Fields(type[id])
    PROVE  /\ SumUpTo(Start(b, id, f))[c + 1] = SumUpTo(Start(b, id, f))[c]
           /\ SumUpTo(Column(id, f))[c + 1] = SumUpTo(Column(id, f))[c]
<1>1. b \in [Ids -> [Cores -> [AllFields -> Nat]]] /\ b[id][c][f] <= cell[id][c][f]
  BY DEF Bracket
<1>2. cell[id][c][f] = 0
  BY DEF SInv, Counted
<1>3. Counts(Start(b, id, f)) /\ Start(b, id, f)[c] = 0
  BY <1>1, <1>2, StartCounts
<1>4. Counts(Column(id, f)) /\ Column(id, f)[c] = 0
  BY <1>2, ColumnCounts DEF SInv
<1>5. c \in 0 .. CoreCnt
  BY Constants
<1>6. /\ SumUpTo(Start(b, id, f))[c + 1] = SumUpTo(Start(b, id, f))[c] + 0
      /\ SumUpTo(Start(b, id, f))[c] \in Nat
  BY <1>3, <1>5, SumFacts
<1>7. /\ SumUpTo(Column(id, f))[c + 1] = SumUpTo(Column(id, f))[c] + 0
      /\ SumUpTo(Column(id, f))[c] \in Nat
  BY <1>4, <1>5, SumFacts
<1> QED
  BY <1>6, <1>7

\* What a step of the monitor leaves alone.
LEMMA MonitorLeaves ==
    ASSUME SInv, StatsTyped', TypesAgree', UNCHANGED <<type, cell, event, calls, held>>
    PROVE  SInv'
<1>1. Counted'
  BY DEF SInv, Counted
<1>2. Accounted'
  BY SameAccounts DEF SInv
<1> QED
  BY <1>1, <1>2 DEF SInv

Walks == [op : {"idle", "dup", "item", "fields"}, id : 0 .. MaxId, core : Cores, left : SUBSET AllFields]

LEMMA DupS ==
    ASSUME SInv, BInv, DupBegin \/ DupItem \/ DupEnd, UNCHANGED <<event, calls, held>>
    PROVE  SInv' /\ BInv'
<1>0. StatsTyped /\ TypesAgree /\ walk \in Walks
  BY DEF SInv, StatsTyped, Walks
<1>1. UNCHANGED <<type, cell, sum, low>>
  BY DEF DupBegin, DupItem, DupEnd
<1>2. /\ walk.op \in {"idle", "dup"} /\ walk'.op \in {"idle", "dup"}
      /\ walk' \in Walks /\ (walk'.op = "idle" => walk' = Idle)
  <2>1. CASE DupBegin
    BY <2>1, <1>0, Constants DEF DupBegin, Idle, Walks
  <2>2. CASE DupItem
    BY <2>2, <1>0, Constants DEF DupItem, Walks
  <2>3. CASE DupEnd
    BY <2>3, <1>0, Constants DEF DupEnd, Idle, Walks
  <2> QED
    BY <2>1, <2>2, <2>3
<1>3. typeSum' \in [Ids -> Types] /\ TypesAgree'
  <2>1. CASE DupItem
    <3>1. /\ walk.id \in Ids /\ typeSum' = [typeSum EXCEPT ![walk.id] = type[walk.id]]
          /\ UNCHANGED type
      BY <2>1, <1>0, Constants DEF DupItem, Walks
    <3> QED
      BY <1>0, <3>1 DEF StatsTyped, TypesAgree
  <2>2. CASE DupBegin \/ DupEnd
    <3>1. UNCHANGED <<type, typeSum>>
      BY <2>2 DEF DupBegin, DupEnd
    <3> QED
      BY <1>0, <3>1 DEF StatsTyped, TypesAgree
  <2> QED
    BY <2>1, <2>2
<1>4. StatsTyped'
  BY <1>0, <1>1, <1>2, <1>3 DEF StatsTyped, Walks
<1>5. PICK b : Bracket(b)
  BY DEF BInv
<1>6. \A id \in Ids, f \in AllFields :
        Visited(id)' => Visited(id) /\ Reached(id, f)' = Reached(id, f)
  BY <1>2 DEF Visited, Reached
<1>7. BInv'
  BY <1>1, <1>5, <1>6, MovesOn DEF BInv
<1> QED
  BY <1>1, <1>3, <1>4, <1>7, MonitorLeaves

LEMMA SumBeginS ==
    ASSUME SInv, BInv, SumBegin, UNCHANGED <<event, calls, held>>
    PROVE  SInv' /\ BInv'
<1>0. StatsTyped /\ TypesAgree
  BY DEF SInv
<1>1. /\ low' = Totals /\ UNCHANGED <<type, typeSum, cell, sum>>
      /\ walk' = [op |-> "item", id |-> 0, core |-> 0, left |-> {}]
  BY DEF SumBegin, Idle
<1>2. walk' \in Walks /\ walk'.op = "item" /\ walk'.id = 0
  BY <1>1, Constants DEF Walks
<1>3. low' \in [Ids -> [AllFields -> Nat]]
  BY <1>0, <1>1, ColumnCounts DEF Totals
<1>4. StatsTyped'
  BY <1>0, <1>1, <1>2, <1>3 DEF StatsTyped, Walks
<1>5. TypesAgree'
  BY <1>0, <1>1 DEF TypesAgree
<1>6. PICK b : b = cell
  OBVIOUS
<1>7. b \in [Ids -> [Cores -> [AllFields -> Nat]]]
  BY <1>0, <1>6 DEF StatsTyped
<1>8. ASSUME NEW id \in Ids, NEW f \in AllFields
      PROVE  /\ \A core \in Cores : b[id][core][f] <= cell'[id][core][f]
             /\ low'[id][f] = SumUpTo(Start(b, id, f))[CoreCnt]
             /\ ~Visited(id)'
  <2>1. \A core \in Cores : b[id][core][f] <= cell'[id][core][f]
    BY <1>0, <1>1, <1>6, ColumnCounts
  <2>2. Start(b, id, f) = Column(id, f)
    BY <1>6 DEF Start, Column
  <2>3. low'[id][f] = SumUpTo(Start(b, id, f))[CoreCnt]
    BY <1>1, <2>2 DEF Totals, Total
  <2>4. ~Visited(id)'
    BY <1>2, Constants DEF Visited
  <2> QED
    BY <2>1, <2>3, <2>4
<1>9. BInv'
  BY <1>7, <1>8 DEF BInv, Bracket
<1> QED
  BY <1>1, <1>4, <1>5, <1>9, MonitorLeaves

LEMMA SumItemS ==
    ASSUME SInv, BInv, SumItem, UNCHANGED <<event, calls, held>>
    PROVE  SInv' /\ BInv'
<1>0. StatsTyped /\ TypesAgree /\ walk \in Walks
  BY DEF SInv, StatsTyped, Walks
<1>1. PICK here \in Ids : here = walk.id
  BY <1>0, Constants DEF SumItem, Walks
<1>2. /\ walk.op = "item"
      /\ sum' = [sum EXCEPT ![here] = ZeroCore]
      /\ walk' = [op |-> "fields", id |-> here, core |-> 0, left |-> Fields(type[here])]
      /\ UNCHANGED <<type, typeSum, cell, low>>
  BY <1>1 DEF SumItem, Reading
<1>3. Fields(type[here]) \subseteq AllFields
  BY <1>0, FieldFacts DEF StatsTyped
<1>4. /\ walk' \in Walks /\ walk'.op = "fields" /\ walk'.id = here /\ walk'.core = 0
      /\ walk'.left = Fields(type[here])
  BY <1>2, <1>3, Constants DEF Walks
<1>5. ZeroCore \in [AllFields -> Nat] /\ \A f \in AllFields : ZeroCore[f] = 0
  BY DEF ZeroCore
<1>6. sum' \in [Ids -> [AllFields -> Nat]]
  BY <1>0, <1>2, <1>5 DEF StatsTyped
<1>7. \A id \in Ids : sum'[id] = IF id = here THEN ZeroCore ELSE sum[id]
  BY <1>0, <1>2 DEF StatsTyped
<1>8. StatsTyped'
  <2>1. walk'.id < MaxId
    BY <1>4, Constants
  <2> QED
    BY <1>0, <1>2, <1>4, <1>6, <2>1 DEF StatsTyped, Walks
<1>9. TypesAgree'
  BY <1>0, <1>2 DEF TypesAgree
<1>10. PICK b : Bracket(b)
  BY DEF BInv
<1>11. b \in [Ids -> [Cores -> [AllFields -> Nat]]]
  BY <1>10 DEF Bracket
<1>12. ASSUME NEW id \in Ids, NEW f \in AllFields
       PROVE  /\ \A core \in Cores : b[id][core][f] <= cell'[id][core][f]
              /\ low'[id][f] = SumUpTo(Start(b, id, f))[CoreCnt]
              /\ Visited(id)' => Between(b, id, f)'
  <2>1. /\ \A core \in Cores : b[id][core][f] <= cell[id][core][f]
        /\ low[id][f] = SumUpTo(Start(b, id, f))[CoreCnt]
        /\ Visited(id) => Between(b, id, f)
    BY <1>10 DEF Bracket
  <2>2. Column(id, f)' = Column(id, f)
    BY <1>2 DEF Column
  <2>3. ASSUME id = here PROVE Between(b, id, f)'
    <3>1. Counts(Start(b, id, f)) /\ Counts(Column(id, f))
      BY <1>0, <1>11, StartCounts, ColumnCounts
    <3>2. SumUpTo(Start(b, id, f))[0] = 0 /\ SumUpTo(Column(id, f))[0] = 0
      BY <3>1, SumFacts
    <3>3. sum'[id][f] = 0
      BY <1>5, <1>7, <2>3
    <3>4. CASE f \in Fields(type[here])
      <4>1. Reached(id, f)' = 0
        BY <1>4, <2>3, <3>4 DEF Reached
      <4> QED
        BY <2>2, <3>2, <3>3, <4>1 DEF Between
    <3>5. CASE f \notin Fields(type[here])
      <4>1. Reached(id, f)' = 0 + 1
        BY <1>4, <2>3, <3>5 DEF Reached
      <4>2. SumUpTo(Start(b, id, f))[0 + 1] = 0 /\ SumUpTo(Column(id, f))[0 + 1] = 0
        BY <1>10, <2>3, <3>2, <3>5, Constants, NothingToRead
      <4> QED
        BY <2>2, <3>3, <4>1, <4>2 DEF Between
    <3> QED
      BY <3>4, <3>5
  <2>4. ASSUME id # here, Visited(id)' PROVE Between(b, id, f)'
    <3>1. Visited(id) /\ Reached(id, f)' = Reached(id, f)
      BY <1>1, <1>2, <1>4, <2>4 DEF Visited, Reached
    <3>2. sum'[id] = sum[id]
      BY <1>7, <2>4
    <3> QED
      BY <2>1, <2>2, <3>1, <3>2 DEF Between
  <2> QED
    BY <1>2, <2>1, <2>3, <2>4
<1>13. BInv'
  BY <1>11, <1>12 DEF BInv, Bracket
<1> QED
  BY <1>2, <1>8, <1>9, <1>13, MonitorLeaves

LEMMA SumCoreS ==
    ASSUME SInv, BInv, SumCore, UNCHANGED <<event, calls, held>>
    PROVE  SInv' /\ BInv'
<1>0. StatsTyped /\ TypesAgree /\ walk \in Walks
  BY DEF SInv, StatsTyped, Walks
<1>1. PICK here, at : here = walk.id /\ at = walk.core
  OBVIOUS
<1>2. /\ walk.op = "fields" /\ walk.left = {} /\ UNCHANGED <<type, typeSum, cell, sum, low>>
      /\ walk' = IF at + 1 < CoreCnt THEN Reading(here, at + 1)
                 ELSE [op |-> "item", id |-> here + 1, core |-> 0, left |-> {}]
  <2>1. [Idle EXCEPT !.op = "item", !.id = here + 1]
          = [op |-> "item", id |-> here + 1, core |-> 0, left |-> {}]
    <3>1. PICK r : r = [op |-> "item", id |-> 0, core |-> 0, left |-> {}]
      OBVIOUS
    <3>2. [Idle EXCEPT !.op = "item"] = r
      BY <3>1 DEF Idle
    <3>3. [r EXCEPT !.id = here + 1] = [op |-> "item", id |-> here + 1, core |-> 0, left |-> {}]
      BY <3>1
    <3> QED
      BY <3>2, <3>3
  <2> QED
    BY <1>1, <2>1 DEF SumCore
<1>3. here \in Ids /\ at \in Cores
  BY <1>0, <1>1, <1>2, Constants DEF StatsTyped, Walks
<1>4. PICK b : Bracket(b)
  BY DEF BInv
<1>5. TypesAgree'
  BY <1>0, <1>2 DEF TypesAgree
<1>6. CASE at + 1 < CoreCnt
  <2>1. walk' = [op |-> "fields", id |-> here, core |-> at + 1, left |-> Fields(type[here])]
    BY <1>2, <1>6 DEF Reading
  <2>2. at + 1 \in Cores /\ Fields(type[here]) \subseteq AllFields /\ here < MaxId /\ here \in 0 .. MaxId
    BY <1>0, <1>3, <1>6, Constants, FieldFacts DEF StatsTyped
  <2>3. /\ walk' \in Walks /\ walk'.op = "fields" /\ walk'.id = here /\ walk'.core = at + 1
        /\ walk'.left = Fields(type[here])
    BY <2>1, <2>2 DEF Walks
  <2>4. StatsTyped'
    BY <1>0, <1>2, <2>2, <2>3 DEF StatsTyped, Walks
  <2>5. ASSUME NEW id \in Ids, NEW f \in AllFields
        PROVE  /\ \A core \in Cores : b[id][core][f] <= cell'[id][core][f]
               /\ low'[id][f] = SumUpTo(Start(b, id, f))[CoreCnt]
               /\ Visited(id)' => Between(b, id, f)'
    <3>1. /\ \A core \in Cores : b[id][core][f] <= cell[id][core][f]
          /\ low[id][f] = SumUpTo(Start(b, id, f))[CoreCnt]
          /\ Visited(id) => Between(b, id, f)
      BY <1>4 DEF Bracket
    <3>2. Column(id, f)' = Column(id, f)
      BY <1>2 DEF Column
    <3>3. Visited(id)' <=> Visited(id)
      BY <1>1, <1>2, <2>3 DEF Visited
    <3>4. CASE Reached(id, f)' = Reached(id, f)
      BY <1>2, <3>1, <3>2, <3>3, <3>4 DEF Between
    <3>5. CASE id = here /\ f \notin Fields(type[here])
      <4>1. Reached(id, f) = at + 1 /\ Reached(id, f)' = (at + 1) + 1
        BY <1>1, <1>2, <2>3, <3>5 DEF Reached
      <4>2. /\ SumUpTo(Start(b, id, f))[(at + 1) + 1] = SumUpTo(Start(b, id, f))[at + 1]
            /\ SumUpTo(Column(id, f))[(at + 1) + 1] = SumUpTo(Column(id, f))[at + 1]
        BY <1>4, <2>2, <3>5, NothingToRead
      <4> QED
        BY <1>2, <3>1, <3>2, <3>3, <4>1, <4>2 DEF Between
    <3>6. id # here \/ f \in Fields(type[here]) => Reached(id, f)' = Reached(id, f)
      BY <1>1, <1>2, <2>3 DEF Reached
    <3> QED
      BY <1>2, <3>1, <3>4, <3>5, <3>6
  <2>6. BInv'
    BY <1>4, <2>5 DEF BInv, Bracket
  <2> QED
    BY <1>2, <1>5, <2>4, <2>6, MonitorLeaves
<1>7. CASE ~(at + 1 < CoreCnt)
  <2>1. at + 1 = CoreCnt /\ here + 1 \in 0 .. MaxId /\ here \in Nat
    BY <1>3, <1>7, Constants
  <2>2. walk' = [op |-> "item", id |-> here + 1, core |-> 0, left |-> {}]
    BY <1>2, <1>7
  <2>3. walk' \in Walks /\ walk'.op = "item" /\ walk'.id = here + 1
    BY <2>1, <2>2, Constants DEF Walks
  <2>4. StatsTyped'
    BY <1>0, <1>2, <2>3 DEF StatsTyped, Walks
  <2>5. ASSUME NEW id \in Ids, NEW f \in AllFields, Visited(id)'
        PROVE  Visited(id) /\ Reached(id, f)' = Reached(id, f)
    <3>1. id < here + 1 /\ id \in Nat
      BY <2>3, <2>5, Constants DEF Visited
    <3>2. id < here \/ id = here
      BY <2>1, <3>1
    <3> QED
      BY <1>1, <1>2, <2>1, <2>3, <3>2 DEF Visited, Reached
  <2>6. BInv'
    BY <1>2, <1>4, <2>5, MovesOn DEF BInv
  <2> QED
    BY <1>2, <1>5, <2>4, <2>6, MonitorLeaves
<1> QED
  BY <1>6, <1>7

LEMMA SumFieldS ==
    ASSUME SInv, BInv, NEW f0 \in AllFields, SumField(f0), UNCHANGED <<event, calls, held>>
    PROVE  SInv' /\ BInv'
<1>0. StatsTyped /\ TypesAgree /\ walk \in Walks
  BY DEF SInv, StatsTyped, Walks
<1>1. PICK here, at : here = walk.id /\ at = walk.core
  OBVIOUS
<1>2. /\ walk.op = "fields" /\ f0 \in walk.left /\ UNCHANGED <<type, typeSum, cell, low>>
      /\ sum' = [sum EXCEPT ![here][f0] = (sum[here][f0] + cell[here][at][f0]) % Word]
      /\ walk' = [walk EXCEPT !.left = walk.left \ {f0}]
  BY <1>1 DEF SumField
<1>3. here \in Ids /\ at \in Cores /\ at \in 0 .. CoreCnt /\ at + 1 \in 0 .. CoreCnt
  <2>1. here < MaxId /\ here \in 0 .. MaxId /\ at \in Cores
    BY <1>0, <1>1, <1>2 DEF StatsTyped, Walks
  <2> QED
    BY <2>1, Constants
<1>4. PICK b : Bracket(b)
  BY DEF BInv
<1>5. PICK old, more : old = sum[here][f0] /\ more = cell[here][at][f0]
  OBVIOUS
<1>6. old \in Nat /\ more \in Nat
  BY <1>0, <1>3, <1>5 DEF StatsTyped
<1>7. PICK g, h : g = Start(b, here, f0) /\ h = Column(here, f0)
  OBVIOUS
<1>8. /\ Counts(g) /\ Counts(h) /\ h[at] = more /\ g[at] \in Nat /\ g[at] <= more
      /\ low[here][f0] = SumUpTo(g)[CoreCnt]
      /\ SumUpTo(g)[at] <= old /\ old <= SumUpTo(h)[at]
  <2>1. /\ b \in [Ids -> [Cores -> [AllFields -> Nat]]]
        /\ \A core \in Cores : b[here][core][f0] <= cell[here][core][f0]
        /\ low[here][f0] = SumUpTo(Start(b, here, f0))[CoreCnt]
        /\ Visited(here) => Between(b, here, f0)
    BY <1>3, <1>4 DEF Bracket
  <2>2. Visited(here) /\ Reached(here, f0) = at
    BY <1>1, <1>2 DEF Visited, Reached
  <2>3. Counts(g) /\ g[at] = b[here][at][f0] /\ g[at] \in Nat
    BY <1>3, <1>7, <2>1, StartCounts
  <2>4. Counts(h) /\ h[at] = more
    BY <1>0, <1>3, <1>5, <1>7, ColumnCounts
  <2> QED
    BY <1>3, <1>5, <1>7, <2>1, <2>2, <2>3, <2>4 DEF Between
<1>9. /\ SumUpTo(g)[at + 1] = SumUpTo(g)[at] + g[at] /\ SumUpTo(g)[at] \in Nat
      /\ SumUpTo(h)[at + 1] = SumUpTo(h)[at] + more /\ SumUpTo(h)[at] \in Nat
  BY <1>3, <1>8, SumFacts
<1>10. SumUpTo(g)[at + 1] <= old + more /\ old + more <= SumUpTo(h)[at + 1]
  BY <1>6, <1>8, <1>9
<1>11. (old + more) % Word = old + more
  <2>1. SumUpTo(h)[at + 1] <= SumUpTo(h)[CoreCnt]
    BY <1>3, <1>8, SumsGrow
  <2>2. SumUpTo(h)[CoreCnt] \in Nat /\ SumUpTo(h)[CoreCnt] <= MaxCalls
    BY <1>3, <1>7, TotalsFit DEF Total
  <2>3. old + more < Word /\ old + more \in Nat
    BY <1>6, <1>9, <1>10, <2>1, <2>2, Constants
  <2> QED
    BY <2>3, Constants, ModSmall
<1>12. /\ sum' \in [Ids -> [AllFields -> Nat]]
       /\ sum'[here][f0] = old + more
       /\ \A id \in Ids, f \in AllFields : id # here \/ f # f0 => sum'[id][f] = sum[id][f]
  <2>1. sum' = [sum EXCEPT ![here][f0] = old + more]
    BY <1>2, <1>5, <1>11
  <2>2. old + more \in Nat /\ sum \in [Ids -> [AllFields -> Nat]]
    BY <1>0, <1>6 DEF StatsTyped
  <2>3. [sum[here] EXCEPT ![f0] = old + more] \in [AllFields -> Nat]
    BY <1>3, <2>2
  <2> QED
    BY <1>3, <2>1, <2>2, <2>3
<1>13. /\ walk' \in Walks /\ walk'.op = "fields" /\ walk'.id = here /\ walk'.core = at
       /\ walk'.left = walk.left \ {f0}
  BY <1>0, <1>1, <1>2 DEF Walks
<1>14. StatsTyped'
  <2>1. walk'.id < MaxId
    BY <1>3, <1>13, Constants
  <2> QED
    BY <1>0, <1>2, <1>12, <1>13, <2>1 DEF StatsTyped, Walks
<1>15. TypesAgree'
  BY <1>0, <1>2 DEF TypesAgree
<1>16. ASSUME NEW id \in Ids, NEW f \in AllFields
       PROVE  /\ \A core \in Cores : b[id][core][f] <= cell'[id][core][f]
              /\ low'[id][f] = SumUpTo(Start(b, id, f))[CoreCnt]
              /\ Visited(id)' => Between(b, id, f)'
  <2>1. /\ \A core \in Cores : b[id][core][f] <= cell[id][core][f]
        /\ low[id][f] = SumUpTo(Start(b, id, f))[CoreCnt]
        /\ Visited(id) => Between(b, id, f)
    BY <1>4 DEF Bracket
  <2>2. Column(id, f)' = Column(id, f)
    BY <1>2 DEF Column
  <2>3. Visited(id)' <=> Visited(id)
    BY <1>1, <1>2, <1>13 DEF Visited
  <2>4. CASE id = here /\ f = f0
    <3>1. Reached(id, f)' = at + 1
      BY <1>13, <2>4 DEF Reached
    <3> QED
      BY <1>2, <1>7, <1>10, <1>12, <2>1, <2>2, <2>4, <3>1 DEF Between
  <2>5. CASE id # here \/ f # f0
    <3>1. Reached(id, f)' = Reached(id, f)
      BY <1>1, <1>2, <1>13, <2>5 DEF Reached
    <3>2. sum'[id][f] = sum[id][f]
      BY <1>12, <2>5
    <3> QED
      BY <1>2, <2>1, <2>2, <2>3, <3>1, <3>2 DEF Between
  <2> QED
    BY <2>4, <2>5
<1>17. BInv'
  <2>1. b \in [Ids -> [Cores -> [AllFields -> Nat]]]
    BY <1>4 DEF Bracket
  <2> QED
    BY <1>16, <2>1 DEF BInv, Bracket
<1> QED
  BY <1>2, <1>14, <1>15, <1>17, MonitorLeaves

LEMMA SumEndS ==
    ASSUME SInv, BInv, SumEnd, UNCHANGED <<event, calls, held>>
    PROVE  SInv' /\ BInv'
<1>0. StatsTyped /\ TypesAgree
  BY DEF SInv
<1>1. /\ walk.op = "item" /\ walk.id = MaxId /\ UNCHANGED <<type, typeSum, cell, sum, low>>
      /\ walk' = Idle
  BY DEF SumEnd
<1>2. walk' \in Walks /\ walk'.op = "idle"
  BY <1>1, Constants DEF Walks, Idle
<1>3. StatsTyped'
  BY <1>0, <1>1, <1>2 DEF StatsTyped, Walks
<1>4. TypesAgree'
  BY <1>0, <1>1 DEF TypesAgree
<1>5. PICK b : Bracket(b)
  BY DEF BInv
<1>6. \A id \in Ids, f \in AllFields :
        Visited(id)' => Visited(id) /\ Reached(id, f)' = Reached(id, f)
  BY <1>1, <1>2, Constants DEF Visited, Reached
<1>7. BInv'
  BY <1>1, <1>5, <1>6, MovesOn DEF BInv
<1> QED
  BY <1>1, <1>3, <1>4, <1>7, MonitorLeaves

LEMMA MonitorS ==
    ASSUME SInv, BInv, Monitor
    PROVE  SInv' /\ BInv'
<1>1. MonitorStep /\ UNCHANGED <<event, calls, held>>
  BY DEF Monitor, poolVars
<1>2. CASE DupBegin \/ DupItem \/ DupEnd
  BY <1>1, <1>2, DupS
<1>3. CASE SumBegin
  BY <1>1, <1>3, SumBeginS
<1>4. CASE SumItem
  BY <1>1, <1>4, SumItemS
<1>5. CASE SumCore
  BY <1>1, <1>5, SumCoreS
<1>6. CASE SumEnd
  BY <1>1, <1>6, SumEndS
<1>7. ASSUME NEW f \in AllFields, SumField(f) PROVE SInv' /\ BInv'
  BY <1>1, <1>7, SumFieldS
<1> QED
  BY <1>1, <1>2, <1>3, <1>4, <1>5, <1>6, <1>7 DEF MonitorStep

\* A step in which cores call or items are registered.
LEMMA CellsStay ==
    ASSUME SInv, SInv', BInv, UNCHANGED <<cell, sum, low, walk>>
    PROVE  BInv'
<1>1. StatsTyped /\ StatsTyped'
  BY DEF SInv
<1>2. \A id \in Ids, c \in Cores, f \in AllFields : cell[id][c][f] <= cell'[id][c][f]
  BY <1>1, ColumnCounts
<1> QED
  BY <1>1, <1>2, CellsGrow

LEMMA NextS == PoolInv /\ SInv /\ BInv /\ [Next]_vars => SInv' /\ BInv'
<1> SUFFICES ASSUME PoolInv, SInv, BInv, [Next]_vars PROVE SInv' /\ BInv'
  OBVIOUS
<1>1. ASSUME NEW id \in Ids, NEW t \in ItemTypes, Register(id, t) PROVE SInv' /\ BInv'
  <2>1. SInv'
    BY <1>1, RegisterS
  <2>2. UNCHANGED <<cell, sum, low, walk>>
    BY <1>1 DEF Register, AddItem
  <2> QED
    BY <2>1, <2>2, CellsStay
<1>2. ASSUME NEW core \in Cores, CoreAllocs(core) \/ CoreIsRefused(core) \/ CoreFrees(core)
      PROVE  SInv' /\ BInv'
  <2>1. SInv'
    BY <1>2, AllocsS, RefusedS, FreesS
  <2>2. UNCHANGED <<cell, sum, low, walk>>
    BY <1>2 DEF CoreAllocs, CoreIsRefused, CoreFrees, Called, statsVars
  <2> QED
    BY <2>1, <2>2, CellsStay
<1>3. ASSUME NEW core \in Cores, NEW id \in Ids, NEW f \in AllFields,
             SInv', CountsOne(id, core, f)
      PROVE  BInv'
  <2>1. UNCHANGED <<sum, low, walk>>
    BY <1>3 DEF CountsOne
  <2>2. StatsTyped /\ StatsTyped'
    BY <1>3 DEF SInv
  <2>3. \A x \in Ids, c \in Cores, y \in AllFields : cell[x][c][y] <= cell'[x][c][y]
    BY <1>3, <2>2, CountedTotals, ColumnCounts
  <2> QED
    BY <2>1, <2>2, <2>3, CellsGrow
<1>4. ASSUME NEW core \in Cores, CoreCounts(core) PROVE SInv' /\ BInv'
  <2>1. SInv'
    BY <1>4, CountsS
  <2> QED
    BY <1>3, <1>4, <2>1, CoreCountsOne, Constants
<1>5. ASSUME NEW core \in Cores, NEW id \in Ids, NEW f \in AllFields,
             CoreCountsOther(core, id, f)
      PROVE  SInv' /\ BInv'
  <2>1. SInv'
    BY <1>5, OtherCountsS
  <2> QED
    BY <1>3, <1>5, <2>1, OtherCountsOne
<1>6. ASSUME MonitorCard \/ CardCounts \/ UNCHANGED vars PROVE SInv' /\ BInv'
  <2>1. UNCHANGED <<type, typeSum, cell, sum, low, walk, event, calls, held>>
    BY <1>6 DEF MonitorCard, CardCounts, vars, statsVars, poolVars, ownVars
  <2>2. StatsTyped' /\ TypesAgree'
    BY <2>1 DEF SInv, StatsTyped, TypesAgree
  <2>3. SInv'
    BY <2>1, <2>2, MonitorLeaves
  <2> QED
    BY <2>1, <2>3, CellsStay
<1> QED
  BY <1>1, <1>2, <1>4, <1>5, <1>6, MonitorS DEF Next

LEMMA StatsInvariant == Spec => [](SInv /\ BInv)
<1>1. Init => PoolInv
  BY PoolInitInv DEF Init
<1>2. Spec => []PoolInv
  BY <1>1, NextPool, PTL DEF Spec
<1> QED
  BY <1>2, InitS, InitB, NextS, PTL DEF Spec

(***************************************************************************)
(* A finished sum lies between the totals when it began and those now,     *)
(* whatever the cores counted and whatever was registered meanwhile, as    *)
(* long as no counter wraps (stats.c:76-110).                              *)
(***************************************************************************)
THEOREM SumsAreBracketed == Spec => []SumBracketed
<1>1. SInv /\ BInv => SumBracketed
  <2> SUFFICES ASSUME SInv, BInv, walk.op = "idle", NEW id \in Ids, NEW f \in AllFields
               PROVE  low[id][f] <= sum[id][f] /\ sum[id][f] <= Total(id, f)
    BY DEF SumBracketed
  <2>1. PICK b : Bracket(b)
    BY DEF BInv
  <2>2. Visited(id) /\ Reached(id, f) = CoreCnt
    BY DEF Visited, Reached
  <2> QED
    BY <2>1, <2>2 DEF Bracket, Between, Total
<1> QED
  BY <1>1, StatsInvariant, PTL

(***************************************************************************)
(* The monitor's copy of the items never has one under another type        *)
(* (stats.c:37-74).                                                        *)
(***************************************************************************)
THEOREM CopiesAgree == Spec => []TypesAgree
BY StatsInvariant, PTL DEF SInv

LEMMA ModShift ==
    ASSUME NEW x \in Int, NEW w \in Nat, -w < x, x < w
    PROVE  (x + w) % w = x % w
OBVIOUS

(***************************************************************************)
(* CONCURR from a finished sum is the number of objects in use but for the *)
(* calls the sum has missed, allocations on one side and frees on the      *)
(* other (stats.c:76-130 with the counters of mempool.c:37-58).            *)
(***************************************************************************)
THEOREM InUseIsReported == Spec => []InUseReported
<1>1. SInv /\ SumBracketed => InUseReported
  <2> SUFFICES ASSUME SInv, SumBracketed, walk = Idle
               PROVE  \E d \in -Missing("alloc_succ") .. Missing("free") :
                         Concurr(sum[PoolItem]) = (Cardinality(InUse) + d) % Word
    BY DEF InUseReported
  <2>1. PoolItem \in Ids /\ "alloc_succ" \in AllFields /\ "free" \in AllFields /\ walk.op = "idle"
    BY Constants, FieldFacts DEF Idle
  <2>2. ASSUME NEW f \in AllFields
        PROVE  /\ low[PoolItem][f] \in Nat /\ sum[PoolItem][f] \in Nat /\ Total(PoolItem, f) \in Nat
               /\ low[PoolItem][f] <= sum[PoolItem][f]
               /\ sum[PoolItem][f] <= Total(PoolItem, f) /\ Total(PoolItem, f) <= MaxCalls
    BY <2>1, <2>2, TotalsFit DEF SInv, StatsTyped, SumBracketed
  <2>3. PICK s, f : s = sum[PoolItem].alloc_succ /\ f = sum[PoolItem].free
    OBVIOUS
  <2>4. PICK u, p, q : /\ u = Cardinality(InUse) /\ p = Cardinality(Pending("alloc_succ"))
                       /\ q = Cardinality(Pending("free"))
    OBVIOUS
  <2>5. u \in Nat /\ p \in Nat /\ q \in Nat
    BY <2>4, Finite
  <2>6. Total(PoolItem, "alloc_succ") + p = Total(PoolItem, "free") + q + u
    BY <2>4 DEF SInv, Accounted
  <2>7. PICK a, b, m, n :
          /\ a = low[PoolItem]["alloc_succ"] /\ b = low[PoolItem]["free"]
          /\ m = Total(PoolItem, "alloc_succ") /\ n = Total(PoolItem, "free")
    OBVIOUS
  <2>8. /\ a \in Nat /\ b \in Nat /\ m \in Nat /\ n \in Nat /\ s \in Nat /\ f \in Nat
        /\ a <= s /\ s <= m /\ b <= f /\ f <= n /\ m <= MaxCalls /\ n <= MaxCalls
    BY <2>1, <2>2, <2>3, <2>7
  <2>9. m + p = n + q + u
    BY <2>6, <2>7
  <2>10. Missing("alloc_succ") = m - a + p /\ Missing("free") = n - b + q
    BY <2>4, <2>7 DEF Missing
  <2>11. (s - f) - u \in -(m - a + p) .. (n - b + q)
    BY <2>5, <2>8, <2>9
  <2>12. s - f \in Int /\ -Word < s - f /\ s - f < Word /\ u + ((s - f) - u) = s - f
    BY <2>5, <2>8, Constants
  <2>13. Concurr(sum[PoolItem]) = (s + Word - f) % Word
    BY <2>3 DEF Concurr
  <2>14. s + Word - f = (s - f) + Word
    BY <2>8, Constants
  <2>15. Concurr(sum[PoolItem]) = (u + ((s - f) - u)) % Word
    BY <2>12, <2>13, <2>14, Constants, ModShift
  <2> QED
    BY <2>4, <2>10, <2>11, <2>15
<1> QED
  BY <1>1, StatsInvariant, SumsAreBracketed, PTL
=============================================================================
