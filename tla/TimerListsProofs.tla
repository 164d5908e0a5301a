-------------------------- MODULE TimerListsProofs --------------------------
(***************************************************************************)
(* The links of TimerLists are rings, for any timers and vectors of any    *)
(* size, and what they list is the wheel of TimerWheel: TimerWheelProofs'  *)
(* theorems hold of the links.                                             *)
(***************************************************************************)
EXTENDS TimerLists, SequenceTheorems, FiniteSetTheorems, TLAPS

W == INSTANCE TimerWheelProofs WITH
    vec <- [l \in Lists |-> Listed(l)],
    work <- Listed(WorkList)

LEMMA Assumed == W!WheelAssumption
BY ConstantsAssumption DEF Wheel!Horizon, W!Horizon

(***************************************************************************)
(* One ring.                                                               *)
(***************************************************************************)
Links == [next : Nodes \cup {NULL}, prev : Nodes \cup {NULL, POISON}]

\* The i-th node of the ring of head h with the timers s; h comes before the
\* first timer and after the last.
NodeAt(h, s, i) == IF i \in 1 .. Len(s) THEN s[i] ELSE h

Ring(lk, h, s) ==
    \A i \in 0 .. Len(s) :
        /\ lk[NodeAt(h, s, i)].next = NodeAt(h, s, i + 1)
        /\ lk[NodeAt(h, s, i + 1)].prev = NodeAt(h, s, i)

LEMMA NodesApart ==
    /\ \A h \in Heads : h \in Nodes /\ h \notin Timers /\ h # NULL
    /\ \A t \in Timers : t \in Nodes /\ t \notin Heads /\ t # NULL
    /\ Lists \subseteq Heads /\ WorkList \in Heads /\ WorkList \notin Lists
    /\ NULL \notin Nodes
<1>1. WorkList \notin Lists
  BY DEF WorkList, Lists
<1> QED
  BY <1>1, NodesAssumption DEF Nodes, Heads

LEMMA NodesOfRing ==
    ASSUME NEW h \in Heads, NEW s \in Seq(Timers)
    PROVE  /\ Len(s) \in Nat
           /\ NodeAt(h, s, 0) = h /\ NodeAt(h, s, Len(s) + 1) = h
           /\ \A i \in 1 .. Len(s) : NodeAt(h, s, i) = s[i] /\ s[i] \in Timers /\ s[i] \in W!Range(s)
           /\ \A i \in Int : NodeAt(h, s, i) \in {h} \cup W!Range(s) /\ NodeAt(h, s, i) \in Nodes
           /\ W!Range(s) \subseteq Timers
<1>1. /\ Len(s) \in Nat /\ W!Range(s) \subseteq Timers
      /\ \A t : t \in W!Range(s) <=> \E i \in 1 .. Len(s) : s[i] = t
  BY Assumed, W!RangeIs
<1>2. \A i \in 1 .. Len(s) : s[i] \in Timers
  BY <1>1
<1> QED
  BY <1>1, <1>2, NodesApart DEF NodeAt

(* A ring is as it was if the links of its nodes are.                      *)
LEMMA RingFrame ==
    ASSUME NEW h \in Heads, NEW s \in Seq(Timers), NEW lk, NEW lk2, Ring(lk, h, s),
           \A x \in {h} \cup W!Range(s) : lk2[x] = lk[x]
    PROVE  Ring(lk2, h, s)
<1>1. \A i \in Int : lk2[NodeAt(h, s, i)] = lk[NodeAt(h, s, i)]
  BY NodesOfRing
<1>2. \A i \in 0 .. Len(s) : i \in Int /\ i + 1 \in Int
  BY NodesOfRing
<1> QED
  BY <1>1, <1>2 DEF Ring

LEMMA EmptyRing ==
    ASSUME NEW h \in Heads, NEW lk, lk[h] = [next |-> h, prev |-> h]
    PROVE  Ring(lk, h, <<>>)
<1>1. Len(<<>>) = 0 /\ \A i : i \notin 1 .. 0
  BY EmptySeq
<1>2. NodeAt(h, <<>>, 0) = h /\ NodeAt(h, <<>>, 0 + 1) = h
  BY <1>1 DEF NodeAt
<1>3. \A i \in 0 .. 0 : i = 0
  OBVIOUS
<1>4. \A i \in 0 .. Len(<<>>) : i = 0
  BY <1>1, <1>3
<1> QED
  BY <1>2, <1>4 DEF Ring

(* What the ends of a ring are linked to.                                  *)
LEMMA RingEnds ==
    ASSUME NEW h \in Heads, NEW s \in Seq(Timers), NEW lk, Ring(lk, h, s)
    PROVE  /\ lk[h].next = NodeAt(h, s, 1) /\ lk[h].prev = NodeAt(h, s, Len(s))
           /\ s = <<>> <=> lk[h].next = h
           /\ \A t \in W!Range(s) : lk[t].next \in Nodes
<1> PICK n \in Nat : n = Len(s)
  BY NodesOfRing
<1>1. 0 \in 0 .. n /\ n \in 0 .. n /\ 0 + 1 = 1
  OBVIOUS
<1>2. lk[h].next = NodeAt(h, s, 1) /\ lk[h].prev = NodeAt(h, s, Len(s))
  BY <1>1, NodesOfRing DEF Ring
<1>3. s # <<>> => NodeAt(h, s, 1) # h
  <2>1. s # <<>> => 1 \in 1 .. Len(s)
    BY EmptySeq
  <2> QED
    BY <2>1, NodesOfRing, NodesApart
<1>4. s = <<>> => NodeAt(h, s, 1) = h
  BY EmptySeq DEF NodeAt
<1>5. ASSUME NEW t \in W!Range(s) PROVE lk[t].next \in Nodes
  <2>1. PICK i \in 1 .. n : s[i] = t
    BY Assumed, W!RangeIs
  <2>2. i \in 0 .. n /\ i + 1 \in Int
    OBVIOUS
  <2> QED
    BY <2>1, <2>2, NodesOfRing DEF Ring
<1> QED
  BY <1>2, <1>3, <1>4, <1>5

-----------------------------------------------------------------------------
(***************************************************************************)
(* Adding a timer at the end, taking one out.                              *)
(***************************************************************************)
LEMMA AddIs ==
    ASSUME NEW lk \in [Nodes -> Links], NEW n \in Nodes, NEW a \in Nodes, NEW b \in Nodes,
           n # a, n # b
    PROVE  LET lk2 == AddBetween(lk, n, a, b)
           IN /\ lk2 \in [Nodes -> Links]
              /\ \A x \in Nodes :
                   /\ lk2[x].next = IF x = a THEN n ELSE IF x = n THEN b ELSE lk[x].next
                   /\ lk2[x].prev = IF x = b THEN n ELSE IF x = n THEN a ELSE lk[x].prev
                   /\ x \notin {a, b, n} => lk2[x] = lk[x]
<1>1. PICK l1 : l1 = [lk EXCEPT ![b].prev = n]
  OBVIOUS
<1>2. PICK l2 : l2 = [l1 EXCEPT ![n] = [next |-> b, prev |-> a]]
  OBVIOUS
<1>3. PICK l3 : l3 = [l2 EXCEPT ![a].next = n]
  OBVIOUS
<1>4. AddBetween(lk, n, a, b) = l3
  BY <1>1, <1>2, <1>3 DEF AddBetween
<1>5. /\ l1 \in [Nodes -> Links]
      /\ \A x \in Nodes : /\ l1[x].next = lk[x].next
                          /\ l1[x].prev = IF x = b THEN n ELSE lk[x].prev
                          /\ x # b => l1[x] = lk[x]
  BY <1>1 DEF Links
<1>6. /\ l2 \in [Nodes -> Links]
      /\ l2[n] = [next |-> b, prev |-> a]
      /\ \A x \in Nodes : x # n => l2[x] = l1[x]
  BY <1>2, <1>5 DEF Links
<1>7. /\ l3 \in [Nodes -> Links]
      /\ \A x \in Nodes : /\ l3[x].prev = l2[x].prev
                          /\ l3[x].next = IF x = a THEN n ELSE l2[x].next
                          /\ x # a => l3[x] = l2[x]
  BY <1>3, <1>6 DEF Links
<1> QED
  BY <1>4, <1>5, <1>6, <1>7

LEMMA DelIs ==
    ASSUME NEW lk \in [Nodes -> Links], NEW a \in Nodes, NEW b \in Nodes
    PROVE  LET lk2 == Del(lk, a, b)
           IN /\ lk2 \in [Nodes -> Links]
              /\ \A x \in Nodes :
                   /\ lk2[x].next = IF x = a THEN b ELSE lk[x].next
                   /\ lk2[x].prev = IF x = b THEN a ELSE lk[x].prev
                   /\ x \notin {a, b} => lk2[x] = lk[x]
<1>1. PICK l1 : l1 = [lk EXCEPT ![b].prev = a]
  OBVIOUS
<1>2. PICK l2 : l2 = [l1 EXCEPT ![a].next = b]
  OBVIOUS
<1>3. Del(lk, a, b) = l2
  BY <1>1, <1>2 DEF Del
<1>4. /\ l1 \in [Nodes -> Links]
      /\ \A x \in Nodes : /\ l1[x].next = lk[x].next
                          /\ l1[x].prev = IF x = b THEN a ELSE lk[x].prev
                          /\ x # b => l1[x] = lk[x]
  BY <1>1 DEF Links
<1>5. /\ l2 \in [Nodes -> Links]
      /\ \A x \in Nodes : /\ l2[x].prev = l1[x].prev
                          /\ l2[x].next = IF x = a THEN b ELSE l1[x].next
                          /\ x # a => l2[x] = l1[x]
  BY <1>2, <1>4 DEF Links
<1> QED
  BY <1>3, <1>4, <1>5

(* Once round a ring no node comes twice.                                  *)
LEMMA RingNodes ==
    ASSUME NEW h \in Heads, NEW s \in Seq(Timers), W!NoRepeat(s)
    PROVE  /\ \A i, j \in 0 .. Len(s) : NodeAt(h, s, i) = NodeAt(h, s, j) => i = j
           /\ \A i, j \in 1 .. Len(s) + 1 : NodeAt(h, s, i) = NodeAt(h, s, j) => i = j
<1> PICK n \in Nat : n = Len(s)
  BY NodesOfRing
<1>1. /\ \A i \in 1 .. n : NodeAt(h, s, i) = s[i] /\ s[i] # h
      /\ NodeAt(h, s, 0) = h /\ NodeAt(h, s, n + 1) = h
  BY NodesOfRing, NodesApart
<1>2. \A i, j \in 1 .. n : NodeAt(h, s, i) = NodeAt(h, s, j) => i = j
  BY <1>1 DEF W!NoRepeat
<1>3. /\ \A i \in 0 .. n : i = 0 \/ i \in 1 .. n
      /\ \A i \in 1 .. n + 1 : i = n + 1 \/ i \in 1 .. n
  OBVIOUS
<1> QED
  BY <1>1, <1>2, <1>3

LEMMA RingAdd ==
    ASSUME NEW lk \in [Nodes -> Links], NEW h \in Heads, NEW s \in Seq(Timers),
           Ring(lk, h, s), W!NoRepeat(s), NEW t \in Timers, t \notin W!Range(s)
    PROVE  LET lk2 == AddTail(lk, t, h)
           IN /\ lk2 \in [Nodes -> Links]
              /\ Ring(lk2, h, Append(s, t))
              /\ \A x \in Nodes : x \notin {h, t} \cup W!Range(s) => lk2[x] = lk[x]
<1> PICK n \in Nat : n = Len(s)
  BY NodesOfRing
<1>1. PICK r \in Seq(Timers) : r = Append(s, t)
  BY AppendProperties
<1>2. Len(r) = n + 1 /\ (\A i \in 1 .. n : r[i] = s[i]) /\ r[n + 1] = t
  BY <1>1, AppendProperties
<1>3. PICK z \in Nodes : /\ z = NodeAt(h, s, n) /\ z = lk[h].prev
                         /\ z \in {h} \cup W!Range(s)
  <2>1. n \in Int /\ lk[h].prev = NodeAt(h, s, n)
    BY RingEnds
  <2> QED
    BY <2>1, NodesOfRing
<1>4. h \in Nodes /\ t \in Nodes /\ t # h /\ t # z
  BY <1>3, NodesApart, NodesOfRing
<1>5. PICK lk2 \in [Nodes -> Links] :
        /\ lk2 = AddTail(lk, t, h)
        /\ \A x \in Nodes :
             /\ lk2[x].next = IF x = z THEN t ELSE IF x = t THEN h ELSE lk[x].next
             /\ lk2[x].prev = IF x = h THEN t ELSE IF x = t THEN z ELSE lk[x].prev
             /\ x \notin {z, h, t} => lk2[x] = lk[x]
  <2>1. PICK l : l = AddBetween(lk, t, z, h)
    OBVIOUS
  <2>2. l = AddTail(lk, t, h)
    BY <1>3, <2>1 DEF AddTail
  <2>3. LET lk2 == AddBetween(lk, t, z, h)
        IN /\ lk2 \in [Nodes -> Links]
           /\ \A x \in Nodes :
                /\ lk2[x].next = IF x = z THEN t ELSE IF x = t THEN h ELSE lk[x].next
                /\ lk2[x].prev = IF x = h THEN t ELSE IF x = t THEN z ELSE lk[x].prev
                /\ x \notin {z, h, t} => lk2[x] = lk[x]
    BY <1>4, AddIs
  <2> QED
    BY ONLY <2>1, <2>2, <2>3
<1>6. /\ \A i \in 0 .. n : NodeAt(h, r, i) = NodeAt(h, s, i) /\ NodeAt(h, s, i) \in Nodes
      /\ NodeAt(h, r, n + 1) = t /\ NodeAt(h, r, n + 2) = h
  <2>1. \A i \in 0 .. n : i \in 1 .. n <=> i \in 1 .. n + 1
    OBVIOUS
  <2>2. n + 1 \in 1 .. n + 1 /\ n + 2 \notin 1 .. n + 1
    OBVIOUS
  <2>3. \A i \in 0 .. n : i \in Int
    OBVIOUS
  <2> QED
    BY <1>2, <2>1, <2>2, <2>3, NodesOfRing DEF NodeAt
<1>7. \A i \in 0 .. n : NodeAt(h, s, i) # t
  BY NodesOfRing, <1>4
<1>8. ASSUME NEW i \in 0 .. n - 1
      PROVE  NodeAt(h, s, i) # z /\ NodeAt(h, s, i + 1) # h
  <2>1. /\ i \in 0 .. n /\ n \in 0 .. n /\ i # n
        /\ i + 1 \in 1 .. n + 1 /\ n + 1 \in 1 .. n + 1 /\ i + 1 # n + 1
    OBVIOUS
  <2>2. NodeAt(h, s, i) # NodeAt(h, s, n) /\ NodeAt(h, s, i + 1) # NodeAt(h, s, n + 1)
    BY <2>1, RingNodes
  <2> QED
    BY <1>3, <2>2, NodesOfRing
<1>9. ASSUME NEW i \in 0 .. n - 1
      PROVE  /\ lk2[NodeAt(h, r, i)].next = NodeAt(h, r, i + 1)
             /\ lk2[NodeAt(h, r, i + 1)].prev = NodeAt(h, r, i)
  <2>1. i \in 0 .. n /\ i + 1 \in 0 .. n
    OBVIOUS
  <2>2. /\ lk[NodeAt(h, s, i)].next = NodeAt(h, s, i + 1)
        /\ lk[NodeAt(h, s, i + 1)].prev = NodeAt(h, s, i)
    BY <2>1 DEF Ring
  <2> QED
    BY <1>5, <1>6, <1>7, <1>8, <2>1, <2>2
<1>10. /\ lk2[NodeAt(h, r, n)].next = NodeAt(h, r, n + 1)
       /\ lk2[NodeAt(h, r, n + 1)].prev = NodeAt(h, r, n)
       /\ lk2[NodeAt(h, r, n + 1)].next = NodeAt(h, r, n + 1 + 1)
       /\ lk2[NodeAt(h, r, n + 1 + 1)].prev = NodeAt(h, r, n + 1)
  <2>1. n \in 0 .. n /\ n + 1 + 1 = n + 2
    OBVIOUS
  <2>2. NodeAt(h, r, n) = z
    BY <1>3, <1>6, <2>1
  <2>3. NodeAt(h, r, n + 1) = t /\ NodeAt(h, r, n + 1 + 1) = h
    BY <1>6, <2>1
  <2>4. lk2[z].next = t /\ lk2[t].prev = z /\ lk2[t].next = h /\ lk2[h].prev = t
    BY <1>4, <1>5
  <2> QED
    BY ONLY <2>2, <2>3, <2>4
<1>11. Ring(lk2, h, r)
  <2>1. \A i \in 0 .. n + 1 : i \in 0 .. n - 1 \/ i = n \/ i = n + 1
    OBVIOUS
  <2> QED
    BY <1>2, <1>9, <1>10, <2>1 DEF Ring
<1> QED
  BY <1>1, <1>3, <1>5, <1>11

\* s without its i-th member.
Removed(s, i) == [j \in 1 .. Len(s) - 1 |-> IF j < i THEN s[j] ELSE s[j + 1]]

LEMMA RingDel ==
    ASSUME NEW lk \in [Nodes -> Links], NEW h \in Heads, NEW s \in Seq(Timers),
           Ring(lk, h, s), W!NoRepeat(s), NEW i \in 1 .. Len(s)
    PROVE  LET lk2 == DetachOnly(lk, s[i])
           IN /\ lk2 \in [Nodes -> Links]
              /\ Ring(lk2, h, Removed(s, i))
              /\ lk2[s[i]].next # NULL
              /\ \A x \in Nodes : x \notin {h} \cup W!Range(s) => lk2[x] = lk[x]
<1> PICK n \in Nat : n = Len(s)
  BY NodesOfRing
<1> PICK t \in Timers : t = s[i]
  BY NodesOfRing
<1> DEFINE N(j) == NodeAt(h, s, j)
<1>0. /\ \A j \in Int : N(j) \in Nodes /\ N(j) \in {h} \cup W!Range(s)
      /\ N(i) = t /\ t \in W!Range(s) /\ t \in Nodes /\ t # NULL /\ NULL \notin Nodes
  BY NodesOfRing, NodesApart
<1>1. \A j \in 0 .. n : lk[N(j)].next = N(j + 1) /\ lk[N(j + 1)].prev = N(j)
  BY DEF Ring
<1>2. /\ \A j, k \in 0 .. n : N(j) = N(k) => j = k
      /\ \A j, k \in 1 .. n + 1 : N(j) = N(k) => j = k
  BY RingNodes
<1> HIDE DEF N
<1>3. PICK a, b \in Nodes : /\ a = N(i - 1) /\ b = N(i + 1)
                           /\ a = lk[t].prev /\ b = lk[t].next /\ a # t /\ b # t
  <2>1. /\ i \in 0 .. n /\ i - 1 \in 0 .. n /\ i - 1 + 1 = i /\ i - 1 # i
        /\ i \in 1 .. n + 1 /\ i + 1 \in 1 .. n + 1 /\ i + 1 # i
    OBVIOUS
  <2>2. N(i - 1) # N(i) /\ N(i + 1) # N(i)
    BY <1>2, <2>1
  <2>3. lk[N(i)].next = N(i + 1) /\ lk[N(i - 1 + 1)].prev = N(i - 1)
    BY <1>1, <2>1
  <2> QED
    BY <1>0, <2>1, <2>2, <2>3
<1>4. PICK l \in [Nodes -> Links] :
          /\ l = Del(lk, a, b)
          /\ \A x \in Nodes :
               /\ l[x].next = IF x = a THEN b ELSE lk[x].next
               /\ l[x].prev = IF x = b THEN a ELSE lk[x].prev
               /\ x \notin {a, b} => l[x] = lk[x]
  <2>1. PICK l : l = Del(lk, a, b)
    OBVIOUS
  <2>2. LET lk2 == Del(lk, a, b)
        IN /\ lk2 \in [Nodes -> Links]
           /\ \A x \in Nodes :
                /\ lk2[x].next = IF x = a THEN b ELSE lk[x].next
                /\ lk2[x].prev = IF x = b THEN a ELSE lk[x].prev
                /\ x \notin {a, b} => lk2[x] = lk[x]
    BY DelIs
  <2> QED
    BY ONLY <2>1, <2>2
<1>5. PICK lk2 : lk2 = [l EXCEPT ![t].prev = POISON]
  OBVIOUS
<1>6. lk2 = DetachOnly(lk, t)
  BY <1>3, <1>4, <1>5 DEF DetachOnly
<1>7. /\ lk2 \in [Nodes -> Links] /\ lk2[t].next = l[t].next
      /\ \A x \in Nodes : x # t => lk2[x] = l[x]
  BY <1>0, <1>5 DEF Links
<1>8. PICK r : r = Removed(s, i)
  OBVIOUS
<1>9. /\ Len(r) = n - 1
      /\ \A j \in 0 .. i - 1 : NodeAt(h, r, j) = N(j)
      /\ \A j \in i .. n : NodeAt(h, r, j) = N(j + 1)
  <2>1. r = [j \in 1 .. n - 1 |-> IF j < i THEN s[j] ELSE s[j + 1]] /\ n - 1 \in Nat
    BY <1>8 DEF Removed
  <2>2. Len(r) = n - 1
    BY <2>1, LenProperties, IsASeq
  <2>3. ASSUME NEW j \in 0 .. i - 1 PROVE NodeAt(h, r, j) = N(j)
    <3>1. j \in 1 .. n - 1 <=> j \in 1 .. n
      OBVIOUS
    <3>2. j \in 1 .. n - 1 => r[j] = s[j]
      BY <2>1
    <3> QED
      BY <2>2, <3>1, <3>2 DEF NodeAt, N
  <2>4. ASSUME NEW j \in i .. n PROVE NodeAt(h, r, j) = N(j + 1)
    <3>1. j \in 1 .. n - 1 <=> j + 1 \in 1 .. n
      OBVIOUS
    <3>2. j \in 1 .. n - 1 => r[j] = s[j + 1]
      BY <2>1
    <3> QED
      BY <2>2, <3>1, <3>2 DEF NodeAt, N
  <2> QED
    BY <2>2, <2>3, <2>4
<1>10. ASSUME NEW j \in 0 .. n, j # i - 1, j # i
       PROVE  lk2[N(j)].next = N(j + 1) /\ lk2[N(j + 1)].prev = N(j)
  <2>1. /\ j + 1 \in 1 .. n + 1 /\ i + 1 \in 1 .. n + 1 /\ i \in 1 .. n + 1
        /\ j + 1 # i + 1 /\ j + 1 # i /\ i - 1 \in 0 .. n /\ i \in 0 .. n
        /\ j \in Int /\ j + 1 \in Int
    BY <1>10
  <2>2. N(j) # a /\ N(j) # t /\ N(j + 1) # b /\ N(j + 1) # t
    BY <1>0, <1>2, <1>3, <1>10, <2>1
  <2>3. N(j) \in Nodes /\ N(j + 1) \in Nodes
    BY <1>0, <2>1
  <2>4. lk2[N(j)].next = lk[N(j)].next /\ lk2[N(j + 1)].prev = lk[N(j + 1)].prev
    BY <1>4, <1>7, <2>2, <2>3
  <2> QED
    BY <1>1, <2>4
<1>11. lk2[a].next = b /\ lk2[b].prev = a
  BY <1>3, <1>4, <1>7
<1>12. Ring(lk2, h, r)
  <2> SUFFICES ASSUME NEW j \in 0 .. n - 1
               PROVE  /\ lk2[NodeAt(h, r, j)].next = NodeAt(h, r, j + 1)
                      /\ lk2[NodeAt(h, r, j + 1)].prev = NodeAt(h, r, j)
    BY <1>9 DEF Ring
  <2>1. CASE j < i - 1
    <3>1. j \in 0 .. i - 1 /\ j + 1 \in 0 .. i - 1 /\ j \in 0 .. n /\ j # i - 1 /\ j # i
      BY <2>1
    <3> QED
      BY <1>9, <1>10, <3>1
  <2>2. CASE j = i - 1
    <3>1. j \in 0 .. i - 1 /\ j + 1 = i /\ i \in i .. n
      BY <2>2
    <3>2. NodeAt(h, r, j) = a /\ NodeAt(h, r, j + 1) = b
      BY <1>3, <1>9, <2>2, <3>1
    <3> QED
      BY <1>11, <3>2
  <2>3. CASE j > i - 1
    <3>1. /\ j \in i .. n /\ j + 1 \in i .. n
          /\ j + 1 \in 0 .. n /\ j + 1 # i - 1 /\ j + 1 # i
      BY <2>3
    <3> QED
      BY <1>9, <1>10, <3>1
  <2> QED
    BY <2>1, <2>2, <2>3
<1>13. a \in {h} \cup W!Range(s) /\ b \in {h} \cup W!Range(s)
  BY <1>0, <1>3
<1>14. lk2[t].next # NULL
  <2>1. l[t].next = b
    BY <1>0, <1>3, <1>4
  <2>2. b # NULL
    BY <1>0, <1>3
  <2> QED
    BY <1>7, <2>1, <2>2
<1>15. \A x \in Nodes : x \notin {h} \cup W!Range(s) => lk2[x] = lk[x]
  BY <1>0, <1>4, <1>7, <1>13
<1> QED
  BY <1>6, <1>7, <1>8, <1>12, <1>14, <1>15

-----------------------------------------------------------------------------
(***************************************************************************)
(* The sequences of TimerWheel.                                            *)
(***************************************************************************)

\* The first k members of s without the i-th.
Skipped(s, i, k) ==
    [j \in 1 .. (IF k < i THEN k ELSE k - 1) |-> IF j < i THEN s[j] ELSE s[j + 1]]

LEMMA SkippedIs ==
    ASSUME NEW s \in Seq(Timers), NEW i \in 1 .. Len(s) + 1, NEW k \in 0 .. Len(s)
    PROVE  /\ Skipped(s, i, k) \in Seq(Timers)
           /\ Len(Skipped(s, i, k)) = IF k < i THEN k ELSE k - 1
           /\ \A j \in 1 .. (IF k < i THEN k ELSE k - 1) :
                  Skipped(s, i, k)[j] = IF j < i THEN s[j] ELSE s[j + 1]
<1> PICK n \in Nat : n = Len(s)
  BY Assumed, W!RangeIs
<1> PICK m : m = IF k < i THEN k ELSE k - 1
  OBVIOUS
<1>1. m \in Nat
  OBVIOUS
<1>2. \A j \in 1 .. n : s[j] \in Timers
  BY ElementOfSeq
<1>3. \A j \in 1 .. m : (j < i => j \in 1 .. n) /\ (~(j < i) => j + 1 \in 1 .. n)
  OBVIOUS
<1>4. PICK r : r = [j \in 1 .. m |-> IF j < i THEN s[j] ELSE s[j + 1]]
  OBVIOUS
<1>5. \A j \in 1 .. m : r[j] \in Timers /\ r[j] = IF j < i THEN s[j] ELSE s[j + 1]
  BY <1>2, <1>3, <1>4
<1>6. r \in Seq(Timers) /\ Len(r) = m
  BY <1>1, <1>4, <1>5, IsASeq, LenProperties
<1>7. r = Skipped(s, i, k)
  BY <1>4 DEF Skipped
<1> QED
  BY <1>5, <1>6, <1>7

LEMMA OnlySkips ==
    ASSUME NEW s \in Seq(Timers), NEW S, NEW i \in 1 .. Len(s) + 1,
           \A j \in 1 .. Len(s) : s[j] \in S <=> j # i
    PROVE  W!Only(s, S) = Skipped(s, i, Len(s))
<1> PICK n \in Nat : n = Len(s)
  BY Assumed, W!RangeIs
<1> PICK O : O = W!OnlyUpTo(s, S)
  OBVIOUS
<1>1. /\ O[0] = <<>>
      /\ \A k \in 1 .. n : O[k] = IF s[k] \in S THEN Append(O[k - 1], s[k]) ELSE O[k - 1]
  BY Assumed, W!OnlySteps
<1> DEFINE K(k) == Skipped(s, i, k)
           Bad == {k \in 0 .. n : O[k] # K(k)}
<1>2. O[0] = K(0)
  <2>1. 0 \in 0 .. n /\ 0 < i
    OBVIOUS
  <2>2. K(0) \in Seq(Timers) /\ Len(K(0)) = 0
    BY <2>1, SkippedIs
  <2> QED
    BY <1>1, <2>2, EmptySeq
<1>3. ASSUME NEW k \in 1 .. n, O[k - 1] = K(k - 1) PROVE O[k] = K(k)
  <2>0. k \in 0 .. n /\ k - 1 \in 0 .. n /\ s[k] \in Timers
    BY ElementOfSeq
  <2>1. /\ K(k) \in Seq(Timers) /\ Len(K(k)) = IF k < i THEN k ELSE k - 1
        /\ \A j \in 1 .. (IF k < i THEN k ELSE k - 1) : K(k)[j] = IF j < i THEN s[j] ELSE s[j + 1]
    BY <2>0, SkippedIs
  <2>2. /\ K(k - 1) \in Seq(Timers) /\ Len(K(k - 1)) = IF k - 1 < i THEN k - 1 ELSE k - 1 - 1
        /\ \A j \in 1 .. (IF k - 1 < i THEN k - 1 ELSE k - 1 - 1) :
               K(k - 1)[j] = IF j < i THEN s[j] ELSE s[j + 1]
    BY <2>0, SkippedIs
  <2> PICK a \in Seq(Timers), b \in Seq(Timers) : a = K(k) /\ b = K(k - 1)
    BY <2>1, <2>2
  <2> HIDE DEF K
  <2>3. CASE k = i
    <3>1. O[k] = b
      BY <1>1, <1>3, <2>3
    <3>2. Len(a) = k - 1 /\ Len(b) = k - 1
      BY <2>1, <2>2, <2>3
    <3>3. \A j \in 1 .. k - 1 : a[j] = b[j]
      BY <2>1, <2>2, <2>3
    <3>4. a = b
      BY <3>2, <3>3, SeqEqual
    <3> QED
      BY <3>1, <3>4
  <2>4. CASE k # i
    <3>1. O[k] = Append(b, s[k])
      BY <1>1, <1>3, <2>4
    <3>2. PICK c \in Seq(Timers) : c = Append(b, s[k])
      BY <2>0, AppendProperties
    <3>3. PICK m \in Nat : m = Len(b)
      BY Assumed, W!RangeIs
    <3>4. Len(c) = m + 1 /\ (\A j \in 1 .. m : c[j] = b[j]) /\ c[m + 1] = s[k]
      BY <2>0, <3>2, <3>3, AppendProperties
    <3>5. CASE k < i
      <4>1. m = k - 1 /\ Len(a) = k
        BY <2>1, <2>2, <3>3, <3>5
      <4>2. \A j \in 1 .. k : a[j] = s[j] /\ (j \in 1 .. m => b[j] = s[j])
        BY <2>1, <2>2, <3>5, <4>1
      <4>3. \A j \in 1 .. k : j \in 1 .. m \/ j = m + 1
        BY <4>1
      <4>4. \A j \in 1 .. k : a[j] = c[j]
        BY <3>4, <4>1, <4>2, <4>3
      <4> QED
        BY <3>1, <3>2, <3>4, <4>1, <4>4, SeqEqual
    <3>6. CASE k > i
      <4>0. ~(k < i) /\ ~(k - 1 < i)
        BY <3>6
      <4>1. m = k - 1 - 1 /\ Len(a) = k - 1
        BY <2>1, <2>2, <3>3, <4>0
      <4>2. \A j \in 1 .. m : b[j] = IF j < i THEN s[j] ELSE s[j + 1]
        BY <2>2, <4>0, <4>1
      <4>3. \A j \in 1 .. k - 1 : a[j] = IF j < i THEN s[j] ELSE s[j + 1]
        BY <2>1, <3>6
      <4>4. \A j \in 1 .. k - 1 : j \in 1 .. m \/ (j = m + 1 /\ ~(j < i) /\ j + 1 = k)
        BY <3>6, <4>1
      <4>5. \A j \in 1 .. k - 1 : a[j] = c[j]
        BY <3>4, <4>2, <4>3, <4>4
      <4> QED
        BY <3>1, <3>2, <3>4, <4>1, <4>5, SeqEqual
    <3> QED
      BY <2>4, <3>5, <3>6
  <2> QED
    BY <2>3, <2>4
<1> HIDE DEF K
<1>4. ASSUME Bad # {} PROVE FALSE
  <2>1. PICK k \in Bad : \A m \in Bad : k <= m
    <3>1. Bad \in SUBSET Nat
      OBVIOUS
    <3> QED
      BY <1>4, <3>1, Assumed, W!LeastNat
  <2>2. k # 0
    BY <1>2, <2>1
  <2>3. k \in 1 .. n /\ k - 1 \in 0 .. n /\ ~(k <= k - 1)
    BY <2>1, <2>2
  <2>4. O[k - 1] = K(k - 1)
    BY <2>1, <2>3
  <2> QED
    BY <1>3, <2>1, <2>3, <2>4
<1>5. n \in 0 .. n
  OBVIOUS
<1>6. O[n] = K(n)
  BY <1>4, <1>5
<1> QED
  BY <1>6 DEF K, W!Only

LEMMA OnlyAll ==
    ASSUME NEW s \in Seq(Timers), NEW S, W!Range(s) \subseteq S
    PROVE  W!Only(s, S) = s
<1> PICK n \in Nat : n = Len(s)
  BY Assumed, W!RangeIs
<1>1. n + 1 \in 1 .. n + 1 /\ n \in 0 .. n /\ n < n + 1
  OBVIOUS
<1>2. \A j \in 1 .. n : s[j] \in S /\ j # n + 1
  BY Assumed, W!RangeIs
<1>3. W!Only(s, S) = Skipped(s, n + 1, n)
  BY <1>1, <1>2, OnlySkips
<1>4. PICK r \in Seq(Timers) : r = Skipped(s, n + 1, n)
  BY <1>1, SkippedIs
<1>5. Len(r) = n /\ \A j \in 1 .. n : r[j] = s[j]
  <2>1. r = [j \in 1 .. n |-> IF j < n + 1 THEN s[j] ELSE s[j + 1]]
    BY <1>1, <1>4 DEF Skipped
  <2>2. Len(r) = n
    BY <2>1, LenProperties
  <2>3. \A j \in 1 .. n : j < n + 1
    OBVIOUS
  <2> QED
    BY <2>1, <2>2, <2>3
<1>6. r = s
  BY <1>5, SeqEqual
<1> QED
  BY <1>3, <1>4, <1>6

LEMMA WithoutOne ==
    ASSUME NEW s \in Seq(Timers), W!NoRepeat(s), NEW i \in 1 .. Len(s)
    PROVE  W!Without(s, s[i]) = Removed(s, i)
<1> PICK n \in Nat : n = Len(s)
  BY Assumed, W!RangeIs
<1>1. i \in 1 .. n + 1 /\ ~(n < i)
  OBVIOUS
<1>2. \A j \in 1 .. n : s[j] \in Timers /\ (s[j] = s[i] <=> j = i)
  BY ElementOfSeq DEF W!NoRepeat
<1>3. W!Without(s, s[i]) = Skipped(s, i, n)
  BY <1>1, <1>2, OnlySkips DEF W!Without
<1>4. Skipped(s, i, n) = Removed(s, i)
  BY <1>1 DEF Skipped, Removed
<1> QED
  BY <1>3, <1>4

LEMMA WithoutNone ==
    ASSUME NEW s \in Seq(Timers), NEW t, t \notin W!Range(s)
    PROVE  W!Without(s, t) = s
<1>1. W!Range(s) \subseteq Timers \ {t}
  BY Assumed, W!RangeIs
<1> QED
  BY <1>1, OnlyAll DEF W!Without

LEMMA WithoutFirst ==
    ASSUME NEW s \in Seq(Timers), W!NoRepeat(s), s # <<>>
    PROVE  W!Without(s, Head(s)) = Tail(s)
<1> PICK n \in Nat : n = Len(s)
  BY Assumed, W!RangeIs
<1>1. 1 \in 1 .. n
  BY EmptySeq
<1>2. PICK r \in Seq(Timers) : /\ r = Tail(s) /\ Head(s) = s[1] /\ Len(r) = n - 1
                               /\ \A i \in 1 .. n - 1 : r[i] = s[i + 1]
  <2>1. /\ Tail(s) \in Seq(Timers) /\ Head(s) = s[1] /\ Len(Tail(s)) = Len(s) - 1
        /\ \A i \in 1 .. Len(Tail(s)) : Tail(s)[i] = s[i + 1]
    BY HeadTailProperties
  <2> QED
    BY <2>1
<1>3. 1 \in 1 .. n + 1 /\ n \in 0 .. n /\ ~(n < 1)
  BY <1>1
<1>4. PICK q \in Seq(Timers) : q = Skipped(s, 1, n)
  BY <1>3, SkippedIs
<1>5. Len(q) = n - 1 /\ \A i \in 1 .. n - 1 : q[i] = IF i < 1 THEN s[i] ELSE s[i + 1]
  BY <1>3, <1>4, SkippedIs
<1>6. \A i \in 1 .. n - 1 : ~(i < 1)
  OBVIOUS
<1>7. q = r
  BY <1>2, <1>5, <1>6, SeqEqual
<1>8. q = Removed(s, 1)
  BY <1>3, <1>4 DEF Skipped, Removed
<1> QED
  BY <1>1, <1>2, <1>7, <1>8, WithoutOne

-----------------------------------------------------------------------------
(***************************************************************************)
(* Reading the timers of a ring back.                                      *)
(***************************************************************************)

\* Listed, of links lk.
ListedIn(lk, head) ==
    LET from[n \in 0 .. Longest] ==
            [curr \in Nodes \cup {NULL} |->
                IF n = 0 \/ curr \notin Timers THEN <<>>
                ELSE <<curr>> \o from[n - 1][lk[curr].next]]
    IN from[Longest][lk[head].next]

\* What is listed from curr in n steps, given what is in n - 1.
OneMore(w, lk, n) ==
    [curr \in Nodes \cup {NULL} |->
        IF n = 0 \/ curr \notin Timers THEN <<>> ELSE <<curr>> \o w[lk[curr].next]]

FromIs(u, lk, k) ==
    /\ u = [n \in 0 .. k |-> u[n]]
    /\ \A n \in 0 .. k : u[n] = OneMore(u[n - 1], lk, n)

LEMMA FromExists ==
    ASSUME NEW l \in Nat, NEW lk
    PROVE  \E u : FromIs(u, lk, l)
<1> DEFINE Bad == {k \in Nat : ~\E u : FromIs(u, lk, k)}
<1>1. ASSUME Bad # {} PROVE FALSE
  <2>1. PICK k \in Bad : \A m \in Bad : k <= m
    <3>1. Bad \in SUBSET Nat
      OBVIOUS
    <3> QED
      BY <1>1, <3>1, Assumed, W!LeastNat
  <2>2. CASE k = 0
    <3>1. PICK u : u = [n \in 0 .. 0 |-> [curr \in Nodes \cup {NULL} |-> <<>>]]
      OBVIOUS
    <3>2. \A n \in 0 .. 0 : n = 0
      OBVIOUS
    <3>3. \A w : OneMore(w, lk, 0) = [curr \in Nodes \cup {NULL} |-> <<>>]
      BY DEF OneMore
    <3>4. FromIs(u, lk, 0)
      BY <3>1, <3>2, <3>3 DEF FromIs
    <3> QED
      BY <2>1, <2>2, <3>4
  <2>3. CASE k # 0
    <3>1. k \in 1 .. k /\ k - 1 \in Nat /\ ~(k <= k - 1)
      BY <2>1, <2>3
    <3>2. PICK u : FromIs(u, lk, k - 1)
      BY <2>1, <3>1
    <3>3. PICK w : w = [n \in 0 .. k |-> IF n # k THEN u[n] ELSE OneMore(u[k - 1], lk, k)]
      OBVIOUS
    <3>4. w = [n \in 0 .. k |-> w[n]]
      BY <3>3
    <3>5. ASSUME NEW n \in 0 .. k PROVE w[n] = OneMore(w[n - 1], lk, n)
      <4>1. n # 0 => w[n - 1] = u[n - 1]
        <5>1. n # 0 => n - 1 \in 0 .. k /\ n - 1 # k
          BY <3>1
        <5> QED
          BY <3>3, <5>1
      <4>2. CASE n = k
        <5>1. n # 0
          BY <2>3, <4>2
        <5> QED
          BY <3>3, <4>1, <4>2, <5>1
      <4>3. CASE n # k
        <5>1. n \in 0 .. k - 1 /\ w[n] = u[n]
          BY <3>1, <3>3, <4>3
        <5>2. u[n] = OneMore(u[n - 1], lk, n)
          BY <3>2, <5>1 DEF FromIs
        <5>3. CASE n = 0
          <6>1. \A x, y : OneMore(x, lk, 0) = OneMore(y, lk, 0)
            BY DEF OneMore
          <6> QED
            BY <5>1, <5>2, <5>3, <6>1
        <5> QED
          BY <4>1, <5>1, <5>2, <5>3
      <4> QED
        BY <4>2, <4>3
    <3>6. FromIs(w, lk, k)
      BY <3>4, <3>5 DEF FromIs
    <3> QED
      BY <2>1, <3>6
  <2> QED
    BY <2>2, <2>3
<1> QED
  BY <1>1

LEMMA ShortLists ==
    ASSUME NEW s \in Seq(Timers), W!NoRepeat(s)
    PROVE  Len(s) \in Nat /\ Longest \in Nat /\ Len(s) <= Longest
<1> PICK n \in Nat : n = Len(s)
  BY Assumed, W!RangeIs
<1>1. s \in [1 .. n -> Timers]
  BY LenProperties
<1>2. s \in Injection(1 .. n, Timers)
  BY <1>1 DEF Injection, IsInjective, W!NoRepeat
<1>3. Cardinality(1 .. n) <= Cardinality(Timers) /\ Cardinality(Timers) \in Nat
  BY <1>2, NodesAssumption, FS_Injection, FS_CardinalityType
<1>4. Cardinality(1 .. n) = n
  <2>1. 1 \in Int /\ n \in Int /\ n = IF 1 > n THEN 0 ELSE n - 1 + 1
    OBVIOUS
  <2>2. Cardinality(1 .. n) = IF 1 > n THEN 0 ELSE n - 1 + 1
    BY ONLY <2>1, FS_Interval, Zenon
  <2> QED
    BY <2>1, <2>2
<1> QED
  BY <1>3, <1>4 DEF Longest

LEMMA ReadsBack ==
    ASSUME NEW lk \in [Nodes -> Links], NEW h \in Heads, NEW s \in Seq(Timers),
           W!NoRepeat(s), Ring(lk, h, s)
    PROVE  ListedIn(lk, h) = s
<1> PICK l \in Nat, k \in Nat : l = Longest /\ k = Len(s) /\ k <= l
  BY ShortLists
<1> DEFINE P(u) == u = [n \in 0 .. l |->
                          [curr \in Nodes \cup {NULL} |->
                             IF n = 0 \/ curr \notin Timers THEN <<>>
                             ELSE <<curr>> \o u[n - 1][lk[curr].next]]]
           F == CHOOSE u : P(u)
<1>1. \E u : P(u)
  <2>1. PICK u : FromIs(u, lk, l)
    BY FromExists
  <2>2. P(u)
    BY <2>1 DEF FromIs, OneMore
  <2> QED
    BY <2>2
<1>2. P(F)
  BY <1>1
<1>3. ListedIn(lk, h) = F[l][lk[h].next]
  BY DEF ListedIn
<1> HIDE DEF F
<1>4. \A n \in 0 .. l : \A curr \in Nodes :
          F[n][curr] = IF n = 0 \/ curr \notin Timers THEN <<>>
                       ELSE <<curr>> \o F[n - 1][lk[curr].next]
  <2>1. \A n \in 0 .. l : F[n] = OneMore(F[n - 1], lk, n)
    BY <1>2 DEF OneMore
  <2>2. \A w, n : \A curr \in Nodes :
            OneMore(w, lk, n)[curr] = IF n = 0 \/ curr \notin Timers THEN <<>>
                                      ELSE <<curr>> \o w[lk[curr].next]
    BY DEF OneMore
  <2> HIDE DEF P
  <2> SUFFICES ASSUME NEW n \in 0 .. l, NEW curr \in Nodes
               PROVE  F[n][curr] = IF n = 0 \/ curr \notin Timers THEN <<>>
                                   ELSE <<curr>> \o F[n - 1][lk[curr].next]
    OBVIOUS
  <2>3. PICK w : w = F[n - 1]
    OBVIOUS
  <2>4. F[n] = OneMore(w, lk, n)
    BY <2>1, <2>3
  <2>5. F[n][curr] = IF n = 0 \/ curr \notin Timers THEN <<>>
                     ELSE <<curr>> \o w[lk[curr].next]
    BY ONLY <2>2, <2>4
  <2> QED
    BY <2>3, <2>5
<1> HIDE DEF P
<1> DEFINE Rest(i) == SubSeq(s, i, k)
           Fine(n) == \A i \in 1 .. k + 1 : k + 1 - i <= n => F[n][NodeAt(h, s, i)] = Rest(i)
           Bad == {n \in 0 .. l : ~Fine(n)}
<1>5. ASSUME NEW n \in 0 .. l PROVE F[n][NodeAt(h, s, k + 1)] = Rest(k + 1)
  <2>1. NodeAt(h, s, k + 1) = h /\ h \in Nodes /\ h \notin Timers
    BY NodesOfRing, NodesApart
  <2>2. Rest(k + 1) = <<>>
    BY SubSeqEmpty
  <2> QED
    BY <1>4, <2>1, <2>2
<1>6. ASSUME NEW n \in 1 .. l, Fine(n - 1) PROVE Fine(n)
  <2>0. n \in 0 .. l /\ \A i \in 1 .. k + 1 : i = k + 1 \/ i \in 1 .. k
    OBVIOUS
  <2> SUFFICES ASSUME NEW i \in 1 .. k, k + 1 - i <= n
               PROVE  F[n][NodeAt(h, s, i)] = Rest(i)
    BY <1>5, <2>0
  <2>1. /\ NodeAt(h, s, i) = s[i] /\ s[i] \in Timers /\ s[i] \in Nodes
        /\ lk[NodeAt(h, s, i)].next = NodeAt(h, s, i + 1)
    <3>1. i \in 0 .. k
      OBVIOUS
    <3> QED
      BY <3>1, NodesOfRing, NodesApart DEF Ring
  <2>2. n \in 0 .. l /\ n # 0 /\ i + 1 \in 1 .. k + 1 /\ k + 1 - (i + 1) <= n - 1
    OBVIOUS
  <2>3. F[n - 1][NodeAt(h, s, i + 1)] = Rest(i + 1)
    BY <1>6, <2>2
  <2>4. F[n][s[i]] = <<s[i]>> \o Rest(i + 1)
    <3>1. F[n][s[i]] = <<s[i]>> \o F[n - 1][lk[s[i]].next]
      BY <1>4, <2>1, <2>2
    <3> QED
      BY <2>1, <2>3, <3>1
  <2>5. Rest(i) = <<s[i]>> \o Rest(i + 1)
    BY SubSeqRecursiveFirst
  <2> QED
    BY <2>1, <2>4, <2>5
<1>7. Fine(0)
  <2>1. 0 \in 0 .. l /\ \A i \in 1 .. k + 1 : k + 1 - i <= 0 => i = k + 1
    OBVIOUS
  <2> QED
    BY <1>5, <2>1
<1> HIDE DEF Fine
<1>8. ASSUME Bad # {} PROVE FALSE
  <2>1. PICK n \in Bad : \A m \in Bad : n <= m
    <3>1. Bad \in SUBSET Nat
      OBVIOUS
    <3> QED
      BY <1>8, <3>1, Assumed, W!LeastNat
  <2>2. n # 0
    BY <1>7, <2>1
  <2>3. n \in 1 .. l /\ n - 1 \in 0 .. l /\ ~(n <= n - 1)
    BY <2>1, <2>2
  <2>4. Fine(n - 1)
    BY <2>1, <2>3
  <2> QED
    BY <1>6, <2>1, <2>3, <2>4
<1>9. l \in 0 .. l /\ 1 \in 1 .. k + 1 /\ k + 1 - 1 <= l
  OBVIOUS
<1>10. F[l][NodeAt(h, s, 1)] = Rest(1)
  BY <1>8, <1>9 DEF Fine
<1>11. Rest(1) = s
  BY SubSeqFull
<1>12. lk[h].next = NodeAt(h, s, 1)
  BY RingEnds
<1> QED
  BY <1>3, <1>10, <1>11, <1>12

-----------------------------------------------------------------------------
(***************************************************************************)
(* Links lk make rings of the lists f, for the heads H; the lists share no *)
(* timer.                                                                  *)
(***************************************************************************)
Apart(f) ==
    /\ \A h \in Heads : W!NoRepeat(f[h])
    /\ \A h, m \in Heads : h # m => W!Range(f[h]) \cap W!Range(f[m]) = {}

Linked(lk, f, H) ==
    /\ lk \in [Nodes -> Links] /\ f \in [Heads -> Seq(Timers)] /\ Apart(f)
    /\ \A h \in H : Ring(lk, h, f[h])

Somewhere(f, t) == \E h \in Heads : t \in W!Range(f[h])

\* The same timers are pending in both.
SamePending(lk, lk2, T) == \A t \in T : lk2[t].next = NULL <=> lk[t].next = NULL

\* Only h, t and the timers of s are linked otherwise.
Elsewhere(lk, lk2, h, t, s) ==
    \A x \in Nodes : x \notin {h, t} \cup W!Range(s) => lk2[x] = lk[x]

\* The timers of s are linked as they were.
Untouched(lk, lk2, s) == \A x \in W!Range(s) : lk2[x] = lk[x]

LEMMA LinkedFacts ==
    ASSUME NEW lk, NEW f, NEW H \in SUBSET Heads, Linked(lk, f, H), NEW h \in Heads
    PROVE  /\ f[h] \in Seq(Timers) /\ W!NoRepeat(f[h]) /\ W!Range(f[h]) \subseteq Timers
           /\ lk \in [Nodes -> Links]
           /\ h \in H => Ring(lk, h, f[h]) /\ \A t \in W!Range(f[h]) : lk[t].next # NULL
<1>1. f[h] \in Seq(Timers) /\ W!NoRepeat(f[h]) /\ lk \in [Nodes -> Links]
  BY DEF Linked, Apart
<1>2. h \in H => Ring(lk, h, f[h])
  BY DEF Linked
<1> QED
  BY <1>1, <1>2, NodesOfRing, RingEnds, NodesApart

(* Only the ring of one head and a timer in no ring have changed.          *)
LEMMA OthersLinked ==
    ASSUME NEW lk, NEW f, NEW H \in SUBSET Heads, Linked(lk, f, H), NEW h \in Heads,
           NEW t \in Timers, \A m \in H \ {h} : t \notin W!Range(f[m]),
           NEW lk2, \A x \in Nodes : x \notin {h, t} \cup W!Range(f[h]) => lk2[x] = lk[x],
           NEW m \in H \ {h}
    PROVE  Ring(lk2, m, f[m])
<1>1. f[m] \in Seq(Timers) /\ W!Range(f[m]) \subseteq Timers /\ Ring(lk, m, f[m])
  BY LinkedFacts
<1>2. W!Range(f[m]) \cap W!Range(f[h]) = {} /\ W!Range(f[h]) \subseteq Timers
  BY LinkedFacts DEF Linked, Apart
<1>3. m \in Nodes /\ m \notin Timers /\ h \notin Timers /\ \A x \in Timers : x \in Nodes
  BY NodesApart
<1>4. \A x \in {m} \cup W!Range(f[m]) : x \in Nodes /\ x \notin {h, t} \cup W!Range(f[h])
  BY <1>1, <1>2, <1>3
<1> QED
  BY <1>1, <1>4, RingFrame

LEMMA AddLinks ==
    ASSUME NEW lk, NEW f, NEW H \in SUBSET Heads, Linked(lk, f, H), NEW h \in H,
           NEW t \in Timers, \A m \in H : t \notin W!Range(f[m]),
           NEW lk2, lk2 = AddTail(lk, t, h)
    PROVE  /\ lk2 \in [Nodes -> Links]
           /\ Ring(lk2, h, Append(f[h], t))
           /\ \A m \in H \ {h} : Ring(lk2, m, f[m])
           /\ Elsewhere(lk, lk2, h, t, f[h])
           /\ lk2[t].next # NULL /\ SamePending(lk, lk2, Timers \ {t})
<1>0. /\ lk \in [Nodes -> Links] /\ f[h] \in Seq(Timers) /\ Ring(lk, h, f[h])
      /\ W!NoRepeat(f[h]) /\ t \notin W!Range(f[h]) /\ h \in Heads
      /\ \A x \in W!Range(f[h]) : lk[x].next # NULL
  BY LinkedFacts
<1>2. /\ lk2 \in [Nodes -> Links]
      /\ Ring(lk2, h, Append(f[h], t))
      /\ \A x \in Nodes : x \notin {h, t} \cup W!Range(f[h]) => lk2[x] = lk[x]
  BY <1>0, RingAdd
<1>3. /\ Append(f[h], t) \in Seq(Timers)
      /\ W!Range(Append(f[h], t)) = W!Range(f[h]) \cup {t}
  BY <1>0, Assumed, W!AppendFacts
<1>4. \A x \in W!Range(f[h]) \cup {t} : lk2[x].next # NULL
  <2>1. PICK a \in Seq(Timers) : a = Append(f[h], t)
    BY <1>3
  <2>2. \A x \in W!Range(a) : lk2[x].next \in Nodes
    BY <1>0, <1>2, <2>1, RingEnds
  <2> QED
    BY <1>3, <2>1, <2>2, NodesApart
<1>5. SamePending(lk, lk2, Timers \ {t})
  BY <1>0, <1>2, <1>4, NodesApart DEF SamePending
<1>6. \A m \in H \ {h} : Ring(lk2, m, f[m])
  BY <1>0, <1>2, OthersLinked
<1> QED
  BY <1>2, <1>4, <1>5, <1>6 DEF Elsewhere

LEMMA LinkedAdd ==
    ASSUME NEW lk, NEW f, Linked(lk, f, Heads), NEW h \in Heads,
           NEW t \in Timers, ~Somewhere(f, t)
    PROVE  LET lk2 == AddTail(lk, t, h)
               f2 == [f EXCEPT ![h] = Append(@, t)]
           IN /\ Linked(lk2, f2, Heads)
              /\ lk2[t].next # NULL /\ SamePending(lk, lk2, Timers \ {t})
<1>0. /\ \A m \in Heads : t \notin W!Range(f[m])
      /\ \A m \in Heads : f[m] \in Seq(Timers) /\ W!NoRepeat(f[m])
      /\ \A m, n \in Heads : m # n => W!Range(f[m]) \cap W!Range(f[n]) = {}
      /\ f \in [Heads -> Seq(Timers)]
  BY LinkedFacts DEF Somewhere, Linked, Apart
<1>1. PICK lk2 : lk2 = AddTail(lk, t, h)
  OBVIOUS
<1>2. PICK f2 : f2 = [f EXCEPT ![h] = Append(@, t)]
  OBVIOUS
<1>3. /\ lk2 \in [Nodes -> Links]
      /\ Ring(lk2, h, Append(f[h], t))
      /\ \A m \in Heads \ {h} : Ring(lk2, m, f[m])
      /\ lk2[t].next # NULL /\ SamePending(lk, lk2, Timers \ {t})
  <2>1. Heads \in SUBSET Heads /\ \A m \in Heads : t \notin W!Range(f[m])
    BY <1>0
  <2> QED
    BY <1>1, <2>1, AddLinks
<1>4. PICK a \in Seq(Timers) : /\ a = Append(f[h], t) /\ W!NoRepeat(a)
                               /\ W!Range(a) = W!Range(f[h]) \cup {t}
  <2>1. f[h] \in Seq(Timers) /\ W!NoRepeat(f[h]) /\ t \notin W!Range(f[h])
    BY <1>0
  <2>2. /\ Append(f[h], t) \in Seq(Timers)
        /\ W!Range(Append(f[h], t)) = W!Range(f[h]) \cup {t}
        /\ W!NoRepeat(Append(f[h], t))
    BY <2>1, Assumed, W!AppendFacts
  <2> QED
    BY <2>2
<1>5. /\ f2 \in [Heads -> Seq(Timers)] /\ f2[h] = a
      /\ \A m \in Heads \ {h} : f2[m] = f[m]
  BY <1>0, <1>2, <1>4
<1>6. Apart(f2)
  <2>1. \A m \in Heads : /\ W!NoRepeat(f2[m])
                         /\ \A x : x \in W!Range(f2[m])
                                    <=> x \in W!Range(f[m]) \/ (m = h /\ x = t)
    BY <1>0, <1>4, <1>5
  <2>2. ASSUME NEW m \in Heads, NEW n \in Heads, m # n, NEW x \in W!Range(f2[m]),
               x \in W!Range(f2[n])
        PROVE  FALSE
    <3>1. /\ x \in W!Range(f[m]) \/ (m = h /\ x = t)
          /\ x \in W!Range(f[n]) \/ (n = h /\ x = t)
      BY <2>1, <2>2
    <3> QED
      BY <1>0, <2>2, <3>1
  <2> QED
    BY <2>1, <2>2 DEF Apart
<1>7. \A m \in Heads : Ring(lk2, m, f2[m])
  BY <1>3, <1>4, <1>5
<1> QED
  BY <1>1, <1>2, <1>3, <1>5, <1>6, <1>7 DEF Linked

(* The links of a timer in no list do not matter.                          *)
LEMMA LinkedTouch ==
    ASSUME NEW lk, NEW f, Linked(lk, f, Heads), NEW t \in Timers, ~Somewhere(f, t),
           NEW lk2 \in [Nodes -> Links], \A x \in Nodes : x # t => lk2[x] = lk[x]
    PROVE  Linked(lk2, f, Heads) /\ SamePending(lk, lk2, Timers \ {t})
<1>1. ASSUME NEW h \in Heads PROVE Ring(lk2, h, f[h])
  <2>1. f[h] \in Seq(Timers) /\ W!Range(f[h]) \subseteq Timers /\ Ring(lk, h, f[h])
    BY LinkedFacts
  <2>2. \A x \in {h} \cup W!Range(f[h]) : lk2[x] = lk[x]
    BY <2>1, NodesApart DEF Somewhere
  <2> QED
    BY <2>1, <2>2, RingFrame
<1>2. SamePending(lk, lk2, Timers \ {t})
  BY NodesApart DEF SamePending
<1> QED
  BY <1>1, <1>2 DEF Linked

LEMMA LinkedDetach ==
    ASSUME NEW lk, NEW f, Linked(lk, f, Heads), NEW t \in Timers, Somewhere(f, t)
    PROVE  LET lk2 == DetachOnly(lk, t)
               f2 == [m \in Heads |-> W!Without(f[m], t)]
           IN /\ Linked(lk2, f2, Heads) /\ ~Somewhere(f2, t)
              /\ SamePending(lk, lk2, Timers \ {t})
<1>1. PICK h \in Heads : t \in W!Range(f[h])
  BY DEF Somewhere
<1>2. /\ \A m \in Heads : f[m] \in Seq(Timers) /\ W!NoRepeat(f[m]) /\ Ring(lk, m, f[m])
      /\ \A m, n \in Heads : m # n => W!Range(f[m]) \cap W!Range(f[n]) = {}
      /\ \A x \in W!Range(f[h]) : lk[x].next # NULL
      /\ lk \in [Nodes -> Links]
  BY LinkedFacts DEF Linked, Apart
<1>3. PICK i \in 1 .. Len(f[h]) : f[h][i] = t
  BY <1>1, <1>2, Assumed, W!RangeIs
<1>4. PICK lk2 : lk2 = DetachOnly(lk, t)
  OBVIOUS
<1>5. PICK f2 : f2 = [m \in Heads |-> W!Without(f[m], t)]
  OBVIOUS
<1>6. /\ lk2 \in [Nodes -> Links]
      /\ Ring(lk2, h, Removed(f[h], i))
      /\ \A x \in Nodes : x \notin {h} \cup W!Range(f[h]) => lk2[x] = lk[x]
  <2>1. PICK s \in Seq(Timers) : s = f[h] /\ W!NoRepeat(s) /\ Ring(lk, h, s) /\ i \in 1 .. Len(s)
    BY <1>2
  <2>2. LET l == DetachOnly(lk, s[i])
        IN /\ l \in [Nodes -> Links]
           /\ Ring(l, h, Removed(s, i))
           /\ \A x \in Nodes : x \notin {h} \cup W!Range(s) => l[x] = lk[x]
    BY <1>2, <2>1, RingDel
  <2> QED
    BY <1>3, <1>4, <2>1, <2>2
<1>7. f2[h] = Removed(f[h], i)
  BY <1>2, <1>3, <1>5, WithoutOne
<1>8. \A m \in Heads \ {h} : t \notin W!Range(f[m]) /\ f2[m] = f[m]
  BY <1>1, <1>2, <1>5, WithoutNone
<1>9. \A m \in Heads : /\ f2[m] \in Seq(Timers) /\ W!NoRepeat(f2[m])
                       /\ \A x : x \in W!Range(f2[m]) <=> x \in W!Range(f[m]) /\ x # t
  BY <1>2, <1>5, Assumed, W!WithoutFacts
<1>10. Apart(f2) /\ ~Somewhere(f2, t)
  BY <1>2, <1>9 DEF Apart, Somewhere
<1>11. ASSUME NEW m \in Heads \ {h} PROVE Ring(lk2, m, f2[m])
  <2>1. Heads \in SUBSET Heads /\ \A n \in Heads \ {h} : t \notin W!Range(f[n])
    BY <1>8
  <2>2. \A x \in Nodes : x \notin {h, t} \cup W!Range(f[h]) => lk2[x] = lk[x]
    BY <1>6
  <2>3. Ring(lk2, m, f[m])
    BY <2>1, <2>2, OthersLinked
  <2> QED
    BY <1>8, <2>3
<1>12. SamePending(lk, lk2, Timers \ {t})
  <2>1. ASSUME NEW x \in W!Range(f[h]), x # t PROVE lk2[x].next # NULL
    <3>1. x \in W!Range(f2[h])
      BY <1>9, <2>1
    <3>2. f2[h] \in Seq(Timers) /\ Ring(lk2, h, f2[h])
      BY <1>6, <1>7, <1>9
    <3> QED
      BY <3>1, <3>2, RingEnds, NodesApart
  <2>2. ASSUME NEW x \in Timers, x \notin W!Range(f[h]) PROVE lk2[x] = lk[x]
    BY <1>6, <2>2, NodesApart
  <2> QED
    BY <1>2, <2>1, <2>2 DEF SamePending
<1>13. f2 \in [Heads -> Seq(Timers)] /\ \A m \in Heads : Ring(lk2, m, f2[m])
  BY <1>5, <1>6, <1>7, <1>9, <1>11
<1> QED
  BY <1>4, <1>5, <1>6, <1>10, <1>12, <1>13 DEF Linked

(***************************************************************************)
(* The rings that a list is given to and taken from as a whole.            *)
(***************************************************************************)
LEMMA LinkedInitHead ==
    ASSUME NEW lk, NEW f, NEW h \in Heads, Linked(lk, f, Heads \ {h}), f[h] = <<>>
    PROVE  Linked(InitHead(lk, h), f, Heads) /\ SamePending(lk, InitHead(lk, h), Timers)
<1>1. PICK lk2 : lk2 = InitHead(lk, h)
  OBVIOUS
<1>2. /\ lk2 \in [Nodes -> Links] /\ lk2[h] = [next |-> h, prev |-> h]
      /\ \A x \in Nodes : x # h => lk2[x] = lk[x]
  <2>1. lk \in [Nodes -> Links] /\ h \in Nodes /\ [next |-> h, prev |-> h] \in Links
    BY NodesApart DEF Linked, Links
  <2> QED
    BY <1>1, <2>1 DEF InitHead
<1>3. ASSUME NEW m \in Heads \ {h} PROVE Ring(lk2, m, f[m])
  <2>1. Ring(lk, m, f[m]) /\ f[m] \in Seq(Timers) /\ m \in Heads
    BY DEF Linked
  <2>2. W!Range(f[m]) \subseteq Timers
    BY <2>1, NodesOfRing
  <2>3. \A x \in {m} \cup W!Range(f[m]) : lk2[x] = lk[x]
    BY <1>2, <2>2, NodesApart
  <2> QED
    BY <2>1, <2>3, RingFrame
<1>4. Ring(lk2, h, f[h])
  BY <1>2, EmptyRing
<1>5. SamePending(lk, lk2, Timers)
  BY <1>2, NodesApart DEF SamePending
<1>6. Apart(f) /\ f \in [Heads -> Seq(Timers)]
  BY DEF Linked
<1> QED
  BY <1>1, <1>2, <1>3, <1>4, <1>5, <1>6 DEF Linked

LEMMA SpliceIs ==
    ASSUME NEW lk \in [Nodes -> Links], NEW a \in Nodes, NEW b \in Nodes, a # b,
           NEW first \in Nodes, NEW last \in Nodes, first = lk[a].next, last = lk[a].prev,
           first # b, last # b, lk[b].next = b
    PROVE  LET lk2 == Splice(lk, a, b)
           IN /\ lk2 \in [Nodes -> Links]
              /\ lk2[b] = [next |-> first, prev |-> last]
              /\ \A x \in Nodes \ {b} :
                   /\ lk2[x].next = IF x = last THEN b ELSE lk[x].next
                   /\ lk2[x].prev = IF x = first THEN b ELSE lk[x].prev
                   /\ x \notin {first, last} => lk2[x] = lk[x]
<1>1. PICK l1 : l1 = [lk EXCEPT ![first].prev = b]
  OBVIOUS
<1>2. PICK l2 : l2 = [l1 EXCEPT ![b].next = first]
  OBVIOUS
<1>3. PICK l3 : l3 = [l2 EXCEPT ![last].next = b]
  OBVIOUS
<1>4. PICK l4 : l4 = [l3 EXCEPT ![b].prev = last]
  OBVIOUS
<1>5. Splice(lk, a, b) = l4
  BY <1>1, <1>2, <1>3, <1>4 DEF Splice
<1>6. /\ l1 \in [Nodes -> Links]
      /\ \A x \in Nodes : /\ l1[x].next = lk[x].next
                          /\ l1[x].prev = IF x = first THEN b ELSE lk[x].prev
                          /\ x # first => l1[x] = lk[x]
  BY <1>1 DEF Links
<1>7. /\ l2 \in [Nodes -> Links] /\ l2[b].next = first
      /\ \A x \in Nodes : x # b => l2[x] = l1[x]
  BY <1>2, <1>6 DEF Links
<1>8. /\ l3 \in [Nodes -> Links]
      /\ \A x \in Nodes : /\ l3[x].prev = l2[x].prev
                          /\ l3[x].next = IF x = last THEN b ELSE l2[x].next
                          /\ x # last => l3[x] = l2[x]
  BY <1>3, <1>7 DEF Links
<1>9. /\ l4 \in [Nodes -> Links] /\ l4[b].prev = last /\ l4[b].next = l3[b].next
      /\ \A x \in Nodes : x # b => l4[x] = l3[x]
  BY <1>4, <1>8 DEF Links
<1>10. l4[b] = [next |-> first, prev |-> last]
  <2>1. l4[b] \in Links
    BY <1>9
  <2>2. l4[b].next = first /\ l4[b].prev = last
    BY <1>7, <1>8, <1>9
  <2> QED
    BY <2>1, <2>2 DEF Links
<1> QED
  BY <1>5, <1>6, <1>7, <1>8, <1>9, <1>10

LEMMA LinkedSplice ==
    ASSUME NEW lk, NEW f, Linked(lk, f, Heads), NEW l \in Heads, NEW w \in Heads, l # w,
           f[w] = <<>>
    PROVE  LET lk2 == SpliceInit(lk, l, w)
               f2 == [f EXCEPT ![w] = f[l], ![l] = <<>>]
           IN Linked(lk2, f2, Heads) /\ SamePending(lk, lk2, Timers)
<1> PICK s \in Seq(Timers), n \in Nat : /\ s = f[l] /\ n = Len(s) /\ W!NoRepeat(s)
                                       /\ W!Range(s) \subseteq Timers
  BY LinkedFacts, NodesOfRing
<1>0. /\ lk \in [Nodes -> Links] /\ f \in [Heads -> Seq(Timers)] /\ Apart(f)
      /\ \A m \in Heads : Ring(lk, m, f[m]) /\ f[m] \in Seq(Timers)
  BY DEF Linked
<1>1. PICK lk2 : lk2 = SpliceInit(lk, l, w)
  OBVIOUS
<1>2. PICK f2 : f2 = [f EXCEPT ![w] = f[l], ![l] = <<>>]
  OBVIOUS
<1>3. /\ f2 \in [Heads -> Seq(Timers)] /\ f2[w] = s /\ f2[l] = <<>>
      /\ \A m \in Heads : m \notin {l, w} => f2[m] = f[m]
  <2>1. <<>> \in Seq(Timers)
    BY EmptySeq
  <2> QED
    BY <1>0, <1>2, <2>1
<1>4. lk[w].next = w /\ (s = <<>> <=> lk[l].next = l)
  BY <1>0, RingEnds
<1>5. CASE s = <<>>
  <2>1. lk2 = lk
    BY <1>1, <1>4, <1>5 DEF SpliceInit, ListEmpty
  <2>2. f2 = f
    BY <1>0, <1>2, <1>3, <1>5
  <2> QED
    BY <1>1, <1>2, <2>1, <2>2 DEF SamePending
<1>6. CASE s # <<>>
  <2>1. 1 \in 1 .. n /\ n \in 1 .. n
    BY <1>6, EmptySeq
  <2>2. /\ s[1] = lk[l].next /\ s[n] = lk[l].prev
        /\ \A i \in 1 .. n : s[i] \in Timers /\ s[i] \in Nodes /\ s[i] # w /\ s[i] # l
        /\ l \in Nodes /\ w \in Nodes
    <3>1. lk[l].next = NodeAt(l, s, 1) /\ lk[l].prev = NodeAt(l, s, n)
      BY <1>0, RingEnds
    <3> QED
      BY <2>1, <3>1, NodesOfRing, NodesApart
  <2>3. PICK l1 \in [Nodes -> Links] :
           /\ l1 = Splice(lk, l, w)
           /\ l1[w] = [next |-> s[1], prev |-> s[n]]
           /\ \A x \in Nodes \ {w} :
                /\ l1[x].next = IF x = s[n] THEN w ELSE lk[x].next
                /\ l1[x].prev = IF x = s[1] THEN w ELSE lk[x].prev
                /\ x \notin {s[1], s[n]} => l1[x] = lk[x]
    <3>1. PICK first \in Nodes, last \in Nodes :
              /\ first = s[1] /\ last = s[n] /\ first # w /\ last # w
              /\ first = lk[l].next /\ last = lk[l].prev
      BY <2>1, <2>2
    <3>2. LET l1 == Splice(lk, l, w)
          IN /\ l1 \in [Nodes -> Links]
             /\ l1[w] = [next |-> first, prev |-> last]
             /\ \A x \in Nodes \ {w} :
                  /\ l1[x].next = IF x = last THEN w ELSE lk[x].next
                  /\ l1[x].prev = IF x = first THEN w ELSE lk[x].prev
                  /\ x \notin {first, last} => l1[x] = lk[x]
      BY <1>0, <1>4, <2>2, <3>1, SpliceIs
    <3> QED
      BY <3>1, <3>2
  <2>4. lk2 = InitHead(l1, l)
    BY <1>1, <1>4, <1>6, <2>3 DEF SpliceInit, ListEmpty
  <2>5. Ring(l1, w, s)
    <3> SUFFICES ASSUME NEW i \in 0 .. n
                 PROVE  /\ l1[NodeAt(w, s, i)].next = NodeAt(w, s, i + 1)
                        /\ l1[NodeAt(w, s, i + 1)].prev = NodeAt(w, s, i)
      BY DEF Ring
    <3>1. /\ \A j \in 1 .. n : NodeAt(w, s, j) = s[j] /\ NodeAt(l, s, j) = s[j]
          /\ NodeAt(w, s, 0) = w /\ NodeAt(w, s, n + 1) = w
      BY NodesOfRing
    <3>2. CASE i = 0
      <4>1. NodeAt(w, s, i) = w /\ NodeAt(w, s, i + 1) = s[1]
        BY <2>1, <3>1, <3>2
      <4> QED
        BY <2>1, <2>2, <2>3, <4>1
    <3>3. CASE i = n
      <4>1. NodeAt(w, s, i) = s[n] /\ NodeAt(w, s, i + 1) = w
        BY <2>1, <3>1, <3>3
      <4> QED
        BY <2>1, <2>2, <2>3, <4>1
    <3>4. CASE i # 0 /\ i # n
      <4>1. i \in 1 .. n /\ i + 1 \in 1 .. n /\ i # n /\ i + 1 # 1
        BY <3>4
      <4>2. s[i] # s[n] /\ s[i + 1] # s[1]
        BY <2>1, <4>1 DEF W!NoRepeat
      <4>3. lk[s[i]].next = s[i + 1] /\ lk[s[i + 1]].prev = s[i]
        BY <1>0, <3>1, <4>1 DEF Ring
      <4> QED
        BY <2>2, <2>3, <3>1, <4>1, <4>2, <4>3
    <3> QED
      BY <3>2, <3>3, <3>4
  <2>6. Apart(f2)
    <3>1. Len(<<>>) = 0 /\ W!Range(<<>>) = {} /\ W!NoRepeat(<<>>)
      <4>1. <<>> \in Seq(Timers) /\ Len(<<>>) = 0
        BY EmptySeq
      <4>2. W!Range(<<>>) = {}
        BY <4>1, Assumed, W!RangeIs
      <4> QED
        BY <4>1, <4>2 DEF W!NoRepeat
    <3>2. /\ \A m \in Heads : W!NoRepeat(f[m])
          /\ \A m, k \in Heads : m # k => W!Range(f[m]) \cap W!Range(f[k]) = {}
      BY <1>0 DEF Apart
    <3>3. \A m \in Heads : W!NoRepeat(f2[m])
      BY <1>3, <3>1, <3>2
    <3>4. ASSUME NEW m \in Heads, NEW k \in Heads, m # k
          PROVE  W!Range(f2[m]) \cap W!Range(f2[k]) = {}
      BY <1>3, <3>1, <3>2, <3>4
    <3> QED
      BY <3>3, <3>4 DEF Apart
  <2>7. ASSUME NEW m \in Heads, m \notin {l, w} PROVE Ring(l1, m, f2[m])
    <3>1. f[m] \in Seq(Timers) /\ Ring(lk, m, f[m]) /\ f2[m] = f[m]
      BY <1>0, <1>3, <2>7
    <3>2. W!Range(f[m]) \subseteq Timers /\ W!Range(f[m]) \cap W!Range(s) = {}
      BY <1>0, <2>7, <3>1, NodesOfRing DEF Apart
    <3>3. s[1] \in W!Range(s) /\ s[n] \in W!Range(s)
      BY <2>1, NodesOfRing
    <3>4. \A x \in {m} \cup W!Range(f[m]) : l1[x] = lk[x]
      BY <2>1, <2>2, <2>3, <2>7, <3>2, <3>3, NodesApart
    <3> QED
      BY <3>1, <3>4, RingFrame
  <2>8. Linked(l1, f2, Heads \ {l})
    BY <1>3, <2>3, <2>5, <2>6, <2>7 DEF Linked
  <2>9. SamePending(lk, l1, Timers)
    <3> SUFFICES ASSUME NEW x \in Timers PROVE l1[x].next = NULL <=> lk[x].next = NULL
      BY DEF SamePending
    <3>1. CASE x = s[n]
      <4>1. x \in W!Range(f[l]) /\ lk[x].next \in Nodes
        BY <1>0, <2>1, <3>1, NodesOfRing, RingEnds
      <4>2. l1[x].next = w
        BY <2>1, <2>2, <2>3, <3>1
      <4> QED
        BY <4>1, <4>2, NodesApart
    <3>2. CASE x # s[n]
      <4>1. x \in Nodes \ {w}
        BY NodesApart
      <4> QED
        BY <2>3, <3>2, <4>1
    <3> QED
      BY <3>1, <3>2
  <2>10. Linked(lk2, f2, Heads) /\ SamePending(l1, lk2, Timers)
    BY <1>3, <2>4, <2>8, LinkedInitHead
  <2> QED
    BY <1>1, <1>2, <2>9, <2>10 DEF SamePending
<1> QED
  BY <1>5, <1>6

-----------------------------------------------------------------------------
(***************************************************************************)
(* A cascade.  While it walks the list of l, the ring of l is broken; the  *)
(* other rings are whole, and g[l] is what it has yet to move.             *)
(***************************************************************************)
\* A step of the walk of list l: the first timer, t, goes to the end of list m.
Walked(g, l, m, t) ==
    [h \in Heads |-> IF h = m THEN Append(g[h], t)
                     ELSE IF h = l THEN Tail(g[h]) ELSE g[h]]

LEMMA WalkStep ==
    ASSUME NEW lk, NEW g, NEW l \in Heads, Linked(lk, g, Heads \ {l}), g[l] # <<>>,
           NEW t \in Timers, t = Head(g[l]), lk[t].next # NULL, NEW m \in Heads \ {l},
           NEW lk2, lk2 = AddTail(lk, t, m),
           NEW g2, g2 = Walked(g, l, m, t)
    PROVE  /\ Linked(lk2, g2, Heads \ {l}) /\ SamePending(lk, lk2, Timers)
           /\ Untouched(lk, lk2, Tail(g[l]))
<1>0. /\ \A h \in Heads : /\ g[h] \in Seq(Timers) /\ W!NoRepeat(g[h])
                          /\ W!Range(g[h]) \subseteq Timers
      /\ \A h, k \in Heads : h # k => W!Range(g[h]) \cap W!Range(g[k]) = {}
      /\ Heads \ {l} \in SUBSET Heads
  BY LinkedFacts DEF Linked, Apart
<1>1. PICK r \in Seq(Timers) : /\ r = Tail(g[l]) /\ W!Range(g[l]) = W!Range(r) \cup {t}
                               /\ W!NoRepeat(r) /\ t \notin W!Range(r)
  <2>1. g[l] \in Seq(Timers) /\ W!NoRepeat(g[l])
    BY <1>0
  <2>2. /\ Tail(g[l]) \in Seq(Timers)
        /\ W!Range(g[l]) = W!Range(Tail(g[l])) \cup {Head(g[l])}
        /\ W!NoRepeat(Tail(g[l])) /\ Head(g[l]) \notin W!Range(Tail(g[l]))
    BY <2>1, Assumed, W!HeadFacts
  <2> QED
    BY <2>2
<1>2. \A h \in Heads \ {l} : t \notin W!Range(g[h])
  BY <1>0, <1>1
<1>4. /\ lk2 \in [Nodes -> Links]
      /\ Ring(lk2, m, Append(g[m], t))
      /\ \A h \in (Heads \ {l}) \ {m} : Ring(lk2, h, g[h])
      /\ \A x \in Nodes : x \notin {m, t} \cup W!Range(g[m]) => lk2[x] = lk[x]
      /\ lk2[t].next # NULL /\ SamePending(lk, lk2, Timers \ {t})
  <2>1. PICK H \in SUBSET Heads : /\ H = Heads \ {l} /\ Linked(lk, g, H) /\ m \in H
                                  /\ \A h \in H : t \notin W!Range(g[h])
    BY <1>0, <1>2
  <2>2. /\ lk2 \in [Nodes -> Links]
        /\ Ring(lk2, m, Append(g[m], t))
        /\ \A h \in H \ {m} : Ring(lk2, h, g[h])
        /\ Elsewhere(lk, lk2, m, t, g[m])
        /\ lk2[t].next # NULL /\ SamePending(lk, lk2, Timers \ {t})
    BY <2>1, AddLinks
  <2> QED
    BY <2>1, <2>2 DEF Elsewhere
<1>5. PICK a \in Seq(Timers) : /\ a = Append(g[m], t) /\ W!NoRepeat(a)
                               /\ W!Range(a) = W!Range(g[m]) \cup {t}
  <2>1. g[m] \in Seq(Timers) /\ W!NoRepeat(g[m]) /\ t \notin W!Range(g[m])
    BY <1>0, <1>2
  <2>2. /\ Append(g[m], t) \in Seq(Timers)
        /\ W!Range(Append(g[m], t)) = W!Range(g[m]) \cup {t}
        /\ W!NoRepeat(Append(g[m], t))
    BY <2>1, Assumed, W!AppendFacts
  <2> QED
    BY <2>2
<1>7. /\ g2 \in [Heads -> Seq(Timers)] /\ g2[m] = a /\ g2[l] = r
      /\ \A h \in Heads : h \notin {m, l} => g2[h] = g[h]
  BY <1>0, <1>1, <1>5 DEF Walked
<1>8. Apart(g2)
  <2>1. \A h \in Heads : /\ W!NoRepeat(g2[h])
                         /\ \A x : x \in W!Range(g2[h])
                                    <=> \/ x \in W!Range(g[h]) /\ x # t
                                        \/ h = m /\ x = t
    <3> SUFFICES ASSUME NEW h \in Heads
                 PROVE  /\ W!NoRepeat(g2[h])
                        /\ \A x : x \in W!Range(g2[h])
                                   <=> \/ x \in W!Range(g[h]) /\ x # t
                                       \/ h = m /\ x = t
      OBVIOUS
    <3>1. CASE h = m
      BY <1>2, <1>5, <1>7, <3>1
    <3>2. CASE h = l
      BY <1>1, <1>7, <3>2
    <3>3. CASE h \notin {m, l}
      BY <1>0, <1>2, <1>7, <3>3
    <3> QED
      BY <3>1, <3>2, <3>3
  <2>2. ASSUME NEW h \in Heads, NEW k \in Heads, h # k, NEW x \in W!Range(g2[h]),
               x \in W!Range(g2[k])
        PROVE  FALSE
    <3>1. /\ (x \in W!Range(g[h]) /\ x # t) \/ (h = m /\ x = t)
          /\ (x \in W!Range(g[k]) /\ x # t) \/ (k = m /\ x = t)
      BY <2>1, <2>2
    <3> QED
      BY <1>0, <2>2, <3>1
  <2> QED
    BY <2>1, <2>2 DEF Apart
<1>9. \A h \in Heads \ {l} : Ring(lk2, h, g2[h])
  BY <1>4, <1>5, <1>7
<1>10. SamePending(lk, lk2, Timers)
  BY <1>4 DEF SamePending
<1>11. \A x \in W!Range(r) : lk2[x] = lk[x]
  <2>1. \A x \in W!Range(r) : x \in W!Range(g[l]) /\ x # t /\ x \in Timers
    BY <1>0, <1>1
  <2>2. \A x \in W!Range(r) : x \in Nodes /\ x \notin {m, t} \cup W!Range(g[m])
    BY <1>0, <2>1, NodesApart
  <2> QED
    BY <1>4, <2>2
<1> QED
  BY <1>1, <1>4, <1>7, <1>8, <1>9, <1>10, <1>11 DEF Linked, Untouched

\* u[n] is where the walk of a cascade is after n steps.
MovesAre(u, lk, head, k) ==
    /\ u = [n \in 0 .. k |-> u[n]] /\ u[0] = [lk |-> lk, curr |-> lk[head].next]
    /\ \A n \in 1 .. k : u[n] = MoveNext(u[n - 1], head)

LEMMA MovesExist ==
    ASSUME NEW l \in Nat, NEW lk, NEW head
    PROVE  \E u : MovesAre(u, lk, head, l)
<1> DEFINE Bad == {k \in Nat : ~\E u : MovesAre(u, lk, head, k)}
<1>1. ASSUME Bad # {} PROVE FALSE
  <2>1. PICK k \in Bad : \A m \in Bad : k <= m
    <3>1. Bad \in SUBSET Nat
      OBVIOUS
    <3> QED
      BY <1>1, <3>1, Assumed, W!LeastNat
  <2>2. CASE k = 0
    <3>1. PICK u : u = [n \in 0 .. 0 |-> [lk |-> lk, curr |-> lk[head].next]]
      OBVIOUS
    <3>2. MovesAre(u, lk, head, 0)
      BY <3>1 DEF MovesAre
    <3> QED
      BY <2>1, <2>2, <3>2
  <2>3. CASE k # 0
    <3>1. k \in 1 .. k /\ k - 1 \in Nat /\ ~(k <= k - 1)
      BY <2>1, <2>3
    <3>2. PICK u : MovesAre(u, lk, head, k - 1)
      BY <2>1, <3>1
    <3>3. PICK w : w = [n \in 0 .. k |-> IF n # k THEN u[n] ELSE MoveNext(u[k - 1], head)]
      OBVIOUS
    <3>4. w = [n \in 0 .. k |-> w[n]] /\ w[0] = [lk |-> lk, curr |-> lk[head].next]
      BY <3>1, <3>2, <3>3 DEF MovesAre
    <3>5. ASSUME NEW n \in 1 .. k PROVE w[n] = MoveNext(w[n - 1], head)
      <4>1. n \in 0 .. k /\ n - 1 \in 0 .. k /\ n - 1 # k
        BY <3>1
      <4>2. w[n - 1] = u[n - 1]
        BY <3>3, <4>1
      <4>3. CASE n = k
        BY <3>3, <4>1, <4>2, <4>3
      <4>4. CASE n # k
        <5>1. n \in 1 .. k - 1
          BY <3>1, <4>4
        <5> QED
          BY <3>2, <3>3, <4>1, <4>2, <4>4, <5>1 DEF MovesAre
      <4> QED
        BY <4>3, <4>4
    <3>6. MovesAre(w, lk, head, k)
      BY <3>4, <3>5 DEF MovesAre
    <3> QED
      BY <2>1, <3>6
  <2> QED
    BY <2>2, <2>3
<1> QED
  BY <1>1

LEMMA MoveAllIs ==
    ASSUME NEW lk, NEW head, Longest \in Nat
    PROVE  \E u : /\ MoveAll(lk, head) = u[Longest].lk
                  /\ u[0] = [lk |-> lk, curr |-> lk[head].next]
                  /\ \A n \in 1 .. Longest : u[n] = MoveNext(u[n - 1], head)
<1> DEFINE P(u) == u = [n \in 0 .. Longest |->
                          IF n = 0 THEN [lk |-> lk, curr |-> lk[head].next]
                          ELSE MoveNext(u[n - 1], head)]
           M == CHOOSE u : P(u)
<1>1. \E u : P(u)
  <2>1. PICK u : MovesAre(u, lk, head, Longest)
    BY MovesExist
  <2>2. \A n \in 0 .. Longest : n = 0 \/ n \in 1 .. Longest
    OBVIOUS
  <2>3. \A n \in 0 .. Longest : u[n] = IF n = 0 THEN [lk |-> lk, curr |-> lk[head].next]
                                       ELSE MoveNext(u[n - 1], head)
    BY <2>1, <2>2 DEF MovesAre
  <2>4. P(u)
    BY <2>1, <2>3 DEF MovesAre
  <2> QED
    BY <2>4
<1>2. P(M)
  BY <1>1
<1>3. MoveAll(lk, head) = M[Longest].lk
  BY DEF MoveAll
<1> HIDE DEF M
<1>4. \A n \in 0 .. Longest : M[n] = IF n = 0 THEN [lk |-> lk, curr |-> lk[head].next]
                                     ELSE MoveNext(M[n - 1], head)
  BY <1>2
<1> HIDE DEF P
<1>5. 0 \in 0 .. Longest /\ \A n \in 1 .. Longest : n \in 0 .. Longest /\ n # 0
  OBVIOUS
<1>6. M[0] = [lk |-> lk, curr |-> lk[head].next]
  BY <1>4, <1>5
<1>7. \A n \in 1 .. Longest : M[n] = MoveNext(M[n - 1], head)
  BY <1>4, <1>5
<1> QED
  BY <1>3, <1>6, <1>7

\* Where l's timers s have been walked up to the k-th: lists, and links.
WalkedLists(f, l, k) ==
    [m \in Heads |-> IF m = l THEN SubSeq(f[l], k + 1, Len(f[l]))
                     ELSE f[m] \o W!OnlyUpTo(f[l], W!Belong(m))[k]]

WalkedTo(lk, f, l, k, at) ==
    /\ at.curr = NodeAt(l, f[l], k + 1)
    /\ Linked(at.lk, WalkedLists(f, l, k), Heads \ {l}) /\ SamePending(lk, at.lk, Timers)
    /\ \A i \in k + 1 .. Len(f[l]) : at.lk[f[l][i]].next = NodeAt(l, f[l], i + 1)

LEMMA OnlyUpToFacts ==
    ASSUME NEW s \in Seq(Timers), NEW S, NEW k \in 0 .. Len(s)
    PROVE  W!OnlyUpTo(s, S)[k] \in Seq(Timers)
<1> PICK n \in Nat : n = Len(s)
  BY Assumed, W!RangeIs
<1> PICK O : O = W!OnlyUpTo(s, S)
  OBVIOUS
<1>1. /\ O[0] = <<>>
      /\ \A j \in 1 .. n : O[j] = IF s[j] \in S THEN Append(O[j - 1], s[j]) ELSE O[j - 1]
  BY Assumed, W!OnlySteps
<1> DEFINE Bad == {j \in 0 .. n : O[j] \notin Seq(Timers)}
<1>2. ASSUME Bad # {} PROVE FALSE
  <2>1. PICK j \in Bad : \A m \in Bad : j <= m
    <3>1. Bad \in SUBSET Nat
      OBVIOUS
    <3> QED
      BY <1>2, <3>1, Assumed, W!LeastNat
  <2>2. j # 0
    BY <1>1, <2>1, EmptySeq
  <2>3. j \in 1 .. n /\ j - 1 \in 0 .. n /\ ~(j <= j - 1)
    BY <2>1, <2>2
  <2>4. O[j - 1] \in Seq(Timers)
    BY <2>1, <2>3
  <2>5. s[j] \in Timers
    BY <2>3, ElementOfSeq
  <2>6. Append(O[j - 1], s[j]) \in Seq(Timers)
    BY <2>4, <2>5, AppendProperties
  <2>7. O[j] \in Seq(Timers)
    BY <1>1, <2>3, <2>4, <2>6
  <2> QED
    BY <2>1, <2>7
<1> QED
  BY <1>2

LEMMA ConcatAppend ==
    ASSUME NEW s \in Seq(Timers), NEW r \in Seq(Timers), NEW t \in Timers
    PROVE  Append(s \o r, t) = s \o Append(r, t)
<1> PICK q \in Seq(Timers), k \in Nat, l \in Nat : q = s \o r /\ k = Len(s) /\ l = Len(r)
  BY ConcatProperties, Assumed, W!RangeIs
<1> PICK a \in Seq(Timers), b \in Seq(Timers) : a = Append(q, t) /\ b = Append(r, t)
  BY AppendProperties
<1> PICK c \in Seq(Timers) : c = s \o b
  BY ConcatProperties
<1>1. /\ Len(q) = k + l
      /\ \A i \in 1 .. k + l : q[i] = IF i <= k THEN s[i] ELSE r[i - k]
  BY ConcatProperties
<1>2. Len(b) = l + 1 /\ (\A i \in 1 .. l : b[i] = r[i]) /\ b[l + 1] = t
  BY AppendProperties
<1>3. Len(a) = k + l + 1 /\ (\A i \in 1 .. k + l : a[i] = q[i]) /\ a[k + l + 1] = t
  BY <1>1, AppendProperties
<1>4. /\ Len(c) = k + (l + 1)
      /\ \A i \in 1 .. k + (l + 1) : c[i] = IF i <= k THEN s[i] ELSE b[i - k]
  <2>1. /\ Len(c) = Len(s) + Len(b)
        /\ \A i \in 1 .. Len(s) + Len(b) : c[i] = IF i <= Len(s) THEN s[i] ELSE b[i - Len(s)]
    BY ConcatProperties
  <2>2. Len(s) = k /\ Len(b) = l + 1
    BY <1>2
  <2> QED
    BY <2>1, <2>2
<1>5. ASSUME NEW i \in 1 .. k + l + 1 PROVE a[i] = c[i]
  <2>1. CASE i = k + l + 1
    <3>1. ~(i <= k) /\ i - k = l + 1
      BY <2>1
    <3> QED
      BY <1>2, <1>3, <1>4, <2>1, <3>1
  <2>2. CASE i \in 1 .. k + l /\ ~(i <= k)
    <3>1. i - k \in 1 .. l
      BY <2>2
    <3> QED
      BY <1>1, <1>2, <1>3, <1>4, <2>2, <3>1
  <2>3. CASE i <= k
    <3>1. i \in 1 .. k + l /\ i \in 1 .. k + (l + 1)
      BY <2>3
    <3> QED
      BY <1>1, <1>3, <1>4, <2>3, <3>1
  <2> QED
    BY <2>1, <2>2, <2>3
<1>6. Len(a) = Len(c) /\ \A i \in 1 .. Len(a) : a[i] = c[i]
  <2>1. k + (l + 1) = k + l + 1
    OBVIOUS
  <2>2. Len(a) = k + l + 1 /\ Len(c) = k + l + 1
    BY <1>3, <1>4, <2>1
  <2> QED
    BY <1>5, <2>2
<1> QED
  BY <1>6, SeqEqual

LEMMA OnlyStep ==
    ASSUME NEW s \in Seq(Timers), NEW S, NEW O, O = W!OnlyUpTo(s, S), NEW i \in 1 .. Len(s)
    PROVE  O[i] = IF s[i] \in S THEN Append(O[i - 1], s[i]) ELSE O[i - 1]
<1>1. /\ O[0] = <<>>
      /\ \A k \in 1 .. Len(s) : O[k] = IF s[k] \in S THEN Append(O[k - 1], s[k]) ELSE O[k - 1]
  BY Assumed, W!OnlySteps
<1> QED
  BY <1>1

LEMMA WalkOn ==
    ASSUME NEW lk, NEW f, Linked(lk, f, Heads), NEW l \in Lists, NEW k \in 0 .. Len(f[l]) - 1,
           NEW at, WalkedTo(lk, f, l, k, at),
           W!ListOf(expires[f[l][k + 1]], timer_ticks) \in Lists \ {l}
    PROVE  WalkedTo(lk, f, l, k + 1, MoveNext(at, l))
<1> PICK s \in Seq(Timers), n \in Nat : /\ s = f[l] /\ n = Len(s) /\ W!NoRepeat(s)
                                       /\ W!Range(s) \subseteq Timers /\ l \in Heads
  BY LinkedFacts, NodesOfRing, NodesApart
<1>0. /\ k \in 0 .. n - 1 /\ k + 1 \in 1 .. n /\ k \in 0 .. n /\ k + 1 \in 0 .. n
      /\ n \in k + 1 .. n /\ k + 1 \in k + 1 .. n
  OBVIOUS
<1>1. PICK t \in Timers : t = s[k + 1]
  BY <1>0, ElementOfSeq
<1>2. PICK m \in Lists \ {l} : m = W!ListOf(expires[t], timer_ticks) /\ m \in Heads \ {l}
  BY <1>1, NodesApart
<1>3. PICK g, lk1 : g = WalkedLists(f, l, k) /\ lk1 = at.lk
  OBVIOUS
<1>4. /\ g = [h \in Heads |-> IF h = l THEN SubSeq(s, k + 1, n)
                              ELSE f[h] \o W!OnlyUpTo(s, W!Belong(h))[k]]
      /\ g[l] = SubSeq(s, k + 1, n)
  BY <1>3 DEF WalkedLists
<1>5. /\ Linked(lk1, g, Heads \ {l}) /\ SamePending(lk, lk1, Timers) /\ at.curr = t
      /\ \A i \in k + 1 .. n : lk1[s[i]].next = NodeAt(l, s, i + 1)
  <2>1. NodeAt(l, s, k + 1) = t
    BY <1>0, <1>1, NodesOfRing
  <2> QED
    BY <1>3, <2>1 DEF WalkedTo
<1>6. g[l] # <<>> /\ Head(g[l]) = t /\ Tail(g[l]) = SubSeq(s, k + 1 + 1, n)
  <2>1. Head(g[l]) = s[k + 1] /\ Tail(g[l]) = SubSeq(s, k + 1 + 1, n)
    <3>1. k + 1 \in 1 .. Len(s) /\ n \in k + 1 .. Len(s)
      BY <1>0
    <3>2. Head(SubSeq(s, k + 1, n)) = s[k + 1] /\ Tail(SubSeq(s, k + 1, n)) = SubSeq(s, k + 1 + 1, n)
      BY ONLY <3>1, s \in Seq(Timers), HeadTailOfSubSeq
    <3> QED
      BY <1>4, <3>2
  <2>2. g[l] # <<>>
    <3>1. \A i \in k + 1 .. n : s[i] \in Timers
      BY ElementOfSeq
    <3>2. Len(g[l]) = IF k + 1 <= n THEN n - (k + 1) + 1 ELSE 0
      BY <1>0, <1>4, <3>1, SubSeqProperties
    <3>3. Len(g[l]) # 0
      BY <1>0, <3>2
    <3> QED
      BY <3>3, EmptySeq
  <2> QED
    BY <1>1, <2>1, <2>2
<1>7. lk1[t].next = NodeAt(l, s, k + 1 + 1) /\ lk1[t].next # NULL
  <2>1. lk1[t].next = NodeAt(l, s, k + 1 + 1)
    BY <1>0, <1>1, <1>5
  <2>2. NodeAt(l, s, k + 1 + 1) \in Nodes
    BY NodesOfRing
  <2> QED
    BY <2>1, <2>2, NodesApart
<1>8. PICK lk2, g2 : lk2 = AddTail(lk1, t, m) /\ g2 = Walked(g, l, m, t)
  OBVIOUS
<1>14. /\ Linked(lk2, g2, Heads \ {l}) /\ SamePending(lk1, lk2, Timers)
       /\ Untouched(lk1, lk2, Tail(g[l]))
  BY <1>2, <1>5, <1>6, <1>7, <1>8, WalkStep
<1>9. PICK at2 : at2 = MoveNext(at, l)
  OBVIOUS
<1>10. at2.lk = lk2 /\ at2.curr = NodeAt(l, s, k + 1 + 1)
  <2>1. t # l
    BY NodesApart
  <2>2. Wheel!ListOf(expires[t], timer_ticks) = W!ListOf(expires[t], timer_ticks)
    BY DEF Wheel!ListOf, W!ListOf, Wheel!Span, W!Span, Wheel!Horizon, W!Horizon
  <2>3. at2 = [lk |-> Add(lk1, t, expires[t]), curr |-> lk1[t].next]
    BY <1>3, <1>5, <1>9, <2>1 DEF MoveNext
  <2>4. Add(lk1, t, expires[t]) = lk2
    BY <1>2, <1>8, <2>2 DEF Add
  <2> QED
    BY <1>7, <2>3, <2>4
<1>15. g2 = [h \in Heads |-> IF h = m THEN Append(g[h], t)
                              ELSE IF h = l THEN Tail(g[h]) ELSE g[h]]
  BY <1>8 DEF Walked
<1>11. g2 = WalkedLists(f, l, k + 1)
  <2>1. ASSUME NEW h \in Heads
        PROVE  g2[h] = IF h = l THEN SubSeq(s, k + 1 + 1, n)
                       ELSE f[h] \o W!OnlyUpTo(s, W!Belong(h))[k + 1]
    <3>1. CASE h = l
      BY <1>2, <1>6, <1>15, <3>1
    <3>2. CASE h # l
      <4>1. PICK O : O = W!OnlyUpTo(s, W!Belong(h))
        OBVIOUS
      <4>2. O[k + 1] = IF t \in W!Belong(h) THEN Append(O[k], t) ELSE O[k]
        <5>1. k + 1 - 1 = k
          BY <1>0
        <5>2. O[k + 1] = IF s[k + 1] \in W!Belong(h) THEN Append(O[k + 1 - 1], s[k + 1])
                                                     ELSE O[k + 1 - 1]
          <6>1. k + 1 \in 1 .. Len(s)
            BY <1>0
          <6> QED
            BY <4>1, <6>1, OnlyStep
        <5> QED
          BY <1>1, <5>1, <5>2
      <4>3. t \in W!Belong(h) <=> h = m
        BY <1>2 DEF W!Belong
      <4>4. g[h] = f[h] \o O[k]
        BY <1>4, <3>2, <4>1
      <4>5. CASE h = m
        <5>1. O[k] \in Seq(Timers) /\ f[h] \in Seq(Timers)
          BY <1>0, <4>1, OnlyUpToFacts, LinkedFacts
        <5>2. Append(f[h] \o O[k], t) = f[h] \o Append(O[k], t)
          BY <5>1, ConcatAppend
        <5>6. g2[h] = Append(g[h], t)
          BY <1>15, <4>5
        <5> QED
          BY <3>2, <4>1, <4>2, <4>3, <4>4, <4>5, <5>2, <5>6
      <4>6. CASE h # m
        BY <1>15, <3>2, <4>1, <4>2, <4>3, <4>4, <4>6
      <4> QED
        BY <4>5, <4>6
    <3> QED
      BY <3>1, <3>2
  <2> QED
    BY <1>15, <2>1 DEF WalkedLists
<1>12. \A i \in k + 1 + 1 .. n : lk2[s[i]].next = NodeAt(l, s, i + 1)
  <2> SUFFICES ASSUME NEW i \in k + 1 + 1 .. n PROVE lk2[s[i]].next = NodeAt(l, s, i + 1)
    OBVIOUS
  <2>1. s[i] \in W!Range(Tail(g[l]))
    <3>1. PICK r : r = SubSeq(s, k + 1 + 1, n)
      OBVIOUS
    <3>2. \A j \in k + 1 + 1 .. n : s[j] \in Timers
      BY ElementOfSeq
    <3>3. k + 1 + 1 \in Int /\ n \in Int /\ k + 1 + 1 <= n
      OBVIOUS
    <3>4. /\ r \in Seq(Timers) /\ Len(r) = IF k + 1 + 1 <= n THEN n - (k + 1 + 1) + 1 ELSE 0
          /\ \A j \in 1 .. n - (k + 1 + 1) + 1 : r[j] = s[k + 1 + 1 + j - 1]
      BY <3>1, <3>2, <3>3, SubSeqProperties
    <3>5. PICK j \in 1 .. n - (k + 1 + 1) + 1 : k + 1 + 1 + j - 1 = i
      <4>1. i - k - 1 \in 1 .. n - (k + 1 + 1) + 1 /\ k + 1 + 1 + (i - k - 1) - 1 = i
        OBVIOUS
      <4> QED
        BY <4>1
    <3>6. r[j] = s[i] /\ j \in 1 .. Len(r)
      BY <3>3, <3>4, <3>5
    <3>7. \A x : x \in W!Range(r) <=> \E y \in 1 .. Len(r) : r[y] = x
      BY <3>4, Assumed, W!RangeIs
    <3>8. s[i] \in W!Range(r)
      BY <3>6, <3>7
    <3> QED
      BY <1>6, <3>1, <3>8
  <2>2. i \in k + 1 .. n
    OBVIOUS
  <2> QED
    BY <1>5, <1>14, <2>1, <2>2 DEF Untouched
<1>13. SamePending(lk, lk2, Timers)
  BY <1>5, <1>14 DEF SamePending
<1> QED
  BY <1>9, <1>14, <1>10, <1>11, <1>12, <1>13 DEF WalkedTo

\* The lists f after a cascade of list l.
CascadedLists(f, l) ==
    [m \in Heads |-> IF m = l THEN <<>> ELSE f[m] \o W!Only(f[l], W!Belong(m))]

LEMMA WalkBegins ==
    ASSUME NEW lk, NEW f, Linked(lk, f, Heads), NEW l \in Lists,
           NEW at, at = [lk |-> lk, curr |-> lk[l].next]
    PROVE  WalkedTo(lk, f, l, 0, at)
<1> PICK s \in Seq(Timers), n \in Nat : /\ s = f[l] /\ n = Len(s) /\ l \in Heads
                                       /\ Ring(lk, l, s)
  BY LinkedFacts, NodesOfRing, NodesApart
<1>1. WalkedLists(f, l, 0) = f
  <2>1. f = [m \in Heads |-> f[m]]
    BY DEF Linked
  <2>2. ASSUME NEW m \in Heads
        PROVE  f[m] = IF m = l THEN SubSeq(f[l], 0 + 1, Len(f[l]))
                      ELSE f[m] \o W!OnlyUpTo(f[l], W!Belong(m))[0]
    <3>1. SubSeq(s, 0 + 1, n) = s
      BY SubSeqFull
    <3>2. W!OnlyUpTo(s, W!Belong(m))[0] = <<>>
      BY Assumed, W!OnlySteps
    <3>3. f[m] \o <<>> = f[m]
      <4>1. f[m] \in Seq(Timers)
        BY DEF Linked
      <4> QED
        BY <4>1, ConcatEmptySeq
    <3> QED
      BY <3>1, <3>2, <3>3
  <2> QED
    BY <2>1, <2>2 DEF WalkedLists
<1>2. at.curr = NodeAt(l, s, 0 + 1) /\ at.lk = lk
  BY RingEnds
<1>3. Linked(lk, f, Heads \ {l})
  BY DEF Linked
<1>4. \A i \in 0 + 1 .. n : lk[s[i]].next = NodeAt(l, s, i + 1)
  <2>1. \A i \in 1 .. n : i \in 0 .. n /\ NodeAt(l, s, i) = s[i]
    BY NodesOfRing
  <2> QED
    BY <2>1 DEF Ring
<1> QED
  BY <1>1, <1>2, <1>3, <1>4 DEF WalkedTo, SamePending

LEMMA WalkEnds ==
    ASSUME NEW lk, NEW f, Linked(lk, f, Heads), NEW l \in Lists,
           NEW k, k = Len(f[l]), NEW at, WalkedTo(lk, f, l, k, at)
    PROVE  /\ MoveNext(at, l) = at
           /\ Linked(InitHead(at.lk, l), CascadedLists(f, l), Heads)
           /\ SamePending(lk, InitHead(at.lk, l), Timers)
<1> PICK s \in Seq(Timers) : s = f[l] /\ l \in Heads /\ k \in Nat /\ k = Len(s)
  BY LinkedFacts, NodesOfRing, NodesApart
<1>1. MoveNext(at, l) = at
  <2>1. at.curr = l
    BY NodesOfRing DEF WalkedTo
  <2> QED
    BY <2>1 DEF MoveNext
<1>2. PICK lk1, g : lk1 = at.lk /\ g = WalkedLists(f, l, k)
  OBVIOUS
<1>3. Linked(lk1, g, Heads \ {l}) /\ SamePending(lk, lk1, Timers)
  BY <1>2 DEF WalkedTo
<1>4. g = CascadedLists(f, l) /\ g[l] = <<>>
  <2>1. SubSeq(s, k + 1, k) = <<>>
    BY SubSeqEmpty
  <2>2. g = [m \in Heads |-> IF m = l THEN SubSeq(s, k + 1, k)
                             ELSE f[m] \o W!OnlyUpTo(s, W!Belong(m))[k]]
    BY <1>2 DEF WalkedLists
  <2>3. CascadedLists(f, l) = [m \in Heads |-> IF m = l THEN <<>>
                                 ELSE f[m] \o W!OnlyUpTo(s, W!Belong(m))[k]]
    BY DEF CascadedLists, W!Only
  <2> QED
    BY <2>1, <2>2, <2>3
<1>5. PICK lk2 : lk2 = InitHead(lk1, l)
  OBVIOUS
<1>6. Linked(lk2, g, Heads) /\ SamePending(lk1, lk2, Timers)
  BY <1>3, <1>4, <1>5, LinkedInitHead
<1>7. SamePending(lk, lk2, Timers)
  BY <1>3, <1>6 DEF SamePending
<1> QED
  BY <1>1, <1>2, <1>4, <1>5, <1>6, <1>7

(* A cascade leaves rings of what the wheel's cascade leaves.              *)
LEMMA LinkedCascade ==
    ASSUME NEW lk, NEW f, Linked(lk, f, Heads), NEW l \in Lists,
           \A t \in W!Range(f[l]) : W!ListOf(expires[t], timer_ticks) \in Lists \ {l}
    PROVE  /\ Linked(Cascade(lk, l), CascadedLists(f, l), Heads)
           /\ SamePending(lk, Cascade(lk, l), Timers)
<1> PICK s \in Seq(Timers), n \in Nat, e \in Nat :
        s = f[l] /\ n = Len(s) /\ e = Longest /\ n <= e /\ l \in Heads
  <2>1. f[l] \in Seq(Timers) /\ W!NoRepeat(f[l]) /\ l \in Heads
    BY LinkedFacts, NodesApart
  <2> QED
    BY <2>1, ShortLists
<1>1. PICK u : /\ MoveAll(lk, l) = u[e].lk /\ u[0] = [lk |-> lk, curr |-> lk[l].next]
               /\ \A j \in 1 .. e : u[j] = MoveNext(u[j - 1], l)
  BY MoveAllIs
<1>2. ASSUME NEW k \in 0 .. n - 1, WalkedTo(lk, f, l, k, u[k])
      PROVE  WalkedTo(lk, f, l, k + 1, u[k + 1])
  <2>1. k + 1 \in 1 .. n /\ k + 1 \in 1 .. e /\ k + 1 - 1 = k /\ k \in 0 .. Len(f[l]) - 1
    OBVIOUS
  <2>2. u[k + 1] = MoveNext(u[k], l)
    BY <1>1, <2>1
  <2>3. s[k + 1] \in W!Range(s)
    BY <2>1, Assumed, W!RangeIs
  <2>4. W!ListOf(expires[f[l][k + 1]], timer_ticks) \in Lists \ {l}
    BY <2>3
  <2>5. PICK at : at = u[k]
    OBVIOUS
  <2>6. WalkedTo(lk, f, l, k + 1, MoveNext(at, l))
    BY <1>2, <2>1, <2>4, <2>5, WalkOn
  <2> QED
    BY <2>2, <2>5, <2>6
<1> DEFINE Early == {k \in 0 .. n : ~WalkedTo(lk, f, l, k, u[k])}
           Late == {k \in n .. e : u[k] # u[n]}
<1>3. ASSUME Early # {} PROVE FALSE
  <2>1. PICK k \in Early : \A m \in Early : k <= m
    <3>1. Early \in SUBSET Nat
      OBVIOUS
    <3> QED
      BY <1>3, <3>1, Assumed, W!LeastNat
  <2>2. k # 0
    <3>1. WalkedTo(lk, f, l, 0, u[0])
      BY <1>1, WalkBegins
    <3> QED
      BY <2>1, <3>1
  <2>3. PICK j \in 0 .. n - 1 : k = j + 1 /\ ~(k <= j)
    <3>1. k - 1 \in 0 .. n - 1 /\ k = k - 1 + 1 /\ ~(k <= k - 1)
      BY <2>1, <2>2
    <3> QED
      BY <3>1
  <2>4. WalkedTo(lk, f, l, j, u[j])
    BY <2>1, <2>3
  <2> QED
    BY <1>2, <2>1, <2>3, <2>4
<1>4. WalkedTo(lk, f, l, n, u[n])
  BY <1>3
<1>5. PICK at : at = u[n]
  OBVIOUS
<1>6. /\ MoveNext(at, l) = at
      /\ Linked(InitHead(at.lk, l), CascadedLists(f, l), Heads)
      /\ SamePending(lk, InitHead(at.lk, l), Timers)
  BY <1>4, <1>5, WalkEnds
<1>7. ASSUME Late # {} PROVE FALSE
  <2>1. PICK k \in Late : \A m \in Late : k <= m
    <3>1. Late \in SUBSET Nat
      OBVIOUS
    <3> QED
      BY <1>7, <3>1, Assumed, W!LeastNat
  <2>2. k # n
    BY <2>1
  <2>3. k \in 1 .. e /\ k - 1 \in n .. e /\ ~(k <= k - 1)
    BY <2>1, <2>2
  <2>4. u[k - 1] = at
    BY <1>5, <2>1, <2>3
  <2> QED
    BY <1>1, <1>5, <1>6, <2>1, <2>3, <2>4
<1>8. u[e] = at
  BY <1>5, <1>7
<1>9. Cascade(lk, l) = InitHead(at.lk, l)
  BY <1>1, <1>8 DEF Cascade
<1> QED
  BY <1>6, <1>9

-----------------------------------------------------------------------------
(***************************************************************************)
(* What the links list is the wheel of TimerWheel.                         *)
(***************************************************************************)

\* The lists of the vectors.
VecOf(f) == [m \in Lists |-> f[m]]

LEMMA SameWheel ==
    /\ \A e, now : Wheel!ListOf(e, now) = W!ListOf(e, now)
    /\ \A n : Wheel!Index(n) = W!Index(n)
    /\ W!Lists = Lists
<1>0. W!Lists = Lists
  BY DEF W!Lists, Lists
<1>1. \A k : Wheel!Span(k) = W!Span(k)
  BY DEF Wheel!Span, W!Span, Wheel!Horizon, W!Horizon
<1>2. ASSUME NEW n PROVE Wheel!Index(n) = W!Index(n)
  <2>1. Wheel!Span(n + 2) = W!Span(n + 2)
    BY <1>1
  <2> QED
    BY <2>1 DEF Wheel!Index, W!Index
<1>3. ASSUME NEW e, NEW now PROVE Wheel!ListOf(e, now) = W!ListOf(e, now)
  BY DEF Wheel!ListOf, W!ListOf, Wheel!Span, W!Span, Wheel!Horizon, W!Horizon
<1> QED
  BY <1>0, <1>2, <1>3

(* A cascade moves nothing onto the work list.                             *)
LEMMA CascadedVec ==
    ASSUME NEW f \in [Heads -> Seq(Timers)], NEW l \in Lists,
           \A t \in W!Range(f[l]) : W!ListOf(expires[t], timer_ticks) \in Lists \ {l},
           NEW g, g = CascadedLists(f, l)
    PROVE  VecOf(g) = W!Cascade(VecOf(f), l) /\ g[WorkList] = f[WorkList]
<1>0. l \in Heads /\ WorkList \in Heads /\ WorkList # l /\ \A m \in Lists : m \in Heads
  BY NodesApart
<1>1. VecOf(g) = W!Cascade(VecOf(f), l)
  <2>1. \A m \in Lists : VecOf(f)[m] = f[m] /\ VecOf(g)[m] = g[m]
    BY DEF VecOf
  <2>2. VecOf(g) = [m \in Lists |-> g[m]]
    BY DEF VecOf
  <2>3. ASSUME NEW m \in Lists
        PROVE  g[m] = IF m = l THEN <<>> ELSE VecOf(f)[m] \o W!Only(VecOf(f)[l], W!Belong(m))
    BY <1>0, <2>1 DEF CascadedLists
  <2>4. W!Cascade(VecOf(f), l) =
           [m \in Lists |-> IF m = l THEN <<>>
                            ELSE VecOf(f)[m] \o W!Only(VecOf(f)[l], W!Belong(m))]
    BY SameWheel DEF W!Cascade
  <2> QED
    BY ONLY <2>2, <2>3, <2>4
<1>2. g[WorkList] = f[WorkList]
  <2>1. f[l] \in Seq(Timers) /\ f[WorkList] \in Seq(Timers)
    BY <1>0
  <2>2. PICK o : o = W!Only(f[l], W!Belong(WorkList))
    OBVIOUS
  <2>3. o \in Seq(Timers) /\ W!Range(o) = W!Range(f[l]) \cap W!Belong(WorkList)
    BY <2>1, <2>2, Assumed, W!OnlyFacts
  <2>4. \A t \in W!Range(f[l]) : t \notin W!Belong(WorkList)
    BY NodesApart DEF W!Belong
  <2>5. o = <<>>
    BY <2>3, <2>4, Assumed, W!RangeIs
  <2>6. g[WorkList] = f[WorkList] \o o
    BY <1>0, <2>2 DEF CascadedLists
  <2>7. f[WorkList] \o <<>> = f[WorkList]
    BY <2>1, ConcatEmptySeq
  <2> QED
    BY <2>5, <2>6, <2>7
<1> QED
  BY <1>1, <1>2

\* lk2 are rings of g, made of the rings lk of f without touching what is
\* pending or on the work list.
Recast(lk, f, lk2, g) ==
    /\ Linked(lk2, g, Heads) /\ SamePending(lk, lk2, Timers)
    /\ g[WorkList] = f[WorkList]

\* lk are rings of f, which is v, and the vectors below k are done with.
Ready(k, lk, f, v) ==
    /\ Linked(lk, f, Heads) /\ v = VecOf(f) /\ W!Good(v)
    /\ \A m \in 2 .. 4 : m < k => W!Flushed(v, m)

\* One of the cascades that a tick begins with, if vector k is to be cascaded.
CascadeIfDue(k, lk, v, lk2, u) ==
    \/ /\ k # 5 => timer_ticks % W!Span(k) = 0
       /\ lk2 = Cascade(lk, <<k, W!Index(k - 2)>>)
       /\ u = W!Cascade(v, <<k, W!Index(k - 2)>>)
    \/ (k # 5 => timer_ticks % W!Span(k) # 0) /\ lk2 = lk /\ u = v

LEMMA LinkedMaybe ==
    ASSUME W!Typed, NEW k \in 2 .. 5, NEW lk, NEW f, NEW v, Ready(k, lk, f, v),
           NEW lk2, NEW u, CascadeIfDue(k, lk, v, lk2, u)
    PROVE  \E g : Recast(lk, f, lk2, g) /\ Ready(k + 1, lk2, g, u)
<1>0. /\ Linked(lk, f, Heads) /\ v = VecOf(f) /\ W!Good(v)
      /\ \A m \in 2 .. 4 : m < k => W!Flushed(v, m)
  BY DEF Ready
<1>1. W!Good(u) /\ \A m \in 2 .. 4 : m < k + 1 => W!Flushed(u, m)
  <2>1. W!Good(u) /\ \A m \in 2 .. 4 : m <= k => W!Flushed(u, m)
    BY <1>0, Assumed, W!MaybeCascade DEF CascadeIfDue
  <2>2. \A m \in 2 .. 4 : m < k + 1 => m <= k
    OBVIOUS
  <2> QED
    BY <2>1, <2>2
<1>2. CASE lk2 = lk /\ u = v
  BY <1>0, <1>1, <1>2 DEF Recast, SamePending, Ready
<1>3. CASE /\ k # 5 => timer_ticks % W!Span(k) = 0
           /\ lk2 = Cascade(lk, <<k, W!Index(k - 2)>>)
           /\ u = W!Cascade(v, <<k, W!Index(k - 2)>>)
  <2>1. PICK l \in Lists : l = <<k, W!Index(k - 2)>>
    BY SameWheel, Assumed, W!IndexIs
  <2>2. v[l] = f[l]
    BY <1>0 DEF VecOf
  <2>3. ASSUME NEW t \in W!Range(f[l])
        PROVE  W!ListOf(expires[t], timer_ticks) \in Lists \ {l}
    <3>1. t \in W!Range(v[<<k, W!Index(k - 2)>>])
      BY <2>1, <2>2
    <3>2. \E m \in 1 .. 4 : \E i \in 0 .. W!Slots(m) - 1 :
              m < k /\ W!ListOf(expires[t], timer_ticks) = <<m, i>>
      <4>1. k # 5 => timer_ticks % W!Span(k) = 0
        BY <1>3
      <4>2. \E m \in 1 .. 4 : \E i \in 0 .. W!Slots(m) - 1 :
                /\ m < k /\ W!ListOf(expires[t], timer_ticks) = <<m, i>>
                /\ W!Placed(IF m = 1 THEN 0 ELSE 1, timer_ticks, due[t] - ticks, expires[t], m, i)
        BY ONLY W!Typed, <1>0, k \in 2 .. 5, <4>1, <3>1, Assumed, W!CascadesDown
      <4> QED
        BY <4>2
    <3>3. PICK m \in 1 .. 4 : \E i \in 0 .. W!Slots(m) - 1 :
              m < k /\ W!ListOf(expires[t], timer_ticks) = <<m, i>>
      BY <3>2
    <3>4. PICK i \in 0 .. W!Slots(m) - 1 :
              m < k /\ W!ListOf(expires[t], timer_ticks) = <<m, i>>
      BY <3>3
    <3>5. <<m, i>> \in W!Lists
      BY Assumed, W!InLists
    <3>6. <<m, i>> \in Lists /\ m # k
      BY <3>4, <3>5, SameWheel
    <3> QED
      BY <2>1, <3>4, <3>6
  <2>4. PICK g : g = CascadedLists(f, l)
    OBVIOUS
  <2>5. Linked(Cascade(lk, l), CascadedLists(f, l), Heads) /\ SamePending(lk, Cascade(lk, l), Timers)
    BY <1>0, <2>3, LinkedCascade
  <2>6. f \in [Heads -> Seq(Timers)]
    BY <1>0 DEF Linked
  <2>7. VecOf(g) = W!Cascade(VecOf(f), l) /\ g[WorkList] = f[WorkList]
    BY <2>3, <2>4, <2>6, CascadedVec
  <2> QED
    BY <1>0, <1>1, <1>3, <2>1, <2>4, <2>5, <2>7 DEF Recast, Ready
<1> QED
  BY <1>2, <1>3 DEF CascadeIfDue

LEMMA RecastTwice ==
    ASSUME NEW lk, NEW f, NEW lk2, NEW g, Recast(lk, f, lk2, g),
           NEW lk3, NEW h, Recast(lk2, g, lk3, h)
    PROVE  Recast(lk, f, lk3, h)
BY DEF Recast, SamePending

\* What is listed now.
Shape == [h \in Heads |-> Listed(h)]

LEMMA VecIs == VecOf(Shape) = [l \in Lists |-> Listed(l)] /\ Shape[WorkList] = Listed(WorkList)
BY NodesApart DEF VecOf, Shape

(* The cascades that a tick begins with.                                   *)
LEMMA LinkedCascaded ==
    ASSUME W!Typed, W!Once, W!WellPlaced(VecOf(Shape)), Linked(link, Shape, Heads)
    PROVE  \E g : Recast(link, Shape, Cascaded, g) /\ W!Cascaded = VecOf(g)
<1> PICK f, v1 : f = Shape /\ v1 = VecOf(f)
  OBVIOUS
<1>0. W!Good(v1) /\ Linked(link, f, Heads)
  BY VecIs DEF W!Good, W!Typed, W!Once
<1> DEFINE I(n) == W!Index(n)
           B2 == timer_ticks % TvrSize = 0
           B3 == I(0) = 0
           B4 == I(0) = 0 /\ I(1) = 0
           B5 == I(0) = 0 /\ I(1) = 0 /\ I(2) = 0
           l2 == Cascade(link, <<2, I(0)>>)
           l3 == IF B3 THEN Cascade(l2, <<3, I(1)>>) ELSE l2
           l4 == IF B4 THEN Cascade(l3, <<4, I(2)>>) ELSE l3
           l5 == IF B5 THEN Cascade(l4, <<5, I(3)>>) ELSE l4
           v2 == W!Cascade(v1, <<2, I(0)>>)
           v3 == IF B3 THEN W!Cascade(v2, <<3, I(1)>>) ELSE v2
           v4 == IF B4 THEN W!Cascade(v3, <<4, I(2)>>) ELSE v3
           v5 == IF B5 THEN W!Cascade(v4, <<5, I(3)>>) ELSE v4
<1>1. Cascaded = IF B2 THEN l5 ELSE link
  <2>1. Wheel!Index(0) = I(0) /\ Wheel!Index(1) = I(1) /\ Wheel!Index(2) = I(2) /\ Wheel!Index(3) = I(3)
    BY SameWheel
  <2> QED
    BY <2>1 DEF Cascaded
<1>2. W!Cascaded = IF B2 THEN v5 ELSE v1
  BY VecIs DEF W!Cascaded
<1>3. /\ B2 <=> timer_ticks % W!Span(2) = 0
      /\ B2 => (B3 <=> timer_ticks % W!Span(3) = 0)
      /\ B2 => (B4 <=> timer_ticks % W!Span(4) = 0)
  <2>1. timer_ticks % W!Span(2 + 1) = 0 <=> W!Index(2 - 2) = 0 /\ timer_ticks % W!Span(2) = 0
    BY Assumed, W!VectorWraps
  <2>2. timer_ticks % W!Span(3 + 1) = 0 <=> W!Index(3 - 2) = 0 /\ timer_ticks % W!Span(3) = 0
    BY Assumed, W!VectorWraps
  <2>3. 2 + 1 = 3 /\ 2 - 2 = 0 /\ 3 + 1 = 4 /\ 3 - 2 = 1
    OBVIOUS
  <2>4. W!Span(2) = TvrSize
    BY Assumed, W!Spans
  <2> QED
    BY <2>1, <2>2, <2>3, <2>4
<1>4. 2 - 2 = 0 /\ 3 - 2 = 1 /\ 4 - 2 = 2 /\ 5 - 2 = 3
  OBVIOUS
<1>5. /\ l2 = Cascade(link, <<2, I(2 - 2)>>) /\ v2 = W!Cascade(v1, <<2, I(2 - 2)>>)
      /\ l3 = IF B3 THEN Cascade(l2, <<3, I(3 - 2)>>) ELSE l2
      /\ v3 = IF B3 THEN W!Cascade(v2, <<3, I(3 - 2)>>) ELSE v2
      /\ l4 = IF B4 THEN Cascade(l3, <<4, I(4 - 2)>>) ELSE l3
      /\ v4 = IF B4 THEN W!Cascade(v3, <<4, I(4 - 2)>>) ELSE v3
      /\ l5 = IF B5 THEN Cascade(l4, <<5, I(5 - 2)>>) ELSE l4
      /\ v5 = IF B5 THEN W!Cascade(v4, <<5, I(5 - 2)>>) ELSE v4
  BY <1>4
<1> HIDE DEF B2, B3, B4, B5, l2, l3, l4, l5, v2, v3, v4, v5
<1>6. CASE ~B2
  BY <1>0, <1>1, <1>2, <1>6 DEF Recast, SamePending
<1>7. CASE B2
  <2>2. \E g : Recast(link, f, l2, g) /\ Ready(3, l2, g, v2)
    <3>1. 2 \in 2 .. 5 /\ Ready(2, link, f, v1) /\ CascadeIfDue(2, link, v1, l2, v2)
      BY <1>0, <1>3, <1>5, <1>7 DEF Ready, CascadeIfDue
    <3>2. 2 + 1 = 3
      OBVIOUS
    <3>3. \E g : Recast(link, f, l2, g) /\ Ready(2 + 1, l2, g, v2)
      BY <3>1, LinkedMaybe
    <3> QED
      BY <3>2, <3>3
  <2> PICK g2 : Recast(link, f, l2, g2) /\ Ready(3, l2, g2, v2)
    BY <2>2
  <2>3. \E g : Recast(link, f, l3, g) /\ Ready(4, l3, g, v3)
    <3>1. 3 \in 2 .. 5 /\ CascadeIfDue(3, l2, v2, l3, v3)
      BY <1>3, <1>5, <1>7 DEF CascadeIfDue
    <3>2. 3 + 1 = 4
      OBVIOUS
    <3>3. \E g : Recast(l2, g2, l3, g) /\ Ready(3 + 1, l3, g, v3)
      BY <3>1, LinkedMaybe
    <3> QED
      BY <3>2, <3>3, RecastTwice
  <2> PICK g3 : Recast(link, f, l3, g3) /\ Ready(4, l3, g3, v3)
    BY <2>3
  <2>4. \E g : Recast(link, f, l4, g) /\ Ready(5, l4, g, v4)
    <3>1. 4 \in 2 .. 5 /\ CascadeIfDue(4, l3, v3, l4, v4)
      BY <1>3, <1>5, <1>7 DEF CascadeIfDue
    <3>2. 4 + 1 = 5
      OBVIOUS
    <3>3. \E g : Recast(l3, g3, l4, g) /\ Ready(4 + 1, l4, g, v4)
      BY <3>1, LinkedMaybe
    <3> QED
      BY <3>2, <3>3, RecastTwice
  <2> PICK g4 : Recast(link, f, l4, g4) /\ Ready(5, l4, g4, v4)
    BY <2>4
  <2>5. \E g : Recast(link, f, l5, g) /\ Ready(6, l5, g, v5)
    <3>1. 5 \in 2 .. 5 /\ CascadeIfDue(5, l4, v4, l5, v5)
      BY <1>3, <1>5, <1>7 DEF CascadeIfDue
    <3>2. 5 + 1 = 6
      OBVIOUS
    <3>3. \E g : Recast(l4, g4, l5, g) /\ Ready(5 + 1, l5, g, v5)
      BY <3>1, LinkedMaybe
    <3> QED
      BY <3>2, <3>3, RecastTwice
  <2> QED
    BY <1>1, <1>2, <1>7, <2>5 DEF Ready
<1> QED
  BY <1>6, <1>7

(* What is listed is determined by the rings.                              *)
LEMMA ShapeIs ==
    ASSUME NEW g, Linked(link', g, Heads)
    PROVE  /\ Shape' = g /\ VecOf(Shape)' = VecOf(g)
           /\ [l \in Lists |-> Listed(l)]' = VecOf(g) /\ Listed(WorkList)' = g[WorkList]
<1>1. PICK lk : lk = link'
  OBVIOUS
<1>2. \A h \in Heads : ListedIn(lk, h) = g[h]
  <2> SUFFICES ASSUME NEW h \in Heads PROVE ListedIn(lk, h) = g[h]
    OBVIOUS
  <2>1. /\ g[h] \in Seq(Timers) /\ W!NoRepeat(g[h]) /\ Ring(lk, h, g[h])
        /\ lk \in [Nodes -> Links]
    BY <1>1, LinkedFacts
  <2> QED
    BY <2>1, ReadsBack
<1>3. \A h \in Heads : Listed(h)' = ListedIn(lk, h)
  BY <1>1 DEF Listed, ListedIn
<1>4. \A h \in Heads : Listed(h)' = g[h]
  BY <1>2, <1>3
<1>5. g = [h \in Heads |-> g[h]]
  BY DEF Linked
<1>6. Shape' = g
  BY <1>4, <1>5 DEF Shape
<1>7. [l \in Lists |-> Listed(l)]' = VecOf(g) /\ Listed(WorkList)' = g[WorkList]
  BY <1>4, NodesApart DEF VecOf
<1> QED
  BY <1>6, <1>7 DEF VecOf

-----------------------------------------------------------------------------
(***************************************************************************)
(* The inductive invariant: the rings are whole, a timer is pending by its *)
(* next if it is in one of them, and what they list is as TimerWheelProofs *)
(* has it.                                                                 *)
(***************************************************************************)
Pends(lk, f) == \A t \in Timers : lk[t].next # NULL <=> Somewhere(f, t)

LInv == W!IInv /\ Linked(link, Shape, Heads) /\ Pends(link, Shape)

LEMMA PendingNow ==
    ASSUME NEW t \in Timers
    PROVE  W!Pending(t) <=> Somewhere(Shape, t)
<1>1. \A h : h \in Heads <=> h \in Lists \/ h = WorkList
  BY DEF Heads
<1>2. /\ \A l \in Lists : Shape[l] = [m \in Lists |-> Listed(m)][l]
      /\ Shape[WorkList] = Listed(WorkList)
  BY <1>1 DEF Shape
<1> QED
  BY <1>1, <1>2, SameWheel DEF W!Pending, Somewhere

LEMMA Kept ==
    ASSUME W!IInv, NEW g, Linked(link', g, Heads), Pends(link', g), [W!Next]_(W!vars)
    PROVE  LInv'
<1>1. W!IInv'
  BY Assumed, W!WheelSteps
<1>2. Shape' = g
  BY ShapeIs
<1>3. Linked(link', Shape', Heads) /\ Pends(link', Shape')
  BY <1>2
<1> QED
  BY <1>1, <1>3 DEF LInv

(* Adding a timer that lk0 has in no list, where it belongs.               *)
LEMMA SetLinks ==
    ASSUME W!IInv, NEW t \in Timers, NEW d \in Delays, NEW lk0, NEW f0,
           Linked(lk0, f0, Heads), ~Somewhere(f0, t),
           \A x \in Timers \ {t} : lk0[x].next # NULL <=> Somewhere(f0, x),
           SetAt(t, d, lk0)
    PROVE  \E g : /\ Linked(link', g, Heads) /\ Pends(link', g)
                  /\ VecOf(g) = W!Insert(VecOf(f0), t, (timer_ticks + d) % Word, timer_ticks)
                  /\ g[WorkList] = f0[WorkList]
<1>1. PICK e : e = (timer_ticks + d) % Word
  OBVIOUS
<1>2. PICK l \in Lists : l = W!ListOf(e, timer_ticks)
  <2>1. timer_ticks \in 0 .. Word - 1
    BY DEF W!IInv, W!Typed
  <2>2. d \in -W!Horizon .. W!Horizon - 1
    BY Assumed DEF W!WheelAssumption
  <2>3. \E k \in 1 .. 4 : \E j \in 0 .. W!Slots(k) - 1 : W!ListOf(e, timer_ticks) = <<k, j>>
    BY <1>1, <2>1, <2>2, Assumed, W!ListOfPlaces
  <2>4. PICK k \in 1 .. 4 : \E j \in 0 .. W!Slots(k) - 1 : W!ListOf(e, timer_ticks) = <<k, j>>
    BY <2>3
  <2>5. PICK j \in 0 .. W!Slots(k) - 1 : W!ListOf(e, timer_ticks) = <<k, j>>
    BY <2>4
  <2>6. <<k, j>> \in Lists
    BY SameWheel, Assumed, W!InLists
  <2> QED
    BY <2>5, <2>6
<1>3. PICK lk2, g : lk2 = AddTail(lk0, t, l) /\ g = [f0 EXCEPT ![l] = Append(@, t)]
  OBVIOUS
<1>4. link' = lk2
  <2>1. link' = Add(lk0, t, e)
    BY <1>1 DEF SetAt
  <2> QED
    BY <1>2, <1>3, <2>1, SameWheel DEF Add
<1>5. /\ Linked(lk2, g, Heads) /\ lk2[t].next # NULL /\ SamePending(lk0, lk2, Timers \ {t})
      /\ l \in Heads
  BY <1>3, NodesApart, LinkedAdd
<1>6. f0 \in [Heads -> Seq(Timers)]
  BY DEF Linked
<1>7. g[l] = Append(f0[l], t) /\ \A m \in Heads \ {l} : g[m] = f0[m]
  BY <1>3, <1>5, <1>6
<1>8. \A x : Somewhere(g, x) <=> Somewhere(f0, x) \/ x = t
  <2>1. f0[l] \in Seq(Timers)
    BY <1>5, <1>6
  <2>2. W!Range(g[l]) = W!Range(f0[l]) \cup {t}
    BY <1>7, <2>1, Assumed, W!AppendFacts
  <2> QED
    BY <1>5, <1>7, <2>2 DEF Somewhere
<1>9. Pends(link', g)
  BY <1>4, <1>5, <1>8 DEF Pends, SamePending
<1>10. VecOf(g) = W!Insert(VecOf(f0), t, e, timer_ticks)
  <2>1. W!Insert(VecOf(f0), t, e, timer_ticks) = [VecOf(f0) EXCEPT ![l] = Append(@, t)]
    BY <1>2 DEF W!Insert
  <2>2. \A m \in Lists : m \in Heads /\ VecOf(f0)[m] = f0[m]
    BY NodesApart DEF VecOf
  <2>3. \A m \in Lists : g[m] = IF m = l THEN Append(f0[l], t) ELSE f0[m]
    BY <1>7, <2>2
  <2> QED
    BY <2>1, <2>2, <2>3 DEF VecOf
<1>11. g[WorkList] = f0[WorkList]
  BY <1>7, NodesApart
<1> QED
  BY <1>1, <1>4, <1>5, <1>9, <1>10, <1>11

LEMMA StartLinks ==
    ASSUME LInv, NEW t \in Timers, NEW d \in Delays, StartTimer(t, d)
    PROVE  \E g : Linked(link', g, Heads) /\ Pends(link', g) /\ W!StartTimer(t, d)
<1>0. W!IInv /\ Linked(link, Shape, Heads) /\ Pends(link, Shape)
  BY DEF LInv
<1>1. ~Somewhere(Shape, t)
  BY <1>0 DEF StartTimer, TimerPending, Pends
<1>2. PICK lk0 : lk0 = [link EXCEPT ![t].next = NULL]
  OBVIOUS
<1>3. lk0 \in [Nodes -> Links] /\ \A x \in Nodes : x # t => lk0[x] = link[x]
  BY <1>0, <1>2, NodesApart DEF Linked, Links
<1>4. Linked(lk0, Shape, Heads) /\ SamePending(link, lk0, Timers \ {t})
  BY <1>0, <1>1, <1>3, LinkedTouch
<1>5. \A x \in Timers \ {t} : lk0[x].next # NULL <=> Somewhere(Shape, x)
  BY <1>0, <1>4 DEF Pends, SamePending
<1>6. SetAt(t, d, lk0)
  BY <1>2 DEF StartTimer
<1>7. PICK g : /\ Linked(link', g, Heads) /\ Pends(link', g)
               /\ VecOf(g) = W!Insert(VecOf(Shape), t, (timer_ticks + d) % Word, timer_ticks)
               /\ g[WorkList] = Shape[WorkList]
  BY <1>0, <1>1, <1>4, <1>5, <1>6, SetLinks
<1>8. /\ [l \in Lists |-> Listed(l)]' = VecOf(g) /\ Listed(WorkList)' = g[WorkList]
  BY <1>7, ShapeIs
<1>9. W!StartTimer(t, d)
  <2>1. ~W!Pending(t)
    BY <1>1, PendingNow
  <2>2. /\ W!MayCall /\ expires' = [expires EXCEPT ![t] = (timer_ticks + d) % Word]
        /\ due' = [due EXCEPT ![t] = W!Due(d)]
        /\ UNCHANGED <<timer_ticks, absms, calling, ticks>>
    BY <1>6 DEF SetAt, Wheel!MayCall, W!MayCall, Wheel!Due, W!Due, Wheel!Idle, W!Idle
  <2>3. [l \in Lists |-> Listed(l)]' = W!Insert([l \in Lists |-> Listed(l)], t, (timer_ticks + d) % Word, timer_ticks)
    BY <1>7, <1>8, VecIs
  <2>4. Listed(WorkList)' = Listed(WorkList)
    BY <1>7, <1>8, VecIs
  <2> QED
    BY <2>1, <2>2, <2>3, <2>4 DEF W!StartTimer
<1> QED
  BY <1>7, <1>9

(* Taking a timer off its list, if it is in one.                           *)
LEMMA TakenLinks ==
    ASSUME LInv, NEW t \in Timers,
           NEW lk0, lk0 = IF TimerPending(t) THEN DetachOnly(link, t) ELSE link,
           NEW f0, f0 = [m \in Heads |-> W!Without(Shape[m], t)]
    PROVE  /\ Linked(lk0, f0, Heads) /\ ~Somewhere(f0, t)
           /\ \A x \in Timers \ {t} : lk0[x].next # NULL <=> Somewhere(f0, x)
           /\ VecOf(f0) = W!Detached(VecOf(Shape), t)
           /\ f0[WorkList] = W!Without(Shape[WorkList], t)
<1>0. W!IInv /\ Linked(link, Shape, Heads) /\ Pends(link, Shape)
  BY DEF LInv
<1>1. \A m \in Heads : Shape[m] \in Seq(Timers) /\ f0[m] = W!Without(Shape[m], t)
  BY <1>0 DEF Linked
<1>2. \A x : Somewhere(f0, x) <=> Somewhere(Shape, x) /\ x # t
  <2>1. \A m \in Heads : \A x : x \in W!Range(f0[m]) <=> x \in W!Range(Shape[m]) /\ x # t
    BY <1>1, Assumed, W!WithoutFacts
  <2> QED
    BY <2>1 DEF Somewhere
<1>3. Linked(lk0, f0, Heads) /\ SamePending(link, lk0, Timers \ {t})
  <2>1. CASE TimerPending(t)
    <3>1. Somewhere(Shape, t) /\ lk0 = DetachOnly(link, t)
      BY <1>0, <2>1 DEF Pends, TimerPending
    <3> QED
      BY <1>0, <3>1, LinkedDetach
  <2>2. CASE ~TimerPending(t)
    <3>1. ~Somewhere(Shape, t) /\ lk0 = link
      BY <1>0, <2>2 DEF Pends, TimerPending
    <3>2. \A m \in Heads : W!Without(Shape[m], t) = Shape[m]
      BY <1>1, <3>1, WithoutNone DEF Somewhere
    <3>3. Shape = [m \in Heads |-> Shape[m]]
      BY DEF Shape
    <3>4. f0 = Shape
      BY <3>2, <3>3
    <3> QED
      BY <1>0, <3>1, <3>4 DEF SamePending
  <2> QED
    BY <2>1, <2>2
<1>4. \A x \in Timers \ {t} : lk0[x].next # NULL <=> Somewhere(f0, x)
  BY <1>0, <1>2, <1>3 DEF Pends, SamePending
<1>5. VecOf(f0) = W!Detached(VecOf(Shape), t)
  <2>1. \A m \in Lists : m \in Heads /\ VecOf(Shape)[m] = Shape[m]
    BY NodesApart DEF VecOf
  <2>2. W!Detached(VecOf(Shape), t) = [m \in Lists |-> W!Without(VecOf(Shape)[m], t)]
    BY SameWheel DEF W!Detached
  <2> QED
    BY <1>1, <2>1, <2>2 DEF VecOf
<1>6. f0[WorkList] = W!Without(Shape[WorkList], t)
  BY <1>1, NodesApart
<1> QED
  BY <1>2, <1>3, <1>4, <1>5, <1>6

LEMMA RestartLinks ==
    ASSUME LInv, NEW t \in Timers, NEW d \in Delays, RestartTimer(t, d)
    PROVE  \E g : Linked(link', g, Heads) /\ Pends(link', g) /\ W!RestartTimer(t, d)
<1>0. W!IInv
  BY DEF LInv
<1>1. PICK lk0, f0 : /\ lk0 = IF TimerPending(t) THEN DetachOnly(link, t) ELSE link
                     /\ f0 = [m \in Heads |-> W!Without(Shape[m], t)]
  OBVIOUS
<1>2. /\ Linked(lk0, f0, Heads) /\ ~Somewhere(f0, t)
      /\ \A x \in Timers \ {t} : lk0[x].next # NULL <=> Somewhere(f0, x)
      /\ VecOf(f0) = W!Detached(VecOf(Shape), t)
      /\ f0[WorkList] = W!Without(Shape[WorkList], t)
  BY <1>1, TakenLinks
<1>3. SetAt(t, d, lk0)
  BY <1>1 DEF RestartTimer
<1>4. PICK g : /\ Linked(link', g, Heads) /\ Pends(link', g)
               /\ VecOf(g) = W!Insert(VecOf(f0), t, (timer_ticks + d) % Word, timer_ticks)
               /\ g[WorkList] = f0[WorkList]
  BY <1>0, <1>2, <1>3, SetLinks
<1>5. [l \in Lists |-> Listed(l)]' = VecOf(g) /\ Listed(WorkList)' = g[WorkList]
  BY <1>4, ShapeIs
<1>6. W!RestartTimer(t, d)
  <2>1. /\ W!MayCall /\ expires' = [expires EXCEPT ![t] = (timer_ticks + d) % Word]
        /\ due' = [due EXCEPT ![t] = W!Due(d)]
        /\ UNCHANGED <<timer_ticks, absms, calling, ticks>>
    BY <1>3 DEF SetAt, Wheel!MayCall, W!MayCall, Wheel!Due, W!Due, Wheel!Idle, W!Idle
  <2>2. [l \in Lists |-> Listed(l)]' =
            W!Insert(W!Detached([l \in Lists |-> Listed(l)], t), t, (timer_ticks + d) % Word, timer_ticks)
    BY <1>2, <1>4, <1>5, VecIs
  <2>3. Listed(WorkList)' = W!Without(Listed(WorkList), t)
    BY <1>2, <1>4, <1>5, VecIs
  <2> QED
    BY <2>1, <2>2, <2>3 DEF W!RestartTimer
<1> QED
  BY <1>4, <1>6

(* detach_timer with clear_pending.                                        *)
LEMMA DetachLinks ==
    ASSUME LInv, NEW t \in Timers, TimerPending(t), NEW lk2, lk2 = Detach(link, t)
    PROVE  \E g : /\ Linked(lk2, g, Heads) /\ Pends(lk2, g)
                  /\ VecOf(g) = W!Detached(VecOf(Shape), t)
                  /\ g[WorkList] = W!Without(Shape[WorkList], t)
<1>1. PICK lk0, f0 : /\ lk0 = DetachOnly(link, t)
                     /\ f0 = [m \in Heads |-> W!Without(Shape[m], t)]
  OBVIOUS
<1>2. /\ Linked(lk0, f0, Heads) /\ ~Somewhere(f0, t)
      /\ \A x \in Timers \ {t} : lk0[x].next # NULL <=> Somewhere(f0, x)
      /\ VecOf(f0) = W!Detached(VecOf(Shape), t)
      /\ f0[WorkList] = W!Without(Shape[WorkList], t)
  <2>1. lk0 = IF TimerPending(t) THEN DetachOnly(link, t) ELSE link
    BY <1>1
  <2> QED
    BY <1>1, <2>1, TakenLinks
<1>3. lk2 = [lk0 EXCEPT ![t].next = NULL]
  BY <1>1 DEF Detach
<1>4. /\ lk2 \in [Nodes -> Links] /\ lk2[t].next = NULL
      /\ \A x \in Nodes : x # t => lk2[x] = lk0[x]
  <2>1. lk0 \in [Nodes -> Links] /\ t \in Nodes
    BY <1>2, NodesApart DEF Linked
  <2> QED
    BY ONLY <1>3, <2>1 DEF Links
<1>5. Linked(lk2, f0, Heads) /\ SamePending(lk0, lk2, Timers \ {t})
  BY <1>2, <1>4, LinkedTouch
<1>6. Pends(lk2, f0)
  BY <1>2, <1>4, <1>5 DEF Pends, SamePending
<1> QED
  BY <1>2, <1>5, <1>6

LEMMA StopLinks ==
    ASSUME LInv, NEW t \in Timers, StopTimer(t)
    PROVE  \E g : Linked(link', g, Heads) /\ Pends(link', g) /\ W!StopTimer(t)
<1>0. W!IInv /\ Linked(link, Shape, Heads) /\ Pends(link, Shape)
  BY DEF LInv
<1>1. PICK g : /\ Linked(link', g, Heads) /\ Pends(link', g)
               /\ VecOf(g) = W!Detached(VecOf(Shape), t)
               /\ g[WorkList] = W!Without(Shape[WorkList], t)
  <2>1. CASE TimerPending(t)
    <3>1. link' = Detach(link, t)
      BY <2>1 DEF StopTimer
    <3> QED
      BY <2>1, <3>1, DetachLinks
  <2>2. CASE ~TimerPending(t)
    <3>1. link' = link
      BY <2>2 DEF StopTimer
    <3>2. PICK f0 : f0 = [m \in Heads |-> W!Without(Shape[m], t)]
      OBVIOUS
    <3>3. PICK lk0 : lk0 = link /\ lk0 = IF TimerPending(t) THEN DetachOnly(link, t) ELSE link
      BY <2>2
    <3>4. /\ Linked(lk0, f0, Heads) /\ ~Somewhere(f0, t)
          /\ \A x \in Timers \ {t} : lk0[x].next # NULL <=> Somewhere(f0, x)
          /\ VecOf(f0) = W!Detached(VecOf(Shape), t)
          /\ f0[WorkList] = W!Without(Shape[WorkList], t)
      BY <3>2, <3>3, TakenLinks
    <3>5. Pends(link, f0)
      BY <2>2, <3>3, <3>4 DEF Pends, TimerPending
    <3> QED
      BY <3>1, <3>3, <3>4, <3>5
  <2> QED
    BY <2>1, <2>2
<1>2. [l \in Lists |-> Listed(l)]' = VecOf(g) /\ Listed(WorkList)' = g[WorkList]
  BY <1>1, ShapeIs
<1>3. W!StopTimer(t)
  <2>1. /\ W!MayCall /\ due' = [due EXCEPT ![t] = W!NotDue]
        /\ UNCHANGED <<timer_ticks, expires, absms, calling, ticks>>
    BY DEF StopTimer, Wheel!MayCall, W!MayCall, Wheel!NotDue, W!NotDue, Wheel!Idle, W!Idle
  <2>2. [l \in Lists |-> Listed(l)]' = W!Detached([l \in Lists |-> Listed(l)], t)
    BY <1>1, <1>2, VecIs
  <2>3. Listed(WorkList)' = W!Without(Listed(WorkList), t)
    BY <1>1, <1>2, VecIs
  <2> QED
    BY <2>1, <2>2, <2>3 DEF W!StopTimer
<1> QED
  BY <1>1, <1>3

(* The work list, by its links.                                            *)
LEMMA WorkIs ==
    ASSUME LInv
    PROVE  /\ Listed(WorkList) \in Seq(Timers) /\ W!NoRepeat(Listed(WorkList))
           /\ Listed(WorkList) = <<>> <=> ListEmpty(link, WorkList)
           /\ Listed(WorkList) # <<>> => link[WorkList].next = Head(Listed(WorkList))
<1>0. Linked(link, Shape, Heads) /\ WorkList \in Heads /\ Shape[WorkList] = Listed(WorkList)
  BY VecIs, NodesApart DEF LInv
<1> PICK s \in Seq(Timers) : /\ s = Listed(WorkList) /\ W!NoRepeat(s)
                             /\ Ring(link, WorkList, s)
  BY <1>0, LinkedFacts
<1>1. s = <<>> <=> ListEmpty(link, WorkList)
  BY <1>0, RingEnds DEF ListEmpty
<1>2. ASSUME s # <<>> PROVE link[WorkList].next = Head(s)
  <2>1. 1 \in 1 .. Len(s)
    BY <1>2, EmptySeq
  <2>2. link[WorkList].next = NodeAt(WorkList, s, 1)
    BY <1>0, RingEnds
  <2>3. NodeAt(WorkList, s, 1) = s[1]
    BY <2>1 DEF NodeAt
  <2> QED
    BY <2>2, <2>3
<1> QED
  BY <1>1, <1>2

LEMMA FireLinks ==
    ASSUME LInv, Fire
    PROVE  \E g : Linked(link', g, Heads) /\ Pends(link', g) /\ W!Fire
<1>0. W!IInv /\ Linked(link, Shape, Heads) /\ Pends(link, Shape)
  BY DEF LInv
<1>1. PICK t, w : t = link[WorkList].next /\ w = Listed(WorkList)
  OBVIOUS
<1>2. /\ t # WorkList /\ calling = NoTimer /\ calling' = t /\ link' = Detach(link, t)
      /\ due' = [due EXCEPT ![t] = W!NotDue]
      /\ UNCHANGED <<timer_ticks, expires, absms, ticks>>
  BY <1>1 DEF Fire, Wheel!NotDue, W!NotDue
<1>3. w # <<>> /\ t = Head(w) /\ w \in Seq(Timers) /\ W!NoRepeat(w)
  BY <1>1, <1>2, WorkIs DEF ListEmpty
<1>4. t \in Timers /\ t \in W!Range(w)
  BY <1>3, Assumed, W!HeadFacts
<1>5. Somewhere(Shape, t) /\ \A l \in Lists : t \notin W!Range(Shape[l])
  <2>1. Shape[WorkList] = w /\ WorkList \in Heads
    BY <1>1, VecIs, NodesApart
  <2>2. \A l \in Lists : l \in Heads /\ l # WorkList
    BY NodesApart
  <2> QED
    BY <1>0, <1>4, <2>1, <2>2 DEF Somewhere, Linked, Apart
<1>6. TimerPending(t)
  BY <1>0, <1>4, <1>5 DEF Pends, TimerPending
<1>7. PICK g : /\ Linked(link', g, Heads) /\ Pends(link', g)
               /\ VecOf(g) = W!Detached(VecOf(Shape), t)
               /\ g[WorkList] = W!Without(Shape[WorkList], t)
  BY <1>2, <1>4, <1>6, DetachLinks
<1>8. [l \in Lists |-> Listed(l)]' = VecOf(g) /\ Listed(WorkList)' = g[WorkList]
  BY <1>7, ShapeIs
<1>9. W!Detached(VecOf(Shape), t) = VecOf(Shape)
  <2>1. \A l \in Lists : VecOf(Shape)[l] = Shape[l] /\ l \in Heads
    BY NodesApart DEF VecOf
  <2>2. \A l \in Lists : Shape[l] \in Seq(Timers)
    BY <1>0, <2>1 DEF Linked
  <2>3. \A l \in Lists : W!Without(VecOf(Shape)[l], t) = VecOf(Shape)[l]
    BY <1>5, <2>1, <2>2, WithoutNone
  <2>4. W!Detached(VecOf(Shape), t) = [l \in Lists |-> W!Without(VecOf(Shape)[l], t)]
    BY SameWheel DEF W!Detached
  <2>5. VecOf(Shape) = [l \in Lists |-> VecOf(Shape)[l]]
    BY DEF VecOf
  <2> QED
    BY ONLY <2>3, <2>4, <2>5
<1>10. W!Without(w, t) = Tail(w)
  BY <1>3, WithoutFirst
<1>11. W!Fire
  <2>1. [l \in Lists |-> Listed(l)]' = [l \in Lists |-> Listed(l)]
    BY <1>7, <1>8, <1>9, VecIs
  <2>2. Listed(WorkList)' = Tail(Listed(WorkList))
    BY <1>1, <1>7, <1>8, <1>10, VecIs
  <2> QED
    BY <1>1, <1>2, <1>3, <2>1, <2>2 DEF W!Fire
<1> QED
  BY <1>7, <1>11

LEMMA TickLinks ==
    ASSUME LInv, Tick
    PROVE  \E g : Linked(link', g, Heads) /\ Pends(link', g) /\ W!Tick
<1>0. W!IInv /\ Linked(link, Shape, Heads) /\ Pends(link, Shape)
  BY DEF LInv
<1>1. /\ absms # W!Idle /\ Listed(WorkList) = <<>> /\ calling = NoTimer
      /\ W!TimeAfterEq(absms, timer_ticks)
      /\ timer_ticks' = (timer_ticks + 1) % Word /\ ticks' = ticks + 1
      /\ UNCHANGED <<expires, absms, calling, due>>
  BY WorkIs DEF Tick, Idling, Wheel!Idle, W!Idle, Wheel!TimeAfterEq, W!TimeAfterEq
<1>2. W!Typed /\ W!Once /\ W!WellPlaced(VecOf(Shape))
  BY <1>0, VecIs DEF W!IInv
<1>3. PICK g : Recast(link, Shape, Cascaded, g) /\ W!Cascaded = VecOf(g)
  BY <1>0, <1>2, LinkedCascaded
<1>4. PICK lk1, lk2 : lk1 = Cascaded /\ lk2 = InitHead(lk1, WorkList)
  OBVIOUS
<1>5. /\ Linked(lk1, g, Heads) /\ SamePending(link, lk1, Timers)
      /\ g[WorkList] = <<>> /\ g \in [Heads -> Seq(Timers)]
  BY <1>1, <1>3, <1>4, VecIs DEF Recast, Linked
<1>6. Linked(lk2, g, Heads) /\ SamePending(lk1, lk2, Timers)
  <2>1. Linked(lk1, g, Heads \ {WorkList})
    BY <1>5 DEF Linked
  <2> QED
    BY <1>4, <1>5, <2>1, LinkedInitHead, NodesApart
<1>7. PICK now \in Lists : /\ now = <<1, timer_ticks % TvrSize>>
                           /\ now \in Heads /\ WorkList \in Heads /\ now # WorkList
  <2>1. timer_ticks \in Int /\ TvrSize \in Nat \ {0}
    BY <1>2, Assumed, W!TypedFacts DEF W!WheelAssumption
  <2>2. timer_ticks % TvrSize \in 0 .. TvrSize - 1
    BY <2>1, Assumed, W!Division
  <2>3. <<1, timer_ticks % TvrSize>> \in Lists
    BY <2>2 DEF Lists
  <2> QED
    BY <2>3, NodesApart
<1>8. PICK lk3, h : /\ lk3 = SpliceInit(lk2, now, WorkList)
                    /\ h = [g EXCEPT ![WorkList] = g[now], ![now] = <<>>]
  OBVIOUS
<1>9. Linked(lk3, h, Heads) /\ SamePending(lk2, lk3, Timers)
  BY <1>5, <1>6, <1>7, <1>8, LinkedSplice
<1>10. link' = lk3
  BY <1>4, <1>7, <1>8 DEF Tick
<1>11. /\ h[WorkList] = g[now] /\ h[now] = <<>>
       /\ \A m \in Heads : m \notin {now, WorkList} => h[m] = g[m]
  BY <1>5, <1>7, <1>8
<1>12. VecOf(h) = [VecOf(g) EXCEPT ![now] = <<>>] /\ VecOf(g)[now] = g[now]
  <2>1. \A m \in Lists : m \in Heads /\ m # WorkList /\ VecOf(g)[m] = g[m]
    BY NodesApart DEF VecOf
  <2>2. \A m \in Lists : h[m] = IF m = now THEN <<>> ELSE g[m]
    BY <1>11, <2>1
  <2> QED
    BY <2>1, <2>2 DEF VecOf
<1>13. [l \in Lists |-> Listed(l)]' = VecOf(h) /\ Listed(WorkList)' = h[WorkList]
  BY <1>9, <1>10, ShapeIs
<1>14. W!Tick
  <2>1. W!TickDone
    BY <1>1 DEF W!TickDone
  <2>2. [l \in Lists |-> Listed(l)]' = [W!Cascaded EXCEPT ![<<1, timer_ticks % TvrSize>>] = <<>>]
    BY <1>3, <1>7, <1>12, <1>13
  <2>3. Listed(WorkList)' = W!Cascaded[<<1, timer_ticks % TvrSize>>]
    BY <1>3, <1>7, <1>11, <1>12, <1>13
  <2> QED
    BY <1>1, <2>1, <2>2, <2>3 DEF W!Tick
<1>15. Pends(lk3, h)
  <2>1. \A x : Somewhere(h, x) <=> Somewhere(Shape, x)
    <3>1. \A m \in Lists : VecOf(h)[m] = h[m] /\ m \in Heads
      BY NodesApart DEF VecOf
    <3>2. \A x : Somewhere(h, x) <=> Somewhere(g, x)
      <4>1. W!Range(<<>>) = {}
        BY <1>5, <1>7, EmptySeq, Assumed, W!RangeIs
      <4> QED
        BY <1>5, <1>7, <1>11, <4>1 DEF Somewhere
    <3>3. \A x \in Timers : Somewhere(g, x) <=> Somewhere(Shape, x)
      <4>1. W!Good(W!Cascaded)
        BY <1>2, VecIs, Assumed, W!CascadedFacts
      <4>2. \A x \in Timers : W!InWheel(VecOf(g), x) <=> W!InWheel(VecOf(Shape), x)
        BY <1>3, <4>1, VecIs DEF W!Good
      <4>3. \A f \in [Heads -> Seq(Timers)] : f[WorkList] = <<>> =>
                \A x : Somewhere(f, x) <=> W!InWheel(VecOf(f), x)
        <5> SUFFICES ASSUME NEW f \in [Heads -> Seq(Timers)], f[WorkList] = <<>>, NEW x
                     PROVE  Somewhere(f, x) <=> W!InWheel(VecOf(f), x)
          OBVIOUS
        <5>1. W!Range(<<>>) = {}
          BY EmptySeq, Assumed, W!RangeIs
        <5>2. \A m : m \in Heads <=> m \in Lists \/ m = WorkList
          BY DEF Heads
        <5>3. \A m \in Lists : VecOf(f)[m] = f[m]
          BY DEF VecOf
        <5> QED
          BY <5>1, <5>2, <5>3, SameWheel DEF Somewhere, W!InWheel
      <4>4. Shape \in [Heads -> Seq(Timers)] /\ Shape[WorkList] = <<>>
        BY <1>0, <1>1, VecIs DEF Linked
      <4> QED
        BY <1>5, <4>2, <4>3, <4>4
    <3>4. \A x : Somewhere(g, x) \/ Somewhere(Shape, x) => x \in Timers
      <4>1. \A f \in [Heads -> Seq(Timers)] : \A m \in Heads : W!Range(f[m]) \subseteq Timers
        BY Assumed, W!RangeIs
      <4>2. Shape \in [Heads -> Seq(Timers)]
        BY <1>0 DEF Linked
      <4> QED
        BY <1>5, <4>1, <4>2 DEF Somewhere
    <3> QED
      BY <3>2, <3>3, <3>4
  <2>2. SamePending(link, lk3, Timers)
    BY <1>5, <1>6, <1>9 DEF SamePending
  <2> QED
    BY <1>0, <2>1, <2>2 DEF Pends, SamePending
<1> QED
  BY <1>9, <1>10, <1>14, <1>15

(* The steps that leave the links alone.                                   *)
LEMMA SameLinks ==
    ASSUME LInv, UNCHANGED link
    PROVE  /\ Linked(link', Shape, Heads) /\ Pends(link', Shape)
           /\ UNCHANGED <<[l \in Lists |-> Listed(l)], Listed(WorkList)>>
<1>1. Linked(link', Shape, Heads) /\ Pends(link', Shape)
  BY DEF LInv
<1>2. [l \in Lists |-> Listed(l)]' = VecOf(Shape) /\ Listed(WorkList)' = Shape[WorkList]
  BY <1>1, ShapeIs
<1> QED
  BY <1>1, <1>2, VecIs

(* Every step is one of the wheel, and leaves rings.                       *)
LEMMA ListsSteps ==
    ASSUME LInv, [Next]_vars
    PROVE  LInv' /\ [W!Next]_(W!vars)
<1>1. ASSUME NEW g, Linked(link', g, Heads), Pends(link', g), [W!Next]_(W!vars)
      PROVE  LInv' /\ [W!Next]_(W!vars)
  BY <1>1, Kept DEF LInv
<1>2. CASE UNCHANGED vars
  <2>1. UNCHANGED link
    BY <1>2 DEF vars
  <2>2. UNCHANGED W!vars
    BY <1>2, <2>1, SameLinks DEF vars, W!vars
  <2> QED
    BY <1>1, <2>1, <2>2, SameLinks
<1>3. ASSUME NEW t \in Timers, NEW d \in Delays, StartTimer(t, d)
      PROVE  LInv' /\ [W!Next]_(W!vars)
  <2>1. PICK g : Linked(link', g, Heads) /\ Pends(link', g) /\ W!StartTimer(t, d)
    BY <1>3, StartLinks
  <2>2. W!Next
    BY <2>1 DEF W!Next
  <2> QED
    BY <1>1, <2>1, <2>2
<1>4. ASSUME NEW t \in Timers, NEW d \in Delays, RestartTimer(t, d)
      PROVE  LInv' /\ [W!Next]_(W!vars)
  <2>1. PICK g : Linked(link', g, Heads) /\ Pends(link', g) /\ W!RestartTimer(t, d)
    BY <1>4, RestartLinks
  <2>2. W!Next
    BY <2>1 DEF W!Next
  <2> QED
    BY <1>1, <2>1, <2>2
<1>5. ASSUME NEW t \in Timers, StopTimer(t) PROVE LInv' /\ [W!Next]_(W!vars)
  <2>1. PICK g : Linked(link', g, Heads) /\ Pends(link', g) /\ W!StopTimer(t)
    BY <1>5, StopLinks
  <2>2. W!Next
    BY <2>1 DEF W!Next
  <2> QED
    BY <1>1, <2>1, <2>2
<1>6. ASSUME NEW gap \in Gaps, RunTimer(gap) PROVE LInv' /\ [W!Next]_(W!vars)
  <2>1. UNCHANGED link
    BY <1>6 DEF RunTimer
  <2>2. W!RunTimer(gap)
    BY <1>6 DEF RunTimer, Wheel!RunTimer, W!RunTimer, Wheel!TimeAfterEq, W!TimeAfterEq, Wheel!Idle, W!Idle
  <2>3. W!Next
    BY <2>2 DEF W!Next
  <2> QED
    BY <1>1, <2>1, <2>3, SameLinks
<1>7. CASE Tick
  <2>1. PICK g : Linked(link', g, Heads) /\ Pends(link', g) /\ W!Tick
    BY <1>7, TickLinks
  <2>2. W!Next
    BY <2>1 DEF W!Next, W!Run
  <2> QED
    BY <1>1, <2>1, <2>2
<1>8. CASE Fire
  <2>1. PICK g : Linked(link', g, Heads) /\ Pends(link', g) /\ W!Fire
    BY <1>8, FireLinks
  <2>2. W!Next
    BY <2>1 DEF W!Next, W!Run
  <2> QED
    BY <1>1, <2>1, <2>2
<1>9. CASE CallbackReturns
  <2>1. UNCHANGED link
    BY <1>9 DEF CallbackReturns
  <2>2. W!CallbackReturns
    BY <1>9 DEF CallbackReturns, Wheel!CallbackReturns, W!CallbackReturns
  <2>3. W!Next
    BY <2>2 DEF W!Next, W!Run
  <2> QED
    BY <1>1, <2>1, <2>3, SameLinks
<1>10. CASE RunReturns
  <2>1. UNCHANGED link
    BY <1>10 DEF RunReturns
  <2>2. W!TickDone
    BY <1>10, WorkIs DEF RunReturns, Idling, W!TickDone, Wheel!Idle, W!Idle
  <2>3. W!RunReturns
    BY <1>10, <2>1, <2>2, SameLinks
       DEF RunReturns, W!RunReturns, Wheel!TimeAfterEq, W!TimeAfterEq, Wheel!Idle, W!Idle
  <2>4. W!Next
    BY <2>3 DEF W!Next, W!Run
  <2> QED
    BY <1>1, <2>1, <2>4, SameLinks
<1> QED
  BY <1>2, <1>3, <1>4, <1>5, <1>6, <1>7, <1>8, <1>9, <1>10 DEF Next

LEMMA ListsBegin ==
    ASSUME Init
    PROVE  LInv /\ W!Init
<1>1. PICK f : f = [h \in Heads |-> <<>>]
  OBVIOUS
<1>2. /\ \A h \in Heads : link[h] = [next |-> h, prev |-> h]
      /\ \A t \in Timers : link[t].next = NULL
      /\ link \in [Nodes -> Links]
  <2>1. link = [n \in Nodes |-> IF n \in Heads THEN [next |-> n, prev |-> n]
                                ELSE [next |-> NULL, prev |-> NULL]]
    BY DEF Init
  <2>2. \A n \in Nodes : (IF n \in Heads THEN [next |-> n, prev |-> n]
                          ELSE [next |-> NULL, prev |-> NULL]) \in Links
    BY DEF Links
  <2> QED
    BY <2>1, <2>2, NodesApart
<1>3. <<>> \in Seq(Timers) /\ W!NoRepeat(<<>>) /\ W!Range(<<>>) = {}
  <2>1. <<>> \in Seq(Timers) /\ W!NoRepeat(<<>>)
    BY EmptySeq DEF W!NoRepeat
  <2> QED
    BY <2>1, Assumed, W!RangeIs
<1>4. Linked(link, f, Heads) /\ ~\E t : Somewhere(f, t)
  <2>1. \A h \in Heads : Ring(link, h, f[h])
    BY <1>1, <1>2, EmptyRing
  <2>2. Apart(f) /\ f \in [Heads -> Seq(Timers)] /\ ~\E t : Somewhere(f, t)
    BY <1>1, <1>3 DEF Apart, Somewhere
  <2> QED
    BY <1>2, <2>1, <2>2 DEF Linked
<1>5. Shape = f
  <2>1. \A h \in Heads : Listed(h) = ListedIn(link, h)
    BY DEF Listed, ListedIn
  <2>2. ASSUME NEW h \in Heads PROVE ListedIn(link, h) = f[h]
    BY <1>2, <1>4, LinkedFacts, ReadsBack
  <2> QED
    BY <1>1, <2>1, <2>2 DEF Shape
<1>6. W!Init
  BY DEF Init, Wheel!Init, W!Init, Wheel!Idle, W!Idle, Wheel!NotDue, W!NotDue, Wheel!Lists, W!Lists
<1>7. W!IInv
  BY <1>6, Assumed, W!WheelBegins
<1>8. Pends(link, Shape)
  BY <1>2, <1>4, <1>5 DEF Pends
<1> QED
  BY <1>4, <1>5, <1>6, <1>7, <1>8 DEF LInv

LEMMA InRings == Spec => []LInv
<1>1. Init => LInv
  BY ListsBegin
<1>2. LInv /\ [Next]_vars => LInv'
  BY ListsSteps
<1> QED
  BY <1>1, <1>2, PTL DEF Spec

(* Every list is a ring in both directions, and a pending timer is in one, *)
(* for any timers: whatever was cascaded, spliced, detached or restarted   *)
(* from a callback.                                                        *)
THEOREM RingsAreWhole == Spec => []WellLinked
<1>1. ASSUME LInv PROVE WellLinked
  <2>0. Linked(link, Shape, Heads) /\ Pends(link, Shape)
    BY <1>1 DEF LInv
  <2> SUFFICES ASSUME NEW n \in Heads \cup {t \in Timers : TimerPending(t)}
               PROVE  /\ link[n].next \in Nodes /\ link[n].prev \in Nodes
                      /\ link[link[n].next].prev = n
                      /\ link[link[n].prev].next = n
    BY DEF WellLinked
  <2>1. \E h \in Heads : \E i \in 0 .. Len(Shape[h]) : NodeAt(h, Shape[h], i) = n
    <3>1. CASE n \in Heads
      <4>1. 0 \in 0 .. Len(Shape[n]) /\ NodeAt(n, Shape[n], 0) = n
        BY <2>0, <3>1, LinkedFacts, NodesOfRing
      <4> QED
        BY <3>1, <4>1
    <3>2. CASE n \in Timers /\ TimerPending(n)
      <4>1. PICK h \in Heads : n \in W!Range(Shape[h])
        BY <2>0, <3>2 DEF Pends, TimerPending, Somewhere
      <4>2. PICK s \in Seq(Timers) : s = Shape[h]
        BY <2>0, LinkedFacts
      <4>3. PICK i \in 1 .. Len(s) : s[i] = n
        BY <4>1, <4>2, Assumed, W!RangeIs
      <4>4. i \in 0 .. Len(s) /\ NodeAt(h, s, i) = n
        BY <4>3, NodesOfRing
      <4> QED
        BY <4>2, <4>4
    <3> QED
      BY <3>1, <3>2
  <2>2. PICK h \in Heads : \E i \in 0 .. Len(Shape[h]) : NodeAt(h, Shape[h], i) = n
    BY <2>1
  <2>3. PICK s \in Seq(Timers), k \in Nat : s = Shape[h] /\ Ring(link, h, s) /\ k = Len(s)
    BY <2>0, LinkedFacts, NodesOfRing
  <2>4. PICK i \in 0 .. k : NodeAt(h, s, i) = n
    BY <2>2, <2>3
  <2>5. /\ link[n].next = NodeAt(h, s, i + 1) /\ link[NodeAt(h, s, i + 1)].prev = n
        /\ NodeAt(h, s, i + 1) \in Nodes
    BY <2>3, <2>4, NodesOfRing DEF Ring
  <2>6. PICK j \in 0 .. k : NodeAt(h, s, j + 1) = n
    <3>1. CASE i = 0
      <4>1. NodeAt(h, s, k + 1) = n /\ k \in 0 .. k
        BY <2>3, <2>4, <3>1, NodesOfRing
      <4> QED
        BY <4>1
    <3>2. CASE i # 0
      <4>1. i - 1 \in 0 .. k /\ i - 1 + 1 = i
        BY <3>2
      <4> QED
        BY <2>4, <4>1
    <3> QED
      BY <3>1, <3>2
  <2>7. /\ link[n].prev = NodeAt(h, s, j) /\ link[NodeAt(h, s, j)].next = n
        /\ NodeAt(h, s, j) \in Nodes
    BY <2>3, <2>6, NodesOfRing DEF Ring
  <2> QED
    BY <2>5, <2>7
<1> QED
  BY <1>1, InRings, PTL

(* A timer's next tells whether it is due, in every state that a callback  *)
(* or the application can see.                                             *)
THEOREM NextTellsPending == Spec => []PendingIffDue
<1>1. ASSUME LInv PROVE PendingIffDue
  <2>1. W!Once /\ Pends(link, Shape)
    BY <1>1 DEF LInv, W!IInv
  <2> SUFFICES ASSUME NEW t \in Timers PROVE TimerPending(t) <=> due[t] # Wheel!NotDue
    BY DEF PendingIffDue
  <2>2. W!Pending(t) <=> Somewhere(Shape, t)
    BY PendingNow
  <2>3. due[t] # W!NotDue <=> W!Pending(t)
    BY <2>1 DEF W!Once, W!Pending, W!InWheel
  <2>4. W!NotDue = Wheel!NotDue
    BY DEF W!NotDue, Wheel!NotDue
  <2> QED
    BY <2>1, <2>2, <2>3, <2>4 DEF Pends, TimerPending
<1> QED
  BY <1>1, InRings, PTL

(* The instance of TimerWheel that has the proofs takes the same steps.     *)
LEMMA SameSequences ==
    /\ \A s, S : W!Only(s, S) = Wheel!Only(s, S)
    /\ \A v, t, e, now : W!Insert(v, t, e, now) = Wheel!Insert(v, t, e, now)
    /\ \A v, t : W!Detached(v, t) = Wheel!Detached(v, t)
    /\ \A s, t : W!Without(s, t) = Wheel!Without(s, t)
<1>1. ASSUME NEW s, NEW S PROVE W!Only(s, S) = Wheel!Only(s, S)
  BY Zenon DEF W!Only, Wheel!Only, W!OnlyUpTo, Wheel!OnlyUpTo
<1>2. ASSUME NEW s, NEW t PROVE W!Without(s, t) = Wheel!Without(s, t)
  BY <1>1 DEF W!Without, Wheel!Without
<1>3. ASSUME NEW v, NEW t PROVE W!Detached(v, t) = Wheel!Detached(v, t)
  BY <1>2 DEF W!Detached, Wheel!Detached, W!Lists, Wheel!Lists
<1>4. ASSUME NEW v, NEW t, NEW e, NEW now PROVE W!Insert(v, t, e, now) = Wheel!Insert(v, t, e, now)
  BY SameWheel DEF W!Insert, Wheel!Insert
<1> QED
  BY <1>1, <1>2, <1>3, <1>4

LEMMA SameState ==
    /\ W!Idle = Wheel!Idle /\ W!NotDue = Wheel!NotDue
    /\ W!MayCall <=> Wheel!MayCall
    /\ W!TickDone <=> Wheel!TickDone
    /\ \A t : W!Pending(t) <=> Wheel!Pending(t)
    /\ \A d : W!Due(d) = Wheel!Due(d)
    /\ \A a, b : W!TimeAfterEq(a, b) <=> Wheel!TimeAfterEq(a, b)
<1>1. W!Idle = Wheel!Idle /\ W!NotDue = Wheel!NotDue
  BY DEF W!Idle, Wheel!Idle, W!NotDue, Wheel!NotDue
<1>2. (W!MayCall <=> Wheel!MayCall) /\ (W!TickDone <=> Wheel!TickDone)
  BY <1>1 DEF W!MayCall, Wheel!MayCall, W!TickDone, Wheel!TickDone
<1>3. ASSUME NEW t PROVE W!Pending(t) <=> Wheel!Pending(t)
  BY DEF W!Pending, Wheel!Pending, W!Range, Wheel!Range, W!Lists, Wheel!Lists
<1>4. \A d : W!Due(d) = Wheel!Due(d)
  BY DEF W!Due, Wheel!Due
<1>5. \A a, b : W!TimeAfterEq(a, b) <=> Wheel!TimeAfterEq(a, b)
  BY DEF W!TimeAfterEq, Wheel!TimeAfterEq
<1> QED
  BY <1>1, <1>2, <1>3, <1>4, <1>5

LEMMA SameCascades == W!Cascaded = Wheel!Cascaded
<1>1. ASSUME NEW v, NEW l PROVE W!Cascade(v, l) = Wheel!Cascade(v, l)
  <2>1. \A m : W!Belong(m) = Wheel!Belong(m)
    BY SameWheel DEF W!Belong, Wheel!Belong
  <2> QED
    BY <2>1, SameSequences DEF W!Cascade, Wheel!Cascade, W!Lists, Wheel!Lists
<1>2. \A n : W!Index(n) = Wheel!Index(n)
  BY SameWheel
<1> QED
  BY <1>1, <1>2 DEF W!Cascaded, Wheel!Cascaded

LEMMA SameSteps == W!Next => Wheel!Next
<1>1. ASSUME NEW t, NEW d, W!StartTimer(t, d) PROVE Wheel!StartTimer(t, d)
  BY <1>1, SameSequences, SameState DEF W!StartTimer, Wheel!StartTimer
<1>2. ASSUME NEW t, NEW d, W!RestartTimer(t, d) PROVE Wheel!RestartTimer(t, d)
  BY <1>2, SameSequences, SameState DEF W!RestartTimer, Wheel!RestartTimer
<1>3. ASSUME NEW t, W!StopTimer(t) PROVE Wheel!StopTimer(t)
  BY <1>3, SameSequences, SameState DEF W!StopTimer, Wheel!StopTimer
<1>4. ASSUME NEW gap, W!RunTimer(gap) PROVE Wheel!RunTimer(gap)
  BY <1>4, SameState DEF W!RunTimer, Wheel!RunTimer
<1>5. ASSUME W!Tick PROVE Wheel!Tick
  BY <1>5, SameState, SameCascades DEF W!Tick, Wheel!Tick
<1>6. ASSUME W!Fire PROVE Wheel!Fire
  BY <1>6, SameState DEF W!Fire, Wheel!Fire
<1>7. ASSUME W!CallbackReturns PROVE Wheel!CallbackReturns
  BY <1>7 DEF W!CallbackReturns, Wheel!CallbackReturns
<1>8. ASSUME W!RunReturns PROVE Wheel!RunReturns
  BY <1>8, SameState DEF W!RunReturns, Wheel!RunReturns
<1> QED
  BY <1>1, <1>2, <1>3, <1>4, <1>5, <1>6, <1>7, <1>8
     DEF W!Next, Wheel!Next, W!Run, Wheel!Run

(* What the links list behaves as the wheel of TimerWheel.                 *)
THEOREM LinksAreTheWheel == Spec => WheelSpec
<1>1. Init => Wheel!Init
  BY DEF Init
<1>2. ASSUME [W!Next]_(W!vars) PROVE [Wheel!Next]_(Wheel!vars)
  <2>1. W!vars = Wheel!vars /\ W!vars' = Wheel!vars'
    BY DEF W!vars, Wheel!vars
  <2> QED
    BY <1>2, <2>1, SameSteps
<1>3. LInv /\ [Next]_vars => [Wheel!Next]_(Wheel!vars)
  BY <1>2, ListsSteps
<1> QED
  BY <1>1, <1>3, InRings, PTL DEF Spec, WheelSpec, Wheel!Spec

(* Timers fire exactly at their ticks, once for each time they are set,    *)
(* also where what fires is found by the links.                            *)
THEOREM LinksFireOnTime == Spec => W!ServiceSpec
<1>1. Init => W!Init
  BY DEF Init, Wheel!Init, W!Init, Wheel!Idle, W!Idle, Wheel!NotDue, W!NotDue, Wheel!Lists, W!Lists
<1>2. LInv /\ [Next]_vars => [W!Next]_(W!vars)
  BY ListsSteps
<1>3. Spec => W!Spec
  BY <1>1, <1>2, InRings, PTL DEF Spec, W!Spec
<1>4. W!Spec => W!ServiceSpec
  BY Assumed, W!FiresOnTime
<1> QED
  BY <1>3, <1>4, PTL
=============================================================================
