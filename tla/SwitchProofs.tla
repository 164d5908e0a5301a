---------------------------- MODULE SwitchProofs ----------------------------
(***************************************************************************)
(* Proofs that the packet path keeps its promises to the users of packets: *)
(* nothing is used after it was freed, an mbuf leaks in two ways only, the *)
(* whole path implements the packet switch, and its counters add up.       *)
(*                                                                         *)
(* All four need to know that a packet is in one place at a time, and the *)
(* switch that it has overtaken no older packet on its way.  Ordered says  *)
(* both at once: the packets that share a card, an RSS queue and a process *)
(* core stand, from the burst of the process core back to the card, in the *)
(* order they arrived in.  It is inductive together with Known.            *)
(***************************************************************************)
EXTENDS DatapathProofs, FiniteSetTheorems, WellFoundedInduction

\* What two packets must share to pass through the same queues.
SameLane(x, y) == x.intf = y.intf /\ x.q = y.q /\ DstCore(x) = DstCore(y)

Earlier(x, y) == SameLane(x, y) => x.id < y.id

Sorted(s) == \A m, n \in 1 .. Len(s) : m < n => Earlier(s[m], s[n])

Before(S, T) == \A x \in S, y \in T : Earlier(x, y)

\* What the cores have in hand that they took from the cards, or from rings.
Bursts(kind) == UNION {SeqSet(hand[c]) : c \in {e \in Cores : at[e][1] = kind}}

Ordered ==
    /\ \A i \in Intfs, q \in Queues : Sorted(nic[i][q])
    /\ \A d \in Procs, q \in Queues : Sorted(ring[d][q])
    /\ \A c \in Cores : Sorted(hand[c])
    /\ Before(Bursts("ring"), InRing \cup Bursts("nic") \cup InNic)
    /\ Before(InRing, Bursts("nic") \cup InNic)
    /\ Before(Bursts("nic"), InNic)

\* What is known of a packet from where it came from.
Known ==
    /\ \A p \in held : p.id <= arrived /\ p.q = RxQueue(p.hdr)
    /\ \A d \in Procs : \A p \in SeqSet(done[d]) : p.id <= arrived
    /\ \A i \in Intfs, q \in Queues : \A p \in SeqSet(nic[i][q]) : p.intf = i

Lanes == Inv /\ Ordered /\ Known /\ NoUseAfterFree

-----------------------------------------------------------------------------
\* s is b followed by r.
Joined(s, b, r) ==
    /\ Len(b) \in Nat /\ Len(r) \in Nat /\ Len(s) = Len(b) + Len(r)
    /\ \A i \in 1 .. Len(b) : s[i] = b[i]
    /\ \A i \in 1 .. Len(r) : s[Len(b) + i] = r[i]

(* Joining two queues joins what they hold and keeps what is in order. *)
LEMMA Split ==
    ASSUME NEW s, NEW b, NEW r, Joined(s, b, r)
    PROVE  /\ SeqSet(s) = SeqSet(b) \cup SeqSet(r)
           /\ Sorted(s) <=> Sorted(b) /\ Sorted(r) /\ Before(SeqSet(b), SeqSet(r))
<1> USE DEF Joined
<1> PICK k \in Nat, l \in Nat : k = Len(b) /\ l = Len(r)
  OBVIOUS
<1>1. Len(s) = k + l
  OBVIOUS
<1>2. \A i \in 1 .. k + l : i \in 1 .. k \/ \E j \in 1 .. l : i = k + j
  <2> SUFFICES ASSUME NEW i \in 1 .. k + l, i \notin 1 .. k
               PROVE  \E j \in 1 .. l : i = k + j
    OBVIOUS
  <2> WITNESS i - k \in 1 .. l
  <2> QED
    OBVIOUS
<1>3. /\ \A i \in 1 .. k : i \in 1 .. k + l
      /\ \A j \in 1 .. l : k + j \in 1 .. k + l
  OBVIOUS
<1>4. /\ \A i \in 1 .. k : s[i] = b[i]
      /\ \A j \in 1 .. l : s[k + j] = r[j]
  OBVIOUS
<1>5. SeqSet(s) = SeqSet(b) \cup SeqSet(r)
  <2>1. SeqSet(s) \subseteq SeqSet(b) \cup SeqSet(r)
    BY <1>1, <1>2, <1>4 DEF SeqSet
  <2>2. SeqSet(b) \subseteq SeqSet(s) /\ SeqSet(r) \subseteq SeqSet(s)
    BY <1>1, <1>3, <1>4 DEF SeqSet
  <2> QED
    BY <2>1, <2>2
<1>6. ASSUME Sorted(s)
      PROVE  Sorted(b) /\ Sorted(r) /\ Before(SeqSet(b), SeqSet(r))
  <2>1. \A m, n \in 1 .. k + l : m < n => Earlier(s[m], s[n])
    BY <1>1, <1>6 DEF Sorted
  <2>2. Sorted(b)
    BY <1>3, <1>4, <2>1 DEF Sorted
  <2>3. ASSUME NEW m \in 1 .. l, NEW n \in 1 .. l, m < n
        PROVE  Earlier(r[m], r[n])
    <3>1. k + m < k + n
      BY <2>3
    <3> QED
      BY <1>3, <1>4, <2>1, <3>1
  <2>4. ASSUME NEW m \in 1 .. k, NEW n \in 1 .. l
        PROVE  Earlier(b[m], r[n])
    <3>1. m < k + n
      OBVIOUS
    <3> QED
      BY <1>3, <1>4, <2>1, <3>1
  <2> QED
    BY <2>2, <2>3, <2>4 DEF Sorted, Before, SeqSet
<1>7. ASSUME Sorted(b), Sorted(r), Before(SeqSet(b), SeqSet(r)),
             NEW m \in 1 .. k + l, NEW n \in 1 .. k + l, m < n
      PROVE  Earlier(s[m], s[n])
  <2>1. CASE n \in 1 .. k
    <3>1. m \in 1 .. k
      BY <1>7, <2>1
    <3> QED
      BY <1>4, <1>7, <2>1, <3>1 DEF Sorted
  <2>2. CASE m \in 1 .. k /\ \E j \in 1 .. l : n = k + j
    BY <1>4, <1>7, <2>2 DEF Before, SeqSet
  <2>3. CASE (\E i \in 1 .. l : m = k + i) /\ (\E j \in 1 .. l : n = k + j)
    <3>1. PICK i \in 1 .. l, j \in 1 .. l : m = k + i /\ n = k + j
      BY <2>3
    <3>2. i < j
      BY <1>7, <3>1
    <3> QED
      BY <1>4, <1>7, <3>1, <3>2 DEF Sorted
  <2> QED
    BY <1>2, <2>1, <2>2, <2>3
<1> QED
  BY <1>1, <1>5, <1>6, <1>7 DEF Sorted

\* The burst a core takes off queue s.
First(s) == SubSeq(s, 1, BurstLen(s))

(* Splitting a queue into a burst and its rest. *)
LEMMA BurstSplit ==
    ASSUME NEW S, NEW s \in Seq(S)
    PROVE  /\ SeqSet(s) = SeqSet(First(s)) \cup SeqSet(Rest(s))
           /\ Sorted(s) => /\ Sorted(First(s)) /\ Sorted(Rest(s))
                           /\ Before(SeqSet(First(s)), SeqSet(Rest(s)))
<1>1. Len(s) \in Nat /\ BurstLen(s) \in 0 .. Len(s)
  BY SizesAssumption, LenProperties DEF BurstLen
<1>0. PICK k \in 0 .. Len(s) : k = BurstLen(s)
  BY <1>1
<1>2. \A i \in 1 .. Len(s) : s[i] \in S
  BY ElementOfSeq
<1>3. /\ Len(First(s)) = k
      /\ \A i \in 1 .. k : First(s)[i] = s[i]
  <2>1. \A i \in 1 .. k : s[i] \in S
    BY <1>0, <1>1, <1>2
  <2>2. /\ Len(SubSeq(s, 1, k)) = IF 1 <= k THEN k - 1 + 1 ELSE 0
        /\ \A i \in 1 .. k - 1 + 1 : SubSeq(s, 1, k)[i] = s[1 + i - 1]
    BY <1>0, <1>1, <2>1, SubSeqProperties
  <2>3. \A i \in 1 .. k : i \in 1 .. k - 1 + 1 /\ 1 + i - 1 = i
    BY <1>0, <1>1
  <2> QED
    BY <1>0, <1>1, <2>2, <2>3 DEF First
<1>4. /\ Len(Rest(s)) = Len(s) - k
      /\ \A i \in 1 .. Len(s) - k : Rest(s)[i] = s[k + i]
  <2>1. \A i \in k + 1 .. Len(s) : s[i] \in S
    BY <1>0, <1>1, <1>2
  <2>2. /\ Len(SubSeq(s, k + 1, Len(s)))
             = IF k + 1 <= Len(s) THEN Len(s) - (k + 1) + 1 ELSE 0
        /\ \A i \in 1 .. Len(s) - (k + 1) + 1 : SubSeq(s, k + 1, Len(s))[i] = s[k + 1 + i - 1]
    BY <1>1, <2>1, SubSeqProperties
  <2>3. \A i \in 1 .. Len(s) - k : i \in 1 .. Len(s) - (k + 1) + 1 /\ k + 1 + i - 1 = k + i
    BY <1>1
  <2>4. Rest(s) = SubSeq(s, k + 1, Len(s))
    BY <1>0 DEF Rest
  <2> QED
    BY <1>1, <2>2, <2>3, <2>4
<1>5. PICK b, r : b = First(s) /\ r = Rest(s)
  OBVIOUS
<1>6. Joined(s, b, r)
  BY <1>0, <1>1, <1>3, <1>4, <1>5 DEF Joined
<1>7. /\ SeqSet(s) = SeqSet(b) \cup SeqSet(r)
      /\ Sorted(s) <=> Sorted(b) /\ Sorted(r) /\ Before(SeqSet(b), SeqSet(r))
  BY <1>6, Split
<1> QED
  BY <1>5, <1>7

(* Splitting a burst into its first packet and the others. *)
LEMMA HeadSplit ==
    ASSUME NEW S, NEW s \in Seq(S), s # <<>>
    PROVE  /\ SeqSet(s) = {Head(s)} \cup SeqSet(Tail(s))
           /\ Sorted(s) => Sorted(Tail(s)) /\ Before({Head(s)}, SeqSet(Tail(s)))
<1>1. /\ Len(s) \in Nat \ {0}
      /\ Len(Tail(s)) = Len(s) - 1
      /\ \A i \in 1 .. Len(Tail(s)) : Tail(s)[i] = s[i + 1]
  BY EmptySeq, HeadTailProperties
<1>2. PICK b : b = <<Head(s)>>
  OBVIOUS
<1>3. Len(b) = 1 /\ b[1] = s[1] /\ b[1] = Head(s)
  BY <1>2
<1>4. SeqSet(b) = {Head(s)}
  BY <1>3 DEF SeqSet
<1>5. Joined(s, b, Tail(s))
  BY <1>1, <1>3 DEF Joined
<1>6. /\ SeqSet(s) = SeqSet(b) \cup SeqSet(Tail(s))
      /\ Sorted(s) <=> Sorted(b) /\ Sorted(Tail(s)) /\ Before(SeqSet(b), SeqSet(Tail(s)))
  BY <1>5, Split
<1> QED
  BY <1>4, <1>6

(* Adding a packet at the end of a queue. *)
LEMMA AppendSplit ==
    ASSUME NEW S, NEW s \in Seq(S), NEW e \in S
    PROVE  /\ SeqSet(Append(s, e)) = SeqSet(s) \cup {e}
           /\ Sorted(s) /\ (\A x \in SeqSet(s) : Earlier(x, e)) => Sorted(Append(s, e))
<1>1. /\ Len(s) \in Nat
      /\ Len(Append(s, e)) = Len(s) + 1
      /\ \A i \in 1 .. Len(s) : Append(s, e)[i] = s[i]
      /\ Append(s, e)[Len(s) + 1] = e
  BY LenProperties, AppendProperties
<1>2. PICK r : r = <<e>>
  OBVIOUS
<1>3. Len(r) = 1 /\ r[1] = e
  BY <1>2
<1>4. SeqSet(r) = {e} /\ Sorted(r)
  BY <1>3 DEF SeqSet, Sorted
<1>5. Joined(Append(s, e), s, r)
  BY <1>1, <1>3 DEF Joined
<1>6. /\ SeqSet(Append(s, e)) = SeqSet(s) \cup SeqSet(r)
      /\ Sorted(Append(s, e)) <=> Sorted(s) /\ Sorted(r) /\ Before(SeqSet(s), SeqSet(r))
  BY <1>5, Split
<1>7. (\A x \in SeqSet(s) : Earlier(x, e)) => Before(SeqSet(s), SeqSet(r))
  BY <1>4 DEF Before
<1> QED
  BY <1>4, <1>6, <1>7

LEMMA NothingInEmpty == SeqSet(<<>>) = {} /\ Sorted(<<>>)
<1>1. Len(<<>>) = 0
  BY EmptySeq
<1> QED
  BY <1>1 DEF SeqSet, Sorted

(* A packet is not earlier than itself. *)
LEMMA Irreflexive ==
    ASSUME NEW p \in Packet
    PROVE  ~Earlier(p, p)
BY DEF Packet, Earlier, SameLane

-----------------------------------------------------------------------------
(* A packet in flight is in a queue of a card, in a ring, or in a burst.    *)
LEMMA Places ==
    /\ Placed => InFlight = InNic \cup InRing \cup Bursts("nic") \cup Bursts("ring")
    /\ Placed' => InFlight' = InNic' \cup InRing' \cup Bursts("nic")' \cup Bursts("ring")'
<1>1. ASSUME Placed
      PROVE  InFlight = InNic \cup InRing \cup Bursts("nic") \cup Bursts("ring")
  <2>1. \A c \in Cores : at[c][1] \in {"nic", "ring"}
    BY <1>1 DEF Placed, Polls
  <2>2. InHand = Bursts("nic") \cup Bursts("ring")
    BY <2>1 DEF InHand, Bursts
  <2> QED
    BY <2>2 DEF InFlight
<1>2. ASSUME Placed'
      PROVE  InFlight' = InNic' \cup InRing' \cup Bursts("nic")' \cup Bursts("ring")'
  <2>1. \A c \in Cores : at'[c][1] \in {"nic", "ring"}
    BY <1>2 DEF Placed, Polls
  <2>2. InHand' = Bursts("nic")' \cup Bursts("ring")'
    BY <2>1 DEF InHand, Bursts
  <2> QED
    BY <2>2 DEF InFlight
<1> QED
  BY <1>1, <1>2

(* What the loops over a burst do to the bursts: one packet leaves them. *)
LEMMA PopEffect ==
    ASSUME Placed, NEW c \in Cores, PopHand(c), NEW kind
    PROVE  IF at[c][1] = kind THEN Bursts(kind) = {Head(hand[c])} \cup Bursts(kind)'
                              ELSE Bursts(kind)' = Bursts(kind)
<1>1. hand[c] \in Seq(Packet) /\ hand[c] # <<>> /\ hand \in [Cores -> Seq(Packet)]
  BY DEF Placed, PopHand
<1>2. SeqSet(hand[c]) = {Head(hand[c])} \cup SeqSet(Tail(hand[c]))
  BY <1>1, HeadSplit
<1>3. /\ hand'[c] = Tail(hand[c])
      /\ \A e \in Cores : e # c => hand'[e] = hand[e] /\ at'[e] = at[e]
      /\ Len(hand[c]) # 1 => at'[c] = at[c]
  BY <1>1 DEF Placed, PopHand
<1>4. Len(hand[c]) = 1 => SeqSet(Tail(hand[c])) = {}
  <2>1. Len(hand[c]) = 1 => Len(Tail(hand[c])) = 0
    BY <1>1, HeadTailProperties
  <2>2. \A t : Len(t) = 0 => SeqSet(t) = {}
    BY DEF SeqSet
  <2> QED
    BY <2>1, <2>2
<1>5. \A p : p \in Bursts(kind) <=> \E e \in Cores : at[e][1] = kind /\ p \in SeqSet(hand[e])
  BY DEF Bursts
<1>6. \A p : p \in Bursts(kind)' <=> \E e \in Cores : at'[e][1] = kind /\ p \in SeqSet(hand'[e])
  BY DEF Bursts
<1>7. \A p : (\E e \in Cores : at[e][1] = kind /\ p \in SeqSet(hand[e]))
               <=> \/ \E e \in Cores : at'[e][1] = kind /\ p \in SeqSet(hand'[e])
                   \/ at[c][1] = kind /\ p = Head(hand[c])
  BY <1>2, <1>3, <1>4
<1>8. CASE at[c][1] = kind
  BY <1>5, <1>6, <1>7, <1>8
<1>9. CASE at[c][1] # kind
  <2>1. Bursts(kind)' \subseteq Bursts(kind) /\ Bursts(kind) \subseteq Bursts(kind)'
    BY <1>5, <1>6, <1>7, <1>9
  <2> QED
    BY <1>9, <2>1
<1> QED
  BY <1>8, <1>9

(* What a poll does to the bursts: the new burst joins them. *)
LEMMA TakeEffect ==
    ASSUME Placed, NEW c \in Cores, hand[c] = <<>>, NEW s \in Seq(Packet), Take(c, s), NEW kind
    PROVE  Bursts(kind)' = IF at[c][1] = kind THEN Bursts(kind) \cup SeqSet(First(s))
                                              ELSE Bursts(kind)
<1>1. hand \in [Cores -> Seq(Packet)] /\ at \in [Cores -> Polls]
  BY DEF Placed
<1>2. /\ hand'[c] = First(s)
      /\ \A e \in Cores : e # c => hand'[e] = hand[e] /\ at'[e] = at[e]
      /\ s # <<>> => at'[c] = at[c]
  BY <1>1 DEF Take, First
<1>3. SeqSet(hand[c]) = {}
  BY NothingInEmpty
<1>4. s = <<>> => SeqSet(First(s)) = {}
  BY BurstSplit, NothingInEmpty
<1>5. \A p : p \in Bursts(kind) <=> \E e \in Cores : at[e][1] = kind /\ p \in SeqSet(hand[e])
  BY DEF Bursts
<1>6. \A p : p \in Bursts(kind)' <=> \E e \in Cores : at'[e][1] = kind /\ p \in SeqSet(hand'[e])
  BY DEF Bursts
<1>7. \A p : (\E e \in Cores : at'[e][1] = kind /\ p \in SeqSet(hand'[e]))
               <=> \/ \E e \in Cores : at[e][1] = kind /\ p \in SeqSet(hand[e])
                   \/ at[c][1] = kind /\ p \in SeqSet(First(s))
  BY <1>2, <1>3, <1>4
<1> QED
  BY <1>5, <1>6, <1>7

(* Who can be at which kind of queue. *)
LEMMA PollKinds ==
    ASSUME NEW c \in Cores, NEW a \in PollsOf(c)
    PROVE  IF a[1] = "nic" THEN c \in RxCores ELSE c \in ProcCores
BY DEF PollsOf, NicPolls, RingPolls

(* Two cores never hold packets of one lane that they took from the same   *)
(* kind of place.                                                          *)
LEMMA SameBurst ==
    ASSUME Placed, NEW c \in Cores, NEW e \in Cores, at[c][1] = at[e][1],
           NEW x \in SeqSet(hand[c]), NEW y \in SeqSet(hand[e]), SameLane(x, y)
    PROVE  c = e
<1>1. x \in Burst(c, at[c]) /\ y \in Burst(e, at[e])
  BY ElementOfSeq DEF Placed, SeqSet
<1>2. at[c] \in PollsOf(c) /\ at[e] \in PollsOf(e)
  BY DEF Placed
<1>3. CASE at[c][1] = "nic"
  <2>1. c[2] = e[2]
    BY <1>1, <1>3 DEF Burst, From, SameLane
  <2>2. c \in RxCores /\ e \in RxCores
    BY <1>2, <1>3, PollKinds
  <2> QED
    BY <2>1, <2>2 DEF RxCores, DispCores, ProcCores
<1>4. CASE at[c][1] # "nic"
  <2>1. c[2] = e[2]
    BY <1>1, <1>4 DEF Burst, To, SameLane
  <2>2. c \in ProcCores /\ e \in ProcCores
    BY <1>2, <1>4, PollKinds
  <2> QED
    BY <2>1, <2>2 DEF ProcCores
<1> QED
  BY <1>3, <1>4

(* The packet that leaves a burst is older than those of its lane that     *)
(* stay in the hands of cores that took them from the same kind of place.  *)
LEMMA HeadFirst ==
    ASSUME Placed, NEW c \in Cores, NEW kind, at[c][1] = kind, Sorted(hand[c]), PopHand(c)
    PROVE  Before({Head(hand[c])}, Bursts(kind)')
<1> SUFFICES ASSUME NEW y \in Bursts(kind)', SameLane(Head(hand[c]), y)
             PROVE  Earlier(Head(hand[c]), y)
  BY DEF Before, Earlier
<1>1. hand[c] \in Seq(Packet) /\ hand[c] # <<>> /\ hand \in [Cores -> Seq(Packet)]
  BY DEF Placed, PopHand
<1>2. /\ SeqSet(hand[c]) = {Head(hand[c])} \cup SeqSet(Tail(hand[c]))
      /\ Before({Head(hand[c])}, SeqSet(Tail(hand[c])))
  BY <1>1, HeadSplit
<1>3. /\ hand'[c] = Tail(hand[c])
      /\ \A e \in Cores : e # c => hand'[e] = hand[e] /\ at'[e] = at[e]
  BY <1>1 DEF Placed, PopHand
<1>4. PICK e \in Cores : at'[e][1] = kind /\ y \in SeqSet(hand'[e])
  BY DEF Bursts
<1>5. CASE e = c
  BY <1>2, <1>3, <1>4, <1>5 DEF Before
<1>6. CASE e # c
  BY <1>2, <1>3, <1>4, <1>6, SameBurst
<1> QED
  BY <1>5, <1>6

(***************************************************************************)
(* What each step does to the places packets are in.                       *)
(***************************************************************************)
LEMMA Tables ==
    /\ \A x : x \in InNic <=> \E i \in Intfs, q \in Queues : x \in SeqSet(nic[i][q])
    /\ \A x : x \in InNic' <=> \E i \in Intfs, q \in Queues : x \in SeqSet(nic'[i][q])
    /\ \A x : x \in InRing <=> \E d \in Procs, q \in Queues : x \in SeqSet(ring[d][q])
    /\ \A x : x \in InRing' <=> \E d \in Procs, q \in Queues : x \in SeqSet(ring'[d][q])
BY DEF InNic, InRing

LEMMA NicRxEffect ==
    ASSUME Inv, NEW i \in Intfs, NEW h \in Headers, NicRx(i, h)
    PROVE  \E p \in Packet :
              /\ p.id = arrived + 1 /\ p.intf = i /\ p.q = RxQueue(p.hdr)
              /\ InNic' = InNic \cup {p}
              /\ UNCHANGED <<InRing, Bursts("nic"), Bursts("ring")>>
              /\ nic' = [nic EXCEPT ![i][p.q] = Append(@, p)]
              /\ held' = held \cup {p}
<1>1. PICK p : p = [id |-> arrived + 1, intf |-> i, q |-> RxQueue(h), hdr |-> h]
  OBVIOUS
<1>2. p.id = arrived + 1 /\ p.intf = i /\ p.q = RxQueue(p.hdr)
  BY <1>1
<1>3. /\ nic' = [nic EXCEPT ![i][p.q] = Append(@, p)]
      /\ held' = held \cup {p}
      /\ UNCHANGED <<ring, at, hand>>
      /\ arrived < MaxPkts
  BY <1>1 DEF NicRx
<1>4. p \in Packet
  <2>1. arrived + 1 \in 1 .. MaxPkts
    BY <1>3, SizesAssumption DEF Inv, Counted
  <2> QED
    BY <1>1, <2>1, RxQueueRange DEF Packet
<1>5. p.q \in Queues
  BY <1>4 DEF Packet
<1>6. InNic' = InNic \cup {p}
  <2>1. nic \in [Intfs -> [Queues -> Seq(Packet)]] /\ nic[i][p.q] \in Seq(Packet)
    BY <1>5 DEF Inv, Placed
  <2>2. /\ nic'[i][p.q] = Append(nic[i][p.q], p)
        /\ \A j \in Intfs, r \in Queues : <<j, r>> # <<i, p.q>> => nic[j][r] = nic'[j][r]
    BY <1>3, <1>5, <2>1
  <2>3. SeqSet(nic'[i][p.q]) = SeqSet(nic[i][p.q]) \cup {p}
    BY <1>4, <2>1, <2>2, AppendSplit
  <2>4. \A x : (\E j \in Intfs, r \in Queues : x \in SeqSet(nic'[j][r]))
                  <=> (\E j \in Intfs, r \in Queues : x \in SeqSet(nic[j][r])) \/ x = p
    BY <1>5, <2>2, <2>3
  <2> QED
    BY <2>4, Tables
<1> QED
  <2>1. UNCHANGED <<InRing, Bursts("nic"), Bursts("ring")>>
    BY <1>3 DEF InRing, Bursts
  <2> QED
    BY <1>2, <1>3, <1>4, <1>6, <2>1

LEMMA PollNicEffect ==
    ASSUME Placed, NEW c \in Cores, PollNic(c)
    PROVE  \E i \in Intfs, q \in Queues :
              /\ nic' = [nic EXCEPT ![i][q] = Rest(@)]
              /\ hand' = [hand EXCEPT ![c] = First(nic[i][q])]
              /\ InNic = SeqSet(First(nic[i][q])) \cup InNic'
              /\ Bursts("nic")' = Bursts("nic") \cup SeqSet(First(nic[i][q]))
              /\ UNCHANGED <<InRing, Bursts("ring")>>
<1>1. PICK i \in Intfs, q \in Queues : i = at[c][2] /\ q = c[2]
  BY WhoPolls DEF Placed, PollNic
<1>2. /\ hand[c] = <<>> /\ at[c][1] = "nic"
      /\ Take(c, nic[i][q])
      /\ nic' = [nic EXCEPT ![i][q] = Rest(@)]
      /\ ring' = ring
  BY <1>1 DEF PollNic
<1>3. /\ nic \in [Intfs -> [Queues -> Seq(Packet)]]
      /\ nic[i][q] \in Seq(Packet)
  BY DEF Placed
<1>4. InNic = SeqSet(First(nic[i][q])) \cup InNic'
  <2>1. /\ nic'[i][q] = Rest(nic[i][q])
        /\ \A j \in Intfs, r \in Queues : <<j, r>> # <<i, q>> => nic'[j][r] = nic[j][r]
    BY <1>2, <1>3
  <2>2. SeqSet(nic[i][q]) = SeqSet(First(nic[i][q])) \cup SeqSet(nic'[i][q])
    BY <1>3, <2>1, BurstSplit
  <2>3. \A x : (\E j \in Intfs, r \in Queues : x \in SeqSet(nic[j][r]))
                  <=> \/ \E j \in Intfs, r \in Queues : x \in SeqSet(nic'[j][r])
                      \/ x \in SeqSet(First(nic[i][q]))
    BY <2>1, <2>2
  <2> QED
    BY <2>3, Tables
<1>5. Bursts("nic")' = Bursts("nic") \cup SeqSet(First(nic[i][q]))
  BY <1>2, <1>3, TakeEffect
<1>6. Bursts("ring")' = Bursts("ring")
  BY <1>2, <1>3, TakeEffect
<1>7. hand' = [hand EXCEPT ![c] = First(nic[i][q])]
  BY <1>2 DEF Take, First
<1>8. UNCHANGED InRing
  BY <1>2 DEF InRing
<1> QED
  BY <1>2, <1>4, <1>5, <1>6, <1>7, <1>8

LEMMA PollRingEffect ==
    ASSUME Placed, NEW c \in Cores, PollRing(c)
    PROVE  \E d \in Procs, q \in Queues :
              /\ ring' = [ring EXCEPT ![d][q] = Rest(@)]
              /\ hand' = [hand EXCEPT ![c] = First(ring[d][q])]
              /\ InRing = SeqSet(First(ring[d][q])) \cup InRing'
              /\ Bursts("ring")' = Bursts("ring") \cup SeqSet(First(ring[d][q]))
              /\ UNCHANGED <<InNic, Bursts("nic")>>
<1>1. PICK d \in Procs, q \in Queues : q = at[c][2] /\ d = c[2]
  BY WhoPolls DEF Placed, PollRing
<1>2. /\ hand[c] = <<>> /\ at[c][1] = "ring"
      /\ Take(c, ring[d][q])
      /\ ring' = [ring EXCEPT ![d][q] = Rest(@)]
      /\ nic' = nic
  BY <1>1 DEF PollRing
<1>3. /\ ring \in [Procs -> [Queues -> Seq(Packet)]]
      /\ ring[d][q] \in Seq(Packet)
  BY DEF Placed
<1>4. InRing = SeqSet(First(ring[d][q])) \cup InRing'
  <2>1. /\ ring'[d][q] = Rest(ring[d][q])
        /\ \A j \in Procs, r \in Queues : <<j, r>> # <<d, q>> => ring'[j][r] = ring[j][r]
    BY <1>2, <1>3
  <2>2. SeqSet(ring[d][q]) = SeqSet(First(ring[d][q])) \cup SeqSet(ring'[d][q])
    BY <1>3, <2>1, BurstSplit
  <2>3. \A x : (\E j \in Procs, r \in Queues : x \in SeqSet(ring[j][r]))
                  <=> \/ \E j \in Procs, r \in Queues : x \in SeqSet(ring'[j][r])
                      \/ x \in SeqSet(First(ring[d][q]))
    BY <2>1, <2>2
  <2> QED
    BY <2>3, Tables
<1>5. Bursts("ring")' = Bursts("ring") \cup SeqSet(First(ring[d][q]))
  BY <1>2, <1>3, TakeEffect
<1>6. Bursts("nic")' = Bursts("nic")
  BY <1>2, <1>3, TakeEffect
<1>7. hand' = [hand EXCEPT ![c] = First(ring[d][q])]
  BY <1>2 DEF Take, First
<1>8. UNCHANGED InNic
  BY <1>2 DEF InNic
<1> QED
  BY <1>2, <1>4, <1>5, <1>6, <1>7, <1>8

LEMMA EnqueueEffect ==
    ASSUME Placed, NEW c \in Cores, Enqueue(c)
    PROVE  \E d \in Procs, q \in Queues, p \in Packet :
              /\ p = Head(hand[c])
              /\ ring' = [ring EXCEPT ![d][q] = Append(@, p)]
              /\ InRing' = InRing \cup {p}
              /\ Bursts("nic") = {p} \cup Bursts("nic")'
              /\ UNCHANGED <<InNic, Bursts("ring")>>
<1>1. PopHand(c) /\ at[c][1] = "nic" /\ nic' = nic
  BY DEF Enqueue
<1>2. Head(hand[c]) \in From(c[2])
  BY <1>1, PopHandTyped DEF Burst
<1>3. PICK p \in Packet : p = Head(hand[c])
  BY <1>2 DEF From
<1>4. PICK d \in Procs, q \in Queues : d = DstCore(p) /\ q = c[2]
  BY <1>1, <1>3, WhoPolls, DstCoreRange DEF Placed, Enqueue
<1>5. ring' = [ring EXCEPT ![d][q] = Append(@, p)]
  BY <1>3, <1>4 DEF Enqueue, SendQueue
<1>6. InRing' = InRing \cup {p}
  <2>1. ring \in [Procs -> [Queues -> Seq(Packet)]] /\ ring[d][q] \in Seq(Packet)
    BY <1>4 DEF Placed
  <2>2. /\ ring'[d][q] = Append(ring[d][q], p)
        /\ \A j \in Procs, r \in Queues : <<j, r>> # <<d, q>> => ring[j][r] = ring'[j][r]
    BY <1>4, <1>5, <2>1
  <2>3. SeqSet(ring'[d][q]) = SeqSet(ring[d][q]) \cup {p}
    BY <2>1, <2>2, AppendSplit
  <2>4. \A j \in Procs, r \in Queues :
           /\ SeqSet(ring[j][r]) \subseteq SeqSet(ring'[j][r])
           /\ SeqSet(ring'[j][r]) \subseteq SeqSet(ring[j][r]) \cup {p}
    BY <2>2, <2>3
  <2>5. p \in SeqSet(ring'[d][q])
    BY <2>3
  <2>6. InRing' \subseteq InRing \cup {p}
    BY <2>4 DEF InRing
  <2>7. InRing \subseteq InRing' /\ p \in InRing'
    BY <2>4, <2>5, Tables
  <2> QED
    BY <2>6, <2>7
<1>7. Bursts("nic") = {p} \cup Bursts("nic")' /\ Bursts("ring")' = Bursts("ring")
  BY <1>1, <1>3, PopEffect
<1>8. UNCHANGED InNic
  BY <1>1 DEF InNic
<1> QED
  BY <1>3, <1>5, <1>6, <1>7, <1>8

(* A packet that leaves a burst and goes to no other queue leaves the path. *)
LEMMA LeaveEffect ==
    ASSUME Lanes, Placed', NEW c \in Cores, PopHand(c), UNCHANGED <<nic, ring>>
    PROVE  \E p \in Packet :
              /\ p = Head(hand[c])
              /\ p \in InFlight
              /\ InFlight' = InFlight \ {p}
<1>1. Placed /\ Ordered
  BY DEF Lanes, Inv
<1>2. PICK p \in Packet : p = Head(hand[c])
  BY <1>1, PopHandTyped DEF Burst, From, To
<1>3. UNCHANGED <<InNic, InRing>>
  BY DEF InNic, InRing
<1>4. ~Earlier(p, p)
  BY Irreflexive
<1>5. /\ InFlight = InNic \cup InRing \cup Bursts("nic") \cup Bursts("ring")
      /\ InFlight' = InNic \cup InRing \cup Bursts("nic")' \cup Bursts("ring")'
  BY <1>1, <1>3, Places
<1>6. Sorted(hand[c])
  BY <1>1 DEF Ordered
<1>7. /\ Before(Bursts("ring"), InRing \cup Bursts("nic") \cup InNic)
      /\ Before(InRing, Bursts("nic") \cup InNic)
      /\ Before(Bursts("nic"), InNic)
  BY <1>1 DEF Ordered
<1>8. CASE at[c][1] = "nic"
  <2>1. Bursts("nic") = {p} \cup Bursts("nic")' /\ Bursts("ring")' = Bursts("ring")
    BY <1>1, <1>2, <1>8, PopEffect
  <2>2. p \notin Bursts("nic")'
    BY <1>1, <1>2, <1>4, <1>6, <1>8, HeadFirst DEF Before
  <2>3. p \notin InNic /\ p \notin InRing /\ p \notin Bursts("ring")
    BY <1>4, <1>7, <2>1 DEF Before
  <2> QED
    BY <1>2, <1>5, <2>1, <2>2, <2>3
<1>9. CASE at[c][1] = "ring"
  <2>1. Bursts("ring") = {p} \cup Bursts("ring")' /\ Bursts("nic")' = Bursts("nic")
    BY <1>1, <1>2, <1>9, PopEffect
  <2>2. p \notin Bursts("ring")'
    BY <1>1, <1>2, <1>4, <1>6, <1>9, HeadFirst DEF Before
  <2>3. p \notin InNic /\ p \notin InRing /\ p \notin Bursts("nic")
    BY <1>4, <1>7, <2>1 DEF Before
  <2> QED
    BY <1>2, <1>5, <2>1, <2>2, <2>3
<1>10. at[c][1] \in {"nic", "ring"}
  BY <1>1 DEF Placed, Polls
<1> QED
  BY <1>8, <1>9, <1>10
-----------------------------------------------------------------------------
(***************************************************************************)
(* Each step keeps the lanes in order and what is known of the packets.    *)
(***************************************************************************)
LEMMA InitLanes == Init => Lanes
<1> SUFFICES ASSUME Init PROVE Lanes
  OBVIOUS
<1>1. Inv
  BY InitInv
<1>2. /\ \A i \in Intfs, q \in Queues : nic[i][q] = <<>>
      /\ \A d \in Procs, q \in Queues : ring[d][q] = <<>>
      /\ \A c \in Cores : hand[c] = <<>>
      /\ \A d \in Procs : done[d] = <<>>
      /\ held = {}
  BY DEF Init
<1>3. InNic = {} /\ InRing = {} /\ \A kind : Bursts(kind) = {}
  BY <1>2, NothingInEmpty DEF InNic, InRing, Bursts
<1>4. Ordered
  BY <1>2, <1>3, NothingInEmpty DEF Ordered, Before
<1>5. Known
  BY <1>2, NothingInEmpty DEF Known
<1>6. NoUseAfterFree
  <2>1. InFlight = {}
    BY <1>1, <1>3, Places DEF Inv
  <2> QED
    BY <1>2, <2>1, NothingInEmpty DEF NoUseAfterFree
<1> QED
  BY <1>1, <1>4, <1>5, <1>6 DEF Lanes

LEMMA NicRxKeeps ==
    ASSUME Lanes, Inv', NEW i \in Intfs, NEW h \in Headers, NicRx(i, h)
    PROVE  Lanes'
<1>1. Inv /\ Ordered /\ Known /\ NoUseAfterFree /\ Placed /\ Placed'
  BY DEF Lanes, Inv
<1>2. PICK p \in Packet :
              /\ p.id = arrived + 1 /\ p.intf = i /\ p.q = RxQueue(p.hdr)
              /\ InNic' = InNic \cup {p}
              /\ UNCHANGED <<InRing, Bursts("nic"), Bursts("ring")>>
              /\ nic' = [nic EXCEPT ![i][p.q] = Append(@, p)]
              /\ held' = held \cup {p}
  BY <1>1, NicRxEffect
<1>3. UNCHANGED <<ring, hand, done>> /\ arrived' = arrived + 1 /\ arrived \in Nat
  BY <1>1, SizesAssumption DEF NicRx, Inv, Counted
<1>4. InFlight = InNic \cup InRing \cup Bursts("nic") \cup Bursts("ring")
      /\ InFlight' = InNic \cup InRing \cup Bursts("nic") \cup Bursts("ring") \cup {p}
  BY <1>1, <1>2, Places
<1>5. held \subseteq Packet /\ \A x \in Packet : x.id \in Nat
  BY <1>1 DEF Inv, Counted, Packet
<1>6. \A x \in InFlight : Earlier(x, p)
  BY <1>1, <1>2, <1>3, <1>5 DEF NoUseAfterFree, Known, Earlier
<1>7. p.q \in Queues /\ nic[i][p.q] \in Seq(Packet) /\ nic \in [Intfs -> [Queues -> Seq(Packet)]]
  <2>1. p.q \in Queues
    BY DEF Packet
  <2>2. nic \in [Intfs -> [Queues -> Seq(Packet)]]
    BY <1>1 DEF Placed
  <2> QED
    BY <2>1, <2>2
<1>8. /\ SeqSet(nic[i][p.q]) \subseteq InFlight
      /\ SeqSet(Append(nic[i][p.q], p)) = SeqSet(nic[i][p.q]) \cup {p}
      /\ Sorted(Append(nic[i][p.q], p))
  <2>1. SeqSet(nic[i][p.q]) \subseteq InNic
    BY <1>7, Tables
  <2>2. Sorted(nic[i][p.q])
    BY <1>1, <1>7 DEF Ordered
  <2> QED
    BY <1>4, <1>6, <1>7, <2>1, <2>2, AppendSplit
<1>9. \A j \in Intfs, q \in Queues :
         nic'[j][q] = IF <<j, q>> = <<i, p.q>> THEN Append(nic[i][p.q], p) ELSE nic[j][q]
  BY <1>2, <1>7
<1>10. Ordered'
  <2>1. \A j \in Intfs, q \in Queues : Sorted(nic'[j][q])
    BY <1>1, <1>8, <1>9 DEF Ordered
  <2>2. /\ Before(Bursts("ring"), InRing \cup Bursts("nic") \cup (InNic \cup {p}))
        /\ Before(InRing, Bursts("nic") \cup (InNic \cup {p}))
        /\ Before(Bursts("nic"), InNic \cup {p})
    BY <1>1, <1>4, <1>6 DEF Ordered, Before
  <2>3. /\ \A d \in Procs, q \in Queues : Sorted(ring'[d][q])
        /\ \A c \in Cores : Sorted(hand'[c])
    BY <1>1, <1>3 DEF Ordered
  <2> QED
    BY <1>2, <2>1, <2>2, <2>3 DEF Ordered
<1>11. Known'
  <2>1. \A x \in held' : x.id <= arrived' /\ x.q = RxQueue(x.hdr)
    BY <1>1, <1>2, <1>3, <1>5 DEF Known
  <2>2. \A d \in Procs : \A x \in SeqSet(done'[d]) : x.id <= arrived'
    <3>1. \A d \in Procs : \A x \in SeqSet(done[d]) : x \in Packet
      BY <1>1, ElementOfSeq DEF Placed, SeqSet
    <3> QED
      BY <1>1, <1>3, <1>5, <3>1 DEF Known
  <2>3. \A j \in Intfs, q \in Queues : \A x \in SeqSet(nic'[j][q]) : x.intf = j
    BY <1>1, <1>2, <1>8, <1>9 DEF Known
  <2> QED
    BY <2>1, <2>2, <2>3 DEF Known
<1>12. NoUseAfterFree'
  <2>1. \A d \in Procs : p \notin SeqSet(done[d])
    BY <1>1, <1>2, <1>3 DEF Known
  <2> QED
    BY <1>1, <1>2, <1>3, <1>4, <2>1 DEF NoUseAfterFree
<1> QED
  BY <1>10, <1>11, <1>12 DEF Lanes

LEMMA PollNicKeeps ==
    ASSUME Lanes, Inv', NEW c \in Cores, PollNic(c)
    PROVE  Lanes' /\ UNCHANGED InFlight
<1>1. Inv /\ Ordered /\ Known /\ NoUseAfterFree /\ Placed /\ Placed'
  BY DEF Lanes, Inv
<1>2. PICK i \in Intfs, q \in Queues :
              /\ nic' = [nic EXCEPT ![i][q] = Rest(@)]
              /\ hand' = [hand EXCEPT ![c] = First(nic[i][q])]
              /\ InNic = SeqSet(First(nic[i][q])) \cup InNic'
              /\ Bursts("nic")' = Bursts("nic") \cup SeqSet(First(nic[i][q]))
              /\ UNCHANGED <<InRing, Bursts("ring")>>
  BY <1>1, PollNicEffect
<1>3. UNCHANGED <<ring, held, arrived, done>>
  BY DEF PollNic
<1>4. /\ nic \in [Intfs -> [Queues -> Seq(Packet)]] /\ hand \in [Cores -> Seq(Packet)]
      /\ \A j \in Intfs, r \in Queues : nic[j][r] \in Seq(From(r))
      /\ nic[i][q] \in Seq(Packet)
  BY <1>1 DEF Placed
<1>5. /\ SeqSet(nic[i][q]) = SeqSet(First(nic[i][q])) \cup SeqSet(Rest(nic[i][q]))
      /\ Sorted(First(nic[i][q])) /\ Sorted(Rest(nic[i][q]))
      /\ Before(SeqSet(First(nic[i][q])), SeqSet(Rest(nic[i][q])))
  BY <1>1, <1>4, BurstSplit DEF Ordered
<1>6. /\ \A j \in Intfs, r \in Queues :
            nic'[j][r] = IF <<j, r>> = <<i, q>> THEN Rest(nic[i][q]) ELSE nic[j][r]
      /\ \A e \in Cores : hand'[e] = IF e = c THEN First(nic[i][q]) ELSE hand[e]
  BY <1>2, <1>4
<1>7. \A j \in Intfs, r \in Queues : \A x \in SeqSet(nic[j][r]) : x.intf = j /\ x.q = r
  <2>1. \A j \in Intfs, r \in Queues : \A x \in SeqSet(nic[j][r]) : x \in From(r)
    BY <1>4, ElementOfSeq DEF SeqSet
  <2> QED
    BY <1>1, <2>1 DEF Known, From
<1>8. Before(SeqSet(First(nic[i][q])), InNic')
  <2> SUFFICES ASSUME NEW x \in SeqSet(First(nic[i][q])), NEW y \in InNic', SameLane(x, y)
               PROVE  Earlier(x, y)
    BY DEF Before, Earlier
  <2>1. PICK j \in Intfs, r \in Queues : y \in SeqSet(nic'[j][r])
    BY Tables
  <2>2. x \in SeqSet(nic[i][q]) /\ y \in SeqSet(nic[j][r])
    BY <1>5, <1>6, <2>1
  <2>3. j = i /\ r = q
    BY <1>7, <2>2 DEF SameLane
  <2> QED
    BY <1>5, <1>6, <2>1, <2>3 DEF Before
<1>9. Ordered'
  <2>1. /\ \A j \in Intfs, r \in Queues : Sorted(nic'[j][r])
        /\ \A d \in Procs, r \in Queues : Sorted(ring'[d][r])
        /\ \A e \in Cores : Sorted(hand'[e])
    BY <1>1, <1>3, <1>5, <1>6 DEF Ordered
  <2>2. /\ Before(Bursts("ring")', InRing' \cup Bursts("nic")' \cup InNic')
        /\ Before(InRing', Bursts("nic")' \cup InNic')
        /\ Before(Bursts("nic")', InNic')
    BY <1>1, <1>2, <1>8 DEF Ordered, Before
  <2> QED
    BY <2>1, <2>2 DEF Ordered
<1>10. Known'
  BY <1>1, <1>3, <1>5, <1>6 DEF Known
<1>11. InFlight' = InFlight
  BY <1>1, <1>2, Places
<1>12. NoUseAfterFree'
  BY <1>1, <1>3, <1>11 DEF NoUseAfterFree
<1> QED
  BY <1>9, <1>10, <1>11, <1>12 DEF Lanes

LEMMA PollRingKeeps ==
    ASSUME Lanes, Inv', NEW c \in Cores, PollRing(c)
    PROVE  Lanes' /\ UNCHANGED InFlight
<1>1. Inv /\ Ordered /\ Known /\ NoUseAfterFree /\ Placed /\ Placed'
  BY DEF Lanes, Inv
<1>2. PICK d \in Procs, q \in Queues :
              /\ ring' = [ring EXCEPT ![d][q] = Rest(@)]
              /\ hand' = [hand EXCEPT ![c] = First(ring[d][q])]
              /\ InRing = SeqSet(First(ring[d][q])) \cup InRing'
              /\ Bursts("ring")' = Bursts("ring") \cup SeqSet(First(ring[d][q]))
              /\ UNCHANGED <<InNic, Bursts("nic")>>
  BY <1>1, PollRingEffect
<1>3. UNCHANGED <<nic, held, arrived, done>>
  BY DEF PollRing
<1>4. /\ ring \in [Procs -> [Queues -> Seq(Packet)]] /\ hand \in [Cores -> Seq(Packet)]
      /\ \A e \in Procs, r \in Queues : ring[e][r] \in Seq(From(r) \cap To(e))
      /\ ring[d][q] \in Seq(Packet)
  BY <1>1 DEF Placed
<1>5. /\ SeqSet(ring[d][q]) = SeqSet(First(ring[d][q])) \cup SeqSet(Rest(ring[d][q]))
      /\ Sorted(First(ring[d][q])) /\ Sorted(Rest(ring[d][q]))
      /\ Before(SeqSet(First(ring[d][q])), SeqSet(Rest(ring[d][q])))
  BY <1>1, <1>4, BurstSplit DEF Ordered
<1>6. /\ \A e \in Procs, r \in Queues :
            ring'[e][r] = IF <<e, r>> = <<d, q>> THEN Rest(ring[d][q]) ELSE ring[e][r]
      /\ \A e \in Cores : hand'[e] = IF e = c THEN First(ring[d][q]) ELSE hand[e]
  BY <1>2, <1>4
<1>7. \A e \in Procs, r \in Queues : \A x \in SeqSet(ring[e][r]) : DstCore(x) = e /\ x.q = r
  <2> SUFFICES ASSUME NEW e \in Procs, NEW r \in Queues, NEW x \in SeqSet(ring[e][r])
               PROVE  DstCore(x) = e /\ x.q = r
    OBVIOUS
  <2>1. ring[e][r] \in Seq(From(r) \cap To(e))
    BY <1>4
  <2>2. x \in From(r) /\ x \in To(e)
    BY <2>1, ElementOfSeq DEF SeqSet
  <2> QED
    BY <2>2 DEF From, To
<1>8. Before(SeqSet(First(ring[d][q])), InRing')
  <2> SUFFICES ASSUME NEW x \in SeqSet(First(ring[d][q])), NEW y \in InRing', SameLane(x, y)
               PROVE  Earlier(x, y)
    BY DEF Before, Earlier
  <2>1. PICK e \in Procs, r \in Queues : y \in SeqSet(ring'[e][r])
    BY Tables
  <2>2. x \in SeqSet(ring[d][q]) /\ y \in SeqSet(ring[e][r])
    BY <1>5, <1>6, <2>1
  <2>3. e = d /\ r = q
    BY <1>7, <2>2 DEF SameLane
  <2> QED
    BY <1>5, <1>6, <2>1, <2>3 DEF Before
<1>9. Ordered'
  <2>1. /\ \A j \in Intfs, r \in Queues : Sorted(nic'[j][r])
        /\ \A e \in Procs, r \in Queues : Sorted(ring'[e][r])
        /\ \A e \in Cores : Sorted(hand'[e])
    BY <1>1, <1>3, <1>5, <1>6 DEF Ordered
  <2>2. /\ Before(Bursts("ring")', InRing' \cup Bursts("nic")' \cup InNic')
        /\ Before(InRing', Bursts("nic")' \cup InNic')
        /\ Before(Bursts("nic")', InNic')
    BY <1>1, <1>2, <1>8 DEF Ordered, Before
  <2> QED
    BY <2>1, <2>2 DEF Ordered
<1>10. Known'
  BY <1>1, <1>3 DEF Known
<1>11. InFlight' = InFlight
  BY <1>1, <1>2, Places
<1>12. NoUseAfterFree'
  BY <1>1, <1>3, <1>11 DEF NoUseAfterFree
<1> QED
  BY <1>9, <1>10, <1>11, <1>12 DEF Lanes

LEMMA PopSorted ==
    ASSUME Placed, Ordered, NEW c \in Cores, PopHand(c)
    PROVE  \A e \in Cores : Sorted(hand'[e])
<1>1. hand[c] \in Seq(Packet) /\ hand[c] # <<>> /\ hand \in [Cores -> Seq(Packet)]
  BY DEF Placed, PopHand
<1>2. \A e \in Cores : hand'[e] = IF e = c THEN Tail(hand[c]) ELSE hand[e]
  BY <1>1 DEF PopHand
<1>3. Sorted(Tail(hand[c]))
  BY <1>1, HeadSplit DEF Ordered
<1> QED
  BY <1>2, <1>3 DEF Ordered

LEMMA EnqueueKeeps ==
    ASSUME Lanes, Inv', NEW c \in Cores, Enqueue(c)
    PROVE  Lanes' /\ UNCHANGED InFlight
<1>1. Inv /\ Ordered /\ Known /\ NoUseAfterFree /\ Placed /\ Placed'
  BY DEF Lanes, Inv
<1>2. PICK d \in Procs, q \in Queues, p \in Packet :
              /\ p = Head(hand[c])
              /\ ring' = [ring EXCEPT ![d][q] = Append(@, p)]
              /\ InRing' = InRing \cup {p}
              /\ Bursts("nic") = {p} \cup Bursts("nic")'
              /\ UNCHANGED <<InNic, Bursts("ring")>>
  BY <1>1, EnqueueEffect
<1>3. PopHand(c) /\ at[c][1] = "nic" /\ UNCHANGED <<nic, held, arrived, done>>
  BY DEF Enqueue
<1>4. ring \in [Procs -> [Queues -> Seq(Packet)]] /\ ring[d][q] \in Seq(Packet)
  BY <1>1 DEF Placed
<1>5. \A e \in Procs, r \in Queues :
         ring'[e][r] = IF <<e, r>> = <<d, q>> THEN Append(ring[d][q], p) ELSE ring[e][r]
  BY <1>2, <1>4
<1>6. \A x \in InRing : Earlier(x, p)
  BY <1>1, <1>2 DEF Ordered, Before
<1>7. \A y \in Bursts("nic")' \cup InNic : Earlier(p, y)
  <2>1. Before({p}, Bursts("nic")')
    BY <1>1, <1>2, <1>3, HeadFirst DEF Ordered
  <2> QED
    BY <1>1, <1>2, <2>1 DEF Ordered, Before
<1>8. Sorted(Append(ring[d][q], p))
  <2>1. SeqSet(ring[d][q]) \subseteq InRing
    BY Tables
  <2> QED
    BY <1>1, <1>4, <1>6, <2>1, AppendSplit DEF Ordered
<1>9. Ordered'
  <2>1. /\ \A j \in Intfs, r \in Queues : Sorted(nic'[j][r])
        /\ \A e \in Procs, r \in Queues : Sorted(ring'[e][r])
        /\ \A e \in Cores : Sorted(hand'[e])
    BY <1>1, <1>3, <1>5, <1>8, PopSorted DEF Ordered
  <2>2. Before(Bursts("ring")', InRing' \cup Bursts("nic")' \cup InNic')
    BY <1>1, <1>2 DEF Ordered, Before
  <2>3. Before(InRing', Bursts("nic")' \cup InNic')
    BY <1>1, <1>2, <1>7 DEF Ordered, Before
  <2>4. Before(Bursts("nic")', InNic')
    BY <1>1, <1>2 DEF Ordered, Before
  <2> QED
    BY <2>1, <2>2, <2>3, <2>4 DEF Ordered
<1>10. Known'
  BY <1>1, <1>3 DEF Known
<1>11. InFlight' = InFlight
  BY <1>1, <1>2, Places
<1>12. NoUseAfterFree'
  BY <1>1, <1>3, <1>11 DEF NoUseAfterFree
<1> QED
  BY <1>9, <1>10, <1>11, <1>12 DEF Lanes

(* Steps that only take packets out of bursts keep every order. *)
LEMMA FewerInHand ==
    ASSUME Ordered, UNCHANGED <<nic, ring>>, \A c \in Cores : Sorted(hand'[c]),
           \A kind : Bursts(kind)' \subseteq Bursts(kind)
    PROVE  Ordered'
<1>1. /\ \A j \in Intfs, r \in Queues : Sorted(nic'[j][r])
      /\ \A e \in Procs, r \in Queues : Sorted(ring'[e][r])
  BY DEF Ordered
<1>2. InNic' = InNic /\ InRing' = InRing
  BY DEF InNic, InRing
<1>3. Bursts("nic")' \subseteq Bursts("nic") /\ Bursts("ring")' \subseteq Bursts("ring")
  OBVIOUS
<1>4. /\ Before(Bursts("ring")', InRing' \cup Bursts("nic")' \cup InNic')
      /\ Before(InRing', Bursts("nic")' \cup InNic')
      /\ Before(Bursts("nic")', InNic')
  BY <1>2, <1>3 DEF Ordered, Before
<1> QED
  BY <1>1, <1>4 DEF Ordered

LEMMA LeaveKeeps ==
    ASSUME Lanes, Inv', NEW c \in Cores, EnqueueFails(c) \/ Discard(c) \/ Consume(c)
    PROVE  Lanes'
<1>1. Inv /\ Ordered /\ Known /\ NoUseAfterFree /\ Placed /\ Placed'
  BY DEF Lanes, Inv
<1>2. PopHand(c) /\ UNCHANGED <<nic, ring, arrived>>
  BY DEF EnqueueFails, Discard, Consume
<1>3. PICK p \in Packet :
              /\ p = Head(hand[c])
              /\ p \in InFlight
              /\ InFlight' = InFlight \ {p}
  BY <1>1, <1>2, LeaveEffect
<1>4. Ordered'
  <2>1. \A kind : Bursts(kind)' \subseteq Bursts(kind)
    BY <1>1, <1>2, PopEffect
  <2> QED
    BY <1>1, <1>2, <2>1, PopSorted, FewerInHand
<1>5. p \in held /\ held' \in {held, held \ {p}}
  BY <1>1, <1>3 DEF NoUseAfterFree, EnqueueFails, Discard, Consume
<1>6. \/ UNCHANGED done
      \/ \E d \in Procs : /\ done' = [done EXCEPT ![d] = Append(@, p)]
                          /\ held' = held \ {p}
  <2>1. ASSUME Consume(c)
        PROVE  c[2] \in Procs
    BY <1>1, <2>1, WhoPolls DEF Placed, Consume
  <2> QED
    BY <1>3, <2>1 DEF EnqueueFails, Discard, Consume
<1>7. \A d \in Procs : SeqSet(done'[d]) \subseteq SeqSet(done[d]) \cup {p}
  <2>1. done \in [Procs -> Seq(Packet)]
    BY <1>1 DEF Placed
  <2>2. \A d \in Procs : SeqSet(Append(done[d], p)) = SeqSet(done[d]) \cup {p}
    BY <2>1, AppendSplit
  <2> QED
    BY <1>6, <2>1, <2>2
<1>8. Known'
  BY <1>1, <1>2, <1>5, <1>7 DEF Known
<1>9. NoUseAfterFree'
  <2>1. InFlight' \subseteq held'
    BY <1>1, <1>3, <1>5 DEF NoUseAfterFree
  <2>2. \A d \in Procs : SeqSet(done'[d]) \cap held' = {}
    BY <1>1, <1>5, <1>6, <1>7 DEF NoUseAfterFree
  <2> QED
    BY <2>1, <2>2 DEF NoUseAfterFree
<1> QED
  BY <1>4, <1>8, <1>9 DEF Lanes

LEMMA StopKeeps ==
    ASSUME Lanes, Inv', NEW c \in Cores, Stop(c)
    PROVE  Lanes' /\ InFlight' \subseteq InFlight
<1>1. Inv /\ Ordered /\ Known /\ NoUseAfterFree /\ Placed /\ Placed'
  BY DEF Lanes, Inv
<1>2. UNCHANGED <<nic, ring, held, arrived, done>>
  BY DEF Stop
<1>3. \A e \in Cores : IF e = c THEN hand'[e] = <<>> ELSE hand'[e] = hand[e] /\ at'[e] = at[e]
  BY <1>1 DEF Placed, Stop
<1>4. \A kind : Bursts(kind)' \subseteq Bursts(kind)
  BY <1>3, NothingInEmpty DEF Bursts
<1>5. Ordered'
  <2>1. \A e \in Cores : Sorted(hand'[e])
    BY <1>1, <1>3, NothingInEmpty DEF Ordered
  <2> QED
    BY <1>1, <1>2, <1>4, <2>1, FewerInHand
<1>6. Known'
  BY <1>1, <1>2 DEF Known
<1>7. InFlight' \subseteq InFlight
  <2>1. InNic' = InNic /\ InRing' = InRing
    BY <1>2 DEF InNic, InRing
  <2>2. Bursts("nic")' \subseteq Bursts("nic") /\ Bursts("ring")' \subseteq Bursts("ring")
    BY <1>4
  <2> QED
    BY <1>1, <2>1, <2>2, Places
<1>8. NoUseAfterFree'
  BY <1>1, <1>2, <1>7 DEF NoUseAfterFree
<1> QED
  BY <1>5, <1>6, <1>7, <1>8 DEF Lanes

(* A step that leaves the packets alone leaves all of this alone. *)
LEMMA StillKeeps ==
    ASSUME Lanes, Inv', UNCHANGED <<nic, ring, at, hand, held, arrived, done>>
    PROVE  Lanes' /\ UNCHANGED InFlight
<1>1. UNCHANGED <<InNic, InRing, InHand, Bursts("nic"), Bursts("ring")>>
  BY DEF InNic, InRing, InHand, Bursts
<1>2. InFlight' = InFlight
  BY <1>1 DEF InFlight
<1>3. Ordered'
  BY <1>1 DEF Lanes, Ordered
<1>4. Known'
  BY DEF Lanes, Known
<1>5. NoUseAfterFree'
  BY <1>2 DEF Lanes, NoUseAfterFree
<1> QED
  BY <1>2, <1>3, <1>4, <1>5 DEF Lanes

LEMMA NextLanes == Lanes /\ [Next]_vars => Lanes'
<1> SUFFICES ASSUME Lanes, [Next]_vars PROVE Lanes'
  OBVIOUS
<1>1. Inv'
  BY NextInv DEF Lanes
<1>2. ASSUME NEW i \in Intfs, NEW h \in Headers, NicRx(i, h)
      PROVE  Lanes'
  BY <1>1, <1>2, NicRxKeeps
<1>3. ASSUME NEW c \in Cores, Launch(c)
      PROVE  Lanes'
  BY <1>1, <1>3, StillKeeps DEF Launch
<1>4. ASSUME NEW c \in Cores, Stop(c)
      PROVE  Lanes'
  BY <1>1, <1>4, StopKeeps
<1>5. ASSUME NEW c \in Cores, PollNic(c)
      PROVE  Lanes'
  BY <1>1, <1>5, PollNicKeeps
<1>6. ASSUME NEW c \in Cores, PollRing(c)
      PROVE  Lanes'
  BY <1>1, <1>6, PollRingKeeps
<1>7. ASSUME NEW c \in Cores, Enqueue(c)
      PROVE  Lanes'
  BY <1>1, <1>7, EnqueueKeeps
<1>8. ASSUME NEW c \in Cores, EnqueueFails(c) \/ Discard(c) \/ Consume(c)
      PROVE  Lanes'
  BY <1>1, <1>8, LeaveKeeps
<1>9. CASE UNCHANGED vars
  BY <1>1, <1>9, StillKeeps DEF vars
<1> QED
  BY <1>2, <1>3, <1>4, <1>5, <1>6, <1>7, <1>8, <1>9 DEF Next, CoreStep

LEMMA LanesInvariance == Spec => []Lanes
BY InitLanes, NextLanes, PTL DEF Spec

(***************************************************************************)
(* However the cores interleave and whichever processes are stopped, no    *)
(* packet in a queue or a burst has its mbuf back in the pool, and none    *)
(* that was consumed still holds one: each mbuf is freed at most once      *)
(* (rte_pktmbuf_free in the loops of the process and distribute cores).    *)
(***************************************************************************)
THEOREM MbufsFreedOnce == Spec => []NoUseAfterFree
<1>1. Lanes => NoUseAfterFree
  BY DEF Lanes
<1> QED
  BY <1>1, LanesInvariance, PTL

(***************************************************************************)
(* An mbuf becomes unreachable only when a send finds the ring of its      *)
(* process core full (dkfw_send_pkt_to_process_core_q returns -1 and the   *)
(* loops ignore it) or when the process that held it is stopped; this is   *)
(* true of every step, whatever the sizes of rings, bursts and pools.      *)
(***************************************************************************)
THEOREM LeaksExplained == Spec => LeakOnlyWhenFull
<1>1. Lanes /\ Inv' /\ [Next]_vars => [LeakStep]_vars
  <2> SUFFICES ASSUME Lanes, Inv', Next, NEW p \in Lost' \ Lost, ~(stops' > stops)
               PROVE  \E d \in Procs : d = DstCore(p) /\ Len(ring[d][p.q]) = RingSize - 1
    BY DEF LeakStep
  <2>1. Placed /\ Placed' /\ Inv
    BY DEF Lanes, Inv
  <2>2. /\ p \in held' /\ p \notin InFlight'
        /\ p \in held => p \in InFlight
    BY DEF Lost
  <2>3. ASSUME NEW i \in Intfs, NEW h \in Headers, NicRx(i, h)
        PROVE  FALSE
    <3>1. PICK r \in Packet : /\ InNic' = InNic \cup {r}
                              /\ UNCHANGED <<InRing, Bursts("nic"), Bursts("ring")>>
                              /\ held' = held \cup {r}
      BY <2>1, <2>3, NicRxEffect
    <3>2. InFlight' = InFlight \cup {r}
      BY <2>1, <3>1, Places
    <3> QED
      BY <2>2, <3>1, <3>2
  <2>4. ASSUME NEW c \in Cores, Launch(c)
        PROVE  FALSE
    BY <2>2, <2>4, StillKeeps DEF Launch
  <2>5. ASSUME NEW c \in Cores, Stop(c)
        PROVE  FALSE
    BY <2>1, <2>5 DEF Stop, Inv, Counted
  <2>6. ASSUME NEW c \in Cores, PollNic(c) \/ PollRing(c) \/ Enqueue(c)
        PROVE  FALSE
    <3>1. UNCHANGED <<held, InFlight>>
      BY <2>6, PollNicKeeps, PollRingKeeps, EnqueueKeeps DEF PollNic, PollRing, Enqueue
    <3> QED
      BY <2>2, <3>1
  <2>7. ASSUME NEW c \in Cores, Discard(c) \/ Consume(c)
        PROVE  FALSE
    <3>1. PopHand(c) /\ UNCHANGED <<nic, ring>> /\ held' = held \ {Head(hand[c])}
      BY <2>7 DEF Discard, Consume
    <3>2. InFlight' = InFlight \ {Head(hand[c])}
      BY <2>1, <3>1, LeaveEffect
    <3> QED
      BY <2>2, <3>1, <3>2
  <2>8. ASSUME NEW c \in Cores, EnqueueFails(c)
        PROVE  \E d \in Procs : d = DstCore(p) /\ Len(ring[d][p.q]) = RingSize - 1
    <3>1. /\ PopHand(c) /\ at[c][1] = "nic" /\ UNCHANGED <<nic, ring, held>>
          /\ DstCore(Head(hand[c])) >= 0 /\ Full(DstCore(Head(hand[c])), c)
      BY <2>8 DEF EnqueueFails
    <3>2. InFlight' = InFlight \ {Head(hand[c])}
      BY <2>1, <3>1, LeaveEffect
    <3>3. p = Head(hand[c])
      BY <2>2, <3>1, <3>2
    <3>4. p \in Packet /\ p.q = c[2]
      BY <2>1, <3>1, <3>3, PopHandTyped DEF Burst, From
    <3>5. DstCore(p) \in Procs
      BY <3>1, <3>3, <3>4, DstCoreRange
    <3> QED
      BY <3>1, <3>3, <3>4, <3>5 DEF Full, SendQueue
  <2> QED
    BY <2>3, <2>4, <2>5, <2>6, <2>7, <2>8 DEF Next, CoreStep
<1>2. Lanes => Inv
  BY DEF Lanes
<1> QED
  BY <1>1, <1>2, LanesInvariance, PTL DEF Spec, LeakOnlyWhenFull

(* Initially the switch is empty. *)
LEMMA SwitchInit == Init => Switch!Init
<1> SUFFICES ASSUME Init PROVE Switch!Init
  OBVIOUS
<1>1. InFlight = {}
  <2>1. \A i \in Intfs, q \in Queues : SeqSet(nic[i][q]) = {}
    BY NothingInEmpty DEF Init
  <2>2. \A d \in Procs, q \in Queues : SeqSet(ring[d][q]) = {}
    BY NothingInEmpty DEF Init
  <2>3. \A c \in Cores : SeqSet(hand[c]) = {}
    BY NothingInEmpty DEF Init
  <2> QED
    BY <2>1, <2>2, <2>3 DEF InFlight, InNic, InRing, InHand
<1>2. arrived = 0 /\ done = [d \in Procs |-> <<>>]
  BY DEF Init
<1> QED
  BY <1>1, <1>2 DEF Switch!Init

(* The packet that a process core consumes is the oldest of its stream. *)
LEMMA OldestFirst ==
    ASSUME Lanes, Placed', NEW c \in Cores, Consume(c),
           NEW o \in InFlight, SameStream(o, Head(hand[c]))
    PROVE  o.id >= Head(hand[c]).id
<1>1. Inv /\ Placed /\ Ordered /\ Known /\ NoUseAfterFree
  BY DEF Lanes, Inv
<1>2. at[c][1] = "ring" /\ PopHand(c) /\ UNCHANGED <<nic, ring>>
  BY DEF Consume
<1>3. PICK p \in Packet : p = Head(hand[c]) /\ p \in InFlight
  BY <1>1, <1>2, LeaveEffect
<1>4. o \in Packet /\ o.q = RxQueue(o.hdr) /\ p.q = RxQueue(p.hdr)
  BY <1>1, <1>3 DEF NoUseAfterFree, Known, Inv, Counted
<1>5. SameLane(p, o)
  BY <1>3, <1>4 DEF SameStream, SameLane, DstCore
<1>6. Bursts("ring") = {p} \cup Bursts("ring")'
  BY <1>1, <1>2, <1>3, PopEffect
<1>7. o = p \/ Earlier(p, o)
  <2>1. Before({p}, Bursts("ring")')
    BY <1>1, <1>2, <1>3, HeadFirst DEF Ordered
  <2>2. InFlight = InNic \cup InRing \cup Bursts("nic") \cup Bursts("ring")
    BY <1>1, Places
  <2> QED
    BY <1>1, <1>6, <2>1, <2>2 DEF Ordered, Before
<1>8. o.id \in Nat /\ p.id \in Nat
  BY <1>4 DEF Packet
<1> QED
  BY <1>3, <1>5, <1>7, <1>8 DEF Earlier

(* Every step of the packet path is a step of the switch, or none. *)
LEMMA SwitchNext == Lanes /\ Inv' /\ [Next]_vars => [Switch!Next]_Switch!vars
<1> SUFFICES ASSUME Lanes, Inv', [Next]_vars PROVE [Switch!Next]_Switch!vars
  OBVIOUS
<1>1. Placed /\ Placed' /\ Inv
  BY DEF Lanes, Inv
<1>2. ASSUME NEW i \in Intfs, NEW h \in Headers, NicRx(i, h)
      PROVE  Switch!Next
  <2>1. PICK p \in Packet : /\ p.id = arrived + 1
                            /\ InNic' = InNic \cup {p}
                            /\ UNCHANGED <<InRing, Bursts("nic"), Bursts("ring")>>
    BY <1>1, <1>2, NicRxEffect
  <2>2. InFlight' = InFlight \cup {p}
    BY <1>1, <2>1, Places
  <2>3. arrived' = arrived + 1 /\ done' = done
    BY <1>2 DEF NicRx
  <2>4. Switch!Accept(p)
    BY <2>1, <2>2, <2>3 DEF Switch!Accept
  <2> QED
    BY <2>4 DEF Switch!Next
<1>3. ASSUME NEW c \in Cores, Launch(c)
      PROVE  UNCHANGED Switch!vars
  BY <1>3, StillKeeps DEF Launch, Switch!vars
<1>4. ASSUME NEW lost, lost \subseteq InFlight, InFlight' = InFlight \ lost,
             UNCHANGED <<arrived, done>>
      PROVE  Switch!Next
  <2>1. Switch!Drop(lost)
    BY <1>4 DEF Switch!Drop
  <2> QED
    BY <1>4, <2>1 DEF Switch!Next
<1>5. ASSUME NEW c \in Cores, Stop(c)
      PROVE  Switch!Next
  <2>1. InFlight' \subseteq InFlight
    BY <1>5, StopKeeps
  <2>2. PICK lost : lost = InFlight \ InFlight'
    OBVIOUS
  <2>3. lost \subseteq InFlight /\ InFlight' = InFlight \ lost
    BY <2>1, <2>2
  <2> QED
    BY <1>4, <1>5, <2>3 DEF Stop
<1>6. ASSUME NEW c \in Cores, PollNic(c) \/ PollRing(c) \/ Enqueue(c)
      PROVE  UNCHANGED Switch!vars
  <2>1. UNCHANGED <<InFlight, arrived, done>>
    BY <1>6, PollNicKeeps, PollRingKeeps, EnqueueKeeps DEF PollNic, PollRing, Enqueue
  <2> QED
    BY <2>1 DEF Switch!vars
<1>7. ASSUME NEW c \in Cores, EnqueueFails(c) \/ Discard(c)
      PROVE  Switch!Next
  <2>1. PopHand(c) /\ UNCHANGED <<nic, ring, arrived, done>>
    BY <1>7 DEF EnqueueFails, Discard
  <2>2. PICK p \in Packet : p \in InFlight /\ InFlight' = InFlight \ {p}
    BY <1>1, <2>1, LeaveEffect
  <2>3. PICK lost : lost = {p}
    OBVIOUS
  <2> QED
    BY <1>4, <2>1, <2>2, <2>3
<1>8. ASSUME NEW c \in Cores, Consume(c)
      PROVE  Switch!Next
  <2>1. PopHand(c) /\ at[c][1] = "ring" /\ UNCHANGED <<nic, ring, arrived>>
    BY <1>8 DEF Consume
  <2>2. PICK p \in Packet :
              /\ p = Head(hand[c])
              /\ p \in InFlight
              /\ InFlight' = InFlight \ {p}
    BY <1>1, <2>1, LeaveEffect
  <2>3. PICK d \in Procs : d = c[2] /\ d = DstCore(p)
    BY <1>1, <2>1, <2>2, WhoPolls, PopHandTyped DEF Placed, Burst, To
  <2>4. done' = [done EXCEPT ![d] = Append(@, p)]
    BY <1>8, <2>2, <2>3 DEF Consume
  <2>5. \A o \in InFlight : SameStream(o, p) => o.id >= p.id
    BY <1>1, <1>8, <2>2, OldestFirst
  <2>6. Switch!Process(d, p)
    BY <2>1, <2>2, <2>3, <2>4, <2>5 DEF Switch!Process
  <2> QED
    BY <2>2, <2>6 DEF Switch!Next
<1>9. CASE UNCHANGED vars
  BY <1>9, StillKeeps DEF vars, Switch!vars
<1> QED
  BY <1>2, <1>3, <1>5, <1>6, <1>7, <1>8, <1>9 DEF Next, CoreStep

(***************************************************************************)
(* The packet path implements the packet switch, for every number of       *)
(* cores, cards and slots: cards accept packets, the two failures of the   *)
(* loops and a stopped process drop them, and what a process core consumes *)
(* is the oldest packet of its stream that is still inside.                *)
(***************************************************************************)
THEOREM ImplementsSwitch == Spec => SwitchSpec
<1>1. Lanes => Inv
  BY DEF Lanes
<1> QED
  BY <1>1, SwitchInit, SwitchNext, LanesInvariance, PTL DEF Spec, SwitchSpec, Switch!Spec
-----------------------------------------------------------------------------
(***************************************************************************)
(* Sums over finite sets.  FoldFunctionOnSet takes the elements out in an  *)
(* order of its own (Some); what it returns does not depend on it.         *)
(***************************************************************************)
SumOf(g, S) == FoldFunctionOnSet(+, 0, g, S)

Some(s) == CHOOSE x \in s : TRUE

\* u is a table of the sums of g over the sets in T.
SumsOver(u, g, T) ==
    \A s \in T : u[s] = IF s = {} THEN 0 ELSE g[Some(s)] + u[s \ {Some(s)}]

Upto(S, k) == {s \in SUBSET S : Cardinality(s) <= k}

LEMMA LeastNat ==
    ASSUME NEW T \in SUBSET Nat, T # {}
    PROVE  \E n \in T : \A m \in T : n <= m
<1>1. PICK R : R = OpToRel(<, Nat)
  OBVIOUS
<1>2. IsWellFoundedOn(R, Nat)
  BY <1>1, NatLessThanWellFounded
<1>3. PICK n \in T : \A m \in T : ~(<<m, n>> \in R)
  BY <1>2, WFMin
<1>4. ASSUME NEW m \in T PROVE n <= m
  <2>1. <<m, n>> \in R <=> m < n
    BY <1>1 DEF OpToRel
  <2> QED
    BY <1>3, <2>1
<1> QED
  BY <1>4

LEMMA TakeOne ==
    ASSUME NEW S, IsFiniteSet(S), NEW s \in SUBSET S
    PROVE  /\ IsFiniteSet(s) /\ Cardinality(s) \in Nat /\ Cardinality(s) <= Cardinality(S)
           /\ s = {} <=> Cardinality(s) = 0
           /\ s # {} => /\ Some(s) \in s /\ Some(s) \in S
                        /\ s \ {Some(s)} \in SUBSET S
                        /\ Cardinality(s \ {Some(s)}) = Cardinality(s) - 1
<1>1. IsFiniteSet(s) /\ Cardinality(s) <= Cardinality(S)
  BY FS_Subset
<1>2. Cardinality(s) \in Nat
  BY <1>1, FS_CardinalityType
<1>3. s = {} <=> Cardinality(s) = 0
  BY <1>1, FS_EmptySet
<1>4. ASSUME s # {} PROVE Some(s) \in s
  BY <1>4 DEF Some
<1>5. ASSUME s # {} PROVE Cardinality(s \ {Some(s)}) = Cardinality(s) - 1
  BY <1>1, <1>4, <1>5, FS_RemoveElement
<1> QED
  BY <1>1, <1>2, <1>3, <1>4, <1>5

LEMMA SumsExist ==
    ASSUME NEW S, IsFiniteSet(S), NEW g
    PROVE  \E u : u = [s \in SUBSET S |-> u[s]] /\ SumsOver(u, g, SUBSET S)
<1> DEFINE Bad == {k \in Nat : ~\E u : SumsOver(u, g, Upto(S, k))}
<1>1. ASSUME Bad # {} PROVE FALSE
  <2>1. PICK k \in Bad : \A m \in Bad : k <= m
    <3>1. Bad \in SUBSET Nat
      OBVIOUS
    <3> QED
      BY <1>1, <3>1, LeastNat
  <2>2. CASE k = 0
    <3>1. PICK u : u = [s \in {{}} |-> 0]
      OBVIOUS
    <3>2. ASSUME NEW s \in Upto(S, 0) PROVE s = {}
      <4>1. s \in SUBSET S /\ Cardinality(s) <= 0
        BY DEF Upto
      <4>2. Cardinality(s) \in Nat /\ (s = {} <=> Cardinality(s) = 0)
        BY <4>1, TakeOne
      <4> QED
        BY <4>1, <4>2
    <3>3. SumsOver(u, g, Upto(S, 0))
      BY <3>1, <3>2 DEF SumsOver
    <3> QED
      BY <2>1, <2>2, <3>3
  <2>3. CASE k # 0
    <3>1. k - 1 \in Nat /\ ~(k <= k - 1)
      BY <2>1, <2>3
    <3>2. PICK v : SumsOver(v, g, Upto(S, k - 1))
      BY <2>1, <3>1
    <3>3. PICK u : u = [s \in Upto(S, k) |-> IF s \in Upto(S, k - 1) THEN v[s]
                                             ELSE g[Some(s)] + v[s \ {Some(s)}]]
      OBVIOUS
    <3>4. ASSUME NEW s \in Upto(S, k)
          PROVE  u[s] = IF s = {} THEN 0 ELSE g[Some(s)] + u[s \ {Some(s)}]
      <4>1. s \in SUBSET S /\ Cardinality(s) <= k
        BY DEF Upto
      <4>2. CASE s = {}
        <5>1. Cardinality(s) <= k - 1
          <6>1. Cardinality(s) = 0
            BY <4>1, <4>2, TakeOne
          <6> QED
            BY <3>1, <6>1
        <5>2. s \in Upto(S, k - 1)
          BY <4>1, <5>1 DEF Upto
        <5> QED
          BY <3>2, <3>3, <4>2, <5>2 DEF SumsOver
      <4>3. CASE s # {}
        <5>1. PICK r : r = s \ {Some(s)}
          OBVIOUS
        <5>2. r \in SUBSET S /\ Cardinality(r) <= k - 1 /\ Cardinality(r) <= k
          BY <2>1, <4>1, <4>3, <5>1, TakeOne
        <5>3. r \in Upto(S, k - 1) /\ r \in Upto(S, k)
          BY <5>2 DEF Upto
        <5>4. u[r] = v[r]
          BY <3>3, <5>3
        <5>5. u[s] = g[Some(s)] + v[r]
          BY <3>2, <3>3, <4>3, <5>1 DEF SumsOver
        <5> QED
          BY <4>3, <5>1, <5>4, <5>5
      <4> QED
        BY <4>2, <4>3
    <3>5. SumsOver(u, g, Upto(S, k))
      BY <3>4 DEF SumsOver
    <3> QED
      BY <2>1, <3>5
  <2> QED
    BY <2>2, <2>3
<1>2. Cardinality(S) \in Nat
  BY FS_CardinalityType
<1>3. PICK v : SumsOver(v, g, Upto(S, Cardinality(S)))
  BY <1>1, <1>2
<1>4. \A s \in SUBSET S : s \in Upto(S, Cardinality(S))
  BY TakeOne DEF Upto
<1>5. PICK u : u = [s \in SUBSET S |-> v[s]]
  OBVIOUS
<1>6. ASSUME NEW s \in SUBSET S
      PROVE  u[s] = IF s = {} THEN 0 ELSE g[Some(s)] + u[s \ {Some(s)}]
  <2>1. v[s] = IF s = {} THEN 0 ELSE g[Some(s)] + v[s \ {Some(s)}]
    BY <1>3, <1>4 DEF SumsOver
  <2>2. u[s] = v[s] /\ u[s \ {Some(s)}] = v[s \ {Some(s)}]
    BY <1>5
  <2> QED
    BY <2>1, <2>2
<1> QED
  BY <1>5, <1>6 DEF SumsOver

(* The fold is one of these tables. *)
LEMMA FoldIsSum ==
    ASSUME NEW S, IsFiniteSet(S), NEW g
    PROVE  \E u : SumsOver(u, g, SUBSET S) /\ SumOf(g, S) = u[S]
<1> DEFINE P(u) == u = [s \in SUBSET S |-> IF s = {} THEN 0 ELSE g[Some(s)] + u[s \ {Some(s)}]]
           Table == CHOOSE u : P(u)
<1>1. PICK v : v = [s \in SUBSET S |-> v[s]] /\ SumsOver(v, g, SUBSET S)
  BY SumsExist
<1>2. P(v)
  BY <1>1 DEF SumsOver
<1>3. P(Table)
  BY <1>2
<1>4. SumOf(g, S) = Table[S]
  BY DEF SumOf, FoldFunctionOnSet, MapThenFoldSet, Some
<1> HIDE DEF Table
<1>5. SumsOver(Table, g, SUBSET S)
  BY <1>3 DEF SumsOver
<1> QED
  BY <1>4, <1>5

\* h is one more than g on C.
OneMore(g, h, C, S) ==
    \A x \in S : g[x] \in Nat /\ h[x] = IF x \in C THEN g[x] + 1 ELSE g[x]

(* Adding one at each element of C adds the number of elements of C. *)
LEMMA FoldAdds ==
    ASSUME NEW S, IsFiniteSet(S), NEW g, NEW h, NEW C, OneMore(g, h, C, S)
    PROVE  /\ SumOf(g, S) \in Nat
           /\ SumOf(h, S)
                 = SumOf(g, S) + Cardinality(C \cap S)
<1>1. PICK u : SumsOver(u, g, SUBSET S) /\ SumOf(g, S) = u[S]
  BY FoldIsSum
<1>2. PICK v : SumsOver(v, h, SUBSET S) /\ SumOf(h, S) = v[S]
  BY FoldIsSum
<1> DEFINE Good(s) == u[s] \in Nat /\ v[s] = u[s] + Cardinality(C \cap s)
           Bad == {k \in Nat : \E s \in SUBSET S : Cardinality(s) = k /\ ~Good(s)}
<1>3. ASSUME Bad # {} PROVE FALSE
  <2>1. PICK k \in Bad : \A m \in Bad : k <= m
    <3>1. Bad \in SUBSET Nat
      OBVIOUS
    <3> QED
      BY <1>3, <3>1, LeastNat
  <2>2. PICK s \in SUBSET S : Cardinality(s) = k /\ ~Good(s)
    BY <2>1
  <2>3. s # {}
    <3>1. ASSUME s = {} PROVE Good(s)
      <4>1. u[s] = 0 /\ v[s] = 0
        BY <1>1, <1>2, <3>1 DEF SumsOver
      <4>2. Cardinality(C \cap s) = 0
        <5>1. C \cap s = {}
          BY <3>1
        <5> QED
          BY <5>1, FS_EmptySet
      <4> QED
        BY <4>1, <4>2
    <3> QED
      BY <2>2, <3>1
  <2>4. PICK x, r : x = Some(s) /\ r = s \ {x}
    OBVIOUS
  <2>5. x \in s /\ x \in S /\ r \in SUBSET S /\ Cardinality(r) = k - 1
    BY <2>2, <2>3, <2>4, TakeOne
  <2>6. IsFiniteSet(r) /\ IsFiniteSet(C \cap r) /\ Cardinality(r) \in Nat
        /\ Cardinality(C \cap r) \in Nat
    <3>1. IsFiniteSet(r)
      BY <2>5, FS_Subset
    <3>2. IsFiniteSet(C \cap r)
      BY <3>1, FS_Subset
    <3> QED
      BY <3>1, <3>2, FS_CardinalityType
  <2>7. Good(r)
    <3>1. k - 1 \notin Bad
      <4>1. k \in Nat /\ ~(k <= k - 1)
        BY <2>1
      <4> HIDE DEF Bad
      <4> QED
        BY <2>1, <4>1
    <3> QED
      BY <2>5, <2>6, <3>1
  <2>8. u[s] = g[x] + u[r] /\ v[s] = h[x] + v[r]
    BY <1>1, <1>2, <2>3, <2>4 DEF SumsOver
  <2>9. Cardinality(C \cap s) = Cardinality(C \cap r) + (IF x \in C THEN 1 ELSE 0)
    <3>1. CASE x \in C
      <4>1. C \cap s = (C \cap r) \cup {x} /\ x \notin C \cap r
        BY <2>4, <2>5, <3>1
      <4> QED
        BY <2>6, <3>1, <4>1, FS_AddElement
    <3>2. CASE x \notin C
      <4>1. C \cap s = C \cap r
        BY <2>4, <3>2
      <4> QED
        BY <2>6, <3>2, <4>1
    <3> QED
      BY <3>1, <3>2
  <2>10. g[x] \in Nat /\ h[x] = IF x \in C THEN g[x] + 1 ELSE g[x]
    BY <2>5 DEF OneMore
  <2>11. Good(s)
    BY <2>6, <2>7, <2>8, <2>9, <2>10
  <2> QED
    BY <2>2, <2>11
<1>4. Cardinality(S) \in Nat /\ S \in SUBSET S
  BY FS_CardinalityType
<1>5. Good(S)
  BY <1>3, <1>4
<1> QED
  BY <1>1, <1>2, <1>5

(* A sum of zeros. *)
LEMMA FoldOfZeros ==
    ASSUME NEW S, IsFiniteSet(S), NEW g, \A x \in S : g[x] = 0
    PROVE  SumOf(g, S) = 0
<1>1. PICK u : SumsOver(u, g, SUBSET S) /\ SumOf(g, S) = u[S]
  BY FoldIsSum
<1> DEFINE Bad == {k \in Nat : \E s \in SUBSET S : Cardinality(s) = k /\ u[s] # 0}
<1>2. ASSUME Bad # {} PROVE FALSE
  <2>1. PICK k \in Bad : \A m \in Bad : k <= m
    <3>1. Bad \in SUBSET Nat
      OBVIOUS
    <3> QED
      BY <1>2, <3>1, LeastNat
  <2>2. PICK s \in SUBSET S : Cardinality(s) = k /\ u[s] # 0
    BY <2>1
  <2>3. s # {}
    BY <1>1, <2>2 DEF SumsOver
  <2>4. PICK x, r : x = Some(s) /\ r = s \ {x}
    OBVIOUS
  <2>5. x \in S /\ r \in SUBSET S /\ Cardinality(r) = k - 1 /\ Cardinality(r) \in Nat
    BY <2>2, <2>3, <2>4, TakeOne
  <2>6. u[r] = 0
    <3>1. k - 1 \notin Bad
      BY <2>1
    <3> QED
      BY <2>5, <3>1
  <2>7. u[s] = g[x] + u[r] /\ g[x] = 0
    BY <1>1, <2>3, <2>4, <2>5 DEF SumsOver
  <2> QED
    BY <2>2, <2>6, <2>7
<1>3. Cardinality(S) \in Nat /\ S \in SUBSET S
  BY FS_CardinalityType
<1> QED
  BY <1>1, <1>2, <1>3
-----------------------------------------------------------------------------
(***************************************************************************)
(* The counters.  While nothing was stopped, what arrived is counted by    *)
(* the distribute cores or still ahead of them, and what the process cores *)
(* count is what they consumed.                                            *)
(***************************************************************************)
Ahead == InNic \cup Bursts("nic")

Summed ==
    /\ IsFiniteSet(held)
    /\ NDisp > 0 /\ stops = 0 =>
          /\ Total(DispCores) + Cardinality(Ahead) = arrived
          /\ Total(ProcCores) = Consumed

(* There are finitely many cores, and none is of both kinds. *)
LEMMA CoreSets ==
    /\ IsFiniteSet(Procs) /\ IsFiniteSet(DispCores) /\ IsFiniteSet(ProcCores)
    /\ DispCores \subseteq Cores /\ ProcCores \subseteq Cores
    /\ DispCores \cap ProcCores = {}
<1>1. IsFiniteSet(Procs) /\ IsFiniteSet(0 .. NDisp - 1)
  BY SizesAssumption, FS_Interval DEF Procs
<1>2. IsFiniteSet(DispCores)
  <2>1. PICK f : f = [d \in 0 .. NDisp - 1 |-> <<"dispatch", d>>]
    OBVIOUS
  <2>2. f \in Surjection(0 .. NDisp - 1, DispCores)
    BY <2>1 DEF Surjection, DispCores
  <2> QED
    BY <1>1, <2>2, FS_Surjection DEF ExistsSurjection
<1>3. IsFiniteSet(ProcCores)
  <2>1. PICK f : f = [p \in Procs |-> <<"process", p>>]
    OBVIOUS
  <2>2. f \in Surjection(Procs, ProcCores)
    BY <2>1 DEF Surjection, ProcCores
  <2> QED
    BY <1>1, <2>2, FS_Surjection DEF ExistsSurjection
<1>4. DispCores \cap ProcCores = {}
  BY DEF DispCores, ProcCores
<1> QED
  BY <1>1, <1>2, <1>3, <1>4 DEF Cores

(* The sums that the counters are in. *)
LEMMA TotalIsSum ==
    ASSUME NEW S
    PROVE  Total(S) = SumOf(rcv_cnt, S) /\ Total(S)' = SumOf(rcv_cnt', S)
BY DEF Total, SumOf, FoldFunctionOnSet, MapThenFoldSet

LEMMA ConsumedIsSum ==
    /\ Consumed = SumOf([d \in Procs |-> Len(done[d])], Procs)
    /\ Consumed' = SumOf([d \in Procs |-> Len(done'[d])], Procs)
BY DEF Consumed, SumOf, FoldFunction, FoldFunctionOnSet, MapThenFoldSet

LEMMA TotalTyped ==
    ASSUME Inv, NEW S \in {DispCores, ProcCores}
    PROVE  Total(S) \in Nat
<1>1. IsFiniteSet(S) /\ \A x \in S : rcv_cnt[x] \in Nat
  BY CoreSets DEF Inv, Counted
<1>2. PICK C, g : C = {} /\ g = rcv_cnt
  OBVIOUS
<1>3. OneMore(g, g, C, S)
  BY <1>1, <1>2 DEF OneMore
<1>4. SumOf(g, S) \in Nat
  BY <1>1, <1>3, FoldAdds
<1> QED
  BY <1>2, <1>4, TotalIsSum

(* One core counts one packet. *)
LEMMA OneCounts ==
    ASSUME Inv, NEW c \in Cores, rcv_cnt' = [rcv_cnt EXCEPT ![c] = @ + 1],
           NEW S \in {DispCores, ProcCores}
    PROVE  /\ Total(S) \in Nat
           /\ Total(S)' = IF c \in S THEN Total(S) + 1 ELSE Total(S)
<1>1. IsFiniteSet(S) /\ S \subseteq Cores
  BY CoreSets
<1>2. PICK C, g, h : C = {c} /\ g = rcv_cnt /\ h = rcv_cnt'
  OBVIOUS
<1>3. OneMore(g, h, C, S)
  BY <1>1, <1>2 DEF OneMore, Inv, Counted
<1>4. Total(S) = SumOf(g, S) /\ Total(S)' = SumOf(h, S)
  BY <1>2, TotalIsSum
<1>5. /\ SumOf(g, S) \in Nat
      /\ SumOf(h, S) = SumOf(g, S) + Cardinality(C \cap S)
  BY <1>1, <1>3, FoldAdds
<1>6. CASE c \in S
  <2>1. C \cap S = {c} /\ Cardinality({c}) = 1
    BY <1>2, <1>6, FS_Singleton
  <2> QED
    BY <1>4, <1>5, <1>6, <2>1
<1>7. CASE c \notin S
  <2>1. C \cap S = {} /\ Cardinality({}) = 0
    BY <1>2, <1>7, FS_EmptySet
  <2> QED
    BY <1>4, <1>5, <1>7, <2>1
<1> QED
  BY <1>6, <1>7

(* One process core consumes one packet. *)
LEMMA OneConsumed ==
    ASSUME Inv, NEW d \in Procs, NEW p \in Packet, done' = [done EXCEPT ![d] = Append(@, p)]
    PROVE  Consumed \in Nat /\ Consumed' = Consumed + 1
<1>1. PICK C, g, h : /\ C = {d}
                     /\ g = [e \in Procs |-> Len(done[e])]
                     /\ h = [e \in Procs |-> Len(done'[e])]
  OBVIOUS
<1>2. Consumed = SumOf(g, Procs) /\ Consumed' = SumOf(h, Procs)
  BY <1>1, ConsumedIsSum
<1>3. ASSUME NEW e \in Procs
      PROVE  g[e] \in Nat /\ h[e] = IF e \in C THEN g[e] + 1 ELSE g[e]
  <2>1. done[e] \in Seq(Packet) /\ done \in [Procs -> Seq(Packet)]
    BY DEF Inv, Placed
  <2>2. Len(done[e]) \in Nat /\ Len(Append(done[e], p)) = Len(done[e]) + 1
    BY <2>1, AppendProperties
  <2> QED
    BY <1>1, <2>1, <2>2
<1>4. OneMore(g, h, C, Procs)
  BY <1>3 DEF OneMore
<1>5. /\ SumOf(g, Procs) \in Nat
      /\ SumOf(h, Procs)
            = SumOf(g, Procs) + Cardinality(C \cap Procs)
  BY <1>4, CoreSets, FoldAdds
<1>6. C \cap Procs = {d} /\ Cardinality({d}) = 1
  BY <1>1, FS_Singleton
<1> QED
  BY <1>2, <1>5, <1>6

(* What is still ahead is held, so there is a number of it. *)
LEMMA AheadFinite ==
    ASSUME Lanes, Summed
    PROVE  Ahead \subseteq held /\ IsFiniteSet(Ahead) /\ Cardinality(Ahead) \in Nat
<1>1. Ahead \subseteq held
  <2>1. InFlight = InNic \cup InRing \cup Bursts("nic") \cup Bursts("ring")
    BY Places DEF Lanes, Inv
  <2> QED
    BY <2>1 DEF Lanes, NoUseAfterFree, Ahead
<1>2. IsFiniteSet(Ahead)
  BY <1>1, FS_Subset DEF Summed
<1> QED
  BY <1>1, <1>2, FS_CardinalityType

(* A distribute core that is done with a packet has one less ahead of it. *)
LEMMA AheadPops ==
    ASSUME Lanes, Placed', Summed, NEW c \in Cores, PopHand(c), at[c][1] = "nic", UNCHANGED nic
    PROVE  Cardinality(Ahead)' = Cardinality(Ahead) - 1
<1>1. Placed /\ Ordered
  BY DEF Lanes, Inv
<1>2. PICK p \in Packet : p = Head(hand[c])
  BY <1>1, PopHandTyped DEF Burst, From, To
<1>3. Bursts("nic") = {p} \cup Bursts("nic")'
  BY <1>1, <1>2, PopEffect
<1>4. ~Earlier(p, p)
  BY Irreflexive
<1>5. p \notin Bursts("nic")'
  <2>1. Before({p}, Bursts("nic")')
    BY <1>1, <1>2, HeadFirst DEF Ordered
  <2> QED
    BY <1>4, <2>1 DEF Before
<1>6. p \notin InNic /\ UNCHANGED InNic
  <2>1. Before(Bursts("nic"), InNic)
    BY <1>1 DEF Ordered
  <2> QED
    BY <1>3, <1>4, <2>1 DEF Before, InNic
<1>7. p \in Ahead /\ Ahead' = Ahead \ {p}
  BY <1>3, <1>5, <1>6 DEF Ahead
<1> QED
  BY <1>7, AheadFinite, FS_RemoveElement

LEMMA InitSummed == Init => Summed
<1> SUFFICES ASSUME Init PROVE Summed
  OBVIOUS
<1>1. IsFiniteSet(held)
  BY FS_EmptySet DEF Init
<1>2. Ahead = {} /\ Cardinality(Ahead) = 0
  <2>1. \A i \in Intfs, q \in Queues : SeqSet(nic[i][q]) = {}
    BY NothingInEmpty DEF Init
  <2>2. \A c \in Cores : SeqSet(hand[c]) = {}
    BY NothingInEmpty DEF Init
  <2>3. Ahead = {}
    BY <2>1, <2>2 DEF Ahead, InNic, Bursts
  <2> QED
    BY <2>3, FS_EmptySet
<1>3. ASSUME NEW S \in {DispCores, ProcCores} PROVE Total(S) = 0
  <2>1. \A x \in S : rcv_cnt[x] = 0
    BY CoreSets DEF Init
  <2>2. IsFiniteSet(S)
    BY CoreSets
  <2> QED
    BY <2>1, <2>2, FoldOfZeros, TotalIsSum
<1>4. Consumed = 0
  <2>1. PICK g : g = [d \in Procs |-> Len(done[d])]
    OBVIOUS
  <2>2. \A d \in Procs : g[d] = 0
    BY <2>1, EmptySeq DEF Init
  <2>3. SumOf(g, Procs) = 0
    BY <2>2, CoreSets, FoldOfZeros
  <2> QED
    BY <2>1, <2>3, ConsumedIsSum
<1> QED
  BY <1>1, <1>2, <1>3, <1>4 DEF Summed, Init

LEMMA NextSummed == Lanes /\ Inv' /\ Summed /\ [Next]_vars => Summed'
<1> SUFFICES ASSUME Lanes, Inv', Summed, [Next]_vars PROVE Summed'
  OBVIOUS
<1>1. Placed /\ Placed' /\ Inv
  BY DEF Lanes, Inv
<1>2. Cardinality(Ahead) \in Nat /\ IsFiniteSet(Ahead) /\ Ahead \subseteq held /\ IsFiniteSet(held)
  BY AheadFinite DEF Summed
<1>3. ASSUME UNCHANGED rcv_cnt PROVE \A S : Total(S)' = Total(S)
  BY <1>3, TotalIsSum
<1>4. ASSUME UNCHANGED done PROVE Consumed' = Consumed
  BY <1>4, ConsumedIsSum
<1>5. \A p : IsFiniteSet(held \cup {p}) /\ IsFiniteSet(held \ {p})
  BY <1>2, FS_AddElement, FS_RemoveElement
<1>6. ASSUME NEW i \in Intfs, NEW h \in Headers, NicRx(i, h) PROVE Summed'
  <2>1. PICK p \in Packet : /\ p.id = arrived + 1
                            /\ InNic' = InNic \cup {p}
                            /\ UNCHANGED Bursts("nic")
                            /\ held' = held \cup {p}
    BY <1>1, <1>6, NicRxEffect
  <2>2. Ahead' = Ahead \cup {p}
    BY <2>1 DEF Ahead
  <2>3. p \notin Ahead
    <3>1. \A x \in held : x.id <= arrived /\ arrived \in Nat
      BY DEF Lanes, Known, Inv, Counted
    <3> QED
      BY <1>2, <2>1, <3>1
  <2>4. Cardinality(Ahead') = Cardinality(Ahead) + 1
    BY <1>2, <2>2, <2>3, FS_AddElement
  <2>5. arrived' = arrived + 1 /\ UNCHANGED <<rcv_cnt, done, stops>>
    BY <1>6 DEF NicRx
  <2>6. \A S : Total(S)' = Total(S)
    BY <1>3, <2>5
  <2>7. Consumed' = Consumed
    BY <1>4, <2>5
  <2>8. IsFiniteSet(held')
    BY <1>5, <2>1
  <2>9. Total(DispCores) \in Nat
    BY <1>1, TotalTyped
  <2>10. Total(DispCores) + Cardinality(Ahead) = arrived
            => Total(DispCores)' + Cardinality(Ahead') = arrived'
    BY <1>2, <2>4, <2>5, <2>6, <2>9
  <2> QED
    BY <2>5, <2>6, <2>7, <2>8, <2>10 DEF Summed
<1>7. ASSUME NEW c \in Cores, PollNic(c) \/ PollRing(c) PROVE Summed'
  <2>1. Ahead' = Ahead
    BY <1>1, <1>7, PollNicEffect, PollRingEffect DEF Ahead
  <2>2. UNCHANGED <<held, rcv_cnt, arrived, stops, done>>
    BY <1>7 DEF PollNic, PollRing
  <2> QED
    BY <1>3, <1>4, <2>1, <2>2 DEF Summed
<1>8. ASSUME NEW c \in Cores, Enqueue(c) \/ EnqueueFails(c) \/ Discard(c) PROVE Summed'
  <2>1. /\ PopHand(c) /\ at[c][1] = "nic" /\ CountRx(c)
        /\ held' = held \/ \E p : held' = held \ {p}
        /\ UNCHANGED <<nic, arrived, stops, done>>
    BY <1>8 DEF Enqueue, EnqueueFails, Discard
  <2>2. IsFiniteSet(held')
    BY <1>2, <1>5, <2>1
  <2>3. ASSUME NDisp > 0, stops = 0 
        PROVE  Total(DispCores)' + Cardinality(Ahead)' = arrived' /\ Total(ProcCores)' = Consumed'
    <3>1. c \in DispCores /\ c \notin ProcCores
      BY <1>1, <2>1, <2>3, PollKinds, CoreSets DEF Placed, RxCores
    <3>2. rcv_cnt' = [rcv_cnt EXCEPT ![c] = @ + 1]
      BY <2>1, <3>1 DEF CountRx
    <3>3. Total(DispCores) \in Nat /\ Total(DispCores)' = Total(DispCores) + 1
          /\ Total(ProcCores)' = Total(ProcCores)
      BY <1>1, <3>1, <3>2, OneCounts
    <3>4. Cardinality(Ahead)' = Cardinality(Ahead) - 1
      BY <1>1, <2>1, AheadPops
    <3>5. Total(DispCores) + Cardinality(Ahead) = arrived /\ Total(ProcCores) = Consumed
      BY <2>3 DEF Summed
    <3>6. Consumed' = Consumed
      BY <1>4, <2>1
    <3> QED
      BY <1>2, <2>1, <3>3, <3>4, <3>5, <3>6
  <2> QED
    BY <2>1, <2>2, <2>3 DEF Summed
<1>9. ASSUME NEW c \in Cores, Consume(c) PROVE Summed'
  <2>1. /\ PopHand(c) /\ at[c][1] = "ring" /\ rcv_cnt' = [rcv_cnt EXCEPT ![c] = @ + 1]
        /\ held' = held \ {Head(hand[c])}
        /\ done' = [done EXCEPT ![c[2]] = Append(@, Head(hand[c]))]
        /\ UNCHANGED <<nic, arrived, stops>>
    BY <1>9 DEF Consume
  <2>2. c \in ProcCores /\ c \notin DispCores
    BY <1>1, <2>1, PollKinds, CoreSets DEF Placed
  <2>3. c[2] \in Procs /\ Head(hand[c]) \in Packet
    BY <1>1, <2>1, WhoPolls, PopHandTyped DEF Placed, Burst, To
  <2>4. Ahead' = Ahead
    <3>1. Bursts("nic")' = Bursts("nic")
      BY <1>1, <2>1, PopEffect
    <3> QED
      BY <2>1, <3>1 DEF Ahead, InNic
  <2>5. Consumed' = Consumed + 1
    BY <1>1, <2>1, <2>3, OneConsumed
  <2>6. Total(DispCores)' = Total(DispCores) /\ Total(ProcCores)' = Total(ProcCores) + 1
    BY <1>1, <2>1, <2>2, OneCounts
  <2>7. IsFiniteSet(held')
    BY <1>5, <2>1
  <2> QED
    BY <2>1, <2>4, <2>5, <2>6, <2>7 DEF Summed
<1>10. ASSUME NEW c \in Cores, Launch(c) PROVE Summed'
  <2>1. UNCHANGED <<nic, ring, at, hand, held, rcv_cnt, arrived, stops, done>>
    BY <1>10 DEF Launch
  <2>2. Ahead' = Ahead
    BY <2>1 DEF Ahead, InNic, Bursts
  <2> QED
    BY <1>3, <1>4, <2>1, <2>2 DEF Summed
<1>11. ASSUME NEW c \in Cores, Stop(c) PROVE Summed'
  <2>1. stops' # 0 /\ held' = held
    BY <1>1, <1>11, SizesAssumption DEF Stop, Inv, Counted
  <2> QED
    BY <1>2, <2>1 DEF Summed
<1>12. CASE UNCHANGED vars
  <2>1. Ahead' = Ahead
    BY <1>12 DEF vars, Ahead, InNic, Bursts
  <2> QED
    BY <1>3, <1>4, <1>12, <2>1 DEF vars, Summed
<1> QED
  BY <1>6, <1>7, <1>8, <1>9, <1>10, <1>11, <1>12 DEF Next, CoreStep

(***************************************************************************)
(* The counters that the processes print add up, for any numbers of cores, *)
(* cards and slots and whatever rings overflow: as long as nothing was     *)
(* stopped, what the process cores count is short of what the distribute   *)
(* cores count by the packets on their way, leaked or discarded            *)
(* (stats_pkt_rcv_cnt in the loops of app0, app1 and the distribute cores).*)
(***************************************************************************)
THEOREM CountersAddUp == Spec => []CountsAddUp
<1>1. Lanes /\ Summed => CountsAddUp
  <2> SUFFICES ASSUME Lanes, Summed, NDisp > 0, stops = 0
               PROVE  Total(DispCores) = Total(ProcCores) + Cardinality(Behind) + Discarded
    BY DEF CountsAddUp
  <2>1. Placed /\ Ordered /\ Inv /\ InFlight \subseteq held
    BY DEF Lanes, Inv, NoUseAfterFree
  <2>2. InFlight = InNic \cup InRing \cup Bursts("nic") \cup Bursts("ring")
    BY <2>1, Places
  <2> DEFINE ProcHands == UNION {SeqSet(hand[c]) : c \in ProcCores}
  <2>3. ProcHands = Bursts("ring")
    <3>1. \A c \in Cores : c \in ProcCores <=> at[c][1] = "ring"
      BY <2>1, PollKinds, CoreSets DEF Placed, Polls, RxCores
    <3>2. ProcCores = {e \in Cores : at[e][1] = "ring"}
      BY <3>1, CoreSets
    <3> QED
      BY <3>2 DEF Bursts
  <2>4. Ahead \cap (InRing \cup Bursts("ring")) = {}
    <3>1. ASSUME NEW p \in Ahead, p \in InRing \cup Bursts("ring") PROVE FALSE
      <4>1. Earlier(p, p)
        BY <2>1, <3>1 DEF Ahead, Ordered, Before
      <4>2. p \in Packet
        BY <2>1, AheadFinite DEF Inv, Counted
      <4> QED
        BY <4>1, <4>2, Irreflexive
    <3> QED
      BY <3>1
  <2>5. Behind = held \ Ahead
    <3>1. Behind = InRing \cup Bursts("ring") \cup (held \ InFlight)
      <4>1. Behind = InRing \cup (held \ InFlight) \cup ProcHands
        BY DEF Behind, Lost
      <4> HIDE DEF ProcHands
      <4> QED
        BY <2>3, <4>1
    <3>2. InFlight = Ahead \cup (InRing \cup Bursts("ring"))
      BY <2>2 DEF Ahead
    <3> QED
      BY <2>1, <2>4, <3>1, <3>2
  <2>6. /\ Ahead \subseteq held /\ IsFiniteSet(held) /\ IsFiniteSet(Ahead)
        /\ Cardinality(Ahead) \in Nat /\ Cardinality(held) \in Nat
    BY AheadFinite, FS_CardinalityType DEF Summed
  <2>7. Cardinality(Behind) = Cardinality(held) - Cardinality(Ahead)
    <3>1. held \cap Ahead = Ahead
      BY <2>6
    <3>2. Cardinality(held \ Ahead) = Cardinality(held) - Cardinality(held \cap Ahead)
      BY <2>6, FS_Difference
    <3> QED
      BY <2>5, <3>1, <3>2
  <2>8. Total(DispCores) + Cardinality(Ahead) = arrived /\ Total(ProcCores) = Consumed
    BY DEF Summed
  <2>9. Total(DispCores) \in Nat /\ Total(ProcCores) \in Nat /\ arrived \in Nat
    BY <2>1, TotalTyped DEF Inv, Counted
  <2> QED
    BY <2>6, <2>7, <2>8, <2>9 DEF Discarded
<1>2. Lanes => Inv
  BY DEF Lanes
<1>3. Spec => []Summed
  BY <1>2, InitSummed, NextSummed, LanesInvariance, PTL DEF Spec
<1> QED
  BY <1>1, <1>3, LanesInvariance, PTL
=============================================================================
