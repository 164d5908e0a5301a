--------------------------- MODULE DatapathProofs ---------------------------
(***************************************************************************)
(* Proofs about Datapath for any number of cores, cards, slots and packets.*)
(*                                                                         *)
(* TypeOK is not inductive: that an enqueue writes to a ring that exists   *)
(* depends on which cores poll the cards and on what they have in hand.    *)
(* Placed says what each queue and each burst may hold; it is inductive,   *)
(* and the type invariant, SingleFeeder and FlowAffinity follow from it.   *)
(***************************************************************************)
EXTENDS Datapath, SequenceTheorems, TLAPS

From(q) == {p \in Packet : p.q = q}
To(d) == {p \in Packet : DstCore(p) = d}

\* Where core c ever polls.
NicPolls == {<<"nic", i>> : i \in Intfs}
RingPolls == {<<"ring", q>> : q \in Queues}

PollsOf(c) ==
    (IF c \in RxCores THEN NicPolls ELSE {}) \cup (IF c \in ProcCores THEN RingPolls ELSE {})

\* What core c can have in hand: it came from queue c[2], or is for core c[2].
Burst(c, poll) == IF poll[1] = "nic" THEN From(c[2]) ELSE To(c[2])

Placed ==
    /\ nic \in [Intfs -> [Queues -> Seq(Packet)]]
    /\ \A i \in Intfs, q \in Queues : nic[i][q] \in Seq(From(q))
    /\ ring \in [Procs -> [Queues -> Seq(Packet)]]
    /\ \A d \in Procs, q \in Queues :
          /\ ring[d][q] \in Seq(From(q) \cap To(d))
          /\ Len(ring[d][q]) < RingSize
    /\ at \in [Cores -> Polls]
    /\ \A c \in Cores : at[c] \in PollsOf(c)
    /\ hand \in [Cores -> Seq(Packet)]
    /\ \A c \in Cores : hand[c] \in Seq(Burst(c, at[c]))
    /\ done \in [Procs -> Seq(Packet)]
    /\ \A d \in Procs : done[d] \in Seq(To(d))

Counted ==
    /\ up \subseteq Cores
    /\ held \subseteq Packet
    /\ rcv_cnt \in [Cores -> Nat]
    /\ arrived \in 0 .. MaxPkts
    /\ stops \in 0 .. MaxStops

Inv == Placed /\ Counted

-----------------------------------------------------------------------------
(* The core a header selects exists, or there is none. *)
LEMMA DstCoreRange ==
    ASSUME NEW p \in Packet
    PROVE  DstCore(p) \in Procs \cup {-1}
<1> USE SizesAssumption, HashAssumption DEF Packet
<1> DEFINE k == FlowKey(p.hdr)
<1>1. p.hdr \in Headers
  OBVIOUS
<1>2. Jhash(k[1], k[2], k[3]) \in Nat
  BY <1>1
<1>3. \A n \in Nat : n % NProc \in 0 .. NProc - 1
  BY SizesAssumption
<1>4. CASE NProc <= 1
  BY <1>4 DEF DstCore, GetAppCoreSeq, Procs
<1>5. CASE ~(NProc <= 1)
  BY <1>1, <1>2, <1>3, <1>5 DEF DstCore, GetAppCoreSeq, Procs
<1> QED
  BY <1>4, <1>5

(* RSS selects a queue that exists. *)
LEMMA RxQueueRange ==
    ASSUME NEW h \in Headers
    PROVE  RxQueue(h) \in Queues
<1>1. RssHash(h) \in Nat
  BY HashAssumption
<1>2. NQueues \in Nat /\ NQueues > 0
  BY SizesAssumption DEF NQueues
<1>3. RssHash(h) % NQueues \in 0 .. NQueues - 1
  BY <1>1, <1>2
<1> QED
  BY <1>2, <1>3 DEF RxQueue, Queues

(* Both directions of a flow select the same core. *)
LEMMA ReversedSameCore ==
    ASSUME NEW h \in Headers
    PROVE  GetAppCoreSeq(Reversed(h), NProc) = GetAppCoreSeq(h, NProc)
<1>1. /\ h \in [tcp : BOOLEAN, src : Int, dst : Int, sport : Int, dport : Int]
      /\ h.src \in Int /\ h.dst \in Int /\ h.sport \in Int /\ h.dport \in Int
  BY HeadersAssumption
<1>2. /\ Reversed(h).src = h.dst
      /\ Reversed(h).dst = h.src
      /\ Reversed(h).sport = h.dport
      /\ Reversed(h).dport = h.sport
      /\ Reversed(h).tcp = h.tcp
  BY <1>1 DEF Reversed
<1>3. h.sport + h.dport = h.dport + h.sport
  BY <1>1
<1>4. FlowKey(Reversed(h)) = FlowKey(h)
  <2>1. CASE h.src < h.dst
    BY <1>1, <1>2, <1>3, <2>1 DEF FlowKey
  <2>2. CASE h.dst < h.src
    BY <1>1, <1>2, <1>3, <2>2 DEF FlowKey
  <2>3. CASE h.src = h.dst
    BY <1>1, <1>2, <1>3, <2>3 DEF FlowKey
  <2> QED
    BY <1>1, <2>1, <2>2, <2>3
<1> QED
  BY <1>2, <1>4 DEF GetAppCoreSeq

(* A burst, and what it leaves, are sequences over the same set. *)
LEMMA BurstTyped ==
    ASSUME NEW S, NEW s \in Seq(S)
    PROVE  /\ SubSeq(s, 1, BurstLen(s)) \in Seq(S)
           /\ Rest(s) \in Seq(S)
           /\ Len(Rest(s)) <= Len(s)
<1>1. Len(s) \in Nat /\ MaxRcvPkts \in Nat
  BY SizesAssumption, LenProperties
<1>2. BurstLen(s) \in 0 .. Len(s)
  BY <1>1 DEF BurstLen
<1>3. \A i \in 1 .. Len(s) : s[i] \in S
  BY ElementOfSeq
<1>4. SubSeq(s, 1, BurstLen(s)) \in Seq(S)
  BY <1>1, <1>2, <1>3, SubSeqProperties, \A i \in 1 .. BurstLen(s) : s[i] \in S
<1>5. /\ SubSeq(s, BurstLen(s) + 1, Len(s)) \in Seq(S)
      /\ Len(SubSeq(s, BurstLen(s) + 1, Len(s)))
           = IF BurstLen(s) + 1 <= Len(s) THEN Len(s) - (BurstLen(s) + 1) + 1 ELSE 0
  BY <1>1, <1>2, <1>3, SubSeqProperties, \A i \in BurstLen(s) + 1 .. Len(s) : s[i] \in S
<1> QED
  BY <1>1, <1>2, <1>4, <1>5 DEF Rest

(* The polling order stays among the queues that exist. *)
LEMMA PollTyped ==
    ASSUME NEW c \in Cores
    PROVE  /\ FirstPoll(c) \in PollsOf(c)
           /\ \A a \in PollsOf(c) : NextPoll(c, a) \in PollsOf(c)
           /\ PollsOf(c) \subseteq Polls
<1> USE SizesAssumption
<1>1. 0 \in Intfs /\ 0 \in Queues /\ RingsPolled = NQueues
  BY DEF Intfs, Queues, NQueues, RingsPolled
<1>2. FirstPoll(c) \in PollsOf(c)
  <2>1. c \in RxCores \/ c \in ProcCores
    BY DEF Cores, RxCores, DispCores
  <2> QED
    BY <1>1, <2>1 DEF FirstPoll, PollsOf, NicPolls, RingPolls
<1>3. ASSUME NEW i \in Intfs, c \in RxCores
      PROVE  NextPoll(c, <<"nic", i>>) \in PollsOf(c)
  <2>1. i + 1 < NIntf => i + 1 \in Intfs
    BY DEF Intfs
  <2> QED
    BY <1>1, <1>2, <1>3, <2>1 DEF NextPoll, PollsOf, NicPolls, RingPolls
<1>4. ASSUME NEW q \in Queues, c \in ProcCores
      PROVE  NextPoll(c, <<"ring", q>>) \in PollsOf(c)
  <2>1. q + 1 < RingsPolled => q + 1 \in Queues
    BY <1>1 DEF Queues, NQueues
  <2> QED
    BY <1>2, <1>4, <2>1 DEF NextPoll, PollsOf, NicPolls, RingPolls
<1> QED
  BY <1>2, <1>3, <1>4 DEF PollsOf, NicPolls, RingPolls, Polls

(* A core that polls the cards has an RSS queue, one that polls rings is a *)
(* process core.                                                           *)
LEMMA WhoPolls ==
    ASSUME NEW c \in Cores, NEW a \in PollsOf(c)
    PROVE  /\ a[1] = "nic" => c[2] \in Queues /\ a[2] \in Intfs
           /\ a[1] = "ring" => c[2] \in Procs /\ a[2] \in Queues
<1> USE SizesAssumption
<1>1. c \in RxCores => c[2] \in Queues
  BY DEF RxCores, DispCores, ProcCores, Queues, NQueues, Procs
<1>2. c \in ProcCores => c[2] \in Procs
  BY DEF ProcCores
<1> QED
  BY <1>1, <1>2 DEF PollsOf, NicPolls, RingPolls

(* The steps of the loops over a burst keep what is in hand well placed. *)
LEMMA PopHandTyped ==
    ASSUME Placed, NEW c \in Cores, PopHand(c)
    PROVE  /\ Head(hand[c]) \in Burst(c, at[c])
           /\ at' \in [Cores -> Polls]
           /\ \A e \in Cores : at'[e] \in PollsOf(e)
           /\ hand' \in [Cores -> Seq(Packet)]
           /\ \A e \in Cores : hand'[e] \in Seq(Burst(e, at'[e]))
<1>1. /\ hand[c] \in Seq(Burst(c, at[c])) /\ hand[c] \in Seq(Packet) /\ hand[c] # <<>>
      /\ at[c] \in PollsOf(c)
  BY DEF Placed, PopHand
<1>2. /\ Head(hand[c]) \in Burst(c, at[c])
      /\ Tail(hand[c]) \in Seq(Burst(c, at[c]))
      /\ Len(Tail(hand[c])) = Len(hand[c]) - 1
  BY <1>1, HeadTailProperties
<1>3. Tail(hand[c]) \in Seq(Packet)
  BY <1>1, HeadTailProperties
<1>4. /\ at' \in [Cores -> Polls]
      /\ \A e \in Cores : at'[e] \in PollsOf(e)
      /\ \A e \in Cores : e # c => at'[e] = at[e]
      /\ Len(hand[c]) # 1 => at'[c] = at[c]
  BY <1>1, PollTyped DEF Placed, PopHand
<1>5. Len(hand[c]) = 1 => Tail(hand[c]) = <<>>
  <2>1. Tail(hand[c]) # <<>> => Len(Tail(hand[c])) \in Nat \ {0}
    BY <1>3, EmptySeq
  <2> QED
    BY <1>2, <2>1
<1>6. Tail(hand[c]) \in Seq(Burst(c, at'[c]))
  BY <1>2, <1>4, <1>5, EmptySeq
<1>7. /\ hand' \in [Cores -> Seq(Packet)]
      /\ hand'[c] = Tail(hand[c])
      /\ \A e \in Cores : e # c => hand'[e] = hand[e]
  BY <1>3 DEF Placed, PopHand
<1>8. \A e \in Cores : hand'[e] \in Seq(Burst(e, at'[e]))
  BY <1>4, <1>6, <1>7 DEF Placed
<1> QED
  BY <1>2, <1>4, <1>7, <1>8

(* Taking a burst off a queue whose packets core c may hold. *)
LEMMA TakeTyped ==
    ASSUME Placed, NEW c \in Cores, NEW s \in Seq(Packet), s \in Seq(Burst(c, at[c])),
           Take(c, s)
    PROVE  /\ at' \in [Cores -> Polls]
           /\ \A e \in Cores : at'[e] \in PollsOf(e)
           /\ hand' \in [Cores -> Seq(Packet)]
           /\ \A e \in Cores : hand'[e] \in Seq(Burst(e, at'[e]))
<1> DEFINE b == SubSeq(s, 1, BurstLen(s))
<1>1. b \in Seq(Packet) /\ b \in Seq(Burst(c, at[c]))
  BY BurstTyped
<1>2. s = <<>> => b = <<>>
  <2>1. s = <<>> => BurstLen(s) = 0
    BY SizesAssumption, EmptySeq DEF BurstLen
  <2> QED
    BY <2>1, SubSeqEmpty
<1>3. /\ at' \in [Cores -> Polls]
      /\ \A e \in Cores : at'[e] \in PollsOf(e)
      /\ \A e \in Cores : e # c => at'[e] = at[e]
      /\ s # <<>> => at'[c] = at[c]
  BY PollTyped DEF Placed, Take
<1>4. b \in Seq(Burst(c, at'[c]))
  BY <1>1, <1>2, <1>3, EmptySeq
<1>5. /\ hand' \in [Cores -> Seq(Packet)]
      /\ hand'[c] = b
      /\ \A e \in Cores : e # c => hand'[e] = hand[e]
  BY <1>1 DEF Placed, Take
<1> QED
  BY <1>3, <1>4, <1>5 DEF Placed
-----------------------------------------------------------------------------
(* Initially every queue is empty. *)
LEMMA InitInv == Init => Inv
<1> SUFFICES ASSUME Init PROVE Inv
  OBVIOUS
<1> USE SizesAssumption
<1>1. \A S : <<>> \in Seq(S) /\ Len(<<>>) = 0
  BY EmptySeq
<1>2. Placed
  <2>1. /\ nic \in [Intfs -> [Queues -> Seq(Packet)]]
        /\ \A i \in Intfs, q \in Queues : nic[i][q] \in Seq(From(q))
    BY <1>1 DEF Init
  <2>2. /\ ring \in [Procs -> [Queues -> Seq(Packet)]]
        /\ \A d \in Procs, q \in Queues :
              /\ ring[d][q] \in Seq(From(q) \cap To(d))
              /\ Len(ring[d][q]) < RingSize
    BY <1>1 DEF Init
  <2>3. /\ at \in [Cores -> Polls]
        /\ \A c \in Cores : at[c] \in PollsOf(c)
    BY PollTyped DEF Init
  <2>4. /\ hand \in [Cores -> Seq(Packet)]
        /\ \A c \in Cores : hand[c] \in Seq(Burst(c, at[c]))
    BY <1>1 DEF Init
  <2>5. /\ done \in [Procs -> Seq(Packet)]
        /\ \A d \in Procs : done[d] \in Seq(To(d))
    BY <1>1 DEF Init
  <2> QED
    BY <2>1, <2>2, <2>3, <2>4, <2>5 DEF Placed
<1>3. Counted
  BY DEF Init, Counted
<1> QED
  BY <1>2, <1>3 DEF Inv

(* Every step keeps queues and bursts well placed. *)
LEMMA NextInv == Inv /\ [Next]_vars => Inv'
<1> SUFFICES ASSUME Inv, [Next]_vars PROVE Inv'
  OBVIOUS
<1> USE SizesAssumption
<1>0. Placed /\ Counted
  BY DEF Inv
<1>1. ASSUME NEW i \in Intfs, NEW h \in Headers, NicRx(i, h)
      PROVE  Inv'
  <2> DEFINE q == RxQueue(h)
             p == [id |-> arrived + 1, intf |-> i, q |-> q, hdr |-> h]
  <2>1. q \in Queues
    BY RxQueueRange
  <2>2. p \in Packet /\ p \in From(q)
    BY <1>0, <1>1, <2>1 DEF NicRx, Counted, Packet, From
  <2>3. /\ nic' = [nic EXCEPT ![i][q] = Append(@, p)]
        /\ held' = held \cup {p}
        /\ arrived' = arrived + 1 /\ arrived < MaxPkts
        /\ UNCHANGED <<up, ring, at, hand, rcv_cnt, stops, done>>
    BY <1>1 DEF NicRx
  <2>4. /\ Append(nic[i][q], p) \in Seq(Packet)
        /\ Append(nic[i][q], p) \in Seq(From(q))
    BY <1>0, <2>1, <2>2, AppendProperties DEF Placed
  <2>5. /\ nic' \in [Intfs -> [Queues -> Seq(Packet)]]
        /\ \A j \in Intfs, r \in Queues : nic'[j][r] \in Seq(From(r))
    BY <1>0, <2>1, <2>3, <2>4 DEF Placed
  <2> HIDE DEF p, q
  <2>6. Placed'
    BY <1>0, <2>3, <2>5 DEF Placed, PollsOf, Burst
  <2>7. Counted'
    BY <1>0, <2>2, <2>3 DEF Counted
  <2> QED
    BY <2>6, <2>7 DEF Inv
<1>2. ASSUME NEW c \in Cores, Launch(c)
      PROVE  Inv'
  <2>1. Placed'
    BY <1>0, <1>2 DEF Placed, Launch
  <2>2. Counted'
    BY <1>0, <1>2 DEF Counted, Launch
  <2> QED
    BY <2>1, <2>2 DEF Inv
<1>3. ASSUME NEW c \in Cores, Stop(c)
      PROVE  Inv'
  <2>1. /\ at' \in [Cores -> Polls]
        /\ \A e \in Cores : at'[e] \in PollsOf(e)
        /\ \A e \in Cores : e # c => at'[e] = at[e]
    BY <1>0, <1>3, PollTyped DEF Placed, Stop
  <2>2. /\ hand' \in [Cores -> Seq(Packet)]
        /\ \A e \in Cores : hand'[e] \in Seq(Burst(e, at'[e]))
    BY <1>0, <1>3, <2>1, EmptySeq DEF Placed, Stop
  <2>3. Placed'
    BY <1>0, <1>3, <2>1, <2>2 DEF Placed, Stop
  <2>4. Counted'
    BY <1>0, <1>3 DEF Counted, Stop
  <2> QED
    BY <2>3, <2>4 DEF Inv
<1>4. ASSUME NEW c \in Cores, PollNic(c)
      PROVE  Inv'
  <2> DEFINE i == at[c][2]
             q == c[2]
  <2>1. i \in Intfs /\ q \in Queues
    BY <1>0, <1>4, WhoPolls DEF Placed, PollNic
  <2>2. /\ Take(c, nic[i][q])
        /\ nic' = [nic EXCEPT ![i][q] = Rest(@)]
        /\ UNCHANGED <<up, ring, held, rcv_cnt, arrived, stops, done>>
    BY <1>4 DEF PollNic
  <2>3. nic[i][q] \in Seq(Packet) /\ nic[i][q] \in Seq(From(q))
    BY <1>0, <2>1 DEF Placed
  <2>4. Burst(c, at[c]) = From(q)
    BY <1>4 DEF Burst, PollNic
  <2>5. /\ at' \in [Cores -> Polls]
        /\ \A e \in Cores : at'[e] \in PollsOf(e)
        /\ hand' \in [Cores -> Seq(Packet)]
        /\ \A e \in Cores : hand'[e] \in Seq(Burst(e, at'[e]))
    <3> HIDE DEF i, q
    <3> QED
      BY <1>0, <2>2, <2>3, <2>4, TakeTyped
  <2>6. Rest(nic[i][q]) \in Seq(Packet) /\ Rest(nic[i][q]) \in Seq(From(q))
    BY <2>3, BurstTyped
  <2>7. /\ nic' \in [Intfs -> [Queues -> Seq(Packet)]]
        /\ \A j \in Intfs, r \in Queues : nic'[j][r] \in Seq(From(r))
    BY <1>0, <2>1, <2>2, <2>6 DEF Placed
  <2> HIDE DEF i, q
  <2>8. Placed'
    BY <1>0, <2>2, <2>5, <2>7 DEF Placed
  <2>9. Counted'
    BY <1>0, <2>2 DEF Counted
  <2> QED
    BY <2>8, <2>9 DEF Inv
<1>5. ASSUME NEW c \in Cores, PollRing(c)
      PROVE  Inv'
  <2> DEFINE d == c[2]
             q == at[c][2]
  <2>1. d \in Procs /\ q \in Queues
    BY <1>0, <1>5, WhoPolls DEF Placed, PollRing
  <2>2. /\ Take(c, ring[d][q])
        /\ ring' = [ring EXCEPT ![d][q] = Rest(@)]
        /\ UNCHANGED <<up, nic, held, rcv_cnt, arrived, stops, done>>
    BY <1>5 DEF PollRing
  <2>3. /\ ring[d][q] \in Seq(Packet)
        /\ ring[d][q] \in Seq(From(q) \cap To(d))
        /\ Len(ring[d][q]) < RingSize
    BY <1>0, <2>1 DEF Placed
  <2>4. Burst(c, at[c]) = To(d)
    BY <1>5 DEF Burst, PollRing
  <2>5. ring[d][q] \in Seq(To(d))
    BY <2>3, SeqMonotonic
  <2>6. /\ at' \in [Cores -> Polls]
        /\ \A e \in Cores : at'[e] \in PollsOf(e)
        /\ hand' \in [Cores -> Seq(Packet)]
        /\ \A e \in Cores : hand'[e] \in Seq(Burst(e, at'[e]))
    <3> HIDE DEF d, q
    <3> QED
      BY <1>0, <2>2, <2>3, <2>4, <2>5, TakeTyped
  <2>7. /\ Rest(ring[d][q]) \in Seq(Packet)
        /\ Rest(ring[d][q]) \in Seq(From(q) \cap To(d))
        /\ Len(Rest(ring[d][q])) < RingSize
    <3>1. /\ Len(Rest(ring[d][q])) \in Nat
          /\ Len(ring[d][q]) \in Nat
          /\ Len(Rest(ring[d][q])) <= Len(ring[d][q])
      BY <2>3, BurstTyped, LenProperties
    <3> QED
      BY <2>3, <3>1, BurstTyped
  <2>8. /\ ring' \in [Procs -> [Queues -> Seq(Packet)]]
        /\ \A e \in Procs, r \in Queues :
              /\ ring'[e][r] \in Seq(From(r) \cap To(e))
              /\ Len(ring'[e][r]) < RingSize
    BY <1>0, <2>1, <2>2, <2>7 DEF Placed
  <2> HIDE DEF d, q
  <2>9. Placed'
    BY <1>0, <2>2, <2>6, <2>8 DEF Placed
  <2>10. Counted'
    BY <1>0, <2>2 DEF Counted
  <2> QED
    BY <2>9, <2>10 DEF Inv
<1>6. ASSUME NEW c \in Cores, CountRx(c)
      PROVE  rcv_cnt' \in [Cores -> Nat]
  BY <1>0, <1>6 DEF Counted, CountRx
<1>7. ASSUME NEW c \in Cores, Enqueue(c)
      PROVE  Inv'
  <2> DEFINE p == Head(hand[c])
             d == DstCore(p)
             q == SendQueue(c)
  <2>1. /\ at' \in [Cores -> Polls]
        /\ \A e \in Cores : at'[e] \in PollsOf(e)
        /\ hand' \in [Cores -> Seq(Packet)]
        /\ \A e \in Cores : hand'[e] \in Seq(Burst(e, at'[e]))
        /\ p \in Burst(c, at[c])
    BY <1>0, <1>7, PopHandTyped DEF Enqueue
  <2>2. q \in Queues /\ p \in From(q)
    BY <1>0, <1>7, <2>1, WhoPolls DEF Placed, Enqueue, Burst, SendQueue
  <2>3. p \in Packet /\ d \in Procs /\ p \in From(q) \cap To(d)
    BY <1>7, <2>2, DstCoreRange DEF From, To, Enqueue
  <2>4. /\ ring' = [ring EXCEPT ![d][q] = Append(@, p)]
        /\ Len(ring[d][q]) # RingSize - 1
        /\ UNCHANGED <<up, nic, held, arrived, stops, done>>
    BY <1>7 DEF Enqueue, Full
  <2> HIDE DEF p, d, q
  <2>5. /\ ring[d][q] \in Seq(Packet)
        /\ ring[d][q] \in Seq(From(q) \cap To(d))
        /\ Len(ring[d][q]) < RingSize
        /\ Len(ring[d][q]) \in Nat
    BY <1>0, <2>2, <2>3, LenProperties DEF Placed
  <2>6. /\ Append(ring[d][q], p) \in Seq(Packet)
        /\ Append(ring[d][q], p) \in Seq(From(q) \cap To(d))
        /\ Len(Append(ring[d][q], p)) = Len(ring[d][q]) + 1
    BY <2>3, <2>5, AppendProperties
  <2>7. Len(Append(ring[d][q], p)) < RingSize
    BY <2>4, <2>5, <2>6
  <2>8. /\ ring' \in [Procs -> [Queues -> Seq(Packet)]]
        /\ \A e \in Procs, r \in Queues :
              /\ ring'[e][r] \in Seq(From(r) \cap To(e))
              /\ Len(ring'[e][r]) < RingSize
    BY <1>0, <2>2, <2>3, <2>4, <2>6, <2>7 DEF Placed
  <2>9. Placed'
    BY <1>0, <2>1, <2>4, <2>8 DEF Placed
  <2>10. Counted'
    BY <1>0, <1>6, <1>7, <2>4 DEF Counted, Enqueue
  <2> QED
    BY <2>9, <2>10 DEF Inv
<1>8. ASSUME NEW c \in Cores, EnqueueFails(c) \/ Discard(c)
      PROVE  Inv'
  <2>1. PopHand(c) /\ CountRx(c) /\ held' \subseteq held
    BY <1>8 DEF EnqueueFails, Discard
  <2>2. UNCHANGED <<up, nic, ring, arrived, stops, done>>
    BY <1>8 DEF EnqueueFails, Discard
  <2>3. Placed'
    BY <1>0, <2>1, <2>2, PopHandTyped DEF Placed
  <2>4. Counted'
    BY <1>0, <1>6, <2>1, <2>2 DEF Counted
  <2> QED
    BY <2>3, <2>4 DEF Inv
<1>9. ASSUME NEW c \in Cores, Consume(c)
      PROVE  Inv'
  <2> DEFINE p == Head(hand[c])
             d == c[2]
  <2>1. /\ at' \in [Cores -> Polls]
        /\ \A e \in Cores : at'[e] \in PollsOf(e)
        /\ hand' \in [Cores -> Seq(Packet)]
        /\ \A e \in Cores : hand'[e] \in Seq(Burst(e, at'[e]))
        /\ p \in Burst(c, at[c])
    BY <1>0, <1>9, PopHandTyped DEF Consume
  <2>2. d \in Procs /\ p \in To(d) /\ p \in Packet
    BY <1>0, <1>9, <2>1, WhoPolls DEF Placed, Consume, Burst, To
  <2>3. /\ done' = [done EXCEPT ![d] = Append(@, p)]
        /\ held' = held \ {p}
        /\ rcv_cnt' = [rcv_cnt EXCEPT ![c] = @ + 1]
        /\ UNCHANGED <<up, nic, ring, arrived, stops>>
    BY <1>9 DEF Consume
  <2>4. Append(done[d], p) \in Seq(Packet) /\ Append(done[d], p) \in Seq(To(d))
    BY <1>0, <2>2, AppendProperties DEF Placed
  <2> HIDE DEF p, d
  <2>5. /\ done' \in [Procs -> Seq(Packet)]
        /\ \A e \in Procs : done'[e] \in Seq(To(e))
    BY <1>0, <2>2, <2>3, <2>4 DEF Placed
  <2>6. Placed'
    BY <1>0, <2>1, <2>3, <2>5 DEF Placed
  <2>7. Counted'
    BY <1>0, <2>3 DEF Counted
  <2> QED
    BY <2>6, <2>7 DEF Inv
<1>10. CASE UNCHANGED vars
  <2>1. Placed'
    BY <1>0, <1>10 DEF vars, Placed
  <2>2. Counted'
    BY <1>0, <1>10 DEF vars, Counted
  <2> QED
    BY <2>1, <2>2 DEF Inv
<1> QED
  BY <1>1, <1>2, <1>3, <1>4, <1>5, <1>7, <1>8, <1>9, <1>10 DEF Next, CoreStep

LEMMA Invariance == Spec => []Inv
BY InitInv, NextInv, PTL DEF Spec

(***************************************************************************)
(* Every queue, burst and counter keeps its type and no ring ever holds    *)
(* more than its usable slots.                                             *)
(***************************************************************************)
THEOREM TypeCorrect == Spec => []TypeOK
<1>1. Inv => TypeOK
  BY DEF Inv, Placed, Counted, TypeOK
<1> QED
  BY <1>1, Invariance, PTL

(***************************************************************************)
(* For any number of producers each ring is written by one core only, so   *)
(* creating it RING_F_SP_ENQ is right in every configuration.              *)
(***************************************************************************)
THEOREM SingleProducer == Spec => []SingleFeeder
<1>1. Inv => SingleFeeder
  <2> SUFFICES ASSUME Inv,
                      NEW d \in Procs, NEW q \in Queues, NEW p \in SeqSet(ring[d][q])
               PROVE  p.q = q
    BY DEF SingleFeeder
  <2>1. ring[d][q] \in Seq(From(q) \cap To(d))
    BY DEF Inv, Placed
  <2>2. p \in From(q)
    BY <2>1, ElementOfSeq DEF SeqSet
  <2> QED
    BY <2>2 DEF From
<1> QED
  BY <1>1, Invariance, PTL

(***************************************************************************)
(* Whatever the hashes are, and however many cores and cards there are,    *)
(* the two directions of a TCP flow reach the same process core.           *)
(***************************************************************************)
THEOREM FlowsStayTogether == Spec => []FlowAffinity
<1>1. Inv => FlowAffinity
  <2> SUFFICES ASSUME Inv,
                      NEW d \in Procs, NEW e \in Procs,
                      NEW a \in Given(d), NEW b \in Given(e),
                      SameFlow(a.hdr, b.hdr)
               PROVE  d = e
    BY DEF FlowAffinity
  <2>1. ASSUME NEW f \in Procs, NEW p \in Given(f)
        PROVE  p \in Packet /\ DstCore(p) = f
    <3>1. CASE p \in SeqSet(done[f])
      <4>1. done[f] \in Seq(To(f))
        BY DEF Inv, Placed
      <4> QED
        BY <3>1, <4>1, ElementOfSeq DEF SeqSet, To
    <3>2. CASE \E q \in Queues : p \in SeqSet(ring[f][q])
      <4>1. PICK q \in Queues : p \in SeqSet(ring[f][q])
        BY <3>2
      <4>2. ring[f][q] \in Seq(From(q) \cap To(f))
        BY DEF Inv, Placed
      <4> QED
        BY <4>1, <4>2, ElementOfSeq DEF SeqSet, To
    <3> QED
      BY <2>1, <3>1, <3>2 DEF Given
  <2>2. a \in Packet /\ b \in Packet /\ DstCore(a) = d /\ DstCore(b) = e
    BY <2>1
  <2>3. a.hdr \in Headers
    BY <2>2 DEF Packet
  <2>4. DstCore(b) = DstCore(a)
    BY <2>3, ReversedSameCore DEF SameFlow, DstCore
  <2> QED
    BY <2>2, <2>4
<1> QED
  BY <1>1, Invariance, PTL
=============================================================================
