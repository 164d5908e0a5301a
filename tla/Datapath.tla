----------------------------- MODULE Datapath -----------------------------
(***************************************************************************)
(* The packet path: network cards with RSS queues, distribute cores that   *)
(* poll them and forward each packet to a process core, and process cores  *)
(* that poll one ring per producer.  Without dedicated distribute cores    *)
(* every process core runs both halves (mix_loop).  Each core is a process *)
(* pinned to a CPU; the cores share the rings, the cards and the mbuf      *)
(* pools, and nothing else.                                                *)
(*                                                                         *)
(* A packet stands for the mbuf that carries it, so held, the packets that *)
(* own an mbuf, is the state of the mbuf pools.                            *)
(***************************************************************************)
EXTENDS Integers, Sequences, FiniteSets, Functions

CONSTANTS
    NProc,             \* g_pkt_process_core_num
    NDisp,             \* g_pkt_distribute_core_num; 0 is the mixed mode
    NIntf,             \* g_dkfw_interfaces_num
    RingSize,          \* slots of a packet ring, one of which stays empty
    MaxRcvPkts,        \* MAX_RCV_PKTS, the longest burst
    PoolSize,          \* mbufs in the packet pool of one RX queue
    MaxPkts,           \* bound: packets that ever arrive
    MaxStops,          \* bound: processes that are ever stopped
    Headers,           \* the headers that occur on the wire
    Jhash(_, _, _),    \* rte_jhash_3words with PRIME_VALUE
    RssHash(_)         \* the hash the cards spread packets with

ASSUME SizesAssumption ==
    /\ NProc \in Nat \ {0}
    /\ NDisp \in Nat
    /\ NIntf \in Nat \ {0}
    /\ RingSize \in Nat \ {0, 1}
    /\ MaxRcvPkts \in Nat \ {0}
    /\ PoolSize \in Nat \ {0}
    /\ MaxPkts \in Nat
    /\ MaxStops \in Nat

ASSUME HeadersAssumption ==
    Headers \subseteq [tcp : BOOLEAN, src : Int, dst : Int, sport : Int, dport : Int]

(***************************************************************************)
(* One ring and one RSS queue per core that reads the cards.               *)
(***************************************************************************)
NQueues == IF NDisp > 0 THEN NDisp ELSE NProc
Queues == 0 .. NQueues - 1
Procs == 0 .. NProc - 1
Intfs == 0 .. NIntf - 1

DispCores == {<<"dispatch", d>> : d \in 0 .. NDisp - 1}
ProcCores == {<<"process", p>> : p \in Procs}
Cores == DispCores \cup ProcCores
RxCores == IF NDisp > 0 THEN DispCores ELSE ProcCores

\* The core whose process creates what the others look up (app0, mix0).
Primary == <<"process", 0>>

Packet == [id : 1 .. MaxPkts, intf : Intfs, q : Queues, hdr : Headers]

(***************************************************************************)
(* The process core of a packet: both directions of a TCP flow hash the    *)
(* same triple; anything else has no core when there is a choice.          *)
(***************************************************************************)
FlowKeyUnordered(h) == <<h.src, h.dst, h.sport + h.dport>>

FlowKey(h) ==
    IF h.src < h.dst THEN <<h.src, h.dst, h.sport + h.dport>>
                     ELSE <<h.dst, h.src, h.sport + h.dport>>

GetAppCoreSeq(h, hash_size) ==
    IF hash_size <= 1 THEN 0
    ELSE IF h.tcp
         THEN LET k == FlowKey(h) IN Jhash(k[1], k[2], k[3]) % hash_size
         ELSE -1

\* Both hashes are unsigned.
ASSUME HashAssumption ==
    \A h \in Headers :
        /\ LET k == FlowKey(h) IN Jhash(k[1], k[2], k[3]) \in Nat
        /\ RssHash(h) \in Nat

DstCore(p) == GetAppCoreSeq(p.hdr, NProc)

RxQueue(h) == IF NQueues > 1 THEN RssHash(h) % NQueues ELSE 0

(***************************************************************************)
(* Where a core polls: the cards in turn, then its own rings in turn.      *)
(***************************************************************************)
FirstPoll(c) == IF c \in RxCores THEN <<"nic", 0>> ELSE <<"ring", 0>>

RingsPolledAsInAppLoop == NDisp

RingsPolled == IF NDisp > 0 THEN NDisp ELSE NProc

NextPoll(c, at) ==
    LET next == at[2] + 1 IN
    IF at[1] = "nic"
    THEN IF next < NIntf THEN <<"nic", next>>
         ELSE IF c \in ProcCores THEN <<"ring", 0>> ELSE FirstPoll(c)
    ELSE IF next < RingsPolled THEN <<"ring", next>> ELSE FirstPoll(c)

Polls == {<<"nic", i>> : i \in Intfs} \cup {<<"ring", i>> : i \in Queues}

VARIABLES
    up,          \* the cores whose process runs its loop
    nic,         \* nic[i][q]: packets in RX queue q of card i
    ring,        \* ring[d][q]: pkts_to_me_q[q] of process core d
    at,          \* at[c]: the queue core c is polling in its loop
    hand,        \* hand[c]: what is left of pkts_burst, on the stack of core c
    held,        \* packets whose mbuf is not in its pool
    rcv_cnt,     \* rcv_cnt[c]: stats_pkt_rcv_cnt of core c's process
    arrived,     \* history: the number of packets the cards took in
    stops,       \* history: the number of processes stopped
    done         \* history: done[d], what process core d consumed, in order

vars == <<up, nic, ring, at, hand, held, rcv_cnt, arrived, stops, done>>

SeqSet(s) == {s[n] : n \in 1 .. Len(s)}

InNic == UNION {SeqSet(nic[i][q]) : i \in Intfs, q \in Queues}
InRing == UNION {SeqSet(ring[d][q]) : d \in Procs, q \in Queues}
InHand == UNION {SeqSet(hand[c]) : c \in Cores}
InFlight == InNic \cup InRing \cup InHand

TypeOK ==
    /\ up \subseteq Cores
    /\ nic \in [Intfs -> [Queues -> Seq(Packet)]]
    /\ ring \in [Procs -> [Queues -> Seq(Packet)]]
    /\ at \in [Cores -> Polls]
    /\ hand \in [Cores -> Seq(Packet)]
    /\ held \subseteq Packet
    /\ rcv_cnt \in [Cores -> Nat]
    /\ arrived \in 0 .. MaxPkts
    /\ stops \in 0 .. MaxStops
    /\ done \in [Procs -> Seq(Packet)]
    /\ \A d \in Procs, q \in Queues : Len(ring[d][q]) < RingSize

Init ==
    /\ up = {}
    /\ nic = [i \in Intfs |-> [q \in Queues |-> <<>>]]
    /\ ring = [d \in Procs |-> [q \in Queues |-> <<>>]]
    /\ at = [c \in Cores |-> FirstPoll(c)]
    /\ hand = [c \in Cores |-> <<>>]
    /\ held = {}
    /\ rcv_cnt = [c \in Cores |-> 0]
    /\ arrived = 0
    /\ stops = 0
    /\ done = [d \in Procs |-> <<>>]

InUse(q) == {p \in held : p.q = q}

\* The primary has made the shared memory and started the cards.
SetUp == up # {} \/ stops > 0

(***************************************************************************)
(* The card (external): a packet takes an mbuf from the pool of the queue  *)
(* RSS selects.  A packet that finds the pool empty is not taken in.       *)
(***************************************************************************)
NicRx(i, h) ==
    LET q == RxQueue(h)
        p == [id |-> arrived + 1, intf |-> i, q |-> q, hdr |-> h]
    IN /\ SetUp
       /\ arrived < MaxPkts
       /\ Cardinality(InUse(q)) < PoolSize
       /\ nic' = [nic EXCEPT ![i][q] = Append(@, p)]
       /\ held' = held \cup {p}
       /\ arrived' = arrived + 1
       /\ UNCHANGED <<up, ring, at, hand, rcv_cnt, stops, done>>

(***************************************************************************)
(* dkfw_rcv_pkt_from_interface and dkfw_rcv_pkt_from_process_core_q: take  *)
(* at most MAX_RCV_PKTS packets off the queue core c is at; when there are *)
(* none the loop goes on to the next queue.                                *)
(***************************************************************************)
BurstLen(s) == IF Len(s) < MaxRcvPkts THEN Len(s) ELSE MaxRcvPkts

Take(c, s) ==
    /\ hand' = [hand EXCEPT ![c] = SubSeq(s, 1, BurstLen(s))]
    /\ at' = IF s = <<>> THEN [at EXCEPT ![c] = NextPoll(c, @)] ELSE at

RestKeepsLast(s) == IF s = <<>> THEN s ELSE SubSeq(s, BurstLen(s), Len(s))

Rest(s) == SubSeq(s, BurstLen(s) + 1, Len(s))

PollNic(c) ==
    LET i == at[c][2]
        q == c[2]
    IN /\ hand[c] = <<>>
       /\ at[c][1] = "nic"
       /\ Take(c, nic[i][q])
       /\ nic' = [nic EXCEPT ![i][q] = Rest(@)]
       /\ UNCHANGED <<up, ring, held, rcv_cnt, arrived, stops, done>>

PollRing(c) ==
    LET d == c[2]
        q == at[c][2]
    IN /\ hand[c] = <<>>
       /\ at[c][1] = "ring"
       /\ Take(c, ring[d][q])
       /\ ring' = [ring EXCEPT ![d][q] = Rest(@)]
       /\ UNCHANGED <<up, nic, held, rcv_cnt, arrived, stops, done>>

(***************************************************************************)
(* The loops over a burst, one packet a step.  The loop moves on after the *)
(* last packet.                                                            *)
(***************************************************************************)
PopHand(c) ==
    /\ hand[c] # <<>>
    /\ hand' = [hand EXCEPT ![c] = Tail(@)]
    /\ at' = IF Len(hand[c]) = 1 THEN [at EXCEPT ![c] = NextPoll(c, @)] ELSE at

SendQueueShared(c) == 0

\* The ring of a process core that core c sends to: queue core_seq.
SendQueue(c) == c[2]

FullOffByOne(d, c) == Len(ring[d][SendQueue(c)]) = RingSize

Full(d, c) == Len(ring[d][SendQueue(c)]) = RingSize - 1

CountRxIfSent(c) ==
    rcv_cnt' = IF c \in DispCores /\ ~(DstCore(Head(hand[c])) >= 0
                                        /\ Full(DstCore(Head(hand[c])), c))
               THEN [rcv_cnt EXCEPT ![c] = @ + 1] ELSE rcv_cnt

\* distribute_loop counts what it takes from the cards, mix_loop does not.
CountRx(c) ==
    rcv_cnt' = IF c \in DispCores THEN [rcv_cnt EXCEPT ![c] = @ + 1] ELSE rcv_cnt

Enqueue(c) ==
    LET d == DstCore(Head(hand[c])) IN
    /\ at[c][1] = "nic"
    /\ PopHand(c)
    /\ d >= 0
    /\ ~Full(d, c)
    /\ ring' = [ring EXCEPT ![d][SendQueue(c)] = Append(@, Head(hand[c]))]
    /\ CountRx(c)
    /\ UNCHANGED <<up, nic, held, arrived, stops, done>>

EnqueueFailsKeeps(c) ==
    /\ at[c][1] = "nic"
    /\ hand[c] # <<>>
    /\ DstCore(Head(hand[c])) >= 0
    /\ Full(DstCore(Head(hand[c])), c)
    /\ held' = held \ {Head(hand[c])}
    /\ CountRx(c)
    /\ UNCHANGED <<up, nic, ring, at, hand, arrived, stops, done>>

\* dkfw_send_pkt_to_process_core_q returns -1 and the loop ignores it: the
\* packet is gone and its mbuf stays out of the pool.
EnqueueFails(c) ==
    LET d == DstCore(Head(hand[c])) IN
    /\ at[c][1] = "nic"
    /\ PopHand(c)
    /\ d >= 0
    /\ Full(d, c)
    /\ CountRx(c)
    /\ UNCHANGED <<up, nic, ring, held, arrived, stops, done>>

DiscardForgets(c) ==
    /\ at[c][1] = "nic"
    /\ PopHand(c)
    /\ DstCore(Head(hand[c])) < 0
    /\ CountRx(c)
    /\ UNCHANGED <<up, nic, ring, held, arrived, stops, done>>

Discard(c) ==
    /\ at[c][1] = "nic"
    /\ PopHand(c)
    /\ DstCore(Head(hand[c])) < 0
    /\ held' = held \ {Head(hand[c])}
    /\ CountRx(c)
    /\ UNCHANGED <<up, nic, ring, arrived, stops, done>>

Consume(c) ==
    /\ at[c][1] = "ring"
    /\ PopHand(c)
    /\ rcv_cnt' = [rcv_cnt EXCEPT ![c] = @ + 1]
    /\ held' = held \ {Head(hand[c])}
    /\ done' = [done EXCEPT ![c[2]] = Append(@, Head(hand[c]))]
    /\ UNCHANGED <<up, nic, ring, arrived, stops>>

(***************************************************************************)
(* The processes are started by hand, the primary first, and stopped in    *)
(* any order.  What a process keeps of its own, its burst and its          *)
(* counters, goes with it; the rings, the cards and the pools are shared   *)
(* memory and stay.  Only a secondary finds them again: a second primary   *)
(* makes new ones, which is another behaviour.                             *)
(***************************************************************************)
Launch(c) ==
    /\ c \notin up
    /\ c = Primary <=> ~SetUp
    /\ up' = up \cup {c}
    /\ UNCHANGED <<nic, ring, at, hand, held, rcv_cnt, arrived, stops, done>>

Stop(c) ==
    /\ c \in up
    /\ stops < MaxStops
    /\ up' = up \ {c}
    /\ at' = [at EXCEPT ![c] = FirstPoll(c)]
    /\ hand' = [hand EXCEPT ![c] = <<>>]
    /\ rcv_cnt' = [rcv_cnt EXCEPT ![c] = 0]
    /\ stops' = stops + 1
    /\ UNCHANGED <<nic, ring, held, arrived, done>>

CoreStep(c) ==
    /\ c \in up
    /\ \/ PollNic(c)
       \/ PollRing(c)
       \/ Enqueue(c)
       \/ EnqueueFails(c)
       \/ Discard(c)
       \/ Consume(c)

Next ==
    \/ \E i \in Intfs, h \in Headers : NicRx(i, h)
    \/ \E c \in Cores : Launch(c) \/ Stop(c) \/ CoreStep(c)

Spec == Init /\ [][Next]_vars

\* Every core spins in while(1) on a CPU of its own.
Fairness == \A c \in Cores : WF_vars(CoreStep(c))

FairSpec == Spec /\ Fairness
---------------------------------------------------------------------------
SameStream(a, b) == a.intf = b.intf /\ a.hdr = b.hdr

Reversed(h) ==
    [h EXCEPT !.src = h.dst, !.dst = h.src, !.sport = h.dport, !.dport = h.sport]

SameFlow(g, h) == h \in {g, Reversed(g)}

\* Packets that process core d was given and has not dropped.
Given(d) ==
    SeqSet(done[d]) \cup UNION {SeqSet(ring[d][q]) : q \in Queues}

(***************************************************************************)
(* The two directions of a TCP flow never reach two process cores, through *)
(* whichever cards, queues and distribute cores they came: what lets the   *)
(* process cores keep flow state without locks (test/common.c, comment of  *)
(* get_app_core_seq).                                                      *)
(***************************************************************************)
FlowAffinity ==
    \A d, e \in Procs : \A a \in Given(d), b \in Given(e) :
        (a.hdr.tcp /\ SameFlow(a.hdr, b.hdr)) => d = e

(***************************************************************************)
(* Ring q of a process core is created for a single producer without       *)
(* locks.  Only the core with sequence number q reads RSS queue q, so all  *)
(* that is ever in ring q must have come from that queue.                  *)
(***************************************************************************)
SingleFeeder ==
    \A d \in Procs, q \in Queues : \A p \in SeqSet(ring[d][q]) : p.q = q

(***************************************************************************)
(* No core touches a packet whose mbuf is back in its pool, and a packet   *)
(* that was consumed has been given back: through bursts, full rings and   *)
(* stopped processes every mbuf is freed at most once.                     *)
(***************************************************************************)
NoUseAfterFree ==
    /\ InFlight \subseteq held
    /\ \A d \in Procs : SeqSet(done[d]) \cap held = {}

\* Packets whose mbuf no core can reach any more.
Lost == held \ InFlight

(***************************************************************************)
(* An mbuf becomes unreachable only by a send to a full ring or because    *)
(* the process that held it was stopped; no other path through the loops   *)
(* forgets one.                                                            *)
(***************************************************************************)
LeakStep ==
    \A p \in Lost' \ Lost :
        \/ stops' > stops
        \/ \E d \in Procs : d = DstCore(p) /\ Len(ring[d][p.q]) = RingSize - 1

LeakOnlyWhenFull == [][LeakStep]_vars

(***************************************************************************)
(* What the processes print (README.md:97): as long as none was stopped,   *)
(* the counts of the process cores fall behind those of the distribute     *)
(* cores by exactly the packets on their way, those whose mbuf leaked, and *)
(* those discarded.                                                        *)
(***************************************************************************)
Total(cores) == FoldFunctionOnSet(+, 0, rcv_cnt, cores)

Behind == InRing \cup Lost \cup UNION {SeqSet(hand[c]) : c \in ProcCores}

Consumed == FoldFunction(+, 0, [d \in Procs |-> Len(done[d])])

Discarded == arrived - Cardinality(held) - Consumed

CountsAddUp ==
    (NDisp > 0 /\ stops = 0) =>
        Total(DispCores) = Total(ProcCores) + Cardinality(Behind) + Discarded

(***************************************************************************)
(* While the processes run, every packet the cards took in is eventually   *)
(* consumed, discarded or lost: the polling order starves no card and no   *)
(* ring.                                                                   *)
(***************************************************************************)
Drains ==
    <>[](up = Cores) =>
        \A n \in 1 .. MaxPkts :
            (\E p \in InFlight : p.id = n) ~> (\A p \in InFlight : p.id # n)

(***************************************************************************)
(* The packet path implements the packet switch.                           *)
(***************************************************************************)
Switch == INSTANCE PacketSwitch WITH
    Workers <- Procs,
    WorkerOf <- DstCore,
    inside <- InFlight,
    accepted <- arrived

SwitchSpec == Switch!Spec

===========================================================================
