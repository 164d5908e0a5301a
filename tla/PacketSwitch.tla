--------------------------- MODULE PacketSwitch ---------------------------
(***************************************************************************)
(* What the packet path promises its users, without rings, bursts or       *)
(* cores that poll: a packet is accepted once, and it is then either       *)
(* dropped or processed once, by the worker its header selects, after      *)
(* every older packet of its stream that is still inside.                  *)
(***************************************************************************)
EXTENDS Naturals, Sequences

CONSTANTS
    Packet,            \* records with a field id, the order of acceptance
    Workers,           \* the packet-process cores
    WorkerOf(_),       \* the worker a packet's header selects
    SameStream(_, _)   \* two packets of one direction of one flow

VARIABLES
    inside,            \* packets accepted and not yet dropped or processed
    accepted,          \* the number of packets accepted so far
    done               \* for each worker, what it processed, in order

vars == <<inside, accepted, done>>

TypeOK ==
    /\ inside \subseteq Packet
    /\ accepted \in Nat
    /\ done \in [Workers -> Seq(Packet)]

Init ==
    /\ inside = {}
    /\ accepted = 0
    /\ done = [w \in Workers |-> <<>>]

Accept(p) ==
    /\ p.id = accepted + 1
    /\ inside' = inside \cup {p}
    /\ accepted' = p.id
    /\ UNCHANGED done

Process(w, p) ==
    /\ w = WorkerOf(p)
    /\ \A o \in inside : SameStream(o, p) => o.id >= p.id
    /\ inside' = inside \ {p}
    /\ done' = [done EXCEPT ![w] = Append(@, p)]
    /\ UNCHANGED accepted

\* A worker that stops takes the packets of its burst with it, all at once.
Drop(lost) ==
    /\ inside' = inside \ lost
    /\ UNCHANGED <<accepted, done>>

Next ==
    \/ \E p \in Packet : Accept(p)
    \/ \E lost \in SUBSET inside : Drop(lost)
    \/ \E p \in inside, w \in Workers : Process(w, p)

Spec == Init /\ [][Next]_vars
===========================================================================
