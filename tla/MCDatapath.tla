---------------------------- MODULE MCDatapath ----------------------------
(***************************************************************************)
(* Values for model checking Datapath: two TCP flows, one of them in both  *)
(* directions, and one packet that is not TCP.  The hash of the process    *)
(* cores is not symmetric in its words and tells the flows apart; the hash *)
(* of the cards tells the directions of a flow apart, as the default RSS   *)
(* key of a card does.                                                     *)
(***************************************************************************)
EXTENDS Datapath

There == [tcp |-> TRUE, src |-> 1, dst |-> 2, sport |-> 5, dport |-> 6]
Back == [tcp |-> TRUE, src |-> 2, dst |-> 1, sport |-> 6, dport |-> 5]
Other == [tcp |-> TRUE, src |-> 4, dst |-> 2, sport |-> 5, dport |-> 6]
Arp == [tcp |-> FALSE, src |-> 0, dst |-> 0, sport |-> 0, dport |-> 0]

MCHeaders == {There, Back, Other, Arp}
MCBothWays == {There, Back}

MCJhash(a, b, c) == a + c
MCRssHash(h) == h.src

(***************************************************************************)
(* dpdkframework_intf.c:185-186: symmetric RSS keeps the two directions of *)
(* a flow in one RSS queue.                                                *)
(***************************************************************************)
SymmetricRss ==
    \A p, r \in held : SameFlow(p.hdr, r.hdr) => p.q = r.q
===========================================================================
