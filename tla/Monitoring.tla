----------------------------- MODULE Monitoring -----------------------------
(***************************************************************************)
(* What an application does with the library's monitoring: every core has  *)
(* an object pool and counts its calls in an item of type RESOURCE_POOL,   *)
(* and whatever it likes in the other items, while a thread sums the items *)
(* up and updates the counters of a card.                                  *)
(* Nothing in the repository calls dkfw_mempool, dkfw_stats or             *)
(* dkfw_update_intf_stats: how they are called is the application's side.  *)
(***************************************************************************)
EXTENDS Integers, Mempool, Stats, IntfStats

CONSTANTS
    PoolItem,     \* the id of the item the pools are counted in
    ItemTypes,    \* the types items are registered with
    MaxCalls,     \* bound: calls into the pools, and counts in other items, by all cores
    MaxPkts,      \* bound: packets the card counts
    MaxRounds     \* bound: sums, copies and updates by the monitor

ASSUME MonitoringAssumption ==
    /\ Pools = Cores /\ CoreCnt \in Nat \ {0} /\ Cnt \in Nat /\ NULL \notin Headers
    /\ MaxId \in Nat /\ PoolItem \in Ids /\ ItemTypes \subseteq Types
    /\ MaxCalls \in Nat /\ Word \in Nat /\ MaxCalls < Word

VARIABLES
    event,    \* event[core]: what the core has yet to count
    calls,    \* history: what MaxCalls bounds
    rounds    \* history: what MaxRounds bounds

ownVars == <<event, calls, rounds>>
vars == <<poolVars, statsVars, intfVars, ownVars>>

Init ==
    /\ PoolInit /\ StatsInit /\ IntfInit
    /\ event = [core \in Cores |-> "none"]
    /\ calls = 0
    /\ rounds = 0

Register(id, t) ==
    /\ id = PoolItem /\ type[id] = "NONE" => t = "RESOURCE_POOL"
    /\ AddItem(id, t)
    /\ UNCHANGED <<poolVars, intfVars, ownVars>>

\* A core calls the pool and then counts what came of it.
Called(core, e) ==
    /\ type[PoolItem] # "NONE"
    /\ event[core] = "none"
    /\ calls < MaxCalls
    /\ event' = [event EXCEPT ![core] = e]
    /\ calls' = calls + 1
    /\ UNCHANGED <<statsVars, intfVars, rounds>>

CoreAllocs(core) == Alloc(core) /\ Called(core, "alloc_succ")
CoreIsRefused(core) == AllocFails(core) /\ Called(core, "alloc_fail")
CoreFrees(core) == \E h \in InUse : Pool(h) = core /\ Free(h) /\ Called(core, "free")

CoreCounts(core) ==
    /\ event[core] # "none"
    /\ Incr(PoolItem, core, event[core])
    /\ event' = [event EXCEPT ![core] = "none"]
    /\ UNCHANGED <<poolVars, intfVars, calls, rounds>>

\* The DKFW_STATS_*_INCR of the other items.
CoreCountsOther(core, id, f) ==
    /\ id # PoolItem
    /\ f \in Fields(type[id])
    /\ calls < MaxCalls
    /\ Incr(id, core, f)
    /\ calls' = calls + 1
    /\ UNCHANGED <<poolVars, intfVars, event, rounds>>

\* One thread does all of the monitoring, one thing at a time.
Monitor ==
    /\ update = "idle"
    /\ walk = Idle => rounds < MaxRounds
    /\ MonitorStep
    /\ rounds' = IF walk = Idle THEN rounds + 1 ELSE rounds
    /\ UNCHANGED <<poolVars, intfVars, event, calls>>

MonitorCard ==
    /\ walk = Idle
    /\ update = "idle" => rounds < MaxRounds
    /\ UpdateStep
    /\ rounds' = IF update = "idle" THEN rounds + 1 ELSE rounds
    /\ UNCHANGED <<poolVars, statsVars, event, calls>>

CardCounts ==
    /\ truth < MaxPkts
    /\ Arrive
    /\ UNCHANGED <<poolVars, statsVars, ownVars>>

Next ==
    \/ \E id \in Ids, t \in ItemTypes : Register(id, t)
    \/ \E core \in Cores :
          CoreAllocs(core) \/ CoreIsRefused(core) \/ CoreFrees(core) \/ CoreCounts(core)
    \/ \E core \in Cores, id \in Ids, f \in AllFields : CoreCountsOther(core, id, f)
    \/ Monitor
    \/ MonitorCard
    \/ CardCounts

Spec == Init /\ [][Next]_vars
-----------------------------------------------------------------------------
(***************************************************************************)
(* The calls by which a finished sum may be out for a counter of the pools:*)
(* those counted since it began, and those the cores have yet to count.    *)
(***************************************************************************)
Pending(e) == {core \in Cores : event[core] = e}

Missing(f) == Total(PoolItem, f) - low[PoolItem][f] + Cardinality(Pending(f))

(***************************************************************************)
(* CONCURR, as printed from a sum the cores did not wait for, is the number*)
(* of objects in use but for the calls the sum has missed: too low by some *)
(* of the allocations, or too high by some of the frees, and below zero    *)
(* (almost 2^64) only by as many.  With nothing missed it is exact.        *)
(***************************************************************************)
InUseReported ==
    walk = Idle =>
        \E d \in -Missing("alloc_succ") .. Missing("free") :
            Concurr(sum[PoolItem]) = (Cardinality(InUse) + d) % Word
=============================================================================
