------------------------------- MODULE Stats -------------------------------
(***************************************************************************)
(* dkfw_stats: every core counts in a cell of its own, without a lock, and *)
(* a monitor adds the cells up into a second DKFW_STATS while they count.  *)
(*                                                                         *)
(* The monitor reads one counter at a time.  The counters of one cell are  *)
(* plain memory, so the order in which the build reads them is open.  peak *)
(* and want_* are left out: no operation here writes them.                 *)
(***************************************************************************)
EXTENDS Naturals, FiniteSets

CONSTANTS
    CoreCnt,
    MaxId,
    Word        \* unsigned long is modulo Word

Cores == 0 .. CoreCnt - 1
Ids == 0 .. MaxId - 1

Types == {"NONE", "NUM", "RESOURCE_POOL", "PAIR"}

Fields(t) ==
    CASE t = "NUM" -> {"count"}
      [] t = "RESOURCE_POOL" -> {"alloc_succ", "alloc_fail", "free"}
      [] t = "PAIR" -> {"start", "stop"}
      [] OTHER -> {}

AllFields == UNION {Fields(t) : t \in Types}

ZeroCore == [f \in AllFields |-> 0]

VARIABLES
    type,       \* type[id]: of the item
    typeSum,    \* the same in the monitor's DKFW_STATS
    cell,       \* cell[id][core]: stat_cores
    sum,        \* sum[id]: stat_cores[0] of the monitor's DKFW_STATS
    walk,       \* what the monitor is doing, and where
    low         \* history: the totals when the last sum began

statsVars == <<type, typeSum, cell, sum, walk, low>>

Idle == [op |-> "idle", id |-> 0, core |-> 0, left |-> {}]

Column(id, f) == [core \in Cores |-> cell[id][core][f]]

\* SumUpTo(g)[n] is the sum of g over the first n cores.
SumUpTo(g) ==
    LET upTo[n \in 0 .. CoreCnt] == IF n = 0 THEN 0 ELSE upTo[n - 1] + g[n - 1]
    IN upTo

Total(id, f) == SumUpTo(Column(id, f))[CoreCnt]

Totals == [id \in Ids |-> [f \in AllFields |-> Total(id, f)]]

\* dkfw_stats_create, and dkfw_stats_create_with_address on memory of the caller.
StatsInit ==
    /\ type = [id \in Ids |-> "NONE"]
    /\ typeSum = [id \in Ids |-> "NONE"]
    /\ cell = [id \in Ids |-> [core \in Cores |-> ZeroCore]]
    /\ sum = [id \in Ids |-> ZeroCore]
    /\ walk = Idle
    /\ low = [id \in Ids |-> ZeroCore]

AddItemAgain(id, t) ==
    /\ t # "NONE"
    /\ type' = [type EXCEPT ![id] = t]
    /\ UNCHANGED <<typeSum, cell, sum, walk, low>>

\* An id that is taken is refused, and nothing changes.  One thread registers
\* the items: two could both find an id free before either has set its type.
AddItem(id, t) ==
    /\ t # "NONE"
    /\ type[id] = "NONE"
    /\ type' = [type EXCEPT ![id] = t]
    /\ UNCHANGED <<typeSum, cell, sum, walk, low>>

\* DKFW_STATS_*_INCR
Incr(id, core, f) ==
    /\ cell' = [cell EXCEPT ![id][core][f] = (@ + 1) % Word]
    /\ UNCHANGED <<type, typeSum, sum, walk, low>>

(***************************************************************************)
(* dkfw_stats_config_dup, an item at a time.                               *)
(***************************************************************************)
DupBegin ==
    /\ walk = Idle
    /\ walk' = [Idle EXCEPT !.op = "dup"]
    /\ UNCHANGED <<type, typeSum, cell, sum, low>>

DupItem ==
    /\ walk.op = "dup"
    /\ walk.id < MaxId
    /\ typeSum' = [typeSum EXCEPT ![walk.id] = type[walk.id]]
    /\ walk' = [walk EXCEPT !.id = @ + 1]
    /\ UNCHANGED <<type, cell, sum, low>>

DupEnd ==
    /\ walk.op = "dup"
    /\ walk.id = MaxId
    /\ walk' = Idle
    /\ UNCHANGED <<type, typeSum, cell, sum, low>>

(***************************************************************************)
(* dkfw_stats_cores_sum.                                                   *)
(***************************************************************************)
SumBegin ==
    /\ walk = Idle
    /\ walk' = [Idle EXCEPT !.op = "item"]
    /\ low' = Totals
    /\ UNCHANGED <<type, typeSum, cell, sum>>

Reading(id, core) ==
    [op |-> "fields", id |-> id, core |-> core, left |-> Fields(type[id])]

SumItemAddsOn ==
    /\ walk.op = "item"
    /\ walk.id < MaxId
    /\ walk' = Reading(walk.id, 0)
    /\ UNCHANGED <<type, typeSum, cell, sum, low>>

\* The memset, and the first core.
SumItem ==
    /\ walk.op = "item"
    /\ walk.id < MaxId
    /\ sum' = [sum EXCEPT ![walk.id] = ZeroCore]
    /\ walk' = Reading(walk.id, 0)
    /\ UNCHANGED <<type, typeSum, cell, low>>

SumCoreSkipsLast ==
    /\ walk.op = "fields"
    /\ walk.left = {}
    /\ walk' = IF walk.core + 2 < CoreCnt THEN Reading(walk.id, walk.core + 1)
               ELSE [Idle EXCEPT !.op = "item", !.id = walk.id + 1]
    /\ UNCHANGED <<type, typeSum, cell, sum, low>>

\* The type is read anew for every core.
SumCore ==
    /\ walk.op = "fields"
    /\ walk.left = {}
    /\ walk' = IF walk.core + 1 < CoreCnt THEN Reading(walk.id, walk.core + 1)
               ELSE [Idle EXCEPT !.op = "item", !.id = walk.id + 1]
    /\ UNCHANGED <<type, typeSum, cell, sum, low>>

SumField(f) ==
    /\ walk.op = "fields"
    /\ f \in walk.left
    /\ sum' = [sum EXCEPT ![walk.id][f] = (@ + cell[walk.id][walk.core][f]) % Word]
    /\ walk' = [walk EXCEPT !.left = @ \ {f}]
    /\ UNCHANGED <<type, typeSum, cell, low>>

SumEnd ==
    /\ walk.op = "item"
    /\ walk.id = MaxId
    /\ walk' = Idle
    /\ UNCHANGED <<type, typeSum, cell, sum, low>>

MonitorStep ==
    \/ DupBegin \/ DupItem \/ DupEnd
    \/ SumBegin \/ SumItem \/ SumCore \/ SumEnd
    \/ \E f \in AllFields : SumField(f)

\* What stats_to_json prints as CONCURR.
Concurr(s) == (s.alloc_succ + Word - s.free) % Word
-----------------------------------------------------------------------------
(***************************************************************************)
(* A sum that is finished lies, counter by counter, between the totals when*)
(* it began and the totals now: nothing is added twice, left over from the *)
(* sum before or skipped, whatever the cores count meanwhile.  (Two        *)
(* counters of one sum may still be of different moments.)                 *)
(***************************************************************************)
SumBracketed ==
    walk.op = "idle" =>
        \A id \in Ids, f \in AllFields :
            low[id][f] <= sum[id][f] /\ sum[id][f] <= Total(id, f)

(***************************************************************************)
(* The monitor's copy never has an item under another type than the one    *)
(* its counters are kept by, however late items are added.                 *)
(***************************************************************************)
TypesAgree == \A id \in Ids : typeSum[id] \in {"NONE", type[id]}
=============================================================================
