----------------------------- MODULE IntfStats -----------------------------
(***************************************************************************)
(* dkfw_update_intf_stats: the counters of a card are read, added to those *)
(* of the process and cleared, while the card goes on counting.  One       *)
(* counter stands for the eight, which are treated alike.  The card and    *)
(* its driver are external: either call into them may fail.                *)
(***************************************************************************)
EXTENDS Naturals

VARIABLES
    hw,         \* the counter of the card
    nic,        \* nic_stats of the process
    read,       \* eth_stats, while an update runs
    update,     \* idle, get, add or reset
    truth,      \* history: what the card has counted in all
    between,    \* history: what it counted between a read and its reset
    kept        \* history: a reset has failed

intfVars == <<hw, nic, read, update, truth, between, kept>>

IntfInit ==
    /\ hw = 0 /\ nic = 0 /\ read = 0
    /\ update = "idle"
    /\ truth = 0 /\ between = 0
    /\ kept = FALSE

\* A packet, counted by the card.
Arrive ==
    /\ hw' = hw + 1
    /\ truth' = truth + 1
    /\ between' = IF update \in {"add", "reset"} THEN between + 1 ELSE between
    /\ UNCHANGED <<nic, read, update, kept>>

UpdateBegin ==
    /\ update = "idle"
    /\ update' = "get"
    /\ UNCHANGED <<hw, nic, read, truth, between, kept>>

Get ==
    /\ update = "get"
    /\ \/ read' = hw /\ update' = "add"
       \/ read' = 0 /\ update' = "idle"   \* fails
    /\ UNCHANGED <<hw, nic, truth, between, kept>>

Add ==
    /\ update = "add"
    /\ nic' = nic + read
    /\ update' = "reset"
    /\ UNCHANGED <<hw, read, truth, between, kept>>

ResetForgotten ==
    /\ update = "reset"
    /\ update' = "idle"
    /\ read' = 0
    /\ UNCHANGED <<hw, nic, truth, between, kept>>

Reset ==
    /\ update = "reset"
    /\ update' = "idle"
    /\ read' = 0
    /\ \/ hw' = 0 /\ UNCHANGED kept
       \/ kept' = TRUE /\ UNCHANGED hw    \* fails
    /\ UNCHANGED <<nic, truth, between>>

UpdateStep == UpdateBegin \/ Get \/ Add \/ Reset
-----------------------------------------------------------------------------
(***************************************************************************)
(* Between updates no packet is counted twice unless a reset has failed,   *)
(* and none is missing but those that came between a read and its reset.   *)
(***************************************************************************)
NicStatsTrue ==
    update = "idle" =>
        /\ ~kept => nic + hw <= truth
        /\ nic + hw + between >= truth
=============================================================================
