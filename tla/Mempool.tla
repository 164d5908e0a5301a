------------------------------ MODULE Mempool ------------------------------
(***************************************************************************)
(* dkfw_mempool: objects of one size behind headers that are linked into a *)
(* free list.  There is no lock: a pool belongs to one thread, whose calls *)
(* are steps.  An object is freed once, by who holds it.                   *)
(***************************************************************************)
EXTENDS Naturals

CONSTANTS
    Pools,
    Cnt,        \* cnt of dkfw_mempool_create
    NULL

Headers == Pools \X (0 .. Cnt - 1)

VARIABLES
    first,      \* first[p]: first_header
    next,       \* next[h]: header->next
    held,       \* held[h]: how many times the application was handed the object
    refused     \* refused[p]: the last dkfw_mempool_alloc(p) returned NULL

poolVars == <<first, next, held, refused>>

\* header->pool
Pool(h) == h[1]

InUse == {h \in Headers : held[h] > 0}

\* dkfw_mempool_create pushes the headers one by one.  Pools are those it has
\* returned: when an allocation fails it frees what it has and returns NULL.
PoolInit ==
    /\ first = [p \in Pools |-> IF Cnt = 0 THEN NULL ELSE <<p, Cnt - 1>>]
    /\ next = [h \in Headers |-> IF h[2] = 0 THEN NULL ELSE <<h[1], h[2] - 1>>]
    /\ held = [h \in Headers |-> 0]
    /\ refused = [p \in Pools |-> FALSE]

AllocKeeps(p) ==
    LET header == first[p] IN
    /\ header # NULL
    /\ next' = [next EXCEPT ![header] = NULL]
    /\ held' = [held EXCEPT ![header] = @ + 1]
    /\ refused' = [refused EXCEPT ![p] = FALSE]
    /\ UNCHANGED first

Alloc(p) ==
    LET header == first[p] IN
    /\ header # NULL
    /\ first' = [first EXCEPT ![p] = next[header]]
    /\ next' = [next EXCEPT ![header] = NULL]
    /\ held' = [held EXCEPT ![header] = @ + 1]
    /\ refused' = [refused EXCEPT ![p] = FALSE]

AllocFails(p) ==
    /\ first[p] = NULL
    /\ refused' = [refused EXCEPT ![p] = TRUE]
    /\ UNCHANGED <<first, next, held>>

Free(h) ==
    /\ held[h] > 0
    /\ next' = [next EXCEPT ![h] = first[Pool(h)]]
    /\ first' = [first EXCEPT ![Pool(h)] = h]
    /\ held' = [held EXCEPT ![h] = @ - 1]
    /\ UNCHANGED refused
-----------------------------------------------------------------------------
(***************************************************************************)
(* The free lists keep what a pool promises: an object is never handed out *)
(* twice, never comes from another pool, and a call fails only when all    *)
(* the objects of the pool are in use (none is lost from the list).        *)
(***************************************************************************)
Promised == INSTANCE ObjectPool WITH Objects <- Headers, Home <- Pool

PoolSpec == Promised!Spec
=============================================================================
