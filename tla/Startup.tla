------------------------------ MODULE Startup ------------------------------
(***************************************************************************)
(* dkfw_init: one process, the primary, creates the shared objects (pools, *)
(* rings, memory zones) under names computed from its configuration, and   *)
(* every other process looks the same names up, computed from its own.     *)
(* Clients, which have no configuration, come in by dkfw_ipc_client_init.  *)
(* The processes are started by hand and nothing else synchronises them.   *)
(*                                                                         *)
(* The primary is started once: a second start makes new shared memory,    *)
(* which is another behaviour.                                             *)
(***************************************************************************)
EXTENDS Integers, Sequences, FiniteSets

CONSTANTS
    Processes,
    Primary,           \* the process of type PROCESS_TYPE_PRIMARY
    Clients,           \* the processes that call dkfw_ipc_client_init
    Configs,           \* what the processes may be configured with
    Cards,             \* the PCI addresses that occur
    Present,           \* those that have a card
    MaxPci,            \* MAX_PCI_NUM
    MaxQueues,         \* MaxQueues[c]: the queues card c has
    WaitForPrimary,    \* the operator waits until the primary is up (README.md)
    MayFail,           \* a call into DPDK may fail, for want of memory or at a card
    MaxCrashes         \* bound: processes that crash

Disabled == -1

\* A DKFW_CONFIG: the core_ind of each core of a role, the cores with
\* core_is_me, whether these have a core_func_raw, the allowed cards.
Config ==
    [single : BOOLEAN, process : Seq(Int), dispatch : Seq(Int), other : Seq(Int),
     me : SUBSET ({"process", "dispatch", "other"} \X Nat), loop : BOOLEAN,
     pcis : SUBSET Cards]

ASSUME StartupAssumption ==
    /\ Primary \in Processes
    /\ Configs \subseteq [Processes -> Config]
    /\ IsFiniteSet(Cards) /\ Present \subseteq Cards
    /\ MaxPci \in Nat /\ MaxQueues \in [Cards -> Nat]
    /\ {WaitForPrimary, MayFail} \subseteq BOOLEAN
    /\ MaxCrashes \in Nat

VARIABLES
    config,      \* config[p]: the configuration of process p
    pc,          \* pc[p]: off, eal, init, ready or failed
    at,          \* at[p]: the stage of dkfw_init p is in, and how far
    attached,    \* attached[p]: the cards EAL attached in process p
    started,     \* the cards the primary configured and started
    objects,     \* names of the shared objects that exist
    noted,       \* processes that have written to the global memory
    client,      \* client[c]: off, eal, up or failed
    crashes      \* history: the number of crashes

vars == <<config, pc, at, attached, started, objects, noted, client, crashes>>

(***************************************************************************)
(* The configured cores of a role end at the first that is not enabled.    *)
(***************************************************************************)
Count(list) == Cardinality({n \in 1 .. Len(list) : \A i \in 1 .. n : list[i] # Disabled})

NProcess(p) == Count(config[p].process)
NDispatch(p) == Count(config[p].dispatch)
NOther(p) == Count(config[p].other)

QueueNumBeforeDispatch(p) ==
    IF NDispatch(p) > 0 /\ p = Primary THEN NDispatch(p) ELSE NProcess(p)

\* RX queues of a card, and rings of a process core.
QueueNum(p) == IF NDispatch(p) > 0 THEN NDispatch(p) ELSE NProcess(p)

PoolNumOfProcesses(p) == NProcess(p)

\* The packet pools, counted by interfaces_init on its own.
PoolNum(p) == IF NDispatch(p) > 0 THEN NDispatch(p) ELSE NProcess(p)

\* A card has a TX queue per process core.
Suffices(p, c) == MaxQueues[c] >= NProcess(p) /\ MaxQueues[c] >= QueueNum(p)

MeCores(p) ==
    {m \in config[p].me :
        \/ m[1] = "process" /\ m[2] < NProcess(p)
        \/ m[1] = "dispatch" /\ m[2] < NDispatch(p)
        \/ m[1] = "other" /\ m[2] < NOther(p)}

ValidMe(p) == config[p].single \/ Cardinality(MeCores(p)) = 1

(***************************************************************************)
(* The stages of dkfw_init.  In stage s process p visits Cores(p, s) cores *)
(* (or pools), with Rings(p, s) rings and PerCore(p, s) objects each.      *)
(***************************************************************************)
Stages ==
    {"count", "pools", "cards", "process", "dispatch", "other", "ipc", "global",
     "wipe", "done"}

FollowingGlobalFirst(s) ==
    CASE s = "count" -> "pools"
      [] s = "pools" -> "cards"
      [] s = "cards" -> "process"
      [] s = "process" -> "dispatch"
      [] s = "dispatch" -> "other"
      [] s = "other" -> "global"
      [] s = "global" -> "wipe"
      [] s = "wipe" -> "ipc"
      [] OTHER -> "done"

FollowingIpcFirst(s) ==
    CASE s = "count" -> "pools"
      [] s = "pools" -> "cards"
      [] s = "cards" -> "ipc"
      [] s = "ipc" -> "process"
      [] s = "process" -> "dispatch"
      [] s = "dispatch" -> "other"
      [] s = "other" -> "global"
      [] s = "global" -> "wipe"
      [] OTHER -> "done"

Following(s) ==
    CASE s = "count" -> "pools"
      [] s = "pools" -> "cards"
      [] s = "cards" -> "process"
      [] s = "process" -> "dispatch"
      [] s = "dispatch" -> "other"
      [] s = "other" -> "ipc"
      [] s = "ipc" -> "global"
      [] s = "global" -> "wipe"
      [] OTHER -> "done"

Cores(p, s) ==
    CASE s = "pools" -> IF p = Primary THEN PoolNum(p) ELSE 0
      [] s = "process" -> NProcess(p)
      [] s = "dispatch" -> NDispatch(p)
      [] s = "other" -> NOther(p)
      [] s = "ipc" -> IF p = Primary THEN 1 ELSE 0
      [] s = "global" -> 1
      [] OTHER -> 0

Rings(p, s) ==
    CASE s = "process" -> QueueNum(p)
      [] s = "dispatch" -> 1
      [] s = "other" -> NProcess(p)
      [] OTHER -> 0

PerCore(p, s) ==
    IF s \in {"process", "dispatch", "other"} THEN Rings(p, s) + 3 ELSE 1

\* The objects of a stage, and its steps.
Size(p, s) == Cores(p, s) * PerCore(p, s)

Steps(p, s) ==
    CASE s \in {"count", "wipe"} -> 1
      [] s = "cards" -> Cardinality(attached[p])
      [] OTHER -> Size(p, s)

\* Of the rings to cores, the core_ind is in the name; of the rings for
\* captured packets, the position.
ProcessRing(p, core, k) == <<"pctome", config[p].process[core + 1], k>>
PcapRing(core) == <<"pcapq", core>>
OtherRing(p, core, k) == <<"dttome", config[p].other[core + 1], k>>

RingName(p, s, core, k) ==
    CASE s = "process" -> ProcessRing(p, core, k)
      [] s = "dispatch" -> PcapRing(core)
      [] s = "other" -> OtherRing(p, core, k)

\* The two IPC rings and the memory zone that every core has.
CommonName(s, core, k) ==
    CASE k = 0 -> <<"tc", s, core>>
      [] k = 1 -> <<"tbk", s, core>>
      [] OTHER -> <<"coresm", s, core>>

PacketPool(n) == <<"dkfwnicpkts", n>>
IpcPool == <<"ipcmsgpool">>
GlobalMem == <<"dkfwsharemem">>

\* The n-th object process p comes to in stage s.
Name(p, s, n) ==
    LET core == n \div PerCore(p, s)
        k == n % PerCore(p, s)
    IN CASE s = "pools" -> PacketPool(n)
         [] s = "ipc" -> IpcPool
         [] s = "global" -> GlobalMem
         [] OTHER -> IF k < Rings(p, s) THEN RingName(p, s, core, k)
                     ELSE CommonName(s, core, k - Rings(p, s))

Names(p) == UNION {{Name(p, s, n) : n \in 0 .. Size(p, s) - 1} : s \in Stages}

TypeOK ==
    /\ config \in Configs
    /\ pc \in [Processes -> {"off", "eal", "init", "ready", "failed"}]
    /\ at \in [Processes -> [stage : Stages, n : Nat]]
    /\ attached \in [Processes -> SUBSET Cards]
    /\ started \subseteq Cards
    /\ objects \subseteq Names(Primary)
    /\ noted \subseteq Processes
    /\ client \in [Clients -> {"off", "eal", "up", "failed"}]
    /\ crashes \in 0 .. MaxCrashes

Init ==
    /\ config \in Configs
    /\ pc = [p \in Processes |-> "off"]
    /\ at = [p \in Processes |-> [stage |-> "count", n |-> 0]]
    /\ attached = [p \in Processes |-> {}]
    /\ started = {}
    /\ objects = {}
    /\ noted = {}
    /\ client = [c \in Clients |-> "off"]
    /\ crashes = 0

(***************************************************************************)
(* The operator starts a process.                                          *)
(***************************************************************************)
Launch(p) ==
    /\ pc[p] = "off"
    /\ p = Primary => crashes = 0
    /\ WaitForPrimary /\ p # Primary => pc[Primary] = "ready"
    /\ pc' = [pc EXCEPT ![p] = "eal"]
    /\ at' = [at EXCEPT ![p] = [stage |-> "count", n |-> 0]]
    /\ UNCHANGED <<config, attached, started, objects, noted, client, crashes>>

Fail(p) == pc' = [pc EXCEPT ![p] = "failed"]

(***************************************************************************)
(* The counting of the cores and eal_init.  EAL lets a secondary in once   *)
(* the primary has initialised it, and may still do so when the primary is *)
(* gone; it shares the cards of the primary, which has some or fails       *)
(* before it creates anything.                                             *)
(***************************************************************************)
CardsOffered(p) == IF p = Primary THEN Present ELSE attached[Primary]

\* Without --allow EAL takes every card.
Allowed(p) == IF config[p].pcis = {} THEN Cards ELSE config[p].pcis

EalInit(p) ==
    /\ pc[p] = "eal"
    /\ NProcess(p) > 0 /\ ValidMe(p)
    /\ p # Primary => attached[Primary] # {}
    /\ pc' = [pc EXCEPT ![p] = "init"]
    /\ attached' = [attached EXCEPT ![p] = Allowed(p) \cap CardsOffered(p)]
    /\ UNCHANGED <<config, at, started, objects, noted, client, crashes>>

EalInitFails(p) ==
    /\ pc[p] = "eal"
    /\ \/ NProcess(p) = 0
       \/ ~ValidMe(p)
       \/ MayFail
       \/ p # Primary /\ ~(attached[Primary] # {} /\ pc[Primary] \in {"init", "ready"})
    /\ Fail(p)
    /\ UNCHANGED <<config, at, attached, started, objects, noted, client, crashes>>

(***************************************************************************)
(* One step of interfaces_init, cores_init, init_ipc_msg_pool or           *)
(* global_init_sharemem.                                                   *)
(***************************************************************************)
InStage(p, s) == pc[p] = "init" /\ at[p].stage = s

Advance(p) == at' = [at EXCEPT ![p].n = @ + 1]

CountCards(p) ==
    /\ InStage(p, "count")
    /\ at[p].n = 0
    /\ Cardinality(attached[p]) \in 1 .. MaxPci
    /\ Advance(p)
    /\ UNCHANGED <<config, pc, attached, started, objects, noted, client, crashes>>

CountCardsFails(p) ==
    /\ InStage(p, "count")
    /\ at[p].n = 0
    /\ Cardinality(attached[p]) \notin 1 .. MaxPci
    /\ Fail(p)
    /\ UNCHANGED <<config, at, attached, started, objects, noted, client, crashes>>

\* interfaces_init_one.  Secondaries only ask what a card is; the primary
\* configures it, sets up its queues and starts it.  EAL orders the cards.
InitCard(p) ==
    /\ InStage(p, "cards")
    /\ at[p].n < Cardinality(attached[p])
    /\ IF p = Primary
       THEN \E c \in attached[p] \ started :
                Suffices(p, c) /\ started' = started \cup {c}
       ELSE UNCHANGED started
    /\ Advance(p)
    /\ UNCHANGED <<config, pc, attached, objects, noted, client, crashes>>

\* The cards before it stay started.
InitCardFails(p) ==
    /\ InStage(p, "cards")
    /\ at[p].n < Cardinality(attached[p])
    /\ \/ MayFail
       \/ p = Primary /\ \E c \in attached[p] \ started : ~Suffices(p, c)
    /\ Fail(p)
    /\ UNCHANGED <<config, at, attached, started, objects, noted, client, crashes>>

Here(p) == Name(p, at[p].stage, at[p].n)

AtObjectOffByOne(p) == pc[p] = "init" /\ at[p].n <= Size(p, at[p].stage)

AtObject(p) == pc[p] = "init" /\ at[p].n < Size(p, at[p].stage)

CreateOrFind(p) ==
    /\ p = Primary /\ AtObject(p)
    /\ objects' = objects \cup {Here(p)}
    /\ Advance(p)
    /\ UNCHANGED <<config, pc, attached, started, noted, client, crashes>>

\* A name that is taken makes rte_ring_create and its like fail.
Create(p) ==
    /\ p = Primary /\ AtObject(p)
    /\ Here(p) \notin objects
    /\ objects' = objects \cup {Here(p)}
    /\ Advance(p)
    /\ UNCHANGED <<config, pc, attached, started, noted, client, crashes>>

CreateFails(p) ==
    /\ p = Primary /\ AtObject(p)
    /\ MayFail \/ Here(p) \in objects
    /\ Fail(p)
    /\ UNCHANGED <<config, at, attached, started, objects, noted, client, crashes>>

Lookup(p) ==
    /\ p # Primary /\ AtObject(p)
    /\ Here(p) \in objects
    /\ Advance(p)
    /\ UNCHANGED <<config, pc, attached, started, objects, noted, client, crashes>>

LookupFails(p) ==
    /\ p # Primary /\ AtObject(p)
    /\ Here(p) \notin objects
    /\ Fail(p)
    /\ UNCHANGED <<config, at, attached, started, objects, noted, client, crashes>>

WipeAlways(p) ==
    /\ InStage(p, "wipe")
    /\ at[p].n = 0
    /\ noted' = {}
    /\ Advance(p)
    /\ UNCHANGED <<config, pc, attached, started, objects, client, crashes>>

\* The memset after the memory zone has been reserved.
Wipe(p) ==
    /\ InStage(p, "wipe")
    /\ at[p].n = 0
    /\ noted' = IF p = Primary THEN {} ELSE noted
    /\ Advance(p)
    /\ UNCHANGED <<config, pc, attached, started, objects, client, crashes>>

NextStage(p) ==
    /\ pc[p] = "init"
    /\ at[p].stage # "done"
    /\ at[p].n = Steps(p, at[p].stage)
    /\ at' = [at EXCEPT ![p] = [stage |-> Following(@.stage), n |-> 0]]
    /\ UNCHANGED <<config, pc, attached, started, objects, noted, client, crashes>>

\* dkfw_init has returned 0, and dkfw_start_loop_raw starts the loop.
Finish(p) ==
    /\ InStage(p, "done")
    /\ config[p].loop
    /\ pc' = [pc EXCEPT ![p] = "ready"]
    /\ UNCHANGED <<config, at, attached, started, objects, noted, client, crashes>>

\* The core has no core_func_raw; what dkfw_init has made stays.
FinishFails(p) ==
    /\ InStage(p, "done")
    /\ ~config[p].loop
    /\ Fail(p)
    /\ UNCHANGED <<config, at, attached, started, objects, noted, client, crashes>>

\* The application writes to the memory dkfw_global_sharemem_get returns.
Note(p) ==
    /\ pc[p] = "ready"
    /\ noted' = noted \cup {p}
    /\ UNCHANGED <<config, pc, at, attached, started, objects, client, crashes>>

\* A process dies; the shared memory stays.
Crash(p) ==
    /\ crashes < MaxCrashes
    /\ pc[p] \in {"eal", "init", "ready"}
    /\ pc' = [pc EXCEPT ![p] = IF p = Primary THEN "failed" ELSE "off"]
    /\ crashes' = crashes + 1
    /\ UNCHANGED <<config, at, attached, started, objects, noted, client>>

(***************************************************************************)
(* dkfw_ipc_client_init.  What a client looks up later, the rings of the   *)
(* cores, it takes for granted.  It leaves by dkfw_ipc_client_exit or is   *)
(* killed.                                                                 *)
(***************************************************************************)
ClientLaunch(c) ==
    /\ client[c] = "off"
    /\ client' = [client EXCEPT ![c] = "eal"]
    /\ UNCHANGED <<config, pc, at, attached, started, objects, noted, crashes>>

ClientInit(c) ==
    /\ client[c] = "eal"
    /\ attached[Primary] # {} /\ IpcPool \in objects
    /\ client' = [client EXCEPT ![c] = "up"]
    /\ UNCHANGED <<config, pc, at, attached, started, objects, noted, crashes>>

ClientInitFails(c) ==
    /\ client[c] = "eal"
    /\ \/ MayFail
       \/ attached[Primary] = {}
       \/ IpcPool \notin objects
    /\ client' = [client EXCEPT ![c] = "failed"]
    /\ UNCHANGED <<config, pc, at, attached, started, objects, noted, crashes>>

ClientExit(c) ==
    /\ client[c] = "up"
    /\ client' = [client EXCEPT ![c] = "off"]
    /\ UNCHANGED <<config, pc, at, attached, started, objects, noted, crashes>>

ClientStep(c) ==
    ClientLaunch(c) \/ ClientInit(c) \/ ClientInitFails(c) \/ ClientExit(c)

InitStep(p) ==
    \/ EalInit(p)
    \/ EalInitFails(p)
    \/ CountCards(p)
    \/ CountCardsFails(p)
    \/ InitCard(p)
    \/ InitCardFails(p)
    \/ Create(p)
    \/ CreateFails(p)
    \/ Lookup(p)
    \/ LookupFails(p)
    \/ Wipe(p)
    \/ NextStage(p)
    \/ Finish(p)
    \/ FinishFails(p)

Next ==
    \/ \E p \in Processes : Launch(p) \/ InitStep(p) \/ Note(p) \/ Crash(p)
    \/ \E c \in Clients : ClientStep(c)

Spec == Init /\ [][Next]_vars

\* dkfw_init waits for nobody: a process that runs gets to its end.
FairSpec == Spec /\ \A p \in Processes : WF_vars(InitStep(p))
-----------------------------------------------------------------------------
(***************************************************************************)
(* A process that is up has the whole system behind it: the primary has    *)
(* started its cards and created every object, those the process never     *)
(* looked up (the IPC pool) included.  It rests on the order in which      *)
(* dkfw_init creates things, for any starting order, crash and mismatch of *)
(* configurations.                                                         *)
(***************************************************************************)
ReadyMeansBuilt ==
    \A p \in Processes :
        pc[p] = "ready" =>
            /\ started = attached[Primary] /\ started # {}
            /\ Names(Primary) \subseteq objects

(***************************************************************************)
(* A client that is up finds the rings of every core of the primary, though*)
(* dkfw_ipc_client_init looks only for the pool of messages: the pool is   *)
(* made after the cores.                                                   *)
(***************************************************************************)
ClientFindsCores ==
    \A c \in Clients : client[c] = "up" =>
        \A s \in {"process", "dispatch", "other"} :
            \A core \in 0 .. Cores(Primary, s) - 1 :
                {CommonName(s, core, 0), CommonName(s, core, 1)} \subseteq objects

(***************************************************************************)
(* No card is started with an RX queue that has no packet pool: the number *)
(* of queues comes from dkfw_init and that of pools from interfaces_init.  *)
(***************************************************************************)
QueuesHavePools ==
    started # {} => \A q \in 0 .. QueueNum(Primary) - 1 : PacketPool(q) \in objects

(***************************************************************************)
(* No two rings, pools or zones of a process that is up are one object,    *)
(* when it lists the same cores as the primary: a core listed twice does   *)
(* not start, instead of sharing a single-producer ring.                   *)
(***************************************************************************)
SameCores(p) ==
    /\ config[p].process = config[Primary].process
    /\ config[p].dispatch = config[Primary].dispatch
    /\ config[p].other = config[Primary].other

NoAlias ==
    \A p \in Processes : pc[p] = "ready" /\ SameCores(p) =>
        \A s \in Stages : \A m, n \in 0 .. Size(p, s) - 1 :
            Name(p, s, m) = Name(p, s, n) => m = n

(***************************************************************************)
(* What an application has written to the global memory is never wiped by  *)
(* the initialisation of another process, as long as the operator waits    *)
(* for the primary.                                                        *)
(***************************************************************************)
GlobalMemoryKept == [][noted \subseteq noted']_vars

(***************************************************************************)
(* With configurations that list the same cores and give each its loop,    *)
(* started in the documented order, every process that is started gets its *)
(* loop to run.                                                            *)
(***************************************************************************)
AllStart ==
    \A p \in Processes : pc[p] = "eal" ~> (pc[p] = "ready" \/ crashes > 0)
=============================================================================
