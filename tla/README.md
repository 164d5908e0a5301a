# dpdk_framework in TLA+

A verification development for the DPDK framework in this repository: models of
its components, TLC configurations that check them on small instances, and
proofs, checked by TLAPS, of properties that hold for every size of the system.
Paths are relative to the root of the repository.

## The system

An application built on the framework is a set of processes pinned to CPUs. One
of them, the primary, creates all shared objects; the others find them by name.
Then every core spins in a loop of the application (`test/common.c`):
distribute cores take packets from the cards and hand them to process cores,
process cores consume them, and in the mixed mode each core does both. There
are no locks: the cores communicate by rings, most of them for a single
producer and a single consumer, and by counters and memory that one core
writes and others read.

| component | code | state | operations | what makes it correct |
|---|---|---|---|---|
| packet path | `test/common.c`, `lib/dpdkframework_core.c`, `lib/dpdkframework_intf.c` | card queues, packet rings, mbuf pools, each core's burst and position in its loop, counters | receive from card and ring, send to ring, discard, consume; kill and start of processes | both directions of a flow reach one core, in order; rings have one producer; mbufs are freed once and leak only where the code gives up on them; nothing starves |
| startup | `lib/dpdkframework.c`, `_core.c`, `_intf.c`, `_ipc.c`, `_memory.c` | named shared objects, cards, progress and configuration of each process, the global memory | each stage of `dkfw_init` as creator or finder, clients, failures, crashes | who is up has everything behind it; every queue of a card has a pool; no two rings share a name; memory is not wiped in use; the documented order starts all |
| timer wheel | `lib/dpdkframework_timer.c`, `include/dkfw_timer.h`, `dkfw_list.h` | five vectors of doubly linked lists, the tick counter | start, restart, stop, run with callbacks | each timer fires at its tick, once; the links stay whole; running ends |
| control messages | `lib/dpdkframework_ipc.c`, end of `_core.c` | message pool, two rings per core | allocate, send, receive with timeout, respond, free | a message has one owner; answers come in order; nothing leaks unnoticed; rings suffice |
| rings to other cores and packet capture | `lib/dpdkframework_core.c:400-493` | rings | send, receive | as for packet rings |
| rate control | `lib/dpdkframework_cps.c` | schedule and its current segment, time base, saved-up events | count for now, limited to one, ask for the rate | the rate asked for is kept, but for rounding; segments follow in order; nothing is counted before its time |
| statistics | `lib/dpdkframework_stats.c`, `dkfw_stats.h` | a counter per item and core | count, add an item, copy the items, sum | each counter of a sum lies between its values before and after |
| object pool | `lib/dpdkframework_mempool.c` | free list | allocate, free | an object has one user, and none is lost |
| interface statistics | `lib/dpdkframework_intf.c:388-413` | card counters and their sums | read, add, clear | nothing is counted twice or not at all |
| profile | `lib/dpdkframework_profile.c`, `dkfw_profile.h` | sums of time differences | start, end, print | (nothing beyond arithmetic) |

How they interact: startup makes the rings, zones and pools by which the packet
path, the control messages and the statistics communicate; the loops of the
packet path are where an application runs timers, takes control messages and
counts. The control messages are the only traffic in which processes outside
the framework's own (clients) take part. Rate control, statistics and object pools
are used by the application alone; nothing in the repository calls them, so how
they are called is modelled as any order of calls that their interface allows.

What is hard to test, and so what the properties are for: cores that
interleave on shared rings; a core or client killed between two steps; full
rings, whose errors are ignored; answers that come after their timeout;
processes configured differently or started in another order; carries and the
wrap of the tick counter; callbacks that change the list being walked;
counters read while they are written. `PROJECT.json` lists these hazards with
their lines and the properties that cover them.

## Modules

| module | models |
|---|---|
| `PacketSwitch` | abstract: packets are accepted, dropped, or processed once by the worker their header selects, in order per stream |
| `Datapath` | the packet path; implements `PacketSwitch` |
| `DatapathProofs` | theorems about `Datapath` |
| `SwitchProofs` | more of them, on the order of packets; that `Datapath` implements `PacketSwitch` |
| `Startup` | `dkfw_init` in all processes, and the clients' start and exit |
| `StartupProofs` | theorems about `Startup` |
| `TimerService` | abstract: a timer fires once, during its tick |
| `TimerWheel` | the cascading wheel on sequences of timers; implements `TimerService` |
| `TimerWheelProofs` | theorems about `TimerWheel`; that it implements `TimerService` |
| `TimerLists` | the same wheel on the doubly linked lists of `dkfw_list.h`; implements `TimerWheel` |
| `TimerListsProofs` | theorems about `TimerLists`; that it implements `TimerWheel` and, with the theorems about that, `TimerService` |
| `Ipc` | the control messages |
| `IpcProofs` | theorems about `Ipc` |
| `Cps` | the rate control |
| `CpsProofs` | theorems about `Cps` |
| `ObjectPool` | abstract: a pool hands out objects nobody holds |
| `Mempool` | the free lists of `dkfw_mempool`; implements `ObjectPool` |
| `Stats` | counters per core and their sums |
| `IntfStats` | the counters of a card and their sums |
| `Monitoring` | composes `Mempool`, `Stats` and `IntfStats`: cores that use pools and count, and a thread that monitors them |
| `MonitoringProofs` | theorems about `Monitoring` and its parts; that `Mempool` implements `ObjectPool` |
| `MC...` | values of the constants for TLC, and claims of the documentation that TLC refutes |

Operators in the modules that no specification refers to, each before the
definition it is a variant of (`FullOffByOne` before `Full`, and so on), are
plausible mistakes; TLC shows with each of them in place that the property it
belongs to notices it (`mutants` in `PROJECT.json`).

### Datapath

State: `nic` (card queues), `ring`, `hand` (what is left of the burst on a
core's stack), `at` (the queue the loop is at), `held` (packets whose mbuf is
out of its pool), `rcv_cnt` (the counter the test programs print), `up`; and
histories `done`, `arrived`, `stops`. A packet stands for its mbuf.

A step of a core is one receive call (`PollNic`, `PollRing`) or one iteration
over its burst (`Enqueue`, `EnqueueFails`, `Discard`, `Consume`), so another
core may come in between any two calls that touch shared state. `NIntf`,
`NDisp`, `NProc` choose between `distribute_loop` with `app_loop` and
`mix_loop`. External and modelled from their use: a ring operation is atomic;
a ring of `RingSize` slots holds one less; a card takes a packet in only if its
pool has an mbuf; RSS spreads by an arbitrary hash of the header. A killed
process loses its burst and its counters, and the rings stay.

The default build compiles the per-ring counters out (`DKFW_STATS_ENABLED` is
0); they are not in the model.

### Startup

State: `config` (each process has a copy of its own), `pc` and `at` (how far
in `dkfw_init`), `objects` (names that exist), `attached` (cards EAL gave to each
process), `started` (cards the primary has configured), `noted` (who has written
to the global memory), `client`. A step counts the cards, initialises one card,
creates or looks up one object, wipes the global memory, or goes on to the next
stage; names are tuples of the parts of the strings the code prints. The number
of packet pools (`PoolNum`) and that of queues (`QueueNum`) are computed in
different places of the code, and so here. Clients call `dkfw_ipc_client_init`,
which looks up the message pool only, and `dkfw_ipc_client_exit`. EAL is
external: it lets a secondary or client in once the primary has initialised it, and
attaches the cards that exist and are allowed. `dkfw_start_loop_raw` starts the loop
(`Finish`), or returns -1 in a process whose core has no `core_func_raw`
(`FinishFails`; `loop` of its configuration), where what `dkfw_init` has made stays.
In the single-process mode several cores may be the process's own (`core_is_me`).
The primary is started once.
Of a card's settings only the numbers of queues are modelled.

### TimerWheel

State: `vec` (the lists, as sequences of timers), `work` (the list taken off for the
running tick), `expires`, `timer_ticks`, `absms` and `calling` (where
`dkfw_run_timer` is); and histories `ticks` and `due`. One thread owns a
wheel; a callback is the time between `Fire` and `CallbackReturns`, in which it
may start, restart and stop any timer. The sizes of the vectors, the number of
unsigned longs and the clamp are constants. `Span(k)` is the number of ticks that
one list of vector *k* stands for, 1 shifted by the bits of the vectors below it.

Two things are outside the model. `dkfw_start_timer` on a pending timer clears
its links without taking it off its list, which corrupts the list; the model
starts only timers that are not pending. And delays are below `Horizon`, 2^37
ticks in the code: beyond that the clamp of line 55, 2^32 - 1, is smaller than
the range of the fifth vector, so a timer lands in the list of the current or
next carry and comes late or is lost. Both are listed as hazards.

### TimerLists

State: `link` (`next` and `prev` of every head and timer) in place of `vec` and
`work`; the rest is that of `TimerWheel`. The operations are those of the code,
pointer by pointer: `cascade` walks a list by the `next` it reads before it
moves a timer and adds the timer to its new list without taking it off the old;
`__run_timers` splices the list of the tick onto a head on its stack;
`detach_timer` poisons `prev` and may clear `next`, which is how the code tells a
pending timer. The refinement reads each list back by following `next`, for as
many steps as there are timers (`Listed`); the walk of a cascade is a function of
the number of timers moved so far (`MoveAll`), bounded in the same way.

### Ipc

State: `pool`, `to_me`, `to_back`, `held` and `wait` (per client), `handled`
(per core), `id` (what a message says it asks or answers), `owed` (open
requests, as a client counts them); and histories `sent`, `got`, `lost`,
`crashes`. Each library call is a step and a wait is a step per poll. Which
calls a client makes is its own choice within three limits: it has one message in
hand, which it sends or frees before it allocates or polls again; it sends at most
`Window` requests before it needs an answer; and it fills in a message before it
sends it. Several messages of a client are on their way at once all the same, when it
sends the next before the last is answered. A core handles one message at a time; an answer that meets a full ring is sent again or
forgotten, since a core cannot free (the pool pointer is set in clients only).
That a client gets its *own* answer is not promised by the code: all clients
of a core share one ring, and the first who polls takes the first answer.

### Cps

State: `cps_segs`, `cps_seg_curr_ind`, `seg_start_ms`, `tsc_last`,
`send_cnt_remain` as in `DKFW_CPS`, the clock `now`, and histories of what was
counted and given. Each entry point is one step (a `DKFW_CPS` has one caller).
Products are taken modulo `Word` where the code computes in 64 bits. The first
call only starts the clock; asking for the rate, by any entry point, starts and
ends segments (`Follow`). `CpsAssumption` says what the application must keep
to: at most `SegsMax` segments with a zero one behind them, and no rate above
the ticks of a second. Above it an event stands for no time, `tsc_last` never
moves, and every call returns the same events again.

### Mempool, Stats, IntfStats, Monitoring

`Mempool`: `first_header` and the `next` of each header, and who holds the
objects. Pools are those `dkfw_mempool_create` has returned; when one of its two
allocations fails it leaves nothing behind. `Stats`: the types of the items in both `DKFW_STATS`, a cell per item
and core, the sum, and where the monitor's walk is; it reads one counter of one
cell at a time while cores count, and the order of the counters of a cell is open.
`IntfStats`: the card's counter, that of the process, and an update in progress
(read, add, clear), during which the card counts on and either call into the
driver may fail. `Monitoring` lets every core call its own pool and count what came
of it in a later step, count what it likes in the other items (`CoreCountsOther`), and
one thread do the monitoring. `InUseReported` does not wait for the cores to be quiet:
a sum taken while they count misses some calls, those counted since it began and those
yet to be counted, and CONCURR, modulo a word, is out by no more than these.
Two threads that sum into one `DKFW_STATS`, two cores on one pool, or a second free of an
object would break what the code relies on without stating it; they are excluded. So are
two threads that register items: `dkfw_stats_add_item` tests the type of an id and sets
it later, so that two could both find it free; the model makes it one step, of one thread.

## What TLC checks

| run | instance | properties |
|---|---|---|
| `datapath_dispatch` | 2 distribute, 2 process cores, 1 card, rings for 1 packet, bursts of 2, 3 packets, 2 mbufs, 1 kill | `TypeOK`, `FlowAffinity`, `NoUseAfterFree`, `CountsAddUp` (the counters of the two sides differ by the packets on their way, leaked or discarded), `LeakOnlyWhenFull`, `SwitchSpec` (implements `PacketSwitch`) |
| `datapath_live` | 2 mixed cores, 2 cards, 1 kill, fair | `SingleFeeder`, `Drains` |
| `datapath_rss` | an RSS hash that is not symmetric | `SymmetricRss` is violated (below) |
| `startup_race` | primary, one secondary and one client, each of 14 pairs of configurations, right and wrong, cards with few queues; any order, failures, 2 crashes | `TypeOK`, `ReadyMeansBuilt`, `ClientFindsCores`, `QueuesHavePools`, `NoAlias` |
| `startup_in_order` | 3 processes, agreeing configurations, secondaries after the primary, 1 crash, fair | `GlobalMemoryKept`, `AllStart` |
| `startup_mix_test` | the configurations of `test/mix0.c` and `mix1.c` | `MixTestStarts` is violated (below) |
| `timer_wheel` | 2 timers, vectors of 2 lists, words of 64, start at 13 and 62, 16 ticks, fair | `TypeOK`, `OnePlace`, `ServiceSpec` (implements `TimerService`), `RunEnds` |
| `timer_lists` | 3 timers, vectors of 2 lists, start at 13, 10 ticks | `WellLinked`, `PendingIffDue`, `WheelSpec` (implements `TimerWheel`) |
| `ipc_window` | 2 clients, 1 core, 4 messages, rings for 3, window 1, 1 kill | `OneOwner`, `RoomForAnswer`, `RepliesInOrder` |
| `ipc_recovers` | 1 client, 2 cores, 3 messages, rings for 1, window 3, 1 kill, fair | `TypeOK`, `RepliesInOrder`, `Recovered` |
| `cps` | 4 schedules (flat, up and down, a pause first, down and then for ever), 4 ticks a second, words of 32, clocks that start at 0 and 3, pauses of 1, 2 and 7 ticks | `TypeOK`, `BaseNotAhead`, `RateKept`, `SegmentsInOrder`, `RampMonotone`, `CatchesUp`, `OwedKept` |
| `monitoring` | 2 cores with pools of 2 objects, 2 items, one of them of another type, 3 calls and counts, 1 packet, 2 rounds of the monitor | `SumBracketed`, `TypesAgree`, `NicStatsTrue`, `InUseReported`, `PoolSpec` (implements `ObjectPool`) |

Bounds and why they are enough:

- `MaxPkts`, `MaxStops`, `RingSize`, `PoolSize`, `MaxRcvPkts` (Datapath): with 3
  packets a one-packet ring overflows, a burst of 2 is partly sent when it does, and an
  mbuf is used again; two distribute cores feed each process core; one kill leaves
  a burst, a ring and a queue behind in every combination. Packet rings have 8192
  slots in the code (those of the other cores 65536) and hold one less; nothing in
  the loops depends on the number.
- `MaxCrashes` (Startup): one for each process of the pair. The configurations
  cover agreement, order, repeated cores, disabled entries, wrong cards, more cores
  than a card has queues, the single-process mode, and a process without a loop.
- `MaxTicks`, `Delays`, `Gaps` (TimerWheel): vectors of two lists carry through
  all vectors within 16 ticks; the start values put a carry of all of them, and
  the wrap, inside the run. Delays reach every vector below the horizon, the
  past and the present; gaps run to the past, one tick, and 15 ticks at once.
  `TimerLists` needs three timers for a list with a middle, and has fewer delays
  and gaps, since what they do to ticks is checked in `TimerWheel`; its start lets lists
  of all three cascade from every vector but the last. Timers are symmetric there.
- `MaxSends`, `MaxCrashes`, `Polls`, `Window` (Ipc): three requests with rings of
  one or three fill every ring, time out and meet a late answer; `ipc_window`
  has exactly as many open requests as a ring has room for. Messages are
  symmetric in that run, which has no liveness property.
- `MaxTsc`, `Pauses`, `Word` (Cps): 18 ticks, nine milliseconds, run through both
  segments of every schedule; a pause of 7 ticks, and two of them, make time times
  rate exceed a word, and outlast a whole segment. `RemainMax` is 2, so that saved
  events are cut.
- `MaxCalls`, `MaxPkts`, `MaxRounds` (Monitoring): with three calls a pool of two is used
  up and then refuses, or gets an object back and hands it out again; or a core allocates
  and frees between the monitor's readings of two of its counters, so that CONCURR is
  printed below zero, while another item is counted. The second round reuses the sum of
  the first, a copy falls between two registrations, and a packet before, between or
  after the reading and the clearing of the card.

`CHECK_DEADLOCK` is off for `Datapath`, `Startup`, `Cps` and `Monitoring`: when the
bounds are used up, or all processes have failed, nothing more happens.
`TimerWheel`, `TimerLists` and `Ipc` never stop.

Fairness:

- Datapath: `WF` of each core's step. Each spins in `while(1)` on its own CPU.
- Startup: `WF` of a running process's next step; `dkfw_init` waits for nobody.
  The operator's starts are not fair.
- TimerWheel: `WF` of the run's own steps: it has no waits, and callbacks return.
- Ipc: `WF` of a core's loop, and of a client's polls and frees. That answers are
  asked for is up to the clients and is assumed, as `SF`: if a core has answers
  again and again, some client again and again asks it. Without it answers
  stay in their ring, in the code too.
- TimerLists, Cps, Monitoring: none; their properties are safety. That a run of the
  wheel ends is shown in `timer_wheel`, whose steps the links implement.

### Where the code and its documentation differ

- `lib/dpdkframework_intf.c:185-186` says the card is set to symmetric RSS, so
  that both directions of a flow use one queue. The code asks for RSS with the
  card's default key and never reads `nic_symmetric_rss_enable`; with a hash
  that tells directions apart `datapath_rss` shows them in two queues.
  `FlowAffinity` does not depend on it, because the distribute cores hash again.
- `README.md:104-115` describes running `test-mix0` on core 35 and `test-mix1`
  on core 36. `test/mix0.c` lists core 2 and another card. EAL gives `test-mix1` only cards that
  the primary has, so that it counts none and fails; with the card of `test-mix0`
  it would fail looking for rings nobody makes. `startup_mix_test` shows it failing.

## What is proved

For all values of the constants that satisfy the named assumptions, by TLAPS:

| theorem | says | argument |
|---|---|---|
| `TypeCorrect` | `Spec => []TypeOK` of Datapath | `Inv` below |
| `SingleProducer` | `Spec => []SingleFeeder` | `Inv` |
| `FlowsStayTogether` | `Spec => []FlowAffinity`, for any hash functions | `Inv`, and the lemma that a header and its reverse select one core |
| `MbufsFreedOnce` | `Spec => []NoUseAfterFree`, for any cores, cards, rings and kills | `Lanes` below |
| `LeaksExplained` | `Spec => LeakOnlyWhenFull` | `Lanes` |
| `ImplementsSwitch` | `Spec => SwitchSpec`: `Datapath` implements `PacketSwitch` | `Lanes`, and a mapping of each step |
| `CountersAddUp` | `Spec => []CountsAddUp`, for any cores, cards and rings | `Lanes /\ Summed` |
| `UpMeansBuilt` | `Spec => []ReadyMeansBuilt` of Startup, for any processes, configurations, order and failures | `IInv` below |
| `ClientsFindCores` | `Spec => []ClientFindsCores` of Startup | `IInv` |
| `StartedHavePools` | `Spec => []QueuesHavePools` of Startup | `IInv` |
| `TypeCorrect` | `Spec => []TypeOK` of Startup; with it, that no object has a name but the primary's | `IInv` |
| `NothingShared` | `Spec => []NoAlias` of Startup | `IInv`, and `Distinct` |
| `MemoryIsKept` | `WaitForPrimary => (Spec => GlobalMemoryKept)` of Startup | `PrimaryFirst` |
| `TypeCorrect` | `Spec => []TypeOK` of TimerWheel | `IInv` below |
| `InOnePlace` | `Spec => []OnePlace`, for any timers, sizes of the vectors and width of the counter | `IInv` |
| `FiresOnTime` | `Spec => ServiceSpec`: `TimerWheel` implements `TimerService` | `IInv`, and a mapping of each step |
| `RingsAreWhole` | `Spec => []WellLinked` of TimerLists, for any timers and sizes of the vectors | `LInv` below |
| `NextTellsPending` | `Spec => []PendingIffDue` of TimerLists | `LInv` |
| `LinksAreTheWheel` | `Spec => WheelSpec`: `TimerLists` implements `TimerWheel` | `LInv`, and a mapping of each step |
| `LinksFireOnTime` | `Spec => W!ServiceSpec` of TimerLists: the links implement `TimerService` | `LInv`, and `FiresOnTime` |
| `TypeCorrect` | `Spec => []TypeOK` of Cps | `IInv` below |
| `NeverAhead` | `Spec => []BaseNotAhead`, whatever overflows | `IInv` |
| `InOrder` | `Spec => []SegmentsInOrder`, for any schedule and mix of calls | `IInv` |
| `RateIsKept` | `Spec => []RateKept` | `IInv` |
| `LeavesLessThanOne` | `Spec => CatchesUp` | the lemma `Counting` |
| `NothingForgotten` | `Spec => OwedKept` | the lemma `LimitedFacts` |
| `RampsDoNotTurn` | `RampsFit => (Spec => []RampMonotone)` | `IInv`, and the lemma `PartGrows` |
| `TypeCorrect` | `Spec => []TypeOK` of Ipc | `IInv` below |
| `EachHasOneOwner` | `Spec => []OneOwner`, for any clients, cores, messages and rings | `IInv` |
| `AnswersFit` | `Spec => []RoomForAnswer`, for any windows and number of kills | `IInv /\ Bounded` |
| `AnswersInOrder` | `Spec => RepliesInOrder`, for any clients, cores and rings | `IInv /\ InOrder /\ Numbered` |
| `PoolsKeepPromise` | `Spec => PoolSpec` of Monitoring: `Mempool` implements `ObjectPool` | `PoolInv` below |
| `PacketsCountedOnce` | `Spec => []NicStatsTrue` | `CardInv` |
| `SumsAreBracketed` | `Spec => []SumBracketed`, for any number of cores | `SInv /\ BInv` |
| `CopiesAgree` | `Spec => []TypesAgree` | `SInv` |
| `InUseIsReported` | `Spec => []InUseReported` | `SInv` with `Accounted`, and `SumsAreBracketed` |

*Datapath.* None of the first three is inductive: that a core writes into a ring that
exists and is its own depends on what is in its hand, and that on where it
polled. The inductive invariant `Inv == Placed /\ Counted` says for each queue,
ring and burst which packets it may hold: card queue and ring *q* only packets
of RSS queue *q*, rings and `done` of core *d* only packets whose header selects
*d*, a burst only what the queue at `at` may hold, and `at` only queues the core
polls. Assumptions: `SizesAssumption`, `HeadersAssumption`, `HashAssumption` (hashes are natural).

*Order of packets.* That an mbuf is freed once and that each stream comes out in
order are one argument, since a packet stands for its mbuf. Packets that share card,
RSS queue and process core go through one lane: the process core's burst, its ring,
the burst of the core that polls, the queue of the card. `Ordered` says that along a
lane, and within each part of it, packets stand in the order in which they arrived,
and `Known` that each is one the card took in and has not been processed or
dropped. So no packet is in two places, which is `NoUseAfterFree`, and what is
consumed next of a stream is the oldest of it, which `PacketSwitch` asks for. For the
counters, `Summed` says that while nothing was stopped what arrived is counted by the
distribute cores or still ahead of them, and that the process cores have counted what
they consumed; since no packet is in two places, what is held and not ahead is what
`CountsAddUp` calls behind. The sums over cores are folds in an order of their own: `FoldAdds`
proves what adding one to a cell does to such a sum, by the least counterexample.

*Startup.* What a secondary never looks up (the IPC pool, the cards' queues) is
there because of the order of the calls in `dkfw_init`: the global memory is made
last, and whoever is up has found it. `IInv` says that the objects that exist are
exactly those of the stages the primary has passed, and of its present stage those
before the one it is at (`Built`), that the same holds of the cards
(`CardsStarted`), that a secondary past the stage of the global memory has found it
(`Found`) and a client that is up the message pool (`ClientFound`), that who is
ready is at the end (`AtEnd`), and that the primary is launched once
(`FirstLaunch`). From `Built`, the pool of messages being made after the cores gives
`ClientsFindCores`, and the pools being made before the cards `StartedHavePools`.
`NoAlias` is about names: the objects of a stage are named by what the
configuration says of them, and `Distinct` says that those the primary has
passed have pairwise different names. It is needed since a repeated entry
is noticed only when its object is made, by the failure of that call.
`MemoryIsKept` is about secondaries that are started after the primary is up
(`WaitForPrimary`): until then nobody but the primary runs and nobody has written
to the global memory (`PrimaryFirst`), so the wiping at the end of `dkfw_init` finds
nothing. Without the hypothesis it is false: a secondary that is early finds the memory
while it is there and not yet wiped.
Assumption: `StartupAssumption`.

*TimerWheel.* `ServiceSpec` speaks of when timers are due, the wheel only of lists.
`WellPlaced` connects the two: a timer in list *j* of vector *k* is due within
the `Span(k)` ticks that begin *f* ticks from now, where *f* is less than a turn of the
vector and brings the counter to the beginning of list *j* (`Placed`); beyond the first
vector, `expires` still says when. It is inductive across a tick because of the
cascades. The list of each vector that the counter has just reached (*f* = 0) is
emptied, and its timers go to lower vectors, with *f* positive or into the first
(`CascadesDown`); a vector is cascaded just when the counter is at the
beginning of one of its lists, which is when all vectors below it wrap
(`VectorWraps`); so after the cascades *f* is positive in all lists but that of the tick
(`CascadedFacts`), whose timers are due now, and one less after it. That the counter
wraps does not matter, because the turn of every vector divides the word
(`WordIsRounds`, `Wraps`). `Once` says in place of a cardinality that lists share no timer, `WorkDue`
that the timers still to be called are due in the running tick, and `Ends` that a run
ends no further ahead than the horizon, so that the signed comparison means what it
says. Assumption: `WheelAssumption`, in which delays and gaps are below `Horizon`, the
word is a multiple of a turn of the last vector and at least four times the horizon.
The clamp is arbitrary: no delay below the horizon reaches it.

*TimerLists.* `LInv` says that each list read back (`Shape`) is a ring of the links,
`next` and `prev` alike, that no timer is in two rings or twice in one (`Linked`),
that a timer's `next` is not NULL exactly if it is in one (`Pends`), and that the lists
read back satisfy the invariant of TimerWheel. Per operation on links there is a
lemma on what it does to the rings: adding, deleting, splicing (`LinkedAdd` and
so on), each of which must leave the rings it does not touch (`Elsewhere`). That
`Listed` reads a ring back as its sequence (`ReadsBack`) is an induction on the
place in the ring, done by the least counterexample; so is the walk of a cascade
(`WalkOn`): after *k* timers were moved, all lists but the one walked are rings, and
the links of the timers still ahead are as they were, although the head's and those of
the timers behind are not. It is there that a cascade needs what TimerWheel proves,
that no timer of a list that is cascaded belongs in that list again: it would be added
behind itself, and the walk would not end. Assumptions:
`NodesAssumption` (heads, timers, NULL and the poison differ), and TimerWheel's.

*Cps.* `RateKept` speaks of the rates of the schedule so far, which a new segment
adds to; `RateBound` is the same for any two numbers that bound them, and so
inductive. That a call keeps it is arithmetic (`CountingFacts`: what two
divisions and two products modulo a word leave of *time times rate*). That the
index of the segment stays in the array and segments follow in order needs that
no segment behind the current one has a start (`Begun`), and the zero segment of
`CpsAssumption`: the code checks no bound. `RampMonotone` holds only for
schedules whose ramps' length times rise or fall fits a word, and for clocks that do
(`RampsFit`, which the schedules of the run satisfy): the code multiplies before it divides.

*Ipc.* `IInv` says in place of a cardinality where the one place of a message is
(`Owned`), and what makes its parts inductive: no ring holds a message twice
(`OnceEach`), a message on its way names its client (`Known`), so that a client
that has taken it does not mistake it for one it has allocated and may send
(`MaySend`). `AnswersFit` needs a count: the messages on their way (`InFlight`)
are never more than the open requests of all clients (`Open`, a set of numbered
requests, so that no sum is needed) and a window for each killed client
(`Bounded`). A send adds one to both; a poll takes one of the first and at most
one of the second; a kill may take a window of open requests and adds as much. For
`RepliesInOrder` each core with its two rings is one line, from the answers to the
requests, in which nothing overtakes: `InOrder` says that the requests in it stand
in the order in which they were sent, and are later than all those whose
answers have been got, and `Numbered` that a client has got from a core only answers
lower than what the core still has of it, and no higher than what it sent.
Assumption: `IpcAssumption`.

*Monitoring.* The free list is read back as a sequence that the links
follow from `first_header`, without repetition, and that holds just the objects
nobody has (`PoolInv`); a sequence is there in the invariant by \E, so that the
proof needs no recursion. `CardInv` bounds what the process and the card have counted,
at each point of an update, by the packets that came: from above unless the
card kept its counter when asked to clear it, and from below together with those
that came `between` a reading and a clearing.
`SumBracketed` compares a sum with values in the past: `BInv` says that there are
values of all cells, those when the sum began, below which no cell has fallen,
and between which and the present ones the sum so far lies. `Accounted` says
that the three counters of the pools, and one call for each core that has
yet to count, are together no more than the calls made, that no counter of another item is
more than these (`OthersFit`), and that the objects in use are those counted out less those
counted back, but for what is yet to be counted. With `SumBracketed` for the two counters
that CONCURR is the difference of, that bounds it on both sides (`InUseIsReported`).
Assumption: `MonitoringAssumption`; it bounds the calls
below a word, so no counter wraps. (That sums would be right across a wrap is not
claimed: `SumBracketed` compares them as numbers.)

Only model-checked: liveness (`Drains`, `AllStart`, `RunEnds`, `Recovered`), which is out
of the prover's reach. Every other property that a run checks is proved. Recursive
functions over numbers (`Only`, `Listed`, `MoveAll`, the folds of the counters) are
dealt with by taking the least counterexample, since the theorems of induction have an
operator as parameter.

## Plan

Done: every component below that has state and control of its own is modelled and
checked, with the refinements `Datapath` of `PacketSwitch`, `TimerLists` of `TimerWheel` of
`TimerService`, and `Mempool` of `ObjectPool`, and the theorems above. Left:

1. A start of a pending timer, and delays above the horizon, as claims that TLC
   refutes, should the repository come to state either.

A model of the ring itself, with its two indices, was planned and is not: the
rings are DPDK's, and their code is not in the repository.

## Not modelled

- The rings to the other cores and to the packet capture, beyond their creation: each
  call is one call on a ring of DPDK, changes nothing else, and has no caller in
  the repository. `dkfw_get_dispatch_core_pcap_ring` calls its parameter `core_ind`,
  while the ring's name has the position of the core: they agree only by chance.
- The profile: it adds up differences of time stamps of one core.
- The JSON output of statistics and profile, except for the difference printed as
  CONCURR, and the cJSON library behind it; `peak`, which is not compiled, and `want_*`,
  which nobody counts.
- Getters that only read, and the counters of `DKFW_STATS_ENABLED`, which the build
  leaves out. (With it, the receive counters of a card have 16 entries while there
  may be a queue for each of 32 cores.)
- The settings of a card (offloads, descriptors, `pcis_config` by port number: a
  configured card that is absent moves the settings of those behind it).
- DPDK itself, EAL and the drivers.

Hazards without a property: delays above the horizon and the start of a pending timer (no
text in the repository allows either), and the burst with which `dkfw_cps_get` makes up
for a pause at rate 0, which is what the code does and no text denies. A primary that is
started again while secondaries run is not modelled: what EAL then does with their memory
is not in this repository.
