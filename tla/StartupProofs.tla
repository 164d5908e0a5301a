--------------------------- MODULE StartupProofs ---------------------------
(***************************************************************************)
(* The invariants of Startup for any number of processes and clients, any  *)
(* configurations, any starting order and any failures and crashes.  The   *)
(* argument is the one the order of the calls in dkfw_init makes: at every *)
(* moment the objects that exist are those the primary has passed, and the *)
(* memory zone is the last it creates and the last a secondary looks up.   *)
(***************************************************************************)
EXTENDS Startup, FiniteSetTheorems, TLAPS

Rank(s) ==
    CASE s = "count" -> 1
      [] s = "pools" -> 2
      [] s = "cards" -> 3
      [] s = "process" -> 4
      [] s = "dispatch" -> 5
      [] s = "other" -> 6
      [] s = "ipc" -> 7
      [] s = "global" -> 8
      [] s = "wipe" -> 9
      [] OTHER -> 10

\* Process p has left behind the n-th object of stage s.
Passed(p, s, n) ==
    \/ Rank(s) < Rank(at[p].stage)
    \/ s = at[p].stage /\ n < at[p].n

Typed ==
    /\ config \in Configs
    /\ pc \in [Processes -> {"off", "eal", "init", "ready", "failed"}]
    /\ at \in [Processes -> [stage : Stages, n : Nat]]
    /\ attached \in [Processes -> SUBSET Cards]

\* The objects that exist are those the primary has passed.
Built ==
    /\ \A s \in Stages : \A n \in 0 .. Size(Primary, s) - 1 :
          Passed(Primary, s, n) => Name(Primary, s, n) \in objects
    /\ \A o \in objects : \E s \in Stages : \E n \in 0 .. Size(Primary, s) - 1 :
          Passed(Primary, s, n) /\ o = Name(Primary, s, n)

\* The cards the primary has passed are started, and there is one.
CardsStarted ==
    /\ started \subseteq attached[Primary]
    /\ at[Primary].stage \in {"count", "pools"} => started = {}
    /\ at[Primary].stage = "cards" => Cardinality(started) = at[Primary].n
    /\ Rank(at[Primary].stage) > Rank("cards") => started = attached[Primary]
    /\ Passed(Primary, "count", 0) => attached[Primary] # {}

\* A secondary has passed the memory zone only when it exists.
Found ==
    \A p \in Processes \ {Primary} : Passed(p, "global", 0) => GlobalMem \in objects

\* So has a client that is up, with the IPC pool.
ClientFound ==
    /\ client \in [Clients -> {"off", "eal", "up", "failed"}]
    /\ \A c \in Clients : client[c] = "up" => IpcPool \in objects

AtEnd == \A p \in Processes : pc[p] = "ready" => at[p].stage = "done"

FirstLaunch ==
    pc[Primary] \in {"off", "eal"} => at[Primary] = [stage |-> "count", n |-> 0]

IInv == Typed /\ Built /\ CardsStarted /\ Found /\ ClientFound /\ AtEnd /\ FirstLaunch

-----------------------------------------------------------------------------
(* No other stage has an object with the name of the memory zone or the IPC pool. *)
LEMMA SingleNames ==
    ASSUME NEW p, NEW n, NEW s \in Stages
    PROVE  /\ Name(p, s, n) = GlobalMem => s \in {"global", "count", "cards", "wipe", "done"}
           /\ Name(p, s, n) = IpcPool => s \in {"ipc", "count", "cards", "wipe", "done"}
BY DEF Name, GlobalMem, IpcPool, PacketPool, RingName, ProcessRing, PcapRing, OtherRing,
       CommonName, Stages

LEMMA Sizes ==
    ASSUME NEW p
    PROVE  /\ Size(p, "global") = 1
           /\ Size(Primary, "ipc") = 1
           /\ \A s \in {"count", "cards", "wipe", "done"} : Size(p, s) = 0
BY DEF Size, Cores, PerCore

LEMMA CountIsNat ==
    ASSUME NEW list \in Seq(Int)
    PROVE  Count(list) \in Nat
<1> DEFINE enabled == {n \in 1 .. Len(list) : \A i \in 1 .. n : list[i] # Disabled}
<1>1. enabled \in SUBSET (1 .. Len(list))
  OBVIOUS
<1>2. IsFiniteSet(1 .. Len(list))
  BY FS_Interval
<1>3. IsFiniteSet(enabled)
  BY <1>1, <1>2, FS_Subset
<1>4. Cardinality(enabled) \in Nat
  BY <1>3, FS_CardinalityType
<1> QED
  BY <1>4 DEF Count

LEMMA SizeIsNat ==
    ASSUME Typed, NEW p \in Processes, NEW s \in Stages
    PROVE  Size(p, s) \in Nat /\ Cores(p, s) \in Nat /\ Rings(p, s) \in Nat
<1>1. NProcess(p) \in Nat /\ NDispatch(p) \in Nat /\ NOther(p) \in Nat
  BY StartupAssumption, CountIsNat DEF Typed, Config, NProcess, NDispatch, NOther
<1>2. Cores(p, s) \in Nat /\ Rings(p, s) \in Nat
  BY <1>1 DEF Cores, Rings, QueueNum, PoolNum
<1>3. PerCore(p, s) \in Nat
  BY <1>2 DEF PerCore
<1> QED
  BY <1>2, <1>3 DEF Size

LEMMA Order ==
    ASSUME NEW s \in Stages
    PROVE  /\ Following(s) \in Stages
           /\ s # "done" => Rank(Following(s)) = Rank(s) + 1
           /\ Rank(s) \in 1 .. 10
           /\ \A t \in Stages : Rank(t) = Rank(s) => t = s
<1>1. Following(s) \in Stages /\ (s # "done" => Rank(Following(s)) = Rank(s) + 1)
  BY DEF Stages, Following, Rank
<1>2. Rank(s) \in 1 .. 10
  BY DEF Stages, Rank
<1>3. ASSUME NEW t \in Stages, Rank(t) = Rank(s)
      PROVE  t = s
  BY <1>3 DEF Stages, Rank
<1> QED
  BY <1>1, <1>2, <1>3

(* Sizes and names are those of the configuration, which never changes. *)
LEMMA SameNames ==
    ASSUME UNCHANGED config
    PROVE  \A p, s, n : Size(p, s)' = Size(p, s) /\ Name(p, s, n)' = Name(p, s, n)
BY DEF Size, Cores, PerCore, Rings, QueueNum, PoolNum,
       NProcess, NDispatch, NOther, Name, RingName, ProcessRing, PcapRing, OtherRing,
       CommonName

(* What a process passes when it goes one object further. *)
LEMMA AdvancePassed ==
    ASSUME Typed, NEW p \in Processes, Advance(p)
    PROVE  /\ at' \in [Processes -> [stage : Stages, n : Nat]]
           /\ \A q \in Processes : at'[q].stage = at[q].stage
           /\ \A q \in Processes \ {p} : at'[q] = at[q]
           /\ \A s \in Stages, n \in Nat :
                 Passed(p, s, n)' <=>
                     Passed(p, s, n) \/ (s = at[p].stage /\ n = at[p].n)
<1>1. at[p] \in [stage : Stages, n : Nat]
  BY DEF Typed
<1>2. /\ at'[p].stage = at[p].stage
      /\ at'[p].n = at[p].n + 1
      /\ at'[p] \in [stage : Stages, n : Nat]
      /\ \A q \in Processes \ {p} : at'[q] = at[q]
      /\ at' \in [Processes -> [stage : Stages, n : Nat]]
  BY <1>1 DEF Typed, Advance
<1>3. ASSUME NEW s \in Stages, NEW n \in Nat
      PROVE  Passed(p, s, n)' <=> Passed(p, s, n) \/ (s = at[p].stage /\ n = at[p].n)
  <2>1. n < at[p].n + 1 <=> n < at[p].n \/ n = at[p].n
    BY <1>1
  <2> QED
    BY <1>2, <2>1 DEF Passed
<1> QED
  BY <1>2, <1>3

(* What it has passed when it enters the next stage. *)
LEMMA NextStagePassed ==
    ASSUME Typed, NEW p \in Processes, NextStage(p)
    PROVE  /\ at' \in [Processes -> [stage : Stages, n : Nat]]
           /\ \A q \in Processes \ {p} : at'[q] = at[q]
           /\ \A s \in Stages, n \in Nat :
                 Passed(p, s, n)' => Passed(p, s, n) \/ s = at[p].stage
           /\ \A s \in Stages, n \in Nat : Passed(p, s, n) => Passed(p, s, n)'
<1>1. at[p] \in [stage : Stages, n : Nat] /\ at[p].stage # "done"
  BY DEF Typed, NextStage
<1>2. at' = [at EXCEPT ![p] = [stage |-> Following(at[p].stage), n |-> 0]]
  BY DEF NextStage
<1>3. Following(at[p].stage) \in Stages
  BY <1>1, Order
<1>4. /\ at'[p].stage = Following(at[p].stage)
      /\ at'[p].n = 0
      /\ \A q \in Processes \ {p} : at'[q] = at[q]
      /\ at' \in [Processes -> [stage : Stages, n : Nat]]
  BY <1>2, <1>3 DEF Typed
<1>5. ASSUME NEW s \in Stages, NEW n \in Nat
      PROVE  /\ Passed(p, s, n)' => Passed(p, s, n) \/ s = at[p].stage
             /\ Passed(p, s, n) => Passed(p, s, n)'
  <2>1. /\ Rank(Following(at[p].stage)) = Rank(at[p].stage) + 1
        /\ Rank(s) \in 1 .. 10 /\ Rank(at[p].stage) \in 1 .. 10
        /\ Rank(s) = Rank(at[p].stage) => s = at[p].stage
    BY <1>1, Order
  <2>2. Passed(p, s, n)' <=>
            \/ Rank(s) < Rank(at'[p].stage)
            \/ s = at'[p].stage /\ n < at'[p].n
    BY DEF Passed
  <2>3. Passed(p, s, n)' <=> Rank(s) < Rank(at[p].stage) + 1
    BY <1>4, <2>1, <2>2
  <2> QED
    BY <2>1, <2>3 DEF Passed
<1> QED
  BY <1>4, <1>5

(* They exist only when the primary has passed them. *)
LEMMA OnlyPassed ==
    ASSUME Built
    PROVE  /\ GlobalMem \in objects => Passed(Primary, "global", 0)
           /\ IpcPool \in objects => Passed(Primary, "ipc", 0)
<1>1. ASSUME NEW o \in objects
      PROVE  \E s \in Stages : \E n \in 0 .. Size(Primary, s) - 1 :
                 /\ Passed(Primary, s, n) /\ o = Name(Primary, s, n)
                 /\ s \notin {"count", "cards", "wipe", "done"}
                 /\ s \in {"global", "ipc"} => n = 0
  <2>0. PICK s \in Stages : \E n \in 0 .. Size(Primary, s) - 1 :
            Passed(Primary, s, n) /\ o = Name(Primary, s, n)
    BY DEF Built
  <2>1. PICK n \in 0 .. Size(Primary, s) - 1 :
            Passed(Primary, s, n) /\ o = Name(Primary, s, n)
    BY <2>0
  <2>2. s \notin {"count", "cards", "wipe", "done"}
    BY Sizes
  <2>3. s \in {"global", "ipc"} => n = 0
    BY Sizes
  <2> QED
    BY <2>1, <2>2, <2>3
<1>2. GlobalMem \in objects => Passed(Primary, "global", 0)
  BY <1>1, SingleNames
<1>3. IpcPool \in objects => Passed(Primary, "ipc", 0)
  BY <1>1, SingleNames
<1> QED
  BY <1>2, <1>3

(* The primary passes nothing and the objects are the same. *)
LEMMA SameObjects ==
    ASSUME Built, UNCHANGED <<config, objects>>,
           \A s \in Stages : \A n \in 0 .. Size(Primary, s) - 1 :
               Passed(Primary, s, n)' <=> Passed(Primary, s, n)
    PROVE  Built'
BY SameNames DEF Built

(* A step that leaves the primary's cards alone. *)
LEMMA SameCards ==
    ASSUME CardsStarted, UNCHANGED started,
           at'[Primary] = at[Primary], attached'[Primary] = attached[Primary]
    PROVE  CardsStarted'
<1>1. Passed(Primary, "count", 0)' <=> Passed(Primary, "count", 0)
  BY DEF Passed
<1> QED
  BY <1>1 DEF CardsStarted

(* A step of a process at a stage that neither counts nor starts cards. *)
LEMMA OtherStage ==
    ASSUME IInv, NEW p \in Processes, Advance(p), UNCHANGED <<started, attached>>,
           p = Primary => at[p].stage \notin {"count", "cards"}
    PROVE  CardsStarted'
<1>0. Primary \in Processes
  BY StartupAssumption
<1>1. CASE p # Primary
  BY <1>0, <1>1, AdvancePassed, SameCards DEF IInv
<1>2. CASE p = Primary
  <2>1. at'[Primary].stage = at[Primary].stage /\ at[Primary].stage \in Stages
    BY <1>2, AdvancePassed DEF IInv, Typed
  <2>2. Passed(Primary, "count", 0)' => Passed(Primary, "count", 0)
    BY <1>2, <2>1 DEF Passed
  <2> QED
    BY <1>2, <2>1, <2>2 DEF IInv, CardsStarted
<1> QED
  BY <1>1, <1>2

LEMMA FiniteCards ==
    ASSUME Typed, NEW p \in Processes
    PROVE  IsFiniteSet(attached[p]) /\ Cardinality(attached[p]) \in Nat
BY StartupAssumption, FS_Subset, FS_CardinalityType DEF Typed

LEMMA InitIInv == Init => IInv
<1> SUFFICES ASSUME Init PROVE IInv
  OBVIOUS
<1>0. Primary \in Processes
  BY StartupAssumption
<1>1. Typed
  BY DEF Init, Typed, Stages
<1>2. \A p \in Processes, s \in Stages, n \in Nat : ~Passed(p, s, n)
  BY DEF Init, Passed, Rank, Stages
<1>3. "count" \in Stages /\ "global" \in Stages
  BY DEF Stages
<1>4. Built
  BY <1>0, <1>2 DEF Init, Built
<1>5. CardsStarted
  <2>1. at[Primary].stage = "count" /\ started = {}
    BY <1>0 DEF Init
  <2> QED
    BY <1>0, <1>2, <1>3, <2>1 DEF CardsStarted, Rank
<1>6. Found /\ ClientFound
  BY <1>2, <1>3 DEF Init, Found, ClientFound
<1>7. AtEnd /\ FirstLaunch
  BY <1>0 DEF Init, AtEnd, FirstLaunch
<1> QED
  BY <1>1, <1>4, <1>5, <1>6, <1>7 DEF IInv

LEMMA NextIInv == IInv /\ [Next]_vars => IInv'
<1> SUFFICES ASSUME IInv, [Next]_vars PROVE IInv'
  OBVIOUS
<1> USE DEF IInv
<1>0. /\ Primary \in Processes
      /\ "cards" \in Stages /\ "global" \in Stages /\ "count" \in Stages
      /\ at[Primary] \in [stage : Stages, n : Nat]
  BY StartupAssumption DEF Stages, Typed
(* Steps that change at most pc, noted, client and what a starting process attached. *)
<1>1. ASSUME UNCHANGED <<config, at, objects, started>>,
             ClientFound',
             pc' \in [Processes -> {"off", "eal", "init", "ready", "failed"}],
             attached' \in [Processes -> SUBSET Cards],
             \A p \in Processes : pc'[p] = "ready" => pc[p] = "ready" \/ at[p].stage = "done",
             pc'[Primary] \in {"off", "eal"} => pc[Primary] \in {"off", "eal"},
             attached'[Primary] # attached[Primary] =>
                 at[Primary].stage = "count" /\ at[Primary].n = 0
      PROVE  IInv'
  <2>1. \A p, s, n : Passed(p, s, n)' <=> Passed(p, s, n)
    BY <1>1 DEF Passed
  <2>2. Built' /\ Found'
    BY <1>1, <2>1, SameObjects DEF Found, GlobalMem
  <2>3. Typed' /\ AtEnd' /\ FirstLaunch'
    BY <1>1 DEF Typed, AtEnd, FirstLaunch
  <2>4. CardsStarted'
    <3>1. CASE attached'[Primary] = attached[Primary]
      BY <1>1, <3>1, SameCards
    <3>2. CASE at[Primary].stage = "count" /\ at[Primary].n = 0
      BY <1>1, <2>1, <3>2 DEF CardsStarted, Passed, Rank
    <3> QED
      BY <1>1, <3>1, <3>2
  <2> QED
    BY <1>1, <2>2, <2>3, <2>4
<1>2. ASSUME NEW p \in Processes, Launch(p)
      PROVE  IInv'
  <2>1. /\ pc[p] = "off"
        /\ pc' = [pc EXCEPT ![p] = "eal"]
        /\ at' = [at EXCEPT ![p] = [stage |-> "count", n |-> 0]]
        /\ UNCHANGED <<config, attached, started, objects, client>>
    BY <1>2 DEF Launch
  <2>2. at'[Primary] = at[Primary]
    BY <1>0, <2>1 DEF Typed, FirstLaunch
  <2>3. Typed' /\ AtEnd' /\ FirstLaunch'
    BY <1>0, <2>1 DEF Typed, AtEnd, FirstLaunch
  <2>4. Built' /\ ClientFound'
    <3>1. \A s, n : Passed(Primary, s, n)' <=> Passed(Primary, s, n)
      BY <2>2 DEF Passed
    <3> QED
      BY <2>1, <3>1, SameObjects DEF ClientFound, IpcPool
  <2>5. ASSUME NEW q \in Processes \ {Primary}, Passed(q, "global", 0)'
        PROVE  GlobalMem \in objects'
    <3>1. q # p
      <4>1. at'[p].stage = "count" /\ at'[p].n = 0
        BY <2>1 DEF Typed
      <4>2. ~Passed(p, "global", 0)'
        BY <4>1 DEF Passed, Rank
      <4> QED
        BY <2>5, <4>2
    <3>2. Passed(q, "global", 0)
      BY <2>1, <2>5, <3>1 DEF Typed, Passed
    <3> QED
      BY <2>1, <3>2 DEF Found
  <2>6. CardsStarted'
    BY <2>1, <2>2, SameCards
  <2> QED
    BY <2>3, <2>4, <2>5, <2>6 DEF Found
<1>3. ASSUME NEW p \in Processes, EalInit(p)
      PROVE  IInv'
  <2>1. Allowed(p) \cap CardsOffered(p) \subseteq Cards
    BY <1>0, StartupAssumption DEF Typed, CardsOffered
  <2>2. pc[p] = "eal" /\ pc' = [pc EXCEPT ![p] = "init"]
        /\ attached' = [attached EXCEPT ![p] = Allowed(p) \cap CardsOffered(p)]
        /\ UNCHANGED <<config, at, started, objects, client>>
    BY <1>3 DEF EalInit
  <2>3. attached'[Primary] # attached[Primary] =>
            at[Primary].stage = "count" /\ at[Primary].n = 0
    BY <1>0, <2>2 DEF Typed, FirstLaunch
  <2> QED
    BY <1>0, <1>1, <2>1, <2>2, <2>3 DEF Typed, ClientFound, IpcPool
<1>4. ASSUME NEW p \in Processes,
             \/ EalInitFails(p) \/ CountCardsFails(p) \/ InitCardFails(p)
             \/ CreateFails(p) \/ LookupFails(p) \/ FinishFails(p)
      PROVE  IInv'
  <2>1. /\ pc' = [pc EXCEPT ![p] = "failed"]
        /\ UNCHANGED <<config, at, attached, objects, started, client>>
    BY <1>4 DEF EalInitFails, CountCardsFails, InitCardFails, CreateFails, LookupFails,
                FinishFails, Fail
  <2> QED
    BY <1>0, <1>1, <2>1 DEF Typed, ClientFound, IpcPool
<1>5. ASSUME NEW p \in Processes, Finish(p) \/ Note(p) \/ Crash(p)
      PROVE  IInv'
  <2>1. CASE Finish(p)
    BY <1>0, <1>1, <2>1 DEF Finish, InStage, Typed, ClientFound, IpcPool
  <2>2. CASE Note(p)
    BY <1>1, <2>2 DEF Note, Typed, ClientFound, IpcPool
  <2>3. CASE Crash(p)
    BY <1>0, <1>1, <2>3 DEF Crash, Typed, ClientFound, IpcPool
  <2> QED
    BY <1>5, <2>1, <2>2, <2>3
<1>6. ASSUME NEW c \in Clients, ClientStep(c)
      PROVE  IInv'
  <2>1. UNCHANGED <<config, pc, at, attached, started, objects>>
    BY <1>6 DEF ClientStep, ClientLaunch, ClientInit, ClientInitFails, ClientExit
  <2>2. ClientFound'
    BY <1>6, <2>1
       DEF ClientStep, ClientLaunch, ClientInit, ClientInitFails, ClientExit, ClientFound, IpcPool
  <2> QED
    BY <1>1, <2>1, <2>2 DEF Typed
(* Going one step further at the cards or at the memset. *)
<1>7. ASSUME NEW p \in Processes, Advance(p), UNCHANGED <<config, pc, attached, objects, client>>,
             at[p].stage \in {"count", "cards", "wipe"},
             CardsStarted',
             pc[p] = "init"
      PROVE  IInv'
  <2>1. Typed' /\ AtEnd' /\ FirstLaunch'
    BY <1>0, <1>7, AdvancePassed DEF Typed, AtEnd, FirstLaunch
  <2>2. \A q \in Processes : Passed(q, "global", 0)' <=> Passed(q, "global", 0)
    <3> SUFFICES ASSUME NEW q \in Processes
                 PROVE  Passed(q, "global", 0)' <=> Passed(q, "global", 0)
      OBVIOUS
    <3>1. CASE q = p
      BY <1>0, <1>7, <3>1, AdvancePassed
    <3>2. CASE q # p
      BY <1>7, <3>2, AdvancePassed DEF Passed
    <3> QED
      BY <3>1, <3>2
  <2>3. Found' /\ ClientFound'
    BY <1>0, <1>7, <2>2 DEF Found, ClientFound, GlobalMem, IpcPool
  <2>4. ASSUME NEW s \in Stages, NEW n \in 0 .. Size(Primary, s) - 1
        PROVE  Passed(Primary, s, n)' <=> Passed(Primary, s, n)
    <3>1. CASE p = Primary
      <4>1. n \in Nat
        OBVIOUS
      <4>2. Size(Primary, at[p].stage) = 0
        BY <1>7, Sizes
      <4>3. s # at[p].stage
        BY <4>2
      <4> QED
        BY <1>7, <3>1, <4>1, <4>3, AdvancePassed
    <3>2. CASE p # Primary
      BY <1>0, <1>7, <3>2, AdvancePassed DEF Passed
    <3> QED
      BY <3>1, <3>2
  <2>5. Built'
    BY <1>7, <2>4, SameObjects
  <2> QED
    BY <1>7, <2>1, <2>3, <2>5
<1>8. ASSUME NEW p \in Processes, CountCards(p)
      PROVE  IInv'
  <2>1. /\ pc[p] = "init" /\ at[p].stage = "count" /\ Advance(p)
        /\ Cardinality(attached[p]) \in 1 .. MaxPci
        /\ UNCHANGED <<config, pc, attached, started, objects, client>>
    BY <1>8 DEF CountCards, InStage
  <2>2. CardsStarted'
    <3>1. CASE p # Primary
      BY <1>0, <2>1, <3>1, AdvancePassed, SameCards
    <3>2. CASE p = Primary
      <4>1. at'[Primary].stage = "count"
        BY <2>1, <3>2, AdvancePassed
      <4>2. attached[Primary] # {}
        BY <2>1, <3>2, FS_EmptySet
      <4> QED
        BY <2>1, <3>2, <4>1, <4>2 DEF CardsStarted, Rank
    <3> QED
      BY <3>1, <3>2
  <2> QED
    BY <1>7, <2>1, <2>2
<1>9. ASSUME NEW p \in Processes, InitCard(p)
      PROVE  IInv'
  <2>1. /\ pc[p] = "init" /\ at[p].stage = "cards" /\ Advance(p)
        /\ UNCHANGED <<config, pc, attached, objects, client>>
        /\ p # Primary => UNCHANGED started
    BY <1>9 DEF InitCard, InStage
  <2>2. CardsStarted'
    <3>1. CASE p # Primary
      BY <1>0, <2>1, <3>1, AdvancePassed, SameCards
    <3>2. CASE p = Primary
      <4>1. PICK c \in attached[p] \ started : started' = started \cup {c}
        BY <1>9, <3>2 DEF InitCard
      <4>2. at'[Primary].stage = "cards" /\ at'[Primary].n = at[Primary].n + 1
        BY <1>0, <2>1, <3>2 DEF Advance, Typed
      <4>3. IsFiniteSet(started)
        BY <1>0, FiniteCards, FS_Subset DEF CardsStarted
      <4>4. Cardinality(started') = at'[Primary].n
        <5>1. Cardinality(started \cup {c}) = Cardinality(started) + 1
          BY <4>1, <4>3, FS_AddElement
        <5>2. Cardinality(started) = at[Primary].n
          BY <2>1, <3>2 DEF CardsStarted
        <5> QED
          BY <4>1, <4>2, <5>1, <5>2
      <4>5. Passed(Primary, "count", 0)' => attached'[Primary] # {}
        BY <2>1, <3>2, <4>1
      <4>6. started' \subseteq attached'[Primary]
        BY <2>1, <3>2, <4>1 DEF CardsStarted
      <4> QED
        BY <4>2, <4>4, <4>5, <4>6 DEF CardsStarted, Rank
    <3> QED
      BY <3>1, <3>2
  <2> QED
    BY <1>7, <2>1, <2>2
<1>10. ASSUME NEW p \in Processes, Wipe(p)
       PROVE  IInv'
  <2>1. /\ pc[p] = "init" /\ at[p].stage = "wipe" /\ Advance(p)
        /\ UNCHANGED <<config, pc, attached, started, objects, client>>
    BY <1>10 DEF Wipe, InStage
  <2> QED
    BY <1>7, <2>1, OtherStage
<1>11. ASSUME NEW p \in Processes, Create(p)
       PROVE  IInv'
  <2>1. /\ p = Primary /\ pc[p] = "init"
        /\ at[p].n < Size(p, at[p].stage)
        /\ objects' = objects \cup {Name(p, at[p].stage, at[p].n)}
        /\ Advance(p)
        /\ UNCHANGED <<config, pc, attached, started, client>>
    BY <1>11 DEF Create, AtObject, Here
  <2>2. Typed' /\ AtEnd' /\ FirstLaunch'
    BY <1>0, <2>1, AdvancePassed DEF Typed, AtEnd, FirstLaunch
  <2>3. \A s \in Stages, n \in Nat :
            Passed(Primary, s, n)' <=>
                Passed(Primary, s, n) \/ (s = at[p].stage /\ n = at[p].n)
    BY <2>1, AdvancePassed
  <2>4. Built'
    <3>1. ASSUME NEW s \in Stages, NEW n \in 0 .. Size(Primary, s) - 1,
                 Passed(Primary, s, n)'
          PROVE  Name(Primary, s, n) \in objects'
      <4>1. n \in Nat
        OBVIOUS
      <4>2. Passed(Primary, s, n) \/ (s = at[p].stage /\ n = at[p].n)
        BY <2>3, <3>1, <4>1
      <4> QED
        BY <2>1, <4>2 DEF Built
    <3>2. ASSUME NEW o \in objects
          PROVE  \E s \in Stages : \E n \in 0 .. Size(Primary, s) - 1 :
                     Passed(Primary, s, n)' /\ o = Name(Primary, s, n)
      <4>0. PICK s \in Stages : \E n \in 0 .. Size(Primary, s) - 1 :
                Passed(Primary, s, n) /\ o = Name(Primary, s, n)
        BY DEF Built
      <4>1. PICK n \in 0 .. Size(Primary, s) - 1 :
                Passed(Primary, s, n) /\ o = Name(Primary, s, n)
        BY <4>0
      <4>2. n \in Nat
        OBVIOUS
      <4> QED
        BY <2>3, <4>1, <4>2
    <3>3. \E s \in Stages : \E n \in 0 .. Size(Primary, s) - 1 :
              /\ Passed(Primary, s, n)'
              /\ Name(p, at[p].stage, at[p].n) = Name(Primary, s, n)
      <4>1. PICK s \in Stages : s = at[p].stage
        BY <1>0, <2>1
      <4>2. PICK n \in Nat : n = at[p].n
        BY <1>0, <2>1
      <4>3. n \in 0 .. Size(Primary, s) - 1
        BY <1>0, <2>1, <4>1, <4>2, SizeIsNat
      <4>4. Passed(Primary, s, n)'
        BY <2>3, <4>1, <4>2
      <4> QED
        BY <2>1, <4>1, <4>2, <4>3, <4>4
    <3> QED
      BY <2>1, <3>1, <3>2, <3>3, SameNames DEF Built
  <2>5. Found'
    <3>1. \A q \in Processes \ {Primary} : Passed(q, "global", 0)' <=> Passed(q, "global", 0)
      BY <2>1, AdvancePassed DEF Passed
    <3> QED
      BY <2>1, <3>1 DEF Found, GlobalMem
  <2>6. ClientFound'
    BY <2>1 DEF ClientFound, IpcPool
  <2>7. CardsStarted'
    <3>1. at[p].stage \notin {"count", "cards"}
      BY <1>0, <2>1, Sizes
    <3> QED
      BY <2>1, <3>1, OtherStage
  <2> QED
    BY <2>2, <2>4, <2>5, <2>6, <2>7
<1>12. ASSUME NEW p \in Processes, Lookup(p)
       PROVE  IInv'
  <2>1. /\ p # Primary /\ pc[p] = "init"
        /\ Name(p, at[p].stage, at[p].n) \in objects
        /\ Advance(p)
        /\ UNCHANGED <<config, pc, attached, started, objects, client>>
    BY <1>12 DEF Lookup, AtObject, Here
  <2>2. Typed' /\ AtEnd' /\ FirstLaunch'
    BY <1>0, <2>1, AdvancePassed DEF Typed, AtEnd, FirstLaunch
  <2>3. Built' /\ CardsStarted' /\ ClientFound'
    <3>1. \A s, n : Passed(Primary, s, n)' <=> Passed(Primary, s, n)
      BY <1>0, <2>1, AdvancePassed DEF Passed
    <3> QED
      BY <2>1, <3>1, SameObjects, OtherStage DEF ClientFound, IpcPool
  <2>4. ASSUME NEW q \in Processes \ {Primary}, Passed(q, "global", 0)'
        PROVE  GlobalMem \in objects
    <3>1. CASE q # p
      BY <2>1, <2>4, <3>1, AdvancePassed DEF Passed, Found
    <3>2. CASE q = p /\ Passed(p, "global", 0)
      BY <3>2 DEF Found
    <3>3. CASE q = p /\ at[p].stage = "global"
      <4>1. Name(p, "global", at[p].n) = GlobalMem
        BY DEF Name
      <4> QED
        BY <2>1, <3>3, <4>1
    <3> QED
      BY <1>0, <2>1, <2>4, <3>1, <3>2, <3>3, AdvancePassed
  <2> QED
    BY <2>1, <2>2, <2>3, <2>4 DEF Found, GlobalMem
<1>13. ASSUME NEW p \in Processes, NextStage(p)
       PROVE  IInv'
  <2>1. /\ pc[p] = "init" /\ at[p].stage # "done"
        /\ at[p].n = Steps(p, at[p].stage)
        /\ at' = [at EXCEPT ![p] = [stage |-> Following(at[p].stage), n |-> 0]]
        /\ UNCHANGED <<config, pc, attached, started, objects, client>>
        /\ at[p] \in [stage : Stages, n : Nat]
    BY <1>13 DEF NextStage, Typed
  <2>2. Typed' /\ AtEnd' /\ FirstLaunch' /\ ClientFound'
    BY <1>0, <1>13, <2>1, NextStagePassed DEF Typed, AtEnd, FirstLaunch, ClientFound, IpcPool
  <2>3. Passed(p, "global", 0)' => Passed(p, "global", 0)
    <3>1. at[p].stage = "global" => at[p].n = 1
      BY <2>1, Sizes DEF Steps
    <3> QED
      BY <1>0, <1>13, <3>1, NextStagePassed DEF Passed
  <2>4. Found'
    BY <1>13, <2>1, <2>3, NextStagePassed DEF Found, Passed, GlobalMem
  <2>5. Built'
    <3>1. ASSUME NEW s \in Stages, NEW n \in 0 .. Size(Primary, s) - 1
          PROVE  Passed(Primary, s, n)' <=> Passed(Primary, s, n)
      <4>1. CASE p # Primary
        BY <1>0, <1>13, <4>1, NextStagePassed DEF Passed
      <4>2. CASE p = Primary
        <5>1. n \in Nat
          OBVIOUS
        <5>2. Passed(p, s, n)' => Passed(p, s, n) \/ s = at[p].stage
          BY <1>13, <5>1, NextStagePassed
        <5>3. s = at[p].stage => Passed(p, s, n)
          <6>1. s \notin {"count", "cards", "wipe", "done"}
            BY Sizes
          <6> QED
            BY <2>1, <4>2, <6>1 DEF Passed, Steps
        <5> QED
          BY <1>13, <4>2, <5>1, <5>2, <5>3, NextStagePassed
      <4> QED
        BY <4>1, <4>2
    <3> QED
      BY <2>1, <3>1, SameObjects
  <2>6. CardsStarted'
    <3>1. CASE p # Primary
      BY <1>0, <1>13, <2>1, <3>1, NextStagePassed, SameCards
    <3>2. CASE p = Primary
      <4>1. at'[Primary].stage = Following(at[Primary].stage) /\ at'[Primary].n = 0
        BY <1>0, <2>1, <3>2 DEF Typed
      <4>2. attached[Primary] # {}
        <5>1. at[Primary].stage = "count" => at[Primary].n = 1
          BY <2>1, <3>2 DEF Steps
        <5>2. Passed(Primary, "count", 0)
          BY <1>0, <5>1 DEF Passed, Rank, Stages
        <5> QED
          BY <5>2 DEF CardsStarted
      <4>3. CASE at[Primary].stage \in {"count", "pools"}
        <5>1. started = {} /\ started \subseteq attached[Primary] /\ Cardinality({}) = 0
          BY <4>3, FS_EmptySet DEF CardsStarted
        <5>2. at'[Primary].stage \in {"pools", "cards"}
          BY <4>1, <4>3 DEF Following
        <5>3. ~(Rank(at'[Primary].stage) > Rank("cards"))
          BY <5>2 DEF Rank
        <5> QED
          BY <2>1, <4>1, <4>2, <5>1, <5>3 DEF CardsStarted
      <4>4. CASE at[Primary].stage = "cards"
        <5>1. Cardinality(started) = Cardinality(attached[Primary])
          BY <2>1, <3>2, <4>4 DEF CardsStarted, Steps
        <5>2. started = attached[Primary]
          BY <1>0, <5>1, FiniteCards, FS_Subset DEF CardsStarted
        <5> QED
          BY <2>1, <4>1, <4>2, <4>4, <5>2 DEF CardsStarted, Following, Rank
      <4>5. CASE at[Primary].stage \notin {"count", "pools", "cards"}
        <5>1. started = attached[Primary]
          BY <1>0, <4>5 DEF CardsStarted, Rank, Stages
        <5>2. Following(at[Primary].stage) \notin {"count", "pools", "cards"}
          BY <4>5 DEF Following
        <5> QED
          BY <2>1, <4>1, <4>2, <5>1, <5>2 DEF CardsStarted
      <4> QED
        BY <4>3, <4>4, <4>5
    <3> QED
      BY <3>1, <3>2
  <2> QED
    BY <2>2, <2>4, <2>5, <2>6
<1>14. CASE UNCHANGED vars
  BY <1>1, <1>14 DEF vars, Typed, ClientFound, IpcPool
<1> QED
  BY <1>2, <1>3, <1>4, <1>5, <1>6, <1>8, <1>9, <1>10, <1>11, <1>12, <1>13, <1>14
     DEF Next, InitStep

(***************************************************************************)
(* A process that is up has the whole system behind it.                    *)
(***************************************************************************)
THEOREM UpMeansBuilt == Spec => []ReadyMeansBuilt
<1>1. IInv => ReadyMeansBuilt
  <2> SUFFICES ASSUME IInv, NEW p \in Processes, pc[p] = "ready"
               PROVE  /\ started = attached[Primary] /\ started # {}
                      /\ Names(Primary) \subseteq objects
    BY DEF ReadyMeansBuilt
  <2> USE DEF IInv
  <2>0. Primary \in Processes /\ "cards" \in Stages /\ "global" \in Stages
    BY StartupAssumption DEF Stages
  <2>1. at[p].stage = "done"
    BY DEF AtEnd
  <2>2. Passed(p, "global", 0)
    BY <2>1 DEF Passed, Rank
  <2>3. Passed(Primary, "global", 0)
    BY <2>2, OnlyPassed DEF Found
  <2>4. ASSUME at[Primary].stage \in {"wipe", "done"}
        PROVE  Names(Primary) \subseteq objects
    <3>1. \A s \in Stages \ {"wipe", "done"} : \A n : Passed(Primary, s, n)
      BY <2>4 DEF Passed, Rank, Stages
    <3>2. \A s \in {"wipe", "done"} : Size(Primary, s) = 0
      BY Sizes
    <3> QED
      BY <2>0, <3>1, <3>2 DEF Built, Names
  <2>5. ASSUME at[Primary].stage = "global", at[Primary].n > 0
        PROVE  Names(Primary) \subseteq objects
    <3>1. \A s \in Stages \ {"global", "wipe", "done"} : \A n : Passed(Primary, s, n)
      BY <2>5 DEF Passed, Rank, Stages
    <3>2. /\ Size(Primary, "global") = 1
          /\ \A s \in {"wipe", "done"} : Size(Primary, s) = 0
      BY Sizes
    <3>3. \A n \in 0 .. 0 : Passed(Primary, "global", n)
      BY <2>5 DEF Passed
    <3> QED
      BY <2>0, <3>1, <3>2, <3>3 DEF Built, Names
  <2>6. Names(Primary) \subseteq objects
    BY <2>0, <2>3, <2>4, <2>5 DEF Passed, Rank, Typed, Stages
  <2>7. started = attached[Primary]
    BY <2>3 DEF CardsStarted, Passed, Rank
  <2>8. attached[Primary] # {}
    BY <2>3 DEF CardsStarted, Passed, Rank
  <2> QED
    BY <2>6, <2>7, <2>8
<1> QED
  BY <1>1, InitIInv, NextIInv, PTL DEF Spec

(***************************************************************************)
(* No RX queue of a started card is without its packet pool.               *)
(***************************************************************************)
THEOREM StartedHavePools == Spec => []QueuesHavePools
<1>1. IInv => QueuesHavePools
  <2> SUFFICES ASSUME IInv, started # {}, NEW q \in 0 .. QueueNum(Primary) - 1
               PROVE  PacketPool(q) \in objects
    BY DEF QueuesHavePools
  <2> USE DEF IInv
  <2>0. Primary \in Processes /\ "pools" \in Stages
    BY StartupAssumption DEF Stages
  <2>1. \A n : Passed(Primary, "pools", n)
    BY <2>0 DEF CardsStarted, Passed, Rank, Typed, Stages
  <2>2. Size(Primary, "pools") = QueueNum(Primary)
    <3>1. Cores(Primary, "pools") = QueueNum(Primary)
      BY DEF Cores, PoolNum, QueueNum
    <3>2. PerCore(Primary, "pools") = 1
      BY DEF PerCore
    <3> QED
      BY <2>0, <3>1, <3>2, SizeIsNat DEF Size
  <2>3. Name(Primary, "pools", q) = PacketPool(q)
    BY DEF Name
  <2> QED
    BY <2>0, <2>1, <2>2, <2>3 DEF Built
<1> QED
  BY <1>1, InitIInv, NextIInv, PTL DEF Spec

(* The q-th group of b objects. *)
LEMMA DivMod ==
    ASSUME NEW b \in Nat, NEW q \in Nat, NEW r \in Nat, r < b
    PROVE  (q * b + r) \div b = q /\ (q * b + r) % b = r
<1> DEFINE n == q * b + r
           d == n \div b
           m == n % b
<1>1. n \in Nat /\ d \in Int /\ m \in Int /\ n = b * d + m /\ 0 <= m /\ m < b
  OBVIOUS
<1>2. b * (q - d) = m - r
  BY <1>1
<1>3. ~(q - d >= 1)
  <2> SUFFICES ASSUME q - d >= 1 PROVE FALSE
    OBVIOUS
  <2>1. b * (q - d) >= b
    BY <1>1
  <2> QED
    BY <1>1, <1>2, <2>1
<1>4. ~(d - q >= 1)
  <2> SUFFICES ASSUME d - q >= 1 PROVE FALSE
    OBVIOUS
  <2>1. b * (d - q) >= b
    BY <1>1
  <2> QED
    BY <1>1, <1>2, <2>1
<1>5. d = q
  BY <1>1, <1>3, <1>4
<1> QED
  BY <1>1, <1>5

(***************************************************************************)
(* A client that is up finds the rings of every core of the primary.       *)
(***************************************************************************)
THEOREM ClientsFindCores == Spec => []ClientFindsCores
<1>1. IInv => ClientFindsCores
  <2> SUFFICES ASSUME IInv, NEW c \in Clients, client[c] = "up",
                      NEW s \in {"process", "dispatch", "other"},
                      NEW core \in 0 .. Cores(Primary, s) - 1, NEW k \in {0, 1}
               PROVE  CommonName(s, core, k) \in objects
    BY DEF ClientFindsCores
  <2> USE DEF IInv
  <2> DEFINE b == PerCore(Primary, s)
             r == Rings(Primary, s) + k
             n == core * b + r
  <2>0. Primary \in Processes /\ s \in Stages
    BY StartupAssumption DEF Stages
  <2>1. Passed(Primary, s, n)
    <3>1. Passed(Primary, "ipc", 0)
      BY OnlyPassed DEF ClientFound
    <3> QED
      BY <3>1 DEF Passed, Rank
  <2>2. /\ b = Rings(Primary, s) + 3 /\ Rings(Primary, s) \in Nat
        /\ Cores(Primary, s) \in Nat /\ b \in Nat /\ r \in Nat /\ r < b
    BY <2>0, SizeIsNat DEF PerCore
  <2>3. core \in Nat
    BY <2>2
  <2>4. Name(Primary, s, n) = CommonName(s, core, k)
    <3>1. \A d, q, m \in Nat : m < d => (q * d + m) \div d = q /\ (q * d + m) % d = m
      BY DivMod
    <3>2. n \div PerCore(Primary, s) = core /\ n % PerCore(Primary, s) = r
      <4> HIDE DEF r
      <4> QED
        BY <2>2, <2>3, <3>1
    <3>3. Name(Primary, s, n) = CommonName(s, core, r - Rings(Primary, s))
      <4>1. ~(r < Rings(Primary, s))
        BY <2>2
      <4> HIDE DEF n, r
      <4> QED
        BY <3>2, <4>1 DEF Name
    <3> QED
      BY <2>2, <3>3
  <2>5. n \in 0 .. Size(Primary, s) - 1
    <3>1. Cores(Primary, s) - core >= 1
      BY <2>2
    <3>2. b * (Cores(Primary, s) - core) >= b
      BY <2>2, <3>1
    <3> QED
      BY <2>2, <3>2 DEF Size
  <2> HIDE DEF n
  <2> QED
    BY <2>0, <2>1, <2>4, <2>5 DEF Built
<1> QED
  BY <1>1, InitIInv, NextIInv, PTL DEF Spec

(***************************************************************************)
(* The states are the ones declared; no object has a name that the         *)
(* primary's configuration does not give.                                  *)
(***************************************************************************)
Noted == noted \subseteq Processes /\ crashes \in 0 .. MaxCrashes

LEMMA NotedStays == Noted /\ [Next]_vars => Noted'
<1> SUFFICES ASSUME Noted, [Next]_vars PROVE Noted'
  OBVIOUS
<1>1. ASSUME NEW p \in Processes, Note(p) \/ Crash(p) \/ Wipe(p)
      PROVE  Noted'
  BY <1>1, StartupAssumption DEF Noted, Note, Crash, Wipe
<1>2. ASSUME UNCHANGED <<noted, crashes>>
      PROVE  Noted'
  BY <1>2 DEF Noted
<1>3. ASSUME NEW p \in Processes, Launch(p) \/ InitStep(p), ~Wipe(p)
      PROVE  UNCHANGED <<noted, crashes>>
  BY <1>3 DEF Launch, InitStep, EalInit, EalInitFails, CountCards, CountCardsFails, InitCard,
              InitCardFails, Create, CreateFails, Lookup, LookupFails, NextStage, Finish,
              FinishFails
<1>4. ASSUME NEW c \in Clients, ClientStep(c)
      PROVE  UNCHANGED <<noted, crashes>>
  BY <1>4 DEF ClientStep, ClientLaunch, ClientInit, ClientInitFails, ClientExit
<1> QED
  BY <1>1, <1>2, <1>3, <1>4 DEF Next, vars

(* Every variable has its type; in particular no object has a name but one *)
(* that the primary may give to one of its own.                            *)
THEOREM TypeCorrect == Spec => []TypeOK
<1>1. Init => Noted
  BY StartupAssumption DEF Init, Noted
<1>2. IInv /\ Noted => TypeOK
  <2> SUFFICES ASSUME IInv, Noted PROVE TypeOK
    OBVIOUS
  <2>1. objects \subseteq Names(Primary)
    BY DEF IInv, Built, Names
  <2>2. started \subseteq Cards
    BY StartupAssumption DEF IInv, CardsStarted, Typed
  <2> QED
    BY <2>1, <2>2 DEF IInv, Typed, ClientFound, Noted, TypeOK
<1> QED
  BY <1>1, <1>2, InitIInv, NextIInv, NotedStays, PTL DEF Spec

(***************************************************************************)
(* What the primary has passed has a name of its own in its stage.         *)
(***************************************************************************)
Distinct ==
    \A s \in Stages : \A m, n \in 0 .. Size(Primary, s) - 1 :
        /\ Passed(Primary, s, m) /\ Passed(Primary, s, n)
        /\ Name(Primary, s, m) = Name(Primary, s, n)
        => m = n

(* Only Create takes the primary past an object. *)
LEMMA OnlyCreatePasses ==
    ASSUME IInv, [Next]_vars, ~Create(Primary),
           NEW s \in Stages, NEW n \in 0 .. Size(Primary, s) - 1, Passed(Primary, s, n)'
    PROVE  Passed(Primary, s, n)
<1> USE DEF IInv
<1>0. /\ Primary \in Processes /\ n \in Nat
      /\ s \notin {"count", "cards", "wipe", "done"}
  BY StartupAssumption, Sizes
<1>1. CASE at'[Primary] = at[Primary]
  BY <1>1 DEF Passed
<1>2. CASE Advance(Primary) /\ at[Primary].stage \in {"count", "cards", "wipe"}
  BY <1>0, <1>2, AdvancePassed
<1>3. CASE NextStage(Primary)
  <2>1. s = at[Primary].stage => at[Primary].n = Size(Primary, s)
    BY <1>0, <1>3 DEF NextStage, Steps
  <2>2. n < Size(Primary, s)
    BY <1>0, SizeIsNat
  <2>3. Passed(Primary, s, n) \/ s = at[Primary].stage
    BY <1>0, <1>3, NextStagePassed
  <2> QED
    BY <2>1, <2>2, <2>3 DEF Passed
<1>4. ASSUME NEW p \in Processes, Advance(p), p # Primary
      PROVE  at'[Primary] = at[Primary]
  BY <1>0, <1>4, AdvancePassed
<1>5. ASSUME NEW p \in Processes, NextStage(p), p # Primary
      PROVE  at'[Primary] = at[Primary]
  BY <1>0, <1>5, NextStagePassed
<1>6. ASSUME NEW p \in Processes, Launch(p)
      PROVE  at'[Primary] = at[Primary]
  BY <1>0, <1>6 DEF Launch, Typed, FirstLaunch
<1>7. ASSUME NEW p \in Processes, InitStep(p)
      PROVE  \/ at' = at \/ Lookup(p) \/ NextStage(p) \/ Create(p)
             \/ Advance(p) /\ at[p].stage \in {"count", "cards", "wipe"}
  BY <1>7 DEF InitStep, EalInit, EalInitFails, CountCards, CountCardsFails, InitCard,
              InitCardFails, CreateFails, LookupFails, Wipe, Finish, FinishFails, InStage
<1>8. ASSUME NEW p \in Processes, InitStep(p)
      PROVE  Passed(Primary, s, n)
  <2>1. CASE at' = at
    BY <1>1, <2>1
  <2>2. CASE Lookup(p)
    BY <1>1, <1>4, <2>2 DEF Lookup
  <2>3. CASE NextStage(p)
    BY <1>1, <1>3, <1>5, <2>3
  <2>4. CASE Create(p)
    BY <2>4 DEF Create
  <2>5. CASE Advance(p) /\ at[p].stage \in {"count", "cards", "wipe"}
    BY <1>1, <1>2, <1>4, <2>5
  <2> QED
    BY <1>7, <1>8, <2>1, <2>2, <2>3, <2>4, <2>5
<1>9. ASSUME NEW p \in Processes, Note(p) \/ Crash(p)
      PROVE  at' = at
  BY <1>9 DEF Note, Crash
<1>10. ASSUME NEW c \in Clients, ClientStep(c)
       PROVE  at' = at
  BY <1>10 DEF ClientStep, ClientLaunch, ClientInit, ClientInitFails, ClientExit
<1>11. CASE Next
  BY <1>1, <1>6, <1>8, <1>9, <1>10, <1>11 DEF Next
<1>12. CASE UNCHANGED vars
  BY <1>1, <1>12 DEF vars
<1> QED
  BY <1>11, <1>12

(* Create refuses a name that is taken, by an object the primary has passed. *)
LEMMA DistinctStays == IInv /\ Distinct /\ [Next]_vars => Distinct'
<1> SUFFICES ASSUME IInv, Distinct, [Next]_vars PROVE Distinct'
  OBVIOUS
<1>0. UNCHANGED config
  <2>1. CASE Next
    BY <2>1 DEF Next, Launch, InitStep, EalInit, EalInitFails, CountCards, CountCardsFails,
                InitCard, InitCardFails, Create, CreateFails, Lookup, LookupFails, Wipe,
                NextStage, Finish, FinishFails, Note, Crash, ClientStep, ClientLaunch,
                ClientInit, ClientInitFails, ClientExit
  <2> QED
    BY <2>1 DEF vars
<1> SUFFICES ASSUME NEW s \in Stages,
                    NEW m \in 0 .. Size(Primary, s) - 1, NEW n \in 0 .. Size(Primary, s) - 1,
                    Passed(Primary, s, m)', Passed(Primary, s, n)',
                    Name(Primary, s, m) = Name(Primary, s, n)
             PROVE  m = n
  <2>1. \A s, n : Size(Primary, s)' = Size(Primary, s)
                  /\ Name(Primary, s, n)' = Name(Primary, s, n)
    BY <1>0, SameNames
  <2> QED
    BY <2>1 DEF Distinct
<1>1. CASE ~Create(Primary)
  BY <1>1, OnlyCreatePasses DEF Distinct
<1>2. CASE Create(Primary)
  <2>0. Primary \in Processes /\ m \in Nat /\ n \in Nat
    BY StartupAssumption
  <2>1. /\ Advance(Primary)
        /\ Name(Primary, at[Primary].stage, at[Primary].n) \notin objects
    BY <1>2 DEF Create, Here
  <2>2. \A k \in Nat : Passed(Primary, s, k)' <=>
            Passed(Primary, s, k) \/ (s = at[Primary].stage /\ k = at[Primary].n)
    BY <2>0, <2>1, AdvancePassed DEF IInv
  <2>3. \A k \in 0 .. Size(Primary, s) - 1 :
            Passed(Primary, s, k) => Name(Primary, s, k) \in objects
    BY DEF IInv, Built
  <2> QED
    BY <2>0, <2>1, <2>2, <2>3 DEF Distinct
<1> QED
  BY <1>1, <1>2

(***************************************************************************)
(* No two objects of a stage are one, for a process that is up and lists   *)
(* the cores the primary lists.                                            *)
(***************************************************************************)
THEOREM NothingShared == Spec => []NoAlias
<1>1. Init => Distinct
  <2> SUFFICES ASSUME Init, NEW s \in Stages, NEW n \in 0 .. Size(Primary, s) - 1
               PROVE  ~Passed(Primary, s, n)
    BY DEF Distinct
  <2>1. at[Primary] = [stage |-> "count", n |-> 0]
    BY StartupAssumption DEF Init
  <2> QED
    BY <2>1 DEF Passed, Rank, Stages
<1>2. IInv /\ Distinct => NoAlias
  <2> SUFFICES ASSUME IInv, Distinct,
                      NEW p \in Processes, pc[p] = "ready", SameCores(p), NEW s \in Stages,
                      NEW m \in 0 .. Size(p, s) - 1, NEW n \in 0 .. Size(p, s) - 1,
                      Name(p, s, m) = Name(p, s, n)
               PROVE  m = n
    BY DEF NoAlias
  <2> USE DEF IInv
  <2>1. s \notin {"count", "cards", "wipe", "done"}
    BY Sizes
  <2>2. Passed(p, "global", 0)
    BY DEF AtEnd, Passed, Rank
  <2>3. Passed(Primary, "global", 0)
    BY <2>2, OnlyPassed DEF Found
  <2>4. CASE s = "global"
    BY <2>4, Sizes
  <2>5. ASSUME s # "global", Size(p, s) = Size(Primary, s),
               \A k : Name(p, s, k) = Name(Primary, s, k)
        PROVE  m = n
    <3>1. \A k : Passed(Primary, s, k)
      BY <2>1, <2>3, <2>5 DEF Passed, Rank, Stages
    <3> QED
      BY <2>5, <3>1 DEF Distinct
  <2>6. CASE p = Primary
    BY <2>4, <2>5, <2>6
  <2>7. CASE s \in {"process", "dispatch", "other"}
    <3>1. /\ NProcess(p) = NProcess(Primary) /\ NDispatch(p) = NDispatch(Primary)
          /\ NOther(p) = NOther(Primary)
      BY DEF SameCores, NProcess, NDispatch, NOther
    <3>2. Rings(p, s) = Rings(Primary, s) /\ Cores(p, s) = Cores(Primary, s)
      BY <2>7, <3>1 DEF Rings, Cores, QueueNum
    <3>3. PerCore(p, s) = PerCore(Primary, s) /\ Size(p, s) = Size(Primary, s)
      BY <3>2 DEF PerCore, Size
    <3>4. \A core, k : RingName(p, s, core, k) = RingName(Primary, s, core, k)
      BY <2>7 DEF RingName, ProcessRing, OtherRing, SameCores
    <3>5. ASSUME NEW k
          PROVE  Name(p, s, k) = Name(Primary, s, k)
      BY <2>7, <3>2, <3>3, <3>4 DEF Name
    <3> QED
      BY <2>5, <2>7, <3>3, <3>5
  <2>8. CASE p # Primary /\ s \in {"pools", "ipc"}
    BY <2>8 DEF Size, Cores, PerCore
  <2> QED
    BY <2>1, <2>4, <2>6, <2>7, <2>8 DEF Stages
<1> QED
  BY <1>1, <1>2, InitIInv, NextIInv, DistinctStays, PTL DEF Spec

(***************************************************************************)
(* Started in the documented order, nobody but the primary runs, and nobody*)
(* has written to the global memory, before the primary's dkfw_init has    *)
(* succeeded.                                                              *)
(***************************************************************************)
PrimaryFirst ==
    /\ WaitForPrimary
    /\ pc \in [Processes -> {"off", "eal", "init", "ready", "failed"}]
    /\ pc[Primary] \in {"off", "eal", "init"} =>
          noted = {} /\ \A p \in Processes \ {Primary} : pc[p] = "off"

LEMMA PrimaryFirstStays ==
    ASSUME PrimaryFirst, [Next]_vars
    PROVE  PrimaryFirst' /\ noted \subseteq noted'
<1>0. /\ Primary \in Processes
      /\ pc \in [Processes -> {"off", "eal", "init", "ready", "failed"}]
  BY StartupAssumption DEF PrimaryFirst
<1>1. ASSUME NEW p \in Processes, Launch(p) PROVE PrimaryFirst' /\ noted \subseteq noted'
  BY <1>0, <1>1 DEF PrimaryFirst, Launch
<1>2. ASSUME NEW p \in Processes, InitStep(p), ~Wipe(p), ~Finish(p)
      PROVE  PrimaryFirst' /\ noted \subseteq noted'
  <2>1. /\ pc[p] \in {"eal", "init"} /\ noted' = noted
        /\ pc' = pc \/ \E x \in {"init", "failed"} : pc' = [pc EXCEPT ![p] = x]
    <3>1. CASE EalInit(p) \/ EalInitFails(p)
      BY <3>1 DEF EalInit, EalInitFails, Fail
    <3>2. CASE CountCards(p) \/ CountCardsFails(p)
      BY <3>2 DEF CountCards, CountCardsFails, InStage, Fail
    <3>3. CASE InitCard(p) \/ InitCardFails(p)
      BY <3>3 DEF InitCard, InitCardFails, InStage, Fail
    <3>4. CASE Create(p) \/ CreateFails(p)
      BY <3>4 DEF Create, CreateFails, AtObject, Fail
    <3>5. CASE Lookup(p) \/ LookupFails(p)
      BY <3>5 DEF Lookup, LookupFails, AtObject, Fail
    <3>6. CASE NextStage(p)
      BY <3>6 DEF NextStage
    <3>7. CASE FinishFails(p)
      BY <3>7 DEF FinishFails, InStage, Fail
    <3> QED
      BY <1>2, <3>1, <3>2, <3>3, <3>4, <3>5, <3>6, <3>7 DEF InitStep
  <2> QED
    BY <1>0, <2>1 DEF PrimaryFirst
<1>3. ASSUME NEW p \in Processes, Wipe(p) PROVE PrimaryFirst' /\ noted \subseteq noted'
  <2>1. pc[p] = "init" /\ pc' = pc /\ noted' = IF p = Primary THEN {} ELSE noted
    BY <1>3 DEF Wipe, InStage
  <2>2. CASE p = Primary
    <3>1. noted = {} /\ noted' = {}
      BY <2>1, <2>2 DEF PrimaryFirst
    <3> QED
      BY <2>1, <3>1 DEF PrimaryFirst
  <2>3. CASE p # Primary
    <3>1. noted' = noted
      BY <2>1, <2>3
    <3> QED
      BY <2>1, <3>1 DEF PrimaryFirst
  <2> QED
    BY <2>2, <2>3
<1>4. ASSUME NEW p \in Processes, Finish(p) PROVE PrimaryFirst' /\ noted \subseteq noted'
  <2>1. pc[p] = "init" /\ pc' = [pc EXCEPT ![p] = "ready"] /\ noted' = noted
    BY <1>4 DEF Finish, InStage
  <2>2. pc'[Primary] \notin {"off", "eal", "init"}
    <3>1. CASE p = Primary
      BY <1>0, <2>1, <3>1
    <3>2. CASE p # Primary
      <4>1. pc[Primary] \notin {"off", "eal", "init"}
        BY <2>1, <3>2 DEF PrimaryFirst
      <4> QED
        BY <1>0, <2>1, <3>2, <4>1
    <3> QED
      BY <3>1, <3>2
  <2> QED
    BY <1>0, <2>1, <2>2 DEF PrimaryFirst
<1>5. ASSUME NEW p \in Processes, Note(p) PROVE PrimaryFirst' /\ noted \subseteq noted'
  <2>1. pc[p] = "ready" /\ pc' = pc /\ noted \subseteq noted'
    BY <1>5 DEF Note
  <2>2. pc[Primary] \notin {"off", "eal", "init"}
    BY <1>0, <2>1 DEF PrimaryFirst
  <2> QED
    BY <2>1, <2>2 DEF PrimaryFirst
<1>6. ASSUME NEW p \in Processes, Crash(p) PROVE PrimaryFirst' /\ noted \subseteq noted'
  BY <1>0, <1>6 DEF PrimaryFirst, Crash
<1>7. ASSUME NEW c \in Clients, ClientStep(c) PROVE PrimaryFirst' /\ noted \subseteq noted'
  BY <1>7 DEF PrimaryFirst, ClientStep, ClientLaunch, ClientInit, ClientInitFails, ClientExit
<1>8. ASSUME UNCHANGED vars PROVE PrimaryFirst' /\ noted \subseteq noted'
  BY <1>8 DEF PrimaryFirst, vars
<1> QED
  BY <1>1, <1>2, <1>3, <1>4, <1>5, <1>6, <1>7, <1>8 DEF Next

(***************************************************************************)
(* In the documented order (README.md) the primary's wiping of the global  *)
(* memory at the end of dkfw_init (memory.c) takes nothing from anybody,   *)
(* whatever crashes, fails and is started again after it.                  *)
(***************************************************************************)
THEOREM MemoryIsKept == WaitForPrimary => (Spec => GlobalMemoryKept)
<1>1. WaitForPrimary /\ Init => PrimaryFirst
  BY StartupAssumption DEF Init, PrimaryFirst
<1>2. PrimaryFirst /\ [Next]_vars => PrimaryFirst' /\ [noted \subseteq noted']_vars
  BY PrimaryFirstStays
<1> QED
  BY <1>1, <1>2, PTL DEF Spec, GlobalMemoryKept
=============================================================================
