-------------------------------- MODULE Ipc --------------------------------
(***************************************************************************)
(* Control messages between client processes and the cores: a pool of      *)
(* messages in shared memory and, per core, a ring of requests and a ring  *)
(* of answers that all clients share.  Only clients know the pool, so a    *)
(* core can neither allocate nor free.  A client may send to any core,     *)
(* wait for an answer for a limited time, send again before the answer has *)
(* come, and be killed.  Which calls a client or core makes is up to the   *)
(* program that uses the library, but a client has one message in hand,    *)
(* which it sends or frees before it goes on.  Each call is a step, a wait *)
(* a step per poll.                                                        *)
(***************************************************************************)
EXTENDS Naturals, Sequences, FiniteSets, Functions

CONSTANTS
    Clients, Cores,
    Msgs,           \* the objects of ipcmsgpool
    None,
    RingSize,       \* slots of a ring; one of them is never used
    Polls,          \* polls of a wait, 1000 per second of its timeout
    Window,         \* requests a client sends before it needs an answer
    MaxSends,       \* bound: requests of a client
    MaxCrashes      \* bound: clients killed

ASSUME IpcAssumption ==
    /\ IsFiniteSet(Clients) /\ IsFiniteSet(Msgs)
    /\ None \notin Clients \cup Cores \cup Msgs
    /\ RingSize \in Nat \ {0, 1} /\ Polls \in Nat \ {0}
    /\ Window \in Nat /\ MaxSends \in Nat /\ MaxCrashes \in Nat

VARIABLES
    pool,       \* free messages
    to_me,      \* requests for each core
    to_back,    \* answers of each core
    held,       \* the message a client has, or None
    wait,       \* the wait a client is in: a core and the polls left, or None
    handled,    \* the message a core has, or None
    id,         \* what a message says it asks or answers: a client's n-th request
    sent,       \* requests each client sent
    owed,       \* sent requests a client has had no answer to, as it counts them
    got,        \* history: per client and core, its latest request it saw answered
    lost,       \* history: messages nobody has
    crashes     \* clients killed

vars == <<pool, to_me, to_back, held, wait, handled, id, sent, owed, got, lost, crashes>>

NoId == [client |-> None, n |-> 0]
Ids == [client : Clients \cup {None}, n : 0 .. MaxSends]

TypeOK ==
    /\ pool \subseteq Msgs
    /\ to_me \in [Cores -> Seq(Msgs)] /\ to_back \in [Cores -> Seq(Msgs)]
    /\ \A c \in Cores : Len(to_me[c]) < RingSize /\ Len(to_back[c]) < RingSize
    /\ held \in [Clients -> Msgs \cup {None}]
    /\ wait \in [Clients -> {None} \cup [core : Cores, left : 1 .. Polls]]
    /\ handled \in [Cores -> Msgs \cup {None}]
    /\ id \in [Msgs -> Ids]
    /\ sent \in [Clients -> 0 .. MaxSends]
    /\ owed \in [Clients -> 0 .. Window]
    /\ got \in [Clients -> [Cores -> 0 .. MaxSends]]
    /\ lost \subseteq Msgs
    /\ crashes \in 0 .. MaxCrashes

Init ==
    /\ pool = Msgs
    /\ to_me = [c \in Cores |-> <<>>] /\ to_back = [c \in Cores |-> <<>>]
    /\ held = [cl \in Clients |-> None]
    /\ wait = [cl \in Clients |-> None]
    /\ handled = [c \in Cores |-> None]
    /\ id = [m \in Msgs |-> NoId]
    /\ sent = [cl \in Clients |-> 0]
    /\ owed = [cl \in Clients |-> 0]
    /\ got = [cl \in Clients |-> [c \in Cores |-> 0]]
    /\ lost = {}
    /\ crashes = 0

HasRoomOneLess(ring) == Len(ring) < RingSize - 2
HasRoomOneMore(ring) == Len(ring) < RingSize

\* rte_ring_enqueue succeeds.
HasRoom(ring) == Len(ring) < RingSize - 1

Idle(cl) == wait[cl] = None /\ held[cl] = None

-----------------------------------------------------------------------------
(***************************************************************************)
(* Clients.  A call that fails and changes nothing is not a step: an alloc *)
(* from the empty pool, a send to a full ring, whose message the client    *)
(* keeps.                                                                  *)
(***************************************************************************)
Alloc(cl) ==
    /\ Idle(cl)
    /\ sent[cl] < MaxSends /\ owed[cl] < Window
    /\ \E m \in pool :
          /\ pool' = pool \ {m}
          /\ held' = [held EXCEPT ![cl] = m]
          /\ id' = [id EXCEPT ![m] = NoId]
    /\ UNCHANGED <<to_me, to_back, wait, handled, sent, owed, got, lost, crashes>>

\* The client fills in the message it allocated and sends it.
Send(cl, c) ==
    LET n == sent[cl] + 1 IN
    /\ held[cl] # None
    /\ id[held[cl]] = NoId
    /\ HasRoom(to_me[c])
    /\ to_me' = [to_me EXCEPT ![c] = Append(@, held[cl])]
    /\ id' = [id EXCEPT ![held[cl]] = [client |-> cl, n |-> n]]
    /\ sent' = [sent EXCEPT ![cl] = n]
    /\ owed' = [owed EXCEPT ![cl] = @ + 1]
    /\ held' = [held EXCEPT ![cl] = None]
    /\ UNCHANGED <<pool, to_back, wait, handled, got, lost, crashes>>

\* After an answer, or after a send that failed.
Free(cl) ==
    /\ held[cl] # None
    /\ pool' = pool \cup {held[cl]}
    /\ held' = [held EXCEPT ![cl] = None]
    /\ UNCHANGED <<to_me, to_back, wait, handled, id, sent, owed, got, lost, crashes>>

\* dkfw_ipc_client_rcv_msg_from_core
Receive(cl, c) ==
    /\ Idle(cl)
    /\ wait' = [wait EXCEPT ![cl] = [core |-> c, left |-> Polls]]
    /\ UNCHANGED <<pool, to_me, to_back, held, handled, id, sent, owed, got, lost, crashes>>

\* Whatever answer is first is taken, by whoever polls.
Take(cl, c, m) ==
    /\ held' = [held EXCEPT ![cl] = m]
    /\ owed' = [owed EXCEPT ![cl] = IF @ = 0 THEN 0 ELSE @ - 1]
    /\ got' = IF id[m].client = cl THEN [got EXCEPT ![cl][c] = id[m].n] ELSE got

PollPeeks(cl) ==
    LET c == wait[cl].core  left == wait[cl].left IN
    /\ wait[cl] # None
    /\ \/ /\ to_back[c] # <<>>
          /\ wait' = [wait EXCEPT ![cl] = None]
          /\ Take(cl, c, Head(to_back[c]))
       \/ /\ to_back[c] = <<>>
          /\ wait' = [wait EXCEPT ![cl] = IF left = 1 THEN None ELSE [@ EXCEPT !.left = left - 1]]
          /\ UNCHANGED <<held, owed, got>>
    /\ UNCHANGED <<pool, to_me, to_back, handled, id, sent, lost, crashes>>

PollLastForNothing(cl) ==
    LET c == wait[cl].core  left == wait[cl].left IN
    /\ wait[cl] # None
    /\ \/ /\ to_back[c] # <<>>
          /\ to_back' = [to_back EXCEPT ![c] = Tail(@)]
          /\ wait' = [wait EXCEPT ![cl] = None]
          /\ IF left > 1 THEN Take(cl, c, Head(to_back[c])) ELSE UNCHANGED <<held, owed, got>>
       \/ /\ to_back[c] = <<>>
          /\ wait' = [wait EXCEPT ![cl] = IF left = 1 THEN None ELSE [@ EXCEPT !.left = left - 1]]
          /\ UNCHANGED <<to_back, held, owed, got>>
    /\ UNCHANGED <<pool, to_me, handled, id, sent, lost, crashes>>

Poll(cl) ==
    LET c == wait[cl].core  left == wait[cl].left IN
    /\ wait[cl] # None
    /\ \/ /\ to_back[c] # <<>>
          /\ to_back' = [to_back EXCEPT ![c] = Tail(@)]
          /\ wait' = [wait EXCEPT ![cl] = None]
          /\ Take(cl, c, Head(to_back[c]))
       \/ /\ to_back[c] = <<>>
          /\ wait' = [wait EXCEPT ![cl] = IF left = 1 THEN None ELSE [@ EXCEPT !.left = left - 1]]
          /\ UNCHANGED <<to_back, held, owed, got>>
    /\ UNCHANGED <<pool, to_me, handled, id, sent, lost, crashes>>

\* A killed client is started again and knows of no earlier request.
Crash(cl) ==
    /\ crashes < MaxCrashes
    /\ crashes' = crashes + 1
    /\ lost' = lost \cup ({held[cl]} \ {None})
    /\ held' = [held EXCEPT ![cl] = None]
    /\ wait' = [wait EXCEPT ![cl] = None]
    /\ owed' = [owed EXCEPT ![cl] = 0]
    /\ UNCHANGED <<pool, to_me, to_back, handled, id, sent, got>>

-----------------------------------------------------------------------------
(***************************************************************************)
(* Cores, which handle one message at a time.  An answer that does not fit *)
(* can be sent again later or forgotten, but not freed.                    *)
(***************************************************************************)
RcvMsg(c) ==
    /\ handled[c] = None
    /\ to_me[c] # <<>>
    /\ handled' = [handled EXCEPT ![c] = Head(to_me[c])]
    /\ to_me' = [to_me EXCEPT ![c] = Tail(@)]
    /\ UNCHANGED <<pool, to_back, held, wait, id, sent, owed, got, lost, crashes>>

SendResponseUnchecked(c) ==
    /\ handled[c] # None
    /\ to_back' = [to_back EXCEPT ![c] = IF HasRoom(@) THEN Append(@, handled[c]) ELSE @]
    /\ handled' = [handled EXCEPT ![c] = None]
    /\ UNCHANGED <<pool, to_me, held, wait, id, sent, owed, got, lost, crashes>>

SendResponse(c) ==
    /\ handled[c] # None
    /\ HasRoom(to_back[c])
    /\ to_back' = [to_back EXCEPT ![c] = Append(@, handled[c])]
    /\ handled' = [handled EXCEPT ![c] = None]
    /\ UNCHANGED <<pool, to_me, held, wait, id, sent, owed, got, lost, crashes>>

Forget(c) ==
    /\ handled[c] # None
    /\ ~HasRoom(to_back[c])
    /\ lost' = lost \cup {handled[c]}
    /\ handled' = [handled EXCEPT ![c] = None]
    /\ UNCHANGED <<pool, to_me, to_back, held, wait, id, sent, owed, got, crashes>>

Next ==
    \/ \E cl \in Clients : Alloc(cl) \/ Free(cl) \/ Poll(cl) \/ Crash(cl)
    \/ \E cl \in Clients, c \in Cores : Send(cl, c) \/ Receive(cl, c)
    \/ \E c \in Cores : RcvMsg(c) \/ SendResponse(c) \/ Forget(c)

Spec == Init /\ [][Next]_vars

(***************************************************************************)
(* A core retries an answer that did not fit, a client ends its waits and  *)
(* frees what it has, and there is always again a client that asks a core  *)
(* which has answers.                                                      *)
(***************************************************************************)
FairSpec ==
    /\ Spec
    /\ \A c \in Cores : WF_vars(RcvMsg(c) \/ SendResponse(c))
    /\ \A cl \in Clients : WF_vars(Poll(cl)) /\ WF_vars(Free(cl))
    /\ \A c \in Cores :
          SF_vars(to_back[c] # <<>> /\ \E cl \in Clients : Receive(cl, c))
-----------------------------------------------------------------------------
(***************************************************************************)
(* Every message has exactly one owner, the pool, a ring, a client or a    *)
(* core, through timeouts that race with late answers, full rings and      *)
(* clients killed at any point: none is freed twice, none used by two, and *)
(* none vanishes except as counted in lost.                                *)
(***************************************************************************)
Places(m) ==
    LET In(ring) == {c \in Cores : m \in Range(ring[c])} IN
    ({"pool"} \X {n \in {1} : m \in pool})
      \cup ({"lost"} \X {n \in {1} : m \in lost})
      \cup ({"to_me"} \X In(to_me)) \cup ({"to_back"} \X In(to_back))
      \cup ({"held"} \X {cl \in Clients : held[cl] = m})
      \cup ({"handled"} \X {c \in Cores : handled[c] = m})

OneOwner ==
    /\ \A m \in Msgs : Cardinality(Places(m)) = 1
    /\ \A c \in Cores : IsInjective(to_me[c]) /\ IsInjective(to_back[c])

(***************************************************************************)
(* Answers carry no order of their own and a wait takes the first one,     *)
(* which after a timeout is a late one.  Still a client sees the answers   *)
(* of a core to its own requests in the order it sent them, each once, so  *)
(* it may discard answers until the one it waits for comes.                *)
(***************************************************************************)
RepliesInOrder ==
    [][\A cl \in Clients :
          LET m == held'[cl] IN
          wait[cl] # None /\ m # None /\ id[m].client = cl
              => id[m].n > got[cl][wait[cl].core]]_vars

(***************************************************************************)
(* A core never finds its ring of answers full, and so never has a message *)
(* it can neither send nor free, if the requests clients may leave open,   *)
(* counting those that killed clients left, fit into a ring, which is one  *)
(* less than its size.                                                     *)
(***************************************************************************)
RoomForAnswer ==
    Window * (Cardinality(Clients) + MaxCrashes) <= RingSize - 1
        => \A c \in Cores : handled[c] # None => HasRoom(to_back[c])

(***************************************************************************)
(* No message stays away from the pool for good unless it is lost, which   *)
(* happens only when a client is killed or a core forgets an answer.       *)
(***************************************************************************)
Recovered == \A m \in Msgs : []<>(m \in pool \cup lost)
=============================================================================
