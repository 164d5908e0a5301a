------------------------------ MODULE IpcProofs ------------------------------
(***************************************************************************)
(* Theorems about Ipc, for any number of clients, cores and messages, any  *)
(* size of the rings, any timeouts and any number of killed clients.       *)
(***************************************************************************)
EXTENDS Ipc, Integers, SequenceTheorems, FiniteSetTheorems, TLAPS

(***************************************************************************)
(* The one place of a message: its kind k, and which of that kind.         *)
(***************************************************************************)
Ringed == {"to_me", "to_back", "handled"}
Whose(k) ==
    CASE k \in Ringed -> Cores
      [] k = "held" -> Clients
      [] OTHER -> {1}
Kinds == Ringed \cup {"held", "pool", "lost"}

IsAt(m, k, w) ==
    /\ k \in Kinds /\ w \in Whose(k)
    /\ m \in pool <=> k = "pool"
    /\ m \in lost <=> k = "lost"
    /\ \A c \in Cores : m \in Range(to_me[c]) <=> (k = "to_me" /\ w = c)
    /\ \A c \in Cores : m \in Range(to_back[c]) <=> (k = "to_back" /\ w = c)
    /\ \A c \in Cores : handled[c] = m <=> (k = "handled" /\ w = c)
    /\ \A cl \in Clients : held[cl] = m <=> (k = "held" /\ w = cl)

Owned == \A m \in Msgs : \E k, w : IsAt(m, k, w)

OnceEach == \A c \in Cores : IsInjective(to_me[c]) /\ IsInjective(to_back[c])

\* A message that a core has, or that is on its way, says whose request it is.
Known ==
    \A m \in Msgs, c \in Cores :
        m \in Range(to_me[c]) \/ m \in Range(to_back[c]) \/ handled[c] = m
            => id[m].client # None

\* A client does not wait while it has a message, and may send the one it has
\* just allocated.
MaySend ==
    \A cl \in Clients : held[cl] # None =>
        /\ wait[cl] = None
        /\ id[held[cl]] = NoId => sent[cl] < MaxSends /\ owed[cl] < Window

IInv == TypeOK /\ Owned /\ OnceEach /\ Known /\ MaySend

-----------------------------------------------------------------------------
(***************************************************************************)
(* Rings.                                                                  *)
(***************************************************************************)
LEMMA EnqueueFacts ==
    ASSUME NEW S, NEW s \in Seq(S), NEW m \in S
    PROVE  /\ Append(s, m) \in Seq(S) /\ Len(Append(s, m)) = Len(s) + 1
           /\ Range(Append(s, m)) = Range(s) \cup {m}
           /\ IsInjective(s) /\ m \notin Range(s) => IsInjective(Append(s, m))
<1>1. /\ Append(s, m) \in Seq(S) /\ Len(Append(s, m)) = Len(s) + 1
      /\ DOMAIN Append(s, m) = 1 .. Len(s) + 1 /\ DOMAIN s = 1 .. Len(s)
      /\ \A i \in 1 .. Len(s) : Append(s, m)[i] = s[i]
      /\ Append(s, m)[Len(s) + 1] = m
      /\ Len(s) \in Nat
  BY AppendProperties
<1>2. Range(Append(s, m)) = Range(s) \cup {m}
  BY <1>1 DEF Range
<1>3. ASSUME IsInjective(s), m \notin Range(s) PROVE IsInjective(Append(s, m))
  BY <1>1, <1>3 DEF Range, IsInjective
<1> QED
  BY <1>1, <1>2, <1>3

LEMMA DequeueFacts ==
    ASSUME NEW S, NEW s \in Seq(S), s # <<>>
    PROVE  /\ Head(s) \in S /\ Head(s) \in Range(s)
           /\ Tail(s) \in Seq(S) /\ Len(Tail(s)) = Len(s) - 1
           /\ IsInjective(s) => /\ IsInjective(Tail(s))
                                /\ Range(Tail(s)) = Range(s) \ {Head(s)}
<1>1. /\ Head(s) \in S /\ Head(s) = s[1] /\ Len(s) \in Nat /\ Len(s) >= 1
      /\ Tail(s) \in Seq(S) /\ Len(Tail(s)) = Len(s) - 1
      /\ DOMAIN Tail(s) = 1 .. Len(s) - 1 /\ DOMAIN s = 1 .. Len(s)
      /\ \A i \in 1 .. Len(s) - 1 : Tail(s)[i] = s[i + 1]
  BY HeadTailProperties
<1>2. Head(s) \in Range(s)
  BY <1>1 DEF Range
<1>3. ASSUME IsInjective(s)
      PROVE  IsInjective(Tail(s)) /\ Range(Tail(s)) = Range(s) \ {Head(s)}
  <2>1. IsInjective(Tail(s))
    BY <1>1, <1>3 DEF IsInjective
  <2>2. ASSUME NEW x \in Range(Tail(s)) PROVE x \in Range(s) \ {Head(s)}
    <3>1. PICK i \in 1 .. Len(s) - 1 : x = s[i + 1]
      BY <1>1 DEF Range
    <3>2. i + 1 \in 1 .. Len(s) /\ i + 1 # 1 /\ 1 \in 1 .. Len(s)
      BY <1>1
    <3> QED
      BY <1>1, <1>3, <3>1, <3>2 DEF Range, IsInjective
  <2>3. ASSUME NEW x \in Range(s), x # Head(s) PROVE x \in Range(Tail(s))
    <3>1. PICK i \in 1 .. Len(s) : x = s[i]
      BY <1>1 DEF Range
    <3>2. i - 1 \in 1 .. Len(s) - 1 /\ (i - 1) + 1 = i
      BY <1>1, <2>3, <3>1
    <3>3. Tail(s)[i - 1] = x
      BY <1>1, <3>1, <3>2
    <3> QED
      BY <1>1, <3>2, <3>3 DEF Range
  <2> QED
    BY <2>1, <2>2, <2>3
<1> QED
  BY <1>1, <1>2, <1>3

LEMMA InitIInv == Init => IInv
<1> SUFFICES ASSUME Init PROVE IInv
  OBVIOUS
<1>1. TypeOK
  BY IpcAssumption DEF Init, TypeOK, NoId, Ids
<1>2. Owned
  <2> SUFFICES ASSUME NEW m \in Msgs PROVE IsAt(m, "pool", 1)
    BY DEF Owned
  <2>1. Range(<<>>) = {}
    BY DEF Range
  <2>2. m # None
    BY IpcAssumption
  <2> QED
    BY <2>1, <2>2 DEF Init, IsAt, Kinds, Whose, Ringed
<1>3. OnceEach
  BY DEF Init, OnceEach, IsInjective
<1>4. Known
  <2>1. Range(<<>>) = {}
    BY DEF Range
  <2> QED
    BY <2>1, IpcAssumption DEF Init, Known
<1>5. MaySend
  BY DEF Init, MaySend
<1> QED
  BY <1>1, <1>2, <1>3, <1>4, <1>5 DEF IInv
-----------------------------------------------------------------------------
(***************************************************************************)
(* A message moves to one new place, and the others stay where they are.   *)
(***************************************************************************)
LEMMA Moved ==
    ASSUME NEW m0 \in Msgs, NEW k0, NEW w0, IsAt(m0, k0, w0)', Owned,
           \A m \in Msgs \ {m0} : \A k, w : IsAt(m, k, w) => IsAt(m, k, w)'
    PROVE  Owned'
<1> SUFFICES ASSUME NEW m \in Msgs PROVE \E k, w : IsAt(m, k, w)'
  BY Zenon DEF Owned
<1>1. CASE m = m0
  BY <1>1
<1>2. CASE m # m0
  <2>1. PICK k, w : IsAt(m, k, w)
    BY DEF Owned
  <2> QED
    BY <1>2, <2>1
<1> QED
  BY <1>1, <1>2

LEMMA NotNone ==
    ASSUME NEW m \in Msgs
    PROVE  m # None
BY IpcAssumption

LEMMA AllocKeeps ==
    ASSUME IInv, NEW cl \in Clients, Alloc(cl)
    PROVE  IInv'
<1>1. PICK m0 \in pool :
        /\ pool' = pool \ {m0}
        /\ held' = [held EXCEPT ![cl] = m0]
        /\ id' = [id EXCEPT ![m0] = NoId]
  BY DEF Alloc
<1>2. /\ wait[cl] = None /\ held[cl] = None /\ sent[cl] < MaxSends /\ owed[cl] < Window
      /\ UNCHANGED <<to_me, to_back, wait, handled, sent, owed, got, lost, crashes>>
  BY DEF Alloc, Idle
<1>3. m0 \in Msgs /\ TypeOK
  BY <1>1 DEF IInv, TypeOK
<1>4. TypeOK'
  <2>1. NoId \in Ids
    BY IpcAssumption DEF NoId, Ids
  <2> QED
    BY <1>1, <1>2, <1>3, <2>1 DEF TypeOK
<1>5. PICK w1 : IsAt(m0, "pool", w1)
  BY <1>1, <1>3 DEF IInv, Owned, IsAt
<1>6. Owned'
  <2>1. IsAt(m0, "held", cl)'
    BY <1>1, <1>2, <1>3, <1>5 DEF IsAt, Kinds, Whose, Ringed, TypeOK
  <2>2. ASSUME NEW m \in Msgs \ {m0}, NEW k, NEW w, IsAt(m, k, w)
        PROVE  IsAt(m, k, w)'
    BY <1>1, <1>2, <1>3, <2>2, NotNone DEF IsAt, Kinds, Whose, Ringed, TypeOK
  <2> QED
    BY <1>3, <2>1, <2>2, Moved DEF IInv
<1>7. OnceEach'
  BY <1>2 DEF IInv, OnceEach
<1>8. Known'
  BY <1>1, <1>2, <1>3, <1>5 DEF IInv, Known, IsAt, TypeOK
<1>9. MaySend'
  <2> SUFFICES ASSUME NEW x \in Clients, held'[x] # None
               PROVE  /\ wait[x] = None
                      /\ id'[held'[x]] = NoId => sent[x] < MaxSends /\ owed[x] < Window
    BY <1>2 DEF MaySend
  <2>1. CASE x = cl
    BY <1>2, <2>1
  <2>2. CASE x # cl
    <3>1. held'[x] = held[x] /\ held[x] # m0
      BY <1>1, <1>3, <1>5, <2>2 DEF TypeOK, IsAt
    <3> QED
      BY <1>1, <1>3, <3>1 DEF IInv, MaySend, TypeOK
  <2> QED
    BY <2>1, <2>2
<1> QED
  BY <1>4, <1>6, <1>7, <1>8, <1>9 DEF IInv

LEMMA SendKeeps ==
    ASSUME IInv, NEW cl \in Clients, NEW c \in Cores, Send(cl, c)
    PROVE  IInv'
<1> DEFINE n == sent[cl] + 1
<1>0. PICK m0 \in Msgs : held[cl] = m0
  BY DEF IInv, TypeOK, Send
<1>1. /\ m0 # None /\ id[m0] = NoId /\ HasRoom(to_me[c])
      /\ to_me' = [to_me EXCEPT ![c] = Append(to_me[c], m0)]
      /\ id' = [id EXCEPT ![m0] = [client |-> cl, n |-> n]]
      /\ sent' = [sent EXCEPT ![cl] = n]
      /\ owed' = [owed EXCEPT ![cl] = owed[cl] + 1]
      /\ held' = [held EXCEPT ![cl] = None]
      /\ UNCHANGED <<pool, to_back, wait, handled, got, lost, crashes>>
  BY <1>0 DEF Send
<1>2. m0 \in Msgs /\ TypeOK /\ sent[cl] < MaxSends /\ owed[cl] < Window
  BY <1>0, <1>1 DEF IInv, TypeOK, MaySend
<1>3. IsAt(m0, "held", cl)
  BY <1>0 DEF IInv, Owned, IsAt
<1>5. /\ Append(to_me[c], m0) \in Seq(Msgs)
      /\ Len(Append(to_me[c], m0)) = Len(to_me[c]) + 1
      /\ Range(Append(to_me[c], m0)) = Range(to_me[c]) \cup {m0}
      /\ m0 \notin Range(to_me[c])
      /\ IsInjective(Append(to_me[c], m0))
  <2>1. m0 \notin Range(to_me[c])
    BY <1>3 DEF IsAt
  <2>2. to_me[c] \in Seq(Msgs) /\ IsInjective(to_me[c])
    BY <1>2 DEF TypeOK, IInv, OnceEach
  <2> QED
    BY <1>2, <2>1, <2>2, EnqueueFacts
<1>6. TypeOK'
  <2>1. to_me' \in [Cores -> Seq(Msgs)]
    BY <1>1, <1>2, <1>5 DEF TypeOK
  <2>2. Len(to_me[c]) + 1 < RingSize
    BY <1>1, <1>2, IpcAssumption DEF TypeOK, HasRoom
  <2>3. \A d \in Cores : Len(to_me'[d]) < RingSize /\ Len(to_back'[d]) < RingSize
    BY <1>1, <1>2, <1>5, <2>2 DEF TypeOK
  <2>4. [client |-> cl, n |-> n] \in Ids /\ n \in 0 .. MaxSends
    BY <1>2, IpcAssumption DEF TypeOK, Ids
  <2>5. owed[cl] + 1 \in 0 .. Window
    BY <1>2, IpcAssumption DEF TypeOK
  <2> HIDE DEF n
  <2> QED
    BY <1>1, <1>2, <2>1, <2>3, <2>4, <2>5 DEF TypeOK
<1>7. Owned'
  <2>1. IsAt(m0, "to_me", c)'
    BY <1>1, <1>2, <1>3, <1>0, <1>5, NotNone DEF IsAt, Kinds, Whose, Ringed, TypeOK
  <2>2. ASSUME NEW m \in Msgs \ {m0}, NEW k, NEW w, IsAt(m, k, w)
        PROVE  IsAt(m, k, w)'
    BY <1>1, <1>2, <1>0, <1>5, <2>2, NotNone DEF IsAt, Kinds, Whose, Ringed, TypeOK
  <2> QED
    BY <1>2, <2>1, <2>2, Moved DEF IInv
<1>8. OnceEach'
  BY <1>1, <1>2, <1>5 DEF IInv, OnceEach, TypeOK
<1>9. Known'
  <2> SUFFICES ASSUME NEW m \in Msgs, NEW d \in Cores,
                      m \in Range(to_me'[d]) \/ m \in Range(to_back[d]) \/ handled[d] = m
               PROVE  id'[m].client # None
    BY <1>1 DEF Known
  <2>1. CASE m = m0
    BY <1>1, <1>2, <2>1, IpcAssumption DEF TypeOK
  <2>2. CASE m # m0
    <3>1. m \in Range(to_me[d]) \/ m \in Range(to_back[d]) \/ handled[d] = m
      BY <1>1, <1>2, <1>5, <2>2 DEF TypeOK
    <3>2. id'[m] = id[m]
      BY <1>1, <1>2, <2>2 DEF TypeOK
    <3> QED
      BY <3>1, <3>2 DEF IInv, Known
  <2> QED
    BY <2>1, <2>2
<1>10. MaySend'
  <2> SUFFICES ASSUME NEW x \in Clients, held'[x] # None
               PROVE  /\ wait[x] = None
                      /\ id'[held'[x]] = NoId => sent'[x] < MaxSends /\ owed'[x] < Window
    BY <1>1 DEF MaySend
  <2>1. x # cl /\ held'[x] = held[x] /\ sent'[x] = sent[x] /\ owed'[x] = owed[x]
    BY <1>1, <1>2 DEF TypeOK
  <2>2. held[x] \in Msgs /\ held[x] # m0
    BY <1>2, <1>3, <1>0, <2>1 DEF TypeOK, IsAt
  <2>3. id'[held[x]] = id[held[x]]
    BY <1>1, <1>2, <2>2 DEF TypeOK
  <2> QED
    BY <2>1, <2>3 DEF IInv, MaySend
<1> QED
  BY <1>6, <1>7, <1>8, <1>9, <1>10 DEF IInv

LEMMA FreeKeeps ==
    ASSUME IInv, NEW cl \in Clients, Free(cl)
    PROVE  IInv'
<1>0. PICK m0 \in Msgs : held[cl] = m0
  BY DEF IInv, TypeOK, Free
<1>1. /\ m0 # None
      /\ pool' = pool \cup {m0}
      /\ held' = [held EXCEPT ![cl] = None]
      /\ UNCHANGED <<to_me, to_back, wait, handled, id, sent, owed, got, lost, crashes>>
  BY <1>0 DEF Free
<1>2. m0 \in Msgs /\ TypeOK
  BY DEF IInv
<1>3. IsAt(m0, "held", cl)
  BY <1>0 DEF IInv, Owned, IsAt
<1>5. TypeOK'
  BY <1>1, <1>2 DEF TypeOK
<1>6. Owned'
  <2>1. IsAt(m0, "pool", 1)'
    BY <1>1, <1>2, <1>3, NotNone DEF IsAt, Kinds, Whose, Ringed, TypeOK
  <2>2. ASSUME NEW m \in Msgs \ {m0}, NEW k, NEW w, IsAt(m, k, w)
        PROVE  IsAt(m, k, w)'
    BY <1>1, <1>2, <1>0, <2>2, NotNone DEF IsAt, Kinds, Whose, Ringed, TypeOK
  <2> QED
    BY <1>2, <2>1, <2>2, Moved DEF IInv
<1>7. OnceEach' /\ Known'
  BY <1>1 DEF IInv, OnceEach, Known
<1>8. MaySend'
  BY <1>1, <1>2 DEF IInv, MaySend, TypeOK
<1> QED
  BY <1>5, <1>6, <1>7, <1>8 DEF IInv

LEMMA ReceiveKeeps ==
    ASSUME IInv, NEW cl \in Clients, NEW c \in Cores, Receive(cl, c)
    PROVE  IInv'
<1>1. /\ held[cl] = None
      /\ wait' = [wait EXCEPT ![cl] = [core |-> c, left |-> Polls]]
      /\ UNCHANGED <<pool, to_me, to_back, held, handled, id, sent, owed, got, lost, crashes>>
  BY DEF Receive, Idle
<1>2. TypeOK'
  <2>1. [core |-> c, left |-> Polls] \in [core : Cores, left : 1 .. Polls]
    BY IpcAssumption
  <2>2. wait' \in [Clients -> {None} \cup [core : Cores, left : 1 .. Polls]]
    BY <1>1, <2>1 DEF IInv, TypeOK
  <2> QED
    BY <1>1, <2>2 DEF IInv, TypeOK
<1>3. Owned' /\ OnceEach' /\ Known'
  BY <1>1 DEF IInv, Owned, IsAt, OnceEach, Known
<1>4. MaySend'
  BY <1>1 DEF IInv, TypeOK, MaySend
<1> QED
  BY <1>2, <1>3, <1>4 DEF IInv

\* A poll that finds no answer.
LEMMA PollInVainKeeps ==
    ASSUME IInv, NEW cl \in Clients, Poll(cl), to_back[wait[cl].core] = <<>>
    PROVE  IInv'
<1>1. /\ wait[cl] # None
      /\ wait' = [wait EXCEPT ![cl] =
                    IF wait[cl].left = 1 THEN None
                    ELSE [wait[cl] EXCEPT !.left = wait[cl].left - 1]]
      /\ UNCHANGED <<pool, to_me, to_back, held, handled, id, sent, owed, got, lost, crashes>>
  BY DEF Poll
<1>2. TypeOK'
  <2>1. wait[cl] \in [core : Cores, left : 1 .. Polls]
    BY <1>1 DEF IInv, TypeOK
  <2>2. wait[cl].left # 1 =>
            [wait[cl] EXCEPT !.left = wait[cl].left - 1] \in [core : Cores, left : 1 .. Polls]
    BY <2>1, IpcAssumption
  <2> QED
    BY <1>1, <2>2 DEF IInv, TypeOK
<1>3. Owned' /\ OnceEach' /\ Known'
  BY <1>1 DEF IInv, Owned, IsAt, OnceEach, Known
<1>4. MaySend'
  BY <1>1 DEF IInv, TypeOK, MaySend
<1> QED
  BY <1>2, <1>3, <1>4 DEF IInv

\* A poll that takes an answer.
Taken(cl, c, m0) ==
    /\ c \in Cores /\ wait[cl] # None /\ held[cl] = None
    /\ m0 \in Msgs /\ IsAt(m0, "to_back", c)
    /\ Tail(to_back[c]) \in Seq(Msgs) /\ IsInjective(Tail(to_back[c]))
    /\ Range(Tail(to_back[c])) = Range(to_back[c]) \ {m0}
    /\ Len(Tail(to_back[c])) = Len(to_back[c]) - 1 /\ Len(to_back[c]) \in Nat
    /\ to_back' = [to_back EXCEPT ![c] = Tail(to_back[c])]
    /\ wait' = [wait EXCEPT ![cl] = None]
    /\ held' = [held EXCEPT ![cl] = m0]
    /\ owed' = [owed EXCEPT ![cl] = IF owed[cl] = 0 THEN 0 ELSE owed[cl] - 1]
    /\ got' = IF id[m0].client = cl THEN [got EXCEPT ![cl][c] = id[m0].n] ELSE got
    /\ UNCHANGED <<pool, to_me, handled, id, sent, lost, crashes>>

LEMMA PollTakes ==
    ASSUME IInv, NEW cl \in Clients, NEW c, c = wait[cl].core, Poll(cl), to_back[c] # <<>>,
           NEW m0, m0 = Head(to_back[c])
    PROVE  Taken(cl, c, m0)
<1>1. wait[cl] # None
  BY DEF Poll
<1>2. c \in Cores /\ held[cl] = None
  BY <1>1 DEF IInv, TypeOK, MaySend
<1>3. to_back[c] \in Seq(Msgs) /\ IsInjective(to_back[c])
  BY <1>2 DEF IInv, TypeOK, OnceEach
<1>4. /\ m0 \in Msgs /\ m0 \in Range(to_back[c])
      /\ Tail(to_back[c]) \in Seq(Msgs) /\ IsInjective(Tail(to_back[c]))
      /\ Range(Tail(to_back[c])) = Range(to_back[c]) \ {m0}
      /\ Len(Tail(to_back[c])) = Len(to_back[c]) - 1 /\ Len(to_back[c]) \in Nat
  BY <1>3, DequeueFacts
<1>5. IsAt(m0, "to_back", c)
  BY <1>2, <1>4 DEF IInv, Owned, IsAt
<1>6. /\ to_back' = [to_back EXCEPT ![c] = Tail(to_back[c])]
      /\ wait' = [wait EXCEPT ![cl] = None]
      /\ Take(cl, c, m0)
      /\ UNCHANGED <<pool, to_me, handled, id, sent, lost, crashes>>
  BY <1>1 DEF Poll
<1> QED
  BY <1>1, <1>2, <1>4, <1>5, <1>6 DEF Take, Taken

LEMMA PollKeeps ==
    ASSUME IInv, NEW cl \in Clients, Poll(cl)
    PROVE  IInv'
<1>1. CASE to_back[wait[cl].core] = <<>>
  BY <1>1, PollInVainKeeps
<1>2. CASE to_back[wait[cl].core] # <<>>
  <2>1. PICK c, m0 : c = wait[cl].core /\ m0 = Head(to_back[c]) /\ to_back[c] # <<>>
    BY <1>2
  <2>0. Taken(cl, c, m0)
    BY <2>1, PollTakes
  <2>2. /\ c \in Cores /\ wait[cl] # None /\ held[cl] = None
        /\ m0 \in Msgs /\ IsAt(m0, "to_back", c)
        /\ Tail(to_back[c]) \in Seq(Msgs) /\ IsInjective(Tail(to_back[c]))
        /\ Range(Tail(to_back[c])) = Range(to_back[c]) \ {m0}
        /\ Len(Tail(to_back[c])) = Len(to_back[c]) - 1 /\ Len(to_back[c]) \in Nat
        /\ to_back' = [to_back EXCEPT ![c] = Tail(to_back[c])]
        /\ wait' = [wait EXCEPT ![cl] = None]
        /\ held' = [held EXCEPT ![cl] = m0]
        /\ owed' = [owed EXCEPT ![cl] = IF owed[cl] = 0 THEN 0 ELSE owed[cl] - 1]
        /\ got' = IF id[m0].client = cl THEN [got EXCEPT ![cl][c] = id[m0].n] ELSE got
        /\ UNCHANGED <<pool, to_me, handled, id, sent, lost, crashes>>
    BY <2>0 DEF Taken
  <2>3. TypeOK
    BY DEF IInv
  <2>4. TypeOK'
    <3>1. to_back' \in [Cores -> Seq(Msgs)]
      BY <2>2, <2>3 DEF TypeOK
    <3>2. \A d \in Cores : Len(to_me'[d]) < RingSize /\ Len(to_back'[d]) < RingSize
      BY <2>2, <2>3, IpcAssumption DEF TypeOK
    <3>3. owed' \in [Clients -> 0 .. Window]
      <4>1. (IF owed[cl] = 0 THEN 0 ELSE owed[cl] - 1) \in 0 .. Window
        BY <2>3, IpcAssumption DEF TypeOK
      <4> QED
        BY <2>2, <2>3, <4>1 DEF TypeOK
    <3>4. got' \in [Clients -> [Cores -> 0 .. MaxSends]]
      <4>1. id[m0].n \in 0 .. MaxSends
        BY <2>2, <2>3 DEF TypeOK, Ids
      <4> QED
        BY <2>2, <2>3, <4>1 DEF TypeOK
    <3> QED
      BY <2>2, <2>3, <3>1, <3>2, <3>3, <3>4 DEF TypeOK
  <2>5. Owned'
    <3>1. IsAt(m0, "held", cl)'
      BY <2>2, <2>3, NotNone DEF IsAt, Kinds, Whose, Ringed, TypeOK
    <3>2. ASSUME NEW m \in Msgs \ {m0}, NEW k, NEW w, IsAt(m, k, w)
          PROVE  IsAt(m, k, w)'
      BY <2>2, <2>3, <3>2, NotNone DEF IsAt, Kinds, Whose, Ringed, TypeOK
    <3> QED
      BY <2>2, <3>1, <3>2, Moved DEF IInv
  <2>6. OnceEach'
    BY <2>2, <2>3 DEF IInv, OnceEach, TypeOK
  <2>7. Known'
    BY <2>2, <2>3 DEF IInv, Known, TypeOK
  <2>8. MaySend'
    <3> SUFFICES ASSUME NEW x \in Clients, held'[x] # None
                 PROVE  /\ wait'[x] = None
                        /\ id[held'[x]] = NoId => sent[x] < MaxSends /\ owed'[x] < Window
      BY <2>2 DEF MaySend
    <3>1. CASE x = cl
      <4>1. held'[x] = m0 /\ wait'[x] = None
        BY <2>2, <2>3, <3>1 DEF TypeOK
      <4>2. id[m0].client # None
        BY <2>2 DEF IInv, Known, IsAt
      <4> QED
        BY <4>1, <4>2 DEF NoId
    <3>2. CASE x # cl
      BY <2>2, <2>3, <3>2 DEF IInv, MaySend, TypeOK
    <3> QED
      BY <3>1, <3>2
  <2> QED
    BY <2>4, <2>5, <2>6, <2>7, <2>8 DEF IInv
<1> QED
  BY <1>1, <1>2

LEMMA CrashKeeps ==
    ASSUME IInv, NEW cl \in Clients, Crash(cl)
    PROVE  IInv'
<1>1. /\ crashes < MaxCrashes /\ crashes' = crashes + 1
      /\ lost' = lost \cup ({held[cl]} \ {None})
      /\ held' = [held EXCEPT ![cl] = None]
      /\ wait' = [wait EXCEPT ![cl] = None]
      /\ owed' = [owed EXCEPT ![cl] = 0]
      /\ UNCHANGED <<pool, to_me, to_back, handled, id, sent, got>>
  BY DEF Crash
<1>2. TypeOK
  BY DEF IInv
<1>3. TypeOK'
  <2>1. crashes' \in 0 .. MaxCrashes /\ 0 \in 0 .. Window
    BY <1>1, <1>2, IpcAssumption DEF TypeOK
  <2>2. lost' \subseteq Msgs
    BY <1>1, <1>2 DEF TypeOK
  <2> QED
    BY <1>1, <1>2, <2>1, <2>2 DEF TypeOK
<1>4. Owned'
  <2>1. CASE held[cl] = None
    <3>1. held' = held /\ lost' = lost
      BY <1>1, <1>2, <2>1 DEF TypeOK
    <3> QED
      BY <1>1, <3>1 DEF IInv, Owned, IsAt
  <2>2. CASE held[cl] # None
    <3>0. PICK m0 \in Msgs : held[cl] = m0
      BY <1>2, <2>2 DEF TypeOK
    <3>1. IsAt(m0, "held", cl)
      BY <3>0 DEF IInv, Owned, IsAt
    <3>2. IsAt(m0, "lost", 1)'
      BY <1>1, <1>2, <3>0, <3>1, NotNone DEF IsAt, Kinds, Whose, Ringed, TypeOK
    <3>3. ASSUME NEW m \in Msgs \ {m0}, NEW k, NEW w, IsAt(m, k, w)
          PROVE  IsAt(m, k, w)'
      BY <1>1, <1>2, <3>0, <3>3, NotNone DEF IsAt, Kinds, Whose, Ringed, TypeOK
    <3> QED
      BY <3>2, <3>3, Moved DEF IInv
  <2> QED
    BY <2>1, <2>2
<1>5. OnceEach' /\ Known'
  BY <1>1 DEF IInv, OnceEach, Known
<1>6. MaySend'
  BY <1>1, <1>2 DEF IInv, MaySend, TypeOK
<1> QED
  BY <1>3, <1>4, <1>5, <1>6 DEF IInv

LEMMA RcvMsgKeeps ==
    ASSUME IInv, NEW c \in Cores, RcvMsg(c)
    PROVE  IInv'
<1>1. PICK m0 : m0 = Head(to_me[c])
  OBVIOUS
<1>2. /\ handled[c] = None /\ to_me[c] # <<>>
      /\ handled' = [handled EXCEPT ![c] = m0]
      /\ to_me' = [to_me EXCEPT ![c] = Tail(to_me[c])]
      /\ UNCHANGED <<pool, to_back, held, wait, id, sent, owed, got, lost, crashes>>
  BY <1>1 DEF RcvMsg
<1>3. TypeOK /\ to_me[c] \in Seq(Msgs) /\ IsInjective(to_me[c])
  BY DEF IInv, TypeOK, OnceEach
<1>4. /\ m0 \in Msgs /\ m0 \in Range(to_me[c])
      /\ Tail(to_me[c]) \in Seq(Msgs) /\ IsInjective(Tail(to_me[c]))
      /\ Range(Tail(to_me[c])) = Range(to_me[c]) \ {m0}
      /\ Len(Tail(to_me[c])) = Len(to_me[c]) - 1 /\ Len(to_me[c]) \in Nat
  BY <1>1, <1>2, <1>3, DequeueFacts
<1>5. IsAt(m0, "to_me", c)
  BY <1>4 DEF IInv, Owned, IsAt
<1>6. TypeOK'
  <2>1. \A d \in Cores : Len(to_me'[d]) < RingSize
    BY <1>2, <1>3, <1>4, IpcAssumption DEF TypeOK
  <2> QED
    BY <1>2, <1>3, <1>4, <2>1 DEF TypeOK
<1>7. Owned'
  <2>1. IsAt(m0, "handled", c)'
    BY <1>2, <1>3, <1>4, <1>5, NotNone DEF IsAt, Kinds, Whose, Ringed, TypeOK
  <2>2. ASSUME NEW m \in Msgs \ {m0}, NEW k, NEW w, IsAt(m, k, w)
        PROVE  IsAt(m, k, w)'
    BY <1>2, <1>3, <1>4, <2>2, NotNone DEF IsAt, Kinds, Whose, Ringed, TypeOK
  <2> QED
    BY <1>4, <2>1, <2>2, Moved DEF IInv
<1>8. OnceEach'
  BY <1>2, <1>3, <1>4 DEF IInv, OnceEach, TypeOK
<1>9. Known'
  BY <1>2, <1>3, <1>4 DEF IInv, Known, TypeOK
<1>10. MaySend'
  BY <1>2 DEF IInv, MaySend
<1> QED
  BY <1>6, <1>7, <1>8, <1>9, <1>10 DEF IInv

LEMMA SendResponseKeeps ==
    ASSUME IInv, NEW c \in Cores, SendResponse(c)
    PROVE  IInv'
<1>1. PICK m0 \in Msgs : handled[c] = m0
  BY DEF IInv, TypeOK, SendResponse
<1>2. /\ HasRoom(to_back[c])
      /\ to_back' = [to_back EXCEPT ![c] = Append(to_back[c], m0)]
      /\ handled' = [handled EXCEPT ![c] = None]
      /\ UNCHANGED <<pool, to_me, held, wait, id, sent, owed, got, lost, crashes>>
  BY <1>1 DEF SendResponse
<1>3. TypeOK /\ to_back[c] \in Seq(Msgs) /\ IsInjective(to_back[c])
  BY DEF IInv, TypeOK, OnceEach
<1>4. IsAt(m0, "handled", c)
  BY <1>1 DEF IInv, Owned, IsAt
<1>5. /\ Append(to_back[c], m0) \in Seq(Msgs)
      /\ Len(Append(to_back[c], m0)) = Len(to_back[c]) + 1
      /\ Range(Append(to_back[c], m0)) = Range(to_back[c]) \cup {m0}
      /\ IsInjective(Append(to_back[c], m0))
  <2>1. m0 \notin Range(to_back[c])
    BY <1>4 DEF IsAt
  <2> QED
    BY <1>3, <2>1, EnqueueFacts
<1>6. TypeOK'
  <2>1. \A d \in Cores : Len(to_back'[d]) < RingSize
    BY <1>2, <1>3, <1>5, IpcAssumption DEF TypeOK, HasRoom
  <2> QED
    BY <1>2, <1>3, <1>5, <2>1 DEF TypeOK
<1>7. Owned'
  <2>1. IsAt(m0, "to_back", c)'
    BY <1>2, <1>3, <1>4, <1>5, NotNone DEF IsAt, Kinds, Whose, Ringed, TypeOK
  <2>2. ASSUME NEW m \in Msgs \ {m0}, NEW k, NEW w, IsAt(m, k, w)
        PROVE  IsAt(m, k, w)'
    BY <1>1, <1>2, <1>3, <1>5, <2>2, NotNone DEF IsAt, Kinds, Whose, Ringed, TypeOK
  <2> QED
    BY <2>1, <2>2, Moved DEF IInv
<1>8. OnceEach'
  BY <1>2, <1>3, <1>5 DEF IInv, OnceEach, TypeOK
<1>9. Known'
  BY <1>1, <1>2, <1>3, <1>5, NotNone DEF IInv, Known, TypeOK
<1>10. MaySend'
  BY <1>2 DEF IInv, MaySend
<1> QED
  BY <1>6, <1>7, <1>8, <1>9, <1>10 DEF IInv

LEMMA ForgetKeeps ==
    ASSUME IInv, NEW c \in Cores, Forget(c)
    PROVE  IInv'
<1>1. PICK m0 \in Msgs : handled[c] = m0
  BY DEF IInv, TypeOK, Forget
<1>2. /\ lost' = lost \cup {m0}
      /\ handled' = [handled EXCEPT ![c] = None]
      /\ UNCHANGED <<pool, to_me, to_back, held, wait, id, sent, owed, got, crashes>>
  BY <1>1 DEF Forget
<1>3. TypeOK
  BY DEF IInv
<1>4. IsAt(m0, "handled", c)
  BY <1>1 DEF IInv, Owned, IsAt
<1>5. TypeOK'
  BY <1>2, <1>3 DEF TypeOK
<1>6. Owned'
  <2>1. IsAt(m0, "lost", 1)'
    BY <1>2, <1>3, <1>4, NotNone DEF IsAt, Kinds, Whose, Ringed, TypeOK
  <2>2. ASSUME NEW m \in Msgs \ {m0}, NEW k, NEW w, IsAt(m, k, w)
        PROVE  IsAt(m, k, w)'
    BY <1>1, <1>2, <1>3, <2>2, NotNone DEF IsAt, Kinds, Whose, Ringed, TypeOK
  <2> QED
    BY <2>1, <2>2, Moved DEF IInv
<1>7. OnceEach' /\ MaySend'
  BY <1>2 DEF IInv, OnceEach, MaySend
<1>8. Known'
  BY <1>2, <1>3, NotNone DEF IInv, Known, TypeOK
<1> QED
  BY <1>5, <1>6, <1>7, <1>8 DEF IInv

LEMMA NextIInv == IInv /\ [Next]_vars => IInv'
<1> SUFFICES ASSUME IInv, [Next]_vars PROVE IInv'
  OBVIOUS
<1>1. ASSUME NEW cl \in Clients, Alloc(cl) \/ Free(cl) \/ Poll(cl) \/ Crash(cl)
      PROVE  IInv'
  BY <1>1, AllocKeeps, FreeKeeps, PollKeeps, CrashKeeps
<1>2. ASSUME NEW cl \in Clients, NEW c \in Cores, Send(cl, c) \/ Receive(cl, c)
      PROVE  IInv'
  BY <1>2, SendKeeps, ReceiveKeeps
<1>3. ASSUME NEW c \in Cores, RcvMsg(c) \/ SendResponse(c) \/ Forget(c)
      PROVE  IInv'
  BY <1>3, RcvMsgKeeps, SendResponseKeeps, ForgetKeeps
<1>4. CASE UNCHANGED vars
  BY <1>4 DEF vars, IInv, TypeOK, Owned, IsAt, OnceEach, Known, MaySend
<1> QED
  BY <1>1, <1>2, <1>3, <1>4 DEF Next

LEMMA Invariant == Spec => []IInv
BY InitIInv, NextIInv, PTL DEF Spec

(***************************************************************************)
(* The types of Ipc hold always; in particular no ring ever holds more     *)
(* than its size less one, whoever enqueues (ipc.c:155-171,                *)
(* core.c:510-514).                                                        *)
(***************************************************************************)
THEOREM TypeCorrect == Spec => []TypeOK
<1>1. IInv => TypeOK
  BY DEF IInv
<1> QED
  BY <1>1, Invariant, PTL

-----------------------------------------------------------------------------
(***************************************************************************)
(* One owner.                                                              *)
(***************************************************************************)
LEMMA OnePlace ==
    ASSUME NEW m \in Msgs, NEW k, NEW w, IsAt(m, k, w)
    PROVE  Places(m) = {<<k, w>>}
<1>1. ASSUME NEW p \in Places(m) PROVE p = <<k, w>>
  <2>1. CASE p \in {"pool"} \X {n \in {1} : m \in pool}
    BY <2>1 DEF IsAt, Whose, Ringed
  <2>2. CASE p \in {"lost"} \X {n \in {1} : m \in lost}
    BY <2>2 DEF IsAt, Whose, Ringed
  <2>3. CASE p \in {"to_me"} \X {c \in Cores : m \in Range(to_me[c])}
    BY <2>3 DEF IsAt
  <2>4. CASE p \in {"to_back"} \X {c \in Cores : m \in Range(to_back[c])}
    BY <2>4 DEF IsAt
  <2>5. CASE p \in {"held"} \X {cl \in Clients : held[cl] = m}
    BY <2>5 DEF IsAt
  <2>6. CASE p \in {"handled"} \X {c \in Cores : handled[c] = m}
    BY <2>6 DEF IsAt
  <2> QED
    BY <1>1, <2>1, <2>2, <2>3, <2>4, <2>5, <2>6 DEF Places
<1>2. <<k, w>> \in Places(m)
  <2>1. CASE k = "pool"
    BY <2>1 DEF IsAt, Whose, Ringed, Places
  <2>2. CASE k = "lost"
    BY <2>2 DEF IsAt, Whose, Ringed, Places
  <2>3. CASE k = "to_me"
    BY <2>3 DEF IsAt, Whose, Ringed, Places
  <2>4. CASE k = "to_back"
    BY <2>4 DEF IsAt, Whose, Ringed, Places
  <2>5. CASE k = "held"
    BY <2>5 DEF IsAt, Whose, Ringed, Places
  <2>6. CASE k = "handled"
    BY <2>6 DEF IsAt, Whose, Ringed, Places
  <2> QED
    BY <2>1, <2>2, <2>3, <2>4, <2>5, <2>6 DEF IsAt, Kinds, Ringed
<1> QED
  BY <1>1, <1>2

(***************************************************************************)
(* Every message has exactly one owner, through late answers, full rings   *)
(* and killed clients (ipc.c:137-198, core.c:495-514).                     *)
(***************************************************************************)
THEOREM EachHasOneOwner == Spec => []OneOwner
<1>1. IInv => OneOwner
  <2> SUFFICES ASSUME IInv, NEW m \in Msgs PROVE Cardinality(Places(m)) = 1
    BY DEF OneOwner, IInv, OnceEach
  <2>1. PICK k, w : IsAt(m, k, w)
    BY DEF IInv, Owned
  <2> QED
    BY <2>1, OnePlace, FS_Singleton
<1> QED
  BY <1>1, Invariant, PTL

-----------------------------------------------------------------------------
(***************************************************************************)
(* Room for answers.  There are never more messages on their way to a core *)
(* and back than requests that clients count as open, and Window for each  *)
(* client killed, so that the ring of answers of a core that has a message *)
(* is never full if all these fit.                                         *)
(***************************************************************************)
InFlight ==
    {m \in Msgs : \E c \in Cores :
        m \in Range(to_me[c]) \/ m \in Range(to_back[c]) \/ handled[c] = m}

\* The open requests of each client, numbered.
Open == {t \in Clients \X (1 .. Window) : t[2] <= owed[t[1]]}

Bounded == Cardinality(InFlight) <= Cardinality(Open) + Window * crashes

LEMMA UpTo ==
    ASSUME NEW n \in Nat
    PROVE  IsFiniteSet(1 .. n) /\ Cardinality(1 .. n) = n
BY FS_Interval

LEMMA Finite ==
    /\ IsFiniteSet(InFlight) /\ Cardinality(InFlight) \in Nat
    /\ IsFiniteSet(Open) /\ Cardinality(Open) \in Nat
    /\ Cardinality(Clients) \in Nat
    /\ Cardinality(Open) <= Cardinality(Clients) * Window
<1>1. InFlight \in SUBSET Msgs /\ IsFiniteSet(Msgs)
  BY IpcAssumption DEF InFlight
<1>2. /\ IsFiniteSet(1 .. Window) /\ Cardinality(1 .. Window) = Window
      /\ IsFiniteSet(Clients)
  BY IpcAssumption, UpTo
<1>3. /\ IsFiniteSet(Clients \X (1 .. Window))
      /\ Cardinality(Clients \X (1 .. Window)) = Cardinality(Clients) * Window
  BY <1>2, FS_Product
<1>4. Open \in SUBSET (Clients \X (1 .. Window))
  BY DEF Open
<1> QED
  BY <1>1, <1>2, <1>3, <1>4, FS_Subset, FS_CardinalityType

LEMMA InitBounded == Init => Bounded
<1> SUFFICES ASSUME Init PROVE Bounded
  OBVIOUS
<1>1. InFlight = {}
  <2>1. Range(<<>>) = {}
    BY DEF Range
  <2> QED
    BY <2>1, NotNone DEF Init, InFlight
<1>2. crashes = 0 /\ Window \in Nat
  BY IpcAssumption DEF Init
<1> QED
  BY <1>1, <1>2, Finite, FS_EmptySet DEF Bounded

LEMMA SendBounded ==
    ASSUME IInv, Bounded, NEW cl \in Clients, NEW c \in Cores, Send(cl, c)
    PROVE  Bounded'
<1>1. PICK m0 \in Msgs : held[cl] = m0
  BY DEF IInv, TypeOK, Send
<1>2. /\ m0 # None /\ id[m0] = NoId
      /\ to_me' = [to_me EXCEPT ![c] = Append(to_me[c], m0)]
      /\ owed' = [owed EXCEPT ![cl] = owed[cl] + 1]
      /\ UNCHANGED <<to_back, handled, crashes>>
  BY <1>1 DEF Send
<1>3. TypeOK /\ owed[cl] \in 0 .. Window /\ owed[cl] < Window /\ Window \in Nat
  BY <1>1, <1>2, IpcAssumption DEF IInv, TypeOK, MaySend
<1>4. InFlight' = InFlight \cup {m0}
  <2>1. to_me[c] \in Seq(Msgs)
    BY <1>3 DEF TypeOK
  <2>2. Range(Append(to_me[c], m0)) = Range(to_me[c]) \cup {m0}
    BY <2>1, EnqueueFacts
  <2> QED
    BY <1>2, <1>3, <2>2 DEF InFlight, TypeOK
<1>5. PICK t : t = <<cl, owed[cl] + 1>>
  OBVIOUS
<1>6. Open' = Open \cup {t} /\ t \notin Open
  <2>1. /\ owed \in [Clients -> 0 .. Window]
        /\ \A x \in Clients : owed'[x] = IF x = cl THEN owed[cl] + 1 ELSE owed[x]
    BY <1>2, <1>3 DEF TypeOK
  <2>2. \A i \in 1 .. Window : i <= owed[cl] + 1 <=> i <= owed[cl] \/ i = owed[cl] + 1
    BY <1>3
  <2>3. owed[cl] + 1 \in 1 .. Window /\ ~(owed[cl] + 1 <= owed[cl])
    BY <1>3
  <2>4. ASSUME NEW x \in Clients, NEW i \in 1 .. Window
        PROVE  i <= owed'[x] <=> (i <= owed[x] \/ <<x, i>> = t)
    BY <1>5, <2>1, <2>2
  <2>5. t \in Clients \X (1 .. Window) /\ t \notin Open
    BY <1>5, <2>3 DEF Open
  <2> QED
    BY <2>4, <2>5 DEF Open
<1>7. /\ Cardinality(InFlight') <= Cardinality(InFlight) + 1
      /\ Cardinality(InFlight') \in Nat
  <2>1. IsFiniteSet(InFlight) /\ Cardinality(InFlight) \in Nat
    BY Finite
  <2>2. Cardinality(InFlight \cup {m0})
            = IF m0 \in InFlight THEN Cardinality(InFlight) ELSE Cardinality(InFlight) + 1
    BY <2>1, FS_AddElement
  <2> QED
    BY <1>4, <2>1, <2>2
<1>8. Cardinality(Open') = Cardinality(Open) + 1
  BY <1>6, Finite, FS_AddElement
<1>9. PICK u \in Nat : u = Window * crashes
  BY <1>3 DEF TypeOK
<1>10. /\ Cardinality(InFlight) <= Cardinality(Open) + u
       /\ Cardinality(InFlight) \in Nat /\ Cardinality(Open) \in Nat
  BY <1>9, Finite DEF Bounded
<1>11. Cardinality(InFlight') <= Cardinality(Open') + u
  BY <1>7, <1>8, <1>10
<1> QED
  BY <1>2, <1>9, <1>11 DEF Bounded

LEMMA PollBounded ==
    ASSUME IInv, Bounded, NEW cl \in Clients, Poll(cl)
    PROVE  Bounded'
<1>1. CASE to_back[wait[cl].core] = <<>>
  BY <1>1 DEF Poll, Bounded, InFlight, Open
<1>2. CASE to_back[wait[cl].core] # <<>>
  <2>1. PICK c, m0 : c = wait[cl].core /\ m0 = Head(to_back[c]) /\ to_back[c] # <<>>
    BY <1>2
  <2>2. Taken(cl, c, m0)
    BY <2>1, PollTakes
  <2>3. /\ c \in Cores /\ m0 \in Msgs /\ IsAt(m0, "to_back", c)
        /\ Range(Tail(to_back[c])) = Range(to_back[c]) \ {m0}
        /\ to_back' = [to_back EXCEPT ![c] = Tail(to_back[c])]
        /\ owed' = [owed EXCEPT ![cl] = IF owed[cl] = 0 THEN 0 ELSE owed[cl] - 1]
        /\ UNCHANGED <<to_me, handled, crashes>>
    BY <2>2 DEF Taken
  <2>4. TypeOK /\ owed[cl] \in 0 .. Window /\ Window \in Nat
    BY IpcAssumption DEF IInv, TypeOK
  <2>5. InFlight' = InFlight \ {m0} /\ m0 \in InFlight
    <3>1. /\ \A d \in Cores : m0 \notin Range(to_me[d]) /\ handled[d] # m0
          /\ \A d \in Cores : m0 \in Range(to_back[d]) <=> d = c
      BY <2>3 DEF IsAt
    <3>2. \A d \in Cores : Range(to_back'[d]) = Range(to_back[d]) \ {m0}
      BY <2>3, <2>4, <3>1 DEF TypeOK
    <3> QED
      BY <2>3, <3>1, <3>2 DEF InFlight
  <2>6. PICK t : t = <<cl, owed[cl]>>
    OBVIOUS
  <2>7. Open' = Open \ {t}
    BY <2>3, <2>4, <2>6 DEF TypeOK, Open
  <2>8. Cardinality(InFlight') = Cardinality(InFlight) - 1
    BY <2>5, Finite, FS_RemoveElement
  <2>9. Cardinality(Open') >= Cardinality(Open) - 1 /\ Cardinality(Open') \in Nat
    BY <2>7, Finite, FS_RemoveElement, FS_CardinalityType
  <2>10. PICK u \in Nat : u = Window * crashes
    BY <2>4 DEF TypeOK
  <2>11. Cardinality(InFlight') <= Cardinality(Open') + u
    BY <2>8, <2>9, <2>10, Finite DEF Bounded
  <2> QED
    BY <2>3, <2>10, <2>11 DEF Bounded
<1> QED
  BY <1>1, <1>2

LEMMA CrashBounded ==
    ASSUME IInv, Bounded, NEW cl \in Clients, Crash(cl)
    PROVE  Bounded'
<1>1. /\ crashes' = crashes + 1 /\ owed' = [owed EXCEPT ![cl] = 0]
      /\ UNCHANGED <<to_me, to_back, handled>>
  BY DEF Crash
<1>2. TypeOK /\ Window \in Nat /\ crashes \in Nat
  BY IpcAssumption DEF IInv, TypeOK
<1>3. PICK gone : gone = {cl} \X (1 .. Window)
  OBVIOUS
<1>4. IsFiniteSet(gone) /\ Cardinality(gone) = Window
  <2>1. /\ IsFiniteSet(1 .. Window) /\ Cardinality(1 .. Window) = Window
        /\ IsFiniteSet({cl}) /\ Cardinality({cl}) = 1
    BY <1>2, UpTo, FS_Singleton
  <2>2. IsFiniteSet(gone) /\ Cardinality(gone) = Cardinality({cl}) * Cardinality(1 .. Window)
    BY <1>3, <2>1, FS_Product
  <2> QED
    BY <1>2, <2>1, <2>2
<1>5. Open' = Open \ gone
  BY <1>1, <1>2, <1>3 DEF TypeOK, Open
<1>6. Cardinality(Open') >= Cardinality(Open) - Window /\ Cardinality(Open') \in Nat
  <2>1. /\ IsFiniteSet(Open') /\ Cardinality(Open') = Cardinality(Open) - Cardinality(Open \cap gone)
    BY <1>5, Finite, FS_Difference
  <2>2. Cardinality(Open \cap gone) <= Window /\ Cardinality(Open \cap gone) \in Nat
    BY <1>4, FS_Subset, FS_CardinalityType
  <2> QED
    BY <1>2, <2>1, <2>2, Finite, FS_CardinalityType
<1>7. InFlight' = InFlight
  BY <1>1 DEF InFlight
<1>8. PICK u \in Nat : u = Window * crashes /\ Window * crashes' = u + Window
  BY <1>1, <1>2
<1>9. Cardinality(InFlight) <= Cardinality(Open') + u + Window
  BY <1>2, <1>6, <1>8, Finite DEF Bounded
<1>10. Cardinality(InFlight') <= Cardinality(Open') + (u + Window)
  BY <1>2, <1>6, <1>7, <1>8, <1>9
<1> QED
  BY <1>8, <1>10 DEF Bounded

LEMMA RcvMsgBounded ==
    ASSUME IInv, Bounded, NEW c \in Cores, RcvMsg(c)
    PROVE  Bounded'
<1>1. PICK m0 : m0 = Head(to_me[c])
  OBVIOUS
<1>2. /\ handled[c] = None /\ to_me[c] # <<>>
      /\ handled' = [handled EXCEPT ![c] = m0]
      /\ to_me' = [to_me EXCEPT ![c] = Tail(to_me[c])]
      /\ UNCHANGED <<to_back, owed, crashes>>
  BY <1>1 DEF RcvMsg
<1>3. TypeOK /\ to_me[c] \in Seq(Msgs) /\ IsInjective(to_me[c])
  BY DEF IInv, TypeOK, OnceEach
<1>4. /\ m0 \in Msgs /\ m0 \in Range(to_me[c])
      /\ Range(Tail(to_me[c])) = Range(to_me[c]) \ {m0}
  BY <1>1, <1>2, <1>3, DequeueFacts
<1>5. InFlight' = InFlight
  <2>1. \A d \in Cores : Range(to_me'[d]) = IF d = c THEN Range(to_me[c]) \ {m0} ELSE Range(to_me[d])
    BY <1>2, <1>3, <1>4 DEF TypeOK
  <2>2. \A d \in Cores : handled'[d] = IF d = c THEN m0 ELSE handled[d]
    BY <1>2, <1>3 DEF TypeOK
  <2>3. ASSUME NEW m \in Msgs PROVE m \in InFlight' <=> m \in InFlight
    <3>1. CASE m = m0
      BY <1>4, <2>2, <3>1 DEF InFlight
    <3>2. CASE m # m0
      BY <1>2, <2>1, <2>2, <3>2, NotNone DEF InFlight
    <3> QED
      BY <3>1, <3>2
  <2> QED
    BY <2>3 DEF InFlight
<1> QED
  BY <1>2, <1>5 DEF Bounded, Open

LEMMA SendResponseBounded ==
    ASSUME IInv, Bounded, NEW c \in Cores, SendResponse(c)
    PROVE  Bounded'
<1>1. PICK m0 \in Msgs : handled[c] = m0
  BY DEF IInv, TypeOK, SendResponse
<1>2. /\ to_back' = [to_back EXCEPT ![c] = Append(to_back[c], m0)]
      /\ handled' = [handled EXCEPT ![c] = None]
      /\ UNCHANGED <<to_me, owed, crashes>>
  BY <1>1 DEF SendResponse
<1>3. TypeOK /\ to_back[c] \in Seq(Msgs)
  BY DEF IInv, TypeOK
<1>4. Range(Append(to_back[c], m0)) = Range(to_back[c]) \cup {m0}
  BY <1>3, EnqueueFacts
<1>5. InFlight' = InFlight
  BY <1>1, <1>2, <1>3, <1>4, NotNone DEF InFlight, TypeOK
<1> QED
  BY <1>2, <1>5 DEF Bounded, Open

LEMMA ForgetBounded ==
    ASSUME IInv, Bounded, NEW c \in Cores, Forget(c)
    PROVE  Bounded'
<1>1. /\ handled' = [handled EXCEPT ![c] = None]
      /\ UNCHANGED <<to_me, to_back, owed, crashes>>
  BY DEF Forget
<1>2. InFlight' \in SUBSET InFlight
  BY <1>1, NotNone DEF InFlight, IInv, TypeOK
<1>3. Cardinality(InFlight') <= Cardinality(InFlight) /\ Cardinality(InFlight') \in Nat
  BY <1>2, Finite, FS_Subset, FS_CardinalityType
<1>4. Open' = Open /\ crashes' = crashes
  BY <1>1 DEF Open
<1>5. PICK u \in Nat : u = Window * crashes
  BY IpcAssumption DEF IInv, TypeOK
<1>6. Cardinality(InFlight') <= Cardinality(Open) + u
  BY <1>3, <1>5, Finite DEF Bounded
<1> QED
  BY <1>4, <1>5, <1>6 DEF Bounded

LEMMA NextBounded == IInv /\ Bounded /\ [Next]_vars => Bounded'
<1> SUFFICES ASSUME IInv, Bounded, [Next]_vars PROVE Bounded'
  OBVIOUS
<1>1. ASSUME NEW cl \in Clients, Alloc(cl) \/ Free(cl) PROVE Bounded'
  BY <1>1 DEF Alloc, Free, Bounded, InFlight, Open
<1>2. ASSUME NEW cl \in Clients, NEW c \in Cores, Receive(cl, c) PROVE Bounded'
  BY <1>2 DEF Receive, Bounded, InFlight, Open
<1>3. CASE UNCHANGED vars
  BY <1>3 DEF vars, Bounded, InFlight, Open
<1> QED
  BY <1>1, <1>2, <1>3, SendBounded, PollBounded, CrashBounded, RcvMsgBounded,
     SendResponseBounded, ForgetBounded DEF Next

\* A ring has no message twice, so it is as long as it has messages.
LEMMA RingLength ==
    ASSUME NEW S, NEW s \in Seq(S), IsInjective(s)
    PROVE  IsFiniteSet(Range(s)) /\ Cardinality(Range(s)) = Len(s) /\ Len(s) \in Nat
<1>1. Len(s) \in Nat /\ DOMAIN s = 1 .. Len(s) /\ s = [i \in 1 .. Len(s) |-> s[i]]
  BY LenProperties
<1>2. s \in Bijection(1 .. Len(s), Range(s))
  BY <1>1 DEF Bijection, Injection, Surjection, IsInjective, Range
<1>3. IsFiniteSet(1 .. Len(s)) /\ Cardinality(1 .. Len(s)) = Len(s)
  BY <1>1, UpTo
<1> QED
  BY <1>1, <1>2, <1>3, FS_Bijection DEF ExistsBijection

LEMMA BoundedIsEnough == IInv /\ Bounded => RoomForAnswer
<1> SUFFICES ASSUME IInv, Bounded,
                    Window * (Cardinality(Clients) + MaxCrashes) <= RingSize - 1,
                    NEW c \in Cores, handled[c] # None
             PROVE  Len(to_back[c]) < RingSize - 1
  BY DEF RoomForAnswer, HasRoom
<1>1. PICK m0 \in Msgs : handled[c] = m0
  BY DEF IInv, TypeOK
<1>2. PICK ring : ring = Range(to_back[c])
  OBVIOUS
<1>3. /\ IsFiniteSet(ring) /\ Cardinality(ring) = Len(to_back[c]) /\ Len(to_back[c]) \in Nat
  BY <1>2, RingLength DEF IInv, TypeOK, OnceEach
<1>4. m0 \notin ring
  BY <1>1, <1>2 DEF IInv, Owned, IsAt
<1>5. ring \cup {m0} \in SUBSET InFlight
  <2>1. ring \subseteq Msgs
    BY <1>2 DEF IInv, Owned, TypeOK, Range
  <2> QED
    BY <1>1, <1>2, <2>1 DEF InFlight
<1>6. Len(to_back[c]) + 1 <= Cardinality(InFlight)
  BY <1>3, <1>4, <1>5, Finite, FS_AddElement, FS_Subset
<1>7. Cardinality(Open) + Window * crashes <= RingSize - 1
  <2>1. /\ Window \in Nat /\ crashes \in Nat /\ MaxCrashes \in Nat /\ crashes <= MaxCrashes
        /\ RingSize \in Nat
    BY IpcAssumption DEF IInv, TypeOK
  <2>2. Window * crashes <= Window * MaxCrashes
    BY <2>1
  <2>3. Window * (Cardinality(Clients) + MaxCrashes)
          = Cardinality(Clients) * Window + Window * MaxCrashes
    BY <2>1, Finite
  <2> QED
    BY <2>1, <2>2, <2>3, Finite
<1>8. Window * crashes \in Nat /\ RingSize \in Nat
  BY IpcAssumption DEF IInv, TypeOK
<1>9. PICK u \in Nat : u = Window * crashes
  BY <1>8
<1> QED
  BY <1>3, <1>6, <1>7, <1>8, <1>9, Finite DEF Bounded

(***************************************************************************)
(* A core that has handled a message always finds room for the answer, for *)
(* every window and number of killed clients that together fit into a ring *)
(* (core.c:510-514, where a full ring leaves the message with the core).   *)
(***************************************************************************)
THEOREM AnswersFit == Spec => []RoomForAnswer
<1>1. IInv /\ Bounded => RoomForAnswer
  BY BoundedIsEnough
<1> QED
  BY <1>1, InitBounded, NextBounded, Invariant, PTL DEF Spec

-----------------------------------------------------------------------------
(***************************************************************************)
(* A core and its rings are one line: the answers b nobody has taken, the  *)
(* message h the core has, if any, the requests q it has not received.     *)
(* Messages enter at the end of q, with the highest number of their        *)
(* client, and move towards the head of b; nothing overtakes.  What a      *)
(* message says is f, as an argument, since clients write to messages      *)
(* while others are in the line.                                           *)
(***************************************************************************)
Prior(f, x, y) == f[x].client = f[y].client => f[x].n < f[y].n

Ranked(f, s) == \A i, j \in 1 .. Len(s) : i < j => Prior(f, s[i], s[j])

Line(f, b, h, q) ==
    /\ Ranked(f, b) /\ Ranked(f, q)
    /\ \A x \in Range(b), y \in h \cup Range(q) : Prior(f, x, y)
    /\ \A x \in h, y \in Range(q) : Prior(f, x, y)

Hand(c) == {handled[c]} \ {None}
AtCore(c) == Range(to_back[c]) \cup Hand(c) \cup Range(to_me[c])

InOrder == \A c \in Cores : Line(id, to_back[c], Hand(c), to_me[c])

\* What a client has seen answered by a core is behind it: it is no higher than
\* what the client sent, and lower than what that core still has of it.
Numbered ==
    \A c \in Cores :
        /\ \A m \in AtCore(c) :
              got[id[m].client][c] < id[m].n /\ id[m].n <= sent[id[m].client]
        /\ \A cl \in Clients : got[cl][c] <= sent[cl]

-----------------------------------------------------------------------------
LEMMA RankedAppend ==
    ASSUME NEW S, NEW s \in Seq(S), NEW m \in S, NEW f, Ranked(f, s),
           \A x \in Range(s) : Prior(f, x, m)
    PROVE  Ranked(f, Append(s, m))
<1>1. /\ Len(Append(s, m)) = Len(s) + 1 /\ Len(s) \in Nat /\ DOMAIN s = 1 .. Len(s)
      /\ \A i \in 1 .. Len(s) : Append(s, m)[i] = s[i]
      /\ Append(s, m)[Len(s) + 1] = m
  BY AppendProperties
<1> SUFFICES ASSUME NEW i \in 1 .. Len(s) + 1, NEW j \in 1 .. Len(s) + 1, i < j
             PROVE  Prior(f, Append(s, m)[i], Append(s, m)[j])
  BY <1>1 DEF Ranked
<1>2. i \in 1 .. Len(s) /\ s[i] \in Range(s)
  BY <1>1 DEF Range
<1>3. CASE j \in 1 .. Len(s)
  BY <1>1, <1>2, <1>3 DEF Ranked
<1>4. CASE j = Len(s) + 1
  BY <1>1, <1>2, <1>4
<1> QED
  BY <1>1, <1>3, <1>4

LEMMA RankedTail ==
    ASSUME NEW S, NEW s \in Seq(S), s # <<>>, NEW f, Ranked(f, s)
    PROVE  /\ Ranked(f, Tail(s)) /\ Range(Tail(s)) \subseteq Range(s)
           /\ \A y \in Range(Tail(s)) : Prior(f, Head(s), y)
<1>1. /\ Head(s) = s[1] /\ Len(s) \in Nat /\ Len(s) >= 1
      /\ Len(Tail(s)) = Len(s) - 1
      /\ DOMAIN Tail(s) = 1 .. Len(s) - 1 /\ DOMAIN s = 1 .. Len(s)
      /\ \A i \in 1 .. Len(s) - 1 : Tail(s)[i] = s[i + 1]
  BY HeadTailProperties
<1>2. \A i \in 1 .. Len(s) - 1 : i + 1 \in 1 .. Len(s) /\ 1 < i + 1 /\ 1 \in 1 .. Len(s)
  BY <1>1
<1>3. Ranked(f, Tail(s))
  BY <1>1, <1>2 DEF Ranked
<1>4. Range(Tail(s)) \subseteq Range(s)
  BY <1>1, <1>2 DEF Range
<1>5. \A y \in Range(Tail(s)) : Prior(f, Head(s), y)
  BY <1>1, <1>2 DEF Range, Ranked
<1> QED
  BY <1>3, <1>4, <1>5

\* The line does not depend on what other messages say.
LEMMA LineAgrees ==
    ASSUME NEW S, NEW b \in Seq(S), NEW q \in Seq(S), NEW h, NEW f, NEW g,
           Line(f, b, h, q),
           \A m \in Range(b) \cup h \cup Range(q) : g[m] = f[m]
    PROVE  Line(g, b, h, q)
<1>1. /\ \A i \in 1 .. Len(b) : b[i] \in Range(b)
      /\ \A i \in 1 .. Len(q) : q[i] \in Range(q)
  BY LenProperties DEF Range
<1>2. Ranked(g, b) /\ Ranked(g, q)
  BY <1>1 DEF Line, Ranked, Prior
<1>3. \A x \in Range(b), y \in h \cup Range(q) : Prior(g, x, y)
  BY DEF Line, Prior
<1>4. \A x \in h, y \in Range(q) : Prior(g, x, y)
  BY DEF Line, Prior
<1> QED
  BY <1>2, <1>3, <1>4 DEF Line

LEMMA LineEnters ==
    ASSUME NEW S, NEW b \in Seq(S), NEW q \in Seq(S), NEW h, NEW f, NEW m \in S,
           Line(f, b, h, q),
           \A x \in Range(b) \cup h \cup Range(q) : Prior(f, x, m)
    PROVE  Line(f, b, h, Append(q, m))
<1>1. Range(Append(q, m)) = Range(q) \cup {m}
  BY EnqueueFacts
<1>2. Ranked(f, Append(q, m))
  BY RankedAppend DEF Line
<1> QED
  BY <1>1, <1>2 DEF Line

LEMMA LineReceived ==
    ASSUME NEW S, NEW b \in Seq(S), NEW q \in Seq(S), NEW f, q # <<>>, Line(f, b, {}, q)
    PROVE  Line(f, b, {Head(q)}, Tail(q))
<1>1. Ranked(f, q) /\ Ranked(f, b)
  BY DEF Line
<1>2. /\ Ranked(f, Tail(q)) /\ Range(Tail(q)) \subseteq Range(q)
      /\ \A y \in Range(Tail(q)) : Prior(f, Head(q), y)
  BY <1>1, RankedTail
<1>3. Head(q) \in Range(q)
  BY DequeueFacts
<1> QED
  BY <1>1, <1>2, <1>3 DEF Line

LEMMA LineAnswered ==
    ASSUME NEW S, NEW b \in Seq(S), NEW q \in Seq(S), NEW f, NEW m \in S,
           Line(f, b, {m}, q)
    PROVE  Line(f, Append(b, m), {}, q)
<1>1. Range(Append(b, m)) = Range(b) \cup {m}
  BY EnqueueFacts
<1>2. Ranked(f, b) /\ \A x \in Range(b) : Prior(f, x, m)
  BY DEF Line
<1>3. Ranked(f, Append(b, m))
  BY <1>2, RankedAppend
<1> QED
  BY <1>1, <1>3 DEF Line

LEMMA LineLeft ==
    ASSUME NEW S, NEW b \in Seq(S), NEW q \in Seq(S), NEW h, NEW f, b # <<>>,
           Line(f, b, h, q)
    PROVE  /\ Line(f, Tail(b), h, q)
           /\ \A y \in Range(Tail(b)) \cup h \cup Range(q) : Prior(f, Head(b), y)
<1>1. Ranked(f, b)
  BY DEF Line
<1>2. /\ Ranked(f, Tail(b)) /\ Range(Tail(b)) \subseteq Range(b)
      /\ \A y \in Range(Tail(b)) : Prior(f, Head(b), y)
  BY <1>1, RankedTail
<1>3. Head(b) \in Range(b)
  BY DequeueFacts
<1> QED
  BY <1>2, <1>3 DEF Line

LEMMA LineForgotten ==
    ASSUME NEW f, NEW b, NEW h, NEW q, Line(f, b, h, q)
    PROVE  Line(f, b, {}, q)
BY DEF Line

-----------------------------------------------------------------------------
\* A message at a core is in no other place, and says whose request it is.
LEMMA AtCoreFacts ==
    ASSUME IInv, NEW c \in Cores, NEW m \in AtCore(c)
    PROVE  /\ m \in Msgs /\ m \notin pool /\ \A cl \in Clients : held[cl] # m
           /\ id[m].client \in Clients /\ id[m].n \in Nat
           /\ \A d \in Cores : m \in AtCore(d) => d = c
<1>0. TypeOK
  BY DEF IInv
<1>1. m \in Msgs
  BY <1>0 DEF AtCore, Hand, TypeOK, Range
<1>2. PICK k, w : IsAt(m, k, w)
  BY <1>1 DEF IInv, Owned
<1>3. m # None
  BY <1>1, NotNone
<1>4. m \in Range(to_me[c]) \/ m \in Range(to_back[c]) \/ handled[c] = m
  BY DEF AtCore, Hand
<1>5. id[m].client # None
  BY <1>1, <1>4 DEF IInv, Known
<1>6. id[m] \in Ids
  BY <1>0, <1>1 DEF TypeOK
<1>7. id[m].client \in Clients /\ id[m].n \in Nat
  BY <1>5, <1>6, IpcAssumption DEF Ids
<1>8. k \in Ringed /\ w = c
  BY <1>2, <1>4 DEF IsAt, Ringed
<1>9. m \notin pool /\ \A cl \in Clients : held[cl] # m
  BY <1>2, <1>8 DEF IsAt, Ringed
<1>10. ASSUME NEW d \in Cores, m \in AtCore(d) PROVE d = c
  <2>1. m \in Range(to_me[d]) \/ m \in Range(to_back[d]) \/ handled[d] = m
    BY <1>10 DEF AtCore, Hand
  <2> QED
    BY <1>2, <1>8, <2>1 DEF IsAt, Ringed
<1> QED
  BY <1>1, <1>7, <1>9, <1>10

LEMMA Rings ==
    ASSUME IInv, NEW c \in Cores
    PROVE  to_back[c] \in Seq(Msgs) /\ to_me[c] \in Seq(Msgs)
BY DEF IInv, TypeOK

LEMMA InitOrder == Init => InOrder /\ Numbered
<1> SUFFICES ASSUME Init PROVE InOrder /\ Numbered
  OBVIOUS
<1>1. Range(<<>>) = {} /\ Len(<<>>) = 0
  BY DEF Range
<1>2. \A c \in Cores : to_me[c] = <<>> /\ to_back[c] = <<>> /\ Hand(c) = {}
  BY DEF Init, Hand
<1>3. \A c \in Cores : AtCore(c) = {}
  BY <1>1, <1>2 DEF AtCore
<1>4. InOrder
  BY <1>1, <1>2 DEF InOrder, Line, Ranked
<1>5. Numbered
  BY <1>3 DEF Init, Numbered
<1> QED
  BY <1>4, <1>5

\* A step that leaves the line of every core and what its messages say.
LEMMA LinesStay ==
    ASSUME IInv, InOrder, Numbered,
           UNCHANGED <<to_me, to_back, handled, sent, got>>,
           \A c \in Cores : \A m \in AtCore(c) : id'[m] = id[m]
    PROVE  InOrder' /\ Numbered'
<1>1. \A c \in Cores : Hand(c)' = Hand(c) /\ AtCore(c)' = AtCore(c)
  BY DEF Hand, AtCore
<1>2. ASSUME NEW c \in Cores PROVE Line(id', to_back[c], Hand(c), to_me[c])
  <2>1. Line(id, to_back[c], Hand(c), to_me[c])
    BY DEF InOrder
  <2>2. \A m \in Range(to_back[c]) \cup Hand(c) \cup Range(to_me[c]) : id'[m] = id[m]
    BY DEF AtCore
  <2> QED
    BY <2>1, <2>2, Rings, LineAgrees
<1>3. InOrder'
  BY <1>1, <1>2 DEF InOrder
<1>4. Numbered'
  BY <1>1 DEF Numbered
<1> QED
  BY <1>3, <1>4

LEMMA AllocOrder ==
    ASSUME IInv, InOrder, Numbered, NEW cl \in Clients, Alloc(cl)
    PROVE  InOrder' /\ Numbered'
<1>1. PICK m0 \in pool : id' = [id EXCEPT ![m0] = NoId]
  BY DEF Alloc
<1>2. UNCHANGED <<to_me, to_back, handled, sent, got>>
  BY DEF Alloc
<1>3. ASSUME NEW c \in Cores, NEW m \in AtCore(c) PROVE id'[m] = id[m]
  <2>1. m \in Msgs /\ m # m0
    BY <1>1, AtCoreFacts
  <2> QED
    BY <1>1, <2>1 DEF IInv, TypeOK
<1> QED
  BY <1>2, <1>3, LinesStay

LEMMA SendOrder ==
    ASSUME IInv, InOrder, Numbered, NEW cl \in Clients, NEW c \in Cores, Send(cl, c)
    PROVE  InOrder' /\ Numbered'
<1>0. PICK m0 \in Msgs : held[cl] = m0
  BY DEF IInv, TypeOK, Send
<1>1. /\ to_me' = [to_me EXCEPT ![c] = Append(to_me[c], m0)]
      /\ id' = [id EXCEPT ![m0] = [client |-> cl, n |-> sent[cl] + 1]]
      /\ sent' = [sent EXCEPT ![cl] = sent[cl] + 1]
      /\ UNCHANGED <<to_back, handled, got>>
  BY <1>0 DEF Send
<1>2. TypeOK /\ sent[cl] \in Nat
  BY DEF IInv, TypeOK
<1>3. /\ id'[m0].client = cl /\ id'[m0].n = sent[cl] + 1
      /\ \A m \in Msgs : m # m0 => id'[m] = id[m]
      /\ \A x \in Clients : sent'[x] = IF x = cl THEN sent[cl] + 1 ELSE sent[x]
      /\ \A d \in Cores : to_me'[d] = IF d = c THEN Append(to_me[c], m0) ELSE to_me[d]
  BY <1>1, <1>2 DEF TypeOK
<1>4. \A d \in Cores : Hand(d)' = Hand(d)
  BY <1>1 DEF Hand
<1>5. ASSUME NEW d \in Cores, NEW m \in AtCore(d)
      PROVE  /\ m \in Msgs /\ m # m0 /\ id'[m] = id[m]
             /\ id[m].client \in Clients /\ id[m].n \in Nat
             /\ got[id[m].client][d] < id[m].n /\ id[m].n <= sent[id[m].client]
  <2>1. /\ m \in Msgs /\ m # m0 /\ id[m].client \in Clients /\ id[m].n \in Nat
    BY <1>0, AtCoreFacts
  <2> QED
    BY <1>3, <2>1 DEF Numbered
<1>6. Range(Append(to_me[c], m0)) = Range(to_me[c]) \cup {m0}
  BY Rings, EnqueueFacts
<1>7. ASSUME NEW d \in Cores PROVE Line(id', to_back'[d], Hand(d)', to_me'[d])
  <2>1. Line(id, to_back[d], Hand(d), to_me[d])
    BY DEF InOrder
  <2>2. \A m \in Range(to_back[d]) \cup Hand(d) \cup Range(to_me[d]) : id'[m] = id[m]
    BY <1>5 DEF AtCore
  <2>3. Line(id', to_back[d], Hand(d), to_me[d])
    BY <2>1, <2>2, Rings, LineAgrees
  <2>4. CASE d # c
    BY <1>1, <1>3, <1>4, <2>3, <2>4
  <2>5. CASE d = c
    <3>1. ASSUME NEW x \in Range(to_back[c]) \cup Hand(c) \cup Range(to_me[c])
          PROVE  Prior(id', x, m0)
      <4>1. x \in AtCore(c)
        BY DEF AtCore
      <4>2. id'[x] = id[x] /\ id[x].n \in Nat /\ id[x].n <= sent[id[x].client]
        BY <1>5, <4>1
      <4> QED
        BY <1>2, <1>3, <4>2 DEF Prior
    <3>2. Line(id', to_back[c], Hand(c), Append(to_me[c], m0))
      BY <2>3, <2>5, <3>1, Rings, LineEnters
    <3> QED
      BY <1>1, <1>3, <1>4, <2>5, <3>2
  <2> QED
    BY <2>4, <2>5
<1>8. InOrder'
  BY <1>7 DEF InOrder
<1>9. \A d \in Cores, x \in Clients : got[x][d] \in Nat /\ got[x][d] <= sent[x] /\ sent[x] \in Nat
  BY <1>2 DEF TypeOK, Numbered
<1>10. ASSUME NEW d \in Cores, NEW m \in AtCore(d)'
       PROVE  got[id'[m].client][d] < id'[m].n /\ id'[m].n <= sent'[id'[m].client]
  <2>1. CASE m = m0
    BY <1>2, <1>3, <1>9, <2>1
  <2>2. CASE m # m0
    <3>1. m \in AtCore(d)
      BY <1>1, <1>3, <1>4, <1>6, <2>2 DEF AtCore
    <3>2. id[m].n <= sent'[id[m].client]
      BY <1>3, <1>5, <1>9, <3>1
    <3> QED
      BY <1>5, <3>1, <3>2
  <2> QED
    BY <2>1, <2>2
<1>11. \A d \in Cores, x \in Clients : got[x][d] <= sent'[x]
  BY <1>3, <1>9
<1>12. Numbered'
  BY <1>1, <1>10, <1>11 DEF Numbered
<1> QED
  BY <1>8, <1>12

LEMMA RcvMsgOrder ==
    ASSUME IInv, InOrder, Numbered, NEW c \in Cores, RcvMsg(c)
    PROVE  InOrder' /\ Numbered'
<1>0. PICK m0 : m0 = Head(to_me[c])
  OBVIOUS
<1>1. /\ handled[c] = None /\ to_me[c] # <<>>
      /\ handled' = [handled EXCEPT ![c] = m0]
      /\ to_me' = [to_me EXCEPT ![c] = Tail(to_me[c])]
      /\ UNCHANGED <<to_back, id, sent, got>>
  BY <1>0 DEF RcvMsg
<1>2. TypeOK
  BY DEF IInv
<1>3. /\ \A d \in Cores : to_me'[d] = IF d = c THEN Tail(to_me[c]) ELSE to_me[d]
      /\ \A d \in Cores : handled'[d] = IF d = c THEN m0 ELSE handled[d]
  BY <1>1, <1>2 DEF TypeOK
<1>4. m0 \in Msgs /\ m0 \in Range(to_me[c]) /\ m0 # None
  BY <1>0, <1>1, Rings, DequeueFacts, NotNone
<1>5. Hand(c) = {} /\ Hand(c)' = {m0} /\ \A d \in Cores : d # c => Hand(d)' = Hand(d)
  BY <1>1, <1>3, <1>4 DEF Hand
<1>6. Line(id, to_back[c], {}, to_me[c])
  BY <1>5 DEF InOrder
<1>7. Line(id, to_back[c], {m0}, Tail(to_me[c]))
  BY <1>0, <1>1, <1>6, Rings, LineReceived
<1>8. InOrder'
  BY <1>1, <1>3, <1>5, <1>7 DEF InOrder
<1>9. \A d \in Cores : AtCore(d)' \subseteq AtCore(d)
  <2>1. Ranked(id, to_me[c])
    BY <1>6 DEF Line
  <2>2. Range(Tail(to_me[c])) \subseteq Range(to_me[c])
    BY <1>1, <2>1, Rings, RankedTail
  <2> QED
    BY <1>1, <1>3, <1>4, <1>5, <2>2 DEF AtCore
<1>10. Numbered'
  BY <1>1, <1>9 DEF Numbered
<1> QED
  BY <1>8, <1>10

LEMMA SendResponseOrder ==
    ASSUME IInv, InOrder, Numbered, NEW c \in Cores, SendResponse(c)
    PROVE  InOrder' /\ Numbered'
<1>0. PICK m0 \in Msgs : handled[c] = m0
  BY DEF IInv, TypeOK, SendResponse
<1>1. /\ to_back' = [to_back EXCEPT ![c] = Append(to_back[c], m0)]
      /\ handled' = [handled EXCEPT ![c] = None]
      /\ UNCHANGED <<to_me, id, sent, got>>
  BY <1>0 DEF SendResponse
<1>2. TypeOK /\ m0 # None
  BY NotNone DEF IInv
<1>3. /\ \A d \in Cores : to_back'[d] = IF d = c THEN Append(to_back[c], m0) ELSE to_back[d]
      /\ \A d \in Cores : handled'[d] = IF d = c THEN None ELSE handled[d]
  BY <1>1, <1>2 DEF TypeOK
<1>4. Hand(c) = {m0} /\ Hand(c)' = {} /\ \A d \in Cores : d # c => Hand(d)' = Hand(d)
  BY <1>0, <1>2, <1>3 DEF Hand
<1>5. Line(id, to_back[c], {m0}, to_me[c])
  BY <1>4 DEF InOrder
<1>6. Line(id, Append(to_back[c], m0), {}, to_me[c])
  BY <1>5, Rings, LineAnswered
<1>7. InOrder'
  BY <1>1, <1>3, <1>4, <1>6 DEF InOrder
<1>8. \A d \in Cores : AtCore(d)' \subseteq AtCore(d)
  <2>1. Range(Append(to_back[c], m0)) = Range(to_back[c]) \cup {m0}
    BY Rings, EnqueueFacts
  <2> QED
    BY <1>1, <1>3, <1>4, <2>1 DEF AtCore
<1>9. Numbered'
  BY <1>1, <1>8 DEF Numbered
<1> QED
  BY <1>7, <1>9

LEMMA ForgetOrder ==
    ASSUME IInv, InOrder, Numbered, NEW c \in Cores, Forget(c)
    PROVE  InOrder' /\ Numbered'
<1>1. /\ handled' = [handled EXCEPT ![c] = None]
      /\ UNCHANGED <<to_me, to_back, id, sent, got>>
  BY DEF Forget
<1>2. \A d \in Cores : handled'[d] = IF d = c THEN None ELSE handled[d]
  BY <1>1 DEF IInv, TypeOK
<1>3. Hand(c)' = {} /\ \A d \in Cores : d # c => Hand(d)' = Hand(d)
  BY <1>2 DEF Hand
<1>4. Line(id, to_back[c], {}, to_me[c])
  BY LineForgotten DEF InOrder
<1>5. InOrder'
  BY <1>1, <1>3, <1>4 DEF InOrder
<1>6. \A d \in Cores : AtCore(d)' \subseteq AtCore(d)
  BY <1>1, <1>3 DEF AtCore
<1>7. Numbered'
  BY <1>1, <1>6 DEF Numbered
<1> QED
  BY <1>5, <1>7

\* A poll that takes an answer: what it takes is later than what the client saw,
\* and earlier than what the core still has.
LEMMA TakenOrder ==
    ASSUME IInv, InOrder, Numbered, NEW cl \in Clients, NEW c \in Cores, NEW m0,
           m0 = Head(to_back[c]), to_back[c] # <<>>, Taken(cl, c, m0)
    PROVE  InOrder' /\ Numbered' /\ (id[m0].client = cl => id[m0].n > got[cl][c])
<1>1. /\ m0 \in Msgs
      /\ to_back' = [to_back EXCEPT ![c] = Tail(to_back[c])]
      /\ Range(Tail(to_back[c])) = Range(to_back[c]) \ {m0}
      /\ got' = IF id[m0].client = cl THEN [got EXCEPT ![cl][c] = id[m0].n] ELSE got
      /\ UNCHANGED <<to_me, handled, id, sent>>
  BY DEF Taken
<1>2. TypeOK
  BY DEF IInv
<1>3. m0 \in AtCore(c)
  BY Rings, DequeueFacts DEF AtCore
<1>4. /\ id[m0].client \in Clients /\ id[m0].n \in Nat
      /\ got[id[m0].client][c] < id[m0].n /\ id[m0].n <= sent[id[m0].client]
  BY <1>3, AtCoreFacts DEF Numbered
<1>5. \A d \in Cores : to_back'[d] = IF d = c THEN Tail(to_back[c]) ELSE to_back[d]
  BY <1>1, <1>2 DEF TypeOK
<1>6. \A d \in Cores : Hand(d)' = Hand(d)
  BY <1>1 DEF Hand
<1>7. Line(id, to_back[c], Hand(c), to_me[c])
  BY DEF InOrder
<1>8. /\ Line(id, Tail(to_back[c]), Hand(c), to_me[c])
      /\ \A y \in Range(Tail(to_back[c])) \cup Hand(c) \cup Range(to_me[c]) : Prior(id, m0, y)
  BY <1>7, Rings, LineLeft
<1>9. InOrder'
  BY <1>1, <1>5, <1>6, <1>8 DEF InOrder
<1>10. \A x \in Clients, d \in Cores :
          /\ got[x][d] \in Nat
          /\ got'[x][d] = IF x = cl /\ d = c /\ id[m0].client = cl THEN id[m0].n ELSE got[x][d]
  BY <1>1, <1>2 DEF TypeOK
<1>11. ASSUME NEW d \in Cores, NEW m \in AtCore(d)'
       PROVE  got'[id[m].client][d] < id[m].n /\ id[m].n <= sent[id[m].client]
  <2>1. m \in AtCore(d)
    BY <1>1, <1>5, <1>6 DEF AtCore
  <2>2. /\ id[m].client \in Clients /\ id[m].n \in Nat
        /\ got[id[m].client][d] < id[m].n /\ id[m].n <= sent[id[m].client]
    BY <2>1, AtCoreFacts DEF Numbered
  <2>3. CASE id[m].client = cl /\ d = c /\ id[m0].client = cl
    <3>1. m \in Range(Tail(to_back[c])) \cup Hand(c) \cup Range(to_me[c])
      BY <1>1, <1>5, <1>6, <2>3 DEF AtCore
    <3>2. id[m0].n < id[m].n
      BY <1>8, <2>3, <3>1 DEF Prior
    <3> QED
      BY <1>10, <2>2, <2>3, <3>2
  <2>4. CASE ~(id[m].client = cl /\ d = c /\ id[m0].client = cl)
    BY <1>10, <2>2, <2>4
  <2> QED
    BY <2>3, <2>4
<1>12. \A d \in Cores, x \in Clients : got'[x][d] <= sent[x]
  BY <1>4, <1>10 DEF Numbered
<1>13. Numbered'
  BY <1>1, <1>11, <1>12 DEF Numbered
<1> QED
  BY <1>4, <1>9, <1>13

LEMMA PollOrder ==
    ASSUME IInv, InOrder, Numbered, NEW cl \in Clients, Poll(cl)
    PROVE  /\ InOrder' /\ Numbered'
           /\ LET m == held'[cl] IN
              m # None /\ id[m].client = cl => id[m].n > got[cl][wait[cl].core]
<1>1. CASE to_back[wait[cl].core] = <<>>
  <2>1. /\ wait[cl] # None
        /\ UNCHANGED <<to_me, to_back, held, handled, id, sent, got>>
    BY <1>1 DEF Poll
  <2>2. held'[cl] = None
    BY <2>1 DEF IInv, MaySend
  <2>3. InOrder' /\ Numbered'
    BY <2>1, LinesStay
  <2> QED
    BY <2>2, <2>3
<1>2. CASE to_back[wait[cl].core] # <<>>
  <2>1. PICK c, m0 : c = wait[cl].core /\ m0 = Head(to_back[c]) /\ to_back[c] # <<>>
    BY <1>2
  <2>2. Taken(cl, c, m0)
    BY <2>1, PollTakes
  <2>3. c \in Cores /\ held'[cl] = m0
    BY <2>2 DEF Taken, IInv, TypeOK
  <2>4. InOrder' /\ Numbered' /\ (id[m0].client = cl => id[m0].n > got[cl][c])
    BY <2>1, <2>2, <2>3, TakenOrder
  <2> QED
    BY <2>1, <2>3, <2>4
<1> QED
  BY <1>1, <1>2

LEMMA NextOrder == IInv /\ InOrder /\ Numbered /\ [Next]_vars => InOrder' /\ Numbered'
<1> SUFFICES ASSUME IInv, InOrder, Numbered, [Next]_vars PROVE InOrder' /\ Numbered'
  OBVIOUS
<1>1. ASSUME NEW cl \in Clients, Free(cl) \/ Crash(cl) PROVE InOrder' /\ Numbered'
  <2>1. UNCHANGED <<to_me, to_back, handled, id, sent, got>>
    BY <1>1 DEF Free, Crash
  <2> QED
    BY <2>1, LinesStay
<1>2. ASSUME NEW cl \in Clients, NEW c \in Cores, Receive(cl, c) PROVE InOrder' /\ Numbered'
  <2>1. UNCHANGED <<to_me, to_back, handled, id, sent, got>>
    BY <1>2 DEF Receive
  <2> QED
    BY <2>1, LinesStay
<1>3. CASE UNCHANGED vars
  <2>1. UNCHANGED <<to_me, to_back, handled, id, sent, got>>
    BY <1>3 DEF vars
  <2> QED
    BY <2>1, LinesStay
<1> QED
  BY <1>1, <1>2, <1>3, AllocOrder, SendOrder, PollOrder, RcvMsgOrder, SendResponseOrder,
     ForgetOrder DEF Next

-----------------------------------------------------------------------------
\* Only a poll gives a message to a client that waits.
LEMMA OnlyPollTakes ==
    ASSUME IInv, InOrder, Numbered, [Next]_vars,
           NEW cl \in Clients, wait[cl] # None, held'[cl] # None, id[held'[cl]].client = cl
    PROVE  id[held'[cl]].n > got[cl][wait[cl].core]
<1>1. held[cl] = None /\ TypeOK
  BY DEF IInv, MaySend
<1>2. CASE Poll(cl)
  BY <1>2, PollOrder
<1>3. ASSUME UNCHANGED held PROVE FALSE
  BY <1>1, <1>3
<1>4. ASSUME NEW x \in Clients, Alloc(x) \/ Free(x) \/ Crash(x) PROVE FALSE
  <2>1. CASE Alloc(x)
    <3>1. PICK m \in pool : held' = [held EXCEPT ![x] = m]
      BY <2>1 DEF Alloc
    <3>2. x # cl
      BY <2>1 DEF Alloc, Idle
    <3> QED
      BY <1>1, <3>1, <3>2 DEF TypeOK
  <2>2. CASE Free(x) \/ Crash(x)
    <3>1. held' = [held EXCEPT ![x] = None]
      BY <2>2 DEF Free, Crash
    <3> QED
      BY <1>1, <3>1 DEF TypeOK
  <2> QED
    BY <1>4, <2>1, <2>2
<1>5. ASSUME NEW x \in Clients, x # cl, Poll(x) PROVE FALSE
  <2>1. held'[cl] = held[cl]
    BY <1>1, <1>5 DEF Poll, Take, TypeOK
  <2> QED
    BY <1>1, <2>1
<1>6. ASSUME NEW x \in Clients, NEW c \in Cores, Send(x, c) PROVE FALSE
  <2>1. held' = [held EXCEPT ![x] = None]
    BY <1>6 DEF Send
  <2> QED
    BY <1>1, <2>1 DEF TypeOK
<1> QED
  BY <1>2, <1>3, <1>4, <1>5, <1>6
     DEF Next, Receive, RcvMsg, SendResponse, Forget, vars

(***************************************************************************)
(* A client sees the answers of a core to its own requests in the order it *)
(* sent them, each once, whatever timed out, was left by others or taken   *)
(* for others (ipc.c:176-198, core.c:495-514).                             *)
(***************************************************************************)
THEOREM AnswersInOrder == Spec => RepliesInOrder
<1> DEFINE Step ==
        \A cl \in Clients :
            LET m == held'[cl] IN
            wait[cl] # None /\ m # None /\ id[m].client = cl
                => id[m].n > got[cl][wait[cl].core]
<1>1. Spec => [](InOrder /\ Numbered)
  BY Invariant, InitOrder, NextOrder, PTL DEF Spec
<1>2. IInv /\ InOrder /\ Numbered /\ [Next]_vars => [Step]_vars
  BY OnlyPollTakes
<1>3. Spec => [][Step]_vars
  BY Invariant, <1>1, <1>2, PTL DEF Spec
<1> QED
  BY <1>3 DEF RepliesInOrder
=============================================================================
