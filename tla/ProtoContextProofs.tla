------------------------- MODULE ProtoContextProofs -------------------------
(***************************************************************************)
(* Proofs about ProtoContext, for any number of key ids and of contexts.   *)
(***************************************************************************)
EXTENDS ProtoContext, SequenceTheorems, TLAPS

LEMMA OtherIsNode == \A n \in Node : Other(n) \in Node /\ Other(n) # n /\ Other(Other(n)) = n
  BY PeersDiffer DEF Node, Other

-----------------------------------------------------------------------------
(* The invariant *)

\* The states of a context that has processed the auth message of the peer.
Late == {"wait_auth_ack", "active"}
HasAuth(k) == \E i \in 1 .. Len(k.out) : k.out[i] = "auth"

Slots(n) == {primary[n], secondary[n]} \ {NoKey}

\* No two contexts of a peer are taken for one another.
Distinct(p, s, t) ==
    /\ p # NoKey /\ s # NoKey => p.tag # s.tag
    /\ p # NoKey /\ t # NoKey => p.tag # t.tag
    /\ s # NoKey /\ t # NoKey => s.tag # t.tag

\* What a context has sent.  Only a server that has the client's auth message
\* sends its own.
SenderOK(n, k) ==
    /\ k.tag < made[n]
    /\ n = Server /\ HasAuth(k) => k.state \in Late

\* A context and the one that its TLS session is with.
Matches(n, k, c) ==
    /\ n = Client \/ k.state \in Late => c.with = k.tag
    /\ n = Client /\ k.state \in Late => c.state \in Late
SlotOK(n, k) ==
    /\ k.with # None => k.with < made[Other(n)] /\ KeyId(k.with) = KeyId(k.tag)
    /\ k.state \in Late => k.with # None
    /\ k.state = "active" /\ ~deferred[n] => k.crypto
    /\ \A c \in Senders(Other(n)) : c.tag = k.with => Matches(n, k, c)

NodeOK(n) ==
    /\ Distinct(primary[n], secondary[n], stale[n])
    /\ \A k \in Senders(n) : SenderOK(n, k)
    /\ \A k \in Slots(n) : SlotOK(n, k)
IInv == TypeOK /\ \A n \in Node : NodeOK(n)

-----------------------------------------------------------------------------
(* What a step of a peer may do to its contexts *)

\* A later state of the same context.
Succeeds(o, k) ==
    /\ k.tag = o.tag
    /\ o.with # None => k.with = o.with
    /\ o.state \in Late => k.state \in Late

\* What it has learned it has from a context of the peer.
Evolves(n, o, k) ==
    /\ Succeeds(o, k)
    /\ k.with # o.with =>
       \E from \in Senders(Other(n)) :
         /\ k.with = from.tag /\ KeyId(from.tag) = KeyId(k.tag)
         /\ n = Client => from.with = k.tag
    /\ k.state \in Late /\ o.state \notin Late =>
       \E from \in Senders(Other(n)) : k.with = from.tag /\ from.with = k.tag /\ HasAuth(from)
    /\ n = Server /\ HasAuth(k) => HasAuth(o) \/ k.state \in Late
    /\ k.state = "active" /\ ~deferred'[n] => k.crypto

Fresh(n, k) ==
    /\ k.tag = made[n] /\ made'[n] > made[n]
    /\ k.with = None /\ k.state \notin Late /\ ~HasAuth(k)

Wiped(o, k) == k.tag = o.tag /\ k.with = o.with /\ k.out = o.out /\ k.state = "active"

Acts(n) ==
    /\ LET m == Other(n) IN
       UNCHANGED <<primary[m], secondary[m], stale[m], made[m], deferred[m]>>
    /\ made'[n] >= made[n]
    /\ Distinct(primary'[n], secondary'[n], stale'[n])
    /\ \A k \in {primary'[n], secondary'[n]} \ {NoKey} :
         Fresh(n, k) \/ \E o \in Slots(n) : Evolves(n, o, k)
    /\ stale'[n] \in {stale[n], NoKey} \/ \E o \in Slots(n) : Wiped(o, stale'[n])

LEMMA SendersTyped ==
  ASSUME TypeOK, NEW n \in Node
  PROVE  /\ \A k \in Senders(n) : k \in Key /\ k.tag \in Nat /\ k.with \in Nat \cup {None}
         /\ Slots(n) \subseteq Senders(n)
         /\ made[n] \in Nat
<1>1. primary[n] \in Slot /\ secondary[n] \in Slot /\ stale[n] \in Slot /\ made[n] \in Nat
  BY DEF TypeOK
<1>2. \A k \in Senders(n) : k \in Key
  BY <1>1 DEF Senders, Slot
<1>3. \A k \in Key : k.tag \in Nat /\ k.with \in Nat \cup {None}
  BY DEF Key
<1> QED BY <1>1, <1>2, <1>3 DEF Slots, Senders

LEMMA SameTagSame ==
  ASSUME NEW n \in Node, NodeOK(n), NEW a \in Senders(n), NEW b \in Senders(n), a.tag = b.tag
  PROVE  a = b
  BY DEF NodeOK, Distinct, Senders

\* Where the contexts whose packets may arrive come from.
LEMMA SendersCome ==
  ASSUME TypeOK, NEW n \in Node, Acts(n), NEW k \in Senders(n)'
  PROVE  \/ Fresh(n, k)
         \/ \E o \in Senders(n) : Succeeds(o, k) /\ (n = Server /\ HasAuth(k) => HasAuth(o) \/ k.state \in Late)
<1>1. CASE k \in {primary'[n], secondary'[n]} \ {NoKey}
  BY <1>1, SendersTyped DEF Acts, Evolves
<1>2. CASE k = stale'[n] /\ k # NoKey
  <2>1. CASE stale'[n] = stale[n]
    BY <1>2, <2>1 DEF Senders, Succeeds
  <2>2. CASE \E o \in Slots(n) : Wiped(o, stale'[n])
    BY <1>2, <2>2, SendersTyped DEF Wiped, Succeeds, HasAuth, Late
  <2> QED BY <1>2, <2>1, <2>2 DEF Acts
<1> QED BY <1>1, <1>2 DEF Senders

LEMMA ActorKeepsSlot ==
  ASSUME TypeOK, NEW n \in Node, NodeOK(n), NodeOK(Other(n)), Acts(n),
         NEW o \in Slots(n), NEW k, Evolves(n, o, k),
         NEW c \in Senders(Other(n)), c.tag = k.with
  PROVE  Matches(n, k, c)
<1>1. c.tag \in Nat /\ c.tag # None /\ SlotOK(n, o) /\ SenderOK(Other(n), c)
  BY OtherIsNode, SendersTyped, NoneIsNoTag DEF NodeOK
<1>2. k.tag = o.tag
  BY DEF Evolves, Succeeds
\* It is the one that the context has just heard from, or knew.
<1>3. ASSUME NEW from \in Senders(Other(n)), k.with = from.tag
      PROVE  from = c
  BY <1>3, OtherIsNode, SameTagSame
<1>4. ASSUME k.state \in Late, o.state \notin Late
      PROVE  c.with = k.tag /\ (n = Client => c.state \in Late)
  <2>1. c.with = k.tag /\ HasAuth(c)
    BY <1>3, <1>4 DEF Evolves
  <2>2. n = Client => Other(n) = Server
    BY DEF Other
  <2> QED BY <1>1, <2>1, <2>2 DEF SenderOK
<1>5. CASE k.with = o.with
  <2>1. Matches(n, o, c)
    BY <1>1, <1>5 DEF SlotOK
  <2> QED BY <1>2, <1>4, <2>1 DEF Matches
<1>6. CASE k.with # o.with
  <2>1. n = Client => c.with = k.tag
    BY <1>3, <1>6 DEF Evolves
  <2>2. o.with = None
    BY <1>6 DEF Evolves, Succeeds
  <2>3. o.state \notin Late
    BY <1>1, <2>2 DEF SlotOK
  <2> QED BY <1>4, <2>1, <2>3 DEF Matches
<1> QED BY <1>5, <1>6

LEMMA ActorOK ==
  ASSUME TypeOK, TypeOK', NEW n \in Node, NodeOK(n), NodeOK(Other(n)), Acts(n)
  PROVE  NodeOK(n)'
<1>1. made[n] \in Nat /\ made'[n] \in Nat /\ Other(n) \in Node /\ Other(n) # n
      /\ made'[n] >= made[n] /\ made'[Other(n)] = made[Other(n)] /\ made[Other(n)] \in Nat
  BY OtherIsNode DEF TypeOK, Acts
<1>2. Senders(Other(n))' = Senders(Other(n))
  BY DEF Acts, Senders
<1>3. ASSUME NEW k \in Senders(n)'
      PROVE  SenderOK(n, k)'
  <2>1. CASE Fresh(n, k)
    BY <1>1, <2>1 DEF Fresh, SenderOK, HasAuth
  <2>2. ASSUME NEW o \in Senders(n), Succeeds(o, k), n = Server /\ HasAuth(k) => HasAuth(o) \/ k.state \in Late
        PROVE  SenderOK(n, k)'
    <3>1. o.tag \in Nat /\ o.tag < made[n] /\ (n = Server /\ HasAuth(o) => o.state \in Late)
      BY SendersTyped DEF NodeOK, SenderOK
    <3>2. k.tag = o.tag /\ (o.state \in Late => k.state \in Late)
      BY <2>2 DEF Succeeds
    <3> QED BY <1>1, <2>2, <3>1, <3>2 DEF SenderOK, HasAuth
  <2> QED BY <2>1, <2>2, SendersCome
<1>4. ASSUME NEW k \in Slots(n)'
      PROVE  SlotOK(n, k)'
  <2>1. Fresh(n, k) \/ \E o \in Slots(n) : Evolves(n, o, k)
    BY DEF Acts, Slots
  <2>2. CASE Fresh(n, k)
    <3>1. \A c \in Senders(Other(n)) : c.tag # None
      BY <1>1, SendersTyped, NoneIsNoTag
    <3> QED BY <1>2, <2>2, <3>1 DEF Fresh, SlotOK, Late
  <2>3. ASSUME NEW o \in Slots(n), Evolves(n, o, k)
        PROVE  SlotOK(n, k)'
    <3>1. SlotOK(n, o)
      BY DEF NodeOK
    <3>2. k.with # None => k.with < made[Other(n)] /\ KeyId(k.with) = KeyId(k.tag)
      <4>1. CASE k.with = o.with
        BY <2>3, <3>1, <4>1 DEF Evolves, Succeeds, SlotOK
      <4>2. CASE k.with # o.with
        BY <2>3, <4>2, OtherIsNode DEF Evolves, NodeOK, SenderOK
      <4> QED BY <4>1, <4>2
    <3>3. k.state \in Late => k.with # None
      <4>1. CASE o.state \in Late
        BY <2>3, <3>1, <4>1 DEF Evolves, Succeeds, SlotOK
      <4>2. CASE k.state \in Late /\ o.state \notin Late
        BY <1>1, <2>3, <4>2, SendersTyped, NoneIsNoTag DEF Evolves
      <4> QED BY <4>1, <4>2
    <3>4. k.state = "active" /\ ~deferred'[n] => k.crypto
      BY <2>3 DEF Evolves
    <3>5. \A c \in Senders(Other(n)) : c.tag = k.with => Matches(n, k, c)
      BY <2>3, ActorKeepsSlot
    <3> QED BY <1>1, <1>2, <3>2, <3>3, <3>4, <3>5 DEF SlotOK, Matches
  <2> QED BY <2>1, <2>2, <2>3
<1> QED BY <1>3, <1>4 DEF NodeOK, Acts

LEMMA PeerOK ==
  ASSUME TypeOK, TypeOK', NEW n \in Node, NodeOK(n), NodeOK(Other(n)), Acts(n)
  PROVE  NodeOK(Other(n))'
<1> DEFINE m == Other(n)
<1>1. made[n] \in Nat /\ made'[n] \in Nat /\ made'[n] >= made[n] /\ m \in Node /\ Other(m) = n
  BY OtherIsNode DEF TypeOK, Acts
<1>2. UNCHANGED <<primary[m], secondary[m], stale[m], made[m], deferred[m]>>
  BY DEF Acts
<1>3. ASSUME NEW k \in Slots(m)
      PROVE  SlotOK(m, k)'
  <2>1. SlotOK(m, k) /\ k.with \in Nat \cup {None} /\ k.tag \in Nat
    BY <1>1, SendersTyped DEF NodeOK
  <2>2. ASSUME NEW c \in Senders(n)', c.tag = k.with
        PROVE  Matches(m, k, c)
    <3>1. c.tag \in Nat
      <4>1. c \in Key
        BY DEF TypeOK, Senders, Slot
      <4> QED BY <4>1 DEF Key
    <3>2. k.with # None
      BY <2>2, <3>1, NoneIsNoTag
    <3>3. ~Fresh(n, c)
      BY <1>1, <2>1, <2>2, <3>1, <3>2 DEF SlotOK, Fresh
    <3>4. PICK o \in Senders(n) : Succeeds(o, c)
      BY <3>3, SendersCome
    <3>5. Matches(m, k, o)
      BY <1>1, <2>1, <2>2, <3>4 DEF SlotOK, Succeeds
    <3> QED BY <2>1, <3>4, <3>5, NoneIsNoTag DEF Matches, Succeeds
  <2> QED BY <1>1, <1>2, <2>1, <2>2 DEF SlotOK, Matches
<1>4. \A k \in Slots(m)' : SlotOK(m, k)'
  BY <1>2, <1>3 DEF Slots
<1>5. \A k \in Senders(m)' : SenderOK(m, k)'
  BY <1>2 DEF NodeOK, SenderOK, Senders, HasAuth
<1>6. Distinct(primary'[m], secondary'[m], stale'[m])
  BY <1>2 DEF NodeOK
<1> QED BY <1>4, <1>5, <1>6 DEF NodeOK

LEMMA ActsKeepsInv ==
  ASSUME IInv, TypeOK', NEW n \in Node, Acts(n)
  PROVE  IInv'
<1>1. TypeOK /\ NodeOK(n) /\ NodeOK(Other(n)) /\ Node = {n, Other(n)}
  BY PeersDiffer DEF IInv, Node, Other
<1>2. NodeOK(n)' /\ NodeOK(Other(n))'
  BY <1>1, ActorOK, PeerOK
<1> QED BY <1>1, <1>2 DEF IInv
-----------------------------------------------------------------------------
(* KeyContext *)

LEMMA QueueAuth ==
  ASSUME NEW k \in Key, NEW m \in Message
  PROVE  /\ Append(k.out, m) \in Seq(Message)
         /\ \A r : r.out = Append(k.out, m) => (HasAuth(r) <=> HasAuth(k) \/ m = "auth")
<1>1. k.out \in Seq(Message) /\ Len(k.out) \in Nat
  BY LenProperties DEF Key
<1>2. /\ Append(k.out, m) \in Seq(Message) /\ Len(Append(k.out, m)) = Len(k.out) + 1
      /\ \A i \in 1 .. Len(k.out) : Append(k.out, m)[i] = k.out[i]
      /\ Append(k.out, m)[Len(k.out) + 1] = m
  BY <1>1, AppendProperties
<1>3. ASSUME NEW r, r.out = Append(k.out, m)
      PROVE  HasAuth(r) <=> HasAuth(k) \/ m = "auth"
  <2>1. Len(r.out) = Len(k.out) + 1 /\ r.out[Len(k.out) + 1] = m
        /\ \A i \in 1 .. Len(k.out) : r.out[i] = k.out[i]
    BY <1>2, <1>3
  <2>2. \A i \in 1 .. Len(k.out) + 1 : i = Len(k.out) + 1 \/ i \in 1 .. Len(k.out)
    BY <1>1
  <2>3. Len(k.out) + 1 \in 1 .. Len(k.out) + 1 /\ \A i \in 1 .. Len(k.out) : i \in 1 .. Len(k.out) + 1
    BY <1>1
  <2> QED BY <2>1, <2>2, <2>3, Zenon DEF HasAuth
<1> QED BY <1>2, <1>3

\* post_ack_action() is not what brings the peer's messages.
LEMMA PostAckKeeps ==
  ASSUME TypeOK, NEW n \in Node, NEW k \in Key, NEW sent
  PROVE  LET r == PostAckAction(n, k, sent) IN
         /\ r \in Key
         /\ r.tag = k.tag /\ r.with = k.with
         /\ r.state \in Late <=> k.state \in Late
         /\ HasAuth(r) <=> HasAuth(k)
         /\ r.state = "active" => \/ k.state = "active" /\ r.crypto = k.crypto
                                  \/ r.crypto = ~deferred[n]
<1>1. CASE k.acked < sent
  BY <1>1 DEF PostAckAction
<1>2. CASE ~(k.acked < sent) /\ k.state = "wait_reset_ack"
  <2> DEFINE r == [k EXCEPT !.state = "wait_auth",
                            !.out = IF n = Client THEN Append(@, "hello") ELSE @]
  <2>1. PostAckAction(n, k, sent) = r
    BY <1>2 DEF PostAckAction
  <2>2. "hello" \in Message
    BY DEF Message
  <2>3. r \in Key /\ r.tag = k.tag /\ r.with = k.with /\ r.state = "wait_auth"
        /\ (r.out = k.out \/ r.out = Append(k.out, "hello"))
    BY <2>2, QueueAuth DEF Key, State, Started
  <2>4. HasAuth(r) <=> HasAuth(k)
    BY <2>2, <2>3, QueueAuth DEF HasAuth
  <2> HIDE DEF r
  <2> QED BY <1>2, <2>1, <2>3, <2>4 DEF Late
<1>3. CASE ~(k.acked < sent) /\ k.state = "wait_auth_ack"
  <2> DEFINE r == Active(n, k)
  <2>1. PostAckAction(n, k, sent) = r
    BY <1>3 DEF PostAckAction
  <2>2. deferred[n] \in BOOLEAN
    BY DEF TypeOK
  <2>3. r \in Key /\ r.tag = k.tag /\ r.with = k.with /\ r.state = "active" /\ r.out = k.out
        /\ r.crypto = ~deferred[n]
    BY <2>2 DEF Active, Key, State, Started, Event
  <2>4. HasAuth(r) <=> HasAuth(k)
    BY <2>3 DEF HasAuth
  <2> HIDE DEF r
  <2> QED BY <1>3, <2>1, <2>3, <2>4 DEF Late
<1>4. CASE ~(k.acked < sent) /\ k.state # "wait_reset_ack" /\ k.state # "wait_auth_ack"
  BY <1>4 DEF PostAckAction
<1> QED BY <1>1, <1>2, <1>3, <1>4

\* What the packet's message does, before flush().
Takes(n, k, from, i) ==
    [(CASE from.out[i] = "reset" -> RawRecv(n, k)
        [] from.out[i] = "hello" -> Handshake(n, k, from)
        [] from.out[i] = "auth" -> AppRecv(n, k)) EXCEPT !.got = i]

LEMMA GotKeeps ==
  ASSUME NEW u \in Key, NEW i \in Nat
  PROVE  LET r == [u EXCEPT !.got = i] IN
         /\ r \in Key
         /\ r.tag = u.tag /\ r.crypto = u.crypto /\ r.state = u.state /\ r.with = u.with
         /\ r.out = u.out /\ (HasAuth(r) <=> HasAuth(u))
  BY DEF Key, HasAuth

\* How it leaves the context.
TakesWell(n, k, from, i, r) ==
    /\ r \in Key
    /\ r.tag = k.tag /\ r.crypto = k.crypto
    /\ k.state \in Late => r.state = k.state
    /\ r.state = "active" <=> k.state = "active"
    /\ r.with # k.with => /\ k.with = None /\ r.with = from.tag
                          /\ n = Client => from.with = k.tag
    /\ r.state \in Late /\ k.state \notin Late =>
         r.with = from.tag /\ from.with = k.tag /\ from.out[i] = "auth"
    /\ n = Server /\ HasAuth(r) => HasAuth(k) \/ r.state \in Late
    /\ from.out[i] = "reset" => /\ r.with = k.with
                                /\ r.state \in Late <=> k.state \in Late
                                /\ HasAuth(r) <=> HasAuth(k)

LEMMA TakesKeeps ==
  ASSUME NEW n \in Node, NEW k \in Key, NEW from \in Key, NEW i \in 1 .. Len(from.out),
         Accepts(n, k, from, i), NEW r, r = Takes(n, k, from, i)
  PROVE  TakesWell(n, k, from, i, r)
<1>1. from.out[i] \in Message /\ Message = {"reset", "hello", "auth"} /\ from.tag \in Nat /\ i \in Nat
  BY ElementOfSeq, LenProperties DEF Key, Message
<1>2. CASE from.out[i] = "reset"
  <2>1. r = [RawRecv(n, k) EXCEPT !.got = i]
    BY <1>2 DEF Takes
  <2>2. CASE k.state # "wait_reset"
    <3>1. RawRecv(n, k) = k
      BY <2>2 DEF RawRecv
    <3>2. r \in Key /\ r.tag = k.tag /\ r.crypto = k.crypto /\ r.state = k.state /\ r.with = k.with
          /\ (HasAuth(r) <=> HasAuth(k))
      BY <1>1, <2>1, <3>1, GotKeeps
    <3> QED BY <3>2 DEF TakesWell
  <2>3. CASE k.state = "wait_reset"
    <3> DEFINE u == [k EXCEPT !.state = "wait_reset_ack",
                              !.out = IF n = Server THEN Append(@, "reset") ELSE @]
    <3>1. r = [u EXCEPT !.got = i]
      BY <2>1, <2>3 DEF RawRecv
    <3>2. u \in Key /\ u.tag = k.tag /\ u.crypto = k.crypto /\ u.state = "wait_reset_ack" /\ u.with = k.with
          /\ (u.out = k.out \/ u.out = Append(k.out, "reset"))
      BY <1>1, QueueAuth DEF Key, State
    <3> HIDE DEF u
    <3>3. HasAuth(u) <=> HasAuth(k)
      BY <1>1, <3>2, QueueAuth DEF HasAuth
    <3>4. r.tag = u.tag /\ r.crypto = u.crypto /\ r.state = u.state /\ r.with = u.with /\ r \in Key
          /\ (HasAuth(r) <=> HasAuth(u))
      BY <1>1, <3>1, <3>2, GotKeeps
    <3> QED BY <2>3, <3>2, <3>3, <3>4 DEF Late, TakesWell
  <2> QED BY <2>2, <2>3
<1>3. CASE from.out[i] = "hello"
  <2> DEFINE m == IF n = Client THEN "auth" ELSE "hello"
             u == [k EXCEPT !.with = from.tag, !.out = Append(@, m)]
  <2>1. r = [u EXCEPT !.got = i] /\ m \in Message
    BY <1>1, <1>3 DEF Takes, Handshake
  <2>2. k.with = None /\ (n = Client => from.with = k.tag)
    BY <1>3 DEF Accepts
  <2>3. n = Server => m # "auth"
    BY PeersDiffer
  <2> HIDE DEF m
  <2>4. u \in Key /\ u.tag = k.tag /\ u.crypto = k.crypto /\ u.state = k.state /\ u.with = from.tag
        /\ u.out = Append(k.out, m)
    BY <1>1, <2>1, QueueAuth DEF Key
  <2> HIDE DEF u
  <2>5. n = Server => (HasAuth(u) <=> HasAuth(k))
    BY <2>1, <2>3, <2>4, QueueAuth
  <2>6. r.tag = u.tag /\ r.crypto = u.crypto /\ r.state = u.state /\ r.with = u.with /\ r \in Key
        /\ (HasAuth(r) <=> HasAuth(u))
    BY <1>1, <2>1, <2>4, GotKeeps
  <2> QED BY <1>3, <2>2, <2>4, <2>5, <2>6 DEF TakesWell
<1>4. CASE from.out[i] = "auth"
  <2>1. r = [AppRecv(n, k) EXCEPT !.got = i]
    BY <1>4 DEF Takes
  <2>2. k.with = from.tag /\ from.with = k.tag
    BY <1>4 DEF Accepts
  <2>3. CASE k.state # "wait_auth"
    <3>1. AppRecv(n, k) = k
      BY <2>3 DEF AppRecv
    <3>2. r \in Key /\ r.tag = k.tag /\ r.crypto = k.crypto /\ r.state = k.state /\ r.with = k.with
          /\ (HasAuth(r) <=> HasAuth(k))
      BY <1>1, <2>1, <3>1, GotKeeps
    <3> QED BY <3>2 DEF TakesWell
  <2>4. CASE k.state = "wait_auth"
    <3> DEFINE u == [k EXCEPT !.state = "wait_auth_ack",
                              !.out = IF n = Server THEN Append(@, "auth") ELSE @]
    <3>1. r = [u EXCEPT !.got = i]
      BY <2>1, <2>4 DEF AppRecv
    <3>2. u \in Key /\ u.tag = k.tag /\ u.crypto = k.crypto /\ u.state = "wait_auth_ack" /\ u.with = k.with
      BY <1>1, QueueAuth DEF Key, State, Started
    <3> HIDE DEF u
    <3>3. r.tag = u.tag /\ r.crypto = u.crypto /\ r.state = u.state /\ r.with = u.with /\ r \in Key
      BY <1>1, <3>1, <3>2, GotKeeps
    <3> QED BY <1>4, <2>2, <2>4, <3>2, <3>3 DEF Late, TakesWell
  <2> QED BY <2>3, <2>4
<1> QED BY <1>1, <1>2, <1>3, <1>4
LEMMA NetRecvIsTakes ==
  ASSUME NEW n, NEW k, NEW from, NEW i
  PROVE  NetRecv(n, k, from, i) = PostAckAction(n, Takes(n, k, from, i), Len(k.out))
  BY DEF NetRecv, Takes

\* A packet of a context that may arrive, and that has the id.
LEMMA RecvEvolves ==
  ASSUME TypeOK, NEW n \in Node, NEW k \in Slots(n), SlotOK(n, k), deferred' = deferred,
         NEW from \in Senders(Other(n)), NEW i \in 1 .. Len(from.out),
         Accepts(n, k, from, i), KeyId(from.tag) = KeyId(k.tag)
  PROVE  NetRecv(n, k, from, i) \in Key /\ Evolves(n, k, NetRecv(n, k, from, i))
<1>1. k \in Key /\ from \in Key
  BY OtherIsNode, SendersTyped
<1>2. PICK t : t = Takes(n, k, from, i)
  OBVIOUS
<1>3. TakesWell(n, k, from, i, t)
  BY <1>1, <1>2, TakesKeeps
<1>4. PICK r : r = PostAckAction(n, t, Len(k.out))
  OBVIOUS
<1>5. NetRecv(n, k, from, i) = r
  BY <1>2, <1>4, NetRecvIsTakes
<1>6. /\ r \in Key /\ r.tag = t.tag /\ r.with = t.with
      /\ r.state \in Late <=> t.state \in Late
      /\ HasAuth(r) <=> HasAuth(t)
      /\ r.state = "active" => \/ t.state = "active" /\ r.crypto = t.crypto
                               \/ r.crypto = ~deferred[n]
  BY <1>3, <1>4, PostAckKeeps DEF TakesWell
<1>7. Succeeds(k, r)
  BY <1>3, <1>6 DEF TakesWell, Succeeds
<1>8. r.with # k.with => /\ r.with = from.tag /\ KeyId(from.tag) = KeyId(r.tag)
                         /\ n = Client => from.with = r.tag
  BY <1>3, <1>6 DEF TakesWell
<1>9. r.state \in Late /\ k.state \notin Late => r.with = from.tag /\ from.with = r.tag /\ HasAuth(from)
  BY <1>3, <1>6 DEF TakesWell, HasAuth
<1>10. n = Server /\ HasAuth(r) => HasAuth(k) \/ r.state \in Late
  BY <1>3, <1>6 DEF TakesWell
<1>11. r.state = "active" /\ ~deferred[n] => r.crypto
  <2>1. CASE t.state = "active" /\ r.crypto = t.crypto
    BY <1>3, <2>1 DEF TakesWell, SlotOK
  <2>2. CASE r.crypto = ~deferred[n]
    BY <2>2
  <2> QED BY <1>6, <2>1, <2>2
<1> QED BY <1>5, <1>6, <1>7, <1>8, <1>9, <1>10, <1>11 DEF Evolves

\* Its acknowledgments.
LEMMA AckEvolves ==
  ASSUME TypeOK, NEW n \in Node, NEW k \in Slots(n), SlotOK(n, k), deferred' = deferred, NEW a \in Nat,
         NEW r, r = PostAckAction(n, [k EXCEPT !.acked = a], Len(k.out))
  PROVE  r \in Key /\ Evolves(n, k, r)
<1>1. k \in Key
  BY SendersTyped
<1>2. PICK t : t = [k EXCEPT !.acked = a]
  OBVIOUS
<1>3. t \in Key /\ t.tag = k.tag /\ t.with = k.with /\ t.state = k.state /\ t.crypto = k.crypto /\ t.out = k.out
  BY <1>1, <1>2 DEF Key
<1>4. HasAuth(t) <=> HasAuth(k)
  BY <1>3 DEF HasAuth
<1>5. /\ r \in Key /\ r.tag = t.tag /\ r.with = t.with
      /\ r.state \in Late <=> t.state \in Late
      /\ HasAuth(r) <=> HasAuth(t)
      /\ r.state = "active" => \/ t.state = "active" /\ r.crypto = t.crypto
                               \/ r.crypto = ~deferred[n]
  <2>1. r = PostAckAction(n, t, Len(k.out))
    BY <1>2
  <2> HIDE <1>2
  <2> QED BY <1>3, <2>1, PostAckKeeps
<1>6. r.state = "active" /\ ~deferred[n] => r.crypto
  <2>1. CASE t.state = "active" /\ r.crypto = t.crypto
    BY <1>3, <2>1 DEF SlotOK
  <2>2. CASE r.crypto = ~deferred[n]
    BY <2>2
  <2> QED BY <1>5, <2>1, <2>2
<1> QED BY <1>3, <1>4, <1>5, <1>6 DEF Evolves, Succeeds

\* Its timers and its key limit.
LEMMA SameEvolves ==
  ASSUME NEW n \in Node, NEW k, SlotOK(n, k), deferred' = deferred,
         NEW r, r.tag = k.tag, r.with = k.with, r.state = k.state, r.crypto = k.crypto, r.out = k.out
  PROVE  Evolves(n, k, r)
  BY DEF SlotOK, Evolves, Succeeds, HasAuth

\* A context that has just been made, maybe for the packet that asks for it.
Blank(n, k) == k.tag = made[n] /\ k.with = None /\ k.state \notin Late /\ ~HasAuth(k)

LEMMA NewIsBlank ==
  ASSUME TypeOK, NEW n \in Node, NEW initiator \in BOOLEAN
  PROVE  NewKey(made[n], initiator) \in Key /\ Blank(n, NewKey(made[n], initiator))
<1> DEFINE k == NewKey(made[n], initiator)
           out == IF initiator THEN <<"reset">> ELSE <<>>
<1>1. out \in Seq(Message) /\ \A i \in 1 .. Len(out) : out[i] # "auth"
  <2>1. CASE initiator
    BY <2>1 DEF Message
  <2>2. CASE ~initiator
    <3>1. out = <<>> /\ Len(out) = 0
      BY <2>2
    <3> QED BY <3>1, EmptySeq
  <2> QED BY <2>1, <2>2
<1>2. made[n] \in Nat
  BY DEF TypeOK
<1> HIDE DEF out
<1>3. k = [tag |-> made[n], state |-> "wait_reset", next |-> "negotiate", fired |-> FALSE,
           invalid |-> FALSE, crypto |-> FALSE, out |-> out, acked |-> 0, got |-> 0, with |-> None]
  BY DEF NewKey, out
<1>4. k \in Key /\ k.tag = made[n] /\ k.with = None /\ k.state = "wait_reset" /\ k.out = out
  BY <1>1, <1>2, <1>3 DEF Key, State, Event
<1> HIDE DEF k
<1> QED BY <1>1, <1>4 DEF Blank, HasAuth, Late, k

LEMMA AskedIsBlank ==
  ASSUME TypeOK, NEW n \in Node, NEW k \in Key, Blank(n, k),
         NEW from \in Key, NEW i \in 1 .. Len(from.out), from.out[i] = "reset", Accepts(n, k, from, i)
  PROVE  NetRecv(n, k, from, i) \in Key /\ Blank(n, NetRecv(n, k, from, i))
<1>1. PICK t : t = Takes(n, k, from, i)
  OBVIOUS
<1>2. TakesWell(n, k, from, i, t)
  BY <1>1, TakesKeeps
<1>3. PICK r : r = PostAckAction(n, t, Len(k.out))
  OBVIOUS
<1>4. NetRecv(n, k, from, i) = r
  BY <1>1, <1>3, NetRecvIsTakes
<1>5. /\ r \in Key /\ r.tag = t.tag /\ r.with = t.with
      /\ r.state \in Late <=> t.state \in Late
      /\ HasAuth(r) <=> HasAuth(t)
  BY <1>2, <1>3, PostAckKeeps DEF TakesWell
<1> QED BY <1>2, <1>4, <1>5 DEF TakesWell, Blank
-----------------------------------------------------------------------------
(* The actions *)

\* What peer n has after a step, of which the other does not take notice.
Has(n, p, s, t, count) ==
    /\ primary' = [primary EXCEPT ![n] = p]
    /\ secondary' = [secondary EXCEPT ![n] = s]
    /\ stale' = [stale EXCEPT ![n] = t]
    /\ made' = [made EXCEPT ![n] = count]

LEMMA HasActs ==
  ASSUME TypeOK, NEW n \in Node, NEW p \in Slot, NEW s \in Slot, NEW t \in Slot, NEW count \in Nat,
         Has(n, p, s, t, count), count >= made[n],
         deferred' \in [Node -> BOOLEAN], deferred'[Other(n)] = deferred[Other(n)], limited' = limited,
         Distinct(p, s, t),
         \A k \in {p, s} \ {NoKey} : Fresh(n, k) \/ \E o \in Slots(n) : Evolves(n, o, k),
         t \in {stale[n], NoKey} \/ \E o \in Slots(n) : Wiped(o, t)
  PROVE  TypeOK' /\ Acts(n)
<1>1. Other(n) \in Node /\ Other(n) # n
  BY OtherIsNode
<1>2. /\ primary \in [Node -> Slot] /\ secondary \in [Node -> Slot] /\ stale \in [Node -> Slot]
      /\ made \in [Node -> Nat] /\ limited \in BOOLEAN
  BY DEF TypeOK
<1>3. TypeOK'
  BY <1>2 DEF TypeOK, Has
<1>4. primary'[n] = p /\ secondary'[n] = s /\ stale'[n] = t /\ made'[n] = count
  BY <1>2 DEF Has
<1>5. UNCHANGED <<primary[Other(n)], secondary[Other(n)], stale[Other(n)], made[Other(n)], deferred[Other(n)]>>
  BY <1>1, <1>2 DEF Has
<1> QED BY <1>3, <1>4, <1>5 DEF Acts

LEMMA Unmoved ==
  ASSUME TypeOK, NEW n \in Node
  PROVE  /\ primary = [primary EXCEPT ![n] = primary[n]]
         /\ secondary = [secondary EXCEPT ![n] = secondary[n]]
         /\ stale = [stale EXCEPT ![n] = stale[n]]
         /\ made = [made EXCEPT ![n] = made[n]]
         /\ deferred \in [Node -> BOOLEAN]
         /\ primary[n] \in Slot /\ secondary[n] \in Slot /\ stale[n] \in Slot /\ made[n] \in Nat
  BY DEF TypeOK

\* Each of the two contexts evolves from the one it was, or has become the other.
LEMMA TwoEvolve ==
  ASSUME TypeOK, NEW n \in Node, NodeOK(n), NEW p \in Slot, NEW s \in Slot,
         Has(n, p, s, stale[n], made[n]),
         deferred' \in [Node -> BOOLEAN], deferred'[Other(n)] = deferred[Other(n)], limited' = limited,
         NEW o \in Slots(n), NEW q \in Slot, {primary[n], secondary[n]} = {o, q},
         p \in Key /\ Evolves(n, o, p),
         s = NoKey \/ (s \in Key /\ q # NoKey /\ primary[n] # secondary[n] /\ Evolves(n, q, s))
  PROVE  TypeOK' /\ Acts(n)
<1>1. p.tag = o.tag
  BY DEF Evolves, Succeeds
<1>2. s # NoKey => q \in Slots(n) /\ s.tag = q.tag /\ q # o
  BY DEF Evolves, Succeeds, Slots
<1>3. Distinct(p, s, stale[n])
  BY <1>1, <1>2 DEF NodeOK, Distinct, Slots
<1>4. \A k \in {p, s} \ {NoKey} : \E x \in Slots(n) : Evolves(n, x, k)
  BY <1>2
<1>5. made[n] \in Nat /\ stale[n] \in Slot
  BY DEF TypeOK
<1> QED BY <1>3, <1>4, <1>5, HasActs

\* The two are not the same.
LEMMA TwoDiffer ==
  ASSUME TypeOK, NEW n \in Node, NodeOK(n), Up(n)
  PROVE  primary[n] # secondary[n] /\ primary[n] \in Slots(n) /\ primary[n] \in Key
  BY DEF NodeOK, Distinct, Up, Slots, TypeOK, Slot

\* The context that is wiped.
WipedKey(n) ==
    IF secondary[n] = NoKey THEN stale[n]
    ELSE [secondary[n] EXCEPT !.next = "expire", !.fired = FALSE, !.crypto = FALSE,
                              !.acked = 0, !.state = "active"]

LEMMA WipeMoves ==
  ASSUME TypeOK, NEW n \in Node, Wipe(n)
  PROVE  /\ stale' = [stale EXCEPT ![n] = WipedKey(n)]
         /\ WipedKey(n) \in Slot
         /\ secondary[n] = NoKey => WipedKey(n) = stale[n]
         /\ secondary[n] # NoKey => secondary[n] \in Slots(n) /\ Wiped(secondary[n], WipedKey(n))
<1>1. stale' = [stale EXCEPT ![n] = WipedKey(n)]
  BY DEF Wipe, WipedKey
<1>2. CASE secondary[n] = NoKey
  BY <1>1, <1>2 DEF WipedKey, TypeOK
<1>3. CASE secondary[n] # NoKey
  <2>1. PICK k : k = secondary[n]
    OBVIOUS
  <2>2. k \in Key
    BY <1>3, <2>1 DEF TypeOK, Slot
  <2> DEFINE w == [k EXCEPT !.next = "expire", !.fired = FALSE, !.crypto = FALSE,
                            !.acked = 0, !.state = "active"]
  <2>3. w \in Key /\ w.tag = k.tag /\ w.with = k.with /\ w.out = k.out /\ w.state = "active"
    BY <2>2 DEF Key, State, Started, Event
  <2>4. WipedKey(n) = w
    BY <1>3, <2>1 DEF WipedKey
  <2> HIDE DEF w
  <2> QED BY <1>1, <1>3, <2>1, <2>3, <2>4 DEF Slot, Wiped, Slots
<1> QED BY <1>2, <1>3

\* A new secondary, while the primary stays the same context.
LEMMA NewSecondaryActs ==
  ASSUME TypeOK, NEW n \in Node, NodeOK(n), Up(n), NEW k \in Key, Blank(n, k), NewSecondary(n, k),
         NEW p \in Key, Evolves(n, primary[n], p), primary' = [primary EXCEPT ![n] = p],
         deferred' = deferred, limited' = limited
  PROVE  TypeOK' /\ Acts(n)
<1>1. /\ stale' = [stale EXCEPT ![n] = WipedKey(n)] /\ WipedKey(n) \in Slot
      /\ secondary[n] = NoKey => WipedKey(n) = stale[n]
      /\ secondary[n] # NoKey => secondary[n] \in Slots(n) /\ Wiped(secondary[n], WipedKey(n))
  BY WipeMoves DEF NewSecondary
<1>2. /\ made[n] \in Nat /\ deferred \in [Node -> BOOLEAN]
      /\ primary[n] \in Slots(n)
  BY TwoDiffer DEF TypeOK
<1>3. Has(n, p, k, WipedKey(n), made[n] + 1)
  BY <1>1 DEF Has, NewSecondary
<1>4. made'[n] = made[n] + 1
  BY DEF NewSecondary, TypeOK
<1>5. Fresh(n, k)
  BY <1>2, <1>4 DEF Fresh, Blank
<1>6. \A o \in Senders(n) : o.tag # made[n]
  BY <1>2, SendersTyped DEF NodeOK, SenderOK
<1>7. p.tag = primary[n].tag /\ k.tag = made[n]
  BY DEF Evolves, Succeeds, Blank
<1>8. Distinct(p, k, WipedKey(n))
  <2>1. p.tag # k.tag
    BY <1>2, <1>6, <1>7, SendersTyped
  <2>2. CASE secondary[n] = NoKey
    <3>1. WipedKey(n) # NoKey => k.tag # stale[n].tag /\ p.tag # stale[n].tag
      BY <1>1, <1>2, <1>6, <1>7, <2>2 DEF NodeOK, Distinct, Senders, Up
    <3> QED BY <1>1, <2>1, <2>2, <3>1 DEF Distinct
  <2>3. CASE secondary[n] # NoKey
    <3>1. k.tag # secondary[n].tag /\ p.tag # secondary[n].tag
      BY <1>2, <1>6, <1>7, <2>3 DEF NodeOK, Distinct, Senders, Up
    <3> QED BY <1>1, <2>1, <2>3, <3>1 DEF Distinct, Wiped
  <2> QED BY <2>2, <2>3
<1>9. \A x \in {p, k} \ {NoKey} : Fresh(n, x) \/ \E o \in Slots(n) : Evolves(n, o, x)
  BY <1>2, <1>5
<1>10. WipedKey(n) \in {stale[n], NoKey} \/ \E o \in Slots(n) : Wiped(o, WipedKey(n))
  BY <1>1
<1> QED BY <1>1, <1>2, <1>3, <1>8, <1>9, <1>10, HasActs DEF Slot
\* One of the events that a timer is set for, or the flags of a context.
LEMMA EventEvolves ==
  ASSUME NEW n \in Node, NEW k \in Key, SlotOK(n, k), deferred' = deferred,
         NEW e \in Event, NEW f \in BOOLEAN, NEW v \in BOOLEAN,
         NEW r, r = [k EXCEPT !.next = e, !.fired = f, !.invalid = v]
  PROVE  r \in Key /\ Evolves(n, k, r)
<1>1. r \in Key /\ r.tag = k.tag /\ r.with = k.with /\ r.state = k.state /\ r.crypto = k.crypto /\ r.out = k.out
  BY DEF Key
<1> QED BY <1>1, SameEvolves

LEMMA ExpireEvolves ==
  ASSUME NEW n \in Node, NEW k \in Key, SlotOK(n, k), deferred' = deferred
  PROVE  PrepareExpire(k) \in Key /\ Evolves(n, k, PrepareExpire(k))
<1>1. PICK r : r = PrepareExpire(k)
  OBVIOUS
<1>2. r \in Key /\ r.tag = k.tag /\ r.with = k.with /\ r.state = k.state /\ r.crypto = k.crypto /\ r.out = k.out
  BY <1>1 DEF PrepareExpire, Key, Event
<1>3. Evolves(n, k, r)
  BY <1>2, SameEvolves
<1> QED BY <1>1, <1>2, <1>3

\* The parts of the invariant that the actions of a peer rest on.
LEMMA InvAt ==
  ASSUME IInv, NEW n \in Node
  PROVE  TypeOK /\ NodeOK(n) /\ \A k \in Slots(n) : k \in Key /\ SlotOK(n, k)
  BY SendersTyped DEF IInv, NodeOK

\* The primary evolves.
LEMMA PrimaryActs ==
  ASSUME IInv, NEW n \in Node, Up(n), NEW p \in Key, Evolves(n, primary[n], p),
         primary' = [primary EXCEPT ![n] = p],
         UNCHANGED <<secondary, stale, made, deferred, limited>>
  PROVE  TypeOK' /\ Acts(n)
<1>1. TypeOK /\ NodeOK(n) /\ primary[n] # secondary[n] /\ primary[n] \in Slots(n)
  BY InvAt, TwoDiffer
<1>2. Has(n, p, secondary[n], stale[n], made[n])
  BY <1>1, Unmoved DEF Has
<1>3. secondary[n] # NoKey => secondary[n] \in Key /\ Evolves(n, secondary[n], secondary[n])
  <2>1. ASSUME secondary[n] # NoKey
        PROVE  secondary[n] \in Key /\ SlotOK(n, secondary[n])
    BY <2>1, InvAt DEF Slots
  <2> QED BY <2>1, SameEvolves
<1>4. p \in Slot /\ secondary[n] \in Slot /\ deferred \in [Node -> BOOLEAN]
  BY <1>1, Unmoved DEF Slot
<1> QED BY <1>1, <1>2, <1>3, <1>4, TwoEvolve

\* The secondary evolves, or goes, while the primary keeps its state.
LEMMA PutActs ==
  ASSUME IInv, NEW n \in Node, Up(n), secondary[n] # NoKey,
         NEW k \in Key, Evolves(n, secondary[n], k), PutSecondary(n, k),
         UNCHANGED <<stale, made, deferred, limited>>
  PROVE  TypeOK' /\ Acts(n)
<1>1. TypeOK /\ NodeOK(n) /\ primary[n] # secondary[n] /\ primary[n] \in Slots(n) /\ primary[n] \in Key
      /\ SlotOK(n, primary[n])
  BY InvAt, TwoDiffer
<1>2. PICK p : /\ p = primary[n] \/ p = PrepareExpire(primary[n])
               /\ primary' = [primary EXCEPT ![n] = p]
  <2>1. primary = [primary EXCEPT ![n] = primary[n]]
    BY <1>1, Unmoved
  <2> QED BY <2>1 DEF PutSecondary
<1>3. p \in Key /\ Evolves(n, primary[n], p)
  <2>1. Evolves(n, primary[n], primary[n])
    BY <1>1, SameEvolves
  <2> QED BY <1>1, <1>2, <2>1, ExpireEvolves
<1>4. Has(n, p, k, stale[n], made[n])
  BY <1>1, <1>2, Unmoved DEF Has, PutSecondary
<1>5. p \in Slot /\ k \in Slot /\ secondary[n] \in Slot /\ deferred \in [Node -> BOOLEAN]
  BY <1>1, <1>3, Unmoved DEF Slot
<1> QED BY <1>1, <1>3, <1>4, <1>5, TwoEvolve

\* promote_secondary_to_primary() keeps both contexts.
LEMMA PromoteActs ==
  ASSUME IInv, NEW n \in Node, Up(n), secondary[n] # NoKey,
         NEW new \in Key, Evolves(n, secondary[n], new),
         NEW old \in Key, old.tag = primary[n].tag, old.with = primary[n].with, old.state = primary[n].state,
         old.crypto = primary[n].crypto, old.out = primary[n].out,
         Promote(n, new, old), UNCHANGED <<deferred, limited>>
  PROVE  TypeOK' /\ Acts(n)
<1>1. TypeOK /\ NodeOK(n) /\ primary[n] # secondary[n] /\ primary[n] \in Slots(n) /\ primary[n] \in Key
      /\ SlotOK(n, primary[n]) /\ secondary[n] \in Slots(n)
  BY InvAt, TwoDiffer DEF Slots
<1>2. PICK s : s = PrepareExpire(old)
  OBVIOUS
<1>3. s \in Key /\ s.tag = old.tag /\ s.with = old.with /\ s.state = old.state /\ s.crypto = old.crypto /\ s.out = old.out
  BY <1>2 DEF PrepareExpire, Key, Event
<1>4. Evolves(n, primary[n], s)
  BY <1>1, <1>3, SameEvolves
<1>5. Has(n, new, s, stale[n], made[n])
  BY <1>1, <1>2, Unmoved DEF Has, Promote
<1>6. new \in Slot /\ s \in Slot /\ primary[n] \in Slot /\ primary[n] # NoKey /\ deferred \in [Node -> BOOLEAN]
  BY <1>1, <1>3, Unmoved DEF Slot, Up
<1> QED BY <1>1, <1>3, <1>4, <1>5, <1>6, TwoEvolve

\* disconnect() leaves nothing.
LEMMA DisconnectActs ==
  ASSUME IInv, NEW n \in Node, Disconnect(n)
  PROVE  TypeOK' /\ Acts(n)
<1>1. TypeOK
  BY DEF IInv
<1>2. Has(n, NoKey, NoKey, NoKey, made[n])
  BY <1>1, Unmoved DEF Has, Disconnect
<1>3. Distinct(NoKey, NoKey, NoKey) /\ NoKey \in Slot
  BY DEF Distinct, Slot
<1>4. made[n] \in Nat /\ deferred' = deferred /\ limited' = limited /\ deferred \in [Node -> BOOLEAN]
  BY <1>1 DEF TypeOK, Disconnect
<1> QED BY <1>1, <1>2, <1>3, <1>4, HasActs
LEMMA ReceiveActs ==
  ASSUME IInv, NEW n \in Node, Receive(n, Senders(Other(n)))
  PROVE  TypeOK' /\ Acts(n)
<1>1. TypeOK /\ NodeOK(n) /\ primary[n] \in Slots(n) /\ primary[n] \in Key /\ SlotOK(n, primary[n])
  BY InvAt, TwoDiffer DEF Receive
<1>2. Up(n) /\ deferred' = deferred /\ limited' = limited
  BY DEF Receive
<1>3. PICK from \in Senders(Other(n)), i \in 1 .. 4 :
        /\ i <= Len(from.out)
        /\ \/ /\ ForPrimary(n, KeyId(from.tag))
              /\ Accepts(n, primary[n], from, i)
              /\ primary' = [primary EXCEPT ![n] = NetRecv(n, @, from, i)]
              /\ UNCHANGED <<secondary, stale, made>>
           \/ /\ ForSecondary(n, KeyId(from.tag))
              /\ Accepts(n, secondary[n], from, i)
              /\ PutSecondary(n, NetRecv(n, secondary[n], from, i))
              /\ UNCHANGED <<stale, made>>
           \/ /\ ForNew(n, KeyId(from.tag))
              /\ from.out[i] = "reset"
              /\ LET k == NewKey(made[n], FALSE)
                 IN  NewSecondary(n, IF Accepts(n, k, from, i) THEN NetRecv(n, k, from, i) ELSE k)
              /\ UNCHANGED primary
  BY Zenon DEF Receive
<1>4. from \in Key /\ Len(from.out) \in Nat
  BY <1>1, OtherIsNode, SendersTyped, LenProperties DEF Key
<1>5. i \in 1 .. Len(from.out)
  BY <1>3, <1>4
<1>6. CASE /\ ForPrimary(n, KeyId(from.tag))
           /\ Accepts(n, primary[n], from, i)
           /\ primary' = [primary EXCEPT ![n] = NetRecv(n, @, from, i)]
           /\ UNCHANGED <<secondary, stale, made>>
  <2>1. PICK p : p = NetRecv(n, primary[n], from, i)
    OBVIOUS
  <2>2. p \in Key /\ Evolves(n, primary[n], p)
    BY <1>1, <1>2, <1>5, <1>6, <2>1, RecvEvolves DEF ForPrimary
  <2>3. primary' = [primary EXCEPT ![n] = p]
    BY <1>6, <2>1
  <2> QED BY <1>2, <1>6, <2>2, <2>3, PrimaryActs
<1>7. CASE /\ ForSecondary(n, KeyId(from.tag))
           /\ Accepts(n, secondary[n], from, i)
           /\ PutSecondary(n, NetRecv(n, secondary[n], from, i))
           /\ UNCHANGED <<stale, made>>
  <2>1. PICK k : k = NetRecv(n, secondary[n], from, i)
    OBVIOUS
  <2>2. secondary[n] # NoKey /\ secondary[n] \in Slots(n) /\ SlotOK(n, secondary[n])
    BY <1>7, InvAt DEF ForSecondary, Slots
  <2>3. k \in Key /\ Evolves(n, secondary[n], k)
    BY <1>1, <1>2, <1>5, <1>7, <2>1, <2>2, RecvEvolves DEF ForSecondary
  <2>4. PutSecondary(n, k)
    BY <1>7, <2>1
  <2> QED BY <1>2, <1>7, <2>2, <2>3, <2>4, PutActs
<1>8. CASE /\ from.out[i] = "reset"
           /\ LET k == NewKey(made[n], FALSE)
              IN  NewSecondary(n, IF Accepts(n, k, from, i) THEN NetRecv(n, k, from, i) ELSE k)
           /\ UNCHANGED primary
  <2>1. PICK k : k = NewKey(made[n], FALSE)
    OBVIOUS
  <2>2. k \in Key /\ Blank(n, k)
    BY <1>1, <2>1, NewIsBlank
  <2>3. PICK r : r = IF Accepts(n, k, from, i) THEN NetRecv(n, k, from, i) ELSE k
    OBVIOUS
  <2>4. r \in Key /\ Blank(n, r)
    BY <1>1, <1>4, <1>5, <1>8, <2>2, <2>3, AskedIsBlank
  <2>5. NewSecondary(n, r)
    BY <1>8, <2>1, <2>3
  <2>6. Evolves(n, primary[n], primary[n]) /\ primary' = [primary EXCEPT ![n] = primary[n]]
    BY <1>1, <1>2, <1>8, SameEvolves, Unmoved
  <2> QED BY <1>1, <1>2, <2>4, <2>5, <2>6, NewSecondaryActs
<1> QED BY <1>3, <1>6, <1>7, <1>8

LEMMA AckActs ==
  ASSUME IInv, NEW n \in Node, ReceiveAck(n, Senders(Other(n)))
  PROVE  TypeOK' /\ Acts(n)
<1>1. TypeOK /\ NodeOK(n) /\ primary[n] \in Slots(n) /\ primary[n] \in Key /\ SlotOK(n, primary[n])
  BY InvAt, TwoDiffer DEF ReceiveAck
<1>2. Up(n) /\ deferred' = deferred /\ UNCHANGED <<stale, made, deferred, limited>>
  BY DEF ReceiveAck
<1> DEFINE Acked(k, a) == PostAckAction(n, [k EXCEPT !.acked = a], Len(k.out))
<1>3. PICK from \in Senders(Other(n)) :
        \/ /\ primary' = [primary EXCEPT ![n] = Acked(@, from.got)]
           /\ UNCHANGED secondary
        \/ /\ ForSecondary(n, KeyId(from.tag))
           /\ PutSecondary(n, Acked(secondary[n], from.got))
  BY DEF ReceiveAck
<1>4. from.got \in Nat
  <2>1. from \in Key
    BY <1>1, OtherIsNode, SendersTyped
  <2> QED BY <2>1 DEF Key
<1>5. CASE /\ primary' = [primary EXCEPT ![n] = Acked(@, from.got)]
           /\ UNCHANGED secondary
  <2>1. PICK p : p = Acked(primary[n], from.got)
    OBVIOUS
  <2>2. primary' = [primary EXCEPT ![n] = p]
    BY <1>5, <2>1
  <2>3. p \in Key /\ Evolves(n, primary[n], p)
    BY <1>1, <1>2, <1>4, <2>1, AckEvolves
  <2> QED BY <1>2, <1>5, <2>2, <2>3, PrimaryActs
<1>6. CASE ForSecondary(n, KeyId(from.tag)) /\ PutSecondary(n, Acked(secondary[n], from.got))
  <2>1. PICK k : k = Acked(secondary[n], from.got)
    OBVIOUS
  <2>2. PutSecondary(n, k)
    BY <1>6, <2>1
  <2>3. secondary[n] # NoKey /\ secondary[n] \in Slots(n) /\ SlotOK(n, secondary[n])
    BY <1>6, InvAt DEF ForSecondary, Slots
  <2>4. k \in Key /\ Evolves(n, secondary[n], k)
    BY <1>1, <1>2, <1>4, <2>1, <2>3, AckEvolves
  <2> QED BY <1>2, <2>2, <2>3, <2>4, PutActs
<1> QED BY <1>3, <1>5, <1>6

LEMMA PrimaryTimerActs ==
  ASSUME IInv, NEW n \in Node, PrimaryTimer(n)
  PROVE  TypeOK' /\ Acts(n)
<1>1. TypeOK /\ NodeOK(n) /\ primary[n] \in Slots(n) /\ primary[n] \in Key /\ SlotOK(n, primary[n]) /\ Up(n)
  BY InvAt, TwoDiffer DEF PrimaryTimer
<1>2. PICK k : k = primary[n]
  OBVIOUS
<1>3. k.invalid \in BOOLEAN /\ k.fired \in BOOLEAN /\ k.next \in Event
  BY <1>1, <1>2 DEF Key
<1>4. CASE \E e \in {"primary_pending", "renegotiate"} :
             /\ primary' = [primary EXCEPT ![n].next = e]
             /\ UNCHANGED <<secondary, stale, made, deferred, limited>>
  <2>1. PICK e \in {"primary_pending", "renegotiate"} : primary' = [primary EXCEPT ![n].next = e]
    BY <1>4
  <2>2. PICK r : r = [k EXCEPT !.next = e]
    OBVIOUS
  <2>3. primary' = [primary EXCEPT ![n] = r]
    BY <1>2, <2>1, <2>2
  <2>4. r \in Key /\ r.tag = k.tag /\ r.with = k.with /\ r.state = k.state /\ r.crypto = k.crypto /\ r.out = k.out
    BY <1>1, <1>2, <2>2 DEF Key, Event
  <2>5. Evolves(n, k, r)
    BY <1>1, <1>2, <1>4, <2>4, SameEvolves
  <2> QED BY <1>1, <1>2, <1>4, <2>3, <2>4, <2>5, PrimaryActs
<1>5. CASE /\ primary' = [primary EXCEPT ![n] = PrepareExpire(@)]
           /\ Renegotiate(n)
           /\ UNCHANGED <<deferred, limited>>
  <2>1. PICK p : p = PrepareExpire(primary[n])
    OBVIOUS
  <2>2. primary' = [primary EXCEPT ![n] = p] /\ p \in Key /\ Evolves(n, primary[n], p)
    BY <1>1, <1>5, <2>1, ExpireEvolves
  <2>3. PICK new : new = NewKey(made[n], TRUE)
    OBVIOUS
  <2>4. new \in Key /\ Blank(n, new) /\ NewSecondary(n, new)
    BY <1>1, <1>5, <2>3, NewIsBlank DEF Renegotiate
  <2> QED BY <1>1, <1>5, <2>2, <2>4, NewSecondaryActs
<1>6. CASE Disconnect(n)
  BY <1>6, DisconnectActs
<1>7. CASE /\ secondary[n] # NoKey
           /\ Promote(n, secondary[n], [primary[n] EXCEPT !.invalid = TRUE])
           /\ UNCHANGED <<deferred, limited>>
  <2>1. PICK old : old = [primary[n] EXCEPT !.invalid = TRUE]
    OBVIOUS
  <2>2. /\ old \in Key /\ old.tag = primary[n].tag /\ old.with = primary[n].with /\ old.state = primary[n].state
        /\ old.crypto = primary[n].crypto /\ old.out = primary[n].out
    BY <1>1, <2>1 DEF Key
  <2>3. secondary[n] \in Key /\ SlotOK(n, secondary[n])
    BY <1>7, InvAt DEF Slots
  <2>4. Evolves(n, secondary[n], secondary[n])
    BY <1>7, <2>3, SameEvolves
  <2>5. Promote(n, secondary[n], old)
    BY <1>7, <2>1
  <2> QED BY <1>1, <1>7, <2>2, <2>3, <2>4, <2>5, PromoteActs
<1> QED BY <1>4, <1>5, <1>6, <1>7 DEF PrimaryTimer

LEMMA SecondaryTimerActs ==
  ASSUME IInv, NEW n \in Node, SecondaryTimer(n)
  PROVE  TypeOK' /\ Acts(n)
<1>1. /\ TypeOK /\ NodeOK(n) /\ primary[n] \in Slots(n) /\ primary[n] \in Key /\ SlotOK(n, primary[n]) /\ Up(n)
      /\ secondary[n] # NoKey /\ UNCHANGED <<deferred, limited>>
  BY InvAt, TwoDiffer DEF SecondaryTimer
<1>2. secondary[n] \in Slots(n) /\ secondary[n] \in Key /\ SlotOK(n, secondary[n])
  BY <1>1, InvAt DEF Slots
<1>3. PICK k : k = secondary[n]
  OBVIOUS
<1>4. \A e \in Event :
        LET r == [k EXCEPT !.next = e] IN
        r \in Key /\ Evolves(n, k, r) /\ r.state = k.state
  <2>1. TAKE e \in Event
  <2>2. PICK r : r = [k EXCEPT !.next = e]
    OBVIOUS
  <2>3. r \in Key /\ r.tag = k.tag /\ r.with = k.with /\ r.state = k.state /\ r.crypto = k.crypto /\ r.out = k.out
    BY <1>2, <1>3, <2>2 DEF Key
  <2>4. Evolves(n, k, r)
    BY <1>1, <1>2, <1>3, <2>3, SameEvolves
  <2> QED BY <2>2, <2>3, <2>4
<1>5. "primary_pending" \in Event /\ "renegotiate" \in Event
  BY DEF Event
<1>6. CASE /\ secondary' = [secondary EXCEPT ![n].next = "primary_pending"]
           /\ UNCHANGED <<primary, stale, made>>
  <2>1. PICK r : r = [k EXCEPT !.next = "primary_pending"]
    OBVIOUS
  <2>2. r \in Key /\ Evolves(n, k, r) /\ r.state = k.state
    BY <1>4, <1>5, <2>1
  <2>3. secondary' = [secondary EXCEPT ![n] = r]
    BY <1>3, <1>6, <2>1
  <2>4. PutSecondary(n, r)
    BY <1>3, <1>6, <2>2, <2>3 DEF PutSecondary
  <2> QED BY <1>1, <1>3, <1>6, <2>2, <2>4, PutActs
<1>7. CASE Promote(n, [k EXCEPT !.next = "renegotiate"], primary[n])
  <2>1. PICK r : r = [k EXCEPT !.next = "renegotiate"]
    OBVIOUS
  <2>2. r \in Key /\ Evolves(n, k, r)
    BY <1>4, <1>5, <2>1
  <2>3. Promote(n, r, primary[n])
    BY <1>7, <2>1
  <2> QED BY <1>1, <1>3, <2>2, <2>3, PromoteActs
<1>8. CASE Renegotiate(n) /\ UNCHANGED primary
  <2>1. PICK new : new = NewKey(made[n], TRUE)
    OBVIOUS
  <2>2. new \in Key /\ Blank(n, new) /\ NewSecondary(n, new)
    BY <1>1, <1>8, <2>1, NewIsBlank DEF Renegotiate
  <2>3. Evolves(n, primary[n], primary[n]) /\ primary' = [primary EXCEPT ![n] = primary[n]]
    BY <1>1, <1>8, SameEvolves, Unmoved
  <2> QED BY <1>1, <2>2, <2>3, NewSecondaryActs
<1>9. CASE /\ secondary' = [secondary EXCEPT ![n] = NoKey]
           /\ Wipe(n)
           /\ UNCHANGED <<primary, made>>
  <2>1. /\ stale' = [stale EXCEPT ![n] = WipedKey(n)] /\ WipedKey(n) \in Slot
        /\ Wiped(secondary[n], WipedKey(n))
    BY <1>1, <1>9, WipeMoves
  <2>2. Has(n, primary[n], NoKey, WipedKey(n), made[n])
    BY <1>1, <1>9, <2>1, Unmoved DEF Has
  <2>3. Distinct(primary[n], NoKey, WipedKey(n))
    BY <1>1, <2>1 DEF NodeOK, Distinct, Wiped
  <2>4. Evolves(n, primary[n], primary[n])
    BY <1>1, SameEvolves
  <2>5. primary[n] \in Slot /\ NoKey \in Slot /\ made[n] \in Nat /\ deferred \in [Node -> BOOLEAN]
    BY <1>1, Unmoved DEF Slot
  <2>6. \A x \in {primary[n], NoKey} \ {NoKey} : \E o \in Slots(n) : Evolves(n, o, x)
    BY <1>1, <2>4
  <2>7. made[n] >= made[n]
    BY <2>5
  <2> QED BY <1>1, <1>2, <2>1, <2>2, <2>3, <2>5, <2>6, <2>7, HasActs
<1> QED BY <1>3, <1>6, <1>7, <1>8, <1>9 DEF SecondaryTimer

LEMMA EncryptActs ==
  ASSUME IInv, NEW n \in Node, Encrypt(n)
  PROVE  TypeOK' /\ Acts(n)
<1>1. TypeOK /\ NodeOK(n) /\ primary[n] \in Slots(n) /\ primary[n] \in Key /\ SlotOK(n, primary[n]) /\ Up(n)
  BY InvAt, TwoDiffer DEF Encrypt
<1>2. PICK k : k = primary[n]
  OBVIOUS
<1>3. PICK r : r = [k EXCEPT !.fired = TRUE, !.next = IF @ = "become_primary" THEN @ ELSE "renegotiate"]
  OBVIOUS
<1>4. primary' = [primary EXCEPT ![n] = r]
  BY <1>2, <1>3 DEF Encrypt
<1>5. r \in Key /\ r.tag = k.tag /\ r.with = k.with /\ r.state = k.state /\ r.crypto = k.crypto /\ r.out = k.out
  BY <1>1, <1>2, <1>3 DEF Key, Event
<1>6. UNCHANGED <<secondary, stale, made, deferred, limited>>
  BY DEF Encrypt
<1>7. Evolves(n, k, r)
  BY <1>1, <1>2, <1>5, <1>6, SameEvolves
<1> QED BY <1>1, <1>2, <1>4, <1>5, <1>6, <1>7, PrimaryActs
\* With a data channel, every ACTIVE context is keyed at once.
LEMMA InitDataChannelActs ==
  ASSUME IInv, NEW n \in Node, InitDataChannel(n)
  PROVE  TypeOK' /\ Acts(n)
<1> DEFINE Keyed(k) == IF k # NoKey /\ k.state = "active" THEN [k EXCEPT !.crypto = TRUE] ELSE k
<1>1. TypeOK /\ NodeOK(n) /\ primary[n] # secondary[n] /\ primary[n] \in Slots(n) /\ primary[n] \in Key /\ Up(n)
  BY InvAt, TwoDiffer DEF InitDataChannel
<1>2. ASSUME NEW k \in Slots(n)
      PROVE  Keyed(k) \in Key /\ Evolves(n, k, Keyed(k))
  <2>1. k \in Key /\ k # NoKey /\ SlotOK(n, k)
    BY InvAt DEF Slots
  <2>2. PICK r : r = Keyed(k)
    OBVIOUS
  <2>3. r \in Key /\ r.tag = k.tag /\ r.with = k.with /\ r.state = k.state /\ r.out = k.out
        /\ (r.state = "active" => r.crypto)
    <3>1. CASE k.state = "active"
      BY <2>1, <2>2, <3>1 DEF Key
    <3>2. CASE k.state # "active"
      BY <2>1, <2>2, <3>2
    <3> QED BY <3>1, <3>2
  <2>4. Evolves(n, k, r)
    BY <2>3 DEF Evolves, Succeeds, HasAuth
  <2> QED BY <2>2, <2>3, <2>4
<1>3. PICK p : p = Keyed(primary[n])
  OBVIOUS
<1>4. PICK s : s = Keyed(secondary[n])
  OBVIOUS
<1>5. secondary[n] = NoKey => s = NoKey
  BY <1>4
<1>6. Has(n, p, s, stale[n], made[n])
  BY <1>1, <1>3, <1>4, Unmoved DEF Has, InitDataChannel
<1>7. p \in Key /\ Evolves(n, primary[n], p)
  BY <1>1, <1>2, <1>3
<1>8. s = NoKey \/ (s \in Key /\ secondary[n] # NoKey /\ Evolves(n, secondary[n], s))
  <2>1. CASE secondary[n] = NoKey
    BY <1>5, <2>1
  <2>2. CASE secondary[n] # NoKey
    BY <1>2, <1>4, <2>2 DEF Slots
  <2> QED BY <2>1, <2>2
<1>9. deferred' \in [Node -> BOOLEAN] /\ deferred'[Other(n)] = deferred[Other(n)] /\ limited' = limited
  BY <1>1, OtherIsNode DEF InitDataChannel, TypeOK
<1>10. p \in Slot /\ s \in Slot /\ secondary[n] \in Slot
  BY <1>1, <1>7, <1>8, Unmoved DEF Slot
<1> HIDE DEF Keyed
<1> QED BY <1>1, <1>6, <1>7, <1>8, <1>9, <1>10, TwoEvolve

LEMMA NodeNextActs ==
  ASSUME IInv, NEW n \in Node, NodeNext(n)
  PROVE  TypeOK' /\ Acts(n)
BY ReceiveActs, AckActs, PrimaryTimerActs, SecondaryTimerActs, EncryptActs, InitDataChannelActs,
   DisconnectActs DEF NodeNext, SessionFails

-----------------------------------------------------------------------------
(* The theorems *)

LEMMA InvInitially == Init => IInv
<1> SUFFICES ASSUME Init PROVE IInv
  OBVIOUS
<1>1. \A initiator \in BOOLEAN :
        LET k == NewKey(0, initiator) IN
        k \in Key /\ k.tag = 0 /\ k.with = None /\ k.state = "wait_reset" /\ ~HasAuth(k)
  <2>1. TAKE initiator \in BOOLEAN
  <2> DEFINE out == IF initiator THEN <<"reset">> ELSE <<>>
  <2>2. out \in Seq(Message) /\ \A i \in 1 .. Len(out) : out[i] # "auth"
    <3>1. CASE initiator
      BY <3>1 DEF Message
    <3>2. CASE ~initiator
      <4>1. out = <<>> /\ Len(out) = 0
        BY <3>2
      <4> QED BY <4>1, EmptySeq
    <3> QED BY <3>1, <3>2
  <2>3. PICK k : k = NewKey(0, initiator)
    OBVIOUS
  <2> HIDE DEF out
  <2>4. k = [tag |-> 0, state |-> "wait_reset", next |-> "negotiate", fired |-> FALSE,
             invalid |-> FALSE, crypto |-> FALSE, out |-> out, acked |-> 0, got |-> 0, with |-> None]
    BY <2>3 DEF NewKey, out
  <2>5. k \in Key /\ k.tag = 0 /\ k.with = None /\ k.state = "wait_reset" /\ k.out = out
    BY <2>2, <2>4 DEF Key, State, Event
  <2>6. ~HasAuth(k)
    BY <2>2, <2>5 DEF HasAuth
  <2> QED BY <2>3, <2>5, <2>6
<1>2. TypeOK
  <2>1. primary \in [Node -> Slot]
    BY <1>1 DEF Init, Slot
  <2>2. /\ secondary \in [Node -> Slot] /\ stale \in [Node -> Slot] /\ made \in [Node -> Nat]
        /\ deferred \in [Node -> BOOLEAN] /\ limited \in BOOLEAN
    BY LimitsAreBool DEF Init, Slot
  <2> QED BY <2>1, <2>2 DEF TypeOK
<1>3. ASSUME NEW n \in Node
      PROVE  NodeOK(n)
  <2>1. PICK k : k = NewKey(0, n = Client)
    OBVIOUS
  <2>2. k \in Key /\ k.tag = 0 /\ k.with = None /\ k.state = "wait_reset" /\ ~HasAuth(k)
    BY <1>1, <2>1
  <2>3. primary[n] = k /\ secondary[n] = NoKey /\ stale[n] = NoKey /\ made[n] = 1
    BY <2>1 DEF Init
  <2>4. Senders(n) = {k} /\ Slots(n) = {k}
    BY <2>2, <2>3, NoKeyIsNoKey DEF Senders, Slots
  <2>5. SenderOK(n, k)
    BY <2>2, <2>3 DEF SenderOK
  <2>6. \A c \in Senders(Other(n)) : c.tag # None
    BY <1>2, OtherIsNode, SendersTyped, NoneIsNoTag
  <2>7. SlotOK(n, k)
    BY <2>2, <2>6 DEF SlotOK, Late
  <2> QED BY <2>3, <2>4, <2>5, <2>7 DEF NodeOK, Distinct
<1> QED BY <1>2, <1>3 DEF IInv

LEMMA InvKept == IInv /\ [Next]_vars => IInv'
<1> SUFFICES ASSUME IInv, [Next]_vars PROVE IInv'
  OBVIOUS
<1>1. CASE UNCHANGED vars
  BY <1>1 DEF vars, IInv, TypeOK, NodeOK, SenderOK, SlotOK, Senders, Slots
<1>2. ASSUME NEW n \in Node, NodeNext(n)
      PROVE  IInv'
  BY <1>2, NodeNextActs, ActsKeepsInv
<1> QED BY <1>1, <1>2 DEF Next

LEMMA InvHolds == Safety => []IInv
BY InvInitially, InvKept, PTL DEF Safety

\* Every context is one that KeyContext can be.
THEOREM TypeCorrect == Safety => []TypeOK
<1>1. IInv => TypeOK
  BY DEF IInv
<1> QED BY <1>1, InvHolds, PTL

\* Whatever keys come and go, and whatever the order in which packets of old
\* and new keys arrive, an ACTIVE context and the peer's context that its TLS
\* session is with are each other's, with one key id, and the client is not
\* ACTIVE before the server has its auth message.
THEOREM KeysCorrect == Safety => []KeysAgree
<1>1. IInv => KeysAgree
  <2> SUFFICES ASSUME IInv, NEW n \in Node, NEW k \in Live(n), NEW p \in Live(Other(n)),
                      k.state = "active", p.tag = k.with
               PROVE  /\ p.with = k.tag
                      /\ KeyId(p.tag) = KeyId(k.tag)
                      /\ n = Client => p.state \in {"wait_auth_ack", "active"}
    BY DEF KeysAgree, IInv
  <2>1. k \in Slots(n) /\ p \in Senders(Other(n)) /\ SlotOK(n, k)
    BY InvAt DEF Live, Slots, Senders
  <2>2. Matches(n, k, p) /\ k.state \in Late
    BY <2>1 DEF SlotOK, Late
  <2>3. k.with # None
    BY <2>1, <2>2 DEF SlotOK
  <2> QED BY <2>1, <2>2, <2>3 DEF SlotOK, Matches, Late
<1> QED BY <1>1, InvHolds, PTL

\* No order of the options' push and of the contexts' negotiations leaves an
\* ACTIVE context without its data channel.
THEOREM KeyedCorrect == Safety => []KeyedWhenActive
<1>1. IInv => KeyedWhenActive
  <2> SUFFICES ASSUME IInv, NEW n \in Node, NEW k \in Live(n), k.state = "active", ~deferred[n]
               PROVE  k.crypto
    BY DEF KeyedWhenActive
  <2>1. k \in Slots(n)
    BY DEF Live, Slots
  <2> QED BY <2>1, InvAt DEF SlotOK
<1> QED BY <1>1, InvHolds, PTL

-----------------------------------------------------------------------------
(* A fresh secondary is promoted before the primary renegotiates *)

\* The secondary is to become primary; the primary does not renegotiate before,
\* unless its key limit is reached.
Soon(k) == k # NoKey /\ k.state = "active" /\ k.next = "become_primary"
Due(p) == p # NoKey /\ (p.next \in {"expire", "become_primary"} \/ p.fired)
SoonAt(n) == Soon(secondary[n]) => Due(primary[n])
SoonInv == \A n \in Node : SoonAt(n)

\* What a step does to the secondary of a peer.
FreshAt(n) ==
    /\ secondary[n] # NoKey /\ secondary[n].state = "active" /\ secondary[n].next = "become_primary"
    /\ secondary'[n] # NoKey /\ secondary'[n] = NewKey(made[n], TRUE)
    => primary[n].fired

\* The packets of the peer set no timer but that of a context that is ACTIVE.
Ticks(k, r) ==
    /\ r.next \in {k.next, "become_primary"}
    /\ r.fired = k.fired
    /\ k.state = "active" => r.state = "active" /\ r.next = k.next
    /\ k.state # "wait_reset" => r.state # "wait_reset"

LEMMA PostAckTicks ==
  ASSUME NEW n, NEW k \in Key, NEW sent
  PROVE  Ticks(k, PostAckAction(n, k, sent))
<1>1. PICK r : r = PostAckAction(n, k, sent)
  OBVIOUS
<1>2. CASE r = k
  BY <1>1, <1>2 DEF Ticks
<1>3. CASE k.state = "wait_reset_ack" /\ ~(k.acked < sent)
  <2>1. r = [k EXCEPT !.state = "wait_auth",
                      !.out = IF n = Client THEN Append(@, "hello") ELSE @]
    BY <1>1, <1>3 DEF PostAckAction
  <2>2. r.state = "wait_auth" /\ r.next = k.next /\ r.fired = k.fired
    BY <2>1 DEF Key
  <2> QED BY <1>1, <1>3, <2>2 DEF Ticks
<1>4. CASE k.state = "wait_auth_ack" /\ ~(k.acked < sent)
  <2>1. r = Active(n, k)
    BY <1>1, <1>4 DEF PostAckAction
  <2>2. r.state = "active" /\ r.next = "become_primary" /\ r.fired = k.fired
    BY <2>1 DEF Active, Key
  <2> QED BY <1>1, <1>4, <2>2 DEF Ticks
<1>5. CASE k.acked < sent \/ (k.state # "wait_reset_ack" /\ k.state # "wait_auth_ack")
  BY <1>1, <1>2, <1>5 DEF PostAckAction
<1> QED BY <1>3, <1>4, <1>5

LEMMA GotTicks ==
  ASSUME NEW u \in Key, NEW i
  PROVE  LET r == [u EXCEPT !.got = i] IN r.state = u.state /\ r.next = u.next /\ r.fired = u.fired
  BY DEF Key

LEMMA TakesTicks ==
  ASSUME NEW n \in Node, NEW k \in Key, NEW from \in Key, NEW i \in 1 .. Len(from.out),
         Accepts(n, k, from, i)
  PROVE  /\ Ticks(k, Takes(n, k, from, i))
         /\ from.out[i] = "reset" => Takes(n, k, from, i).state # "wait_reset"
<1>1. from.out[i] \in Message /\ Message = {"reset", "hello", "auth"}
  BY ElementOfSeq, LenProperties DEF Key, Message
<1>2. PICK r : r = Takes(n, k, from, i)
  OBVIOUS
<1> DEFINE Kept(u) == /\ u.next = k.next /\ u.fired = k.fired
                      /\ u.state = k.state \/ (k.state # "active" /\ u.state # "wait_reset")
                      /\ from.out[i] = "reset" => u.state # "wait_reset"
<1>3. ASSUME NEW u, r = [u EXCEPT !.got = i], DOMAIN u = DOMAIN k, Kept(u)
      PROVE  Ticks(k, r) /\ (from.out[i] = "reset" => r.state # "wait_reset")
  <2>1. r.state = u.state /\ r.next = u.next /\ r.fired = u.fired
    BY <1>3
  <2> QED BY <1>3, <2>1 DEF Ticks
<1>4. CASE from.out[i] = "reset"
  <2>1. r = [RawRecv(n, k) EXCEPT !.got = i]
    BY <1>2, <1>4 DEF Takes
  <2>2. PICK u : u = RawRecv(n, k)
    OBVIOUS
  <2>3. DOMAIN u = DOMAIN k /\ Kept(u)
    BY <2>2 DEF RawRecv, Key
  <2> QED BY <1>2, <1>3, <2>1, <2>2, <2>3
<1>5. CASE from.out[i] = "hello"
  <2>1. r = [Handshake(n, k, from) EXCEPT !.got = i]
    BY <1>2, <1>5 DEF Takes
  <2>2. PICK u : u = Handshake(n, k, from)
    OBVIOUS
  <2>3. DOMAIN u = DOMAIN k /\ Kept(u)
    BY <1>5, <2>2 DEF Handshake, Key
  <2> QED BY <1>2, <1>3, <2>1, <2>2, <2>3
<1>6. CASE from.out[i] = "auth"
  <2>1. r = [AppRecv(n, k) EXCEPT !.got = i]
    BY <1>2, <1>6 DEF Takes
  <2>2. PICK u : u = AppRecv(n, k)
    OBVIOUS
  <2>3. DOMAIN u = DOMAIN k /\ Kept(u)
    BY <1>6, <2>2 DEF AppRecv, Key
  <2> QED BY <1>2, <1>3, <2>1, <2>2, <2>3
<1> QED BY <1>1, <1>4, <1>5, <1>6

LEMMA RecvTicks ==
  ASSUME TypeOK, NEW n \in Node, NEW k \in Key, NEW from \in Key, NEW i \in 1 .. Len(from.out),
         Accepts(n, k, from, i)
  PROVE  /\ Ticks(k, NetRecv(n, k, from, i))
         /\ from.out[i] = "reset" => NetRecv(n, k, from, i).state # "wait_reset"
<1>1. PICK t : t = Takes(n, k, from, i)
  OBVIOUS
<1>2. t \in Key
  BY <1>1, TakesKeeps DEF TakesWell
<1>3. Ticks(k, t) /\ (from.out[i] = "reset" => t.state # "wait_reset")
  BY <1>1, TakesTicks
<1>4. PICK r : r = PostAckAction(n, t, Len(k.out))
  OBVIOUS
<1>5. Ticks(t, r)
  BY <1>2, <1>4, PostAckTicks
<1>6. NetRecv(n, k, from, i) = r
  BY <1>1, <1>4, NetRecvIsTakes
<1> QED BY <1>3, <1>5, <1>6 DEF Ticks

LEMMA AckTicks ==
  ASSUME NEW n \in Node, NEW k \in Key, NEW a \in Nat,
         NEW r, r = PostAckAction(n, [k EXCEPT !.acked = a], Len(k.out))
  PROVE  Ticks(k, r)
<1>1. PICK t : t = [k EXCEPT !.acked = a]
  OBVIOUS
<1>2. t \in Key /\ t.state = k.state /\ t.next = k.next /\ t.fired = k.fired
  BY <1>1 DEF Key
<1>3. r = PostAckAction(n, t, Len(k.out))
  BY <1>1
<1>4. Ticks(t, r)
  BY <1>2, <1>3, PostAckTicks
<1> QED BY <1>2, <1>4 DEF Ticks

\* What an action of a peer is shown to do.
SoonKept(n) == SoonAt(n)' /\ FreshAt(n)

\* A secondary that was not to become primary, or that is still the one it was,
\* is not one that renegotiate() has made.
LEMMA SameSecondary ==
  ASSUME NEW n \in Node, SoonAt(n), secondary'[n] # NoKey,
         secondary'[n].state # "wait_reset" \/ secondary'[n].out # <<"reset">>
  PROVE  FreshAt(n)
<1>1. NewKey(made[n], TRUE).state = "wait_reset" /\ NewKey(made[n], TRUE).out = <<"reset">>
  BY DEF NewKey
<1> QED BY <1>1 DEF FreshAt

LEMMA PrimarySoon ==
  ASSUME TypeOK, NEW n \in Node, SoonAt(n), NEW p \in Key, Due(primary[n]) => Due(p),
         primary' = [primary EXCEPT ![n] = p], secondary' = secondary
  PROVE  SoonKept(n)
<1>1. primary'[n] = p /\ secondary'[n] = secondary[n]
  BY DEF TypeOK
<1>2. SoonAt(n)'
  BY <1>1 DEF SoonAt
<1>3. FreshAt(n)
  <2>1. CASE secondary[n] # NoKey /\ secondary[n].state = "active"
    BY <1>1, <2>1, SameSecondary
  <2> QED BY <2>1 DEF FreshAt
<1> QED BY <1>2, <1>3 DEF SoonKept

LEMMA TicksDue ==
  ASSUME NEW k \in Key, NEW r \in Key, Ticks(k, r), Due(k)
  PROVE  Due(r)
  BY NoKeyIsNoKey DEF Ticks, Due

LEMMA ExpireDue ==
  ASSUME NEW k \in Key
  PROVE  PrepareExpire(k) \in Key /\ PrepareExpire(k).next = "expire" /\ Due(PrepareExpire(k))
         /\ ~Soon(PrepareExpire(k))
<1>1. PICK r : r = PrepareExpire(k)
  OBVIOUS
<1>2. r \in Key /\ r.next = "expire"
  BY <1>1 DEF PrepareExpire, Key, Event
<1> QED BY <1>1, <1>2, NoKeyIsNoKey DEF Due, Soon

\* A secondary that becomes ACTIVE makes the primary expire.
LEMMA PutSoon ==
  ASSUME TypeOK, NEW n \in Node, SoonAt(n), primary[n] \in Key, secondary[n] \in Key,
         NEW k \in Key, Ticks(secondary[n], k), PutSecondary(n, k)
  PROVE  SoonKept(n)
<1>1. secondary'[n] = k /\ secondary[n] # NoKey /\ k # NoKey
  BY NoKeyIsNoKey DEF TypeOK, PutSecondary
<1>2. FreshAt(n)
  <2>1. CASE secondary[n].state = "active"
    BY <1>1, <2>1, SameSecondary DEF Ticks
  <2> QED BY <2>1 DEF FreshAt
<1>3. ASSUME Soon(k)
      PROVE  Due(primary'[n])
  <2>1. CASE secondary[n].state = "active"
    <3>1. primary' = primary
      BY <2>1 DEF PutSecondary
    <3>2. Soon(secondary[n])
      BY <1>1, <1>3, <2>1 DEF Soon, Ticks
    <3> QED BY <3>1, <3>2 DEF SoonAt
  <2>2. CASE secondary[n].state # "active"
    <3>1. primary'[n] = PrepareExpire(primary[n])
      BY <1>3, <2>2 DEF PutSecondary, Soon, TypeOK
    <3> QED BY <3>1, ExpireDue
  <2> QED BY <2>1, <2>2
<1> QED BY <1>1, <1>2, <1>3 DEF SoonKept, SoonAt

\* A context that is not ACTIVE takes the place of the secondary.
LEMMA NewSoon ==
  ASSUME TypeOK, NEW n \in Node, NEW k, k.state # "active", NewSecondary(n, k),
         k = NewKey(made[n], TRUE) /\ Soon(secondary[n]) => primary[n].fired
  PROVE  SoonKept(n)
<1>1. secondary'[n] = k
  BY DEF TypeOK, NewSecondary
<1> QED BY <1>1 DEF SoonKept, SoonAt, FreshAt, Soon

\* The old primary is expiring when it is the secondary.
LEMMA PromoteSoon ==
  ASSUME TypeOK, NEW n \in Node, NEW new, NEW old \in Key, Promote(n, new, old)
  PROVE  SoonKept(n)
<1>1. PICK s : s = PrepareExpire(old)
  OBVIOUS
<1>2. secondary'[n] = s /\ s \in Key /\ s.next = "expire"
  BY <1>1, ExpireDue DEF TypeOK, Promote
<1>3. NewKey(made[n], TRUE).next = "negotiate"
  BY DEF NewKey
<1> QED BY <1>2, <1>3 DEF SoonKept, SoonAt, FreshAt, Soon

LEMMA GoneSoon ==
  ASSUME TypeOK, NEW n \in Node, secondary' = [secondary EXCEPT ![n] = NoKey]
  PROVE  SoonKept(n)
<1>1. secondary'[n] = NoKey
  BY DEF TypeOK
<1> QED BY <1>1 DEF SoonKept, SoonAt, FreshAt, Soon

LEMMA ReceiveSoon ==
  ASSUME IInv, NEW n \in Node, SoonAt(n), Receive(n, Senders(Other(n)))
  PROVE  SoonKept(n)
<1>1. TypeOK /\ NodeOK(n) /\ primary[n] \in Key
  BY InvAt, TwoDiffer DEF Receive
<1>2. PICK from \in Senders(Other(n)), i \in 1 .. 4 :
        /\ i <= Len(from.out)
        /\ \/ /\ Accepts(n, primary[n], from, i)
              /\ primary' = [primary EXCEPT ![n] = NetRecv(n, @, from, i)]
              /\ UNCHANGED secondary
           \/ /\ ForSecondary(n, KeyId(from.tag))
              /\ Accepts(n, secondary[n], from, i)
              /\ PutSecondary(n, NetRecv(n, secondary[n], from, i))
           \/ /\ from.out[i] = "reset"
              /\ LET k == NewKey(made[n], FALSE)
                 IN  NewSecondary(n, IF Accepts(n, k, from, i) THEN NetRecv(n, k, from, i) ELSE k)
  BY Zenon DEF Receive
<1>3. from \in Key /\ Len(from.out) \in Nat
  BY <1>1, OtherIsNode, SendersTyped, LenProperties DEF Key
<1>4. i \in 1 .. Len(from.out)
  BY <1>2, <1>3
<1>5. ASSUME NEW k \in Key, Accepts(n, k, from, i)
      PROVE  NetRecv(n, k, from, i) \in Key /\ Ticks(k, NetRecv(n, k, from, i))
             /\ (from.out[i] = "reset" => NetRecv(n, k, from, i).state # "wait_reset")
  <2>1. PICK t : t = Takes(n, k, from, i)
    OBVIOUS
  <2>2. t \in Key
    BY <1>3, <1>4, <1>5, <2>1, TakesKeeps DEF TakesWell
  <2>3. NetRecv(n, k, from, i) \in Key
    BY <1>1, <2>1, <2>2, NetRecvIsTakes, PostAckKeeps
  <2> QED BY <1>1, <1>3, <1>4, <1>5, <2>3, RecvTicks
<1>6. CASE /\ Accepts(n, primary[n], from, i)
           /\ primary' = [primary EXCEPT ![n] = NetRecv(n, @, from, i)]
           /\ UNCHANGED secondary
  <2>1. PICK p : p = NetRecv(n, primary[n], from, i)
    OBVIOUS
  <2>2. p \in Key /\ (Due(primary[n]) => Due(p))
    BY <1>1, <1>5, <1>6, <2>1, TicksDue
  <2>3. primary' = [primary EXCEPT ![n] = p]
    BY <1>6, <2>1
  <2> QED BY <1>1, <1>6, <2>2, <2>3, PrimarySoon
<1>7. CASE /\ ForSecondary(n, KeyId(from.tag))
           /\ Accepts(n, secondary[n], from, i)
           /\ PutSecondary(n, NetRecv(n, secondary[n], from, i))
  <2>1. PICK k : k = NetRecv(n, secondary[n], from, i)
    OBVIOUS
  <2>2. secondary[n] \in Key
    BY <1>1, <1>7 DEF ForSecondary, TypeOK, Slot
  <2>3. k \in Key /\ Ticks(secondary[n], k)
    BY <1>5, <1>7, <2>1, <2>2
  <2>4. PutSecondary(n, k)
    BY <1>7, <2>1
  <2> QED BY <1>1, <2>2, <2>3, <2>4, PutSoon
<1>8. CASE /\ from.out[i] = "reset"
           /\ LET k == NewKey(made[n], FALSE)
              IN  NewSecondary(n, IF Accepts(n, k, from, i) THEN NetRecv(n, k, from, i) ELSE k)
  <2>1. PICK k : k = NewKey(made[n], FALSE)
    OBVIOUS
  <2>2. k \in Key /\ Blank(n, k)
    BY <1>1, <2>1, NewIsBlank
  <2>3. PICK r : r = IF Accepts(n, k, from, i) THEN NetRecv(n, k, from, i) ELSE k
    OBVIOUS
  <2>4. NewSecondary(n, r)
    BY <1>8, <2>1, <2>3
  <2>5. r.state # "active"
    <3>1. Blank(n, r)
      BY <1>1, <1>3, <1>4, <1>8, <2>2, <2>3, AskedIsBlank
    <3> QED BY <3>1 DEF Blank, Late
  \* The one that the peer asks for is not the one that renegotiate() makes.
  <2>6. r # NewKey(made[n], TRUE)
    <3>1. NewKey(made[n], TRUE).state = "wait_reset" /\ NewKey(made[n], TRUE).out = <<"reset">>
      BY DEF NewKey
    <3>2. CASE Accepts(n, k, from, i)
      BY <1>5, <1>8, <2>2, <2>3, <3>1, <3>2
    <3>3. CASE ~Accepts(n, k, from, i)
      <4>1. r.out = <<>>
        BY <2>1, <2>3, <3>3 DEF NewKey
      <4>2. <<>> # <<"reset">>
        OBVIOUS
      <4> QED BY <3>1, <4>1, <4>2
    <3> QED BY <3>2, <3>3
  <2> QED BY <1>1, <2>4, <2>5, <2>6, NewSoon
<1> QED BY <1>2, <1>6, <1>7, <1>8

LEMMA AckSoon ==
  ASSUME IInv, NEW n \in Node, SoonAt(n), ReceiveAck(n, Senders(Other(n)))
  PROVE  SoonKept(n)
<1>1. TypeOK /\ NodeOK(n) /\ primary[n] \in Key
  BY InvAt, TwoDiffer DEF ReceiveAck
<1> DEFINE Acked(k, a) == PostAckAction(n, [k EXCEPT !.acked = a], Len(k.out))
<1>2. PICK from \in Senders(Other(n)) :
        \/ /\ primary' = [primary EXCEPT ![n] = Acked(@, from.got)]
           /\ UNCHANGED secondary
        \/ /\ ForSecondary(n, KeyId(from.tag))
           /\ PutSecondary(n, Acked(secondary[n], from.got))
  BY DEF ReceiveAck
<1>3. from.got \in Nat
  <2>1. from \in Key
    BY <1>1, OtherIsNode, SendersTyped
  <2> QED BY <2>1 DEF Key
<1>4. ASSUME NEW k \in Key, NEW r, r = Acked(k, from.got)
      PROVE  r \in Key /\ Ticks(k, r)
  <2>1. PICK t : t = [k EXCEPT !.acked = from.got]
    OBVIOUS
  <2>2. t \in Key
    BY <1>3, <2>1 DEF Key
  <2>3. r \in Key
    BY <1>1, <1>4, <2>1, <2>2, PostAckKeeps
  <2> QED BY <1>3, <1>4, <2>3, AckTicks
<1>5. CASE /\ primary' = [primary EXCEPT ![n] = Acked(@, from.got)]
           /\ UNCHANGED secondary
  <2>1. PICK p : p = Acked(primary[n], from.got)
    OBVIOUS
  <2>2. primary' = [primary EXCEPT ![n] = p]
    BY <1>5, <2>1
  <2>3. p \in Key /\ (Due(primary[n]) => Due(p))
    BY <1>1, <1>4, <2>1, TicksDue
  <2> QED BY <1>1, <1>5, <2>2, <2>3, PrimarySoon
<1>6. CASE ForSecondary(n, KeyId(from.tag)) /\ PutSecondary(n, Acked(secondary[n], from.got))
  <2>1. PICK k : k = Acked(secondary[n], from.got)
    OBVIOUS
  <2>2. PutSecondary(n, k)
    BY <1>6, <2>1
  <2>3. secondary[n] \in Key
    BY <1>1, <1>6 DEF ForSecondary, TypeOK, Slot
  <2>4. k \in Key /\ Ticks(secondary[n], k)
    BY <1>4, <2>1, <2>3
  <2> QED BY <1>1, <2>2, <2>3, <2>4, PutSoon
<1> QED BY <1>2, <1>5, <1>6

\* The timers of the two contexts: the secondary's is the first to expire.
LEMMA PrimaryTimerSoon ==
  ASSUME IInv, NEW n \in Node, SoonAt(n), PrimaryTimer(n)
  PROVE  SoonKept(n)
<1>1. TypeOK /\ primary[n] \in Key
  BY InvAt, TwoDiffer DEF PrimaryTimer
<1>2. ASSUME secondary[n] # NoKey => secondary[n].next # "become_primary", UNCHANGED secondary
      PROVE  SoonKept(n)
  BY <1>2 DEF SoonKept, SoonAt, FreshAt, Soon
<1>3. CASE primary[n].next = "renegotiate" /\ Renegotiate(n)
  <2>1. PICK new : new = NewKey(made[n], TRUE)
    OBVIOUS
  <2>2. NewSecondary(n, new) /\ new.state = "wait_reset"
    BY <1>3, <2>1 DEF Renegotiate, NewKey
  <2>3. Soon(secondary[n]) => primary[n].fired
    BY <1>3 DEF SoonAt, Due
  <2> QED BY <1>1, <2>2, <2>3, NewSoon
<1>4. CASE Disconnect(n)
  BY <1>1, <1>4, GoneSoon DEF Disconnect
<1>5. CASE Promote(n, secondary[n], [primary[n] EXCEPT !.invalid = TRUE])
  <2>1. PICK old : old = [primary[n] EXCEPT !.invalid = TRUE]
    OBVIOUS
  <2>2. old \in Key
    BY <1>1, <2>1 DEF Key
  <2>3. Promote(n, secondary[n], old)
    BY <1>5, <2>1
  <2> QED BY <1>1, <2>2, <2>3, PromoteSoon
<1> QED BY <1>2, <1>3, <1>4, <1>5 DEF PrimaryTimer

LEMMA SecondaryTimerSoon ==
  ASSUME IInv, NEW n \in Node, SoonAt(n), SecondaryTimer(n)
  PROVE  SoonKept(n)
<1>1. TypeOK /\ primary[n] \in Key /\ secondary[n] \in Key
  BY InvAt, TwoDiffer DEF SecondaryTimer, TypeOK, Slot
<1>2. CASE secondary' = [secondary EXCEPT ![n].next = "primary_pending"]
  <2>1. PICK s : s = [secondary[n] EXCEPT !.next = "primary_pending"]
    OBVIOUS
  <2>2. s.next = "primary_pending" /\ secondary'[n] = s
    BY <1>1, <1>2, <2>1 DEF Key, TypeOK
  <2>3. NewKey(made[n], TRUE).next = "negotiate"
    BY DEF NewKey
  <2> QED BY <2>2, <2>3 DEF SoonKept, SoonAt, FreshAt, Soon
<1>3. CASE Promote(n, [secondary[n] EXCEPT !.next = "renegotiate"], primary[n])
  BY <1>1, <1>3, PromoteSoon
<1>4. CASE secondary[n].next \in {"negotiate", "primary_pending"} /\ Renegotiate(n)
  <2>1. PICK new : new = NewKey(made[n], TRUE)
    OBVIOUS
  <2>2. NewSecondary(n, new) /\ new.state = "wait_reset"
    BY <1>4, <2>1 DEF Renegotiate, NewKey
  <2>3. ~Soon(secondary[n])
    BY <1>4 DEF Soon
  <2> QED BY <1>1, <2>2, <2>3, NewSoon
<1>5. CASE secondary' = [secondary EXCEPT ![n] = NoKey]
  BY <1>1, <1>5, GoneSoon
<1> QED BY <1>2, <1>3, <1>4, <1>5 DEF SecondaryTimer

LEMMA EncryptSoon ==
  ASSUME IInv, NEW n \in Node, SoonAt(n), Encrypt(n)
  PROVE  SoonKept(n)
<1>1. TypeOK /\ primary[n] \in Key /\ secondary' = secondary
  BY InvAt, TwoDiffer DEF Encrypt
<1>2. PICK p : p = [primary[n] EXCEPT !.fired = TRUE, !.next = IF @ = "become_primary" THEN @ ELSE "renegotiate"]
  OBVIOUS
<1>3. primary' = [primary EXCEPT ![n] = p]
  BY <1>2 DEF Encrypt
<1>4. p \in Key /\ p.fired
  BY <1>1, <1>2 DEF Key, Event
<1> QED BY <1>1, <1>3, <1>4, PrimarySoon, NoKeyIsNoKey DEF Due

LEMMA InitDataChannelSoon ==
  ASSUME IInv, NEW n \in Node, SoonAt(n), InitDataChannel(n)
  PROVE  SoonKept(n)
<1> DEFINE Keyed(k) == IF k # NoKey /\ k.state = "active" THEN [k EXCEPT !.crypto = TRUE] ELSE k
<1>1. TypeOK /\ primary[n] \in Key /\ secondary[n] \in Slot
  BY InvAt, TwoDiffer DEF InitDataChannel, TypeOK
<1>2. primary'[n] = Keyed(primary[n]) /\ secondary'[n] = Keyed(secondary[n])
  BY <1>1 DEF InitDataChannel, TypeOK
<1>3. ASSUME NEW k \in Slot, NEW r, r = Keyed(k)
      PROVE  /\ r = NoKey <=> k = NoKey
             /\ k # NoKey => r.state = k.state /\ r.next = k.next /\ r.fired = k.fired
  <2>1. CASE k # NoKey /\ k.state = "active"
    <3>1. k \in Key /\ r = [k EXCEPT !.crypto = TRUE]
      BY <1>3, <2>1 DEF Slot
    <3>2. r \in Key /\ r.state = k.state /\ r.next = k.next /\ r.fired = k.fired
      BY <3>1 DEF Key
    <3> QED BY <2>1, <3>2, NoKeyIsNoKey
  <2>2. CASE ~(k # NoKey /\ k.state = "active")
    BY <1>3, <2>2
  <2> QED BY <2>1, <2>2
<1> HIDE DEF Keyed
<1>4. /\ Due(primary[n]) => Due(primary'[n])
      /\ Soon(secondary'[n]) => Soon(secondary[n])
  BY <1>1, <1>2, <1>3 DEF Due, Soon, Slot
<1>5. FreshAt(n)
  <2>1. CASE secondary[n] # NoKey /\ secondary[n].state = "active"
    BY <1>1, <1>2, <1>3, <2>1, SameSecondary
  <2> QED BY <2>1 DEF FreshAt
<1> QED BY <1>4, <1>5 DEF SoonKept, SoonAt

LEMMA NodeNextSoon ==
  ASSUME IInv, NEW n \in Node, SoonAt(n), NodeNext(n)
  PROVE  SoonKept(n)
<1>1. CASE SessionFails(n)
  BY <1>1, InvAt, GoneSoon DEF SessionFails, Disconnect
<1> QED BY <1>1, ReceiveSoon, AckSoon, PrimaryTimerSoon, SecondaryTimerSoon, EncryptSoon, InitDataChannelSoon
        DEF NodeNext

\* A peer that takes no step keeps its contexts.
LEMMA StillSoon ==
  ASSUME NEW n \in Node, SoonAt(n), UNCHANGED <<primary[n], secondary[n]>>
  PROVE  SoonKept(n)
<1>1. FreshAt(n)
  <2>1. CASE secondary[n] # NoKey /\ secondary[n].state = "active"
    BY <2>1, SameSecondary
  <2> QED BY <2>1 DEF FreshAt
<1> QED BY <1>1 DEF SoonKept, SoonAt

LEMMA SoonStep == IInv /\ SoonInv /\ [Next]_vars => SoonInv' /\ \A n \in Node : FreshAt(n)
<1> SUFFICES ASSUME IInv, SoonInv, [Next]_vars, NEW n \in Node
             PROVE  SoonKept(n)
  BY DEF SoonInv, SoonKept
<1>1. SoonAt(n)
  BY DEF SoonInv
<1>2. CASE UNCHANGED vars
  BY <1>1, <1>2, StillSoon DEF vars
<1>3. CASE NodeNext(n)
  BY <1>1, <1>3, NodeNextSoon
<1>4. ASSUME NEW m \in Node, m # n, NodeNext(m)
      PROVE  SoonKept(n)
  <2>1. Acts(m) /\ Other(m) = n
    BY <1>4, NodeNextActs DEF Node, Other
  <2>2. UNCHANGED <<primary[n], secondary[n]>>
    BY <2>1 DEF Acts
  <2> QED BY <1>1, <2>2, StillSoon
<1> QED BY <1>2, <1>3, <1>4 DEF Next

\* A secondary that is ACTIVE and waits to become primary is not replaced by a
\* renegotiation of the peer that holds it, unless the primary has reached its
\* key limit: when the primary's timer is to make it renegotiate the secondary
\* has been promoted, as it was ACTIVE first.
THEOREM FreshKeyCorrect == Safety => FreshKeyIsKept
<1>1. Init => SoonInv
  BY DEF Init, SoonInv, SoonAt, Soon
<1>2. (\A n \in Node : FreshAt(n)) =>
        \A n \in Node :
          /\ secondary[n] # NoKey /\ secondary[n].state = "active" /\ secondary[n].next = "become_primary"
          /\ secondary'[n] # NoKey /\ secondary'[n] = NewKey(made[n], TRUE)
          => primary[n].fired
  BY DEF FreshAt
<1> QED BY <1>1, <1>2, SoonStep, InvHolds, PTL DEF Safety, FreshKeyIsKept

=============================================================================
