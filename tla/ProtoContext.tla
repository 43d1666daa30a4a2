---------------------------- MODULE ProtoContext ----------------------------
(***************************************************************************)
(* The key contexts of one OpenVPN session: ProtoContext and KeyContext    *)
(* (openvpn/ssl/proto.hpp) at both ends.  A peer transmits on its primary  *)
(* key; the secondary is a key under negotiation or one that retires.      *)
(*                                                                         *)
(* One action is one entry into ProtoContext (a packet, an expired timer,  *)
(* a packet of the application) up to the end of its flush().  The         *)
(* reliability layer is taken as ProtoStack shows it to be: a message of a *)
(* context that is retransmitted is delivered any number of times, in      *)
(* order.  Time is left out: a timer that is set may expire at any moment, *)
(* but for HandshakeWindowOver and the order of timers in PrimaryTimer.    *)
(***************************************************************************)
EXTENDS Integers, Sequences, FiniteSets

CONSTANTS
    Client, Server,  \* the two peers
    KeyIdMask,       \* KEY_ID_MASK, the greatest key id
    None,            \* no peer context
    NoKey,           \* an empty slot
    Limits,          \* bound: whether the data cipher has 64-bit blocks
    MaxKeys          \* bound: the key contexts a peer makes

ASSUME PeersDiffer == Client # Server
ASSUME MaskIsPositive == KeyIdMask \in Nat \ {0}
ASSUME NoneIsNoTag == None \notin Nat
ASSUME LimitsAreBool == Limits \subseteq BOOLEAN
ASSUME BoundIsPositive == MaxKeys \in Nat \ {0}

Node == {Client, Server}
Other(n) == IF n = Client THEN Server ELSE Client

\* The states of either side, without C_ and S_; the initial ones are left in
\* the handler that enters them.
Started == {"wait_auth", "wait_auth_ack", "active"}
State == {"wait_reset", "wait_reset_ack"} \cup Started

\* next_event; KEV_RENEGOTIATE_FORCE and KEV_RENEGOTIATE_QUEUE need a key limit
\* on the secondary, which only data_limit_add could notice.
Event == {"negotiate", "become_primary", "primary_pending", "renegotiate", "expire"}

\* What a context sends, in order: its reset, its part of the TLS handshake,
\* its auth message.
Message == {"reset", "hello", "auth"}

\* A KeyContext.  tag counts the contexts of a peer (n_key_ids); out is what
\* it has given its reliability layer, of which the peer has acknowledged the
\* first acked messages; got counts the messages it has processed; with is the
\* context of the peer its TLS session is with.
Key == [tag : Nat, state : State, next : Event, fired : BOOLEAN, invalid : BOOLEAN,
        crypto : BOOLEAN, out : Seq(Message), acked : Nat, got : Nat, with : Nat \cup {None}]

ASSUME NoKeyIsNoKey == NoKey \notin Key

VARIABLES
    primary,   \* ProtoContext::primary
    secondary, \* ProtoContext::secondary
    stale,     \* the context last wiped, whose packets may still be on their way
    made,      \* n_key_ids
    deferred,  \* dc_deferred
    limited    \* is_bs64_cipher of the data channel

vars == <<primary, secondary, stale, made, deferred, limited>>

\* next_key_id
KeyId(t) == IF t = 0 THEN 0 ELSE ((t - 1) % KeyIdMask) + 1
Upcoming(n) == KeyId(made[n])

\* The constructor, and start() for an initiator.
NewKey(tag, initiator) ==
    [tag |-> tag, state |-> "wait_reset", next |-> "negotiate", fired |-> FALSE,
     invalid |-> FALSE, crypto |-> FALSE,
     out |-> IF initiator THEN <<"reset">> ELSE <<>>,
     acked |-> 0, got |-> 0, with |-> None]

Init ==
    /\ primary = [n \in Node |-> NewKey(0, n = Client)]
    /\ secondary = [n \in Node |-> NoKey]
    /\ stale = [n \in Node |-> NoKey]
    /\ made = [n \in Node |-> 1]
    /\ deferred = [n \in Node |-> n = Client]
    /\ limited \in Limits

\* The session goes on.
Up(n) == primary[n] # NoKey

\* The contexts a peer works with, and those whose packets may arrive.
Live(n) == {k \in {primary[n], secondary[n]} \ {NoKey} : ~k.invalid}
Senders(n) == {primary[n], secondary[n], stale[n]} \ {NoKey}

-----------------------------------------------------------------------------
(* KeyContext *)

PrepareExpire(k) == [k EXCEPT !.next = "expire"]

\* active(), with the KEV_BECOME_PRIMARY of active_event()
Active(n, k) == [k EXCEPT !.state = "active", !.next = "become_primary", !.crypto = ~deferred[n]]

\* Mutant: C_WAIT_AUTH is one of the ACK states.
PostAckActionEarly(n, k, sent) ==
    IF k.acked < sent THEN k
    ELSE CASE k.state = "wait_reset_ack" ->
                [k EXCEPT !.state = "wait_auth",
                          !.out = IF n = Client THEN Append(@, "hello") ELSE @]
           [] k.state = "wait_auth_ack" \/ (n = Client /\ k.state = "wait_auth") -> Active(n, k)
           [] OTHER -> k
\* post_ack_action().  sent counts the messages of earlier handlers: those the
\* current one has queued are not in the send window yet.
PostAckAction(n, k, sent) ==
    IF k.acked < sent THEN k
    ELSE CASE k.state = "wait_reset_ack" ->
                [k EXCEPT !.state = "wait_auth",
                          !.out = IF n = Client THEN Append(@, "hello") ELSE @]
           [] k.state = "wait_auth_ack" -> Active(n, k)
           [] OTHER -> k

\* raw_recv()
\* Mutant: the server answers a soft reset as the client does.
RawRecvSilent(n, k) ==
    IF k.state # "wait_reset" THEN k
    ELSE [k EXCEPT !.state = "wait_reset_ack",
                   !.out = IF n = Server /\ k.tag = 0 THEN Append(@, "reset") ELSE @]
RawRecv(n, k) ==
    IF k.state # "wait_reset" THEN k
    ELSE [k EXCEPT !.state = "wait_reset_ack",
                   !.out = IF n = Server THEN Append(@, "reset") ELSE @]

\* The TLS handshake: the server answers the client's hello, and the client's
\* auth message, queued in post_ack_action(), follows the server's.
Handshake(n, k, from) ==
    [k EXCEPT !.with = from.tag, !.out = Append(@, IF n = Client THEN "auth" ELSE "hello")]

\* app_recv() while it waits for the auth message of the peer
AppRecv(n, k) ==
    IF k.state # "wait_auth" THEN k
    ELSE [k EXCEPT !.state = "wait_auth_ack",
                   !.out = IF n = Server THEN Append(@, "auth") ELSE @]

\* The message i of the context from is the next one of context k, and TLS
\* takes it: a hello when it has none yet (the server's, when it answers k's
\* own), an auth message when it comes from the other end of the same session.
Accepts(n, k, from, i) ==
    /\ i = k.got + 1
    /\ ~k.invalid
    /\ \/ from.out[i] = "reset"
       \/ /\ from.out[i] = "hello"
          /\ k.state \in Started
          /\ k.with = None
          /\ n = Client => from.with = k.tag
       \/ /\ from.out[i] = "auth"
          /\ k.state \in Started
          /\ k.with = from.tag
          /\ from.with = k.tag

\* net_recv() and the flush() after it
NetRecv(n, k, from, i) ==
    LET up == CASE from.out[i] = "reset" -> RawRecv(n, k)
                [] from.out[i] = "hello" -> Handshake(n, k, from)
                [] from.out[i] = "auth" -> AppRecv(n, k)
    IN  PostAckAction(n, [up EXCEPT !.got = i], Len(k.out))

-----------------------------------------------------------------------------
(* ProtoContext *)

\* The secondary is wiped: what it has sent may still arrive, the rest is
\* forgotten.
Wipe(n) ==
    stale' = [stale EXCEPT ![n] =
                 IF secondary[n] = NoKey THEN @
                 ELSE [secondary[n] EXCEPT !.next = "expire", !.fired = FALSE, !.crypto = FALSE,
                                           !.acked = 0, !.state = "active"]]

\* new_secondary_key()
NewSecondary(n, k) ==
    /\ made[n] < MaxKeys
    /\ secondary' = [secondary EXCEPT ![n] = k]
    /\ Wipe(n)
    /\ made' = [made EXCEPT ![n] = @ + 1]

\* renegotiate()
Renegotiate(n) == NewSecondary(n, NewKey(made[n], TRUE))

\* disconnect(): the owner of an invalidated ProtoContext stops and calls
\* pre_destroy().  Bound: what an ended session has sent is lost.
Disconnect(n) ==
    /\ primary' = [primary EXCEPT ![n] = NoKey]
    /\ secondary' = [secondary EXCEPT ![n] = NoKey]
    /\ stale' = [stale EXCEPT ![n] = NoKey]
    /\ UNCHANGED <<made, deferred, limited>>

\* promote_secondary_to_primary()
Promote(n, new, old) ==
    /\ primary' = [primary EXCEPT ![n] = new]
    /\ secondary' = [secondary EXCEPT ![n] = PrepareExpire(old)]
    /\ UNCHANGED <<stale, made>>

\* The context changes, and KEV_ACTIVE of a secondary makes the primary expire.
\* Mutant: the primary keeps its timer.
KeepPrimary(n, k) ==
    /\ secondary' = [secondary EXCEPT ![n] = k]
    /\ UNCHANGED primary
PutSecondary(n, k) ==
    /\ secondary' = [secondary EXCEPT ![n] = k]
    /\ primary' = IF k.state = "active" /\ secondary[n].state # "active"
                  THEN [primary EXCEPT ![n] = PrepareExpire(@)]
                  ELSE primary

\* PacketType and select_key_context(): the primary's id first, then the
\* secondary's; a soft reset with the upcoming id asks for a new key.
ForPrimary(n, id) == id = KeyId(primary[n].tag)
ForSecondary(n, id) == /\ ~ForPrimary(n, id)
                       /\ secondary[n] # NoKey
                       /\ id = KeyId(secondary[n].tag)
ForNew(n, id) == ~ForPrimary(n, id) /\ ~ForSecondary(n, id) /\ id = Upcoming(n)

\* control_net_recv() of a packet of one of the contexts
Receive(n, contexts) ==
    /\ Up(n)
    /\ \E from \in contexts, i \in 1 .. 4 :
        /\ i <= Len(from.out)
        /\ \/ /\ ForPrimary(n, KeyId(from.tag))
              /\ Accepts(n, primary[n], from, i)
              /\ primary' = [primary EXCEPT ![n] = NetRecv(n, @, from, i)]
              /\ UNCHANGED <<secondary, stale, made>>
           \/ /\ ForSecondary(n, KeyId(from.tag))
              /\ Accepts(n, secondary[n], from, i)
              /\ PutSecondary(n, NetRecv(n, secondary[n], from, i))
              /\ UNCHANGED <<stale, made>>
           \/ /\ ForNew(n, KeyId(from.tag))
              /\ from.out[i] = "reset"
              /\ LET k == NewKey(made[n], FALSE)
                 IN  NewSecondary(n, IF Accepts(n, k, from, i) THEN NetRecv(n, k, from, i) ELSE k)
              /\ UNCHANGED primary
    /\ UNCHANGED <<deferred, limited>>

\* The acknowledgements of a packet, which concern the context with its id and
\* matter until that is ACTIVE.
ReceiveAck(n, contexts) ==
    /\ Up(n)
    /\ \E from \in contexts :
        LET Acked(k) == PostAckAction(n, [k EXCEPT !.acked = from.got], Len(k.out))
            News(k) == ~k.invalid /\ k.state # "active" /\ k.acked < from.got /\ from.got <= Len(k.out) IN
        \/ /\ ForPrimary(n, KeyId(from.tag))
           /\ News(primary[n])
           /\ primary' = [primary EXCEPT ![n] = Acked(@)]
           /\ UNCHANGED secondary
        \/ /\ ForSecondary(n, KeyId(from.tag))
           /\ News(secondary[n])
           /\ PutSecondary(n, Acked(secondary[n]))
    /\ UNCHANGED <<stale, made, deferred, limited>>

\* data_limit_defer(): no limit ever counts a packet of the peer (data_limit_add).
DataLimitDefer(n, k) == n = Client /\ limited /\ k.crypto /\ KeyId(k.tag) # 0

\* Bound: renegotiate and expire, and the packets that use up a key, take longer
\* than handshake_window (3600 s and 60 s by default), so that when their timers
\* expire no primary is still in its first negotiation.
HandshakeWindowOver == \A n \in Node : Up(n) => primary[n].next # "negotiate"

\* The primary's timer expires: process_next_event, process_primary_event.  When
\* both contexts are to become primary, the secondary was ACTIVE first, as the
\* primary would be expiring otherwise (PutSecondary); its timer, which is as
\* long, is the first to expire.
PrimaryTimer(n) ==
    LET k == primary[n] IN
    /\ Up(n)
    /\ \/ /\ k.next = "become_primary"
          /\ secondary[n] # NoKey => secondary[n].next # "become_primary"
          /\ primary' = [primary EXCEPT ![n].next =
                            IF DataLimitDefer(n, k) THEN "primary_pending" ELSE "renegotiate"]
          /\ UNCHANGED <<secondary, stale, made, deferred, limited>>
       \/ /\ k.next = "renegotiate" /\ HandshakeWindowOver
          /\ primary' = [primary EXCEPT ![n] = PrepareExpire(@)]
          /\ Renegotiate(n)
          /\ UNCHANGED <<deferred, limited>>
       \/ /\ k.next \in {"negotiate", "primary_pending"}
          /\ Disconnect(n)
       \/ /\ k.next = "expire" /\ HandshakeWindowOver
          /\ IF secondary[n] # NoKey /\ ~secondary[n].invalid
             THEN /\ Promote(n, secondary[n], [k EXCEPT !.invalid = TRUE])
                  /\ UNCHANGED <<deferred, limited>>
             ELSE Disconnect(n)

\* The secondary's timer expires: process_next_event, process_secondary_event.
SecondaryTimer(n) ==
    LET k == secondary[n] IN
    /\ Up(n)
    /\ k # NoKey
    /\ \/ /\ k.next = "become_primary"
          /\ IF DataLimitDefer(n, k)
             THEN /\ secondary' = [secondary EXCEPT ![n].next = "primary_pending"]
                  /\ UNCHANGED <<primary, stale, made>>
             ELSE Promote(n, [k EXCEPT !.next = "renegotiate"], primary[n])
       \/ /\ k.next \in {"negotiate", "primary_pending"}
          /\ Renegotiate(n)
          /\ UNCHANGED primary
       \/ /\ k.next = "expire" /\ HandshakeWindowOver
          /\ secondary' = [secondary EXCEPT ![n] = NoKey]
          /\ Wipe(n)
          /\ UNCHANGED <<primary, made>>
    /\ UNCHANGED <<deferred, limited>>

\* data_encrypt(): the packet id of the key comes close to its end.  With a data
\* limit do_encrypt() returns before it asks for an id.
Encrypt(n) ==
    /\ Up(n) /\ ~limited
    /\ primary[n].state = "active" /\ primary[n].crypto /\ ~primary[n].fired
    /\ primary' = [primary EXCEPT ![n].fired = TRUE,
                      ![n].next = IF @ = "become_primary" THEN @ ELSE "renegotiate"]
    /\ UNCHANGED <<secondary, stale, made, deferred, limited>>

\* init_data_channel(), which the client calls when options have been pushed
\* Mutant: the secondary is forgotten.
InitPrimary(n) ==
    /\ Up(n) /\ deferred[n] /\ primary[n].state = "active"
    /\ deferred' = [deferred EXCEPT ![n] = FALSE]
    /\ primary' = [primary EXCEPT ![n].crypto = TRUE]
    /\ UNCHANGED <<secondary, stale, made, limited>>
InitDataChannel(n) ==
    LET Keyed(k) == IF k # NoKey /\ k.state = "active" THEN [k EXCEPT !.crypto = TRUE] ELSE k IN
    /\ Up(n) /\ deferred[n] /\ primary[n].state = "active"
    /\ deferred' = [deferred EXCEPT ![n] = FALSE]
    /\ primary' = [primary EXCEPT ![n] = Keyed(@)]
    /\ secondary' = [secondary EXCEPT ![n] = Keyed(@)]
    /\ UNCHANGED <<stale, made, limited>>

\* A failure of TLS is thrown through transport_recv(), which ends the session,
\* as an expired keepalive does.
SessionFails(n) == Up(n) /\ Disconnect(n)

NodeNext(n) ==
    \/ Receive(n, Senders(Other(n)))
    \/ ReceiveAck(n, Senders(Other(n)))
    \/ PrimaryTimer(n)
    \/ SecondaryTimer(n)
    \/ Encrypt(n)
    \/ InitDataChannel(n)
    \/ SessionFails(n)

Next == \E n \in Node : NodeNext(n)

Safety == Init /\ [][Next]_vars

-----------------------------------------------------------------------------
(* Properties *)

Slot == Key \cup {NoKey}
TypeOK ==
    /\ primary \in [Node -> Slot]
    /\ secondary \in [Node -> Slot]
    /\ stale \in [Node -> Slot]
    /\ made \in [Node -> Nat]
    /\ deferred \in [Node -> BOOLEAN]
    /\ limited \in BOOLEAN

\* The two ends of a key agree: an ACTIVE context and the one it has negotiated
\* with, if the peer still has it, have the same id and are bound to each
\* other, and the client is ACTIVE only when the server has accepted its auth
\* message.
KeysAgree ==
    /\ TypeOK
    /\ \A n \in Node : \A k \in Live(n), p \in Live(Other(n)) :
        k.state = "active" /\ p.tag = k.with
        => /\ p.with = k.tag
           /\ KeyId(p.tag) = KeyId(k.tag)
           /\ n = Client => p.state \in {"wait_auth_ack", "active"}

\* Once options have been pushed every ACTIVE context has its data channel,
\* whichever of the two the push has found ACTIVE.
KeyedWhenActive ==
    \A n \in Node : \A k \in Live(n) : k.state = "active" /\ ~deferred[n] => k.crypto

\* A local renegotiation does not throw away a key that has just been
\* negotiated, unless the primary has reached its key limit.
FreshKeyIsKept ==
    [][\A n \in Node :
         /\ secondary[n] # NoKey /\ secondary[n].state = "active" /\ secondary[n].next = "become_primary"
         /\ secondary'[n] # NoKey /\ secondary'[n] = NewKey(made[n], TRUE)
         => primary[n].fired]_vars

\* A renegotiation of the client with the id the server expects needs no timer:
\* as long as it is not ACTIVE there is a packet, or an acknowledgement, that a
\* context still sends and that takes one of the contexts further.  As a context
\* can be taken further only a few times, the messages alone complete it.
Negotiating ==
    LET k == secondary[Client] IN
    /\ k # NoKey /\ k.state # "active" /\ k.out[1] = "reset"
    /\ Up(Server)
    /\ made[Server] = k.tag \/ \E p \in Live(Server) : p.tag = k.tag
Progress == \E n \in Node : Receive(n, Live(Other(n))) \/ ReceiveAck(n, Live(Other(n)))
HandshakeNeverStuck == Negotiating => ENABLED Progress
=============================================================================
