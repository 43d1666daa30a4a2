----------------------------- MODULE ProtoStack -----------------------------
(***************************************************************************)
(* The reliability layer of the OpenVPN control channel: two peers, each   *)
(* one a ProtoStackBase (openvpn/ssl/protostack.hpp) with its              *)
(* ReliableSend, ReliableRecv and ReliableAck objects                      *)
(* (openvpn/reliable), driven by the reset exchange of KeyContext          *)
(* (openvpn/ssl/proto.hpp), over UDP: packets are lost, duplicated and     *)
(* reordered.                                                              *)
(*                                                                         *)
(* Each peer is single-threaded.  A handler (a packet, an application      *)
(* write, the retransmission timer) starts when pc[n] = "idle" and is then *)
(* run to its end, one loop iteration of the code per step, while the      *)
(* other peer and the network take steps of their own.                     *)
(***************************************************************************)
EXTENDS Integers, Sequences, FiniteSets, SequencesExt

CONSTANTS
    Client, Server, \* the two peers
    Tls,            \* TLS ciphertext packets, opaque to this layer
    Reset,          \* the hard reset, the one raw packet
    NoMsg,          \* the payload of a standalone ACK
    NoPkt,          \* no packet is being encapsulated
    SendWindow,     \* ovpn_sending_window
    RecvWindow,     \* ovpn_receiving_window
    AckV1Max,       \* maximum_acks_ack_v1
    ControlMax,     \* maximum_acks_control_v1
    Stream,         \* Stream[n]: the ciphertext n's SSL object produces, in order
    MaxFlight,      \* bound: packets in flight to a peer; the others are dropped
    Duplicates      \* whether the network duplicates packets

ASSUME PeersDiffer == Client # Server
ASSUME PayloadsDiffer == Reset \notin Tls /\ NoMsg \notin Tls \cup {Reset}
ASSUME WindowsArePositive == SendWindow \in Nat \ {0} /\ RecvWindow \in Nat \ {0}
ASSUME AckLimits == AckV1Max \in Nat \ {0} /\ ControlMax \in Nat \ {0}
ASSUME BoundIsNat == MaxFlight \in Nat
ASSUME DuplicatesIsBool == Duplicates \in BOOLEAN

Node == {Client, Server}
ASSUME StreamsAreTls == Stream \in [Node -> Seq(Tls)]
Other(n) == IF n = Client THEN Server ELSE Client
Msg == Tls \cup {Reset}

\* The sequence number of a standalone ACK, which carries none.
NoId == -1

\* A packet on the wire: its destination, the ids it acknowledges, and its
\* own message, if it is a control packet.
Packet == {p \in [to : Node, acks : SUBSET Nat, id : Nat \cup {NoId}, msg : Msg \cup {NoMsg}] :
              p.id = NoId <=> p.msg = NoMsg}
\* A defined slot of a MessageWindow.
Slot == [id : Nat, msg : Msg]
\* A packet under encapsulation: acks are those taken from xmit_acks so far.
Building == {b \in [acks : Seq(Nat), id : Nat \cup {NoId}, msg : Msg \cup {NoMsg}] :
                b.id = NoId <=> b.msg = NoMsg}

VARIABLES
    state,     \* KeyContext::state, up to the start of the SSL handshake
    rawQueue,  \* raw_write_queue
    written,   \* how much of Stream[n] the SSL object has produced
    tlsQueue,  \* ciphertext the SSL object has ready (read_ciphertext_ready)
    sendNext,  \* ReliableSend::next
    sendHead,  \* head_id_ of the sender's window
    unacked,   \* the defined slots of the sender's window
    erased,    \* the ids of its erased slots
    recvHead,  \* head_id_ of the receiver's window
    received,  \* the defined slots of the receiver's window
    ackData,   \* ReliableAck::data, the ids to acknowledge
    reAcks,    \* ReliableAck::re_acks, the ids last acknowledged
    pc,        \* where the current handler is
    due,       \* ids the current retransmit() has still to send again
    building,  \* the packet being encapsulated
    net,       \* the packets in flight
    sent,      \* history: sent[n][i + 1] is the message n gave the id i
    delivered  \* history: the messages n's stack passed up, in order

endpoint == <<state, rawQueue, written, tlsQueue>>
sender   == <<sendNext, sendHead, unacked, erased, sent>>
receiver == <<recvHead, received, delivered>>
ackState == <<ackData, reAcks>>
vars == <<endpoint, sender, receiver, ackState, pc, due, building, net>>

Init ==
    /\ state = [n \in Node |-> IF n = Client THEN "initial" ELSE "wait_reset"]
    /\ rawQueue = [n \in Node |-> <<>>]
    /\ written = [n \in Node |-> 0]
    /\ tlsQueue = [n \in Node |-> <<>>]
    /\ sendNext = [n \in Node |-> 0]
    /\ sendHead = [n \in Node |-> 0]
    /\ unacked = [n \in Node |-> {}]
    /\ erased = [n \in Node |-> {}]
    /\ recvHead = [n \in Node |-> 0]
    /\ received = [n \in Node |-> {}]
    /\ ackData = [n \in Node |-> <<>>]
    /\ reAcks = [n \in Node |-> <<>>]
    /\ pc = [n \in Node |-> "idle"]
    /\ due = [n \in Node |-> {}]
    /\ building = [n \in Node |-> NoPkt]
    /\ net = {}
    /\ sent = [n \in Node |-> <<>>]
    /\ delivered = [n \in Node |-> <<>>]

-----------------------------------------------------------------------------
(* MessageWindow *)

InWindow(head, span, id) == head <= id /\ id < head + span

\* Mutant: a repeated packet is taken for one beyond the window.
PreWindowNever(head, id) == FALSE
PreWindow(head, id) == id < head

\* ReliableSend::ready
\* Mutant: one id too many.
SendReadyOffByOne(n) == InWindow(sendHead[n], SendWindow + 1, sendNext[n])
SendReady(n) == InWindow(sendHead[n], SendWindow, sendNext[n])

\* rm_by_id for each id of acks: the slots that are in the window are erased,
\* and purge() moves the head past the erased slots it now points at.
\* Mutant: an ACK covers every id up to it, as in TCP.
AcknowledgeUpTo(n, acks) ==
    LET gone == {i \in sendHead[n] .. (sendNext[n] - 1) : \E a \in acks : i <= a} IN
    \E head \in sendHead[n] .. (sendHead[n] + SendWindow) :
        /\ head \notin gone
        /\ \A id \in sendHead[n] .. (head - 1) : id \in gone
        /\ sendHead' = [sendHead EXCEPT ![n] = head]
        /\ erased' = [erased EXCEPT ![n] = {}]
        /\ unacked' = [unacked EXCEPT ![n] = {s \in @ : s.id \notin gone}]
Acknowledge(n, acks) ==
    LET gone == erased[n] \cup {a \in acks : InWindow(sendHead[n], SendWindow, a)} IN
    \E head \in sendHead[n] .. (sendHead[n] + SendWindow) :
        /\ head \notin gone
        /\ \A id \in sendHead[n] .. (head - 1) : id \in gone
        /\ sendHead' = [sendHead EXCEPT ![n] = head]
        /\ erased' = [erased EXCEPT ![n] = {id \in gone : id > head}]
        /\ unacked' = [unacked EXCEPT ![n] = {s \in @ : s.id \notin gone}]

(* ReliableAck *)

\* add_ack_to_reack: a, which occurs at most once, moves to the front; the
\* oldest id drops off the end.
Without(re, a) == IF \E i \in 1 .. Len(re) : re[i] = a
                  THEN RemoveAt(re, CHOOSE i \in 1 .. Len(re) : re[i] = a)
                  ELSE re
AddAckToReAck(re, a) ==
    LET front == <<a>> \o Without(re, a) IN
    SubSeq(front, 1, IF Len(front) > AckV1Max THEN AckV1Max ELSE Len(front))

\* The limit prepend() works to.  generate_ack() passes the opcode of
\* ack_send_buf, which frame_prepare() leaves at INVALID_OPCODE, so the test
\* opcode == ACK_V1 fails for a standalone ACK as well.
PrependMax(id) == ControlMax

\* The part of re_acks prepend() adds: the ids already pushed are at its front.
ReAckPart(n, added) ==
    {reAcks[n][i] : i \in {j \in 1 .. Len(reAcks[n]) :
                             added < j /\ j <= PrependMax(building[n].id)}}

-----------------------------------------------------------------------------
(* The handlers *)

\* KeyContext::start on the initiator: queue the reset, then flush.
Start(n) ==
    /\ pc[n] = "idle" /\ state[n] = "initial"
    /\ rawQueue' = [rawQueue EXCEPT ![n] = Append(@, Reset)]
    /\ state' = [state EXCEPT ![n] = "wait_reset"]
    /\ pc' = [pc EXCEPT ![n] = "flush"]
    /\ UNCHANGED <<written, tlsQueue, sender, receiver, ackState, due, building, net>>

\* The SSL object has one more ciphertext packet for the peer: handshake data
\* or an application write.  The server's object speaks only once it has been
\* given a packet of the client's.
SslWrite(n) ==
    /\ pc[n] = "idle" /\ state[n] = "ssl_started"
    /\ n = Client \/ \E i \in 1 .. Len(delivered[n]) : delivered[n][i] \in Tls
    /\ written[n] < Len(Stream[n])
    /\ tlsQueue' = [tlsQueue EXCEPT ![n] = Append(@, Stream[n][written[n] + 1])]
    /\ written' = [written EXCEPT ![n] = @ + 1]
    /\ pc' = [pc EXCEPT ![n] = "flush"]
    /\ UNCHANGED <<state, rawQueue, sender, receiver, ackState, due, building, net>>

\* pkt.opcode != ACK_V1
IsControl(p) == p.id # NoId

\* transport_recv, control_net_recv, net_recv, decapsulate_tls_plain: take the
\* ACKs of the packet, then offer its message to the receive window and note
\* that it is to be acknowledged.  The packet may stay in flight: a duplicate.
Receive(n, p) ==
    /\ pc[n] = "idle"
    /\ p \in net /\ p.to = n
    /\ net' \in {net \ {p}} \cup (IF Duplicates THEN {net} ELSE {})
    /\ Acknowledge(n, p.acks)
    /\ \/ /\ ~IsControl(p)
          /\ pc' = [pc EXCEPT ![n] = "flush"]
          /\ UNCHANGED <<received, ackData>>
       \/ /\ IsControl(p) /\ InWindow(recvHead[n], RecvWindow, p.id)
          /\ received' = [received EXCEPT ![n] =
                            {s \in @ : s.id # p.id} \cup {[id |-> p.id, msg |-> p.msg]}]
          /\ ackData' = [ackData EXCEPT ![n] = Append(@, p.id)]
          /\ pc' = [pc EXCEPT ![n] = "up_sequenced"]
       \/ /\ IsControl(p) /\ PreWindow(recvHead[n], p.id)
          /\ ackData' = [ackData EXCEPT ![n] = Append(@, p.id)]
          /\ pc' = [pc EXCEPT ![n] = "flush"]
          /\ UNCHANGED received
       \/ /\ IsControl(p) /\ ~InWindow(recvHead[n], RecvWindow, p.id)
          /\ ~PreWindow(recvHead[n], p.id)
          /\ pc' = [pc EXCEPT ![n] = "flush"]
          /\ UNCHANGED <<received, ackData>>
    /\ UNCHANGED <<endpoint, sendNext, sent, recvHead, delivered, reAcks, due, building>>

\* raw_recv: the peer's reset moves the handshake on, and the server answers it.
RawRecv(n, m) ==
    IF m = Reset /\ state[n] = "wait_reset"
    THEN /\ state' = [state EXCEPT ![n] = "wait_reset_ack"]
         /\ rawQueue' = IF n = Server THEN [rawQueue EXCEPT ![n] = Append(@, Reset)]
                                      ELSE rawQueue
    ELSE UNCHANGED <<state, rawQueue>>

\* One iteration of up_sequenced(): pass the message at the head of the
\* receive window up.  A TLS packet stays where it is until SSL has started.
\* Mutant: any message of the window will do.
DeliverableAnyOrder(n, s) ==
    s.id >= recvHead[n] /\ (s.msg = Reset \/ state[n] = "ssl_started")
Deliverable(n, s) ==
    s.id = recvHead[n] /\ (s.msg = Reset \/ state[n] = "ssl_started")

\* Mutant: advance() moves the head and leaves the slot defined.
UpSequencedKeepsSlot(n) ==
    /\ pc[n] = "up_sequenced"
    /\ \E s \in received[n] :
          /\ Deliverable(n, s)
          /\ delivered' = [delivered EXCEPT ![n] = Append(@, s.msg)]
          /\ recvHead' = [recvHead EXCEPT ![n] = @ + 1]
          /\ RawRecv(n, s.msg)
    /\ UNCHANGED <<written, tlsQueue, sender, received, ackState, pc, due, building, net>>
UpSequenced(n) ==
    /\ pc[n] = "up_sequenced"
    /\ \E s \in received[n] :
          /\ Deliverable(n, s)
          /\ delivered' = [delivered EXCEPT ![n] = Append(@, s.msg)]
          /\ received' = [received EXCEPT ![n] = @ \ {s}]
          /\ recvHead' = [recvHead EXCEPT ![n] = @ + 1]
          /\ RawRecv(n, s.msg)
    /\ UNCHANGED <<written, tlsQueue, sender, ackState, pc, due, building, net>>

UpSequencedDone(n) ==
    /\ pc[n] = "up_sequenced"
    /\ ~ \E s \in received[n] : Deliverable(n, s)
    /\ pc' = [pc EXCEPT ![n] = "flush"]
    /\ UNCHANGED <<endpoint, sender, receiver, ackState, due, building, net>>

-----------------------------------------------------------------------------
(* KeyContext::flush *)

HandshakeDue(n) == state[n] = "wait_reset_ack" /\ unacked[n] = {}

\* post_ack_action and start_handshake, which calls up_sequenced.
StartHandshake(n) ==
    /\ pc[n] = "flush" /\ building[n] = NoPkt
    /\ HandshakeDue(n)
    /\ state' = [state EXCEPT ![n] = "ssl_started"]
    /\ pc' = [pc EXCEPT ![n] = "up_sequenced"]
    /\ UNCHANGED <<rawQueue, written, tlsQueue, sender, receiver, ackState, due, building, net>>

\* ReliableSend::send and the start of encapsulate: m gets the next id and
\* stays in the window until it is acknowledged.
Sequence(n, m) ==
    /\ unacked' = [unacked EXCEPT ![n] = @ \cup {[id |-> sendNext[n], msg |-> m]}]
    /\ building' = [building EXCEPT ![n] = [acks |-> <<>>, id |-> sendNext[n], msg |-> m]]
    /\ sendNext' = [sendNext EXCEPT ![n] = @ + 1]
    /\ sent' = [sent EXCEPT ![n] = Append(@, m)]

\* One iteration of down_stack_raw.
DownStackRaw(n) ==
    /\ pc[n] = "flush" /\ building[n] = NoPkt /\ ~HandshakeDue(n)
    /\ rawQueue[n] # <<>> /\ SendReady(n)
    /\ Sequence(n, Head(rawQueue[n]))
    /\ rawQueue' = [rawQueue EXCEPT ![n] = Tail(@)]
    /\ UNCHANGED <<state, written, tlsQueue, sendHead, erased, receiver, ackState, pc, due, net>>

\* One iteration of the second loop of down_stack_app.
DownStackApp(n) ==
    /\ pc[n] = "flush" /\ building[n] = NoPkt /\ ~HandshakeDue(n)
    /\ rawQueue[n] = <<>> /\ state[n] = "ssl_started"
    /\ tlsQueue[n] # <<>> /\ SendReady(n)
    /\ Sequence(n, Head(tlsQueue[n]))
    /\ tlsQueue' = [tlsQueue EXCEPT ![n] = Tail(@)]
    /\ UNCHANGED <<state, rawQueue, written, sendHead, erased, receiver, ackState, pc, due, net>>

\* Nothing is left to send, or the window is full.
\* Mutant: ACKs wait for a retransmission to carry them, if one may come.
DownStackDoneDelayAcks(n) ==
    /\ pc[n] = "flush" /\ building[n] = NoPkt /\ ~HandshakeDue(n)
    /\ \/ ~SendReady(n)
       \/ rawQueue[n] = <<>> /\ (tlsQueue[n] = <<>> \/ state[n] # "ssl_started")
    /\ pc' = [pc EXCEPT ![n] = IF unacked[n] # {} THEN "idle" ELSE "send_acks"]
    /\ UNCHANGED <<endpoint, sender, receiver, ackState, due, building, net>>
DownStackDone(n) ==
    /\ pc[n] = "flush" /\ building[n] = NoPkt /\ ~HandshakeDue(n)
    /\ \/ ~SendReady(n)
       \/ rawQueue[n] = <<>> /\ (tlsQueue[n] = <<>> \/ state[n] # "ssl_started")
    /\ pc' = [pc EXCEPT ![n] = "send_acks"]
    /\ UNCHANGED <<endpoint, sender, receiver, ackState, due, building, net>>

\* One iteration of send_pending_acks: build a standalone ACK.
SendPendingAcks(n) ==
    /\ pc[n] = "send_acks" /\ building[n] = NoPkt
    /\ IF ackData[n] = <<>>
       THEN /\ pc' = [pc EXCEPT ![n] = "idle"]
            /\ UNCHANGED building
       ELSE /\ building' = [building EXCEPT ![n] =
                              [acks |-> <<>>, id |-> NoId, msg |-> NoMsg]]
            /\ UNCHANGED pc
    /\ UNCHANGED <<endpoint, sender, receiver, ackState, due, net>>

-----------------------------------------------------------------------------
(* encapsulate and generate_ack *)

\* One iteration of the first loop of ReliableAck::prepend.
MoreToAck(n) == /\ Len(building[n].acks) < PrependMax(building[n].id)
                /\ ackData[n] # <<>>

PrependAck(n) ==
    /\ building[n] # NoPkt /\ MoreToAck(n)
    /\ building' = [building EXCEPT ![n] =
                      [acks |-> Append(@.acks, Head(ackData[n])), id |-> @.id, msg |-> @.msg]]
    /\ reAcks' = [reAcks EXCEPT ![n] = AddAckToReAck(@, Head(ackData[n]))]
    /\ ackData' = [ackData EXCEPT ![n] = Tail(@)]
    /\ UNCHANGED <<endpoint, sender, receiver, pc, due, net>>

\* The second loop of prepend, and net_send.
Sealed(n) == [to |-> Other(n), id |-> building[n].id, msg |-> building[n].msg,
              acks |-> ToSet(building[n].acks) \cup ReAckPart(n, Len(building[n].acks))]

NetSend(n) ==
    /\ building[n] # NoPkt /\ ~MoreToAck(n)
    /\ net' = IF Cardinality({p \in net : p.to = Other(n)}) < MaxFlight
              THEN net \cup {Sealed(n)} ELSE net
    /\ building' = [building EXCEPT ![n] = NoPkt]
    /\ UNCHANGED <<endpoint, sender, receiver, ackState, pc, due>>

-----------------------------------------------------------------------------
(* The retransmission timer *)

\* Mutant: the loop starts after head_id().
RetransmitNotHead(n, id) ==
    /\ pc[n] = "idle"
    /\ \E ids \in SUBSET {s.id : s \in {t \in unacked[n] : t.id > sendHead[n]}} :
          /\ id \in ids
          /\ due' = [due EXCEPT ![n] = ids]
    /\ pc' = [pc EXCEPT ![n] = "retransmit"]
    /\ UNCHANGED <<endpoint, sender, receiver, ackState, building, net>>
\* housekeeping_callback: id and perhaps other messages have timed out.
Retransmit(n, id) ==
    /\ pc[n] = "idle"
    /\ \E ids \in SUBSET {s.id : s \in unacked[n]} :
          /\ id \in ids
          /\ due' = [due EXCEPT ![n] = ids]
    /\ pc' = [pc EXCEPT ![n] = "retransmit"]
    /\ UNCHANGED <<endpoint, sender, receiver, ackState, building, net>>

\* One iteration of the loop of retransmit(), in the order of the ids.
RetransmitOne(n) ==
    /\ pc[n] = "retransmit" /\ building[n] = NoPkt
    /\ \E s \in unacked[n] :
          /\ s.id \in due[n] /\ \A id \in due[n] : s.id <= id
          /\ building' = [building EXCEPT ![n] = [acks |-> <<>>, id |-> s.id, msg |-> s.msg]]
          /\ due' = [due EXCEPT ![n] = @ \ {s.id}]
    /\ UNCHANGED <<endpoint, sender, receiver, ackState, pc, net>>

RetransmitDone(n) ==
    /\ pc[n] = "retransmit" /\ building[n] = NoPkt /\ due[n] = {}
    /\ pc' = [pc EXCEPT ![n] = "idle"]
    /\ UNCHANGED <<endpoint, sender, receiver, ackState, due, building, net>>

-----------------------------------------------------------------------------
(* The network *)

\* Which packets are lost is settled when the destination is ready to read:
\* until then a packet waits on the wire or in the socket.
Lose(p) ==
    /\ p \in net /\ pc[p.to] = "idle"
    /\ net' = net \ {p}
    /\ UNCHANGED <<endpoint, sender, receiver, ackState, pc, due, building>>

\* The rest of a handler that has started.
Step(n) ==
    \/ UpSequenced(n) \/ UpSequencedDone(n) \/ StartHandshake(n)
    \/ DownStackRaw(n) \/ DownStackApp(n) \/ DownStackDone(n) \/ SendPendingAcks(n)
    \/ PrependAck(n) \/ NetSend(n) \/ RetransmitOne(n) \/ RetransmitDone(n)

Next ==
    \/ \E n \in Node : \/ (n = Client /\ Start(n)) \/ SslWrite(n) \/ Step(n)
                       \/ \E s \in unacked[n] : Retransmit(n, s.id)
                       \/ \E p \in net : Receive(n, p)
    \/ \E p \in net : Lose(p)

Safety == Init /\ [][Next]_vars

\* A peer's event loop finishes the handler it is in, serves its timers and
\* reads its socket, and the network does not lose every copy of what is sent again and again:
\* the oldest message of a send window, and the ACK it waits for.
RetransmitHead(n) == Retransmit(n, sendHead[n])
ReceiveAny(n) == \E p \in net : Receive(n, p)
ReceiveHead(n) == \E p \in net : p.id = sendHead[Other(n)] /\ Receive(n, p)
ReceiveAck(n) == \E p \in net : sendHead[n] \in p.acks /\ Receive(n, p)

Fairness ==
    /\ WF_vars(Start(Client))
    /\ \A n \in Node : /\ WF_vars(Step(n))
                        /\ SF_vars(RetransmitHead(n))
                        /\ SF_vars(ReceiveAny(n))
                        /\ SF_vars(ReceiveHead(n))
                        /\ SF_vars(ReceiveAck(n))

Spec == Safety /\ Fairness

-----------------------------------------------------------------------------
(* Properties *)

TypeOK ==
    /\ state \in [Node -> {"initial", "wait_reset", "wait_reset_ack", "ssl_started"}]
    /\ rawQueue \in [Node -> Seq(Msg)] /\ written \in [Node -> Nat]
    /\ tlsQueue \in [Node -> Seq(Msg)]
    /\ sendNext \in [Node -> Nat] /\ sendHead \in [Node -> Nat]
    /\ unacked \in [Node -> SUBSET Slot] /\ erased \in [Node -> SUBSET Nat]
    /\ recvHead \in [Node -> Nat] /\ received \in [Node -> SUBSET Slot]
    /\ ackData \in [Node -> Seq(Nat)] /\ reAcks \in [Node -> Seq(Nat)]
    /\ pc \in [Node -> {"idle", "up_sequenced", "flush", "send_acks", "retransmit"}]
    /\ due \in [Node -> SUBSET Nat]
    /\ building \in [Node -> Building \cup {NoPkt}]
    /\ net \in SUBSET Packet
    /\ sent \in [Node -> Seq(Msg)] /\ delivered \in [Node -> Seq(Msg)]

\* Whatever the network does, a peer's stack passes up exactly what the other
\* peer gave an id to, in the order of the ids, nothing twice and nothing left
\* out (ReliableRecv::receive, next_sequenced and advance).
OrderedExactlyOnce == \A n \in Node : IsPrefix(delivered[n], sent[Other(n)])

\* n's receive side has the message with this id, passed up or in its window.
HasMessage(n, id) == id < recvHead[n] \/ \E s \in received[n] : s.id = id

\* A sender drops a message from its window, so that it is never sent again,
\* only when the other peer has it (ReliableSend::ack; the ids acknowledged
\* again by re_acks included).
DroppedOnlyWhenReceived ==
    \A n \in Node : \A id \in 0 .. (sendNext[n] - 1) :
        (\A s \in unacked[n] : s.id # id) => HasMessage(Other(n), id)

\* c, a slot or a packet, carries the message its id was given to by n.
Numbered(n, c) == c.id < sendNext[n] /\ c.msg = sent[n][c.id + 1]
\* What n may acknowledge.
Has(n) == {id \in Nat : HasMessage(n, id)}

SendInv(n) ==
    /\ Len(sent[n]) = sendNext[n]
    /\ \A s \in unacked[n] : Numbered(n, s)
    /\ erased[n] \subseteq Has(Other(n))
    /\ \A id \in 0 .. (sendNext[n] - 1) :
          (\E s \in unacked[n] : s.id = id) \/ HasMessage(Other(n), id)
RecvInv(n) ==
    /\ Len(delivered[n]) = recvHead[n] /\ recvHead[n] <= sendNext[Other(n)]
    /\ \A i \in 1 .. recvHead[n] : delivered[n][i] = sent[Other(n)][i]
    /\ \A s \in received[n] : recvHead[n] <= s.id /\ Numbered(Other(n), s)
AckInv(n) ==
    /\ ackData[n] \in Seq(Has(n)) /\ reAcks[n] \in Seq(Has(n))
    /\ building[n] # NoPkt =>
          /\ building[n].acks \in Seq(Has(n))
          /\ building[n].id # NoId => Numbered(n, building[n])
NetInv ==
    \A p \in net : /\ p.acks \subseteq Has(Other(p.to))
                   /\ p.id # NoId => Numbered(Other(p.to), p)

\* The windows, the packets in flight and the ids to acknowledge agree: an id
\* means the same message everywhere it is stored, and no id is acknowledged,
\* queued for acknowledgement or erased that the receiver does not have.
\* Inductive: OrderedExactlyOnce and DroppedOnlyWhenReceived follow from it.
WindowsAgree == (\A n \in Node : SendInv(n) /\ RecvInv(n) /\ AckInv(n)) /\ NetInv

\* A handler does not end while ids are waiting to be acknowledged: an
\* acknowledgement is never left to a later packet (flush and
\* send_pending_acks; ReliableAck::empty).
NoAckOwedWhenIdle == \A n \in Node : pc[n] \in {"idle", "retransmit"} => ackData[n] = <<>>

\* With a receive window no smaller than the send window, no message in flight
\* is beyond the receiver's window, where it would be dropped without an ACK.
NeverBeyondWindow ==
    SendWindow <= RecvWindow =>
        \A p \in net : p.id < recvHead[p.to] + RecvWindow

\* The channel implements its abstract specification, liveness included:
\* what was sent is delivered although packets are lost.
Channel == INSTANCE OrderedChannel
ImplementsChannel == Channel!Spec

\* Every message is acknowledged in the end: the send window drains.
WindowDrains == \A n \in Node : []<>(unacked[n] = {})
=============================================================================
