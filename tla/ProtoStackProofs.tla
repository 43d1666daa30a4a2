-------------------------- MODULE ProtoStackProofs --------------------------
(***************************************************************************)
(* Proofs about ProtoStack for every value of its constants: any streams,  *)
(* any windows, any limits on ACKs, any network.                           *)
(***************************************************************************)
EXTENDS ProtoStack, TLAPS

USE PeersDiffer, PayloadsDiffer

LEMMA OtherIsNode == \A n \in Node : Other(n) \in Node /\ Other(n) # n /\ Other(Other(n)) = n
BY DEF Node, Other

-----------------------------------------------------------------------------
(* Type correctness *)

LEMMA WithoutType ==
    ASSUME NEW S, NEW re \in Seq(S), NEW a
    PROVE  Without(re, a) \in Seq(S)
<1>1. CASE \E i \in 1 .. Len(re) : re[i] = a
    <2> DEFINE k == CHOOSE i \in 1 .. Len(re) : re[i] = a
    <2>1. k \in 1 .. Len(re)
        BY <1>1
    <2>2. Without(re, a) = RemoveAt(re, k)
        BY <1>1 DEF Without
    <2> HIDE DEF k
    <2>3. SubSeq(re, 1, k - 1) \in Seq(S) /\ SubSeq(re, k + 1, Len(re)) \in Seq(S)
        BY <2>1
    <2>4. QED
        BY <2>2, <2>3 DEF RemoveAt
<1>2. CASE ~ \E i \in 1 .. Len(re) : re[i] = a
    BY <1>2 DEF Without
<1>3. QED
    BY <1>1, <1>2

LEMMA ReAckType ==
    ASSUME NEW S, NEW re \in Seq(S), NEW a \in S
    PROVE  AddAckToReAck(re, a) \in Seq(S)
<1> DEFINE front == <<a>> \o Without(re, a)
<1>1. front \in Seq(S)
    BY WithoutType
<1> HIDE DEF front
<1>2. SubSeq(front, 1, IF Len(front) > AckV1Max THEN AckV1Max ELSE Len(front)) \in Seq(S)
    BY <1>1, AckLimits
<1>3. QED
    BY <1>2 DEF AddAckToReAck, front

LEMMA ToSetType ==
    ASSUME NEW s \in Seq(Nat)
    PROVE  ToSet(s) \subseteq Nat
BY DEF ToSet

LEMMA TypeInit == Init => TypeOK
BY DEF Init, TypeOK, Node

\* The actions of a peer and of the network, one case each.
LEMMA NextCases ==
    ASSUME Next
    PROVE  \/ \E n \in Node :
                 \/ Start(n) \/ SslWrite(n) \/ UpSequenced(n) \/ UpSequencedDone(n)
                 \/ StartHandshake(n) \/ DownStackRaw(n) \/ DownStackApp(n)
                 \/ DownStackDone(n) \/ SendPendingAcks(n) \/ PrependAck(n) \/ NetSend(n)
                 \/ RetransmitOne(n) \/ RetransmitDone(n)
                 \/ \E s \in unacked[n] : Retransmit(n, s.id)
                 \/ \E p \in net : Receive(n, p)
           \/ \E p \in net : Lose(p)
BY DEF Next, Step

LEMMA TypeNext == TypeOK /\ [Next]_vars => TypeOK'
<1> SUFFICES ASSUME TypeOK, [Next]_vars PROVE TypeOK'
    OBVIOUS
<1> USE OtherIsNode
<1>1. CASE UNCHANGED vars
    BY <1>1 DEF vars, endpoint, sender, receiver, ackState, TypeOK
<1>2. ASSUME NEW n \in Node, Start(n) PROVE TypeOK'
    <2>1. Append(rawQueue[n], Reset) \in Seq(Msg)
        BY DEF TypeOK, Msg
    <2>2. QED
        BY <1>2, <2>1 DEF TypeOK, Start, sender, receiver, ackState
<1>3. ASSUME NEW n \in Node, SslWrite(n) PROVE TypeOK'
    <2>1. Stream[n] \in Seq(Tls) /\ written[n] \in Nat /\ tlsQueue[n] \in Seq(Msg)
        BY StreamsAreTls DEF TypeOK
    <2>2. written[n] < Len(Stream[n])
        BY <1>3 DEF SslWrite
    <2>3. Stream[n][written[n] + 1] \in Tls
        BY <2>1, <2>2
    <2> DEFINE m == Stream[n][written[n] + 1]
    <2>5. Append(tlsQueue[n], m) \in Seq(Msg) /\ written[n] + 1 \in Nat
        BY <2>1, <2>3 DEF Msg
    <2>6. QED
        BY <1>3, <2>5 DEF TypeOK, SslWrite, sender, receiver, ackState
<1>4. ASSUME NEW n \in Node, UpSequenced(n) PROVE TypeOK'
    <2>1. PICK s \in received[n] :
            /\ delivered' = [delivered EXCEPT ![n] = Append(@, s.msg)]
            /\ received' = [received EXCEPT ![n] = @ \ {s}]
            /\ recvHead' = [recvHead EXCEPT ![n] = @ + 1]
            /\ RawRecv(n, s.msg)
        BY <1>4 DEF UpSequenced
    <2>2. s.msg \in Msg
        BY DEF TypeOK, Slot
    <2>3. /\ state' \in [Node -> {"initial", "wait_reset", "wait_reset_ack", "ssl_started"}]
          /\ rawQueue' \in [Node -> Seq(Msg)]
        <3>1. CASE UNCHANGED <<state, rawQueue>>
            BY <3>1 DEF TypeOK
        <3>2. Append(rawQueue[n], Reset) \in Seq(Msg)
            BY DEF TypeOK, Msg
        <3>3. CASE s.msg = Reset /\ state[n] = "wait_reset"
            <4>1. /\ state' = [state EXCEPT ![n] = "wait_reset_ack"]
                  /\ \/ rawQueue' = [rawQueue EXCEPT ![n] = Append(@, Reset)]
                     \/ rawQueue' = rawQueue
                BY <2>1, <3>3 DEF RawRecv
            <4>2. state' \in [Node -> {"initial", "wait_reset", "wait_reset_ack", "ssl_started"}]
                BY <4>1 DEF TypeOK
            <4>3. rawQueue' \in [Node -> Seq(Msg)]
                <5>1. CASE rawQueue' = [rawQueue EXCEPT ![n] = Append(@, Reset)]
                    BY <3>2, <5>1 DEF TypeOK
                <5>2. CASE rawQueue' = rawQueue
                    BY <5>2 DEF TypeOK
                <5>3. QED
                    BY <4>1, <5>1, <5>2
            <4>4. QED
                BY <4>2, <4>3
        <3>4. QED
            BY <2>1, <3>1, <3>3 DEF RawRecv
    <2>4. /\ Append(delivered[n], s.msg) \in Seq(Msg)
          /\ recvHead[n] + 1 \in Nat /\ received[n] \ {s} \in SUBSET Slot
        BY <2>2 DEF TypeOK
    <2>5. /\ delivered' \in [Node -> Seq(Msg)] /\ received' \in [Node -> SUBSET Slot]
          /\ recvHead' \in [Node -> Nat]
        BY <2>1, <2>4 DEF TypeOK
    <2>6. QED
        BY <1>4, <2>3, <2>5 DEF UpSequenced, TypeOK, sender, ackState
<1>5. ASSUME NEW n \in Node, UpSequencedDone(n) PROVE TypeOK'
    BY <1>5 DEF TypeOK, UpSequencedDone, endpoint, sender, receiver, ackState
<1>6. ASSUME NEW n \in Node, StartHandshake(n) PROVE TypeOK'
    BY <1>6 DEF TypeOK, StartHandshake, sender, receiver, ackState
<1>7. ASSUME NEW n \in Node, NEW m \in Msg, Sequence(n, m)
      PROVE  /\ unacked' \in [Node -> SUBSET Slot] /\ sendNext' \in [Node -> Nat]
             /\ building' \in [Node -> Building \cup {NoPkt}] /\ sent' \in [Node -> Seq(Msg)]
    <2>1. [id |-> sendNext[n], msg |-> m] \in Slot
        BY DEF TypeOK, Slot
    <2>2. [acks |-> <<>>, id |-> sendNext[n], msg |-> m] \in Building
        BY DEF TypeOK, Building, NoId, Msg
    <2>3. QED
        BY <1>7, <2>1, <2>2 DEF Sequence, TypeOK
<1>8. ASSUME NEW n \in Node, DownStackRaw(n) PROVE TypeOK'
    <2>1. Head(rawQueue[n]) \in Msg /\ Tail(rawQueue[n]) \in Seq(Msg)
        BY <1>8 DEF DownStackRaw, TypeOK
    <2>2. QED
        BY <1>7, <1>8, <2>1 DEF TypeOK, DownStackRaw, receiver, ackState
<1>9. ASSUME NEW n \in Node, DownStackApp(n) PROVE TypeOK'
    <2>1. Head(tlsQueue[n]) \in Msg /\ Tail(tlsQueue[n]) \in Seq(Msg)
        BY <1>9 DEF DownStackApp, TypeOK
    <2>2. QED
        BY <1>7, <1>9, <2>1 DEF TypeOK, DownStackApp, receiver, ackState
<1>10. ASSUME NEW n \in Node, DownStackDone(n) PROVE TypeOK'
    BY <1>10 DEF TypeOK, DownStackDone, endpoint, sender, receiver, ackState
<1>11. ASSUME NEW n \in Node, SendPendingAcks(n) PROVE TypeOK'
    <2>1. [acks |-> <<>>, id |-> NoId, msg |-> NoMsg] \in Building
        BY DEF Building, NoId
    <2>2. building' \in [Node -> Building \cup {NoPkt}]
        <3>1. CASE building' = building
            BY <3>1 DEF TypeOK
        <3>2. CASE building' = [building EXCEPT ![n] = [acks |-> <<>>, id |-> NoId, msg |-> NoMsg]]
            BY <2>1, <3>2 DEF TypeOK
        <3>3. QED
            BY <1>11, <3>1, <3>2 DEF SendPendingAcks
    <2>3. QED
        BY <1>11, <2>2 DEF TypeOK, SendPendingAcks, endpoint, sender, receiver, ackState
<1>12. ASSUME NEW n \in Node, PrependAck(n) PROVE TypeOK'
    <2>1. Head(ackData[n]) \in Nat /\ Tail(ackData[n]) \in Seq(Nat)
        BY <1>12 DEF PrependAck, MoreToAck, TypeOK
    <2>2. building[n] \in Building
        BY <1>12 DEF PrependAck, TypeOK
    <2>3. [acks |-> Append(building[n].acks, Head(ackData[n])),
           id |-> building[n].id, msg |-> building[n].msg] \in Building
        BY <2>1, <2>2 DEF Building
    <2>4. AddAckToReAck(reAcks[n], Head(ackData[n])) \in Seq(Nat)
        BY <2>1, ReAckType DEF TypeOK
    <2>5. QED
        BY <1>12, <2>1, <2>3, <2>4 DEF TypeOK, PrependAck, endpoint, sender, receiver
<1>13. ASSUME NEW n \in Node, NetSend(n) PROVE TypeOK'
    <2>1. building[n] \in Building
        BY <1>13 DEF NetSend, TypeOK
    <2>2. ToSet(building[n].acks) \subseteq Nat /\ ReAckPart(n, Len(building[n].acks)) \subseteq Nat
        BY <2>1, ToSetType DEF Building, ReAckPart, TypeOK
    <2>3. Sealed(n) \in Packet
        BY <2>1, <2>2 DEF Sealed, Packet, Building
    <2>4. QED
        BY <1>13, <2>3 DEF TypeOK, NetSend, endpoint, sender, receiver, ackState
<1>14. ASSUME NEW n \in Node, RetransmitOne(n) PROVE TypeOK'
    <2>1. PICK s \in unacked[n] :
            /\ building' = [building EXCEPT ![n] = [acks |-> <<>>, id |-> s.id, msg |-> s.msg]]
            /\ due' = [due EXCEPT ![n] = @ \ {s.id}]
        BY <1>14 DEF RetransmitOne
    <2>2. [acks |-> <<>>, id |-> s.id, msg |-> s.msg] \in Building
        BY DEF TypeOK, Slot, Building, NoId, Msg
    <2>3. building' \in [Node -> Building \cup {NoPkt}]
        BY <2>1, <2>2 DEF TypeOK
    <2>4. due' \in [Node -> SUBSET Nat]
        BY <2>1 DEF TypeOK
    <2>5. QED
        BY <1>14, <2>3, <2>4 DEF TypeOK, RetransmitOne, endpoint, sender, receiver, ackState
<1>15. ASSUME NEW n \in Node, RetransmitDone(n) PROVE TypeOK'
    BY <1>15 DEF TypeOK, RetransmitDone, endpoint, sender, receiver, ackState
<1>16. ASSUME NEW n \in Node, NEW s \in unacked[n], Retransmit(n, s.id) PROVE TypeOK'
    <2>1. PICK ids \in SUBSET {t.id : t \in unacked[n]} : due' = [due EXCEPT ![n] = ids]
        BY <1>16 DEF Retransmit
    <2>2. \A t \in unacked[n] : t.id \in Nat
        BY DEF TypeOK, Slot
    <2>3. ids \in SUBSET Nat
        BY <2>2
    <2>4. QED
        BY <1>16, <2>1, <2>3 DEF TypeOK, Retransmit, endpoint, sender, receiver, ackState
<1>17. ASSUME NEW n \in Node, NEW p \in net, Receive(n, p) PROVE TypeOK'
    <2>1. p \in Packet
        BY DEF TypeOK
    <2>2. /\ sendHead' \in [Node -> Nat] /\ erased' \in [Node -> SUBSET Nat]
          /\ unacked' \in [Node -> SUBSET Slot]
        BY <1>17, <2>1, WindowsArePositive DEF Receive, Acknowledge, TypeOK, Packet
    <2>3. IsControl(p) => p.id \in Nat
        BY <2>1 DEF IsControl, Packet
    <2>4. IsControl(p) /\ (InWindow(recvHead[n], RecvWindow, p.id) \/ PreWindow(recvHead[n], p.id))
            => p.msg \in Msg
        BY <2>1 DEF IsControl, Packet
    <2>5. received' \in [Node -> SUBSET Slot] /\ ackData' \in [Node -> Seq(Nat)]
        <3>1. CASE UNCHANGED <<received, ackData>>
            BY <3>1 DEF TypeOK
        <3>2. ASSUME IsControl(p), p.msg \in Msg,
                     received' = [received EXCEPT ![n] =
                        {s \in @ : s.id # p.id} \cup {[id |-> p.id, msg |-> p.msg]}]
              PROVE  received' \in [Node -> SUBSET Slot]
            <4>1. [id |-> p.id, msg |-> p.msg] \in Slot
                BY <2>3, <3>2 DEF Slot
            <4>2. QED
                BY <3>2, <4>1 DEF TypeOK
        <3>3. ASSUME IsControl(p), ackData' = [ackData EXCEPT ![n] = Append(@, p.id)]
              PROVE  ackData' \in [Node -> Seq(Nat)]
            <4>1. Append(ackData[n], p.id) \in Seq(Nat)
                BY <2>3, <3>3 DEF TypeOK
            <4>2. QED
                BY <3>3, <4>1 DEF TypeOK
        <3>4. CASE UNCHANGED received
            BY <1>17, <3>1, <3>3, <3>4 DEF Receive, TypeOK
        <3>5. QED
            BY <1>17, <2>4, <3>1, <3>2, <3>3, <3>4 DEF Receive
    <2>6. /\ net' \in SUBSET Packet
          /\ pc' \in [Node -> {"idle", "up_sequenced", "flush", "send_acks", "retransmit"}]
        <3>1. net' \in {net \ {p}, net}
            BY <1>17 DEF Receive
        <3>2. pc' \in {[pc EXCEPT ![n] = "flush"], [pc EXCEPT ![n] = "up_sequenced"]}
            BY <1>17 DEF Receive
        <3>3. QED
            BY <3>1, <3>2 DEF TypeOK
    <2>7. QED
        BY <1>17, <2>2, <2>5, <2>6 DEF Receive, TypeOK, endpoint
<1>18. ASSUME NEW p \in net, Lose(p) PROVE TypeOK'
    BY <1>18 DEF TypeOK, Lose, endpoint, sender, receiver, ackState
<1>19. QED
    BY <1>1, <1>2, <1>3, <1>4, <1>5, <1>6, <1>8, <1>9, <1>10, <1>11, <1>12, <1>13,
       <1>14, <1>15, <1>16, <1>17, <1>18, NextCases

\* Every reachable state is well typed: in particular control packets, and only
\* they, carry a message and an id.
THEOREM TypeCorrect == Safety => []TypeOK
<1>1. Init => TypeOK
    BY TypeInit
<1>2. TypeOK /\ [Next]_vars => TypeOK'
    BY TypeNext
<1>3. QED
    BY <1>1, <1>2, PTL DEF Safety

-----------------------------------------------------------------------------
(* What a step changes *)

\* Both loops of the down stack give the next id to a message.
LEMMA DownStackSequences ==
    ASSUME TypeOK, NEW n \in Node, DownStackRaw(n) \/ DownStackApp(n)
    PROVE  \E m \in Msg : Sequence(n, m) /\ UNCHANGED <<sendHead, erased>>
<1>1. CASE DownStackRaw(n)
    <2>1. Head(rawQueue[n]) \in Msg
        BY <1>1 DEF DownStackRaw, TypeOK
    <2>2. QED
        BY <1>1, <2>1 DEF DownStackRaw
<1>2. CASE DownStackApp(n)
    <2>1. Head(tlsQueue[n]) \in Msg
        BY <1>2 DEF DownStackApp, TypeOK
    <2>2. QED
        BY <1>2, <2>1 DEF DownStackApp
<1>3. QED
    BY <1>1, <1>2

LEMMA SenderStep ==
    ASSUME TypeOK, [Next]_vars
    PROVE  \/ UNCHANGED sender
           \/ \E n \in Node : \E m \in Msg : Sequence(n, m) /\ UNCHANGED <<sendHead, erased>>
           \/ \E n \in Node : \E p \in net : Receive(n, p)
<1>1. CASE Next
    BY <1>1, DownStackSequences, NextCases
       DEF Start, SslWrite, UpSequenced, UpSequencedDone, StartHandshake, DownStackDone,
           SendPendingAcks, PrependAck, NetSend, RetransmitOne, RetransmitDone, Retransmit, Lose
<1>2. QED
    BY <1>1 DEF vars

LEMMA ReceiverStep ==
    ASSUME [Next]_vars
    PROVE  \/ UNCHANGED receiver
           \/ \E n \in Node : UpSequenced(n)
           \/ \E n \in Node : \E p \in net : Receive(n, p)
<1>1. CASE Next
    BY <1>1, NextCases
       DEF Start, SslWrite, UpSequencedDone, StartHandshake, DownStackRaw, DownStackApp,
           DownStackDone, SendPendingAcks, PrependAck, NetSend, RetransmitOne,
           RetransmitDone, Retransmit, Lose
<1>2. QED
    BY <1>1 DEF vars

LEMMA AckStep ==
    ASSUME [Next]_vars
    PROVE  \/ UNCHANGED ackState
           \/ \E n \in Node : PrependAck(n)
           \/ \E n \in Node : \E p \in net : Receive(n, p)
<1>1. CASE Next
    BY <1>1, NextCases
       DEF Start, SslWrite, UpSequenced, UpSequencedDone, StartHandshake, DownStackRaw,
           DownStackApp, DownStackDone, SendPendingAcks, NetSend, RetransmitOne,
           RetransmitDone, Retransmit, Lose
<1>2. QED
    BY <1>1 DEF vars

LEMMA BuildingStep ==
    ASSUME TypeOK, [Next]_vars
    PROVE  \/ UNCHANGED building
           \/ \E n \in Node : \E m \in Msg : Sequence(n, m) /\ UNCHANGED <<sendHead, erased>>
           \/ \E n \in Node : SendPendingAcks(n) \/ PrependAck(n) \/ NetSend(n) \/ RetransmitOne(n)
<1>1. CASE Next
    BY <1>1, DownStackSequences, NextCases
       DEF Start, SslWrite, UpSequenced, UpSequencedDone, StartHandshake, DownStackDone,
           RetransmitDone, Retransmit, Receive, Lose
<1>2. QED
    BY <1>1 DEF vars

LEMMA NetStep ==
    ASSUME [Next]_vars
    PROVE  net' \subseteq net \/ \E n \in Node : NetSend(n)
<1>1. CASE Next
    BY <1>1, NextCases
       DEF Start, SslWrite, UpSequenced, UpSequencedDone, StartHandshake, DownStackRaw,
           DownStackApp, DownStackDone, SendPendingAcks, PrependAck, RetransmitOne,
           RetransmitDone, Retransmit, Receive, Lose
<1>2. QED
    BY <1>1 DEF vars

-----------------------------------------------------------------------------
(* Messages keep their ids, and a peer keeps what it has received *)

LEMMA SentGrows ==
    ASSUME TypeOK, WindowsAgree, [Next]_vars, NEW n \in Node
    PROVE  /\ sendNext[n] <= sendNext'[n]
           /\ \A id \in Nat : id < sendNext[n] => sent'[n][id + 1] = sent[n][id + 1]
<1>1. CASE UNCHANGED <<sendNext, sent>>
    BY <1>1 DEF TypeOK
<1>2. ASSUME NEW k \in Node, NEW m \in Msg, Sequence(k, m)
      PROVE  /\ sendNext[n] <= sendNext'[n]
             /\ \A id \in Nat : id < sendNext[n] => sent'[n][id + 1] = sent[n][id + 1]
    <2>1. sent[n] \in Seq(Msg) /\ Len(sent[n]) = sendNext[n] /\ sendNext[n] \in Nat
        BY DEF TypeOK, WindowsAgree, SendInv
    <2>2. CASE n = k
        <3>1. sendNext'[n] = sendNext[n] + 1 /\ sent'[n] = Append(sent[n], m)
            BY <1>2, <2>2 DEF Sequence, TypeOK
        <3>2. QED
            BY <2>1, <3>1
    <2>3. CASE n # k
        <3>1. sendNext'[n] = sendNext[n] /\ sent'[n] = sent[n]
            BY <1>2, <2>3 DEF Sequence, TypeOK
        <3>2. QED
            BY <2>1, <3>1
    <2>4. QED
        BY <2>2, <2>3
<1>3. QED
    BY <1>1, <1>2, SenderStep DEF sender, Receive

LEMMA NumberedStays ==
    ASSUME TypeOK, WindowsAgree, [Next]_vars, NEW n \in Node, NEW c, c.id \in Nat, Numbered(n, c)
    PROVE  c.id < sendNext'[n] /\ c.msg = sent'[n][c.id + 1]
<1>1. sendNext[n] \in Nat /\ sendNext'[n] \in Nat
    BY TypeNext DEF TypeOK
<1>2. QED
    BY <1>1, SentGrows DEF Numbered

\* A slot of a receive window has no twin with the same id.
LEMMA SlotsAreUnique ==
    ASSUME TypeOK, WindowsAgree, NEW n \in Node,
           NEW s \in received[n], NEW t \in received[n], s.id = t.id
    PROVE  s = t
<1>1. s \in Slot /\ t \in Slot
    BY DEF TypeOK
<1>2. s.msg = t.msg
    BY DEF WindowsAgree, RecvInv, Numbered
<1>3. QED
    BY <1>1, <1>2 DEF Slot

LEMMA HasGrows ==
    ASSUME TypeOK, WindowsAgree, [Next]_vars, NEW n \in Node
    PROVE  Has(n) \subseteq Has(n)'
<1>1. CASE UNCHANGED receiver
    BY <1>1 DEF receiver, Has, HasMessage
<1>2. ASSUME NEW k \in Node, UpSequenced(k) PROVE Has(n) \subseteq Has(n)'
    <2>1. PICK s \in received[k] :
            /\ s.id = recvHead[k]
            /\ received' = [received EXCEPT ![k] = @ \ {s}]
            /\ recvHead' = [recvHead EXCEPT ![k] = @ + 1]
        BY <1>2 DEF UpSequenced, Deliverable
    <2>2. recvHead[k] \in Nat
        BY DEF TypeOK
    <2>3. CASE n = k
        <3>1. recvHead'[n] = recvHead[n] + 1 /\ received'[n] = received[n] \ {s}
            BY <2>1, <2>3 DEF TypeOK
        <3>2. ASSUME NEW id \in Nat, HasMessage(n, id) PROVE HasMessage(n, id)'
            BY <2>1, <2>2, <2>3, <3>1, <3>2 DEF HasMessage
        <3>3. QED
            BY <3>2 DEF Has
    <2>4. CASE n # k
        <3>1. recvHead'[n] = recvHead[n] /\ received'[n] = received[n]
            BY <2>1, <2>4 DEF TypeOK
        <3>2. QED
            BY <3>1 DEF Has, HasMessage
    <2>5. QED
        BY <2>3, <2>4
<1>3. ASSUME NEW k \in Node, NEW p \in net, Receive(k, p) PROVE Has(n) \subseteq Has(n)'
    <2>1. recvHead' = recvHead
        BY <1>3 DEF Receive
    <2>2. CASE received' = received
        BY <2>1, <2>2 DEF Has, HasMessage
    <2>3. CASE received' = [received EXCEPT ![k] =
                  {s \in @ : s.id # p.id} \cup {[id |-> p.id, msg |-> p.msg]}]
        <3>1. \A s \in received[n] : \E t \in received'[n] : t.id = s.id
            <4>1. CASE n = k
                <5> DEFINE new == [id |-> p.id, msg |-> p.msg]
                <5>1. received'[n] = {s \in received[n] : s.id # p.id} \cup {new}
                    BY <2>3, <4>1 DEF TypeOK
                <5>2. new.id = p.id
                    OBVIOUS
                <5> HIDE DEF new
                <5>3. QED
                    BY <5>1, <5>2
            <4>2. CASE n # k
                <5>1. received'[n] = received[n]
                    BY <2>3, <4>2 DEF TypeOK
                <5>2. QED
                    BY <5>1
            <4>3. QED
                BY <4>1, <4>2
        <3>2. ASSUME NEW id \in Nat, HasMessage(n, id) PROVE HasMessage(n, id)'
            BY <2>1, <3>1, <3>2 DEF HasMessage
        <3>3. QED
            BY <3>2 DEF Has
    <2>4. QED
        BY <1>3, <2>2, <2>3 DEF Receive
<1>4. QED
    BY <1>1, <1>2, <1>3, ReceiverStep

-----------------------------------------------------------------------------
(* WindowsAgree is inductive *)

LEMMA AgreeInit == Init => WindowsAgree
<1> SUFFICES ASSUME Init PROVE WindowsAgree
    OBVIOUS
<1>1. ASSUME NEW n \in Node PROVE SendInv(n) /\ RecvInv(n) /\ AckInv(n)
    BY OtherIsNode DEF Init, SendInv, RecvInv, AckInv
<1>2. NetInv
    BY DEF Init, NetInv
<1>3. QED
    BY <1>1, <1>2 DEF WindowsAgree

LEMMA SendInvNext ==
    ASSUME TypeOK, WindowsAgree, [Next]_vars, NEW n \in Node
    PROVE  SendInv(n)'
<1> USE OtherIsNode
<1>a. TypeOK'
    BY TypeNext
<1>b. Has(Other(n)) \subseteq Has(Other(n))'
    BY HasGrows
<1>c. SendInv(n)
    BY DEF WindowsAgree
<1>d. \A s \in unacked[n] : s.id \in Nat /\ s.id < sendNext'[n] /\ s.msg = sent'[n][s.id + 1]
    <2> SUFFICES ASSUME NEW s \in unacked[n]
                 PROVE  s.id \in Nat /\ s.id < sendNext'[n] /\ s.msg = sent'[n][s.id + 1]
        OBVIOUS
    <2>1. s.id \in Nat /\ Numbered(n, s)
        BY <1>c DEF TypeOK, Slot, SendInv
    <2>2. QED
        BY <2>1, NumberedStays
<1>e. ASSUME sendNext'[n] = sendNext[n], sent'[n] = sent[n], unacked'[n] \subseteq unacked[n],
             erased'[n] \subseteq Has(Other(n)),
             \A s \in unacked[n] \ unacked'[n] : s.id \in Has(Other(n))
      PROVE  SendInv(n)'
    <2>1. ASSUME NEW id \in 0 .. (sendNext'[n] - 1)
          PROVE  (\E s \in unacked'[n] : s.id = id) \/ HasMessage(Other(n), id)'
        <3>1. (\E s \in unacked[n] : s.id = id) \/ id \in Has(Other(n))
            BY <1>c, <1>e DEF SendInv, Has, TypeOK
        <3>2. (\E s \in unacked'[n] : s.id = id) \/ id \in Has(Other(n))
            BY <1>e, <3>1
        <3>3. QED
            BY <1>b, <3>2 DEF Has
    <2>2. Len(sent'[n]) = sendNext'[n]
        BY <1>c, <1>e DEF SendInv
    <2>3. \A s \in unacked'[n] : Numbered(n, s)'
        BY <1>d, <1>e DEF Numbered
    <2>4. erased'[n] \subseteq Has(Other(n))'
        BY <1>b, <1>e
    <2>5. QED
        BY <2>1, <2>2, <2>3, <2>4 DEF SendInv
<1>1. CASE UNCHANGED sender
    BY <1>1, <1>c, <1>e DEF sender, SendInv
<1>2. ASSUME NEW k \in Node, NEW m \in Msg, Sequence(k, m), UNCHANGED <<sendHead, erased>>
      PROVE  SendInv(n)'
    <2>1. CASE n # k
        <3>1. sendNext'[n] = sendNext[n] /\ sent'[n] = sent[n] /\ unacked'[n] = unacked[n]
            BY <1>2, <2>1 DEF Sequence, TypeOK
        <3>2. QED
            BY <1>2, <1>c, <1>e, <3>1 DEF SendInv
    <2>2. CASE n = k
        <3> DEFINE new == [id |-> sendNext[n], msg |-> m]
        <3>1. /\ sendNext'[n] = sendNext[n] + 1 /\ sent'[n] = Append(sent[n], m)
              /\ unacked'[n] = unacked[n] \cup {new}
            BY <1>2, <2>2 DEF Sequence, TypeOK
        <3>2. sent[n] \in Seq(Msg) /\ Len(sent[n]) = sendNext[n] /\ sendNext[n] \in Nat
            BY <1>c DEF TypeOK, SendInv
        <3>3. Len(sent'[n]) = sendNext'[n] /\ sent'[n][sendNext[n] + 1] = m
            BY <3>1, <3>2
        <3>4. \A s \in unacked'[n] : Numbered(n, s)'
            BY <1>d, <3>1, <3>2, <3>3 DEF Numbered
        <3>5. ASSUME NEW id \in 0 .. (sendNext'[n] - 1)
              PROVE  (\E s \in unacked'[n] : s.id = id) \/ HasMessage(Other(n), id)'
            <4>1. CASE id = sendNext[n]
                <5>1. new \in unacked'[n] /\ new.id = id
                    BY <3>1, <4>1
                <5>2. QED
                    BY <5>1
            <4>2. CASE id < sendNext[n]
                BY <1>b, <1>c, <3>1, <3>2, <4>2 DEF SendInv, Has
            <4>3. QED
                BY <3>1, <3>2, <4>1, <4>2
        <3>6. erased'[n] \subseteq Has(Other(n))'
            BY <1>2, <1>b, <1>c DEF SendInv
        <3>7. QED
            BY <3>3, <3>4, <3>5, <3>6 DEF SendInv
    <2>3. QED
        BY <2>1, <2>2
<1>3. ASSUME NEW k \in Node, NEW p \in net, Receive(k, p) PROVE SendInv(n)'
    <2>1. UNCHANGED <<sendNext, sent>> /\ Acknowledge(k, p.acks)
        BY <1>3 DEF Receive
    <2>2. CASE n # k
        <3>1. unacked'[n] = unacked[n] /\ erased'[n] = erased[n]
            BY <2>1, <2>2 DEF Acknowledge, TypeOK
        <3>2. QED
            BY <1>c, <1>e, <2>1, <3>1 DEF SendInv
    <2>3. CASE n = k
        <3>1. p.acks \subseteq Has(Other(n))
            BY <1>3, <2>3 DEF WindowsAgree, NetInv, Receive
        <3> DEFINE gone == erased[n] \cup {a \in p.acks : InWindow(sendHead[n], SendWindow, a)}
        <3>2. gone \subseteq Has(Other(n))
            BY <1>c, <3>1 DEF SendInv
        <3>3. unacked'[n] = {s \in unacked[n] : s.id \notin gone} /\ erased'[n] \subseteq gone
            <4>1. PICK head \in sendHead[n] .. (sendHead[n] + SendWindow) :
                    /\ erased' = [erased EXCEPT ![n] = {id \in gone : id > head}]
                    /\ unacked' = [unacked EXCEPT ![n] = {s \in @ : s.id \notin gone}]
                BY <2>1, <2>3 DEF Acknowledge
            <4>2. QED
                BY <4>1 DEF TypeOK
        <3> HIDE DEF gone
        <3>4. QED
            BY <1>e, <2>1, <3>2, <3>3
    <2>4. QED
        BY <2>2, <2>3
<1>4. QED
    BY <1>1, <1>2, <1>3, SenderStep

LEMMA RecvInvNext ==
    ASSUME TypeOK, WindowsAgree, [Next]_vars, NEW n \in Node
    PROVE  RecvInv(n)'
<1> USE OtherIsNode
<1>a. TypeOK'
    BY TypeNext
<1>b. /\ sendNext[Other(n)] <= sendNext'[Other(n)]
      /\ \A id \in Nat : id < sendNext[Other(n)] => sent'[Other(n)][id + 1] = sent[Other(n)][id + 1]
    BY SentGrows
<1>c. RecvInv(n) /\ recvHead[n] \in Nat /\ delivered[n] \in Seq(Msg)
      /\ sendNext[Other(n)] \in Nat /\ sendNext'[Other(n)] \in Nat
    BY <1>a DEF WindowsAgree, TypeOK
<1>d. \A s \in received[n] : s.id \in Nat /\ s.id < sendNext'[Other(n)] /\ s.msg = sent'[Other(n)][s.id + 1]
    <2> SUFFICES ASSUME NEW s \in received[n]
                 PROVE  s.id \in Nat /\ s.id < sendNext'[Other(n)] /\ s.msg = sent'[Other(n)][s.id + 1]
        OBVIOUS
    <2>1. s.id \in Nat /\ Numbered(Other(n), s)
        BY <1>c DEF TypeOK, Slot, RecvInv
    <2>2. QED
        BY <2>1, NumberedStays
<1>e. ASSUME recvHead'[n] = recvHead[n], delivered'[n] = delivered[n]
      PROVE  /\ Len(delivered'[n]) = recvHead'[n] /\ recvHead'[n] <= sendNext'[Other(n)]
             /\ \A i \in 1 .. recvHead'[n] : delivered'[n][i] = sent'[Other(n)][i]
    <2>1. \A i \in 1 .. recvHead[n] : i - 1 \in Nat /\ i - 1 < sendNext[Other(n)] /\ (i - 1) + 1 = i
        BY <1>c DEF RecvInv
    <2>2. \A i \in 1 .. recvHead[n] : sent'[Other(n)][i] = sent[Other(n)][i]
        BY <1>b, <2>1
    <2>3. QED
        BY <1>b, <1>c, <1>e, <2>2 DEF RecvInv
<1>1. CASE recvHead'[n] = recvHead[n] /\ delivered'[n] = delivered[n] /\ received'[n] = received[n]
    BY <1>1, <1>c, <1>d, <1>e DEF RecvInv, Numbered
<1>2. ASSUME UpSequenced(n) PROVE RecvInv(n)'
    <2>1. PICK s \in received[n] :
            /\ s.id = recvHead[n]
            /\ delivered' = [delivered EXCEPT ![n] = Append(@, s.msg)]
            /\ received' = [received EXCEPT ![n] = @ \ {s}]
            /\ recvHead' = [recvHead EXCEPT ![n] = @ + 1]
        BY <1>2 DEF UpSequenced, Deliverable
    <2>2. /\ delivered'[n] = Append(delivered[n], s.msg)
          /\ received'[n] = received[n] \ {s} /\ recvHead'[n] = recvHead[n] + 1
        BY <2>1 DEF TypeOK
    <2>3. s.msg \in Msg /\ s.msg = sent'[Other(n)][recvHead[n] + 1] /\ recvHead[n] < sendNext'[Other(n)]
        <3>1. s \in Slot
            BY DEF TypeOK
        <3>2. QED
            BY <1>d, <2>1, <3>1 DEF Slot
    <2>4. Len(delivered'[n]) = recvHead'[n] /\ recvHead'[n] <= sendNext'[Other(n)]
        BY <1>c, <2>2, <2>3 DEF RecvInv
    <2>5. ASSUME NEW i \in 1 .. recvHead'[n] PROVE delivered'[n][i] = sent'[Other(n)][i]
        <3>1. CASE i = recvHead[n] + 1
            BY <1>c, <2>2, <2>3, <3>1 DEF RecvInv
        <3>2. CASE i <= recvHead[n]
            <4>1. i - 1 \in Nat /\ i - 1 < sendNext[Other(n)] /\ (i - 1) + 1 = i
                BY <1>c, <3>2 DEF RecvInv
            <4>2. sent'[Other(n)][i] = sent[Other(n)][i]
                BY <1>b, <4>1
            <4>3. delivered'[n][i] = delivered[n][i]
                BY <1>c, <2>2, <2>3, <3>2 DEF RecvInv
            <4>4. QED
                BY <1>c, <3>2, <4>2, <4>3 DEF RecvInv
        <3>3. i \in 1 .. (recvHead[n] + 1)
            BY <2>2
        <3>4. QED
            BY <1>c, <3>1, <3>2, <3>3
    <2>6. ASSUME NEW t \in received'[n] PROVE recvHead'[n] <= t.id /\ Numbered(Other(n), t)'
        <3>1. t \in received[n] /\ t # s
            BY <2>2
        <3>2. t.id # s.id
            BY <3>1, SlotsAreUnique
        <3>3. recvHead[n] <= t.id /\ t.id \in Nat
            BY <1>c, <1>d, <3>1 DEF RecvInv
        <3>4. Numbered(Other(n), t)'
            BY <1>d, <3>1 DEF Numbered
        <3>5. QED
            BY <1>c, <2>1, <2>2, <3>2, <3>3, <3>4
    <2>7. QED
        BY <2>4, <2>5, <2>6 DEF RecvInv
<1>3. ASSUME NEW p \in net, Receive(n, p) PROVE RecvInv(n)'
    <2>1. recvHead'[n] = recvHead[n] /\ delivered'[n] = delivered[n]
        BY <1>3 DEF Receive
    <2>2. CASE received' = received
        BY <1>1, <2>1, <2>2
    <2>3. CASE /\ IsControl(p) /\ InWindow(recvHead[n], RecvWindow, p.id)
               /\ received' = [received EXCEPT ![n] =
                     {s \in @ : s.id # p.id} \cup {[id |-> p.id, msg |-> p.msg]}]
        <3> DEFINE new == [id |-> p.id, msg |-> p.msg]
        <3>1. received'[n] = {s \in received[n] : s.id # p.id} \cup {new}
            BY <2>3 DEF TypeOK
        <3>2. new.id = p.id /\ new.msg = p.msg
            OBVIOUS
        <3> HIDE DEF new
        <3>3. p.id \in Nat /\ Numbered(Other(n), p)
            BY <1>3, <2>3 DEF IsControl, TypeOK, Packet, Receive, WindowsAgree, NetInv
        <3>4. recvHead'[n] <= new.id /\ Numbered(Other(n), new)'
            <4>1. p.id < sendNext'[Other(n)] /\ p.msg = sent'[Other(n)][p.id + 1]
                BY <3>3, NumberedStays
            <4>2. QED
                BY <2>1, <2>3, <3>2, <4>1 DEF InWindow, Numbered
        <3>5. ASSUME NEW s \in received[n] PROVE recvHead'[n] <= s.id /\ Numbered(Other(n), s)'
            BY <1>c, <1>d, <2>1 DEF RecvInv, Numbered
        <3>6. QED
            BY <1>e, <2>1, <3>1, <3>4, <3>5 DEF RecvInv
    <2>4. QED
        BY <1>3, <2>2, <2>3 DEF Receive
<1>4. ASSUME NEW k \in Node, k # n, UpSequenced(k) \/ \E p \in net : Receive(k, p)
      PROVE  RecvInv(n)'
    <2>1. recvHead'[n] = recvHead[n] /\ delivered'[n] = delivered[n] /\ received'[n] = received[n]
        <3>1. CASE UpSequenced(k)
            BY <1>4, <3>1 DEF UpSequenced, TypeOK
        <3>2. ASSUME NEW p \in net, Receive(k, p) PROVE received'[n] = received[n]
            <4>1. CASE received' = received
                BY <4>1
            <4>2. CASE received' = [received EXCEPT ![k] =
                          {s \in @ : s.id # p.id} \cup {[id |-> p.id, msg |-> p.msg]}]
                BY <1>4, <4>2 DEF TypeOK
            <4>3. QED
                BY <3>2, <4>1, <4>2 DEF Receive
        <3>3. QED
            BY <1>4, <3>1, <3>2 DEF Receive
    <2>2. QED
        BY <1>1, <2>1
<1>5. QED
    BY <1>1, <1>2, <1>3, <1>4, ReceiverStep DEF receiver

LEMMA AckInvNext ==
    ASSUME TypeOK, WindowsAgree, [Next]_vars, NEW n \in Node
    PROVE  AckInv(n)'
<1> USE OtherIsNode
<1>a. TypeOK'
    BY TypeNext
<1>b. Has(n) \subseteq Has(n)'
    BY HasGrows
<1>c. AckInv(n)
    BY DEF WindowsAgree
<1>d. \A s \in Seq(Has(n)) : s \in Seq(Has(n)')
    BY <1>b
<1>1. ackData'[n] \in Seq(Has(n)') /\ reAcks'[n] \in Seq(Has(n)')
    <2>1. CASE ackData'[n] = ackData[n] /\ reAcks'[n] = reAcks[n]
        BY <1>c, <1>d, <2>1 DEF AckInv
    <2>2. CASE PrependAck(n)
        <3>1. ackData'[n] = Tail(ackData[n]) /\ reAcks'[n] = AddAckToReAck(reAcks[n], Head(ackData[n]))
            BY <2>2 DEF PrependAck, TypeOK
        <3>2. Head(ackData[n]) \in Has(n) /\ Tail(ackData[n]) \in Seq(Has(n))
            BY <1>c, <2>2 DEF AckInv, PrependAck, MoreToAck
        <3>3. AddAckToReAck(reAcks[n], Head(ackData[n])) \in Seq(Has(n))
            BY <1>c, <3>2, ReAckType DEF AckInv
        <3>4. QED
            BY <1>d, <3>1, <3>2, <3>3
    <2>3. ASSUME NEW p \in net, Receive(n, p)
          PROVE  ackData'[n] \in Seq(Has(n)') /\ reAcks'[n] = reAcks[n]
        <3>1. reAcks' = reAcks /\ p \in Packet
            BY <2>3 DEF Receive, TypeOK
        <3>2. CASE ackData' = ackData
            <4>1. ackData[n] \in Seq(Has(n)')
                BY <1>c, <1>d DEF AckInv
            <4>2. QED
                BY <3>1, <3>2, <4>1
        <3>3. ASSUME IsControl(p), HasMessage(n, p.id)',
                     ackData' = [ackData EXCEPT ![n] = Append(@, p.id)]
              PROVE  ackData'[n] \in Seq(Has(n)')
            <4>1. p.id \in Has(n)'
                BY <3>1, <3>3 DEF IsControl, Packet, Has
            <4>2. ackData'[n] = Append(ackData[n], p.id)
                BY <3>3 DEF TypeOK
            <4>3. ackData[n] \in Seq(Has(n)')
                BY <1>c, <1>d DEF AckInv
            <4>4. QED
                BY <4>1, <4>2, <4>3
        <3>4. CASE received' = [received EXCEPT ![n] =
                      {s \in @ : s.id # p.id} \cup {[id |-> p.id, msg |-> p.msg]}]
            <4> DEFINE new == [id |-> p.id, msg |-> p.msg]
            <4>1. new \in received'[n] /\ new.id = p.id
                BY <3>4 DEF TypeOK
            <4>2. HasMessage(n, p.id)'
                BY <4>1 DEF HasMessage
            <4>3. QED
                BY <2>3, <3>1, <3>2, <3>3, <4>2 DEF Receive
        <3>5. CASE received' = received /\ PreWindow(recvHead[n], p.id)
            <4>1. HasMessage(n, p.id)'
                BY <2>3, <3>5 DEF Receive, PreWindow, HasMessage
            <4>2. QED
                BY <2>3, <3>1, <3>2, <3>3, <4>1 DEF Receive
        <3>6. QED
            BY <2>3, <3>1, <3>2, <3>4, <3>5 DEF Receive
    <2>4. ASSUME NEW k \in Node, k # n, PrependAck(k) \/ \E p \in net : Receive(k, p)
          PROVE  ackData'[n] = ackData[n] /\ reAcks'[n] = reAcks[n]
        <3>1. CASE PrependAck(k)
            BY <2>4, <3>1 DEF PrependAck, TypeOK
        <3>2. ASSUME NEW p \in net, Receive(k, p)
              PROVE  ackData'[n] = ackData[n] /\ reAcks' = reAcks
            <4>1. CASE ackData' = ackData
                BY <3>2, <4>1 DEF Receive
            <4>2. CASE ackData' = [ackData EXCEPT ![k] = Append(@, p.id)]
                BY <2>4, <3>2, <4>2 DEF Receive, TypeOK
            <4>3. QED
                BY <3>2, <4>1, <4>2 DEF Receive
        <3>3. QED
            BY <2>4, <3>1, <3>2
    <2>5. QED
        BY <1>c, <1>d, <2>1, <2>2, <2>3, <2>4, AckStep DEF ackState, AckInv
<1>2. ASSUME building'[n] # NoPkt
      PROVE  /\ building'[n].acks \in Seq(Has(n)')
             /\ building'[n].id # NoId => Numbered(n, building[n])'
    <2>1. CASE building'[n] = building[n]
        <3>1. building[n] \in Building /\ building[n].acks \in Seq(Has(n))
            BY <1>2, <1>c, <2>1 DEF TypeOK, AckInv
        <3>2. ASSUME building[n].id # NoId PROVE Numbered(n, building[n])'
            <4>1. building[n].id \in Nat /\ Numbered(n, building[n])
                BY <1>2, <1>c, <2>1, <3>1, <3>2 DEF Building, AckInv
            <4>2. QED
                BY <2>1, <4>1, NumberedStays DEF Numbered
        <3>3. QED
            BY <1>d, <2>1, <3>1, <3>2
    <2>2. ASSUME NEW m \in Msg, Sequence(n, m)
          PROVE  /\ building'[n].acks \in Seq(Has(n)')
                 /\ building'[n].id # NoId => Numbered(n, building[n])'
        <3>1. /\ building'[n] = [acks |-> <<>>, id |-> sendNext[n], msg |-> m]
              /\ sendNext'[n] = sendNext[n] + 1 /\ sent'[n] = Append(sent[n], m)
            BY <2>2 DEF Sequence, TypeOK
        <3>2. sent[n] \in Seq(Msg) /\ Len(sent[n]) = sendNext[n] /\ sendNext[n] \in Nat
            BY DEF TypeOK, WindowsAgree, SendInv
        <3>3. sendNext[n] < sendNext'[n] /\ sent'[n][sendNext[n] + 1] = m
            BY <3>1, <3>2
        <3>4. building'[n].acks = <<>> /\ building'[n].id = sendNext[n] /\ building'[n].msg = m
            BY <3>1
        <3>5. QED
            BY <3>3, <3>4 DEF Numbered
    <2>3. CASE SendPendingAcks(n)
        <3>1. building'[n] = [acks |-> <<>>, id |-> NoId, msg |-> NoMsg] \/ building' = building
            BY <2>3 DEF SendPendingAcks, TypeOK
        <3>2. CASE building'[n] = [acks |-> <<>>, id |-> NoId, msg |-> NoMsg]
            BY <3>2
        <3>3. QED
            BY <2>1, <3>1, <3>2
    <2>4. CASE PrependAck(n)
        <3>1. building'[n] = [acks |-> Append(building[n].acks, Head(ackData[n])),
                              id |-> building[n].id, msg |-> building[n].msg]
            BY <2>4 DEF PrependAck, TypeOK
        <3>2. building[n] \in Building /\ building[n] # NoPkt
            BY <2>4 DEF PrependAck, TypeOK
        <3>3. Head(ackData[n]) \in Has(n) /\ building[n].acks \in Seq(Has(n))
            BY <1>c, <2>4, <3>2 DEF AckInv, PrependAck, MoreToAck
        <3>4. building'[n].acks = Append(building[n].acks, Head(ackData[n]))
              /\ building'[n].id = building[n].id /\ building'[n].msg = building[n].msg
            BY <3>1
        <3>5. ASSUME building'[n].id # NoId PROVE Numbered(n, building[n])'
            <4>1. building[n].id \in Nat /\ Numbered(n, building[n])
                BY <1>c, <3>2, <3>4, <3>5 DEF Building, AckInv
            <4>2. QED
                BY <3>4, <4>1, NumberedStays DEF Numbered
        <3>6. Append(building[n].acks, Head(ackData[n])) \in Seq(Has(n))
            BY <3>3
        <3>7. QED
            BY <1>d, <3>4, <3>5, <3>6
    <2>5. CASE NetSend(n)
        BY <1>2, <2>5 DEF NetSend, TypeOK
    <2>6. CASE RetransmitOne(n)
        <3>1. PICK s \in unacked[n] : building' = [building EXCEPT ![n] = [acks |-> <<>>, id |-> s.id, msg |-> s.msg]]
            BY <2>6 DEF RetransmitOne
        <3>2. building'[n].acks = <<>> /\ building'[n].id = s.id /\ building'[n].msg = s.msg
            BY <3>1 DEF TypeOK
        <3>3. s.id \in Nat /\ Numbered(n, s)
            BY DEF TypeOK, Slot, WindowsAgree, SendInv
        <3>4. Numbered(n, building[n])'
            BY <3>2, <3>3, NumberedStays DEF Numbered
        <3>5. QED
            BY <3>2, <3>4
    <2>7. ASSUME NEW k \in Node, k # n,
                 \/ \E m \in Msg : Sequence(k, m)
                 \/ SendPendingAcks(k) \/ PrependAck(k) \/ NetSend(k) \/ RetransmitOne(k)
          PROVE  building'[n] = building[n]
        <3>1. CASE \E m \in Msg : Sequence(k, m)
            BY <2>7, <3>1 DEF Sequence, TypeOK
        <3>2. CASE SendPendingAcks(k)
            <4>1. CASE building' = building
                BY <4>1
            <4>2. CASE building' = [building EXCEPT ![k] = [acks |-> <<>>, id |-> NoId, msg |-> NoMsg]]
                BY <2>7, <4>2 DEF TypeOK
            <4>3. QED
                BY <3>2, <4>1, <4>2 DEF SendPendingAcks
        <3>3. CASE PrependAck(k)
            BY <2>7, <3>3 DEF PrependAck, TypeOK
        <3>4. CASE NetSend(k)
            BY <2>7, <3>4 DEF NetSend, TypeOK
        <3>5. CASE RetransmitOne(k)
            BY <2>7, <3>5 DEF RetransmitOne, TypeOK
        <3>6. QED
            BY <2>7, <3>1, <3>2, <3>3, <3>4, <3>5
    <2>8. QED
        BY <2>1, <2>2, <2>3, <2>4, <2>5, <2>6, <2>7, BuildingStep
<1>3. QED
    BY <1>1, <1>2 DEF AckInv

LEMMA NetInvNext ==
    ASSUME TypeOK, WindowsAgree, [Next]_vars
    PROVE  NetInv'
<1> USE OtherIsNode
<1>1. ASSUME NEW p \in net
      PROVE  /\ p.acks \subseteq Has(Other(p.to))'
             /\ p.id # NoId => Numbered(Other(p.to), p)'
    <2>1. p \in Packet /\ p.to \in Node
        BY DEF TypeOK, Packet
    <2>2. p.acks \subseteq Has(Other(p.to)) /\ Has(Other(p.to)) \subseteq Has(Other(p.to))'
        BY <2>1, HasGrows DEF WindowsAgree, NetInv
    <2>3. ASSUME p.id # NoId PROVE Numbered(Other(p.to), p)'
        <3>1. p.id \in Nat /\ Numbered(Other(p.to), p)
            BY <2>1, <2>3 DEF WindowsAgree, NetInv, Packet
        <3>2. QED
            BY <2>1, <3>1, NumberedStays DEF Numbered
    <2>4. QED
        BY <2>2, <2>3
<1>2. ASSUME NEW n \in Node, NetSend(n), NEW p, p = Sealed(n)
      PROVE  /\ p.acks \subseteq Has(Other(p.to))'
             /\ p.id # NoId => Numbered(Other(p.to), p)'
    <2>1. building[n] # NoPkt /\ building[n] \in Building /\ AckInv(n) /\ Has(n) \subseteq Has(n)'
        BY <1>2, HasGrows DEF NetSend, WindowsAgree, TypeOK
    <2>2. /\ Other(p.to) = n /\ p.id = building[n].id /\ p.msg = building[n].msg
          /\ p.acks = ToSet(building[n].acks) \cup ReAckPart(n, Len(building[n].acks))
        BY <1>2 DEF Sealed
    <2>3. ToSet(building[n].acks) \subseteq Has(n)
        BY <2>1 DEF AckInv, ToSet
    <2>4. ReAckPart(n, Len(building[n].acks)) \subseteq Has(n)
        BY <2>1 DEF AckInv, ReAckPart
    <2>5. ASSUME p.id # NoId PROVE Numbered(n, p)'
        <3>1. p.id \in Nat /\ Numbered(n, p)
            BY <2>1, <2>2, <2>5 DEF AckInv, Building, Numbered
        <3>2. QED
            BY <3>1, NumberedStays DEF Numbered
    <2>6. QED
        BY <2>1, <2>2, <2>3, <2>4, <2>5
<1>3. ASSUME NEW p \in net', p \notin net
      PROVE  \E n \in Node : NetSend(n) /\ p = Sealed(n)
    <2>1. PICK n \in Node : NetSend(n)
        BY <1>3, NetStep
    <2>2. net' \subseteq net \cup {Sealed(n)}
        BY <2>1 DEF NetSend
    <2>3. QED
        BY <1>3, <2>1, <2>2
<1>4. QED
    BY <1>1, <1>2, <1>3 DEF NetInv

\* The two ends of each direction agree on what every id stands for, and an
\* acknowledgement is never ahead of the receiver (ReliableSend, ReliableRecv
\* and ReliableAck), whatever the network does.
THEOREM AgreeCorrect == Safety => []WindowsAgree
<1>1. Init => TypeOK /\ WindowsAgree
    BY TypeInit, AgreeInit
<1>2. TypeOK /\ WindowsAgree /\ [Next]_vars => (TypeOK /\ WindowsAgree)'
    <2> SUFFICES ASSUME TypeOK, WindowsAgree, [Next]_vars PROVE TypeOK' /\ WindowsAgree'
        OBVIOUS
    <2>1. TypeOK'
        BY TypeNext
    <2>2. \A n \in Node : SendInv(n)' /\ RecvInv(n)' /\ AckInv(n)'
        BY SendInvNext, RecvInvNext, AckInvNext
    <2>3. NetInv'
        BY NetInvNext
    <2>4. QED
        BY <2>1, <2>2, <2>3 DEF WindowsAgree
<1>3. QED
    BY <1>1, <1>2, PTL DEF Safety

-----------------------------------------------------------------------------
(* What follows from WindowsAgree *)

\* What a peer passes up is a prefix of what the other peer sent: in order,
\* nothing lost, nothing twice, for any windows and any network.
THEOREM DeliveryCorrect == Safety => []OrderedExactlyOnce
<1>1. TypeOK /\ WindowsAgree => OrderedExactlyOnce
    <2> SUFFICES ASSUME TypeOK, WindowsAgree, NEW n \in Node
                 PROVE  IsPrefix(delivered[n], sent[Other(n)])
        BY DEF OrderedExactlyOnce
    <2> USE OtherIsNode
    <2>1. delivered[n] \in Seq(Msg) /\ sent[Other(n)] \in Seq(Msg)
        BY DEF TypeOK
    <2>2. /\ Len(delivered[n]) = recvHead[n] /\ recvHead[n] <= Len(sent[Other(n)])
          /\ \A i \in 1 .. recvHead[n] : delivered[n][i] = sent[Other(n)][i]
        BY DEF WindowsAgree, RecvInv, SendInv
    <2>3. QED
        BY <2>1, <2>2 DEF IsPrefix
<1>2. QED
    BY <1>1, TypeCorrect, AgreeCorrect, PTL

\* A message leaves the send window only when the other peer has it: no
\* acknowledgement, old, repeated or reordered, makes the sender give it up.
THEOREM DropCorrect == Safety => []DroppedOnlyWhenReceived
<1>1. WindowsAgree => DroppedOnlyWhenReceived
    BY DEF WindowsAgree, SendInv, DroppedOnlyWhenReceived
<1>2. QED
    BY <1>1, AgreeCorrect, PTL

LEMMA NoAckOwedNext ==
    ASSUME TypeOK, NoAckOwedWhenIdle, [Next]_vars
    PROVE  NoAckOwedWhenIdle'
<1> SUFFICES ASSUME NEW n \in Node, pc'[n] \in {"idle", "retransmit"} PROVE ackData'[n] = <<>>
    BY DEF NoAckOwedWhenIdle
<1>a. pc[n] \in {"idle", "retransmit"} => ackData[n] = <<>>
    BY DEF NoAckOwedWhenIdle
<1>1. CASE UNCHANGED <<pc, ackData>>
    BY <1>1, <1>a
<1>2. ASSUME NEW k \in Node, NEW l \in {"flush", "up_sequenced", "send_acks", "retransmit", "idle"},
             pc' = [pc EXCEPT ![k] = l], UNCHANGED ackData,
             l = "idle" => pc[k] = "retransmit" \/ ackData[k] = <<>>,
             l = "retransmit" => pc[k] = "idle"
      PROVE  ackData'[n] = <<>>
    <2>1. CASE n = k
        BY <1>2, <1>a, <2>1 DEF TypeOK
    <2>2. CASE n # k
        <3>1. pc'[n] = pc[n]
            BY <1>2, <2>2 DEF TypeOK
        <3>2. QED
            BY <1>2, <1>a, <3>1
    <2>3. QED
        BY <2>1, <2>2
<1>3. ASSUME NEW k \in Node, PrependAck(k) PROVE ackData'[n] = <<>>
    <2>1. pc' = pc /\ ackData[k] # <<>> /\ ackData' = [ackData EXCEPT ![k] = Tail(@)]
        BY <1>3 DEF PrependAck, MoreToAck
    <2>2. n # k
        BY <1>a, <2>1
    <2>3. ackData'[n] = ackData[n]
        BY <2>1, <2>2 DEF TypeOK
    <2>4. QED
        BY <1>a, <2>1, <2>3
<1>4. ASSUME NEW k \in Node, NEW p \in net, Receive(k, p) PROVE ackData'[n] = <<>>
    <2>1. CASE n = k
        BY <1>4, <2>1 DEF Receive, TypeOK
    <2>2. CASE n # k
        <3>1. pc'[n] = pc[n]
            <4>1. CASE pc' = [pc EXCEPT ![k] = "flush"]
                BY <2>2, <4>1 DEF TypeOK
            <4>2. CASE pc' = [pc EXCEPT ![k] = "up_sequenced"]
                BY <2>2, <4>2 DEF TypeOK
            <4>3. QED
                BY <1>4, <4>1, <4>2 DEF Receive
        <3>2. ackData'[n] = ackData[n]
            <4>1. CASE ackData' = ackData
                BY <4>1
            <4>2. CASE ackData' = [ackData EXCEPT ![k] = Append(@, p.id)]
                BY <2>2, <4>2 DEF TypeOK
            <4>3. QED
                BY <1>4, <4>1, <4>2 DEF Receive
        <3>3. QED
            BY <1>a, <3>1, <3>2
    <2>3. QED
        BY <2>1, <2>2
<1>5. ASSUME NEW k \in Node, SendPendingAcks(k) PROVE ackData'[n] = <<>>
    <2>1. CASE ackData[k] = <<>>
        BY <1>2, <1>5, <2>1 DEF SendPendingAcks, ackState
    <2>2. CASE ackData[k] # <<>>
        BY <1>1, <1>5, <2>2 DEF SendPendingAcks, ackState
    <2>3. QED
        BY <2>1, <2>2
<1>6. CASE Next
    <2>1. ASSUME NEW k \in Node, Start(k) \/ SslWrite(k) \/ UpSequencedDone(k) \/ DownStackDone(k)
          PROVE  ackData'[n] = <<>>
        BY <1>2, <2>1 DEF Start, SslWrite, UpSequencedDone, DownStackDone, ackState
    <2>2. ASSUME NEW k \in Node, StartHandshake(k) \/ RetransmitDone(k) \/ \E id \in Nat : Retransmit(k, id)
          PROVE  ackData'[n] = <<>>
        BY <1>2, <2>2 DEF StartHandshake, RetransmitDone, Retransmit, ackState
    <2>3. ASSUME NEW k \in Node, NEW s \in unacked[k] PROVE s.id \in Nat
        BY DEF TypeOK, Slot
    <2>4. QED
        BY <1>1, <1>3, <1>4, <1>5, <1>6, <2>1, <2>2, <2>3, NextCases
           DEF UpSequenced, DownStackRaw, DownStackApp, NetSend, RetransmitOne, Lose, ackState
<1>7. QED
    BY <1>1, <1>6 DEF vars, ackState

\* Every acknowledgement a packet calls for is on its way before the handler of
\* that packet ends (KeyContext::flush, send_pending_acks): none waits for a
\* packet that may never be sent.
THEOREM AcksCorrect == Safety => []NoAckOwedWhenIdle
<1>1. Init => NoAckOwedWhenIdle
    BY DEF Init, NoAckOwedWhenIdle
<1>2. TypeOK /\ NoAckOwedWhenIdle /\ [Next]_vars => NoAckOwedWhenIdle'
    BY NoAckOwedNext
<1>3. QED
    BY <1>1, <1>2, TypeCorrect, PTL DEF Safety

-----------------------------------------------------------------------------
(* ProtoStack implements OrderedChannel *)

LEMMA ChannelInit == Init => Channel!Init
BY DEF Init, Channel!Init, Node, Channel!Node

LEMMA ChannelNext ==
    ASSUME TypeOK, WindowsAgree, [Next]_vars
    PROVE  [Channel!Next]_Channel!vars
<1> USE OtherIsNode DEF Channel!Next, Channel!vars, Channel!Send, Channel!Deliver
<1>a. Channel!Node = Node /\ \A n \in Node : Channel!Other(n) = Other(n)
    BY DEF Channel!Node, Node, Channel!Other, Other
<1>1. ASSUME NEW n \in Node, NEW m \in Msg, Sequence(n, m), UNCHANGED delivered
      PROVE  Channel!Next
    BY <1>1, <1>a DEF Sequence
<1>2. ASSUME NEW n \in Node, UpSequenced(n) PROVE Channel!Next
    <2>1. PICK s \in received[n] :
            /\ s.id = recvHead[n]
            /\ delivered' = [delivered EXCEPT ![n] = Append(@, s.msg)]
        BY <1>2 DEF UpSequenced, Deliverable
    <2>2. /\ Len(delivered[n]) = recvHead[n] /\ recvHead[n] \in Nat
          /\ s.id < sendNext[Other(n)] /\ s.msg = sent[Other(n)][s.id + 1]
          /\ Len(sent[Other(n)]) = sendNext[Other(n)] /\ sendNext[Other(n)] \in Nat
        BY DEF WindowsAgree, RecvInv, SendInv, Numbered, TypeOK
    <2>3. Len(delivered[n]) + 1 <= Len(sent[Other(n)]) /\ s.msg = sent[Other(n)][Len(delivered[n]) + 1]
        BY <2>1, <2>2
    <2>4. UNCHANGED sent
        BY <1>2 DEF UpSequenced, sender
    <2>5. Channel!Deliver(n)
        BY <1>a, <2>1, <2>3, <2>4
    <2>6. QED
        BY <1>a, <2>5
<1>3. ASSUME UNCHANGED sent, UNCHANGED delivered PROVE UNCHANGED <<sent, delivered>>
    BY <1>3
<1>4. UNCHANGED sent \/ \E n \in Node : \E m \in Msg : Sequence(n, m) /\ UNCHANGED <<delivered>>
    <2>1. CASE Next
        <3>1. ASSUME NEW n \in Node, DownStackRaw(n) \/ DownStackApp(n)
              PROVE  \E m \in Msg : Sequence(n, m) /\ UNCHANGED <<delivered>>
            BY <3>1, DownStackSequences DEF DownStackRaw, DownStackApp, receiver
        <3>2. QED
            BY <2>1, <3>1, NextCases
               DEF Start, SslWrite, UpSequenced, UpSequencedDone, StartHandshake,
                   DownStackDone, SendPendingAcks, PrependAck, NetSend, RetransmitOne,
                   RetransmitDone, Retransmit, Receive, Lose, sender
    <2>2. QED
        BY <2>1 DEF vars, sender
<1>5. UNCHANGED delivered \/ \E n \in Node : UpSequenced(n)
    BY ReceiverStep DEF receiver, Receive
<1>6. QED
    BY <1>1, <1>2, <1>3, <1>4, <1>5

\* Every behaviour of the reliability layer is, seen through what is sent and
\* passed up, one of an ordered channel that loses and repeats nothing (the
\* safety part of ImplementsChannel; its liveness part is TLC's).
THEOREM ImplementsChannelSafety == Safety => Channel!Safety
<1>1. Init => Channel!Init
    BY ChannelInit
<1>2. TypeOK /\ WindowsAgree /\ [Next]_vars => [Channel!Next]_Channel!vars
    BY ChannelNext
<1>3. QED
    BY <1>1, <1>2, TypeCorrect, AgreeCorrect, PTL DEF Safety, Channel!Safety

USE OtherIsNode

-----------------------------------------------------------------------------
(* The windows of the two peers: with a receive window no smaller than the *)
(* send window nothing is sent that the receiver would have to drop.       *)

\* The peer has called for its reset to be sent.
Begun(n) == ~(state[n] = "initial" \/ (n = Server /\ state[n] = "wait_reset"))

\* The reset is the first message of a peer and, until it starts SSL, the only
\* one; it moves the other peer on when it is passed up.
ResetInv(n) ==
    /\ rawQueue[n] \in Seq({Reset})
    /\ sent[n] # <<>> => sent[n][1] = Reset
    /\ state[n] # "ssl_started" => Len(rawQueue[n]) + sendNext[n] = IF Begun(n) THEN 1 ELSE 0
    /\ state[n] = "ssl_started" => Len(rawQueue[n]) + sendNext[n] > 0
    /\ state[n] \in {"initial", "wait_reset"} <=> recvHead[n] = 0
    /\ n = Server => state[n] # "initial"

\* The sender's window begins at the oldest message it keeps and is full when
\* SendWindow messages are in it; the other peer has all that went before.
SpanInv(n) ==
    /\ sendNext[n] <= sendHead[n] + SendWindow
    /\ \A s \in unacked[n] : sendHead[n] <= s.id
    /\ \A id \in 0 .. (sendHead[n] - 1) : id \in Has(Other(n))

\* What is acknowledged is never forgotten altogether, and the packets that
\* carry the server's reset, or repeat it, acknowledge the client's.
OwesAck(n) == HasMessage(n, 0) => ackData[n] # <<>> \/ reAcks[n] # <<>>
ResetAcked ==
    state[Client] # "ssl_started" =>
        \A p \in net : p.to = Client /\ p.id # NoId => 0 \in p.acks

\* Hence SSL starts in the handler that the peer's reset arrives in.
HandlerInv(n) ==
    /\ building[n] # NoPkt => pc[n] \in {"flush", "send_acks", "retransmit"}
    /\ state[n] = "wait_reset_ack" => pc[n] \in {"up_sequenced", "flush"} /\ building[n] = NoPkt
    /\ state[n] = "wait_reset_ack" => unacked[n] = {}
    /\ pc[n] = "up_sequenced" /\ state[n] # "ssl_started" => unacked[n] = {}

\* After up_sequenced() the message at the head of the receive window is
\* missing.
SettledInv(n) ==
    pc[n] # "up_sequenced" /\ state[n] # "wait_reset_ack" =>
        \A s \in received[n] : s.id # recvHead[n]

\* No acknowledgement of id is on its way from n, stored for repetition or
\* taken by the other peer.
Unacknowledged(n, id) ==
    /\ sendHead[Other(n)] <= id /\ id \notin erased[Other(n)]
    /\ \A i \in 1 .. Len(reAcks[n]) : reAcks[n][i] # id
    /\ building[n] # NoPkt => \A i \in 1 .. Len(building[n].acks) : building[n].acks[i] # id
    /\ \A p \in net : p.to = Other(n) => id \notin p.acks

\* An id no later than the head of the receive window is not acknowledged yet:
\* the head, or the message the present handler was given.
HoleInv(n) == \E id \in 0 .. recvHead[n] : Unacknowledged(n, id)

IInv ==
    /\ TypeOK /\ WindowsAgree /\ ResetAcked
    /\ \A n \in Node : /\ ResetInv(n) /\ SpanInv(n) /\ OwesAck(n)
                       /\ HandlerInv(n) /\ SettledInv(n) /\ HoleInv(n)

-----------------------------------------------------------------------------
(* What a step changes *)

LEMMA PeerStep ==
    ASSUME TypeOK, TypeOK', [Next]_vars, NEW n \in Node
    PROVE  \/ Start(n) \/ UpSequenced(n) \/ StartHandshake(n) \/ DownStackRaw(n) \/ DownStackApp(n)
           \/ /\ state'[n] = state[n] /\ rawQueue'[n] = rawQueue[n] /\ sent'[n] = sent[n]
              /\ sendNext'[n] = sendNext[n] /\ recvHead'[n] = recvHead[n]
<1> DEFINE Same == /\ state'[n] = state[n] /\ rawQueue'[n] = rawQueue[n] /\ sent'[n] = sent[n]
                   /\ sendNext'[n] = sendNext[n] /\ recvHead'[n] = recvHead[n]
<1>1. ASSUME NEW k \in Node, k # n, Start(k) \/ UpSequenced(k) \/ StartHandshake(k)
      PROVE  Same
    <2>1. CASE Start(k)
        BY <1>1, <2>1 DEF Start, TypeOK, sender, receiver
    <2>2. CASE StartHandshake(k)
        BY <1>1, <2>2 DEF StartHandshake, TypeOK, sender, receiver
    <2>3. CASE UpSequenced(k)
        <3>1. PICK s \in received[k] : recvHead' = [recvHead EXCEPT ![k] = @ + 1] /\ RawRecv(k, s.msg)
            BY <2>3 DEF UpSequenced
        <3>2. state'[n] = state[n] /\ rawQueue'[n] = rawQueue[n]
            <4>1. CASE s.msg = Reset /\ state[k] = "wait_reset"
                <5>1. /\ state' = [state EXCEPT ![k] = "wait_reset_ack"]
                      /\ \/ rawQueue' = [rawQueue EXCEPT ![k] = Append(@, Reset)]
                         \/ rawQueue' = rawQueue
                    BY <3>1, <4>1 DEF RawRecv
                <5>2. /\ DOMAIN state = Node /\ state = [m \in Node |-> state[m]]
                      /\ DOMAIN rawQueue = Node /\ rawQueue = [m \in Node |-> rawQueue[m]]
                    BY DEF TypeOK
                <5>3. state'[n] = state[n] /\ rawQueue'[n] = rawQueue[n]
                    BY <1>1, <5>1, <5>2
                <5>4. QED
                    BY <5>3
            <4>2. CASE ~(s.msg = Reset /\ state[k] = "wait_reset")
                BY <3>1, <4>2 DEF RawRecv
            <4>3. QED
                BY <4>1, <4>2
        <3>3. recvHead'[n] = recvHead[n] /\ sent' = sent /\ sendNext' = sendNext
            BY <1>1, <2>3, <3>1 DEF UpSequenced, TypeOK, sender
        <3>4. QED
            BY <3>2, <3>3
    <2>4. QED
        BY <1>1, <2>1, <2>2, <2>3
<1>2. ASSUME NEW k \in Node, k # n, DownStackRaw(k) \/ DownStackApp(k)
      PROVE  Same
    <2>1. PICK m \in Msg : Sequence(k, m)
        BY <1>2, DownStackSequences
    <2>2. sent'[n] = sent[n] /\ sendNext'[n] = sendNext[n]
        BY <1>2, <2>1 DEF Sequence, TypeOK
    <2>3. state' = state /\ recvHead' = recvHead
        BY <1>2 DEF DownStackRaw, DownStackApp, receiver
    <2>4. rawQueue'[n] = rawQueue[n]
        <3>1. rawQueue' = [rawQueue EXCEPT ![k] = Tail(@)] \/ rawQueue' = rawQueue
            BY <1>2 DEF DownStackRaw, DownStackApp
        <3>2. QED
            BY <1>2, <3>1 DEF TypeOK
    <2>5. QED
        BY <2>2, <2>3, <2>4
<1>3. CASE Next
    <2>1. ASSUME NEW k \in Node,
                 \/ SslWrite(k) \/ UpSequencedDone(k) \/ DownStackDone(k) \/ SendPendingAcks(k)
                 \/ PrependAck(k) \/ NetSend(k) \/ RetransmitOne(k) \/ RetransmitDone(k)
                 \/ \E s \in unacked[k] : Retransmit(k, s.id)
                 \/ \E p \in net : Receive(k, p)
          PROVE  Same
        BY <2>1 DEF SslWrite, UpSequencedDone, DownStackDone, SendPendingAcks, PrependAck, NetSend,
           RetransmitOne, RetransmitDone, Retransmit, Receive, endpoint, sender, receiver
    <2>2. ASSUME NEW p \in net, Lose(p) PROVE Same
        BY <2>2 DEF Lose, endpoint, sender, receiver
    <2>3. QED
        BY <1>1, <1>2, <1>3, <2>1, <2>2, NextCases
<1>4. QED
    BY <1>3 DEF vars, endpoint, sender, receiver

\* Every id of a receive window has been given to a message of the other peer.
LEMMA HasBelow ==
    ASSUME TypeOK, WindowsAgree, NEW n \in Node, NEW id \in Has(n)
    PROVE  id \in Nat /\ id < sendNext[Other(n)]
<1>1. RecvInv(n) /\ recvHead[n] \in Nat /\ sendNext[Other(n)] \in Nat
    BY DEF WindowsAgree, TypeOK
<1>2. id \in Nat /\ (id < recvHead[n] \/ \E s \in received[n] : s.id = id)
    BY DEF Has, HasMessage
<1>3. CASE id < recvHead[n]
    BY <1>1, <1>2, <1>3 DEF RecvInv
<1>4. CASE \E s \in received[n] : s.id = id
    BY <1>1, <1>2, <1>4 DEF RecvInv, Numbered
<1>5. QED
    BY <1>2, <1>3, <1>4

-----------------------------------------------------------------------------
(* The resets *)

LEMMA RawQueueOfResets ==
    ASSUME NEW q \in Seq({Reset})
    PROVE  /\ Append(q, Reset) \in Seq({Reset}) /\ Len(Append(q, Reset)) = Len(q) + 1
           /\ q # <<>> => Head(q) = Reset /\ Tail(q) \in Seq({Reset}) /\ Len(Tail(q)) = Len(q) - 1
OBVIOUS

LEMMA NothingBeforeStart ==
    ASSUME TypeOK, WindowsAgree, \A k \in Node : ResetInv(k), NEW n \in Node, state[n] = "initial"
    PROVE  received[n] = {}
<1>1. n = Client /\ Other(n) = Server /\ Client \in Node /\ Server \in Node
    BY DEF ResetInv, Node, Other
<1>2. \A k \in Node : sendNext[k] \in Nat /\ recvHead[k] \in Nat /\ Len(rawQueue[k]) \in Nat
    BY DEF TypeOK
<1>3. sendNext[Client] = 0
    BY <1>1, <1>2 DEF ResetInv, Begun
<1>4. recvHead[Server] = 0
    BY <1>1, <1>2, <1>3 DEF WindowsAgree, RecvInv, Other
<1>5. state[Server] = "wait_reset"
    BY <1>1, <1>4 DEF ResetInv
<1>6. sendNext[Server] = 0
    BY <1>1, <1>2, <1>5 DEF ResetInv, Begun
<1>7. \A s \in received[n] : s.id \in Nat /\ s.id < sendNext[Server]
    <2>1. \A s \in received[n] : s \in Slot /\ Numbered(Server, s)
        BY <1>1 DEF WindowsAgree, RecvInv, TypeOK
    <2>2. QED
        BY <2>1 DEF Numbered, Slot
<1>8. QED
    BY <1>6, <1>7

\* The first message of the other peer is its reset.
LEMMA FirstIsReset ==
    ASSUME TypeOK, WindowsAgree, \A k \in Node : ResetInv(k), NEW n \in Node,
           NEW s \in received[n], s.id = 0
    PROVE  s.msg = Reset
<1>1. Numbered(Other(n), s) /\ sent[Other(n)] \in Seq(Msg) /\ Len(sent[Other(n)]) = sendNext[Other(n)]
    BY DEF WindowsAgree, RecvInv, SendInv, TypeOK
<1>2. sent[Other(n)] # <<>> /\ s.msg = sent[Other(n)][1]
    BY <1>1 DEF Numbered
<1>3. QED
    BY <1>2 DEF ResetInv

LEMMA ResetNext ==
    ASSUME TypeOK, WindowsAgree, \A k \in Node : ResetInv(k), [Next]_vars, NEW n \in Node
    PROVE  ResetInv(n)'
<1>a. TypeOK'
    BY TypeNext
<1>b. /\ sendNext[n] \in Nat /\ recvHead[n] \in Nat /\ rawQueue[n] \in Seq({Reset})
      /\ Len(rawQueue[n]) \in Nat
      /\ Len(sent[n]) = sendNext[n] /\ sent[n] \in Seq(Msg) /\ ResetInv(n)
    BY DEF TypeOK, WindowsAgree, SendInv, ResetInv
<1>1. CASE Start(n)
    <2>1. /\ state[n] = "initial" /\ state'[n] = "wait_reset" /\ rawQueue'[n] = Append(rawQueue[n], Reset)
          /\ sent' = sent /\ sendNext' = sendNext /\ recvHead' = recvHead
        BY <1>1 DEF Start, TypeOK, sender, receiver
    <2>2. rawQueue'[n] \in Seq({Reset}) /\ Len(rawQueue'[n]) = Len(rawQueue[n]) + 1
        BY <1>b, <2>1, RawQueueOfResets
    <2>3. QED
        BY <1>b, <2>1, <2>2 DEF ResetInv, Begun
<1>2. CASE StartHandshake(n)
    <2>1. /\ state[n] = "wait_reset_ack" /\ state'[n] = "ssl_started" /\ rawQueue' = rawQueue
          /\ sent' = sent /\ sendNext' = sendNext /\ recvHead' = recvHead
        BY <1>2 DEF StartHandshake, HandshakeDue, TypeOK, sender, receiver
    <2>2. QED
        BY <1>b, <2>1 DEF ResetInv, Begun
<1>3. CASE DownStackRaw(n)
    <2>1. /\ rawQueue[n] # <<>> /\ rawQueue'[n] = Tail(rawQueue[n]) /\ state' = state /\ recvHead' = recvHead
          /\ sent'[n] = Append(sent[n], Head(rawQueue[n])) /\ sendNext'[n] = sendNext[n] + 1
        BY <1>3 DEF DownStackRaw, Sequence, TypeOK, receiver
    <2>2. /\ rawQueue'[n] \in Seq({Reset}) /\ Len(rawQueue'[n]) = Len(rawQueue[n]) - 1
          /\ Head(rawQueue[n]) = Reset
        BY <1>b, <2>1, RawQueueOfResets
    <2>3. sent'[n][1] = Reset
        <3>1. CASE sent[n] = <<>>
            BY <2>1, <2>2, <3>1
        <3>2. CASE sent[n] # <<>>
            <4>1. sent[n][1] = Reset /\ 1 \in 1 .. Len(sent[n])
                BY <1>b, <3>2 DEF ResetInv
            <4>2. QED
                BY <1>b, <2>1, <4>1
        <3>3. QED
            BY <3>1, <3>2
    <2>4. QED
        BY <1>b, <2>1, <2>2, <2>3 DEF ResetInv, Begun
<1>4. CASE DownStackApp(n)
    <2>1. PICK m : sent'[n] = Append(sent[n], m)
        BY <1>4 DEF DownStackApp, Sequence, TypeOK
    <2>2. /\ rawQueue[n] = <<>> /\ rawQueue' = rawQueue /\ state' = state /\ recvHead' = recvHead
          /\ sendNext'[n] = sendNext[n] + 1 /\ state[n] = "ssl_started"
        BY <1>4 DEF DownStackApp, Sequence, TypeOK, receiver
    <2>3. sendNext[n] > 0 /\ sent[n][1] = Reset
        <3>1. sendNext[n] > 0
            BY <1>b, <2>2 DEF ResetInv
        <3>2. sent[n] # <<>>
            BY <1>b, <3>1
        <3>3. QED
            BY <1>b, <3>1, <3>2 DEF ResetInv
    <2>4. sent'[n][1] = Reset
        BY <1>b, <2>1, <2>3
    <2>5. QED
        BY <1>b, <2>2, <2>3, <2>4 DEF ResetInv, Begun
<1>5. CASE UpSequenced(n)
    <2>1. PICK s \in received[n] :
            /\ s.id = recvHead[n] /\ recvHead' = [recvHead EXCEPT ![n] = @ + 1]
            /\ RawRecv(n, s.msg)
        BY <1>5 DEF UpSequenced, Deliverable
    <2>2. recvHead'[n] = recvHead[n] + 1 /\ sent' = sent /\ sendNext' = sendNext
        BY <1>5, <2>1 DEF UpSequenced, TypeOK, sender
    <2>3. state[n] # "initial"
        BY NothingBeforeStart
    <2>4. CASE state[n] = "wait_reset"
        <3>1. s.msg = Reset
            BY <1>b, <2>1, <2>4, FirstIsReset DEF ResetInv
        <3>2. /\ state'[n] = "wait_reset_ack"
              /\ rawQueue'[n] = IF n = Server THEN Append(rawQueue[n], Reset) ELSE rawQueue[n]
            BY <2>1, <2>4, <3>1 DEF RawRecv, TypeOK
        <3>3. /\ rawQueue'[n] \in Seq({Reset})
              /\ Len(rawQueue'[n]) = IF n = Server THEN Len(rawQueue[n]) + 1 ELSE Len(rawQueue[n])
            BY <1>b, <3>2, RawQueueOfResets
        <3>4. QED
            BY <1>b, <2>2, <2>4, <3>2, <3>3 DEF ResetInv, Begun
    <2>5. CASE state[n] # "wait_reset"
        <3>1. state' = state /\ rawQueue' = rawQueue
            BY <2>1, <2>5 DEF RawRecv
        <3>2. QED
            BY <1>b, <2>2, <2>3, <2>5, <3>1 DEF ResetInv, Begun
    <2>6. QED
        BY <2>4, <2>5
<1>6. QED
    BY <1>a, <1>b, <1>1, <1>2, <1>3, <1>4, <1>5, PeerStep DEF ResetInv, Begun

-----------------------------------------------------------------------------
(* The span of the send window *)

\* The ids of n's window that p acknowledges, and those acknowledged before.
Gone(n, p) == erased[n] \cup {a \in p.acks : InWindow(sendHead[n], SendWindow, a)}

LEMMA AcknowledgeMoves ==
    ASSUME TypeOK, WindowsAgree, NEW n \in Node, NEW p \in net, Receive(n, p)
    PROVE  /\ sendHead'[n] \in Nat /\ sendHead[n] <= sendHead'[n]
           /\ \A id \in sendHead[n] .. (sendHead'[n] - 1) : id \in Gone(n, p)
           /\ erased'[n] \subseteq Gone(n, p)
           /\ unacked'[n] = {s \in unacked[n] : s.id \notin Gone(n, p)}
           /\ Gone(n, p) \subseteq Has(Other(n))
           /\ \A k \in Node \ {n} : /\ sendHead'[k] = sendHead[k] /\ erased'[k] = erased[k]
                                    /\ unacked'[k] = unacked[k]
<1>1. p.to = n /\ Acknowledge(n, p.acks) /\ sendHead[n] \in Nat /\ SendWindow \in Nat
    BY WindowsArePositive DEF Receive, TypeOK
<1> DEFINE gone == Gone(n, p)
<1>2. PICK head \in sendHead[n] .. (sendHead[n] + SendWindow) :
        /\ \A id \in sendHead[n] .. (head - 1) : id \in gone
        /\ sendHead' = [sendHead EXCEPT ![n] = head]
        /\ erased' = [erased EXCEPT ![n] = {id \in gone : id > head}]
        /\ unacked' = [unacked EXCEPT ![n] = {s \in @ : s.id \notin gone}]
    BY <1>1 DEF Acknowledge, Gone
<1>3. gone \subseteq Has(Other(n))
    BY <1>1 DEF WindowsAgree, SendInv, NetInv, Gone
<1> HIDE DEF gone
<1>4. /\ sendHead'[n] = head /\ erased'[n] \subseteq gone
      /\ unacked'[n] = {s \in unacked[n] : s.id \notin gone}
      /\ \A k \in Node \ {n} : /\ sendHead'[k] = sendHead[k] /\ erased'[k] = erased[k]
                               /\ unacked'[k] = unacked[k]
    BY <1>2 DEF TypeOK
<1>5. head \in Nat /\ sendHead[n] <= head
    BY <1>1
<1>6. QED
    BY <1>2, <1>3, <1>4, <1>5 DEF gone

LEMMA SpanNext ==
    ASSUME TypeOK, WindowsAgree, [Next]_vars, NEW n \in Node, SpanInv(n)
    PROVE  SpanInv(n)'
<1>a. TypeOK' /\ Has(Other(n)) \subseteq Has(Other(n))'
    BY TypeNext, HasGrows
<1>b. /\ sendNext[n] \in Nat /\ sendHead[n] \in Nat /\ SendWindow \in Nat
      /\ sendNext'[n] \in Nat /\ sendHead'[n] \in Nat
      /\ \A s \in unacked[n] : s.id \in Nat
    BY <1>a, WindowsArePositive DEF TypeOK, Slot
<1>1. CASE sendNext'[n] = sendNext[n] /\ sendHead'[n] = sendHead[n] /\ unacked'[n] = unacked[n]
    BY <1>a, <1>1 DEF SpanInv
<1>2. ASSUME NEW m \in Msg, Sequence(n, m), UNCHANGED <<sendHead, erased>>, SendReady(n)
      PROVE  SpanInv(n)'
    <2>1. /\ sendNext'[n] = sendNext[n] + 1
          /\ unacked'[n] = unacked[n] \cup {[id |-> sendNext[n], msg |-> m]}
        BY <1>2 DEF Sequence, TypeOK
    <2>2. sendHead[n] <= sendNext[n] /\ sendNext[n] < sendHead[n] + SendWindow
        BY <1>2 DEF SendReady, InWindow
    <2>3. \A s \in unacked'[n] : sendHead[n] <= s.id
        BY <2>1, <2>2 DEF SpanInv
    <2>4. sendNext'[n] <= sendHead[n] + SendWindow
        BY <1>b, <2>1, <2>2
    <2>5. QED
        BY <1>a, <1>2, <2>3, <2>4 DEF SpanInv
<1>3. ASSUME NEW p \in net, Receive(n, p) PROVE SpanInv(n)'
    <2>1. sendNext'[n] = sendNext[n] /\ sendHead[n] <= sendHead'[n]
        BY <1>3, AcknowledgeMoves DEF Receive
    <2>2. /\ \A id \in sendHead[n] .. (sendHead'[n] - 1) : id \in Gone(n, p)
          /\ unacked'[n] = {s \in unacked[n] : s.id \notin Gone(n, p)}
          /\ Gone(n, p) \subseteq Has(Other(n))
        BY <1>3, AcknowledgeMoves
    <2>3. ASSUME NEW s \in unacked'[n] PROVE sendHead'[n] <= s.id
        <3>1. s \in unacked[n] /\ s.id \notin Gone(n, p) /\ s.id \in Nat /\ sendHead[n] <= s.id
            BY <1>b, <2>2, <2>3 DEF SpanInv
        <3>2. s.id \notin sendHead[n] .. (sendHead'[n] - 1)
            BY <2>2, <3>1
        <3>3. QED
            BY <1>b, <3>1, <3>2
    <2>4. ASSUME NEW id \in 0 .. (sendHead'[n] - 1) PROVE id \in Has(Other(n))'
        <3>1. id \in 0 .. (sendHead[n] - 1) \/ id \in sendHead[n] .. (sendHead'[n] - 1)
            BY <1>b
        <3>2. id \in Has(Other(n))
            BY <2>2, <3>1 DEF SpanInv
        <3>3. QED
            BY <1>a, <3>2
    <2>5. sendNext'[n] <= sendHead'[n] + SendWindow
        BY <1>b, <2>1 DEF SpanInv
    <2>6. QED
        BY <2>3, <2>4, <2>5 DEF SpanInv
<1>4. ASSUME NEW k \in Node, k # n, \/ \E m \in Msg : Sequence(k, m) /\ UNCHANGED <<sendHead, erased>>
                                    \/ \E p \in net : Receive(k, p)
      PROVE  SpanInv(n)'
    <2>1. CASE \E m \in Msg : Sequence(k, m) /\ UNCHANGED <<sendHead, erased>>
        BY <1>1, <1>4, <2>1 DEF Sequence, TypeOK
    <2>2. CASE \E p \in net : Receive(k, p)
        <3>1. sendNext' = sendNext
            BY <2>2 DEF Receive
        <3>2. QED
            BY <1>1, <1>4, <2>2, <3>1, AcknowledgeMoves
    <2>3. QED
        BY <1>4, <2>1, <2>2
<1>5. ASSUME NEW m \in Msg, Sequence(n, m), UNCHANGED <<sendHead, erased>> PROVE SendReady(n)
    <2>1. sendNext'[n] # sendNext[n]
        BY <1>b, <1>5 DEF Sequence, TypeOK
    <2>2. DownStackRaw(n) \/ DownStackApp(n)
        BY <1>a, <2>1, PeerStep DEF Start, UpSequenced, StartHandshake, sender
    <2>3. QED
        BY <2>2 DEF DownStackRaw, DownStackApp
<1>6. QED
    BY <1>1, <1>2, <1>3, <1>4, <1>5, SenderStep DEF sender

-----------------------------------------------------------------------------
(* The state of a peer is changed by the peer *)

Own(n) ==
    \/ Start(n) \/ SslWrite(n) \/ UpSequenced(n) \/ UpSequencedDone(n) \/ StartHandshake(n)
    \/ DownStackRaw(n) \/ DownStackApp(n) \/ DownStackDone(n) \/ SendPendingAcks(n) \/ PrependAck(n)
    \/ NetSend(n) \/ RetransmitOne(n) \/ RetransmitDone(n)
    \/ \E s \in unacked[n] : Retransmit(n, s.id)
    \/ \E p \in net : Receive(n, p)

Untouched(n) ==
    /\ state'[n] = state[n] /\ unacked'[n] = unacked[n] /\ recvHead'[n] = recvHead[n]
    /\ received'[n] = received[n] /\ ackData'[n] = ackData[n] /\ reAcks'[n] = reAcks[n]
    /\ pc'[n] = pc[n] /\ building'[n] = building[n]

LEMMA OthersKeep ==
    ASSUME TypeOK, NEW n \in Node, NEW k \in Node, k # n, Own(k)
    PROVE  Untouched(n)
<1>1. CASE Start(k)
    BY <1>1 DEF Start, Untouched, TypeOK, sender, receiver, ackState
<1>2. CASE SslWrite(k)
    BY <1>2 DEF SslWrite, Untouched, TypeOK, sender, receiver, ackState
<1>3. CASE UpSequenced(k)
    <2>1. PICK s \in received[k] :
            /\ received' = [received EXCEPT ![k] = @ \ {s}]
            /\ recvHead' = [recvHead EXCEPT ![k] = @ + 1] /\ RawRecv(k, s.msg)
        BY <1>3 DEF UpSequenced
    <2>2. state' = state \/ state' = [state EXCEPT ![k] = "wait_reset_ack"]
        BY <2>1 DEF RawRecv
    <2>3. state'[n] = state[n]
        BY <2>2 DEF TypeOK
    <2>4. recvHead'[n] = recvHead[n] /\ received'[n] = received[n]
        BY <2>1 DEF TypeOK
    <2>5. QED
        BY <1>3, <2>3, <2>4 DEF UpSequenced, Untouched, sender, ackState
<1>4. CASE UpSequencedDone(k)
    BY <1>4 DEF UpSequencedDone, Untouched, TypeOK, endpoint, sender, receiver, ackState
<1>5. CASE StartHandshake(k)
    BY <1>5 DEF StartHandshake, Untouched, TypeOK, sender, receiver, ackState
<1>6. CASE DownStackRaw(k) \/ DownStackApp(k)
    <2>1. PICK m \in Msg : Sequence(k, m)
        BY <1>6, DownStackSequences
    <2>2. unacked'[n] = unacked[n] /\ building'[n] = building[n]
        BY <2>1 DEF Sequence, TypeOK
    <2>3. QED
        BY <1>6, <2>2 DEF DownStackRaw, DownStackApp, Untouched, receiver, ackState
<1>7. CASE DownStackDone(k)
    BY <1>7 DEF DownStackDone, Untouched, TypeOK, endpoint, sender, receiver, ackState
<1>8. CASE SendPendingAcks(k)
    <2>1. \/ pc' = [pc EXCEPT ![k] = "idle"] /\ building' = building
          \/ pc' = pc /\ building' = [building EXCEPT ![k] = [acks |-> <<>>, id |-> NoId, msg |-> NoMsg]]
        BY <1>8 DEF SendPendingAcks
    <2>2. pc'[n] = pc[n] /\ building'[n] = building[n]
        BY <2>1 DEF TypeOK
    <2>3. QED
        BY <1>8, <2>2 DEF SendPendingAcks, Untouched, endpoint, sender, receiver, ackState
<1>9. CASE PrependAck(k)
    BY <1>9 DEF PrependAck, Untouched, TypeOK, endpoint, sender, receiver
<1>10. CASE NetSend(k)
    BY <1>10 DEF NetSend, Untouched, TypeOK, endpoint, sender, receiver, ackState
<1>11. CASE RetransmitOne(k)
    BY <1>11 DEF RetransmitOne, Untouched, TypeOK, endpoint, sender, receiver, ackState
<1>12. CASE RetransmitDone(k)
    BY <1>12 DEF RetransmitDone, Untouched, TypeOK, endpoint, sender, receiver, ackState
<1>13. CASE \E s \in unacked[k] : Retransmit(k, s.id)
    BY <1>13 DEF Retransmit, Untouched, TypeOK, endpoint, sender, receiver, ackState
<1>14. ASSUME NEW p \in net, Receive(k, p) PROVE Untouched(n)
    <2>1. /\ pc' = [pc EXCEPT ![k] = "flush"] \/ pc' = [pc EXCEPT ![k] = "up_sequenced"]
          /\ ackData' = ackData \/ ackData' = [ackData EXCEPT ![k] = Append(@, p.id)]
          /\ \/ received' = received
             \/ received' = [received EXCEPT ![k] =
                              {s \in @ : s.id # p.id} \cup {[id |-> p.id, msg |-> p.msg]}]
        BY <1>14 DEF Receive
    <2>2. pc'[n] = pc[n]
        BY <2>1 DEF TypeOK
    <2>3. ackData'[n] = ackData[n]
        BY <2>1 DEF TypeOK
    <2>4. received'[n] = received[n]
        <3> DEFINE new == {s \in received[k] : s.id # p.id} \cup {[id |-> p.id, msg |-> p.msg]}
        <3>1. received' = received \/ received' = [received EXCEPT ![k] = new]
            BY <2>1
        <3> HIDE DEF new
        <3>2. QED
            BY <3>1 DEF TypeOK
    <2>5. unacked'[n] = unacked[n]
        BY <1>14 DEF Receive, Acknowledge, TypeOK
    <2>6. QED
        BY <1>14, <2>2, <2>3, <2>4, <2>5 DEF Receive, Untouched, endpoint
<1>15. QED
    BY <1>1, <1>2, <1>3, <1>4, <1>5, <1>6, <1>7, <1>8, <1>9, <1>10, <1>11, <1>12, <1>13, <1>14 DEF Own

LEMMA OwnStep ==
    ASSUME TypeOK, [Next]_vars, NEW n \in Node
    PROVE  Own(n) \/ Untouched(n)
<1>1. CASE \E k \in Node : Own(k)
    BY <1>1, OthersKeep
<1>2. CASE \E p \in net : Lose(p)
    BY <1>2 DEF Lose, Untouched, endpoint, sender, receiver, ackState
<1>3. CASE UNCHANGED vars
    BY <1>3 DEF vars, Untouched, endpoint, sender, receiver, ackState
<1>4. QED
    BY <1>1, <1>2, <1>3, NextCases DEF Own

-----------------------------------------------------------------------------
(* Acknowledgements of the reset *)

LEMMA AppendedTo ==
    ASSUME NEW S, NEW s \in Seq(S), NEW e
    PROVE  Append(s, e) # <<>>
<1>1. s \in Seq(S \cup {e})
    OBVIOUS
<1>2. Len(Append(s, e)) = Len(s) + 1 /\ Len(s) \in Nat
    BY <1>1
<1>3. QED
    BY <1>2

LEMMA ReAckFirst ==
    ASSUME NEW re \in Seq(Nat), NEW a \in Nat
    PROVE  AddAckToReAck(re, a) # <<>>
<1> DEFINE front == <<a>> \o Without(re, a)
<1>1. front \in Seq(Nat) /\ Len(front) >= 1
    BY WithoutType
<1> HIDE DEF front
<1>2. (IF Len(front) > AckV1Max THEN AckV1Max ELSE Len(front)) \in 1 .. Len(front)
    BY <1>1, AckLimits
<1>3. Len(SubSeq(front, 1, IF Len(front) > AckV1Max THEN AckV1Max ELSE Len(front))) >= 1
    BY <1>1, <1>2
<1>4. Len(AddAckToReAck(re, a)) >= 1
    BY <1>3 DEF AddAckToReAck, front
<1>5. QED
    BY <1>4

LEMMA OwesNext ==
    ASSUME TypeOK, WindowsAgree, [Next]_vars, NEW n \in Node, OwesAck(n)
    PROVE  OwesAck(n)'
<1>a. recvHead[n] \in Nat /\ ackData[n] \in Seq(Nat) /\ reAcks[n] \in Seq(Nat)
    BY DEF TypeOK
<1>1. CASE received'[n] = received[n] /\ recvHead'[n] = recvHead[n] /\ ackData'[n] = ackData[n]
           /\ reAcks'[n] = reAcks[n]
    BY <1>1 DEF OwesAck, HasMessage
<1>2. CASE UpSequenced(n)
    <2>1. PICK s \in received[n] :
            /\ s.id = recvHead[n] /\ received' = [received EXCEPT ![n] = @ \ {s}]
        BY <1>2 DEF UpSequenced, Deliverable
    <2>2. received'[n] \subseteq received[n] /\ ackData' = ackData /\ reAcks' = reAcks
        BY <1>2, <2>1 DEF UpSequenced, TypeOK, ackState
    <2>3. HasMessage(n, 0)
        BY <1>a, <2>1 DEF HasMessage
    <2>4. QED
        BY <2>2, <2>3 DEF OwesAck
<1>3. CASE PrependAck(n)
    <2>1. ackData[n] # <<>> /\ reAcks'[n] = AddAckToReAck(reAcks[n], Head(ackData[n]))
        BY <1>3 DEF PrependAck, MoreToAck, TypeOK
    <2>2. Head(ackData[n]) \in Nat
        BY <1>a, <2>1
    <2>3. QED
        BY <1>a, <2>1, <2>2, ReAckFirst DEF OwesAck
<1>4. ASSUME NEW p \in net, Receive(n, p) PROVE OwesAck(n)'
    <2>1. CASE ackData' = ackData /\ received' = received
        BY <1>4, <2>1 DEF Receive, OwesAck, HasMessage
    <2>2. CASE ackData' = [ackData EXCEPT ![n] = Append(@, p.id)]
        <3>1. ackData'[n] = Append(ackData[n], p.id)
            BY <2>2 DEF TypeOK
        <3>2. ackData'[n] # <<>>
            BY <1>a, <3>1, AppendedTo
        <3>3. QED
            BY <3>2 DEF OwesAck
    <2>3. QED
        BY <1>4, <2>1, <2>2 DEF Receive
<1>5. ASSUME Own(n), ~UpSequenced(n), ~PrependAck(n), ~ \E p \in net : Receive(n, p)
      PROVE  UNCHANGED <<received, recvHead, ackData, reAcks>>
    BY <1>5 DEF Own, Start, SslWrite, UpSequencedDone, StartHandshake, DownStackRaw, DownStackApp,
       DownStackDone, SendPendingAcks, NetSend, RetransmitOne, RetransmitDone, Retransmit, receiver, ackState
<1>6. QED
    BY <1>1, <1>2, <1>3, <1>4, <1>5, OwnStep DEF Untouched

LEMMA FewBeforeSsl ==
    ASSUME TypeOK, WindowsAgree, NEW n \in Node, ResetInv(n), state[n] # "ssl_started"
    PROVE  sendNext[n] \in {0, 1} /\ Has(Other(n)) \subseteq {0}
<1>1. sendNext[n] \in Nat /\ Len(rawQueue[n]) \in Nat
    BY DEF TypeOK
<1>2. sendNext[n] \in {0, 1}
    BY <1>1 DEF ResetInv
<1>3. QED
    BY <1>1, <1>2, HasBelow

\* A server with an id to give has passed up the client's reset.
LEMMA ServerHasReset ==
    ASSUME TypeOK, ResetInv(Server), sendNext[Server] > 0
    PROVE  HasMessage(Server, 0)
<1>1. Server \in Node /\ sendNext[Server] \in Nat /\ recvHead[Server] \in Nat /\ Len(rawQueue[Server]) \in Nat
    BY DEF TypeOK, Node
<1>2. state[Server] \notin {"initial", "wait_reset"}
    BY <1>1 DEF ResetInv, Begun
<1>3. QED
    BY <1>1, <1>2 DEF ResetInv, HasMessage

LEMMA ResetAckedNext ==
    ASSUME TypeOK, WindowsAgree, \A n \in Node : ResetInv(n) /\ OwesAck(n), ResetAcked, [Next]_vars
    PROVE  ResetAcked'
<1>0. Client \in Node /\ Server \in Node /\ Other(Client) = Server /\ Other(Server) = Client
    BY DEF Node, Other
<1> SUFFICES ASSUME state'[Client] # "ssl_started", NEW p \in net', p.to = Client, p.id # NoId
             PROVE  0 \in p.acks
    BY DEF ResetAcked
<1>1. state[Client] # "ssl_started"
    <2>1. CASE state'[Client] = state[Client]
        BY <2>1
    <2>2. CASE Start(Client) \/ StartHandshake(Client) \/ DownStackRaw(Client)
        BY <2>2, <1>0 DEF Start, StartHandshake, HandshakeDue, DownStackRaw
    <2>3. CASE DownStackApp(Client)
        BY <2>3 DEF DownStackApp
    <2>4. CASE UpSequenced(Client)
        <3>1. state' = state \/ state[Client] = "wait_reset"
            BY <2>4 DEF UpSequenced, RawRecv
        <3>2. QED
            BY <3>1
    <2>5. QED
        BY <1>0, <2>1, <2>2, <2>3, <2>4, PeerStep, TypeNext
<1>2. CASE p \in net
    BY <1>1, <1>2 DEF ResetAcked
<1>3. CASE p \notin net
    <2>1. PICK n \in Node : NetSend(n)
        BY <1>3, NetStep
    <2>2. p = Sealed(n)
        BY <1>3, <2>1 DEF NetSend
    <2>3. n = Server
        BY <1>0, <2>2 DEF Sealed, Node
    <2> DEFINE b == building[Server]
    <2>4. /\ b # NoPkt /\ b \in Building /\ ~MoreToAck(Server) /\ p.id = b.id
          /\ p.acks = ToSet(b.acks) \cup ReAckPart(Server, Len(b.acks))
        BY <1>0, <2>1, <2>2, <2>3 DEF NetSend, TypeOK, Sealed
    <2>5. AckInv(Server) /\ Has(Server) \subseteq {0} /\ OwesAck(Server) /\ ResetInv(Server)
        BY <1>0, <1>1, FewBeforeSsl DEF WindowsAgree
    <2>6. /\ b.acks \in Seq(Has(Server)) /\ Numbered(Server, b) /\ b.id \in Nat
          /\ reAcks[Server] \in Seq(Has(Server)) /\ ackData[Server] \in Seq(Has(Server))
        BY <2>4, <2>5 DEF AckInv, Building
    <2>7. HasMessage(Server, 0)
        <3>1. sendNext[Server] > 0
            <4>1. sendNext[Server] \in Nat
                BY <1>0 DEF TypeOK
            <4>2. b.id < sendNext[Server]
                BY <2>6 DEF Numbered
            <4>3. QED
                BY <2>6, <4>1, <4>2
        <3>2. QED
            BY <2>5, <3>1, ServerHasReset
    <2>8. CASE b.acks # <<>>
        <3>1. 1 \in 1 .. Len(b.acks) /\ b.acks[1] \in Has(Server)
            BY <2>6, <2>8
        <3>2. 0 \in ToSet(b.acks)
            BY <2>5, <3>1 DEF ToSet
        <3>3. QED
            BY <2>4, <3>2
    <2>9. CASE b.acks = <<>>
        <3>1. Len(b.acks) = 0
            BY <2>9
        <3>2. ackData[Server] = <<>>
            BY <2>4, <3>1, AckLimits DEF MoreToAck, PrependMax
        <3>3. reAcks[Server] # <<>>
            BY <2>5, <2>7, <3>2 DEF OwesAck
        <3>4. 1 \in 1 .. Len(reAcks[Server]) /\ reAcks[Server][1] = 0
            BY <2>5, <2>6, <3>3
        <3>5. 0 \in ReAckPart(Server, 0)
            BY <3>4, AckLimits DEF ReAckPart, PrependMax
        <3>6. QED
            BY <2>4, <3>1, <3>5
    <2>10. QED
        BY <2>8, <2>9
<1>4. QED
    BY <1>2, <1>3

-----------------------------------------------------------------------------
(* The handler that the peer's reset arrives in starts SSL *)

LEMMA ResetIsTheOnlyOne ==
    ASSUME TypeOK, WindowsAgree, ResetAcked, \A k \in Node : ResetInv(k) /\ SpanInv(k) /\ HandlerInv(k),
           NEW n \in Node, NEW p \in net, Receive(n, p), IsControl(p), state[n] # "ssl_started"
    PROVE  unacked'[n] = {}
<1>1. /\ pc[n] = "idle" /\ p.to = n /\ p.id # NoId
      /\ sendNext[n] \in Nat /\ Len(rawQueue[n]) \in Nat /\ sendHead[n] \in Nat
    BY DEF Receive, IsControl, TypeOK
<1>2. unacked'[n] = {s \in unacked[n] : s.id \notin Gone(n, p)}
    BY AcknowledgeMoves
<1>3. \A s \in unacked[n] : s.id \in Nat /\ s.id < sendNext[n] /\ sendHead[n] <= s.id
    <2>1. \A s \in unacked[n] : s \in Slot /\ Numbered(n, s) /\ sendHead[n] <= s.id
        BY DEF TypeOK, WindowsAgree, SendInv, SpanInv
    <2>2. QED
        BY <2>1 DEF Slot, Numbered
<1>4. CASE n = Server
    <2>1. state[n] # "wait_reset_ack" /\ state[n] # "initial"
        BY <1>1, <1>4 DEF HandlerInv, ResetInv
    <2>2. state[n] = "wait_reset"
        BY <2>1 DEF TypeOK
    <2>3. sendNext[n] = 0
        BY <1>1, <1>4, <2>2 DEF ResetInv, Begun
    <2>4. QED
        BY <1>2, <1>3, <2>3
<1>5. CASE n = Client
    <2>1. 0 \in p.acks
        BY <1>1, <1>5 DEF ResetAcked
    <2>2. sendNext[n] \in {0, 1}
        BY FewBeforeSsl
    <2>3. \A s \in unacked[n] : s.id = 0 /\ sendHead[n] = 0
        BY <1>1, <1>3, <2>2
    <2>4. sendHead[n] = 0 => 0 \in Gone(n, p)
        BY <2>1, WindowsArePositive DEF Gone, InWindow
    <2>5. QED
        BY <1>2, <2>3, <2>4
<1>6. QED
    BY <1>4, <1>5 DEF Node

LEMMA HandlerNext ==
    ASSUME TypeOK, WindowsAgree, ResetAcked, \A k \in Node : ResetInv(k) /\ SpanInv(k) /\ HandlerInv(k),
           [Next]_vars, NEW n \in Node
    PROVE  HandlerInv(n)'
<1> USE DEF HandlerInv
<1>a. HandlerInv(n) /\ HandshakeDue(n) = (state[n] = "wait_reset_ack" /\ unacked[n] = {})
    BY DEF HandshakeDue
<1>1. CASE Untouched(n)
    BY <1>1, <1>a DEF Untouched
<1>2. CASE Start(n)
    <2>1. pc[n] = "idle" /\ pc'[n] = "flush" /\ state'[n] = "wait_reset" /\ building' = building
        BY <1>2 DEF Start, TypeOK
    <2>2. QED
        BY <1>a, <2>1
<1>3. CASE SslWrite(n)
    <2>1. pc[n] = "idle" /\ pc'[n] = "flush" /\ state[n] = "ssl_started" /\ state' = state /\ building' = building
        BY <1>3 DEF SslWrite, TypeOK
    <2>2. QED
        BY <1>a, <2>1
<1>4. CASE UpSequenced(n)
    <2>1. /\ pc[n] = "up_sequenced" /\ pc' = pc /\ building' = building /\ unacked' = unacked
          /\ \E m : RawRecv(n, m)
        BY <1>4 DEF UpSequenced, sender
    <2>2. state' = state \/ (state[n] = "wait_reset" /\ state' = [state EXCEPT ![n] = "wait_reset_ack"])
        BY <2>1 DEF RawRecv
    <2>3. state'[n] = state[n] \/ (state[n] = "wait_reset" /\ state'[n] = "wait_reset_ack")
        BY <2>2 DEF TypeOK
    <2>4. QED
        BY <1>a, <2>1, <2>3
<1>5. CASE UpSequencedDone(n)
    <2>1. /\ pc[n] = "up_sequenced" /\ pc'[n] = "flush" /\ building' = building /\ unacked' = unacked
          /\ state' = state
        BY <1>5 DEF UpSequencedDone, TypeOK, sender, endpoint
    <2>2. QED
        BY <1>a, <2>1
<1>6. CASE StartHandshake(n)
    <2>1. building[n] = NoPkt /\ building' = building /\ state'[n] = "ssl_started"
        BY <1>6 DEF StartHandshake, TypeOK
    <2>2. QED
        BY <2>1
<1>7. CASE DownStackRaw(n) \/ DownStackApp(n)
    <2>1. pc[n] = "flush" /\ pc' = pc /\ state' = state /\ state[n] # "wait_reset_ack"
        BY <1>7, <1>a DEF DownStackRaw, DownStackApp
    <2>2. QED
        BY <2>1
<1>8. CASE DownStackDone(n)
    <2>1. /\ pc'[n] = "send_acks" /\ state' = state /\ state[n] # "wait_reset_ack"
        BY <1>8, <1>a DEF DownStackDone, TypeOK, endpoint
    <2>2. QED
        BY <2>1
<1>9. CASE SendPendingAcks(n)
    <2>1. /\ pc[n] = "send_acks" /\ building[n] = NoPkt /\ state' = state
          /\ \/ pc'[n] = "send_acks"
             \/ pc'[n] = "idle" /\ building' = building
        BY <1>9 DEF SendPendingAcks, TypeOK, endpoint
    <2>2. QED
        BY <1>a, <2>1
<1>10. CASE PrependAck(n) \/ NetSend(n)
    <2>1. building[n] # NoPkt /\ pc' = pc /\ state' = state
        BY <1>10 DEF PrependAck, NetSend, endpoint
    <2>2. QED
        BY <1>a, <2>1
<1>11. CASE RetransmitOne(n)
    <2>1. pc[n] = "retransmit" /\ pc' = pc /\ state' = state
        BY <1>11 DEF RetransmitOne, endpoint
    <2>2. QED
        BY <1>a, <2>1
<1>12. CASE RetransmitDone(n) \/ \E s \in unacked[n] : Retransmit(n, s.id)
    <2>1. /\ pc[n] \in {"idle", "retransmit"} /\ building' = building /\ state' = state
          /\ pc'[n] = "retransmit" \/ (pc'[n] = "idle" /\ building[n] = NoPkt)
        BY <1>12 DEF RetransmitDone, Retransmit, endpoint, TypeOK
    <2>2. QED
        BY <1>a, <2>1
<1>13. ASSUME NEW p \in net, Receive(n, p) PROVE HandlerInv(n)'
    <2>1. /\ pc[n] = "idle" /\ building' = building /\ state' = state
          /\ pc'[n] = "flush" \/ (pc'[n] = "up_sequenced" /\ IsControl(p))
        BY <1>13 DEF Receive, TypeOK, endpoint
    <2>2. state[n] # "ssl_started" /\ IsControl(p) => unacked'[n] = {}
        BY <1>13, ResetIsTheOnlyOne
    <2>3. QED
        BY <1>a, <2>1, <2>2
<1>14. QED
    BY <1>1, <1>2, <1>3, <1>4, <1>5, <1>6, <1>7, <1>8, <1>9, <1>10, <1>11, <1>12, <1>13, OwnStep DEF Own

LEMMA SettledNext ==
    ASSUME TypeOK, WindowsAgree, \A k \in Node : ResetInv(k), [Next]_vars, NEW n \in Node, SettledInv(n)
    PROVE  SettledInv(n)'
<1> SUFFICES ASSUME pc'[n] # "up_sequenced", state'[n] # "wait_reset_ack"
             PROVE  \A s \in received'[n] : s.id # recvHead'[n]
    BY DEF SettledInv
<1>1. CASE UpSequencedDone(n)
    <2>1. /\ received' = received /\ recvHead' = recvHead /\ state' = state
          /\ \A s \in received[n] : ~Deliverable(n, s)
        BY <1>1 DEF UpSequencedDone, receiver, endpoint
    <2>2. ASSUME NEW s \in received[n], s.id = recvHead[n] PROVE FALSE
        <3>1. s.msg # Reset /\ state[n] # "ssl_started" /\ state[n] # "wait_reset_ack"
            BY <2>1, <2>2 DEF Deliverable
        <3>2. state[n] \in {"initial", "wait_reset"}
            BY <3>1 DEF TypeOK
        <3>3. s.id = 0
            BY <2>2, <3>2 DEF ResetInv
        <3>4. QED
            BY <3>1, <3>3, FirstIsReset
    <2>3. QED
        BY <2>1, <2>2
<1>2. CASE /\ received'[n] = received[n] /\ recvHead'[n] = recvHead[n]
           /\ pc[n] # "up_sequenced" /\ state[n] # "wait_reset_ack"
    BY <1>2 DEF SettledInv
<1>3. ASSUME NEW p \in net, Receive(n, p)
      PROVE  /\ received'[n] = received[n] /\ recvHead'[n] = recvHead[n]
             /\ pc[n] # "up_sequenced" /\ state[n] # "wait_reset_ack"
    BY <1>3 DEF Receive, TypeOK, endpoint
<1>4. CASE UpSequenced(n) \/ StartHandshake(n)
    <2>1. pc'[n] = "up_sequenced"
        BY <1>4 DEF UpSequenced, StartHandshake, TypeOK
    <2>2. QED
        BY <2>1
<1>5. ASSUME Own(n), ~UpSequencedDone(n), ~UpSequenced(n), ~StartHandshake(n), ~ \E p \in net : Receive(n, p)
      PROVE  /\ received' = received /\ recvHead' = recvHead
             /\ state'[n] = state[n] \/ state[n] = "initial"
             /\ pc[n] # "up_sequenced" \/ pc'[n] = pc[n]
    BY <1>5 DEF Own, Start, SslWrite, DownStackRaw, DownStackApp, DownStackDone, SendPendingAcks, PrependAck,
       NetSend, RetransmitOne, RetransmitDone, Retransmit, endpoint, receiver
<1>6. QED
    BY <1>1, <1>2, <1>3, <1>4, <1>5, OwnStep DEF Untouched

-----------------------------------------------------------------------------
(* What is not acknowledged yet *)

\* A message the receiver does not have is not acknowledged.
LEMMA MissingIsUnacknowledged ==
    ASSUME TypeOK, WindowsAgree, \A k \in Node : SpanInv(k), NEW n \in Node, NEW id \in Nat, id \notin Has(n)
    PROVE  Unacknowledged(n, id)
<1>1. sendHead[Other(n)] \in Nat /\ AckInv(n) /\ NetInv /\ SpanInv(Other(n)) /\ SendInv(Other(n))
    BY DEF TypeOK, WindowsAgree
<1>2. sendHead[Other(n)] <= id
    <2>1. id \notin 0 .. (sendHead[Other(n)] - 1)
        BY <1>1 DEF SpanInv
    <2>2. QED
        BY <1>1, <2>1
<1>3. id \notin erased[Other(n)]
    BY <1>1 DEF SendInv
<1>4. \A i \in 1 .. Len(reAcks[n]) : reAcks[n][i] # id
    BY <1>1 DEF AckInv
<1>5. building[n] # NoPkt => \A i \in 1 .. Len(building[n].acks) : building[n].acks[i] # id
    BY <1>1 DEF AckInv
<1>6. \A p \in net : p.to = Other(n) => id \notin p.acks
    BY <1>1 DEF NetInv
<1>7. QED
    BY <1>2, <1>3, <1>4, <1>5, <1>6 DEF Unacknowledged

Spans == \A n \in Node : SpanInv(n)
HolesAtHeads == \A n \in Node : recvHead[n] \notin Has(n) => HoleInv(n)

LEMMA HeadIsUnacknowledged == TypeOK /\ WindowsAgree /\ Spans => HolesAtHeads
<1> SUFFICES ASSUME TypeOK, WindowsAgree, \A k \in Node : SpanInv(k), NEW n \in Node, recvHead[n] \notin Has(n)
             PROVE  HoleInv(n)
    BY DEF Spans, HolesAtHeads
<1>1. recvHead[n] \in Nat /\ recvHead[n] \in 0 .. recvHead[n]
    BY DEF TypeOK
<1>2. Unacknowledged(n, recvHead[n])
    BY <1>1, MissingIsUnacknowledged
<1>3. QED
    BY <1>1, <1>2 DEF HoleInv

\* While the handler has not acknowledged its message, no step acknowledges id.
LEMMA StaysUnacknowledged ==
    ASSUME TypeOK, WindowsAgree, [Next]_vars, NEW n \in Node, NEW id \in Nat, Unacknowledged(n, id),
           building'[n] = NoPkt, reAcks'[n] = reAcks[n],
           \A p \in net' : p.to = Other(n) => p \in net
    PROVE  Unacknowledged(n, id)'
<1> DEFINE o == Other(n)
<1>1. CASE sendHead'[o] = sendHead[o] /\ erased'[o] = erased[o]
    BY <1>1 DEF Unacknowledged
<1>2. ASSUME NEW p \in net, Receive(o, p) PROVE Unacknowledged(n, id)'
    <2>1. p.to = o
        BY <1>2 DEF Receive
    <2>2. id \notin Gone(o, p) /\ sendHead[o] <= id
        BY <2>1 DEF Gone, Unacknowledged
    <2>3. /\ sendHead'[o] \in Nat /\ erased'[o] \subseteq Gone(o, p)
          /\ \A i \in sendHead[o] .. (sendHead'[o] - 1) : i \in Gone(o, p)
        BY <1>2, AcknowledgeMoves
    <2>4. sendHead[o] \in Nat
        BY DEF TypeOK
    <2>5. id \notin sendHead[o] .. (sendHead'[o] - 1)
        BY <2>2, <2>3
    <2>6. sendHead'[o] <= id
        BY <2>2, <2>3, <2>4, <2>5
    <2>7. QED
        BY <2>2, <2>3, <2>6 DEF Unacknowledged
<1>3. ASSUME NEW k \in Node, NEW p \in net, Receive(k, p), k # o
      PROVE  sendHead'[o] = sendHead[o] /\ erased'[o] = erased[o]
    BY <1>3, AcknowledgeMoves
<1>4. QED
    BY <1>1, <1>2, <1>3, SenderStep DEF sender

LEMMA HoleNext ==
    ASSUME TypeOK, WindowsAgree, \A k \in Node : HandlerInv(k), [Next]_vars, NEW n \in Node, HoleInv(n),
           TypeOK', WindowsAgree', \A k \in Node : SpanInv(k)' /\ HandlerInv(k)' /\ SettledInv(k)'
    PROVE  HoleInv(n)'
<1>1. CASE recvHead'[n] \notin Has(n)'
    <2>1. (TypeOK /\ WindowsAgree /\ Spans => HolesAtHeads)'
        BY HeadIsUnacknowledged, PTL
    <2>2. HolesAtHeads'
        BY <2>1 DEF Spans
    <2>3. QED
        BY <1>1, <2>2 DEF HolesAtHeads
<1>2. CASE recvHead'[n] \in Has(n)'
    <2>1. recvHead[n] \in Nat /\ recvHead'[n] \in Nat
        BY DEF TypeOK
    <2>2. \E s \in received'[n] : s.id = recvHead'[n]
        <3>1. recvHead'[n] < recvHead'[n] \/ \E s \in received'[n] : s.id = recvHead'[n]
            BY <1>2 DEF Has, HasMessage
        <3>2. QED
            BY <2>1, <3>1
    <2>3. pc'[n] = "up_sequenced" \/ state'[n] = "wait_reset_ack"
        BY <2>2 DEF SettledInv
    <2>4. building'[n] = NoPkt
        BY <2>3 DEF HandlerInv
    <2>5. ~PrependAck(n)
        <3>1. SUFFICES ASSUME PrependAck(n) PROVE FALSE
            OBVIOUS
        <3>2. building[n] # NoPkt /\ pc' = pc /\ state' = state
            BY <3>1 DEF PrependAck, endpoint
        <3>3. QED
            BY <2>3, <3>2 DEF HandlerInv
    <2>6. ~NetSend(n)
        <3>1. SUFFICES ASSUME NetSend(n) PROVE FALSE
            OBVIOUS
        <3>2. building[n] # NoPkt /\ pc' = pc /\ state' = state
            BY <3>1 DEF NetSend, endpoint
        <3>3. QED
            BY <2>3, <3>2 DEF HandlerInv
    <2>7. reAcks'[n] = reAcks[n]
        <3>1. ASSUME NEW k \in Node, k # n, PrependAck(k) PROVE reAcks'[n] = reAcks[n]
            BY <3>1 DEF PrependAck, TypeOK
        <3>2. ASSUME NEW k \in Node, NEW p \in net, Receive(k, p) PROVE reAcks'[n] = reAcks[n]
            BY <3>2 DEF Receive
        <3>3. QED
            BY <2>5, <3>1, <3>2, AckStep DEF ackState
    <2>8. \A p \in net' : p.to = Other(n) => p \in net
        <3>1. ASSUME NEW k \in Node, k # n, NetSend(k), NEW p \in net', p \notin net PROVE p.to # Other(n)
            <4>1. p = Sealed(k)
                BY <3>1 DEF NetSend
            <4>2. p.to = Other(k)
                BY <4>1 DEF Sealed
            <4>3. QED
                BY <3>1, <4>2 DEF Node, Other
        <3>2. QED
            BY <2>6, <3>1, NetStep
    <2>9. recvHead[n] <= recvHead'[n]
        <3>1. CASE UpSequenced(n)
            BY <2>1, <3>1 DEF UpSequenced, TypeOK
        <3>2. ASSUME ~UpSequenced(n) PROVE recvHead'[n] = recvHead[n]
            BY <3>2, PeerStep DEF Start, StartHandshake, DownStackRaw, DownStackApp, receiver
        <3>3. QED
            BY <2>1, <3>1, <3>2
    <2>10. PICK id \in 0 .. recvHead[n] : Unacknowledged(n, id)
        BY DEF HoleInv
    <2>11. id \in Nat /\ id \in 0 .. recvHead'[n]
        BY <2>1, <2>9
    <2>12. Unacknowledged(n, id)'
        BY <2>4, <2>7, <2>8, <2>10, <2>11, StaysUnacknowledged
    <2>13. QED
        BY <2>11, <2>12 DEF HoleInv
<1>3. QED
    BY <1>1, <1>2

-----------------------------------------------------------------------------
(* The windows agree *)

LEMMA WindowInit == Init => IInv
<1> SUFFICES ASSUME Init PROVE IInv
    OBVIOUS
<1>1. TypeOK /\ WindowsAgree
    BY TypeInit, AgreeInit
<1>2. ResetAcked
    BY DEF Init, ResetAcked
<1>3. ASSUME NEW n \in Node PROVE ResetInv(n) /\ SpanInv(n) /\ OwesAck(n) /\ HandlerInv(n) /\ SettledInv(n)
    <2>1. ResetInv(n)
        BY DEF Init, ResetInv, Begun, Node
    <2>2. SpanInv(n)
        BY WindowsArePositive DEF Init, SpanInv
    <2>3. OwesAck(n)
        BY DEF Init, OwesAck, HasMessage
    <2>4. HandlerInv(n) /\ SettledInv(n)
        BY DEF Init, HandlerInv, SettledInv
    <2>5. QED
        BY <2>1, <2>2, <2>3, <2>4
<1>4. ASSUME NEW n \in Node PROVE HoleInv(n)
    <2>1. recvHead[n] = 0 /\ recvHead[n] \notin Has(n)
        BY DEF Init, Has, HasMessage
    <2>2. QED
        BY <1>1, <1>3, <2>1, HeadIsUnacknowledged DEF Spans, HolesAtHeads
<1>5. QED
    BY <1>1, <1>2, <1>3, <1>4 DEF IInv

LEMMA WindowNext == TypeOK' /\ WindowsAgree' /\ IInv /\ [Next]_vars => IInv'
<1> SUFFICES ASSUME IInv, [Next]_vars, TypeOK', WindowsAgree' PROVE IInv'
    OBVIOUS
<1>1. TypeOK /\ WindowsAgree /\ ResetAcked
    BY DEF IInv
<1>2. \A n \in Node : ResetInv(n) /\ SpanInv(n) /\ OwesAck(n) /\ HandlerInv(n) /\ SettledInv(n) /\ HoleInv(n)
    BY DEF IInv
<1>3. ResetAcked'
    BY <1>1, <1>2, ResetAckedNext
<1>4. ASSUME NEW n \in Node PROVE ResetInv(n)' /\ SpanInv(n)' /\ OwesAck(n)' /\ HandlerInv(n)' /\ SettledInv(n)'
    BY <1>1, <1>2, ResetNext, SpanNext, OwesNext, HandlerNext, SettledNext
<1>5. ASSUME NEW n \in Node PROVE HoleInv(n)'
    BY <1>1, <1>2, <1>4, HoleNext
<1>6. QED
    BY <1>3, <1>4, <1>5 DEF IInv

\* With a receive window no smaller than the send window the receiver has room
\* for whatever is in flight, for any windows, streams and network: a packet is
\* dropped without an ACK (ReliableRecv::receive) only if the configuration
\* says so.
THEOREM WindowCorrect == Safety => []NeverBeyondWindow
<1>1. IInv => NeverBeyondWindow
    <2> SUFFICES ASSUME IInv, SendWindow <= RecvWindow, NEW p \in net
                 PROVE  p.id < recvHead[p.to] + RecvWindow
        BY DEF NeverBeyondWindow
    <2> DEFINE n == p.to
    <2> DEFINE o == Other(n)
    <2>1. p \in Packet /\ n \in Node /\ o \in Node
        BY DEF IInv, TypeOK, Packet
    <2>2. /\ sendHead[o] \in Nat /\ sendNext[o] \in Nat /\ recvHead[n] \in Nat
          /\ SendWindow \in Nat /\ RecvWindow \in Nat /\ RecvWindow > 0 /\ p.id \in Nat \cup {NoId}
        BY <2>1, WindowsArePositive DEF IInv, TypeOK, Packet
    <2>3. CASE p.id = NoId
        BY <2>2, <2>3 DEF NoId
    <2>4. CASE p.id # NoId
        <3>1. p.id < sendNext[o]
            BY <2>1, <2>4 DEF IInv, WindowsAgree, NetInv, Numbered
        <3>2. sendNext[o] <= sendHead[o] + SendWindow
            BY <2>1 DEF IInv, SpanInv
        <3>3. PICK id \in 0 .. recvHead[n] : sendHead[o] <= id
            BY <2>1 DEF IInv, HoleInv, Unacknowledged
        <3>4. QED
            BY <2>2, <2>4, <3>1, <3>2, <3>3
    <2>5. QED
        BY <2>3, <2>4
<1>2. QED
    BY <1>1, WindowInit, WindowNext, TypeCorrect, AgreeCorrect, PTL DEF Safety

=============================================================================
