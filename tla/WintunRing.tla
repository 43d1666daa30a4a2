----------------------------- MODULE WintunRing -----------------------------
(***************************************************************************)
(* The two rings in shared memory through which WintunClient               *)
(* (openvpn/tun/win/client/wintun.hpp, ringbuffer.hpp) and the Wintun      *)
(* driver exchange packets: the driver writes the send ring and the client *)
(* the receive ring.  The consumer of a ring owns its head, the producer   *)
(* its tail.                                                               *)
(*                                                                         *)
(* The client's handlers run on one thread; asio's wait for the event of   *)
(* the send ring and the driver are threads of their own.  With tunPersist *)
(* the rings outlive a session and are those of the next.  The driver is   *)
(* external: it does what the code relies on.  Ring memory is counted in   *)
(* units of WINTUN_PACKET_ALIGN, positions in bytes.                       *)
(*                                                                         *)
(* An error of tun_send() stops the session half-way: the session has      *)
(* halted, so that it is not stopped again, but its tun has not.  It is    *)
(* the last session here: one after it would leave the read() of a tun     *)
(* whose session is gone.                                                  *)
(***************************************************************************)
EXTENDS Integers, Sequences, FiniteSets

CONSTANTS
    Capacity,    \* WINTUN_RING_CAPACITY
    Trailing,    \* WINTUN_RING_TRAILING_BYTES
    Align,       \* WINTUN_PACKET_ALIGN
    Header,      \* sizeof(TUN_PACKET_HEADER)
    Packet,      \* the packets
    Size,        \* Size[p]: how many bytes p has
    Nothing,     \* no packet
    Invalid,     \* the position the driver leaves in a ring it has closed
    MaxSessions  \* bound: sessions that use the rings one after the other

ASSUME AlignDividesCapacity == Align \in Nat \ {0} /\ Capacity \in Nat \ {0} /\ Capacity % Align = 0
ASSUME HeaderIsOneUnit == Header = Align
ASSUME SizesArePositive == Size \in [Packet -> Nat \ {0}]
ASSUME NothingIsNoPacket == Nothing \notin Packet
ASSUME InvalidIsBeyond == Invalid \in Nat /\ Invalid > Capacity
ASSUME TrailingHoldsPacket == Trailing \in Nat /\ \A p \in Packet : Size[p] + Header <= Trailing
ASSUME SessionsAreBounded == MaxSessions \in Nat \ {0}

Ring == {"send", "receive"}

VARIABLES
    traffic,   \* bound: the ring that carries packets; the threads share no more than this
    head,      \* head of each ring
    tail,      \* tail of each ring, as the other side sees it
    data,      \* the memory of each ring
    ownTail,   \* the tail of the receive ring, as the client has stored it
    alertable, \* alertable of the receive ring
    event,     \* the two events, which reset themselves
    session,   \* the session whose tun uses the rings
    halted,    \* its tun has been stopped
    broken,    \* the session has halted without stopping it
    waits,     \* the sessions whose read() waits for the event, in the order it began
    ready,     \* the sessions whose read() is ready to run
    pc,        \* what the client's thread is doing
    local,     \* the local variables of read(): head, tail and buf
    driver,    \* what the driver's thread is doing
    closed,    \* the driver has closed the rings
    failed,    \* history: read() or tun_send() has called tun_error()
    given,     \* history: the last packet read from each ring
    held       \* history: the packets that each ring has been given since

ringVars == <<head, tail, data, ownTail, alertable, event>>
clientVars == <<session, halted, broken, waits, ready, pc, local, failed>>
vars == <<traffic, ringVars, clientVars, driver, closed, given, held>>

Unit == 0 .. (Capacity + Trailing) \div Align - 1
NoLocal == [head |-> 0, tail |-> 0, buf |-> Nothing]

Init ==
    /\ traffic \in Ring
    /\ head = [r \in Ring |-> 0] /\ tail = [r \in Ring |-> 0]
    /\ data = [r \in Ring |-> [u \in Unit |-> <<Nothing, 0>>]]
    /\ ownTail = 0 /\ alertable = FALSE
    /\ event = [r \in Ring |-> FALSE]
    /\ session = 1 /\ halted = FALSE /\ broken = FALSE
    /\ waits = <<>> /\ ready = <<1>>
    /\ pc = "idle" /\ local = NoLocal
    /\ driver = "awake" /\ closed = FALSE /\ failed = FALSE
    /\ given = [r \in Ring |-> Nothing] /\ held = [r \in Ring |-> <<>>]

-----------------------------------------------------------------------------
(* Positions *)

\* wrap() and packet_align(): the capacity divides 2^32, so that unsigned
\* arithmetic agrees with that of the integers.
Wrap(n) == n % Capacity
PacketAlign(n) == ((n + Align - 1) \div Align) * Align
Space(p) == PacketAlign(Header + Size[p])

\* What is left of a ring: a full ring would look like an empty one.
\* Mutant: all of it.
FreeAll(h, t) == IF h = t THEN Capacity ELSE Wrap(h - t)
Free(h, t) == Wrap(h - t - Align)

\* A packet lies in consecutive memory, if need be beyond Capacity.
Written(d, p, t) ==
    [u \in Unit |-> IF t \div Align <= u /\ u < (t + Space(p)) \div Align
                    THEN <<p, u - t \div Align>> ELSE d[u]]
Starts(d, h) == d[h \div Align][2] = 0 /\ d[h \div Align][1] # Nothing
Whole(d, h) ==
    LET p == d[h \div Align][1] IN
    \A k \in 0 .. Space(p) \div Align - 1 : d[h \div Align + k] = <<p, k>>

-----------------------------------------------------------------------------
(* WintunClient *)

\* stop() of the session, which does nothing once it has halted.
StopSession == halted' = (halted \/ ~broken) /\ UNCHANGED broken

\* tun_error() of the session, from read().
TunError == StopSession /\ failed' = TRUE

\* tun_error() from tun_send(): client_proto_terminate() does not know the code
\* and throws before stop() gets to the tun.
SendError == broken' = TRUE /\ failed' = TRUE /\ UNCHANGED halted

\* The session whose read() is called has been stopped.
\* Mutant: it is not asked.
NeverEnded(s) == FALSE
Ended(s) == s # session \/ halted

\* read() is called: the tail is looked at once.
ReadBegins ==
    /\ pc = "idle" /\ ready # <<>>
    /\ ready' = Tail(ready)
    /\ \/ /\ Ended(Head(ready))
          /\ UNCHANGED <<halted, broken, pc, local, failed>>
       \/ /\ ~Ended(Head(ready))
          /\ tail["send"] >= Capacity
          /\ TunError
          /\ UNCHANGED <<pc, local>>
       \/ /\ ~Ended(Head(ready))
          /\ tail["send"] < Capacity
          /\ pc' = "read"
          /\ local' = [head |-> head["send"], tail |-> tail["send"], buf |-> Nothing]
          /\ UNCHANGED <<halted, broken, failed>>
    /\ UNCHANGED <<traffic, ringVars, session, waits, driver, closed, given, held>>

\* It has read as far as that tail.
ReadWaits ==
    /\ pc = "read" /\ local.head = local.tail
    /\ waits' = Append(waits, session)
    /\ pc' = "idle" /\ local' = NoLocal
    /\ UNCHANGED <<traffic, ringVars, session, halted, broken, ready, failed, driver, closed, given, held>>

\* The wait for the event ends with an error.
WaitFails ==
    /\ pc = "idle" /\ waits # <<>>
    /\ waits' = Tail(waits)
    /\ IF Ended(Head(waits)) THEN UNCHANGED <<halted, broken>> ELSE StopSession
    /\ UNCHANGED <<traffic, ringVars, session, ready, pc, local, failed, driver, closed, given, held>>

\* A packet of which not all is below the tail.
\* Mutant: the last packet is taken for one of them.
IncompleteAtEnd(p, content) == Space(p) >= content
Incomplete(p, content) == Space(p) > content

\* The packet at its head is copied, unless what is there cannot be one.
ReadCopies ==
    /\ pc = "read" /\ local.head # local.tail
    /\ LET content == Wrap(local.tail - local.head)
           p == data["send"][local.head \div Align][1] IN
       \/ /\ content < Header \/ ~Starts(data["send"], local.head) \/ Incomplete(p, content)
          /\ TunError
          /\ pc' = "idle" /\ local' = NoLocal
       \/ /\ content >= Header /\ Starts(data["send"], local.head) /\ ~Incomplete(p, content)
          /\ pc' = "copied"
          /\ local' = [local EXCEPT !.buf = IF Whole(data["send"], local.head) THEN p ELSE Nothing]
          /\ UNCHANGED <<halted, broken, failed>>
    /\ UNCHANGED <<traffic, ringVars, session, waits, ready, driver, closed, given, held>>

\* What a ring holds after its first packet.
Without(queue) == IF queue = <<>> THEN queue ELSE Tail(queue)

\* Mutant: it waits for the next event after one packet.
RestLeft(next) == [head |-> next, tail |-> next, buf |-> Nothing]
Rest(next) == [local EXCEPT !.head = next, !.buf = Nothing]

\* Its memory is given back and tun_recv() called, which may end the session, or
\* try to send an ICMP message to the tun.
ReadReleases ==
    /\ pc = "copied"
    /\ LET next == Wrap(local.head + Space(data["send"][local.head \div Align][1])) IN
       /\ head' = [head EXCEPT !["send"] = next]
       /\ given' = [given EXCEPT !["send"] = local.buf]
       /\ held' = [held EXCEPT !["send"] = Without(@)]
       /\ \/ UNCHANGED <<halted, broken, failed>>
          \/ StopSession /\ UNCHANGED failed
          \/ head["receive"] > Capacity /\ SendError
       /\ IF halted' THEN pc' = "idle" /\ local' = NoLocal
                     ELSE pc' = "read" /\ local' = Rest(next)
    /\ UNCHANGED <<traffic, tail, data, ownTail, alertable, event, session, waits, ready,
                   driver, closed>>

\* tun_send(), unless the ring is full and the packet lost.  The driver only
\* ever makes room, so that looking at the head and writing the packet are one
\* step.  What it stored for the packet before is visible by now: it has called
\* the system for this one.
TunSend ==
    /\ pc = "idle" /\ ~halted /\ traffic = "receive"
    /\ tail["receive"] = ownTail
    /\ head["receive"] <= Capacity
    /\ \E p \in Packet :
        /\ Space(p) <= Free(head["receive"], ownTail)
        /\ data' = [data EXCEPT !["receive"] = Written(@, p, ownTail)]
        /\ held' = [held EXCEPT !["receive"] = Append(@, p)]
        /\ ownTail' = Wrap(ownTail + Space(p))
    /\ pc' = "sent"
    /\ UNCHANGED <<traffic, head, tail, alertable, event, session, halted, broken, waits, ready, local,
                   failed, driver, closed, given>>

\* tun_send() to a ring that has been closed, which an interrupted session may
\* well repeat.
TunSendFails ==
    /\ pc = "idle" /\ ~halted
    /\ head["receive"] > Capacity
    /\ SendError
    /\ UNCHANGED <<traffic, ringVars, session, waits, ready, pc, local, driver, closed, given, held>>

\* alertable is read, maybe before the driver can see the new tail; SetEvent
\* is a system call, before which it can.
SetEvent ==
    /\ event' = [event EXCEPT !["receive"] = TRUE]
    /\ tail' = [tail EXCEPT !["receive"] = ownTail]
    /\ UNCHANGED ownTail
\* Mutant: the driver is not told.
Unalerted == pc = "sent" /\ UNCHANGED <<event, tail, ownTail>>
Alerted == pc = "sent" /\ IF alertable THEN SetEvent ELSE UNCHANGED <<event, tail, ownTail>>
TunSent ==
    /\ Alerted
    /\ pc' = "idle"
    /\ UNCHANGED <<traffic, head, data, alertable, session, halted, broken, waits, ready, local, failed,
                   driver, closed, given, held>>

\* The processor makes a store visible.
StoreIsSeen ==
    /\ tail["receive"] # ownTail
    /\ tail' = [tail EXCEPT !["receive"] = ownTail]
    /\ UNCHANGED <<traffic, head, data, ownTail, alertable, event, clientVars, driver, closed, given, held>>

\* stop(), from another handler of the session.
Stop ==
    /\ pc = "idle"
    /\ StopSession
    /\ UNCHANGED <<traffic, ringVars, session, waits, ready, pc, local, failed, driver, closed, given, held>>

\* tun_start() of the next session, with the persisted tun.
TunStart ==
    /\ pc = "idle" /\ halted
    /\ session < MaxSessions
    /\ session' = session + 1
    /\ halted' = FALSE /\ UNCHANGED broken
    /\ ready' = Append(ready, session')
    /\ UNCHANGED <<traffic, ringVars, waits, pc, local, failed, driver, closed, given, held>>

\* asio: the event completes the wait that began first, and is reset.
EventCompletes ==
    /\ event["send"] /\ waits # <<>>
    /\ event' = [event EXCEPT !["send"] = FALSE]
    /\ ready' = Append(ready, Head(waits))
    /\ waits' = Tail(waits)
    /\ UNCHANGED <<traffic, head, tail, data, ownTail, alertable, session, halted, broken, pc, local, failed,
                   driver, closed, given, held>>

-----------------------------------------------------------------------------
(* The driver *)

\* It writes a packet, moves the tail, and sets the event.
DriverWrites ==
    /\ driver = "awake" /\ ~closed /\ traffic = "send"
    /\ \E p \in Packet :
        /\ Space(p) <= Free(head["send"], tail["send"])
        /\ data' = [data EXCEPT !["send"] = Written(@, p, tail["send"])]
        /\ held' = [held EXCEPT !["send"] = Append(@, p)]
        /\ tail' = [tail EXCEPT !["send"] = Wrap(@ + Space(p))]
    /\ driver' = "written"
    /\ UNCHANGED <<traffic, head, ownTail, alertable, event, clientVars, closed, given>>
DriverSignals ==
    /\ driver = "written"
    /\ event' = [event EXCEPT !["send"] = TRUE]
    /\ driver' = "awake"
    /\ UNCHANGED <<traffic, head, tail, data, ownTail, alertable, clientVars, closed, given, held>>

\* It reads a packet; with none left it sets alertable, looks again, and waits.
DriverReads ==
    /\ driver = "awake" /\ ~closed /\ head["receive"] # tail["receive"]
    /\ LET h == head["receive"]  p == data["receive"][h \div Align][1] IN
       /\ given' = [given EXCEPT !["receive"] =
                       IF Starts(data["receive"], h) /\ Whole(data["receive"], h) THEN p ELSE Nothing]
       /\ head' = [head EXCEPT !["receive"] = Wrap(h + Space(p))]
       /\ held' = [held EXCEPT !["receive"] = Without(@)]
    /\ UNCHANGED <<traffic, tail, data, ownTail, alertable, event, clientVars, driver, closed>>
DriverAlertable ==
    /\ driver = "awake" /\ ~closed /\ head["receive"] = tail["receive"] /\ traffic = "receive"
    /\ alertable' = TRUE /\ driver' = "looking"
    /\ UNCHANGED <<traffic, head, tail, data, ownTail, event, clientVars, closed, given, held>>
DriverLooks ==
    /\ driver = "looking"
    /\ IF head["receive"] = tail["receive"]
       THEN driver' = "waiting" /\ UNCHANGED alertable
       ELSE driver' = "awake" /\ alertable' = FALSE
    /\ UNCHANGED <<traffic, head, tail, data, ownTail, event, clientVars, closed, given, held>>
DriverWakes ==
    /\ driver = "waiting" /\ event["receive"]
    /\ event' = [event EXCEPT !["receive"] = FALSE]
    /\ driver' = "awake" /\ alertable' = FALSE
    /\ UNCHANGED <<traffic, head, tail, data, ownTail, clientVars, closed, given, held>>

\* It closes the rings: both can be seen to be invalid.
DriverCloses ==
    /\ driver = "awake" /\ ~closed
    /\ closed' = TRUE
    /\ head' = [head EXCEPT !["receive"] = Invalid]
    /\ tail' = [tail EXCEPT !["send"] = Invalid]
    /\ event' = [event EXCEPT !["send"] = TRUE]
    /\ UNCHANGED <<traffic, data, ownTail, alertable, clientVars, driver, given, held>>

Read == ReadBegins \/ ReadWaits \/ ReadCopies \/ ReadReleases
DriverConsumes == DriverReads \/ DriverAlertable \/ DriverLooks \/ DriverWakes

Next ==
    \/ Read \/ WaitFails \/ TunSend \/ TunSendFails \/ TunSent \/ StoreIsSeen
    \/ Stop \/ TunStart \/ EventCompletes
    \/ DriverWrites \/ DriverSignals \/ DriverConsumes \/ DriverCloses

Safety == Init /\ [][Next]_vars

\* The io_context runs what is ready, the processor and the driver go on.
Spec ==
    /\ Safety
    /\ WF_vars(Read) /\ WF_vars(TunSent) /\ WF_vars(StoreIsSeen) /\ WF_vars(EventCompletes)
    /\ WF_vars(DriverSignals) /\ WF_vars(DriverConsumes)

-----------------------------------------------------------------------------
(* Properties *)

Position == {n \in 0 .. Capacity - 1 : n % Align = 0}
Local == [head : Position, tail : Position, buf : Packet \cup {Nothing}]
TypeOK ==
    /\ traffic \in Ring
    /\ head \in [Ring -> Position \cup {Invalid}] /\ tail \in [Ring -> Position \cup {Invalid}]
    /\ data \in [Ring -> [Unit -> (Packet \cup {Nothing}) \X Nat]]
    /\ ownTail \in Position /\ alertable \in BOOLEAN
    /\ event \in [Ring -> BOOLEAN]
    /\ session \in 1 .. MaxSessions /\ halted \in BOOLEAN /\ broken \in BOOLEAN
    /\ waits \in Seq(1 .. session) /\ ready \in Seq(1 .. session)
    /\ pc \in {"idle", "read", "copied", "sent"} /\ local \in Local
    /\ driver \in {"awake", "written", "looking", "waiting"}
    /\ closed \in BOOLEAN /\ failed \in BOOLEAN
    /\ given \in [Ring -> Packet \cup {Nothing}] /\ held \in [Ring -> Seq(Packet)]

\* read() never takes for broken a ring that is not: whatever it finds below
\* the tail it has looked at is a whole packet, wherever the driver is by now.
NoFalseAlarm == failed => closed

\* A session has one read() under way as long as its tun is not stopped: if it
\* were lost no packet would be read again, and with two they would get out of
\* order.  Only a session that tun_send() has stopped half-way can lose it.
Pending(s) == Cardinality({i \in DOMAIN waits : waits[i] = s})
              + Cardinality({i \in DOMAIN ready : ready[i] = s})
OneReader ==
    /\ TypeOK
    /\ ~halted =>
          LET readers == Pending(session) + (IF pc \in {"read", "copied"} THEN 1 ELSE 0) IN
          readers = 1 \/ (readers = 0 /\ broken)

\* In both directions packets arrive whole, in order and once.
Sending == INSTANCE PacketQueue WITH queue <- held["send"], given <- given["send"], open <- ~closed
Receiving == INSTANCE PacketQueue WITH queue <- held["receive"], given <- given["receive"], open <- ~closed
ImplementsQueues == Sending!Spec /\ Receiving!Spec

\* A packet in the send ring is read although the driver may have moved the
\* tail just after read() has looked at it, as long as no read() of a session
\* that has ended waits for the event: with tunPersist, which keeps the
\* interface active during reconnections (ovpncli.hpp:205), such a read() takes
\* the signal that the new session waits for.
Moves(r) == head'[r] # head[r]
ReadsOn == []<>(head["send"] = tail["send"] \/ halted \/ closed) \/ []<><<Moves("send")>>_vars
Stale == \E i \in DOMAIN waits : waits[i] # session
ReadsAll == []~Stale => ReadsOn

\* While the client goes on sending, until the ring is full if need be, the
\* driver goes on reading, although it may not be told of the packet before.
Full == \A p \in Packet : Space(p) > Free(head["receive"], ownTail)
DriverReadsOn ==
    []<>(pc = "sent" \/ Full) => []<>closed \/ []<><<Moves("receive")>>_vars
=============================================================================
