------------------------------ MODULE PacketId ------------------------------
(***************************************************************************)
(* The packet ids of a data channel (openvpn/crypto/packet_id_data.hpp):   *)
(* PacketIDDataSend numbers the packets of a key, the network loses,       *)
(* repeats and reorders them, and PacketIDDataReceiveType tells by a       *)
(* circular bitmap of the last ids which ones to accept.  It is asked      *)
(* after the packet was authenticated, so that only packets the sender has *)
(* numbered reach it (crypto_aead.hpp:290, decrypt_chm.hpp:117).           *)
(***************************************************************************)
EXTENDS Integers

CONSTANTS
    Window,  \* REPLAY_WINDOW_SIZE
    Expire,  \* PKTID_RECV_EXPIRE
    MaxId,   \* the greatest id: 2^32 - 1, or 2^64 - 1 for wide ones
    MaxTime  \* bound: the clock stops there

ASSUME WindowIsPositive == Window \in Nat \ {0}
ASSUME ExpireIsNat == Expire \in Nat
ASSUME IdsAreNat == MaxId \in Nat \ {0}
ASSUME TimeIsNat == MaxTime \in Nat

VARIABLES
    id,      \* the sender's pid_.id
    over,    \* packet_id_wrap has been thrown, which ends the session
    now,     \* the clock, in seconds
    base,    \* bit position of deque base in history
    extent,  \* extent (in bits) of deque in history
    expire,  \* expiration of history
    idHigh,  \* id_high
    idFloor, \* id_floor
    history, \* the bitmap
    asked,   \* history variable: the packet do_test_add() has had last
    verdict, \* what it has returned
    accepted \* history variable: the packets it was SUCCESS for

recvVars == <<base, extent, expire, idHigh, idFloor, history, asked, verdict, accepted>>
vars == <<id, over, now, recvVars>>

Slot == 0 .. Window - 1

Init ==
    /\ id = 0 /\ over = FALSE
    /\ now = 0
    /\ base = 0 /\ extent = 0 /\ expire = 0 /\ idHigh = 0 /\ idFloor = 0
    /\ history = [j \in Slot |-> FALSE]
    /\ asked = 0 /\ verdict = "none" /\ accepted = {}

-----------------------------------------------------------------------------
(* PacketIDDataSend *)

\* The n-th packet, and the id it has on the wire.
Sent == 1 .. IF over THEN id - 1 ELSE id
WireId(n) == n % (MaxId + 1)

\* Mutant: the id is checked after it has been used.
ExhaustedLate(i) == i = MaxId + 3
Exhausted(i) == i = MaxId

\* next()
Send ==
    /\ ~over
    /\ id' = id + 1
    /\ over' = Exhausted(id')
    /\ UNCHANGED <<now, recvVars>>

-----------------------------------------------------------------------------
(* PacketIDDataReceiveType *)

\* replay_index(), for i between -Window and Window
ReplayIndex(b, i) ==
    IF b + i < 0 THEN b + i + Window ELSE IF b + i >= Window THEN b + i - Window ELSE b + i

Extend(n) == IF extent + n > Window THEN Window ELSE extent + n

Accept(n) == verdict' = "SUCCESS" /\ accepted' = accepted \cup {n}
Reject(error) ==
    /\ verdict' = error
    /\ UNCHANGED <<base, extent, idHigh, history, accepted>>

\* A well-formed sequence
InSequence(n) ==
    /\ WireId(n) = idHigh + 1
    /\ base' = ReplayIndex(base, -1)
    /\ history' = [history EXCEPT ![base'] = TRUE]
    /\ extent' = Extend(1)
    /\ idHigh' = WireId(n)
    /\ Accept(n)

\* The slots between the new base b and the old one, delta ids below it
\* Mutant: the last of them is forgotten.
PassedOverTooFew(b, delta) == {ReplayIndex(b, i) : i \in 1 .. delta - 2}
PassedOver(b, delta) == {ReplayIndex(b, i) : i \in 1 .. delta - 1}

\* The id jumps forward by more than one.
Jump(n) ==
    LET delta == WireId(n) - idHigh IN
    /\ delta > 1 /\ delta < Window
    /\ base' = ReplayIndex(base, -delta)
    /\ history' = [j \in Slot |-> j = base' \/ (j \notin PassedOver(base', delta) /\ history[j])]
    /\ extent' = Extend(delta)
    /\ idHigh' = WireId(n)
    /\ Accept(n)

\* The id jumps beyond the window.
Leap(n) ==
    LET delta == WireId(n) - idHigh IN
    /\ delta > 1 /\ delta >= Window
    /\ base' = 0
    /\ history' = [j \in Slot |-> j = 0]
    /\ extent' = Window
    /\ idHigh' = WireId(n)
    /\ Accept(n)

\* An older id, given the floor that holds now
Backtrack(n, floor) ==
    LET delta == idHigh - WireId(n)
        ri == ReplayIndex(base, delta) IN
    /\ WireId(n) # 0 /\ delta >= 0
    /\ \/ /\ delta < extent /\ WireId(n) > floor /\ ~history[ri]
          /\ history' = [history EXCEPT ![ri] = TRUE]
          /\ Accept(n)
          /\ UNCHANGED <<base, extent, idHigh>>
       \/ /\ delta < extent /\ WireId(n) > floor /\ history[ri]
          /\ Reject("PKTID_REPLAY")
       \/ /\ delta < extent /\ WireId(n) <= floor
          /\ Reject("PKTID_EXPIRE")
       \/ /\ delta >= extent
          /\ Reject("PKTID_BACKTRACK")

\* do_test_add() of the n-th packet
TestAdd(n) ==
    /\ idFloor' = IF now >= expire THEN idHigh ELSE idFloor
    /\ expire' = now + Expire
    /\ asked' = n
    /\ \/ WireId(n) = 0 /\ Reject("PKTID_INVALID")
       \/ InSequence(n)
       \/ Jump(n)
       \/ Leap(n)
       \/ Backtrack(n, idFloor')
    /\ UNCHANGED <<id, over, now>>

\* The network delivers any packet any number of times, or never.
Arrive == \E n \in Sent : TestAdd(n)

Tick ==
    /\ now < MaxTime
    /\ now' = now + 1
    /\ UNCHANGED <<id, over, recvVars>>

Next == Send \/ Arrive \/ Tick

Spec == Init /\ [][Next]_vars

-----------------------------------------------------------------------------
(* Properties *)

Verdict == {"none", "SUCCESS", "PKTID_INVALID", "PKTID_REPLAY", "PKTID_EXPIRE", "PKTID_BACKTRACK"}
TypeOK ==
    /\ id \in Nat /\ over \in BOOLEAN
    /\ now \in 0 .. MaxTime /\ expire \in Nat
    /\ base \in Slot /\ extent \in 0 .. Window
    /\ idHigh \in Nat /\ idFloor \in Nat
    /\ history \in [Slot -> BOOLEAN]
    /\ asked \in Nat /\ verdict \in Verdict
    /\ accepted \subseteq Nat \ {0}

\* The bitmap, wherever its base is and whatever it held before, says exactly
\* which of the last ids have been accepted, and nothing above them has.
WindowIsExact ==
    /\ extent = IF idHigh < Window THEN idHigh ELSE Window
    /\ idFloor <= idHigh
    /\ \A n \in accepted : n <= idHigh
    /\ \A d \in 0 .. extent - 1 : history[ReplayIndex(base, d)] <=> (idHigh - d) \in accepted

\* No two packets of a key go out with the same id, from which ciphers make
\* their nonce, nor with 0: at the end of the ids the sender throws.
IdsAreUnique ==
    \A m, n \in Sent : WireId(n) # 0 /\ (WireId(m) = WireId(n) => m = n)

\* packet_id_data.hpp:252: no packet is accepted more than once, in whatever
\* order and however often the network delivers it.
AcceptedOnce == [][\A n \in Sent : TestAdd(n) /\ verdict' = "SUCCESS" => n \notin accepted]_vars

\* Nor is one refused that the promise accepts.
Filter == INSTANCE ReplayFilter WITH
    accepted <- accepted,
    high <- idHigh,
    floor <- idFloor,
    last <- expire - Expire,
    asked <- WireId(asked),
    accepts <- verdict = "SUCCESS",
    Ids <- 0 .. MaxId,
    Times <- 0 .. MaxTime
ImplementsFilter == Filter!Spec
=============================================================================
