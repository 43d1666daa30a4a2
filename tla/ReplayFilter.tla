---------------------------- MODULE ReplayFilter ----------------------------
(***************************************************************************)
(* What the receiver of numbered packets promises (the comment above       *)
(* PacketIDDataReceiveType, openvpn/crypto/packet_id_data.hpp:250): a      *)
(* packet is accepted unless it has been accepted before, is Window or     *)
(* more ids behind, or comes after a pause of Expire seconds that began    *)
(* with a higher id.  The filter remembers every id it has accepted.       *)
(***************************************************************************)
EXTENDS Integers

CONSTANTS Window, Expire, Ids, Times

VARIABLES
    accepted, \* the ids it has accepted
    high,     \* the greatest of them, or 0
    floor,    \* the greatest before the last pause
    last,     \* when the last packet came
    asked,    \* the id it had
    accepts   \* whether it was accepted

vars == <<accepted, high, floor, last, asked, accepts>>

Init ==
    /\ accepted = {}
    /\ high = 0 /\ floor = 0
    /\ last = -Expire
    /\ asked = 0
    /\ accepts = FALSE

Acceptable(id, above) ==
    /\ id # 0
    /\ id \notin accepted
    /\ id > high \/ (id > above /\ high - id < Window)

\* A packet comes.
Test(id, time) ==
    /\ floor' = IF time - last >= Expire THEN high ELSE floor
    /\ last' = time
    /\ asked' = id
    /\ accepts' = Acceptable(id, floor')
    /\ accepted' = IF accepts' THEN accepted \cup {id} ELSE accepted
    /\ high' = IF accepts' /\ id > high THEN id ELSE high

Next == \E id \in Ids, time \in Times : Test(id, time)

Spec == Init /\ [][Next]_vars
=============================================================================
