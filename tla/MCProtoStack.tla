---------------------------- MODULE MCProtoStack ----------------------------
(* ProtoStack on small instances. *)
EXTENDS ProtoStack, TLC

CONSTANTS c1, c2, c3, s1

\* The client's SSL object writes three packets: more than the window has room
\* for, behind the reset and without it.
ThreeAndNone == [n \in Node |-> IF n = Client THEN <<c1, c2, c3>> ELSE <<>>]
\* Each SSL object writes one packet.
OneEach == [n \in Node |-> IF n = Client THEN <<c1>> ELSE <<s1>>]
=============================================================================
