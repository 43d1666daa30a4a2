----------------------------- MODULE PacketQueue -----------------------------
(***************************************************************************)
(* What a ring of packets between two threads promises: the packets come   *)
(* out whole and in the order in which they went in, and none goes in once *)
(* it is closed.  WintunRing is shown to implement it in both directions.  *)
(***************************************************************************)
EXTENDS Sequences

CONSTANTS Packet, Nothing

VARIABLES queue, \* the packets that have gone in and not come out
          given, \* the last one that has come out, or Nothing
          open   \* the ring has not been closed

vars == <<queue, given, open>>

Init == queue = <<>> /\ given = Nothing /\ open = TRUE

Put == open /\ (\E p \in Packet : queue' = Append(queue, p)) /\ UNCHANGED <<given, open>>

Get ==
    /\ queue # <<>>
    /\ given' = Head(queue) /\ queue' = Tail(queue)
    /\ UNCHANGED open

Close == open' = FALSE /\ UNCHANGED <<queue, given>>

Spec == Init /\ [][Put \/ Get \/ Close]_vars
==============================================================================
