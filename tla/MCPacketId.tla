----------------------------- MODULE MCPacketId -----------------------------
(* PacketId on a small instance. *)
EXTENDS PacketId, TLC
=============================================================================
