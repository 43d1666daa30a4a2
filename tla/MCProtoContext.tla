--------------------------- MODULE MCProtoContext ---------------------------
(* ProtoContext on a small instance. *)
EXTENDS ProtoContext, TLC
=============================================================================
