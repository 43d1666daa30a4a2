--------------------------- MODULE MCClientConnect ---------------------------
(* ClientConnect on small instances. *)
EXTENDS ClientConnect, TLC

Handled == AllCodes \ {"unhandled"}
==============================================================================
