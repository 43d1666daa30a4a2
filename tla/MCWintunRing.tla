----------------------------- MODULE MCWintunRing -----------------------------
(* WintunRing on small instances. *)
EXTENDS WintunRing, TLC

CONSTANTS p1, p2

\* A packet of two units and one of three, header included.
SmallAndLarge == p1 :> 1 @@ p2 :> 3
===============================================================================
