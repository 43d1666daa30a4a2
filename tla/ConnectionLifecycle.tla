------------------------ MODULE ConnectionLifecycle ------------------------
(***************************************************************************)
(* What OpenvpnNetClient.Client promises the application: one connection   *)
(* at a time.  A connection is opened, it is connected to the server and   *)
(* may lose the server and find it again, it is closed, and only then can  *)
(* the next one be opened.  NetClient is shown to implement it for         *)
(* applications that use it as the examples do.                            *)
(***************************************************************************)
VARIABLE phase

Init == phase = "closed"

Open      == phase = "closed" /\ phase' = "open"
Establish == phase = "open" /\ phase' = "connected"
Lose      == phase = "connected" /\ phase' = "open"
Close     == phase = "open" /\ phase' = "closed"

Next == Open \/ Establish \/ Lose \/ Close

Spec == Init /\ [][Next]_phase
=============================================================================
