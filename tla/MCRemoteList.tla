---------------------------- MODULE MCRemoteList ----------------------------
(***************************************************************************)
(* RemoteList with two hosts: lookups of h1 fail, h2 has a server over UDP *)
(* and one over TCP.                                                       *)
(***************************************************************************)
EXTENDS RemoteList, TLC

CONSTANTS e1, e2, e3, e4, h1, h2, a1, a2, a3

\* The entry that is pruned is the first, the last or both.
MCProfile == <<e1, e2, e3, e4>>
MCHostOf == e1 :> h1 @@ e2 :> h2 @@ e3 :> h2 @@ e4 :> h1
\* a2 is of a family that the transport of e3 cannot use.
MCCompatible == e1 :> {a1} @@ e2 :> {a1, a2, a3} @@ e3 :> {a1, a3} @@ e4 :> {a1}
\* h2 has two addresses, one of which changes.
MCAnswers == h1 :> {Failed} @@ h2 :> {<<a1, a2>>, <<a2, a3>>}
\* A name server that fails now and then.
FlakyProfile == <<e1, e2>>
FlakyAnswers == h1 :> {Failed, <<a1>>} @@ h2 :> {<<a2>>}
=============================================================================
