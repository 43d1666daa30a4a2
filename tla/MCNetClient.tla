----------------------------- MODULE MCNetClient -----------------------------
(* NetClient on small instances. *)
EXTENDS NetClient, TLC

CONSTANTS main, task

\* Main of both examples: one RunNewConnection.
StartOnly == {RunNewConnection}
\* The handlers of the examples, or of one that reconnects.
InHandler == {<<"Show_stats">>, <<"Show_stats">> \o RunNewConnection, <<"Stop">>, <<"ReconnectVPN">>}
Nothing == {<<>>}
Never == {}
InClosed == {<<>>, RunNewConnection}
\* The commands of SingleConnection_Example.
StopStatsRestart == {<<"Stop">>, <<"Show_stats">>, <<"ReconnectVPN">>}
Both == {"CoreEventReceived", "ConnectionTimedOut"}
==============================================================================
