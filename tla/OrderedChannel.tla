--------------------------- MODULE OrderedChannel ---------------------------
(***************************************************************************)
(* What the reliability layer of the control channel promises to the two   *)
(* peers: in each direction, what one peer hands over is what the other    *)
(* one gets, in the same order, each message exactly once.  ProtoStack is  *)
(* shown to implement it.                                                  *)
(***************************************************************************)
EXTENDS Naturals, Sequences

CONSTANTS Client, Server, \* the two peers
          Msg             \* the messages a peer may hand over

VARIABLES sent,      \* sent[n]: what n has handed over so far
          delivered  \* delivered[n]: what n has been given so far

vars == <<sent, delivered>>

Node == {Client, Server}
Other(n) == IF n = Client THEN Server ELSE Client

Init == /\ sent = [n \in Node |-> <<>>]
        /\ delivered = [n \in Node |-> <<>>]

Send(n) == \E m \in Msg : /\ sent' = [sent EXCEPT ![n] = Append(@, m)]
                          /\ UNCHANGED delivered

Deliver(n) ==
    LET next == Len(delivered[n]) + 1 IN
    /\ next <= Len(sent[Other(n)])
    /\ delivered' = [delivered EXCEPT ![n] = Append(@, sent[Other(n)][next])]
    /\ UNCHANGED sent

Next == \E n \in Node : Send(n) \/ Deliver(n)

Safety == Init /\ [][Next]_vars

Spec == Safety /\ \A n \in Node : WF_vars(Deliver(n))
=============================================================================
