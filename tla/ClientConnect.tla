--------------------------- MODULE ClientConnect ---------------------------
(***************************************************************************)
(* ClientConnect (openvpn/client/cliconnect.hpp): the object that runs one *)
(* ClientProto::Session after another until the connection is stopped.     *)
(*                                                                         *)
(* Everything runs in the handlers of one io_context, in the order they    *)
(* became ready.  A timer that expires, a packet that arrives, an answer   *)
(* of the resolver and a call posted by another thread each leave a        *)
(* handler in the queue; cancelling a timer does not take back a handler   *)
(* that is already there, which is what the generation is for.             *)
(*                                                                         *)
(* The session itself is the environment: of what it does only the calls   *)
(* it makes to ClientConnect are modelled.  The lifecycle object           *)
(* (ClientLifeCycle) is null, as it is on Windows.                         *)
(***************************************************************************)
EXTENDS Naturals, Sequences, FiniteSets

CONSTANTS
    Remotes,        \* number of entries of the remote list, one address each
    Generations,    \* number of values of generation: 2^32
    CacheEnabled,   \* RemoteList::enable_cache: remotes are resolved beforehand
    PollEnabled,    \* server_poll_timeout_enabled(): no HTTP proxy
    ConnTimeout,    \* conn_timeout > 0
    PauseOnTimeout, \* what pause_on_connection_timeout() answers
    Codes,          \* what fatal() of a session that ends asks for
    Calls,          \* the public methods other threads call
    MaxPosted,      \* bound: posted calls in the queue
    MaxQueue        \* bound: the queue to which calls, packets and answers are added;
                    \* the handlers of timers are added to any queue

AllCodes == {"restart", "restart_same", "relay", "stop", "unhandled"}
AllCalls == {"stop", "pause", "resume", "reconnect"}

ASSUME NumbersAreNat ==
    /\ Remotes \in Nat \ {0} /\ Generations \in Nat \ {0, 1}
    /\ MaxPosted \in Nat /\ MaxQueue \in Nat \ {0}
ASSUME OptionsAreBool ==
    /\ CacheEnabled \in BOOLEAN /\ PollEnabled \in BOOLEAN
    /\ ConnTimeout \in BOOLEAN /\ PauseOnTimeout \in BOOLEAN
ASSUME CodesAndCalls == Codes \subseteq AllCodes /\ Calls \subseteq AllCalls

VARIABLES
    halt,            \* stop() has been called
    paused,          \* pause() has, and resume() has not
    generation,      \* number of the session, modulo Generations
    client,          \* the session: [state, heard, reached, advance]
    clientFinalized, \* client_finalized
    tun,             \* what finalize() has done to the session's tun
    relay,           \* transport_factory_relay is not null
    remote,          \* the remote list's index
    asioWork,        \* asio_work keeps the io_context running
    bulk,            \* BulkResolve: "none", "resolving" or "idle"
    restartTimer,    \* restart_wait_timer: {} or {the generation it was armed in}
    pollTimer,       \* server_poll_timer: {} or {the generation it was armed in}
    connTimer,       \* conn_timer is armed
    connPending,     \* conn_timer_pending
    queue,           \* the handlers that are ready
    emitted          \* the last event about the course of the connection

vars == <<halt, paused, generation, client, clientFinalized, tun, relay, remote, asioWork,
          bulk, restartTimer, pollTimer, connTimer, connPending, queue, emitted>>
timers == <<restartTimer, pollTimer, connTimer, connPending>>
sessionVars == <<generation, client, clientFinalized, tun, relay, remote, asioWork>>

-----------------------------------------------------------------------------
Generation == 0 .. Generations - 1
Remote == 0 .. Remotes - 1
LiveStates == {"connecting", "talking", "authpending", "connected"}
Live == client.state \in LiveStates
Handler == [call : AllCalls \cup {"io", "poll", "restart", "conn", "resolved"}, gen : Generation]
Events == {"none", "Resolve", "Reconnecting", "Pause", "Resume", "Disconnected"}

Ready(call, gen) == queue' = Append(queue, [call |-> call, gen |-> gen])
Room == Len(queue) < MaxQueue
Queued(S) == {i \in DOMAIN queue : queue[i].call \in S}
Runs(call) == queue # <<>> /\ Head(queue).call = call /\ queue' = Tail(queue)

Init ==
    /\ halt = FALSE /\ paused = FALSE /\ generation = 0
    /\ client = [state |-> "none", heard |-> FALSE, reached |-> FALSE, advance |-> TRUE]
    /\ clientFinalized = FALSE /\ tun = "idle" /\ relay = FALSE /\ remote = 0
    /\ asioWork = FALSE /\ bulk = "none"
    /\ restartTimer = {} /\ pollTimer = {} /\ connTimer = FALSE /\ connPending = FALSE
    /\ queue = <<>> /\ emitted = "none"

-----------------------------------------------------------------------------
(* The methods, each for the handlers that call it. *)

CancelTimers ==
    restartTimer' = {} /\ pollTimer' = {} /\ connTimer' = FALSE /\ connPending' = FALSE

\* finalize(false), unless the session has been finalized.
FinalizedTun == IF clientFinalized THEN tun ELSE IF tun = "closed" THEN "closed twice" ELSE "closed"
InterimFinalize == clientFinalized' = TRUE /\ tun' = FinalizedTun

\* ++generation, which skips 0 when it overflows.
\* Mutant: it does not.
NextGenerationWraps == (generation + 1) % Generations
NextGeneration == LET g == (generation + 1) % Generations IN IF g = 0 THEN 1 ELSE g

\* client_options->next(): the entry after the one that failed.
\* Mutant: the length of the list is taken one too low.
NextRemoteTooSoon == IF client.advance THEN (remote + 1) % (Remotes - 1) ELSE remote
NextRemote == IF client.advance THEN (remote + 1) % Remotes ELSE remote

\* The session is stopped, and the next one is made and started; before is the
\* last event raised until then.
NewClient(before) ==
    LET g == NextGeneration
        again == g > 1 /\ ~relay
        closed == IF client.state = "none" THEN tun ELSE FinalizedTun
    IN  /\ generation' = g
        /\ asioWork' = FALSE
        /\ emitted' = IF again THEN "Reconnecting" ELSE before
        /\ remote' = IF again /\ ~client.reached THEN NextRemote ELSE remote
        /\ client' = [state |-> "connecting", heard |-> FALSE, reached |-> FALSE,
                       advance |-> TRUE]
        /\ clientFinalized' = FALSE
        /\ tun' = IF closed = "closed twice" THEN closed
                  ELSE IF closed = "open" THEN "left open" ELSE "open"
        /\ relay' = FALSE
        /\ restartTimer' = {}
        /\ pollTimer' = IF PollEnabled THEN {g} ELSE pollTimer
        /\ connTimer' = (connTimer \/ (ConnTimeout /\ ~connPending))
        /\ connPending' = (connPending \/ ConnTimeout)

\* stop(), when halt is not set.
StopConnection ==
    /\ halt' = TRUE
    /\ bulk' = IF bulk = "resolving" THEN "idle" ELSE bulk
    /\ client' = IF Live THEN [client EXCEPT !.state = "halted"] ELSE client
    /\ CancelTimers
    /\ asioWork' = FALSE
    /\ tun' = "closed"     \* finalize(true)
    /\ emitted' = "Disconnected"
    /\ UNCHANGED <<paused, generation, clientFinalized, relay, remote>>

\* Mutant: nothing keeps the io_context running.
PauseNoWork ==
    /\ paused' = TRUE
    /\ IF client.state = "none" THEN UNCHANGED <<client, clientFinalized, tun>>
       ELSE /\ client' = [client EXCEPT !.state = "halted"] /\ InterimFinalize
    /\ CancelTimers
    /\ emitted' = "Pause"
    /\ UNCHANGED <<halt, generation, relay, remote, bulk, asioWork>>

\* pause(), when neither halt nor paused is set.
PauseConnection ==
    /\ paused' = TRUE
    /\ IF client.state = "none" THEN UNCHANGED <<client, clientFinalized, tun>>
       ELSE /\ client' = [client EXCEPT !.state = "halted"] /\ InterimFinalize
    /\ CancelTimers
    /\ asioWork' = TRUE
    /\ emitted' = "Pause"
    /\ UNCHANGED <<halt, generation, relay, remote, bulk>>

\* resume(), when paused is set and halt is not.
ResumeConnection == paused' = FALSE /\ NewClient("Resume") /\ UNCHANGED <<halt, bulk>>

\* Mutant: client_finalized is not set.
QueueRestartTwice(next) ==
    /\ client' = next
    /\ tun' = FinalizedTun
    /\ pollTimer' = {}
    /\ restartTimer' = {generation}
    /\ UNCHANGED <<halt, paused, generation, clientFinalized, remote, asioWork, bulk, connTimer,
                   connPending, emitted>>

\* queue_restart() for the session that has just ended.
QueueRestart(next) ==
    /\ client' = next
    /\ InterimFinalize
    /\ pollTimer' = {}
    /\ restartTimer' = {generation}
    /\ UNCHANGED <<halt, paused, generation, remote, asioWork, bulk, connTimer, connPending,
                   emitted>>

-----------------------------------------------------------------------------
(* start(), called before the io_context runs. *)

Start ==
    /\ generation = 0 /\ emitted = "none"
    /\ \/ /\ CacheEnabled /\ bulk' = "resolving" /\ emitted' = "Resolve"
          /\ UNCHANGED <<sessionVars, timers>>
       \/ \* every remote is an address
          CacheEnabled /\ bulk' = "idle" /\ NewClient("Resolve")
       \/ ~CacheEnabled /\ bulk' = bulk /\ NewClient("none")
    /\ UNCHANGED <<halt, paused, queue>>

Started == generation # 0 \/ emitted # "none"

-----------------------------------------------------------------------------
(* What becomes ready. *)

\* thread_safe_stop(), thread_safe_pause()...: halt is read in the calling thread.
Post ==
    /\ Started /\ ~halt /\ Room
    /\ Cardinality(Queued(AllCalls)) < MaxPosted
    /\ \E call \in Calls : Ready(call, 0)
    /\ UNCHANGED <<halt, paused, sessionVars, timers, bulk, emitted>>

RestartExpires ==
    /\ \E g \in restartTimer : Ready("restart", g)
    /\ restartTimer' = {}
    /\ UNCHANGED <<halt, paused, sessionVars, pollTimer, connTimer, connPending, bulk, emitted>>

PollExpires ==
    /\ \E g \in pollTimer : Ready("poll", g)
    /\ pollTimer' = {}
    /\ UNCHANGED <<halt, paused, sessionVars, restartTimer, connTimer, connPending, bulk, emitted>>

ConnExpires ==
    /\ connTimer /\ Ready("conn", 0)
    /\ connTimer' = FALSE
    /\ UNCHANGED <<halt, paused, sessionVars, restartTimer, pollTimer, connPending, bulk, emitted>>

ResolverAnswers ==
    /\ bulk = "resolving" /\ Queued({"resolved"}) = {} /\ Room /\ Ready("resolved", 0)
    /\ UNCHANGED <<halt, paused, sessionVars, timers, bulk, emitted>>

\* A packet, or a timer of the session.
SessionReady ==
    /\ Live /\ Room /\ ~\E i \in DOMAIN queue : queue[i] = [call |-> "io", gen |-> generation]
    /\ Ready("io", generation)
    /\ UNCHANGED <<halt, paused, sessionVars, timers, bulk, emitted>>

-----------------------------------------------------------------------------
(* The handlers. *)

NoEffect == UNCHANGED <<halt, paused, sessionVars, timers, bulk, emitted>>

GracefulStop == Runs("stop") /\ IF halt THEN NoEffect ELSE StopConnection

\* Mutant: halt is not looked at.
PauseStopped == Runs("pause") /\ IF paused THEN NoEffect ELSE PauseConnection

Pause == Runs("pause") /\ IF halt \/ paused THEN NoEffect ELSE PauseConnection

Resume == Runs("resume") /\ IF halt \/ ~paused THEN NoEffect ELSE ResumeConnection

\* Mutant: the timer is armed for the generation to come.
ReconnectNextGeneration ==
    /\ Runs("reconnect")
    /\ IF halt THEN NoEffect
       ELSE /\ pollTimer' = {} /\ restartTimer' = {NextGeneration}
            /\ UNCHANGED <<halt, paused, sessionVars, connTimer, connPending, bulk, emitted>>

Reconnect ==
    /\ Runs("reconnect")
    /\ IF halt THEN NoEffect
       ELSE /\ pollTimer' = {} /\ restartTimer' = {generation}
            /\ UNCHANGED <<halt, paused, sessionVars, connTimer, connPending, bulk, emitted>>

RestartWait ==
    /\ Runs("restart")
    /\ IF Head(queue).gen # generation \/ halt THEN NoEffect
       ELSE IF paused THEN ResumeConnection
       ELSE NewClient(emitted) /\ UNCHANGED <<halt, paused, bulk>>

ServerPoll ==
    /\ Runs("poll")
    /\ IF Head(queue).gen = generation /\ ~halt /\ ~client.heard
       THEN NewClient(emitted) /\ UNCHANGED <<halt, paused, bulk>>
       ELSE NoEffect

ConnectionTimer ==
    /\ Runs("conn")
    /\ IF halt THEN NoEffect
       ELSE IF ~paused /\ PauseOnTimeout THEN PauseConnection
       ELSE StopConnection

BulkResolveDone ==
    /\ Runs("resolved")
    /\ IF bulk # "resolving" THEN NoEffect
       ELSE /\ bulk' = "idle"
            /\ IF ~halt /\ generation = 0 THEN NewClient(emitted)
               ELSE UNCHANGED <<sessionVars, timers, emitted>>
            /\ UNCHANGED <<halt, paused>>

-----------------------------------------------------------------------------
(* The session's handler, and the calls it makes. *)

FirstPacket ==
    /\ client.state = "connecting"
    /\ client' = [client EXCEPT !.state = "talking", !.heard = TRUE]
    /\ UNCHANGED <<halt, paused, generation, clientFinalized, tun, relay, remote, asioWork, timers,
                   bulk, emitted>>

\* The server asks for more time: the timer is armed again.
AuthPendingTimeout ==
    /\ client.state = "talking"
    /\ client' = [client EXCEPT !.state = "authpending"]
    /\ connTimer' = (connTimer \/ connPending)
    /\ UNCHANGED <<halt, paused, generation, clientFinalized, tun, relay, remote, asioWork,
                   restartTimer, pollTimer, connPending, bulk, emitted>>

ProtoConnected ==
    /\ client.state \in {"talking", "authpending"}
    /\ client' = [client EXCEPT !.state = "connected", !.reached = TRUE]
    /\ connTimer' = FALSE /\ connPending' = FALSE
    /\ UNCHANGED <<halt, paused, generation, clientFinalized, tun, relay, remote, asioWork,
                   restartTimer, pollTimer, bulk, emitted>>

\* The remotes whose addresses are out of date are resolved again.
Renegotiated ==
    /\ client.state = "connected"
    /\ bulk' \in (IF bulk = "idle" THEN {"idle", "resolving"} ELSE {bulk})
    /\ UNCHANGED <<halt, paused, sessionVars, timers, emitted>>

Terminate(code) ==
    LET next == [client EXCEPT !.state = "halted", !.advance = (code # "restart_same")]
    IN  \/ code \in {"restart", "restart_same"} /\ QueueRestart(next) /\ relay' = relay
        \/ code = "relay" /\ QueueRestart(next) /\ relay' = TRUE
        \/ code = "stop" /\ StopConnection
        \/ \* the switch throws, and process_exception() finds the session halted
           /\ code = "unhandled" /\ client.state = "connected"
           /\ client' = next
           /\ UNCHANGED <<halt, paused, generation, clientFinalized, tun, relay, remote, asioWork,
                          timers, bulk, emitted>>

Session ==
    /\ Runs("io")
    /\ IF ~Live \/ Head(queue).gen # generation THEN NoEffect
       ELSE \/ FirstPacket \/ AuthPendingTimeout \/ ProtoConnected \/ Renegotiated
            \/ \E code \in Codes : Terminate(code)

Handle ==
    \/ GracefulStop \/ Pause \/ Resume \/ Reconnect \/ RestartWait \/ ServerPoll
    \/ ConnectionTimer \/ BulkResolveDone \/ Session
Next ==
    \/ Start \/ Post \/ RestartExpires \/ PollExpires \/ ConnExpires \/ ResolverAnswers
    \/ SessionReady \/ Handle

Safety == Init /\ [][Next]_vars
Spec ==
    /\ Safety
    /\ WF_vars(Start) /\ WF_vars(Handle)
    /\ WF_vars(RestartExpires) /\ WF_vars(PollExpires)

-----------------------------------------------------------------------------
(* Properties. *)

TypeOK ==
    /\ halt \in BOOLEAN /\ paused \in BOOLEAN /\ generation \in Generation
    /\ client \in [state : {"none", "halted"} \cup LiveStates,
                   heard : BOOLEAN, reached : BOOLEAN, advance : BOOLEAN]
    /\ clientFinalized \in BOOLEAN /\ tun \in {"idle", "open", "closed", "closed twice", "left open"}
    /\ relay \in BOOLEAN /\ remote \in Remote /\ asioWork \in BOOLEAN
    /\ bulk \in {"none", "idle", "resolving"}
    /\ restartTimer \subseteq Generation /\ pollTimer \subseteq Generation
    /\ connTimer \in BOOLEAN /\ connPending \in BOOLEAN
    /\ queue \in Seq(Handler)
    /\ emitted \in Events

\* Until it is stopped, a connection that has no live session has something that
\* will start one: the restart timer or its handler, of this generation, or the
\* first resolution; or it is paused, and the io_context has work to wait with.
RestartComes ==
    \/ restartTimer = {generation}
    \/ \E i \in DOMAIN queue : queue[i] = [call |-> "restart", gen |-> generation]
NeverStranded ==
    Started /\ ~halt =>
        Live \/ RestartComes \/ (paused /\ asioWork) \/ (generation = 0 /\ bulk = "resolving")

\* The tun of every session is finalized once, after the session has stopped and
\* before the next one starts, however the two came about.
FinalizedOnce == tun \notin {"closed twice", "left open"} /\ (Live => tun = "open")

\* After Disconnected no event is raised and no session is alive, whatever
\* handlers were in the queue when the connection was stopped.
DisconnectedIsLast == halt => emitted = "Disconnected" /\ ~Live /\ ~asioWork

\* Resolving the remotes again, when a session renegotiates, never replaces the
\* session; nor does the answer to the first resolution when a session was
\* started meanwhile.
ResolvingKeepsSession ==
    [][ bulk = "resolving" /\ bulk' = "idle" /\ client.state # "none" /\ ~halt'
        => UNCHANGED <<client, generation>> ]_vars

\* A call of reconnect() that was posted replaces the session, unless the
\* connection is stopped or paused first.
ReconnectHappens ==
    \A g \in Generation :
        (Queued({"reconnect"}) # {} /\ generation = g) ~> (generation # g \/ halt \/ paused)

\* While no server answers and nobody interferes, every remote is tried again
\* and again.
TriesEveryRemote ==
    <>[](~halt /\ ~paused /\ client.state \in {"connecting", "halted"} /\ client.advance /\ ~relay)
        => \A r \in Remote : []<>(remote = r)
=============================================================================
