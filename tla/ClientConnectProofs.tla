------------------------- MODULE ClientConnectProofs -------------------------
(***************************************************************************)
(* Proofs about ClientConnect for every value of its constants: any number *)
(* of remotes and of generations, any options, any bounds on the queue.    *)
(***************************************************************************)
EXTENDS ClientConnect, TLAPS

USE NumbersAreNat, OptionsAreBool, CodesAndCalls

-----------------------------------------------------------------------------
(* Type correctness *)

LEMMA GenerationType ==
    ASSUME generation \in Generation
    PROVE  NextGeneration \in Generation /\ NextGeneration # 0 /\ 0 \in Generation
BY DEF NextGeneration, Generation

LEMMA RemoteType ==
    ASSUME remote \in Remote
    PROVE  NextRemote \in Remote
BY DEF NextRemote, Remote

\* What TypeOK says of the variables that NewClient, StopConnection and
\* PauseConnection assign.
SessionTypeOK ==
    /\ generation \in Generation
    /\ client \in [state : {"none", "halted"} \cup LiveStates,
                   heard : BOOLEAN, reached : BOOLEAN, advance : BOOLEAN]
    /\ clientFinalized \in BOOLEAN /\ tun \in {"idle", "open", "closed", "closed twice", "left open"}
    /\ relay \in BOOLEAN /\ remote \in Remote /\ asioWork \in BOOLEAN
TimersTypeOK ==
    /\ restartTimer \subseteq Generation /\ pollTimer \subseteq Generation
    /\ connTimer \in BOOLEAN /\ connPending \in BOOLEAN
FlagsTypeOK ==
    /\ halt \in BOOLEAN /\ paused \in BOOLEAN /\ bulk \in {"none", "idle", "resolving"}
    /\ emitted \in Events

LEMMA TypeParts == TypeOK <=> SessionTypeOK /\ TimersTypeOK /\ FlagsTypeOK /\ queue \in Seq(Handler)
BY DEF TypeOK, SessionTypeOK, TimersTypeOK, FlagsTypeOK

LEMMA NewClientType ==
    ASSUME TypeOK, NEW before \in Events, NewClient(before)
    PROVE  SessionTypeOK' /\ TimersTypeOK' /\ emitted' \in Events
<1>1. /\ generation' \in Generation /\ remote' \in Remote
      /\ restartTimer' \subseteq Generation /\ pollTimer' \subseteq Generation
    BY GenerationType, RemoteType DEF TypeOK, NewClient
<1>2. connTimer' \in BOOLEAN /\ connPending' \in BOOLEAN
    BY DEF TypeOK, NewClient
<1>3. emitted' \in Events
    BY DEF TypeOK, NewClient, Events
<1>4. tun' \in {"idle", "open", "closed", "closed twice", "left open"}
    BY DEF TypeOK, NewClient, FinalizedTun
<1>5. /\ client' \in [state : {"none", "halted"} \cup LiveStates,
                      heard : BOOLEAN, reached : BOOLEAN, advance : BOOLEAN]
      /\ clientFinalized' \in BOOLEAN /\ relay' \in BOOLEAN /\ asioWork' \in BOOLEAN
    BY DEF TypeOK, NewClient, LiveStates
<1>6. QED
    BY <1>1, <1>2, <1>3, <1>4, <1>5 DEF SessionTypeOK, TimersTypeOK

LEMMA StopType ==
    ASSUME TypeOK, StopConnection
    PROVE  SessionTypeOK' /\ TimersTypeOK' /\ FlagsTypeOK'
BY DEF TypeOK, StopConnection, CancelTimers, SessionTypeOK, TimersTypeOK, FlagsTypeOK, Events, LiveStates

LEMMA PauseType ==
    ASSUME TypeOK, PauseConnection
    PROVE  SessionTypeOK' /\ TimersTypeOK' /\ FlagsTypeOK'
BY DEF TypeOK, PauseConnection, InterimFinalize, FinalizedTun, CancelTimers, SessionTypeOK,
       TimersTypeOK, FlagsTypeOK, Events, LiveStates

LEMMA ResumeType ==
    ASSUME TypeOK, ResumeConnection
    PROVE  SessionTypeOK' /\ TimersTypeOK' /\ FlagsTypeOK'
<1>1. "Resume" \in Events
    BY DEF Events
<1>2. QED
    BY <1>1, NewClientType DEF ResumeConnection, TypeOK, FlagsTypeOK

LEMMA NoEffectType ==
    ASSUME TypeOK, NoEffect
    PROVE  SessionTypeOK' /\ TimersTypeOK' /\ FlagsTypeOK'
<1>1. UNCHANGED sessionVars /\ UNCHANGED timers
      /\ UNCHANGED <<halt, paused, bulk, emitted>>
    BY DEF NoEffect
<1>2. SessionTypeOK'
    BY <1>1 DEF TypeOK, SessionTypeOK, sessionVars
<1>3. TimersTypeOK'
    BY <1>1 DEF TypeOK, TimersTypeOK, timers
<1>4. FlagsTypeOK'
    BY <1>1 DEF TypeOK, FlagsTypeOK
<1>5. QED
    BY <1>2, <1>3, <1>4

LEMMA RunsType ==
    ASSUME queue \in Seq(Handler), NEW call, Runs(call)
    PROVE  queue' \in Seq(Handler)
BY DEF Runs

\* The calls of the session leave every variable but the queue in its type.
LEMMA SessionCallType ==
    ASSUME TypeOK,
           \/ FirstPacket \/ AuthPendingTimeout \/ ProtoConnected \/ Renegotiated
           \/ \E code \in Codes : Terminate(code)
    PROVE  SessionTypeOK' /\ TimersTypeOK' /\ FlagsTypeOK'
<1>1. CASE FirstPacket
    <2>1. /\ client' = [client EXCEPT !.state = "talking", !.heard = TRUE]
          /\ UNCHANGED timers /\ UNCHANGED <<halt, paused, bulk, emitted>>
          /\ UNCHANGED <<generation, clientFinalized, tun, relay, remote, asioWork>>
        BY <1>1 DEF FirstPacket
    <2>2. SessionTypeOK'
        BY <2>1 DEF TypeOK, SessionTypeOK, LiveStates
    <2>3. TimersTypeOK'
        BY <2>1 DEF TypeOK, TimersTypeOK, timers
    <2>4. FlagsTypeOK'
        BY <2>1 DEF TypeOK, FlagsTypeOK
    <2>5. QED
        BY <2>2, <2>3, <2>4
<1>2. CASE AuthPendingTimeout
    BY <1>2 DEF AuthPendingTimeout, TypeOK, SessionTypeOK, TimersTypeOK, FlagsTypeOK, LiveStates
<1>3. CASE ProtoConnected
    BY <1>3 DEF ProtoConnected, TypeOK, SessionTypeOK, TimersTypeOK, FlagsTypeOK, LiveStates
<1>4. CASE Renegotiated
    <2>1. UNCHANGED sessionVars /\ UNCHANGED timers /\ UNCHANGED <<halt, paused, emitted>>
        BY <1>4 DEF Renegotiated
    <2>2. bulk' \in {"none", "idle", "resolving"}
        BY <1>4 DEF Renegotiated, TypeOK
    <2>3. SessionTypeOK'
        BY <2>1 DEF TypeOK, SessionTypeOK, sessionVars
    <2>4. TimersTypeOK' /\ FlagsTypeOK'
        BY <2>1, <2>2 DEF TypeOK, TimersTypeOK, FlagsTypeOK, timers
    <2>5. QED
        BY <2>3, <2>4
<1>5. CASE \E code \in Codes : Terminate(code)
    <2>1. PICK code \in Codes : Terminate(code)
        BY <1>5
    <2> DEFINE next == [client EXCEPT !.state = "halted", !.advance = (code # "restart_same")]
    <2>2. next \in [state : {"none", "halted"} \cup LiveStates,
                    heard : BOOLEAN, reached : BOOLEAN, advance : BOOLEAN]
        BY DEF TypeOK
    <2>3. CASE QueueRestart(next) /\ relay' \in BOOLEAN
        <3> HIDE DEF next
        <3>1. tun' \in {"idle", "open", "closed", "closed twice", "left open"} /\ clientFinalized' = TRUE
            BY <2>3 DEF QueueRestart, InterimFinalize, FinalizedTun, TypeOK
        <3>2. SessionTypeOK'
            BY <2>2, <2>3, <3>1 DEF QueueRestart, TypeOK, SessionTypeOK
        <3>3. TimersTypeOK'
            BY <2>3 DEF QueueRestart, TypeOK, TimersTypeOK
        <3>4. FlagsTypeOK'
            BY <2>3 DEF QueueRestart, TypeOK, FlagsTypeOK
        <3>5. QED
            BY <3>2, <3>3, <3>4
    <2>4. CASE StopConnection
        BY <2>4, StopType
    <2>5. CASE /\ client' = next
               /\ UNCHANGED <<halt, paused, generation, clientFinalized, tun, relay, remote, asioWork,
                              timers, bulk, emitted>>
        <3> HIDE DEF next
        <3>1. UNCHANGED timers
            BY <2>5
        <3>2. SessionTypeOK'
            BY <2>2, <2>5 DEF TypeOK, SessionTypeOK
        <3>3. TimersTypeOK'
            BY <3>1 DEF TypeOK, TimersTypeOK, timers
        <3>4. FlagsTypeOK'
            BY <2>5 DEF TypeOK, FlagsTypeOK
        <3>5. QED
            BY <3>2, <3>3, <3>4
    <2> HIDE DEF next
    <2>6. \/ QueueRestart(next) /\ relay' \in BOOLEAN
          \/ StopConnection
          \/ /\ client' = next
             /\ UNCHANGED <<halt, paused, generation, clientFinalized, tun, relay, remote, asioWork,
                            timers, bulk, emitted>>
        BY <2>1 DEF Terminate, next, TypeOK
    <2>7. QED
        BY <2>3, <2>4, <2>5, <2>6
<1>6. QED
    BY <1>1, <1>2, <1>3, <1>4, <1>5

\* A handler leaves every variable but the queue in its type.
LEMMA HandleType ==
    ASSUME TypeOK, Handle
    PROVE  SessionTypeOK' /\ TimersTypeOK' /\ FlagsTypeOK'
<1>1. CASE GracefulStop
    BY <1>1, StopType, NoEffectType DEF GracefulStop
<1>2. CASE Pause
    BY <1>2, PauseType, NoEffectType DEF Pause
<1>3. CASE Resume
    BY <1>3, ResumeType, NoEffectType DEF Resume
<1>4. CASE Reconnect
    <2>1. CASE halt
        BY <1>4, <2>1, NoEffectType DEF Reconnect
    <2>2. CASE ~halt
        <3>1. /\ pollTimer' = {} /\ restartTimer' = {generation}
              /\ UNCHANGED sessionVars
              /\ UNCHANGED <<halt, paused, connTimer, connPending, bulk, emitted>>
            BY <1>4, <2>2 DEF Reconnect
        <3>2. SessionTypeOK'
            BY <3>1 DEF TypeOK, SessionTypeOK, sessionVars
        <3>3. TimersTypeOK' /\ FlagsTypeOK'
            BY <3>1 DEF TypeOK, TimersTypeOK, FlagsTypeOK
        <3>4. QED
            BY <3>2, <3>3
    <2>3. QED
        BY <2>1, <2>2
<1>5. CASE RestartWait
    <2>1. emitted \in Events
        BY DEF TypeOK
    <2>2. \/ NoEffect \/ ResumeConnection
          \/ NewClient(emitted) /\ UNCHANGED <<halt, paused, bulk>>
        BY <1>5 DEF RestartWait
    <2>3. QED
        BY <2>1, <2>2, NoEffectType, ResumeType, NewClientType DEF TypeOK, FlagsTypeOK
<1>6. CASE ServerPoll
    <2>1. emitted \in Events
        BY DEF TypeOK
    <2>2. NoEffect \/ (NewClient(emitted) /\ UNCHANGED <<halt, paused, bulk>>)
        BY <1>6 DEF ServerPoll
    <2>3. QED
        BY <2>1, <2>2, NoEffectType, NewClientType DEF TypeOK, FlagsTypeOK
<1>7. CASE ConnectionTimer
    BY <1>7, StopType, PauseType, NoEffectType DEF ConnectionTimer
<1>8. CASE BulkResolveDone
    <2>1. emitted \in Events
        BY DEF TypeOK
    <2>2. CASE NoEffect
        BY <2>2, NoEffectType
    <2>3. CASE bulk' = "idle" /\ NewClient(emitted) /\ UNCHANGED <<halt, paused>>
        BY <2>1, <2>3, NewClientType DEF TypeOK, FlagsTypeOK
    <2>4. CASE /\ bulk' = "idle" /\ UNCHANGED sessionVars /\ UNCHANGED timers
               /\ UNCHANGED <<halt, paused, emitted>>
        <3>1. SessionTypeOK'
            BY <2>4 DEF TypeOK, SessionTypeOK, sessionVars
        <3>2. TimersTypeOK' /\ FlagsTypeOK'
            BY <2>4 DEF TypeOK, TimersTypeOK, FlagsTypeOK, timers
        <3>3. QED
            BY <3>1, <3>2
    <2>5. QED
        BY <1>8, <2>2, <2>3, <2>4 DEF BulkResolveDone
<1>9. CASE Session
    BY <1>9, SessionCallType, NoEffectType DEF Session
<1>10. QED
    BY <1>1, <1>2, <1>3, <1>4, <1>5, <1>6, <1>7, <1>8, <1>9 DEF Handle

\* A handler becomes ready.
LEMMA ArrivalReady ==
    ASSUME TypeOK,
           Post \/ RestartExpires \/ PollExpires \/ ConnExpires \/ ResolverAnswers \/ SessionReady
    PROVE  \E e \in Handler : queue' = Append(queue, e)
<1>1. 0 \in Generation /\ generation \in Generation
    BY GenerationType DEF TypeOK
<1>2. \E call \in AllCalls \cup {"io", "poll", "restart", "conn", "resolved"}, gen \in Generation :
          Ready(call, gen)
    <2>1. CASE Post
        BY <2>1, <1>1 DEF Post
    <2>2. CASE RestartExpires
        BY <2>2 DEF RestartExpires, TypeOK
    <2>3. CASE PollExpires
        BY <2>3 DEF PollExpires, TypeOK
    <2>4. CASE ConnExpires
        BY <2>4, <1>1 DEF ConnExpires
    <2>5. CASE ResolverAnswers
        BY <2>5, <1>1 DEF ResolverAnswers
    <2>6. CASE SessionReady
        BY <2>6, <1>1 DEF SessionReady
    <2>7. QED
        BY <2>1, <2>2, <2>3, <2>4, <2>5, <2>6
<1>3. QED
    BY <1>2 DEF Ready, Handler

\* What becomes ready is a handler, and nothing else changes but the timer.
LEMMA ArrivalType ==
    ASSUME TypeOK,
           Post \/ RestartExpires \/ PollExpires \/ ConnExpires \/ ResolverAnswers \/ SessionReady
    PROVE  SessionTypeOK' /\ TimersTypeOK' /\ FlagsTypeOK' /\ queue' \in Seq(Handler)
<1>1. UNCHANGED sessionVars /\ UNCHANGED <<halt, paused, bulk, emitted>>
    BY DEF Post, RestartExpires, PollExpires, ConnExpires, ResolverAnswers, SessionReady
<1>2. SessionTypeOK' /\ FlagsTypeOK'
    <2>1. SessionTypeOK'
        BY <1>1 DEF TypeOK, SessionTypeOK, sessionVars
    <2>2. FlagsTypeOK'
        BY <1>1 DEF TypeOK, FlagsTypeOK
    <2>3. QED
        BY <2>1, <2>2
<1>3. TimersTypeOK'
    BY DEF TypeOK, TimersTypeOK, timers, Post, RestartExpires, PollExpires, ConnExpires,
       ResolverAnswers, SessionReady
<1>4. queue' \in Seq(Handler)
    <2>1. PICK e \in Handler : queue' = Append(queue, e)
        BY ArrivalReady
    <2>2. queue \in Seq(Handler)
        BY DEF TypeOK
    <2>3. QED
        BY <2>1, <2>2
<1>5. QED
    BY <1>2, <1>3, <1>4

LEMMA StartType ==
    ASSUME TypeOK, Start
    PROVE  SessionTypeOK' /\ TimersTypeOK' /\ FlagsTypeOK' /\ queue' = queue
<1>1. "none" \in Events /\ "Resolve" \in Events
    BY DEF Events
<1>2. UNCHANGED <<halt, paused, queue>>
    BY DEF Start
<1>3. CASE bulk' = "resolving" /\ emitted' = "Resolve" /\ UNCHANGED sessionVars /\ UNCHANGED timers
    <2>1. SessionTypeOK'
        BY <1>3 DEF TypeOK, SessionTypeOK, sessionVars
    <2>2. TimersTypeOK' /\ FlagsTypeOK'
        BY <1>1, <1>2, <1>3 DEF TypeOK, TimersTypeOK, FlagsTypeOK, timers
    <2>3. QED
        BY <2>1, <2>2, <1>2
<1>4. CASE bulk' \in {"idle", bulk} /\ (NewClient("Resolve") \/ NewClient("none"))
    BY <1>1, <1>2, <1>4, NewClientType DEF TypeOK, FlagsTypeOK
<1>5. QED
    BY <1>3, <1>4 DEF Start

LEMMA TypeInit == Init => TypeOK
<1> SUFFICES ASSUME Init
             PROVE  TypeOK
    OBVIOUS
<1>1. SessionTypeOK
    <2>1. generation \in Generation /\ remote \in Remote
        BY DEF Init, Generation, Remote
    <2>2. QED
        BY <2>1 DEF Init, SessionTypeOK
<1>2. TimersTypeOK
    BY DEF Init, TimersTypeOK
<1>3. FlagsTypeOK
    BY DEF Init, FlagsTypeOK, Events
<1>4. queue \in Seq(Handler)
    BY DEF Init
<1>5. QED
    BY <1>1, <1>2, <1>3, <1>4, TypeParts

LEMMA TypeNext == TypeOK /\ [Next]_vars => TypeOK'
<1> SUFFICES ASSUME TypeOK, [Next]_vars
             PROVE  TypeOK'
    OBVIOUS
<1>1. CASE Start
    BY <1>1, StartType, TypeParts DEF TypeOK, SessionTypeOK, TimersTypeOK, FlagsTypeOK
<1>2. CASE Post \/ RestartExpires \/ PollExpires \/ ConnExpires \/ ResolverAnswers \/ SessionReady
    BY <1>2, ArrivalType DEF TypeOK, SessionTypeOK, TimersTypeOK, FlagsTypeOK
<1>3. CASE Handle
    <2>1. \E call : Runs(call)
        BY <1>3 DEF Handle, GracefulStop, Pause, Resume, Reconnect, RestartWait, ServerPoll,
           ConnectionTimer, BulkResolveDone, Session
    <2>2. queue' \in Seq(Handler)
        BY <2>1, RunsType DEF TypeOK
    <2>3. QED
        BY <1>3, <2>2, HandleType DEF TypeOK, SessionTypeOK, TimersTypeOK, FlagsTypeOK
<1>4. CASE UNCHANGED vars
    <2>1. NoEffect /\ queue' = queue
        BY <1>4 DEF vars, NoEffect, sessionVars, timers
    <2>2. QED
        BY <2>1, NoEffectType DEF TypeOK, SessionTypeOK, TimersTypeOK, FlagsTypeOK
<1>5. QED
    BY <1>1, <1>2, <1>3, <1>4 DEF Next

\* ClientConnect's variables keep their types, for any options, any number of
\* remotes and however the generation wraps.
THEOREM TypeCorrect == Safety => []TypeOK
BY TypeInit, TypeNext, PTL DEF Safety

-----------------------------------------------------------------------------
(* What a handler may do, whichever it is *)

SessionCall ==
    \/ FirstPacket \/ AuthPendingTimeout \/ ProtoConnected \/ Renegotiated
    \/ \E code \in Codes : Terminate(code)

\* reconnect() arms the restart timer.
Rearmed ==
    /\ restartTimer' = {generation}
    /\ UNCHANGED sessionVars /\ UNCHANGED <<halt, paused, bulk, emitted>>

\* A resolution ends that does not start a session.
Resolved ==
    /\ Runs("resolved") /\ (halt \/ generation # 0)
    /\ UNCHANGED sessionVars /\ UNCHANGED timers /\ UNCHANGED <<halt, paused, emitted>>

\* The handler at the head is not the one that would start the next session.
NotTheRestart == halt \/ \E call : Runs(call) /\ (call # "restart" \/ Head(queue).gen # generation)

LEMMA HandleCases ==
    ASSUME Handle
    PROVE  \/ NoEffect /\ NotTheRestart
           \/ ~halt /\ StopConnection
           \/ ~halt /\ PauseConnection
           \/ ~halt /\ (NewClient("Resume") \/ NewClient(emitted)) /\ UNCHANGED halt
           \/ ~halt /\ Rearmed
           \/ Resolved
           \/ Live /\ SessionCall
<1>1. CASE GracefulStop
    BY <1>1 DEF GracefulStop, NotTheRestart
<1>2. CASE Pause
    BY <1>2 DEF Pause, NotTheRestart
<1>3. CASE Resume
    BY <1>3 DEF Resume, ResumeConnection, NotTheRestart
<1>4. CASE Reconnect
    <2>1. CASE halt
        BY <1>4, <2>1 DEF Reconnect, NotTheRestart
    <2>2. CASE ~halt
        BY <1>4, <2>2 DEF Reconnect, Rearmed
    <2>3. QED
        BY <2>1, <2>2
<1>5. CASE RestartWait
    BY <1>5 DEF RestartWait, ResumeConnection, NotTheRestart
<1>6. CASE ServerPoll
    BY <1>6 DEF ServerPoll, NotTheRestart
<1>7. CASE ConnectionTimer
    BY <1>7 DEF ConnectionTimer, NotTheRestart
<1>8. CASE BulkResolveDone
    <2>1. CASE bulk # "resolving"
        BY <1>8, <2>1 DEF BulkResolveDone, NotTheRestart
    <2>2. CASE bulk = "resolving" /\ ~halt /\ generation = 0
        BY <1>8, <2>2 DEF BulkResolveDone
    <2>3. CASE bulk = "resolving" /\ ~(~halt /\ generation = 0)
        BY <1>8, <2>3 DEF BulkResolveDone, Resolved
    <2>4. QED
        BY <2>1, <2>2, <2>3
<1>9. CASE Session
    <2>1. CASE ~Live \/ Head(queue).gen # generation
        BY <1>9, <2>1 DEF Session, NotTheRestart
    <2>2. CASE Live /\ Head(queue).gen = generation
        BY <1>9, <2>2 DEF Session, SessionCall
    <2>3. QED
        BY <2>1, <2>2
<1>10. QED
    BY <1>1, <1>2, <1>3, <1>4, <1>5, <1>6, <1>7, <1>8, <1>9 DEF Handle

\* What becomes ready leaves the session and the flags as they are.
LEMMA ArrivalEffect ==
    ASSUME Post \/ RestartExpires \/ PollExpires \/ ConnExpires \/ ResolverAnswers \/ SessionReady
    PROVE  UNCHANGED sessionVars /\ UNCHANGED <<halt, paused, bulk, emitted>>
BY DEF Post, RestartExpires, PollExpires, ConnExpires, ResolverAnswers, SessionReady

-----------------------------------------------------------------------------
(* Nothing follows Disconnected *)

LEMMA DisconnectedInit == Init => DisconnectedIsLast
BY DEF Init, DisconnectedIsLast

LEMMA StopDisconnects ==
    ASSUME StopConnection
    PROVE  halt' /\ emitted' = "Disconnected" /\ ~Live' /\ ~asioWork' /\ tun' = "closed"
<1>1. client' = IF Live THEN [client EXCEPT !.state = "halted"] ELSE client
    BY DEF StopConnection
<1>2. ~Live'
    <2>1. CASE Live
        <3>1. client'.state \in {"halted", client.state} /\ client' = [client EXCEPT !.state = "halted"]
            BY <1>1, <2>1
        <3>2. QED
            BY <3>1, <2>1 DEF Live, LiveStates
    <2>2. CASE ~Live
        BY <1>1, <2>2 DEF Live
    <2>3. QED
        BY <2>1, <2>2
<1>3. QED
    BY <1>2 DEF StopConnection

\* A call of the session keeps halt unset, or stops the connection.
LEMMA SessionCallHalt ==
    ASSUME SessionCall
    PROVE  UNCHANGED halt \/ StopConnection
<1>1. CASE FirstPacket \/ AuthPendingTimeout \/ ProtoConnected \/ Renegotiated
    BY <1>1 DEF FirstPacket, AuthPendingTimeout, ProtoConnected, Renegotiated
<1>2. CASE \E code \in Codes : Terminate(code)
    BY <1>2 DEF Terminate, QueueRestart
<1>3. QED
    BY <1>1, <1>2 DEF SessionCall

LEMMA DisconnectedNext == DisconnectedIsLast /\ [Next]_vars => DisconnectedIsLast'
<1> SUFFICES ASSUME DisconnectedIsLast, [Next]_vars, halt'
             PROVE  emitted' = "Disconnected" /\ ~Live' /\ ~asioWork'
    BY DEF DisconnectedIsLast
<1> DEFINE Same == halt /\ UNCHANGED <<emitted, client, asioWork>>
<1>1. Same => emitted' = "Disconnected" /\ ~Live' /\ ~asioWork'
    BY DEF DisconnectedIsLast, Live
<1>2. CASE Start
    BY <1>2 DEF Start, DisconnectedIsLast
<1>3. CASE Post \/ RestartExpires \/ PollExpires \/ ConnExpires \/ ResolverAnswers \/ SessionReady
    <2>1. Same
        BY <1>3, ArrivalEffect DEF sessionVars
    <2>2. QED
        BY <1>1, <2>1
<1>4. CASE Handle
    <2>1. CASE NoEffect
        BY <1>1, <2>1 DEF NoEffect, sessionVars
    <2>2. CASE StopConnection
        BY <2>2, StopDisconnects
    <2>3. CASE ~halt /\ PauseConnection
        BY <2>3 DEF PauseConnection
    <2>4. CASE ~halt /\ UNCHANGED halt
        BY <2>4
    <2>5. CASE ~halt /\ Rearmed
        BY <2>5 DEF Rearmed
    <2>6. CASE Resolved
        BY <1>1, <2>6 DEF Resolved, sessionVars
    <2>7. CASE Live /\ SessionCall
        BY <2>7, <2>2, SessionCallHalt DEF DisconnectedIsLast
    <2>8. QED
        BY <1>4, HandleCases, <2>1, <2>2, <2>3, <2>4, <2>5, <2>6, <2>7
<1>5. CASE UNCHANGED vars
    BY <1>1, <1>5 DEF vars
<1>6. QED
    BY <1>2, <1>3, <1>4, <1>5 DEF Next

\* After Disconnected no event is raised and no session is alive, whatever was in
\* the queue when the connection was stopped.
THEOREM DisconnectedCorrect == Safety => []DisconnectedIsLast
BY DisconnectedInit, DisconnectedNext, PTL DEF Safety

-----------------------------------------------------------------------------
(* No connection is stranded *)

RestartQueued == \E i \in DOMAIN queue : queue[i] = [call |-> "restart", gen |-> generation]

LEMMA AppendIndex ==
    ASSUME NEW S, NEW s \in Seq(S), NEW e \in S
    PROVE  /\ \A i \in DOMAIN s : i \in DOMAIN Append(s, e) /\ Append(s, e)[i] = s[i]
           /\ Len(s) + 1 \in DOMAIN Append(s, e) /\ Append(s, e)[Len(s) + 1] = e
OBVIOUS

LEMMA TailIndex ==
    ASSUME NEW S, NEW s \in Seq(S), s # <<>>
    PROVE  /\ \A i \in DOMAIN s : i # 1 => i - 1 \in DOMAIN Tail(s) /\ Tail(s)[i - 1] = s[i]
           /\ Head(s) = s[1]
OBVIOUS

LEMMA ReadyKeeps ==
    ASSUME queue \in Seq(Handler), NEW e \in Handler, queue' = Append(queue, e), UNCHANGED generation,
           RestartQueued
    PROVE  RestartQueued'
<1>1. PICK i \in DOMAIN queue : queue[i] = [call |-> "restart", gen |-> generation]
    BY DEF RestartQueued
<1>2. i \in DOMAIN queue' /\ queue'[i] = queue[i]
    BY AppendIndex
<1>3. QED
    BY <1>1, <1>2 DEF RestartQueued

LEMMA ReadyAdds ==
    ASSUME TypeOK, Ready("restart", generation), UNCHANGED generation
    PROVE  RestartQueued'
<1> DEFINE e == [call |-> "restart", gen |-> generation]
<1>1. e \in Handler /\ queue \in Seq(Handler) /\ queue' = Append(queue, e)
    BY DEF Ready, TypeOK, Handler
<1> HIDE DEF e
<1>2. Len(queue) + 1 \in DOMAIN queue' /\ queue'[Len(queue) + 1] = e
    BY <1>1, AppendIndex
<1>3. QED
    BY <1>2 DEF RestartQueued, e

LEMMA RunsKeeps ==
    ASSUME TypeOK, ~halt, NotTheRestart, UNCHANGED generation, RestartQueued
    PROVE  RestartQueued'
<1>1. PICK i \in DOMAIN queue : queue[i] = [call |-> "restart", gen |-> generation]
    BY DEF RestartQueued
<1>2. /\ queue # <<>> /\ queue' = Tail(queue)
      /\ Head(queue).call # "restart" \/ Head(queue).gen # generation
    BY DEF NotTheRestart, Runs
<1>3. queue \in Seq(Handler)
    BY DEF TypeOK
<1>4. Head(queue) = queue[1]
    BY <1>2, <1>3, TailIndex
<1>5. i # 1
    BY <1>1, <1>2, <1>4
<1>6. i - 1 \in DOMAIN queue' /\ queue'[i - 1] = queue[i]
    BY <1>2, <1>3, <1>5, TailIndex
<1>7. QED
    BY <1>1, <1>6 DEF RestartQueued

LEMMA StrandedInit == Init => NeverStranded
BY DEF Init, NeverStranded, Started

LEMMA NewClientLives ==
    ASSUME NEW before, NewClient(before)
    PROVE  Live'
BY DEF NewClient, Live, LiveStates

\* The session goes on, or asks for the next, or stops the connection.
LEMMA SessionCallStrands ==
    ASSUME TypeOK, "unhandled" \notin Codes, SessionCall
    PROVE  Live' \/ (restartTimer' = {generation} /\ UNCHANGED generation) \/ halt'
<1>1. CASE FirstPacket
    BY <1>1 DEF FirstPacket, Live, LiveStates, TypeOK
<1>2. CASE AuthPendingTimeout
    BY <1>2 DEF AuthPendingTimeout, Live, LiveStates, TypeOK
<1>3. CASE ProtoConnected
    BY <1>3 DEF ProtoConnected, Live, LiveStates, TypeOK
<1>4. CASE Renegotiated
    BY <1>4 DEF Renegotiated, sessionVars, Live, LiveStates
<1>5. CASE \E code \in Codes : Terminate(code)
    BY <1>5 DEF Terminate, QueueRestart, StopConnection
<1>6. QED
    BY <1>1, <1>2, <1>3, <1>4, <1>5 DEF SessionCall

LEMMA StrandedNext ==
    ASSUME "unhandled" \notin Codes
    PROVE  TypeOK /\ DisconnectedIsLast /\ NeverStranded /\ [Next]_vars => NeverStranded'
<1> SUFFICES ASSUME TypeOK, DisconnectedIsLast, NeverStranded, [Next]_vars, Started', ~halt'
             PROVE  \/ Live' \/ RestartComes' \/ (paused' /\ asioWork')
                    \/ (generation' = 0 /\ bulk' = "resolving")
    BY DEF NeverStranded
<1> DEFINE Goal == \/ Live' \/ RestartComes' \/ (paused' /\ asioWork')
                   \/ (generation' = 0 /\ bulk' = "resolving")
<1>0. RestartComes <=> restartTimer = {generation} \/ RestartQueued
    BY DEF RestartComes, RestartQueued
<1>1. RestartComes' <=> restartTimer' = {generation'} \/ RestartQueued'
    BY DEF RestartComes, RestartQueued
<1>2. Started /\ ~halt /\ UNCHANGED <<sessionVars, paused>>
        /\ (bulk' = bulk \/ generation # 0)
        /\ (RestartComes => RestartComes') => Goal
    BY DEF NeverStranded, sessionVars, Live
<1>3. CASE Start
    <2>1. CASE bulk' = "resolving" /\ UNCHANGED sessionVars
        BY <1>3, <2>1 DEF Start, sessionVars
    <2>2. CASE NewClient("Resolve") \/ NewClient("none")
        BY <2>2, NewClientLives
    <2>3. QED
        BY <1>3, <2>1, <2>2 DEF Start
<1>4. CASE Post \/ RestartExpires \/ PollExpires \/ ConnExpires \/ ResolverAnswers \/ SessionReady
    <2>1. UNCHANGED sessionVars /\ UNCHANGED <<halt, paused, bulk, emitted>> /\ UNCHANGED generation
        BY <1>4, ArrivalEffect DEF sessionVars
    <2>2. Started /\ ~halt
        BY <2>1 DEF Started
    <2>3. queue \in Seq(Handler) /\ \E e \in Handler : queue' = Append(queue, e)
        BY <1>4, ArrivalReady DEF TypeOK
    <2>4. RestartQueued => RestartQueued'
        BY <2>1, <2>3, ReadyKeeps
    <2>5. restartTimer = {generation} => restartTimer' = {generation'} \/ RestartQueued'
        <3>1. CASE RestartExpires
            BY <3>1, <2>1, ReadyAdds DEF RestartExpires
        <3>2. CASE Post \/ PollExpires \/ ConnExpires \/ ResolverAnswers \/ SessionReady
            BY <3>2, <2>1 DEF Post, PollExpires, ConnExpires, ResolverAnswers, SessionReady, timers
        <3>3. QED
            BY <1>4, <3>1, <3>2
    <2>6. QED
        BY <1>0, <1>1, <1>2, <2>1, <2>2, <2>4, <2>5
<1>5. CASE Handle
    <2>1. CASE NoEffect /\ NotTheRestart
        <3>1. UNCHANGED sessionVars /\ UNCHANGED <<halt, paused, bulk, emitted>> /\ UNCHANGED timers
              /\ UNCHANGED <<generation, restartTimer>>
            BY <2>1 DEF NoEffect, sessionVars, timers
        <3>2. Started /\ ~halt
            BY <3>1 DEF Started
        <3>3. RestartQueued => RestartQueued'
            BY <2>1, <3>1, <3>2, RunsKeeps
        <3>4. QED
            BY <1>0, <1>1, <1>2, <3>1, <3>2, <3>3
    <2>2. CASE StopConnection
        BY <2>2 DEF StopConnection
    <2>3. CASE PauseConnection
        BY <2>3 DEF PauseConnection
    <2>4. CASE NewClient("Resume") \/ NewClient(emitted)
        BY <2>4, NewClientLives
    <2>5. CASE Rearmed
        BY <1>1, <2>5 DEF Rearmed, sessionVars
    <2>6. CASE Resolved
        <3>1. UNCHANGED sessionVars /\ UNCHANGED <<halt, paused, emitted>> /\ UNCHANGED timers
              /\ UNCHANGED <<generation, restartTimer>>
            BY <2>6 DEF Resolved, sessionVars, timers
        <3>2. Started /\ ~halt /\ generation # 0
            BY <2>6, <3>1 DEF Started, Resolved
        <3>3. NotTheRestart
            BY <2>6 DEF Resolved, NotTheRestart
        <3>4. RestartQueued => RestartQueued'
            BY <3>1, <3>2, <3>3, RunsKeeps
        <3>5. QED
            BY <1>0, <1>1, <1>2, <3>1, <3>2, <3>4
    <2>7. CASE Live /\ SessionCall
        BY <1>1, <2>7, SessionCallStrands
    <2>8. QED
        BY <1>5, HandleCases, <2>1, <2>2, <2>3, <2>4, <2>5, <2>6, <2>7
<1>6. CASE UNCHANGED vars
    <2>1. UNCHANGED <<sessionVars, paused, halt, emitted, bulk, restartTimer, queue, generation>>
        BY <1>6 DEF vars, sessionVars
    <2>2. Started /\ ~halt /\ (RestartQueued => RestartQueued')
        BY <2>1 DEF Started, RestartQueued
    <2>3. QED
        BY <1>0, <1>1, <1>2, <2>1, <2>2
<1>7. QED
    BY <1>3, <1>4, <1>5, <1>6 DEF Next

\* As long as the switch of client_proto_terminate() knows every error a session
\* can end with, a connection that has no live session has a restart coming, or is
\* paused, or is waiting for the first resolution.
THEOREM StrandedCorrect ==
    ASSUME "unhandled" \notin Codes
    PROVE  Safety => []NeverStranded
BY StrandedInit, StrandedNext, TypeInit, TypeNext, DisconnectedInit, DisconnectedNext, PTL DEF Safety

-----------------------------------------------------------------------------
(* Every session's tun is finalized once *)

\* What client_finalized says of the session's tun until the connection is stopped.
FinalizedInv ==
    /\ halt => tun = "closed" /\ ~Live
    /\ ~halt => \/ client.state = "none" /\ tun = "idle" /\ ~clientFinalized
                \/ client.state # "none" /\ tun = "open" /\ ~clientFinalized
                \/ client.state = "halted" /\ tun = "closed" /\ clientFinalized

LEMMA FinalizedInit == Init => FinalizedInv
BY DEF Init, FinalizedInv

LEMMA FinalizedImplies == FinalizedInv => FinalizedOnce
BY DEF FinalizedInv, FinalizedOnce, Live, LiveStates

LEMMA NewClientFinalizes ==
    ASSUME FinalizedInv, ~halt, NEW before, NewClient(before), UNCHANGED halt
    PROVE  FinalizedInv'
<1>1. tun' = "open"
    BY DEF NewClient, FinalizedTun, FinalizedInv
<1>2. client'.state = "connecting" /\ clientFinalized' = FALSE
    BY DEF NewClient
<1>3. QED
    BY <1>1, <1>2 DEF FinalizedInv

LEMMA PauseFinalizes ==
    ASSUME TypeOK, FinalizedInv, ~halt, PauseConnection
    PROVE  FinalizedInv'
<1>1. CASE client.state = "none"
    BY <1>1 DEF PauseConnection, FinalizedInv
<1>2. CASE client.state # "none"
    <2>1. client' = [client EXCEPT !.state = "halted"] /\ InterimFinalize /\ UNCHANGED halt
        BY <1>2 DEF PauseConnection
    <2>2. client'.state = "halted"
        BY <2>1 DEF TypeOK
    <2>3. tun' = "closed" /\ clientFinalized'
        BY <1>2, <2>1 DEF InterimFinalize, FinalizedTun, FinalizedInv
    <2>4. QED
        BY <2>1, <2>2, <2>3 DEF FinalizedInv
<1>3. QED
    BY <1>1, <1>2

\* A call of a live session: its tun is open, and is closed if it asks for the next.
LEMMA SessionCallFinalizes ==
    ASSUME TypeOK, FinalizedInv, Live, SessionCall
    PROVE  FinalizedInv'
<1>1. ~halt /\ client.state \notin {"none", "halted"} /\ tun = "open" /\ ~clientFinalized
    BY DEF FinalizedInv, Live, LiveStates
<1>2. CASE FirstPacket \/ AuthPendingTimeout \/ ProtoConnected
    <2>1. client'.state # "none"
        BY <1>2 DEF FirstPacket, AuthPendingTimeout, ProtoConnected, TypeOK
    <2>2. UNCHANGED <<halt, tun, clientFinalized>>
        BY <1>2 DEF FirstPacket, AuthPendingTimeout, ProtoConnected
    <2>3. QED
        BY <1>1, <2>1, <2>2 DEF FinalizedInv
<1>3. CASE Renegotiated
    BY <1>1, <1>3 DEF Renegotiated, sessionVars, FinalizedInv
<1>4. CASE \E code \in Codes : Terminate(code)
    <2>1. PICK code \in Codes : Terminate(code)
        BY <1>4
    <2> DEFINE next == [client EXCEPT !.state = "halted", !.advance = (code # "restart_same")]
    <2>2. next.state = "halted"
        BY DEF TypeOK
    <2>3. \/ QueueRestart(next)
          \/ StopConnection
          \/ client' = next /\ UNCHANGED <<halt, tun, clientFinalized>>
        BY <2>1 DEF Terminate
    <2> HIDE DEF next
    <2>4. CASE QueueRestart(next)
        <3>1. client'.state = "halted" /\ clientFinalized' = TRUE /\ tun' = "closed" /\ UNCHANGED halt
            BY <1>1, <2>2, <2>4 DEF QueueRestart, InterimFinalize, FinalizedTun
        <3>2. QED
            BY <1>1, <3>1 DEF FinalizedInv
    <2>5. CASE StopConnection
        BY <2>5, StopDisconnects DEF FinalizedInv
    <2>6. CASE client' = next /\ UNCHANGED <<halt, tun, clientFinalized>>
        BY <1>1, <2>2, <2>6 DEF FinalizedInv
    <2>7. QED
        BY <2>3, <2>4, <2>5, <2>6
<1>5. QED
    BY <1>2, <1>3, <1>4 DEF SessionCall

LEMMA FinalizedNext == TypeOK /\ DisconnectedIsLast /\ FinalizedInv /\ [Next]_vars => FinalizedInv'
<1> SUFFICES ASSUME TypeOK, DisconnectedIsLast, FinalizedInv, [Next]_vars
             PROVE  FinalizedInv'
    OBVIOUS
<1>1. UNCHANGED <<halt, tun, client, clientFinalized>> => FinalizedInv'
    BY DEF FinalizedInv, Live
<1>2. CASE Start
    <2>1. CASE UNCHANGED sessionVars
        BY <1>1, <1>2, <2>1 DEF Start, sessionVars
    <2>2. ~halt
        BY <1>2 DEF Start, DisconnectedIsLast
    <2>3. CASE (NewClient("Resolve") \/ NewClient("none"))
        BY <1>2, <2>2, <2>3, NewClientFinalizes DEF Start
    <2>4. QED
        BY <1>2, <2>1, <2>3 DEF Start
<1>3. CASE Post \/ RestartExpires \/ PollExpires \/ ConnExpires \/ ResolverAnswers \/ SessionReady
    BY <1>1, <1>3, ArrivalEffect DEF sessionVars
<1>4. CASE Handle
    <2>1. CASE NoEffect
        BY <1>1, <2>1 DEF NoEffect, sessionVars
    <2>2. CASE StopConnection
        BY <2>2, StopDisconnects DEF FinalizedInv
    <2>3. CASE ~halt /\ PauseConnection
        BY <2>3, PauseFinalizes
    <2>4. CASE ~halt /\ (NewClient("Resume") \/ NewClient(emitted)) /\ UNCHANGED halt
        BY <2>4, NewClientFinalizes
    <2>5. CASE Rearmed
        BY <1>1, <2>5 DEF Rearmed, sessionVars
    <2>6. CASE Resolved
        BY <1>1, <2>6 DEF Resolved, sessionVars
    <2>7. CASE Live /\ SessionCall
        BY <2>7, SessionCallFinalizes
    <2>8. QED
        BY <1>4, HandleCases, <2>1, <2>2, <2>3, <2>4, <2>5, <2>6, <2>7
<1>5. CASE UNCHANGED vars
    BY <1>1, <1>5 DEF vars
<1>6. QED
    BY <1>2, <1>3, <1>4, <1>5 DEF Next

\* However a session ends (a restart, a pause, a newer session, a stop), its tun is
\* finalized once, and before the next session opens one.
THEOREM FinalizedCorrect == Safety => []FinalizedOnce
BY TypeInit, TypeNext, DisconnectedInit, DisconnectedNext, FinalizedInit,
   FinalizedNext, FinalizedImplies, PTL DEF Safety

-----------------------------------------------------------------------------
(* Resolving never replaces a session *)

\* Generation 0 is that of no session, also after the generation has overflowed.
GenerationInv == generation = 0 <=> client.state = "none"

LEMMA GenerationInit == Init => GenerationInv
BY DEF Init, GenerationInv

LEMMA NewClientGeneration ==
    ASSUME TypeOK, NEW before, NewClient(before)
    PROVE  GenerationInv'
<1>1. generation' # 0
    BY GenerationType DEF TypeOK, NewClient
<1>2. client'.state = "connecting"
    BY DEF NewClient
<1>3. QED
    BY <1>1, <1>2 DEF GenerationInv

\* Whatever becomes of a session, it is not none.
LEMMA SessionCallGeneration ==
    ASSUME TypeOK, GenerationInv, Live, SessionCall
    PROVE  UNCHANGED generation /\ client'.state # "none" /\ client.state # "none"
<1>1. client.state # "none"
    BY DEF Live, LiveStates
<1>2. CASE FirstPacket \/ AuthPendingTimeout \/ ProtoConnected
    BY <1>1, <1>2 DEF FirstPacket, AuthPendingTimeout, ProtoConnected, TypeOK
<1>3. CASE Renegotiated
    BY <1>1, <1>3 DEF Renegotiated, sessionVars
<1>4. CASE \E code \in Codes : Terminate(code)
    <2>1. PICK code \in Codes : Terminate(code)
        BY <1>4
    <2> DEFINE next == [client EXCEPT !.state = "halted", !.advance = (code # "restart_same")]
    <2>2. next.state = "halted" /\ [client EXCEPT !.state = "halted"].state = "halted"
        BY DEF TypeOK
    <2>3. UNCHANGED generation /\ client' \in {next, client, [client EXCEPT !.state = "halted"]}
        BY <2>1 DEF Terminate, QueueRestart, StopConnection
    <2> HIDE DEF next
    <2>4. QED
        BY <1>1, <2>2, <2>3
<1>5. QED
    BY <1>1, <1>2, <1>3, <1>4 DEF SessionCall

LEMMA GenerationNext == TypeOK /\ GenerationInv /\ [Next]_vars => GenerationInv'
<1> SUFFICES ASSUME TypeOK, GenerationInv, [Next]_vars
             PROVE  GenerationInv'
    OBVIOUS
<1>1. UNCHANGED <<generation, client>> => GenerationInv'
    BY DEF GenerationInv
<1>2. CASE Start
    <2>1. UNCHANGED sessionVars \/ NewClient("Resolve") \/ NewClient("none")
        BY <1>2 DEF Start
    <2>2. QED
        BY <1>1, <2>1, NewClientGeneration DEF sessionVars
<1>3. CASE Post \/ RestartExpires \/ PollExpires \/ ConnExpires \/ ResolverAnswers \/ SessionReady
    BY <1>1, <1>3, ArrivalEffect DEF sessionVars
<1>4. CASE Handle
    <2>1. CASE NoEffect \/ Rearmed \/ Resolved
        BY <1>1, <2>1 DEF NoEffect, Rearmed, Resolved, sessionVars
    <2>2. CASE StopConnection
        <3>1. UNCHANGED generation /\ client' = IF Live THEN [client EXCEPT !.state = "halted"] ELSE client
            BY <2>2 DEF StopConnection
        <3>2. [client EXCEPT !.state = "halted"].state = "halted"
            BY DEF TypeOK
        <3>3. QED
            BY <3>1, <3>2 DEF GenerationInv, Live, LiveStates
    <2>3. CASE PauseConnection
        <3>1. [client EXCEPT !.state = "halted"].state = "halted"
            BY DEF TypeOK
        <3>2. QED
            BY <2>3, <3>1 DEF PauseConnection, GenerationInv
    <2>4. CASE NewClient("Resume") \/ NewClient(emitted)
        BY <2>4, NewClientGeneration
    <2>5. CASE Live /\ SessionCall
        BY <2>5, SessionCallGeneration DEF GenerationInv
    <2>6. QED
        BY <1>4, HandleCases, <2>1, <2>2, <2>3, <2>4, <2>5
<1>5. CASE UNCHANGED vars
    BY <1>1, <1>5 DEF vars
<1>6. QED
    BY <1>2, <1>3, <1>4, <1>5 DEF Next

LEMMA ResolvingStep ==
    ASSUME TypeOK, GenerationInv, [Next]_vars,
           bulk = "resolving", bulk' = "idle", client.state # "none", ~halt'
    PROVE  UNCHANGED <<client, generation>>
<1>1. generation # 0
    BY DEF GenerationInv
<1>2. ~Start
    BY <1>1 DEF Start
<1>3. bulk' # bulk
    OBVIOUS
<1>4. ~(Post \/ RestartExpires \/ PollExpires \/ ConnExpires \/ ResolverAnswers \/ SessionReady)
    BY <1>3, ArrivalEffect
<1>5. CASE Handle
    <2>1. ~GracefulStop /\ ~ConnectionTimer
        BY <1>3 DEF GracefulStop, ConnectionTimer, NoEffect, StopConnection, PauseConnection
    <2>2. ~Pause /\ ~Resume /\ ~Reconnect
        BY <1>3 DEF Pause, Resume, Reconnect, NoEffect, PauseConnection, ResumeConnection
    <2>3. ~RestartWait /\ ~ServerPoll
        BY <1>3 DEF RestartWait, ServerPoll, NoEffect, ResumeConnection
    <2>4. ~Session
        <3>1. ~FirstPacket /\ ~AuthPendingTimeout /\ ~ProtoConnected /\ ~Renegotiated
            BY <1>3 DEF FirstPacket, AuthPendingTimeout, ProtoConnected, Renegotiated
        <3>2. ~\E code \in Codes : Terminate(code)
            BY <1>3 DEF Terminate, QueueRestart, StopConnection
        <3>3. ~NoEffect
            BY <1>3 DEF NoEffect
        <3>4. QED
            BY <3>1, <3>2, <3>3 DEF Session
    <2>5. CASE BulkResolveDone
        BY <1>1, <2>5 DEF BulkResolveDone, NoEffect, sessionVars
    <2>6. QED
        BY <1>5, <2>1, <2>2, <2>3, <2>4, <2>5 DEF Handle
<1>6. CASE UNCHANGED vars
    BY <1>3, <1>6 DEF vars
<1>7. QED
    BY <1>2, <1>4, <1>5, <1>6 DEF Next

\* The answer of the resolver starts the first session and never replaces a later
\* one, however often the generation has wrapped.
THEOREM ResolvingCorrect == Safety => ResolvingKeepsSession
<1>1. Init => TypeOK /\ GenerationInv
    BY TypeInit, GenerationInit
<1>2. TypeOK /\ GenerationInv /\ [Next]_vars => (TypeOK /\ GenerationInv)'
    BY TypeNext, GenerationNext
<1>3. TypeOK /\ GenerationInv /\ [Next]_vars
      => [ bulk = "resolving" /\ bulk' = "idle" /\ client.state # "none" /\ ~halt'
           => UNCHANGED <<client, generation>> ]_vars
    BY ResolvingStep
<1>4. QED
    BY <1>1, <1>2, <1>3, PTL DEF Safety, ResolvingKeepsSession
==============================================================================
