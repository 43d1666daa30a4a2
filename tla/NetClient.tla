----------------------------- MODULE NetClient -----------------------------
(***************************************************************************)
(* The .NET client: OpenvpnNetClient.Client, the OpenVPNClientThread       *)
(* objects it replaces one by another, and of the native OpenVPNClient     *)
(* under each of them (client/ovpncli.cpp) the part that decides when a    *)
(* session starts, when Stop is heeded and when the object is gone.        *)
(*                                                                         *)
(* Application threads call the public methods of Client; each connection  *)
(* has a thread of its own that runs the native connect(), calls the       *)
(* application's event handlers and closes the connection.  Nothing is     *)
(* locked: each read or write of a shared field is a step of its own.      *)
(***************************************************************************)
EXTENDS Naturals, Sequences, FiniteSets

CONSTANTS
    Apps,               \* the application's own threads
    Tasks,              \* those of them that run a Task started by a handler
    MaxThreads,         \* bound: connection threads
    MaxScripts,         \* bound: scripts the application's threads begin
    AppScripts,         \* what an application thread may call, in order
    EstablishedScripts, \* what the ConnectionEstablished handler may call
    ClosedScripts,      \* what the ConnectionClosed handler may call
    Commands,           \* what a Task may call each time it has read a command
    SwitchOnTwice,      \* the application answers ConnectionCalledTwiceException
                        \* with Stop, and connects again when ConnectionClosed is raised
    BadConfigs,         \* the application threads whose configurations may be bad
    Subscribed          \* the events of Client the application has handlers for

Methods == {"SetConfig", "AddCredentials", "Connect", "Stop", "ReconnectVPN", "Show_stats"}
RunNewConnection == <<"SetConfig", "AddCredentials", "Connect">>

ASSUME BoundsAreNat == MaxThreads \in Nat \ {0} /\ MaxScripts \in Nat
ASSUME ScriptsAreCalls ==
    /\ AppScripts \subseteq Seq(Methods) /\ EstablishedScripts \subseteq Seq(Methods)
    /\ ClosedScripts \subseteq Seq(Methods) /\ Commands \subseteq Seq(Methods)
ASSUME ChoicesAreBool == SwitchOnTwice \in BOOLEAN
ASSUME Subscriptions == Subscribed \subseteq {"CoreEventReceived", "ConnectionTimedOut"}
ASSUME AppsAreNotThreads == Apps \cap Nat = {}
ASSUME TasksAreApps == Tasks \subseteq Apps
ASSUME BadConfigsOfApps == BadConfigs \subseteq Apps

Runner == 1 .. MaxThreads        \* connection threads, in the order they start
Thread == Apps \cup Runner
Object == 1 .. (MaxThreads + 1)  \* OpenVPNClientThread objects, in the order they are created
NoThread == 0

VARIABLES
    current,    \* Client._clientThread: always the newest object
    evaluated,  \* Client._configEvaluator is not null
    hasConnect, \* hasConnect[o]: _hasConnectBeencalled
    manager,    \* manager[o]: Manager: "client", null or another Client
    thread,     \* thread[o]: the object's _clientThread
    configured, \* configured[o]: eval_config has given it a configuration
    attached,   \* attached[o]: ClientState::attach_called
    session,    \* session[o]: ClientState::session: "none", "up", "connected" or "down"
    foreign,    \* foreign[o]: ClientState::foreign_thread_ready
    stopped,    \* stopped[o]: ClientState::async_stop_local_ has been triggered
    disposed,   \* disposed[o]: the native object is deleted
    where,      \* where[t]: where a connection thread is in Run
    ran,        \* ran[t]: the object whose Run it is
    parent,     \* parent[t]: finalizedParent
    todo,       \* todo[t]: the calls left of t's script
    at,         \* at[t]: where t is in the call Head(todo[t])
    on,         \* on[t]: the _clientThread that call has read
    switching,  \* the application waits for ConnectionClosed to connect again
    prompting,  \* the Tasks that wait for the next command
    scripts,    \* scripts begun by the application's threads, Tasks apart
    crashed     \* the process has died of a call into a deleted object, or of
                \* an exception in a connection thread

wrapper == <<hasConnect, manager, thread>>
native == <<configured, attached, session, foreign, stopped, disposed>>
running == <<where, ran, parent>>
calling == <<todo, at, on>>
app == <<switching, prompting, scripts>>
vars == <<current, evaluated, wrapper, native, running, calling, app, crashed>>

Init ==
    /\ current = 1
    /\ evaluated = FALSE
    /\ hasConnect = [o \in Object |-> FALSE]
    /\ manager = [o \in Object |-> "client"]
    /\ thread = [o \in Object |-> NoThread]
    /\ configured = [o \in Object |-> FALSE]
    /\ attached = [o \in Object |-> FALSE]
    /\ session = [o \in Object |-> "none"]
    /\ foreign = [o \in Object |-> FALSE]
    /\ stopped = [o \in Object |-> FALSE]
    /\ disposed = [o \in Object |-> FALSE]
    /\ where = [t \in Runner |-> "none"]
    /\ ran = [t \in Runner |-> 1]
    /\ parent = [t \in Runner |-> "null"]
    /\ todo = [t \in Thread |-> <<>>]
    /\ at = [t \in Thread |-> "ready"]
    /\ on = [t \in Thread |-> 1]
    /\ switching = FALSE
    /\ prompting = {}
    /\ scripts = 0
    /\ crashed = FALSE

-----------------------------------------------------------------------------
(* Calls of Client's methods, by a thread with a script to run *)

Calling(t, method, step) ==
    ~crashed /\ todo[t] # <<>> /\ Head(todo[t]) = method /\ at[t] = step

Goto(t, step) == at' = [at EXCEPT ![t] = step] /\ UNCHANGED <<todo, on>>

\* The method reads Client._clientThread and goes on with that object.
Fetch(t, step) ==
    /\ on' = [on EXCEPT ![t] = current]
    /\ at' = [at EXCEPT ![t] = step]
    /\ UNCHANGED todo

Return(t) ==
    /\ todo' = [todo EXCEPT ![t] = Tail(@)]
    /\ at' = [at EXCEPT ![t] = "ready"]
    /\ UNCHANGED on

\* An exception ends an application thread's script and a Task; a connection
\* thread has nobody to catch it.
Throw(t) ==
    /\ todo' = [todo EXCEPT ![t] = <<>>]
    /\ at' = [at EXCEPT ![t] = "ready"]
    /\ prompting' = prompting \ {t}
    /\ crashed' = (t \in Runner)
    /\ UNCHANGED <<on, switching>>

\* ConnectionCalledTwiceException, which the examples catch (SwitchConnections
\* then stops the connection and waits for ConnectionClosed).
ThrowTwice(t) ==
    /\ todo' = [todo EXCEPT ![t] = IF SwitchOnTwice THEN <<"Stop">> ELSE <<>>]
    /\ at' = [at EXCEPT ![t] = "ready"]
    /\ switching' = SwitchOnTwice
    /\ UNCHANGED <<on, prompting, crashed>>

\* A call into the native object of on[t]; deleted, it takes the process down.
NativeCall(t, Effect) ==
    \/ /\ disposed[on[t]]
       /\ crashed' = TRUE
       /\ UNCHANGED <<native, calling>>
    \/ ~disposed[on[t]] /\ Effect /\ UNCHANGED crashed

\* SetConfigWithMultiLineString: eval_config on the object read, then the
\* result is stored in _configEvaluator; a bad configuration throws.
\* Mutant: it goes on with an object read earlier.
SetConfigCached(t) ==
    /\ Calling(t, "SetConfig", "ready")
    /\ Goto(t, "eval_config")
    /\ UNCHANGED <<current, evaluated, wrapper, native, running, app, crashed>>
SetConfigFetch(t) ==
    /\ Calling(t, "SetConfig", "ready")
    /\ Fetch(t, "eval_config")
    /\ UNCHANGED <<current, evaluated, wrapper, native, running, app, crashed>>
EvalConfig(t) ==
    /\ Calling(t, "SetConfig", "eval_config")
    /\ NativeCall(t, /\ \/ /\ configured' = [configured EXCEPT ![on[t]] = TRUE]
                           /\ Goto(t, "store")
                        \/ t \in BadConfigs /\ Goto(t, "reject") /\ UNCHANGED configured
                     /\ UNCHANGED <<attached, session, foreign, stopped, disposed>>)
    /\ UNCHANGED <<current, evaluated, wrapper, running, app>>
SetConfigStore(t) ==
    /\ Calling(t, "SetConfig", "store")
    /\ evaluated' = TRUE
    /\ Return(t)
    /\ UNCHANGED <<current, wrapper, native, running, app, crashed>>
SetConfigReject(t) ==
    /\ Calling(t, "SetConfig", "reject")
    /\ evaluated' = TRUE
    /\ Throw(t)
    /\ UNCHANGED <<current, wrapper, native, running, scripts>>

\* AddCredentials(true, ...) reads _configEvaluator.autologin, then calls provide_creds.
AddCredentials(t) ==
    /\ Calling(t, "AddCredentials", "ready")
    /\ IF evaluated
       THEN Fetch(t, "provide_creds") /\ UNCHANGED <<crashed, switching, prompting>>
       ELSE Throw(t)
    /\ UNCHANGED <<current, evaluated, wrapper, native, running, scripts>>
ProvideCreds(t) ==
    /\ Calling(t, "AddCredentials", "provide_creds")
    /\ NativeCall(t, Return(t) /\ UNCHANGED native)
    /\ UNCHANGED <<current, evaluated, wrapper, running, app>>

\* Connect.
ConnectFetch(t) ==
    /\ Calling(t, "Connect", "ready")
    /\ Fetch(t, "test")
    /\ UNCHANGED <<current, evaluated, wrapper, native, running, app, crashed>>
\* Mutant: the flag is not looked at.
ConnectAlways(t) ==
    /\ Calling(t, "Connect", "test")
    /\ Goto(t, "mark") /\ UNCHANGED <<crashed, switching, prompting>>
    /\ UNCHANGED <<current, evaluated, wrapper, native, running, scripts>>
ConnectTest(t) ==
    /\ Calling(t, "Connect", "test")
    /\ IF hasConnect[on[t]]
       THEN ThrowTwice(t)
       ELSE Goto(t, "mark") /\ UNCHANGED <<crashed, switching, prompting>>
    /\ UNCHANGED <<current, evaluated, wrapper, native, running, scripts>>
ConnectMark(t) ==
    /\ Calling(t, "Connect", "mark")
    /\ hasConnect' = [hasConnect EXCEPT ![on[t]] = TRUE]
    /\ Goto(t, "manage")
    /\ UNCHANGED <<current, evaluated, manager, thread, native, running, app, crashed>>
ConnectManage(t) ==
    /\ Calling(t, "Connect", "manage")
    /\ manager' = [manager EXCEPT ![on[t]] = "client"]
    /\ Goto(t, "start")
    /\ UNCHANGED <<current, evaluated, hasConnect, thread, native, running, app, crashed>>
\* The new thread is in _clientThread and starts Run.
ConnectStart(t) ==
    /\ Calling(t, "Connect", "start")
    /\ \E r \in Runner :
          /\ where[r] = "none" /\ \A q \in 1 .. (r - 1) : where[q] # "none"
          /\ thread' = [thread EXCEPT ![on[t]] = r]
          /\ where' = [where EXCEPT ![r] = "attach"]
          /\ ran' = [ran EXCEPT ![r] = on[t]]
    /\ Return(t)
    /\ UNCHANGED <<current, evaluated, hasConnect, manager, native, parent, app, crashed>>

\* Stop: the native stop() does nothing unless foreign threads have access.
StopFetch(t) ==
    /\ Calling(t, "Stop", "ready")
    /\ Fetch(t, "stop")
    /\ UNCHANGED <<current, evaluated, wrapper, native, running, app, crashed>>
Stop(t) ==
    /\ Calling(t, "Stop", "stop")
    /\ NativeCall(t, /\ stopped' = [stopped EXCEPT ![on[t]] = @ \/ foreign[on[t]]]
                     /\ Return(t)
                     /\ UNCHANGED <<configured, attached, session, foreign, disposed>>)
    /\ UNCHANGED <<current, evaluated, wrapper, running, app>>

\* ReconnectVPN: IsVPNActive, whose IsCurrentlyRunning reads _clientThread of
\* the object twice, then reconnect(0) on the Client._clientThread of now.  The
\* native call only posts to the session, which goes on.
ReconnectFetch(t) ==
    /\ Calling(t, "ReconnectVPN", "ready")
    /\ Fetch(t, "null?")
    /\ UNCHANGED <<current, evaluated, wrapper, native, running, app, crashed>>
IsNotNull(t) ==
    /\ Calling(t, "ReconnectVPN", "null?")
    /\ IF thread[on[t]] = NoThread THEN Return(t) ELSE Goto(t, "alive?")
    /\ UNCHANGED <<current, evaluated, wrapper, native, running, app, crashed>>
IsAlive(t) ==
    /\ Calling(t, "ReconnectVPN", "alive?")
    /\ IF thread[on[t]] = NoThread
       THEN Throw(t)
       ELSE /\ IF where[thread[on[t]]] = "done" THEN Return(t) ELSE Fetch(t, "reconnect")
            /\ UNCHANGED <<crashed, switching, prompting>>
    /\ UNCHANGED <<current, evaluated, wrapper, native, running, scripts>>
Reconnect(t) ==
    /\ Calling(t, "ReconnectVPN", "reconnect")
    /\ NativeCall(t, Return(t) /\ UNCHANGED native)
    /\ UNCHANGED <<current, evaluated, wrapper, running, app>>

\* Show_stats: stats_value for one counter after the other, each time of the
\* _clientThread of the moment.  Bound: two counters, the first and the last.
StatsFetch(t) ==
    /\ \/ Calling(t, "Show_stats", "ready") /\ Fetch(t, "first_value")
       \/ Calling(t, "Show_stats", "next") /\ Fetch(t, "last_value")
    /\ UNCHANGED <<current, evaluated, wrapper, native, running, app, crashed>>
StatsValue(t) ==
    /\ \/ Calling(t, "Show_stats", "first_value") /\ NativeCall(t, Goto(t, "next") /\ UNCHANGED native)
       \/ Calling(t, "Show_stats", "last_value") /\ NativeCall(t, Return(t) /\ UNCHANGED native)
    /\ UNCHANGED <<current, evaluated, wrapper, running, app>>

Call(t) ==
    \/ SetConfigFetch(t) \/ EvalConfig(t) \/ SetConfigStore(t) \/ SetConfigReject(t)
    \/ AddCredentials(t) \/ ProvideCreds(t)
    \/ ConnectFetch(t) \/ ConnectTest(t) \/ ConnectMark(t) \/ ConnectManage(t) \/ ConnectStart(t)
    \/ StopFetch(t) \/ Stop(t)
    \/ ReconnectFetch(t) \/ IsNotNull(t) \/ IsAlive(t) \/ Reconnect(t)
    \/ StatsFetch(t) \/ StatsValue(t)

-----------------------------------------------------------------------------
(* The application *)

\* Bound: a script that connects is begun only if there is a thread for it.
Connects(script) == \E i \in 1 .. Len(script) : script[i] = "Connect"
Affordable(script) ==
    Connects(script) =>
        Cardinality({r \in Runner : where[r] # "none"})
          + Cardinality({t \in Thread : Connects(todo[t])})
          + (IF switching THEN 1 ELSE 0) < MaxThreads

Begin(t, script) ==
    /\ Affordable(script)
    /\ todo' = [todo EXCEPT ![t] = script]
    /\ UNCHANGED <<at, on>>

\* A script on an application thread.
AppCall(a) ==
    /\ a \notin Tasks
    /\ ~crashed /\ todo[a] = <<>> /\ scripts < MaxScripts
    /\ \E script \in AppScripts : Begin(a, script)
    /\ scripts' = scripts + 1
    /\ UNCHANGED <<current, evaluated, wrapper, native, running, switching, prompting, crashed>>

\* CheckForStopAsync of SingleConnection_Example: a Task, on a thread of the
\* pool, calls Client while the connection goes on and while it ends; the first
\* Stop ends it.
TaskStarts ==
    \/ UNCHANGED prompting
    \/ \E a \in Tasks \ prompting : todo[a] = <<>> /\ prompting' = prompting \cup {a}
TaskCall(a) ==
    /\ a \in prompting
    /\ ~crashed /\ todo[a] = <<>>
    /\ \E command \in Commands :
          /\ Begin(a, command)
          /\ prompting' = IF command = <<"Stop">> THEN prompting \ {a} ELSE prompting
    /\ UNCHANGED <<current, evaluated, wrapper, native, running, switching, scripts, crashed>>

-----------------------------------------------------------------------------
(* Run: the native connect(), then EndClientThread *)

At(t, place) == ~crashed /\ where[t] = place
Enter(t, place) == where' = [where EXCEPT ![t] = place] /\ UNCHANGED <<ran, parent>>
SetSession(t, s) == session' = [session EXCEPT ![ran[t]] = s]
Live(o) == session[o] \in {"up", "connected"}

\* connect() on a deleted object takes the process down.
NativeRun(t, Effect) ==
    \/ disposed[ran[t]] /\ crashed' = TRUE /\ UNCHANGED <<native, running, calling>>
    \/ ~disposed[ran[t]] /\ Effect /\ UNCHANGED crashed

\* connect_attach: once per object; the second time connect() returns with an error.
Attach(t) ==
    /\ At(t, "attach")
    /\ NativeRun(t, /\ attached' = [attached EXCEPT ![ran[t]] = TRUE]
                    /\ Enter(t, IF attached[ran[t]] THEN "finalize" ELSE "setup")
                    /\ UNCHANGED <<configured, session, foreign, stopped, disposed, calling>>)
    /\ UNCHANGED <<current, evaluated, wrapper, app>>

\* connect_setup: without a configuration there is no session; with one there
\* may be, or not (bad credentials, external PKI).
Setup(t) ==
    /\ At(t, "setup")
    /\ NativeRun(t, /\ \/ Enter(t, "finalize") /\ UNCHANGED session
                       \/ configured[ran[t]] /\ Enter(t, "enable") /\ SetSession(t, "up")
                    /\ UNCHANGED <<configured, attached, foreign, stopped, disposed, calling>>)
    /\ UNCHANGED <<current, evaluated, wrapper, app>>

\* enable_foreign_thread_access, the last thing before the event loop.
\* Mutant: it is forgotten.
NeverEnabled(t) ==
    /\ At(t, "enable")
    /\ NativeRun(t, Enter(t, "loop") /\ UNCHANGED <<native, calling>>)
    /\ UNCHANGED <<current, evaluated, wrapper, app>>
EnableForeignThreadAccess(t) ==
    /\ At(t, "enable")
    /\ NativeRun(t, /\ foreign' = [foreign EXCEPT ![ran[t]] = TRUE]
                    /\ Enter(t, "loop")
                    /\ UNCHANGED <<configured, attached, session, stopped, disposed, calling>>)
    /\ UNCHANGED <<current, evaluated, wrapper, app>>

\* The CONNECTED event: Event_ raises ConnectionEstablished on this thread, if
\* the object still has a Manager to pass it to.
Connected(t) ==
    /\ At(t, "loop") /\ session[ran[t]] = "up"
    /\ NativeRun(t, /\ SetSession(t, "connected")
                    /\ IF manager[ran[t]] = "client"
                       THEN /\ Enter(t, "established")
                            /\ \E script \in EstablishedScripts : Begin(t, script)
                       ELSE UNCHANGED <<running, calling>>
                    /\ UNCHANGED <<configured, attached, foreign, stopped, disposed>>)
    /\ UNCHANGED <<current, evaluated, wrapper, app>>

\* The handler may start a Task before it returns.
EstablishedReturns(t) ==
    /\ At(t, "established") /\ todo[t] = <<>>
    /\ Enter(t, "loop")
    /\ TaskStarts
    /\ UNCHANGED <<current, evaluated, wrapper, native, calling, switching, scripts, crashed>>

\* The session loses its connection and tries again, by itself or after reconnect(0).
Reconnecting(t) ==
    /\ At(t, "loop") /\ session[ran[t]] = "connected"
    /\ NativeRun(t, /\ SetSession(t, "up")
                    /\ UNCHANGED <<configured, attached, foreign, stopped, disposed, running, calling>>)
    /\ UNCHANGED <<current, evaluated, wrapper, app>>

\* The session ends with an error of its own.
SessionEnds(t) ==
    /\ At(t, "loop") /\ Live(ran[t])
    /\ NativeRun(t, /\ SetSession(t, "down")
                    /\ Enter(t, "finalize")
                    /\ UNCHANGED <<configured, attached, foreign, stopped, disposed, calling>>)
    /\ UNCHANGED <<current, evaluated, wrapper, app>>

\* The connection timer: pause_on_connection_timeout, which answers false, so
\* that the session ends.  OnConnectionTimedOut tests CoreEventReceived and
\* invokes ConnectionTimedOut.
ConnectionTimeout(t) ==
    /\ At(t, "loop") /\ session[ran[t]] = "up" /\ manager[ran[t]] = "client"
    /\ \/ /\ "CoreEventReceived" \in Subscribed /\ "ConnectionTimedOut" \notin Subscribed
          /\ crashed' = TRUE
          /\ UNCHANGED <<native, running, calling>>
       \/ /\ "CoreEventReceived" \in Subscribed => "ConnectionTimedOut" \in Subscribed
          /\ NativeRun(t, /\ SetSession(t, "down")
                          /\ Enter(t, "finalize")
                          /\ UNCHANGED <<configured, attached, foreign, stopped, disposed, calling>>)
    /\ UNCHANGED <<current, evaluated, wrapper, app>>

\* What Stop has posted to the event loop: graceful_stop.
\* Mutant: only a session that is still connecting is stopped.
GracefulStopConnecting(t) ==
    /\ At(t, "loop") /\ stopped[ran[t]] /\ session[ran[t]] = "up"
    /\ NativeRun(t, /\ SetSession(t, "down")
                    /\ Enter(t, "finalize")
                    /\ UNCHANGED <<configured, attached, foreign, stopped, disposed, calling>>)
    /\ UNCHANGED <<current, evaluated, wrapper, app>>
GracefulStop(t) ==
    /\ At(t, "loop") /\ stopped[ran[t]]
    /\ NativeRun(t, /\ SetSession(t, "down")
                    /\ Enter(t, "finalize")
                    /\ UNCHANGED <<configured, attached, foreign, stopped, disposed, calling>>)
    /\ UNCHANGED <<current, evaluated, wrapper, app>>

-----------------------------------------------------------------------------
(* EndClientThread: FinalizeThread, ConnectionFinished, Dispose *)

ReadManager(t) ==
    /\ At(t, "finalize")
    /\ parent' = [parent EXCEPT ![t] = manager[ran[t]]]
    /\ where' = [where EXCEPT ![t] = IF manager[ran[t]] = "null" THEN "dispose" ELSE "manager"]
    /\ UNCHANGED <<current, evaluated, wrapper, native, ran, calling, app, crashed>>
ClearManager(t) ==
    /\ At(t, "manager")
    /\ manager' = [manager EXCEPT ![ran[t]] = "null"]
    /\ Enter(t, "thread")
    /\ UNCHANGED <<current, evaluated, hasConnect, thread, native, calling, app, crashed>>
ClearThread(t) ==
    /\ At(t, "thread")
    /\ thread' = [thread EXCEPT ![ran[t]] = NoThread]
    /\ Enter(t, "flag")
    /\ UNCHANGED <<current, evaluated, hasConnect, manager, native, calling, app, crashed>>
ClearFlag(t) ==
    /\ At(t, "flag")
    /\ hasConnect' = [hasConnect EXCEPT ![ran[t]] = FALSE]
    /\ Enter(t, "finished")
    /\ UNCHANGED <<current, evaluated, manager, thread, native, calling, app, crashed>>

\* ConnectionFinished: SetDefaultManagementComponents replaces _clientThread by
\* a new object and forgets _configEvaluator, then ConnectionClosed is raised.
\* Mutant: the finished object stays.
KeepClientThread(t) ==
    /\ At(t, "finished")
    /\ Enter(t, IF parent[t] = "client" THEN "reset" ELSE "dispose")
    /\ UNCHANGED <<current, evaluated, wrapper, native, calling, app, crashed>>
NewClientThread(t) ==
    /\ At(t, "finished")
    /\ current' = IF parent[t] = "client" THEN current + 1 ELSE current
    /\ Enter(t, IF parent[t] = "client" THEN "reset" ELSE "dispose")
    /\ UNCHANGED <<evaluated, wrapper, native, calling, app, crashed>>
ConnectionClosed(t) ==
    /\ At(t, "reset")
    /\ evaluated' = FALSE
    /\ IF switching
       THEN switching' = FALSE /\ todo' = [todo EXCEPT ![t] = RunNewConnection]
       ELSE \E script \in ClosedScripts : Begin(t, script) /\ UNCHANGED switching
    /\ Enter(t, "closed")
    /\ UNCHANGED <<current, at, on, wrapper, native, prompting, scripts, crashed>>

ClosedReturns(t) ==
    /\ At(t, "closed") /\ todo[t] = <<>>
    /\ Enter(t, "dispose")
    /\ UNCHANGED <<current, evaluated, wrapper, native, calling, app, crashed>>

\* Dispose deletes the native object; an object that had a parent gets a
\* Client of its own.
Dispose(t) ==
    /\ At(t, "dispose")
    /\ disposed' = [disposed EXCEPT ![ran[t]] = TRUE]
    /\ Enter(t, IF parent[t] = "null" THEN "done" ELSE "renew")
    /\ UNCHANGED <<configured, attached, session, foreign, stopped>>
    /\ UNCHANGED <<current, evaluated, wrapper, calling, app, crashed>>
RenewManager(t) ==
    /\ At(t, "renew")
    /\ manager' = [manager EXCEPT ![ran[t]] = "other"]
    /\ Enter(t, "done")
    /\ UNCHANGED <<current, evaluated, hasConnect, thread, native, calling, app, crashed>>

\* What a connection thread does once it is scheduled; what the session does
\* with the network is not up to it.
Run(t) ==
    \/ Attach(t) \/ Setup(t) \/ EnableForeignThreadAccess(t)
    \/ EstablishedReturns(t)
    \/ ReadManager(t) \/ ClearManager(t) \/ ClearThread(t) \/ ClearFlag(t)
    \/ NewClientThread(t) \/ ConnectionClosed(t) \/ ClosedReturns(t)
    \/ Dispose(t) \/ RenewManager(t)

Session(t) == Connected(t) \/ Reconnecting(t) \/ SessionEnds(t) \/ ConnectionTimeout(t)

Next ==
    \/ \E a \in Apps : AppCall(a) \/ TaskCall(a)
    \/ \E t \in Thread : Call(t)
    \/ \E t \in Runner : Run(t) \/ Session(t) \/ GracefulStop(t)

Safety == Init /\ [][Next]_vars

\* Threads are scheduled, and the event loop gets to what was posted to it
\* although events of the session keep coming (its queue is first in, first out).
Fairness ==
    /\ \A t \in Thread : WF_vars(Call(t))
    /\ \A t \in Runner : WF_vars(Run(t)) /\ SF_vars(GracefulStop(t))

Spec == Safety /\ Fairness

-----------------------------------------------------------------------------
(* Properties *)

Places == {"none", "attach", "setup", "enable", "loop", "established", "finalize", "manager",
           "thread", "flag", "finished", "reset", "closed", "dispose", "renew", "done"}
Steps == {"ready", "eval_config", "store", "provide_creds", "test", "mark", "manage", "start",
          "stop", "null?", "alive?", "reconnect", "reject",
          "first_value", "next", "last_value"}

TypeOK ==
    /\ current \in Object /\ evaluated \in BOOLEAN
    /\ hasConnect \in [Object -> BOOLEAN]
    /\ manager \in [Object -> {"client", "null", "other"}]
    /\ thread \in [Object -> Runner \cup {NoThread}]
    /\ configured \in [Object -> BOOLEAN] /\ attached \in [Object -> BOOLEAN]
    /\ session \in [Object -> {"none", "up", "connected", "down"}]
    /\ foreign \in [Object -> BOOLEAN] /\ stopped \in [Object -> BOOLEAN]
    /\ disposed \in [Object -> BOOLEAN]
    /\ where \in [Runner -> Places] /\ ran \in [Runner -> Object]
    /\ parent \in [Runner -> {"client", "null", "other"}]
    /\ todo \in [Thread -> Seq(Methods)] /\ at \in [Thread -> Steps] /\ on \in [Thread -> Object]
    /\ switching \in BOOLEAN /\ prompting \subseteq Tasks /\ scripts \in 0 .. MaxScripts
    /\ crashed \in BOOLEAN

\* A session that is up belongs to the object Client would stop, so that Stop,
\* ReconnectVPN and Show_stats reach it (SetDefaultManagementComponents).
SessionIsReachable == \A o \in Object : Live(o) => o = current

\* While a session is up its events have somewhere to go: the object's Manager
\* is the Client (FinalizeThread clears it only after connect() returns).
EventsReachClient == \A o \in Object : Live(o) => manager[o] = "client"

\* The process dies of no exception, and of one kind of call only: that of a
\* Task that has read Client._clientThread, was overtaken by EndClientThread,
\* which replaced the object and deleted it, and now enters the deleted one.  No
\* handler and no thread that connects meets a deleted object.
OnlyOvertakenCallsCrash ==
    crashed => \E a \in Tasks : todo[a] # <<>> /\ on[a] # current /\ disposed[on[a]]

\* connect() is not called on an object whose configuration has not been set:
\* what SetConfig was given is what Connect uses (both read _clientThread anew).
ConfiguredBeforeConnect == \A t \in Runner : where[t] = "setup" => configured[ran[t]]

\* The Client, the object it calls and the session in it belong together: for
\* the examples all of the above holds at once, although every field is read
\* and written without a lock.
ClientInControl ==
    /\ TypeOK
    /\ SessionIsReachable
    /\ EventsReachClient
    /\ ConfiguredBeforeConnect

\* One connection at a time, each opened, established and closed in turn: the
\* state of the threads in connect() is that of ConnectionLifecycle.
InConnect == {t \in Runner : where[t] \in {"attach", "setup", "enable", "loop", "established",
                                           "finalize", "manager", "thread", "flag", "finished"}}
Phase == IF InConnect = {} THEN "closed"
         ELSE IF Cardinality(InConnect) > 1 THEN "several"
         ELSE IF \E t \in InConnect : session[ran[t]] = "connected" THEN "connected"
         ELSE "open"
Lifecycle == INSTANCE ConnectionLifecycle WITH phase <- Phase
ImplementsLifecycle == Lifecycle!Spec

\* A Stop that the session has been told of closes the connection, all the way
\* to the deletion of the native object, unless the process dies before.
StopCloses == \A o \in Object : stopped[o] ~> disposed[o] \/ crashed

\* The switch of SwitchConnections_Example comes about: once Stop has been
\* called for it, another connection is started, unless the process dies before.
Started == Cardinality({t \in Runner : where[t] # "none"})
SwitchCompletes == \A k \in Runner : (switching /\ Started = k) ~> Started > k \/ crashed

-----------------------------------------------------------------------------
(* What the documentation says and the code does not do *)

\* SwitchConnections_Example: a second Connect before the first connection has
\* ended throws, so that there are never two sessions.
OneSession == \A o, q \in Object : Live(o) /\ Live(q) => o = q
=============================================================================
