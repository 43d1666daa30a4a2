--------------------------- MODULE NetClientProofs ---------------------------
(***************************************************************************)
(* Proofs about NetClient: for applications that use it as the examples do *)
(* its properties hold for any number of connections and of Tasks that     *)
(* call while a connection ends, whatever the handler of                   *)
(* ConnectionEstablished calls.                                            *)
(***************************************************************************)
EXTENDS NetClient, FiniteSetTheorems, TLAPS

QuietMethods == Methods \ {"AddCredentials", "Connect"}
Quiet(script) == \A i \in 1 .. Len(script) : script[i] \in QuietMethods

\* What the Tasks of SingleConnection_Example call.
HarmlessMethods == {"Stop", "ReconnectVPN", "Show_stats"}
Harmless(script) == \A i \in 1 .. Len(script) : script[i] \in HarmlessMethods

\* The premise of the theorems below.  The application opens its first
\* connection with RunNewConnection, on one thread, and each later one with
\* RunNewConnection when ConnectionClosed is raised, or calls nothing there
\* that needs a configuration.  What it calls in ConnectionEstablished is left
\* open, and its Tasks stop, restart and ask for statistics at any time.
AsTheExamples ==
    /\ MaxScripts <= 1 /\ AppScripts \subseteq {RunNewConnection}
    /\ \A script \in Commands : Harmless(script)
    /\ \A script \in ClosedScripts : script = RunNewConnection \/ Quiet(script)
    /\ "CoreEventReceived" \in Subscribed => "ConnectionTimedOut" \in Subscribed

-----------------------------------------------------------------------------
(* The inductive invariant *)

Ending == {"finalize", "manager", "thread", "flag", "finished"}
Connecting == {"attach", "setup", "enable", "loop", "established"} \cup Ending
Late == {"reset", "closed", "dispose", "renew", "done"}

\* No thread runs with the object that Client has now.
Unused == current \in Runner => where[current] = "none"

\* The connections come one after the other, the k-th with the k-th object: all
\* the threads before the current one have raised ConnectionClosed, or the last
\* of them is about to and there is no new one yet.
OrderInv ==
    /\ \A r \in Runner : r < current => where[r] \in Late
    /\ \A r \in Runner : r = current => where[r] \in Connecting \cup {"none"}
    /\ \A r \in Runner : r > current => where[r] = "none"
    /\ \A r \in Runner : where[r] # "none" => ran[r] = r
    /\ \A r \in Runner : where[r] = "reset" => r + 1 = current /\ Unused

\* An object no thread has run with.
Fresh(o) == manager[o] = "client" /\ thread[o] = NoThread /\ session[o] = "none" /\ ~disposed[o]

ObjectInv ==
    /\ \A o \in Object : o < current => ~Live(o)
    /\ \A o \in Object : o > current => Fresh(o) /\ ~hasConnect[o]
    /\ Unused => Fresh(current)

\* A connection under way, by the place its thread is in.
RunInv ==
    current \in Runner /\ where[current] # "none" =>
    /\ evaluated /\ configured[current] /\ ~disposed[current]
    /\ where[current] \notin {"thread", "flag", "finished"} => manager[current] = "client"
    /\ where[current] \notin {"flag", "finished"} => thread[current] = current
    /\ where[current] # "finished" => hasConnect[current]
    /\ where[current] \in Ending \ {"finalize"} => parent[current] = "client"
    /\ Live(current) <=> where[current] \in {"enable", "loop", "established"}

\* The threads that may connect: one of the application's before there is a
\* connection, the connection's in the handler of ConnectionEstablished, and in
\* that of ConnectionClosed before there is another.
Callers == Thread \ Tasks
Established(t) == t \in Runner /\ t = current /\ where[t] = "established"
Preparing(t) ==
    /\ Unused
    /\ \/ t \in Apps /\ current = 1 /\ scripts = 1
       \/ t \in Runner /\ t + 1 = current /\ where[t] = "closed"

\* How far a script is.  Between the two steps in which Connect marks the object
\* and starts its thread the object is marked; in the handler of
\* ConnectionEstablished it is, so that a Connect gets no further than the test.
ScriptInv(t) ==
    \/ Established(t) /\ at[t] \notin {"mark", "manage", "start"}
    \/ /\ Preparing(t)
       /\ at[t] # "alive?"
       /\ hasConnect[current] <=> at[t] \in {"manage", "start"}
       /\ \/ todo[t] = RunNewConnection /\ (at[t] = "store" => configured[current])
          \/ todo[t] \in {<<"AddCredentials", "Connect">>, <<"Connect">>} /\ evaluated /\ configured[current]
          \/ t \in Runner /\ Quiet(todo[t])

CallInv ==
    /\ \A t \in Callers : todo[t] = <<>> => at[t] = "ready"
    /\ \A t \in Callers : todo[t] # <<>> => ScriptInv(t)
    /\ \A t \in Callers : at[t] # "ready" => on[t] = current
    /\ \A t \in Runner : at[t] # "reject"
    /\ \A a, b \in Callers \ Runner : todo[a] # <<>> /\ todo[b] # <<>> => a = b
    /\ Unused /\ (\A t \in Callers : todo[t] = <<>>) => ~hasConnect[current]
    /\ scripts = 0 => current = 1 /\ Unused /\ \A t \in Callers : todo[t] = <<>>

\* A Task may be anywhere in what it calls, with an object of any age.
TaskInv == \A a \in Tasks : Harmless(todo[a])

Core == TypeOK /\ OrderInv /\ ObjectInv /\ RunInv /\ CallInv /\ TaskInv

\* The invariant of a process that lives, and the whole of it.
IInv == TypeOK /\ OrderInv /\ ObjectInv /\ RunInv /\ CallInv /\ TaskInv /\ ~crashed
Inv == Core /\ OnlyOvertakenCallsCrash

-----------------------------------------------------------------------------
(* Threads, objects and calls *)

LEMMA Threads ==
    /\ Runner \subseteq Object /\ Runner \subseteq Thread /\ Apps \subseteq Thread
    /\ \A t \in Runner : t \in Nat \ {0} /\ t + 1 \in Object /\ t \notin Apps
    /\ \A t \in Thread : t \in Runner \/ (t \in Apps /\ t \notin Runner)
    /\ Callers \subseteq Thread /\ Tasks \subseteq Thread /\ Runner \subseteq Callers
    /\ \A t \in Thread : t \in Callers <=> t \notin Tasks
    /\ Object \subseteq Nat /\ \A o \in Object : o \in Runner \/ o = MaxThreads + 1
BY BoundsAreNat, AppsAreNotThreads, TasksAreApps DEF Runner, Object, Thread, Callers

\* What a call changes.
CallTypes == todo \in [Thread -> Seq(Methods)] /\ at \in [Thread -> Steps] /\ on \in [Thread -> Object]
Alone(t) == \A u \in Thread \ {t} : todo'[u] = todo[u] /\ at'[u] = at[u] /\ on'[u] = on[u]

LEMMA GotoIs ==
    ASSUME TypeOK, NEW t \in Thread, NEW step \in Steps, Goto(t, step)
    PROVE  CallTypes' /\ Alone(t) /\ todo'[t] = todo[t] /\ at'[t] = step /\ on'[t] = on[t]
BY DEF TypeOK, Goto, CallTypes, Alone

LEMMA FetchIs ==
    ASSUME TypeOK, NEW t \in Thread, NEW step \in Steps, Fetch(t, step)
    PROVE  CallTypes' /\ Alone(t) /\ todo'[t] = todo[t] /\ at'[t] = step /\ on'[t] = current
BY DEF TypeOK, Fetch, CallTypes, Alone

LEMMA ReturnIs ==
    ASSUME TypeOK, NEW t \in Thread, todo[t] # <<>>, Return(t)
    PROVE  CallTypes' /\ Alone(t) /\ todo'[t] = Tail(todo[t]) /\ at'[t] = "ready" /\ on'[t] = on[t]
<1>1. Tail(todo[t]) \in Seq(Methods)
    BY DEF TypeOK
<1> QED BY <1>1 DEF TypeOK, Return, CallTypes, Alone, Steps

LEMMA ThrowIs ==
    ASSUME TypeOK, NEW t \in Thread, Throw(t)
    PROVE  /\ CallTypes' /\ Alone(t) /\ todo'[t] = <<>> /\ at'[t] = "ready" /\ on'[t] = on[t]
           /\ crashed' = (t \in Runner) /\ switching' = switching /\ prompting' \subseteq Tasks
BY DEF TypeOK, Throw, CallTypes, Alone, Steps

LEMMA ThrowTwiceIs ==
    ASSUME TypeOK, NEW t \in Thread, ThrowTwice(t)
    PROVE  /\ CallTypes' /\ Alone(t) /\ at'[t] = "ready" /\ on'[t] = on[t]
           /\ switching' \in BOOLEAN /\ prompting' = prompting /\ crashed' = crashed
<1>1. <<"Stop">> \in Seq(Methods) /\ <<>> \in Seq(Methods)
    BY DEF Methods
<1> DEFINE rest == IF SwitchOnTwice THEN <<"Stop">> ELSE <<>>
<1>2. todo' = [todo EXCEPT ![t] = rest] /\ at' = [at EXCEPT ![t] = "ready"] /\ on' = on
    BY DEF ThrowTwice
<1>3. rest \in Seq(Methods)
    BY <1>1
<1> HIDE DEF rest
<1>4. CallTypes' /\ Alone(t) /\ at'[t] = "ready" /\ on'[t] = on[t]
    BY <1>2, <1>3 DEF TypeOK, CallTypes, Alone, Steps
<1>5. switching' \in BOOLEAN /\ prompting' = prompting /\ crashed' = crashed
    BY ChoicesAreBool DEF ThrowTwice
<1> QED BY <1>4, <1>5

\* The first call of a script, and what is left of it.
LEMMA Scripts ==
    /\ RunNewConnection \in Seq(Methods) /\ RunNewConnection # <<>>
    /\ Head(RunNewConnection) = "SetConfig" /\ Tail(RunNewConnection) = <<"AddCredentials", "Connect">>
    /\ Head(<<"AddCredentials", "Connect">>) = "AddCredentials"
    /\ Tail(<<"AddCredentials", "Connect">>) = <<"Connect">>
    /\ Head(<<"Connect">>) = "Connect" /\ Tail(<<"Connect">>) = <<>>
BY DEF RunNewConnection, Methods

LEMMA QuietRest ==
    ASSUME NEW script \in Seq(Methods), script # <<>>, Quiet(script)
    PROVE  Head(script) \in QuietMethods /\ Quiet(Tail(script))
BY DEF Quiet

LEMMA HarmlessRest ==
    ASSUME NEW script \in Seq(Methods), script # <<>>, Harmless(script)
    PROVE  Head(script) \in HarmlessMethods /\ Harmless(Tail(script))
BY DEF Harmless

LEMMA CurrentLives == IInv => ~disposed[current]
BY Threads DEF IInv, TypeOK, ObjectInv, Fresh, RunInv, Unused

\* Of the others there is one thread that calls, and it works with the current object.
LEMMA OneCaller ==
    ASSUME IInv, NEW t \in Callers, todo[t] # <<>>
    PROVE  /\ \A u \in Callers \ {t} : todo[u] = <<>> /\ at[u] = "ready"
           /\ ScriptInv(t)
           /\ at[t] # "ready" => on[t] = current
           /\ ~disposed[current] /\ scripts # 0
<1>1. ScriptInv(t) /\ (at[t] # "ready" => on[t] = current) /\ scripts # 0
    BY DEF IInv, CallInv
<1>2. ASSUME NEW u \in Callers \ {t}
      PROVE  todo[u] = <<>>
  <2>1. SUFFICES ASSUME todo[u] # <<>> PROVE FALSE
    OBVIOUS
  <2>2. Established(t) \/ Preparing(t)
    BY <1>1 DEF ScriptInv
  <2>3. Established(u) \/ Preparing(u)
    BY <2>1 DEF IInv, CallInv, ScriptInv
  <2>4. current \in Object
    BY DEF IInv, TypeOK
  <2>5. CASE t \notin Runner /\ u \notin Runner
    BY <2>1, <2>5 DEF IInv, CallInv
  <2>6. CASE t \in Runner
    BY <2>2, <2>3, <2>4, <2>6, Threads DEF Established, Preparing, Unused
  <2>7. CASE u \in Runner
    BY <2>2, <2>3, <2>4, <2>7, Threads DEF Established, Preparing, Unused
  <2> QED
    BY <2>5, <2>6, <2>7
<1> QED
  BY <1>1, <1>2, CurrentLives DEF IInv, CallInv

-----------------------------------------------------------------------------
(* The calls *)

LEMMA CallerKeeps ==
    ASSUME IInv, NEW t \in Callers, todo[t] # <<>>, CallTypes', Alone(t),
           UNCHANGED <<current, manager, thread, running, attached, session, foreign, disposed,
                       scripts, crashed>>,
           switching' \in BOOLEAN, prompting' \subseteq Tasks, stopped' \in [Object -> BOOLEAN],
           evaluated' \in BOOLEAN, evaluated => evaluated',
           configured' \in [Object -> BOOLEAN], \A o \in Object : configured[o] => configured'[o],
           hasConnect' \in [Object -> BOOLEAN], hasConnect[current] => hasConnect'[current],
           \A o \in Object \ {current} : hasConnect'[o] = hasConnect[o],
           todo'[t] = <<>> => at'[t] = "ready",
           at'[t] # "ready" => on'[t] = current,
           t \in Runner => at'[t] # "reject",
           todo'[t] # <<>> => ScriptInv(t)',
           todo'[t] = <<>> /\ Unused => ~hasConnect'[current]
    PROVE  IInv'
<1>1. TypeOK'
    BY DEF IInv, TypeOK, CallTypes, running
<1>2. OrderInv' /\ (Unused' <=> Unused)
    BY DEF IInv, OrderInv, Unused, running
<1>3. ObjectInv'
    BY <1>2, Threads DEF IInv, TypeOK, ObjectInv, Fresh, Live, running
<1>4. RunInv'
    BY Threads DEF IInv, TypeOK, RunInv, Live, running
<1>5. \A u \in Callers \ {t} : todo'[u] = <<>> /\ at'[u] = "ready"
    BY OneCaller, Threads DEF Alone
<1>6. scripts' # 0
    BY OneCaller
<1>7. CallInv'
  <2>1. \A u \in Callers : (todo[u] = <<>> => at[u] = "ready")'
    BY <1>5
  <2>2. \A u \in Callers : (todo[u] # <<>> => ScriptInv(u))'
    BY <1>5
  <2>3. \A u \in Callers : (at[u] # "ready" => on[u] = current)'
    BY <1>5
  <2>4. \A u \in Runner : at'[u] # "reject"
    BY <1>5, Threads
  <2>5. \A a, b \in Callers \ Runner : todo'[a] # <<>> /\ todo'[b] # <<>> => a = b
    BY <1>5
  <2>6. (Unused /\ (\A u \in Callers : todo[u] = <<>>) => ~hasConnect[current])'
    BY <1>2
  <2> QED
    BY <1>6, <2>1, <2>2, <2>3, <2>4, <2>5, <2>6 DEF CallInv
<1>8. TaskInv'
    BY Threads DEF IInv, TaskInv, Alone
<1> QED
    BY <1>1, <1>2, <1>3, <1>4, <1>7, <1>8 DEF IInv

\* A caller that goes on in the same call, or in the next one, is still in the
\* handler or before the connection it was in.
LEMMA SamePlace ==
    ASSUME UNCHANGED <<current, running, scripts>>, NEW t
    PROVE  (Established(t)' <=> Established(t)) /\ (Preparing(t)' <=> Preparing(t))
           /\ (Unused' <=> Unused)
BY DEF Established, Preparing, Unused, running

\* The calls that take a step without effect on the objects.
LEMMA StepsOn ==
    ASSUME IInv, NEW t \in Callers, todo[t] # <<>>, CallTypes', Alone(t), todo'[t] = todo[t],
           UNCHANGED <<current, evaluated, wrapper, native, running, app, crashed>>,
           at[t] \notin {"manage", "start"},
           at'[t] \notin {"ready", "store", "reject", "mark", "manage", "start"}, on'[t] = current,
           Preparing(t) => at'[t] # "alive?"
    PROVE  IInv'
<1>1. ScriptInv(t)
    BY OneCaller
<1>2. /\ hasConnect' = hasConnect /\ configured' = configured /\ evaluated' = evaluated
      /\ Established(t)' <=> Established(t)
      /\ Preparing(t)' <=> Preparing(t)
      /\ current' = current
    BY SamePlace DEF wrapper, native, app
<1>3. ScriptInv(t)'
    BY <1>1, <1>2 DEF ScriptInv
<1> QED
    BY <1>3, CallerKeeps DEF IInv, TypeOK, wrapper, native, app

\* The calls that end without effect on the objects, or with an exception.
LEMMA Ends ==
    ASSUME IInv, NEW t \in Callers, todo[t] # <<>>, CallTypes', Alone(t),
           UNCHANGED <<current, wrapper, native, running, scripts, crashed>>,
           switching' \in BOOLEAN, prompting' \subseteq Tasks, evaluated' \in BOOLEAN, evaluated => evaluated',
           at[t] \notin {"manage", "start"}, at'[t] = "ready",
           \/ todo'[t] = <<>>
           \/ /\ todo'[t] = Tail(todo[t])
              /\ Head(todo[t]) = "SetConfig" => at[t] = "store" /\ evaluated'
              /\ Head(todo[t]) # "Connect"
    PROVE  IInv'
<1>1. todo[t] \in Seq(Methods)
    BY Threads DEF IInv, TypeOK
<1>2. todo'[t] # <<>> => ScriptInv(t)'
    BY <1>1, SamePlace, OneCaller, Scripts, QuietRest DEF ScriptInv, QuietMethods, wrapper, native
<1>3. Unused => ~hasConnect[current]
    BY OneCaller, Threads DEF ScriptInv, Established, Unused
<1> QED
    BY <1>2, <1>3, CallerKeeps DEF IInv, TypeOK, wrapper, native

LEMMA CallingIs ==
    ASSUME IInv, NEW t \in Callers, NEW method, NEW step, Calling(t, method, step)
    PROVE  /\ todo[t] # <<>> /\ Head(todo[t]) = method /\ at[t] = step
           /\ step # "ready" => on[t] = current /\ ~disposed[on[t]]
BY OneCaller DEF Calling

\* The methods that begin with a read of Client._clientThread.
LEMMA FetchKeeps ==
    ASSUME IInv, NEW t \in Callers, NEW method, Calling(t, method, "ready"),
           NEW step \in {"eval_config", "test", "stop", "null?"}, Fetch(t, step),
           UNCHANGED <<current, evaluated, wrapper, native, running, app, crashed>>
    PROVE  IInv'
<1>1. step \in Steps
    BY DEF Steps
<1>2. todo[t] # <<>> /\ at[t] = "ready"
    BY DEF Calling
<1>3. CallTypes' /\ Alone(t) /\ todo'[t] = todo[t] /\ at'[t] = step /\ on'[t] = current
    BY <1>1, FetchIs, Threads DEF IInv
<1> QED
    BY <1>2, <1>3, StepsOn

LEMMA SetConfigFetchKeeps == ASSUME IInv, NEW t \in Callers, SetConfigFetch(t) PROVE IInv'
BY FetchKeeps DEF SetConfigFetch

LEMMA EvalConfigKeeps == ASSUME IInv, NEW t \in Callers, EvalConfig(t) PROVE IInv'
<1>1. todo[t] # <<>> /\ at[t] = "eval_config" /\ on[t] = current /\ ~disposed[on[t]]
    BY CallingIs DEF EvalConfig
<1>2. CASE configured' = [configured EXCEPT ![on[t]] = TRUE] /\ Goto(t, "store")
  <2>1. CallTypes' /\ Alone(t) /\ todo'[t] = todo[t] /\ at'[t] = "store" /\ on'[t] = on[t]
    BY <1>2, GotoIs, Threads DEF IInv, Steps
  <2>2. configured'[current] /\ configured' \in [Object -> BOOLEAN]
        /\ \A o \in Object : configured[o] => configured'[o]
    BY <1>1, <1>2 DEF IInv, TypeOK
  <2>3. ScriptInv(t)'
    BY <1>1, <2>1, <2>2, OneCaller, SamePlace DEF EvalConfig, ScriptInv, wrapper, app
  <2>4. UNCHANGED <<attached, session, foreign, stopped, disposed, crashed>>
    BY <1>1 DEF EvalConfig, NativeCall
  <2> QED
    BY <1>1, <2>1, <2>2, <2>3, <2>4, CallerKeeps DEF IInv, TypeOK, EvalConfig, wrapper, app
<1>3. CASE t \in BadConfigs /\ Goto(t, "reject") /\ UNCHANGED configured
  <2>1. CallTypes' /\ Alone(t) /\ todo'[t] = todo[t] /\ at'[t] = "reject" /\ on'[t] = on[t]
    BY <1>3, GotoIs, Threads DEF IInv, Steps
  <2>2. t \notin Runner
    BY <1>3, BadConfigsOfApps, Threads
  <2>3. UNCHANGED <<attached, session, foreign, stopped, disposed, crashed>>
    BY <1>1 DEF EvalConfig, NativeCall
  <2>4. ScriptInv(t)'
    BY <1>1, <1>3, <2>1, <2>2, OneCaller, SamePlace DEF EvalConfig, ScriptInv, wrapper, app
  <2> QED
    BY <1>1, <1>3, <2>1, <2>2, <2>3, <2>4, CallerKeeps DEF IInv, TypeOK, EvalConfig, wrapper, app
<1> QED
    BY <1>1, <1>2, <1>3 DEF EvalConfig, NativeCall

LEMMA SetConfigStoreKeeps == ASSUME IInv, NEW t \in Callers, SetConfigStore(t) PROVE IInv'
<1>1. todo[t] # <<>> /\ Head(todo[t]) = "SetConfig" /\ at[t] = "store"
    BY CallingIs DEF SetConfigStore
<1> QED
    BY <1>1, ReturnIs, Ends, Threads DEF IInv, TypeOK, SetConfigStore, app

LEMMA SetConfigRejectKeeps == ASSUME IInv, NEW t \in Callers, SetConfigReject(t) PROVE IInv'
<1>1. todo[t] # <<>> /\ at[t] = "reject"
    BY CallingIs DEF SetConfigReject
<1>2. t \notin Runner
    BY <1>1 DEF IInv, CallInv
<1>3. ~crashed /\ evaluated' = TRUE
    BY DEF IInv, SetConfigReject
<1>4. CallTypes' /\ Alone(t) /\ todo'[t] = <<>> /\ at'[t] = "ready" /\ ~crashed'
      /\ switching' = switching /\ prompting' \subseteq Tasks
    BY <1>2, ThrowIs, Threads DEF IInv, SetConfigReject
<1>5. crashed' = crashed
  <2>1. crashed' \in BOOLEAN /\ crashed \in BOOLEAN
    BY DEF SetConfigReject, Throw, IInv, TypeOK
  <2> QED
    BY <1>3, <1>4, <2>1
<1> QED
    BY <1>1, <1>3, <1>4, <1>5, Ends, Threads DEF IInv, TypeOK, SetConfigReject

\* The callers who have no configuration yet do not get to AddCredentials.
LEMMA AddCredentialsKeeps == ASSUME IInv, NEW t \in Callers, AddCredentials(t) PROVE IInv'
<1>1. todo[t] # <<>> /\ Head(todo[t]) = "AddCredentials" /\ at[t] = "ready"
    BY CallingIs DEF AddCredentials
<1>2. evaluated
  <2>1. CASE Established(t)
    BY <2>1, Threads DEF IInv, Established, RunInv
  <2>2. CASE ~Established(t)
    <3>1. todo[t] \in Seq(Methods)
      BY Threads DEF IInv, TypeOK
    <3> QED
      BY <1>1, <2>2, <3>1, OneCaller, Scripts, QuietRest DEF ScriptInv, QuietMethods
  <2> QED
    BY <2>1, <2>2
<1>3. Fetch(t, "provide_creds") /\ UNCHANGED <<crashed, switching, prompting>>
    BY <1>2 DEF AddCredentials
<1>4. "provide_creds" \in Steps
    BY DEF Steps
<1> QED
    BY <1>1, <1>3, <1>4, FetchIs, StepsOn, Threads DEF IInv, AddCredentials, app

LEMMA ProvideCredsKeeps == ASSUME IInv, NEW t \in Callers, ProvideCreds(t) PROVE IInv'
<1>1. todo[t] # <<>> /\ Head(todo[t]) = "AddCredentials" /\ at[t] = "provide_creds" /\ ~disposed[on[t]]
    BY CallingIs DEF ProvideCreds
<1>2. Return(t) /\ UNCHANGED <<native, crashed>>
    BY <1>1 DEF ProvideCreds, NativeCall
<1> QED
    BY <1>1, <1>2, ReturnIs, Ends, Threads DEF IInv, TypeOK, ProvideCreds, app

LEMMA ConnectFetchKeeps == ASSUME IInv, NEW t \in Callers, ConnectFetch(t) PROVE IInv'
BY FetchKeeps DEF ConnectFetch

\* In a handler of ConnectionEstablished the object is marked.
LEMMA EstablishedIsMarked ==
    ASSUME IInv, NEW t \in Callers, Established(t)
    PROVE  hasConnect[current] /\ thread[current] = t /\ where[t] = "established"
BY Threads DEF IInv, RunInv, Established

\* A caller in Connect that has a connection to make.
LEMMA ToConnect ==
    ASSUME IInv, NEW t \in Callers, todo[t] # <<>>, Head(todo[t]) = "Connect", ~Established(t)
    PROVE  todo[t] = <<"Connect">> /\ Preparing(t) /\ evaluated /\ configured[current]
<1>1. todo[t] \in Seq(Methods)
    BY Threads DEF IInv, TypeOK
<1> QED
    BY <1>1, OneCaller, Scripts, QuietRest DEF ScriptInv, QuietMethods

LEMMA ConnectTestKeeps == ASSUME IInv, NEW t \in Callers, ConnectTest(t) PROVE IInv'
<1>1. todo[t] # <<>> /\ Head(todo[t]) = "Connect" /\ at[t] = "test" /\ on[t] = current
    BY CallingIs DEF ConnectTest
<1>2. CASE Established(t)
  <2>1. ThrowTwice(t)
    BY <1>1, <1>2, EstablishedIsMarked DEF ConnectTest
  <2>2. /\ CallTypes' /\ Alone(t) /\ at'[t] = "ready" /\ crashed' = crashed
        /\ switching' \in BOOLEAN /\ prompting' = prompting
    BY <2>1, ThrowTwiceIs, Threads DEF IInv
  <2>3. ScriptInv(t)'
    BY <1>2, <2>2, SamePlace DEF ConnectTest, ScriptInv
  <2>4. t \in Runner /\ ~Unused
    BY <1>2 DEF Established, Unused
  <2>5. todo'[t] = <<>> => at'[t] = "ready"
    BY <2>2
  <2> QED
    BY <1>1, <2>2, <2>3, <2>4, CallerKeeps, Threads DEF IInv, TypeOK, ConnectTest, wrapper, native
<1>3. CASE ~Established(t)
  <2>1. Preparing(t) /\ ~hasConnect[current] /\ todo[t] = <<"Connect">> /\ evaluated /\ configured[current]
    BY <1>1, <1>3, ToConnect, OneCaller DEF ScriptInv
  <2>2. Goto(t, "mark") /\ UNCHANGED <<crashed, switching, prompting>>
    BY <1>1, <2>1 DEF ConnectTest
  <2>3. CallTypes' /\ Alone(t) /\ todo'[t] = todo[t] /\ at'[t] = "mark" /\ on'[t] = on[t]
    BY <2>2, GotoIs, Threads DEF IInv, Steps
  <2>4. ScriptInv(t)'
    BY <2>1, <2>3, SamePlace DEF ConnectTest, ScriptInv, wrapper, native
  <2> QED
    BY <1>1, <2>2, <2>3, <2>4, CallerKeeps DEF IInv, TypeOK, ConnectTest, wrapper, native
<1> QED
    BY <1>2, <1>3

LEMMA ConnectMarkKeeps == ASSUME IInv, NEW t \in Callers, ConnectMark(t) PROVE IInv'
<1>1. todo[t] # <<>> /\ Head(todo[t]) = "Connect" /\ at[t] = "mark" /\ on[t] = current
    BY CallingIs DEF ConnectMark
<1>2. ~Established(t)
    BY <1>1, OneCaller DEF ScriptInv, Preparing, Established, Unused
<1>3. Preparing(t) /\ todo[t] = <<"Connect">> /\ evaluated /\ configured[current]
    BY <1>1, <1>2, ToConnect
<1>4. CallTypes' /\ Alone(t) /\ todo'[t] = todo[t] /\ at'[t] = "manage" /\ on'[t] = on[t]
    BY GotoIs, Threads DEF IInv, Steps, ConnectMark
<1>5. /\ hasConnect' \in [Object -> BOOLEAN] /\ hasConnect'[current]
      /\ \A o \in Object \ {current} : hasConnect'[o] = hasConnect[o]
    BY <1>1 DEF ConnectMark, IInv, TypeOK
<1>6. ScriptInv(t)'
    BY <1>3, <1>4, <1>5, SamePlace DEF ConnectMark, ScriptInv, native, app
<1> QED
    BY <1>1, <1>4, <1>5, <1>6, CallerKeeps DEF IInv, TypeOK, ConnectMark, native, app

LEMMA ConnectManageKeeps == ASSUME IInv, NEW t \in Callers, ConnectManage(t) PROVE IInv'
<1>1. todo[t] # <<>> /\ Head(todo[t]) = "Connect" /\ at[t] = "manage" /\ on[t] = current
    BY CallingIs DEF ConnectManage
<1>2. ~Established(t)
    BY <1>1, OneCaller DEF ScriptInv, Preparing, Established, Unused
<1>3. Preparing(t) /\ todo[t] = <<"Connect">> /\ evaluated /\ configured[current]
    BY <1>1, <1>2, ToConnect
<1>4. CallTypes' /\ Alone(t) /\ todo'[t] = todo[t] /\ at'[t] = "start" /\ on'[t] = on[t]
    BY GotoIs, Threads DEF IInv, Steps, ConnectManage
<1>5. manager' = manager
    BY <1>1, <1>3 DEF ConnectManage, IInv, TypeOK, ObjectInv, Fresh, Preparing
<1>6. hasConnect[current]
    BY <1>1, <1>2, OneCaller DEF ScriptInv
<1>7. ScriptInv(t)'
    BY <1>3, <1>4, <1>6, SamePlace DEF ConnectManage, ScriptInv, native, app
<1> QED
    BY <1>1, <1>4, <1>5, <1>7, CallerKeeps DEF IInv, TypeOK, ConnectManage, native, app

LEMMA ConnectStartKeeps == ASSUME IInv, NEW t \in Callers, ConnectStart(t) PROVE IInv'
<1>1. todo[t] # <<>> /\ Head(todo[t]) = "Connect" /\ at[t] = "start" /\ on[t] = current
    BY CallingIs DEF ConnectStart
<1>2. ~Established(t)
    BY <1>1, OneCaller DEF ScriptInv, Preparing, Established, Unused
<1>3. /\ Preparing(t) /\ todo[t] = <<"Connect">> /\ evaluated /\ configured[current]
      /\ hasConnect[current] /\ Fresh(current)
    BY <1>1, <1>2, ToConnect, OneCaller DEF ScriptInv, Preparing, IInv, ObjectInv
<1>4. CallTypes' /\ Alone(t) /\ todo'[t] = <<>> /\ at'[t] = "ready" /\ on'[t] = on[t]
  <2>1. Return(t) /\ Tail(todo[t]) = <<>>
    BY <1>3, Scripts DEF ConnectStart
  <2> QED
    BY <1>1, <2>1, ReturnIs, Threads DEF IInv
<1>5. /\ current \in Runner /\ where[current] = "none"
      /\ thread' = [thread EXCEPT ![current] = current]
      /\ where' = [where EXCEPT ![current] = "attach"]
      /\ ran' = [ran EXCEPT ![current] = current]
  <2>1. PICK r \in Runner :
           /\ where[r] = "none" /\ \A q \in 1 .. (r - 1) : where[q] # "none"
           /\ thread' = [thread EXCEPT ![on[t]] = r]
           /\ where' = [where EXCEPT ![r] = "attach"]
           /\ ran' = [ran EXCEPT ![r] = on[t]]
    BY DEF ConnectStart
  <2>2. ~(r < current)
    BY <2>1 DEF IInv, OrderInv, Late
  <2>3. ~(current < r)
    <3>1. SUFFICES ASSUME current < r PROVE FALSE
      OBVIOUS
    <3>2. current \in Runner /\ current \in 1 .. (r - 1)
      BY <3>1, Threads DEF IInv, TypeOK, Runner, Object
    <3>3. where[current] = "none"
      BY <1>3, <3>2 DEF Preparing, Unused
    <3> QED
      BY <2>1, <3>2, <3>3
  <2>4. r = current
    BY <2>2, <2>3, Threads DEF IInv, TypeOK
  <2> QED
    BY <1>1, <2>1, <2>4
<1>6. \A r \in Runner : where[r] # "reset"
    BY <1>3, Threads DEF IInv, OrderInv, Preparing, TypeOK
<1>7. TypeOK'
    BY <1>4, <1>5, Threads DEF IInv, TypeOK, CallTypes, ConnectStart, native, app, Places
<1>8. OrderInv'
  <2>1. current' = current /\ \A r \in Runner : r # current => where'[r] = where[r] /\ ran'[r] = ran[r]
    BY <1>5 DEF IInv, TypeOK, ConnectStart
  <2>2. where'[current] = "attach" /\ ran'[current] = current /\ current \in Nat
    BY <1>5, Threads DEF IInv, TypeOK
  <2> QED
    BY <1>6, <2>1, <2>2, Threads DEF IInv, OrderInv, Connecting
<1>9. ObjectInv'
  <2>1. ~Unused'
    BY <1>5 DEF IInv, TypeOK, Unused, ConnectStart
  <2>2. /\ current' = current /\ UNCHANGED <<hasConnect, manager, session, disposed>>
        /\ \A o \in Object : o # current => thread'[o] = thread[o]
    BY <1>5 DEF IInv, TypeOK, ConnectStart, native
  <2> QED
    BY <2>1, <2>2, Threads DEF IInv, TypeOK, ObjectInv, Fresh, Live
<1>10. RunInv'
    BY <1>3, <1>5, Threads DEF IInv, TypeOK, RunInv, Fresh, Live, Ending, ConnectStart, native
<1>11. \A u \in Callers : todo'[u] = <<>> /\ at'[u] = "ready"
    BY <1>1, <1>4, OneCaller, Threads DEF Alone
<1>12. CallInv'
    BY <1>1, <1>5, <1>11, OneCaller, Threads DEF IInv, TypeOK, CallInv, Unused, ConnectStart, app
<1>13. TaskInv'
    BY <1>4, Threads DEF IInv, TaskInv, Alone
<1> QED
    BY <1>7, <1>8, <1>9, <1>10, <1>12, <1>13 DEF IInv, ConnectStart

LEMMA StopFetchKeeps == ASSUME IInv, NEW t \in Callers, StopFetch(t) PROVE IInv'
BY FetchKeeps DEF StopFetch

\* A call that returns leaves less of its script, unless that is a Connect.
LEMMA Returns ==
    ASSUME IInv, NEW t \in Callers, todo[t] # <<>>, CallTypes', Alone(t),
           UNCHANGED <<current, evaluated, wrapper, configured, attached, session, foreign, disposed,
                       running, app, crashed>>,
           stopped' \in [Object -> BOOLEAN],
           at[t] \notin {"manage", "start"}, at'[t] = "ready", todo'[t] = Tail(todo[t]),
           Head(todo[t]) \notin {"SetConfig", "Connect"}
    PROVE  IInv'
<1>1. todo[t] \in Seq(Methods)
    BY Threads DEF IInv, TypeOK
<1>2. todo'[t] # <<>> => ScriptInv(t)'
    BY <1>1, SamePlace, OneCaller, Scripts, QuietRest DEF ScriptInv, QuietMethods, wrapper, app
<1>3. Unused => ~hasConnect[current]
    BY OneCaller, Threads DEF ScriptInv, Established, Unused
<1> QED
    BY <1>2, <1>3, CallerKeeps DEF IInv, TypeOK, wrapper, app

LEMMA StopKeeps == ASSUME IInv, NEW t \in Callers, Stop(t) PROVE IInv'
<1>1. todo[t] # <<>> /\ Head(todo[t]) = "Stop" /\ at[t] = "stop" /\ on[t] = current /\ ~disposed[on[t]]
    BY CallingIs DEF Stop
<1>2. /\ stopped' = [stopped EXCEPT ![on[t]] = @ \/ foreign[on[t]]]
      /\ Return(t)
      /\ UNCHANGED <<configured, attached, session, foreign, disposed, crashed>>
    BY <1>1 DEF Stop, NativeCall
<1>3. stopped' \in [Object -> BOOLEAN]
    BY <1>2 DEF IInv, TypeOK
<1> QED
    BY <1>1, <1>2, <1>3, ReturnIs, Returns, Threads DEF IInv, Stop

LEMMA ReconnectFetchKeeps == ASSUME IInv, NEW t \in Callers, ReconnectFetch(t) PROVE IInv'
BY FetchKeeps DEF ReconnectFetch

\* Before there is a connection the object has no thread.
LEMMA IsNotNullKeeps == ASSUME IInv, NEW t \in Callers, IsNotNull(t) PROVE IInv'
<1>1. todo[t] # <<>> /\ Head(todo[t]) = "ReconnectVPN" /\ at[t] = "null?" /\ on[t] = current
    BY CallingIs DEF IsNotNull
<1>2. CASE thread[current] = NoThread
  <2>1. Return(t)
    BY <1>1, <1>2 DEF IsNotNull
  <2> QED
    BY <1>1, <2>1, ReturnIs, Returns, Threads DEF IInv, TypeOK, IsNotNull, native
<1>3. CASE thread[current] # NoThread
  <2>1. Goto(t, "alive?") /\ ~Preparing(t)
    BY <1>1, <1>3 DEF IsNotNull, IInv, ObjectInv, Fresh, Preparing
  <2>2. "alive?" \in Steps
    BY DEF Steps
  <2> QED
    BY <1>1, <2>1, <2>2, GotoIs, StepsOn, Threads DEF IInv, IsNotNull
<1> QED
    BY <1>2, <1>3

\* In the handler of ConnectionEstablished it still has one at the second read.
LEMMA IsAliveKeeps == ASSUME IInv, NEW t \in Callers, IsAlive(t) PROVE IInv'
<1>1. todo[t] # <<>> /\ Head(todo[t]) = "ReconnectVPN" /\ at[t] = "alive?" /\ on[t] = current
    BY CallingIs DEF IsAlive
<1>2. thread[current] = t /\ where[t] = "established" /\ t \in Nat \ {0}
    BY <1>1, OneCaller, EstablishedIsMarked, Threads DEF ScriptInv, Established
<1>3. Fetch(t, "reconnect") /\ UNCHANGED <<crashed, switching, prompting>>
    BY <1>1, <1>2 DEF IsAlive, NoThread
<1>4. "reconnect" \in Steps
    BY DEF Steps
<1>5. CallTypes' /\ Alone(t) /\ todo'[t] = todo[t] /\ at'[t] = "reconnect" /\ on'[t] = current
    BY <1>3, <1>4, FetchIs, Threads DEF IInv
<1>6. UNCHANGED <<current, evaluated, wrapper, native, running, app, crashed>>
    BY <1>3 DEF IsAlive, app
<1>7. ~Preparing(t) \/ at'[t] # "alive?"
    BY <1>5
<1> QED
    BY <1>1, <1>5, <1>6, <1>7, StepsOn

LEMMA ReconnectKeeps == ASSUME IInv, NEW t \in Callers, Reconnect(t) PROVE IInv'
<1>1. todo[t] # <<>> /\ Head(todo[t]) = "ReconnectVPN" /\ at[t] = "reconnect" /\ ~disposed[on[t]]
    BY CallingIs DEF Reconnect
<1>2. Return(t) /\ UNCHANGED <<native, crashed>>
    BY <1>1 DEF Reconnect, NativeCall
<1> QED
    BY <1>1, <1>2, ReturnIs, Returns, Threads DEF IInv, TypeOK, Reconnect, native

LEMMA StatsFetchKeeps == ASSUME IInv, NEW t \in Callers, StatsFetch(t) PROVE IInv'
<1>1. "first_value" \in Steps /\ "last_value" \in Steps
    BY DEF Steps
<1>2. todo[t] # <<>> /\ at[t] \in {"ready", "next"}
    BY CallingIs DEF StatsFetch
<1> QED
    BY <1>1, <1>2, FetchIs, StepsOn, Threads DEF IInv, StatsFetch

LEMMA StatsValueKeeps == ASSUME IInv, NEW t \in Callers, StatsValue(t) PROVE IInv'
<1>1. /\ todo[t] # <<>> /\ Head(todo[t]) = "Show_stats" /\ at[t] \in {"first_value", "last_value"}
      /\ on[t] = current /\ ~disposed[on[t]]
    BY CallingIs DEF StatsValue
<1>2. UNCHANGED <<native, crashed>> /\ (Goto(t, "next") \/ Return(t))
    BY <1>1 DEF StatsValue, NativeCall
<1>3. CASE Goto(t, "next")
  <2>1. "next" \in Steps
    BY DEF Steps
  <2> QED
    BY <1>1, <1>2, <1>3, <2>1, GotoIs, StepsOn, Threads DEF IInv, StatsValue
<1>4. CASE Return(t)
    BY <1>1, <1>2, <1>4, ReturnIs, Returns, Threads DEF IInv, TypeOK, StatsValue, native
<1> QED
    BY <1>2, <1>3, <1>4

LEMMA CallKeeps == ASSUME IInv, NEW t \in Callers, Call(t) PROVE IInv'
BY SetConfigFetchKeeps, EvalConfigKeeps, SetConfigStoreKeeps, SetConfigRejectKeeps, AddCredentialsKeeps,
   ProvideCredsKeeps, ConnectFetchKeeps, ConnectTestKeeps, ConnectMarkKeeps, ConnectManageKeeps,
   ConnectStartKeeps, StopFetchKeeps, StopKeeps, ReconnectFetchKeeps, IsNotNullKeeps, IsAliveKeeps,
   ReconnectKeeps, StatsFetchKeeps, StatsValueKeeps DEF Call

-----------------------------------------------------------------------------
(* The application *)

\* At the start of a script nothing has been marked, because nobody calls.
LEMMA BeginKeeps ==
    ASSUME IInv, NEW t \in Callers, NEW script \in Seq(Methods), Preparing(t)',
           \A u \in Callers : todo[u] = <<>>, Unused,
           todo' = [todo EXCEPT ![t] = script], UNCHANGED <<at, on>>,
           current' = current, hasConnect' = hasConnect,
           scripts' # 0,
           script = RunNewConnection \/ script = <<>> \/ (t \in Runner /\ Quiet(script))
    PROVE  CallInv'
<1>1. \A u \in Callers \ {t} : todo'[u] = <<>>
    BY DEF IInv, TypeOK
<1>2. \A u \in Callers : at'[u] = "ready"
    BY DEF IInv, CallInv
<1>3. ~hasConnect'[current]
    BY DEF IInv, CallInv
<1>4. todo'[t] = script
    BY Threads DEF IInv, TypeOK
<1>5. todo'[t] # <<>> => ScriptInv(t)'
    BY <1>2, <1>3, <1>4 DEF ScriptInv
<1> QED
    BY <1>1, <1>2, <1>3, <1>5, Threads DEF CallInv

LEMMA AppCallKeeps == ASSUME IInv, AsTheExamples, NEW a \in Apps, AppCall(a) PROVE IInv'
<1>0. a \in Callers
    BY Threads DEF AppCall
<1>1. scripts = 0 /\ scripts' = 1 /\ MaxScripts = 1
    BY BoundsAreNat DEF AppCall, AsTheExamples, IInv, TypeOK
<1>2. todo' = [todo EXCEPT ![a] = RunNewConnection] /\ UNCHANGED <<at, on>>
    BY DEF AppCall, Begin, AsTheExamples
<1>3. current = 1 /\ Unused /\ \A t \in Callers : todo[t] = <<>>
    BY <1>1 DEF IInv, CallInv
<1>4. TypeOK'
  <2>1. todo' \in [Thread -> Seq(Methods)] /\ scripts' \in 0 .. MaxScripts
    <3>1. scripts' \in 0 .. MaxScripts
      BY <1>1
    <3> QED
      BY <1>2, <3>1, Scripts DEF IInv, TypeOK
  <2> QED
    BY <1>2, <2>1 DEF IInv, TypeOK, AppCall, wrapper, native, running
<1>5. OrderInv' /\ ObjectInv' /\ RunInv' /\ ~crashed' /\ Unused'
    BY <1>3 DEF IInv, OrderInv, ObjectInv, RunInv, Fresh, Live, Unused, AppCall, wrapper, native, running
<1>6. Preparing(a)'
    BY <1>1, <1>3, <1>5 DEF Preparing, AppCall
<1>7. CallInv'
  <2>1. a \in Callers /\ RunNewConnection \in Seq(Methods)
    BY <1>0, Scripts
  <2>2. current' = current /\ hasConnect' = hasConnect /\ where' = where
    BY DEF AppCall, wrapper, running
  <2>3. scripts' # 0
    BY <1>1
  <2> QED
    BY <1>2, <1>3, <1>6, <2>1, <2>2, <2>3, BeginKeeps
<1>8. TaskInv'
    BY <1>0, <1>2, Threads DEF IInv, TypeOK, TaskInv
<1> QED
    BY <1>4, <1>5, <1>7, <1>8 DEF IInv

-----------------------------------------------------------------------------
(* A connection: the current thread, which runs with the current object *)

RunTypes == where \in [Runner -> Places] /\ ran \in [Runner -> Object]
            /\ parent \in [Runner -> {"client", "null", "other"}]

LEMMA CurrentRuns ==
    ASSUME IInv, NEW t \in Runner, where[t] \in Connecting
    PROVE  t = current /\ ran[t] = t /\ t \in Object /\ ~Unused /\ ~disposed[t] /\ scripts # 0
<1>1. t = current
  <2>1. t \in Nat /\ current \in Nat
    BY Threads DEF IInv, TypeOK
  <2>2. ~(t < current)
    BY DEF IInv, OrderInv, Connecting, Ending, Late
  <2>3. ~(t > current)
    BY DEF IInv, OrderInv, Connecting, Ending
  <2> QED
    BY <2>1, <2>2, <2>3
<1>2. ~Unused /\ ran[t] = t
    BY <1>1 DEF IInv, OrderInv, Unused, Connecting, Ending
<1> QED
    BY <1>1, <1>2, Threads DEF IInv, RunInv, CallInv, Connecting, Ending

\* While it is not in the handler of ConnectionEstablished nobody calls.
LEMMA NobodyCalls ==
    ASSUME IInv, NEW t \in Runner, where[t] \in Connecting, where[t] # "established" \/ todo[t] = <<>>
    PROVE  \A u \in Callers : todo[u] = <<>>
BY CurrentRuns DEF IInv, CallInv, ScriptInv, Established, Preparing

\* Then it may take a step that leaves the other objects as they are.
LEMMA RunKeeps ==
    ASSUME IInv, NEW t \in Runner, where[t] \in Connecting, where[t] # "established" \/ todo[t] = <<>>,
           NEW place \in Connecting, where' = [where EXCEPT ![t] = place],
           UNCHANGED <<current, evaluated, ran, calling, switching, scripts, crashed, configured, disposed>>,
           prompting' \subseteq Tasks,
           thread' \in [Object -> Runner \cup {NoThread}], manager' \in [Object -> {"client", "null", "other"}],
           hasConnect' \in [Object -> BOOLEAN], attached' \in [Object -> BOOLEAN],
           foreign' \in [Object -> BOOLEAN], stopped' \in [Object -> BOOLEAN],
           session' \in [Object -> {"none", "up", "connected", "down"}],
           parent' \in [Runner -> {"client", "null", "other"}],
           \A o \in Object \ {t} : /\ thread'[o] = thread[o] /\ manager'[o] = manager[o]
                                   /\ hasConnect'[o] = hasConnect[o] /\ session'[o] = session[o],
           RunInv'
    PROVE  IInv'
<1>1. t = current /\ ~Unused
    BY CurrentRuns
<1>2. place \in Places
    BY DEF Connecting, Ending, Places
<1>3. TypeOK'
    BY <1>2 DEF IInv, TypeOK, calling
<1>4. where'[t] = place /\ \A r \in Runner \ {t} : where'[r] = where[r]
    BY DEF IInv, TypeOK
<1>5. \A r \in Runner : where[r] # "reset"
    BY <1>1 DEF IInv, OrderInv
<1>6. OrderInv'
  <2>1. ran' = ran /\ current' = current /\ place # "reset" /\ ran[t] = t
    BY CurrentRuns DEF Connecting, Ending
  <2> QED
    BY <1>1, <1>4, <1>5, <2>1, Threads DEF IInv, OrderInv
<1>7. ~Unused'
    BY <1>1, <1>4 DEF Unused, Connecting, Ending
<1>8. ObjectInv'
    BY <1>1, <1>7, Threads DEF IInv, TypeOK, ObjectInv, Fresh, Live
<1>9. \A u \in Callers : todo'[u] = <<>> /\ at'[u] = "ready"
    BY NobodyCalls DEF IInv, CallInv, calling
<1>10. CallInv'
    BY <1>7, <1>9, CurrentRuns, Threads DEF CallInv
<1>11. TaskInv'
    BY DEF IInv, TaskInv, calling
<1> QED
    BY <1>3, <1>6, <1>8, <1>10, <1>11 DEF IInv

LEMMA AttachKeeps == ASSUME IInv, NEW t \in Runner, Attach(t) PROVE IInv'
<1>1. where[t] = "attach" /\ where[t] \in Connecting
    BY DEF Attach, At, Connecting
<1>2. t = current /\ ran[t] = t /\ t \in Object /\ ~disposed[t]
    BY <1>1, CurrentRuns
<1>3. PICK place \in {"finalize", "setup"} : Enter(t, place)
    BY <1>2 DEF Attach, NativeRun
<1>4. /\ attached' = [attached EXCEPT ![t] = TRUE]
      /\ UNCHANGED <<configured, session, foreign, stopped, disposed, calling, crashed>>
    BY <1>2 DEF Attach, NativeRun
<1>5. RunInv'
    BY <1>1, <1>2, <1>3, <1>4 DEF IInv, TypeOK, RunInv, Live, Ending, Enter, Attach, wrapper
<1> QED
    BY <1>1, <1>3, <1>4, <1>5, RunKeeps DEF IInv, TypeOK, Attach, Enter, Connecting, Ending, wrapper, app

LEMMA SetupKeeps == ASSUME IInv, NEW t \in Runner, Setup(t) PROVE IInv'
<1>1. where[t] = "setup" /\ where[t] \in Connecting
    BY DEF Setup, At, Connecting
<1>2. t = current /\ ran[t] = t /\ t \in Object /\ ~disposed[t]
    BY <1>1, CurrentRuns
<1>3. UNCHANGED <<configured, attached, foreign, stopped, disposed, calling, crashed>>
    BY <1>2 DEF Setup, NativeRun
<1>4. CASE Enter(t, "finalize") /\ UNCHANGED session
  <2>1. RunInv'
    BY <1>1, <1>2, <1>3, <1>4 DEF IInv, TypeOK, RunInv, Live, Ending, Enter, Setup, wrapper
  <2> QED
    BY <1>1, <1>3, <1>4, <2>1, RunKeeps DEF IInv, TypeOK, Setup, Enter, Connecting, Ending, wrapper, app
<1>5. CASE Enter(t, "enable") /\ SetSession(t, "up")
  <2>1. RunInv'
    BY <1>1, <1>2, <1>3, <1>5 DEF IInv, TypeOK, RunInv, Live, Ending, Enter, Setup, SetSession, wrapper
  <2> QED
    BY <1>1, <1>2, <1>3, <1>5, <2>1, RunKeeps
       DEF IInv, TypeOK, Setup, Enter, SetSession, Connecting, Ending, wrapper, app
<1> QED
    BY <1>2, <1>4, <1>5 DEF Setup, NativeRun

LEMMA EnableKeeps == ASSUME IInv, NEW t \in Runner, EnableForeignThreadAccess(t) PROVE IInv'
<1>1. where[t] = "enable" /\ where[t] \in Connecting
    BY DEF EnableForeignThreadAccess, At, Connecting
<1>2. t = current /\ ran[t] = t /\ t \in Object /\ ~disposed[t]
    BY <1>1, CurrentRuns
<1>3. /\ Enter(t, "loop") /\ foreign' = [foreign EXCEPT ![ran[t]] = TRUE]
      /\ UNCHANGED <<configured, attached, session, stopped, disposed, calling, crashed>>
    BY <1>2 DEF EnableForeignThreadAccess, NativeRun
<1>4. RunInv'
    BY <1>1, <1>2, <1>3
       DEF IInv, TypeOK, RunInv, Live, Ending, Enter, EnableForeignThreadAccess, wrapper
<1> QED
    BY <1>1, <1>3, <1>4, RunKeeps
       DEF IInv, TypeOK, EnableForeignThreadAccess, Enter, Connecting, Ending, wrapper, app

LEMMA EstablishedReturnsKeeps == ASSUME IInv, NEW t \in Runner, EstablishedReturns(t) PROVE IInv'
<1>1. where[t] = "established" /\ where[t] \in Connecting /\ todo[t] = <<>>
    BY DEF EstablishedReturns, At, Connecting
<1>2. t = current /\ t \in Object
    BY <1>1, CurrentRuns
<1>3. RunInv'
    BY <1>1, <1>2 DEF IInv, TypeOK, RunInv, Live, Ending, Enter, EstablishedReturns, wrapper, native
<1>4. prompting' \subseteq Tasks
    BY DEF IInv, TypeOK, EstablishedReturns, TaskStarts
<1> QED
    BY <1>1, <1>3, <1>4, RunKeeps
       DEF IInv, TypeOK, EstablishedReturns, Enter, Connecting, Ending, wrapper, native

\* The ways in which a session goes on or ends in the event loop.
LEMMA LoopKeeps ==
    ASSUME IInv, NEW t \in Runner, where[t] = "loop",
           NEW s \in {"up", "connected", "down"}, SetSession(t, s),
           \/ s = "down" /\ Enter(t, "finalize")
           \/ s # "down" /\ UNCHANGED running,
           UNCHANGED <<configured, attached, foreign, stopped, disposed, calling, crashed,
                       current, evaluated, wrapper, app>>
    PROVE  IInv'
<1>1. where[t] \in Connecting
    BY DEF Connecting
<1>2. t = current /\ ran[t] = t /\ t \in Object
    BY <1>1, CurrentRuns
<1>3. PICK place \in {"loop", "finalize"} :
         /\ where' = [where EXCEPT ![t] = place] /\ UNCHANGED <<ran, parent>>
         /\ place = "finalize" <=> s = "down"
  <2>1. CASE s = "down" /\ Enter(t, "finalize")
    BY <2>1 DEF Enter
  <2>2. CASE s # "down" /\ UNCHANGED running
    BY <2>2 DEF running, IInv, TypeOK
  <2> QED
    BY <2>1, <2>2
<1>4. RunInv'
    BY <1>2, <1>3 DEF IInv, TypeOK, RunInv, Live, Ending, SetSession, wrapper
<1> QED
    BY <1>1, <1>2, <1>3, <1>4, RunKeeps DEF IInv, TypeOK, SetSession, Connecting, Ending, wrapper, app

LEMMA ReconnectingKeeps == ASSUME IInv, NEW t \in Runner, Reconnecting(t) PROVE IInv'
<1>1. where[t] = "loop" /\ where[t] \in Connecting
    BY DEF Reconnecting, At, Connecting
<1>2. SetSession(t, "up")
      /\ UNCHANGED <<configured, attached, foreign, stopped, disposed, running, calling, crashed>>
    BY <1>1, CurrentRuns DEF Reconnecting, NativeRun
<1> QED
    BY <1>1, <1>2, LoopKeeps DEF Reconnecting

LEMMA SessionEndsKeeps ==
    ASSUME IInv, NEW t \in Runner, SessionEnds(t) \/ GracefulStop(t)
    PROVE  IInv'
<1>1. where[t] = "loop" /\ where[t] \in Connecting
    BY DEF SessionEnds, GracefulStop, At, Connecting
<1>2. SetSession(t, "down") /\ Enter(t, "finalize")
      /\ UNCHANGED <<configured, attached, foreign, stopped, disposed, calling, crashed>>
    BY <1>1, CurrentRuns DEF SessionEnds, GracefulStop, NativeRun
<1> QED
    BY <1>1, <1>2, LoopKeeps DEF SessionEnds, GracefulStop

LEMMA ConnectionTimeoutKeeps ==
    ASSUME IInv, AsTheExamples, NEW t \in Runner, ConnectionTimeout(t)
    PROVE  IInv'
<1>1. where[t] = "loop" /\ where[t] \in Connecting
    BY DEF ConnectionTimeout, At, Connecting
<1>2. SetSession(t, "down") /\ Enter(t, "finalize")
      /\ UNCHANGED <<configured, attached, foreign, stopped, disposed, calling, crashed>>
    BY <1>1, CurrentRuns DEF ConnectionTimeout, NativeRun, AsTheExamples
<1> QED
    BY <1>1, <1>2, LoopKeeps DEF ConnectionTimeout

\* The handler of ConnectionEstablished may begin any script.
LEMMA ConnectedKeeps == ASSUME IInv, NEW t \in Runner, Connected(t) PROVE IInv'
<1>1. where[t] = "loop" /\ where[t] \in Connecting
    BY DEF Connected, At, Connecting
<1>2. t = current /\ ran[t] = t /\ t \in Object /\ ~disposed[t] /\ scripts # 0
    BY <1>1, CurrentRuns
<1>3. manager[t] = "client"
    BY <1>1, <1>2 DEF IInv, RunInv
<1>4. /\ SetSession(t, "connected") /\ Enter(t, "established")
      /\ UNCHANGED <<configured, attached, foreign, stopped, disposed, crashed>>
    BY <1>2, <1>3 DEF Connected, NativeRun
<1>5. PICK script \in Seq(Methods) : todo' = [todo EXCEPT ![t] = script] /\ UNCHANGED <<at, on>>
    BY <1>2, <1>3, ScriptsAreCalls DEF Connected, NativeRun, Begin
<1>6. where'[t] = "established" /\ \A r \in Runner \ {t} : where'[r] = where[r]
    BY <1>4 DEF Enter, IInv, TypeOK
<1>7. TypeOK'
    BY <1>2, <1>4, <1>5, Threads
       DEF IInv, TypeOK, SetSession, Enter, Places, Connected, wrapper, app
<1>8. OrderInv' /\ ~Unused'
    BY <1>1, <1>2, <1>4, <1>6, Threads
       DEF IInv, OrderInv, Unused, Enter, Connected, Connecting
<1>9. ObjectInv'
    BY <1>2, <1>4, <1>8, Threads DEF IInv, TypeOK, ObjectInv, Fresh, Live, SetSession, Connected, wrapper
<1>10. RunInv'
    BY <1>1, <1>2, <1>4, <1>6
       DEF IInv, TypeOK, RunInv, Live, Ending, SetSession, Enter, Connected, wrapper
<1>11. \A u \in Callers : at'[u] = "ready" /\ (u # t => todo'[u] = <<>>)
    BY <1>1, <1>5, NobodyCalls, Threads DEF IInv, TypeOK, CallInv
<1>12. ScriptInv(t)'
    BY <1>2, <1>6, <1>11, Threads DEF ScriptInv, Established, Connected
<1>13. CallInv'
    BY <1>2, <1>8, <1>11, <1>12, Threads DEF CallInv, Connected, app
<1>14. TaskInv'
    BY <1>5, Threads DEF IInv, TypeOK, TaskInv
<1> QED
    BY <1>4, <1>7, <1>8, <1>9, <1>10, <1>13, <1>14 DEF IInv

-----------------------------------------------------------------------------
(* EndClientThread *)

LEMMA ReadManagerKeeps == ASSUME IInv, NEW t \in Runner, ReadManager(t) PROVE IInv'
<1>1. where[t] = "finalize" /\ where[t] \in Connecting
    BY DEF ReadManager, At, Connecting, Ending
<1>2. t = current /\ ran[t] = t /\ t \in Object
    BY <1>1, CurrentRuns
<1>3. manager[t] = "client"
    BY <1>1, <1>2 DEF IInv, RunInv
<1>4. where' = [where EXCEPT ![t] = "manager"] /\ parent' = [parent EXCEPT ![t] = "client"]
    BY <1>2, <1>3 DEF ReadManager
<1>5. RunInv'
    BY <1>1, <1>2, <1>4 DEF IInv, TypeOK, RunInv, Live, Ending, ReadManager, wrapper, native
<1> QED
  <2>1. parent' \in [Runner -> {"client", "null", "other"}] /\ "manager" \in Connecting
    BY <1>4 DEF IInv, TypeOK, Connecting, Ending
  <2> QED
    BY <1>1, <1>4, <1>5, <2>1, RunKeeps DEF IInv, TypeOK, ReadManager, wrapper, native, app

LEMMA ClearManagerKeeps == ASSUME IInv, NEW t \in Runner, ClearManager(t) PROVE IInv'
<1>1. where[t] = "manager" /\ where[t] \in Connecting
    BY DEF ClearManager, At, Connecting, Ending
<1>2. t = current /\ ran[t] = t /\ t \in Object
    BY <1>1, CurrentRuns
<1>3. RunInv'
    BY <1>1, <1>2 DEF IInv, TypeOK, RunInv, Live, Ending, ClearManager, Enter, native
<1> QED
    BY <1>1, <1>2, <1>3, RunKeeps DEF IInv, TypeOK, ClearManager, Enter, Connecting, Ending, native, app

LEMMA ClearThreadKeeps == ASSUME IInv, NEW t \in Runner, ClearThread(t) PROVE IInv'
<1>1. where[t] = "thread" /\ where[t] \in Connecting
    BY DEF ClearThread, At, Connecting, Ending
<1>2. t = current /\ ran[t] = t /\ t \in Object
    BY <1>1, CurrentRuns
<1>3. RunInv'
    BY <1>1, <1>2 DEF IInv, TypeOK, RunInv, Live, Ending, ClearThread, Enter, native
<1> QED
    BY <1>1, <1>2, <1>3, RunKeeps DEF IInv, TypeOK, ClearThread, Enter, Connecting, Ending, native, app

LEMMA ClearFlagKeeps == ASSUME IInv, NEW t \in Runner, ClearFlag(t) PROVE IInv'
<1>1. where[t] = "flag" /\ where[t] \in Connecting
    BY DEF ClearFlag, At, Connecting, Ending
<1>2. t = current /\ ran[t] = t /\ t \in Object
    BY <1>1, CurrentRuns
<1>3. RunInv'
    BY <1>1, <1>2 DEF IInv, TypeOK, RunInv, Live, Ending, ClearFlag, Enter, native
<1> QED
    BY <1>1, <1>2, <1>3, RunKeeps DEF IInv, TypeOK, ClearFlag, Enter, Connecting, Ending, native, app

\* The object that replaces the finished one has not been used by anyone.
LEMMA NewClientThreadKeeps == ASSUME IInv, NEW t \in Runner, NewClientThread(t) PROVE IInv'
<1>1. where[t] = "finished" /\ where[t] \in Connecting
    BY DEF NewClientThread, At, Connecting, Ending
<1>2. t = current /\ ran[t] = t /\ t \in Object /\ t + 1 \in Object /\ t \in Nat /\ ~Unused /\ scripts # 0
    BY <1>1, CurrentRuns, Threads
<1>3. parent[t] = "client" /\ ~Live(t)
    BY <1>1, <1>2 DEF IInv, RunInv, Ending
<1>4. current' = t + 1 /\ where' = [where EXCEPT ![t] = "reset"] /\ UNCHANGED <<ran, parent>>
    BY <1>2, <1>3 DEF NewClientThread, Enter
<1>5. where'[t] = "reset" /\ \A r \in Runner \ {t} : where'[r] = where[r]
    BY <1>4 DEF IInv, TypeOK
<1>6. TypeOK'
    BY <1>2, <1>4 DEF IInv, TypeOK, NewClientThread, wrapper, native, calling, app, Places
<1>7. Unused'
    BY <1>2, <1>4, <1>5, Threads DEF IInv, OrderInv, Unused
<1>8. OrderInv'
  <2>1. \A r \in Runner : r # t => where[r] # "reset"
    BY <1>2 DEF IInv, OrderInv
  <2>2. \A r \in Runner : where'[r] = "reset" => r + 1 = current' /\ Unused'
    BY <1>4, <1>5, <1>7, <2>1
  <2>3. \A r \in Runner : r < current' => where'[r] \in Late
    BY <1>2, <1>4, <1>5, Threads DEF IInv, OrderInv, Late
  <2>4. \A r \in Runner : r > current' \/ r = current' => where'[r] = "none"
    BY <1>2, <1>4, <1>5, Threads DEF IInv, OrderInv
  <2>5. \A r \in Runner : where'[r] # "none" => ran'[r] = r
    BY <1>2, <1>4, <1>5 DEF IInv, OrderInv
  <2> QED
    BY <2>2, <2>3, <2>4, <2>5 DEF OrderInv
<1>9. ObjectInv'
    BY <1>2, <1>3, <1>4, Threads DEF IInv, TypeOK, ObjectInv, Fresh, Live, NewClientThread, wrapper, native
<1>10. RunInv'
    BY <1>7 DEF RunInv, Unused
<1>11. \A u \in Callers : todo'[u] = <<>> /\ at'[u] = "ready"
    BY <1>1, NobodyCalls DEF IInv, CallInv, NewClientThread, calling
<1>12. ~hasConnect'[current']
    BY <1>2, <1>4 DEF IInv, ObjectInv, NewClientThread, wrapper
<1>13. CallInv'
    BY <1>2, <1>11, <1>12, Threads DEF CallInv, NewClientThread, app
<1>14. TaskInv'
    BY DEF IInv, TaskInv, NewClientThread, calling
<1> QED
    BY <1>6, <1>8, <1>9, <1>10, <1>13, <1>14 DEF IInv, NewClientThread

LEMMA ConnectionClosedKeeps ==
    ASSUME IInv, AsTheExamples, NEW t \in Runner, ConnectionClosed(t)
    PROVE  IInv'
<1>1. where[t] = "reset" /\ t + 1 = current /\ Unused /\ t \in Nat
    BY Threads DEF ConnectionClosed, At, IInv, OrderInv
<1>2. \A u \in Callers : todo[u] = <<>>
  <2>1. \A u \in Callers : ~Established(u) /\ ~Preparing(u)
    BY <1>1, Threads DEF Established, Preparing, Unused, IInv, TypeOK
  <2> QED
    BY <2>1 DEF IInv, CallInv, ScriptInv
<1>3. PICK script \in Seq(Methods) :
         /\ todo' = [todo EXCEPT ![t] = script]
         /\ script = RunNewConnection \/ Quiet(script)
  <2>1. CASE switching
    BY <2>1, Scripts DEF ConnectionClosed
  <2>2. CASE ~switching
    BY <2>2, ScriptsAreCalls DEF ConnectionClosed, Begin, AsTheExamples
  <2> QED
    BY <2>1, <2>2
<1>4. switching' \in BOOLEAN /\ UNCHANGED <<at, on>> /\ evaluated' = FALSE
    BY DEF ConnectionClosed, IInv, TypeOK
<1>5. where'[t] = "closed" /\ \A r \in Runner \ {t} : where'[r] = where[r]
    BY DEF ConnectionClosed, Enter, IInv, TypeOK
<1>6. TypeOK'
  <2>1. todo' \in [Thread -> Seq(Methods)]
    BY <1>3 DEF IInv, TypeOK
  <2> QED
    BY <1>4, <2>1 DEF IInv, TypeOK, ConnectionClosed, Enter, wrapper, native, Places
<1>7. Unused'
    BY <1>1, <1>5, Threads DEF ConnectionClosed, Unused
<1>8. OrderInv'
    BY <1>1, <1>5, <1>7, Threads DEF IInv, OrderInv, ConnectionClosed, Enter, Late
<1>9. ObjectInv'
    BY <1>1 DEF IInv, ObjectInv, Fresh, Live, ConnectionClosed, wrapper, native
<1>10. RunInv'
    BY <1>7 DEF RunInv, Unused
<1>11. scripts # 0 /\ scripts' = scripts /\ t \in Callers
    BY <1>1, Threads DEF IInv, CallInv, ConnectionClosed
<1>12. Preparing(t)'
    BY <1>1, <1>5, <1>7 DEF Preparing, ConnectionClosed
<1>13. current' = current /\ hasConnect' = hasConnect
    BY DEF ConnectionClosed, wrapper
<1>14. CallInv'
    BY <1>1, <1>2, <1>3, <1>4, <1>11, <1>12, <1>13, BeginKeeps
<1>15. TaskInv'
    BY <1>3, Threads DEF IInv, TypeOK, TaskInv
<1> QED
    BY <1>6, <1>8, <1>9, <1>10, <1>14, <1>15 DEF IInv, ConnectionClosed

\* A thread whose connection has been closed touches its own object only, which
\* nobody else does.
LEMMA LateKeeps ==
    ASSUME IInv, NEW t \in Runner, where[t] \in Late \ {"reset"}, todo[t] = <<>>,
           NEW place \in Late \ {"reset"}, where' = [where EXCEPT ![t] = place],
           UNCHANGED <<current, evaluated, hasConnect, thread, configured, attached, session, foreign,
                       stopped, ran, parent, calling, app, crashed>>,
           manager' \in [Object -> {"client", "null", "other"}], disposed' \in [Object -> BOOLEAN],
           \A o \in Object \ {t} : manager'[o] = manager[o] /\ disposed'[o] = disposed[o]
    PROVE  IInv'
<1>1. t < current /\ t \in Nat /\ current \in Nat
  <2>1. t \in Nat /\ current \in Nat
    BY Threads DEF IInv, TypeOK
  <2>2. ~(t = current) /\ ~(t > current)
    BY DEF IInv, OrderInv, Late, Connecting, Ending
  <2> QED
    BY <2>1, <2>2
<1>2. where'[t] = place /\ \A r \in Runner \ {t} : where'[r] = where[r]
    BY DEF IInv, TypeOK
<1>3. TypeOK'
    BY DEF IInv, TypeOK, calling, app, Late, Places
<1>4. Unused' <=> Unused
    BY <1>1, <1>2 DEF Unused
<1>5. OrderInv'
    BY <1>1, <1>2, <1>4, Threads DEF IInv, OrderInv, Late
<1>6. ObjectInv'
    BY <1>1, <1>4, Threads DEF IInv, TypeOK, ObjectInv, Fresh, Live
<1>7. RunInv'
    BY <1>1, <1>2, Threads DEF IInv, RunInv, Live
<1>8. \A u \in Callers \ {t} : (Established(u)' <=> Established(u)) /\ (Preparing(u)' <=> Preparing(u))
    BY <1>1, <1>2, <1>4 DEF Established, Preparing, app
<1>9. \A u \in Callers : todo'[u] # <<>> => ScriptInv(u)'
  <2>1. SUFFICES ASSUME NEW u \in Callers, todo'[u] # <<>> PROVE ScriptInv(u)'
    OBVIOUS
  <2>2. u # t /\ ScriptInv(u)
    BY <2>1 DEF IInv, CallInv, calling
  <2> QED
    BY <1>8, <2>2 DEF ScriptInv, calling
<1>10. CallInv'
    BY <1>4, <1>9 DEF IInv, CallInv, calling, app
<1>11. TaskInv'
    BY DEF IInv, TaskInv, calling
<1> QED
    BY <1>3, <1>5, <1>6, <1>7, <1>10, <1>11 DEF IInv

LEMMA ClosedReturnsKeeps == ASSUME IInv, NEW t \in Runner, ClosedReturns(t) PROVE IInv'
<1>1. where[t] \in Late \ {"reset"} /\ todo[t] = <<>>
    BY DEF ClosedReturns, At, Late
<1> QED
    BY <1>1, LateKeeps DEF IInv, TypeOK, ClosedReturns, Enter, Late, wrapper, native

\* A thread that has nothing to call there.
LEMMA LateIsSilent ==
    ASSUME IInv, NEW t \in Runner, where[t] \in {"dispose", "renew"}
    PROVE  todo[t] = <<>> /\ where[t] \in Late \ {"reset"} /\ ran[t] = t /\ t \in Object
BY Threads DEF IInv, CallInv, ScriptInv, Established, Preparing, OrderInv, Late

LEMMA DisposeKeeps == ASSUME IInv, NEW t \in Runner, Dispose(t) PROVE IInv'
<1>1. where[t] \in {"dispose", "renew"}
    BY DEF Dispose, At
<1>2. PICK place \in {"done", "renew"} : Enter(t, place)
    BY DEF Dispose
<1>3. todo[t] = <<>> /\ where[t] \in Late \ {"reset"} /\ ran[t] = t
    BY <1>1, LateIsSilent
<1>4. /\ disposed' \in [Object -> BOOLEAN] /\ \A o \in Object \ {t} : disposed'[o] = disposed[o]
      /\ manager' = manager /\ place \in Late \ {"reset"}
    BY <1>3 DEF IInv, TypeOK, Dispose, Late, wrapper
<1>5. /\ where' = [where EXCEPT ![t] = place] /\ manager' \in [Object -> {"client", "null", "other"}]
      /\ UNCHANGED <<current, evaluated, hasConnect, thread, configured, attached, session, foreign,
                     stopped, ran, parent, calling, app, crashed>>
    BY <1>2 DEF IInv, TypeOK, Dispose, Enter, wrapper
<1> QED
    BY <1>3, <1>4, <1>5, LateKeeps

LEMMA RenewManagerKeeps == ASSUME IInv, NEW t \in Runner, RenewManager(t) PROVE IInv'
<1>1. where[t] \in {"dispose", "renew"}
    BY DEF RenewManager, At
<1>2. todo[t] = <<>> /\ where[t] \in Late \ {"reset"} /\ ran[t] = t
    BY <1>1, LateIsSilent
<1>3. /\ manager' \in [Object -> {"client", "null", "other"}]
      /\ \A o \in Object \ {t} : manager'[o] = manager[o]
      /\ disposed' = disposed /\ "done" \in Late \ {"reset"}
    BY <1>2 DEF IInv, TypeOK, RenewManager, Late, native
<1>4. /\ where' = [where EXCEPT ![t] = "done"] /\ disposed' \in [Object -> BOOLEAN]
      /\ UNCHANGED <<current, evaluated, hasConnect, thread, configured, attached, session, foreign,
                     stopped, ran, parent, calling, app, crashed>>
    BY DEF IInv, TypeOK, RenewManager, Enter, native
<1> QED
    BY <1>2, <1>3, <1>4, LateKeeps

-----------------------------------------------------------------------------
(* The Tasks *)

\* A step of a Task changes where it is in its own calls, which of the Tasks wait
\* for a command, and what the session has been told.
TaskGoesOn(a) ==
    /\ CallTypes' /\ Alone(a) /\ Harmless(todo'[a])
    /\ stopped' \in [Object -> BOOLEAN] /\ prompting' \subseteq Tasks
    /\ UNCHANGED <<current, evaluated, wrapper, configured, attached, session, foreign, disposed,
                   running, switching, scripts, crashed>>

\* Or it dies in an object that has been replaced and deleted.
TaskDies(a) ==
    /\ todo[a] # <<>> /\ disposed[on[a]] /\ crashed' = TRUE
    /\ UNCHANGED <<current, evaluated, wrapper, native, running, calling, app>>

LEMMA TaskGoesOnKeeps ==
    ASSUME IInv, NEW a \in Tasks, TaskGoesOn(a)
    PROVE  IInv'
<1>1. TypeOK'
    BY DEF IInv, TypeOK, CallTypes, TaskGoesOn, wrapper, running
<1>2. OrderInv' /\ (Unused' <=> Unused)
    BY DEF IInv, OrderInv, Unused, TaskGoesOn, running
<1>3. ObjectInv'
    BY <1>2 DEF IInv, ObjectInv, Fresh, Live, TaskGoesOn, wrapper
<1>4. RunInv'
    BY DEF IInv, RunInv, Live, TaskGoesOn, wrapper, running
<1>5. /\ \A u \in Callers : todo'[u] = todo[u] /\ at'[u] = at[u] /\ on'[u] = on[u]
      /\ \A u \in Tasks \ {a} : todo'[u] = todo[u]
    BY Threads DEF TaskGoesOn, Alone
<1>6. \A u \in Callers : todo'[u] # <<>> => ScriptInv(u)'
  <2>1. SUFFICES ASSUME NEW u \in Callers, todo'[u] # <<>> PROVE ScriptInv(u)'
    OBVIOUS
  <2>2. ScriptInv(u) /\ todo'[u] = todo[u] /\ at'[u] = at[u]
    BY <1>5, <2>1 DEF IInv, CallInv
  <2>3. (Established(u)' <=> Established(u)) /\ (Preparing(u)' <=> Preparing(u))
    BY SamePlace DEF TaskGoesOn
  <2> QED
    BY <2>2, <2>3 DEF ScriptInv, TaskGoesOn, wrapper
<1>7. CallInv'
    BY <1>2, <1>5, <1>6, Threads DEF IInv, CallInv, TaskGoesOn, wrapper
<1>8. TaskInv'
    BY <1>5 DEF IInv, TaskInv, TaskGoesOn
<1> QED
    BY <1>1, <1>2, <1>3, <1>4, <1>7, <1>8 DEF IInv, TaskGoesOn

\* The object it dies in is not the one of now.
LEMMA TaskDiesKeeps ==
    ASSUME IInv, NEW a \in Tasks, TaskDies(a)
    PROVE  Core' /\ OnlyOvertakenCallsCrash'
<1>1. Core'
    BY DEF TaskDies, Core, wrapper, native, running, calling, app, IInv, TypeOK, OrderInv, ObjectInv,
           Fresh, RunInv, CallInv, ScriptInv, Established, Preparing, Unused, Live, TaskInv
<1>2. on[a] # current
    BY CurrentLives DEF TaskDies
<1>3. todo' = todo /\ on' = on /\ current' = current /\ disposed' = disposed
    BY DEF TaskDies, native, calling
<1> QED
    BY <1>1, <1>2, <1>3 DEF OnlyOvertakenCallsCrash, TaskDies

\* Reads a command.
LEMMA TaskCallSteps ==
    ASSUME IInv, AsTheExamples, NEW a \in Apps, TaskCall(a)
    PROVE  a \in Tasks /\ TaskGoesOn(a)
<1>1. a \in Tasks
    BY DEF TaskCall, IInv, TypeOK
<1>2. PICK command \in Commands :
         /\ todo' = [todo EXCEPT ![a] = command] /\ UNCHANGED <<at, on>>
         /\ prompting' \in {prompting, prompting \ {a}}
    BY DEF TaskCall, Begin
<1>3. command \in Seq(Methods) /\ Harmless(command)
    BY ScriptsAreCalls DEF AsTheExamples
<1>4. CallTypes' /\ Alone(a) /\ Harmless(todo'[a])
    BY <1>1, <1>2, <1>3, Threads DEF IInv, TypeOK, CallTypes, Alone
<1>5. prompting' \subseteq Tasks /\ stopped' \in [Object -> BOOLEAN]
    BY <1>2 DEF IInv, TypeOK, TaskCall, native
<1> QED
    BY <1>1, <1>4, <1>5 DEF TaskGoesOn, TaskCall, wrapper, native

\* Takes a step of Stop, ReconnectVPN or Show_stats.
LEMMA TaskSteps ==
    ASSUME IInv, NEW a \in Tasks, Call(a)
    PROVE  TaskGoesOn(a) \/ TaskDies(a)
<1>1. a \in Thread /\ a \notin Runner /\ Harmless(todo[a]) /\ ~crashed
    BY Threads DEF IInv, TaskInv
<1>2. todo[a] # <<>> /\ todo[a] \in Seq(Methods)
  <2>1. todo[a] # <<>>
    BY DEF Call, Calling, SetConfigFetch, EvalConfig, SetConfigStore, SetConfigReject, AddCredentials,
       ProvideCreds, ConnectFetch, ConnectTest, ConnectMark, ConnectManage, ConnectStart, StopFetch, Stop,
       ReconnectFetch, IsNotNull, IsAlive, Reconnect, StatsFetch, StatsValue
  <2> QED
    BY <1>1, <2>1 DEF IInv, TypeOK
<1>3. Head(todo[a]) \in HarmlessMethods /\ Harmless(Tail(todo[a])) /\ Harmless(<<>>)
    BY <1>1, <1>2, HarmlessRest DEF Harmless
<1> DEFINE Others == UNCHANGED <<current, evaluated, wrapper, configured, attached, session, foreign,
                                 disposed, running, switching, scripts, crashed>>
           Typed == stopped' \in [Object -> BOOLEAN] /\ prompting' \subseteq Tasks
<1>4. ASSUME NEW step \in Steps, Goto(a, step) \/ Fetch(a, step), Others, Typed
      PROVE  TaskGoesOn(a)
  <2>1. CallTypes' /\ Alone(a) /\ todo'[a] = todo[a]
    BY <1>1, <1>4, GotoIs, FetchIs DEF IInv
  <2> QED
    BY <1>1, <1>4, <2>1 DEF TaskGoesOn
<1>5. ASSUME Return(a), Others, Typed
      PROVE  TaskGoesOn(a)
  <2>1. CallTypes' /\ Alone(a) /\ todo'[a] = Tail(todo[a])
    BY <1>1, <1>2, <1>5, ReturnIs DEF IInv
  <2> QED
    BY <1>3, <1>5, <2>1 DEF TaskGoesOn
<1>6. ASSUME Throw(a), UNCHANGED <<current, evaluated, wrapper, native, running, scripts>>
      PROVE  TaskGoesOn(a)
  <2>1. CallTypes' /\ Alone(a) /\ todo'[a] = <<>> /\ switching' = switching /\ prompting' \subseteq Tasks
    BY <1>1, <1>6, ThrowIs DEF IInv
  <2>2. crashed' = FALSE /\ crashed = FALSE
    BY <1>1, <1>6 DEF Throw, IInv, TypeOK
  <2> QED
    BY <1>3, <1>6, <2>1, <2>2 DEF TaskGoesOn, IInv, TypeOK, native
<1>7. {"ready", "stop", "null?", "alive?", "reconnect", "first_value", "next", "last_value"} \subseteq Steps
    BY DEF Steps
<1>8. UNCHANGED <<native, app>> => Typed
    BY DEF IInv, TypeOK, native, app
<1>9. \/ StopFetch(a) \/ Stop(a)
      \/ ReconnectFetch(a) \/ IsNotNull(a) \/ IsAlive(a) \/ Reconnect(a)
      \/ StatsFetch(a) \/ StatsValue(a)
    BY <1>3 DEF Call, Calling, HarmlessMethods, SetConfigFetch, EvalConfig, SetConfigStore,
       SetConfigReject, AddCredentials, ProvideCreds, ConnectFetch, ConnectTest, ConnectMark,
       ConnectManage, ConnectStart
<1>10. CASE StopFetch(a) \/ ReconnectFetch(a) \/ StatsFetch(a)
    BY <1>4, <1>7, <1>8, <1>10 DEF StopFetch, ReconnectFetch, StatsFetch, native, app
<1>11. CASE Stop(a)
  <2>1. CASE disposed[on[a]] /\ crashed' = TRUE /\ UNCHANGED <<native, calling>>
    BY <1>2, <1>11, <2>1 DEF Stop, TaskDies
  <2>2. CASE /\ stopped' = [stopped EXCEPT ![on[a]] = @ \/ foreign[on[a]]]
             /\ Return(a)
             /\ UNCHANGED <<configured, attached, session, foreign, disposed, crashed>>
    <3>1. Typed
      BY <1>11, <2>2 DEF Stop, IInv, TypeOK, app
    <3> QED
      BY <1>5, <1>11, <2>2, <3>1 DEF Stop, app
  <2> QED
    BY <1>11, <2>1, <2>2 DEF Stop, NativeCall
<1>12. CASE IsNotNull(a)
    BY <1>4, <1>5, <1>7, <1>8, <1>12 DEF IsNotNull, native, app
<1>13. CASE IsAlive(a)
  <2>1. CASE Throw(a)
    BY <1>6, <1>13, <2>1 DEF IsAlive
  <2>2. CASE (Return(a) \/ Fetch(a, "reconnect")) /\ UNCHANGED <<crashed, switching, prompting>>
    BY <1>4, <1>5, <1>7, <1>8, <1>13, <2>2 DEF IsAlive, native, app
  <2> QED
    BY <1>13, <2>1, <2>2 DEF IsAlive
<1>14. CASE Reconnect(a) \/ StatsValue(a)
  <2>1. UNCHANGED <<current, evaluated, wrapper, running, app>>
    BY <1>14 DEF Reconnect, StatsValue
  <2>2. CASE disposed[on[a]] /\ crashed' = TRUE /\ UNCHANGED <<native, calling>>
    BY <1>2, <2>1, <2>2 DEF TaskDies
  <2>3. CASE (Return(a) \/ Goto(a, "next")) /\ UNCHANGED <<native, crashed>>
    BY <1>4, <1>5, <1>7, <1>8, <2>1, <2>3 DEF native, app
  <2> QED
    BY <1>14, <2>2, <2>3 DEF Reconnect, StatsValue, NativeCall
<1> QED
    BY <1>9, <1>10, <1>11, <1>12, <1>13, <1>14

-----------------------------------------------------------------------------
(* The invariant holds *)

LEMMA InvInitially == Init => IInv
<1> SUFFICES ASSUME Init PROVE IInv
    OBVIOUS
<1>1. TypeOK
  <2>1. 1 \in Object /\ <<>> \in Seq(Methods) /\ 0 \in 0 .. MaxScripts
    BY BoundsAreNat DEF Object
  <2> QED
    BY <2>1 DEF Init, TypeOK, NoThread, Places, Steps
<1>2. OrderInv
    BY Threads DEF Init, OrderInv, Connecting
<1>3. ObjectInv /\ RunInv
    BY <1>1, Threads DEF Init, ObjectInv, RunInv, Fresh, Live, TypeOK
<1>4. CallInv
    BY <1>1, Threads DEF Init, CallInv, Unused, TypeOK
<1>5. TaskInv
    BY Threads DEF Init, TaskInv, Harmless
<1> QED
    BY <1>1, <1>2, <1>3, <1>4, <1>5 DEF IInv, Init

\* A step of anyone but a Task.
OthersStep ==
    \/ \E a \in Apps : AppCall(a)
    \/ \E t \in Callers : Call(t)
    \/ \E t \in Runner : Run(t) \/ Session(t) \/ GracefulStop(t)

LEMMA OthersKeep == ASSUME IInv, AsTheExamples, OthersStep PROVE IInv'
<1>1. ASSUME NEW a \in Apps, AppCall(a) PROVE IInv'
    BY <1>1, AppCallKeeps
<1>2. ASSUME NEW t \in Callers, Call(t) PROVE IInv'
    BY <1>2, CallKeeps
<1>3. ASSUME NEW t \in Runner, Run(t) PROVE IInv'
    BY <1>3, AttachKeeps, SetupKeeps, EnableKeeps, EstablishedReturnsKeeps, ReadManagerKeeps,
       ClearManagerKeeps, ClearThreadKeeps, ClearFlagKeeps, NewClientThreadKeeps,
       ConnectionClosedKeeps, ClosedReturnsKeeps, DisposeKeeps, RenewManagerKeeps DEF Run
<1>4. ASSUME NEW t \in Runner, Session(t) \/ GracefulStop(t) PROVE IInv'
    BY <1>4, ConnectedKeeps, ReconnectingKeeps, SessionEndsKeeps, ConnectionTimeoutKeeps DEF Session
<1> QED
    BY <1>1, <1>2, <1>3, <1>4 DEF OthersStep

\* Every step is one of theirs, or that of a Task, and none is taken by a process
\* that has died.
LEMMA StepIs ==
    ASSUME IInv, AsTheExamples, Next
    PROVE  OthersStep \/ \E a \in Tasks : TaskGoesOn(a) \/ TaskDies(a)
BY TaskCallSteps, TaskSteps, Threads DEF Next, OthersStep

LEMMA DeadIsStill == ASSUME crashed, [Next]_vars PROVE UNCHANGED vars
BY DEF Next, AppCall, TaskCall, Call, Calling, SetConfigFetch, EvalConfig, SetConfigStore, SetConfigReject,
       AddCredentials, ProvideCreds, ConnectFetch, ConnectTest, ConnectMark, ConnectManage, ConnectStart,
       StopFetch, Stop, ReconnectFetch, IsNotNull, IsAlive, Reconnect, StatsFetch, StatsValue, Run, Session,
       At, Attach, Setup, EnableForeignThreadAccess, EstablishedReturns, ReadManager, ClearManager,
       ClearThread, ClearFlag, NewClientThread, ConnectionClosed, ClosedReturns, Dispose, RenewManager,
       Connected, Reconnecting, SessionEnds, ConnectionTimeout, GracefulStop

LEMMA Living == Inv /\ ~crashed <=> IInv
BY DEF Inv, Core, IInv, OnlyOvertakenCallsCrash

LEMMA InvStill == ASSUME Inv, UNCHANGED vars PROVE Inv'
BY DEF vars, wrapper, native, running, calling, app, Inv, Core, TypeOK, OrderInv, ObjectInv, Fresh,
       RunInv, CallInv, ScriptInv, Established, Preparing, Unused, Live, TaskInv, OnlyOvertakenCallsCrash

LEMMA InvKept == ASSUME AsTheExamples PROVE Inv /\ [Next]_vars => Inv'
<1> SUFFICES ASSUME Inv, [Next]_vars PROVE Inv'
    OBVIOUS
<1>1. CASE crashed \/ UNCHANGED vars
    BY <1>1, DeadIsStill, InvStill
<1>2. CASE ~crashed /\ Next
  <2>1. IInv
    BY <1>2, Living
  <2>2. CASE OthersStep
    BY <2>1, <2>2, OthersKeep DEF Inv, Core, IInv, OnlyOvertakenCallsCrash
  <2>3. ASSUME NEW a \in Tasks, TaskGoesOn(a) PROVE Inv'
    BY <2>1, <2>3, TaskGoesOnKeeps DEF Inv, Core, IInv, OnlyOvertakenCallsCrash
  <2>4. ASSUME NEW a \in Tasks, TaskDies(a) PROVE Inv'
    BY <2>1, <2>4, TaskDiesKeeps DEF Inv
  <2> QED
    BY <1>2, <2>1, <2>2, <2>3, <2>4, StepIs
<1> QED
    BY <1>1, <1>2

LEMMA InvHolds == ASSUME AsTheExamples PROVE Safety => []Inv
<1>1. Init => Inv
    BY InvInitially, Living
<1> QED
    BY <1>1, InvKept, PTL DEF Safety

\* For every number of connections and of Tasks, and whatever the handler of
\* ConnectionEstablished calls, the process dies in one way only: a Task has read
\* Client._clientThread, EndClientThread has replaced that object and deleted it,
\* and the call of the Task goes on into it (NativeCall, NativeRun, Throw).  No
\* other thread calls into a deleted object and none dies of an exception.
THEOREM CrashesCorrect == ASSUME AsTheExamples PROVE Safety => []OnlyOvertakenCallsCrash
<1>1. Inv => OnlyOvertakenCallsCrash
    BY DEF Inv
<1> QED
    BY <1>1, InvHolds, PTL

\* The session that is up is that of the object Client calls, its events reach
\* the application, and it was started with the configuration given for it.
THEOREM ControlCorrect == ASSUME AsTheExamples PROVE Safety => []ClientInControl
<1>1. ASSUME Inv PROVE ClientInControl
  <2>1. SessionIsReachable
    BY <1>1, Threads DEF Inv, Core, TypeOK, ObjectInv, Fresh, Live, SessionIsReachable
  <2>2. EventsReachClient
    <3>1. SUFFICES ASSUME Live(current) PROVE manager[current] = "client"
      BY <2>1 DEF EventsReachClient, SessionIsReachable
    <3>2. current \in Runner /\ where[current] # "none"
      BY <1>1, <3>1 DEF Inv, Core, ObjectInv, Fresh, Live, Unused
    <3> QED
      BY <1>1, <3>1, <3>2 DEF Inv, Core, RunInv
  <2>3. ConfiguredBeforeConnect
    <3>1. SUFFICES ASSUME NEW t \in Runner, where[t] = "setup" PROVE configured[ran[t]]
      BY DEF ConfiguredBeforeConnect
    <3>2. t = current /\ ran[t] = t
      <4>1. OrderInv /\ t \in Nat /\ current \in Nat
        BY <1>1, Threads DEF Inv, Core, TypeOK
      <4>2. ~(t < current) /\ ~(t > current)
        BY <3>1, <4>1 DEF OrderInv, Late
      <4> QED
        BY <3>1, <4>1, <4>2 DEF OrderInv
    <3> QED
      BY <1>1, <3>1, <3>2 DEF Inv, Core, RunInv
  <2> QED
    BY <1>1, <2>1, <2>2, <2>3 DEF ClientInControl, Inv, Core
<1> QED
    BY <1>1, InvHolds, PTL

-----------------------------------------------------------------------------
(* One connection at a time *)

PhaseOfSession ==
    Phase = IF Unused THEN "closed"
            ELSE IF session[current] = "connected" THEN "connected" ELSE "open"

LEMMA PhaseKnown == IInv => PhaseOfSession
<1> SUFFICES ASSUME IInv PROVE PhaseOfSession
    OBVIOUS
<1>1. InConnect = {r \in Runner : where[r] \in Connecting}
    BY DEF InConnect, Connecting, Ending
<1>2. CASE Unused
  <2>1. \A r \in Runner : where[r] \notin Connecting
    BY <1>2, CurrentRuns
  <2> QED
    BY <1>1, <1>2, <2>1 DEF Phase, PhaseOfSession
<1>3. CASE ~Unused
  <2>1. current \in Runner /\ where[current] \in Connecting /\ ran[current] = current
    BY <1>3, Threads DEF IInv, OrderInv, Unused
  <2>2. InConnect = {current}
    BY <1>1, <2>1, CurrentRuns
  <2>3. Cardinality(InConnect) = 1
    BY <2>2, FS_Singleton
  <2> QED
    BY <1>3, <2>1, <2>2, <2>3 DEF Phase, PhaseOfSession
<1> QED
    BY <1>2, <1>3

LEMMA PhaseNow == ASSUME IInv PROVE PhaseOfSession
BY PhaseKnown

LEMMA PhaseNext == ASSUME IInv' PROVE PhaseOfSession'
<1>1. (IInv => PhaseOfSession)'
    BY PhaseKnown, PTL
<1> QED
    BY <1>1

\* A step within a connection, or between two, that leaves the session as it is.
LEMMA PhaseStays ==
    ASSUME IInv, IInv', current' = current, session' = session, Unused' <=> Unused
    PROVE  Phase' = Phase
<1>1. PhaseOfSession /\ PhaseOfSession'
    BY PhaseNow, PhaseNext
<1> QED
    BY <1>1 DEF PhaseOfSession

\* The phase is one of the threads and of their sessions.
LEMMA PhaseSame == ASSUME UNCHANGED <<running, session>> PROVE Phase' = Phase
BY DEF Phase, InConnect, running

LEMMA CallPhase ==
    ASSUME IInv, IInv', NEW t \in Callers, Call(t)
    PROVE  Phase' = Phase \/ Lifecycle!Open
<1>1. CASE ConnectStart(t)
  <2>1. todo[t] # <<>> /\ at[t] = "start"
    BY <1>1, CallingIs DEF ConnectStart
  <2>2. Unused /\ session[current] = "none"
    BY <2>1, OneCaller DEF IInv, ObjectInv, Fresh, ScriptInv, Preparing
  <2>3. current' = current /\ session' = session
    BY <1>1 DEF ConnectStart, native
  <2>4. Phase = "closed" /\ Phase' = IF Unused' THEN "closed" ELSE "open"
    BY <2>2, <2>3, PhaseNow, PhaseNext DEF PhaseOfSession
  <2> QED
    BY <2>4 DEF Lifecycle!Open
<1>2. CASE ~ConnectStart(t)
  <2>1. current' = current /\ session' = session /\ where' = where
    BY <1>2 DEF Call, SetConfigFetch, EvalConfig, SetConfigStore, SetConfigReject, AddCredentials,
       ProvideCreds, ConnectFetch, ConnectTest, ConnectMark, ConnectManage, StopFetch, Stop,
       ReconnectFetch, IsNotNull, IsAlive, Reconnect, StatsFetch, StatsValue, NativeCall,
       native, running
  <2> QED
    BY <2>1, PhaseStays DEF Unused
<1> QED
    BY <1>1, <1>2

\* What a connection's thread does until its session ends.
LEMMA RunPhase ==
    ASSUME IInv, IInv', NEW t \in Runner, Run(t)
    PROVE  Phase' = Phase \/ Lifecycle!Close
<1>1. CASE where[t] \in Connecting /\ ~NewClientThread(t)
  <2>1. t = current /\ ran[t] = t /\ ~Unused /\ t \in Object /\ ~disposed[t]
    BY <1>1, CurrentRuns
  <2>2. /\ current' = current /\ where'[t] # "none"
        /\ session' = session \/ (where[t] = "setup" /\ SetSession(t, "up"))
    BY <1>1, <2>1 DEF Run, Attach, Setup, EnableForeignThreadAccess, EstablishedReturns, ReadManager,
       ClearManager, ClearThread, ClearFlag, ConnectionClosed, ClosedReturns, Dispose, RenewManager,
       NativeRun, At, Enter, Connecting, Ending, native, IInv, TypeOK
  <2>3. ~Unused'
    BY <2>1, <2>2 DEF Unused
  <2>4. CASE session' = session
    BY <2>1, <2>2, <2>3, <2>4, PhaseStays
  <2>5. CASE where[t] = "setup" /\ SetSession(t, "up")
    <3>1. session[t] # "connected" /\ session'[t] = "up"
      BY <2>1, <2>5 DEF IInv, TypeOK, RunInv, Live, SetSession
    <3> QED
      BY <2>1, <2>2, <2>3, <3>1, PhaseNow, PhaseNext DEF PhaseOfSession
  <2> QED
    BY <2>2, <2>4, <2>5
<1>2. CASE NewClientThread(t)
  <2>1. where[t] = "finished" /\ where[t] \in Connecting
    BY <1>2 DEF NewClientThread, At, Connecting, Ending
  <2>2. t = current /\ ~Unused /\ session[t] # "connected"
    BY <2>1, CurrentRuns DEF IInv, RunInv, Live
  <2>3. Phase = "open"
    BY <2>2, PhaseNow DEF PhaseOfSession
  <2>4. current' = t + 1 /\ t \in Nat
    <3>1. parent[t] = "client"
      BY <2>1, <2>2, Threads DEF IInv, RunInv, Ending
    <3> QED
      BY <1>2, <2>2, <3>1, Threads DEF NewClientThread
  <2>5. Unused'
    BY <1>2, <2>2, <2>4, Threads DEF IInv, TypeOK, OrderInv, Unused, NewClientThread, Enter
  <2>6. Phase' = "closed"
    BY <2>5, PhaseNext DEF PhaseOfSession
  <2> QED
    BY <2>3, <2>6 DEF Lifecycle!Close
<1>3. CASE where[t] \notin Connecting
  <2>1. where[t] \in Late
    BY <1>3 DEF Run, Attach, Setup, EnableForeignThreadAccess, EstablishedReturns, ReadManager,
       ClearManager, ClearThread, ClearFlag, NewClientThread, ConnectionClosed, ClosedReturns, Dispose,
       RenewManager, At, Connecting, Ending, Late
  <2>2. t # current
    BY <2>1 DEF IInv, OrderInv, Late, Connecting, Ending
  <2>3. ConnectionClosed(t) \/ ClosedReturns(t) \/ Dispose(t) \/ RenewManager(t)
    BY <1>3 DEF Run, Attach, Setup, EnableForeignThreadAccess, EstablishedReturns, ReadManager,
       ClearManager, ClearThread, ClearFlag, NewClientThread, At, Connecting, Ending
  <2>4. current' = current /\ session' = session
    BY <2>3 DEF ConnectionClosed, ClosedReturns, Dispose, RenewManager, native
  <2>5. \E place : Enter(t, place)
    BY <2>3 DEF ConnectionClosed, ClosedReturns, Dispose, RenewManager
  <2>6. \A r \in Runner \ {t} : where'[r] = where[r]
    BY <2>5 DEF Enter, IInv, TypeOK
  <2> QED
    BY <2>2, <2>4, <2>6, PhaseStays DEF Unused
<1> QED
    BY <1>1, <1>2, <1>3

LEMMA SessionPhase ==
    ASSUME IInv, IInv', NEW t \in Runner, Session(t) \/ GracefulStop(t)
    PROVE  Phase' = Phase \/ Lifecycle!Establish \/ Lifecycle!Lose
<1>1. where[t] = "loop" /\ where[t] \in Connecting
    BY DEF Session, Connected, Reconnecting, SessionEnds, ConnectionTimeout, GracefulStop, At, Connecting
<1>2. t = current /\ ran[t] = t /\ ~Unused /\ t \in Object /\ ~disposed[t] /\ ~crashed'
    BY <1>1, CurrentRuns DEF IInv
<1>3. /\ current' = current /\ where'[t] # "none"
      /\ \/ session[t] = "up" /\ SetSession(t, "connected")
         \/ SetSession(t, "up") \/ SetSession(t, "down")
    BY <1>1, <1>2 DEF Session, Connected, Reconnecting, SessionEnds, ConnectionTimeout, GracefulStop,
       NativeRun, Enter, running, IInv, TypeOK
<1>4. /\ ~Unused' /\ session'[t] \in {"up", "down", "connected"}
      /\ session'[t] = "connected" => session[t] # "connected"
    BY <1>2, <1>3 DEF Unused, SetSession, IInv, TypeOK
<1>5. /\ Phase = IF session[t] = "connected" THEN "connected" ELSE "open"
      /\ Phase' = IF session'[t] = "connected" THEN "connected" ELSE "open"
  <2>1. current' = t /\ current = t /\ ~Unused /\ ~Unused'
    BY <1>2, <1>3, <1>4
  <2>2. PhaseOfSession /\ PhaseOfSession'
    BY PhaseNow, PhaseNext
  <2> QED
    BY <2>1, <2>2 DEF PhaseOfSession
<1> QED
    BY <1>5 DEF Lifecycle!Establish, Lifecycle!Lose

\* Every step is one of the lifecycle's or leaves the phase as it is, so that
\* each connection is opened, established and closed before the next is opened.
THEOREM LifecycleCorrect == ASSUME AsTheExamples PROVE Safety => ImplementsLifecycle
<1>1. Init => Lifecycle!Init
  <2>1. SUFFICES ASSUME Init PROVE Phase = "closed"
    BY DEF Lifecycle!Init
  <2>2. IInv /\ Unused
    BY <2>1, InvInitially DEF Init, Unused
  <2> QED
    BY <2>2, PhaseNow DEF PhaseOfSession
<1>2. Inv /\ [Next]_vars => [Lifecycle!Next]_Phase
  <2>1. SUFFICES ASSUME Inv, [Next]_vars PROVE Lifecycle!Next \/ Phase' = Phase
    OBVIOUS
  <2>2. CASE crashed \/ UNCHANGED vars
    <3>1. UNCHANGED vars
      BY <2>1, <2>2, DeadIsStill
    <3> QED
      BY <3>1, PhaseSame DEF vars, running, native
  <2>3. CASE ~crashed /\ Next
    <3>1. IInv
      BY <2>1, <2>3, Living
    <3>2. ASSUME NEW a \in Tasks, TaskGoesOn(a) \/ TaskDies(a) PROVE Phase' = Phase
      BY <3>2, PhaseSame DEF TaskGoesOn, TaskDies, native
    <3>3. CASE OthersStep
      <4>1. IInv'
        BY <3>1, <3>3, OthersKeep
      <4>2. ASSUME NEW a \in Apps, AppCall(a) PROVE Phase' = Phase
        BY <4>2, PhaseSame DEF AppCall, native
      <4> QED
        BY <3>1, <3>3, <4>1, <4>2, CallPhase, RunPhase, SessionPhase DEF OthersStep, Lifecycle!Next
    <3> QED
      BY <2>3, <3>1, <3>2, <3>3, StepIs
  <2> QED
    BY <2>1, <2>2, <2>3
<1> QED
    BY <1>1, <1>2, InvHolds, PTL DEF Safety, ImplementsLifecycle, Lifecycle!Spec

=============================================================================
