------------------------------- MODULE Session -------------------------------
(***************************************************************************)
(* ClientProto::Session (openvpn/client/cliproto.hpp): the sessions that   *)
(* a client has one after the other, from the start of the transport to    *)
(* stop(), the control messages of the server they act on, their timers,   *)
(* and the credentials they share (clicreds.hpp).                          *)
(*                                                                         *)
(* All handlers run on one thread, but a timer that has expired and a      *)
(* lambda that was posted run later, maybe after stop(), and the messages  *)
(* one packet carries are handled one after the other whatever becomes of  *)
(* the session meanwhile (inbox).  The server is external: it answers what *)
(* the client sends, and sends nothing after a message that ends the       *)
(* session.                                                                *)
(*                                                                         *)
(* stop() is not atomic.  It sets halt, cancels the timers and then asks   *)
(* ClientConnect what follows, which throws if the reason is fatal and has *)
(* no branch there: the tun and the transport go on, and as halt is set    *)
(* each later stop() does nothing.  Such a session has been interrupted.   *)
(***************************************************************************)
EXTENDS Integers, Sequences, FiniteSets

CONSTANTS
    MaxSessions,      \* bound: sessions of the client
    MaxTokens,        \* bound: auth-tokens the server pushes
    MaxInfos,         \* bound: INFO messages of a session
    MaxBatch,         \* bound: messages of a packet still to be handled
    MaxPosted,        \* bound: posted lambdas of a session
    Interruptible,    \* bound: the sessions whose stop() may be interrupted
    Given,            \* what the user may give: a password; auth-nocache
    RepliesGoOn,      \* the server replies again after an option that pull-filter rejects
    LateReplies       \* the server sends PUSH_REPLY between two parts of an update

ASSUME BoundsArePositive ==
    {MaxSessions, MaxTokens, MaxInfos, MaxBatch, MaxPosted} \subseteq Nat \ {0}
ASSUME GivenIsCredentials == Given \subseteq [password : BOOLEAN, nocache : BOOLEAN]
ASSUME InterruptibleSessions == Interruptible \subseteq Nat
ASSUME OptionsAreBoolean == {RepliesGoOn, LateReplies} \subseteq BOOLEAN

Sessions == 1 .. MaxSessions
Tokens == 1 .. MaxTokens
NoToken == 0
Timers == {"push_request", "info_hold", "inactive"}
Released == <<0>> \* info_hold has been reset
Connected == 0     \* the event CONNECTED

VARIABLES
    session,           \* the session the client has now
    halt,              \* its halt
    interrupted,       \* history: sessions whose stop() ended half-way, by an exception, until
                       \* their tun is gone
    over,              \* the client makes no more sessions
    transport,         \* "starting", "up" or "stopped"
    key,               \* the primary key context: "none", "started", "sent" (the auth message) or "active"
    tun,               \* of each session: "none", "up" or "stopped"
    partial, complete, \* received_options
    auth_pending, connected, fatal,
    info_hold,         \* the INFO messages held back
    told,              \* the events the client was told, INFO and CONNECTED
    counting,          \* the callbacks that count the bytes of the tun are set
    armed,             \* of each session: timers that run, or whose handler is ready to
    posted,            \* of each session: lambdas of reset_inactive_timer() that are ready
    inbox,             \* messages of the packet being handled
    creds,             \* ClientCreds
    given,             \* what the user gave
    server,            \* what the server is at
    tokens, infos,     \* bound: how many there have been
    sent,              \* history: what the last auth message carried
    rejected,          \* history: tokens sent when AUTH_FAILED came
    fellBack           \* history: a session ended to go on with the password

recvFlags == <<partial, complete, auth_pending, connected, info_hold, told>>
objectVars == <<halt, interrupted, transport, key, recvFlags, fatal, counting, inbox>>
timerVars == <<armed, posted>>
credVars == <<creds, sent, rejected, fellBack>>
serverVars == <<server, tokens, infos>>
vars == <<session, over, tun, given, objectVars, timerVars, credVars, serverVars>>

NothingSent == [user |-> FALSE, token |-> NoToken, any |-> FALSE]

Init ==
    /\ session = 1 /\ over = FALSE
    /\ halt = FALSE /\ interrupted = {} /\ transport = "starting" /\ key = "none"
    /\ tun = [s \in Sessions |-> "none"]
    /\ partial = FALSE /\ complete = FALSE
    /\ auth_pending = FALSE /\ connected = FALSE
    /\ fatal = "undef"
    /\ info_hold = <<>> /\ told = <<>> /\ counting = FALSE /\ inbox = <<>>
    /\ armed = [s \in Sessions |-> {}]
    /\ posted = [s \in Sessions |-> 0]
    /\ given \in Given
    /\ creds = [user |-> TRUE, password |-> given.password, token |-> NoToken,
                tokenUser |-> FALSE, asks |-> FALSE]
    /\ sent = NothingSent /\ rejected = {} /\ fellBack = FALSE
    /\ server = "push" /\ tokens = 0 /\ infos = 0

-----------------------------------------------------------------------------
(* stop() *)

\* What fatal_ may be: "undef" stands for all after which the client goes on
\* with a new session, "other" for those after which it ends.  It may be told
\* to retry after a failed authentication (ClientConnect::client_proto_terminate()).
\* "unhandled" stands for those that it knows nothing of: TUN_WRITE_ERROR, and
\* errors of the key expansion and of TLS.
Ends == {"auth_failed", "session_expired", "need_creds", "other"}
Retried == {"auth_failed", "session_expired"}

\* What becomes of the tun.
\* Mutant: it goes on.
LeaveTun(t) == t
StopTun(t) == IF t = "up" THEN "stopped" ELSE t

\* The timers are cancelled, but a handler that is ready runs all the same.
CancelTimers == \E ready \in SUBSET armed[session] : armed' = [armed EXCEPT ![session] = ready]

\* The callbacks of the statistics, which all sessions share, are reset.
\* Mutant: they are not.
KeepCallbacks == UNCHANGED counting
ResetCallbacks == counting' = FALSE

\* stop(true) for the reason f, if there is one, with a tun that is t.
StopWith(f, t) ==
    /\ fatal' = IF f = "undef" THEN fatal ELSE f
    /\ IF halt THEN /\ tun' = [tun EXCEPT ![session] = t]
                    /\ UNCHANGED <<halt, interrupted, transport, counting, armed, over>>
       ELSE /\ halt' = TRUE /\ ResetCallbacks /\ CancelTimers
            /\ \/ /\ fatal' = "unhandled"
                  /\ interrupted' = interrupted \cup {session}
                  /\ tun' = [tun EXCEPT ![session] = t]
                  /\ UNCHANGED <<transport, over>>
               \/ /\ fatal' # "unhandled"
                  /\ \E retry \in BOOLEAN : over' = (fatal' \in Ends /\ ~(retry /\ fatal' \in Retried))
                  /\ tun' = [tun EXCEPT ![session] = StopTun(t)] /\ transport' = "stopped"
                  /\ UNCHANGED interrupted
StopFor(f) == StopWith(f, tun[session])

\* No handler is being run; the session has not ended; its transport still reads,
\* which it does although halt is set if the stop() was interrupted.
Idle == inbox = <<>>
Alive == Idle /\ ~halt
Reads == Idle /\ transport = "up"

\* The handlers that were ready when the session ended have run.
ReadyHaveRun == armed[session] \subseteq {"inactive"} /\ posted[session] = 0

-----------------------------------------------------------------------------
(* Credentials *)

\* Mutant: only the name is.
PurgeNameOnly(c) == [c EXCEPT !.tokenUser = FALSE]
PurgeSessionId(c) == [c EXCEPT !.token = NoToken, !.tokenUser = FALSE]
PurgeUserPass(c) == [c EXCEPT !.user = FALSE, !.password = FALSE]
PurgeIfNocache(c) == IF given.nocache THEN PurgeUserPass(c) ELSE c

SaveUsername(c) == [c EXCEPT !.tokenUser = @ \/ c.user]

\* client_auth(): of the first handshake, and of those that renegotiate.
ClientAuth ==
    IF creds.token = NoToken /\ given.password /\ ~creds.password
    THEN StopFor("need_creds") /\ UNCHANGED <<key, credVars>>
    ELSE /\ sent' = [user |-> creds.tokenUser \/ creds.user, token |-> creds.token, any |-> TRUE]
         /\ creds' = PurgeIfNocache(SaveUsername(creds))
         /\ key' = IF key = "started" THEN "sent" ELSE key
         /\ fellBack' = FALSE
         /\ UNCHANGED <<fatal, tun, halt, interrupted, transport, counting, armed, over, rejected>>

\* extract_auth_token()
ExtractAuthToken(c, token) == IF token = NoToken THEN c ELSE [c EXCEPT !.token = token]

-----------------------------------------------------------------------------
(* The transport and the key context *)

TransportConnecting ==
    /\ Alive /\ transport = "starting"
    /\ transport' = "up" /\ key' = "started"
    /\ UNCHANGED <<session, over, tun, given, halt, interrupted, recvFlags, fatal, counting, inbox,
                   timerVars, credVars, serverVars>>

\* The handshake has got as far as the auth message.
Authenticate ==
    /\ Reads /\ key \in {"started", "active"}
    /\ ClientAuth
    /\ UNCHANGED <<session, given, partial, complete, auth_pending, connected,
                   info_hold, told, inbox, posted, serverVars>>

\* active(): the first PUSH_REQUEST is due at once.
Active ==
    /\ Reads /\ key = "sent"
    /\ key' = "active"
    /\ armed' = [armed EXCEPT ![session] = IF partial THEN @ ELSE @ \cup {"push_request"}]
    /\ UNCHANGED <<session, over, tun, given, halt, interrupted, transport, partial, complete,
                   auth_pending, connected, fatal, info_hold, told, counting,
                   inbox, posted, credVars, serverVars>>

stopKeeps == <<session, given, key, partial, complete, auth_pending, connected, info_hold, told,
              inbox, posted, credVars, serverVars>>

\* transport_error(), proxy_error(), tun_error() of a tun that cannot be read, and an
\* exception of a handler or a session that is found invalidated (process_exception()).
Fails ==
    /\ Alive
    /\ \E f \in {"undef", "other"} : StopFor(f)
    /\ UNCHANGED stopKeeps

\* A packet for the tun meets a ring of the wintun driver that is closed: stop()
\* is interrupted by TUN_WRITE_ERROR, and transport_recv(), or tun_recv(), catches
\* its exception and calls it again to no effect.
TunSendFails ==
    /\ session \in Interruptible
    /\ Reads /\ tun[session] = "up"
    /\ StopFor("unhandled")
    /\ UNCHANGED stopKeeps

\* transport_recv(): the key context is invalidated by an error that is fatal and
\* that ClientConnect has no branch for.  The exception of the stop() leaves run();
\* connect_session_stop() stops ClientConnect, whose stop() of the session does
\* nothing, and runs what is ready; connect() returns.  What poll() may still
\* receive for another key context is left out.
KeyContextFails ==
    /\ session \in Interruptible
    /\ Reads /\ ~halt
    /\ halt' = TRUE /\ ResetCallbacks /\ CancelTimers
    /\ fatal' = "unhandled" /\ interrupted' = interrupted \cup {session}
    /\ key' = "none" /\ over' = TRUE
    /\ UNCHANGED <<session, tun, given, transport, recvFlags, inbox, posted, credVars, serverVars>>

\* The transport of an interrupted session stops itself, on an error.
TransportFails ==
    /\ Reads /\ halt
    /\ transport' = "stopped"
    /\ UNCHANGED <<stopKeeps, over, tun, halt, interrupted, fatal, counting, armed>>

-----------------------------------------------------------------------------
(* Messages of the server: control_recv() *)

Message(kind) == inbox # <<>> /\ Head(inbox).kind = kind /\ inbox' = Tail(inbox)

recvOther == <<session, given, key, posted, serverVars>>
stopOther == <<fatal, tun, halt, interrupted, transport, counting, armed, over>>

\* How the rest of recv_push_reply() may go: the options cannot be used,
\* tun_start() fails and the tun stops itself, init_data_channel() or
\* check_proto_warnings() throws.
Outcomes == {"bad_options", "tun_setup_failed", "no_data_channel", "compress_error", "ok"}
Reason(outcome) == IF outcome \in {"tun_setup_failed", "compress_error"} THEN "other" ELSE "undef"

\* received_options has become complete.
Connect(m) == \E outcome \in Outcomes :
    LET tunUp == outcome \in {"no_data_channel", "compress_error", "ok"}
        returns == outcome = "ok" \/ (outcome = "tun_setup_failed" /\ connected)
        c == ExtractAuthToken(creds, m.token)
    IN
    /\ creds' = IF outcome = "bad_options" THEN c ELSE PurgeIfNocache(c)
    /\ connected' = (connected \/ tunUp)
    /\ told' = IF returns \/ outcome = "compress_error" THEN Append(told, Connected) ELSE told
    /\ inbox' = IF returns THEN Tail(inbox) ELSE <<>>
    /\ IF outcome # "ok"
       THEN StopWith(Reason(outcome),
                     IF tunUp THEN "up"
                     ELSE IF outcome = "tun_setup_failed" THEN "stopped" ELSE tun[session])
       ELSE /\ tun' = [tun EXCEPT ![session] = "up"]
            /\ \E inactive \in SUBSET {"inactive"} :
                 /\ counting' = (counting \/ inactive # {})
                 /\ armed' = [armed EXCEPT ![session] = @ \cup {"info_hold"} \cup inactive]
            /\ UNCHANGED <<fatal, halt, interrupted, transport, over>>

\* recv_push_reply()
RecvPushReply ==
    /\ Message("push_reply")
    /\ LET m == Head(inbox) IN
       \/ /\ complete
          /\ creds' = ExtractAuthToken(creds, m.token)
          /\ UNCHANGED <<partial, complete, connected, told, stopOther>>
       \/ /\ ~complete /\ m.rejected
          /\ partial' = TRUE
          /\ creds' = PurgeSessionId(creds)
          /\ StopFor("undef")
          /\ UNCHANGED <<complete, connected, told>>
       \/ /\ ~complete /\ ~m.rejected /\ m.more
          /\ partial' = TRUE
          /\ UNCHANGED <<complete, connected, told, creds, stopOther>>
    /\ UNCHANGED <<recvOther, auth_pending, info_hold, sent, rejected, fellBack>>

PushReplyCompletes ==
    /\ inbox # <<>> /\ Head(inbox).kind = "push_reply"
    /\ ~complete /\ ~Head(inbox).rejected /\ ~Head(inbox).more
    /\ partial' = TRUE /\ complete' = TRUE
    /\ Connect(Head(inbox))
    /\ UNCHANGED <<recvOther, auth_pending, info_hold, sent, rejected, fellBack>>

Completes(m) == ~m.more

\* recv_push_update(): an option that cannot be updated or is rejected throws.
RecvPushUpdate ==
    /\ inbox # <<>> /\ Head(inbox).kind = "push_update"
    /\ LET m == Head(inbox) IN
       /\ partial' = TRUE
       /\ \/ /\ m.rejected
             /\ complete' = FALSE
             /\ StopFor("undef") /\ inbox' = <<>>
          \/ /\ ~m.rejected
             /\ complete' = Completes(m)
             /\ inbox' = Tail(inbox)
             /\ UNCHANGED stopOther
    /\ UNCHANGED <<recvOther, auth_pending, connected, info_hold, told, credVars>>

\* recv_auth_failed().  The session goes on with the password if there is one,
\* or if none is needed and nobody has to be asked.
\* Mutant: it does without the password.
ReconnectsAnyway == ~creds.asks
Reconnects == ~creds.asks /\ (~given.password \/ creds.password)
RecvAuthFailed ==
    /\ Message("auth_failed")
    /\ \/ /\ Head(inbox).temp
          /\ StopFor("undef")
          /\ UNCHANGED credVars
       \/ /\ ~Head(inbox).temp
          /\ creds' = PurgeSessionId(creds)
          /\ rejected' = rejected \cup ({sent.token} \ {NoToken})
          /\ StopFor(IF creds.token = NoToken THEN "auth_failed"
                     ELSE IF Reconnects THEN "undef" ELSE "session_expired")
          /\ fellBack' = (creds.token # NoToken /\ Reconnects)
          /\ UNCHANGED sent
    /\ UNCHANGED <<recvOther, partial, complete, auth_pending, connected,
                   info_hold, told>>

\* recv_halt_restart()
RecvHaltRestart ==
    /\ \/ Message("halt") /\ StopFor("other")
       \/ Message("restart") /\ StopFor("undef")
    /\ creds' = IF Head(inbox).psid THEN creds ELSE PurgeSessionId(creds)
    /\ UNCHANGED <<recvOther, partial, complete, auth_pending, connected,
                   info_hold, told, sent, rejected, fellBack>>

\* recv_auth_pending()
RecvAuthPending ==
    /\ Message("auth_pending")
    /\ auth_pending' = TRUE
    /\ UNCHANGED <<recvOther, stopOther, partial, complete, connected,
                   info_hold, told, credVars>>

\* recv_info(): INFO is held back until info_hold is released.
\* Mutant: until the session is connected.
HoldsUntilConnected == ~connected
Holds == info_hold # Released
RecvInfo ==
    /\ Message("info")
    /\ IF Holds THEN info_hold' = Append(info_hold, Head(inbox).id) /\ UNCHANGED told
       ELSE told' = Append(told, Head(inbox).id) /\ UNCHANGED info_hold
    /\ UNCHANGED <<recvOther, stopOther, partial, complete, auth_pending,
                   connected, credVars>>

\* INFO_PRE that asks the user to authenticate on the web.
RecvInfoPre ==
    /\ Message("info_pre")
    /\ creds' = [creds EXCEPT !.asks = TRUE]
    /\ UNCHANGED <<recvOther, stopOther, partial, complete, auth_pending,
                   connected, info_hold, told, sent, rejected, fellBack>>

ControlRecv ==
    \/ RecvPushReply \/ PushReplyCompletes \/ RecvPushUpdate \/ RecvAuthFailed
    \/ RecvHaltRestart \/ RecvAuthPending \/ RecvInfo \/ RecvInfoPre

-----------------------------------------------------------------------------
(* Timers and posted lambdas *)

Handles(s, t) == Idle /\ t \in armed[s]

\* armed once the handler of t has run.
Done(s, t) == [armed EXCEPT ![s] = @ \ {t}]

callbackOther == <<session, given, interrupted, transport, key, partial, complete, auth_pending, connected,
                   counting, inbox, posted, credVars, serverVars>>

\* A handler of a session that has ended does nothing.
HandlerIgnored(s, t) ==
    /\ Handles(s, t)
    /\ s # session \/ halt
    /\ armed' = Done(s, t)
    /\ UNCHANGED <<callbackOther, over, tun, halt, fatal, info_hold, told>>

\* send_push_request_callback(): again and again, less often while the user
\* authenticates.
\* Mutant: not at all while the user authenticates.
RepeatsUnlessPending == ~auth_pending
Repeats == TRUE
SendPushRequest ==
    /\ Handles(session, "push_request") /\ ~halt
    /\ armed' = IF ~partial /\ Repeats THEN armed ELSE Done(session, "push_request")
    /\ UNCHANGED <<callbackOther, over, tun, halt, fatal, info_hold, told>>

\* info_hold_callback()
InfoHoldCallback ==
    /\ Handles(session, "info_hold") /\ ~halt
    /\ info_hold' = Released
    /\ told' = IF info_hold = Released THEN told ELSE told \o info_hold
    /\ armed' = Done(session, "info_hold")
    /\ UNCHANGED <<callbackOther, over, tun, halt, fatal>>

\* inactive_callback()
InactiveCallback ==
    /\ Handles(session, "inactive") /\ ~halt
    /\ StopFor("other")
    /\ UNCHANGED stopKeeps

\* The tun's bytes are counted: reset_inactive_timer() posts its lambda.
TunBytes ==
    /\ Idle /\ counting /\ posted[session] < MaxPosted
    /\ posted' = [posted EXCEPT ![session] = @ + 1]
    /\ UNCHANGED <<session, over, tun, given, objectVars, armed, credVars, serverVars>>

\* Whatever became of the session, its timer starts again if the bytes suffice.
ResetInactiveTimer(s) ==
    /\ Idle /\ posted[s] > 0
    /\ posted' = [posted EXCEPT ![s] = @ - 1]
    /\ \E enough \in SUBSET {"inactive"} : armed' = [armed EXCEPT ![s] = @ \cup enough]
    /\ UNCHANGED <<session, over, tun, given, objectVars, credVars, serverVars>>

-----------------------------------------------------------------------------
(* The client *)

\* ClientConnect::stop()
ClientStops ==
    /\ Idle /\ ~over /\ over' = TRUE
    /\ IF halt THEN UNCHANGED <<tun, halt, transport, counting, armed>>
       ELSE /\ tun' = [tun EXCEPT ![session] = StopTun(@)]
            /\ halt' = TRUE /\ transport' = "stopped" /\ ResetCallbacks
            /\ CancelTimers
    /\ UNCHANGED <<stopKeeps, interrupted, fatal>>

NewOptions == partial' = FALSE /\ complete' = FALSE

\* ClientConnect::new_client(), at any time: it stops the session before.  If
\* that had ended, the handlers that were ready by then have run.  Of an
\* interrupted one the transport goes with the object, but not the tun if it has
\* a wait for the ring pending, which keeps it.
NewClient ==
    /\ Idle /\ ~over /\ session < MaxSessions
    /\ halt => ReadyHaveRun
    /\ session' = session + 1
    /\ \/ halt /\ UNCHANGED <<tun, interrupted>>
       \/ /\ halt => session \in interrupted
          /\ tun' = [tun EXCEPT ![session] = StopTun(@)]
          /\ interrupted' = interrupted \ {session}
    /\ IF halt THEN UNCHANGED armed ELSE CancelTimers
    /\ halt' = FALSE /\ transport' = "starting" /\ key' = "none"
    /\ NewOptions
    /\ auth_pending' = FALSE /\ connected' = FALSE
    /\ fatal' = "undef"
    /\ info_hold' = <<>> /\ told' = <<>> /\ counting' = FALSE /\ inbox' = <<>>
    /\ server' = "push" /\ infos' = 0
    /\ UNCHANGED <<over, given, posted, credVars, tokens>>

-----------------------------------------------------------------------------
(* The server *)

Says(m, next) == inbox' = Append(inbox, m) /\ server' = next

Replied(bad) == IF bad /\ ~RepliesGoOn THEN "final" ELSE "done"

NewToken == {NoToken} \cup ({tokens + 1} \cap Tokens)

\* A reply to the first PUSH_REQUEST, in one part or two; later ones refresh
\* the token.
ServerReplies ==
    /\ infos' = infos
    /\ \E more, bad \in BOOLEAN, t \in NewToken :
         /\ tokens' = IF t = NoToken THEN tokens ELSE t
         /\ \/ /\ server = "push"
               /\ more => t = NoToken
               /\ (more /\ bad) => RepliesGoOn
               /\ Says([kind |-> "push_reply", more |-> more, rejected |-> bad, token |-> t],
                       IF more THEN "pushing" ELSE Replied(bad))
            \/ /\ server = "pushing" /\ ~more
               /\ Says([kind |-> "push_reply", more |-> FALSE, rejected |-> bad, token |-> t],
                       Replied(bad))
            \/ /\ server = "done" \/ (server = "updating" /\ LateReplies)
               /\ ~more /\ ~bad /\ t # NoToken
               /\ Says([kind |-> "push_reply", more |-> FALSE, rejected |-> FALSE, token |-> t], server)

ServerUpdates ==
    /\ UNCHANGED <<tokens, infos>>
    /\ server \in {"done", "updating"}
    /\ \E more, bad \in BOOLEAN :
         /\ server = "updating" => ~more
         /\ Says([kind |-> "push_update", more |-> more, rejected |-> bad],
                 IF more THEN "updating" ELSE "done")

ServerEnds ==
    /\ UNCHANGED <<tokens, infos>>
    /\ \/ \E temp \in BOOLEAN : Says([kind |-> "auth_failed", temp |-> temp], "final")
       \/ \E f \in {"halt", "restart"}, psid \in BOOLEAN :
            /\ f = "halt" => ~psid
            /\ Says([kind |-> f, psid |-> psid], "final")

ServerInforms ==
    /\ UNCHANGED tokens
    /\ \/ /\ infos < MaxInfos
          /\ infos' = infos + 1
          /\ Says([kind |-> "info", id |-> infos'], server)
       \/ /\ server = "push" /\ UNCHANGED infos
          /\ \/ ~creds.asks /\ Says([kind |-> "info_pre"], server)
             \/ ~auth_pending /\ Says([kind |-> "auth_pending"], server)

\* transport_recv(): a packet, or its acknowledgment, brings one message more.
\* What the server says does not depend on what the client does meanwhile.  The
\* messages of an interrupted session come one by one (none of them ends it, and
\* what a packet leaves unread when a handler throws the next one brings), behind
\* the handlers that were ready when it was.
TransportRecv ==
    /\ transport = "up" /\ key = "active"
    /\ server # "final" /\ Len(inbox) < IF halt THEN 1 ELSE MaxBatch
    /\ halt => ReadyHaveRun
    /\ ServerReplies \/ ServerUpdates \/ ServerEnds \/ ServerInforms
    /\ UNCHANGED <<session, over, tun, given, recvFlags, halt, interrupted, transport, key, counting,
                   fatal, timerVars, credVars>>

-----------------------------------------------------------------------------
Handler(s, t) ==
    \/ HandlerIgnored(s, t)
    \/ /\ s = session
       /\ \/ t = "push_request" /\ SendPushRequest
          \/ t = "info_hold" /\ InfoHoldCallback
          \/ t = "inactive" /\ InactiveCallback

Next ==
    \/ TransportConnecting \/ Authenticate \/ Active
    \/ Fails \/ TunSendFails \/ KeyContextFails \/ TransportFails
    \/ TransportRecv \/ ControlRecv
    \/ \E s \in Sessions : ResetInactiveTimer(s) \/ \E t \in Timers : Handler(s, t)
    \/ TunBytes \/ ClientStops \/ NewClient

Spec == Init /\ [][Next]_vars

-----------------------------------------------------------------------------
(* Properties *)

MessageKinds == {"push_reply", "push_update", "auth_failed", "halt", "restart", "auth_pending",
                 "info", "info_pre"}
Events == {Connected} \cup 1 .. MaxInfos
TypeOK ==
    /\ session \in Sessions /\ over \in BOOLEAN /\ halt \in BOOLEAN
    /\ interrupted \subseteq Sessions
    /\ transport \in {"starting", "up", "stopped"}
    /\ key \in {"none", "started", "sent", "active"}
    /\ tun \in [Sessions -> {"none", "up", "stopped"}]
    /\ {partial, complete, auth_pending, connected, counting} \subseteq BOOLEAN
    /\ complete => partial
    /\ fatal \in Ends \cup {"undef", "unhandled"}
    /\ info_hold = Released \/ info_hold \in Seq(1 .. MaxInfos)
    /\ told \in Seq(Events)
    /\ armed \in [Sessions -> SUBSET Timers]
    /\ posted \in [Sessions -> 0 .. MaxPosted]
    /\ \A i \in DOMAIN inbox : inbox[i].kind \in MessageKinds
    /\ creds \in [user : BOOLEAN, password : BOOLEAN, token : Tokens \cup {NoToken},
                  tokenUser : BOOLEAN, asks : BOOLEAN]
    /\ given \in Given
    /\ server \in {"push", "pushing", "done", "updating", "final"}
    /\ tokens \in 0 .. MaxTokens /\ infos \in 0 .. MaxInfos
    /\ sent \in [user : BOOLEAN, token : Tokens \cup {NoToken}, any : BOOLEAN]
    /\ rejected \subseteq Tokens /\ fellBack \in BOOLEAN

\* A session that has ended keeps neither its tun nor its transport, whatever
\* messages were still to be handled: the next one finds the interface free.
\* Only a session whose stop() an exception interrupted keeps them, and only its
\* tun may be there when the next one starts.
DownWhenEnded ==
    /\ TypeOK
    /\ (halt /\ session \notin interrupted) => transport = "stopped" /\ tun[session] # "up"
    /\ \A s \in 1 .. session - 1 : tun[s] = "up" => s \in interrupted
    /\ session \in interrupted => halt

\* "We got a PUSH REPLY in the middle of a session.  Ignore it" (cliproto.hpp:1128):
\* a session connects once.
ConnectsOnce == \A i, j \in DOMAIN told : (told[i] = Connected /\ told[j] = Connected) => i = j

\* The client is told of each INFO message, in their order and without a gap,
\* and of none before it is connected.
InfoInOrder ==
    /\ \A i \in DOMAIN told : told[i] # Connected =>
         /\ \A j \in 1 .. i - 1 : told[j] < told[i]
         /\ \A k \in 1 .. told[i] : \E j \in 1 .. i : told[j] = k
    /\ told # <<>> => told[1] = Connected

\* A token with which authentication failed is not sent again.
RejectedTokenIsGone == [][sent'.token \in rejected => UNCHANGED sent]_vars

\* A session that ends because its token was rejected, to go on with the
\* password, is not followed by one that lacks the password.
FallsBack == fatal = "need_creds" => ~fellBack

\* The user's name is sent each time, whatever was purged; without it only
\* where auth-nocache meets a name that has no password.
NameIsSent == sent.any => sent.user \/ (given.nocache /\ ~given.password)

\* The credentials last: purging one of them leaves what the next session needs.
CredentialsLast == FallsBack /\ NameIsSent

\* As long as none of its options have come the session is to ask for them.
AsksUntilAnswered == (key = "active" /\ ~halt /\ ~partial) => "push_request" \in armed[session]

\* When the client has ended, unless its last session was interrupted, each handler
\* leaves less to do, of the messages or of some session, and nowhere more:
\* io_context::run() runs out of work, and connect() returns.  The transport of an
\* interrupted session goes on giving it work.
Work(s) == 2 * posted[s] + Cardinality(armed[s])
ConnectReturns ==
    [][(over /\ session \notin interrupted)
       => /\ Len(inbox') <= Len(inbox) /\ \A s \in Sessions : Work(s)' <= Work(s)
          /\ Len(inbox') < Len(inbox) \/ \E s \in Sessions : Work(s)' < Work(s)]_vars
=============================================================================
