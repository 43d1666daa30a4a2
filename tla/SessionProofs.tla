---------------------------- MODULE SessionProofs ----------------------------
(***************************************************************************)
(* Proofs about Session, for any number of sessions, tokens, messages of a *)
(* packet and posted lambdas, and whatever the user gives.                 *)
(***************************************************************************)
EXTENDS Session, SequenceTheorems, FiniteSetTheorems, TLAPS

Reply == [kind : {"push_reply"}, more : BOOLEAN, rejected : BOOLEAN, token : Tokens \cup {NoToken}]
Update == [kind : {"push_update"}, more : BOOLEAN, rejected : BOOLEAN]
AuthFailed == [kind : {"auth_failed"}, temp : BOOLEAN]
HaltRestart == [kind : {"halt", "restart"}, psid : BOOLEAN]
Inform == [kind : {"auth_pending", "info_pre"}]
Info == [kind : {"info"}, id : 1 .. MaxInfos]
Messages == Reply \cup Update \cup AuthFailed \cup HaltRestart \cup Inform \cup Info
InboxOK == inbox \in Seq(Messages)

TunState == {"none", "up", "stopped"}
Creds == [user : BOOLEAN, password : BOOLEAN, token : Tokens \cup {NoToken},
          tokenUser : BOOLEAN, asks : BOOLEAN]

\* The parts of TypeOK that a handler changes together.
StopOK ==
    /\ over \in BOOLEAN /\ halt \in BOOLEAN
    /\ transport \in {"starting", "up", "stopped"}
    /\ tun \in [Sessions -> TunState]
    /\ counting \in BOOLEAN
    /\ fatal \in Ends \cup {"undef", "unhandled"}
    /\ interrupted \subseteq Sessions
    /\ armed \in [Sessions -> SUBSET Timers]
RecvOK ==
    /\ partial \in BOOLEAN /\ complete \in BOOLEAN /\ (complete => partial)
    /\ auth_pending \in BOOLEAN /\ connected \in BOOLEAN
    /\ info_hold = Released \/ info_hold \in Seq(1 .. MaxInfos)
    /\ told \in Seq(Events)
CredsOK ==
    /\ creds \in Creds
    /\ sent \in [user : BOOLEAN, token : Tokens \cup {NoToken}, any : BOOLEAN]
    /\ rejected \subseteq Tokens /\ fellBack \in BOOLEAN
RestOK ==
    /\ session \in Sessions
    /\ key \in {"none", "started", "sent", "active"}
    /\ posted \in [Sessions -> 0 .. MaxPosted]
    /\ given \in Given
    /\ server \in {"push", "pushing", "done", "updating", "final"}
    /\ tokens \in 0 .. MaxTokens /\ infos \in 0 .. MaxInfos

Types == StopOK /\ RecvOK /\ CredsOK /\ RestOK /\ InboxOK

LEMMA TypesSuffice == Types => TypeOK
<1> SUFFICES ASSUME Types PROVE TypeOK
  OBVIOUS
<1>1. \A i \in DOMAIN inbox : inbox[i].kind \in MessageKinds
  <2>1. \A i \in DOMAIN inbox : inbox[i] \in Messages
    BY DEF Types, InboxOK
  <2>2. \A m \in Messages : m.kind \in MessageKinds
    BY DEF Messages, Reply, Update, AuthFailed, HaltRestart, Inform, Info, MessageKinds
  <2> QED BY <2>1, <2>2
<1> QED BY <1>1 DEF Types, StopOK, RecvOK, CredsOK, RestOK, TypeOK, TunState, Creds

-----------------------------------------------------------------------------
(* What stop() does *)

LEMMA StopTypes ==
  ASSUME StopOK, session \in Sessions, NEW f \in Ends \cup {"undef", "unhandled"}, NEW t \in TunState,
         StopWith(f, t)
  PROVE  StopOK'
<1>1. fatal' \in Ends \cup {"undef", "unhandled"}
  BY DEF StopOK, StopWith
<1>2. over' \in BOOLEAN /\ halt' \in BOOLEAN /\ counting' \in BOOLEAN
      /\ transport' \in {"starting", "up", "stopped"} /\ interrupted' \subseteq Sessions
  BY DEF StopOK, StopWith, ResetCallbacks
<1>3. tun' \in [Sessions -> TunState]
  BY DEF StopOK, StopWith, StopTun, TunState
<1>4. armed' \in [Sessions -> SUBSET Timers]
  BY DEF StopOK, StopWith, CancelTimers
<1> QED BY <1>1, <1>2, <1>3, <1>4 DEF StopOK

LEMMA StopForTypes ==
  ASSUME StopOK, session \in Sessions, NEW f \in Ends \cup {"undef", "unhandled"}, StopFor(f)
  PROVE  StopOK'
<1>1. tun[session] \in TunState
  BY DEF StopOK
<1> QED BY <1>1, StopTypes DEF StopFor

-----------------------------------------------------------------------------
(* The credentials *)

LEMMA PurgeTypes ==
  ASSUME given \in Given, NEW c \in Creds
  PROVE  PurgeSessionId(c) \in Creds /\ PurgeIfNocache(c) \in Creds /\ SaveUsername(c) \in Creds
  BY GivenIsCredentials DEF PurgeSessionId, PurgeIfNocache, PurgeUserPass, SaveUsername, Creds

LEMMA ExtractTypes ==
  ASSUME NEW c \in Creds, NEW t \in Tokens \cup {NoToken}
  PROVE  ExtractAuthToken(c, t) \in Creds
  BY DEF ExtractAuthToken, Creds

LEMMA ClientAuthTypes ==
  ASSUME Types, ClientAuth
  PROVE  StopOK' /\ CredsOK' /\ key' \in {"none", "started", "sent", "active"}
<1>1. given.password \in BOOLEAN /\ given.nocache \in BOOLEAN
  BY GivenIsCredentials DEF Types, RestOK
<1>2. CASE creds.token = NoToken /\ given.password /\ ~creds.password
  <2>1. StopFor("need_creds") /\ UNCHANGED <<key, credVars>>
    BY <1>2 DEF ClientAuth
  <2>2. StopOK'
    BY <2>1, StopForTypes DEF Types, RestOK, Ends
  <2> QED BY <2>1, <2>2 DEF Types, CredsOK, RestOK, credVars
<1>3. CASE ~(creds.token = NoToken /\ given.password /\ ~creds.password)
  <2>1. /\ sent' = [user |-> creds.tokenUser \/ creds.user, token |-> creds.token, any |-> TRUE]
        /\ creds' = PurgeIfNocache(SaveUsername(creds))
        /\ key' = IF key = "started" THEN "sent" ELSE key
        /\ fellBack' = FALSE
        /\ UNCHANGED <<fatal, tun, halt, interrupted, transport, counting, armed, over, rejected>>
    BY <1>3 DEF ClientAuth
  <2>2. creds' \in Creds
    BY <2>1, PurgeTypes DEF Types, CredsOK, RestOK
  <2>3. sent' \in [user : BOOLEAN, token : Tokens \cup {NoToken}, any : BOOLEAN]
    BY <2>1, Zenon DEF Types, CredsOK, Creds
  <2> QED BY <2>1, <2>2, <2>3 DEF Types, CredsOK, RestOK, StopOK
<1> QED BY <1>2, <1>3

-----------------------------------------------------------------------------
(* The messages *)

LEMMA HeadOfInbox ==
  ASSUME InboxOK, inbox # <<>>
  PROVE  /\ Head(inbox) \in Messages
         /\ Tail(inbox) \in Seq(Messages)
         /\ Head(inbox).kind = "push_reply" => Head(inbox) \in Reply
         /\ Head(inbox).kind = "push_update" => Head(inbox) \in Update
         /\ Head(inbox).kind = "auth_failed" => Head(inbox) \in AuthFailed
         /\ Head(inbox).kind \in {"halt", "restart"} => Head(inbox) \in HaltRestart
         /\ Head(inbox).kind = "info" => Head(inbox) \in Info
<1>1. Head(inbox) \in Messages /\ Tail(inbox) \in Seq(Messages)
  BY HeadTailProperties DEF InboxOK
<1>2. ASSUME NEW m \in Messages
      PROVE  /\ m.kind = "push_reply" => m \in Reply
             /\ m.kind = "push_update" => m \in Update
             /\ m.kind = "auth_failed" => m \in AuthFailed
             /\ m.kind \in {"halt", "restart"} => m \in HaltRestart
             /\ m.kind = "info" => m \in Info
  BY DEF Messages, Reply, Update, AuthFailed, HaltRestart, Inform, Info
<1> QED BY <1>1, <1>2

LEMMA ConnectTypes ==
  ASSUME Types, inbox # <<>>, NEW m \in Reply, Connect(m)
  PROVE  /\ StopOK' /\ creds' \in Creds /\ connected' \in BOOLEAN /\ told' \in Seq(Events)
         /\ InboxOK'
<1>1. PICK outcome \in Outcomes :
        LET tunUp == outcome \in {"no_data_channel", "compress_error", "ok"}
            returns == outcome = "ok" \/ (outcome = "tun_setup_failed" /\ connected)
            c == ExtractAuthToken(creds, m.token)
        IN
        /\ creds' = IF outcome = "bad_options" THEN c ELSE PurgeIfNocache(c)
        /\ connected' = (connected \/ tunUp)
        /\ told' = IF returns \/ outcome = "compress_error" THEN Append(told, Connected) ELSE told
        /\ inbox' = IF returns THEN Tail(inbox) ELSE <<>>
        /\ IF outcome # "ok"
           THEN StopWith(Reason(outcome),
                         IF tunUp THEN "up"
                         ELSE IF outcome = "tun_setup_failed" THEN "stopped" ELSE tun[session])
           ELSE /\ tun' = [tun EXCEPT ![session] = "up"]
                /\ \E inactive \in SUBSET {"inactive"} :
                     /\ counting' = (counting \/ inactive # {})
                     /\ armed' = [armed EXCEPT ![session] = @ \cup {"info_hold"} \cup inactive]
                /\ UNCHANGED <<fatal, halt, interrupted, transport, over>>
  BY DEF Connect
<1>2. creds' \in Creds
  <2>1. m.token \in Tokens \cup {NoToken}
    BY DEF Reply
  <2> QED BY <1>1, <2>1, ExtractTypes, PurgeTypes DEF Types, CredsOK, RestOK
<1>3. connected' \in BOOLEAN
  BY <1>1, Zenon DEF Types, RecvOK
<1>4. told' \in Seq(Events)
  <2>1. told \in Seq(Events) /\ Connected \in Events
    BY DEF Types, RecvOK, Events
  <2>2. Append(told, Connected) \in Seq(Events)
    BY <2>1, AppendProperties
  <2> QED BY <1>1, <2>1, <2>2
<1>5. InboxOK'
  BY <1>1, HeadOfInbox DEF InboxOK, Types
<1>6. StopOK'
  <2>1. CASE outcome # "ok"
    <3>1. Reason(outcome) \in Ends \cup {"undef"}
      BY DEF Reason, Ends
    <3>2. tun[session] \in TunState
      BY DEF Types, StopOK, RestOK
    <3>3. PICK t \in TunState : StopWith(Reason(outcome), t)
      BY <1>1, <2>1, <3>2 DEF TunState
    <3> QED BY <3>1, <3>3, StopTypes DEF Types, RestOK
  <2>2. CASE outcome = "ok"
    <3>1. tun' \in [Sessions -> TunState]
      BY <1>1, <2>2 DEF Types, StopOK, TunState
    <3>2. PICK inactive \in SUBSET {"inactive"} :
             /\ counting' = (counting \/ inactive # {})
             /\ armed' = [armed EXCEPT ![session] = @ \cup {"info_hold"} \cup inactive]
      BY <1>1, <2>2
    <3>3. counting' \in BOOLEAN
      BY <3>2, Zenon DEF Types, StopOK
    <3>4. armed' \in [Sessions -> SUBSET Timers]
      BY <3>2 DEF Types, StopOK, Timers
    <3> QED BY <1>1, <2>2, <3>1, <3>3, <3>4 DEF Types, StopOK
  <2> QED BY <2>1, <2>2
<1> QED BY <1>2, <1>3, <1>4, <1>5, <1>6
LEMMA PushReplyTypes == ASSUME Types, RecvPushReply PROVE Types'
<1> DEFINE m == Head(inbox)
<1>1. inbox # <<>> /\ m \in Reply /\ inbox' \in Seq(Messages)
  BY HeadOfInbox DEF RecvPushReply, Message, Types
<1>2. m.token \in Tokens \cup {NoToken}
  BY <1>1 DEF Reply
<1>3. RestOK' /\ InboxOK'
  BY <1>1 DEF RecvPushReply, recvOther, serverVars, Types, RestOK, InboxOK
<1>4. sent' = sent /\ rejected' = rejected /\ fellBack' = fellBack
      /\ auth_pending' = auth_pending /\ info_hold' = info_hold
  BY DEF RecvPushReply
<1>5. CASE complete /\ creds' = ExtractAuthToken(creds, m.token)
           /\ UNCHANGED <<partial, complete, connected, told, stopOther>>
  <2>1. creds' \in Creds
    BY <1>2, <1>5, ExtractTypes DEF Types, CredsOK
  <2> QED BY <1>3, <1>4, <1>5, <2>1 DEF Types, CredsOK, StopOK, RecvOK, stopOther
<1>6. CASE /\ ~complete /\ m.rejected
           /\ partial' = TRUE
           /\ creds' = PurgeSessionId(creds)
           /\ StopFor("undef")
           /\ UNCHANGED <<complete, connected, told>>
  <2>1. creds' \in Creds
    BY <1>6, PurgeTypes DEF Types, CredsOK, RestOK
  <2>2. StopOK'
    BY <1>6, StopForTypes DEF Types, RestOK
  <2> QED BY <1>3, <1>4, <1>6, <2>1, <2>2 DEF Types, CredsOK, RecvOK
<1>7. CASE /\ ~complete /\ ~m.rejected /\ m.more
           /\ partial' = TRUE
           /\ UNCHANGED <<complete, connected, told, creds, stopOther>>
  BY <1>3, <1>4, <1>7 DEF Types, CredsOK, StopOK, RecvOK, stopOther
<1> QED BY <1>5, <1>6, <1>7 DEF RecvPushReply

LEMMA PushReplyCompletesTypes == ASSUME Types, PushReplyCompletes PROVE Types'
<1>1. inbox # <<>> /\ Head(inbox) \in Reply /\ Connect(Head(inbox))
  BY HeadOfInbox DEF PushReplyCompletes, Types
<1>2. /\ StopOK' /\ creds' \in Creds /\ connected' \in BOOLEAN /\ told' \in Seq(Events)
      /\ InboxOK'
  BY <1>1, ConnectTypes
<1> QED BY <1>2 DEF PushReplyCompletes, recvOther, serverVars, Types, RestOK, RecvOK, CredsOK

LEMMA PushUpdateTypes == ASSUME Types, RecvPushUpdate PROVE Types'
<1> DEFINE m == Head(inbox)
<1>1. inbox # <<>> /\ m \in Update /\ Tail(inbox) \in Seq(Messages)
  BY HeadOfInbox DEF RecvPushUpdate, Types
<1>2. PICK b \in BOOLEAN : complete' = b
  <2>1. m.more \in BOOLEAN
    BY <1>1 DEF Update
  <2> QED BY <2>1 DEF RecvPushUpdate, Completes
<1>3. InboxOK' /\ StopOK'
  <2>1. CASE m.rejected /\ StopFor("undef") /\ inbox' = <<>>
    BY <2>1, StopForTypes DEF Types, RestOK, InboxOK
  <2>2. CASE ~m.rejected /\ inbox' = Tail(inbox) /\ UNCHANGED stopOther
    BY <1>1, <2>2 DEF Types, InboxOK, StopOK, stopOther
  <2> QED BY <2>1, <2>2 DEF RecvPushUpdate
<1> QED BY <1>2, <1>3 DEF RecvPushUpdate, recvOther, serverVars, credVars, Types, RestOK, RecvOK, CredsOK

LEMMA AuthFailedTypes == ASSUME Types, RecvAuthFailed PROVE Types'
<1>1. inbox # <<>> /\ InboxOK'
  BY HeadOfInbox DEF RecvAuthFailed, Message, Types, InboxOK
<1>2. RestOK' /\ RecvOK'
  BY DEF RecvAuthFailed, recvOther, serverVars, Types, RestOK, RecvOK
<1>3. StopOK' /\ CredsOK'
  <2>1. CASE StopFor("undef") /\ UNCHANGED credVars
    BY <2>1, StopForTypes DEF Types, RestOK, CredsOK, credVars
  <2>2. CASE /\ creds' = PurgeSessionId(creds)
             /\ rejected' = rejected \cup ({sent.token} \ {NoToken})
             /\ StopFor(IF creds.token = NoToken THEN "auth_failed"
                        ELSE IF Reconnects THEN "undef" ELSE "session_expired")
             /\ fellBack' = (creds.token # NoToken /\ Reconnects)
             /\ UNCHANGED sent
    <3>1. creds' \in Creds
      BY <2>2, PurgeTypes DEF Types, CredsOK, RestOK
    <3>2. rejected' \subseteq Tokens
      <4>1. sent.token \in Tokens \cup {NoToken}
        BY DEF Types, CredsOK
      <4> QED BY <2>2, <4>1 DEF Types, CredsOK
    <3>3. fellBack' \in BOOLEAN
      BY <2>2, Zenon
    <3>4. PICK f \in Ends \cup {"undef"} : StopFor(f)
      BY <2>2 DEF Ends
    <3>5. StopOK'
      BY <3>4, StopForTypes DEF Types, RestOK
    <3> QED BY <2>2, <3>1, <3>2, <3>3, <3>5 DEF Types, CredsOK
  <2> QED BY <2>1, <2>2 DEF RecvAuthFailed
<1> QED BY <1>1, <1>2, <1>3 DEF Types

LEMMA HaltRestartTypes == ASSUME Types, RecvHaltRestart PROVE Types'
<1>1. inbox # <<>> /\ InboxOK'
  BY HeadOfInbox DEF RecvHaltRestart, Message, Types, InboxOK
<1>2. RestOK' /\ RecvOK'
  BY DEF RecvHaltRestart, recvOther, serverVars, Types, RestOK, RecvOK
<1>3. StopOK'
  <2>1. PICK f \in {"other", "undef"} : StopFor(f)
    BY DEF RecvHaltRestart
  <2> QED BY <2>1, StopForTypes DEF Types, RestOK, Ends
<1>4. CredsOK'
  <2>1. creds' = creds \/ creds' = PurgeSessionId(creds)
    BY DEF RecvHaltRestart
  <2>2. creds' \in Creds
    BY <2>1, PurgeTypes DEF Types, CredsOK, RestOK
  <2> QED BY <2>2 DEF RecvHaltRestart, Types, CredsOK
<1> QED BY <1>1, <1>2, <1>3, <1>4 DEF Types

LEMMA InformTypes == ASSUME Types, RecvAuthPending \/ RecvInfo \/ RecvInfoPre PROVE Types'
<1>1. inbox # <<>> /\ InboxOK'
  BY HeadOfInbox DEF RecvAuthPending, RecvInfo, RecvInfoPre, Message, Types, InboxOK
<1>2. RestOK' /\ StopOK'
  BY DEF RecvAuthPending, RecvInfo, RecvInfoPre, recvOther, stopOther, serverVars, Types, RestOK, StopOK
<1>3. CASE RecvAuthPending
  BY <1>1, <1>2, <1>3 DEF RecvAuthPending, credVars, Types, RecvOK, CredsOK
<1>4. CASE RecvInfo
  <2>1. Head(inbox).id \in 1 .. MaxInfos
    BY <1>1, <1>4, HeadOfInbox DEF RecvInfo, Message, Types, Info
  <2>2. CredsOK'
    BY <1>4 DEF RecvInfo, credVars, Types, CredsOK
  <2>3. CASE Holds
    <3>1. info_hold \in Seq(1 .. MaxInfos)
      BY <2>3 DEF Holds, Types, RecvOK
    <3>2. Append(info_hold, Head(inbox).id) \in Seq(1 .. MaxInfos)
      BY <2>1, <3>1, AppendProperties
    <3> QED BY <1>1, <1>2, <1>4, <2>2, <2>3, <3>2 DEF RecvInfo, Types, RecvOK
  <2>4. CASE ~Holds
    <3>1. Append(told, Head(inbox).id) \in Seq(Events)
      BY <2>1, AppendProperties DEF Types, RecvOK, Events
    <3> QED BY <1>1, <1>2, <1>4, <2>2, <2>4, <3>1 DEF RecvInfo, Types, RecvOK
  <2> QED BY <2>3, <2>4
<1>5. CASE RecvInfoPre
  <2>1. creds' \in Creds
    BY <1>5 DEF RecvInfoPre, Types, CredsOK, Creds
  <2> QED BY <1>1, <1>2, <1>5, <2>1 DEF RecvInfoPre, Types, RecvOK, CredsOK
<1> QED BY <1>3, <1>4, <1>5

LEMMA ControlRecvTypes == ASSUME Types, ControlRecv PROVE Types'
  BY PushReplyTypes, PushReplyCompletesTypes, PushUpdateTypes, AuthFailedTypes, HaltRestartTypes,
     InformTypes DEF ControlRecv

-----------------------------------------------------------------------------
(* The server *)

\* The inbox gets one message more.
Brings(m) == inbox' = Append(inbox, m)

SaysReply(m) ==
    /\ m \in Reply /\ m.token \in NewToken
    /\ tokens' = IF m.token = NoToken THEN tokens ELSE m.token
    /\ \/ /\ server = "push" /\ (m.more /\ m.rejected => RepliesGoOn)
          /\ server' = IF m.more THEN "pushing" ELSE Replied(m.rejected)
       \/ /\ server = "pushing" /\ ~m.more
          /\ server' = Replied(m.rejected)
       \/ /\ server = "done" \/ (server = "updating" /\ LateReplies)
          /\ ~m.more /\ ~m.rejected
          /\ server' = server
SaysUpdate(m) ==
    /\ m \in Update /\ tokens' = tokens
    /\ server \in {"done", "updating"} /\ (server = "updating" => ~m.more)
    /\ server' = IF m.more THEN "updating" ELSE "done"
SaysOther(m) ==
    /\ tokens' = tokens
    /\ \/ m \in AuthFailed \cup HaltRestart /\ server' = "final"
       \/ m \in Inform \cup Info /\ server' = server

LEMMA ServerSays ==
  ASSUME Types, ServerReplies \/ ServerUpdates \/ ServerEnds \/ ServerInforms
  PROVE  /\ \E m : Brings(m) /\ (SaysReply(m) \/ SaysUpdate(m) \/ SaysOther(m))
         /\ infos' \in 0 .. MaxInfos
<1>1. infos \in 0 .. MaxInfos /\ MaxInfos \in Nat
  BY BoundsArePositive DEF Types, RestOK
<1>2. CASE ServerReplies
  <2>1. PICK more \in BOOLEAN, bad \in BOOLEAN, t \in NewToken :
         /\ tokens' = IF t = NoToken THEN tokens ELSE t
         /\ \/ /\ server = "push"
               /\ (more /\ bad) => RepliesGoOn
               /\ Says([kind |-> "push_reply", more |-> more, rejected |-> bad, token |-> t],
                       IF more THEN "pushing" ELSE Replied(bad))
            \/ /\ server = "pushing" /\ ~more
               /\ Says([kind |-> "push_reply", more |-> more, rejected |-> bad, token |-> t],
                       Replied(bad))
            \/ /\ server = "done" \/ (server = "updating" /\ LateReplies)
               /\ ~more /\ ~bad
               /\ Says([kind |-> "push_reply", more |-> more, rejected |-> bad, token |-> t], server)
    BY <1>2 DEF ServerReplies
  <2> DEFINE m == [kind |-> "push_reply", more |-> more, rejected |-> bad, token |-> t]
  <2>2. m \in Reply /\ m.more = more /\ m.rejected = bad /\ m.token = t
    BY DEF Reply, NewToken
  <2>3. Brings(m)
    BY <2>1 DEF Brings, Says
  <2> HIDE DEF m
  <2>4. SaysReply(m)
    BY <2>1, <2>2 DEF SaysReply, Says
  <2> QED BY <1>1, <1>2, <2>3, <2>4 DEF ServerReplies
<1>3. CASE ServerUpdates
  <2>1. PICK more \in BOOLEAN, bad \in BOOLEAN :
          /\ server = "updating" => ~more
          /\ inbox' = Append(inbox, [kind |-> "push_update", more |-> more, rejected |-> bad])
          /\ server' = IF more THEN "updating" ELSE "done"
    BY <1>3 DEF ServerUpdates, Says
  <2> DEFINE m == [kind |-> "push_update", more |-> more, rejected |-> bad]
  <2>2. m \in Update /\ m.more = more /\ Brings(m)
    BY <2>1 DEF Update, Brings
  <2> HIDE DEF m
  <2>3. SaysUpdate(m)
    BY <1>3, <2>1, <2>2 DEF SaysUpdate, ServerUpdates
  <2> QED BY <1>1, <1>3, <2>2, <2>3 DEF ServerUpdates
<1>4. CASE ServerEnds
  <2>1. \A temp \in BOOLEAN : [kind |-> "auth_failed", temp |-> temp] \in AuthFailed
    BY DEF AuthFailed
  <2>2. \A f \in {"halt", "restart"}, psid \in BOOLEAN : [kind |-> f, psid |-> psid] \in HaltRestart
    BY DEF HaltRestart
  <2>3. server' = "final" /\ \E m \in AuthFailed \cup HaltRestart : Brings(m)
    BY <1>4, <2>1, <2>2 DEF ServerEnds, Says, Brings
  <2> QED BY <1>1, <1>4, <2>3 DEF ServerEnds, SaysOther
<1>5. CASE ServerInforms
  <2>1. CASE /\ infos < MaxInfos /\ infos' = infos + 1
             /\ Says([kind |-> "info", id |-> infos'], server)
    <3>1. infos' \in 1 .. MaxInfos
      BY <1>1, <2>1
    <3>2. [kind |-> "info", id |-> infos'] \in Info
      BY <3>1 DEF Info
    <3> QED BY <1>1, <1>5, <2>1, <3>1, <3>2 DEF ServerInforms, Says, Brings, SaysOther
  <2>2. CASE /\ UNCHANGED infos
             /\ \/ Says([kind |-> "info_pre"], server)
                \/ Says([kind |-> "auth_pending"], server)
    <3>1. [kind |-> "info_pre"] \in Inform /\ [kind |-> "auth_pending"] \in Inform
      BY DEF Inform
    <3> QED BY <1>1, <1>5, <2>2, <3>1 DEF ServerInforms, Says, Brings, SaysOther
  <2> QED BY <1>5, <2>1, <2>2 DEF ServerInforms
<1> QED BY <1>2, <1>3, <1>4, <1>5

LEMMA SaysTypes ==
  ASSUME Types, NEW m, SaysReply(m) \/ SaysUpdate(m) \/ SaysOther(m)
  PROVE  /\ m \in Messages
         /\ server' \in {"push", "pushing", "done", "updating", "final"}
         /\ tokens' \in 0 .. MaxTokens
<1>1. tokens \in 0 .. MaxTokens /\ MaxTokens \in Nat
      /\ server \in {"push", "pushing", "done", "updating", "final"}
  BY BoundsArePositive DEF Types, RestOK
<1>2. m \in Messages
  BY DEF SaysReply, SaysUpdate, SaysOther, Messages
<1>3. server' \in {"push", "pushing", "done", "updating", "final"}
  BY <1>1 DEF SaysReply, SaysUpdate, SaysOther, Replied
<1>4. tokens' \in 0 .. MaxTokens
  <2>1. NewToken \subseteq 0 .. MaxTokens
    BY <1>1 DEF NewToken, NoToken, Tokens
  <2> QED BY <1>1, <2>1 DEF SaysReply, SaysUpdate, SaysOther
<1> QED BY <1>2, <1>3, <1>4

LEMMA TransportRecvTypes == ASSUME Types, TransportRecv PROVE Types'
<1>1. PICK m : Brings(m) /\ (SaysReply(m) \/ SaysUpdate(m) \/ SaysOther(m))
  BY ServerSays DEF TransportRecv
<1>2. InboxOK'
  BY <1>1, SaysTypes, AppendProperties DEF Brings, Types, InboxOK
<1>3. RestOK'
  BY <1>1, ServerSays, SaysTypes DEF TransportRecv, timerVars, Types, RestOK
<1> QED BY <1>2, <1>3 DEF TransportRecv, recvFlags, timerVars, credVars, Types, StopOK, RecvOK, CredsOK

-----------------------------------------------------------------------------
(* Types *)

LEMMA InitTypes == Init => Types
<1> SUFFICES ASSUME Init PROVE Types
  OBVIOUS
<1>1. 1 \in Sessions /\ 0 \in 0 .. MaxPosted /\ 0 \in 0 .. MaxTokens /\ 0 \in 0 .. MaxInfos
  BY BoundsArePositive DEF Sessions
<1>2. StopOK
  BY DEF Init, StopOK, TunState
<1>3. RecvOK
  <2>1. <<>> \in Seq(1 .. MaxInfos) /\ <<>> \in Seq(Events)
    BY EmptySeq
  <2> QED BY <2>1 DEF Init, RecvOK
<1>4. CredsOK
  <2>1. given.password \in BOOLEAN
    BY GivenIsCredentials DEF Init
  <2> QED BY <2>1 DEF Init, CredsOK, Creds, NothingSent
<1>5. RestOK
  BY <1>1 DEF Init, RestOK
<1>6. InboxOK
  BY DEF Init, InboxOK
<1> QED BY <1>2, <1>3, <1>4, <1>5, <1>6 DEF Types

LEMMA TimerTypes ==
  ASSUME Types, NEW s \in Sessions, NEW t \in Timers, Handler(s, t)
  PROVE  Types'
<1>1. Done(s, t) \in [Sessions -> SUBSET Timers]
  BY DEF Types, StopOK, Done
<1>2. CASE HandlerIgnored(s, t)
  BY <1>1, <1>2 DEF HandlerIgnored, callbackOther, credVars, serverVars, Types, StopOK, RecvOK, CredsOK, RestOK, InboxOK
<1>3. CASE s = session /\ t = "push_request" /\ SendPushRequest
  BY <1>1, <1>3 DEF SendPushRequest, callbackOther, credVars, serverVars, Types, StopOK, RecvOK, CredsOK, RestOK, InboxOK
<1>4. CASE s = session /\ t = "info_hold" /\ InfoHoldCallback
  <2>1. told' \in Seq(Events)
    <3>1. CASE info_hold = Released
      BY <1>4, <3>1 DEF InfoHoldCallback, Types, RecvOK
    <3>2. CASE info_hold # Released
      <4>1. info_hold \in Seq(Events) /\ told \in Seq(Events)
        <5>1. info_hold \in Seq(1 .. MaxInfos)
          BY <3>2 DEF Types, RecvOK
        <5>2. 1 .. MaxInfos \subseteq Events
          BY DEF Events
        <5> QED BY <5>1, <5>2, SeqMonotonic DEF Types, RecvOK
      <4> QED BY <1>4, <3>2, <4>1, ConcatProperties DEF InfoHoldCallback
    <3> QED BY <3>1, <3>2
  <2> QED BY <1>1, <1>4, <2>1 DEF InfoHoldCallback, callbackOther, credVars, serverVars, Types, StopOK, RecvOK, CredsOK, RestOK, InboxOK
<1>5. CASE s = session /\ t = "inactive" /\ InactiveCallback
  <2>1. StopOK'
    BY <1>5, StopForTypes DEF InactiveCallback, Types, RestOK, Ends
  <2> QED BY <1>5, <2>1 DEF InactiveCallback, stopKeeps, credVars, serverVars, Types, RecvOK, CredsOK, RestOK, InboxOK
<1> QED BY <1>2, <1>3, <1>4, <1>5 DEF Handler

LEMMA StopAndStartTypes == ASSUME Types, ClientStops \/ NewClient PROVE Types'
<1>1. CASE ClientStops
  <2>1. StopOK'
    BY <1>1 DEF ClientStops, StopTun, ResetCallbacks, CancelTimers, Types, StopOK, RestOK, TunState
  <2> QED BY <1>1, <2>1 DEF ClientStops, stopKeeps, credVars, serverVars, Types, RecvOK, CredsOK, RestOK, InboxOK
<1>2. CASE NewClient
  <2>1. session' \in Sessions /\ MaxInfos \in Nat
    BY <1>2, BoundsArePositive DEF NewClient, Types, RestOK, Sessions
  <2>2. tun' \in [Sessions -> TunState]
    BY <1>2 DEF NewClient, StopTun, Types, StopOK, RestOK, TunState
  <2>9. interrupted' \subseteq Sessions
    BY <1>2 DEF NewClient, Types, StopOK
  <2>3. armed' \in [Sessions -> SUBSET Timers]
    BY <1>2 DEF NewClient, CancelTimers, Types, StopOK, RestOK
  <2>4. <<>> \in Seq(1 .. MaxInfos) /\ <<>> \in Seq(Events) /\ <<>> \in Seq(Messages)
    BY EmptySeq
  <2>5. StopOK'
    BY <1>2, <2>2, <2>3, <2>9 DEF NewClient, Types, StopOK
  <2>6. RecvOK' /\ InboxOK'
    BY <1>2, <2>4 DEF NewClient, NewOptions, RecvOK, InboxOK
  <2>7. CredsOK'
    BY <1>2 DEF NewClient, credVars, Types, CredsOK
  <2>8. RestOK'
    BY <1>2, <2>1 DEF NewClient, Types, RestOK
  <2> QED BY <2>5, <2>6, <2>7, <2>8 DEF Types
<1> QED BY <1>1, <1>2

LEMMA NextTypes == Types /\ [Next]_vars => Types'
<1> SUFFICES ASSUME Types, [Next]_vars PROVE Types'
  OBVIOUS
<1> USE DEF Types
<1>1. CASE TransportConnecting
  BY <1>1 DEF TransportConnecting, recvFlags, timerVars, credVars, serverVars, StopOK, RecvOK, CredsOK, RestOK, InboxOK
<1>2. CASE Authenticate
  BY <1>2, ClientAuthTypes DEF Authenticate, serverVars, RecvOK, RestOK, InboxOK
<1>3. CASE Active
  <2>1. armed' \in [Sessions -> SUBSET Timers]
    BY <1>3 DEF Active, StopOK, Timers
  <2> QED BY <1>3, <2>1 DEF Active, credVars, serverVars, StopOK, RecvOK, CredsOK, RestOK, InboxOK
<1>4. CASE Fails \/ TunSendFails
  <2>1. PICK f \in Ends \cup {"undef", "unhandled"} : StopFor(f)
    BY <1>4 DEF Fails, TunSendFails, Ends
  <2>2. StopOK'
    BY <2>1, StopForTypes DEF RestOK
  <2>3. UNCHANGED stopKeeps
    BY <1>4 DEF Fails, TunSendFails
  <2> QED BY <2>2, <2>3 DEF stopKeeps, credVars, serverVars, RecvOK, CredsOK, RestOK, InboxOK
<1>11. CASE KeyContextFails
  <2>1. armed' \in [Sessions -> SUBSET Timers] /\ interrupted' \subseteq Sessions
    BY <1>11 DEF KeyContextFails, CancelTimers, StopOK, RestOK
  <2>2. StopOK'
    BY <1>11, <2>1 DEF KeyContextFails, ResetCallbacks, StopOK
  <2> QED BY <1>11, <2>2 DEF KeyContextFails, recvFlags, credVars, serverVars, RecvOK, CredsOK, RestOK, InboxOK
<1>12. CASE TransportFails
  BY <1>12 DEF TransportFails, stopKeeps, credVars, serverVars, StopOK, RecvOK, CredsOK, RestOK, InboxOK
<1>5. CASE TransportRecv \/ ControlRecv
  BY <1>5, TransportRecvTypes, ControlRecvTypes
<1>6. ASSUME NEW s \in Sessions, ResetInactiveTimer(s) PROVE Types'
  <2>1. armed' \in [Sessions -> SUBSET Timers]
    BY <1>6 DEF ResetInactiveTimer, StopOK, Timers
  <2>2. posted' \in [Sessions -> 0 .. MaxPosted]
    BY <1>6, BoundsArePositive DEF ResetInactiveTimer, RestOK
  <2> QED BY <1>6, <2>1, <2>2 DEF ResetInactiveTimer, objectVars, recvFlags, credVars, serverVars, StopOK, RecvOK, CredsOK, RestOK, InboxOK
<1>7. ASSUME NEW s \in Sessions, NEW t \in Timers, Handler(s, t) PROVE Types'
  BY <1>7, TimerTypes
<1>8. CASE TunBytes
  <2>1. posted' \in [Sessions -> 0 .. MaxPosted]
    BY <1>8, BoundsArePositive DEF TunBytes, RestOK
  <2> QED BY <1>8, <2>1 DEF TunBytes, objectVars, recvFlags, credVars, serverVars, StopOK, RecvOK, CredsOK, RestOK, InboxOK
<1>9. CASE ClientStops \/ NewClient
  BY <1>9, StopAndStartTypes
<1>10. CASE UNCHANGED vars
  BY <1>10 DEF vars, objectVars, recvFlags, timerVars, credVars, serverVars, StopOK, RecvOK, CredsOK, RestOK, InboxOK
<1> QED BY <1>1, <1>2, <1>3, <1>4, <1>5, <1>6, <1>7, <1>8, <1>9, <1>10, <1>11, <1>12 DEF Next

\* The variables keep their types.
THEOREM TypeCorrect == Spec => []TypeOK
<1>1. Spec => []Types
  BY InitTypes, NextTypes, PTL DEF Spec
<1> QED BY <1>1, TypesSuffice, PTL
-----------------------------------------------------------------------------
(* The messages still to be handled *)

\* After these the server says no more.
Ending(m) ==
    \/ m.kind \in {"auth_failed", "halt", "restart"}
    \/ ~RepliesGoOn /\ m.kind = "push_reply" /\ m.rejected

InboxEnds == \A i \in 1 .. Len(inbox) : Ending(inbox[i]) => i = Len(inbox) /\ server = "final"

LEMMA LastOfInbox ==
  ASSUME Types, InboxEnds, inbox # <<>>, Ending(Head(inbox))
  PROVE  Tail(inbox) = <<>>
<1>1. inbox \in Seq(Messages) /\ Len(inbox) \in Nat \ {0} /\ Head(inbox) = inbox[1]
  BY HeadTailProperties, EmptySeq, LenProperties DEF Types, InboxOK
<1>2. Len(inbox) = 1
  BY <1>1 DEF InboxEnds
<1>3. Tail(inbox) \in Seq(Messages) /\ Len(Tail(inbox)) = 0
  BY <1>1, <1>2, HeadTailProperties
<1> QED BY <1>3, EmptySeq

LEMMA TailOfInbox ==
  ASSUME Types, inbox # <<>>, inbox' = Tail(inbox)
  PROVE  /\ Len(inbox') = Len(inbox) - 1 /\ Len(inbox) \in Nat \ {0}
         /\ \A i \in 1 .. Len(inbox') : i + 1 \in 2 .. Len(inbox) /\ inbox'[i] = inbox[i + 1]
         /\ Head(inbox) = inbox[1]
<1>1. inbox \in Seq(Messages)
  BY DEF Types, InboxOK
<1>2. Len(inbox) \in Nat /\ Len(inbox) # 0 /\ Head(inbox) = inbox[1]
  BY <1>1, EmptySeq, HeadTailProperties, LenProperties
<1>3. /\ Len(inbox') = Len(inbox) - 1
      /\ \A i \in 1 .. Len(inbox') : inbox'[i] = inbox[i + 1]
  BY <1>1, HeadTailProperties
<1> QED BY <1>2, <1>3

LEMMA GrowsInbox ==
  ASSUME Types, NEW m \in Messages, Brings(m)
  PROVE  /\ Len(inbox') = Len(inbox) + 1 /\ Len(inbox) \in Nat
         /\ \A i \in 1 .. Len(inbox) : inbox'[i] = inbox[i]
         /\ inbox'[Len(inbox')] = m
<1>1. inbox \in Seq(Messages) /\ Len(inbox) \in Nat
  BY LenProperties DEF Types, InboxOK
<1> QED BY <1>1, AppendProperties DEF Brings

\* How a step may change the inbox.
LEMMA InboxMoves ==
  ASSUME Types, [Next]_vars
  PROVE  \/ inbox' = inbox /\ server' = server
         \/ inbox # <<>> /\ server' = server /\ inbox' = Tail(inbox)
         \/ inbox' = <<>>
         \/ TransportRecv
<1>1. CASE TransportConnecting \/ Authenticate \/ Active \/ TunBytes \/ ClientStops \/ NewClient
  BY <1>1 DEF TransportConnecting, Authenticate, Active, TunBytes, ClientStops, NewClient,
     stopKeeps, objectVars, serverVars
<1>6. CASE Fails \/ TunSendFails \/ KeyContextFails \/ TransportFails
  BY <1>6 DEF Fails, TunSendFails, KeyContextFails, TransportFails, stopKeeps, serverVars
<1>2. CASE ControlRecv
  <2>1. server' = server /\ inbox # <<>>
    BY <1>2 DEF ControlRecv, RecvPushReply, PushReplyCompletes, RecvPushUpdate, RecvAuthFailed,
       RecvHaltRestart, RecvAuthPending, RecvInfo, RecvInfoPre, Message, recvOther, serverVars
  <2>2. inbox' = Tail(inbox) \/ inbox' = <<>>
    <3>1. CASE PushReplyCompletes
      BY <3>1 DEF PushReplyCompletes, Connect
    <3>2. CASE RecvPushUpdate
      BY <3>2 DEF RecvPushUpdate
    <3>3. CASE ~PushReplyCompletes /\ ~RecvPushUpdate
      BY <1>2, <3>3 DEF ControlRecv, RecvPushReply, RecvAuthFailed,
         RecvHaltRestart, RecvAuthPending, RecvInfo, RecvInfoPre, Message
    <3> QED BY <3>1, <3>2, <3>3
  <2> QED BY <2>1, <2>2
<1>3. ASSUME NEW s \in Sessions, NEW t \in Timers, ResetInactiveTimer(s) \/ Handler(s, t)
      PROVE  inbox' = inbox /\ server' = server
  BY <1>3 DEF ResetInactiveTimer, Handler, HandlerIgnored, SendPushRequest, InfoHoldCallback,
     InactiveCallback, stopKeeps, callbackOther, objectVars, serverVars
<1>4. CASE UNCHANGED vars
  BY <1>4 DEF vars, objectVars, serverVars
<1>5. "inactive" \in Timers
  BY DEF Timers
<1> QED BY <1>1, <1>2, <1>3, <1>4, <1>5, <1>6 DEF Next

LEMMA SaysEnding ==
  ASSUME NEW m, SaysReply(m) \/ SaysUpdate(m) \/ SaysOther(m)
  PROVE  Ending(m) => server' = "final"
<1>1. CASE SaysReply(m)
  BY <1>1, OptionsAreBoolean DEF SaysReply, Reply, Replied, Ending
<1>2. CASE SaysUpdate(m)
  BY <1>2 DEF SaysUpdate, Update, Ending
<1>3. CASE SaysOther(m)
  BY <1>3 DEF SaysOther, Inform, Info, Ending
<1> QED BY <1>1, <1>2, <1>3

LEMMA NextEnds == ASSUME Types, InboxEnds, [Next]_vars PROVE InboxEnds'
<1>1. CASE inbox' = inbox /\ server' = server
  BY <1>1 DEF InboxEnds, Ending
<1>2. CASE inbox # <<>> /\ server' = server /\ inbox' = Tail(inbox)
  <2>1. /\ Len(inbox') = Len(inbox) - 1 /\ Len(inbox) \in Nat \ {0}
        /\ \A i \in 1 .. Len(inbox') : i + 1 \in 2 .. Len(inbox) /\ inbox'[i] = inbox[i + 1]
    BY <1>2, TailOfInbox
  <2> SUFFICES ASSUME NEW i \in 1 .. Len(inbox'), Ending(inbox'[i])
               PROVE  i = Len(inbox') /\ server' = "final"
    BY DEF InboxEnds, Ending
  <2>2. i + 1 \in 1 .. Len(inbox) /\ Ending(inbox[i + 1])
    BY <2>1
  <2>3. i + 1 = Len(inbox) /\ server = "final"
    BY <2>2 DEF InboxEnds
  <2>4. server' = server
    BY <1>2
  <2> QED BY <2>1, <2>3, <2>4
<1>3. CASE inbox' = <<>>
  BY <1>3 DEF InboxEnds
<1>4. CASE TransportRecv
  <2>1. PICK m : Brings(m) /\ (SaysReply(m) \/ SaysUpdate(m) \/ SaysOther(m))
    BY <1>4, ServerSays DEF TransportRecv
  <2>2. m \in Messages /\ (Ending(m) => server' = "final")
    BY <2>1, SaysEnding, SaysTypes
  <2>3. \A i \in 1 .. Len(inbox) : ~Ending(inbox[i])
    BY <1>4 DEF InboxEnds, TransportRecv
  <2> QED BY <2>1, <2>2, <2>3, GrowsInbox DEF InboxEnds, Ending
<1> QED BY <1>1, <1>2, <1>3, <1>4, InboxMoves
-----------------------------------------------------------------------------
(* Tokens *)

\* No token that has been rejected is still in use or on its way, and the
\* server makes new ones.
TokensFresh ==
    /\ rejected \subseteq 1 .. tokens
    /\ creds.token <= tokens /\ creds.token \notin rejected
    /\ sent.token <= tokens
    /\ \A i \in 1 .. Len(inbox) :
         inbox[i].kind = "push_reply" => inbox[i].token <= tokens /\ inbox[i].token \notin rejected

\* The part of it that a step that handles no message cannot disturb.
LEMMA TokensStay ==
  ASSUME Types, TokensFresh, UNCHANGED <<rejected, tokens>>,
         creds'.token = creds.token,
         sent'.token \in {sent.token, creds.token},
         inbox' = inbox \/ inbox' = <<>>
  PROVE  TokensFresh'
<1>1. CASE inbox' = inbox
  BY <1>1 DEF TokensFresh
<1>2. CASE inbox' = <<>>
  <2>1. Len(inbox') = 0
    BY <1>2
  <2> QED BY <2>1 DEF TokensFresh
<1> QED BY <1>1, <1>2

LEMMA PurgeTokens ==
  ASSUME NEW c \in Creds
  PROVE  /\ PurgeSessionId(c).token = NoToken
         /\ PurgeIfNocache(c).token = c.token /\ SaveUsername(c).token = c.token
         /\ PurgeIfNocache(SaveUsername(c)).token = c.token
  BY DEF PurgeSessionId, PurgeIfNocache, PurgeUserPass, SaveUsername, Creds

LEMMA ClientAuthTokens ==
  ASSUME Types, ClientAuth
  PROVE  creds'.token = creds.token /\ sent'.token \in {sent.token, creds.token} /\ rejected' = rejected
         /\ (sent' # sent => sent'.token = creds.token)
<1>1. CASE creds.token = NoToken /\ given.password /\ ~creds.password
  BY <1>1 DEF ClientAuth, credVars
<1>2. CASE ~(creds.token = NoToken /\ given.password /\ ~creds.password)
  <2>1. /\ sent' = [user |-> creds.tokenUser \/ creds.user, token |-> creds.token, any |-> TRUE]
        /\ creds' = PurgeIfNocache(SaveUsername(creds)) /\ rejected' = rejected
    BY <1>2 DEF ClientAuth
  <2>2. sent'.token = creds.token
    BY <2>1
  <2>3. creds'.token = creds.token
    BY <2>1, PurgeTokens DEF Types, CredsOK
  <2> QED BY <2>1, <2>2, <2>3
<1> QED BY <1>1, <1>2

\* What handling a message does to the tokens.
LEMMA HandledTokens ==
  ASSUME Types, ControlRecv
  PROVE  /\ \/ creds'.token \in {creds.token, NoToken}
            \/ Head(inbox).kind = "push_reply" /\ creds'.token = Head(inbox).token
         /\ sent' = sent /\ tokens' = tokens
         /\ \/ rejected' = rejected
            \/ /\ Head(inbox).kind = "auth_failed" /\ creds'.token = NoToken
               /\ rejected' = rejected \cup ({sent.token} \ {NoToken})
<1> DEFINE m == Head(inbox)
<1>1. creds \in Creds
  BY DEF Types, CredsOK
<1>2. ASSUME NEW t \in Tokens \cup {NoToken}
      PROVE  /\ ExtractAuthToken(creds, t).token \in {creds.token, t}
             /\ PurgeIfNocache(ExtractAuthToken(creds, t)).token \in {creds.token, t}
  <2>1. ExtractAuthToken(creds, t).token \in {creds.token, t}
    BY <1>1 DEF ExtractAuthToken, Creds
  <2> QED BY <1>1, <2>1, ExtractTypes, PurgeTokens
<1>3. inbox # <<>>
  BY DEF ControlRecv, RecvPushReply, PushReplyCompletes, RecvPushUpdate, RecvAuthFailed,
     RecvHaltRestart, RecvAuthPending, RecvInfo, RecvInfoPre, Message
<1>4. m.kind = "push_reply" => m.token \in Tokens \cup {NoToken}
  BY <1>3, HeadOfInbox DEF Types, Reply
<1>5. CASE RecvPushReply
  <2>1. creds' \in {ExtractAuthToken(creds, m.token), PurgeSessionId(creds), creds}
    BY <1>5 DEF RecvPushReply
  <2> QED BY <1>1, <1>2, <1>4, <1>5, <2>1, PurgeTokens DEF RecvPushReply, recvOther, serverVars, Message
<1>6. CASE PushReplyCompletes
  <2>1. creds' \in {ExtractAuthToken(creds, m.token), PurgeIfNocache(ExtractAuthToken(creds, m.token))}
    BY <1>6 DEF PushReplyCompletes, Connect
  <2> QED BY <1>2, <1>4, <1>6, <2>1 DEF PushReplyCompletes, recvOther, serverVars
<1>7. CASE RecvPushUpdate \/ RecvAuthPending \/ RecvInfo
  BY <1>7 DEF RecvPushUpdate, RecvAuthPending, RecvInfo, recvOther, credVars, serverVars
<1>8. CASE RecvAuthFailed
  BY <1>1, <1>8, PurgeTokens DEF RecvAuthFailed, recvOther, credVars, serverVars, Message
<1>9. CASE RecvHaltRestart
  <2>1. creds' \in {creds, PurgeSessionId(creds)}
    BY <1>9 DEF RecvHaltRestart
  <2> QED BY <1>1, <1>9, <2>1, PurgeTokens DEF RecvHaltRestart, recvOther, serverVars
<1>10. CASE RecvInfoPre
  <2>1. creds'.token = creds.token
    BY <1>1, <1>10 DEF RecvInfoPre, Creds
  <2> QED BY <1>10, <2>1 DEF RecvInfoPre, recvOther, serverVars
<1> QED BY <1>5, <1>6, <1>7, <1>8, <1>9, <1>10 DEF ControlRecv

LEMMA HandledInbox ==
  ASSUME Types, InboxEnds, ControlRecv
  PROVE  /\ inbox # <<>>
         /\ \/ inbox' = <<>>
            \/ inbox' = Tail(inbox) /\ ~Ending(Head(inbox))
<1>1. inbox # <<>> /\ inbox' \in {Tail(inbox), <<>>}
  <2>1. CASE PushReplyCompletes
    BY <2>1 DEF PushReplyCompletes, Connect
  <2>2. CASE RecvPushUpdate
    BY <2>2 DEF RecvPushUpdate
  <2>3. CASE ~PushReplyCompletes /\ ~RecvPushUpdate
    BY <2>3 DEF ControlRecv, RecvPushReply, RecvAuthFailed,
       RecvHaltRestart, RecvAuthPending, RecvInfo, RecvInfoPre, Message
  <2> QED BY <2>1, <2>2, <2>3
<1> QED BY <1>1, LastOfInbox

LEMMA HandledFresh ==
  ASSUME Types, InboxEnds, TokensFresh, ControlRecv
  PROVE  TokensFresh'
<1>1. inbox # <<>> /\ tokens \in Nat /\ NoToken = 0 /\ sent' = sent /\ tokens' = tokens
  BY HandledInbox, HandledTokens DEF Types, RestOK, NoToken
<1>2. Head(inbox).kind = "push_reply"
      => Head(inbox).token <= tokens /\ Head(inbox).token \notin rejected
  <2>1. Len(inbox) \in Nat \ {0} /\ Head(inbox) = inbox[1]
    BY <1>1, HeadTailProperties, EmptySeq, LenProperties DEF Types, InboxOK
  <2> QED BY <2>1 DEF TokensFresh
<1>3. creds'.token <= tokens /\ creds'.token \notin rejected
  BY <1>1, <1>2, HandledTokens DEF TokensFresh
<1>4. sent.token \in Nat
  BY DEF Types, CredsOK, Tokens, NoToken
<1>5. CASE rejected' = rejected
  <2>1. CASE inbox' = <<>>
    BY <1>1, <1>3, <1>5, <2>1 DEF TokensFresh
  <2>2. CASE inbox' = Tail(inbox)
    <3>1. /\ Len(inbox') = Len(inbox) - 1 /\ Len(inbox) \in Nat \ {0}
          /\ \A i \in 1 .. Len(inbox') : i + 1 \in 2 .. Len(inbox) /\ inbox'[i] = inbox[i + 1]
      BY <1>1, <2>2, TailOfInbox
    <3>2. ASSUME NEW i \in 1 .. Len(inbox'), inbox'[i].kind = "push_reply"
          PROVE  inbox'[i].token <= tokens /\ inbox'[i].token \notin rejected
      <4>1. i + 1 \in 1 .. Len(inbox) /\ inbox'[i] = inbox[i + 1]
        BY <3>1
      <4> QED BY <3>2, <4>1 DEF TokensFresh
    <3> QED BY <1>1, <1>3, <1>5, <3>2 DEF TokensFresh
  <2> QED BY <2>1, <2>2, HandledInbox
<1>6. CASE rejected' # rejected
  <2>1. Head(inbox).kind = "auth_failed" /\ creds'.token = NoToken
        /\ rejected' = rejected \cup ({sent.token} \ {NoToken})
    BY <1>6, HandledTokens
  <2>2. Len(inbox') = 0
    BY <2>1, HandledInbox DEF Ending
  <2>3. rejected' \subseteq 1 .. tokens'
    <3>1. sent.token # 0 => sent.token \in 1 .. tokens
      BY <1>1, <1>4 DEF TokensFresh
    <3> QED BY <1>1, <2>1, <3>1 DEF TokensFresh
  <2>4. creds'.token <= tokens' /\ creds'.token \notin rejected'
    BY <1>1, <2>1, <2>3
  <2>5. sent'.token <= tokens'
    BY <1>1 DEF TokensFresh
  <2> QED BY <2>2, <2>3, <2>4, <2>5 DEF TokensFresh
<1> QED BY <1>5, <1>6

LEMMA ReceivedFresh ==
  ASSUME Types, TokensFresh, TransportRecv
  PROVE  TokensFresh'
<1>1. PICK m : Brings(m) /\ (SaysReply(m) \/ SaysUpdate(m) \/ SaysOther(m))
  BY ServerSays DEF TransportRecv
<1>2. m \in Messages /\ UNCHANGED credVars /\ tokens \in Nat
  BY <1>1, SaysTypes DEF TransportRecv, Types, RestOK
<1>3. tokens' \in {tokens, tokens + 1}
  BY <1>1 DEF SaysReply, SaysUpdate, SaysOther, NewToken
<1>4. m.kind = "push_reply" => m.token <= tokens' /\ m.token \notin rejected
  <2>1. m.kind = "push_reply" => SaysReply(m)
    BY <1>1 DEF SaysUpdate, SaysOther, Update, AuthFailed, HaltRestart, Inform, Info
  <2> QED BY <1>2, <2>1 DEF SaysReply, NewToken, NoToken, TokensFresh
<1>5. /\ Len(inbox') = Len(inbox) + 1 /\ Len(inbox) \in Nat
      /\ \A i \in 1 .. Len(inbox) : inbox'[i] = inbox[i]
      /\ inbox'[Len(inbox')] = m
  BY <1>1, <1>2, GrowsInbox
<1>6. ASSUME NEW i \in 1 .. Len(inbox'), inbox'[i].kind = "push_reply"
      PROVE  inbox'[i].token <= tokens' /\ inbox'[i].token \notin rejected
  <2>1. CASE i = Len(inbox')
    BY <1>4, <1>5, <1>6, <2>1
  <2>2. CASE i # Len(inbox')
    <3>1. i \in 1 .. Len(inbox) /\ inbox'[i] = inbox[i]
      BY <1>5, <2>2
    <3>2. inbox[i] \in Messages
      BY <3>1 DEF Types, InboxOK
    <3>3. inbox[i].token \in Nat
      BY <1>6, <3>1, <3>2 DEF Messages, Reply, Update, AuthFailed, HaltRestart, Inform, Info, Tokens, NoToken
    <3> QED BY <1>2, <1>3, <1>6, <3>1, <3>3 DEF TokensFresh
  <2> QED BY <2>1, <2>2
<1>7. creds.token \in Nat /\ sent.token \in Nat
  BY DEF Types, CredsOK, Creds, Tokens, NoToken
<1> QED BY <1>2, <1>3, <1>6, <1>7 DEF TokensFresh, credVars

LEMMA NextFresh ==
  ASSUME Types, InboxEnds, TokensFresh, [Next]_vars
  PROVE  TokensFresh' /\ (sent'.token \in rejected => sent' = sent)
<1>1. CASE Authenticate
  <2>1. inbox' = inbox /\ tokens' = tokens
    BY <1>1 DEF Authenticate, serverVars
  <2>2. /\ creds'.token = creds.token /\ sent'.token \in {sent.token, creds.token} /\ rejected' = rejected
        /\ (sent' # sent => sent'.token = creds.token)
    BY <1>1, ClientAuthTokens DEF Authenticate
  <2> QED BY <2>1, <2>2, TokensStay DEF TokensFresh
<1>2. CASE \/ TransportConnecting \/ Active \/ TunBytes \/ ClientStops \/ NewClient \/ UNCHANGED vars
           \/ Fails \/ TunSendFails \/ KeyContextFails \/ TransportFails
  <2>1. UNCHANGED <<credVars, tokens>> /\ (inbox' = inbox \/ inbox' = <<>>)
    BY <1>2 DEF TransportConnecting, Active, TunBytes, ClientStops, NewClient, vars,
       Fails, TunSendFails, KeyContextFails, TransportFails, stopKeeps, objectVars, serverVars
  <2> QED BY <2>1, TokensStay DEF credVars
<1>3. ASSUME NEW s \in Sessions, NEW t \in Timers, ResetInactiveTimer(s) \/ Handler(s, t)
      PROVE  TokensFresh' /\ sent' = sent
  <2>1. UNCHANGED <<credVars, tokens>> /\ inbox' = inbox
    BY <1>3 DEF ResetInactiveTimer, Handler, HandlerIgnored, SendPushRequest, InfoHoldCallback,
       InactiveCallback, stopKeeps, callbackOther, objectVars, serverVars
  <2> QED BY <2>1, TokensStay DEF credVars
<1>4. CASE ControlRecv
  BY <1>4, HandledFresh, HandledTokens
<1>5. CASE TransportRecv
  BY <1>5, ReceivedFresh DEF TransportRecv, credVars
<1>6. "inactive" \in Timers
  BY DEF Timers
<1> QED BY <1>1, <1>2, <1>3, <1>4, <1>5, <1>6 DEF Next

LEMMA InitFresh == Init => InboxEnds /\ TokensFresh
<1> SUFFICES ASSUME Init PROVE InboxEnds /\ TokensFresh
  OBVIOUS
<1>1. Len(inbox) = 0
  BY DEF Init
<1> QED BY <1>1 DEF Init, InboxEnds, TokensFresh, NoToken, NothingSent

\* Once authentication has failed with a token it is not sent again, whatever
\* the server goes on to push and however many sessions follow.
THEOREM RejectedTokensCorrect == Spec => RejectedTokenIsGone
<1>1. Init => Types /\ InboxEnds /\ TokensFresh
  BY InitTypes, InitFresh
<1>2. Types /\ InboxEnds /\ TokensFresh /\ [Next]_vars => Types' /\ InboxEnds' /\ TokensFresh'
  BY NextTypes, NextEnds, NextFresh
<1>3. Types /\ InboxEnds /\ TokensFresh /\ [Next]_vars => [sent'.token \in rejected => UNCHANGED sent]_vars
  BY NextFresh
<1> QED BY <1>1, <1>2, <1>3, PTL DEF Spec, RejectedTokenIsGone
-----------------------------------------------------------------------------
(* The password *)

\* What stop() does: a session that had not ended is down, or stop() was interrupted.
StopDone ==
    /\ halt' = TRUE
    /\ \A s \in Sessions : s # session => tun'[s] = tun[s]
    /\ interrupted \subseteq interrupted' /\ interrupted' \subseteq interrupted \cup {session}
    /\ halt => interrupted' = interrupted
    /\ transport' \in {transport, "stopped"}
    /\ (~halt /\ session \notin interrupted') => transport' = "stopped" /\ tun'[session] # "up"

LEMMA StopEnds ==
  ASSUME StopOK, session \in Sessions, NEW f, NEW t \in TunState, StopWith(f, t)
  PROVE  StopDone /\ fatal' = IF f = "undef" THEN fatal ELSE f
<1>1. fatal' = IF f = "undef" THEN fatal ELSE f
  BY DEF StopWith
<1>2. \/ tun' = [tun EXCEPT ![session] = t]
      \/ tun' = [tun EXCEPT ![session] = StopTun(t)]
  BY DEF StopWith
<1>3. \A s \in Sessions : s # session => tun'[s] = tun[s]
  BY <1>2 DEF StopOK
<1>4. StopTun(t) # "up"
  BY DEF StopTun
<1>5. /\ interrupted \subseteq interrupted' /\ interrupted' \subseteq interrupted \cup {session}
      /\ halt' = TRUE
      /\ halt => interrupted' = interrupted
      /\ transport' \in {transport, "stopped"}
  BY DEF StopWith, StopOK
<1>6. ASSUME ~halt, session \notin interrupted'
      PROVE  transport' = "stopped" /\ tun'[session] # "up"
  BY <1>4, <1>6 DEF StopWith, StopOK
<1> QED BY <1>1, <1>3, <1>5, <1>6 DEF StopDone

LEMMA StopForEnds ==
  ASSUME Types, NEW f, StopFor(f)
  PROVE  StopDone /\ halt' = TRUE /\ fatal' = IF f = "undef" THEN fatal ELSE f
<1>1. StopOK /\ session \in Sessions /\ tun[session] \in TunState
  BY DEF Types, StopOK, RestOK
<1> QED BY <1>1, StopEnds DEF StopFor, StopDone

\* To go on without the token is to have what the next session asks for, and
\* nothing happens in between: the server says no more.  Once the password is
\* missing it is not there again.
PasswordReady ==
    /\ fellBack => /\ creds.token = NoToken /\ (~given.password \/ creds.password)
                   /\ inbox = <<>>
                   /\ (halt /\ server = "final") \/ key \in {"none", "started"}
    /\ fatal = "need_creds" => ~fellBack /\ halt /\ given.password /\ ~creds.password

\* No purge brings the password back.
LEMMA PurgePassword ==
  ASSUME NEW c \in Creds
  PROVE  /\ PurgeSessionId(c).password = c.password
         /\ PurgeIfNocache(c).password => c.password
         /\ PurgeIfNocache(SaveUsername(c)).password => c.password
         /\ \A t : ExtractAuthToken(c, t).password = c.password
         /\ \A t \in Tokens \cup {NoToken} : PurgeIfNocache(ExtractAuthToken(c, t)).password => c.password
<1>1. SaveUsername(c).password = c.password
  BY DEF SaveUsername, Creds
<1>2. \A t : ExtractAuthToken(c, t).password = c.password
  BY DEF ExtractAuthToken, Creds
<1>3. \A d \in Creds : PurgeIfNocache(d).password => d.password
  BY DEF PurgeIfNocache, PurgeUserPass, Creds
<1>4. SaveUsername(c) \in Creds
  BY DEF SaveUsername, Creds
<1>5. PurgeSessionId(c).password = c.password
  BY DEF PurgeSessionId, Creds
<1>6. \A t \in Tokens \cup {NoToken} : ExtractAuthToken(c, t) \in Creds
  BY ExtractTypes
<1> QED BY <1>1, <1>2, <1>3, <1>4, <1>5, <1>6

LEMMA HandledPassword ==
  ASSUME Types, ControlRecv, creds'.password
  PROVE  creds.password
<1>1. creds \in Creds /\ inbox # <<>>
  BY DEF Types, CredsOK, ControlRecv, RecvPushReply, PushReplyCompletes, RecvPushUpdate, RecvAuthFailed,
     RecvHaltRestart, RecvAuthPending, RecvInfo, RecvInfoPre, Message
<1>2. CASE RecvPushReply
  <2>1. creds' \in {ExtractAuthToken(creds, Head(inbox).token), PurgeSessionId(creds), creds}
    BY <1>2 DEF RecvPushReply
  <2> QED BY <1>1, <2>1, PurgePassword
<1>3. CASE PushReplyCompletes
  <2>1. Head(inbox).token \in Tokens \cup {NoToken}
    BY <1>1, <1>3, HeadOfInbox DEF PushReplyCompletes, Types, Reply
  <2>2. creds' \in {ExtractAuthToken(creds, Head(inbox).token),
                    PurgeIfNocache(ExtractAuthToken(creds, Head(inbox).token))}
    BY <1>3 DEF PushReplyCompletes, Connect
  <2> QED BY <1>1, <2>1, <2>2, PurgePassword
<1>4. CASE RecvAuthFailed \/ RecvHaltRestart
  <2>1. creds' \in {creds, PurgeSessionId(creds)}
    BY <1>4 DEF RecvAuthFailed, RecvHaltRestart, credVars
  <2> QED BY <1>1, <2>1, PurgePassword
<1>5. CASE RecvPushUpdate \/ RecvAuthPending \/ RecvInfo
  BY <1>5 DEF RecvPushUpdate, RecvAuthPending, RecvInfo, credVars
<1>6. CASE RecvInfoPre
  BY <1>1, <1>6 DEF RecvInfoPre, Creds
<1> QED BY <1>2, <1>3, <1>4, <1>5, <1>6 DEF ControlRecv

LEMMA ClientAuthReady ==
  ASSUME Types, PasswordReady, Authenticate
  PROVE  PasswordReady'
<1>1. CASE creds.token = NoToken /\ given.password /\ ~creds.password
  <2>1. StopFor("need_creds") /\ UNCHANGED <<key, credVars, given, inbox>>
    BY <1>1 DEF ClientAuth, Authenticate
  <2>2. halt' = TRUE /\ ~fellBack
    BY <1>1, <2>1, StopForEnds DEF PasswordReady
  <2> QED BY <1>1, <2>1, <2>2 DEF PasswordReady, credVars
<1>2. CASE ~(creds.token = NoToken /\ given.password /\ ~creds.password)
  <2>1. /\ fellBack' = FALSE /\ fatal' = fatal /\ halt' = halt /\ given' = given
        /\ creds' = PurgeIfNocache(SaveUsername(creds))
    BY <1>2 DEF ClientAuth, Authenticate
  <2>2. creds'.password => creds.password
    BY <2>1, PurgePassword DEF Types, CredsOK
  <2> QED BY <2>1, <2>2 DEF PasswordReady
<1> QED BY <1>1, <1>2

LEMMA HandledReady ==
  ASSUME Types, InboxEnds, PasswordReady, ControlRecv
  PROVE  PasswordReady'
<1>1. inbox # <<>>
  BY HandledInbox
<1>2. ~fellBack
  BY <1>1 DEF PasswordReady
<1>3. fatal' = "need_creds" => fatal = "need_creds"
  <2>1. CASE PushReplyCompletes
    <3>1. CASE fatal' = fatal
      BY <3>1
    <3>2. CASE fatal' # fatal
      BY <2>1, <3>2 DEF PushReplyCompletes, Connect, StopWith, Reason
    <3> QED BY <3>1, <3>2
  <2>2. CASE RecvAuthFailed
    <3>1. PICK f \in {"undef", "auth_failed", "session_expired"} : StopFor(f)
      BY <2>2 DEF RecvAuthFailed
    <3>2. fatal' = IF f = "undef" THEN fatal ELSE f
      BY <3>1, StopForEnds
    <3> QED BY <3>2
  <2>3. CASE RecvHaltRestart
    <3>1. PICK f \in {"undef", "other"} : StopFor(f)
      BY <2>3 DEF RecvHaltRestart
    <3>2. fatal' = IF f = "undef" THEN fatal ELSE f
      BY <3>1, StopForEnds
    <3> QED BY <3>2
  <2>4. CASE RecvPushReply \/ RecvPushUpdate \/ RecvAuthPending \/ RecvInfo \/ RecvInfoPre
    <3>1. fatal' = fatal \/ StopFor("undef")
      BY <2>4 DEF RecvPushReply, RecvPushUpdate, RecvAuthPending, RecvInfo, RecvInfoPre, stopOther
    <3>2. StopFor("undef") => fatal' = fatal
      BY StopForEnds
    <3> QED BY <3>1, <3>2
  <2> QED BY <2>1, <2>2, <2>3, <2>4 DEF ControlRecv
<1>4. ASSUME fellBack' = TRUE
      PROVE  /\ creds'.token = NoToken /\ (~given.password \/ creds'.password)
             /\ inbox' = <<>> /\ halt' /\ server' = "final"
             /\ ~given.password \/ creds.password
  <2>1. RecvAuthFailed
    BY <1>2, <1>4 DEF ControlRecv, RecvPushReply, PushReplyCompletes, RecvPushUpdate, RecvHaltRestart,
       RecvAuthPending, RecvInfo, RecvInfoPre, credVars
  <2>2. Reconnects /\ creds' = PurgeSessionId(creds) /\ \E f : StopFor(f)
    BY <1>2, <1>4, <2>1 DEF RecvAuthFailed, credVars
  <2>3. Ending(Head(inbox))
    BY <2>1 DEF RecvAuthFailed, Message, Ending
  <2>4. inbox' = <<>>
    BY <2>3, HandledInbox
  <2>5. server' = "final"
    <3>1. inbox[1] = Head(inbox) /\ Len(inbox) \in Nat \ {0}
      BY <1>1, HeadTailProperties, EmptySeq, LenProperties DEF Types, InboxOK
    <3>2. server = "final"
      BY <2>3, <3>1 DEF InboxEnds
    <3> QED BY <2>1, <3>2 DEF RecvAuthFailed, recvOther, serverVars
  <2>6. halt' = TRUE
    BY <2>2, StopForEnds
  <2>7. creds'.token = NoToken /\ creds'.password = creds.password
    BY <2>2 DEF PurgeSessionId, Types, CredsOK, Creds
  <2> QED BY <2>2, <2>4, <2>5, <2>6, <2>7 DEF Reconnects
<1>5. given' = given
  BY DEF ControlRecv, RecvPushReply, PushReplyCompletes, RecvPushUpdate, RecvAuthFailed,
     RecvHaltRestart, RecvAuthPending, RecvInfo, RecvInfoPre, recvOther
<1>6. fellBack' \in BOOLEAN
  BY NextTypes DEF Next, Types, CredsOK
<1>7. halt => halt'
  <2> SUFFICES ASSUME halt = TRUE PROVE halt' = TRUE
    BY DEF Types, StopOK
  <2>1. halt' = halt \/ halt' = TRUE
    BY DEF ControlRecv, RecvPushReply, PushReplyCompletes, RecvPushUpdate, RecvAuthFailed,
       RecvHaltRestart, RecvAuthPending, RecvInfo, RecvInfoPre, stopOther, Connect, StopFor, StopWith
  <2> QED BY <2>1
<1>8. fatal' = "need_creds" => ~fellBack' /\ halt' /\ given.password /\ ~creds'.password
  BY <1>3, <1>4, <1>6, <1>7, HandledPassword DEF PasswordReady
<1> QED BY <1>4, <1>5, <1>6, <1>8 DEF PasswordReady

LEMMA NextReady ==
  ASSUME Types, InboxEnds, PasswordReady, [Next]_vars
  PROVE  PasswordReady'
<1>1. CASE Authenticate
  BY <1>1, ClientAuthReady
<1>2. CASE ControlRecv
  BY <1>2, HandledReady
<1>3. CASE TransportConnecting
  BY <1>3 DEF TransportConnecting, Alive, Idle, credVars, PasswordReady
<1>4. CASE Active
  BY <1>4 DEF Active, credVars, serverVars, PasswordReady
<1>5. CASE Fails \/ TunSendFails
  <2>1. halt' = TRUE /\ fatal' \in {fatal, "other", "unhandled"} /\ UNCHANGED stopKeeps
    BY <1>5, StopForEnds DEF Fails, TunSendFails
  <2> QED BY <2>1 DEF stopKeeps, credVars, serverVars, PasswordReady
<1>13. CASE KeyContextFails \/ TransportFails
  BY <1>13 DEF KeyContextFails, TransportFails, stopKeeps, credVars, serverVars, PasswordReady
<1>6. CASE TransportRecv
  BY <1>6 DEF TransportRecv, credVars, PasswordReady
<1>7. ASSUME NEW s \in Sessions, ResetInactiveTimer(s)
      PROVE  PasswordReady'
  BY <1>7 DEF ResetInactiveTimer, objectVars, credVars, serverVars, PasswordReady
<1>8. ASSUME NEW s \in Sessions, NEW t \in Timers, Handler(s, t)
      PROVE  PasswordReady'
  <2>1. CASE InactiveCallback
    <3>1. halt' = TRUE /\ fatal' = "other"
      BY <2>1, StopForEnds DEF InactiveCallback
    <3> QED BY <2>1, <3>1 DEF InactiveCallback, stopKeeps, credVars, serverVars, PasswordReady
  <2>2. CASE ~InactiveCallback
    BY <1>8, <2>2 DEF Handler, HandlerIgnored, SendPushRequest, InfoHoldCallback,
       callbackOther, credVars, serverVars, PasswordReady
  <2> QED BY <2>1, <2>2
<1>9. CASE TunBytes
  BY <1>9 DEF TunBytes, objectVars, credVars, serverVars, PasswordReady
<1>10. CASE ClientStops
  BY <1>10 DEF ClientStops, stopKeeps, credVars, serverVars, PasswordReady
<1>11. CASE NewClient
  BY <1>11 DEF NewClient, credVars, PasswordReady
<1>12. CASE UNCHANGED vars
  BY <1>12 DEF vars, objectVars, credVars, serverVars, PasswordReady
<1> QED BY <1>1, <1>2, <1>3, <1>4, <1>5, <1>6, <1>7, <1>8, <1>9, <1>10, <1>11, <1>12, <1>13 DEF Next

\* A session that ends to go on with the password is followed by one that has it.
THEOREM FallsBackCorrect == Spec => []FallsBack
<1>1. Init => Types /\ InboxEnds /\ PasswordReady
  BY InitTypes, InitFresh DEF Init, PasswordReady
<1>2. Types /\ InboxEnds /\ PasswordReady /\ [Next]_vars => Types' /\ InboxEnds' /\ PasswordReady'
  BY NextTypes, NextEnds, NextReady
<1>3. PasswordReady => FallsBack
  BY DEF PasswordReady, FallsBack
<1> QED BY <1>1, <1>2, <1>3, PTL DEF Spec
-----------------------------------------------------------------------------
(* The name *)

\* Whether a user is held to send a name.
Named == given.password \/ ~given.nocache

\* The name is remembered with the token, or it is still there.
NameReady ==
    Named =>
    /\ sent.any => sent.user
    /\ ~given.nocache => creds.user
    /\ creds.password => creds.user
    /\ creds.token # NoToken => creds.user \/ creds.tokenUser
    /\ (inbox # <<>> \/ (key \in {"sent", "active"} /\ transport = "up" /\ server # "final")) => creds.tokenUser

LEMMA CredFields ==
  ASSUME NEW c \in Creds, given \in Given
  PROVE  /\ c.user \in BOOLEAN /\ c.password \in BOOLEAN /\ c.tokenUser \in BOOLEAN
         /\ PurgeSessionId(c).user = c.user /\ PurgeSessionId(c).password = c.password
         /\ PurgeSessionId(c).token = NoToken
         /\ PurgeIfNocache(c).tokenUser = c.tokenUser
         /\ PurgeIfNocache(c).token = c.token
         /\ ~given.nocache => PurgeIfNocache(c) = c
         /\ given.nocache => ~PurgeIfNocache(c).password
         /\ SaveUsername(c).user = c.user /\ SaveUsername(c).tokenUser = (c.tokenUser \/ c.user)
<1>1. c.user \in BOOLEAN /\ c.password \in BOOLEAN /\ c.tokenUser \in BOOLEAN
  BY DEF Creds
<1>2. /\ PurgeSessionId(c).user = c.user /\ PurgeSessionId(c).password = c.password
      /\ PurgeSessionId(c).token = NoToken
  BY DEF PurgeSessionId, Creds
<1>3. /\ PurgeIfNocache(c).tokenUser = c.tokenUser
      /\ PurgeIfNocache(c).token = c.token
  BY DEF PurgeIfNocache, PurgeUserPass, Creds
<1>4. /\ ~given.nocache => PurgeIfNocache(c) = c
      /\ given.nocache => ~PurgeIfNocache(c).password
  BY DEF PurgeIfNocache, PurgeUserPass, Creds
<1>5. SaveUsername(c).user = c.user /\ SaveUsername(c).tokenUser = (c.tokenUser \/ c.user)
  BY DEF SaveUsername, Creds
<1> QED BY <1>1, <1>2, <1>3, <1>4, <1>5

LEMMA ClientAuthName ==
  ASSUME Types, NameReady, Authenticate
  PROVE  NameReady'
<1> SUFFICES ASSUME Named
             PROVE  /\ sent'.any => sent'.user
                    /\ ~given.nocache => creds'.user
                    /\ creds'.password => creds'.user
                    /\ creds'.token # NoToken => creds'.user \/ creds'.tokenUser
                    /\ (inbox' # <<>> \/ (key' \in {"sent", "active"} /\ transport' = "up" /\ server' # "final"))
                       => creds'.tokenUser
  BY DEF Authenticate, Named, NameReady
<1>1. creds \in Creds /\ given \in Given /\ inbox' = inbox /\ inbox = <<>> /\ server' = server
      /\ given.password \in BOOLEAN /\ given.nocache \in BOOLEAN
  BY GivenIsCredentials DEF Types, CredsOK, RestOK, Authenticate, Reads, Idle, serverVars
<1>2. CASE creds.token = NoToken /\ given.password /\ ~creds.password
  <2>1. StopFor("need_creds") /\ UNCHANGED <<key, credVars>>
    BY <1>2 DEF ClientAuth, Authenticate
  <2>2. transport' \in {transport, "stopped"}
    BY <2>1, StopForEnds DEF StopDone
  <2> QED BY <1>1, <2>1, <2>2 DEF NameReady, credVars
<1>3. CASE ~(creds.token = NoToken /\ given.password /\ ~creds.password)
  <2>1. /\ sent' = [user |-> creds.tokenUser \/ creds.user, token |-> creds.token, any |-> TRUE]
        /\ creds' = PurgeIfNocache(SaveUsername(creds))
    BY <1>3 DEF ClientAuth, Authenticate
  <2>2. creds.user \/ creds.tokenUser
    BY <1>1, <1>3, CredFields DEF NameReady, Named
  <2>3. SaveUsername(creds) \in Creds /\ SaveUsername(creds).tokenUser
    BY <1>1, <2>2, CredFields, PurgeTypes
  <2>4. creds'.tokenUser
    BY <1>1, <2>1, <2>3, CredFields
  <2>5. ~given.nocache => creds'.user
    BY <1>1, <2>1, <2>3, CredFields DEF NameReady
  <2>6. creds'.password => creds'.user
    BY <1>1, <2>1, <2>3, <2>5, CredFields
  <2>7. sent'.user
    BY <2>1, <2>2
  <2> QED BY <2>4, <2>5, <2>6, <2>7
<1> QED BY <1>2, <1>3

\* What handling a message does to the name, when the server falls silent
\* after an option that is rejected.
LEMMA HandledName ==
  ASSUME ~RepliesGoOn, Types, InboxEnds, NameReady, ControlRecv
  PROVE  NameReady'
<1> SUFFICES ASSUME Named
             PROVE  /\ sent'.any => sent'.user
                    /\ ~given.nocache => creds'.user
                    /\ creds'.password => creds'.user
                    /\ creds'.token # NoToken => creds'.user \/ creds'.tokenUser
                    /\ (inbox' # <<>> \/ (key' \in {"sent", "active"} /\ transport' = "up" /\ server' # "final"))
                       => creds'.tokenUser
  <2>1. given' = given
    BY DEF ControlRecv, RecvPushReply, PushReplyCompletes, RecvPushUpdate, RecvAuthFailed,
       RecvHaltRestart, RecvAuthPending, RecvInfo, RecvInfoPre, recvOther
  <2> QED BY <2>1 DEF Named, NameReady
<1>1. inbox # <<>> /\ sent' = sent /\ creds \in Creds /\ given \in Given
      /\ given.nocache \in BOOLEAN
  BY HandledInbox, HandledTokens, GivenIsCredentials DEF Types, CredsOK, RestOK
<1>2. creds.tokenUser /\ (~given.nocache => creds.user) /\ (sent.any => sent.user)
      /\ (creds.password => creds.user)
  BY <1>1 DEF NameReady
<1>3. CASE creds' = PurgeSessionId(creds) /\ inbox' = <<>> /\ server' = "final"
  <2>1. creds'.user = creds.user /\ creds'.password = creds.password /\ creds'.token = NoToken
    BY <1>1, <1>3, CredFields
  <2> QED BY <1>1, <1>2, <1>3, <2>1
<1>12. Ending(Head(inbox)) => inbox' = <<>> /\ server' = "final"
  <2>1. inbox[1] = Head(inbox) /\ Len(inbox) \in Nat \ {0}
    BY <1>1, HeadTailProperties, EmptySeq, LenProperties DEF Types, InboxOK
  <2>2. server' = server
    BY DEF ControlRecv, RecvPushReply, PushReplyCompletes, RecvPushUpdate, RecvAuthFailed,
       RecvHaltRestart, RecvAuthPending, RecvInfo, RecvInfoPre, recvOther, serverVars
  <2> QED BY <2>1, <2>2, HandledInbox DEF InboxEnds
<1>4. CASE creds'.tokenUser /\ (~given.nocache => creds'.user) /\ (creds'.password => creds'.user)
  BY <1>1, <1>2, <1>4
<1>5. ASSUME NEW t \in Tokens \cup {NoToken}
      PROVE  /\ ExtractAuthToken(creds, t) \in Creds
             /\ ExtractAuthToken(creds, t).tokenUser
             /\ ~given.nocache => ExtractAuthToken(creds, t).user
             /\ ExtractAuthToken(creds, t).password => ExtractAuthToken(creds, t).user
             /\ PurgeIfNocache(ExtractAuthToken(creds, t)).tokenUser
             /\ ~given.nocache => PurgeIfNocache(ExtractAuthToken(creds, t)).user
             /\ PurgeIfNocache(ExtractAuthToken(creds, t)).password
                => PurgeIfNocache(ExtractAuthToken(creds, t)).user
  <2>1. ExtractAuthToken(creds, t).tokenUser = creds.tokenUser
        /\ ExtractAuthToken(creds, t).user = creds.user
        /\ ExtractAuthToken(creds, t).password = creds.password
    BY <1>1 DEF ExtractAuthToken, Creds
  <2> QED BY <1>1, <1>2, <2>1, ExtractTypes, CredFields
<1>6. CASE RecvPushReply
  <2>1. Head(inbox).token \in Tokens \cup {NoToken}
    BY <1>1, <1>6, HeadOfInbox DEF RecvPushReply, Message, Types, Reply
  <2>2. CASE creds' \in {ExtractAuthToken(creds, Head(inbox).token), creds}
    BY <1>2, <1>4, <1>5, <2>1, <2>2
  <2>3. CASE creds' = PurgeSessionId(creds) /\ Head(inbox).rejected /\ StopFor("undef")
    <3>1. Ending(Head(inbox))
      BY <1>6, <2>3 DEF RecvPushReply, Message, Ending
    <3> QED BY <1>3, <1>12, <2>3, <3>1
  <2> QED BY <1>6, <2>2, <2>3 DEF RecvPushReply
<1>7. CASE PushReplyCompletes
  <2>1. Head(inbox).token \in Tokens \cup {NoToken}
    BY <1>1, <1>7, HeadOfInbox DEF PushReplyCompletes, Types, Reply
  <2>2. creds' \in {ExtractAuthToken(creds, Head(inbox).token),
                    PurgeIfNocache(ExtractAuthToken(creds, Head(inbox).token))}
    BY <1>7 DEF PushReplyCompletes, Connect
  <2> QED BY <1>4, <1>5, <2>1, <2>2
<1>8. CASE RecvPushUpdate \/ RecvAuthPending \/ RecvInfo
  BY <1>2, <1>4, <1>8 DEF RecvPushUpdate, RecvAuthPending, RecvInfo, credVars
<1>9. CASE RecvAuthFailed
  <2>1. creds' \in {creds, PurgeSessionId(creds)}
    BY <1>9 DEF RecvAuthFailed, credVars
  <2>2. Ending(Head(inbox))
    BY <1>9 DEF RecvAuthFailed, Message, Ending
  <2> QED BY <1>2, <1>3, <1>4, <1>12, <2>1, <2>2
<1>10. CASE RecvHaltRestart
  <2>1. creds' \in {creds, PurgeSessionId(creds)}
    BY <1>10 DEF RecvHaltRestart
  <2>2. Ending(Head(inbox))
    BY <1>10 DEF RecvHaltRestart, Message, Ending
  <2> QED BY <1>2, <1>3, <1>4, <1>12, <2>1, <2>2
<1>11. CASE RecvInfoPre
  <2>1. creds'.tokenUser = creds.tokenUser /\ creds'.user = creds.user /\ creds'.password = creds.password
    BY <1>1, <1>11 DEF RecvInfoPre, Creds
  <2> QED BY <1>2, <1>4, <2>1
<1> QED BY <1>6, <1>7, <1>8, <1>9, <1>10, <1>11 DEF ControlRecv

LEMMA NextName ==
  ASSUME ~RepliesGoOn, Types, InboxEnds, NameReady, [Next]_vars
  PROVE  NameReady'
<1>1. CASE Authenticate
  BY <1>1, ClientAuthName
<1>2. CASE ControlRecv
  BY <1>2, HandledName
<1>3. CASE TransportConnecting
  BY <1>3 DEF TransportConnecting, Alive, Idle, credVars, Named, NameReady
<1>4. CASE Active
  BY <1>4 DEF Active, credVars, serverVars, Named, NameReady
<1>5. CASE Fails \/ TunSendFails
  <2>1. transport' \in {transport, "stopped"} /\ UNCHANGED stopKeeps
    BY <1>5, StopForEnds DEF Fails, TunSendFails, StopDone
  <2> QED BY <2>1 DEF stopKeeps, credVars, serverVars, Named, NameReady
<1>13. CASE KeyContextFails \/ TransportFails
  BY <1>13 DEF KeyContextFails, TransportFails, stopKeeps, credVars, serverVars, Named, NameReady
<1>6. CASE TransportRecv
  BY <1>6 DEF TransportRecv, credVars, Named, NameReady
<1>7. ASSUME NEW s \in Sessions, ResetInactiveTimer(s)
      PROVE  NameReady'
  BY <1>7 DEF ResetInactiveTimer, objectVars, credVars, serverVars, Named, NameReady
<1>8. ASSUME NEW s \in Sessions, NEW t \in Timers, Handler(s, t)
      PROVE  NameReady'
  <2>1. CASE InactiveCallback
    <3>1. transport' \in {transport, "stopped"} /\ UNCHANGED stopKeeps
      BY <2>1, StopForEnds DEF InactiveCallback, StopDone
    <3> QED BY <3>1 DEF stopKeeps, credVars, serverVars, Named, NameReady
  <2>2. CASE ~InactiveCallback
    BY <1>8, <2>2 DEF Handler, HandlerIgnored, SendPushRequest, InfoHoldCallback,
       callbackOther, credVars, serverVars, Named, NameReady
  <2> QED BY <2>1, <2>2
<1>9. CASE TunBytes
  BY <1>9 DEF TunBytes, objectVars, credVars, serverVars, Named, NameReady
<1>10. CASE ClientStops
  BY <1>10 DEF ClientStops, stopKeeps, credVars, serverVars, Named, NameReady
<1>11. CASE NewClient
  BY <1>11 DEF NewClient, credVars, Named, NameReady
<1>12. CASE UNCHANGED vars
  BY <1>12 DEF vars, objectVars, credVars, serverVars, Named, NameReady
<1> QED BY <1>1, <1>2, <1>3, <1>4, <1>5, <1>6, <1>7, <1>8, <1>9, <1>10, <1>11, <1>12, <1>13 DEF Next

\* If the server says no more once it has pushed an option that is rejected, the
\* credentials last.
THEOREM CredentialsCorrect ==
  ASSUME ~RepliesGoOn
  PROVE  Spec => []CredentialsLast
<1>1. Init => Types /\ InboxEnds /\ NameReady
  BY InitTypes, InitFresh DEF Init, NameReady, Named, NothingSent
<1>2. Types /\ InboxEnds /\ NameReady /\ [Next]_vars => Types' /\ InboxEnds' /\ NameReady'
  BY NextTypes, NextEnds, NextName
<1>3. NameReady => NameIsSent
  BY DEF NameReady, Named, NameIsSent
<1>4. Spec => []NameIsSent
  BY <1>1, <1>2, <1>3, PTL DEF Spec
<1> QED BY <1>4, FallsBackCorrect, PTL DEF CredentialsLast

-----------------------------------------------------------------------------
(* Asking for options *)

LEMMA NextAsks ==
  ASSUME Types, AsksUntilAnswered, [Next]_vars
  PROVE  AsksUntilAnswered'
<1>1. armed \in [Sessions -> SUBSET Timers] /\ session \in Sessions
  BY DEF Types, StopOK, RestOK
<1>2. CASE TransportConnecting \/ NewClient
  BY <1>2 DEF TransportConnecting, NewClient, AsksUntilAnswered
<1>3. CASE Authenticate
  <2>1. CASE creds.token = NoToken /\ given.password /\ ~creds.password
    BY <1>3, <2>1, StopForEnds DEF Authenticate, ClientAuth, AsksUntilAnswered
  <2>2. CASE ~(creds.token = NoToken /\ given.password /\ ~creds.password)
    BY <1>3, <2>2 DEF Authenticate, ClientAuth, AsksUntilAnswered
  <2> QED BY <2>1, <2>2
<1>4. CASE Active
  BY <1>1, <1>4 DEF Active, AsksUntilAnswered
<1>5. CASE Fails \/ TunSendFails
  BY <1>5, StopForEnds DEF Fails, TunSendFails, AsksUntilAnswered
<1>13. CASE KeyContextFails \/ TransportFails
  BY <1>13 DEF KeyContextFails, TransportFails, Reads, AsksUntilAnswered
<1>6. CASE TransportRecv
  BY <1>6 DEF TransportRecv, recvFlags, timerVars, AsksUntilAnswered
<1>7. CASE ControlRecv
  <2>1. key' = key /\ session' = session
    BY <1>7 DEF ControlRecv, RecvPushReply, PushReplyCompletes, RecvPushUpdate, RecvAuthFailed,
       RecvHaltRestart, RecvAuthPending, RecvInfo, RecvInfoPre, recvOther
  <2>2. \/ partial' = TRUE
        \/ partial' = partial /\ UNCHANGED stopOther
        \/ partial' = partial /\ \E f : StopFor(f)
    BY <1>7 DEF ControlRecv, RecvPushReply, PushReplyCompletes, RecvPushUpdate, RecvAuthFailed,
       RecvHaltRestart, RecvAuthPending, RecvInfo, RecvInfoPre
  <2> QED BY <2>1, <2>2, StopForEnds DEF stopOther, AsksUntilAnswered
<1>8. ASSUME NEW s \in Sessions, ResetInactiveTimer(s)
      PROVE  AsksUntilAnswered'
  BY <1>1, <1>8 DEF ResetInactiveTimer, objectVars, recvFlags, AsksUntilAnswered
<1>9. ASSUME NEW s \in Sessions, NEW t \in Timers, Handler(s, t)
      PROVE  AsksUntilAnswered'
  <2>1. CASE HandlerIgnored(s, t)
    BY <1>1, <2>1 DEF HandlerIgnored, Done, callbackOther, AsksUntilAnswered
  <2>2. CASE SendPushRequest
    BY <1>1, <2>2 DEF SendPushRequest, Repeats, Done, callbackOther, AsksUntilAnswered
  <2>3. CASE InfoHoldCallback
    BY <1>1, <2>3 DEF InfoHoldCallback, Done, callbackOther, AsksUntilAnswered
  <2>4. CASE InactiveCallback
    BY <2>4, StopForEnds DEF InactiveCallback, AsksUntilAnswered
  <2> QED BY <1>9, <2>1, <2>2, <2>3, <2>4 DEF Handler
<1>10. CASE TunBytes
  BY <1>10 DEF TunBytes, objectVars, recvFlags, AsksUntilAnswered
<1>11. CASE ClientStops
  BY <1>11 DEF ClientStops, AsksUntilAnswered
<1>12. CASE UNCHANGED vars
  BY <1>12 DEF vars, objectVars, recvFlags, timerVars, AsksUntilAnswered
<1> QED BY <1>2, <1>3, <1>4, <1>5, <1>6, <1>7, <1>8, <1>9, <1>10, <1>11, <1>12, <1>13 DEF Next

\* A session that waits for its options goes on asking for them.
THEOREM AsksCorrect == Spec => []AsksUntilAnswered
<1>1. Init => Types /\ AsksUntilAnswered
  BY InitTypes DEF Init, AsksUntilAnswered
<1> QED BY <1>1, NextTypes, NextAsks, PTL DEF Spec
-----------------------------------------------------------------------------
(* Connecting, and ending *)

Opens(m) == m.kind = "push_update" /\ m.more
Closes(m) == m.kind = "push_update" /\ ~m.more

\* The server sends no reply between two parts of an update: one that is still
\* to be handled comes after the end of any update that is.
OpensClose ==
    \A j \in 1 .. Len(inbox) :
      inbox[j].kind = "push_reply" =>
      /\ \A i \in 1 .. j - 1 : Opens(inbox[i]) => \E l \in i + 1 .. j - 1 : Closes(inbox[l])
      /\ connected /\ ~complete => \E l \in 1 .. j - 1 : Closes(inbox[l])
\* What the server is at agrees with what there still is to handle.
ServerAgrees ==
    ~halt =>
    /\ server = "done" =>
       /\ \A i \in 1 .. Len(inbox) : Opens(inbox[i]) => \E l \in i + 1 .. Len(inbox) : Closes(inbox[l])
       /\ connected /\ ~complete => \E l \in 1 .. Len(inbox) : Closes(inbox[l])
    /\ server \in {"push", "pushing"} =>
       /\ ~complete /\ ~connected
       /\ \A i \in 1 .. Len(inbox) :
            /\ inbox[i].kind # "push_update"
            /\ inbox[i].kind = "push_reply" => inbox[i].more

\* Nothing is handled once the session has ended.
EndsClean == halt => inbox = <<>> /\ transport = "stopped" /\ tun[session] # "up"

\* The client is told that it is connected when it connects, and not again.
TellsOnce ==
    /\ ~connected => \A i \in 1 .. Len(told) : told[i] # Connected
    /\ \A i, j \in 1 .. Len(told) : told[i] = Connected /\ told[j] = Connected => i = j

Clean == OpensClose /\ ServerAgrees /\ EndsClean /\ TellsOnce

\* What interrupted sessions leave behind.
Leftovers ==
    /\ interrupted \subseteq 1 .. session
    /\ session \in interrupted => halt
    /\ \A s \in 1 .. session - 1 : tun[s] = "up" => s \in interrupted

LateInv == Leftovers /\ (session \notin interrupted => Clean)

LEMMA HeadIsFirst ==
  ASSUME Types, inbox # <<>>
  PROVE  Len(inbox) \in Nat \ {0} /\ Head(inbox) = inbox[1]
  BY HeadTailProperties, EmptySeq, LenProperties DEF Types, InboxOK

\* The first message is gone.
Shifted ==
    /\ Len(inbox') = Len(inbox) - 1 /\ Len(inbox) \in Nat \ {0}
    /\ \A i \in 1 .. Len(inbox') : i + 1 \in 2 .. Len(inbox) /\ inbox'[i] = inbox[i + 1]

LEMMA ShiftedBack ==
  ASSUME Shifted, NEW l \in 2 .. Len(inbox)
  PROVE  l - 1 \in 1 .. Len(inbox') /\ inbox'[l - 1] = inbox[l]
<1>1. Len(inbox') = Len(inbox) - 1 /\ Len(inbox) \in Nat \ {0}
  BY DEF Shifted
<1>2. PICK i : i = l - 1
  OBVIOUS
<1>3. i \in 1 .. Len(inbox') /\ l = i + 1
  BY <1>1, <1>2
<1>4. inbox'[i] = inbox[i + 1]
  BY <1>3 DEF Shifted
<1> QED BY <1>2, <1>3, <1>4

\* The first message is taken and the session goes on: what is left agrees, if
\* the client has noted what the message opens or closes.
LEMMA TakesOne ==
  ASSUME OpensClose, ServerAgrees, ~halt, ~halt', server' = server, Shifted,
         connected' /\ ~complete' => Opens(inbox[1]) \/ (connected /\ ~complete /\ ~Closes(inbox[1])),
         server \in {"push", "pushing"} => ~complete' /\ ~connected'
  PROVE  OpensClose' /\ ServerAgrees'
<1> DEFINE n == Len(inbox)
<1>1. n \in Nat \ {0} /\ Len(inbox') = n - 1
  BY DEF Shifted
<1>2. \A l \in 2 .. n : Closes(inbox[l]) => l - 1 \in 1 .. n - 1 /\ Closes(inbox'[l - 1])
  BY <1>1, ShiftedBack
\* Each message that is left was the next one.
<1>3. \A i \in 1 .. n - 1 : \E k \in 2 .. n : k = i + 1 /\ inbox'[i] = inbox[k]
  BY <1>1 DEF Shifted
\* A message closes what is open before message k, among the first of which the
\* one that was taken cannot be the one that closes.
<1>4. ASSUME NEW k \in 2 .. n + 1, connected', ~complete',
             \A i \in 1 .. k - 1 : Opens(inbox[i]) => \E l \in i + 1 .. k - 1 : Closes(inbox[l]),
             connected /\ ~complete => \E l \in 1 .. k - 1 : Closes(inbox[l])
      PROVE  \E l \in 2 .. k - 1 : Closes(inbox[l])
  <2>1. CASE Opens(inbox[1])
    <3>1. 1 \in 1 .. k - 1
      BY <1>1
    <3>2. PICK l \in 1 + 1 .. k - 1 : Closes(inbox[l])
      BY <1>4, <2>1, <3>1
    <3> QED BY <3>2
  <2>2. CASE connected /\ ~complete /\ ~Closes(inbox[1])
    <3>1. PICK l \in 1 .. k - 1 : Closes(inbox[l])
      BY <1>4, <2>2
    <3>2. l # 1
      BY <2>2, <3>1
    <3> QED BY <3>1, <3>2
  <2> QED BY <1>4, <2>1, <2>2
<1> HIDE DEF n
<1>5. OpensClose'
  <2> SUFFICES ASSUME NEW j \in 1 .. n - 1, inbox'[j].kind = "push_reply"
               PROVE  /\ \A i \in 1 .. j - 1 : Opens(inbox'[i]) => \E l \in i + 1 .. j - 1 : Closes(inbox'[l])
                      /\ connected' /\ ~complete' => \E l \in 1 .. j - 1 : Closes(inbox'[l])
    BY <1>1 DEF OpensClose, Opens, Closes
  <2>1. PICK k \in 2 .. n : k = j + 1 /\ inbox[k].kind = "push_reply"
    BY <1>3
  <2>2. /\ \A i \in 1 .. k - 1 : Opens(inbox[i]) => \E l \in i + 1 .. k - 1 : Closes(inbox[l])
        /\ connected /\ ~complete => \E l \in 1 .. k - 1 : Closes(inbox[l])
    <3>1. k \in 1 .. n
      BY <1>1
    <3> QED BY <2>1, <3>1 DEF OpensClose, n
  <2>3. ASSUME NEW i \in 1 .. j - 1, Opens(inbox'[i])
        PROVE  \E l \in i + 1 .. j - 1 : Closes(inbox'[l])
    <3>1. i \in 1 .. n - 1
      BY <1>1
    <3>2. PICK m \in 2 .. n : m = i + 1 /\ Opens(inbox[m])
      BY <1>3, <2>3, <3>1
    <3>3. m \in 1 .. k - 1
      BY <2>1, <3>2
    <3>4. PICK l \in m + 1 .. k - 1 : Closes(inbox[l])
      BY <2>2, <3>2, <3>3
    <3>5. l \in 2 .. n /\ l - 1 \in i + 1 .. j - 1
      BY <1>1, <2>1, <3>2
    <3> QED BY <1>2, <3>4, <3>5
  <2>4. ASSUME connected', ~complete'
        PROVE  \E l \in 1 .. j - 1 : Closes(inbox'[l])
    <3>1. k \in 2 .. n + 1
      BY <1>1
    <3>2. PICK l \in 2 .. k - 1 : Closes(inbox[l])
      BY <1>4, <2>2, <2>4, <3>1
    <3>3. l \in 2 .. n /\ l - 1 \in 1 .. j - 1
      BY <1>1, <2>1
    <3> QED BY <1>2, <3>2, <3>3
  <2> QED BY <2>3, <2>4
<1>6. ASSUME server = "done"
      PROVE  /\ \A i \in 1 .. n - 1 : Opens(inbox'[i]) => \E l \in i + 1 .. n - 1 : Closes(inbox'[l])
             /\ connected' /\ ~complete' => \E l \in 1 .. n - 1 : Closes(inbox'[l])
  <2>1. /\ \A i \in 1 .. n : Opens(inbox[i]) => \E l \in i + 1 .. n : Closes(inbox[l])
        /\ connected /\ ~complete => \E l \in 1 .. n : Closes(inbox[l])
    BY <1>6 DEF ServerAgrees, n
  <2>2. ASSUME NEW i \in 1 .. n - 1, Opens(inbox'[i])
        PROVE  \E l \in i + 1 .. n - 1 : Closes(inbox'[l])
    <3>1. PICK m \in 2 .. n : m = i + 1 /\ Opens(inbox[m])
      BY <1>3, <2>2
    <3>2. m \in 1 .. n
      BY <1>1
    <3>3. PICK l \in m + 1 .. n : Closes(inbox[l])
      BY <2>1, <3>1, <3>2
    <3>4. l \in 2 .. n /\ l - 1 \in i + 1 .. n - 1
      BY <1>1, <3>1
    <3> QED BY <1>2, <3>3, <3>4
  <2>3. ASSUME connected', ~complete'
        PROVE  \E l \in 1 .. n - 1 : Closes(inbox'[l])
    <3>1. PICK k : k = n + 1
      OBVIOUS
    <3>2. k \in 2 .. n + 1 /\ k - 1 = n
      BY <1>1, <3>1
    <3>3. PICK l \in 2 .. k - 1 : Closes(inbox[l])
      BY <1>4, <2>1, <2>3, <3>2
    <3> QED BY <1>1, <1>2, <3>2, <3>3
  <2> QED BY <2>2, <2>3
<1>7. ASSUME server \in {"push", "pushing"}, NEW i \in 1 .. n - 1
      PROVE  /\ inbox'[i].kind # "push_update"
             /\ inbox'[i].kind = "push_reply" => inbox'[i].more
  <2>1. PICK k \in 2 .. n : inbox'[i] = inbox[k]
    BY <1>3
  <2>2. k \in 1 .. n
    BY <1>1
  <2> QED BY <1>7, <2>1, <2>2 DEF ServerAgrees, n
<1> QED BY <1>1, <1>5, <1>6, <1>7 DEF ServerAgrees, Opens, Closes

\* Nothing is left to handle.
LEMMA TakesAll ==
  ASSUME inbox' = <<>>, halt'
  PROVE  OpensClose' /\ ServerAgrees'
<1>1. Len(inbox') = 0
  OBVIOUS
<1> QED BY <1>1 DEF OpensClose, ServerAgrees

\* One message more.
LEMMA Grows ==
  ASSUME ~LateReplies, Types, OpensClose, ServerAgrees, ~halt, UNCHANGED <<halt, connected, complete>>,
         NEW m, Brings(m), SaysReply(m) \/ SaysUpdate(m) \/ SaysOther(m)
  PROVE  OpensClose' /\ ServerAgrees'
<1> DEFINE n == Len(inbox) + 1
<1>1. /\ Len(inbox') = n /\ Len(inbox) \in Nat /\ inbox'[n] = m
      /\ \A i \in 1 .. Len(inbox) : inbox'[i] = inbox[i]
  BY SaysTypes, GrowsInbox
<1>2. server \in {"push", "pushing", "done", "updating", "final"}
  BY DEF Types, RestOK
<1>3. /\ m.kind = "push_reply" => SaysReply(m)
      /\ m.kind = "push_update" => SaysUpdate(m)
      /\ ~SaysReply(m) /\ ~SaysUpdate(m) => SaysOther(m)
  BY DEF SaysReply, SaysUpdate, SaysOther, Reply, Update, AuthFailed, HaltRestart, Inform, Info
<1>4. OpensClose'
  <2> SUFFICES ASSUME NEW j \in 1 .. n, inbox'[j].kind = "push_reply"
               PROVE  /\ \A i \in 1 .. j - 1 : Opens(inbox'[i]) => \E l \in i + 1 .. j - 1 : Closes(inbox'[l])
                      /\ connected /\ ~complete => \E l \in 1 .. j - 1 : Closes(inbox'[l])
    BY <1>1 DEF OpensClose, Opens, Closes
  <2>1. CASE j \in 1 .. Len(inbox)
    <3>1. inbox'[j] = inbox[j] /\ \A i \in 1 .. j - 1 : inbox'[i] = inbox[i]
      BY <1>1, <2>1
    <3>2. /\ \A i \in 1 .. j - 1 : Opens(inbox[i]) => \E l \in i + 1 .. j - 1 : Closes(inbox[l])
          /\ connected /\ ~complete => \E l \in 1 .. j - 1 : Closes(inbox[l])
      BY <2>1, <3>1 DEF OpensClose
    <3>3. ASSUME NEW i \in 1 .. j - 1, Opens(inbox'[i])
          PROVE  \E l \in i + 1 .. j - 1 : Closes(inbox'[l])
      <4>1. PICK l \in i + 1 .. j - 1 : Closes(inbox[l])
        BY <3>1, <3>2, <3>3
      <4>2. inbox'[l] = inbox[l]
        BY <3>1
      <4> QED BY <4>1, <4>2
    <3>4. ASSUME connected, ~complete
          PROVE  \E l \in 1 .. j - 1 : Closes(inbox'[l])
      <4>1. PICK l \in 1 .. j - 1 : Closes(inbox[l])
        BY <3>2, <3>4
      <4>2. inbox'[l] = inbox[l]
        BY <3>1
      <4> QED BY <4>1, <4>2
    <3> QED BY <3>3, <3>4
  <2>2. CASE j = n
    <3>1. SaysReply(m)
      BY <1>1, <1>3, <2>2
    <3>2. CASE server \in {"push", "pushing"}
      BY <1>1, <2>2, <3>2 DEF ServerAgrees, Opens
    <3>3. CASE server = "done"
      <4>1. ASSUME NEW i \in 1 .. Len(inbox), Opens(inbox'[i])
            PROVE  \E l \in i + 1 .. Len(inbox) : Closes(inbox'[l])
        <5>1. PICK l \in i + 1 .. Len(inbox) : Closes(inbox[l])
          BY <1>1, <3>3, <4>1 DEF ServerAgrees
        <5>2. inbox'[l] = inbox[l]
          BY <1>1
        <5> QED BY <5>1, <5>2
      <4>2. ASSUME connected, ~complete
            PROVE  \E l \in 1 .. Len(inbox) : Closes(inbox'[l])
        <5>1. PICK l \in 1 .. Len(inbox) : Closes(inbox[l])
          BY <3>3, <4>2 DEF ServerAgrees
        <5>2. inbox'[l] = inbox[l]
          BY <1>1
        <5> QED BY <5>1, <5>2
      <4>3. j - 1 = Len(inbox)
        BY <1>1, <2>2
      <4> QED BY <4>1, <4>2, <4>3
    <3> QED BY <3>1, <3>2, <3>3 DEF SaysReply
  <2> QED BY <1>1, <2>1, <2>2
<1>5. ASSUME server' = "done"
      PROVE  /\ \A i \in 1 .. n : Opens(inbox'[i]) => \E l \in i + 1 .. n : Closes(inbox'[l])
             /\ connected /\ ~complete => \E l \in 1 .. n : Closes(inbox'[l])
  <2>1. CASE SaysUpdate(m)
    <3>1. Closes(inbox'[n]) /\ ~Opens(inbox'[n])
      BY <1>1, <1>5, <2>1 DEF SaysUpdate, Update, Closes, Opens
    <3> QED BY <1>1, <3>1
  <2>2. CASE ~SaysUpdate(m)
    <3>1. ~Opens(inbox'[n])
      BY <1>1, <1>3, <2>2 DEF Opens
    <3>2. CASE server = "done"
      <4>1. ASSUME NEW i \in 1 .. n, Opens(inbox'[i])
            PROVE  \E l \in i + 1 .. n : Closes(inbox'[l])
        <5>1. i \in 1 .. Len(inbox) /\ Opens(inbox[i])
          BY <1>1, <3>1, <4>1
        <5>2. PICK l \in i + 1 .. Len(inbox) : Closes(inbox[l])
          BY <3>2, <5>1 DEF ServerAgrees
        <5>3. inbox'[l] = inbox[l] /\ l \in i + 1 .. n
          BY <1>1
        <5> QED BY <5>2, <5>3
      <4>2. ASSUME connected, ~complete
            PROVE  \E l \in 1 .. n : Closes(inbox'[l])
        <5>1. PICK l \in 1 .. Len(inbox) : Closes(inbox[l])
          BY <3>2, <4>2 DEF ServerAgrees
        <5>2. inbox'[l] = inbox[l] /\ l \in 1 .. n
          BY <1>1
        <5> QED BY <5>1, <5>2
      <4> QED BY <4>1, <4>2
    <3>3. CASE server \in {"push", "pushing"}
      <4>1. \A i \in 1 .. n : ~Opens(inbox'[i])
        BY <1>1, <3>1, <3>3 DEF ServerAgrees, Opens
      <4> QED BY <3>3, <4>1 DEF ServerAgrees
    <3> QED BY <1>2, <1>3, <1>5, <2>2, <3>2, <3>3 DEF SaysReply, SaysOther
  <2> QED BY <2>1, <2>2
<1>6. ASSUME server' \in {"push", "pushing"}
      PROVE  /\ ~complete /\ ~connected
             /\ \A i \in 1 .. n : /\ inbox'[i].kind # "push_update"
                                  /\ inbox'[i].kind = "push_reply" => inbox'[i].more
  <2>1. server \in {"push", "pushing"}
    BY <1>3, <1>6 DEF SaysReply, SaysUpdate, SaysOther, Replied
  <2>2. ~SaysUpdate(m)
    BY <2>1 DEF SaysUpdate
  <2>3. m.kind = "push_reply" => m.more
    BY <1>3, <1>6 DEF SaysReply, Replied
  <2> QED BY <1>1, <1>3, <2>1, <2>2, <2>3 DEF ServerAgrees
<1> QED BY <1>1, <1>4, <1>5, <1>6 DEF ServerAgrees, Opens, Closes
\* What the client is told besides CONNECTED.
LEMMA ToldMore ==
  ASSUME Types, TellsOnce, connected' = connected, NEW e \in Seq(1 .. MaxInfos), told' = told \o e
  PROVE  TellsOnce'
<1>1. told \in Seq(Events) /\ e \in Seq(Events) /\ Len(told) \in Nat /\ Len(e) \in Nat
  <2>1. 1 .. MaxInfos \subseteq Events
    BY DEF Events
  <2> QED BY <2>1, SeqMonotonic, LenProperties DEF Types, RecvOK
<1>2. Len(told') = Len(told) + Len(e)
      /\ \A i \in 1 .. Len(told) + Len(e) : told'[i] = IF i <= Len(told) THEN told[i] ELSE e[i - Len(told)]
  BY <1>1, ConcatProperties
<1>3. ASSUME NEW i \in 1 .. Len(told'), told'[i] = Connected
      PROVE  i \in 1 .. Len(told) /\ told[i] = Connected
  <2>1. CASE i <= Len(told)
    BY <1>1, <1>2, <1>3, <2>1
  <2>2. CASE i > Len(told)
    <3>1. i - Len(told) \in 1 .. Len(e) /\ told'[i] = e[i - Len(told)]
      BY <1>1, <1>2, <2>2
    <3>2. e[i - Len(told)] \in 1 .. MaxInfos
      BY <3>1, ElementOfSeq
    <3> QED BY <1>3, <3>1, <3>2 DEF Connected
  <2> QED BY <1>1, <1>2, <2>1, <2>2
<1> QED BY <1>3 DEF TellsOnce

LEMMA ToldConnected ==
  ASSUME Types, TellsOnce, ~connected, connected', told' = Append(told, Connected)
  PROVE  TellsOnce'
<1>1. told \in Seq(Events) /\ Connected \in Events /\ Len(told) \in Nat
  BY LenProperties DEF Types, RecvOK, Events
<1>2. Len(told') = Len(told) + 1 /\ \A i \in 1 .. Len(told) : told'[i] = told[i]
  BY <1>1, AppendProperties
<1>3. \A i \in 1 .. Len(told') : told'[i] = Connected => i = Len(told')
  BY <1>1, <1>2 DEF TellsOnce
<1> QED BY <1>3 DEF TellsOnce

\* A step that handles no message, other than to start a session.
LEMMA StaysLate ==
  ASSUME OpensClose, ServerAgrees, UNCHANGED <<inbox, server, connected, complete>>, halt => halt'
  PROVE  OpensClose' /\ ServerAgrees'
  BY DEF OpensClose, ServerAgrees, Opens, Closes

\* stop(), of a session that has handled all its messages.
LEMMA StopsClean ==
  ASSUME Types, ~halt, NEW f, StopFor(f), inbox' = <<>>, session' = session, session \notin interrupted'
  PROVE  EndsClean' /\ halt' = TRUE
<1>1. StopDone /\ halt' = TRUE
  BY StopForEnds
<1> QED BY <1>1 DEF EndsClean, StopDone

LEMMA ConnectsLate ==
  ASSUME Types, Clean, ~halt, PushReplyCompletes, session \notin interrupted'
  PROVE  Clean'
<1>1. inbox # <<>> /\ Head(inbox) = inbox[1] /\ Len(inbox) \in Nat \ {0} /\ Head(inbox).kind = "push_reply"
      /\ ~Head(inbox).more /\ ~complete
  BY HeadIsFirst DEF PushReplyCompletes
<1>2. ~connected
  <2>1. ASSUME connected PROVE \E l \in 1 .. 1 - 1 : Closes(inbox[l])
    BY <1>1, <2>1 DEF Clean, OpensClose
  <2> QED BY <2>1
<1>3. server \notin {"push", "pushing"}
  BY <1>1 DEF Clean, ServerAgrees
<1>4. session \in Sessions
  BY DEF Types, RestOK
<1>5. tun \in [Sessions -> TunState] /\ tun[session] \in TunState /\ StopOK
  BY <1>4 DEF Types, StopOK
<1>6. UNCHANGED <<session, server>> /\ complete' = TRUE
  BY DEF PushReplyCompletes, recvOther, serverVars
<1>7. PICK outcome \in Outcomes :
        LET tunUp == outcome \in {"no_data_channel", "compress_error", "ok"}
            returns == outcome = "ok" \/ (outcome = "tun_setup_failed" /\ connected)
        IN
        /\ connected' = (connected \/ tunUp)
        /\ told' = IF returns \/ outcome = "compress_error" THEN Append(told, Connected) ELSE told
        /\ inbox' = IF returns THEN Tail(inbox) ELSE <<>>
        /\ IF outcome # "ok"
           THEN StopWith(Reason(outcome),
                         IF tunUp THEN "up"
                         ELSE IF outcome = "tun_setup_failed" THEN "stopped" ELSE tun[session])
           ELSE /\ tun' = [tun EXCEPT ![session] = "up"]
                /\ UNCHANGED <<fatal, halt, interrupted, transport, over>>
  BY DEF PushReplyCompletes, Connect
<1>8. TellsOnce'
  <2>1. CASE outcome \in {"ok", "compress_error"}
    BY <1>2, <1>7, <2>1, ToldConnected DEF Clean
  <2>2. CASE outcome \notin {"ok", "compress_error"}
    BY <1>2, <1>7, <2>2 DEF Clean, TellsOnce
  <2> QED BY <2>1, <2>2
<1>9. CASE outcome = "ok"
  <2>1. inbox' = Tail(inbox) /\ halt' = halt
    BY <1>7, <1>9
  <2>2. Shifted
    BY <1>1, <2>1, TailOfInbox DEF Shifted
  <2>3. ~halt'
    BY <2>1
  <2> HIDE <2>1
  <2>4. OpensClose' /\ ServerAgrees'
    BY <1>3, <1>6, <2>2, <2>3, TakesOne DEF Clean
  <2>5. EndsClean'
    BY <2>3 DEF EndsClean
  <2> QED BY <1>8, <2>4, <2>5 DEF Clean
<1>10. CASE outcome # "ok"
  <2>1. inbox' = <<>>
    BY <1>2, <1>7, <1>10
  <2>2. PICK t \in TunState : StopWith(Reason(outcome), t)
    BY <1>5, <1>7, <1>10 DEF TunState
  <2>3. StopDone
    BY <1>4, <1>5, <2>2, StopEnds
  <2>4. EndsClean' /\ halt' = TRUE
    BY <1>6, <2>1, <2>3 DEF EndsClean, StopDone
  <2> QED BY <1>8, <2>1, <2>4, TakesAll DEF Clean
<1> QED BY <1>9, <1>10

LEMMA HandledLate ==
  ASSUME ~RepliesGoOn, Types, InboxEnds, Clean, ControlRecv, session \notin interrupted'
  PROVE  Clean'
<1>1. /\ inbox # <<>> /\ Head(inbox) = inbox[1] /\ Len(inbox) \in Nat \ {0}
      /\ \/ inbox' = <<>>
         \/ inbox' = Tail(inbox) /\ ~Ending(Head(inbox))
  <2>1. inbox # <<>>
    BY HandledInbox
  <2>2. Head(inbox) = inbox[1] /\ Len(inbox) \in Nat \ {0}
    BY <2>1, HeadIsFirst
  <2> QED BY <2>1, <2>2, HandledInbox
<1>2. ~halt
  BY <1>1 DEF Clean, EndsClean
<1>3. UNCHANGED <<session, server>>
  BY DEF ControlRecv, RecvPushReply, PushReplyCompletes, RecvPushUpdate, RecvAuthFailed,
     RecvHaltRestart, RecvAuthPending, RecvInfo, RecvInfoPre, recvOther, serverVars
\* The session is stopped.
<1>4. ASSUME inbox' = <<>>, NEW f, StopFor(f), UNCHANGED <<told, connected>>
      PROVE  Clean'
  <2>1. EndsClean' /\ halt' = TRUE
    BY <1>2, <1>3, <1>4, StopsClean
  <2> QED BY <1>4, <2>1, TakesAll DEF Clean, TellsOnce
\* It goes on.
<1>5. ASSUME inbox' = Tail(inbox), UNCHANGED stopOther, UNCHANGED connected, TellsOnce',
             ~complete' /\ connected => Opens(inbox[1]) \/ (~complete /\ ~Closes(inbox[1])),
             server \in {"push", "pushing"} => ~complete'
      PROVE  Clean'
  <2>1. Shifted
    BY <1>1, <1>5, TailOfInbox DEF Shifted
  <2>2. ~halt' /\ tun' = tun /\ connected' = connected
    BY <1>2, <1>5 DEF stopOther
  <2>3. server \in {"push", "pushing"} => ~complete' /\ ~connected'
    BY <1>2, <1>5, <2>2 DEF Clean, ServerAgrees
  <2>4. connected' /\ ~complete' => Opens(inbox[1]) \/ (connected /\ ~complete /\ ~Closes(inbox[1]))
    BY <1>5, <2>2
  <2>5. OpensClose' /\ ServerAgrees'
    <3> HIDE <1>5
    <3> QED BY <1>2, <1>3, <2>1, <2>2, <2>3, <2>4, TakesOne DEF Clean
  <2>6. EndsClean'
    BY <2>2 DEF EndsClean
  <2> QED BY <1>5, <2>5, <2>6 DEF Clean
<1>6. server \in {"push", "pushing"} => ~complete /\ ~connected
  BY <1>2 DEF Clean, ServerAgrees
<1>7. told' = told /\ connected' = connected => TellsOnce'
  BY DEF Clean, TellsOnce
<1>8. CASE RecvPushReply
  <2>1. Head(inbox).kind = "push_reply" /\ inbox' = Tail(inbox) /\ connected' = connected /\ told' = told
    BY <1>8 DEF RecvPushReply, Message
  <2>2. ~Closes(inbox[1])
    BY <1>1, <2>1 DEF Closes
  <2>3. CASE complete /\ UNCHANGED <<complete, stopOther>>
    BY <1>5, <1>6, <1>7, <2>1, <2>3
  <2>4. CASE Head(inbox).rejected /\ StopFor("undef")
    <3>1. inbox' = <<>>
      BY <1>1, <2>1, <2>4 DEF Ending
    <3> QED BY <1>4, <2>1, <2>4, <3>1
  <2>5. CASE ~complete /\ UNCHANGED <<complete, stopOther>>
    BY <1>5, <1>6, <1>7, <2>1, <2>2, <2>5
  <2> QED BY <1>8, <2>3, <2>4, <2>5 DEF RecvPushReply
<1>9. CASE PushReplyCompletes
  BY <1>2, <1>9, ConnectsLate
<1>10. CASE RecvPushUpdate
  <2>1. Head(inbox).kind = "push_update" /\ connected' = connected /\ told' = told
    BY <1>10 DEF RecvPushUpdate
  <2>2. server \notin {"push", "pushing"}
    BY <1>1, <1>2, <2>1 DEF Clean, ServerAgrees
  <2>3. CASE StopFor("undef") /\ inbox' = <<>>
    BY <1>4, <2>1, <2>3
  <2>4. CASE complete' = Completes(Head(inbox)) /\ inbox' = Tail(inbox) /\ UNCHANGED stopOther
    <3>1. ~complete' => Opens(inbox[1])
      BY <1>1, <2>1, <2>4 DEF Completes, Opens
    <3> QED BY <1>5, <1>7, <2>1, <2>2, <2>4, <3>1
  <2> QED BY <1>10, <2>3, <2>4 DEF RecvPushUpdate
<1>11. CASE RecvAuthFailed \/ RecvHaltRestart
  <2>1. inbox' = <<>>
    BY <1>1, <1>11 DEF RecvAuthFailed, RecvHaltRestart, Message, Ending
  <2>2. (\E f : StopFor(f)) /\ UNCHANGED <<told, connected>>
    BY <1>11 DEF RecvAuthFailed, RecvHaltRestart
  <2> QED BY <1>4, <2>1, <2>2
<1>12. CASE RecvAuthPending \/ RecvInfo \/ RecvInfoPre
  <2>1. /\ inbox' = Tail(inbox) /\ UNCHANGED stopOther /\ UNCHANGED <<connected, complete>>
        /\ Head(inbox).kind \in {"auth_pending", "info", "info_pre"}
    BY <1>12 DEF RecvAuthPending, RecvInfo, RecvInfoPre, Message
  <2>2. ~Closes(inbox[1])
    BY <1>1, <2>1 DEF Closes
  <2>3. TellsOnce'
    <3>1. CASE told' = told
      BY <1>7, <2>1, <3>1
    <3>2. CASE told' # told
      <4>1. told' = Append(told, Head(inbox).id) /\ Head(inbox).kind = "info"
        BY <1>12, <3>2 DEF RecvAuthPending, RecvInfo, RecvInfoPre, Message
      <4>2. Head(inbox).id \in 1 .. MaxInfos
        BY <1>1, <4>1, HeadOfInbox DEF Types, Info
      <4>3. told' = told \o <<Head(inbox).id>> /\ <<Head(inbox).id>> \in Seq(1 .. MaxInfos)
        BY <4>1, <4>2, AppendIsConcat DEF Types, RecvOK, Events
      <4> QED BY <2>1, <4>3, ToldMore DEF Clean
    <3> QED BY <3>1, <3>2
  <2> QED BY <1>5, <1>6, <2>1, <2>2, <2>3
<1> QED BY <1>8, <1>9, <1>10, <1>11, <1>12 DEF ControlRecv

\* What a step that starts no session does to those that were interrupted, and to
\* the tuns of the others.
Kept ==
    /\ session' = session
    /\ interrupted \subseteq interrupted' /\ interrupted' \subseteq interrupted \cup {session}
    /\ session \in interrupted' => halt' = TRUE \/ (halt' = halt /\ session \in interrupted)
    /\ halt => interrupted' = interrupted /\ (halt' = TRUE \/ halt' = halt)
    /\ \A s \in Sessions : s # session => tun'[s] = tun[s]

LEMMA StopKeeps == ASSUME StopDone, session' = session PROVE Kept
  BY DEF StopDone, Kept

LEMMA NextKeeps ==
  ASSUME Types, [Next]_vars, ~NewClient
  PROVE  Kept
<1>1. session \in Sessions /\ tun \in [Sessions -> TunState]
  BY DEF Types, StopOK, RestOK
<1>2. ASSUME UNCHANGED <<session, tun, halt, interrupted>> PROVE Kept
  BY <1>2 DEF Kept
<1>3. CASE TransportConnecting \/ Active \/ TransportRecv \/ TunBytes \/ UNCHANGED vars
  BY <1>2, <1>3 DEF TransportConnecting, Active, TransportRecv, TunBytes, vars, objectVars
<1>4. CASE TransportFails
  BY <1>2, <1>4 DEF TransportFails, stopKeeps
<1>5. CASE Authenticate
  <2>1. session' = session /\ (StopFor("need_creds") \/ UNCHANGED <<session, tun, halt, interrupted>>)
    BY <1>5 DEF Authenticate, ClientAuth
  <2> QED BY <1>2, <2>1, StopForEnds, StopKeeps
<1>6. CASE Fails \/ TunSendFails
  <2>1. session' = session /\ \E f : StopFor(f)
    BY <1>6 DEF Fails, TunSendFails, stopKeeps
  <2> QED BY <2>1, StopForEnds, StopKeeps
<1>7. CASE KeyContextFails
  BY <1>7 DEF KeyContextFails, Kept
<1>8. CASE ControlRecv
  <2>1. session' = session
    BY <1>8 DEF ControlRecv, RecvPushReply, PushReplyCompletes, RecvPushUpdate, RecvAuthFailed,
       RecvHaltRestart, RecvAuthPending, RecvInfo, RecvInfoPre, recvOther
  <2>2. CASE PushReplyCompletes
    <3>1. PICK t \in TunState :
             \/ \E f : StopWith(f, t)
             \/ tun' = [tun EXCEPT ![session] = t] /\ UNCHANGED <<halt, interrupted>>
      BY <1>1, <2>2 DEF PushReplyCompletes, Connect, TunState
    <3>2. CASE \E f : StopWith(f, t)
      BY <1>1, <2>1, <3>2, StopEnds, StopKeeps DEF Types
    <3>3. CASE tun' = [tun EXCEPT ![session] = t] /\ UNCHANGED <<halt, interrupted>>
      BY <1>1, <2>1, <3>3 DEF Kept
    <3> QED BY <3>1, <3>2, <3>3
  <2>3. CASE ~PushReplyCompletes
    <3>1. (\E f : StopFor(f)) \/ UNCHANGED stopOther
      BY <1>8, <2>3 DEF ControlRecv, RecvPushReply, RecvPushUpdate, RecvAuthFailed,
         RecvHaltRestart, RecvAuthPending, RecvInfo, RecvInfoPre
    <3>2. CASE UNCHANGED stopOther
      BY <1>2, <2>1, <3>2 DEF stopOther
    <3> QED BY <2>1, <3>1, <3>2, StopForEnds, StopKeeps
  <2> QED BY <2>2, <2>3
<1>9. ASSUME NEW s \in Sessions, ResetInactiveTimer(s) PROVE Kept
  BY <1>2, <1>9 DEF ResetInactiveTimer, objectVars
<1>10. ASSUME NEW s \in Sessions, NEW t \in Timers, Handler(s, t) PROVE Kept
  <2>1. CASE InactiveCallback
    <3>1. session' = session /\ StopFor("other")
      BY <2>1 DEF InactiveCallback, stopKeeps
    <3> QED BY <3>1, StopForEnds, StopKeeps
  <2>2. CASE ~InactiveCallback
    BY <1>2, <1>10, <2>2 DEF Handler, HandlerIgnored, SendPushRequest, InfoHoldCallback, callbackOther
  <2> QED BY <2>1, <2>2
<1>11. CASE ClientStops
  BY <1>1, <1>11 DEF ClientStops, stopKeeps, Kept
<1> QED BY <1>3, <1>4, <1>5, <1>6, <1>7, <1>8, <1>9, <1>10, <1>11 DEF Next

LEMMA NextLeftovers ==
  ASSUME Types, LateInv, [Next]_vars
  PROVE  Leftovers'
<1>1. session \in Nat \ {0} /\ session \in Sessions /\ 1 .. session \subseteq Sessions
      /\ \A s \in 1 .. session - 1 : s \in Sessions /\ s # session
  BY BoundsArePositive DEF Types, RestOK, Sessions
<1>2. Leftovers
  BY DEF LateInv
<1>3. CASE ~NewClient
  <2>1. Kept
    BY <1>3, NextKeeps
  <2>2. session \in interrupted => halt = TRUE
    BY <1>2 DEF Leftovers, Types, StopOK
  <2>3. session' \in interrupted' => halt'
    BY <2>1, <2>2 DEF Kept
  <2>4. interrupted' \subseteq 1 .. session'
    BY <1>1, <1>2, <2>1 DEF Kept, Leftovers
  <2>5. \A s \in 1 .. session - 1 : tun'[s] = "up" => s \in interrupted'
    BY <1>1, <1>2, <2>1 DEF Kept, Leftovers
  <2> QED BY <2>1, <2>3, <2>4, <2>5 DEF Kept, Leftovers
<1>4. CASE NewClient
  <2>1. session' = session + 1 /\ halt' = FALSE /\ inbox = <<>>
    BY <1>4 DEF NewClient, Idle
  <2>2. \A s \in 1 .. session - 1 : tun'[s] = tun[s] /\ (s \in interrupted => s \in interrupted')
    BY <1>1, <1>4 DEF NewClient, Types, StopOK
  <2>3. interrupted' \subseteq interrupted
    BY <1>4 DEF NewClient
  <2>4. session' \notin interrupted' /\ interrupted' \subseteq 1 .. session'
    BY <1>1, <1>2, <2>1, <2>3 DEF Leftovers
  <2>5. tun'[session] = "up" => session \in interrupted'
    <3>1. CASE halt /\ UNCHANGED <<tun, interrupted>>
      BY <3>1 DEF LateInv, Clean, EndsClean
    <3>2. CASE tun' = [tun EXCEPT ![session] = StopTun(@)]
      BY <1>1, <3>2 DEF StopTun, Types, StopOK
    <3> QED BY <1>4, <3>1, <3>2 DEF NewClient
  <2>6. \A s \in 1 .. session' - 1 : s = session \/ s \in 1 .. session - 1
    BY <1>1, <2>1
  <2> QED BY <1>2, <2>1, <2>2, <2>4, <2>5, <2>6 DEF Leftovers
<1> QED BY <1>3, <1>4

LEMMA NextClean ==
  ASSUME ~RepliesGoOn, ~LateReplies, Types, InboxEnds, Clean, session \notin interrupted', [Next]_vars,
         ~NewClient
  PROVE  Clean'
<1>1. session \in Sessions /\ tun \in [Sessions -> TunState]
  BY DEF Types, StopOK, RestOK
\* A step that leaves the messages alone, and what there is to say about them.
<1>3. ASSUME UNCHANGED <<inbox, server, connected, complete>>, halt => halt', EndsClean',
             told' = told
      PROVE  Clean'
  BY <1>3, StaysLate DEF Clean, TellsOnce
<1>4. ASSUME UNCHANGED <<inbox, server, connected, complete, told, session>>, inbox = <<>>, ~halt,
             NEW f, StopFor(f)
      PROVE  Clean'
  <2>1. EndsClean' /\ halt' = TRUE
    BY <1>4, StopsClean
  <2> QED BY <1>3, <1>4, <2>1
<1>5. CASE TransportConnecting
  <2>1. EndsClean'
    BY <1>5 DEF TransportConnecting, Alive, Clean, EndsClean
  <2> QED BY <1>3, <1>5, <2>1 DEF TransportConnecting, recvFlags, serverVars
<1>6. CASE Authenticate
  <2>1. UNCHANGED <<inbox, server, connected, complete, told, session>> /\ inbox = <<>> /\ ~halt
    BY <1>6 DEF Authenticate, Reads, Idle, serverVars, Clean, EndsClean
  <2>2. CASE StopFor("need_creds")
    BY <1>4, <2>1, <2>2
  <2>3. CASE UNCHANGED <<tun, halt, transport>>
    <3>1. EndsClean'
      BY <2>1, <2>3 DEF Clean, EndsClean
    <3> QED BY <1>3, <2>1, <2>3, <3>1
  <2> QED BY <1>6, <2>2, <2>3 DEF Authenticate, ClientAuth
<1>7. CASE Active
  <2>1. EndsClean'
    BY <1>7 DEF Active, Clean, EndsClean
  <2> QED BY <1>3, <1>7, <2>1 DEF Active, serverVars
<1>8. CASE Fails \/ TunSendFails
  <2>1. UNCHANGED stopKeeps /\ inbox = <<>> /\ ~halt /\ \E f : StopFor(f)
    BY <1>8 DEF Fails, TunSendFails, Alive, Reads, Idle, Clean, EndsClean
  <2> QED BY <1>4, <2>1 DEF stopKeeps, serverVars
<1>15. CASE KeyContextFails \/ TransportFails
  BY <1>15 DEF KeyContextFails, TransportFails, Reads, Clean, EndsClean
<1>9. CASE TransportRecv
  <2>1. PICK m : Brings(m) /\ (SaysReply(m) \/ SaysUpdate(m) \/ SaysOther(m))
    BY <1>9, ServerSays DEF TransportRecv
  <2>2. UNCHANGED <<halt, connected, complete, told, tun, session>> /\ ~halt
    BY <1>9 DEF TransportRecv, recvFlags, Clean, EndsClean
  <2>3. OpensClose' /\ ServerAgrees'
    BY <2>1, <2>2, Grows DEF Clean
  <2> QED BY <2>2, <2>3 DEF Clean, EndsClean, TellsOnce
<1>10. CASE ControlRecv
  BY <1>10, HandledLate
<1>11. ASSUME NEW s \in Sessions, ResetInactiveTimer(s)
       PROVE  Clean'
  <2>1. EndsClean'
    BY <1>11 DEF ResetInactiveTimer, objectVars, recvFlags, Clean, EndsClean
  <2> QED BY <1>3, <1>11, <2>1 DEF ResetInactiveTimer, objectVars, recvFlags, serverVars
<1>12. ASSUME NEW s \in Sessions, NEW t \in Timers, Handler(s, t)
       PROVE  Clean'
  <2>1. CASE HandlerIgnored(s, t) \/ SendPushRequest
    <3>1. EndsClean'
      BY <2>1 DEF HandlerIgnored, SendPushRequest, callbackOther, Clean, EndsClean
    <3> QED BY <1>3, <2>1, <3>1 DEF HandlerIgnored, SendPushRequest, callbackOther, serverVars
  <2>2. CASE InfoHoldCallback
    <3>1. EndsClean' /\ OpensClose' /\ ServerAgrees'
      BY <2>2, StaysLate DEF InfoHoldCallback, callbackOther, serverVars, Clean, EndsClean
    <3>2. TellsOnce'
      <4>1. CASE info_hold = Released
        BY <2>2, <4>1 DEF InfoHoldCallback, callbackOther, Clean, TellsOnce
      <4>2. CASE info_hold # Released
        BY <2>2, <4>2, ToldMore DEF InfoHoldCallback, callbackOther, Clean, Types, RecvOK
      <4> QED BY <4>1, <4>2
    <3> QED BY <3>1, <3>2 DEF Clean
  <2>3. CASE InactiveCallback
    BY <1>4, <2>3 DEF InactiveCallback, Handles, Idle, stopKeeps, serverVars
  <2> QED BY <1>12, <2>1, <2>2, <2>3 DEF Handler
<1>13. CASE TunBytes
  <2>1. EndsClean'
    BY <1>13 DEF TunBytes, objectVars, recvFlags, Clean, EndsClean
  <2> QED BY <1>3, <1>13, <2>1 DEF TunBytes, objectVars, recvFlags, serverVars
<1>14. CASE ClientStops
  <2>1. EndsClean' /\ (halt => halt')
    BY <1>1, <1>14 DEF ClientStops, Idle, StopTun, stopKeeps, Clean, EndsClean
  <2> QED BY <1>3, <1>14, <2>1 DEF ClientStops, stopKeeps, serverVars
<1>16. CASE UNCHANGED vars
  BY <1>3, <1>16 DEF vars, objectVars, recvFlags, serverVars, Clean, EndsClean
<1> QED BY <1>5, <1>6, <1>7, <1>8, <1>9, <1>10, <1>11, <1>12, <1>13, <1>14, <1>15, <1>16 DEF Next

LEMMA NextLate ==
  ASSUME ~RepliesGoOn, ~LateReplies, Types, InboxEnds, LateInv, [Next]_vars
  PROVE  LateInv'
<1>1. Leftovers'
  BY NextLeftovers
<1> SUFFICES ASSUME session' \notin interrupted' PROVE Clean'
  BY <1>1 DEF LateInv
<1>2. CASE NewClient
  <2>1. Len(inbox') = 0 /\ Len(told') = 0 /\ ~connected' /\ ~complete' /\ ~halt'
    BY <1>2 DEF NewClient, NewOptions
  <2> QED BY <2>1 DEF Clean, OpensClose, ServerAgrees, EndsClean, TellsOnce
<1>3. CASE ~NewClient
  <2>1. session \notin interrupted' /\ session \notin interrupted
    BY <1>3, NextKeeps DEF Kept
  <2> QED BY <1>3, <2>1, NextClean DEF LateInv
<1> QED BY <1>2, <1>3

LEMMA LateAlways ==
  ASSUME ~RepliesGoOn, ~LateReplies
  PROVE  Spec => [](Types /\ LateInv)
<1>1. Init => LateInv
  <2> SUFFICES ASSUME Init PROVE LateInv
    OBVIOUS
  <2>1. Len(inbox) = 0 /\ Len(told) = 0
    BY DEF Init
  <2> QED BY <2>1 DEF Init, LateInv, Leftovers, Clean, OpensClose, ServerAgrees, EndsClean, TellsOnce
<1>2. Types /\ InboxEnds /\ LateInv /\ [Next]_vars => Types' /\ InboxEnds' /\ LateInv'
  BY NextTypes, NextEnds, NextLate
<1> QED BY <1>1, <1>2, InitTypes, InitFresh, PTL DEF Spec

\* If the server says no more once it has pushed an option that is rejected, and
\* sends no reply within an update, a session that has ended keeps neither its
\* tun nor its transport, unless its stop() was interrupted; and no other tun is
\* there when the next session starts.
THEOREM DownCorrect ==
  ASSUME ~RepliesGoOn, ~LateReplies
  PROVE  Spec => []DownWhenEnded
<1>1. Types /\ LateInv => DownWhenEnded
  BY TypesSuffice DEF LateInv, Leftovers, Clean, EndsClean, DownWhenEnded
<1> QED BY <1>1, LateAlways, PTL

\* Under the same assumptions a session connects once: with a server that keeps
\* to them no order of messages and timers connects it again.  An interrupted one
\* may, as it goes on after an update that it has rejected.
THEOREM ConnectsOnceCorrect ==
  ASSUME ~RepliesGoOn, ~LateReplies
  PROVE  Spec => [](session \notin interrupted => ConnectsOnce)
<1>1. Types /\ LateInv => (session \notin interrupted => ConnectsOnce)
  <2>1. Types => DOMAIN told = 1 .. Len(told)
    BY LenProperties DEF Types, RecvOK
  <2> QED BY <2>1 DEF LateInv, Clean, TellsOnce, ConnectsOnce
<1> QED BY <1>1, LateAlways, PTL

-----------------------------------------------------------------------------
(* An interrupted session *)

\* It has ended, and handles one message at a time; a session that has ended
\* otherwise receives nothing; one that has not ended can still be interrupted.
HalfStopped ==
    /\ interrupted \subseteq 1 .. session
    /\ session \in interrupted => halt /\ Len(inbox) <= 1
    /\ (halt /\ session \notin interrupted) => transport # "up"
    /\ ~halt => fatal # "unhandled"

\* Messages still come.
Takes == halt => session \in interrupted

LEMMA StopsWhole ==
  ASSUME HalfStopped, NEW f, NEW t, f # "unhandled", StopWith(f, t)
  PROVE  interrupted' = interrupted
  BY DEF HalfStopped, StopWith

\* No message interrupts the session.
LEMMA HandledKeeps ==
  ASSUME HalfStopped, ControlRecv
  PROVE  interrupted' = interrupted
<1>1. \/ \E f \in {"undef", "other", "auth_failed", "session_expired"} : \E t : StopWith(f, t)
      \/ interrupted' = interrupted
  <2>1. CASE PushReplyCompletes
    <3>1. (\E outcome : \E t : StopWith(Reason(outcome), t)) \/ interrupted' = interrupted
      BY <2>1 DEF PushReplyCompletes, Connect
    <3>2. \A outcome : Reason(outcome) \in {"undef", "other"}
      BY DEF Reason
    <3> QED BY <3>1, <3>2
  <2>2. CASE RecvAuthFailed
    <3>1. \E f \in {"undef", "auth_failed", "session_expired"} : StopFor(f)
      BY <2>2 DEF RecvAuthFailed
    <3> QED BY <3>1 DEF StopFor
  <2>3. CASE RecvHaltRestart
    BY <2>3 DEF RecvHaltRestart, StopFor
  <2>4. CASE RecvPushReply \/ RecvPushUpdate \/ RecvAuthPending \/ RecvInfo \/ RecvInfoPre
    <3>1. StopFor("undef") \/ UNCHANGED stopOther
      BY <2>4 DEF RecvPushReply, RecvPushUpdate, RecvAuthPending, RecvInfo, RecvInfoPre
    <3> QED BY <3>1 DEF StopFor, stopOther
  <2> QED BY <2>1, <2>2, <2>3, <2>4 DEF ControlRecv
<1> QED BY <1>1, StopsWhole

\* Only a step that handles no message interrupts it.
LEMMA InterruptsIdle ==
  ASSUME Types, HalfStopped, [Next]_vars, session \in interrupted', session \notin interrupted
  PROVE  inbox = <<>> /\ inbox' = inbox
<1>1. interrupted' # interrupted
  OBVIOUS
<1>2. CASE Authenticate \/ Fails \/ TunSendFails \/ KeyContextFails
  BY <1>2 DEF Authenticate, Fails, TunSendFails, KeyContextFails, Alive, Reads, Idle, stopKeeps
<1>3. CASE ControlRecv
  BY <1>1, <1>3, HandledKeeps
<1>4. CASE TransportConnecting \/ Active \/ TransportFails \/ TransportRecv \/ TunBytes \/ ClientStops
           \/ UNCHANGED vars
  BY <1>1, <1>4 DEF TransportConnecting, Active, TransportFails, TransportRecv, TunBytes, ClientStops,
     vars, objectVars
<1>5. CASE NewClient
  BY <1>5 DEF NewClient
<1>6. ASSUME NEW s \in Sessions, NEW t \in Timers, ResetInactiveTimer(s) \/ Handler(s, t)
      PROVE  inbox = <<>> /\ inbox' = inbox
  BY <1>1, <1>6 DEF ResetInactiveTimer, Handler, HandlerIgnored, SendPushRequest, InfoHoldCallback,
     InactiveCallback, Handles, Idle, stopKeeps, callbackOther, objectVars
<1>7. "inactive" \in Timers
  BY DEF Timers
<1> QED BY <1>2, <1>3, <1>4, <1>5, <1>6, <1>7 DEF Next

\* What a step does to what an interrupted session has and the reason it ends for.
LEMMA NextStops ==
  ASSUME Types, HalfStopped, [Next]_vars, ~NewClient
  PROVE  /\ ~halt' => fatal' = fatal
         /\ (halt' /\ session \notin interrupted') => transport' # "up"
<1>1. ASSUME StopDone
      PROVE  /\ ~halt' => fatal' = fatal
             /\ (halt' /\ session \notin interrupted') => transport' # "up"
  BY <1>1 DEF StopDone, HalfStopped
<1>2. ASSUME UNCHANGED <<halt, interrupted, fatal>>, transport' = transport \/ ~halt \/ transport' = "stopped"
      PROVE  /\ ~halt' => fatal' = fatal
             /\ (halt' /\ session \notin interrupted') => transport' # "up"
  BY <1>2 DEF HalfStopped
<1>3. CASE TransportConnecting \/ Active \/ TransportRecv \/ TunBytes \/ TransportFails \/ UNCHANGED vars
  BY <1>2, <1>3 DEF TransportConnecting, Alive, Active, TransportRecv, TunBytes, TransportFails, vars, objectVars
<1>5. CASE Authenticate
  <2>1. StopFor("need_creds") \/ UNCHANGED <<halt, interrupted, fatal, transport>>
    BY <1>5 DEF Authenticate, ClientAuth
  <2> QED BY <1>1, <1>2, <2>1, StopForEnds
<1>6. CASE Fails \/ TunSendFails
  <2>1. \E f : StopFor(f)
    BY <1>6 DEF Fails, TunSendFails
  <2> QED BY <1>1, <2>1, StopForEnds
<1>7. CASE KeyContextFails
  BY <1>7 DEF KeyContextFails
<1>8. CASE ControlRecv
  <2>1. CASE PushReplyCompletes
    <3>1. tun[session] \in TunState /\ session \in Sessions
      BY DEF Types, StopOK, RestOK
    <3>2. (\E t \in TunState : \E f : StopWith(f, t)) \/ UNCHANGED <<halt, interrupted, fatal, transport>>
      <4>1. PICK outcome \in Outcomes :
              \/ \E t \in TunState : StopWith(Reason(outcome), t)
              \/ UNCHANGED <<halt, interrupted, fatal, transport>>
        BY <2>1, <3>1 DEF PushReplyCompletes, Connect, TunState
      <4> QED BY <4>1
    <3>3. CASE \E t \in TunState : \E f : StopWith(f, t)
      <4>1. PICK t \in TunState : \E f : StopWith(f, t)
        BY <3>3
      <4>2. PICK f : StopWith(f, t)
        BY <4>1
      <4>3. StopDone
        BY <3>1, <4>2, StopEnds DEF Types
      <4> QED BY <1>1, <4>3
    <3> QED BY <1>2, <3>2, <3>3
  <2>2. CASE ~PushReplyCompletes
    <3>1. (\E f : StopFor(f)) \/ UNCHANGED stopOther
      BY <1>8, <2>2 DEF ControlRecv, RecvPushReply, RecvPushUpdate, RecvAuthFailed,
         RecvHaltRestart, RecvAuthPending, RecvInfo, RecvInfoPre
    <3>2. CASE UNCHANGED stopOther
      BY <1>2, <3>2 DEF stopOther
    <3> QED BY <1>1, <3>1, <3>2, StopForEnds
  <2> QED BY <2>1, <2>2
<1>9. ASSUME NEW s \in Sessions, NEW t \in Timers, ResetInactiveTimer(s) \/ Handler(s, t)
      PROVE  StopFor("other") \/ UNCHANGED <<halt, interrupted, fatal, transport>>
  BY <1>9 DEF ResetInactiveTimer, Handler, HandlerIgnored, SendPushRequest, InfoHoldCallback,
     InactiveCallback, callbackOther, objectVars
<1>10. ASSUME NEW s \in Sessions, NEW t \in Timers, ResetInactiveTimer(s) \/ Handler(s, t)
       PROVE  /\ ~halt' => fatal' = fatal
              /\ (halt' /\ session \notin interrupted') => transport' # "up"
  BY <1>1, <1>2, <1>9, <1>10, StopForEnds
<1>11. CASE ClientStops
  BY <1>11 DEF ClientStops, HalfStopped
<1>12. "inactive" \in Timers
  BY DEF Timers
<1> QED BY <1>3, <1>5, <1>6, <1>7, <1>8, <1>10, <1>11, <1>12 DEF Next

LEMMA NextHalfStopped ==
  ASSUME Types, HalfStopped, [Next]_vars
  PROVE  HalfStopped'
<1>1. session \in Nat \ {0} /\ halt \in BOOLEAN /\ halt' \in BOOLEAN
  BY NextTypes DEF Types, StopOK, RestOK, Sessions
<1>2. CASE NewClient
  <2>1. session' = session + 1 /\ halt' = FALSE /\ fatal' = "undef" /\ interrupted' \subseteq interrupted
    BY <1>2 DEF NewClient
  <2>2. interrupted' \subseteq 1 .. session' /\ session' \notin interrupted'
    BY <1>1, <2>1 DEF HalfStopped
  <2> QED BY <2>1, <2>2 DEF HalfStopped
<1>3. CASE ~NewClient
  <2>1. Kept
    BY <1>3, NextKeeps
  <2>2. interrupted' \subseteq 1 .. session'
    BY <1>1, <2>1 DEF Kept, HalfStopped
  <2>3. session \in interrupted' => halt' = TRUE
    BY <1>1, <2>1 DEF Kept, HalfStopped
  <2>4. ASSUME session \in interrupted' PROVE Len(inbox') <= 1
    <3>1. CASE session \notin interrupted
      <4>1. Len(inbox') = 0
        BY <2>4, <3>1, InterruptsIdle
      <4> QED BY <4>1
    <3>2. CASE session \in interrupted
      <4>1. Len(inbox) <= 1 /\ halt /\ Len(inbox) \in Nat
        BY <3>2, LenProperties DEF HalfStopped, Types, InboxOK
      <4>2. CASE inbox # <<>> /\ inbox' = Tail(inbox)
        BY <4>1, <4>2, TailOfInbox
      <4>3. CASE inbox' = <<>>
        <5>1. Len(inbox') = 0
          BY <4>3
        <5> QED BY <5>1
      <4>4. CASE TransportRecv
        <5>1. PICK m : Brings(m) /\ (SaysReply(m) \/ SaysUpdate(m) \/ SaysOther(m))
          BY <4>4, ServerSays DEF TransportRecv
        <5>2. Len(inbox') = Len(inbox) + 1
          BY <5>1, SaysTypes, GrowsInbox
        <5>3. Len(inbox) < 1
          BY <4>1, <4>4 DEF TransportRecv
        <5> QED BY <4>1, <5>2, <5>3
      <4> QED BY <4>1, <4>2, <4>3, <4>4, InboxMoves
    <3> QED BY <3>1, <3>2
  <2>5. ~halt' => fatal' # "unhandled"
    <3>1. ASSUME ~halt' PROVE ~halt
      <4>1. halt' = FALSE
        BY <1>1, <3>1
      <4>2. halt => (halt' = TRUE \/ halt' = halt)
        BY <2>1 DEF Kept
      <4> QED BY <1>1, <4>1, <4>2
    <3> QED BY <1>3, <3>1, NextStops DEF HalfStopped
  <2>6. (halt' /\ session \notin interrupted') => transport' # "up"
    BY <1>3, NextStops
  <2>7. session' = session
    BY <2>1 DEF Kept
  <2> QED BY <2>2, <2>3, <2>4, <2>5, <2>6, <2>7 DEF HalfStopped
<1> QED BY <1>2, <1>3

LEMMA NextTakes ==
  ASSUME Types, [Next]_vars, session' = session, Takes'
  PROVE  Takes
<1>1. session \in Nat /\ halt \in BOOLEAN
  BY DEF Types, StopOK, RestOK, Sessions
<1>2. ~NewClient
  BY <1>1 DEF NewClient
<1> QED BY <1>1, <1>2, NextKeeps DEF Kept, Takes

-----------------------------------------------------------------------------
(* The INFO messages *)

IsInfo(m) == m.kind = "info"

\* The client has been told of the messages 1 .. n, those up to m are held back,
\* and the others are still to be handled, unless no messages come any more.
ToldUpTo(n) ==
    /\ \A i \in 1 .. Len(told) :
         /\ told[i] \in 0 .. n
         /\ told[i] # Connected =>
            /\ \A j \in 1 .. i - 1 : told[j] < told[i]
            /\ \A k \in 1 .. told[i] : \E j \in 1 .. i : told[j] = k
    /\ \A k \in 1 .. n : \E i \in 1 .. Len(told) : told[i] = k
HeldUpTo(n, m) ==
    IF info_hold = Released THEN m = n
    ELSE Len(info_hold) = m - n /\ \A i \in 1 .. Len(info_hold) : info_hold[i] = n + i
ComeAfter(m) ==
    /\ \A i \in 1 .. Len(inbox) : IsInfo(inbox[i]) =>
         /\ inbox[i].id \in m + 1 .. infos
         /\ \A j \in 1 .. i - 1 : IsInfo(inbox[j]) => inbox[j].id < inbox[i].id
         /\ \A k \in m + 1 .. inbox[i].id : \E j \in 1 .. i : IsInfo(inbox[j]) /\ inbox[j].id = k
    /\ Takes => \A k \in m + 1 .. infos : \E j \in 1 .. Len(inbox) : IsInfo(inbox[j]) /\ inbox[j].id = k
Placed(n, m) == n <= m /\ m <= infos /\ ToldUpTo(n) /\ HeldUpTo(n, m) /\ ComeAfter(m)

\* The hold is released, and its timer runs, only once the session is connected.
HoldFollows ==
    /\ told # <<>> => told[1] = Connected
    /\ info_hold = Released \/ "info_hold" \in armed[session] => told # <<>>
    /\ \A s \in Sessions : s > session => "info_hold" \notin armed[s]

InfoInv == HoldFollows /\ \E n, m \in Nat : Placed(n, m)

LEMMA InfoIds ==
  ASSUME Types, NEW i \in 1 .. Len(inbox), IsInfo(inbox[i])
  PROVE  inbox[i].id \in Nat
<1>1. inbox[i] \in Messages
  BY ElementOfSeq DEF Types, InboxOK
<1>2. inbox[i] \in Info
  BY <1>1 DEF Messages, Reply, Update, AuthFailed, HaltRestart, Inform, Info, IsInfo
<1> QED BY <1>2, BoundsArePositive DEF Info

\* The first message is handled: it was the next INFO message, if it was one.
LEMMA TakesInfo ==
  ASSUME Types, Shifted, infos' = infos, Takes' => Takes, NEW m \in Nat, NEW next \in Nat, ComeAfter(m),
         next = IF IsInfo(inbox[1]) THEN inbox[1].id ELSE m
  PROVE  /\ IsInfo(inbox[1]) => next = m + 1 /\ next <= infos
         /\ ComeAfter(next)'
<1> DEFINE n == Len(inbox)
           Num(i, k) == IsInfo(inbox[i]) /\ inbox[i].id = k
<1>1. n \in Nat \ {0} /\ Len(inbox') = n - 1 /\ infos \in Nat /\ infos' = infos
  BY BoundsArePositive DEF Shifted, Types, RestOK
<1>2. /\ \A i \in 1 .. n - 1 : \E k \in 2 .. n : k = i + 1 /\ inbox'[i] = inbox[k]
      /\ \A k \in 2 .. n : k - 1 \in 1 .. n - 1 /\ inbox'[k - 1] = inbox[k]
  BY <1>1, ShiftedBack DEF Shifted
<1>3. \A i \in 1 .. n : IsInfo(inbox[i]) =>
         /\ inbox[i].id \in m + 1 .. infos
         /\ \A j \in 1 .. i - 1 : IsInfo(inbox[j]) => inbox[j].id < inbox[i].id
         /\ \A k \in m + 1 .. inbox[i].id : \E j \in 1 .. i : Num(j, k)
  BY DEF ComeAfter
<1>4. Takes => \A k \in m + 1 .. infos : \E j \in 1 .. n : Num(j, k)
  BY DEF ComeAfter
<1>5. 1 \in 1 .. n
  BY <1>1
<1>6. ASSUME IsInfo(inbox[1])
      PROVE  next = m + 1 /\ next <= infos
  <2>1. next \in m + 1 .. infos /\ next = inbox[1].id
    BY <1>3, <1>5, <1>6
  <2>2. m + 1 \in m + 1 .. inbox[1].id
    BY <2>1
  <2>3. \E j \in 1 .. 1 : Num(j, m + 1)
    BY <1>3, <1>5, <1>6, <2>2
  <2> QED BY <2>1, <2>3
<1>7. next >= m /\ \A k : Num(1, k) => k = next
  BY <1>6
<1>8. ASSUME NEW i \in 1 .. n - 1, IsInfo(inbox'[i])
      PROVE  /\ inbox'[i].id \in next + 1 .. infos
             /\ \A j \in 1 .. i - 1 : IsInfo(inbox'[j]) => inbox'[j].id < inbox'[i].id
             /\ \A x \in next + 1 .. inbox'[i].id :
                  \E j \in 1 .. i : IsInfo(inbox'[j]) /\ inbox'[j].id = x
  <2>1. PICK k \in 2 .. n : k = i + 1 /\ inbox'[i] = inbox[k]
    BY <1>2
  <2>2. k \in 1 .. n /\ IsInfo(inbox[k]) /\ 1 \in 1 .. k - 1
    BY <1>1, <1>8, <2>1
  <2>3. inbox[k].id \in m + 1 .. infos /\ (IsInfo(inbox[1]) => inbox[1].id < inbox[k].id)
    BY <1>3, <2>2
  <2>4. inbox'[i].id \in next + 1 .. infos
    BY <2>1, <2>3
  <2>5. ASSUME NEW j \in 1 .. i - 1, IsInfo(inbox'[j])
        PROVE  inbox'[j].id < inbox'[i].id
    <3>1. j \in 1 .. n - 1
      BY <1>1
    <3>2. PICK l \in 2 .. n : l = j + 1 /\ inbox'[j] = inbox[l]
      BY <1>2, <3>1
    <3>3. l \in 1 .. k - 1
      BY <2>1, <3>2
    <3> QED BY <1>3, <2>1, <2>2, <2>5, <3>2, <3>3
  <2>6. ASSUME NEW x \in next + 1 .. inbox'[i].id
        PROVE  \E j \in 1 .. i : IsInfo(inbox'[j]) /\ inbox'[j].id = x
    <3>1. x \in m + 1 .. inbox[k].id /\ x # next
      BY <1>7, <2>1, <2>3
    <3>2. PICK j \in 1 .. k : Num(j, x)
      BY <1>3, <2>2, <3>1
    <3>3. j # 1
      BY <1>7, <3>1, <3>2
    <3>4. j \in 2 .. n /\ j - 1 \in 1 .. i
      BY <2>1, <3>3
    <3> QED BY <1>2, <3>2, <3>4
  <2> QED BY <2>4, <2>5, <2>6
<1>9. ASSUME Takes', NEW x \in next + 1 .. infos
      PROVE  \E j \in 1 .. n - 1 : IsInfo(inbox'[j]) /\ inbox'[j].id = x
  <2>1. x \in m + 1 .. infos /\ x # next
    BY <1>1, <1>7
  <2>2. PICK j \in 1 .. n : Num(j, x)
    BY <1>4, <1>9, <2>1
  <2>3. j # 1
    BY <1>7, <2>1, <2>2
  <2>4. j \in 2 .. n
    BY <2>3
  <2> QED BY <1>2, <2>2, <2>4
<1> QED BY <1>1, <1>6, <1>8, <1>9 DEF ComeAfter, IsInfo

\* The server sends one message more, if an INFO message the next one.
LEMMA BringsInfo ==
  ASSUME Types, NEW x \in Messages, Brings(x), Takes, NEW m \in Nat, ComeAfter(m), m <= infos,
         \/ ~IsInfo(x) /\ infos' = infos
         \/ IsInfo(x) /\ infos' = infos + 1 /\ x.id = infos'
  PROVE  ComeAfter(m)'
<1> DEFINE n == Len(inbox)
<1>1. /\ n \in Nat /\ Len(inbox') = n + 1 /\ inbox'[n + 1] = x
      /\ \A i \in 1 .. n : inbox'[i] = inbox[i]
  BY GrowsInbox
<1>2. infos \in Nat /\ infos' \in Nat /\ infos <= infos'
  BY BoundsArePositive DEF Types, RestOK
<1>3. \A k \in m + 1 .. infos : \E j \in 1 .. n : IsInfo(inbox[j]) /\ inbox[j].id = k
  BY DEF ComeAfter
<1>4. \A k \in m + 1 .. infos' : \E j \in 1 .. n + 1 : IsInfo(inbox'[j]) /\ inbox'[j].id = k
  <2> SUFFICES ASSUME NEW k \in m + 1 .. infos'
               PROVE  \E j \in 1 .. n + 1 : IsInfo(inbox'[j]) /\ inbox'[j].id = k
    OBVIOUS
  <2>1. CASE k \in m + 1 .. infos
    BY <1>1, <1>3, <2>1
  <2>2. CASE k \notin m + 1 .. infos
    <3>1. k = infos' /\ IsInfo(x) /\ x.id = k
      BY <1>2, <2>2
    <3> QED BY <1>1, <3>1
  <2> QED BY <2>1, <2>2
<1>5. ASSUME NEW i \in 1 .. n, IsInfo(inbox'[i])
      PROVE  /\ inbox'[i].id \in m + 1 .. infos /\ inbox'[i].id \in m + 1 .. infos'
             /\ \A j \in 1 .. i - 1 : IsInfo(inbox'[j]) => inbox'[j].id < inbox'[i].id
             /\ \A k \in m + 1 .. inbox'[i].id : \E j \in 1 .. i : IsInfo(inbox'[j]) /\ inbox'[j].id = k
  <2>1. \A j \in 1 .. i : j \in 1 .. n /\ inbox'[j] = inbox[j]
    BY <1>1
  <2>2. /\ inbox[i].id \in m + 1 .. infos
        /\ \A j \in 1 .. i - 1 : IsInfo(inbox[j]) => inbox[j].id < inbox[i].id
        /\ \A k \in m + 1 .. inbox[i].id : \E j \in 1 .. i : IsInfo(inbox[j]) /\ inbox[j].id = k
    BY <1>1, <1>5 DEF ComeAfter
  <2>3. \A j \in 1 .. i - 1 : j \in 1 .. i
    OBVIOUS
  <2>4. inbox'[i] = inbox[i]
    BY <1>1
  <2>5. \A j \in 1 .. i - 1 : IsInfo(inbox'[j]) => inbox'[j].id < inbox'[i].id
    BY <2>1, <2>2, <2>3, <2>4
  <2>6. \A k \in m + 1 .. inbox'[i].id : \E j \in 1 .. i : IsInfo(inbox'[j]) /\ inbox'[j].id = k
    BY <2>1, <2>2, <2>4
  <2> QED BY <1>2, <2>2, <2>4, <2>5, <2>6
<1>6. ASSUME IsInfo(x)
      PROVE  /\ x.id \in m + 1 .. infos'
             /\ \A j \in 1 .. n : IsInfo(inbox'[j]) => inbox'[j].id < x.id
  BY <1>2, <1>5, <1>6
<1>7. \A i \in 1 .. n + 1 : i \in 1 .. n \/ i = n + 1
  BY <1>1
<1> QED BY <1>1, <1>2, <1>4, <1>5, <1>6, <1>7 DEF ComeAfter, IsInfo

\* The client is told of CONNECTED, or of the next INFO messages.
LEMMA TellsNext ==
  ASSUME Types, NEW n \in Nat, NEW m \in Nat, n <= m, ToldUpTo(n),
         NEW e \in Seq(Events), told' = told \o e,
         \/ e = <<Connected>> /\ m = n
         \/ Len(e) = m - n /\ \A i \in 1 .. Len(e) : e[i] = n + i
  PROVE  ToldUpTo(m)'
<1> DEFINE t == Len(told)
<1>1. told \in Seq(Events) /\ t \in Nat /\ Len(e) \in Nat
  BY LenProperties DEF Types, RecvOK
<1>2. /\ Len(told') = t + Len(e)
      /\ \A i \in 1 .. t + Len(e) : told'[i] = IF i <= t THEN told[i] ELSE e[i - t]
  BY <1>1, ConcatProperties
<1>3. \A i \in 1 .. t : told'[i] = told[i]
  BY <1>1, <1>2
<1>4. \A i \in 1 .. Len(e) : t + i \in 1 .. t + Len(e) /\ told'[t + i] = e[i]
  BY <1>1, <1>2
<1>5. \A i \in 1 .. t + Len(e) : i \in 1 .. t \/ \E j \in 1 .. Len(e) : i = t + j
  <2> SUFFICES ASSUME NEW i \in 1 .. t + Len(e), i \notin 1 .. t
               PROVE  \E j \in 1 .. Len(e) : i = t + j
    OBVIOUS
  <2> WITNESS i - t \in 1 .. Len(e)
  <2> QED BY <1>1
<1>6. /\ \A i \in 1 .. t :
           /\ told[i] \in 0 .. n
           /\ told[i] # Connected =>
              /\ \A j \in 1 .. i - 1 : told[j] < told[i]
              /\ \A k \in 1 .. told[i] : \E j \in 1 .. i : told[j] = k
      /\ \A k \in 1 .. n : \E i \in 1 .. t : told[i] = k
  BY DEF ToldUpTo
<1>7. ASSUME NEW i \in 1 .. t
      PROVE  /\ told'[i] \in 0 .. n
             /\ told'[i] # Connected =>
                /\ \A j \in 1 .. i - 1 : told'[j] < told'[i]
                /\ \A k \in 1 .. told'[i] : \E j \in 1 .. i : told'[j] = k
  <2>1. \A j \in 1 .. i : told'[j] = told[j]
    BY <1>1, <1>3
  <2>2. (\A j \in 1 .. i - 1 : j \in 1 .. i) /\ told'[i] = told[i]
    BY <1>3
  <2> QED BY <1>6, <2>1, <2>2
<1>8. \A k \in 1 .. n : \E i \in 1 .. t : told'[i] = k
  BY <1>3, <1>6
<1>9. CASE e = <<Connected>> /\ m = n
  <2>1. Len(e) = 1 /\ e[1] = Connected
    BY <1>9
  <2>2. Len(told') = t + 1 /\ told'[t + 1] = Connected
    BY <1>1, <1>2, <1>4, <2>1
  <2>3. \A i \in 1 .. t + 1 : i \in 1 .. t \/ i = t + 1
    BY <1>1
  <2>4. \A i \in 1 .. t + 1 :
          /\ told'[i] \in 0 .. n
          /\ told'[i] # Connected =>
             /\ \A j \in 1 .. i - 1 : told'[j] < told'[i]
             /\ \A k \in 1 .. told'[i] : \E j \in 1 .. i : told'[j] = k
    BY <1>7, <2>2, <2>3 DEF Connected
  <2>5. \A i \in 1 .. t : i \in 1 .. t + 1
    BY <1>1
  <2> QED BY <1>8, <1>9, <2>2, <2>4, <2>5 DEF ToldUpTo
<1>10. CASE Len(e) = m - n /\ \A i \in 1 .. Len(e) : e[i] = n + i
  <2>1. \A i \in 1 .. m - n : told'[t + i] = n + i
    BY <1>4, <1>10
  <2>2. \A k \in 1 .. m : k \in 1 .. n \/ k - n \in 1 .. m - n
    OBVIOUS
\* Each number up to that of a place has been told by then.
  <2>3. ASSUME NEW i \in 1 .. m - n, NEW k \in 1 .. n + i
        PROVE  \E j \in 1 .. t + i : told'[j] = k
    <3>1. CASE k \in 1 .. n
      <4>1. PICK j \in 1 .. t : told'[j] = k
        BY <1>8, <3>1
      <4>2. j \in 1 .. t + i
        BY <1>1
      <4> QED BY <4>1, <4>2
    <3>2. CASE k \notin 1 .. n
      <4>1. k - n \in 1 .. m - n /\ t + (k - n) \in 1 .. t + i /\ n + (k - n) = k
        BY <1>1, <3>2
      <4> QED BY <2>1, <4>1
    <3> QED BY <3>1, <3>2
  <2>4. ASSUME NEW i \in 1 .. m - n, NEW j \in 1 .. (t + i) - 1
        PROVE  told'[j] < n + i
    <3>1. CASE j \in 1 .. t
      <4>1. told'[j] \in 0 .. n
        BY <1>7, <3>1
      <4> QED BY <4>1
    <3>2. CASE j \notin 1 .. t
      <4>1. j - t \in 1 .. m - n /\ t + (j - t) = j /\ j - t < i
        BY <1>1, <3>2
      <4>2. told'[j] = n + (j - t)
        BY <2>1, <4>1
      <4> QED BY <4>1, <4>2
    <3> QED BY <3>1, <3>2
  <2>5. ASSUME NEW i \in 1 .. t + Len(e)
        PROVE  /\ told'[i] \in 0 .. m
               /\ told'[i] # Connected =>
                  /\ \A j \in 1 .. i - 1 : told'[j] < told'[i]
                  /\ \A k \in 1 .. told'[i] : \E j \in 1 .. i : told'[j] = k
    <3>1. CASE i \in 1 .. t
      <4>1. 0 .. n \subseteq 0 .. m
        OBVIOUS
      <4> QED BY <1>7, <3>1, <4>1
    <3>2. CASE i \notin 1 .. t
      <4>1. PICK l \in 1 .. m - n : i = t + l
        BY <1>5, <1>10, <3>2
      <4>2. told'[i] = n + l /\ n + l \in 0 .. m
        BY <2>1, <4>1
      <4> QED BY <2>3, <2>4, <4>1, <4>2
    <3> QED BY <3>1, <3>2
  <2>6. ASSUME NEW k \in 1 .. m
        PROVE  \E i \in 1 .. t + Len(e) : told'[i] = k
    <3>1. CASE k \in 1 .. n
      BY <1>1, <1>8, <3>1
    <3>2. CASE k \notin 1 .. n
      <4>1. k - n \in 1 .. m - n /\ t + (k - n) \in 1 .. t + Len(e) /\ n + (k - n) = k
        BY <1>1, <1>10, <3>2
      <4> QED BY <2>1, <4>1
    <3> QED BY <3>1, <3>2
  <2> QED BY <1>2, <2>5, <2>6 DEF ToldUpTo
<1> QED BY <1>9, <1>10

LEMMA InfoSays ==
  ASSUME Types, ServerReplies \/ ServerUpdates \/ ServerEnds \/ ServerInforms
  PROVE  \E x \in Messages :
            /\ Brings(x)
            /\ \/ ~IsInfo(x) /\ infos' = infos
               \/ IsInfo(x) /\ infos' = infos + 1 /\ x.id = infos'
<1>1. infos \in 0 .. MaxInfos /\ MaxInfos \in Nat
  BY BoundsArePositive DEF Types, RestOK
<1>2. ASSUME NEW x \in Reply \cup Update \cup AuthFailed \cup HaltRestart, NEW next, Says(x, next), infos' = infos
      PROVE  \E y \in Messages : Brings(y) /\ ~IsInfo(y) /\ infos' = infos
  <2>1. x \in Messages /\ ~IsInfo(x)
    BY DEF Messages, Reply, Update, AuthFailed, HaltRestart, IsInfo
  <2> QED BY <1>2, <2>1 DEF Says, Brings
<1>4. CASE ServerReplies
  <2>1. PICK more \in BOOLEAN, bad \in BOOLEAN, t \in NewToken :
           \E next : Says([kind |-> "push_reply", more |-> more, rejected |-> bad, token |-> t], next)
    BY <1>4 DEF ServerReplies
  <2>2. [kind |-> "push_reply", more |-> more, rejected |-> bad, token |-> t] \in Reply
    BY DEF Reply, NewToken
  <2> QED BY <1>2, <1>4, <2>1, <2>2 DEF ServerReplies
<1>5. CASE ServerUpdates
  <2>1. PICK more \in BOOLEAN, bad \in BOOLEAN :
           \E next : Says([kind |-> "push_update", more |-> more, rejected |-> bad], next)
    BY <1>5 DEF ServerUpdates
  <2>2. [kind |-> "push_update", more |-> more, rejected |-> bad] \in Update
    BY DEF Update
  <2> QED BY <1>2, <1>5, <2>1, <2>2 DEF ServerUpdates
<1>6. CASE ServerEnds
  <2>1. \A temp \in BOOLEAN : [kind |-> "auth_failed", temp |-> temp] \in AuthFailed
    BY DEF AuthFailed
  <2>2. \A f \in {"halt", "restart"}, psid \in BOOLEAN : [kind |-> f, psid |-> psid] \in HaltRestart
    BY DEF HaltRestart
  <2> QED BY <1>2, <1>6, <2>1, <2>2 DEF ServerEnds
<1>3. CASE ServerInforms
  <2>1. CASE /\ infos < MaxInfos /\ infos' = infos + 1
             /\ Says([kind |-> "info", id |-> infos'], server)
    <3>1. infos' \in 1 .. MaxInfos
      BY <1>1, <2>1
    <3>2. PICK x : x = [kind |-> "info", id |-> infos']
      OBVIOUS
    <3>3. x \in Messages /\ IsInfo(x) /\ x.id = infos'
      BY <3>1, <3>2 DEF Messages, Info, IsInfo
    <3> QED BY <2>1, <3>2, <3>3 DEF Says, Brings
  <2>2. CASE /\ UNCHANGED infos
             /\ \/ Says([kind |-> "info_pre"], server)
                \/ Says([kind |-> "auth_pending"], server)
    <3>1. PICK x : Brings(x) /\ x \in {[kind |-> "info_pre"], [kind |-> "auth_pending"]}
      BY <2>2 DEF Says, Brings
    <3>2. x \in Messages /\ ~IsInfo(x)
      BY <3>1 DEF Messages, Inform, IsInfo
    <3> QED BY <2>2, <3>1, <3>2
  <2> QED BY <1>3, <2>1, <2>2 DEF ServerInforms
<1> QED BY <1>3, <1>4, <1>5, <1>6

\* stop() arms no timer.
LEMMA StopArms ==
  ASSUME StopOK, session \in Sessions, NEW f, NEW t, StopWith(f, t)
  PROVE  halt' = TRUE /\ \A s \in Sessions : armed'[s] \subseteq armed[s]
  BY DEF StopOK, StopWith, CancelTimers

LEMMA StopForArms ==
  ASSUME Types, NEW f, StopFor(f)
  PROVE  halt' = TRUE /\ \A s \in Sessions : armed'[s] \subseteq armed[s]
<1>1. StopOK /\ session \in Sessions
  BY DEF Types, RestOK
<1> QED BY <1>1, StopArms DEF StopFor

\* What handling a message does: a timer of the hold starts only where the client
\* is told that it is connected.
Tells(e) == told' = Append(told, e)

LEMMA HandledTells ==
  ASSUME Types, ControlRecv
  PROVE  /\ inbox # <<>> /\ UNCHANGED <<session, infos>> /\ (halt => halt')
         /\ inbox' = Tail(inbox) \/ (inbox' = <<>> /\ halt')
         /\ \/ RecvInfo /\ inbox' = Tail(inbox) /\ armed' = armed
            \/ /\ ~IsInfo(Head(inbox)) /\ info_hold' = info_hold
               /\ \/ Tells(Connected)
                  \/ told' = told /\ \A s \in Sessions : armed'[s] \subseteq armed[s]
               /\ \A s \in Sessions \ {session} : armed'[s] \subseteq armed[s]
<1>1. StopOK /\ session \in Sessions
  BY DEF Types, RestOK
<1>2. CASE RecvPushReply
  <2>1. \/ StopFor("undef") /\ told' = told
        \/ UNCHANGED <<told, stopOther>>
    BY <1>2 DEF RecvPushReply
  <2>2. told' = told /\ (halt => halt') /\ \A s \in Sessions : armed'[s] \subseteq armed[s]
    <3>1. CASE StopFor("undef") /\ told' = told
      BY <3>1, StopForArms
    <3>2. CASE UNCHANGED <<told, stopOther>>
      BY <3>2 DEF stopOther
    <3> QED BY <2>1, <3>1, <3>2
  <2> QED BY <1>2, <2>2 DEF RecvPushReply, Message, recvOther, serverVars, IsInfo
<1>3. CASE PushReplyCompletes
  <2>1. /\ inbox # <<>> /\ UNCHANGED <<session, infos>> /\ info_hold' = info_hold
        /\ Head(inbox).kind = "push_reply"
    BY <1>3 DEF PushReplyCompletes, recvOther, serverVars
  <2>2. PICK outcome \in Outcomes :
          LET tunUp == outcome \in {"no_data_channel", "compress_error", "ok"}
              returns == outcome = "ok" \/ (outcome = "tun_setup_failed" /\ connected)
          IN
          /\ told' = IF returns \/ outcome = "compress_error" THEN Append(told, Connected) ELSE told
          /\ inbox' = IF returns THEN Tail(inbox) ELSE <<>>
          /\ IF outcome # "ok"
             THEN StopWith(Reason(outcome),
                           IF tunUp THEN "up"
                           ELSE IF outcome = "tun_setup_failed" THEN "stopped" ELSE tun[session])
             ELSE /\ \E inactive \in SUBSET {"inactive"} :
                       armed' = [armed EXCEPT ![session] = @ \cup {"info_hold"} \cup inactive]
                  /\ UNCHANGED <<fatal, halt, transport, over>>
    BY <1>3 DEF PushReplyCompletes, Connect
  <2>3. CASE outcome = "ok"
    <3>1. inbox' = Tail(inbox) /\ halt' = halt /\ Tells(Connected)
      BY <2>2, <2>3 DEF Tells
    <3>2. \A s \in Sessions \ {session} : armed'[s] \subseteq armed[s]
      BY <1>1, <2>2, <2>3 DEF StopOK
    <3> QED BY <2>1, <3>1, <3>2 DEF IsInfo
  <2>4. CASE outcome # "ok"
    <3>1. PICK t : StopWith(Reason(outcome), t)
      BY <2>2, <2>4
    <3>2. halt' = TRUE /\ \A s \in Sessions : armed'[s] \subseteq armed[s]
      BY <1>1, <3>1, StopArms
    <3>3. (inbox' = Tail(inbox) \/ inbox' = <<>>) /\ (Tells(Connected) \/ told' = told)
      BY <2>2 DEF Tells
    <3> QED BY <2>1, <3>2, <3>3 DEF IsInfo
  <2> QED BY <2>3, <2>4
<1>4. CASE RecvPushUpdate
  <2>1. \/ StopFor("undef") /\ inbox' = <<>>
        \/ inbox' = Tail(inbox) /\ UNCHANGED stopOther
    BY <1>4 DEF RecvPushUpdate
  <2>2. /\ (halt => halt') /\ \A s \in Sessions : armed'[s] \subseteq armed[s]
        /\ inbox' = Tail(inbox) \/ (inbox' = <<>> /\ halt')
    <3>1. CASE StopFor("undef") /\ inbox' = <<>>
      BY <3>1, StopForArms
    <3>2. CASE inbox' = Tail(inbox) /\ UNCHANGED stopOther
      BY <3>2 DEF stopOther
    <3> QED BY <2>1, <3>1, <3>2
  <2> QED BY <1>4, <2>2 DEF RecvPushUpdate, recvOther, serverVars, IsInfo
<1>5. CASE RecvAuthFailed
  <2>1. \E f : StopFor(f)
    BY <1>5 DEF RecvAuthFailed
  <2>2. halt' = TRUE /\ \A s \in Sessions : armed'[s] \subseteq armed[s]
    BY <2>1, StopForArms
  <2> QED BY <1>5, <2>2 DEF RecvAuthFailed, Message, recvOther, serverVars, IsInfo
<1>6. CASE RecvHaltRestart
  BY <1>6, StopForArms DEF RecvHaltRestart, Message, recvOther, serverVars, IsInfo
<1>7. CASE RecvAuthPending \/ RecvInfo \/ RecvInfoPre
  BY <1>7 DEF RecvAuthPending, RecvInfo, RecvInfoPre, Message, recvOther, stopOther, serverVars, IsInfo
<1> QED BY <1>2, <1>3, <1>4, <1>5, <1>6, <1>7 DEF ControlRecv

\* A step that leaves the messages and what is told of them alone.
LEMMA InfoStays ==
  ASSUME Types, NEW n \in Nat, NEW m \in Nat, Placed(n, m), UNCHANGED <<told, info_hold, infos>>,
         Takes' => Takes, inbox' = inbox
  PROVE  Placed(n, m)'
<1>1. ToldUpTo(n)' /\ HeldUpTo(n, m)'
  BY DEF Placed, ToldUpTo, HeldUpTo
<1>2. ComeAfter(m)'
  BY DEF Placed, ComeAfter, IsInfo
<1> QED BY <1>1, <1>2 DEF Placed

LEMMA HoldStays ==
  ASSUME Types, HoldFollows, UNCHANGED <<told, info_hold, session>>,
         \A s \in Sessions : "info_hold" \in armed'[s] => "info_hold" \in armed[s]
  PROVE  HoldFollows'
<1>1. session \in Sessions
  BY DEF Types, RestOK
<1> QED BY <1>1 DEF HoldFollows

LEMMA HandledInfo ==
  ASSUME Types, HalfStopped, InfoInv, ControlRecv
  PROVE  InfoInv'
<1>1. PICK n \in Nat, m \in Nat : Placed(n, m)
  BY DEF InfoInv
<1>2. n <= m /\ m <= infos /\ ToldUpTo(n) /\ HeldUpTo(n, m) /\ ComeAfter(m) /\ HoldFollows
  BY <1>1 DEF Placed, InfoInv
<1>3. /\ inbox # <<>> /\ UNCHANGED <<session, infos>> /\ (Takes' => Takes)
      /\ inbox' = Tail(inbox) \/ (inbox' = <<>> /\ ~Takes')
  <2>1. /\ inbox # <<>> /\ UNCHANGED <<session, infos, interrupted>> /\ (halt => halt')
        /\ inbox' = Tail(inbox) \/ (inbox' = <<>> /\ halt')
    BY HandledTells, HandledKeeps
  <2>2. Takes' => Takes
    BY <2>1 DEF Takes
  <2>3. CASE session \in interrupted
    <3>1. Len(inbox) <= 1 /\ inbox \in Seq(Messages) /\ Len(inbox) \in Nat \ {0}
      BY <2>1, <2>3, HeadIsFirst DEF HalfStopped, Types, InboxOK
    <3>2. Tail(inbox) \in Seq(Messages) /\ Len(Tail(inbox)) = Len(inbox) - 1
      BY <2>1, <3>1, HeadTailProperties
    <3>3. Tail(inbox) = <<>>
      BY <3>1, <3>2, EmptySeq
    <3> QED BY <2>1, <2>2, <3>3
  <2>4. CASE session \notin interrupted
    <3>1. halt' => ~Takes'
      BY <2>1, <2>4 DEF Takes
    <3> QED BY <2>1, <2>2, <3>1
  <2> QED BY <2>3, <2>4
<1>4. session \in Sessions /\ told \in Seq(Events) /\ Connected \in Events /\ infos \in Nat
  BY BoundsArePositive DEF Types, RestOK, RecvOK, Events
<1>5. Head(inbox) = inbox[1] /\ 1 \in 1 .. Len(inbox)
  BY <1>3, HeadIsFirst
<1>6. CASE RecvInfo
  <2>1. /\ IsInfo(inbox[1]) /\ inbox' = Tail(inbox) /\ armed' = armed /\ halt' = halt
        /\ IF info_hold # Released THEN info_hold' = Append(info_hold, inbox[1].id) /\ UNCHANGED told
           ELSE told' = Append(told, inbox[1].id) /\ UNCHANGED info_hold
    BY <1>5, <1>6 DEF RecvInfo, Message, stopOther, Holds, IsInfo
  <2>2. Shifted
    BY <1>3, <2>1, TailOfInbox DEF Shifted
  <2>3. PICK next : next = inbox[1].id
    OBVIOUS
  <2>4. next \in Nat
    BY <1>5, <2>1, <2>3, InfoIds
  <2>5. next = m + 1 /\ next <= infos /\ ComeAfter(next)'
    BY <1>2, <1>3, <2>1, <2>2, <2>3, <2>4, TakesInfo
  <2>6. CASE info_hold # Released
    <3>1. info_hold \in Seq(1 .. MaxInfos) /\ Len(info_hold) \in Nat
      BY <2>6, LenProperties DEF Types, RecvOK
    <3>2. info_hold' = Append(info_hold, next) /\ told' = told
      BY <2>1, <2>3, <2>6
    <3>3. /\ Len(info_hold') = Len(info_hold) + 1 /\ info_hold'[Len(info_hold) + 1] = next
          /\ \A i \in 1 .. Len(info_hold) : info_hold'[i] = info_hold[i]
      <4>1. next \in 1 .. MaxInfos
        BY <1>5, <2>1, <2>3, HeadOfInbox DEF Types, IsInfo, Info
      <4> QED BY <3>1, <3>2, <4>1, AppendProperties
    <3>4. Len(info_hold) = m - n /\ \A i \in 1 .. Len(info_hold) : info_hold[i] = n + i
      BY <1>2, <2>6 DEF HeldUpTo
    <3>5. info_hold' # Released
      <4>1. ASSUME info_hold' = Released PROVE FALSE
        <5>1. Len(info_hold') = 1 /\ info_hold'[1] = 0
          BY <4>1 DEF Released
        <5>2. info_hold'[1] = next
          BY <3>1, <3>3, <5>1
        <5> QED BY <2>5, <5>1, <5>2
      <4> QED BY <4>1
    <3>6. HeldUpTo(n, next)'
      <4>1. Len(info_hold') = next - n
        BY <2>4, <2>5, <3>3, <3>4
      <4>2. \A i \in 1 .. Len(info_hold) + 1 : i \in 1 .. Len(info_hold) \/ i = Len(info_hold) + 1
        BY <3>1
      <4>3. \A i \in 1 .. Len(info_hold) + 1 : info_hold'[i] = n + i
        BY <2>4, <2>5, <3>3, <3>4, <4>2
      <4> QED BY <3>3, <3>5, <4>1, <4>3 DEF HeldUpTo
    <3>7. ToldUpTo(n)'
      BY <1>2, <3>2 DEF ToldUpTo
    <3>8. Placed(n, next)'
      BY <1>2, <1>3, <2>4, <2>5, <3>6, <3>7 DEF Placed
    <3>9. HoldFollows'
      BY <1>2, <1>3, <2>1, <2>6, <3>2, <3>5 DEF HoldFollows
    <3> QED BY <2>4, <3>8, <3>9 DEF InfoInv
  <2>7. CASE info_hold = Released
    <3>1. m = n /\ told # <<>> /\ told[1] = Connected
      BY <1>2, <2>7 DEF HeldUpTo, HoldFollows
    <3>2. told' = Append(told, next) /\ info_hold' = info_hold
      BY <2>1, <2>3, <2>7
    <3>3. next \in Events /\ <<next>> \in Seq(Events)
      BY <1>5, <2>1, <2>3, HeadOfInbox DEF Types, IsInfo, Info, Events
    <3>4. told' = told \o <<next>>
      BY <1>4, <3>2, <3>3, AppendIsConcat
    <3>5. Len(<<next>>) = next - n /\ \A i \in 1 .. Len(<<next>>) : <<next>>[i] = n + i
      BY <2>4, <2>5, <3>1
    <3>6. n <= next
      BY <2>5, <3>1
    <3>7. ToldUpTo(next)'
      <4> HIDE <3>2
      <4> QED BY <1>2, <2>4, <3>3, <3>4, <3>5, <3>6, TellsNext
    <3>8. Placed(next, next)'
      BY <1>3, <2>4, <2>5, <2>7, <3>2, <3>7 DEF Placed, HeldUpTo
    <3>9. told' # <<>> /\ told'[1] = Connected
      BY <1>4, <3>1, <3>2, <3>3, AppendProperties, EmptySeq, LenProperties
    <3>10. HoldFollows'
      BY <1>2, <1>3, <2>1, <3>2, <3>9 DEF HoldFollows
    <3> QED BY <2>4, <3>8, <3>10 DEF InfoInv
  <2> QED BY <2>6, <2>7
<1>7. CASE /\ ~IsInfo(inbox[1]) /\ info_hold' = info_hold
           /\ \/ Tells(Connected)
              \/ told' = told /\ \A s \in Sessions : armed'[s] \subseteq armed[s]
           /\ \A s \in Sessions \ {session} : armed'[s] \subseteq armed[s]
  <2>1. ComeAfter(m)'
    <3>1. CASE inbox' = Tail(inbox)
      <4>1. Shifted
        BY <1>3, <3>1, TailOfInbox DEF Shifted
      <4> QED BY <1>2, <1>3, <1>7, <4>1, TakesInfo
    <3>2. CASE inbox' = <<>> /\ ~Takes'
      <4>1. Len(inbox') = 0
        BY <3>2
      <4> QED BY <3>2, <4>1 DEF ComeAfter
    <3> QED BY <1>3, <3>1, <3>2
  <2>2. ToldUpTo(n)'
    <3>1. CASE Tells(Connected)
      <4>1. told' = told \o <<Connected>> /\ <<Connected>> \in Seq(Events)
        BY <1>4, <3>1, AppendIsConcat DEF Tells
      <4>2. n <= n
        OBVIOUS
      <4> QED BY <1>2, <4>1, <4>2, TellsNext
    <3>2. CASE told' = told
      BY <1>2, <3>2 DEF ToldUpTo
    <3> QED BY <1>7, <3>1, <3>2
  <2>3. Placed(n, m)'
    BY <1>2, <1>3, <1>7, <2>1, <2>2 DEF Placed, HeldUpTo
  <2>4. HoldFollows'
    <3>1. CASE Tells(Connected)
      <4>1. told' # <<>> /\ (told = <<>> => told'[1] = Connected) /\ (told # <<>> => told'[1] = told[1])
        BY <1>4, <3>1, AppendProperties, EmptySeq, LenProperties DEF Tells
      <4>2. \A s \in Sessions : s > session => s # session
        BY <1>4 DEF Sessions
      <4> QED BY <1>2, <1>3, <1>7, <4>1, <4>2 DEF HoldFollows
    <3>2. CASE told' = told /\ \A s \in Sessions : armed'[s] \subseteq armed[s]
      BY <1>2, <1>3, <1>4, <1>7, <3>2, HoldStays
    <3> QED BY <1>7, <3>1, <3>2
  <2> QED BY <2>3, <2>4 DEF InfoInv
<1> QED BY <1>5, <1>6, <1>7, HandledTells

LEMMA NextInfo == ASSUME Types, HalfStopped, InfoInv, [Next]_vars PROVE InfoInv'
<1>1. session \in Sessions /\ armed \in [Sessions -> SUBSET Timers]
  BY DEF Types, StopOK, RestOK
<1>2. PICK n \in Nat, m \in Nat : Placed(n, m)
  BY DEF InfoInv
<1>3. n <= m /\ m <= infos /\ ToldUpTo(n) /\ HeldUpTo(n, m) /\ ComeAfter(m) /\ HoldFollows
  BY <1>2 DEF Placed, InfoInv
\* A step that handles no message and arms no timer of the hold.
<1>4. ASSUME UNCHANGED <<told, info_hold, infos, session, inbox>>,
             \A s \in Sessions : "info_hold" \in armed'[s] => "info_hold" \in armed[s]
      PROVE  InfoInv'
  <2>1. Takes' => Takes
    BY <1>4, NextTakes
  <2> QED BY <1>2, <1>3, <1>4, <2>1, InfoStays, HoldStays DEF InfoInv
<1>5. ASSUME UNCHANGED <<told, info_hold, infos, session, inbox>>, NEW f, StopFor(f)
      PROVE  InfoInv'
  BY <1>4, <1>5, StopForArms
<1>6. CASE TransportConnecting
  BY <1>4, <1>6 DEF TransportConnecting, recvFlags, timerVars, serverVars
<1>7. CASE Authenticate
  <2>1. UNCHANGED <<told, info_hold, infos, session, inbox>>
    BY <1>7 DEF Authenticate, serverVars
  <2>2. \/ StopFor("need_creds")
        \/ UNCHANGED armed
    BY <1>7 DEF Authenticate, ClientAuth
  <2> QED BY <1>4, <1>5, <2>1, <2>2
<1>8. CASE Active
  <2>1. \A s \in Sessions : "info_hold" \in armed'[s] => "info_hold" \in armed[s]
    BY <1>1, <1>8 DEF Active
  <2> QED BY <1>4, <1>8, <2>1 DEF Active, serverVars
<1>9. CASE Fails \/ TunSendFails
  <2>1. UNCHANGED stopKeeps /\ \E f : StopFor(f)
    BY <1>9 DEF Fails, TunSendFails
  <2> QED BY <1>5, <2>1 DEF stopKeeps, serverVars
<1>18. CASE KeyContextFails \/ TransportFails
  <2>1. \A s \in Sessions : armed'[s] \subseteq armed[s]
    BY <1>1, <1>18 DEF KeyContextFails, TransportFails, CancelTimers
  <2>2. UNCHANGED <<told, info_hold, infos, session, inbox>>
    BY <1>18 DEF KeyContextFails, TransportFails, stopKeeps, recvFlags, serverVars
  <2> QED BY <1>4, <2>1, <2>2
<1>10. CASE TransportRecv
  <2>1. PICK x \in Messages :
            /\ Brings(x)
            /\ \/ ~IsInfo(x) /\ infos' = infos
               \/ IsInfo(x) /\ infos' = infos + 1 /\ x.id = infos'
    BY <1>10, InfoSays DEF TransportRecv
  <2>2. UNCHANGED <<told, info_hold, session, armed>> /\ Takes
    BY <1>10 DEF TransportRecv, recvFlags, timerVars, HalfStopped, Takes
  <2>3. ComeAfter(m)'
    BY <1>3, <2>1, <2>2, BringsInfo
  <2>4. m <= infos'
    BY <1>3, <2>1, BoundsArePositive DEF Types, RestOK
  <2>5. Placed(n, m)'
    BY <1>3, <2>2, <2>3, <2>4 DEF Placed, ToldUpTo, HeldUpTo
  <2>6. HoldFollows'
    BY <1>3, <2>2, HoldStays
  <2> QED BY <2>5, <2>6 DEF InfoInv
<1>11. CASE ControlRecv
  BY <1>11, HandledInfo
<1>12. ASSUME NEW s \in Sessions, ResetInactiveTimer(s)
       PROVE  InfoInv'
  <2>1. \A r \in Sessions : "info_hold" \in armed'[r] => "info_hold" \in armed[r]
    BY <1>1, <1>12 DEF ResetInactiveTimer
  <2> QED BY <1>4, <1>12, <2>1 DEF ResetInactiveTimer, objectVars, recvFlags, serverVars
<1>13. ASSUME NEW s \in Sessions, NEW t \in Timers, Handler(s, t)
       PROVE  InfoInv'
  <2>1. \A r \in Sessions : Done(s, t)[r] \subseteq armed[r]
    BY <1>1 DEF Done
  <2>2. CASE HandlerIgnored(s, t)
    BY <1>4, <2>1, <2>2 DEF HandlerIgnored, callbackOther, serverVars
  <2>3. CASE t = "push_request" /\ s = session /\ SendPushRequest
    BY <1>4, <2>1, <2>3 DEF SendPushRequest, callbackOther, serverVars
  <2>4. CASE t = "info_hold" /\ s = session /\ InfoHoldCallback
    <3>1. /\ UNCHANGED <<infos, session, inbox, halt>> /\ info_hold' = Released
          /\ told' = IF info_hold = Released THEN told ELSE told \o info_hold
          /\ armed' = Done(s, t)
      BY <2>4 DEF InfoHoldCallback, callbackOther, serverVars
    <3>2. told # <<>> /\ told[1] = Connected
      BY <1>3, <2>4 DEF HoldFollows, InfoHoldCallback, Handles
    <3>3. ComeAfter(m)'
      <4>1. Takes' => Takes
        BY <3>1, NextTakes
      <4> QED BY <1>3, <3>1, <4>1 DEF ComeAfter, IsInfo
    <3>4. m <= m /\ m <= infos'
      BY <1>3, <3>1
    <3>5. ToldUpTo(m)' /\ told' # <<>> /\ told'[1] = Connected
      <4>1. CASE info_hold = Released
        BY <1>3, <3>1, <3>2, <4>1 DEF HeldUpTo, ToldUpTo
      <4>2. CASE info_hold # Released
        <5>1. info_hold \in Seq(1 .. MaxInfos) /\ told \in Seq(Events) /\ 1 .. MaxInfos \subseteq Events
          BY <4>2 DEF Types, RecvOK, Events
        <5>2. info_hold \in Seq(Events)
          BY <5>1, SeqMonotonic
        <5>3. Len(info_hold) = m - n /\ \A i \in 1 .. Len(info_hold) : info_hold[i] = n + i
          BY <1>3, <4>2 DEF HeldUpTo
        <5>4. told' = told \o info_hold
          BY <3>1, <4>2
        <5>5. ToldUpTo(m)'
          BY <1>3, <5>2, <5>3, <5>4, TellsNext
        <5>6. Len(told) \in Nat /\ Len(told) # 0 /\ Len(info_hold) \in Nat
          BY <3>2, <5>1, EmptySeq, LenProperties
        <5>7. Len(told') = Len(told) + Len(info_hold) /\ told'[1] = told[1]
          BY <5>1, <5>2, <5>4, <5>6, ConcatProperties
        <5>8. told' # <<>>
          <6>1. ASSUME told' = <<>> PROVE FALSE
            <7>1. Len(told') = 0
              BY <6>1
            <7> QED BY <5>6, <5>7, <7>1
          <6> QED BY <6>1
        <5> QED BY <3>2, <5>5, <5>7, <5>8
      <4> QED BY <4>1, <4>2
    <3>6. Placed(m, m)'
      BY <3>1, <3>3, <3>4, <3>5 DEF Placed, HeldUpTo
    <3>7. HoldFollows'
      BY <1>3, <2>1, <3>1, <3>5 DEF HoldFollows
    <3> QED BY <3>6, <3>7 DEF InfoInv
  <2>5. CASE t = "inactive" /\ s = session /\ InactiveCallback
    BY <1>5, <2>5 DEF InactiveCallback, stopKeeps, serverVars
  <2> QED BY <1>13, <2>2, <2>3, <2>4, <2>5 DEF Handler
<1>14. CASE TunBytes
  BY <1>4, <1>14 DEF TunBytes, objectVars, recvFlags, serverVars
<1>15. CASE ClientStops
  <2>1. \A s \in Sessions : armed'[s] \subseteq armed[s]
    BY <1>1, <1>15 DEF ClientStops, CancelTimers
  <2>2. UNCHANGED <<told, info_hold, infos, session, inbox>>
    BY <1>15 DEF ClientStops, stopKeeps, serverVars
  <2> QED BY <1>4, <2>1, <2>2
<1>16. CASE NewClient
  <2>1. /\ session' = session + 1 /\ info_hold' = <<>> /\ told' = <<>> /\ inbox' = <<>> /\ infos' = 0
        /\ \A s \in Sessions : armed'[s] \subseteq armed[s]
    BY <1>1, <1>16 DEF NewClient, CancelTimers
  <2>2. Len(told') = 0 /\ Len(info_hold') = 0 /\ Len(inbox') = 0 /\ info_hold' # Released
    BY <2>1 DEF Released
  <2>3. Placed(0, 0)'
    BY <2>1, <2>2 DEF Placed, ToldUpTo, HeldUpTo, ComeAfter
  <2>4. session \in Nat /\ \A s \in Sessions : s >= session + 1 => s > session
    BY <1>1 DEF Sessions
  <2>5. session' \in Sessions
    BY <1>16, BoundsArePositive DEF NewClient, Types, RestOK, Sessions
  <2>6. \A s \in Sessions : s >= session + 1 => "info_hold" \notin armed'[s]
    BY <1>3, <2>1, <2>4 DEF HoldFollows
  <2>7. HoldFollows'
    <3>1. \A s \in Sessions : s > session' => "info_hold" \notin armed'[s]
      BY <2>1, <2>4, <2>6 DEF Sessions
    <3>2. "info_hold" \notin armed'[session']
      BY <2>1, <2>4, <2>5, <2>6
    <3> QED BY <2>1, <2>2, <3>1, <3>2 DEF HoldFollows
  <2> QED BY <2>3, <2>7 DEF InfoInv
<1>17. CASE UNCHANGED vars
  BY <1>4, <1>17 DEF vars, objectVars, recvFlags, timerVars, serverVars
<1> QED BY <1>6, <1>7, <1>8, <1>9, <1>10, <1>11, <1>12, <1>13, <1>14, <1>15, <1>16, <1>17,
       <1>18 DEF Next

\* Whatever the order of messages, timers and sessions, the client is told of the
\* INFO messages in their order, of each of them, and only once it is connected.
THEOREM InfoCorrect == Spec => []InfoInOrder
<1>1. Init => InfoInv
  <2> SUFFICES ASSUME Init PROVE InfoInv
    OBVIOUS
  <2>1. Len(told) = 0 /\ Len(info_hold) = 0 /\ Len(inbox) = 0 /\ info_hold # Released /\ infos = 0
    BY DEF Init, Released
  <2>2. Placed(0, 0)
    BY <2>1 DEF Placed, ToldUpTo, HeldUpTo, ComeAfter
  <2>3. HoldFollows
    <3>1. \A s \in Sessions : armed[s] = {}
      BY DEF Init
    <3>2. session \in Sessions
      BY InitTypes DEF Types, RestOK
    <3> QED BY <2>1, <3>1, <3>2 DEF Init, HoldFollows
  <2> QED BY <2>2, <2>3 DEF InfoInv
<1>2. Types /\ InfoInv => InfoInOrder
  <2> SUFFICES ASSUME Types, InfoInv PROVE InfoInOrder
    OBVIOUS
  <2>1. DOMAIN told = 1 .. Len(told)
    BY LenProperties DEF Types, RecvOK
  <2>2. PICK n \in Nat, m \in Nat : ToldUpTo(n) /\ HoldFollows
    BY DEF InfoInv, Placed
  <2> QED BY <2>1, <2>2 DEF ToldUpTo, HoldFollows, InfoInOrder
<1>3. Types /\ HalfStopped /\ InfoInv /\ [Next]_vars => Types' /\ HalfStopped' /\ InfoInv'
  BY NextTypes, NextHalfStopped, NextInfo
<1>4. Init => HalfStopped
  BY DEF Init, HalfStopped
<1> QED BY <1>4, <1>1, <1>2, <1>3, InitTypes, PTL DEF Spec

-----------------------------------------------------------------------------
(* What is left to do when the client has ended *)

\* The client ends by ending its session, and a session that has ended counts no
\* bytes, unless it was interrupted.
Ended ==
    /\ over => halt
    /\ (halt /\ session \notin interrupted) => ~counting

LEMMA StopForEnded ==
  ASSUME Types, Ended, NEW f, StopFor(f), session' = session
  PROVE  Ended'
  BY DEF StopFor, StopWith, ResetCallbacks, Ended

LEMMA NextEnded ==
  ASSUME Types, LateInv, Ended, [Next]_vars
  PROVE  Ended'
<1>1. (inbox # <<>> /\ session \notin interrupted) => ~halt
  BY DEF LateInv, Clean, EndsClean
<1>2. CASE TransportConnecting \/ Active \/ TransportRecv \/ TunBytes
  BY <1>2 DEF TransportConnecting, Active, TransportRecv, TunBytes, recvFlags, objectVars, Ended
<1>3. CASE Authenticate
  <2>1. /\ session' = session
        /\ StopFor("need_creds") \/ UNCHANGED <<halt, interrupted, counting, over>>
    BY <1>3 DEF Authenticate, ClientAuth
  <2> QED BY <2>1, StopForEnded DEF Ended
<1>4. CASE Fails \/ TunSendFails
  BY <1>4, StopForEnded DEF Fails, TunSendFails, stopKeeps
<1>12. CASE KeyContextFails \/ TransportFails
  BY <1>12 DEF KeyContextFails, ResetCallbacks, TransportFails, stopKeeps, Ended
<1>5. CASE PushReplyCompletes
  <2>1. /\ session' = session
        /\ session \notin interrupted => ~halt
    BY <1>1, <1>5 DEF PushReplyCompletes, recvOther
  <2>2. \/ \E f, t : StopWith(f, t)
        \/ UNCHANGED <<halt, interrupted, over>>
    BY <1>5 DEF PushReplyCompletes, Connect
  <2>3. CASE UNCHANGED <<halt, interrupted, over>>
    BY <2>1, <2>3 DEF Ended
  <2>4. CASE \E f, t : StopWith(f, t)
    BY <2>1, <2>4 DEF StopWith, ResetCallbacks, Ended
  <2> QED BY <2>2, <2>3, <2>4
<1>6. CASE ControlRecv /\ ~PushReplyCompletes
  <2>1. /\ session' = session
        /\ (\E f : StopFor(f)) \/ UNCHANGED stopOther
    BY <1>6 DEF ControlRecv, RecvPushReply, RecvPushUpdate, RecvAuthFailed,
       RecvHaltRestart, RecvAuthPending, RecvInfo, RecvInfoPre, recvOther
  <2> QED BY <2>1, StopForEnded DEF stopOther, Ended
<1>7. ASSUME NEW s \in Sessions, NEW t \in Timers, ResetInactiveTimer(s) \/ Handler(s, t)
      PROVE  Ended'
  <2>1. /\ session' = session
        /\ StopFor("other") \/ UNCHANGED <<halt, interrupted, counting, over>>
    BY <1>7 DEF ResetInactiveTimer, Handler, HandlerIgnored, SendPushRequest, InfoHoldCallback,
       InactiveCallback, stopKeeps, callbackOther, objectVars
  <2> QED BY <2>1, StopForEnded DEF Ended
<1>8. CASE ClientStops
  BY <1>8 DEF ClientStops, ResetCallbacks, stopKeeps, Ended
<1>9. CASE NewClient
  BY <1>9 DEF NewClient, Ended
<1>10. CASE UNCHANGED vars
  BY <1>10 DEF vars, objectVars, Ended
<1>11. "inactive" \in Timers
  BY DEF Timers
<1> QED BY <1>2, <1>3, <1>4, <1>5, <1>6, <1>7, <1>8, <1>9, <1>10, <1>11, <1>12 DEF Next, ControlRecv

LEMMA TimersAreFinite ==
  ASSUME NEW T \in SUBSET Timers
  PROVE  IsFiniteSet(T) /\ Cardinality(T) \in Nat
<1>1. IsFiniteSet({"push_request"} \cup {"info_hold"})
  BY FS_Singleton, FS_AddElement
<1>2. IsFiniteSet(({"push_request"} \cup {"info_hold"}) \cup {"inactive"})
  BY <1>1, FS_AddElement
<1>3. IsFiniteSet(Timers)
  <2>1. Timers = ({"push_request"} \cup {"info_hold"}) \cup {"inactive"}
    BY DEF Timers
  <2> QED BY <1>2, <2>1
<1> QED BY <1>3, FS_Subset, FS_CardinalityType

\* A step when the client has ended: a lambda that was posted, or a handler.
LEMMA OverSteps ==
  ASSUME Types, Ended, EndsClean, over, session \notin interrupted, Next
  PROVE  /\ inbox' = inbox
         /\ \E s \in Sessions :
              \/ /\ posted[s] > 0 /\ posted' = [posted EXCEPT ![s] = @ - 1]
                 /\ \E enough \in SUBSET {"inactive"} : armed' = [armed EXCEPT ![s] = @ \cup enough]
              \/ /\ posted' = posted
                 /\ \E t \in armed[s] : armed' = [armed EXCEPT ![s] = @ \ {t}]
<1>1. halt /\ ~counting /\ inbox = <<>> /\ transport # "up"
  BY DEF Ended, EndsClean
<1>2. ~(TransportConnecting \/ Authenticate \/ Active \/ Fails \/ TunSendFails \/ KeyContextFails
        \/ TransportFails \/ TransportRecv \/ TunBytes \/ ClientStops \/ NewClient)
  BY <1>1 DEF TransportConnecting, Authenticate, Active, Fails, TunSendFails, KeyContextFails, TransportFails,
     Alive, Reads, TransportRecv, TunBytes, ClientStops, NewClient
<1>3. ~ControlRecv
  BY <1>1 DEF ControlRecv, RecvPushReply, PushReplyCompletes, RecvPushUpdate, RecvAuthFailed,
     RecvHaltRestart, RecvAuthPending, RecvInfo, RecvInfoPre, Message
<1>4. PICK s \in Sessions : ResetInactiveTimer(s) \/ \E t \in Timers : Handler(s, t)
  BY <1>2, <1>3 DEF Next
<1>5. CASE ResetInactiveTimer(s)
  BY <1>5 DEF ResetInactiveTimer, objectVars
<1>6. ASSUME NEW t \in Timers, Handler(s, t)
      PROVE  HandlerIgnored(s, t)
  BY <1>1, <1>6 DEF Handler, SendPushRequest, InfoHoldCallback, InactiveCallback
<1>7. CASE \E t \in Timers : Handler(s, t)
  BY <1>6, <1>7 DEF HandlerIgnored, Handles, Done, callbackOther
<1> QED BY <1>4, <1>5, <1>7

LEMMA LessToDo ==
  ASSUME Types, Ended, EndsClean, over, session \notin interrupted, Next
  PROVE  /\ inbox' = inbox
         /\ \A s \in Sessions : Work(s)' <= Work(s)
         /\ \E s \in Sessions : Work(s)' < Work(s)
<1>1. armed \in [Sessions -> SUBSET Timers] /\ posted \in [Sessions -> 0 .. MaxPosted]
  BY DEF Types, StopOK, RestOK
<1>2. PICK s \in Sessions :
        \/ /\ posted[s] > 0 /\ posted' = [posted EXCEPT ![s] = @ - 1]
           /\ \E enough \in SUBSET {"inactive"} : armed' = [armed EXCEPT ![s] = @ \cup enough]
        \/ /\ posted' = posted
           /\ \E t \in armed[s] : armed' = [armed EXCEPT ![s] = @ \ {t}]
  BY OverSteps
<1>3. ASSUME NEW r \in Sessions
      PROVE  /\ posted[r] \in Int /\ IsFiniteSet(armed[r]) /\ Cardinality(armed[r]) \in Int
             /\ r # s => posted'[r] = posted[r] /\ armed'[r] = armed[r]
  BY <1>1, <1>2, TimersAreFinite, BoundsArePositive
<1>4. Cardinality(armed'[s]) \in Int /\ posted'[s] \in Int
  BY NextTypes, TimersAreFinite, BoundsArePositive DEF Types, StopOK, RestOK
<1>5. 2 * posted'[s] + Cardinality(armed'[s]) < 2 * posted[s] + Cardinality(armed[s])
  <2>1. CASE /\ posted[s] > 0 /\ posted' = [posted EXCEPT ![s] = @ - 1]
             /\ \E enough \in SUBSET {"inactive"} : armed' = [armed EXCEPT ![s] = @ \cup enough]
    <3>1. posted'[s] = posted[s] - 1 /\ (armed'[s] = armed[s] \/ armed'[s] = armed[s] \cup {"inactive"})
      <4>1. PICK enough \in SUBSET {"inactive"} : armed' = [armed EXCEPT ![s] = @ \cup enough]
        BY <2>1
      <4>2. armed'[s] = armed[s] \cup enough /\ (enough = {} \/ enough = {"inactive"})
        BY <1>1, <4>1
      <4>3. posted'[s] = posted[s] - 1
        BY <1>1, <2>1
      <4> QED BY <4>2, <4>3
    <3>2. Cardinality(armed'[s]) <= Cardinality(armed[s]) + 1
      BY <1>3, <3>1, FS_AddElement
    <3> QED BY <1>3, <1>4, <3>1, <3>2
  <2>2. CASE posted' = posted /\ \E t \in armed[s] : armed' = [armed EXCEPT ![s] = @ \ {t}]
    <3>1. PICK t \in armed[s] : armed'[s] = armed[s] \ {t}
      BY <1>1, <2>2
    <3>2. Cardinality(armed'[s]) = Cardinality(armed[s]) - 1
      BY <1>3, <3>1, FS_RemoveElement
    <3> QED BY <1>3, <2>2, <3>2
  <2> QED BY <1>2, <2>1, <2>2
<1>6. Work(s)' < Work(s)
  BY <1>5 DEF Work
<1>7. \A r \in Sessions : Work(r)' <= Work(r)
  <2> SUFFICES ASSUME NEW r \in Sessions PROVE Work(r)' <= Work(r)
    OBVIOUS
  <2>1. CASE r = s
    BY <1>3, <1>5, <1>4, <2>1 DEF Work
  <2>2. CASE r # s
    BY <1>3, <2>2 DEF Work
  <2> QED BY <2>1, <2>2
<1> QED BY <1>6, <1>7, OverSteps

\* Under the assumptions of DownCorrect, each step after the client has ended
\* leaves less to do, if its last session was not interrupted: no session's timers,
\* lambdas or messages make new work, so that what is left is done after finitely
\* many steps, however many there were.
THEOREM ReturnsCorrect ==
  ASSUME ~RepliesGoOn, ~LateReplies
  PROVE  Spec => ConnectReturns
<1> DEFINE Less == /\ Len(inbox') <= Len(inbox) /\ \A s \in Sessions : Work(s)' <= Work(s)
                   /\ Len(inbox') < Len(inbox) \/ \E s \in Sessions : Work(s)' < Work(s)
<1>1. Init => Ended
  BY DEF Init, Ended
<1>2. Types /\ LateInv /\ Ended /\ [Next]_vars => Ended'
  BY NextEnded
<1>3. Types /\ LateInv /\ Ended /\ [Next]_vars => [(over /\ session \notin interrupted) => Less]_vars
  <2> SUFFICES ASSUME Types, LateInv, Ended, Next, over, session \notin interrupted PROVE Less
    OBVIOUS
  <2>1. Len(inbox) \in Nat
    BY LenProperties DEF Types, InboxOK
  <2> QED BY <2>1, LessToDo DEF LateInv, Clean
<1> HIDE DEF Less
<1>4. Spec => [](Types /\ LateInv)
  BY LateAlways
<1>5. Spec => [][(over /\ session \notin interrupted) => Less]_vars
  BY <1>1, <1>2, <1>3, <1>4, PTL DEF Spec
<1> QED BY <1>5 DEF ConnectReturns, Less

=============================================================================
