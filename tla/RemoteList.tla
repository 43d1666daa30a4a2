----------------------------- MODULE RemoteList -----------------------------
(***************************************************************************)
(* RemoteList (openvpn/client/remotelist.hpp): the servers of the profile, *)
(* their addresses and the index of the one in use, with the two           *)
(* asynchronous resolvers that change them: BulkResolve, which resolves    *)
(* the whole list, and the transport of the current session (udpcli.hpp),  *)
(* which resolves the entry the index points at.                           *)
(*                                                                         *)
(* The sessions that follow one another are those of ClientConnect         *)
(* (cliconnect.hpp), cut down to what they ask of the list: when one       *)
(* starts, how it advances the index, and how it ends.  Positions start at *)
(* 1 here and at 0 in the code.                                            *)
(***************************************************************************)
EXTENDS Integers, Sequences, FiniteSets, SequencesExt

CONSTANTS
    Profile,     \* the entries, in the order of the profile
    Host,        \* the hosts they name
    Addr,        \* the addresses a name server can answer with
    HostOf,      \* HostOf[e]: server_host
    Compatible,  \* Compatible[e]: the addresses of transport_protocol's family
    Answers,     \* Answers[h]: what a lookup of h can answer
    Failed,      \* a lookup that fails
    NoList,      \* a null res_addr_list; no entry and no endpoint of a session
    CacheModes,  \* bound: the values of enable_cache (tunPersist)
    Lifetime,    \* cache_lifetime > 0
    Random       \* remote-random, which also shuffles addresses

Entry == Range(Profile)
AddrList == {s \in UNION {[1 .. n -> Addr] : n \in 0 .. Cardinality(Addr)} : IsInjective(s)}

ASSUME ProfileIsList == Profile # <<>> /\ Profile \in Seq(Range(Profile)) /\ IsInjective(Profile)
ASSUME EntriesHaveHosts == \A e \in Entry : HostOf[e] \in Host /\ Compatible[e] \subseteq Addr
ASSUME AnswersAreLists ==
    \A h \in Host : \A r \in Answers[h] : r = Failed \/ (r \in Seq(Addr) /\ IsInjective(r))
ASSUME AddressesAreFinite == IsFiniteSet(Addr) /\ Addr # {}
ASSUME NoListIsNone == NoList \notin AddrList
ASSUME OptionsAreBool == CacheModes \subseteq BOOLEAN /\ Lifetime \in BOOLEAN /\ Random \in BOOLEAN

VARIABLES
    enableCache, \* enable_cache
    list,        \* list
    addrs,       \* res_addr_list of each entry
    age,         \* decay_time of each entry: never, to come or past
    index,       \* the Index
    bulk,        \* BulkResolve: its index while notify_callback is set, else 0
    session      \* the current session and its transport

vars == <<enableCache, list, addrs, age, index, bulk, session>>

Advance == {"addr", "remote", "none"}
Phase == {"none", "resolving", "contacting", "connected", "ended", "paused", "thrown"}

\* entry is the one whose host the transport has taken, endpoint the address it
\* has been given; reached is reached_connected_state().  A session is "thrown"
\* when remote_list_error has ended the client.
NewSession(state, e, a) ==
    [state |-> state, entry |-> e, endpoint |-> a, advance |-> "addr", reached |-> FALSE]
NoSession == NewSession("none", NoList, NoList)

Init ==
    /\ enableCache \in CacheModes
    /\ list = Profile
    /\ addrs = [e \in Entry |-> NoList]
    /\ age = [e \in Entry |-> "never"]
    /\ index = [item |-> 1, addr |-> 1]
    /\ bulk = 0
    /\ session = NoSession

-----------------------------------------------------------------------------
(* Lists *)

\* How many of the first i elements of s are in S, and a list of all that are:
\* SelectSeq, said of positions.
Upto(s, S, i) == Cardinality({j \in 1 .. i : s[j] \in S})
Those(s, S) ==
    [k \in 1 .. Upto(s, S, Len(s)) |-> s[CHOOSE i \in 1 .. Len(s) : s[i] \in S /\ Upto(s, S, i) = k]]

-----------------------------------------------------------------------------
(* Item *)

\* need_resolve(), res_addr_list_defined(), get_endpoint()
NeedResolve(as, ages, e) == as[e] = NoList \/ ages[e] = "past"
Defined(as, e) == as[e] # NoList /\ as[e] # <<>>
HasEndpoint(as, e, i) == as[e] # NoList /\ i <= Len(as[e])

\* set_endpoint_range(): the lists entry e can have after the answer r.
EndpointRange(e, r) ==
    LET fit == Those(r, Compatible[e])
    IN  IF r = <<>> THEN {IF addrs[e] = NoList THEN <<>> ELSE addrs[e]}
        ELSE IF Random THEN SetToSeqs(Range(fit)) ELSE {fit}
AgeAfter(e, lifetime) == IF lifetime THEN "fresh" ELSE age[e]

-----------------------------------------------------------------------------
(* The index *)

ItemAddrLength(as, i) ==
    IF i <= Len(list) /\ as[list[i]] # NoList THEN Len(as[list[i]]) ELSE 0

\* Index::increment(), and whether it leaves the entry
\* Mutant: the next remote, whatever the advance.
IncrementItem(as, type) ==
    [item |-> IF index.item < Len(list) THEN index.item + 1 ELSE 1, addr |-> 1]
\* Mutant: the item after the last one is not the first.
IncrementPast(as, type) ==
    IF type = "addr" /\ index.addr < ItemAddrLength(as, index.item)
    THEN [index EXCEPT !.addr = @ + 1]
    ELSE [item |-> IF index.item <= Len(list) THEN index.item + 1 ELSE 1, addr |-> 1]
Increment(as, type) ==
    IF type = "addr" /\ index.addr < ItemAddrLength(as, index.item)
    THEN [index EXCEPT !.addr = @ + 1]
    ELSE [item |-> IF index.item < Len(list) THEN index.item + 1 ELSE 1, addr |-> 1]
ItemChanged(as, type) == ~(type = "addr" /\ index.addr < ItemAddrLength(as, index.item))

\* reset_item()
ResetItem(f, i, null) == IF i <= Len(list) THEN [f EXCEPT ![list[i]] = null] ELSE f

-----------------------------------------------------------------------------
(* The session and its transport *)

Throw == session' = [session EXCEPT !.state = "thrown"]

\* start_connect_() and get_endpoint()
Contact(taken, as, e, i) ==
    IF HasEndpoint(as, e, i)
    THEN session' = NewSession("contacting", taken, as[e][i])
    ELSE Throw

\* transport_start(), with item_index(): a cached address, or else a lookup
TransportStart(l, as, ix) ==
    IF ix.item > Len(l) THEN Throw
    ELSE LET e == l[ix.item] IN
         IF HasEndpoint(as, e, ix.addr) THEN Contact(e, as, e, ix.addr)
         ELSE session' = NewSession("resolving", e, NoList)

\* ClientConnect::new_client() of a later generation: next(), or
\* reset_cache_item() if the session that ends was connected.
NewClient(as, ages) ==
    LET moves == ~session.reached /\ session.advance # "none"
        ix == IF moves THEN Increment(as, session.advance) ELSE index
        resets == ~enableCache /\ (session.reached \/ (moves /\ ItemChanged(as, session.advance)))
        as2 == IF resets THEN ResetItem(as, ix.item, NoList) ELSE as
    IN  /\ index' = ix
        /\ addrs' = as2
        /\ age' = IF resets THEN ResetItem(ages, ix.item, "never") ELSE ages
        /\ TransportStart(list, as2, ix)
        /\ UNCHANGED <<enableCache, list, bulk>>

-----------------------------------------------------------------------------
(* BulkResolve *)

Idle == bulk = 0

\* prune_uncached(): the entries without an address go, and the index follows
\* its entry, unless that is one of them.
Kept(as) == {e \in Entry : Defined(as, e)}
\* Mutant: the index stays.
PruneIndexKept(as, ix) == ix
PruneIndex(as, ix) ==
    IF ix.item <= Len(list) /\ Defined(as, list[ix.item])
    THEN [ix EXCEPT !.item = Upto(list, Kept(as), @)]
    ELSE ix

\* resolve_next() from position i on.  At the end the first session starts, if
\* none has (bulk_resolve_done()).
ResolveNext(i, as, ages, ix) ==
    LET due == {j \in i .. Len(list) : NeedResolve(as, ages, list[j])}
        cached == \E e \in Range(list) : Defined(as, e)
        left == IF cached THEN Those(list, Kept(as)) ELSE list
        there == IF cached THEN PruneIndex(as, ix) ELSE ix IN
    /\ addrs' = as
    /\ age' = ages
    /\ \/ /\ due # {}
          /\ bulk' = Min(due)
          /\ index' = ix
          /\ UNCHANGED <<list, session>>
       \/ /\ due = {}
          /\ bulk' = 0
          /\ index' = there
          /\ list' = left
          /\ IF session.state = "none" THEN TransportStart(left, as, there)
             ELSE UNCHANGED session

\* The entries an answer for host is given to.
Takes(e, host) == NeedResolve(addrs, age, e) /\ HostOf[e] = host
\* Mutant: after an error the same entry is looked up again.
AfterFailureSame(i) == i
AfterFailure(i) == i + 1

\* resolve_callback().  A read of the entry in use beyond the list counts as
\* thrown.
BulkResolved ==
    /\ ~Idle /\ session.state # "thrown"
    /\ UNCHANGED enableCache
    /\ LET host == HostOf[list[bulk]]
           taking == {e \in Range(list) : Takes(e, host)}
           \* one list for each of them
           Lists(r) == {got \in [taking -> UNION {EndpointRange(e, r) : e \in taking}] :
                          \A e \in taking : got[e] \in EndpointRange(e, r)}
           ages == [e \in Entry |-> IF e \in taking THEN AgeAfter(e, Lifetime) ELSE age[e]] IN
       \/ /\ index.item > Len(list)
          /\ Throw
          /\ UNCHANGED <<list, addrs, age, index, bulk>>
       \/ /\ index.item <= Len(list)
          /\ Failed \in Answers[host]
          /\ ResolveNext(AfterFailure(bulk), addrs, age, index)
       \/ /\ index.item <= Len(list)
          /\ \E r \in Answers[host] \ {Failed} : \E got \in Lists(r) :
                ResolveNext(bulk + 1,
                            [e \in Entry |-> IF e \in taking THEN got[e] ELSE addrs[e]], ages,
                            IF list[index.item] \in taking THEN [index EXCEPT !.addr = 1] ELSE index)

-----------------------------------------------------------------------------
(* Steps *)

\* ClientConnect::start()
Start ==
    /\ session.state = "none" /\ Idle
    /\ UNCHANGED enableCache
    /\ \/ /\ enableCache
          /\ ResolveNext(1, addrs, age, index)
       \/ /\ ~enableCache
          /\ TransportStart(list, addrs, index)
          /\ UNCHANGED <<list, addrs, age, index, bulk>>

\* reconnect(), or pause() and resume(), before the first resolution has ended
StartEarly ==
    /\ session.state = "none" /\ ~Idle
    /\ TransportStart(list, addrs, index)
    /\ UNCHANGED <<enableCache, list, addrs, age, index, bulk>>

\* resolve_callback() of the transport: set_endpoint_range() and get_endpoint()
\* use the entry the index points at by now.
TransportResolved ==
    /\ session.state = "resolving"
    /\ UNCHANGED <<enableCache, list, bulk>>
    /\ LET host == HostOf[session.entry]  e == list[index.item] IN
       \/ /\ Failed \in Answers[host]
          /\ session' = [session EXCEPT !.state = "ended"]
          /\ UNCHANGED <<addrs, age, index>>
       \/ /\ Answers[host] # {Failed} /\ index.item > Len(list)
          /\ Throw
          /\ UNCHANGED <<addrs, age, index>>
       \/ /\ index.item <= Len(list)
          /\ \E r \in Answers[host] \ {Failed} : \E range \in EndpointRange(e, r) :
                /\ addrs' = [addrs EXCEPT ![e] = range]
                /\ age' = [age EXCEPT ![e] = AgeAfter(e, enableCache /\ Lifetime)]
                /\ index' = [index EXCEPT !.addr = 1]
                /\ Contact(session.entry, addrs', e, 1)

\* The server answers, and the session comes up.
Connected ==
    /\ session.state = "contacting"
    /\ session' = [session EXCEPT !.state = "connected", !.reached = TRUE]
    /\ UNCHANGED <<enableCache, list, addrs, age, index, bulk>>

\* The session ends; a server that has answered can say how to go on
\* (AUTH_FAILED,TEMP).
SessionEnds ==
    /\ session.state \in {"contacting", "connected"}
    /\ \E type \in Advance : session' = [session EXCEPT !.state = "ended", !.advance = type]
    /\ UNCHANGED <<enableCache, list, addrs, age, index, bulk>>

\* The restart timer expires: the session has ended, has not been answered in
\* time, or is replaced by reconnect().
Restart ==
    /\ session.state \notin {"none", "paused", "thrown"}
    /\ NewClient(addrs, age)

\* pause(), and resume() with its remote_reset_cache_item()
Pause ==
    /\ session.state \notin {"none", "paused", "thrown"}
    /\ session' = [session EXCEPT !.state = "paused"]
    /\ UNCHANGED <<enableCache, list, addrs, age, index, bulk>>
Resume ==
    /\ session.state = "paused"
    /\ IF enableCache THEN NewClient(addrs, age)
       ELSE NewClient(ResetItem(addrs, index.item, NoList), ResetItem(age, index.item, "never"))

\* client_proto_renegotiated(): the outdated entries are resolved again.
Renegotiated ==
    /\ session.state = "connected" /\ enableCache /\ Idle
    /\ ResolveNext(1, addrs, age, index)
    /\ UNCHANGED enableCache

\* The addresses of an entry become outdated.
Decay ==
    /\ \E e \in Range(list) : age[e] = "fresh" /\ age' = [age EXCEPT ![e] = "past"]
    /\ UNCHANGED <<enableCache, list, addrs, index, bulk, session>>

Next ==
    \/ Start \/ StartEarly \/ BulkResolved
    \/ TransportResolved \/ Connected \/ SessionEnds \/ Restart \/ Pause \/ Resume
    \/ Renegotiated \/ Decay

Safety == Init /\ [][Next]_vars

\* Lookups end (getaddrinfo gives up in the end), and so do sessions without an
\* answer and the wait for a restart (server_poll_timer, restart_wait_timer).
Fairness ==
    /\ WF_vars(Start)
    /\ WF_vars(BulkResolved)
    /\ WF_vars(TransportResolved)
    /\ WF_vars(SessionEnds)
    /\ WF_vars(session.state = "ended" /\ Restart)

Spec == Safety /\ Fairness

-----------------------------------------------------------------------------
(* Properties *)

TypeOK ==
    /\ enableCache \in BOOLEAN
    /\ list \in Seq(Entry) \ {<<>>} /\ IsInjective(list)
    /\ addrs \in [Entry -> AddrList \cup {NoList}]
    /\ age \in [Entry -> {"never", "fresh", "past"}]
    /\ index \in [item : 1 .. Len(Profile), addr : 1 .. Cardinality(Addr)]
    /\ bulk \in 0 .. Len(list)
    /\ session \in [state : Phase, entry : Entry \cup {NoList}, endpoint : Addr \cup {NoList},
                    advance : Advance, reached : BOOLEAN]

\* remotelist.hpp:123: an entry holds the addresses its own host has been
\* resolved to, of the family of its transport, whichever resolver has put them
\* there and whatever has happened to the list since it was asked.
AddressesOf(h) == UNION {Range(r) : r \in Answers[h] \ {Failed}}
OwnAddresses ==
    \A e \in Entry : addrs[e] # NoList =>
        Range(addrs[e]) \subseteq AddressesOf(HostOf[e]) \cap Compatible[e]

\* remotelist.hpp:289: remote_list_error stands for logic errors.  The index
\* never leaves the list, however it shrinks, and an address is only asked for
\* where there is one.
NoLogicError == TypeOK /\ session.state # "thrown"

\* The protocol, port and connection block of the entry the index points at are
\* used with the session: while it is in contact with a server that entry is
\* the one it was started for, even if the list has been pruned meanwhile.
IndexFollowsSession ==
    session.state \in {"contacting", "connected"}
    => index.item <= Len(list) /\ list[index.item] = session.entry

\* A bulk resolution ends, whatever fails, decays or is asked for during it.
BulkEnds == (~Idle) ~> (Idle \/ session.state = "thrown")

\* While no session comes up, none is replaced before it has ended, and all go
\* on with the next address, the client goes on trying every address it has for
\* every entry in the list.
Hasty == session.state \in {"resolving", "contacting"} /\ Restart
KeepsTrying ==
    /\ <>[](session.state \notin {"connected", "paused", "thrown"} /\ session.advance = "addr")
    /\ <>[][~Hasty]_vars
TriesEveryAddress ==
    \A e \in Entry, a \in Addr :
        KeepsTrying =>
            \/ []<>(session.state = "contacting" /\ session.entry = e /\ session.endpoint = a)
            \/ []<>(e \notin Range(list) \/ addrs[e] = NoList \/ a \notin Range(addrs[e]))
=============================================================================
