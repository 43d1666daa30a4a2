# OpenVPNClientAPI_CS: TLA+ models, checks and proofs

The repository wraps the OpenVPN 3 client library (C++) in a native DLL and a
.NET class library. This directory models the parts of it that decide *when*
something happens: the threads and events of the .NET client, the object that
runs one session after another, the session itself, its keys, the list of
remotes, the reliability layer of the control channel, the replay window of the
data channel and the rings shared with the tun driver. All paths below are relative to
`src/OpenVPNClientApiLibrary_CPP/ThirdPartyLibraries/openvpn3/` unless they
begin with `OpenvpnNetClient/` or `OpenVPNClientAPI_ConsoleAppTest/`, which are
under `src/`.

1. [The system](#1-the-system)
2. [The modules and the code](#2-the-modules-and-the-code)
3. [The runs](#3-the-runs)
4. [Bounds](#4-bounds)
5. [Fairness](#5-fairness)
6. [The proofs](#6-the-proofs)
7. [Where the code departs from what is said of it](#7-where-the-code-departs-from-what-is-said-of-it)
8. [What is not modelled](#8-what-is-not-modelled)
9. [Plan](#9-plan)

## 1. The system

An application creates one `Client` and calls it from threads of its own. Each
connection has a managed thread in which the native `connect()` runs, from its
setup to its end; inside it an asio `io_context` runs the handlers of the
session one at a time. Events come back up on that same thread.

    application threads --SetConfig, AddCredentials, Connect, Stop...--> Client
    Client --_clientThread--> OpenVPNClientThread (one per connection, replaced at its end)
    OpenVPNClientThread.Run --> OpenVPNClient::connect() --> io_context.run()
        ClientConnect --new_client, stop--> ClientProto::Session
        ClientProto::Session --client_proto_connected, _terminate...--> ClientConnect
            ProtoContext / KeyContext --> ProtoStackBase --> ReliableSend, ReliableRecv, ReliableAck
            transport (UDP, TCP, HTTP proxy), tun
    events --Event_--> OpenVPNClientThread.Manager (the Client) --> the application's handlers

| component | state it keeps | operations | what makes it correct |
|---|---|---|---|
| `Client` (`OpenvpnNetClient/Client.cs`) | `_clientThread`, `_configEvaluator`, handlers | SetConfig, AddCredentials, Connect, Stop, ReconnectVPN, Show_stats, ConnectionFinished | the session that is up is the one Stop reaches; one connection at a time; no call into a deleted object, which the code does not keep a Task from |
| `OpenVPNClientThread` | `_hasConnectBeencalled`, `_clientThread`, `Manager` | Connect, Run, FinalizeThread, Dispose | it is connected once; its events have somewhere to go until it ends |
| `OpenVPNClient`, `ClientState` (`client/ovpncli.cpp`) | `attach_called`, `foreign_thread_ready`, stop scopes, session | connect, stop, pause, resume, reconnect | a stop called while `connect()` runs is heeded |
| `ClientConnect` (`openvpn/client/cliconnect.hpp`) | generation, halt, paused, three timers, bulk resolution, the session | start, stop, pause, resume, reconnect, the callbacks | a connection that is not stopped is never left with nothing to do; nothing after Disconnected; each session finalized once |
| `ClientProto::Session`, `ClientCreds` (`cliproto.hpp`, `clicreds.hpp`) | halt, fatal, received options, held-back INFO, timers, posted lambdas, credentials and auth-token | start, stop, control_recv, client_auth, the timers | a session that ended keeps nothing; it connects once; it falls back on a password it has; `connect()` returns |
| `RemoteList`, `BulkResolve` (`remotelist.hpp`) | entries, addresses and their age, index, a resolution under way | next, resolve, prune, get_endpoint | every address is tried; the index is that of the session's entry; an entry has its own addresses |
| `ProtoContext`, `KeyContext` (`openvpn/ssl/proto.hpp`) | primary and secondary key, their states, next events | reset exchange, AUTH, ACTIVE, renegotiation, promotion, expiry | SSL starts when both sides know of the session; the ends of a key agree; a renegotiation is not stuck |
| `ProtoStackBase` and `openvpn/reliable` | the two windows, `xmit_acks`, `re_acks`, queues | net_recv, app_send, flush, retransmit | messages arrive in order, once, and are kept until the peer has them |
| packet ids (`openvpn/crypto/packet_id_data.hpp`) | the sender's id; the receiver's bitmap, base, extent, floor | next, do_test_add | no id is used twice, no packet accepted twice, none refused without reason |
| `WintunClient`, `RingBuffer` (`openvpn/tun/win`) | two rings in shared memory, two events, the read under way | read, tun_send, stop, tun_start with a persisted tun | packets come out whole, in order, once; neither side sleeps on a ring with packets |
| `Stop`, `AsioStopScope` | scopes, stop_called | stop, Scope | a stop reaches every scope, before or after it is made |
| TLS, ciphers, options, tun and routes, SWIG | | | transformations of data and system calls: outside the models |

The hard behaviours, each with its line and the properties that cover it under
`hazards` in `PROJECT.json`:

* **Unlocked sharing.** `Client._clientThread` and the fields of
  `OpenVPNClientThread` are read and written by application threads and by the
  connection's thread without a lock, and the connection's end replaces one
  object and deletes another.
* **A call at the wrong moment.** A stop before `connect()` has enabled foreign
  thread access; a Connect between the end of a connection and the
  replacement of its object; a reconnect from inside an event handler.
* **Handlers that cannot be taken back.** Cancelling an asio timer does not
  remove a handler that is already queued, so every callback runs in states its
  timer was not armed for. `generation` is the code's answer; not every callback
  looks at it.
* **Loss, duplication, reordering.** The control channel runs its own windows
  over UDP, with ACKs that are themselves repeated a bounded number of times.
* **Exceptions half way.** `Session::stop()` sets `halt` and calls up into
  `ClientConnect`, which throws for a fatal code it has no branch for, before the
  tun and the transport are stopped; every later `stop()` is a no-op.
* **State that outlives its owner.** The remote list, the credentials and, with
  `tunPersist`, the rings pass from one session to the next while handlers of the
  session before are still to run; the list is pruned under a session that uses
  it.
* **Two sides at once.** Both peers renegotiate, retire and lose key contexts by
  timers of their own, and recycle their ids. The driver moves one end of each
  ring while the client looks at the other.
* **Several messages in one packet.** A message that ends the session does not
  keep the next one of its packet from being handled.

## 2. The modules and the code

`map` in `PROJECT.json` gives the lines of every definition. A name in TLA+ is
the name in the code where there is one. An operator whose comment
says "Mutant" is a plausible mistake in the definition below it: it is no part
of the specification, and the run of its property fails when it replaces that
definition.

### OrderedChannel, ProtoStack, MCProtoStack, ProtoStackProofs

`OrderedChannel` is the promise: two sequences per direction, what is sent is
delivered in order, once, in the end. `ProtoStack` is the code that keeps it,
for two peers that both run `ProtoStackBase`.

A handler starts when `pc[n] = "idle"` (`Start`, `SslWrite`, `Receive`,
`Retransmit`) and then runs to its end in steps (`Step`), one per iteration of a
loop of the code, while the other peer and the network go on. `Receive` is the
whole of `decapsulate_tls_plain` for a packet: its ACKs are taken
(`Acknowledge` is `rm_by_id` with `purge`), its message is offered to the
receive window and its id noted in `ackData`. `flush` is `StartHandshake`,
`DownStackRaw`, `DownStackApp`, `SendPendingAcks`, in the order of the code's
tests; `PrependAck` and `NetSend` are the two halves of `encapsulate` and
`generate_ack`. Windows are a head and a set of defined slots, `erased` the
slots between that have been acknowledged. `sent` and `delivered` are history.

TLS output is opaque: `Stream[n]` is what n's SSL object produces, and the
server's produces nothing before it was given a packet. Ids are natural numbers;
in the code they have 32 bits, of which one key uses a few hundred.

### ConnectionLifecycle, NetClient, MCNetClient, NetClientProofs

`ConnectionLifecycle` is a variable `phase`: closed, open, connected, and the
four steps between. `NetClient` has one action per read or write of a shared
field: `ConnectFetch`, `ConnectTest`, `ConnectMark`, `ConnectManage`,
`ConnectStart` are the lines of `Client.Connect` and
`OpenVPNClientThread.Connect`, and so on for every method. A thread has a script
of calls (`todo`), a place in the first of them (`at`) and the object that call
has read (`on`). `Run(t)` is the connection's thread: the native `connect()`,
`FinalizeThread` field by field, `ConnectionFinished`, the application's
`ConnectionClosed` handler (which may call again, on this thread), `Dispose`.
A native call on a deleted object sets `crashed`, and so does an exception on a
connection's thread.

The environment is the two console examples: `RunNewConnection`, the answer to
`ConnectionCalledTwiceException`, handlers that stop, reconnect or read
statistics, and the Task that a `ConnectionEstablished` handler of
`SingleConnection_Example` starts, which calls Stop, Show_stats or ReconnectVPN
for each command it reads, until the first Stop (`TaskStarts`, `TaskCall`;
`prompting` are the Tasks that wait for a command). Nothing ends a Task with its
connection: it goes on calling while `EndClientThread` replaces and deletes the
object it has read. The constants choose which of all this an application does.

### ClientConnect, MCClientConnect, ClientConnectProofs

Everything in `ClientConnect` runs in a handler of one `io_context`, so the
state includes `queue`, the handlers that are ready, first in first out. A timer
is `{}` or `{generation it was armed in}`; expiry (`RestartExpires`,
`PollExpires`, `ConnExpires`) moves it into the queue, after which cancelling
has no effect. `Post` is a call of `thread_safe_stop`, `_pause`, `_resume` or
`_reconnect` from another thread, which reads `halt` there and then.
`ResolverAnswers` and `SessionReady` are the resolver's thread and the socket or
a timer of the session. `Handle` takes the head of the queue and runs the
handler as one step: handlers do not interleave. The private methods
(`NewClient`, `StopConnection`, `PauseConnection`, `QueueRestart`,
`InterimFinalize`) are operators that the handlers share, as in the code.

`client` is the session as `ClientConnect` sees it: alive or halted,
`first_packet_received` (`heard`), `reached_connected_state` (`reached`) and
the advance type. What a live session does is open: any packet may end it with
any code of `Codes`. The codes are the classes of the switch of
`client_proto_terminate`: restart, restart with the same remote, relay, stop,
and "unhandled" for the `default:` that throws. `tun` is what `finalize()` has
done to the tun of the session, a history variable. `emitted` is the last event
about the connection's course.

One error, `TLS_ALERT_CERTIFICATE_REQUIRED`, also reaches `default:`, but from
inside a catch clause of `transport_recv`, so that the exception leaves
`io_context.run()` and `connect()` stops the connection: its class is "stop".

### ProtoContext, MCProtoContext, ProtoContextProofs

Both peers of a session with their two key slots. One action is one entry into
`ProtoContext` up to the end of its `flush()`. `Receive` is `control_net_recv`:
the id of a packet chooses the context (`ForPrimary`, `ForSecondary`, `ForNew`, in
the order of `PacketType`), and `NetRecv` is what the context makes of the
message. The reliability layer is taken as `ProtoStack` shows it to be: `out` is
what a context has sent, and any message of it that is next for its receiver may
come, as long as the sender is there or, in `stale`, was there until it was
wiped. `PrimaryTimer` and `SecondaryTimer` are `process_primary_event` and
`process_secondary_event`, one disjunct per event. Keys are abstract: two
contexts share their data keys when they are bound to each other (`with`).
Time is left out, except for the two orders of timers that the code's properties
rest on: `HandshakeWindowOver`, from the default lengths, and in `PrimaryTimer`
that of two timers of the same length the one set first expires first.
`HandshakeNeverStuck` says with ENABLED that a renegotiation needs no timer.

### RemoteList, MCRemoteList, RemoteListProofs

The list, its index and the two that resolve its hosts: `BulkResolve`
(`BulkResolved`, one lookup, its answer given to every entry with that host) and
the UDP transport of the session (`TransportStart`, `TransportResolved`). A
session is what it asks of the list: when it starts, how it advances the index,
how it ends. Addresses are model values, each of a family that the transports of
some entries can use; `age` is `decay_time`. A session is "thrown" when
`remote_list_error` has ended the client. What `prune_uncached` and
`set_endpoint_range` leave of a list is `Those(list, S)`: the selection is said of
positions (`Upto`), which proofs can reason about, and the index follows by the same
count.

### Session, MCSession, SessionProofs

The sessions of one client one after the other. `TransportRecv` is one control
message more in the packet being handled (`inbox`), one action per kind of
message handles the head of it, whether or not `stop()` has been called by then.
`armed` and `posted` say of each session which timers and lambdas may still run;
`CancelTimers` leaves any of the handlers that were ready. `StopWith` is
`stop(true)` with the call up into `ClientConnect`, of which only the decision
between another session and the end is kept (`over`), and that it throws for a
reason it does not handle ("unhandled"). Then `halt` is set, the tun and the
transport go on, and the session is in `interrupted`. It comes about in two ways:
`TunSendFails` is a write to a closed Wintun ring (`TUN_WRITE_ERROR`), whose
exception a catch clause turns into a `stop()` to no effect; `KeyContextFails` is
an error of the key expansion or of TLS, whose exception leaves `run()` and ends the
client. An interrupted session still receives, message by message
(`TransportRecv`), until its transport fails (`TransportFails`) or another session
replaces it (`NewClient`), which its tun may outlive. What it may still receive
for another key context, after `KeyContextFails`, is left out. `creds` is
`ClientCreds` with the operations that purge it. The server is external and
well-behaved: `RepliesGoOn` and `LateReplies` are two ways in which it may not be.

### PacketId, ReplayFilter, MCPacketId, PacketIdProofs

`ReplayFilter` remembers every id; `PacketId` is the code with its circular
bitmap: the four cases of `do_test_add` are `InSequence`, `Jump`, `Leap` and
`Backtrack`. Packets are numbered by the sender that is modelled with it, so
that its end (`Exhausted`) and the receiver's bitmap meet.

### PacketQueue, WintunRing, MCWintunRing, WintunRingProofs

`PacketQueue` is a queue that takes nothing more once it is closed; `WintunRing`
implements one in each direction, with the history `held`: the packets a ring was
given and nobody has read since. Memory is a function from units of
`WINTUN_PACKET_ALIGN` to a packet and a position in it, so that a packet half
overwritten is seen. `read()` is four actions, because the driver moves the tail
meanwhile; `tun_send` is two, because `alertable` is read after the tail was
written, perhaps before the driver sees it (`StoreIsSeen`). An error of `read()`
or of its wait (`TunError`, `WaitFails`) stops the session; one of `tun_send`
(`SendError`) interrupts its `stop()`, so that `broken` is set: the session has
halted, its tun has not, and a later `StopSession` does nothing. `TunStart` needs a
tun that was stopped, so that no session comes after such a one here. The driver
is external: it does what Wintun's ring protocol asks of it.

## 3. The runs

| run | asks |
|---|---|
| `stack` | Three packets and the reset, more than the window holds, over a network that loses, duplicates and reorders: agreement of the windows (`WindowsAgree`, the inductive invariant of the proofs), delivery in order and once, nothing dropped that the peer lacks, no ACK owed at the end of a handler, nothing sent beyond the receiver's window |
| `stack_live` | Traffic both ways: `OrderedChannel` is implemented with its liveness, and the windows drain |
| `client` | An application like the examples, with switches from inside handlers and a Task that calls while connections end: one connection at a time (`ConnectionLifecycle` is implemented), always in reach of Stop, heard by the Client and configured before it is connected (`ClientInControl`); the process dies of nothing but a call of the Task that the end of a connection has overtaken (`OnlyOvertakenCallsCrash`); a Stop the session was told of ends with the object deleted, and a switch comes about, unless it dies |
| `connect` | All orders of handlers: no connection stranded, each tun finalized once, nothing after Disconnected, resolving again leaves the session alone; a posted reconnect replaces the session, every remote is tried again and again while nobody answers |
| `keys` | Three contexts a peer, with and without the limits of 64-bit blocks: the ends of a key agree, every ACTIVE context has its data channel once options were pushed, a fresh key is not thrown away by a local renegotiation, a renegotiation is never stuck. No id is used twice by three contexts: that ids are recycled is for the proofs |
| `remotes` | Four entries, two hosts, one that cannot be resolved: the index stays in the list and with its session through pruning, resolutions end, every address is tried |
| `replay` | To the end of the ids and twice round the bitmap: the receiver implements `ReplayFilter`, so that no packet is accepted twice, and no id is used twice |
| `ring` | Both directions, two sessions on one tun: the rings implement `PacketQueue`, `read()` never takes a ring for broken that is not, there is one `read()` under way (none perhaps in a session that a failed write has stopped half way, which the run includes), and neither side sleeps on packets |
| `session` | Two sessions, two messages a packet, an auth-token, a `stop()` that may be interrupted: nothing is kept by a session that ended unless it was, INFO comes in order once it is connected, a rejected token is not sent again, the fallback has its name and password (`CredentialsLast`), options are asked for until they come, `connect()` returns unless the last session was interrupted |
| `client_two`, `remotes_own`, `session_late` | each refutes one statement of a comment or a document: section 7 |

`CHECK_DEADLOCK FALSE` everywhere: a channel with nothing to send, a client
whose connections are over and a connection that was stopped really are done.

`TypeOK` is a theorem where there are proofs (section 6); elsewhere it is the
first conjunct of an invariant of the run.

What `client` shows is true of applications that connect from the handlers as
the examples do; it is not true of one that connects from its own thread
while a connection ends, which is what `client_two` shows; nor is
`OnlyOvertakenCallsCrash` true of one that handles `CoreEventReceived` and not
`ConnectionTimedOut`, which dies of the timeout. In the same way `remotes` has hosts that answer always or never, `remotes_own` one
that answers now and then; and `session` assumes a server that finishes an
update before it says something else, `session_late` one that does not.

## 4. Bounds

| bound | value | why it is enough |
|---|---|---|
| `SendWindow`, `RecvWindow` | 2 (code: 6 and 8) | the window is full, wraps around its slots and is purged past an erased slot; the proofs are for every size |
| `Stream` | three packets one way, or one each way | with the reset and without it, more than the window has room for |
| `AckV1Max`, `ControlMax` | 2 and 1 (code: 8 and 4) | `ackData` and `reAcks` both exceed what one packet carries |
| `MaxFlight` | 2 (1 for liveness) per peer | reordering needs two; a third packet is a lost one |
| `MaxThreads` | 2 (`client`), 4 (`client_two`) connection threads | a connection and its successor, with the Task between them and a call overtaken by the first one's end; in `client_two` also one begun in between. `NetClientProofs` is for any number |
| `MaxScripts` | 1, 4 | scripts the application's own threads begin; handlers and Tasks add theirs |
| `Tasks`, `Commands` | one; Stop, Show_stats, ReconnectVPN | one caller beside the connection's thread; the proofs are for any number |
| `Remotes` | 3, and 2 where the order of trying does not matter | with two entries, skipping one is skipping to the same |
| `Generations` | 4 (code: 2^32) | the generation wraps in the run, and skips 0 |
| `MaxPosted`, `MaxQueue` | 1 and 2; 2 and 3 in the violation runs | a call of another thread in any order with the handlers of timers, which are never refused, and one packet or answer; the safety properties are proved for every bound |
| `Codes`, `Calls` | all; all that the switch handles | see `StrandedCorrect` in section 6 |
| `KeyIdMask`, `MaxKeys` | 3 (code: 7) and 3 | the first context, and two renegotiations, by either peer or both, that fail or succeed; ids of contexts that are gone are still in flight. A fourth context, even with one kind of cipher only, is 5.7 million states, too many for a run kept beside the others; `FreshKeyIsKept` and the invariant of its proof were checked there too, as the fourth is the first that can find the primary late (section 6). The proofs are for any number |
| `Limits` | both | |
| `Profile`, `Host`, `Addr` | 4 entries, 2 hosts, 3 addresses | the first and the last entry are pruned, two entries share a lookup, one address is of a family that one of them cannot use |
| `Window`, `Expire`, `MaxId`, `MaxTime` | 4, 2, 8, 5 (code: 2048, 30, 2^32 - 1) | the bitmap is passed twice, every case of a jump happens at every base, the floor rises and holds; the proofs are for all |
| `Capacity`, `Trailing`, `Align` | 14, 6, 2 bytes | seven units: packets of two and three units wrap at every unit, fill the ring and leave it with one free |
| `traffic` | one direction at a time | read() and tun_send share the thread and nothing else |
| `MaxSessions`, `MaxTokens`, `MaxInfos`, `MaxBatch`, `MaxPosted` | 2, 1, 2, 2, 1 | a handler of the session before, a token rejected and gone, INFO before and after the release, a message after the one that ended the session |
| `Interruptible` | the first session | with the next one or without, to the end of either; a second one would do as the first. The proofs are for any |
| `Given` | a password, with or without auth-nocache | a client without one has nothing to fall back on; the proofs have both |

`Generations` = 4 makes a claim smaller than the code's worse: a handler four
sessions old would be taken for a fresh one. That no run finds harm in it says
that so old a handler is never still in the queue when it matters.

## 5. Fairness

* `ProtoStack`: a handler that has started is finished (WF of `Step`); the event
  loop serves the retransmission timer and reads its socket again and again (SF
  of `RetransmitHead` and `ReceiveAny`: each is enabled only between handlers);
  a network that loses packets does not lose every copy of a message that is sent
  for ever, nor every ACK of it (SF of `ReceiveHead` and `ReceiveAck`). `Lose`
  has no fairness.
* `NetClient`: threads are scheduled (WF of `Call` and `Run`). A stop posted to
  the `io_context` is reached although session events keep coming, because its
  queue is first in, first out (SF of `GracefulStop`). What the session does with
  the network (`Session`) has none: it may never connect and never fail.
* `ClientConnect`: `start()` is called, the `io_context` runs what is ready (WF
  of `Handle`), and the restart and poll timers expire while they are armed.
  The connection timer, the session, the resolver and other threads owe nothing;
  in `TriesEveryRemote` it is the poll timer that moves a silent connection on.
* `RemoteList`: lookups end (`getaddrinfo` gives up), a session nobody answers
  ends and is followed by another (`server_poll_timer`, `restart_wait_timer`).
  Nothing is owed by pause, resume, decay or success. `TriesEveryAddress` takes it
  as a premise that from some time on no session comes up, all advance by "addr"
  and none is replaced before it has ended.
* `WintunRing`: the `io_context` runs a `read()` that is ready, the processor makes
  a store visible in the end, the event completes a wait, the driver sets the
  event it owes and consumes. The application sends and stops as it likes. It is
  the same `io_context` for a session stopped half way, which goes on; should
  `connect()` return although it was (an exception of the key context), the
  properties no longer speak of its rings.
* `ProtoContext`, `PacketId` and `Session` state no fairness. `ConnectReturns`
  is an action property: with every step after the end the work left grows less.

## 6. The proofs

The modules whose names end in `Proofs` are checked by TLAPS. Their theorems hold
for every value of the constants that the modules' ASSUMEs admit, under the premises
that a theorem states. TLC checked each inductive invariant on a small instance
before it was proved.

**ProtoStack.** `TypeOK` is inductive. `WindowsAgree` is the invariant that the
rest follows from: it says that an id means one message wherever it is stored
(a slot of a window, a packet in flight, a packet being built), that whatever
has been or will be acknowledged or erased is an id the receiver has, and that
the receive side is a prefix of the send side. It is needed because neither
delivery nor dropping is inductive: a duplicate in flight from long ago must be
known to carry the old message. With `TypeOK` it is inductive. From it:
`OrderedExactlyOnce`, `DroppedOnlyWhenReceived`, and the safety part of
`OrderedChannel` by refinement (every step is a `Send`, a `Deliver` or a
stutter). `NoAckOwedWhenIdle` is inductive by itself with `TypeOK`.

`NeverBeyondWindow` is about the two windows together.
A peer may only send id k when k - Span has been acknowledged, so that what has to be
shown is that an id is acknowledged, in any packet, window or list, only when the
receiver's head has passed it or is about to: `HoleInv`. The exception is the
message the present handler was given, whose id is noted before the head moves;
`HandlerInv` and `SettledInv` say what a handler still has to do, and `OwesAck` that
such an id is not in a packet before the handler is through with its window. The
first message of all needs an argument of its own: the SSL object gives nothing to
the window, whose head it is, before the peer's reset has arrived, and the packets
that carry the server's reset acknowledge the client's (`ResetInv`, `ResetAcked`).
`SpanInv` then bounds what is in flight by the head of the other side's window.

**ClientConnect.** `TypeOK`, and with it the bound of the remote list's index,
is inductive. `DisconnectedIsLast` is inductive with it. `NeverStranded` needs
`DisconnectedIsLast` (a halted connection has no live session) and one
assumption: "unhandled" is not in `Codes`. Without the assumption it is false
(section 7); the theorem is that this is the only way.
`FinalizedOnce` follows from the strengthening `FinalizedInv`, which ties
`clientFinalized` and the state of the session to that of `tun`;
`ResolvingKeepsSession` from `GenerationInv`: a connection that has a session
has a generation other than 0, because the increment skips 0.

**NetClient.** The premise `AsTheExamples` says how the application calls: it has one
thread that runs `RunNewConnection`; from `ConnectionClosed` it starts a connection
or is quiet; its Tasks call Stop, Show_stats and ReconnectVPN, whenever they like;
and if it listens to the core's events it listens to the timeout too. It
puts no bound on objects, threads, Tasks or connections, nor on what the handler of
`ConnectionEstablished` does. Without it `ClientInControl` and `ImplementsLifecycle`
are false (`client_two`), and `OnlyOvertakenCallsCrash` is, for an application that
listens to `CoreEventReceived` alone. The invariant has to say why two connections are never
under way, which no variable records: `OrderInv`, that the k-th thread runs the k-th
object and only the last one is not through; `ObjectInv`, what an object is by the
place its thread has reached; `RunInv`, what the connection's thread has and has not
done to the object, the manager and `_clientThread`; `CallInv`, who of the others than
Tasks (`Callers`) may be in which call, and which object the call has read. Of a Task
it says next to nothing (`TaskInv`): it may be anywhere, with an object of any age,
and a step of one changes nothing the others rest on, unless the process dies
(`TaskGoesOn`, `TaskDies`). `Core` is all of this, which a dead process keeps since it
stands still; `IInv` adds that it lives, `Inv` how it died. From it follow the three
properties, the last by refinement: each step changes the `phase` of `ConnectionLifecycle` as one of
its actions does, or not at all.

**WintunRing.** For rings of any capacity and alignment, packets of any sizes that the
trailing bytes hold, and any number of sessions. That read() never takes a good ring
for a broken one is a matter of what lies in memory, which `SendInv` and `ReceiveInv`
describe by the set of offsets at which packets begin (`Chain`): one after the other
from the head to the tail, each whole, and what a reader took for the tail is one of
them, be it late. `ChainWrite` is the lemma for a
producer (a packet for which `Free` has room lies over none of the others, whether
it or they go beyond the end of the ring), `ChainRead` for a consumer, `ChainCut` for
a ring that is closed under a reader. `NoFalseAlarm` is part of the invariant, and
`PacketsWhole` follows: what is handed on is a packet, never parts of two. That it is
the right one, `QueuesCorrect`, takes the history of what was put in: `QueueInv` says
where in memory each packet of `held` lies (`Row`), that the last ends at the tail,
that the tail a read() has looked at is the end of one of them, and that what it has
copied is the first. `RowWrite` and `RowRead` are the lemmas for a producer and a
consumer; each step then is one of `PacketQueue`, or none, in both directions.
`OneReader` follows from `ReaderInv`, which says where the one read() of the session
is, and that only a session with `broken` may be without it: a `stop()` to no effect
returns from a `read()` that has found the ring closed.

**PacketId.** For a window of any length and ids of any width. `WindowIsExact`
says which id each bit of the circular bitmap stands for, wherever the base is;
with `TypeOK` and `SenderInv` (the sender has thrown once its id is the
greatest) it is inductive. Its proof is about the indices that a step passes
over: they are the ones whose bits must go, and no others. From it
`ImplementsFilter` (every `TestAdd` is a `Test` of `ReplayFilter` with the same
answer), `AcceptedOnce` and `IdsAreUnique`.

**ProtoContext.** For any number of key ids, even one, and of contexts. That the
ends of a key agree is not inductive: the packets of a context outlive it, ids are
used again, and either end may be wiped while the other goes on. `IInv` adds to
`TypeOK` what is known of every context whose packets may still arrive, the wiped
ones among them. No two contexts of a peer have the same tag; a server that has sent
its auth message has processed the client's (`SenderOK`); a context with a TLS
session has the id of the context it is with, and where that one still exists it
points back (`SlotOK`, `Matches`). The proof goes through an abstract step `Acts`:
a peer's slots hold fresh contexts or later states of those it had (`Evolves`), and
what a context has newly learned it has from one the peer still sends. `ActsKeepsInv`
shows once that such a step keeps `IInv`; each handler is then shown to be one. From
`IInv` follow `KeysAgree` and `KeyedWhenActive`.

`FreshKeyIsKept` takes a further invariant, `SoonInv`: as long as the secondary is
ACTIVE and waits to become primary, the primary is expiring, waits as well, or has
reached its key limit. The packets set no timer but that of a context that becomes
ACTIVE (`Ticks`), and a secondary that does makes the primary expire; but a primary
that was promoted in the middle of its negotiation becomes ACTIVE after its
secondary, and waits from then on. The proof stopped at that step, and TLC
confirmed it with four contexts, where a model in which any timer may be first
loses the fresh key. The code does not: both timers count from when their context
was ACTIVE (`active_event`), so the secondary's is first, which `PrimaryTimer` now
says.

**Session.** `TypeOK` needs one strengthening, of the messages yet to be handled.
`RejectedTokenIsGone` rests on `TokensFresh`: what the server still pushes was never
rejected. `CredentialsLast` needs `NameReady`: where the name was purged it is kept
with the token, or the session is about to remember it; and it needs the premise
that the server says no more after the option that is rejected (~`RepliesGoOn`),
whereas `FallsBack` needs none. `AsksUntilAnswered` is inductive with the types.
`DownWhenEnded` and `ConnectsOnce` follow from `LateInv`. It is `Clean` of a session
that was not interrupted: in the messages to come no reply stands between the parts of
an update (`OpensClose`), the session's flags agree with what the server has said
(`ServerAgrees`), a session that ended has nothing up (`EndsClean`), and it tells of
its connection once (`TellsOnce`). And it says of those that were what they leave
(`Leftovers`): each has halted, and no tun of an earlier session is up but theirs. Of
an interrupted session `ConnectsOnce` is not claimed, since it goes on after an update
that it has rejected. Their premises are ~`RepliesGoOn` and ~`LateReplies`. `DownWhenEnded` needs both: TLC
breaks it with a reply after a rejected option, and, with four messages in a
packet, with a late reply whose `tun_start` fails and which an update and a further
reply follow. `ConnectsOnce` needs the second (`session_late`); with the first
dropped TLC still finds it to hold on the instance of `session`.

`InfoInOrder` needs no premise. `InfoInv` has two numbers (`Placed`): the client was
told of the messages up to the first, those up to the second are held back, the
others are still to be handled, unless the session has ended; and the hold is
released, and its timer runs, only once the session is connected (`HoldFollows`). It
includes interrupted sessions, which take messages although they have ended
(`Takes`), one at a time (`HalfStopped`).
`ConnectReturns` is about the work left, session by session: a step after the end
adds to that of none and takes from one, or handles a message. It needs `Ended`,
that what has ended is halted and no longer counts, and for that the premises of
`LateInv`.

**RemoteList.** `TypeOK` needs no premise but what the name servers' answers are:
the list stays a part of the profile without repetitions, is never pruned to nothing,
and the index stays within the longest list there can be. `ThoseAre` says what a
selection from a list is, and where in it each element is. The three safety
properties have the premise `NamesAreSteady`: a name server always answers for a
host, with an address that each of its entries can use, or it never does. The profile
of `remotes` is like that; `remotes_own` refutes `OwnAddresses` without, and section
7 says what else goes wrong. The invariant has to say why pruning never takes the entry of a
session in contact: `AddrsInv`, an entry has some addresses, all its own, or none;
`BulkInv`, the entries that a bulk resolution has passed have addresses or never
will, and it only begins with the index in the list; `SessionInv`, a session whose
entry may be lost is one that has contacted nobody (`Fresh`) and waits for a host that
will not answer, so that the next session moves the index back into the list. From it
follow `NoLogicError`, `IndexFollowsSession` and `OwnAddresses`.

Only model-checked: all liveness, which is beyond TLAPS (`StopCloses`,
`SwitchCompletes`, `ReconnectHappens`, `TriesEveryRemote`, `WindowDrains`, `BulkEnds`,
`TriesEveryAddress`, `ReadsAll`, `DriverReadsOn` and the liveness half of
`OrderedChannel`), and `HandshakeNeverStuck`, whose statement is an ENABLED.

## 7. Where the code departs from what is said of it

| run | what it shows |
|---|---|
| `client_two` | A Connect between `FinalizeThread` and `ConnectionFinished` uses the finished object; its end replaces the object of the next session, and two sessions are up |
| `remotes_own` | What a transport has looked up is given to the entry the index points at by then; if bulk resolution has pruned the entry it asked for, another entry gets its addresses |
| `session_late` | A PUSH_REPLY between two parts of a PUSH_UPDATE, which is only to renew the token, connects the session a second time |

More departures are visible in the models without a run of their own.

* *Control channel.* A standalone ACK carries at most 4 ids, not 8:
  `generate_ack()` never sets the opcode that `prepend()` tests (`PrependAck`).
  The server starts SSL in the flush in which it is about to send its reset,
  because "nothing unacknowledged" is true before anything is sent, although
  `proto.hpp` names a state in which it waits for the ACK; it is harmless,
  because packets keep their order (`StartHandshake`).
* *Keys.* A client that did not start a renegotiation never sends a reset of
  its own (`RawRecv`), where the description of the exchange has both sides send
  one. The server becomes ACTIVE without waiting for the ACK of its auth message
  that step 7 of the same description mentions. `data_limit_add` tests
  `is_safe_conversion` the wrong way round, so that no data limit ever counts
  (`DataLimitDefer`).
* *.NET client.* A second Connect throws, where its comment says it ends the
  other connection (`ConnectTest`). A Stop before foreign thread access is
  enabled is lost: the premise of `StopCloses` is that it was. `IsCurrentlyRunning`
  may find its thread null between its two reads of it (`IsAlive`). The Task of
  `SingleConnection_Example.cs:74-105` can take the process down: if it has read
  `_clientThread` and `EndClientThread` runs before it goes on, its Stop,
  `stats_value` or reconnect enters a native object that has been deleted
  (`StopFetch`, `Stop`). `OnlyOvertakenCallsCrash` is that nothing else does.
  `OnConnectionTimedOut` tests the handler of another event than the one it
  raises: with a handler for `CoreEventReceived` alone a timeout is an exception
  on the connection's thread, with one for `ConnectionTimedOut` alone it is not
  reported. The run subscribes to both.
* *ClientConnect.* Pausing does not hold if the resolver's answer, or the
  handler of the poll or restart timer, is already queued. The connection
  timer's handler ignores its generation, and stops a connection that was
  established while it was queued (`ConnectionTimer`). `TUN_WRITE_ERROR`, which
  the Wintun driver can raise, is not in the switch of
  `client_proto_terminate()`: the exception leaves the session half stopped, with
  its tun and transport at work (`interrupted` in `Session`, `broken` in
  `WintunRing`), and nothing restarts or stops the connection, not even a later
  `stop()`. `NeverStranded` is stated for `Codes` without it; `DownWhenEnded`,
  `ConnectReturns` and `OneReader` except the session that is left like that.
* *Remotes.* `remote_list_error` is for logic errors, but it also ends the client
  when a host has addresses of the wrong family only, or when a name server that
  answers now and then has the entry of the index pruned under an early session.
* *Rings.* With `tunPersist`, the read of the session before waits for the same
  event; it takes one signal that the new session waits for (`Stale` in
  `ReadsAll`). A `TUN_ERROR` restarts the session on the same, broken, ring.
* *Session.* `reset_inactive_timer()` may re-arm its timer after `stop()`, so that
  `connect()` returns only after the inactivity time (`ResetInactiveTimer`). After
  an option that pull-filter rejects, a further PUSH_REPLY in the same packet
  starts a tun in the halted session: with `RepliesGoOn` = TRUE `DownWhenEnded` is
  false. With auth-nocache and a name without a password, the purged, empty name
  is sent to the next session (`NameIsSent` excepts it).

## 8. What is not modelled

Every component with its status and the reason is listed in `PROJECT.json`.

* Of `ProtoContext`: keepalive and the data packets themselves, wrapping by
  tls-auth and tls-crypt (and with it `PacketIDControl`), the DCO's key handling,
  what the negotiated options say.
* Of `Session`: relay mode, application control channel messages and the
  certificate check, challenge and response, echo, DCO.
* Of the transports: sockets, TCP's packet stream, the HTTP proxy exchange.
* Of the tun: the comparison of options by `TunPersist`, adapters, routes, DNS.
* Nested stop scopes, beyond the flag that guards them in `NetClient`.
* TLS and crypto libraries, configuration parsing, buffers, SWIG: wrappers and
  transformations of data without an order of events.
* The lifecycle notifications: there is no lifecycle object on Windows.
* The server, web, DCO and other platforms' code, which is vendored with the
  library and not part of this client's build. It is most of the repository's
  lines.

## 9. Plan

Done, in the order of importance: `ProtoStack` (with `OrderedChannel`),
`NetClient` (with `ConnectionLifecycle`), `ClientConnect`, `ProtoContext`,
`RemoteList`, `PacketId` (with `ReplayFilter`), `WintunRing` (with
`PacketQueue`), `Session`.

What could follow: a proof that `Session`, with its premises about the server,
implements the session that `ClientConnect` takes for granted; TCP's packet
stream with its partial reads; the HTTP proxy's authentication exchange, a small
protocol of retries.
