# TLA+ specifications of tgnet, the MTProto client of this repository

The subject is the native network library under
`client/android/jni/tgnet` (13.6 thousand lines of C++): one network thread per
account that keeps TCP connections to Telegram datacenters, negotiates
authorization keys, frames, encrypts and acknowledges messages, queues and
retries API requests, and saves its state to disk. Every path below is relative
to that directory unless it starts with `src/`. The rest of `jni/` is vendored
(BoringSSL, FFmpeg, libtgvoip, opus, SQLite, libwebp, libyuv, ExoPlayer) or
media glue, and is not modelled.

## Inventory

| component | state | operations | interacts with | correct when |
|---|---|---|---|---|
| Config (`Config.cpp`) | the file, its `.bak` | constructor, readConfig, writeConfig | read and written by the manager, by Datacenter (CDN keys, parameters) | a restart finds the last configuration that was reported written, never a torn one |
| Handshake, and the handshake list of Datacenter (`Handshake.cpp`, `Datacenter.cpp`) | state 0..4, nonces, `needResendData`, the key under construction; `authKeyPerm` | beginHandshake, cleanupHandshake, processHandshakeResponse, connection closed/connected, the completion task, clearAuthKey | runs on a connection, completes through a task of the manager | a key is installed only by a finished exchange; a handshake that lost its connection ends or starts again |
| Connection, ConnectionSocket, Timer (`Connection.cpp`, `ConnectionSocket.cpp`, `Timer.cpp`) | connection state, reconnect timer, token, failure counters; descriptor, proxy state, `activeConnections` | connect, suspend, reconnect, sendData, onEvent, onDisconnected, onConnected, checkTimeout | epoll events; callbacks into the manager | a connection that is up has a descriptor and a token nobody else has; a connection that wants to be up gets another attempt |
| packet reassembly (`Connection.cpp` onReceivedData) | `restOfTheData`, `lastPacketLength` | onReceivedData | bytes from the socket, messages to the manager | the packets delivered do not depend on how TCP cut the stream |
| ConnectionSession (`ConnectionSession.cpp`) | processed ids, ids to confirm, sequence number | recreateSession, isMessageIdProcessed, addProcessedMessageId, addMessageToConfirm, generateConfirmationRequest | used by the manager on every message | a message is processed once; every processed message is acknowledged |
| requests (`ConnectionsManager.cpp`, `Request.cpp`) | `requestsQueue`, `runningRequests`, guid and quick-ack tables | sendRequest, cancelRequest, cancelRequestsForGuid, processRequestQueue, processServerResponse, onConnectionClosed | called from the application through tasks; answers from connections | every request is answered once or cancelled, and lost messages are sent again |
| event loop (`ConnectionsManager.cpp` select, scheduleTask, scheduleEvent, callEvents, wakeup; `EventObject.cpp`, `Timer.cpp`) | `pendingTasks`, `events`, eventfd/pipe | scheduleTask, wakeup, select, callEvents | every caller thread, every timer | a task scheduled by any thread is run; a timer fires once per start |
| network state (`ConnectionsManager.cpp` resumeNetwork, pauseNetwork, setNetworkAvailable, sendPing) | `lastPauseTime`, `networkPaused`, `networkAvailable` | resume, pause, select's pause branch, ping | application life cycle | a paused client sleeps only when nothing is transferred |
| salts (`Datacenter.cpp`) | `serverSalts` | getServerSalt, mergeServerSalts, addServerSalt, clearServerSalts | future_salts and bad_server_salt answers | an expired salt is never used when a valid one is known |
| addresses (`Datacenter.cpp`) | address lists, address and port numbers | getCurrentAddress, nextAddressOrPort, replaceAddresses, addAddressAndPort | Connection on every failure, updateDcSettings | the numbers stay inside the lists; every address is tried |
| moving between datacenters (`ConnectionsManager.cpp` moveToDatacenter, authorizeOnMovingDatacenter) | `movingToDatacenterId`, `currentDatacenterId` | migrate errors, export and import of the authorization | requests, handshakes | a move ends, in the old or in the new datacenter |
| proxy checks (`ConnectionsManager.cpp` checkProxyInternal) | active checks, queue | checkProxy, Proxy connection closed | four proxy connections | every check is answered once |
| ByteStream, BuffersStorage, NativeByteBuffer | queues of buffers and offsets; free lists per size | append, get, discard; getFreeBuffer, reuseFreeBuffer; positions and limits | sockets, every serializer | bytes are sent in order; a buffer has one owner |
| FileLoadOperation (`FileLoadOperation.cpp`) | requested parts, delayed parts | start, cancel, processRequestResult | requests | not modelled: the JNI methods that would create and start one are commented out (`src/client/android/jni/TgNetWrapper.cpp:47-127`), nothing runs it |
| TL scheme (`ApiScheme.cpp`, `MTProtoScheme.cpp`, `TLObject.cpp`) | none | serialize, parse | all | not modelled: mechanical serializers of the wire format |
| Java layer (`ConnectionsManager.java`, `NotificationCenter.java`, `DispatchQueue.java`, `UserConfig.java` ...) | observers, queues, preferences | post, observe, request tokens | JNI (`TgNetWrapper.cpp`) | not modelled yet |
| generator (`src/generator`) | none | TL scheme text to Kotlin classes | build time | not modelled yet |

What is hard to test here: the file store under crashes; tasks that capture
state and run later on the network thread; callbacks that re-enter the object
that called them (onDisconnected inside closeSocket inside checkTimeout inside
a loop over `activeConnections`); retries that race answers; a timer that must
bring a connection back.

## Modules

| module | part of the code | state | actions |
|---|---|---|---|
| `Config`, `MCConfig`, `ConfigProofs` | `Config.cpp` | `file` and `backup` (absent, torn, or the number of the write they hold), the local `hasBackupFile`, what was reported and loaded | one per library call that can fail or be interrupted: FindBackup, RestoreBackup, ReadConfig (constructor and readConfig); BeginWrite, OpenFile, WriteData, WriteFailed, WriteOk (writeConfig); Crash |
| `Handshake`, `MCHandshake`, `HandshakeProofs` | `Handshake.cpp`, the handshake list of `Datacenter.cpp`, the phases of `select` | the Handshake object, the permanent key and its id, the connection and the bytes on it, `pendingTasks`, the phase of the loop | tasks (RunTask, TasksDone, PostTask), events (Deliver with OnResPQ, OnServerDHParams, OnDHAnswer; Connected; Drop; ReconnectTimer; EndEvents), the end of select (Finish, Pause), the server |
| `Connection`, `MCConnection`, `ConnectionProofs` | `Connection.cpp`, `ConnectionSocket.cpp`, `Timer.cpp`, the polling of `select` | the record `c` of the fields of the three classes, the events that were polled and not handled yet | Poll, Handle (onEvent), TimerFires, Timeout, Suspend, Reconnect, Send, Ping, NetworkLost, NetworkBack; Establish, Refuse, Break of the kernel |
| `Session`, `MCSession`, `SessionProofs` | `ConnectionSession.cpp`, onConnectionDataReceived, the container loop of processServerResponse | processed ids, `minProcessedMessageId`, ids to confirm, packets under way | Receive, SendConfirmation, Drop; the server sends, sends again, complains, gets confirmations |
| `MessageIds`, `MCMessageIds`, `MessageIdsProofs` | generateMessageId, the answers that set `timeDifference` and `lastOutgoingMessageId` | the clocks, the difference in memory and on disk, the counter, per datacenter the last id of the push session and of another | Generate, GenerateForHandshake, TimePasses, ClockIsSet, OnPong, OnBadMsg, OnBadServerSalt, OnHandshakeComplete, CleanUp, AuthorizeOnMovingDatacenter, SaveConfig, Restart |
| `Requests`, `RequestContract`, `MCRequests`, `RequestsProofs` | sendRequest, cancelRequest, cleanUp, processRequestQueue, processServerResponse, onConnectionConnected, `Request.cpp` | `pendingTasks`, the two lists, message id, token and old ids of every request, `requestingSaltsForDc`, the connection, the server's memory and what it forgot | sendRequest, cancelRequest, cleanUp (other threads), RunTask, Select, onConnectionConnected, Drop, processServerResponse, four actions of the server |
| `Migration`, `MCMigration` | moveToDatacenter, authorizeOnMovingDatacenter, exportAuthorization, updateDcSettings, the errors 303 and 401, TryDifferentDc, the part of processRequestQueue that holds requests back | the record `w` of the manager (current and moving datacenter, known datacenters, keys, authorizations, flags, the list of requests), `tasks`, calls of the application's callbacks | RunTask, Epoll, Select, onDatacenterHandshakeComplete, the answers and errors of the server, calls of the application |
| `EventLoop`, `MCEventLoop`, `EventLoopProofs` | `select`, callEvents, scheduleTask, wakeup, `EventObject.cpp`, `Timer.cpp`, checkTimeout, attach/detachConnection, pauseNetwork, resumeNetwork, the push ping | the vector `activeConnections` with its stale slots, the list of timers with the iterator of callEvents, the phase of `select`, `pendingTasks`, the event descriptor, the threads that are about to write it, what keeps the network awake, ages of pauses, pings and silences in ticks | one per phase of the thread, HandleBadServerSalt, Tick, Delay, posted calls and Wakeup, sockets that fail |
| `ProxyChecks`, `MCProxyChecks`, `ProxyChecksProofs` | checkProxy, checkProxyInternal, the Proxy branches of onConnectionClosed, processRequestQueue and TL_pong | the active checks with their connections, the queue, the requests with their tokens, `pendingTasks`, four kinds of socket events | CheckProxy, CheckPendingTasks, Pass, Establish, Fail, Break, Pong |
| `Transport`, `MCTransport` | onReceivedData, getFreeBuffer, reuseFreeBuffer, the drop of a connection from a callback | the frames of the server, `restOfTheData`, `lastPacketLength`, the round of the loop, the buffers that are held | Receive, Round, LoopEnd, Close, Connect |
| `Addresses`, `MCAddresses` | getCurrentAddress, getCurrentPort, nextAddressOrPort, replaceAddresses, storeCurrentAddressAndPortNum, resetAddressAndPortNum and the constructor of `Datacenter.cpp`; the choice of connect, the counting of onDisconnected; applyDnsConfig, applyDatacenterAddress | the five lists, the numbers in memory and on disk, the key, the connections | Connect, Fail, Establish, FirstData, Break, Reconnect, UpdateDcSettings, ApplyDnsConfig, ApplyDatacenterAddress, KeyChanges, Restart |

`RequestContract` is the abstract specification of sendRequest: a request is
open until it is answered by one call, or withdrawn without one because the
application revoked it. `Requests` implements it (`KeepsContract`): the state of
a request is its outcome, its answers the calls of its callback, and what is
revoked are the cancellations and the cleanUps that are posted.

A handler that calls other handlers is written as operators that compose on a
record of its state (`Connection`, `Session`, `Requests`, `Migration`,
`EventLoop`, `ProxyChecks`), so that an action is
the whole handler with everything it calls. Each module is on its own; where
one uses another it keeps what it needs of it (`Handshake` and `Requests` have
the connection as down, connecting or up with a token; `Session` and
`Requests` have the server as one that repeats what is not confirmed and works
once on a message).

What is abstracted: payloads are numbers or model values; the cryptographic
checks of an answer are one Boolean; times are left out where the code only
compares them with a delay (a timer may fire, a request may be late, a socket
may time out at any moment); message ids of `Requests` and `Session` are
numbers in the order they are generated, and `MessageIds` shows when that is
so. The values of an uninitialized variable (`failedConnectionCount`, the error
of `checkSocketError` on a closed descriptor) are a choice.

## Runs

| run | bounds | shows |
|---|---|---|
| `config_faults` | 5 writes over all processes, any library call of writeConfig failing | crashes and failures in every order: what a restart finds never gets older; what was loaded stays recoverable; a write that was reported is found, until a failed write leaves its backup behind |
| `handshake` | 2 disturbances of 4 kinds, 2 tasks of other threads, 7 beginnings | the installed key is one the server has confirmed; the installing task finds its object; no wait for nothing; the exchange ends |
| `connection` | direct, upload and proxy-check connections, one dead and one live address, 2 failures, 2 calls | socket, timer and header of the stream agree with the state in every order of polling, tasks, timers and stale events; a token names one socket; the connection comes up |
| `session` | 4 ids, a window of 2 pruned by 1, 2 packets under way, one drop, one new session | messages are processed once around the pruning; confirmations reach the server while no connection is lost |
| `ids_safety` | 2 datacenters with a push session and another each, 2 seconds of 6 ids, 3 corrections, calls or restarts | ids increase in a session but for the first after the counter was reset under it; after a correction of the server ids keep to its time |
| `ids_bad_salt` (violation) | 1 datacenter, ids up to 24, 2 corrections | bad_server_salt sets the counter back inside a session |
| `requests` | 2 requests, a limit of 1, 2 requests for salts, one drop_answer, 2 troubles (cancel, cleanUp, failure, refusal, lost session, drop) | a request is in one list, is called back once, respects the limit, and ends while no connection is lost |
| `migration` | 2 datacenters of which one must be learnt, one login and one file request, one login, 2 troubles (303, 401, failed request, cleanUp, TryDifferentDc) | the current datacenter is known, a flag means a request that will clear it, callbacks are called once but for the error 401, the move of a client that is not logged in ends, a file of another datacenter is served |
| `event_loop` | 3 connections, periods of 1 and 2 ticks, one ready socket per poll, 2 troubles (failing sockets, calls of the application, late wake-ups, pushes, refused salts, time that passes while tasks run) | no wake-up is lost, no sleep is longer than what waits, the vector of open connections is what its owners think, a silent connection is closed, a dead push connection is replaced, a paused application lets the network sleep |
| `proxy_checks` | 3 checks, 2 connections, with and without a key, 2 breaks | a connection serves one check, a check is answered once, none waits while a connection is free, and all are answered but those whose connection breaks after it was connected |
| `transport` | 3 protocols, 3 frames of 5 lengths on the first connection and 1 on the next, reads of every size, headers of 3 bytes, buffers of 3 capacities | what is handed on is what was sent however TCP cut it, buffers are given back once, a new connection does not see bytes of the old one, the loop returns |
| `addresses` | a push and a media connection, 2 configurations, 1 dns configuration, IPv6, a proxy or neither, 2 troubles | a configuration that changes nothing changes no endpoint; a new address starts with its own port; a connection whose companion no longer fails reaches the endpoint that answers |

Each run checks the properties its `.cfg` names. What is a single question about
a component's state is one invariant made of named parts, which the module
states and explains one by one: `ExchangeSound`, `StateAgrees`, `WindowKept`,
`ListsKept`, `MovesConsistent`, `LoopSound`, `WakesInTime`, `ChecksSound` and
`BuffersSound` hold the type invariant of their module together with the parts
named in their definition (`WakesInTime` has no types).

Why the bounds are enough for the cases that matter: two writes and a failure
give every combination of file and backup (`config_faults` allows five); two
disturbances and two tasks put a restart and a cleanUp on both sides of the
installing task; two failures close a connection that is already reconnecting;
four ids fill the window, prune it and send a pruned message again; three
changes set the clock, correct it and restart the client or make its sessions
anew; two requests under a limit of one make
one wait for the other, and two troubles let a failure meet a cancellation, a
new session or a lost connection. In `migration` two troubles let an error meet
the cleanUp or the login that makes it harmful; in `event_loop` a period of two
ticks separates due, late and early, and a post whose wake-up is late counts as
two troubles, which puts any step of the thread between the two; in `proxy_checks` three checks on two
connections make one wait and one take a connection over; in `transport` headers
of three bytes can be cut in two places, lengths lie on both sides of the long
header, of the largest packet and of the kept buffers, and three frames put a
whole one between two cut ones; in `addresses` two troubles bring a
configuration and a second one, a key, a restart or a failure behind it. The
bounds are constants in the guards of
the actions and are named where they are declared. Deadlock is checked in
`Config`, `Connection`, `EventLoop` and `Transport`, and switched off where the
bounded system comes to rest (`Handshake`, `Session`, `MessageIds`, `Requests`,
`Migration`, `ProxyChecks`, `Addresses`).

Fairness. The network thread loops for ever: weak fairness of the tasks, of the
handling of events, of timers and of the passes over the requests. The
descriptors are registered with EPOLLET (`ConnectionSocket.cpp:176`, 415,
`ConnectionsManager.cpp:73`), so a change is reported once; but it stays pending
until an epoll_wait reports it, and a timer that is due stays due. A finished
connect and a due reconnect are therefore handled in some later iteration even if
others come first: strong fairness of Connected and ReconnectTimer in `Handshake`. The pass of
`Requests` that is fair is the one at which every running request is late,
because time passes. In `EventLoop` the thread is weakly and the clock strongly
fair: time goes on although the thread is busy now and then. Nothing is assumed
of Wakeup: no liveness property needs a task to be run. In `Addresses` an
attempt to connect ends; that a connection is opened again is a premise of the
property, not an assumption. The server, outside this code, is taken to receive, to
work and to answer; a network that was lost comes back. Nothing is assumed of
the application, of failures or of crashes.

### What the runs say about the code

One disagreement of the code with itself is a run of its own and a finding in
`PROJECT.json`: `ids_bad_salt`. Elsewhere the property says how far it holds, by
an exception that names the case; each exception was found by the model checker
and is what the code does:

- `ReportedDurable`: a write that fails after the backup was made leaves the
  backup; the next writes log "config write ok" (`Config.cpp:129`), and the next
  start replaces them by the stale backup.
- `CompletesUndisturbed`: a connection lost during the key exchange loses the
  request; `needResendData` is set and cleared, and nothing sends it again
  (`Handshake.cpp:957`).
- `ConfirmedUnlessLost`: a confirmation that is lost with its connection is not
  repeated, because addMessageToConfirm returns early for an id that was
  processed (`ConnectionSession.cpp:73`).
- `TokenMeansSent`, `AnsweredUnlessLost`: the pass of onConnectionConnected gives
  running requests the new token without sending them
  (`ConnectionsManager.cpp:2036`). And bad_server_salt makes the running
  requests go out again in the order of the list, which is not the order of their
  ids; when the server loses the session between a newer and an older message,
  TL_new_session_created starts only requests with smaller ids again
  (`ConnectionsManager.cpp:943`), and the newer one keeps its token for ever. The
  history variable `forgotten` names these messages, and both properties make an
  exception for them. The proof of `TokenMeansSent` failed on this case; the run
  with `Limit` 1 does not reach it, `Limit` 2 and three troubles do.
- `IdsIncrease`: the counter is one for the client. bad_server_salt resets it
  under every session; a bad_msg_notification under the sessions of the other
  datacenters and under the push session of its own, which recreateSessions does
  not make anew (`ConnectionsManager.cpp:1281`, `Datacenter.cpp:723-752`); a
  restart under the push session, whose id is in the file
  (`ConnectionsManager.cpp:357`). The first message of such a session may have an
  id that is not greater than the one before. `IdsFollowServer`: inside a
  container the time of the server is computed from id 0
  (`ConnectionsManager.cpp:1273`), and a handshake that ends brings a difference
  that was measured by an earlier clock.
- `MoveEnds`: the move of a logged in user waits for an export that
  processRequestQueue holds back while a move is under way
  (`ConnectionsManager.cpp:2647`, 2107), and each configuration adds another.
  `CurrentKnown` (of `MovesConsistent`): an export that is posted behind cleanUp ends the move a second
  time, and TryDifferentDc with a single datacenter chooses 0.
  `FlagMeansRequest` (of `MovesConsistent`): cleanUp drops requests without the callbacks that clear
  `exportingAuthorization`, `updatingDcSettings` and `requestingSaltsForDc`.
  `CalledOnce`: an error 401 of another datacenter is reported to the callback
  and the request is sent again.
- `NeverOversleeps` (of `WakesInTime`): the timer that callEvents calls last and
  that starts itself again at the end of the list is not seen, so while the network sleeps epoll_wait waits for the
  next push ping. `SleepsInTheEnd`: a pause that overtakes a posted resume keeps
  the network awake. So does `requestingSaltsForDc` (`ConnectionsManager.cpp:227`)
  while it is not empty, and cleanUp, which drops the request for salts without
  its callback, leaves it so for ever. While the network sleeps connection timeouts are only
  looked at when the thread wakes.
- `AnsweredInTheEnd` of proxy checks: when the connection breaks after it was
  connected the token is compared after it was set to 0, and the check keeps its
  connection for ever (`ConnectionsManager.cpp:657`).
- `Reassembled`: a quick acknowledgement that was cut stays in front of what is
  kept and is counted wrongly afterwards (`Connection.cpp:247`); a callback that
  reconnects frees the buffer the loop reads (`Connection.cpp:264`).
- `GetsThrough`: connections that fail in turn share the numbers and may pass an
  endpoint over for ever; with IPv6 the failure moves the numbers of the IPv4
  list, so the IPv6 address never changes and its port is taken from an IPv4
  address (`Connection.cpp:345`, 679). After a restart every saved address is
  the one the application was built with (`Datacenter.cpp:102-117`).

## Proofs

`ConfigProofs`, for any number of writes, processes, failures and crashes, from
the assumption that the two markers of a file without data are no numbers. The
inductive invariant `IInv` adds to the types that no file or backup is newer
than the last write begun, that writeConfig opens the file without a backup
only when there was none to keep, that a write about to be reported is complete,
and that the constructor restores only what exists. Without the second part
opening the file would destroy the only copy in a state the proof cannot
exclude.
From it follow `TypeCorrect`, `NeverRegresses` (an action property),
`LoadedIsKept` and `ReportedIsDurable`.

`MessageIdsProofs`, for any datacenters, clocks, delays, units and changes. `IInv`
adds to the types `LastBounds` (the last id of a session that outlived no reset of
the counter is at most the counter: a step compares a new id with the counter
only) and `Follows` (after a correction the corrected clock is behind the server
by no more than an answer was under way, and the counter is ahead by at most four
for each id made since). With `NewIdFacts` (a new id is above the counter, not
before the clock, and less than four above the greater of them) they give
`SessionIdsIncrease` (`IdsIncrease`) and `ServerIsFollowed` (`IdsFollowServer`).

`ConnectionProofs`, for any number of addresses, failures and calls. `IInv` is
the types with `TimerInOrder` (the reconnect timer is in the list of timers
exactly while it is started, it is started only in the state Reconnecting, a
connection that waits has a timer, a proxy check never waits) and
`SocketInOrder` (a socket exists exactly while the state is Connecting or
Connected, a token exactly while it is Connected, data leaves only behind the
64 bytes of the header; the token is the last one given, and was given to the
socket that was opened last). Both are needed because connect, suspendConnection,
onDisconnected and the timer call one another: each handler is a lemma about
the record `c`, whatever state of the record it starts from, and the lemma of a
caller cites those of the handlers it calls. From it: `AlwaysAgrees`
(`StateAgrees`), `AlwaysHeaderFirst` (`HeaderFirst`) and `AlwaysNamesSocket`
(`TokenNamesSocket`).

`HandshakeProofs`, for any disturbances, tasks and numbers of handshakes.
`KeyConfirmed` is not inductive: between the answer that confirms a key and the
task that installs it the exchange may start again or the handshake be dropped.
`IInv` adds that nonces under way come from handshakes that were begun (so a new
one is new), that a good dh_gen_ok comes from the server, which key and id each
state of the handshake has, that an exchange which started again cannot go on
before the task runs (its request leaves only at the end of the events), that an
object posts one install at most and it finds its object unless cleanUp removed
it, that drops and cleanUps are in the history, and that without a drop or a
pause the request or the answer a state waits on is under way. From it:
`AlwaysConfirmed` (`KeyConfirmed`) and `AlwaysSound` (`ExchangeSound`).

`SessionProofs`, for every size of the window, `Prune` from 1 to `Limit`, and any
number of messages, drops and new sessions. `IInv` says of the client that
`minProcessedMessageId` is 0 or an id that was seen, with at least
`Limit + 1 - Prune` seen ids from it on, that the list holds at most
`Limit + 1` seen ids of which one at most is below the minimum, and that a
message the library parses was handed on once at most; of the server that its ids
are used up in order and that what it repeats into the current session, if it
was seen, is still taken for processed; of the packets on the way the same, and
that a container holds one or two messages and is newer than they, than all that
was seen and than all that is before it. The bound on the ids from the minimum
on makes pruning safe: what is refused as too old is older than that many
newer messages. From it: `AlwaysWindowKept` (`WindowKept`) and
`AlwaysParsedOnce` (`ParsedOnce`).

`ProxyChecksProofs`, for every finite set of checks and of connections. `IInv`
is `InOrder(p, asked, {}, 0)`; its last two arguments are the checks whose
request is being sent and the number of checks being started, so that the same
formula holds between two steps and in the middle of one. Its parts: `Placed`
(each check is in one place), `Single` (once there, and answered once), `Held` (a
connection belongs to one check, whose request is running or will be; the pings
at the server are of requests that are running or answered), `Keyed` (without an
auth key no check gets a connection) and `Busy` (while a check waits, as many
checks hold or will take a connection as there are connections). `Busy` is what
`ChecksSound` needs and no single handler shows. From it: `AlwaysRemembered`
(`NoneForgotten`) and `AlwaysSound` (`ChecksSound`).

`RequestsProofs`, for every set of requests, `Limit` at least 1, any number of
troubles; `RequestsAssumption` asks that requests of the application, for salts
and for dropping an answer are different and that those for salts are finite in
number. `IInv` says:

- `TasksFit`, `NotifyFits`: a request has one sending task at most and it stands
  before the cancellation of that request; one cancellation at most notifies the
  server, and it still finds an unused request for rpc_drop_answer;
- `Placed`, `Counted`, `Linked`: a pending request is in exactly one of the lists
  or in its sending task, the running ones are bounded, callbacks were called
  once; tokens count the connections, and ids of messages and kept answers were
  generated before;
- `Untouched`: before the first connection nothing runs or is on its way;
- `SaltsLeft`: each bad_server_salt still to come finds an unused request for
  salts, without which the flag `requestingSaltsForDc` could stay set with none;
- `SaltsAreRequested` and `TokenMeansSent` themselves.

processRequestQueue goes over the two lists in loops, modelled by recursive
functions. What a loop preserves is proved by induction over the number of
requests left: every non-empty set of naturals has a least element (`NatMin`),
and a property without a least counterexample holds (`SetInduction`). `LoopExists` gives a recursive
function its equation. For the refinement, `Moves` states what a step
may do to the outcome and the calls of one request, each handler is shown to
stay within it, and `ImplementsContract` maps this to a step of `RequestContract`
or to a stutter. Theorems: `AlwaysListsKept` (`ListsKept`),
`AlwaysSaltsAreRequested`, `AlwaysTokenMeansSent` and `ImplementsContract`
(`KeepsContract`).

`EventLoopProofs`, for all durations that `EventLoopAssumption` allows (an answer
to a push ping is due, and a closed push connection is tried again, before the
next ping) and any number of troubles. Neither `LoopSound` nor `WakesInTime` is
inductive. `IInv` adds what the functions of the loop rely on without saying so:

- `Vector`: the slots of `activeConnections` up to its size are there, hold a
  connection once, and hold it exactly while its socket is open; only a
  connection whose socket is open has been silent for any time. The last is why
  a stale slot behind the end of the vector closes nothing a second time: the
  connection in it was closed, so it has not timed out;
- `Timers`: the list of timers holds a timer once and is sorted by the time that
  is left, which makes the event at which callEvents stops the next one.

Both are stated for a record and a set of connections that are being opened or
closed and are left out (`Sound(d, S)`): within closeSocket or connect the
vector and the state of one connection disagree. Each handler is a lemma on the
record, whatever state it starts from. `Frame` is what a handler of one
connection leaves alone; `Carries` is what all of `select` keeps: the record is
sound, nothing is closed twice, and who is awake stays awake. The loops of
callEvents and over `activeConnections` go from a set of possible records to the
next; they are proved by induction over their rounds as in `RequestsProofs`. For
the loop of callEvents the invariant is that a timer in the list takes its full
time or is still to be called. Theorems: `AlwaysLoopSound` (`LoopSound`) and
`AlwaysWakesInTime` (`WakesInTime`).

The proof also made the model sharper: `NeverOversleeps` first made its
exception for every timer that started itself again; the invariant showed that
only the last one that was called can be missed, and `Pending` now says so.

Only model-checked: the safety of `Migration`, `Transport` and `Addresses`, and
every liveness property. Liveness rests on fairness and is beyond the prover.
`Reassembled` compares what was handed on with folds over the frames of the
server; what those compute for every stream takes an induction over data, which
the provers do not find either. Of `Migration` and `Addresses` nothing of that
kind stands in the way; their invariants are the first item of the plan.

## Not modelled

Left out of the modules above: a bad_msg_notification inside a container in
`Session` (it is in `MessageIds`); the codes of a bad_msg_notification that
processServerResponse passes over (`ConnectionsManager.cpp:1298`), which are about
messages this client does not form; a proxy check during a move to another
datacenter, whose ping waits for the end of the move (`ConnectionsManager.cpp:1861`,
2107); in `Connection` a static address, which is kept while a proxy is set
(`Datacenter.cpp:210`; it is in `Addresses`); temporary keys (`PFS_ENABLED` is 0), CDN keys and
CDN datacenters, the connection types of uploads and downloads in `Requests`,
initConnection, invokeAfter, guids, destroy_session (its iterator is used after
it was erased, `ConnectionsManager.cpp:2080`) and msg_detailed_info, obfuscation
and the fake-TLS proxy secret, the decoding of dns configurations, the salts of a
datacenter (getServerSalt, mergeServerSalts: a merge of two lists that a unit
test reaches), the number formats of NativeByteBuffer and the queue of
ByteStream. Not modelled at all: the TL scheme (no state), FileLoadOperation
(nothing starts one), logging, the JNI wrapper (forwards calls), the Java and
Kotlin layers, the generator, vendored code.

## Plan

1. Proofs: `MovesConsistent` and `CalledOnce` of `Migration`, `BuffersSound` of
   `Transport`, the range of the numbers and `ConfigKeepsEndpoint` in
   `Addresses`.
2. `Requests` with invokeAfter (the order in which requests reach the server)
   and the other connection types.
3. `Connection` as an implementation of the connection that `Handshake` and
   `Requests` assume.
4. The salts as operators with lemmas: a salt that getServerSalt returns is valid
   at the time it is asked for.
