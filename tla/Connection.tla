----------------------------- MODULE Connection -----------------------------
(***************************************************************************)
(* One TCP connection: Connection.cpp with its ConnectionSocket.cpp and    *)
(* reconnect Timer.cpp, and the order in which select                      *)
(* (ConnectionsManager.cpp) polls, runs tasks and timers, and handles the  *)
(* events it polled.                                                       *)
(*                                                                         *)
(* The connection is the record c.  A handler is an operator from a record *)
(* to the set of records it may leave behind, so that handlers that call   *)
(* each other (onEvent, reconnect, suspendConnection, closeSocket,         *)
(* onDisconnected) compose as they do in the code.  Time is left out: a    *)
(* started timer may fire and a silent socket may time out at any moment.  *)
(***************************************************************************)
EXTENDS Integers, FiniteSets

CONSTANTS
    Kinds,          \* the kinds of connection, of which the model has one
    Addresses,      \* number of address and port pairs of the datacenter
    LiveAddresses,  \* those at which a server answers
    MaxFailures,    \* bound on socket failures and unusable data
    MaxCalls        \* bound on calls of the application and the manager

ASSUME ConnectionAssumption ==
    /\ Kinds \subseteq [useProxy : BOOLEAN, proxyCheck : BOOLEAN, auto : BOOLEAN]
    /\ Addresses \in Nat \ {0}
    /\ LiveAddresses \subseteq 0..(Addresses - 1)
    /\ MaxFailures \in Nat /\ MaxCalls \in Nat

VARIABLES
    kind,       \* useProxy: a SOCKS5 proxy is set, without a secret;
                \* proxyCheck: connectionType is ConnectionTypeProxy;
                \* auto: Generic, of the current datacenter or in a handshake
    c,          \* the connection
    ready,      \* the events that epoll_wait returned and onEvent has yet to handle
    network,    \* isNetworkAvailable
    failures,   \* failures so far
    calls       \* calls so far

vars == <<kind, c, ready, network, failures, calls>>

States == {"Idle", "Connecting", "Reconnecting", "Connected", "Suspended"}
Events == {"in", "out", "hup"}

(* The error code given to onDisconnected: ECONNRESET and EHOSTUNREACH
   (0x68, 0x71) are told apart from all others. *)
Errors == {"reset", "other"}

(* failedConnectionCount is only compared with willRetryConnectCount, which
   is at most 5; FailCap stands for every larger value. *)
FailCap == 6

(* The fields that are not named for a member of the classes: fd is the
   socket as the kernel sees it; sent is onConnectedSent; out is what the
   unsent part of outgoingByteStream starts with (the 64-byte header that
   carries the keys of the stream, or later data); first is firstPacketSent
   and begun says that the header left on this socket; queued counts the
   entries of the timer in the list of events; last is the token given last
   and, a history, opened the one given last when a socket was closed. *)
Connections ==
    [st : States, fd : {"none", "connecting", "established", "error"}, sent : BOOLEAN,
     proxy : 0..6, out : {"none", "header", "data"}, first : BOOLEAN,
     begun : BOOLEAN, wait : BOOLEAN, started : BOOLEAN, queued : Nat,
     token : Nat, last : Nat, opened : Nat, failed : 0..FailCap,
     willRetry : {1, 3, 5}, force : BOOLEAN, was : BOOLEAN,
     someData : BOOLEAN, useful : BOOLEAN, addr : 0..(Addresses - 1)]

TypeOK ==
    /\ kind \in Kinds
    /\ c \in Connections
    /\ ready \subseteq Events
    /\ network \in BOOLEAN
    /\ failures \in 0..MaxFailures
    /\ calls \in 0..MaxCalls

(* failedConnectionCount has no initial value. *)
Init ==
    /\ kind \in Kinds
    /\ \E f \in 0..FailCap :
         c = [st |-> "Idle", fd |-> "none", sent |-> FALSE, proxy |-> 0,
              out |-> "none", first |-> FALSE, begun |-> FALSE,
              wait |-> FALSE, started |-> FALSE, queued |-> 0,
              token |-> 0, last |-> 0, opened |-> 0, failed |-> f,
              willRetry |-> 5, force |-> FALSE, was |-> FALSE, someData |-> FALSE,
              useful |-> FALSE, addr |-> 0]
    /\ ready = {}
    /\ network = TRUE
    /\ failures = 0
    /\ calls = 0

----------------------------------------------------------------------------
(* Timer: started is its flag, queued the number of its entries in the list of
   events.  (The operators below that are said to vary another are wrong on
   purpose, for the mutation runs.) *)
Stop(d) ==
    IF d.started
    THEN [d EXCEPT !.started = FALSE, !.queued = IF @ > 0 THEN @ - 1 ELSE 0]
    ELSE d

Start(d) ==
    IF d.started THEN d ELSE [d EXCEPT !.started = TRUE, !.queued = @ + 1]

----------------------------------------------------------------------------
(* onDisconnected. *)
Retried(d) ==
    LET f == IF d.failed < FailCap THEN d.failed + 1 ELSE FailCap IN
    {[d EXCEPT !.failed = f, !.willRetry = w] :
        w \in IF f = 1 THEN (IF d.useful THEN {1, 3} ELSE {1}) ELSE {d.willRetry}}

(* nextAddressOrPort (KeptAddress varies it), when the network is there and the
   address has been tried often enough.  The addresses are a ring here; the
   lists, their ports and the static address, which is kept while a proxy is
   set, are in module Addresses. *)
KeptAddress(d, switchToNextPort) == d

Rotated(d, switchToNextPort) ==
    IF network /\ (d.failed > d.willRetry \/ switchToNextPort)
    THEN [d EXCEPT !.addr = (@ + 1) % Addresses, !.failed = 0]
    ELSE d

(* Varies Rescheduled: the timer is not started after a reset. *)
RescheduledWithoutTimer(d, error) ==
    IF error = "reset" THEN [d EXCEPT !.wait = TRUE] ELSE d

Rescheduled(d, error) ==
    IF error = "reset"
    THEN IF kind.proxyCheck THEN d ELSE Start([d EXCEPT !.wait = TRUE])
    ELSE IF kind.auto THEN Start([d EXCEPT !.wait = FALSE])
                          ELSE [d EXCEPT !.wait = FALSE]

onDisconnected(d, reason, error) ==
    LET switch == (d.was /\ ~d.someData /\ reason = 2) \/ d.force
        closed == [Stop(d) EXCEPT !.first = FALSE, !.was = FALSE, !.token = 0]
    IN  IF d.st = "Suspended"
        THEN {[closed EXCEPT !.useful = FALSE]}
        ELSE {[Rescheduled(Rotated(r, switch), error) EXCEPT !.useful = FALSE] :
                 r \in Retried([closed EXCEPT !.st = "Reconnecting"])}

(* closeSocket (ShutKeepingStream varies it: the stream is not cleaned). *)
ShutKeepingStream(d) ==
    [d EXCEPT !.fd = "none", !.begun = FALSE, !.proxy = 0, !.sent = FALSE,
              !.opened = d.last]

Shut(d) ==
    [d EXCEPT !.fd = "none", !.begun = FALSE, !.proxy = 0, !.sent = FALSE,
              !.out = "none", !.opened = d.last]

closeSocket(d, reason, error) == onDisconnected(Shut(d), reason, error)

(* connect and openConnection.  At an address where no server answers the
   socket may fail at once: openConnection then closes it before it returns. *)
connect(d) ==
    IF d.wait \/ ~network \/ d.st \in {"Connected", "Connecting"}
    THEN {d}
    ELSE LET opening == [Stop(d) EXCEPT !.st = "Connecting", !.first = FALSE,
                                        !.was = FALSE, !.someData = FALSE]
         IN  {[opening EXCEPT !.fd = "connecting",
                              !.proxy = IF kind.useProxy THEN 1 ELSE 0]}
             \cup IF d.addr \in LiveAddresses THEN {}
                  ELSE closeSocket(opening, 1, "other")

suspendConnection(d, idle) ==
    LET stopped == [Stop(d) EXCEPT !.wait = FALSE] IN
    IF d.st \in {"Idle", "Suspended"}
    THEN {stopped}
    ELSE {[e EXCEPT !.first = FALSE, !.token = 0, !.was = FALSE] :
             e \in closeSocket([stopped EXCEPT !.st = IF idle THEN "Idle" ELSE "Suspended"],
                               0, "other")}

reconnect(d) ==
    IF kind.proxyCheck
    THEN suspendConnection(d, FALSE)
    ELSE UNION {connect(e) : e \in suspendConnection([d EXCEPT !.force = TRUE], TRUE)}

(* sendData: what finds no socket is dropped; the first data on a socket
   follows the header. *)
Queued(d) ==
    IF d.fd = "none" THEN d
    ELSE [d EXCEPT !.out = IF @ # "none" THEN @ ELSE IF d.first THEN "data" ELSE "header",
                   !.first = TRUE]

sendData(d) ==
    {Queued(e) :
        e \in IF d.st \in {"Idle", "Reconnecting", "Suspended"} THEN connect(d) ELSE {d}}

----------------------------------------------------------------------------
(* onEvent.  A step of it is a record: the connection it leaves, whether the
   handler returns there, and what it costs in failures. *)
Step(d, return, cost) == [conn |-> d, return |-> return, cost |-> cost]
Steps(ds, return, cost) == {Step(d, return, cost) : d \in ds}

(* checkSocketError on a socket that is gone leaves its argument
   uninitialized, and a failed socket has any error. *)
ClosedWithAnyError(d) ==
    Steps(UNION {closeSocket(d, 1, e) : e \in Errors}, TRUE, 0)

(* closeSocket, then adjustWriteOp on the closed descriptor, which fails and
   closes again. *)
ClosedTwice(d) ==
    UNION {closeSocket(e, 1, "other") : e \in closeSocket(d, 1, "other")}

(* The answers of a SOCKS5 proxy. *)
ProxyAnswer(d) ==
    CASE d.proxy = 2 ->
             Steps({[d EXCEPT !.proxy = 3], [d EXCEPT !.proxy = 5]}, FALSE, 0)
             \cup Steps(ClosedTwice(d) \cup closeSocket(d, 1, "other"), FALSE, 1)
      [] d.proxy = 4 ->
             {Step([d EXCEPT !.proxy = 5], FALSE, 0)}
             \cup Steps(ClosedTwice(d) \cup closeSocket(d, 1, "other"), FALSE, 1)
      [] d.proxy = 6 ->
             {Step([d EXCEPT !.proxy = 0], FALSE, 0)}
             \cup Steps(closeSocket(d, 1, "other"), FALSE, 1)
      [] OTHER -> {Step(d, FALSE, 0)}

(* onReceivedData: packets that are understood, or one that makes the
   connection reconnect; the loop may go on to the packets behind it. *)
ReceivedData(d) ==
    LET got == [d EXCEPT !.failed = 0, !.someData = TRUE]
        renewed == reconnect(got)
    IN  {Step(got, FALSE, 0), Step([got EXCEPT !.useful = TRUE], FALSE, 0)}
        \cup Steps(renewed \cup {[e EXCEPT !.someData = TRUE] : e \in renewed}, FALSE, 1)

(* EPOLLIN.  A read that fills the buffer is followed by another, and a recv
   that has nothing to return counts as an error; at the end of the stream it
   returns 0. *)
OnReadable(d) ==
    CASE d.fd \in {"none", "error"} -> ClosedWithAnyError(d)
      [] d.fd = "connecting" -> Steps(closeSocket(d, 1, "other"), TRUE, 0)
      [] d.fd = "established" ->
             LET got == IF d.proxy = 0 THEN ReceivedData(d) ELSE ProxyAnswer(d)
                 end == IF "hup" \in ready THEN {Step(d, FALSE, 0)} ELSE {}
             IN  got \cup end
                 \cup Steps(UNION {closeSocket(e, 1, "other") : e \in {d} \cup {r.conn : r \in got}},
                            TRUE, 1)

(* onConnected, once for a socket (ConnectedAgain varies it: each time it can be
   written); onConnectionConnected may send at once. *)
ConnectedAgain(d) ==
    {[d EXCEPT !.st = "Connected", !.token = d.last + 1, !.last = d.last + 1,
               !.was = TRUE, !.sent = TRUE]}

Connected(d) ==
    IF d.sent THEN {d}
    ELSE LET up == [d EXCEPT !.st = "Connected", !.token = d.last + 1,
                             !.last = d.last + 1, !.was = TRUE, !.sent = TRUE]
         IN  {up, Queued(up)}

(* What send leaves of the stream. *)
Written(d) ==
    {[d EXCEPT !.out = rest, !.begun = TRUE] : rest \in {"none", "data"}}

(* EPOLLOUT.  send on a socket that is not yet connected fails. *)
OnWritable(d) ==
    CASE d.fd \in {"none", "error"} -> ClosedWithAnyError(d)
      [] d.fd \in {"connecting", "established"} /\ d.proxy \in {1, 3, 5} ->
             IF d.fd = "connecting" THEN Steps(closeSocket(d, 1, "other"), TRUE, 0)
             ELSE {Step([d EXCEPT !.proxy = @ + 1], FALSE, 0)}
      [] d.fd \in {"connecting", "established"} /\ d.proxy \in {2, 4, 6} -> {Step(d, FALSE, 0)}
      [] d.fd \in {"connecting", "established"} /\ d.proxy = 0 ->
             UNION {CASE e.out = "none" -> {Step(e, FALSE, 0)}
                      [] e.out # "none" /\ e.fd = "connecting" ->
                             Steps(closeSocket(e, 1, "other"), TRUE, 0)
                      [] OTHER -> Steps(Written(e), FALSE, 0) : e \in Connected(d)}

OnHangup(d) == Steps(closeSocket(d, 1, "other"), TRUE, 0)

(* The part of onEvent for one event, after the parts before it. *)
Then(steps, event, Part(_)) ==
    IF event \notin ready THEN steps
    ELSE UNION {IF r.return THEN {r}
                ELSE {[q EXCEPT !.cost = @ + r.cost] : q \in Part(r.conn)} : r \in steps}

onEvent(d) ==
    Then(Then(Then({Step(d, FALSE, 0)}, "in", OnReadable), "out", OnWritable), "hup", OnHangup)

----------------------------------------------------------------------------
(* The kernel. *)
Establish ==
    /\ c.fd = "connecting"
    /\ c.addr \in LiveAddresses
    /\ c' = [c EXCEPT !.fd = "established"]
    /\ UNCHANGED <<kind, ready, network, failures, calls>>

Refuse ==
    /\ c.fd = "connecting"
    /\ c.addr \notin LiveAddresses
    /\ c' = [c EXCEPT !.fd = "error"]
    /\ UNCHANGED <<kind, ready, network, failures, calls>>

Break ==
    /\ c.fd \in {"connecting", "established"}
    /\ failures < MaxFailures
    /\ failures' = failures + 1
    /\ c' = [c EXCEPT !.fd = "error"]
    /\ UNCHANGED <<kind, ready, network, calls>>

(* adjustWriteOp: EPOLLOUT is asked for while there is something to write. *)
WantsWrite(d) ==
    \/ d.proxy = 0 /\ (d.out # "none" \/ ~d.sent)
    \/ d.proxy \in {1, 3, 5}

(* epoll_wait, which tells of a failed socket, of one that can be written or
   read, and of the end of the stream.  Tasks and timers run between it and
   onEvent. *)
Poll ==
    /\ ready = {}
    /\ \/ /\ c.fd = "error"
          /\ ready' = Events
          /\ UNCHANGED failures
       \/ /\ c.fd = "established"
          /\ \E i \in SUBSET (IF c.proxy \in {0, 2, 4, 6} THEN {"in"} ELSE {}) :
               ready' = i \cup (IF WantsWrite(c) THEN {"out"} ELSE {})
          /\ ready' # {}
          /\ UNCHANGED failures
       \/ /\ c.fd = "established"
          /\ failures < MaxFailures
          /\ failures' = failures + 1
          /\ ready' = {"in", "hup"}
    /\ UNCHANGED <<kind, c, network, calls>>

Handle ==
    /\ ready # {}
    /\ ready' = {}
    /\ \E r \in onEvent(c) :
         /\ failures + r.cost <= MaxFailures
         /\ c' = r.conn
         /\ failures' = failures + r.cost
    /\ UNCHANGED <<kind, network, calls>>

(* callEvents takes the timer's entry out of the list and calls it. *)
TimerFires ==
    /\ c.queued > 0
    /\ c' \in connect([Stop([c EXCEPT !.queued = @ - 1]) EXCEPT !.wait = FALSE])
    /\ UNCHANGED <<kind, ready, network, failures, calls>>

(* checkTimeout, at the end of select: a server that does not answer, or a
   connect that takes too long. *)
Timeout ==
    /\ ready = {}
    /\ c.fd \in {"connecting", "established"}
    /\ \/ c.fd = "connecting" /\ c.addr \notin LiveAddresses /\ UNCHANGED failures
       \/ failures < MaxFailures /\ failures' = failures + 1
    /\ c' \in closeSocket(c, 2, "other")
    /\ UNCHANGED <<kind, ready, network, calls>>

----------------------------------------------------------------------------
(* Calls of the manager, from tasks. *)
Call(d) ==
    /\ calls < MaxCalls
    /\ calls' = calls + 1
    /\ c' \in d
    /\ UNCHANGED <<kind, ready, network, failures>>

Suspend == Call(suspendConnection(c, FALSE))

Reconnect == Call(reconnect(c))

Send == c.fd # "none" /\ Call(sendData(c))

(* sendPing every 19 seconds, and requests, while there is no connection. *)
Ping ==
    /\ c.fd = "none"
    /\ c' \in sendData(c)
    /\ UNCHANGED <<kind, ready, network, failures, calls>>

(* setNetworkAvailable. *)
NetworkLost ==
    /\ network
    /\ calls < MaxCalls
    /\ calls' = calls + 1
    /\ network' = FALSE
    /\ UNCHANGED <<kind, c, ready, failures>>

NetworkBack ==
    /\ ~network
    /\ network' = TRUE
    /\ c' \in connect(c) \cup {c}
    /\ UNCHANGED <<kind, ready, failures, calls>>

Next ==
    \/ Establish \/ Refuse \/ Break
    \/ Poll \/ Handle \/ TimerFires \/ Timeout
    \/ Suspend \/ Reconnect \/ Send \/ Ping
    \/ NetworkLost \/ NetworkBack

Spec == Init /\ [][Next]_vars

Fairness ==
    /\ WF_vars(Establish) /\ WF_vars(Refuse)
    /\ WF_vars(Poll) /\ WF_vars(Handle)
    /\ WF_vars(TimerFires) /\ WF_vars(Ping)
    /\ WF_vars(NetworkBack)

FairSpec == Spec /\ Fairness

----------------------------------------------------------------------------
(* While connect is refused because of waitForReconnectTimer, the timer that
   will lift the refusal is running: no order of closing, suspending and
   stale events leaves a connection that refuses to connect for ever. *)
WaitHasTimer == c.wait => c.started

(* The reconnect timer is in the list of events once when it is started and
   not at all when it is stopped, so it never fires for a connection that was
   suspended or is connected. *)
TimerQueuedOnce ==
    /\ c.queued = (IF c.started THEN 1 ELSE 0)
    /\ c.started => c.st = "Reconnecting"

(* A connection that says it is connecting or connected holds a socket, and no
   other holds one: nothing is leaked by reconnecting from inside a handler,
   and sendData never believes in a socket that is gone. *)
SocketMatchesState == c.st \in {"Connecting", "Connected"} <=> c.fd # "none"

(* A connection has a token exactly while it is connected: answers, pings and
   running requests are tied to it by that number. *)
TokenMatchesState == c.token # 0 <=> c.st = "Connected"

(* The state of a connection, its socket, its token and its timer agree after
   every event and every call, however they are nested in one another
   (onEvent, closeSocket, onDisconnected, connect and suspendConnection). *)
StateAgrees ==
    /\ TypeOK
    /\ WaitHasTimer /\ TimerQueuedOnce
    /\ SocketMatchesState /\ TokenMatchesState

(* Every socket starts with the header that carries its keys: later data is
   queued only behind it, and firstPacketSent is true exactly when the header
   is queued or has been sent on the socket that is open now. *)
HeaderFirst ==
    /\ c.out = "data" => c.begun
    /\ c.first <=> (c.out = "header" \/ c.begun)

(* A token names one socket: an open socket gets no second one, which would
   make the requests that were sent on it look lost, and none that an earlier
   socket had, which would make the requests lost with that one look sent
   (onConnected, onConnectedSent and closeSocket). *)
TokenNamesSocket == c.token # 0 => c.token = c.last /\ c.last = c.opened + 1

(* Once the failures and the calls are over, a connection that is not there
   to check a proxy comes up and stays up, however many addresses are dead and
   wherever it was interrupted: it never keeps retrying a dead address, never
   waits for a timer that is not running, and recovers from a stale event
   taken for a new socket. *)
ComesUp ==
    ~kind.proxyCheck => <>[](c.st = "Connected" /\ c.fd = "established")
=============================================================================
