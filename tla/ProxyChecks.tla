----------------------------- MODULE ProxyChecks -----------------------------
(***************************************************************************)
(* checkProxy of ConnectionsManager.cpp: a check connects through the      *)
(* proxy and sends a ping.  Each check that is under way holds one of      *)
(* PROXY_CONNECTIONS_COUNT connections, the others wait in a queue; a pong *)
(* or the task posted when the connection closes ends a check and starts   *)
(* the next.                                                               *)
(*                                                                         *)
(* The token of a request is kept relative to its connection: "none" is 0, *)
(* "current" is the token the connection has, "old" one that it had.  A    *)
(* connection without a socket has the token 0.  The network is there.     *)
(***************************************************************************)
EXTENDS Integers, Sequences, FiniteSets, SequencesExt

CONSTANTS
    Checks,         \* the checks the application asks for
    Slots,          \* the numbers of the proxy connections
    MaxBreaks       \* bound on connected sockets that break and on connects
                    \* that fail at once

ASSUME ProxyAssumption ==
    /\ IsFiniteSet(Checks) /\ Slots # {} /\ Slots \subseteq Nat /\ IsFiniteSet(Slots)
    /\ MaxBreaks \in Nat

VARIABLES
    hasKey,     \* the default datacenter has an auth key
    asked,      \* the checks that checkProxy was called for
    p,          \* the thread: tasks, lists of checks and requests, connections
    breaks      \* breaks so far

vars == <<hasKey, asked, p, breaks>>

(* The pending tasks: a check is started, its request is put in the queue, or
   a connection has been closed. *)
Tasks == [task : {"start", "send"}, check : Checks] \cup [task : {"closed"}, slot : Slots]
Start(c) == [task |-> "start", check |-> c]
Send(c) == [task |-> "send", check |-> c]
ClosedTask(s) == [task |-> "closed", slot |-> s]

(* active is proxyActiveChecks: the connection each check holds; waiting is
   proxyCheckQueue; running the requests of checks that were sent, with their
   tokens; conn the sockets, and ping the checks whose ping is in the stream
   of the socket.  answers counts the calls of onRequestTime; dropped are the
   checks that are deleted, or leaked, without one; lost are those whose
   connection broke after it was connected. *)
TypeOK ==
    /\ hasKey \in BOOLEAN
    /\ asked \subseteq Checks
    /\ breaks \in 0..MaxBreaks
    /\ p.tasks \in Seq(Tasks)
    /\ DOMAIN p.active \subseteq Checks /\ Range(p.active) \subseteq Slots
    /\ p.waiting \in Seq(Checks)
    /\ DOMAIN p.running \subseteq Checks /\ Range(p.running) \subseteq {"none", "current", "old"}
    /\ p.conn \in [Slots -> {"closed", "connecting", "connected"}]
    /\ p.ping \in [Slots -> SUBSET Checks]
    /\ p.answers \in [Checks -> Nat]
    /\ p.dropped \subseteq Checks /\ p.lost \subseteq Checks

Init ==
    /\ hasKey \in BOOLEAN
    /\ asked = {}
    /\ breaks = 0
    /\ p = [tasks |-> <<>>, active |-> <<>>, waiting |-> <<>>, running |-> <<>>,
            conn |-> [s \in Slots |-> "closed"], ping |-> [s \in Slots |-> {}],
            answers |-> [c \in Checks |-> 0], dropped |-> {}, lost |-> {}]

Without(f, c) == Restrict(f, DOMAIN f \ {c})
With(f, c, v) == [x \in DOMAIN f \cup {c} |-> IF x = c THEN v ELSE f[x]]

----------------------------------------------------------------------------
(* The connection.  onConnectionClosed posts a task; what was in the stream is
   gone and the token the requests have is old. *)
Closed(d, s) ==
    [d EXCEPT !.conn[s] = "closed", !.ping[s] = {},
              !.running = [c \in DOMAIN @ |-> IF @[c] = "current" /\ d.active[c] = s
                                              THEN "old" ELSE @[c]],
              !.tasks = Append(@, ClosedTask(s))]

(* connect may fail at once: a set of pairs of a state and a cost. *)
Free(d) == [d |-> d, cost |-> 0]

connect(d, s) ==
    IF d.conn[s] # "closed" THEN {Free(d)}
    ELSE {Free([d EXCEPT !.conn[s] = "connecting"]), [d |-> Closed(d, s), cost |-> 1]}

Then(rs, Op(_)) == UNION {{[q EXCEPT !.cost = @ + r.cost] : q \in Op(r.d)} : r \in rs}

(* suspendConnection calls onConnectionClosed itself, after closeSocket did;
   a connection that is suspended already stays as it is, and one that waits
   for nothing but to be opened again is closed as well. *)
Suspended(d, s) == Closed(Closed(d, s), s)

(* checkProxyInternal takes the first connection that no check holds.
   (FirstSlot varies FreeSlots: it does not look at the checks.  Operators that
   are said to vary another are wrong on purpose.) *)
FirstSlot(d) == Slots

FreeSlots(d) == Slots \ Range(d.active)

StartCheck(d, c) ==
    IF FreeSlots(d) = {} THEN {Free([d EXCEPT !.waiting = Append(@, c)])}
    ELSE IF ~hasKey THEN {Free([d EXCEPT !.dropped = @ \cup {c}])}
    ELSE LET s == CHOOSE x \in FreeSlots(d) : \A y \in FreeSlots(d) : x <= y IN
         Then(connect(d, s),
              LAMBDA e : {Free([f EXCEPT !.active = With(@, c, s), !.tasks = Append(@, Send(c))]) :
                             f \in {Suspended(e, s)}})

(* The request goes to the list of running requests with the token its
   connection has; sendData connects once more when the first try failed.  No
   move to another datacenter is under way: the request would wait for its end
   in requestsQueue. *)
Written(d, s, c) ==
    IF d.conn[s] = "closed" THEN d ELSE [d EXCEPT !.ping[s] = @ \cup {c}]

SendRequest(d, c) ==
    LET s == d.active[c]
        Running(e) == {Free([e EXCEPT !.running = With(@, c, IF e.conn[s] = "connected"
                                                             THEN "current" ELSE "none")])}
        Write(e) == {Free(Written(e, s, c))}
    IN  Then(Then(Then(connect(d, s), Running), LAMBDA e : connect(e, s)), Write)

----------------------------------------------------------------------------
(* The end of a check: its slot is free, and the next is started by a task. *)
Ended(d, c) ==
    LET e == [d EXCEPT !.active = Without(@, c)] IN
    IF e.waiting = <<>> THEN e
    ELSE [e EXCEPT !.tasks = Append(@, Start(Head(e.waiting))), !.waiting = Tail(@)]

(* The request is erased and the application is called. *)
Answered(d, c) ==
    [d EXCEPT !.running = Without(@, c), !.answers[c] = @ + 1]

(* The task of onConnectionClosed: it looks for a running request of the check
   that holds the connection, with the token the connection has by now.
   (OnClosedForgets and OnClosedByToken vary it: one ends the check in any
   case, the other leaves a request alone that has no token yet.) *)
OnClosedForgets(d, s) ==
    LET cs == {c \in DOMAIN d.active : d.active[c] = s} IN
    IF cs = {} THEN d ELSE Ended(d, CHOOSE c \in cs : TRUE)

OnClosedByToken(d, s) ==
    LET found == {c \in DOMAIN d.running : d.active[c] = s /\ d.running[c] = "current"} IN
    IF found = {} THEN d
    ELSE Ended(Answered(d, CHOOSE c \in found : TRUE), CHOOSE c \in found : TRUE)

OnClosed(d, s) ==
    LET token == IF d.conn[s] = "connected" THEN "current" ELSE "none"
        found == {c \in DOMAIN d.running : d.active[c] = s /\ d.running[c] = token}
    IN  IF found = {} THEN d
        ELSE Ended(Answered(d, CHOOSE c \in found : TRUE), CHOOSE c \in found : TRUE)

(* A pong: the check is erased whether or not its request is running. *)
OnPong(d, c) ==
    IF c \notin DOMAIN d.active THEN d
    ELSE IF c \in DOMAIN d.running THEN Ended(Answered(d, c), c)
    ELSE [Ended(d, c) EXCEPT !.dropped = @ \cup {c}]

----------------------------------------------------------------------------
(* checkProxy, on the thread of the application. *)
CheckProxy(c) ==
    /\ c \notin asked
    /\ asked' = asked \cup {c}
    /\ p' = [p EXCEPT !.tasks = Append(@, Start(c))]
    /\ UNCHANGED <<hasKey, breaks>>

RunTask(d, t) ==
    CASE t.task = "start" -> StartCheck(d, t.check)
      [] t.task = "send" -> SendRequest(d, t.check)
      [] t.task = "closed" -> {Free(OnClosed(d, t.slot))}

Commit(results) ==
    /\ \E r \in results :
          /\ breaks + r.cost <= MaxBreaks
          /\ breaks' = breaks + r.cost
          /\ p' = r.d
    /\ UNCHANGED <<hasKey, asked>>

CheckPendingTasks ==
    /\ p.tasks # <<>>
    /\ Commit(RunTask([p EXCEPT !.tasks = Tail(@)], Head(p.tasks)))

(* The end of select: processRequestQueue connects what running requests need. *)
Pass ==
    /\ \E c \in DOMAIN p.running :
          /\ p.conn[p.active[c]] = "closed"
          /\ Commit(connect(p, p.active[c]))

(* The sockets.  The task of a connection that closed runs before epoll_wait
   can tell of the socket that is opened next. *)
Settled(s) == ClosedTask(s) \notin Range(p.tasks)

(* onConnectionConnected: processRequestQueue with justOpenedSocket gives the
   requests the new token and sends none of them again. *)
Establish(s) ==
    /\ p.conn[s] = "connecting"
    /\ Settled(s)
    /\ p' = [p EXCEPT !.conn[s] = "connected",
                      !.running = [c \in DOMAIN @ |-> IF p.active[c] = s THEN "current" ELSE @[c]]]
    /\ UNCHANGED <<hasKey, asked, breaks>>

Fail(s) ==
    /\ p.conn[s] = "connecting"
    /\ Settled(s)
    /\ p' = Closed(p, s)
    /\ UNCHANGED <<hasKey, asked, breaks>>

Break(s) ==
    /\ p.conn[s] = "connected"
    /\ breaks < MaxBreaks
    /\ breaks' = breaks + 1
    /\ p' = [Closed(p, s) EXCEPT !.lost = @ \cup {c \in DOMAIN p.active : p.active[c] = s}]
    /\ UNCHANGED <<hasKey, asked>>

(* The server answers a ping it got, perhaps more than once. *)
Pong(s) ==
    /\ p.conn[s] = "connected"
    /\ \E c \in p.ping[s] : p' = OnPong(p, c)
    /\ p' # p
    /\ UNCHANGED <<hasKey, asked, breaks>>

Next ==
    \/ \E c \in Checks : CheckProxy(c)
    \/ CheckPendingTasks
    \/ Pass
    \/ \E s \in Slots : Establish(s) \/ Fail(s) \/ Break(s) \/ Pong(s)

(* The thread runs, a socket is connected or fails, and a server that got a
   ping answers it unless the connection breaks. *)
Fairness ==
    /\ WF_vars(CheckPendingTasks) /\ WF_vars(Pass)
    /\ \A s \in Slots : WF_vars(Establish(s) \/ Fail(s)) /\ WF_vars(Pong(s))

Spec == Init /\ [][Next]_vars /\ Fairness

----------------------------------------------------------------------------
Pending(c) == Start(c) \in Range(p.tasks)

(* No two checks hold the same connection, so that the end of a connection or
   a new proxy for it never concerns another check. *)
OwnConnection == \A c, e \in DOMAIN p.active : p.active[c] = p.active[e] => c = e

(* onRequestTime is called at most once for a check, although a pong and the
   end of the connection race and a pong may come twice. *)
AnsweredOnce == \A c \in Checks : p.answers[c] <= 1

(* A check that was asked for and not answered is in exactly one place: a task,
   the queue, or a connection of its own together with its request; only
   without an auth key is it given up. *)
NoneForgotten ==
    \A c \in asked :
        LET places == <<Pending(c), c \in DOMAIN p.active, c \in Range(p.waiting),
                        p.answers[c] > 0, c \in p.dropped>>
        IN  /\ Cardinality({i \in DOMAIN places : places[i]}) = 1
            /\ c \in DOMAIN p.active => (Send(c) \in Range(p.tasks)) # (c \in DOMAIN p.running)
            /\ c \in p.dropped => ~hasKey

(* A check waits only while all connections are held or a check is being
   started: a connection that becomes free is used. *)
NoIdleConnection ==
    p.waiting # <<>> => \/ Cardinality(DOMAIN p.active) = Cardinality(Slots)
                        \/ \E c \in Checks : Pending(c)

(* The connections for proxy checks are dealt out as checkProxyInternal and
   onConnectionClosed mean to: one check to a connection, none free while a
   check waits, and one answer to each. *)
ChecksSound == TypeOK /\ OwnConnection /\ NoIdleConnection /\ AnsweredOnce

(* Every check is answered in the end.  The exception is the code's: the task
   of onConnectionClosed finds the request by a token that is already reset,
   so a check whose connection breaks after it was connected is never answered
   and keeps its connection, and those behind it may wait for ever. *)
AnsweredInTheEnd ==
    \A c \in Checks : c \in asked ~> p.answers[c] > 0 \/ c \in p.dropped \/ p.lost # {}
=============================================================================
