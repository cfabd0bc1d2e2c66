------------------------------ MODULE Requests ------------------------------
(***************************************************************************)
(* The life of a request: sendRequest and cancelRequest of any thread, the  *)
(* lists requestsQueue and runningRequests of the network thread,           *)
(* processRequestQueue, and what the answers of the server do to a request  *)
(* in processServerResponse (ConnectionsManager.cpp, Request.cpp), with the *)
(* Generic connection of one datacenter that has its key.                   *)
(*                                                                         *)
(* Message ids are numbers in the order they are generated.  The times of   *)
(* a request are left out: any running request may be late enough for       *)
(* another try at any pass over the lists.                                  *)
(***************************************************************************)
EXTENDS Integers, Sequences, SequencesExt, FiniteSets

CONSTANTS
    Rpcs,         \* requests of the application
    SaltRequests, \* TL_get_future_salts requests, one at a time
    DropRequests, \* TL_rpc_drop_answer requests, without a callback
    Limit,        \* generic requests that may run at once: 60
    MaxSaltIds,   \* bound on the messages of a salt request that are under way
    MaxTroubles   \* bound on complaints and failures of the server, lost
                  \* connections, cancelRequest and cleanUp calls together

Reqs == Rpcs \cup SaltRequests \cup DropRequests

ASSUME RequestsAssumption ==
    /\ Rpcs \cap SaltRequests = {} /\ Rpcs \cap DropRequests = {}
    /\ SaltRequests \cap DropRequests = {}
    /\ IsFiniteSet(SaltRequests)
    /\ Limit \in Nat \ {0} /\ MaxSaltIds \in Nat
    /\ MaxTroubles \in Nat

VARIABLES
    tasks,      \* pendingTasks
    c,          \* the lists and the fields of the requests
    outcome,    \* per request, what has become of it
    calls,      \* per request, how often onComplete has called back
    requesting, \* requestingSaltsForDc has the datacenter
    token,      \* connectionToken of the connection, 0 while it is down
    lastToken,
    toServer,   \* message ids on their way to the server
    received,   \* message ids that the server works on
    kept,       \* answers of the server, kept to be sent again
    toClient,   \* answers and notices on their way to the client
    forgotten,  \* history: messages of a session the server lost, newer than the
                \* message it took for the first of the next one
    troubles,   \* troubles so far; drops and cleanUps count two kinds of them
    drops, cleanUps

server == <<received, kept, forgotten>>
link == <<token, lastToken, drops>>
vars == <<tasks, c, outcome, calls, requesting, token, lastToken, toServer,
          received, kept, forgotten, toClient, troubles, drops, cleanUps>>

Running == ToSet(c.running)

Answer == [kind : {"final", "retry"}, msg : Nat]
Notice == [kind : {"bad_salt", "bad_msg", "bad_msg_20", "new_session"}, msg : Nat]

TypeOK ==
    /\ tasks \in Seq([kind : {"send", "cancel", "notify", "cleanUp"}, req : Reqs \cup {0}])
    /\ c \in [queue : Seq(Reqs), running : Seq(Reqs), msg : [Reqs -> Nat],
              ctoken : [Reqs -> Nat], olds : [Reqs -> SUBSET Nat], last : Nat]
    /\ outcome \in [Reqs -> {"new", "pending", "done", "cancelled", "cleared"}]
    /\ calls \in [Reqs -> 0..2]
    /\ requesting \in BOOLEAN
    /\ token \in {0, lastToken} /\ lastToken \in 0..(MaxTroubles + 1)
    /\ toServer \in Seq(1..c.last)
    /\ received \subseteq 1..c.last
    /\ kept \subseteq Answer /\ forgotten \subseteq Nat
    /\ toClient \in Seq(Answer \cup Notice)
    /\ troubles \in 0..MaxTroubles
    /\ drops \in 0..troubles /\ cleanUps \in 0..troubles

Init ==
    /\ tasks = <<>>
    /\ c = [queue |-> <<>>, running |-> <<>>, msg |-> [r \in Reqs |-> 0],
            ctoken |-> [r \in Reqs |-> 0], olds |-> [r \in Reqs |-> {}], last |-> 0]
    /\ outcome = [r \in Reqs |-> "new"]
    /\ calls = [r \in Reqs |-> 0]
    /\ requesting = FALSE
    /\ token = 0 /\ lastToken = 0
    /\ toServer = <<>> /\ received = {} /\ kept = {} /\ forgotten = {}
    /\ toClient = <<>>
    /\ troubles = 0 /\ drops = 0 /\ cleanUps = 0

----------------------------------------------------------------------------
(* Request::clear, of the requests of S; an answer that is discarded makes the
   same assignments.  (ClearKeepingToken varies it, for the mutation runs.) *)
Zeroed(f, S) == [r \in Reqs |-> IF r \in S THEN 0 ELSE f[r]]

ClearKeepingToken(w, S) == [w EXCEPT !.msg = Zeroed(@, S)]

Clear(w, S) == [w EXCEPT !.msg = Zeroed(@, S), !.ctoken = Zeroed(@, S)]

respondsToMessageId(w, r, id) == w.msg[r] = id \/ id \in w.olds[r]

Responding(w, id) == {r \in ToSet(w.running) : respondsToMessageId(w, r, id)}

(* A running request in processRequestQueue.  A request for salts takes a new
   message id each time and answers to all of them; another request is tried
   again only when it was not sent on this connection, or when it is forced. *)
Again(w, r, tk, force, opened, late) ==
    LET salts == r \in SaltRequests
        s == IF salts THEN Clear([w EXCEPT !.olds[r] = @ \cup ({w.msg[r]} \ {0})], {r}) ELSE w
        id == IF s.msg[r] = 0 THEN s.last + 1 ELSE s.msg[r]
    IN  IF (force /\ ~salts) \/ (r \in late /\ s.ctoken[r] # tk)
        THEN [s EXCEPT !.msg[r] = id, !.last = IF id > @ THEN id ELSE @, !.ctoken[r] = tk,
                       !.out = IF opened THEN @ ELSE Append(@, id)]
        ELSE s

(* A queued request, while there is room; only a request for salts, which may
   use an unbound key, does not need it. *)
First(w, r, tk) ==
    IF w.count >= Limit /\ r \notin SaltRequests THEN [w EXCEPT !.queue = Append(@, r)]
    ELSE [w EXCEPT !.msg[r] = w.last + 1, !.last = @ + 1, !.ctoken[r] = tk,
                   !.running = Append(@, r), !.count = @ + 1, !.out = Append(@, w.last + 1)]

(* The two loops of processRequestQueue, over runningRequests and over
   requestsQueue, from which requests are moved. *)
AgainAll(w0, tk, force, opened, late) ==
    LET w[i \in 0..Len(w0.running)] ==
            IF i = 0 THEN w0 ELSE Again(w[i - 1], w0.running[i], tk, force, opened, late)
    IN  w[Len(w0.running)]

FirstAll(w0, queue, tk) ==
    LET w[i \in 0..Len(queue)] ==
            IF i = 0 THEN [w0 EXCEPT !.queue = <<>>] ELSE First(w[i - 1], queue[i], tk)
    IN  w[Len(queue)]

(* processRequestQueue: the running requests, then the queue.  out collects
   the messages that are sent. *)
Pass(d, tk, force, opened, late) ==
    LET w0 == [queue |-> d.queue, running |-> d.running, msg |-> d.msg, ctoken |-> d.ctoken,
               olds |-> d.olds, last |-> d.last, out |-> <<>>, count |-> Len(d.running)]
    IN  IF tk = 0 THEN w0
        ELSE FirstAll(AgainAll(w0, tk, force, opened, late), d.queue, tk)

(* The erase of a list, at the place where the request was found. *)
Erase(list, r) ==
    IF r \in ToSet(list) THEN RemoveAt(list, CHOOSE i \in DOMAIN list : list[i] = r) ELSE list

(* Which requests can be late at a pass. *)
UnderWay == ToSet(toServer) \cup received \cup {toClient[i].msg : i \in DOMAIN toClient}

MayBeLate(d) ==
    {r \in ToSet(d.running) :
        r \in SaltRequests =>
            Cardinality((d.olds[r] \cup {d.msg[r]}) \cap UnderWay) < MaxSaltIds}

Lates(d) == SUBSET MayBeLate(d)

Processed(d, tk, force, opened, late) ==
    \E w \in {Pass(d, tk, force, opened, late)} :
      /\ c' = [queue |-> w.queue, running |-> w.running, msg |-> w.msg,
               ctoken |-> w.ctoken, olds |-> w.olds, last |-> w.last]
      /\ toServer' = toServer \o w.out

----------------------------------------------------------------------------
(* A request that was not made yet; they are alike, so any will do. *)
Unused(S) == {r \in S : outcome[r] = "new"}
One(S) == CHOOSE r \in S : TRUE

Trouble == troubles < MaxTroubles /\ troubles' = troubles + 1

(* Other threads. *)
Post(kind, r) == tasks' = Append(tasks, [kind |-> kind, req |-> r])

sendRequest ==
    /\ Unused(Rpcs) # {}
    /\ LET r == One(Unused(Rpcs)) IN
       outcome' = [outcome EXCEPT ![r] = "pending"] /\ Post("send", r)
    /\ UNCHANGED <<c, calls, requesting, toServer, toClient, troubles, cleanUps>>
    /\ UNCHANGED <<server, link>>

(* cancelRequest, with or without notifyServer. *)
cancelRequest(r) ==
    /\ outcome[r] = "pending"
    /\ Trouble
    /\ \/ Post("cancel", r)
       \/ /\ Unused(DropRequests) # {}
          /\ ~\E i \in DOMAIN tasks : tasks[i].kind = "notify"
          /\ Post("notify", r)
    /\ UNCHANGED <<c, outcome, calls, requesting, toServer, toClient, cleanUps>>
    /\ UNCHANGED <<server, link>>

cleanUp ==
    /\ Trouble
    /\ cleanUps' = cleanUps + 1
    /\ Post("cleanUp", 0)
    /\ UNCHANGED <<c, outcome, calls, requesting, toServer, toClient>>
    /\ UNCHANGED <<server, link>>

----------------------------------------------------------------------------
(* Tasks.  Each takes its place at the head of the list of tasks. *)
SendTask(r) ==
    /\ tasks' = Tail(tasks)
    /\ LET d == [c EXCEPT !.queue = Append(@, r)] IN
       \/ \E late \in Lates(d) : Processed(d, token, FALSE, FALSE, late)
       \/ r \in Rpcs /\ c' = d /\ UNCHANGED toServer    \* not immediate
    /\ UNCHANGED <<outcome, calls, requesting>>

(* cancelRequestInternal: the request leaves its list without a call; for a
   running one the server may be asked to drop the answer.
   (CancelKeepingRunning varies it.) *)
CancelKeepingRunning(r, notify) ==
    /\ c' = [c EXCEPT !.queue = Erase(@, r)]
    /\ outcome' = [outcome EXCEPT ![r] = IF @ = "pending" THEN "cancelled" ELSE @]
    /\ tasks' = Tail(tasks)
    /\ UNCHANGED <<calls, requesting, toServer>>

CancelTask(r, notify) ==
    /\ c' = [c EXCEPT !.queue = Erase(@, r), !.running = Erase(@, r)]
    /\ LET out == IF outcome[r] = "pending" THEN [outcome EXCEPT ![r] = "cancelled"] ELSE outcome
       IN  IF notify /\ r \in Running
           THEN LET d == One(Unused(DropRequests)) IN
                  /\ outcome' = [out EXCEPT ![d] = "pending"]
                  /\ tasks' = Append(Tail(tasks), [kind |-> "send", req |-> d])
           ELSE outcome' = out /\ tasks' = Tail(tasks)
    /\ UNCHANGED <<calls, requesting, toServer>>

(* cleanUp: both lists are emptied, nobody is called. *)
CleanUpTask ==
    /\ tasks' = Tail(tasks)
    /\ c' = [c EXCEPT !.queue = <<>>, !.running = <<>>]
    /\ outcome' = [r \in Reqs |-> IF r \in Running \cup ToSet(c.queue) THEN "cleared"
                                  ELSE outcome[r]]
    /\ UNCHANGED <<calls, requesting, toServer>>

RunTask ==
    /\ tasks # <<>>
    /\ LET t == Head(tasks) IN
       CASE t.kind = "send" -> SendTask(t.req)
         [] t.kind \in {"cancel", "notify"} -> CancelTask(t.req, t.kind = "notify")
         [] t.kind = "cleanUp" -> CleanUpTask
    /\ UNCHANGED <<toClient, troubles, cleanUps>>
    /\ UNCHANGED <<server, link>>

----------------------------------------------------------------------------
(* The end of select. *)
Select(late) ==
    /\ Processed(c, token, FALSE, FALSE, late)
    /\ UNCHANGED <<tasks, outcome, calls, requesting, toClient, troubles, cleanUps>>
    /\ UNCHANGED <<server, link>>

(* onConnectionConnected: the requests of the connection are forced, while
   justOpenedSocket is set. *)
onConnectionConnected ==
    /\ token = 0
    /\ lastToken' = lastToken + 1
    /\ token' = lastToken'
    /\ \E late \in Lates(c) : Processed(c, lastToken + 1, TRUE, TRUE, late)
    /\ UNCHANGED <<tasks, outcome, calls, requesting, toClient, troubles, drops, cleanUps>>
    /\ UNCHANGED server

Drop ==
    /\ token # 0
    /\ Trouble
    /\ drops' = drops + 1
    /\ token' = 0
    /\ toServer' = <<>>
    /\ toClient' = <<>>
    /\ UNCHANGED <<tasks, c, outcome, calls, requesting, lastToken, cleanUps>>
    /\ UNCHANGED server

----------------------------------------------------------------------------
(* An answer.  A request without a callback is done with any answer; one that
   can be tried again forgets its message and its connection. *)
Completed(r) ==
    /\ outcome' = [outcome EXCEPT ![r] = "done"]
    /\ calls' = [calls EXCEPT ![r] = IF r \in DropRequests \/ @ = 2 THEN @ ELSE @ + 1]
    /\ requesting' = (requesting /\ r \notin SaltRequests)

(* Wrong variant, for the mutation runs: a request whose answer is discarded
   is erased as well. *)
AnsweredErasing(r, done) ==
    /\ IF done THEN Completed(r) ELSE UNCHANGED <<outcome, calls, requesting>>
    /\ LET d == [c EXCEPT !.running = Erase(@, r)] IN
       \E late \in Lates(d) : Processed(d, token, FALSE, FALSE, late)

(* The request that an answer is for.  TL_rpc_result ends with a pass over the
   lists, TL_future_salts does not. *)
Answered(r, done) ==
    /\ IF done THEN Completed(r) ELSE UNCHANGED <<outcome, calls, requesting>>
    /\ LET d == IF done THEN [c EXCEPT !.running = Erase(@, r)] ELSE Clear(c, {r}) IN
       IF done /\ r \in SaltRequests THEN c' = d /\ UNCHANGED toServer
       ELSE \E late \in Lates(d) : Processed(d, token, FALSE, FALSE, late)

(* An answer that nobody waits for may be either. *)
OnAnswer(a) ==
    /\ \/ \E r \in Responding(c, a.msg) : Answered(r, a.kind = "final" \/ r \in DropRequests)
       \/ /\ Responding(c, a.msg) = {}
          /\ \/ \E late \in Lates(c) : Processed(c, token, FALSE, FALSE, late)
             \/ UNCHANGED <<c, toServer>>
          /\ UNCHANGED <<outcome, calls, requesting>>
    /\ UNCHANGED tasks

(* TL_bad_server_salt: requestSaltsForDatacenter, unless it is under way, and
   every running request is sent again as it is.
   (OnBadSaltNotPosted varies it.) *)
OnBadSaltNotPosted(a) ==
    /\ requesting' = TRUE
    /\ UNCHANGED <<outcome, tasks, calls>>
    /\ \E late \in Lates(c) : Processed(c, token, TRUE, FALSE, late)

OnBadSalt(a) ==
    /\ \/ /\ ~requesting
          /\ LET r == One(Unused(SaltRequests)) IN
             outcome' = [outcome EXCEPT ![r] = "pending"] /\ Post("send", r)
          /\ requesting' = TRUE
       \/ requesting /\ UNCHANGED <<outcome, tasks, requesting>>
    /\ UNCHANGED calls
    /\ \E late \in Lates(c) : Processed(c, token, TRUE, FALSE, late)

(* TL_bad_msg_notification and TL_new_session_created: requests that the
   server has no memory of start again. *)
Restarted(a) ==
    CASE a.kind = "bad_msg" -> Running
      [] a.kind = "bad_msg_20" -> Responding(c, a.msg)
      [] a.kind = "new_session" -> {r \in Running : c.msg[r] < a.msg}

OnRestart(a) ==
    /\ c' = Clear(c, Restarted(a))
    /\ UNCHANGED <<tasks, outcome, calls, requesting, toServer>>

processServerResponse ==
    /\ toClient # <<>>
    /\ toClient' = Tail(toClient)
    /\ LET a == Head(toClient) IN
       CASE a.kind \in {"final", "retry"} -> OnAnswer(a)
         [] a.kind = "bad_salt" -> OnBadSalt(a)
         [] a.kind \in {"bad_msg", "bad_msg_20", "new_session"} -> OnRestart(a)
    /\ UNCHANGED <<troubles, cleanUps>>
    /\ UNCHANGED <<server, link>>

----------------------------------------------------------------------------
(* The server.  It works on a message once and keeps its answer. *)
Known(id) == id \in received \/ \E a \in kept : a.msg = id

ServerUnchanged == UNCHANGED <<tasks, c, outcome, calls, requesting, cleanUps>> /\ UNCHANGED link

ServerReceive ==
    /\ toServer # <<>>
    /\ toServer' = Tail(toServer)
    /\ received' = IF Known(Head(toServer)) THEN received ELSE received \cup {Head(toServer)}
    /\ UNCHANGED <<kept, forgotten, toClient, troubles>>
    /\ ServerUnchanged

ServerAnswer ==
    /\ token # 0
    /\ \E id \in received, kind \in {"final", "retry"} :
         /\ IF kind = "final" THEN UNCHANGED troubles ELSE Trouble
         /\ received' = received \ {id}
         /\ kept' = kept \cup {[kind |-> kind, msg |-> id]}
         /\ toClient' = Append(toClient, [kind |-> kind, msg |-> id])
    /\ UNCHANGED <<toServer, forgotten>>
    /\ ServerUnchanged

(* After a new connection: what was answered and may have been lost. *)
ServerResend ==
    /\ token # 0 /\ drops > 0
    /\ toClient = <<>>
    /\ \E a \in kept : toClient' = <<a>>
    /\ UNCHANGED <<toServer, received, kept, forgotten, troubles>>
    /\ ServerUnchanged

(* A message is refused; or the server has lost the session, and this is the
   first message of a new one.  The codes of a bad_msg_notification that the
   client passes over (18, 34, 35 and others) are left out: they are about
   messages that it does not form. *)
BadSalts == {i \in DOMAIN toClient : toClient[i].kind = "bad_salt"}

ServerComplain ==
    /\ toServer # <<>>
    /\ Trouble
    /\ toServer' = Tail(toServer)
    /\ \/ /\ \E kind \in {"bad_msg", "bad_msg_20"} :
               toClient' = Append(toClient, [kind |-> kind, msg |-> Head(toServer)])
          /\ UNCHANGED server
       \/ /\ Cardinality(Unused(SaltRequests)) > Cardinality(BadSalts)
          /\ toClient' = Append(toClient, [kind |-> "bad_salt", msg |-> Head(toServer)])
          /\ UNCHANGED server
       \/ /\ toClient' = Append(toClient, [kind |-> "new_session", msg |-> Head(toServer)])
          /\ received' = {Head(toServer)}
          /\ kept' = {}
          /\ forgotten' = forgotten \cup
                 {id \in 1..c.last : Known(id) /\ id > Head(toServer) /\ id \notin ToSet(toServer')}
    /\ ServerUnchanged

----------------------------------------------------------------------------
Next ==
    \/ sendRequest \/ cleanUp
    \/ \E r \in Rpcs : cancelRequest(r)
    \/ RunTask
    \/ \E late \in Lates(c) : Select(late)
    \/ onConnectionConnected \/ Drop
    \/ processServerResponse
    \/ ServerReceive \/ ServerAnswer \/ ServerResend \/ ServerComplain

Spec == Init /\ [][Next]_vars

(* The thread loops for ever and time passes, so a pass comes at which every
   running request is late; a lost connection is opened again; the server
   works on what it gets. *)
Fairness ==
    /\ WF_vars(RunTask)
    /\ WF_vars(Select(MayBeLate(c)))
    /\ WF_vars(onConnectionConnected)
    /\ WF_vars(processServerResponse)
    /\ WF_vars(ServerReceive) /\ WF_vars(ServerAnswer)

FairSpec == Spec /\ Fairness

----------------------------------------------------------------------------
(* What the lists and the callbacks promise to the application: the contract
   of RequestContract, where a request is open as long as it is in a task or
   in one of the two lists, whatever the client believes of its outcome. *)
Sent == {r \in Reqs : \E i \in DOMAIN tasks : tasks[i] = [kind |-> "send", req |-> r]}
Queued == ToSet(c.queue)
Places == Sent \cup Queued \cup Running

Contract == INSTANCE RequestContract WITH
    Requests <- Reqs,
    Silent <- DropRequests,
    state <- [r \in Reqs |-> IF r \in Places THEN "open"
                             ELSE IF outcome[r] = "new" THEN "new" ELSE "closed"],
    answers <- calls,
    revoked <- {r \in Reqs : \E i \in DOMAIN tasks :
                   tasks[i].kind = "cleanUp" \/ (tasks[i].kind \in {"cancel", "notify"} /\ tasks[i].req = r)}

(* The lists implement the contract: every step of sendRequest, cancelRequest,
   cleanUp and the answers opens, answers or withdraws requests; a request that
   nobody has revoked is not lost on the way, and one that has left the lists
   is never answered again. *)
KeepsContract == Contract!Spec

(* A request is in one place: waiting in a task, queued or running, and in no
   place once it is answered, cancelled or cleared. *)
OneList ==
    /\ \A i, j \in DOMAIN tasks : tasks[i].kind = "send" /\ tasks[i] = tasks[j] => i = j
    /\ IsInjective(c.queue) /\ IsInjective(c.running)
    /\ Sent \cap Queued = {} /\ Sent \cap Running = {} /\ Queued \cap Running = {}
    /\ Places = {r \in Reqs : outcome[r] = "pending"}

(* A callback is called once, for a request that is answered, and never for
   one that was cancelled, whatever answers come late or twice. *)
CompletedOnce ==
    \A r \in Reqs : calls[r] = (IF outcome[r] = "done" /\ r \notin DropRequests THEN 1 ELSE 0)

(* No more generic requests run than the limit allows, although requests run
   again, are started over and make room for others in one pass. *)
RunningBounded == Cardinality(Running \ SaltRequests) <= Limit

(* requestsQueue and runningRequests are kept in order by sendRequest,
   cancelRequest, cleanUp, processRequestQueue and the answers: one place for
   each request, one callback, and no more running ones than allowed. *)
ListsKept == TypeOK /\ OneList /\ CompletedOnce /\ RunningBounded

(* While the client believes that it is asking for salts, the request is
   there, unless cleanUp took it away: otherwise it would never ask again,
   and select would never let the network sleep. *)
SaltsAreRequested ==
    (requesting /\ cleanUps = 0) => \E r \in SaltRequests : outcome[r] = "pending"

(* Until a connection is lost, a running request that carries the token of the
   connection, and is for that reason not tried again ("request token is valid,
   not retrying"), is on its way, known to the server or answered, or the notice
   that starts it over is on its way: refused messages, failures of the server
   and forgotten sessions leave no request behind with a token under which it
   was not sent.  One case is left: bad_server_salt sends the running requests
   again in the order of the list, which is not that of their ids, so a session
   may be lost between a newer message and an older one, and TL_new_session_created
   starts only the older ones over (ConnectionsManager.cpp:943). *)
TokenMeansSent ==
    drops = 0 /\ token # 0 =>
        \A r \in Running \ SaltRequests :
            c.ctoken[r] = token =>
                \/ c.msg[r] \in ToSet(toServer) \/ Known(c.msg[r]) \/ c.msg[r] \in forgotten
                \/ \E i \in DOMAIN toClient :
                       \/ toClient[i].kind \in {"bad_msg", "bad_salt"}
                       \/ toClient[i].kind = "bad_msg_20" /\ toClient[i].msg = c.msg[r]
                       \/ toClient[i].kind = "new_session" /\ toClient[i].msg > c.msg[r]

(* Every request is answered, cancelled or cleared in the end, through
   failures of the server, refused messages and forgotten sessions, as long
   as no connection is lost and no session between messages out of order. *)
AnsweredUnlessLost ==
    \A r \in Rpcs :
        outcome[r] = "pending" ~> (outcome[r] # "pending" \/ drops > 0 \/ forgotten # {})
=============================================================================
