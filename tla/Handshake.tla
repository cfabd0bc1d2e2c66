----------------------------- MODULE Handshake -----------------------------
(***************************************************************************)
(* The negotiation of the permanent key of one datacenter: the Handshake   *)
(* object (Handshake.cpp), the list of Datacenter that owns it             *)
(* (Datacenter.cpp), and the parts of the network thread's loop that drive *)
(* it: tasks, events and the end of select (ConnectionsManager.cpp).       *)
(* PFS_ENABLED is 0 in Defines.h, so a datacenter has at most one          *)
(* handshake, of type HandshakeTypePerm, on its Generic connection.        *)
(*                                                                         *)
(* A nonce, and the key computed in the exchange that started with it, is  *)
(* the number of the beginHandshake call; 0 is nullptr.  The cryptographic *)
(* checks of an answer are one Boolean of the message.  The connection is  *)
(* idle (Idle or Suspended), reconnecting (closed, to be opened again by   *)
(* its timer), connecting or up.                                           *)
(***************************************************************************)
EXTENDS Integers, Sequences

CONSTANTS
    Disturbances,   \* which of the disturbances below happen
    MaxDisturb,     \* bound on their number
    AppTasks,       \* which tasks other threads schedule
    MaxTasks,       \* bound on their number
    MaxBegun        \* bound on the beginHandshake calls

DisturbanceNames == {"drop", "bad", "dup", "pause"}
AppTaskNames == {"restart", "cleanUp"}

ASSUME HandshakeAssumption ==
    /\ Disturbances \subseteq DisturbanceNames
    /\ MaxDisturb \in Nat
    /\ AppTasks \subseteq AppTaskNames
    /\ MaxTasks \in Nat
    /\ MaxBegun \in Nat

VARIABLES
    hs,         \* the Handshake object, if alive, and its fields
    authKey,    \* authKeyPerm
    authKeyId,  \* authKeyPermId, as the key that has this id
    conn,       \* the Generic connection
    outbox,     \* what sendData has queued in its outgoing stream
    toServer,   \* client-to-server bytes in the network
    toClient,   \* server-to-client bytes in the network
    phase,      \* where the thread is in select
    tasks,      \* pendingTasks
    begun,      \* beginHandshake calls so far
    confirmed,  \* keys for which the server has sent dh_gen_ok
    disturbed,  \* disturbances so far
    posted,     \* tasks posted by other threads so far
    happened    \* history: which of both have happened

vars == <<hs, authKey, authKeyId, conn, outbox, toServer, toClient,
          phase, tasks, begun, confirmed, disturbed, posted, happened>>
netVars == <<conn, outbox, toServer, toClient>>
keyVars == <<authKey, authKeyId>>
boundVars == <<disturbed, posted, happened>>

Requests == {"req_pq", "req_DH_params", "set_client_DH_params"}
Answers == {"resPQ", "server_DH_params_ok", "server_DH_params_fail",
            "dh_gen_ok", "dh_gen_retry", "dh_gen_fail"}

Request == [kind : Requests, nonce : Nat]
Answer == [kind : Answers, nonce : Nat, good : BOOLEAN]
(* A task that Handshake schedules names the object that scheduled it by the
   first beginHandshake call of that object. *)
Task == [kind : {"complete", "restart", "cleanUp"}, object : Nat]

NoHandshake ==
    [object |-> 0, state |-> 0, nonce |-> 0, key |-> 0, keyId |-> 0,
     needResend |-> FALSE]

isHandshakingAny == hs.object # 0

TypeOK ==
    /\ hs \in [object : Nat, state : 0..4, nonce : Nat, key : Nat,
               keyId : Nat, needResend : BOOLEAN]
    /\ authKey \in Nat
    /\ authKeyId \in Nat
    /\ conn \in {"idle", "reconnecting", "connecting", "up"}
    /\ outbox \in Seq(Request)
    /\ toServer \in Seq(Request)
    /\ toClient \in Seq(Answer)
    /\ phase \in {"tasks", "events", "finish"}
    /\ tasks \in Seq(Task)
    /\ begun \in Nat
    /\ confirmed \subseteq Nat
    /\ disturbed \in Nat
    /\ posted \in Nat
    /\ happened \subseteq DisturbanceNames \cup AppTaskNames

Init ==
    /\ hs = NoHandshake
    /\ authKey = 0
    /\ authKeyId = 0
    /\ conn = "idle"
    /\ outbox = <<>>
    /\ toServer = <<>>
    /\ toClient = <<>>
    /\ phase = "tasks"
    /\ tasks = <<>>
    /\ begun = 0
    /\ confirmed = {}
    /\ disturbed = 0
    /\ posted = 0
    /\ happened = {}

----------------------------------------------------------------------------
(* The connection, as the handshake sees it. *)

(* A disturbance of that name happens. *)
Disturb(name) ==
    /\ name \in Disturbances /\ disturbed < MaxDisturb
    /\ disturbed' = disturbed + 1
    /\ happened' = happened \cup {name}
    /\ UNCHANGED posted

(* What closing the connection does to the handshake object. *)
onHandshakeConnectionClosed(h) ==
    [h EXCEPT !.needResend = @ \/ h.state # 0]

(* closeSocket drops what was queued and what was under way. *)
Closed(next) ==
    /\ conn' = next
    /\ outbox' = <<>>
    /\ toServer' = <<>>
    /\ toClient' = <<>>

(* sendRequestData on a connection that is up. *)
Send(kind, nonce) ==
    /\ outbox' = Append(outbox, [kind |-> kind, nonce |-> nonce])
    /\ UNCHANGED <<conn, toServer>>

(* Wrong variants, for the mutation runs. *)
BegunKeepsKey(object, needResend) ==
    [object |-> object, state |-> 1, nonce |-> begun + 1, key |-> hs.key,
     keyId |-> 0, needResend |-> needResend]

(* The object after cleanupHandshake and the assignments of beginHandshake. *)
Begun(object, needResend) ==
    [object |-> object, state |-> 1, nonce |-> begun + 1, key |-> 0,
     keyId |-> 0, needResend |-> needResend]

(* beginHandshake(true): suspendConnection, which tells the handshake that
   its connection was closed unless the connection was idle, then connect,
   then req_pq waits in the outgoing stream. *)
BeginReconnecting(object, needResend) ==
    /\ begun < MaxBegun
    /\ begun' = begun + 1
    /\ hs' = Begun(object, needResend \/ conn # "idle")
    /\ conn' = "connecting"
    /\ outbox' = <<[kind |-> "req_pq", nonce |-> begun + 1]>>
    /\ toServer' = <<>>
    /\ toClient' = <<>>

(* Datacenter::beginHandshake(HandshakeTypeAll, true): a new object when
   there is neither a key nor a handshake. *)
beginHandshakeAll ==
    /\ authKey = 0 /\ ~isHandshakingAny
    /\ BeginReconnecting(begun + 1, FALSE)

(* beginHandshake(false), always in answer to a message. *)
BeginOnSameConnection ==
    /\ begun < MaxBegun
    /\ begun' = begun + 1
    /\ hs' = Begun(hs.object, hs.needResend)
    /\ Send("req_pq", begun + 1)

----------------------------------------------------------------------------
(* processHandshakeResponse, one operator for each type of answer.  Each
   says what happens to hs, the outgoing stream, begun and tasks. *)

(* An answer that the state does not expect is only acknowledged. *)
AckOnly == UNCHANGED <<hs, conn, outbox, toServer, begun, tasks>>

OnDHAnswerStopsOnFail(m) ==
    \/ hs.state # 3 /\ AckOnly
    \/ /\ hs.state = 3
       /\ hs' = [hs EXCEPT !.state = 4, !.keyId = hs.nonce]
       /\ \/ /\ m.nonce = hs.nonce /\ m.kind = "dh_gen_ok" /\ m.good
             /\ tasks' = Append(tasks, [kind |-> "complete", object |-> hs.object])
          \/ /\ ~(m.nonce = hs.nonce /\ m.kind = "dh_gen_ok" /\ m.good)
             /\ UNCHANGED tasks
       /\ UNCHANGED <<conn, outbox, toServer, begun>>

OnResPQ(m) ==
    \/ hs.state # 1 /\ AckOnly
    \/ /\ hs.state = 1
       /\ m.nonce = hs.nonce /\ m.good
       /\ hs' = [hs EXCEPT !.state = 2]
       /\ Send("req_DH_params", hs.nonce)
       /\ UNCHANGED <<begun, tasks>>
    \/ /\ hs.state = 1
       /\ ~(m.nonce = hs.nonce /\ m.good)
       /\ BeginOnSameConnection
       /\ UNCHANGED tasks

OnServerDHParams(m) ==
    \/ m.kind = "server_DH_params_ok" /\ hs.state # 2 /\ AckOnly
    \/ /\ m.kind = "server_DH_params_ok" /\ hs.state = 2
       /\ m.nonce = hs.nonce /\ m.good
       /\ hs' = [hs EXCEPT !.state = 3, !.key = hs.nonce]
       /\ Send("set_client_DH_params", hs.nonce)
       /\ UNCHANGED <<begun, tasks>>
    \/ /\ \/ m.kind = "server_DH_params_fail"
          \/ hs.state = 2 /\ ~(m.nonce = hs.nonce /\ m.good)
       /\ BeginOnSameConnection
       /\ UNCHANGED tasks

OnDHAnswer(m) ==
    \/ hs.state # 3 /\ AckOnly
    \/ /\ hs.state = 3
       /\ m.nonce = hs.nonce /\ m.kind = "dh_gen_ok" /\ m.good
       /\ hs' = [hs EXCEPT !.state = 4, !.keyId = hs.nonce]
       /\ tasks' = Append(tasks, [kind |-> "complete", object |-> hs.object])
       /\ UNCHANGED <<conn, outbox, toServer, begun>>
    \/ /\ hs.state = 3
       /\ ~(m.nonce = hs.nonce /\ m.kind = "dh_gen_ok" /\ m.good)
       /\ BeginOnSameConnection
       /\ UNCHANGED tasks

processHandshakeResponse(m) ==
    CASE m.kind = "resPQ" -> OnResPQ(m)
      [] m.kind \in {"server_DH_params_ok", "server_DH_params_fail"} ->
             OnServerDHParams(m)
      [] m.kind \in {"dh_gen_ok", "dh_gen_retry", "dh_gen_fail"} ->
             OnDHAnswer(m)

----------------------------------------------------------------------------
(* Tasks.  checkPendingTasks runs them in order until there are none; no
   event is handled between two tasks. *)

(* The lambda that the end of the exchange scheduled: it reads the fields of
   its object when it runs.  onHandshakeComplete looks the object up in the
   list; if it is gone the lambda has read freed memory and finds nothing. *)
onHandshakeComplete(t) ==
    \/ /\ hs.object # t.object
       /\ UNCHANGED <<hs, authKey, authKeyId, conn, outbox, toServer, toClient, begun>>
    \/ /\ hs.object = t.object
       /\ authKey' = hs.key
       /\ authKeyId' = hs.keyId
       /\ hs' = NoHandshake
       /\ UNCHANGED <<conn, outbox, toServer, toClient, begun>>

RestartWithNewObject ==
    /\ BeginReconnecting(begun + 1, FALSE)
    /\ UNCHANGED keyVars

(* applyDatacenterAddress, applyDnsConfig, setProxySettings: the handshake
   starts again on a new connection, if there is one. *)
RestartTask ==
    \/ /\ ~isHandshakingAny
       /\ Closed("idle")
       /\ UNCHANGED <<hs, begun>>
       /\ UNCHANGED keyVars
    \/ /\ isHandshakingAny
       /\ BeginReconnecting(hs.object, hs.needResend)
       /\ UNCHANGED keyVars

(* cleanUp(true): clearAuthKey(HandshakeTypeAll) for the datacenter. *)
CleanUpTask ==
    /\ hs' = NoHandshake
    /\ authKey' = 0
    /\ authKeyId' = 0
    /\ UNCHANGED <<conn, outbox, toServer, toClient, begun>>

RunTask ==
    /\ phase = "tasks"
    /\ tasks # <<>>
    /\ tasks' = Tail(tasks)
    /\ CASE Head(tasks).kind = "complete" -> onHandshakeComplete(Head(tasks))
         [] Head(tasks).kind = "restart" -> RestartTask
         [] Head(tasks).kind = "cleanUp" -> CleanUpTask
    /\ UNCHANGED <<phase, confirmed>>
    /\ UNCHANGED boundVars

TasksDone ==
    /\ phase = "tasks"
    /\ tasks = <<>>
    /\ phase' = "events"
    /\ UNCHANGED <<hs, tasks, begun, confirmed>>
    /\ UNCHANGED netVars /\ UNCHANGED keyVars /\ UNCHANGED boundVars

(* Another thread calls scheduleTask. *)
PostTask(kind) ==
    /\ kind \in AppTasks
    /\ posted < MaxTasks
    /\ posted' = posted + 1
    /\ happened' = happened \cup {kind}
    /\ tasks' = Append(tasks, [kind |-> kind, object |-> 0])
    /\ UNCHANGED <<hs, phase, begun, confirmed, disturbed>>
    /\ UNCHANGED netVars /\ UNCHANGED keyVars

----------------------------------------------------------------------------
(* Events. *)

Deliver ==
    /\ phase = "events"
    /\ toClient # <<>>
    /\ toClient' = Tail(toClient)
    /\ \/ isHandshakingAny /\ processHandshakeResponse(Head(toClient))
       \/ ~isHandshakingAny /\ AckOnly
    /\ UNCHANGED <<phase, confirmed>>
    /\ UNCHANGED keyVars /\ UNCHANGED boundVars

(* onHandshakeConnectionConnected: nothing is sent again. *)
Connected ==
    /\ phase = "events"
    /\ conn = "connecting"
    /\ conn' = "up"
    /\ hs' = [hs EXCEPT !.needResend = @ /\ hs.state = 0]
    /\ UNCHANGED <<outbox, toServer, toClient, phase, tasks, begun, confirmed>>
    /\ UNCHANGED keyVars /\ UNCHANGED boundVars

(* The socket fails, in use or while it connects: onDisconnected. *)
Drop ==
    /\ phase = "events"
    /\ Disturb("drop")
    /\ conn \in {"connecting", "up"}
    /\ Closed("reconnecting")
    /\ hs' = onHandshakeConnectionClosed(hs)
    /\ UNCHANGED <<phase, tasks, begun, confirmed>>
    /\ UNCHANGED keyVars

(* The reconnect timer, which onDisconnected starts while there is a
   handshake. *)
ReconnectTimer ==
    /\ phase = "events"
    /\ conn = "reconnecting"
    /\ conn' = "connecting"
    /\ UNCHANGED <<hs, outbox, toServer, toClient, phase, tasks, begun, confirmed>>
    /\ UNCHANGED keyVars /\ UNCHANGED boundVars

(* The socket has been read to its end; what was queued is written out. *)
EndEvents ==
    /\ phase = "events"
    /\ toClient = <<>>
    /\ phase' = "finish"
    /\ \/ /\ conn = "up"
          /\ toServer' = toServer \o outbox
          /\ outbox' = <<>>
       \/ conn # "up" /\ UNCHANGED <<toServer, outbox>>
    /\ UNCHANGED <<hs, conn, toClient, tasks, begun, confirmed>>
    /\ UNCHANGED keyVars /\ UNCHANGED boundVars

(* The end of select: a datacenter without a key and without a handshake
   gets one. *)
Finish ==
    /\ phase = "finish"
    /\ phase' = "tasks"
    /\ \/ beginHandshakeAll
       \/ /\ authKey # 0 \/ isHandshakingAny
          /\ UNCHANGED <<hs, begun>>
          /\ UNCHANGED netVars
    /\ UNCHANGED <<tasks, confirmed>>
    /\ UNCHANGED keyVars /\ UNCHANGED boundVars

(* The pause branch of select: suspendConnections and an early return. *)
Pause ==
    /\ phase = "finish"
    /\ phase' = "tasks"
    /\ Disturb("pause")
    /\ Closed("idle")
    /\ hs' = IF conn = "idle" THEN hs ELSE onHandshakeConnectionClosed(hs)
    /\ UNCHANGED <<tasks, begun, confirmed>>
    /\ UNCHANGED keyVars

----------------------------------------------------------------------------
(* The server. *)

GoodAnswer(kind) ==
    CASE kind = "req_pq" -> "resPQ"
      [] kind = "req_DH_params" -> "server_DH_params_ok"
      [] kind = "set_client_DH_params" -> "dh_gen_ok"

BadAnswers(kind) ==
    CASE kind = "req_pq" -> {"resPQ"}
      [] kind = "req_DH_params" -> {"server_DH_params_ok", "server_DH_params_fail"}
      [] kind = "set_client_DH_params" -> {"dh_gen_ok", "dh_gen_retry", "dh_gen_fail"}

ServerAnswer ==
    /\ toServer # <<>>
    /\ toServer' = Tail(toServer)
    /\ LET r == Head(toServer) IN
       \/ /\ toClient' = Append(toClient, [kind |-> GoodAnswer(r.kind),
                                           nonce |-> r.nonce, good |-> TRUE])
          /\ confirmed' = confirmed \cup
                (IF r.kind = "set_client_DH_params" THEN {r.nonce} ELSE {})
          /\ UNCHANGED boundVars
       \/ /\ Disturb("bad")
          /\ \E k \in BadAnswers(r.kind) :
                toClient' = Append(toClient, [kind |-> k, nonce |-> r.nonce,
                                              good |-> FALSE])
          /\ UNCHANGED confirmed
    /\ UNCHANGED <<hs, conn, outbox, phase, tasks, begun>>
    /\ UNCHANGED keyVars

(* The server sends an answer again that it has no acknowledgement of. *)
Duplicate ==
    /\ Disturb("dup")
    /\ \E i \in DOMAIN toClient : toClient' = Append(toClient, toClient[i])
    /\ UNCHANGED <<hs, conn, outbox, toServer, phase, tasks, begun, confirmed>>
    /\ UNCHANGED keyVars

----------------------------------------------------------------------------
Next ==
    \/ RunTask
    \/ TasksDone
    \/ \E kind \in AppTaskNames : PostTask(kind)
    \/ Deliver
    \/ Connected
    \/ Drop
    \/ ReconnectTimer
    \/ EndEvents
    \/ Finish
    \/ Pause
    \/ ServerAnswer
    \/ Duplicate

Spec == Init /\ [][Next]_vars

(* The thread loops for ever; the server answers; an event of epoll is pending
   until epoll_wait has reported it, also with EPOLLET, and a timer that is due
   stays due, so a finished connect and a due reconnect are handled in some
   iteration. *)
Fairness ==
    /\ WF_vars(RunTask) /\ WF_vars(TasksDone)
    /\ WF_vars(Deliver) /\ WF_vars(EndEvents) /\ WF_vars(Finish)
    /\ WF_vars(ServerAnswer)
    /\ SF_vars(Connected) /\ SF_vars(ReconnectTimer)

FairSpec == Spec /\ Fairness

----------------------------------------------------------------------------
(* A key that the datacenter uses is one for which this client's exchange
   was finished and the server has said dh_gen_ok, and it is stored with its
   own id, whatever restarts, duplicates and bad answers came between the
   answer and the task that installs the key. *)
KeyConfirmed ==
    /\ authKey # 0 => authKey \in confirmed
    /\ authKeyId = authKey

(* The task that installs a key finds the object that scheduled it, unless a
   cleanUp came in between: a restart reuses the object, and an object
   schedules one such task. *)
NoDanglingTask ==
    "cleanUp" \in happened \/
    \A i \in DOMAIN tasks :
        tasks[i].kind = "complete" => hs.object = tasks[i].object

(* While the client waits for an answer, and no connection was lost or
   suspended under it, its request or the answer is on the way: no restart,
   cleanUp, bad or repeated answer leaves it waiting for nothing. *)
NotStalled ==
    (/\ happened \cap {"drop", "pause"} = {}
     /\ isHandshakingAny /\ hs.state \in 1..3 /\ conn \in {"connecting", "up"})
        => \/ \E i \in DOMAIN outbox : outbox[i].nonce = hs.nonce
           \/ \E i \in DOMAIN toServer : toServer[i].nonce = hs.nonce
           \/ \E i \in DOMAIN toClient : toClient[i].nonce = hs.nonce

(* What holds of the exchange in every state: its parts are well formed, the
   task of onHandshakeComplete finds its object, and a restart (beginHandshake,
   with or without a reconnect) leaves nobody waiting for nothing. *)
ExchangeSound == TypeOK /\ NoDanglingTask /\ NotStalled

(* Once the bad answers, the restarts and the cleanUps are over, the
   datacenter gets a key and keeps it, if its connection was neither lost nor
   suspended and no answer came twice. *)
CompletesUndisturbed ==
    <>[](authKey # 0 \/ happened \cap {"drop", "pause", "dup"} # {})
=============================================================================
