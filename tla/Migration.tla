------------------------------ MODULE Migration ------------------------------
(***************************************************************************)
(* The datacenters an account uses: the move to another datacenter that an  *)
(* error 303 asks for, the export of the authorization to a datacenter that *)
(* holds files, updateDcSettings, and the requests that wait for them       *)
(* (ConnectionsManager.cpp, Datacenter.cpp).                                *)
(*                                                                         *)
(* The state of the manager is one record, w, and each function of the code *)
(* is an operator from record to record, because they call one another.     *)
(* Connections, keys and message ids are abstract: a request is sent to a   *)
(* datacenter that has its key, and the answer comes from there.            *)
(***************************************************************************)
EXTENDS Integers, Sequences, SequencesExt, FiniteSets

CONSTANTS
    Dcs,          \* datacenters of the service
    FirstDc,      \* the one that initDatacenters adds: 2
    Logins,       \* requests to the default datacenter that need no login
    Files,        \* requests to a datacenter of their own
    MaxLogins,    \* bound on calls of setUserId
    MaxTroubles,  \* bound on errors, cleanUp calls and late requests together
    MaxExports    \* bound on held exports of a move; each configuration adds one

DEFAULT_DATACENTER_ID == 2147483647

None == 0   \* no datacenter has this id

ASSUME MigrationAssumption ==
    /\ Dcs \subseteq 1..100 /\ FirstDc \in Dcs
    /\ Logins \cap Files = {}
    /\ {MaxLogins, MaxTroubles, MaxExports} \subseteq Nat

VARIABLES
    w,        \* the state of the manager
    tasks,    \* pendingTasks of other threads and of this one
    calls,    \* per request of the application, how often it was called back
    refused,  \* per request, errors 401 of a datacenter other than the current
    count     \* what the bounds count

vars == <<w, tasks, calls, refused, count>>

Apps == Logins \cup Files

Kinds == {"login", "file", "config", "moveExport", "moveImport", "export", "import"}

(* arg is the request of the application, or the datacenter that an export or
   import is for; sent is where the request is running, and fresh that it was
   written after the last epoll_wait, so that no answer to it can be there. *)
Request == [kind : Kinds, dc : Dcs \cup {None, DEFAULT_DATACENTER_ID},
            arg : Apps \cup Dcs \cup {None}, sent : Dcs \cup {None}, fresh : BOOLEAN]

TypeOK ==
    /\ w \in [current : Dcs \cup {None, DEFAULT_DATACENTER_ID}, moving : Dcs \cup {DEFAULT_DATACENTER_ID},
              auth : Dcs \cup {None}, user : BOOLEAN, known : SUBSET Dcs,
              keys : SUBSET Dcs, shaking : SUBSET Dcs, authorized : SUBSET Dcs,
              exporting : SUBSET Dcs, updating : BOOLEAN, list : Seq(Request),
              posts : {<<>>}]
    /\ tasks \in Seq([kind : {"process", "cleanUp", "setUserId"}, reqs : Seq(Request)])
    /\ calls \in [Apps -> Nat] /\ refused \in [Apps -> Nat]
    /\ count \in [logins : 0..MaxLogins, troubles : 0..MaxTroubles,
                  cleaned : BOOLEAN, alone : BOOLEAN, outlived : BOOLEAN]

Init ==
    /\ w = [current |-> FirstDc, moving |-> DEFAULT_DATACENTER_ID, auth |-> None,
            user |-> FALSE, known |-> {FirstDc}, keys |-> {}, shaking |-> {},
            authorized |-> {}, exporting |-> {}, updating |-> FALSE, list |-> <<>>,
            posts |-> <<>>]
    /\ tasks = <<>>
    /\ calls = [a \in Apps |-> 0] /\ refused = [a \in Apps |-> 0]
    /\ count = [logins |-> 0, troubles |-> 0, cleaned |-> FALSE, alone |-> FALSE,
                outlived |-> FALSE]

----------------------------------------------------------------------------
(* Requests. *)
New(kind, dc, arg) == [kind |-> kind, dc |-> dc, arg |-> arg, sent |-> None, fresh |-> FALSE]

(* The flags RequestFlagWithoutLogin and RequestFlagEnableUnauthorized. *)
WithoutLogin(r) == r.kind \notin {"file", "export"}
EnableUnauthorized(r) == r.kind \in {"login", "config", "import"}

(* sendRequest, which does nothing when the login is missing; posts are the
   tasks that a handler schedules. *)
Task(kind, reqs) == [kind |-> kind, reqs |-> reqs]

Post(v, kind, reqs) == [v EXCEPT !.posts = Append(@, Task(kind, reqs))]

sendRequest(v, r) == IF ~v.user /\ ~WithoutLogin(r) THEN v ELSE Post(v, "process", <<r>>)

(* getDatacenterWithId of a request. *)
Target(v, r) == IF r.dc = DEFAULT_DATACENTER_ID THEN v.current ELSE r.dc

MapList(v, f(_)) == [v EXCEPT !.list = [i \in DOMAIN @ |-> f(@[i])]]

clearRequestsForDatacenter(v, d) ==
    MapList(v, LAMBDA r : IF Target(v, r) = d THEN [r EXCEPT !.sent = None, !.fresh = FALSE] ELSE r)

beginHandshake(v, d) == [v EXCEPT !.shaking = @ \cup ({d} \ v.keys)]

updateDcSettings(v) ==
    IF v.updating THEN v
    ELSE sendRequest([v EXCEPT !.updating = TRUE], New("config", v.current, None))

exportAuthorization(v, d) ==
    IF d \in v.exporting THEN v
    ELSE sendRequest([v EXCEPT !.exporting = @ \cup {d}], New("export", DEFAULT_DATACENTER_ID, d))

(* processRequestQueue: a request of the default datacenter is passed over
   during a move.  Afterwards unknown datacenters are asked for, missing keys
   and authorizations are begun.  (HeldNever varies the first.) *)
HeldNever(v, r) == FALSE

Held(v, r) == r.dc = DEFAULT_DATACENTER_ID /\ v.moving # DEFAULT_DATACENTER_ID

Unauthorized(v, r) ==
    /\ ~EnableUnauthorized(r)
    /\ Target(v, r) \notin v.authorized
    /\ r.dc \notin {DEFAULT_DATACENTER_ID, v.current}

Class(v, r) ==
    IF Held(v, r) THEN "held"
    ELSE IF Target(v, r) \notin v.known THEN "unknown"
    ELSE IF Target(v, r) \notin v.keys THEN "keyless"
    ELSE IF Unauthorized(v, r) THEN "unauthorized"
    ELSE "ready"

Targets(v, class) == {Target(v, r) : r \in {q \in ToSet(v.list) : Class(v, q) = class}}

processRequestQueue(v) ==
    LET sent == MapList(v, LAMBDA r :
                    IF Class(v, r) = "ready" /\ r.sent = None
                    THEN [r EXCEPT !.sent = Target(v, r), !.fresh = TRUE] ELSE r)
        asked == IF Targets(v, "unknown") # {} THEN updateDcSettings(sent) ELSE sent
    IN  FoldSet(LAMBDA d, u : exportAuthorization(u, d),
                [asked EXCEPT !.shaking = @ \cup (Targets(v, "keyless") \ {v.moving})],
                IF v.user THEN Targets(v, "unauthorized") \ {v.current, v.moving} ELSE {})

----------------------------------------------------------------------------
(* The move.  moveToDatacenter of a user exports the authorization first;
   authorizeOnMovingDatacenter imports it, if there is one. *)
authorizedOnMovingDatacenter(v) ==
    Post([v EXCEPT !.auth = None, !.current = v.moving, !.moving = DEFAULT_DATACENTER_ID],
         "process", <<>>)

authorizeOnMovingDatacenter(v) ==
    LET d == IF v.moving = DEFAULT_DATACENTER_ID THEN v.current ELSE v.moving
        ready == beginHandshake(clearRequestsForDatacenter(v, d), d)
    IN  IF d \notin v.known THEN updateDcSettings(v)
        ELSE IF v.auth # None
             THEN sendRequest([ready EXCEPT !.auth = None], New("moveImport", d, v.auth))
             ELSE authorizedOnMovingDatacenter(ready)

moveToDatacenter(v, d) ==
    LET cleared == clearRequestsForDatacenter([v EXCEPT !.moving = d], v.current)
    IN  IF v.moving = d THEN v
        ELSE IF v.user THEN sendRequest(cleared, New("moveExport", DEFAULT_DATACENTER_ID, d))
             ELSE authorizeOnMovingDatacenter(cleared)

(* The callbacks.  A configuration that names the datacenter of the move
   begins the move again.  (OnConfigKeepingMove varies it.) *)
OnConfigKeepingMove(v, ok, dcs) ==
    IF ~v.updating THEN v
    ELSE IF ok THEN [Post([v EXCEPT !.known = @ \cup dcs], "process", <<>>) EXCEPT !.updating = FALSE]
         ELSE [v EXCEPT !.updating = FALSE]

OnConfig(v, ok, dcs) ==
    LET got == [v EXCEPT !.known = @ \cup dcs]
        moved == IF got.moving \in dcs
                 THEN moveToDatacenter([got EXCEPT !.moving = DEFAULT_DATACENTER_ID], got.moving)
                 ELSE got
    IN  IF ~v.updating THEN v
        ELSE IF ok THEN [Post(moved, "process", <<>>) EXCEPT !.updating = FALSE]
             ELSE [v EXCEPT !.updating = FALSE]

OnMoveExport(v, ok, r) ==
    IF ok THEN authorizeOnMovingDatacenter([v EXCEPT !.auth = r.arg])
    ELSE moveToDatacenter(v, r.arg)

OnMoveImport(v, ok) ==
    IF ok THEN authorizedOnMovingDatacenter(v) ELSE moveToDatacenter(v, v.moving)

(* Wrong variant, for the mutation runs: the import changes nothing. *)
OnImportForgotten(v, ok, r) == [v EXCEPT !.exporting = @ \ {r.arg}]

OnExport(v, ok, r) ==
    IF ok THEN sendRequest(v, New("import", r.arg, r.arg))
    ELSE [v EXCEPT !.exporting = @ \ {r.arg}]

OnImport(v, ok, r) ==
    LET done == [v EXCEPT !.exporting = @ \ {r.arg}]
    IN  IF ok THEN Post([done EXCEPT !.authorized = @ \cup {r.arg}], "process", <<>>) ELSE done

Callback(v, r, ok, dcs) ==
    CASE r.kind = "config"     -> OnConfig(v, ok, dcs)
      [] r.kind = "moveExport" -> OnMoveExport(v, ok, r)
      [] r.kind = "moveImport" -> OnMoveImport(v, ok)
      [] r.kind = "export"     -> OnExport(v, ok, r)
      [] r.kind = "import"     -> OnImport(v, ok, r)
      [] OTHER                 -> v

----------------------------------------------------------------------------
(* The state after a handler: its posts join the tasks; Passed, after a
   handler that ends with processRequestQueue. *)
Done(v, rest) ==
    \E u \in {v} : w' = [u EXCEPT !.posts = <<>>] /\ tasks' = rest \o u.posts

Passed(v, rest) == \E u \in {v} : Done(processRequestQueue(u), rest)

Trouble == count.troubles < MaxTroubles
Troubled == [count EXCEPT !.troubles = @ + 1]

(* The requests that are in the lists or posted. *)
Pending == ToSet(w.list) \cup UNION {ToSet(tasks[i].reqs) : i \in DOMAIN tasks}
Waits(a) == \E r \in Pending : r.arg = a

(* Other threads.  A request with a login is dropped while there is none. *)
Unused(S) == {a \in S : calls[a] = 0 /\ ~Waits(a)}

SendLogin ==
    /\ \E a \in Unused(Logins) :
         tasks' = Append(tasks, Task("process", <<New("login", DEFAULT_DATACENTER_ID, a)>>))
    /\ UNCHANGED <<w, calls, refused, count>>

SendFile ==
    /\ w.user
    /\ \E a \in Unused(Files), d \in Dcs \ {FirstDc} :
         tasks' = Append(tasks, Task("process", <<New("file", d, a)>>))
    /\ UNCHANGED <<w, calls, refused, count>>

setUserId ==
    /\ count.logins < MaxLogins /\ count' = [count EXCEPT !.logins = @ + 1]
    /\ tasks' = Append(tasks, Task("setUserId", <<>>))
    /\ UNCHANGED <<w, calls, refused>>

cleanUp ==
    /\ Trouble /\ count' = [Troubled EXCEPT !.cleaned = TRUE]
    /\ tasks' = Append(tasks, Task("cleanUp", <<>>))
    /\ UNCHANGED <<w, calls, refused>>

(* History: an export for a move was posted behind cleanUp and outlives it. *)
Exports(ts) == \E i \in DOMAIN ts : \E r \in ToSet(ts[i].reqs) : r.kind = "moveExport"

RunTask ==
    /\ tasks # <<>>
    /\ LET t == Head(tasks) IN
       CASE t.kind = "process" -> Passed([w EXCEPT !.list = @ \o t.reqs], Tail(tasks))
         [] t.kind = "cleanUp" ->
               Done([w EXCEPT !.list = <<>>, !.authorized = {}, !.user = FALSE], Tail(tasks))
         [] t.kind = "setUserId" -> Done([w EXCEPT !.user = TRUE], Tail(tasks))
    /\ count' = [count EXCEPT !.outlived =
                    @ \/ (Head(tasks).kind = "cleanUp" /\ Exports(Tail(tasks)))]
    /\ UNCHANGED <<calls, refused>>

----------------------------------------------------------------------------
(* epoll_wait returns, after the tasks were run. *)
Epoll ==
    /\ tasks = <<>>
    /\ \E i \in DOMAIN w.list : w.list[i].fresh
    /\ w' = MapList(w, LAMBDA r : [r EXCEPT !.fresh = FALSE])
    /\ UNCHANGED <<tasks, calls, refused, count>>

(* The end of select, with or without a new configuration being due. *)
Select(due) ==
    /\ tasks = <<>>
    /\ w.current \in w.known
    /\ due => Len(SelectSeq(w.list, LAMBDA r : r.kind = "moveExport")) < MaxExports
    /\ IF w.current \in w.keys
       THEN Passed(IF due THEN updateDcSettings(w) ELSE w, tasks)
       ELSE Done(beginHandshake(w, w.current), tasks)
    /\ UNCHANGED <<calls, refused, count>>

(* A pass at which a request with RequestFlagTryDifferentDc has waited too
   long: the configuration is asked of another datacenter, any other request
   makes it the current one.  The request for the configuration switches only
   while it waits in the queue: a pass that finds it running sets
   updatingDcStartTime anew. *)
Others(d) == IF w.known \ {d} = {} THEN {None} ELSE w.known \ {d}

Switch(i, d) ==
    LET r == w.list[i] IN
    IF r.kind = "config" THEN [w EXCEPT !.list[i].dc = d, !.list[i].sent = None, !.list[i].fresh = FALSE]
    ELSE [w EXCEPT !.current = d, !.list[i].sent = None, !.list[i].fresh = FALSE]

TryDifferentDc ==
    /\ tasks = <<>>
    /\ Trouble
    /\ \E i \in DOMAIN w.list :
         /\ w.list[i].kind \in {"login", "config"}
         /\ ~Held(w, w.list[i])
         /\ (w.list[i].kind = "login") = (w.list[i].sent # None)
         /\ LET others == Others(Target(w, w.list[i])) IN
            /\ \E d \in others : Passed(Switch(i, d), tasks)
            /\ count' = [Troubled EXCEPT !.alone = @ \/ others = {None}]
    /\ UNCHANGED <<calls, refused>>

onDatacenterHandshakeComplete(d) ==
    /\ d \in w.shaking
    /\ LET v == [w EXCEPT !.keys = @ \cup {d}, !.shaking = @ \ {d}]
       IN  Passed(IF d \in {w.current, w.moving} THEN clearRequestsForDatacenter(v, d) ELSE v, tasks)
    /\ UNCHANGED <<calls, refused, count>>

----------------------------------------------------------------------------
(* TL_rpc_result, which ends with processRequestQueue. *)
Answerable(i) == w.list[i].sent # None /\ ~w.list[i].fresh

Called(r) == IF r.arg \in Apps THEN calls' = [calls EXCEPT ![r.arg] = @ + 1] ELSE UNCHANGED calls

(* (WithoutNone varies it: the request is not erased.) *)
WithoutNone(v, i) == v

Without(v, i) == [v EXCEPT !.list = RemoveAt(@, i)]

Answer(i, ok, dcs) ==
    /\ Answerable(i)
    /\ IF ok /\ dcs = Dcs THEN UNCHANGED count ELSE Trouble /\ count' = Troubled
    /\ Called(w.list[i])
    /\ Passed(Without(Callback(w, w.list[i], ok, dcs), i), tasks)
    /\ UNCHANGED refused

(* Error 303: the move begins; the request that it answers stays in its list. *)
Migrate(d) ==
    /\ Trouble /\ count' = Troubled
    /\ \E i \in DOMAIN w.list : w.list[i].kind \in {"login", "file"} /\ Answerable(i) /\ w.list[i].sent # d
    /\ Passed(moveToDatacenter(w, d), tasks)
    /\ UNCHANGED <<calls, refused>>

(* Error 401.  Of the current datacenter, or the one of the move, it logs the
   user out; of another one it takes the authorization away and the request,
   which has been called back, is sent again. *)
Generic(r) == r.kind # "file"

RefuseOther(v, i) == [v EXCEPT !.authorized = @ \ {v.list[i].sent}, !.list[i].sent = None]

RefuseMine(v, i) ==
    Without(IF v.user /\ Generic(v.list[i]) THEN Post([v EXCEPT !.user = FALSE], "cleanUp", <<>>)
            ELSE v, i)

Refuse(i) ==
    /\ Answerable(i)
    /\ Trouble
    /\ Called(w.list[i])
    /\ LET r == w.list[i]
           v == Callback(w, r, FALSE, {})
           mine == r.sent \in {v.current, v.moving}
           next == IF mine THEN RefuseMine(v, i) ELSE RefuseOther(v, i)
       IN  /\ refused' = IF r.arg \in Apps /\ ~mine THEN [refused EXCEPT ![r.arg] = @ + 1] ELSE refused
           /\ count' = [Troubled EXCEPT !.cleaned = @ \/ v.user # next.user]
           /\ Passed(next, tasks)

----------------------------------------------------------------------------
Next ==
    \/ SendLogin \/ SendFile \/ setUserId \/ cleanUp
    \/ RunTask \/ Epoll
    \/ \E due \in BOOLEAN : Select(due)
    \/ TryDifferentDc
    \/ \E d \in Dcs : onDatacenterHandshakeComplete(d) \/ Migrate(d)
    \/ \E i \in DOMAIN w.list : Answer(i, TRUE, Dcs) \/ Answer(i, TRUE, w.known) \/ Answer(i, FALSE, {})
    \/ \E i \in DOMAIN w.list : Refuse(i)

Spec == Init /\ [][Next]_vars

AnswerOldest ==
    \E i \in DOMAIN w.list : (\A j \in 1..(i - 1) : ~Answerable(j)) /\ Answer(i, TRUE, Dcs)

(* The thread loops for ever and runs its tasks, a configuration is due again
   some time after the last one, handshakes end and a datacenter answers what
   it is asked; failures, which are bounded, come in between. *)
Fairness ==
    /\ WF_vars(RunTask) /\ WF_vars(Epoll) /\ WF_vars(Select(TRUE))
    /\ \A d \in Dcs : WF_vars(onDatacenterHandshakeComplete(d))
    /\ WF_vars(AnswerOldest)

FairSpec == Spec /\ Fairness

----------------------------------------------------------------------------
(* The current datacenter is one the client knows, whatever moves, late
   answers to moves and logouts come together: a move that ended twice would
   make DEFAULT_DATACENTER_ID the current one.  Two ways to lose it remain: a
   client that knows a single datacenter tries a different one, and an export
   that was posted behind cleanUp is answered after its move has ended. *)
CurrentKnown == count.alone \/ count.outlived \/ w.current \in w.known

(* A datacenter whose authorization is being exported, and a configuration
   that is being updated, have a request that will end it, unless cleanUp
   took the requests away: otherwise neither is ever tried again. *)
FlagMeansRequest ==
    ~count.cleaned =>
        /\ w.updating => \E r \in Pending : r.kind = "config"
        /\ \A d \in w.exporting : \E r \in Pending : r.kind \in {"export", "import"} /\ r.arg = d

(* What moves, exports, updates of the configuration and logouts leave behind
   is consistent: a current datacenter that exists and no flag without the
   request that clears it (moveToDatacenter, exportAuthorization, cleanUp). *)
MovesConsistent == TypeOK /\ CurrentKnown /\ FlagMeansRequest

(* A request is called back once, and once more for each error 401 of a
   datacenter other than the current one, which calls back and tries again. *)
CalledOnce == \A a \in Apps : calls[a] <= 1 + refused[a] /\ (calls[a] > refused[a] => ~Waits(a))

(* A move ends when nobody is logged in, also when the datacenter has to be
   learnt from a configuration first. *)
MoveEnds ==
    (w.moving # DEFAULT_DATACENTER_ID /\ ~w.user)
        ~> (w.moving = DEFAULT_DATACENTER_ID \/ w.user \/ count.cleaned \/ count.alone)

(* A request to another datacenter gets its key, its authorization and its
   answer, while the user stays and does not move. *)
FileServed ==
    \A a \in Files :
        Waits(a) ~> (\/ ~Waits(a) \/ w.moving # DEFAULT_DATACENTER_ID \/ ~w.user
                     \/ count.cleaned \/ count.alone)
=============================================================================
