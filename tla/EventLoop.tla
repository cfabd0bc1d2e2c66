------------------------------ MODULE EventLoop ------------------------------
(***************************************************************************)
(* The thread of ConnectionsManager.cpp: select with its pending tasks,    *)
(* its list of timers, the vector of active connections, the pings of the  *)
(* push connection and the sleep of a paused application.                  *)
(*                                                                         *)
(* Time is relative: the model keeps how long ago something happened, or   *)
(* how long it still takes, in ticks of at most one second, and ages that  *)
(* nothing tells apart are one.  Time passes in epoll_wait and, now and    *)
(* then, while tasks run.  What a connection does beyond being open or    *)
(* closed is the subject of Connection; the user is logged in, the keys    *)
(* exist, the network is there and pushConnectionEnabled is set.           *)
(***************************************************************************)
EXTENDS Integers, Sequences, FiniteSets, SequencesExt

CONSTANTS
    IdleLimit,      \* ticks of silence after which checkTimeout closes (8 to 40 s)
    PushTimeout,    \* ticks in which a push ping is answered (30 s)
    PushPeriod,     \* ticks between two push pings (3 min)
    PushSlack,      \* ticks by which a ping may be late (10 s)
    PushRetry,      \* ticks from the end of the push connection to the next ping (4 s)
    SleepTimeout,   \* ticks from pauseNetwork to the sleep (nextSleepTimeout)
    MaxReady,       \* bound on sockets that one epoll_wait returns (128)
    MaxTroubles     \* bound on sockets that fail, ticks that pass while tasks run,
                    \* calls of the application, wake-ups that come late, pushes
                    \* of the server and salts it refuses

ASSUME EventLoopAssumption ==
    /\ IdleLimit \in Nat
    /\ {PushTimeout, PushSlack, PushRetry, SleepTimeout} \subseteq Nat \ {0}
    /\ PushPeriod \in Nat
    /\ PushTimeout < PushPeriod /\ PushRetry < PushPeriod
    /\ {MaxReady, MaxTroubles} \subseteq Nat

VARIABLES
    n,      \* the connections, the list of timers and the members of the manager
    loop,   \* where select is, what epoll_wait waits for, and what it returned
    tasks,  \* pendingTasks
    signal, \* the event descriptor has been written and not yet read
    waking, \* number of threads in scheduleTask between the unlock and wakeup
    app     \* the application: the last of its calls to pause or resume

vars == <<n, loop, tasks, signal, waking, app>>

(* One connection per kind that the loop tells apart: Generic, which connects
   again by a timer; Download, whose requests keep the network awake; Push,
   which is not suspended with the others. *)
Conns == {"generic", "download", "push"}
Open == {"Connecting", "Connected"}

PushCap == PushPeriod + PushSlack       \* the age of every older push ping
TimerTicks == 1                         \* 1000 ms, or at most 400 ms after a reset
MaxPoll == 1                            \* the 1000 ms that epoll_wait waits at most
None == -1                              \* lastPauseTime = 0
End == "end"                            \* events.end()
Pipe == "pipe"                          \* the event object of the descriptor

Phases == {"tasks", "polling", "woken", "sockets"}

(* mem is the memory of the vector activeConnections, of which the first size
   entries are its elements: erase moves the later ones down and leaves the
   last slot as it was.  due is what a started timer still takes; heard says
   that data came on the push connection, which may then be silent for longer
   than a ping may take; busy holds what keeps the network awake: "download"
   while a download or upload is under way, "generic" while salts are requested
   (requestingSaltsForDc). *)
TypeOK ==
    /\ n \in [st : [Conns -> Open \cup {"Idle", "Reconnecting", "Suspended"}],
              idle : [Conns -> 0..(IdleLimit + 1)], heard : BOOLEAN,
              wait : [Conns -> BOOLEAN], due : [Conns -> 0..TimerTicks],
              events : Seq(Conns), mem : Seq(Conns), size : 0..Cardinality(Conns),
              pinging : BOOLEAN, pushAge : 0..PushCap, lastPause : None..SleepTimeout,
              paused : BOOLEAN, busy : SUBSET {"generic", "download"},
              again : BOOLEAN, troubles : 0..MaxTroubles]
    /\ loop \in [pc : Phases, rearmed : BOOLEAN, timeout : 0..PushPeriod,
                 polled : SUBSET (Conns \cup {Pipe})]
    /\ tasks \in Seq({"send", "download", "resume", "partial"})
    /\ signal \in BOOLEAN
    /\ waking \in Nat
    /\ app \in [wanted : {"awake", "asleep"}, overtaken : BOOLEAN]

----------------------------------------------------------------------------
(* scheduleEvent, removeEvent, and Timer::start and stop.  The list is sorted
   by time; the code of a short timer and of a long one is the same. *)
Started(d, x) ==
    LET later == {i \in DOMAIN d.events : d.due[d.events[i]] > TimerTicks} IN
    IF x \in Range(d.events) THEN d
    ELSE [d EXCEPT !.due[x] = TimerTicks,
                   !.events = IF later = {} THEN Append(@, x)
                              ELSE InsertAt(@, CHOOSE i \in later : \A j \in later : i <= j, x)]

Erase(events, x) ==
    IF x \in Range(events) THEN RemoveAt(events, CHOOSE i \in DOMAIN events : events[i] = x)
    ELSE events

Stopped(d, x) == [d EXCEPT !.events = Erase(@, x), !.due[x] = 0]

(* attachConnection and detachConnection. *)
Active(d) == SubSeq(d.mem, 1, d.size)

Attached(d, x) ==
    IF x \in Range(Active(d)) THEN d
    ELSE [d EXCEPT !.size = @ + 1, !.mem = Append(Active(d), x)]

Detached(d, x) ==
    IF x \notin Range(Active(d)) THEN d
    ELSE LET at == CHOOSE i \in 1..d.size : d.mem[i] = x IN
         [d EXCEPT !.size = @ - 1,
                   !.mem = [i \in DOMAIN @ |-> IF at <= i /\ i < d.size THEN @[i + 1] ELSE @[i]]]

(* onConnectionClosed: the next ping of a push connection comes after PushRetry. *)
onConnectionClosed(d, x) ==
    IF x = "push" THEN [d EXCEPT !.pinging = FALSE, !.pushAge = PushPeriod - PushRetry] ELSE d

(* onDisconnected: after a reset every connection waits for its timer, else
   only Generic is connected again. *)
Retrying(d, x, reset) ==
    LET back == [d EXCEPT !.st[x] = "Reconnecting", !.wait[x] = reset] IN
    IF reset \/ x = "generic" THEN Started(back, x) ELSE back

onDisconnected(d, x, reset) ==
    {IF d.st[x] = "Suspended" THEN e ELSE Retrying(e, x, reset) :
        e \in {onConnectionClosed([Stopped(d, x) EXCEPT !.heard = @ /\ x # "push"], x)}}

(* closeSocket. *)
closeSocket(d, x, reset) ==
    UNION {onDisconnected(e, x, reset) : e \in {Detached([d EXCEPT !.idle[x] = 0], x)}}

(* connect, with openConnection, which may fail at once, and setTimeout. *)
Opened(d, x) == Attached([Stopped(d, x) EXCEPT !.st[x] = "Connecting", !.idle[x] = 0], x)

connect(d, x) ==
    IF d.wait[x] \/ d.st[x] \in Open THEN {d}
    ELSE UNION {{e} \cup IF d.troubles = MaxTroubles THEN {}
                         ELSE closeSocket([e EXCEPT !.troubles = @ + 1], x, FALSE) :
                   e \in {Opened(d, x)}}

suspendConnection(d, x) ==
    UNION {IF d.st[x] \in {"Idle", "Suspended"} THEN {e}
           ELSE {onConnectionClosed(f, x) :
                    f \in closeSocket([e EXCEPT !.st[x] = "Suspended"], x, FALSE)} :
              e \in {[Stopped(d, x) EXCEPT !.wait[x] = FALSE]}}

(* sendPing on the push connection: getPushConnection connects, sendData
   connects again when that failed. *)
sendPing(d) ==
    UNION {IF e.st["push"] \in Open THEN {[e EXCEPT !.pinging = TRUE]}
           ELSE connect([e EXCEPT !.pinging = TRUE], "push") : e \in connect(d, "push")}

----------------------------------------------------------------------------
(* What the events of a socket do: it is connected, has data, or fails. *)
onConnectionConnected(d, x) ==
    IF x = "push" THEN sendPing([d EXCEPT !.pinging = FALSE, !.pushAge = 0])
    ELSE {IF d.paused /\ d.lastPause # None THEN [d EXCEPT !.lastPause = 0] ELSE d}

Established(d, x) == onConnectionConnected([d EXCEPT !.st[x] = "Connected", !.idle[x] = 0], x)

(* Data: on the push connection a pong, elsewhere the answer of a request. *)
Heard(d, x) == [d EXCEPT !.idle[x] = 0, !.heard = @ \/ x = "push"]

Received(d, x) ==
    LET heard == Heard(d, x) IN
    IF x = "push" THEN {heard, [heard EXCEPT !.pinging = FALSE]}
    ELSE {heard, [heard EXCEPT !.busy = @ \ {x}]}

Failed(d, x) ==
    UNION {closeSocket([d EXCEPT !.troubles = @ + 1], x, reset) : reset \in BOOLEAN}

(* TL_updatesTooLong, received on the push connection. *)
InternalPush(d) ==
    LET heard == Heard(d, "push") IN
    IF d.paused \/ d.lastPause # None THEN [heard EXCEPT !.lastPause = 0] ELSE heard

(* onUpdate, the ping of the generic connection and processRequestQueue: they
   may connect the generic connection, and do connect the one of a download
   that is under way. *)
Worked(d) ==
    UNION {IF "download" \in e.busy THEN connect(e, "download") ELSE {e} : e \in {d} \cup connect(d, "generic")}

(* bad_server_salt: the salts are asked for, once, and the queue is processed. *)
SaltRefused(d, x) == Worked([Heard(d, x) EXCEPT !.busy = @ \cup {"generic"}])

OnEvent(d, x) ==
    (IF d.troubles < MaxTroubles THEN Failed(d, x) ELSE {})
    \cup (IF d.st[x] = "Connecting" THEN Established(d, x) ELSE Received(d, x))

----------------------------------------------------------------------------
(* A task, as checkPendingTasks runs it: a request for the generic or the
   download connection, or resumeNetwork (ResumeForgets varies its part: a
   full resume leaves lastPauseTime.  Operators that are said to vary another
   are wrong on purpose, for the mutation runs). *)
ResumeForgets(d, partial) ==
    IF partial /\ ~d.paused /\ d.lastPause = None THEN d
    ELSE [d EXCEPT !.paused = FALSE, !.lastPause = IF @ = None THEN None ELSE 0]

Resumed(d, partial) ==
    IF ~partial THEN [d EXCEPT !.paused = FALSE, !.lastPause = None]
    ELSE IF d.paused \/ d.lastPause # None
         THEN [d EXCEPT !.paused = FALSE, !.lastPause = 0] ELSE d

RunTask(d, task) ==
    CASE task = "send" -> connect(d, "generic")
      [] task = "download" -> connect([d EXCEPT !.busy = @ \cup {"download"}], "download")
      [] task = "resume" -> {Resumed(d, FALSE)}
      [] task = "partial" -> {Resumed(d, TRUE)}

(* checkPendingTasks, at the start of select and after epoll_wait, one task at
   a time: other threads post between two of them. *)
CheckPendingTasks ==
    /\ loop.pc \in {"tasks", "woken"}
    /\ tasks # <<>>
    /\ n' \in RunTask(n, Head(tasks))
    /\ tasks' = Tail(tasks)
    /\ UNCHANGED <<loop, signal, waking, app>>

----------------------------------------------------------------------------
(* callEvents.  The callback of a connection connects, and may start the timer
   again when that fails at once.  The loop goes on with the event that was
   behind the one it fired: what a callback puts into the list is not due. *)
Fired(d, x) == connect([Stopped(d, x) EXCEPT !.wait[x] = FALSE], x)

(* The place in the list at which the loop stops. *)
Stop(d) ==
    CHOOSE i \in 1..(Len(d.events) + 1) :
        /\ i \in DOMAIN d.events => d.due[d.events[i]] > 0
        /\ \A j \in 1..(i - 1) : d.due[d.events[j]] = 0

DueEvents(d) == SubSeq(d.events, 1, Stop(d) - 1)

CalledEvents(d) ==
    LET due == DueEvents(d)
        ds[i \in 0..Len(due)] ==
            IF i = 0 THEN {d} ELSE UNION {Fired(e, due[i]) : e \in ds[i - 1]}
    IN  ds[Len(due)]

(* The event at which iter stands when the events of d were called and left e:
   the first that is left, unless it is the one that fired last and started its
   own timer again, behind iter. *)
Pending(d, e) ==
    LET due == DueEvents(d) IN
    IF e.events = <<>> \/ (due # <<>> /\ Head(e.events) = Last(due)) THEN End
    ELSE Head(e.events)

(* The time to wait. *)
PollTimeout(d, iter) ==
    LET timeToPushPing == (IF d.pinging THEN PushTimeout ELSE PushPeriod) - d.pushAge IN
    IF iter # End THEN (IF d.due[iter] > MaxPoll THEN MaxPoll ELSE d.due[iter])
    ELSE IF ~d.paused \/ timeToPushPing <= 0 THEN MaxPoll
    ELSE timeToPushPing

(* callEvents before epoll_wait. *)
StartPoll ==
    /\ loop.pc = "tasks"
    /\ tasks = <<>>
    /\ \E d \in CalledEvents(n) :
          /\ n' = d
          /\ loop' = [loop EXCEPT !.pc = "polling", !.timeout = PollTimeout(d, Pending(n, d)),
                                  !.rearmed = Pending(n, d) = End /\ d.events # <<>>]
    /\ UNCHANGED <<tasks, signal, waking, app>>

----------------------------------------------------------------------------
(* epoll_wait. *)
Older(age, cap) == IF age < cap THEN age + 1 ELSE cap

Aged(d) ==
    [d EXCEPT !.idle = [x \in Conns |-> IF d.st[x] \in Open THEN Older(@[x], IdleLimit + 1) ELSE @[x]],
              !.due = [x \in Conns |-> IF @[x] > 0 THEN @[x] - 1 ELSE 0],
              !.pushAge = Older(@, PushCap),
              !.lastPause = IF @ = None THEN None ELSE Older(@, SleepTimeout)]

Tick ==
    /\ loop.pc = "polling"
    /\ loop.timeout > 0
    /\ ~signal
    /\ n' = Aged(n)
    /\ loop' = [loop EXCEPT !.timeout = @ - 1]
    /\ UNCHANGED <<tasks, signal, waking, app>>

Delay ==
    /\ loop.pc = "tasks"
    /\ n.troubles < MaxTroubles
    /\ n' = Aged([n EXCEPT !.troubles = @ + 1])
    /\ UNCHANGED <<loop, tasks, signal, waking, app>>

Wake ==
    /\ loop.pc = "polling"
    /\ \E xs \in SUBSET {x \in Conns : n.st[x] \in Open} :
          /\ Cardinality(xs) <= MaxReady
          /\ xs # {} \/ signal \/ loop.timeout = 0
          /\ loop' = [loop EXCEPT !.pc = "woken", !.timeout = 0, !.rearmed = FALSE,
                                  !.polled = xs \cup IF signal THEN {Pipe} ELSE {}]
    /\ UNCHANGED <<n, tasks, signal, waking, app>>

(* callEvents after epoll_wait and the tasks. *)
CallEvents ==
    /\ loop.pc = "woken"
    /\ tasks = <<>>
    /\ n' \in CalledEvents(n)
    /\ loop' = [loop EXCEPT !.pc = "sockets"]
    /\ UNCHANGED <<tasks, signal, waking, app>>

(* The event objects that were polled: the descriptor is read, sockets are
   handled. *)
ReadDescriptor ==
    /\ loop.pc = "sockets"
    /\ Pipe \in loop.polled
    /\ signal' = FALSE
    /\ loop' = [loop EXCEPT !.polled = @ \ {Pipe}]
    /\ UNCHANGED <<n, tasks, waking, app>>

HandleSocket ==
    /\ loop.pc = "sockets"
    /\ \E x \in loop.polled \ {Pipe} :
          /\ \/ n' \in OnEvent(n, x)
             \/ /\ x = "push" /\ n.st[x] = "Connected"
                /\ n.troubles < MaxTroubles
                /\ n' = InternalPush([n EXCEPT !.troubles = @ + 1])
          /\ loop' = [loop EXCEPT !.polled = @ \ {x}]
    /\ UNCHANGED <<tasks, signal, waking, app>>

(* requestSaltsForDatacenter posts its request like any other thread. *)
HandleBadServerSalt ==
    /\ loop.pc = "sockets"
    /\ n.troubles < MaxTroubles
    /\ \E x \in loop.polled \ {Pipe} :
          /\ n.st[x] = "Connected"
          /\ n' \in SaltRefused([n EXCEPT !.troubles = @ + 1], x)
          /\ loop' = [loop EXCEPT !.polled = @ \ {x}]
    /\ IF "generic" \in n.busy THEN UNCHANGED <<tasks, signal>>
       ELSE tasks' = Append(tasks, "send") /\ signal' = TRUE
    /\ UNCHANGED <<waking, app>>

----------------------------------------------------------------------------
(* The loop over activeConnections: it goes over as many slots as there were
   elements at its start, while closeSocket erases elements.  (TimeoutsButLast
   varies it and leaves out the last slot.)  again is set when a connection
   that is not open is closed. *)
TimedOut(d, x) == d.idle[x] > IdleLimit /\ ~(x = "push" /\ d.heard)

checkTimeout(d, x) ==
    IF TimedOut(d, x)
    THEN closeSocket([d EXCEPT !.again = @ \/ d.st[x] \notin Open], x, FALSE)
    ELSE {d}

Passed(d, slots) ==
    LET ds[i \in 0..slots] ==
            IF i = 0 THEN {d} ELSE UNION {checkTimeout(e, e.mem[i]) : e \in ds[i - 1]}
    IN  ds[slots]

TimeoutsButLast(d) == Passed(d, IF d.size = 0 THEN 0 ELSE d.size - 1)

TimeoutsChecked(d) == Passed(d, d.size)

----------------------------------------------------------------------------
(* The rest of select.  The push connection (PushKept varies it: a ping that is
   not answered does not suspend the connection). *)
PushKept(d) ==
    IF d.pushAge >= PushPeriod THEN sendPing([d EXCEPT !.pushAge = 0]) ELSE {d}

PushLate(d) == (d.pinging /\ d.pushAge >= PushTimeout) \/ d.pushAge >= PushCap

PushChecked(d) ==
    UNION {IF e.pushAge >= PushPeriod THEN sendPing([e EXCEPT !.pushAge = 0]) ELSE {e} :
              e \in IF PushLate(d)
                    THEN suspendConnection([d EXCEPT !.pushAge = PushCap, !.pinging = FALSE], "push")
                    ELSE {d}}

(* Suspends all connections but the one for pushes. *)
suspendConnections(d) ==
    UNION {suspendConnection(e, "download") : e \in suspendConnection(d, "generic")}

(* The sleep (SleptWithoutReturn varies it: it goes on after the suspension). *)
SleptWithoutReturn(d) ==
    IF d.lastPause = SleepTimeout /\ d.busy = {}
    THEN UNION {Worked([e EXCEPT !.paused = FALSE]) : e \in suspendConnections(d)}
    ELSE Worked([d EXCEPT !.paused = FALSE])

Slept(d) ==
    IF d.lastPause = SleepTimeout /\ d.busy = {}
    THEN {[e EXCEPT !.paused = TRUE] : e \in IF d.paused THEN {d} ELSE suspendConnections(d)}
    ELSE UNION {Worked(e) : e \in {[d EXCEPT !.paused = FALSE,
                                              !.lastPause = IF @ = SleepTimeout THEN 0 ELSE @]}}

(* What follows the events, up to the next select and its pending tasks
   (RestToPoll varies it: callEvents comes before them). *)
Rested(d) ==
    UNION {Slept(f) : f \in UNION {PushChecked(e) : e \in TimeoutsChecked(d)}}

RestToPoll ==
    /\ loop.pc = "sockets"
    /\ loop.polled = {}
    /\ \E d \in Rested(n) : \E e \in CalledEvents(d) :
          /\ n' = [e EXCEPT !.mem = Active(e)]
          /\ loop' = [loop EXCEPT !.pc = "polling", !.timeout = PollTimeout(e, Pending(d, e))]
    /\ UNCHANGED <<tasks, signal, waking, app>>

Rest ==
    /\ loop.pc = "sockets"
    /\ loop.polled = {}
    /\ \E d \in Rested(n) : n' = [d EXCEPT !.mem = Active(d)]
    /\ loop' = [loop EXCEPT !.pc = "tasks"]
    /\ UNCHANGED <<tasks, signal, waking, app>>

----------------------------------------------------------------------------
(* The application, in its own threads.  scheduleTask puts the task in the
   queue under a lock and writes the descriptor after it, at once or late:
   a delay counts as a trouble.  setAppPaused calls resumeNetwork, which
   is a task, and pauseNetwork, which is not, in turn. *)
Post(task) ==
    /\ tasks' = Append(tasks, task)
    /\ \E late \in 0..1 :
          /\ n.troubles + 1 + late <= MaxTroubles
          /\ n' = [n EXCEPT !.troubles = @ + 1 + late]
          /\ waking' = waking + late
          /\ signal' = (signal \/ late = 0)
    /\ UNCHANGED loop

Wakeup ==
    /\ waking > 0
    /\ waking' = waking - 1
    /\ signal' = TRUE
    /\ UNCHANGED <<n, loop, tasks, app>>

Request ==
    /\ \E task \in {"send", "download", "partial"} : Post(task)
    /\ UNCHANGED app

ResumeNetwork ==
    /\ app.wanted = "asleep"
    /\ Post("resume")
    /\ app' = [app EXCEPT !.wanted = "awake"]

(* pauseNetwork overtakes a resumeNetwork that is still in the queue. *)
PauseNetwork ==
    /\ app.wanted = "awake"
    /\ n.troubles < MaxTroubles
    /\ n' = [n EXCEPT !.lastPause = IF @ = None THEN 0 ELSE @, !.troubles = @ + 1]
    /\ app' = [wanted |-> "asleep", overtaken |-> "resume" \in Range(tasks)]
    /\ UNCHANGED <<loop, tasks, signal, waking>>

----------------------------------------------------------------------------
(* init, with or without isPaused, and the start of ThreadProc, which pings
   the push connection while lastPushPingTime is still 0. *)
Fresh(lastPause) ==
    [st |-> [x \in Conns |-> "Idle"], idle |-> [x \in Conns |-> 0],
     heard |-> FALSE, wait |-> [x \in Conns |-> FALSE],
     due |-> [x \in Conns |-> 0], events |-> <<>>, mem |-> <<>>, size |-> 0,
     pinging |-> FALSE, pushAge |-> PushCap, lastPause |-> lastPause,
     paused |-> FALSE, busy |-> {}, again |-> FALSE, troubles |-> 0]

Init ==
    /\ \E wanted \in {"awake", "asleep"} :
          /\ app = [wanted |-> wanted, overtaken |-> FALSE]
          /\ \E d \in {Fresh(IF wanted = "asleep" THEN 0 ELSE None)} : n \in sendPing(d)
    /\ loop = [pc |-> "tasks", rearmed |-> FALSE, timeout |-> 0, polled |-> {}]
    /\ tasks = <<>>
    /\ signal = FALSE
    /\ waking = 0

Thread ==
    \/ CheckPendingTasks \/ StartPoll \/ Wake \/ CallEvents
    \/ ReadDescriptor \/ HandleSocket \/ HandleBadServerSalt \/ Rest

Next == Thread \/ Tick \/ Delay \/ Wakeup \/ Request \/ ResumeNetwork \/ PauseNetwork

(* The thread runs and time goes on, however often sockets end the wait. *)
Fairness == WF_vars(Thread) /\ SF_vars(Tick)

Spec == Init /\ [][Next]_vars /\ Fairness

----------------------------------------------------------------------------
(* The vector activeConnections holds each connection whose socket is open
   once and no other, also after the loop over it closed some of them. *)
ActiveIsOpen ==
    /\ \A i, j \in 1..n.size : n.mem[i] = n.mem[j] => i = j
    /\ Range(Active(n)) = {x \in Conns : n.st[x] \in Open}

(* scheduleTask never loses a wake-up: while the thread waits in epoll_wait
   with a task in the queue, the descriptor is readable or a thread is about to
   write it, although it is read after the queue was emptied and tasks come at
   any time in between. *)
NoLostWakeup == loop.pc = "polling" /\ tasks # <<>> => signal \/ waking > 0

(* epoll_wait never waits past the next timer, the next push ping or the end
   of the time for its answer, except for the timer that callEvents called last
   and that started itself again: iter is then past it. *)
NeverOversleeps ==
    loop.pc = "polling" =>
        /\ loop.rearmed \/ \A x \in Range(n.events) : loop.timeout <= n.due[x]
        /\ \/ loop.timeout <= MaxPoll
           \/ loop.timeout <= (IF n.pinging THEN PushTimeout ELSE PushPeriod) - n.pushAge

(* A connection that the loop over activeConnections closes is open: the stale
   slots behind the end of the vector close nothing a second time. *)
ClosedOnce == ~n.again

(* Once the application has been resumed, and the task ran, the network does
   not sleep and is not on its way to, whatever partial resumes, pushes and
   connections that were opened in the background did before. *)
ResumedStaysAwake ==
    app.wanted = "awake" /\ "resume" \notin Range(tasks) => ~n.paused /\ n.lastPause = None

(* What select leaves behind is consistent: activeConnections, the sockets it
   closes, and the wish of the application to be awake. *)
LoopSound == TypeOK /\ ActiveIsOpen /\ ClosedOnce /\ ResumedStaysAwake

(* select is never asleep when it is needed: neither past a task that another
   thread has posted (scheduleTask, wakeup) nor past the next event or ping
   (callEvents). *)
WakesInTime == NoLostWakeup /\ NeverOversleeps

(* A connection that is silent for too long is closed in the end, although
   the loop passes over the one behind a connection it has closed. *)
TimedOutCloses == \A x \in Conns : TimedOut(n, x) ~> ~TimedOut(n, x)

(* A ping on the push connection is answered or given up, and a push
   connection that is closed is opened again, also while the network sleeps. *)
PushRecovers ==
    /\ n.pinging ~> ~n.pinging
    /\ n.st["push"] \notin Open ~> n.st["push"] \in Open

(* An application that is paused and loads nothing lets the network sleep in
   the end, unless its pause overtook the resume before it or the network waits
   for salts: a request for them that cleanUp throws away leaves
   requestingSaltsForDc as it was, and the network then never sleeps. *)
SleepsInTheEnd ==
    app.wanted = "asleep" ~> n.paused \/ n.busy # {} \/ app.wanted = "awake" \/ app.overtaken
=============================================================================
