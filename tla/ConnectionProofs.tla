--------------------------- MODULE ConnectionProofs --------------------------
(***************************************************************************)
(* That the state of a connection, its socket, its token, its timer and    *)
(* its stream agree, for any number of addresses, failures and calls.      *)
(*                                                                         *)
(* The handlers of Connection.cpp call each other, so the proof follows    *)
(* the calls: for each handler a lemma says that from a record that is in  *)
(* order every record it may leave is in order too.                        *)
(***************************************************************************)
EXTENDS Connection, TLAPS

(* What holds of the timer even inside a handler, between the steps of
   suspendConnection and closeSocket: the timer is queued once while it is
   started, a refusal to connect has a running timer, and a connection that
   checks a proxy is never refused. *)
TimerInOrder(d) ==
    /\ d \in Connections
    /\ d.wait => d.started
    /\ d.queued = (IF d.started THEN 1 ELSE 0)
    /\ d.started => d.st = "Reconnecting"
    /\ kind.proxyCheck => ~d.wait

(* The socket, the token and the stream agree with the state; nothing of a
   stream is left where there is no socket; a token is counted for a socket
   when onConnectedSent says so, and that of a connected one is the last. *)
SocketInOrder(d) ==
    /\ d.st \in {"Connecting", "Connected"} <=> d.fd # "none"
    /\ d.token # 0 <=> d.st = "Connected"
    /\ d.out = "data" => d.begun
    /\ d.first <=> (d.out = "header" \/ d.begun)
    /\ d.fd = "none" => d.out = "none" /\ ~d.begun /\ ~d.sent
    /\ d.last = d.opened + (IF d.sent THEN 1 ELSE 0)
    /\ d.st = "Connected" => d.sent /\ d.token = d.last

InOrder(d) == TimerInOrder(d) /\ SocketInOrder(d)

(* Timer::stop and Timer::start change the timer and nothing else. *)
SameButTimer(d, e) ==
    /\ e.st = d.st /\ e.fd = d.fd /\ e.out = d.out /\ e.first = d.first
    /\ e.begun = d.begun /\ e.wait = d.wait /\ e.token = d.token /\ e.last = d.last
    /\ e.sent = d.sent /\ e.opened = d.opened

LEMMA TimerTyped ==
    ASSUME NEW d \in Connections, NEW b \in BOOLEAN, NEW q \in Nat
    PROVE  [d EXCEPT !.started = b, !.queued = q] \in Connections
  BY Zenon DEF Connections

LEMMA StopTimer ==
    ASSUME NEW d, TimerInOrder(d)
    PROVE  /\ Stop(d) \in Connections
           /\ ~Stop(d).started /\ Stop(d).queued = 0
           /\ SameButTimer(d, Stop(d))
<1>1. d \in Connections
  BY DEF TimerInOrder
<1>2. Stop(d) = IF d.started THEN [d EXCEPT !.started = FALSE, !.queued = 0] ELSE d
  BY <1>1 DEF Stop, TimerInOrder, Connections
<1>3. Stop(d) \in Connections
  BY <1>1, <1>2, TimerTyped
<1>4. QED
  BY <1>1, <1>2, <1>3 DEF TimerInOrder, Connections, SameButTimer

LEMMA StartTimer ==
    ASSUME NEW d \in Connections, ~d.started, d.queued = 0
    PROVE  /\ Start(d) \in Connections
           /\ Start(d).started /\ Start(d).queued = 1
           /\ SameButTimer(d, Start(d))
<1>1. Start(d) = [d EXCEPT !.started = TRUE, !.queued = 1]
  BY DEF Start, Connections
<1>2. Start(d) \in Connections
  <2>1. TRUE \in BOOLEAN /\ 1 \in Nat
    OBVIOUS
  <2>2. [d EXCEPT !.started = TRUE, !.queued = 1] \in Connections
    BY <2>1, TimerTyped, Zenon
  <2>3. QED
    BY <1>1, <2>2, Zenon
<1>3. QED
  BY <1>1, <1>2 DEF Connections, SameButTimer

(* What onDisconnected has made of a connection whose socket is gone, before
   it decides on the timer: wait is what it was. *)
Closed(d, e) ==
    /\ e \in Connections
    /\ ~e.started /\ e.queued = 0 /\ ~e.first /\ e.token = 0
    /\ e.fd = "none" /\ e.out = "none" /\ ~e.begun
    /\ ~e.sent /\ e.opened = e.last /\ e.wait = d.wait

LEMMA RetriedClosed ==
    ASSUME NEW d, NEW x, Closed(d, x), NEW r \in Retried(x)
    PROVE  Closed(d, r) /\ r.st = x.st
<1> DEFINE f == IF x.failed < FailCap THEN x.failed + 1 ELSE FailCap
           W == IF f = 1 THEN (IF x.useful THEN {1, 3} ELSE {1}) ELSE {x.willRetry}
<1>1. f \in 0..FailCap /\ W \subseteq {1, 3, 5}
  BY DEF Closed, Connections, FailCap
<1>2. PICK w \in W : r = [x EXCEPT !.failed = f, !.willRetry = w]
  BY Zenon DEF Retried
<1> HIDE DEF f, W
<1>3. r \in Connections
  <2>1. w \in {1, 3, 5}
    BY <1>1
  <2>2. QED
    BY <1>1, <1>2, <2>1, Zenon DEF Closed, Connections
<1>4. QED
  BY <1>1, <1>2, <1>3 DEF Closed, Connections

LEMMA RotatedClosed ==
    ASSUME NEW d, NEW x, Closed(d, x), NEW switch
    PROVE  Closed(d, Rotated(x, switch)) /\ Rotated(x, switch).st = x.st
<1>1. CASE Rotated(x, switch) = x
  BY <1>1
<1>2. CASE Rotated(x, switch) # x
  <2>1. PICK a : Rotated(x, switch) = [x EXCEPT !.addr = a, !.failed = 0]
                 /\ a = (x.addr + 1) % Addresses
    BY <1>2, Zenon DEF Rotated
  <2>2. a \in 0..(Addresses - 1) /\ 0 \in 0..FailCap
    BY <2>1, ConnectionAssumption DEF Closed, Connections, FailCap
  <2>3. Rotated(x, switch) \in Connections
    BY <2>1, <2>2, Zenon DEF Closed, Connections
  <2>4. QED
    BY <2>1, <2>3 DEF Closed, Connections
<1>3. QED
  BY <1>1, <1>2

(* onDisconnected, called with the socket closed and the stream cleaned. *)
LEMMA OnDisconnectedLeaves ==
    ASSUME NEW d, TimerInOrder(d),
           d.fd = "none", d.out = "none", ~d.begun, ~d.sent, d.opened = d.last,
           NEW reason, NEW error, NEW e \in onDisconnected(d, reason, error)
    PROVE  InOrder(e) /\ e.st \in {"Reconnecting", "Suspended"}
<1> DEFINE closed == [Stop(d) EXCEPT !.first = FALSE, !.was = FALSE, !.token = 0]
<1>1. Closed(d, closed) /\ closed.st = d.st
  <2>1. 0 \in Nat /\ Stop(d) \in Connections
    BY StopTimer
  <2>2. closed \in Connections
    BY <2>1, ZenonT(60) DEF Connections
  <2>3. QED
    BY <2>2, StopTimer DEF Closed, Connections, SameButTimer
<1>2. CASE d.st = "Suspended"
  <2>1. e = [closed EXCEPT !.useful = FALSE]
    BY <1>2, Zenon DEF onDisconnected
  <2>2. ~d.wait
    BY <1>2 DEF TimerInOrder
  <2> HIDE DEF closed
  <2>3. e \in Connections
    BY <1>1, <2>1, Zenon DEF Closed, Connections
  <2>4. /\ e.st = "Suspended" /\ ~e.started /\ e.queued = 0 /\ ~e.first /\ e.token = 0
        /\ e.fd = "none" /\ e.out = "none" /\ ~e.begun /\ ~e.sent /\ e.opened = e.last /\ ~e.wait
        /\ e.last \in Nat
    BY <1>1, <1>2, <2>1, <2>2 DEF Closed, Connections
  <2>5. QED
    BY <2>3, <2>4 DEF InOrder, TimerInOrder, SocketInOrder
<1>3. CASE d.st # "Suspended"
  <2> DEFINE open == [closed EXCEPT !.st = "Reconnecting"]
  <2> DEFINE switch == (d.was /\ ~d.someData /\ reason = 2) \/ d.force
  <2>1. PICK r \in Retried(open) :
             e = [Rescheduled(Rotated(r, switch), error) EXCEPT !.useful = FALSE]
    BY <1>3, Zenon DEF onDisconnected
  <2>2. Closed(d, open) /\ open.st = "Reconnecting"
    <3> HIDE DEF closed
    <3>1. open \in Connections
      BY <1>1, Zenon DEF Closed, Connections, States
    <3>2. QED
      BY <1>1, <3>1 DEF Closed, Connections
  <2> HIDE DEF open, switch
  <2> DEFINE x == Rotated(r, switch)
             y == Rescheduled(x, error)
  <2>3. Closed(d, x) /\ x.st = "Reconnecting"
    BY <2>1, <2>2, RetriedClosed, RotatedClosed
  <2>4. e = [y EXCEPT !.useful = FALSE]
    BY <2>1
  <2> HIDE DEF x
  <2> DEFINE Plain(z) ==
        /\ z \in Connections /\ ~z.first /\ z.token = 0 /\ z.fd = "none" /\ z.out = "none"
        /\ ~z.begun /\ ~z.sent /\ z.opened = z.last /\ z.st = "Reconnecting"
  <2>5. Plain(y) /\ (y.wait => y.started) /\ y.queued = (IF y.started THEN 1 ELSE 0)
        /\ (kind.proxyCheck => ~y.wait)
    <3>1. \A b \in BOOLEAN : Plain([x EXCEPT !.wait = b]) /\ [x EXCEPT !.wait = b].wait = b
             /\ [x EXCEPT !.wait = b].queued = 0 /\ ~[x EXCEPT !.wait = b].started
      <4>1. TAKE b \in BOOLEAN
      <4>2. [x EXCEPT !.wait = b] \in Connections
        BY <2>3, Zenon DEF Closed, Connections
      <4>3. QED
        BY <2>3, <4>2 DEF Closed, Connections
    <3>2. \A b \in BOOLEAN : LET z == Start([x EXCEPT !.wait = b]) IN
             Plain(z) /\ z.wait = b /\ z.queued = 1 /\ z.started
      <4>1. TAKE b \in BOOLEAN
      <4> DEFINE w == [x EXCEPT !.wait = b]
      <4>2. Plain(w) /\ w.wait = b /\ w.queued = 0 /\ ~w.started
        BY <3>1
      <4> HIDE DEF w
      <4>3. Plain(Start(w)) /\ Start(w).wait = b /\ Start(w).queued = 1 /\ Start(w).started
        BY <4>2, StartTimer DEF SameButTimer
      <4>4. QED
        BY <4>3 DEF w
    <3>3. x.wait = d.wait /\ (kind.proxyCheck => ~d.wait)
      BY <2>3 DEF Closed, TimerInOrder
    <3>4. CASE error = "reset" /\ kind.proxyCheck
      BY <2>3, <3>3, <3>4 DEF Rescheduled, Closed
    <3>5. CASE error = "reset" /\ ~kind.proxyCheck
      BY <3>2, <3>5 DEF Rescheduled
    <3>6. CASE error # "reset" /\ kind.auto
      BY <3>2, <3>6 DEF Rescheduled
    <3>7. CASE error # "reset" /\ ~kind.auto
      BY <3>1, <3>7 DEF Rescheduled
    <3>8. QED
      BY <3>4, <3>5, <3>6, <3>7
  <2> HIDE DEF y
  <2>6. e \in Connections
    BY <2>4, <2>5, ZenonT(60) DEF Connections
  <2>7. /\ e.st = "Reconnecting" /\ (e.wait => e.started)
        /\ e.queued = (IF e.started THEN 1 ELSE 0) /\ ~e.first /\ e.token = 0
        /\ e.fd = "none" /\ e.out = "none" /\ ~e.begun /\ ~e.sent /\ e.opened = e.last
        /\ e.last \in Nat /\ (kind.proxyCheck => ~e.wait)
    BY <2>4, <2>5 DEF Connections
  <2>8. QED
    BY <2>6, <2>7 DEF InOrder, TimerInOrder, SocketInOrder
<1>4. QED
  BY <1>2, <1>3

LEMMA CloseSocketLeaves ==
    ASSUME NEW d, TimerInOrder(d),
           NEW reason, NEW error, NEW e \in closeSocket(d, reason, error)
    PROVE  InOrder(e) /\ e.st \in {"Reconnecting", "Suspended"}
<1>1. d \in Connections
  BY DEF TimerInOrder
<1> DEFINE s == Shut(d)
<1>2. s \in Connections
  <2>1. 0 \in 0..6 /\ d.last \in Nat
    BY <1>1 DEF Connections
  <2>2. QED
    BY <1>1, <2>1, Zenon DEF Shut, Connections
<1>3. /\ s.fd = "none" /\ s.out = "none" /\ ~s.begun /\ ~s.sent
      /\ s.opened = s.last
      /\ s.st = d.st /\ s.wait = d.wait /\ s.started = d.started /\ s.queued = d.queued
  BY <1>1 DEF Shut, Connections
<1>4. e \in onDisconnected(s, reason, error)
  BY DEF closeSocket
<1> HIDE DEF s
<1>5. TimerInOrder(s)
  BY <1>2, <1>3 DEF TimerInOrder
<1>6. InOrder(e) /\ e.st \in {"Reconnecting", "Suspended"}
  BY <1>3, <1>4, <1>5, OnDisconnectedLeaves
<1>7. QED
  BY <1>6

(* connect and openConnection, from any state. *)
LEMMA ConnectLeaves ==
    ASSUME NEW d, InOrder(d), NEW e \in connect(d)
    PROVE  InOrder(e)
<1>1. d \in Connections /\ TimerInOrder(d) /\ SocketInOrder(d)
  BY DEF InOrder, TimerInOrder
<1>2. CASE d.wait \/ ~network \/ d.st \in {"Connected", "Connecting"}
  <2>1. e = d
    BY <1>2 DEF connect
  <2>2. QED
    BY <1>1, <2>1 DEF Connections
<1>3. CASE ~(d.wait \/ ~network \/ d.st \in {"Connected", "Connecting"})
  <2> DEFINE t == Stop(d)
             opening == [t EXCEPT !.st = "Connecting", !.first = FALSE,
                                  !.was = FALSE, !.someData = FALSE]
             proxy == IF kind.useProxy THEN 1 ELSE 0
  <2>1. \/ e = [opening EXCEPT !.fd = "connecting", !.proxy = proxy]
        \/ e \in closeSocket(opening, 1, "other")
    BY <1>3, Zenon DEF connect
  <2>2. t \in Connections /\ ~t.started /\ t.queued = 0 /\ SameButTimer(d, t)
    BY <1>1, StopTimer
  <2> HIDE DEF t
  <2>3. opening \in Connections
    <3>1. "Connecting" \in States /\ t \in Connections
      BY <2>2 DEF States
    <3>2. QED
      BY <3>1, ZenonT(60) DEF Connections
  <2>4. /\ opening.st = "Connecting" /\ ~opening.first /\ ~opening.started
        /\ opening.queued = 0 /\ ~opening.wait /\ opening.out = "none"
        /\ ~opening.begun /\ ~opening.sent /\ opening.token = 0 /\ opening.last = d.last
        /\ opening.opened = d.opened /\ d.last = d.opened
    BY <1>1, <1>3, <2>2 DEF Connections, SameButTimer, SocketInOrder, States
  <2> HIDE DEF opening
  <2>5. TimerInOrder(opening)
    BY <2>3, <2>4 DEF TimerInOrder
  <2>6. CASE e = [opening EXCEPT !.fd = "connecting", !.proxy = proxy]
    <3>1. proxy \in 0..6
      OBVIOUS
    <3> HIDE DEF proxy
    <3>2. e \in Connections
      BY <2>3, <2>6, <3>1, ZenonT(60) DEF Connections
    <3>3. /\ e.st = "Connecting" /\ e.fd = "connecting" /\ ~e.first /\ ~e.started
          /\ e.queued = 0 /\ ~e.wait /\ e.out = "none" /\ ~e.begun /\ ~e.sent /\ e.token = 0
          /\ e.last = e.opened /\ e.opened \in Nat
      BY <1>1, <2>3, <2>4, <2>6 DEF Connections
    <3>4. QED
      BY <3>2, <3>3 DEF InOrder, TimerInOrder, SocketInOrder
  <2>7. CASE e \in closeSocket(opening, 1, "other")
    <3>1. InOrder(e)
      BY <2>5, <2>7, CloseSocketLeaves
    <3>2. QED
      BY <3>1
  <2>8. QED
    BY <2>1, <2>6, <2>7
<1>4. QED
  BY <1>2, <1>3

(* suspendConnection: the state is changed before the socket is closed, so
   that onDisconnected sees the new state. *)
LEMMA SuspendLeaves ==
    ASSUME NEW d, InOrder(d), NEW idle, NEW e \in suspendConnection(d, idle)
    PROVE  InOrder(e) /\ e.fd = "none"
<1>1. d \in Connections /\ TimerInOrder(d) /\ SocketInOrder(d)
  BY DEF InOrder, TimerInOrder
<1> DEFINE t == Stop(d)
           stopped == [t EXCEPT !.wait = FALSE]
<1>2. t \in Connections /\ ~t.started /\ t.queued = 0 /\ SameButTimer(d, t)
  BY <1>1, StopTimer
<1> HIDE DEF t
<1>3. stopped \in Connections
  <2>1. FALSE \in BOOLEAN
    OBVIOUS
  <2>2. QED
    BY <1>2, <2>1, ZenonT(60) DEF Connections
<1>4. /\ ~stopped.started /\ stopped.queued = 0 /\ ~stopped.wait
      /\ stopped.st = d.st /\ stopped.fd = d.fd /\ stopped.out = d.out
      /\ stopped.first = d.first /\ stopped.begun = d.begun
      /\ stopped.token = d.token /\ stopped.last = d.last
      /\ stopped.sent = d.sent /\ stopped.opened = d.opened
  BY <1>2 DEF Connections, SameButTimer
<1>5. CASE d.st \in {"Idle", "Suspended"}
  <2>1. e = stopped
    BY <1>5, Zenon DEF suspendConnection, t
  <2> HIDE DEF stopped
  <2>2. QED
    BY <1>1, <1>3, <1>4, <1>5, <2>1
    DEF InOrder, TimerInOrder, SocketInOrder, Connections
<1>6. CASE d.st \notin {"Idle", "Suspended"}
  <2> DEFINE left == [stopped EXCEPT !.st = IF idle THEN "Idle" ELSE "Suspended"]
  <2>1. PICK x \in closeSocket(left, 0, "other") :
             e = [x EXCEPT !.first = FALSE, !.token = 0, !.was = FALSE]
    BY <1>6, Zenon DEF suspendConnection, t
  <2>2. left \in Connections
    <3>1. (IF idle THEN "Idle" ELSE "Suspended") \in States
      BY DEF States
    <3> HIDE DEF stopped
    <3>2. QED
      BY <1>3, <3>1, ZenonT(60) DEF Connections
  <2>3. ~left.started /\ left.queued = 0 /\ ~left.wait
    <3> HIDE DEF stopped
    <3>1. QED
      BY <1>3, <1>4 DEF Connections
  <2> HIDE DEF left
  <2>4. TimerInOrder(left)
    BY <2>2, <2>3 DEF TimerInOrder
  <2>5. InOrder(x) /\ x.st \in {"Reconnecting", "Suspended"}
    BY <2>1, <2>4, CloseSocketLeaves
  <2>6. x \in Connections /\ TimerInOrder(x) /\ SocketInOrder(x)
    BY <2>5 DEF InOrder, TimerInOrder
  <2>7. e \in Connections
    <3>1. 0 \in Nat
      OBVIOUS
    <3>2. QED
      BY <2>1, <2>6, <3>1, ZenonT(60) DEF Connections
  <2>8. /\ e.st = x.st /\ e.fd = x.fd /\ e.out = x.out /\ ~e.first /\ e.begun = x.begun
        /\ e.wait = x.wait /\ e.started = x.started /\ e.queued = x.queued
        /\ e.token = 0 /\ e.last = x.last /\ e.sent = x.sent /\ e.opened = x.opened
    BY <2>1, <2>6 DEF Connections
  <2>9. QED
    BY <2>5, <2>6, <2>7, <2>8
    DEF InOrder, TimerInOrder, SocketInOrder
<1>7. QED
  BY <1>5, <1>6

LEMMA ReconnectLeaves ==
    ASSUME NEW d, InOrder(d), NEW e \in reconnect(d)
    PROVE  InOrder(e)
<1>1. d \in Connections /\ TimerInOrder(d) /\ SocketInOrder(d)
  BY DEF InOrder, TimerInOrder
<1>2. CASE kind.proxyCheck
  BY <1>2, SuspendLeaves DEF reconnect
<1>3. CASE ~kind.proxyCheck
  <2> DEFINE forced == [d EXCEPT !.force = TRUE]
  <2>1. PICK x \in suspendConnection(forced, TRUE) : e \in connect(x)
    BY <1>3, Zenon DEF reconnect
  <2>2. forced \in Connections
    BY <1>1, ZenonT(60) DEF Connections
  <2>3. /\ SameButTimer(d, forced)
        /\ forced.started = d.started /\ forced.queued = d.queued
    BY <1>1 DEF Connections, SameButTimer
  <2> HIDE DEF forced
  <2>4. InOrder(forced)
    BY <1>1, <2>2, <2>3
    DEF InOrder, TimerInOrder, SocketInOrder, SameButTimer, Connections
  <2>5. InOrder(x)
    BY <2>1, <2>4, SuspendLeaves
  <2>6. QED
    BY <2>1, <2>5, ConnectLeaves
<1>4. QED
  BY <1>2, <1>3

(* sendData: the header goes before the first data of a socket. *)
LEMMA QueuedLeaves ==
    ASSUME NEW d, InOrder(d)
    PROVE  InOrder(Queued(d)) /\ Queued(d).fd = d.fd /\ Queued(d).st = d.st
<1>1. d \in Connections /\ TimerInOrder(d) /\ SocketInOrder(d)
  BY DEF InOrder, TimerInOrder
<1>2. CASE d.fd = "none"
  BY <1>1, <1>2 DEF Queued, InOrder, Connections
<1>3. CASE d.fd # "none"
  <2> DEFINE o == IF d.out # "none" THEN d.out ELSE IF d.first THEN "data" ELSE "header"
             e == [d EXCEPT !.out = o, !.first = TRUE]
  <2>1. Queued(d) = e
    BY <1>3, Zenon DEF Queued
  <2>2. o \in {"none", "header", "data"}
    BY <1>1 DEF Connections
  <2>3. e \in Connections
    <3> HIDE DEF o
    <3>1. QED
      BY <1>1, <2>2, ZenonT(60) DEF Connections
  <2>4. /\ e.st = d.st /\ e.fd = d.fd /\ e.out = o /\ e.first /\ e.begun = d.begun
        /\ e.wait = d.wait /\ e.started = d.started /\ e.queued = d.queued
        /\ e.token = d.token /\ e.last = d.last /\ e.sent = d.sent /\ e.opened = d.opened
    <3> HIDE DEF o
    <3>1. QED
      BY <1>1 DEF Connections
  <2> HIDE DEF e
  <2>5. SocketInOrder(e)
    BY <1>1, <1>3, <2>4 DEF SocketInOrder, Connections
  <2>6. TimerInOrder(e)
    BY <1>1, <2>3, <2>4 DEF TimerInOrder, Connections
  <2>7. QED
    BY <2>1, <2>4, <2>5, <2>6 DEF InOrder
<1>4. QED
  BY <1>2, <1>3

LEMMA SendDataLeaves ==
    ASSUME NEW d, InOrder(d), NEW e \in sendData(d)
    PROVE  InOrder(e)
<1>1. d \in Connections /\ InOrder(d)
  BY DEF InOrder, TimerInOrder, Connections
<1>2. PICK x \in IF d.st \in {"Idle", "Reconnecting", "Suspended"} THEN connect(d) ELSE {d} :
           e = Queued(x)
  BY DEF sendData
<1>3. InOrder(x)
  BY <1>1, <1>2, ConnectLeaves
<1>4. QED
  BY <1>2, <1>3, QueuedLeaves

----------------------------------------------------------------------------
(* The steps of onEvent. *)
StepInOrder(r) ==
    /\ r \in [conn : Connections, return : BOOLEAN, cost : Nat]
    /\ InOrder(r.conn)

AllInOrder(S) == \A r \in S : StepInOrder(r)

LEMMA StepLeavesIntro ==
    ASSUME NEW e, InOrder(e), NEW return \in BOOLEAN, NEW cost \in Nat
    PROVE  StepInOrder(Step(e, return, cost))
  BY DEF StepInOrder, Step, InOrder, TimerInOrder

LEMMA StepsLeave ==
    ASSUME NEW S, \A e \in S : InOrder(e), NEW return \in BOOLEAN, NEW cost \in Nat
    PROVE  AllInOrder(Steps(S, return, cost))
  BY StepLeavesIntro DEF AllInOrder, Steps

LEMMA ClosedTwiceLeaves ==
    ASSUME NEW d, InOrder(d), NEW e \in ClosedTwice(d)
    PROVE  InOrder(e)
<1>1. PICK x \in closeSocket(d, 1, "other") : e \in closeSocket(x, 1, "other")
  BY DEF ClosedTwice
<1>2. InOrder(x)
  BY <1>1, CloseSocketLeaves DEF InOrder
<1>3. QED
  BY <1>1, <1>2, CloseSocketLeaves DEF InOrder

LEMMA ClosedWithAnyErrorLeaves ==
    ASSUME NEW d, InOrder(d)
    PROVE  AllInOrder(ClosedWithAnyError(d))
<1>1. \A e \in UNION {closeSocket(d, 1, x) : x \in Errors} : InOrder(e)
  BY CloseSocketLeaves DEF InOrder
<1>2. QED
  BY <1>1, StepsLeave DEF ClosedWithAnyError

(* A change of the fields that no part of InOrder reads. *)
LEMMA UnreadFieldsLeave ==
    ASSUME NEW d, InOrder(d), NEW e \in Connections, SameButTimer(d, e),
           e.started = d.started, e.queued = d.queued
    PROVE  InOrder(e)
<1>1. d \in Connections /\ TimerInOrder(d) /\ SocketInOrder(d)
  BY DEF InOrder, TimerInOrder
<1>2. QED
  BY <1>1 DEF InOrder, TimerInOrder, SocketInOrder, SameButTimer, Connections

LEMMA ProxyStateLeaves ==
    ASSUME NEW d, InOrder(d), NEW n \in 0..6
    PROVE  InOrder([d EXCEPT !.proxy = n])
<1>1. d \in Connections
  BY DEF InOrder, TimerInOrder
<1> DEFINE e == [d EXCEPT !.proxy = n]
<1>2. e \in Connections
  BY <1>1, ZenonT(60) DEF Connections
<1>3. SameButTimer(d, e) /\ e.started = d.started /\ e.queued = d.queued
  BY <1>1 DEF SameButTimer, Connections
<1>4. QED
  BY <1>2, <1>3, UnreadFieldsLeave

LEMMA ProxyAnswerLeaves ==
    ASSUME NEW d, InOrder(d)
    PROVE  AllInOrder(ProxyAnswer(d))
<1>1. InOrder(d)
  BY DEF InOrder, TimerInOrder, Connections
<1>2. \A e \in ClosedTwice(d) \cup closeSocket(d, 1, "other") : InOrder(e)
  BY ClosedTwiceLeaves, CloseSocketLeaves DEF InOrder
<1>3. /\ AllInOrder(Steps(ClosedTwice(d) \cup closeSocket(d, 1, "other"), FALSE, 1))
      /\ AllInOrder(Steps(closeSocket(d, 1, "other"), FALSE, 1))
  BY <1>2, StepsLeave
<1> DEFINE P(n) == [d EXCEPT !.proxy = n]
           lost == Steps(ClosedTwice(d) \cup closeSocket(d, 1, "other"), FALSE, 1)
<1>4. /\ InOrder(P(0)) /\ StepInOrder(Step(P(0), FALSE, 0))
      /\ InOrder(P(3))
      /\ InOrder(P(5)) /\ StepInOrder(Step(P(5), FALSE, 0))
  <2>1. \A n \in 0..6 : InOrder(P(n))
    BY ProxyStateLeaves
  <2> HIDE DEF P
  <2>2. InOrder(P(0)) /\ InOrder(P(3)) /\ InOrder(P(5))
    BY <2>1
  <2>3. QED
    BY <2>2, StepLeavesIntro
<1>5. CASE d.proxy = 2
  <2>1. ProxyAnswer(d) = Steps({P(3), P(5)}, FALSE, 0) \cup lost
    BY <1>5 DEF ProxyAnswer
  <2> HIDE DEF P, lost
  <2>2. \A e \in {P(3), P(5)} : InOrder(e)
    BY <1>4
  <2>3. AllInOrder(Steps({P(3), P(5)}, FALSE, 0))
    BY <2>2, StepsLeave
  <2>4. QED
    BY <1>3, <2>1, <2>3 DEF AllInOrder, lost
<1>6. CASE d.proxy = 4
  <2>1. ProxyAnswer(d) = {Step(P(5), FALSE, 0)} \cup lost
    BY <1>6 DEF ProxyAnswer
  <2> HIDE DEF P
  <2>2. StepInOrder(Step(P(5), FALSE, 0)) /\ AllInOrder(lost)
    BY <1>3, <1>4
  <2> HIDE DEF lost
  <2>3. QED
    BY <2>1, <2>2 DEF AllInOrder
<1>7. CASE d.proxy = 6
  <2>1. ProxyAnswer(d) = {Step(P(0), FALSE, 0)} \cup Steps(closeSocket(d, 1, "other"), FALSE, 1)
    BY <1>7 DEF ProxyAnswer
  <2> HIDE DEF P
  <2>2. StepInOrder(Step(P(0), FALSE, 0))
    BY <1>4
  <2>3. QED
    BY <1>3, <2>1, <2>2 DEF AllInOrder
<1>8. CASE d.proxy \notin {2, 4, 6}
  <2>1. ProxyAnswer(d) = {Step(d, FALSE, 0)}
    BY <1>8 DEF ProxyAnswer
  <2>2. QED
    BY <1>1, <2>1, StepLeavesIntro DEF AllInOrder
<1>9. QED
  BY <1>5, <1>6, <1>7, <1>8

LEMMA ReceivedDataLeaves ==
    ASSUME NEW d, InOrder(d)
    PROVE  AllInOrder(ReceivedData(d))
<1>1. d \in Connections
  BY DEF InOrder, TimerInOrder
<1> DEFINE got == [d EXCEPT !.failed = 0, !.someData = TRUE]
<1>2. InOrder(got)
  <2>1. 0 \in 0..FailCap
    BY DEF FailCap
  <2>2. got \in Connections
    BY <1>1, <2>1, ZenonT(60) DEF Connections
  <2>3. SameButTimer(d, got) /\ got.started = d.started /\ got.queued = d.queued
    BY <1>1 DEF SameButTimer, Connections
  <2>4. QED
    BY <2>2, <2>3, UnreadFieldsLeave
<1>3. ReceivedData(d) =
        {Step(got, FALSE, 0), Step([got EXCEPT !.useful = TRUE], FALSE, 0)}
        \cup Steps(reconnect(got) \cup {[e EXCEPT !.someData = TRUE] : e \in reconnect(got)},
                  FALSE, 1)
  BY Zenon DEF ReceivedData
<1> HIDE DEF got
<1>4. InOrder(got) /\ got \in Connections
  BY <1>2 DEF InOrder, TimerInOrder
<1>5. InOrder([got EXCEPT !.useful = TRUE])
  <2> DEFINE e == [got EXCEPT !.useful = TRUE]
  <2>1. e \in Connections
    BY <1>4, ZenonT(60) DEF Connections
  <2>2. SameButTimer(got, e) /\ e.started = got.started /\ e.queued = got.queued
    BY <1>4 DEF SameButTimer, Connections
  <2>3. QED
    BY <1>4, <2>1, <2>2, UnreadFieldsLeave
<1>6. \A e \in reconnect(got) : InOrder(e)
  BY <1>1, <1>2, <1>4, ReconnectLeaves
<1>7. \A e \in reconnect(got) : InOrder([e EXCEPT !.someData = TRUE])
  <2>1. TAKE e \in reconnect(got)
  <2> DEFINE f == [e EXCEPT !.someData = TRUE]
  <2>2. InOrder(e) /\ e \in Connections
    BY <1>6 DEF InOrder, TimerInOrder
  <2>3. f \in Connections
    BY <2>2, ZenonT(60) DEF Connections
  <2>4. SameButTimer(e, f) /\ f.started = e.started /\ f.queued = e.queued
    BY <2>2 DEF SameButTimer, Connections
  <2>5. QED
    BY <2>2, <2>3, <2>4, UnreadFieldsLeave
<1> DEFINE E == reconnect(got) \cup {[e EXCEPT !.someData = TRUE] : e \in reconnect(got)}
<1>8. \A e \in E : InOrder(e)
  BY <1>6, <1>7
<1>9. AllInOrder(Steps(E, FALSE, 1))
  <2> HIDE DEF E
  <2>1. QED
    BY <1>8, StepsLeave
<1>10. /\ StepInOrder(Step(got, FALSE, 0))
       /\ StepInOrder(Step([got EXCEPT !.useful = TRUE], FALSE, 0))
  BY <1>2, <1>5, StepLeavesIntro
<1>11. QED
  BY <1>3, <1>9, <1>10 DEF AllInOrder

LEMMA OnReadableLeaves ==
    ASSUME NEW d, InOrder(d)
    PROVE  AllInOrder(OnReadable(d))
<1>1. d \in Connections /\ InOrder(d)
  BY DEF InOrder, TimerInOrder, Connections
<1>2. CASE d.fd \in {"none", "error"}
  BY <1>2, ClosedWithAnyErrorLeaves DEF OnReadable
<1>3. CASE d.fd = "connecting"
  <2>1. OnReadable(d) = Steps(closeSocket(d, 1, "other"), TRUE, 0)
    BY <1>3 DEF OnReadable
  <2>2. \A e \in closeSocket(d, 1, "other") : InOrder(e)
    BY CloseSocketLeaves DEF InOrder
  <2>3. QED
    BY <2>1, <2>2, StepsLeave
<1>4. CASE d.fd = "established"
  <2> DEFINE got == IF d.proxy = 0 THEN ReceivedData(d) ELSE ProxyAnswer(d)
             end == IF "hup" \in ready THEN {Step(d, FALSE, 0)} ELSE {}
             left == UNION {closeSocket(e, 1, "other") : e \in {d} \cup {r.conn : r \in got}}
  <2>1. OnReadable(d) = got \cup end \cup Steps(left, TRUE, 1)
    BY <1>4 DEF OnReadable
  <2>2. AllInOrder(got)
    BY ReceivedDataLeaves, ProxyAnswerLeaves
  <2>3. AllInOrder(end)
    BY <1>1, StepLeavesIntro DEF AllInOrder
  <2>4. \A e \in left : InOrder(e)
    <3> HIDE DEF got
    <3>1. TAKE f \in left
    <3>2. PICK e \in {d} \cup {r.conn : r \in got} : f \in closeSocket(e, 1, "other")
      OBVIOUS
    <3>3. InOrder(e)
      BY <1>1, <2>2, <3>2 DEF AllInOrder, StepInOrder
    <3>4. QED
      BY <3>2, <3>3, CloseSocketLeaves DEF InOrder
  <2> HIDE DEF got, end, left
  <2>5. AllInOrder(Steps(left, TRUE, 1))
    BY <2>4, StepsLeave
  <2>6. QED
    BY <2>1, <2>2, <2>3, <2>5 DEF AllInOrder
<1>5. QED
  BY <1>1, <1>2, <1>3, <1>4 DEF Connections

(* onConnected, on a socket that is there. *)
LEMMA ConnectedLeaves ==
    ASSUME NEW d, InOrder(d), d.fd # "none", NEW e \in Connected(d)
    PROVE  InOrder(e) /\ e.fd = d.fd
<1>1. d \in Connections /\ TimerInOrder(d) /\ SocketInOrder(d)
  BY DEF InOrder, TimerInOrder
<1>2. CASE d.sent
  BY <1>1, <1>2 DEF Connected, InOrder, Connections
<1>3. CASE ~d.sent
  <2> DEFINE new == d.last + 1
             up == [d EXCEPT !.st = "Connected", !.token = new,
                             !.last = new, !.was = TRUE, !.sent = TRUE]
  <2>1. e \in {up, Queued(up)}
    BY <1>3, Zenon DEF Connected
  <2>2. new \in Nat /\ new = d.opened + 1 /\ new # 0 /\ "Connected" \in States
    BY <1>1, <1>3 DEF Connections, States, SocketInOrder
  <2> HIDE DEF new
  <2>3. up \in Connections
    BY <1>1, <2>2, ZenonT(60) DEF Connections
  <2>4. /\ up.st = "Connected" /\ up.fd = d.fd /\ up.out = d.out /\ up.first = d.first
        /\ up.begun = d.begun /\ up.wait = d.wait /\ up.started = d.started
        /\ up.queued = d.queued /\ up.token = new /\ up.last = new
        /\ up.sent /\ up.opened = d.opened
    BY <1>1 DEF Connections
  <2> HIDE DEF up
  <2>5. ~d.started /\ ~d.wait
    BY <1>1 DEF TimerInOrder, SocketInOrder
  <2>6. InOrder(up)
    BY <1>1, <2>2, <2>3, <2>4, <2>5
    DEF InOrder, TimerInOrder, SocketInOrder, Connections
  <2>7. InOrder(Queued(up)) /\ Queued(up).fd = d.fd
    BY <2>4, <2>6, QueuedLeaves
  <2>8. QED
    BY <1>1, <2>1, <2>4, <2>6, <2>7
<1>4. QED
  BY <1>2, <1>3

(* send takes from the start of the stream, so that what is left of it is
   data that follows the header. *)
LEMMA WrittenLeaves ==
    ASSUME NEW d, InOrder(d), d.fd # "none", d.out # "none", NEW e \in Written(d)
    PROVE  InOrder(e)
<1>1. d \in Connections /\ TimerInOrder(d) /\ SocketInOrder(d)
  BY DEF InOrder, TimerInOrder
<1>2. PICK rest \in {"none", "data"} : e = [d EXCEPT !.out = rest, !.begun = TRUE]
  BY DEF Written
<1>3. rest \in {"none", "header", "data"}
  BY <1>2
<1>4. e \in Connections
  BY <1>1, <1>2, <1>3, ZenonT(60) DEF Connections
<1>5. /\ e.st = d.st /\ e.fd = d.fd /\ e.out = rest /\ e.first = d.first /\ e.begun
      /\ e.wait = d.wait /\ e.started = d.started /\ e.queued = d.queued
      /\ e.token = d.token /\ e.last = d.last /\ e.sent = d.sent /\ e.opened = d.opened
  BY <1>1, <1>2 DEF Connections
<1>6. d.first
  BY <1>1 DEF SocketInOrder, Connections
<1>7. SocketInOrder(e)
  BY <1>1, <1>2, <1>5, <1>6 DEF SocketInOrder
<1>8. TimerInOrder(e)
  BY <1>1, <1>4, <1>5 DEF TimerInOrder, Connections
<1>9. QED
  BY <1>7, <1>8 DEF InOrder

LEMMA OnWritableLeaves ==
    ASSUME NEW d, InOrder(d)
    PROVE  AllInOrder(OnWritable(d))
<1>1. d \in Connections /\ InOrder(d)
  BY DEF InOrder, TimerInOrder, Connections
<1>2. \A e : InOrder(e) => \A f \in closeSocket(e, 1, "other") : InOrder(f)
  BY CloseSocketLeaves DEF InOrder
<1>3. CASE d.fd \in {"none", "error"}
  BY <1>3, ClosedWithAnyErrorLeaves DEF OnWritable
<1>4. CASE d.fd \in {"connecting", "established"} /\ d.proxy \in {1, 3, 5}
  <2> DEFINE next == [d EXCEPT !.proxy = d.proxy + 1]
  <2>1. OnWritable(d) = IF d.fd = "connecting" THEN Steps(closeSocket(d, 1, "other"), TRUE, 0)
                        ELSE {Step(next, FALSE, 0)}
    <3>1. d.fd \notin {"none", "error"} /\ d.proxy \notin {2, 4, 6} /\ d.proxy # 0
      BY <1>4
    <3>2. QED
      BY <1>4, <3>1, Zenon DEF OnWritable
  <2>2. d.proxy + 1 \in 0..6
    BY <1>4
  <2>3. StepInOrder(Step(next, FALSE, 0))
    BY <2>2, ProxyStateLeaves, StepLeavesIntro
  <2> HIDE DEF next
  <2>4. AllInOrder(Steps(closeSocket(d, 1, "other"), TRUE, 0))
    BY <1>2, StepsLeave
  <2>5. QED
    BY <2>1, <2>3, <2>4 DEF AllInOrder
<1>5. CASE d.fd \in {"connecting", "established"} /\ d.proxy \in {2, 4, 6}
  <2>1. OnWritable(d) = {Step(d, FALSE, 0)}
    <3>1. d.fd \notin {"none", "error"} /\ d.proxy \notin {1, 3, 5} /\ d.proxy # 0
      BY <1>5
    <3>2. QED
      BY <1>5, <3>1, Zenon DEF OnWritable
  <2>2. QED
    BY <1>1, <2>1, StepLeavesIntro DEF AllInOrder
<1>6. CASE d.fd \in {"connecting", "established"} /\ d.proxy = 0
  <2> DEFINE After(e) == CASE e.out = "none" -> {Step(e, FALSE, 0)}
                           [] e.out # "none" /\ e.fd = "connecting" ->
                                  Steps(closeSocket(e, 1, "other"), TRUE, 0)
                           [] OTHER -> Steps(Written(e), FALSE, 0)
  <2>1. OnWritable(d) = UNION {After(e) : e \in Connected(d)}
    <3>1. d.fd \notin {"none", "error"} /\ d.proxy \notin {1, 3, 5} /\ d.proxy \notin {2, 4, 6}
      BY <1>6
    <3>2. QED
      BY <1>6, <3>1, Zenon DEF OnWritable
  <2>2. ASSUME NEW e \in Connected(d) PROVE AllInOrder(After(e))
    <3>1. InOrder(e) /\ e.fd = d.fd /\ InOrder(e)
      BY <1>6, ConnectedLeaves
    <3>2. CASE e.out = "none"
      <4>1. After(e) = {Step(e, FALSE, 0)}
        BY <3>2
      <4>2. QED
        BY <3>1, <4>1, StepLeavesIntro DEF AllInOrder
    <3>3. CASE e.out # "none" /\ e.fd = "connecting"
      <4>1. After(e) = Steps(closeSocket(e, 1, "other"), TRUE, 0)
        BY <3>3
      <4>2. \A f \in closeSocket(e, 1, "other") : InOrder(f)
        BY <1>1, <1>2, <3>1
      <4>3. QED
        BY <4>1, <4>2, StepsLeave
    <3>4. CASE e.out # "none" /\ e.fd # "connecting"
      <4>1. After(e) = Steps(Written(e), FALSE, 0)
        BY <3>4
      <4>2. \A f \in Written(e) : InOrder(f)
        BY <1>1, <1>6, <3>1, <3>4, WrittenLeaves
      <4>3. QED
        BY <4>1, <4>2, StepsLeave
    <3>5. QED
      BY <3>2, <3>3, <3>4
  <2> HIDE DEF After
  <2>3. QED
    BY <2>1, <2>2 DEF AllInOrder
<1>7. QED
  BY <1>1, <1>3, <1>4, <1>5, <1>6 DEF Connections

LEMMA OnHangupLeaves ==
    ASSUME NEW d, InOrder(d)
    PROVE  AllInOrder(OnHangup(d))
<1>1. \A e \in closeSocket(d, 1, "other") : InOrder(e)
  BY CloseSocketLeaves DEF InOrder
<1>2. QED
  BY <1>1, StepsLeave DEF OnHangup

(* onEvent: whatever a part leaves, the next part starts from it. *)
LEMMA OnEventLeaves ==
    ASSUME NEW d, InOrder(d)
    PROVE  AllInOrder(onEvent(d))
<1>1. d \in Connections /\ InOrder(d)
  BY DEF InOrder, TimerInOrder, Connections
<1>2. ASSUME NEW r, StepInOrder(r), NEW q, StepInOrder(q)
      PROVE  StepInOrder([q EXCEPT !.cost = @ + r.cost])
  <2>1. InOrder(q.conn)
    BY <1>1, <1>2 DEF StepInOrder
  <2>2. /\ [q EXCEPT !.cost = @ + r.cost] \in [conn : Connections, return : BOOLEAN, cost : Nat]
        /\ [q EXCEPT !.cost = @ + r.cost].conn = q.conn
    BY <1>2 DEF StepInOrder
  <2>3. QED
    BY <2>1, <2>2 DEF StepInOrder
<1>3. ASSUME NEW r, StepInOrder(r)
      PROVE  /\ AllInOrder(OnReadable(r.conn))
             /\ AllInOrder(OnWritable(r.conn))
             /\ AllInOrder(OnHangup(r.conn))
  BY <1>3, OnReadableLeaves, OnWritableLeaves, OnHangupLeaves DEF StepInOrder
<1>4. ASSUME NEW S, AllInOrder(S) PROVE AllInOrder(Then(S, "in", OnReadable))
  BY <1>2, <1>3, <1>4 DEF Then, AllInOrder
<1>5. ASSUME NEW S, AllInOrder(S) PROVE AllInOrder(Then(S, "out", OnWritable))
  BY <1>2, <1>3, <1>5 DEF Then, AllInOrder
<1>6. ASSUME NEW S, AllInOrder(S) PROVE AllInOrder(Then(S, "hup", OnHangup))
  BY <1>2, <1>3, <1>6 DEF Then, AllInOrder
<1> DEFINE S0 == {Step(d, FALSE, 0)}
           S1 == Then(S0, "in", OnReadable)
           S2 == Then(S1, "out", OnWritable)
<1>7. AllInOrder(S0)
  BY <1>1, StepLeavesIntro DEF AllInOrder
<1> HIDE DEF S0
<1>8. AllInOrder(S1)
  BY <1>4, <1>7
<1> HIDE DEF S1
<1>9. AllInOrder(S2)
  BY <1>5, <1>8
<1>10. onEvent(d) = Then(S2, "hup", OnHangup)
  BY DEF onEvent, S0, S1
<1> HIDE DEF S2
<1>11. QED
  BY <1>6, <1>9, <1>10

----------------------------------------------------------------------------
(* The inductive invariant.  StateAgrees and HeaderFirst are not inductive
   without it: connect relies on nothing of a stream being left where there is
   no socket, and onDisconnected, which keeps waitForReconnectTimer after a
   reset when a proxy is checked, on its never being set there. *)
IInv == TypeOK /\ InOrder(c)

LEMMA InitIInv ==
    ASSUME Init
    PROVE  IInv
<1>1. PICK f \in 0..FailCap :
         c = [st |-> "Idle", fd |-> "none", sent |-> FALSE, proxy |-> 0,
              out |-> "none", first |-> FALSE, begun |-> FALSE,
              wait |-> FALSE, started |-> FALSE, queued |-> 0,
              token |-> 0, last |-> 0, opened |-> 0, failed |-> f,
              willRetry |-> 5, force |-> FALSE, was |-> FALSE, someData |-> FALSE,
              useful |-> FALSE, addr |-> 0]
  BY DEF Init
<1>2. c \in Connections
  <2>1. 0 \in 0..6 /\ 0 \in Nat /\ 0 \in 0..(Addresses - 1) /\ "Idle" \in States
    BY ConnectionAssumption DEF States
  <2>2. QED
    BY <1>1, <2>1, ZenonT(60) DEF Connections
<1>3. InOrder(c)
  BY <1>1, <1>2 DEF InOrder, TimerInOrder, SocketInOrder
<1>4. TypeOK
  BY <1>2, ConnectionAssumption DEF Init, TypeOK
<1>5. QED
  BY <1>3, <1>4 DEF IInv

(* The kernel changes the socket of a connection that has one into one. *)
LEMMA KernelLeaves ==
    ASSUME NEW d, InOrder(d), d.fd # "none", NEW x \in {"established", "error"}
    PROVE  InOrder([d EXCEPT !.fd = x])
<1>1. d \in Connections /\ TimerInOrder(d) /\ SocketInOrder(d)
  BY DEF InOrder, TimerInOrder
<1> DEFINE e == [d EXCEPT !.fd = x]
<1>2. x \in {"none", "connecting", "established", "error"} /\ x # "none"
  OBVIOUS
<1>3. e \in Connections
  BY <1>1, <1>2, ZenonT(60) DEF Connections
<1>4. /\ e.st = d.st /\ e.fd = x /\ e.out = d.out /\ e.first = d.first /\ e.begun = d.begun
      /\ e.wait = d.wait /\ e.started = d.started /\ e.queued = d.queued
      /\ e.token = d.token /\ e.last = d.last /\ e.sent = d.sent /\ e.opened = d.opened
  BY <1>1 DEF Connections
<1> HIDE DEF e
<1>5. InOrder(e)
  BY <1>1, <1>2, <1>3, <1>4
  DEF InOrder, TimerInOrder, SocketInOrder, Connections
<1>6. QED
  BY <1>5 DEF e

(* The timer calls connect after its entry was taken out of the list and the
   refusal was lifted. *)
LEMMA TimerLeaves ==
    ASSUME NEW d, InOrder(d), d.queued > 0,
           NEW e \in connect([Stop([d EXCEPT !.queued = @ - 1]) EXCEPT !.wait = FALSE])
    PROVE  InOrder(e)
<1>1. d \in Connections /\ TimerInOrder(d) /\ SocketInOrder(d)
  BY DEF InOrder, TimerInOrder
<1>2. d.started /\ d.queued = 1 /\ d.st = "Reconnecting"
  BY <1>1 DEF TimerInOrder, Connections
<1> DEFINE taken == [d EXCEPT !.queued = @ - 1]
           t == Stop(taken)
           x == [t EXCEPT !.wait = FALSE]
<1>3. taken = [d EXCEPT !.queued = 0]
  BY <1>1, <1>2 DEF Connections
<1>4. t = [taken EXCEPT !.started = FALSE, !.queued = 0]
  BY <1>1, <1>2, <1>3 DEF Stop, Connections
<1> HIDE DEF taken, t
<1>5. x \in Connections
  <2>1. 0 \in Nat
    OBVIOUS
  <2>2. taken \in Connections
    BY <1>1, <1>3, <2>1, ZenonT(60) DEF Connections
  <2>3. t \in Connections
    BY <1>4, <2>1, <2>2, ZenonT(60) DEF Connections
  <2>4. QED
    BY <2>3, ZenonT(60) DEF Connections
<1>6. /\ x.st = d.st /\ x.fd = d.fd /\ x.out = d.out /\ x.first = d.first /\ x.begun = d.begun
      /\ ~x.wait /\ ~x.started /\ x.queued = 0 /\ x.token = d.token /\ x.last = d.last
      /\ x.sent = d.sent /\ x.opened = d.opened
  BY <1>1, <1>3, <1>4 DEF Connections
<1>7. e \in connect(x)
  BY DEF taken, t
<1> HIDE DEF x
<1>8. InOrder(x)
  BY <1>1, <1>5, <1>6
  DEF InOrder, TimerInOrder, SocketInOrder, Connections
<1>9. InOrder(e)
  BY <1>7, <1>8, ConnectLeaves
<1>10. QED
  BY <1>1, <1>8, <1>9

(* Every step of Next leaves the connection in order. *)
LEMMA NextLeaves ==
    ASSUME IInv, Next
    PROVE  IInv'
<1>1. InOrder(c) /\ c \in Connections /\ InOrder(c)
  BY DEF IInv, InOrder, TimerInOrder, Connections
<1>2. /\ kind \in Kinds /\ ready \subseteq Events /\ network \in BOOLEAN
      /\ failures \in 0..MaxFailures /\ calls \in 0..MaxCalls
      /\ MaxFailures \in Nat /\ MaxCalls \in Nat
  BY ConnectionAssumption DEF IInv, TypeOK
<1> DEFINE Rest ==
      /\ kind' = kind /\ ready' \subseteq Events /\ network' \in BOOLEAN
      /\ failures' \in 0..MaxFailures /\ calls' \in 0..MaxCalls
<1>3. ASSUME InOrder(c'), Rest
      PROVE  IInv'
  <2>1. InOrder(c)'
    BY <1>3 DEF InOrder, TimerInOrder, SocketInOrder, Connections
  <2>2. TypeOK'
    BY <1>2, <1>3 DEF TypeOK, InOrder, TimerInOrder, Connections
  <2>3. QED
    BY <1>3, <2>1, <2>2 DEF IInv
<1>4. CASE Establish
  <2>1. InOrder(c')
    BY <1>1, <1>4, KernelLeaves DEF Establish
  <2>2. Rest
    BY <1>2, <1>4 DEF Establish
  <2>3. QED
    BY <1>3, <2>1, <2>2
<1>5. CASE Refuse
  <2>1. InOrder(c')
    BY <1>1, <1>5, KernelLeaves DEF Refuse
  <2>2. Rest
    BY <1>2, <1>5 DEF Refuse
  <2>3. QED
    BY <1>3, <2>1, <2>2
<1>6. CASE Break
  <2>1. InOrder(c')
    BY <1>1, <1>6, KernelLeaves DEF Break
  <2>2. Rest
    BY <1>2, <1>6 DEF Break
  <2>3. QED
    BY <1>3, <2>1, <2>2
<1>7. CASE Poll
  <2>1. InOrder(c')
    BY <1>1, <1>7 DEF Poll
  <2>2. Rest
    <3>1. ready' \subseteq Events
      <4>1. CASE ready' = Events \/ ready' = {"in", "hup"}
        BY <4>1 DEF Events
      <4>2. CASE \E i \in SUBSET (IF c.proxy \in {0, 2, 4, 6} THEN {"in"} ELSE {}) :
                   ready' = i \cup (IF WantsWrite(c) THEN {"out"} ELSE {})
        BY <4>2 DEF Events
      <4>3. QED
        BY <1>7, <4>1, <4>2 DEF Poll
    <3>2. failures' \in 0..MaxFailures
      BY <1>2, <1>7 DEF Poll
    <3>3. QED
      BY <1>2, <1>7, <3>1, <3>2 DEF Poll
  <2>3. QED
    BY <1>3, <2>1, <2>2
<1>8. CASE Handle
  <2>1. PICK r \in onEvent(c) : /\ failures + r.cost <= MaxFailures
                                /\ c' = r.conn
                                /\ failures' = failures + r.cost
    BY <1>8 DEF Handle
  <2>2. StepInOrder(r)
    BY <1>1, <2>1, OnEventLeaves DEF AllInOrder
  <2>3. InOrder(c') /\ r.cost \in Nat
    BY <2>1, <2>2 DEF StepInOrder
  <2>4. Rest
    BY <1>2, <1>8, <2>1, <2>3 DEF Handle
  <2>5. QED
    BY <1>3, <2>3, <2>4
<1>9. CASE TimerFires
  <2>1. InOrder(c')
    BY <1>1, <1>9, TimerLeaves DEF TimerFires
  <2>2. Rest
    BY <1>2, <1>9 DEF TimerFires
  <2>3. QED
    BY <1>3, <2>1, <2>2
<1>10. CASE Timeout
  <2>1. InOrder(c')
    BY <1>1, <1>10, CloseSocketLeaves DEF Timeout, InOrder
  <2>2. Rest
    BY <1>2, <1>10 DEF Timeout
  <2>3. QED
    BY <1>3, <2>1, <2>2
<1>11. ASSUME NEW D, Call(D), \A e \in D : InOrder(e)
       PROVE  InOrder(c') /\ Rest
  BY <1>2, <1>11 DEF Call
<1>12. CASE Suspend
  BY <1>1, <1>3, <1>11, <1>12, SuspendLeaves DEF Suspend
<1>13. CASE Reconnect
  BY <1>1, <1>3, <1>11, <1>13, ReconnectLeaves DEF Reconnect
<1>14. CASE Send
  BY <1>1, <1>3, <1>11, <1>14, SendDataLeaves DEF Send
<1>15. CASE Ping
  <2>1. InOrder(c')
    BY <1>1, <1>15, SendDataLeaves DEF Ping
  <2>2. Rest
    BY <1>2, <1>15 DEF Ping
  <2>3. QED
    BY <1>3, <2>1, <2>2
<1>16. CASE NetworkLost
  <2>1. InOrder(c')
    BY <1>1, <1>16 DEF NetworkLost
  <2>2. Rest
    <3>1. calls' \in 0..MaxCalls
      BY <1>2, <1>16 DEF NetworkLost
    <3>2. network' \in BOOLEAN
      BY <1>16, Zenon DEF NetworkLost
    <3>3. QED
      BY <1>2, <1>16, <3>1, <3>2, Zenon DEF NetworkLost
  <2>3. QED
    BY <1>3, <2>1, <2>2
<1>17. CASE NetworkBack
  <2>1. InOrder(c')
    BY <1>1, <1>17, ConnectLeaves DEF NetworkBack
  <2>2. Rest
    BY <1>2, <1>17 DEF NetworkBack
  <2>3. QED
    BY <1>3, <2>1, <2>2
<1>18. QED
  BY <1>4, <1>5, <1>6, <1>7, <1>8, <1>9, <1>10, <1>12, <1>13, <1>14, <1>15, <1>16, <1>17
  DEF Next

LEMMA NextIInv ==
    ASSUME IInv, [Next]_vars
    PROVE  IInv'
<1>1. CASE Next
  BY <1>1, NextLeaves
<1>2. CASE UNCHANGED vars
  <2>1. TypeOK'
    BY <1>2 DEF vars, IInv, TypeOK, Connections
  <2>2. InOrder(c)'
    BY <1>2 DEF vars, IInv, InOrder, TimerInOrder, SocketInOrder, Connections
  <2>3. QED
    BY <2>1, <2>2 DEF IInv
<1>3. QED
  BY <1>1, <1>2

LEMMA Invariance == Spec => []IInv
  BY InitIInv, NextIInv, PTL DEF Spec

(* The state of a connection, its socket, its token and its timer agree after
   every event and every call, for every kind of connection, any number of
   addresses and any number of failures. *)
THEOREM AlwaysAgrees == Spec => []StateAgrees
<1>1. IInv => StateAgrees
  BY DEF IInv, InOrder, TimerInOrder, SocketInOrder, StateAgrees, WaitHasTimer,
         TimerQueuedOnce, SocketMatchesState, TokenMatchesState
<1>2. QED
  BY <1>1, Invariance, PTL

(* No socket ever carries data before the header with the keys of its stream,
   however often and at whatever point the connection is closed and opened. *)
THEOREM AlwaysHeaderFirst == Spec => []HeaderFirst
<1>1. IInv => HeaderFirst
  BY DEF IInv, InOrder, SocketInOrder, HeaderFirst
<1>2. QED
  BY <1>1, Invariance, PTL

(* No socket is given two tokens and no token two sockets, for any order of
   events, reconnects and timeouts: onConnectedSent and closeSocket keep the
   count, and a request that carries the token of the connection was sent on
   the socket that is open now. *)
THEOREM AlwaysNamesSocket == Spec => []TokenNamesSocket
<1>1. IInv => TokenNamesSocket
  BY DEF IInv, InOrder, TimerInOrder, SocketInOrder, TokenNamesSocket, Connections
<1>2. QED
  BY <1>1, Invariance, PTL
=============================================================================
