--------------------------- MODULE HandshakeProofs --------------------------
(***************************************************************************)
(* That a datacenter only ever uses a key that the server has confirmed,   *)
(* and that no restart of the exchange leaves a task without its object or *)
(* a client waiting for nothing: for any number of beginHandshake calls,   *)
(* lost connections, bad and repeated answers and tasks of other threads.  *)
(***************************************************************************)
EXTENDS Handshake, SequenceTheorems, TLAPS

(* What a queue holds, whatever its order. *)
Elements(s) == {s[i] : i \in DOMAIN s}

Complete(t) == t.kind = "complete"

(* Objects, and the nonces of all that is under way, come from calls of
   beginHandshake that were made: the nonce of the next call is new. *)
NumbersBegun ==
    /\ hs.object <= begun
    /\ \A m \in Elements(outbox) : m.nonce <= begun
    /\ \A m \in Elements(toServer) : m.nonce <= begun
    /\ \A m \in Elements(toClient) : m.nonce <= begun
    /\ \A t \in Elements(tasks) : t.object <= begun

(* A dh_gen_ok that will pass the checks came from the server. *)
AnswersConfirmed ==
    \A m \in Elements(toClient) : m.kind = "dh_gen_ok" /\ m.good => m.nonce \in confirmed

(* The key of the object is computed in state 3, under the nonce of the
   exchange, and gets its id with the last answer. *)
KeyOfState ==
    /\ hs.state \in 0..2 => hs.key = 0 /\ hs.keyId = 0
    /\ hs.state = 3 => hs.key = hs.nonce
    /\ hs.state = 4 => hs.key = hs.nonce /\ hs.keyId = hs.nonce /\ hs.nonce \in confirmed

(* Between the last answer and the task that installs the key the exchange may
   start again (server_DH_params_fail in any state, a restart), but it cannot
   go on: what the new exchange sends leaves at the end of the events, and the
   tasks run before the next events. *)
InstallWaits ==
    \A t \in Elements(tasks) : Complete(t) =>
        /\ t.object # 0
        /\ t.object = hs.object =>
             \/ hs.state = 4
             \/ /\ hs.state = 1
                /\ phase = "events" =>
                     /\ \A m \in Elements(toServer) : m.nonce # hs.nonce
                     /\ \A m \in Elements(toClient) : m.nonce # hs.nonce

(* An object schedules one task that installs its key. *)
OneInstall ==
    \A i, j \in DOMAIN tasks :
        Complete(tasks[i]) /\ Complete(tasks[j]) /\ tasks[i].object = tasks[j].object => i = j

(* What has happened is remembered. *)
HistoryKept ==
    /\ \A t \in Elements(tasks) : t.kind = "cleanUp" => "cleanUp" \in happened
    /\ conn = "reconnecting" => "drop" \in happened

(* The request that the state waits on, and its answers. *)
Asked(state) ==
    CASE state = 1 -> "req_pq" [] state = 2 -> "req_DH_params" [] OTHER -> "set_client_DH_params"

Expected(state) ==
    CASE state = 1 -> {"resPQ"}
      [] state = 2 -> {"server_DH_params_ok", "server_DH_params_fail"}
      [] OTHER -> {"dh_gen_ok", "dh_gen_retry", "dh_gen_fail"}

(* The request or the answer that moves the exchange on is under way. *)
UnderWay ==
    \/ \E m \in Elements(outbox) : m.nonce = hs.nonce /\ m.kind = Asked(hs.state)
    \/ \E m \in Elements(toServer) : m.nonce = hs.nonce /\ m.kind = Asked(hs.state)
    \/ \E m \in Elements(toClient) : m.nonce = hs.nonce /\ m.kind \in Expected(hs.state)

Waiting ==
    /\ happened \cap {"drop", "pause"} = {}
    /\ isHandshakingAny /\ hs.state \in 1..3 /\ conn \in {"connecting", "up"}

Moving == Waiting => UnderWay

(* A task that installs a key finds its object, as long as none was removed. *)
InstallFinds ==
    "cleanUp" \in happened \/ \A t \in Elements(tasks) : Complete(t) => t.object = hs.object

IInv ==
    /\ TypeOK /\ NumbersBegun /\ AnswersConfirmed /\ KeyOfState /\ InstallWaits
    /\ OneInstall /\ HistoryKept /\ InstallFinds /\ Moving /\ KeyConfirmed

----------------------------------------------------------------------------
(* What the queues hold after Append, Tail and concatenation. *)
LEMMA ElementsAppend ==
    ASSUME NEW S, NEW s \in Seq(S), NEW x \in S
    PROVE  Append(s, x) \in Seq(S) /\ Elements(Append(s, x)) = Elements(s) \cup {x}
<1>1. /\ Append(s, x) \in Seq(S) /\ Len(Append(s, x)) = Len(s) + 1
      /\ \A i \in 1..Len(s) : Append(s, x)[i] = s[i]
      /\ Append(s, x)[Len(s) + 1] = x
  BY AppendProperties
<1>2. DOMAIN s = 1..Len(s) /\ DOMAIN Append(s, x) = 1..(Len(s) + 1) /\ Len(s) \in Nat
  BY <1>1, LenProperties
<1>3. 1..(Len(s) + 1) = 1..Len(s) \cup {Len(s) + 1}
  BY <1>2
<1>4. QED
  BY <1>1, <1>2, <1>3 DEF Elements

LEMMA ElementsTail ==
    ASSUME NEW S, NEW s \in Seq(S), s # <<>>
    PROVE  /\ Tail(s) \in Seq(S) /\ Head(s) \in S
           /\ Elements(s) = {Head(s)} \cup Elements(Tail(s))
<1>1. /\ Tail(s) \in Seq(S) /\ Head(s) \in S /\ Len(Tail(s)) = Len(s) - 1
      /\ \A i \in 1..Len(Tail(s)) : Tail(s)[i] = s[i + 1]
      /\ Head(s) = s[1]
  BY HeadTailProperties
<1>2. /\ DOMAIN s = 1..Len(s) /\ DOMAIN Tail(s) = 1..(Len(s) - 1) /\ Len(s) \in Nat
      /\ Len(s) # 0
  BY <1>1, LenProperties, EmptySeq
<1>3. Elements(s) \subseteq {Head(s)} \cup Elements(Tail(s))
  <2>1. SUFFICES ASSUME NEW i \in 1..Len(s), i # 1 PROVE s[i] \in Elements(Tail(s))
    BY <1>1, <1>2 DEF Elements
  <2>2. i - 1 \in 1..(Len(s) - 1) /\ (i - 1) + 1 = i
    BY <1>2, <2>1
  <2>3. Tail(s)[i - 1] = s[i]
    BY <1>1, <2>2
  <2>4. QED
    BY <1>2, <2>2, <2>3 DEF Elements
<1>4. {Head(s)} \cup Elements(Tail(s)) \subseteq Elements(s)
  BY <1>1, <1>2 DEF Elements
<1>5. QED
  BY <1>1, <1>3, <1>4

LEMMA ElementsConcat ==
    ASSUME NEW S, NEW s \in Seq(S), NEW t \in Seq(S)
    PROVE  s \o t \in Seq(S) /\ Elements(s \o t) = Elements(s) \cup Elements(t)
<1>1. /\ s \o t \in Seq(S) /\ Len(s \o t) = Len(s) + Len(t)
      /\ \A i \in 1..(Len(s) + Len(t)) :
           (s \o t)[i] = IF i <= Len(s) THEN s[i] ELSE t[i - Len(s)]
  BY ConcatProperties
<1>2. /\ DOMAIN s = 1..Len(s) /\ DOMAIN t = 1..Len(t)
      /\ DOMAIN (s \o t) = 1..(Len(s) + Len(t)) /\ Len(s) \in Nat /\ Len(t) \in Nat
  BY <1>1, LenProperties
<1>3. Elements(s \o t) \subseteq Elements(s) \cup Elements(t)
  <2>1. SUFFICES ASSUME NEW i \in 1..(Len(s) + Len(t))
                 PROVE  (s \o t)[i] \in Elements(s) \cup Elements(t)
    BY <1>2 DEF Elements
  <2>2. CASE i <= Len(s)
    BY <1>1, <1>2, <2>2 DEF Elements
  <2>3. CASE i > Len(s)
    <3>1. i - Len(s) \in 1..Len(t) /\ (s \o t)[i] = t[i - Len(s)]
      BY <1>1, <1>2, <2>3
    <3>2. QED
      BY <1>2, <3>1 DEF Elements
  <2>4. QED
    BY <1>2, <2>2, <2>3
<1>4. Elements(s) \subseteq Elements(s \o t)
  BY <1>1, <1>2 DEF Elements
<1>5. Elements(t) \subseteq Elements(s \o t)
  <2>1. SUFFICES ASSUME NEW i \in 1..Len(t) PROVE t[i] \in Elements(s \o t)
    BY <1>2 DEF Elements
  <2>2. i + Len(s) \in 1..(Len(s) + Len(t)) /\ (s \o t)[i + Len(s)] = t[i]
    BY <1>1, <1>2
  <2>3. QED
    BY <1>2, <2>2 DEF Elements
<1>6. QED
  BY <1>1, <1>3, <1>4, <1>5

LEMMA ElementsEmpty == Elements(<<>>) = {}
  BY DEF Elements

LEMMA ElementsOne ==
    ASSUME NEW x
    PROVE  Elements(<<x>>) = {x}
  BY DEF Elements

LEMMA ElementsTyped ==
    ASSUME NEW S, NEW s \in Seq(S)
    PROVE  Elements(s) \subseteq S
  BY ElementOfSeq, LenProperties DEF Elements

(* The tasks that install a key stay apart when one is taken from the front,
   and when one is added for an object that has none. *)
LEMMA OneInstallTail ==
    ASSUME TypeOK, OneInstall, tasks # <<>>, tasks' = Tail(tasks)
    PROVE  OneInstall'
<1>1. tasks \in Seq(Task)
  BY DEF TypeOK
<1>2. /\ Len(Tail(tasks)) = Len(tasks) - 1 /\ Tail(tasks) \in Seq(Task)
      /\ \A i \in 1..Len(Tail(tasks)) : Tail(tasks)[i] = tasks[i + 1]
  BY <1>1, HeadTailProperties
<1>3. DOMAIN tasks = 1..Len(tasks) /\ DOMAIN tasks' = 1..(Len(tasks) - 1) /\ Len(tasks) \in Nat
  BY <1>1, <1>2, LenProperties
<1>4. SUFFICES ASSUME NEW i \in 1..(Len(tasks) - 1), NEW j \in 1..(Len(tasks) - 1),
                      Complete(tasks'[i]), Complete(tasks'[j]),
                      tasks'[i].object = tasks'[j].object
               PROVE  i = j
  BY <1>3 DEF OneInstall, Complete
<1>5. /\ i + 1 \in DOMAIN tasks /\ tasks'[i] = tasks[i + 1]
      /\ j + 1 \in DOMAIN tasks /\ tasks'[j] = tasks[j + 1]
  BY <1>2, <1>3
<1>6. i + 1 = j + 1
  BY <1>4, <1>5 DEF OneInstall
<1>7. QED
  BY <1>3, <1>6

LEMMA OneInstallAppend ==
    ASSUME TypeOK, OneInstall, NEW x \in Task, tasks' = Append(tasks, x),
           Complete(x) => \A t \in Elements(tasks) : Complete(t) => t.object # x.object
    PROVE  OneInstall'
<1>1. tasks \in Seq(Task)
  BY DEF TypeOK
<1>2. /\ Len(Append(tasks, x)) = Len(tasks) + 1 /\ Append(tasks, x) \in Seq(Task)
      /\ \A i \in 1..Len(tasks) : Append(tasks, x)[i] = tasks[i]
      /\ Append(tasks, x)[Len(tasks) + 1] = x
  BY <1>1, AppendProperties
<1>3. DOMAIN tasks = 1..Len(tasks) /\ DOMAIN tasks' = 1..(Len(tasks) + 1) /\ Len(tasks) \in Nat
  BY <1>1, <1>2, LenProperties
<1>4. SUFFICES ASSUME NEW i \in 1..(Len(tasks) + 1), NEW j \in 1..(Len(tasks) + 1),
                      Complete(tasks'[i]), Complete(tasks'[j]),
                      tasks'[i].object = tasks'[j].object
               PROVE  i = j
  BY <1>3 DEF OneInstall, Complete
<1>5. \A k \in 1..Len(tasks) : tasks'[k] = tasks[k] /\ tasks[k] \in Elements(tasks)
  BY <1>2, <1>3 DEF Elements
<1>6. tasks'[Len(tasks) + 1] = x
  BY <1>2
<1>7. CASE i \in 1..Len(tasks) /\ j \in 1..Len(tasks)
  BY <1>3, <1>4, <1>5, <1>7 DEF OneInstall
<1>8. CASE i \in 1..Len(tasks) /\ j = Len(tasks) + 1
  BY <1>4, <1>5, <1>6, <1>8
<1>9. CASE j \in 1..Len(tasks) /\ i = Len(tasks) + 1
  BY <1>4, <1>5, <1>6, <1>9
<1>10. QED
  BY <1>3, <1>4, <1>7, <1>8, <1>9

LEMMA FirstInstallAlone ==
    ASSUME TypeOK, OneInstall, tasks # <<>>, Complete(Head(tasks)),
           NEW t \in Elements(Tail(tasks)), Complete(t)
    PROVE  t.object # Head(tasks).object
<1>1. tasks \in Seq(Task)
  BY DEF TypeOK
<1>2. /\ Len(Tail(tasks)) = Len(tasks) - 1 /\ Tail(tasks) \in Seq(Task)
      /\ \A i \in 1..Len(Tail(tasks)) : Tail(tasks)[i] = tasks[i + 1]
      /\ Head(tasks) = tasks[1]
  BY <1>1, HeadTailProperties
<1>3. /\ DOMAIN tasks = 1..Len(tasks) /\ DOMAIN Tail(tasks) = 1..(Len(tasks) - 1)
      /\ Len(tasks) \in Nat /\ Len(tasks) # 0
  BY <1>1, <1>2, LenProperties, EmptySeq
<1>4. PICK i \in 1..(Len(tasks) - 1) : t = Tail(tasks)[i]
  BY <1>3 DEF Elements
<1>5. t = tasks[i + 1] /\ i + 1 \in DOMAIN tasks /\ 1 \in DOMAIN tasks /\ i + 1 # 1
  BY <1>2, <1>3, <1>4
<1>6. QED
  BY <1>2, <1>5 DEF OneInstall

(* The types of what the queues hold. *)
LEMMA QueuesTyped ==
    ASSUME TypeOK
    PROVE  /\ Elements(outbox) \subseteq Request /\ Elements(toServer) \subseteq Request
           /\ Elements(toClient) \subseteq Answer /\ Elements(tasks) \subseteq Task
  BY ElementsTyped DEF TypeOK

----------------------------------------------------------------------------
LEMMA InitIInv ==
    ASSUME Init
    PROVE  IInv
<1>1. /\ Elements(outbox) = {} /\ Elements(toServer) = {}
      /\ Elements(toClient) = {} /\ Elements(tasks) = {}
  BY ElementsEmpty DEF Init
<1>2. TypeOK
  BY DEF Init, TypeOK, NoHandshake
<1>3. OneInstall
  BY DEF Init, OneInstall
<1>4. NumbersBegun /\ KeyOfState /\ HistoryKept /\ Moving /\ KeyConfirmed
  BY <1>1 DEF Init, NumbersBegun, KeyOfState, HistoryKept, Moving, Waiting, isHandshakingAny,
              KeyConfirmed, NoHandshake
<1>5. AnswersConfirmed /\ InstallWaits /\ InstallFinds
  BY <1>1 DEF AnswersConfirmed, InstallWaits, InstallFinds
<1>6. QED
  BY <1>2, <1>3, <1>4, <1>5 DEF IInv

LEMMA TasksDoneIInv ==
    ASSUME IInv, TasksDone
    PROVE  IInv'
<1>1. UNCHANGED <<hs, authKey, authKeyId, conn, outbox, toServer, toClient, tasks, begun,
                  confirmed, disturbed, posted, happened>>
      /\ phase' = "events" /\ tasks = <<>>
  BY DEF TasksDone, netVars, keyVars, boundVars
<1>2. Elements(tasks) = {}
  BY <1>1, ElementsEmpty
<1>3. TypeOK'
  BY <1>1 DEF IInv, TypeOK
<1>4. NumbersBegun' /\ AnswersConfirmed' /\ KeyOfState' /\ OneInstall' /\ HistoryKept' /\ KeyConfirmed'
  BY <1>1 DEF IInv, NumbersBegun, AnswersConfirmed, KeyOfState, OneInstall, HistoryKept,
              KeyConfirmed
<1>5. InstallWaits' /\ InstallFinds'
  BY <1>1, <1>2 DEF InstallWaits, InstallFinds
<1>6. Moving'
  BY <1>1 DEF IInv, Moving, Waiting, UnderWay, isHandshakingAny
<1>7. QED
  BY <1>3, <1>4, <1>5, <1>6 DEF IInv

(* beginHandshake(true): only the new req_pq is under way, with a new nonce. *)
LEMMA BeginReconnectingFacts ==
    ASSUME TypeOK, NEW object \in Nat, object <= begun + 1, NEW needResend \in BOOLEAN,
           BeginReconnecting(object, needResend)
    PROVE  /\ hs' \in [object : Nat, state : 0..4, nonce : Nat, key : Nat,
                       keyId : Nat, needResend : BOOLEAN]
           /\ begun' = begun + 1 /\ begun' \in Nat
           /\ hs'.object = object /\ hs'.state = 1 /\ hs'.nonce = begun + 1
           /\ hs'.key = 0 /\ hs'.keyId = 0
           /\ conn' = "connecting"
           /\ outbox' \in Seq(Request) /\ toServer' \in Seq(Request) /\ toClient' \in Seq(Answer)
           /\ Elements(outbox') = {[kind |-> "req_pq", nonce |-> begun + 1]}
           /\ Elements(toServer') = {} /\ Elements(toClient') = {}
<1>1. begun \in Nat /\ begun' = begun + 1
  BY DEF TypeOK, BeginReconnecting
<1>2. [kind |-> "req_pq", nonce |-> begun + 1] \in Request
  BY <1>1 DEF Request, Requests
<1>3. (needResend \/ conn # "idle") \in BOOLEAN
  BY Zenon
<1>4. hs' = [object |-> object, state |-> 1, nonce |-> begun + 1, key |-> 0,
             keyId |-> 0, needResend |-> needResend \/ conn # "idle"]
  BY DEF BeginReconnecting, Begun
<1> DEFINE nr == needResend \/ conn # "idle"
           r == [kind |-> "req_pq", nonce |-> begun + 1]
<1>5. outbox' = <<r>> /\ toServer' = <<>> /\ toClient' = <<>> /\ conn' = "connecting"
  BY DEF BeginReconnecting
<1> HIDE DEF nr, r
<1>6. hs' = [object |-> object, state |-> 1, nonce |-> begun + 1, key |-> 0,
             keyId |-> 0, needResend |-> nr] /\ nr \in BOOLEAN
  BY <1>3, <1>4 DEF nr
<1>7. r \in Request
  BY <1>2 DEF r
<1>8. /\ outbox' \in Seq(Request) /\ toServer' \in Seq(Request) /\ toClient' \in Seq(Answer)
      /\ Elements(outbox') = {r} /\ Elements(toServer') = {} /\ Elements(toClient') = {}
  BY <1>5, <1>7, ElementsEmpty, ElementsOne
<1>9. QED
  BY <1>1, <1>5, <1>6, <1>8 DEF r

LEMMA BeginReconnectingParts ==
    ASSUME IInv, NEW object \in Nat, object <= begun + 1, NEW needResend \in BOOLEAN,
           BeginReconnecting(object, needResend),
           \A t \in Elements(tasks') : t \in Elements(tasks)
    PROVE  NumbersBegun' /\ AnswersConfirmed' /\ KeyOfState' /\ Moving'
<1>1. TypeOK /\ NumbersBegun /\ Elements(tasks) \subseteq Task /\ begun \in Nat
  BY QueuesTyped DEF IInv, TypeOK
<1> DEFINE r == [kind |-> "req_pq", nonce |-> begun + 1]
<1>2. /\ begun' = begun + 1
      /\ hs'.object = object /\ hs'.state = 1 /\ hs'.nonce = begun + 1
      /\ hs'.key = 0 /\ hs'.keyId = 0
      /\ Elements(outbox') = {r}
      /\ Elements(toServer') = {} /\ Elements(toClient') = {}
  BY <1>1, BeginReconnectingFacts
<1>3. r.nonce = begun + 1 /\ r.kind = "req_pq"
  OBVIOUS
<1> HIDE DEF r
<1>4. NumbersBegun'
  <2>1. \A t \in Elements(tasks') : t.object <= begun'
    <3>1. TAKE t \in Elements(tasks')
    <3>2. t \in Elements(tasks) /\ t \in Task /\ t.object <= begun /\ t.object \in Nat
      BY <1>1 DEF NumbersBegun, Task
    <3>3. QED
      BY <1>1, <1>2, <3>2
  <2>2. QED
    BY <1>1, <1>2, <1>3, <2>1 DEF NumbersBegun
<1>5. AnswersConfirmed' /\ KeyOfState'
  BY <1>2 DEF AnswersConfirmed, KeyOfState
<1>6. Moving'
  BY <1>2, <1>3 DEF Moving, UnderWay, Asked
<1>7. QED
  BY <1>4, <1>5, <1>6

LEMMA RunTaskIInv ==
    ASSUME IInv, RunTask
    PROVE  IInv'
<1>1. /\ TypeOK /\ NumbersBegun /\ AnswersConfirmed /\ KeyOfState /\ InstallWaits
      /\ OneInstall /\ HistoryKept /\ InstallFinds /\ Moving /\ KeyConfirmed
  BY DEF IInv
<1>2. /\ tasks # <<>> /\ tasks' = Tail(tasks) /\ phase = "tasks"
      /\ UNCHANGED <<phase, confirmed, disturbed, posted, happened>>
  BY DEF RunTask, boundVars
<1> DEFINE t == Head(tasks)
<1>3. /\ tasks' \in Seq(Task) /\ t \in Task /\ t \in Elements(tasks)
      /\ \A u \in Elements(tasks') : u \in Elements(tasks)
  BY <1>1, <1>2, ElementsTail DEF TypeOK
<1>4. OneInstall'
  BY <1>1, <1>2, OneInstallTail
<1>5. /\ t.kind = "complete" => onHandshakeComplete(t)
      /\ t.kind = "restart" => RestartTask
      /\ t.kind = "cleanUp" => CleanUpTask
  BY <1>3 DEF RunTask
<1>6. t.kind \in {"complete", "restart", "cleanUp"}
  BY <1>3 DEF Task
<1>7. Complete(t) => \A u \in Elements(tasks') : Complete(u) => u.object # t.object
  BY <1>1, <1>2, FirstInstallAlone
<1> HIDE DEF t
<1>8. CASE UNCHANGED <<hs, authKey, authKeyId, conn, outbox, toServer, toClient, begun>>
  <2>1. TypeOK'
    BY <1>1, <1>2, <1>3, <1>8 DEF TypeOK
  <2>2. NumbersBegun' /\ AnswersConfirmed' /\ KeyOfState' /\ HistoryKept' /\ KeyConfirmed'
    BY <1>1, <1>2, <1>3, <1>8 DEF NumbersBegun, AnswersConfirmed, KeyOfState, HistoryKept, KeyConfirmed
  <2>3. InstallWaits' /\ InstallFinds'
    BY <1>1, <1>2, <1>3, <1>8 DEF InstallWaits, InstallFinds
  <2>4. Moving'
    BY <1>1, <1>2, <1>8 DEF Moving, Waiting, UnderWay, isHandshakingAny
  <2>5. QED
    BY <1>4, <2>1, <2>2, <2>3, <2>4 DEF IInv
<1>9. CASE t.kind = "complete" /\ hs.object = t.object
  <2>1. /\ authKey' = hs.key /\ authKeyId' = hs.keyId /\ hs' = NoHandshake
        /\ UNCHANGED <<conn, outbox, toServer, toClient, begun>>
    BY <1>5, <1>9 DEF onHandshakeComplete
  <2>2. hs' \in [object : Nat, state : 0..4, nonce : Nat, key : Nat,
                 keyId : Nat, needResend : BOOLEAN]
        /\ hs'.object = 0 /\ hs'.state = 0 /\ hs'.key = 0 /\ hs'.keyId = 0
    BY <2>1 DEF NoHandshake
  <2>3. TypeOK'
    BY <1>1, <1>2, <1>3, <2>1, <2>2 DEF TypeOK
  <2>4. NumbersBegun'
    BY <1>1, <1>3, <2>1, <2>2 DEF NumbersBegun, TypeOK
  <2>5. AnswersConfirmed' /\ KeyOfState' /\ HistoryKept' /\ Moving'
    BY <1>1, <1>2, <1>3, <2>1, <2>2
    DEF AnswersConfirmed, KeyOfState, HistoryKept, Moving, Waiting, isHandshakingAny
  <2>6. KeyConfirmed'
    <3>1. \/ hs.key = 0 /\ hs.keyId = 0
          \/ hs.key = hs.nonce /\ hs.keyId = hs.nonce /\ hs.nonce \in confirmed
      BY <1>1, <1>3, <1>9 DEF InstallWaits, Complete, KeyOfState
    <3>2. QED
      BY <1>2, <2>1, <3>1 DEF KeyConfirmed
  <2>7. InstallWaits' /\ InstallFinds'
    <3>1. \A u \in Elements(tasks') : Complete(u) => u.object # 0
      BY <1>1, <1>3 DEF InstallWaits
    <3>2. "cleanUp" \in happened \/ \A u \in Elements(tasks') : ~Complete(u)
      BY <1>1, <1>3, <1>7, <1>9 DEF InstallFinds, Complete
    <3>3. QED
      BY <1>2, <2>2, <3>1, <3>2 DEF InstallWaits, InstallFinds
  <2>8. QED
    BY <1>4, <2>3, <2>4, <2>5, <2>6, <2>7 DEF IInv
<1>10. CASE t.kind = "restart"
  <2>1. CASE ~isHandshakingAny
    <3>1. /\ conn' = "idle" /\ outbox' = <<>> /\ toServer' = <<>> /\ toClient' = <<>>
          /\ UNCHANGED <<hs, begun, authKey, authKeyId>>
      BY <1>5, <1>10, <2>1 DEF RestartTask, Closed, keyVars
    <3>2. Elements(outbox') = {} /\ Elements(toServer') = {} /\ Elements(toClient') = {}
      BY <3>1, ElementsEmpty
    <3>3. TypeOK'
      BY <1>1, <1>2, <1>3, <3>1 DEF TypeOK
    <3>4. NumbersBegun' /\ AnswersConfirmed' /\ KeyOfState' /\ HistoryKept' /\ Moving' /\ KeyConfirmed'
      BY <1>1, <1>2, <1>3, <3>1, <3>2 DEF NumbersBegun, AnswersConfirmed, KeyOfState, HistoryKept,
         KeyConfirmed, Moving, Waiting
    <3>5. InstallWaits' /\ InstallFinds'
      BY <1>1, <1>2, <1>3, <3>1 DEF InstallWaits, InstallFinds
    <3>6. QED
      BY <1>4, <3>3, <3>4, <3>5 DEF IInv
  <2>2. CASE isHandshakingAny
    <3>1. BeginReconnecting(hs.object, hs.needResend) /\ UNCHANGED <<authKey, authKeyId>>
      BY <1>5, <1>10, <2>2 DEF RestartTask, keyVars
    <3>2. hs.object \in Nat /\ hs.object <= begun + 1 /\ hs.needResend \in BOOLEAN
      BY <1>1 DEF TypeOK, NumbersBegun
    <3>3. NumbersBegun' /\ AnswersConfirmed' /\ KeyOfState' /\ Moving'
      BY <1>3, <3>1, <3>2, BeginReconnectingParts
    <3>4. /\ hs' \in [object : Nat, state : 0..4, nonce : Nat, key : Nat,
                      keyId : Nat, needResend : BOOLEAN]
          /\ begun' \in Nat /\ hs'.object = hs.object /\ hs'.state = 1
          /\ conn' = "connecting"
          /\ outbox' \in Seq(Request) /\ toServer' \in Seq(Request) /\ toClient' \in Seq(Answer)
      BY <1>1, <3>1, <3>2, BeginReconnectingFacts
    <3>5. TypeOK'
      BY <1>1, <1>2, <1>3, <3>1, <3>4 DEF TypeOK
    <3>6. HistoryKept' /\ KeyConfirmed' /\ InstallFinds'
      BY <1>1, <1>2, <1>3, <3>1, <3>4 DEF HistoryKept, KeyConfirmed, InstallFinds
    <3>7. InstallWaits'
      BY <1>1, <1>2, <1>3, <3>4 DEF InstallWaits
    <3>8. QED
      BY <1>4, <3>3, <3>5, <3>6, <3>7 DEF IInv
  <2>3. QED
    BY <2>1, <2>2
<1>11. CASE t.kind = "cleanUp"
  <2>1. /\ hs' = NoHandshake /\ authKey' = 0 /\ authKeyId' = 0
        /\ UNCHANGED <<conn, outbox, toServer, toClient, begun>>
    BY <1>5, <1>11 DEF CleanUpTask
  <2>2. hs' \in [object : Nat, state : 0..4, nonce : Nat, key : Nat,
                 keyId : Nat, needResend : BOOLEAN]
        /\ hs'.object = 0 /\ hs'.state = 0 /\ hs'.key = 0 /\ hs'.keyId = 0
    BY <2>1 DEF NoHandshake
  <2>3. TypeOK'
    BY <1>1, <1>2, <1>3, <2>1, <2>2 DEF TypeOK
  <2>4. NumbersBegun'
    BY <1>1, <1>3, <2>1, <2>2 DEF NumbersBegun, TypeOK
  <2>5. AnswersConfirmed' /\ KeyOfState' /\ HistoryKept' /\ Moving' /\ KeyConfirmed'
    BY <1>1, <1>2, <1>3, <2>1, <2>2
    DEF AnswersConfirmed, KeyOfState, HistoryKept, Moving, Waiting, isHandshakingAny, KeyConfirmed
  <2>6. InstallWaits'
    BY <1>1, <1>2, <1>3, <2>2 DEF InstallWaits
  <2>7. InstallFinds'
    BY <1>1, <1>2, <1>3, <1>11 DEF HistoryKept, InstallFinds
  <2>8. QED
    BY <1>4, <2>3, <2>4, <2>5, <2>6, <2>7 DEF IInv
<1>12. QED
  BY <1>5, <1>6, <1>8, <1>9, <1>10, <1>11 DEF onHandshakeComplete

LEMMA PostTaskIInv ==
    ASSUME IInv, NEW kind \in AppTaskNames, PostTask(kind)
    PROVE  IInv'
<1>1. /\ TypeOK /\ NumbersBegun /\ AnswersConfirmed /\ KeyOfState /\ InstallWaits
      /\ OneInstall /\ HistoryKept /\ InstallFinds /\ Moving /\ KeyConfirmed
  BY DEF IInv
<1> DEFINE x == [kind |-> kind, object |-> 0]
<1>2. /\ tasks' = Append(tasks, x) /\ posted' = posted + 1
      /\ happened' = happened \cup {kind}
      /\ UNCHANGED <<hs, authKey, authKeyId, conn, outbox, toServer, toClient, phase,
                     begun, confirmed, disturbed>>
  BY DEF PostTask, netVars, keyVars
<1>3. x \in Task /\ ~Complete(x) /\ x.object = 0 /\ x.kind = kind
  BY DEF AppTaskNames, Task, Complete
<1> HIDE DEF x
<1>4. tasks' \in Seq(Task) /\ Elements(tasks') = Elements(tasks) \cup {x}
  BY <1>1, <1>2, <1>3, ElementsAppend DEF TypeOK
<1>5. TypeOK'
  BY <1>1, <1>2, <1>4 DEF TypeOK, AppTaskNames
<1>6. NumbersBegun'
  BY <1>1, <1>2, <1>3, <1>4 DEF NumbersBegun, TypeOK
<1>7. AnswersConfirmed' /\ KeyOfState' /\ KeyConfirmed'
  BY <1>1, <1>2 DEF AnswersConfirmed, KeyOfState, KeyConfirmed
<1>8. InstallWaits' /\ InstallFinds' /\ HistoryKept'
  BY <1>1, <1>2, <1>3, <1>4 DEF InstallWaits, InstallFinds, HistoryKept
<1>9. OneInstall'
  BY <1>1, <1>2, <1>3, OneInstallAppend
<1>10. Moving'
  BY <1>1, <1>2 DEF Moving, Waiting, UnderWay, isHandshakingAny
<1>11. QED
  BY <1>5, <1>6, <1>7, <1>8, <1>9, <1>10 DEF IInv

(* onHandshakeConnectionConnected and the reconnect timer. *)
LEMMA ConnectedIInv ==
    ASSUME IInv, Connected
    PROVE  IInv'
<1>1. /\ TypeOK /\ NumbersBegun /\ AnswersConfirmed /\ KeyOfState /\ InstallWaits
      /\ OneInstall /\ HistoryKept /\ InstallFinds /\ Moving /\ KeyConfirmed
  BY DEF IInv
<1>2. /\ conn = "connecting" /\ conn' = "up"
      /\ hs' = [hs EXCEPT !.needResend = @ /\ hs.state = 0]
      /\ UNCHANGED <<authKey, authKeyId, outbox, toServer, toClient, phase, tasks, begun,
                     confirmed, disturbed, posted, happened>>
  BY DEF Connected, keyVars, boundVars
<1>3. /\ hs' \in [object : Nat, state : 0..4, nonce : Nat, key : Nat,
                  keyId : Nat, needResend : BOOLEAN]
      /\ hs'.object = hs.object /\ hs'.state = hs.state /\ hs'.nonce = hs.nonce
      /\ hs'.key = hs.key /\ hs'.keyId = hs.keyId
  BY <1>1, <1>2 DEF TypeOK
<1>4. TypeOK'
  BY <1>1, <1>2, <1>3 DEF TypeOK
<1>5. NumbersBegun' /\ AnswersConfirmed' /\ KeyOfState' /\ OneInstall' /\ HistoryKept' /\ KeyConfirmed'
  BY <1>1, <1>2, <1>3
  DEF NumbersBegun, AnswersConfirmed, KeyOfState, OneInstall, HistoryKept, KeyConfirmed
<1>6. InstallWaits' /\ InstallFinds'
  BY <1>1, <1>2, <1>3 DEF InstallWaits, InstallFinds
<1>7. Moving'
  BY <1>1, <1>2, <1>3 DEF Moving, Waiting, UnderWay, isHandshakingAny
<1>8. QED
  BY <1>4, <1>5, <1>6, <1>7 DEF IInv

LEMMA ReconnectTimerIInv ==
    ASSUME IInv, ReconnectTimer
    PROVE  IInv'
<1>1. /\ TypeOK /\ NumbersBegun /\ AnswersConfirmed /\ KeyOfState /\ InstallWaits
      /\ OneInstall /\ HistoryKept /\ InstallFinds /\ Moving /\ KeyConfirmed
  BY DEF IInv
<1>2. /\ conn = "reconnecting" /\ conn' = "connecting"
      /\ UNCHANGED <<hs, authKey, authKeyId, outbox, toServer, toClient, phase, tasks, begun,
                     confirmed, disturbed, posted, happened>>
  BY DEF ReconnectTimer, keyVars, boundVars
<1>3. TypeOK'
  BY <1>1, <1>2 DEF TypeOK
<1>4. NumbersBegun' /\ AnswersConfirmed' /\ KeyOfState' /\ OneInstall' /\ HistoryKept' /\ KeyConfirmed'
  BY <1>1, <1>2
  DEF NumbersBegun, AnswersConfirmed, KeyOfState, OneInstall, HistoryKept, KeyConfirmed
<1>5. InstallWaits' /\ InstallFinds'
  BY <1>1, <1>2 DEF InstallWaits, InstallFinds
<1>6. Moving'
  BY <1>1, <1>2 DEF Moving, Waiting, HistoryKept
<1>7. QED
  BY <1>3, <1>4, <1>5, <1>6 DEF IInv

(* Drop and Pause: everything under way is lost, and this is remembered. *)
LEMMA ClosedIInv ==
    ASSUME IInv, NEW next \in {"idle", "reconnecting"}, NEW name \in {"drop", "pause"},
           next = "reconnecting" => name = "drop",
           Disturb(name), Closed(next), phase' \in {"tasks", "events", "finish"},
           phase' # phase => phase' = "tasks",
           hs' = hs \/ hs' = onHandshakeConnectionClosed(hs),
           UNCHANGED <<authKey, authKeyId, tasks, begun, confirmed>>
    PROVE  IInv'
<1>1. /\ TypeOK /\ NumbersBegun /\ AnswersConfirmed /\ KeyOfState /\ InstallWaits
      /\ OneInstall /\ HistoryKept /\ InstallFinds /\ Moving /\ KeyConfirmed
  BY DEF IInv
<1>2. /\ conn' = next /\ outbox' = <<>> /\ toServer' = <<>> /\ toClient' = <<>>
      /\ disturbed' = disturbed + 1 /\ posted' = posted /\ happened' = happened \cup {name}
  BY DEF Closed, Disturb
<1>3. /\ hs' \in [object : Nat, state : 0..4, nonce : Nat, key : Nat,
                  keyId : Nat, needResend : BOOLEAN]
      /\ hs'.object = hs.object /\ hs'.state = hs.state /\ hs'.nonce = hs.nonce
      /\ hs'.key = hs.key /\ hs'.keyId = hs.keyId
  BY <1>1 DEF TypeOK, onHandshakeConnectionClosed
<1>4. Elements(outbox') = {} /\ Elements(toServer') = {} /\ Elements(toClient') = {}
  BY <1>2, ElementsEmpty
<1>5. TypeOK'
  BY <1>1, <1>2, <1>3 DEF TypeOK, DisturbanceNames
<1>6. NumbersBegun' /\ AnswersConfirmed' /\ KeyOfState' /\ OneInstall' /\ HistoryKept' /\ KeyConfirmed'
  BY <1>1, <1>2, <1>3, <1>4
  DEF NumbersBegun, AnswersConfirmed, KeyOfState, OneInstall, HistoryKept, KeyConfirmed
<1>7. InstallWaits' /\ InstallFinds'
  BY <1>1, <1>2, <1>3, <1>4 DEF InstallWaits, InstallFinds
<1>8. Moving'
  BY <1>2 DEF Moving, Waiting
<1>9. QED
  BY <1>5, <1>6, <1>7, <1>8 DEF IInv

LEMMA DropIInv ==
    ASSUME IInv, Drop
    PROVE  IInv'
<1>1. /\ Disturb("drop") /\ Closed("reconnecting") /\ phase' = phase
      /\ hs' = onHandshakeConnectionClosed(hs)
      /\ UNCHANGED <<authKey, authKeyId, tasks, begun, confirmed>>
  BY DEF Drop, keyVars
<1>2. phase' \in {"tasks", "events", "finish"}
  BY <1>1 DEF IInv, TypeOK
<1>3. QED
  BY <1>1, <1>2, ClosedIInv

LEMMA PauseIInv ==
    ASSUME IInv, Pause
    PROVE  IInv'
<1>1. /\ Disturb("pause") /\ Closed("idle") /\ phase' = "tasks"
      /\ hs' = hs \/ hs' = onHandshakeConnectionClosed(hs)
      /\ UNCHANGED <<authKey, authKeyId, tasks, begun, confirmed>>
  BY DEF Pause, keyVars
<1>2. QED
  BY <1>1, ClosedIInv

(* What was queued leaves when the events are over. *)
LEMMA EndEventsIInv ==
    ASSUME IInv, EndEvents
    PROVE  IInv'
<1>1. /\ TypeOK /\ NumbersBegun /\ AnswersConfirmed /\ KeyOfState /\ InstallWaits
      /\ OneInstall /\ HistoryKept /\ InstallFinds /\ Moving /\ KeyConfirmed
  BY DEF IInv
<1>2. /\ phase' = "finish"
      /\ UNCHANGED <<hs, authKey, authKeyId, conn, toClient, tasks, begun,
                     confirmed, disturbed, posted, happened>>
  BY DEF EndEvents, keyVars, boundVars
<1>3. /\ outbox' \in Seq(Request) /\ toServer' \in Seq(Request)
      /\ Elements(outbox') \cup Elements(toServer') = Elements(outbox) \cup Elements(toServer)
  <2>1. CASE conn = "up"
    <3>1. toServer' = toServer \o outbox /\ outbox' = <<>>
      BY <2>1 DEF EndEvents
    <3>2. QED
      BY <1>1, <3>1, ElementsConcat, ElementsEmpty DEF TypeOK
  <2>2. CASE conn # "up"
    BY <1>1, <2>2 DEF EndEvents, TypeOK
  <2>3. QED
    BY <2>1, <2>2
<1>4. TypeOK'
  BY <1>1, <1>2, <1>3 DEF TypeOK
<1>5. AnswersConfirmed' /\ KeyOfState' /\ OneInstall' /\ HistoryKept' /\ KeyConfirmed'
  BY <1>1, <1>2 DEF AnswersConfirmed, KeyOfState, OneInstall, HistoryKept, KeyConfirmed
<1>6. NumbersBegun'
  BY <1>1, <1>2, <1>3 DEF NumbersBegun
<1>7. InstallWaits' /\ InstallFinds'
  BY <1>1, <1>2 DEF InstallWaits, InstallFinds
<1>8. Moving'
  <2>1. SUFFICES ASSUME Waiting' PROVE UnderWay'
    BY DEF Moving
  <2>2. UnderWay
    BY <1>1, <1>2, <2>1 DEF Moving, Waiting, isHandshakingAny
  <2>3. QED
    BY <1>2, <1>3, <2>2 DEF UnderWay
<1>9. QED
  BY <1>4, <1>5, <1>6, <1>7, <1>8 DEF IInv

(* The end of select: a new object has a number that no task names. *)
LEMMA FinishIInv ==
    ASSUME IInv, Finish
    PROVE  IInv'
<1>1. /\ TypeOK /\ NumbersBegun /\ AnswersConfirmed /\ KeyOfState /\ InstallWaits
      /\ OneInstall /\ HistoryKept /\ InstallFinds /\ Moving /\ KeyConfirmed
  BY DEF IInv
<1>2. /\ phase' = "tasks"
      /\ UNCHANGED <<authKey, authKeyId, tasks, confirmed, disturbed, posted, happened>>
  BY DEF Finish, keyVars, boundVars
<1>3. CASE beginHandshakeAll
  <2>1. BeginReconnecting(begun + 1, FALSE) /\ hs.object = 0
    BY <1>3 DEF beginHandshakeAll, isHandshakingAny
  <2>2. begun + 1 \in Nat /\ begun + 1 <= begun + 1 /\ begun \in Nat
    BY <1>1 DEF TypeOK
  <2>3. NumbersBegun' /\ AnswersConfirmed' /\ KeyOfState' /\ Moving'
    BY <1>2, <2>1, <2>2, BeginReconnectingParts
  <2>4. /\ hs' \in [object : Nat, state : 0..4, nonce : Nat, key : Nat,
                    keyId : Nat, needResend : BOOLEAN]
        /\ begun' \in Nat /\ hs'.object = begun + 1 /\ hs'.state = 1
        /\ conn' = "connecting"
        /\ outbox' \in Seq(Request) /\ toServer' \in Seq(Request) /\ toClient' \in Seq(Answer)
    BY <1>1, <2>1, <2>2, BeginReconnectingFacts
  <2>5. TypeOK'
    BY <1>1, <1>2, <2>4 DEF TypeOK
  <2>6. OneInstall' /\ HistoryKept' /\ KeyConfirmed'
    BY <1>1, <1>2, <2>4 DEF OneInstall, HistoryKept, KeyConfirmed
  <2>7. InstallWaits'
    BY <1>1, <1>2, <2>4 DEF InstallWaits
  <2>8. InstallFinds'
    BY <1>1, <1>2, <2>1 DEF InstallFinds, InstallWaits
  <2>9. QED
    BY <2>3, <2>5, <2>6, <2>7, <2>8 DEF IInv
<1>4. CASE UNCHANGED <<hs, begun, conn, outbox, toServer, toClient>>
  <2>1. TypeOK'
    BY <1>1, <1>2, <1>4 DEF TypeOK
  <2>2. NumbersBegun' /\ AnswersConfirmed' /\ KeyOfState' /\ OneInstall' /\ HistoryKept' /\ KeyConfirmed'
    BY <1>1, <1>2, <1>4
    DEF NumbersBegun, AnswersConfirmed, KeyOfState, OneInstall, HistoryKept, KeyConfirmed
  <2>3. InstallWaits' /\ InstallFinds'
    BY <1>1, <1>2, <1>4 DEF InstallWaits, InstallFinds
  <2>4. Moving'
    BY <1>1, <1>2, <1>4 DEF Moving, Waiting, UnderWay, isHandshakingAny
  <2>5. QED
    BY <2>1, <2>2, <2>3, <2>4 DEF IInv
<1>5. QED
  BY <1>3, <1>4 DEF Finish, netVars

(* An answer has the nonce of its request and a type that the state which sent
   the request expects; a dh_gen_ok that is good is a confirmation. *)
LEMMA ServerAnswerIInv ==
    ASSUME IInv, ServerAnswer
    PROVE  IInv'
<1>1. /\ TypeOK /\ NumbersBegun /\ AnswersConfirmed /\ KeyOfState /\ InstallWaits
      /\ OneInstall /\ HistoryKept /\ InstallFinds /\ Moving /\ KeyConfirmed
  BY DEF IInv
<1> DEFINE r == Head(toServer)
<1>2. /\ toServer # <<>> /\ toServer' = Tail(toServer)
      /\ UNCHANGED <<hs, authKey, authKeyId, conn, outbox, phase, tasks, begun>>
  BY DEF ServerAnswer, keyVars
<1>3. /\ toServer' \in Seq(Request) /\ r \in Request
      /\ Elements(toServer) = {r} \cup Elements(toServer')
  BY <1>1, <1>2, ElementsTail DEF TypeOK
<1>4. PICK a \in Answer :
        /\ toClient' = Append(toClient, a) /\ a.nonce = r.nonce
        /\ a.kind = "dh_gen_ok" /\ a.good => a.nonce \in confirmed'
        /\ r.kind = "req_pq" => a.kind = "resPQ"
        /\ r.kind = "req_DH_params" => a.kind \in {"server_DH_params_ok", "server_DH_params_fail"}
        /\ r.kind = "set_client_DH_params" => a.kind \in {"dh_gen_ok", "dh_gen_retry", "dh_gen_fail"}
        /\ confirmed \subseteq confirmed' /\ confirmed' \subseteq Nat
        /\ disturbed' \in Nat /\ posted' = posted
        /\ happened' = happened \/ happened' = happened \cup {"bad"}
  <2>1. r.kind \in Requests /\ r.nonce \in Nat
    BY <1>3 DEF Request
  <2>2. CASE /\ toClient' = Append(toClient, [kind |-> GoodAnswer(r.kind),
                                              nonce |-> r.nonce, good |-> TRUE])
             /\ confirmed' = confirmed \cup
                   (IF r.kind = "set_client_DH_params" THEN {r.nonce} ELSE {})
             /\ UNCHANGED boundVars
    <3> DEFINE a == [kind |-> GoodAnswer(r.kind), nonce |-> r.nonce, good |-> TRUE]
    <3>1. /\ r.kind = "req_pq" => a.kind = "resPQ"
          /\ r.kind = "req_DH_params" => a.kind = "server_DH_params_ok"
          /\ r.kind = "set_client_DH_params" => a.kind = "dh_gen_ok"
          /\ a.nonce = r.nonce
      BY DEF GoodAnswer
    <3>2. a \in Answer
      BY <2>1, <3>1 DEF Answer, Answers, Requests
    <3>3. /\ toClient' = Append(toClient, a) /\ disturbed' = disturbed /\ posted' = posted
          /\ happened' = happened
      BY <2>2 DEF boundVars
    <3> HIDE DEF a
    <3>4. confirmed \subseteq confirmed' /\ confirmed' \subseteq Nat /\ disturbed' \in Nat
      BY <1>1, <2>1, <2>2, <3>3 DEF TypeOK
    <3>5. a.kind = "dh_gen_ok" => a.nonce \in confirmed'
      BY <2>1, <2>2, <3>1 DEF Requests
    <3>6. QED
      BY <3>1, <3>2, <3>3, <3>4, <3>5
  <2>3. CASE /\ Disturb("bad")
             /\ \E k \in BadAnswers(r.kind) :
                   toClient' = Append(toClient, [kind |-> k, nonce |-> r.nonce, good |-> FALSE])
             /\ UNCHANGED confirmed
    <3>1. PICK k \in BadAnswers(r.kind) :
                 toClient' = Append(toClient, [kind |-> k, nonce |-> r.nonce, good |-> FALSE])
      BY <2>3
    <3> DEFINE a == [kind |-> k, nonce |-> r.nonce, good |-> FALSE]
    <3>2. /\ r.kind = "req_pq" => k = "resPQ"
          /\ r.kind = "req_DH_params" => k \in {"server_DH_params_ok", "server_DH_params_fail"}
          /\ r.kind = "set_client_DH_params" => k \in {"dh_gen_ok", "dh_gen_retry", "dh_gen_fail"}
      BY <3>1 DEF BadAnswers
    <3>3. a \in Answer /\ a.nonce = r.nonce /\ a.kind = k /\ ~a.good
      BY <2>1, <3>2 DEF Answer, Answers, Requests
    <3>4. /\ disturbed' = disturbed + 1 /\ posted' = posted /\ happened' = happened \cup {"bad"}
          /\ confirmed' = confirmed
      BY <2>3 DEF Disturb
    <3>5. toClient' = Append(toClient, a)
      BY <3>1
    <3> HIDE DEF a
    <3>6. QED
      BY <1>1, <3>2, <3>3, <3>4, <3>5 DEF TypeOK
  <2>4. QED
    BY <2>2, <2>3 DEF ServerAnswer
<1> HIDE DEF r
<1>5. toClient' \in Seq(Answer) /\ Elements(toClient') = Elements(toClient) \cup {a}
  BY <1>1, <1>4, ElementsAppend DEF TypeOK
<1>6. TypeOK'
  BY <1>1, <1>2, <1>3, <1>4, <1>5 DEF TypeOK, DisturbanceNames
<1>7. NumbersBegun'
  BY <1>1, <1>2, <1>3, <1>4, <1>5 DEF NumbersBegun
<1>8. AnswersConfirmed' /\ KeyOfState' /\ KeyConfirmed'
  BY <1>1, <1>2, <1>4, <1>5 DEF AnswersConfirmed, KeyOfState, KeyConfirmed
<1>9. OneInstall' /\ HistoryKept' /\ InstallFinds'
  BY <1>1, <1>2, <1>4 DEF OneInstall, HistoryKept, InstallFinds
<1>10. InstallWaits'
  BY <1>1, <1>2, <1>3, <1>4, <1>5 DEF InstallWaits
<1>11. Moving'
  <2>1. SUFFICES ASSUME Waiting' PROVE UnderWay'
    BY DEF Moving
  <2>2. UnderWay /\ hs.state \in 1..3
    BY <1>1, <1>2, <1>4, <2>1 DEF Moving, Waiting, isHandshakingAny
  <2>3. r.kind = Asked(hs.state) => a.kind \in Expected(hs.state)
    BY <1>4, <2>2 DEF Asked, Expected
  <2>4. QED
    BY <1>2, <1>3, <1>4, <1>5, <2>2, <2>3 DEF UnderWay
<1>12. QED
  BY <1>6, <1>7, <1>8, <1>9, <1>10, <1>11 DEF IInv

LEMMA DuplicateIInv ==
    ASSUME IInv, Duplicate
    PROVE  IInv'
<1>1. /\ TypeOK /\ NumbersBegun /\ AnswersConfirmed /\ KeyOfState /\ InstallWaits
      /\ OneInstall /\ HistoryKept /\ InstallFinds /\ Moving /\ KeyConfirmed
  BY DEF IInv
<1>2. /\ UNCHANGED <<hs, authKey, authKeyId, conn, outbox, toServer, phase, tasks, begun,
                     confirmed, posted>>
      /\ disturbed' = disturbed + 1 /\ happened' = happened \cup {"dup"}
  BY DEF Duplicate, Disturb, keyVars
<1>3. PICK i \in DOMAIN toClient : toClient' = Append(toClient, toClient[i])
  BY DEF Duplicate
<1> DEFINE x == toClient[i]
<1>4. x \in Elements(toClient) /\ x \in Answer /\ toClient' = Append(toClient, x)
  BY <1>1, <1>3, QueuesTyped DEF Elements
<1> HIDE DEF x
<1>5. toClient' \in Seq(Answer) /\ Elements(toClient') = Elements(toClient)
  <2>1. toClient' \in Seq(Answer) /\ Elements(toClient') = Elements(toClient) \cup {x}
    BY <1>1, <1>4, ElementsAppend DEF TypeOK
  <2>2. QED
    BY <1>4, <2>1
<1>6. TypeOK'
  BY <1>1, <1>2, <1>5 DEF TypeOK, DisturbanceNames
<1>7. NumbersBegun' /\ AnswersConfirmed' /\ KeyOfState' /\ KeyConfirmed'
  BY <1>1, <1>2, <1>5 DEF NumbersBegun, AnswersConfirmed, KeyOfState, KeyConfirmed
<1>8. OneInstall' /\ HistoryKept' /\ InstallFinds' /\ InstallWaits'
  BY <1>1, <1>2, <1>5 DEF OneInstall, HistoryKept, InstallFinds, InstallWaits
<1>9. Moving'
  BY <1>1, <1>2, <1>5 DEF Moving, Waiting, UnderWay, isHandshakingAny
<1>10. QED
  BY <1>6, <1>7, <1>8, <1>9 DEF IInv

----------------------------------------------------------------------------
(* What processHandshakeResponse may do with the answer m. *)
Ignored(m) ==
    /\ AckOnly
    /\ isHandshakingAny /\ hs.state \in 1..3 => m.kind \notin Expected(hs.state)

Advanced(m) ==
    /\ m.nonce = hs.nonce
    /\ \/ /\ hs.state = 1
          /\ hs' = [hs EXCEPT !.state = 2]
          /\ Send("req_DH_params", hs.nonce)
       \/ /\ hs.state = 2
          /\ hs' = [hs EXCEPT !.state = 3, !.key = hs.nonce]
          /\ Send("set_client_DH_params", hs.nonce)
    /\ UNCHANGED <<begun, tasks>>

Finished(m) ==
    /\ hs.state = 3 /\ m.nonce = hs.nonce /\ m.kind = "dh_gen_ok" /\ m.good
    /\ hs' = [hs EXCEPT !.state = 4, !.keyId = hs.nonce]
    /\ tasks' = Append(tasks, [kind |-> "complete", object |-> hs.object])
    /\ UNCHANGED <<conn, outbox, toServer, begun>>

StartedAgain == BeginOnSameConnection /\ UNCHANGED tasks

LEMMA DeliverCases ==
    ASSUME TypeOK, Deliver
    PROVE  \/ Ignored(Head(toClient))
           \/ isHandshakingAny /\ (Advanced(Head(toClient)) \/ Finished(Head(toClient)) \/ StartedAgain)
<1> DEFINE m == Head(toClient)
<1>1. m \in Answer /\ toClient # <<>>
  BY ElementsTail DEF TypeOK, Deliver
<1>2. m.kind \in Answers
  BY <1>1 DEF Answer
<1>3. \/ isHandshakingAny /\ processHandshakeResponse(m)
      \/ ~isHandshakingAny /\ AckOnly
  BY DEF Deliver
<1> HIDE DEF m
<1>4. CASE ~isHandshakingAny /\ AckOnly
  BY <1>4 DEF Ignored, m
<1>5. CASE isHandshakingAny /\ m.kind = "resPQ"
  <2>1. OnResPQ(m)
    BY <1>3, <1>5 DEF processHandshakeResponse
  <2>2. Ignored(m) \/ Advanced(m) \/ StartedAgain
    BY <1>5, <2>1 DEF OnResPQ, Ignored, Expected, Advanced, StartedAgain
  <2>3. QED
    BY <1>5, <2>2 DEF m
<1>6. CASE isHandshakingAny /\ m.kind \in {"server_DH_params_ok", "server_DH_params_fail"}
  <2>1. OnServerDHParams(m)
    BY <1>3, <1>6 DEF processHandshakeResponse
  <2>2. Ignored(m) \/ Advanced(m) \/ StartedAgain
    BY <1>6, <2>1 DEF OnServerDHParams, Ignored, Expected, Advanced, StartedAgain
  <2>3. QED
    BY <1>6, <2>2 DEF m
<1>7. CASE isHandshakingAny /\ m.kind \in {"dh_gen_ok", "dh_gen_retry", "dh_gen_fail"}
  <2>1. OnDHAnswer(m)
    BY <1>3, <1>7 DEF processHandshakeResponse
  <2>2. Ignored(m) \/ Finished(m) \/ StartedAgain
    BY <1>7, <2>1 DEF OnDHAnswer, Ignored, Expected, Finished, StartedAgain
  <2>3. QED
    BY <1>7, <2>2 DEF m
<1>8. QED
  BY <1>2, <1>3, <1>4, <1>5, <1>6, <1>7 DEF Answers

LEMMA DeliverIInv ==
    ASSUME IInv, Deliver
    PROVE  IInv'
<1>1. /\ TypeOK /\ NumbersBegun /\ AnswersConfirmed /\ KeyOfState /\ InstallWaits
      /\ OneInstall /\ HistoryKept /\ InstallFinds /\ Moving /\ KeyConfirmed
  BY DEF IInv
<1> DEFINE m == Head(toClient)
<1>2. /\ phase = "events" /\ toClient # <<>> /\ toClient' = Tail(toClient)
      /\ UNCHANGED <<authKey, authKeyId, phase, confirmed, disturbed, posted, happened>>
  BY DEF Deliver, keyVars, boundVars
<1>3. /\ toClient' \in Seq(Answer) /\ m \in Answer
      /\ Elements(toClient) = {m} \cup Elements(toClient')
  BY <1>1, <1>2, ElementsTail DEF TypeOK
<1>4. \/ Ignored(m)
      \/ isHandshakingAny /\ (Advanced(m) \/ Finished(m) \/ StartedAgain)
  BY <1>1, DeliverCases
<1> HIDE DEF m
<1>5. KeyConfirmed' /\ AnswersConfirmed'
  BY <1>1, <1>2, <1>3 DEF KeyConfirmed, AnswersConfirmed
<1>6. CASE Ignored(m)
  <2>1. UNCHANGED <<hs, conn, outbox, toServer, begun, tasks>>
    BY <1>6 DEF Ignored, AckOnly
  <2>2. TypeOK'
    BY <1>1, <1>2, <1>3, <2>1 DEF TypeOK
  <2>3. NumbersBegun' /\ KeyOfState' /\ OneInstall' /\ HistoryKept'
    BY <1>1, <1>2, <1>3, <2>1 DEF NumbersBegun, KeyOfState, OneInstall, HistoryKept
  <2>4. InstallWaits' /\ InstallFinds'
    BY <1>1, <1>2, <1>3, <2>1 DEF InstallWaits, InstallFinds
  <2>5. Moving'
    <3>1. SUFFICES ASSUME Waiting' PROVE UnderWay'
      BY DEF Moving
    <3>2. UnderWay /\ m.kind \notin Expected(hs.state)
      BY <1>1, <1>2, <1>6, <2>1, <3>1 DEF Moving, Waiting, Ignored, isHandshakingAny
    <3>3. QED
      BY <1>3, <2>1, <3>2 DEF UnderWay
  <2>6. QED
    BY <1>5, <2>2, <2>3, <2>4, <2>5 DEF IInv
<1>7. CASE isHandshakingAny /\ Advanced(m)
  <2>1. PICK k \in {"req_DH_params", "set_client_DH_params"} :
          /\ hs' \in [object : Nat, state : 0..4, nonce : Nat, key : Nat,
                      keyId : Nat, needResend : BOOLEAN]
          /\ hs'.object = hs.object /\ hs'.nonce = hs.nonce
          /\ \/ hs.state = 1 /\ hs'.state = 2 /\ hs'.key = hs.key /\ k = "req_DH_params"
             \/ hs.state = 2 /\ hs'.state = 3 /\ hs'.key = hs.nonce /\ k = "set_client_DH_params"
          /\ hs'.keyId = hs.keyId
          /\ outbox' = Append(outbox, [kind |-> k, nonce |-> hs.nonce])
    <3>1. CASE /\ hs.state = 1 /\ hs' = [hs EXCEPT !.state = 2]
               /\ Send("req_DH_params", hs.nonce)
      <4>1. outbox' = Append(outbox, [kind |-> "req_DH_params", nonce |-> hs.nonce])
        BY <3>1 DEF Send
      <4>2. /\ hs' \in [object : Nat, state : 0..4, nonce : Nat, key : Nat,
                        keyId : Nat, needResend : BOOLEAN]
            /\ hs'.object = hs.object /\ hs'.nonce = hs.nonce
            /\ hs'.state = 2 /\ hs'.key = hs.key /\ hs'.keyId = hs.keyId
        <5>1. 2 \in 0..4 /\ hs.nonce \in Nat
          BY <1>1 DEF TypeOK
        <5>2. hs' \in [object : Nat, state : 0..4, nonce : Nat, key : Nat,
                       keyId : Nat, needResend : BOOLEAN]
          BY <1>1, <3>1, <5>1, Zenon DEF TypeOK
        <5>3. QED
          BY <1>1, <3>1, <5>2 DEF TypeOK
      <4>3. QED
        BY <3>1, <4>1, <4>2
    <3>2. CASE /\ hs.state = 2 /\ hs' = [hs EXCEPT !.state = 3, !.key = hs.nonce]
               /\ Send("set_client_DH_params", hs.nonce)
      <4>1. outbox' = Append(outbox, [kind |-> "set_client_DH_params", nonce |-> hs.nonce])
        BY <3>2 DEF Send
      <4>2. /\ hs' \in [object : Nat, state : 0..4, nonce : Nat, key : Nat,
                        keyId : Nat, needResend : BOOLEAN]
            /\ hs'.object = hs.object /\ hs'.nonce = hs.nonce
            /\ hs'.state = 3 /\ hs'.key = hs.nonce /\ hs'.keyId = hs.keyId
        <5>1. 3 \in 0..4 /\ hs.nonce \in Nat
          BY <1>1 DEF TypeOK
        <5>2. hs' \in [object : Nat, state : 0..4, nonce : Nat, key : Nat,
                       keyId : Nat, needResend : BOOLEAN]
          BY <1>1, <3>2, <5>1, Zenon DEF TypeOK
        <5>3. QED
          BY <1>1, <3>2, <5>2 DEF TypeOK
      <4>3. QED
        BY <3>2, <4>1, <4>2
    <3>3. QED
      BY <1>7, <3>1, <3>2 DEF Advanced
  <2>2. UNCHANGED <<conn, toServer, begun, tasks>> /\ m.nonce = hs.nonce
    BY <1>7 DEF Advanced, Send
  <2> DEFINE x == [kind |-> k, nonce |-> hs.nonce]
  <2>3. x \in Request /\ x.nonce = hs.nonce /\ x.kind = k
    BY <1>1 DEF TypeOK, Request, Requests
  <2>4. outbox' = Append(outbox, x)
    BY <2>1
  <2> HIDE DEF x
  <2>5. outbox' \in Seq(Request) /\ Elements(outbox') = Elements(outbox) \cup {x}
    BY <1>1, <2>3, <2>4, ElementsAppend DEF TypeOK
  <2>6. TypeOK'
    BY <1>1, <1>2, <1>3, <2>1, <2>2, <2>5 DEF TypeOK
  <2>7. NumbersBegun'
    BY <1>1, <1>3, <2>1, <2>2, <2>3, <2>5 DEF NumbersBegun
  <2>8. KeyOfState' /\ OneInstall' /\ HistoryKept' /\ InstallFinds'
    BY <1>1, <1>2, <2>1, <2>2 DEF KeyOfState, OneInstall, HistoryKept, InstallFinds
  <2>9. InstallWaits'
    <3>1. \A t \in Elements(tasks) : Complete(t) => t.object # 0 /\ t.object # hs.object
      BY <1>1, <1>2, <1>3, <2>1, <2>2 DEF InstallWaits
    <3>2. QED
      BY <2>1, <2>2, <3>1 DEF InstallWaits
  <2>10. Moving'
    BY <2>1, <2>3, <2>5 DEF Moving, UnderWay, Asked
  <2>11. QED
    BY <1>5, <2>6, <2>7, <2>8, <2>9, <2>10 DEF IInv
<1>8. CASE isHandshakingAny /\ Finished(m)
  <2> DEFINE x == [kind |-> "complete", object |-> hs.object]
  <2>1. /\ hs.state = 3 /\ m.nonce = hs.nonce /\ m.kind = "dh_gen_ok" /\ m.good
        /\ hs' \in [object : Nat, state : 0..4, nonce : Nat, key : Nat,
                    keyId : Nat, needResend : BOOLEAN]
        /\ hs'.object = hs.object /\ hs'.nonce = hs.nonce /\ hs'.state = 4
        /\ hs'.key = hs.key /\ hs'.keyId = hs.nonce
        /\ tasks' = Append(tasks, x)
        /\ UNCHANGED <<conn, outbox, toServer, begun>>
    <3>1. hs \in [object : Nat, state : 0..4, nonce : Nat, key : Nat,
                  keyId : Nat, needResend : BOOLEAN]
      BY <1>1 DEF TypeOK
    <3>2. /\ hs.state = 3 /\ m.nonce = hs.nonce /\ m.kind = "dh_gen_ok" /\ m.good
          /\ hs' = [hs EXCEPT !.state = 4, !.keyId = hs.nonce]
          /\ tasks' = Append(tasks, x)
          /\ UNCHANGED <<conn, outbox, toServer, begun>>
      BY <1>8 DEF Finished
    <3> HIDE DEF x
    <3>3. 4 \in 0..4 /\ hs.nonce \in Nat
      BY <3>1
    <3>4. hs' \in [object : Nat, state : 0..4, nonce : Nat, key : Nat,
                   keyId : Nat, needResend : BOOLEAN]
      BY <3>1, <3>2, <3>3, Zenon
    <3>5. QED
      BY <3>1, <3>2, <3>4
  <2>2. x \in Task /\ Complete(x) /\ x.object = hs.object /\ x.kind = "complete" /\ hs.object # 0
    BY <1>1, <1>8 DEF TypeOK, Task, Complete, isHandshakingAny
  <2> HIDE DEF x
  <2>3. tasks' \in Seq(Task) /\ Elements(tasks') = Elements(tasks) \cup {x}
    BY <1>1, <2>1, <2>2, ElementsAppend DEF TypeOK
  <2>4. \A t \in Elements(tasks) : Complete(t) => t.object # hs.object
    BY <1>1, <2>1 DEF InstallWaits
  <2>5. OneInstall'
    BY <1>1, <2>1, <2>2, <2>4, OneInstallAppend
  <2>6. TypeOK'
    BY <1>1, <1>2, <1>3, <2>1, <2>3 DEF TypeOK
  <2>7. NumbersBegun'
    BY <1>1, <1>3, <2>1, <2>2, <2>3 DEF NumbersBegun
  <2>8. KeyOfState'
    BY <1>1, <1>2, <1>3, <2>1 DEF KeyOfState, AnswersConfirmed
  <2>9. HistoryKept' /\ InstallFinds'
    BY <1>1, <1>2, <2>1, <2>2, <2>3 DEF HistoryKept, InstallFinds
  <2>10. InstallWaits' /\ Moving'
    BY <1>1, <2>1, <2>2, <2>3 DEF InstallWaits, Moving, Waiting
  <2>11. QED
    BY <1>5, <2>5, <2>6, <2>7, <2>8, <2>9, <2>10 DEF IInv
<1>9. CASE isHandshakingAny /\ StartedAgain
  <2> DEFINE x == [kind |-> "req_pq", nonce |-> begun + 1]
  <2>1. begun \in Nat /\ hs.needResend \in BOOLEAN /\ hs.object \in Nat
    BY <1>1 DEF TypeOK
  <2>2. /\ hs' \in [object : Nat, state : 0..4, nonce : Nat, key : Nat,
                    keyId : Nat, needResend : BOOLEAN]
        /\ hs'.object = hs.object /\ hs'.nonce = begun + 1 /\ hs'.state = 1
        /\ hs'.key = 0 /\ hs'.keyId = 0
    BY <1>9, <2>1 DEF StartedAgain, BeginOnSameConnection, Begun
  <2>3. /\ begun' = begun + 1 /\ outbox' = Append(outbox, x)
        /\ UNCHANGED <<conn, toServer, tasks>>
    BY <1>9 DEF StartedAgain, BeginOnSameConnection, Send
  <2>4. x \in Request /\ x.nonce = begun + 1 /\ x.kind = "req_pq"
    BY <2>1 DEF Request, Requests
  <2> HIDE DEF x
  <2>5. outbox' \in Seq(Request) /\ Elements(outbox') = Elements(outbox) \cup {x}
    BY <1>1, <2>3, <2>4, ElementsAppend DEF TypeOK
  <2>6. TypeOK'
    BY <1>1, <1>2, <1>3, <2>1, <2>2, <2>3, <2>5 DEF TypeOK
  <2>7. /\ \A y \in Elements(outbox) : y.nonce \in Nat /\ y.nonce <= begun
        /\ \A y \in Elements(toServer) : y.nonce \in Nat /\ y.nonce <= begun
        /\ \A y \in Elements(toClient') : y.nonce \in Nat /\ y.nonce <= begun
        /\ \A t \in Elements(tasks) : t.object \in Nat /\ t.object <= begun
    BY <1>1, <1>3, QueuesTyped DEF NumbersBegun, Request, Answer, Task
  <2>8. NumbersBegun'
    BY <1>1, <2>1, <2>2, <2>3, <2>4, <2>5, <2>7 DEF NumbersBegun
  <2>9. KeyOfState' /\ OneInstall' /\ HistoryKept' /\ InstallFinds'
    BY <1>1, <1>2, <2>2, <2>3 DEF KeyOfState, OneInstall, HistoryKept, InstallFinds
  <2>10. InstallWaits'
    <3>1. /\ \A y \in Elements(toServer') : y.nonce # hs'.nonce
          /\ \A y \in Elements(toClient') : y.nonce # hs'.nonce
      BY <2>1, <2>2, <2>3, <2>7
    <3>2. QED
      BY <1>1, <2>2, <2>3, <3>1 DEF InstallWaits
  <2>11. Moving'
    BY <2>2, <2>4, <2>5 DEF Moving, UnderWay, Asked
  <2>12. QED
    BY <1>5, <2>6, <2>8, <2>9, <2>10, <2>11 DEF IInv
<1>10. QED
  BY <1>4, <1>6, <1>7, <1>8, <1>9

LEMMA NextIInv ==
    ASSUME IInv, [Next]_vars
    PROVE  IInv'
<1>1. CASE RunTask
  BY <1>1, RunTaskIInv
<1>2. CASE TasksDone
  BY <1>2, TasksDoneIInv
<1>3. CASE \E kind \in AppTaskNames : PostTask(kind)
  BY <1>3, PostTaskIInv
<1>4. CASE Deliver
  BY <1>4, DeliverIInv
<1>5. CASE Connected
  BY <1>5, ConnectedIInv
<1>6. CASE Drop
  BY <1>6, DropIInv
<1>7. CASE ReconnectTimer
  BY <1>7, ReconnectTimerIInv
<1>8. CASE EndEvents
  BY <1>8, EndEventsIInv
<1>9. CASE Finish
  BY <1>9, FinishIInv
<1>10. CASE Pause
  BY <1>10, PauseIInv
<1>11. CASE ServerAnswer
  BY <1>11, ServerAnswerIInv
<1>12. CASE Duplicate
  BY <1>12, DuplicateIInv
<1>13. CASE UNCHANGED vars
  BY <1>13 DEF vars, IInv, TypeOK, NumbersBegun, AnswersConfirmed, KeyOfState, InstallWaits,
               OneInstall, HistoryKept, InstallFinds, Moving, Waiting, UnderWay, isHandshakingAny,
               KeyConfirmed
<1>14. QED
  BY <1>1, <1>2, <1>3, <1>4, <1>5, <1>6, <1>7, <1>8, <1>9, <1>10, <1>11, <1>12, <1>13 DEF Next

LEMMA Invariance == Spec => []IInv
  BY InitIInv, NextIInv, PTL DEF Spec

(* The datacenter never stores a key that the server has not confirmed, nor a
   key under the id of another one, however many restarts come between the last
   answer and the task that installs the key. *)
THEOREM AlwaysConfirmed == Spec => []KeyConfirmed
<1>1. IInv => KeyConfirmed
  BY DEF IInv
<1>2. QED
  BY <1>1, Invariance, PTL

(* The exchange is well formed, the task of onHandshakeComplete finds its
   object, and a client that waits has its request or the answer under way, for
   any number of restarts, bad and repeated answers. *)
THEOREM AlwaysSound == Spec => []ExchangeSound
<1>1. IInv => NoDanglingTask
  BY DEF IInv, InstallFinds, NoDanglingTask, Complete, Elements
<1>2. IInv => NotStalled
  BY DEF IInv, Moving, Waiting, UnderWay, NotStalled, Elements
<1>3. IInv => ExchangeSound
  BY <1>1, <1>2 DEF IInv, ExchangeSound
<1>4. QED
  BY <1>3, Invariance, PTL
=============================================================================
