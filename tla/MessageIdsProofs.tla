------------------------- MODULE MessageIdsProofs ---------------------------
(* Proofs about MessageIds, for any datacenters, clocks, delays, bounds and
   number of changes. *)
EXTENDS MessageIds, TLAPS

LEMMA Constants ==
    /\ Unit \in Nat /\ Unit >= 1
    /\ MaxDelay \in Nat /\ MaxTime \in Nat /\ MaxId \in Nat /\ MaxChanges \in Nat
  BY MessageIdsAssumption DEF MessageIdsAssumption

(* Rounding gives a number that is not smaller and less than four greater. *)
LEMMA RoundUpFacts ==
    ASSUME NEW x \in Nat
    PROVE  /\ RoundUp(x) \in Nat
           /\ x <= RoundUp(x) /\ RoundUp(x) <= x + 3
  BY DEF RoundUp

(* A new id is above the last one and not before the clock, and less than four
   above the greater of the two. *)
LEMMA NewIdFacts ==
    ASSUME TypeOK
    PROVE  /\ NewId \in Nat /\ FromClock \in Int
           /\ NewId > last /\ NewId >= FromClock
           /\ NewId <= last + 4 \/ NewId <= FromClock + 3
<1> DEFINE x == IF FromClock <= last THEN last + 1 ELSE FromClock
<1>1. FromClock \in Int
  BY Constants DEF TypeOK, FromClock
<1>2. x \in Nat /\ x > last /\ x >= FromClock /\ (x = last + 1 \/ x = FromClock)
  BY <1>1 DEF TypeOK
<1>3. NewId = RoundUp(x)
  BY DEF NewId
<1> HIDE DEF x
<1>4. RoundUp(x) \in Nat /\ x <= RoundUp(x) /\ RoundUp(x) <= x + 3
  BY <1>2, RoundUpFacts
<1> QED
  BY <1>1, <1>2, <1>3, <1>4 DEF TypeOK

(* Later times have greater ids. *)
LEMMA IdsOfTimes ==
    ASSUME NEW a \in Int, NEW b \in Int, a <= b
    PROVE  a * Unit <= b * Unit
<1>1. (b - a) * Unit >= 0
  BY Constants
<1>2. (b - a) * Unit = b * Unit - a * Unit
  BY Constants
<1> QED
  BY <1>1, <1>2, Constants

----------------------------------------------------------------------------
(* lastOutgoingMessageId bounds every id of a session that did not outlive a
   reset of the counter.  IdsIncrease compares two ids of one session, while a
   step compares a new id with the counter only: this relates the two. *)
LastBounds == \A s \in Sessions \ setBack : top[s] <= last

(* While the client follows the server, the corrected clock is late by no more
   than an answer was, and the counter is ahead by the ids that were made. *)
Follows ==
    synced => /\ server - MaxDelay <= clock + diff /\ clock + diff <= server
              /\ last <= server * Unit + 4 * burst

IInv == TypeOK /\ LastBounds /\ Follows

LEMMA InitIInv == Init => IInv
<1> SUFFICES ASSUME Init PROVE IInv
  OBVIOUS
<1>1. top = [s \in Sessions |-> 0] /\ last = 0 /\ synced = FALSE
  BY DEF Init
<1>2. top \in [Sessions -> Nat]
  BY <1>1
<1>3. clock \in 0..MaxTime /\ server \in 1..MaxTime /\ changes \in 0..MaxChanges
  BY Constants DEF Init
<1>4. TypeOK
  <2>1. diff \in Int /\ saved \in Int /\ last \in Nat /\ burst \in Nat /\ setBack \subseteq Sessions
    BY DEF Init
  <2>2. synced \in BOOLEAN
    BY <1>1
  <2> QED
    BY <1>2, <1>3, <2>1, <2>2 DEF TypeOK
<1>5. LastBounds /\ Follows
  BY <1>1 DEF LastBounds, Follows
<1> QED
  BY <1>4, <1>5 DEF IInv

(* What recreateSessions leaves of the ids of a session. *)
LEMMA Recreation ==
    ASSUME TypeOK, NEW ds, recreateSessions(ds)
    PROVE  /\ top' \in [Sessions -> Nat]
           /\ \A s \in Sessions : top'[s] = IF s \in Recreated(ds) THEN 0 ELSE top[s]
  BY DEF TypeOK, recreateSessions

(* A session that is made anew has no ids, and the bound on the others stays. *)
LEMMA RecreatedBounds ==
    ASSUME TypeOK, LastBounds, NEW ds, recreateSessions(ds),
           setBack' = setBack \ Recreated(ds), last' = last
    PROVE  setBack' \subseteq Sessions /\ LastBounds'
<1>1. ASSUME NEW s \in Sessions, s \notin setBack' PROVE top'[s] <= last'
  <2>1. CASE s \in Recreated(ds)
    BY <2>1, Recreation DEF TypeOK
  <2>2. CASE s \notin Recreated(ds)
    <3>1. s \in Sessions \ setBack
      BY <1>1, <2>2
    <3> QED
      BY <2>2, <3>1, Recreation DEF LastBounds
  <2> QED
    BY <2>1, <2>2
<1>2. setBack' \subseteq Sessions
  BY DEF TypeOK
<1> QED
  BY <1>1, <1>2 DEF LastBounds

(* A reset of the counter is recorded for the sessions it leaves. *)
LEMMA ResetBounds ==
    ASSUME TypeOK, NEW ss, SetBackBut(ss), last' \in Nat,
           \A s \in Sessions : top'[s] = IF s \in ss THEN 0 ELSE top[s]
    PROVE  setBack' \subseteq Sessions /\ LastBounds'
<1>1. setBack' = {s \in Sessions \ ss : top[s] # 0}
  BY DEF SetBackBut
<1>2. ASSUME NEW s \in Sessions, s \notin setBack' PROVE top'[s] <= last'
  <2>1. top'[s] = 0
    BY <1>1, <1>2
  <2> QED
    BY <2>1
<1> QED
  BY <1>1, <1>2 DEF LastBounds

(* The difference that an answer gives. *)
LEMMA Corrected ==
    ASSUME TypeOK, NEW inside \in BOOLEAN, NEW late \in Delays
    PROVE  /\ TimeOf(inside, late) - clock \in Int
           /\ ~inside => /\ server - MaxDelay <= clock + (TimeOf(inside, late) - clock)
                         /\ clock + (TimeOf(inside, late) - clock) <= server
<1>1. late \in Nat /\ late <= MaxDelay
  BY Constants DEF Delays
<1>2. clock \in Int /\ server \in Int
  BY Constants DEF TypeOK
<1>3. CASE inside
  BY <1>2, <1>3 DEF TimeOf
<1>4. CASE ~inside
  <2>1. TimeOf(inside, late) = server - late
    BY <1>4 DEF TimeOf
  <2> QED
    BY <1>1, <1>2, <2>1, Constants
<1> QED
  BY <1>3, <1>4

LEMMA Changed == ASSUME TypeOK, Change PROVE changes' \in 0..MaxChanges
  BY Constants DEF TypeOK, Change

----------------------------------------------------------------------------
(* What a new id does. *)
LEMMA MadeFacts ==
    ASSUME IInv, Made
    PROVE  /\ last' \in Nat /\ last' > last /\ burst' \in Nat
           /\ Follows'
           /\ synced => last' \in ((server - MaxDelay) * Unit)..(server * Unit + 4 * burst')
<1>1. NewId \in Nat /\ FromClock \in Int /\ NewId > last /\ NewId >= FromClock
      /\ (NewId <= last + 4 \/ NewId <= FromClock + 3)
  BY NewIdFacts DEF IInv
<1>2. last' = NewId /\ UNCHANGED <<clock, server, diff, synced>>
  BY DEF Made
<1>3. burst \in Nat /\ server \in Int /\ clock \in Int /\ diff \in Int /\ last \in Nat
  BY Constants DEF IInv, TypeOK
<1>4. burst' \in Nat
  BY <1>3 DEF Made
<1>5. ASSUME synced
      PROVE  /\ Follows'
             /\ last' \in ((server - MaxDelay) * Unit)..(server * Unit + 4 * burst')
  <2>1. burst' = burst + 1
    BY <1>5 DEF Made
  <2>2. server - MaxDelay <= clock + diff /\ clock + diff <= server
        /\ last <= server * Unit + 4 * burst
    BY <1>5 DEF IInv, Follows
  <2>3. FromClock <= server * Unit
    BY <1>3, <2>2, IdsOfTimes DEF FromClock
  <2>4. (server - MaxDelay) * Unit <= FromClock
    <3>1. server - MaxDelay \in Int /\ clock + diff \in Int
      BY <1>3, Constants
    <3> QED
      BY <2>2, <3>1, IdsOfTimes DEF FromClock
  <2>5. server * Unit \in Int /\ (server - MaxDelay) * Unit \in Int
    BY <1>3, Constants
  <2> DEFINE S == server * Unit
  <2> DEFINE L == (server - MaxDelay) * Unit
  <2>6. S \in Int /\ L \in Int /\ FromClock <= S /\ L <= FromClock /\ last <= S + 4 * burst
    BY <2>2, <2>3, <2>4, <2>5
  <2> HIDE DEF S, L
  <2>7. L <= NewId /\ NewId <= S + 4 * (burst + 1)
    BY <1>1, <1>3, <2>6
  <2>8. NewId \in L..(S + 4 * burst')
    BY <1>1, <1>3, <2>1, <2>6, <2>7
  <2> QED
    BY <1>2, <2>1, <2>2, <2>7, <2>8 DEF S, L, Follows
<1>6. CASE ~synced
  BY <1>1, <1>2, <1>4, <1>6 DEF Follows
<1> QED
  BY <1>1, <1>2, <1>4, <1>5, <1>6

LEMMA MadeKeeps ==
    ASSUME IInv, Made, top' \in [Sessions -> Nat], setBack' \subseteq Sessions
    PROVE  TypeOK'
<1>1. last' \in Nat /\ burst' \in Nat
  BY MadeFacts
<1>2. UNCHANGED <<clock, server, diff, saved, synced, changes>>
  BY DEF Made
<1> QED
  BY <1>1, <1>2 DEF IInv, TypeOK

LEMMA StepGenerate ==
    ASSUME IInv, NEW s \in Sessions, Generate(s)
    PROVE  IInv' /\ (s \notin setBack => top'[s] > top[s])
<1>1. Made /\ last' = NewId /\ top' = [top EXCEPT ![s] = NewId] /\ setBack' = setBack \ {s}
  BY DEF Generate, Made
<1>2. last' \in Nat /\ last' > last /\ Follows'
  BY <1>1, MadeFacts
<1>3. top \in [Sessions -> Nat] /\ setBack \subseteq Sessions /\ last \in Nat
  BY DEF IInv, TypeOK
<1>4. top' \in [Sessions -> Nat] /\ setBack' \subseteq Sessions
  BY <1>1, <1>2, <1>3
<1>5. TypeOK'
  BY <1>1, <1>4, MadeKeeps
<1>6. ASSUME NEW t \in Sessions, t \notin setBack' PROVE top'[t] <= last'
  <2>1. CASE t = s
    BY <1>1, <1>2, <1>3, <2>1
  <2>2. CASE t # s
    <3>1. t \in Sessions \ setBack /\ top'[t] = top[t]
      BY <1>1, <1>3, <1>6, <2>2
    <3>2. top[t] <= last
      BY <3>1 DEF IInv, LastBounds
    <3> QED
      BY <1>2, <1>3, <3>1, <3>2
  <2> QED
    BY <2>1, <2>2
<1>7. ASSUME s \notin setBack PROVE top'[s] > top[s]
  <2>1. top[s] <= last
    BY <1>7 DEF IInv, LastBounds
  <2> QED
    BY <1>1, <1>2, <1>3, <2>1
<1> QED
  BY <1>2, <1>5, <1>6, <1>7 DEF IInv, LastBounds

LEMMA StepHandshake ==
    ASSUME IInv, GenerateForHandshake
    PROVE  IInv'
<1>1. Made /\ UNCHANGED <<top, setBack>>
  BY DEF GenerateForHandshake
<1>2. last' \in Nat /\ last' > last /\ Follows'
  BY <1>1, MadeFacts
<1>3. top \in [Sessions -> Nat] /\ setBack \subseteq Sessions /\ last \in Nat
  BY DEF IInv, TypeOK
<1>4. TypeOK'
  BY <1>1, <1>3, MadeKeeps
<1>5. ASSUME NEW t \in Sessions \ setBack PROVE top[t] <= last'
  <2>1. top[t] <= last
    BY DEF IInv, LastBounds
  <2> QED
    BY <1>2, <1>3, <2>1
<1> QED
  BY <1>1, <1>2, <1>4, <1>5 DEF IInv, LastBounds

----------------------------------------------------------------------------
LEMMA StepTimePasses == ASSUME IInv, TimePasses PROVE IInv'
<1>1. UNCHANGED <<diff, saved, last, top, setBack, synced, burst, changes>>
      /\ clock' = clock + 1 /\ server' = server + 1 /\ clock < MaxTime /\ server < MaxTime
  BY DEF TimePasses
<1>2. TypeOK'
  BY <1>1, Constants DEF IInv, TypeOK
<1>3. LastBounds'
  BY <1>1 DEF IInv, LastBounds
<1>4. clock \in Int /\ server \in Int /\ diff \in Int /\ last \in Int /\ burst \in Int
  BY Constants DEF IInv, TypeOK
<1>5. server * Unit <= (server + 1) * Unit /\ server * Unit \in Int /\ (server + 1) * Unit \in Int
  BY <1>4, IdsOfTimes, Constants
<1>6. Follows'
  <2>0. CASE ~synced
    BY <1>1, <2>0 DEF Follows
  <2> SUFFICES ASSUME synced PROVE Follows'
    BY <2>0
  <2>1. server - MaxDelay <= clock + diff /\ clock + diff <= server
        /\ last <= server * Unit + 4 * burst
    BY DEF IInv, Follows
  <2> DEFINE S == server * Unit
  <2> DEFINE T == (server + 1) * Unit
  <2>2. S \in Int /\ T \in Int /\ S <= T /\ last <= S + 4 * burst
    BY <1>5, <2>1
  <2> HIDE DEF S, T
  <2>3. last <= T + 4 * burst
    BY <1>4, <2>2
  <2>4. server + 1 - MaxDelay <= clock + 1 + diff /\ clock + 1 + diff <= server + 1
    BY <1>4, <2>1, Constants
  <2>5. last' <= server' * Unit + 4 * burst'
    BY <1>1, <2>3 DEF T
  <2>6. server' - MaxDelay <= clock' + diff' /\ clock' + diff' <= server'
    BY <1>1, <1>4, <2>4, Constants
  <2> QED
    BY <2>5, <2>6 DEF Follows
<1> QED
  BY <1>2, <1>3, <1>6 DEF IInv

LEMMA StepClockIsSet == ASSUME IInv, ClockIsSet PROVE IInv'
<1>1. changes' \in 0..MaxChanges
  BY Changed DEF IInv, ClockIsSet
<1>2. TypeOK'
  BY <1>1 DEF IInv, TypeOK, ClockIsSet
<1> QED
  BY <1>2 DEF IInv, LastBounds, Follows, ClockIsSet

LEMMA StepOnPong == ASSUME IInv, NEW late \in Delays, OnPong(late) PROVE IInv'
<1>1. changes' \in 0..MaxChanges /\ diff' = TimeOf(FALSE, late) - clock
      /\ UNCHANGED <<clock, server, saved, last, top, setBack, synced, burst>>
  BY Changed DEF IInv, OnPong
<1>2. diff' \in Int /\ server - MaxDelay <= clock + diff' /\ clock + diff' <= server
  BY <1>1, Corrected DEF IInv
<1>3. TypeOK'
  BY <1>1, <1>2 DEF IInv, TypeOK
<1>4. LastBounds'
  BY <1>1 DEF IInv, LastBounds
<1>5. Follows'
  BY <1>1, <1>2 DEF IInv, Follows
<1> QED
  BY <1>3, <1>4, <1>5 DEF IInv

(* After a reset of the counter the client follows the server. *)
LEMMA ResetFollows ==
    ASSUME TypeOK, UNCHANGED <<clock, server>>, last' \in {0, 1}, burst' = 0,
           synced' => server - MaxDelay <= clock + diff' /\ clock + diff' <= server
    PROVE  Follows'
<1>1. server \in Int /\ 1 <= server
  BY Constants DEF TypeOK
<1>2. 1 * Unit <= server * Unit /\ server * Unit \in Int
  BY <1>1, IdsOfTimes, Constants
<1>3. last' <= server * Unit + 4 * 0
  BY <1>2, Constants
<1> QED
  BY <1>3 DEF Follows

LEMMA StepOnBadMsg ==
    ASSUME IInv, NEW d \in Datacenters, NEW inside \in BOOLEAN, NEW late \in Delays,
           OnBadMsg(d, inside, late)
    PROVE  IInv'
<1>1. /\ changes' \in 0..MaxChanges /\ diff' = TimeOf(inside, late) - clock /\ saved' = diff'
      /\ last' = 0 /\ burst' = 0 /\ synced' = ~inside /\ UNCHANGED <<clock, server>>
      /\ recreateSessions({d}) /\ SetBackBut(Recreated({d}))
  BY Changed DEF IInv, OnBadMsg
<1>2. diff' \in Int
      /\ (synced' => server - MaxDelay <= clock + diff' /\ clock + diff' <= server)
  BY <1>1, Corrected DEF IInv
<1>3. top' \in [Sessions -> Nat]
      /\ \A s \in Sessions : top'[s] = IF s \in Recreated({d}) THEN 0 ELSE top[s]
  BY <1>1, Recreation DEF IInv
<1>4. setBack' \subseteq Sessions /\ LastBounds'
  BY <1>1, <1>3, ResetBounds DEF IInv
<1>5. TypeOK'
  BY <1>1, <1>2, <1>3, <1>4 DEF IInv, TypeOK
<1>6. Follows'
  BY <1>1, <1>2, ResetFollows DEF IInv
<1> QED
  BY <1>4, <1>5, <1>6 DEF IInv

LEMMA StepOnBadServerSalt ==
    ASSUME IInv, NEW inside \in BOOLEAN, NEW late \in Delays, OnBadServerSalt(inside, late)
    PROVE  IInv'
<1>1. changes' \in 0..MaxChanges /\ saved' = diff' /\ UNCHANGED <<clock, server, top>>
  BY Changed DEF IInv, OnBadServerSalt
<1>2. CASE inside
  <2>1. UNCHANGED <<diff, last, setBack, synced, burst>>
    BY <1>2 DEF OnBadServerSalt
  <2> QED
    BY <1>1, <2>1 DEF IInv, TypeOK, LastBounds, Follows
<1>3. CASE ~inside
  <2>1. /\ diff' = TimeOf(FALSE, late) - clock /\ last' \in {0, 1}
        /\ SetBackBut({}) /\ synced' = TRUE /\ burst' = 0
    BY <1>3 DEF OnBadServerSalt
  <2>2. diff' \in Int /\ server - MaxDelay <= clock + diff' /\ clock + diff' <= server
    BY <2>1, Corrected DEF IInv
  <2>3. last' \in Nat /\ \A s \in Sessions : top'[s] = IF s \in {} THEN 0 ELSE top[s]
    BY <1>1, <2>1
  <2>4. setBack' \subseteq Sessions /\ LastBounds'
    BY <2>1, <2>3, ResetBounds DEF IInv
  <2>5. TypeOK'
    BY <1>1, <2>1, <2>2, <2>3, <2>4 DEF IInv, TypeOK
  <2>6. Follows'
    BY <1>1, <2>1, <2>2, ResetFollows DEF IInv
  <2> QED
    BY <2>4, <2>5, <2>6 DEF IInv
<1> QED
  BY <1>2, <1>3

LEMMA StepOnHandshakeComplete ==
    ASSUME IInv, NEW ds, NEW late \in Delays, NEW earlier \in 0..MaxTime,
           OnHandshakeComplete(ds, late, earlier)
    PROVE  IInv'
<1>1. /\ changes' \in 0..MaxChanges /\ saved' = diff /\ diff' = TimeOf(FALSE, late) - earlier
      /\ synced' = FALSE /\ UNCHANGED <<clock, server, last, burst>>
      /\ recreateSessions(ds) /\ setBack' = setBack \ Recreated(ds)
  BY Changed DEF IInv, OnHandshakeComplete
<1>2. diff' \in Int
  <2>1. late \in Int /\ server \in Int /\ earlier \in Int
    <3>1. late \in Nat
      BY Constants DEF Delays
    <3>2. server \in Int
      BY Constants DEF IInv, TypeOK
    <3>3. earlier \in Int
      BY Constants
    <3> QED
      BY <3>1, <3>2, <3>3
  <2>2. diff' = (server - late) - earlier
    BY <1>1 DEF TimeOf
  <2> QED
    BY <2>1, <2>2
<1>3. top' \in [Sessions -> Nat]
  BY <1>1, Recreation DEF IInv
<1>4. setBack' \subseteq Sessions /\ LastBounds'
  BY <1>1, RecreatedBounds DEF IInv
<1>5. TypeOK'
  BY <1>1, <1>2, <1>3, <1>4 DEF IInv, TypeOK
<1> QED
  BY <1>1, <1>4, <1>5 DEF IInv, Follows

LEMMA StepCleanUp ==
    ASSUME IInv, CleanUp \/ \E d \in Datacenters : AuthorizeOnMovingDatacenter(d)
    PROVE  IInv'
<1>1. PICK ds : recreateSessions(ds) /\ setBack' = setBack \ Recreated(ds)
  BY DEF CleanUp, AuthorizeOnMovingDatacenter
<1>2. changes' \in 0..MaxChanges /\ saved' \in {saved, diff}
      /\ UNCHANGED <<clock, server, diff, last, synced, burst>>
  BY Changed DEF IInv, CleanUp, AuthorizeOnMovingDatacenter
<1>3. top' \in [Sessions -> Nat]
  BY <1>1, Recreation DEF IInv
<1>4. setBack' \subseteq Sessions /\ LastBounds'
  BY <1>1, <1>2, RecreatedBounds DEF IInv
<1>5. TypeOK'
  BY <1>2, <1>3, <1>4 DEF IInv, TypeOK
<1>6. Follows'
  BY <1>2 DEF IInv, Follows
<1> QED
  BY <1>4, <1>5, <1>6 DEF IInv

LEMMA StepSaveConfig == ASSUME IInv, SaveConfig PROVE IInv'
<1>1. changes' \in 0..MaxChanges
  BY Changed DEF IInv, SaveConfig
<1> QED
  BY <1>1 DEF IInv, TypeOK, LastBounds, Follows, SaveConfig

LEMMA StepRestart == ASSUME IInv, Restart PROVE IInv'
<1>1. /\ changes' \in 0..MaxChanges /\ diff' = saved /\ last' = 0 /\ burst' = 0
      /\ synced' = (synced /\ saved = diff) /\ UNCHANGED <<clock, server, saved>>
      /\ recreateSessions(Datacenters) /\ SetBackBut(Recreated(Datacenters))
  BY Changed DEF IInv, Restart
<1>2. synced' => server - MaxDelay <= clock + diff' /\ clock + diff' <= server
  BY <1>1 DEF IInv, Follows
<1>3. top' \in [Sessions -> Nat]
      /\ \A s \in Sessions : top'[s] = IF s \in Recreated(Datacenters) THEN 0 ELSE top[s]
  BY <1>1, Recreation DEF IInv
<1>4. setBack' \subseteq Sessions /\ LastBounds'
  BY <1>1, <1>3, ResetBounds DEF IInv
<1>5. synced' \in BOOLEAN
  BY <1>1 DEF IInv, TypeOK
<1>6. TypeOK'
  BY <1>1, <1>3, <1>4, <1>5 DEF IInv, TypeOK
<1>7. Follows'
  BY <1>1, <1>2, ResetFollows DEF IInv
<1> QED
  BY <1>4, <1>6, <1>7 DEF IInv

(* Every step keeps the invariant. *)
LEMMA NextIInv == IInv /\ [Next]_vars => IInv'
<1> SUFFICES ASSUME IInv, [Next]_vars PROVE IInv'
  OBVIOUS
<1>1. CASE UNCHANGED vars
  BY <1>1 DEF vars, IInv, TypeOK, LastBounds, Follows
<1>2. CASE Next
  BY <1>2, StepGenerate, StepHandshake, StepTimePasses, StepClockIsSet, StepOnPong,
     StepOnBadMsg, StepOnBadServerSalt, StepOnHandshakeComplete, StepCleanUp,
     StepSaveConfig, StepRestart DEF Next
<1> QED
  BY <1>1, <1>2

LEMMA AlwaysIInv == Spec => []IInv
  BY InitIInv, NextIInv, PTL DEF Spec

----------------------------------------------------------------------------
(* The ids of a session increase from message to message, however the clock of
   the device is set and the server corrects it (generateMessageId), for any
   number of datacenters, but for the first message after a reset of the
   counter that leaves the session: a bad_server_salt, a bad_msg_notification
   of another datacenter, and for the push session every bad_msg_notification
   and every restart. *)
THEOREM SessionIdsIncrease == Spec => IdsIncrease
<1>1. IInv /\ [Next]_vars
        => [\A s \in Sessions \ setBack : Generate(s) => top'[s] > top[s]]_vars
  BY StepGenerate
<1> QED
  BY <1>1, AlwaysIInv, PTL DEF Spec, IdsIncrease

(* A bad_msg_notification or bad_server_salt that is not inside a container
   brings the ids of generateMessageId back to the time of the server, for any
   clocks and whatever the counter was before, until the clock is set or a
   handshake ends. *)
THEOREM ServerIsFollowed == Spec => IdsFollowServer
<1>1. ASSUME IInv,
             synced, (\E s \in Sessions : Generate(s)) \/ GenerateForHandshake
      PROVE  last' \in ((server - MaxDelay) * Unit)..(server * Unit + 4 * burst')
  <2>1. Made
    BY <1>1 DEF Generate, GenerateForHandshake
  <2> QED
    BY <1>1, <2>1, MadeFacts
<1>2. IInv /\ [Next]_vars
        => [synced /\ ((\E s \in Sessions : Generate(s)) \/ GenerateForHandshake)
              => last' \in ((server - MaxDelay) * Unit)..(server * Unit + 4 * burst')]_vars
  BY <1>1
<1> QED
  BY <1>2, AlwaysIInv, PTL DEF Spec, IdsFollowServer
=============================================================================
