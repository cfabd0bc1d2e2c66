---------------------------- MODULE MessageIds ------------------------------
(***************************************************************************)
(* generateMessageId and the clock it uses (ConnectionsManager.cpp): ids    *)
(* are made from the wall clock, corrected by timeDifference, and kept      *)
(* above lastOutgoingMessageId.  The answers of the server change both: a   *)
(* pong, a bad_msg_notification, a bad_server_salt, the end of a handshake. *)
(* The counter is one for the whole client, while a session belongs to a    *)
(* connection of a datacenter, and that of the push connection is neither   *)
(* made anew by recreateSessions nor by a restart.                          *)
(***************************************************************************)
EXTENDS Integers

CONSTANTS
    Datacenters,   \* the datacenters with sessions
    Unit,          \* ids per unit of time: 2^32 per second
    MaxDelay,      \* time an answer of the server may be under way
    MaxTime,       \* bound on the clocks
    MaxId,         \* bound on ids
    MaxChanges     \* bound on answers, calls and restarts

ASSUME MessageIdsAssumption ==
    /\ Unit \in Nat \ {0}
    /\ {MaxDelay, MaxTime, MaxId, MaxChanges} \subseteq Nat

VARIABLES
    clock,     \* getCurrentTimeMillis, which the user can set
    server,    \* the time of the server
    diff,      \* timeDifference
    saved,     \* timeDifference in the configuration file
    last,      \* lastOutgoingMessageId
    top,       \* history: per session, the last id used in it, 0 for none
    setBack,   \* history: the sessions that outlived a reset of last and have
               \* not used an id since
    synced,    \* history: the server reset last and set diff, and nobody has
               \* touched the clock since
    burst,     \* history: the ids made since then
    changes    \* answers, calls and restarts so far

vars == <<clock, server, diff, saved, last, top, setBack, synced, burst, changes>>

(* Per datacenter the session of the push connection, whose id is
   pushSessionId, and one of the others. *)
Sessions == Datacenters \X {"push", "other"}

TypeOK ==
    /\ clock \in 0..MaxTime
    /\ server \in 1..MaxTime
    /\ diff \in Int /\ saved \in Int
    /\ last \in Nat
    /\ top \in [Sessions -> Nat]
    /\ setBack \subseteq Sessions
    /\ synced \in BOOLEAN
    /\ burst \in Nat
    /\ changes \in 0..MaxChanges

Init ==
    /\ clock \in 1..MaxTime
    /\ server \in 1..MaxTime
    /\ diff = 0 /\ saved = 0
    /\ last = 0
    /\ top = [s \in Sessions |-> 0]
    /\ setBack = {}
    /\ synced = FALSE
    /\ burst = 0
    /\ changes = 0

----------------------------------------------------------------------------
(* The next multiple of four. *)
RoundUp(x) == x + ((4 - (x % 4)) % 4)

FromClock == (clock + diff) * Unit

(* Wrong variant, for the mutation runs: an id equal to the last one is not
   moved. *)
RepeatedId == RoundUp(IF FromClock < last THEN last + 1 ELSE FromClock)

(* generateMessageId. *)
NewId == RoundUp(IF FromClock <= last THEN last + 1 ELSE FromClock)

Made ==
    /\ NewId <= MaxId
    /\ last' = NewId
    /\ burst' = IF synced THEN burst + 1 ELSE burst
    /\ UNCHANGED <<clock, server, diff, saved, synced, changes>>

(* A message of a session: a request, a container, a confirmation, a ping. *)
Generate(s) ==
    /\ Made
    /\ top' = [top EXCEPT ![s] = NewId]
    /\ setBack' = setBack \ {s}

(* A message of a handshake has no session. *)
GenerateForHandshake == Made /\ UNCHANGED <<top, setBack>>

----------------------------------------------------------------------------
(* Time passes, and the clock of the device is set. *)
TimePasses ==
    /\ clock < MaxTime /\ server < MaxTime
    /\ clock' = clock + 1
    /\ server' = server + 1
    /\ UNCHANGED <<diff, saved, last, top, setBack, synced, burst, changes>>

Change ==
    /\ changes < MaxChanges
    /\ changes' = changes + 1

ClockIsSet ==
    /\ Change
    /\ clock' \in (0..MaxTime) \ {clock}
    /\ synced' = FALSE
    /\ UNCHANGED <<server, diff, saved, last, top, setBack, burst>>

(* The time of an answer: its id is made from the clock of the server when it
   is sent, and is 0 for a message inside a container. *)
Delays == {late \in 0..MaxDelay : late < server}
TimeOf(inside, late) == IF inside THEN 0 ELSE server - late

(* recreateSessions: every connection of the datacenters but that for pushes. *)
Recreated(ds) == ds \X {"other"}
recreateSessions(ds) == top' = [s \in Sessions |-> IF s \in Recreated(ds) THEN 0 ELSE top[s]]

(* The counter is reset under the sessions that go on and have used ids. *)
SetBackBut(ss) == setBack' = {s \in Sessions \ ss : top[s] # 0}

----------------------------------------------------------------------------
(* Only the pong of the last ping, outside a container, corrects the clock. *)
OnPong(late) ==
    /\ Change
    /\ diff' = TimeOf(FALSE, late) - clock
    /\ UNCHANGED <<clock, server, saved, last, top, setBack, synced, burst>>

(* bad_msg_notification with code 16, 17, 19, 32, 33 or 64: the counter is
   reset and the sessions of the datacenter are made anew.
   (OnBadMsgKeepingCounter varies it, for the mutation runs.) *)
OnBadMsgKeepingCounter(d, inside, late) ==
    /\ Change
    /\ diff' = TimeOf(inside, late) - clock
    /\ saved' = diff'
    /\ recreateSessions({d})
    /\ synced' = ~inside
    /\ burst' = 0
    /\ UNCHANGED <<clock, server, last, setBack>>

OnBadMsg(d, inside, late) ==
    /\ Change
    /\ diff' = TimeOf(inside, late) - clock
    /\ saved' = diff'
    /\ last' = 0
    /\ recreateSessions({d})
    /\ SetBackBut(Recreated({d}))
    /\ synced' = ~inside
    /\ burst' = 0
    /\ UNCHANGED <<clock, server>>

(* bad_server_salt: lastOutgoingMessageId becomes the truth value of a
   comparison, 0 or 1; inside a container nothing is corrected. *)
OnBadServerSalt(inside, late) ==
    /\ Change
    /\ IF inside THEN UNCHANGED <<diff, last, setBack, synced, burst>>
       ELSE /\ diff' = TimeOf(FALSE, late) - clock
            /\ last' = IF last # 0 THEN 0 ELSE 1
            /\ SetBackBut({})
            /\ synced' = TRUE
            /\ burst' = 0
    /\ saved' = diff'
    /\ UNCHANGED <<clock, server, top>>

(* onDatacenterHandshakeComplete, for the current datacenter or the one of a
   move: the difference was computed by the clock of an earlier moment, and is
   assigned after the configuration was saved.  ds is the datacenter, or empty
   when its session is of the other type (media or not) than the handshake. *)
OnHandshakeComplete(ds, late, earlier) ==
    /\ Change
    /\ saved' = diff
    /\ diff' = TimeOf(FALSE, late) - earlier
    /\ recreateSessions(ds)
    /\ setBack' = setBack \ Recreated(ds)
    /\ synced' = FALSE
    /\ UNCHANGED <<clock, server, last, burst>>

(* cleanUp, and authorizeOnMovingDatacenter for the datacenter of the move. *)
CleanUp ==
    /\ Change
    /\ recreateSessions(Datacenters)
    /\ setBack' = setBack \ Recreated(Datacenters)
    /\ saved' = diff
    /\ UNCHANGED <<clock, server, diff, last, synced, burst>>

AuthorizeOnMovingDatacenter(d) ==
    /\ Change
    /\ recreateSessions({d})
    /\ setBack' = setBack \ Recreated({d})
    /\ UNCHANGED <<clock, server, diff, saved, last, synced, burst>>

(* saveConfig, called for other reasons. *)
SaveConfig ==
    /\ Change
    /\ saved' = diff
    /\ UNCHANGED <<clock, server, diff, last, top, setBack, synced, burst>>

(* The process starts again: the difference and the id of the push session are
   read from the file, the counter starts at 0. *)
Restart ==
    /\ Change
    /\ diff' = saved
    /\ last' = 0
    /\ recreateSessions(Datacenters)
    /\ SetBackBut(Recreated(Datacenters))
    /\ synced' = (synced /\ saved = diff)
    /\ burst' = 0
    /\ UNCHANGED <<clock, server, saved>>

Next ==
    \/ \E s \in Sessions : Generate(s)
    \/ GenerateForHandshake
    \/ TimePasses \/ ClockIsSet \/ CleanUp \/ SaveConfig \/ Restart
    \/ \E d \in Datacenters : AuthorizeOnMovingDatacenter(d)
    \/ \E late \in Delays :
          \/ OnPong(late)
          \/ \E inside \in BOOLEAN : OnBadServerSalt(inside, late)
          \/ \E d \in Datacenters, inside \in BOOLEAN : OnBadMsg(d, inside, late)
          \/ \E ds \in {{}} \cup {{d} : d \in Datacenters}, earlier \in 0..MaxTime :
                OnHandshakeComplete(ds, late, earlier)

Spec == Init /\ [][Next]_vars

----------------------------------------------------------------------------
(* Within a session every message has a greater id than the one before,
   however the clock is set and the server corrects it, but for the first
   message after the counter was reset under the session: by a bad_server_salt,
   by a bad_msg_notification that leaves the session (one of another datacenter,
   and any one for the push session), or, for the push session, by a restart.
   The server refuses a message with a smaller id, and two requests with one id
   would take each other's answer. *)
IdsIncrease ==
    [][\A s \in Sessions \ setBack : Generate(s) => top'[s] > top[s]]_vars

(* The same without the exception for the sessions that the client makes anew
   where it resets the counter, as generateMessageId is written to ensure. *)
IdsAlwaysIncrease ==
    [][\A s \in Recreated(Datacenters) : Generate(s) => top'[s] > top[s]]_vars

(* A bad_msg_notification or a bad_server_salt brings the client back to the
   time of the server, wherever its clock and its counter were before: until
   the clock is set again, or a handshake that began earlier ends, every new id
   lies between the time of the server less the delay of an answer and the time
   of the server plus four for each id made since.  Inside a container the time
   is computed from 0 and nothing of this holds. *)
IdsFollowServer ==
    [][synced /\ ((\E s \in Sessions : Generate(s)) \/ GenerateForHandshake)
          => last' \in ((server - MaxDelay) * Unit)..(server * Unit + 4 * burst')]_vars
=============================================================================
