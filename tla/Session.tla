------------------------------ MODULE Session -------------------------------
(***************************************************************************)
(* The session of a connection (ConnectionSession.cpp): which messages of   *)
(* the server were processed, which have to be confirmed, and how          *)
(* onConnectionDataReceived and processServerResponse                      *)
(* (ConnectionsManager.cpp) use it, against a server that sends a message   *)
(* again until it is confirmed and a connection that loses what is on its   *)
(* way in both directions.                                                 *)
(***************************************************************************)
EXTENDS Integers, Sequences, FiniteSets

CONSTANTS
    Limit,      \* more processed ids than this are pruned: 300
    Prune,      \* so many at a time: 100
    Unparsed,   \* ids of the messages this library has no constructor for
    MaxId,      \* bound on message ids
    MaxFlight,  \* bound on packets on their way, each way
    MaxDrops,   \* bound on lost connections
    MaxResets   \* bound on bad_msg_notifications

ASSUME SessionAssumption ==
    /\ Limit \in Nat /\ Prune \in 1..Limit
    /\ MaxId \in Nat /\ Unparsed \subseteq 1..MaxId
    /\ MaxFlight \in Nat /\ MaxDrops \in Nat /\ MaxResets \in Nat

VARIABLES
    push,       \* it is a push connection, which confirms at once
    processed,  \* processedMessageIds
    minId,      \* minProcessedMessageId
    confirm,    \* messagesIdsForConfirmation
    session,    \* sessionId, counted
    delivered,  \* how often a message was handed on (0, 1, or more)
    seen,       \* every id that was ever processed
    toClient,   \* packets on their way to the client
    toServer,   \* confirmations on their way to the server
    lastId,     \* last id used by the server
    unacked,    \* messages the server has no confirmation of
    acked,      \* ids that were ever confirmed
    serverSession, drops, resets

client == <<processed, minId, confirm, session, delivered, seen>>
vars == <<push, client, toClient, toServer, lastId, unacked, acked, serverSession, drops, resets>>

(* Ids of the server are odd. *)
Ids == {i \in 1..MaxId : i % 2 = 1}

(* A packet has an id of its own; a container holds messages with theirs. *)
Packets ==
    [kind : {"plain", "container", "bad_msg"}, session : 0..MaxResets, id : Ids,
     inner : Seq(Ids)]

TypeOK ==
    /\ push \in BOOLEAN
    /\ processed \subseteq Ids
    /\ Cardinality(processed) <= Limit + 1
    /\ minId \in Ids \cup {0}
    /\ confirm \subseteq Ids
    /\ session \in 0..MaxResets
    /\ delivered \in [Ids -> 0..2]
    /\ seen \subseteq Ids
    /\ toClient \in Seq(Packets) /\ Len(toClient) <= MaxFlight
    /\ toServer \in Seq(SUBSET Ids) /\ Len(toServer) <= MaxFlight
    /\ lastId \in 0..MaxId
    /\ unacked \subseteq Ids
    /\ acked \subseteq Ids
    /\ serverSession \in 0..MaxResets
    /\ drops \in 0..MaxDrops /\ resets \in 0..MaxResets

Init ==
    /\ push \in BOOLEAN
    /\ processed = {} /\ minId = 0 /\ confirm = {} /\ session = 0
    /\ delivered = [i \in Ids |-> 0]
    /\ seen = {}
    /\ toClient = <<>> /\ toServer = <<>>
    /\ lastId = 0 /\ unacked = {} /\ acked = {}
    /\ serverSession = 0 /\ drops = 0 /\ resets = 0

----------------------------------------------------------------------------
(* The state of the session as a record, so that the steps of a handler
   compose. *)
Current == [processed |-> processed, min |-> minId, confirm |-> confirm,
            session |-> session, delivered |-> delivered, seen |-> seen]

Becomes(s) ==
    /\ processed' = s.processed /\ minId' = s.min /\ confirm' = s.confirm
    /\ session' = s.session /\ delivered' = s.delivered /\ seen' = s.seen

isMessageIdProcessed(s, id) ==
    \/ id % 2 = 0
    \/ s.min # 0 /\ id < s.min
    \/ id \in s.processed

(* The n smallest members of S, and the smallest of all. *)
Smallest(n, S) == {x \in S : Cardinality({y \in S : y < x}) < n}
Least(S) == CHOOSE x \in S : \A y \in S : x <= y

(* Wrong variants of addProcessedMessageId, for the mutation runs: the bound
   below which ids count as processed is not moved; it is moved although the
   list is not full. *)
addProcessedKeepingMin(s, id) ==
    LET full == Cardinality(s.processed) > Limit
        kept == IF full THEN s.processed \ Smallest(Prune, s.processed) ELSE s.processed
    IN  [s EXCEPT !.processed = kept \cup {id}, !.seen = @ \cup {id}]

addProcessedMovingMin(s, id) ==
    LET full == Cardinality(s.processed) > Limit
        kept == IF full THEN s.processed \ Smallest(Prune, s.processed) ELSE s.processed
    IN  [s EXCEPT !.processed = kept \cup {id}, !.seen = @ \cup {id},
                  !.min = Least(kept \cup {id})]

addProcessedMessageId(s, id) ==
    LET full == Cardinality(s.processed) > Limit
        kept == IF full THEN s.processed \ Smallest(Prune, s.processed) ELSE s.processed
    IN  [s EXCEPT !.processed = kept \cup {id}, !.seen = @ \cup {id},
                  !.min = IF full THEN Least(kept) ELSE @]

(* Wrong variant: nothing is confirmed. *)
addNothingToConfirm(s, id) == s

addMessageToConfirm(s, id) ==
    IF id \in s.processed THEN s ELSE [s EXCEPT !.confirm = @ \cup {id}]

(* processServerResponse or onUnparsedMessageReceived: the message reaches
   its receiver. *)
HandedOn(s, id) == [s EXCEPT !.delivered[id] = IF @ < 2 THEN @ + 1 ELSE 2]

recreateSession(s) ==
    [s EXCEPT !.processed = {}, !.confirm = {}, !.session = @ + 1]

(* The loop over a container: one message. *)
Inner(s, id) ==
    LET t == addMessageToConfirm(s, id) IN
    IF isMessageIdProcessed(t, id) THEN t
    ELSE addProcessedMessageId(HandedOn(t, id), id)

InnerAll(s, ids) ==
    LET run[n \in 0..Len(ids)] == IF n = 0 THEN s ELSE Inner(run[n - 1], ids[n])
    IN  run[Len(ids)]

(* onConnectionDataReceived, after the packet was decrypted.  A message that
   cannot be parsed is handed on and not remembered as processed.
   recreateSessions leaves the session of the push connection as it is.  A
   bad_msg_notification inside a container is left out. *)
Received(s, p) ==
    CASE p.kind = "plain" ->
             LET t == addMessageToConfirm(s, p.id) IN
             IF isMessageIdProcessed(s, p.id) THEN t
             ELSE IF p.id \in Unparsed THEN HandedOn(t, p.id)
             ELSE addProcessedMessageId(HandedOn(t, p.id), p.id)
      [] p.kind = "container" ->
             IF isMessageIdProcessed(s, p.id) THEN s
             ELSE addProcessedMessageId(InnerAll(s, p.inner), p.id)
      [] p.kind = "bad_msg" ->
             IF isMessageIdProcessed(s, p.id) THEN s
             ELSE addProcessedMessageId(IF push THEN s ELSE recreateSession(s), p.id)

(* The packets after which sendMessagesToConnectionWithConfirmation is called
   at once: those that were processed before, and those of a push connection. *)
ConfirmsAtOnce(s, p) ==
    \/ isMessageIdProcessed(s, p.id)
    \/ push /\ ~(p.kind = "plain" /\ p.id \in Unparsed)

(* generateConfirmationRequest. *)
Confirmed(s) ==
    /\ Becomes([s EXCEPT !.confirm = {}])
    /\ toServer' = IF s.confirm = {} THEN toServer ELSE Append(toServer, s.confirm)

Receive ==
    /\ toClient # <<>>
    /\ \E p \in {Head(toClient)}, s \in {Received(Current, Head(toClient))} :
          IF p.session # session THEN UNCHANGED <<client, toServer>>
          ELSE IF ConfirmsAtOnce(Current, p)
               THEN Len(toServer) < MaxFlight /\ Confirmed(s)
               ELSE Becomes(s) /\ UNCHANGED toServer
    /\ toClient' = Tail(toClient)
    /\ UNCHANGED <<push, lastId, unacked, acked, serverSession, drops, resets>>

(* processRequestQueue sends what has to be confirmed, with requests or
   alone. *)
SendConfirmation ==
    /\ confirm # {}
    /\ Len(toServer) < MaxFlight
    /\ Confirmed(Current)
    /\ UNCHANGED <<push, toClient, lastId, unacked, acked, serverSession, drops, resets>>

----------------------------------------------------------------------------
(* The server. *)
NextId == IF lastId = 0 THEN 1 ELSE lastId + 2

Packet(kind, id, inner) ==
    [kind |-> kind, session |-> serverSession, id |-> id, inner |-> inner]

Put(p) == Len(toClient) < MaxFlight /\ toClient' = Append(toClient, p)

(* A new message, alone or in a container, maybe behind one that is sent
   again. *)
ServerSend ==
    /\ unacked' = unacked \cup {NextId}
    /\ \/ /\ NextId <= MaxId
          /\ lastId' = NextId
          /\ Put(Packet("plain", NextId, <<>>))
       \/ /\ NextId + 2 <= MaxId
          /\ lastId' = NextId + 2
          /\ \E ids \in {<<NextId>>} \cup {<<i, NextId>> : i \in unacked} :
               Put(Packet("container", NextId + 2, ids))
    /\ UNCHANGED <<push, client, toServer, acked, serverSession, drops, resets>>

ServerResend ==
    /\ toClient = <<>>
    /\ \E i \in unacked : Put(Packet("plain", i, <<>>))
    /\ UNCHANGED <<push, client, toServer, lastId, unacked, acked, serverSession, drops, resets>>

ServerComplain ==
    /\ resets < MaxResets
    /\ NextId <= MaxId
    /\ resets' = resets + 1
    /\ lastId' = NextId
    /\ Put(Packet("bad_msg", NextId, <<>>))
    /\ UNCHANGED <<push, client, toServer, unacked, acked, serverSession, drops>>

ServerGetsConfirmation ==
    /\ toServer # <<>>
    /\ toServer' = Tail(toServer)
    /\ acked' = acked \cup Head(toServer)
    /\ unacked' = unacked \ Head(toServer)
    /\ UNCHANGED <<push, client, toClient, lastId, serverSession, drops, resets>>

(* The first message of a new session reaches the server. *)
ServerNewSession ==
    /\ serverSession # session
    /\ serverSession' = session
    /\ unacked' = {}
    /\ UNCHANGED <<push, client, toClient, toServer, lastId, acked, drops, resets>>

(* The connection is lost with what is on its way; the session goes on with
   the next one. *)
Drop ==
    /\ drops < MaxDrops
    /\ drops' = drops + 1
    /\ toClient' = <<>>
    /\ toServer' = <<>>
    /\ UNCHANGED <<push, client, lastId, unacked, acked, serverSession, resets>>

Next ==
    \/ Receive \/ SendConfirmation
    \/ ServerSend \/ ServerResend \/ ServerComplain
    \/ ServerGetsConfirmation \/ ServerNewSession \/ Drop

Spec == Init /\ [][Next]_vars

(* What is on its way arrives, the client confirms with every ping at the
   latest, and the server sends again what was not confirmed. *)
Fairness ==
    /\ WF_vars(Receive) /\ WF_vars(SendConfirmation)
    /\ WF_vars(ServerResend) /\ WF_vars(ServerGetsConfirmation)
    /\ WF_vars(ServerNewSession)

FairSpec == Spec /\ Fairness

----------------------------------------------------------------------------
(* A message that this library parses is processed at most once, however
   often it is sent again, alone or in containers, and although its id is
   forgotten when the list is pruned. *)
ParsedOnce == \A i \in Ids \ Unparsed : delivered[i] <= 1

(* The id of a processed message is either still in the list or below
   minProcessedMessageId, within one session: nothing falls between the list
   and the bound when the list is pruned. *)
NothingForgotten ==
    session = 0 => \A i \in seen : i \in processed \/ i < minId

(* The client confirms a message that it never processed only when it is
   older than the window: at least Limit + 1 - Prune newer messages were
   processed. *)
ConfirmedWasProcessed ==
    \A i \in acked : delivered[i] > 0 \/ Cardinality({j \in seen : j > i}) >= Limit + 1 - Prune

(* The window of processed messages keeps what it has to: addProcessedMessageId
   prunes the list without forgetting a message, and the messages that the
   window refuses, and that are confirmed all the same, are the old ones. *)
WindowKept == TypeOK /\ NothingForgotten /\ ConfirmedWasProcessed

(* As long as no connection is lost, every message is confirmed in the end,
   on a push connection, which keeps its session, and on any other, parsed or
   not, and also when the session is made anew. *)
ConfirmedUnlessLost ==
    \A i \in Ids : i \in unacked ~> (i \notin unacked \/ drops > 0)
=============================================================================
