-------------------------- MODULE RequestContract --------------------------
(***************************************************************************)
(* What sendRequest promises: a request is open until it is answered, by    *)
(* one call of its callback, or withdrawn, because the application has      *)
(* revoked it with cancelRequest or cleanUp, without a call; then it is     *)
(* closed for ever.  A silent request has no callback and may close at any  *)
(* time.  One answer completes one request; other requests may be opened    *)
(* and withdrawn in the same step.                                          *)
(***************************************************************************)
EXTENDS Naturals

CONSTANTS Requests, Silent

VARIABLES
    state,   \* of each request
    answers, \* calls of its callback
    revoked  \* requests that the application wants to withdraw now

Init ==
    /\ state = [r \in Requests |-> "new"]
    /\ answers = [r \in Requests |-> 0]
    /\ revoked = {}

Same(r) == state'[r] = state[r] /\ answers'[r] = answers[r]

Open(r) == state[r] = "new" /\ state'[r] = "open" /\ answers'[r] = answers[r]

Withdraw(r) == /\ r \in revoked \cup Silent
               /\ state[r] = "open" /\ state'[r] = "closed"
               /\ answers'[r] = answers[r]

Answer(r) == /\ r \notin Silent
             /\ state[r] = "open" /\ state'[r] = "closed"
             /\ answers'[r] = answers[r] + 1

Next ==
    /\ \A r \in Requests : Same(r) \/ Open(r) \/ Withdraw(r) \/ Answer(r)
    /\ \A r, q \in Requests : Answer(r) /\ Answer(q) => r = q
    /\ revoked' \subseteq Requests

Spec == Init /\ [][Next]_<<state, answers, revoked>>
=============================================================================
