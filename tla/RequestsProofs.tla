--------------------------- MODULE RequestsProofs ---------------------------
(***************************************************************************)
(* What is proved of Requests, for any requests, limits and troubles: the   *)
(* two lists and the callbacks are in order, a request for salts that the   *)
(* client believes in exists, a token means that the request was sent, and  *)
(* the lists implement the contract of sendRequest.                         *)
(***************************************************************************)
EXTENDS Requests, FiniteSetTheorems, SequenceTheorems, WellFoundedInduction, TLAPS

Client == [queue : Seq(Reqs), running : Seq(Reqs), msg : [Reqs -> Nat],
           ctoken : [Reqs -> Nat], olds : [Reqs -> SUBSET Nat], last : Nat]

Task == [kind : {"send", "cancel", "notify", "cleanUp"}, req : Reqs \cup {0}]
Outcomes == {"new", "pending", "done", "cancelled", "cleared"}

(* The two lists of d hold the requests of P, each once, and no more running
   ones than allowed. *)
Bounded(running) == Cardinality(ToSet(running) \ SaltRequests) <= Limit

Lists(d, P) ==
    /\ d \in Client
    /\ IsInjective(d.queue) /\ IsInjective(d.running)
    /\ ToSet(d.queue) \cap ToSet(d.running) = {}
    /\ ToSet(d.queue) \cup ToSet(d.running) = P
    /\ Bounded(d.running)

(* The tasks ts: a request is posted once, before its cancellation; only
   requests of the application that were made are cancelled; and one
   cancellation at a time notifies the server. *)
Cancels(t) == t.kind \in {"cancel", "notify"}

TaskOf(t, out, n) ==
    /\ t \in Task
    /\ t.kind = "send" => t.req \in Reqs
    /\ Cancels(t) => t.req \in Rpcs /\ out[t.req] # "new"
    /\ t.kind = "cleanUp" => n > 0

Posted(ts) == {r \in Reqs : \E i \in DOMAIN ts : ts[i] = [kind |-> "send", req |-> r]}
Notifies(ts) == {i \in DOMAIN ts : ts[i].kind = "notify"}

TasksOf(ts, out, n) ==
    /\ ts \in Seq(Task)
    /\ \A i \in DOMAIN ts : TaskOf(ts[i], out, n)
    /\ \A i, j \in DOMAIN ts : ts[i].kind = "send" /\ ts[i] = ts[j] => i = j
    /\ \A i, j \in DOMAIN ts :
          Cancels(ts[i]) /\ ts[j].kind = "send" /\ ts[j].req = ts[i].req => j < i
    /\ \A i, j \in Notifies(ts) : i = j

TasksFit == TasksOf(tasks, outcome, cleanUps)

(* A cancellation that notifies the server finds an unused request for it. *)
NotifyFits == Notifies(tasks) # {} => Unused(DropRequests) # {}

(* The requests and where they are. *)
Pending == {r \in Reqs : outcome[r] = "pending"}

Placed ==
    /\ outcome \in [Reqs -> Outcomes]
    /\ Posted(tasks) \subseteq Pending
    /\ Lists(c, Pending \ Posted(tasks))

Counted ==
    /\ calls \in [Reqs -> Nat]
    /\ CompletedOnce

(* The connection and the server. *)
Linked ==
    /\ drops \in Nat /\ troubles \in 0..MaxTroubles /\ cleanUps \in Nat
    /\ drops <= troubles /\ cleanUps <= troubles
    /\ requesting \in BOOLEAN
    /\ lastToken = (IF token = 0 THEN drops ELSE drops + 1)
    /\ token \in {0, lastToken}
    /\ toServer \in Seq(1..c.last) /\ received \subseteq 1..c.last
    /\ kept \subseteq Answer /\ forgotten \subseteq Nat
    /\ \A a \in kept : a.msg \in 1..c.last
    /\ toClient \in Seq(Answer \cup Notice)

(* Before the first connection nothing is running and nothing on its way. *)
Untouched ==
    drops = 0 /\ token = 0 => c.running = <<>> /\ toServer = <<>> /\ toClient = <<>>

(* Every bad_server_salt on its way finds an unused request for salts. *)
SaltsLeft == Cardinality(BadSalts) <= Cardinality(Unused(SaltRequests))

IInv ==
    /\ TasksFit /\ NotifyFits /\ Placed /\ Counted /\ Linked /\ Untouched
    /\ SaltsLeft /\ SaltsAreRequested /\ TokenMeansSent

----------------------------------------------------------------------------
(* Induction over the naturals, for a set instead of a predicate: a set of
   naturals that is not empty has a least element. *)
LEMMA NatMin ==
    ASSUME NEW T, T \subseteq Nat, T # {}
    PROVE  \E x \in T : \A y \in T : x <= y
<1> DEFINE R == OpToRel(<, Nat)
<1>1. IsWellFoundedOn(R, Nat)
  BY NatLessThanWellFounded, Zenon
<1>2. \A x, y \in Nat : x < y => <<x, y>> \in R
  BY DEF OpToRel
<1> HIDE DEF R
<1>3. PICK x \in T : \A y \in T : ~ (<<y, x>> \in R)
  BY <1>1, WFMin
<1>4. ASSUME NEW y \in T PROVE x <= y
  <2>1. x \in Nat /\ y \in Nat
    BY <1>3
  <2>2. ~(y < x)
    BY <1>2, <1>3, <2>1
  <2>3. QED
    BY <2>1, <2>2
<1>5. QED
  BY <1>4

LEMMA SetInduction ==
    ASSUME NEW S, 0 \in S, \A n \in Nat : n \in S => n + 1 \in S
    PROVE  \A n \in Nat : n \in S
<1> SUFFICES ASSUME NEW k \in Nat, k \notin S PROVE FALSE
  OBVIOUS
<1> DEFINE T == Nat \ S
<1>1. T \subseteq Nat /\ T # {}
  OBVIOUS
<1>2. PICK x \in T : \A y \in T : x <= y
  BY <1>1, NatMin
<1>3. x - 1 \in Nat /\ x - 1 < x
  BY <1>2
<1>4. x - 1 \in S
  BY <1>2, <1>3
<1>5. x - 1 + 1 \in S
  BY <1>3, <1>4
<1>6. QED
  BY <1>2, <1>5

(* What a loop over 1..N computes exists: its bodies G[i] take a value of W to
   a value of W. *)
Closed(W, N, G) == \A i \in 1..N : \A w \in W : G[i][w] \in W

Computes(W, N, b, G) ==
    \E f \in [0..N -> W] : f[0] = b /\ \A i \in 1..N : f[i] = G[i][f[i - 1]]

LEMMA LoopExists ==
    ASSUME NEW W, NEW N \in Nat, NEW b \in W, NEW G, Closed(W, N, G)
    PROVE  Computes(W, N, b, G)
<1> DEFINE Good(n, f) == f[0] = b /\ \A i \in 1..n : f[i] = G[i][f[i - 1]]
<1> DEFINE S == {n \in Nat : n <= N => \E f \in [0..n -> W] : Good(n, f)}
<1>1. 0 \in S
  <2> DEFINE f == [i \in 0..0 |-> b]
  <2>1. f \in [0..0 -> W] /\ Good(0, f)
    OBVIOUS
  <2>2. QED
    BY <2>1
<1>2. ASSUME NEW n \in Nat, n \in S PROVE n + 1 \in S
  <2> SUFFICES ASSUME n + 1 <= N PROVE \E f \in [0..(n + 1) -> W] : Good(n + 1, f)
    OBVIOUS
  <2>1. n <= N
    OBVIOUS
  <2>2. PICK g \in [0..n -> W] : Good(n, g)
    BY <1>2, <2>1
  <2> DEFINE f == [i \in 0..(n + 1) |-> IF i = n + 1 THEN G[n + 1][g[n]] ELSE g[i]]
  <2>3. n \in 0..n /\ n + 1 \in 1..N
    OBVIOUS
  <2>4. G[n + 1][g[n]] \in W
    BY <2>2, <2>3 DEF Closed
  <2>5. f \in [0..(n + 1) -> W]
    BY <2>4
  <2>6. f[0] = b
    BY <2>2
  <2>7. ASSUME NEW i \in 1..(n + 1) PROVE f[i] = G[i][f[i - 1]]
    <3>1. CASE i = n + 1
      BY <3>1
    <3>2. CASE i # n + 1
      <4>1. i \in 1..n /\ i - 1 \in 0..n /\ i - 1 # n + 1
        BY <3>2
      <4>2. QED
        BY <2>2, <3>2, <4>1
    <3>3. QED
      BY <3>1, <3>2
  <2>8. QED
    BY <2>5, <2>6, <2>7
<1> HIDE DEF S
<1>3. N \in S
  BY <1>1, <1>2, SetInduction
<1>4. QED
  BY <1>3 DEF S, Computes

----------------------------------------------------------------------------
(* Lists. *)
LEMMA InList ==
    ASSUME NEW S, NEW s \in Seq(S)
    PROVE  /\ \A x : x \in ToSet(s) <=> \E i \in 1..Len(s) : s[i] = x
           /\ ToSet(s) \subseteq S /\ Len(s) \in Nat /\ DOMAIN s = 1..Len(s)
           /\ \A i \in 1..Len(s) : s[i] \in S
BY DEF ToSet

LEMMA Appended ==
    ASSUME NEW S, NEW s \in Seq(S), NEW x \in S
    PROVE  /\ Append(s, x) \in Seq(S) /\ Len(Append(s, x)) = Len(s) + 1
           /\ ToSet(Append(s, x)) = ToSet(s) \cup {x}
           /\ IsInjective(s) /\ x \notin ToSet(s) => IsInjective(Append(s, x))
<1> DEFINE t == Append(s, x)
<1>1. /\ t \in Seq(S) /\ Len(t) = Len(s) + 1 /\ t[Len(s) + 1] = x
      /\ \A i \in 1..Len(s) : t[i] = s[i]
  OBVIOUS
<1>2. Len(s) \in Nat /\ DOMAIN s = 1..Len(s) /\ DOMAIN t = 1..(Len(s) + 1)
  BY <1>1
<1> HIDE DEF t
<1>3. ToSet(t) = ToSet(s) \cup {x}
  BY <1>1, <1>2 DEF ToSet
<1>4. IsInjective(s) /\ x \notin ToSet(s) => IsInjective(t)
  BY <1>1, <1>2 DEF ToSet, IsInjective
<1>5. QED
  BY <1>1, <1>3, <1>4 DEF t

LEMMA Joined ==
    ASSUME NEW S, NEW s \in Seq(S), NEW t \in Seq(S)
    PROVE  /\ s \o t \in Seq(S) /\ Len(s \o t) = Len(s) + Len(t)
           /\ \A i \in 1..Len(s) : (s \o t)[i] = s[i]
           /\ \A i \in 1..Len(t) : (s \o t)[Len(s) + i] = t[i]
           /\ ToSet(s \o t) = ToSet(s) \cup ToSet(t)
<1> DEFINE u == s \o t
<1>1. /\ u \in Seq(S) /\ Len(u) = Len(s) + Len(t)
      /\ \A i \in 1..Len(s) : u[i] = s[i]
      /\ \A i \in 1..Len(t) : u[Len(s) + i] = t[i]
  OBVIOUS
<1>2. /\ Len(s) \in Nat /\ DOMAIN s = 1..Len(s) /\ Len(t) \in Nat /\ DOMAIN t = 1..Len(t)
      /\ DOMAIN u = 1..(Len(s) + Len(t))
  BY <1>1
<1> HIDE DEF u
<1>3. \A i \in 1..Len(t) : Len(s) + i \in 1..(Len(s) + Len(t))
  BY <1>2
<1>4. \A i \in 1..(Len(s) + Len(t)) : i \in 1..Len(s) \/ (i - Len(s) \in 1..Len(t) /\ i = Len(s) + (i - Len(s)))
  BY <1>2
<1>5. ToSet(u) \subseteq ToSet(s) \cup ToSet(t)
  <2>1. ASSUME NEW i \in 1..(Len(s) + Len(t)) PROVE u[i] \in ToSet(s) \cup ToSet(t)
    <3>1. CASE i \in 1..Len(s)
      BY <1>1, <1>2, <3>1 DEF ToSet
    <3>2. CASE i - Len(s) \in 1..Len(t) /\ i = Len(s) + (i - Len(s))
      <4>1. u[i] = t[i - Len(s)]
        BY <1>1, <3>2
      <4>2. QED
        BY <1>2, <3>2, <4>1 DEF ToSet
    <3>3. QED
      BY <1>4, <3>1, <3>2
  <2>2. QED
    BY <1>2, <2>1 DEF ToSet
<1>6. ToSet(s) \subseteq ToSet(u)
  BY <1>1, <1>2 DEF ToSet
<1>7. ToSet(t) \subseteq ToSet(u)
  BY <1>1, <1>2, <1>3 DEF ToSet
<1>8. QED
  BY <1>1, <1>5, <1>6, <1>7 DEF u

LEMMA Erased ==
    ASSUME NEW S, NEW s \in Seq(S), NEW r, IsInjective(s)
    PROVE  /\ Erase(s, r) \in Seq(S) /\ IsInjective(Erase(s, r))
           /\ ToSet(Erase(s, r)) = ToSet(s) \ {r}
<1>1. CASE r \notin ToSet(s)
  BY <1>1 DEF Erase
<1>2. CASE r \in ToSet(s)
  <2> DEFINE k == CHOOSE i \in DOMAIN s : s[i] = r
             a == SubSeq(s, 1, k - 1)
             b == SubSeq(s, k + 1, Len(s))
             t == a \o b
  <2>1. Len(s) \in Nat /\ DOMAIN s = 1..Len(s)
    OBVIOUS
  <2>2. k \in 1..Len(s) /\ s[k] = r
    BY <1>2, <2>1 DEF ToSet
  <2>3. Erase(s, r) = t
    BY <1>2, Zenon DEF Erase, RemoveAt
  <2> HIDE DEF k
  <2>4. a \in Seq(S) /\ Len(a) = k - 1 /\ \A i \in 1..(k - 1) : a[i] = s[i]
    BY <2>1, <2>2
  <2>5. b \in Seq(S) /\ Len(b) = Len(s) - k /\ \A i \in 1..(Len(s) - k) : b[i] = s[k + i]
    BY <2>1, <2>2
  <2> HIDE DEF a, b
  <2>6. /\ t \in Seq(S) /\ Len(t) = Len(s) - 1
        /\ \A i \in 1..(k - 1) : t[i] = a[i]
        /\ \A i \in 1..(Len(s) - k) : t[k - 1 + i] = b[i]
    <3>1. /\ t \in Seq(S) /\ Len(t) = Len(a) + Len(b)
          /\ \A i \in 1..Len(a) : t[i] = a[i]
          /\ \A i \in 1..Len(b) : t[Len(a) + i] = b[i]
      <4>1. a \in Seq(S) /\ b \in Seq(S)
        BY <2>4, <2>5
      <4>2. QED
        BY <4>1, Joined DEF t
    <3>2. Len(a) = k - 1 /\ Len(b) = Len(s) - k /\ Len(a) + Len(b) = Len(s) - 1
      BY <2>1, <2>2, <2>4, <2>5
    <3> HIDE DEF t
    <3>3. QED
      BY <3>1, <3>2
  <2>7. DOMAIN t = 1..(Len(s) - 1)
    BY <2>6
  <2> HIDE DEF t
  <2>8. ASSUME NEW i \in 1..(Len(s) - 1)
        PROVE  t[i] = IF i < k THEN s[i] ELSE s[i + 1]
    <3>1. CASE i < k
      <4>1. i \in 1..(k - 1)
        BY <2>1, <2>2, <3>1
      <4>2. QED
        BY <2>4, <2>6, <3>1, <4>1
    <3>2. CASE ~(i < k)
      <4>1. i - k + 1 \in 1..(Len(s) - k) /\ k - 1 + (i - k + 1) = i /\ k + (i - k + 1) = i + 1
        BY <2>1, <2>2, <3>2
      <4>2. t[k - 1 + (i - k + 1)] = b[i - k + 1] /\ b[i - k + 1] = s[k + (i - k + 1)]
        BY <2>5, <2>6, <4>1
      <4>3. QED
        BY <3>2, <4>1, <4>2
    <3>3. QED
      BY <3>1, <3>2
  <2>9. IsInjective(t)
    <3>1. \A i, j \in 1..Len(s) : s[i] = s[j] => i = j
      BY <2>1 DEF IsInjective
    <3>2. ASSUME NEW i \in 1..(Len(s) - 1), NEW j \in 1..(Len(s) - 1), t[i] = t[j]
          PROVE  i = j
      <4>1. PICK x \in 1..Len(s) : x = (IF i < k THEN i ELSE i + 1) /\ t[i] = s[x]
        BY <2>1, <2>2, <2>8
      <4>2. PICK y \in 1..Len(s) : y = (IF j < k THEN j ELSE j + 1) /\ t[j] = s[y]
        BY <2>1, <2>2, <2>8
      <4>3. x = y
        BY <3>1, <3>2, <4>1, <4>2
      <4>4. QED
        BY <2>1, <2>2, <4>1, <4>2, <4>3
    <3>3. QED
      BY <2>7, <3>2 DEF IsInjective
  <2>10. ToSet(t) \subseteq ToSet(s) \ {r}
    BY <2>1, <2>2, <2>7, <2>8 DEF ToSet, IsInjective
  <2>11. ToSet(s) \ {r} \subseteq ToSet(t)
    <3> SUFFICES ASSUME NEW i \in 1..Len(s), s[i] # r PROVE s[i] \in ToSet(t)
      BY <2>1 DEF ToSet
    <3>1. CASE i < k
      <4>1. i \in 1..(Len(s) - 1) /\ t[i] = s[i]
        BY <2>1, <2>2, <2>8, <3>1
      <4>2. QED
        BY <2>7, <4>1 DEF ToSet
    <3>2. CASE i > k
      <4>1. i - 1 \in 1..(Len(s) - 1) /\ ~(i - 1 < k) /\ i - 1 + 1 = i
        BY <2>1, <2>2, <3>2
      <4>2. t[i - 1] = s[i]
        BY <2>8, <4>1
      <4>3. QED
        BY <2>7, <4>1, <4>2 DEF ToSet
    <3>3. QED
      BY <2>1, <2>2, <3>1, <3>2
  <2>12. QED
    BY <2>3, <2>6, <2>9, <2>10, <2>11
<1>3. QED
  BY <1>1, <1>2

LEMMA EmptyList ==
    ASSUME NEW S, NEW s \in Seq(S)
    PROVE  ToSet(s) = {} <=> s = <<>>
<1>1. ToSet(<<>>) = {}
  BY DEF ToSet
<1>2. ASSUME s # <<>> PROVE s[1] \in ToSet(s)
  <2>1. Len(s) \in Nat \ {0} /\ DOMAIN s = 1..Len(s)
    BY <1>2
  <2>2. 1 \in DOMAIN s
    BY <2>1
  <2>3. QED
    BY <2>2 DEF ToSet
<1>3. QED
  BY <1>1, <1>2

LEMMA Behind ==
    ASSUME NEW S, NEW s \in Seq(S), s # <<>>
    PROVE  /\ Head(s) = s[1] /\ Head(s) \in S /\ Tail(s) \in Seq(S)
           /\ Len(s) \in Nat \ {0} /\ Len(Tail(s)) = Len(s) - 1
           /\ DOMAIN Tail(s) = 1..(Len(s) - 1) /\ DOMAIN s = 1..Len(s)
           /\ \A i \in 1..(Len(s) - 1) : Tail(s)[i] = s[i + 1] /\ i + 1 \in 1..Len(s)
           /\ ToSet(s) = {Head(s)} \cup ToSet(Tail(s))
<1>1. /\ Head(s) = s[1] /\ Tail(s) \in Seq(S) /\ Len(s) \in Nat \ {0}
      /\ Len(Tail(s)) = Len(s) - 1
      /\ \A i \in 1..(Len(s) - 1) : Tail(s)[i] = s[i + 1] /\ i + 1 \in 1..Len(s)
  OBVIOUS
<1>2. DOMAIN Tail(s) = 1..(Len(s) - 1) /\ DOMAIN s = 1..Len(s) /\ Head(s) \in S /\ 1 \in 1..Len(s)
  BY <1>1
<1>3. ToSet(Tail(s)) \subseteq ToSet(s) /\ Head(s) \in ToSet(s)
  BY <1>1, <1>2 DEF ToSet
<1>4. \A i \in 1..Len(s) : i = 1 \/ (i - 1 \in 1..(Len(s) - 1) /\ s[i] = Tail(s)[i - 1])
  BY <1>1
<1>5. ToSet(s) \subseteq {Head(s)} \cup ToSet(Tail(s))
  <2>1. ASSUME NEW i \in 1..Len(s) PROVE s[i] \in {Head(s)} \cup ToSet(Tail(s))
    <3>1. CASE i = 1
      BY <1>1, <3>1
    <3>2. CASE i # 1
      BY <1>2, <1>4, <3>2 DEF ToSet
    <3>3. QED
      BY <3>1, <3>2
  <2>2. QED
    BY <1>2, <2>1 DEF ToSet
<1>6. QED
  BY <1>1, <1>2, <1>3, <1>5

(* A list holds no more values than it is long. *)
LEMMA ListBound ==
    ASSUME NEW S, NEW s \in Seq(S)
    PROVE  IsFiniteSet(ToSet(s)) /\ Cardinality(ToSet(s)) <= Len(s) /\ Cardinality(ToSet(s)) \in Nat
<1>1. Len(s) \in Nat /\ s \in [1..Len(s) -> S] /\ DOMAIN s = 1..Len(s)
  OBVIOUS
<1>2. s \in Surjection(1..Len(s), ToSet(s))
  BY <1>1 DEF Surjection, ToSet
<1>3. IsFiniteSet(1..Len(s)) /\ Cardinality(1..Len(s)) = Len(s)
  <2>1. 1 \in Int /\ Len(s) \in Int
    BY <1>1
  <2>2. IsFiniteSet(1..Len(s)) /\ Cardinality(1..Len(s)) = IF 1 > Len(s) THEN 0 ELSE Len(s) - 1 + 1
    BY <2>1, FS_Interval
  <2>3. QED
    BY <1>1, <2>2
<1>4. IsFiniteSet(ToSet(s)) /\ Cardinality(ToSet(s)) <= Cardinality(1..Len(s))
  BY <1>2, <1>3, FS_Surjection
<1>5. QED
  BY <1>3, <1>4, FS_CardinalityType

----------------------------------------------------------------------------
(* The work of processRequestQueue: the lists, the fields, the messages that
   are sent, and the number of running requests. *)
Work == [queue : Seq(Reqs), running : Seq(Reqs), msg : [Reqs -> Nat],
         ctoken : [Reqs -> Nat], olds : [Reqs -> SUBSET Nat], last : Nat,
         out : Seq(Nat), count : Nat]

Proper(w) == w \in Work /\ w.out \in Seq(1..w.last)

LEMMA WiderIds ==
    ASSUME NEW n \in Nat, NEW k \in Nat, n <= k, NEW s \in Seq(1..n)
    PROVE  s \in Seq(1..k) /\ s \in Seq(Nat)
<1>1. Len(s) \in Nat /\ s \in [1..Len(s) -> 1..n]
  OBVIOUS
<1>2. s \in [1..Len(s) -> 1..k] /\ s \in [1..Len(s) -> Nat]
  BY <1>1
<1>3. QED
  BY <1>1, <1>2

LEMMA WorkFields ==
    ASSUME NEW w \in Work
    PROVE  /\ w.queue \in Seq(Reqs) /\ w.running \in Seq(Reqs) /\ w.msg \in [Reqs -> Nat]
           /\ w.ctoken \in [Reqs -> Nat] /\ w.olds \in [Reqs -> SUBSET Nat] /\ w.last \in Nat
           /\ w.out \in Seq(Nat) /\ w.count \in Nat
BY DEF Work

(* The request for salts forgets its message, and answers to it later. *)
Given(w, r) == Clear([w EXCEPT !.olds[r] = @ \cup ({w.msg[r]} \ {0})], {r})

LEMMA GivenKeeps ==
    ASSUME NEW w \in Work, NEW r \in Reqs
    PROVE  /\ Given(w, r) \in Work
           /\ Given(w, r).queue = w.queue /\ Given(w, r).running = w.running
           /\ Given(w, r).last = w.last /\ Given(w, r).out = w.out /\ Given(w, r).count = w.count
           /\ \A q \in Reqs \ {r} : Given(w, r).msg[q] = w.msg[q] /\ Given(w, r).ctoken[q] = w.ctoken[q]
<1> DEFINE o == [w.olds EXCEPT ![r] = @ \cup ({w.msg[r]} \ {0})]
           v == [w EXCEPT !.olds = o]
           ms == Zeroed(v.msg, {r})
           ct == Zeroed(v.ctoken, {r})
           g == [v EXCEPT !.msg = ms, !.ctoken = ct]
<1>1. Given(w, r) = g
  BY Zenon DEF Given, Clear
<1>2. o \in [Reqs -> SUBSET Nat]
  BY WorkFields
<1> HIDE DEF o
<1>3. v \in Work /\ v.msg = w.msg /\ v.ctoken = w.ctoken /\ v.queue = w.queue /\ v.running = w.running
      /\ v.last = w.last /\ v.out = w.out /\ v.count = w.count
  BY <1>2 DEF Work
<1> HIDE DEF v
<1>4. /\ ms \in [Reqs -> Nat] /\ ct \in [Reqs -> Nat]
      /\ \A q \in Reqs \ {r} : ms[q] = w.msg[q] /\ ct[q] = w.ctoken[q]
  BY <1>3, WorkFields DEF Zeroed
<1> HIDE DEF ms, ct
<1>5. /\ g \in Work /\ g.msg = ms /\ g.ctoken = ct /\ g.queue = v.queue /\ g.running = v.running
      /\ g.last = v.last /\ g.out = v.out /\ g.count = v.count
  BY <1>3, <1>4 DEF Work
<1>6. QED
  BY <1>1, <1>3, <1>4, <1>5

(* Sending a request again. *)
Resent(s, r, tk, opened, id) ==
    [s EXCEPT !.msg[r] = id, !.last = IF id > @ THEN id ELSE @, !.ctoken[r] = tk,
              !.out = IF opened THEN @ ELSE Append(@, id)]

LEMMA ResentKeeps ==
    ASSUME NEW s, Proper(s), NEW r \in Reqs, NEW tk \in Nat, NEW opened,
           NEW id \in Nat \ {0}, NEW u, u = Resent(s, r, tk, opened, id)
    PROVE  /\ Proper(u)
           /\ u.queue = s.queue /\ u.running = s.running /\ u.count = s.count
           /\ u.last >= s.last /\ ToSet(s.out) \subseteq ToSet(u.out)
           /\ \A q \in Reqs \ {r} : u.msg[q] = s.msg[q] /\ u.ctoken[q] = s.ctoken[q]
           /\ u.msg[r] = id /\ u.ctoken[r] = tk /\ (opened \/ id \in ToSet(u.out))
<1> DEFINE ms == [s.msg EXCEPT ![r] = id]
           ct == [s.ctoken EXCEPT ![r] = tk]
           la == IF id > s.last THEN id ELSE s.last
           ou == IF opened THEN s.out ELSE Append(s.out, id)
<1>1. u = [s EXCEPT !.msg = ms, !.last = la, !.ctoken = ct, !.out = ou]
  BY Zenon DEF Resent
<1>2. s \in Work /\ s.last \in Nat /\ s.out \in Seq(1..s.last)
  BY WorkFields DEF Proper
<1>3. /\ ms \in [Reqs -> Nat] /\ ct \in [Reqs -> Nat] /\ ms[r] = id /\ ct[r] = tk
      /\ \A q \in Reqs \ {r} : ms[q] = s.msg[q] /\ ct[q] = s.ctoken[q]
  BY <1>2, WorkFields
<1>4. la \in Nat /\ la >= s.last /\ la >= id /\ id \in 1..la /\ s.last <= la
  BY <1>2
<1> HIDE DEF ms, ct, la
<1>5. s.out \in Seq(1..la)
  BY <1>2, <1>4, WiderIds
<1>6. ou \in Seq(1..la) /\ ToSet(s.out) \subseteq ToSet(ou) /\ (opened \/ id \in ToSet(ou))
  <2>1. CASE opened
    BY <1>5, <2>1
  <2>2. CASE ~opened
    BY <1>4, <1>5, <2>2, Appended
  <2>3. QED
    BY <2>1, <2>2
<1> HIDE DEF ou
<1>7. ou \in Seq(Nat)
  BY <1>4, <1>6, WiderIds
<1>8. /\ u \in Work /\ u.msg = ms /\ u.ctoken = ct /\ u.queue = s.queue /\ u.running = s.running
      /\ u.last = la /\ u.out = ou /\ u.count = s.count
  BY <1>1, <1>2, <1>3, <1>4, <1>7 DEF Work
<1>9. Proper(u)
  BY <1>6, <1>8 DEF Proper
<1>10. QED
  BY <1>3, <1>4, <1>6, <1>8, <1>9

(* A running request in a pass: it is sent again, or left as it is; what is
   forced is sent again. *)
LEMMA AgainStep ==
    ASSUME NEW w, Proper(w), NEW r \in Reqs, NEW tk \in Nat, NEW force,
           NEW opened, NEW late,
           NEW u, u = Again(w, r, tk, force, opened, late)
    PROVE  /\ Proper(u)
           /\ u.queue = w.queue /\ u.running = w.running /\ u.count = w.count
           /\ u.last >= w.last /\ ToSet(w.out) \subseteq ToSet(u.out)
           /\ \A q \in Reqs \ {r} : u.msg[q] = w.msg[q] /\ u.ctoken[q] = w.ctoken[q]
           /\ r \notin SaltRequests =>
                 \/ u.msg[r] = w.msg[r] /\ u.ctoken[r] = w.ctoken[r] /\ ~force
                 \/ opened
                 \/ u.msg[r] \in ToSet(u.out)
<1> DEFINE s == IF r \in SaltRequests THEN Given(w, r) ELSE w
           id == IF s.msg[r] = 0 THEN s.last + 1 ELSE s.msg[r]
           go == (force /\ ~(r \in SaltRequests)) \/ (r \in late /\ s.ctoken[r] # tk)
<1>1. u = IF go THEN Resent(s, r, tk, opened, id) ELSE s
  BY Zenon DEF Again, Given, Resent
<1>2. w \in Work /\ w.last \in Nat /\ w.out \in Seq(1..w.last)
  BY WorkFields DEF Proper
<1>3. /\ s \in Work /\ s.queue = w.queue /\ s.running = w.running
      /\ s.last = w.last /\ s.out = w.out /\ s.count = w.count
      /\ \A q \in Reqs \ {r} : s.msg[q] = w.msg[q] /\ s.ctoken[q] = w.ctoken[q]
      /\ r \notin SaltRequests => s = w
  BY <1>2, GivenKeeps
<1> HIDE DEF s
<1>4. Proper(s) /\ s.last >= w.last
  BY <1>2, <1>3 DEF Proper
<1>5. id \in Nat \ {0}
  <2>1. s.msg[r] \in Nat /\ s.last \in Nat
    BY <1>3, WorkFields
  <2>2. QED
    BY <2>1
<1> HIDE DEF id
<1>6. CASE go
  <2>1. u = Resent(s, r, tk, opened, id)
    BY <1>1, <1>6
  <2>2. /\ Proper(u)
        /\ u.queue = s.queue /\ u.running = s.running /\ u.count = s.count
        /\ u.last >= s.last /\ ToSet(s.out) \subseteq ToSet(u.out)
        /\ \A q \in Reqs \ {r} : u.msg[q] = s.msg[q] /\ u.ctoken[q] = s.ctoken[q]
        /\ u.msg[r] = id /\ u.ctoken[r] = tk /\ (opened \/ id \in ToSet(u.out))
    <3>1. PICK v, k : v = s /\ k = id
      OBVIOUS
    <3>2. Proper(v) /\ k \in Nat \ {0} /\ u = Resent(v, r, tk, opened, k)
      BY <1>4, <1>5, <2>1, <3>1
    <3>3. /\ Proper(u)
          /\ u.queue = v.queue /\ u.running = v.running /\ u.count = v.count
          /\ u.last >= v.last /\ ToSet(v.out) \subseteq ToSet(u.out)
          /\ \A q \in Reqs \ {r} : u.msg[q] = v.msg[q] /\ u.ctoken[q] = v.ctoken[q]
          /\ u.msg[r] = k /\ u.ctoken[r] = tk /\ (opened \/ k \in ToSet(u.out))
      BY <3>2, ResentKeeps
    <3>4. QED
      BY <3>1, <3>3
  <2>3. u.last >= w.last
    BY <1>3, <2>2
  <2>4. QED
    BY <1>3, <2>2, <2>3
<1>7. CASE ~go
  <2>1. u = s
    BY <1>1, <1>7
  <2>2. r \notin SaltRequests => ~force
    BY <1>7
  <2>3. QED
    BY <1>3, <1>4, <2>1, <2>2
<1>8. QED
  BY <1>6, <1>7

----------------------------------------------------------------------------
(* The lists of w are in order: each request once, in one of them. *)
Fits(w) ==
    /\ IsInjective(w.queue) /\ IsInjective(w.running)
    /\ ToSet(w.queue) \cap ToSet(w.running) = {}
    /\ Bounded(w.running)

(* A request that joins the running ones while there is room keeps the limit. *)
LEMMA RoomForOne ==
    ASSUME NEW s \in Seq(Reqs), Bounded(s), NEW r \in Reqs,
           r \in SaltRequests \/ Len(s) < Limit
    PROVE  Bounded(Append(s, r))
<1> DEFINE t == Append(s, r)
<1>1. t \in Seq(Reqs) /\ Len(t) = Len(s) + 1 /\ ToSet(t) = ToSet(s) \cup {r} /\ Len(s) \in Nat
  BY Appended
<1> HIDE DEF t
<1>2. Limit \in Nat
  BY RequestsAssumption
<1>3. CASE r \in SaltRequests
  <2>1. ToSet(t) \ SaltRequests = ToSet(s) \ SaltRequests
    BY <1>1, <1>3
  <2>2. QED
    BY <2>1 DEF Bounded, t
<1>4. CASE Len(s) < Limit
  <2>1. IsFiniteSet(ToSet(t)) /\ Cardinality(ToSet(t)) <= Len(t) /\ Cardinality(ToSet(t)) \in Nat
    BY <1>1, ListBound
  <2>2. ToSet(t) \ SaltRequests \in SUBSET ToSet(t)
    OBVIOUS
  <2>3. /\ IsFiniteSet(ToSet(t) \ SaltRequests)
        /\ Cardinality(ToSet(t) \ SaltRequests) <= Cardinality(ToSet(t))
    BY <2>1, <2>2, FS_Subset
  <2>4. Cardinality(ToSet(t) \ SaltRequests) \in Nat
    BY <2>3, FS_CardinalityType
  <2>5. Cardinality(ToSet(t) \ SaltRequests) <= Limit
    BY <1>1, <1>2, <1>4, <2>1, <2>3, <2>4
  <2>6. QED
    BY <2>5 DEF Bounded, t
<1>5. QED
  BY <1>3, <1>4

(* A queued request in a pass: it stays in the queue, or it runs and its
   message is sent. *)
Apart(w, u, r) ==
    /\ u.last >= w.last /\ ToSet(w.out) \subseteq ToSet(u.out)
    /\ \A q \in Reqs \ {r} : u.msg[q] = w.msg[q] /\ u.ctoken[q] = w.ctoken[q]

Stays(w, u, r) == u.queue = Append(w.queue, r) /\ u.running = w.running /\ u.count = w.count

Starts(w, u, r) ==
    /\ r \in SaltRequests \/ w.count < Limit
    /\ u.queue = w.queue /\ u.running = Append(w.running, r) /\ u.count = w.count + 1
    /\ u.msg[r] \in ToSet(u.out)

LEMMA FirstFields ==
    ASSUME NEW w, Proper(w), NEW r \in Reqs, NEW tk \in Nat, NEW u, u = First(w, r, tk)
    PROVE  Proper(u) /\ Apart(w, u, r) /\ (Stays(w, u, r) \/ Starts(w, u, r))
<1>1. /\ w \in Work /\ w.last \in Nat /\ w.out \in Seq(1..w.last) /\ w.count \in Nat
      /\ w.queue \in Seq(Reqs) /\ w.running \in Seq(Reqs) /\ w.msg \in [Reqs -> Nat]
      /\ w.ctoken \in [Reqs -> Nat]
  BY WorkFields DEF Proper
<1>2. CASE w.count >= Limit /\ r \notin SaltRequests
  <2> DEFINE qu == Append(w.queue, r)
  <2>1. u = [w EXCEPT !.queue = qu]
    BY <1>2, Zenon DEF First
  <2>2. qu \in Seq(Reqs)
    BY <1>1, Appended
  <2> HIDE DEF qu
  <2>3. /\ u \in Work /\ u.queue = qu /\ u.running = w.running /\ u.msg = w.msg
        /\ u.ctoken = w.ctoken /\ u.last = w.last /\ u.out = w.out /\ u.count = w.count
    BY <1>1, <2>1, <2>2 DEF Work
  <2>4. Proper(u) /\ u.last >= w.last
    BY <1>1, <2>3 DEF Proper
  <2>5. QED
    BY <2>3, <2>4 DEF qu, Apart, Stays
<1>3. CASE ~(w.count >= Limit /\ r \notin SaltRequests)
  <2> DEFINE ms == [w.msg EXCEPT ![r] = w.last + 1]
             ct == [w.ctoken EXCEPT ![r] = tk]
             ru == Append(w.running, r)
             ou == Append(w.out, w.last + 1)
             la == w.last + 1
             co == w.count + 1
  <2>1. u = [w EXCEPT !.msg = ms, !.last = la, !.ctoken = ct, !.running = ru,
                      !.count = co, !.out = ou]
    BY <1>3, Zenon DEF First
  <2>2. /\ ms \in [Reqs -> Nat] /\ ct \in [Reqs -> Nat] /\ ms[r] = w.last + 1
        /\ \A q \in Reqs \ {r} : ms[q] = w.msg[q] /\ ct[q] = w.ctoken[q]
    BY <1>1
  <2>3. ru \in Seq(Reqs)
    BY <1>1, Appended
  <2>4. r \in SaltRequests \/ w.count < Limit
    BY <1>1, <1>3, RequestsAssumption
  <2>5. /\ ou \in Seq(1..(w.last + 1)) /\ ou \in Seq(Nat)
        /\ ToSet(ou) = ToSet(w.out) \cup {w.last + 1}
    <3>1. w.last + 1 \in Nat /\ w.last <= w.last + 1 /\ w.last + 1 \in 1..(w.last + 1)
          /\ w.last + 1 <= w.last + 1
      BY <1>1
    <3>2. w.out \in Seq(1..(w.last + 1))
      BY <1>1, <3>1, WiderIds
    <3>3. ou \in Seq(1..(w.last + 1)) /\ ToSet(ou) = ToSet(w.out) \cup {w.last + 1}
      BY <3>1, <3>2, Appended
    <3>4. QED
      BY <3>1, <3>3, WiderIds
  <2>6. la \in Nat /\ co \in Nat
    BY <1>1
  <2> HIDE DEF ms, ct, ru, ou, la, co
  <2>7. u \in Work
    BY <1>1, <2>1, <2>2, <2>3, <2>5, <2>6, Zenon DEF Work
  <2>8. /\ u.queue = w.queue /\ u.running = ru /\ u.msg = ms
        /\ u.ctoken = ct /\ u.last = la /\ u.out = ou /\ u.count = co
    BY <1>1, <2>1 DEF Work
  <2>9. Proper(u) /\ u.last >= w.last
    BY <1>1, <2>5, <2>7, <2>8 DEF Proper, la
  <2>10. QED
    BY <2>2, <2>4, <2>5, <2>8, <2>9 DEF ru, co, Apart, Starts
<1>4. QED
  BY <1>2, <1>3

LEMMA FirstStep ==
    ASSUME NEW w, Proper(w), Fits(w), w.count = Len(w.running), NEW r \in Reqs,
           r \notin ToSet(w.queue), r \notin ToSet(w.running), NEW tk \in Nat,
           NEW u, u = First(w, r, tk)
    PROVE  /\ Proper(u) /\ Fits(u) /\ u.count = Len(u.running) /\ Apart(w, u, r)
           /\ ToSet(u.queue) \cup ToSet(u.running) = ToSet(w.queue) \cup ToSet(w.running) \cup {r}
           /\ ToSet(u.running) \subseteq ToSet(w.running) \cup {r}
           /\ r \in ToSet(u.running) => u.msg[r] \in ToSet(u.out)
<1>1. w.queue \in Seq(Reqs) /\ w.running \in Seq(Reqs)
  BY WorkFields DEF Proper
<1>2. Proper(u) /\ Apart(w, u, r) /\ (Stays(w, u, r) \/ Starts(w, u, r))
  BY FirstFields
<1>3. CASE Stays(w, u, r)
  <2>1. ToSet(u.queue) = ToSet(w.queue) \cup {r} /\ IsInjective(u.queue)
    BY <1>1, <1>3, Appended DEF Fits, Stays
  <2>2. Fits(u)
    BY <1>3, <2>1 DEF Fits, Stays
  <2>3. QED
    BY <1>2, <1>3, <2>1, <2>2 DEF Stays
<1>4. CASE Starts(w, u, r)
  <2>1. /\ ToSet(u.running) = ToSet(w.running) \cup {r} /\ IsInjective(u.running)
        /\ Len(u.running) = Len(w.running) + 1
    BY <1>1, <1>4, Appended DEF Fits, Starts
  <2>2. Bounded(u.running)
    <3>1. r \in SaltRequests \/ Len(w.running) < Limit
      BY <1>4 DEF Starts
    <3>2. QED
      BY <1>1, <1>4, <3>1, RoomForOne DEF Fits, Starts
  <2>3. Fits(u)
    BY <1>4, <2>1, <2>2 DEF Fits, Starts
  <2>4. QED
    BY <1>2, <1>4, <2>1, <2>3 DEF Starts
<1>5. QED
  BY <1>2, <1>3, <1>4

(* The loop over the running requests. *)
LEMMA AgainLoop ==
    ASSUME NEW w0, Proper(w0), NEW tk \in Nat, NEW force, NEW opened, NEW late
    PROVE  \E f : /\ f[0] = w0
                  /\ \A i \in 1..Len(w0.running) :
                        f[i] = Again(f[i - 1], w0.running[i], tk, force, opened, late)
                  /\ AgainAll(w0, tk, force, opened, late) = f[Len(w0.running)]
<1> DEFINE N == Len(w0.running)
           W == {w \in Work : Proper(w)}
           Body(f, i) == IF i = 0 THEN w0
                         ELSE Again(f[i - 1], w0.running[i], tk, force, opened, late)
           run[i \in 0..N] == IF i = 0 THEN w0
                              ELSE Again(run[i - 1], w0.running[i], tk, force, opened, late)
           G == [i \in 1..N |-> [w \in W |-> Again(w, w0.running[i], tk, force, opened, late)]]
<1>1. AgainAll(w0, tk, force, opened, late) = run[N]
  BY Zenon DEF AgainAll
<1>2. N \in Nat /\ w0 \in W /\ \A i \in 1..N : w0.running[i] \in Reqs
  BY WorkFields DEF Proper
<1>3. \A i \in 1..N : \A w \in W : G[i][w] \in W
  <2>1. ASSUME NEW i \in 1..N, NEW w \in W
        PROVE  Again(w, w0.running[i], tk, force, opened, late) \in W
    <3>1. w0.running[i] \in Reqs /\ Proper(w)
      BY <1>2
    <3>2. Proper(Again(w, w0.running[i], tk, force, opened, late))
      BY <3>1, AgainStep
    <3>3. QED
      BY <3>2 DEF Proper
  <2> HIDE DEF W
  <2>2. QED
    BY <2>1
<1>4. \A i \in 1..N : \A w \in W : G[i][w] = Again(w, w0.running[i], tk, force, opened, late)
  OBVIOUS
<1> HIDE DEF G, W
<1>5. PICK g \in [0..N -> W] : g[0] = w0 /\ \A i \in 1..N : g[i] = G[i][g[i - 1]]
  <2>1. Computes(W, N, w0, G)
    BY <1>2, <1>3, LoopExists DEF Closed
  <2>2. QED
    BY <2>1 DEF Computes
<1>6. ASSUME NEW i \in 0..N PROVE g[i] = Body(g, i)
  <2>1. CASE i = 0
    BY <1>5, <2>1
  <2>2. CASE i # 0
    <3>1. i \in 1..N /\ i - 1 \in 0..N
      BY <1>2, <2>2
    <3>2. g[i - 1] \in W
      BY <1>5, <3>1
    <3>3. QED
      BY <1>4, <1>5, <2>2, <3>1, <3>2
  <2>3. QED
    BY <2>1, <2>2
<1>7. g = [i \in 0..N |-> Body(g, i)]
  <2> HIDE DEF Body
  <2>1. QED
    BY <1>5, <1>6
<1>8. run = [i \in 0..N |-> Body(run, i)]
  <2>1. \E f : f = [i \in 0..N |-> Body(f, i)]
    BY <1>7, Zenon
  <2>2. QED
    BY <2>1, Zenon
<1> HIDE DEF run
<1>9. run[0] = w0
  BY <1>2, <1>8
<1>10. \A i \in 1..N : run[i] = Again(run[i - 1], w0.running[i], tk, force, opened, late)
  BY <1>2, <1>8
<1>11. QED
  BY <1>1, <1>9, <1>10, Zenon

LEMMA AgainAllKeeps ==
    ASSUME NEW w0, Proper(w0), NEW tk \in Nat, NEW force, NEW opened, NEW late,
           NEW u, u = AgainAll(w0, tk, force, opened, late)
    PROVE  /\ Proper(u) /\ u.queue = w0.queue /\ u.running = w0.running /\ u.count = w0.count
           /\ u.last >= w0.last
           /\ \A r \in ToSet(w0.running) \ SaltRequests :
                 \/ u.msg[r] = w0.msg[r] /\ u.ctoken[r] = w0.ctoken[r] /\ ~force
                 \/ opened
                 \/ u.msg[r] \in ToSet(u.out)
<1> DEFINE N == Len(w0.running)
           s == w0.running
           Sure(w, r) == opened \/ w.msg[r] \in ToSet(w.out)
           Holds(w, i) ==
              /\ Proper(w) /\ w.queue = w0.queue /\ w.running = w0.running /\ w.count = w0.count
              /\ w.last >= w0.last
              /\ \A r \in Reqs \ SaltRequests :
                    (w.msg[r] = w0.msg[r] /\ w.ctoken[r] = w0.ctoken[r]) \/ Sure(w, r)
              /\ \A j \in 1..i : s[j] \notin SaltRequests /\ force => Sure(w, s[j])
<1>1. w0 \in Work /\ w0.last \in Nat /\ s \in Seq(Reqs) /\ N \in Nat
  BY WorkFields DEF Proper
<1>2. PICK f : /\ f[0] = w0
               /\ \A i \in 1..N : f[i] = Again(f[i - 1], s[i], tk, force, opened, late)
               /\ u = f[N]
  BY AgainLoop
<1> DEFINE S == {i \in Nat : i <= N => Holds(f[i], i)}
<1>3. 0 \in S
  <2>1. Holds(w0, 0)
    BY <1>1
  <2>2. QED
    BY <1>2, <2>1
<1>4. ASSUME NEW i \in Nat, i \in S PROVE i + 1 \in S
  <2> SUFFICES ASSUME i + 1 <= N PROVE Holds(f[i + 1], i + 1)
    OBVIOUS
  <2>1. i <= N /\ i + 1 \in 1..N /\ i + 1 - 1 = i
    BY <1>1
  <2>2. PICK w, v, r : w = f[i] /\ v = f[i + 1] /\ r = s[i + 1]
    OBVIOUS
  <2>3. Holds(w, i)
    BY <1>4, <2>1, <2>2
  <2>4. r \in Reqs /\ v = Again(w, r, tk, force, opened, late)
    BY <1>1, <1>2, <2>1, <2>2
  <2>5. /\ Proper(v)
        /\ v.queue = w.queue /\ v.running = w.running /\ v.count = w.count
        /\ v.last >= w.last /\ ToSet(w.out) \subseteq ToSet(v.out)
        /\ \A q \in Reqs \ {r} : v.msg[q] = w.msg[q] /\ v.ctoken[q] = w.ctoken[q]
        /\ r \notin SaltRequests =>
              \/ v.msg[r] = w.msg[r] /\ v.ctoken[r] = w.ctoken[r] /\ ~force
              \/ opened
              \/ v.msg[r] \in ToSet(v.out)
    BY <2>3, <2>4, AgainStep
  <2>6. v.last >= w0.last
    <3>1. v.last \in Nat /\ w.last \in Nat
      BY <2>3, <2>5, WorkFields DEF Proper
    <3>2. QED
      BY <1>1, <2>3, <2>5, <3>1
  <2>7. ASSUME NEW q \in Reqs \ SaltRequests
        PROVE  /\ (v.msg[q] = w0.msg[q] /\ v.ctoken[q] = w0.ctoken[q]) \/ Sure(v, q)
               /\ Sure(w, q) => Sure(v, q)
    <3>1. CASE q = r
      BY <2>3, <2>5, <3>1
    <3>2. CASE q # r
      BY <2>3, <2>5, <3>2
    <3>3. QED
      BY <3>1, <3>2
  <2>8. ASSUME NEW j \in 1..(i + 1), s[j] \notin SaltRequests, force PROVE Sure(v, s[j])
    <3>1. s[j] \in Reqs \ SaltRequests
      BY <1>1, <2>1, <2>8
    <3>2. CASE j = i + 1
      BY <2>2, <2>5, <2>8, <3>2
    <3>3. CASE j # i + 1
      <4>1. j \in 1..i
        BY <3>3
      <4>2. Sure(w, s[j])
        BY <2>3, <2>8, <4>1
      <4>3. QED
        BY <2>7, <3>1, <4>2
    <3>4. QED
      BY <3>2, <3>3
  <2>9. QED
    BY <2>2, <2>3, <2>5, <2>6, <2>7, <2>8
<1> HIDE DEF S, Holds
<1>5. N \in S
  BY <1>1, <1>3, <1>4, SetInduction
<1>6. Holds(u, N)
  BY <1>1, <1>2, <1>5 DEF S
<1>7. \A r \in ToSet(s) : r \in Reqs /\ \E j \in 1..N : s[j] = r
  BY <1>1, InList
<1>8. QED
  BY <1>6, <1>7 DEF Holds

(* The loop over the queue. *)
LEMMA FirstLoop ==
    ASSUME NEW w0, Proper(w0), NEW queue \in Seq(Reqs), NEW tk \in Nat
    PROVE  \E f : /\ f[0] = [w0 EXCEPT !.queue = <<>>]
                  /\ \A i \in 1..Len(queue) : f[i] = First(f[i - 1], queue[i], tk)
                  /\ FirstAll(w0, queue, tk) = f[Len(queue)]
<1> DEFINE N == Len(queue)
           b == [w0 EXCEPT !.queue = <<>>]
           W == {w \in Work : Proper(w)}
           Body(f, i) == IF i = 0 THEN b ELSE First(f[i - 1], queue[i], tk)
           run[i \in 0..N] == IF i = 0 THEN b ELSE First(run[i - 1], queue[i], tk)
           G == [i \in 1..N |-> [w \in W |-> First(w, queue[i], tk)]]
<1>1. FirstAll(w0, queue, tk) = run[N]
  BY Zenon DEF FirstAll
<1>2. N \in Nat /\ \A i \in 1..N : queue[i] \in Reqs
  OBVIOUS
<1>3. b \in W
  <2>1. <<>> \in Seq(Reqs) /\ w0 \in Work
    BY DEF Proper
  <2>2. b \in Work /\ b.out = w0.out /\ b.last = w0.last
    BY <2>1 DEF Work
  <2>3. QED
    BY <2>2 DEF Proper
<1> HIDE DEF b
<1>4. \A i \in 1..N : \A w \in W : G[i][w] \in W
  <2>1. ASSUME NEW i \in 1..N, NEW w \in W PROVE First(w, queue[i], tk) \in W
    <3>1. queue[i] \in Reqs /\ Proper(w)
      BY <1>2
    <3>2. Proper(First(w, queue[i], tk))
      BY <3>1, FirstFields
    <3>3. QED
      BY <3>2 DEF Proper
  <2> HIDE DEF W
  <2>2. QED
    BY <2>1
<1>5. \A i \in 1..N : \A w \in W : G[i][w] = First(w, queue[i], tk)
  OBVIOUS
<1> HIDE DEF G, W
<1>6. PICK g \in [0..N -> W] : g[0] = b /\ \A i \in 1..N : g[i] = G[i][g[i - 1]]
  <2>1. Computes(W, N, b, G)
    BY <1>2, <1>3, <1>4, LoopExists DEF Closed
  <2>2. QED
    BY <2>1 DEF Computes
<1>7. ASSUME NEW i \in 0..N PROVE g[i] = Body(g, i)
  <2>1. CASE i = 0
    BY <1>6, <2>1
  <2>2. CASE i # 0
    <3>1. i \in 1..N /\ i - 1 \in 0..N
      BY <1>2, <2>2
    <3>2. g[i - 1] \in W
      BY <1>6, <3>1
    <3>3. QED
      BY <1>5, <1>6, <2>2, <3>1, <3>2
  <2>3. QED
    BY <2>1, <2>2
<1>8. g = [i \in 0..N |-> Body(g, i)]
  <2> HIDE DEF Body
  <2>1. QED
    BY <1>6, <1>7
<1>9. run = [i \in 0..N |-> Body(run, i)]
  <2>1. \E f : f = [i \in 0..N |-> Body(f, i)]
    BY <1>8, Zenon
  <2>2. QED
    BY <2>1, Zenon
<1> HIDE DEF run
<1>10. run[0] = b
  BY <1>2, <1>9
<1>11. \A i \in 1..N : run[i] = First(run[i - 1], queue[i], tk)
  BY <1>2, <1>9
<1>12. QED
  BY <1>1, <1>10, <1>11, Zenon DEF b

(* Started requests are sent, the others are left as they are. *)
Begun(w0, u) ==
    \A r \in ToSet(u.running) :
        \/ r \in ToSet(w0.running) /\ u.msg[r] = w0.msg[r] /\ u.ctoken[r] = w0.ctoken[r]
        \/ u.msg[r] \in ToSet(u.out)

LEMMA FirstAllKeeps ==
    ASSUME NEW w0, Proper(w0), w0.count = Len(w0.running), Bounded(w0.running),
           IsInjective(w0.running), NEW queue \in Seq(Reqs), IsInjective(queue),
           ToSet(queue) \cap ToSet(w0.running) = {}, NEW tk \in Nat,
           NEW u, u = FirstAll(w0, queue, tk)
    PROVE  /\ Proper(u) /\ Fits(u) /\ Begun(w0, u)
           /\ ToSet(u.queue) \cup ToSet(u.running) = ToSet(queue) \cup ToSet(w0.running)
           /\ u.last >= w0.last /\ ToSet(w0.out) \subseteq ToSet(u.out)
<1> DEFINE N == Len(queue)
           b == [w0 EXCEPT !.queue = <<>>]
           Held(w) == ToSet(w.queue) \cup ToSet(w.running)
           Taken(i) == {queue[j] : j \in 1..i}
           Holds(w, i) ==
              /\ Proper(w) /\ Fits(w) /\ w.count = Len(w.running) /\ Begun(w0, w)
              /\ Held(w) = ToSet(w0.running) \cup Taken(i)
              /\ w.last >= w0.last /\ ToSet(w0.out) \subseteq ToSet(w.out)
<1>1. w0 \in Work /\ w0.last \in Nat /\ w0.running \in Seq(Reqs) /\ N \in Nat /\ DOMAIN queue = 1..N
  BY WorkFields DEF Proper
<1>2. PICK f : /\ f[0] = b
               /\ \A i \in 1..N : f[i] = First(f[i - 1], queue[i], tk)
               /\ u = f[N]
  BY FirstLoop
<1>3. Holds(b, 0)
  <2>1. <<>> \in Seq(Reqs) /\ ToSet(<<>>) = {} /\ IsInjective(<<>>)
    BY DEF ToSet, IsInjective
  <2>2. /\ b \in Work /\ b.queue = <<>> /\ b.running = w0.running /\ b.msg = w0.msg /\ b.out = w0.out
        /\ b.ctoken = w0.ctoken /\ b.last = w0.last /\ b.count = w0.count
    BY <1>1, <2>1 DEF Work
  <2> HIDE DEF b
  <2>3. Proper(b)
    BY <2>2 DEF Proper
  <2>4. Fits(b)
    BY <2>1, <2>2 DEF Fits
  <2>5. Begun(w0, b)
    BY <2>2 DEF Begun
  <2>6. Taken(0) = {}
    OBVIOUS
  <2> HIDE DEF Taken
  <2>7. b.last >= w0.last
    BY <1>1, <2>2
  <2>8. QED
    BY <2>1, <2>2, <2>3, <2>4, <2>5, <2>6, <2>7
<1> HIDE DEF b
<1> DEFINE S == {i \in Nat : i <= N => Holds(f[i], i)}
<1>4. 0 \in S
  <2> HIDE DEF Holds
  <2>1. QED
    BY <1>2, <1>3
<1>5. ASSUME NEW i \in Nat, i \in S PROVE i + 1 \in S
  <2> SUFFICES ASSUME i + 1 <= N PROVE Holds(f[i + 1], i + 1)
    OBVIOUS
  <2>1. i <= N /\ i + 1 \in 1..N /\ i + 1 - 1 = i
    BY <1>1
  <2>2. PICK w, v, r : w = f[i] /\ v = f[i + 1] /\ r = queue[i + 1]
    OBVIOUS
  <2>3. Holds(w, i)
    BY <1>5, <2>1, <2>2
  <2>4. r \in Reqs /\ v = First(w, r, tk)
    BY <1>1, <1>2, <2>1, <2>2
  <2>5. Taken(i + 1) = Taken(i) \cup {r} /\ r \notin Taken(i) /\ r \in ToSet(queue)
    <3>1. \A j \in 1..i : j \in 1..N /\ j # i + 1 /\ j \in 1..(i + 1)
      BY <1>1, <2>1
    <3>2. \A j \in 1..(i + 1) : j \in 1..i \/ j = i + 1
      OBVIOUS
    <3>3. r \notin Taken(i) /\ r \in ToSet(queue)
      BY <1>1, <2>1, <2>2, <3>1 DEF IsInjective, ToSet
    <3>4. QED
      BY <2>1, <2>2, <3>1, <3>2, <3>3
  <2> HIDE DEF Taken
  <2>6. r \notin ToSet(w.queue) /\ r \notin ToSet(w.running)
    BY <2>3, <2>5
  <2>7. /\ Proper(v) /\ Fits(v) /\ v.count = Len(v.running) /\ Apart(w, v, r)
        /\ ToSet(v.queue) \cup ToSet(v.running) = ToSet(w.queue) \cup ToSet(w.running) \cup {r}
        /\ ToSet(v.running) \subseteq ToSet(w.running) \cup {r}
        /\ r \in ToSet(v.running) => v.msg[r] \in ToSet(v.out)
    <3>1. Proper(w) /\ Fits(w) /\ w.count = Len(w.running)
      BY <2>3
    <3> HIDE DEF Holds
    <3>2. QED
      BY <2>4, <2>6, <3>1, FirstStep
  <2>8. v.last >= w0.last
    <3>1. v.last \in Nat /\ w.last \in Nat
      BY <2>3, <2>7, WorkFields DEF Proper
    <3>2. QED
      BY <1>1, <2>3, <2>7, <3>1 DEF Apart
  <2>9. Begun(w0, v)
    <3> SUFFICES ASSUME NEW q \in ToSet(v.running)
                 PROVE  \/ q \in ToSet(w0.running) /\ v.msg[q] = w0.msg[q] /\ v.ctoken[q] = w0.ctoken[q]
                        \/ v.msg[q] \in ToSet(v.out)
      BY DEF Begun
    <3>1. CASE q = r
      BY <2>7, <3>1
    <3>2. CASE q # r
      <4>1. w.running \in Seq(Reqs)
        BY <2>3, WorkFields DEF Proper
      <4>2. ToSet(w.running) \subseteq Reqs
        BY <4>1, InList
      <4>3. q \in ToSet(w.running) /\ q \in Reqs \ {r}
        BY <2>7, <3>2, <4>2
      <4>4. v.msg[q] = w.msg[q] /\ v.ctoken[q] = w.ctoken[q] /\ ToSet(w.out) \subseteq ToSet(v.out)
        BY <2>7, <4>3 DEF Apart
      <4>5. QED
        BY <2>3, <4>3, <4>4 DEF Begun
    <3>3. QED
      BY <3>1, <3>2
  <2>10. ToSet(w0.out) \subseteq ToSet(v.out)
    BY <2>3, <2>7 DEF Apart
  <2>11. Held(v) = ToSet(w0.running) \cup Taken(i + 1)
    BY <2>3, <2>5, <2>7
  <2>12. QED
    BY <2>2, <2>7, <2>8, <2>9, <2>10, <2>11
<1> HIDE DEF S, Holds
<1>6. N \in S
  BY <1>1, <1>4, <1>5, SetInduction
<1>7. Holds(u, N)
  BY <1>1, <1>2, <1>6 DEF S
<1>8. Taken(N) = ToSet(queue)
  BY <1>1 DEF ToSet
<1>9. QED
  BY <1>7, <1>8 DEF Holds

----------------------------------------------------------------------------
(* processRequestQueue keeps the lists, and every request that runs after it
   was left as it is, or sent. *)
ClientFields == \A d \in Client :
    /\ d.queue \in Seq(Reqs) /\ d.running \in Seq(Reqs) /\ d.msg \in [Reqs -> Nat]
    /\ d.ctoken \in [Reqs -> Nat] /\ d.olds \in [Reqs -> SUBSET Nat] /\ d.last \in Nat

LEMMA ClientHas == ClientFields
BY DEF ClientFields, Client

Swept(d, w, P, force, opened) ==
    /\ Proper(w) /\ Fits(w) /\ w.last >= d.last
    /\ ToSet(w.queue) \cup ToSet(w.running) = P
    /\ \A r \in ToSet(w.running) \ SaltRequests :
          \/ r \in ToSet(d.running) /\ w.msg[r] = d.msg[r] /\ w.ctoken[r] = d.ctoken[r] /\ ~force
          \/ r \in ToSet(d.running) /\ opened
          \/ w.msg[r] \in ToSet(w.out)

LEMMA PassKeeps ==
    ASSUME NEW P, NEW d, Lists(d, P), NEW tk \in Nat, NEW force, NEW opened, NEW late,
           NEW w, w = Pass(d, tk, force, opened, late)
    PROVE  /\ tk # 0 => Swept(d, w, P, force, opened)
           /\ tk = 0 => /\ w.queue = d.queue /\ w.running = d.running /\ w.msg = d.msg
                        /\ w.ctoken = d.ctoken /\ w.olds = d.olds /\ w.last = d.last /\ w.out = <<>>
<1> DEFINE w0 == [queue |-> d.queue, running |-> d.running, msg |-> d.msg, ctoken |-> d.ctoken,
                  olds |-> d.olds, last |-> d.last, out |-> <<>>, count |-> Len(d.running)]
<1>1. w = IF tk = 0 THEN w0 ELSE FirstAll(AgainAll(w0, tk, force, opened, late), d.queue, tk)
  BY Zenon DEF Pass
<1>2. /\ d.queue \in Seq(Reqs) /\ d.running \in Seq(Reqs) /\ d.msg \in [Reqs -> Nat]
      /\ d.ctoken \in [Reqs -> Nat] /\ d.olds \in [Reqs -> SUBSET Nat] /\ d.last \in Nat
  BY ClientHas DEF Lists, ClientFields
<1>3. /\ w0.queue = d.queue /\ w0.running = d.running /\ w0.msg = d.msg /\ w0.count = Len(d.running)
      /\ w0.ctoken = d.ctoken /\ w0.olds = d.olds /\ w0.last = d.last /\ w0.out = <<>>
  OBVIOUS
<1>4. Proper(w0)
  <2>1. <<>> \in Seq(Nat) /\ <<>> \in Seq(1..d.last) /\ Len(d.running) \in Nat
    BY <1>2
  <2>2. QED
    BY <1>2, <2>1 DEF Proper, Work
<1> HIDE DEF w0
<1>5. CASE tk = 0
  BY <1>1, <1>3, <1>5
<1>6. CASE tk # 0
  <2>1. PICK a, b : a = w0 /\ b = AgainAll(a, tk, force, opened, late)
    OBVIOUS
  <2>2. /\ Proper(a) /\ a.queue = d.queue /\ a.running = d.running /\ a.msg = d.msg
        /\ a.count = Len(d.running) /\ a.ctoken = d.ctoken /\ a.last = d.last
    BY <1>3, <1>4, <2>1
  <2>3. /\ Proper(b) /\ b.queue = a.queue /\ b.running = a.running /\ b.count = a.count
        /\ b.last >= a.last
        /\ \A r \in ToSet(a.running) \ SaltRequests :
              \/ b.msg[r] = a.msg[r] /\ b.ctoken[r] = a.ctoken[r] /\ ~force
              \/ opened
              \/ b.msg[r] \in ToSet(b.out)
    BY <2>1, <2>2, AgainAllKeeps
  <2>4. PICK q : q = d.queue
    OBVIOUS
  <2>5. w = FirstAll(b, q, tk)
    BY <1>1, <1>6, <2>1, <2>4
  <2>6. /\ b.count = Len(b.running) /\ Bounded(b.running) /\ IsInjective(b.running)
        /\ q \in Seq(Reqs) /\ IsInjective(q) /\ ToSet(q) \cap ToSet(b.running) = {}
    BY <1>2, <2>2, <2>3, <2>4 DEF Lists
  <2>7. /\ Proper(w) /\ Fits(w) /\ Begun(b, w)
        /\ ToSet(w.queue) \cup ToSet(w.running) = ToSet(q) \cup ToSet(b.running)
        /\ w.last >= b.last /\ ToSet(b.out) \subseteq ToSet(w.out)
    BY <2>3, <2>5, <2>6, FirstAllKeeps
  <2>8. w.last >= d.last
    <3>1. w.last \in Nat /\ b.last \in Nat
      BY <2>3, <2>7, WorkFields DEF Proper
    <3>2. QED
      BY <1>2, <2>2, <2>3, <2>7, <3>1
  <2>9. ToSet(w.queue) \cup ToSet(w.running) = P
    BY <2>2, <2>3, <2>4, <2>7 DEF Lists
  <2>10. ASSUME NEW r \in ToSet(w.running) \ SaltRequests
         PROVE  \/ r \in ToSet(d.running) /\ w.msg[r] = d.msg[r] /\ w.ctoken[r] = d.ctoken[r] /\ ~force
                \/ r \in ToSet(d.running) /\ opened
                \/ w.msg[r] \in ToSet(w.out)
    <3>1. \/ r \in ToSet(b.running) /\ w.msg[r] = b.msg[r] /\ w.ctoken[r] = b.ctoken[r]
          \/ w.msg[r] \in ToSet(w.out)
      BY <2>7 DEF Begun
    <3>2. QED
      BY <2>2, <2>3, <2>7, <3>1
  <2>11. QED
    BY <1>6, <2>7, <2>8, <2>9, <2>10 DEF Swept
<1>7. QED
  BY <1>5, <1>6

Sweeps(d, P, tk, force, opened) ==
    /\ Lists(c', P) /\ c'.last >= d.last
    /\ toServer' \in Seq(1..c'.last) /\ ToSet(toServer) \subseteq ToSet(toServer')
    /\ tk = 0 => c'.running = d.running /\ toServer' = toServer
    /\ tk # 0 => \A r \in ToSet(c'.running) \ SaltRequests :
          \/ r \in ToSet(d.running) /\ c'.msg[r] = d.msg[r] /\ c'.ctoken[r] = d.ctoken[r] /\ ~force
          \/ r \in ToSet(d.running) /\ opened
          \/ c'.msg[r] \in ToSet(toServer')

LEMMA ProcessedKeeps ==
    ASSUME NEW P, NEW d, Lists(d, P), NEW tk \in Nat, NEW force, NEW opened, NEW late,
           toServer \in Seq(1..d.last), Processed(d, tk, force, opened, late)
    PROVE  Sweeps(d, P, tk, force, opened)
<1>1. PICK w, e, ts, tt : /\ w = Pass(d, tk, force, opened, late)
                      /\ e = [queue |-> w.queue, running |-> w.running, msg |-> w.msg,
                              ctoken |-> w.ctoken, olds |-> w.olds, last |-> w.last]
                      /\ ts = toServer /\ tt = ts \o w.out /\ c' = e /\ toServer' = tt
  BY DEF Processed
<1>2. /\ e.queue = w.queue /\ e.running = w.running /\ e.msg = w.msg
      /\ e.ctoken = w.ctoken /\ e.olds = w.olds /\ e.last = w.last
  BY <1>1
<1>3. /\ d.queue \in Seq(Reqs) /\ d.running \in Seq(Reqs) /\ d.msg \in [Reqs -> Nat]
      /\ d.ctoken \in [Reqs -> Nat] /\ d.olds \in [Reqs -> SUBSET Nat] /\ d.last \in Nat
  BY ClientHas DEF Lists, ClientFields
<1>4. /\ tk # 0 => Swept(d, w, P, force, opened)
      /\ tk = 0 => /\ w.queue = d.queue /\ w.running = d.running /\ w.msg = d.msg
                   /\ w.ctoken = d.ctoken /\ w.olds = d.olds /\ w.last = d.last /\ w.out = <<>>
  BY <1>1, PassKeeps
<1>5. CASE tk = 0
  <2>1. e \in Client
    BY <1>1, <1>3, <1>4, <1>5 DEF Client
  <2>2. tt = ts
    <3>1. ts \in Seq(1..d.last)
      BY <1>1
    <3>2. tt = ts \o <<>>
      BY <1>1, <1>4, <1>5
    <3>3. QED
      BY <3>1, <3>2
  <2>3. e.running = d.running /\ e.queue = d.queue /\ e.last = d.last
    BY <1>2, <1>4, <1>5
  <2>4. Lists(e, P)
    BY <2>1, <2>3 DEF Lists
  <2>5. e.last >= d.last /\ tt \in Seq(1..e.last)
    BY <1>1, <1>3, <2>2, <2>3
  <2>6. QED
    BY <1>1, <1>5, <2>2, <2>3, <2>4, <2>5 DEF Sweeps
<1>6. CASE tk # 0
  <2>1. Swept(d, w, P, force, opened)
    BY <1>4, <1>6
  <2>2. w \in Work /\ w.out \in Seq(1..w.last) /\ w.last \in Nat /\ w.last >= d.last /\ d.last <= w.last
    BY <1>3, <2>1, WorkFields DEF Swept, Proper
  <2>3. e \in Client
    BY <1>1, <2>2, WorkFields DEF Client
  <2>4. Lists(e, P)
    BY <1>2, <2>1, <2>3 DEF Lists, Swept, Fits
  <2>5. ts \in Seq(1..w.last)
    BY <1>1, <1>3, <2>2, WiderIds
  <2>6. tt \in Seq(1..w.last) /\ ToSet(tt) = ToSet(ts) \cup ToSet(w.out)
    BY <1>1, <2>2, <2>5, Joined
  <2>7. ASSUME NEW r \in ToSet(e.running) \ SaltRequests
        PROVE  \/ r \in ToSet(d.running) /\ e.msg[r] = d.msg[r] /\ e.ctoken[r] = d.ctoken[r] /\ ~force
               \/ r \in ToSet(d.running) /\ opened
               \/ e.msg[r] \in ToSet(tt)
    BY <1>2, <2>1, <2>6 DEF Swept
  <2>8. QED
    BY <1>1, <1>2, <1>6, <2>2, <2>4, <2>6, <2>7 DEF Sweeps
<1>7. QED
  BY <1>5, <1>6

----------------------------------------------------------------------------
(* Tasks are taken from the head of their list, and posted at its end. *)
NotPosted(ts, t) ==
    /\ t.kind = "send" => /\ t.req \notin Posted(ts)
                          /\ \A i \in DOMAIN ts : Cancels(ts[i]) => ts[i].req # t.req
    /\ t.kind = "notify" => Notifies(ts) = {}

LEMMA TaskFields ==
    ASSUME NEW t \in Task
    PROVE  /\ t.kind \in {"send", "cancel", "notify", "cleanUp"} /\ t.req \in Reqs \cup {0}
           /\ \A k, r : t = [kind |-> k, req |-> r] <=> t.kind = k /\ t.req = r
BY DEF Task

LEMMA TaskTaken ==
    ASSUME NEW ts, NEW out, NEW n, TasksOf(ts, out, n), ts # <<>>
    PROVE  /\ TasksOf(Tail(ts), out, n) /\ TaskOf(Head(ts), out, n)
           /\ Head(ts).kind = "send" => /\ Head(ts).req \in Posted(ts)
                                        /\ Posted(Tail(ts)) = Posted(ts) \ {Head(ts).req}
           /\ Head(ts).kind # "send" => Posted(Tail(ts)) = Posted(ts)
           /\ Cancels(Head(ts)) => Head(ts).req \notin Posted(ts)
           /\ Notifies(Tail(ts)) # {} => Notifies(ts) # {} /\ Head(ts).kind # "notify"
           /\ Head(ts).kind = "notify" => Notifies(ts) # {}
<1> DEFINE t == Tail(ts)
           h == Head(ts)
           m == Len(ts) - 1
<1>1. /\ h = ts[1] /\ h \in Task /\ t \in Seq(Task) /\ m \in Nat
      /\ DOMAIN t = 1..m /\ DOMAIN ts = 1..(m + 1)
      /\ \A i \in 1..m : t[i] = ts[i + 1] /\ i + 1 \in 1..(m + 1)
  <2>1. /\ Head(ts) = ts[1] /\ Head(ts) \in Task /\ Tail(ts) \in Seq(Task)
        /\ Len(ts) \in Nat \ {0} /\ Len(Tail(ts)) = Len(ts) - 1
        /\ DOMAIN Tail(ts) = 1..(Len(ts) - 1) /\ DOMAIN ts = 1..Len(ts)
        /\ \A i \in 1..(Len(ts) - 1) : Tail(ts)[i] = ts[i + 1] /\ i + 1 \in 1..Len(ts)
    BY Behind DEF TasksOf
  <2>2. QED
    BY <2>1
<1>2. 1 \in 1..(m + 1) /\ \A i \in 1..(m + 1) : i = 1 \/ (i - 1 \in 1..m /\ ts[i] = t[i - 1])
  BY <1>1
<1> HIDE DEF t, h, m
<1>3. TaskOf(h, out, n)
  BY <1>1, <1>2 DEF TasksOf
<1>4. TasksOf(t, out, n)
  <2>1. \A i \in 1..m : TaskOf(t[i], out, n)
    BY <1>1 DEF TasksOf
  <2>2. \A i, j \in 1..m : t[i].kind = "send" /\ t[i] = t[j] => i = j
    <3> SUFFICES ASSUME NEW i \in 1..m, NEW j \in 1..m, t[i].kind = "send", t[i] = t[j] PROVE i = j
      OBVIOUS
    <3>1. i + 1 = j + 1
      BY <1>1 DEF TasksOf
    <3>2. QED
      BY <3>1
  <2>3. \A i, j \in 1..m : Cancels(t[i]) /\ t[j].kind = "send" /\ t[j].req = t[i].req => j < i
    <3> SUFFICES ASSUME NEW i \in 1..m, NEW j \in 1..m,
                        Cancels(t[i]), t[j].kind = "send", t[j].req = t[i].req
                 PROVE  j < i
      OBVIOUS
    <3>1. j + 1 < i + 1
      BY <1>1 DEF TasksOf
    <3>2. QED
      BY <3>1
  <2>4. \A i, j \in Notifies(t) : i = j
    <3> SUFFICES ASSUME NEW i \in Notifies(t), NEW j \in Notifies(t) PROVE i = j
      OBVIOUS
    <3>1. i \in 1..m /\ j \in 1..m /\ i + 1 \in Notifies(ts) /\ j + 1 \in Notifies(ts)
      BY <1>1 DEF Notifies
    <3>2. i + 1 = j + 1
      BY <3>1 DEF TasksOf
    <3>3. QED
      BY <3>1, <3>2
  <2>5. QED
    BY <1>1, <2>1, <2>2, <2>3, <2>4 DEF TasksOf
<1>5. Posted(t) \subseteq Posted(ts)
  BY <1>1 DEF Posted
<1>6. \A r \in Posted(ts) : r \in Posted(t) \/ h = [kind |-> "send", req |-> r]
  BY <1>1, <1>2 DEF Posted
<1>7. h.kind = "send" => h.req \in Posted(ts) /\ h.req \notin Posted(t)
  <2> SUFFICES ASSUME h.kind = "send" PROVE h.req \in Posted(ts) /\ h.req \notin Posted(t)
    OBVIOUS
  <2>1. h = [kind |-> "send", req |-> h.req] /\ h.req \in Reqs
    BY <1>1, <1>3 DEF TaskOf, Task
  <2>2. ASSUME NEW i \in 1..m, t[i] = h PROVE FALSE
    <3>1. ts[1] = ts[i + 1] /\ ts[1].kind = "send" /\ i + 1 \in 1..(m + 1)
      BY <1>1, <2>2
    <3>2. 1 = i + 1
      BY <1>1, <1>2, <3>1 DEF TasksOf
    <3>3. QED
      BY <3>2
  <2>3. QED
    BY <1>1, <1>2, <2>1, <2>2 DEF Posted
<1>8. Cancels(h) => h.req \notin Posted(ts)
  <2> SUFFICES ASSUME Cancels(h), NEW i \in 1..(m + 1), ts[i] = [kind |-> "send", req |-> h.req]
               PROVE  FALSE
    BY <1>1 DEF Posted
  <2>1. ts[i].kind = "send" /\ ts[i].req = ts[1].req
    BY <1>1
  <2>2. i < 1
    BY <1>1, <1>2, <2>1 DEF TasksOf
  <2>3. QED
    BY <2>2
<1>9. h.kind = "notify" => 1 \in Notifies(ts)
  BY <1>1, <1>2 DEF Notifies
<1>10. Notifies(t) # {} => Notifies(ts) # {} /\ h.kind # "notify"
  <2> SUFFICES ASSUME NEW i \in Notifies(t) PROVE Notifies(ts) # {} /\ h.kind # "notify"
    OBVIOUS
  <2>1. i \in 1..m /\ i + 1 \in Notifies(ts)
    BY <1>1 DEF Notifies
  <2>2. 1 # i + 1
    BY <2>1
  <2>3. QED
    BY <1>9, <2>1, <2>2 DEF TasksOf
<1>11. h.kind # "send" => Posted(t) = Posted(ts)
  <2>1. \A r : h = [kind |-> "send", req |-> r] => h.kind = "send"
    BY <1>1, TaskFields
  <2>2. QED
    BY <1>5, <1>6, <2>1
<1>12. h.kind = "send" => Posted(t) = Posted(ts) \ {h.req}
  <2>1. \A r : h = [kind |-> "send", req |-> r] => r = h.req
    BY <1>1, TaskFields
  <2>2. QED
    BY <1>5, <1>6, <1>7, <2>1
<1>13. QED
  BY <1>3, <1>4, <1>7, <1>8, <1>9, <1>10, <1>11, <1>12 DEF t, h

LEMMA TaskPosted ==
    ASSUME NEW ts, NEW out, NEW n, TasksOf(ts, out, n), NEW t, TaskOf(t, out, n), NotPosted(ts, t)
    PROVE  /\ TasksOf(Append(ts, t), out, n)
           /\ Posted(Append(ts, t)) = IF t.kind = "send" THEN Posted(ts) \cup {t.req} ELSE Posted(ts)
           /\ t.kind # "notify" => (Notifies(Append(ts, t)) # {} => Notifies(ts) # {})
<1> DEFINE u == Append(ts, t)
           m == Len(ts)
<1>1. /\ m \in Nat /\ DOMAIN ts = 1..m /\ DOMAIN u = 1..(m + 1) /\ u \in Seq(Task)
      /\ u[m + 1] = t /\ m + 1 \in 1..(m + 1)
      /\ \A i \in 1..m : u[i] = ts[i] /\ i \in 1..(m + 1)
  BY DEF TasksOf, TaskOf
<1>2. \A i \in 1..(m + 1) : i \in 1..m \/ i = m + 1
  BY <1>1
<1> HIDE DEF u, m
<1>3. t \in Task /\ (t.kind = "send" => t = [kind |-> "send", req |-> t.req] /\ t.req \in Reqs)
  BY TaskFields DEF TaskOf
<1>4. \A i \in 1..(m + 1) : TaskOf(u[i], out, n)
  BY <1>1, <1>2 DEF TasksOf
<1>5. Posted(u) = IF t.kind = "send" THEN Posted(ts) \cup {t.req} ELSE Posted(ts)
  <2>1. Posted(ts) \subseteq Posted(u)
    BY <1>1 DEF Posted
  <2>2. \A r \in Posted(u) : r \in Posted(ts) \/ t = [kind |-> "send", req |-> r]
    BY <1>1, <1>2 DEF Posted
  <2>3. \A r : t = [kind |-> "send", req |-> r] => r = t.req /\ t.kind = "send"
    BY <1>3, TaskFields
  <2>4. t.kind = "send" => t.req \in Posted(u)
    BY <1>1, <1>3 DEF Posted
  <2>5. QED
    BY <2>1, <2>2, <2>3, <2>4
<1>6. \A i, j \in 1..(m + 1) : u[i].kind = "send" /\ u[i] = u[j] => i = j
  <2>1. ASSUME NEW i \in 1..m, ts[i] = t, t.kind = "send" PROVE FALSE
    BY <1>1, <1>3, <2>1 DEF NotPosted, Posted
  <2>2. \A i, j \in 1..m : ts[i].kind = "send" /\ ts[i] = ts[j] => i = j
    BY <1>1 DEF TasksOf
  <2>3. QED
    BY <1>1, <1>2, <2>1, <2>2
<1>7. \A i, j \in 1..(m + 1) : Cancels(u[i]) /\ u[j].kind = "send" /\ u[j].req = u[i].req => j < i
  <2> SUFFICES ASSUME NEW i \in 1..(m + 1), NEW j \in 1..(m + 1),
                      Cancels(u[i]), u[j].kind = "send", u[j].req = u[i].req
               PROVE  j < i
    OBVIOUS
  <2>1. CASE i \in 1..m /\ j \in 1..m
    BY <1>1, <2>1 DEF TasksOf
  <2>2. CASE i \in 1..m /\ j = m + 1
    BY <1>1, <2>2 DEF NotPosted
  <2>3. CASE i = m + 1 /\ j \in 1..m
    BY <1>1, <2>3
  <2>4. CASE i = m + 1 /\ j = m + 1
    BY <1>1, <2>4 DEF Cancels
  <2>5. QED
    BY <1>2, <2>1, <2>2, <2>3, <2>4
<1>8. \A i \in Notifies(u) : i \in Notifies(ts) \/ (i = m + 1 /\ t.kind = "notify")
  BY <1>1, <1>2 DEF Notifies
<1>9. \A i, j \in Notifies(u) : i = j
  <2>1. \A i, j \in Notifies(ts) : i = j
    BY DEF TasksOf
  <2>2. t.kind = "notify" => Notifies(ts) = {}
    BY DEF NotPosted
  <2>3. QED
    BY <1>8, <2>1, <2>2
<1>10. QED
  BY <1>1, <1>4, <1>5, <1>6, <1>7, <1>8, <1>9 DEF TasksOf, u

(* What was made stays made. *)
LEMMA TasksLater ==
    ASSUME NEW ts, NEW out, NEW n \in Nat, NEW to, NEW k \in Nat, TasksOf(ts, out, n), k >= n,
           \A r \in Reqs : out[r] # "new" => to[r] # "new"
    PROVE  TasksOf(ts, to, k)
<1>1. ASSUME NEW t, TaskOf(t, out, n) PROVE TaskOf(t, to, k)
  BY <1>1 DEF TaskOf, Reqs
<1>2. QED
  BY <1>1 DEF TasksOf

----------------------------------------------------------------------------
(* The notices that start a request over whose message is m. *)
Restarts(a, m) ==
    \/ a.kind \in {"bad_msg", "bad_salt"}
    \/ a.kind = "bad_msg_20" /\ a.msg = m
    \/ a.kind = "new_session" /\ a.msg > m

Announced(m) == \E i \in DOMAIN toClient : Restarts(toClient[i], m)
Excused(m) == Known(m) \/ m \in forgotten \/ Announced(m)

CarriedFor(m) == m \in ToSet(toServer) \/ Excused(m)

LEMMA CarriedSays ==
    ASSUME TokenMeansSent, drops = 0, token # 0, NEW r \in Running \ SaltRequests, c.ctoken[r] = token
    PROVE  CarriedFor(c.msg[r])
BY DEF TokenMeansSent, CarriedFor, Excused, Announced, Restarts

LEMMA AnnouncedStill ==
    ASSUME toClient \in Seq(Answer \cup Notice), toClient # <<>>, toClient' = Tail(toClient),
           NEW m, Announced(m), ~Restarts(Head(toClient), m)
    PROVE  Announced(m)'
<1>1. PICK ts, tt : ts = toClient /\ tt = Tail(ts)
  OBVIOUS
<1>2. /\ Head(ts) = ts[1] /\ DOMAIN tt = 1..(Len(ts) - 1) /\ DOMAIN ts = 1..Len(ts) /\ Len(ts) \in Nat
      /\ \A i \in 1..(Len(ts) - 1) : tt[i] = ts[i + 1]
  BY <1>1, Behind
<1>3. PICK i \in 1..Len(ts) : Restarts(ts[i], m)
  BY <1>1, <1>2 DEF Announced
<1>4. i # 1
  BY <1>1, <1>2, <1>3
<1>5. i - 1 \in 1..(Len(ts) - 1) /\ i - 1 + 1 = i
  BY <1>2, <1>3, <1>4
<1>6. tt[i - 1] = ts[i]
  BY <1>2, <1>5
<1>7. toClient' = tt
  BY <1>1
<1>8. QED
  BY <1>2, <1>3, <1>5, <1>6, <1>7 DEF Announced

LEMMA AnnouncedMore ==
    ASSUME toClient \in Seq(Answer \cup Notice), NEW a \in Answer \cup Notice,
           toClient' = Append(toClient, a), NEW m, Announced(m) \/ Restarts(a, m)
    PROVE  Announced(m)'
<1>1. PICK ts, tt : ts = toClient /\ tt = Append(ts, a)
  OBVIOUS
<1>2. /\ DOMAIN tt = 1..(Len(ts) + 1) /\ DOMAIN ts = 1..Len(ts) /\ Len(ts) \in Nat
      /\ tt[Len(ts) + 1] = a /\ \A i \in 1..Len(ts) : tt[i] = ts[i]
  BY <1>1
<1>3. toClient' = tt
  BY <1>1
<1>4. CASE Restarts(a, m)
  <2>1. Len(ts) + 1 \in 1..(Len(ts) + 1)
    BY <1>2
  <2>2. QED
    BY <1>2, <1>3, <1>4, <2>1 DEF Announced
<1>5. CASE Announced(m)
  <2>1. PICK i \in 1..Len(ts) : Restarts(ts[i], m)
    BY <1>1, <1>2, <1>5 DEF Announced
  <2>2. i \in 1..(Len(ts) + 1) /\ tt[i] = ts[i]
    BY <1>2
  <2>3. QED
    BY <1>2, <1>3, <2>1, <2>2 DEF Announced
<1>6. QED
  BY <1>4, <1>5

(* After a pass: what was left as it is was covered before. *)
LEMMA CarriedBySweep ==
    ASSUME NEW d, NEW P, NEW force, NEW opened, Sweeps(d, P, token', force, opened),
           drops' = 0 /\ token' # 0 =>
               \A r \in ToSet(d.running) \ SaltRequests :
                   /\ ~opened
                   /\ force \/ (d.ctoken[r] = token' =>
                                   d.msg[r] \in ToSet(toServer) \/ Excused(d.msg[r])')
    PROVE  TokenMeansSent'
<1> SUFFICES ASSUME drops' = 0, token' # 0, NEW r \in ToSet(c'.running) \ SaltRequests,
                    c'.ctoken[r] = token'
             PROVE  CarriedFor(c.msg[r])'
  BY DEF TokenMeansSent, CarriedFor, Excused, Announced, Restarts, Running
<1>1. \/ r \in ToSet(d.running) /\ c'.msg[r] = d.msg[r] /\ c'.ctoken[r] = d.ctoken[r] /\ ~force
      \/ r \in ToSet(d.running) /\ opened
      \/ c'.msg[r] \in ToSet(toServer')
  BY DEF Sweeps
<1>2. PICK m : m = c'.msg[r]
  OBVIOUS
<1>3. CASE r \in ToSet(d.running) /\ c'.msg[r] = d.msg[r] /\ c'.ctoken[r] = d.ctoken[r] /\ ~force
  <2>1. m \in ToSet(toServer) \/ Excused(m)'
    BY <1>2, <1>3
  <2>2. ToSet(toServer) \subseteq ToSet(toServer')
    BY DEF Sweeps
  <2>3. CarriedFor(m)'
    BY <2>1, <2>2 DEF CarriedFor
  <2>4. QED
    BY <1>2, <2>3
<1>4. CASE r \in ToSet(d.running) /\ opened
  BY <1>4
<1>5. CASE c'.msg[r] \in ToSet(toServer')
  BY <1>5 DEF CarriedFor
<1>6. QED
  BY <1>1, <1>3, <1>4, <1>5

(* The complaints about salts among the answers ts. *)
BadOf(ts) == {i \in DOMAIN ts : ts[i].kind = "bad_salt"}

LEMMA BadFinite ==
    ASSUME NEW S, NEW ts \in Seq(S)
    PROVE  IsFiniteSet(BadOf(ts)) /\ Cardinality(BadOf(ts)) \in Nat
<1>1. Len(ts) \in Nat /\ DOMAIN ts = 1..Len(ts)
  OBVIOUS
<1>2. IsFiniteSet(1..Len(ts))
  <2>1. 1 \in Int /\ Len(ts) \in Int
    BY <1>1
  <2>2. QED
    BY <2>1, FS_Interval
<1>3. BadOf(ts) \in SUBSET (1..Len(ts))
  BY <1>1 DEF BadOf
<1>4. IsFiniteSet(BadOf(ts))
  BY <1>2, <1>3, FS_Subset
<1>5. QED
  BY <1>4, FS_CardinalityType

LEMMA BadTaken ==
    ASSUME NEW S, NEW ts \in Seq(S), ts # <<>>
    PROVE  /\ Cardinality(BadOf(Tail(ts))) <= Cardinality(BadOf(ts))
           /\ Head(ts).kind = "bad_salt" => Cardinality(BadOf(Tail(ts))) + 1 <= Cardinality(BadOf(ts))
<1> DEFINE B == BadOf(ts)
           T == BadOf(Tail(ts))
           C == BadOf(ts) \ {1}
           f == [i \in T |-> i + 1]
<1>1. /\ Head(ts) = ts[1] /\ Tail(ts) \in Seq(S) /\ Len(ts) \in Nat \ {0}
      /\ DOMAIN Tail(ts) = 1..(Len(ts) - 1) /\ DOMAIN ts = 1..Len(ts)
      /\ \A i \in 1..(Len(ts) - 1) : Tail(ts)[i] = ts[i + 1] /\ i + 1 \in 1..Len(ts)
  BY Behind
<1>2. \A i \in T : i \in 1..(Len(ts) - 1) /\ i + 1 \in B /\ i + 1 # 1
  BY <1>1 DEF BadOf
<1>3. IsFiniteSet(B) /\ Cardinality(B) \in Nat /\ Cardinality(T) \in Nat
  BY <1>1, BadFinite
<1>4. /\ IsFiniteSet(C)
      /\ Cardinality(C) = IF 1 \in B THEN Cardinality(B) - 1 ELSE Cardinality(B)
  BY <1>3, FS_RemoveElement
<1>5. Head(ts).kind = "bad_salt" => 1 \in B
  BY <1>1 DEF BadOf
<1> HIDE DEF B, T
<1>6. \A i \in T : i + 1 \in C
  BY <1>2 DEF B
<1> HIDE DEF C
<1>7. f \in Injection(T, C)
  <2>1. f \in [T -> C]
    BY <1>6
  <2>2. \A i, j \in T : f[i] = f[j] => i = j
    BY <1>2
  <2>3. QED
    BY <2>1, <2>2 DEF Injection, IsInjective
<1>8. Cardinality(T) <= Cardinality(C)
  BY <1>4, <1>7, FS_Injection
<1>9. QED
  BY <1>3, <1>4, <1>5, <1>8 DEF B, T

LEMMA BadMore ==
    ASSUME NEW S, NEW ts \in Seq(S), NEW a \in S
    PROVE  /\ a.kind # "bad_salt" => Cardinality(BadOf(Append(ts, a))) = Cardinality(BadOf(ts))
           /\ Cardinality(BadOf(Append(ts, a))) <= Cardinality(BadOf(ts)) + 1
<1> DEFINE u == Append(ts, a)
           k == Len(ts) + 1
<1>1. /\ u \in Seq(S) /\ DOMAIN ts = 1..Len(ts) /\ Len(ts) \in Nat /\ DOMAIN u = 1..k /\ u[k] = a
      /\ k \in 1..k
      /\ \A i \in 1..Len(ts) : u[i] = ts[i] /\ i # k /\ i \in 1..k
  OBVIOUS
<1>2. \A i \in 1..k : i \in 1..Len(ts) \/ i = k
  BY <1>1
<1> HIDE DEF u, k
<1>3. CASE a.kind # "bad_salt"
  <2>1. BadOf(u) = BadOf(ts)
    BY <1>1, <1>2, <1>3 DEF BadOf
  <2>2. Cardinality(BadOf(ts)) \in Nat
    BY BadFinite
  <2>3. QED
    BY <2>1, <2>2 DEF u
<1>4. CASE a.kind = "bad_salt"
  <2>1. BadOf(u) = BadOf(ts) \cup {k} /\ k \notin BadOf(ts)
    BY <1>1, <1>2, <1>4 DEF BadOf
  <2>2. Cardinality(BadOf(ts)) \in Nat /\ IsFiniteSet(BadOf(ts))
    BY BadFinite
  <2>3. Cardinality(BadOf(ts) \cup {k}) = IF k \in BadOf(ts) THEN Cardinality(BadOf(ts)) ELSE Cardinality(BadOf(ts)) + 1
    BY <2>2, FS_AddElement
  <2>4. QED
    BY <1>4, <2>1, <2>2, <2>3 DEF u
<1>5. QED
  BY <1>3, <1>4

----------------------------------------------------------------------------
(* What is done to the lists outside of a pass. *)
LEMMA BoundedLess ==
    ASSUME NEW s \in Seq(Reqs), NEW t \in Seq(Reqs), ToSet(t) \subseteq ToSet(s), Bounded(s)
    PROVE  Bounded(t)
<1> DEFINE A == ToSet(s) \ SaltRequests
           B == ToSet(t) \ SaltRequests
<1>1. IsFiniteSet(ToSet(s)) /\ A \in SUBSET ToSet(s) /\ B \in SUBSET A
  BY ListBound
<1>2. IsFiniteSet(A)
  BY <1>1, FS_Subset
<1>3. IsFiniteSet(B) /\ Cardinality(B) <= Cardinality(A)
  BY <1>1, <1>2, FS_Subset
<1>4. Cardinality(A) \in Nat /\ Cardinality(B) \in Nat /\ Limit \in Nat
  BY <1>2, <1>3, FS_CardinalityType, RequestsAssumption
<1>5. QED
  BY <1>3, <1>4 DEF Bounded

LEMMA ListsQueued ==
    ASSUME NEW P, NEW d, Lists(d, P), NEW r \in Reqs, r \notin P,
           NEW e, e = [d EXCEPT !.queue = Append(@, r)]
    PROVE  /\ Lists(e, P \cup {r}) /\ e.running = d.running /\ e.last = d.last
           /\ e.msg = d.msg /\ e.ctoken = d.ctoken
<1> DEFINE q == Append(d.queue, r)
<1>1. /\ d \in Client /\ d.queue \in Seq(Reqs)
  BY ClientHas DEF Lists, ClientFields
<1>2. q \in Seq(Reqs) /\ ToSet(q) = ToSet(d.queue) \cup {r}
  BY <1>1, Appended
<1>3. IsInjective(d.queue) /\ r \notin ToSet(d.queue) => IsInjective(q)
  BY <1>1, Appended
<1>4. e = [d EXCEPT !.queue = q]
  OBVIOUS
<1> HIDE DEF q
<1>5. e \in Client /\ e.queue = q /\ e.running = d.running /\ e.last = d.last
      /\ e.msg = d.msg /\ e.ctoken = d.ctoken
  BY <1>1, <1>2, <1>4 DEF Client
<1>6. Lists(e, P \cup {r})
  BY <1>2, <1>3, <1>5 DEF Lists
<1>7. QED
  BY <1>5, <1>6

Ended(d, r) == [d EXCEPT !.running = Erase(@, r)]

LEMMA ListsErased ==
    ASSUME NEW P, NEW d, Lists(d, P), NEW r, NEW e, e = Ended(d, r), r \in ToSet(d.running)
    PROVE  /\ Lists(e, P \ {r}) /\ ToSet(e.running) = ToSet(d.running) \ {r} /\ e.last = d.last
           /\ e.msg = d.msg /\ e.ctoken = d.ctoken
<1> DEFINE q == Erase(d.running, r)
<1>1. /\ d \in Client /\ d.running \in Seq(Reqs) /\ IsInjective(d.running) /\ Bounded(d.running)
  BY ClientHas DEF Lists, ClientFields
<1>2. q \in Seq(Reqs) /\ ToSet(q) = ToSet(d.running) \ {r} /\ IsInjective(q)
  BY <1>1, Erased
<1>3. e = [d EXCEPT !.running = q]
  BY DEF Ended
<1> HIDE DEF q
<1>4. Bounded(q)
  BY <1>1, <1>2, BoundedLess
<1>5. e \in Client /\ e.queue = d.queue /\ e.running = q /\ e.last = d.last
      /\ e.msg = d.msg /\ e.ctoken = d.ctoken
  BY <1>1, <1>2, <1>3 DEF Client
<1>6. Lists(e, P \ {r})
  BY <1>2, <1>4, <1>5 DEF Lists
<1>7. QED
  BY <1>2, <1>5, <1>6

Struck(d, r) == [d EXCEPT !.queue = Erase(@, r), !.running = Erase(@, r)]

LEMMA ListsCancelled ==
    ASSUME NEW P, NEW d, Lists(d, P), NEW r, NEW e, e = Struck(d, r)
    PROVE  /\ Lists(e, P \ {r}) /\ ToSet(e.running) = ToSet(d.running) \ {r} /\ e.last = d.last
           /\ e.msg = d.msg /\ e.ctoken = d.ctoken
<1> DEFINE q == Erase(d.running, r)
           p == Erase(d.queue, r)
<1>1. /\ d \in Client /\ d.running \in Seq(Reqs) /\ IsInjective(d.running) /\ Bounded(d.running)
      /\ d.queue \in Seq(Reqs) /\ IsInjective(d.queue)
  BY ClientHas DEF Lists, ClientFields
<1>2. q \in Seq(Reqs) /\ ToSet(q) = ToSet(d.running) \ {r} /\ IsInjective(q)
  BY <1>1, Erased
<1>3. p \in Seq(Reqs) /\ ToSet(p) = ToSet(d.queue) \ {r} /\ IsInjective(p)
  BY <1>1, Erased
<1>4. e = [d EXCEPT !.queue = p, !.running = q]
  BY DEF Struck
<1> HIDE DEF p, q
<1>5. Bounded(q)
  BY <1>1, <1>2, BoundedLess
<1>6. e \in Client /\ e.queue = p /\ e.running = q /\ e.last = d.last
      /\ e.msg = d.msg /\ e.ctoken = d.ctoken
  BY <1>1, <1>2, <1>3, <1>4 DEF Client
<1>7. Lists(e, P \ {r})
  BY <1>2, <1>3, <1>5, <1>6 DEF Lists
<1>8. QED
  BY <1>2, <1>6, <1>7

LEMMA ListsEmptied ==
    ASSUME NEW P, NEW d, Lists(d, P), NEW e, e = [d EXCEPT !.queue = <<>>, !.running = <<>>]
    PROVE  Lists(e, {}) /\ e.running = <<>> /\ e.last = d.last
<1>1. <<>> \in Seq(Reqs) /\ ToSet(<<>>) = {} /\ IsInjective(<<>>)
  BY DEF ToSet, IsInjective
<1>2. d \in Client /\ d.running \in Seq(Reqs) /\ Bounded(d.running)
  BY ClientHas DEF Lists, ClientFields
<1>3. e \in Client /\ e.queue = <<>> /\ e.running = <<>> /\ e.last = d.last
  BY <1>1, <1>2 DEF Client
<1>4. PICK z : z = <<>>
  OBVIOUS
<1>5. z \in Seq(Reqs) /\ ToSet(z) \subseteq ToSet(d.running)
  BY <1>1, <1>4
<1>6. Bounded(z)
  BY <1>2, <1>5, BoundedLess
<1>7. QED
  BY <1>1, <1>3, <1>4, <1>6 DEF Lists

LEMMA ListsCleared ==
    ASSUME NEW P, NEW d, Lists(d, P), NEW S, NEW e, e = Clear(d, S)
    PROVE  /\ Lists(e, P) /\ e.running = d.running /\ e.last = d.last
           /\ \A q \in Reqs : q \notin S => e.msg[q] = d.msg[q] /\ e.ctoken[q] = d.ctoken[q]
           /\ \A q \in Reqs : q \in S => e.ctoken[q] = 0
<1> DEFINE ms == Zeroed(d.msg, S)
           ct == Zeroed(d.ctoken, S)
<1>1. d \in Client /\ d.msg \in [Reqs -> Nat] /\ d.ctoken \in [Reqs -> Nat]
  BY ClientHas DEF Lists, ClientFields
<1>2. /\ ms \in [Reqs -> Nat] /\ ct \in [Reqs -> Nat]
      /\ \A q \in Reqs : q \notin S => ms[q] = d.msg[q] /\ ct[q] = d.ctoken[q]
      /\ \A q \in Reqs : q \in S => ct[q] = 0
  BY <1>1 DEF Zeroed
<1>3. e = [d EXCEPT !.msg = ms, !.ctoken = ct]
  BY Zenon DEF Clear
<1> HIDE DEF ms, ct
<1>4. e \in Client /\ e.queue = d.queue /\ e.running = d.running /\ e.last = d.last
      /\ e.msg = ms /\ e.ctoken = ct
  BY <1>1, <1>2, <1>3 DEF Client
<1>5. Lists(e, P)
  BY <1>4 DEF Lists
<1>6. QED
  BY <1>2, <1>4, <1>5

----------------------------------------------------------------------------
(* What a step may do to a request: the contract, in terms of the outcomes. *)
Revoked(r) ==
    \E i \in DOMAIN tasks : tasks[i].kind = "cleanUp" \/ (Cancels(tasks[i]) /\ tasks[i].req = r)

Move(r) ==
    \/ outcome'[r] = outcome[r] /\ calls'[r] = calls[r]
    \/ outcome[r] = "new" /\ outcome'[r] = "pending" /\ calls'[r] = calls[r]
    \/ /\ outcome[r] = "pending" /\ outcome'[r] \in {"cancelled", "cleared", "done"}
       /\ calls'[r] = calls[r] /\ (r \in DropRequests \/ Revoked(r))
    \/ /\ outcome[r] = "pending" /\ outcome'[r] = "done"
       /\ calls'[r] = calls[r] + 1 /\ r \notin DropRequests

Moves ==
    /\ \A r \in Reqs : Move(r)
    /\ \A r, q \in Reqs : calls'[r] # calls[r] /\ calls'[q] # calls[q] => r = q

(* The parts of the invariant that a step leaves alone. *)
LEMMA BooksKept ==
    ASSUME IInv, UNCHANGED <<tasks, outcome, calls, cleanUps>>, Lists(c', Pending \ Posted(tasks))
    PROVE  TasksFit' /\ NotifyFits' /\ Placed' /\ Counted' /\ Moves
BY DEF IInv, TasksFit, NotifyFits, Placed, Counted, Moves, Move, Pending, Unused, CompletedOnce

LEMMA SaltsKept ==
    ASSUME IInv, UNCHANGED <<outcome, requesting, cleanUps, toClient>>
    PROVE  SaltsLeft' /\ SaltsAreRequested'
BY DEF IInv, SaltsLeft, SaltsAreRequested, BadSalts, Unused

LEMMA LinkKept ==
    ASSUME IInv, UNCHANGED <<troubles, cleanUps, received, kept, forgotten, token, lastToken, drops>>,
           requesting' \in BOOLEAN, c'.last \in Nat, c'.last >= c.last, toServer' \in Seq(1..c'.last),
           toClient' \in Seq(Answer \cup Notice)
    PROVE  Linked'
<1>1. c.last \in Nat
  BY ClientHas DEF IInv, Placed, Lists, ClientFields
<1>2. 1..c.last \subseteq 1..c'.last
  BY <1>1
<1>3. QED
  BY <1>2 DEF IInv, Linked

LEMMA TokenType ==
    ASSUME IInv
    PROVE  token \in Nat /\ lastToken \in Nat /\ drops \in Nat
BY DEF IInv, Linked

(* The end of select. *)
LEMMA SelectKeeps ==
    ASSUME IInv, NEW late, Select(late)
    PROVE  IInv' /\ Moves
<1>1. PICK d, P, tk : d = c /\ P = Pending \ Posted(tasks) /\ tk = token
  OBVIOUS
<1>2. /\ Lists(d, P) /\ toServer \in Seq(1..d.last) /\ tk \in Nat
      /\ Processed(d, tk, FALSE, FALSE, late)
  BY <1>1, TokenType DEF IInv, Placed, Linked, Select
<1>3. Sweeps(d, P, tk, FALSE, FALSE)
  BY <1>2, ProcessedKeeps
<1>4. /\ UNCHANGED <<tasks, outcome, calls, requesting, toClient, troubles, cleanUps>>
      /\ UNCHANGED <<received, kept, forgotten, token, lastToken, drops>>
  BY DEF Select, server, link
<1>5. Lists(c', P) /\ c'.last >= c.last /\ toServer' \in Seq(1..c'.last) /\ c'.last \in Nat
  BY <1>1, <1>3, ClientHas DEF Sweeps, Lists, ClientFields
<1>6. TasksFit' /\ NotifyFits' /\ Placed' /\ Counted' /\ Moves
  BY <1>1, <1>4, <1>5, BooksKept
<1>7. SaltsLeft' /\ SaltsAreRequested'
  BY <1>4, SaltsKept
<1>8. requesting' \in BOOLEAN /\ toClient' \in Seq(Answer \cup Notice)
  BY <1>4 DEF IInv, Linked
<1>9. Linked'
  BY <1>4, <1>5, <1>8, LinkKept
<1>10. Untouched'
  BY <1>1, <1>3, <1>4 DEF IInv, Untouched, Sweeps
<1>11. TokenMeansSent'
  <2>1. ASSUME drops' = 0, token' # 0, NEW r \in ToSet(d.running) \ SaltRequests, d.ctoken[r] = token'
        PROVE  d.msg[r] \in ToSet(toServer) \/ Excused(d.msg[r])'
    <3>1. CarriedFor(c.msg[r])
      BY <1>1, <1>4, <2>1, CarriedSays DEF IInv, Running
    <3>2. QED
      BY <1>1, <1>4, <3>1 DEF CarriedFor, Excused, Known, Announced
  <2>2. Sweeps(d, P, token', FALSE, FALSE)
    BY <1>1, <1>3, <1>4
  <2>3. QED
    BY <2>1, <2>2, CarriedBySweep
<1>12. QED
  BY <1>6, <1>7, <1>9, <1>10, <1>11 DEF IInv

(* Steps that leave the network alone. *)
LEMMA NetKept ==
    ASSUME IInv, UNCHANGED <<c, requesting, toServer, toClient, received, kept, forgotten>>,
           UNCHANGED <<token, lastToken, drops>>,
           troubles' \in 0..MaxTroubles, troubles' >= troubles,
           cleanUps' \in Nat, cleanUps' >= cleanUps, cleanUps' <= troubles',
           \A r \in SaltRequests : outcome'[r] = outcome[r]
    PROVE  Linked' /\ Untouched' /\ SaltsLeft' /\ SaltsAreRequested' /\ TokenMeansSent'
<1>1. Linked'
  BY DEF IInv, Linked
<1>2. Untouched'
  BY DEF IInv, Untouched
<1>3. SaltsLeft'
  <2>1. Unused(SaltRequests)' = Unused(SaltRequests)
    BY DEF Unused
  <2>2. QED
    BY <2>1 DEF IInv, SaltsLeft, BadSalts
<1>4. SaltsAreRequested'
  BY DEF IInv, SaltsAreRequested, Linked
<1>5. TokenMeansSent'
  BY DEF IInv, TokenMeansSent, Running, Known
<1>6. QED
  BY <1>1, <1>2, <1>3, <1>4, <1>5

LEMMA OneOf ==
    ASSUME NEW S, S # {}
    PROVE  One(S) \in S
BY DEF One

LEMMA sendRequestKeeps ==
    ASSUME IInv, sendRequest
    PROVE  IInv' /\ Moves
<1>1. PICK ts, out, n, r, t :
          /\ ts = tasks /\ out = outcome /\ n = cleanUps /\ r = One(Unused(Rpcs))
          /\ t = [kind |-> "send", req |-> r]
  OBVIOUS
<1>2. PICK to, P : to = [out EXCEPT ![r] = "pending"] /\ P = Pending
  OBVIOUS
<1>3. /\ outcome' = to /\ tasks' = Append(ts, t)
      /\ UNCHANGED <<c, calls, requesting, toServer, toClient, troubles, cleanUps>>
      /\ UNCHANGED <<received, kept, forgotten, token, lastToken, drops>>
  BY <1>1, <1>2 DEF sendRequest, Post, server, link
<1>4. r \in Rpcs /\ r \in Reqs /\ out[r] = "new" /\ r \notin DropRequests /\ r \notin SaltRequests
  <2>1. One(Unused(Rpcs)) \in Unused(Rpcs)
    BY OneOf DEF sendRequest
  <2>2. QED
    BY <1>1, <2>1, RequestsAssumption DEF Unused, Reqs
<1>5. /\ out \in [Reqs -> Outcomes] /\ TasksOf(ts, out, n) /\ n \in Nat
      /\ Posted(ts) \subseteq P /\ Lists(c, P \ Posted(ts)) /\ P = {q \in Reqs : out[q] = "pending"}
  BY <1>1, <1>2 DEF IInv, Placed, TasksFit, Linked, Pending
<1>6. /\ to \in [Reqs -> Outcomes] /\ to[r] = "pending"
      /\ \A q \in Reqs : q # r => to[q] = out[q]
  BY <1>2, <1>4, <1>5 DEF Outcomes
<1>7. TasksOf(ts, to, n)
  <2>1. \A q \in Reqs : out[q] # "new" => to[q] # "new"
    BY <1>6
  <2>2. n >= n
    BY <1>5
  <2>3. QED
    BY <1>5, <2>1, <2>2, TasksLater
<1>8. t \in Task /\ t.kind = "send" /\ t.req = r
  BY <1>1, <1>4 DEF Task
<1>9. TaskOf(t, to, n) /\ NotPosted(ts, t)
  BY <1>4, <1>5, <1>8 DEF TaskOf, Cancels, NotPosted, TasksOf
<1>10. /\ TasksOf(Append(ts, t), to, n) /\ Posted(Append(ts, t)) = Posted(ts) \cup {r}
       /\ Notifies(Append(ts, t)) # {} => Notifies(ts) # {}
  BY <1>7, <1>8, <1>9, TaskPosted
<1>11. TasksFit'
  BY <1>1, <1>3, <1>10 DEF TasksFit
<1>12. NotifyFits'
  <2>1. Unused(DropRequests)' = Unused(DropRequests)
    BY <1>1, <1>3, <1>4, <1>6 DEF Unused, Reqs
  <2>2. QED
    BY <1>1, <1>3, <1>10, <2>1 DEF IInv, NotifyFits
<1>13. Pending' = P \cup {r}
  BY <1>3, <1>4, <1>5, <1>6 DEF Pending
<1>14. Placed'
  <2>1. (P \cup {r}) \ (Posted(ts) \cup {r}) = P \ Posted(ts)
    BY <1>4, <1>5
  <2>2. QED
    BY <1>3, <1>5, <1>6, <1>10, <1>13, <2>1 DEF Placed
<1>15. Counted' /\ Moves
  BY <1>1, <1>3, <1>4, <1>6 DEF IInv, Counted, CompletedOnce, Moves, Move
<1>16. Linked' /\ Untouched' /\ SaltsLeft' /\ SaltsAreRequested' /\ TokenMeansSent'
  <2>1. /\ troubles' \in 0..MaxTroubles /\ troubles' >= troubles
        /\ cleanUps' \in Nat /\ cleanUps' >= cleanUps /\ cleanUps' <= troubles'
    BY <1>3, RequestsAssumption DEF IInv, Linked
  <2>2. \A q \in SaltRequests : outcome'[q] = outcome[q]
    BY <1>1, <1>3, <1>4, <1>6 DEF Reqs
  <2>3. QED
    BY <1>3, <2>1, <2>2, NetKept
<1>17. QED
  BY <1>11, <1>12, <1>14, <1>15, <1>16 DEF IInv

LEMMA TroubleCounts ==
    ASSUME IInv, Trouble
    PROVE  /\ troubles' \in 0..MaxTroubles /\ troubles' >= troubles /\ troubles' = troubles + 1
           /\ cleanUps \in Nat /\ cleanUps >= cleanUps /\ cleanUps <= troubles' /\ cleanUps + 1 <= troubles'
           /\ drops + 1 <= troubles' /\ troubles \in Nat
BY RequestsAssumption DEF IInv, Linked, Trouble

LEMMA cancelRequestKeeps ==
    ASSUME IInv, NEW r \in Rpcs, cancelRequest(r)
    PROVE  IInv' /\ Moves
<1>1. PICK ts, out, n, k, t :
          /\ ts = tasks /\ out = outcome /\ n = cleanUps /\ k \in {"cancel", "notify"}
          /\ t = [kind |-> k, req |-> r] /\ tasks' = Append(ts, t)
          /\ k = "notify" => Unused(DropRequests) # {} /\ Notifies(ts) = {}
  BY DEF cancelRequest, Post, Notifies
<1>2. /\ UNCHANGED <<c, outcome, calls, requesting, toServer, toClient, cleanUps>>
      /\ UNCHANGED <<received, kept, forgotten, token, lastToken, drops>>
      /\ Trouble /\ outcome[r] = "pending"
  BY DEF cancelRequest, server, link
<1>3. TasksOf(ts, out, n)
  BY <1>1 DEF IInv, TasksFit
<1>4. t \in Task /\ t.kind = k /\ t.req = r /\ k # "send" /\ k # "cleanUp"
  BY <1>1 DEF Task, Reqs
<1>5. TaskOf(t, out, n) /\ NotPosted(ts, t)
  BY <1>1, <1>2, <1>4 DEF TaskOf, Cancels, NotPosted
<1>6. /\ TasksOf(Append(ts, t), out, n) /\ Posted(Append(ts, t)) = Posted(ts)
      /\ k # "notify" => (Notifies(Append(ts, t)) # {} => Notifies(ts) # {})
  BY <1>3, <1>4, <1>5, TaskPosted
<1>7. TasksFit'
  BY <1>1, <1>2, <1>6 DEF TasksFit
<1>8. NotifyFits'
  BY <1>1, <1>2, <1>6 DEF IInv, NotifyFits, Unused
<1>9. Placed'
  BY <1>1, <1>2, <1>6 DEF IInv, Placed, Pending
<1>10. Counted' /\ Moves
  BY <1>2 DEF IInv, Counted, CompletedOnce, Moves, Move
<1>11. Linked' /\ Untouched' /\ SaltsLeft' /\ SaltsAreRequested' /\ TokenMeansSent'
  <2>1. /\ troubles' \in 0..MaxTroubles /\ troubles' >= troubles
        /\ cleanUps' \in Nat /\ cleanUps' >= cleanUps /\ cleanUps' <= troubles'
    BY <1>2, TroubleCounts
  <2>2. QED
    BY <1>2, <2>1, NetKept
<1>12. QED
  BY <1>7, <1>8, <1>9, <1>10, <1>11 DEF IInv

LEMMA cleanUpKeeps ==
    ASSUME IInv, cleanUp
    PROVE  IInv' /\ Moves
<1>1. PICK ts, out, n, k, t :
          /\ ts = tasks /\ out = outcome /\ n = cleanUps /\ k = cleanUps + 1
          /\ t = [kind |-> "cleanUp", req |-> 0] /\ tasks' = Append(ts, t)
  BY DEF cleanUp, Post
<1>2. /\ UNCHANGED <<c, outcome, calls, requesting, toServer, toClient>>
      /\ UNCHANGED <<received, kept, forgotten, token, lastToken, drops>>
      /\ Trouble /\ cleanUps' = k
  BY <1>1 DEF cleanUp, server, link
<1>3. TasksOf(ts, out, n) /\ n \in Nat /\ k \in Nat /\ k >= n /\ k > 0
  BY <1>1 DEF IInv, TasksFit, Linked
<1>4. TasksOf(ts, out, k)
  BY <1>3, TasksLater
<1>5. t \in Task /\ t.kind = "cleanUp" /\ t.req = 0
  BY <1>1 DEF Task
<1>6. TaskOf(t, out, k) /\ NotPosted(ts, t)
  BY <1>3, <1>5 DEF TaskOf, Cancels, NotPosted
<1>7. /\ TasksOf(Append(ts, t), out, k) /\ Posted(Append(ts, t)) = Posted(ts)
      /\ Notifies(Append(ts, t)) # {} => Notifies(ts) # {}
  BY <1>4, <1>5, <1>6, TaskPosted
<1>8. TasksFit'
  BY <1>1, <1>2, <1>7 DEF TasksFit
<1>9. NotifyFits'
  BY <1>1, <1>2, <1>7 DEF IInv, NotifyFits, Unused
<1>10. Placed'
  BY <1>1, <1>2, <1>7 DEF IInv, Placed, Pending
<1>11. Counted' /\ Moves
  BY <1>2 DEF IInv, Counted, CompletedOnce, Moves, Move
<1>12. Linked' /\ Untouched' /\ SaltsLeft' /\ SaltsAreRequested' /\ TokenMeansSent'
  <2>1. /\ troubles' \in 0..MaxTroubles /\ troubles' >= troubles
        /\ cleanUps' \in Nat /\ cleanUps' >= cleanUps /\ cleanUps' <= troubles'
    BY <1>1, <1>2, <1>3, TroubleCounts
  <2>2. QED
    BY <1>2, <2>1, NetKept
<1>13. QED
  BY <1>8, <1>9, <1>10, <1>11, <1>12 DEF IInv

(* A step that ends with a pass over the lists of d, or leaves them so. *)
LEMMA NoSweep ==
    ASSUME NEW P, NEW d, Lists(d, P), NEW tk, toServer \in Seq(1..d.last),
           c' = d, toServer' = toServer
    PROVE  Sweeps(d, P, tk, FALSE, FALSE)
<1>1. d.last \in Nat
  BY ClientHas DEF Lists, ClientFields
<1>2. QED
  BY <1>1 DEF Sweeps

Covers(d, force) ==
    \A r \in ToSet(d.running) \ SaltRequests :
        \/ force \/ d.ctoken[r] = 0
        \/ /\ r \in Running /\ d.ctoken[r] = c.ctoken[r] /\ d.msg[r] = c.msg[r]
           /\ Announced(d.msg[r]) => Announced(d.msg[r])'

LEMMA NetSwept ==
    ASSUME IInv, NEW P, NEW d, NEW force, Sweeps(d, P, token, force, FALSE), d.last = c.last,
           c.running = <<>> => d.running = <<>>,
           UNCHANGED <<troubles, cleanUps, received, kept, forgotten, token, lastToken, drops>>,
           requesting' \in BOOLEAN, toClient' \in Seq(Answer \cup Notice),
           toClient = <<>> => toClient' = <<>>,
           Covers(d, force)
    PROVE  Linked' /\ Untouched' /\ TokenMeansSent'
<1>1. Lists(c', P) /\ c'.last >= c.last /\ toServer' \in Seq(1..c'.last) /\ c'.last \in Nat
  BY ClientHas DEF Sweeps, Lists, ClientFields
<1>2. Linked'
  BY <1>1, LinkKept
<1>3. Untouched'
  BY DEF IInv, Untouched, Sweeps
<1>4. TokenMeansSent'
  <2>1. ASSUME drops' = 0, token' # 0, NEW r \in ToSet(d.running) \ SaltRequests,
               ~force, d.ctoken[r] = token'
        PROVE  d.msg[r] \in ToSet(toServer) \/ Excused(d.msg[r])'
    <3>1. /\ r \in Running \ SaltRequests /\ c.ctoken[r] = token /\ d.msg[r] = c.msg[r]
          /\ Announced(d.msg[r]) => Announced(d.msg[r])'
      BY <2>1 DEF Covers
    <3>2. CarriedFor(c.msg[r])
      BY <2>1, <3>1, CarriedSays DEF IInv
    <3>3. QED
      BY <3>1, <3>2 DEF CarriedFor, Excused, Known
  <2>2. Sweeps(d, P, token', force, FALSE)
    OBVIOUS
  <2>3. drops' = 0 /\ token' # 0 =>
            \A r \in ToSet(d.running) \ SaltRequests :
                /\ ~FALSE
                /\ force \/ (d.ctoken[r] = token' =>
                                d.msg[r] \in ToSet(toServer) \/ Excused(d.msg[r])')
    BY <2>1
  <2>4. QED
    BY <2>2, <2>3, CarriedBySweep
<1>5. QED
  BY <1>2, <1>3, <1>4

LEMMA SaltsSame ==
    ASSUME IInv, UNCHANGED <<requesting, cleanUps, toClient>>,
           \A r \in SaltRequests : outcome'[r] = outcome[r]
    PROVE  SaltsLeft' /\ SaltsAreRequested'
<1>1. Unused(SaltRequests)' = Unused(SaltRequests)
  BY DEF Unused
<1>2. QED
  BY <1>1 DEF IInv, SaltsLeft, SaltsAreRequested, BadSalts

(* What a task leaves alone. *)
Elsewhere ==
    UNCHANGED <<toClient, troubles, cleanUps, received, kept, forgotten, token, lastToken, drops>>

LEMMA SendTaskKeeps ==
    ASSUME IInv, tasks # <<>>, Head(tasks).kind = "send", SendTask(Head(tasks).req), Elsewhere
    PROVE  IInv' /\ Moves
<1>1. PICK ts, out, n, r, P, Q, b, d :
          /\ ts = tasks /\ out = outcome /\ n = cleanUps /\ r = Head(ts).req /\ b = c
          /\ d = [b EXCEPT !.queue = Append(@, r)] /\ P = Pending /\ Q = P \ Posted(ts)
  OBVIOUS
<1>2. /\ TasksOf(ts, out, n) /\ ts # <<>> /\ Posted(ts) \subseteq P /\ Lists(b, Q)
      /\ Head(ts).kind = "send" /\ P \subseteq Reqs
  BY <1>1 DEF IInv, TasksFit, Placed, Pending
<1>3. /\ TasksOf(Tail(ts), out, n) /\ TaskOf(Head(ts), out, n)
      /\ r \in Posted(ts) /\ Posted(Tail(ts)) = Posted(ts) \ {r}
      /\ Notifies(Tail(ts)) # {} => Notifies(ts) # {}
  BY <1>1, <1>2, TaskTaken
<1>4. /\ Lists(d, Q \cup {r}) /\ d.running = b.running /\ d.last = b.last
      /\ d.msg = b.msg /\ d.ctoken = b.ctoken
  <2>1. r \in Reqs /\ r \notin Q
    BY <1>1, <1>2, <1>3
  <2>2. d = [b EXCEPT !.queue = Append(@, r)] /\ Lists(b, Q)
    BY <1>1, <1>2
  <2>3. QED
    BY <2>1, <2>2, ListsQueued
<1>5. P \ Posted(Tail(ts)) = Q \cup {r}
  BY <1>1, <1>2, <1>3
<1>6. /\ tasks' = Tail(ts) /\ UNCHANGED <<outcome, calls, requesting>>
      /\ UNCHANGED <<toClient, troubles, cleanUps, received, kept, forgotten, token, lastToken, drops>>
      /\ \/ \E late \in Lates(d) : Processed(d, token, FALSE, FALSE, late)
         \/ c' = d /\ toServer' = toServer
  BY <1>1 DEF SendTask, Elsewhere
<1>7. PICK tk : tk = token
  OBVIOUS
<1>8. toServer \in Seq(1..d.last) /\ tk \in Nat
  BY <1>1, <1>4, <1>7, TokenType DEF IInv, Linked
<1>9. Sweeps(d, Q \cup {r}, tk, FALSE, FALSE)
  <2>1. CASE c' = d /\ toServer' = toServer
    BY <1>4, <1>8, <2>1, NoSweep
  <2>2. CASE \E late \in Lates(d) : Processed(d, token, FALSE, FALSE, late)
    <3>1. PICK late : Processed(d, tk, FALSE, FALSE, late)
      BY <1>7, <2>2
    <3>2. QED
      BY <1>4, <1>8, <3>1, ProcessedKeeps
  <2>3. QED
    BY <1>6, <2>1, <2>2
<1>10. Linked' /\ Untouched' /\ TokenMeansSent'
  <2>1. requesting' \in BOOLEAN /\ toClient' \in Seq(Answer \cup Notice)
    BY <1>6 DEF IInv, Linked
  <2>2. Covers(d, FALSE)
    BY <1>1, <1>4, <1>6 DEF Covers, Running, Announced
  <2>3. Sweeps(d, Q \cup {r}, token, FALSE, FALSE)
    BY <1>7, <1>9
  <2>4. QED
    BY <1>1, <1>4, <1>6, <2>1, <2>2, <2>3, NetSwept
<1>11. SaltsLeft' /\ SaltsAreRequested'
  BY <1>6, SaltsSame
<1>12. Lists(c', P \ Posted(Tail(ts)))
  BY <1>5, <1>9 DEF Sweeps
<1>13. TasksFit'
  BY <1>1, <1>3, <1>6 DEF TasksFit
<1>14. NotifyFits'
  BY <1>1, <1>3, <1>6 DEF IInv, NotifyFits, Unused
<1>15. Placed'
  BY <1>1, <1>2, <1>3, <1>6, <1>12 DEF IInv, Placed, Pending
<1>16. Counted' /\ Moves
  BY <1>6 DEF IInv, Counted, CompletedOnce, Moves, Move
<1>17. QED
  BY <1>10, <1>11, <1>13, <1>14, <1>15, <1>16 DEF IInv

LEMMA CleanUpTaskKeeps ==
    ASSUME IInv, tasks # <<>>, Head(tasks).kind = "cleanUp", CleanUpTask, Elsewhere
    PROVE  IInv' /\ Moves
<1>1. PICK ts, out, n, P, b, d, to :
          /\ ts = tasks /\ out = outcome /\ n = cleanUps /\ b = c /\ P = Pending
          /\ d = [b EXCEPT !.queue = <<>>, !.running = <<>>]
          /\ to = [r \in Reqs |-> IF r \in Running \cup ToSet(c.queue) THEN "cleared" ELSE out[r]]
  OBVIOUS
<1>2. /\ TasksOf(ts, out, n) /\ ts # <<>> /\ Posted(ts) \subseteq P /\ Lists(b, P \ Posted(ts))
      /\ Head(ts).kind = "cleanUp" /\ P = {r \in Reqs : out[r] = "pending"}
      /\ out \in [Reqs -> Outcomes] /\ n \in Nat
  BY <1>1 DEF IInv, TasksFit, Placed, Pending, Linked
<1>3. /\ TasksOf(Tail(ts), out, n) /\ TaskOf(Head(ts), out, n) /\ Posted(Tail(ts)) = Posted(ts)
      /\ Notifies(Tail(ts)) # {} => Notifies(ts) # {}
  BY <1>2, TaskTaken
<1>4. Lists(d, {}) /\ d.running = <<>> /\ d.last = b.last
  BY <1>1, <1>2, ListsEmptied
<1>5. /\ tasks' = Tail(ts) /\ c' = d /\ outcome' = to /\ UNCHANGED <<calls, requesting, toServer>>
      /\ UNCHANGED <<toClient, troubles, cleanUps, received, kept, forgotten, token, lastToken, drops>>
  BY <1>1 DEF CleanUpTask, Elsewhere
<1>6. \A r \in Reqs : to[r] = IF r \in P \ Posted(ts) THEN "cleared" ELSE out[r]
  <2>1. Running \cup ToSet(c.queue) = P \ Posted(ts)
    BY <1>1, <1>2 DEF Lists, Running
  <2>2. QED
    BY <1>1, <2>1
<1>7. to \in [Reqs -> Outcomes]
  BY <1>1, <1>2 DEF Outcomes
<1>8. /\ \A r \in Reqs : out[r] # "new" => to[r] # "new"
      /\ \A r \in Reqs : to[r] = "new" <=> out[r] = "new"
      /\ \A r \in Reqs : to[r] = "pending" <=> r \in Posted(ts)
      /\ \A r \in Reqs : to[r] = "done" <=> out[r] = "done"
      /\ \A r \in Reqs : to[r] # out[r] => out[r] = "pending" /\ to[r] = "cleared"
  BY <1>2, <1>6
<1>9. TasksFit'
  <2>1. TasksOf(Tail(ts), to, n)
    <3>1. n >= n
      BY <1>2
    <3>2. QED
      BY <1>2, <1>3, <1>8, <3>1, TasksLater
  <2>2. QED
    BY <1>1, <1>5, <2>1 DEF TasksFit
<1>10. NotifyFits'
  <2>1. Unused(DropRequests)' = Unused(DropRequests)
    BY <1>1, <1>5, <1>8 DEF Unused, Reqs
  <2>2. QED
    BY <1>1, <1>3, <1>5, <2>1 DEF IInv, NotifyFits
<1>11. Placed'
  <2>1. Pending' = Posted(ts)
    BY <1>2, <1>5, <1>8 DEF Pending
  <2>2. Posted(ts) \ Posted(ts) = {}
    OBVIOUS
  <2>3. QED
    BY <1>3, <1>4, <1>5, <1>7, <2>1, <2>2 DEF Placed
<1>12. Counted'
  BY <1>1, <1>5, <1>8 DEF IInv, Counted, CompletedOnce
<1>13. Moves
  <2>1. ts[1].kind = "cleanUp" /\ 1 \in DOMAIN ts
    BY <1>2, Behind DEF TasksOf
  <2>2. \A r : Revoked(r)
    BY <1>1, <2>1 DEF Revoked
  <2>3. QED
    BY <1>1, <1>5, <1>8, <2>2 DEF Moves, Move
<1>14. Linked' /\ Untouched' /\ TokenMeansSent'
  <2>1. requesting' \in BOOLEAN /\ toClient' \in Seq(Answer \cup Notice) /\ toServer \in Seq(1..d.last)
    BY <1>1, <1>4, <1>5 DEF IInv, Linked
  <2>2. PICK tk, E : tk = token /\ E = {}
    OBVIOUS
  <2>3. Sweeps(d, E, tk, FALSE, FALSE)
    BY <1>4, <1>5, <2>1, <2>2, NoSweep
  <2>4. Sweeps(d, E, token, FALSE, FALSE)
    BY <2>2, <2>3
  <2>5. Covers(d, FALSE)
    BY <1>4 DEF Covers, ToSet
  <2>6. QED
    BY <1>1, <1>4, <1>5, <2>1, <2>4, <2>5, NetSwept
<1>15. SaltsLeft' /\ SaltsAreRequested'
  <2>1. Unused(SaltRequests)' = Unused(SaltRequests)
    BY <1>1, <1>5, <1>8 DEF Unused, Reqs
  <2>2. cleanUps' # 0
    BY <1>1, <1>2, <1>3, <1>5 DEF TaskOf
  <2>3. QED
    BY <1>5, <2>1, <2>2 DEF IInv, SaltsLeft, SaltsAreRequested, BadSalts
<1>16. QED
  BY <1>9, <1>10, <1>11, <1>12, <1>13, <1>14, <1>15 DEF IInv

LEMMA CancelTaskKeeps ==
    ASSUME IInv, tasks # <<>>, Cancels(Head(tasks)),
           CancelTask(Head(tasks).req, Head(tasks).kind = "notify"), Elsewhere
    PROVE  IInv' /\ Moves
<1>1. PICK ts, out, n, r, P, Q, b, d, o, e :
          /\ ts = tasks /\ out = outcome /\ n = cleanUps /\ r = Head(ts).req /\ b = c
          /\ d = [b EXCEPT !.queue = Erase(@, r), !.running = Erase(@, r)]
          /\ P = Pending /\ Q = P \ Posted(ts)
          /\ o = (IF out[r] = "pending" THEN [out EXCEPT ![r] = "cancelled"] ELSE out)
          /\ e = One(Unused(DropRequests))
  OBVIOUS
<1>2. /\ TasksOf(ts, out, n) /\ ts # <<>> /\ Posted(ts) \subseteq P /\ Lists(b, Q)
      /\ Cancels(Head(ts)) /\ P = {q \in Reqs : out[q] = "pending"}
      /\ out \in [Reqs -> Outcomes] /\ n \in Nat
  BY <1>1 DEF IInv, TasksFit, Placed, Pending, Linked
<1>3. /\ TasksOf(Tail(ts), out, n) /\ TaskOf(Head(ts), out, n) /\ Posted(Tail(ts)) = Posted(ts)
      /\ r \notin Posted(ts)
      /\ Notifies(Tail(ts)) # {} => Notifies(ts) # {} /\ Head(ts).kind # "notify"
      /\ Head(ts).kind = "notify" => Notifies(ts) # {}
  <2>1. Head(ts).kind # "send"
    BY <1>2 DEF Cancels
  <2>2. QED
    BY <1>1, <1>2, <2>1, TaskTaken
<1>4. r \in Rpcs /\ r \in Reqs /\ r \notin DropRequests /\ r \notin SaltRequests
  BY <1>1, <1>2, <1>3, RequestsAssumption DEF TaskOf, Reqs
<1>5. /\ Lists(d, Q \ {r}) /\ ToSet(d.running) = ToSet(b.running) \ {r} /\ d.last = b.last
      /\ d.msg = b.msg /\ d.ctoken = b.ctoken
  <2>1. d = Struck(b, r) /\ Lists(b, Q)
    BY <1>1, <1>2 DEF Struck
  <2>2. QED
    BY <2>1, ListsCancelled
<1>6. /\ c' = d /\ UNCHANGED <<calls, requesting, toServer>>
      /\ UNCHANGED <<toClient, troubles, cleanUps, received, kept, forgotten, token, lastToken, drops>>
      /\ \/ /\ Head(ts).kind = "notify"
            /\ outcome' = [o EXCEPT ![e] = "pending"]
            /\ tasks' = Append(Tail(ts), [kind |-> "send", req |-> e])
         \/ outcome' = o /\ tasks' = Tail(ts)
  BY <1>1, Zenon DEF CancelTask, Elsewhere
<1>7. /\ o \in [Reqs -> Outcomes]
      /\ \A q \in Reqs : q # r => o[q] = out[q]
      /\ o[r] # "pending" /\ (o[r] = "new" <=> out[r] = "new") /\ (o[r] = "done" <=> out[r] = "done")
      /\ o[r] = out[r] \/ (out[r] = "pending" /\ o[r] = "cancelled")
  BY <1>1, <1>2, <1>4 DEF Outcomes
<1>8. TasksOf(Tail(ts), o, n)
  <2>1. n >= n /\ \A q \in Reqs : out[q] # "new" => o[q] # "new"
    BY <1>2, <1>4, <1>7
  <2>2. QED
    BY <1>2, <1>3, <2>1, TasksLater
<1>9. Revoked(r)
  <2>1. ts[1] = Head(ts) /\ 1 \in DOMAIN ts
    BY <1>2, Behind DEF TasksOf
  <2>2. QED
    BY <1>1, <1>2, <2>1 DEF Revoked
<1>10. Linked' /\ Untouched' /\ TokenMeansSent'
  <2>1. requesting' \in BOOLEAN /\ toClient' \in Seq(Answer \cup Notice) /\ toServer \in Seq(1..d.last)
    BY <1>1, <1>5, <1>6 DEF IInv, Linked
  <2>2. PICK tk, E : tk = token /\ E = Q \ {r}
    OBVIOUS
  <2>3. Sweeps(d, E, tk, FALSE, FALSE)
    BY <1>5, <1>6, <2>1, <2>2, NoSweep
  <2>4. Sweeps(d, E, token, FALSE, FALSE)
    BY <2>2, <2>3
  <2>5. Covers(d, FALSE)
    BY <1>1, <1>5, <1>6 DEF Covers, Running, Announced
  <2>6. c.running = <<>> => d.running = <<>>
    <3> SUFFICES ASSUME c.running = <<>> PROVE d.running = <<>>
      OBVIOUS
    <3>1. d.running \in Seq(Reqs) /\ b.running \in Seq(Reqs)
      BY <1>2, <1>5, ClientHas DEF Lists, ClientFields
    <3>2. ToSet(b.running) = {}
      BY <1>1, <3>1, EmptyList
    <3>3. ToSet(d.running) = {}
      BY <1>5, <3>2
    <3>4. QED
      BY <3>1, <3>3, EmptyList
  <2>7. QED
    BY <1>1, <1>5, <1>6, <2>1, <2>4, <2>5, <2>6, NetSwept
<1>11. CASE outcome' = o /\ tasks' = Tail(ts)
  <2>1. TasksFit'
    BY <1>1, <1>6, <1>8, <1>11 DEF TasksFit
  <2>2. NotifyFits'
    <3>1. Unused(DropRequests)' = Unused(DropRequests)
      BY <1>1, <1>4, <1>7, <1>11 DEF Unused, Reqs
    <3>2. QED
      BY <1>1, <1>3, <1>11, <3>1 DEF IInv, NotifyFits
  <2>3. Placed'
    <3>1. Pending' = P \ {r}
      BY <1>2, <1>4, <1>7, <1>11 DEF Pending
    <3>2. (P \ {r}) \ Posted(ts) = Q \ {r} /\ Posted(ts) \subseteq P \ {r}
      BY <1>1, <1>2, <1>3
    <3>3. QED
      BY <1>3, <1>5, <1>6, <1>7, <1>11, <3>1, <3>2 DEF Placed
  <2>4. Counted' /\ Moves
    BY <1>1, <1>4, <1>6, <1>7, <1>9, <1>11 DEF IInv, Counted, CompletedOnce, Moves, Move
  <2>5. SaltsLeft' /\ SaltsAreRequested'
    <3>1. \A q \in SaltRequests : outcome'[q] = outcome[q]
      BY <1>1, <1>4, <1>7, <1>11 DEF Reqs
    <3>2. QED
      BY <1>6, <3>1, SaltsSame
  <2>6. QED
    BY <1>10, <2>1, <2>2, <2>3, <2>4, <2>5 DEF IInv
<1>12. CASE /\ Head(ts).kind = "notify"
            /\ outcome' = [o EXCEPT ![e] = "pending"]
            /\ tasks' = Append(Tail(ts), [kind |-> "send", req |-> e])
  <2>1. e \in DropRequests /\ e \in Reqs /\ out[e] = "new" /\ e # r /\ e \notin SaltRequests
    <3>1. One(Unused(DropRequests)) \in Unused(DropRequests)
      BY <1>1, <1>3, <1>12, OneOf DEF IInv, NotifyFits
    <3>2. QED
      BY <1>1, <1>4, <3>1, RequestsAssumption DEF Unused, Reqs
  <2>2. PICK to, u, t : /\ to = [o EXCEPT ![e] = "pending"] /\ u = Tail(ts)
                        /\ t = [kind |-> "send", req |-> e]
    OBVIOUS
  <2>3. /\ to \in [Reqs -> Outcomes] /\ to[e] = "pending"
        /\ \A q \in Reqs : q # e => to[q] = o[q]
    BY <1>7, <2>1, <2>2 DEF Outcomes
  <2>4. TasksOf(u, to, n)
    <3>1. n >= n /\ \A q \in Reqs : o[q] # "new" => to[q] # "new"
      BY <1>2, <2>3
    <3>2. QED
      BY <1>2, <1>8, <2>2, <3>1, TasksLater
  <2>5. t \in Task /\ t.kind = "send" /\ t.req = e
    BY <2>1, <2>2 DEF Task
  <2>6. e \notin Posted(ts) /\ o[e] = "new"
    BY <1>2, <1>7, <2>1
  <2>7. TaskOf(t, to, n) /\ NotPosted(u, t)
    <3>1. \A i \in DOMAIN u : TaskOf(u[i], o, n)
      BY <1>8, <2>2 DEF TasksOf
    <3>2. \A i \in DOMAIN u : Cancels(u[i]) => u[i].req # e
      BY <2>6, <3>1 DEF TaskOf
    <3>3. QED
      BY <1>3, <2>1, <2>2, <2>5, <2>6, <3>2 DEF TaskOf, Cancels, NotPosted
  <2>8. /\ TasksOf(Append(u, t), to, n) /\ Posted(Append(u, t)) = Posted(u) \cup {e}
        /\ Notifies(Append(u, t)) # {} => Notifies(u) # {}
    BY <2>4, <2>5, <2>7, TaskPosted
  <2>9. outcome' = to /\ tasks' = Append(u, t)
    BY <1>12, <2>2
  <2>10. TasksFit'
    BY <1>1, <1>6, <2>8, <2>9 DEF TasksFit
  <2>11. NotifyFits'
    BY <1>3, <1>12, <2>2, <2>8, <2>9 DEF NotifyFits
  <2>12. Placed'
    <3>1. Pending' = (P \ {r}) \cup {e}
      BY <1>2, <1>4, <1>7, <2>1, <2>3, <2>9 DEF Pending
    <3>2. /\ ((P \ {r}) \cup {e}) \ (Posted(ts) \cup {e}) = Q \ {r}
          /\ Posted(ts) \cup {e} \subseteq (P \ {r}) \cup {e}
      BY <1>1, <1>2, <1>3, <2>1
    <3>3. Posted(tasks') = Posted(ts) \cup {e}
      BY <1>3, <2>2, <2>8, <2>9
    <3>4. QED
      BY <1>5, <1>6, <2>3, <2>9, <3>1, <3>2, <3>3 DEF Placed
  <2>13. \A q \in Reqs : /\ q # e /\ q # r => outcome'[q] = outcome[q]
                         /\ outcome'[q] = "done" <=> outcome[q] = "done"
    BY <1>1, <1>7, <2>1, <2>3, <2>9
  <2>14. Counted'
    BY <1>6, <2>13 DEF IInv, Counted, CompletedOnce
  <2>15. Moves
    BY <1>1, <1>4, <1>6, <1>7, <1>9, <2>1, <2>3, <2>9 DEF Moves, Move
  <2>16. SaltsLeft' /\ SaltsAreRequested'
    <3>1. \A q \in SaltRequests : outcome'[q] = outcome[q]
      BY <1>4, <2>1, <2>13 DEF Reqs
    <3>2. QED
      BY <1>6, <3>1, SaltsSame
  <2>17. QED
    BY <1>10, <2>10, <2>11, <2>12, <2>14, <2>15, <2>16 DEF IInv
<1>13. QED
  BY <1>6, <1>11, <1>12

LEMMA RunTaskKeeps ==
    ASSUME IInv, RunTask
    PROVE  IInv' /\ Moves
<1>1. tasks # <<>> /\ Elsewhere
  BY DEF RunTask, Elsewhere, server, link
<1>2. Head(tasks) \in Task
  BY <1>1, Behind DEF IInv, TasksFit, TasksOf
<1>3. CASE Head(tasks).kind = "send"
  <2>1. SendTask(Head(tasks).req)
    BY <1>3 DEF RunTask
  <2>2. QED
    BY <1>1, <1>3, <2>1, SendTaskKeeps
<1>4. CASE Cancels(Head(tasks))
  <2>1. CancelTask(Head(tasks).req, Head(tasks).kind = "notify")
    BY <1>4 DEF RunTask, Cancels
  <2>2. QED
    BY <1>1, <1>4, <2>1, CancelTaskKeeps
<1>5. CASE Head(tasks).kind = "cleanUp"
  <2>1. CleanUpTask
    BY <1>5 DEF RunTask
  <2>2. QED
    BY <1>1, <1>5, <2>1, CleanUpTaskKeeps
<1>6. QED
  BY <1>2, <1>3, <1>4, <1>5 DEF Task, Cancels

----------------------------------------------------------------------------
(* The connection. *)
LEMMA ConnectedKeeps ==
    ASSUME IInv, onConnectionConnected
    PROVE  IInv' /\ Moves
<1>1. PICK d, P, tk : d = c /\ P = Pending \ Posted(tasks) /\ tk = lastToken + 1
  OBVIOUS
<1>2. PICK late : Processed(d, tk, TRUE, TRUE, late)
  BY <1>1 DEF onConnectionConnected
<1>3. Lists(d, P) /\ toServer \in Seq(1..d.last) /\ tk \in Nat
  BY <1>1, TokenType DEF IInv, Placed, Linked
<1>4. Sweeps(d, P, tk, TRUE, TRUE)
  BY <1>2, <1>3, ProcessedKeeps
<1>5. /\ UNCHANGED <<tasks, outcome, calls, requesting, toClient, troubles, drops, cleanUps>>
      /\ UNCHANGED <<received, kept, forgotten>> /\ token = 0 /\ token' = tk /\ lastToken' = tk
  BY <1>1 DEF onConnectionConnected, server
<1>6. Lists(c', P) /\ c'.last >= c.last /\ toServer' \in Seq(1..c'.last) /\ c'.last \in Nat /\ c.last \in Nat
  BY <1>1, <1>3, <1>4, ClientHas DEF Sweeps, Lists, ClientFields
<1>7. TasksFit' /\ NotifyFits' /\ Placed' /\ Counted' /\ Moves
  BY <1>1, <1>5, <1>6, BooksKept
<1>8. SaltsLeft' /\ SaltsAreRequested'
  BY <1>5, SaltsKept
<1>9. tk = drops + 1 /\ tk # 0
  BY <1>1, <1>5, TokenType DEF IInv, Linked
<1>10. Linked'
  <2>1. 1..c.last \subseteq 1..c'.last
    BY <1>6
  <2>2. QED
    BY <1>5, <1>6, <1>9, <2>1 DEF IInv, Linked
<1>11. Untouched'
  BY <1>5, <1>9 DEF Untouched
<1>12. TokenMeansSent'
  <2>1. Sweeps(d, P, token', TRUE, TRUE)
    BY <1>4, <1>5
  <2>2. drops' = 0 => ToSet(d.running) = {}
    BY <1>1, <1>5 DEF IInv, Untouched, ToSet
  <2>3. drops' = 0 /\ token' # 0 =>
            \A r \in ToSet(d.running) \ SaltRequests :
                /\ ~TRUE
                /\ TRUE \/ (d.ctoken[r] = token' =>
                                d.msg[r] \in ToSet(toServer) \/ Excused(d.msg[r])')
    BY <2>2
  <2>4. QED
    BY <2>1, <2>3, CarriedBySweep
<1>13. QED
  BY <1>7, <1>8, <1>10, <1>11, <1>12 DEF IInv

(* How many requests for salts are left. *)
LEMMA SaltsNat ==
    /\ IsFiniteSet(Unused(SaltRequests)) /\ Cardinality(Unused(SaltRequests)) \in Nat
    /\ BadSalts = BadOf(toClient)
<1>1. Unused(SaltRequests) \in SUBSET SaltRequests
  BY DEF Unused
<1>2. PICK A, B : A = SaltRequests /\ B = Unused(SaltRequests)
  OBVIOUS
<1>3. IsFiniteSet(A) /\ B \in SUBSET A
  BY <1>1, <1>2, RequestsAssumption
<1>4. IsFiniteSet(B)
  BY <1>3, FS_Subset
<1>5. Cardinality(B) \in Nat
  BY <1>4, FS_CardinalityType
<1>6. QED
  BY <1>2, <1>4, <1>5 DEF BadSalts, BadOf

LEMMA DropKeeps ==
    ASSUME IInv, Drop
    PROVE  IInv' /\ Moves
<1>1. /\ UNCHANGED <<tasks, c, outcome, calls, requesting, lastToken, cleanUps, received, kept, forgotten>>
      /\ token # 0 /\ Trouble /\ drops' = drops + 1 /\ token' = 0 /\ toServer' = <<>> /\ toClient' = <<>>
  BY DEF Drop, server
<1>2. Lists(c', Pending \ Posted(tasks))
  BY <1>1 DEF IInv, Placed
<1>3. TasksFit' /\ NotifyFits' /\ Placed' /\ Counted' /\ Moves
  BY <1>1, <1>2, BooksKept
<1>4. Linked'
  <2>1. <<>> \in Seq(1..c.last) /\ <<>> \in Seq(Answer \cup Notice)
    OBVIOUS
  <2>2. QED
    BY <1>1, <2>1, TroubleCounts DEF IInv, Linked
<1>5. Untouched' /\ TokenMeansSent'
  BY <1>1, TokenType DEF Untouched, TokenMeansSent
<1>6. SaltsLeft'
  <2>1. BadSalts' = {}
    BY <1>1 DEF BadSalts
  <2>2. Unused(SaltRequests)' = Unused(SaltRequests)
    BY <1>1 DEF Unused
  <2>3. QED
    BY <2>1, <2>2, SaltsNat, FS_EmptySet DEF SaltsLeft
<1>7. SaltsAreRequested'
  BY <1>1 DEF IInv, SaltsAreRequested
<1>8. QED
  BY <1>3, <1>4, <1>5, <1>6, <1>7 DEF IInv

----------------------------------------------------------------------------
(* The answers and notices. *)
Heard ==
    /\ toClient # <<>> /\ toClient' = Tail(toClient)
    /\ UNCHANGED <<troubles, cleanUps, received, kept, forgotten, token, lastToken, drops>>

LEMMA HeardSays ==
    ASSUME IInv, Heard
    PROVE  /\ Head(toClient) \in Answer \cup Notice /\ toClient' \in Seq(Answer \cup Notice)
           /\ Cardinality(BadSalts') <= Cardinality(Unused(SaltRequests))
           /\ Head(toClient).kind = "bad_salt" =>
                 Cardinality(BadSalts') + 1 <= Cardinality(Unused(SaltRequests))
           /\ Cardinality(BadSalts') \in Nat
           /\ toClient \in Seq(Answer \cup Notice)
<1>1. PICK ts, tt : ts = toClient /\ tt = Tail(ts)
  OBVIOUS
<1>2. ts \in Seq(Answer \cup Notice) /\ ts # <<>> /\ toClient' = tt
  BY <1>1 DEF IInv, Linked, Heard
<1>3. Head(ts) \in Answer \cup Notice /\ tt \in Seq(Answer \cup Notice)
  BY <1>1, <1>2, Behind
<1>4. /\ Cardinality(BadOf(Tail(ts))) <= Cardinality(BadOf(ts))
      /\ Head(ts).kind = "bad_salt" => Cardinality(BadOf(Tail(ts))) + 1 <= Cardinality(BadOf(ts))
  BY <1>2, BadTaken
<1>5. Cardinality(BadOf(ts)) \in Nat /\ Cardinality(BadOf(tt)) \in Nat
  BY <1>2, <1>3, BadFinite
<1>6. BadSalts = BadOf(ts) /\ BadSalts' = BadOf(tt)
  BY <1>1, <1>2 DEF BadSalts, BadOf
<1>7. Cardinality(BadOf(ts)) <= Cardinality(Unused(SaltRequests))
  BY <1>6 DEF IInv, SaltsLeft
<1>8. QED
  BY <1>1, <1>2, <1>3, <1>4, <1>5, <1>6, <1>7, SaltsNat

(* Any other answer, with a pass or without, where the requests are as before. *)
LEMMA UnansweredKeeps ==
    ASSUME IInv, Heard, UNCHANGED <<tasks, outcome, calls, requesting>>,
           NEW d, d.last = c.last, d.running = c.running, NEW P, P = Pending \ Posted(tasks),
           Sweeps(d, P, token, FALSE, FALSE), Covers(d, FALSE)
    PROVE  IInv' /\ Moves
<1>1. UNCHANGED <<troubles, cleanUps, received, kept, forgotten, token, lastToken, drops>>
  BY DEF Heard
<1>2. TasksFit' /\ NotifyFits' /\ Placed' /\ Counted' /\ Moves
  <2>1. Lists(c', Pending \ Posted(tasks))
    BY DEF Sweeps
  <2>2. QED
    BY <1>1, <2>1, BooksKept
<1>3. Linked' /\ Untouched' /\ TokenMeansSent'
  <2>1. requesting' \in BOOLEAN
    BY DEF IInv, Linked
  <2>2. toClient' \in Seq(Answer \cup Notice) /\ (toClient = <<>> => toClient' = <<>>)
    BY HeardSays DEF Heard
  <2>3. QED
    BY <1>1, <2>1, <2>2, NetSwept
<1>4. SaltsLeft'
  <2>1. Unused(SaltRequests)' = Unused(SaltRequests)
    BY DEF Unused
  <2>2. QED
    BY <2>1, HeardSays DEF SaltsLeft
<1>5. SaltsAreRequested'
  BY <1>1 DEF IInv, SaltsAreRequested
<1>6. QED
  BY <1>2, <1>3, <1>4, <1>5 DEF IInv

LEMMA DiscardedKeeps ==
    ASSUME IInv, Heard, Head(toClient).kind \in {"final", "retry"}, tasks' = tasks,
           NEW r \in Running, Answered(r, FALSE)
    PROVE  IInv' /\ Moves
<1>1. PICK b, d, P, tk, S : /\ b = c /\ S = {r} /\ d = Clear(b, S) /\ tk = token
                            /\ P = Pending \ Posted(tasks)
  OBVIOUS
<1>2. /\ UNCHANGED <<outcome, calls, requesting>>
      /\ \E late \in Lates(d) : Processed(d, tk, FALSE, FALSE, late)
  BY <1>1, Zenon DEF Answered
<1>3. PICK late : Processed(d, tk, FALSE, FALSE, late)
  BY <1>2
<1>4. Lists(b, P) /\ toServer \in Seq(1..b.last) /\ tk \in Nat
  BY <1>1, TokenType DEF IInv, Placed, Linked
<1>5. /\ Lists(d, P) /\ d.running = b.running /\ d.last = b.last
      /\ \A q \in Reqs : q \notin S => d.msg[q] = b.msg[q] /\ d.ctoken[q] = b.ctoken[q]
      /\ \A q \in Reqs : q \in S => d.ctoken[q] = 0
  BY <1>1, <1>4, ListsCleared
<1>6. Sweeps(d, P, tk, FALSE, FALSE)
  BY <1>3, <1>4, <1>5, ProcessedKeeps
<1>7. \A m : Announced(m) => Announced(m)'
  <2>1. \A m : ~Restarts(Head(toClient), m)
    BY DEF Restarts
  <2>2. QED
    BY <2>1, HeardSays, AnnouncedStill DEF Heard
<1>8. Covers(d, FALSE)
  <2>1. ToSet(b.running) \subseteq Reqs
    BY <1>4, ClientHas, InList DEF Lists, ClientFields
  <2>2. QED
    BY <1>1, <1>5, <1>7, <2>1 DEF Covers, Running
<1>9. QED
  BY <1>1, <1>2, <1>5, <1>6, <1>8, UnansweredKeeps

LEMMA CompletedKeeps ==
    ASSUME IInv, Heard, Head(toClient).kind \in {"final", "retry"}, tasks' = tasks,
           NEW r \in Running, Answered(r, TRUE)
    PROVE  IInv' /\ Moves
<1>1. PICK b, d, P, Q, tk, out, to, ts :
          /\ b = c /\ d = Ended(b, r) /\ tk = token /\ P = Pending /\ ts = tasks
          /\ Q = P \ Posted(ts) /\ out = outcome /\ to = [out EXCEPT ![r] = "done"]
  OBVIOUS
<1>2. /\ outcome' = to
      /\ calls' = [calls EXCEPT ![r] = IF r \in DropRequests \/ @ = 2 THEN @ ELSE @ + 1]
      /\ requesting' = (requesting /\ r \notin SaltRequests)
      /\ \/ c' = d /\ UNCHANGED toServer
         \/ \E late \in Lates(d) : Processed(d, tk, FALSE, FALSE, late)
  BY <1>1, Zenon DEF Answered, Completed, Ended
<1>3. /\ UNCHANGED <<troubles, cleanUps, received, kept, forgotten, token, lastToken, drops>>
      /\ toClient # <<>>
  BY DEF Heard
<1>4. /\ Lists(b, Q) /\ toServer \in Seq(1..b.last) /\ tk \in Nat /\ Posted(ts) \subseteq P
      /\ out \in [Reqs -> Outcomes] /\ P = {q \in Reqs : out[q] = "pending"} /\ TasksOf(ts, out, cleanUps)
      /\ cleanUps \in Nat
  BY <1>1, TokenType DEF IInv, Placed, Linked, Pending, TasksFit
<1>5. r \in ToSet(b.running) /\ r \in Q /\ r \in P /\ r \in Reqs /\ out[r] = "pending" /\ r \notin Posted(ts)
  BY <1>1, <1>4 DEF Lists, Running
<1>6. /\ Lists(d, Q \ {r}) /\ ToSet(d.running) = ToSet(b.running) \ {r} /\ d.last = b.last
      /\ d.msg = b.msg /\ d.ctoken = b.ctoken
  BY <1>1, <1>4, <1>5, ListsErased
<1>7. PICK E : E = Q \ {r}
  OBVIOUS
<1>8. Sweeps(d, E, tk, FALSE, FALSE)
  <2>1. CASE c' = d /\ UNCHANGED toServer
    BY <1>4, <1>6, <1>7, <2>1, NoSweep
  <2>2. CASE \E late \in Lates(d) : Processed(d, tk, FALSE, FALSE, late)
    <3>1. PICK late : Processed(d, tk, FALSE, FALSE, late)
      BY <2>2
    <3>2. QED
      BY <1>4, <1>6, <1>7, <3>1, ProcessedKeeps
  <2>3. QED
    BY <1>2, <2>1, <2>2
<1>9. \A m : Announced(m) => Announced(m)'
  <2>1. \A m : ~Restarts(Head(toClient), m)
    BY DEF Restarts
  <2>2. QED
    BY <2>1, HeardSays, AnnouncedStill DEF Heard
<1>10. Linked' /\ Untouched' /\ TokenMeansSent'
  <2>1. requesting' \in BOOLEAN
    BY <1>2 DEF IInv, Linked
  <2>2. toClient' \in Seq(Answer \cup Notice)
    BY HeardSays
  <2>3. Covers(d, FALSE)
    BY <1>1, <1>6, <1>9 DEF Covers, Running
  <2>4. Sweeps(d, E, token, FALSE, FALSE)
    BY <1>1, <1>8
  <2>5. c.running # <<>>
    BY <1>1, <1>5 DEF ToSet
  <2>6. QED
    BY <1>1, <1>3, <1>6, <2>1, <2>2, <2>3, <2>4, <2>5, NetSwept
<1>11. /\ to \in [Reqs -> Outcomes] /\ to[r] = "done"
       /\ \A q \in Reqs : q # r => to[q] = out[q]
  BY <1>1, <1>4, <1>5 DEF Outcomes
<1>12. TasksFit'
  <2>1. PICK n : n = cleanUps
    OBVIOUS
  <2>2. n \in Nat /\ n >= n /\ TasksOf(ts, out, n) /\ \A q \in Reqs : out[q] # "new" => to[q] # "new"
    BY <1>4, <1>11, <2>1
  <2>3. TasksOf(ts, to, n)
    BY <2>2, TasksLater
  <2>4. QED
    BY <1>1, <1>2, <1>3, <2>1, <2>3 DEF TasksFit
<1>13. NotifyFits'
  <2>1. Unused(DropRequests)' = Unused(DropRequests)
    BY <1>1, <1>2, <1>5, <1>11 DEF Unused, Reqs
  <2>2. QED
    BY <2>1 DEF IInv, NotifyFits
<1>14. Placed'
  <2>1. Pending' = P \ {r}
    BY <1>2, <1>4, <1>5, <1>11 DEF Pending
  <2>2. (P \ {r}) \ Posted(ts) = E /\ Posted(ts) \subseteq P \ {r}
    BY <1>1, <1>4, <1>5, <1>7
  <2>3. Lists(c', E)
    BY <1>8 DEF Sweeps
  <2>4. QED
    BY <1>1, <1>2, <1>11, <2>1, <2>2, <2>3 DEF Placed
<1>15. /\ calls \in [Reqs -> Nat] /\ calls[r] = 0
       /\ \A q \in Reqs : calls[q] = (IF out[q] = "done" /\ q \notin DropRequests THEN 1 ELSE 0)
  BY <1>1, <1>5 DEF IInv, Counted, CompletedOnce
<1>16. /\ calls' \in [Reqs -> Nat] /\ calls'[r] = (IF r \in DropRequests THEN 0 ELSE 1)
       /\ \A q \in Reqs : q # r => calls'[q] = calls[q]
  BY <1>2, <1>5, <1>15
<1>17. Counted'
  BY <1>2, <1>11, <1>15, <1>16 DEF Counted, CompletedOnce
<1>18. Moves
  BY <1>1, <1>2, <1>5, <1>11, <1>15, <1>16 DEF Moves, Move
<1>19. SaltsLeft'
  <2>1. Unused(SaltRequests)' = Unused(SaltRequests)
    BY <1>1, <1>2, <1>5, <1>11 DEF Unused, Reqs
  <2>2. QED
    BY <2>1, HeardSays DEF SaltsLeft
<1>20. SaltsAreRequested'
  BY <1>1, <1>2, <1>3, <1>11 DEF IInv, SaltsAreRequested, Reqs
<1>21. QED
  BY <1>10, <1>12, <1>13, <1>14, <1>17, <1>18, <1>19, <1>20 DEF IInv

LEMMA OnAnswerKeeps ==
    ASSUME IInv, Heard, Head(toClient).kind \in {"final", "retry"}, OnAnswer(Head(toClient))
    PROVE  IInv' /\ Moves
<1>1. PICK a : a = Head(toClient)
  OBVIOUS
<1>2. tasks' = tasks
  BY DEF OnAnswer
<1>3. CASE \E r \in Responding(c, a.msg) : Answered(r, a.kind = "final" \/ r \in DropRequests)
  <2>1. PICK r \in Responding(c, a.msg) : Answered(r, a.kind = "final" \/ r \in DropRequests)
    BY <1>3
  <2>2. r \in Running
    BY <2>1 DEF Responding, Running
  <2>3. Answered(r, TRUE) \/ Answered(r, FALSE)
    BY <2>1, Zenon DEF Answered
  <2>4. QED
    BY <1>2, <2>2, <2>3, CompletedKeeps, DiscardedKeeps
<1>4. CASE /\ UNCHANGED <<outcome, calls, requesting>>
           /\ \/ \E late \in Lates(c) : Processed(c, token, FALSE, FALSE, late)
              \/ UNCHANGED <<c, toServer>>
  <2>1. PICK d, P, tk : d = c /\ tk = token /\ P = Pending \ Posted(tasks)
    OBVIOUS
  <2>2. Lists(d, P) /\ toServer \in Seq(1..d.last) /\ tk \in Nat
    BY <2>1, TokenType DEF IInv, Placed, Linked
  <2>3. Sweeps(d, P, tk, FALSE, FALSE)
    <3>1. CASE UNCHANGED <<c, toServer>>
      BY <2>1, <2>2, <3>1, NoSweep
    <3>2. CASE \E late \in Lates(c) : Processed(c, token, FALSE, FALSE, late)
      <4>1. PICK late : Processed(d, tk, FALSE, FALSE, late)
        BY <2>1, <3>2
      <4>2. QED
        BY <2>2, <4>1, ProcessedKeeps
    <3>3. QED
      BY <1>4, <3>1, <3>2
  <2>4. \A m : Announced(m) => Announced(m)'
    <3>1. \A m : ~Restarts(Head(toClient), m)
      BY DEF Restarts
    <3>2. QED
      BY <3>1, HeardSays, AnnouncedStill DEF Heard
  <2>5. Covers(d, FALSE)
    BY <2>1, <2>4 DEF Covers, Running
  <2>6. QED
    BY <1>2, <1>4, <2>1, <2>3, <2>5, UnansweredKeeps
<1>5. QED
  BY <1>1, <1>3, <1>4 DEF OnAnswer

LEMMA OnRestartKeeps ==
    ASSUME IInv, Heard, Head(toClient).kind \in {"bad_msg", "bad_msg_20", "new_session"},
           OnRestart(Head(toClient))
    PROVE  IInv' /\ Moves
<1>1. PICK a, b, d, P, tk, S : /\ a = Head(toClient) /\ b = c /\ S = Restarted(a) /\ d = Clear(b, S)
                               /\ tk = token /\ P = Pending \ Posted(tasks)
  OBVIOUS
<1>2. c' = d /\ UNCHANGED <<tasks, outcome, calls, requesting, toServer>>
  BY <1>1 DEF OnRestart
<1>3. Lists(b, P) /\ toServer \in Seq(1..b.last) /\ tk \in Nat
  BY <1>1, TokenType DEF IInv, Placed, Linked
<1>4. /\ Lists(d, P) /\ d.running = b.running /\ d.last = b.last
      /\ \A q \in Reqs : q \notin S => d.msg[q] = b.msg[q] /\ d.ctoken[q] = b.ctoken[q]
      /\ \A q \in Reqs : q \in S => d.ctoken[q] = 0
  BY <1>1, <1>3, ListsCleared
<1>5. Sweeps(d, P, tk, FALSE, FALSE)
  BY <1>2, <1>3, <1>4, NoSweep
<1>6. ToSet(b.running) \subseteq Reqs /\ b.msg \in [Reqs -> Nat]
  BY <1>3, ClientHas, InList DEF Lists, ClientFields
<1>7. a.msg \in Nat
  BY <1>1, HeardSays DEF Answer, Notice
<1>8. ASSUME NEW q \in Running, q \notin S, Announced(b.msg[q])
      PROVE  Announced(b.msg[q])'
  <2>1. q \in Reqs /\ b.msg[q] \in Nat
    BY <1>1, <1>6 DEF Running
  <2>2. ~Restarts(a, b.msg[q])
    <3>1. CASE a.kind = "bad_msg"
      <4>1. Restarted(a) = Running
        BY <3>1 DEF Restarted
      <4>2. QED
        BY <1>1, <1>8, <4>1
    <3>2. CASE a.kind = "bad_msg_20"
      <4>1. Restarted(a) = Responding(c, a.msg)
        BY <3>2 DEF Restarted
      <4>2. b.msg[q] # a.msg
        BY <1>1, <1>8, <4>1 DEF Responding, respondsToMessageId, Running
      <4>3. QED
        BY <3>2, <4>2 DEF Restarts
    <3>3. CASE a.kind = "new_session"
      <4>1. Restarted(a) = {r \in Running : c.msg[r] < a.msg}
        BY <3>3 DEF Restarted
      <4>2. ~(b.msg[q] < a.msg)
        BY <1>1, <1>8, <4>1
      <4>3. QED
        BY <1>7, <2>1, <3>3, <4>2 DEF Restarts
    <3>4. QED
      BY <1>1, <3>1, <3>2, <3>3
  <2>3. PICK m : m = b.msg[q]
    OBVIOUS
  <2>4. Announced(m) /\ ~Restarts(Head(toClient), m)
    BY <1>1, <1>8, <2>2, <2>3
  <2>5. Announced(m)'
    BY <2>4, HeardSays, AnnouncedStill DEF Heard
  <2>6. QED
    BY <2>3, <2>5
<1>9. Covers(d, FALSE)
  <2> SUFFICES ASSUME NEW q \in ToSet(d.running) \ SaltRequests
               PROVE  \/ d.ctoken[q] = 0
                      \/ /\ q \in Running /\ d.ctoken[q] = c.ctoken[q] /\ d.msg[q] = c.msg[q]
                         /\ Announced(d.msg[q]) => Announced(d.msg[q])'
    BY DEF Covers
  <2>1. q \in Running /\ q \in Reqs
    BY <1>1, <1>4, <1>6 DEF Running
  <2>2. CASE q \in S
    BY <1>4, <2>1, <2>2
  <2>3. CASE q \notin S
    BY <1>1, <1>4, <1>8, <2>1, <2>3
  <2>4. QED
    BY <2>2, <2>3
<1>10. QED
  BY <1>1, <1>2, <1>4, <1>5, <1>9, UnansweredKeeps

LEMMA OnBadSaltKeeps ==
    ASSUME IInv, Heard, Head(toClient).kind = "bad_salt", OnBadSalt(Head(toClient))
    PROVE  IInv' /\ Moves
<1>1. PICK ts, out, n, P, Q, d, tk, r :
          /\ ts = tasks /\ out = outcome /\ n = cleanUps /\ P = Pending /\ Q = P \ Posted(ts)
          /\ d = c /\ tk = token /\ r = One(Unused(SaltRequests))
  OBVIOUS
<1>2. /\ UNCHANGED <<troubles, cleanUps, received, kept, forgotten, token, lastToken, drops, calls>>
      /\ toClient # <<>>
      /\ \E late \in Lates(d) : Processed(d, tk, TRUE, FALSE, late)
      /\ \/ /\ outcome' = [out EXCEPT ![r] = "pending"]
            /\ tasks' = Append(ts, [kind |-> "send", req |-> r]) /\ requesting' = TRUE
         \/ UNCHANGED <<outcome, tasks, requesting>>
  BY <1>1 DEF Heard, OnBadSalt, Post
<1>3. /\ TasksOf(ts, out, n) /\ Posted(ts) \subseteq P /\ Lists(d, Q) /\ n \in Nat /\ tk \in Nat
      /\ P = {q \in Reqs : out[q] = "pending"} /\ out \in [Reqs -> Outcomes]
      /\ toServer \in Seq(1..d.last)
  BY <1>1, TokenType DEF IInv, TasksFit, Placed, Linked, Pending
<1>4. PICK late : Processed(d, tk, TRUE, FALSE, late)
  BY <1>2
<1>5. Sweeps(d, Q, tk, TRUE, FALSE)
  BY <1>3, <1>4, ProcessedKeeps
<1>6. Lists(c', Q)
  BY <1>5 DEF Sweeps
<1>7. Linked' /\ Untouched' /\ TokenMeansSent'
  <2>1. requesting' \in BOOLEAN
    BY <1>2 DEF IInv, Linked
  <2>2. toClient' \in Seq(Answer \cup Notice)
    BY HeardSays
  <2>3. Covers(d, TRUE)
    BY DEF Covers
  <2>4. Sweeps(d, Q, token, TRUE, FALSE)
    BY <1>1, <1>5
  <2>5. QED
    BY <1>1, <1>2, <2>1, <2>2, <2>3, <2>4, NetSwept
<1>8. CASE UNCHANGED <<outcome, tasks, requesting>>
  <2>1. TasksFit' /\ NotifyFits' /\ Placed' /\ Counted' /\ Moves
    BY <1>1, <1>2, <1>6, <1>8, BooksKept
  <2>2. SaltsLeft'
    <3>1. Unused(SaltRequests)' = Unused(SaltRequests)
      BY <1>8 DEF Unused
    <3>2. QED
      BY <3>1, HeardSays DEF SaltsLeft
  <2>3. SaltsAreRequested'
    BY <1>2, <1>8 DEF IInv, SaltsAreRequested
  <2>4. QED
    BY <1>7, <2>1, <2>2, <2>3 DEF IInv
<1>9. CASE /\ outcome' = [out EXCEPT ![r] = "pending"]
           /\ tasks' = Append(ts, [kind |-> "send", req |-> r]) /\ requesting' = TRUE
  <2>1. PICK U : U = Unused(SaltRequests)
    OBVIOUS
  <2>2. IsFiniteSet(U) /\ Cardinality(U) \in Nat /\ Cardinality(BadSalts') \in Nat
        /\ Cardinality(BadSalts') + 1 <= Cardinality(U)
    BY <2>1, HeardSays, SaltsNat
  <2>3. U # {}
    BY <2>2, FS_EmptySet
  <2>4. r \in U
    BY <1>1, <2>1, <2>3, OneOf
  <2>5. /\ r \in SaltRequests /\ r \in Reqs /\ out[r] = "new" /\ r \notin DropRequests
    BY <1>1, <2>1, <2>4, RequestsAssumption DEF Unused, Reqs
  <2>6. PICK to, t : /\ to = [out EXCEPT ![r] = "pending"]
                     /\ t = [kind |-> "send", req |-> r]
    OBVIOUS
  <2>7. /\ to \in [Reqs -> Outcomes] /\ to[r] = "pending"
        /\ \A q \in Reqs : q # r => to[q] = out[q]
    BY <1>3, <2>5, <2>6 DEF Outcomes
  <2>8. TasksOf(ts, to, n)
    <3>1. n >= n /\ \A q \in Reqs : out[q] # "new" => to[q] # "new"
      BY <1>3, <2>7
    <3>2. QED
      BY <1>3, <3>1, TasksLater
  <2>9. t \in Task /\ t.kind = "send" /\ t.req = r
    BY <2>5, <2>6 DEF Task
  <2>10. TaskOf(t, to, n) /\ NotPosted(ts, t)
    BY <1>3, <2>5, <2>9 DEF TaskOf, Cancels, NotPosted, TasksOf
  <2>11. /\ TasksOf(Append(ts, t), to, n) /\ Posted(Append(ts, t)) = Posted(ts) \cup {r}
         /\ Notifies(Append(ts, t)) # {} => Notifies(ts) # {}
    BY <2>8, <2>9, <2>10, TaskPosted
  <2>12. outcome' = to /\ tasks' = Append(ts, t)
    BY <1>9, <2>6
  <2>13. TasksFit'
    BY <1>1, <1>2, <2>11, <2>12 DEF TasksFit
  <2>14. NotifyFits'
    <3>1. Unused(DropRequests)' = Unused(DropRequests)
      BY <1>1, <2>5, <2>7, <2>12 DEF Unused, Reqs
    <3>2. QED
      BY <1>1, <2>11, <2>12, <3>1 DEF IInv, NotifyFits
  <2>15. Placed'
    <3>1. Pending' = P \cup {r}
      BY <1>3, <2>5, <2>7, <2>12 DEF Pending
    <3>2. (P \cup {r}) \ (Posted(ts) \cup {r}) = Q /\ Posted(ts) \cup {r} \subseteq P \cup {r}
      BY <1>1, <1>3, <2>5
    <3>3. QED
      BY <1>6, <2>7, <2>11, <2>12, <3>1, <3>2 DEF Placed
  <2>16. Counted' /\ Moves
    BY <1>1, <1>2, <2>5, <2>7, <2>12 DEF IInv, Counted, CompletedOnce, Moves, Move
  <2>17. SaltsLeft'
    <3>1. Unused(SaltRequests)' = U \ {r}
      BY <1>1, <2>1, <2>5, <2>7, <2>12 DEF Unused, Reqs
    <3>2. Cardinality(U \ {r}) = IF r \in U THEN Cardinality(U) - 1 ELSE Cardinality(U)
      BY <2>2, FS_RemoveElement
    <3>3. Cardinality(BadSalts') <= Cardinality(U \ {r})
      BY <2>2, <2>4, <3>2
    <3>4. QED
      BY <3>1, <3>3 DEF SaltsLeft
  <2>18. SaltsAreRequested'
    BY <2>5, <2>7, <2>12 DEF SaltsAreRequested
  <2>19. QED
    BY <1>7, <2>13, <2>14, <2>15, <2>16, <2>17, <2>18 DEF IInv
<1>10. QED
  BY <1>2, <1>8, <1>9

LEMMA processServerResponseKeeps ==
    ASSUME IInv, processServerResponse
    PROVE  IInv' /\ Moves
<1>1. Heard
  BY DEF processServerResponse, Heard, server, link
<1>2. Head(toClient) \in Answer \cup Notice
  BY <1>1, HeardSays
<1>3. CASE Head(toClient).kind \in {"final", "retry"}
  <2>1. OnAnswer(Head(toClient))
    BY <1>3 DEF processServerResponse
  <2>2. QED
    BY <1>1, <1>3, <2>1, OnAnswerKeeps
<1>4. CASE Head(toClient).kind = "bad_salt"
  <2>1. OnBadSalt(Head(toClient))
    BY <1>4 DEF processServerResponse
  <2>2. QED
    BY <1>1, <1>4, <2>1, OnBadSaltKeeps
<1>5. CASE Head(toClient).kind \in {"bad_msg", "bad_msg_20", "new_session"}
  <2>1. OnRestart(Head(toClient))
    BY <1>5 DEF processServerResponse
  <2>2. QED
    BY <1>1, <1>5, <2>1, OnRestartKeeps
<1>6. QED
  BY <1>2, <1>3, <1>4, <1>5 DEF Answer, Notice

----------------------------------------------------------------------------
(* The server. *)
LEMMA ServerLeaves ==
    ASSUME IInv, ServerUnchanged
    PROVE  /\ TasksFit' /\ NotifyFits' /\ Placed' /\ Counted' /\ Moves /\ SaltsAreRequested'
           /\ UNCHANGED <<tasks, c, outcome, calls, requesting, cleanUps, token, lastToken, drops>>
           /\ Unused(SaltRequests)' = Unused(SaltRequests)
<1>1. UNCHANGED <<tasks, c, outcome, calls, requesting, cleanUps, token, lastToken, drops>>
  BY DEF ServerUnchanged, link
<1>2. Lists(c', Pending \ Posted(tasks))
  BY <1>1 DEF IInv, Placed
<1>3. TasksFit' /\ NotifyFits' /\ Placed' /\ Counted' /\ Moves
  BY <1>1, <1>2, BooksKept
<1>4. QED
  BY <1>1, <1>3 DEF IInv, SaltsAreRequested, Unused

LEMMA CarriedStill ==
    ASSUME IInv, UNCHANGED <<c, token, drops>>, \A m \in Nat : CarriedFor(m) => CarriedFor(m)'
    PROVE  TokenMeansSent'
<1> SUFFICES ASSUME drops' = 0, token' # 0, NEW r \in ToSet(c'.running) \ SaltRequests,
                    c'.ctoken[r] = token'
             PROVE  CarriedFor(c.msg[r])'
  BY DEF TokenMeansSent, CarriedFor, Excused, Announced, Restarts, Running
<1>1. PICK m : m = c.msg[r]
  OBVIOUS
<1>2. CarriedFor(m)
  BY <1>1, CarriedSays DEF IInv, Running
<1>3. m \in Nat
  <2>1. c.msg \in [Reqs -> Nat] /\ ToSet(c.running) \subseteq Reqs
    BY ClientHas, InList DEF IInv, Placed, Lists, ClientFields
  <2>2. QED
    BY <1>1, <2>1
<1>4. CarriedFor(m)'
  BY <1>2, <1>3
<1>5. m = c.msg[r]'
  BY <1>1
<1>6. QED
  BY <1>4, <1>5

LEMMA ServerReceiveKeeps ==
    ASSUME IInv, ServerReceive
    PROVE  IInv' /\ Moves
<1>1. /\ UNCHANGED <<kept, forgotten, toClient, troubles>> /\ ServerUnchanged /\ toServer # <<>>
      /\ toServer' = Tail(toServer)
      /\ received' = IF Known(Head(toServer)) THEN received ELSE received \cup {Head(toServer)}
  BY DEF ServerReceive
<1>2. /\ TasksFit' /\ NotifyFits' /\ Placed' /\ Counted' /\ Moves /\ SaltsAreRequested'
      /\ UNCHANGED <<tasks, c, outcome, calls, requesting, cleanUps, token, lastToken, drops>>
      /\ Unused(SaltRequests)' = Unused(SaltRequests)
  BY <1>1, ServerLeaves
<1>3. PICK ts, S : ts = toServer /\ S = 1..c.last
  OBVIOUS
<1>4. Head(ts) \in S /\ Tail(ts) \in Seq(S) /\ ToSet(ts) = {Head(ts)} \cup ToSet(Tail(ts))
  <2>1. ts \in Seq(S) /\ ts # <<>>
    BY <1>1, <1>3 DEF IInv, Linked
  <2>2. QED
    BY <2>1, Behind
<1>5. Linked'
  BY <1>1, <1>2, <1>3, <1>4 DEF IInv, Linked
<1>6. Untouched'
  BY <1>1, <1>2 DEF IInv, Untouched
<1>7. SaltsLeft'
  BY <1>1, <1>2 DEF IInv, SaltsLeft, BadSalts
<1>8. ASSUME NEW m \in Nat, CarriedFor(m) PROVE CarriedFor(m)'
  <2>1. Known(m) => Known(m)'
    BY <1>1 DEF Known
  <2>2. m = Head(ts) => Known(m)'
    BY <1>1, <1>3 DEF Known
  <2>3. m \in ToSet(toServer) => m = Head(ts) \/ m \in ToSet(toServer')
    BY <1>1, <1>3, <1>4
  <2>4. Announced(m) => Announced(m)'
    BY <1>1 DEF Announced
  <2>5. QED
    BY <1>1, <1>8, <2>1, <2>2, <2>3, <2>4 DEF CarriedFor, Excused
<1>9. TokenMeansSent'
  BY <1>2, <1>8, CarriedStill
<1>10. QED
  BY <1>2, <1>5, <1>6, <1>7, <1>9 DEF IInv

LEMMA ServerAnswerKeeps ==
    ASSUME IInv, ServerAnswer
    PROVE  IInv' /\ Moves
<1>1. PICK id \in received, kind \in {"final", "retry"} :
         /\ IF kind = "final" THEN UNCHANGED troubles ELSE Trouble
         /\ received' = received \ {id}
         /\ kept' = kept \cup {[kind |-> kind, msg |-> id]}
         /\ toClient' = Append(toClient, [kind |-> kind, msg |-> id])
  BY DEF ServerAnswer
<1>2. UNCHANGED <<toServer, forgotten>> /\ ServerUnchanged /\ token # 0
  BY DEF ServerAnswer
<1>3. /\ TasksFit' /\ NotifyFits' /\ Placed' /\ Counted' /\ Moves /\ SaltsAreRequested'
      /\ UNCHANGED <<tasks, c, outcome, calls, requesting, cleanUps, token, lastToken, drops>>
      /\ Unused(SaltRequests)' = Unused(SaltRequests)
  BY <1>2, ServerLeaves
<1>4. PICK a, ts : a = [kind |-> kind, msg |-> id] /\ ts = toClient
  OBVIOUS
<1>5. /\ a \in Answer /\ a.msg = id /\ id \in 1..c.last /\ a.kind # "bad_salt"
      /\ a \in Answer \cup Notice /\ ts \in Seq(Answer \cup Notice)
  BY <1>1, <1>4 DEF Answer, IInv, Linked
<1>6. toClient' = Append(ts, a) /\ toClient' \in Seq(Answer \cup Notice) /\ kept' = kept \cup {a}
  <2>1. Append(ts, a) \in Seq(Answer \cup Notice)
    BY <1>5, Appended
  <2>2. QED
    BY <1>1, <1>4, <2>1
<1>7. troubles' \in 0..MaxTroubles /\ troubles' >= troubles
  <2>1. CASE kind = "final"
    BY <1>1, <2>1, RequestsAssumption DEF IInv, Linked
  <2>2. CASE kind # "final"
    BY <1>1, <2>2, TroubleCounts
  <2>3. QED
    BY <2>1, <2>2
<1>8. Linked'
  <2>1. drops' <= troubles' /\ cleanUps' <= troubles'
    BY <1>3, <1>7, RequestsAssumption DEF IInv, Linked
  <2>2. kept' \subseteq Answer /\ \A k \in kept' : k.msg \in 1..c'.last
    BY <1>3, <1>5, <1>6 DEF IInv, Linked
  <2>3. QED
    BY <1>1, <1>2, <1>3, <1>6, <1>7, <2>1, <2>2 DEF IInv, Linked
<1>9. Untouched'
  BY <1>2, <1>3 DEF Untouched
<1>10. SaltsLeft'
  <2>1. Cardinality(BadOf(Append(ts, a))) = Cardinality(BadOf(ts))
    BY <1>5, BadMore
  <2>2. BadSalts' = BadOf(Append(ts, a)) /\ BadSalts = BadOf(ts)
    BY <1>4, <1>6 DEF BadSalts, BadOf
  <2>3. QED
    BY <1>3, <2>1, <2>2 DEF IInv, SaltsLeft
<1>11. ASSUME NEW m \in Nat, CarriedFor(m) PROVE CarriedFor(m)'
  <2>1. Known(m) => Known(m)'
    BY <1>1, <1>5, <1>6 DEF Known
  <2>2. Announced(m) => Announced(m)'
    BY <1>4, <1>5, <1>6, AnnouncedMore
  <2>3. QED
    BY <1>2, <1>11, <2>1, <2>2 DEF CarriedFor, Excused
<1>12. TokenMeansSent'
  BY <1>3, <1>11, CarriedStill
<1>13. QED
  BY <1>3, <1>8, <1>9, <1>10, <1>12 DEF IInv

LEMMA ServerResendKeeps ==
    ASSUME IInv, ServerResend
    PROVE  IInv' /\ Moves
<1>1. PICK a \in kept : toClient' = <<a>>
  BY DEF ServerResend
<1>2. /\ UNCHANGED <<toServer, received, kept, forgotten, troubles>> /\ ServerUnchanged
      /\ token # 0 /\ drops > 0 /\ toClient = <<>>
  BY DEF ServerResend
<1>3. /\ TasksFit' /\ NotifyFits' /\ Placed' /\ Counted' /\ Moves /\ SaltsAreRequested'
      /\ UNCHANGED <<tasks, c, outcome, calls, requesting, cleanUps, token, lastToken, drops>>
      /\ Unused(SaltRequests)' = Unused(SaltRequests)
  BY <1>2, ServerLeaves
<1>4. a \in Answer /\ <<a>> \in Seq(Answer \cup Notice)
  BY <1>1 DEF IInv, Linked
<1>5. Linked'
  BY <1>1, <1>2, <1>3, <1>4 DEF IInv, Linked
<1>6. Untouched' /\ TokenMeansSent'
  BY <1>2, <1>3, TokenType DEF Untouched, TokenMeansSent
<1>7. SaltsLeft'
  <2>1. BadSalts' = {}
    BY <1>1, <1>4 DEF BadSalts, Answer
  <2>2. QED
    BY <1>3, <2>1, SaltsNat, FS_EmptySet DEF SaltsLeft
<1>8. QED
  BY <1>3, <1>5, <1>6, <1>7 DEF IInv

LEMMA ServerComplainKeeps ==
    ASSUME IInv, ServerComplain
    PROVE  IInv' /\ Moves
<1>1. PICK h, ts, S : h = Head(toServer) /\ ts = toServer /\ S = 1..c.last
  OBVIOUS
<1>2. /\ toServer # <<>> /\ Trouble /\ toServer' = Tail(toServer) /\ ServerUnchanged
  BY DEF ServerComplain
<1>3. PICK kind \in {"bad_msg", "bad_msg_20", "bad_salt", "new_session"} :
         /\ toClient' = Append(toClient, [kind |-> kind, msg |-> h])
         /\ kind = "bad_salt" => Cardinality(Unused(SaltRequests)) > Cardinality(BadSalts)
         /\ kind # "new_session" => UNCHANGED <<received, kept, forgotten>>
         /\ kind = "new_session" =>
               /\ received' = {h} /\ kept' = {}
               /\ forgotten' = forgotten \cup
                      {id \in 1..c.last : Known(id) /\ id > h /\ id \notin ToSet(toServer')}
  BY <1>1 DEF ServerComplain, server
<1>4. /\ TasksFit' /\ NotifyFits' /\ Placed' /\ Counted' /\ Moves /\ SaltsAreRequested'
      /\ UNCHANGED <<tasks, c, outcome, calls, requesting, cleanUps, token, lastToken, drops>>
      /\ Unused(SaltRequests)' = Unused(SaltRequests)
  BY <1>2, ServerLeaves
<1>5. h \in S /\ Tail(ts) \in Seq(S) /\ ToSet(ts) = {h} \cup ToSet(Tail(ts))
  <2>1. ts \in Seq(S) /\ ts # <<>>
    BY <1>1, <1>2 DEF IInv, Linked
  <2>2. QED
    BY <1>1, <2>1, Behind
<1>6. PICK a, us : a = [kind |-> kind, msg |-> h] /\ us = toClient
  OBVIOUS
<1>7. /\ a \in Answer \cup Notice /\ us \in Seq(Answer \cup Notice) /\ a.kind = kind /\ a.msg = h
      /\ h \in Nat /\ c.last \in Nat
  <2>1. c.last \in Nat
    BY ClientHas DEF IInv, Placed, Lists, ClientFields
  <2>2. h \in Nat
    BY <1>1, <1>5, <2>1
  <2>3. QED
    BY <1>6, <2>1, <2>2 DEF Notice, IInv, Linked
<1>8. toClient' = Append(us, a) /\ toClient' \in Seq(Answer \cup Notice)
  <2>1. Append(us, a) \in Seq(Answer \cup Notice)
    BY <1>7, Appended
  <2>2. QED
    BY <1>3, <1>6, <2>1
<1>9. Linked'
  <2>1. /\ troubles' \in 0..MaxTroubles /\ drops' <= troubles' /\ cleanUps' <= troubles'
    BY <1>2, <1>4, TroubleCounts, TokenType
  <2>2. /\ received' \subseteq 1..c'.last /\ kept' \subseteq Answer /\ forgotten' \subseteq Nat
        /\ \A k \in kept' : k.msg \in 1..c'.last
    <3>1. /\ received \subseteq 1..c.last /\ kept \subseteq Answer /\ forgotten \subseteq Nat
          /\ c' = c /\ \A k \in kept : k.msg \in 1..c.last
      BY <1>4 DEF IInv, Linked
    <3>2. CASE kind = "new_session"
      <4>1. {id \in 1..c.last : Known(id) /\ id > h /\ id \notin ToSet(toServer')} \subseteq Nat
        BY <1>7
      <4>2. received' = {h} /\ kept' = {} /\ forgotten' \subseteq Nat
        BY <1>3, <3>1, <3>2, <4>1
      <4>3. QED
        BY <1>1, <1>5, <3>1, <4>2
    <3>3. CASE kind # "new_session"
      BY <1>3, <3>1, <3>3
    <3>4. QED
      BY <3>2, <3>3
  <2>3. QED
    BY <1>1, <1>2, <1>4, <1>5, <1>8, <2>1, <2>2 DEF IInv, Linked
<1>10. Untouched'
  BY <1>2, <1>4 DEF IInv, Untouched
<1>11. SaltsLeft'
  <2>1. /\ kind # "bad_salt" => Cardinality(BadOf(Append(us, a))) = Cardinality(BadOf(us))
        /\ Cardinality(BadOf(Append(us, a))) <= Cardinality(BadOf(us)) + 1
    BY <1>7, BadMore
  <2>2. BadSalts' = BadOf(Append(us, a)) /\ BadSalts = BadOf(us)
    BY <1>6, <1>8 DEF BadSalts, BadOf
  <2>3. Cardinality(BadOf(us)) \in Nat
    BY <1>7, BadFinite
  <2>4. Cardinality(BadOf(Append(us, a))) \in Nat
    <3>1. PICK vs : vs = Append(us, a)
      OBVIOUS
    <3>2. vs \in Seq(Answer \cup Notice)
      BY <1>8, <3>1
    <3>3. Cardinality(BadOf(vs)) \in Nat
      BY <3>2, BadFinite
    <3>4. QED
      BY <3>1, <3>3
  <2>5. Cardinality(BadOf(us)) <= Cardinality(Unused(SaltRequests))
    BY <2>2 DEF IInv, SaltsLeft
  <2>6. Cardinality(BadOf(Append(us, a))) <= Cardinality(Unused(SaltRequests))
    BY <1>3, <2>1, <2>2, <2>3, <2>4, <2>5, SaltsNat
  <2>7. QED
    BY <1>4, <2>2, <2>6 DEF SaltsLeft
<1>12. ASSUME NEW m \in Nat, CarriedFor(m) PROVE CarriedFor(m)'
  <2>1. Announced(m) \/ Restarts(a, m) => Announced(m)'
    BY <1>6, <1>7, <1>8, AnnouncedMore
  <2>2. m \in ToSet(toServer) => m = h \/ m \in ToSet(toServer')
    BY <1>1, <1>2, <1>5
  <2>3. CASE kind \in {"bad_msg", "bad_salt"}
    <3>1. Restarts(a, m)
      BY <1>7, <2>3 DEF Restarts
    <3>2. QED
      BY <2>1, <3>1 DEF CarriedFor, Excused
  <2>4. CASE kind = "bad_msg_20"
    <3>1. m = h => Restarts(a, m)
      BY <1>7, <2>4 DEF Restarts
    <3>2. Known(m) => Known(m)'
      BY <1>3, <2>4 DEF Known
    <3>3. forgotten' = forgotten
      BY <1>3, <2>4
    <3>4. QED
      BY <1>12, <2>1, <2>2, <3>1, <3>2, <3>3 DEF CarriedFor, Excused
  <2>5. CASE kind = "new_session"
    <3>1. m = h => Known(m)'
      BY <1>3, <2>5 DEF Known
    <3>2. m < h => Announced(m)'
      BY <1>7, <2>1, <2>5 DEF Restarts
    <3>3. ASSUME m > h, Known(m) PROVE m \in ToSet(toServer') \/ m \in forgotten'
      <4>1. m \in 1..c.last
        BY <3>3 DEF Known, IInv, Linked
      <4>2. QED
        BY <1>3, <2>5, <3>3, <4>1
    <3>4. forgotten \subseteq forgotten'
      BY <1>3, <2>5
    <3>5. m < h \/ m = h \/ m > h
      BY <1>7
    <3>6. QED
      BY <1>12, <2>1, <2>2, <3>1, <3>2, <3>3, <3>4, <3>5 DEF CarriedFor, Excused
  <2>6. QED
    BY <2>3, <2>4, <2>5
<1>13. TokenMeansSent'
  BY <1>4, <1>12, CarriedStill
<1>14. QED
  BY <1>4, <1>9, <1>10, <1>11, <1>13 DEF IInv

----------------------------------------------------------------------------
LEMMA Begins == Init => IInv
<1> SUFFICES ASSUME Init PROVE IInv
  OBVIOUS
<1>1. PICK ts, d : /\ ts = <<>>
                   /\ d = [queue |-> <<>>, running |-> <<>>, msg |-> [r \in Reqs |-> 0],
                           ctoken |-> [r \in Reqs |-> 0], olds |-> [r \in Reqs |-> {}], last |-> 0]
  OBVIOUS
<1>2. /\ tasks = ts /\ c = d /\ outcome = [r \in Reqs |-> "new"] /\ calls = [r \in Reqs |-> 0]
      /\ requesting = FALSE /\ token = 0 /\ lastToken = 0 /\ toServer = <<>> /\ received = {}
      /\ kept = {} /\ forgotten = {} /\ toClient = <<>> /\ troubles = 0 /\ drops = 0 /\ cleanUps = 0
  BY <1>1 DEF Init
<1>3. /\ d.queue = <<>> /\ d.running = <<>> /\ d.last = 0
  BY <1>1
<1>4. d \in Client
  <2>1. <<>> \in Seq(Reqs)
    OBVIOUS
  <2>2. QED
    BY <1>1, <2>1 DEF Client
<1>5. ToSet(<<>>) = {} /\ IsInjective(<<>>) /\ Posted(ts) = {} /\ Notifies(ts) = {} /\ DOMAIN ts = {}
  BY <1>1 DEF ToSet, IsInjective, Posted, Notifies
<1>6. TasksFit
  <2>1. ts \in Seq(Task)
    BY <1>1
  <2>2. QED
    BY <1>2, <1>5, <2>1 DEF TasksFit, TasksOf
<1>7. NotifyFits
  BY <1>2, <1>5 DEF NotifyFits
<1>8. Placed
  <2>1. Pending = {}
    BY <1>2 DEF Pending
  <2>2. Bounded(<<>>)
    <3>1. {} \ SaltRequests = {} /\ Cardinality({}) = 0
      BY FS_EmptySet
    <3>2. Cardinality(ToSet(<<>>) \ SaltRequests) = 0
      BY <1>5, <3>1
    <3>3. QED
      BY <3>2, RequestsAssumption DEF Bounded
  <2>3. Lists(d, {})
    BY <1>3, <1>4, <1>5, <2>2 DEF Lists
  <2>4. Pending \ Posted(tasks) = {} /\ Posted(tasks) \subseteq Pending
    BY <1>2, <1>5, <2>1
  <2>5. outcome \in [Reqs -> Outcomes]
    BY <1>2 DEF Outcomes
  <2>6. Lists(c, Pending \ Posted(tasks))
    BY <1>2, <2>3, <2>4
  <2>7. QED
    BY <2>4, <2>5, <2>6 DEF Placed
<1>9. Counted
  BY <1>2 DEF Counted, CompletedOnce
<1>10. Linked
  <2>1. <<>> \in Seq(1..c.last) /\ <<>> \in Seq(Answer \cup Notice)
    OBVIOUS
  <2>2. QED
    <3>1. drops \in Nat /\ troubles \in 0..MaxTroubles /\ cleanUps \in Nat
          /\ drops <= troubles /\ cleanUps <= troubles
      BY <1>2, RequestsAssumption
    <3>2. /\ requesting \in BOOLEAN /\ token \in {0, lastToken} /\ received \subseteq 1..c.last
          /\ lastToken = (IF token = 0 THEN drops ELSE drops + 1)
          /\ kept \subseteq Answer /\ forgotten \subseteq Nat /\ \A a \in kept : a.msg \in 1..c.last
      BY <1>2
    <3>3. toServer \in Seq(1..c.last) /\ toClient \in Seq(Answer \cup Notice)
      BY <1>2, <2>1
    <3>4. QED
      BY <3>1, <3>2, <3>3 DEF Linked
<1>11. Untouched /\ TokenMeansSent /\ SaltsAreRequested
  BY <1>2, <1>3 DEF Untouched, TokenMeansSent, SaltsAreRequested
<1>12. SaltsLeft
  <2>1. BadSalts = {}
    BY <1>2 DEF BadSalts
  <2>2. QED
    BY <2>1, SaltsNat, FS_EmptySet DEF SaltsLeft
<1>13. QED
  BY <1>6, <1>7, <1>8, <1>9, <1>10, <1>11, <1>12 DEF IInv

LEMMA Steps == IInv /\ [Next]_vars => IInv' /\ Moves
<1> SUFFICES ASSUME IInv, [Next]_vars PROVE IInv' /\ Moves
  OBVIOUS
<1>1. CASE sendRequest
  BY <1>1, sendRequestKeeps
<1>2. CASE cleanUp
  BY <1>2, cleanUpKeeps
<1>3. CASE \E r \in Rpcs : cancelRequest(r)
  BY <1>3, cancelRequestKeeps
<1>4. CASE RunTask
  BY <1>4, RunTaskKeeps
<1>5. CASE \E late \in Lates(c) : Select(late)
  <2>1. PICK late : Select(late)
    BY <1>5
  <2>2. QED
    BY <2>1, SelectKeeps
<1>6. CASE onConnectionConnected
  BY <1>6, ConnectedKeeps
<1>7. CASE Drop
  BY <1>7, DropKeeps
<1>8. CASE processServerResponse
  BY <1>8, processServerResponseKeeps
<1>9. CASE ServerReceive
  BY <1>9, ServerReceiveKeeps
<1>10. CASE ServerAnswer
  BY <1>10, ServerAnswerKeeps
<1>11. CASE ServerResend
  BY <1>11, ServerResendKeeps
<1>12. CASE ServerComplain
  BY <1>12, ServerComplainKeeps
<1>13. CASE UNCHANGED vars
  <2>1. /\ UNCHANGED <<tasks, c, outcome, calls, requesting, token, lastToken, toServer>>
        /\ UNCHANGED <<received, kept, forgotten, toClient, troubles, drops, cleanUps>>
    BY <1>13 DEF vars
  <2>2. Lists(c', Pending \ Posted(tasks))
    BY <2>1 DEF IInv, Placed
  <2>3. TasksFit' /\ NotifyFits' /\ Placed' /\ Counted' /\ Moves
    BY <2>1, <2>2, BooksKept
  <2>4. SaltsLeft' /\ SaltsAreRequested'
    BY <2>1, SaltsKept
  <2>5. Linked' /\ Untouched' /\ TokenMeansSent'
    BY <2>1 DEF IInv, Linked, Untouched, TokenMeansSent, Running, Known
  <2>6. QED
    BY <2>3, <2>4, <2>5 DEF IInv
<1>14. QED
  BY <1>1, <1>2, <1>3, <1>4, <1>5, <1>6, <1>7, <1>8, <1>9, <1>10, <1>11, <1>12, <1>13 DEF Next

LEMMA SentPosted == Sent = Posted(tasks)
BY DEF Sent, Posted

(* What the invariant says of the lists. *)
LEMMA PlacesPending ==
    ASSUME IInv
    PROVE  Places = Pending
<1>1. Queued \cup Running = Pending \ Posted(tasks) /\ Posted(tasks) \subseteq Pending
  BY DEF IInv, Placed, Lists, Queued, Running
<1>2. QED
  BY <1>1, SentPosted DEF Places

LEMMA InOrder == IInv => ListsKept
<1> SUFFICES ASSUME IInv PROVE ListsKept
  OBVIOUS
<1>1. /\ c \in Client /\ outcome \in [Reqs -> Outcomes] /\ tasks \in Seq(Task)
      /\ calls \in [Reqs -> Nat] /\ CompletedOnce /\ Bounded(c.running)
  BY DEF IInv, Placed, Lists, TasksFit, TasksOf, Counted
<1>2. TypeOK
  <2>1. calls \in [Reqs -> 0..2]
    BY <1>1 DEF CompletedOnce
  <2>2. /\ requesting \in BOOLEAN /\ token \in {0, lastToken}
        /\ toServer \in Seq(1..c.last) /\ received \subseteq 1..c.last
        /\ kept \subseteq Answer /\ forgotten \subseteq Nat
        /\ toClient \in Seq(Answer \cup Notice) /\ troubles \in 0..MaxTroubles
    BY DEF IInv, Linked
  <2>3. drops \in 0..troubles /\ cleanUps \in 0..troubles /\ lastToken \in 0..(MaxTroubles + 1)
    BY RequestsAssumption DEF IInv, Linked
  <2>4. QED
    BY <1>1, <2>1, <2>2, <2>3 DEF TypeOK, Client, Outcomes, Task
<1>3. OneList
  <2>1. \A i, j \in DOMAIN tasks : tasks[i].kind = "send" /\ tasks[i] = tasks[j] => i = j
    BY DEF IInv, TasksFit, TasksOf
  <2>2. /\ IsInjective(c.queue) /\ IsInjective(c.running) /\ Queued \cap Running = {}
        /\ Queued \cup Running = Pending \ Posted(tasks)
    BY DEF IInv, Placed, Lists, Queued, Running
  <2>3. Places = {r \in Reqs : outcome[r] = "pending"}
    BY PlacesPending DEF Pending
  <2>4. QED
    BY <2>1, <2>2, <2>3, SentPosted DEF OneList
<1>4. RunningBounded
  BY <1>1 DEF RunningBounded, Bounded, Running
<1>5. QED
  BY <1>1, <1>2, <1>3, <1>4 DEF ListsKept

THEOREM InvariantHolds == Spec => []IInv
<1>1. IInv /\ [Next]_vars => IInv'
  BY Steps
<1>2. QED
  BY Begins, <1>1, PTL DEF Spec

(* For any requests, limit and troubles: each request made with sendRequest is
   in one task or one of the two lists until it is answered, cancelled or
   cleared, its callback is called once, and processRequestQueue never runs
   more generic requests than allowed. *)
THEOREM AlwaysListsKept == Spec => []ListsKept
BY InvariantHolds, InOrder, PTL

(* For any requests, limit and troubles: as long as nobody has called cleanUp,
   requestingSaltsForDc means that a request for salts is under way. *)
THEOREM AlwaysSaltsAreRequested == Spec => []SaltsAreRequested
<1>1. IInv => SaltsAreRequested
  BY DEF IInv
<1>2. QED
  BY <1>1, InvariantHolds, PTL

(* For any requests, limit and troubles: a running request that carries the
   token of the connection, and is not tried again for that reason, was sent,
   and is not lost unless its session was, between messages out of order. *)
THEOREM AlwaysTokenMeansSent == Spec => []TokenMeansSent
<1>1. IInv => TokenMeansSent
  BY DEF IInv
<1>2. QED
  BY <1>1, InvariantHolds, PTL

----------------------------------------------------------------------------
(* The refinement: the state of a request in the contract is told by its
   outcome, since the lists hold exactly the pending requests. *)
Shown == [r \in Reqs |-> IF r \in Places THEN "open"
                         ELSE IF outcome[r] = "new" THEN "new" ELSE "closed"]
Wanted == {r \in Reqs : \E i \in DOMAIN tasks :
              tasks[i].kind = "cleanUp" \/ (tasks[i].kind \in {"cancel", "notify"} /\ tasks[i].req = r)}

LEMMA ShownBy ==
    ASSUME IInv
    PROVE  \A r \in Reqs : Shown[r] = IF outcome[r] = "pending" THEN "open"
                                      ELSE IF outcome[r] = "new" THEN "new" ELSE "closed"
BY PlacesPending DEF Shown, Pending

LEMMA ShownNext ==
    ASSUME IInv'
    PROVE  \A r \in Reqs : Shown'[r] = IF outcome'[r] = "pending" THEN "open"
                                       ELSE IF outcome'[r] = "new" THEN "new" ELSE "closed"
<1>1. ToSet(c.queue)' \cup ToSet(c.running)' = Pending' \ Posted(tasks)'
  BY DEF IInv, Placed, Lists
<1>2. Posted(tasks)' \subseteq Pending'
  BY DEF IInv, Placed
<1>3. Places' = ToSet(c.queue)' \cup ToSet(c.running)' \cup Posted(tasks)'
  BY DEF Places, Queued, Running, Sent, Posted
<1>4. Places' = Pending'
  BY <1>1, <1>2, <1>3
<1>5. QED
  BY <1>4 DEF Shown, Pending

LEMMA StepMaps == IInv /\ IInv' /\ Moves => Contract!Next
<1> SUFFICES ASSUME IInv, IInv', Moves PROVE Contract!Next
  OBVIOUS
<1>1. ASSUME NEW r \in Reqs
      PROVE  \/ Shown'[r] = Shown[r] /\ calls'[r] = calls[r]
             \/ Shown[r] = "new" /\ Shown'[r] = "open" /\ calls'[r] = calls[r]
             \/ /\ r \in Wanted \cup DropRequests /\ Shown[r] = "open" /\ Shown'[r] = "closed"
                /\ calls'[r] = calls[r]
             \/ /\ r \notin DropRequests /\ Shown[r] = "open" /\ Shown'[r] = "closed"
                /\ calls'[r] = calls[r] + 1
  <2>1. Move(r)
    BY DEF Moves
  <2>2. Revoked(r) => r \in Wanted
    BY DEF Revoked, Wanted, Cancels
  <2>3. QED
    BY <2>1, <2>2, ShownBy, ShownNext DEF Move
<1>2. ASSUME NEW r \in Reqs, NEW q \in Reqs,
             calls'[r] = calls[r] + 1, calls'[q] = calls[q] + 1
      PROVE  r = q
  <2>1. calls[r] \in Nat /\ calls[q] \in Nat
    BY DEF IInv, Counted
  <2>2. calls'[r] # calls[r] /\ calls'[q] # calls[q]
    BY <1>2, <2>1
  <2>3. QED
    BY <2>2 DEF Moves
<1>3. QED
  BY <1>1, <1>2 DEF Contract!Next, Contract!Same, Contract!Open, Contract!Withdraw, Contract!Answer,
     Shown, Wanted

LEMMA InitMaps == Init => Contract!Init
<1> SUFFICES ASSUME Init PROVE Contract!Init
  OBVIOUS
<1>1. IInv
  BY Begins
<1>2. outcome = [r \in Reqs |-> "new"] /\ calls = [r \in Reqs |-> 0] /\ tasks = <<>>
  BY DEF Init
<1>3. Shown = [r \in Reqs |-> "new"]
  BY <1>1, <1>2, PlacesPending DEF Shown, Pending
<1>4. Wanted = {}
  BY <1>2 DEF Wanted
<1>5. QED
  BY <1>2, <1>3, <1>4 DEF Contract!Init, Shown, Wanted

(* For any requests, limit and troubles, the two lists and the tasks implement
   the contract of sendRequest and cancelRequest: a request is opened once,
   answered by one call or withdrawn after it was revoked, and then closed. *)
THEOREM ImplementsContract == Spec => KeepsContract
<1>1. IInv /\ IInv' /\ [Next]_vars => Contract!Next
  BY Steps, StepMaps
<1>2. QED
  BY <1>1, InvariantHolds, InitMaps, PTL DEF Spec, KeepsContract, Contract!Spec

=============================================================================
