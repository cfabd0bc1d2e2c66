------------------------- MODULE ProxyChecksProofs --------------------------
(***************************************************************************)
(* That no check of a proxy is forgotten, answered twice or kept waiting   *)
(* beside a free connection, for every number of checks and connections.   *)
(***************************************************************************)
EXTENDS ProxyChecks, FiniteSetTheorems, SequenceTheorems, TLAPS

Tokens == {"none", "current", "old"}
Partial(S) == UNION {[D -> S] : D \in SUBSET Checks}

(* The thread. *)
Threads ==
    [tasks : Seq(Tasks), active : Partial(Slots), waiting : Seq(Checks), running : Partial(Tokens),
     conn : [Slots -> {"closed", "connecting", "connected"}], ping : [Slots -> SUBSET Checks],
     answers : [Checks -> Nat], dropped : SUBSET Checks, lost : SUBSET Checks]

(* The checks that pending tasks start, or whose requests they send; no check
   is named by two of the same kind. *)
StartsIn(q) == {c \in Checks : Start(c) \in Range(q)}
SendsIn(q) == {c \in Checks : Send(c) \in Range(q)}
OnceIn(q) == \A i, j \in DOMAIN q : q[i] = q[j] /\ q[i].task # "closed" => i = j

Done(d) == {c \in Checks : d.answers[c] > 0}

(* Each of the checks A is in one place and in no other. *)
Placed(d, A) ==
    /\ A = StartsIn(d.tasks) \cup DOMAIN d.active \cup Range(d.waiting) \cup Done(d) \cup d.dropped
    /\ StartsIn(d.tasks) \cap (DOMAIN d.active \cup Range(d.waiting) \cup Done(d) \cup d.dropped) = {}
    /\ DOMAIN d.active \cap (Range(d.waiting) \cup Done(d) \cup d.dropped) = {}
    /\ Range(d.waiting) \cap (Done(d) \cup d.dropped) = {}
    /\ Done(d) \cap d.dropped = {}

(* And only once, also within a queue; it is answered once. *)
Single(d) ==
    /\ OnceIn(d.tasks)
    /\ \A i, j \in DOMAIN d.waiting : d.waiting[i] = d.waiting[j] => i = j
    /\ \A c \in Checks : d.answers[c] <= 1

(* A check that holds a connection holds it alone; its request is running or
   will be, but for the checks X whose request is being sent; the pings that
   the server has are those of requests that are running or answered. *)
Held(d, X) ==
    /\ \A c, e \in DOMAIN d.active : d.active[c] = d.active[e] => c = e
    /\ DOMAIN d.active = DOMAIN d.running \cup SendsIn(d.tasks) \cup X
    /\ DOMAIN d.running \cap SendsIn(d.tasks) = {}
    /\ X \cap (DOMAIN d.running \cup SendsIn(d.tasks)) = {}
    /\ \A s \in Slots : d.ping[s] \subseteq DOMAIN d.running \cup Done(d)

(* Without an auth key no check gets as far as a connection. *)
Keyed(d) ==
    IF hasKey THEN d.dropped = {} ELSE DOMAIN d.active = {} /\ d.waiting = <<>>

(* While a check waits there are as many checks to be started, k of them just
   now, as there are connections that no check holds. *)
Busy(d, k) ==
    d.waiting # <<>> =>
        Cardinality(DOMAIN d.active) + Cardinality(StartsIn(d.tasks)) + k >= Cardinality(Slots)

InOrder(d, A, X, k) ==
    d \in Threads /\ Placed(d, A) /\ Single(d) /\ Held(d, X) /\ Keyed(d) /\ Busy(d, k)

IInv ==
    /\ hasKey \in BOOLEAN /\ asked \subseteq Checks /\ breaks \in 0..MaxBreaks
    /\ InOrder(p, asked, {}, 0)

----------------------------------------------------------------------------
(* Sets of checks and of connections. *)
LEMMA Finite ==
    /\ IsFiniteSet(Checks) /\ IsFiniteSet(Slots)
    /\ \A T : T \subseteq Checks => IsFiniteSet(T) /\ Cardinality(T) \in Nat
    /\ \A T : T \subseteq Slots => IsFiniteSet(T) /\ Cardinality(T) \in Nat
  BY ProxyAssumption, FS_Subset, FS_CardinalityType

LEMMA LeastSlot ==
    ASSUME NEW T, T \subseteq Slots, T # {}
    PROVE  \E x \in T : \A y \in T : x <= y
<1>1. T \subseteq Nat
  BY ProxyAssumption
<1>2. PICK x \in T : \A y \in T : ~(<<y, x>> \in OpToRel(<, Nat))
  BY <1>1, WFMin, NatLessThanWellFounded
<1>3. \A y \in T : ~(y < x) /\ y \in Nat
  BY <1>1, <1>2 DEF OpToRel
<1>4. \A y \in T : x <= y
  BY <1>3
<1>5. QED
  BY <1>4

(* Checks that hold a connection each, and all connections: as many. *)
LEMMA AllHeld ==
    ASSUME NEW f, f \in Partial(Slots), \A c, e \in DOMAIN f : f[c] = f[e] => c = e,
           Slots \subseteq Range(f)
    PROVE  Cardinality(DOMAIN f) = Cardinality(Slots)
<1>1. DOMAIN f \subseteq Checks /\ f \in [DOMAIN f -> Slots]
  BY DEF Partial
<1>2. f \in Bijection(DOMAIN f, Slots)
  BY <1>1 DEF Bijection, Injection, Surjection, IsInjective, Range
<1>3. ExistsBijection(DOMAIN f, Slots)
  BY <1>2 DEF ExistsBijection
<1>4. QED
  BY <1>1, <1>3, Finite, FS_Bijection

LEMMA WithIs ==
    ASSUME NEW S, NEW f \in Partial(S), NEW c \in Checks, NEW v \in S
    PROVE  /\ With(f, c, v) \in Partial(S) /\ DOMAIN With(f, c, v) = DOMAIN f \cup {c}
           /\ With(f, c, v)[c] = v /\ \A x \in DOMAIN f : x # c => With(f, c, v)[x] = f[x]
<1>1. DOMAIN f \subseteq Checks /\ f \in [DOMAIN f -> S]
  BY DEF Partial
<1>2. With(f, c, v) \in [DOMAIN f \cup {c} -> S] /\ DOMAIN f \cup {c} \in SUBSET Checks
  BY <1>1 DEF With
<1>3. With(f, c, v) \in Partial(S)
  BY <1>2 DEF Partial
<1>4. QED
  BY <1>3 DEF With

LEMMA WithoutIs ==
    ASSUME NEW S, NEW f \in Partial(S), NEW c
    PROVE  /\ Without(f, c) \in Partial(S) /\ DOMAIN Without(f, c) = DOMAIN f \ {c}
           /\ \A x \in DOMAIN f \ {c} : Without(f, c)[x] = f[x]
<1>1. DOMAIN f \subseteq Checks /\ f \in [DOMAIN f -> S]
  BY DEF Partial
<1>2. Without(f, c) \in [DOMAIN f \ {c} -> S] /\ DOMAIN f \ {c} \in SUBSET Checks
  BY <1>1 DEF Without, Restrict
<1>3. Without(f, c) \in Partial(S)
  BY <1>2 DEF Partial
<1>4. QED
  BY <1>3 DEF Without, Restrict

(* Queues. *)
LEMMA AppendIs ==
    ASSUME NEW S, NEW q \in Seq(S), NEW x \in S
    PROVE  /\ Append(q, x) \in Seq(S) /\ Append(q, x) # <<>>
           /\ Len(q) \in Nat /\ DOMAIN q = 1..Len(q)
           /\ DOMAIN Append(q, x) = 1..(Len(q) + 1)
           /\ \A n \in 1..Len(q) : Append(q, x)[n] = q[n]
           /\ Append(q, x)[Len(q) + 1] = x
           /\ Range(Append(q, x)) = Range(q) \cup {x}
<1> DEFINE r == Append(q, x)
<1>1. /\ r \in Seq(S) /\ Len(q) \in Nat /\ DOMAIN q = 1..Len(q)
      /\ DOMAIN r = 1..(Len(q) + 1)
      /\ \A n \in 1..Len(q) : r[n] = q[n]
      /\ r[Len(q) + 1] = x /\ r # <<>>
  BY AppendProperties, LenProperties
<1> HIDE DEF r
<1>2. Len(q) + 1 \in DOMAIN r /\ \A n \in DOMAIN q : n \in DOMAIN r /\ r[n] = q[n]
  BY <1>1
<1>3. \A n \in DOMAIN r : n \in DOMAIN q \/ n = Len(q) + 1
  BY <1>1
<1>4. Range(r) = Range(q) \cup {x}
  BY <1>1, <1>2, <1>3 DEF Range
<1>5. QED
  BY <1>1, <1>4 DEF r

LEMMA TailIs ==
    ASSUME NEW S, NEW q \in Seq(S), q # <<>>
    PROVE  /\ Tail(q) \in Seq(S) /\ Head(q) \in S /\ Head(q) = q[1] /\ 1 \in DOMAIN q
           /\ \A n \in DOMAIN Tail(q) : n \in Nat /\ n + 1 \in DOMAIN q /\ n + 1 # 1 /\ Tail(q)[n] = q[n + 1]
           /\ \A n \in DOMAIN q : n # 1 => n \in Nat /\ n - 1 \in DOMAIN Tail(q) /\ Tail(q)[n - 1] = q[n]
           /\ Range(q) = Range(Tail(q)) \cup {Head(q)}
<1> DEFINE r == Tail(q)
<1>1. /\ r \in Seq(S) /\ Head(q) \in S /\ Head(q) = q[1] /\ 1 \in DOMAIN q /\ Len(q) \in Nat
      /\ DOMAIN q = 1..Len(q) /\ DOMAIN r = 1..(Len(q) - 1)
      /\ \A n \in 1..(Len(q) - 1) : r[n] = q[n + 1]
  BY HeadTailProperties, LenProperties
<1> HIDE DEF r
<1>2. \A n \in DOMAIN r : n \in Nat /\ n + 1 \in DOMAIN q /\ n + 1 # 1 /\ r[n] = q[n + 1]
  BY <1>1
<1>3. \A n \in DOMAIN q : n # 1 => n \in Nat /\ n - 1 \in DOMAIN r /\ r[n - 1] = q[n]
  <2>1. TAKE n \in DOMAIN q
  <2>2. HAVE n # 1
  <2>3. n \in Nat /\ n - 1 \in 1..(Len(q) - 1) /\ (n - 1) + 1 = n
    BY <1>1, <2>2
  <2>4. r[n - 1] = q[(n - 1) + 1]
    BY <1>1, <2>3
  <2>5. QED
    BY <1>1, <2>3, <2>4
<1>4. Range(q) = Range(r) \cup {Head(q)}
  <2>1. \A x \in Range(q) : x \in Range(r) \cup {Head(q)}
    BY <1>1, <1>3 DEF Range
  <2>2. \A x \in Range(r) : x \in Range(q)
    BY <1>2 DEF Range
  <2>3. Head(q) \in Range(q)
    BY <1>1 DEF Range
  <2>4. QED
    BY <2>1, <2>2, <2>3
<1>5. QED
  BY <1>1, <1>2, <1>3, <1>4 DEF r

(* Pending tasks. *)
LEMMA TaskKinds ==
    /\ \A c \in Checks : Start(c) \in Tasks /\ Start(c).task = "start" /\ Start(c).check = c
    /\ \A c \in Checks : Send(c) \in Tasks /\ Send(c).task = "send" /\ Send(c).check = c
    /\ \A s \in Slots : ClosedTask(s) \in Tasks /\ ClosedTask(s).task = "closed"
    /\ \A t \in Tasks : \/ t.task = "start" /\ t.check \in Checks /\ t = Start(t.check)
                        \/ t.task = "send" /\ t.check \in Checks /\ t = Send(t.check)
                        \/ t.task = "closed" /\ t.slot \in Slots
  BY DEF Tasks, Start, Send, ClosedTask

(* A task that is appended, a closed one or the only one of its kind. *)
LEMMA TaskAppended ==
    ASSUME NEW q \in Seq(Tasks), OnceIn(q), NEW t \in Tasks,
           t.task = "closed" \/ t \notin Range(q)
    PROVE  LET r == Append(q, t) IN
           /\ r \in Seq(Tasks) /\ OnceIn(r)
           /\ StartsIn(r) = StartsIn(q) \cup {c \in Checks : t = Start(c)}
           /\ SendsIn(r) = SendsIn(q) \cup {c \in Checks : t = Send(c)}
<1> DEFINE r == Append(q, t)
<1>1. /\ r \in Seq(Tasks) /\ Len(q) \in Nat /\ DOMAIN q = 1..Len(q)
      /\ DOMAIN r = 1..(Len(q) + 1)
      /\ \A n \in 1..Len(q) : r[n] = q[n]
      /\ r[Len(q) + 1] = t
      /\ Range(r) = Range(q) \cup {t}
  BY AppendIs
<1> HIDE DEF r
<1>2. OnceIn(r)
  <2>1. SUFFICES ASSUME NEW i \in DOMAIN r, NEW j \in DOMAIN r, r[i] = r[j], r[i].task # "closed"
                 PROVE  i = j
    BY DEF OnceIn
  <2>2. (i \in DOMAIN q \/ i = Len(q) + 1) /\ (j \in DOMAIN q \/ j = Len(q) + 1)
    BY <1>1
  <2>3. CASE i \in DOMAIN q /\ j \in DOMAIN q
    BY <1>1, <2>1, <2>3 DEF OnceIn
  <2>4. CASE i \in DOMAIN q /\ j = Len(q) + 1
    BY <1>1, <2>1, <2>4 DEF Range
  <2>5. CASE j \in DOMAIN q /\ i = Len(q) + 1
    BY <1>1, <2>1, <2>5 DEF Range
  <2>6. QED
    BY <2>2, <2>3, <2>4, <2>5
<1>3. QED
  BY <1>1, <1>2 DEF StartsIn, SendsIn, r

LEMMA TaskTaken ==
    ASSUME NEW q \in Seq(Tasks), OnceIn(q), q # <<>>
    PROVE  /\ Tail(q) \in Seq(Tasks) /\ OnceIn(Tail(q)) /\ Head(q) \in Tasks /\ Head(q) \in Range(q)
           /\ StartsIn(Tail(q)) = StartsIn(q) \ {c \in Checks : Head(q) = Start(c)}
           /\ SendsIn(Tail(q)) = SendsIn(q) \ {c \in Checks : Head(q) = Send(c)}
<1> DEFINE r == Tail(q)
<1>1. /\ r \in Seq(Tasks) /\ Head(q) \in Tasks /\ Head(q) = q[1] /\ 1 \in DOMAIN q
      /\ \A n \in DOMAIN r : n \in Nat /\ n + 1 \in DOMAIN q /\ n + 1 # 1 /\ r[n] = q[n + 1]
      /\ Range(q) = Range(r) \cup {Head(q)}
  BY TailIs
<1> HIDE DEF r
<1>2. OnceIn(r)
  <2>1. SUFFICES ASSUME NEW i \in DOMAIN r, NEW j \in DOMAIN r, r[i] = r[j], r[i].task # "closed"
                 PROVE  i = j
    BY DEF OnceIn
  <2>2. i + 1 = j + 1
    BY <1>1, <2>1 DEF OnceIn
  <2>3. QED
    BY <1>1, <2>2
<1>3. Head(q).task # "closed" => Head(q) \notin Range(r)
  <2>1. SUFFICES ASSUME Head(q).task # "closed", NEW n \in DOMAIN r, r[n] = Head(q)
                 PROVE  FALSE
    BY DEF Range
  <2>2. n + 1 = 1
    BY <1>1, <2>1 DEF OnceIn
  <2>3. QED
    BY <1>1, <2>2
<1>4. \A c \in Checks : Start(c).task # "closed" /\ Send(c).task # "closed"
  BY TaskKinds
<1>5. StartsIn(r) = StartsIn(q) \ {c \in Checks : Head(q) = Start(c)}
  BY <1>1, <1>3, <1>4 DEF StartsIn
<1>6. SendsIn(r) = SendsIn(q) \ {c \in Checks : Head(q) = Send(c)}
  BY <1>1, <1>3, <1>4 DEF SendsIn
<1>7. QED
  BY <1>1, <1>2, <1>5, <1>6 DEF r

----------------------------------------------------------------------------
(* What the connections do leaves the lists alone: the checks keep their
   places, the requests may lose their token. *)
Quiet(d, e) ==
    /\ e \in Threads /\ OnceIn(e.tasks)
    /\ StartsIn(e.tasks) = StartsIn(d.tasks) /\ SendsIn(e.tasks) = SendsIn(d.tasks)
    /\ e.active = d.active /\ e.waiting = d.waiting /\ DOMAIN e.running = DOMAIN d.running
    /\ e.answers = d.answers /\ e.dropped = d.dropped
    /\ \A s \in Slots : e.ping[s] \subseteq d.ping[s]

LEMMA QuietKeeps ==
    ASSUME NEW d, NEW e, NEW A, NEW X, NEW k, InOrder(d, A, X, k), Quiet(d, e)
    PROVE  InOrder(e, A, X, k)
<1>1. Done(e) = Done(d)
  BY DEF Quiet, Done
<1>2. Placed(e, A)
  BY <1>1 DEF InOrder, Placed, Quiet
<1>3. Single(e)
  BY DEF InOrder, Single, Quiet
<1>4. Held(e, X)
  <2>1. \A s \in Slots : e.ping[s] \subseteq DOMAIN e.running \cup Done(e)
    BY <1>1 DEF InOrder, Held, Quiet
  <2>2. QED
    BY <2>1 DEF InOrder, Held, Quiet
<1>5. Keyed(e)
  BY DEF InOrder, Keyed, Quiet
<1>6. Busy(e, k)
  BY DEF InOrder, Busy, Quiet
<1>7. QED
  BY <1>2, <1>3, <1>4, <1>5, <1>6 DEF InOrder, Quiet

LEMMA QuietTransitive ==
    ASSUME NEW d, NEW e, NEW f, Quiet(d, e), Quiet(e, f)
    PROVE  Quiet(d, f)
<1>1. \A s \in Slots : f.ping[s] \subseteq d.ping[s]
  BY DEF Quiet
<1>2. QED
  BY <1>1 DEF Quiet

LEMMA ThreadFields ==
    ASSUME NEW d \in Threads
    PROVE  /\ d.tasks \in Seq(Tasks) /\ d.active \in Partial(Slots) /\ d.waiting \in Seq(Checks)
           /\ d.running \in Partial(Tokens)
           /\ d.conn \in [Slots -> {"closed", "connecting", "connected"}]
           /\ d.ping \in [Slots -> SUBSET Checks] /\ d.answers \in [Checks -> Nat]
           /\ d.dropped \subseteq Checks /\ d.lost \subseteq Checks
           /\ DOMAIN d.active \subseteq Checks /\ DOMAIN d.running \subseteq Checks
           /\ \A c \in DOMAIN d.active : d.active[c] \in Slots
           /\ \A c \in DOMAIN d.running : d.running[c] \in Tokens
<1>1. /\ d.tasks \in Seq(Tasks) /\ d.active \in Partial(Slots) /\ d.waiting \in Seq(Checks)
      /\ d.running \in Partial(Tokens)
      /\ d.conn \in [Slots -> {"closed", "connecting", "connected"}]
      /\ d.ping \in [Slots -> SUBSET Checks] /\ d.answers \in [Checks -> Nat]
      /\ d.dropped \subseteq Checks /\ d.lost \subseteq Checks
  BY DEF Threads
<1>2. DOMAIN d.active \subseteq Checks /\ d.active \in [DOMAIN d.active -> Slots]
  BY <1>1 DEF Partial
<1>3. DOMAIN d.running \subseteq Checks /\ d.running \in [DOMAIN d.running -> Tokens]
  BY <1>1 DEF Partial
<1>4. QED
  BY <1>1, <1>2, <1>3

LEMMA ClosedQuiet ==
    ASSUME NEW d \in Threads, OnceIn(d.tasks), NEW s \in Slots
    PROVE  Quiet(d, Closed(d, s)) /\ Closed(d, s).conn[s] = "closed"
<1> DEFINE run == [c \in DOMAIN d.running |-> IF d.running[c] = "current" /\ d.active[c] = s
                                              THEN "old" ELSE d.running[c]]
           con == [d.conn EXCEPT ![s] = "closed"]
           png == [d.ping EXCEPT ![s] = {}]
           tsk == Append(d.tasks, ClosedTask(s))
           e == Closed(d, s)
<1>1. e = [d EXCEPT !.conn = con, !.ping = png, !.running = run, !.tasks = tsk]
  BY Zenon DEF Closed
<1>2. run \in Partial(Tokens) /\ DOMAIN run = DOMAIN d.running
  <2>1. \A c \in DOMAIN d.running : d.running[c] \in Tokens
    BY ThreadFields
  <2>2. run \in [DOMAIN d.running -> Tokens] /\ DOMAIN d.running \in SUBSET Checks
    BY <2>1, ThreadFields DEF Tokens
  <2>3. QED
    BY <2>2 DEF Partial
<1>3. con \in [Slots -> {"closed", "connecting", "connected"}] /\ con[s] = "closed"
  BY ThreadFields
<1>4. png \in [Slots -> SUBSET Checks] /\ \A x \in Slots : png[x] \subseteq d.ping[x]
  BY ThreadFields
<1>5. tsk \in Seq(Tasks) /\ OnceIn(tsk) /\ StartsIn(tsk) = StartsIn(d.tasks)
      /\ SendsIn(tsk) = SendsIn(d.tasks)
  <2>1. ClosedTask(s) \in Tasks /\ ClosedTask(s).task = "closed"
    BY TaskKinds
  <2>2. \A c \in Checks : ClosedTask(s) # Start(c) /\ ClosedTask(s) # Send(c)
    BY TaskKinds
  <2>3. /\ tsk \in Seq(Tasks) /\ OnceIn(tsk)
        /\ StartsIn(tsk) = StartsIn(d.tasks) \cup {c \in Checks : ClosedTask(s) = Start(c)}
        /\ SendsIn(tsk) = SendsIn(d.tasks) \cup {c \in Checks : ClosedTask(s) = Send(c)}
    BY <2>1, ThreadFields, TaskAppended
  <2>4. QED
    BY <2>2, <2>3
<1> HIDE DEF run, con, png, tsk, e
<1>6. e \in Threads
  BY <1>1, <1>2, <1>3, <1>4, <1>5, Zenon DEF Threads
<1>7. /\ e.tasks = tsk /\ e.running = run /\ e.conn = con /\ e.ping = png /\ e.active = d.active
      /\ e.waiting = d.waiting /\ e.answers = d.answers /\ e.dropped = d.dropped
  BY <1>1 DEF Threads
<1>8. QED
  BY <1>2, <1>3, <1>4, <1>5, <1>6, <1>7 DEF Quiet, e

LEMMA SuspendedQuiet ==
    ASSUME NEW d \in Threads, OnceIn(d.tasks), NEW s \in Slots
    PROVE  Quiet(d, Suspended(d, s))
<1> DEFINE e == Closed(d, s)
           f == Closed(e, s)
<1>1. Quiet(d, e)
  BY ClosedQuiet
<1> HIDE DEF e
<1>2. Quiet(e, f)
  BY <1>1, ClosedQuiet DEF Quiet
<1> HIDE DEF f
<1>3. Quiet(d, f)
  BY <1>1, <1>2, QuietTransitive
<1>4. QED
  BY <1>3 DEF Suspended, e, f

Results == [d : Threads, cost : Nat]

LEMMA ConnectQuiet ==
    ASSUME NEW d \in Threads, OnceIn(d.tasks), NEW s \in Slots, NEW r \in connect(d, s)
    PROVE  Quiet(d, r.d) /\ r \in Results
<1> DEFINE con == [d.conn EXCEPT ![s] = "connecting"]
           e == [d EXCEPT !.conn = con]
<1>1. r = Free(d) \/ r = Free(e) \/ r = [d |-> Closed(d, s), cost |-> 1]
  BY Zenon DEF connect
<1>2. con \in [Slots -> {"closed", "connecting", "connected"}]
  BY ThreadFields
<1> HIDE DEF con
<1>3. e \in Threads
  BY <1>2, Zenon DEF Threads
<1>4. /\ e.tasks = d.tasks /\ e.running = d.running /\ e.ping = d.ping /\ e.active = d.active
      /\ e.waiting = d.waiting /\ e.answers = d.answers /\ e.dropped = d.dropped
  BY DEF Threads
<1> HIDE DEF e
<1>5. Quiet(d, d) /\ Quiet(d, e) /\ Quiet(d, Closed(d, s))
  <2>1. Quiet(d, d) /\ Quiet(d, e)
    BY <1>3, <1>4 DEF Quiet
  <2>2. QED
    BY <2>1, ClosedQuiet
<1>6. PICK f : f = Closed(d, s)
  OBVIOUS
<1>7. CASE r = Free(d)
  BY <1>5, <1>7 DEF Free, Results
<1>8. CASE r = Free(e)
  BY <1>3, <1>5, <1>8 DEF Free, Results
<1>9. CASE r = [d |-> f, cost |-> 1]
  BY <1>5, <1>6, <1>9 DEF Results, Quiet
<1>10. QED
  BY <1>1, <1>6, <1>7, <1>8, <1>9

----------------------------------------------------------------------------
(* checkProxyInternal, for a check that is in no place: it waits while all
   connections are held, is given up without an auth key, or gets a
   connection of its own. *)
LEMMA WaitingAppended ==
    ASSUME NEW q \in Seq(Checks), \A i, j \in DOMAIN q : q[i] = q[j] => i = j,
           NEW c \in Checks, c \notin Range(q)
    PROVE  \A i, j \in DOMAIN Append(q, c) : Append(q, c)[i] = Append(q, c)[j] => i = j
<1> DEFINE r == Append(q, c)
<1>1. /\ Len(q) \in Nat /\ DOMAIN q = 1..Len(q) /\ DOMAIN r = 1..(Len(q) + 1)
      /\ \A n \in 1..Len(q) : r[n] = q[n]
      /\ r[Len(q) + 1] = c
  BY AppendIs
<1> HIDE DEF r
<1>2. ASSUME NEW i \in DOMAIN r, NEW j \in DOMAIN r, r[i] = r[j] PROVE i = j
  <2>1. (i \in DOMAIN q \/ i = Len(q) + 1) /\ (j \in DOMAIN q \/ j = Len(q) + 1)
    BY <1>1
  <2>2. CASE i \in DOMAIN q /\ j \in DOMAIN q
    BY <1>1, <1>2, <2>2
  <2>3. CASE i \in DOMAIN q /\ j = Len(q) + 1
    BY <1>1, <1>2, <2>3 DEF Range
  <2>4. CASE j \in DOMAIN q /\ i = Len(q) + 1
    BY <1>1, <1>2, <2>4 DEF Range
  <2>5. QED
    BY <2>1, <2>2, <2>3, <2>4
<1>3. QED
  BY <1>2 DEF r

LEMMA StartWaits ==
    ASSUME NEW d, NEW A, InOrder(d, A, {}, 1), NEW c \in Checks, c \notin A, FreeSlots(d) = {}
    PROVE  InOrder([d EXCEPT !.waiting = Append(@, c)], A \cup {c}, {}, 0)
<1> DEFINE w == Append(d.waiting, c)
           e == [d EXCEPT !.waiting = w]
<1>1. d \in Threads /\ d.waiting \in Seq(Checks) /\ d.active \in Partial(Slots)
  BY ThreadFields DEF InOrder
<1>2. /\ w \in Seq(Checks) /\ w # <<>> /\ Range(w) = Range(d.waiting) \cup {c}
  BY <1>1, AppendIs
<1>3. \A i, j \in DOMAIN w : w[i] = w[j] => i = j
  <2>1. c \notin Range(d.waiting)
    BY DEF InOrder, Placed
  <2>2. QED
    BY <1>1, <2>1, WaitingAppended DEF InOrder, Single
<1> HIDE DEF w
<1>4. e \in Threads
  BY <1>1, <1>2, Zenon DEF Threads
<1>5. /\ e.tasks = d.tasks /\ e.active = d.active /\ e.waiting = w /\ e.running = d.running
      /\ e.ping = d.ping /\ e.answers = d.answers /\ e.dropped = d.dropped
  BY <1>1 DEF Threads
<1> HIDE DEF e
<1>6. Done(e) = Done(d)
  BY <1>5 DEF Done
<1>7. Placed(e, A \cup {c})
  BY <1>2, <1>5, <1>6 DEF InOrder, Placed
<1>8. Single(e)
  BY <1>3, <1>5 DEF InOrder, Single
<1>9. Held(e, {})
  BY <1>5, <1>6 DEF InOrder, Held
<1>10. Slots \subseteq Range(d.active)
  BY DEF FreeSlots
<1>11. Keyed(e)
  <2>1. hasKey
    <3>1. DOMAIN d.active # {}
      BY <1>10, ProxyAssumption DEF Range
    <3>2. QED
      BY <3>1 DEF InOrder, Keyed
  <2>2. QED
    BY <1>5, <2>1 DEF InOrder, Keyed
<1>12. Busy(e, 0)
  <2>1. Cardinality(DOMAIN d.active) = Cardinality(Slots)
    BY <1>1, <1>10, AllHeld DEF InOrder, Held
  <2>2. StartsIn(e.tasks) \subseteq Checks
    BY DEF StartsIn
  <2>3. Cardinality(StartsIn(e.tasks)) \in Nat /\ Cardinality(Slots) \in Nat
    BY <2>2, Finite
  <2>4. Cardinality(DOMAIN e.active) + Cardinality(StartsIn(e.tasks)) + 0 >= Cardinality(Slots)
    BY <1>5, <2>1, <2>3
  <2>5. QED
    BY <2>4 DEF Busy
<1>13. QED
  BY <1>4, <1>7, <1>8, <1>9, <1>11, <1>12 DEF InOrder, e, w

LEMMA StartDropped ==
    ASSUME NEW d, NEW A, InOrder(d, A, {}, 1), NEW c \in Checks, c \notin A, ~hasKey
    PROVE  InOrder([d EXCEPT !.dropped = @ \cup {c}], A \cup {c}, {}, 0)
<1> DEFINE x == d.dropped \cup {c}
           e == [d EXCEPT !.dropped = x]
<1>1. d \in Threads /\ x \in SUBSET Checks
  BY ThreadFields DEF InOrder
<1> HIDE DEF x
<1>2. e \in Threads
  BY <1>1, Zenon DEF Threads
<1>3. /\ e.tasks = d.tasks /\ e.active = d.active /\ e.waiting = d.waiting /\ e.running = d.running
      /\ e.ping = d.ping /\ e.answers = d.answers /\ e.dropped = x
  BY <1>1 DEF Threads
<1> HIDE DEF e
<1>4. Done(e) = Done(d)
  BY <1>3 DEF Done
<1>5. Placed(e, A \cup {c})
  BY <1>3, <1>4 DEF InOrder, Placed, x
<1>6. Single(e) /\ Held(e, {})
  BY <1>3, <1>4 DEF InOrder, Single, Held
<1>7. Keyed(e) /\ e.waiting = <<>>
  BY <1>3 DEF InOrder, Keyed
<1>8. Busy(e, 0)
  BY <1>7 DEF Busy
<1>9. QED
  BY <1>2, <1>5, <1>6, <1>7, <1>8 DEF InOrder, e, x

LEMMA StartHolds ==
    ASSUME NEW d, NEW A, InOrder(d, A, {}, 1), NEW c \in Checks, c \notin A, hasKey,
           NEW s \in Slots, s \notin Range(d.active)
    PROVE  InOrder([d EXCEPT !.active = With(@, c, s), !.tasks = Append(@, Send(c))],
                   A \cup {c}, {}, 0)
<1> DEFINE a == With(d.active, c, s)
           t == Append(d.tasks, Send(c))
           e == [d EXCEPT !.active = a, !.tasks = t]
<1>1. /\ d \in Threads /\ d.active \in Partial(Slots) /\ d.tasks \in Seq(Tasks)
      /\ DOMAIN d.active \subseteq Checks
  BY ThreadFields DEF InOrder
<1>2. c \notin DOMAIN d.active /\ c \notin StartsIn(d.tasks)
  BY DEF InOrder, Placed
<1>3. /\ a \in Partial(Slots) /\ DOMAIN a = DOMAIN d.active \cup {c} /\ a[c] = s
      /\ \A x \in DOMAIN d.active : x # c => a[x] = d.active[x]
  <2>1. a \in Partial(Slots)
    BY <1>1, WithIs
  <2>2. QED
    BY <2>1 DEF With
<1>4. /\ t \in Seq(Tasks) /\ OnceIn(t) /\ StartsIn(t) = StartsIn(d.tasks)
      /\ SendsIn(t) = SendsIn(d.tasks) \cup {c}
  <2>1. c \notin SendsIn(d.tasks)
    BY <1>2 DEF InOrder, Held
  <2>2. Send(c) \notin Range(d.tasks) /\ Send(c) \in Tasks
    BY <2>1, TaskKinds DEF SendsIn
  <2>3. /\ t \in Seq(Tasks) /\ OnceIn(t)
        /\ StartsIn(t) = StartsIn(d.tasks) \cup {x \in Checks : Send(c) = Start(x)}
        /\ SendsIn(t) = SendsIn(d.tasks) \cup {x \in Checks : Send(c) = Send(x)}
    BY <1>1, <2>2, TaskAppended DEF InOrder, Single
  <2>4. \A x \in Checks : Send(c) # Start(x) /\ (Send(c) = Send(x) <=> x = c)
    BY TaskKinds
  <2>5. QED
    BY <2>3, <2>4
<1> HIDE DEF a, t
<1>5. e \in Threads
  BY <1>1, <1>3, <1>4, Zenon DEF Threads
<1>6. /\ e.tasks = t /\ e.active = a /\ e.waiting = d.waiting /\ e.running = d.running
      /\ e.ping = d.ping /\ e.answers = d.answers /\ e.dropped = d.dropped
  BY <1>1 DEF Threads
<1> HIDE DEF e
<1>7. Done(e) = Done(d)
  BY <1>6 DEF Done
<1>8. Placed(e, A \cup {c})
  BY <1>3, <1>4, <1>6, <1>7 DEF InOrder, Placed
<1>9. Single(e)
  BY <1>4, <1>6 DEF InOrder, Single
<1>10. Held(e, {})
  <2>1. ASSUME NEW x \in DOMAIN a, NEW y \in DOMAIN a, a[x] = a[y] PROVE x = y
    <3>1. \A z \in DOMAIN d.active : d.active[z] # s
      BY DEF Range
    <3>2. QED
      BY <1>2, <1>3, <2>1, <3>1 DEF InOrder, Held
  <2>2. c \notin DOMAIN d.running /\ c \notin SendsIn(d.tasks)
    BY <1>2 DEF InOrder, Held
  <2>3. \A z \in Slots : e.ping[z] \subseteq DOMAIN e.running \cup Done(e)
    BY <1>6, <1>7 DEF InOrder, Held
  <2>4. /\ DOMAIN e.active = DOMAIN e.running \cup SendsIn(e.tasks) \cup {}
        /\ DOMAIN e.running \cap SendsIn(e.tasks) = {}
    BY <1>3, <1>4, <1>6, <2>2 DEF InOrder, Held
  <2>5. QED
    BY <1>6, <2>1, <2>3, <2>4 DEF Held
<1>11. Keyed(e)
  BY <1>6 DEF InOrder, Keyed
<1>12. Busy(e, 0)
  <2>1. StartsIn(d.tasks) \subseteq Checks
    BY DEF StartsIn
  <2>2. /\ IsFiniteSet(DOMAIN d.active) /\ Cardinality(DOMAIN d.active) \in Nat
        /\ Cardinality(StartsIn(d.tasks)) \in Nat /\ Cardinality(Slots) \in Nat
    BY <1>1, <2>1, Finite
  <2>3. Cardinality(DOMAIN a) = Cardinality(DOMAIN d.active) + 1
    <3>1. Cardinality(DOMAIN d.active \cup {c}) = Cardinality(DOMAIN d.active) + 1
      BY <1>2, <2>2, FS_AddElement
    <3>2. QED
      BY <1>3, <3>1
  <2>4. d.waiting # <<>> =>
          Cardinality(DOMAIN d.active) + Cardinality(StartsIn(d.tasks)) + 1 >= Cardinality(Slots)
    BY DEF InOrder, Busy
  <2>5. d.waiting # <<>> =>
          Cardinality(DOMAIN a) + Cardinality(StartsIn(d.tasks)) + 0 >= Cardinality(Slots)
    BY <2>2, <2>3, <2>4
  <2>6. QED
    BY <1>4, <1>6, <2>5 DEF Busy
<1>13. QED
  BY <1>5, <1>8, <1>9, <1>10, <1>11, <1>12 DEF InOrder, e, a, t

LEMMA StartKeeps ==
    ASSUME NEW d, NEW A, InOrder(d, A, {}, 1), NEW c \in Checks, c \notin A,
           NEW r \in StartCheck(d, c)
    PROVE  InOrder(r.d, A \cup {c}, {}, 0) /\ r \in Results
<1>1. d \in Threads /\ OnceIn(d.tasks)
  BY DEF InOrder, Single
<1>2. ASSUME NEW e, InOrder(e, A \cup {c}, {}, 0), NEW k \in Nat, r = [d |-> e, cost |-> k]
      PROVE  InOrder(r.d, A \cup {c}, {}, 0) /\ r \in Results
  <2>1. r.d = e /\ e \in Threads
    BY <1>2 DEF InOrder
  <2>2. QED
    BY <1>2, <2>1 DEF Results
<1>3. CASE FreeSlots(d) = {}
  <2> DEFINE e == [d EXCEPT !.waiting = Append(@, c)]
  <2>1. r = [d |-> e, cost |-> 0]
    BY <1>3, Zenon DEF StartCheck, Free
  <2>2. InOrder(e, A \cup {c}, {}, 0)
    BY <1>3, StartWaits
  <2> HIDE DEF e
  <2>3. QED
    BY <1>2, <2>1, <2>2
<1>4. CASE FreeSlots(d) # {} /\ ~hasKey
  <2> DEFINE e == [d EXCEPT !.dropped = @ \cup {c}]
  <2>1. r = [d |-> e, cost |-> 0]
    BY <1>4, Zenon DEF StartCheck, Free
  <2>2. InOrder(e, A \cup {c}, {}, 0)
    BY <1>4, StartDropped
  <2> HIDE DEF e
  <2>3. QED
    BY <1>2, <2>1, <2>2
<1>5. CASE FreeSlots(d) # {} /\ hasKey
  <2> DEFINE s == CHOOSE x \in FreeSlots(d) : \A y \in FreeSlots(d) : x <= y
             Taken(f) == [f EXCEPT !.active = With(@, c, s), !.tasks = Append(@, Send(c))]
  <2>1. s \in Slots /\ s \notin Range(d.active)
    <3>1. \E x \in FreeSlots(d) : \A y \in FreeSlots(d) : x <= y
      BY <1>5, LeastSlot DEF FreeSlots
    <3>2. s \in FreeSlots(d)
      BY <3>1
    <3>3. QED
      BY <3>2 DEF FreeSlots
  <2>2. PICK q \in connect(d, s) :
          r = [[d |-> Taken(Suspended(q.d, s)), cost |-> 0] EXCEPT !.cost = @ + q.cost]
    <3>1. r \in Then(connect(d, s), LAMBDA e : {Free(Taken(f)) : f \in {Suspended(e, s)}})
      BY <1>5, Zenon DEF StartCheck
    <3> HIDE DEF Taken, s
    <3>2. PICK q \in connect(d, s) :
            r \in {[x EXCEPT !.cost = @ + q.cost] : x \in {Free(Taken(f)) : f \in {Suspended(q.d, s)}}}
      BY <3>1, Zenon DEF Then
    <3>3. QED
      BY <3>2, Zenon DEF Free
  <2> HIDE DEF s
  <2>3. Quiet(d, q.d) /\ q \in Results
    BY <1>1, <2>1, ConnectQuiet
  <2>4. PICK f : f = Suspended(q.d, s)
    OBVIOUS
  <2>5. Quiet(q.d, f)
    BY <2>1, <2>3, <2>4, SuspendedQuiet DEF Quiet
  <2>6. Quiet(d, f)
    BY <2>3, <2>5, QuietTransitive
  <2>7. InOrder(f, A, {}, 1) /\ s \notin Range(f.active)
    BY <2>1, <2>6, QuietKeeps DEF Quiet
  <2>8. InOrder(Taken(f), A \cup {c}, {}, 0)
    BY <1>5, <2>1, <2>7, StartHolds
  <2>9. r = [d |-> Taken(f), cost |-> q.cost] /\ q.cost \in Nat
    <3> HIDE DEF Taken
    <3>1. q.cost \in Nat
      BY <2>3 DEF Results
    <3>2. r = [[d |-> Taken(f), cost |-> 0] EXCEPT !.cost = 0 + q.cost]
      BY <2>2, <2>4
    <3>3. QED
      BY <3>1, <3>2
  <2> HIDE DEF Taken
  <2>10. QED
    BY <1>2, <2>8, <2>9
<1>6. QED
  BY <1>3, <1>4, <1>5

----------------------------------------------------------------------------
(* The request of a check is put among the running ones, and its ping into
   the stream. *)
LEMMA RunningKeeps ==
    ASSUME NEW d, NEW A, NEW c \in Checks, InOrder(d, A, {c}, 0), NEW v \in Tokens
    PROVE  InOrder([d EXCEPT !.running = With(@, c, v)], A, {}, 0)
<1> DEFINE run == With(d.running, c, v)
           e == [d EXCEPT !.running = run]
<1>1. d \in Threads /\ d.running \in Partial(Tokens)
  BY ThreadFields DEF InOrder
<1>2. run \in Partial(Tokens) /\ DOMAIN run = DOMAIN d.running \cup {c}
  <2>1. run \in Partial(Tokens)
    BY <1>1, WithIs
  <2>2. QED
    BY <2>1 DEF With
<1> HIDE DEF run
<1>3. e \in Threads
  BY <1>1, <1>2, Zenon DEF Threads
<1>4. /\ e.tasks = d.tasks /\ e.active = d.active /\ e.waiting = d.waiting /\ e.running = run
      /\ e.ping = d.ping /\ e.answers = d.answers /\ e.dropped = d.dropped
  BY <1>1 DEF Threads
<1> HIDE DEF e
<1>5. Done(e) = Done(d)
  BY <1>4 DEF Done
<1>6. Placed(e, A) /\ Single(e) /\ Keyed(e) /\ Busy(e, 0)
  BY <1>4, <1>5 DEF InOrder, Placed, Single, Keyed, Busy
<1>7. Held(e, {})
  <2>1. /\ DOMAIN e.active = DOMAIN e.running \cup SendsIn(e.tasks) \cup {}
        /\ DOMAIN e.running \cap SendsIn(e.tasks) = {}
    BY <1>2, <1>4 DEF InOrder, Held
  <2>2. \A s \in Slots : e.ping[s] \subseteq DOMAIN e.running \cup Done(e)
    BY <1>2, <1>4, <1>5 DEF InOrder, Held
  <2>3. QED
    BY <1>4, <2>1, <2>2 DEF InOrder, Held
<1>8. QED
  BY <1>3, <1>6, <1>7 DEF InOrder, e, run

LEMMA WrittenKeeps ==
    ASSUME NEW d, NEW A, InOrder(d, A, {}, 0), NEW c \in DOMAIN d.running, NEW s \in Slots
    PROVE  InOrder(Written(d, s, c), A, {}, 0)
<1> DEFINE png == [d.ping EXCEPT ![s] = d.ping[s] \cup {c}]
           e == [d EXCEPT !.ping = png]
<1>1. d \in Threads /\ d.ping \in [Slots -> SUBSET Checks] /\ c \in Checks
  BY ThreadFields DEF InOrder
<1>2. png \in [Slots -> SUBSET Checks] /\ \A x \in Slots : png[x] \subseteq d.ping[x] \cup {c}
  BY <1>1
<1>3. Written(d, s, c) = d \/ Written(d, s, c) = e
  BY Zenon DEF Written
<1> HIDE DEF png
<1>4. e \in Threads
  BY <1>1, <1>2, Zenon DEF Threads
<1>5. /\ e.tasks = d.tasks /\ e.active = d.active /\ e.waiting = d.waiting /\ e.running = d.running
      /\ e.ping = png /\ e.answers = d.answers /\ e.dropped = d.dropped
  BY <1>1 DEF Threads
<1> HIDE DEF e
<1>6. Done(e) = Done(d)
  BY <1>5 DEF Done
<1>7. Placed(e, A) /\ Single(e) /\ Keyed(e) /\ Busy(e, 0)
  BY <1>5, <1>6 DEF InOrder, Placed, Single, Keyed, Busy
<1>8. Held(e, {})
  <2>1. \A x \in Slots : e.ping[x] \subseteq DOMAIN e.running \cup Done(e)
    BY <1>2, <1>5, <1>6 DEF InOrder, Held
  <2>2. QED
    BY <1>5, <2>1 DEF InOrder, Held
<1>9. QED
  BY <1>3, <1>4, <1>7, <1>8 DEF InOrder

LEMMA Dearer ==
    ASSUME NEW x \in Results, NEW n \in Nat
    PROVE  LET r == [x EXCEPT !.cost = @ + n] IN r \in Results /\ r.d = x.d /\ r.cost \in Nat
  BY DEF Results

LEMMA SendKeeps ==
    ASSUME NEW d, NEW A, NEW c \in Checks, InOrder(d, A, {c}, 0), NEW r \in SendRequest(d, c)
    PROVE  InOrder(r.d, A, {}, 0) /\ r \in Results
<1> DEFINE s == d.active[c]
           Token(e) == IF e.conn[s] = "connected" THEN "current" ELSE "none"
           Ran(e) == [e EXCEPT !.running = With(@, c, Token(e))]
           Running(e) == {Free(Ran(e))}
           Write(e) == {Free(Written(e, s, c))}
           first == connect(d, s)
           second == Then(first, Running)
           third == Then(second, LAMBDA e : connect(e, s))
<1>1. d \in Threads /\ OnceIn(d.tasks) /\ c \in DOMAIN d.active
  BY DEF InOrder, Single, Held
<1>2. s \in Slots
  BY <1>1, ThreadFields
<1>3. r \in Then(third, Write)
  BY Zenon DEF SendRequest
<1> HIDE DEF s, Ran
<1>4. ASSUME NEW q \in second
      PROVE  InOrder(q.d, A, {}, 0) /\ q \in Results /\ c \in DOMAIN q.d.running
  <2>1. PICK o \in connect(d, s) : q \in {[x EXCEPT !.cost = @ + o.cost] : x \in {Free(Ran(o.d))}}
    BY <1>4, Zenon DEF Then
  <2>2. Quiet(d, o.d) /\ o \in Results
    BY <1>1, <1>2, ConnectQuiet
  <2>3. InOrder(o.d, A, {c}, 0)
    BY <2>2, QuietKeeps
  <2>4. PICK e : e = Ran(o.d)
    OBVIOUS
  <2>5. Token(o.d) \in Tokens
    BY DEF Tokens
  <2>6. InOrder(e, A, {}, 0)
    <3> HIDE DEF Token
    <3>1. QED
      BY <2>3, <2>4, <2>5, RunningKeeps DEF Ran
  <2>7. c \in DOMAIN e.running
    <3> HIDE DEF Token
    <3>1. o.d \in Threads
      BY <2>2 DEF Quiet
    <3>2. e.running = With(o.d.running, c, Token(o.d))
      BY <2>4, <3>1 DEF Ran, Threads
    <3>3. QED
      BY <3>2 DEF With
  <2>8. q = [Free(e) EXCEPT !.cost = @ + o.cost]
    BY <2>1, <2>4, Zenon
  <2>9. Free(e) \in Results /\ Free(e).d = e /\ o.cost \in Nat
    BY <2>2, <2>6 DEF Free, Results, InOrder
  <2>10. PICK x : x = Free(e)
    OBVIOUS
  <2>11. q \in Results /\ q.d = x.d
    BY <2>8, <2>9, <2>10, Dearer
  <2>12. QED
    BY <2>6, <2>7, <2>9, <2>10, <2>11
<1>5. ASSUME NEW q \in third
      PROVE  InOrder(q.d, A, {}, 0) /\ q \in Results /\ c \in DOMAIN q.d.running
  <2>1. PICK o \in second : q \in {[x EXCEPT !.cost = @ + o.cost] : x \in connect(o.d, s)}
    <3> HIDE DEF second
    <3>1. QED
      BY <1>5, Zenon DEF Then
  <2>2. InOrder(o.d, A, {}, 0) /\ o \in Results /\ c \in DOMAIN o.d.running
    BY <1>4, <2>1
  <2>3. PICK x \in connect(o.d, s) : q = [x EXCEPT !.cost = @ + o.cost]
    BY <2>1
  <2>4. o.d \in Threads /\ OnceIn(o.d.tasks) /\ o.cost \in Nat
    BY <2>2 DEF InOrder, Single, Results
  <2>5. Quiet(o.d, x.d) /\ x \in Results
    BY <1>2, <2>3, <2>4, ConnectQuiet
  <2>6. InOrder(x.d, A, {}, 0) /\ c \in DOMAIN x.d.running
    BY <2>2, <2>5, QuietKeeps DEF Quiet
  <2>7. q \in Results /\ q.d = x.d
    BY <2>3, <2>4, <2>5, Dearer
  <2>8. QED
    BY <2>6, <2>7
<1> HIDE DEF third
<1>6. PICK o \in third : r \in {[x EXCEPT !.cost = @ + o.cost] : x \in {Free(Written(o.d, s, c))}}
  BY <1>3, Zenon DEF Then
<1>7. InOrder(o.d, A, {}, 0) /\ o \in Results /\ c \in DOMAIN o.d.running
  BY <1>5, <1>6
<1>8. PICK e : e = Written(o.d, s, c)
  OBVIOUS
<1>9. InOrder(e, A, {}, 0)
  BY <1>2, <1>7, <1>8, WrittenKeeps
<1>10. PICK x : x = Free(e)
  OBVIOUS
<1>11. r = [x EXCEPT !.cost = @ + o.cost]
  BY <1>6, <1>8, <1>10, Zenon
<1>12. x \in Results /\ x.d = e /\ o.cost \in Nat
  BY <1>7, <1>9, <1>10 DEF Free, Results, InOrder
<1>13. r \in Results /\ r.d = x.d
  BY <1>11, <1>12, Dearer
<1>14. QED
  BY <1>9, <1>12, <1>13

----------------------------------------------------------------------------
(* The end of a check: the next one that waits is started. *)
LEMMA NextStarted ==
    ASSUME NEW d, NEW A, InOrder(d, A, {}, 1)
    PROVE  InOrder(IF d.waiting = <<>> THEN d
                   ELSE [d EXCEPT !.tasks = Append(@, Start(Head(d.waiting))), !.waiting = Tail(@)],
                   A, {}, 0)
<1>1. d \in Threads /\ d.waiting \in Seq(Checks) /\ d.tasks \in Seq(Tasks) /\ OnceIn(d.tasks)
  BY ThreadFields DEF InOrder, Single
<1>2. CASE d.waiting = <<>>
  <2>1. Busy(d, 0)
    BY <1>2 DEF Busy
  <2>2. InOrder(d, A, {}, 0)
    BY <2>1 DEF InOrder
  <2>3. QED
    BY <1>2, <2>2
<1>3. CASE d.waiting # <<>>
  <2> DEFINE h == Head(d.waiting)
             w == Tail(d.waiting)
             t == Append(d.tasks, Start(h))
             e == [d EXCEPT !.tasks = t, !.waiting = w]
  <2>1. /\ w \in Seq(Checks) /\ h \in Checks /\ h = d.waiting[1] /\ 1 \in DOMAIN d.waiting
        /\ \A n \in DOMAIN w : n \in Nat /\ n + 1 \in DOMAIN d.waiting /\ n + 1 # 1 /\ w[n] = d.waiting[n + 1]
        /\ Range(d.waiting) = Range(w) \cup {h}
    BY <1>1, <1>3, TailIs
  <2> HIDE DEF h, w
  <2>2. h \notin Range(w)
    <3>1. ASSUME NEW n \in DOMAIN w, w[n] = h PROVE FALSE
      <4>1. n + 1 = 1
        BY <2>1, <3>1 DEF InOrder, Single
      <4>2. QED
        BY <2>1, <4>1
    <3>2. QED
      BY <3>1 DEF Range
  <2>3. \A i, j \in DOMAIN w : w[i] = w[j] => i = j
    <3>1. ASSUME NEW i \in DOMAIN w, NEW j \in DOMAIN w, w[i] = w[j] PROVE i = j
      <4>1. i + 1 = j + 1
        BY <2>1, <3>1 DEF InOrder, Single
      <4>2. QED
        BY <2>1, <4>1
    <3>2. QED
      BY <3>1
  <2>4. h \notin StartsIn(d.tasks) /\ StartsIn(d.tasks) \subseteq Checks
    BY <2>1 DEF InOrder, Placed, StartsIn
  <2>5. /\ t \in Seq(Tasks) /\ OnceIn(t) /\ StartsIn(t) = StartsIn(d.tasks) \cup {h}
        /\ SendsIn(t) = SendsIn(d.tasks)
    <3>1. Start(h) \notin Range(d.tasks) /\ Start(h) \in Tasks
      BY <2>1, <2>4, TaskKinds DEF StartsIn
    <3>2. /\ t \in Seq(Tasks) /\ OnceIn(t)
          /\ StartsIn(t) = StartsIn(d.tasks) \cup {x \in Checks : Start(h) = Start(x)}
          /\ SendsIn(t) = SendsIn(d.tasks) \cup {x \in Checks : Start(h) = Send(x)}
      BY <1>1, <3>1, TaskAppended
    <3>3. \A x \in Checks : Start(h) # Send(x) /\ (Start(h) = Start(x) <=> x = h)
      BY <2>1, TaskKinds
    <3>4. QED
      BY <2>1, <3>2, <3>3
  <2> HIDE DEF t
  <2>6. e \in Threads
    BY <1>1, <2>1, <2>5, Zenon DEF Threads
  <2>7. /\ e.tasks = t /\ e.active = d.active /\ e.waiting = w /\ e.running = d.running
        /\ e.ping = d.ping /\ e.answers = d.answers /\ e.dropped = d.dropped
    BY <1>1 DEF Threads
  <2> HIDE DEF e
  <2>8. Done(e) = Done(d)
    BY <2>7 DEF Done
  <2>9. Placed(e, A)
    BY <2>1, <2>2, <2>5, <2>7, <2>8 DEF InOrder, Placed
  <2>10. Single(e)
    BY <2>3, <2>5, <2>7 DEF InOrder, Single
  <2>11. Held(e, {})
    BY <2>5, <2>7, <2>8 DEF InOrder, Held
  <2>12. Keyed(e)
    <3>1. hasKey
      BY <1>3 DEF InOrder, Keyed
    <3>2. QED
      BY <2>7, <3>1 DEF InOrder, Keyed
  <2>13. Busy(e, 0)
    <3>1. DOMAIN d.active \subseteq Checks
      BY <1>1, ThreadFields
    <3>2. /\ IsFiniteSet(StartsIn(d.tasks)) /\ Cardinality(DOMAIN d.active) \in Nat
          /\ Cardinality(StartsIn(d.tasks)) \in Nat /\ Cardinality(Slots) \in Nat
      BY <2>4, <3>1, Finite
    <3>3. Cardinality(StartsIn(d.tasks) \cup {h}) = Cardinality(StartsIn(d.tasks)) + 1
      BY <2>4, <3>2, FS_AddElement
    <3>4. Cardinality(StartsIn(t)) = Cardinality(StartsIn(d.tasks)) + 1
      BY <2>5, <3>3
    <3>5. Cardinality(DOMAIN d.active) + Cardinality(StartsIn(d.tasks)) + 1 >= Cardinality(Slots)
      BY <1>3 DEF InOrder, Busy
    <3>6. Cardinality(DOMAIN d.active) + Cardinality(StartsIn(t)) + 0 >= Cardinality(Slots)
      BY <3>2, <3>4, <3>5
    <3>7. QED
      BY <2>7, <3>6 DEF Busy
  <2>14. InOrder(e, A, {}, 0)
    BY <2>6, <2>9, <2>10, <2>11, <2>12, <2>13 DEF InOrder
  <2>15. QED
    BY <1>3, <2>14 DEF e, t, h, w
<1>4. QED
  BY <1>2, <1>3

(* The answer and the end of a check whose request is running. *)
LEMMA AnsweredEnds ==
    ASSUME NEW d, NEW A, InOrder(d, A, {}, 0), NEW c \in DOMAIN d.running
    PROVE  InOrder(Ended(Answered(d, c), c), A, {}, 0)
<1> DEFINE run == Without(d.running, c)
           act == Without(d.active, c)
           ans == [d.answers EXCEPT ![c] = d.answers[c] + 1]
           a == [d EXCEPT !.running = run, !.answers = ans]
           e == [a EXCEPT !.active = act]
<1>1. /\ d \in Threads /\ d.running \in Partial(Tokens) /\ d.active \in Partial(Slots)
      /\ d.answers \in [Checks -> Nat] /\ c \in Checks /\ DOMAIN d.active \subseteq Checks
  BY ThreadFields DEF InOrder
<1>2. c \in DOMAIN d.active /\ c \notin SendsIn(d.tasks)
  BY DEF InOrder, Held
<1>3. d.answers[c] = 0
  <2>1. c \notin Done(d)
    BY <1>2 DEF InOrder, Placed
  <2>2. QED
    BY <1>1, <2>1 DEF Done
<1>4. run \in Partial(Tokens) /\ DOMAIN run = DOMAIN d.running \ {c}
  <2>1. run \in Partial(Tokens)
    BY <1>1, WithoutIs
  <2>2. QED
    BY <2>1 DEF Without, Restrict
<1>5. act \in Partial(Slots) /\ DOMAIN act = DOMAIN d.active \ {c}
      /\ \A x \in DOMAIN d.active \ {c} : act[x] = d.active[x]
  <2>1. act \in Partial(Slots)
    BY <1>1, WithoutIs
  <2>2. QED
    BY <2>1 DEF Without, Restrict
<1>6. /\ ans \in [Checks -> Nat] /\ ans[c] = 1 /\ \A x \in Checks : x # c => ans[x] = d.answers[x]
  BY <1>1, <1>3
<1>7. Answered(d, c) = a
  BY Zenon DEF Answered
<1> HIDE DEF run, act, ans
<1>8. a \in Threads
  BY <1>1, <1>4, <1>6, Zenon DEF Threads
<1>9. a.active = d.active /\ a.running = run /\ a.answers = ans /\ a.tasks = d.tasks
      /\ a.waiting = d.waiting /\ a.ping = d.ping /\ a.dropped = d.dropped
  BY <1>1 DEF Threads
<1> HIDE DEF a
<1>10. e \in Threads
  BY <1>5, <1>8, Zenon DEF Threads
<1>11. e.active = act /\ e.running = run /\ e.answers = ans /\ e.tasks = d.tasks
      /\ e.waiting = d.waiting /\ e.ping = d.ping /\ e.dropped = d.dropped
  BY <1>8, <1>9 DEF Threads
<1>12. e = [a EXCEPT !.active = Without(@, c)]
  BY <1>9, Zenon DEF act
<1> HIDE DEF e
<1>13. Done(e) = Done(d) \cup {c}
  BY <1>1, <1>6, <1>11 DEF Done
<1>14. Placed(e, A)
  BY <1>2, <1>5, <1>11, <1>13 DEF InOrder, Placed
<1>15. Single(e)
  <2>1. \A x \in Checks : ans[x] <= 1
    BY <1>6 DEF InOrder, Single
  <2>2. QED
    BY <1>11, <2>1 DEF InOrder, Single
<1>16. Held(e, {})
  <2>1. \A x, y \in DOMAIN act : act[x] = act[y] => x = y
    BY <1>5 DEF InOrder, Held
  <2>2. /\ DOMAIN e.active = DOMAIN e.running \cup SendsIn(e.tasks) \cup {}
        /\ DOMAIN e.running \cap SendsIn(e.tasks) = {}
    BY <1>2, <1>4, <1>5, <1>11 DEF InOrder, Held
  <2>3. \A s \in Slots : e.ping[s] \subseteq DOMAIN e.running \cup Done(e)
    BY <1>4, <1>11, <1>13 DEF InOrder, Held
  <2>4. QED
    BY <1>11, <2>1, <2>2, <2>3 DEF Held
<1>17. Keyed(e)
  <2>1. hasKey
    BY <1>2 DEF InOrder, Keyed
  <2>2. QED
    BY <1>11, <2>1 DEF InOrder, Keyed
<1>18. Busy(e, 1)
  <2>1. StartsIn(d.tasks) \subseteq Checks
    BY DEF StartsIn
  <2>2. /\ IsFiniteSet(DOMAIN d.active) /\ Cardinality(DOMAIN d.active) \in Nat
        /\ Cardinality(StartsIn(d.tasks)) \in Nat /\ Cardinality(Slots) \in Nat
    BY <1>1, <2>1, Finite
  <2>3. Cardinality(DOMAIN d.active \ {c}) = Cardinality(DOMAIN d.active) - 1
    BY <1>2, <2>2, FS_RemoveElement
  <2>4. Cardinality(DOMAIN act) = Cardinality(DOMAIN d.active) - 1
    BY <1>5, <2>3
  <2>5. d.waiting # <<>> =>
          Cardinality(DOMAIN d.active) + Cardinality(StartsIn(d.tasks)) + 0 >= Cardinality(Slots)
    BY DEF InOrder, Busy
  <2>6. d.waiting # <<>> =>
          Cardinality(DOMAIN act) + Cardinality(StartsIn(d.tasks)) + 1 >= Cardinality(Slots)
    BY <2>2, <2>4, <2>5
  <2>7. QED
    BY <1>11, <2>6 DEF Busy
<1>19. InOrder(e, A, {}, 1)
  BY <1>10, <1>14, <1>15, <1>16, <1>17, <1>18 DEF InOrder
<1>20. Ended(a, c) = IF e.waiting = <<>> THEN e
                     ELSE [e EXCEPT !.tasks = Append(@, Start(Head(e.waiting))), !.waiting = Tail(@)]
  <2> DEFINE f == [a EXCEPT !.active = Without(@, c)]
  <2>1. Ended(a, c) = IF f.waiting = <<>> THEN f
                      ELSE [f EXCEPT !.tasks = Append(@, Start(Head(f.waiting))), !.waiting = Tail(@)]
    BY Zenon DEF Ended
  <2>2. f = e
    BY <1>12, Zenon
  <2> HIDE DEF f
  <2>3. QED
    BY <2>1, <2>2, Zenon
<1>21. QED
  BY <1>7, <1>19, <1>20, NextStarted

LEMMA OnClosedKeeps ==
    ASSUME NEW d, NEW A, InOrder(d, A, {}, 0), NEW s
    PROVE  InOrder(OnClosed(d, s), A, {}, 0)
<1> DEFINE token == IF d.conn[s] = "connected" THEN "current" ELSE "none"
           found == {c \in DOMAIN d.running : d.active[c] = s /\ d.running[c] = token}
           x == CHOOSE c \in found : TRUE
<1>1. OnClosed(d, s) = IF found = {} THEN d ELSE Ended(Answered(d, x), x)
  BY Zenon DEF OnClosed
<1>2. found # {} => x \in DOMAIN d.running
  OBVIOUS
<1> HIDE DEF found, x
<1>3. QED
  BY <1>1, <1>2, AnsweredEnds

(* A pong comes for a request that is running, or after its answer. *)
LEMMA OnPongKeeps ==
    ASSUME NEW d, NEW A, InOrder(d, A, {}, 0), NEW s \in Slots, NEW c \in d.ping[s]
    PROVE  InOrder(OnPong(d, c), A, {}, 0)
<1>1. c \in DOMAIN d.running \/ c \in Done(d)
  BY DEF InOrder, Held
<1>2. CASE c \in DOMAIN d.running
  <2>1. c \in DOMAIN d.active
    BY <1>2 DEF InOrder, Held
  <2>2. OnPong(d, c) = Ended(Answered(d, c), c)
    BY <1>2, <2>1, Zenon DEF OnPong
  <2>3. QED
    BY <1>2, <2>2, AnsweredEnds
<1>3. CASE c \in Done(d)
  <2>1. c \notin DOMAIN d.active
    BY <1>3 DEF InOrder, Placed
  <2>2. OnPong(d, c) = d
    BY <2>1, Zenon DEF OnPong
  <2>3. QED
    BY <2>2
<1>4. QED
  BY <1>1, <1>2, <1>3

----------------------------------------------------------------------------
(* The actions. *)
LEMMA InitInOrder ==
    Init => IInv
<1> SUFFICES ASSUME Init PROVE IInv
  OBVIOUS
<1> DEFINE con == [s \in Slots |-> "closed"]
           png == [s \in Slots |-> {}]
           ans == [c \in Checks |-> 0]
           q == [tasks |-> <<>>, active |-> <<>>, waiting |-> <<>>, running |-> <<>>,
                 conn |-> con, ping |-> png, answers |-> ans, dropped |-> {}, lost |-> {}]
<1>1. p = q /\ hasKey \in BOOLEAN /\ asked = {} /\ breaks = 0
  BY Zenon DEF Init
<1>2. /\ con \in [Slots -> {"closed", "connecting", "connected"}]
      /\ png \in [Slots -> SUBSET Checks] /\ ans \in [Checks -> Nat]
      /\ \A s \in Slots : png[s] = {}
      /\ \A c \in Checks : ans[c] = 0
  OBVIOUS
<1>3. \A S : <<>> \in Partial(S)
  <2>1. \A S : <<>> \in [{} -> S]
    OBVIOUS
  <2>2. {} \in SUBSET Checks
    OBVIOUS
  <2>3. QED
    BY <2>1, <2>2, Zenon DEF Partial
<1>4. <<>> \in Seq(Tasks) /\ <<>> \in Seq(Checks) /\ {} \in SUBSET Checks
      /\ DOMAIN <<>> = {} /\ Range(<<>>) = {}
  BY DEF Range
<1> HIDE DEF con, png, ans
<1>5. q \in Threads
  BY <1>2, <1>3, <1>4, Zenon DEF Threads
<1>6. /\ q.tasks = <<>> /\ q.active = <<>> /\ q.waiting = <<>> /\ q.running = <<>>
      /\ q.ping = png /\ q.answers = ans /\ q.dropped = {}
  OBVIOUS
<1> HIDE DEF q
<1>7. StartsIn(q.tasks) = {} /\ SendsIn(q.tasks) = {} /\ Done(q) = {}
  BY <1>2, <1>4, <1>6 DEF StartsIn, SendsIn, Done
<1>8. Placed(q, {})
  BY <1>4, <1>6, <1>7 DEF Placed
<1>9. Single(q)
  BY <1>2, <1>4, <1>6 DEF Single, OnceIn
<1>10. Held(q, {})
  BY <1>2, <1>4, <1>6, <1>7 DEF Held
<1>11. Keyed(q) /\ Busy(q, 0)
  BY <1>4, <1>6 DEF Keyed, Busy
<1>12. InOrder(p, asked, {}, 0)
  BY <1>1, <1>5, <1>8, <1>9, <1>10, <1>11 DEF InOrder
<1>13. QED
  BY <1>1, <1>12, ProxyAssumption DEF IInv

LEMMA NextInOrder ==
    ASSUME IInv, NEW e, p' = e, hasKey' = hasKey, InOrder(e, asked', {}, 0),
           asked' \subseteq Checks, breaks' \in 0..MaxBreaks
    PROVE  IInv'
<1>1. Keyed(p)'
  BY DEF InOrder, Keyed
<1>2. p' \in Threads /\ Placed(p', asked') /\ Single(p') /\ Held(p', {}) /\ Busy(p', 0)
  BY DEF InOrder
<1>3. hasKey' \in BOOLEAN
  BY Zenon DEF IInv
<1>4. QED
  BY <1>1, <1>2, <1>3 DEF IInv, InOrder

(* checkProxy. *)
LEMMA CheckProxyKeeps ==
    ASSUME IInv, NEW c \in Checks, CheckProxy(c)
    PROVE  IInv'
<1> DEFINE t == Append(p.tasks, Start(c))
           e == [p EXCEPT !.tasks = t]
<1>1. /\ c \notin asked /\ asked' = asked \cup {c} /\ p' = e /\ hasKey' = hasKey /\ breaks' = breaks
  BY Zenon DEF CheckProxy
<1>2. InOrder(p, asked, {}, 0) /\ p \in Threads /\ p.tasks \in Seq(Tasks) /\ OnceIn(p.tasks)
      /\ DOMAIN p.active \subseteq Checks
  BY ThreadFields DEF IInv, InOrder, Single
<1>3. c \notin StartsIn(p.tasks) /\ StartsIn(p.tasks) \subseteq Checks
  BY <1>1, <1>2 DEF InOrder, Placed, StartsIn
<1>4. /\ t \in Seq(Tasks) /\ OnceIn(t) /\ StartsIn(t) = StartsIn(p.tasks) \cup {c}
      /\ SendsIn(t) = SendsIn(p.tasks)
  <2>1. Start(c) \notin Range(p.tasks) /\ Start(c) \in Tasks
    BY <1>3, TaskKinds DEF StartsIn
  <2>2. /\ t \in Seq(Tasks) /\ OnceIn(t)
        /\ StartsIn(t) = StartsIn(p.tasks) \cup {x \in Checks : Start(c) = Start(x)}
        /\ SendsIn(t) = SendsIn(p.tasks) \cup {x \in Checks : Start(c) = Send(x)}
    BY <1>2, <2>1, TaskAppended
  <2>3. \A x \in Checks : Start(c) # Send(x) /\ (Start(c) = Start(x) <=> x = c)
    BY TaskKinds
  <2>4. QED
    BY <2>2, <2>3
<1> HIDE DEF t
<1>5. e \in Threads
  BY <1>2, <1>4, Zenon DEF Threads
<1>6. /\ e.tasks = t /\ e.active = p.active /\ e.waiting = p.waiting /\ e.running = p.running
      /\ e.ping = p.ping /\ e.answers = p.answers /\ e.dropped = p.dropped
  BY <1>2 DEF Threads
<1> HIDE DEF e
<1>7. Done(e) = Done(p)
  BY <1>6 DEF Done
<1>8. Placed(e, asked \cup {c})
  BY <1>1, <1>2, <1>4, <1>6, <1>7 DEF InOrder, Placed
<1>9. Single(e) /\ Held(e, {})
  BY <1>2, <1>4, <1>6, <1>7 DEF InOrder, Single, Held
<1>10. Keyed(e)
  BY <1>2, <1>6 DEF InOrder, Keyed
<1>11. Busy(e, 0)
  <2>1. /\ IsFiniteSet(StartsIn(p.tasks)) /\ Cardinality(DOMAIN p.active) \in Nat
        /\ Cardinality(StartsIn(p.tasks)) \in Nat /\ Cardinality(Slots) \in Nat
    BY <1>2, <1>3, Finite
  <2>2. Cardinality(StartsIn(p.tasks) \cup {c}) = Cardinality(StartsIn(p.tasks)) + 1
    BY <1>3, <2>1, FS_AddElement
  <2>3. Cardinality(StartsIn(t)) = Cardinality(StartsIn(p.tasks)) + 1
    BY <1>4, <2>2
  <2>4. p.waiting # <<>> =>
          Cardinality(DOMAIN p.active) + Cardinality(StartsIn(p.tasks)) + 0 >= Cardinality(Slots)
    BY <1>2 DEF InOrder, Busy
  <2>5. p.waiting # <<>> =>
          Cardinality(DOMAIN p.active) + Cardinality(StartsIn(t)) + 0 >= Cardinality(Slots)
    BY <2>1, <2>3, <2>4
  <2>6. QED
    BY <1>6, <2>5 DEF Busy
<1>12. InOrder(e, asked \cup {c}, {}, 0)
  BY <1>5, <1>8, <1>9, <1>10, <1>11 DEF InOrder
<1>13. PICK f : f = e
  OBVIOUS
<1>14. p' = f /\ InOrder(f, asked', {}, 0) /\ asked' \subseteq Checks /\ breaks' \in 0..MaxBreaks
  BY <1>1, <1>12, <1>13 DEF IInv
<1>15. QED
  BY <1>1, <1>14, NextInOrder

(* A result that is within the bound on breaks. *)
LEMMA CommitKeeps ==
    ASSUME IInv, NEW R, \A r \in R : InOrder(r.d, asked, {}, 0) /\ r \in Results, Commit(R)
    PROVE  IInv'
<1>1. PICK r \in R : breaks + r.cost <= MaxBreaks /\ breaks' = breaks + r.cost /\ p' = r.d
  BY DEF Commit
<1>2. hasKey' = hasKey /\ asked' = asked
  BY DEF Commit
<1>3. r.cost \in Nat /\ InOrder(r.d, asked', {}, 0)
  BY <1>1, <1>2 DEF Results
<1>4. breaks' \in 0..MaxBreaks /\ asked' \subseteq Checks
  BY <1>1, <1>2, <1>3, ProxyAssumption DEF IInv
<1>5. QED
  BY <1>1, <1>2, <1>3, <1>4, NextInOrder

(* A task of checkPendingTasks: the check of the task is in no place, or its
   request nowhere, while it runs. *)
LEMMA TasksKeep ==
    ASSUME IInv, CheckPendingTasks
    PROVE  IInv'
<1> DEFINE t == Tail(p.tasks)
           h == Head(p.tasks)
           d == [p EXCEPT !.tasks = t]
<1>1. p.tasks # <<>> /\ Commit(RunTask(d, h))
  BY Zenon DEF CheckPendingTasks
<1>2. InOrder(p, asked, {}, 0) /\ p \in Threads /\ p.tasks \in Seq(Tasks) /\ OnceIn(p.tasks)
      /\ DOMAIN p.active \subseteq Checks /\ StartsIn(p.tasks) \subseteq Checks
  BY ThreadFields DEF IInv, InOrder, Single, StartsIn
<1>3. /\ t \in Seq(Tasks) /\ OnceIn(t) /\ h \in Tasks /\ h \in Range(p.tasks)
      /\ StartsIn(t) = StartsIn(p.tasks) \ {c \in Checks : h = Start(c)}
      /\ SendsIn(t) = SendsIn(p.tasks) \ {c \in Checks : h = Send(c)}
  BY <1>1, <1>2, TaskTaken
<1> HIDE DEF t, h
<1>4. d \in Threads
  BY <1>2, <1>3, Zenon DEF Threads
<1>5. /\ d.tasks = t /\ d.active = p.active /\ d.waiting = p.waiting /\ d.running = p.running
      /\ d.ping = p.ping /\ d.answers = p.answers /\ d.dropped = p.dropped
  BY <1>2 DEF Threads
<1> HIDE DEF d
<1>6. Done(d) = Done(p)
  BY <1>5 DEF Done
<1>7. Single(d) /\ Keyed(d)
  BY <1>2, <1>3, <1>5 DEF InOrder, Single, Keyed
<1>8. /\ IsFiniteSet(StartsIn(p.tasks)) /\ Cardinality(DOMAIN p.active) \in Nat
      /\ Cardinality(StartsIn(p.tasks)) \in Nat /\ Cardinality(Slots) \in Nat
  BY <1>2, Finite
<1>9. p.waiting # <<>> =>
        Cardinality(DOMAIN p.active) + Cardinality(StartsIn(p.tasks)) + 0 >= Cardinality(Slots)
  BY <1>2 DEF InOrder, Busy
<1>10. ASSUME NEW c \in Checks, h = Start(c)
       PROVE  \A r \in RunTask(d, h) : InOrder(r.d, asked, {}, 0) /\ r \in Results
  <2>1. h.task = "start" /\ h.check = c /\ h.task # "send" /\ h.task # "closed"
    BY <1>10, TaskKinds
  <2>2. RunTask(d, h) = StartCheck(d, c)
    BY <2>1, Zenon DEF RunTask
  <2>3. c \in StartsIn(p.tasks) /\ c \in asked
    BY <1>2, <1>3, <1>10 DEF StartsIn, InOrder, Placed
  <2>4. StartsIn(t) = StartsIn(p.tasks) \ {c} /\ SendsIn(t) = SendsIn(p.tasks)
    <3>1. \A x \in Checks : h # Send(x) /\ (h = Start(x) <=> x = c)
      BY <1>10, TaskKinds
    <3>2. QED
      BY <1>3, <3>1
  <2>5. Placed(d, asked \ {c})
    BY <1>2, <1>5, <1>6, <2>3, <2>4 DEF InOrder, Placed
  <2>6. Held(d, {})
    BY <1>2, <1>5, <1>6, <2>4 DEF InOrder, Held
  <2>7. Busy(d, 1)
    <3>1. Cardinality(StartsIn(p.tasks) \ {c}) = Cardinality(StartsIn(p.tasks)) - 1
      BY <1>8, <2>3, FS_RemoveElement
    <3>2. Cardinality(StartsIn(t)) = Cardinality(StartsIn(p.tasks)) - 1
      BY <2>4, <3>1
    <3>3. p.waiting # <<>> =>
            Cardinality(DOMAIN p.active) + Cardinality(StartsIn(t)) + 1 >= Cardinality(Slots)
      BY <1>8, <1>9, <3>2
    <3>4. QED
      BY <1>5, <3>3 DEF Busy
  <2>8. InOrder(d, asked \ {c}, {}, 1)
    BY <1>4, <1>7, <2>5, <2>6, <2>7 DEF InOrder
  <2>9. \A r \in StartCheck(d, c) : InOrder(r.d, (asked \ {c}) \cup {c}, {}, 0) /\ r \in Results
    <3>1. c \notin asked \ {c}
      OBVIOUS
    <3>2. PICK g, B : g = d /\ B = asked \ {c}
      OBVIOUS
    <3>3. InOrder(g, B, {}, 1) /\ c \notin B
      BY <2>8, <3>1, <3>2
    <3>4. \A r \in StartCheck(g, c) : InOrder(r.d, B \cup {c}, {}, 0) /\ r \in Results
      BY <3>3, StartKeeps
    <3>5. QED
      BY <3>2, <3>4
  <2>10. (asked \ {c}) \cup {c} = asked
    BY <2>3
  <2>11. QED
    BY <2>2, <2>9, <2>10
<1>11. ASSUME NEW c \in Checks, h = Send(c)
       PROVE  \A r \in RunTask(d, h) : InOrder(r.d, asked, {}, 0) /\ r \in Results
  <2>1. h.task = "send" /\ h.check = c /\ h.task # "start" /\ h.task # "closed"
    BY <1>11, TaskKinds
  <2>2. RunTask(d, h) = SendRequest(d, c)
    BY <2>1, Zenon DEF RunTask
  <2>3. c \in SendsIn(p.tasks)
    BY <1>3, <1>11 DEF SendsIn
  <2>4. SendsIn(t) = SendsIn(p.tasks) \ {c} /\ StartsIn(t) = StartsIn(p.tasks)
    <3>1. \A x \in Checks : h # Start(x) /\ (h = Send(x) <=> x = c)
      BY <1>11, TaskKinds
    <3>2. QED
      BY <1>3, <3>1
  <2>5. Placed(d, asked) /\ Busy(d, 0)
    BY <1>2, <1>5, <1>6, <2>4 DEF InOrder, Placed, Busy
  <2>6. Held(d, {c})
    <3>1. /\ DOMAIN d.active = DOMAIN d.running \cup SendsIn(d.tasks) \cup {c}
          /\ DOMAIN d.running \cap SendsIn(d.tasks) = {}
          /\ {c} \cap (DOMAIN d.running \cup SendsIn(d.tasks)) = {}
      BY <1>2, <1>5, <2>3, <2>4 DEF InOrder, Held
    <3>2. QED
      BY <1>2, <1>5, <1>6, <3>1 DEF InOrder, Held
  <2>7. InOrder(d, asked, {c}, 0)
    BY <1>4, <1>7, <2>5, <2>6 DEF InOrder
  <2>8. QED
    BY <2>2, <2>7, SendKeeps
<1>12. ASSUME h.task = "closed"
       PROVE  \A r \in RunTask(d, h) : InOrder(r.d, asked, {}, 0) /\ r \in Results
  <2>1. h.task # "start" /\ h.task # "send"
    BY <1>12
  <2>2. RunTask(d, h) = {Free(OnClosed(d, h.slot))}
    BY <1>12, <2>1, Zenon DEF RunTask
  <2>3. SendsIn(t) = SendsIn(p.tasks) /\ StartsIn(t) = StartsIn(p.tasks)
    <3>1. \A x \in Checks : h # Start(x) /\ h # Send(x)
      BY <1>12, TaskKinds
    <3>2. QED
      BY <1>3, <3>1
  <2>4. InOrder(d, asked, {}, 0)
    BY <1>2, <1>4, <1>5, <1>6, <1>7, <2>3 DEF InOrder, Placed, Busy, Held
  <2>5. PICK e : e = OnClosed(d, h.slot)
    OBVIOUS
  <2>6. InOrder(e, asked, {}, 0)
    BY <2>4, <2>5, OnClosedKeeps
  <2>7. Free(e).d = e /\ Free(e) \in Results
    BY <2>6 DEF Free, Results, InOrder
  <2>8. QED
    BY <2>2, <2>5, <2>6, <2>7
<1>13. \A r \in RunTask(d, h) : InOrder(r.d, asked, {}, 0) /\ r \in Results
  <2>1. (\E c \in Checks : h = Start(c) \/ h = Send(c)) \/ h.task = "closed"
    BY <1>3, TaskKinds
  <2>2. QED
    BY <1>10, <1>11, <1>12, <2>1
<1>14. PICK R : R = RunTask(d, h)
  OBVIOUS
<1>15. QED
  BY <1>1, <1>13, <1>14, CommitKeeps

(* processRequestQueue at the end of select. *)
LEMMA PassKeeps ==
    ASSUME IInv, Pass
    PROVE  IInv'
<1>1. PICK c \in DOMAIN p.running : Commit(connect(p, p.active[c]))
  BY DEF Pass
<1>2. InOrder(p, asked, {}, 0) /\ p \in Threads /\ OnceIn(p.tasks) /\ c \in DOMAIN p.active
  BY DEF IInv, InOrder, Single, Held
<1>3. PICK s : s = p.active[c]
  OBVIOUS
<1>4. s \in Slots
  BY <1>2, <1>3, ThreadFields
<1>5. \A r \in connect(p, s) : InOrder(r.d, asked, {}, 0) /\ r \in Results
  BY <1>2, <1>4, ConnectQuiet, QuietKeeps
<1>6. PICK R : R = connect(p, s)
  OBVIOUS
<1>7. QED
  BY <1>1, <1>3, <1>5, <1>6, CommitKeeps

(* onConnectionConnected, and the end of a socket. *)
LEMMA EstablishKeeps ==
    ASSUME IInv, NEW s \in Slots, Establish(s)
    PROVE  IInv'
<1> DEFINE run == [c \in DOMAIN p.running |-> IF p.active[c] = s THEN "current" ELSE p.running[c]]
           con == [p.conn EXCEPT ![s] = "connected"]
           e == [p EXCEPT !.conn = con, !.running = run]
<1>1. p' = e /\ hasKey' = hasKey /\ asked' = asked /\ breaks' = breaks
  BY Zenon DEF Establish
<1>2. InOrder(p, asked, {}, 0) /\ p \in Threads /\ OnceIn(p.tasks)
  BY DEF IInv, InOrder, Single
<1>3. run \in Partial(Tokens) /\ DOMAIN run = DOMAIN p.running
  <2>1. \A c \in DOMAIN p.running : p.running[c] \in Tokens
    BY <1>2, ThreadFields
  <2>2. run \in [DOMAIN p.running -> Tokens] /\ DOMAIN p.running \in SUBSET Checks
    BY <1>2, <2>1, ThreadFields DEF Tokens
  <2>3. QED
    BY <2>2 DEF Partial
<1>4. con \in [Slots -> {"closed", "connecting", "connected"}]
  BY <1>2, ThreadFields
<1> HIDE DEF run, con
<1>5. e \in Threads
  BY <1>2, <1>3, <1>4, Zenon DEF Threads
<1>6. /\ e.tasks = p.tasks /\ e.active = p.active /\ e.waiting = p.waiting /\ e.running = run
      /\ e.ping = p.ping /\ e.answers = p.answers /\ e.dropped = p.dropped
  BY <1>2 DEF Threads
<1>7. PICK f : f = e
  OBVIOUS
<1> HIDE DEF e
<1>8. Quiet(p, f)
  BY <1>2, <1>3, <1>5, <1>6, <1>7 DEF Quiet
<1>9. InOrder(f, asked, {}, 0)
  BY <1>2, <1>8, QuietKeeps
<1>10. p' = f /\ InOrder(f, asked', {}, 0) /\ asked' \subseteq Checks /\ breaks' \in 0..MaxBreaks
  BY <1>1, <1>7, <1>9 DEF IInv
<1>11. QED
  BY <1>1, <1>10, NextInOrder

LEMMA FailKeeps ==
    ASSUME IInv, NEW s \in Slots, Fail(s)
    PROVE  IInv'
<1>1. p' = Closed(p, s) /\ hasKey' = hasKey /\ asked' = asked /\ breaks' = breaks
  BY DEF Fail
<1>2. InOrder(p, asked, {}, 0) /\ p \in Threads /\ OnceIn(p.tasks)
  BY DEF IInv, InOrder, Single
<1>3. PICK f : f = Closed(p, s)
  OBVIOUS
<1>4. InOrder(f, asked, {}, 0)
  BY <1>2, <1>3, ClosedQuiet, QuietKeeps
<1>5. p' = f /\ InOrder(f, asked', {}, 0) /\ asked' \subseteq Checks /\ breaks' \in 0..MaxBreaks
  BY <1>1, <1>3, <1>4 DEF IInv
<1>6. QED
  BY <1>1, <1>5, NextInOrder

LEMMA BreakKeeps ==
    ASSUME IInv, NEW s \in Slots, Break(s)
    PROVE  IInv'
<1> DEFINE f == Closed(p, s)
           los == f.lost \cup {c \in DOMAIN p.active : p.active[c] = s}
           e == [f EXCEPT !.lost = los]
<1>1. p' = e /\ hasKey' = hasKey /\ asked' = asked /\ breaks' = breaks + 1 /\ breaks < MaxBreaks
  BY Zenon DEF Break
<1>2. InOrder(p, asked, {}, 0) /\ p \in Threads /\ OnceIn(p.tasks) /\ DOMAIN p.active \subseteq Checks
  BY ThreadFields DEF IInv, InOrder, Single
<1>3. Quiet(p, f) /\ f \in Threads
  BY <1>2, ClosedQuiet DEF Quiet
<1> HIDE DEF f
<1>4. los \in SUBSET Checks
  BY <1>2, <1>3, ThreadFields
<1> HIDE DEF los
<1>5. e \in Threads
  BY <1>3, <1>4, Zenon DEF Threads
<1>6. /\ e.tasks = f.tasks /\ e.active = f.active /\ e.waiting = f.waiting /\ e.running = f.running
      /\ e.ping = f.ping /\ e.answers = f.answers /\ e.dropped = f.dropped
  BY <1>3 DEF Threads
<1>7. PICK g : g = e
  OBVIOUS
<1> HIDE DEF e
<1>8. Quiet(p, g)
  BY <1>3, <1>5, <1>6, <1>7 DEF Quiet
<1>9. InOrder(g, asked, {}, 0)
  BY <1>2, <1>8, QuietKeeps
<1>10. p' = g /\ InOrder(g, asked', {}, 0) /\ asked' \subseteq Checks /\ breaks' \in 0..MaxBreaks
  BY <1>1, <1>7, <1>9, ProxyAssumption DEF IInv
<1>11. QED
  BY <1>1, <1>10, NextInOrder

LEMMA PongKeeps ==
    ASSUME IInv, NEW s \in Slots, Pong(s)
    PROVE  IInv'
<1>1. PICK c \in p.ping[s] : p' = OnPong(p, c)
  BY DEF Pong
<1>2. hasKey' = hasKey /\ asked' = asked /\ breaks' = breaks
  BY DEF Pong
<1>3. InOrder(p, asked, {}, 0)
  BY DEF IInv
<1>4. PICK f : f = OnPong(p, c)
  OBVIOUS
<1>5. InOrder(f, asked, {}, 0)
  BY <1>3, <1>4, OnPongKeeps
<1>6. p' = f /\ InOrder(f, asked', {}, 0) /\ asked' \subseteq Checks /\ breaks' \in 0..MaxBreaks
  BY <1>1, <1>2, <1>4, <1>5 DEF IInv
<1>7. QED
  BY <1>2, <1>6, NextInOrder

LEMMA AlwaysInOrder ==
    Spec => []IInv
<1>1. IInv /\ [Next]_vars => IInv'
  <2> SUFFICES ASSUME IInv, [Next]_vars PROVE IInv'
    OBVIOUS
  <2>1. ASSUME NEW c \in Checks, CheckProxy(c) PROVE IInv'
    BY <2>1, CheckProxyKeeps
  <2>2. CASE CheckPendingTasks
    BY <2>2, TasksKeep
  <2>3. CASE Pass
    BY <2>3, PassKeeps
  <2>4. ASSUME NEW s \in Slots, Establish(s) PROVE IInv'
    BY <2>4, EstablishKeeps
  <2>5. ASSUME NEW s \in Slots, Fail(s) PROVE IInv'
    BY <2>5, FailKeeps
  <2>6. ASSUME NEW s \in Slots, Break(s) PROVE IInv'
    BY <2>6, BreakKeeps
  <2>7. ASSUME NEW s \in Slots, Pong(s) PROVE IInv'
    BY <2>7, PongKeeps
  <2>8. CASE UNCHANGED vars
    <3>1. hasKey' = hasKey /\ asked' = asked /\ breaks' = breaks
      BY <2>8 DEF vars
    <3>2. PICK f : f = p
      OBVIOUS
    <3>3. p' = f /\ InOrder(f, asked', {}, 0) /\ asked' \subseteq Checks /\ breaks' \in 0..MaxBreaks
      BY <2>8, <3>1, <3>2 DEF vars, IInv
    <3>4. QED
      BY <3>1, <3>3, NextInOrder
  <2>9. QED
    BY <2>1, <2>2, <2>3, <2>4, <2>5, <2>6, <2>7, <2>8, Zenon DEF Next
<1>2. QED
  BY <1>1, InitInOrder, PTL DEF Spec

----------------------------------------------------------------------------
(* Each check that checkProxy was called for, and that is not answered, is in
   exactly one place: a pending task, the queue, or a connection that it holds
   together with its request; only without an auth key is it given up. *)
THEOREM AlwaysRemembered ==
    Spec => []NoneForgotten
<1>1. IInv => NoneForgotten
  <2> SUFFICES ASSUME IInv, NEW c \in asked
               PROVE  LET places == <<Pending(c), c \in DOMAIN p.active, c \in Range(p.waiting),
                                      p.answers[c] > 0, c \in p.dropped>>
                      IN  /\ Cardinality({i \in DOMAIN places : places[i]}) = 1
                          /\ c \in DOMAIN p.active =>
                               (Send(c) \in Range(p.tasks)) # (c \in DOMAIN p.running)
                          /\ c \in p.dropped => ~hasKey
    BY DEF NoneForgotten
  <2>1. InOrder(p, asked, {}, 0) /\ c \in Checks
    BY DEF IInv
  <2> DEFINE places == <<Pending(c), c \in DOMAIN p.active, c \in Range(p.waiting),
                         p.answers[c] > 0, c \in p.dropped>>
             P == {i \in DOMAIN places : places[i]}
  <2>2. /\ Pending(c) <=> c \in StartsIn(p.tasks)
        /\ p.answers[c] > 0 <=> c \in Done(p)
    BY <2>1 DEF Pending, StartsIn, Done
  <2>3. \E i \in 1..5 : P = {i}
    <3>1. /\ DOMAIN places = 1..5
          /\ places[1] = Pending(c) /\ places[2] = (c \in DOMAIN p.active)
          /\ places[3] = (c \in Range(p.waiting)) /\ places[4] = (p.answers[c] > 0)
          /\ places[5] = (c \in p.dropped)
      OBVIOUS
    <3> HIDE DEF places
    <3>2. /\ places[1] <=> c \in StartsIn(p.tasks)
          /\ places[2] <=> c \in DOMAIN p.active
          /\ places[3] <=> c \in Range(p.waiting)
          /\ places[4] <=> c \in Done(p)
          /\ places[5] <=> c \in p.dropped
      BY <2>2, <3>1, Zenon
    <3>3. /\ places[1] \/ places[2] \/ places[3] \/ places[4] \/ places[5]
          /\ ~(places[1] /\ places[2]) /\ ~(places[1] /\ places[3]) /\ ~(places[1] /\ places[4])
          /\ ~(places[1] /\ places[5]) /\ ~(places[2] /\ places[3]) /\ ~(places[2] /\ places[4])
          /\ ~(places[2] /\ places[5]) /\ ~(places[3] /\ places[4]) /\ ~(places[3] /\ places[5])
          /\ ~(places[4] /\ places[5])
      BY <2>1, <3>2, Zenon DEF InOrder, Placed
    <3>4. P = {i \in 1..5 : places[i]}
      BY <3>1
    <3>5. QED
      BY <3>3, <3>4
  <2>4. Cardinality(P) = 1
    BY <2>3, FS_Singleton
  <2>5. c \in DOMAIN p.active => (Send(c) \in Range(p.tasks)) # (c \in DOMAIN p.running)
    <3>1. Send(c) \in Range(p.tasks) <=> c \in SendsIn(p.tasks)
      BY <2>1 DEF SendsIn
    <3>2. c \in DOMAIN p.active => /\ c \in SendsIn(p.tasks) \/ c \in DOMAIN p.running
                                   /\ ~(c \in SendsIn(p.tasks) /\ c \in DOMAIN p.running)
      BY <2>1 DEF InOrder, Held
    <3>3. QED
      BY <3>1, <3>2
  <2>6. c \in p.dropped => ~hasKey
    BY <2>1 DEF InOrder, Keyed
  <2>7. QED
    BY <2>4, <2>5, <2>6
<1>2. QED
  BY <1>1, AlwaysInOrder, PTL

(* No two checks hold the same connection, no check waits beside a free
   connection unless another is being started, and onRequestTime is called
   once at most for a check, although pongs come twice and race the end of the
   connection. *)
THEOREM AlwaysSound ==
    Spec => []ChecksSound
<1>1. IInv => ChecksSound
  <2> SUFFICES ASSUME IInv PROVE ChecksSound
    OBVIOUS
  <2>1. InOrder(p, asked, {}, 0) /\ p \in Threads
    BY DEF IInv, InOrder
  <2>2. TypeOK
    <3>1. Range(p.active) \subseteq Slots /\ Range(p.running) \subseteq Tokens
      <4>1. /\ \A c \in DOMAIN p.active : p.active[c] \in Slots
            /\ \A c \in DOMAIN p.running : p.running[c] \in Tokens
        BY <2>1, ThreadFields
      <4>2. QED
        BY <4>1 DEF Range
    <3>2. QED
      BY <2>1, <3>1, ThreadFields, Zenon DEF IInv, TypeOK, Tokens
  <2>3. OwnConnection
    BY <2>1 DEF InOrder, Held, OwnConnection
  <2>4. AnsweredOnce
    BY <2>1 DEF InOrder, Single, AnsweredOnce
  <2>5. NoIdleConnection
    <3> SUFFICES ASSUME p.waiting # <<>>, \A c \in Checks : ~Pending(c)
                 PROVE  Cardinality(DOMAIN p.active) = Cardinality(Slots)
      BY DEF NoIdleConnection
    <3>1. StartsIn(p.tasks) = {}
      BY DEF StartsIn, Pending
    <3>2. Cardinality(StartsIn(p.tasks)) = 0
      BY <3>1, FS_EmptySet
    <3>3. /\ p.active \in [DOMAIN p.active -> Slots] /\ DOMAIN p.active \subseteq Checks
          /\ \A c, e \in DOMAIN p.active : p.active[c] = p.active[e] => c = e
      <4>1. p.active \in Partial(Slots) /\ DOMAIN p.active \subseteq Checks
        BY <2>1, ThreadFields
      <4>2. p.active \in [DOMAIN p.active -> Slots]
        BY <4>1 DEF Partial
      <4>3. \A c, e \in DOMAIN p.active : p.active[c] = p.active[e] => c = e
        BY <2>1 DEF InOrder, Held
      <4>4. QED
        BY <4>1, <4>2, <4>3
    <3>4. p.active \in Injection(DOMAIN p.active, Slots)
      BY <3>3 DEF Injection, IsInjective
    <3>5. Cardinality(DOMAIN p.active) <= Cardinality(Slots)
      BY <3>3, <3>4, Finite, FS_Injection DEF ExistsInjection
    <3>6. Cardinality(DOMAIN p.active) \in Nat /\ Cardinality(Slots) \in Nat
      BY <3>3, Finite
    <3>7. Cardinality(DOMAIN p.active) + Cardinality(StartsIn(p.tasks)) + 0 >= Cardinality(Slots)
      BY <2>1 DEF InOrder, Busy
    <3>8. QED
      BY <3>2, <3>5, <3>6, <3>7
  <2>6. QED
    BY <2>2, <2>3, <2>4, <2>5 DEF ChecksSound
<1>2. QED
  BY <1>1, AlwaysInOrder, PTL
=============================================================================
