-------------------------- MODULE EventLoopProofs ---------------------------
(***************************************************************************)
(* What is proved of EventLoop, for all durations and numbers of troubles: *)
(* activeConnections holds the open connections, no socket is closed twice *)
(* by the loop over it, an application that is resumed stays awake, no     *)
(* wake-up is lost and epoll_wait never waits too long.                    *)
(***************************************************************************)
EXTENDS EventLoop, FiniteSetTheorems, SequenceTheorems, WellFoundedInduction, TLAPS

States == {"Idle", "Connecting", "Connected", "Reconnecting", "Suspended"}

Managers ==
    [st : [Conns -> States],
     idle : [Conns -> 0..(IdleLimit + 1)], heard : BOOLEAN,
     wait : [Conns -> BOOLEAN], due : [Conns -> 0..1],
     events : Seq(Conns), mem : Seq(Conns), size : 0..3,
     pinging : BOOLEAN, pushAge : 0..PushCap, lastPause : (-1)..SleepTimeout,
     paused : BOOLEAN, busy : SUBSET {"generic", "download"}, again : BOOLEAN,
     troubles : 0..MaxTroubles]

Loops == [pc : Phases, rearmed : BOOLEAN, timeout : 0..PushPeriod,
          polled : SUBSET (Conns \cup {Pipe})]
TaskNames == {"send", "download", "resume", "partial"}
Apps == [wanted : {"awake", "asleep"}, overtaken : BOOLEAN]

USE DEF Loops, TaskNames, Apps

(* The vector holds each connection that is open once, and no other; only an
   open connection is silent for any time.  The connections of S are being
   opened or closed and are left out. *)
Listed(d, y) == \E i \in 1..d.size : d.mem[i] = y

Vector(d, S) ==
    /\ d.size <= Len(d.mem)
    /\ \A i, j \in 1..d.size : d.mem[i] = d.mem[j] => i = j
    /\ \A y \in Conns \ S : Listed(d, y) <=> d.st[y] \in Open
    /\ \A y \in Conns \ S : d.idle[y] > 0 => d.st[y] \in Open

(* The list of timers holds a timer once and is sorted. *)
Timers(d) ==
    /\ IsInjective(d.events)
    /\ \A i, j \in DOMAIN d.events : i < j => d.due[d.events[i]] <= d.due[d.events[j]]

Sound(d, S) == d \in Managers /\ Vector(d, S) /\ Timers(d)

(* What a handler of the connection x does not change; a timer of x that it
   starts takes its full time. *)
Frame(d, e, x) ==
    /\ e.paused = d.paused /\ e.lastPause = d.lastPause /\ e.again = d.again
    /\ \A y \in Conns \ {x} :
          (y \in Range(e.events) <=> y \in Range(d.events)) /\ e.due[y] = d.due[y]
    /\ x \in Range(e.events) =>
          e.due[x] = 1 \/ (x \in Range(d.events) /\ e.due[x] = d.due[x])

Awake(d) == ~d.paused /\ d.lastPause = None

IInv ==
    /\ TypeOK /\ Sound(n, {}) /\ ~n.again
    /\ NoLostWakeup /\ NeverOversleeps /\ ResumedStaysAwake

----------------------------------------------------------------------------
(* Constants. *)
LEMMA Bounds ==
    /\ IdleLimit \in Nat /\ PushTimeout \in Nat /\ PushPeriod \in Nat /\ PushSlack \in Nat
    /\ PushRetry \in Nat /\ SleepTimeout \in Nat /\ MaxReady \in Nat /\ MaxTroubles \in Nat
    /\ PushTimeout > 0 /\ PushSlack > 0 /\ PushRetry > 0 /\ SleepTimeout > 0
    /\ PushTimeout < PushPeriod /\ PushRetry < PushPeriod
    /\ PushCap \in Nat /\ PushPeriod < PushCap
BY EventLoopAssumption DEF PushCap

LEMMA ThreeConns == Cardinality(Conns) = 3
<1>1. IsFiniteSet({}) /\ Cardinality({}) = 0
  BY FS_EmptySet
<1>2. IsFiniteSet({"generic"}) /\ Cardinality({"generic"}) = 1
  <2>1. {} \cup {"generic"} = {"generic"}
    OBVIOUS
  <2>2. QED
    BY <1>1, <2>1, FS_AddElement
<1>3. IsFiniteSet({"generic", "download"}) /\ Cardinality({"generic", "download"}) = 2
  <2>1. {"generic"} \cup {"download"} = {"generic", "download"} /\ "download" \notin {"generic"}
    OBVIOUS
  <2>2. QED
    BY <1>2, <2>1, FS_AddElement
<1>4. {"generic", "download"} \cup {"push"} = Conns /\ "push" \notin {"generic", "download"}
  BY DEF Conns
<1>5. QED
  BY <1>3, <1>4, FS_AddElement

LEMMA TypesAre ==
    TypeOK <=>
        /\ n \in Managers
        /\ loop \in Loops
        /\ tasks \in Seq(TaskNames)
        /\ signal \in BOOLEAN /\ waking \in Nat /\ app \in Apps
<1>1. Open \cup {"Idle", "Reconnecting", "Suspended"} = States
  BY DEF Open, States
<1>2. None = -1 /\ TimerTicks = 1 /\ Cardinality(Conns) = 3
  BY ThreeConns DEF None, TimerTicks
<1>3. QED
  BY <1>1, <1>2, Zenon DEF TypeOK, Managers

LEMMA Fields ==
    ASSUME NEW d \in Managers
    PROVE  /\ d.st \in [Conns -> States] /\ d.idle \in [Conns -> 0..(IdleLimit + 1)]
           /\ d.heard \in BOOLEAN /\ d.wait \in [Conns -> BOOLEAN]
           /\ d.due \in [Conns -> 0..1] /\ d.events \in Seq(Conns) /\ d.mem \in Seq(Conns)
           /\ d.size \in 0..3 /\ d.pinging \in BOOLEAN /\ d.pushAge \in 0..PushCap
           /\ d.lastPause \in (-1)..SleepTimeout /\ d.paused \in BOOLEAN
           /\ d.busy \in SUBSET {"generic", "download"}
           /\ d.again \in BOOLEAN /\ d.troubles \in 0..MaxTroubles
BY DEF Managers

----------------------------------------------------------------------------
(* Induction over the naturals, for a set instead of a predicate: a set of
   naturals that is not empty has a least element. *)
LEMMA NatMin ==
    ASSUME NEW T, T \subseteq Nat, T # {}
    PROVE  \E x \in T : \A y \in T : x <= y
<1> DEFINE R == OpToRel(<, Nat)
<1>1. IsWellFoundedOn(R, Nat)
  BY NatLessThanWellFounded, Zenon
<1>2. \A x, y \in Nat : x < y => <<x, y>> \in R
  BY DEF OpToRel
<1> HIDE DEF R
<1>3. PICK x \in T : \A y \in T : ~ (<<y, x>> \in R)
  BY <1>1, WFMin
<1>4. ASSUME NEW y \in T PROVE x <= y
  <2>1. x \in Nat /\ y \in Nat
    BY <1>3
  <2>2. ~(y < x)
    BY <1>2, <1>3, <2>1
  <2>3. QED
    BY <2>1, <2>2
<1>5. QED
  BY <1>4

LEMMA SetInduction ==
    ASSUME NEW S, 0 \in S, \A m \in Nat : m \in S => m + 1 \in S
    PROVE  \A m \in Nat : m \in S
<1> SUFFICES ASSUME NEW k \in Nat, k \notin S PROVE FALSE
  OBVIOUS
<1> DEFINE T == Nat \ S
<1>1. T \subseteq Nat /\ T # {}
  OBVIOUS
<1>2. PICK x \in T : \A y \in T : x <= y
  BY <1>1, NatMin
<1>3. x - 1 \in Nat /\ x - 1 < x
  BY <1>2
<1>4. x - 1 \in S
  BY <1>2, <1>3
<1>5. x - 1 + 1 \in S
  BY <1>3, <1>4
<1>6. QED
  BY <1>2, <1>5

(* What a loop over 1..N computes exists: its bodies G[i] take a value of W to
   a value of W. *)
Closed(W, N, G) == \A i \in 1..N : \A w \in W : G[i][w] \in W

Computes(W, N, b, G) ==
    \E f \in [0..N -> W] : f[0] = b /\ \A i \in 1..N : f[i] = G[i][f[i - 1]]

LEMMA LoopExists ==
    ASSUME NEW W, NEW N \in Nat, NEW b \in W, NEW G, Closed(W, N, G)
    PROVE  Computes(W, N, b, G)
<1> DEFINE Good(m, f) == f[0] = b /\ \A i \in 1..m : f[i] = G[i][f[i - 1]]
<1> DEFINE S == {m \in Nat : m <= N => \E f \in [0..m -> W] : Good(m, f)}
<1>1. 0 \in S
  <2> DEFINE f == [i \in 0..0 |-> b]
  <2>1. f \in [0..0 -> W] /\ Good(0, f)
    OBVIOUS
  <2>2. QED
    BY <2>1
<1>2. ASSUME NEW m \in Nat, m \in S PROVE m + 1 \in S
  <2> SUFFICES ASSUME m + 1 <= N PROVE \E f \in [0..(m + 1) -> W] : Good(m + 1, f)
    OBVIOUS
  <2>1. m <= N
    OBVIOUS
  <2>2. PICK g \in [0..m -> W] : Good(m, g)
    BY <1>2, <2>1
  <2> DEFINE f == [i \in 0..(m + 1) |-> IF i = m + 1 THEN G[m + 1][g[m]] ELSE g[i]]
  <2>3. m \in 0..m /\ m + 1 \in 1..N
    OBVIOUS
  <2>4. G[m + 1][g[m]] \in W
    BY <2>2, <2>3 DEF Closed
  <2>5. f \in [0..(m + 1) -> W]
    BY <2>4
  <2>6. f[0] = b
    BY <2>2
  <2>7. ASSUME NEW i \in 1..(m + 1) PROVE f[i] = G[i][f[i - 1]]
    <3>1. CASE i = m + 1
      BY <3>1
    <3>2. CASE i # m + 1
      <4>1. i \in 1..m /\ i - 1 \in 0..m /\ i - 1 # m + 1
        BY <3>2
      <4>2. QED
        BY <2>2, <3>2, <4>1
    <3>3. QED
      BY <3>1, <3>2
  <2>8. QED
    BY <2>5, <2>6, <2>7
<1> HIDE DEF S
<1>3. N \in S
  BY <1>1, <1>2, SetInduction
<1>4. QED
  BY <1>3 DEF S, Computes

----------------------------------------------------------------------------
(* Lists. *)
LEMMA Joined ==
    ASSUME NEW S, NEW s \in Seq(S), NEW t \in Seq(S)
    PROVE  /\ s \o t \in Seq(S) /\ Len(s \o t) = Len(s) + Len(t)
           /\ \A i \in 1..Len(s) : (s \o t)[i] = s[i]
           /\ \A i \in 1..Len(t) : (s \o t)[Len(s) + i] = t[i]
           /\ Range(s \o t) = Range(s) \cup Range(t)
<1> DEFINE u == s \o t
<1>1. /\ u \in Seq(S) /\ Len(u) = Len(s) + Len(t)
      /\ \A i \in 1..Len(s) : u[i] = s[i]
      /\ \A i \in 1..Len(t) : u[Len(s) + i] = t[i]
  OBVIOUS
<1>2. /\ Len(s) \in Nat /\ DOMAIN s = 1..Len(s) /\ Len(t) \in Nat /\ DOMAIN t = 1..Len(t)
      /\ DOMAIN u = 1..(Len(s) + Len(t))
  BY <1>1
<1> HIDE DEF u
<1>3. \A i \in 1..Len(t) : Len(s) + i \in 1..(Len(s) + Len(t))
  BY <1>2
<1>4. \A i \in 1..(Len(s) + Len(t)) : i \in 1..Len(s) \/ (i - Len(s) \in 1..Len(t) /\ i = Len(s) + (i - Len(s)))
  BY <1>2
<1>5. Range(u) \subseteq Range(s) \cup Range(t)
  <2>1. ASSUME NEW i \in 1..(Len(s) + Len(t)) PROVE u[i] \in Range(s) \cup Range(t)
    <3>1. CASE i \in 1..Len(s)
      BY <1>1, <1>2, <3>1 DEF Range
    <3>2. CASE i - Len(s) \in 1..Len(t) /\ i = Len(s) + (i - Len(s))
      <4>1. u[i] = t[i - Len(s)]
        BY <1>1, <3>2
      <4>2. QED
        BY <1>2, <3>2, <4>1 DEF Range
    <3>3. QED
      BY <1>4, <3>1, <3>2
  <2>2. QED
    BY <1>2, <2>1 DEF Range
<1>6. Range(s) \subseteq Range(u)
  BY <1>1, <1>2 DEF Range
<1>7. Range(t) \subseteq Range(u)
  BY <1>1, <1>2, <1>3 DEF Range
<1>8. QED
  BY <1>1, <1>5, <1>6, <1>7 DEF u

(* The elements of t are in s, in the same order. *)
Before(s, a, b) == \E p, q \in DOMAIN s : p < q /\ a = s[p] /\ b = s[q]

Thinned(s, t) == \A i, j \in DOMAIN t : i < j => Before(s, t[i], t[j])

LEMMA Erased ==
    ASSUME NEW S, NEW s \in Seq(S), NEW r, IsInjective(s)
    PROVE  /\ Erase(s, r) \in Seq(S) /\ IsInjective(Erase(s, r))
           /\ Range(Erase(s, r)) = Range(s) \ {r}
           /\ Thinned(s, Erase(s, r))
<1>1. CASE r \notin Range(s)
  BY <1>1 DEF Erase, Thinned, Before
<1>2. CASE r \in Range(s)
  <2> DEFINE k == CHOOSE i \in DOMAIN s : s[i] = r
             a == SubSeq(s, 1, k - 1)
             b == SubSeq(s, k + 1, Len(s))
             t == a \o b
  <2>1. Len(s) \in Nat /\ DOMAIN s = 1..Len(s)
    OBVIOUS
  <2>2. k \in 1..Len(s) /\ s[k] = r
    BY <1>2, <2>1 DEF Range
  <2>3. Erase(s, r) = t
    BY <1>2, Zenon DEF Erase, RemoveAt
  <2> HIDE DEF k
  <2>4. a \in Seq(S) /\ Len(a) = k - 1 /\ \A i \in 1..(k - 1) : a[i] = s[i]
    BY <2>1, <2>2
  <2>5. b \in Seq(S) /\ Len(b) = Len(s) - k /\ \A i \in 1..(Len(s) - k) : b[i] = s[k + i]
    <3>1. k + 1 \in 1..(Len(s) + 1)
      BY <2>1, <2>2
    <3>2. \A i \in 1..(Len(s) - k) : k + 1 + i - 1 = k + i
      BY <2>1, <2>2
    <3>3. b \in Seq(S) /\ Len(b) = Len(s) - (k + 1) + 1
      BY <2>1, <3>1
    <3>4. \A i \in 1..(Len(s) - k) : b[i] = s[k + 1 + i - 1]
      BY <2>1, <2>2
    <3> HIDE DEF b
    <3>5. QED
      BY <2>1, <2>2, <3>2, <3>3, <3>4
  <2> HIDE DEF a, b
  <2>6. /\ t \in Seq(S) /\ Len(t) = Len(s) - 1
        /\ \A i \in 1..(k - 1) : t[i] = a[i]
        /\ \A i \in 1..(Len(s) - k) : t[k - 1 + i] = b[i]
    <3>1. /\ t \in Seq(S) /\ Len(t) = Len(a) + Len(b)
          /\ \A i \in 1..Len(a) : t[i] = a[i]
          /\ \A i \in 1..Len(b) : t[Len(a) + i] = b[i]
      <4>1. a \in Seq(S) /\ b \in Seq(S)
        BY <2>4, <2>5
      <4>2. QED
        BY <4>1, Joined DEF t
    <3>2. Len(a) = k - 1 /\ Len(b) = Len(s) - k /\ Len(a) + Len(b) = Len(s) - 1
      BY <2>1, <2>2, <2>4, <2>5
    <3> HIDE DEF t
    <3>3. QED
      BY <3>1, <3>2
  <2>7. DOMAIN t = 1..(Len(s) - 1)
    BY <2>6
  <2> HIDE DEF t
  <2>8. ASSUME NEW i \in 1..(Len(s) - 1)
        PROVE  t[i] = IF i < k THEN s[i] ELSE s[i + 1]
    <3>1. CASE i < k
      <4>1. i \in 1..(k - 1)
        BY <2>1, <2>2, <3>1
      <4>2. QED
        BY <2>4, <2>6, <3>1, <4>1
    <3>2. CASE ~(i < k)
      <4>1. i - k + 1 \in 1..(Len(s) - k) /\ k - 1 + (i - k + 1) = i /\ k + (i - k + 1) = i + 1
        BY <2>1, <2>2, <3>2
      <4>2. t[k - 1 + (i - k + 1)] = b[i - k + 1] /\ b[i - k + 1] = s[k + (i - k + 1)]
        BY <2>5, <2>6, <4>1
      <4>3. QED
        BY <3>2, <4>1, <4>2
    <3>3. QED
      BY <3>1, <3>2
  <2>9. IsInjective(t)
    <3>1. \A i, j \in 1..Len(s) : s[i] = s[j] => i = j
      BY <2>1 DEF IsInjective
    <3>2. ASSUME NEW i \in 1..(Len(s) - 1), NEW j \in 1..(Len(s) - 1), t[i] = t[j]
          PROVE  i = j
      <4>1. PICK x \in 1..Len(s) : x = (IF i < k THEN i ELSE i + 1) /\ t[i] = s[x]
        BY <2>1, <2>2, <2>8
      <4>2. PICK y \in 1..Len(s) : y = (IF j < k THEN j ELSE j + 1) /\ t[j] = s[y]
        BY <2>1, <2>2, <2>8
      <4>3. x = y
        BY <3>1, <3>2, <4>1, <4>2
      <4>4. QED
        BY <2>1, <2>2, <4>1, <4>2, <4>3
    <3>3. QED
      BY <2>7, <3>2 DEF IsInjective
  <2>10. Range(t) \subseteq Range(s) \ {r}
    BY <2>1, <2>2, <2>7, <2>8 DEF Range, IsInjective
  <2>11. Range(s) \ {r} \subseteq Range(t)
    <3> SUFFICES ASSUME NEW i \in 1..Len(s), s[i] # r PROVE s[i] \in Range(t)
      BY <2>1 DEF Range
    <3>1. CASE i < k
      <4>1. i \in 1..(Len(s) - 1) /\ t[i] = s[i]
        BY <2>1, <2>2, <2>8, <3>1
      <4>2. QED
        BY <2>7, <4>1 DEF Range
    <3>2. CASE i > k
      <4>1. i - 1 \in 1..(Len(s) - 1) /\ ~(i - 1 < k) /\ i - 1 + 1 = i
        BY <2>1, <2>2, <3>2
      <4>2. t[i - 1] = s[i]
        BY <2>8, <4>1
      <4>3. QED
        BY <2>7, <4>1, <4>2 DEF Range
    <3>3. QED
      BY <2>1, <2>2, <3>1, <3>2
  <2>12. Thinned(s, t)
    <3>1. ASSUME NEW i \in DOMAIN t, NEW j \in DOMAIN t, i < j PROVE Before(s, t[i], t[j])
      <4>1. i \in 1..(Len(s) - 1) /\ j \in 1..(Len(s) - 1)
        BY <2>7
      <4>2. PICK p \in 1..Len(s) : p = (IF i < k THEN i ELSE i + 1) /\ t[i] = s[p]
        BY <2>1, <2>2, <2>8, <4>1
      <4>3. PICK q \in 1..Len(s) : q = (IF j < k THEN j ELSE j + 1) /\ t[j] = s[q]
        BY <2>1, <2>2, <2>8, <4>1
      <4>4. p < q
        BY <2>1, <2>2, <3>1, <4>1, <4>2, <4>3
      <4>5. QED
        BY <2>1, <4>2, <4>3, <4>4 DEF Before
    <3>2. QED
      BY <3>1 DEF Thinned
  <2>13. QED
    BY <2>3, <2>6, <2>9, <2>10, <2>11, <2>12
<1>3. QED
  BY <1>1, <1>2

----------------------------------------------------------------------------
(* The parts of a manager. *)
LEMMA Untouched ==
    ASSUME NEW d, NEW S, Sound(d, S), NEW e \in Managers,
           e.st = d.st, e.idle = d.idle, e.mem = d.mem, e.size = d.size,
           e.events = d.events, e.due = d.due
    PROVE  Sound(e, S)
BY DEF Sound, Vector, Timers, Listed

LEMMA FrameSame ==
    ASSUME NEW d, NEW e, NEW x,
           e.paused = d.paused, e.lastPause = d.lastPause, e.again = d.again,
           e.events = d.events, e.due = d.due
    PROVE  Frame(d, e, x)
BY DEF Frame

LEMMA FrameTrans ==
    ASSUME NEW d, NEW e, NEW f, NEW x \in Conns, Frame(d, e, x), Frame(e, f, x)
    PROVE  Frame(d, f, x)
BY Zenon DEF Frame

LEMMA ActiveIs ==
    ASSUME NEW d \in Managers, d.size <= Len(d.mem)
    PROVE  /\ Active(d) \in Seq(Conns) /\ Len(Active(d)) = d.size
           /\ \A i \in 1..d.size : Active(d)[i] = d.mem[i]
           /\ \A y : y \in Range(Active(d)) <=> Listed(d, y)
<1>1. d.mem \in Seq(Conns) /\ d.size \in Nat /\ Len(d.mem) \in Nat
  BY Fields
<1> DEFINE a == SubSeq(d.mem, 1, d.size)
<1>2. a \in Seq(Conns) /\ Len(a) = d.size /\ \A i \in 1..d.size : a[i] = d.mem[i]
  BY <1>1
<1>3. a = Active(d)
  BY DEF Active
<1>4. DOMAIN a = 1..d.size
  BY <1>1, <1>2
<1> HIDE DEF a
<1>5. \A y : y \in Range(a) <=> Listed(d, y)
  BY <1>2, <1>4 DEF Range, Listed
<1>6. QED
  BY <1>2, <1>3, <1>5

LEMMA StoppedKeeps ==
    ASSUME NEW d, NEW S, Sound(d, S), NEW x \in Conns, NEW e, e = Stopped(d, x)
    PROVE  /\ Sound(e, S) /\ Frame(d, e, x) /\ x \notin Range(e.events)
           /\ e.st = d.st /\ e.idle = d.idle /\ e.mem = d.mem /\ e.size = d.size
           /\ e.wait = d.wait /\ e.troubles = d.troubles
<1> DEFINE ev == Erase(d.events, x)
           du == [d.due EXCEPT ![x] = 0]
<1>1. d \in Managers /\ IsInjective(d.events)
  BY DEF Sound, Timers
<1>2. d.events \in Seq(Conns) /\ d.due \in [Conns -> 0..1]
  BY <1>1, Fields
<1>3. ev \in Seq(Conns) /\ IsInjective(ev) /\ Range(ev) = Range(d.events) \ {x} /\ Thinned(d.events, ev)
  BY <1>1, <1>2, Erased
<1>4. du \in [Conns -> 0..1] /\ du[x] = 0 /\ \A y \in Conns \ {x} : du[y] = d.due[y]
  BY <1>2
<1>5. e = [d EXCEPT !.events = ev, !.due = du]
  BY Zenon DEF Stopped
<1> HIDE DEF ev, du
<1>6. /\ e.events = ev /\ e.due = du
      /\ e.st = d.st /\ e.idle = d.idle /\ e.mem = d.mem /\ e.size = d.size
      /\ e.wait = d.wait /\ e.troubles = d.troubles
      /\ e.paused = d.paused /\ e.lastPause = d.lastPause /\ e.again = d.again
  BY <1>1, <1>5 DEF Managers
<1>7. e \in Managers
  BY <1>1, <1>3, <1>4, <1>5 DEF Managers
<1>8. Timers(e)
  <2> SUFFICES ASSUME NEW i \in DOMAIN ev, NEW j \in DOMAIN ev, i < j
               PROVE  du[ev[i]] <= du[ev[j]]
    BY <1>3, <1>6 DEF Timers
  <2>1. PICK p \in DOMAIN d.events, q \in DOMAIN d.events :
           p < q /\ ev[i] = d.events[p] /\ ev[j] = d.events[q]
    BY <1>3 DEF Thinned, Before
  <2>2. d.due[ev[i]] <= d.due[ev[j]]
    BY <2>1 DEF Sound, Timers
  <2>3. ev[i] \in Range(ev) /\ ev[j] \in Range(ev)
    BY DEF Range
  <2>4. ev[i] \in Conns \ {x} /\ ev[j] \in Conns \ {x}
    BY <1>2, <1>3, <2>1, <2>3
  <2>5. QED
    BY <1>4, <2>2, <2>4
<1>9. Sound(e, S)
  BY <1>6, <1>7, <1>8 DEF Sound, Vector, Listed
<1>10. Frame(d, e, x)
  BY <1>3, <1>4, <1>6 DEF Frame
<1>11. QED
  BY <1>3, <1>6, <1>9, <1>10

LEMMA StartedKeeps ==
    ASSUME NEW d, NEW S, Sound(d, S), NEW x \in Conns, NEW e, e = Started(d, x)
    PROVE  /\ Sound(e, S) /\ Frame(d, e, x)
           /\ e.st = d.st /\ e.idle = d.idle /\ e.mem = d.mem /\ e.size = d.size
           /\ e.troubles = d.troubles
<1>1. d \in Managers /\ IsInjective(d.events)
  BY DEF Sound, Timers
<1>2. d.events \in Seq(Conns) /\ d.due \in [Conns -> 0..1]
  BY <1>1, Fields
<1>3. CASE x \in Range(d.events)
  <2>1. e = d
    BY <1>3, Zenon DEF Started
  <2>2. QED
    BY <2>1, FrameSame
<1>4. CASE x \notin Range(d.events)
  <2> DEFINE ev == Append(d.events, x)
             du == [d.due EXCEPT ![x] = 1]
  <2>1. {i \in DOMAIN d.events : d.due[d.events[i]] > TimerTicks} = {}
    BY <1>2 DEF TimerTicks
  <2>2. e = [d EXCEPT !.due = du, !.events = ev]
    BY <1>4, <2>1, Zenon DEF Started, TimerTicks
  <2>3. /\ Len(d.events) \in Nat /\ DOMAIN d.events = 1..Len(d.events)
        /\ ev \in Seq(Conns) /\ DOMAIN ev = 1..(Len(d.events) + 1)
        /\ ev[Len(d.events) + 1] = x /\ \A i \in 1..Len(d.events) : ev[i] = d.events[i]
    BY <1>2
  <2>4. du \in [Conns -> 0..1] /\ du[x] = 1 /\ \A y \in Conns \ {x} : du[y] = d.due[y]
    BY <1>2
  <2> HIDE DEF ev, du
  <2>5. /\ e.events = ev /\ e.due = du
        /\ e.st = d.st /\ e.idle = d.idle /\ e.mem = d.mem /\ e.size = d.size
        /\ e.troubles = d.troubles
        /\ e.paused = d.paused /\ e.lastPause = d.lastPause /\ e.again = d.again
    BY <1>1, <2>2 DEF Managers
  <2>6. e \in Managers
    BY <1>1, <2>2, <2>3, <2>4 DEF Managers
  <2>7. Range(ev) = Range(d.events) \cup {x}
    BY <2>3 DEF Range
  <2>8. IsInjective(ev)
    BY <1>1, <1>4, <2>3 DEF IsInjective, Range
  <2>9. ASSUME NEW i \in DOMAIN ev, NEW j \in DOMAIN ev, i < j PROVE du[ev[i]] <= du[ev[j]]
    <3>1. i \in 1..Len(d.events) /\ ev[i] = d.events[i] /\ ev[i] \in Conns \ {x}
      BY <1>2, <1>4, <2>3, <2>9 DEF Range
    <3>2. CASE j = Len(d.events) + 1
      BY <1>2, <2>3, <2>4, <3>1, <3>2
    <3>3. CASE j # Len(d.events) + 1
      <4>1. j \in 1..Len(d.events) /\ ev[j] = d.events[j] /\ ev[j] \in Conns \ {x}
        BY <1>2, <1>4, <2>3, <2>9, <3>3 DEF Range
      <4>2. d.due[d.events[i]] <= d.due[d.events[j]]
        BY <2>3, <2>9, <3>1, <4>1 DEF Sound, Timers
      <4>3. QED
        BY <2>4, <3>1, <4>1, <4>2
    <3>4. QED
      BY <3>2, <3>3
  <2>10. Sound(e, S)
    BY <2>5, <2>6, <2>8, <2>9 DEF Sound, Vector, Listed, Timers
  <2>11. Frame(d, e, x)
    BY <2>4, <2>5, <2>7 DEF Frame
  <2>12. QED
    BY <2>5, <2>10, <2>11
<1>5. QED
  BY <1>3, <1>4

----------------------------------------------------------------------------
(* attachConnection and detachConnection. *)
LEMMA Room ==
    ASSUME NEW d \in Managers, NEW S, Vector(d, S), NEW x \in Conns, ~Listed(d, x)
    PROVE  d.size <= 2
<1>1. d.size \in 0..3 /\ d.mem \in Seq(Conns) /\ d.size <= Len(d.mem)
  BY Fields DEF Vector
<1>2. \A i \in 1..d.size : d.mem[i] \in Conns \ {x}
  BY <1>1 DEF Listed
<1>3. ASSUME d.size = 3 PROVE FALSE
  <2>1. d.mem[1] \in Conns \ {x} /\ d.mem[2] \in Conns \ {x} /\ d.mem[3] \in Conns \ {x}
    BY <1>2, <1>3
  <2>2. d.mem[1] # d.mem[2] /\ d.mem[2] # d.mem[3] /\ d.mem[1] # d.mem[3]
    BY <1>3 DEF Vector
  <2>3. QED
    BY <2>1, <2>2 DEF Conns
<1>4. QED
  BY <1>1, <1>3

LEMMA AttachedKeeps ==
    ASSUME NEW d, NEW x \in Conns, Sound(d, {x}), d.st[x] \in Open, NEW e, e = Attached(d, x)
    PROVE  /\ Sound(e, {}) /\ Frame(d, e, x) /\ e.st = d.st /\ e.troubles = d.troubles
           /\ e.events = d.events /\ e.wait = d.wait
<1>1. d \in Managers /\ Vector(d, {x}) /\ Timers(d) /\ d.size <= Len(d.mem)
  BY DEF Sound, Vector
<1>2. /\ Active(d) \in Seq(Conns) /\ Len(Active(d)) = d.size
      /\ \A i \in 1..d.size : Active(d)[i] = d.mem[i]
      /\ \A y : y \in Range(Active(d)) <=> Listed(d, y)
  BY <1>1, ActiveIs
<1>3. d.size \in 0..3
  BY <1>1, Fields
<1>4. CASE x \in Range(Active(d))
  <2>1. e = d
    BY <1>4, Zenon DEF Attached
  <2>2. Sound(d, {})
    BY <1>1, <1>2, <1>4 DEF Sound, Vector
  <2>3. QED
    BY <2>1, <2>2, FrameSame
<1>5. CASE x \notin Range(Active(d))
  <2> DEFINE m == Append(Active(d), x)
             s == d.size + 1
  <2>1. e = [d EXCEPT !.size = s, !.mem = m]
    BY <1>5, Zenon DEF Attached
  <2>2. s \in 0..3 /\ s = d.size + 1
    BY <1>1, <1>2, <1>3, <1>5, Room
  <2>3. /\ m \in Seq(Conns) /\ Len(m) = s /\ m[s] = x
        /\ \A i \in 1..d.size : m[i] = d.mem[i]
    BY <1>2, <1>3
  <2> HIDE DEF m, s
  <2>4. /\ e.mem = m /\ e.size = s /\ e.st = d.st /\ e.troubles = d.troubles
        /\ e.events = d.events /\ e.due = d.due /\ e.wait = d.wait /\ e.idle = d.idle
        /\ e.paused = d.paused /\ e.lastPause = d.lastPause /\ e.again = d.again
    BY <1>1, <2>1 DEF Managers
  <2>5. e \in Managers
    BY <1>1, <2>1, <2>2, <2>3 DEF Managers
  <2>6. \A i \in 1..s : i = s \/ i \in 1..d.size
    BY <1>3, <2>2
  <2>7. ~Listed(d, x)
    BY <1>2, <1>5
  <2>8. \A i, j \in 1..s : m[i] = m[j] => i = j
    BY <1>1, <2>3, <2>6, <2>7 DEF Vector, Listed
  <2>9. \A y : Listed(e, y) <=> (Listed(d, y) \/ y = x)
    <3>1. \A i \in 1..d.size : i \in 1..s
      BY <1>3, <2>2
    <3>2. s \in 1..s
      BY <1>3, <2>2
    <3>3. QED
      BY <2>3, <2>4, <2>6, <3>1, <3>2 DEF Listed
  <2>10. Vector(e, {})
    <3>1. e.size <= Len(e.mem)
      BY <2>2, <2>3, <2>4
    <3>2. \A y \in Conns : Listed(e, y) <=> e.st[y] \in Open
      BY <1>1, <2>4, <2>9 DEF Vector
    <3>3. \A y \in Conns : e.idle[y] > 0 => e.st[y] \in Open
      BY <1>1, <2>4 DEF Vector
    <3>4. QED
      BY <2>4, <2>8, <3>1, <3>2, <3>3 DEF Vector
  <2>11. QED
    BY <1>1, <2>4, <2>5, <2>10, FrameSame DEF Sound, Timers
<1>6. QED
  BY <1>4, <1>5

LEMMA DetachedKeeps ==
    ASSUME NEW d, NEW x \in Conns, Sound(d, {x}), NEW e, e = Detached(d, x)
    PROVE  /\ Sound(e, {x}) /\ Frame(d, e, x) /\ ~Listed(e, x)
           /\ e.st = d.st /\ e.troubles = d.troubles /\ e.idle = d.idle
           /\ Len(e.mem) = Len(d.mem)
<1>1. d \in Managers /\ Vector(d, {x}) /\ Timers(d) /\ d.size <= Len(d.mem)
  BY DEF Sound, Vector
<1>2. \A y : y \in Range(Active(d)) <=> Listed(d, y)
  BY <1>1, ActiveIs
<1>3. d.size \in 0..3 /\ d.mem \in Seq(Conns)
  BY <1>1, Fields
<1>4. CASE x \notin Range(Active(d))
  <2>1. e = d
    BY <1>4, Zenon DEF Detached
  <2>2. QED
    BY <1>2, <1>4, <2>1, FrameSame
<1>5. CASE x \in Range(Active(d))
  <2> DEFINE at == CHOOSE i \in 1..d.size : d.mem[i] = x
             m == [i \in DOMAIN d.mem |-> IF at <= i /\ i < d.size THEN d.mem[i + 1] ELSE d.mem[i]]
             s == d.size - 1
  <2>1. e = [d EXCEPT !.size = s, !.mem = m]
    BY <1>5, Zenon DEF Detached
  <2>2. at \in 1..d.size /\ d.mem[at] = x
    BY <1>2, <1>5 DEF Listed
  <2> HIDE DEF at
  <2>3. s \in 0..3 /\ d.size = s + 1
    BY <1>3, <2>2
  <2>4. Len(d.mem) \in Nat /\ DOMAIN d.mem = 1..Len(d.mem) /\ d.size <= Len(d.mem)
    BY <1>1, <1>3
  <2>5. m \in [1..Len(d.mem) -> Conns]
    <3> SUFFICES ASSUME NEW i \in 1..Len(d.mem)
                 PROVE  (IF at <= i /\ i < d.size THEN d.mem[i + 1] ELSE d.mem[i]) \in Conns
      BY <2>4
    <3>1. d.mem[i] \in Conns
      BY <1>3, <2>4
    <3>2. ASSUME i < d.size PROVE d.mem[i + 1] \in Conns
      <4>1. i + 1 \in 1..Len(d.mem)
        BY <1>3, <2>4, <3>2
      <4>2. QED
        BY <1>3, <4>1
    <3>3. QED
      BY <3>1, <3>2
  <2>6. m \in Seq(Conns) /\ Len(m) = Len(d.mem)
    BY <2>4, <2>5
  <2>7. \A i \in 1..s : m[i] = IF at <= i THEN d.mem[i + 1] ELSE d.mem[i]
    <3> SUFFICES ASSUME NEW i \in 1..s PROVE m[i] = IF at <= i THEN d.mem[i + 1] ELSE d.mem[i]
      OBVIOUS
    <3>1. i \in DOMAIN d.mem /\ i < d.size
      BY <1>3, <2>3, <2>4
    <3>2. QED
      BY <3>1
  <2> HIDE DEF m, s
  <2>8. /\ e.mem = m /\ e.size = s /\ e.st = d.st /\ e.troubles = d.troubles
        /\ e.events = d.events /\ e.due = d.due /\ e.wait = d.wait /\ e.idle = d.idle
        /\ e.paused = d.paused /\ e.lastPause = d.lastPause /\ e.again = d.again
    BY <1>1, <2>1 DEF Managers
  <2>9. e \in Managers
    BY <1>1, <2>1, <2>3, <2>6 DEF Managers
  <2>10. \A i \in 1..s : \E p \in 1..d.size :
            p = (IF at <= i THEN i + 1 ELSE i) /\ m[i] = d.mem[p] /\ p # at
    BY <1>3, <2>2, <2>3, <2>7
  <2>11. \A i, j \in 1..d.size : d.mem[i] = d.mem[j] => i = j
    BY <1>1 DEF Vector
  <2>12. ASSUME NEW i \in 1..s, NEW j \in 1..s, m[i] = m[j] PROVE i = j
    <3>1. PICK p \in 1..d.size : p = (IF at <= i THEN i + 1 ELSE i) /\ m[i] = d.mem[p]
      BY <2>10
    <3>2. PICK q \in 1..d.size : q = (IF at <= j THEN j + 1 ELSE j) /\ m[j] = d.mem[q]
      BY <2>10
    <3>3. p = q
      BY <2>11, <2>12, <3>1, <3>2
    <3>4. QED
      BY <2>2, <3>1, <3>2, <3>3
  <2>13. ~Listed(e, x)
    BY <2>2, <2>8, <2>10, <2>11 DEF Listed
  <2>14. ASSUME NEW y, y # x PROVE Listed(e, y) <=> Listed(d, y)
    <3>1. ASSUME Listed(e, y) PROVE Listed(d, y)
      BY <2>8, <2>10, <3>1 DEF Listed
    <3>2. ASSUME Listed(d, y) PROVE Listed(e, y)
      <4>1. PICK p \in 1..d.size : d.mem[p] = y
        BY <3>2 DEF Listed
      <4>2. p # at
        BY <2>2, <2>14, <4>1
      <4>3. CASE p < at
        <5>1. p \in 1..s /\ ~(at <= p)
          BY <1>3, <2>2, <2>3, <4>3
        <5>2. m[p] = y
          BY <2>7, <4>1, <5>1
        <5>3. QED
          BY <2>8, <5>1, <5>2 DEF Listed
      <4>4. CASE p > at
        <5>1. p - 1 \in 1..s /\ at <= p - 1 /\ p - 1 + 1 = p
          BY <1>3, <2>2, <2>3, <4>4
        <5>2. m[p - 1] = y
          BY <2>7, <4>1, <5>1
        <5>3. QED
          BY <2>8, <5>1, <5>2 DEF Listed
      <4>5. QED
        BY <2>2, <4>2, <4>3, <4>4
    <3>3. QED
      BY <3>1, <3>2
  <2>15. Vector(e, {x})
    <3>1. e.size <= Len(e.mem)
      BY <2>3, <2>4, <2>6, <2>8
    <3>2. \A y \in Conns \ {x} : Listed(e, y) <=> e.st[y] \in Open
      BY <1>1, <2>8, <2>14 DEF Vector
    <3>3. \A y \in Conns \ {x} : e.idle[y] > 0 => e.st[y] \in Open
      BY <1>1, <2>8 DEF Vector
    <3>4. QED
      BY <2>8, <2>12, <3>1, <3>2, <3>3 DEF Vector
  <2>16. Sound(e, {x})
    BY <1>1, <2>8, <2>9, <2>15 DEF Sound, Timers
  <2>17. QED
    BY <2>6, <2>8, <2>13, <2>16, FrameSame
<1>6. QED
  BY <1>4, <1>5

----------------------------------------------------------------------------
(* What the handlers of one connection keep: a sound manager, and what is not
   the connection's. *)
Handles(d, e, x) == Sound(e, {}) /\ Frame(d, e, x)

LEMMA HandlesTrans ==
    ASSUME NEW d, NEW e, NEW f, NEW x \in Conns, Frame(d, e, x), Handles(e, f, x)
    PROVE  Handles(d, f, x)
BY FrameTrans DEF Handles

(* A connection that is not in the vector is closed. *)
LEMMA Settled ==
    ASSUME NEW e, NEW x \in Conns, Sound(e, {x}), ~Listed(e, x),
           e.st[x] \notin Open, e.idle[x] = 0
    PROVE  Sound(e, {})
BY DEF Sound, Vector

LEMMA RetryingKeeps ==
    ASSUME NEW d, NEW x \in Conns, Sound(d, {x}), ~Listed(d, x), d.idle[x] = 0,
           NEW reset \in BOOLEAN, NEW e, e = Retrying(d, x, reset)
    PROVE  /\ Handles(d, e, x) /\ e.troubles = d.troubles /\ e.mem = d.mem
           /\ e.st[x] = "Reconnecting"
<1> DEFINE st == [d.st EXCEPT ![x] = "Reconnecting"]
           wt == [d.wait EXCEPT ![x] = reset]
           b == [d EXCEPT !.st = st, !.wait = wt]
<1>1. d \in Managers
  BY DEF Sound
<1>2. d.st \in [Conns -> States] /\ d.wait \in [Conns -> BOOLEAN]
  BY <1>1, Fields
<1>3. /\ st \in [Conns -> States] /\ st[x] = "Reconnecting"
      /\ \A y \in Conns \ {x} : st[y] = d.st[y]
  BY <1>2 DEF States
<1>4. wt \in [Conns -> BOOLEAN]
  BY <1>2
<1>5. e = IF reset \/ x = "generic" THEN Started(b, x) ELSE b
  BY DEF Retrying
<1> HIDE DEF st, wt
<1>6. /\ b.st = st /\ b.idle = d.idle /\ b.mem = d.mem /\ b.size = d.size
      /\ b.troubles = d.troubles /\ b.events = d.events /\ b.due = d.due
      /\ b.paused = d.paused /\ b.lastPause = d.lastPause /\ b.again = d.again
  BY <1>1 DEF Managers
<1>7. b \in Managers
  BY <1>1, <1>3, <1>4 DEF Managers
<1> HIDE DEF b
<1>8. Sound(b, {x})
  BY <1>3, <1>6, <1>7 DEF Sound, Vector, Timers, Listed
<1>9. ~Listed(b, x) /\ b.st[x] \notin Open /\ b.idle[x] = 0
  BY <1>3, <1>6 DEF Listed, Open
<1>10. Sound(b, {})
  BY <1>8, <1>9, Settled
<1>11. Frame(d, b, x)
  BY <1>6, FrameSame
<1>12. CASE reset \/ x = "generic"
  <2>1. e = Started(b, x)
    BY <1>5, <1>12
  <2>2. /\ Sound(e, {}) /\ Frame(b, e, x) /\ e.mem = b.mem /\ e.troubles = b.troubles
        /\ e.st = b.st
    BY <1>10, <2>1, StartedKeeps
  <2>3. QED
    BY <1>3, <1>6, <1>11, <2>2, FrameTrans DEF Handles
<1>13. CASE ~(reset \/ x = "generic")
  BY <1>3, <1>5, <1>6, <1>10, <1>11, <1>13 DEF Handles
<1>14. QED
  BY <1>12, <1>13

(* onConnectionClosed. *)
LEMMA ClosedKeeps ==
    ASSUME NEW d, NEW S, Sound(d, S), NEW x \in Conns, NEW e, e = onConnectionClosed(d, x)
    PROVE  /\ Sound(e, S) /\ Frame(d, e, x)
           /\ e.st = d.st /\ e.troubles = d.troubles /\ e.mem = d.mem /\ e.size = d.size
           /\ e.idle = d.idle
<1>1. d \in Managers
  BY DEF Sound
<1>2. CASE x # "push"
  <2>1. e = d
    BY <1>2, Zenon DEF onConnectionClosed
  <2>2. QED
    BY <2>1, FrameSame
<1>3. CASE x = "push"
  <2> DEFINE a == PushPeriod - PushRetry
  <2>1. e = [d EXCEPT !.pinging = FALSE, !.pushAge = a]
    BY <1>3, Zenon DEF onConnectionClosed
  <2>2. a \in 0..PushCap
    BY Bounds
  <2> HIDE DEF a
  <2>3. /\ e.st = d.st /\ e.idle = d.idle /\ e.mem = d.mem /\ e.size = d.size
        /\ e.troubles = d.troubles /\ e.events = d.events /\ e.due = d.due
        /\ e.paused = d.paused /\ e.lastPause = d.lastPause /\ e.again = d.again
    BY <1>1, <2>1 DEF Managers
  <2>4. e \in Managers
    BY <1>1, <2>1, <2>2 DEF Managers
  <2>5. QED
    BY <2>3, <2>4, Untouched, FrameSame
<1>4. QED
  BY <1>2, <1>3

LEMMA CloseKeeps ==
    ASSUME NEW d, NEW x \in Conns, Sound(d, {x}), NEW reset \in BOOLEAN,
           NEW e \in closeSocket(d, x, reset)
    PROVE  /\ Handles(d, e, x) /\ e.troubles = d.troubles /\ Len(e.mem) = Len(d.mem)
           /\ e.st[x] = (IF d.st[x] = "Suspended" THEN "Suspended" ELSE "Reconnecting")
<1> DEFINE id == [d.idle EXCEPT ![x] = 0]
           d1 == [d EXCEPT !.idle = id]
           d2 == Detached(d1, x)
           d3 == Stopped(d2, x)
           hd == d3.heard /\ x # "push"
           d4 == [d3 EXCEPT !.heard = hd]
           d5 == onConnectionClosed(d4, x)
<1>1. e = IF d2.st[x] = "Suspended" THEN d5 ELSE Retrying(d5, x, reset)
  BY Zenon DEF closeSocket, onDisconnected
<1>2. d \in Managers
  BY DEF Sound
<1>3. d.idle \in [Conns -> 0..(IdleLimit + 1)]
  BY <1>2, Fields
<1>4. /\ id \in [Conns -> 0..(IdleLimit + 1)] /\ id[x] = 0
      /\ \A y \in Conns \ {x} : id[y] = d.idle[y]
  BY <1>3, Bounds
<1> HIDE DEF id
<1>5. /\ d1.st = d.st /\ d1.idle = id /\ d1.mem = d.mem /\ d1.size = d.size
      /\ d1.troubles = d.troubles /\ d1.events = d.events /\ d1.due = d.due
      /\ d1.paused = d.paused /\ d1.lastPause = d.lastPause /\ d1.again = d.again
  BY <1>2 DEF Managers
<1>6. d1 \in Managers
  BY <1>2, <1>4 DEF Managers
<1> HIDE DEF d1
<1>7. Sound(d1, {x}) /\ Frame(d, d1, x)
  BY <1>4, <1>5, <1>6, FrameSame DEF Sound, Vector, Timers, Listed
<1>8. /\ Sound(d2, {x}) /\ Frame(d1, d2, x) /\ ~Listed(d2, x) /\ d2.st = d1.st
      /\ d2.troubles = d1.troubles /\ d2.idle = d1.idle /\ Len(d2.mem) = Len(d1.mem)
  BY <1>7, DetachedKeeps
<1> HIDE DEF d2
<1>9. /\ Sound(d3, {x}) /\ Frame(d2, d3, x) /\ d3.st = d2.st /\ d3.idle = d2.idle
      /\ d3.mem = d2.mem /\ d3.size = d2.size /\ d3.troubles = d2.troubles
  BY <1>8, StoppedKeeps
<1> HIDE DEF d3
<1>10. d3 \in Managers
  BY <1>9 DEF Sound
<1>11. hd \in BOOLEAN
  BY <1>10, Fields
<1> HIDE DEF hd
<1>12. /\ d4.st = d3.st /\ d4.idle = d3.idle /\ d4.mem = d3.mem /\ d4.size = d3.size
       /\ d4.troubles = d3.troubles /\ d4.events = d3.events /\ d4.due = d3.due
       /\ d4.paused = d3.paused /\ d4.lastPause = d3.lastPause /\ d4.again = d3.again
  BY <1>10 DEF Managers
<1>13. d4 \in Managers
  BY <1>10, <1>11 DEF Managers
<1> HIDE DEF d4
<1>14. Sound(d4, {x}) /\ Frame(d3, d4, x)
  BY <1>9, <1>12, <1>13, Untouched, FrameSame
<1>15. /\ Sound(d5, {x}) /\ Frame(d4, d5, x) /\ d5.st = d4.st /\ d5.troubles = d4.troubles
       /\ d5.mem = d4.mem /\ d5.size = d4.size /\ d5.idle = d4.idle
  BY <1>14, ClosedKeeps
<1> HIDE DEF d5
<1>16. ~Listed(d5, x) /\ d5.idle[x] = 0
  BY <1>4, <1>5, <1>8, <1>9, <1>12, <1>15 DEF Listed
<1>17. Frame(d, d5, x)
  BY <1>7, <1>8, <1>9, <1>14, <1>15, FrameTrans
<1>18. Len(d5.mem) = Len(d.mem) /\ d5.troubles = d.troubles /\ d5.st = d.st /\ d2.st = d.st
  BY <1>5, <1>8, <1>9, <1>12, <1>15
<1>19. CASE d.st[x] = "Suspended"
  <2>1. e = d5
    BY <1>1, <1>18, <1>19
  <2>2. d5.st[x] \notin Open
    BY <1>18, <1>19 DEF Open
  <2>3. Sound(d5, {})
    BY <1>15, <1>16, <2>2, Settled
  <2>4. QED
    BY <1>17, <1>18, <1>19, <2>1, <2>3 DEF Handles
<1>20. CASE d.st[x] # "Suspended"
  <2>1. e = Retrying(d5, x, reset)
    BY <1>1, <1>18, <1>20
  <2>2. /\ Handles(d5, e, x) /\ e.troubles = d5.troubles /\ e.mem = d5.mem
        /\ e.st[x] = "Reconnecting"
    BY <1>15, <1>16, <2>1, RetryingKeeps
  <2>3. QED
    BY <1>17, <1>18, <1>20, <2>2, HandlesTrans
<1>21. QED
  BY <1>19, <1>20

LEMMA Loosened ==
    ASSUME NEW d, NEW x, Sound(d, {})
    PROVE  Sound(d, {x})
BY DEF Sound, Vector

LEMMA OpenedKeeps ==
    ASSUME NEW d, NEW x \in Conns, Sound(d, {}), NEW e, e = Opened(d, x)
    PROVE  Handles(d, e, x) /\ e.troubles = d.troubles /\ x \notin Range(e.events)
<1> DEFINE d1 == Stopped(d, x)
           st == [d1.st EXCEPT ![x] = "Connecting"]
           id == [d1.idle EXCEPT ![x] = 0]
           d2 == [d1 EXCEPT !.st = st, !.idle = id]
<1>1. e = Attached(d2, x)
  BY Zenon DEF Opened
<1>2. /\ Sound(d1, {x}) /\ Frame(d, d1, x) /\ x \notin Range(d1.events)
      /\ d1.troubles = d.troubles
  <2>1. Sound(d, {x})
    BY Loosened
  <2>2. QED
    BY <2>1, StoppedKeeps
<1> HIDE DEF d1
<1>3. d1 \in Managers
  BY <1>2 DEF Sound
<1>4. d1.st \in [Conns -> States] /\ d1.idle \in [Conns -> 0..(IdleLimit + 1)]
  BY <1>3, Fields
<1>5. /\ st \in [Conns -> States] /\ st[x] = "Connecting"
      /\ \A y \in Conns \ {x} : st[y] = d1.st[y]
  BY <1>4 DEF States
<1>6. id \in [Conns -> 0..(IdleLimit + 1)] /\ \A y \in Conns \ {x} : id[y] = d1.idle[y]
  BY <1>4, Bounds
<1> HIDE DEF st, id
<1>7. /\ d2.st = st /\ d2.idle = id /\ d2.mem = d1.mem /\ d2.size = d1.size
      /\ d2.troubles = d1.troubles /\ d2.events = d1.events /\ d2.due = d1.due
      /\ d2.paused = d1.paused /\ d2.lastPause = d1.lastPause /\ d2.again = d1.again
  BY <1>3 DEF Managers
<1>8. d2 \in Managers
  BY <1>3, <1>5, <1>6 DEF Managers
<1> HIDE DEF d2
<1>9. Sound(d2, {x}) /\ Frame(d1, d2, x)
  BY <1>2, <1>5, <1>6, <1>7, <1>8, FrameSame DEF Sound, Vector, Timers, Listed
<1>10. d2.st[x] \in Open
  BY <1>5, <1>7 DEF Open
<1>11. Sound(e, {}) /\ Frame(d2, e, x) /\ e.troubles = d2.troubles /\ e.events = d2.events
  BY <1>1, <1>9, <1>10, AttachedKeeps
<1>12. QED
  BY <1>2, <1>7, <1>9, <1>11, FrameTrans DEF Handles

(* connect, which may fail at once. *)
LEMMA ConnectKeeps ==
    ASSUME NEW d, NEW x \in Conns, Sound(d, {}), NEW e \in connect(d, x)
    PROVE  Handles(d, e, x)
<1>1. CASE d.wait[x] \/ d.st[x] \in Open
  <2>1. e = d
    BY <1>1, Zenon DEF connect
  <2>2. QED
    BY <2>1, FrameSame DEF Handles
<1>2. CASE ~(d.wait[x] \/ d.st[x] \in Open)
  <2> DEFINE f == Opened(d, x)
             t == f.troubles + 1
             g == [f EXCEPT !.troubles = t]
  <2>1. e = f \/ (d.troubles # MaxTroubles /\ e \in closeSocket(g, x, FALSE))
    BY <1>2, Zenon DEF connect
  <2>2. Handles(d, f, x) /\ f.troubles = d.troubles
    BY OpenedKeeps
  <2> HIDE DEF f
  <2>3. CASE e = f
    BY <2>2, <2>3
  <2>4. CASE d.troubles # MaxTroubles /\ e \in closeSocket(g, x, FALSE)
    <3>1. d \in Managers /\ f \in Managers
      BY <2>2 DEF Sound, Handles
    <3>2. t \in 0..MaxTroubles
      BY <2>2, <2>4, <3>1, Bounds, Fields
    <3> HIDE DEF t
    <3>3. /\ g.st = f.st /\ g.idle = f.idle /\ g.mem = f.mem /\ g.size = f.size
          /\ g.events = f.events /\ g.due = f.due
          /\ g.paused = f.paused /\ g.lastPause = f.lastPause /\ g.again = f.again
      BY <3>1 DEF Managers
    <3>4. g \in Managers
      BY <3>1, <3>2 DEF Managers
    <3> HIDE DEF g
    <3>5. Sound(g, {x}) /\ Frame(f, g, x)
      BY <2>2, <3>3, <3>4, Untouched, FrameSame, Loosened DEF Handles
    <3>6. Handles(g, e, x)
      BY <2>4, <3>5, CloseKeeps
    <3>7. QED
      BY <2>2, <3>5, <3>6, FrameTrans, HandlesTrans DEF Handles
  <2>5. QED
    BY <2>1, <2>3, <2>4
<1>3. QED
  BY <1>1, <1>2

LEMMA SuspendKeeps ==
    ASSUME NEW d, NEW x \in Conns, Sound(d, {}), NEW e \in suspendConnection(d, x)
    PROVE  Handles(d, e, x)
<1> DEFINE d1 == Stopped(d, x)
           wt == [d1.wait EXCEPT ![x] = FALSE]
           d2 == [d1 EXCEPT !.wait = wt]
           st == [d2.st EXCEPT ![x] = "Suspended"]
           d3 == [d2 EXCEPT !.st = st]
<1>1. \/ e = d2
      \/ \E f \in closeSocket(d3, x, FALSE) : e = onConnectionClosed(f, x)
  <2>1. CASE d.st[x] \in {"Idle", "Suspended"}
    BY <2>1, Zenon DEF suspendConnection
  <2>2. CASE ~(d.st[x] \in {"Idle", "Suspended"})
    <3>1. e \in UNION {{onConnectionClosed(f, x) :
                           f \in closeSocket([g EXCEPT !.st[x] = "Suspended"], x, FALSE)} : g \in {d2}}
      BY <2>2, Zenon DEF suspendConnection
    <3> HIDE DEF d2
    <3>2. QED
      BY <3>1, Zenon
  <2>3. QED
    BY <2>1, <2>2
<1>2. Sound(d1, {}) /\ Frame(d, d1, x)
  BY StoppedKeeps
<1> HIDE DEF d1
<1>3. d1 \in Managers
  BY <1>2 DEF Sound
<1>4. d1.wait \in [Conns -> BOOLEAN]
  BY <1>3, Fields
<1>5. wt \in [Conns -> BOOLEAN]
  BY <1>4
<1> HIDE DEF wt
<1>6. /\ d2.st = d1.st /\ d2.idle = d1.idle /\ d2.mem = d1.mem /\ d2.size = d1.size
      /\ d2.events = d1.events /\ d2.due = d1.due
      /\ d2.paused = d1.paused /\ d2.lastPause = d1.lastPause /\ d2.again = d1.again
  BY <1>3 DEF Managers
<1>7. d2 \in Managers
  BY <1>3, <1>5 DEF Managers
<1> HIDE DEF d2
<1>8. Sound(d2, {}) /\ Frame(d1, d2, x)
  BY <1>2, <1>6, <1>7, Untouched, FrameSame
<1>9. Handles(d, d2, x)
  BY <1>2, <1>8, FrameTrans DEF Handles
<1>10. d2.st \in [Conns -> States]
  BY <1>7, Fields
<1>11. st \in [Conns -> States] /\ \A y \in Conns \ {x} : st[y] = d2.st[y]
  BY <1>10 DEF States
<1> HIDE DEF st
<1>12. /\ d3.st = st /\ d3.idle = d2.idle /\ d3.mem = d2.mem /\ d3.size = d2.size
       /\ d3.events = d2.events /\ d3.due = d2.due
       /\ d3.paused = d2.paused /\ d3.lastPause = d2.lastPause /\ d3.again = d2.again
  BY <1>7 DEF Managers
<1>13. d3 \in Managers
  BY <1>7, <1>11 DEF Managers
<1> HIDE DEF d3
<1>14. Sound(d3, {x}) /\ Frame(d2, d3, x)
  BY <1>8, <1>11, <1>12, <1>13, FrameSame DEF Sound, Vector, Timers, Listed
<1>15. ASSUME NEW f \in closeSocket(d3, x, FALSE), e = onConnectionClosed(f, x)
       PROVE  Handles(d, e, x)
  <2>1. Handles(d3, f, x)
    BY <1>14, CloseKeeps
  <2>2. Sound(e, {}) /\ Frame(f, e, x)
    BY <1>15, <2>1, ClosedKeeps DEF Handles
  <2>3. QED
    BY <1>9, <1>14, <2>1, <2>2, FrameTrans DEF Handles
<1>16. QED
  BY <1>1, <1>9, <1>15

LEMMA PingKeeps ==
    ASSUME NEW d, Sound(d, {}), NEW e \in sendPing(d)
    PROVE  Handles(d, e, "push")
<1>1. "push" \in Conns
  BY DEF Conns
<1>2. PICK f \in connect(d, "push") :
         \/ e = [f EXCEPT !.pinging = TRUE]
         \/ e \in connect([f EXCEPT !.pinging = TRUE], "push")
  BY Zenon DEF sendPing
<1>3. Handles(d, f, "push")
  BY <1>1, ConnectKeeps
<1> DEFINE g == [f EXCEPT !.pinging = TRUE]
<1>4. f \in Managers
  BY <1>3 DEF Handles, Sound
<1>5. /\ g.st = f.st /\ g.idle = f.idle /\ g.mem = f.mem /\ g.size = f.size
      /\ g.events = f.events /\ g.due = f.due
      /\ g.paused = f.paused /\ g.lastPause = f.lastPause /\ g.again = f.again
  BY <1>4 DEF Managers
<1>6. g \in Managers
  BY <1>4 DEF Managers
<1>7. e = g \/ e \in connect(g, "push")
  BY <1>2
<1> HIDE DEF g
<1>8. Handles(f, g, "push")
  BY <1>3, <1>5, <1>6, Untouched, FrameSame DEF Handles
<1>9. Handles(d, g, "push")
  BY <1>1, <1>3, <1>8, HandlesTrans DEF Handles
<1>10. ASSUME e \in connect(g, "push") PROVE Handles(g, e, "push")
  BY <1>1, <1>8, <1>10, ConnectKeeps DEF Handles
<1>11. QED
  BY <1>1, <1>7, <1>9, <1>10, HandlesTrans DEF Handles

----------------------------------------------------------------------------
(* What every step of the thread keeps: a sound manager, which closes nothing
   twice and does not fall asleep again. *)
Carries(d, e) ==
    /\ Sound(e, {})
    /\ e.again => d.again
    /\ Awake(d) => Awake(e)

LEMMA CarriesTrans ==
    ASSUME NEW d, NEW e, NEW f, Carries(d, e), Carries(e, f)
    PROVE  Carries(d, f)
BY Zenon DEF Carries

LEMMA HandlesCarries ==
    ASSUME NEW d, NEW e, NEW x, Handles(d, e, x)
    PROVE  Carries(d, e)
<1>1. Sound(e, {}) /\ e.paused = d.paused /\ e.lastPause = d.lastPause /\ e.again = d.again
  BY Zenon DEF Handles, Frame
<1>2. QED
  BY <1>1, Zenon DEF Carries, Awake

(* Connections stay as open as they are, and time passes for open ones alone. *)
LEMMA Quieted ==
    ASSUME NEW d, Sound(d, {}), NEW e \in Managers,
           \A y \in Conns : e.st[y] \in Open <=> d.st[y] \in Open,
           \A y \in Conns : e.idle[y] > 0 => d.idle[y] > 0 \/ d.st[y] \in Open,
           e.mem = d.mem, e.size = d.size, e.events = d.events, e.due = d.due
    PROVE  Sound(e, {})
BY DEF Sound, Vector, Timers, Listed

(* Nothing but the members of the manager that are not about connections. *)
LEMMA MembersCarry ==
    ASSUME NEW d, Sound(d, {}), NEW e \in Managers,
           e.st = d.st, e.idle = d.idle, e.mem = d.mem, e.size = d.size,
           e.events = d.events, e.due = d.due, e.again = d.again,
           Awake(d) => Awake(e)
    PROVE  Carries(d, e)
<1>1. Sound(e, {})
  BY Untouched
<1>2. QED
  BY <1>1, Zenon DEF Carries

LEMMA Zeros == 0 \in 0..PushCap /\ 0 \in (-1)..SleepTimeout /\ 0 \in 0..(IdleLimit + 1)
BY Bounds

LEMMA FailedKeeps ==
    ASSUME NEW d, Sound(d, {}), NEW x \in Conns, d.troubles < MaxTroubles, NEW e \in Failed(d, x)
    PROVE  Carries(d, e)
<1> DEFINE t == d.troubles + 1
           f == [d EXCEPT !.troubles = t]
<1>1. PICK reset \in BOOLEAN : e \in closeSocket(f, x, reset)
  BY Zenon DEF Failed
<1>2. d \in Managers
  BY DEF Sound
<1>3. t \in 0..MaxTroubles
  BY <1>2, Fields, Bounds
<1> HIDE DEF t
<1>4. f \in Managers
  BY <1>2, <1>3 DEF Managers
<1>5. /\ f.st = d.st /\ f.idle = d.idle /\ f.mem = d.mem /\ f.size = d.size
      /\ f.events = d.events /\ f.due = d.due /\ f.again = d.again
      /\ f.paused = d.paused /\ f.lastPause = d.lastPause
  BY <1>2 DEF Managers
<1> HIDE DEF f
<1>6. Carries(d, f)
  BY <1>4, <1>5, MembersCarry DEF Awake
<1>7. Sound(f, {x})
  BY <1>6, Loosened DEF Carries
<1>8. Handles(f, e, x)
  BY <1>1, <1>7, CloseKeeps
<1>9. QED
  BY <1>6, <1>8, HandlesCarries, CarriesTrans

LEMMA EstablishedKeeps ==
    ASSUME NEW d, Sound(d, {}), NEW x \in Conns, d.st[x] = "Connecting", NEW e \in Established(d, x)
    PROVE  Carries(d, e)
<1> DEFINE st == [d.st EXCEPT ![x] = "Connected"]
           id == [d.idle EXCEPT ![x] = 0]
           f == [d EXCEPT !.st = st, !.idle = id]
<1>1. e \in onConnectionConnected(f, x)
  BY Zenon DEF Established
<1>2. d \in Managers
  BY DEF Sound
<1>3. d.st \in [Conns -> States] /\ d.idle \in [Conns -> 0..(IdleLimit + 1)]
  BY <1>2, Fields
<1>4. st \in [Conns -> States] /\ \A y \in Conns : st[y] \in Open <=> d.st[y] \in Open
  BY <1>3 DEF States, Open
<1>5. id \in [Conns -> 0..(IdleLimit + 1)] /\ \A y \in Conns : id[y] > 0 => d.idle[y] > 0
  BY <1>3, Bounds
<1> HIDE DEF st, id
<1>6. f \in Managers
  BY <1>2, <1>4, <1>5 DEF Managers
<1>7. /\ f.st = st /\ f.idle = id /\ f.mem = d.mem /\ f.size = d.size
      /\ f.events = d.events /\ f.due = d.due /\ f.again = d.again
      /\ f.paused = d.paused /\ f.lastPause = d.lastPause
  BY <1>2 DEF Managers
<1> HIDE DEF f
<1>8. Sound(f, {})
  BY <1>4, <1>5, <1>6, <1>7, Quieted
<1>9. Carries(d, f)
  BY <1>7, <1>8 DEF Carries, Awake
<1>10. CASE x = "push"
  <2> DEFINE g == [f EXCEPT !.pinging = FALSE, !.pushAge = 0]
  <2>1. e \in sendPing(g)
    BY <1>1, <1>10, Zenon DEF onConnectionConnected
  <2>2. g \in Managers
    BY <1>6, Zeros DEF Managers
  <2>3. /\ g.st = f.st /\ g.idle = f.idle /\ g.mem = f.mem /\ g.size = f.size
        /\ g.events = f.events /\ g.due = f.due /\ g.again = f.again
        /\ g.paused = f.paused /\ g.lastPause = f.lastPause
    BY <1>6 DEF Managers
  <2> HIDE DEF g
  <2>4. Carries(f, g)
    BY <1>8, <2>2, <2>3, MembersCarry DEF Awake
  <2>5. Carries(g, e)
    BY <2>1, <2>4, PingKeeps, HandlesCarries DEF Carries
  <2>6. QED
    BY <1>9, <2>4, <2>5, CarriesTrans
<1>11. CASE x # "push" /\ ~(f.paused /\ f.lastPause # None)
  <2>1. e = f
    BY <1>1, <1>11, Zenon DEF onConnectionConnected
  <2>2. QED
    BY <1>9, <2>1
<1>12. CASE x # "push" /\ f.paused /\ f.lastPause # None
  <2>1. e = [f EXCEPT !.lastPause = 0]
    BY <1>1, <1>12, Zenon DEF onConnectionConnected
  <2>2. e \in Managers
    BY <1>6, <2>1, Zeros DEF Managers
  <2>3. /\ e.st = f.st /\ e.idle = f.idle /\ e.mem = f.mem /\ e.size = f.size
        /\ e.events = f.events /\ e.due = f.due /\ e.again = f.again
    BY <1>6, <2>1 DEF Managers
  <2>4. Carries(f, e)
    BY <1>8, <1>12, <2>2, <2>3, MembersCarry DEF Awake
  <2>5. QED
    BY <1>9, <2>4, CarriesTrans
<1>13. QED
  BY <1>10, <1>11, <1>12

LEMMA HeardKeeps ==
    ASSUME NEW d, Sound(d, {}), NEW x \in Conns, NEW e, e = Heard(d, x)
    PROVE  /\ Carries(d, e)
           /\ e.paused = d.paused /\ e.lastPause = d.lastPause
<1> DEFINE id == [d.idle EXCEPT ![x] = 0]
           hd == d.heard \/ x = "push"
<1>1. e = [d EXCEPT !.idle = id, !.heard = hd]
  BY Zenon DEF Heard
<1>2. d \in Managers
  BY DEF Sound
<1>3. d.idle \in [Conns -> 0..(IdleLimit + 1)]
  BY <1>2, Fields
<1>4. id \in [Conns -> 0..(IdleLimit + 1)] /\ \A y \in Conns : id[y] > 0 => d.idle[y] > 0
  BY <1>3, Bounds
<1>5. hd \in BOOLEAN
  BY <1>2, Fields
<1> HIDE DEF id, hd
<1>6. e \in Managers
  BY <1>1, <1>2, <1>4, <1>5 DEF Managers
<1>7. /\ e.st = d.st /\ e.idle = id /\ e.mem = d.mem /\ e.size = d.size
      /\ e.events = d.events /\ e.due = d.due /\ e.again = d.again
      /\ e.paused = d.paused /\ e.lastPause = d.lastPause
  BY <1>1, <1>2 DEF Managers
<1>8. Sound(e, {})
  BY <1>4, <1>6, <1>7, Quieted
<1>9. QED
  BY <1>7, <1>8 DEF Carries, Awake

(* What keeps the network awake may change at any time. *)
LEMMA BusyKeeps ==
    ASSUME NEW d, Sound(d, {}), NEW by \in SUBSET {"generic", "download"},
           NEW e, e = [d EXCEPT !.busy = by]
    PROVE  Carries(d, e)
<1>1. d \in Managers
  BY DEF Sound
<1>2. e \in Managers
  BY <1>1 DEF Managers
<1>3. /\ e.st = d.st /\ e.idle = d.idle /\ e.mem = d.mem /\ e.size = d.size
      /\ e.events = d.events /\ e.due = d.due /\ e.again = d.again
      /\ e.paused = d.paused /\ e.lastPause = d.lastPause
  BY <1>1 DEF Managers
<1>4. QED
  BY <1>2, <1>3, MembersCarry DEF Awake

LEMMA ReceivedKeeps ==
    ASSUME NEW d, Sound(d, {}), NEW x \in Conns, NEW e \in Received(d, x)
    PROVE  Carries(d, e)
<1>1. PICK f : f = Heard(d, x)
  OBVIOUS
<1> DEFINE by == f.busy \ {x}
           g == [f EXCEPT !.busy = by]
           h == [f EXCEPT !.pinging = FALSE]
<1>2. e = f \/ e = g \/ e = h
  BY <1>1, Zenon DEF Received
<1>3. Carries(d, f) /\ Sound(f, {}) /\ f \in Managers
  BY <1>1, HeardKeeps DEF Carries, Sound
<1>4. by \in SUBSET {"generic", "download"}
  BY <1>3, Fields
<1> HIDE DEF by
<1>5. h \in Managers
  BY <1>3 DEF Managers
<1>6. /\ h.st = f.st /\ h.idle = f.idle /\ h.mem = f.mem /\ h.size = f.size
      /\ h.events = f.events /\ h.due = f.due /\ h.again = f.again
      /\ h.paused = f.paused /\ h.lastPause = f.lastPause
  BY <1>3 DEF Managers
<1>7. Carries(f, g)
  BY <1>3, <1>4, BusyKeeps
<1> HIDE DEF g, h
<1>8. Carries(f, h)
  BY <1>3, <1>5, <1>6, MembersCarry DEF Awake
<1>9. QED
  BY <1>2, <1>3, <1>7, <1>8, CarriesTrans

LEMMA EventKeeps ==
    ASSUME NEW d, Sound(d, {}), NEW x \in Conns, NEW e \in OnEvent(d, x)
    PROVE  Carries(d, e)
<1>1. \/ d.troubles < MaxTroubles /\ e \in Failed(d, x)
      \/ d.st[x] = "Connecting" /\ e \in Established(d, x)
      \/ e \in Received(d, x)
  BY Zenon DEF OnEvent
<1>2. QED
  BY <1>1, FailedKeeps, EstablishedKeeps, ReceivedKeeps

LEMMA PushKeeps ==
    ASSUME NEW d, Sound(d, {}), NEW e, e = InternalPush(d)
    PROVE  Carries(d, e)
<1>1. PICK f : f = Heard(d, "push")
  OBVIOUS
<1> DEFINE g == [f EXCEPT !.lastPause = 0]
<1>2. e = IF d.paused \/ d.lastPause # None THEN g ELSE f
  BY <1>1, Zenon DEF InternalPush
<1>3. "push" \in Conns
  BY DEF Conns
<1>4. Carries(d, f) /\ f.paused = d.paused /\ f.lastPause = d.lastPause
  BY <1>1, <1>3, HeardKeeps
<1>5. Sound(f, {}) /\ f \in Managers
  BY <1>4 DEF Carries, Sound
<1>6. g \in Managers
  BY <1>5, Zeros DEF Managers
<1>7. /\ g.st = f.st /\ g.idle = f.idle /\ g.mem = f.mem /\ g.size = f.size
      /\ g.events = f.events /\ g.due = f.due /\ g.again = f.again
  BY <1>5 DEF Managers
<1> HIDE DEF g
<1>8. CASE d.paused \/ d.lastPause # None
  <2>1. e = g
    BY <1>2, <1>8
  <2>2. ~Awake(f)
    BY <1>4, <1>8 DEF Awake
  <2>3. Carries(f, g)
    BY <1>5, <1>6, <1>7, <2>2, MembersCarry
  <2>4. QED
    BY <1>4, <2>1, <2>3, CarriesTrans
<1>9. CASE ~(d.paused \/ d.lastPause # None)
  BY <1>2, <1>4, <1>9
<1>10. QED
  BY <1>8, <1>9

----------------------------------------------------------------------------
(* The tasks. *)
LEMMA ResumedKeeps ==
    ASSUME NEW d, Sound(d, {}), NEW partial \in BOOLEAN, NEW e, e = Resumed(d, partial)
    PROVE  Carries(d, e) /\ (~partial => Awake(e))
<1>1. d \in Managers
  BY DEF Sound
<1>2. CASE ~partial
  <2>1. e = [d EXCEPT !.paused = FALSE, !.lastPause = -1]
    BY <1>2, Zenon DEF Resumed, None
  <2>2. -1 \in (-1)..SleepTimeout
    BY Bounds
  <2>3. e \in Managers
    BY <1>1, <2>1, <2>2 DEF Managers
  <2>4. /\ e.st = d.st /\ e.idle = d.idle /\ e.mem = d.mem /\ e.size = d.size
        /\ e.events = d.events /\ e.due = d.due /\ e.again = d.again
        /\ e.paused = FALSE /\ e.lastPause = -1
    BY <1>1, <2>1 DEF Managers
  <2>5. Awake(e)
    BY <2>4 DEF Awake, None
  <2>6. QED
    BY <2>3, <2>4, <2>5, MembersCarry
<1>3. CASE partial /\ (d.paused \/ d.lastPause # None)
  <2>1. e = [d EXCEPT !.paused = FALSE, !.lastPause = 0]
    BY <1>3, Zenon DEF Resumed
  <2>2. e \in Managers
    BY <1>1, <2>1, Zeros DEF Managers
  <2>3. /\ e.st = d.st /\ e.idle = d.idle /\ e.mem = d.mem /\ e.size = d.size
        /\ e.events = d.events /\ e.due = d.due /\ e.again = d.again
    BY <1>1, <2>1 DEF Managers
  <2>4. ~Awake(d)
    BY <1>3 DEF Awake
  <2>5. QED
    BY <1>3, <2>2, <2>3, <2>4, MembersCarry
<1>4. CASE partial /\ ~(d.paused \/ d.lastPause # None)
  <2>1. e = d
    BY <1>4, Zenon DEF Resumed
  <2>2. QED
    BY <1>4, <2>1 DEF Carries
<1>5. QED
  BY <1>2, <1>3, <1>4

LEMMA TaskKeeps ==
    ASSUME NEW d, Sound(d, {}), NEW task \in TaskNames,
           NEW e \in RunTask(d, task)
    PROVE  Carries(d, e) /\ (task = "resume" => Awake(e))
<1>1. "generic" \in Conns /\ "download" \in Conns
  BY DEF Conns
<1>2. CASE task = "send"
  <2>1. e \in connect(d, "generic")
    BY <1>2 DEF RunTask
  <2>2. QED
    BY <1>1, <1>2, <2>1, ConnectKeeps, HandlesCarries
<1>3. CASE task = "download"
  <2> DEFINE by == d.busy \cup {"download"}
             f == [d EXCEPT !.busy = by]
  <2>1. e \in connect(f, "download")
    BY <1>3 DEF RunTask
  <2>2. d \in Managers
    BY DEF Sound
  <2>3. by \in SUBSET {"generic", "download"}
    BY <2>2, Fields
  <2> HIDE DEF by
  <2>4. Carries(d, f)
    BY <2>3, BusyKeeps
  <2> HIDE DEF f
  <2>5. Carries(f, e)
    BY <1>1, <2>1, <2>4, ConnectKeeps, HandlesCarries DEF Carries
  <2>6. QED
    BY <1>3, <2>4, <2>5, CarriesTrans
<1>4. CASE task = "resume"
  <2>1. e = Resumed(d, FALSE)
    BY <1>4 DEF RunTask
  <2>2. QED
    BY <2>1, ResumedKeeps
<1>5. CASE task = "partial"
  <2>1. e = Resumed(d, TRUE)
    BY <1>5 DEF RunTask
  <2>2. QED
    BY <1>5, <2>1, ResumedKeeps
<1>6. QED
  BY <1>2, <1>3, <1>4, <1>5

----------------------------------------------------------------------------
(* callEvents. *)
LEMMA FiredKeeps ==
    ASSUME NEW d, Sound(d, {}), NEW x \in Conns, NEW e \in Fired(d, x)
    PROVE  Handles(d, e, x) /\ (x \in Range(e.events) => e.due[x] = 1)
<1> DEFINE d1 == Stopped(d, x)
           wt == [d1.wait EXCEPT ![x] = FALSE]
           d2 == [d1 EXCEPT !.wait = wt]
<1>1. e \in connect(d2, x)
  BY Zenon DEF Fired
<1>2. Sound(d1, {}) /\ Frame(d, d1, x) /\ x \notin Range(d1.events)
  BY StoppedKeeps
<1> HIDE DEF d1
<1>3. d1 \in Managers
  BY <1>2 DEF Sound
<1>4. d1.wait \in [Conns -> BOOLEAN]
  BY <1>3, Fields
<1>5. wt \in [Conns -> BOOLEAN]
  BY <1>4
<1> HIDE DEF wt
<1>6. /\ d2.st = d1.st /\ d2.idle = d1.idle /\ d2.mem = d1.mem /\ d2.size = d1.size
      /\ d2.events = d1.events /\ d2.due = d1.due
      /\ d2.paused = d1.paused /\ d2.lastPause = d1.lastPause /\ d2.again = d1.again
  BY <1>3 DEF Managers
<1>7. d2 \in Managers
  BY <1>3, <1>5 DEF Managers
<1> HIDE DEF d2
<1>8. Sound(d2, {}) /\ Frame(d1, d2, x)
  BY <1>2, <1>6, <1>7, Untouched, FrameSame
<1>9. Handles(d2, e, x)
  BY <1>1, <1>8, ConnectKeeps
<1>10. Frame(d, d2, x)
  BY <1>2, <1>8, FrameTrans
<1>11. x \in Range(e.events) => e.due[x] = 1
  BY <1>2, <1>6, <1>9 DEF Handles, Frame
<1>12. QED
  BY <1>9, <1>10, <1>11, HandlesTrans

LEMMA StopIs ==
    ASSUME NEW d, Sound(d, {})
    PROVE  /\ Stop(d) \in 1..(Len(d.events) + 1)
           /\ Stop(d) \in DOMAIN d.events => d.due[d.events[Stop(d)]] = 1
           /\ \A j \in 1..(Stop(d) - 1) : d.due[d.events[j]] = 0
<1>1. d \in Managers
  BY DEF Sound
<1>2. d.events \in Seq(Conns) /\ d.due \in [Conns -> 0..1]
  BY <1>1, Fields
<1>3. Len(d.events) \in Nat /\ DOMAIN d.events = 1..Len(d.events)
  BY <1>2
<1>4. \A j \in 1..Len(d.events) : d.due[d.events[j]] \in 0..1
  BY <1>2, <1>3
<1> DEFINE T == {i \in 1..Len(d.events) : d.due[d.events[i]] > 0}
           Good(i) == /\ i \in DOMAIN d.events => d.due[d.events[i]] > 0
                      /\ \A j \in 1..(i - 1) : d.due[d.events[j]] = 0
<1>5. \E i \in 1..(Len(d.events) + 1) : Good(i)
  <2>1. CASE T = {}
    <3>1. Good(Len(d.events) + 1)
      BY <1>3, <1>4, <2>1
    <3>2. QED
      BY <1>3, <3>1
  <2>2. CASE T # {}
    <3>1. T \subseteq Nat
      OBVIOUS
    <3>2. PICK i \in T : \A j \in T : i <= j
      BY <2>2, <3>1, NatMin
    <3>3. Good(i)
      BY <1>3, <1>4, <3>2
    <3>4. QED
      BY <1>3, <3>2, <3>3
  <2>3. QED
    BY <2>1, <2>2
<1>6. Stop(d) = CHOOSE i \in 1..(Len(d.events) + 1) : Good(i)
  BY DEF Stop
<1> HIDE DEF Good
<1>7. Stop(d) \in 1..(Len(d.events) + 1) /\ Good(Stop(d))
  BY <1>5, <1>6, Zenon
<1>8. QED
  BY <1>3, <1>4, <1>7 DEF Good

(* An event is due or lies behind the place where the loop stops, and that
   takes its full time. *)
LEMMA DueIs ==
    ASSUME NEW d, Sound(d, {})
    PROVE  /\ DueEvents(d) \in Seq(Conns)
           /\ \A y \in Range(d.events) : d.due[y] = 1 \/ \E j \in 1..Len(DueEvents(d)) : DueEvents(d)[j] = y
<1>1. d \in Managers
  BY DEF Sound
<1>2. d.events \in Seq(Conns) /\ d.due \in [Conns -> 0..1]
  BY <1>1, Fields
<1>3. Len(d.events) \in Nat /\ DOMAIN d.events = 1..Len(d.events)
  BY <1>2
<1>4. PICK s : s = Stop(d)
  OBVIOUS
<1>5. s \in 1..(Len(d.events) + 1) /\ (s \in DOMAIN d.events => d.due[d.events[s]] = 1)
  BY <1>4, StopIs
<1> DEFINE v == SubSeq(d.events, 1, s - 1)
<1>6. v = DueEvents(d)
  BY <1>4 DEF DueEvents
<1>7. v \in Seq(Conns) /\ Len(v) = s - 1 /\ \A i \in 1..(s - 1) : v[i] = d.events[i]
  BY <1>2, <1>3, <1>5
<1> HIDE DEF v
<1>8. ASSUME NEW i \in 1..Len(d.events)
      PROVE  d.due[d.events[i]] = 1 \/ \E j \in 1..Len(v) : v[j] = d.events[i]
  <2>1. CASE i < s
    <3>1. i \in 1..(s - 1)
      BY <1>3, <1>5, <2>1
    <3>2. QED
      BY <1>7, <3>1
  <2>2. CASE i = s
    BY <1>3, <1>5, <2>2
  <2>3. CASE i > s
    <3>1. s \in DOMAIN d.events
      BY <1>3, <1>5, <2>3
    <3>2. d.due[d.events[s]] <= d.due[d.events[i]]
      BY <1>3, <2>3, <3>1 DEF Sound, Timers
    <3>3. d.due[d.events[i]] \in 0..1
      BY <1>2, <1>3
    <3>4. QED
      BY <1>5, <3>1, <3>2, <3>3
  <2>4. QED
    BY <1>3, <1>5, <2>1, <2>2, <2>3
<1>9. QED
  BY <1>3, <1>6, <1>7, <1>8 DEF Range

(* The loops are over sets of managers: what a step may do is a choice. *)
LEMMA EventsLoop ==
    ASSUME NEW d, Sound(d, {})
    PROVE  \E f : /\ f[0] = {d}
                  /\ \A i \in 1..Len(DueEvents(d)) :
                        f[i] = UNION {Fired(e, DueEvents(d)[i]) : e \in f[i - 1]}
                  /\ CalledEvents(d) = f[Len(DueEvents(d))]
<1> DEFINE due == DueEvents(d)
           N == Len(due)
           M == {e \in Managers : Sound(e, {})}
           W == SUBSET M
           Step(w, i) == UNION {Fired(e, due[i]) : e \in w}
           Body(f, i) == IF i = 0 THEN {d} ELSE UNION {Fired(e, due[i]) : e \in f[i - 1]}
           run[i \in 0..N] == IF i = 0 THEN {d} ELSE UNION {Fired(e, due[i]) : e \in run[i - 1]}
           G == [i \in 1..N |-> [w \in W |-> Step(w, i)]]
<1>1. CalledEvents(d) = run[N]
  BY Zenon DEF CalledEvents
<1>2. due \in Seq(Conns)
  BY DueIs
<1>3. N \in Nat /\ {d} \in W /\ \A i \in 1..N : due[i] \in Conns
  BY <1>2 DEF Sound
<1>4. \A i \in 1..N : \A w \in W : G[i][w] \in W
  <2>1. ASSUME NEW i \in 1..N, NEW w \in W, NEW g \in Step(w, i) PROVE g \in M
    <3>1. PICK e \in w : g \in Fired(e, due[i])
      BY <2>1
    <3>2. Sound(e, {})
      OBVIOUS
    <3>3. Handles(e, g, due[i])
      BY <1>3, <3>1, <3>2, FiredKeeps
    <3>4. QED
      BY <3>3 DEF Handles, Sound
  <2>2. ASSUME NEW i \in 1..N, NEW w \in W PROVE Step(w, i) \in W
    <3> HIDE DEF M, Step
    <3>1. QED
      BY <2>1
  <2> HIDE DEF W, Step
  <2>3. QED
    BY <2>2
<1>5. \A i \in 1..N : \A w \in W : G[i][w] = Step(w, i)
  BY Zenon
<1> HIDE DEF G, W
<1>6. PICK g \in [0..N -> W] : g[0] = {d} /\ \A i \in 1..N : g[i] = G[i][g[i - 1]]
  <2>1. Computes(W, N, {d}, G)
    BY <1>3, <1>4, LoopExists DEF Closed
  <2>2. QED
    BY <2>1 DEF Computes
<1>7. ASSUME NEW i \in 0..N PROVE g[i] = Body(g, i)
  <2>1. CASE i = 0
    BY <1>6, <2>1
  <2>2. CASE i # 0
    <3>1. i \in 1..N /\ i - 1 \in 0..N
      BY <1>3, <2>2
    <3>2. g[i - 1] \in W
      BY <1>6, <3>1
    <3>3. g[i] = Step(g[i - 1], i)
      <4> HIDE DEF Step
      <4>1. QED
        BY <1>5, <1>6, <3>1, <3>2
    <3>4. QED
      BY <2>2, <3>3, Zenon
  <2>3. QED
    BY <2>1, <2>2
<1>8. g = [i \in 0..N |-> Body(g, i)]
  <2> HIDE DEF Body
  <2>1. QED
    BY <1>6, <1>7
<1>9. run = [i \in 0..N |-> Body(run, i)]
  <2>1. \E f : f = [i \in 0..N |-> Body(f, i)]
    BY <1>8, Zenon
  <2>2. QED
    BY <2>1, Zenon
<1> HIDE DEF run
<1>10. run[0] = {d} /\ \A i \in 1..N : i \in 0..N /\ i # 0 /\ run[i] = Body(run, i)
  <2>1. \A i \in 0..N : run[i] = Body(run, i)
    <3> HIDE DEF Body
    <3>1. QED
      BY <1>9
  <2>2. 0 \in 0..N /\ \A i \in 1..N : i \in 0..N /\ i # 0
    BY <1>3
  <2>3. Body(run, 0) = {d}
    BY Zenon
  <2> HIDE DEF Body
  <2>4. QED
    BY <2>1, <2>2, <2>3
<1>11. ASSUME NEW i \in 1..N PROVE run[i] = UNION {Fired(e, due[i]) : e \in run[i - 1]}
  <2>1. i # 0 /\ run[i] = Body(run, i)
    <3> HIDE DEF Body
    <3>1. QED
      BY <1>10
  <2>2. QED
    BY <2>1, Zenon
<1>12. QED
  BY <1>1, <1>10, <1>11, Zenon

(* Every timer that is left in the list takes its full time. *)
Rearmed(e) == \A y \in Range(e.events) : e.due[y] = 1

LEMMA CalledKeeps ==
    ASSUME NEW d, Sound(d, {}), NEW e \in CalledEvents(d)
    PROVE  Carries(d, e) /\ Rearmed(e)
<1> DEFINE due == DueEvents(d)
           N == Len(due)
           Waits(w, i) == \A y \in Range(w.events) : w.due[y] = 1 \/ \E j \in (i + 1)..N : due[j] = y
           Holds(ws, i) == \A w \in ws : Carries(d, w) /\ Waits(w, i)
<1>2. PICK f : /\ f[0] = {d}
               /\ \A i \in 1..N : f[i] = UNION {Fired(w, due[i]) : w \in f[i - 1]}
               /\ CalledEvents(d) = f[N]
  BY EventsLoop, Zenon
<1>3. due \in Seq(Conns) /\ N \in Nat /\ \A y \in Range(d.events) : d.due[y] = 1 \/ \E j \in 1..N : due[j] = y
  BY DueIs
<1> HIDE DEF due
<1> DEFINE S == {i \in Nat : i <= N => Holds(f[i], i)}
<1>4. 0 \in S
  <2>1. Carries(d, d)
    BY DEF Carries
  <2>2. Waits(d, 0)
    BY <1>3
  <2> HIDE DEF Waits
  <2>3. QED
    BY <1>2, <2>1, <2>2
<1>5. ASSUME NEW i \in Nat, i \in S PROVE i + 1 \in S
  <2> SUFFICES ASSUME i + 1 <= N, NEW g \in f[i + 1] PROVE Carries(d, g) /\ Waits(g, i + 1)
    OBVIOUS
  <2>1. i <= N /\ i + 1 \in 1..N /\ i + 1 - 1 = i
    BY <1>3
  <2>2. PICK x : x = due[i + 1]
    OBVIOUS
  <2>3. f[i + 1] = UNION {Fired(w, x) : w \in f[i]}
    BY <1>2, <2>1, <2>2
  <2>4. PICK w \in f[i] : g \in Fired(w, x)
    BY <2>3
  <2>5. Carries(d, w) /\ Waits(w, i)
    BY <1>5, <2>1, <2>4
  <2>6. x \in Conns
    BY <1>3, <2>1, <2>2
  <2>7. Handles(w, g, x) /\ (x \in Range(g.events) => g.due[x] = 1)
    BY <2>4, <2>5, <2>6, FiredKeeps DEF Carries
  <2>8. Carries(d, g)
    BY <2>5, <2>7, HandlesCarries, CarriesTrans
  <2>9. ASSUME NEW y \in Range(g.events) PROVE g.due[y] = 1 \/ \E j \in (i + 2)..N : due[j] = y
    <3>1. CASE y = x
      BY <2>7, <3>1
    <3>2. CASE y # x
      <4>1. y \in Conns
        <5>1. g.events \in Seq(Conns)
          BY <2>7, Fields DEF Handles, Sound
        <5>2. QED
          BY <5>1 DEF Range
      <4>2. y \in Range(w.events) /\ g.due[y] = w.due[y]
        BY <2>7, <3>2, <4>1 DEF Handles, Frame
      <4>3. w.due[y] = 1 \/ \E j \in (i + 1)..N : due[j] = y
        BY <2>5, <4>2
      <4>4. CASE w.due[y] = 1
        BY <4>2, <4>4
      <4>5. CASE \E j \in (i + 1)..N : due[j] = y
        <5>1. PICK j \in (i + 1)..N : due[j] = y
          BY <4>5
        <5>2. j # i + 1
          BY <2>2, <3>2, <5>1
        <5>3. j \in (i + 2)..N
          BY <1>3, <5>2
        <5>4. QED
          BY <5>1, <5>3
      <4>6. QED
        BY <4>3, <4>4, <4>5
    <3>3. QED
      BY <3>1, <3>2
  <2>10. i + 1 + 1 = i + 2
    OBVIOUS
  <2>11. Waits(g, i + 1)
    BY <2>9, <2>10
  <2>12. QED
    BY <2>8, <2>11
<1> HIDE DEF S, Holds
<1>6. N \in S
  BY <1>3, <1>4, <1>5, SetInduction
<1>7. Holds(CalledEvents(d), N)
  BY <1>2, <1>3, <1>6 DEF S
<1>8. Carries(d, e) /\ Waits(e, N)
  BY <1>7 DEF Holds
<1>9. QED
  BY <1>3, <1>8 DEF Rearmed

----------------------------------------------------------------------------
(* The loop over activeConnections.  A connection that timed out is open: the
   slots behind the end of the vector close nothing. *)
LEMMA TimeoutKeeps ==
    ASSUME NEW d, Sound(d, {}), NEW x \in Conns, NEW e \in checkTimeout(d, x)
    PROVE  Carries(d, e) /\ Len(e.mem) = Len(d.mem)
<1>1. d \in Managers
  BY DEF Sound
<1>2. CASE TimedOut(d, x)
  <2> DEFINE ag == d.again \/ d.st[x] \notin Open
             f == [d EXCEPT !.again = ag]
  <2>1. e \in closeSocket(f, x, FALSE)
    BY <1>2, Zenon DEF checkTimeout
  <2>2. d.idle \in [Conns -> 0..(IdleLimit + 1)] /\ d.again \in BOOLEAN
    BY <1>1, Fields
  <2>3. d.idle[x] > 0
    BY <1>2, <2>2, Bounds DEF TimedOut
  <2>4. d.st[x] \in Open
    BY <2>3 DEF Sound, Vector
  <2>5. ag = d.again
    BY <2>2, <2>4
  <2> HIDE DEF ag
  <2>6. f \in Managers
    BY <1>1, <2>2, <2>5 DEF Managers
  <2>7. /\ f.st = d.st /\ f.idle = d.idle /\ f.mem = d.mem /\ f.size = d.size
        /\ f.events = d.events /\ f.due = d.due /\ f.again = d.again
        /\ f.paused = d.paused /\ f.lastPause = d.lastPause
    BY <1>1, <2>5 DEF Managers
  <2> HIDE DEF f
  <2>8. Carries(d, f)
    BY <2>6, <2>7, MembersCarry DEF Awake
  <2>9. Sound(f, {x})
    BY <2>8, Loosened DEF Carries
  <2>10. Handles(f, e, x) /\ Len(e.mem) = Len(f.mem)
    BY <2>1, <2>9, CloseKeeps
  <2>11. QED
    BY <2>7, <2>8, <2>10, HandlesCarries, CarriesTrans
<1>3. CASE ~TimedOut(d, x)
  <2>1. e = d
    BY <1>3, Zenon DEF checkTimeout
  <2>2. QED
    BY <2>1 DEF Carries
<1>4. QED
  BY <1>2, <1>3

LEMMA PassedLoop ==
    ASSUME NEW d, Sound(d, {}), NEW slots \in Nat, slots <= Len(d.mem)
    PROVE  \E f : /\ f[0] = {d}
                  /\ \A i \in 1..slots : f[i] = UNION {checkTimeout(e, e.mem[i]) : e \in f[i - 1]}
                  /\ Passed(d, slots) = f[slots]
<1> DEFINE M == {e \in Managers : Sound(e, {}) /\ Len(e.mem) = Len(d.mem)}
           W == SUBSET M
           Step(w, i) == UNION {checkTimeout(e, e.mem[i]) : e \in w}
           Body(f, i) == IF i = 0 THEN {d} ELSE UNION {checkTimeout(e, e.mem[i]) : e \in f[i - 1]}
           run[i \in 0..slots] ==
              IF i = 0 THEN {d} ELSE UNION {checkTimeout(e, e.mem[i]) : e \in run[i - 1]}
           G == [i \in 1..slots |-> [w \in W |-> Step(w, i)]]
<1>1. Passed(d, slots) = run[slots]
  BY Zenon DEF Passed
<1>2. {d} \in W /\ Len(d.mem) \in Nat
  BY Fields DEF Sound
<1>3. \A i \in 1..slots : \A w \in W : G[i][w] \in W
  <2>1. ASSUME NEW i \in 1..slots, NEW w \in W, NEW g \in Step(w, i) PROVE g \in M
    <3>1. PICK e \in w : g \in checkTimeout(e, e.mem[i])
      BY <2>1
    <3>2. e \in Managers /\ Sound(e, {}) /\ Len(e.mem) = Len(d.mem)
      OBVIOUS
    <3>3. e.mem[i] \in Conns
      BY <1>2, <3>2, Fields
    <3>4. Carries(e, g) /\ Len(g.mem) = Len(e.mem)
      BY <3>1, <3>2, <3>3, TimeoutKeeps
    <3>5. QED
      BY <3>2, <3>4 DEF Carries, Sound
  <2>2. ASSUME NEW i \in 1..slots, NEW w \in W PROVE Step(w, i) \in W
    <3> HIDE DEF M, Step
    <3>1. QED
      BY <2>1
  <2> HIDE DEF W, Step
  <2>3. QED
    BY <2>2
<1>4. \A i \in 1..slots : \A w \in W : G[i][w] = Step(w, i)
  BY Zenon
<1> HIDE DEF G, W
<1>5. PICK g \in [0..slots -> W] : g[0] = {d} /\ \A i \in 1..slots : g[i] = G[i][g[i - 1]]
  <2>1. Computes(W, slots, {d}, G)
    BY <1>2, <1>3, LoopExists DEF Closed
  <2>2. QED
    BY <2>1 DEF Computes
<1>6. ASSUME NEW i \in 0..slots PROVE g[i] = Body(g, i)
  <2>1. CASE i = 0
    BY <1>5, <2>1
  <2>2. CASE i # 0
    <3>1. i \in 1..slots /\ i - 1 \in 0..slots
      BY <2>2
    <3>2. g[i - 1] \in W
      BY <1>5, <3>1
    <3>3. g[i] = Step(g[i - 1], i)
      <4> HIDE DEF Step
      <4>1. QED
        BY <1>4, <1>5, <3>1, <3>2
    <3>4. QED
      BY <2>2, <3>3, Zenon
  <2>3. QED
    BY <2>1, <2>2
<1>7. g = [i \in 0..slots |-> Body(g, i)]
  <2> HIDE DEF Body
  <2>1. QED
    BY <1>5, <1>6
<1>8. run = [i \in 0..slots |-> Body(run, i)]
  <2>1. \E f : f = [i \in 0..slots |-> Body(f, i)]
    BY <1>7, Zenon
  <2>2. QED
    BY <2>1, Zenon
<1> HIDE DEF run
<1>9. \A i \in 0..slots : run[i] = Body(run, i)
  <2> HIDE DEF Body
  <2>1. QED
    BY <1>8
<1>10. run[0] = {d}
  <2>1. 0 \in 0..slots
    OBVIOUS
  <2>2. QED
    BY <1>9, <2>1, Zenon
<1>11. ASSUME NEW i \in 1..slots
       PROVE  run[i] = UNION {checkTimeout(e, e.mem[i]) : e \in run[i - 1]}
  <2>1. i # 0 /\ i \in 0..slots
    OBVIOUS
  <2>2. QED
    BY <1>9, <2>1, Zenon
<1>12. QED
  BY <1>1, <1>10, <1>11, Zenon

LEMMA TimeoutsKeep ==
    ASSUME NEW d, Sound(d, {}), NEW e \in TimeoutsChecked(d)
    PROVE  Carries(d, e)
<1> DEFINE N == d.size
           Holds(ws) == \A w \in ws : Carries(d, w) /\ Len(w.mem) = Len(d.mem)
<1>1. N \in Nat /\ N <= Len(d.mem) /\ Len(d.mem) \in Nat
  BY Fields DEF Sound, Vector
<1>2. PICK f : /\ f[0] = {d}
               /\ \A i \in 1..N : f[i] = UNION {checkTimeout(w, w.mem[i]) : w \in f[i - 1]}
               /\ Passed(d, N) = f[N]
  <2>1. N \in Nat /\ N <= Len(d.mem)
    BY <1>1
  <2> HIDE DEF N
  <2>2. QED
    BY <2>1, PassedLoop
<1> DEFINE S == {i \in Nat : i <= N => Holds(f[i])}
<1>3. 0 \in S
  <2>1. Carries(d, d)
    BY DEF Carries
  <2>2. QED
    BY <1>2, <2>1
<1>4. ASSUME NEW i \in Nat, i \in S PROVE i + 1 \in S
  <2> SUFFICES ASSUME i + 1 <= N, NEW g \in f[i + 1]
               PROVE  Carries(d, g) /\ Len(g.mem) = Len(d.mem)
    OBVIOUS
  <2>1. i <= N /\ i + 1 \in 1..N /\ i + 1 - 1 = i
    BY <1>1
  <2>2. f[i + 1] = UNION {checkTimeout(w, w.mem[i + 1]) : w \in f[i]}
    BY <1>2, <2>1
  <2>3. PICK w \in f[i] : g \in checkTimeout(w, w.mem[i + 1])
    BY <2>2
  <2>4. Carries(d, w) /\ Len(w.mem) = Len(d.mem)
    BY <1>4, <2>1, <2>3
  <2>5. Sound(w, {}) /\ w.mem \in Seq(Conns)
    BY <2>4, Fields DEF Carries, Sound
  <2>6. w.mem[i + 1] \in Conns
    BY <1>1, <2>1, <2>4, <2>5
  <2>7. Carries(w, g) /\ Len(g.mem) = Len(w.mem)
    BY <2>3, <2>5, <2>6, TimeoutKeeps
  <2>8. QED
    BY <2>4, <2>7, CarriesTrans
<1> HIDE DEF S, Holds
<1>5. N \in S
  BY <1>1, <1>3, <1>4, SetInduction
<1>6. Holds(Passed(d, N))
  BY <1>1, <1>2, <1>5 DEF S
<1>7. QED
  BY <1>6 DEF Holds, TimeoutsChecked

----------------------------------------------------------------------------
(* The rest of select. *)
LEMMA SetAge ==
    ASSUME NEW d, Sound(d, {}), NEW age \in 0..PushCap, NEW pinging \in BOOLEAN,
           NEW e, e = [d EXCEPT !.pushAge = age, !.pinging = pinging]
    PROVE  Carries(d, e)
<1>1. d \in Managers
  BY DEF Sound
<1>2. e \in Managers
  BY <1>1 DEF Managers
<1>3. /\ e.st = d.st /\ e.idle = d.idle /\ e.mem = d.mem /\ e.size = d.size
      /\ e.events = d.events /\ e.due = d.due /\ e.again = d.again
      /\ e.paused = d.paused /\ e.lastPause = d.lastPause
  BY <1>1 DEF Managers
<1>4. QED
  BY <1>2, <1>3, MembersCarry DEF Awake

LEMMA PushCheckedKeeps ==
    ASSUME NEW d, Sound(d, {}), NEW e \in PushChecked(d)
    PROVE  Carries(d, e)
<1> DEFINE d1 == [d EXCEPT !.pushAge = PushCap, !.pinging = FALSE]
<1>1. PICK f : /\ f = d \/ f \in suspendConnection(d1, "push")
               /\ e = f \/ e \in sendPing([f EXCEPT !.pushAge = 0])
  <2>1. CASE PushLate(d)
    <3>1. PICK f \in suspendConnection(d1, "push") :
             e \in IF f.pushAge >= PushPeriod THEN sendPing([f EXCEPT !.pushAge = 0]) ELSE {f}
      BY <2>1, Zenon DEF PushChecked
    <3> HIDE DEF d1
    <3>2. QED
      BY <3>1, Zenon
  <2>2. CASE ~PushLate(d)
    <3>1. e \in IF d.pushAge >= PushPeriod THEN sendPing([d EXCEPT !.pushAge = 0]) ELSE {d}
      BY <2>2, Zenon DEF PushChecked
    <3>2. QED
      BY <3>1, Zenon
  <2>3. QED
    BY <2>1, <2>2
<1>2. "push" \in Conns /\ PushCap \in 0..PushCap
  BY Bounds DEF Conns
<1>3. Carries(d, d1)
  BY <1>2, SetAge
<1> HIDE DEF d1
<1>4. Carries(d, f)
  <2>1. CASE f = d
    BY <2>1 DEF Carries
  <2>2. CASE f \in suspendConnection(d1, "push")
    <3>1. Carries(d1, f)
      BY <1>2, <1>3, <2>2, SuspendKeeps, HandlesCarries DEF Carries
    <3>2. QED
      BY <1>3, <3>1, CarriesTrans
  <2>3. QED
    BY <1>1, <2>1, <2>2
<1>5. CASE e = f
  BY <1>4, <1>5
<1>6. CASE e \in sendPing([f EXCEPT !.pushAge = 0])
  <2> DEFINE g == [f EXCEPT !.pushAge = 0]
  <2>1. f \in Managers /\ Sound(f, {})
    BY <1>4 DEF Carries, Sound
  <2>2. g \in Managers
    BY <2>1, Zeros DEF Managers
  <2>3. /\ g.st = f.st /\ g.idle = f.idle /\ g.mem = f.mem /\ g.size = f.size
        /\ g.events = f.events /\ g.due = f.due /\ g.again = f.again
        /\ g.paused = f.paused /\ g.lastPause = f.lastPause
    BY <2>1 DEF Managers
  <2>4. e \in sendPing(g)
    BY <1>6
  <2> HIDE DEF g
  <2>5. Carries(f, g)
    BY <2>1, <2>2, <2>3, MembersCarry DEF Awake
  <2>6. Carries(g, e)
    BY <2>4, <2>5, PingKeeps, HandlesCarries DEF Carries
  <2>7. QED
    BY <1>4, <2>5, <2>6, CarriesTrans
<1>7. QED
  BY <1>1, <1>5, <1>6

LEMMA SuspendedKeep ==
    ASSUME NEW d, Sound(d, {}), NEW e \in suspendConnections(d)
    PROVE  Carries(d, e)
<1>1. PICK f \in suspendConnection(d, "generic") : e \in suspendConnection(f, "download")
  BY Zenon DEF suspendConnections
<1>2. "generic" \in Conns /\ "download" \in Conns
  BY DEF Conns
<1>3. Carries(d, f)
  BY <1>2, SuspendKeeps, HandlesCarries
<1>4. Carries(f, e)
  BY <1>1, <1>2, <1>3, SuspendKeeps, HandlesCarries DEF Carries
<1>5. QED
  BY <1>3, <1>4, CarriesTrans

LEMMA WorkedKeeps ==
    ASSUME NEW d, Sound(d, {}), NEW e \in Worked(d)
    PROVE  Carries(d, e)
<1>1. PICK f : (f = d \/ f \in connect(d, "generic")) /\ (e = f \/ e \in connect(f, "download"))
  <2>1. PICK f \in {d} \cup connect(d, "generic") : e \in IF "download" \in f.busy THEN connect(f, "download") ELSE {f}
    BY Zenon DEF Worked
  <2>2. QED
    BY <2>1, Zenon
<1>2. "generic" \in Conns /\ "download" \in Conns
  BY DEF Conns
<1>3. Carries(d, d)
  BY DEF Carries
<1>4. Carries(d, f)
  BY <1>1, <1>2, <1>3, ConnectKeeps, HandlesCarries
<1>5. ASSUME e \in connect(f, "download") PROVE Carries(f, e)
  BY <1>2, <1>4, <1>5, ConnectKeeps, HandlesCarries DEF Carries
<1>6. QED
  BY <1>1, <1>4, <1>5, CarriesTrans

LEMMA SaltKeeps ==
    ASSUME NEW d, Sound(d, {}), NEW x \in Conns, NEW e \in SaltRefused(d, x)
    PROVE  Carries(d, e)
<1>1. PICK f : f = Heard(d, x)
  OBVIOUS
<1> DEFINE by == f.busy \cup {"generic"}
           g == [f EXCEPT !.busy = by]
<1>2. e \in Worked(g)
  BY <1>1, Zenon DEF SaltRefused
<1>3. Carries(d, f) /\ Sound(f, {}) /\ f \in Managers
  BY <1>1, HeardKeeps DEF Carries, Sound
<1>4. by \in SUBSET {"generic", "download"}
  BY <1>3, Fields
<1> HIDE DEF by
<1>5. Carries(f, g)
  BY <1>3, <1>4, BusyKeeps
<1> HIDE DEF g
<1>6. Carries(g, e)
  BY <1>2, <1>5, WorkedKeeps DEF Carries
<1>7. QED
  BY <1>3, <1>5, <1>6, CarriesTrans

(* An application that is awake is never at the end of its pause. *)
LEMMA SleptKeeps ==
    ASSUME NEW d, Sound(d, {}), NEW e \in Slept(d)
    PROVE  Carries(d, e)
<1>1. d \in Managers
  BY DEF Sound
<1>2. CASE d.lastPause = SleepTimeout /\ d.busy = {}
  <2>1. PICK f : (f = d \/ f \in suspendConnections(d)) /\ e = [f EXCEPT !.paused = TRUE]
    <3>1. PICK f \in IF d.paused THEN {d} ELSE suspendConnections(d) : e = [f EXCEPT !.paused = TRUE]
      BY <1>2, Zenon DEF Slept
    <3>2. QED
      BY <3>1, Zenon
  <2>2. Carries(d, f)
    BY <2>1, SuspendedKeep DEF Carries
  <2>3. f \in Managers /\ Sound(f, {})
    BY <2>2 DEF Carries, Sound
  <2>4. e \in Managers
    BY <2>1, <2>3 DEF Managers
  <2>5. /\ e.st = f.st /\ e.idle = f.idle /\ e.mem = f.mem /\ e.size = f.size
        /\ e.events = f.events /\ e.due = f.due /\ e.again = f.again
    BY <2>1, <2>3 DEF Managers
  <2>6. ~Awake(d)
    BY <1>2, Bounds DEF Awake, None
  <2>7. Sound(e, {})
    BY <2>3, <2>4, <2>5, Untouched
  <2>8. e.again => d.again
    BY <2>2, <2>5 DEF Carries
  <2>9. QED
    BY <2>6, <2>7, <2>8, Zenon DEF Carries
<1>3. CASE ~(d.lastPause = SleepTimeout /\ d.busy = {})
  <2> DEFINE lp == IF d.lastPause = SleepTimeout THEN 0 ELSE d.lastPause
             f == [d EXCEPT !.paused = FALSE, !.lastPause = lp]
  <2>1. e \in Worked(f)
    BY <1>3, Zenon DEF Slept
  <2>2. lp \in (-1)..SleepTimeout
    BY <1>1, Fields, Zeros
  <2>3. d.lastPause = -1 => lp = -1
    BY Bounds
  <2> HIDE DEF lp
  <2>4. f \in Managers
    BY <1>1, <2>2 DEF Managers
  <2>5. /\ f.st = d.st /\ f.idle = d.idle /\ f.mem = d.mem /\ f.size = d.size
        /\ f.events = d.events /\ f.due = d.due /\ f.again = d.again
        /\ f.paused = FALSE /\ f.lastPause = lp
    BY <1>1 DEF Managers
  <2> HIDE DEF f
  <2>6. Awake(d) => Awake(f)
    BY <2>3, <2>5 DEF Awake, None
  <2>7. Carries(d, f)
    BY <2>4, <2>5, <2>6, MembersCarry
  <2>8. Carries(f, e)
    BY <2>1, <2>7, WorkedKeeps DEF Carries
  <2>9. QED
    BY <2>7, <2>8, CarriesTrans
<1>4. QED
  BY <1>2, <1>3

LEMMA RestedKeeps ==
    ASSUME NEW d, Sound(d, {}), NEW e \in Rested(d)
    PROVE  Carries(d, e)
<1>1. PICK f, g : f \in TimeoutsChecked(d) /\ g \in PushChecked(f) /\ e \in Slept(g)
  BY Zenon DEF Rested
<1>2. Carries(d, f)
  BY <1>1, TimeoutsKeep
<1>3. Carries(f, g)
  BY <1>1, <1>2, PushCheckedKeeps DEF Carries
<1>4. Carries(g, e)
  BY <1>1, <1>3, SleptKeeps DEF Carries
<1>5. QED
  BY <1>2, <1>3, <1>4, CarriesTrans

(* The memory behind the end of the vector is forgotten. *)
LEMMA TrimmedKeeps ==
    ASSUME NEW d, Sound(d, {}), NEW e, e = [d EXCEPT !.mem = Active(d)]
    PROVE  Carries(d, e)
<1>1. d \in Managers /\ d.size <= Len(d.mem) /\ d.size \in Nat
  BY Fields DEF Sound, Vector
<1>2. PICK a : a = Active(d)
  OBVIOUS
<1>3. a \in Seq(Conns) /\ Len(a) = d.size /\ \A i \in 1..d.size : a[i] = d.mem[i]
  BY <1>1, <1>2, ActiveIs
<1>4. e = [d EXCEPT !.mem = a]
  BY <1>2
<1>5. e \in Managers
  BY <1>1, <1>3, <1>4 DEF Managers
<1>6. /\ e.st = d.st /\ e.idle = d.idle /\ e.mem = a /\ e.size = d.size
      /\ e.events = d.events /\ e.due = d.due /\ e.again = d.again
      /\ e.paused = d.paused /\ e.lastPause = d.lastPause
  BY <1>1, <1>4 DEF Managers
<1>7. \A y : Listed(e, y) <=> Listed(d, y)
  BY <1>3, <1>6 DEF Listed
<1>8. Vector(e, {})
  BY <1>1, <1>3, <1>6, <1>7 DEF Sound, Vector
<1>9. Timers(e)
  BY <1>6 DEF Sound, Timers
<1>10. QED
  BY <1>5, <1>6, <1>8, <1>9 DEF Carries, Sound, Awake

----------------------------------------------------------------------------
(* epoll_wait. *)
ToPing(d) == (IF d.pinging THEN PushTimeout ELSE PushPeriod) - d.pushAge

LEMMA AgedKeeps ==
    ASSUME NEW d, Sound(d, {}), NEW e, e = Aged(d)
    PROVE  /\ Carries(d, e) /\ e.events = d.events /\ e.troubles = d.troubles
           /\ \A y \in Conns : e.due[y] >= d.due[y] - 1
           /\ ToPing(e) >= ToPing(d) - 1
<1> DEFINE id == [x \in Conns |-> IF d.st[x] \in Open THEN Older(d.idle[x], IdleLimit + 1) ELSE d.idle[x]]
           du == [x \in Conns |-> IF d.due[x] > 0 THEN d.due[x] - 1 ELSE 0]
           pa == Older(d.pushAge, PushCap)
           lp == IF d.lastPause = None THEN None ELSE Older(d.lastPause, SleepTimeout)
<1>1. d \in Managers
  BY DEF Sound
<1>2. e = [d EXCEPT !.idle = id, !.due = du, !.pushAge = pa, !.lastPause = lp]
  BY <1>1, Zenon DEF Aged
<1>3. /\ d.idle \in [Conns -> 0..(IdleLimit + 1)] /\ d.due \in [Conns -> 0..1]
      /\ d.pushAge \in 0..PushCap /\ d.lastPause \in (-1)..SleepTimeout
      /\ d.events \in Seq(Conns)
  BY <1>1, Fields
<1>4. /\ id \in [Conns -> 0..(IdleLimit + 1)]
      /\ \A y \in Conns : id[y] > 0 => d.idle[y] > 0 \/ d.st[y] \in Open
  BY <1>3, Bounds DEF Older
<1>5. /\ du \in [Conns -> 0..1]
      /\ \A y \in Conns : du[y] = IF d.due[y] > 0 THEN d.due[y] - 1 ELSE 0
  BY <1>3
<1>6. pa \in 0..PushCap /\ pa <= d.pushAge + 1
  BY <1>3, Bounds DEF Older
<1>7. lp \in (-1)..SleepTimeout /\ (d.lastPause = None => lp = None)
  BY <1>3, Bounds DEF Older, None
<1> HIDE DEF id, du, pa, lp
<1>8. e \in Managers
  BY <1>1, <1>2, <1>4, <1>5, <1>6, <1>7 DEF Managers
<1>9. /\ e.st = d.st /\ e.idle = id /\ e.mem = d.mem /\ e.size = d.size
      /\ e.events = d.events /\ e.due = du /\ e.again = d.again /\ e.troubles = d.troubles
      /\ e.paused = d.paused /\ e.lastPause = lp /\ e.pinging = d.pinging /\ e.pushAge = pa
  BY <1>1, <1>2 DEF Managers
<1>10. Vector(e, {})
  BY <1>4, <1>9 DEF Sound, Vector, Listed
<1>11. Timers(e)
  <2> SUFFICES ASSUME NEW i \in DOMAIN d.events, NEW j \in DOMAIN d.events, i < j
               PROVE  du[d.events[i]] <= du[d.events[j]]
    BY <1>9 DEF Sound, Timers
  <2>1. d.due[d.events[i]] <= d.due[d.events[j]]
    BY DEF Sound, Timers
  <2>2. d.events[i] \in Conns /\ d.events[j] \in Conns
    BY <1>3
  <2>3. PICK p \in Conns, q \in Conns : p = d.events[i] /\ q = d.events[j]
    BY <2>2
  <2>4. d.due[p] \in 0..1 /\ d.due[q] \in 0..1 /\ d.due[p] <= d.due[q]
    BY <1>3, <2>1, <2>3
  <2>5. du[p] <= du[q]
    BY <1>5, <2>4
  <2>6. QED
    BY <2>3, <2>5
<1>12. Carries(d, e)
  BY <1>7, <1>8, <1>9, <1>10, <1>11 DEF Carries, Sound, Awake
<1>13. \A y \in Conns : e.due[y] >= d.due[y] - 1
  BY <1>3, <1>5, <1>9
<1>14. ToPing(e) >= ToPing(d) - 1
  BY <1>3, <1>6, <1>9, Bounds DEF ToPing
<1>15. QED
  BY <1>9, <1>12, <1>13, <1>14

LEMMA PollIs ==
    ASSUME NEW d \in Managers, NEW iter \in Conns \cup {End}
    PROVE  /\ PollTimeout(d, iter) \in 0..PushPeriod
           /\ PollTimeout(d, iter) <= 1 \/ PollTimeout(d, iter) <= ToPing(d)
           /\ iter # End => PollTimeout(d, iter) <= 1
<1>1. /\ d.due \in [Conns -> 0..1] /\ d.pushAge \in 0..PushCap /\ d.pinging \in BOOLEAN
      /\ d.paused \in BOOLEAN
  BY Fields
<1>2. CASE iter # End
  <2>1. PollTimeout(d, iter) = IF d.due[iter] > 1 THEN 1 ELSE d.due[iter]
    BY <1>2, Zenon DEF PollTimeout, MaxPoll
  <2>2. d.due[iter] \in 0..1
    BY <1>1, <1>2
  <2>3. PollTimeout(d, iter) = d.due[iter]
    BY <2>1, <2>2
  <2>4. QED
    BY <2>2, <2>3, Bounds
<1>3. CASE iter = End
  <2>1. PollTimeout(d, iter) = IF ~d.paused \/ ToPing(d) <= 0 THEN 1 ELSE ToPing(d)
    BY <1>3, Zenon DEF PollTimeout, MaxPoll, ToPing
  <2>2. ToPing(d) \in Int /\ ToPing(d) <= PushPeriod
    BY <1>1, Bounds DEF ToPing
  <2>3. QED
    BY <1>3, <2>1, <2>2, Bounds
<1>4. QED
  BY <1>2, <1>3

----------------------------------------------------------------------------
(* The steps. *)
LEMMA Kept ==
    ASSUME IInv, Carries(n, n'),
           loop' \in Loops,
           tasks' \in Seq(TaskNames),
           signal' \in BOOLEAN, waking' \in Nat,
           app' \in Apps,
           NoLostWakeup', NeverOversleeps', ResumedStaysAwake'
    PROVE  IInv'
<1>1. Sound(n', {}) /\ ~n'.again
  BY DEF IInv, Carries
<1>2. n' \in Managers
  BY <1>1 DEF Sound
<1>3. TypeOK'
  <2>1. Open \cup {"Idle", "Reconnecting", "Suspended"} = States
    BY DEF Open, States
  <2>2. None = -1 /\ TimerTicks = 1 /\ Cardinality(Conns) = 3
    BY ThreeConns DEF None, TimerTicks
  <2>3. QED
    BY <1>2, <2>1, <2>2, Zenon DEF TypeOK, Managers
<1>4. QED
  BY <1>1, <1>3 DEF IInv

(* The thread changes no wish of the application, and it does not wait before
   it has come back to epoll_wait. *)
LEMMA ThreadStep ==
    ASSUME IInv, Carries(n, n'), UNCHANGED <<tasks, waking, app>>,
           loop' \in Loops,
           signal' \in BOOLEAN, loop'.pc # "polling"
    PROVE  IInv'
<1>1. NoLostWakeup' /\ NeverOversleeps'
  BY DEF NoLostWakeup, NeverOversleeps
<1>2. ResumedStaysAwake'
  BY DEF IInv, ResumedStaysAwake, Carries, Awake
<1>3. TypeOK
  BY DEF IInv
<1>4. QED
  BY <1>1, <1>2, <1>3, Kept DEF TypeOK

LEMMA LoopType ==
    ASSUME IInv
    PROVE  /\ n \in Managers /\ Sound(n, {})
           /\ loop \in Loops
           /\ tasks \in Seq(TaskNames)
           /\ signal \in BOOLEAN /\ waking \in Nat
           /\ app \in Apps
BY TypesAre DEF IInv

LEMMA CheckPendingTasksStep ==
    ASSUME IInv, CheckPendingTasks
    PROVE  IInv'
<1>1. PICK d, e, task : d = n /\ e = n' /\ task = Head(tasks)
  OBVIOUS
<1>2. /\ Sound(d, {}) /\ tasks \in Seq(TaskNames)
      /\ loop \in Loops
      /\ signal \in BOOLEAN /\ waking \in Nat /\ app \in Apps
  BY <1>1, LoopType
<1>3. e \in RunTask(d, task) /\ tasks # <<>> /\ tasks' = Tail(tasks)
  BY <1>1 DEF CheckPendingTasks
<1>4. /\ task \in TaskNames
      /\ tasks' \in Seq(TaskNames)
      /\ Range(tasks) \subseteq Range(tasks') \cup {task}
  <2>1. tasks' \in Seq(TaskNames) /\ Head(tasks) \in TaskNames
    BY <1>2, <1>3
  <2>2. /\ Len(tasks) \in Nat /\ DOMAIN tasks = 1..Len(tasks) /\ DOMAIN (tasks') = 1..(Len(tasks) - 1)
        /\ Head(tasks) = tasks[1] /\ \A i \in 1..(Len(tasks) - 1) : (tasks')[i] = tasks[i + 1]
    BY <1>2, <1>3
  <2>3. ASSUME NEW i \in DOMAIN tasks PROVE tasks[i] \in Range(tasks') \cup {task}
    <3>1. CASE i = 1
      BY <1>1, <2>2, <3>1
    <3>2. CASE i # 1
      <4>1. i - 1 \in 1..(Len(tasks) - 1) /\ i - 1 + 1 = i
        BY <2>2, <3>2
      <4>2. QED
        BY <2>2, <4>1 DEF Range
    <3>3. QED
      BY <3>1, <3>2
  <2>4. QED
    BY <1>1, <2>1, <2>3 DEF Range
<1>5. Carries(d, e) /\ (task = "resume" => Awake(e))
  BY <1>2, <1>3, <1>4, TaskKeeps
<1>6. Carries(n, n')
  BY <1>1, <1>5
<1>7. NoLostWakeup' /\ NeverOversleeps'
  BY DEF CheckPendingTasks, NoLostWakeup, NeverOversleeps
<1>8. ResumedStaysAwake'
  <2> SUFFICES ASSUME app'.wanted = "awake", "resume" \notin Range(tasks') PROVE Awake(e)
    BY <1>1 DEF ResumedStaysAwake, Awake
  <2>1. CASE task = "resume"
    BY <1>5, <2>1
  <2>2. CASE task # "resume"
    <3>1. "resume" \notin Range(tasks) /\ app.wanted = "awake"
      BY <1>4, <2>2 DEF CheckPendingTasks
    <3>2. Awake(d)
      BY <1>1, <3>1 DEF IInv, ResumedStaysAwake, Awake
    <3>3. QED
      BY <1>5, <3>2 DEF Carries
  <2>3. QED
    BY <2>1, <2>2
<1>9. QED
  BY <1>2, <1>4, <1>6, <1>7, <1>8, Kept DEF CheckPendingTasks

LEMMA StartPollStep ==
    ASSUME IInv, StartPoll
    PROVE  IInv'
<1>1. PICK d, e, iter : d = n /\ e = n' /\ iter = Pending(n, n')
  OBVIOUS
<1>2. /\ Sound(d, {}) /\ tasks \in Seq(TaskNames)
      /\ loop \in Loops
      /\ signal \in BOOLEAN /\ waking \in Nat /\ app \in Apps
  BY <1>1, LoopType
<1>3. /\ e \in CalledEvents(d)
      /\ loop' = [loop EXCEPT !.pc = "polling", !.timeout = PollTimeout(e, iter),
                              !.rearmed = iter = End /\ e.events # <<>>]
      /\ tasks = <<>> /\ UNCHANGED <<tasks, signal, waking, app>>
  BY <1>1, Zenon DEF StartPoll
<1>4. Carries(d, e) /\ Rearmed(e)
  BY <1>2, <1>3, CalledKeeps
<1>5. e \in Managers
  BY <1>4 DEF Carries, Sound
<1>6. iter \in Conns \cup {End}
  <2>1. e.events \in Seq(Conns)
    BY <1>5, Fields
  <2>2. iter = End \/ (e.events # <<>> /\ iter = Head(e.events))
    BY <1>1, Zenon DEF Pending
  <2>3. QED
    BY <2>1, <2>2
<1>7. PICK timeout : timeout = PollTimeout(e, iter)
  OBVIOUS
<1>8. /\ timeout \in 0..PushPeriod
      /\ timeout <= 1 \/ timeout <= ToPing(e)
      /\ iter # End => timeout <= 1
  BY <1>5, <1>6, <1>7, PollIs
<1>9. PICK rearmed \in BOOLEAN : rearmed = (iter = End /\ e.events # <<>>)
  OBVIOUS
<1>10. loop' = [loop EXCEPT !.pc = "polling", !.timeout = timeout, !.rearmed = rearmed]
  BY <1>3, <1>7, <1>9
<1>11. /\ loop' \in Loops
       /\ loop'.timeout = timeout /\ loop'.rearmed = rearmed
  BY <1>2, <1>8, <1>10 DEF Phases
<1>12. rearmed \/ \A x \in Range(e.events) : timeout <= e.due[x]
  <2>1. CASE iter # End
    <3>1. \A x \in Range(e.events) : e.due[x] = 1
      BY <1>4 DEF Rearmed
    <3>2. QED
      BY <1>8, <2>1, <3>1
  <2>2. CASE iter = End /\ e.events = <<>>
    BY <2>2 DEF Range
  <2>3. QED
    BY <1>9, <2>1, <2>2
<1>13. NeverOversleeps'
  BY <1>1, <1>8, <1>11, <1>12 DEF NeverOversleeps, MaxPoll, ToPing
<1>14. NoLostWakeup'
  BY <1>3 DEF NoLostWakeup
<1>15. Carries(n, n')
  BY <1>1, <1>4
<1>16. ResumedStaysAwake'
  BY <1>3, <1>15 DEF IInv, ResumedStaysAwake, Carries, Awake
<1>17. QED
  BY <1>2, <1>3, <1>11, <1>13, <1>14, <1>15, <1>16, Kept

LEMMA TickStep ==
    ASSUME IInv, Tick
    PROVE  IInv'
<1>1. PICK d, e : d = n /\ e = n'
  OBVIOUS
<1>2. /\ Sound(d, {}) /\ tasks \in Seq(TaskNames)
      /\ loop \in Loops
      /\ signal \in BOOLEAN /\ waking \in Nat /\ app \in Apps
  BY <1>1, LoopType
<1>3. /\ e = Aged(d) /\ loop.pc = "polling" /\ loop.timeout > 0
      /\ loop' = [loop EXCEPT !.timeout = @ - 1] /\ UNCHANGED <<tasks, signal, waking, app>>
  BY <1>1 DEF Tick
<1>4. /\ Carries(d, e) /\ e.events = d.events /\ e.troubles = d.troubles
      /\ \A y \in Conns : e.due[y] >= d.due[y] - 1
      /\ ToPing(e) >= ToPing(d) - 1
  BY <1>2, <1>3, AgedKeeps
<1>5. /\ loop' \in Loops
      /\ loop'.timeout = loop.timeout - 1 /\ loop'.rearmed = loop.rearmed /\ loop'.pc = loop.pc
  <2>1. loop.timeout - 1 \in 0..PushPeriod
    BY <1>2, <1>3, Bounds
  <2>2. PICK t \in 0..PushPeriod : t = loop.timeout - 1
    BY <2>1
  <2>3. loop' = [loop EXCEPT !.timeout = t]
    BY <1>3, <2>2
  <2>4. QED
    BY <1>2, <2>2, <2>3
<1>6. PICK t : t = loop.timeout
  OBVIOUS
<1>7. t \in Nat
  BY <1>2, <1>6, Bounds
<1>8. d \in Managers /\ e \in Managers
  BY <1>2, <1>4 DEF Carries, Sound
<1>9. loop.rearmed \/ \A x \in Range(e.events) : t - 1 <= e.due[x]
  <2> SUFFICES ASSUME ~loop.rearmed, NEW x \in Range(e.events) PROVE t - 1 <= e.due[x]
    OBVIOUS
  <2>1. x \in Conns
    <3>1. e.events \in Seq(Conns)
      BY <1>8, Fields
    <3>2. QED
      BY <3>1 DEF Range
  <2>2. t <= d.due[x]
    BY <1>1, <1>3, <1>4, <1>6 DEF IInv, NeverOversleeps
  <2>3. d.due[x] \in 0..1 /\ e.due[x] \in 0..1
    BY <1>8, <2>1, Fields
  <2>4. e.due[x] >= d.due[x] - 1
    BY <1>4, <2>1
  <2>5. QED
    BY <1>7, <2>2, <2>3, <2>4
<1>10. t - 1 <= 1 \/ t - 1 <= ToPing(e)
  <2>1. t <= 1 \/ t <= ToPing(d)
    BY <1>1, <1>3, <1>6 DEF IInv, NeverOversleeps, MaxPoll, ToPing
  <2>2. ToPing(d) \in Int /\ ToPing(e) \in Int
    BY <1>8, Fields, Bounds DEF ToPing
  <2>3. QED
    BY <1>4, <1>7, <2>1, <2>2
<1>11. NeverOversleeps'
  BY <1>1, <1>5, <1>6, <1>9, <1>10 DEF NeverOversleeps, MaxPoll, ToPing
<1>12. NoLostWakeup'
  BY <1>3, <1>5 DEF IInv, NoLostWakeup
<1>13. Carries(n, n')
  BY <1>1, <1>4
<1>14. ResumedStaysAwake'
  BY <1>3, <1>13 DEF IInv, ResumedStaysAwake, Carries, Awake
<1>15. QED
  BY <1>2, <1>3, <1>5, <1>11, <1>12, <1>13, <1>14, Kept

(* More troubles. *)
LEMMA TroubledBy ==
    ASSUME NEW d, Sound(d, {}), NEW k \in Nat, d.troubles + k <= MaxTroubles,
           NEW e, e = [d EXCEPT !.troubles = d.troubles + k]
    PROVE  /\ Carries(d, e) /\ e.events = d.events /\ e.due = d.due
           /\ e.pinging = d.pinging /\ e.pushAge = d.pushAge
<1> DEFINE t == d.troubles + k
<1>1. d \in Managers
  BY DEF Sound
<1>2. t \in 0..MaxTroubles
  BY <1>1, Fields, Bounds
<1>3. e = [d EXCEPT !.troubles = t]
  OBVIOUS
<1> HIDE DEF t
<1>4. e \in Managers
  BY <1>1, <1>2, <1>3 DEF Managers
<1>5. /\ e.st = d.st /\ e.idle = d.idle /\ e.mem = d.mem /\ e.size = d.size
      /\ e.events = d.events /\ e.due = d.due /\ e.again = d.again
      /\ e.paused = d.paused /\ e.lastPause = d.lastPause
      /\ e.pinging = d.pinging /\ e.pushAge = d.pushAge
  BY <1>1, <1>3 DEF Managers
<1>6. QED
  BY <1>4, <1>5, MembersCarry DEF Awake

LEMMA Troubled ==
    ASSUME NEW d, Sound(d, {}), d.troubles < MaxTroubles,
           NEW e, e = [d EXCEPT !.troubles = @ + 1]
    PROVE  Carries(d, e)
<1>1. d.troubles \in 0..MaxTroubles /\ MaxTroubles \in Nat
  BY Fields, Bounds DEF Sound
<1>2. d.troubles + 1 <= MaxTroubles
  BY <1>1
<1>3. e = [d EXCEPT !.troubles = d.troubles + 1]
  OBVIOUS
<1>4. QED
  BY <1>2, <1>3, TroubledBy

LEMMA DelayStep ==
    ASSUME IInv, Delay
    PROVE  IInv'
<1>1. PICK d, e, f : d = n /\ e = n' /\ f = [n EXCEPT !.troubles = @ + 1]
  OBVIOUS
<1>2. Sound(d, {}) /\ d.troubles < MaxTroubles /\ f = [d EXCEPT !.troubles = @ + 1] /\ e = Aged(f)
  BY <1>1, LoopType DEF Delay
<1>3. Carries(d, f)
  BY <1>2, Troubled
<1>4. Carries(f, e)
  BY <1>2, <1>3, AgedKeeps DEF Carries
<1>5. Carries(d, e)
  BY <1>3, <1>4, CarriesTrans
<1>6. Carries(n, n')
  BY <1>1, <1>5
<1>7. QED
  BY <1>6, LoopType, ThreadStep DEF Delay

LEMMA WakeStep ==
    ASSUME IInv, Wake
    PROVE  IInv'
<1>1. Carries(n, n')
  BY LoopType DEF Wake, Carries
<1>2. /\ loop \in Loops
      /\ signal \in BOOLEAN
  BY LoopType
<1>3. PICK xs \in SUBSET {x \in Conns : n.st[x] \in Open} :
         loop' = [loop EXCEPT !.pc = "woken", !.timeout = 0, !.rearmed = FALSE,
                              !.polled = xs \cup IF signal THEN {Pipe} ELSE {}]
  BY DEF Wake
<1>4. PICK ps \in SUBSET (Conns \cup {Pipe}) : ps = xs \cup IF signal THEN {Pipe} ELSE {}
  OBVIOUS
<1>5. /\ loop' \in Loops
      /\ loop'.pc = "woken"
  <2>1. 0 \in 0..PushPeriod
    BY Bounds
  <2>2. loop' = [loop EXCEPT !.pc = "woken", !.timeout = 0, !.rearmed = FALSE, !.polled = ps]
    BY <1>3, <1>4
  <2>3. QED
    BY <1>2, <2>1, <2>2 DEF Phases
<1>6. QED
  BY <1>1, <1>2, <1>5, ThreadStep DEF Wake

LEMMA CallEventsStep ==
    ASSUME IInv, CallEvents
    PROVE  IInv'
<1>1. PICK d, e : d = n /\ e = n'
  OBVIOUS
<1>2. Sound(d, {}) /\ e \in CalledEvents(d)
  BY <1>1, LoopType DEF CallEvents
<1>3. Carries(d, e)
  BY <1>2, CalledKeeps
<1>4. Carries(n, n')
  BY <1>1, <1>3
<1>5. /\ loop \in Loops
      /\ signal' \in BOOLEAN /\ loop' = [loop EXCEPT !.pc = "sockets"]
  BY LoopType DEF CallEvents
<1>6. /\ loop' \in Loops
      /\ loop'.pc = "sockets"
  BY <1>5 DEF Phases
<1>7. QED
  BY <1>4, <1>5, <1>6, ThreadStep DEF CallEvents

LEMMA ReadDescriptorStep ==
    ASSUME IInv, ReadDescriptor
    PROVE  IInv'
<1>1. Carries(n, n')
  BY LoopType DEF ReadDescriptor, Carries
<1>2. /\ loop \in Loops
      /\ signal' \in BOOLEAN /\ loop' = [loop EXCEPT !.polled = @ \ {Pipe}] /\ loop.pc = "sockets"
  BY LoopType DEF ReadDescriptor
<1>3. /\ loop' \in Loops
      /\ loop'.pc = "sockets"
  BY <1>2
<1>4. QED
  BY <1>1, <1>2, <1>3, ThreadStep DEF ReadDescriptor

LEMMA HandleSocketStep ==
    ASSUME IInv, HandleSocket
    PROVE  IInv'
<1>1. PICK d, e, f : d = n /\ e = n' /\ f = [n EXCEPT !.troubles = @ + 1]
  OBVIOUS
<1>2. Sound(d, {}) /\ f = [d EXCEPT !.troubles = @ + 1]
  BY <1>1, LoopType
<1>3. /\ loop \in Loops
      /\ signal' \in BOOLEAN /\ loop.pc = "sockets"
  BY LoopType DEF HandleSocket
<1>4. PICK x \in loop.polled \ {Pipe} :
         /\ \/ e \in OnEvent(d, x)
            \/ d.troubles < MaxTroubles /\ e = InternalPush(f)
         /\ loop' = [loop EXCEPT !.polled = @ \ {x}]
  BY <1>1, Zenon DEF HandleSocket
<1>5. x \in Conns
  BY <1>3, <1>4
<1>6. Carries(d, e)
  <2>1. CASE e \in OnEvent(d, x)
    BY <1>2, <1>5, <2>1, EventKeeps
  <2>2. CASE d.troubles < MaxTroubles /\ e = InternalPush(f)
    <3>1. Carries(d, f)
      BY <1>2, <2>2, Troubled
    <3>2. Carries(f, e)
      BY <2>2, <3>1, PushKeeps DEF Carries
    <3>3. QED
      BY <3>1, <3>2, CarriesTrans
  <2>3. QED
    BY <1>4, <2>1, <2>2
<1>7. Carries(n, n')
  BY <1>1, <1>6
<1>8. /\ loop' \in Loops
      /\ loop'.pc = "sockets"
  BY <1>3, <1>4
<1>9. QED
  BY <1>3, <1>7, <1>8, ThreadStep DEF HandleSocket

(* A task more hides no task that is in the queue. *)
LEMMA Queued ==
    ASSUME NEW q \in Seq(TaskNames), NEW task \in TaskNames
    PROVE  /\ Append(q, task) \in Seq(TaskNames)
           /\ task \in Range(Append(q, task)) /\ Range(q) \subseteq Range(Append(q, task))
<1>1. /\ Append(q, task) \in Seq(TaskNames)
      /\ Len(q) \in Nat /\ DOMAIN q = 1..Len(q) /\ DOMAIN Append(q, task) = 1..(Len(q) + 1)
      /\ Append(q, task)[Len(q) + 1] = task /\ \A i \in 1..Len(q) : Append(q, task)[i] = q[i]
  OBVIOUS
<1>2. QED
  BY <1>1 DEF Range

LEMMA HandleBadServerSaltStep ==
    ASSUME IInv, HandleBadServerSalt
    PROVE  IInv'
<1>1. PICK d, e, f : d = n /\ e = n' /\ f = [n EXCEPT !.troubles = @ + 1]
  OBVIOUS
<1>2. /\ Sound(d, {}) /\ f = [d EXCEPT !.troubles = @ + 1] /\ d.troubles < MaxTroubles
  BY <1>1, LoopType DEF HandleBadServerSalt
<1>3. /\ loop \in Loops /\ loop.pc = "sockets" /\ tasks \in Seq(TaskNames) /\ signal \in BOOLEAN
      /\ waking' \in Nat /\ app' \in Apps /\ app' = app
  BY LoopType DEF HandleBadServerSalt
<1>4. PICK x \in loop.polled \ {Pipe} :
         e \in SaltRefused(f, x) /\ loop' = [loop EXCEPT !.polled = @ \ {x}]
  BY <1>1, Zenon DEF HandleBadServerSalt
<1>5. x \in Conns
  BY <1>3, <1>4
<1>6. Carries(d, f)
  BY <1>2, Troubled
<1>7. Carries(f, e)
  BY <1>4, <1>5, <1>6, SaltKeeps DEF Carries
<1>8. Carries(n, n')
  BY <1>1, <1>6, <1>7, CarriesTrans
<1>9. loop' \in Loops /\ loop'.pc = "sockets"
  BY <1>3, <1>4
<1>10. tasks' \in Seq(TaskNames) /\ signal' \in BOOLEAN /\ Range(tasks) \subseteq Range(tasks')
  <2>1. \/ tasks' = tasks /\ signal' = signal
        \/ tasks' = Append(tasks, "send") /\ signal' = TRUE
    BY DEF HandleBadServerSalt
  <2>2. QED
    BY <1>3, <2>1, Queued
<1>11. NoLostWakeup' /\ NeverOversleeps'
  BY <1>9 DEF NoLostWakeup, NeverOversleeps
<1>12. ResumedStaysAwake'
  BY <1>3, <1>8, <1>10 DEF IInv, ResumedStaysAwake, Carries, Awake
<1>13. QED
  BY <1>3, <1>8, <1>9, <1>10, <1>11, <1>12, Kept

LEMMA RestStep ==
    ASSUME IInv, Rest
    PROVE  IInv'
<1>1. PICK d, e : d = n /\ e = n'
  OBVIOUS
<1>2. Sound(d, {})
  BY <1>1, LoopType
<1>3. PICK f \in Rested(d) : e = [f EXCEPT !.mem = Active(f)]
  BY <1>1 DEF Rest
<1>4. Carries(d, f)
  BY <1>2, RestedKeeps
<1>5. Carries(f, e)
  BY <1>3, <1>4, TrimmedKeeps DEF Carries
<1>6. Carries(n, n')
  BY <1>1, <1>4, <1>5, CarriesTrans
<1>7. /\ loop \in Loops
      /\ signal' \in BOOLEAN /\ loop' = [loop EXCEPT !.pc = "tasks"]
  BY LoopType DEF Rest
<1>8. /\ loop' \in Loops
      /\ loop'.pc = "tasks"
  BY <1>7 DEF Phases
<1>9. QED
  BY <1>6, <1>7, <1>8, ThreadStep DEF Rest

----------------------------------------------------------------------------
(* The application. *)
LEMMA PostStep ==
    ASSUME IInv, NEW task \in TaskNames, Post(task),
           app' \in Apps,
           app' = app \/ task = "resume"
    PROVE  IInv'
<1>1. PICK d, e : d = n /\ e = n'
  OBVIOUS
<1>2. /\ Sound(d, {}) /\ tasks \in Seq(TaskNames)
      /\ loop \in Loops /\ signal \in BOOLEAN /\ waking \in Nat
  BY <1>1, LoopType
<1>3. tasks' = Append(tasks, task) /\ loop' = loop
  BY DEF Post
<1>4. PICK late \in 0..1 :
         /\ d.troubles + 1 + late <= MaxTroubles
         /\ e = [d EXCEPT !.troubles = d.troubles + 1 + late]
         /\ waking' = waking + late /\ signal' = (signal \/ late = 0)
  BY <1>1 DEF Post
<1>5. /\ Carries(d, e) /\ e.events = d.events /\ e.due = d.due
      /\ e.pinging = d.pinging /\ e.pushAge = d.pushAge
  <2>1. PICK k \in Nat : k = 1 + late
    OBVIOUS
  <2>2. d.troubles \in 0..MaxTroubles /\ MaxTroubles \in Nat
    BY <1>2, Fields, Bounds DEF Sound
  <2>3. d.troubles + 1 + late = d.troubles + k
    BY <2>1, <2>2
  <2>4. d.troubles + k <= MaxTroubles /\ e = [d EXCEPT !.troubles = d.troubles + k]
    BY <1>4, <2>3
  <2>5. QED
    BY <1>2, <2>4, TroubledBy
<1>6. Carries(n, n')
  BY <1>1, <1>5
<1>7. tasks' \in Seq(TaskNames) /\ task \in Range(tasks') /\ Range(tasks) \subseteq Range(tasks')
  BY <1>2, <1>3, Queued
<1>8. signal' \in BOOLEAN /\ waking' \in Nat
  BY <1>2, <1>4
<1>9. NoLostWakeup'
  <2>1. CASE late = 0
    BY <1>4, <2>1, Zenon DEF NoLostWakeup
  <2>2. CASE late = 1
    <3>1. waking' > 0
      BY <1>2, <1>4, <2>2
    <3>2. QED
      BY <3>1 DEF NoLostWakeup
  <2>3. QED
    BY <2>1, <2>2
<1>10. NeverOversleeps'
  BY <1>1, <1>3, <1>5 DEF IInv, NeverOversleeps
<1>11. ResumedStaysAwake'
  BY <1>6, <1>7 DEF IInv, ResumedStaysAwake, Carries, Awake
<1>12. QED
  BY <1>2, <1>3, <1>6, <1>7, <1>8, <1>9, <1>10, <1>11, Kept

LEMMA WakeupStep ==
    ASSUME IInv, Wakeup
    PROVE  IInv'
<1>1. /\ Sound(n, {}) /\ tasks \in Seq(TaskNames) /\ loop \in Loops
      /\ waking \in Nat /\ app \in Apps
  BY LoopType
<1>2. /\ waking > 0 /\ waking' = waking - 1 /\ signal' = TRUE
      /\ UNCHANGED <<n, loop, tasks, app>>
  BY DEF Wakeup
<1>3. Carries(n, n')
  BY <1>1, <1>2 DEF Carries
<1>4. waking' \in Nat /\ signal' \in BOOLEAN
  BY <1>1, <1>2
<1>5. NoLostWakeup' /\ NeverOversleeps' /\ ResumedStaysAwake'
  BY <1>2 DEF IInv, NoLostWakeup, NeverOversleeps, ResumedStaysAwake
<1>6. QED
  BY <1>1, <1>2, <1>3, <1>4, <1>5, Kept

LEMMA PauseStep ==
    ASSUME IInv, PauseNetwork
    PROVE  IInv'
<1>1. PICK d, e : d = n /\ e = n'
  OBVIOUS
<1> DEFINE lp == IF d.lastPause = None THEN 0 ELSE d.lastPause
           t == d.troubles + 1
<1>2. /\ Sound(d, {}) /\ d \in Managers /\ tasks \in Seq(TaskNames)
      /\ loop \in Loops
      /\ signal \in BOOLEAN /\ waking \in Nat
  BY <1>1, LoopType
<1>3. /\ d.troubles < MaxTroubles /\ e = [d EXCEPT !.lastPause = lp, !.troubles = t]
      /\ app' = [wanted |-> "asleep", overtaken |-> "resume" \in Range(tasks)]
      /\ UNCHANGED <<loop, tasks, signal, waking>>
  BY <1>1 DEF PauseNetwork
<1>4. lp \in (-1)..SleepTimeout /\ t \in 0..MaxTroubles
  <2>1. /\ d.lastPause \in (-1)..SleepTimeout /\ d.troubles \in 0..MaxTroubles
        /\ SleepTimeout \in Nat /\ MaxTroubles \in Nat /\ d.troubles < MaxTroubles
    BY <1>2, <1>3, Fields, Bounds
  <2>2. QED
    BY <2>1
<1> HIDE DEF lp, t
<1>5. e \in Managers
  BY <1>2, <1>3, <1>4 DEF Managers
<1>6. /\ e.st = d.st /\ e.idle = d.idle /\ e.mem = d.mem /\ e.size = d.size
      /\ e.events = d.events /\ e.due = d.due /\ e.again = d.again
      /\ e.pinging = d.pinging /\ e.pushAge = d.pushAge
  BY <1>2, <1>3 DEF Managers
<1>7. Sound(e, {})
  BY <1>2, <1>5, <1>6, Untouched
<1>8. /\ TypeOK'
  <2>1. Open \cup {"Idle", "Reconnecting", "Suspended"} = States
    BY DEF Open, States
  <2>2. None = -1 /\ TimerTicks = 1 /\ Cardinality(Conns) = 3
    BY ThreeConns DEF None, TimerTicks
  <2>3. app' \in Apps
    BY <1>3
  <2>4. n' \in Managers
    BY <1>1, <1>5
  <2>5. /\ tasks' \in Seq(TaskNames)
        /\ loop' \in Loops
        /\ signal' \in BOOLEAN /\ waking' \in Nat
    BY <1>2, <1>3
  <2>6. QED
    BY <2>1, <2>2, <2>3, <2>4, <2>5, Zenon DEF TypeOK, Managers
<1>9. Sound(n', {}) /\ ~n'.again
  BY <1>1, <1>6, <1>7 DEF IInv
<1>10. NoLostWakeup'
  BY <1>3 DEF IInv, NoLostWakeup
<1>11. NeverOversleeps'
  BY <1>1, <1>3, <1>6 DEF IInv, NeverOversleeps
<1>12. ResumedStaysAwake'
  BY <1>3 DEF ResumedStaysAwake
<1>13. QED
  BY <1>8, <1>9, <1>10, <1>11, <1>12 DEF IInv

----------------------------------------------------------------------------
(* The start: a manager without connections pings the push connection. *)
LEMMA FreshSound ==
    ASSUME NEW lp \in {-1, 0}
    PROVE  Sound(Fresh(lp), {}) /\ ~Fresh(lp).again /\ Fresh(lp).lastPause = lp /\ ~Fresh(lp).paused
<1>1. PICK d : d = Fresh(lp)
  OBVIOUS
<1>2. <<>> \in Seq(Conns) /\ lp \in (-1)..SleepTimeout /\ PushCap \in 0..PushCap
      /\ 0 \in 0..(IdleLimit + 1) /\ 0 \in 0..MaxTroubles /\ "Idle" \in States
  BY Bounds DEF States
<1>3. /\ d.st = [x \in Conns |-> "Idle"] /\ d.idle = [x \in Conns |-> 0]
      /\ d.events = <<>> /\ d.mem = <<>> /\ d.size = 0 /\ d.due = [x \in Conns |-> 0]
      /\ d.lastPause = lp /\ d.paused = FALSE /\ d.again = FALSE
  BY <1>1 DEF Fresh
<1>4. d \in Managers
  BY <1>1, <1>2 DEF Fresh, Managers
<1>5. Vector(d, {})
  BY <1>3 DEF Vector, Listed, Open
<1>6. Timers(d)
  BY <1>3 DEF Timers, IsInjective
<1>7. QED
  BY <1>1, <1>3, <1>4, <1>5, <1>6 DEF Sound

LEMMA InitSound == Init => IInv
<1> SUFFICES ASSUME Init PROVE IInv
  OBVIOUS
<1>1. PICK wanted \in {"awake", "asleep"} :
         /\ app = [wanted |-> wanted, overtaken |-> FALSE]
         /\ \E d \in {Fresh(IF wanted = "asleep" THEN 0 ELSE None)} : n \in sendPing(d)
  BY DEF Init
<1>2. PICK lp \in {-1, 0} : lp = (IF wanted = "asleep" THEN 0 ELSE -1)
  OBVIOUS
<1>3. PICK d, e : d = Fresh(lp) /\ e = n
  OBVIOUS
<1>4. e \in sendPing(d)
  BY <1>1, <1>2, <1>3 DEF None
<1>5. Sound(d, {}) /\ ~d.again /\ d.lastPause = lp /\ ~d.paused
  BY <1>3, FreshSound
<1>6. Handles(d, e, "push")
  BY <1>4, <1>5, PingKeeps
<1>7. Sound(e, {}) /\ ~e.again /\ e.lastPause = lp /\ ~e.paused
  BY <1>5, <1>6 DEF Handles, Frame
<1>8. n \in Managers /\ Sound(n, {}) /\ ~n.again
  BY <1>3, <1>7 DEF Sound
<1>9. loop = [pc |-> "tasks", rearmed |-> FALSE, timeout |-> 0, polled |-> {}] /\ tasks = <<>>
      /\ signal = FALSE /\ waking = 0
  BY DEF Init
<1>10. TypeOK
  <2>1. loop \in Loops
    BY <1>9, Bounds DEF Phases
  <2>2. /\ tasks \in Seq(TaskNames) /\ signal \in BOOLEAN /\ waking \in Nat /\ app \in Apps
    <3>1. app \in Apps
      BY <1>1
    <3>2. <<>> \in Seq(TaskNames)
      OBVIOUS
    <3>3. QED
      BY <1>9, <3>1, <3>2
  <2>3. QED
    BY <1>8, <2>1, <2>2, TypesAre
<1>11. NoLostWakeup /\ NeverOversleeps
  BY <1>9 DEF NoLostWakeup, NeverOversleeps
<1>12. ResumedStaysAwake
  <2> SUFFICES ASSUME app.wanted = "awake" PROVE ~n.paused /\ n.lastPause = None
    BY DEF ResumedStaysAwake
  <2>1. wanted = "awake"
    BY <1>1
  <2>2. QED
    BY <1>2, <1>3, <1>7, <2>1 DEF None
<1>13. QED
  BY <1>8, <1>10, <1>11, <1>12 DEF IInv

LEMMA NextKeeps == IInv /\ [Next]_vars => IInv'
<1> SUFFICES ASSUME IInv, [Next]_vars PROVE IInv'
  OBVIOUS
<1>1. CASE CheckPendingTasks
  BY <1>1, CheckPendingTasksStep
<1>2. CASE StartPoll
  BY <1>2, StartPollStep
<1>3. CASE Wake
  BY <1>3, WakeStep
<1>4. CASE CallEvents
  BY <1>4, CallEventsStep
<1>5. CASE ReadDescriptor
  BY <1>5, ReadDescriptorStep
<1>6. CASE HandleSocket
  BY <1>6, HandleSocketStep
<1>7. CASE Rest
  BY <1>7, RestStep
<1>8. CASE Tick
  BY <1>8, TickStep
<1>9. CASE Delay
  BY <1>9, DelayStep
<1>10. CASE Request
  <2>1. PICK task \in {"send", "download", "partial"} : Post(task)
    BY <1>10 DEF Request
  <2>2. app' = app /\ app \in Apps
    BY <1>10, LoopType DEF Request
  <2>3. QED
    BY <2>1, <2>2, PostStep
<1>11. CASE ResumeNetwork
  <2>1. Post("resume") /\ app' = [app EXCEPT !.wanted = "awake"]
    BY <1>11 DEF ResumeNetwork
  <2>2. app \in Apps
    BY LoopType
  <2>3. app' \in Apps
    BY <2>1, <2>2
  <2>4. QED
    BY <2>1, <2>3, PostStep
<1>12. CASE PauseNetwork
  BY <1>12, PauseStep
<1>13. CASE HandleBadServerSalt
  BY <1>13, HandleBadServerSaltStep
<1>14. CASE Wakeup
  BY <1>14, WakeupStep
<1>15. CASE UNCHANGED vars
  BY <1>15 DEF vars, IInv, TypeOK, NoLostWakeup, NeverOversleeps, ResumedStaysAwake
<1>16. QED
  BY <1>1, <1>2, <1>3, <1>4, <1>5, <1>6, <1>7, <1>8, <1>9, <1>10, <1>11, <1>12, <1>13,
     <1>14, <1>15 DEF Next, Thread

LEMMA AlwaysIInv == Spec => []IInv
<1>1. Init => IInv
  BY InitSound
<1>2. IInv /\ [Next]_vars => IInv'
  BY NextKeeps
<1>3. QED
  BY <1>1, <1>2, PTL DEF Spec

LEMMA VectorIsOpen == IInv => ActiveIsOpen
<1> SUFFICES ASSUME IInv PROVE ActiveIsOpen
  OBVIOUS
<1>1. PICK d : d = n
  OBVIOUS
<1>2. d \in Managers /\ Vector(d, {}) /\ d.size <= Len(d.mem) /\ d.size \in 0..3 /\ d.mem \in Seq(Conns)
  BY <1>1, Fields DEF IInv, Sound, Vector
<1>3. \A y : y \in Range(Active(d)) <=> Listed(d, y)
  BY <1>2, ActiveIs
<1>4. \A y : Listed(d, y) => y \in Conns
  BY <1>2 DEF Listed
<1>5. \A y : y \in Range(Active(d)) <=> y \in Conns /\ d.st[y] \in Open
  BY <1>2, <1>3, <1>4 DEF Vector
<1>6. Range(Active(d)) = {x \in Conns : d.st[x] \in Open}
  BY <1>5
<1>7. QED
  BY <1>1, <1>2, <1>6 DEF ActiveIsOpen, Vector

(* What select leaves behind is consistent in every state, for all durations:
   activeConnections holds each connection whose socket is open once and no
   other (attachConnection, detachConnection, and the loop over the vector that
   closes connections while it goes over its slots), checkTimeout closes no
   socket a second time through a stale slot, and once resumeNetwork ran, the
   network neither sleeps nor is on its way to. *)
THEOREM AlwaysLoopSound == Spec => []LoopSound
<1>1. IInv => LoopSound
  BY VectorIsOpen DEF IInv, LoopSound, ClosedOnce
<1>2. QED
  BY <1>1, AlwaysIInv, PTL

(* select never sleeps past what needs it: a task that scheduleTask put into
   the queue while the thread waits in epoll_wait has made the descriptor
   readable or its thread is about to, and the time that callEvents returns ends before the next timer
   (but for the last one called, when it started itself again) and, where it is
   longer than a second, before the push connection needs a ping or runs out of
   time for its answer. *)
THEOREM AlwaysWakesInTime == Spec => []WakesInTime
<1>1. IInv => WakesInTime
  BY DEF IInv, WakesInTime
<1>2. QED
  BY <1>1, AlwaysIInv, PTL
=============================================================================
