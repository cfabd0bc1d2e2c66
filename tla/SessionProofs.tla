---------------------------- MODULE SessionProofs ---------------------------
(***************************************************************************)
(* That the window of processed messages forgets nothing, confirms nothing *)
(* it should not and hands on no message twice, for every limit, every     *)
(* number of messages, lost connections and new sessions.                  *)
(***************************************************************************)
EXTENDS Session, FiniteSetTheorems, SequenceTheorems, TLAPS

----------------------------------------------------------------------------
(* Sets of ids: they are finite, a set that is not empty has a least and a
   greatest member. *)
LEMMA LeastNatural ==
    ASSUME NEW T, T \subseteq Nat, T # {}
    PROVE  \E x \in T : \A y \in T : x <= y
<1>1. PICK x \in T : \A y \in T : ~(<<y, x>> \in OpToRel(<, Nat))
  BY WFMin, NatLessThanWellFounded
<1>2. \A y \in T : ~(y < x)
  BY <1>1 DEF OpToRel
<1>3. \A y \in T : y \in Nat
  OBVIOUS
<1>4. \A y \in T : x <= y
  BY <1>2, <1>3
<1>5. QED
  BY <1>4

LEMMA GreatestNatural ==
    ASSUME NEW T, NEW n \in Nat, T \subseteq 1..n, T # {}
    PROVE  \E x \in T : \A y \in T : y <= x
<1> DEFINE B == {b \in Nat : \A y \in T : y <= b}
<1>1. n \in B
  OBVIOUS
<1>2. PICK b \in B : \A a \in B : b <= a
  BY <1>1, LeastNatural
<1>3. b \in Nat /\ \A y \in T : y <= b
  BY <1>2
<1>4. CASE b \in T
  BY <1>3, <1>4
<1>5. CASE b \notin T
  <2>1. PICK y \in T : y \in 1..n
    OBVIOUS
  <2>2. b # 0 /\ b - 1 \in Nat
    BY <1>3, <2>1
  <2>3. \A z \in T : z <= b - 1
    BY <1>3, <1>5
  <2>4. b - 1 \in B
    BY <2>2, <2>3
  <2>5. b <= b - 1
    BY <1>2, <2>4
  <2>6. QED
    BY <1>3, <2>5
<1>6. QED
  BY <1>4, <1>5

LEMMA IdsFinite ==
    /\ Ids \subseteq 1..MaxId /\ Ids \subseteq Nat /\ MaxId \in Nat
    /\ \A T : T \subseteq Ids => IsFiniteSet(T) /\ Cardinality(T) \in Nat
<1>1. Ids \subseteq 1..MaxId /\ Ids \subseteq Nat /\ MaxId \in Nat
  BY SessionAssumption DEF Ids
<1>2. IsFiniteSet(1..MaxId)
  BY <1>1, FS_Interval
<1>3. ASSUME NEW T, T \subseteq Ids PROVE IsFiniteSet(T) /\ Cardinality(T) \in Nat
  <2>1. T \in SUBSET (1..MaxId)
    BY <1>1, <1>3
  <2>2. IsFiniteSet(T)
    BY <1>2, <2>1, FS_Subset
  <2>3. QED
    BY <2>2, FS_CardinalityType
<1>4. QED
  BY <1>1, <1>3

LEMMA LeastId ==
    ASSUME NEW S, S \subseteq Ids, S # {}
    PROVE  Least(S) \in S /\ \A y \in S : Least(S) <= y
<1>1. \E x \in S : \A y \in S : x <= y
  BY IdsFinite, LeastNatural
<1>2. QED
  BY <1>1 DEF Least

(* Smallest(n, S), which the pruning removes: at least one member and at most
   n of them, all below those that stay. *)
LEMMA SmallestBelow ==
    ASSUME NEW S, S \subseteq Ids, NEW n \in Nat,
           NEW x \in Smallest(n, S), NEW y \in S \ Smallest(n, S)
    PROVE  x < y
<1>1. x \in S /\ y \in S /\ x \in Nat /\ y \in Nat
  BY IdsFinite DEF Smallest
<1> DEFINE X == {z \in S : z < x}
           Y == {z \in S : z < y}
<1>2. Cardinality(X) < n /\ ~(Cardinality(Y) < n) /\ x # y
  BY DEF Smallest
<1>3. /\ IsFiniteSet(X) /\ Cardinality(X) \in Nat
      /\ IsFiniteSet(Y) /\ Cardinality(Y) \in Nat
  BY IdsFinite
<1>4. CASE y < x
  <2>1. Y \in SUBSET X
    <3>1. \A z \in S : z \in Nat
      BY IdsFinite
    <3>2. ASSUME NEW z \in S, z < y PROVE z < x
      BY <1>1, <1>4, <3>1, <3>2
    <3>3. QED
      BY <3>2
  <2> HIDE DEF X, Y
  <2>2. Cardinality(Y) <= Cardinality(X)
    BY <1>3, <2>1, FS_Subset
  <2>3. QED
    BY <1>2, <1>3, <2>2
<1>5. QED
  BY <1>1, <1>2, <1>4

LEMMA SmallestSize ==
    ASSUME NEW S, S \subseteq Ids, S # {}, NEW n \in Nat, n > 0
    PROVE  /\ Smallest(n, S) \subseteq S
           /\ Cardinality(Smallest(n, S)) \in 1..n
           /\ \E x \in Smallest(n, S) : \A y \in S : x <= y
<1> DEFINE T == Smallest(n, S)
<1>1. T \subseteq S /\ T \subseteq Ids /\ T \subseteq 1..MaxId
  BY IdsFinite DEF Smallest
<1>2. PICK x \in S : \A y \in S : x <= y
  BY IdsFinite, LeastNatural
<1>3. x \in T
  <2>1. {y \in S : y < x} = {}
    <3>1. \A z \in S : z \in Nat
      BY IdsFinite
    <3>2. QED
      BY <1>2, <3>1
  <2>2. Cardinality({y \in S : y < x}) = 0
    BY <2>1, FS_EmptySet
  <2>3. QED
    BY <2>2 DEF Smallest
<1>4. IsFiniteSet(T) /\ Cardinality(T) \in Nat
  BY <1>1, IdsFinite
<1>5. Cardinality(T) # 0
  BY <1>3, <1>4, FS_EmptySet
<1>6. PICK g \in T : \A y \in T : y <= g
  BY <1>1, <1>3, IdsFinite, GreatestNatural
<1> DEFINE G == {y \in S : y < g}
<1>7. Cardinality(G) < n /\ IsFiniteSet(G) /\ Cardinality(G) \in Nat
  BY <1>6, IdsFinite DEF Smallest
<1>8. T \ {g} \in SUBSET G
  BY <1>1, <1>6, IdsFinite
<1> HIDE DEF T, G
<1>9. IsFiniteSet(T \ {g}) /\ Cardinality(T \ {g}) = Cardinality(T) - 1
  BY <1>4, <1>6, FS_RemoveElement
<1>10. Cardinality(T \ {g}) <= Cardinality(G)
  BY <1>7, <1>8, FS_Subset
<1>11. Cardinality(T) \in 1..n
  BY <1>4, <1>5, <1>7, <1>9, <1>10
<1>12. QED
  BY <1>1, <1>2, <1>3, <1>11 DEF T

----------------------------------------------------------------------------
(* The session of the client, as the handlers pass it on. *)
Sessions ==
    [processed : SUBSET Ids, min : Ids \cup {0}, confirm : SUBSET Ids,
     session : Nat, delivered : [Ids -> 0..2], seen : SUBSET Ids]

(* The id will be taken for that of a processed message. *)
Known(s, i) == i \in s.processed \/ i < s.min

Window == Limit + 1 - Prune

(* The list is never longer than the limit and one; minProcessedMessageId is
   the id of a message that was processed, and so are Limit + 1 - Prune ids from
   it on; of the ids in the list at most one, that of the message for which it
   was last pruned, is below it. *)
ListInOrder(s) ==
    /\ s \in Sessions
    /\ Cardinality(s.processed) <= Limit + 1
    /\ s.processed \subseteq s.seen
    /\ s.min # 0 => s.min \in s.seen /\ Cardinality({j \in s.seen : j >= s.min}) >= Window
    /\ \A i, j \in s.processed : i < s.min /\ j < s.min => i = j

(* A message that may be confirmed: it was handed on, or it is older than the
   window. *)
Covered(s, i) == s.delivered[i] > 0 \/ Cardinality({j \in s.seen : j > i}) >= Window

(* All that is to be confirmed may be. *)
ConfirmsCovered(s) == \A i \in s.confirm : Covered(s, i)

(* A message that the library parses was handed on once at most, and then
   remembered, but for the ids X of messages that are being handled. *)
HandedOnce(s, X) ==
    \A i \in Ids \ Unparsed :
        s.delivered[i] <= 1 /\ (s.delivered[i] = 1 => i \in s.seen \cup X)

(* What was handed on and seen stays so. *)
Grows(s, t) ==
    /\ s.seen \subseteq t.seen
    /\ \A i \in Ids : s.delivered[i] <= t.delivered[i]

(* A handler that stays in the session forgets nothing: what was taken for
   processed still is, and so is all that was seen since. *)
Extends(s, t) ==
    /\ Grows(s, t) /\ t.session = s.session
    /\ \A i \in Ids : Known(s, i) => Known(t, i)
    /\ \A i \in t.seen : i \in s.seen \/ Known(t, i)

LEMMA ExtendsTransitive ==
    ASSUME NEW s \in Sessions, NEW t \in Sessions, NEW u \in Sessions,
           Extends(s, t), Extends(t, u)
    PROVE  Extends(s, u)
<1>1. /\ s.delivered \in [Ids -> 0..2] /\ t.delivered \in [Ids -> 0..2]
      /\ u.delivered \in [Ids -> 0..2] /\ t.seen \subseteq Ids /\ u.seen \subseteq Ids
  BY DEF Sessions
<1>2. \A i \in Ids : s.delivered[i] <= u.delivered[i]
  BY <1>1 DEF Extends, Grows
<1>3. \A i \in u.seen : i \in s.seen \/ Known(u, i)
  BY <1>1 DEF Extends, Grows
<1>4. QED
  BY <1>2, <1>3 DEF Extends, Grows

LEMMA ExtendsItself ==
    ASSUME NEW s \in Sessions
    PROVE  Extends(s, s)
  BY DEF Extends, Grows, Sessions

LEMMA CoveredStays ==
    ASSUME NEW s \in Sessions, NEW t \in Sessions, Grows(s, t), NEW i \in Ids, Covered(s, i)
    PROVE  Covered(t, i)
<1>1. CASE s.delivered[i] > 0
  BY <1>1 DEF Covered, Grows, Sessions
<1>2. CASE Cardinality({j \in s.seen : j > i}) >= Window
  <2> DEFINE A == {j \in s.seen : j > i}
             B == {j \in t.seen : j > i}
  <2>1. A \in SUBSET B /\ A \subseteq Ids /\ B \subseteq Ids
    BY DEF Extends, Grows, Sessions
  <2> HIDE DEF A, B
  <2>2. Cardinality(A) <= Cardinality(B) /\ Cardinality(A) \in Nat /\ Cardinality(B) \in Nat
    BY <2>1, IdsFinite, FS_Subset
  <2>3. Window \in Int
    BY SessionAssumption DEF Window
  <2>4. Cardinality(B) >= Window
    BY <1>2, <2>2, <2>3 DEF A
  <2>5. QED
    BY <2>4 DEF Covered, B
<1>3. QED
  BY <1>1, <1>2 DEF Covered

(* addProcessedMessageId, for an id that is not taken for processed. *)
LEMMA AddProcessed ==
    ASSUME NEW s, ListInOrder(s), NEW id \in Ids, ~Known(s, id)
    PROVE  LET t == addProcessedMessageId(s, id) IN
           /\ ListInOrder(t) /\ Extends(s, t) /\ Known(t, id)
           /\ t.seen = s.seen \cup {id} /\ t.confirm = s.confirm /\ t.delivered = s.delivered
<1>1. /\ s \in Sessions /\ s.processed \subseteq Ids /\ s.seen \subseteq Ids /\ s.min \in Ids \cup {0}
      /\ s.min \in Nat /\ id \in Nat /\ s.processed \subseteq s.seen /\ s.delivered \in [Ids -> 0..2]
      /\ \A i \in Ids : i \in Nat /\ i # 0
  <2>1. \A i \in Ids : i \in Nat /\ i # 0
    BY IdsFinite
  <2>2. /\ s \in Sessions /\ s.processed \subseteq Ids /\ s.seen \subseteq Ids
        /\ s.min \in Ids \cup {0} /\ s.processed \subseteq s.seen
        /\ s.delivered \in [Ids -> 0..2]
    BY DEF ListInOrder, Sessions
  <2>3. s.min \in Nat /\ id \in Nat
    BY <2>1, <2>2
  <2>4. QED
    BY <2>1, <2>2, <2>3
<1>2. id \notin s.processed /\ ~(id < s.min)
  BY DEF Known
<1>3. Limit \in Nat /\ Prune \in 1..Limit /\ Window \in 1..Limit
  BY SessionAssumption DEF Window
<1> DEFINE full == Cardinality(s.processed) > Limit
           small == Smallest(Prune, s.processed)
           kept == IF full THEN s.processed \ small ELSE s.processed
           min == IF full THEN Least(kept) ELSE s.min
           t == addProcessedMessageId(s, id)
<1>4. t = [s EXCEPT !.processed = kept \cup {id}, !.seen = s.seen \cup {id}, !.min = min]
  BY Zenon DEF addProcessedMessageId
<1>5. Cardinality(s.processed) \in Nat /\ Cardinality(s.processed) <= Limit + 1
      /\ IsFiniteSet(s.processed)
  BY <1>1, IdsFinite DEF ListInOrder
<1>6. CASE ~full
  <2>1. kept = s.processed /\ min = s.min
    BY <1>6
  <2>2. Cardinality(s.processed \cup {id}) <= Limit + 1
    <3>1. Cardinality(s.processed \cup {id}) = Cardinality(s.processed) + 1
      BY <1>2, <1>5, FS_AddElement
    <3>2. QED
      BY <1>3, <1>5, <1>6, <3>1
  <2> HIDE DEF t, kept, min
  <2>3. /\ t \in Sessions /\ t.processed = s.processed \cup {id} /\ t.seen = s.seen \cup {id}
        /\ t.min = s.min /\ t.confirm = s.confirm /\ t.delivered = s.delivered /\ t.session = s.session
    <3>1. s.processed \cup {id} \in SUBSET Ids /\ s.seen \cup {id} \in SUBSET Ids
      BY <1>1
    <3>2. t \in Sessions
      BY <1>1, <1>4, <2>1, <3>1, Zenon DEF Sessions
    <3>3. QED
      BY <1>1, <1>4, <2>1, <3>2 DEF Sessions
  <2>4. s.min # 0 => Cardinality({j \in t.seen : j >= s.min}) >= Window
    <3> DEFINE A == {j \in s.seen : j >= s.min}
               B == {j \in t.seen : j >= s.min}
    <3>1. A \in SUBSET B /\ A \subseteq Ids /\ B \subseteq Ids
      BY <1>1, <2>3
    <3> HIDE DEF A, B
    <3>2. Cardinality(A) <= Cardinality(B) /\ Cardinality(A) \in Nat /\ Cardinality(B) \in Nat
      BY <3>1, IdsFinite, FS_Subset
    <3>3. s.min # 0 => Cardinality(A) >= Window
      BY DEF ListInOrder, A
    <3>4. s.min # 0 => Cardinality(B) >= Window
      BY <1>3, <3>2, <3>3
    <3>5. QED
      BY <3>4 DEF B
  <2>5. \A i, j \in t.processed : i < t.min /\ j < t.min => i = j
    BY <1>2, <2>3 DEF ListInOrder
  <2>6. ListInOrder(t)
    BY <1>1, <2>2, <2>3, <2>4, <2>5 DEF ListInOrder
  <2>7. Extends(s, t) /\ Known(t, id)
    BY <1>1, <2>3 DEF Extends, Grows, Known
  <2>8. QED
    BY <2>3, <2>6, <2>7 DEF t
<1>7. CASE full
  <2>1. Cardinality(s.processed) = Limit + 1 /\ s.processed # {}
    BY <1>3, <1>5, <1>7, FS_EmptySet
  <2>2. /\ small \subseteq s.processed /\ Cardinality(small) \in 1..Prune
        /\ \E x \in small : \A y \in s.processed : x <= y
    BY <1>1, <1>3, <2>1, SmallestSize
  <2>3. \A x \in small, y \in s.processed \ small : x < y
    BY <1>1, <1>3, SmallestBelow
  <2> HIDE DEF small, t
  <2>4. kept = s.processed \ small /\ kept \subseteq Ids /\ kept \subseteq s.seen
    BY <1>1, <1>7
  <2>5. IsFiniteSet(kept) /\ Cardinality(kept) = Limit + 1 - Cardinality(small)
    <3>1. s.processed \cap small = small
      BY <2>2
    <3>2. /\ IsFiniteSet(s.processed \ small)
          /\ Cardinality(s.processed \ small)
               = Cardinality(s.processed) - Cardinality(s.processed \cap small)
      BY <1>5, FS_Difference
    <3>3. Cardinality(s.processed \ small) = Limit + 1 - Cardinality(small)
      <4>1. Cardinality(s.processed \cap small) = Cardinality(small)
        BY <3>1
      <4>2. QED
        BY <1>3, <2>1, <2>2, <3>2, <4>1
    <3>4. IsFiniteSet(kept)
      BY <2>4, <3>2
    <3>5. Cardinality(kept) = Cardinality(s.processed \ small)
      BY <2>4
    <3>6. QED
      BY <3>3, <3>4, <3>5
  <2>6. kept # {} /\ Cardinality(kept) \in Nat /\ Cardinality(kept) <= Limit
        /\ Cardinality(kept) >= Window
    <3>1. Cardinality(kept) <= Limit /\ Cardinality(kept) >= Window /\ Cardinality(kept) # 0
          /\ Cardinality(kept) \in Nat
      BY <1>3, <2>2, <2>5 DEF Window
    <3>2. QED
      BY <3>1, FS_EmptySet
  <2>7. min \in kept /\ \A y \in kept : min <= y
    BY <1>7, <2>4, <2>6, LeastId
  <2> HIDE DEF kept, min
  <2>8. Cardinality(kept \cup {id}) <= Limit + 1
    <3>1. Cardinality(kept \cup {id}) = Cardinality(kept) \/ Cardinality(kept \cup {id}) = Cardinality(kept) + 1
      BY <2>5, FS_AddElement
    <3>2. QED
      BY <1>3, <2>6, <3>1
  <2>9. /\ t \in Sessions /\ t.processed = kept \cup {id} /\ t.seen = s.seen \cup {id}
        /\ t.min = min /\ t.confirm = s.confirm /\ t.delivered = s.delivered /\ t.session = s.session
    <3>1. kept \cup {id} \in SUBSET Ids /\ s.seen \cup {id} \in SUBSET Ids /\ min \in Ids \cup {0}
      BY <1>1, <2>4, <2>7
    <3>2. t \in Sessions
      BY <1>1, <1>4, <3>1, Zenon DEF Sessions
    <3>3. QED
      BY <1>1, <1>4, <3>2 DEF Sessions
  <2>10. Cardinality({j \in t.seen : j >= min}) >= Window
    <3> DEFINE B == {j \in t.seen : j >= min}
    <3>1. kept \in SUBSET B /\ B \subseteq Ids
      BY <1>1, <2>4, <2>7, <2>9
    <3> HIDE DEF B
    <3>2. Cardinality(kept) <= Cardinality(B) /\ Cardinality(B) \in Nat
      BY <3>1, IdsFinite, FS_Subset
    <3>3. Cardinality(B) >= Window
      BY <1>3, <2>6, <3>2
    <3>4. QED
      BY <3>3 DEF B
  <2>11. s.min <= min
    <3>1. PICK x \in small : \A y \in s.processed : x <= y
      BY <2>2
    <3>2. x \in s.processed /\ min \in s.processed /\ x < min /\ x \in Nat /\ min \in Nat
      BY <1>1, <2>2, <2>3, <2>4, <2>7, <3>1
    <3>3. CASE min < s.min
      <4>1. x < s.min
        BY <1>1, <3>2, <3>3
      <4>2. x = min
        BY <3>2, <3>3, <4>1 DEF ListInOrder
      <4>3. QED
        BY <3>2, <4>2
    <3>4. QED
      BY <1>1, <3>2, <3>3
  <2>12. \A i, j \in t.processed : i < t.min /\ j < t.min => i = j
    <3>1. \A i \in kept : ~(i < min)
      BY <1>1, <2>4, <2>7
    <3>2. QED
      BY <2>9, <3>1
  <2>13. ListInOrder(t)
    BY <1>1, <2>4, <2>7, <2>8, <2>9, <2>10, <2>12 DEF ListInOrder
  <2>14. \A i \in Ids : Known(s, i) => Known(t, i)
    <3>1. TAKE i \in Ids
    <3>2. CASE i < s.min
      <4>1. i \in Nat /\ s.min \in Nat /\ min \in Nat
        BY <1>1, <2>4, <2>7
      <4>2. i < min
        BY <2>11, <3>2, <4>1
      <4>3. QED
        BY <2>9, <4>2 DEF Known
    <3>3. CASE i \in s.processed
      <4>1. CASE i \in small
        BY <2>3, <2>4, <2>7, <2>9, <4>1 DEF Known
      <4>2. CASE i \notin small
        BY <2>4, <2>9, <3>3, <4>2 DEF Known
      <4>3. QED
        BY <4>1, <4>2
    <3>4. QED
      BY <3>2, <3>3 DEF Known
  <2>15. Extends(s, t) /\ Known(t, id)
    BY <1>1, <2>9, <2>14 DEF Extends, Grows, Known
  <2>16. QED
    BY <2>9, <2>13, <2>15 DEF t
<1>8. QED
  BY <1>6, <1>7
----------------------------------------------------------------------------
(* isMessageIdProcessed, for the odd ids of the server. *)
LEMMA IsProcessed ==
    ASSUME NEW s \in Sessions, NEW id \in Ids
    PROVE  isMessageIdProcessed(s, id) <=> Known(s, id)
<1>1. id \in Nat /\ id % 2 # 0
  BY IdsFinite DEF Ids
<1>2. s.min = 0 => ~(id < s.min)
  BY <1>1
<1>3. QED
  BY <1>1, <1>2 DEF isMessageIdProcessed, Known

LEMMA ListSame ==
    ASSUME NEW s, NEW t \in Sessions, ListInOrder(s),
           t.processed = s.processed, t.min = s.min, t.seen = s.seen
    PROVE  ListInOrder(t)
  BY Zenon DEF ListInOrder

(* addMessageToConfirm and the handing on of a message leave the list alone. *)
LEMMA AddConfirm ==
    ASSUME NEW s, ListInOrder(s), NEW id \in Ids
    PROVE  LET t == addMessageToConfirm(s, id) IN
           /\ ListInOrder(t) /\ Extends(s, t) /\ t.confirm \subseteq s.confirm \cup {id}
           /\ t.processed = s.processed /\ t.min = s.min /\ t.seen = s.seen
           /\ t.delivered = s.delivered
<1>1. s \in Sessions
  BY DEF ListInOrder
<1> DEFINE c == s.confirm \cup {id}
           u == [s EXCEPT !.confirm = c]
           t == addMessageToConfirm(s, id)
<1>2. c \in SUBSET Ids
  BY <1>1 DEF Sessions
<1>3. t = s \/ t = u
  BY Zenon DEF addMessageToConfirm
<1> HIDE DEF t
<1>4. u \in Sessions
  <2> HIDE DEF c
  <2>1. QED
    BY <1>1, <1>2, Zenon DEF Sessions
<1>5. /\ t \in Sessions /\ t.confirm \subseteq s.confirm \cup {id}
      /\ t.processed = s.processed /\ t.min = s.min /\ t.seen = s.seen
      /\ t.delivered = s.delivered /\ t.session = s.session
  BY <1>1, <1>3, <1>4 DEF Sessions
<1>6. ListInOrder(t)
  BY <1>5, ListSame
<1>7. Extends(s, t)
  BY <1>1, <1>5 DEF Extends, Grows, Known, Sessions
<1>8. QED
  BY <1>5, <1>6, <1>7 DEF t

LEMMA HandOn ==
    ASSUME NEW s, ListInOrder(s), NEW id \in Ids
    PROVE  LET t == HandedOn(s, id) IN
           /\ ListInOrder(t) /\ Extends(s, t) /\ t.confirm = s.confirm
           /\ t.processed = s.processed /\ t.min = s.min /\ t.seen = s.seen
           /\ t.delivered[id] = (IF s.delivered[id] < 2 THEN s.delivered[id] + 1 ELSE 2)
           /\ \A i \in Ids \ {id} : t.delivered[i] = s.delivered[i]
<1>1. s \in Sessions /\ s.delivered \in [Ids -> 0..2]
  BY DEF ListInOrder, Sessions
<1> DEFINE n == IF s.delivered[id] < 2 THEN s.delivered[id] + 1 ELSE 2
           d == [s.delivered EXCEPT ![id] = n]
           t == HandedOn(s, id)
<1>2. n \in 0..2 /\ n >= s.delivered[id]
  BY <1>1
<1>3. t = [s EXCEPT !.delivered = d]
  BY Zenon DEF HandedOn
<1>4. d \in [Ids -> 0..2] /\ d[id] = n /\ \A i \in Ids \ {id} : d[i] = s.delivered[i]
  <2> HIDE DEF n
  <2>1. QED
    BY <1>1, <1>2
<1>5. \A i \in Ids : s.delivered[i] <= d[i]
  <2> HIDE DEF d, n
  <2>1. QED
    BY <1>1, <1>2, <1>4
<1> HIDE DEF d, t
<1>6. t \in Sessions
  BY <1>1, <1>3, <1>4, Zenon DEF Sessions
<1>7. /\ t.confirm = s.confirm /\ t.session = s.session
      /\ t.processed = s.processed /\ t.min = s.min /\ t.seen = s.seen /\ t.delivered = d
  BY <1>1, <1>3 DEF Sessions
<1>8. ListInOrder(t)
  BY <1>6, <1>7, ListSame
<1>9. Extends(s, t)
  BY <1>1, <1>5, <1>7 DEF Extends, Grows, Known, Sessions
<1>10. QED
  BY <1>4, <1>7, <1>8, <1>9 DEF t

(* What a handler of one message keeps. *)
Keeps(s, t, X) ==
    /\ ListInOrder(t) /\ ConfirmsCovered(t) /\ HandedOnce(t, {})
    /\ Extends(s, t) /\ t.seen \subseteq s.seen \cup X

(* A message whose id is taken for processed: it is confirmed again, which it
   may be, for it is in the list, and so handed on, or below the bound. *)
LEMMA BelowBound ==
    ASSUME NEW s, ListInOrder(s), NEW id \in Ids, id < s.min
    PROVE  Covered(s, id)
<1>1. s \in Sessions /\ s.min \in Ids \cup {0} /\ s.seen \subseteq Ids /\ id \in Nat /\ Window \in Int
      /\ \A i \in Ids : i \in Nat
  BY IdsFinite, SessionAssumption DEF ListInOrder, Sessions, Window
<1>2. s.min # 0 /\ s.min \in Nat
  <2>1. s.min \in Nat
    <3>1. 0 \in Nat
      OBVIOUS
    <3>2. QED
      BY <1>1, <3>1, Zenon
  <2>2. QED
    BY <1>1, <2>1
<1> DEFINE A == {j \in s.seen : j >= s.min}
           B == {j \in s.seen : j > id}
<1>3. A \in SUBSET B /\ A \subseteq Ids /\ B \subseteq Ids
  <2>1. ASSUME NEW j \in s.seen, j >= s.min PROVE j > id
    <3>1. j \in Nat
      BY <1>1
    <3>2. QED
      BY <1>1, <1>2, <2>1, <3>1
  <2>2. QED
    BY <1>1, <2>1
<1>4. Cardinality(A) >= Window
  BY <1>2 DEF ListInOrder
<1> HIDE DEF A, B
<1>5. Cardinality(A) <= Cardinality(B) /\ Cardinality(A) \in Nat /\ Cardinality(B) \in Nat
  BY <1>3, IdsFinite, FS_Subset
<1>6. Cardinality(B) >= Window
  BY <1>1, <1>4, <1>5
<1>7. QED
  BY <1>6 DEF Covered, B

LEMMA Refused ==
    ASSUME NEW s, ListInOrder(s), ConfirmsCovered(s), HandedOnce(s, {}),
           NEW id \in Ids, Known(s, id)
    PROVE  Keeps(s, addMessageToConfirm(s, id), {id})
<1> DEFINE t == addMessageToConfirm(s, id)
<1>1. CASE id \in s.processed
  <2>1. t = s
    BY <1>1, Zenon DEF addMessageToConfirm
  <2> HIDE DEF t
  <2>2. s \in Sessions
    BY DEF ListInOrder
  <2>3. Extends(s, t)
    BY <2>1, <2>2, ExtendsItself
  <2>4. QED
    BY <2>1, <2>3 DEF Keeps, t
<1>2. CASE id < s.min
  <2>1. /\ ListInOrder(t) /\ Extends(s, t) /\ t.confirm \subseteq s.confirm \cup {id}
        /\ t.seen = s.seen /\ t.delivered = s.delivered
    BY AddConfirm
  <2> HIDE DEF t
  <2>2. \A i \in t.confirm : Covered(t, i)
    <3>1. \A i \in t.confirm : Covered(s, i)
      BY <1>2, <2>1, BelowBound DEF ConfirmsCovered
    <3>2. \A i \in t.confirm : i \in Ids
      BY <2>1 DEF ListInOrder, Sessions
    <3>3. QED
      BY <2>1, <3>1, <3>2 DEF Covered
  <2>3. QED
    BY <2>1, <2>2 DEF Keeps, ConfirmsCovered, HandedOnce, t
<1>3. QED
  BY <1>1, <1>2 DEF Known

(* A message that is handed on may be confirmed from then on; if the library
   parses it, it was never handed on before. *)
LEMMA Handled ==
    ASSUME NEW s, ListInOrder(s), ConfirmsCovered(s), HandedOnce(s, {}),
           NEW id \in Ids, ~Known(s, id), id \in s.seen => Known(s, id)
    PROVE  LET t == HandedOn(addMessageToConfirm(s, id), id) IN
           /\ ListInOrder(t) /\ ConfirmsCovered(t) /\ Extends(s, t) /\ t.seen = s.seen
           /\ HandedOnce(t, {id}) /\ ~Known(t, id)
           /\ id \in Unparsed => HandedOnce(t, {})
<1> DEFINE u == addMessageToConfirm(s, id)
           t == HandedOn(u, id)
<1>1. /\ ListInOrder(u) /\ Extends(s, u) /\ u.confirm \subseteq s.confirm \cup {id}
      /\ u.processed = s.processed /\ u.min = s.min /\ u.seen = s.seen
      /\ u.delivered = s.delivered
  BY AddConfirm
<1> HIDE DEF u
<1>2. /\ ListInOrder(t) /\ Extends(u, t) /\ t.confirm = u.confirm
      /\ t.processed = u.processed /\ t.min = u.min /\ t.seen = u.seen
      /\ t.delivered[id] = (IF u.delivered[id] < 2 THEN u.delivered[id] + 1 ELSE 2)
      /\ \A i \in Ids \ {id} : t.delivered[i] = u.delivered[i]
  BY <1>1, HandOn
<1> HIDE DEF t
<1>3. s \in Sessions /\ u \in Sessions /\ t \in Sessions /\ s.delivered \in [Ids -> 0..2]
      /\ t.confirm \subseteq Ids
  BY <1>1, <1>2 DEF ListInOrder, Sessions
<1>4. Extends(s, t)
  BY <1>1, <1>2, <1>3, ExtendsTransitive
<1>5. t.delivered[id] > 0
  BY <1>1, <1>2, <1>3
<1>6. ConfirmsCovered(t)
  <2>1. ASSUME NEW i \in t.confirm PROVE Covered(t, i)
    <3>1. CASE i = id
      BY <1>5, <3>1 DEF Covered
    <3>2. CASE i # id
      <4>1. Covered(s, i)
        BY <1>1, <1>2, <3>2 DEF ConfirmsCovered
      <4>2. Grows(s, t)
        BY <1>4 DEF Extends
      <4>3. QED
        BY <1>3, <4>1, <4>2, CoveredStays
    <3>3. QED
      BY <3>1, <3>2
  <2>2. QED
    BY <2>1 DEF ConfirmsCovered
<1>7. id \notin Unparsed => t.delivered[id] = 1
  <2>1. id \notin Unparsed => s.delivered[id] = 0
    BY <1>3 DEF HandedOnce
  <2>2. QED
    BY <1>1, <1>2, <2>1
<1>8. HandedOnce(t, {id}) /\ (id \in Unparsed => HandedOnce(t, {}))
  <2>1. \A i \in Ids \ Unparsed : i # id => t.delivered[i] <= 1 /\ (t.delivered[i] = 1 => i \in t.seen)
    BY <1>1, <1>2 DEF HandedOnce
  <2>2. QED
    BY <1>7, <2>1 DEF HandedOnce
<1>9. ~Known(t, id)
  BY <1>1, <1>2 DEF Known
<1>10. QED
  BY <1>1, <1>2, <1>4, <1>6, <1>8, <1>9 DEF t, u

(* ... and then remembered. *)
LEMMA Remembered ==
    ASSUME NEW s, ListInOrder(s), ConfirmsCovered(s), NEW id \in Ids, ~Known(s, id),
           HandedOnce(s, {id})
    PROVE  Keeps(s, addProcessedMessageId(s, id), {id})
<1> DEFINE t == addProcessedMessageId(s, id)
<1>1. /\ ListInOrder(t) /\ Extends(s, t) /\ Known(t, id)
      /\ t.seen = s.seen \cup {id} /\ t.confirm = s.confirm /\ t.delivered = s.delivered
  BY AddProcessed
<1> HIDE DEF t
<1>2. s \in Sessions /\ t \in Sessions /\ s.confirm \subseteq Ids /\ Grows(s, t)
  BY <1>1 DEF ListInOrder, Sessions, Extends
<1>3. ConfirmsCovered(t)
  BY <1>1, <1>2, CoveredStays DEF ConfirmsCovered
<1>4. HandedOnce(t, {})
  BY <1>1 DEF HandedOnce
<1>5. QED
  BY <1>1, <1>3, <1>4 DEF Keeps, t

----------------------------------------------------------------------------
(* The loop over a container, one message and all of them: a server puts one
   or two into a container. *)
LEMMA InnerKeeps ==
    ASSUME NEW s, ListInOrder(s), ConfirmsCovered(s), HandedOnce(s, {}),
           NEW id \in Ids, id \in s.seen => Known(s, id)
    PROVE  Keeps(s, Inner(s, id), {id})
<1> DEFINE t == addMessageToConfirm(s, id)
           u == HandedOn(t, id)
<1>1. ListInOrder(t) /\ t.processed = s.processed /\ t.min = s.min
  BY AddConfirm
<1>2. isMessageIdProcessed(t, id) <=> Known(s, id)
  <2>1. t \in Sessions /\ (Known(t, id) <=> Known(s, id))
    BY <1>1, Zenon DEF ListInOrder, Known
  <2>2. QED
    BY <2>1, IsProcessed
<1>3. CASE Known(s, id)
  <2>1. Inner(s, id) = t
    BY <1>2, <1>3, Zenon DEF Inner
  <2>2. QED
    BY <1>3, <2>1, Refused
<1>4. CASE ~Known(s, id)
  <2>1. Inner(s, id) = addProcessedMessageId(u, id)
    BY <1>2, <1>4, Zenon DEF Inner
  <2>2. /\ ListInOrder(u) /\ ConfirmsCovered(u) /\ Extends(s, u) /\ u.seen = s.seen
        /\ HandedOnce(u, {id}) /\ ~Known(u, id)
    BY <1>4, Handled
  <2> DEFINE v == addProcessedMessageId(u, id)
  <2> HIDE DEF u
  <2>3. Keeps(u, v, {id})
    BY <2>2, Remembered
  <2> HIDE DEF v
  <2>4. Extends(s, v)
    BY <2>2, <2>3, ExtendsTransitive DEF Keeps, ListInOrder
  <2>5. Keeps(s, v, {id})
    BY <2>2, <2>3, <2>4 DEF Keeps
  <2>6. QED
    BY <2>1, <2>5 DEF v
<1>5. QED
  BY <1>3, <1>4

LEMMA InnerAllOf ==
    ASSUME NEW s, NEW ids \in Seq(Ids), Len(ids) \in {1, 2}
    PROVE  InnerAll(s, ids) = IF Len(ids) = 1 THEN Inner(s, ids[1])
                              ELSE Inner(Inner(s, ids[1]), ids[2])
<1> DEFINE one == Inner(s, ids[1])
           two == Inner(one, ids[2])
           Body(f, n) == IF n = 0 THEN s ELSE Inner(f[n - 1], ids[n])
           run[n \in 0..Len(ids)] == IF n = 0 THEN s ELSE Inner(run[n - 1], ids[n])
           g == [n \in 0..Len(ids) |-> IF n = 0 THEN s ELSE IF n = 1 THEN one ELSE two]
<1>1. InnerAll(s, ids) = run[Len(ids)]
  BY Zenon DEF InnerAll
<1>2. \A n \in 0..Len(ids) : g[n] = Body(g, n)
  <2>1. g[0] = s /\ g[1] = one /\ (Len(ids) = 2 => g[2] = two)
    BY DEF g
  <2>2. Body(g, 0) = s /\ Body(g, 1) = Inner(g[0], ids[1]) /\ Body(g, 2) = Inner(g[1], ids[2])
    <3> HIDE DEF g, one, two
    <3>1. QED
      OBVIOUS
  <2>3. \A n \in 0..Len(ids) : n = 0 \/ n = 1 \/ (n = 2 /\ Len(ids) = 2)
    <3>1. TAKE n \in 0..Len(ids)
    <3>2. CASE Len(ids) = 1
      BY <3>2
    <3>3. CASE Len(ids) = 2
      BY <3>3
    <3>4. QED
      BY <3>2, <3>3
  <2>4. Body(g, 0) = g[0] /\ Body(g, 1) = g[1] /\ (Len(ids) = 2 => Body(g, 2) = g[2])
    BY <2>1, <2>2, Zenon
  <2> HIDE DEF g, Body
  <2>5. QED
    BY <2>3, <2>4, Zenon
<1>3. g = [n \in 0..Len(ids) |-> Body(g, n)]
  <2> HIDE DEF Body
  <2>1. QED
    BY <1>2 DEF g
<1>4. run = [n \in 0..Len(ids) |-> Body(run, n)]
  <2>1. \E f : f = [n \in 0..Len(ids) |-> Body(f, n)]
    BY <1>3, Zenon
  <2>2. QED
    BY <2>1, Zenon
<1> HIDE DEF run
<1>5. run[0] = s
  BY <1>4
<1>6. run[1] = Inner(run[0], ids[1])
  BY <1>4
<1>7. Len(ids) = 2 => run[2] = Inner(run[1], ids[2])
  BY <1>4
<1>8. QED
  BY <1>1, <1>5, <1>6, <1>7, Zenon

----------------------------------------------------------------------------
LEMMA InnerAllKeeps ==
    ASSUME NEW s, ListInOrder(s), ConfirmsCovered(s), HandedOnce(s, {}),
           NEW ids \in Seq(Ids), Len(ids) \in {1, 2},
           \A n \in DOMAIN ids : ids[n] \in s.seen => Known(s, ids[n])
    PROVE  Keeps(s, InnerAll(s, ids), {ids[n] : n \in DOMAIN ids})
<1> DEFINE t == Inner(s, ids[1])
           u == Inner(t, ids[2])
           X == {ids[n] : n \in DOMAIN ids}
<1>1. ids[1] \in Ids /\ 1 \in DOMAIN ids
  OBVIOUS
<1>2. ids[1] \in X
  BY <1>1
<1>3. Keeps(s, t, {ids[1]})
  BY <1>1, InnerKeeps
<1> HIDE DEF t
<1>4. CASE Len(ids) = 1
  <2>1. InnerAll(s, ids) = t
    BY <1>4, InnerAllOf, Zenon DEF t
  <2> HIDE DEF X
  <2>2. Keeps(s, t, X)
    BY <1>2, <1>3 DEF Keeps
  <2>3. QED
    BY <2>1, <2>2 DEF X
<1>5. CASE Len(ids) = 2
  <2>1. ids[2] \in Ids /\ 2 \in DOMAIN ids
    BY <1>5
  <2>2. ids[2] \in X
    BY <2>1
  <2>3. InnerAll(s, ids) = u
    <3>1. Len(ids) # 1
      BY <1>5
    <3>2. QED
      BY <3>1, InnerAllOf, Zenon DEF t
  <2>4. ids[2] \in t.seen => Known(t, ids[2])
    BY <1>3, <2>1 DEF Keeps, Extends
  <2>5. Keeps(t, u, {ids[2]})
    BY <1>3, <2>1, <2>4, InnerKeeps DEF Keeps
  <2> HIDE DEF u, X
  <2>6. Extends(s, u)
    BY <1>3, <2>5, ExtendsTransitive DEF Keeps, ListInOrder
  <2>7. u.seen \subseteq s.seen \cup X
    BY <1>2, <1>3, <2>2, <2>5 DEF Keeps
  <2>8. Keeps(s, u, X)
    BY <2>5, <2>6, <2>7 DEF Keeps
  <2>9. QED
    BY <2>3, <2>8 DEF X
<1>6. QED
  BY <1>4, <1>5

(* recreateSession drops the list and what was to be confirmed; what was
   handed on is still known to have been seen. *)
LEMMA Recreated ==
    ASSUME NEW s, ListInOrder(s), HandedOnce(s, {})
    PROVE  LET t == recreateSession(s) IN
           /\ ListInOrder(t) /\ ConfirmsCovered(t) /\ HandedOnce(t, {}) /\ Grows(s, t)
           /\ t.session = s.session + 1 /\ t.seen = s.seen
           /\ t.processed = {} /\ t.min = s.min
<1> DEFINE n == s.session + 1
           t == recreateSession(s)
<1>1. s \in Sessions /\ n \in Nat /\ {} \in SUBSET Ids
  BY DEF ListInOrder, Sessions
<1>2. t = [s EXCEPT !.processed = {}, !.confirm = {}, !.session = n]
  BY Zenon DEF recreateSession
<1> HIDE DEF t, n
<1>3. t \in Sessions
  BY <1>1, <1>2, Zenon DEF Sessions
<1>4. /\ t.processed = {} /\ t.confirm = {} /\ t.session = n
      /\ t.min = s.min /\ t.seen = s.seen /\ t.delivered = s.delivered
  BY <1>1, <1>2 DEF Sessions
<1>5. Cardinality(t.processed) <= Limit + 1
  <2>1. Cardinality(t.processed) = 0
    BY <1>4, FS_EmptySet
  <2>2. QED
    BY <2>1, SessionAssumption
<1>6. /\ t.min # 0 => t.min \in t.seen /\ Cardinality({j \in t.seen : j >= t.min}) >= Window
  BY <1>4, Zenon DEF ListInOrder
<1>7. ListInOrder(t)
  BY <1>3, <1>4, <1>5, <1>6 DEF ListInOrder
<1>8. ConfirmsCovered(t) /\ HandedOnce(t, {})
  BY <1>4 DEF ConfirmsCovered, HandedOnce
<1>9. Grows(s, t)
  BY <1>1, <1>4 DEF Grows, Sessions
<1>10. QED
  BY <1>4, <1>7, <1>8, <1>9 DEF t, n

(* The ids that a packet holds. *)
IdsOf(p) == {p.id} \cup {p.inner[n] : n \in DOMAIN p.inner}

(* onConnectionDataReceived: a message of any kind is handled without
   forgetting one, and a bad_msg_notification begins another session. *)
LEMMA ReceivedKeeps ==
    ASSUME NEW s, ListInOrder(s), ConfirmsCovered(s), HandedOnce(s, {}), NEW p \in Packets,
           \A i \in IdsOf(p) : i \in s.seen => Known(s, i),
           p.kind = "container" =>
               /\ Len(p.inner) \in {1, 2} /\ \A n \in DOMAIN p.inner : p.inner[n] < p.id
               /\ \A i \in s.seen : i < p.id
    PROVE  LET t == Received(s, p) IN
           /\ ListInOrder(t) /\ ConfirmsCovered(t) /\ HandedOnce(t, {}) /\ Grows(s, t)
           /\ t.seen \subseteq s.seen \cup IdsOf(p)
           /\ Extends(s, t) \/ (p.kind = "bad_msg" /\ t.session = s.session + 1)
<1> DEFINE t == Received(s, p)
<1>1. /\ p.kind \in {"plain", "container", "bad_msg"} /\ p.id \in Ids /\ p.inner \in Seq(Ids)
      /\ s \in Sessions
  BY DEF Packets, ListInOrder
<1>2. p.id \in IdsOf(p) /\ {p.id} \subseteq IdsOf(p)
  BY DEF IdsOf
<1>3. isMessageIdProcessed(s, p.id) <=> Known(s, p.id)
  BY <1>1, IsProcessed
<1>4. ASSUME Keeps(s, t, IdsOf(p))
      PROVE  /\ ListInOrder(t) /\ ConfirmsCovered(t) /\ HandedOnce(t, {}) /\ Grows(s, t)
             /\ t.seen \subseteq s.seen \cup IdsOf(p) /\ Extends(s, t)
  BY <1>4 DEF Keeps, Extends
<1>5. Extends(s, s) /\ Keeps(s, s, IdsOf(p))
  BY <1>1, ExtendsItself DEF Keeps
<1>6. CASE p.kind = "plain"
  <2> DEFINE u == addMessageToConfirm(s, p.id)
             v == HandedOn(u, p.id)
             w == addProcessedMessageId(v, p.id)
  <2>1. t = IF isMessageIdProcessed(s, p.id) THEN u ELSE IF p.id \in Unparsed THEN v ELSE w
    <3>1. p.kind # "container" /\ p.kind # "bad_msg"
      BY <1>6
    <3>2. QED
      BY <1>6, <3>1, Zenon DEF Received
  <2>2. CASE Known(s, p.id)
    <3>1. t = u
      BY <1>3, <2>1, <2>2, Zenon
    <3>2. Keeps(s, u, {p.id})
      BY <1>1, <2>2, Refused
    <3> HIDE DEF t, u
    <3>3. Keeps(s, t, IdsOf(p))
      BY <1>2, <3>1, <3>2 DEF Keeps
    <3>4. QED
      BY <1>4, <3>3 DEF t
  <2>3. CASE ~Known(s, p.id)
    <3>1. p.id \in Unparsed => t = v
      BY <1>3, <2>1, <2>3, Zenon
    <3>2. p.id \notin Unparsed => t = w
      BY <1>3, <2>1, <2>3, Zenon
    <3>3. /\ ListInOrder(v) /\ ConfirmsCovered(v) /\ Extends(s, v) /\ v.seen = s.seen
          /\ HandedOnce(v, {p.id}) /\ ~Known(v, p.id)
          /\ p.id \in Unparsed => HandedOnce(v, {})
      BY <1>1, <1>2, <2>3, Handled
    <3> HIDE DEF v
    <3>4. Keeps(v, w, {p.id})
      BY <1>1, <3>3, Remembered
    <3> HIDE DEF t, w
    <3>5. p.id \in Unparsed => Keeps(s, t, IdsOf(p))
      BY <3>1, <3>3 DEF Keeps
    <3>6. Extends(s, w)
      BY <1>1, <3>3, <3>4, ExtendsTransitive DEF Keeps, ListInOrder
    <3>7. Keeps(s, w, IdsOf(p))
      BY <1>2, <3>3, <3>4, <3>6 DEF Keeps
    <3>8. Keeps(s, t, IdsOf(p))
      BY <3>2, <3>5, <3>7
    <3>9. QED
      BY <1>4, <3>8 DEF t
  <2>4. QED
    BY <2>2, <2>3
<1>7. CASE p.kind = "container"
  <2> DEFINE u == InnerAll(s, p.inner)
             w == addProcessedMessageId(u, p.id)
             X == {p.inner[n] : n \in DOMAIN p.inner}
  <2>1. t = IF isMessageIdProcessed(s, p.id) THEN s ELSE w
    <3>1. p.kind # "plain" /\ p.kind # "bad_msg"
      BY <1>7
    <3>2. QED
      BY <1>7, <3>1, Zenon DEF Received
  <2>2. CASE Known(s, p.id)
    <3>1. t = s
      BY <1>3, <2>1, <2>2, Zenon
    <3> HIDE DEF t
    <3>2. QED
      BY <1>4, <1>5, <3>1 DEF t
  <2>3. CASE ~Known(s, p.id)
    <3>1. t = w
      BY <1>3, <2>1, <2>3, Zenon
    <3>2. Keeps(s, u, X)
      <4>1. \A n \in DOMAIN p.inner : p.inner[n] \in s.seen => Known(s, p.inner[n])
        BY DEF IdsOf
      <4>2. QED
        BY <1>1, <1>7, <4>1, InnerAllKeeps
    <3>3. X \subseteq IdsOf(p) /\ \A i \in X : i < p.id
      BY <1>7 DEF IdsOf
    <3> HIDE DEF u, X
    <3>4. ~Known(u, p.id)
      <4>1. u \in Sessions /\ u.min \in Ids \cup {0} /\ u.processed \subseteq u.seen /\ u.seen \subseteq Ids
            /\ (u.min # 0 => u.min \in u.seen)
        BY <3>2 DEF Keeps, ListInOrder, Sessions
      <4>2. p.id \in Nat /\ \A i \in Ids : i \in Nat
        BY <1>1, IdsFinite
      <4>3. \A i \in u.seen : i < p.id /\ i \in Nat
        BY <1>7, <3>2, <3>3, <4>1, <4>2 DEF Keeps
      <4>4. p.id \notin u.seen
        BY <4>2, <4>3
      <4>5. ~(p.id < u.min)
        BY <4>1, <4>2, <4>3
      <4>6. QED
        BY <4>1, <4>4, <4>5 DEF Known
    <3>5. HandedOnce(u, {p.id})
      BY <3>2 DEF Keeps, HandedOnce
    <3>6. Keeps(u, w, {p.id})
      BY <1>1, <3>2, <3>4, <3>5, Remembered DEF Keeps
    <3> HIDE DEF t, w
    <3>7. Extends(s, w)
      BY <1>1, <3>2, <3>6, ExtendsTransitive DEF Keeps, ListInOrder
    <3>8. Keeps(s, w, IdsOf(p))
      BY <1>2, <3>2, <3>3, <3>6, <3>7 DEF Keeps
    <3>9. QED
      BY <1>4, <3>1, <3>8 DEF t
  <2>4. QED
    BY <2>2, <2>3
<1>8. CASE p.kind = "bad_msg"
  <2> DEFINE u == recreateSession(s)
             w == addProcessedMessageId(u, p.id)
             v == addProcessedMessageId(s, p.id)
  <2>1. t = IF isMessageIdProcessed(s, p.id) THEN s ELSE IF push THEN v ELSE w
    <3>1. p.kind # "plain" /\ p.kind # "container"
      BY <1>8
    <3>2. QED
      BY <1>8, <3>1, Zenon DEF Received
  <2>2. CASE Known(s, p.id)
    <3>1. t = s
      BY <1>3, <2>1, <2>2, Zenon
    <3> HIDE DEF t
    <3>2. QED
      BY <1>4, <1>5, <3>1 DEF t
  <2>3. CASE ~Known(s, p.id) /\ push
    <3>1. t = v
      BY <1>3, <2>1, <2>3, Zenon
    <3>2. HandedOnce(s, {p.id})
      BY DEF HandedOnce
    <3>3. Keeps(s, v, {p.id})
      BY <1>1, <2>3, <3>2, Remembered
    <3> HIDE DEF t, v
    <3>4. Keeps(s, t, IdsOf(p))
      BY <1>2, <3>1, <3>3 DEF Keeps
    <3>5. QED
      BY <1>4, <3>4 DEF t
  <2>4. CASE ~Known(s, p.id) /\ ~push
    <3>1. t = w
      BY <1>3, <2>1, <2>4, Zenon
    <3>2. /\ ListInOrder(u) /\ ConfirmsCovered(u) /\ HandedOnce(u, {}) /\ Grows(s, u)
          /\ u.session = s.session + 1 /\ u.seen = s.seen
          /\ u.processed = {} /\ u.min = s.min
      BY Recreated
    <3> HIDE DEF u
    <3>3. ~Known(u, p.id) /\ HandedOnce(u, {p.id})
      BY <2>4, <3>2 DEF Known, HandedOnce
    <3>4. Keeps(u, w, {p.id})
      BY <1>1, <3>2, <3>3, Remembered
    <3> HIDE DEF t, w
    <3>5. u \in Sessions /\ w \in Sessions
      BY <3>2, <3>4 DEF Keeps, ListInOrder
    <3>6. Grows(s, w)
      <4>1. /\ s.delivered \in [Ids -> 0..2] /\ u.delivered \in [Ids -> 0..2]
            /\ w.delivered \in [Ids -> 0..2]
        BY <1>1, <3>5 DEF Sessions
      <4>2. \A i \in Ids : s.delivered[i] <= w.delivered[i]
        BY <3>2, <3>4, <4>1 DEF Keeps, Extends, Grows
      <4>3. QED
        BY <3>2, <3>4, <4>2 DEF Keeps, Extends, Grows
    <3>7. w.session = s.session + 1 /\ w.seen \subseteq s.seen \cup IdsOf(p)
      BY <1>2, <3>2, <3>4 DEF Keeps, Extends
    <3>8. ListInOrder(w) /\ ConfirmsCovered(w) /\ HandedOnce(w, {})
      BY <3>4 DEF Keeps
    <3>9. QED
      BY <1>8, <3>1, <3>6, <3>7, <3>8 DEF t
  <2>5. QED
    BY <2>2, <2>3, <2>4
<1>9. QED
  BY <1>1, <1>6, <1>7, <1>8

----------------------------------------------------------------------------
(* The state. *)
(* A packet is of a session that was begun, bad_msg_notifications are counted
   and the ids are used up; what it holds and was seen is still taken for
   processed; a container is newer than what it holds and than all that was
   seen. *)
PacketInOrder(p, s, reached, complaints, last) ==
    /\ p.session <= reached
    /\ p.kind = "bad_msg" => p.session < complaints
    /\ \A i \in IdsOf(p) : i <= last
    /\ p.session = s.session => \A i \in IdsOf(p) : i \in s.seen => Known(s, i)
    /\ p.kind = "container" =>
         /\ Len(p.inner) \in {1, 2}
         /\ \A n \in DOMAIN p.inner : p.inner[n] < p.id
         /\ \A i \in s.seen : i < p.id

(* ... and than all that is before it on the way. *)
ContainersLater ==
    \A n \in DOMAIN toClient : toClient[n].kind = "container" =>
        \A m \in 1..(n - 1) : \A i \in IdsOf(toClient[m]) : i < toClient[n].id

ClientInOrder ==
    /\ ListInOrder(Current) /\ ConfirmsCovered(Current) /\ HandedOnce(Current, {})
    /\ NothingForgotten

ServerInOrder ==
    /\ lastId \in Ids \cup {0}
    /\ \A i \in seen \cup unacked : i <= lastId
    /\ serverSession <= session /\ session <= resets
    /\ serverSession = session => \A i \in unacked : i \in seen => Known(Current, i)

WayInOrder ==
    /\ \A n \in DOMAIN toClient :
        PacketInOrder(toClient[n], Current, serverSession, resets, lastId)
    /\ ContainersLater
    /\ \A n \in DOMAIN toServer : \A i \in toServer[n] : Covered(Current, i)
    /\ \A i \in acked : Covered(Current, i)

IInv == TypeOK /\ ClientInOrder /\ ServerInOrder /\ WayInOrder

LEMMA PacketStays ==
    ASSUME NEW p \in Packets, NEW s \in Sessions, NEW t \in Sessions,
           NEW a \in Nat, NEW a2 \in Nat, NEW r \in Nat, NEW r2 \in Nat,
           NEW l \in Nat, NEW l2 \in Nat, a <= a2, r <= r2, l <= l2, a <= s.session,
           PacketInOrder(p, s, a, r, l), Extends(s, t) \/ t.session = s.session + 1,
           p.kind = "container" => \A i \in t.seen : i < p.id
    PROVE  PacketInOrder(p, t, a2, r2, l2)
<1>1. /\ p.session \in Nat /\ p.id \in Ids /\ p.inner \in Seq(Ids) /\ s.session \in Nat
      /\ t.session \in Nat
  BY SessionAssumption DEF Packets, Sessions
<1>2. IdsOf(p) \subseteq Ids /\ IdsOf(p) \subseteq Nat
  <2>1. IdsOf(p) \subseteq Ids
    BY <1>1 DEF IdsOf
  <2>2. QED
    BY <2>1, IdsFinite
<1>3. p.session <= a2 /\ (p.kind = "bad_msg" => p.session < r2)
  BY <1>1 DEF PacketInOrder
<1>4. \A i \in IdsOf(p) : i <= l2
  <2>1. \A i \in IdsOf(p) : i <= l /\ i \in Nat
    BY <1>2 DEF PacketInOrder
  <2>2. QED
    BY <2>1
<1>5. p.session = t.session => \A i \in IdsOf(p) : i \in t.seen => Known(t, i)
  <2>1. CASE Extends(s, t)
    BY <1>2, <2>1 DEF Extends, PacketInOrder
  <2>2. CASE t.session = s.session + 1
    BY <1>1, <2>2 DEF PacketInOrder
  <2>3. QED
    BY <2>1, <2>2
<1>6. QED
  BY <1>3, <1>4, <1>5 DEF PacketInOrder

LEMMA TailIs ==
    ASSUME NEW S, NEW q \in Seq(S), q # <<>>
    PROVE  /\ Tail(q) \in Seq(S) /\ Len(q) \in Nat /\ Len(Tail(q)) = Len(q) - 1
           /\ Head(q) = q[1] /\ Head(q) \in S /\ 1 \in DOMAIN q
           /\ DOMAIN Tail(q) = 1..(Len(q) - 1)
           /\ \A n \in DOMAIN Tail(q) : n + 1 \in DOMAIN q /\ Tail(q)[n] = q[n + 1]
  BY HeadTailProperties, LenProperties

LEMMA AppendIs ==
    ASSUME NEW S, NEW q \in Seq(S), NEW x \in S
    PROVE  /\ Append(q, x) \in Seq(S) /\ Len(q) \in Nat /\ Len(Append(q, x)) = Len(q) + 1
           /\ DOMAIN q = 1..Len(q)
           /\ DOMAIN Append(q, x) = 1..(Len(q) + 1)
           /\ \A n \in 1..Len(q) : Append(q, x)[n] = q[n]
           /\ Append(q, x)[Len(q) + 1] = x
  BY AppendProperties, LenProperties

LEMMA TypesOf ==
    ASSUME IInv
    PROVE  /\ Current \in Sessions /\ Current.processed = processed /\ Current.min = minId
           /\ Current.confirm = confirm /\ Current.session = session
           /\ Current.delivered = delivered /\ Current.seen = seen
           /\ serverSession \in Nat /\ resets \in Nat /\ lastId \in Nat /\ session \in Nat
           /\ toClient \in Seq(Packets) /\ toServer \in Seq(SUBSET Ids)
<1>1. Current \in Sessions
  BY DEF IInv, ClientInOrder, ListInOrder
<1>2. QED
  BY <1>1, SessionAssumption DEF IInv, TypeOK, Current

LEMMA InitInOrder ==
    Init => IInv
<1> SUFFICES ASSUME Init PROVE IInv
  OBVIOUS
<1> USE DEF Init
<1>1. Cardinality({}) = 0
  BY FS_EmptySet
<1>2. [i \in Ids |-> 0] \in [Ids -> 0..2]
  OBVIOUS
<1>3. TypeOK
  BY <1>1, <1>2, SessionAssumption DEF TypeOK
<1>4. Current \in Sessions
  BY <1>2 DEF Current, Sessions
<1>5. ListInOrder(Current)
  BY <1>1, <1>4, SessionAssumption DEF ListInOrder, Current
<1>6. ClientInOrder
  BY <1>5 DEF ClientInOrder, ConfirmsCovered, HandedOnce, NothingForgotten, Current
<1>7. ServerInOrder
  BY DEF ServerInOrder
<1>8. WayInOrder
  BY DEF WayInOrder, ContainersLater
<1>9. QED
  BY <1>3, <1>6, <1>7, <1>8 DEF IInv

(* What the steps of the client share. *)
LEMMA ClientStep ==
    ASSUME IInv, ListInOrder(Current)', ConfirmsCovered(Current)', HandedOnce(Current, {})',
           Grows(Current, Current'), \A i \in seen' : i <= lastId,
           Extends(Current, Current') \/ (session' = session + 1 /\ session < resets),
           UNCHANGED <<lastId, unacked, acked, serverSession, resets>>
    PROVE  /\ ClientInOrder' /\ ServerInOrder' /\ Current' \in Sessions
           /\ \A i \in acked' : Covered(Current', i)
           /\ \A n \in DOMAIN toServer : \A i \in toServer[n] : Covered(Current', i)
<1>1. /\ Current \in Sessions /\ Current.session = session /\ Current.seen = seen
      /\ serverSession \in Nat /\ resets \in Nat /\ lastId \in Nat /\ session \in Nat
      /\ toServer \in Seq(SUBSET Ids)
  BY TypesOf
<1>2. Current' \in Sessions /\ Current'.session = session' /\ Current'.seen = seen'
      /\ Current'.processed = processed' /\ Current'.min = minId'
      /\ Current'.delivered = delivered'
  BY DEF ListInOrder, Current
<1>3. session <= session' /\ session' \in Nat /\ session' <= resets
  <2>1. session <= resets
    BY DEF IInv, ServerInOrder
  <2>2. session' = session \/ (session' = session + 1 /\ session < resets)
    BY <1>1, <1>2 DEF Extends
  <2>3. QED
    BY <1>1, <2>1, <2>2
<1>4. Extends(Current, Current') \/ (session' # session /\ session' # 0 /\ session' # serverSession)
  <2>1. serverSession <= session
    BY DEF IInv, ServerInOrder
  <2>2. QED
    BY <1>1, <2>1
<1>5. NothingForgotten'
  <2>1. SUFFICES ASSUME session' = 0 PROVE \A i \in seen' : i \in processed' \/ i < minId'
    BY DEF NothingForgotten
  <2>2. Extends(Current, Current') /\ session = 0
    BY <1>1, <1>2, <1>4, <2>1 DEF Extends
  <2>3. \A i \in seen : Known(Current, i)
    BY <2>2 DEF IInv, ClientInOrder, NothingForgotten, Known, Current
  <2>4. \A i \in seen' : Known(Current', i)
    <3>1. seen \subseteq Ids
      BY DEF IInv, TypeOK
    <3>2. \A i \in seen' : i \in seen \/ Known(Current', i)
      BY <1>1, <1>2, <2>2 DEF Extends
    <3>3. \A i \in Ids : Known(Current, i) => Known(Current', i)
      BY <2>2 DEF Extends
    <3>4. QED
      BY <2>3, <3>1, <3>2, <3>3
  <2>5. QED
    BY <1>2, <2>4 DEF Known
<1>6. ClientInOrder'
  BY <1>5 DEF ClientInOrder
<1>7. ServerInOrder'
  <2>1. lastId' \in Ids \cup {0} /\ \A i \in seen' \cup unacked' : i <= lastId'
    BY DEF IInv, ServerInOrder
  <2>2. serverSession' <= session' /\ session' <= resets'
    <3>1. serverSession <= session
      BY DEF IInv, ServerInOrder
    <3>2. QED
      BY <1>1, <1>3, <3>1
  <2>3. ASSUME serverSession' = session', NEW i \in unacked', i \in seen'
        PROVE  Known(Current', i)
    <3>1. Extends(Current, Current') /\ serverSession = session
      <4>1. Extends(Current, Current')
        BY <1>4, <2>3
      <4>2. session' = session
        BY <1>1, <1>2, <4>1 DEF Extends
      <4>3. QED
        BY <2>3, <4>1, <4>2
    <3>2. i \in Ids /\ (i \in seen => Known(Current, i))
      BY <2>3, <3>1 DEF IInv, ServerInOrder, TypeOK
    <3>3. QED
      BY <1>1, <1>2, <2>3, <3>1, <3>2 DEF Extends
  <2>4. QED
    BY <2>1, <2>2, <2>3 DEF ServerInOrder
<1>8. \A i \in acked' : Covered(Current', i)
  <2>1. \A i \in acked : i \in Ids /\ Covered(Current, i)
    BY DEF IInv, TypeOK, WayInOrder
  <2>2. \A i \in acked : Covered(Current', i)
    BY <1>1, <1>2, <2>1, CoveredStays
  <2>3. QED
    BY <2>2
<1>9. ASSUME NEW n \in DOMAIN toServer, NEW i \in toServer[n] PROVE Covered(Current', i)
  <2>1. i \in Ids /\ Covered(Current, i)
    BY <1>1 DEF IInv, WayInOrder
  <2>2. QED
    BY <1>1, <1>2, <2>1, CoveredStays
<1>10. QED
  BY <1>2, <1>6, <1>7, <1>8, <1>9

(* TypeOK, from the order of the client and of the server. *)
LEMMA ClientTypes ==
    ASSUME TypeOK, ListInOrder(Current)', session' <= resets, resets' = resets,
           toClient' \in Seq(Packets), Len(toClient') <= MaxFlight,
           toServer' \in Seq(SUBSET Ids), Len(toServer') <= MaxFlight,
           UNCHANGED <<push, lastId, unacked, acked, serverSession, drops>>
    PROVE  TypeOK'
<1>1. /\ processed' \subseteq Ids /\ Cardinality(processed') <= Limit + 1
      /\ minId' \in Ids \cup {0} /\ confirm' \subseteq Ids /\ session' \in Nat
      /\ delivered' \in [Ids -> 0..2] /\ seen' \subseteq Ids
  BY DEF ListInOrder, Sessions, Current
<1>2. session' \in 0..MaxResets
  BY <1>1, SessionAssumption DEF TypeOK
<1>3. QED
  BY <1>1, <1>2 DEF TypeOK

(* generateConfirmationRequest. *)
LEMMA ConfirmedKeeps ==
    ASSUME NEW s, ListInOrder(s), ConfirmsCovered(s), HandedOnce(s, {})
    PROVE  LET t == [s EXCEPT !.confirm = {}] IN
           /\ ListInOrder(t) /\ ConfirmsCovered(t) /\ HandedOnce(t, {}) /\ Extends(s, t)
           /\ t.seen = s.seen /\ t.session = s.session /\ t.delivered = s.delivered
<1> DEFINE t == [s EXCEPT !.confirm = {}]
<1>1. s \in Sessions /\ {} \in SUBSET Ids
  BY DEF ListInOrder
<1>2. t \in Sessions
  BY <1>1, Zenon DEF Sessions
<1>3. /\ t.confirm = {} /\ t.processed = s.processed /\ t.min = s.min /\ t.seen = s.seen
      /\ t.session = s.session /\ t.delivered = s.delivered
  BY <1>1 DEF Sessions
<1> HIDE DEF t
<1>4. ListInOrder(t)
  BY <1>2, <1>3, ListSame
<1>5. ConfirmsCovered(t) /\ HandedOnce(t, {})
  BY <1>3 DEF ConfirmsCovered, HandedOnce
<1>6. Extends(s, t)
  BY <1>1, <1>3 DEF Extends, Grows, Known, Sessions
<1>7. QED
  BY <1>3, <1>4, <1>5, <1>6 DEF t

LEMMA BecomesIs ==
    ASSUME NEW s, s \in Sessions, Becomes(s)
    PROVE  Current' = s
<1>1. /\ processed' = s.processed /\ minId' = s.min /\ confirm' = s.confirm
      /\ session' = s.session /\ delivered' = s.delivered /\ seen' = s.seen
  BY DEF Becomes
<1>2. s = [processed |-> s.processed, min |-> s.min, confirm |-> s.confirm,
           session |-> s.session, delivered |-> s.delivered, seen |-> s.seen]
  BY DEF Sessions
<1>3. Current' = [processed |-> processed', min |-> minId', confirm |-> confirm',
                  session |-> session', delivered |-> delivered', seen |-> seen']
  BY DEF Current
<1>4. QED
  BY <1>1, <1>2, <1>3

(* What is confirmed: the messages that may be. *)
LEMMA ConfirmedStep ==
    ASSUME IInv, NEW s, ListInOrder(s), ConfirmsCovered(s), HandedOnce(s, {}),
           Len(toServer) < MaxFlight, Confirmed(s)
    PROVE  /\ ListInOrder(Current)' /\ ConfirmsCovered(Current)' /\ HandedOnce(Current, {})'
           /\ Extends(s, Current') /\ seen' = s.seen /\ session' = s.session
           /\ toServer' \in Seq(SUBSET Ids) /\ Len(toServer') <= MaxFlight
           /\ \A n \in DOMAIN toServer' : (n \in DOMAIN toServer /\ toServer'[n] = toServer[n])
                \/ (\A i \in toServer'[n] : Covered(Current', i))
<1> DEFINE t == [s EXCEPT !.confirm = {}]
<1>1. /\ ListInOrder(t) /\ ConfirmsCovered(t) /\ HandedOnce(t, {}) /\ Extends(s, t)
      /\ t.seen = s.seen /\ t.session = s.session /\ t.delivered = s.delivered
  BY ConfirmedKeeps
<1>2. Becomes(t) /\ toServer' = IF s.confirm = {} THEN toServer ELSE Append(toServer, s.confirm)
  BY DEF Confirmed
<1> HIDE DEF t
<1>3. t \in Sessions /\ s \in Sessions /\ s.confirm \in SUBSET Ids /\ toServer \in Seq(SUBSET Ids)
      /\ Len(toServer) \in Nat /\ MaxFlight \in Nat
  BY <1>1, TypesOf, SessionAssumption DEF ListInOrder, Sessions
<1>4. Current' = t /\ seen' = t.seen /\ session' = t.session
  BY <1>2, <1>3, BecomesIs DEF Becomes
<1>5. /\ Append(toServer, s.confirm) \in Seq(SUBSET Ids)
      /\ Len(Append(toServer, s.confirm)) = Len(toServer) + 1
      /\ DOMAIN toServer = 1..Len(toServer)
      /\ DOMAIN Append(toServer, s.confirm) = 1..(Len(toServer) + 1)
      /\ \A n \in 1..Len(toServer) : Append(toServer, s.confirm)[n] = toServer[n]
      /\ Append(toServer, s.confirm)[Len(toServer) + 1] = s.confirm
  BY <1>3, AppendIs
<1>6. \A i \in s.confirm : Covered(t, i)
  <2>1. Grows(s, t)
    BY <1>1 DEF Extends
  <2>2. QED
    BY <1>3, <2>1, CoveredStays DEF ConfirmsCovered
<1>7. toServer' \in Seq(SUBSET Ids) /\ Len(toServer') <= MaxFlight
  BY <1>2, <1>3, <1>5
<1>8. ASSUME NEW n \in DOMAIN toServer'
      PROVE  (n \in DOMAIN toServer /\ toServer'[n] = toServer[n])
             \/ (\A i \in toServer'[n] : Covered(Current', i))
  <2>1. CASE s.confirm = {}
    BY <1>2, <1>8, <2>1
  <2>2. CASE s.confirm # {}
    <3>1. toServer' = Append(toServer, s.confirm)
      BY <1>2, <2>2
    <3>2. n \in 1..Len(toServer) \/ n = Len(toServer) + 1
      BY <1>3, <1>5, <1>8, <3>1
    <3>3. QED
      BY <1>4, <1>5, <1>6, <3>1, <3>2
  <2>3. QED
    BY <2>1, <2>2
<1>9. ListInOrder(Current') /\ ConfirmsCovered(Current') /\ HandedOnce(Current', {})
      /\ Extends(s, Current')
  BY <1>1, <1>4
<1>10. QED
  BY <1>1, <1>4, <1>7, <1>8, <1>9

LEMMA SendKeeps ==
    IInv /\ SendConfirmation => IInv'
<1> SUFFICES ASSUME IInv, SendConfirmation PROVE IInv'
  OBVIOUS
<1>1. /\ Len(toServer) < MaxFlight /\ Confirmed(Current)
      /\ UNCHANGED <<push, toClient, lastId, unacked, acked, serverSession, drops, resets>>
  BY DEF SendConfirmation
<1>2. PICK s : s = Current
  OBVIOUS
<1>3. ListInOrder(s) /\ ConfirmsCovered(s) /\ HandedOnce(s, {}) /\ Confirmed(s)
  BY <1>1, <1>2 DEF IInv, ClientInOrder
<1>4. /\ ListInOrder(Current)' /\ ConfirmsCovered(Current)' /\ HandedOnce(Current, {})'
      /\ Extends(s, Current') /\ seen' = s.seen /\ session' = s.session
      /\ toServer' \in Seq(SUBSET Ids) /\ Len(toServer') <= MaxFlight
      /\ \A n \in DOMAIN toServer' : (n \in DOMAIN toServer /\ toServer'[n] = toServer[n])
           \/ (\A i \in toServer'[n] : Covered(Current', i))
  BY <1>1, <1>3, ConfirmedStep
<1>5. /\ Current \in Sessions /\ Current.session = session /\ Current.seen = seen
      /\ serverSession \in Nat /\ resets \in Nat /\ lastId \in Nat /\ session \in Nat
      /\ toClient \in Seq(Packets)
  BY TypesOf
<1>6. Extends(Current, Current') /\ Grows(Current, Current') /\ \A i \in seen' : i <= lastId
  BY <1>2, <1>4, <1>5 DEF Extends, IInv, ServerInOrder
<1>7. /\ ClientInOrder' /\ ServerInOrder' /\ Current' \in Sessions
      /\ \A i \in acked' : Covered(Current', i)
      /\ \A n \in DOMAIN toServer : \A i \in toServer[n] : Covered(Current', i)
  BY <1>1, <1>4, <1>6, ClientStep
<1>8. TypeOK'
  <2>1. session' <= resets
    BY <1>2, <1>4, <1>5 DEF IInv, ServerInOrder
  <2>2. toClient' \in Seq(Packets) /\ Len(toClient') <= MaxFlight
    BY <1>1, <1>5 DEF IInv, TypeOK
  <2>3. QED
    BY <1>1, <1>4, <2>1, <2>2, ClientTypes DEF IInv
<1>9. WayInOrder'
  <2>1. ASSUME NEW n \in DOMAIN toClient
        PROVE  PacketInOrder(toClient[n], Current', serverSession, resets, lastId)
    <3>1. toClient[n] \in Packets /\ PacketInOrder(toClient[n], Current, serverSession, resets, lastId)
      BY <1>5 DEF IInv, WayInOrder
    <3>2. Current'.seen = seen
      BY <1>2, <1>4, <1>5 DEF Current
    <3>3. toClient[n].kind = "container" => \A i \in Current'.seen : i < toClient[n].id
      BY <1>5, <3>1, <3>2 DEF PacketInOrder
    <3>4. serverSession <= Current.session
      BY <1>5 DEF IInv, ServerInOrder
    <3>5. serverSession <= serverSession /\ resets <= resets /\ lastId <= lastId
      BY <1>5
    <3>6. QED
      BY <1>5, <1>6, <1>7, <3>1, <3>3, <3>4, <3>5, PacketStays
  <2>2. \A n \in DOMAIN toServer' : \A i \in toServer'[n] : Covered(Current', i)
    BY <1>4, <1>7
  <2>3. ContainersLater'
    BY <1>1 DEF IInv, WayInOrder, ContainersLater
  <2>4. QED
    BY <1>1, <1>7, <2>1, <2>2, <2>3 DEF WayInOrder
<1>10. QED
  BY <1>7, <1>8, <1>9 DEF IInv

LEMMA ReceiveKeeps ==
    IInv /\ Receive => IInv'
<1> SUFFICES ASSUME IInv, Receive PROVE IInv'
  OBVIOUS
<1>1. /\ toClient # <<>> /\ toClient' = Tail(toClient)
      /\ UNCHANGED <<push, lastId, unacked, acked, serverSession, drops, resets>>
  BY DEF Receive
<1>2. PICK p, s :
      /\ p = Head(toClient) /\ s = Received(Current, p)
      /\ IF p.session # session THEN UNCHANGED <<client, toServer>>
         ELSE IF ConfirmsAtOnce(Current, p)
              THEN Len(toServer) < MaxFlight /\ Confirmed(s)
              ELSE Becomes(s) /\ UNCHANGED toServer
  BY Zenon DEF Receive
<1>3. /\ Current \in Sessions /\ Current.session = session /\ Current.seen = seen
      /\ serverSession \in Nat /\ resets \in Nat /\ lastId \in Nat /\ session \in Nat
      /\ toClient \in Seq(Packets) /\ toServer \in Seq(SUBSET Ids)
  BY TypesOf
<1>4. /\ Tail(toClient) \in Seq(Packets) /\ Len(toClient) \in Nat
      /\ Len(Tail(toClient)) = Len(toClient) - 1
      /\ Head(toClient) = toClient[1] /\ Head(toClient) \in Packets /\ 1 \in DOMAIN toClient
      /\ DOMAIN Tail(toClient) = 1..(Len(toClient) - 1)
      /\ \A n \in DOMAIN Tail(toClient) :
           n + 1 \in DOMAIN toClient /\ Tail(toClient)[n] = toClient[n + 1]
  BY <1>1, <1>3, TailIs
<1>5. p \in Packets /\ PacketInOrder(p, Current, serverSession, resets, lastId) /\ p = toClient[1]
  BY <1>2, <1>4 DEF IInv, WayInOrder
<1>6. /\ ListInOrder(Current) /\ ConfirmsCovered(Current) /\ HandedOnce(Current, {})
      /\ session <= resets /\ serverSession <= session /\ \A i \in seen : i <= lastId
      /\ Len(toServer) <= MaxFlight /\ Len(toClient) <= MaxFlight
  BY DEF IInv, ClientInOrder, ServerInOrder, TypeOK
<1>7. /\ ListInOrder(Current)' /\ ConfirmsCovered(Current)' /\ HandedOnce(Current, {})'
      /\ Grows(Current, Current') /\ seen' \subseteq seen \cup IdsOf(p)
      /\ Extends(Current, Current') \/ (session' = session + 1 /\ session < resets)
      /\ toServer' \in Seq(SUBSET Ids) /\ Len(toServer') <= MaxFlight
      /\ \A n \in DOMAIN toServer' : (n \in DOMAIN toServer /\ toServer'[n] = toServer[n])
           \/ (\A i \in toServer'[n] : Covered(Current', i))
  <2>1. CASE p.session # session
    <3>1. UNCHANGED <<client, toServer>>
      BY <1>2, <2>1
    <3>2. Current' = Current /\ seen' = seen /\ toServer' = toServer
      BY <3>1 DEF Current, client
    <3>3. Extends(Current, Current')
      BY <1>3, <3>2, ExtendsItself
    <3>4. QED
      BY <1>3, <1>6, <3>2, <3>3 DEF Extends
  <2>2. CASE p.session = session
    <3>1. /\ ListInOrder(s) /\ ConfirmsCovered(s) /\ HandedOnce(s, {}) /\ Grows(Current, s)
          /\ s.seen \subseteq Current.seen \cup IdsOf(p)
          /\ Extends(Current, s) \/ (p.kind = "bad_msg" /\ s.session = Current.session + 1)
      <4>1. \A i \in IdsOf(p) : i \in Current.seen => Known(Current, i)
        BY <1>3, <1>5, <2>2 DEF PacketInOrder
      <4>2. p.kind = "container" =>
               /\ Len(p.inner) \in {1, 2} /\ \A n \in DOMAIN p.inner : p.inner[n] < p.id
               /\ \A i \in Current.seen : i < p.id
        BY <1>5 DEF PacketInOrder
      <4>3. QED
        BY <1>2, <1>5, <1>6, <4>1, <4>2, ReceivedKeeps
    <3>2. p.kind = "bad_msg" => session < resets
      BY <1>5, <2>2 DEF PacketInOrder
    <3>3. Current.session = session /\ Current.seen = seen /\ s \in Sessions
      BY <1>3, <3>1 DEF ListInOrder
    <3>4. CASE ConfirmsAtOnce(Current, p)
      <4>1. Len(toServer) < MaxFlight /\ Confirmed(s)
        BY <1>2, <2>2, <3>4
      <4>2. /\ ListInOrder(Current)' /\ ConfirmsCovered(Current)' /\ HandedOnce(Current, {})'
            /\ Extends(s, Current') /\ seen' = s.seen /\ session' = s.session
            /\ toServer' \in Seq(SUBSET Ids) /\ Len(toServer') <= MaxFlight
            /\ \A n \in DOMAIN toServer' : (n \in DOMAIN toServer /\ toServer'[n] = toServer[n])
                 \/ (\A i \in toServer'[n] : Covered(Current', i))
        BY <3>1, <4>1, ConfirmedStep
      <4>3. Current' \in Sessions
        BY <4>2 DEF ListInOrder
      <4>4. Grows(Current, Current')
        <5>1. /\ Current.delivered \in [Ids -> 0..2] /\ s.delivered \in [Ids -> 0..2]
              /\ Current'.delivered \in [Ids -> 0..2]
          BY <1>3, <3>3, <4>3 DEF Sessions
        <5>2. \A i \in Ids : Current.delivered[i] <= Current'.delivered[i]
          BY <3>1, <4>2, <5>1 DEF Extends, Grows
        <5>3. QED
          BY <3>1, <4>2, <5>2 DEF Extends, Grows
      <4>5. Extends(Current, s) => Extends(Current, Current')
        BY <1>3, <3>3, <4>2, <4>3, ExtendsTransitive
      <4>6. QED
        BY <3>1, <3>2, <3>3, <4>2, <4>4, <4>5
    <3>5. CASE ~ConfirmsAtOnce(Current, p)
      <4>1. Becomes(s) /\ toServer' = toServer
        BY <1>2, <2>2, <3>5
      <4>2. Current' = s /\ seen' = s.seen /\ session' = s.session
        BY <3>3, <4>1, BecomesIs DEF Becomes
      <4>3. ListInOrder(Current') /\ ConfirmsCovered(Current') /\ HandedOnce(Current', {})
            /\ Grows(Current, Current')
        BY <3>1, <4>2
      <4>4. QED
        BY <1>3, <1>6, <3>1, <3>2, <3>3, <4>1, <4>2, <4>3
    <3>6. QED
      BY <3>4, <3>5
  <2>3. QED
    BY <2>1, <2>2
<1>8. \A i \in seen' : i <= lastId
  BY <1>5, <1>6, <1>7 DEF PacketInOrder
<1>9. /\ ClientInOrder' /\ ServerInOrder' /\ Current' \in Sessions
      /\ \A i \in acked' : Covered(Current', i)
      /\ \A n \in DOMAIN toServer : \A i \in toServer[n] : Covered(Current', i)
  BY <1>1, <1>7, <1>8, ClientStep
<1>10. TypeOK'
  <2>1. session' <= resets
    BY <1>1, <1>9 DEF ServerInOrder
  <2>2. toClient' \in Seq(Packets) /\ Len(toClient') <= MaxFlight
    BY <1>1, <1>4, <1>6, SessionAssumption
  <2>3. QED
    BY <1>1, <1>7, <2>1, <2>2, ClientTypes DEF IInv
<1>11. WayInOrder'
  <2>1. ASSUME NEW n \in DOMAIN Tail(toClient)
        PROVE  /\ PacketInOrder(Tail(toClient)[n], Current', serverSession, resets, lastId)
               /\ Tail(toClient)[n].kind = "container" =>
                    \A m \in 1..(n - 1) : \A i \in IdsOf(Tail(toClient)[m]) : i < Tail(toClient)[n].id
    <3>1. n + 1 \in DOMAIN toClient /\ Tail(toClient)[n] = toClient[n + 1] /\ n \in Nat /\ n >= 1
      BY <1>4
    <3>2. PICK q : q = toClient[n + 1]
      OBVIOUS
    <3>3. q \in Packets /\ PacketInOrder(q, Current, serverSession, resets, lastId)
      BY <1>3, <3>1, <3>2 DEF IInv, WayInOrder
    <3>4. q.kind = "container" => \A m \in 1..n : \A i \in IdsOf(toClient[m]) : i < q.id
      <4>1. (n + 1) - 1 = n
        BY <3>1
      <4>2. QED
        BY <3>1, <3>2, <4>1 DEF IInv, WayInOrder, ContainersLater
    <3>5. q.kind = "container" => \A i \in seen' : i < q.id
      <4>1. q.kind = "container" => \A i \in IdsOf(p) : i < q.id
        BY <1>5, <3>1, <3>4
      <4>2. q.kind = "container" => \A i \in seen : i < q.id
        BY <1>3, <3>3 DEF PacketInOrder
      <4>3. QED
        BY <1>7, <4>1, <4>2
    <3>6. Current'.seen = seen' /\ Current'.session = session'
      BY DEF Current
    <3>7. PacketInOrder(q, Current', serverSession, resets, lastId)
      <4>1. q.kind = "container" => \A i \in Current'.seen : i < q.id
        BY <3>5, <3>6
      <4>2. serverSession <= Current.session
        BY <1>3, <1>6
      <4>3. Extends(Current, Current') \/ Current'.session = Current.session + 1
        BY <1>3, <1>7, <3>6
      <4>4. serverSession <= serverSession /\ resets <= resets /\ lastId <= lastId
        BY <1>3
      <4>5. QED
        BY <1>3, <1>9, <3>3, <4>1, <4>2, <4>3, <4>4, PacketStays
    <3>8. ASSUME q.kind = "container", NEW m \in 1..(n - 1), NEW i \in IdsOf(Tail(toClient)[m])
          PROVE  i < q.id
      <4>1. m \in DOMAIN Tail(toClient) /\ m + 1 \in 1..n
        BY <1>4, <3>1
      <4>2. Tail(toClient)[m] = toClient[m + 1]
        BY <1>4, <4>1
      <4>3. QED
        BY <3>4, <3>8, <4>1, <4>2
    <3>9. QED
      BY <3>1, <3>2, <3>7, <3>8
  <2>2. \A n \in DOMAIN toServer' : \A i \in toServer'[n] : Covered(Current', i)
    BY <1>7, <1>9
  <2>3. ContainersLater'
    BY <1>1, <2>1 DEF ContainersLater
  <2>4. QED
    BY <1>1, <1>9, <2>1, <2>2, <2>3 DEF WayInOrder
<1>12. QED
  BY <1>9, <1>10, <1>11 DEF IInv

----------------------------------------------------------------------------
(* The steps of the server and the loss of a connection. *)
LEMMA SameClient ==
    ASSUME IInv, UNCHANGED client
    PROVE  Current' = Current /\ ClientInOrder'
<1>1. Current' = Current
  BY DEF Current, client
<1>2. NothingForgotten'
  BY DEF IInv, ClientInOrder, NothingForgotten, client
<1>3. ListInOrder(Current') /\ ConfirmsCovered(Current') /\ HandedOnce(Current', {})
  BY <1>1 DEF IInv, ClientInOrder
<1>4. QED
  BY <1>1, <1>2, <1>3 DEF ClientInOrder

(* A packet that is put behind the others. *)
LEMMA PutKeeps ==
    ASSUME IInv, NEW p \in Packets, Put(p), UNCHANGED <<client, toServer, acked, serverSession>>,
           lastId' \in Nat, lastId <= lastId', resets' \in Nat, resets <= resets',
           PacketInOrder(p, Current, serverSession, resets', lastId'),
           p.kind = "container" => lastId < p.id
    PROVE  WayInOrder' /\ toClient' \in Seq(Packets) /\ Len(toClient') <= MaxFlight
<1>1. Len(toClient) < MaxFlight /\ toClient' = Append(toClient, p)
  BY DEF Put
<1>2. /\ Current \in Sessions /\ Current.session = session /\ Current.seen = seen
      /\ serverSession \in Nat /\ resets \in Nat /\ lastId \in Nat /\ session \in Nat
      /\ toClient \in Seq(Packets) /\ toServer \in Seq(SUBSET Ids) /\ MaxFlight \in Nat
  BY TypesOf, SessionAssumption
<1>3. /\ toClient' \in Seq(Packets) /\ Len(toClient) \in Nat /\ Len(toClient') = Len(toClient) + 1
      /\ DOMAIN toClient = 1..Len(toClient)
      /\ DOMAIN toClient' = 1..(Len(toClient) + 1)
      /\ \A n \in 1..Len(toClient) : toClient'[n] = toClient[n]
      /\ toClient'[Len(toClient) + 1] = p
  BY <1>1, <1>2, AppendIs
<1>4. Current' = Current
  BY SameClient
<1>5. ASSUME NEW n \in DOMAIN toClient
      PROVE  /\ toClient[n] \in Packets
             /\ PacketInOrder(toClient[n], Current, serverSession, resets, lastId)
  BY <1>2 DEF IInv, WayInOrder
<1>6. ASSUME NEW n \in 1..Len(toClient)
      PROVE  PacketInOrder(toClient[n], Current, serverSession, resets', lastId')
  <2>1. Extends(Current, Current) /\ serverSession <= serverSession
    BY <1>2, ExtendsItself
  <2>2. n \in DOMAIN toClient
    BY <1>3
  <2>3. PICK q : q = toClient[n]
    OBVIOUS
  <2>4. q \in Packets /\ PacketInOrder(q, Current, serverSession, resets, lastId)
    BY <1>5, <2>2, <2>3
  <2>5. q.kind = "container" => \A i \in Current.seen : i < q.id
    BY <2>4 DEF PacketInOrder
  <2>6. serverSession <= Current.session
    BY <1>2 DEF IInv, ServerInOrder
  <2>7. PacketInOrder(q, Current, serverSession, resets', lastId')
    BY <1>2, <2>1, <2>4, <2>5, <2>6, PacketStays
  <2>8. QED
    BY <2>3, <2>7
<1>7. \A n \in DOMAIN toClient' :
         PacketInOrder(toClient'[n], Current', serverSession', resets', lastId')
  <2>1. TAKE n \in DOMAIN toClient'
  <2>2. n \in 1..Len(toClient) \/ n = Len(toClient) + 1
    BY <1>3
  <2>3. serverSession' = serverSession
    OBVIOUS
  <2>4. QED
    BY <1>3, <1>4, <1>6, <2>2, <2>3
<1>8. ContainersLater'
  <2>1. SUFFICES ASSUME NEW n \in 1..(Len(toClient) + 1), toClient'[n].kind = "container",
                        NEW m \in 1..(n - 1), NEW i \in IdsOf(toClient'[m])
                 PROVE  i < toClient'[n].id
    BY <1>3 DEF ContainersLater
  <2>2. m \in 1..Len(toClient) /\ toClient'[m] = toClient[m]
    BY <1>3
  <2>3. CASE n \in 1..Len(toClient)
    BY <1>3, <2>1, <2>2, <2>3 DEF IInv, WayInOrder, ContainersLater
  <2>4. CASE n = Len(toClient) + 1
    <3>1. i <= lastId
      BY <1>3, <1>5, <2>2 DEF PacketInOrder
    <3>2. i \in Nat
      <4>1. toClient[m].id \in Ids /\ toClient[m].inner \in Seq(Ids)
        BY <1>3, <1>5, <2>2 DEF Packets
      <4>2. i \in Ids
        BY <2>2, <4>1 DEF IdsOf
      <4>3. QED
        BY <4>2, IdsFinite
    <3>3. lastId < p.id /\ p.id \in Nat
      <4>1. p.id \in Ids
        BY DEF Packets
      <4>2. QED
        BY <1>3, <2>1, <2>4, <4>1, IdsFinite
    <3>4. i < p.id
      BY <1>2, <3>1, <3>2, <3>3
    <3>5. QED
      BY <1>3, <2>4, <3>4
  <2>5. QED
    BY <1>3, <2>3, <2>4
<1>9. /\ \A n \in DOMAIN toServer' : \A i \in toServer'[n] : Covered(Current', i)
      /\ \A i \in acked' : Covered(Current', i)
  BY <1>4 DEF IInv, WayInOrder
<1>10. WayInOrder'
  BY <1>7, <1>8, <1>9 DEF WayInOrder
<1>11. QED
  BY <1>1, <1>2, <1>3, <1>10

(* The next id is one of the server, and newer than all that were used. *)
LEMMA NextIdIs ==
    ASSUME IInv
    PROVE  /\ NextId \in Nat /\ lastId < NextId
           /\ NextId <= MaxId => NextId \in Ids
           /\ NextId + 2 <= MaxId => NextId + 2 \in Ids /\ NextId \in Ids
<1>1. lastId \in Ids \cup {0} /\ MaxId \in Nat
  BY SessionAssumption DEF IInv, ServerInOrder
<1>2. CASE lastId = 0
  BY <1>1, <1>2 DEF NextId, Ids
<1>3. CASE lastId \in Ids
  <2>1. lastId \in Nat /\ lastId % 2 = 1 /\ lastId >= 1
    BY <1>1, <1>3 DEF Ids
  <2>2. NextId = lastId + 2
    BY <2>1 DEF NextId
  <2>3. (lastId + 2) % 2 = 1 /\ (lastId + 4) % 2 = 1
    BY <2>1
  <2>4. QED
    BY <1>1, <2>1, <2>2, <2>3 DEF Ids
<1>4. QED
  BY <1>1, <1>2, <1>3

(* A packet with new ids alone is in order. *)
LEMMA NewPacket ==
    ASSUME IInv, NEW p \in Packets, p.session = serverSession,
           NEW r \in Nat, p.kind = "bad_msg" => p.session < r,
           NEW l \in Nat, \A i \in IdsOf(p) : i <= l,
           \A i \in IdsOf(p) : i \in unacked \/ lastId < i,
           p.kind = "container" =>
               /\ Len(p.inner) \in {1, 2} /\ \A n \in DOMAIN p.inner : p.inner[n] < p.id
               /\ lastId < p.id
    PROVE  PacketInOrder(p, Current, serverSession, r, l)
<1>1. /\ Current.session = session /\ Current.seen = seen /\ lastId \in Nat
      /\ serverSession \in Nat
  BY TypesOf
<1>2. \A i \in seen : i <= lastId /\ i \in Nat
  <2>1. \A i \in seen : i <= lastId /\ i \in Ids
    BY DEF IInv, ServerInOrder, TypeOK
  <2>2. QED
    BY <2>1, IdsFinite
<1>3. p.id \in Nat
  <2>1. p.id \in Ids
    BY DEF Packets
  <2>2. QED
    BY <2>1, IdsFinite
<1>4. p.kind = "container" => \A i \in seen : i < p.id
  BY <1>1, <1>2, <1>3
<1>5. ASSUME serverSession = session, NEW i \in IdsOf(p), i \in seen PROVE Known(Current, i)
  <2>1. i \in unacked
    BY <1>1, <1>2, <1>5
  <2>2. QED
    BY <1>5, <2>1 DEF IInv, ServerInOrder
<1>6. p.session <= serverSession
  BY <1>1
<1>7. QED
  BY <1>1, <1>4, <1>5, <1>6 DEF PacketInOrder

LEMMA SendsKeep ==
    IInv /\ ServerSend => IInv'
<1> SUFFICES ASSUME IInv, ServerSend PROVE IInv'
  OBVIOUS
<1>1. /\ unacked' = unacked \cup {NextId}
      /\ UNCHANGED <<push, client, toServer, acked, serverSession, drops, resets>>
  BY DEF ServerSend
<1>2. /\ NextId \in Nat /\ lastId < NextId
      /\ NextId <= MaxId => NextId \in Ids
      /\ NextId + 2 <= MaxId => NextId + 2 \in Ids /\ NextId \in Ids
  BY NextIdIs
<1>3. PICK x : x = NextId
  OBVIOUS
<1>4. /\ serverSession \in Nat /\ resets \in Nat /\ lastId \in Nat /\ session \in Nat
      /\ Current.session = session /\ Current.seen = seen
      /\ \A i \in unacked : i \in Ids /\ i \in Nat /\ i <= lastId
      /\ serverSession \in 0..MaxResets /\ resets <= resets /\ MaxId \in Nat
  <2>1. \A i \in unacked : i \in Ids /\ i <= lastId
    BY DEF IInv, ServerInOrder, TypeOK
  <2>2. serverSession \in 0..MaxResets
    BY DEF IInv, TypeOK
  <2>3. /\ serverSession \in Nat /\ resets \in Nat /\ lastId \in Nat /\ session \in Nat
        /\ Current.session = session /\ Current.seen = seen
    BY TypesOf
  <2>4. MaxId \in Nat /\ \A i \in unacked : i \in Nat
    BY <2>1, IdsFinite
  <2>5. QED
    BY <2>1, <2>2, <2>3, <2>4
<1>5. /\ x \in Ids /\ lastId' \in Ids /\ x <= lastId' /\ lastId <= lastId'
      /\ WayInOrder' /\ toClient' \in Seq(Packets) /\ Len(toClient') <= MaxFlight
  <2>1. CASE x <= MaxId /\ lastId' = x /\ Put(Packet("plain", x, <<>>))
    <3>1. PICK p : p = Packet("plain", x, <<>>)
      OBVIOUS
    <3>2. x \in Ids /\ x \in Nat /\ x <= x /\ lastId < x /\ lastId <= x
      BY <1>2, <1>3, <1>4, <2>1
    <3>3. /\ p \in Packets /\ p.kind = "plain" /\ p.id = x /\ p.inner = <<>>
          /\ p.session = serverSession
      BY <1>4, <3>1, <3>2 DEF Packet, Packets
    <3>4. IdsOf(p) = {x}
      BY <3>3 DEF IdsOf
    <3>5. PacketInOrder(p, Current, serverSession, resets, x)
      BY <1>4, <3>2, <3>3, <3>4, NewPacket
    <3>6. Put(p) /\ lastId' = x /\ resets' = resets /\ p.kind # "container"
      BY <1>1, <2>1, <3>1, <3>3
    <3>7. PacketInOrder(p, Current, serverSession, resets', lastId')
      BY <3>5, <3>6
    <3>8. WayInOrder' /\ toClient' \in Seq(Packets) /\ Len(toClient') <= MaxFlight
      BY <1>1, <1>4, <3>2, <3>3, <3>6, <3>7, PutKeeps
    <3>9. QED
      BY <3>2, <3>6, <3>8
  <2>2. ASSUME x + 2 <= MaxId, lastId' = x + 2,
               NEW ids \in {<<x>>} \cup {<<i, x>> : i \in unacked},
               Put(Packet("container", x + 2, ids))
        PROVE  /\ x \in Ids /\ lastId' \in Ids /\ x <= lastId' /\ lastId <= lastId'
               /\ WayInOrder' /\ toClient' \in Seq(Packets) /\ Len(toClient') <= MaxFlight
    <3>1. PICK p : p = Packet("container", x + 2, ids)
      OBVIOUS
    <3>2. /\ x \in Ids /\ x \in Nat /\ x + 2 \in Ids /\ x + 2 \in Nat /\ x <= x + 2
          /\ lastId < x /\ lastId < x + 2 /\ lastId <= x + 2
      BY <1>2, <1>3, <1>4, <2>2
    <3>3. /\ ids \in Seq(Ids) /\ Len(ids) \in {1, 2}
          /\ \A n \in DOMAIN ids : ids[n] = x \/ ids[n] \in unacked
      <4>1. CASE ids = <<x>>
        BY <3>2, <4>1
      <4>2. CASE \E i \in unacked : ids = <<i, x>>
        <5>1. PICK i \in unacked : ids = <<i, x>>
          BY <4>2
        <5>2. i \in Ids
          BY <1>4
        <5>3. QED
          BY <3>2, <5>1, <5>2
      <4>3. QED
        BY <2>2, <4>1, <4>2
    <3>4. /\ p \in Packets /\ p.kind = "container" /\ p.id = x + 2 /\ p.inner = ids
          /\ p.session = serverSession
      BY <1>4, <3>1, <3>2, <3>3 DEF Packet, Packets
    <3>5. \A n \in DOMAIN p.inner : p.inner[n] < p.id
      <4>1. \A i \in unacked : i < x + 2
        BY <1>4, <3>2
      <4>2. x < x + 2
        BY <3>2
      <4>3. QED
        BY <3>3, <3>4, <4>1, <4>2
    <3>6. \A i \in IdsOf(p) : i <= x + 2 /\ (i \in unacked \/ lastId < i)
      <4>1. \A i \in IdsOf(p) : i = x + 2 \/ i = x \/ i \in unacked
        BY <3>3, <3>4 DEF IdsOf
      <4>2. \A i \in unacked : i <= x + 2
        BY <1>4, <3>2
      <4>3. x + 2 <= x + 2
        BY <3>2
      <4>4. QED
        BY <3>2, <4>1, <4>2, <4>3
    <3>7. PacketInOrder(p, Current, serverSession, resets, x + 2)
      <4>1. lastId < p.id /\ p.kind # "bad_msg" /\ Len(p.inner) \in {1, 2}
        BY <3>2, <3>3, <3>4
      <4>2. QED
        BY <1>4, <3>2, <3>4, <3>5, <3>6, <4>1, NewPacket
    <3>8. Put(p) /\ resets' = resets /\ lastId < p.id
      BY <1>1, <2>2, <3>1, <3>2, <3>4
    <3>9. PacketInOrder(p, Current, serverSession, resets', lastId')
      BY <2>2, <3>7, <3>8
    <3>10. WayInOrder' /\ toClient' \in Seq(Packets) /\ Len(toClient') <= MaxFlight
      BY <1>1, <1>4, <2>2, <3>2, <3>4, <3>8, <3>9, PutKeeps
    <3>11. QED
      BY <2>2, <3>2, <3>10
  <2>3. QED
    BY <1>3, <2>1, <2>2 DEF ServerSend
<1>6. Current' = Current /\ ClientInOrder'
  BY <1>1, SameClient
<1>7. ServerInOrder'
  <2>1. seen' = seen /\ session' = session /\ lastId' \in Nat
    BY <1>1, <1>5, IdsFinite DEF client
  <2>2. \A i \in seen : i <= lastId /\ i \in Nat
    <3>1. \A i \in seen : i <= lastId /\ i \in Ids
      BY DEF IInv, ServerInOrder, TypeOK
    <3>2. QED
      BY <3>1, IdsFinite
  <2>3. \A i \in seen' \cup unacked' : i <= lastId'
    <3>1. \A i \in seen \cup unacked : i <= lastId'
      BY <1>4, <1>5, <2>1, <2>2
    <3>2. QED
      BY <1>1, <1>3, <1>5, <2>1, <3>1
  <2>4. x \notin seen
    BY <1>2, <1>3, <1>4, <2>2
  <2>5. serverSession' = session' => \A i \in unacked' : i \in seen' => Known(Current', i)
    BY <1>1, <1>3, <1>6, <2>1, <2>4 DEF IInv, ServerInOrder
  <2>6. serverSession' <= session' /\ session' <= resets'
    BY <1>1, <2>1 DEF IInv, ServerInOrder
  <2>7. QED
    BY <1>5, <2>3, <2>5, <2>6 DEF ServerInOrder
<1>8. TypeOK'
  <2>1. lastId' \in 0..MaxId /\ unacked' \subseteq Ids
    <3>1. lastId' \in 0..MaxId
      BY <1>5, IdsFinite
    <3>2. QED
      BY <1>1, <1>3, <1>4, <1>5, <3>1
  <2>2. QED
    BY <1>1, <1>5, <2>1 DEF IInv, TypeOK, client
<1>9. QED
  BY <1>5, <1>6, <1>7, <1>8 DEF IInv

LEMMA ResendKeeps ==
    IInv /\ ServerResend => IInv'
<1> SUFFICES ASSUME IInv, ServerResend PROVE IInv'
  OBVIOUS
<1>1. PICK i \in unacked : Put(Packet("plain", i, <<>>))
  BY DEF ServerResend
<1>2. UNCHANGED <<push, client, toServer, lastId, unacked, acked, serverSession, drops, resets>>
  BY DEF ServerResend
<1>3. PICK p : p = Packet("plain", i, <<>>)
  OBVIOUS
<1>4. /\ serverSession \in Nat /\ resets \in Nat /\ lastId \in Nat
      /\ resets <= resets /\ lastId <= lastId
  BY TypesOf
<1>5. i \in Ids /\ i <= lastId /\ serverSession \in 0..MaxResets
  BY DEF IInv, ServerInOrder, TypeOK
<1>6. /\ p \in Packets /\ p.kind = "plain" /\ p.id = i /\ p.inner = <<>>
      /\ p.session = serverSession
  BY <1>3, <1>5 DEF Packet, Packets
<1>7. IdsOf(p) = {i}
  BY <1>6 DEF IdsOf
<1>8. PacketInOrder(p, Current, serverSession, resets, lastId)
  BY <1>4, <1>5, <1>6, <1>7, NewPacket
<1>9. PacketInOrder(p, Current, serverSession, resets', lastId') /\ p.kind # "container" /\ Put(p)
  BY <1>1, <1>2, <1>3, <1>6, <1>8
<1>10. WayInOrder' /\ toClient' \in Seq(Packets) /\ Len(toClient') <= MaxFlight
  BY <1>2, <1>4, <1>6, <1>9, PutKeeps
<1>11. Current' = Current /\ ClientInOrder'
  BY <1>2, SameClient
<1>12. ServerInOrder'
  BY <1>2, <1>11 DEF IInv, ServerInOrder, client
<1>13. TypeOK'
  BY <1>2, <1>10 DEF IInv, TypeOK, client
<1>14. QED
  BY <1>10, <1>11, <1>12, <1>13 DEF IInv

LEMMA ComplainKeeps ==
    IInv /\ ServerComplain => IInv'
<1> SUFFICES ASSUME IInv, ServerComplain PROVE IInv'
  OBVIOUS
<1>1. /\ resets < MaxResets /\ NextId <= MaxId /\ resets' = resets + 1 /\ lastId' = NextId
      /\ Put(Packet("bad_msg", NextId, <<>>))
      /\ UNCHANGED <<push, client, toServer, unacked, acked, serverSession, drops>>
  BY DEF ServerComplain
<1>2. PICK x : x = NextId
  OBVIOUS
<1>3. PICK p : p = Packet("bad_msg", x, <<>>)
  OBVIOUS
<1>4. x \in Nat /\ x \in Ids /\ lastId < x /\ x <= x
  BY <1>1, <1>2, NextIdIs
<1>5. /\ serverSession \in Nat /\ resets \in Nat /\ lastId \in Nat /\ session \in Nat
      /\ serverSession \in 0..MaxResets /\ MaxResets \in Nat
  BY TypesOf, SessionAssumption DEF IInv, TypeOK
<1>6. /\ p \in Packets /\ p.kind = "bad_msg" /\ p.id = x /\ p.inner = <<>>
      /\ p.session = serverSession
  BY <1>3, <1>4, <1>5 DEF Packet, Packets
<1>7. IdsOf(p) = {x}
  BY <1>6 DEF IdsOf
<1>8. serverSession < resets + 1 /\ resets + 1 \in Nat /\ resets <= resets + 1 /\ lastId <= x
      /\ resets + 1 \in 0..MaxResets /\ session <= resets + 1
  <2>1. serverSession <= session /\ session <= resets
    BY DEF IInv, ServerInOrder
  <2>2. QED
    BY <1>1, <1>4, <1>5, <2>1
<1>9. PacketInOrder(p, Current, serverSession, resets + 1, x)
  <2>1. p.session < resets + 1 /\ p.kind # "container"
    BY <1>6, <1>8
  <2>2. QED
    BY <1>4, <1>6, <1>7, <1>8, <2>1, NewPacket
<1>10. PacketInOrder(p, Current, serverSession, resets', lastId') /\ p.kind # "container" /\ Put(p)
  BY <1>1, <1>2, <1>3, <1>6, <1>9
<1>11. lastId' \in Nat /\ lastId <= lastId' /\ resets' \in Nat /\ resets <= resets'
  BY <1>1, <1>2, <1>4, <1>8
<1>12. WayInOrder' /\ toClient' \in Seq(Packets) /\ Len(toClient') <= MaxFlight
  BY <1>1, <1>6, <1>10, <1>11, PutKeeps
<1>13. Current' = Current /\ ClientInOrder'
  BY <1>1, SameClient
<1>14. ServerInOrder'
  <2>1. \A i \in seen \cup unacked : i <= lastId /\ i \in Nat
    <3>1. \A i \in seen \cup unacked : i <= lastId /\ i \in Ids
      BY DEF IInv, ServerInOrder, TypeOK
    <3>2. QED
      BY <3>1, IdsFinite
  <2>2. \A i \in seen \cup unacked : i <= lastId'
    BY <1>5, <1>11, <2>1
  <2>3. seen' = seen /\ session' = session /\ lastId' \in Ids
    BY <1>1, <1>2, <1>4 DEF client
  <2>4. serverSession' <= session' /\ session' <= resets'
    BY <1>1, <1>8, <2>3 DEF IInv, ServerInOrder
  <2>5. serverSession' = session' => \A i \in unacked' : i \in seen' => Known(Current', i)
    BY <1>1, <1>13, <2>3 DEF IInv, ServerInOrder
  <2>6. QED
    BY <1>1, <2>2, <2>3, <2>4, <2>5 DEF ServerInOrder
<1>15. TypeOK'
  <2>1. lastId' \in 0..MaxId
    BY <1>1, <1>2, <1>4, IdsFinite
  <2>2. QED
    BY <1>1, <1>8, <1>12, <2>1 DEF IInv, TypeOK, client
<1>16. QED
  BY <1>12, <1>13, <1>14, <1>15 DEF IInv

LEMMA ConfirmationKeeps ==
    IInv /\ ServerGetsConfirmation => IInv'
<1> SUFFICES ASSUME IInv, ServerGetsConfirmation PROVE IInv'
  OBVIOUS
<1>1. /\ toServer # <<>> /\ toServer' = Tail(toServer)
      /\ acked' = acked \cup Head(toServer) /\ unacked' = unacked \ Head(toServer)
      /\ UNCHANGED <<push, client, toClient, lastId, serverSession, drops, resets>>
  BY DEF ServerGetsConfirmation
<1>2. Current' = Current /\ ClientInOrder'
  BY <1>1, SameClient
<1>3. toServer \in Seq(SUBSET Ids)
  BY TypesOf
<1>4. /\ toServer' \in Seq(SUBSET Ids) /\ Len(toServer) \in Nat
      /\ Len(toServer') = Len(toServer) - 1
      /\ Head(toServer) = toServer[1] /\ Head(toServer) \in SUBSET Ids /\ 1 \in DOMAIN toServer
      /\ \A n \in DOMAIN toServer' : n + 1 \in DOMAIN toServer /\ toServer'[n] = toServer[n + 1]
  BY <1>1, <1>3, TailIs
<1>5. ServerInOrder'
  BY <1>1, <1>2 DEF IInv, ServerInOrder, client
<1>6. WayInOrder'
  <2>1. \A n \in DOMAIN toServer' : \A i \in toServer'[n] : Covered(Current, i)
    BY <1>4 DEF IInv, WayInOrder
  <2>2. \A i \in acked' : Covered(Current, i)
    BY <1>1, <1>4 DEF IInv, WayInOrder
  <2>3. \A n \in DOMAIN toClient' :
          PacketInOrder(toClient'[n], Current', serverSession', resets', lastId')
    BY <1>1, <1>2 DEF IInv, WayInOrder
  <2>4. ContainersLater'
    BY <1>1 DEF IInv, WayInOrder, ContainersLater
  <2>5. QED
    BY <1>2, <2>1, <2>2, <2>3, <2>4 DEF WayInOrder
<1>7. TypeOK'
  <2>1. Len(toServer') <= MaxFlight
    BY <1>4, SessionAssumption DEF IInv, TypeOK
  <2>2. QED
    BY <1>1, <1>4, <2>1 DEF IInv, TypeOK, client
<1>8. QED
  BY <1>2, <1>5, <1>6, <1>7 DEF IInv

LEMMA NewSessionKeeps ==
    IInv /\ ServerNewSession => IInv'
<1> SUFFICES ASSUME IInv, ServerNewSession PROVE IInv'
  OBVIOUS
<1>1. /\ serverSession' = session /\ unacked' = {}
      /\ UNCHANGED <<push, client, toClient, toServer, lastId, acked, drops, resets>>
  BY DEF ServerNewSession
<1>2. Current' = Current /\ ClientInOrder'
  BY <1>1, SameClient
<1>3. /\ Current \in Sessions /\ Current.session = session /\ serverSession \in Nat
      /\ resets \in Nat /\ lastId \in Nat /\ session \in Nat /\ toClient \in Seq(Packets)
  BY TypesOf
<1>4. session' = session /\ seen' = seen /\ serverSession <= session
  BY <1>1 DEF client, IInv, ServerInOrder
<1>5. ServerInOrder'
  BY <1>1, <1>3, <1>4 DEF IInv, ServerInOrder
<1>6. ASSUME NEW n \in DOMAIN toClient
      PROVE  PacketInOrder(toClient[n], Current, session, resets, lastId)
  <2>1. PICK q : q = toClient[n]
    OBVIOUS
  <2>2. q \in Packets /\ PacketInOrder(q, Current, serverSession, resets, lastId)
    BY <1>3, <2>1 DEF IInv, WayInOrder
  <2>3. q.kind = "container" => \A i \in Current.seen : i < q.id
    BY <2>2 DEF PacketInOrder
  <2>4. Extends(Current, Current) /\ resets <= resets /\ lastId <= lastId
        /\ serverSession <= Current.session
    BY <1>3, <1>4, ExtendsItself
  <2>5. PacketInOrder(q, Current, session, resets, lastId)
    BY <1>3, <1>4, <2>2, <2>3, <2>4, PacketStays
  <2>6. QED
    BY <2>1, <2>5
<1>7. WayInOrder'
  <2>1. ContainersLater'
    BY <1>1 DEF IInv, WayInOrder, ContainersLater
  <2>2. /\ \A n \in DOMAIN toServer' : \A i \in toServer'[n] : Covered(Current', i)
        /\ \A i \in acked' : Covered(Current', i)
    BY <1>1, <1>2 DEF IInv, WayInOrder
  <2>3. QED
    BY <1>1, <1>2, <1>6, <2>1, <2>2 DEF WayInOrder
<1>8. TypeOK'
  BY <1>1 DEF IInv, TypeOK, client
<1>9. QED
  BY <1>2, <1>5, <1>7, <1>8 DEF IInv

LEMMA DropKeeps ==
    IInv /\ Drop => IInv'
<1> SUFFICES ASSUME IInv, Drop PROVE IInv'
  OBVIOUS
<1>1. /\ drops < MaxDrops /\ drops' = drops + 1 /\ toClient' = <<>> /\ toServer' = <<>>
      /\ UNCHANGED <<push, client, lastId, unacked, acked, serverSession, resets>>
  BY DEF Drop
<1>2. Current' = Current /\ ClientInOrder'
  BY <1>1, SameClient
<1>3. ServerInOrder'
  BY <1>1, <1>2 DEF IInv, ServerInOrder, client
<1>4. WayInOrder'
  <2>1. \A i \in acked' : Covered(Current', i)
    BY <1>1, <1>2 DEF IInv, WayInOrder
  <2>2. QED
    BY <1>1, <2>1 DEF WayInOrder, ContainersLater
<1>5. TypeOK'
  BY <1>1, SessionAssumption DEF IInv, TypeOK, client
<1>6. QED
  BY <1>2, <1>3, <1>4, <1>5 DEF IInv

LEMMA StutterKeeps ==
    IInv /\ UNCHANGED vars => IInv'
<1> SUFFICES ASSUME IInv, UNCHANGED vars PROVE IInv'
  OBVIOUS
<1>1. UNCHANGED <<push, client, toClient, toServer, lastId, unacked, acked, serverSession, drops, resets>>
  BY DEF vars
<1>2. Current' = Current /\ ClientInOrder'
  BY <1>1, SameClient
<1>3. ServerInOrder'
  BY <1>1, <1>2 DEF IInv, ServerInOrder, client
<1>4. WayInOrder'
  BY <1>1, <1>2 DEF IInv, WayInOrder, ContainersLater
<1>5. TypeOK'
  BY <1>1 DEF IInv, TypeOK, client
<1>6. QED
  BY <1>2, <1>3, <1>4, <1>5 DEF IInv

LEMMA AlwaysInOrder ==
    Spec => []IInv
<1>1. IInv /\ [Next]_vars => IInv'
  BY ReceiveKeeps, SendKeeps, SendsKeep, ResendKeeps, ComplainKeeps, ConfirmationKeeps,
     NewSessionKeeps, DropKeeps, StutterKeeps DEF Next
<1>2. QED
  BY <1>1, InitInOrder, PTL DEF Spec

----------------------------------------------------------------------------
(* addProcessedMessageId prunes the list of processed messages without
   forgetting one, and what generateConfirmationRequest sends for messages that
   were never handed on is only what isMessageIdProcessed refuses as older than
   the window, for every size of the window, however often messages are sent
   again, connections lost and sessions made anew. *)
THEOREM AlwaysWindowKept ==
    Spec => []WindowKept
<1>1. IInv => WindowKept
  <2> SUFFICES ASSUME IInv PROVE WindowKept
    OBVIOUS
  <2>1. ASSUME NEW i \in acked
        PROVE  delivered[i] > 0 \/ Cardinality({j \in seen : j > i}) >= Limit + 1 - Prune
    <3>1. Covered(Current, i)
      BY DEF IInv, WayInOrder
    <3>2. Current.delivered = delivered /\ Current.seen = seen
      BY DEF Current
    <3>3. QED
      BY <3>1, <3>2, Zenon DEF Covered, Window
  <2>2. ConfirmedWasProcessed
    BY <2>1 DEF ConfirmedWasProcessed
  <2>3. QED
    BY <2>2 DEF WindowKept, IInv, ClientInOrder
<1>2. QED
  BY <1>1, AlwaysInOrder, PTL

(* onConnectionDataReceived hands a message that the library parses on once at
   most, sent again alone or in containers, before and after its id was pruned
   from the list and before and after recreateSession emptied it. *)
THEOREM AlwaysParsedOnce ==
    Spec => []ParsedOnce
<1>1. IInv => ParsedOnce
  BY DEF IInv, ClientInOrder, HandedOnce, ParsedOnce, Current
<1>2. QED
  BY <1>1, AlwaysInOrder, PTL
=============================================================================
