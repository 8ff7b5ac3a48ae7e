-------------------------- MODULE SchedulerProofs --------------------------
(***************************************************************************)
(* What the scheduler guarantees for any threads, priorities and bursts,   *)
(* whatever the periods of the timer and of aging.                         *)
(***************************************************************************)
EXTENDS Scheduler, SequenceTheorems, WellFoundedInduction, TLAPS

-----------------------------------------------------------------------------
(* Sequences.                                                              *)

(* A set of numbers that is not empty has a least one.                      *)
LEMMA LeastElement ==
    ASSUME NEW S \in SUBSET Nat, S # {}
    PROVE  \E x \in S : \A y \in S : x <= y
  <1>1. IsWellFoundedOn(OpToRel(<, Nat), Nat)
    BY NatLessThanWellFounded, Zenon
  <1>2. PICK x \in S : \A y \in S : ~ (<<y, x>> \in OpToRel(<, Nat))
    BY <1>1, WFMin, Zenon
  <1>3. ASSUME NEW y \in S, y < x
        PROVE  <<y, x>> \in OpToRel(<, Nat)
    BY <1>3 DEF OpToRel
  <1>4. ASSUME NEW y \in S PROVE x <= y
    <2>1. ~ (y < x)
      BY <1>2, <1>3
    <2>2. x \in Nat /\ y \in Nat
      OBVIOUS
    <2> QED
      BY <2>1, <2>2
  <1> QED
    BY <1>4

LEMMA InsertAtFacts ==
    ASSUME NEW S, NEW l \in Seq(S), NEW p \in 1 .. Len(l) + 1, NEW t \in S
    PROVE  /\ InsertAt(l, p, t) \in Seq(S)
           /\ Len(InsertAt(l, p, t)) = Len(l) + 1
           /\ \A i \in 1 .. Len(l) + 1 :
                 InsertAt(l, p, t)[i] = IF i < p THEN l[i] ELSE IF i = p THEN t ELSE l[i - 1]
  <1> DEFINE before == SubSeq(l, 1, p - 1)
  <1> DEFINE after == SubSeq(l, p, Len(l))
  <1>1. Len(l) \in Nat /\ p \in Nat /\ p - 1 \in Int /\ \A i \in 1 .. Len(l) : l[i] \in S
    OBVIOUS
  <1>2. /\ before \in Seq(S) /\ Len(before) = p - 1
        /\ \A i \in 1 .. p - 1 : before[i] = l[i]
    <2>1. \A i \in 1 .. p - 1 : l[i] \in S
      BY <1>1
    <2>2. /\ before \in Seq(S)
          /\ Len(before) = IF 1 <= p - 1 THEN p - 1 - 1 + 1 ELSE 0
          /\ \A i \in 1 .. p - 1 - 1 + 1 : before[i] = l[1 + i - 1]
      BY ONLY <1>1, <2>1, SubSeqProperties
    <2> QED
      BY ONLY <1>1, <2>2, p \in 1 .. Len(l) + 1
  <1>3. /\ after \in Seq(S) /\ Len(after) = Len(l) - p + 1
        /\ \A i \in 1 .. Len(l) - p + 1 : after[i] = l[p + i - 1]
    <2>1. \A i \in p .. Len(l) : l[i] \in S
      BY <1>1
    <2>2. /\ after \in Seq(S)
          /\ Len(after) = IF p <= Len(l) THEN Len(l) - p + 1 ELSE 0
          /\ \A i \in 1 .. Len(l) - p + 1 : after[i] = l[p + i - 1]
      BY ONLY <1>1, <2>1, SubSeqProperties
    <2> QED
      BY ONLY <1>1, <2>2, p \in 1 .. Len(l) + 1
  <1> HIDE DEF before, after
  <1> DEFINE upTo == before \o <<t>>
  <1>4. /\ upTo \in Seq(S) /\ Len(upTo) = p
        /\ \A i \in 1 .. p : upTo[i] = IF i < p THEN l[i] ELSE t
    <2>1. <<t>> \in Seq(S) /\ Len(<<t>>) = 1 /\ <<t>>[1] = t
      OBVIOUS
    <2> QED
      BY <1>1, <1>2, <2>1, ConcatProperties
  <1> HIDE DEF upTo
  <1>5. /\ upTo \o after \in Seq(S) /\ Len(upTo \o after) = Len(upTo) + Len(after)
        /\ \A i \in 1 .. Len(upTo) + Len(after) :
              (upTo \o after)[i] = IF i <= Len(upTo) THEN upTo[i] ELSE after[i - Len(upTo)]
    BY ONLY <1>3, <1>4, ConcatProperties
  <1>6. InsertAt(l, p, t) = upTo \o after
    BY DEF InsertAt, upTo, before, after
  <1> QED
    BY ONLY <1>1, <1>3, <1>4, <1>5, <1>6, p \in 1 .. Len(l) + 1

LEMMA RemoveAtFacts ==
    ASSUME NEW S, NEW l \in Seq(S), NEW p \in 1 .. Len(l)
    PROVE  /\ RemoveAt(l, p) \in Seq(S)
           /\ Len(RemoveAt(l, p)) = Len(l) - 1
           /\ \A i \in 1 .. Len(l) - 1 :
                 RemoveAt(l, p)[i] = IF i < p THEN l[i] ELSE l[i + 1]
  <1> DEFINE before == SubSeq(l, 1, p - 1)
  <1> DEFINE after == SubSeq(l, p + 1, Len(l))
  <1>1. Len(l) \in Nat /\ p \in Nat /\ p - 1 \in Int /\ \A i \in 1 .. Len(l) : l[i] \in S
    OBVIOUS
  <1>2. /\ before \in Seq(S) /\ Len(before) = p - 1
        /\ \A i \in 1 .. p - 1 : before[i] = l[i]
    <2>1. \A i \in 1 .. p - 1 : l[i] \in S
      BY <1>1
    <2>2. /\ before \in Seq(S)
          /\ Len(before) = IF 1 <= p - 1 THEN p - 1 - 1 + 1 ELSE 0
          /\ \A i \in 1 .. p - 1 - 1 + 1 : before[i] = l[1 + i - 1]
      BY ONLY <1>1, <2>1, SubSeqProperties
    <2> QED
      BY ONLY <1>1, <2>2, p \in 1 .. Len(l)
  <1>3. /\ after \in Seq(S) /\ Len(after) = Len(l) - p
        /\ \A i \in 1 .. Len(l) - p : after[i] = l[p + i]
    <2>1. p + 1 \in Int /\ \A i \in p + 1 .. Len(l) : l[i] \in S
      BY <1>1
    <2>2. /\ after \in Seq(S)
          /\ Len(after) = IF p + 1 <= Len(l) THEN Len(l) - (p + 1) + 1 ELSE 0
          /\ \A i \in 1 .. Len(l) - (p + 1) + 1 : after[i] = l[p + 1 + i - 1]
      BY ONLY <1>1, <2>1, SubSeqProperties
    <2> QED
      BY ONLY <1>1, <2>2, p \in 1 .. Len(l)
  <1> HIDE DEF before, after
  <1>4. /\ before \o after \in Seq(S) /\ Len(before \o after) = Len(before) + Len(after)
        /\ \A i \in 1 .. Len(before) + Len(after) :
              (before \o after)[i] = IF i <= Len(before) THEN before[i] ELSE after[i - Len(before)]
    BY ONLY <1>2, <1>3, ConcatProperties
  <1>5. RemoveAt(l, p) = before \o after
    BY DEF RemoveAt, before, after
  <1>6. Len(before) + Len(after) = Len(l) - 1
    BY ONLY <1>1, <1>2, <1>3
  <1>7. ASSUME NEW i \in 1 .. Len(l) - 1
        PROVE  (before \o after)[i] = IF i < p THEN l[i] ELSE l[i + 1]
    <2>1. CASE i < p
      <3>1. i \in 1 .. p - 1 /\ i <= p - 1
        BY ONLY <1>1, <2>1, i \in 1 .. Len(l) - 1
      <3>2. (before \o after)[i] = before[i]
        BY ONLY <1>2, <1>4, <1>6, <3>1, i \in 1 .. Len(l) - 1
      <3>3. before[i] = l[i]
        BY ONLY <1>2, <3>1
      <3> QED
        BY ONLY <2>1, <3>2, <3>3
    <2>2. CASE i >= p
      <3>1. i - (p - 1) \in 1 .. Len(l) - p /\ p + (i - (p - 1)) = i + 1 /\ ~ (i <= p - 1)
        BY ONLY <1>1, <2>2, i \in 1 .. Len(l) - 1
      <3>2. (before \o after)[i] = after[i - (p - 1)]
        BY ONLY <1>2, <1>4, <1>6, <3>1, i \in 1 .. Len(l) - 1
      <3>3. after[i - (p - 1)] = l[p + (i - (p - 1))]
        BY ONLY <1>3, <3>1
      <3> QED
        BY ONLY <1>1, <2>2, <3>1, <3>2, <3>3, i \in 1 .. Len(l) - 1
    <2>3. i < p \/ i >= p
      BY ONLY <1>1, i \in 1 .. Len(l) - 1
    <2> QED
      BY ONLY <2>1, <2>2, <2>3
  <1> QED
    BY ONLY <1>4, <1>5, <1>6, <1>7

LEMMA FrontFacts ==
    ASSUME NEW S, NEW l \in Seq(S), l # <<>>
    PROVE  1 \in 1 .. Len(l) /\ Head(l) = l[1] /\ Tail(l) = RemoveAt(l, 1)
  <1>1. /\ Len(l) \in Nat \ {0} /\ 1 \in 1 .. Len(l)
        /\ Tail(l) \in Seq(S) /\ Len(Tail(l)) = Len(l) - 1
        /\ \A i \in 1 .. Len(l) - 1 : Tail(l)[i] = l[i + 1]
    OBVIOUS
  <1>2. RemoveAt(l, 1) \in Seq(S) /\ Len(RemoveAt(l, 1)) = Len(l) - 1
    BY <1>1, RemoveAtFacts
  <1>3. \A i \in 1 .. Len(l) - 1 : RemoveAt(l, 1)[i] = l[i + 1]
    <2>1. \A i \in 1 .. Len(l) - 1 : RemoveAt(l, 1)[i] = IF i < 1 THEN l[i] ELSE l[i + 1]
      BY <1>1, RemoveAtFacts
    <2> QED
      BY <1>1, <2>1
  <1> QED
    BY <1>1, <1>2, <1>3

LEMMA Elements ==
    ASSUME NEW S, NEW l \in Seq(S)
    PROVE  /\ ToSet(l) \subseteq S
           /\ \A t : t \in ToSet(l) <=> \E i \in 1 .. Len(l) : l[i] = t
  BY DEF ToSet

-----------------------------------------------------------------------------
(* The order of a list.                                                    *)

Keys(prio, rem) ==
    prio \in [Threads -> 0 .. MaxPriority] /\ rem \in [Threads -> -MaxBurst .. MaxBurst]

(* cmp_BurstTime and cmp_Priority are strict total orders, IDs break ties.  *)
LEMMA BeforeOrder ==
    ASSUME NEW prio, NEW rem, Keys(prio, rem), NEW k \in {1, 2},
           NEW t \in Threads, NEW u \in Threads, NEW v \in Threads
    PROVE  /\ Before(k, t, u, prio, rem) => ~Before(k, u, t, prio, rem)
           /\ t # u => Before(k, t, u, prio, rem) \/ Before(k, u, t, prio, rem)
           /\ Before(k, t, u, prio, rem) /\ Before(k, u, v, prio, rem)
                => Before(k, t, v, prio, rem)
  <1>1. t \in Nat /\ u \in Nat /\ v \in Nat /\ MaxBurst \in Nat /\ MaxPriority \in Nat
    BY SchedulerAssumption
  <1>2. CASE k = 1
    <2> DEFINE x == Larger(rem[t], 0)
    <2> DEFINE y == Larger(rem[u], 0)
    <2> DEFINE z == Larger(rem[v], 0)
    <2>1. x \in Int /\ y \in Int /\ z \in Int
      BY <1>1 DEF Keys, Larger
    <2>2. /\ Before(k, t, u, prio, rem) <=> x < y \/ (x = y /\ t < u)
          /\ Before(k, u, t, prio, rem) <=> y < x \/ (y = x /\ u < t)
          /\ Before(k, u, v, prio, rem) <=> y < z \/ (y = z /\ u < v)
          /\ Before(k, t, v, prio, rem) <=> x < z \/ (x = z /\ t < v)
      BY <1>2 DEF Before, Shorter
    <2> HIDE DEF x, y, z
    <2> QED
      BY <1>1, <2>1, <2>2
  <1>3. CASE k = 2
    <2>1. prio[t] \in Int /\ prio[u] \in Int /\ prio[v] \in Int
      BY <1>1 DEF Keys
    <2> QED
      BY <1>1, <1>3, <2>1 DEF Before, Higher
  <1> QED
    BY <1>2, <1>3

IsPlace(i, l, k, t, prio, rem) ==
    /\ i = Len(l) + 1 \/ Before(k, t, l[i], prio, rem)
    /\ \A j \in 1 .. i - 1 : ~Before(k, t, l[j], prio, rem)

(* SortedList::Insert finds a place, and there is only one.                 *)
LEMMA PlaceFacts ==
    ASSUME NEW l \in Seq(Threads), NEW k, NEW t, NEW prio, NEW rem
    PROVE  /\ Place(l, k, t, prio, rem) \in 1 .. Len(l) + 1
           /\ IsPlace(Place(l, k, t, prio, rem), l, k, t, prio, rem)
           /\ \A i \in 1 .. Len(l) + 1 :
                 IsPlace(i, l, k, t, prio, rem) => i = Place(l, k, t, prio, rem)
  <1> DEFINE S == {i \in 1 .. Len(l) + 1 : i = Len(l) + 1 \/ Before(k, t, l[i], prio, rem)}
  <1>1. Len(l) \in Nat /\ Len(l) + 1 \in S /\ S \in SUBSET Nat
    OBVIOUS
  <1>2. PICK x \in S : \A y \in S : x <= y
    BY <1>1, LeastElement
  <1>3. x \in 1 .. Len(l) + 1 /\ IsPlace(x, l, k, t, prio, rem)
    BY <1>1, <1>2 DEF IsPlace
  <1>4. Place(l, k, t, prio, rem)
          = CHOOSE i \in 1 .. Len(l) + 1 : IsPlace(i, l, k, t, prio, rem)
    BY DEF Place, IsPlace
  <1>5. /\ Place(l, k, t, prio, rem) \in 1 .. Len(l) + 1
        /\ IsPlace(Place(l, k, t, prio, rem), l, k, t, prio, rem)
    BY <1>3, <1>4
  <1>6. ASSUME NEW i \in 1 .. Len(l) + 1, NEW j \in 1 .. Len(l) + 1, i < j,
               IsPlace(i, l, k, t, prio, rem), IsPlace(j, l, k, t, prio, rem)
        PROVE  FALSE
    BY <1>1, <1>6 DEF IsPlace
  <1> QED
    BY <1>1, <1>5, <1>6

-----------------------------------------------------------------------------
(* One ready list.                                                         *)

Distinct(l) == \A i, j \in 1 .. Len(l) : l[i] = l[j] => i = j
InOrder(l, k, prio, rem) ==
    \A i, j \in 1 .. Len(l) : i < j => Before(k, l[i], l[j], prio, rem)
Belongs(t, k, prio) == Level(prio[t]) = k \/ (k = 3 /\ t = Main)

ListOK(l, k, prio, rem) ==
    /\ l \in Seq(Threads)
    /\ Distinct(l)
    /\ k \in {1, 2} => InOrder(l, k, prio, rem)
    /\ \A i \in 1 .. Len(l) : Belongs(l[i], k, prio)

(* A list of a level stays sound when a thread of the level is inserted.    *)
LEMMA InsertOK ==
    ASSUME NEW prio, NEW rem, Keys(prio, rem), NEW k \in 1 .. 3,
           NEW l, ListOK(l, k, prio, rem),
           NEW t \in Threads, t \notin ToSet(l), Level(prio[t]) = k
    PROVE  LET new == InsertAt(l, Place(l, k, t, prio, rem), t)
           IN  ListOK(new, k, prio, rem) /\ ToSet(new) = ToSet(l) \cup {t}
  <1> DEFINE p == Place(l, k, t, prio, rem)
             new == InsertAt(l, p, t)
  <1>1. l \in Seq(Threads) /\ Len(l) \in Nat /\ Distinct(l)
    BY DEF ListOK
  <1>2. p \in 1 .. Len(l) + 1 /\ IsPlace(p, l, k, t, prio, rem)
    BY <1>1, PlaceFacts
  <1> HIDE DEF p
  <1>3. /\ new \in Seq(Threads) /\ Len(new) = Len(l) + 1
        /\ \A i \in 1 .. Len(l) + 1 :
              new[i] = IF i < p THEN l[i] ELSE IF i = p THEN t ELSE l[i - 1]
    BY <1>1, <1>2, InsertAtFacts
  <1> HIDE DEF new
  <1>4. \A i \in 1 .. Len(l) + 1 :
            \/ i < p /\ i \in 1 .. Len(l) /\ new[i] = l[i]
            \/ i = p /\ new[i] = t
            \/ i > p /\ i - 1 \in 1 .. Len(l) /\ new[i] = l[i - 1]
    BY <1>1, <1>2, <1>3
  <1>5. p \in Nat /\ \A i \in 1 .. Len(l) : l[i] \in Threads /\ l[i] # t
    BY <1>1, <1>2 DEF ToSet
  <1>6. Distinct(new)
    <2> SUFFICES ASSUME NEW i \in 1 .. Len(l) + 1, NEW j \in 1 .. Len(l) + 1, new[i] = new[j]
                 PROVE  i = j
      BY <1>3 DEF Distinct
    <2>1. CASE i = p
      BY <1>1, <1>4, <1>5, <2>1
    <2>2. CASE j = p
      BY <1>1, <1>4, <1>5, <2>2
    <2>3. CASE i # p /\ j # p
      BY <1>1, <1>4, <1>5, <2>3 DEF Distinct
    <2> QED
      BY <2>1, <2>2, <2>3
  <1>7. ASSUME k \in {1, 2} PROVE InOrder(new, k, prio, rem)
    <2>1. InOrder(l, k, prio, rem)
      BY <1>7 DEF ListOK
    <2>2. ASSUME NEW j \in 1 .. Len(l), j < p PROVE Before(k, l[j], t, prio, rem)
      <3>1. ~Before(k, t, l[j], prio, rem)
        BY <1>1, <1>2, <1>5, <2>2 DEF IsPlace
      <3> QED
        BY <1>5, <1>7, <3>1, BeforeOrder
    <2>3. ASSUME NEW j \in 1 .. Len(l), j >= p PROVE Before(k, t, l[j], prio, rem)
      <3>1. p \in 1 .. Len(l) /\ Before(k, t, l[p], prio, rem)
        BY <1>1, <1>2, <1>5, <2>3 DEF IsPlace
      <3>2. j = p \/ Before(k, l[p], l[j], prio, rem)
        BY <1>1, <1>5, <2>1, <2>3, <3>1 DEF InOrder
      <3> QED
        BY <1>5, <1>7, <3>1, <3>2, BeforeOrder
    <2> SUFFICES ASSUME NEW i \in 1 .. Len(l) + 1, NEW j \in 1 .. Len(l) + 1, i < j
                 PROVE  Before(k, new[i], new[j], prio, rem)
      BY <1>3 DEF InOrder
    <2>4. CASE j < p
      BY <1>1, <1>4, <1>5, <2>1, <2>4 DEF InOrder
    <2>5. CASE j = p
      BY <1>1, <1>4, <1>5, <2>2, <2>5
    <2>6. CASE j > p /\ i < p
      <3>1. /\ i \in 1 .. Len(l) /\ new[i] = l[i]
            /\ j - 1 \in 1 .. Len(l) /\ new[j] = l[j - 1] /\ i < j - 1
        BY <1>1, <1>4, <1>5, <2>6
      <3> QED
        BY <2>1, <3>1 DEF InOrder
    <2>7. CASE j > p /\ i = p
      <3>1. j - 1 \in 1 .. Len(l) /\ new[j] = l[j - 1] /\ j - 1 >= p /\ new[i] = t
        BY <1>1, <1>4, <1>5, <2>7
      <3> QED
        BY <2>3, <3>1
    <2>8. CASE i > p
      <3>1. /\ i - 1 \in 1 .. Len(l) /\ new[i] = l[i - 1]
            /\ j - 1 \in 1 .. Len(l) /\ new[j] = l[j - 1] /\ i - 1 < j - 1
        BY <1>1, <1>4, <1>5, <2>8
      <3> QED
        BY <2>1, <3>1 DEF InOrder
    <2> QED
      BY <1>5, <2>4, <2>5, <2>6, <2>7, <2>8
  <1>8. \A i \in 1 .. Len(new) : Belongs(new[i], k, prio)
    BY <1>1, <1>3, <1>4 DEF ListOK, Belongs
  <1>9. ListOK(new, k, prio, rem)
    BY <1>3, <1>6, <1>7, <1>8 DEF ListOK
  <1>10. ToSet(new) = ToSet(l) \cup {t}
    <2>1. \A x : x \in ToSet(new) <=> \E i \in 1 .. Len(l) + 1 : new[i] = x
      BY <1>3, Elements
    <2>2. \A x : x \in ToSet(l) <=> \E i \in 1 .. Len(l) : l[i] = x
      BY <1>1, Elements
    <2>3. ASSUME NEW x \in ToSet(l) PROVE x \in ToSet(new)
      <3>1. PICK i \in 1 .. Len(l) : l[i] = x
        BY <2>2
      <3>2. CASE i < p
        <4>1. i \in 1 .. Len(l) + 1 /\ new[i] = x
          BY <1>1, <1>4, <1>5, <3>1, <3>2
        <4> QED
          BY <2>1, <4>1
      <3>3. CASE i >= p
        <4>1. i + 1 \in 1 .. Len(l) + 1 /\ i + 1 > p /\ i + 1 # p /\ ~(i + 1 < p) /\ (i + 1) - 1 = i
          BY <1>1, <1>5, <3>3
        <4>2. new[i + 1] = l[(i + 1) - 1]
          BY <1>4, <4>1
        <4> QED
          BY <2>1, <3>1, <4>1, <4>2
      <3> QED
        BY <1>5, <3>2, <3>3
    <2>4. t \in ToSet(new)
      BY <1>2, <1>4, <1>5, <2>1
    <2>5. ASSUME NEW x \in ToSet(new) PROVE x \in ToSet(l) \cup {t}
      BY <1>4, <2>1, <2>2
    <2> QED
      BY <2>3, <2>4, <2>5
  <1> QED
    BY <1>9, <1>10 DEF new, p

(* ... and when a thread is removed.                                        *)
LEMMA RemoveOK ==
    ASSUME NEW prio, NEW rem, NEW k, NEW l, ListOK(l, k, prio, rem),
           NEW p \in 1 .. Len(l)
    PROVE  /\ ListOK(RemoveAt(l, p), k, prio, rem)
           /\ ToSet(RemoveAt(l, p)) = ToSet(l) \ {l[p]}
  <1> DEFINE new == RemoveAt(l, p)
  <1>1. l \in Seq(Threads) /\ Len(l) \in Nat /\ Distinct(l) /\ p \in Nat
    BY DEF ListOK
  <1>2. /\ new \in Seq(Threads) /\ Len(new) = Len(l) - 1
        /\ \A i \in 1 .. Len(l) - 1 : new[i] = IF i < p THEN l[i] ELSE l[i + 1]
    BY <1>1, RemoveAtFacts
  <1> HIDE DEF new
  <1>3. \A i \in 1 .. Len(l) - 1 :
            \/ i < p /\ i \in 1 .. Len(l) /\ new[i] = l[i]
            \/ i >= p /\ i + 1 \in 1 .. Len(l) /\ new[i] = l[i + 1]
    BY <1>1, <1>2
  <1>4. Distinct(new)
    BY <1>1, <1>2, <1>3 DEF Distinct
  <1>5. ASSUME k \in {1, 2} PROVE InOrder(new, k, prio, rem)
    BY <1>1, <1>2, <1>3, <1>5 DEF ListOK, InOrder
  <1>6. \A i \in 1 .. Len(new) : Belongs(new[i], k, prio)
    BY <1>2, <1>3 DEF ListOK
  <1>7. ListOK(new, k, prio, rem)
    BY <1>2, <1>4, <1>5, <1>6 DEF ListOK
  <1>8. ToSet(new) = ToSet(l) \ {l[p]}
    <2>1. \A x : x \in ToSet(new) <=> \E i \in 1 .. Len(l) - 1 : new[i] = x
      BY <1>2, Elements
    <2>2. \A x : x \in ToSet(l) <=> \E i \in 1 .. Len(l) : l[i] = x
      BY <1>1, Elements
    <2>3. ASSUME NEW x \in ToSet(l), x # l[p] PROVE x \in ToSet(new)
      <3>1. PICK i \in 1 .. Len(l) : l[i] = x
        BY <2>2
      <3>2. CASE i < p
        <4>1. i \in 1 .. Len(l) - 1 /\ new[i] = x
          BY <1>1, <1>3, <3>1, <3>2
        <4> QED
          BY <2>1, <4>1
      <3>3. CASE i > p
        <4>1. i - 1 \in 1 .. Len(l) - 1 /\ i - 1 >= p /\ ~(i - 1 < p) /\ (i - 1) + 1 = i
          BY <1>1, <3>3
        <4>2. new[i - 1] = l[(i - 1) + 1]
          BY <1>3, <4>1
        <4> QED
          BY <2>1, <3>1, <4>1, <4>2
      <3> QED
        BY <1>1, <2>3, <3>1, <3>2, <3>3
    <2>4. ASSUME NEW x \in ToSet(new) PROVE x \in ToSet(l) /\ x # l[p]
      <3>1. PICK i \in 1 .. Len(l) - 1 : new[i] = x
        BY <2>1
      <3>2. PICK j \in 1 .. Len(l) : j # p /\ l[j] = x
        BY <1>1, <1>3, <3>1
      <3> QED
        BY <1>1, <2>2, <3>2 DEF Distinct
    <2> QED
      BY <2>3, <2>4
  <1> QED
    BY <1>7, <1>8 DEF new

(* A thread removed from a sorted list is put back where it was.            *)
LEMMA ReinsertOK ==
    ASSUME NEW prio, NEW rem, Keys(prio, rem), NEW k \in {1, 2},
           NEW l, ListOK(l, k, prio, rem), NEW p \in 1 .. Len(l)
    PROVE  LET r == RemoveAt(l, p)
           IN  InsertAt(r, Place(r, k, l[p], prio, rem), l[p]) = l
  <1> DEFINE r == RemoveAt(l, p)
             t == l[p]
  <1>1. /\ l \in Seq(Threads) /\ Len(l) \in Nat /\ p \in Nat
        /\ InOrder(l, k, prio, rem) /\ \A i \in 1 .. Len(l) : l[i] \in Threads
    BY DEF ListOK
  <1>2. /\ r \in Seq(Threads) /\ Len(r) = Len(l) - 1
        /\ \A i \in 1 .. Len(l) - 1 : r[i] = IF i < p THEN l[i] ELSE l[i + 1]
    BY <1>1, RemoveAtFacts
  <1> HIDE DEF r
  <1>3. \A i \in 1 .. Len(l) - 1 :
            \/ i < p /\ i \in 1 .. Len(l) /\ r[i] = l[i]
            \/ i >= p /\ i + 1 \in 1 .. Len(l) /\ r[i] = l[i + 1]
    BY <1>1, <1>2
  <1>4. IsPlace(p, r, k, t, prio, rem)
    <2>1. p = Len(r) + 1 \/ Before(k, t, r[p], prio, rem)
      <3> SUFFICES ASSUME p # Len(r) + 1 PROVE Before(k, t, r[p], prio, rem)
        OBVIOUS
      <3>1. p \in 1 .. Len(l) - 1 /\ p + 1 \in 1 .. Len(l)
        BY <1>1, <1>2
      <3>2. r[p] = l[p + 1]
        BY <1>1, <1>3, <3>1
      <3> QED
        BY <1>1, <3>1, <3>2 DEF InOrder
    <2>2. ASSUME NEW j \in 1 .. p - 1 PROVE ~Before(k, t, r[j], prio, rem)
      <3>1. j \in 1 .. Len(l) - 1 /\ j < p /\ j \in 1 .. Len(l)
        BY <1>1
      <3>2. r[j] = l[j]
        BY <1>1, <1>3, <3>1
      <3>3. Before(k, l[j], t, prio, rem)
        BY <1>1, <3>1 DEF InOrder
      <3> QED
        BY <1>1, <3>1, <3>2, <3>3, BeforeOrder
    <2> QED
      BY <2>1, <2>2 DEF IsPlace
  <1>5. p \in 1 .. Len(r) + 1 /\ Place(r, k, t, prio, rem) = p
    BY <1>1, <1>2, <1>4, PlaceFacts
  <1> DEFINE new == InsertAt(r, p, t)
  <1>6. /\ new \in Seq(Threads) /\ Len(new) = Len(r) + 1
        /\ \A i \in 1 .. Len(r) + 1 :
              new[i] = IF i < p THEN r[i] ELSE IF i = p THEN t ELSE r[i - 1]
    BY <1>1, <1>2, <1>5, InsertAtFacts
  <1> HIDE DEF new
  <1>7. ASSUME NEW i \in 1 .. Len(l) PROVE new[i] = l[i]
    <2>0. i \in 1 .. Len(r) + 1 /\ i \in Nat
      BY <1>1, <1>2
    <2>1. CASE i < p
      <3>1. i \in 1 .. Len(l) - 1
        BY <1>1, <2>1
      <3> QED
        BY <1>1, <1>3, <1>6, <2>0, <2>1, <3>1
    <2>2. CASE i = p
      BY <1>1, <1>6, <2>0, <2>2
    <2>3. CASE i > p
      <3>1. i - 1 \in 1 .. Len(l) - 1 /\ ~(i - 1 < p) /\ (i - 1) + 1 = i /\ ~(i < p) /\ i # p
        BY <1>1, <2>3
      <3>2. r[i - 1] = l[(i - 1) + 1]
        BY <1>3, <3>1
      <3>3. new[i] = r[i - 1]
        BY <1>6, <2>0, <3>1
      <3> QED
        BY <3>1, <3>2, <3>3
    <2> QED
      BY <1>1, <2>0, <2>1, <2>2, <2>3
  <1>8. new = l
    BY <1>1, <1>2, <1>6, <1>7
  <1> QED
    BY <1>5, <1>8 DEF new, r

(* The keys of the threads of a list may change as long as the thread's    *)
(* place does not depend on them.                                          *)
LEMMA KeysOK ==
    ASSUME NEW prio, NEW rem, NEW prio2, NEW rem2, NEW k \in 1 .. 3,
           NEW l, ListOK(l, k, prio, rem),
           k = 1 => \A t \in ToSet(l) : rem2[t] = rem[t],
           k = 2 => \A t \in ToSet(l) : prio2[t] = prio[t],
           \A t \in ToSet(l) : Belongs(t, k, prio2)
    PROVE  ListOK(l, k, prio2, rem2)
  <1>1. /\ l \in Seq(Threads) /\ Distinct(l)
        /\ \A i \in 1 .. Len(l) : l[i] \in ToSet(l)
    BY Elements DEF ListOK
  <1>2. CASE k = 1
    <2>1. InOrder(l, k, prio2, rem2)
      BY <1>1, <1>2 DEF ListOK, InOrder, Before, Shorter
    <2> QED
      BY <1>1, <1>2, <2>1 DEF ListOK
  <1>3. CASE k = 2
    <2>1. InOrder(l, k, prio2, rem2)
      BY <1>1, <1>3 DEF ListOK, InOrder, Before, Higher
    <2> QED
      BY <1>1, <1>3, <2>1 DEF ListOK
  <1>4. CASE k = 3
    BY <1>1, <1>4 DEF ListOK
  <1> QED
    BY <1>2, <1>3, <1>4

-----------------------------------------------------------------------------
(* The three ready lists.                                                  *)

On(lists) == {t \in Threads : \E k \in 1 .. 3 : t \in ToSet(lists[k])}

ListsOK(lists, prio, rem) ==
    /\ lists \in [1 .. 3 -> Seq(Threads)]
    /\ \A k \in 1 .. 3 : ListOK(lists[k], k, prio, rem)
    /\ \A j, k \in 1 .. 3 : j # k => ToSet(lists[j]) \cap ToSet(lists[k]) = {}

LEMMA LevelFacts ==
    ASSUME NEW p \in Nat
    PROVE  /\ Level(p) \in 1 .. 3
           /\ Level(p) = 1 <=> p >= L1Floor
           /\ Level(p) = 3 <=> p < L2Floor
  BY SchedulerAssumption DEF Level

LEMMA ListsElements ==
    ASSUME NEW lists \in [1 .. 3 -> Seq(Threads)]
    PROVE  /\ \A k \in 1 .. 3 : ToSet(lists[k]) \subseteq On(lists)
           /\ \A k \in 1 .. 3 : \A i \in 1 .. Len(lists[k]) : lists[k][i] \in ToSet(lists[k])
           /\ \A k \in 1 .. 3 : \A t \in ToSet(lists[k]) :
                 \E i \in 1 .. Len(lists[k]) : lists[k][i] = t
  BY Elements DEF On

(* What the lists new are after an insertion into, and a removal from,     *)
(* lists.                                                                  *)
With(new, t, lists, prio, rem) ==
    /\ ListsOK(new, prio, rem)
    /\ new \in [1 .. 3 -> Seq(Threads)]
    /\ On(new) = On(lists) \cup {t}
    /\ \A j \in 1 .. 3 : ToSet(new[j]) \subseteq ToSet(lists[j]) \cup {t}
    /\ Level(prio[t]) \in 1 .. 3 /\ t \in ToSet(new[Level(prio[t])])
    /\ ToSet(new[2]) \subseteq Threads

LessOne(new, t, lists, prio, rem) ==
    /\ ListsOK(new, prio, rem)
    /\ t \in Threads /\ t \in On(lists)
    /\ On(new) = On(lists) \ {t}
    /\ \A j \in 1 .. 3 : ToSet(new[j]) = ToSet(lists[j]) \ {t}

LEMMA InsertedOK ==
    ASSUME NEW prio, NEW rem, Keys(prio, rem),
           NEW lists, ListsOK(lists, prio, rem),
           NEW t \in Threads, t \notin On(lists),
           NEW new, new = Inserted(lists, t, prio, rem)
    PROVE  With(new, t, lists, prio, rem)
  <1> DEFINE k == Level(prio[t])
             l == InsertAt(lists[k], Place(lists[k], k, t, prio, rem), t)
  <1>1. prio[t] \in Nat /\ k \in 1 .. 3
    BY SchedulerAssumption, LevelFacts DEF Keys
  <1>2. /\ lists \in [1 .. 3 -> Seq(Threads)] /\ ListOK(lists[k], k, prio, rem)
        /\ t \notin ToSet(lists[k])
    BY <1>1 DEF ListsOK, On
  <1>3. ListOK(l, k, prio, rem) /\ ToSet(l) = ToSet(lists[k]) \cup {t}
    BY <1>1, <1>2, InsertOK
  <1>4. new = [lists EXCEPT ![k] = l]
    BY DEF Inserted
  <1> HIDE DEF l, k
  <1>5. new \in [1 .. 3 -> Seq(Threads)]
    BY <1>1, <1>2, <1>3, <1>4 DEF ListOK
  <1>6. \A j \in 1 .. 3 : ToSet(new[j]) = IF j = k THEN ToSet(lists[j]) \cup {t} ELSE ToSet(lists[j])
    BY <1>1, <1>2, <1>3, <1>4
  <1>7. \A j \in 1 .. 3 : ListOK(new[j], j, prio, rem)
    BY <1>1, <1>2, <1>3, <1>4 DEF ListsOK
  <1>8. \A i, j \in 1 .. 3 : i # j => ToSet(new[i]) \cap ToSet(new[j]) = {}
    <2>1. \A j \in 1 .. 3 : t \notin ToSet(lists[j])
      BY DEF On
    <2> QED
      BY <1>6, <2>1 DEF ListsOK
  <1>9. On(new) = On(lists) \cup {t}
    BY <1>1, <1>6 DEF On
  <1> QED
    <2>1. /\ \A j \in 1 .. 3 : ToSet(new[j]) \subseteq ToSet(lists[j]) \cup {t}
          /\ t \in ToSet(new[k])
      BY <1>1, <1>6
    <2>2. ToSet(new[2]) \subseteq Threads
      BY <1>5, Elements
    <2> QED
      BY <1>1, <1>5, <1>7, <1>8, <1>9, <2>1, <2>2 DEF ListsOK, With, k

LEMMA RemovedOK ==
    ASSUME NEW prio, NEW rem, NEW lists, ListsOK(lists, prio, rem),
           NEW k \in 1 .. 3, NEW p \in 1 .. Len(lists[k]), NEW t, t = lists[k][p],
           NEW new, new = [lists EXCEPT ![k] = RemoveAt(@, p)]
    PROVE  LessOne(new, t, lists, prio, rem)
  <1> DEFINE l == RemoveAt(lists[k], p)
  <1>1. lists \in [1 .. 3 -> Seq(Threads)] /\ ListOK(lists[k], k, prio, rem)
    BY DEF ListsOK
  <1>2. ListOK(l, k, prio, rem) /\ ToSet(l) = ToSet(lists[k]) \ {t}
    BY <1>1, RemoveOK
  <1>3. new = [lists EXCEPT ![k] = l]
    OBVIOUS
  <1>4. t \in ToSet(lists[k]) /\ t \in On(lists)
    BY <1>1, ListsElements
  <1> HIDE DEF l
  <1>5. new \in [1 .. 3 -> Seq(Threads)]
    BY <1>1, <1>2, <1>3 DEF ListOK
  <1>6. \A j \in 1 .. 3 : ToSet(new[j]) = ToSet(lists[j]) \ {t}
    <2>1. \A j \in 1 .. 3 : j # k => t \notin ToSet(lists[j])
      BY <1>4 DEF ListsOK
    <2> QED
      BY <1>1, <1>2, <1>3, <2>1
  <1>7. \A j \in 1 .. 3 : ListOK(new[j], j, prio, rem)
    BY <1>1, <1>2, <1>3 DEF ListsOK
  <1>8. \A i, j \in 1 .. 3 : i # j => ToSet(new[i]) \cap ToSet(new[j]) = {}
    BY <1>6 DEF ListsOK
  <1>9. On(new) = On(lists) \ {t}
    BY <1>6 DEF On
  <1> QED
    BY <1>4, <1>5, <1>6, <1>7, <1>8, <1>9 DEF ListsOK, LessOne, On

(* Keys of threads that are in no list may change.                         *)
LEMMA OtherKeys ==
    ASSUME NEW prio, NEW rem, NEW prio2, NEW rem2,
           NEW lists, ListsOK(lists, prio, rem),
           \A t \in On(lists) : prio2[t] = prio[t] /\ rem2[t] = rem[t]
    PROVE  ListsOK(lists, prio2, rem2)
  <1>1. lists \in [1 .. 3 -> Seq(Threads)]
    BY DEF ListsOK
  <1>2. ASSUME NEW k \in 1 .. 3 PROVE ListOK(lists[k], k, prio2, rem2)
    <2>1. ListOK(lists[k], k, prio, rem) /\ ToSet(lists[k]) \subseteq On(lists)
      BY <1>1, ListsElements DEF ListsOK
    <2>2. \A t \in ToSet(lists[k]) : prio2[t] = prio[t] /\ rem2[t] = rem[t]
      BY <2>1
    <2>3. \A t \in ToSet(lists[k]) : Belongs(t, k, prio)
      <3> SUFFICES ASSUME NEW t \in ToSet(lists[k]) PROVE Belongs(t, k, prio)
        OBVIOUS
      <3>1. PICK i \in 1 .. Len(lists[k]) : lists[k][i] = t
        BY <1>1, ListsElements
      <3> QED
        BY <2>1, <3>1 DEF ListOK
    <2>4. \A t \in ToSet(lists[k]) : Belongs(t, k, prio2)
      BY <2>2, <2>3 DEF Belongs
    <2> QED
      BY <2>1, <2>2, <2>4, KeysOK
  <1> QED
    BY <1>1, <1>2 DEF ListsOK

(* The priority of a thread may change in its list, if it stays in its     *)
(* level, or is main in level 3, and if in level 2 it does not change.     *)
LEMMA PriorityInList ==
    ASSUME NEW prio \in [Threads -> 0 .. MaxPriority], NEW rem, NEW q,
           NEW lists, ListsOK(lists, prio, rem),
           NEW k \in 1 .. 3, NEW t \in ToSet(lists[k]),
           k = 2 => q = prio[t],
           Belongs(t, k, [prio EXCEPT ![t] = q])
    PROVE  ListsOK(lists, [prio EXCEPT ![t] = q], rem)
  <1> DEFINE prio2 == [prio EXCEPT ![t] = q]
  <1>1. lists \in [1 .. 3 -> Seq(Threads)]
    BY DEF ListsOK
  <1>2. t \in Threads /\ prio2[t] = q /\ \A u \in Threads : u # t => prio2[u] = prio[u]
    BY <1>1, ListsElements DEF On
  <1> HIDE DEF prio2
  <1>3. ASSUME NEW j \in 1 .. 3 PROVE ListOK(lists[j], j, prio2, rem)
    <2>1. ListOK(lists[j], j, prio, rem) /\ ToSet(lists[j]) \subseteq Threads
      BY <1>1, ListsElements DEF ListsOK, On
    <2>2. j # k => t \notin ToSet(lists[j])
      BY DEF ListsOK
    <2>3. \A u \in ToSet(lists[j]) : Belongs(u, j, prio)
      <3> SUFFICES ASSUME NEW u \in ToSet(lists[j]) PROVE Belongs(u, j, prio)
        OBVIOUS
      <3>1. PICK i \in 1 .. Len(lists[j]) : lists[j][i] = u
        BY <1>1, ListsElements
      <3> QED
        BY <2>1, <3>1 DEF ListOK
    <2>4. \A u \in ToSet(lists[j]) : Belongs(u, j, prio2)
      <3> SUFFICES ASSUME NEW u \in ToSet(lists[j]), u # t PROVE Belongs(u, j, prio2)
        BY <2>2 DEF prio2
      <3> QED
        BY <1>2, <2>1, <2>3 DEF Belongs
    <2>5. j = 2 => \A u \in ToSet(lists[j]) : prio2[u] = prio[u]
      BY <1>2, <2>1, <2>2
    <2> QED
      BY <2>1, <2>4, <2>5, KeysOK
  <1> QED
    BY <1>1, <1>3 DEF ListsOK, prio2

LEMMA PositionOK ==
    ASSUME NEW l, Distinct(l), NEW p \in 1 .. Len(l)
    PROVE  Position(l, l[p]) = p
  BY DEF Position, Distinct

LEMMA ElementAfterOK ==
    ASSUME NEW prio, NEW rem, NEW lists, ListsOK(lists, prio, rem),
           NEW k \in 1 .. 3, NEW p \in 1 .. Len(lists[k])
    PROVE  ElementAfter(lists[k][p], lists) = IF p = Len(lists[k]) THEN None ELSE lists[k][p + 1]
  <1> DEFINE t == lists[k][p]
  <1>1. t \in ToSet(lists[k])
    BY ListsElements DEF ListsOK
  <1>2. (CHOOSE j \in 1 .. 3 : t \in ToSet(lists[j])) = k
    BY <1>1 DEF ListsOK
  <1>3. Position(lists[k], t) = p
    BY PositionOK DEF ListsOK, ListOK
  <1>4. ElementAfter(t, lists) =
          LET l == lists[CHOOSE j \in 1 .. 3 : t \in ToSet(lists[j])]
          IN  IF Position(l, t) = Len(l) THEN None ELSE l[Position(l, t) + 1]
    BY DEF ElementAfter
  <1> QED
    BY <1>2, <1>3, <1>4

LEMMA ElementAfterIn ==
    ASSUME NEW prio, NEW rem, NEW lists, ListsOK(lists, prio, rem),
           NEW k \in 1 .. 3, NEW t \in ToSet(lists[k])
    PROVE  ElementAfter(t, lists) \in ToSet(lists[k]) \cup {None}
  <1>1. lists \in [1 .. 3 -> Seq(Threads)] /\ Len(lists[k]) \in Nat
    BY DEF ListsOK
  <1>2. PICK p \in 1 .. Len(lists[k]) : lists[k][p] = t
    BY <1>1, ListsElements
  <1>3. ElementAfter(t, lists) = IF p = Len(lists[k]) THEN None ELSE lists[k][p + 1]
    BY <1>2, ElementAfterOK
  <1>4. p # Len(lists[k]) => p + 1 \in 1 .. Len(lists[k])
    BY <1>1
  <1> QED
    BY <1>1, <1>3, <1>4, ListsElements

-----------------------------------------------------------------------------
(* The inductive invariant.                                                *)

Placed == \A t \in Threads : status[t] = "ready" <=> t \in On(readyList)

RunInv ==
    /\ \A t \in Threads : status[t] = "running" => t = currentThread
    /\ at \in {"run", "switched", "yield"} => status[currentThread] = "running"
    /\ at \in {"sleep", "idle"} => status[currentThread] # "running"

(* A finished thread waits for its deletion only across a switch.          *)
CarcassInv == toBeDestroyed # None => at = "switched" /\ status[toBeDestroyed] = "finished"

(* The iterator is in the list of its loop; in the last one it may have    *)
(* been led into another.                                                  *)
LoopInv ==
    (at = "age" /\ iter # None) =>
        iter \in IF level = 3 THEN On(readyList) ELSE Ready(level)

(* A thread of level 2 has waited since the last timer interrupt at most,  *)
(* because its handler puts all of them back: in the second loop, those    *)
(* the iterator has passed have been put back, in the third, all.          *)
PutBack(i) ==
    LET t == readyList[2][i]
    IN  /\ waited[t] <= TimerTicks
        /\ level = 3 => waited[t] = 0
        /\ level = 2 /\ waited[t] # 0 =>
              iter # None /\ \E j \in 1 .. i : readyList[2][j] = iter

WaitInv ==
    /\ \A t \in Threads : status[t] # "ready" => waited[t] = 0
    /\ at \notin {"age", "undefined"} => \A t \in Ready(2) : waited[t] <= phase
    /\ at = "age" => phase = 0 /\ \A i \in 1 .. Len(readyList[2]) : PutBack(i)

SchedulerInv ==
    /\ TypeOK
    /\ ListsOK(readyList, priority, remain)
    /\ Placed
    /\ RunInv
    /\ CarcassInv
    /\ LoopInv
    /\ WaitInv
    /\ at # "aborted"

LEMMA Constants ==
    /\ TimerTicks \in Nat \ {0} /\ AgingTicks \in Nat /\ AgingStep \in Nat /\ TimerTicks < AgingTicks
    /\ MaxPriority \in Nat /\ MaxBurst \in Nat /\ MaxElapsed \in Nat /\ TickParts \in Nat \ {0}
    /\ 0 \in 0 .. MaxPriority /\ 0 \in 0 .. MaxElapsed
    /\ Main \in Threads /\ None \notin Threads
  BY SchedulerAssumption DEF Main

LEMMA InvFacts ==
    ASSUME SchedulerInv
    PROVE  /\ Keys(priority, remain)
           /\ readyList \in [1 .. 3 -> Seq(Threads)]
           /\ \A k \in 1 .. 3 : Ready(k) \subseteq On(readyList)
           /\ \A t \in Threads : status[t] # "ready" => t \notin On(readyList)
  BY ListsElements DEF SchedulerInv, TypeOK, Keys, Placed, Ready

LEMMA ReadyElements ==
    ASSUME TypeOK, NEW k \in 1 .. 3, NEW t \in Ready(k)
    PROVE  t \in Threads /\ \E i \in 1 .. Len(readyList[k]) : readyList[k][i] = t
  <1>1. readyList[k] \in Seq(Threads)
    BY DEF TypeOK
  <1> QED
    BY <1>1, Elements DEF Ready

LEMMA InitInv == Init => SchedulerInv
  <1> SUFFICES ASSUME Init PROVE SchedulerInv
    OBVIOUS
  <1>1. readyList \in [1 .. 3 -> Seq(Threads)] /\ \A k \in 1 .. 3 : readyList[k] = <<>>
    BY DEF Init
  <1>2. \A k \in 1 .. 3 : ToSet(readyList[k]) = {} /\ Len(readyList[k]) = 0
    BY <1>1 DEF ToSet
  <1>3. ListsOK(readyList, priority, remain)
    BY <1>1, <1>2 DEF ListsOK, ListOK, Distinct, InOrder
  <1>4. TypeOK
    <2>1. /\ priority \in [Threads -> 0 .. MaxPriority] /\ remain \in [Threads -> -MaxBurst .. MaxBurst]
          /\ phase \in 0 .. TimerTicks - 1 /\ elapsed \in 0 .. MaxElapsed
      BY Constants DEF Init
    <2> QED
      BY <1>1, <2>1, Constants DEF Init, TypeOK, States, Locations
  <1>5. On(readyList) = {}
    BY <1>2 DEF On
  <1>6. Placed /\ WaitInv
    <2>1. \A t \in Threads : status[t] # "ready" /\ waited[t] = 0
      BY DEF Init
    <2>2. Ready(2) = {} /\ at = "run"
      BY <1>2 DEF Ready, Init
    <2> QED
      BY <1>5, <2>1, <2>2 DEF Placed, WaitInv
  <1>7. RunInv /\ CarcassInv /\ LoopInv /\ at # "aborted"
    BY Constants DEF Init, RunInv, CarcassInv, LoopInv
  <1> QED
    BY <1>3, <1>4, <1>6, <1>7 DEF SchedulerInv

(* A step outside the loops that puts nothing in level 2 that has waited.  *)
LEMMA WaitPreserved ==
    ASSUME SchedulerInv, at \notin {"age", "undefined"}, at' # "age",
           UNCHANGED phase, waited' \in [Threads -> Nat],
           \A t \in Threads : waited'[t] = waited[t] \/ waited'[t] = 0,
           \A t \in Ready(2)' : t \in Ready(2) \/ waited'[t] = 0,
           \A t \in Threads : status'[t] # "ready" => status[t] # "ready" \/ waited'[t] = 0,
           Ready(2)' \subseteq Threads
    PROVE  WaitInv'
  <1>1. phase \in Nat
    BY Constants DEF SchedulerInv, TypeOK
  <1> QED
    BY <1>1 DEF SchedulerInv, WaitInv

LEMMA ForkStep ==
    ASSUME SchedulerInv, NEW t \in Threads, NEW p \in Priorities, Fork(t, p)
    PROVE  SchedulerInv'
  <1>1. /\ Keys(priority, remain) /\ readyList \in [1 .. 3 -> Seq(Threads)] /\ t \notin On(readyList)
        /\ TypeOK /\ ListsOK(readyList, priority, remain) /\ waited[t] = 0
    BY InvFacts DEF Fork, SchedulerInv, WaitInv
  <1>2. priority' \in [Threads -> 0 .. MaxPriority] /\ Keys(priority', remain)
    BY <1>1, SchedulerAssumption DEF Fork, Keys
  <1>3. ListsOK(readyList, priority', remain)
    <2>1. \A u \in On(readyList) : priority'[u] = priority[u]
      BY <1>1 DEF Fork, TypeOK, On
    <2> QED
      BY <1>1, <2>1, OtherKeys
  <1>4. /\ ListsOK(readyList', priority', remain')
        /\ readyList' \in [1 .. 3 -> Seq(Threads)]
        /\ On(readyList') = On(readyList) \cup {t}
        /\ ToSet(readyList'[2]) \subseteq ToSet(readyList[2]) \cup {t}
        /\ ToSet(readyList'[2]) \subseteq Threads
    <2>1. readyList' = Inserted(readyList, t, priority', remain) /\ remain' = remain
      BY DEF Fork
    <2>2. With(readyList', t, readyList, priority', remain)
      BY <1>1, <1>2, <1>3, <2>1, InsertedOK
    <2> QED
      BY <2>1, <2>2 DEF With
  <1>5. TypeOK'
    BY <1>1, <1>2, <1>4 DEF TypeOK, Fork, timeVars, loopVars, States, ListsOK
  <1>6. Placed'
    BY <1>1, <1>4 DEF Fork, SchedulerInv, Placed, TypeOK
  <1>7. RunInv' /\ CarcassInv' /\ LoopInv' /\ (at # "aborted")'
    BY <1>1 DEF Fork, SchedulerInv, RunInv, CarcassInv, LoopInv, TypeOK
  <1>8. WaitInv'
    <2>1. /\ \A u \in Ready(2)' : u \in Ready(2) \/ waited'[u] = 0
          /\ Ready(2)' \subseteq Threads
      BY <1>1, <1>4 DEF Ready, Fork, timeVars
    <2> QED
      BY <1>1, <2>1, WaitPreserved DEF Fork, timeVars, TypeOK
  <1> QED
    BY <1>4, <1>5, <1>6, <1>7, <1>8 DEF SchedulerInv

LEMMA WakeStep ==
    ASSUME SchedulerInv, NEW t \in Threads, Wake(t)
    PROVE  SchedulerInv'
  <1>1. /\ Keys(priority, remain) /\ readyList \in [1 .. 3 -> Seq(Threads)] /\ t \notin On(readyList)
        /\ TypeOK /\ ListsOK(readyList, priority, remain)
    BY InvFacts DEF Wake, SchedulerInv
  <1>2. /\ ListsOK(readyList', priority', remain')
        /\ readyList' \in [1 .. 3 -> Seq(Threads)]
        /\ On(readyList') = On(readyList) \cup {t}
        /\ ToSet(readyList'[2]) \subseteq ToSet(readyList[2]) \cup {t}
        /\ ToSet(readyList'[2]) \subseteq Threads
    <2>1. /\ readyList' = Inserted(readyList, t, priority, remain)
          /\ priority' = priority /\ remain' = remain
      BY DEF Wake
    <2>2. With(readyList', t, readyList, priority, remain)
      BY <1>1, <2>1, InsertedOK
    <2> QED
      BY <2>1, <2>2 DEF With
  <1>3. TypeOK'
    BY <1>1, <1>2 DEF TypeOK, Wake, loopVars, States, ListsOK
  <1>4. Placed'
    BY <1>1, <1>2 DEF Wake, SchedulerInv, Placed, TypeOK
  <1>5. RunInv' /\ CarcassInv' /\ LoopInv' /\ (at # "aborted")'
    BY <1>1 DEF Wake, SchedulerInv, RunInv, CarcassInv, LoopInv, TypeOK
  <1>6. WaitInv'
    <2>1. /\ \A u \in Ready(2)' : u \in Ready(2) \/ waited'[u] = 0
          /\ Ready(2)' \subseteq Threads
      BY <1>1, <1>2 DEF Ready, Wake, TypeOK
    <2> QED
      BY <1>1, <2>1, WaitPreserved DEF Wake, TypeOK
  <1> QED
    BY <1>2, <1>3, <1>4, <1>5, <1>6 DEF SchedulerInv

LEMMA StopRunningStep ==
    ASSUME SchedulerInv, NEW becomes \in {"blocked", "finished"}, StopRunning(becomes),
           NEW burst \in -MaxBurst .. MaxBurst, remain' = [remain EXCEPT ![currentThread] = burst]
    PROVE  SchedulerInv'
  <1>1. /\ Keys(priority, remain) /\ TypeOK /\ ListsOK(readyList, priority, remain)
        /\ currentThread \in Threads
        /\ status[currentThread] = "running" /\ currentThread \notin On(readyList)
        /\ at = "run" /\ at' \in {"idle", "sleep"} /\ toBeDestroyed = None
    BY InvFacts DEF StopRunning, SchedulerInv, RunInv, TypeOK, CarcassInv
  <1>2. ListsOK(readyList', priority', remain')
    <2>1. \A u \in On(readyList) : remain'[u] = remain[u]
      BY <1>1 DEF TypeOK, On
    <2> QED
      BY <1>1, <2>1, OtherKeys DEF StopRunning
  <1>3. TypeOK'
    BY <1>1, Constants DEF TypeOK, StopRunning, loopVars, States, Locations
  <1>4. Placed' /\ RunInv' /\ CarcassInv' /\ LoopInv' /\ (at # "aborted")'
    BY <1>1 DEF StopRunning, SchedulerInv, Placed, RunInv, CarcassInv, LoopInv, TypeOK
  <1>5. WaitInv'
    <2>1. Ready(2)' = Ready(2) /\ Ready(2) \subseteq Threads
      BY <1>1, ListsElements DEF Ready, StopRunning, On, TypeOK
    <2>2. \A t \in Threads : status'[t] # "ready" => status[t] # "ready" \/ waited'[t] = 0
      BY <1>1 DEF StopRunning, TypeOK
    <2> QED
      BY <1>1, <2>1, <2>2, WaitPreserved DEF StopRunning, TypeOK
  <1> QED
    BY <1>2, <1>3, <1>4, <1>5 DEF SchedulerInv

(* The next thread is taken from the front of its list.                    *)
LEMMA TakenOK ==
    ASSUME SchedulerInv, NEW k \in 1 .. 3, NEW t, NextToRun(k, t)
    PROVE  /\ ListsOK(Without(k), priority, remain)
           /\ t \in On(readyList) /\ t \in Threads /\ status[t] = "ready"
           /\ On(Without(k)) = On(readyList) \ {t}
           /\ \A j \in 1 .. 3 : ToSet(Without(k)[j]) = ToSet(readyList[j]) \ {t}
  <1>1. /\ readyList \in [1 .. 3 -> Seq(Threads)] /\ readyList[k] # <<>>
        /\ readyList[k] \in Seq(Threads) /\ t = Head(readyList[k])
        /\ ListsOK(readyList, priority, remain)
    BY InvFacts DEF NextToRun, NonEmpty, SchedulerInv
  <1>2. /\ 1 \in 1 .. Len(readyList[k]) /\ t = readyList[k][1]
        /\ Without(k) = [readyList EXCEPT ![k] = RemoveAt(@, 1)]
    BY <1>1, FrontFacts DEF Without
  <1>3. /\ ListsOK(Without(k), priority, remain)
        /\ t \in On(readyList)
        /\ On(Without(k)) = On(readyList) \ {t}
        /\ \A j \in 1 .. 3 : ToSet(Without(k)[j]) = ToSet(readyList[j]) \ {t}
    <2>1. LessOne(Without(k), t, readyList, priority, remain)
      BY <1>1, <1>2, RemovedOK
    <2> QED
      BY <2>1 DEF LessOne
  <1> QED
    BY <1>3 DEF On, SchedulerInv, Placed

LEMMA DispatchStep ==
    ASSUME SchedulerInv, Dispatch
    PROVE  SchedulerInv'
  <1>1. PICK k \in 1 .. 3, t \in Threads :
            /\ NextToRun(k, t)
            /\ readyList' = Without(k)
            /\ waited' = [waited EXCEPT ![t] = 0]
            /\ RunNext(t, status)
    BY DEF Dispatch
  <1>2. /\ ListsOK(Without(k), priority, remain)
        /\ status[t] = "ready"
        /\ On(Without(k)) = On(readyList) \ {t}
        /\ \A j \in 1 .. 3 : ToSet(Without(k)[j]) = ToSet(readyList[j]) \ {t}
    BY <1>1, TakenOK
  <1>3. /\ TypeOK /\ at \in {"sleep", "idle"} /\ at' = "switched"
        /\ status' = [status EXCEPT ![t] = "running"] /\ currentThread' = t
        /\ status[currentThread] # "running" /\ currentThread \in Threads /\ toBeDestroyed = None
        /\ toBeDestroyed' = IF status[currentThread] = "finished" THEN currentThread ELSE None
    BY <1>1 DEF Dispatch, SchedulerInv, TypeOK, RunInv, CarcassInv, RunNext
  <1>4. ListsOK(readyList', priority', remain') /\ readyList' \in [1 .. 3 -> Seq(Threads)]
    BY <1>1, <1>2 DEF Dispatch, ListsOK
  <1>5. TypeOK'
    <2>1. elapsed' \in 0 .. MaxElapsed /\ waited' \in [Threads -> Nat]
      BY <1>1, <1>3, Constants DEF RunNext, TypeOK
    <2> QED
      BY <1>3, <1>4, <2>1 DEF TypeOK, Dispatch, loopVars, States, Locations
  <1>6. Placed'
    BY <1>1, <1>2, <1>3 DEF SchedulerInv, Placed, TypeOK
  <1>7. RunInv' /\ LoopInv' /\ (at # "aborted")'
    BY <1>3 DEF SchedulerInv, RunInv, LoopInv, TypeOK
  <1>8. CarcassInv'
    BY <1>2, <1>3 DEF CarcassInv, TypeOK
  <1>9. WaitInv'
    <2>1. Ready(2)' \subseteq Ready(2) /\ Ready(2) \subseteq Threads
      BY <1>1, <1>2, <1>3, ListsElements DEF Ready, On, TypeOK
    <2>2. waited' \in [Threads -> Nat] /\ \A u \in Threads : waited'[u] = waited[u] \/ waited'[u] = 0
      BY <1>1, <1>3 DEF TypeOK
    <2>3. \A u \in Threads : status'[u] # "ready" => status[u] # "ready" \/ waited'[u] = 0
      BY <1>1, <1>3 DEF TypeOK
    <2> QED
      BY <1>3, <2>1, <2>2, <2>3, WaitPreserved DEF Dispatch
  <1> QED
    BY <1>4, <1>5, <1>6, <1>7, <1>8, <1>9 DEF SchedulerInv

LEMMA ChargedOK ==
    ASSUME TypeOK, status[currentThread] = "running"
    PROVE  /\ Charged \in [Threads -> -MaxBurst .. MaxBurst]
           /\ \A t \in Threads : t # currentThread => Charged[t] = remain[t]
  <1>1. remain[currentThread] \in -MaxBurst .. MaxBurst /\ elapsed \in Nat /\ MaxBurst \in Nat
    BY Constants DEF TypeOK
  <1>2. Larger(remain[currentThread] - elapsed, -MaxBurst) \in -MaxBurst .. MaxBurst
    BY <1>1 DEF Larger
  <1> QED
    BY <1>2 DEF TypeOK, Charged

LEMMA YieldStep ==
    ASSUME SchedulerInv, Yield
    PROVE  SchedulerInv'
  <1>1. /\ TypeOK /\ at = "yield" /\ toBeDestroyed = None /\ currentThread \in Threads
        /\ status[currentThread] = "running" /\ currentThread \notin On(readyList)
        /\ ListsOK(readyList, priority, remain) /\ remain' = Charged
        /\ waited[currentThread] = 0
    BY InvFacts DEF Yield, SchedulerInv, TypeOK, RunInv, CarcassInv, WaitInv
  <1>2. /\ Charged \in [Threads -> -MaxBurst .. MaxBurst] /\ Keys(priority, Charged)
        /\ \A t \in Threads : t # currentThread => Charged[t] = remain[t]
    BY <1>1, ChargedOK DEF TypeOK, Keys
  <1>3. CASE /\ NonEmpty = {}
             /\ at' = "run"
             /\ UNCHANGED <<status, currentThread, readyList, toBeDestroyed, waited, elapsed>>
    <2>1. ListsOK(readyList', priority', remain')
      <3>1. \A t \in On(readyList) : Charged[t] = remain[t]
        BY <1>1, <1>2 DEF On
      <3> QED
        BY <1>1, <1>3, <3>1, OtherKeys DEF Yield
    <2>2. TypeOK'
      BY <1>1, <1>2, <1>3 DEF TypeOK, Yield, loopVars, Locations
    <2>3. Placed' /\ RunInv' /\ CarcassInv' /\ LoopInv' /\ (at # "aborted")'
      BY <1>1, <1>3 DEF SchedulerInv, Placed, RunInv, CarcassInv, LoopInv
    <2>4. WaitInv'
      <3>1. Ready(2)' = Ready(2) /\ Ready(2) \subseteq Threads
        BY <1>1, <1>3, ListsElements DEF Ready, On, TypeOK
      <3> QED
        BY <1>1, <1>3, <3>1, WaitPreserved DEF Yield, TypeOK
    <2> QED
      BY <2>1, <2>2, <2>3, <2>4 DEF SchedulerInv
  <1>4. CASE \E k \in 1 .. 3, t \in Threads :
               /\ NextToRun(k, t)
               /\ readyList' = Inserted(Without(k), currentThread, priority, Charged)
               /\ waited' = [waited EXCEPT ![currentThread] = 0, ![t] = 0]
               /\ RunNext(t, [status EXCEPT ![currentThread] = "ready"])
    <2>1. PICK k \in 1 .. 3, t \in Threads :
               /\ NextToRun(k, t)
               /\ readyList' = Inserted(Without(k), currentThread, priority, Charged)
               /\ waited' = [waited EXCEPT ![currentThread] = 0, ![t] = 0]
               /\ RunNext(t, [status EXCEPT ![currentThread] = "ready"])
      BY <1>4
    <2>2. /\ ListsOK(Without(k), priority, remain)
          /\ status[t] = "ready"
          /\ On(Without(k)) = On(readyList) \ {t}
          /\ \A j \in 1 .. 3 : ToSet(Without(k)[j]) = ToSet(readyList[j]) \ {t}
      BY <2>1, TakenOK
    <2>3. currentThread \notin On(Without(k)) /\ t # currentThread
      BY <1>1, <2>2
    <2>4. ListsOK(Without(k), priority, Charged)
      <3>1. \A u \in On(Without(k)) : Charged[u] = remain[u]
        BY <1>2, <2>3 DEF On
      <3> QED
        BY <2>2, <3>1, OtherKeys
    <2>5. /\ ListsOK(readyList', priority', remain')
          /\ readyList' \in [1 .. 3 -> Seq(Threads)]
          /\ On(readyList') = On(Without(k)) \cup {currentThread}
          /\ ToSet(readyList'[2]) \subseteq ToSet(Without(k)[2]) \cup {currentThread}
      <3>1. priority' = priority /\ remain' = Charged
        BY DEF Yield
      <3>2. With(readyList', currentThread, Without(k), priority, Charged)
        BY <1>1, <1>2, <2>1, <2>3, <2>4, InsertedOK
      <3> QED
        BY <3>1, <3>2 DEF With
    <2>6. /\ at' = "switched" /\ currentThread' = t /\ toBeDestroyed' = None
          /\ status' = [status EXCEPT ![currentThread] = "ready", ![t] = "running"]
      BY <1>1, <2>1 DEF RunNext
    <2>7. TypeOK'
      <3>1. elapsed' \in 0 .. MaxElapsed /\ waited' \in [Threads -> Nat]
        BY <1>1, <2>1, Constants DEF RunNext, TypeOK
      <3>2. readyList' \in [1 .. 3 -> Seq(Threads)]
        BY <2>5 DEF ListsOK
      <3> QED
        BY <1>1, <1>2, <2>6, <3>1, <3>2 DEF TypeOK, Yield, loopVars, States, Locations
    <2>8. Placed'
      BY <1>1, <2>2, <2>3, <2>5, <2>6 DEF SchedulerInv, Placed, TypeOK
    <2>9. RunInv' /\ CarcassInv' /\ LoopInv' /\ (at # "aborted")'
      BY <1>1, <2>3, <2>6 DEF SchedulerInv, RunInv, CarcassInv, LoopInv, TypeOK
    <2>10. WaitInv'
      <3>1. /\ waited' \in [Threads -> Nat] /\ waited'[currentThread] = 0 /\ waited'[t] = 0
            /\ \A u \in Threads : waited'[u] = waited[u] \/ waited'[u] = 0
        BY <1>1, <2>1 DEF TypeOK
      <3>2. Ready(2) \subseteq Threads /\ Ready(2)' \subseteq Ready(2) \cup {currentThread}
        <4>1. Ready(2) \subseteq Threads
          BY <1>1, Elements DEF Ready, TypeOK
        <4> QED
          BY <2>2, <2>5, <4>1 DEF Ready
      <3>3. \A u \in Threads : status'[u] # "ready" => status[u] # "ready" \/ waited'[u] = 0
        BY <1>1, <2>6, <3>1 DEF TypeOK
      <3> QED
        BY <1>1, <2>6, <3>1, <3>2, <3>3, WaitPreserved DEF Yield
    <2> QED
      BY <2>5, <2>7, <2>8, <2>9, <2>10 DEF SchedulerInv
  <1> QED
    BY <1>3, <1>4 DEF Yield

LEMMA CheckToBeDestroyedStep ==
    ASSUME SchedulerInv, CheckToBeDestroyed
    PROVE  SchedulerInv'
  <1>1. /\ TypeOK /\ at = "switched" /\ at' = "run" /\ toBeDestroyed' = None
        /\ currentThread \in Threads /\ status[currentThread] = "running"
        /\ status' = [t \in Threads |-> IF t = toBeDestroyed THEN "deleted" ELSE status[t]]
        /\ \A t \in Threads : t = toBeDestroyed => status[t] = "finished"
    BY Constants
       DEF CheckToBeDestroyed, NoCarcass, SchedulerInv, TypeOK, RunInv, CarcassInv
  <1>2. TypeOK'
    BY <1>1 DEF TypeOK, CheckToBeDestroyed, timeVars, loopVars, States, Locations
  <1>3. ListsOK(readyList', priority', remain') /\ On(readyList') = On(readyList)
    BY DEF SchedulerInv, CheckToBeDestroyed
  <1>4. Placed' /\ RunInv' /\ CarcassInv' /\ LoopInv' /\ (at # "aborted")'
    BY <1>1, <1>3
       DEF CheckToBeDestroyed, SchedulerInv, Placed, RunInv, CarcassInv, LoopInv
  <1>5. WaitInv'
    <2>1. Ready(2)' = Ready(2) /\ Ready(2) \subseteq Threads
      BY <1>1, Elements DEF Ready, CheckToBeDestroyed, TypeOK
    <2> QED
      BY <1>1, <2>1, WaitPreserved DEF CheckToBeDestroyed, timeVars, TypeOK
  <1> QED
    BY <1>2, <1>3, <1>4, <1>5 DEF SchedulerInv

-----------------------------------------------------------------------------
(* The clock and the timer's handler.                                      *)

LEMMA FirstOfIn ==
    ASSUME NEW l \in Seq(Threads)
    PROVE  /\ FirstOf(l) \in ToSet(l) \cup {None}
           /\ Len(l) \in Nat
           /\ l # <<>> => 1 \in 1 .. Len(l) /\ FirstOf(l) = l[1]
           /\ l = <<>> => Len(l) = 0
  <1>1. CASE l = <<>>
    BY <1>1 DEF FirstOf
  <1>2. CASE l # <<>>
    BY <1>2, FrontFacts, Elements DEF FirstOf
  <1> QED
    BY <1>1, <1>2

LEMMA NextPhase ==
    ASSUME NEW n \in Nat, NEW x \in Nat, x < n
    PROVE  /\ x + 1 = n => (x + 1) % n = 0
           /\ x + 1 # n => (x + 1) % n = x + 1
           /\ (x + 1) % n \in 0 .. n - 1
  <1>1. \A y \in Nat : y < n => y % n = y
    OBVIOUS
  <1>2. n % n = 0
    OBVIOUS
  <1>3. x + 1 = n \/ (x + 1 # n /\ x + 1 < n)
    OBVIOUS
  <1>4. CASE x + 1 = n
    BY <1>2, <1>4
  <1>5. CASE x + 1 # n /\ x + 1 < n
    BY <1>1, <1>5
  <1> QED
    BY <1>3, <1>4, <1>5

LEMMA TickStep ==
    ASSUME SchedulerInv, Tick
    PROVE  SchedulerInv'
  <1>1. /\ TypeOK /\ at \in {"run", "idle"} /\ TimerTicks \in Nat \ {0} /\ phase \in Nat
        /\ phase < TimerTicks /\ readyList \in [1 .. 3 -> Seq(Threads)]
        /\ waited \in [Threads -> Nat]
        /\ waited' = [t \in Threads |-> IF status[t] = "ready" THEN waited[t] + 1 ELSE 0]
        /\ waited' \in [Threads -> Nat]
        /\ \A t \in Ready(2) : t \in Threads /\ waited[t] <= phase
    <2>1. Ready(2) \subseteq Threads
      BY Elements DEF SchedulerInv, TypeOK, Ready
    <2>2. /\ TypeOK /\ at \in {"run", "idle"}
          /\ waited' = [t \in Threads |-> IF status[t] = "ready" THEN waited[t] + 1 ELSE 0]
      BY DEF Tick, SchedulerInv
    <2>3. TimerTicks \in Nat \ {0} /\ phase \in 0 .. TimerTicks - 1
      BY <2>2, Constants DEF TypeOK
    <2>4. \A t \in Ready(2) : waited[t] <= phase
      BY <2>2 DEF SchedulerInv, WaitInv
    <2>5. readyList \in [1 .. 3 -> Seq(Threads)] /\ waited \in [Threads -> Nat]
      BY <2>2 DEF TypeOK
    <2>6. \A t \in Threads : waited[t] \in Nat /\ waited[t] + 1 \in Nat
      BY ONLY <2>5
    <2>7. waited' \in [Threads -> Nat]
      BY ONLY <2>2, <2>6
    <2> QED
      BY <2>1, <2>2, <2>3, <2>4, <2>5, <2>7
  <1>2. /\ phase + 1 = TimerTicks => phase' = 0
        /\ phase + 1 # TimerTicks => phase' = phase + 1
        /\ phase' \in 0 .. TimerTicks - 1
    <2>1. phase' = (phase + 1) % TimerTicks
      BY DEF Tick
    <2>2. TimerTicks \in Nat /\ phase \in Nat /\ phase < TimerTicks
      BY <1>1
    <2> QED
      BY ONLY <2>1, <2>2, NextPhase
  <1>3. elapsed' \in 0 .. MaxElapsed
    BY <1>1, Constants DEF Tick, TypeOK, Smaller
  <1>4. /\ ListsOK(readyList', priority', remain') /\ readyList' = readyList
        /\ status' = status /\ currentThread' = currentThread /\ toBeDestroyed' = None
    BY <1>1 DEF Tick, SchedulerInv, CarcassInv
  <1>5. \A t \in Threads : waited'[t] = 0 \/ waited'[t] = waited[t] + 1
    BY <1>1
  <1>6. Placed' /\ CarcassInv'
    BY <1>4 DEF SchedulerInv, Placed, CarcassInv
  <1>7. \A t \in Threads : status'[t] # "ready" => waited'[t] = 0
    BY <1>1, <1>4
  <1>8. CASE phase + 1 = TimerTicks
    <2>1. /\ at' = "age" /\ level' = 1 /\ iter' = FirstOf(readyList[1])
      BY <1>8 DEF Tick
    <2>2. iter' \in Ready(1) \cup {None} /\ Ready(1) \subseteq Threads
      BY <1>1, <2>1, FirstOfIn, Elements DEF Ready
    <2>3. TypeOK'
      BY <1>1, <1>2, <1>3, <1>4, <2>1, <2>2 DEF TypeOK, Tick, Locations
    <2>4. RunInv' /\ LoopInv' /\ (at # "aborted")'
      BY <1>4, <2>1, <2>2 DEF SchedulerInv, RunInv, LoopInv, Ready
    <2>5. WaitInv'
      <3>1. ASSUME NEW i \in 1 .. Len(readyList[2]) PROVE waited'[readyList[2][i]] <= TimerTicks
        <4>1. readyList[2][i] \in Ready(2)
          BY <1>1, Elements DEF Ready
        <4> QED
          BY <1>1, <1>5, <1>8, <4>1
      <3>2. \A i \in 1 .. Len(readyList'[2]) : PutBack(i)'
        BY <1>4, <2>1, <3>1 DEF PutBack
      <3> QED
        BY <1>2, <1>7, <1>8, <2>1, <3>2 DEF WaitInv
    <2> QED
      BY <1>4, <1>6, <2>3, <2>4, <2>5 DEF SchedulerInv
  <1>9. CASE phase + 1 # TimerTicks
    <2>1. at' = at /\ level' = level /\ iter' = iter
      BY <1>9 DEF Tick, loopVars
    <2>2. TypeOK'
      BY <1>1, <1>2, <1>3, <1>4, <2>1 DEF TypeOK, Tick
    <2>3. RunInv' /\ LoopInv' /\ (at # "aborted")'
      BY <1>1, <1>4, <2>1 DEF SchedulerInv, RunInv, LoopInv
    <2>4. WaitInv'
      <3>1. \A t \in Ready(2) : waited'[t] <= phase'
        BY <1>1, <1>2, <1>5, <1>9
      <3> QED
        BY <1>1, <1>4, <1>7, <2>1, <3>1 DEF WaitInv, Ready
    <2> QED
      BY <1>4, <1>6, <2>2, <2>3, <2>4 DEF SchedulerInv
  <1> QED
    BY <1>8, <1>9

(* Aging never lowers a priority, and no thread leaves level 1 by it.       *)
LEMMA AgingFacts ==
    ASSUME TypeOK, NEW t \in Threads
    PROVE  /\ NewPriority(t) \in 0 .. MaxPriority /\ priority[t] \in 0 .. MaxPriority
           /\ Level(NewPriority(t)) \in 1 .. 3 /\ Level(priority[t]) \in 1 .. 3
           /\ Level(NewPriority(t)) <= Level(priority[t])
           /\ ~Ages(t) => NewPriority(t) = priority[t] /\ ~Upgraded(t)
           /\ ~Upgraded(t) => Level(NewPriority(t)) = Level(priority[t])
           /\ Level(priority[t]) = 1 => ~Upgraded(t)
           /\ WaitAfterAging(t) \in Nat
           /\ WaitAfterAging(t) = waited[t] \/ WaitAfterAging(t) = 0
  <1>1. priority[t] \in 0 .. MaxPriority /\ MaxPriority \in Nat /\ AgingStep \in Nat
    BY Constants DEF TypeOK
  <1>2. NewPriority(t) \in 0 .. MaxPriority /\ NewPriority(t) >= priority[t]
    BY <1>1 DEF NewPriority, Smaller
  <1>3. ~Ages(t) => NewPriority(t) = priority[t]
    BY DEF NewPriority
  <1>4. /\ Level(NewPriority(t)) \in 1 .. 3 /\ Level(priority[t]) \in 1 .. 3
        /\ Level(NewPriority(t)) <= Level(priority[t])
    BY <1>1, <1>2, SchedulerAssumption DEF Level
  <1>5. Upgraded(t) <=> Level(NewPriority(t)) < Level(priority[t])
    BY DEF Upgraded
  <1>6. WaitAfterAging(t) \in Nat /\ (WaitAfterAging(t) = waited[t] \/ WaitAfterAging(t) = 0)
    BY DEF WaitAfterAging, TypeOK
  <1> QED
    BY <1>1, <1>2, <1>3, <1>4, <1>5, <1>6

(* No thread of level 2 ages, and only a thread of level 3 is upgraded.    *)
LEMMA LoopFacts ==
    ASSUME SchedulerInv, at = "age", iter # None
    PROVE  /\ iter \in Threads /\ iter \in On(readyList) /\ level \in 1 .. 3
           /\ level # 3 => iter \in Ready(level)
           /\ iter \in Ready(2) /\ level > 1 => ~Ages(iter)
           /\ \A k \in 1 .. 3 : iter \in Ready(k) => Belongs(iter, k, priority)
           /\ Upgraded(iter) => iter \notin Ready(1)
           /\ level > 1 /\ Upgraded(iter) => level = 3 /\ iter \in Ready(3)
  <1>1. /\ TypeOK /\ level \in 1 .. 3 /\ readyList \in [1 .. 3 -> Seq(Threads)]
        /\ \A k \in 1 .. 3 : Ready(k) \subseteq On(readyList)
    BY InvFacts DEF SchedulerInv, TypeOK
  <1>2. /\ iter \in Threads /\ iter \in On(readyList)
        /\ level # 3 => iter \in Ready(level)
    BY <1>1 DEF SchedulerInv, LoopInv, On
  <1>3. \A k \in 1 .. 3 : iter \in Ready(k) => Belongs(iter, k, priority)
    <2>1. \A k \in 1 .. 3 : \A i \in 1 .. Len(readyList[k]) : Belongs(readyList[k][i], k, priority)
      BY DEF SchedulerInv, ListsOK, ListOK
    <2> QED
      BY <1>1, <2>1, ReadyElements
  <1>4. ASSUME iter \in Ready(2), level > 1 PROVE ~Ages(iter)
    <2>1. PICK i \in 1 .. Len(readyList[2]) : readyList[2][i] = iter
      BY <1>1, <1>4, ReadyElements
    <2>2. PutBack(i)
      BY DEF SchedulerInv, WaitInv
    <2>3. waited[iter] \in Nat /\ waited[iter] <= TimerTicks
      BY <1>1, <1>2, <2>1, <2>2 DEF PutBack, TypeOK
    <2> QED
      BY <2>3, Constants DEF Ages
  <1>5. ASSUME Upgraded(iter) PROVE iter \notin Ready(1)
    <2>1. iter \in Ready(1) => Level(priority[iter]) = 1
      BY <1>3 DEF Belongs
    <2> QED
      BY <1>1, <1>2, <1>5, <2>1, AgingFacts
  <1>6. ASSUME level > 1, Upgraded(iter) PROVE level = 3 /\ iter \in Ready(3)
    <2>1. iter \notin Ready(2)
      BY <1>1, <1>2, <1>4, <1>6, AgingFacts
    <2>2. level = 3
      BY <1>1, <1>2, <1>6, <2>1
    <2> QED
      BY <1>2, <1>5, <1>6, <2>1, <2>2 DEF On, Ready
  <1> QED
    BY <1>1, <1>2, <1>3, <1>4, <1>5, <1>6

LEMMA StopsStep ==
    ASSUME SchedulerInv, Stops
    PROVE  SchedulerInv'
  <1>1. at = "age" /\ iter # None /\ Moves(iter)
    BY DEF Stops
  <1>2. iter \in ToSet(readyList[level])
    BY <1>1, LoopFacts DEF Moves, Ready
  <1>3. at' = "undefined"
    BY <1>2 DEF Stops
  <1>4. /\ UNCHANGED <<status, currentThread, readyList, toBeDestroyed, priority, remain>>
        /\ waited' = waited /\ elapsed' = elapsed /\ phase' = phase /\ level' = level /\ iter' = iter
    BY DEF Stops, timeVars, loopVars
  <1>5. TypeOK' /\ ListsOK(readyList', priority', remain')
    BY <1>3, <1>4 DEF SchedulerInv, TypeOK, Locations
  <1>6. Placed' /\ RunInv' /\ CarcassInv' /\ LoopInv' /\ WaitInv' /\ (at # "aborted")'
    BY <1>1, <1>3, <1>4
       DEF SchedulerInv, Placed, RunInv, CarcassInv, LoopInv, WaitInv
  <1> QED
    BY <1>5, <1>6 DEF SchedulerInv

LEMMA DecidePreemptionStep ==
    ASSUME SchedulerInv, DecidePreemption
    PROVE  SchedulerInv'
  <1>1. /\ at = "check" /\ at' \in {"idle", "yield", "run"}
        /\ at' = "idle" => status[currentThread] # "running"
        /\ at' \in {"run", "yield"} => status[currentThread] = "running"
    BY DEF DecidePreemption, Idle
  <1>2. /\ UNCHANGED <<status, currentThread, readyList, toBeDestroyed, priority, remain>>
        /\ waited' = waited /\ elapsed' = elapsed /\ phase' = phase /\ level' = level /\ iter' = iter
    BY DEF DecidePreemption, timeVars, loopVars
  <1>3. TypeOK' /\ ListsOK(readyList', priority', remain')
    BY <1>1, <1>2 DEF SchedulerInv, TypeOK, Locations
  <1>4. Placed' /\ RunInv' /\ CarcassInv' /\ LoopInv' /\ WaitInv' /\ (at # "aborted")'
    BY <1>1, <1>2
       DEF SchedulerInv, Placed, RunInv, CarcassInv, LoopInv, WaitInv, Ready
  <1> QED
    BY <1>3, <1>4 DEF SchedulerInv

LEMMA NextLoopStep ==
    ASSUME SchedulerInv, NextLoop
    PROVE  SchedulerInv'
  <1>1. /\ TypeOK /\ at = "age" /\ iter = None /\ level \in 1 .. 3
        /\ readyList \in [1 .. 3 -> Seq(Threads)]
        /\ UNCHANGED <<status, currentThread, readyList, toBeDestroyed, priority, remain>>
        /\ waited' = waited /\ elapsed' = elapsed /\ phase' = phase
    BY DEF NextLoop, timeVars, SchedulerInv, TypeOK
  <1>2. \A i \in 1 .. Len(readyList[2]) :
            /\ readyList[2][i] \in Threads /\ waited[readyList[2][i]] \in Nat
            /\ waited[readyList[2][i]] <= TimerTicks
            /\ level > 1 => waited[readyList[2][i]] = 0
    <2> SUFFICES ASSUME NEW i \in 1 .. Len(readyList[2])
                 PROVE  /\ readyList[2][i] \in Threads /\ waited[readyList[2][i]] \in Nat
                        /\ waited[readyList[2][i]] <= TimerTicks
                        /\ level > 1 => waited[readyList[2][i]] = 0
      OBVIOUS
    <2>1. PutBack(i)
      BY <1>1 DEF SchedulerInv, WaitInv
    <2>2. readyList[2][i] \in Threads
      BY <1>1
    <2>3. waited[readyList[2][i]] \in Nat
      BY <1>1, <2>2 DEF TypeOK
    <2>4. level > 1 => waited[readyList[2][i]] = 0
      BY <1>1, <2>1 DEF PutBack
    <2> QED
      BY <2>1, <2>2, <2>3, <2>4 DEF PutBack
  <1>3. \A t \in Threads : status'[t] # "ready" => waited'[t] = 0
    BY <1>1 DEF SchedulerInv, WaitInv
  <1>4. CASE level < 3
    <2>1. level' = level + 1 /\ iter' = FirstOf(readyList[level + 1]) /\ at' = "age" /\ level' \in 2 .. 3
      BY <1>1, <1>4 DEF NextLoop
    <2>2. iter' \in ToSet(readyList[level']) \cup {None}
      BY <1>1, <2>1, FirstOfIn
    <2>3. ToSet(readyList[level']) \subseteq Threads /\ ToSet(readyList[level']) \subseteq On(readyList)
      BY <1>1, <2>1, Elements DEF On
    <2>4. TypeOK'
      BY <1>1, <2>1, <2>2, <2>3 DEF TypeOK
    <2>5. LoopInv' /\ RunInv' /\ Placed' /\ CarcassInv' /\ (at # "aborted")'
      BY <1>1, <2>1, <2>2, <2>3 DEF SchedulerInv, LoopInv, RunInv, Placed, CarcassInv, Ready
    <2>6. ASSUME NEW i \in 1 .. Len(readyList[2]) PROVE PutBack(i)'
      <3>1. CASE level = 1
        <4>1. readyList[2] \in Seq(Threads) /\ readyList[2] # <<>> /\ 1 \in 1 .. i
          BY <1>1, FirstOfIn
        <4>2. iter' = readyList[2][1] /\ iter' \in Threads
          BY <1>1, <2>1, <3>1, <4>1, FirstOfIn
        <4>3. iter' # None
          BY <4>2, Constants
        <4> QED
          BY <1>1, <1>2, <2>1, <3>1, <4>1, <4>2, <4>3 DEF PutBack
      <3>2. CASE level = 2
        BY <1>1, <1>2, <2>1, <3>2 DEF PutBack
      <3> QED
        BY <1>1, <1>4, <3>1, <3>2
    <2>7. WaitInv'
      BY <1>1, <1>3, <2>1, <2>6 DEF WaitInv, SchedulerInv
    <2> QED
      BY <1>1, <2>4, <2>5, <2>7 DEF SchedulerInv
  <1>5. CASE level = 3
    <2>1. at' = "check" /\ level' = level /\ iter' = iter
      BY <1>5 DEF NextLoop, loopVars
    <2>2. \A t \in Ready(2)' : waited'[t] <= phase'
      <3> SUFFICES ASSUME NEW t \in Ready(2) PROVE waited[t] <= phase
        BY <1>1 DEF Ready
      <3>1. PICK i \in 1 .. Len(readyList[2]) : readyList[2][i] = t
        BY <1>1, ReadyElements
      <3> QED
        BY <1>1, <1>2, <1>5, <3>1 DEF SchedulerInv, WaitInv
    <2>3. TypeOK' /\ ListsOK(readyList', priority', remain')
      BY <1>1, <2>1 DEF SchedulerInv, TypeOK, Locations
    <2>4. Placed' /\ RunInv' /\ CarcassInv' /\ LoopInv' /\ WaitInv' /\ (at # "aborted")'
      BY <1>1, <1>3, <2>1, <2>2
         DEF SchedulerInv, Placed, RunInv, CarcassInv, LoopInv, WaitInv
    <2> QED
      BY <2>3, <2>4 DEF SchedulerInv
  <1> QED
    BY <1>1, <1>4, <1>5

LEMMA StayStep ==
    ASSUME SchedulerInv, Stay
    PROVE  SchedulerInv'
  <1>1. /\ TypeOK /\ at = "age" /\ iter # None /\ ~Moves(iter)
        /\ ListsOK(readyList, priority, remain) /\ readyList \in [1 .. 3 -> Seq(Threads)]
        /\ UNCHANGED <<status, currentThread, readyList, toBeDestroyed, remain, elapsed, phase, at, level>>
        /\ priority' = [priority EXCEPT ![iter] = NewPriority(iter)]
        /\ waited' = [waited EXCEPT ![iter] = WaitAfterAging(iter)]
        /\ iter' = ElementAfter(iter, readyList)
    BY DEF Stay, Aging, SchedulerInv, TypeOK
  <1>2. /\ iter \in Threads /\ iter \in On(readyList) /\ level \in 1 .. 3
        /\ level # 3 => iter \in Ready(level)
        /\ iter \in Ready(2) /\ level > 1 => ~Ages(iter)
        /\ \A k \in 1 .. 3 : iter \in Ready(k) => Belongs(iter, k, priority)
    BY <1>1, LoopFacts
  <1>3. /\ NewPriority(iter) \in 0 .. MaxPriority
        /\ ~Ages(iter) => NewPriority(iter) = priority[iter] /\ ~Upgraded(iter)
        /\ ~Upgraded(iter) => Level(NewPriority(iter)) = Level(priority[iter])
        /\ Level(priority[iter]) = 1 => ~Upgraded(iter)
        /\ WaitAfterAging(iter) \in Nat
        /\ WaitAfterAging(iter) = waited[iter] \/ WaitAfterAging(iter) = 0
    BY <1>1, <1>2, AgingFacts
  <1>4. level # 2
    BY <1>1, <1>2, <1>3 DEF Moves
  <1>5. PICK k \in 1 .. 3 :
            /\ iter \in Ready(k)
            /\ level = 1 => k = 1
    <2>1. CASE level = 1
      BY <1>2, <2>1
    <2>2. CASE level = 3
      BY <1>2, <2>2 DEF On, Ready
    <2> QED
      BY <1>2, <1>4, <2>1, <2>2
  <1>6. k = 2 => ~Ages(iter) /\ NewPriority(iter) = priority[iter]
    BY <1>2, <1>3, <1>4, <1>5
  <1>7. Belongs(iter, k, priority')
    <2>1. Belongs(iter, k, priority)
      BY <1>2, <1>5
    <2>2. priority'[iter] = NewPriority(iter)
      BY <1>1, <1>2 DEF TypeOK
    <2>3. CASE ~Upgraded(iter)
      BY <1>3, <2>1, <2>2, <2>3 DEF Belongs
    <2>4. CASE Upgraded(iter)
      <3>1. k = 3
        BY <1>3, <1>6, <2>1, <2>4 DEF Belongs
      <3>2. iter = Main
        BY <1>1, <1>2, <1>5, <2>4, <3>1 DEF Moves
      <3> QED
        BY <3>1, <3>2 DEF Belongs
    <2> QED
      BY <2>3, <2>4
  <1>8. ListsOK(readyList', priority', remain')
    <2>1. priority \in [Threads -> 0 .. MaxPriority] /\ iter \in ToSet(readyList[k])
      BY <1>1, <1>5 DEF TypeOK, Ready
    <2>2. ListsOK(readyList, priority', remain)
      BY <1>1, <1>5, <1>6, <1>7, <2>1, PriorityInList
    <2> QED
      BY <1>1, <2>2
  <1>9. iter' \in Ready(k) \cup {None}
    BY <1>1, <1>5, ElementAfterIn DEF Ready
  <1>10. TypeOK'
    <2>1. iter' \in Threads \cup {None}
      BY <1>1, <1>9, ReadyElements
    <2>2. /\ priority' \in [Threads -> 0 .. MaxPriority]
          /\ waited' \in [Threads -> Nat]
      BY <1>1, <1>2, <1>3 DEF TypeOK
    <2> QED
      BY <1>1, <2>1, <2>2 DEF TypeOK
  <1>11. LoopInv'
    BY <1>1, <1>2, <1>4, <1>5, <1>9, InvFacts DEF LoopInv, Ready
  <1>12. Placed' /\ RunInv' /\ CarcassInv' /\ (at # "aborted")'
    BY <1>1 DEF SchedulerInv, Placed, RunInv, CarcassInv
  <1>13. WaitInv'
    <2>1. \A t \in Threads : waited'[t] = waited[t] \/ waited'[t] = 0
      BY <1>1, <1>2, <1>3 DEF TypeOK
    <2>2. ASSUME NEW i \in 1 .. Len(readyList[2]) PROVE PutBack(i)'
      <3>1. readyList[2][i] \in Threads
        BY <1>1
      <3>2. PutBack(i)
        BY <1>1 DEF SchedulerInv, WaitInv
      <3>3. waited'[readyList[2][i]] = waited[readyList[2][i]] \/ waited'[readyList[2][i]] = 0
        BY <2>1, <3>1
      <3> QED
        BY <1>1, <1>2, <1>4, <3>2, <3>3, Constants DEF PutBack
    <2>3. \A t \in Threads : status'[t] # "ready" => waited'[t] = 0
      BY <1>1, <2>1 DEF SchedulerInv, WaitInv
    <2> QED
      BY <1>1, <2>2, <2>3 DEF WaitInv, SchedulerInv
  <1> QED
    BY <1>8, <1>10, <1>11, <1>12, <1>13 DEF SchedulerInv

(* In the second loop a thread is put back where it was.                   *)
LEMMA MoveInLevel2 ==
    ASSUME SchedulerInv, Move, level = 2
    PROVE  /\ readyList' = readyList /\ priority' = priority
           /\ \E p \in 1 .. Len(readyList[2]) :
                 /\ readyList[2][p] = iter
                 /\ iter' = IF p = Len(readyList[2]) THEN None ELSE readyList[2][p + 1]
  <1>1. /\ TypeOK /\ at = "age" /\ iter # None /\ iter \in Ready(2) /\ iter \in Threads
        /\ ListsOK(readyList, priority, remain) /\ readyList \in [1 .. 3 -> Seq(Threads)]
        /\ Keys(priority, remain)
        /\ priority' = [priority EXCEPT ![iter] = NewPriority(iter)]
        /\ readyList' = Inserted([readyList EXCEPT ![2] = RemoveAt(@, Position(@, iter))],
                                 iter, priority', remain)
        /\ iter' = ElementAfter(iter, readyList')
    BY InvFacts, ReadyElements DEF Move, SchedulerInv, TypeOK, Ready
  <1>2. Belongs(iter, 2, priority) /\ NewPriority(iter) = priority[iter]
    BY <1>1, LoopFacts, AgingFacts
  <1>3. priority' = priority /\ Level(priority[iter]) = 2
    BY <1>1, <1>2 DEF TypeOK, Belongs
  <1>4. PICK p \in 1 .. Len(readyList[2]) : readyList[2][p] = iter
    BY <1>1, ReadyElements
  <1>5. ListOK(readyList[2], 2, priority, remain) /\ Distinct(readyList[2])
    BY <1>1 DEF ListsOK, ListOK
  <1>6. Position(readyList[2], iter) = p
    BY <1>4, <1>5, PositionOK
  <1> DEFINE r == RemoveAt(readyList[2], p)
  <1>7. InsertAt(r, Place(r, 2, iter, priority, remain), iter) = readyList[2]
    BY <1>1, <1>4, <1>5, ReinsertOK
  <1> HIDE DEF r
  <1> DEFINE lists == [readyList EXCEPT ![2] = r]
  <1>8. /\ readyList' = Inserted(lists, iter, priority, remain)
        /\ lists[2] = r /\ lists \in [1 .. 3 -> {r} \cup Seq(Threads)]
    BY <1>1, <1>3, <1>6 DEF r
  <1>9. Inserted(lists, iter, priority, remain)
          = [lists EXCEPT ![2] = InsertAt(r, Place(r, 2, iter, priority, remain), iter)]
    BY <1>3, <1>8 DEF Inserted
  <1>10. readyList' = readyList
    BY <1>1, <1>7, <1>8, <1>9
  <1>11. iter' = IF p = Len(readyList[2]) THEN None ELSE readyList[2][p + 1]
    BY <1>1, <1>4, <1>10, ElementAfterOK
  <1> QED
    BY <1>3, <1>4, <1>10, <1>11

(* In the third loop a thread leaves level 3 for a higher one.             *)
LEMMA MoveInLevel3 ==
    ASSUME SchedulerInv, Move, level = 3
    PROVE  /\ ListsOK(readyList', priority', remain)
           /\ On(readyList') = On(readyList)
           /\ ToSet(readyList'[2]) \subseteq ToSet(readyList[2]) \cup {iter}
           /\ iter' \in On(readyList) \cup {None}
  <1>1. /\ TypeOK /\ at = "age" /\ iter # None /\ iter \in Ready(3) /\ iter \in Threads
        /\ ListsOK(readyList, priority, remain) /\ readyList \in [1 .. 3 -> Seq(Threads)]
        /\ priority' = [priority EXCEPT ![iter] = NewPriority(iter)]
        /\ readyList' = Inserted([readyList EXCEPT ![3] = RemoveAt(@, Position(@, iter))],
                                 iter, priority', remain)
        /\ iter' = ElementAfter(iter, readyList')
    BY ReadyElements DEF Move, SchedulerInv, TypeOK, Ready
  <1>2. Keys(priority', remain)
    BY <1>1, AgingFacts DEF TypeOK, Keys
  <1>3. PICK p \in 1 .. Len(readyList[3]) : readyList[3][p] = iter
    BY <1>1, ReadyElements
  <1>4. Position(readyList[3], iter) = p
    BY <1>1, <1>3, PositionOK DEF ListsOK, ListOK
  <1> DEFINE lists == [readyList EXCEPT ![3] = RemoveAt(@, p)]
  <1>5. readyList' = Inserted(lists, iter, priority', remain)
    BY <1>1, <1>4
  <1>6. LessOne(lists, iter, readyList, priority, remain)
    <2>1. lists = [readyList EXCEPT ![3] = RemoveAt(@, p)]
      OBVIOUS
    <2>2. 3 \in 1 .. 3 /\ p \in 1 .. Len(readyList[3]) /\ iter = readyList[3][p]
      BY <1>3
    <2> HIDE DEF lists
    <2>3. ListsOK(readyList, priority, remain)
      BY <1>1
    <2> QED
      BY ONLY <2>1, <2>2, <2>3, RemovedOK, Zenon
  <1> HIDE DEF lists
  <1>7. ListsOK(lists, priority', remain) /\ iter \notin On(lists)
    <2>1. \A t \in On(lists) : t \in Threads /\ t # iter
      BY <1>6 DEF LessOne, On
    <2>2. \A t \in On(lists) : priority'[t] = priority[t]
      BY <1>1, <2>1 DEF TypeOK
    <2> QED
      BY <1>6, <2>1, <2>2, OtherKeys DEF LessOne
  <1>8. With(readyList', iter, lists, priority', remain)
    BY <1>1, <1>2, <1>5, <1>7, InsertedOK
  <1>9. /\ ListsOK(readyList', priority', remain)
        /\ On(readyList') = On(readyList)
        /\ ToSet(readyList'[2]) \subseteq ToSet(readyList[2]) \cup {iter}
    <2>1. /\ On(readyList') = On(lists) \cup {iter} /\ ListsOK(readyList', priority', remain)
          /\ ToSet(readyList'[2]) \subseteq ToSet(lists[2]) \cup {iter}
      BY <1>8 DEF With
    <2>2. On(lists) = On(readyList) \ {iter} /\ iter \in On(readyList) /\ ToSet(lists[2]) \subseteq ToSet(readyList[2])
      BY <1>6 DEF LessOne
    <2> QED
      BY <2>1, <2>2
  <1>10. iter' \in On(readyList) \cup {None}
    <2> DEFINE k == Level(priority'[iter])
    <2>1. k \in 1 .. 3 /\ iter \in ToSet(readyList'[k]) /\ readyList' \in [1 .. 3 -> Seq(Threads)]
      BY <1>8 DEF With
    <2>2. ElementAfter(iter, readyList') \in ToSet(readyList'[k]) \cup {None}
      BY <1>9, <2>1, ElementAfterIn
    <2>3. ToSet(readyList'[k]) \subseteq On(readyList')
      BY <2>1, ListsElements
    <2> QED
      BY <1>1, <1>9, <2>2, <2>3
  <1> QED
    BY <1>9, <1>10

LEMMA MoveStep ==
    ASSUME SchedulerInv, Move
    PROVE  SchedulerInv'
  <1>1. /\ TypeOK /\ at = "age" /\ iter # None /\ Moves(iter)
        /\ ListsOK(readyList, priority, remain) /\ readyList \in [1 .. 3 -> Seq(Threads)]
        /\ UNCHANGED <<status, currentThread, toBeDestroyed, remain, elapsed, phase, at, level>>
        /\ priority' = [priority EXCEPT ![iter] = NewPriority(iter)]
        /\ waited' = [waited EXCEPT ![iter] = 0]
    BY DEF Move, SchedulerInv, TypeOK
  <1>2. iter \in Threads /\ level \in {2, 3} /\ NewPriority(iter) \in 0 .. MaxPriority
    BY <1>1, LoopFacts, AgingFacts DEF Moves
  <1>3. /\ ListsOK(readyList', priority', remain')
        /\ On(readyList') = On(readyList)
        /\ iter' \in (IF level = 3 THEN On(readyList) ELSE ToSet(readyList'[level])) \cup {None}
    <2>1. CASE level = 2
      <3>1. PICK p \in 1 .. Len(readyList[2]) :
                iter' = IF p = Len(readyList[2]) THEN None ELSE readyList[2][p + 1]
        BY <2>1, MoveInLevel2
      <3>2. p # Len(readyList[2]) => p + 1 \in 1 .. Len(readyList[2])
        BY <1>1
      <3>3. iter' \in ToSet(readyList[2]) \cup {None}
        BY <1>1, <3>1, <3>2, ListsElements
      <3>4. readyList' = readyList /\ priority' = priority
        BY <2>1, MoveInLevel2
      <3> QED
        BY <1>1, <2>1, <3>3, <3>4
    <2>2. CASE level = 3
      BY <1>1, <2>2, MoveInLevel3
    <2> QED
      BY <1>2, <2>1, <2>2
  <1>4. readyList' \in [1 .. 3 -> Seq(Threads)]
    BY <1>3 DEF ListsOK
  <1>5. TypeOK'
    <2>1. /\ priority' \in [Threads -> 0 .. MaxPriority]
          /\ waited' \in [Threads -> Nat]
      BY <1>1, <1>2 DEF TypeOK
    <2>2. iter' \in Threads \cup {None}
      BY <1>2, <1>3, <1>4, Elements DEF On
    <2> QED
      BY <1>1, <1>4, <2>1, <2>2 DEF TypeOK
  <1>6. LoopInv'
    BY <1>1, <1>2, <1>3 DEF LoopInv, Ready
  <1>7. Placed' /\ RunInv' /\ CarcassInv' /\ (at # "aborted")'
    BY <1>1, <1>3 DEF SchedulerInv, Placed, RunInv, CarcassInv
  <1>8. WaitInv'
    <2>1. \A t \in Threads : waited'[t] = IF t = iter THEN 0 ELSE waited[t]
      BY <1>1, <1>2 DEF TypeOK
    <2>2. ASSUME NEW i \in 1 .. Len(readyList'[2]) PROVE PutBack(i)'
      <3>1. CASE level = 2
        <4>1. PICK p \in 1 .. Len(readyList[2]) :
                  /\ readyList[2][p] = iter
                  /\ iter' = IF p = Len(readyList[2]) THEN None ELSE readyList[2][p + 1]
          BY <3>1, MoveInLevel2
        <4>2. /\ readyList' = readyList /\ i \in 1 .. Len(readyList[2]) /\ Len(readyList[2]) \in Nat
              /\ PutBack(i) /\ readyList[2][i] \in Threads
              /\ \A j \in 1 .. Len(readyList[2]) : readyList[2][j] = iter => j = p
          BY <1>1, <3>1, <4>1, MoveInLevel2 DEF SchedulerInv, WaitInv, ListsOK, ListOK, Distinct
        <4>3. CASE readyList[2][i] = iter
          BY <1>1, <1>2, <2>1, <3>1, <4>2, <4>3, Constants DEF PutBack
        <4>4. CASE readyList[2][i] # iter
          <5>1. waited'[readyList[2][i]] = waited[readyList[2][i]]
            BY <2>1, <4>2, <4>4
          <5>2. ASSUME waited[readyList[2][i]] # 0
                PROVE  iter' # None /\ \E j \in 1 .. i : readyList[2][j] = iter'
            <6>1. PICK j \in 1 .. i : readyList[2][j] = iter
              BY <3>1, <4>2, <5>2 DEF PutBack
            <6>2. j = p /\ p # i
              BY <4>2, <4>4, <6>1
            <6>3. p + 1 \in 1 .. i /\ p # Len(readyList[2]) /\ p + 1 \in 1 .. Len(readyList[2])
              BY <4>2, <6>1, <6>2
            <6>4. iter' = readyList[2][p + 1] /\ readyList[2][p + 1] \in Threads
              BY <1>1, <4>1, <6>3
            <6> QED
              BY <6>3, <6>4, Constants
          <5> QED
            BY <1>1, <3>1, <4>2, <5>1, <5>2 DEF PutBack
        <4> QED
          BY <4>3, <4>4
      <3>2. CASE level = 3
        <4>1. readyList'[2][i] \in ToSet(readyList'[2]) /\ readyList'[2][i] \in Threads
          BY <1>4, Elements
        <4>2. readyList'[2][i] \in Ready(2) \cup {iter}
          BY <3>2, <4>1, MoveInLevel3 DEF Ready
        <4>3. waited'[readyList'[2][i]] = 0
          <5>1. CASE readyList'[2][i] = iter
            BY <1>2, <2>1, <5>1
          <5>2. CASE readyList'[2][i] \in Ready(2)
            <6>1. PICK j \in 1 .. Len(readyList[2]) : readyList[2][j] = readyList'[2][i]
              BY <1>1, <5>2, ReadyElements
            <6>2. waited[readyList'[2][i]] = 0
              BY <1>1, <3>2, <6>1 DEF SchedulerInv, WaitInv, PutBack
            <6> QED
              BY <2>1, <4>1, <6>2
          <5> QED
            BY <4>2, <5>1, <5>2
        <4> QED
          BY <1>1, <3>2, <4>3, Constants DEF PutBack
      <3> QED
        BY <1>2, <3>1, <3>2
    <2>3. \A t \in Threads : status'[t] # "ready" => waited'[t] = 0
      BY <1>1, <2>1 DEF SchedulerInv, WaitInv
    <2> QED
      BY <1>1, <2>2, <2>3 DEF WaitInv, SchedulerInv
  <1> QED
    BY <1>3, <1>5, <1>6, <1>7, <1>8 DEF SchedulerInv

-----------------------------------------------------------------------------
(* The theorems.                                                           *)

(* However threads are created, woken, put to sleep, aged and preempted,   *)
(* the strengthened invariant holds.                                       *)
THEOREM SchedulerInductive == Spec => []SchedulerInv
  <1>1. SchedulerInv /\ [Next]_vars => SchedulerInv'
    <2> SUFFICES ASSUME SchedulerInv, [Next]_vars PROVE SchedulerInv'
      OBVIOUS
    <2>1. CASE \E t \in Threads, p \in Priorities : Fork(t, p)
      BY <2>1, ForkStep
    <2>2. CASE \E t \in Threads : Wake(t)
      BY <2>2, WakeStep
    <2>3. CASE Sleep
      <3>1. PICK burst \in 0 .. MaxBurst : remain' = [remain EXCEPT ![currentThread] = burst]
        BY <2>3 DEF Sleep
      <3>2. burst \in -MaxBurst .. MaxBurst
        BY Constants
      <3> QED
        BY <2>3, <3>1, <3>2, StopRunningStep DEF Sleep
    <2>4. CASE Finish
      <3>1. 0 \in -MaxBurst .. MaxBurst
        BY Constants
      <3> QED
        BY <2>4, <3>1, StopRunningStep DEF Finish
    <2>5. CASE Tick
      BY <2>5, TickStep
    <2>6. CASE Handler
      BY <2>6, StayStep, MoveStep, StopsStep, NextLoopStep, DecidePreemptionStep DEF Handler
    <2>7. CASE Yield
      BY <2>7, YieldStep
    <2>8. CASE Dispatch
      BY <2>8, DispatchStep
    <2>9. CASE CheckToBeDestroyed
      BY <2>9, CheckToBeDestroyedStep
    <2>10. CASE UNCHANGED vars
      <3>1. UNCHANGED <<status, currentThread, readyList, toBeDestroyed, priority, remain,
                        waited, elapsed, phase, at, level, iter>>
        BY <2>10 DEF vars, timeVars, loopVars
      <3>2. TypeOK' /\ ListsOK(readyList', priority', remain')
        BY <3>1 DEF SchedulerInv, TypeOK
      <3>3. Placed' /\ RunInv' /\ CarcassInv' /\ LoopInv' /\ WaitInv' /\ (at # "aborted")'
        BY <3>1 DEF SchedulerInv, Placed, RunInv, CarcassInv, LoopInv, WaitInv, PutBack, Ready
      <3> QED
        BY <3>2, <3>3 DEF SchedulerInv
    <2> QED
      BY <2>1, <2>2, <2>3, <2>4, <2>5, <2>6, <2>7, <2>8, <2>9, <2>10 DEF Next, Kernel
  <1> QED
    BY <1>1, InitInv, PTL DEF Spec

(* A thread is ready exactly when it is in one ready list, once, and only  *)
(* the current thread is running.                                          *)
THEOREM ReadyThreadsPlacedOnce == Spec => []PlacedOnce
  <1>1. SchedulerInv => PlacedOnce
    <2> SUFFICES ASSUME SchedulerInv PROVE PlacedOnce
      OBVIOUS
    <2>1. \A j, k \in 1 .. 3 : j # k => Ready(j) \cap Ready(k) = {}
      BY DEF SchedulerInv, ListsOK, Ready
    <2>2. ASSUME NEW k \in 1 .. 3 PROVE IsInjective(readyList[k])
      <3>1. readyList[k] \in Seq(Threads) /\ Distinct(readyList[k])
        BY DEF SchedulerInv, ListsOK, ListOK
      <3> QED
        BY <3>1 DEF Distinct, IsInjective
    <2>3. \A t \in Threads : status[t] = "ready" <=> \E k \in 1 .. 3 : t \in Ready(k)
      BY DEF SchedulerInv, Placed, On, Ready
    <2> QED
      BY <2>1, <2>2, <2>3 DEF SchedulerInv, RunInv, PlacedOnce
  <1> QED
    BY <1>1, SchedulerInductive, PTL

(* A ready thread is in the list its priority calls for; only the main     *)
(* thread may be left in a lower one.                                      *)
THEOREM ReadyThreadsInTheirLevel == Spec => []LevelInv
  <1>1. SchedulerInv => LevelInv
    <2> SUFFICES ASSUME SchedulerInv, NEW k \in 1 .. 3, NEW t \in Ready(k)
                 PROVE  Level(priority[t]) = k \/ (t = Main /\ Level(priority[t]) < k)
      BY DEF LevelInv
    <2>1. TypeOK /\ \A i \in 1 .. Len(readyList[k]) : Belongs(readyList[k][i], k, priority)
      BY DEF SchedulerInv, ListsOK, ListOK
    <2>2. Belongs(t, k, priority) /\ t \in Threads
      BY <2>1, ReadyElements
    <2>3. Level(priority[t]) \in 1 .. 3
      BY <2>1, <2>2, AgingFacts
    <2> QED
      BY <2>2, <2>3 DEF Belongs
  <1> QED
    BY <1>1, SchedulerInductive, PTL

(* Levels 1 and 2 stay sorted although aging, Yield and Sleep change the   *)
(* keys they are sorted by.                                                *)
THEOREM ReadyListsSorted == Spec => []SortedInv
  <1>1. SchedulerInv => SortedInv
    BY DEF SchedulerInv, ListsOK, ListOK, InOrder, SortedInv
  <1> QED
    BY <1>1, SchedulerInductive, PTL

(* The assertions of List::Remove, Scheduler::Run and ~Thread never fail.  *)
THEOREM AssertionsHold == Spec => []AssertsHold
  <1>1. SchedulerInv => AssertsHold
    <2> SUFFICES ASSUME SchedulerInv PROVE AssertsHold
      OBVIOUS
    <2>1. toBeDestroyed # None =>
              /\ at = "switched" /\ status[toBeDestroyed] = "finished"
              /\ status[currentThread] = "running"
      BY DEF SchedulerInv, CarcassInv, RunInv
    <2> QED
      BY <2>1 DEF SchedulerInv, AssertsHold
  <1> QED
    BY <1>1, SchedulerInductive, PTL

-----------------------------------------------------------------------------
(* Preemption.                                                             *)

(* Whole ticks, n parts to a tick: what a is more than the ticks in it.    *)
LEMMA WholeTicks ==
    ASSUME NEW n \in Nat \ {0}, NEW a \in Nat
    PROVE  a \div n \in Nat /\ n * (a \div n) <= a /\ a < n * (a \div n) + n
  OBVIOUS

(* More ticks are more parts.                                              *)
LEMMA MoreTicks ==
    ASSUME NEW n \in Nat \ {0}, NEW i \in Int, NEW j \in Int, i < j
    PROVE  n * i + n <= n * j
  <1>1. PICK k \in Nat : j = i + 1 + k
    <2>1. j - i - 1 \in Nat /\ j = i + 1 + (j - i - 1)
      OBVIOUS
    <2> QED
      BY <2>1
  <1>2. n * j = n * i + n + n * k
    BY <1>1
  <1>3. n * k >= 0
    OBVIOUS
  <1>4. n * i \in Int /\ n * k \in Int /\ n * j \in Int
    OBVIOUS
  <1> QED
    BY <1>2, <1>3, <1>4

(* Of two numbers of parts the one with more whole ticks is the larger;    *)
(* one without more whole ticks is larger by less than a tick, if at all,  *)
(* numbers below 0 counting as 0.                                          *)
LEMMA TruncatedCompares ==
    ASSUME NEW a \in Int, NEW b \in Int
    PROVE  /\ Truncated(a) \in Int /\ Truncated(b) \in Int
           /\ Truncated(a) > Truncated(b) => a > b
           /\ Truncated(a) <= Truncated(b) =>
                 Larger(a, 0) <= Larger(b, 0) + (TickParts - 1)
  <1> DEFINE n == TickParts
  <1>1. n \in Nat \ {0}
    BY Constants
  <1>2. \A x \in Int : x >= 0 => /\ Truncated(x) = x \div n /\ Truncated(x) \in Nat
                                 /\ n * Truncated(x) <= x /\ x < n * Truncated(x) + n
    BY <1>1, WholeTicks DEF Truncated
  <1>3. \A x \in Int : x < 0 => /\ Truncated(x) \in Int /\ -Truncated(x) \in Nat
                                /\ n * (-Truncated(x)) <= -x /\ -x < n * (-Truncated(x)) + n
    <2> SUFFICES ASSUME NEW x \in Int, x < 0
                 PROVE  /\ Truncated(x) \in Int /\ -Truncated(x) \in Nat
                        /\ n * (-Truncated(x)) <= -x /\ -x < n * (-Truncated(x)) + n
      OBVIOUS
    <2>1. -x \in Nat /\ Truncated(x) = -((-x) \div n)
      BY DEF Truncated
    <2>2. (-x) \div n \in Nat /\ n * ((-x) \div n) <= -x /\ -x < n * ((-x) \div n) + n
      BY <1>1, <2>1, WholeTicks
    <2>3. Truncated(x) \in Int /\ -Truncated(x) = (-x) \div n
      BY <2>1, <2>2
    <2> QED
      BY <2>2, <2>3
  <1> HIDE DEF n
  <1>4. Truncated(a) \in Int /\ Truncated(b) \in Int
    BY <1>2, <1>3
  <1>5. ASSUME Truncated(a) > Truncated(b) PROVE a > b
    <2>1. CASE a >= 0 /\ b >= 0
      <3>1. n * Truncated(b) + n <= n * Truncated(a)
        BY <1>1, <1>4, <1>5, MoreTicks
      <3> QED
        BY <1>1, <1>2, <1>4, <2>1, <3>1
    <2>2. CASE a >= 0 /\ b < 0
      BY <2>2
    <2>3. CASE a < 0 /\ b >= 0
      BY <1>2, <1>3, <1>4, <1>5, <2>3
    <2>4. CASE a < 0 /\ b < 0
      <3>1. n * (-Truncated(a)) + n <= n * (-Truncated(b))
        BY <1>1, <1>4, <1>5, MoreTicks
      <3> QED
        BY <1>1, <1>3, <1>4, <2>4, <3>1
    <2> QED
      BY <2>1, <2>2, <2>3, <2>4
  <1>6. ASSUME Truncated(a) <= Truncated(b), a > 0
        PROVE  a < Larger(b, 0) + n
    <2>1. CASE b >= 0 /\ Truncated(a) < Truncated(b)
      <3>1. n * Truncated(a) + n <= n * Truncated(b)
        BY <1>1, <1>4, <2>1, MoreTicks
      <3> QED
        BY <1>1, <1>2, <1>4, <1>6, <2>1, <3>1 DEF Larger
    <2>2. CASE b >= 0 /\ Truncated(a) = Truncated(b)
      BY <1>1, <1>2, <1>4, <1>6, <2>2 DEF Larger
    <2>3. CASE b < 0
      <3>1. Truncated(a) = 0
        BY <1>2, <1>3, <1>4, <1>6, <2>3
      <3>2. n * 0 = 0
        BY <1>1
      <3> QED
        BY <1>1, <1>2, <1>6, <2>3, <3>1, <3>2 DEF Larger
    <2> QED
      BY <1>4, <1>6, <2>1, <2>2, <2>3
  <1>7. ASSUME Truncated(a) <= Truncated(b)
        PROVE  Larger(a, 0) <= Larger(b, 0) + (n - 1)
    BY <1>1, <1>6, <1>7 DEF Larger
  <1> QED
    BY <1>4, <1>5, <1>7 DEF n

(* What Insert and Remove look at: the first thread of level 1 has the     *)
(* least remaining burst, one that was exceeded counting as 0.             *)
LEMMA HeadShortest ==
    ASSUME SchedulerInv, readyList[1] # <<>>
    PROVE  /\ Head(readyList[1]) \in Ready(1)
           /\ \A u \in Ready(1) : Larger(remain[Head(readyList[1])], 0) <= Larger(remain[u], 0)
  <1>1. /\ readyList[1] \in Seq(Threads) /\ InOrder(readyList[1], 1, priority, remain)
        /\ remain \in [Threads -> -MaxBurst .. MaxBurst] /\ MaxBurst \in Nat
    BY Constants DEF SchedulerInv, ListsOK, ListOK, TypeOK
  <1>2. 1 \in 1 .. Len(readyList[1]) /\ Head(readyList[1]) = readyList[1][1]
    BY <1>1
  <1>3. ASSUME NEW u \in Ready(1)
        PROVE  Larger(remain[readyList[1][1]], 0) <= Larger(remain[u], 0)
    <2>1. PICK i \in 1 .. Len(readyList[1]) : readyList[1][i] = u
      BY <1>1, Elements DEF Ready
    <2>2. i = 1 \/ Before(1, readyList[1][1], u, priority, remain)
      BY <1>1, <1>2, <2>1 DEF InOrder
    <2>3. /\ readyList[1][1] \in Threads /\ u \in Threads
          /\ remain[readyList[1][1]] \in Int /\ remain[u] \in Int
      BY <1>1, <1>2, <2>1
    <2> QED
      BY <2>1, <2>2, <2>3 DEF Before, Shorter, Larger
  <1>4. readyList[1][1] \in Ready(1)
    BY <1>1, <1>2, Elements DEF Ready
  <1> QED
    BY <1>2, <1>3, <1>4

(* Why the handler has asked the thread to yield.  A handler of another    *)
(* device may make more threads ready before Yield, never fewer.           *)
YieldInv ==
    at = "yield" =>
        \/ Level(priority[currentThread]) = 3
        \/ Level(priority[currentThread]) = 2 /\ Ready(1) # {}
        \/ \E u \in Ready(1) :
              Larger(remain[u], 0) <= Larger(remain[currentThread] - elapsed, 0)

(* A thread woken between the handler and Yield takes no reason away.      *)
LEMMA WakeKeepsReason ==
    ASSUME SchedulerInv, SchedulerInv', YieldInv, NEW t \in Threads, Wake(t)
    PROVE  YieldInv'
  <1>1. Keys(priority, remain) /\ ListsOK(readyList, priority, remain) /\ t \notin On(readyList)
    BY InvFacts DEF Wake, SchedulerInv
  <1>2. With(readyList', t, readyList, priority, remain)
    BY <1>1, InsertedOK DEF Wake
  <1>3. Ready(1) \subseteq Ready(1)'
    <2> SUFFICES ASSUME NEW u \in Ready(1) PROVE u \in ToSet(readyList'[1])
      BY DEF Ready
    <2>1. u \in On(readyList)
      BY InvFacts
    <2>2. PICK j \in 1 .. 3 : u \in ToSet(readyList'[j])
      BY <1>2, <2>1 DEF With, On
    <2>3. u \in ToSet(readyList[j])
      BY <1>1, <1>2, <2>1, <2>2 DEF With
    <2>4. j = 1
      BY <1>1, <2>3 DEF ListsOK, Ready
    <2> QED
      BY <2>2, <2>4
  <1> QED
    BY <1>3 DEF Wake, YieldInv

(* The handler asks for Yield only with such a reason.                     *)
LEMMA DecideGivesReason ==
    ASSUME SchedulerInv, DecidePreemption
    PROVE  YieldInv'
  <1>1. /\ UNCHANGED <<currentThread, readyList, priority, remain, elapsed>>
        /\ at' = "yield" => Preempts
    BY DEF DecidePreemption, timeVars
  <1>2. SUFFICES ASSUME Preempts, Level(priority[currentThread]) # 3 PROVE YieldInv'
    BY <1>1 DEF YieldInv
  <1>3. readyList[1] # <<>> /\ Head(readyList[1]) \in Ready(1)
    BY <1>2, HeadShortest DEF Preempts, FromLevel2
  <1>4. CASE Level(priority[currentThread]) = 2
    BY <1>1, <1>3, <1>4 DEF YieldInv, Ready
  <1>5. CASE Level(priority[currentThread]) = 1
    <2>1. Truncated(remain[currentThread] - elapsed) > Truncated(remain[Head(readyList[1])])
      BY <1>2, <1>5 DEF Preempts, FromLevel2
    <2>2. /\ remain[currentThread] \in Int /\ elapsed \in Int
          /\ remain[Head(readyList[1])] \in Int
      <3>1. Head(readyList[1]) \in Threads
        BY <1>3, ReadyElements DEF SchedulerInv
      <3> QED
        BY <3>1, Constants DEF SchedulerInv, TypeOK
    <2>3. Larger(remain[Head(readyList[1])], 0) <= Larger(remain[currentThread] - elapsed, 0)
      <3>1. remain[currentThread] - elapsed > remain[Head(readyList[1])]
        BY <2>1, <2>2, TruncatedCompares
      <3> QED
        BY <2>2, <3>1 DEF Larger
    <2> QED
      BY <1>1, <1>3, <2>3 DEF YieldInv, Ready
  <1>6. priority[currentThread] \in Nat
    BY Constants DEF SchedulerInv, TypeOK
  <1> QED
    BY <1>2, <1>4, <1>5, <1>6, LevelFacts

(* From the handler's decision to Yield there is a reason to yield.        *)
LEMMA ReasonKept == Spec => []YieldInv
  <1>1. Init => YieldInv
    BY DEF Init, YieldInv
  <1>2. SchedulerInv /\ SchedulerInv' /\ YieldInv /\ [Next]_vars => YieldInv'
    <2> SUFFICES ASSUME SchedulerInv, SchedulerInv', YieldInv, [Next]_vars PROVE YieldInv'
      OBVIOUS
    <2>1. ASSUME at' # "yield" PROVE YieldInv'
      BY <2>1 DEF YieldInv
    <2>2. CASE \E t \in Threads : Wake(t)
      BY <2>2, WakeKeepsReason
    <2>3. CASE DecidePreemption
      BY <2>3, DecideGivesReason
    <2>4. CASE UNCHANGED vars
      BY <2>4 DEF vars, timeVars, YieldInv, Ready
    <2>5. CASE \E t \in Threads, p \in Priorities : Fork(t, p)
      BY <2>1, <2>5 DEF Fork
    <2>6. CASE Sleep \/ Finish
      BY <2>1, <2>6 DEF Sleep, Finish, StopRunning
    <2>7. CASE Tick
      BY <2>1, <2>7 DEF Tick
    <2>8. CASE Stay \/ Move \/ Stops \/ NextLoop
      BY <2>1, <2>8 DEF Stay, Move, Stops, NextLoop
    <2>9. CASE Yield \/ Dispatch \/ CheckToBeDestroyed
      BY <2>1, <2>9 DEF Yield, Dispatch, CheckToBeDestroyed, RunNext
    <2> QED
      BY <2>2, <2>3, <2>4, <2>5, <2>6, <2>7, <2>8, <2>9 DEF Next, Kernel, Handler
  <1> QED
    BY <1>1, <1>2, SchedulerInductive, PTL DEF Spec

(* What has the shortest burst has it but for less than a tick.            *)
LEMMA MoreExcess ==
    ASSUME SchedulerInv', RightThreadRuns(0)'
    PROVE  RightThreadRuns(TickParts - 1)'
  <1>1. /\ remain' \in [Threads -> Int] /\ elapsed' \in Int /\ currentThread' \in Threads
        /\ Ready(1)' \subseteq Threads /\ TickParts - 1 \in Nat
    <2>1. TypeOK'
      BY DEF SchedulerInv
    <2>2. Ready(1)' \subseteq Threads
      BY <2>1, Elements DEF TypeOK, Ready
    <2>3. TickParts - 1 \in Nat /\ -MaxBurst .. MaxBurst \subseteq Int /\ 0 .. MaxElapsed \subseteq Int
      BY Constants
    <2>4. /\ remain' \in [Threads -> -MaxBurst .. MaxBurst]
          /\ elapsed' \in 0 .. MaxElapsed /\ currentThread' \in Threads
      BY <2>1 DEF TypeOK
    <2> QED
      BY <2>2, <2>3, <2>4
  <1>2. ASSUME NEW t \in Ready(1)',
               Larger(remain'[currentThread'] - elapsed', 0) <= Larger(remain'[t], 0) + 0
        PROVE  Larger(remain'[currentThread'] - elapsed', 0)
                 <= Larger(remain'[t], 0) + (TickParts - 1)
    <2>1. remain'[currentThread'] \in Int /\ remain'[t] \in Int
      BY <1>1
    <2> QED
      BY <1>1, <1>2, <2>1 DEF Larger
  <1> QED
    BY <1>2 DEF RightThreadRuns

(* The handler returns to the thread it interrupted only if no thread is   *)
(* to run before it by whole ticks.                                        *)
LEMMA NotPreempted ==
    ASSUME SchedulerInv, DecidePreemption, at' = "run"
    PROVE  RightThreadRuns(TickParts - 1)'
  <1>1. /\ UNCHANGED <<currentThread, readyList, priority, remain, elapsed>>
        /\ ~Preempts
    BY DEF DecidePreemption, timeVars
  <1>2. RightThreadRuns(TickParts - 1)
    <2>1. Level(priority[currentThread]) \in 1 .. 3
      <3>1. priority[currentThread] \in Nat
        BY Constants DEF SchedulerInv, TypeOK
      <3> QED
        BY <3>1, LevelFacts
    <2>2. ASSUME NEW k \in 1 .. 3, k < Level(priority[currentThread]) PROVE readyList[k] = <<>>
      BY <1>1, <2>1, <2>2 DEF Preempts, FromLevel2
    <2>3. ASSUME Level(priority[currentThread]) = 1, NEW t \in Ready(1)
          PROVE  Larger(remain[currentThread] - elapsed, 0)
                     <= Larger(remain[t], 0) + (TickParts - 1)
      <3>1. readyList[1] # <<>>
        BY <2>3 DEF Ready, ToSet
      <3>2. /\ Head(readyList[1]) \in Ready(1)
            /\ Larger(remain[Head(readyList[1])], 0) <= Larger(remain[t], 0)
        BY <2>3, <3>1, HeadShortest
      <3>3. ~ (Truncated(remain[currentThread] - elapsed)
                 > Truncated(remain[Head(readyList[1])]))
        BY <1>1, <2>3, <3>1 DEF Preempts
      <3>4. /\ remain[currentThread] \in Int /\ elapsed \in Int
            /\ remain[Head(readyList[1])] \in Int /\ remain[t] \in Int
        <4>1. Head(readyList[1]) \in Threads /\ t \in Threads
          BY <2>3, <3>2, ReadyElements DEF SchedulerInv
        <4> QED
          BY <4>1, Constants DEF SchedulerInv, TypeOK
      <3>5. Larger(remain[currentThread] - elapsed, 0)
              <= Larger(remain[Head(readyList[1])], 0) + (TickParts - 1)
        BY <3>3, <3>4, TruncatedCompares
      <3> QED
        BY <3>2, <3>4, <3>5, Constants DEF Larger
    <2> QED
      BY <2>2, <2>3 DEF RightThreadRuns
  <1> QED
    BY <1>1, <1>2 DEF RightThreadRuns, Ready

(* Yield runs the first thread of the first list that is not empty, and    *)
(* the one it takes the processor from goes behind it.                     *)
LEMMA YieldRunsRight ==
    ASSUME SchedulerInv, SchedulerInv', YieldInv, Yield
    PROVE  RightThreadRuns(0)'
  <1> DEFINE c == currentThread
             L == Level(priority[c])
  <1>1. /\ TypeOK /\ at = "yield" /\ c \in Threads /\ status[c] = "running" /\ c \notin On(readyList)
        /\ ListsOK(readyList, priority, remain) /\ remain' = Charged /\ priority' = priority
    BY InvFacts DEF Yield, SchedulerInv, TypeOK, RunInv
  <1>2. L \in 1 .. 3
    <2>1. priority[c] \in Nat
      BY <1>1, Constants DEF TypeOK
    <2> QED
      BY <2>1, LevelFacts
  <1>3. CASE NonEmpty = {} /\ UNCHANGED readyList
    <2>1. \A k \in 1 .. 3 : readyList'[k] = <<>>
      BY <1>3 DEF NonEmpty
    <2>2. Ready(1)' = {}
      BY <2>1 DEF Ready, ToSet
    <2> QED
      BY <2>1, <2>2 DEF RightThreadRuns
  <1>4. ASSUME NEW k \in 1 .. 3, NEW t \in Threads, NextToRun(k, t),
               readyList' = Inserted(Without(k), currentThread, priority, Charged),
               RunNext(t, [status EXCEPT ![currentThread] = "ready"])
        PROVE  RightThreadRuns(0)'
    <2>1. /\ ListsOK(Without(k), priority, remain)
          /\ t \in On(readyList) /\ status[t] = "ready"
          /\ On(Without(k)) = On(readyList) \ {t}
          /\ \A j \in 1 .. 3 : ToSet(Without(k)[j]) = ToSet(readyList[j]) \ {t}
      BY <1>4, TakenOK
    <2>2. /\ c \notin On(Without(k)) /\ t # c
          /\ Charged \in [Threads -> -MaxBurst .. MaxBurst] /\ Keys(priority, Charged)
          /\ \A u \in Threads : u # c => Charged[u] = remain[u]
      BY <1>1, <2>1, ChargedOK DEF TypeOK, Keys
    <2>3. ListsOK(Without(k), priority, Charged)
      <3>1. \A u \in On(Without(k)) : Charged[u] = remain[u]
        BY <2>2 DEF On
      <3> QED
        BY <2>1, <3>1, OtherKeys
    <2>4. With(readyList', c, Without(k), priority, Charged)
      BY <1>1, <1>4, <2>2, <2>3, InsertedOK
    <2>5. currentThread' = t /\ elapsed' = 0
      BY <1>4 DEF RunNext
    <2>6. \A j \in 1 .. 3 : readyList[j] # <<>> => k <= j
      BY <1>4 DEF NextToRun, NonEmpty
    <2>7. t = Head(readyList[k]) /\ readyList[k] # <<>> /\ t \in Ready(k)
      <3>1. readyList[k] \in Seq(Threads) /\ readyList[k] # <<>> /\ t = Head(readyList[k])
        BY <1>1, <1>4 DEF NextToRun, NonEmpty, TypeOK
      <3>2. t = readyList[k][1] /\ 1 \in 1 .. Len(readyList[k])
        BY <3>1
      <3> QED
        BY <3>1, <3>2, Elements DEF Ready
    <2>8. Level(priority[t]) \in 1 .. k
      <3>1. Belongs(t, k, priority)
        <4>1. PICK i \in 1 .. Len(readyList[k]) : readyList[k][i] = t
          BY <1>1, <2>7, ReadyElements
        <4> QED
          BY <1>1, <4>1 DEF ListsOK, ListOK
      <3>2. Level(priority[t]) \in 1 .. 3
        <4>1. priority[t] \in Nat
          BY <1>1, Constants DEF TypeOK
        <4> QED
          BY <4>1, LevelFacts
      <3> QED
        BY <3>1, <3>2 DEF Belongs
    <2>9. L = 3 \/ k = 1
      <3>1. Ready(1) # {} => readyList[1] # <<>>
        BY DEF Ready, ToSet
      <3> QED
        BY <1>1, <2>6, <3>1 DEF YieldInv
    <2>10. ASSUME NEW j \in 1 .. 3, j < Level(priority[t]) PROVE readyList'[j] = <<>>
      <3>1. j < k /\ k # 1
        BY <2>8, <2>10
      <3>2. readyList[j] = <<>> /\ j # 3 /\ L = 3
        BY <2>6, <2>9, <3>1
      <3>3. ToSet(readyList'[j]) \subseteq {c}
        <4>1. ToSet(readyList[j]) = {}
          BY <3>2 DEF ToSet
        <4> QED
          BY <2>1, <2>4, <4>1 DEF With
      <3>4. c \notin ToSet(readyList'[j])
        <4>1. c \in ToSet(readyList'[3])
          BY <2>4, <3>2 DEF With
        <4> QED
          BY <2>4, <3>2, <4>1 DEF With, ListsOK
      <3>5. readyList' \in [1 .. 3 -> Seq(Threads)] /\ ToSet(readyList'[j]) = {}
        BY <2>4, <3>3, <3>4 DEF With
      <3>6. readyList'[j] \in Seq(Threads) /\ Len(readyList'[j]) \notin Nat \ {0}
        <4>1. \A i \in 1 .. Len(readyList'[j]) : readyList'[j][i] \in ToSet(readyList'[j])
          BY <3>5, Elements
        <4> QED
          BY <3>5, <4>1
      <3> QED
        BY <3>6
    <2>11. ASSUME Level(priority[t]) = 1, NEW u \in Ready(1)'
           PROVE  Larger(remain'[t] - elapsed', 0) <= Larger(remain'[u], 0)
      <3>1. u \in Ready(1) \/ u = c
        BY <2>1, <2>4 DEF With, Ready
      <3>2. u = c => L = 1
        <4>1. c \in ToSet(readyList'[L])
          BY <2>4 DEF With
        <4> QED
          BY <1>2, <2>4, <2>11, <4>1 DEF With, ListsOK, Ready
      <3>3. k = 1
        <4>1. Ready(1) # {} => readyList[1] # <<>>
          BY DEF Ready, ToSet
        <4> QED
          BY <2>6, <2>9, <3>1, <3>2, <4>1
      <3>4. \A w \in Ready(1) : Larger(remain[t], 0) <= Larger(remain[w], 0)
        BY <2>7, <3>3, HeadShortest
      <3>5. /\ u \in Threads /\ remain[t] \in Int /\ remain[c] \in Int /\ elapsed \in Int
            /\ \A w \in Ready(1) : w \in Threads /\ remain[w] \in Int
            /\ MaxBurst \in Nat /\ Charged[t] = remain[t]
        <4>1. \A w \in Ready(1) : w \in Threads
          BY <1>1, ReadyElements
        <4>2. \A w \in Threads : remain[w] \in Int
          BY <1>1, Constants DEF TypeOK
        <4>3. elapsed \in Int /\ MaxBurst \in Nat
          BY <1>1, Constants DEF TypeOK
        <4> QED
          BY <1>1, <2>2, <3>1, <4>1, <4>2, <4>3
      <3>6. Larger(remain'[t] - elapsed', 0) = Larger(remain[t], 0)
        BY <1>1, <2>5, <3>5
      <3>7. CASE u # c
        BY <1>1, <2>2, <3>1, <3>4, <3>5, <3>6, <3>7
      <3>8. CASE u = c
        <4>1. PICK w \in Ready(1) : Larger(remain[w], 0) <= Larger(remain[c] - elapsed, 0)
          BY <1>1, <3>2, <3>8 DEF YieldInv
        <4>2. Charged[c] = Larger(remain[c] - elapsed, -MaxBurst)
          BY <1>1 DEF Charged, TypeOK
        <4>3. Larger(Charged[c], 0) = Larger(remain[c] - elapsed, 0)
          BY <3>5, <4>2 DEF Larger
        <4>4. Larger(remain[t], 0) <= Larger(remain[w], 0)
          BY <3>4
        <4>5. Larger(remain[t], 0) <= Larger(remain[c] - elapsed, 0)
          BY <3>5, <4>1, <4>4 DEF Larger
        <4> QED
          BY <1>1, <3>6, <3>8, <4>3, <4>5
      <3> QED
        BY <3>7, <3>8
    <2>12. \A u \in Ready(1)' : Larger(remain'[u], 0) + 0 = Larger(remain'[u], 0)
      <3>1. \A u \in Threads : remain'[u] \in Int
        BY <1>1, <2>2, Constants
      <3>2. Ready(1)' \subseteq Threads
        BY <1>1, <2>1, <2>4, ReadyElements DEF With, Ready
      <3> QED
        BY <3>1, <3>2 DEF Larger
    <2> QED
      BY <1>1, <2>5, <2>10, <2>11, <2>12 DEF RightThreadRuns
  <1> QED
    BY <1>3, <1>4 DEF Yield

(* When the timer's interrupt is over, no thread of a higher level is      *)
(* ready.  In level 1 a thread that was switched to has the shortest       *)
(* burst, also when other handlers made threads ready before Yield, and    *)
(* one that goes on has the shortest but for less than a tick.             *)
THEOREM TimerPreemptsCorrect == Spec => TimerPreempts
  <1>1. SchedulerInv /\ SchedulerInv' /\ YieldInv /\ [Next]_vars => [InterruptOver]_vars
    <2> SUFFICES ASSUME SchedulerInv, SchedulerInv', YieldInv, Next,
                        at \in {"check", "yield"}, at' \in {"run", "switched"}
                 PROVE  /\ at' = "run" => RightThreadRuns(TickParts - 1)'
                        /\ at' = "switched" => RightThreadRuns(0)'
      BY DEF InterruptOver
    <2>1. DecidePreemption \/ Yield
      BY DEF Next, Fork, Wake, Sleep, Finish, StopRunning, Tick, Kernel, Handler, Stay, Move, Stops,
             NextLoop, Dispatch, CheckToBeDestroyed
    <2>2. CASE DecidePreemption
      <3>1. at' # "switched"
        BY <2>2 DEF DecidePreemption
      <3> QED
        BY <2>2, <3>1, NotPreempted
    <2>3. CASE Yield
      <3>1. RightThreadRuns(0)' => RightThreadRuns(TickParts - 1)'
        BY MoreExcess
      <3> QED
        BY <2>3, <3>1, YieldRunsRight
    <2> QED
      BY <2>1, <2>2, <2>3
  <1> QED
    BY <1>1, SchedulerInductive, ReasonKept, PTL DEF Spec, TimerPreempts
=============================================================================
