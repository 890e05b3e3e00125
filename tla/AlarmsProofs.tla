---------------------------- MODULE AlarmsProofs ----------------------------
(***************************************************************************)
(* Proofs about module Alarms, for every set of alarms, every clock and    *)
(* every bound: types, the list that stays a list, and the refinement of   *)
(* module AlarmSpec.                                                       *)
(*                                                                         *)
(* They are about clients whose callbacks set their own alarm again before *)
(* they return ("once" is not among the Uses).  Run AlarmsLost shows what  *)
(* other callbacks do to the list.                                         *)
(***************************************************************************)
EXTENDS Alarms, FiniteSetTheorems, TLAPS

Periodic == "once" \notin Uses

SetAlarms == {a \in Alarm : status[a] = "set"}

(* The i-th of the n alarms s, as the pointers see it.                     *)
At(s, n, i) == IF i \in 1..n THEN s[i] ELSE NULL

(* The links c take one from head h through s[1], ..., s[n], which are the *)
(* alarms of S, each once, to NULL.                                        *)
IsList(s, n, S, h, c) ==
  /\ s \in [1..n -> S]
  /\ \A i, j \in 1..n : s[i] = s[j] => i = j
  /\ \A a \in S : \E i \in 1..n : s[i] = a
  /\ h = At(s, n, 1)
  /\ \A i \in 1..n : c[s[i]] = At(s, n, i + 1)

ListOf(S, h, c) ==
  \E n \in 0..Cardinality(Alarm) : \E s \in [1..n -> S] : IsList(s, n, S, h, c)

(* The alarms on the list are those that are set.                          *)
Listed == ListOf(SetAlarms, head, chain)

(* No alarm is far from its time, one way or the other.                    *)
Near == \A a \in Alarm : left[a] <= MaxDelay \/ left[a] >= Clock - MaxLag

(* Once a pass has left the head of the list, flag keeps the processor for *)
(* it, and the alarm whose chain field it stands on is on the list: its    *)
(* callback has set it again, and raised flag by that.                     *)
Standing == step \in {"check", "store"} /\ cell # HEAD =>
              flag /\ cpu = "kernel" /\ status[cell] = "set"

(* Between reading the link of the expired alarm and storing it nobody     *)
(* else runs, so that what has been read is still so.                      *)
Storing == step = "store" =>
             /\ cpu = "kernel" /\ ap # NULL /\ ap = Deref(cell) /\ next = chain[ap]
             /\ ~After(left[ap])

Calling == step = "call" => ap # NULL /\ (status[ap] = "set" => flag)

OnlyInCallbacks == due["kernel"] # NULL => step = "call"

IInv == TypeOK /\ Listed /\ Near /\ Standing /\ Storing /\ Calling /\ OnlyInCallbacks
-----------------------------------------------------------------------------
(* Induction over the natural numbers, from the well-founded order of      *)
(* finite sets.                                                            *)
LEMMA LeastNumber ==
  ASSUME NEW T \in SUBSET Nat, T # {}
  PROVE  \E m \in T : \A k \in T : m <= k
<1> DEFINE R == StrictSubsetOrdering(Nat)
<1> DEFINE U == {0..n : n \in T}
<1>1. IsWellFoundedOn(R, FiniteSubsetsOf(Nat))
  BY FS_StrictSubsetOrderingWellFounded
<1>2. U \subseteq FiniteSubsetsOf(Nat) /\ U # {}
  <2>1. ASSUME NEW n \in T PROVE 0..n \in FiniteSubsetsOf(Nat)
    <3>1. IsFiniteSet(0..n)
      BY FS_Interval
    <3> QED
      BY <3>1 DEF FiniteSubsetsOf
  <2> QED
    BY <2>1
<1>3. PICK x \in U : \A y \in U : ~(<<y, x>> \in R)
  <2> HIDE DEF U, R
  <2> QED
    BY <1>1, <1>2, WFMin
<1>4. PICK m \in T : x = 0..m
  OBVIOUS
<1>5. ASSUME NEW k \in T PROVE m <= k
  <2>1. ~(<<0..k, 0..m>> \in R)
    BY <1>3, <1>4
  <2>2. k \in Nat /\ m \in Nat
    OBVIOUS
  <2>3. ~(k < m)
    <3> SUFFICES ASSUME k < m PROVE FALSE
      OBVIOUS
    <3>1. 0..k \subseteq 0..m /\ 0..k # 0..m
      <4>1. m \in 0..m /\ m \notin 0..k
        BY <2>2
      <4> QED
        BY <2>2, <4>1
    <3>2. 0..k \in SUBSET Nat /\ 0..m \in SUBSET Nat
      BY <2>2
    <3> QED
      BY <3>1, <3>2, <2>1 DEF StrictSubsetOrdering
  <2> QED
    BY <2>2, <2>3
<1> QED
  BY <1>5

LEMMA SetInduction ==
  ASSUME NEW T, 0 \in T, \A n \in Nat : n \in T => n + 1 \in T
  PROVE  \A n \in Nat : n \in T
<1> DEFINE B == {n \in Nat : n \notin T}
<1>1. SUFFICES ASSUME B # {} PROVE FALSE
  OBVIOUS
<1>2. B \in SUBSET Nat
  OBVIOUS
<1>3. PICK m \in B : \A k \in B : m <= k
  <2> HIDE DEF B
  <2> QED
    BY <1>1, <1>2, LeastNumber
<1>4. m \in Nat /\ m # 0 /\ m \notin T
  BY <1>3
<1>5. m - 1 \in Nat /\ m - 1 < m /\ (m - 1) + 1 = m
  BY <1>4
<1>6. m - 1 \notin B
  <2> HIDE DEF B
  <2> QED
    BY <1>3, <1>5, <1>4
<1> QED
  BY <1>6, <1>5, <1>4
-----------------------------------------------------------------------------
(* Lists.                                                                  *)
LEMMA AlarmsFinite ==
  /\ IsFiniteSet(Alarm) /\ NULL \notin Alarm
  /\ Cardinality(Alarm) \in Nat /\ Cardinality(Alarm) > 0
<1>1. Cardinality(Alarm) # 0
  BY AlarmsAssumption, FS_EmptySet
<1> QED
  BY <1>1, AlarmsAssumption, FS_CardinalityType

(* A list has no more alarms than there are.                               *)
LEMMA ListFits ==
  ASSUME NEW S \in SUBSET Alarm, NEW n \in Nat, NEW s, NEW h, NEW c,
         IsList(s, n, S, h, c)
  PROVE  n <= Cardinality(Alarm)
<1>1. s \in Injection(1..n, S)
  BY DEF IsList, Injection, IsInjective
<1>2. IsFiniteSet(S) /\ Cardinality(S) <= Cardinality(Alarm) /\ Cardinality(S) \in Nat
  BY AlarmsFinite, FS_Subset, FS_CardinalityType
<1>3. Cardinality(1..n) <= Cardinality(S)
  BY <1>1, <1>2, FS_Injection
<1>4. Cardinality(1..n) = n
  BY FS_Interval
<1> QED
  BY <1>2, <1>3, <1>4, AlarmsFinite

LEMMA ListMade ==
  ASSUME NEW S \in SUBSET Alarm, NEW n \in Nat, NEW s, NEW h, NEW c,
         IsList(s, n, S, h, c)
  PROVE  ListOf(S, h, c)
<1>1. n \in 0..Cardinality(Alarm)
  BY ListFits, AlarmsFinite
<1>2. s \in [1..n -> S]
  BY DEF IsList
<1> QED
  BY <1>1, <1>2 DEF ListOf

(* Walking the links visits the alarms of the list in order, then NULL.    *)
IsWalk(w, s, n) ==
  /\ DOMAIN w = 1..(Cardinality(Alarm) + 1)
  /\ \A i \in 1..(Cardinality(Alarm) + 1) : w[i] = At(s, n, i)

LEMMA WalkIs ==
  ASSUME NEW S \in SUBSET Alarm, NEW n \in Nat, NEW s, NEW h, NEW c,
         IsList(s, n, S, h, c)
  PROVE  IsWalk(Walk(h, c), s, n)
<1> DEFINE D == 1..(Cardinality(Alarm) + 1)
<1> DEFINE Body(w) == [m \in D |-> IF m = 1 THEN h
                                   ELSE IF w[m - 1] = NULL THEN NULL ELSE c[w[m - 1]]]
<1> DEFINE g == [i \in D |-> At(s, n, i)]
<1> DEFINE W == Walk(h, c)
<1>1. Cardinality(Alarm) \in Nat
  BY AlarmsFinite
<1>2. ASSUME NEW m \in D, m # 1
      PROVE  At(s, n, m) = IF At(s, n, m - 1) = NULL THEN NULL ELSE c[At(s, n, m - 1)]
  <2>1. m \in Nat /\ m - 1 \in Nat /\ m - 1 >= 1 /\ (m - 1) + 1 = m
    BY <1>1, <1>2
  <2>2. CASE m - 1 \in 1..n
    <3>1. s[m - 1] \in Alarm /\ s[m - 1] # NULL
      BY <2>2, AlarmsFinite DEF IsList
    <3>2. c[s[m - 1]] = At(s, n, m)
      BY <2>1, <2>2 DEF IsList
    <3> QED
      BY <3>1, <3>2, <2>2 DEF At
  <2>3. CASE m - 1 \notin 1..n
    <3>1. m \notin 1..n
      BY <2>1, <2>3
    <3> QED
      BY <3>1, <2>3 DEF At
  <2> QED
    BY <2>2, <2>3
<1>3. g = Body(g)
  <2>1. ASSUME NEW m \in D PROVE g[m] = Body(g)[m]
    <3>1. CASE m = 1
      BY <3>1 DEF IsList
    <3>2. CASE m # 1
      <4>1. m - 1 \in D
        BY <3>2, <1>1
      <4> QED
        BY <4>1, <3>2, <1>2
    <3> QED
      BY <3>1, <3>2
  <2> QED
    BY <2>1
<1>4. W = CHOOSE w : w = Body(w)
  BY DEF Walk
<1>5. W = Body(W)
  <2> HIDE DEF g, W, Body
  <2> QED
    BY <1>3, <1>4
<1> HIDE DEF W
<1> DEFINE T == {k \in Nat : k + 1 \in D => W[k + 1] = At(s, n, k + 1)}
<1>6. 0 \in T
  <2>1. W[1] = h
    BY <1>5, <1>1
  <2> QED
    BY <2>1 DEF IsList
<1>7. ASSUME NEW k \in Nat, k \in T PROVE k + 1 \in T
  <2> SUFFICES ASSUME (k + 1) + 1 \in D PROVE W[(k + 1) + 1] = At(s, n, (k + 1) + 1)
    OBVIOUS
  <2> DEFINE m == (k + 1) + 1
  <2>1. m \in D /\ m # 1 /\ m - 1 = k + 1 /\ m - 1 \in D
    BY <1>1
  <2>2. W[m - 1] = At(s, n, m - 1)
    BY <2>1, <1>7
  <2> HIDE DEF m
  <2>3. W[m] = IF W[m - 1] = NULL THEN NULL ELSE c[W[m - 1]]
    BY <2>1, <1>5
  <2>4. W[m] = At(s, n, m)
    BY <2>1, <2>2, <2>3, <1>2
  <2> QED
    BY <2>4 DEF m
<1>8. \A k \in Nat : k \in T
  <2> HIDE DEF T
  <2> QED
    BY <1>6, <1>7, SetInduction
<1>9. ASSUME NEW i \in D PROVE W[i] = At(s, n, i)
  <2>1. i - 1 \in Nat /\ (i - 1) + 1 = i
    BY <1>1
  <2> QED
    BY <2>1, <1>8
<1>10. DOMAIN W = D
  BY <1>5
<1> QED
  BY <1>9, <1>10 DEF W, IsWalk

LEMMA OnListIs ==
  ASSUME NEW S \in SUBSET Alarm, NEW n \in Nat, NEW s, NEW h, NEW c,
         IsList(s, n, S, h, c)
  PROVE  /\ OnList(h, c) = S
         /\ Walk(h, c)[Cardinality(Alarm) + 1] = NULL
<1>1. n <= Cardinality(Alarm) /\ Cardinality(Alarm) \in Nat
  BY ListFits, AlarmsFinite
<1>2. \A i \in 1..(Cardinality(Alarm) + 1) : Walk(h, c)[i] = At(s, n, i)
  <2>1. IsWalk(Walk(h, c), s, n)
    BY WalkIs
  <2> QED
    BY <2>1 DEF IsWalk
<1>3. ASSUME NEW a \in OnList(h, c) PROVE a \in S
  <2>1. PICK i \in 1..Cardinality(Alarm) : a = Walk(h, c)[i] /\ a # NULL
    BY DEF OnList
  <2>2. a = At(s, n, i)
    BY <2>1, <1>2, <1>1
  <2> QED
    BY <2>1, <2>2 DEF At, IsList
<1>4. ASSUME NEW a \in S PROVE a \in OnList(h, c)
  <2>1. PICK i \in 1..n : s[i] = a
    BY DEF IsList
  <2>2. i \in 1..Cardinality(Alarm) /\ i \in 1..(Cardinality(Alarm) + 1)
    BY <1>1
  <2>3. Walk(h, c)[i] = a
    BY <2>1, <2>2, <1>2 DEF At
  <2> QED
    BY <2>2, <2>3, AlarmsFinite DEF OnList
<1>5. Walk(h, c)[Cardinality(Alarm) + 1] = NULL
  <2>1. Cardinality(Alarm) + 1 \in 1..(Cardinality(Alarm) + 1)
    BY <1>1
  <2>2. Cardinality(Alarm) + 1 \notin 1..n
    BY <1>1
  <2> QED
    BY <2>1, <2>2, <1>2 DEF At
<1> QED
  BY <1>3, <1>4, <1>5

(* Taking the k-th alarm off a list: the cell before it takes its link.    *)
TakenAt(k, s, n, S, h, c, H, C) ==
  /\ k \in 1..n
  /\ H = IF k = 1 THEN At(s, n, 2) ELSE h
  /\ \A x \in S \ {s[k]} :
       C[x] = IF k > 1 /\ x = s[k - 1] THEN At(s, n, k + 1) ELSE c[x]

LEMMA RemovedAt ==
  ASSUME NEW S \in SUBSET Alarm, NEW n \in Nat, NEW s, NEW h, NEW c,
         IsList(s, n, S, h, c),
         NEW k, NEW H, NEW C, TakenAt(k, s, n, S, h, c, H, C)
  PROVE  ListOf(S \ {s[k]}, H, C)
<1> USE DEF TakenAt
<1> DEFINE a == s[k]
<1> DEFINE r == [i \in 1..(n - 1) |-> IF i < k THEN s[i] ELSE s[i + 1]]
<1>1. /\ s \in [1..n -> S] /\ \A i, j \in 1..n : s[i] = s[j] => i = j
      /\ \A x \in S : \E i \in 1..n : s[i] = x
      /\ h = At(s, n, 1) /\ \A i \in 1..n : c[s[i]] = At(s, n, i + 1)
  BY DEF IsList
<1>2. n - 1 \in Nat /\ k \in Nat /\ 1 <= k /\ k <= n
  OBVIOUS
<1>3. ASSUME NEW i \in 1..(n - 1)
      PROVE  /\ i \in 1..n /\ i + 1 \in 1..n /\ i # i + 1
             /\ r[i] = IF i < k THEN s[i] ELSE s[i + 1]
             /\ r[i] \in S \ {a}
  <2>1. i \in 1..n /\ i + 1 \in 1..n /\ i # i + 1
    BY <1>2
  <2>2. s[i] \in S /\ s[i + 1] \in S
    BY <2>1, <1>1
  <2>3. i < k => s[i] # s[k]
    BY <2>1, <1>1, <1>2
  <2>4. ~(i < k) => s[i + 1] # s[k]
    <3>1. ~(i < k) => i + 1 # k
      BY <1>2
    <3> QED
      BY <3>1, <2>1, <1>1
  <2> QED
    BY <2>1, <2>2, <2>3, <2>4
<1>4. \A i \in 1..n : At(s, n, i) = s[i]
  BY DEF At
<1>5. At(s, n, n + 1) = NULL
  BY DEF At
<1>6. ASSUME NEW i \in 1..n
      PROVE  At(r, n - 1, i) = IF i < k THEN s[i] ELSE At(s, n, i + 1)
  <2>1. CASE i = n
    <3>1. i \notin 1..(n - 1) /\ ~(i < k)
      BY <2>1
    <3> QED
      BY <3>1, <2>1, <1>5 DEF At
  <2>2. CASE i # n
    <3>1. i \in 1..(n - 1)
      BY <2>2
    <3>2. At(r, n - 1, i) = r[i]
      BY <3>1 DEF At
    <3> HIDE DEF r
    <3> QED
      BY <3>1, <3>2, <1>3, <1>4
  <2> QED
    BY <2>1, <2>2
<1>7. r \in [1..(n - 1) -> S \ {a}]
  BY <1>3
<1>8. \A i, j \in 1..(n - 1) : r[i] = r[j] => i = j
  <2> HIDE DEF r
  <2> SUFFICES ASSUME NEW i \in 1..(n - 1), NEW j \in 1..(n - 1), r[i] = r[j] PROVE i = j
    OBVIOUS
  <2>1. i \in Nat /\ j \in Nat
    OBVIOUS
  <2>2. CASE i < k /\ j < k
    BY <2>2, <1>3, <1>1
  <2>3. CASE i < k /\ ~(j < k)
    <3>1. i = j + 1
      BY <2>3, <1>3, <1>1
    <3> QED
      BY <3>1, <2>3, <2>1, <1>2
  <2>4. CASE ~(i < k) /\ j < k
    <3>1. i + 1 = j
      BY <2>4, <1>3, <1>1
    <3> QED
      BY <3>1, <2>4, <2>1, <1>2
  <2>5. CASE ~(i < k) /\ ~(j < k)
    <3>1. i + 1 = j + 1
      BY <2>5, <1>3, <1>1
    <3> QED
      BY <3>1, <2>1
  <2> QED
    BY <2>2, <2>3, <2>4, <2>5
<1>9. \A x \in S \ {a} : \E i \in 1..(n - 1) : r[i] = x
  <2> SUFFICES ASSUME NEW x \in S, x # a PROVE \E i \in 1..(n - 1) : r[i] = x
    OBVIOUS
  <2> HIDE DEF r
  <2>1. PICK i \in 1..n : s[i] = x
    BY <1>1
  <2>2. i # k
    BY <2>1
  <2>3. CASE i < k
    <3>1. i \in 1..(n - 1)
      BY <2>3, <1>2
    <3> QED
      BY <3>1, <2>1, <2>3, <1>3
  <2>4. CASE i > k
    <3>1. i - 1 \in 1..(n - 1) /\ ~(i - 1 < k) /\ (i - 1) + 1 = i
      BY <2>4, <1>2
    <3>2. r[i - 1] = s[(i - 1) + 1]
      BY <3>1, <1>3
    <3> QED
      BY <3>1, <3>2, <2>1
  <2> QED
    BY <2>2, <2>3, <2>4, <1>2
<1>10. H = At(r, n - 1, 1)
  <2>1. At(r, n - 1, 1) = IF 1 < k THEN s[1] ELSE At(s, n, 2)
    <3>1. 1 \in 1..n /\ 1 + 1 = 2
      BY <1>2
    <3> HIDE DEF r
    <3> QED
      BY <3>1, <1>6
  <2>2. h = s[1]
    BY <1>1, <1>2, <1>4
  <2>3. 1 < k <=> k # 1
    BY <1>2
  <2> QED
    BY <2>1, <2>2, <2>3
<1>11. ASSUME NEW i \in 1..(n - 1) PROVE C[r[i]] = At(r, n - 1, i + 1)
  <2> HIDE DEF r
  <2>1. i \in 1..n /\ i + 1 \in 1..n /\ r[i] \in S \ {a} /\ i \in Nat
        /\ r[i] = IF i < k THEN s[i] ELSE s[i + 1]
    BY <1>3
  <2>2. At(r, n - 1, i + 1) = IF i + 1 < k THEN s[i + 1] ELSE At(s, n, (i + 1) + 1)
    BY <2>1, <1>6
  <2>3. k > 1 => k - 1 \in 1..n
    BY <1>2
  <2>4. CASE i + 1 < k
    <3>1. r[i] = s[i] /\ i # k - 1 /\ k > 1
      BY <2>1, <2>4, <1>2
    <3>2. s[i] # s[k - 1]
      BY <3>1, <2>3, <2>1, <1>1
    <3>3. C[r[i]] = c[s[i]]
      BY <3>1, <3>2, <2>1
    <3> QED
      BY <3>3, <2>1, <2>2, <2>4, <1>1, <1>4
  <2>5. CASE i + 1 = k
    <3>1. r[i] = s[i] /\ i = k - 1 /\ k > 1 /\ ~(i + 1 < k)
      BY <2>1, <2>5, <1>2
    <3>2. C[r[i]] = At(s, n, k + 1)
      BY <3>1, <2>1
    <3> QED
      BY <3>1, <3>2, <2>2, <2>5
  <2>6. CASE i + 1 > k
    <3>1. r[i] = s[i + 1] /\ ~(i + 1 < k) /\ i + 1 # k - 1
      BY <2>1, <2>6, <1>2
    <3>2. k > 1 => s[i + 1] # s[k - 1]
      BY <3>1, <2>3, <2>1, <1>1
    <3>3. C[r[i]] = c[s[i + 1]]
      BY <3>1, <3>2, <2>1
    <3> QED
      BY <3>1, <3>3, <2>1, <2>2, <1>1
  <2> QED
    BY <2>4, <2>5, <2>6, <2>1, <1>2
<1>12. IsList(r, n - 1, S \ {a}, H, C)
  <2> HIDE DEF r
  <2> QED
    BY <1>7, <1>8, <1>9, <1>10, <1>11 DEF IsList
<1>13. S \ {a} \in SUBSET Alarm
  OBVIOUS
<1> QED
  <2> HIDE DEF r
  <2> QED
    BY <1>2, <1>12, <1>13, ListMade

(* Putting an alarm before the k-th of a list, or at its end.              *)
PutAt(k, a, s, n, S, h, c, H, C) ==
  /\ k \in 1..(n + 1)
  /\ H = IF k = 1 THEN a ELSE h
  /\ C[a] = At(s, n, k)
  /\ \A x \in S : C[x] = IF k > 1 /\ x = s[k - 1] THEN a ELSE c[x]

LEMMA InsertedAt ==
  ASSUME NEW S \in SUBSET Alarm, NEW n \in Nat, NEW s, NEW h, NEW c,
         IsList(s, n, S, h, c),
         NEW a \in Alarm, a \notin S,
         NEW k, NEW H, NEW C, PutAt(k, a, s, n, S, h, c, H, C)
  PROVE  ListOf(S \cup {a}, H, C)
<1> USE DEF PutAt
<1> DEFINE r == [i \in 1..(n + 1) |-> IF i < k THEN s[i] ELSE IF i = k THEN a ELSE s[i - 1]]
<1>1. /\ s \in [1..n -> S] /\ \A i, j \in 1..n : s[i] = s[j] => i = j
      /\ \A x \in S : \E i \in 1..n : s[i] = x
      /\ h = At(s, n, 1) /\ \A i \in 1..n : c[s[i]] = At(s, n, i + 1)
  BY DEF IsList
<1>2. n + 1 \in Nat /\ k \in Nat /\ 1 <= k /\ k <= n + 1
  OBVIOUS
<1>3. ASSUME NEW i \in 1..(n + 1)
      PROVE  /\ i < k => i \in 1..n /\ r[i] = s[i] /\ r[i] \in S
             /\ i = k => r[i] = a
             /\ i > k => i - 1 \in 1..n /\ r[i] = s[i - 1] /\ r[i] \in S
             /\ i \in Nat
  BY <1>1, <1>2
<1>4. r \in [1..(n + 1) -> S \cup {a}]
  <2>1. ASSUME NEW i \in 1..(n + 1) PROVE r[i] \in S \cup {a}
    <3>1. i < k \/ i = k \/ i > k
      BY <1>2
    <3> HIDE DEF r
    <3> QED
      BY <3>1, <1>3
  <2> QED
    BY <2>1
<1> HIDE DEF r
<1>5. \A i, j \in 1..(n + 1) : r[i] = r[j] => i = j
  <2> SUFFICES ASSUME NEW i \in 1..(n + 1), NEW j \in 1..(n + 1), r[i] = r[j] PROVE i = j
    OBVIOUS
  <2>1. i = k <=> j = k
    BY <1>3, <1>2
  <2>2. CASE i < k /\ j < k
    BY <2>2, <1>3, <1>1
  <2>3. CASE i < k /\ j > k
    <3>1. i = j - 1
      BY <2>3, <1>3, <1>1
    <3> QED
      BY <3>1, <2>3, <1>2
  <2>4. CASE i > k /\ j < k
    <3>1. i - 1 = j
      BY <2>4, <1>3, <1>1
    <3> QED
      BY <3>1, <2>4, <1>2
  <2>5. CASE i > k /\ j > k
    <3>1. i - 1 = j - 1
      BY <2>5, <1>3, <1>1
    <3> QED
      BY <3>1
  <2> QED
    BY <2>1, <2>2, <2>3, <2>4, <2>5, <1>2
<1>6. \A x \in S \cup {a} : \E i \in 1..(n + 1) : r[i] = x
  <2>1. k \in 1..(n + 1) /\ r[k] = a
    BY <1>3
  <2>2. ASSUME NEW x \in S PROVE \E i \in 1..(n + 1) : r[i] = x
    <3>1. PICK i \in 1..n : s[i] = x
      BY <1>1
    <3>2. CASE i < k
      <4>1. i \in 1..(n + 1)
        OBVIOUS
      <4> QED
        BY <4>1, <3>1, <3>2, <1>3
    <3>3. CASE i >= k
      <4>1. i + 1 \in 1..(n + 1) /\ i + 1 > k /\ (i + 1) - 1 = i
        BY <3>3, <1>2
      <4>2. r[i + 1] = s[(i + 1) - 1]
        BY <4>1, <1>3
      <4> QED
        BY <4>1, <4>2, <3>1
    <3> QED
      BY <3>2, <3>3, <1>2
  <2> QED
    BY <2>1, <2>2
<1>7. H = At(r, n + 1, 1)
  <2>1. 1 \in 1..(n + 1) /\ At(r, n + 1, 1) = r[1]
    BY DEF At
  <2>2. CASE k = 1
    BY <2>1, <2>2, <1>3
  <2>3. CASE k # 1
    <3>1. 1 < k
      BY <2>3, <1>2
    <3>2. r[1] = s[1] /\ 1 \in 1..n
      BY <3>1, <2>1, <1>3
    <3> QED
      BY <2>1, <2>3, <3>2, <1>1 DEF At
  <2> QED
    BY <2>2, <2>3
<1>8. ASSUME NEW i \in 1..(n + 1) PROVE C[r[i]] = At(r, n + 1, i + 1)
  <2>1. i \in Nat /\ (k > 1 => k - 1 \in 1..n)
    BY <1>2
  <2>2. CASE i + 1 < k
    <3>1. i < k /\ i # k - 1 /\ i + 1 \in 1..(n + 1) /\ k > 1
      BY <2>1, <2>2, <1>2
    <3>2. i \in 1..n /\ i + 1 \in 1..n /\ r[i] = s[i] /\ r[i] \in S /\ r[i + 1] = s[i + 1]
      BY <3>1, <2>2, <1>3
    <3>3. s[i] # s[k - 1]
      BY <3>1, <3>2, <2>1, <1>1
    <3>4. C[r[i]] = c[s[i]]
      BY <3>1, <3>2, <3>3
    <3>5. c[s[i]] = s[i + 1]
      BY <3>2, <1>1 DEF At
    <3> QED
      BY <3>1, <3>2, <3>4, <3>5 DEF At
  <2>3. CASE i + 1 = k
    <3>1. i < k /\ i = k - 1 /\ i + 1 \in 1..(n + 1) /\ k > 1
      BY <2>1, <2>3, <1>2
    <3>2. i \in 1..n /\ r[i] = s[i] /\ r[i] \in S /\ r[i + 1] = a
      BY <3>1, <2>3, <1>3
    <3>3. C[r[i]] = a
      BY <3>1, <3>2
    <3> QED
      BY <3>1, <3>2, <3>3 DEF At
  <2>4. CASE i = k
    <3>1. r[i] = a
      BY <2>4, <1>3
    <3>2. CASE k = n + 1
      <4>1. k + 1 \notin 1..(n + 1) /\ k \notin 1..n
        BY <3>2
      <4> QED
        BY <3>1, <4>1, <2>4 DEF At
    <3>3. CASE k # n + 1
      <4>1. k + 1 \in 1..(n + 1) /\ k + 1 > k /\ (k + 1) - 1 = k /\ k \in 1..n
        BY <3>3, <1>2
      <4>2. r[k + 1] = s[(k + 1) - 1]
        BY <4>1, <1>3
      <4> QED
        BY <3>1, <4>1, <4>2, <2>4 DEF At
    <3> QED
      BY <3>2, <3>3
  <2>5. CASE i > k
    <3>1. i - 1 \in 1..n /\ r[i] = s[i - 1] /\ r[i] \in S
      BY <2>5, <1>3
    <3>2. k > 1 => s[i - 1] # s[k - 1]
      <4>1. i - 1 # k - 1
        BY <2>1, <2>5, <1>2
      <4> QED
        BY <4>1, <3>1, <2>1, <1>1
    <3>3. C[r[i]] = c[s[i - 1]]
      BY <3>1, <3>2
    <3>4. c[s[i - 1]] = At(s, n, i)
      <4>1. (i - 1) + 1 = i
        BY <2>1
      <4> QED
        BY <4>1, <3>1, <1>1
    <3>5. CASE i = n + 1
      <4>1. i \notin 1..n /\ i + 1 \notin 1..(n + 1)
        BY <3>5
      <4> QED
        BY <4>1, <3>3, <3>4 DEF At
    <3>6. CASE i # n + 1
      <4>1. i \in 1..n /\ i + 1 \in 1..(n + 1) /\ i + 1 > k /\ (i + 1) - 1 = i
        BY <3>6, <2>5, <2>1, <1>2
      <4>2. r[i + 1] = s[(i + 1) - 1]
        BY <4>1, <1>3
      <4> QED
        BY <4>1, <4>2, <3>3, <3>4 DEF At
    <3> QED
      BY <3>5, <3>6
  <2> QED
    BY <2>1, <2>2, <2>3, <2>4, <2>5, <1>2
<1>9. IsList(r, n + 1, S \cup {a}, H, C)
  BY <1>4, <1>5, <1>6, <1>7, <1>8 DEF IsList
<1>10. S \cup {a} \in SUBSET Alarm
  OBVIOUS
<1> QED
  BY <1>2, <1>9, <1>10, ListMade
-----------------------------------------------------------------------------
(* What SLIST_REMOVE_SAFE and the insertion of alarmSchedule() do to it.   *)
LEMMA UnlinkedIs ==
  ASSUME NEW S \in SUBSET Alarm, NEW n \in Nat, NEW s, IsList(s, n, S, head, chain),
         chain \in [Alarm -> Alarm \cup {NULL}], head \in Alarm \cup {NULL},
         NEW a \in Alarm
  PROVE  /\ ListOf(S \ {a}, Unlinked(a).h, Unlinked(a).c)
         /\ Unlinked(a).h \in Alarm \cup {NULL}
         /\ Unlinked(a).c \in [Alarm -> Alarm \cup {NULL}]
<1> DEFINE before == {x \in OnList(head, chain) : chain[x] = a}
<1> DEFINE u == CHOOSE x \in before : TRUE
<1>1. /\ s \in [1..n -> S] /\ \A i, j \in 1..n : s[i] = s[j] => i = j
      /\ \A x \in S : \E i \in 1..n : s[i] = x
      /\ head = At(s, n, 1) /\ \A i \in 1..n : chain[s[i]] = At(s, n, i + 1)
  BY DEF IsList
<1>2. OnList(head, chain) = S
  BY OnListIs
<1>3. \A i \in 1..n : At(s, n, i) = s[i] /\ s[i] \in S /\ s[i] \in Alarm /\ s[i] # NULL
  BY <1>1, AlarmsFinite DEF At
<1>4. \A i \in Nat : At(s, n, i) = a => i \in 1..n /\ s[i] = a
  BY AlarmsFinite DEF At
<1>5. CASE a \notin S
  <2>1. head # a
    BY <1>1, <1>3, <1>4, <1>5
  <2>2. before = {}
    <3> SUFFICES ASSUME NEW x \in S, chain[x] = a PROVE FALSE
      BY <1>2
    <3>1. PICK i \in 1..n : s[i] = x
      BY <1>1
    <3>2. At(s, n, i + 1) = a /\ i + 1 \in Nat
      BY <3>1, <1>1
    <3> QED
      BY <3>2, <1>4, <1>3, <1>5
  <2>3. Unlinked(a) = [h |-> head, c |-> chain]
    BY <2>1, <2>2 DEF Unlinked
  <2>4. S \ {a} = S /\ ListOf(S, head, chain)
    BY <1>5, ListMade
  <2> QED
    BY <2>3, <2>4
<1>6. CASE a \in S
  <2>1. PICK k \in 1..n : s[k] = a
    BY <1>1, <1>6
  <2>2. k \in Nat /\ chain[a] = At(s, n, k + 1) /\ chain[a] \in Alarm \cup {NULL}
    BY <2>1, <1>1
  <2>3. CASE k = 1
    <3>1. head = a /\ At(s, n, 2) = chain[a]
      BY <2>1, <2>2, <2>3, <1>1, <1>3
    <3>2. Unlinked(a) = [h |-> chain[a], c |-> chain]
      BY <3>1 DEF Unlinked
    <3>3. \A x \in S \ {s[k]} :
            chain[x] = IF k > 1 /\ x = s[k - 1] THEN At(s, n, k + 1) ELSE chain[x]
      BY <2>3
    <3>4. chain[a] = IF k = 1 THEN At(s, n, 2) ELSE head
      BY <3>1, <2>3
    <3>5. TakenAt(k, s, n, S, head, chain, chain[a], chain)
      BY <3>3, <3>4 DEF TakenAt
    <3>6. ListOf(S \ {s[k]}, chain[a], chain)
      BY <3>5, RemovedAt
    <3> QED
      BY <3>2, <3>6, <2>1, <2>2
  <2>4. CASE k # 1
    <3>1. k - 1 \in 1..n /\ (k - 1) + 1 = k /\ k > 1
      BY <2>4, <2>2
    <3>2. head # a
      <4>1. 1 \in 1..n
        BY <3>1
      <4> QED
        BY <4>1, <2>1, <2>4, <1>1, <1>3
    <3>3. s[k - 1] \in before
      <4>1. s[k - 1] \in S
        BY <3>1, <1>3
      <4>2. chain[s[k - 1]] = a
        BY <3>1, <2>1, <1>1, <1>3
      <4> QED
        BY <4>1, <4>2, <1>2
    <3>4. u = s[k - 1]
      <4>1. u \in before
        BY <3>3
      <4>2. u \in S /\ chain[u] = a
        BY <4>1, <1>2
      <4> HIDE DEF u
      <4>3. PICK i \in 1..n : s[i] = u
        BY <4>2, <1>1
      <4>4. At(s, n, i + 1) = a /\ i + 1 \in Nat
        BY <4>2, <4>3, <1>1
      <4>5. i + 1 = k
        BY <4>4, <1>4, <1>1, <2>1
      <4>6. i = k - 1
        BY <4>5
      <4> QED
        BY <4>3, <4>6
    <3> DEFINE C == [chain EXCEPT ![s[k - 1]] = chain[a]]
    <3>5. Unlinked(a) = [h |-> head, c |-> C]
      <4>1. before # {}
        BY <3>3
      <4>2. Unlinked(a) = [h |-> head, c |-> [chain EXCEPT ![u] = chain[a]]]
        BY <3>2, <4>1 DEF Unlinked
      <4> HIDE DEF u
      <4> QED
        BY <4>2, <3>4
    <3>6. C \in [Alarm -> Alarm \cup {NULL}]
      BY <2>2
    <3>7. \A x \in S \ {s[k]} :
            C[x] = IF k > 1 /\ x = s[k - 1] THEN At(s, n, k + 1) ELSE chain[x]
      <4>1. \A x \in Alarm : C[x] = IF x = s[k - 1] THEN chain[a] ELSE chain[x]
        OBVIOUS
      <4> HIDE DEF C
      <4> QED
        BY <4>1, <3>1, <2>2
    <3> HIDE DEF C
    <3>8. head = IF k = 1 THEN At(s, n, 2) ELSE head
      BY <2>4
    <3>9. TakenAt(k, s, n, S, head, chain, head, C)
      BY <3>7, <3>8 DEF TakenAt
    <3>10. ListOf(S \ {s[k]}, head, C)
      BY <3>9, RemovedAt
    <3> QED
      BY <3>5, <3>6, <3>10, <2>1
  <2> QED
    BY <2>3, <2>4
<1> QED
  BY <1>5, <1>6

LEMMA LinkedIs ==
  ASSUME NEW S \in SUBSET Alarm, NEW l, ListOf(S, l.h, l.c),
         l.c \in [Alarm -> Alarm \cup {NULL}], l.h \in Alarm \cup {NULL},
         NEW a \in Alarm, a \notin S
  PROVE  /\ ListOf(S \cup {a}, Linked(l, a).h, Linked(l, a).c)
         /\ Linked(l, a).h \in Alarm \cup {NULL}
         /\ Linked(l, a).c \in [Alarm -> Alarm \cup {NULL}]
<1>1. PICK n \in 0..Cardinality(Alarm) : \E s \in [1..n -> S] : IsList(s, n, S, l.h, l.c)
  BY DEF ListOf
<1>2. PICK s \in [1..n -> S] : IsList(s, n, S, l.h, l.c)
  BY <1>1
<1>3. n \in Nat /\ Cardinality(Alarm) \in Nat /\ n <= Cardinality(Alarm)
  BY AlarmsFinite
<1> DEFINE w == Walk(l.h, l.c)
<1> DEFINE D == 1..(Cardinality(Alarm) + 1)
<1>4. DOMAIN w = D /\ \A i \in D : w[i] = At(s, n, i)
  <2>1. IsList(s, n, S, l.h, l.c) /\ n \in Nat
    BY <1>2, <1>3
  <2>2. IsWalk(w, s, n)
    BY <2>1, WalkIs
  <2> QED
    BY <2>2 DEF IsWalk
<1> HIDE DEF w
<1> DEFINE Good(i) == w[i] = NULL \/ ~After((left[a] - left[w[i]]) % Clock)
<1> DEFINE Bad(i) == w[i] # NULL /\ After((left[a] - left[w[i]]) % Clock)
<1> DEFINE k == CHOOSE i \in DOMAIN w : Good(i) /\ \A j \in 1..(i - 1) : Bad(j)
<1>5. \E i \in DOMAIN w : Good(i) /\ \A j \in 1..(i - 1) : Bad(j)
  <2> DEFINE T == {i \in D : Good(i)}
  <2>1. Cardinality(Alarm) + 1 \in T
    <3>1. Cardinality(Alarm) + 1 \in D /\ Cardinality(Alarm) + 1 \notin 1..n
      BY <1>3
    <3> QED
      BY <3>1, <1>4 DEF At
  <2>2. T \in SUBSET Nat
    BY <1>3
  <2>3. PICK m \in T : \A j \in T : m <= j
    <3> HIDE DEF T
    <3> QED
      BY <2>1, <2>2, LeastNumber
  <2>4. m \in D /\ Good(m)
    OBVIOUS
  <2>5. ASSUME NEW j \in 1..(m - 1) PROVE Bad(j)
    <3>1. j \in D /\ ~(m <= j)
      BY <2>4, <1>3
    <3>2. j \notin T
      <4> HIDE DEF T
      <4> QED
        BY <3>1, <2>3
    <3> QED
      BY <3>1, <3>2
  <2> QED
    BY <2>4, <2>5, <1>4
<1>6. k \in D /\ Good(k) /\ \A j \in 1..(k - 1) : Bad(j)
  <2> HIDE DEF Good, Bad
  <2> QED
    BY <1>5, <1>4
<1>7. Linked(l, a) = IF k = 1 THEN [h |-> a, c |-> [l.c EXCEPT ![a] = l.h]]
                     ELSE [h |-> l.h, c |-> [l.c EXCEPT ![a] = w[k], ![w[k - 1]] = a]]
  BY DEF Linked, w
<1> HIDE DEF k
<1>8. k \in 1..(n + 1)
  <2> SUFFICES ASSUME k > n + 1 PROVE FALSE
    BY <1>3, <1>6
  <2>1. n + 1 \in 1..(k - 1) /\ n + 1 \in D /\ n + 1 \notin 1..n
    BY <1>3, <1>6
  <2>2. w[n + 1] # NULL
    BY <2>1, <1>6
  <2> QED
    BY <2>1, <2>2, <1>4 DEF At
<1>9. k \in Nat /\ w[k] = At(s, n, k) /\ At(s, n, k) \in Alarm \cup {NULL}
  BY <1>3, <1>4, <1>6 DEF At
<1>10. CASE k = 1
  <2> DEFINE C == [l.c EXCEPT ![a] = l.h]
  <2>1. Linked(l, a) = [h |-> a, c |-> C]
    BY <1>7, <1>10
  <2>2. C \in [Alarm -> Alarm \cup {NULL}]
    OBVIOUS
  <2>3. C[a] = l.h /\ \A x \in S : C[x] = l.c[x]
    OBVIOUS
  <2>4. l.h = At(s, n, k)
    BY <1>2, <1>10 DEF IsList
  <2> HIDE DEF C
  <2>5. \A x \in S : C[x] = IF k > 1 /\ x = s[k - 1] THEN a ELSE l.c[x]
    BY <2>3, <1>10
  <2>6. a = (IF k = 1 THEN a ELSE l.h) /\ C[a] = At(s, n, k)
    BY <2>3, <2>4, <1>10
  <2>7. IsList(s, n, S, l.h, l.c) /\ n \in Nat
    BY <1>2, <1>3
  <2>8. PutAt(k, a, s, n, S, l.h, l.c, a, C)
    BY <2>5, <2>6, <1>8 DEF PutAt
  <2>9. ListOf(S \cup {a}, a, C)
    BY <2>7, <2>8, InsertedAt
  <2> QED
    BY <2>1, <2>2, <2>9
<1>11. CASE k # 1
  <2> DEFINE C == [l.c EXCEPT ![a] = At(s, n, k), ![s[k - 1]] = a]
  <2>1. k - 1 \in 1..n /\ k - 1 \in D /\ k > 1
    BY <1>8, <1>11, <1>3
  <2>2. w[k - 1] = s[k - 1] /\ s[k - 1] \in S /\ s[k - 1] # a
    BY <2>1, <1>4 DEF At
  <2>3. Linked(l, a) = [h |-> l.h, c |-> C]
    BY <1>7, <1>9, <1>11, <2>2
  <2>4. C \in [Alarm -> Alarm \cup {NULL}]
    BY <1>9, <2>2
  <2>5. C[a] = At(s, n, k)
    BY <2>2
  <2>6. \A x \in S : C[x] = IF x = s[k - 1] THEN a ELSE l.c[x]
    BY <2>2
  <2> HIDE DEF C
  <2>7. \A x \in S : C[x] = IF k > 1 /\ x = s[k - 1] THEN a ELSE l.c[x]
    BY <2>6, <2>1
  <2>8. l.h = IF k = 1 THEN a ELSE l.h
    BY <1>11
  <2>9. IsList(s, n, S, l.h, l.c) /\ n \in Nat
    BY <1>2, <1>3
  <2>10. PutAt(k, a, s, n, S, l.h, l.c, l.h, C)
    BY <2>5, <2>7, <2>8, <1>8 DEF PutAt
  <2>11. ListOf(S \cup {a}, l.h, C)
    BY <2>9, <2>10, InsertedAt
  <2> QED
    BY <2>3, <2>4, <2>11
<1> QED
  BY <1>10, <1>11
-----------------------------------------------------------------------------
(* Differences of times.                                                   *)
LEMMA SmallRemainder ==
  ASSUME NEW d \in Int, NEW k \in Nat, k > 0, -k < d, d < k
  PROVE  d % k = IF d < 0 THEN d + k ELSE d
BY Z3

LEMMA ClockFacts ==
  /\ Clock \in Nat /\ Clock > 0 /\ MaxDelay \in Nat /\ MaxPass \in Nat /\ MaxLag \in Nat
  /\ MaxPass <= MaxLag /\ Clock \div 2 \in Nat
  /\ MaxDelay + MaxPass + MaxLag <= Clock \div 2
  /\ Clock - MaxLag > Clock \div 2
  /\ LongAgo = IF MaxLag = 0 THEN 0 ELSE Clock - MaxLag
<1>1. /\ Clock \in Nat /\ Clock > 0 /\ MaxDelay \in Nat /\ MaxPass \in Nat /\ MaxLag \in Nat
      /\ MaxPass <= MaxLag /\ Clock > 2 * (MaxDelay + MaxPass + MaxLag)
  BY AlarmsAssumption
<1>2. Clock \div 2 \in Nat /\ 2 * (Clock \div 2) \in {Clock - 1, Clock}
  BY <1>1
<1> DEFINE d == 0 - MaxLag
<1>3. d \in Int /\ -Clock < d /\ d < Clock /\ (d < 0 <=> MaxLag # 0)
  BY <1>1
<1> HIDE DEF d
<1>4. d % Clock = IF d < 0 THEN d + Clock ELSE d
  BY <1>1, <1>3, SmallRemainder
<1>5. LongAgo = d % Clock
  BY DEF LongAgo, d
<1> QED
  BY <1>1, <1>2, <1>3, <1>4, <1>5 DEF d

IsNear(d) == d \in 0..(Clock - 1) /\ (d <= MaxDelay \/ d >= Clock - MaxLag)

(* What is not After stays so; what is After comes one jiffy nearer.       *)
LEMMA LaterOf ==
  ASSUME NEW d, IsNear(d)
  PROVE  LET e == IF d = LongAgo THEN LongAgo ELSE (d - 1) % Clock
         IN  /\ IsNear(e)
             /\ ~After(d) => ~After(e)
             /\ After(d) => d \in 1..MaxDelay /\ e = d - 1 /\ (After(e) <=> d # 1)
<1>1. d # LongAgo => (d - 1) % Clock = IF d = 0 THEN Clock - 1 ELSE d - 1
  <2> SUFFICES ASSUME d # LongAgo
               PROVE  (d - 1) % Clock = IF d = 0 THEN Clock - 1 ELSE d - 1
    OBVIOUS
  <2> DEFINE c == d - 1
  <2>1. c \in Int /\ -Clock < c /\ c < Clock /\ (c < 0 <=> d = 0)
    BY ClockFacts DEF IsNear
  <2> HIDE DEF c
  <2>2. c % Clock = IF c < 0 THEN c + Clock ELSE c
    BY <2>1, ClockFacts, SmallRemainder
  <2> QED
    BY <2>1, <2>2, ClockFacts DEF c, IsNear
<1> DEFINE e == IF d = LongAgo THEN LongAgo ELSE (d - 1) % Clock
<1>2. e = IF d = LongAgo THEN LongAgo ELSE IF d = 0 THEN Clock - 1 ELSE d - 1
  BY <1>1
<1> HIDE DEF e
<1>3. IsNear(e)
  BY <1>2, ClockFacts DEF IsNear
<1>4. ~After(d) => ~After(e)
  BY <1>2, ClockFacts DEF IsNear, After
<1>5. After(d) => d \in 1..MaxDelay /\ e = d - 1 /\ (After(e) <=> d # 1)
  BY <1>2, ClockFacts DEF IsNear, After
<1> QED
  BY <1>3, <1>4, <1>5 DEF e

(* What has expired is due.                                                *)
LEMMA ExpiredIsDue ==
  ASSUME NEW d, IsNear(d), NEW e \in 0..MaxPass, ~After((d + e) % Clock)
  PROVE  ~After(d)
<1> SUFFICES ASSUME After(d) PROVE FALSE
  OBVIOUS
<1> DEFINE c == d + e
<1>1. d \in 1..MaxDelay
  BY ClockFacts DEF IsNear, After
<1>2. c \in Int /\ -Clock < c /\ c < Clock /\ ~(c < 0) /\ c \in 1..(Clock \div 2)
  BY <1>1, ClockFacts
<1> HIDE DEF c
<1>3. c % Clock = c
  BY <1>2, ClockFacts, SmallRemainder
<1> QED
  BY <1>2, <1>3 DEF After, c
-----------------------------------------------------------------------------
(* The invariant.                                                          *)
LEMMA TypeNear ==
  ASSUME TypeOK, Near, NEW a \in Alarm
  PROVE  IsNear(left[a])
BY DEF TypeOK, Near, IsNear

(* The list of the alarms that are set, as a sequence.                     *)
LEMMA ListedIs ==
  ASSUME Listed
  PROVE  \E n \in Nat : \E s : IsList(s, n, SetAlarms, head, chain)
BY AlarmsFinite DEF Listed, ListOf

(* The pass looks at an alarm that is set, and the cell before it takes    *)
(* its place in the list.                                                  *)
LEMMA DerefIs ==
  ASSUME TypeOK, Listed, cell # HEAD => status[cell] = "set", Deref(cell) # NULL
  PROVE  /\ Deref(cell) \in Alarm /\ status[Deref(cell)] = "set"
         /\ cell = HEAD =>
              ListOf(SetAlarms \ {Deref(cell)}, chain[Deref(cell)], chain)
         /\ cell # HEAD =>
              ListOf(SetAlarms \ {Deref(cell)}, head,
                     [chain EXCEPT ![cell] = chain[Deref(cell)]])
<1>1. PICK n \in Nat : \E s : IsList(s, n, SetAlarms, head, chain)
  BY ListedIs
<1>2. PICK s : IsList(s, n, SetAlarms, head, chain)
  BY <1>1
<1> DEFINE S == SetAlarms
<1> DEFINE a == Deref(cell)
<1>3. /\ s \in [1..n -> S] /\ \A i, j \in 1..n : s[i] = s[j] => i = j
      /\ \A x \in S : \E i \in 1..n : s[i] = x
      /\ head = At(s, n, 1) /\ \A i \in 1..n : chain[s[i]] = At(s, n, i + 1)
  BY <1>2 DEF IsList
<1>4. S \in SUBSET Alarm /\ chain \in [Alarm -> Alarm \cup {NULL}]
  BY DEF SetAlarms, TypeOK
<1>5. cell # HEAD => cell \in S
  BY DEF TypeOK, SetAlarms
<1>6. \E k \in 1..n : /\ s[k] = a
                      /\ cell = HEAD => k = 1
                      /\ cell # HEAD => k > 1 /\ s[k - 1] = cell
  <2>1. CASE cell = HEAD
    <3>1. a = At(s, n, 1) /\ a # NULL
      BY <2>1, <1>3 DEF Deref
    <3>2. 1 \in 1..n /\ s[1] = a
      BY <3>1 DEF At
    <3> QED
      BY <3>2, <2>1
  <2>2. CASE cell # HEAD
    <3>1. PICK i \in 1..n : s[i] = cell
      BY <2>2, <1>5, <1>3
    <3>2. a = At(s, n, i + 1) /\ a # NULL
      BY <2>2, <3>1, <1>3 DEF Deref
    <3>3. i + 1 \in 1..n /\ s[i + 1] = a /\ i + 1 > 1 /\ (i + 1) - 1 = i
      BY <3>2 DEF At
    <3> QED
      BY <3>1, <3>3, <2>2
  <2> QED
    BY <2>1, <2>2
<1>7. PICK k \in 1..n : /\ s[k] = a
                        /\ cell = HEAD => k = 1
                        /\ cell # HEAD => k > 1 /\ s[k - 1] = cell
  BY <1>6
<1>8. a \in S /\ a \in Alarm /\ status[a] = "set" /\ chain[a] = At(s, n, k + 1)
  BY <1>7, <1>3 DEF SetAlarms
<1>9. ASSUME cell = HEAD PROVE ListOf(S \ {a}, chain[a], chain)
  <2>1. TakenAt(k, s, n, S, head, chain, chain[a], chain)
    <3>1. k = 1
      BY <1>9, <1>7
    <3>2. chain[a] = At(s, n, 2)
      BY <3>1, <1>8
    <3> QED
      BY <3>1, <3>2 DEF TakenAt
  <2> HIDE DEF S, a
  <2> QED
    BY <2>1, <1>2, <1>4, <1>7, RemovedAt DEF S
<1>10. ASSUME cell # HEAD PROVE ListOf(S \ {a}, head, [chain EXCEPT ![cell] = chain[a]])
  <2> DEFINE C == [chain EXCEPT ![cell] = chain[a]]
  <2>1. k > 1 /\ s[k - 1] = cell /\ cell \in Alarm
    BY <1>10, <1>7, <1>5, <1>4
  <2>2. \A x \in S : C[x] = IF x = cell THEN chain[a] ELSE chain[x]
    BY <1>4
  <2> HIDE DEF C
  <2>3. TakenAt(k, s, n, S, head, chain, head, C)
    BY <2>1, <2>2, <1>8 DEF TakenAt
  <2>4. ListOf(S \ {s[k]}, head, C)
    <3> HIDE DEF S, a
    <3> QED
      BY <2>3, <1>2, <1>4, RemovedAt DEF S
  <2> QED
    BY <2>4, <1>7 DEF C
<1> QED
  BY <1>8, <1>9, <1>10

LEMMA InitInv == Init => IInv
<1> SUFFICES ASSUME Init PROVE IInv
  OBVIOUS
<1>1. TypeOK
  <2>1. left \in [Alarm -> 0..(Clock - 1)]
    BY ClockFacts DEF Init
  <2>2. since \in 0..MaxPass
    BY ClockFacts DEF Init
  <2>3. cpu \in Thread /\ cell \in Alarm \cup {HEAD} /\ flag \in BOOLEAN
    BY DEF Init, Thread
  <2>4. chain \in [Alarm -> Alarm \cup {NULL}] /\ due \in [Thread -> Alarm \cup {NULL}]
    BY DEF Init
  <2>5. status \in [Alarm -> {"idle", "set", "fired", "removed"}]
    BY DEF Init
  <2> QED
    BY <2>1, <2>2, <2>3, <2>4, <2>5 DEF Init, TypeOK
<1>2. Listed
  <2> DEFINE s == [i \in 1..0 |-> NULL]
  <2>1. SetAlarms = {}
    BY DEF Init, SetAlarms
  <2>2. IsList(s, 0, {}, head, chain)
    BY DEF Init, IsList, At
  <2>3. {} \in SUBSET Alarm /\ 0 \in Nat
    OBVIOUS
  <2> HIDE DEF s
  <2> QED
    BY <2>1, <2>2, <2>3, ListMade DEF Listed
<1>3. Near
  BY ClockFacts DEF Init, Near
<1> QED
  BY <1>1, <1>2, <1>3
  DEF Init, IInv, Standing, Storing, Calling, OnlyInCallbacks, Thread

(* The clients.                                                            *)
LEMMA SetTimeInv ==
  ASSUME IInv, NEW t \in Thread, NEW a \in Alarm, NEW d \in 0..MaxDelay, SetTime(t, a, d)
  PROVE  IInv'
<1>1. /\ cpu = t /\ (t = "kernel" => step = "call")
      /\ left' = [left EXCEPT ![a] = d] /\ due' = [due EXCEPT ![t] = a]
      /\ head' = head /\ chain' = chain /\ flag' = flag /\ cpu' = cpu /\ step' = step
      /\ cell' = cell /\ ap' = ap /\ next' = next /\ since' = since /\ status' = status
  BY DEF SetTime, InClient, list, pass
<1>2. TypeOK /\ Listed /\ Near /\ Standing /\ Storing /\ Calling /\ OnlyInCallbacks
  BY DEF IInv
<1>3. left \in [Alarm -> 0..(Clock - 1)] /\ due \in [Thread -> Alarm \cup {NULL}]
      /\ d \in 0..(Clock - 1)
  BY <1>2, ClockFacts DEF TypeOK
<1>4. /\ left' \in [Alarm -> 0..(Clock - 1)] /\ due' \in [Thread -> Alarm \cup {NULL}]
      /\ \A x \in Alarm : left'[x] = IF x = a THEN d ELSE left[x]
      /\ \A u \in Thread : due'[u] = IF u = t THEN a ELSE due[u]
  BY <1>1, <1>3
<1>5. TypeOK'
  BY <1>1, <1>2, <1>4 DEF TypeOK
<1>6. Listed'
  BY <1>1, <1>2 DEF Listed, SetAlarms
<1>7. Near'
  BY <1>2, <1>4 DEF Near
<1>8. Standing' /\ Calling'
  BY <1>1, <1>2 DEF Standing, Calling
<1>9. Storing'
  BY <1>1, <1>2 DEF Storing, Thread
<1>10. OnlyInCallbacks'
  BY <1>1, <1>2, <1>4 DEF OnlyInCallbacks, Thread
<1> QED
  BY <1>5, <1>6, <1>7, <1>8, <1>9, <1>10 DEF IInv

LEMMA RelinkInv ==
  ASSUME IInv, NEW t \in Thread, Relink(t)
  PROVE  IInv'
<1> DEFINE a == due[t]
<1> DEFINE l == Unlinked(a)
<1>1. /\ cpu = t /\ (t = "kernel" => step = "call") /\ a # NULL
      /\ head' = Linked(l, a).h /\ chain' = Linked(l, a).c
      /\ flag' = TRUE /\ due' = [due EXCEPT ![t] = NULL]
      /\ status' = [status EXCEPT ![a] = "set"]
      /\ left' = left /\ cpu' = cpu /\ step' = step
      /\ cell' = cell /\ ap' = ap /\ next' = next /\ since' = since
  BY DEF Relink, InClient, pass
<1>2. TypeOK /\ Listed /\ Near /\ Standing /\ Storing /\ Calling /\ OnlyInCallbacks
  BY DEF IInv
<1>3. a \in Alarm /\ head \in Alarm \cup {NULL} /\ chain \in [Alarm -> Alarm \cup {NULL}]
      /\ status \in [Alarm -> {"idle", "set", "fired", "removed"}]
      /\ due \in [Thread -> Alarm \cup {NULL}] /\ SetAlarms \in SUBSET Alarm
  BY <1>1, <1>2 DEF TypeOK, SetAlarms
<1>4. PICK n \in Nat : \E s : IsList(s, n, SetAlarms, head, chain)
  BY <1>2, ListedIs
<1>5. PICK s : IsList(s, n, SetAlarms, head, chain)
  BY <1>4
<1> HIDE DEF a
<1>6. /\ ListOf(SetAlarms \ {a}, l.h, l.c)
      /\ l.h \in Alarm \cup {NULL} /\ l.c \in [Alarm -> Alarm \cup {NULL}]
  BY <1>3, <1>5, UnlinkedIs
<1> HIDE DEF l
<1>7. SetAlarms \ {a} \in SUBSET Alarm /\ a \notin SetAlarms \ {a}
  BY <1>3
<1>8. /\ ListOf((SetAlarms \ {a}) \cup {a}, Linked(l, a).h, Linked(l, a).c)
      /\ Linked(l, a).h \in Alarm \cup {NULL}
      /\ Linked(l, a).c \in [Alarm -> Alarm \cup {NULL}]
  BY <1>3, <1>6, <1>7, LinkedIs
<1>9. /\ due' \in [Thread -> Alarm \cup {NULL}]
      /\ \A u \in Thread : due'[u] = IF u = t THEN NULL ELSE due[u]
      /\ status' \in [Alarm -> {"idle", "set", "fired", "removed"}]
      /\ \A x \in Alarm : status'[x] = IF x = a THEN "set" ELSE status[x]
  BY <1>1, <1>3
<1>10. TypeOK'
  BY <1>1, <1>2, <1>8, <1>9 DEF TypeOK
<1>11. Listed'
  <2>1. SetAlarms' = (SetAlarms \ {a}) \cup {a}
    BY <1>3, <1>9 DEF SetAlarms
  <2> QED
    BY <2>1, <1>1, <1>8 DEF Listed
<1>12. Near'
  BY <1>1, <1>2 DEF Near
<1>13. Standing'
  BY <1>1, <1>2, <1>9 DEF Standing, TypeOK
<1>14. Storing'
  BY <1>1, <1>2 DEF Storing, Thread
<1>15. Calling'
  BY <1>1, <1>2 DEF Calling
<1>16. OnlyInCallbacks'
  BY <1>1, <1>2, <1>9 DEF OnlyInCallbacks, Thread
<1> QED
  BY <1>10, <1>11, <1>12, <1>13, <1>14, <1>15, <1>16 DEF IInv

LEMMA RemoveInv ==
  ASSUME IInv, NEW t \in Thread, NEW a \in Alarm, alarmRemove(t, a)
  PROVE  IInv'
<1>1. /\ cpu = t /\ (t = "kernel" => step = "call")
      /\ head' = Unlinked(a).h /\ chain' = Unlinked(a).c
      /\ status' = [status EXCEPT ![a] = "removed"]
      /\ left' = left /\ flag' = flag /\ cpu' = cpu /\ step' = step /\ due' = due
      /\ cell' = cell /\ ap' = ap /\ next' = next /\ since' = since
  BY DEF alarmRemove, InClient, pass
<1>2. TypeOK /\ Listed /\ Near /\ Standing /\ Storing /\ Calling /\ OnlyInCallbacks
  BY DEF IInv
<1>3. head \in Alarm \cup {NULL} /\ chain \in [Alarm -> Alarm \cup {NULL}]
      /\ status \in [Alarm -> {"idle", "set", "fired", "removed"}]
      /\ SetAlarms \in SUBSET Alarm
  BY <1>2 DEF TypeOK, SetAlarms
<1>4. PICK n \in Nat : \E s : IsList(s, n, SetAlarms, head, chain)
  BY <1>2, ListedIs
<1>5. PICK s : IsList(s, n, SetAlarms, head, chain)
  BY <1>4
<1>6. /\ ListOf(SetAlarms \ {a}, Unlinked(a).h, Unlinked(a).c)
      /\ Unlinked(a).h \in Alarm \cup {NULL}
      /\ Unlinked(a).c \in [Alarm -> Alarm \cup {NULL}]
  BY <1>3, <1>5, UnlinkedIs
<1>7. /\ status' \in [Alarm -> {"idle", "set", "fired", "removed"}]
      /\ \A x \in Alarm : status'[x] = IF x = a THEN "removed" ELSE status[x]
  BY <1>1, <1>3
<1>8. TypeOK'
  BY <1>1, <1>2, <1>6, <1>7 DEF TypeOK
<1>9. Listed'
  <2>1. SetAlarms' = SetAlarms \ {a}
    BY <1>7 DEF SetAlarms
  <2> QED
    BY <2>1, <1>1, <1>6 DEF Listed
<1>10. Near'
  BY <1>1, <1>2 DEF Near
<1>11. Standing'
  <2>1. t = "user" \/ step = "call"
    BY <1>1 DEF Thread
  <2> QED
    BY <2>1, <1>1, <1>2 DEF Standing
<1>12. Storing'
  BY <1>1, <1>2 DEF Storing, Thread
<1>13. Calling'
  BY <1>1, <1>2, <1>7 DEF Calling, TypeOK
<1>14. OnlyInCallbacks'
  BY <1>1, <1>2 DEF OnlyInCallbacks
<1> QED
  BY <1>8, <1>9, <1>10, <1>11, <1>12, <1>13, <1>14 DEF IInv

(* The pass.                                                               *)
LEMMA BeginPassInv == ASSUME IInv, BeginPass PROVE IInv'
<1>1. /\ cpu = "kernel" /\ step = "idle"
      /\ flag' = FALSE /\ since' = 0 /\ cell' = HEAD /\ step' = "check"
      /\ head' = head /\ chain' = chain /\ left' = left /\ cpu' = cpu /\ ap' = ap
      /\ next' = next /\ due' = due /\ status' = status
  BY DEF BeginPass, list
<1>2. TypeOK /\ Listed /\ Near /\ OnlyInCallbacks
  BY DEF IInv
<1>3. TypeOK'
  <2>1. since' \in 0..MaxPass
    BY <1>1, ClockFacts
  <2> QED
    BY <2>1, <1>1, <1>2 DEF TypeOK
<1>4. Listed' /\ Near'
  BY <1>1, <1>2 DEF Listed, SetAlarms, Near
<1> QED
  BY <1>1, <1>2, <1>3, <1>4 DEF IInv, Standing, Storing, Calling, OnlyInCallbacks

LEMMA EndPassInv == ASSUME IInv, EndPass PROVE IInv'
<1>1. /\ step = "check"
      /\ step' = "idle" /\ cell' = HEAD /\ ap' = NULL /\ next' = NULL /\ since' = 0
      /\ head' = head /\ chain' = chain /\ left' = left /\ flag' = flag /\ cpu' = cpu
      /\ due' = due /\ status' = status
  BY DEF EndPass, Kernel, list
<1>2. TypeOK /\ Listed /\ Near /\ OnlyInCallbacks
  BY DEF IInv
<1>3. TypeOK'
  <2>1. since' \in 0..MaxPass
    BY <1>1, ClockFacts
  <2> QED
    BY <2>1, <1>1, <1>2 DEF TypeOK
<1>4. Listed' /\ Near'
  BY <1>1, <1>2 DEF Listed, SetAlarms, Near
<1> QED
  BY <1>1, <1>2, <1>3, <1>4 DEF IInv, Standing, Storing, Calling, OnlyInCallbacks

LEMMA ExpireInv == ASSUME IInv, Expire PROVE IInv'
<1>1. /\ cpu = "kernel" /\ step = "check" /\ Expired(cell)
      /\ ap' = Deref(cell) /\ next' = chain[ap'] /\ step' = "store"
      /\ head' = head /\ chain' = chain /\ left' = left /\ flag' = flag /\ cpu' = cpu
      /\ cell' = cell /\ since' = since /\ due' = due /\ status' = status
  BY DEF Expire, Kernel, list
<1>2. TypeOK /\ Listed /\ Near /\ Standing /\ OnlyInCallbacks
  BY DEF IInv
<1>3. Deref(cell) # NULL /\ ~After((left[Deref(cell)] + since) % Clock)
  BY <1>1 DEF Expired
<1>4. Deref(cell) \in Alarm
  BY <1>1, <1>2, <1>3, DerefIs DEF Standing
<1>5. ~After(left[Deref(cell)])
  <2>1. IsNear(left[Deref(cell)])
    BY <1>2, <1>4, TypeNear
  <2>2. since \in 0..MaxPass
    BY <1>2 DEF TypeOK
  <2> QED
    BY <2>1, <2>2, <1>3, ExpiredIsDue
<1>6. TypeOK'
  BY <1>1, <1>2, <1>4 DEF TypeOK
<1>7. Listed' /\ Near'
  BY <1>1, <1>2 DEF Listed, SetAlarms, Near
<1>8. Deref(cell)' = Deref(cell)
  BY <1>1 DEF Deref
<1>9. Storing'
  BY <1>1, <1>3, <1>5, <1>8 DEF Storing
<1> QED
  BY <1>1, <1>2, <1>6, <1>7, <1>9 DEF IInv, Standing, Calling, OnlyInCallbacks

LEMMA UnlinkInv == ASSUME IInv, Unlink PROVE IInv'
<1>1. /\ cpu = "kernel" /\ step = "store"
      /\ cell = HEAD => head' = next /\ chain' = chain
      /\ cell # HEAD => head' = head /\ chain' = [chain EXCEPT ![cell] = next]
      /\ step' = "call" /\ status' = [status EXCEPT ![ap] = "fired"]
      /\ left' = left /\ flag' = flag /\ cpu' = cpu /\ cell' = cell /\ ap' = ap
      /\ next' = next /\ since' = since /\ due' = due
  BY DEF Unlink, Kernel
<1>2. TypeOK /\ Listed /\ Near /\ Standing /\ Storing /\ OnlyInCallbacks
  BY DEF IInv
<1>3. ap # NULL /\ ap = Deref(cell) /\ next = chain[ap]
  BY <1>1, <1>2 DEF Storing
<1>4. /\ ap \in Alarm /\ status[ap] = "set"
      /\ cell = HEAD => ListOf(SetAlarms \ {ap}, next, chain)
      /\ cell # HEAD => ListOf(SetAlarms \ {ap}, head, [chain EXCEPT ![cell] = next])
  BY <1>1, <1>2, <1>3, DerefIs DEF Standing
<1>5. /\ head \in Alarm \cup {NULL} /\ chain \in [Alarm -> Alarm \cup {NULL}]
      /\ next \in Alarm \cup {NULL}
      /\ status \in [Alarm -> {"idle", "set", "fired", "removed"}]
  BY <1>2 DEF TypeOK
<1>6. /\ status' \in [Alarm -> {"idle", "set", "fired", "removed"}]
      /\ \A x \in Alarm : status'[x] = IF x = ap THEN "fired" ELSE status[x]
  BY <1>1, <1>4, <1>5
<1>7. head' \in Alarm \cup {NULL} /\ chain' \in [Alarm -> Alarm \cup {NULL}]
  BY <1>1, <1>5
<1>8. TypeOK'
  BY <1>1, <1>2, <1>6, <1>7 DEF TypeOK
<1>9. Listed'
  <2>1. SetAlarms' = SetAlarms \ {ap}
    BY <1>6 DEF SetAlarms
  <2> QED
    BY <2>1, <1>1, <1>4 DEF Listed
<1>10. Near'
  BY <1>1, <1>2 DEF Near
<1>11. Calling'
  BY <1>1, <1>3, <1>4, <1>6 DEF Calling
<1> QED
  BY <1>1, <1>2, <1>8, <1>9, <1>10, <1>11 DEF IInv, Standing, Storing, OnlyInCallbacks

LEMMA ReturnInv == ASSUME Periodic, IInv, Return PROVE IInv'
<1>1. /\ cpu = "kernel" /\ step = "call" /\ due["kernel"] = NULL /\ status[ap] = "set"
      /\ cell' = ap /\ step' = "check"
      /\ head' = head /\ chain' = chain /\ left' = left /\ flag' = flag /\ cpu' = cpu
      /\ ap' = ap /\ next' = next /\ since' = since /\ due' = due /\ status' = status
  BY DEF Return, Kernel, Periodic, list
<1>2. TypeOK /\ Listed /\ Near /\ Calling
  BY DEF IInv
<1>3. ap # NULL /\ flag
  BY <1>1, <1>2 DEF Calling
<1>4. TypeOK'
  BY <1>1, <1>2, <1>3 DEF TypeOK
<1>5. Listed' /\ Near'
  BY <1>1, <1>2 DEF Listed, SetAlarms, Near
<1> QED
  BY <1>1, <1>2, <1>3, <1>4, <1>5
  DEF IInv, Standing, Storing, Calling, OnlyInCallbacks

(* The environment.                                                        *)
LEMMA TickInv ==
  ASSUME IInv, NEW wrap \in BOOLEAN, Tick(wrap)
  PROVE  IInv'
<1>1. /\ step # "idle" => since < MaxPass
      /\ left' = Later /\ since' = IF step = "idle" THEN 0 ELSE since + 1
      /\ flag' = scheduleProcessAlarms
      /\ cpu' = IF flag' THEN "kernel"
                ELSE IF wrap /\ cpu = "kernel" THEN "user"
                ELSE IF wrap /\ step # "idle" THEN "kernel" ELSE cpu
      /\ head' = head /\ chain' = chain /\ step' = step /\ cell' = cell /\ ap' = ap
      /\ next' = next /\ due' = due /\ status' = status
  BY DEF Tick, list, pass
<1>2. TypeOK /\ Listed /\ Near /\ Standing /\ Storing /\ Calling /\ OnlyInCallbacks
  BY DEF IInv
<1>3. \A a \in Alarm : IsNear(left'[a]) /\ (~After(left[a]) => ~After(left'[a]))
  <2> TAKE a \in Alarm
  <2>1. left'[a] = IF left[a] = LongAgo THEN LongAgo ELSE (left[a] - 1) % Clock
    BY <1>1 DEF Later
  <2>2. IsNear(left[a])
    BY <1>2, TypeNear
  <2> QED
    BY <2>1, <2>2, LaterOf
<1>4. left' \in [Alarm -> 0..(Clock - 1)]
  <2>1. \A a \in Alarm : Later[a] \in 0..(Clock - 1)
    BY <1>1, <1>3 DEF IsNear
  <2>2. Later = [a \in Alarm |-> Later[a]]
    BY DEF Later
  <2> HIDE DEF Later
  <2> QED
    BY <2>1, <2>2, <1>1
<1>5. TypeOK'
  <2>1. since' \in 0..MaxPass
    BY <1>1, <1>2, ClockFacts DEF TypeOK
  <2>2. flag' \in BOOLEAN
    BY <1>1, <1>2 DEF scheduleProcessAlarms, TypeOK
  <2>3. cpu' \in Thread
    BY <1>1, <1>2 DEF Thread, TypeOK
  <2> QED
    BY <2>1, <2>2, <2>3, <1>1, <1>2, <1>4 DEF TypeOK
<1>6. Listed'
  BY <1>1, <1>2 DEF Listed, SetAlarms
<1>7. Near'
  BY <1>3 DEF Near, IsNear
<1>8. flag => flag' /\ cpu' = "kernel"
  BY <1>1 DEF scheduleProcessAlarms
<1>9. Standing'
  BY <1>1, <1>2, <1>8 DEF Standing
<1>10. Storing'
  <2> SUFFICES ASSUME step = "store" PROVE Storing'
    BY <1>1 DEF Storing
  <2>1. cpu = "kernel" /\ ap # NULL /\ ap = Deref(cell) /\ next = chain[ap] /\ ~After(left[ap])
    BY <1>2 DEF Storing
  <2>2. ap \in Alarm
    BY <1>2, <2>1 DEF TypeOK
  <2>3. ~After(left'[ap])
    BY <1>3, <2>1, <2>2
  <2>4. cpu' = "kernel"
    <3>1. CASE cell = HEAD
      <4>1. head = ap
        BY <2>1, <3>1 DEF Deref
      <4>2. flag'
        BY <4>1, <2>1, <2>3, <1>1 DEF scheduleProcessAlarms
      <4> QED
        BY <4>2, <1>1
    <3>2. CASE cell # HEAD
      BY <3>2, <1>2, <1>8 DEF Standing
    <3> QED
      BY <3>1, <3>2
  <2>5. Deref(cell)' = Deref(cell)
    BY <1>1 DEF Deref
  <2> QED
    BY <2>1, <2>3, <2>4, <2>5, <1>1 DEF Storing
<1>11. Calling' /\ OnlyInCallbacks'
  BY <1>1, <1>2, <1>8 DEF Calling, OnlyInCallbacks
<1> QED
  BY <1>5, <1>6, <1>7, <1>9, <1>10, <1>11 DEF IInv

LEMMA GiveUpInv ==
  ASSUME IInv, NEW t \in Thread, GiveUp(t)
  PROVE  IInv'
<1>1. /\ cpu = t /\ (t = "kernel" => step \in {"idle", "call"})
      /\ cpu' = CHOOSE u \in Thread : u # t
      /\ head' = head /\ chain' = chain /\ left' = left /\ flag' = flag /\ step' = step
      /\ cell' = cell /\ ap' = ap /\ next' = next /\ since' = since /\ due' = due
      /\ status' = status
  BY DEF GiveUp, list, pass
<1>2. TypeOK /\ Listed /\ Near /\ Standing /\ Storing /\ Calling /\ OnlyInCallbacks
  BY DEF IInv
<1>3. cpu' \in Thread
  <2>1. \E u \in Thread : u # t
    BY DEF Thread
  <2> QED
    BY <2>1, <1>1
<1>4. TypeOK'
  BY <1>1, <1>2, <1>3 DEF TypeOK
<1>5. Listed' /\ Near' /\ Calling' /\ OnlyInCallbacks'
  BY <1>1, <1>2 DEF Listed, SetAlarms, Near, Calling, OnlyInCallbacks
<1>6. Standing' /\ Storing'
  BY <1>1, <1>2 DEF Standing, Storing, Thread
<1> QED
  BY <1>4, <1>5, <1>6 DEF IInv

LEMMA StepInv == ASSUME Periodic, IInv, [Next]_vars PROVE IInv'
<1>1. ASSUME NEW t \in Thread, ClientStep(t) PROVE IInv'
  BY <1>1, SetTimeInv, RelinkInv, RemoveInv DEF ClientStep
<1>2. ASSUME NEW t \in Thread, GiveUp(t) PROVE IInv'
  BY <1>2, GiveUpInv
<1>3. ASSUME Pass PROVE IInv'
  BY <1>3, BeginPassInv, EndPassInv, ExpireInv, UnlinkInv, ReturnInv DEF Pass
<1>4. ASSUME NEW wrap \in BOOLEAN, Tick(wrap) PROVE IInv'
  BY <1>4, TickInv
<1>5. ASSUME UNCHANGED vars PROVE IInv'
  <2>1. /\ head' = head /\ chain' = chain /\ left' = left /\ flag' = flag /\ step' = step
        /\ cell' = cell /\ ap' = ap /\ next' = next /\ since' = since /\ due' = due
        /\ status' = status /\ cpu' = cpu
    BY <1>5 DEF vars, list, pass
  <2> QED
    BY <2>1 DEF IInv, TypeOK, Listed, SetAlarms, Near, Standing, Storing, Calling,
                OnlyInCallbacks, Deref
<1> QED
  BY <1>1, <1>2, <1>3, <1>4, <1>5 DEF Next

THEOREM Invariant == ASSUME Periodic PROVE Spec => []IInv
<1>1. Init => IInv
  BY InitInv
<1>2. IInv /\ [Next]_vars => IInv'
  BY StepInv
<1> QED
  BY <1>1, <1>2, PTL DEF Spec

(* Every variable keeps its type: while the list is what the links make of *)
(* it, no search on it fails.                                              *)
THEOREM TypeCorrect == ASSUME Periodic PROVE Spec => []TypeOK
<1>1. IInv => TypeOK
  BY DEF IInv
<1> QED
  BY <1>1, Invariant, PTL

(* The list stays a list, with every alarm on it that is set, although the *)
(* kernel thread walks and changes it without a lock and with interrupts   *)
(* enabled.                                                                *)
THEOREM ListStaysSound == ASSUME Periodic PROVE Spec => []ListSound
<1>1. IInv => ListSound
  <2> SUFFICES ASSUME IInv PROVE ListSound
    OBVIOUS
  <2>1. PICK n \in Nat : \E s : IsList(s, n, SetAlarms, head, chain)
    BY ListedIs DEF IInv
  <2>2. PICK s : IsList(s, n, SetAlarms, head, chain)
    BY <2>1
  <2>3. SetAlarms \in SUBSET Alarm
    BY DEF SetAlarms
  <2>4. OnList(head, chain) = SetAlarms /\ Walk(head, chain)[Cardinality(Alarm) + 1] = NULL
    BY <2>2, <2>3, OnListIs
  <2> QED
    BY <2>4 DEF ListSound, SetAlarms
<1> QED
  BY <1>1, Invariant, PTL
-----------------------------------------------------------------------------
(* The refinement: what the clients see of the alarms.                     *)
SeenWait == [a \in Alarm |-> IF status[a] = "set" /\ After(left[a]) THEN left[a] ELSE 0]
SeenCalling == IF step = "call" THEN ap ELSE NULL

LEMMA SeenUntouched ==
  ASSUME SetAlarms' = SetAlarms, SeenWait' = SeenWait, SeenCalling' = SeenCalling
  PROVE  UNCHANGED Promise!vars
BY DEF Promise!vars, SetAlarms, SeenWait, SeenCalling

(* A step that changes the status or the time of one alarm only.           *)
LEMMA SeenWaitOf ==
  ASSUME TypeOK, NEW a \in Alarm, NEW w,
         \A x \in Alarm : x # a => status'[x] = status[x] /\ left'[x] = left[x],
         w = IF status'[a] = "set" /\ After(left'[a]) THEN left'[a] ELSE 0
  PROVE  SeenWait' = [SeenWait EXCEPT ![a] = w]
<1> DEFINE F == [SeenWait EXCEPT ![a] = w]
<1>1. \A x \in Alarm :
        SeenWait'[x] = IF status'[x] = "set" /\ After(left'[x]) THEN left'[x] ELSE 0
  BY DEF SeenWait, After
<1>2. \A x \in Alarm :
        SeenWait[x] = IF status[x] = "set" /\ After(left[x]) THEN left[x] ELSE 0
  BY DEF SeenWait
<1>3. DOMAIN SeenWait = Alarm /\ DOMAIN SeenWait' = Alarm
      /\ SeenWait' = [x \in Alarm |-> SeenWait'[x]] /\ SeenWait = [x \in Alarm |-> SeenWait[x]]
  BY DEF SeenWait
<1> HIDE DEF SeenWait
<1>4. \A x \in Alarm : F[x] = IF x = a THEN w ELSE SeenWait[x]
  BY <1>3
<1>5. \A x \in Alarm : SeenWait'[x] = F[x]
  BY <1>1, <1>2, <1>4
<1>6. F = [x \in Alarm |-> F[x]]
  BY <1>3
<1> QED
  BY <1>3, <1>5, <1>6

LEMMA SetTimeSeen ==
  ASSUME TypeOK, NEW t \in Thread, NEW a \in Alarm, NEW d \in 0..MaxDelay, SetTime(t, a, d)
  PROVE  Promise!Set(a) \/ UNCHANGED Promise!vars
<1>1. /\ left' = [left EXCEPT ![a] = d] /\ status' = status /\ step' = step /\ ap' = ap
  BY DEF SetTime, pass
<1>2. \A x \in Alarm : left'[x] = IF x = a THEN d ELSE left[x]
  BY <1>1 DEF TypeOK
<1>3. SeenCalling' = SeenCalling /\ SetAlarms' = SetAlarms
  BY <1>1 DEF SeenCalling, SetAlarms
<1>4. CASE status[a] = "set"
  <2>1. d = IF status'[a] = "set" /\ After(left'[a]) THEN left'[a] ELSE 0
    BY <1>1, <1>2, <1>4, ClockFacts DEF After
  <2>2. SeenWait' = [SeenWait EXCEPT ![a] = d]
    BY <2>1, <1>1, <1>2, SeenWaitOf
  <2>3. SetAlarms' = SetAlarms \cup {a}
    BY <1>3, <1>4 DEF SetAlarms
  <2> QED
    BY <2>2, <2>3, <1>3 DEF Promise!Set, SetAlarms, SeenWait, SeenCalling
<1>5. CASE status[a] # "set"
  <2>1. SeenWait' = SeenWait
    BY <1>1, <1>2, <1>5 DEF SeenWait
  <2> QED
    BY <2>1, <1>3, SeenUntouched
<1> QED
  BY <1>4, <1>5

LEMMA RelinkSeen ==
  ASSUME TypeOK, Near, NEW t \in Thread, Relink(t)
  PROVE  \E a \in Alarm : Promise!Set(a)
<1>1. due[t] \in Alarm
  BY DEF Relink, TypeOK
<1>2. PICK a \in Alarm : a = due[t]
  BY <1>1
<1>3. /\ status' = [status EXCEPT ![a] = "set"]
      /\ left' = left /\ step' = step /\ ap' = ap
  BY <1>2 DEF Relink, pass
<1>4. \A x \in Alarm : status'[x] = IF x = a THEN "set" ELSE status[x]
  BY <1>3 DEF TypeOK
<1>5. SeenCalling' = SeenCalling /\ SetAlarms' = SetAlarms \cup {a}
  BY <1>3, <1>4 DEF SeenCalling, SetAlarms
<1> DEFINE w == IF status'[a] = "set" /\ After(left'[a]) THEN left'[a] ELSE 0
<1>6. w \in 0..MaxDelay
  <2>1. IsNear(left[a])
    BY TypeNear
  <2> QED
    BY <2>1, <1>3, ClockFacts DEF IsNear, After
<1>7. SeenWait' = [SeenWait EXCEPT ![a] = w]
  BY <1>3, <1>4, SeenWaitOf
<1> HIDE DEF w
<1>8. Promise!Set(a)
  BY <1>5, <1>6, <1>7 DEF Promise!Set, SetAlarms, SeenWait, SeenCalling
<1> QED
  BY <1>8

LEMMA RemoveSeen ==
  ASSUME TypeOK, NEW t \in Thread, NEW a \in Alarm, alarmRemove(t, a)
  PROVE  Promise!Cancel(a)
<1>1. /\ status' = [status EXCEPT ![a] = "removed"]
      /\ left' = left /\ step' = step /\ ap' = ap
  BY DEF alarmRemove, pass
<1>2. \A x \in Alarm : status'[x] = IF x = a THEN "removed" ELSE status[x]
  BY <1>1 DEF TypeOK
<1>3. SeenCalling' = SeenCalling /\ SetAlarms' = SetAlarms \ {a}
  BY <1>1, <1>2 DEF SeenCalling, SetAlarms
<1>4. SeenWait' = [SeenWait EXCEPT ![a] = 0]
  <2>1. 0 = IF status'[a] = "set" /\ After(left'[a]) THEN left'[a] ELSE 0
    BY <1>2
  <2> QED
    BY <2>1, <1>1, <1>2, SeenWaitOf
<1> QED
  BY <1>3, <1>4 DEF Promise!Cancel, SetAlarms, SeenWait, SeenCalling

(* A callback is called only for an alarm that is set and due.             *)
LEMMA UnlinkSeen ==
  ASSUME IInv, Unlink
  PROVE  \E a \in Alarm : Promise!Fire(a)
<1>1. /\ step = "store" /\ step' = "call" /\ status' = [status EXCEPT ![ap] = "fired"]
      /\ left' = left /\ ap' = ap
  BY DEF Unlink, Kernel
<1>2. ap # NULL /\ ap = Deref(cell) /\ ~After(left[ap])
  BY <1>1 DEF IInv, Storing
<1>3. ap \in Alarm /\ status[ap] = "set"
  BY <1>1, <1>2, DerefIs DEF IInv, Standing
<1>4. \A x \in Alarm : status'[x] = IF x = ap THEN "fired" ELSE status[x]
  BY <1>1, <1>3 DEF IInv, TypeOK
<1>5. ap \in SetAlarms /\ SetAlarms' = SetAlarms \ {ap}
  BY <1>3, <1>4 DEF SetAlarms
<1>6. SeenCalling = NULL /\ SeenCalling' = ap
  BY <1>1 DEF SeenCalling
<1>7. SeenWait[ap] = 0
  BY <1>2, <1>3 DEF SeenWait
<1>8. SeenWait' = SeenWait
  BY <1>1, <1>2, <1>4 DEF SeenWait
<1>9. PICK a \in Alarm : a = ap
  BY <1>3
<1>10. Promise!Fire(a)
  BY <1>5, <1>6, <1>7, <1>8, <1>9 DEF Promise!Fire, SetAlarms, SeenWait, SeenCalling
<1> QED
  BY <1>10

LEMMA ReturnSeen == ASSUME Return PROVE Promise!CallbackEnds
<1>1. status' = status /\ left' = left /\ step' = "check"
  BY DEF Return
<1>2. SeenCalling' = NULL /\ SeenWait' = SeenWait /\ SetAlarms' = SetAlarms
  BY <1>1 DEF SeenCalling, SeenWait, SetAlarms
<1> QED
  BY <1>2 DEF Promise!CallbackEnds, SetAlarms, SeenWait, SeenCalling

LEMMA TickSeen ==
  ASSUME TypeOK, Near, NEW wrap \in BOOLEAN, Tick(wrap)
  PROVE  Promise!Jiffy
<1>1. left' = Later /\ status' = status /\ step' = step /\ ap' = ap
  BY DEF Tick, pass
<1>2. SeenCalling' = SeenCalling /\ SetAlarms' = SetAlarms
  BY <1>1 DEF SeenCalling, SetAlarms
<1> DEFINE J == [a \in Alarm |-> IF SeenWait[a] = 0 THEN 0 ELSE SeenWait[a] - 1]
<1>3. ASSUME NEW a \in Alarm PROVE SeenWait'[a] = J[a]
  <2>1. left'[a] = IF left[a] = LongAgo THEN LongAgo ELSE (left[a] - 1) % Clock
    BY <1>1 DEF Later
  <2>2. IsNear(left[a])
    BY TypeNear
  <2>3. /\ ~After(left[a]) => ~After(left'[a])
        /\ After(left[a]) => /\ left[a] \in 1..MaxDelay /\ left'[a] = left[a] - 1
                             /\ After(left'[a]) <=> left[a] # 1
    BY <2>1, <2>2, LaterOf
  <2>4. SeenWait[a] = IF status[a] = "set" /\ After(left[a]) THEN left[a] ELSE 0
    BY DEF SeenWait
  <2>5. SeenWait'[a] = IF status[a] = "set" /\ After(left'[a]) THEN left'[a] ELSE 0
    BY <1>1 DEF SeenWait, After
  <2>6. J[a] = IF SeenWait[a] = 0 THEN 0 ELSE SeenWait[a] - 1
    OBVIOUS
  <2> HIDE DEF J
  <2> QED
    BY <2>3, <2>4, <2>5, <2>6, ClockFacts
<1>4. SeenWait' = [a \in Alarm |-> SeenWait'[a]]
  BY DEF SeenWait
<1>5. SeenWait' = J
  BY <1>3, <1>4
<1> QED
  BY <1>2, <1>5 DEF Promise!Jiffy, SetAlarms, SeenWait, SeenCalling

LEMMA StepSeen == IInv /\ [Next]_vars => [Promise!Next]_(Promise!vars)
<1> SUFFICES ASSUME IInv, [Next]_vars
             PROVE  Promise!Next \/ UNCHANGED Promise!vars
  OBVIOUS
<1>1. ASSUME NEW t \in Thread, ClientStep(t)
      PROVE  Promise!Next \/ UNCHANGED Promise!vars
  BY <1>1, SetTimeSeen, RelinkSeen, RemoveSeen DEF ClientStep, IInv, Promise!Next
<1>2. ASSUME NEW t \in Thread, GiveUp(t) PROVE UNCHANGED Promise!vars
  BY <1>2, SeenUntouched DEF GiveUp, pass, SetAlarms, SeenWait, SeenCalling
<1>3. CASE BeginPass
  BY <1>3, SeenUntouched DEF BeginPass, SetAlarms, SeenWait, SeenCalling
<1>4. CASE EndPass
  BY <1>4, SeenUntouched DEF EndPass, Kernel, SetAlarms, SeenWait, SeenCalling
<1>5. CASE Expire
  BY <1>5, SeenUntouched DEF Expire, Kernel, SetAlarms, SeenWait, SeenCalling
<1>6. CASE Unlink
  BY <1>6, UnlinkSeen DEF Promise!Next
<1>7. CASE Return
  BY <1>7, ReturnSeen DEF Promise!Next
<1>8. ASSUME NEW wrap \in BOOLEAN, Tick(wrap) PROVE Promise!Next
  BY <1>8, TickSeen DEF IInv, Promise!Next
<1>9. CASE UNCHANGED vars
  BY <1>9, SeenUntouched DEF vars, pass, SetAlarms, SeenWait, SeenCalling
<1> QED
  BY <1>1, <1>2, <1>3, <1>4, <1>5, <1>6, <1>7, <1>8, <1>9 DEF Next, Pass

(* Towards their clients the alarms are those of module AlarmSpec: each    *)
(* setting fires at most once, not before its time, and not after it was   *)
(* removed or replaced.                                                    *)
THEOREM AlarmsKeepTheirPromise == ASSUME Periodic PROVE Spec => ImplementsAlarmSpec
<1>1. Init => Promise!Init
  BY DEF Init, Promise!Init, After
<1> QED
  BY <1>1, StepSeen, Invariant, PTL DEF Spec, ImplementsAlarmSpec, Promise!Spec
=============================================================================
