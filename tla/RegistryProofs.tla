--------------------------- MODULE RegistryProofs ---------------------------
(*****************************************************************************)
(* What holds of a CipClass whatever instances, services and attributes it  *)
(* is given: its vectors stay sorted with one member of an id, an id names  *)
(* what was inserted last under it (Registry implements ObjectModel), no two *)
(* attributes alias, the two searches find what cipclass.h says, and every  *)
(* request gets the answer that the object model calls for.                 *)
(* No induction over data takes an operator here: a set of numbers that has *)
(* 0 and the successor of each of its members is Nat (SetInduction).        *)
(*****************************************************************************)
EXTENDS Registry, FiniteSetTheorems, SequenceTheorems, WellFoundedInduction, TLAPS

\* A vector is sorted, with one member of an id.
Sorted(s) == \A i, j \in DOMAIN s : i < j => s[i].id < s[j].id

-----------------------------------------------------------------------------
\* Numbers

LEMMA SetInduction ==
    ASSUME NEW S \in SUBSET Nat, 0 \in S, \A n \in S : n + 1 \in S
    PROVE  S = Nat
<1> SUFFICES ASSUME NEW m \in Nat, m \notin S
             PROVE  FALSE
  OBVIOUS
<1>1. IsWellFoundedOn(OpToRel(<, Nat), Nat)
  BY NatLessThanWellFounded
<1>2. Nat \ S # {} /\ Nat \ S \subseteq Nat
  OBVIOUS
<1>3. PICK n \in Nat \ S : \A y \in Nat \ S : ~(<<y, n>> \in OpToRel(<, Nat))
  BY <1>1, <1>2, WFMin
<1>4. n # 0
  OBVIOUS
<1>5. n - 1 \in Nat /\ n - 1 < n /\ (n - 1) + 1 = n
  BY <1>4
<1>6. n - 1 \notin S
  BY <1>5
<1> QED
  BY <1>3, <1>5, <1>6 DEF OpToRel

LEMMA LeastOf ==
    ASSUME NEW T \in SUBSET Nat, NEW m \in T
    PROVE  \E n \in T : \A k \in T : n <= k
<1>1. IsWellFoundedOn(OpToRel(<, Nat), Nat)
  BY NatLessThanWellFounded
<1>2. PICK n \in T : \A y \in T : ~(<<y, n>> \in OpToRel(<, Nat))
  BY <1>1, WFMin
<1>3. \A y \in T : ~(y < n)
  BY <1>2 DEF OpToRel
<1> QED
  BY <1>3

-----------------------------------------------------------------------------
\* The parts that an insertion or a removal puts together

LEMMA HeadOf ==
    ASSUME NEW S, NEW s \in Seq(S), NEW p \in 1 .. Len(s) + 1
    PROVE  /\ SubSeq(s, 1, p - 1) \in Seq(S) /\ Len(SubSeq(s, 1, p - 1)) = p - 1
           /\ \A i \in 1 .. p - 1 : SubSeq(s, 1, p - 1)[i] = s[i]
OBVIOUS

LEMMA TailOf ==
    ASSUME NEW S, NEW s \in Seq(S), NEW q \in 1 .. Len(s) + 1
    PROVE  LET r == SubSeq(s, q, Len(s))
           IN  /\ r \in Seq(S) /\ Len(r) = Len(s) - q + 1
               /\ \A i \in 1 .. Len(s) - q + 1 : r[i] = s[q + i - 1]
<1> DEFINE n == Len(s)
           r == SubSeq(s, q, n)
<1>1. n \in Nat /\ \A i \in q .. n : s[i] \in S
  OBVIOUS
<1>2. q \in Int /\ n \in Int /\ q >= 1
  BY <1>1
<1>3. /\ r \in Seq(S) /\ Len(r) = IF q <= n THEN n - q + 1 ELSE 0
      /\ \A i \in 1 .. n - q + 1 : r[i] = s[q + i - 1]
  BY <1>1, <1>2, SubSeqProperties
<1> HIDE DEF r
<1>4. Len(r) = n - q + 1
  BY <1>1, <1>3
<1> QED
  BY <1>3, <1>4 DEF r

LEMMA SlotFacts ==
    ASSUME NEW S, \A y \in S : y.id \in Int, NEW s \in Seq(S), Sorted(s), NEW id \in Int
    PROVE  /\ Slot(s, id) \in 1 .. Len(s) + 1
           /\ \A j \in 1 .. Len(s) : j < Slot(s, id) => s[j].id < id
           /\ \A j \in 1 .. Len(s) : j > Slot(s, id) => s[j].id > id
           /\ Slot(s, id) <= Len(s) => s[Slot(s, id)].id >= id
<1> DEFINE n == Len(s)
           P(i) == /\ \A j \in 1 .. i - 1 : s[j].id < id
                   /\ i <= Len(s) => s[i].id >= id
           T == {i \in 1 .. n + 1 : i <= n => s[i].id >= id}
           it == Slot(s, id)
<1>1. n \in Nat /\ DOMAIN s = 1 .. n /\ \A i \in 1 .. n : s[i] \in S /\ s[i].id \in Int
  OBVIOUS
<1>2. PICK k \in T : \A j \in T : k <= j
  <2>1. n + 1 \in T /\ T \in SUBSET Nat
    BY <1>1
  <2> HIDE DEF T
  <2> QED
    BY <2>1, LeastOf
<1>3. k \in 1 .. n + 1 /\ P(k)
  <2>1. ASSUME NEW j \in 1 .. k - 1
        PROVE  s[j].id < id
    BY <1>1, <1>2, <2>1
  <2> QED
    BY <1>2, <2>1
<1>4. it \in 1 .. n + 1 /\ P(it)
  <2> HIDE DEF P
  <2>1. it = CHOOSE i \in 1 .. Len(s) + 1 : P(i)
    BY DEF Slot, P
  <2> QED
    BY <1>3, <2>1
<1> HIDE DEF it
<1>5. ASSUME NEW j \in 1 .. n, j > it
      PROVE  s[j].id > id
  <2>1. it \in 1 .. n /\ s[it].id >= id
    BY <1>1, <1>4, <1>5
  <2>2. s[it].id < s[j].id
    BY <1>1, <1>5, <2>1 DEF Sorted
  <2> QED
    BY <1>1, <2>1, <2>2
<1>6. \A j \in 1 .. n : j < it => s[j].id < id
  BY <1>1, <1>4
<1> QED
  BY <1>4, <1>5, <1>6 DEF it

\* An insertion keeps the vector sorted and changes nothing but the member with
\* its id.
LEMMA OverrideFacts ==
    ASSUME NEW S, \A y \in S : y.id \in Int, NEW s \in Seq(S), Sorted(s), NEW x \in S
    PROVE  /\ Override(s, x) \in Seq(S) /\ Sorted(Override(s, x))
           /\ Range(Override(s, x)) = {y \in Range(s) : y.id # x.id} \cup {x}
<1> DEFINE n == Len(s)
           p == Slot(s, x.id)
           q == IF Taken(s, x.id) THEN p + 1 ELSE p
           l == SubSeq(s, 1, p - 1)
           r == SubSeq(s, q, n)
           t == Override(s, x)
<1>1. n \in Nat /\ DOMAIN s = 1 .. n /\ \A i \in 1 .. n : s[i] \in S /\ s[i].id \in Int
  OBVIOUS
<1>2. x.id \in Int
  OBVIOUS
<1>3. /\ p \in 1 .. n + 1
      /\ \A j \in 1 .. n : j < p => s[j].id < x.id
      /\ \A j \in 1 .. n : j > p => s[j].id > x.id
      /\ p <= n => s[p].id >= x.id
  BY <1>2, SlotFacts
<1>4. t = l \o <<x>> \o r
  BY DEF Override
<1>6. /\ q = p + 1 => p \in 1 .. n /\ s[p].id = x.id
      /\ q = p /\ p \in 1 .. n => s[p].id > x.id
  <2> HIDE DEF p
  <2> QED
    BY <1>1, <1>2, <1>3 DEF Taken, p
<1>7. q \in {p, p + 1} /\ q \in 1 .. n + 1
  BY <1>1, <1>3, <1>6
<1>8. /\ l \in Seq(S) /\ Len(l) = p - 1 /\ \A i \in 1 .. p - 1 : l[i] = s[i]
  BY <1>3, HeadOf
<1>9. r \in Seq(S) /\ Len(r) = n - q + 1 /\ \A i \in 1 .. n - q + 1 : r[i] = s[q + i - 1]
  BY <1>7, TailOf
<1> HIDE DEF l, r, t, q, p
<1>10. t \in Seq(S) /\ Len(t) = n + 1 - (q - p) /\ DOMAIN t = 1 .. n + 1 - (q - p)
  <2>1. l \o <<x>> \in Seq(S) /\ Len(l \o <<x>>) = p
    BY <1>1, <1>3, <1>8
  <2>2. t \in Seq(S) /\ Len(t) = Len(l \o <<x>>) + Len(r)
    BY <1>4, <1>9, <2>1, ConcatProperties
  <2>3. Len(t) = p + (n - q + 1)
    BY <1>9, <2>1, <2>2
  <2>4. Len(t) = n + 1 - (q - p)
    BY <1>1, <1>3, <1>7, <2>3
  <2> QED
    BY <2>2, <2>4
<1>11. ASSUME NEW i \in 1 .. p - 1
       PROVE  t[i] = s[i]
  <2>1. (l \o <<x>>)[i] = l[i] /\ Len(l \o <<x>>) = p /\ l \o <<x>> \in Seq(S) /\ i \in 1 .. p
    BY <1>3, <1>8
  <2>2. t[i] = (l \o <<x>>)[i]
    BY <1>4, <1>9, <2>1, ConcatProperties
  <2> QED
    BY <1>8, <2>1, <2>2
<1>12. t[p] = x
  BY <1>1, <1>3, <1>4, <1>8, <1>9
<1>13. ASSUME NEW i \in p + 1 .. n + 1 - (q - p)
       PROVE  i - 1 + (q - p) \in q .. n /\ t[i] = s[i - 1 + (q - p)]
  <2>1. i - p \in 1 .. n - q + 1 /\ q + (i - p) - 1 = i - 1 + (q - p)
    BY <1>1, <1>3, <1>7
  <2>2. t[i] = r[i - p]
    BY <1>1, <1>3, <1>4, <1>7, <1>8, <1>9, <2>1
  <2>3. r[i - p] = s[q + (i - p) - 1]
    BY <1>9, <2>1
  <2> QED
    BY <1>1, <1>3, <1>7, <2>1, <2>2, <2>3
<1> DEFINE m == n + 1 - (q - p)
<1>14. ASSUME NEW i \in 1 .. m
       PROVE  \/ i < p /\ i \in 1 .. n /\ t[i] = s[i] /\ t[i].id < x.id
              \/ i = p /\ t[i] = x
              \/ i > p /\ i - 1 + (q - p) \in 1 .. n /\ t[i] = s[i - 1 + (q - p)] /\ t[i].id > x.id
  <2>1. CASE i < p
    BY <1>1, <1>3, <1>11, <2>1
  <2>2. CASE i = p
    BY <1>12, <2>2
  <2>3. CASE i > p
    <3>1. i \in p + 1 .. m
      BY <1>1, <1>3, <1>7, <2>3
    <3>2. i - 1 + (q - p) \in q .. n /\ t[i] = s[i - 1 + (q - p)]
      BY <1>13, <3>1
    <3>3. i - 1 + (q - p) \in 1 .. n
      BY <1>1, <1>3, <1>7, <2>3, <3>2
    <3>4. s[i - 1 + (q - p)].id > x.id
      <4>1. CASE i - 1 + (q - p) > p
        BY <1>3, <3>3, <4>1
      <4>2. CASE i - 1 + (q - p) = p /\ q = p
        BY <1>6, <3>3, <4>2
      <4>3. i - 1 + (q - p) >= p /\ (i - 1 + (q - p) = p => q = p)
        BY <1>1, <1>3, <1>7, <2>3, <3>2
      <4> QED
        BY <1>3, <3>3, <4>1, <4>2, <4>3
    <3> QED
      BY <1>1, <1>3, <1>7, <2>3, <3>2, <3>4
  <2> QED
    BY <1>3, <2>1, <2>2, <2>3
<1>15. Sorted(t)
  <2> SUFFICES ASSUME NEW i \in 1 .. m, NEW j \in 1 .. m, i < j
               PROVE  t[i].id < t[j].id
    BY <1>10 DEF Sorted
  <2>1. /\ i < p => i \in 1 .. n /\ t[i] = s[i] /\ t[i].id < x.id
        /\ i = p => t[i] = x
        /\ i > p => /\ i - 1 + (q - p) \in 1 .. n
                    /\ t[i] = s[i - 1 + (q - p)]
    BY <1>3, <1>14
  <2>2. /\ j < p => j \in 1 .. n /\ t[j] = s[j]
        /\ j = p => t[j] = x
        /\ j > p => /\ j - 1 + (q - p) \in 1 .. n
                    /\ t[j] = s[j - 1 + (q - p)] /\ t[j].id > x.id
    BY <1>3, <1>14
  <2>3. i \in Int /\ j \in Int /\ p \in Int /\ q \in Int
    BY <1>3, <1>7
  <2>4. \A a, b \in 1 .. n : a < b => s[a].id < s[b].id
    BY <1>1 DEF Sorted
  <2>5. CASE j < p
    BY <2>1, <2>2, <2>3, <2>4, <2>5
  <2>6. CASE i < p /\ j = p
    BY <2>1, <2>2, <2>3, <2>6
  <2>7. CASE i < p /\ j > p
    BY <1>1, <1>2, <2>1, <2>2, <2>3, <2>7
  <2>8. CASE i = p
    BY <2>1, <2>2, <2>3, <2>8
  <2>9. CASE i > p
    BY <2>1, <2>2, <2>3, <2>4, <2>9
  <2> QED
    BY <2>3, <2>5, <2>6, <2>7, <2>8, <2>9
<1>16. ASSUME NEW y
       PROVE  y \in Range(t) <=> y \in {z \in Range(s) : z.id # x.id} \cup {x}
  <2>1. y \in Range(t) <=> \E i \in 1 .. m : y = t[i]
    BY <1>10 DEF Range
  <2>2. y \in Range(s) <=> \E i \in 1 .. n : y = s[i]
    BY <1>1 DEF Range
  <2>3. ASSUME NEW i \in 1 .. m, y = t[i]
        PROVE  y = x \/ (y.id # x.id /\ \E k \in 1 .. n : y = s[k])
    BY <1>1, <1>2, <1>14, <2>3
  <2>4. p \in 1 .. m
    BY <1>1, <1>3, <1>7
  <2>5. ASSUME NEW k \in 1 .. n, y = s[k], y.id # x.id
        PROVE  \E i \in 1 .. m : y = t[i]
    <3>1. CASE k < p
      <4>1. k \in 1 .. p - 1 /\ k \in 1 .. m
        BY <1>1, <1>3, <1>7, <3>1
      <4> QED
        BY <1>11, <2>5, <4>1
    <3>2. CASE k >= p
      <4>1. k >= q
        BY <1>1, <1>3, <1>6, <1>7, <2>5, <3>2
      <4>2. k + 1 - (q - p) \in p + 1 .. m /\ (k + 1 - (q - p)) - 1 + (q - p) = k
        BY <1>1, <1>3, <1>7, <4>1
      <4>3. t[k + 1 - (q - p)] = s[k]
        BY <1>13, <4>2
      <4>4. k + 1 - (q - p) \in 1 .. m
        BY <1>1, <1>3, <1>7, <4>2
      <4> QED
        BY <2>5, <4>3, <4>4
    <3> QED
      BY <1>3, <3>1, <3>2
  <2> QED
    BY <1>12, <2>1, <2>2, <2>3, <2>4, <2>5
<1> QED
  BY <1>10, <1>15, <1>16 DEF t


\* A removal takes out the member with the id, and no other.
LEMMA EraseFacts ==
    ASSUME NEW S, \A y \in S : y.id \in Int, NEW s \in Seq(S), Sorted(s), NEW id \in Int
    PROVE  /\ Erase(s, id) \in Seq(S) /\ Sorted(Erase(s, id))
           /\ Range(Erase(s, id)) = {y \in Range(s) : y.id # id}
<1> DEFINE n == Len(s)
           Q(i) == s[i].id = id /\ \A j \in 1 .. i - 1 : s[j].id # id
           T == {i \in 1 .. n : s[i].id = id}
           p == CHOOSE i \in DOMAIN s : Q(i)
           l == SubSeq(s, 1, p - 1)
           r == SubSeq(s, p + 1, n)
           t == Erase(s, id)
<1>1. n \in Nat /\ DOMAIN s = 1 .. n /\ \A i \in 1 .. n : s[i] \in S /\ s[i].id \in Int
  OBVIOUS
<1>2. CASE ~ \E i \in DOMAIN s : s[i].id = id
  BY <1>1, <1>2 DEF Erase, Range
<1>3. CASE \E i \in DOMAIN s : s[i].id = id
  <2>1. PICK k \in T : \A j \in T : k <= j
    <3>1. PICK i \in DOMAIN s : s[i].id = id
      BY <1>3
    <3>2. i \in T /\ T \in SUBSET Nat
      BY <1>1, <3>1
    <3> HIDE DEF T
    <3> QED
      BY <3>2, LeastOf
  <2>2. k \in DOMAIN s /\ Q(k)
    BY <1>1, <2>1
  <2>3. p \in 1 .. n /\ s[p].id = id
    <3> HIDE DEF Q
    <3>1. p \in DOMAIN s /\ Q(p)
      BY <2>2
    <3> QED
      BY <1>1, <3>1 DEF Q
  <2>4. t = l \o r
    BY <1>3 DEF Erase
  <2> HIDE DEF p
  <2>5. l \in Seq(S) /\ Len(l) = p - 1 /\ \A i \in 1 .. p - 1 : l[i] = s[i]
    <3>1. p \in 1 .. n + 1
      BY <1>1, <2>3
    <3> QED
      BY <3>1, HeadOf
  <2>6. r \in Seq(S) /\ Len(r) = n - p /\ \A i \in 1 .. n - p : r[i] = s[p + i]
    <3>1. p + 1 \in 1 .. n + 1
      BY <1>1, <2>3
    <3>2. /\ r \in Seq(S) /\ Len(r) = n - (p + 1) + 1
          /\ \A i \in 1 .. n - (p + 1) + 1 : r[i] = s[(p + 1) + i - 1]
      BY <3>1, TailOf
    <3>3. n - (p + 1) + 1 = n - p /\ \A i \in Int : (p + 1) + i - 1 = p + i
      BY <1>1, <2>3
    <3> HIDE DEF r
    <3>4. Len(r) = n - p
      BY <3>2, <3>3
    <3>5. ASSUME NEW i \in 1 .. n - p
          PROVE  r[i] = s[p + i]
      <4>1. i \in 1 .. n - (p + 1) + 1 /\ (p + 1) + i - 1 = p + i
        BY <3>3
      <4> QED
        BY <3>2, <4>1
    <3> QED
      BY <3>2, <3>4, <3>5
  <2> HIDE DEF l, r, t
  <2>7. t \in Seq(S) /\ Len(t) = n - 1 /\ DOMAIN t = 1 .. n - 1
    <3>1. t \in Seq(S) /\ Len(t) = Len(l) + Len(r)
      BY <2>4, <2>5, <2>6, ConcatProperties
    <3>2. Len(t) = n - 1
      BY <1>1, <2>3, <2>5, <2>6, <3>1
    <3> QED
      BY <3>1, <3>2
  <2>8. ASSUME NEW i \in 1 .. n - 1
        PROVE  /\ i < p => i \in 1 .. n /\ t[i] = s[i]
               /\ i >= p => i + 1 \in 1 .. n /\ t[i] = s[i + 1]
    <3>1. CASE i < p
      <4>1. i \in 1 .. p - 1
        BY <2>3, <3>1
      <4>2. t[i] = l[i]
        BY <2>4, <2>5, <2>6, <4>1, ConcatProperties
      <4> QED
        BY <1>1, <2>3, <2>5, <3>1, <4>1, <4>2
    <3>2. CASE i >= p
      <4>1. i - (p - 1) \in 1 .. n - p /\ p + (i - (p - 1)) = i + 1
        BY <1>1, <2>3, <3>2
      <4>2. t[i] = r[i - (p - 1)]
        <5>1. i > Len(l) /\ i <= Len(l) + Len(r) /\ i \in 1 .. Len(l) + Len(r)
          BY <1>1, <2>3, <2>5, <2>6, <3>2
        <5>2. (l \o r)[i] = r[i - Len(l)]
          BY <2>5, <2>6, <5>1
        <5> QED
          BY <2>4, <2>5, <5>2
      <4> QED
        BY <1>1, <2>3, <2>6, <3>2, <4>1, <4>2
    <3> QED
      BY <2>3, <3>1, <3>2
  <2> DEFINE m == n - 1
             at(i) == IF i < p THEN i ELSE i + 1
  <2>9. ASSUME NEW i \in 1 .. m
        PROVE  at(i) \in 1 .. n /\ at(i) # p /\ t[i] = s[at(i)]
    BY <1>1, <2>3, <2>8
  <2>10. \A i, j \in 1 .. m : i < j => at(i) < at(j)
    BY <1>1, <2>3
  <2>11. ASSUME NEW k2 \in 1 .. n, k2 # p
         PROVE  \E i \in 1 .. m : at(i) = k2
    <3>1. CASE k2 < p
      <4>1. k2 \in 1 .. m /\ at(k2) = k2
        BY <1>1, <2>3, <3>1
      <4> QED
        BY <4>1
    <3>2. CASE k2 > p
      <4>1. k2 - 1 \in 1 .. m /\ at(k2 - 1) = k2
        BY <1>1, <2>3, <3>2
      <4> QED
        BY <4>1
    <3> QED
      BY <2>3, <2>11, <3>1, <3>2
  <2> HIDE DEF at
  <2>12. Sorted(t)
    BY <1>1, <2>7, <2>9, <2>10 DEF Sorted
  <2>13. \A k2 \in 1 .. n : s[k2].id = id => k2 = p
    BY <1>1, <2>3 DEF Sorted
  <2>14. ASSUME NEW y
         PROVE  y \in Range(t) <=> y \in {z \in Range(s) : z.id # id}
    <3>1. y \in Range(t) <=> \E i \in 1 .. m : y = t[i]
      BY <2>7 DEF Range
    <3>2. y \in Range(s) <=> \E i \in 1 .. n : y = s[i]
      BY <1>1 DEF Range
    <3>3. ASSUME NEW i \in 1 .. m, y = t[i]
          PROVE  y.id # id /\ \E k2 \in 1 .. n : y = s[k2]
      BY <2>9, <2>13, <3>3
    <3>4. ASSUME NEW k2 \in 1 .. n, y = s[k2], y.id # id
          PROVE  \E i \in 1 .. m : y = t[i]
      <4>1. k2 # p
        BY <2>3, <3>4
      <4> QED
        BY <2>9, <2>11, <3>4, <4>1
    <3> QED
      BY <3>1, <3>2, <3>3, <3>4
  <2> QED
    BY <2>7, <2>12, <2>14 DEF t
<1> QED
  BY <1>2, <1>3

\* An id names at most one member.
LEMMA OneOfAnId ==
    ASSUME NEW S, \A y \in S : y.id \in Int, NEW s \in Seq(S), Sorted(s)
    PROVE  /\ Range(s) \subseteq S
           /\ \A a, b \in Range(s) : a.id = b.id => a = b
           /\ \A id \in Int : Taken(s, id) <=> \E y \in Range(s) : y.id = id
<1>1. /\ Len(s) \in Nat /\ DOMAIN s = 1 .. Len(s)
      /\ \A i \in 1 .. Len(s) : s[i] \in S /\ s[i].id \in Int
  OBVIOUS
<1>2. Range(s) \subseteq S
  BY <1>1 DEF Range
<1>3. \A a, b \in Range(s) : a.id = b.id => a = b
  <2> SUFFICES ASSUME NEW i \in 1 .. Len(s), NEW j \in 1 .. Len(s), s[i].id = s[j].id
               PROVE  i = j
    BY <1>1 DEF Range
  <2> QED
    BY <1>1 DEF Sorted
<1>4. ASSUME NEW id \in Int
      PROVE  Taken(s, id) <=> \E y \in Range(s) : y.id = id
  <2> DEFINE p == Slot(s, id)
  <2>1. /\ p \in 1 .. Len(s) + 1
        /\ \A j \in 1 .. Len(s) : j < p => s[j].id < id
        /\ \A j \in 1 .. Len(s) : j > p => s[j].id > id
    BY SlotFacts
  <2>2. Taken(s, id) <=> p <= Len(s) /\ s[p].id = id
    BY DEF Taken
  <2> HIDE DEF p
  <2>3. (\E y \in Range(s) : y.id = id) <=> \E i \in 1 .. Len(s) : s[i].id = id
    BY <1>1 DEF Range
  <2>4. ASSUME NEW i \in 1 .. Len(s), s[i].id = id
        PROVE  i = p
    BY <1>1, <2>1, <2>4
  <2> QED
    BY <1>1, <2>1, <2>2, <2>3, <2>4
<1> QED
  BY <1>2, <1>3, <1>4


-----------------------------------------------------------------------------
\* The constructor's vectors

\* What was inserted one by one, each with an id of its own, is what the vector
\* has.
LEMMA ConstructedFacts ==
    ASSUME NEW S, \A y \in S : y.id \in Int, NEW first,
           Len(first) \in Nat, DOMAIN first = 1 .. Len(first),
           \A i \in 1 .. Len(first) : first[i] \in S,
           \A i, j \in 1 .. Len(first) : first[i].id = first[j].id => i = j
    PROVE  /\ Constructed(first) \in Seq(S) /\ Sorted(Constructed(first))
           /\ Range(Constructed(first)) = Range(first)
<1> DEFINE N == Len(first)
           Body(f, n) == IF n = 0 THEN <<>> ELSE Override(f[n - 1], first[n])
           built == CHOOSE f : f = [n \in 0 .. N |-> Body(f, n)]
           E == {k \in Nat : \E f : \A n \in 0 .. N : n <= k => f[n] = Body(f, n)}
<1>1. Constructed(first) = built[N]
  BY DEF Constructed
<1>2. E = Nat
  <2>1. 0 \in E
    <3> DEFINE f == [n \in 0 .. N |-> <<>>]
    <3>1. \A n \in 0 .. N : n <= 0 => f[n] = Body(f, n)
      OBVIOUS
    <3> QED
      BY <3>1
  <2>2. ASSUME NEW k \in E
        PROVE  k + 1 \in E
    <3>1. PICK f : \A n \in 0 .. N : n <= k => f[n] = Body(f, n)
      OBVIOUS
    <3> DEFINE g == [n \in 0 .. N |-> Body(f, n)]
    <3>2. \A n \in 0 .. N : n <= k => g[n] = f[n]
      BY <3>1
    <3>3. ASSUME NEW n \in 0 .. N, n <= k + 1
          PROVE  g[n] = Body(g, n)
      <4>1. g[n] = Body(f, n)
        OBVIOUS
      <4> HIDE DEF g
      <4>2. CASE n = 0
        BY <4>1, <4>2
      <4>3. CASE n # 0
        <5>1. n - 1 \in 0 .. N /\ n - 1 <= k
          BY <3>3, <4>3
        <5>2. g[n - 1] = f[n - 1]
          BY <3>2, <5>1
        <5> QED
          BY <4>1, <4>3, <5>2
      <4> QED
        BY <4>2, <4>3
    <3> HIDE DEF g
    <3>4. \A n \in 0 .. N : n <= k + 1 => g[n] = Body(g, n)
      BY <3>3
    <3> HIDE DEF Body
    <3> QED
      BY <3>4
  <2> HIDE DEF E
  <2>3. E \in SUBSET Nat
    BY DEF E
  <2> QED
    BY <2>1, <2>2, <2>3, SetInduction
<1>3. built = [n \in 0 .. N |-> Body(built, n)]
  <2>1. PICK f : \A n \in 0 .. N : n <= N => f[n] = Body(f, n)
    BY <1>2
  <2> DEFINE g == [n \in 0 .. N |-> Body(f, n)]
  <2>2. ASSUME NEW n \in 0 .. N
        PROVE  g[n] = Body(g, n)
    <3>1. g[n] = Body(f, n) /\ n <= N
      OBVIOUS
    <3>2. \A i \in 0 .. N : g[i] = f[i]
      BY <2>1
    <3> HIDE DEF g
    <3>3. CASE n = 0
      BY <3>1, <3>3
    <3>4. CASE n # 0
      <4>1. n - 1 \in 0 .. N
        BY <3>4
      <4> QED
        BY <3>1, <3>2, <3>4, <4>1
    <3> QED
      BY <3>3, <3>4
  <2>3. g = [n \in 0 .. N |-> g[n]]
    OBVIOUS
  <2> HIDE DEF g, Body
  <2>4. g = [n \in 0 .. N |-> Body(g, n)]
    BY <2>2, <2>3
  <2> QED
    BY <2>4
<1> HIDE DEF built, E
<1>4. \A n \in 0 .. N : built[n] = Body(built, n)
  <2> HIDE DEF Body
  <2> QED
    BY <1>3
<1> DEFINE OK(n) == /\ built[n] \in Seq(S) /\ Sorted(built[n])
                    /\ Range(built[n]) = {first[i] : i \in 1 .. n}
           G == {n \in Nat : n <= N => OK(n)}
<1>5. 0 \in G
  <2>1. built[0] = <<>>
    BY <1>4
  <2>2. OK(0)
    BY <2>1 DEF Sorted, Range
  <2> QED
    BY <2>2
<1>6. ASSUME NEW n \in G
      PROVE  n + 1 \in G
  <2> SUFFICES ASSUME n + 1 <= N
               PROVE  OK(n + 1)
    OBVIOUS
  <2> DEFINE s == built[n]
             x == first[n + 1]
             t == built[n + 1]
  <2>1. n \in Nat /\ n + 1 \in 1 .. N /\ n + 1 # 0 /\ (n + 1) - 1 = n /\ n + 1 \in 0 .. N
    OBVIOUS
  <2>2. s \in Seq(S) /\ Sorted(s) /\ Range(s) = {first[i] : i \in 1 .. n}
    OBVIOUS
  <2>3. t = Override(s, x)
    BY <1>4, <2>1
  <2>7. x \in S
    BY <2>1
  <2> HIDE DEF s, t, x
  <2>4. /\ t \in Seq(S) /\ Sorted(t)
        /\ Range(t) = {y \in Range(s) : y.id # x.id} \cup {x}
    BY ONLY <2>2, <2>3, <2>7, OverrideFacts, \A y \in S : y.id \in Int
  <2>5. \A i \in 1 .. n : i \in 1 .. N /\ first[i].id # x.id
    BY <2>1 DEF x
  <2>6. Range(t) = {first[i] : i \in 1 .. n + 1}
    <3>1. \A i \in 1 .. n + 1 : i \in 1 .. n \/ i = n + 1
      BY <2>1
    <3>2. \A i \in 1 .. n : i \in 1 .. n + 1
      BY <2>1
    <3>3. n + 1 \in 1 .. n + 1
      BY <2>1
    <3>4. {y \in Range(s) : y.id # x.id} = {first[i] : i \in 1 .. n}
      BY <2>2, <2>5
    <3> QED
      BY <2>4, <3>1, <3>2, <3>3, <3>4 DEF x
  <2> QED
    BY <2>4, <2>6 DEF t
<1>7. N \in G
  <2> HIDE DEF OK
  <2>1. G \in SUBSET Nat
    OBVIOUS
  <2> HIDE DEF G
  <2> QED
    BY <1>5, <1>6, <2>1, SetInduction
<1>8. OK(N)
  BY <1>7
<1> QED
  BY <1>1, <1>8 DEF Range


-----------------------------------------------------------------------------
\* The invariant

ServicesOf(ci) == Services[ci] \cup Range(FirstServices[ci])
AttributesOf(ci) == Attributes[ci] \cup Range(FirstAttributes[ci])

InstancesInOrder ==
    /\ instances \in Seq(Objects) /\ Sorted(instances)
    /\ owned \in SUBSET Objects /\ Range(instances) \subseteq owned

ServicesInOrder ==
    /\ services = [ci \in CI |-> services[ci]]
    /\ \A ci \in CI : services[ci] \in Seq(ServicesOf(ci)) /\ Sorted(services[ci])

AttributesInOrder ==
    /\ attributes = [ci \in CI |-> attributes[ci]]
    /\ \A ci \in CI : attributes[ci] \in Seq(AttributesOf(ci)) /\ Sorted(attributes[ci])

\* The test of an insertion is made against what it does not replace.
StorageApart ==
    \A ci \in CI : \A a, b \in Range(attributes[ci]) : a # b => ~Aliases(a, b)

\* The bit of an attribute for GetAttributeAll is set, whatever it replaced.
MaskCovers ==
    /\ getable_all = [ci \in CI |-> getable_all[ci]]
    /\ \A ci \in CI : MaskBits(Range(attributes[ci])) \subseteq getable_all[ci]

RegistryInv ==
    /\ InstancesInOrder
    /\ ServicesInOrder
    /\ AttributesInOrder
    /\ StorageApart
    /\ MaskCovers

LEMMA Ids ==
    /\ \A o \in Objects : o.id \in Int
    /\ \A ci \in CI : \A s \in ServicesOf(ci) : s.id \in Int
    /\ \A ci \in CI : \A a \in AttributesOf(ci) :
          a.id \in Int /\ a.where \in Nat /\ a.size \in Nat
<1> USE IdAssumption DEF IdAssumption
<1>1. CI = {"I", "C"}
  BY DEF CI
<1>2. ASSUME NEW o \in Objects
      PROVE  o.id \in Int
  <2>1. o.id \in 1 .. 2^16 - 1
    OBVIOUS
  <2> QED
    BY ONLY <2>1
<1>3. ASSUME NEW ci \in CI, NEW s \in ServicesOf(ci)
      PROVE  s.id \in Int
  <2>1. s.id \in 1 .. 127
    BY <1>1 DEF ServicesOf
  <2> QED
    BY ONLY <2>1
<1>4. ASSUME NEW ci \in CI, NEW a \in AttributesOf(ci)
      PROVE  a.id \in Int /\ a.where \in Nat /\ a.size \in Nat
  <2>1. a.id \in 1 .. 2^16 - 1 /\ a.where \in Nat /\ a.size \in Nat
    BY <1>1 DEF AttributesOf
  <2> QED
    BY ONLY <2>1
<1> QED
  BY <1>2, <1>3, <1>4

LEMMA AliasesBothWays ==
    ASSUME NEW ci \in CI, NEW a \in AttributesOf(ci), NEW b \in AttributesOf(ci)
    PROVE  Aliases(a, b) <=> Aliases(b, a)
BY DEF Aliases, Overlap

LEMMA RegistryStarts == Init => RegistryInv
<1> SUFFICES ASSUME Init
             PROVE  RegistryInv
  OBVIOUS
<1>1. ASSUME NEW ci \in CI
      PROVE  /\ services[ci] \in Seq(ServicesOf(ci)) /\ Sorted(services[ci])
             /\ Range(services[ci]) = Range(FirstServices[ci])
  <2> DEFINE first == FirstServices[ci]
  <2>1. /\ Len(first) \in Nat /\ DOMAIN first = 1 .. Len(first)
        /\ \A i, j \in DOMAIN first : first[i].id = first[j].id => i = j
    BY ConstructorAssumption DEF ConstructorAssumption
  <2>2. \A i \in 1 .. Len(first) : first[i] \in ServicesOf(ci)
    BY <2>1 DEF ServicesOf, Range
  <2>3. services[ci] = Constructed(first)
    BY DEF Init
  <2>4. \A s \in ServicesOf(ci) : s.id \in Int
    BY Ids
  <2> HIDE DEF first
  <2>5. /\ Constructed(first) \in Seq(ServicesOf(ci)) /\ Sorted(Constructed(first))
        /\ Range(Constructed(first)) = Range(first)
    BY ONLY <2>1, <2>2, <2>4, ConstructedFacts
  <2> QED
    BY <2>3, <2>5 DEF first
<1>2. ASSUME NEW ci \in CI
      PROVE  /\ attributes[ci] \in Seq(AttributesOf(ci)) /\ Sorted(attributes[ci])
             /\ Range(attributes[ci]) = Range(FirstAttributes[ci])
  <2> DEFINE first == FirstAttributes[ci]
  <2>1. /\ Len(first) \in Nat /\ DOMAIN first = 1 .. Len(first)
        /\ \A i, j \in DOMAIN first : first[i].id = first[j].id => i = j
    BY ConstructorAssumption DEF ConstructorAssumption
  <2>2. \A i \in 1 .. Len(first) : first[i] \in AttributesOf(ci)
    BY <2>1 DEF AttributesOf, Range
  <2>3. attributes[ci] = Constructed(first)
    BY DEF Init
  <2>4. \A s \in AttributesOf(ci) : s.id \in Int
    BY Ids
  <2> HIDE DEF first
  <2>5. /\ Constructed(first) \in Seq(AttributesOf(ci)) /\ Sorted(Constructed(first))
        /\ Range(Constructed(first)) = Range(first)
    BY ONLY <2>1, <2>2, <2>4, ConstructedFacts
  <2> QED
    BY <2>3, <2>5 DEF first
<1>3. InstancesInOrder
  BY DEF Init, InstancesInOrder, Sorted, Range
<1>4. ServicesInOrder
  BY <1>1 DEF Init, ServicesInOrder
<1>5. AttributesInOrder
  BY <1>2 DEF Init, AttributesInOrder
<1>6. StorageApart
  BY <1>2, ConstructorAssumption DEF ConstructorAssumption, StorageApart
<1>7. MaskCovers
  BY <1>2 DEF Init, MaskCovers
<1> QED
  BY <1>3, <1>4, <1>5, <1>6, <1>7 DEF RegistryInv

\* What an insertion or a removal does to one of the vectors of a table.
LEMMA InsertedInto ==
    ASSUME NEW ci \in CI, RegistryInv
    PROVE  /\ \A s \in Services[ci] :
                 LET t == Override(services[ci], s)
                 IN  /\ t \in Seq(ServicesOf(ci)) /\ Sorted(t)
                     /\ Range(t) = {y \in Range(services[ci]) : y.id # s.id} \cup {s}
           /\ \A s \in Services[ci] :
                 LET t == Erase(services[ci], s.id)
                 IN  /\ t \in Seq(ServicesOf(ci)) /\ Sorted(t)
                     /\ Range(t) = {y \in Range(services[ci]) : y.id # s.id}
           /\ \A a \in Attributes[ci] :
                 LET t == Override(attributes[ci], a)
                 IN  /\ t \in Seq(AttributesOf(ci)) /\ Sorted(t)
                     /\ Range(t) = {y \in Range(attributes[ci]) : y.id # a.id} \cup {a}
<1>1. services[ci] \in Seq(ServicesOf(ci)) /\ Sorted(services[ci])
  BY DEF RegistryInv, ServicesInOrder
<1>2. attributes[ci] \in Seq(AttributesOf(ci)) /\ Sorted(attributes[ci])
  BY DEF RegistryInv, AttributesInOrder
<1>3. /\ \A s \in ServicesOf(ci) : s.id \in Int
      /\ \A a \in AttributesOf(ci) : a.id \in Int
  BY Ids
<1>4. ASSUME NEW s \in Services[ci]
      PROVE  LET t == Override(services[ci], s)
             IN  /\ t \in Seq(ServicesOf(ci)) /\ Sorted(t)
                 /\ Range(t) = {y \in Range(services[ci]) : y.id # s.id} \cup {s}
  <2>1. s \in ServicesOf(ci)
    BY DEF ServicesOf
  <2> QED
    BY ONLY <1>1, <1>3, <2>1, OverrideFacts
<1>5. ASSUME NEW s \in Services[ci]
      PROVE  LET t == Erase(services[ci], s.id)
             IN  /\ t \in Seq(ServicesOf(ci)) /\ Sorted(t)
                 /\ Range(t) = {y \in Range(services[ci]) : y.id # s.id}
  <2>1. s.id \in Int
    BY <1>3 DEF ServicesOf
  <2> QED
    BY ONLY <1>1, <1>3, <2>1, EraseFacts
<1>6. ASSUME NEW a \in Attributes[ci]
      PROVE  LET t == Override(attributes[ci], a)
             IN  /\ t \in Seq(AttributesOf(ci)) /\ Sorted(t)
                 /\ Range(t) = {y \in Range(attributes[ci]) : y.id # a.id} \cup {a}
  <2>1. a \in AttributesOf(ci)
    BY DEF AttributesOf
  <2> QED
    BY ONLY <1>2, <1>3, <2>1, OverrideFacts
<1> QED
  BY <1>4, <1>5, <1>6


LEMMA InstancesStay ==
    ASSUME RegistryInv, [Next]_vars
    PROVE  InstancesInOrder'
<1>1. InstancesInOrder
  BY DEF RegistryInv
<1>2. ASSUME NEW o \in Objects, InstanceInsert(o)
      PROVE  InstancesInOrder'
  <2>1. /\ Override(instances, o) \in Seq(Objects) /\ Sorted(Override(instances, o))
        /\ Range(Override(instances, o)) = {y \in Range(instances) : y.id # o.id} \cup {o}
    BY <1>1, Ids, OverrideFacts DEF InstancesInOrder
  <2> QED
    BY <1>1, <1>2, <2>1 DEF InstancesInOrder, InstanceInsert
<1>3. ASSUME NEW o \in Objects, InstanceRemove(o.id)
      PROVE  InstancesInOrder'
  <2>1. o.id \in Int
    BY Ids
  <2>2. /\ Erase(instances, o.id) \in Seq(Objects) /\ Sorted(Erase(instances, o.id))
        /\ Range(Erase(instances, o.id)) = {y \in Range(instances) : y.id # o.id}
    BY <1>1, <2>1, Ids, EraseFacts DEF InstancesInOrder
  <2> QED
    BY <1>1, <1>3, <2>2 DEF InstancesInOrder, InstanceRemove
<1>4. CASE UNCHANGED <<instances, owned>>
  BY <1>1, <1>4 DEF InstancesInOrder, Sorted, Range
<1> QED
  BY <1>2, <1>3, <1>4
     DEF Next, vars, ServiceInsert, ServiceRemove, AttributeInsert

LEMMA ServicesStay ==
    ASSUME RegistryInv, [Next]_vars
    PROVE  ServicesInOrder'
<1>1. ServicesInOrder
  BY DEF RegistryInv
<1>2. ASSUME NEW ci \in CI, NEW s \in Services[ci], ServiceInsert(ci, s) \/ ServiceRemove(ci, s.id)
      PROVE  ServicesInOrder'
  <2>1. \E t \in {Override(services[ci], s), Erase(services[ci], s.id)} :
            services' = [services EXCEPT ![ci] = t]
    BY <1>2 DEF ServiceInsert, ServiceRemove
  <2>2. PICK t \in {Override(services[ci], s), Erase(services[ci], s.id)} :
            services' = [services EXCEPT ![ci] = t]
    BY <2>1
  <2>3. t \in Seq(ServicesOf(ci)) /\ Sorted(t)
    BY <2>2, InsertedInto
  <2>4. /\ services' = [c \in CI |-> services'[c]]
        /\ \A c \in CI : services'[c] = IF c = ci THEN t ELSE services[c]
    BY <1>1, <2>2 DEF ServicesInOrder
  <2> QED
    BY <1>1, <2>3, <2>4 DEF ServicesInOrder, ServicesOf
<1>3. CASE UNCHANGED services
  BY <1>1, <1>3 DEF ServicesInOrder, ServicesOf
<1> QED
  BY <1>2, <1>3 DEF Next, vars, InstanceInsert, InstanceRemove, AttributeInsert

LEMMA AttributesStay ==
    ASSUME RegistryInv, [Next]_vars
    PROVE  AttributesInOrder' /\ StorageApart' /\ MaskCovers'
<1>1. AttributesInOrder /\ StorageApart /\ MaskCovers
  BY DEF RegistryInv
<1>2. ASSUME NEW ci \in CI, NEW a \in Attributes[ci], AttributeInsert(ci, a)
      PROVE  AttributesInOrder' /\ StorageApart' /\ MaskCovers'
  <2> DEFINE t == Override(attributes[ci], a)
  <2>1. /\ t \in Seq(AttributesOf(ci)) /\ Sorted(t)
        /\ Range(t) = {y \in Range(attributes[ci]) : y.id # a.id} \cup {a}
    BY InsertedInto
  <2>2. attributes' = [attributes EXCEPT ![ci] = t]
    BY <1>2 DEF AttributeInsert
  <2> HIDE DEF t
  <2>3. /\ attributes' = [c \in CI |-> attributes'[c]]
        /\ \A c \in CI : attributes'[c] = IF c = ci THEN t ELSE attributes[c]
    BY <1>1, <2>2 DEF AttributesInOrder
  <2>4. AttributesInOrder'
    <3>1. \A c \in CI : attributes[c] \in Seq(AttributesOf(c)) /\ Sorted(attributes[c])
      BY <1>1 DEF AttributesInOrder
    <3>2. \A c \in CI : attributes'[c] \in Seq(AttributesOf(c)) /\ Sorted(attributes'[c])
      BY ONLY <2>1, <2>3, <3>1
    <3> QED
      BY <2>3, <3>2 DEF AttributesInOrder
  <2>5. /\ a \in AttributesOf(ci) /\ attributes[ci] \in Seq(AttributesOf(ci))
        /\ Range(attributes[ci]) \subseteq AttributesOf(ci)
    <3>1. a \in AttributesOf(ci)
      BY DEF AttributesOf
    <3>2. attributes[ci] \in Seq(AttributesOf(ci))
      BY <1>1 DEF AttributesInOrder
    <3> QED
      BY <3>1, <3>2 DEF Range
  <2>6. ASSUME NEW b \in Range(attributes[ci]), b.id # a.id
        PROVE  ~Aliases(a, b) /\ ~Aliases(b, a)
    <3>1. \A i \in DOMAIN attributes[ci] :
              attributes[ci][i].id = a.id \/ ~Aliases(a, attributes[ci][i])
      BY <1>2 DEF AttributeInsert
    <3>2. ~Aliases(a, b)
      BY <2>6, <3>1 DEF Range
    <3>3. b \in AttributesOf(ci)
      BY <2>5
    <3> QED
      BY <2>5, <3>2, <3>3, AliasesBothWays
  <2>7. ASSUME NEW c \in CI, NEW b \in Range(attributes'[c]), NEW e \in Range(attributes'[c]),
               b # e
        PROVE  ~Aliases(b, e)
    <3>1. CASE c = ci
      <4>1. /\ b = a \/ (b \in Range(attributes[ci]) /\ b.id # a.id)
            /\ e = a \/ (e \in Range(attributes[ci]) /\ e.id # a.id)
        BY <2>1, <2>3, <3>1
      <4> QED
        BY <1>1, <2>6, <2>7, <4>1 DEF StorageApart
    <3>2. CASE c # ci
      BY <1>1, <2>3, <2>7, <3>2 DEF StorageApart
    <3> QED
      BY <3>1, <3>2
  <2>8. StorageApart'
    <3>1. Range(attributes[ci])' = Range(attributes'[ci])
      OBVIOUS
    <3> QED
      BY <2>7 DEF StorageApart, Range
  <2>9. MaskCovers'
    <3>1. /\ getable_all' = [c \in CI |-> getable_all'[c]]
          /\ \A c \in CI : getable_all'[c] =
                IF c = ci THEN getable_all[c] \cup MaskBits({a}) ELSE getable_all[c]
      BY <1>1, <1>2 DEF MaskCovers, AttributeInsert
    <3>2. ASSUME NEW c \in CI
          PROVE  MaskBits(Range(attributes'[c])) \subseteq getable_all'[c]
      <4>1. CASE c = ci
        <5>1. MaskBits(Range(t)) \subseteq MaskBits(Range(attributes[ci])) \cup MaskBits({a})
          BY <2>1 DEF MaskBits
        <5> QED
          BY <1>1, <2>3, <3>1, <4>1, <5>1 DEF MaskCovers
      <4>2. CASE c # ci
        BY <1>1, <2>3, <3>1, <4>2 DEF MaskCovers
      <4> QED
        BY <4>1, <4>2
    <3> QED
      BY <3>1, <3>2 DEF MaskCovers, MaskBits, Range
  <2> QED
    BY <2>4, <2>8, <2>9
<1>3. CASE UNCHANGED <<attributes, getable_all>>
  BY <1>1, <1>3
     DEF AttributesInOrder, AttributesOf, StorageApart, MaskCovers, MaskBits, Range, Sorted
<1> QED
  BY <1>2, <1>3
     DEF Next, vars, InstanceInsert, InstanceRemove, ServiceInsert, ServiceRemove

LEMMA RegistryStays == RegistryInv /\ [Next]_vars => RegistryInv'
BY InstancesStay, ServicesStay, AttributesStay DEF RegistryInv

\* In every reachable state the vectors are sorted, an id has one member, the
\* storage of any two attributes is apart, and the bits for GetAttributeAll
\* cover the attributes that are marked for it: what the binary searches of
\* cipclass.h and the loop of GetAttributeAll() rely on.
THEOREM RegistryOrdered == Spec => []RegistryInv
<1>1. Init => RegistryInv
  BY RegistryStarts
<1>2. RegistryInv /\ [Next]_vars => RegistryInv'
  BY RegistryStays
<1> QED
  BY <1>1, <1>2, PTL DEF Spec


-----------------------------------------------------------------------------
\* Storage

LEMMA ApartIsUnaliased == RegistryInv => NoAliasing
<1> SUFFICES ASSUME RegistryInv, NEW ci \in CI,
                    NEW a \in Range(attributes[ci]), NEW b \in Range(attributes[ci]),
                    NEW byte \in 0 .. 64, a.offset = b.offset,
                    byte \in a.where .. a.where + a.size - 1,
                    byte \in b.where .. b.where + b.size - 1
             PROVE  a.type = b.type \/ {a.type, b.type} \subseteq ByteArrays
  BY DEF NoAliasing
<1>1. CASE a = b
  BY <1>1
<1>2. CASE a # b
  <2>1. a \in AttributesOf(ci) /\ b \in AttributesOf(ci)
    BY DEF RegistryInv, AttributesInOrder, Range
  <2>2. a.where \in Nat /\ a.size \in Nat /\ b.where \in Nat /\ b.size \in Nat
    BY <2>1, Ids
  <2>3. a.size # 0 /\ b.size # 0 /\ Overlap(a, b)
    BY <2>2 DEF Overlap
  <2>4. ~Aliases(a, b)
    BY <1>2 DEF RegistryInv, StorageApart
  <2> QED
    BY <2>3, <2>4 DEF Aliases
<1> QED
  BY <1>1, <1>2

\* AttributeInsert() refuses storage that another attribute reads as another
\* type, and what it admits stays apart whatever is inserted, overridden or
\* withdrawn later (NoAliasing).
THEOREM AttributesNeverAlias == Spec => []NoAliasing
<1>1. Spec => []RegistryInv
  BY RegistryOrdered
<1>2. RegistryInv => NoAliasing
  BY ApartIsUnaliased
<1> QED
  BY <1>1, <1>2, PTL

-----------------------------------------------------------------------------
\* The vectors implement the sets of ObjectModel

LEMMA ModelStarts == Init => OM!Init
<1> SUFFICES ASSUME Init
             PROVE  OM!Init
  OBVIOUS
<1>1. \A ci \in CI : /\ Range(services[ci]) = Range(FirstServices[ci])
                     /\ Range(attributes[ci]) = Range(FirstAttributes[ci])
  <2> SUFFICES ASSUME NEW ci \in CI
               PROVE  /\ Range(services[ci]) = Range(FirstServices[ci])
                      /\ Range(attributes[ci]) = Range(FirstAttributes[ci])
    OBVIOUS
  <2>1. /\ services[ci] = Constructed(FirstServices[ci])
        /\ attributes[ci] = Constructed(FirstAttributes[ci])
    BY DEF Init
  <2>2. /\ \A s \in ServicesOf(ci) : s.id \in Int
        /\ \A s \in AttributesOf(ci) : s.id \in Int
    BY Ids
  <2>3. ASSUME NEW first, first \in {FirstServices[ci], FirstAttributes[ci]}
        PROVE  /\ Len(first) \in Nat /\ DOMAIN first = 1 .. Len(first)
               /\ \A i, j \in DOMAIN first : first[i].id = first[j].id => i = j
    BY <2>3, ConstructorAssumption DEF ConstructorAssumption
  <2>4. Range(Constructed(FirstServices[ci])) = Range(FirstServices[ci])
    <3> DEFINE first == FirstServices[ci]
    <3>1. /\ Len(first) \in Nat /\ DOMAIN first = 1 .. Len(first)
          /\ \A i, j \in DOMAIN first : first[i].id = first[j].id => i = j
      BY <2>3
    <3>2. \A i \in 1 .. Len(first) : first[i] \in ServicesOf(ci)
      BY <3>1 DEF ServicesOf, Range
    <3> HIDE DEF first
    <3>3. Range(Constructed(first)) = Range(first)
      BY ONLY <2>2, <3>1, <3>2, ConstructedFacts
    <3> QED
      BY <3>3 DEF first
  <2>5. Range(Constructed(FirstAttributes[ci])) = Range(FirstAttributes[ci])
    <3> DEFINE first == FirstAttributes[ci]
    <3>1. /\ Len(first) \in Nat /\ DOMAIN first = 1 .. Len(first)
          /\ \A i, j \in DOMAIN first : first[i].id = first[j].id => i = j
      BY <2>3
    <3>2. \A i \in 1 .. Len(first) : first[i] \in AttributesOf(ci)
      BY <3>1 DEF AttributesOf, Range
    <3> HIDE DEF first
    <3>3. Range(Constructed(first)) = Range(first)
      BY ONLY <2>2, <3>1, <3>2, ConstructedFacts
    <3> QED
      BY <3>3 DEF first
  <2> QED
    BY <2>1, <2>4, <2>5
<1>2. Range(instances) = {} /\ owned = {}
  BY DEF Init, Range
<1>3. OM!CI = CI
  BY DEF CI, OM!CI
<1>4. /\ [ci \in CI |-> Range(services[ci])] = [ci \in CI |-> Range(FirstServices[ci])]
      /\ [ci \in CI |-> Range(attributes[ci])] = [ci \in CI |-> Range(FirstAttributes[ci])]
  BY <1>1
<1>5. \A ci \in CI : /\ OM!Range(FirstServices[ci]) = Range(FirstServices[ci])
                     /\ OM!Range(FirstAttributes[ci]) = Range(FirstAttributes[ci])
  BY DEF OM!Range, Range
<1>6. /\ [ci \in CI |-> OM!Range(FirstServices[ci])] = [ci \in CI |-> Range(FirstServices[ci])]
      /\ [ci \in CI |-> OM!Range(FirstAttributes[ci])] = [ci \in CI |-> Range(FirstAttributes[ci])]
  BY <1>5
<1> QED
  BY <1>2, <1>3, <1>4, <1>6, Zenon DEF OM!Init

LEMMA ClashIsAlias ==
    ASSUME NEW ci \in CI, NEW a \in AttributesOf(ci), NEW b \in AttributesOf(ci)
    PROVE  OM!Clash(a, b) <=> Aliases(a, b)
<1>1. a.where \in Nat /\ a.size \in Nat /\ b.where \in Nat /\ b.size \in Nat
  BY Ids
<1> QED
  BY <1>1 DEF OM!Clash, Aliases, Overlap

LEMMA InsertsAndDeletes ==
    ASSUME RegistryInv, NEW o \in Objects
    PROVE  /\ InstanceInsert(o) => OM!Insert(o)
           /\ InstanceRemove(o.id) => OM!Delete(o.id)
<1>1. instances \in Seq(Objects) /\ Sorted(instances) /\ o.id \in Int
      /\ \A y \in Objects : y.id \in Int
  BY Ids DEF RegistryInv, InstancesInOrder
<1>2. ASSUME InstanceInsert(o)
      PROVE  OM!Insert(o)
  <2>1. \A y \in Range(instances) : y.id # o.id
    BY ONLY <1>1, <1>2, OneOfAnId DEF InstanceInsert
  <2>2. Range(Override(instances, o)) = {y \in Range(instances) : y.id # o.id} \cup {o}
    BY ONLY <1>1, OverrideFacts, o \in Objects
  <2>3. Range(instances)' = Range(instances) \cup {o}
    BY <1>2, <2>1, <2>2 DEF InstanceInsert, Range
  <2>4. OM!Named(Range(instances), o.id) = {}
    BY <2>1 DEF OM!Named
  <2>5. [ci \in CI |-> Range(services[ci])]' = [ci \in CI |-> Range(services[ci])]
        /\ [ci \in CI |-> Range(attributes[ci])]' = [ci \in CI |-> Range(attributes[ci])]
    BY <1>2 DEF InstanceInsert
  <2> QED
    BY <1>2, <2>3, <2>4, <2>5 DEF OM!Insert, InstanceInsert
<1>3. ASSUME InstanceRemove(o.id)
      PROVE  OM!Delete(o.id)
  <2>1. Range(Erase(instances, o.id)) = {y \in Range(instances) : y.id # o.id}
    BY ONLY <1>1, EraseFacts
  <2>2. Range(instances)' = OM!Others(Range(instances), o.id)
    BY <1>3, <2>1 DEF InstanceRemove, OM!Others, OM!Named, Range
  <2>3. [ci \in CI |-> Range(services[ci])]' = [ci \in CI |-> Range(services[ci])]
        /\ [ci \in CI |-> Range(attributes[ci])]' = [ci \in CI |-> Range(attributes[ci])]
    BY <1>3 DEF InstanceRemove
  <2> QED
    BY <1>3, <2>2, <2>3 DEF OM!Delete, InstanceRemove
<1> QED
  BY <1>2, <1>3

LEMMA ServesAndWithdraws ==
    ASSUME RegistryInv, NEW ci \in CI, NEW s \in Services[ci]
    PROVE  /\ ServiceInsert(ci, s) => OM!Serve(ci, s)
           /\ ServiceRemove(ci, s.id) => OM!Withdraw(ci, s.id)
<1> DEFINE sets == [c \in CI |-> Range(services[c])]
<1>1. services = [c \in CI |-> services[c]]
  BY DEF RegistryInv, ServicesInOrder
<1>2. ASSUME NEW t, services' = [services EXCEPT ![ci] = t]
      PROVE  sets' = [sets EXCEPT ![ci] = Range(t)]
  <2>1. \A c \in CI : services'[c] = IF c = ci THEN t ELSE services[c]
    BY <1>1, <1>2
  <2>2. sets' = [c \in CI |-> Range(services'[c])]
    BY DEF Range
  <2> QED
    BY <2>1, <2>2
<1>3. ASSUME ServiceInsert(ci, s)
      PROVE  OM!Serve(ci, s)
  <2>1. Range(Override(services[ci], s)) = {y \in Range(services[ci]) : y.id # s.id} \cup {s}
    BY InsertedInto
  <2>2. sets' = [sets EXCEPT ![ci] = Range(Override(services[ci], s))]
    BY <1>2, <1>3 DEF ServiceInsert
  <2>3. Range(Override(services[ci], s)) = OM!Others(sets[ci], s.id) \cup {s}
    BY <2>1 DEF OM!Others, OM!Named
  <2>4. sets' = [sets EXCEPT ![ci] = OM!Others(@, s.id) \cup {s}]
    BY <2>2, <2>3
  <2>5. UNCHANGED <<Range(instances), owned, [c \in CI |-> Range(attributes[c])]>>
    BY <1>3 DEF ServiceInsert, Range
  <2> QED
    BY <2>4, <2>5 DEF OM!Serve
<1>4. ASSUME ServiceRemove(ci, s.id)
      PROVE  OM!Withdraw(ci, s.id)
  <2>1. Range(Erase(services[ci], s.id)) = {y \in Range(services[ci]) : y.id # s.id}
    BY InsertedInto
  <2>2. sets' = [sets EXCEPT ![ci] = Range(Erase(services[ci], s.id))]
    BY <1>2, <1>4 DEF ServiceRemove
  <2>3. Range(Erase(services[ci], s.id)) = OM!Others(sets[ci], s.id)
    BY <2>1 DEF OM!Others, OM!Named
  <2>4. sets' = [sets EXCEPT ![ci] = OM!Others(@, s.id)]
    BY <2>2, <2>3
  <2>5. UNCHANGED <<Range(instances), owned, [c \in CI |-> Range(attributes[c])]>>
    BY <1>4 DEF ServiceRemove, Range
  <2> QED
    BY <2>4, <2>5 DEF OM!Withdraw
<1> QED
  BY <1>3, <1>4

LEMMA Offers ==
    ASSUME RegistryInv, NEW ci \in CI, NEW a \in Attributes[ci], AttributeInsert(ci, a)
    PROVE  OM!Offer(ci, a)
<1> DEFINE sets == [c \in CI |-> Range(attributes[c])]
           t == Override(attributes[ci], a)
<1>1. attributes = [c \in CI |-> attributes[c]]
  BY DEF RegistryInv, AttributesInOrder
<1>2. Range(t) = {y \in Range(attributes[ci]) : y.id # a.id} \cup {a}
  BY InsertedInto
<1>3. attributes' = [attributes EXCEPT ![ci] = t]
  BY DEF AttributeInsert
<1> HIDE DEF t
<1>4. sets' = [sets EXCEPT ![ci] = Range(t)]
  <2>1. \A c \in CI : attributes'[c] = IF c = ci THEN t ELSE attributes[c]
    BY <1>1, <1>3
  <2>2. sets' = [c \in CI |-> Range(attributes'[c])]
    BY DEF Range
  <2> QED
    BY <2>1, <2>2
<1>5. Range(t) = OM!Others(sets[ci], a.id) \cup {a}
  BY <1>2 DEF OM!Others, OM!Named
<1>6. sets' = [sets EXCEPT ![ci] = OM!Others(@, a.id) \cup {a}]
  BY <1>4, <1>5
<1>7. ASSUME NEW b \in OM!Others(sets[ci], a.id)
      PROVE  ~OM!Clash(a, b)
  <2>1. b \in Range(attributes[ci]) /\ b.id # a.id
    BY DEF OM!Others, OM!Named
  <2>2. ~Aliases(a, b)
    BY <2>1 DEF AttributeInsert, Range
  <2>3. a \in AttributesOf(ci) /\ b \in AttributesOf(ci)
    <3>1. attributes[ci] \in Seq(AttributesOf(ci))
      BY DEF RegistryInv, AttributesInOrder
    <3>2. b \in AttributesOf(ci)
      BY <2>1, <3>1 DEF Range
    <3> QED
      BY <3>2 DEF AttributesOf
  <2> QED
    BY <2>2, <2>3, ClashIsAlias
<1>8. UNCHANGED <<Range(instances), owned, [c \in CI |-> Range(services[c])]>>
  BY DEF AttributeInsert, Range
<1> QED
  BY <1>6, <1>7, <1>8 DEF OM!Offer

LEMMA StepImplements ==
    ASSUME RegistryInv, [Next]_vars
    PROVE  [OM!Next]_OM!vars
<1>1. ASSUME NEW o \in Objects, InstanceInsert(o) \/ InstanceRemove(o.id)
      PROVE  OM!Next
  BY <1>1, InsertsAndDeletes DEF OM!Next
<1>2. ASSUME NEW ci \in CI, NEW s \in Services[ci], ServiceInsert(ci, s) \/ ServiceRemove(ci, s.id)
      PROVE  OM!Next
  BY <1>2, ServesAndWithdraws DEF OM!Next, OM!CI, CI
<1>3. ASSUME NEW ci \in CI, NEW a \in Attributes[ci], AttributeInsert(ci, a)
      PROVE  OM!Next
  BY <1>3, Offers DEF OM!Next, OM!CI, CI
<1>4. CASE UNCHANGED vars
  BY <1>4 DEF vars, OM!vars, Range
<1> QED
  BY <1>1, <1>2, <1>3, <1>4 DEF Next

\* The sorted vectors of CipClass change as sets that an id addresses: every
\* insertion, override and removal is one of the object model's, and nothing
\* else of the tables is lost, doubled or replaced (ImplementsObjectModel).
THEOREM ObjectModelImplemented == Spec => ImplementsObjectModel
<1>1. Init => OM!Init
  BY ModelStarts
<1>2. RegistryInv /\ [Next]_vars => [OM!Next]_OM!vars
  BY StepImplements
<1>3. Spec => []RegistryInv
  BY RegistryOrdered
<1> QED
  BY <1>1, <1>2, <1>3, PTL DEF Spec, ImplementsObjectModel, OM!Spec
-----------------------------------------------------------------------------
\* The searches

\* The binary search of both vec_search functions ends at a member with the id,
\* or else at the place that parts the smaller ids from the greater ones.
LEMMA HalveFinds ==
    ASSUME NEW S, \A y \in S : y.id \in Int, NEW s \in Seq(S), Sorted(s), NEW id \in Int
    PROVE  LET it == Halve(s, id)
           IN  /\ it.at \in 0 .. Len(s)
               /\ it.hit => it.at < Len(s) /\ s[it.at + 1].id = id
               /\ \A j \in 1 .. Len(s) : j <= it.at => s[j].id < id
               /\ \A j \in 1 .. Len(s) : j > it.at => s[j].id >= id
               /\ ~it.hit => \A j \in 1 .. Len(s) : s[j].id # id
<1> DEFINE n == Len(s)
           D == (0 .. n) \X (0 .. n)
           middle(b, e) == b + (e - b - 1) \div 2
           Body(f, be) ==
               LET b == be[1]
                   e == be[2]
                   x == s[middle(b, e) + 1].id
               IN  IF b >= e THEN [hit |-> FALSE, at |-> e]
                   ELSE CASE id < x -> f[<<b, middle(b, e)>>]
                          [] id > x -> f[<<middle(b, e) + 1, e>>]
                          [] OTHER -> [hit |-> TRUE, at |-> middle(b, e)]
           search == CHOOSE f : f = [be \in D |-> Body(f, be)]
           E == {k \in Nat : \E f : \A be \in D : be[2] - be[1] <= k => f[be] = Body(f, be)}
<1>1. Halve(s, id) = search[<<0, n>>]
  BY DEF Halve
<1>2. n \in Nat /\ DOMAIN s = 1 .. n /\ \A i \in 1 .. n : s[i] \in S /\ s[i].id \in Int
  OBVIOUS
<1>3. ASSUME NEW b \in 0 .. n, NEW e \in 0 .. n, b < e
      PROVE  /\ middle(b, e) \in 0 .. n /\ middle(b, e) + 1 \in 1 .. n
             /\ b <= middle(b, e) /\ middle(b, e) < e
  BY <1>2, <1>3
<1>4. ASSUME NEW f, NEW b \in 0 .. n, NEW e \in 0 .. n
      PROVE  /\ b >= e => Body(f, <<b, e>>) = [hit |-> FALSE, at |-> e]
             /\ b < e /\ id < s[middle(b, e) + 1].id => Body(f, <<b, e>>) = f[<<b, middle(b, e)>>]
             /\ b < e /\ id > s[middle(b, e) + 1].id => Body(f, <<b, e>>) = f[<<middle(b, e) + 1, e>>]
             /\ b < e /\ id = s[middle(b, e) + 1].id
                    => Body(f, <<b, e>>) = [hit |-> TRUE, at |-> middle(b, e)]
  <2>1. <<b, e>>[1] = b /\ <<b, e>>[2] = e
    OBVIOUS
  <2>2. CASE b >= e
    BY <1>2, <2>2
  <2>3. CASE b < e
    <3> DEFINE x == s[middle(b, e) + 1].id
    <3>1. x \in Int
      BY <1>2, <1>3, <2>3
    <3>2. Body(f, <<b, e>>) =
              CASE id < x -> f[<<b, middle(b, e)>>]
                [] id > x -> f[<<middle(b, e) + 1, e>>]
                [] OTHER -> [hit |-> TRUE, at |-> middle(b, e)]
      BY <1>2, <2>3
    <3> HIDE DEF Body, middle, x
    <3>3. id < x => Body(f, <<b, e>>) = f[<<b, middle(b, e)>>]
      BY <3>1, <3>2
    <3>4. id > x => Body(f, <<b, e>>) = f[<<middle(b, e) + 1, e>>]
      BY <3>1, <3>2
    <3>5. id = x => Body(f, <<b, e>>) = [hit |-> TRUE, at |-> middle(b, e)]
      BY <3>1, <3>2
    <3>6. ~(b >= e)
      BY <2>3
    <3> QED
      BY <3>3, <3>4, <3>5, <3>6 DEF x
  <2> HIDE DEF Body, middle
  <2>4. b >= e \/ b < e
    OBVIOUS
  <2> QED
    BY <2>2, <2>3, <2>4
<1> HIDE DEF Body, middle, search
<1>none. ASSUME NEW f, NEW b \in 0 .. n, NEW e \in 0 .. n, b >= e
         PROVE  Body(f, <<b, e>>) = [hit |-> FALSE, at |-> e]
  BY <1>4, <1>none
<1>left. ASSUME NEW f, NEW b \in 0 .. n, NEW e \in 0 .. n, b < e, id < s[middle(b, e) + 1].id
         PROVE  Body(f, <<b, e>>) = f[<<b, middle(b, e)>>]
  BY <1>4, <1>left
<1>right. ASSUME NEW f, NEW b \in 0 .. n, NEW e \in 0 .. n, b < e, id > s[middle(b, e) + 1].id
          PROVE  Body(f, <<b, e>>) = f[<<middle(b, e) + 1, e>>]
  BY <1>4, <1>right
<1>hit. ASSUME NEW f, NEW b \in 0 .. n, NEW e \in 0 .. n, b < e, id = s[middle(b, e) + 1].id
        PROVE  Body(f, <<b, e>>) = [hit |-> TRUE, at |-> middle(b, e)]
  BY <1>4, <1>hit
<1>5. ASSUME NEW f, NEW g, NEW k \in Nat, \A be \in D : be[2] - be[1] <= k => g[be] = f[be],
             NEW d \in D, d[2] - d[1] <= k + 1
      PROVE  Body(f, d) = Body(g, d)
  <2>1. PICK b \in 0 .. n, e \in 0 .. n : d = <<b, e>>
    OBVIOUS
  <2>2. e - b <= k + 1
    BY <1>5, <2>1
  <2> SUFFICES Body(f, <<b, e>>) = Body(g, <<b, e>>)
    BY <2>1
  <2>3. CASE b >= e
    <3>1. Body(f, <<b, e>>) = [hit |-> FALSE, at |-> e]
      BY <1>none, <2>3
    <3>2. Body(g, <<b, e>>) = [hit |-> FALSE, at |-> e]
      BY <1>none, <2>3
    <3> QED
      BY <3>1, <3>2
  <2>4. CASE b < e
    <3> DEFINE m == middle(b, e)
    <3>1. m \in 0 .. n /\ m + 1 \in 1 .. n /\ b <= m /\ m < e /\ s[m + 1].id \in Int
      BY <1>2, <1>3, <2>4
    <3> HIDE DEF m
    <3>2. g[<<b, m>>] = f[<<b, m>>]
      <4>1. <<b, m>> \in D /\ <<b, m>>[2] = m /\ <<b, m>>[1] = b /\ m - b <= k
        BY <1>2, <2>2, <3>1
      <4> QED
        BY <1>5, <4>1
    <3>3. g[<<m + 1, e>>] = f[<<m + 1, e>>]
      <4>1. <<m + 1, e>> \in D /\ <<m + 1, e>>[2] = e /\ <<m + 1, e>>[1] = m + 1 /\ e - (m + 1) <= k
        BY <1>2, <2>2, <3>1
      <4> QED
        BY <1>5, <4>1
    <3>4. CASE id < s[m + 1].id
      <4>1. Body(f, <<b, e>>) = f[<<b, m>>]
        BY <1>left, <2>4, <3>4 DEF m
      <4>2. Body(g, <<b, e>>) = g[<<b, m>>]
        BY <1>left, <2>4, <3>4 DEF m
      <4> QED
        BY <3>2, <4>1, <4>2
    <3>5. CASE id > s[m + 1].id
      <4>1. Body(f, <<b, e>>) = f[<<m + 1, e>>]
        BY <1>right, <2>4, <3>5 DEF m
      <4>2. Body(g, <<b, e>>) = g[<<m + 1, e>>]
        BY <1>right, <2>4, <3>5 DEF m
      <4> QED
        BY <3>3, <4>1, <4>2
    <3>6. CASE id = s[m + 1].id
      <4>1. Body(f, <<b, e>>) = [hit |-> TRUE, at |-> m]
        BY <1>hit, <2>4, <3>6 DEF m
      <4>2. Body(g, <<b, e>>) = [hit |-> TRUE, at |-> m]
        BY <1>hit, <2>4, <3>6 DEF m
      <4> QED
        BY <4>1, <4>2
    <3> QED
      BY <3>1, <3>4, <3>5, <3>6
  <2>5. b >= e \/ b < e
    BY <1>2
  <2> QED
    BY <2>3, <2>4, <2>5
<1>6. \A be \in D : /\ be[1] \in 0 .. n /\ be[2] \in 0 .. n /\ be = <<be[1], be[2]>>
  OBVIOUS
<1>7. E = Nat
  <2>1. 0 \in E
    <3> DEFINE f == [be \in D |-> [hit |-> FALSE, at |-> be[2]]]
    <3>1. ASSUME NEW be \in D, be[2] - be[1] <= 0
          PROVE  f[be] = Body(f, be)
      <4>1. be[1] >= be[2]
        BY <1>2, <1>6, <3>1
      <4>2. f[be] = [hit |-> FALSE, at |-> be[2]]
        OBVIOUS
      <4> HIDE DEF f, D
      <4>3. Body(f, <<be[1], be[2]>>) = [hit |-> FALSE, at |-> be[2]]
        BY <1>none, <1>6, <4>1
      <4> QED
        BY <1>6, <4>2, <4>3
    <3> HIDE DEF f
    <3> QED
      BY <3>1
  <2>2. ASSUME NEW k \in E
        PROVE  k + 1 \in E
    <3>1. PICK f : \A be \in D : be[2] - be[1] <= k => f[be] = Body(f, be)
      OBVIOUS
    <3> DEFINE g == [be \in D |-> Body(f, be)]
    <3>2. \A be \in D : be[2] - be[1] <= k => g[be] = f[be]
      BY <3>1
    <3>3. \A be \in D : g[be] = Body(f, be)
      OBVIOUS
    <3> HIDE DEF g
    <3>4. ASSUME NEW be \in D, be[2] - be[1] <= k + 1
          PROVE  g[be] = Body(g, be)
      <4>1. \A d \in D : d[2] - d[1] <= k => g[d] = f[d]
        BY <3>2
      <4>2. Body(f, be) = Body(g, be)
        <5>1. k \in Nat /\ be[2] - be[1] <= k + 1
          BY <3>4
        <5> HIDE DEF D, E
        <5> QED
          BY ONLY <1>5, <4>1, <5>1, be \in D
      <4> QED
        BY <3>3, <4>2
    <3> QED
      BY <3>4
  <2> HIDE DEF E
  <2>3. E \in SUBSET Nat
    BY DEF E
  <2> QED
    BY <2>1, <2>2, <2>3, SetInduction
<1>8. search = [be \in D |-> Body(search, be)]
  <2>1. PICK f : \A be \in D : be[2] - be[1] <= n => f[be] = Body(f, be)
    BY <1>2, <1>7
  <2>2. \A be \in D : be[2] - be[1] <= n
    BY <1>2, <1>6
  <2> DEFINE g == [be \in D |-> Body(f, be)]
  <2>3. \A be \in D : g[be] = f[be] /\ g[be] = Body(f, be)
    BY <2>1, <2>2
  <2>4. g = [be \in D |-> g[be]]
    OBVIOUS
  <2> HIDE DEF g
  <2>5. ASSUME NEW be \in D
        PROVE  g[be] = Body(g, be)
    <3>1. Body(f, be) = Body(g, be)
      <4>1. be[2] - be[1] <= n + 1
        BY <1>2, <1>6
      <4>2. \A d \in D : d[2] - d[1] <= n => g[d] = f[d]
        BY <2>3
      <4> HIDE DEF D, E
      <4> QED
        BY <1>2, <1>5, <4>1, <4>2
    <3> QED
      BY <2>3, <3>1
  <2>6. g = [be \in D |-> Body(g, be)]
    BY <2>4, <2>5
  <2> QED
    BY <2>6 DEF search
<1>9. ASSUME NEW b \in 0 .. n, NEW e \in 0 .. n
      PROVE  search[<<b, e>>] = Body(search, <<b, e>>)
  <2>1. <<b, e>> \in D
    OBVIOUS
  <2> HIDE DEF D
  <2> QED
    BY <1>8, <2>1
<1> HIDE DEF E

<1> DEFINE Parted(b, e) == /\ \A j \in 1 .. n : j <= b => s[j].id < id
                           /\ \A j \in 1 .. n : j > e => s[j].id > id
           Found(r) == /\ r.at \in 0 .. n
                       /\ r.hit => r.at < n /\ s[r.at + 1].id = id
                       /\ \A j \in 1 .. n : j <= r.at => s[j].id < id
                       /\ \A j \in 1 .. n : j > r.at => s[j].id >= id
                       /\ ~r.hit => \A j \in 1 .. n : s[j].id # id
           G == {k \in Nat : \A b, e \in 0 .. n :
                    b <= e /\ e - b <= k /\ Parted(b, e) => Found(search[<<b, e>>])}
<1>10. ASSUME NEW b \in 0 .. n, Parted(b, b)
       PROVE  Found(search[<<b, b>>])
  <2>1. search[<<b, b>>] = [hit |-> FALSE, at |-> b]
    <3>1. search[<<b, b>>] = Body(search, <<b, b>>)
      BY <1>9
    <3>2. b >= b
      BY <1>2
    <3>3. Body(search, <<b, b>>) = [hit |-> FALSE, at |-> b]
      BY <1>none, <3>2
    <3> QED
      BY <3>1, <3>3
  <2> DEFINE r == search[<<b, b>>]
  <2>2. r.hit = FALSE /\ r.at = b
    BY <2>1
  <2> HIDE DEF r
  <2>3. \A j \in 1 .. n : j <= b \/ j > b
    BY <1>2
  <2>4. Found(r)
    BY <1>2, <1>10, <2>2, <2>3
  <2> QED
    BY <2>4 DEF r
<1>11. 0 \in G
  <2> SUFFICES ASSUME NEW b \in 0 .. n, NEW e \in 0 .. n, b <= e, e - b <= 0, Parted(b, e)
               PROVE  Found(search[<<b, e>>])
    BY Zenon
  <2>1. e = b
    BY <1>2
  <2> HIDE DEF Parted, Found
  <2> QED
    BY <1>10, <2>1
<1>12. ASSUME NEW k \in G
       PROVE  k + 1 \in G
  <2> HIDE DEF Parted, Found
  <2> SUFFICES ASSUME NEW b \in 0 .. n, NEW e \in 0 .. n, b <= e, e - b <= k + 1, Parted(b, e)
               PROVE  Found(search[<<b, e>>])
    OBVIOUS
  <2> USE DEF Parted, Found
  <2>1. CASE b = e
    <3> HIDE DEF Parted, Found
    <3> QED
      BY <1>10, <2>1
  <2>2. CASE b < e
    <3> DEFINE m == middle(b, e)
    <3>1. m \in 0 .. n /\ m + 1 \in 1 .. n /\ b <= m /\ m < e /\ s[m + 1].id \in Int
      BY <1>2, <1>3, <2>2
    <3>2. /\ id < s[m + 1].id => search[<<b, e>>] = search[<<b, m>>]
          /\ id > s[m + 1].id => search[<<b, e>>] = search[<<m + 1, e>>]
          /\ id = s[m + 1].id => search[<<b, e>>] = [hit |-> TRUE, at |-> m]
      <4>1. search[<<b, e>>] = Body(search, <<b, e>>)
        BY <1>9
      <4>2. ASSUME id < s[m + 1].id
            PROVE  Body(search, <<b, e>>) = search[<<b, m>>]
        BY <1>left, <2>2, <4>2
      <4>3. ASSUME id > s[m + 1].id
            PROVE  Body(search, <<b, e>>) = search[<<m + 1, e>>]
        BY <1>right, <2>2, <4>3
      <4>4. ASSUME id = s[m + 1].id
            PROVE  Body(search, <<b, e>>) = [hit |-> TRUE, at |-> m]
        BY <1>hit, <2>2, <4>4
      <4> QED
        BY <4>1, <4>2, <4>3, <4>4
    <3> HIDE DEF m
    <3>3. \A i, j \in 1 .. n : i < j => s[i].id < s[j].id
      BY <1>2 DEF Sorted
    <3>4. CASE id < s[m + 1].id
      <4>1. Parted(b, m)
        <5>1. ASSUME NEW j \in 1 .. n, j > m
              PROVE  s[j].id > id
          <6>1. j = m + 1 \/ m + 1 < j
            BY <3>1, <5>1
          <6>2. s[j].id \in Int /\ s[m + 1].id \in Int
            BY <1>2, <3>1
          <6> QED
            BY <3>1, <3>3, <3>4, <6>1, <6>2
        <5> QED
          BY <5>1
      <4>2. b <= m /\ m - b <= k
        BY <1>2, <3>1, k \in Nat
      <4>3. Found(search[<<b, m>>])
        <5> HIDE DEF Parted, Found
        <5> QED
          BY <3>1, <4>1, <4>2
      <4> QED
        BY <3>2, <3>4, <4>3
    <3>5. CASE id > s[m + 1].id
      <4>1. Parted(m + 1, e)
        <5>1. ASSUME NEW j \in 1 .. n, j <= m + 1
              PROVE  s[j].id < id
          <6>1. j = m + 1 \/ j < m + 1
            BY <3>1, <5>1
          <6>2. s[j].id \in Int /\ s[m + 1].id \in Int
            BY <1>2, <3>1
          <6> QED
            BY <3>1, <3>3, <3>5, <6>1, <6>2
        <5> QED
          BY <5>1
      <4>2. m + 1 <= e /\ e - (m + 1) <= k /\ m + 1 \in 0 .. n
        BY <1>2, <3>1, k \in Nat
      <4>3. Found(search[<<m + 1, e>>])
        <5> HIDE DEF Parted, Found
        <5> QED
          BY <4>1, <4>2
      <4> QED
        BY <3>2, <3>5, <4>3
    <3>6. CASE id = s[m + 1].id
      <4> DEFINE r == search[<<b, e>>]
      <4>1. r.hit = TRUE /\ r.at = m
        BY <3>2, <3>6
      <4> HIDE DEF r
      <4>2. ASSUME NEW j \in 1 .. n
            PROVE  /\ j <= m => s[j].id < id
                   /\ j > m => s[j].id >= id
        <5>1. j < m + 1 \/ j = m + 1 \/ m + 1 < j
          BY <3>1
        <5>2. s[j].id \in Int /\ s[m + 1].id \in Int
          BY <1>2, <3>1
        <5> QED
          BY <3>1, <3>3, <3>6, <5>1, <5>2
      <4>3. m < n
        BY <1>2, <3>1
      <4>4. Found(r)
        BY <3>1, <3>6, <4>1, <4>2, <4>3
      <4> QED
        BY <4>4 DEF r
    <3>7. id < s[m + 1].id \/ id > s[m + 1].id \/ id = s[m + 1].id
      BY <3>1
    <3> QED
      BY <3>4, <3>5, <3>6, <3>7
  <2>3. b = e \/ b < e
    BY <1>2
  <2> QED
    BY <2>1, <2>2, <2>3
<1>13. n \in G
  <2> HIDE DEF Parted, Found
  <2>1. G \in SUBSET Nat
    OBVIOUS
  <2> HIDE DEF G
  <2> QED
    BY <1>2, <1>11, <1>12, <2>1, SetInduction
<1>14. Parted(0, n) /\ 0 \in 0 .. n /\ n \in 0 .. n /\ 0 <= n /\ n - 0 <= n
  BY <1>2
<1>15. Found(search[<<0, n>>])
  <2> HIDE DEF Parted, Found
  <2> QED
    BY <1>13, <1>14
<1> QED
  BY <1>1, <1>15


\* FindUniqueFreeId() stops counting at the first gap.
LEMMA FirstGap ==
    ASSUME instances \in Seq(Objects), Sorted(instances), \A o \in Objects : o.id \in Nat /\ o.id >= 1
    PROVE  \E k \in 0 .. Len(instances) :
              /\ FindUniqueFreeId = k + 1
              /\ \A j \in 1 .. k : instances[j].id = j
              /\ \A j \in 1 .. Len(instances) : j > k => instances[j].id > k + 1
<1> DEFINE n == Len(instances)
           Body(f, i) ==
               IF i = 0 THEN 0
               ELSE IF instances[i].id > f[i - 1] + 1 THEN f[i - 1]
               ELSE instances[i].id
           last == CHOOSE f : f = [i \in 0 .. n |-> Body(f, i)]
           E == {k \in Nat : \E f : \A i \in 0 .. n : i <= k => f[i] = Body(f, i)}
<1>1. FindUniqueFreeId = last[n] + 1
  BY DEF FindUniqueFreeId
<1>2. /\ n \in Nat /\ DOMAIN instances = 1 .. n
      /\ \A i \in 1 .. n : instances[i].id \in Nat /\ instances[i].id >= 1
  OBVIOUS
<1>3. ASSUME NEW f, NEW g, NEW i \in 0 .. n, i # 0 => f[i - 1] = g[i - 1]
      PROVE  Body(f, i) = Body(g, i)
  BY <1>3
<1>4. \A f : Body(f, 0) = 0
  OBVIOUS
<1>5. E = Nat
  <2>1. 0 \in E
    <3> DEFINE f == [i \in 0 .. n |-> 0]
    <3>1. \A i \in 0 .. n : i <= 0 => f[i] = Body(f, i)
      OBVIOUS
    <3> QED
      BY <3>1
  <2>2. ASSUME NEW k \in E
        PROVE  k + 1 \in E
    <3>1. PICK f : \A i \in 0 .. n : i <= k => f[i] = Body(f, i)
      OBVIOUS
    <3> DEFINE g == [i \in 0 .. n |-> Body(f, i)]
    <3>2. \A i \in 0 .. n : (i <= k => g[i] = f[i]) /\ g[i] = Body(f, i)
      BY <3>1
    <3> HIDE DEF Body, g
    <3>3. ASSUME NEW i \in 0 .. n, i <= k + 1
          PROVE  g[i] = Body(g, i)
      <4>1. i # 0 => i - 1 \in 0 .. n /\ i - 1 <= k
        BY <1>2, <3>3
      <4>2. Body(f, i) = Body(g, i)
        BY <1>3, <3>2, <4>1
      <4> QED
        BY <3>2, <4>2
    <3> QED
      BY <3>3
  <2> HIDE DEF E
  <2>3. E \in SUBSET Nat
    BY DEF E
  <2> QED
    BY <2>1, <2>2, <2>3, SetInduction
<1>6. last = [i \in 0 .. n |-> Body(last, i)]
  <2>1. PICK f : \A i \in 0 .. n : i <= n => f[i] = Body(f, i)
    BY <1>2, <1>5
  <2> DEFINE g == [i \in 0 .. n |-> Body(f, i)]
  <2>2. \A i \in 0 .. n : g[i] = f[i] /\ g[i] = Body(f, i)
    BY <1>2, <2>1
  <2>3. g = [i \in 0 .. n |-> g[i]]
    OBVIOUS
  <2> HIDE DEF g, Body
  <2>4. ASSUME NEW i \in 0 .. n
        PROVE  g[i] = Body(g, i)
    <3>1. i # 0 => i - 1 \in 0 .. n
      BY <1>2
    <3>2. Body(f, i) = Body(g, i)
      BY <1>3, <2>2, <3>1
    <3> QED
      BY <2>2, <3>2
  <2>5. g = [i \in 0 .. n |-> Body(g, i)]
    BY <2>3, <2>4
  <2> QED
    BY <2>5
<1> HIDE DEF last, E
<1>7. \A i \in 0 .. n : last[i] = Body(last, i)
  <2> HIDE DEF Body
  <2> QED
    BY <1>6
<1> DEFINE Gap(i, k) == /\ last[i] = k
                        /\ \A j \in 1 .. k : instances[j].id = j
                        /\ \A j \in 1 .. i : j > k => instances[j].id > k + 1
           G == {i \in Nat : i <= n => \E k \in 0 .. i : Gap(i, k)}
<1>8. 0 \in G
  <2>1. last[0] = 0
    BY <1>2, <1>7
  <2>2. Gap(0, 0)
    BY <2>1
  <2> HIDE DEF Gap
  <2> QED
    BY <2>2
<1>9. ASSUME NEW i \in G
      PROVE  i + 1 \in G
  <2> HIDE DEF Gap
  <2> SUFFICES ASSUME i + 1 <= n
               PROVE  \E k \in 0 .. i + 1 : Gap(i + 1, k)
    OBVIOUS
  <2>1. i \in Nat /\ i \in 0 .. n /\ i + 1 \in 1 .. n /\ i + 1 \in 0 .. n
    BY <1>2
  <2>2. PICK k \in 0 .. i : Gap(i, k)
    BY <1>2
  <2> USE DEF Gap
  <2> DEFINE x == instances[i + 1].id
  <2>3. x \in Nat /\ x >= 1 /\ k \in Nat /\ k <= i
    BY <1>2, <2>1
  <2>4. last[i + 1] = IF x > k + 1 THEN k ELSE x
    <3>1. last[i + 1] = Body(last, i + 1)
      BY <1>7, <2>1
    <3>2. i + 1 # 0 /\ (i + 1) - 1 = i
      BY <2>1
    <3>3. last[i] = k
      BY <2>2
    <3> QED
      BY <3>1, <3>2, <3>3
  <2>5. CASE x > k + 1
    <3>1. ASSUME NEW j \in 1 .. i + 1, j > k
          PROVE  instances[j].id > k + 1
      <4>1. j \in 1 .. i \/ j = i + 1
        BY <2>1
      <4> QED
        BY <2>2, <2>5, <3>1, <4>1
    <3>2. Gap(i + 1, k)
      BY <2>2, <2>4, <2>5, <3>1
    <3>3. k \in 0 .. i + 1
      BY <2>1, <2>3
    <3> HIDE DEF Gap
    <3> QED
      BY <3>2, <3>3
  <2>6. CASE x <= k + 1
    <3>1. k = i
      <4> SUFFICES ASSUME k < i
                   PROVE  FALSE
        BY <2>1, <2>3
      <4>1. i \in 1 .. i /\ i \in 1 .. n /\ i < i + 1
        BY <1>2, <2>1, <2>3
      <4>2. instances[i].id > k + 1
        BY <2>2, <4>1
      <4>3. instances[i].id < x
        BY <1>2, <2>1, <4>1 DEF Sorted
      <4> QED
        BY <1>2, <2>1, <2>3, <2>6, <4>1, <4>2, <4>3
    <3>2. x = i + 1
      <4>1. CASE i = 0
        BY <2>3, <2>6, <3>1, <4>1
      <4>2. CASE i # 0
        <5>1. i \in 1 .. i /\ i \in 1 .. n /\ i < i + 1
          BY <1>2, <2>1, <4>2
        <5>2. instances[i].id = i
          BY <2>2, <3>1, <5>1
        <5>3. instances[i].id < x
          BY <1>2, <2>1, <5>1 DEF Sorted
        <5> QED
          BY <2>1, <2>3, <2>6, <3>1, <5>2, <5>3
      <4> QED
        BY <4>1, <4>2
    <3>3. \A j \in 1 .. i + 1 : j \in 1 .. k \/ j = i + 1
      BY <2>1, <3>1
    <3>4. last[i + 1] = i + 1
      BY <2>1, <2>3, <2>4, <2>6, <3>2
    <3>5. \A j \in 1 .. i + 1 : instances[j].id = j
      BY <2>2, <3>2, <3>3
    <3>6. \A j \in 1 .. i + 1 : ~(j > i + 1)
      BY <2>1
    <3>7. Gap(i + 1, i + 1)
      BY <3>4, <3>5, <3>6
    <3>8. i + 1 \in 0 .. i + 1
      BY <2>1
    <3> HIDE DEF Gap
    <3> QED
      BY <3>7, <3>8
  <2>7. x > k + 1 \/ x <= k + 1
    BY <2>3
  <2> HIDE DEF Gap, x
  <2> QED
    BY <2>5, <2>6, <2>7
<1>10. n \in G
  <2> HIDE DEF Gap
  <2>1. G \in SUBSET Nat
    OBVIOUS
  <2> HIDE DEF G
  <2> QED
    BY <1>2, <1>8, <1>9, <2>1, SetInduction
<1>11. PICK k \in 0 .. n : Gap(n, k)
  <2> HIDE DEF Gap
  <2> QED
    BY <1>2, <1>10
<1> QED
  BY <1>1, <1>11


LEMMA NextFound ==
    ASSUME RegistryInv, NEW id \in Int
    PROVE  LET atLeast == {o \in Range(instances) : o.id >= id}
               found == InstanceNext(id)
           IN  IF atLeast = {} THEN found = NULL
               ELSE found \in atLeast /\ \A p \in atLeast : found.id <= p.id
<1> DEFINE n == Len(instances)
           atLeast == {o \in Range(instances) : o.id >= id}
           found == InstanceNext(id)
           at == Halve(instances, id).at
<1>1. /\ instances \in Seq(Objects) /\ Sorted(instances)
      /\ \A y \in Objects : y.id \in Int
  BY Ids DEF RegistryInv, InstancesInOrder
<1>2. /\ n \in Nat /\ DOMAIN instances = 1 .. n
      /\ \A i \in 1 .. n : instances[i].id \in Int
  BY <1>1
<1>3. /\ at \in 0 .. n
      /\ \A j \in 1 .. n : j <= at => instances[j].id < id
      /\ \A j \in 1 .. n : j > at => instances[j].id >= id
  BY ONLY <1>1, HalveFinds, id \in Int
<1>4. found = IF at = n THEN NULL ELSE instances[at + 1]
  BY DEF InstanceNext, vec_search_gte, At
<1> HIDE DEF at, found
<1>5. \A o \in atLeast : \E j \in 1 .. n : j > at /\ o = instances[j]
  BY <1>2, <1>3 DEF Range
<1>6. \A j \in 1 .. n : j > at => instances[j] \in atLeast
  BY <1>2, <1>3 DEF Range
<1> HIDE DEF atLeast
<1>7. CASE at = n
  <2>1. atLeast = {}
    BY <1>2, <1>3, <1>5, <1>7
  <2> QED
    BY <1>4, <1>7, <2>1 DEF atLeast, found
<1>8. CASE at # n
  <2>1. at + 1 \in 1 .. n /\ at + 1 > at
    <3>1. n \in Nat /\ at \in 0 .. n /\ at # n
      BY <1>2, <1>3, <1>8
    <3> HIDE DEF n
    <3> QED
      BY ONLY <3>1
  <2>2. found = instances[at + 1] /\ found \in atLeast
    BY <1>4, <1>6, <1>8, <2>1
  <2>3. ASSUME NEW p \in atLeast
        PROVE  found.id <= p.id
    <3>1. PICK j \in 1 .. n : j > at /\ p = instances[j]
      BY <1>5
    <3>2. j = at + 1 \/ at + 1 < j
      BY <1>2, <1>3, <3>1
    <3>3. at + 1 < j => instances[at + 1].id < instances[j].id
      BY <1>1, <1>2, <2>1 DEF Sorted
    <3> QED
      BY <1>2, <2>1, <2>2, <3>1, <3>2, <3>3
  <2> QED
    BY <2>2, <2>3 DEF atLeast, found
<1> QED
  BY <1>7, <1>8

LEMMA SearchesAgree == RegistryInv => IdsAgree
<1> SUFFICES ASSUME RegistryInv
             PROVE  IdsAgree
  OBVIOUS
<1> DEFINE n == Len(instances)
           ids == {o.id : o \in Range(instances)}
<1>1. /\ instances \in Seq(Objects) /\ Sorted(instances)
      /\ \A o \in Objects : o.id \in Nat /\ o.id >= 1
  <2>1. ASSUME NEW o \in Objects
        PROVE  o.id \in Nat /\ o.id >= 1
    <3>1. o.id \in 1 .. 2^16 - 1
      BY IdAssumption DEF IdAssumption
    <3> QED
      BY ONLY <3>1
  <2> QED
    BY <2>1 DEF RegistryInv, InstancesInOrder
<1>2. PICK k \in 0 .. n :
          /\ FindUniqueFreeId = k + 1
          /\ \A j \in 1 .. k : instances[j].id = j
          /\ \A j \in 1 .. n : j > k => instances[j].id > k + 1
  BY <1>1, FirstGap
<1>3. n \in Nat /\ DOMAIN instances = 1 .. n
  BY <1>1
<1>4. \A x : x \in ids <=> \E j \in 1 .. n : x = instances[j].id
  BY <1>3 DEF Range
<1> HIDE DEF ids
<1>5. FindUniqueFreeId \notin ids
  <2> SUFFICES ASSUME NEW j \in 1 .. n, instances[j].id = k + 1
               PROVE  FALSE
    BY <1>2, <1>4
  <2>1. CASE j > k
    BY <1>1, <1>2, <1>3, <2>1
  <2>2. CASE j <= k
    BY <1>2, <1>3, <2>2
  <2> QED
    BY <1>3, <2>1, <2>2
<1>6. 1 .. FindUniqueFreeId - 1 \subseteq ids
  <2> SUFFICES ASSUME NEW j \in 1 .. FindUniqueFreeId - 1
               PROVE  j \in ids
    OBVIOUS
  <2>1. j \in 1 .. k /\ j \in 1 .. n
    BY <1>2, <1>3
  <2>2. j = instances[j].id
    BY <1>2, <2>1
  <2> QED
    BY <1>4, <2>1, <2>2
<1>7. ASSUME NEW o \in Objects, NEW id \in {o.id, o.id + 1}
      PROVE  LET atLeast == {p \in Range(instances) : p.id >= id}
                 found == InstanceNext(id)
             IN  IF atLeast = {} THEN found = NULL
                 ELSE found \in atLeast /\ \A p \in atLeast : found.id <= p.id
  <2>1. id \in Int
    BY <1>1
  <2> QED
    BY ONLY RegistryInv, <2>1, NextFound
<1> QED
  BY <1>5, <1>6, <1>7 DEF IdsAgree, ids

\* In every reachable state FindUniqueFreeId() returns the first unused id and
\* InstanceNext() the instance with the id, or else with the next greater: the
\* binary search and the count of the gaps agree with the set of the instances
\* (IdsAgree).
THEOREM SearchesFind == Spec => []IdsAgree
<1>1. Spec => []RegistryInv
  BY RegistryOrdered
<1>2. RegistryInv => IdsAgree
  BY SearchesAgree
<1> QED
  BY <1>1, <1>2, PTL


-----------------------------------------------------------------------------
\* Sums of bytes

ChosenOf(s) == CHOOSE x \in s : TRUE
Weighed(f, s) == IF s = {} THEN 0 ELSE ChosenOf(s).bytes + f[s \ {ChosenOf(s)}]
Weigh(S) == CHOOSE f : f = [s \in SUBSET S |-> Weighed(f, s)]
Total(S) == Weigh(S)[S]

LEMMA TotalIsSum ==
    ASSUME NEW S
    PROVE  OM!MapThenSumSet(LAMBDA a : a.bytes, S) = Total(S)
BY DEF OM!MapThenSumSet, OM!MapThenFoldSet, Total, Weigh, Weighed, ChosenOf

LEMMA SmallerWithout ==
    ASSUME NEW U, IsFiniteSet(U), NEW s \in SUBSET U, s # {}
    PROVE  /\ ChosenOf(s) \in s /\ s \ {ChosenOf(s)} \in SUBSET U
           /\ IsFiniteSet(s) /\ Cardinality(s) \in Nat
           /\ \A x \in s : /\ IsFiniteSet(s \ {x}) /\ Cardinality(s \ {x}) \in Nat
                           /\ Cardinality(s \ {x}) = Cardinality(s) - 1
<1>1. ChosenOf(s) \in s
  BY DEF ChosenOf
<1>2. IsFiniteSet(s)
  BY FS_Subset
<1>3. Cardinality(s) \in Nat
  BY <1>2, FS_CardinalityType
<1>4. ASSUME NEW x \in s
      PROVE  /\ IsFiniteSet(s \ {x}) /\ Cardinality(s \ {x}) \in Nat
             /\ Cardinality(s \ {x}) = Cardinality(s) - 1
  BY <1>2, FS_RemoveElement, FS_CardinalityType
<1> QED
  BY <1>1, <1>2, <1>3, <1>4

LEMMA NoneAtZero ==
    ASSUME NEW U, IsFiniteSet(U), NEW s \in SUBSET U, Cardinality(s) <= 0
    PROVE  s = {}
<1>1. IsFiniteSet(s) /\ Cardinality(s) \in Nat
  BY FS_Subset, FS_CardinalityType
<1>2. Cardinality(s) = 0
  BY <1>1
<1> QED
  BY <1>1, <1>2, FS_EmptySet

LEMMA WeighStep ==
    ASSUME NEW U, IsFiniteSet(U)
    PROVE  \A s \in SUBSET U : Weigh(U)[s] = Weighed(Weigh(U), s)
<1> DEFINE E == {k \in Nat : \E f : \A s \in SUBSET U : Cardinality(s) <= k => f[s] = Weighed(f, s)}
<1>1. ASSUME NEW f, NEW g, NEW k \in Nat, \A s \in SUBSET U : Cardinality(s) <= k => g[s] = f[s],
             NEW s \in SUBSET U, Cardinality(s) <= k + 1
      PROVE  Weighed(f, s) = Weighed(g, s)
  <2>1. CASE s = {}
    BY <2>1 DEF Weighed
  <2>2. CASE s # {}
    <3> DEFINE t == s \ {ChosenOf(s)}
    <3>1. t \in SUBSET U /\ Cardinality(s) \in Nat /\ Cardinality(t) = Cardinality(s) - 1
      BY <2>2, SmallerWithout
    <3> HIDE DEF t
    <3>2. Cardinality(t) <= k
      BY <1>1, <3>1
    <3>3. g[t] = f[t]
      BY <1>1, <3>1, <3>2
    <3> QED
      BY <2>2, <3>3 DEF Weighed, t
  <2> QED
    BY <2>1, <2>2
<1>2. E = Nat
  <2>1. 0 \in E
    <3> DEFINE f == [s \in SUBSET U |-> 0]
    <3>1. ASSUME NEW s \in SUBSET U, Cardinality(s) <= 0
          PROVE  f[s] = Weighed(f, s)
      <4>1. s = {}
        BY <3>1, NoneAtZero
      <4> QED
        BY <4>1 DEF Weighed
    <3> HIDE DEF f
    <3> QED
      BY <3>1
  <2>2. ASSUME NEW k \in E
        PROVE  k + 1 \in E
    <3>1. PICK f : \A s \in SUBSET U : Cardinality(s) <= k => f[s] = Weighed(f, s)
      OBVIOUS
    <3> DEFINE g == [s \in SUBSET U |-> Weighed(f, s)]
    <3>2. \A s \in SUBSET U : g[s] = Weighed(f, s)
      OBVIOUS
    <3> HIDE DEF g
    <3>3. \A s \in SUBSET U : Cardinality(s) <= k => g[s] = f[s]
      BY <3>1, <3>2
    <3>4. k \in Nat
      OBVIOUS
    <3>5. ASSUME NEW s \in SUBSET U, Cardinality(s) <= k + 1
          PROVE  g[s] = Weighed(g, s)
      <4> HIDE DEF E
      <4>1. Weighed(f, s) = Weighed(g, s)
        BY <1>1, <3>3, <3>4, <3>5
      <4> QED
        BY <3>2, <4>1
    <3> QED
      BY <3>5
  <2> HIDE DEF E
  <2>3. E \in SUBSET Nat
    BY DEF E
  <2> QED
    BY <2>1, <2>2, <2>3, SetInduction
<1>3. PICK f : \A s \in SUBSET U : Cardinality(s) <= Cardinality(U) => f[s] = Weighed(f, s)
  BY <1>2, FS_CardinalityType
<1>4. \A s \in SUBSET U : Cardinality(s) <= Cardinality(U)
  BY FS_Subset
<1> DEFINE g == [s \in SUBSET U |-> Weighed(f, s)]
<1>5. \A s \in SUBSET U : g[s] = Weighed(f, s) /\ g[s] = f[s]
  BY <1>3, <1>4
<1>6. g = [s \in SUBSET U |-> g[s]]
  OBVIOUS
<1> HIDE DEF g, E
<1>7. ASSUME NEW s \in SUBSET U
      PROVE  g[s] = Weighed(g, s)
  <2>1. Cardinality(U) \in Nat /\ Cardinality(s) \in Nat /\ Cardinality(s) <= Cardinality(U)
    BY <1>4, FS_CardinalityType, FS_Subset
  <2>2. Cardinality(s) <= Cardinality(U) + 1
    BY <2>1
  <2>3. \A t \in SUBSET U : Cardinality(t) <= Cardinality(U) => g[t] = f[t]
    BY <1>5
  <2>4. Weighed(f, s) = Weighed(g, s)
    BY <1>1, <2>1, <2>2, <2>3
  <2> QED
    BY <1>5, <2>4
<1>8. g = [s \in SUBSET U |-> Weighed(g, s)]
  BY <1>6, <1>7
<1>9. Weigh(U) = [s \in SUBSET U |-> Weighed(Weigh(U), s)]
  BY <1>8 DEF Weigh
<1> QED
  BY <1>9

\* A total does not depend on the set that it was weighed in.
LEMMA WeighWithin ==
    ASSUME NEW U, IsFiniteSet(U), NEW T \in SUBSET U
    PROVE  Total(T) = Weigh(U)[T]
<1> DEFINE G == {k \in Nat : \A s \in SUBSET T : Cardinality(s) <= k => Weigh(T)[s] = Weigh(U)[s]}
<1>1. IsFiniteSet(T)
  BY FS_Subset
<1>2. \A s \in SUBSET T : Weigh(T)[s] = Weighed(Weigh(T), s)
  BY <1>1, WeighStep
<1>3. \A s \in SUBSET T : Weigh(U)[s] = Weighed(Weigh(U), s)
  BY WeighStep
<1>4. 0 \in G
  <2> SUFFICES ASSUME NEW s \in SUBSET T, Cardinality(s) <= 0
               PROVE  Weigh(T)[s] = Weigh(U)[s]
    OBVIOUS
  <2>1. s = {}
    BY <1>1, NoneAtZero
  <2> QED
    BY <1>2, <1>3, <2>1 DEF Weighed
<1>5. ASSUME NEW k \in G
      PROVE  k + 1 \in G
  <2> SUFFICES ASSUME NEW s \in SUBSET T, Cardinality(s) <= k + 1
               PROVE  Weigh(T)[s] = Weigh(U)[s]
    OBVIOUS
  <2>1. CASE s = {}
    BY <1>2, <1>3, <2>1 DEF Weighed
  <2>2. CASE s # {}
    <3> DEFINE t == s \ {ChosenOf(s)}
    <3>1. t \in SUBSET T /\ Cardinality(s) \in Nat /\ Cardinality(t) = Cardinality(s) - 1
      BY <1>1, <2>2, SmallerWithout
    <3> HIDE DEF t
    <3>2. k \in Nat /\ Cardinality(t) <= k
      BY <3>1
    <3>3. Weigh(T)[t] = Weigh(U)[t]
      BY <3>1, <3>2
    <3> QED
      BY <1>2, <1>3, <2>2, <3>3 DEF Weighed, t
  <2> QED
    BY <2>1, <2>2
<1>6. Cardinality(T) \in G
  <2>1. G \in SUBSET Nat
    OBVIOUS
  <2> HIDE DEF G
  <2> QED
    BY <1>1, <1>4, <1>5, <2>1, SetInduction, FS_CardinalityType
<1> QED
  BY <1>1, <1>6, FS_CardinalityType DEF Total

LEMMA TotalStep ==
    ASSUME NEW U, IsFiniteSet(U), NEW s \in SUBSET U
    PROVE  Total(s) = IF s = {} THEN 0 ELSE ChosenOf(s).bytes + Total(s \ {ChosenOf(s)})
<1>1. Total(s) = Weighed(Weigh(U), s)
  BY WeighStep, WeighWithin
<1>2. CASE s # {}
  <2>1. s \ {ChosenOf(s)} \in SUBSET U
    OBVIOUS
  <2>2. Total(s \ {ChosenOf(s)}) = Weigh(U)[s \ {ChosenOf(s)}]
    BY <2>1, WeighWithin
  <2> QED
    BY <1>1, <1>2, <2>2 DEF Weighed
<1>3. CASE s = {}
  BY <1>1, <1>3 DEF Weighed
<1> QED
  BY <1>2, <1>3

\* Nor on the order in which it is taken.
LEMMA TotalWithout ==
    ASSUME NEW U, IsFiniteSet(U), \A x \in U : x.bytes \in Nat
    PROVE  \A s \in SUBSET U :
              /\ Total(s) \in Nat
              /\ \A x \in s : Total(s) = x.bytes + Total(s \ {x})
<1> DEFINE Good(s) == Total(s) \in Nat /\ \A x \in s : Total(s) = x.bytes + Total(s \ {x})
           G == {k \in Nat : \A s \in SUBSET U : Cardinality(s) <= k => Good(s)}
<1>1. Good({})
  <2>1. {} \in SUBSET U
    OBVIOUS
  <2>2. Total({}) = 0
    BY <2>1, TotalStep
  <2> QED
    BY <2>2
<1>2. 0 \in G
  <2> HIDE DEF Good
  <2> SUFFICES ASSUME NEW s \in SUBSET U, Cardinality(s) <= 0
               PROVE  Good(s)
    OBVIOUS
  <2>1. s = {}
    BY NoneAtZero
  <2> QED
    BY <1>1, <2>1
<1>3. ASSUME NEW k \in G
      PROVE  k + 1 \in G
  <2> HIDE DEF Good
  <2> SUFFICES ASSUME NEW s \in SUBSET U, Cardinality(s) <= k + 1
               PROVE  Good(s)
    OBVIOUS
  <2>1. CASE s = {}
    BY <1>1, <2>1
  <2>2. CASE s # {}
    <3> DEFINE c == ChosenOf(s)
    <3>1. /\ c \in s /\ Cardinality(s) \in Nat
          /\ \A x \in s : Cardinality(s \ {x}) = Cardinality(s) - 1
      BY <2>2, SmallerWithout
    <3>2. k \in Nat /\ \A x \in s : Cardinality(s \ {x}) <= k
      BY <3>1
    <3>3. \A x \in s : Good(s \ {x})
      BY <3>2
    <3>4. Total(s) = c.bytes + Total(s \ {c})
      BY <2>2, TotalStep
    <3> HIDE DEF c
    <3>5. Total(s) \in Nat
      <4>1. c.bytes \in Nat /\ Total(s \ {c}) \in Nat
        BY <3>1, <3>3 DEF Good
      <4> QED
        BY <3>4, <4>1
    <3>6. ASSUME NEW x \in s, x # c
          PROVE  Total(s) = x.bytes + Total(s \ {x})
      <4>1. x \in s \ {c} /\ c \in s \ {x}
        BY <3>1, <3>6
      <4>2. Total(s \ {c}) = x.bytes + Total((s \ {c}) \ {x})
        BY <3>1, <3>3, <4>1 DEF Good
      <4>3. Total(s \ {x}) = c.bytes + Total((s \ {x}) \ {c})
        BY <3>3, <4>1 DEF Good
      <4>4. (s \ {c}) \ {x} = (s \ {x}) \ {c}
        OBVIOUS
      <4> DEFINE u == (s \ {x}) \ {c}
      <4>5. Total(u) \in Nat
        <5>1. Total(s \ {x}) \in Nat /\ u \in SUBSET U
          BY <3>3 DEF Good
        <5>2. Cardinality(u) <= k
          <6>1. s \ {x} \in SUBSET U /\ s \ {x} # {}
            BY <4>1
          <6>2. /\ Cardinality(s \ {x}) \in Nat
                /\ \A y \in s \ {x} :
                      Cardinality((s \ {x}) \ {y}) = Cardinality(s \ {x}) - 1
            BY <6>1, SmallerWithout
          <6>3. Cardinality(u) = Cardinality(s \ {x}) - 1
            BY <4>1, <6>2
          <6> QED
            BY <3>2, <6>2, <6>3
        <5>3. Good(u)
          BY <5>1, <5>2
        <5> QED
          BY <5>3 DEF Good
      <4>6. c.bytes \in Nat /\ x.bytes \in Nat
        BY <3>1
      <4>7. Total(s) = c.bytes + (x.bytes + Total(u))
        BY <3>4, <4>2, <4>4
      <4> HIDE DEF u
      <4>8. Total(s \ {x}) = c.bytes + Total(u)
        BY <4>3 DEF u
      <4> QED
        BY <4>5, <4>6, <4>7, <4>8
    <3> QED
      BY <3>4, <3>5, <3>6 DEF Good
  <2> QED
    BY <2>1, <2>2
<1>4. Cardinality(U) \in G
  <2> HIDE DEF Good
  <2>1. G \in SUBSET Nat
    OBVIOUS
  <2> HIDE DEF G
  <2> QED
    BY <1>2, <1>3, <2>1, SetInduction, FS_CardinalityType
<1> QED
  BY <1>4, FS_Subset

-----------------------------------------------------------------------------
\* Answers

LEMMA Shapes ==
    /\ Space \in Nat
    /\ \A r \in Requests : /\ r.instance \in Int /\ r.service \in Int /\ r.attribute \in Int
                           /\ r.instance >= -1 /\ r.data \in {"none", "bad", "good"}
    /\ \A ci \in CI : \A s \in ServicesOf(ci) :
          /\ s.fn \in {"GetAttributeSingle", "SetAttributeSingle", "GetAttributeAll", "Reset"}
          /\ s.fn = "GetAttributeAll" => s.id = 1
          /\ s.fn = "GetAttributeSingle" => s.id # 1
    /\ \A ci \in CI : \A a \in AttributesOf(ci) :
          /\ a.getter \in {"NULL", "GetAttrData", "getInstanceCount", "getLargestInstanceId",
                           "getLargestInstanceAttributeId", "getLargestClassAttributeId"}
          /\ a.bytes \in Nat /\ a.all \in BOOLEAN
BY RequestAssumption DEF RequestAssumption, ServicesOf, AttributesOf

LEMMA IdsPositive ==
    /\ \A o \in Objects : o.id \in Int /\ o.id >= 0
    /\ \A ci \in CI : \A s \in ServicesOf(ci) : s.id \in Int /\ s.id >= 0
    /\ \A ci \in CI : \A a \in AttributesOf(ci) : a.id \in Int /\ a.id >= 0
<1> USE IdAssumption DEF IdAssumption
<1>1. CI = {"I", "C"}
  BY DEF CI
<1>2. ASSUME NEW o \in Objects
      PROVE  o.id \in Int /\ o.id >= 0
  <2>1. o.id \in 1 .. 2^16 - 1
    OBVIOUS
  <2> QED
    BY ONLY <2>1
<1>3. ASSUME NEW ci \in CI, NEW s \in ServicesOf(ci)
      PROVE  s.id \in Int /\ s.id >= 0
  <2>1. s.id \in 1 .. 127
    BY <1>1 DEF ServicesOf
  <2> QED
    BY ONLY <2>1
<1>4. ASSUME NEW ci \in CI, NEW a \in AttributesOf(ci)
      PROVE  a.id \in Int /\ a.id >= 0
  <2>1. a.id \in 1 .. 2^16 - 1
    BY <1>1 DEF AttributesOf
  <2> QED
    BY ONLY <2>1
<1> QED
  BY <1>2, <1>3, <1>4

\* The search with vec_search finds the one member with the id.
LEMMA SearchFinds ==
    ASSUME NEW S, \A y \in S : y.id \in Int /\ y.id >= 0,
           NEW s \in Seq(S), Sorted(s), NEW id \in Int
    PROVE  LET found == At(s, vec_search(s, id))
           IN  IF OM!Named(Range(s), id) = {} THEN found = NULL
               ELSE found # NULL /\ OM!Named(Range(s), id) = {found}
<1> DEFINE n == Len(s)
           it == Halve(s, id)
           found == At(s, vec_search(s, id))
<1>1. /\ n \in Nat /\ DOMAIN s = 1 .. n
      /\ \A i \in 1 .. n : s[i] \in S /\ s[i].id \in Int
  OBVIOUS
<1>2. /\ it.at \in 0 .. n
      /\ it.hit => it.at < n /\ s[it.at + 1].id = id
      /\ ~it.hit => \A j \in 1 .. n : s[j].id # id
  BY HalveFinds
<1>3. found = IF it.hit /\ it.at # n THEN s[it.at + 1] ELSE NULL
  BY DEF vec_search, At
<1> HIDE DEF it, found
<1>4. CASE ~it.hit
  <2>1. OM!Named(Range(s), id) = {}
    BY <1>1, <1>2, <1>4 DEF OM!Named, Range
  <2> QED
    BY <1>3, <1>4, <2>1 DEF found
<1>5. CASE it.hit
  <2>1. it.at + 1 \in 1 .. n /\ it.at # n
    <3>1. n \in Nat /\ it.at \in 0 .. n /\ it.at < n
      BY <1>1, <1>2, <1>5
    <3> HIDE DEF n
    <3> QED
      BY ONLY <3>1
  <2>2. found = s[it.at + 1] /\ found.id = id /\ found \in S /\ found \in Range(s)
    BY <1>1, <1>2, <1>3, <1>5, <2>1 DEF Range
  <2>3. found # NULL
    BY <2>2 DEF NULL
  <2>4. \A a, b \in Range(s) : a.id = b.id => a = b
    BY OneOfAnId
  <2>5. OM!Named(Range(s), id) = {found}
    BY <2>2, <2>4 DEF OM!Named
  <2> QED
    BY <2>3, <2>5 DEF found
<1> QED
  BY <1>4, <1>5

LEMMA Lookup ==
    ASSUME RegistryInv, NEW ci \in CI, NEW id \in Int
    PROVE  /\ IF OM!Named(Range(services[ci]), id) = {} THEN Service(ci, id) = NULL
              ELSE /\ Service(ci, id) # NULL /\ Service(ci, id) \in ServicesOf(ci)
                   /\ Service(ci, id).id = id
                   /\ OM!Named(Range(services[ci]), id) = {Service(ci, id)}
           /\ IF OM!Named(Range(attributes[ci]), id) = {} THEN Attribute(ci, id) = NULL
              ELSE /\ Attribute(ci, id) # NULL /\ Attribute(ci, id) \in AttributesOf(ci)
                   /\ OM!Named(Range(attributes[ci]), id) = {Attribute(ci, id)}
           /\ Instance(id) = NULL <=> OM!Named(Range(instances), id) = {}
<1>1. /\ services[ci] \in Seq(ServicesOf(ci)) /\ Sorted(services[ci])
      /\ attributes[ci] \in Seq(AttributesOf(ci)) /\ Sorted(attributes[ci])
      /\ instances \in Seq(Objects) /\ Sorted(instances)
  BY DEF RegistryInv, ServicesInOrder, AttributesInOrder, InstancesInOrder
<1>2. /\ Range(services[ci]) \subseteq ServicesOf(ci)
      /\ Range(attributes[ci]) \subseteq AttributesOf(ci)
  BY <1>1 DEF Range
<1>3. IF OM!Named(Range(services[ci]), id) = {} THEN Service(ci, id) = NULL
      ELSE Service(ci, id) # NULL /\ OM!Named(Range(services[ci]), id) = {Service(ci, id)}
  <2>1. \A y \in ServicesOf(ci) : y.id \in Int /\ y.id >= 0
    BY IdsPositive
  <2> QED
    BY ONLY <1>1, <2>1, SearchFinds, id \in Int DEF Service
<1>4. IF OM!Named(Range(attributes[ci]), id) = {} THEN Attribute(ci, id) = NULL
      ELSE Attribute(ci, id) # NULL /\ OM!Named(Range(attributes[ci]), id) = {Attribute(ci, id)}
  <2>1. \A y \in AttributesOf(ci) : y.id \in Int /\ y.id >= 0
    BY IdsPositive
  <2> QED
    BY ONLY <1>1, <2>1, SearchFinds, id \in Int DEF Attribute
<1>5. Instance(id) = NULL <=> OM!Named(Range(instances), id) = {}
  <2>1. \A y \in Objects : y.id \in Int /\ y.id >= 0
    BY IdsPositive
  <2> QED
    BY ONLY <1>1, <2>1, SearchFinds, id \in Int DEF Instance
<1>6. ASSUME OM!Named(Range(services[ci]), id) # {}
      PROVE  Service(ci, id) \in ServicesOf(ci) /\ Service(ci, id).id = id
  <2>1. Service(ci, id) \in OM!Named(Range(services[ci]), id)
    BY <1>3, <1>6
  <2> QED
    BY <1>2, <2>1 DEF OM!Named
<1>7. ASSUME OM!Named(Range(attributes[ci]), id) # {}
      PROVE  Attribute(ci, id) \in AttributesOf(ci)
  <2>1. Attribute(ci, id) \in OM!Named(Range(attributes[ci]), id)
    BY <1>4, <1>7
  <2> QED
    BY <1>2, <2>1 DEF OM!Named
<1> QED
  BY <1>3, <1>4, <1>5, <1>6, <1>7

LEMMA SameCardinality == \A S : OM!Cardinality(S) = Cardinality(S)
BY DEF OM!Cardinality, Cardinality

\* A sorted vector has as many members as places.
LEMMA SizeOfRange ==
    ASSUME NEW S, \A y \in S : y.id \in Int, NEW s \in Seq(S), Sorted(s)
    PROVE  IsFiniteSet(Range(s)) /\ Cardinality(Range(s)) = Len(s)
<1> DEFINE n == Len(s)
           Upto(i) == {s[j] : j \in 1 .. i}
           G == {i \in Nat : i <= n => IsFiniteSet(Upto(i)) /\ Cardinality(Upto(i)) = i}
<1>1. /\ n \in Nat /\ DOMAIN s = 1 .. n
      /\ \A i \in 1 .. n : s[i] \in S /\ s[i].id \in Int
  OBVIOUS
<1>2. 0 \in G
  <2>1. Upto(0) = {}
    OBVIOUS
  <2> HIDE DEF Upto
  <2> QED
    BY <2>1, FS_EmptySet
<1>3. ASSUME NEW i \in G
      PROVE  i + 1 \in G
  <2> SUFFICES ASSUME i + 1 <= n
               PROVE  IsFiniteSet(Upto(i + 1)) /\ Cardinality(Upto(i + 1)) = i + 1
    <3> HIDE DEF Upto
    <3> QED
      OBVIOUS
  <2>1. i \in Nat /\ i + 1 \in 1 .. n /\ \A j \in 1 .. i : j \in 1 .. n /\ j < i + 1
    BY <1>1
  <2>2. IsFiniteSet(Upto(i)) /\ Cardinality(Upto(i)) = i
    <3> HIDE DEF Upto
    <3> QED
      BY <1>1
  <2>3. Upto(i + 1) = Upto(i) \cup {s[i + 1]}
    <3>1. \A j \in 1 .. i + 1 : j \in 1 .. i \/ j = i + 1
      BY <2>1
    <3>2. \A j \in 1 .. i : j \in 1 .. i + 1
      BY <2>1
    <3>3. i + 1 \in 1 .. i + 1
      BY <2>1
    <3> QED
      BY <3>1, <3>2, <3>3
  <2>4. s[i + 1] \notin Upto(i)
    BY <1>1, <2>1 DEF Sorted
  <2> DEFINE u == Upto(i)
             x == s[i + 1]
  <2>5. IsFiniteSet(u) /\ Cardinality(u) = i /\ x \notin u /\ Upto(i + 1) = u \cup {x}
    BY <2>2, <2>3, <2>4
  <2> HIDE DEF Upto, u, x
  <2>6. IsFiniteSet(u \cup {x}) /\ Cardinality(u \cup {x}) = Cardinality(u) + 1
    BY ONLY <2>5, FS_AddElement
  <2> QED
    BY ONLY <2>5, <2>6
<1>4. n \in G
  <2> HIDE DEF Upto
  <2>1. G \in SUBSET Nat
    OBVIOUS
  <2> HIDE DEF G
  <2> QED
    BY <1>1, <1>2, <1>3, <2>1, SetInduction
<1>5. Upto(n) = Range(s)
  BY <1>1 DEF Range
<1> HIDE DEF Upto
<1> QED
  BY <1>1, <1>4, <1>5

LEMMA HighestIsLast ==
    ASSUME NEW S, \A y \in S : y.id \in Int, NEW s \in Seq(S), Sorted(s)
    PROVE  OM!Highest(Range(s)) = HighestId(s)
<1> DEFINE n == Len(s)
           T == {y.id : y \in Range(s)}
<1>1. /\ n \in Nat /\ DOMAIN s = 1 .. n
      /\ \A i \in 1 .. n : s[i] \in S /\ s[i].id \in Int
  OBVIOUS
<1>2. CASE s = <<>>
  BY <1>2 DEF OM!Highest, HighestId, Range
<1>3. CASE s # <<>>
  <2>1. n \in 1 .. n
    BY <1>1, <1>3
  <2>2. \A x : x \in T <=> \E i \in 1 .. n : x = s[i].id
    BY <1>1 DEF Range
  <2>3. Range(s) # {}
    BY <1>1, <2>1 DEF Range
  <2>4. OM!Highest(Range(s)) = OM!Max(T)
    BY <2>3 DEF OM!Highest
  <2>5. HighestId(s) = s[n].id
    BY <1>3 DEF HighestId
  <2> HIDE DEF T
  <2>6. s[n].id \in T /\ T \subseteq Int
    BY <1>1, <2>1, <2>2
  <2>7. ASSUME NEW y \in T
        PROVE  s[n].id >= y
    <3>1. PICK i \in 1 .. n : y = s[i].id
      BY <2>2
    <3>2. i = n \/ i < n
      <4> HIDE DEF n
      <4> QED
        BY <1>1
    <3>3. i < n => s[i].id < s[n].id
      BY <1>1, <2>1 DEF Sorted
    <3>4. s[n].id \in Int /\ s[i].id \in Int
      BY <1>1, <2>1
    <3> QED
      BY ONLY <3>1, <3>2, <3>3, <3>4
  <2> DEFINE m == CHOOSE x \in T : \A y \in T : x >= y
  <2>8. m \in T /\ \A y \in T : m >= y
    BY <2>6, <2>7
  <2>9. OM!Max(T) = m
    BY DEF OM!Max
  <2> HIDE DEF m
  <2>10. m = s[n].id
    <3> DEFINE h == s[n].id
    <3>1. m >= h /\ h >= m /\ m \in Int /\ h \in Int
      BY <2>6, <2>7, <2>8
    <3> HIDE DEF h
    <3> QED
      BY ONLY <3>1 DEF h
  <2> QED
    BY <2>4, <2>5, <2>9, <2>10
<1> QED
  BY <1>2, <1>3

\* The getters of the class attributes count and look at the ends of vectors.
LEMMA ValueIsGot ==
    ASSUME RegistryInv, NEW ci \in CI, NEW a \in AttributesOf(ci), a.getter # "NULL"
    PROVE  Getter(a) = OM!Value(a)
<1>1. /\ instances \in Seq(Objects) /\ Sorted(instances)
      /\ \A c \in CI : attributes[c] \in Seq(AttributesOf(c)) /\ Sorted(attributes[c])
  BY DEF RegistryInv, InstancesInOrder, AttributesInOrder
<1>2. \A y \in Objects : y.id \in Int
  BY Ids
<1>3. OM!Cardinality(Range(instances)) = getInstanceCount
  BY <1>1, <1>2, SizeOfRange, SameCardinality DEF getInstanceCount
<1>4. OM!Highest(Range(instances)) = getLargestInstanceId
  BY <1>1, <1>2, HighestIsLast DEF getLargestInstanceId
<1>5. \A c \in CI : OM!Highest(Range(attributes[c])) = HighestId(attributes[c])
  <2> SUFFICES ASSUME NEW c \in CI
               PROVE  OM!Highest(Range(attributes[c])) = HighestId(attributes[c])
    OBVIOUS
  <2>1. \A y \in AttributesOf(c) : y.id \in Int
    BY Ids
  <2>2. attributes[c] \in Seq(AttributesOf(c)) /\ Sorted(attributes[c])
    BY <1>1
  <2> QED
    BY ONLY <2>1, <2>2, HighestIsLast
<1>6. "I" \in CI /\ "C" \in CI
  BY DEF CI
<1>7. /\ OM!Highest([c \in CI |-> Range(attributes[c])]["I"]) = getLargestInstanceAttributeId
      /\ OM!Highest([c \in CI |-> Range(attributes[c])]["C"]) = getLargestClassAttributeId
  BY <1>5, <1>6 DEF getLargestInstanceAttributeId, getLargestClassAttributeId
<1>8. a.getter \in {"GetAttrData", "getInstanceCount", "getLargestInstanceId",
                    "getLargestInstanceAttributeId", "getLargestClassAttributeId"}
  BY Shapes
<1> QED
  BY <1>3, <1>4, <1>7, <1>8 DEF Getter, OM!Value

LEMMA TheOnlyOne == \A x : (CHOOSE y \in {x} : TRUE) = x
<1> SUFFICES ASSUME NEW x
             PROVE  (CHOOSE y \in {x} : TRUE) = x
  OBVIOUS
<1>1. (CHOOSE y \in {x} : TRUE) \in {x}
  OBVIOUS
<1> QED
  BY <1>1

LEMMA OneIsRead ==
    ASSUME RegistryInv, NEW ci \in CI, NEW id \in Int, NEW service \in Int, service # 1
    PROVE  GetAttributeSingle(ci, id, service, Space) = OM!OfAttribute(ci, id, OM!ReadOne)
<1> DEFINE at == OM!Named(Range(attributes[ci]), id)
           a == Attribute(ci, id)
<1>1. IF at = {} THEN a = NULL ELSE a # NULL /\ a \in AttributesOf(ci) /\ at = {a}
  BY Lookup
<1>2. OM!Named([c \in CI |-> Range(attributes[c])][ci], id) = at
  OBVIOUS
<1>3. OM!OfAttribute(ci, id, OM!ReadOne) =
        IF at = {} THEN OM!Says("AttributeNotSupported", <<>>)
        ELSE OM!ReadOne(CHOOSE x \in at : TRUE)
  BY <1>2 DEF OM!OfAttribute
<1> HIDE DEF at
<1>4. CASE at = {}
  BY <1>1, <1>3, <1>4 DEF GetAttributeSingle, Reply, OM!Says
<1>5. CASE at # {}
  <2>1. (CHOOSE x \in at : TRUE) = a
    BY <1>1, <1>5, TheOnlyOne
  <2>2. GetAttributeSingle(ci, id, service, Space) = Get(a, service, Space)
    BY <1>1, <1>5 DEF GetAttributeSingle
  <2> HIDE DEF a
  <2>3. a \in AttributesOf(ci) /\ a.bytes \in Nat /\ Space \in Nat
    BY <1>1, <1>5, Shapes
  <2>4. Get(a, service, Space) = OM!ReadOne(a)
    <3>1. CASE a.getter = "NULL"
      BY <3>1 DEF Get, Reply, OM!ReadOne, OM!Says
    <3>2. CASE a.getter # "NULL"
      <4>1. Getter(a) = OM!Value(a)
        BY <2>3, <3>2, ValueIsGot
      <4>2. CASE a.bytes > Space
        BY <3>2, <4>2 DEF Get, NoReply, OM!ReadOne, OM!Failed, kGetAttributeAll
      <4>3. CASE ~(a.bytes > Space)
        BY <3>2, <4>1, <4>3 DEF Get, Reply, OM!ReadOne, OM!Says, OM!Read, kGetAttributeAll
      <4> QED
        BY <4>2, <4>3
    <3> QED
      BY <3>1, <3>2
  <2> QED
    BY <1>3, <1>5, <2>1, <2>2, <2>4
<1> QED
  BY <1>4, <1>5

LEMMA OneIsWritten ==
    ASSUME RegistryInv, NEW ci \in CI, NEW r \in Requests
    PROVE  SetAttributeSingle(ci, r.attribute, r.data) =
              OM!OfAttribute(ci, r.attribute, LAMBDA a : OM!WriteOne(a, r.data))
<1> DEFINE id == r.attribute
           at == OM!Named(Range(attributes[ci]), id)
           a == Attribute(ci, id)
<1>1. id \in Int /\ r.data \in {"none", "bad", "good"}
  BY Shapes
<1>2. IF at = {} THEN a = NULL ELSE a # NULL /\ at = {a}
  BY <1>1, Lookup
<1>3. OM!Named([c \in CI |-> Range(attributes[c])][ci], id) = at
  OBVIOUS
<1>4. OM!OfAttribute(ci, id, LAMBDA x : OM!WriteOne(x, r.data)) =
        IF at = {} THEN OM!Says("AttributeNotSupported", <<>>)
        ELSE OM!WriteOne(CHOOSE x \in at : TRUE, r.data)
  BY <1>3 DEF OM!OfAttribute
<1> HIDE DEF at
<1>5. CASE at = {}
  BY <1>2, <1>4, <1>5 DEF SetAttributeSingle, Reply, OM!Says
<1>6. CASE at # {}
  <2>1. (CHOOSE x \in at : TRUE) = a
    BY <1>2, <1>6, TheOnlyOne
  <2>2. SetAttributeSingle(ci, id, r.data) = Set(a, r.data)
    BY <1>2, <1>6 DEF SetAttributeSingle
  <2> HIDE DEF a
  <2>3. Set(a, r.data) = OM!WriteOne(a, r.data)
    BY <1>1 DEF Set, Reply, OM!WriteOne, OM!Says
  <2> QED
    BY <1>4, <1>6, <2>1, <2>2, <2>3
<1> QED
  BY <1>5, <1>6

\* The place of an attribute in a reply, and a reply that has each in its place.
Rank(a, S) == Cardinality({b \in S : b.id <= a.id})

ReadInOrder(d, S) ==
    /\ Len(d) = Cardinality(S)
    /\ \A a \in S : d[Rank(a, S)] = OM!Read(a)
    /\ \A k \in 1 .. Cardinality(S) : \E a \in S : Rank(a, S) = k

LEMMA RankLast ==
    ASSUME NEW S, IsFiniteSet(S), NEW x, x.id \in Int, \A y \in S : y.id \in Int /\ y.id < x.id
    PROVE  /\ Cardinality(S) \in Nat /\ Cardinality(S \cup {x}) = Cardinality(S) + 1
           /\ Rank(x, S \cup {x}) = Cardinality(S) + 1
           /\ \A a \in S : /\ Rank(a, S \cup {x}) = Rank(a, S)
                           /\ Rank(a, S) \in 1 .. Cardinality(S)
<1>1. x \notin S
  OBVIOUS
<1>2. Cardinality(S) \in Nat /\ Cardinality(S \cup {x}) = Cardinality(S) + 1
  BY <1>1, FS_AddElement, FS_CardinalityType
<1>3. Rank(x, S \cup {x}) = Cardinality(S) + 1
  <2>1. {b \in S \cup {x} : b.id <= x.id} = S \cup {x}
    OBVIOUS
  <2> QED
    BY <1>2, <2>1 DEF Rank
<1>4. ASSUME NEW a \in S
      PROVE  Rank(a, S \cup {x}) = Rank(a, S) /\ Rank(a, S) \in 1 .. Cardinality(S)
  <2> DEFINE B == {b \in S : b.id <= a.id}
  <2>1. {b \in S \cup {x} : b.id <= a.id} = B
    OBVIOUS
  <2>2. B \in SUBSET S /\ a \in B
    OBVIOUS
  <2>3. Rank(a, S \cup {x}) = Cardinality(B) /\ Rank(a, S) = Cardinality(B)
    BY <2>1 DEF Rank
  <2> HIDE DEF B
  <2>4. IsFiniteSet(B) /\ Cardinality(B) <= Cardinality(S)
    BY <2>2, FS_Subset
  <2>5. Cardinality(B) \in Nat
    BY <2>4, FS_CardinalityType
  <2>6. Cardinality(B) # 0
    BY <2>2, <2>4, FS_EmptySet
  <2> QED
    BY <1>2, <2>3, <2>4, <2>5, <2>6
<1> QED
  BY <1>2, <1>3, <1>4

LEMMA NoneInOrder == ReadInOrder(<<>>, {})
<1>1. Cardinality({}) = 0 /\ Len(<<>>) = 0
  BY FS_EmptySet
<1> QED
  BY <1>1 DEF ReadInOrder

LEMMA NextInOrder ==
    ASSUME NEW V, NEW d \in Seq(V), NEW S, IsFiniteSet(S), ReadInOrder(d, S),
           NEW x, x.id \in Int, \A y \in S : y.id \in Int /\ y.id < x.id, OM!Read(x) \in V
    PROVE  /\ d \o <<OM!Read(x)>> \in Seq(V)
           /\ ReadInOrder(d \o <<OM!Read(x)>>, S \cup {x})
<1> DEFINE v == OM!Read(x)
           e == d \o <<v>>
           m == Cardinality(S)
           T == S \cup {x}
<1>1. /\ m \in Nat /\ Cardinality(T) = m + 1 /\ Rank(x, T) = m + 1
      /\ \A a \in S : Rank(a, T) = Rank(a, S) /\ Rank(a, S) \in 1 .. m
  BY RankLast
<1>2. v \in V /\ T = S \cup {x}
  OBVIOUS
<1>3. Len(d) = m
  BY DEF ReadInOrder
<1> HIDE DEF v, m, T
<1>4. /\ e \in Seq(V) /\ Len(e) = m + 1 /\ e[m + 1] = v
      /\ \A k \in 1 .. m : e[k] = d[k]
  BY <1>1, <1>2, <1>3
<1> HIDE DEF e
<1>5. ASSUME NEW a \in T
      PROVE  e[Rank(a, T)] = OM!Read(a)
  <2>1. CASE a = x
    BY <1>1, <1>4, <2>1 DEF v
  <2>2. CASE a \in S
    BY <1>1, <1>4, <2>2 DEF ReadInOrder
  <2> QED
    BY <1>2, <2>1, <2>2
<1>6. ASSUME NEW k \in 1 .. m + 1
      PROVE  \E a \in T : Rank(a, T) = k
  <2>1. CASE k = m + 1
    BY <1>1, <1>2, <2>1
  <2>2. CASE k # m + 1
    <3>1. k \in 1 .. m
      BY <1>1, <2>2
    <3>2. PICK a \in S : Rank(a, S) = k
      BY <3>1 DEF ReadInOrder, m
    <3> QED
      BY <1>1, <1>2, <3>2
  <2> QED
    BY <2>1, <2>2
<1>7. ReadInOrder(e, T)
  BY <1>1, <1>4, <1>5, <1>6 DEF ReadInOrder
<1> QED
  BY <1>4, <1>7 DEF e, T, v

\* The loop of GetAttributeAll(), its body named.
AllBody(f, ci, i) ==
    IF i = 0 THEN [room |-> Space, reply |-> Reply("Success", <<>>)]
    ELSE LET a == attributes[ci][i]
             before == f[i - 1]
             one == GetAttributeSingle(ci, a.id, kGetAttributeAll, before.room)
         IN  IF a.id >= 32 \/ a.id \notin getable_all[ci] \/ before.reply.result # "OkSend"
             THEN before
             ELSE IF one.result # "OkSend"
             THEN [before EXCEPT !.reply = NoReply("Error")]
             ELSE [room |-> IF one.data = <<>> THEN before.room ELSE before.room - a.bytes,
                   reply |-> Reply("Success", before.reply.data \o one.data)]

AllLoop(ci) ==
    CHOOSE f : f = [i \in 0 .. Len(attributes[ci]) |-> AllBody(f, ci, i)]

LEMMA AllIsLoop ==
    ASSUME NEW ci
    PROVE  GetAttributeAll(ci, kGetAttributeAll) =
              IF Service(ci, kGetAttributeSingle) = NULL THEN NoReply("Ok")
              ELSE IF attributes[ci] = <<>> THEN Reply("ServiceNotSupported", <<>>)
              ELSE AllLoop(ci)[Len(attributes[ci])].reply
BY DEF GetAttributeAll, AllLoop, AllBody

LEMMA LoopRuns ==
    ASSUME NEW ci, Len(attributes[ci]) \in Nat
    PROVE  \A i \in 0 .. Len(attributes[ci]) : AllLoop(ci)[i] = AllBody(AllLoop(ci), ci, i)
<1> DEFINE n == Len(attributes[ci])
           loop == AllLoop(ci)
           E == {k \in Nat : \E f : \A i \in 0 .. n : i <= k => f[i] = AllBody(f, ci, i)}
<1>1. ASSUME NEW f, NEW g, NEW i \in 0 .. n, i # 0 => f[i - 1] = g[i - 1]
      PROVE  AllBody(f, ci, i) = AllBody(g, ci, i)
  BY <1>1 DEF AllBody
<1>2. E = Nat
  <2>1. 0 \in E
    <3> DEFINE f == [i \in 0 .. n |-> [room |-> Space, reply |-> Reply("Success", <<>>)]]
    <3>1. \A i \in 0 .. n : i <= 0 => f[i] = AllBody(f, ci, i)
      BY DEF AllBody
    <3> HIDE DEF f
    <3> QED
      BY <3>1
  <2>2. ASSUME NEW k \in E
        PROVE  k + 1 \in E
    <3>1. PICK f : \A i \in 0 .. n : i <= k => f[i] = AllBody(f, ci, i)
      OBVIOUS
    <3> DEFINE g == [i \in 0 .. n |-> AllBody(f, ci, i)]
    <3>2. \A i \in 0 .. n : (i <= k => g[i] = f[i]) /\ g[i] = AllBody(f, ci, i)
      BY <3>1
    <3> HIDE DEF g
    <3>3. ASSUME NEW i \in 0 .. n, i <= k + 1
          PROVE  g[i] = AllBody(g, ci, i)
      <4>1. i # 0 => i - 1 \in 0 .. n /\ i - 1 <= k
        BY <3>3
      <4>2. AllBody(f, ci, i) = AllBody(g, ci, i)
        BY <1>1, <3>2, <4>1
      <4> QED
        BY <3>2, <4>2
    <3> QED
      BY <3>3
  <2> HIDE DEF E
  <2>3. E \in SUBSET Nat
    BY DEF E
  <2> QED
    BY <2>1, <2>2, <2>3, SetInduction
<1>3. loop = [i \in 0 .. n |-> AllBody(loop, ci, i)]
  <2>1. PICK f : \A i \in 0 .. n : i <= n => f[i] = AllBody(f, ci, i)
    BY <1>2
  <2> DEFINE g == [i \in 0 .. n |-> AllBody(f, ci, i)]
  <2>2. \A i \in 0 .. n : g[i] = f[i] /\ g[i] = AllBody(f, ci, i)
    BY <2>1
  <2>3. g = [i \in 0 .. n |-> g[i]]
    OBVIOUS
  <2> HIDE DEF g
  <2>4. ASSUME NEW i \in 0 .. n
        PROVE  g[i] = AllBody(g, ci, i)
    <3>1. i # 0 => i - 1 \in 0 .. n
      OBVIOUS
    <3>2. AllBody(f, ci, i) = AllBody(g, ci, i)
      BY <1>1, <2>2, <3>1
    <3> QED
      BY <2>2, <3>2
  <2>5. g = [i \in 0 .. n |-> AllBody(g, ci, i)]
    BY <2>3, <2>4
  <2> QED
    BY <2>5 DEF AllLoop
<1> HIDE DEF loop
<1> QED
  BY <1>3 DEF loop

\* One pass.  Get() tells an attribute that is not for GetAttributeAll, or of
\* which an override left the bit of the mask, by a reply without data.
LEMMA OnePass ==
    ASSUME RegistryInv, NEW ci \in CI, NEW i \in 1 .. Len(attributes[ci]),
           NEW f, NEW room \in Nat, NEW V, NEW d \in Seq(V),
           f[i - 1] = [room |-> room, reply |-> Reply("Success", d)]
    PROVE  LET a == attributes[ci][i]
           IN  AllBody(f, ci, i) =
                 IF a \notin OM!AllOf(ci) THEN f[i - 1]
                 ELSE IF a.bytes > room THEN [room |-> room, reply |-> NoReply("Error")]
                 ELSE [room |-> room - a.bytes, reply |-> Reply("Success", d \o <<OM!Read(a)>>)]
<1> DEFINE a == attributes[ci][i]
           one == GetAttributeSingle(ci, a.id, kGetAttributeAll, room)
<1>1. /\ attributes[ci] \in Seq(AttributesOf(ci)) /\ Sorted(attributes[ci])
      /\ \A y \in AttributesOf(ci) : y.id \in Int
  BY Ids DEF RegistryInv, AttributesInOrder
<1>2. a \in AttributesOf(ci) /\ a.id \in Int /\ a \in Range(attributes[ci])
  BY <1>1 DEF Range
<1>3. /\ a.bytes \in Nat /\ a.all \in BOOLEAN
      /\ a.getter \in {"NULL", "GetAttrData", "getInstanceCount", "getLargestInstanceId",
                       "getLargestInstanceAttributeId", "getLargestClassAttributeId"}
  BY <1>2, Shapes
<1>4. Attribute(ci, a.id) = a /\ a # NULL
  <2>1. a \in OM!Named(Range(attributes[ci]), a.id)
    BY <1>2 DEF OM!Named
  <2> DEFINE at == OM!Named(Range(attributes[ci]), a.id)
  <2>2. IF at = {} THEN Attribute(ci, a.id) = NULL
        ELSE Attribute(ci, a.id) # NULL /\ at = {Attribute(ci, a.id)}
    <3> HIDE DEF a
    <3> QED
      BY <1>2, Lookup
  <2>3. a \in at
    BY <2>1
  <2> HIDE DEF a, at
  <2> QED
    BY <2>2, <2>3
<1>5. one = Get(a, kGetAttributeAll, room)
  BY <1>4 DEF GetAttributeSingle
<1>6. a \in OM!AllOf(ci) <=> a.id < 32 /\ a.all /\ a.getter # "NULL"
  <2>1. [c \in CI |-> Range(attributes[c])][ci] = Range(attributes[ci])
    OBVIOUS
  <2> QED
    BY <1>2, <2>1 DEF OM!AllOf
<1>7. a.id < 32 /\ a.all => a.id \in getable_all[ci]
  BY <1>2 DEF RegistryInv, MaskCovers, MaskBits
<1>8. AllBody(f, ci, i) =
        IF a.id >= 32 \/ a.id \notin getable_all[ci] THEN f[i - 1]
        ELSE IF one.result # "OkSend" THEN [room |-> room, reply |-> NoReply("Error")]
        ELSE [room |-> IF one.data = <<>> THEN room ELSE room - a.bytes,
              reply |-> Reply("Success", d \o one.data)]
  <2>1. f[i - 1].reply.result = "OkSend" /\ f[i - 1].reply.data = d /\ f[i - 1].room = room
    BY DEF Reply
  <2>2. i # 0
    OBVIOUS
  <2>3. [f[i - 1] EXCEPT !.reply = NoReply("Error")] = [room |-> room, reply |-> NoReply("Error")]
    OBVIOUS
  <2> QED
    BY <2>1, <2>2, <2>3 DEF AllBody
<1> HIDE DEF a, one
<1>9. CASE a \notin OM!AllOf(ci)
  <2>1. CASE a.id >= 32 \/ a.id \notin getable_all[ci]
    BY <1>8, <1>9, <2>1 DEF a
  <2>2. CASE ~(a.id >= 32 \/ a.id \notin getable_all[ci])
    <3>1. ~a.all \/ a.getter = "NULL"
      BY <1>2, <1>6, <1>9, <2>2
    <3>2. one = Reply("AttributeNotGettable", <<>>)
      BY <1>5, <3>1 DEF Get, kGetAttributeAll
    <3>3. one.result = "OkSend" /\ one.data = <<>>
      BY <3>2 DEF Reply
    <3>4. d \o <<>> = d
      OBVIOUS
    <3>5. AllBody(f, ci, i) = [room |-> room, reply |-> Reply("Success", d)]
      BY <1>8, <2>2, <3>3, <3>4
    <3> QED
      BY <1>9, <3>5 DEF a
  <2> QED
    BY <2>1, <2>2
<1>10. CASE a \in OM!AllOf(ci)
  <2>1. ~(a.id >= 32 \/ a.id \notin getable_all[ci]) /\ a.all /\ a.getter # "NULL"
    BY <1>2, <1>6, <1>7, <1>10
  <2>2. CASE a.bytes > room
    <3>1. one.result # "OkSend"
      BY <1>5, <2>1, <2>2 DEF Get, NoReply
    <3> QED
      BY <1>8, <1>10, <2>1, <2>2, <3>1 DEF a
  <2>3. CASE ~(a.bytes > room)
    <3>1. Getter(a) = OM!Value(a)
      BY <1>2, <2>1, ValueIsGot
    <3>2. one = Reply("Success", <<OM!Read(a)>>)
      BY <1>5, <2>1, <2>3, <3>1 DEF Get, OM!Read
    <3>3. one.result = "OkSend" /\ one.data = <<OM!Read(a)>> /\ one.data # <<>>
      BY <3>2 DEF Reply
    <3> QED
      BY <1>8, <1>10, <2>1, <2>3, <3>3 DEF a
  <2> QED
    BY <2>2, <2>3
<1> QED
  BY <1>9, <1>10 DEF a

LEMMA NoMorePasses ==
    ASSUME NEW ci, NEW i \in Nat \ {0}, NEW f, f[i - 1].reply = NoReply("Error")
    PROVE  AllBody(f, ci, i) = f[i - 1]
BY DEF AllBody, NoReply

\* What the loop has read after i passes is what there is to read among the
\* first i attributes, unless that does not fit.
Passed(ci, i) == {attributes[ci][j] : j \in 1 .. i} \cap OM!AllOf(ci)

ReadSoFar(ci, i) ==
    LET T == Passed(ci, i)
        now == AllLoop(ci)[i]
    IN  \/ /\ Total(T) <= Space
           /\ \E d \in Seq({OM!Read(a) : a \in AttributesOf(ci)}) :
                 /\ now = [room |-> Space - Total(T), reply |-> Reply("Success", d)]
                 /\ ReadInOrder(d, T)
        \/ now.reply = NoReply("Error") /\ Total(T) > Space

LEMMA TotalWith ==
    ASSUME NEW U, IsFiniteSet(U), \A y \in U : y.bytes \in Nat, NEW T \in SUBSET U,
           NEW x \in U, x \notin T
    PROVE  /\ Total(T) \in Nat /\ Total(T \cup {x}) = x.bytes + Total(T)
<1>1. /\ Total(T) \in Nat
      /\ \A y \in T \cup {x} : Total(T \cup {x}) = y.bytes + Total((T \cup {x}) \ {y})
  BY TotalWithout
<1>2. (T \cup {x}) \ {x} = T
  OBVIOUS
<1> QED
  BY <1>1, <1>2

LEMMA NothingRead ==
    ASSUME RegistryInv, NEW ci \in CI
    PROVE  ReadSoFar(ci, 0)
<1>1. Passed(ci, 0) = {}
  BY DEF Passed
<1>2. Total({}) = 0
  <2>1. IsFiniteSet({})
    BY FS_EmptySet
  <2> QED
    BY <2>1, TotalStep
<1>3. Len(attributes[ci]) \in Nat
  BY DEF RegistryInv, AttributesInOrder
<1>4. AllLoop(ci)[0] = [room |-> Space, reply |-> Reply("Success", <<>>)]
  <2>1. AllLoop(ci)[0] = AllBody(AllLoop(ci), ci, 0)
    BY <1>3, LoopRuns
  <2> QED
    BY <2>1 DEF AllBody
<1>5. Space \in Nat /\ Space - 0 = Space /\ 0 <= Space
  BY Shapes
<1>6. <<>> \in Seq({OM!Read(a) : a \in AttributesOf(ci)})
  OBVIOUS
<1> QED
  BY <1>1, <1>2, <1>4, <1>5, <1>6, NoneInOrder DEF ReadSoFar

LEMMA PassedSoFar ==
    ASSUME RegistryInv, NEW ci \in CI, NEW i \in 1 .. Len(attributes[ci])
    PROVE  LET a == attributes[ci][i]
               T == Passed(ci, i - 1)
               U == Range(attributes[ci])
           IN  /\ Passed(ci, i) = IF a \in OM!AllOf(ci) THEN T \cup {a} ELSE T
               /\ IsFiniteSet(U) /\ a \in U /\ T \in SUBSET U /\ a \in AttributesOf(ci)
               /\ a.id \in Int /\ \A y \in T : y.id \in Int /\ y.id < a.id
               /\ \A y \in U : y.bytes \in Nat
<1> DEFINE n == Len(attributes[ci])
           a == attributes[ci][i]
           T == Passed(ci, i - 1)
           U == Range(attributes[ci])
<1>1. /\ attributes[ci] \in Seq(AttributesOf(ci)) /\ Sorted(attributes[ci])
      /\ \A y \in AttributesOf(ci) : y.id \in Int /\ y.bytes \in Nat
  BY Ids, Shapes DEF RegistryInv, AttributesInOrder
<1>2. /\ DOMAIN attributes[ci] = 1 .. n /\ n \in Nat
      /\ \A j \in 1 .. n : attributes[ci][j] \in AttributesOf(ci)
  BY <1>1
<1>3. U \subseteq AttributesOf(ci) /\ \A j \in 1 .. n : attributes[ci][j] \in U
  BY <1>2 DEF Range
<1>4. /\ \A j \in 1 .. i - 1 : j \in 1 .. n /\ j < i
      /\ \A j \in 1 .. i : j \in 1 .. i - 1 \/ j = i
      /\ \A j \in 1 .. i - 1 : j \in 1 .. i
      /\ i \in 1 .. i
  BY <1>2
<1>5. {attributes[ci][j] : j \in 1 .. i} = {attributes[ci][j] : j \in 1 .. i - 1} \cup {a}
  BY <1>4
<1>6. Passed(ci, i) = IF a \in OM!AllOf(ci) THEN T \cup {a} ELSE T
  BY <1>5 DEF Passed
<1>7. IsFiniteSet(U)
  BY <1>1, SizeOfRange
<1>8. T \in SUBSET U
  BY <1>3, <1>4 DEF Passed
<1>9. ASSUME NEW y \in T
      PROVE  y.id \in Int /\ y.id < a.id
  <2>1. PICK j \in 1 .. i - 1 : y = attributes[ci][j]
    BY DEF Passed
  <2>2. j \in DOMAIN attributes[ci] /\ i \in DOMAIN attributes[ci] /\ j < i
    BY <1>2, <1>4
  <2> QED
    BY <1>1, <1>2, <2>1, <2>2 DEF Sorted
<1>10. a \in U /\ a \in AttributesOf(ci) /\ a.id \in Int /\ \A y \in U : y.bytes \in Nat
  BY <1>1, <1>2, <1>3
<1> QED
  BY <1>6, <1>7, <1>8, <1>9, <1>10

LEMMA ReadOneMore ==
    ASSUME RegistryInv, NEW ci \in CI, NEW i \in 1 .. Len(attributes[ci]), ReadSoFar(ci, i - 1)
    PROVE  ReadSoFar(ci, i)
<1> DEFINE a == attributes[ci][i]
           T == Passed(ci, i - 1)
           P == Passed(ci, i)
           U == Range(attributes[ci])
           V == {OM!Read(x) : x \in AttributesOf(ci)}
           before == AllLoop(ci)[i - 1]
           now == AllLoop(ci)[i]
           A == OM!AllOf(ci)
<1>1. /\ P = IF a \in A THEN T \cup {a} ELSE T
      /\ IsFiniteSet(U) /\ a \in U /\ T \in SUBSET U /\ a \in AttributesOf(ci)
      /\ a.id \in Int /\ \A y \in T : y.id \in Int /\ y.id < a.id
      /\ \A y \in U : y.bytes \in Nat
  BY PassedSoFar
<1>2. now = AllBody(AllLoop(ci), ci, i)
  <2>1. Len(attributes[ci]) \in Nat /\ i \in 0 .. Len(attributes[ci])
    BY DEF RegistryInv, AttributesInOrder
  <2> QED
    BY <2>1, LoopRuns
<1>3. a \notin T
  BY <1>1
<1>4. /\ Total(T) \in Nat /\ Total(T \cup {a}) = a.bytes + Total(T) /\ a.bytes \in Nat
  <2> HIDE DEF a, T, U
  <2> QED
    BY <1>1, <1>3, TotalWith
<1>5. Space \in Nat /\ i \in Nat \ {0}
  BY Shapes
<1>6. CASE before.reply = NoReply("Error") /\ Total(T) > Space
  <2>1. now = before
    BY <1>2, <1>5, <1>6, NoMorePasses
  <2>2. Total(P) > Space
    <3> HIDE DEF a, T, P
    <3> QED
      BY <1>1, <1>4, <1>5, <1>6
  <2> QED
    BY <1>6, <2>1, <2>2 DEF ReadSoFar
<1>7. CASE /\ Total(T) <= Space
           /\ \E d \in Seq(V) :
                 /\ before = [room |-> Space - Total(T), reply |-> Reply("Success", d)]
                 /\ ReadInOrder(d, T)
  <2>1. PICK d \in Seq(V) :
               /\ before = [room |-> Space - Total(T), reply |-> Reply("Success", d)]
               /\ ReadInOrder(d, T)
    BY <1>7
  <2> DEFINE room == Space - Total(T)
  <2>2. room \in Nat
    <3> HIDE DEF T
    <3> QED
      BY <1>4, <1>5, <1>7
  <2>3. now = IF a \notin A THEN before
              ELSE IF a.bytes > room THEN [room |-> room, reply |-> NoReply("Error")]
              ELSE [room |-> room - a.bytes, reply |-> Reply("Success", d \o <<OM!Read(a)>>)]
    <3>1. before = [room |-> room, reply |-> Reply("Success", d)]
      BY <2>1
    <3> HIDE DEF room, V
    <3> QED
      BY <1>2, <2>2, <3>1, OnePass
  <2>4. CASE a \notin A
    <3>1. P = T /\ now = before
      BY <1>1, <2>3, <2>4
    <3> QED
      BY <1>7, <3>1 DEF ReadSoFar
  <2>5. CASE a \in A /\ a.bytes > room
    <3>1. P = T \cup {a} /\ now.reply = NoReply("Error")
      BY <1>1, <2>3, <2>5
    <3>2. Total(P) > Space
      <4> HIDE DEF a, T, P
      <4> QED
        BY <1>4, <1>5, <2>5, <3>1
    <3> QED
      BY <3>1, <3>2 DEF ReadSoFar
  <2>6. CASE a \in A /\ ~(a.bytes > room)
    <3> DEFINE e == d \o <<OM!Read(a)>>
    <3>1. P = T \cup {a} /\ now = [room |-> room - a.bytes, reply |-> Reply("Success", e)]
      BY <1>1, <2>3, <2>6
    <3>2. Total(P) <= Space /\ room - a.bytes = Space - Total(P)
      <4> HIDE DEF a, T, P
      <4> QED
        BY <1>4, <1>5, <2>6, <3>1
    <3>3. e \in Seq(V) /\ ReadInOrder(e, T \cup {a})
      <4>1. IsFiniteSet(T) /\ OM!Read(a) \in V
        BY <1>1, FS_Subset
      <4> HIDE DEF a, T, V
      <4> QED
        BY <1>1, <2>1, <4>1, NextInOrder
    <3> HIDE DEF e
    <3> QED
      BY <3>1, <3>2, <3>3 DEF ReadSoFar
  <2> QED
    BY <2>4, <2>5, <2>6
<1> QED
  BY <1>6, <1>7 DEF ReadSoFar

LEMMA AllAreRead ==
    ASSUME RegistryInv, NEW ci \in CI
    PROVE  AllLoop(ci)[Len(attributes[ci])].reply = OM!ReadAll(ci)
<1> DEFINE n == Len(attributes[ci])
           A == OM!AllOf(ci)
           V == {OM!Read(x) : x \in AttributesOf(ci)}
           now == AllLoop(ci)[n]
           inOrder == [i \in 1 .. Cardinality(A) |-> CHOOSE a \in A : Rank(a, A) = i]
           G == {i \in Nat : i <= n => ReadSoFar(ci, i)}
<1>1. n \in Nat /\ DOMAIN attributes[ci] = 1 .. n
  BY DEF RegistryInv, AttributesInOrder
<1>2. G = Nat
  <2>1. 0 \in G
    BY NothingRead
  <2>2. ASSUME NEW i \in G
        PROVE  i + 1 \in G
    <3> SUFFICES ASSUME i + 1 <= n
                 PROVE  ReadSoFar(ci, i + 1)
      OBVIOUS
    <3>1. ReadSoFar(ci, i)
      BY <1>1
    <3>2. i + 1 \in 1 .. n /\ (i + 1) - 1 = i
      BY <1>1
    <3>3. ReadSoFar(ci, (i + 1) - 1)
      BY <3>1, <3>2
    <3> QED
      BY <3>2, <3>3, ReadOneMore
  <2>3. G \in SUBSET Nat
    OBVIOUS
  <2> HIDE DEF G
  <2> QED
    BY <2>1, <2>2, <2>3, SetInduction
<1>3. ReadSoFar(ci, n)
  BY <1>1, <1>2
<1>4. Passed(ci, n) = A
  <2>1. [c \in CI |-> Range(attributes[c])][ci] = Range(attributes[ci])
    OBVIOUS
  <2>2. A \subseteq Range(attributes[ci])
    BY <2>1 DEF OM!AllOf
  <2>3. Range(attributes[ci]) = {attributes[ci][j] : j \in 1 .. n}
    BY <1>1 DEF Range
  <2> QED
    BY <2>2, <2>3 DEF Passed
<1>5. OM!ReadAll(ci) =
        IF Total(A) > Space THEN OM!Failed
        ELSE OM!Says("Success", [i \in DOMAIN inOrder |-> OM!Read(inOrder[i])])
  <2>1. OM!MapThenSumSet(LAMBDA a : a.bytes, A) = Total(A)
    BY TotalIsSum
  <2>2. OM!ReadAll(ci) =
          IF OM!MapThenSumSet(LAMBDA a : a.bytes, A) > Space THEN OM!Failed
          ELSE OM!Says("Success", [i \in DOMAIN inOrder |-> OM!Read(inOrder[i])])
    BY DEF OM!ReadAll, Rank, OM!Cardinality, Cardinality
  <2> HIDE DEF A, inOrder
  <2> QED
    BY ONLY <2>1, <2>2
<1> HIDE DEF n, A, now
<1>6. CASE now.reply = NoReply("Error") /\ Total(A) > Space
  BY <1>5, <1>6 DEF NoReply, OM!Failed, now, n
<1>7. CASE /\ Total(A) <= Space
           /\ \E d \in Seq(V) :
                 /\ now = [room |-> Space - Total(A), reply |-> Reply("Success", d)]
                 /\ ReadInOrder(d, A)
  <2>1. PICK d \in Seq(V) :
               /\ now = [room |-> Space - Total(A), reply |-> Reply("Success", d)]
               /\ ReadInOrder(d, A)
    BY <1>7
  <2>2. \A k \in 1 .. Cardinality(A) : inOrder[k] \in A /\ Rank(inOrder[k], A) = k
    BY <2>1 DEF ReadInOrder
  <2>3. DOMAIN inOrder = 1 .. Cardinality(A)
    OBVIOUS
  <2> HIDE DEF inOrder
  <2>4. \A k \in 1 .. Cardinality(A) : d[k] = OM!Read(inOrder[k])
    BY <2>1, <2>2 DEF ReadInOrder
  <2>5. d = [k \in 1 .. Len(d) |-> d[k]] /\ Len(d) = Cardinality(A)
    BY <2>1 DEF ReadInOrder
  <2>6. d = [i \in DOMAIN inOrder |-> OM!Read(inOrder[i])]
    BY <2>3, <2>4, <2>5
  <2>7. ~(Total(A) > Space)
    <3>1. Total(A) \in Int /\ Space \in Int
      <4>1. Space \in Nat
        BY Shapes
      <4>2. IsFiniteSet(Range(attributes[ci])) /\ A \in SUBSET Range(attributes[ci])
        <5>1. attributes[ci] \in Seq(AttributesOf(ci)) /\ Sorted(attributes[ci])
          BY DEF RegistryInv, AttributesInOrder
        <5>2. \A y \in AttributesOf(ci) : y.id \in Int
          BY Ids
        <5>3. [c \in CI |-> Range(attributes[c])][ci] = Range(attributes[ci])
          OBVIOUS
        <5> QED
          BY <5>1, <5>2, <5>3, SizeOfRange DEF A, OM!AllOf
      <4>3. \A y \in Range(attributes[ci]) : y.bytes \in Nat
        <5>1. Range(attributes[ci]) \subseteq AttributesOf(ci)
          BY DEF RegistryInv, AttributesInOrder, Range
        <5> QED
          BY <5>1, Shapes
      <4> QED
        BY <4>1, <4>2, <4>3, TotalWithout
    <3> QED
      BY <1>7, <3>1
  <2> QED
    BY <1>5, <2>1, <2>6, <2>7 DEF Reply, OM!Says, now, n
<1> QED
  BY <1>3, <1>4, <1>6, <1>7 DEF ReadSoFar, now

LEMMA RequestsMatchModel == RegistryInv => AnswersMatch
<1> SUFFICES ASSUME RegistryInv, NEW r \in Requests
             PROVE  NotifyMR(r) = OM!Answer(r)
  BY DEF AnswersMatch
<1> DEFINE ci == IF r.instance = 0 THEN "C" ELSE "I"
           service == Service(ci, r.service)
           serving == OM!Named(Range(services[ci]), r.service)
<1>1. /\ ci \in CI /\ r.instance \in Int /\ r.instance >= -1
      /\ r.service \in Int /\ r.attribute \in Int
  BY Shapes DEF CI
<1>2. OM!Named([c \in CI |-> Range(services[c])][ci], r.service) = serving
  BY <1>1
<1>3. /\ IF serving = {} THEN service = NULL
         ELSE /\ service # NULL /\ service \in ServicesOf(ci) /\ service.id = r.service
              /\ serving = {service}
      /\ Instance(r.instance) = NULL <=> OM!Named(Range(instances), r.instance) = {}
  <2> HIDE DEF ci
  <2> QED
    BY <1>1, Lookup
<1>4. OM!Answer(r) =
        CASE r.instance = -1 -> OM!Says("PathDestinationUnknown", <<>>)
          [] r.instance >= 0 /\ serving = {} -> OM!Says("ServiceNotSupported", <<>>)
          [] /\ r.instance > 0 /\ serving # {}
             /\ OM!Named(Range(instances), r.instance) = {} ->
                OM!Says("PathDestinationUnknown", <<>>)
          [] OTHER -> OM!Perform(ci, (CHOOSE s \in serving : TRUE).fn, r)
  BY <1>2 DEF OM!Answer
<1>5. NotifyMR(r) =
        IF r.instance = -1 THEN Reply("PathDestinationUnknown", <<>>)
        ELSE IF service = NULL THEN Reply("ServiceNotSupported", <<>>)
        ELSE IF r.instance # 0 /\ Instance(r.instance) = NULL
        THEN Reply("PathDestinationUnknown", <<>>)
        ELSE ServiceFunction(service.fn, ci, r)
  BY DEF NotifyMR
<1> HIDE DEF ci, service, serving
<1>6. CASE r.instance = -1
  BY <1>4, <1>5, <1>6 DEF Reply, OM!Says
<1>7. CASE r.instance # -1 /\ serving = {}
  <2>1. r.instance >= 0 /\ service = NULL
    BY <1>1, <1>3, <1>7
  <2> QED
    BY <1>4, <1>5, <1>7, <2>1 DEF Reply, OM!Says
<1>8. CASE r.instance # -1 /\ serving # {}
  <2>1. /\ r.instance >= 0 /\ (r.instance > 0 <=> r.instance # 0)
        /\ service # NULL /\ service \in ServicesOf(ci) /\ service.id = r.service
        /\ (CHOOSE s \in serving : TRUE) = service
    BY <1>1, <1>3, <1>8, TheOnlyOne
  <2>2. CASE r.instance # 0 /\ Instance(r.instance) = NULL
    BY <1>3, <1>4, <1>5, <1>8, <2>1, <2>2 DEF Reply, OM!Says
  <2>3. CASE ~(r.instance # 0 /\ Instance(r.instance) = NULL)
    <3>1. OM!Answer(r) = OM!Perform(ci, service.fn, r)
      BY <1>3, <1>4, <1>8, <2>1, <2>3
    <3>2. NotifyMR(r) = ServiceFunction(service.fn, ci, r)
      BY <1>5, <1>8, <2>1, <2>3
    <3>3. ServiceFunction(service.fn, ci, r) = OM!Perform(ci, service.fn, r)
      <4>1. /\ service.fn \in {"GetAttributeSingle", "SetAttributeSingle", "GetAttributeAll", "Reset"}
            /\ service.fn = "GetAttributeAll" => r.service = 1
            /\ service.fn = "GetAttributeSingle" => r.service # 1
        BY <1>1, <2>1, Shapes
      <4>2. CASE service.fn = "GetAttributeSingle"
        <5>1. GetAttributeSingle(ci, r.attribute, r.service, Space) =
                OM!OfAttribute(ci, r.attribute, OM!ReadOne)
          BY <1>1, <4>1, <4>2, OneIsRead
        <5> QED
          BY <4>2, <5>1 DEF ServiceFunction, OM!Perform
      <4>3. CASE service.fn = "SetAttributeSingle"
        <5>1. SetAttributeSingle(ci, r.attribute, r.data) =
                OM!OfAttribute(ci, r.attribute, LAMBDA a : OM!WriteOne(a, r.data))
          BY <1>1, OneIsWritten
        <5> QED
          BY <4>3, <5>1 DEF ServiceFunction, OM!Perform
      <4>4. CASE service.fn = "Reset"
        BY <4>4 DEF ServiceFunction, OM!Perform, Reset, Reply, OM!Says
      <4>5. CASE service.fn = "GetAttributeAll"
        <5>1. ServiceFunction(service.fn, ci, r) = GetAttributeAll(ci, kGetAttributeAll)
          BY <4>1, <4>5 DEF ServiceFunction, kGetAttributeAll
        <5> DEFINE single == OM!Named(Range(services[ci]), 14)
        <5>2. OM!Perform(ci, service.fn, r) =
                CASE single = {} -> OM!Silent
                  [] single # {} /\ Range(attributes[ci]) = {} ->
                        OM!Says("ServiceNotSupported", <<>>)
                  [] OTHER -> OM!ReadAll(ci)
          <6>1. /\ [c \in CI |-> Range(attributes[c])][ci] = Range(attributes[ci])
                /\ [c \in CI |-> Range(services[c])][ci] = Range(services[ci])
            BY <1>1
          <6> QED
            BY <4>5, <6>1 DEF OM!Perform, OM!GetSingle
        <5>3. single = {} <=> Service(ci, kGetAttributeSingle) = NULL
          <6>1. kGetAttributeSingle = 14 /\ 14 \in Int
            BY DEF kGetAttributeSingle
          <6> QED
            BY <1>1, <6>1, Lookup
        <5>4. Range(attributes[ci]) = {} <=> attributes[ci] = <<>>
          <6>1. attributes[ci] \in Seq(AttributesOf(ci))
            BY <1>1 DEF RegistryInv, AttributesInOrder
          <6> DEFINE s == attributes[ci]
          <6>2. DOMAIN s = 1 .. Len(s) /\ Len(s) \in Nat /\ (s # <<>> => Len(s) # 0)
            BY <6>1
          <6> HIDE DEF s
          <6>3. s # <<>> => 1 \in DOMAIN s
            BY <6>2
          <6>4. s = <<>> => DOMAIN s = {}
            OBVIOUS
          <6> QED
            BY <6>3, <6>4 DEF Range, s
        <5>5. AllLoop(ci)[Len(attributes[ci])].reply = OM!ReadAll(ci)
          BY <1>1, AllAreRead
        <5> HIDE DEF single
        <5> QED
          BY <5>1, <5>2, <5>3, <5>4, <5>5, AllIsLoop
             DEF Reply, NoReply, OM!Says, OM!Silent
      <4> QED
        BY <4>1, <4>2, <4>3, <4>4, <4>5
    <3> QED
      BY <3>1, <3>2, <3>3
  <2> QED
    BY <2>2, <2>3
<1> QED
  BY <1>6, <1>7, <1>8

\* Whatever was inserted, overridden and removed before, a request gets the
\* answer that the sets call for: NotifyMR() finds the service, the instance and
\* the attribute by its binary searches, and the loop of GetAttributeAll() with
\* its mask and its shrinking room sends all that is marked, in the order of the
\* ids, or fails when that is more than a reply has room for.
THEOREM RequestsMatch == Spec => []AnswersMatch
<1>1. Spec => []RegistryInv
  BY RegistryOrdered
<1>2. RegistryInv => AnswersMatch
  BY RequestsMatchModel
<1> QED
  BY <1>1, <1>2, PTL

============================================================================
