--------------------------- MODULE BondStoreProofs ---------------------------
(* Proofs about BondStore, for any number of hosts, characteristics and       *)
(* pairings, and any room for bonds and CCCDs.                                *)
EXTENDS BondStore, TLAPS, FiniteSetTheorems, SequenceTheorems, WellFoundedInduction

-----------------------------------------------------------------------------
(* Sets of numbers, sequences and slots.                                    *)

\* A set of numbers has a least one.
LEMMA LeastIs ==
    ASSUME NEW S \in SUBSET Nat, S # {}
    PROVE  Min(S) \in S /\ \A x \in S : Min(S) <= x
<1> DEFINE R == {ss \in Nat \X Nat : ss[1] < ss[2]}
<1>1. IsWellFoundedOn(R, Nat)
  BY NatLessThanWellFounded DEF OpToRel
<1>2. \E x \in S : \A y \in S : <<y, x>> \notin R
  <2> HIDE DEF R
  <2> QED BY <1>1, WFMin
<1>3. \E x \in S : \A y \in S : x <= y
  <2>1. PICK x \in S : \A y \in S : <<y, x>> \notin R
    BY <1>2
  <2>2. ASSUME NEW y \in S PROVE x <= y
    <3>1. x \in Nat /\ y \in Nat /\ <<y, x>> \notin R
      BY <2>1
    <3> QED BY <3>1
  <2> QED BY <2>2
<1> QED BY <1>3 DEF Min

\* What is in the slots.
InSlots(slots) == {slots[i] : i \in Used(slots)}

\* No record is twice in the slots.
Distinct(slots) == \A i, j \in Used(slots) : slots[i] = slots[j] => i = j

LEMMA UsedIs ==
    ASSUME NEW n \in Nat, NEW R, NEW slots \in [1..n -> R \cup {Empty}]
    PROVE  /\ Used(slots) \subseteq 1..n /\ IsFiniteSet(Used(slots))
           /\ Cardinality(Used(slots)) \in 0..n
           /\ (1..n) \ Used(slots) = {} => Cardinality(Used(slots)) = n
<1>1. Used(slots) \in SUBSET (1..n)
  BY DEF Used
<1>2. IsFiniteSet(1..n) /\ Cardinality(1..n) = n
  BY FS_Interval
<1>3. IsFiniteSet(Used(slots)) /\ Cardinality(Used(slots)) <= n
  BY <1>1, <1>2, FS_Subset
<1>4. Cardinality(Used(slots)) \in Nat
  BY <1>3, FS_CardinalityType
<1>5. (1..n) \ Used(slots) = {} => Used(slots) = 1..n
  BY <1>1
<1> QED BY <1>1, <1>2, <1>3, <1>4, <1>5

\* populate_db_from_nvs() finds each record of the NVS once.
LEMMA RestoredIs ==
    ASSUME NEW n \in Nat, NEW R, NEW slots \in [1..n -> R \cup {Empty}]
    PROVE  /\ Restored(slots) \in Seq(R) /\ Len(Restored(slots)) = Cardinality(Used(slots))
           /\ Range(Restored(slots)) = InSlots(slots)
           /\ Distinct(slots) => IsInjective(Restored(slots))
<1> DEFINE U == Used(slots)
           N == Cardinality(U)
           Upto(i) == {j \in U : j <= i}
           f == [i \in U |-> Cardinality(Upto(i))]
<1>1. U \subseteq 1..n /\ IsFiniteSet(U) /\ N \in Nat
  <2>1. U \subseteq 1..n /\ IsFiniteSet(U) /\ Cardinality(U) \in 0..n
    BY UsedIs
  <2> QED BY <2>1
<1> HIDE DEF U
<1>2. ASSUME NEW i \in U
      PROVE  IsFiniteSet(Upto(i)) /\ Cardinality(Upto(i)) \in 1..N
  <2>1. Upto(i) \in SUBSET U /\ i \in Upto(i)
    BY <1>1
  <2> HIDE DEF Upto
  <2>2. IsFiniteSet(Upto(i)) /\ Cardinality(Upto(i)) <= N
    BY <1>1, <2>1, FS_Subset
  <2>3. Cardinality(Upto(i)) \in Nat /\ Cardinality(Upto(i)) # 0
    BY <2>1, <2>2, FS_CardinalityType, FS_EmptySet
  <2> QED BY <2>2, <2>3, <1>1
<1>3. f \in [U -> 1..N]
  BY <1>2
<1>4. ASSUME NEW i \in U, NEW j \in U, i < j
      PROVE  Cardinality(Upto(i)) # Cardinality(Upto(j))
  <2>0. U \subseteq Nat /\ i \in Nat /\ j \in Nat
    BY <1>1
  <2>1. Upto(i) \in SUBSET Upto(j) /\ j \in Upto(j) /\ j \notin Upto(i)
    <3>1. \A k \in U : k <= i => k <= j
      BY <1>4, <2>0
    <3>2. j <= j /\ ~(j <= i)
      BY <1>4, <2>0
    <3> QED BY <3>1, <3>2
  <2>2. IsFiniteSet(Upto(j))
    BY <1>2
  <2> HIDE DEF Upto
  <2> QED BY <2>1, <2>2, FS_Subset
<1>5. \A i, j \in U : f[i] = f[j] => i = j
  <2> SUFFICES ASSUME NEW i \in U, NEW j \in U, i # j PROVE f[i] # f[j]
    OBVIOUS
  <2>1. i < j \/ j < i
    BY <1>1
  <2>2. f[i] = Cardinality(Upto(i)) /\ f[j] = Cardinality(Upto(j))
    OBVIOUS
  <2> HIDE DEF Upto, f
  <2> QED BY <1>4, <2>1, <2>2
<1>6. IsFiniteSet(1..N) /\ Cardinality(1..N) = N
  BY <1>1, FS_Interval
<1> HIDE DEF f
<1>7. f \in Injection(U, 1..N)
  BY <1>3, <1>5 DEF Injection, IsInjective
<1>8. f \in Surjection(U, 1..N)
  BY <1>6, <1>7, FS_Injection
<1>9. \A m \in 1..N : \E i \in U : f[i] = m
  BY <1>8 DEF Surjection
<1>10. \A m \in 1..N : Slot(slots, m) \in U /\ f[Slot(slots, m)] = m
  <2> SUFFICES ASSUME NEW m \in 1..N
               PROVE  Slot(slots, m) \in U /\ f[Slot(slots, m)] = m
    OBVIOUS
  <2>1. Slot(slots, m) = CHOOSE i \in U : Cardinality(Upto(i)) = m
    BY DEF Slot, U
  <2>2. \E i \in U : Cardinality(Upto(i)) = m
    BY <1>9 DEF f
  <2>3. Slot(slots, m) \in U /\ Cardinality(Upto(Slot(slots, m))) = m
    <3> HIDE DEF Upto
    <3> QED BY <2>1, <2>2
  <2> QED BY <2>3 DEF f
<1>11. \A i \in U : f[i] \in 1..N /\ Slot(slots, f[i]) = i
  BY <1>3, <1>5, <1>10
<1>12. Restored(slots) = [m \in 1..N |-> slots[Slot(slots, m)]]
  BY DEF Restored, U
<1>13. \A i \in U : slots[i] \in R
  BY <1>1 DEF U, Used
<1>14. Restored(slots) \in Seq(R) /\ Len(Restored(slots)) = N
  <2>1. Restored(slots) \in [1..N -> R]
    BY <1>10, <1>12, <1>13
  <2> QED BY <1>1, <2>1
<1>15. Range(Restored(slots)) = InSlots(slots)
  <2>1. Range(Restored(slots)) = {slots[Slot(slots, m)] : m \in 1..N}
    BY <1>12 DEF Range
  <2>2. InSlots(slots) = {slots[i] : i \in U}
    BY DEF InSlots, U
  <2> QED BY <1>10, <1>11, <2>1, <2>2
<1>16. ASSUME Distinct(slots) PROVE IsInjective(Restored(slots))
  <2>1. \A i, j \in U : slots[i] = slots[j] => i = j
    BY <1>16 DEF Distinct, U
  <2> SUFFICES ASSUME NEW i \in 1..N, NEW j \in 1..N, slots[Slot(slots, i)] = slots[Slot(slots, j)]
               PROVE  i = j
    BY <1>12 DEF IsInjective
  <2>2. Slot(slots, i) = Slot(slots, j)
    BY <1>10, <2>1
  <2> QED BY <1>10, <2>2
<1> QED BY <1>14, <1>15, <1>16 DEF U

\* An element is taken out of a list.
LEMMA RemoveAtIs ==
    ASSUME NEW R, NEW rs \in Seq(R), NEW i \in DOMAIN rs
    PROVE  /\ RemoveAt(rs, i) \in Seq(R) /\ Len(rs) = Len(RemoveAt(rs, i)) + 1
           /\ \A j \in 1..(Len(rs) - 1) :
                 RemoveAt(rs, i)[j] = IF j < i THEN rs[j] ELSE rs[j + 1]
<1> DEFINE a == SubSeq(rs, 1, i - 1)
           b == SubSeq(rs, i + 1, Len(rs))
<1>1. i \in 1..Len(rs) /\ Len(rs) \in Nat
  OBVIOUS
<1>2. a \in Seq(R) /\ Len(a) = i - 1 /\ \A j \in 1..(i - 1) : a[j] = rs[j]
  BY <1>1
<1>3. b \in Seq(R) /\ Len(b) = Len(rs) - i /\ \A j \in 1..(Len(rs) - i) : b[j] = rs[i + j]
  BY <1>1
<1> HIDE DEF a, b
<1>4. a \o b \in Seq(R) /\ Len(a \o b) = Len(a) + Len(b)
  BY <1>2, <1>3, ConcatProperties
<1>5. \A j \in 1..(Len(a) + Len(b)) :
         (a \o b)[j] = IF j <= Len(a) THEN a[j] ELSE b[j - Len(a)]
  BY <1>2, <1>3, ConcatProperties
<1>6. RemoveAt(rs, i) = a \o b
  BY DEF RemoveAt, a, b
<1>7. ASSUME NEW j \in 1..(Len(rs) - 1)
      PROVE  (a \o b)[j] = IF j < i THEN rs[j] ELSE rs[j + 1]
  <2>1. CASE j < i
    BY <1>1, <1>2, <1>3, <1>5, <2>1
  <2>2. CASE ~(j < i)
    <3>1. j - Len(a) \in 1..(Len(rs) - i) /\ i + (j - Len(a)) = j + 1
      BY <1>1, <1>2, <2>2
    <3>2. b[j - Len(a)] = rs[j + 1]
      BY <1>3, <3>1
    <3>3. j \in 1..(Len(a) + Len(b)) /\ ~(j <= Len(a))
      BY <1>1, <1>2, <1>3, <2>2
    <3> QED BY <1>5, <2>2, <3>2, <3>3
  <2> QED BY <2>1, <2>2
<1>8. Len(rs) = Len(a \o b) + 1
  <2>1. Len(rs) = (Len(a) + Len(b)) + 1
    <3>1. Len(a) = i - 1 /\ Len(b) = Len(rs) - i
      BY <1>2, <1>3
    <3>2. i \in Int /\ Len(rs) \in Int /\ Len(a) \in Int /\ Len(b) \in Int
      BY <1>1, <1>2, <1>3
    <3>3. \A x, y, z, k \in Int : x = k - 1 /\ y = z - k => z = (x + y) + 1
      OBVIOUS
    <3> QED BY <3>1, <3>2, <3>3
  <2> QED BY <1>4, <2>1
<1> QED BY <1>4, <1>6, <1>7, <1>8

LEMMA RemoveAtDistinct ==
    ASSUME NEW R, NEW rs \in Seq(R), NEW i \in DOMAIN rs, IsInjective(rs)
    PROVE  /\ IsInjective(RemoveAt(rs, i))
           /\ Range(RemoveAt(rs, i)) = Range(rs) \ {rs[i]}
<1> DEFINE t == RemoveAt(rs, i)
<1>1. i \in 1..Len(rs) /\ Len(rs) \in Nat /\ DOMAIN rs = 1..Len(rs)
  OBVIOUS
<1>2. DOMAIN t = 1..(Len(rs) - 1)
  <2>1. t \in Seq(R) /\ Len(rs) = Len(t) + 1
    BY RemoveAtIs
  <2> QED BY <2>1, <1>1
<1>3. \A j \in DOMAIN t : t[j] = IF j < i THEN rs[j] ELSE rs[j + 1]
  BY <1>2, RemoveAtIs
<1>4. \A j, k \in DOMAIN rs : rs[j] = rs[k] => j = k
  BY DEF IsInjective
<1> HIDE DEF t
<1>5. IsInjective(t)
  <2> SUFFICES ASSUME NEW j \in DOMAIN t, NEW k \in DOMAIN t, t[j] = t[k] PROVE j = k
    BY DEF IsInjective
  <2> DEFINE u(x) == IF x < i THEN x ELSE x + 1
  <2>1. u(j) \in DOMAIN rs /\ u(k) \in DOMAIN rs
    BY <1>1, <1>2
  <2>2. rs[u(j)] = rs[u(k)]
    BY <1>3
  <2>3. u(j) = u(k)
    BY <1>4, <2>1, <2>2
  <2> QED BY <1>1, <1>2, <2>3
<1>6. \A j \in DOMAIN t : t[j] \in Range(rs) /\ t[j] # rs[i]
  <2> SUFFICES ASSUME NEW j \in DOMAIN t PROVE t[j] \in Range(rs) /\ t[j] # rs[i]
    OBVIOUS
  <2>1. CASE j < i
    <3>1. j \in DOMAIN rs /\ j # i /\ t[j] = rs[j]
      BY <1>1, <1>2, <1>3, <2>1
    <3> QED BY <1>1, <1>4, <3>1 DEF Range
  <2>2. CASE ~(j < i)
    <3>1. j + 1 \in DOMAIN rs /\ j + 1 # i /\ t[j] = rs[j + 1]
      BY <1>1, <1>2, <1>3, <2>2
    <3> QED BY <1>1, <1>4, <3>1 DEF Range
  <2> QED BY <2>1, <2>2
<1>7. \A j \in DOMAIN rs : j # i => rs[j] \in Range(t)
  <2> SUFFICES ASSUME NEW j \in DOMAIN rs, j # i PROVE rs[j] \in Range(t)
    OBVIOUS
  <2>1. CASE j < i
    <3>1. j \in DOMAIN t /\ t[j] = rs[j]
      BY <1>1, <1>2, <1>3, <2>1
    <3> QED BY <3>1 DEF Range
  <2>2. CASE i < j
    <3>1. j - 1 \in DOMAIN t /\ ~(j - 1 < i) /\ (j - 1) + 1 = j
      BY <1>1, <1>2, <2>2
    <3>2. t[j - 1] = rs[j]
      BY <1>3, <3>1
    <3> QED BY <3>1, <3>2 DEF Range
  <2> QED BY <1>1, <2>1, <2>2
<1>8. Range(t) = Range(rs) \ {rs[i]}
  BY <1>6, <1>7 DEF Range
<1> QED BY <1>5, <1>8 DEF t

LEMMA AppendDistinct ==
    ASSUME NEW R, NEW rs \in Seq(R), NEW r \in R, r \notin Range(rs), IsInjective(rs)
    PROVE  /\ IsInjective(Append(rs, r)) /\ Range(Append(rs, r)) = Range(rs) \cup {r}
           /\ Append(rs, r) \in Seq(R) /\ Len(Append(rs, r)) = Len(rs) + 1
           /\ Last(Append(rs, r)) = r
<1> DEFINE t == Append(rs, r)
<1>1. t \in Seq(R) /\ Len(t) = Len(rs) + 1 /\ Len(rs) \in Nat
  OBVIOUS
<1>2. DOMAIN t = 1..(Len(rs) + 1) /\ DOMAIN rs = 1..Len(rs)
  BY <1>1
<1>3. \A j \in DOMAIN t : t[j] = IF j \in DOMAIN rs THEN rs[j] ELSE r
  BY <1>2
<1>4. \A j \in DOMAIN t : j \in DOMAIN rs \/ j = Len(rs) + 1
  BY <1>2
<1>5. \A j \in DOMAIN rs : j \in DOMAIN t
  BY <1>2
<1>6. Len(rs) + 1 \in DOMAIN t /\ Len(rs) + 1 \notin DOMAIN rs
  BY <1>2
<1> HIDE DEF t
<1>7. \A j \in DOMAIN rs : rs[j] # r
  BY DEF Range
<1>8. IsInjective(t)
  BY <1>3, <1>4, <1>7 DEF IsInjective
<1>9. Range(t) = Range(rs) \cup {r}
  BY <1>3, <1>4, <1>5, <1>6 DEF Range
<1>10. Last(t) = r
  BY <1>1, <1>3, <1>6 DEF Last
<1> QED BY <1>1, <1>8, <1>9, <1>10 DEF t

\* The slots hold the records of the list, each of them once.
Mirrors(slots, rs) ==
    /\ IsInjective(rs) /\ Distinct(slots)
    /\ InSlots(slots) = Range(rs)
    /\ Cardinality(Used(slots)) = Len(rs)

\* persist_...() after a record was appended writes it to a free slot ...
LEMMA PersistedAppends ==
    ASSUME NEW n \in Nat, NEW R, Empty \notin R, NEW slots \in [1..n -> R \cup {Empty}],
           NEW rs \in Seq(R), NEW r \in R, r \notin Range(rs), Len(rs) < n, Mirrors(slots, rs)
    PROVE  /\ Persisted(slots, Append(rs, r)) \in [1..n -> R \cup {Empty}]
           /\ Mirrors(Persisted(slots, Append(rs, r)), Append(rs, r))
<1> DEFINE t == Append(rs, r)
           free == (1..n) \ Used(slots)
           m == Min(free)
           new == [slots EXCEPT ![m] = r]
<1>1. /\ t \in Seq(R) /\ Len(t) = Len(rs) + 1 /\ Len(rs) \in Nat
      /\ IsInjective(t) /\ Range(t) = Range(rs) \cup {r} /\ Last(t) = r
  BY AppendDistinct DEF Mirrors
<1>2. Used(slots) \subseteq 1..n /\ IsFiniteSet(Used(slots)) /\ Cardinality(Used(slots)) = Len(rs)
  BY UsedIs DEF Mirrors
<1>3. free # {}
  <2>1. free = {} => Cardinality(Used(slots)) = n
    BY UsedIs
  <2> QED BY <1>1, <1>2, <2>1
<1>4. m \in free
  <2>1. free \in SUBSET Nat
    OBVIOUS
  <2> HIDE DEF free
  <2> QED BY <1>3, <2>1, LeastIs
<1>5. Persisted(slots, t) = new
  <2>1. DOMAIN slots = 1..n
    OBVIOUS
  <2>2. Len(rs) < Len(t)
    BY <1>1
  <2> HIDE DEF t
  <2> QED BY <1>1, <1>2, <1>3, <2>1, <2>2 DEF Persisted
<1> HIDE DEF t, m, free
<1>6. m \in 1..n /\ m \notin Used(slots)
  BY <1>4 DEF free
<1>7. new \in [1..n -> R \cup {Empty}]
  OBVIOUS
<1>8. new[m] = r /\ \A i \in 1..n : i # m => new[i] = slots[i]
  BY <1>6
<1> HIDE DEF new
<1>9. Used(new) = Used(slots) \cup {m}
  BY <1>6, <1>7, <1>8 DEF Used
<1>10. Cardinality(Used(new)) = Len(t)
  BY <1>1, <1>2, <1>6, <1>9, FS_AddElement
<1>11. InSlots(new) = InSlots(slots) \cup {r}
  BY <1>2, <1>6, <1>8, <1>9 DEF InSlots
<1>12. r \notin InSlots(slots)
  BY DEF Mirrors
<1>13. Distinct(new)
  <2> SUFFICES ASSUME NEW i \in Used(new), NEW j \in Used(new), new[i] = new[j] PROVE i = j
    BY DEF Distinct
  <2>1. \A k \in Used(slots) : k # m /\ new[k] = slots[k] /\ slots[k] # r
    BY <1>2, <1>6, <1>8, <1>12 DEF InSlots
  <2> QED BY <1>8, <1>9, <2>1 DEF Mirrors, Distinct
<1> QED BY <1>1, <1>5, <1>7, <1>10, <1>11, <1>13 DEF Mirrors, t

\* ... after a record was removed it erases its slot ...
LEMMA PersistedRemoves ==
    ASSUME NEW n \in Nat, NEW R, Empty \notin R, NEW slots \in [1..n -> R \cup {Empty}],
           NEW rs \in Seq(R), NEW i \in DOMAIN rs, Mirrors(slots, rs)
    PROVE  /\ Persisted(slots, RemoveAt(rs, i)) \in [1..n -> R \cup {Empty}]
           /\ Mirrors(Persisted(slots, RemoveAt(rs, i)), RemoveAt(rs, i))
<1> DEFINE t == RemoveAt(rs, i)
           odd == {k \in Used(slots) : slots[k] \notin Range(t)}
           m == Min(odd)
           new == [slots EXCEPT ![m] = Empty]
<1>1. /\ t \in Seq(R) /\ Len(rs) = Len(t) + 1 /\ Len(t) \in Nat
      /\ IsInjective(t) /\ Range(t) = Range(rs) \ {rs[i]}
  <2>1. t \in Seq(R) /\ Len(rs) = Len(t) + 1
    BY RemoveAtIs
  <2>2. IsInjective(t) /\ Range(t) = Range(rs) \ {rs[i]}
    BY RemoveAtDistinct DEF Mirrors
  <2> HIDE DEF t
  <2> QED BY <2>1, <2>2
<1>2. Used(slots) \subseteq 1..n /\ IsFiniteSet(Used(slots)) /\ Cardinality(Used(slots)) = Len(rs)
  BY UsedIs DEF Mirrors
<1>3. PICK u \in Used(slots) : slots[u] = rs[i]
  BY DEF Mirrors, InSlots, Range
<1> HIDE DEF t
<1>4. odd = {u}
  <2>1. \A k \in Used(slots) : slots[k] \in Range(rs)
    BY DEF Mirrors, InSlots
  <2>2. \A k \in Used(slots) : slots[k] \notin Range(t) <=> slots[k] = slots[u]
    BY <1>1, <1>3, <2>1
  <2>3. \A k \in Used(slots) : slots[k] = slots[u] => k = u
    BY DEF Mirrors, Distinct
  <2> QED BY <2>2, <2>3
<1>5. m = u
  <2>1. {u} \in SUBSET Nat
    BY <1>2
  <2> QED BY <1>4, <2>1, LeastIs
<1>6. Persisted(slots, t) = new
  <2>1. DOMAIN slots = 1..n
    OBVIOUS
  <2>2. ~(Len(rs) < Len(t)) /\ Len(rs) > Len(t)
    BY <1>1
  <2>3. odd # {}
    BY <1>4
  <2> QED BY <1>2, <2>1, <2>2, <2>3 DEF Persisted
<1> HIDE DEF m, odd
<1>7. new \in [1..n -> R \cup {Empty}]
  OBVIOUS
<1>8. u \in 1..n /\ new[u] = Empty /\ \A k \in 1..n : k # u => new[k] = slots[k]
  BY <1>2, <1>5
<1> HIDE DEF new
<1>9. Used(new) = Used(slots) \ {u}
  BY <1>7, <1>8 DEF Used
<1>10. Cardinality(Used(new)) = Len(t)
  <2>1. Cardinality(Used(new)) = Len(rs) - 1
    BY <1>2, <1>9, FS_RemoveElement
  <2> QED BY <1>1, <2>1
<1>11. \A k \in Used(new) : k \in Used(slots) /\ new[k] = slots[k] /\ k # u
  BY <1>2, <1>8, <1>9
<1>12. Distinct(new)
  BY <1>11 DEF Mirrors, Distinct
<1>13. InSlots(new) = Range(t)
  <2>1. \A k \in Used(slots) : k # u => slots[k] # slots[u] /\ k \in Used(new) /\ new[k] = slots[k]
    BY <1>9, <1>11 DEF Mirrors, Distinct
  <2>2. InSlots(new) = InSlots(slots) \ {slots[u]}
    BY <1>11, <2>1 DEF InSlots
  <2> QED BY <1>1, <1>3, <2>2 DEF Mirrors
<1> QED BY <1>1, <1>6, <1>7, <1>10, <1>12, <1>13 DEF Mirrors, t

\* ... and with the records there are it does nothing.
LEMMA PersistedSame ==
    ASSUME NEW R, NEW slots, NEW rs \in Seq(R), Mirrors(slots, rs)
    PROVE  Persisted(slots, rs) = slots
<1>1. Cardinality(Used(slots)) = Len(rs) /\ Len(rs) \in Nat
  BY DEF Mirrors
<1>2. ~(Len(rs) < Len(rs)) /\ ~(Len(rs) > Len(rs))
  BY <1>1
<1> QED BY <1>1, <1>2 DEF Persisted

\* Whatever it finds, persist_...() fills the slots with records.
LEMMA PersistedType ==
    ASSUME NEW n \in Nat, NEW R, NEW slots \in [1..n -> R \cup {Empty}], NEW rs \in Seq(R)
    PROVE  Persisted(slots, rs) \in [1..n -> R \cup {Empty}]
<1>1. Cardinality(Used(slots)) \in 0..n
  BY UsedIs
<1>2. CASE Cardinality(Used(slots)) < Len(rs)
  <2>1. rs # <<>> /\ Last(rs) \in R
    BY <1>1, <1>2 DEF Last
  <2>2. Persisted(slots, rs) \in {slots, [slots EXCEPT ![Min(DOMAIN slots \ Used(slots))] = Last(rs)]}
    BY <1>2 DEF Persisted
  <2> QED BY <2>1, <2>2
<1>3. CASE ~(Cardinality(Used(slots)) < Len(rs))
  <2>1. \/ Persisted(slots, rs) = slots
        \/ \E i : Persisted(slots, rs) = [slots EXCEPT ![i] = Empty]
    BY <1>3 DEF Persisted
  <2> QED BY <2>1
<1> QED BY <1>2, <1>3

-----------------------------------------------------------------------------
(* Types.                                                                   *)

LEMMA KindIs ==
    ASSUME NEW k \in Kinds
    PROVE  /\ Capacity(k) \in Nat \ {0} /\ Empty \notin Records(k)
           /\ \A r \in Records(k) : /\ r[1] \in Peers /\ r = <<r[1], r[2]>> /\ Len(r) = 2
                                    /\ k # "cccd" => r[2] \in Keys
                                    /\ k = "cccd" => r[2] \in Chars
<1>1. Capacity(k) \in Nat \ {0}
  BY BondsAssumption DEF Capacity
<1>2. CASE k = "cccd"
  <2>1. Records(k) = Peers \X Chars
    BY <1>2 DEF Records
  <2> QED BY <1>1, <1>2, <2>1 DEF Empty
<1>3. CASE k # "cccd"
  <2>1. Records(k) = Peers \X Keys
    BY <1>3 DEF Records
  <2> QED BY <1>1, <1>3, <2>1 DEF Empty
<1> QED BY <1>2, <1>3

LEMMA TaskIs ==
    ASSUME NEW t \in Tasks
    PROVE  /\ t.op \in {"write", "delete"} /\ t.kind \in Kinds
           /\ t.op = "write" => t.rec \in Records(t.kind) /\ t = Write(t.kind, t.rec)
           /\ t.op = "delete" => \/ \E p \in Peers : t.rec = <<p>> /\ t = DeleteAll(t.kind, p)
                                 \/ \E p \in Peers, c \in Chars :
                                       t.kind = "cccd" /\ t.rec = <<p, c>> /\ t = DeleteCccd(p, c)
<1>1. CASE \E k \in Kinds : \E r \in Records(k) : t = Write(k, r)
  BY <1>1 DEF Write
<1>2. CASE \E k \in Kinds, p \in Peers : t = DeleteAll(k, p)
  BY <1>2 DEF DeleteAll
<1>3. CASE \E p \in Peers, c \in Chars : t = DeleteCccd(p, c)
  BY <1>3 DEF DeleteCccd, Kinds
<1>4. \/ t \in UNION {{Write(k, r) : r \in Records(k)} : k \in Kinds}
      \/ t \in {DeleteAll(k, p) : k \in Kinds, p \in Peers}
      \/ t \in {DeleteCccd(p, c) : p \in Peers, c \in Chars}
  BY DEF Tasks
<1>5. CASE t \in UNION {{Write(k, r) : r \in Records(k)} : k \in Kinds}
  BY <1>1, <1>5
<1>6. CASE t \in {DeleteAll(k, p) : k \in Kinds, p \in Peers}
  BY <1>2, <1>6
<1>7. CASE t \in {DeleteCccd(p, c) : p \in Peers, c \in Chars}
  BY <1>3, <1>7
<1> QED BY <1>4, <1>5, <1>6, <1>7

LEMMA TasksHave ==
    /\ \A k \in Kinds : \A r \in Records(k) : Write(k, r) \in Tasks
    /\ \A k \in Kinds, p \in Peers : DeleteAll(k, p) \in Tasks
    /\ \A p \in Peers, c \in Chars : DeleteCccd(p, c) \in Tasks
<1>1. ASSUME NEW k \in Kinds, NEW r \in Records(k) PROVE Write(k, r) \in Tasks
  <2>1. Write(k, r) \in UNION {{Write(j, s) : s \in Records(j)} : j \in Kinds}
    OBVIOUS
  <2> QED BY <2>1 DEF Tasks
<1>2. ASSUME NEW k \in Kinds, NEW p \in Peers PROVE DeleteAll(k, p) \in Tasks
  <2>1. DeleteAll(k, p) \in {DeleteAll(j, q) : j \in Kinds, q \in Peers}
    OBVIOUS
  <2> QED BY <2>1 DEF Tasks
<1>3. ASSUME NEW p \in Peers, NEW c \in Chars PROVE DeleteCccd(p, c) \in Tasks
  <2>1. DeleteCccd(p, c) \in {DeleteCccd(q, d) : q \in Peers, d \in Chars}
    OBVIOUS
  <2> QED BY <2>1 DEF Tasks
<1> QED BY <1>1, <1>2, <1>3

LEMMA DeletePeerIs ==
    ASSUME NEW p \in Peers
    PROVE  /\ DeletePeer(p) \in Seq(Tasks) /\ Len(DeletePeer(p)) = 3
           /\ DeletePeer(p)[1] = DeleteAll("our", p)
           /\ DeletePeer(p)[2] = DeleteAll("peer", p)
           /\ DeletePeer(p)[3] = DeleteAll("cccd", p)
<1>1. \A k \in Kinds : DeleteAll(k, p) \in Tasks
  BY TasksHave
<1>2. DeleteAll("our", p) \in Tasks /\ DeleteAll("peer", p) \in Tasks /\ DeleteAll("cccd", p) \in Tasks
  BY <1>1 DEF Kinds
<1> HIDE DEF DeleteAll
<1> QED BY <1>2 DEF DeletePeer

\* The store has a list and an array for each of the kinds, and nobody has a
\* connection when there is none.
Typed == /\ TypeOK /\ DOMAIN ram = Kinds /\ DOMAIN nvs = Kinds
         /\ conn.peer = NoPeer => conn = NoConn

\* The types of the store, kind by kind.
Filed(k) ==
    /\ ram[k] \in Seq(Records(k)) /\ Len(ram[k]) <= Capacity(k)
    /\ nvs[k] \in [1..Capacity(k) -> Records(k) \cup {Empty}]
StoreTyped == (\A k \in Kinds : Filed(k)) /\ DOMAIN ram = Kinds /\ DOMAIN nvs = Kinds

LEMMA TypedStore == Typed => StoreTyped
BY DEF Typed, TypeOK, StoreTyped, Filed

\* What Store() writes to.
LEMMA StoreIs ==
    ASSUME StoreTyped, NEW k \in Kinds, NEW rs, Store(k, rs)
    PROVE  /\ DOMAIN ram' = Kinds /\ DOMAIN nvs' = Kinds
           /\ ram'[k] = rs /\ nvs'[k] = Persisted(nvs[k], rs)
           /\ \A j \in Kinds \ {k} : ram'[j] = ram[j] /\ nvs'[j] = nvs[j]
<1>1. ram' = [ram EXCEPT ![k] = rs] /\ nvs' = [nvs EXCEPT ![k] = Persisted(nvs[k], rs)]
  BY DEF Store
<1>2. DOMAIN ram = Kinds /\ DOMAIN nvs = Kinds
  BY DEF StoreTyped
<1> QED BY <1>1, <1>2

LEMMA StoreTypes ==
    ASSUME StoreTyped, NEW k \in Kinds, NEW rs \in Seq(Records(k)), Len(rs) <= Capacity(k),
           Store(k, rs)
    PROVE  StoreTyped'
<1>1. Filed(k)
  BY DEF StoreTyped
<1>2. Capacity(k) \in Nat
  BY KindIs
<1>3. Persisted(nvs[k], rs) \in [1..Capacity(k) -> Records(k) \cup {Empty}]
  BY <1>1, <1>2, PersistedType DEF Filed
<1>4. /\ ram'[k] \in Seq(Records(k)) /\ Len(ram'[k]) <= Capacity(k)
      /\ nvs'[k] \in [1..Capacity(k) -> Records(k) \cup {Empty}]
  BY <1>3, StoreIs
<1>5. ASSUME NEW j \in Kinds, j # k
      PROVE  /\ ram'[j] \in Seq(Records(j)) /\ Len(ram'[j]) <= Capacity(j)
             /\ nvs'[j] \in [1..Capacity(j) -> Records(j) \cup {Empty}]
  <2>1. Filed(j)
    BY DEF StoreTyped
  <2>2. ram'[j] = ram[j] /\ nvs'[j] = nvs[j]
    BY <1>5, StoreIs
  <2> QED BY <2>1, <2>2 DEF Filed
<1>6. DOMAIN ram' = Kinds /\ DOMAIN nvs' = Kinds
  BY StoreIs
<1> QED BY <1>4, <1>5, <1>6 DEF StoreTyped, Filed

\* The places find_...() finds are in the list.
LEMMA PlacesAre ==
    ASSUME StoreTyped, NEW k \in Kinds, NEW rec, Matches(k, rec) # {}
    PROVE  Min(Matches(k, rec)) \in Matches(k, rec) /\ Min(Matches(k, rec)) \in DOMAIN ram[k]
<1>1. DOMAIN ram[k] = 1..Len(ram[k]) /\ Len(ram[k]) \in Nat
  BY DEF StoreTyped, Filed
<1>2. Matches(k, rec) \in SUBSET (DOMAIN ram[k])
  BY DEF Matches
<1>3. Matches(k, rec) \in SUBSET Nat
  BY <1>1, <1>2
<1>4. Min(Matches(k, rec)) \in Matches(k, rec)
  BY <1>3, LeastIs
<1> QED BY <1>2, <1>4

\* What a write or a removal makes of the list of its kind.
Placed(k, r) == IF PlaceOf(k, r) = {} THEN Append(ram[k], r)
                ELSE [ram[k] EXCEPT ![Min(PlaceOf(k, r))] = r]

LEMMA PlacedTypes ==
    ASSUME StoreTyped, NEW k \in Kinds, NEW r \in Records(k),
           PlaceOf(k, r) # {} \/ Len(ram[k]) < Capacity(k)
    PROVE  Placed(k, r) \in Seq(Records(k)) /\ Len(Placed(k, r)) <= Capacity(k)
<1>1. ram[k] \in Seq(Records(k)) /\ Len(ram[k]) <= Capacity(k) /\ Capacity(k) \in Nat
  BY KindIs DEF StoreTyped, Filed
<1>2. CASE PlaceOf(k, r) = {}
  <2>1. Placed(k, r) = Append(ram[k], r)
    BY <1>2 DEF Placed
  <2>2. Len(Append(ram[k], r)) = Len(ram[k]) + 1 /\ Len(ram[k]) < Capacity(k)
    BY <1>1, <1>2
  <2> QED BY <1>1, <2>1, <2>2
<1>3. CASE PlaceOf(k, r) # {}
  <2>1. Placed(k, r) = [ram[k] EXCEPT ![Min(PlaceOf(k, r))] = r]
    BY <1>3 DEF Placed
  <2>2. PICK n \in Nat : n = Len(ram[k]) /\ ram[k] \in [1..n -> Records(k)]
    BY <1>1
  <2>3. Placed(k, r) \in [1..n -> Records(k)]
    BY <2>1, <2>2
  <2> QED BY <1>1, <2>2, <2>3
<1> QED BY <1>2, <1>3

LEMMA RemovedTypes ==
    ASSUME StoreTyped, NEW k \in Kinds, NEW i \in DOMAIN ram[k]
    PROVE  RemoveAt(ram[k], i) \in Seq(Records(k)) /\ Len(RemoveAt(ram[k], i)) <= Capacity(k)
<1>1. ram[k] \in Seq(Records(k)) /\ Len(ram[k]) <= Capacity(k) /\ Capacity(k) \in Nat
  BY KindIs DEF StoreTyped, Filed
<1>2. RemoveAt(ram[k], i) \in Seq(Records(k)) /\ Len(ram[k]) = Len(RemoveAt(ram[k], i)) + 1
  BY <1>1, RemoveAtIs
<1> QED BY <1>1, <1>2

-----------------------------------------------------------------------------
(* The steps of the store.                                                  *)

LEMMA HeadIs ==
    ASSUME todo \in Seq(Tasks), todo # <<>>
    PROVE  /\ todo[1] \in Tasks /\ Tail(todo) \in Seq(Tasks)
           /\ 1 \in DOMAIN todo
           /\ \A i \in DOMAIN Tail(todo) : i + 1 \in DOMAIN todo /\ Tail(todo)[i] = todo[i + 1]
           /\ \A i \in DOMAIN todo : i # 1 => i - 1 \in DOMAIN Tail(todo)
<1>1. PICK n \in Nat : Len(todo) = n + 1 /\ DOMAIN todo = 1..(n + 1)
  <2>1. Len(todo) \in Nat /\ Len(todo) # 0 /\ DOMAIN todo = 1..Len(todo)
    OBVIOUS
  <2>2. Len(todo) - 1 \in Nat /\ Len(todo) = (Len(todo) - 1) + 1
    BY <2>1
  <2> QED BY <2>1, <2>2
<1>2. Tail(todo) \in Seq(Tasks) /\ Len(Tail(todo)) = n /\ DOMAIN Tail(todo) = 1..n
  <2>1. Tail(todo) \in Seq(Tasks) /\ Len(Tail(todo)) = Len(todo) - 1
    BY HeadTailProperties
  <2>2. Len(Tail(todo)) = n
    BY <1>1, <2>1
  <2>3. DOMAIN Tail(todo) = 1..Len(Tail(todo))
    BY <2>1
  <2> QED BY <2>1, <2>2, <2>3
<1>3. \A i \in 1..n : Tail(todo)[i] = todo[i + 1]
  BY <1>2, HeadTailProperties
<1>4. todo[1] \in Tasks
  BY <1>1
<1> QED BY <1>1, <1>2, <1>3, <1>4

\* ble_store_write() with room for the record.
LEMMA WriteIs ==
    ASSUME Typed, WriteFits
    PROVE  \E k \in Kinds : \E r \in Records(k) :
               /\ todo[1] = Write(k, r) /\ todo # <<>>
               /\ PlaceOf(k, r) # {} \/ Len(ram[k]) < Capacity(k)
               /\ Store(k, Placed(k, r))
               /\ replaced' = (replaced \/ (PlaceOf(k, r) # {} /\ r \notin Range(ram[k])))
               /\ IF k = "cccd" THEN Confirm(r[1], r[2]) ELSE UNCHANGED hosts
               /\ todo' = Tail(todo)
               /\ UNCHANGED <<conn, dropped, pairings>>
<1> DEFINE k == todo[1].kind
           r == todo[1].rec
<1>1. todo \in Seq(Tasks) /\ todo # <<>> /\ todo[1].op = "write" /\ Fits(todo[1])
  BY DEF Typed, TypeOK, WriteFits
<1>2. k \in Kinds /\ r \in Records(k) /\ todo[1] = Write(k, r)
  BY <1>1, HeadIs, TaskIs
<1>3. PlaceOf(k, r) # {} \/ Len(ram[k]) < Capacity(k)
  BY <1>1 DEF Fits
<1>4. Store(k, Placed(k, r))
  BY DEF WriteFits, Placed
<1>5. /\ replaced' = (replaced \/ (PlaceOf(k, r) # {} /\ r \notin Range(ram[k])))
      /\ IF k = "cccd" THEN Confirm(r[1], r[2]) ELSE UNCHANGED hosts
      /\ todo' = Tail(todo)
      /\ UNCHANGED <<conn, dropped, pairings>>
  BY DEF WriteFits
<1> HIDE DEF k, r
<1> QED BY <1>1, <1>2, <1>3, <1>4, <1>5

\* ... and without: a host is unpaired, or the record is given up.
LEMMA OverflowIs ==
    ASSUME Typed, WriteOverflows
    PROVE  \E k \in Kinds : \E r \in Records(k) :
               /\ todo[1] = Write(k, r) /\ todo # <<>>
               /\ \/ \E v \in Peers : /\ k = "cccd" => v # r[1]
                                      /\ Len(DeletePeer(v)) = 3
                                      /\ todo' = DeletePeer(v) \o todo
                                      /\ dropped' = dropped \cup {v}
                  \/ /\ todo' = Tail(todo)
                     /\ dropped' = IF k = "cccd" THEN dropped ELSE dropped \cup {r[1]}
               /\ PlaceOf(k, r) = {}
               /\ UNCHANGED <<store, conn, hosts, replaced, pairings>>
<1> DEFINE k == todo[1].kind
           r == todo[1].rec
           places == Unpairable(k, r[1])
           v == ram["our"][Min(places)][1]
<1>1. todo \in Seq(Tasks) /\ todo # <<>> /\ todo[1].op = "write" /\ ~Fits(todo[1])
  BY DEF Typed, TypeOK, WriteOverflows
<1>2. k \in Kinds /\ r \in Records(k) /\ todo[1] = Write(k, r)
  BY <1>1, HeadIs, TaskIs
<1>3. PlaceOf(k, r) = {}
  BY <1>1 DEF Fits
<1>4. UNCHANGED <<store, conn, hosts, replaced, pairings>>
  BY DEF WriteOverflows
<1>5. IF places # {} THEN todo' = DeletePeer(v) \o todo /\ dropped' = dropped \cup {v}
      ELSE /\ todo' = Tail(todo)
           /\ dropped' = IF k = "cccd" THEN dropped ELSE dropped \cup {r[1]}
  BY DEF WriteOverflows
<1> HIDE DEF k, r
<1>6. ASSUME places # {}
      PROVE  v \in Peers /\ (k = "cccd" => v # r[1]) /\ Len(DeletePeer(v)) = 3
  <2>1. ram["our"] \in Seq(Records("our")) /\ "our" \in Kinds
    BY DEF Typed, TypeOK, Kinds
  <2>2. places \in SUBSET Nat
    BY <2>1 DEF Unpairable
  <2>3. Min(places) \in places
    BY <1>6, <2>2, LeastIs
  <2>4. Min(places) \in DOMAIN ram["our"] /\ (k = "cccd" => v # r[1])
    BY <2>3 DEF Unpairable
  <2>5. ram["our"][Min(places)] \in Records("our")
    BY <2>1, <2>4
  <2>6. v \in Peers
    BY <2>1, <2>5, KindIs
  <2> QED BY <2>4, <2>6, DeletePeerIs
<1> HIDE DEF places, v
<1> QED BY <1>1, <1>2, <1>3, <1>4, <1>5, <1>6

Recs == {t.rec : t \in Tasks}

\* ble_store_config_delete_...()
LEMMA DeleteIs ==
    ASSUME Typed, Delete
    PROVE  \E k \in Kinds, rec \in Recs :
               /\ todo[1] = [op |-> "delete", kind |-> k, rec |-> rec] /\ todo # <<>>
               /\ todo[1] \in Tasks
               /\ \/ Matches(k, rec) = {} /\ todo' = Tail(todo) /\ UNCHANGED store
                  \/ \E i \in Matches(k, rec) :
                        /\ i \in DOMAIN ram[k]
                        /\ Store(k, RemoveAt(ram[k], i))
                        /\ todo' = IF Len(rec) = 1 THEN todo ELSE Tail(todo)
               /\ UNCHANGED <<conn, hosts, history>>
<1> DEFINE k == todo[1].kind
           rec == todo[1].rec
           found == Matches(k, rec)
<1>1. todo \in Seq(Tasks) /\ todo # <<>> /\ todo[1].op = "delete"
  BY DEF Typed, TypeOK, Delete
<1>2. todo[1] \in Tasks
  BY <1>1, HeadIs
<1>3. k \in Kinds /\ todo[1] = [op |-> "delete", kind |-> k, rec |-> rec]
  BY <1>1, <1>2, TaskIs DEF DeleteAll, DeleteCccd
<1>4. rec \in Recs
  BY <1>2 DEF Recs
<1>5. IF found = {} THEN todo' = Tail(todo) /\ UNCHANGED store
      ELSE /\ Store(k, RemoveAt(ram[k], Min(found)))
           /\ todo' = IF Len(rec) = 1 THEN todo ELSE Tail(todo)
  BY DEF Delete
<1>6. UNCHANGED <<conn, hosts, history>>
  BY DEF Delete
<1> HIDE DEF k, rec
<1>7. found # {} => Min(found) \in found /\ Min(found) \in DOMAIN ram[k]
  BY <1>3, TypedStore, PlacesAre
<1> QED BY <1>1, <1>2, <1>3, <1>4, <1>5, <1>6, <1>7

LinkTyped == /\ conn \in [peer : Peers \cup {NoPeer}, pairing : BOOLEAN, encrypted : BOOLEAN,
                          bonded : BOOLEAN, flags : SUBSET Chars]
             /\ conn.peer = NoPeer => conn = NoConn
HostsTyped == /\ key \in [Peers -> Keys \cup {NoKey}]
              /\ wish \in [Peers -> SUBSET Chars] /\ unsaved \in [Peers -> SUBSET Chars]
HistoryTyped == /\ dropped \subseteq Peers /\ replaced \in BOOLEAN
                /\ pairings \in 0..MaxPairings
TypedParts == StoreTyped /\ LinkTyped /\ todo \in Seq(Tasks) /\ HostsTyped /\ HistoryTyped

LEMMA TypedIs == Typed <=> TypedParts
BY DEF Typed, TypeOK, TypedParts, StoreTyped, Filed, LinkTyped, HostsTyped, HistoryTyped

\* Who has the connection is one of the hosts.
LEMMA PeerIs == Typed /\ Linked => conn.peer \in Peers
BY DEF Typed, TypeOK, Linked

LEMMA SameStore == StoreTyped /\ UNCHANGED store => StoreTyped'
BY DEF store, StoreTyped, Filed

LEMMA TypedInitial == Init => Typed
<1> SUFFICES ASSUME Init PROVE TypedParts
  BY TypedIs
<1>1. ASSUME NEW k \in Kinds PROVE Filed(k)
  <2>1. Capacity(k) \in Nat
    BY KindIs
  <2> QED BY <1>1, <2>1 DEF Init, Filed
<1>2. StoreTyped
  BY <1>1 DEF Init, StoreTyped
<1>3. LinkTyped
  BY DEF Init, LinkTyped, NoConn
<1>4. todo \in Seq(Tasks)
  BY DEF Init
<1>5. HostsTyped /\ HistoryTyped
  <2>1. 0 \in 0..MaxPairings
    BY PairingsAssumption
  <2>2. HostsTyped
    BY DEF Init, HostsTyped
  <2> QED BY <2>1, <2>2 DEF Init, HistoryTyped
<1> QED BY <1>2, <1>3, <1>4, <1>5 DEF TypedParts

LEMMA TypedWrite == Typed /\ WriteFits => Typed'
<1> SUFFICES ASSUME Typed, WriteFits PROVE TypedParts'
  BY TypedIs DEF Typed, TypeOK, TypedParts, StoreTyped, Filed, LinkTyped, HostsTyped, HistoryTyped
<1>0. TypedParts
  BY TypedIs
<1>1. PICK k \in Kinds : \E r \in Records(k) :
               /\ todo[1] = Write(k, r) /\ todo # <<>>
               /\ PlaceOf(k, r) # {} \/ Len(ram[k]) < Capacity(k)
               /\ Store(k, Placed(k, r))
               /\ replaced' = (replaced \/ (PlaceOf(k, r) # {} /\ r \notin Range(ram[k])))
               /\ IF k = "cccd" THEN Confirm(r[1], r[2]) ELSE UNCHANGED hosts
               /\ todo' = Tail(todo)
               /\ UNCHANGED <<conn, dropped, pairings>>
  BY WriteIs
<1>2. PICK r \in Records(k) :
               /\ todo[1] = Write(k, r) /\ todo # <<>>
               /\ PlaceOf(k, r) # {} \/ Len(ram[k]) < Capacity(k)
               /\ Store(k, Placed(k, r))
               /\ replaced' = (replaced \/ (PlaceOf(k, r) # {} /\ r \notin Range(ram[k])))
               /\ IF k = "cccd" THEN Confirm(r[1], r[2]) ELSE UNCHANGED hosts
               /\ todo' = Tail(todo)
               /\ UNCHANGED <<conn, dropped, pairings>>
  BY <1>1
<1>3. StoreTyped'
  BY <1>0, <1>2, PlacedTypes, StoreTypes DEF TypedParts
<1>4. todo' \in Seq(Tasks)
  BY <1>0, <1>2, HeadIs DEF TypedParts
<1>5. LinkTyped'
  BY <1>0, <1>2 DEF TypedParts, LinkTyped
<1>6. HostsTyped'
  <2>1. CASE k = "cccd"
    <3>1. r[1] \in Peers /\ r[2] \in Chars
      BY <2>1, KindIs
    <3> QED BY <1>0, <1>2, <2>1, <3>1 DEF TypedParts, HostsTyped, Confirm
  <2>2. CASE k # "cccd"
    BY <1>0, <1>2, <2>2 DEF TypedParts, HostsTyped, hosts
  <2> QED BY <2>1, <2>2
<1>7. HistoryTyped'
  BY <1>0, <1>2 DEF TypedParts, HistoryTyped
<1> QED BY <1>3, <1>4, <1>5, <1>6, <1>7 DEF TypedParts

LEMMA TypedOverflow == Typed /\ WriteOverflows => Typed'
<1> SUFFICES ASSUME Typed, WriteOverflows PROVE TypedParts'
  BY TypedIs DEF Typed, TypeOK, TypedParts, StoreTyped, Filed, LinkTyped, HostsTyped, HistoryTyped
<1>0. TypedParts
  BY TypedIs
<1>1. UNCHANGED <<store, conn, hosts, replaced, pairings>>
  BY DEF WriteOverflows
<1>2. StoreTyped' /\ LinkTyped' /\ HostsTyped'
  BY <1>0, <1>1, SameStore DEF TypedParts, LinkTyped, HostsTyped, hosts
<1>3. \/ \E v \in Peers : todo' = DeletePeer(v) \o todo /\ dropped' = dropped \cup {v}
      \/ /\ todo # <<>> /\ todo' = Tail(todo)
         /\ \E p \in Peers : dropped' \in {dropped, dropped \cup {p}}
  <2>1. \A k \in Kinds : \A r \in Records(k) : r[1] \in Peers
    BY KindIs
  <2> QED BY <2>1, OverflowIs
<1>4. todo' \in Seq(Tasks)
  BY <1>0, <1>3, HeadIs, DeletePeerIs, ConcatProperties DEF TypedParts
<1>5. HistoryTyped'
  BY <1>0, <1>1, <1>3 DEF TypedParts, HistoryTyped
<1> QED BY <1>2, <1>4, <1>5 DEF TypedParts

LEMMA TypedDelete == Typed /\ Delete => Typed'
<1> SUFFICES ASSUME Typed, Delete PROVE TypedParts'
  BY TypedIs DEF Typed, TypeOK, TypedParts, StoreTyped, Filed, LinkTyped, HostsTyped, HistoryTyped
<1>0. TypedParts
  BY TypedIs
<1>1. UNCHANGED <<conn, hosts, history>>
  BY DEF Delete
<1>2. LinkTyped' /\ HostsTyped' /\ HistoryTyped'
  BY <1>0, <1>1 DEF TypedParts, LinkTyped, HostsTyped, HistoryTyped, hosts, history
<1>3. /\ todo # <<>> /\ todo' \in {todo, Tail(todo)}
      /\ \/ UNCHANGED store
         \/ \E k \in Kinds : \E i \in DOMAIN ram[k] : Store(k, RemoveAt(ram[k], i))
  BY DeleteIs
<1>4. todo' \in Seq(Tasks)
  BY <1>0, <1>3, HeadIs DEF TypedParts
<1>5. StoreTyped'
  BY <1>0, <1>3, SameStore, RemovedTypes, StoreTypes DEF TypedParts
<1> QED BY <1>2, <1>4, <1>5 DEF TypedParts

LEMMA TypedPowerCut == Typed /\ PowerCut => Typed'
<1> SUFFICES ASSUME Typed, PowerCut PROVE TypedParts'
  BY TypedIs DEF Typed, TypeOK, TypedParts, StoreTyped, Filed, LinkTyped, HostsTyped, HistoryTyped
<1>0. TypedParts
  BY TypedIs
<1>1. ASSUME NEW k \in Kinds
      PROVE  /\ ram'[k] \in Seq(Records(k)) /\ Len(ram'[k]) <= Capacity(k)
             /\ nvs'[k] \in [1..Capacity(k) -> Records(k) \cup {Empty}]
  <2>1. Filed(k) /\ Capacity(k) \in Nat
    BY <1>0, KindIs DEF TypedParts, StoreTyped
  <2>2. ram'[k] = Restored(nvs[k]) /\ nvs'[k] = nvs[k]
    BY DEF PowerCut
  <2>3. nvs[k] \in [1..Capacity(k) -> Records(k) \cup {Empty}]
    BY <2>1 DEF Filed
  <2>4. Restored(nvs[k]) \in Seq(Records(k)) /\ Len(Restored(nvs[k])) = Cardinality(Used(nvs[k]))
    BY <2>1, <2>3, RestoredIs
  <2>5. Cardinality(Used(nvs[k])) \in 0..Capacity(k)
    BY <2>1, <2>3, UsedIs
  <2> QED BY <2>1, <2>2, <2>3, <2>4, <2>5
<1>2. StoreTyped'
  <2>1. DOMAIN ram' = Kinds /\ DOMAIN nvs' = Kinds
    BY <1>0 DEF PowerCut, TypedParts, StoreTyped
  <2> QED BY <1>1, <2>1 DEF StoreTyped, Filed
<1>3. LinkTyped' /\ HostsTyped' /\ (todo \in Seq(Tasks))'
  BY <1>0 DEF PowerCut, TypedParts, LinkTyped, NoConn, HostsTyped, hosts
<1>4. dropped' \subseteq Peers
  <2>1. ASSUME NEW u \in Range(todo), u.op = "write"
        PROVE  u.rec[1] \in Peers
    <3>1. u \in Tasks
      BY <1>0 DEF TypedParts, Range
    <3>2. u.kind \in Kinds /\ u.rec \in Records(u.kind)
      BY <2>1, <3>1, TaskIs
    <3> QED BY <3>2, KindIs
  <2>2. dropped \subseteq Peers
    BY <1>0 DEF TypedParts, HistoryTyped
  <2> QED BY <2>1, <2>2 DEF PowerCut
<1>5. HistoryTyped'
  BY <1>0, <1>4 DEF PowerCut, TypedParts, HistoryTyped
<1> QED BY <1>2, <1>3, <1>5 DEF TypedParts

Links == [peer : Peers \cup {NoPeer}, pairing : BOOLEAN, encrypted : BOOLEAN,
          bonded : BOOLEAN, flags : SUBSET Chars]

\* A connection there is stays the connection of its host.
LEMMA LinkStays ==
    ASSUME LinkTyped, Linked, conn' \in Links, conn'.peer = conn.peer
    PROVE  LinkTyped'
BY DEF LinkTyped, Linked, Links

\* The events of a connection, the user and their answers change the lists of
\* what is to do by what they write or delete, and nothing in the store.
LEMMA TypedEvent ==
    ASSUME Typed, UNCHANGED <<store, history>>, HostsTyped', LinkTyped',
           todo' \in Seq(Tasks)
    PROVE  Typed'
<1>1. TypedParts /\ StoreTyped' /\ HistoryTyped'
  BY TypedIs, SameStore DEF TypedParts, HistoryTyped, history
<1>2. TypedParts'
  BY <1>1 DEF TypedParts
<1> QED BY <1>2 DEF Typed, TypeOK, TypedParts, StoreTyped, Filed, LinkTyped, HostsTyped, HistoryTyped

LEMMA TypedConnect ==
    ASSUME Typed, NEW p \in Peers, Connect(p)
    PROVE  Typed'
<1>0. LinkTyped /\ HostsTyped /\ todo \in Seq(Tasks)
  BY TypedIs DEF TypedParts
<1>1. LinkTyped'
  BY DEF Connect, NoConn, LinkTyped
<1>2. HostsTyped'
  BY <1>0 DEF Connect, HostsTyped
<1> QED BY <1>0, <1>1, <1>2, TypedEvent DEF Connect

LEMMA TypedForget ==
    ASSUME Typed, NEW p \in Peers, Forget(p)
    PROVE  Typed'
<1>0. LinkTyped /\ HostsTyped /\ todo \in Seq(Tasks)
  BY TypedIs DEF TypedParts
<1>1. HostsTyped'
  BY <1>0 DEF Forget, HostsTyped
<1>2. LinkTyped' /\ todo' = todo
  BY <1>0 DEF Forget, LinkTyped
<1> QED BY <1>0, <1>1, <1>2, TypedEvent DEF Forget

LEMMA TypedLink ==
    ASSUME Typed, Disconnect \/ Encrypt \/ PairFails
    PROVE  Typed'
<1>0. LinkTyped /\ HostsTyped /\ todo \in Seq(Tasks)
  BY TypedIs DEF TypedParts
<1>1. UNCHANGED <<store, todo, hosts, history>>
  BY DEF Disconnect, Encrypt, PairFails
<1>2. HostsTyped' /\ todo' = todo
  BY <1>0, <1>1 DEF HostsTyped, hosts
<1>3. LinkTyped'
  <2>1. CASE Disconnect
    BY <2>1 DEF Disconnect, NoConn, LinkTyped
  <2>2. CASE Encrypt
    <3>1. \/ conn' = NoConn
          \/ \E s \in SUBSET Chars :
                conn' = [conn EXCEPT !.encrypted = TRUE, !.bonded = TRUE, !.flags = @ \cup s]
      <4>1. {c \in Chars : <<conn.peer, c>> \in Range(ram["cccd"])} \in SUBSET Chars
        OBVIOUS
      <4> QED BY <2>2, <4>1 DEF Encrypt
    <3>2. CASE conn' = NoConn
      BY <3>2 DEF NoConn, LinkTyped
    <3>3. ASSUME NEW s \in SUBSET Chars,
                 conn' = [conn EXCEPT !.encrypted = TRUE, !.bonded = TRUE, !.flags = @ \cup s]
          PROVE  LinkTyped'
      <4>1. conn.flags \cup s \in SUBSET Chars
        BY <1>0 DEF LinkTyped
      <4>2. conn' \in Links /\ conn'.peer = conn.peer
        BY <1>0, <3>3, <4>1 DEF LinkTyped, Links
      <4> QED BY <1>0, <2>2, <4>2, LinkStays DEF Encrypt
    <3> QED BY <3>1, <3>2, <3>3
  <2>3. CASE PairFails
    <3>1. conn' \in Links /\ conn'.peer = conn.peer
      BY <1>0, <2>3 DEF PairFails, LinkTyped, Links
    <3> QED BY <1>0, <2>3, <3>1, LinkStays DEF PairFails
  <2> QED BY <2>1, <2>2, <2>3
<1> QED BY <1>0, <1>1, <1>2, <1>3, TypedEvent

LEMMA TypedPairRequest ==
    ASSUME Typed, PairRequest
    PROVE  Typed'
<1>0. TypedParts
  BY TypedIs
<1>1. UNCHANGED <<store, hosts, replaced, pairings>>
  BY DEF PairRequest
<1>2. StoreTyped' /\ HostsTyped'
  BY <1>0, <1>1, SameStore DEF TypedParts, HostsTyped, hosts
<1>3. LinkTyped'
  <2>1. conn' \in Links /\ conn'.peer = conn.peer
    BY <1>0 DEF PairRequest, TypedParts, LinkTyped, Links
  <2> QED BY <1>0, <2>1, LinkStays DEF PairRequest, TypedParts
<1>4. conn.peer \in Peers
  BY PeerIs DEF PairRequest
<1>5. \/ todo' = todo /\ dropped' = dropped
      \/ todo' = DeletePeer(conn.peer) /\ dropped' = dropped \cup {conn.peer}
  BY DEF PairRequest
<1>6. todo' \in Seq(Tasks)
  BY <1>0, <1>4, <1>5, DeletePeerIs DEF TypedParts
<1>7. HistoryTyped'
  BY <1>0, <1>1, <1>4, <1>5 DEF TypedParts, HistoryTyped
<1>8. TypedParts'
  BY <1>2, <1>3, <1>6, <1>7 DEF TypedParts
<1> QED BY <1>8 DEF Typed, TypeOK, TypedParts, StoreTyped, Filed, LinkTyped, HostsTyped, HistoryTyped

LEMMA TypedPairDone ==
    ASSUME Typed, PairDone
    PROVE  Typed'
<1> DEFINE p == conn.peer
           n == pairings + 1
<1>0. TypedParts
  BY TypedIs
<1>1. /\ pairings < MaxPairings /\ pairings' = n
      /\ key' = [key EXCEPT ![p] = n]
      /\ todo' = <<Write("our", <<p, n>>), Write("peer", <<p, n>>)>>
      /\ wish' = [wish EXCEPT ![p] = conn.flags]
      /\ unsaved' = [unsaved EXCEPT ![p] = conn.flags]
      /\ dropped' = dropped \ {p}
      /\ conn' = [conn EXCEPT !.pairing = FALSE, !.encrypted = TRUE, !.bonded = TRUE]
      /\ UNCHANGED <<store, replaced>>
  BY DEF PairDone
<1>2. p \in Peers /\ n \in Keys /\ n \in 0..MaxPairings
  BY <1>0, <1>1, PeerIs, PairingsAssumption DEF PairDone, TypedParts, HistoryTyped, Keys
<1>3. conn.flags \in SUBSET Chars
  BY <1>0 DEF TypedParts, LinkTyped
<1> HIDE DEF p, n
<1>4. StoreTyped'
  BY <1>0, <1>1, SameStore DEF TypedParts
<1>5. HostsTyped'
  BY <1>0, <1>1, <1>2, <1>3 DEF TypedParts, HostsTyped
<1>6. LinkTyped'
  <2>1. conn' \in Links /\ conn'.peer = conn.peer
    BY <1>0, <1>1 DEF TypedParts, LinkTyped, Links
  <2> QED BY <1>0, <2>1, LinkStays DEF PairDone, TypedParts
<1>7. HistoryTyped'
  BY <1>0, <1>1, <1>2 DEF TypedParts, HistoryTyped
<1>8. todo' \in Seq(Tasks)
  <2>1. <<p, n>> \in Records("our") /\ <<p, n>> \in Records("peer")
    BY <1>2 DEF Records
  <2>2. "our" \in Kinds /\ "peer" \in Kinds
    BY DEF Kinds
  <2>3. Write("our", <<p, n>>) \in Tasks /\ Write("peer", <<p, n>>) \in Tasks
    BY <2>1, <2>2, TasksHave
  <2>4. \A t, u \in Tasks : <<t, u>> \in Seq(Tasks)
    OBVIOUS
  <2> QED BY <1>1, <2>3, <2>4
<1>9. TypedParts'
  BY <1>4, <1>5, <1>6, <1>7, <1>8 DEF TypedParts
<1> QED BY <1>9 DEF Typed, TypeOK, TypedParts, StoreTyped, Filed, LinkTyped, HostsTyped, HistoryTyped

LEMMA TypedSubscribe ==
    ASSUME Typed, NEW c \in Chars, Subscribe(c) \/ Unsubscribe(c)
    PROVE  Typed'
<1>0. LinkTyped /\ HostsTyped /\ todo \in Seq(Tasks)
  BY TypedIs DEF TypedParts
<1>1. conn.peer \in Peers /\ <<conn.peer, c>> \in Records("cccd") /\ "cccd" \in Kinds
  BY PeerIs DEF Subscribe, Unsubscribe, Records, Kinds
<1>2. Write("cccd", <<conn.peer, c>>) \in Tasks /\ DeleteCccd(conn.peer, c) \in Tasks
  BY <1>1, TasksHave
<1>3. UNCHANGED <<store, history>>
  BY DEF Subscribe, Unsubscribe
<1>4. todo' \in Seq(Tasks)
  <2>1. \/ todo' = todo \/ todo' = <<Write("cccd", <<conn.peer, c>>)>>
        \/ todo' = <<DeleteCccd(conn.peer, c)>>
    BY DEF Subscribe, Unsubscribe
  <2>2. \A t \in Tasks : <<t>> \in Seq(Tasks)
    OBVIOUS
  <2> QED BY <1>0, <1>2, <2>1, <2>2
<1>5. LinkTyped'
  <2>1. CASE Subscribe(c)
    <3>1. conn' \in Links /\ conn'.peer = conn.peer
      BY <1>0, <2>1 DEF Subscribe, LinkTyped, Links
    <3> QED BY <1>0, <2>1, <3>1, LinkStays DEF Subscribe
  <2>2. CASE Unsubscribe(c)
    <3>1. conn' \in Links /\ conn'.peer = conn.peer
      BY <1>0, <2>2 DEF Unsubscribe, LinkTyped, Links
    <3> QED BY <1>0, <2>2, <3>1, LinkStays DEF Unsubscribe
  <2> QED BY <2>1, <2>2
<1>6. HostsTyped'
  <2>1. CASE Subscribe(c)
    <3>1. key' = key
      BY <2>1 DEF Subscribe
    <3>2. /\ wish' = wish \/ wish' = [wish EXCEPT ![conn.peer] = @ \cup {c}]
          /\ \/ unsaved' = unsaved
             \/ unsaved' = [unsaved EXCEPT ![conn.peer] = @ \cup {c}]
             \/ unsaved' = [unsaved EXCEPT ![conn.peer] = @]
      BY <2>1 DEF Subscribe
    <3>3. wish' \in [Peers -> SUBSET Chars]
      BY <1>0, <3>2 DEF HostsTyped
    <3>4. unsaved' \in [Peers -> SUBSET Chars]
      BY <1>0, <3>2 DEF HostsTyped
    <3> QED BY <1>0, <3>1, <3>3, <3>4 DEF HostsTyped
  <2>2. CASE Unsubscribe(c)
    <3>1. /\ wish' = [wish EXCEPT ![conn.peer] = @ \ {c}]
          /\ unsaved' = [unsaved EXCEPT ![conn.peer] = @ \ {c}]
          /\ key' = key
      BY <2>2 DEF Unsubscribe
    <3> QED BY <1>0, <1>1, <3>1 DEF HostsTyped
  <2> QED BY <2>1, <2>2
<1> QED BY <1>3, <1>4, <1>5, <1>6, TypedEvent

LEMMA TypedStep == Typed /\ [Next]_vars => Typed'
<1> SUFFICES ASSUME Typed, [Next]_vars PROVE Typed'
  OBVIOUS
<1>1. CASE StoreStep
  BY <1>1, TypedWrite, TypedOverflow, TypedDelete DEF StoreStep
<1>2. CASE Disconnect \/ Encrypt \/ PairFails
  BY <1>2, TypedLink
<1>3. CASE PairRequest
  BY <1>3, TypedPairRequest
<1>4. CASE PairDone
  BY <1>4, TypedPairDone
<1>5. CASE \E p \in Peers : Connect(p) \/ Forget(p)
  BY <1>5, TypedConnect, TypedForget
<1>6. CASE \E c \in Chars : Subscribe(c) \/ Unsubscribe(c)
  BY <1>6, TypedSubscribe
<1>7. CASE PowerCut
  BY <1>7, TypedPowerCut
<1>8. CASE UNCHANGED vars
  <2>1. LinkTyped /\ HostsTyped /\ todo \in Seq(Tasks)
    BY TypedIs DEF TypedParts
  <2>2. UNCHANGED <<store, history, conn, todo, key, wish, unsaved>>
    BY <1>8 DEF vars, hosts
  <2> QED BY <2>1, <2>2, TypedEvent DEF LinkTyped, HostsTyped
<1> QED BY <1>1, <1>2, <1>3, <1>4, <1>5, <1>6, <1>7, <1>8 DEF Next

\* Whatever is written, deleted and interrupted, every variable keeps its type:
\* no list and no array outgrows the room BLE_STORE_MAX_... gives it.
THEOREM TypeCorrect == Spec => []TypeOK
<1>1. Typed => TypeOK
  BY DEF Typed
<1> QED BY <1>1, TypedInitial, TypedStep, PTL DEF Spec

-----------------------------------------------------------------------------
(* The NVS holds what is in RAM.                                            *)

\* A host has one key of each kind.
OneEach(k) == k # "cccd" => \A r, s \in Range(ram[k]) : r[1] = s[1] => r = s

Mirrored == ~replaced => \A k \in Kinds : OneEach(k) /\ Mirrors(nvs[k], ram[k])

\* A record that takes the place of another one is the same ...
LEMMA PlacedSame ==
    ASSUME StoreTyped, NEW k \in Kinds, NEW r \in Records(k), OneEach(k),
           PlaceOf(k, r) # {}, r \in Range(ram[k])
    PROVE  Placed(k, r) = ram[k]
<1> DEFINE i == Min(PlaceOf(k, r))
<1>1. i \in PlaceOf(k, r) /\ i \in DOMAIN ram[k]
  BY PlacesAre DEF PlaceOf
<1>2. ram[k][i][1] = r[1]
  <2>1. CASE k = "cccd"
    BY <1>1, <2>1 DEF PlaceOf, Matches
  <2>2. CASE k # "cccd"
    BY <1>1, <2>2 DEF PlaceOf, Matches
  <2> QED BY <2>1, <2>2
<1>3. ram[k][i] = r
  <2>1. CASE k = "cccd"
    <3>1. Len(r) = 2
      BY KindIs
    <3> QED BY <1>1, <2>1, <3>1 DEF PlaceOf, Matches
  <2>2. CASE k # "cccd"
    <3>1. ram[k][i] \in Range(ram[k])
      BY <1>1 DEF Range
    <3> QED BY <1>2, <2>2, <3>1 DEF OneEach
  <2> QED BY <2>1, <2>2
<1>4. Placed(k, r) = [ram[k] EXCEPT ![i] = r]
  BY DEF Placed
<1>5. ram[k] \in Seq(Records(k))
  BY DEF StoreTyped, Filed
<1> HIDE DEF i
<1> QED BY <1>1, <1>3, <1>4, <1>5

\* ... and one that takes none is new, and its host too.
LEMMA PlacedNew ==
    ASSUME StoreTyped, NEW k \in Kinds, NEW r \in Records(k), PlaceOf(k, r) = {}
    PROVE  /\ r \notin Range(ram[k])
           /\ k # "cccd" => \A s \in Range(ram[k]) : s[1] # r[1]
<1>1. CASE k = "cccd"
  <2>1. \A i \in DOMAIN ram[k] : ram[k][i] # r
    BY <1>1 DEF PlaceOf, Matches
  <2> QED BY <1>1, <2>1 DEF Range
<1>2. CASE k # "cccd"
  <2>1. \A i \in DOMAIN ram[k] : ram[k][i][1] # r[1]
    <3>1. Len(<<r[1]>>) # 2 /\ <<r[1]>>[1] = r[1]
      OBVIOUS
    <3>2. PlaceOf(k, r) = Matches(k, <<r[1]>>)
      BY <1>2 DEF PlaceOf
    <3> QED BY <3>1, <3>2 DEF Matches
  <2> QED BY <1>2, <2>1 DEF Range
<1> QED BY <1>1, <1>2

LEMMA MirroredElsewhere ==
    ASSUME Mirrored, StoreTyped, ~replaced, NEW k \in Kinds, NEW rs, Store(k, rs),
           k # "cccd" => \A r, s \in Range(rs) : r[1] = s[1] => r = s,
           Mirrors(Persisted(nvs[k], rs), rs)
    PROVE  Mirrored'
<1>1. ram'[k] = rs /\ nvs'[k] = Persisted(nvs[k], rs)
  BY StoreIs
<1>2. ASSUME NEW j \in Kinds
      PROVE  /\ j # "cccd" => \A r, s \in Range(ram'[j]) : r[1] = s[1] => r = s
             /\ Mirrors(nvs'[j], ram'[j])
  <2>1. CASE j = k
    BY <1>1, <2>1
  <2>2. CASE j # k
    <3>1. ram'[j] = ram[j] /\ nvs'[j] = nvs[j]
      BY <2>2, StoreIs
    <3> QED BY <3>1 DEF Mirrored, OneEach
  <2> QED BY <2>1, <2>2
<1> QED BY <1>2 DEF Mirrored, OneEach

LEMMA MirroredWrite == Typed /\ Mirrored /\ WriteFits => Mirrored'
<1> SUFFICES ASSUME Typed, Mirrored, WriteFits, ~replaced' PROVE Mirrored'
  BY DEF Mirrored
<1>1. PICK k \in Kinds : \E r \in Records(k) :
               /\ PlaceOf(k, r) # {} \/ Len(ram[k]) < Capacity(k)
               /\ Store(k, Placed(k, r))
               /\ replaced' = (replaced \/ (PlaceOf(k, r) # {} /\ r \notin Range(ram[k])))
  BY WriteIs
<1>2. PICK r \in Records(k) :
               /\ PlaceOf(k, r) # {} \/ Len(ram[k]) < Capacity(k)
               /\ Store(k, Placed(k, r))
               /\ replaced' = (replaced \/ (PlaceOf(k, r) # {} /\ r \notin Range(ram[k])))
  BY <1>1
<1>3. ~replaced /\ (PlaceOf(k, r) = {} \/ r \in Range(ram[k]))
  BY <1>2
<1>4. StoreTyped /\ OneEach(k) /\ Mirrors(nvs[k], ram[k])
  BY <1>3, TypedStore DEF Mirrored
<1>5. /\ ram[k] \in Seq(Records(k)) /\ Capacity(k) \in Nat /\ Empty \notin Records(k)
      /\ nvs[k] \in [1..Capacity(k) -> Records(k) \cup {Empty}]
  BY <1>4, KindIs DEF StoreTyped, Filed
<1>6. CASE PlaceOf(k, r) # {}
  <2>1. Placed(k, r) = ram[k]
    BY <1>3, <1>4, <1>6, PlacedSame
  <2>2. Persisted(nvs[k], ram[k]) = nvs[k]
    BY <1>4, <1>5, PersistedSame
  <2>3. Mirrors(Persisted(nvs[k], Placed(k, r)), Placed(k, r))
    BY <1>4, <2>1, <2>2
  <2>4. k # "cccd" => \A s, t \in Range(Placed(k, r)) : s[1] = t[1] => s = t
    BY <1>4, <2>1 DEF OneEach
  <2> QED BY <1>2, <1>3, <1>4, <2>3, <2>4, MirroredElsewhere
<1>7. CASE PlaceOf(k, r) = {}
  <2>1. Placed(k, r) = Append(ram[k], r)
    BY <1>7 DEF Placed
  <2>2. r \notin Range(ram[k]) /\ (k # "cccd" => \A s \in Range(ram[k]) : s[1] # r[1])
    BY <1>4, <1>7, PlacedNew
  <2>3. Len(ram[k]) < Capacity(k)
    BY <1>2, <1>7
  <2>4. Mirrors(Persisted(nvs[k], Append(ram[k], r)), Append(ram[k], r))
    BY <1>4, <1>5, <2>2, <2>3, PersistedAppends
  <2>5. Range(Append(ram[k], r)) = Range(ram[k]) \cup {r}
    BY <1>4, <1>5, <2>2, AppendDistinct DEF Mirrors
  <2>6. k # "cccd" => \A s, t \in Range(Append(ram[k], r)) : s[1] = t[1] => s = t
    BY <1>4, <2>2, <2>5 DEF OneEach
  <2> QED BY <1>2, <1>3, <1>4, <2>1, <2>4, <2>6, MirroredElsewhere
<1> QED BY <1>6, <1>7

LEMMA MirroredDelete == Typed /\ Mirrored /\ Delete => Mirrored'
<1> SUFFICES ASSUME Typed, Mirrored, Delete, ~replaced' PROVE Mirrored'
  BY DEF Mirrored
<1>1. ~replaced
  BY DEF Delete, history
<1>2. \/ UNCHANGED store
      \/ \E k \in Kinds : \E i \in DOMAIN ram[k] : Store(k, RemoveAt(ram[k], i))
  BY DeleteIs
<1>3. CASE UNCHANGED store
  BY <1>1, <1>3 DEF Mirrored, OneEach, store
<1>4. ASSUME NEW k \in Kinds, NEW i \in DOMAIN ram[k], Store(k, RemoveAt(ram[k], i))
      PROVE  Mirrored'
  <2>1. StoreTyped /\ OneEach(k) /\ Mirrors(nvs[k], ram[k])
    BY <1>1, TypedStore DEF Mirrored
  <2>2. /\ ram[k] \in Seq(Records(k)) /\ Capacity(k) \in Nat /\ Empty \notin Records(k)
        /\ nvs[k] \in [1..Capacity(k) -> Records(k) \cup {Empty}]
    BY <2>1, KindIs DEF StoreTyped, Filed
  <2>3. Mirrors(Persisted(nvs[k], RemoveAt(ram[k], i)), RemoveAt(ram[k], i))
    BY <2>1, <2>2, PersistedRemoves
  <2>4. Range(RemoveAt(ram[k], i)) \subseteq Range(ram[k])
    BY <2>1, <2>2, RemoveAtDistinct DEF Mirrors
  <2>5. k # "cccd" => \A s, t \in Range(RemoveAt(ram[k], i)) : s[1] = t[1] => s = t
    BY <2>1, <2>4 DEF OneEach
  <2> QED BY <1>1, <1>4, <2>1, <2>3, <2>5, MirroredElsewhere
<1> QED BY <1>2, <1>3, <1>4

\* What is read back is what was in RAM, in whatever order.
LEMMA RestoredSame ==
    ASSUME Typed, Mirrored, PowerCut, ~replaced, NEW k \in Kinds
    PROVE  Range(ram'[k]) = Range(ram[k]) /\ Mirrors(nvs'[k], ram'[k])
<1>1. StoreTyped /\ Mirrors(nvs[k], ram[k])
  BY TypedStore DEF Mirrored
<1>2. Capacity(k) \in Nat /\ nvs[k] \in [1..Capacity(k) -> Records(k) \cup {Empty}]
  BY <1>1, KindIs DEF StoreTyped, Filed
<1>3. /\ Len(Restored(nvs[k])) = Cardinality(Used(nvs[k]))
      /\ Range(Restored(nvs[k])) = InSlots(nvs[k])
      /\ IsInjective(Restored(nvs[k]))
  BY <1>1, <1>2, RestoredIs DEF Mirrors
<1>4. ram'[k] = Restored(nvs[k]) /\ nvs'[k] = nvs[k]
  BY DEF PowerCut
<1> QED BY <1>1, <1>3, <1>4 DEF Mirrors

LEMMA MirroredPowerCut == Typed /\ Mirrored /\ PowerCut => Mirrored'
<1> SUFFICES ASSUME Typed, Mirrored, PowerCut, ~replaced' PROVE Mirrored'
  BY DEF Mirrored
<1>1. ~replaced
  BY DEF PowerCut
<1>2. ASSUME NEW k \in Kinds
      PROVE  /\ k # "cccd" => \A r, s \in Range(ram'[k]) : r[1] = s[1] => r = s
             /\ Mirrors(nvs'[k], ram'[k])
  <2>1. Range(ram'[k]) = Range(ram[k]) /\ Mirrors(nvs'[k], ram'[k])
    BY <1>1, RestoredSame
  <2> QED BY <1>1, <2>1 DEF Mirrored, OneEach
<1> QED BY <1>2 DEF Mirrored, OneEach

\* Every other step leaves the store alone.
LEMMA StoreStays ==
    ASSUME [Next]_vars, ~WriteFits, ~Delete, ~PowerCut
    PROVE  UNCHANGED <<store, replaced>>
BY DEF Next, StoreStep, WriteOverflows, Disconnect, Encrypt, PairRequest, PairFails, PairDone,
       Connect, Forget, Subscribe, Unsubscribe, vars, history

LEMMA MirroredStep == Typed /\ Mirrored /\ [Next]_vars => Mirrored'
<1> SUFFICES ASSUME Typed, Mirrored, [Next]_vars PROVE Mirrored'
  OBVIOUS
<1>1. CASE UNCHANGED <<store, replaced>>
  BY <1>1 DEF Mirrored, OneEach, store
<1> QED BY <1>1, MirroredWrite, MirroredDelete, MirroredPowerCut, StoreStays

LEMMA MirroredInitial == Init => Mirrored
<1> SUFFICES ASSUME Init, NEW k \in Kinds PROVE OneEach(k) /\ Mirrors(nvs[k], ram[k])
  BY DEF Mirrored
<1>1. ram[k] = <<>> /\ nvs[k] = [i \in 1..Capacity(k) |-> Empty]
  BY DEF Init
<1>2. Range(ram[k]) = {} /\ Len(ram[k]) = 0 /\ IsInjective(ram[k])
  BY <1>1 DEF Range, IsInjective
<1>3. Used(nvs[k]) = {}
  BY <1>1 DEF Used
<1>4. Cardinality(Used(nvs[k])) = 0
  BY <1>3, FS_EmptySet
<1> QED BY <1>2, <1>3, <1>4 DEF OneEach, Mirrors, Distinct, InSlots

LEMMA MirroredHolds == Spec => [](Typed /\ Mirrored)
<1>1. Typed /\ Mirrored /\ [Next]_vars => (Typed /\ Mirrored)'
  BY TypedStep, MirroredStep
<1> QED BY <1>1, TypedInitial, MirroredInitial, PTL DEF Spec

\* persist_...() keeps the NVS equal to the RAM although it only compares the
\* numbers of their records, for any number of hosts and records, whenever the
\* power goes.
THEOREM NvsHolds == Spec => []NvsMatches
<1>1. Mirrored => NvsMatches
  BY DEF Mirrored, Mirrors, NvsMatches, InNvs, InSlots
<1> QED BY <1>1, MirroredHolds, PTL

-----------------------------------------------------------------------------
(* What is left to do.                                                      *)

Waits(t) == \E i \in DOMAIN todo : todo[i] = t

LEMMA TasksDiffer ==
    /\ \A k, r, j, s : Write(k, r) = Write(j, s) => k = j /\ r = s
    /\ \A k, p, j, q : DeleteAll(k, p) = DeleteAll(j, q) => k = j /\ p = q
    /\ \A p, c, q, d : DeleteCccd(p, c) = DeleteCccd(q, d) => p = q /\ c = d
    /\ \A k, r, j, q : Write(k, r) # DeleteAll(j, q)
    /\ \A k, r, q, d : Write(k, r) # DeleteCccd(q, d)
    /\ \A k, p, q, d : DeleteAll(k, p) # DeleteCccd(q, d)
<1>1. \A k, r : Write(k, r).op = "write" /\ Write(k, r).kind = k /\ Write(k, r).rec = r
  BY DEF Write
<1>2. \A k, p : DeleteAll(k, p).op = "delete" /\ DeleteAll(k, p).kind = k /\ DeleteAll(k, p).rec = <<p>>
  BY DEF DeleteAll
<1>3. \A p, c : DeleteCccd(p, c).op = "delete" /\ DeleteCccd(p, c).rec = <<p, c>>
  BY DEF DeleteCccd
<1>4. \A p, q, d : <<p>> # <<q, d>> /\ (<<p>> = <<q>> => p = q)
  OBVIOUS
<1>5. \A p, c, q, d : <<p, c>> = <<q, d>> => p = q /\ c = d
  OBVIOUS
<1>6. "write" # "delete"
  OBVIOUS
<1>7. \A k, r, j, s : Write(k, r) = Write(j, s) => k = j /\ r = s
  BY <1>1
<1>8. \A k, p, j, q : DeleteAll(k, p) = DeleteAll(j, q) => k = j /\ p = q
  BY <1>2, <1>4
<1>9. \A p, c, q, d : DeleteCccd(p, c) = DeleteCccd(q, d) => p = q /\ c = d
  BY <1>3, <1>5
<1>10. \A k, r, j, q : Write(k, r) # DeleteAll(j, q)
  BY <1>1, <1>2, <1>6
<1>11. \A k, r, q, d : Write(k, r) # DeleteCccd(q, d)
  BY <1>1, <1>3, <1>6
<1>12. \A k, p, q, d : DeleteAll(k, p) # DeleteCccd(q, d)
  BY <1>2, <1>3, <1>4
<1> QED BY <1>7, <1>8, <1>9, <1>10, <1>11, <1>12

\* What the store does not find to do waits for nothing.
LEMMA NothingWaits == todo = <<>> => \A t : ~Waits(t)
BY DEF Waits

LEMMA TailWaits ==
    ASSUME todo \in Seq(Tasks), todo # <<>>, todo' = Tail(todo), NEW t
    PROVE  (Waits(t)' => Waits(t)) /\ (Waits(t) => Waits(t)' \/ t = todo[1])
<1>1. \A i \in DOMAIN todo' : i + 1 \in DOMAIN todo /\ todo'[i] = todo[i + 1]
  BY HeadIs
<1>2. Waits(t)' => Waits(t)
  BY <1>1 DEF Waits
<1>3. ASSUME NEW i \in DOMAIN todo, i # 1
      PROVE  i - 1 \in DOMAIN todo' /\ todo'[i - 1] = todo[i]
  <2>1. i - 1 \in DOMAIN todo'
    BY <1>3, HeadIs
  <2>2. i \in Int /\ (i - 1) + 1 = i
    OBVIOUS
  <2> QED BY <1>1, <2>1, <2>2
<1>4. Waits(t) => Waits(t)' \/ t = todo[1]
  BY <1>3 DEF Waits
<1> QED BY <1>2, <1>4

LEMMA UnpairingIs ==
    ASSUME todo \in Seq(Tasks), NEW v \in Peers, todo' = DeletePeer(v) \o todo
    PROVE  /\ todo'[1] = DeleteAll("our", v) /\ todo'[2] = DeleteAll("peer", v)
           /\ todo'[3] = DeleteAll("cccd", v)
           /\ \A i \in DOMAIN todo : i + 3 \in DOMAIN todo' /\ todo'[i + 3] = todo[i]
           /\ \A i \in DOMAIN todo' : \/ i \in {1, 2, 3}
                                      \/ \E j \in DOMAIN todo : i = j + 3
<1> DEFINE d == DeletePeer(v)
<1>1. /\ d \in Seq(Tasks) /\ Len(d) = 3
      /\ d[1] = DeleteAll("our", v) /\ d[2] = DeleteAll("peer", v) /\ d[3] = DeleteAll("cccd", v)
  BY DeletePeerIs
<1> HIDE DEF d
<1>2. PICK n \in Nat : Len(todo) = n /\ DOMAIN todo = 1..n
  OBVIOUS
<1>3. /\ todo' \in Seq(Tasks) /\ Len(todo') = 3 + n
      /\ \A i \in 1..(3 + n) : todo'[i] = IF i <= 3 THEN d[i] ELSE todo[i - 3]
  <2>1. todo' = d \o todo
    BY DEF d
  <2>2. /\ d \o todo \in Seq(Tasks) /\ Len(d \o todo) = Len(d) + Len(todo)
        /\ \A i \in 1..(Len(d) + Len(todo)) :
              (d \o todo)[i] = IF i <= Len(d) THEN d[i] ELSE todo[i - Len(d)]
    BY <1>1, ConcatProperties
  <2>3. PICK l \in Seq(Tasks) : l = d \o todo
    BY <2>2
  <2>4. Len(l) = 3 + n /\ \A i \in 1..(3 + n) : l[i] = IF i <= 3 THEN d[i] ELSE todo[i - 3]
    BY <1>1, <1>2, <2>2, <2>3
  <2> QED BY <2>1, <2>3, <2>4
<1>4. DOMAIN todo' = 1..(3 + n)
  <2>1. DOMAIN todo' = 1..Len(todo')
    BY <1>3
  <2> QED BY <1>3, <2>1
<1>5. todo'[1] = d[1] /\ todo'[2] = d[2] /\ todo'[3] = d[3]
  BY <1>3
<1>6. ASSUME NEW i \in 1..n PROVE i + 3 \in 1..(3 + n) /\ todo'[i + 3] = todo[i]
  <2>1. i + 3 \in 1..(3 + n) /\ ~(i + 3 <= 3) /\ (i + 3) - 3 = i
    OBVIOUS
  <2> QED BY <1>3, <2>1
<1>7. \A i \in 1..(3 + n) : i \in {1, 2, 3} \/ \E j \in 1..n : i = j + 3
  <2> SUFFICES ASSUME NEW i \in 1..(3 + n), i \notin {1, 2, 3} PROVE \E j \in 1..n : i = j + 3
    OBVIOUS
  <2>1. i - 3 \in 1..n /\ i = (i - 3) + 3
    OBVIOUS
  <2> QED BY <2>1
<1> QED BY <1>1, <1>2, <1>4, <1>5, <1>6, <1>7

LEMMA UnpairingWaits ==
    ASSUME todo \in Seq(Tasks), NEW v \in Peers, todo' = DeletePeer(v) \o todo, NEW t
    PROVE  /\ Waits(t) => Waits(t)'
           /\ Waits(t)' => Waits(t) \/ \E k \in Kinds : t = DeleteAll(k, v)
<1>1. Waits(t) => Waits(t)'
  BY UnpairingIs DEF Waits
<1>2. ASSUME NEW i \in DOMAIN todo'
      PROVE  \/ \E j \in DOMAIN todo : todo'[i] = todo[j]
             \/ \E k \in Kinds : todo'[i] = DeleteAll(k, v)
  <2>1. CASE i \in {1, 2, 3}
    BY <2>1, UnpairingIs DEF Kinds
  <2>2. CASE \E j \in DOMAIN todo : i = j + 3
    BY <2>2, UnpairingIs
  <2> QED BY <2>1, <2>2, UnpairingIs
<1> QED BY <1>1, <1>2 DEF Waits

\* The lists that events leave.
LEMMA EventWaits ==
    /\ \A t, u : todo' = <<u>> => (Waits(t)' <=> t = u)
    /\ \A t, u, v : todo' = <<u, v>> => (Waits(t)' <=> t = u \/ t = v)
    /\ \A p \in Peers : todo' = DeletePeer(p) =>
          \A t : Waits(t)' => \E k \in Kinds : t = DeleteAll(k, p)
<1>1. \A t, u : todo' = <<u>> => (Waits(t)' <=> t = u)
  BY DEF Waits
<1>2. \A t, u, v : todo' = <<u, v>> => (Waits(t)' <=> t = u \/ t = v)
  BY DEF Waits
<1>3. ASSUME NEW p \in Peers, todo' = DeletePeer(p), NEW t, Waits(t)'
      PROVE  \E k \in Kinds : t = DeleteAll(k, p)
  <2>1. DOMAIN todo' = {1, 2, 3}
    BY <1>3, DeletePeerIs
  <2> QED BY <1>3, <2>1, DeletePeerIs DEF Waits, Kinds
<1> QED BY <1>1, <1>2, <1>3

\* What a write and a removal make of the records in RAM.
LEMMA WrittenIs ==
    ASSUME Typed, Mirrored, ~replaced', WriteFits
    PROVE  \E k \in Kinds : \E r \in Records(k) :
               /\ todo[1] = Write(k, r) /\ todo # <<>> /\ todo' = Tail(todo)
               /\ Range(ram'[k]) = Range(ram[k]) \cup {r}
               /\ \A j \in Kinds \ {k} : ram'[j] = ram[j]
               /\ IF k = "cccd" THEN Confirm(r[1], r[2]) ELSE UNCHANGED hosts
               /\ ~replaced /\ UNCHANGED <<conn, dropped, pairings>>
<1>1. PICK k \in Kinds : \E r \in Records(k) :
               /\ todo[1] = Write(k, r) /\ todo # <<>>
               /\ PlaceOf(k, r) # {} \/ Len(ram[k]) < Capacity(k)
               /\ Store(k, Placed(k, r))
               /\ replaced' = (replaced \/ (PlaceOf(k, r) # {} /\ r \notin Range(ram[k])))
               /\ IF k = "cccd" THEN Confirm(r[1], r[2]) ELSE UNCHANGED hosts
               /\ todo' = Tail(todo)
               /\ UNCHANGED <<conn, dropped, pairings>>
  BY WriteIs
<1>2. PICK r \in Records(k) :
               /\ todo[1] = Write(k, r) /\ todo # <<>>
               /\ PlaceOf(k, r) # {} \/ Len(ram[k]) < Capacity(k)
               /\ Store(k, Placed(k, r))
               /\ replaced' = (replaced \/ (PlaceOf(k, r) # {} /\ r \notin Range(ram[k])))
               /\ IF k = "cccd" THEN Confirm(r[1], r[2]) ELSE UNCHANGED hosts
               /\ todo' = Tail(todo)
               /\ UNCHANGED <<conn, dropped, pairings>>
  BY <1>1
<1>3. ~replaced /\ (PlaceOf(k, r) = {} \/ r \in Range(ram[k]))
  BY <1>2
<1>4. StoreTyped /\ OneEach(k) /\ Mirrors(nvs[k], ram[k]) /\ ram[k] \in Seq(Records(k))
  BY <1>3, TypedStore DEF Mirrored, StoreTyped, Filed
<1>5. ram'[k] = Placed(k, r) /\ \A j \in Kinds \ {k} : ram'[j] = ram[j]
  BY <1>2, <1>4, StoreIs
<1>6. Range(Placed(k, r)) = Range(ram[k]) \cup {r}
  <2>1. CASE PlaceOf(k, r) # {}
    <3>1. Placed(k, r) = ram[k]
      BY <1>3, <1>4, <2>1, PlacedSame
    <3> QED BY <1>3, <2>1, <3>1
  <2>2. CASE PlaceOf(k, r) = {}
    <3>1. Placed(k, r) = Append(ram[k], r)
      BY <2>2 DEF Placed
    <3>2. r \notin Range(ram[k])
      BY <1>4, <2>2, PlacedNew
    <3> QED BY <1>4, <3>1, <3>2, AppendDistinct DEF Mirrors
  <2> QED BY <2>1, <2>2
<1> QED BY <1>2, <1>3, <1>5, <1>6

LEMMA RemovedIs ==
    ASSUME Typed, Mirrored, ~replaced, NEW k \in Kinds, NEW i \in DOMAIN ram[k],
           Store(k, RemoveAt(ram[k], i))
    PROVE  /\ Range(ram'[k]) = Range(ram[k]) \ {ram[k][i]}
           /\ \A j \in Kinds \ {k} : ram'[j] = ram[j]
<1>1. StoreTyped /\ Mirrors(nvs[k], ram[k]) /\ ram[k] \in Seq(Records(k))
  BY TypedStore DEF Mirrored, StoreTyped, Filed
<1>2. Range(RemoveAt(ram[k], i)) = Range(ram[k]) \ {ram[k][i]}
  BY <1>1, RemoveAtDistinct DEF Mirrors
<1> QED BY <1>1, <1>2, StoreIs

-----------------------------------------------------------------------------
(* Bonds.                                                                   *)

\* Who loses a bond was dropped ...
Unpairs == \A p \in Peers, k \in Kinds : Waits(DeleteAll(k, p)) => p \in dropped

\* ... and of everyone else both records are in RAM or on their way to it.
Bonded(k, p) == <<p, key[p]>> \in Range(ram[k]) \/ Waits(Write(k, <<p, key[p]>>))
Keeps == \A p \in Peers \ dropped : key[p] # NoKey => Bonded("our", p) /\ Bonded("peer", p)

Bonds == ~replaced => Unpairs /\ Keeps

LEMMA SecsAre == "our" \in Kinds /\ "peer" \in Kinds /\ "cccd" \in Kinds /\ "our" # "cccd" /\ "peer" # "cccd"
BY DEF Kinds

LEMMA BondsWrite == Typed /\ Mirrored /\ Bonds /\ WriteFits => Bonds'
<1> SUFFICES ASSUME Typed, Mirrored, Bonds, WriteFits, ~replaced' PROVE Unpairs' /\ Keeps'
  BY DEF Bonds
<1>1. PICK k \in Kinds : \E r \in Records(k) :
               /\ todo[1] = Write(k, r) /\ todo # <<>> /\ todo' = Tail(todo)
               /\ Range(ram'[k]) = Range(ram[k]) \cup {r}
               /\ \A j \in Kinds \ {k} : ram'[j] = ram[j]
               /\ IF k = "cccd" THEN Confirm(r[1], r[2]) ELSE UNCHANGED hosts
               /\ ~replaced /\ UNCHANGED <<conn, dropped, pairings>>
  BY WrittenIs
<1>2. PICK r \in Records(k) :
               /\ todo[1] = Write(k, r) /\ todo # <<>> /\ todo' = Tail(todo)
               /\ Range(ram'[k]) = Range(ram[k]) \cup {r}
               /\ \A j \in Kinds \ {k} : ram'[j] = ram[j]
               /\ IF k = "cccd" THEN Confirm(r[1], r[2]) ELSE UNCHANGED hosts
               /\ ~replaced /\ UNCHANGED <<conn, dropped, pairings>>
  BY <1>1
<1>3. key' = key /\ dropped' = dropped
  BY <1>2 DEF Confirm, hosts
<1>4. Unpairs /\ Keeps /\ todo \in Seq(Tasks)
  BY <1>2 DEF Bonds, Typed, TypeOK
<1>5. Unpairs'
  BY <1>2, <1>3, <1>4, TailWaits DEF Unpairs
<1>6. ASSUME NEW j \in Kinds, NEW s, s \in Range(ram[j]) \/ Waits(Write(j, s))
      PROVE  s \in Range(ram'[j]) \/ Waits(Write(j, s))'
  <2>1. CASE s \in Range(ram[j])
    BY <1>2, <2>1
  <2>2. CASE Waits(Write(j, s)) /\ Write(j, s) = todo[1]
    <3>1. j = k /\ s = r
      BY <1>2, <2>2, TasksDiffer
    <3> QED BY <1>2, <3>1
  <2>3. CASE Waits(Write(j, s)) /\ Write(j, s) # todo[1]
    BY <1>2, <1>4, <2>3, TailWaits
  <2> QED BY <1>6, <2>1, <2>2, <2>3
<1>7. Keeps'
  <2> SUFFICES ASSUME NEW p \in Peers \ dropped, key[p] # NoKey
               PROVE  Bonded("our", p)' /\ Bonded("peer", p)'
    BY <1>3 DEF Keeps
  <2>1. Bonded("our", p) /\ Bonded("peer", p)
    BY <1>4 DEF Keeps
  <2> QED BY <1>3, <1>6, <2>1, SecsAre DEF Bonded
<1> QED BY <1>5, <1>7

LEMMA BondsOverflow == Typed /\ Bonds /\ WriteOverflows => Bonds'
<1> SUFFICES ASSUME Typed, Bonds, WriteOverflows, ~replaced' PROVE Unpairs' /\ Keeps'
  BY DEF Bonds
<1>1. PICK k \in Kinds : \E r \in Records(k) :
               /\ todo[1] = Write(k, r) /\ todo # <<>>
               /\ \/ \E v \in Peers : todo' = DeletePeer(v) \o todo /\ dropped' = dropped \cup {v}
                  \/ /\ todo' = Tail(todo)
                     /\ dropped' = IF k = "cccd" THEN dropped ELSE dropped \cup {r[1]}
               /\ UNCHANGED <<store, hosts, replaced>>
  BY OverflowIs
<1>2. PICK r \in Records(k) :
               /\ todo[1] = Write(k, r) /\ todo # <<>>
               /\ \/ \E v \in Peers : todo' = DeletePeer(v) \o todo /\ dropped' = dropped \cup {v}
                  \/ /\ todo' = Tail(todo)
                     /\ dropped' = IF k = "cccd" THEN dropped ELSE dropped \cup {r[1]}
               /\ UNCHANGED <<store, hosts, replaced>>
  BY <1>1
<1>3. key' = key /\ ram' = ram
  BY <1>2 DEF hosts, store
<1>4. Unpairs /\ Keeps /\ todo \in Seq(Tasks)
  BY <1>2 DEF Bonds, Typed, TypeOK
<1>5. CASE \E v \in Peers : todo' = DeletePeer(v) \o todo /\ dropped' = dropped \cup {v}
  <2>1. PICK v \in Peers : todo' = DeletePeer(v) \o todo /\ dropped' = dropped \cup {v}
    BY <1>5
  <2>2. Unpairs'
    <3> SUFFICES ASSUME NEW p \in Peers, NEW j \in Kinds, Waits(DeleteAll(j, p))'
                 PROVE  p \in dropped'
      BY DEF Unpairs
    <3>1. Waits(DeleteAll(j, p)) \/ \E i \in Kinds : DeleteAll(j, p) = DeleteAll(i, v)
      BY <1>4, <2>1, UnpairingWaits
    <3>2. Waits(DeleteAll(j, p)) \/ p = v
      BY <3>1, TasksDiffer
    <3> QED BY <1>4, <2>1, <3>2 DEF Unpairs
  <2>3. Keeps'
    <3> SUFFICES ASSUME NEW p \in Peers \ dropped', key[p] # NoKey
                 PROVE  Bonded("our", p)' /\ Bonded("peer", p)'
      BY <1>3 DEF Keeps
    <3>1. Bonded("our", p) /\ Bonded("peer", p)
      BY <1>4, <2>1 DEF Keeps
    <3> QED BY <1>3, <1>4, <2>1, <3>1, UnpairingWaits DEF Bonded
  <2> QED BY <2>2, <2>3
<1>6. CASE /\ todo' = Tail(todo)
           /\ dropped' = IF k = "cccd" THEN dropped ELSE dropped \cup {r[1]}
  <2>1. Unpairs'
    BY <1>2, <1>4, <1>6, TailWaits DEF Unpairs
  <2>2. ASSUME NEW p \in Peers \ dropped', NEW j \in Kinds, j # "cccd", NEW n,
               Waits(Write(j, <<p, n>>))
        PROVE  Waits(Write(j, <<p, n>>))'
    <3>1. CASE Write(j, <<p, n>>) = todo[1]
      <4>1. j = k /\ <<p, n>> = r
        BY <1>2, <3>1, TasksDiffer
      <4>2. r[1] = p
        BY <4>1
      <4>3. dropped' = dropped \cup {r[1]}
        BY <1>6, <2>2, <4>1
      <4>4. p \notin dropped'
        BY <2>2
      <4> QED BY <4>2, <4>3, <4>4
    <3>2. CASE Write(j, <<p, n>>) # todo[1]
      BY <1>2, <1>4, <1>6, <2>2, <3>2, TailWaits
    <3> QED BY <3>1, <3>2
  <2>3. Keeps'
    <3> SUFFICES ASSUME NEW p \in Peers \ dropped', key[p] # NoKey
                 PROVE  Bonded("our", p)' /\ Bonded("peer", p)'
      BY <1>3 DEF Keeps
    <3>1. Bonded("our", p) /\ Bonded("peer", p)
      BY <1>4, <1>6 DEF Keeps
    <3> QED BY <1>3, <2>2, <3>1, SecsAre DEF Bonded
  <2> QED BY <2>1, <2>3
<1> QED BY <1>2, <1>5, <1>6

LEMMA BondsDelete == Typed /\ Mirrored /\ Bonds /\ Delete => Bonds'
<1> SUFFICES ASSUME Typed, Mirrored, Bonds, Delete, ~replaced' PROVE Unpairs' /\ Keeps'
  BY DEF Bonds
<1>1. PICK k \in Kinds, rec \in Recs :
               /\ todo[1] = [op |-> "delete", kind |-> k, rec |-> rec] /\ todo # <<>>
               /\ todo[1] \in Tasks
               /\ \/ Matches(k, rec) = {} /\ todo' = Tail(todo) /\ UNCHANGED store
                  \/ \E i \in Matches(k, rec) :
                        /\ i \in DOMAIN ram[k]
                        /\ Store(k, RemoveAt(ram[k], i))
                        /\ todo' = IF Len(rec) = 1 THEN todo ELSE Tail(todo)
               /\ UNCHANGED <<conn, hosts, history>>
  BY DeleteIs
<1>2. key' = key /\ dropped' = dropped /\ ~replaced
  BY <1>1 DEF hosts, history
<1>3. Unpairs /\ Keeps /\ todo \in Seq(Tasks)
  BY <1>2 DEF Bonds, Typed, TypeOK
<1>4. \A j, r : todo[1] # Write(j, r)
  BY <1>1 DEF Write
<1>5. todo' = todo \/ todo' = Tail(todo)
  BY <1>1
<1>6. \A t : (Waits(t)' => Waits(t)) /\ (Waits(t) => Waits(t)' \/ t = todo[1])
  <2>1. CASE todo' = todo
    BY <2>1 DEF Waits
  <2>2. CASE todo' = Tail(todo)
    BY <1>1, <1>3, <2>2, TailWaits
  <2> QED BY <1>5, <2>1, <2>2
<1>7. Unpairs'
  BY <1>2, <1>3, <1>6 DEF Unpairs
<1>8. ASSUME NEW j \in Kinds, j # "cccd", NEW p \in Peers \ dropped, <<p, key[p]>> \in Range(ram[j])
      PROVE  <<p, key[p]>> \in Range(ram'[j])
  <2>1. CASE UNCHANGED store
    BY <1>8, <2>1 DEF store
  <2>2. ASSUME NEW i \in Matches(k, rec), i \in DOMAIN ram[k], Store(k, RemoveAt(ram[k], i))
        PROVE  <<p, key[p]>> \in Range(ram'[j])
    <3>1. /\ Range(ram'[k]) = Range(ram[k]) \ {ram[k][i]}
          /\ \A l \in Kinds \ {k} : ram'[l] = ram[l]
      BY <1>2, <2>2, RemovedIs
    <3>2. ram[k][i][1] = rec[1]
      BY <2>2 DEF Matches
    <3>3. CASE j = k
      <4>1. PICK q \in Peers : rec = <<q>> /\ todo[1] = DeleteAll(k, q)
        <5>1. todo[1].op = "delete" /\ todo[1].kind = k /\ todo[1].rec = rec /\ k # "cccd"
          BY <1>1, <1>8, <3>3
        <5>2. \E q \in Peers : todo[1] = DeleteAll(k, q)
          BY <1>1, <5>1, TaskIs
        <5> QED BY <5>1, <5>2 DEF DeleteAll
      <4>2. q \in dropped
        <5>1. Waits(DeleteAll(k, q))
          BY <1>1, <1>3, <4>1, HeadIs DEF Waits
        <5> QED BY <1>3, <5>1 DEF Unpairs
      <4>3. ram[k][i] # <<p, key[p]>>
        BY <3>2, <4>1, <4>2
      <4> QED BY <1>8, <3>1, <3>3, <4>3
    <3>4. CASE j # k
      BY <1>8, <3>1, <3>4
    <3> QED BY <3>3, <3>4
  <2> QED BY <1>1, <2>1, <2>2
<1>9. Keeps'
  <2> SUFFICES ASSUME NEW p \in Peers \ dropped, key[p] # NoKey
               PROVE  Bonded("our", p)' /\ Bonded("peer", p)'
    BY <1>2 DEF Keeps
  <2>1. Bonded("our", p) /\ Bonded("peer", p)
    BY <1>3 DEF Keeps
  <2> QED BY <1>2, <1>4, <1>6, <1>8, <2>1, SecsAre DEF Bonded
<1> QED BY <1>7, <1>9

LEMMA BondsPowerCut == Typed /\ Mirrored /\ Bonds /\ PowerCut => Bonds'
<1> SUFFICES ASSUME Typed, Mirrored, Bonds, PowerCut, ~replaced' PROVE Unpairs' /\ Keeps'
  BY DEF Bonds
<1>1. ~replaced /\ key' = key /\ todo' = <<>>
  BY DEF PowerCut, hosts
<1>2. Unpairs'
  BY <1>1 DEF Unpairs, Waits
<1>3. \A k \in Kinds : Range(ram'[k]) = Range(ram[k])
  BY <1>1, RestoredSame
<1>4. ASSUME NEW p \in Peers, NEW k \in Kinds, k # "cccd", NEW n, Waits(Write(k, <<p, n>>))
      PROVE  p \in dropped'
  <2>1. Write(k, <<p, n>>) \in Range(todo)
    BY <1>4 DEF Waits, Range
  <2>2. /\ Write(k, <<p, n>>).op = "write" /\ Write(k, <<p, n>>).kind = k
        /\ Write(k, <<p, n>>).rec[1] = p
    BY DEF Write
  <2>3. dropped' = dropped \cup {t.rec[1] : t \in {u \in Range(todo) :
                                             u.op = "write" /\ u.kind # "cccd"}}
    BY DEF PowerCut
  <2> QED BY <1>4, <2>1, <2>2, <2>3
<1>5. dropped \subseteq dropped'
  BY DEF PowerCut
<1>6. Keeps'
  <2> SUFFICES ASSUME NEW p \in Peers \ dropped', key[p] # NoKey
               PROVE  Bonded("our", p)' /\ Bonded("peer", p)'
    BY <1>1 DEF Keeps
  <2>1. Bonded("our", p) /\ Bonded("peer", p)
    BY <1>1, <1>5 DEF Bonds, Keeps
  <2>2. <<p, key[p]>> \in Range(ram["our"]) /\ <<p, key[p]>> \in Range(ram["peer"])
    BY <1>4, <2>1, SecsAre DEF Bonded
  <2> QED BY <1>1, <1>3, <2>2, SecsAre DEF Bonded
<1> QED BY <1>2, <1>6

\* A pairing drops the bond there was, and stores the new one.
LEMMA BondsPairRequest == Typed /\ Bonds /\ PairRequest => Bonds'
<1> SUFFICES ASSUME Typed, Bonds, PairRequest, ~replaced' PROVE Unpairs' /\ Keeps'
  BY DEF Bonds
<1>1. /\ ~replaced /\ ram' = ram /\ key' = key /\ todo = <<>> /\ conn.peer \in Peers
      /\ \/ todo' = todo /\ dropped' = dropped
         \/ todo' = DeletePeer(conn.peer) /\ dropped' = dropped \cup {conn.peer}
  BY PeerIs DEF PairRequest, store, hosts, Linked, Ready
<1>2. Unpairs /\ Keeps
  BY <1>1 DEF Bonds
<1>3. \A t : ~Waits(t)
  BY <1>1, NothingWaits
<1>4. \A t : Waits(t)' => /\ \E k \in Kinds : t = DeleteAll(k, conn.peer)
                          /\ conn.peer \in dropped'
  <2>1. CASE todo' = todo
    BY <1>3, <2>1 DEF Waits
  <2>2. CASE todo' = DeletePeer(conn.peer) /\ dropped' = dropped \cup {conn.peer}
    BY <1>1, <2>2, EventWaits
  <2> QED BY <1>1, <2>1, <2>2
<1>5. Unpairs'
  BY <1>4, TasksDiffer DEF Unpairs
<1>6. Keeps'
  <2> SUFFICES ASSUME NEW p \in Peers \ dropped, key[p] # NoKey
               PROVE  Bonded("our", p)' /\ Bonded("peer", p)'
    BY <1>1 DEF Keeps
  <2>1. Bonded("our", p) /\ Bonded("peer", p)
    BY <1>2 DEF Keeps
  <2> QED BY <1>1, <1>3, <2>1 DEF Bonded
<1> QED BY <1>5, <1>6

LEMMA BondsPairDone == Typed /\ Bonds /\ PairDone => Bonds'
<1> SUFFICES ASSUME Typed, Bonds, PairDone, ~replaced' PROVE Unpairs' /\ Keeps'
  BY DEF Bonds
<1> DEFINE q == conn.peer
           n == pairings + 1
<1>1. /\ ~replaced /\ ram' = ram /\ todo = <<>> /\ q \in Peers
      /\ key' = [key EXCEPT ![q] = n] /\ dropped' = dropped \ {q}
      /\ todo' = <<Write("our", <<q, n>>), Write("peer", <<q, n>>)>>
  BY PeerIs DEF PairDone, store, Linked, Ready
<1>2. Unpairs /\ Keeps /\ key \in [Peers -> Keys \cup {NoKey}]
  BY <1>1 DEF Bonds, Typed, TypeOK
<1>3. \A t : ~Waits(t)
  BY <1>1, NothingWaits
<1> HIDE DEF q, n
<1>4. \A t : Waits(t)' <=> t = Write("our", <<q, n>>) \/ t = Write("peer", <<q, n>>)
  BY <1>1, EventWaits
<1>5. Unpairs'
  BY <1>4, TasksDiffer DEF Unpairs
<1>6. Keeps'
  <2> SUFFICES ASSUME NEW p \in Peers \ dropped', key'[p] # NoKey
               PROVE  Bonded("our", p)' /\ Bonded("peer", p)'
    BY DEF Keeps
  <2>1. CASE p = q
    <3>1. key'[p] = n
      BY <1>1, <1>2, <2>1
    <3> QED BY <1>4, <2>1, <3>1 DEF Bonded
  <2>2. CASE p # q
    <3>1. key'[p] = key[p] /\ p \in Peers \ dropped
      BY <1>1, <1>2, <2>2
    <3>2. Bonded("our", p) /\ Bonded("peer", p)
      BY <1>2, <3>1 DEF Keeps
    <3> QED BY <1>1, <1>3, <3>1, <3>2 DEF Bonded
  <2> QED BY <2>1, <2>2
<1> QED BY <1>5, <1>6

LEMMA BondsForget ==
    ASSUME Typed, Bonds, NEW q \in Peers, Forget(q)
    PROVE  Bonds'
<1> SUFFICES ASSUME ~replaced' PROVE Unpairs' /\ Keeps'
  BY DEF Bonds
<1>1. /\ ~replaced /\ ram' = ram /\ todo' = todo /\ dropped' = dropped
      /\ key' = [key EXCEPT ![q] = NoKey]
  BY DEF Forget, store, history
<1>2. Unpairs /\ Keeps /\ key \in [Peers -> Keys \cup {NoKey}]
  BY <1>1 DEF Bonds, Typed, TypeOK
<1>3. Unpairs'
  BY <1>1, <1>2 DEF Unpairs, Waits
<1>4. Keeps'
  <2> SUFFICES ASSUME NEW p \in Peers \ dropped, key'[p] # NoKey
               PROVE  Bonded("our", p)' /\ Bonded("peer", p)'
    BY <1>1 DEF Keeps
  <2>1. key'[p] = key[p]
    BY <1>1, <1>2
  <2>2. Bonded("our", p) /\ Bonded("peer", p)
    BY <1>2, <2>1 DEF Keeps
  <2> QED BY <1>1, <2>1, <2>2 DEF Bonded, Waits
<1> QED BY <1>3, <1>4

\* Everything else has nothing to do with bonds: what subscribing and
\* unsubscribing leave to do is about one CCCD.
LEMMA BondsElse ==
    ASSUME Bonds, UNCHANGED <<store, key, dropped, replaced>>,
           \/ todo' = todo
           \/ /\ todo = <<>>
              /\ \E p, c : todo' = <<Write("cccd", <<p, c>>)>> \/ todo' = <<DeleteCccd(p, c)>>
    PROVE  Bonds'
<1> SUFFICES ASSUME ~replaced' PROVE Unpairs' /\ Keeps'
  BY DEF Bonds
<1>1. Unpairs /\ Keeps /\ ram' = ram /\ key' = key /\ dropped' = dropped
  BY DEF Bonds, store
<1>2. CASE todo' = todo
  BY <1>1, <1>2 DEF Unpairs, Keeps, Bonded, Waits
<1>3. ASSUME todo = <<>>, NEW p, NEW c,
             todo' = <<Write("cccd", <<p, c>>)>> \/ todo' = <<DeleteCccd(p, c)>>
      PROVE  Unpairs' /\ Keeps'
  <2>1. \A t : ~Waits(t)
    BY <1>3, NothingWaits
  <2>2. \A t : Waits(t)' => t = Write("cccd", <<p, c>>) \/ t = DeleteCccd(p, c)
    BY <1>3, EventWaits
  <2>3. Unpairs'
    BY <2>2, TasksDiffer DEF Unpairs
  <2>4. Keeps'
    <3> SUFFICES ASSUME NEW q \in Peers \ dropped, key[q] # NoKey
                 PROVE  Bonded("our", q)' /\ Bonded("peer", q)'
      BY <1>1 DEF Keeps
    <3>1. Bonded("our", q) /\ Bonded("peer", q)
      BY <1>1 DEF Keeps
    <3> QED BY <1>1, <2>1, <3>1 DEF Bonded
  <2> QED BY <2>3, <2>4
<1> QED BY <1>2, <1>3

LEMMA BondsStep == Typed /\ Mirrored /\ Bonds /\ [Next]_vars => Bonds'
<1> SUFFICES ASSUME Typed, Mirrored, Bonds, [Next]_vars PROVE Bonds'
  OBVIOUS
<1>1. CASE StoreStep
  BY <1>1, BondsWrite, BondsOverflow, BondsDelete DEF StoreStep
<1>2. CASE Disconnect \/ Encrypt \/ PairFails
  <2>1. UNCHANGED <<store, todo, hosts, history>>
    BY <1>2 DEF Disconnect, Encrypt, PairFails
  <2> QED BY <2>1, BondsElse DEF hosts, history
<1>3. CASE PairRequest
  BY <1>3, BondsPairRequest
<1>4. CASE PairDone
  BY <1>4, BondsPairDone
<1>5. ASSUME NEW p \in Peers, Connect(p)
      PROVE  Bonds'
  BY <1>5, BondsElse DEF Connect, history
<1>6. ASSUME NEW c \in Chars, Subscribe(c) \/ Unsubscribe(c)
      PROVE  Bonds'
  <2>1. UNCHANGED <<store, key, dropped, replaced>> /\ todo = <<>>
    BY <1>6 DEF Subscribe, Unsubscribe, history, Linked, Ready
  <2>2. \/ todo' = todo \/ todo' = <<Write("cccd", <<conn.peer, c>>)>>
        \/ todo' = <<DeleteCccd(conn.peer, c)>>
    BY <1>6 DEF Subscribe, Unsubscribe
  <2> QED BY <2>1, <2>2, BondsElse
<1>7. CASE PowerCut
  BY <1>7, BondsPowerCut
<1>8. CASE UNCHANGED vars
  BY <1>8, BondsElse DEF vars, hosts, history
<1> QED BY <1>1, <1>2, <1>3, <1>4, <1>5, <1>6, <1>7, <1>8, BondsForget DEF Next

LEMMA BondsInitial == Init => Bonds
BY DEF Init, Bonds, Unpairs, Keeps, Waits

\* A bonded host can come back after any loss of power, unless the device gave
\* its bond up, had no room for it or lost power while it stored it.
THEOREM BondsKept == Spec => []BondKept
<1>1. Typed /\ Mirrored /\ Bonds /\ [Next]_vars => (Typed /\ Mirrored /\ Bonds)'
  BY TypedStep, MirroredStep, BondsStep
<1>2. ASSUME Mirrored, Bonds PROVE BondKept
  <2> SUFFICES ASSUME todo = <<>>, ~replaced, NEW p \in Peers \ dropped, key[p] # NoKey
               PROVE  <<p, key[p]>> \in InNvs("our") \cap InNvs("peer")
    BY DEF BondKept, Ready
  <2>1. <<p, key[p]>> \in Range(ram["our"]) /\ <<p, key[p]>> \in Range(ram["peer"])
    BY <1>2, NothingWaits DEF Bonds, Keeps, Bonded
  <2>2. InNvs("our") = Range(ram["our"]) /\ InNvs("peer") = Range(ram["peer"])
    BY <1>2, SecsAre DEF Mirrored, Mirrors, InSlots, InNvs
  <2> QED BY <2>1, <2>2
<1> QED BY <1>1, <1>2, TypedInitial, MirroredInitial, BondsInitial, PTL DEF Spec

-----------------------------------------------------------------------------
(* Subscriptions.                                                           *)

\* What a host counts on, and whether the device can encrypt with its key.
Sure(p)      == wish[p] \ unsaved[p]
BondedNow(p) == <<p, key[p]>> \in Range(ram["our"])

\* The store holds what the bonded hosts count on, and the link notifies it.
Stored  == \A p \in Peers : BondedNow(p) => \A c \in Sure(p) : <<p, c>> \in Range(ram["cccd"])
Flagged == conn.bonded => Sure(conn.peer) \subseteq conn.flags

\* What waits for the store agrees with it: only what the host gave up is
\* deleted, only what the link notifies is written, and a host whose key is to be
\* written counts on nothing.
Dropping == \A p \in Peers, c \in Chars : Waits(DeleteCccd(p, c)) => c \notin Sure(p)
Adding   == \A p, c : Waits(Write("cccd", <<p, c>>)) => conn.bonded /\ p = conn.peer /\ c \in conn.flags
Fresh    == \A p \in Peers : \A n : Waits(Write("our", <<p, n>>)) =>
                Sure(p) = {} /\ \A r : ~Waits(Write("cccd", r))

\* The CCCDs of a host go after its bond, and everything goes before a record is
\* written.
Gone == \A i \in DOMAIN todo, p \in Peers : todo[i] = DeleteAll("cccd", p) =>
            \/ ~BondedNow(p)
            \/ \E j \in DOMAIN todo : j < i /\ todo[j] = DeleteAll("our", p)
Sorted == \A i, j \in DOMAIN todo : i < j /\ todo[j].op = "delete" => todo[i].op = "delete"

Subscribed == Stored /\ Flagged /\ Dropping /\ Adding /\ Fresh /\ Gone /\ Sorted
Subs       == ~replaced => Subscribed

LEMMA OpsAre ==
    /\ \A k, r : Write(k, r).op = "write"
    /\ \A k, p : DeleteAll(k, p).op = "delete"
    /\ \A p, c : DeleteCccd(p, c).op = "delete"
BY DEF Write, DeleteAll, DeleteCccd

LEMMA WritesOnly ==
    ASSUME todo \in Seq(Tasks), Sorted, todo # <<>>, todo[1].op = "write", NEW t, t.op = "delete"
    PROVE  ~Waits(t)
<1>1. ASSUME NEW i \in DOMAIN todo, todo[i] = t PROVE FALSE
  <2>1. i \in Nat /\ i >= 1 /\ 1 \in DOMAIN todo
    BY <1>1, HeadIs
  <2>2. CASE i = 1
    BY <1>1, <2>2
  <2>3. CASE i > 1
    <3>1. todo[1].op = "delete"
      BY <1>1, <2>1, <2>3 DEF Sorted
    <3> QED BY <3>1
  <2> QED BY <2>1, <2>2, <2>3
<1> QED BY <1>1 DEF Waits

\* The order of what waits survives the steps of the store.
LEMMA TailSorted ==
    ASSUME todo \in Seq(Tasks), Sorted, todo # <<>>, todo' = Tail(todo)
    PROVE  Sorted'
<1> SUFFICES ASSUME NEW i \in DOMAIN todo', NEW j \in DOMAIN todo', i < j, todo'[j].op = "delete"
             PROVE  todo'[i].op = "delete"
  BY DEF Sorted
<1>1. /\ i + 1 \in DOMAIN todo /\ j + 1 \in DOMAIN todo
      /\ todo'[i] = todo[i + 1] /\ todo'[j] = todo[j + 1]
  BY HeadIs
<1>2. i \in Nat /\ j \in Nat
  <2>1. Tail(todo) \in Seq(Tasks)
    BY HeadIs
  <2> QED BY <2>1
<1>3. i + 1 < j + 1
  BY <1>2
<1> QED BY <1>1, <1>3 DEF Sorted

LEMMA UnpairingSorted ==
    ASSUME todo \in Seq(Tasks), Sorted, NEW v \in Peers, todo' = DeletePeer(v) \o todo
    PROVE  Sorted'
<1> SUFFICES ASSUME NEW i \in DOMAIN todo', NEW j \in DOMAIN todo', i < j, todo'[j].op = "delete"
             PROVE  todo'[i].op = "delete"
  BY DEF Sorted
<1>1. CASE i \in {1, 2, 3}
  <2>1. \E k \in Kinds : todo'[i] = DeleteAll(k, v)
    BY <1>1, UnpairingIs DEF Kinds
  <2> QED BY <2>1, OpsAre
<1>2. CASE i \notin {1, 2, 3}
  <2>1. PICK m \in DOMAIN todo : i = m + 3
    BY <1>2, UnpairingIs
  <2>2. \A x \in DOMAIN todo : x \in Nat /\ x >= 1
    OBVIOUS
  <2>3. j \notin {1, 2, 3}
    BY <2>1, <2>2
  <2>4. PICK n \in DOMAIN todo : j = n + 3
    BY <2>3, UnpairingIs
  <2>5. m < n
    BY <2>1, <2>2, <2>4
  <2>6. todo'[i] = todo[m] /\ todo'[j] = todo[n]
    BY <2>1, <2>4, UnpairingIs
  <2> QED BY <2>5, <2>6 DEF Sorted
<1> QED BY <1>1, <1>2

LEMMA SubsWrite == Typed /\ Mirrored /\ Subs /\ WriteFits => Subs'
<1> SUFFICES ASSUME Typed, Mirrored, Subs, WriteFits, ~replaced' PROVE Subscribed'
  BY DEF Subs
<1>1. PICK k \in Kinds : \E r \in Records(k) :
               /\ todo[1] = Write(k, r) /\ todo # <<>> /\ todo' = Tail(todo)
               /\ Range(ram'[k]) = Range(ram[k]) \cup {r}
               /\ \A j \in Kinds \ {k} : ram'[j] = ram[j]
               /\ IF k = "cccd" THEN Confirm(r[1], r[2]) ELSE UNCHANGED hosts
               /\ ~replaced /\ UNCHANGED <<conn, dropped, pairings>>
  BY WrittenIs
<1>2. PICK r \in Records(k) :
               /\ todo[1] = Write(k, r) /\ todo # <<>> /\ todo' = Tail(todo)
               /\ Range(ram'[k]) = Range(ram[k]) \cup {r}
               /\ \A j \in Kinds \ {k} : ram'[j] = ram[j]
               /\ IF k = "cccd" THEN Confirm(r[1], r[2]) ELSE UNCHANGED hosts
               /\ ~replaced /\ UNCHANGED <<conn, dropped, pairings>>
  BY <1>1
<1>3. todo \in Seq(Tasks) /\ wish \in [Peers -> SUBSET Chars] /\ unsaved \in [Peers -> SUBSET Chars]
  BY DEF Typed, TypeOK
<1>4. Subscribed
  BY <1>2 DEF Subs
<1>5. key' = key /\ conn' = conn
  BY <1>2 DEF Confirm, hosts
<1>6. /\ \A t : Waits(t)' => Waits(t)
      /\ Waits(todo[1])
  <2>1. 1 \in DOMAIN todo
    BY <1>2, <1>3, HeadIs
  <2> QED BY <1>2, <1>3, <2>1, TailWaits DEF Waits
<1>7. \A t : t.op = "delete" => ~Waits(t)'
  <2>1. todo[1].op = "write"
    BY <1>2, OpsAre
  <2> QED BY <1>2, <1>3, <1>4, <1>6, <2>1, WritesOnly DEF Subscribed
<1>8. Dropping' /\ Gone' /\ Sorted'
  <2>1. Dropping'
    BY <1>7, OpsAre DEF Dropping
  <2>2. Gone'
    BY <1>7, OpsAre DEF Gone, Waits
  <2>3. Sorted'
    BY <1>2, <1>3, <1>4, TailSorted DEF Subscribed
  <2> QED BY <2>1, <2>2, <2>3
<1>9. Adding'
  BY <1>4, <1>5, <1>6 DEF Subscribed, Adding
<1>10. CASE k = "cccd"
  <2>1. PICK p \in Peers, c \in Chars : r = <<p, c>>
    BY <1>10 DEF Records
  <2>2. /\ wish' = [wish EXCEPT ![p] = @ \cup {c}]
        /\ unsaved' = [unsaved EXCEPT ![p] = @ \ {c}]
    BY <1>2, <1>10, <2>1 DEF Confirm
  <2>3. conn.bonded /\ p = conn.peer /\ c \in conn.flags
    BY <1>2, <1>4, <1>6, <1>10, <2>1 DEF Subscribed, Adding
  <2>4. /\ Sure(p)' = Sure(p) \cup {c}
        /\ \A q \in Peers \ {p} : Sure(q)' = Sure(q)
    BY <1>3, <2>2 DEF Sure
  <2>5. ram'["our"] = ram["our"] /\ Range(ram'["cccd"]) = Range(ram["cccd"]) \cup {<<p, c>>}
    BY <1>2, <1>10, <2>1, SecsAre
  <2>6. Stored'
    <3> SUFFICES ASSUME NEW q \in Peers, BondedNow(q), NEW d \in Sure(q)'
                 PROVE  <<q, d>> \in Range(ram'["cccd"])
      BY <1>5, <2>5 DEF Stored, BondedNow
    <3>1. d \in Sure(q) \/ (q = p /\ d = c)
      BY <2>4
    <3> QED BY <1>4, <2>5, <3>1 DEF Subscribed, Stored
  <2>7. Flagged'
    <3>1. Sure(p) \subseteq conn.flags
      BY <1>4, <2>3 DEF Subscribed, Flagged
    <3>2. Sure(p)' \subseteq conn.flags
      BY <2>3, <2>4, <3>1
    <3> QED BY <1>5, <2>3, <3>2 DEF Flagged
  <2>8. Fresh'
    <3>1. \A q \in Peers : \A n : ~Waits(Write("our", <<q, n>>))
      BY <1>2, <1>4, <1>6, <1>10 DEF Subscribed, Fresh
    <3> QED BY <1>6, <3>1 DEF Fresh
  <2> QED BY <1>8, <1>9, <2>6, <2>7, <2>8 DEF Subscribed
<1>11. CASE k # "cccd"
  <2>1. UNCHANGED hosts /\ ram'["cccd"] = ram["cccd"]
    BY <1>2, <1>11, SecsAre
  <2>2. \A q : Sure(q)' = Sure(q)
    BY <2>1 DEF hosts, Sure
  <2>3. Stored'
    <3> SUFFICES ASSUME NEW q \in Peers, BondedNow(q)', NEW d \in Sure(q)
                 PROVE  <<q, d>> \in Range(ram["cccd"])
      BY <2>1, <2>2 DEF Stored
    <3>1. CASE BondedNow(q)
      BY <1>4, <3>1 DEF Subscribed, Stored
    <3>2. CASE ~BondedNow(q)
      <4>1. k = "our" /\ <<q, key[q]>> = r
        BY <1>2, <1>5, <3>2, SecsAre DEF BondedNow
      <4>2. Sure(q) = {}
        BY <1>2, <1>4, <1>6, <4>1 DEF Subscribed, Fresh
      <4> QED BY <4>2
    <3> QED BY <3>1, <3>2
  <2>4. Flagged'
    BY <1>4, <1>5, <2>2 DEF Subscribed, Flagged
  <2>5. Fresh'
    BY <1>4, <1>6, <2>2 DEF Subscribed, Fresh
  <2> QED BY <1>8, <1>9, <2>3, <2>4, <2>5 DEF Subscribed
<1> QED BY <1>10, <1>11

LEMMA SubsOverflow == Typed /\ Subs /\ WriteOverflows => Subs'
<1> SUFFICES ASSUME Typed, Subs, WriteOverflows, ~replaced' PROVE Subscribed'
  BY DEF Subs
<1>1. PICK k \in Kinds : \E r \in Records(k) :
               /\ todo[1] = Write(k, r) /\ todo # <<>>
               /\ (\E v \in Peers : todo' = DeletePeer(v) \o todo) \/ todo' = Tail(todo)
               /\ UNCHANGED <<store, conn, hosts, replaced>>
  BY OverflowIs
<1>2. todo \in Seq(Tasks) /\ todo # <<>> /\ todo[1].op = "write"
  BY <1>1, OpsAre DEF Typed, TypeOK
<1>3. Subscribed /\ UNCHANGED <<store, conn, hosts>>
  BY <1>1 DEF Subs
<1>4. /\ Stored' /\ Flagged'
      /\ \A p : Sure(p)' = Sure(p) /\ (BondedNow(p)' <=> BondedNow(p))
  BY <1>3 DEF Subscribed, Stored, Flagged, Sure, BondedNow, store, hosts
<1>5. CASE \E v \in Peers : todo' = DeletePeer(v) \o todo
  <2>1. PICK v \in Peers : todo' = DeletePeer(v) \o todo
    BY <1>5
  <2>2. \A t : Waits(t)' => Waits(t) \/ \E j \in Kinds : t = DeleteAll(j, v)
    BY <1>2, <2>1, UnpairingWaits
  <2>3. Dropping'
    BY <1>3, <1>4, <2>2, TasksDiffer DEF Subscribed, Dropping
  <2>4. Adding'
    BY <1>3, <2>2, TasksDiffer DEF Subscribed, Adding
  <2>5. Fresh'
    BY <1>3, <1>4, <2>2, TasksDiffer DEF Subscribed, Fresh
  <2>6. Gone'
    <3> SUFFICES ASSUME NEW i \in DOMAIN todo', NEW p \in Peers, todo'[i] = DeleteAll("cccd", p)
                 PROVE  \E j \in DOMAIN todo' : j < i /\ todo'[j] = DeleteAll("our", p)
      BY DEF Gone
    <3>1. i \in {1, 2, 3}
      <4>1. ASSUME NEW m \in DOMAIN todo, i = m + 3 PROVE FALSE
        <5>1. Waits(DeleteAll("cccd", p))
          BY <1>2, <2>1, <4>1, UnpairingIs DEF Waits
        <5> QED BY <1>2, <1>3, <5>1, OpsAre, WritesOnly DEF Subscribed
      <4> QED BY <1>2, <2>1, <4>1, UnpairingIs
    <3>2. i = 3 /\ p = v
      <4>1. /\ todo'[1] = DeleteAll("our", v) /\ todo'[2] = DeleteAll("peer", v)
            /\ todo'[3] = DeleteAll("cccd", v)
        BY <1>2, <2>1, UnpairingIs
      <4> QED BY <3>1, <4>1, TasksDiffer, SecsAre
    <3>3. todo'[1] = DeleteAll("our", p)
      BY <1>2, <2>1, <3>2, UnpairingIs
    <3>4. 1 \in DOMAIN todo'
      <4>1. 1 \in DOMAIN todo
        BY <1>2, HeadIs
      <4>2. todo' \in Seq(Tasks)
        BY <1>2, <2>1, DeletePeerIs, ConcatProperties
      <4> QED BY <3>2, <4>2
    <3> QED BY <3>2, <3>3, <3>4
  <2>7. Sorted'
    BY <1>2, <1>3, <2>1, UnpairingSorted DEF Subscribed
  <2> QED BY <1>4, <2>3, <2>4, <2>5, <2>6, <2>7 DEF Subscribed
<1>6. CASE todo' = Tail(todo)
  <2>1. \A t : Waits(t)' => Waits(t)
    BY <1>2, <1>6, TailWaits
  <2>2. Dropping' /\ Adding' /\ Fresh'
    BY <1>3, <1>4, <2>1 DEF Subscribed, Dropping, Adding, Fresh
  <2>3. \A t : t.op = "delete" => ~Waits(t)'
    BY <1>2, <1>3, <2>1, WritesOnly DEF Subscribed
  <2>4. Gone'
    BY <2>3, OpsAre DEF Gone, Waits
  <2>5. Sorted'
    BY <1>2, <1>3, <1>6, TailSorted DEF Subscribed
  <2> QED BY <1>4, <2>2, <2>4, <2>5 DEF Subscribed
<1> QED BY <1>1, <1>5, <1>6

\* What is removed from the store is not counted on: the host gave it up, or its
\* bond went before it.
LEMMA SubsRemoval ==
    ASSUME Typed, Mirrored, ~replaced, Subscribed,
           NEW k \in Kinds, NEW rec, NEW i \in Matches(k, rec), i \in DOMAIN ram[k],
           todo # <<>>, todo[1] \in Tasks, todo[1] = [op |-> "delete", kind |-> k, rec |-> rec],
           Store(k, RemoveAt(ram[k], i)), UNCHANGED hosts
    PROVE  Stored' /\ \A p : BondedNow(p)' => BondedNow(p)
<1>1. /\ Range(ram'[k]) = Range(ram[k]) \ {ram[k][i]}
      /\ \A l \in Kinds \ {k} : ram'[l] = ram[l]
  BY RemovedIs
<1>2. \A p : Sure(p)' = Sure(p) /\ key' = key
  BY DEF Sure, hosts
<1>3. \A l \in Kinds : Range(ram'[l]) \subseteq Range(ram[l])
  BY <1>1
<1>4. \A p : BondedNow(p)' => BondedNow(p)
  BY <1>2, <1>3, SecsAre DEF BondedNow
<1>5. Stored'
  <2> SUFFICES ASSUME NEW p \in Peers, BondedNow(p), NEW c \in Sure(p),
                      <<p, c>> \notin Range(ram'["cccd"])
               PROVE  FALSE
    BY <1>2, <1>4 DEF Stored
  <2>1. <<p, c>> \in Range(ram["cccd"])
    BY DEF Subscribed, Stored
  <2>2. k = "cccd" /\ ram[k][i] = <<p, c>>
    BY <1>1, <2>1, SecsAre
  <2>3. ram[k][i][1] = rec[1] /\ (Len(rec) = 2 => ram[k][i] = rec)
    BY DEF Matches
  <2>4. todo \in Seq(Tasks) /\ c \in Chars
    BY DEF Typed, TypeOK, Sure
  <2>5. 1 \in DOMAIN todo /\ Waits(todo[1])
    BY <2>4, HeadIs DEF Waits
  <2>6. todo[1].op = "delete" /\ todo[1].kind = "cccd" /\ todo[1].rec = rec
    BY <2>2
  <2>7. \/ \E q \in Peers : rec = <<q>> /\ todo[1] = DeleteAll("cccd", q)
        \/ \E q \in Peers, d \in Chars : rec = <<q, d>> /\ todo[1] = DeleteCccd(q, d)
    BY <2>6, TaskIs
  <2>8. CASE \E q \in Peers : rec = <<q>> /\ todo[1] = DeleteAll("cccd", q)
    <3>1. rec = <<p>> /\ todo[1] = DeleteAll("cccd", p)
      BY <2>2, <2>3, <2>8
    <3>2. PICK j \in DOMAIN todo : j < 1
      BY <2>5, <3>1 DEF Subscribed, Gone
    <3> QED BY <2>4, <3>2
  <2>9. CASE \E q \in Peers, d \in Chars : rec = <<q, d>> /\ todo[1] = DeleteCccd(q, d)
    <3>1. PICK q \in Peers, d \in Chars : rec = <<q, d>> /\ todo[1] = DeleteCccd(q, d)
      BY <2>9
    <3>2. Len(rec) = 2
      BY <3>1
    <3>3. q = p /\ d = c
      BY <2>2, <2>3, <3>1, <3>2
    <3> QED BY <2>5, <3>1, <3>3 DEF Subscribed, Dropping
  <2> QED BY <2>7, <2>8, <2>9
<1> QED BY <1>4, <1>5

LEMMA SubsDelete == Typed /\ Mirrored /\ Subs /\ Delete => Subs'
<1> SUFFICES ASSUME Typed, Mirrored, Subs, Delete, ~replaced' PROVE Subscribed'
  BY DEF Subs
<1>1. PICK k \in Kinds, rec \in Recs :
               /\ todo[1] = [op |-> "delete", kind |-> k, rec |-> rec] /\ todo # <<>>
               /\ todo[1] \in Tasks
               /\ \/ Matches(k, rec) = {} /\ todo' = Tail(todo) /\ UNCHANGED store
                  \/ \E i \in Matches(k, rec) :
                        /\ i \in DOMAIN ram[k]
                        /\ Store(k, RemoveAt(ram[k], i))
                        /\ todo' = IF Len(rec) = 1 THEN todo ELSE Tail(todo)
               /\ UNCHANGED <<conn, hosts, history>>
  BY DeleteIs
<1>2. /\ ~replaced /\ UNCHANGED <<conn, hosts>> /\ todo \in Seq(Tasks)
      /\ \A p : Sure(p)' = Sure(p)
  BY <1>1 DEF hosts, history, Typed, TypeOK, Sure
<1>3. Subscribed
  BY <1>2 DEF Subs
<1>4. Stored' /\ \A p : BondedNow(p)' => BondedNow(p)
  <2>1. CASE UNCHANGED store
    BY <1>2, <1>3, <2>1 DEF Subscribed, Stored, BondedNow, store, hosts
  <2>2. ASSUME NEW i \in Matches(k, rec), i \in DOMAIN ram[k], Store(k, RemoveAt(ram[k], i))
        PROVE  Stored' /\ \A p : BondedNow(p)' => BondedNow(p)
    BY <1>1, <1>2, <1>3, <2>2, SubsRemoval
  <2> QED BY <1>1, <2>1, <2>2
<1>5. Flagged'
  BY <1>2, <1>3 DEF Subscribed, Flagged
<1>6. todo' = todo \/ todo' = Tail(todo)
  BY <1>1
<1>7. \A t : Waits(t)' => Waits(t)
  <2>1. CASE todo' = todo
    BY <2>1 DEF Waits
  <2>2. CASE todo' = Tail(todo)
    BY <1>1, <1>2, <2>2, TailWaits
  <2> QED BY <1>6, <2>1, <2>2
<1>8. Dropping' /\ Adding' /\ Fresh'
  BY <1>2, <1>3, <1>7 DEF Subscribed, Dropping, Adding, Fresh
<1>9. Sorted'
  <2>1. CASE todo' = todo
    BY <1>3, <2>1 DEF Subscribed, Sorted
  <2>2. CASE todo' = Tail(todo)
    BY <1>1, <1>2, <1>3, <2>2, TailSorted DEF Subscribed
  <2> QED BY <1>6, <2>1, <2>2
<1>10. Gone'
  <2>1. CASE todo' = todo
    BY <1>3, <1>4, <2>1 DEF Subscribed, Gone
  <2>2. CASE todo' = Tail(todo) /\ todo' # todo
    <3> SUFFICES ASSUME NEW i \in DOMAIN todo', NEW p \in Peers, todo'[i] = DeleteAll("cccd", p),
                        BondedNow(p)
                 PROVE  \E j \in DOMAIN todo' : j < i /\ todo'[j] = DeleteAll("our", p)
      BY <1>4 DEF Gone
    <3>1. i + 1 \in DOMAIN todo /\ todo[i + 1] = DeleteAll("cccd", p)
      BY <1>1, <1>2, <2>2, HeadIs
    <3>2. PICK m \in DOMAIN todo : m < i + 1 /\ todo[m] = DeleteAll("our", p)
      BY <1>3, <3>1 DEF Subscribed, Gone
    <3>3. m # 1
      <4> SUFFICES ASSUME todo[1] = DeleteAll("our", p) PROVE FALSE
        BY <3>2
      <4>1. k = "our" /\ rec = <<p>>
        BY <1>1 DEF DeleteAll
      <4>2. Matches("our", <<p>>) = {}
        BY <1>1, <2>2, <4>1
      <4>3. PICK n \in DOMAIN ram["our"] : ram["our"][n] = <<p, key[p]>>
        BY DEF BondedNow, Range
      <4>4. ram["our"][n][1] = p /\ Len(<<p>>) = 1 /\ <<p>>[1] = p
        BY <4>3
      <4>5. n \in Matches("our", <<p>>)
        BY <4>4 DEF Matches
      <4> QED BY <4>2, <4>5
    <3>4. \A x \in DOMAIN todo : x \in Nat /\ x >= 1
      BY <1>2
    <3>5. m - 1 \in DOMAIN todo' /\ (m - 1) + 1 = m
      BY <1>1, <1>2, <2>2, <3>3, <3>4, HeadIs
    <3>6. todo'[m - 1] = todo[m]
      BY <1>1, <1>2, <2>2, <3>5, HeadIs
    <3>7. i \in Int
      <4>1. Tail(todo) \in Seq(Tasks)
        BY <1>1, <1>2, HeadIs
      <4> QED BY <2>2, <4>1
    <3>8. m - 1 < i
      BY <3>2, <3>4, <3>7
    <3> QED BY <3>2, <3>5, <3>6, <3>8
  <2> QED BY <1>6, <2>1, <2>2
<1> QED BY <1>4, <1>5, <1>8, <1>9, <1>10 DEF Subscribed

LEMMA SubsPowerCut == Typed /\ Mirrored /\ Subs /\ PowerCut => Subs'
<1> SUFFICES ASSUME Typed, Mirrored, Subs, PowerCut, ~replaced' PROVE Subscribed'
  BY DEF Subs
<1>1. /\ ~replaced /\ UNCHANGED hosts /\ todo' = <<>> /\ conn' = NoConn
  BY DEF PowerCut
<1>2. \A k \in Kinds : Range(ram'[k]) = Range(ram[k])
  BY <1>1, RestoredSame
<1>3. Subscribed
  BY <1>1 DEF Subs
<1>4. Stored'
  BY <1>1, <1>2, <1>3, SecsAre DEF Subscribed, Stored, Sure, BondedNow, hosts
<1>5. Flagged'
  BY <1>1 DEF Flagged, NoConn
<1>6. Dropping' /\ Adding' /\ Fresh' /\ Gone' /\ Sorted'
  BY <1>1 DEF Dropping, Adding, Fresh, Gone, Sorted, Waits
<1> QED BY <1>4, <1>5, <1>6 DEF Subscribed

\* The events come when the store is done: nothing of the past waits.
LEMMA NothingLeft ==
    ASSUME todo' = <<>>
    PROVE  Dropping' /\ Adding' /\ Fresh' /\ Gone' /\ Sorted'
BY DEF Dropping, Adding, Fresh, Gone, Sorted, Waits

LEMMA SubsConnect ==
    ASSUME Typed, Subs, NEW p \in Peers, Connect(p)
    PROVE  Subs'
<1> SUFFICES ASSUME ~replaced' PROVE Subscribed'
  BY DEF Subs
<1>1. /\ ~replaced /\ UNCHANGED <<store, key>> /\ todo' = <<>> /\ ~conn'.bonded
      /\ wish \in [Peers -> SUBSET Chars] /\ unsaved \in [Peers -> SUBSET Chars]
  BY DEF Connect, Ready, history, NoConn, Typed, TypeOK
<1>2. Stored
  BY <1>1 DEF Subs, Subscribed
<1>3. \A q \in Peers : Sure(q)' \subseteq Sure(q)
  BY <1>1 DEF Connect, Sure
<1>4. Stored'
  BY <1>1, <1>2, <1>3 DEF Stored, BondedNow, store
<1>5. Flagged'
  BY <1>1 DEF Flagged
<1> QED BY <1>1, <1>4, <1>5, NothingLeft DEF Subscribed

\* A bonded link starts with what the store holds for its host.
LEMMA SubsEncrypt == Typed /\ Subs /\ Encrypt => Subs'
<1> SUFFICES ASSUME Typed, Subs, Encrypt, ~replaced' PROVE Subscribed'
  BY DEF Subs
<1>1. /\ ~replaced /\ UNCHANGED <<store, hosts>> /\ todo' = <<>> /\ conn.peer \in Peers
      /\ wish \in [Peers -> SUBSET Chars]
  BY PeerIs DEF Encrypt, Linked, Ready, history, Typed, TypeOK
<1>2. Subscribed
  BY <1>1 DEF Subs
<1>3. Stored'
  BY <1>1, <1>2 DEF Subscribed, Stored, Sure, BondedNow, store, hosts
<1>4. Flagged'
  <2>1. CASE conn' = NoConn
    BY <2>1 DEF NoConn, Flagged
  <2>2. CASE <<conn.peer, key[conn.peer]>> \in Range(ram["our"])
    <3> DEFINE held == {c \in Chars : <<conn.peer, c>> \in Range(ram["cccd"])}
    <3>1. conn' = [conn EXCEPT !.encrypted = TRUE, !.bonded = TRUE, !.flags = @ \cup held]
      BY <2>2 DEF Encrypt
    <3>2. Sure(conn.peer) \subseteq held
      BY <1>1, <1>2, <2>2 DEF Subscribed, Stored, BondedNow, Sure
    <3> HIDE DEF held
    <3>3. conn \in Links
      BY DEF Typed, TypeOK, Links
    <3>4. conn'.peer = conn.peer /\ conn'.flags = conn.flags \cup held
      BY <3>1, <3>3 DEF Links
    <3>5. Sure(conn.peer)' = Sure(conn.peer)
      BY <1>1, <3>4 DEF Sure, hosts
    <3> QED BY <3>2, <3>4, <3>5 DEF Flagged
  <2>3. conn' = NoConn \/ <<conn.peer, key[conn.peer]>> \in Range(ram["our"])
    BY DEF Encrypt
  <2> QED BY <2>1, <2>2, <2>3
<1> QED BY <1>1, <1>3, <1>4, NothingLeft DEF Subscribed

\* The end of a connection and a pairing that fails change no flags and no bond.
LEMMA SubsLink ==
    ASSUME Subs, UNCHANGED <<store, hosts, replaced>>,
           conn' = NoConn \/ (conn'.bonded = conn.bonded /\ conn'.peer = conn.peer
                                                       /\ conn'.flags = conn.flags),
           todo' = <<>>
    PROVE  Subs'
<1> SUFFICES ASSUME ~replaced' PROVE Subscribed'
  BY DEF Subs
<1>1. Subscribed /\ UNCHANGED <<store, hosts>>
  BY DEF Subs
<1>2. Stored'
  BY <1>1 DEF Subscribed, Stored, Sure, BondedNow, store, hosts
<1>3. Flagged'
  <2>1. CASE conn' = NoConn
    BY <2>1 DEF NoConn, Flagged
  <2>2. CASE conn'.bonded = conn.bonded /\ conn'.peer = conn.peer /\ conn'.flags = conn.flags
    BY <1>1, <2>2 DEF Subscribed, Flagged, Sure, hosts
  <2> QED BY <2>1, <2>2
<1> QED BY <1>2, <1>3, NothingLeft DEF Subscribed

LEMMA SubsPairRequest == Typed /\ Subs /\ PairRequest => Subs'
<1> SUFFICES ASSUME Typed, Subs, PairRequest PROVE Subs'
  OBVIOUS
<1> DEFINE p == conn.peer
<1>1. /\ UNCHANGED <<store, hosts, replaced>> /\ todo = <<>> /\ p \in Peers /\ conn \in Links
      /\ todo' = todo \/ todo' = DeletePeer(p)
  BY PeerIs DEF PairRequest, Linked, Ready, Typed, TypeOK, Links
<1>2. conn' = [conn EXCEPT !.pairing = TRUE]
  BY DEF PairRequest
<1>3. conn'.bonded = conn.bonded /\ conn'.peer = conn.peer /\ conn'.flags = conn.flags
  BY <1>1, <1>2 DEF Links
<1> HIDE DEF p
<1>4. CASE todo' = todo
  BY <1>1, <1>3, <1>4, SubsLink
<1>5. CASE todo' = DeletePeer(p)
  <2> SUFFICES ASSUME ~replaced' PROVE Subscribed'
    BY DEF Subs
  <2>1. Subscribed /\ UNCHANGED <<store, hosts>>
    BY <1>1 DEF Subs
  <2>2. Stored' /\ Flagged'
    BY <1>3, <2>1 DEF Subscribed, Stored, Flagged, Sure, BondedNow, store, hosts
  <2>3. /\ DOMAIN todo' = {1, 2, 3} /\ todo'[1] = DeleteAll("our", p)
        /\ todo'[2] = DeleteAll("peer", p) /\ todo'[3] = DeleteAll("cccd", p)
    BY <1>1, <1>5, DeletePeerIs
  <2>4. \A t : Waits(t)' => \E k \in Kinds : t = DeleteAll(k, p)
    BY <1>1, <1>5, EventWaits
  <2>5. Dropping' /\ Adding' /\ Fresh'
    BY <2>4, TasksDiffer DEF Dropping, Adding, Fresh
  <2>6. Sorted'
    BY <2>3, OpsAre DEF Sorted
  <2>7. Gone'
    <3> SUFFICES ASSUME NEW i \in DOMAIN todo', NEW q \in Peers, todo'[i] = DeleteAll("cccd", q)
                 PROVE  \E j \in DOMAIN todo' : j < i /\ todo'[j] = DeleteAll("our", q)
      BY DEF Gone
    <3>1. i = 3 /\ q = p
      BY <2>3, TasksDiffer, SecsAre
    <3> QED BY <2>3, <3>1
  <2> QED BY <2>2, <2>5, <2>6, <2>7 DEF Subscribed
<1> QED BY <1>1, <1>4, <1>5

\* A pairing starts anew: what was subscribed to before it is not counted on.
LEMMA SubsPairDone == Typed /\ Subs /\ PairDone => Subs'
<1> SUFFICES ASSUME Typed, Subs, PairDone, ~replaced' PROVE Subscribed'
  BY DEF Subs
<1>p. PICK p \in Peers : p = conn.peer
  BY PeerIs DEF PairDone
<1>n. PICK n, f : n = pairings + 1 /\ f = conn.flags
  OBVIOUS
<1>0. p = conn.peer /\ n = pairings + 1 /\ f = conn.flags
  BY <1>p, <1>n
<1>1. /\ ~replaced /\ ram' = ram /\ conn \in Links
      /\ key' = [key EXCEPT ![p] = n]
      /\ wish' = [wish EXCEPT ![p] = f] /\ unsaved' = [unsaved EXCEPT ![p] = f]
      /\ todo' = <<Write("our", <<p, n>>), Write("peer", <<p, n>>)>>
  BY <1>0 DEF PairDone, store, Typed, TypeOK, Links
<1>2. /\ key \in [Peers -> Keys \cup {NoKey}]
      /\ wish \in [Peers -> SUBSET Chars] /\ unsaved \in [Peers -> SUBSET Chars]
  BY DEF Typed, TypeOK
<1>3. conn' = [conn EXCEPT !.pairing = FALSE, !.encrypted = TRUE, !.bonded = TRUE]
  BY DEF PairDone
<1>4. conn'.peer = p
  BY <1>0, <1>1, <1>3 DEF Links
<1>5. Subscribed
  BY <1>1 DEF Subs
<1>6. Sure(p)' = {} /\ \A q \in Peers \ {p} : Sure(q)' = Sure(q) /\ key'[q] = key[q]
  BY <1>1, <1>2 DEF Sure
<1>7. Stored'
  <2> SUFFICES ASSUME NEW q \in Peers, BondedNow(q)', NEW c \in Sure(q)'
               PROVE  <<q, c>> \in Range(ram["cccd"])
    BY <1>1 DEF Stored
  <2>1. q \in Peers \ {p} /\ c \in Sure(q) /\ BondedNow(q)
    BY <1>1, <1>6 DEF BondedNow
  <2> QED BY <1>5, <2>1 DEF Subscribed, Stored
<1>8. Flagged'
  BY <1>4, <1>6 DEF Flagged
<1>9. \A t : Waits(t)' <=> t = Write("our", <<p, n>>) \/ t = Write("peer", <<p, n>>)
  BY <1>1, EventWaits
<1>10. Dropping' /\ Adding'
  BY <1>9, TasksDiffer, SecsAre DEF Dropping, Adding
<1>11. Fresh'
  <2> SUFFICES ASSUME NEW q \in Peers, NEW m, Waits(Write("our", <<q, m>>))'
               PROVE  Sure(q)' = {} /\ \A r : ~Waits(Write("cccd", r))'
    BY DEF Fresh
  <2>1. <<q, m>> = <<p, n>>
    BY <1>9, TasksDiffer
  <2>2. q = p
    BY <2>1
  <2>3. \A r : ~Waits(Write("cccd", r))'
    BY <1>9, TasksDiffer, SecsAre
  <2> QED BY <1>6, <2>2, <2>3
<1>12. Gone' /\ Sorted'
  <2>1. ASSUME NEW i \in DOMAIN todo' PROVE todo'[i].op = "write"
    <3>1. PICK t : t = todo'[i]
      OBVIOUS
    <3>2. Waits(t)'
      BY <2>1, <3>1 DEF Waits
    <3> QED BY <1>9, <3>1, <3>2, OpsAre
  <2> QED BY <2>1, OpsAre DEF Gone, Sorted
<1> QED BY <1>7, <1>8, <1>10, <1>11, <1>12 DEF Subscribed

LEMMA SubsSubscribe ==
    ASSUME Typed, Subs, NEW c \in Chars, Subscribe(c)
    PROVE  Subs'
<1> SUFFICES ASSUME ~replaced' PROVE Subscribed'
  BY DEF Subs
<1>0. PICK p \in Peers : p = conn.peer
  BY PeerIs DEF Subscribe
<1>1. /\ ~replaced /\ UNCHANGED <<store, key>> /\ todo = <<>> /\ conn \in Links
      /\ wish \in [Peers -> SUBSET Chars] /\ unsaved \in [Peers -> SUBSET Chars]
  BY DEF Subscribe, Linked, Ready, history, Typed, TypeOK, Links
<1>2. conn' = [conn EXCEPT !.flags = @ \cup {c}]
  BY DEF Subscribe
<1>3. conn'.peer = p /\ conn'.bonded = conn.bonded /\ conn'.flags = conn.flags \cup {c}
  BY <1>0, <1>1, <1>2 DEF Links
<1>4. Subscribed
  BY <1>1 DEF Subs
<1>5. CASE conn.bonded
  <2>1. todo' = <<Write("cccd", <<p, c>>)>> /\ UNCHANGED <<wish, unsaved>>
    BY <1>0, <1>5 DEF Subscribe
  <2>2. \A q : Sure(q)' = Sure(q) /\ (BondedNow(q)' <=> BondedNow(q))
    BY <1>1, <2>1 DEF Sure, BondedNow, store
  <2>3. Stored'
    BY <1>1, <1>4, <2>2 DEF Subscribed, Stored, store
  <2>4. Flagged'
    <3>1. Sure(p) \subseteq conn.flags
      BY <1>0, <1>4, <1>5 DEF Subscribed, Flagged
    <3>2. Sure(p)' \subseteq conn'.flags
      BY <1>3, <2>2, <3>1
    <3> QED BY <1>3, <3>2 DEF Flagged
  <2>5. \A t : Waits(t)' <=> t = Write("cccd", <<p, c>>)
    BY <2>1, EventWaits
  <2>6. Dropping' /\ Fresh'
    BY <2>5, TasksDiffer, SecsAre DEF Dropping, Fresh
  <2>7. Adding'
    <3> SUFFICES ASSUME NEW q, NEW d, Waits(Write("cccd", <<q, d>>))'
                 PROVE  conn'.bonded /\ q = conn'.peer /\ d \in conn'.flags
      BY DEF Adding
    <3>1. <<q, d>> = <<p, c>>
      BY <2>5, TasksDiffer
    <3>2. q = p /\ d = c
      BY <3>1
    <3> QED BY <1>3, <1>5, <3>2
  <2>8. Gone' /\ Sorted'
    <3>1. DOMAIN todo' = {1} /\ todo'[1] = Write("cccd", <<p, c>>)
      BY <2>1
    <3> QED BY <3>1, OpsAre, TasksDiffer DEF Gone, Sorted
  <2> QED BY <2>3, <2>4, <2>6, <2>7, <2>8 DEF Subscribed
<1>6. CASE ~conn.bonded
  <2>1. /\ todo' = todo
        /\ wish' = [wish EXCEPT ![p] = @ \cup {c}]
        /\ unsaved' = [unsaved EXCEPT ![p] =
                           IF <<p, c>> \in Range(ram["cccd"]) THEN @ ELSE @ \cup {c}]
    BY <1>0, <1>6 DEF Subscribe
  <2>2. \A q \in Peers \ {p} : Sure(q)' = Sure(q)
    BY <1>1, <2>1 DEF Sure
  <2>3. \A d \in Sure(p)' : d \in Sure(p) \/ <<p, d>> \in Range(ram["cccd"])
    <3>1. CASE <<p, c>> \in Range(ram["cccd"])
      BY <1>1, <2>1, <3>1 DEF Sure
    <3>2. CASE <<p, c>> \notin Range(ram["cccd"])
      BY <1>1, <2>1, <3>2 DEF Sure
    <3> QED BY <3>1, <3>2
  <2>4. Stored'
    <3> SUFFICES ASSUME NEW q \in Peers, BondedNow(q), NEW d \in Sure(q)'
                 PROVE  <<q, d>> \in Range(ram["cccd"])
      BY <1>1 DEF Stored, BondedNow, store
    <3>1. d \in Sure(q) \/ <<q, d>> \in Range(ram["cccd"])
      BY <2>2, <2>3
    <3> QED BY <1>4, <3>1 DEF Subscribed, Stored
  <2>5. Flagged'
    BY <1>3, <1>6 DEF Flagged
  <2>6. todo' = <<>>
    BY <1>1, <2>1
  <2> QED BY <2>4, <2>5, <2>6, NothingLeft DEF Subscribed
<1> QED BY <1>5, <1>6

LEMMA SubsUnsubscribe ==
    ASSUME Typed, Subs, NEW c \in Chars, Unsubscribe(c)
    PROVE  Subs'
<1> SUFFICES ASSUME ~replaced' PROVE Subscribed'
  BY DEF Subs
<1>0. PICK p \in Peers : p = conn.peer
  BY PeerIs DEF Unsubscribe
<1>1. /\ ~replaced /\ UNCHANGED <<store, key>> /\ todo = <<>> /\ conn \in Links
      /\ wish \in [Peers -> SUBSET Chars] /\ unsaved \in [Peers -> SUBSET Chars]
  BY DEF Unsubscribe, Linked, Ready, history, Typed, TypeOK, Links
<1>2. /\ conn' = [conn EXCEPT !.flags = @ \ {c}]
      /\ wish' = [wish EXCEPT ![p] = @ \ {c}]
      /\ unsaved' = [unsaved EXCEPT ![p] = @ \ {c}]
      /\ todo' = IF conn.bonded THEN <<DeleteCccd(p, c)>> ELSE todo
  BY <1>0 DEF Unsubscribe
<1>3. conn'.peer = p /\ conn'.bonded = conn.bonded /\ conn'.flags = conn.flags \ {c}
  BY <1>0, <1>1, <1>2 DEF Links
<1>4. Subscribed
  BY <1>1 DEF Subs
<1>5. conn.bonded => Sure(p) \subseteq conn.flags
  BY <1>0, <1>4 DEF Subscribed, Flagged
<1>6. Sure(p)' = Sure(p) \ {c} /\ \A q \in Peers \ {p} : Sure(q)' = Sure(q)
  BY <1>1, <1>2 DEF Sure
<1>7. Stored'
  <2>1. \A q \in Peers : Sure(q)' \subseteq Sure(q)
    BY <1>6
  <2> QED BY <1>1, <1>4, <2>1 DEF Subscribed, Stored, BondedNow, store
<1>8. Flagged'
  BY <1>3, <1>5, <1>6 DEF Flagged
<1>9. CASE conn.bonded
  <2>1. todo' = <<DeleteCccd(p, c)>>
    BY <1>2, <1>9
  <2>2. \A t : Waits(t)' <=> t = DeleteCccd(p, c)
    BY <2>1, EventWaits
  <2>3. Adding' /\ Fresh'
    BY <2>2, TasksDiffer DEF Adding, Fresh
  <2>4. Dropping'
    BY <1>6, <2>2, TasksDiffer DEF Dropping
  <2>5. Gone' /\ Sorted'
    <3>1. DOMAIN todo' = {1} /\ todo'[1] = DeleteCccd(p, c)
      BY <2>1
    <3> QED BY <3>1, OpsAre, TasksDiffer DEF Gone, Sorted
  <2> QED BY <1>7, <1>8, <2>3, <2>4, <2>5 DEF Subscribed
<1>10. CASE ~conn.bonded
  <2>1. todo' = <<>>
    BY <1>1, <1>2, <1>10
  <2> QED BY <1>7, <1>8, <2>1, NothingLeft DEF Subscribed
<1> QED BY <1>9, <1>10

\* The user comes between the steps of the store.
LEMMA SubsForget ==
    ASSUME Typed, Subs, NEW q \in Peers, Forget(q)
    PROVE  Subs'
<1> SUFFICES ASSUME ~replaced' PROVE Subscribed'
  BY DEF Subs
<1>1. /\ ~replaced /\ UNCHANGED <<store, conn, todo>> /\ conn.peer # q
      /\ key' = [key EXCEPT ![q] = NoKey]
      /\ wish' = [wish EXCEPT ![q] = {}] /\ unsaved' = [unsaved EXCEPT ![q] = {}]
  BY DEF Forget, history
<1>2. /\ key \in [Peers -> Keys \cup {NoKey}]
      /\ wish \in [Peers -> SUBSET Chars] /\ unsaved \in [Peers -> SUBSET Chars]
      /\ conn.bonded => conn.peer \in Peers
  BY DEF Typed, TypeOK, NoConn
<1>3. Subscribed
  BY <1>1 DEF Subs
<1>4. Sure(q)' = {} /\ \A p \in Peers \ {q} : Sure(p)' = Sure(p)
  BY <1>1, <1>2 DEF Sure
<1>5. ASSUME NEW p \in Peers, BondedNow(p)'
      PROVE  p # q /\ BondedNow(p)
  <2>1. ram' = ram
    BY <1>1 DEF store
  <2>2. CASE p = q
    <3>1. <<q, NoKey>> \in Range(ram["our"])
      BY <1>1, <1>2, <1>5, <2>1, <2>2 DEF BondedNow
    <3>2. Range(ram["our"]) \subseteq Records("our")
      <4>1. ram["our"] \in Seq(Records("our"))
        BY SecsAre DEF Typed, TypeOK
      <4> QED BY <4>1 DEF Range
    <3>3. NoKey \in Keys
      BY <3>1, <3>2, SecsAre DEF Records
    <3> QED BY <3>3, PairingsAssumption DEF NoKey, Keys
  <2>3. CASE p # q
    BY <1>1, <1>2, <1>5, <2>1, <2>3 DEF BondedNow
  <2> QED BY <2>2, <2>3
<1>6. Stored'
  BY <1>1, <1>3, <1>4, <1>5 DEF Subscribed, Stored, store
<1>7. Flagged'
  <2> SUFFICES ASSUME conn.bonded PROVE Sure(conn.peer)' \subseteq conn.flags
    BY <1>1 DEF Flagged
  <2>1. PICK p \in Peers \ {q} : p = conn.peer
    BY <1>1, <1>2
  <2>2. Sure(p)' = Sure(p) /\ Sure(p) \subseteq conn.flags
    BY <1>3, <1>4, <2>1 DEF Subscribed, Flagged
  <2>3. conn'.peer = p
    BY <1>1, <2>1
  <2> QED BY <2>2, <2>3
<1>8. \A t : Waits(t)' <=> Waits(t)
  BY <1>1 DEF Waits
<1>9. Dropping' /\ Adding' /\ Fresh'
  BY <1>1, <1>3, <1>4, <1>8 DEF Subscribed, Dropping, Adding, Fresh
<1>10. Gone' /\ Sorted'
  BY <1>1, <1>3, <1>5 DEF Subscribed, Gone, Sorted
<1> QED BY <1>6, <1>7, <1>9, <1>10 DEF Subscribed

LEMMA SubsSame == Subs /\ UNCHANGED vars => Subs'
BY DEF Subs, Subscribed, Stored, Flagged, Dropping, Adding, Fresh, Gone, Sorted, Waits, Sure,
       BondedNow, vars, store, hosts, history

LEMMA SubsStep == Typed /\ Mirrored /\ Subs /\ [Next]_vars => Subs'
<1> SUFFICES ASSUME Typed, Mirrored, Subs, [Next]_vars PROVE Subs'
  OBVIOUS
<1>1. CASE StoreStep
  BY <1>1, SubsWrite, SubsOverflow, SubsDelete DEF StoreStep
<1>2. CASE Disconnect \/ PairFails
  <2>1. UNCHANGED <<store, hosts, replaced>> /\ todo' = <<>>
    BY <1>2 DEF Disconnect, PairFails, Linked, Ready, history
  <2>2. conn \in Links
    BY DEF Typed, TypeOK, Links
  <2>3. \/ conn' = NoConn
        \/ conn'.bonded = conn.bonded /\ conn'.peer = conn.peer /\ conn'.flags = conn.flags
    BY <1>2, <2>2 DEF Disconnect, PairFails, Links
  <2> QED BY <2>1, <2>3, SubsLink
<1>3. CASE Encrypt
  BY <1>3, SubsEncrypt
<1>4. CASE PairRequest
  BY <1>4, SubsPairRequest
<1>5. CASE PairDone
  BY <1>5, SubsPairDone
<1>6. CASE \E p \in Peers : Connect(p) \/ Forget(p)
  BY <1>6, SubsConnect, SubsForget
<1>7. CASE \E c \in Chars : Subscribe(c) \/ Unsubscribe(c)
  BY <1>7, SubsSubscribe, SubsUnsubscribe
<1>8. CASE PowerCut
  BY <1>8, SubsPowerCut
<1>9. CASE UNCHANGED vars
  BY <1>9, SubsSame
<1> QED BY <1>1, <1>2, <1>3, <1>4, <1>5, <1>6, <1>7, <1>8, <1>9 DEF Next

LEMMA SubsInitial == Init => Subs
BY DEF Init, Subs, Subscribed, Stored, Flagged, Dropping, Adding, Fresh, Gone, Sorted, Waits, Sure,
       BondedNow, NoConn, Range, Kinds

\* On a bonded link the device notifies every characteristic its host counts on,
\* those of before a loss of power or of the bonds of other hosts included.
THEOREM SubscriptionsHold == Spec => []SubscriptionsKept
<1>1. Typed /\ Mirrored /\ Subs /\ [Next]_vars => (Typed /\ Mirrored /\ Subs)'
  BY TypedStep, MirroredStep, SubsStep
<1>2. Subs => SubscriptionsKept
  BY DEF Subs, Subscribed, Flagged, Sure, SubscriptionsKept
<1> QED BY <1>1, <1>2, TypedInitial, MirroredInitial, SubsInitial, PTL DEF Spec
=============================================================================
