--------------------------- MODULE ClipStore_proofs ---------------------------
(***************************************************************************)
(* Proofs about ClipStore for any contents, writers, collectors, caps and  *)
(* retention bounds: an entry loses its image only to a collection or an   *)
(* edit that it overlaps, and trimming drops neither pins nor an entry     *)
(* that is newer than one it keeps.                                        *)
(***************************************************************************)
EXTENDS ClipStore, FiniteSetTheorems, WellFoundedInduction, TLAPS

-----------------------------------------------------------------------------
(* Selections of a list *)

Upto(keep, i) == {j \in keep : j <= i}

\* Counting the indices up to one of them.
LEMMA CountUpto ==
  ASSUME NEW n \in Nat, NEW keep \in SUBSET (1 .. n)
  PROVE  /\ IsFiniteSet(keep) /\ Cardinality(keep) \in Nat
         /\ \A i \in Nat : /\ IsFiniteSet(Upto(keep, i))
                           /\ Cardinality(Upto(keep, i)) \in Nat
                           /\ Cardinality(Upto(keep, i)) <= Cardinality(keep)
  <1>1. IsFiniteSet(1 .. n)
    BY FS_Interval
  <1>2. IsFiniteSet(keep) /\ Cardinality(keep) \in Nat
    BY <1>1, FS_Subset, FS_CardinalityType
  <1>3. ASSUME NEW i \in Nat
        PROVE  /\ IsFiniteSet(Upto(keep, i)) /\ Cardinality(Upto(keep, i)) \in Nat
               /\ Cardinality(Upto(keep, i)) <= Cardinality(keep)
    <2>1. Upto(keep, i) \in SUBSET keep
      BY DEF Upto
    <2> QED
      BY <1>2, <2>1, FS_Subset, FS_CardinalityType
  <1> QED
    BY <1>2, <1>3

\* An index that is kept adds one to the count, any other adds nothing.
LEMMA CountNext ==
  ASSUME NEW n \in Nat, NEW keep \in SUBSET (1 .. n), NEW i \in 1 .. n
  PROVE  Cardinality(Upto(keep, i)) =
            Cardinality(Upto(keep, i - 1)) + (IF i \in keep THEN 1 ELSE 0)
  <1>0. \A j \in keep : j \in Nat /\ 1 <= j /\ j <= n
    OBVIOUS
  <1>1. IsFiniteSet(Upto(keep, i - 1)) /\ Cardinality(Upto(keep, i - 1)) \in Nat
    BY CountUpto, i - 1 \in Nat
  <1>2. CASE i \in keep
    <2>1. \A j \in keep : j <= i <=> j <= i - 1 \/ j = i
      BY <1>0
    <2>2. ~(i <= i - 1)
      OBVIOUS
    <2>3. Upto(keep, i) = Upto(keep, i - 1) \cup {i} /\ i \notin Upto(keep, i - 1)
      BY <1>2, <2>1, <2>2, Zenon DEF Upto
    <2> QED
      BY <1>1, <1>2, <2>3, FS_AddElement
  <1>3. CASE i \notin keep
    <2>1. \A j \in keep : j <= i <=> j <= i - 1
      BY <1>0, <1>3
    <2>2. Upto(keep, i) = Upto(keep, i - 1)
      BY <2>1, Zenon DEF Upto
    <2> QED
      BY <1>1, <1>3, <2>2
  <1> QED
    BY <1>2, <1>3

\* Of two indices the greater one, if it is kept, has the greater count.
LEMMA CountGrows ==
  ASSUME NEW n \in Nat, NEW keep \in SUBSET (1 .. n),
         NEW i \in Nat, NEW j \in keep, i < j
  PROVE  Cardinality(Upto(keep, i)) < Cardinality(Upto(keep, j))
  <1>0. \A k \in keep : k \in Nat /\ 1 <= k /\ k <= n
    OBVIOUS
  <1>1. j \in 1 .. n /\ j - 1 \in Nat
    OBVIOUS
  <1>2. /\ IsFiniteSet(Upto(keep, j - 1))
        /\ Cardinality(Upto(keep, j - 1)) \in Nat /\ Cardinality(Upto(keep, i)) \in Nat
    BY <1>1, CountUpto
  <1>3. Upto(keep, i) \in SUBSET Upto(keep, j - 1)
    <2>1. \A k \in keep : k <= i => k <= j - 1
      BY <1>0, <1>1
    <2> QED
      BY <2>1, Zenon DEF Upto
  <1>4. Cardinality(Upto(keep, i)) <= Cardinality(Upto(keep, j - 1))
    BY <1>2, <1>3, FS_Subset
  <1>5. Cardinality(Upto(keep, j)) = Cardinality(Upto(keep, j - 1)) + 1
    BY <1>1, CountNext
  <1> QED
    BY <1>2, <1>4, <1>5

\* Every number up to the size of keep is the count of one of its indices.
LEMMA CountReached ==
  ASSUME NEW n \in Nat, NEW keep \in SUBSET (1 .. n), NEW k \in 1 .. Cardinality(keep)
  PROVE  \E i \in keep : Cardinality(Upto(keep, i)) = k
  <1> DEFINE enough == {i \in 1 .. n : Cardinality(Upto(keep, i)) >= k}
             less == OpToRel(<, Nat)
  <1>0. \A j \in keep : j \in Nat /\ 1 <= j /\ j <= n
    OBVIOUS
  <1>1. Cardinality(keep) \in Nat /\ \A i \in Nat : Cardinality(Upto(keep, i)) \in Nat
    BY CountUpto
  <1>2. n \in 1 .. n
    <2>1. CASE n = 0
      <3>1. keep = {}
        BY <2>1
      <3>2. Cardinality(keep) = 0
        BY <3>1, FS_EmptySet
      <3> QED
        BY <3>2
    <2> QED
      BY <2>1
  <1>3. Upto(keep, n) = keep
    BY <1>0 DEF Upto
  <1>4. enough # {} /\ enough \in SUBSET Nat
    BY <1>1, <1>2, <1>3
  <1>5. PICK i \in enough : \A j \in enough : <<j, i>> \notin less
    <2> HIDE DEF enough, less
    <2>1. IsWellFoundedOn(less, Nat)
      BY NatLessThanWellFounded DEF less
    <2> QED
      BY <1>4, <2>1, WFMin
  <1>6. i \in 1 .. n /\ \A j \in enough : ~(j < i)
    BY <1>4, <1>5 DEF OpToRel
  <1>7. Cardinality(Upto(keep, i - 1)) < k
    <2>1. CASE i = 1
      <3>1. Upto(keep, i - 1) = {}
        <4>1. \A j \in keep : ~(j <= i - 1)
          BY <1>0, <2>1
        <4> QED
          BY <4>1, Zenon DEF Upto
      <3> QED
        BY <3>1, FS_EmptySet
    <2>2. CASE i # 1
      <3>1. i - 1 \in 1 .. n /\ i - 1 < i
        BY <1>6, <2>2
      <3>2. i - 1 \notin enough
        BY <1>6, <3>1
      <3> QED
        BY <1>1, <3>1, <3>2
    <2> QED
      BY <2>1, <2>2
  <1>8. Cardinality(Upto(keep, i)) >= k
    OBVIOUS
  <1>9. Cardinality(Upto(keep, i)) =
           Cardinality(Upto(keep, i - 1)) + (IF i \in keep THEN 1 ELSE 0)
    BY <1>6, CountNext
  <1>10. Cardinality(Upto(keep, i - 1)) \in Nat /\ Cardinality(Upto(keep, i)) \in Nat
    BY <1>1, <1>6
  <1> HIDE DEF enough
  <1>11. i \in keep /\ Cardinality(Upto(keep, i)) = k
    BY <1>7, <1>8, <1>9, <1>10
  <1> QED
    BY <1>11

\* The kept index with count k.
At(keep, k) == CHOOSE i \in keep : Cardinality(Upto(keep, i)) = k

\* The kept indices are enumerated from the first to the last one.
LEMMA AtOrder ==
  ASSUME NEW n \in Nat, NEW keep \in SUBSET (1 .. n)
  PROVE  /\ Cardinality(keep) \in Nat
         /\ \A k \in 1 .. Cardinality(keep) : At(keep, k) \in keep
         /\ \A k, l \in 1 .. Cardinality(keep) : k < l => At(keep, k) < At(keep, l)
         /\ \A i \in keep : \E k \in 1 .. Cardinality(keep) : At(keep, k) = i
  <1>0. \A j \in keep : j \in Nat /\ 1 <= j /\ j <= n
    OBVIOUS
  <1>1. Cardinality(keep) \in Nat
    BY CountUpto
  <1>2. ASSUME NEW k \in 1 .. Cardinality(keep)
        PROVE  At(keep, k) \in keep /\ Cardinality(Upto(keep, At(keep, k))) = k
    BY CountReached DEF At
  <1>3. ASSUME NEW k \in 1 .. Cardinality(keep), NEW l \in 1 .. Cardinality(keep), k < l
        PROVE  At(keep, k) < At(keep, l)
    <2>1. At(keep, k) \in keep /\ At(keep, l) \in keep
      BY <1>2
    <2>2. At(keep, k) \in Nat /\ At(keep, l) \in Nat
      BY <1>0, <2>1
    <2>3. /\ Cardinality(Upto(keep, At(keep, k))) = k
          /\ Cardinality(Upto(keep, At(keep, l))) = l
      BY <1>2
    <2>4. At(keep, l) < At(keep, k) => l < k
      BY <2>1, <2>2, <2>3, CountGrows
    <2> QED
      BY <1>1, <1>3, <2>2, <2>3, <2>4
  <1>4. ASSUME NEW i \in keep
        PROVE  \E k \in 1 .. Cardinality(keep) : At(keep, k) = i
    <2> DEFINE k == Cardinality(Upto(keep, i))
    <2>1. k \in Nat /\ k <= Cardinality(keep)
      BY <1>0, CountUpto
    <2>2. Cardinality(Upto(keep, 0)) < k
      <3>1. 0 \in Nat /\ 0 < i
        BY <1>0
      <3> QED
        BY <3>1, CountGrows
    <2>3. Upto(keep, 0) = {}
      <3>1. \A j \in keep : ~(j <= 0)
        BY <1>0
      <3> QED
        BY <3>1, Zenon DEF Upto
    <2>4. k \in 1 .. Cardinality(keep)
      BY <1>1, <2>1, <2>2, <2>3, FS_EmptySet
    <2>5. At(keep, k) \in keep /\ Cardinality(Upto(keep, At(keep, k))) = k
      BY <1>2, <2>4
    <2>6. ~(At(keep, k) < i) /\ ~(i < At(keep, k))
      <3>1. At(keep, k) \in Nat /\ i \in Nat
        BY <1>0, <2>5
      <3>2. At(keep, k) < i => k < k
        BY <2>5, <3>1, CountGrows
      <3>3. i < At(keep, k) => k < k
        BY <2>5, <3>1, CountGrows
      <3> QED
        BY <2>1, <3>2, <3>3
    <2>7. At(keep, k) = i
      <3>1. At(keep, k) \in Nat /\ i \in Nat
        BY <1>0, <2>5
      <3> HIDE DEF k
      <3> QED
        BY <2>6, <3>1
    <2> QED
      BY <2>4, <2>7
  <1> QED
    BY <1>1, <1>2, <1>3, <1>4

\* What a selection of a list holds, and in which order.
LEMMA PickIsOrdered ==
  ASSUME NEW S, NEW list \in Seq(S), NEW keep \in SUBSET (1 .. Len(list))
  PROVE  LET p == Pick(list, keep)
         IN  /\ p \in Seq(S)
             /\ \A k, l \in 1 .. Len(p) : k < l =>
                   \E i, j \in keep : i < j /\ p[k] = list[i] /\ p[l] = list[j]
             /\ \A k \in 1 .. Len(p) : \E i \in keep : p[k] = list[i]
             /\ \A i \in keep : \E k \in 1 .. Len(p) : p[k] = list[i]
             /\ 1 \in keep => 1 \in 1 .. Len(p) /\ p[1] = list[1]
  <1> DEFINE p == Pick(list, keep)
             c == Cardinality(keep)
  <1>1. Len(list) \in Nat
    OBVIOUS
  <1>2. c \in Nat
    BY <1>1, AtOrder
  <1>3. /\ \A k \in 1 .. c : At(keep, k) \in keep
        /\ \A k, l \in 1 .. c : k < l => At(keep, k) < At(keep, l)
        /\ \A i \in keep : \E k \in 1 .. c : At(keep, k) = i
    BY <1>1, AtOrder
  <1>4. p = [k \in 1 .. c |-> list[At(keep, k)]]
    BY DEF Pick, At, Upto
  <1>5. keep \subseteq 1 .. Len(list) /\ \A i \in 1 .. Len(list) : list[i] \in S
    OBVIOUS
  <1> HIDE DEF p, c
  <1>6. p \in Seq(S) /\ Len(p) = c
    <2>1. \A k \in 1 .. c : list[At(keep, k)] \in S
      BY <1>3, <1>5
    <2> QED
      BY <1>2, <1>4, <2>1
  <1>7. \A k \in 1 .. c : p[k] = list[At(keep, k)]
    BY <1>4
  <1>8. ASSUME 1 \in keep PROVE 1 \in 1 .. Len(p) /\ p[1] = list[1]
    <2>1. PICK k \in 1 .. c : At(keep, k) = 1
      BY <1>3, <1>8
    <2>2. 1 \in 1 .. c /\ (k # 1 => 1 < k)
      BY <1>2
    <2>3. At(keep, 1) \in keep /\ (k # 1 => At(keep, 1) < 1)
      BY <1>3, <2>1, <2>2
    <2>4. ~(At(keep, 1) < 1)
      <3>1. \A i \in 1 .. Len(list) : ~(i < 1)
        BY <1>1
      <3> QED
        BY <1>5, <2>3, <3>1
    <2> QED
      BY <1>6, <1>7, <2>1, <2>2, <2>3, <2>4
  <1>9. \A k, l \in 1 .. Len(p) : k < l =>
            \E i, j \in keep : i < j /\ p[k] = list[i] /\ p[l] = list[j]
    BY <1>3, <1>6, <1>7
  <1>10. \A k \in 1 .. Len(p) : \E i \in keep : p[k] = list[i]
    BY <1>3, <1>6, <1>7
  <1>11. \A i \in keep : \E k \in 1 .. Len(p) : p[k] = list[i]
    BY <1>3, <1>6, <1>7
  <1> QED
    BY <1>6, <1>8, <1>9, <1>10, <1>11 DEF p

\* What is kept stays in its order.
LEMMA PickKeepsOrder ==
  ASSUME NEW S, NEW list \in Seq(S), NEW keep \in SUBSET (1 .. Len(list)),
         NEW i \in keep, NEW j \in keep, i < j
  PROVE  LET p == Pick(list, keep)
         IN  \E k, l \in 1 .. Len(p) : k < l /\ p[k] = list[i] /\ p[l] = list[j]
  <1> DEFINE p == Pick(list, keep)
             c == Cardinality(keep)
  <1>1. Len(list) \in Nat /\ i \in Nat /\ j \in Nat
    OBVIOUS
  <1>2. p \in Seq(S)
    BY PickIsOrdered
  <1>3. /\ c \in Nat
        /\ \A k, l \in 1 .. c : k < l => At(keep, k) < At(keep, l)
        /\ \A h \in keep : \E k \in 1 .. c : At(keep, k) = h
    BY <1>1, AtOrder
  <1>4. p = [k \in 1 .. c |-> list[At(keep, k)]]
    BY DEF Pick, At, Upto
  <1> HIDE DEF p, c
  <1>5. Len(p) = c /\ \A k \in 1 .. c : p[k] = list[At(keep, k)]
    BY <1>2, <1>3, <1>4
  <1>6. PICK k \in 1 .. c, l \in 1 .. c : At(keep, k) = i /\ At(keep, l) = j
    BY <1>3
  <1>7. k # l /\ ~(l < k)
    BY <1>1, <1>3, <1>6
  <1>8. k < l
    BY <1>3, <1>7
  <1> QED
    BY <1>5, <1>6, <1>8 DEF p

-----------------------------------------------------------------------------
(* Histories and image directories *)

\* Histories: one entry per content, and paths of images only.
History ==
    {list \in Seq(Entry) :
        /\ \A i, j \in 1 .. Len(list) : list[i].of = list[j].of => i = j
        /\ \A i \in 1 .. Len(list) : list[i].image => list[i].of \in Images}

\* Directories: one file per image.
Directory ==
    {list \in Seq(Images) : \A i, j \in 1 .. Len(list) : list[i] = list[j] => i = j}

\* A selection of a history is one, and refers to no other image.
LEMMA PickHistory ==
  ASSUME NEW list \in History, NEW keep \in SUBSET (1 .. Len(list))
  PROVE  /\ Pick(list, keep) \in History
         /\ ReferencedImages(Pick(list, keep)) \subseteq ReferencedImages(list)
  <1> DEFINE p == Pick(list, keep)
  <1>1. list \in Seq(Entry) /\ keep \subseteq 1 .. Len(list) /\ Len(list) \in Nat
    BY DEF History
  <1>2. /\ p \in Seq(Entry)
        /\ \A k, l \in 1 .. Len(p) : k < l =>
              \E i, j \in keep : i < j /\ p[k] = list[i] /\ p[l] = list[j]
        /\ \A k \in 1 .. Len(p) : \E i \in keep : p[k] = list[i]
    BY <1>1, PickIsOrdered
  <1> HIDE DEF p
  <1>3. ASSUME NEW k \in 1 .. Len(p), NEW l \in 1 .. Len(p), p[k].of = p[l].of
        PROVE  k = l
    <2>1. ASSUME NEW a \in 1 .. Len(p), NEW b \in 1 .. Len(p), a < b
          PROVE  p[a].of # p[b].of
      <3>1. PICK i \in keep, j \in keep : i < j /\ p[a] = list[i] /\ p[b] = list[j]
        BY <1>2, <2>1
      <3>2. i \in 1 .. Len(list) /\ j \in 1 .. Len(list) /\ i # j
        BY <1>1, <3>1
      <3> QED
        BY <3>1, <3>2 DEF History
    <2>2. ~(k < l) /\ ~(l < k)
      BY <1>3, <2>1
    <2> QED
      BY <1>2, <2>2
  <1>4. \A k \in 1 .. Len(p) : p[k].image => p[k].of \in Images
    BY <1>1, <1>2 DEF History
  <1>5. \A k \in 1 .. Len(p) : \E i \in 1 .. Len(list) : p[k] = list[i]
    BY <1>1, <1>2
  <1>6. ReferencedImages(p) \subseteq ReferencedImages(list)
    BY <1>5 DEF ReferencedImages, Elements
  <1>7. p \in History
    BY <1>2, <1>3, <1>4 DEF History
  <1> QED
    BY <1>6, <1>7 DEF p

\* A selection of a directory is one.
LEMMA PickDirectory ==
  ASSUME NEW list \in Directory, NEW keep \in SUBSET (1 .. Len(list))
  PROVE  /\ Pick(list, keep) \in Directory
         /\ Elements(Pick(list, keep)) = {list[i] : i \in keep}
  <1> DEFINE p == Pick(list, keep)
  <1>1. list \in Seq(Images) /\ keep \subseteq 1 .. Len(list) /\ Len(list) \in Nat
    BY DEF Directory
  <1>2. /\ p \in Seq(Images)
        /\ \A k, l \in 1 .. Len(p) : k < l =>
              \E i, j \in keep : i < j /\ p[k] = list[i] /\ p[l] = list[j]
        /\ \A k \in 1 .. Len(p) : \E i \in keep : p[k] = list[i]
        /\ \A i \in keep : \E k \in 1 .. Len(p) : p[k] = list[i]
    BY <1>1, PickIsOrdered
  <1> HIDE DEF p
  <1>3. ASSUME NEW k \in 1 .. Len(p), NEW l \in 1 .. Len(p), p[k] = p[l]
        PROVE  k = l
    <2>1. ASSUME NEW a \in 1 .. Len(p), NEW b \in 1 .. Len(p), a < b
          PROVE  p[a] # p[b]
      <3>1. PICK i \in keep, j \in keep : i < j /\ p[a] = list[i] /\ p[b] = list[j]
        BY <1>2, <2>1
      <3>2. i \in 1 .. Len(list) /\ j \in 1 .. Len(list) /\ i # j
        BY <1>1, <3>1
      <3> QED
        BY <3>1, <3>2 DEF Directory
    <2>2. ~(k < l) /\ ~(l < k)
      BY <1>3, <2>1
    <2> QED
      BY <1>2, <2>2
  <1>4. Elements(p) = {list[i] : i \in keep}
    <2>1. ASSUME NEW x \in Elements(p) PROVE x \in {list[i] : i \in keep}
      <3>1. PICK k \in 1 .. Len(p) : x = p[k]
        BY DEF Elements
      <3> QED
        BY <1>2, <3>1
    <2>2. ASSUME NEW i \in keep PROVE list[i] \in Elements(p)
      <3>1. PICK k \in 1 .. Len(p) : p[k] = list[i]
        BY <1>2
      <3> QED
        BY <3>1 DEF Elements
    <2> QED
      BY <2>1, <2>2
  <1>5. p \in Directory
    BY <1>2, <1>3 DEF Directory
  <1> QED
    BY <1>4, <1>5 DEF p

\* What was in a directory is what stays and what is taken out.
LEMMA WithoutFiles ==
  ASSUME NEW list \in Directory, NEW set
  PROVE  /\ Without(list, set) \in Directory
         /\ Elements(Without(list, set)) = Elements(list) \ set
  <1> DEFINE keep == {i \in 1 .. Len(list) : list[i] \notin set}
  <1>1. keep \in SUBSET (1 .. Len(list)) /\ Without(list, set) = Pick(list, keep)
    BY DEF Without
  <1>2. {list[i] : i \in keep} = Elements(list) \ set
    BY DEF Elements
  <1> HIDE DEF keep
  <1> QED
    BY <1>1, <1>2, PickDirectory

\* A new file makes a directory of a directory.
LEMMA AppendFile ==
  ASSUME NEW list \in Directory, NEW x \in Images, x \notin Elements(list)
  PROVE  /\ Append(list, x) \in Directory
         /\ Elements(Append(list, x)) = Elements(list) \cup {x}
  <1> DEFINE new == Append(list, x)
  <1>1. list \in Seq(Images) /\ Len(list) \in Nat
    BY DEF Directory
  <1>2. /\ new \in Seq(Images) /\ Len(new) = Len(list) + 1
        /\ \A i \in 1 .. Len(list) : new[i] = list[i]
        /\ new[Len(list) + 1] = x
    BY <1>1
  <1>3. \A i \in 1 .. Len(list) : list[i] # x
    BY DEF Elements
  <1> HIDE DEF new
  <1>4. ASSUME NEW i \in 1 .. Len(new), NEW j \in 1 .. Len(new), new[i] = new[j]
        PROVE  i = j
    BY <1>1, <1>2, <1>3, <1>4 DEF Directory
  <1>5. ASSUME NEW y
        PROVE  y \in Elements(new) <=> y \in Elements(list) \/ y = x
    <2>1. (\E i \in 1 .. Len(new) : y = new[i]) <=>
             (\E i \in 1 .. Len(list) : y = list[i]) \/ y = x
      BY <1>1, <1>2
    <2> QED
      BY <2>1 DEF Elements
  <1>6. new \in Directory
    BY <1>2, <1>4 DEF Directory
  <1> QED
    BY <1>5, <1>6 DEF new

\* The images a history refers to.
LEMMA References ==
  ASSUME NEW list \in History
  PROVE  /\ ReferencedImages(list) \subseteq Images
         /\ \A x : x \in ReferencedImages(list) <=>
                      \E i \in 1 .. Len(list) : list[i].image /\ list[i].of = x
  BY DEF History, ReferencedImages, Elements

-----------------------------------------------------------------------------
(* The inductive invariant *)

\* The images whose loss is accounted for.
Lost == overtaken \cup blinded

\* A writer that saves has an image and no path yet.  One that records has a
\* content and, with a path, an image whose file is there or is known to be lost.
WriterInv ==
    \A w \in Writer :
        /\ pc[w] = "save" => arg[w] \in Images /\ ~saved[w]
        /\ pc[w] = "append" =>
              /\ arg[w] \in Content
              /\ saved[w] => arg[w] \in Images /\ arg[w] \in Elements(files) \cup Lost

\* One entry per content and one file per image; a path in the history leads to
\* a file that is there or is known to be lost.
ListInv ==
    /\ hist \in History /\ files \in Directory
    /\ ReferencedImages(hist) \subseteq Elements(files) \cup Lost

OtherTypes ==
    /\ cap \in Caps /\ resized \in BOOLEAN
    /\ pc \in [Writer -> {"idle", "save", "append"}]
    /\ arg \in [Writer -> Content \cup {NoContent}]
    /\ saved \in [Writer -> BOOLEAN]
    /\ gc \in [Collector -> Collection]
    /\ ops \in 0 .. MaxOp
    /\ overtaken \subseteq Images /\ blinded \subseteq Images

StoreInv == ListInv /\ WriterInv /\ OtherTypes

\* An empty store has nothing to lose.
LEMMA StoreInit == Init => StoreInv
  <1> SUFFICES ASSUME Init PROVE StoreInv
    OBVIOUS
  <1>1. hist \in History /\ files \in Directory /\ ReferencedImages(hist) = {}
    BY DEF Init, History, Directory, ReferencedImages, Elements
  <1>2. WriterInv
    BY DEF Init, WriterInv
  <1>3. OtherTypes
    <2>1. NoCollection \in Collection
      BY DEF NoCollection, Collection
    <2>2. gc \in [Collector -> Collection] /\ saved \in [Writer -> BOOLEAN]
      BY <2>1 DEF Init
    <2>3. ops \in 0 .. MaxOp /\ overtaken \subseteq Images /\ blinded \subseteq Images
      BY StoreAssumption DEF Init
    <2>4. /\ pc \in [Writer -> {"idle", "save", "append"}]
          /\ arg \in [Writer -> Content \cup {NoContent}]
      BY DEF Init
    <2> QED
      BY <2>2, <2>3, <2>4 DEF Init, OtherTypes
  <1> QED
    BY <1>1, <1>2, <1>3 DEF StoreInv, ListInv

-----------------------------------------------------------------------------
(* Steps *)

\* A clip is taken up, and its image is there or cannot be saved.
LEMMA BeginStep ==
  ASSUME StoreInv, NEW w \in Writer,
         (\E c \in Content : Record(w, c)) \/ ImageExists(w) \/ SaveFails(w)
  PROVE  StoreInv'
  <1> USE DEF StoreInv
  <1>1. ASSUME NEW c \in Content, Record(w, c) PROVE StoreInv'
    <2>1. ListInv'
      BY <1>1 DEF Record, ListInv, ReferencedImages, Elements, Lost
    <2>2. WriterInv'
      BY <1>1 DEF Record, WriterInv, OtherTypes, Elements, Content, Lost
    <2>3. OtherTypes'
      BY <1>1, StoreAssumption DEF Record, OtherTypes, Op
    <2> QED
      BY <2>1, <2>2, <2>3
  <1>2. ASSUME ImageExists(w) PROVE StoreInv'
    <2>1. ListInv'
      BY <1>2 DEF ImageExists, ListInv, ReferencedImages, Elements, Lost
    <2>2. WriterInv'
      BY <1>2 DEF ImageExists, WriterInv, OtherTypes, Elements, Content, Lost
    <2>3. OtherTypes'
      BY <1>2 DEF ImageExists, OtherTypes
    <2> QED
      BY <2>1, <2>2, <2>3
  <1>3. ASSUME SaveFails(w) PROVE StoreInv'
    <2>1. ListInv'
      BY <1>3 DEF SaveFails, ListInv, ReferencedImages, Elements, Lost
    <2>2. WriterInv'
      BY <1>3 DEF SaveFails, WriterInv, OtherTypes, Elements, Content, Lost
    <2>3. OtherTypes'
      BY <1>3 DEF SaveFails, OtherTypes
    <2> QED
      BY <2>1, <2>2, <2>3
  <1> QED
    BY <1>1, <1>2, <1>3

\* A new image is there when its writer goes on.
LEMMA SaveStep ==
  ASSUME StoreInv, NEW w \in Writer, SaveImage(w)
  PROVE  StoreInv'
  <1>1. arg[w] \in Images /\ files \in Directory /\ arg[w] \notin Elements(files)
    BY DEF StoreInv, ListInv, WriterInv, SaveImage
  <1>2. files' \in Directory /\ Elements(files)' = Elements(files) \cup {arg[w]}
    <2>1. Elements(files)' = Elements(files')
      BY DEF Elements
    <2> QED
      BY <1>1, <2>1, AppendFile DEF SaveImage
  <1>3. /\ overtaken' = overtaken \ {arg[w]} /\ blinded' = blinded \ {arg[w]}
        /\ Elements(files) \cup Lost \subseteq Elements(files)' \cup Lost'
    BY <1>2 DEF SaveImage, Lost
  <1>4. ListInv'
    <2>1. ReferencedImages(hist)' = ReferencedImages(hist) /\ hist' = hist
      BY DEF SaveImage, ReferencedImages, Elements
    <2> QED
      BY <1>2, <1>3, <2>1 DEF StoreInv, ListInv
  <1>5. WriterInv'
    <2> SUFFICES ASSUME NEW v \in Writer
                 PROVE  /\ pc'[v] = "save" => arg'[v] \in Images /\ ~saved'[v]
                        /\ pc'[v] = "append" =>
                              /\ arg'[v] \in Content
                              /\ saved'[v] => /\ arg'[v] \in Images
                                              /\ arg'[v] \in Elements(files)' \cup Lost'
      BY DEF WriterInv
    <2>1. CASE v = w
      BY <1>1, <1>2, <2>1 DEF SaveImage, StoreInv, OtherTypes, Content
    <2>2. CASE v # w
      <3>1. pc'[v] = pc[v] /\ arg'[v] = arg[v] /\ saved'[v] = saved[v]
        BY <2>2 DEF SaveImage, StoreInv, OtherTypes
      <3> QED
        BY <1>3, <3>1 DEF StoreInv, WriterInv
    <2> QED
      BY <2>1, <2>2
  <1>6. OtherTypes'
    <2>1. PICK g \in Collector : gc' = [gc EXCEPT ![g].at = "list"]
      BY DEF SaveImage
    <2>2. gc' \in [Collector -> Collection]
      <3>1. gc \in [Collector -> Collection] /\ gc[g] \in Collection
        BY DEF StoreInv, OtherTypes
      <3>2. [gc[g] EXCEPT !.at = "list"] \in Collection
        BY <3>1 DEF Collection
      <3> QED
        BY <2>1, <3>1, <3>2
    <2>3. overtaken' \subseteq Images /\ blinded' \subseteq Images
      BY <1>3 DEF StoreInv, OtherTypes
    <2> QED
      BY <2>2, <2>3 DEF SaveImage, StoreInv, OtherTypes
  <1> QED
    BY <1>4, <1>5, <1>6 DEF StoreInv

\* What AppendHistory is about to trim is a history, and its only new path is
\* the writer's.
LEMMA NewList ==
  ASSUME StoreInv, NEW w \in Writer, pc[w] = "append"
  PROVE  /\ <<NewEntry(w)>> \o Others(w) \in History
         /\ ReferencedImages(<<NewEntry(w)>> \o Others(w)) \subseteq
               Elements(files) \cup Lost
  <1> DEFINE keep == {i \in 1 .. Len(hist) : hist[i].of # arg[w]}
             rest == Others(w)
             e == NewEntry(w)
             list == <<e>> \o rest
  <1>1. hist \in History /\ keep \in SUBSET (1 .. Len(hist)) /\ rest = Pick(hist, keep)
    BY DEF StoreInv, ListInv, Others
  <1>2. hist \in Seq(Entry) /\ keep \in SUBSET (1 .. Len(hist))
    BY <1>1 DEF History
  <1>3. rest \in History /\ ReferencedImages(rest) \subseteq ReferencedImages(hist)
    BY <1>1, PickHistory
  <1>4. \A k \in 1 .. Len(rest) : rest[k].of # arg[w]
    <2>1. \A k \in 1 .. Len(rest) : \E i \in keep : rest[k] = hist[i]
      <3> HIDE DEF keep, rest
      <3>1. LET p == Pick(hist, keep)
            IN  \A k \in 1 .. Len(p) : \E i \in keep : p[k] = hist[i]
        BY <1>2, PickIsOrdered
      <3> QED
        BY <1>1, <3>1
    <2> QED
      BY <2>1
  <1>5. e \in Entry /\ e.of = arg[w] /\ (e.image <=> saved[w])
    BY DEF NewEntry, Entry, StoreInv, WriterInv, OtherTypes
  <1>6. rest \in Seq(Entry) /\ Len(rest) \in Nat
    BY <1>3 DEF History
  <1> HIDE DEF rest, e, keep
  <1>7. /\ list \in Seq(Entry) /\ Len(list) = Len(rest) + 1 /\ list[1] = e
        /\ \A k \in 2 .. Len(list) : k - 1 \in 1 .. Len(rest) /\ list[k] = rest[k - 1]
    BY <1>5, <1>6
  <1>8. ASSUME NEW i \in 1 .. Len(list), NEW j \in 1 .. Len(list), list[i].of = list[j].of
        PROVE  i = j
    <2>1. CASE i = 1 /\ j # 1
      <3>1. j \in 2 .. Len(list)
        BY <1>6, <1>7, <2>1
      <3> QED
        BY <1>4, <1>5, <1>7, <1>8, <2>1, <3>1
    <2>2. CASE i # 1 /\ j = 1
      <3>1. i \in 2 .. Len(list)
        BY <1>6, <1>7, <2>2
      <3> QED
        BY <1>4, <1>5, <1>7, <1>8, <2>2, <3>1
    <2>3. CASE i # 1 /\ j # 1
      <3>1. i \in 2 .. Len(list) /\ j \in 2 .. Len(list)
        BY <1>6, <1>7, <2>3
      <3>2. rest[i - 1].of = rest[j - 1].of
        BY <1>7, <1>8, <3>1
      <3>3. i - 1 = j - 1
        BY <1>3, <1>7, <3>1, <3>2 DEF History
      <3> QED
        BY <3>1, <3>3
    <2> QED
      BY <2>1, <2>2, <2>3
  <1>9. ASSUME NEW i \in 1 .. Len(list), list[i].image
        PROVE  list[i].of \in Images /\ list[i].of \in Elements(files) \cup Lost
    <2>1. CASE i = 1
      BY <1>5, <1>7, <1>9, <2>1 DEF StoreInv, WriterInv
    <2>2. CASE i # 1
      <3>1. i \in 2 .. Len(list)
        BY <1>6, <1>7, <2>2
      <3>2. i - 1 \in 1 .. Len(rest) /\ rest[i - 1].image /\ list[i].of = rest[i - 1].of
        BY <1>7, <1>9, <3>1
      <3>3. rest[i - 1].of \in ReferencedImages(rest)
        BY <1>3, <3>2, References
      <3> QED
        BY <1>1, <1>3, <3>2, <3>3, References DEF StoreInv, ListInv
    <2> QED
      BY <2>1, <2>2
  <1>10. list \in History
    BY <1>7, <1>8, <1>9 DEF History
  <1> HIDE DEF list
  <1>11. ReferencedImages(list) \subseteq Elements(files) \cup Lost
    BY <1>9, <1>10, References
  <1> QED
    BY <1>10, <1>11 DEF list, e, rest

\* Trimming a history leaves a history.
LEMMA TrimHistory ==
  ASSUME NEW list \in History, NEW max
  PROVE  /\ CapTrim(list, max) \in History
         /\ ReferencedImages(CapTrim(list, max)) \subseteq ReferencedImages(list)
  <1> DEFINE keep == {i \in 1 .. Len(list) :
                         list[i].pinned \/ NewerUnpinned(list, i) + Pinned(list) < max}
  <1>1. keep \in SUBSET (1 .. Len(list)) /\ CapTrim(list, max) = Pick(list, keep)
    BY DEF CapTrim
  <1> HIDE DEF keep
  <1> QED
    BY <1>1, PickHistory

\* A step that only changes the history, to one without new paths.
LEMMA HistoryStep ==
  ASSUME StoreInv, hist' \in History,
         ReferencedImages(hist') \subseteq Elements(files) \cup Lost,
         UNCHANGED <<files, overtaken, blinded>>
  PROVE  ListInv'
  <1>1. /\ ReferencedImages(hist)' = ReferencedImages(hist') /\ Elements(files)' = Elements(files)
        /\ Lost' = Lost
    BY DEF ReferencedImages, Elements, Lost
  <1> QED
    BY <1>1 DEF StoreInv, ListInv

\* A clip that cannot be recorded is dropped.
LEMMA AppendFailsStep ==
  ASSUME StoreInv, NEW w \in Writer, AppendFails(w)
  PROVE  StoreInv'
  <1> USE DEF StoreInv, AppendFails
  <1>1. ListInv'
    BY DEF ListInv, ReferencedImages, Elements, Lost
  <1>2. WriterInv'
    BY DEF WriterInv, OtherTypes, Elements, Lost
  <1>3. OtherTypes'
    BY DEF OtherTypes
  <1> QED
    BY <1>1, <1>2, <1>3

\* The clip is recorded and the history is trimmed.
LEMMA AppendStep ==
  ASSUME StoreInv, NEW w \in Writer, AppendHistory(w)
  PROVE  StoreInv'
  <1>1. pc[w] = "append" /\ hist' = CapTrim(<<NewEntry(w)>> \o Others(w), cap)
    BY DEF AppendHistory
  <1>2. /\ hist' \in History
        /\ ReferencedImages(hist') \subseteq Elements(files) \cup Lost
    BY <1>1, NewList, TrimHistory
  <1>3. ListInv'
    BY <1>2, HistoryStep DEF AppendHistory
  <1>4. WriterInv'
    BY DEF AppendHistory, StoreInv, WriterInv, OtherTypes, Elements, Lost
  <1>5. OtherTypes'
    BY DEF AppendHistory, StoreInv, OtherTypes
  <1> QED
    BY <1>3, <1>4, <1>5 DEF StoreInv

\* Recap, setMaxHistory and pins touch no file.
LEMMA QuietEditStep ==
  ASSUME StoreInv,
         \/ Recap \/ \E n \in Caps : SetMaxHistory(n)
         \/ \E c \in Content, flag \in BOOLEAN : SetPinned(c, flag)
  PROVE  StoreInv'
  <1>1. hist \in History
    BY DEF StoreInv, ListInv
  <1>2. hist' \in History /\ ReferencedImages(hist') \subseteq ReferencedImages(hist)
    <2>1. CASE Recap
      BY <1>1, <2>1, TrimHistory DEF Recap
    <2>2. CASE \E n \in Caps : SetMaxHistory(n)
      BY <1>1, <2>2 DEF SetMaxHistory
    <2>3. ASSUME NEW c \in Content, NEW flag \in BOOLEAN, SetPinned(c, flag)
          PROVE  hist' \in History /\ ReferencedImages(hist') \subseteq ReferencedImages(hist)
      <3>1. hist \in Seq(Entry) /\ Len(hist) \in Nat
        BY <1>1 DEF History
      <3>2. \A i \in 1 .. Len(hist) : hist[i] \in Entry
        BY <3>1
      <3>3. /\ hist' \in Seq(Entry) /\ Len(hist') = Len(hist)
            /\ \A i \in 1 .. Len(hist) : /\ hist'[i].of = hist[i].of
                                         /\ hist'[i].image = hist[i].image
        <4> DEFINE f(i) == IF hist[i].of = c THEN [hist[i] EXCEPT !.pinned = flag] ELSE hist[i]
        <4>1. \A i \in 1 .. Len(hist) :
                 f(i) \in Entry /\ f(i).of = hist[i].of /\ f(i).image = hist[i].image
          BY <3>2 DEF Entry
        <4>2. hist' = [i \in 1 .. Len(hist) |-> f(i)]
          BY <2>3 DEF SetPinned
        <4> HIDE DEF f
        <4> QED
          BY <3>1, <4>1, <4>2
      <3>4. hist' \in History
        BY <1>1, <3>3 DEF History
      <3> QED
        BY <1>1, <3>3, <3>4, References
    <2> QED
      BY <2>1, <2>2, <2>3
  <1>3. UNCHANGED <<files, pc, arg, saved, gc, overtaken, blinded>>
    BY DEF Recap, SetMaxHistory, SetPinned
  <1>4. ListInv'
    BY <1>2, <1>3, HistoryStep DEF StoreInv, ListInv
  <1>5. WriterInv'
    BY <1>3 DEF StoreInv, WriterInv, Elements, Lost
  <1>6. OtherTypes'
    <2>1. cap' \in Caps /\ resized' \in BOOLEAN
      BY DEF Recap, SetMaxHistory, SetPinned, StoreInv, OtherTypes
    <2>2. ops' \in 0 .. MaxOp
      BY StoreAssumption DEF Recap, SetMaxHistory, SetPinned, Op, StoreInv, OtherTypes
    <2> QED
      BY <1>3, <2>1, <2>2 DEF StoreInv, OtherTypes
  <1> QED
    BY <1>4, <1>5, <1>6 DEF StoreInv

\* Files are taken away: those in the history stay or are marked, and so do
\* those that a writer has in hand.
LEMMA RemoveFiles ==
  ASSUME StoreInv, NEW gone \in SUBSET Images,
         files' = Without(files, gone),
         hist' \in History,
         ReferencedImages(hist') \subseteq ReferencedImages(hist),
         Lost \subseteq Lost',
         \A x \in gone : x \in ReferencedImages(hist') \/ InHand(x) => x \in Lost',
         UNCHANGED <<pc, arg, saved>>
  PROVE  ListInv' /\ WriterInv'
  <1>1. files' \in Directory /\ Elements(files') = Elements(files) \ gone
    BY WithoutFiles DEF StoreInv, ListInv
  <1>2. /\ ReferencedImages(hist)' = ReferencedImages(hist')
        /\ Elements(files)' = Elements(files')
    BY DEF ReferencedImages, Elements
  <1>3. ListInv'
    <2>1. \A x \in ReferencedImages(hist') : x \in Elements(files') \cup Lost'
      BY <1>1 DEF StoreInv, ListInv
    <2> QED
      BY <1>1, <1>2, <2>1 DEF ListInv
  <1>4. WriterInv'
    <2> SUFFICES ASSUME NEW w \in Writer, pc[w] = "append", saved[w]
                 PROVE  arg[w] \in Elements(files') \cup Lost'
      BY <1>2 DEF StoreInv, WriterInv
    <2>1. InHand(arg[w])
      BY DEF InHand
    <2>2. arg[w] \in Elements(files) \cup Lost
      BY DEF StoreInv, WriterInv
    <2> QED
      BY <1>1, <2>1, <2>2
  <1> QED
    BY <1>3, <1>4

\* Deleting an entry and clearing the others: the images that go are in no entry
\* that stays.
LEMMA DeleteStep ==
  ASSUME StoreInv, ClearUnpinned \/ \E c \in Content : DeleteEntry(c)
  PROVE  StoreInv'
  <1>1. PICK keep \in SUBSET (1 .. Len(hist)) : KeepOnly(Pick(hist, keep))
    <2>1. CASE ClearUnpinned
      BY <2>1 DEF ClearUnpinned
    <2>2. CASE \E c \in Content : DeleteEntry(c)
      BY <2>2 DEF DeleteEntry
    <2> QED
      BY <2>1, <2>2
  <1> DEFINE kept == Pick(hist, keep)
             loose == (ReferencedImages(hist) \ ReferencedImages(kept)) \cap Elements(files)
  <1>2. hist \in History
    BY DEF StoreInv, ListInv
  <1>3. kept \in History /\ ReferencedImages(kept) \subseteq ReferencedImages(hist)
    BY <1>2, PickHistory
  <1>4. loose \in SUBSET Images
    BY <1>2, References
  <1>5. PICK gone \in SUBSET loose :
           /\ hist' = kept /\ files' = Without(files, gone)
           /\ overtaken' = overtaken \cup {x \in gone : InHand(x)}
    BY <1>1 DEF KeepOnly
  <1>6. UNCHANGED <<cap, resized, pc, arg, saved, gc, blinded>> /\ ops' \in 0 .. MaxOp
    <2>1. UNCHANGED <<cap, resized, pc, arg, saved, gc, blinded>> /\ Op
      BY DEF ClearUnpinned, DeleteEntry
    <2> QED
      BY <2>1, StoreAssumption DEF Op, StoreInv, OtherTypes
  <1>7. \A x \in gone : x \notin ReferencedImages(kept)
    OBVIOUS
  <1> HIDE DEF kept, loose
  <1>8. overtaken' \in SUBSET Images /\ Lost \subseteq Lost'
    BY <1>4, <1>5, <1>6 DEF StoreInv, OtherTypes, Lost
  <1>9. ListInv' /\ WriterInv'
    <2>1. gone \in SUBSET Images
      BY <1>4
    <2>2. \A x \in gone : x \in ReferencedImages(hist') \/ InHand(x) => x \in Lost'
      BY <1>5, <1>7 DEF Lost
    <2> QED
      BY <1>3, <1>5, <1>6, <1>8, <2>1, <2>2, RemoveFiles
  <1>10. OtherTypes'
    BY <1>6, <1>8 DEF StoreInv, OtherTypes
  <1> QED
    BY <1>9, <1>10 DEF StoreInv

\* A collector looks.
LEMMA LookStep ==
  ASSUME StoreInv, NEW g \in Collector, GcList(g) \/ GcReferenced(g) \/ GcStat(g)
  PROVE  StoreInv'
  <1>1. UNCHANGED <<hist, files, cap, resized, pc, arg, saved, ops, overtaken, blinded>>
    BY DEF GcList, GcReferenced, GcStat
  <1>2. ListInv' /\ WriterInv'
    BY <1>1 DEF StoreInv, ListInv, WriterInv, ReferencedImages, Elements, Lost
  <1>3. gc[g] \in Collection
    BY DEF StoreInv, OtherTypes
  <1>4. hist \in History /\ files \in Directory /\ files \in Seq(Images)
    BY DEF StoreInv, ListInv, Directory
  <1>5. gc' \in [Collector -> Collection]
    <2>1. CASE GcList(g)
      <3>1. NoCollection \in Collection
        BY DEF NoCollection, Collection
      <3>2. [gc[g] EXCEPT !.at = "refs", !.all = files] \in Collection
        BY <1>3, <1>4 DEF Collection
      <3>3. \E c \in Collection : gc' = [gc EXCEPT ![g] = c]
        BY <2>1, <3>1, <3>2 DEF GcList
      <3> QED
        BY <3>3 DEF StoreInv, OtherTypes
    <2>2. CASE GcReferenced(g)
      <3>1. ReferencedImages(hist) \subseteq Images
        BY <1>4, References
      <3>2. PICK blind \in BOOLEAN :
               gc' = [gc EXCEPT ![g].at = "stat", ![g].blind = blind,
                                ![g].referenced = IF blind THEN {} ELSE ReferencedImages(hist)]
        BY <2>2 DEF GcReferenced
      <3>3. (IF blind THEN {} ELSE ReferencedImages(hist)) \in SUBSET Images
        BY <3>1
      <3> QED
        BY <1>3, <3>2, <3>3 DEF Collection, StoreInv, OtherTypes
    <2>3. CASE GcStat(g)
      <3> DEFINE keep == {i \in 1 .. Len(files) : files[i] \in Elements(gc[g].all)}
                 all == Pick(files, keep)
                 found == [at |-> "remove", all |-> all, referenced |-> gc[g].referenced,
                           blind |-> gc[g].blind, toRemove |-> Len(all) - Bound]
      <3>1. keep \in SUBSET (1 .. Len(files))
        OBVIOUS
      <3>2. all \in Seq(Images)
        BY <1>4, <3>1, PickDirectory DEF Directory
      <3>3. Len(all) \in Nat /\ Bound \in Nat
        BY <3>2, StoreAssumption DEF Bound, StoreInv, OtherTypes
      <3>4. gc' = [gc EXCEPT ![g] = IF Len(all) <= Bound THEN NoCollection ELSE found]
        BY <2>3 DEF GcStat
      <3> HIDE DEF all
      <3>5. NoCollection \in Collection
        BY DEF NoCollection, Collection
      <3>6. ~(Len(all) <= Bound) => found \in Collection
        BY <1>3, <3>2, <3>3 DEF Collection
      <3> HIDE DEF found
      <3> QED
        BY <3>4, <3>5, <3>6 DEF StoreInv, OtherTypes
    <2> QED
      BY <2>1, <2>2, <2>3
  <1> QED
    BY <1>1, <1>2, <1>5 DEF StoreInv, OtherTypes

\* A collector removes a file: what the history refers to by now, or a writer
\* has in hand, was recorded after the collector looked, or it could not look.
LEMMA RemoveStep ==
  ASSUME StoreInv, NEW g \in Collector, GcRemove(g)
  PROVE  StoreInv'
  <1> DEFINE x == Head(gc[g].all)
             used == InHand(x) \/ x \in ReferencedImages(hist)
             lost == IF used /\ x \notin gc[g].referenced THEN {x} ELSE {}
             over == gc[g].toRemove = 0 \/ gc[g].all = <<>>
             removes == /\ ~Spares(g, x) /\ x \in Elements(files)
                        /\ gc' = [gc EXCEPT ![g].all = Tail(@), ![g].toRemove = @ - 1]
                        /\ files' = Without(files, {x})
                        /\ overtaken' = IF gc[g].blind THEN overtaken ELSE overtaken \cup lost
                        /\ blinded' = IF gc[g].blind THEN blinded \cup lost ELSE blinded
  <1>1. UNCHANGED <<hist, cap, resized, pc, arg, saved, ops>>
    BY DEF GcRemove
  <1>2. gc[g] \in Collection
    BY DEF StoreInv, OtherTypes
  <1>3. CASE ~over /\ removes
    <2>1. x \in Images /\ Tail(gc[g].all) \in Seq(Images) /\ gc[g].toRemove - 1 \in Nat
      BY <1>2, <1>3 DEF Collection
    <2>2. lost \in SUBSET Images /\ (used => lost = {x})
      BY <1>3, <2>1 DEF Spares
    <2> HIDE DEF x, lost, used
    <2>3. overtaken' \in SUBSET Images /\ blinded' \in SUBSET Images /\ Lost' = Lost \cup lost
      BY <1>3, <2>2 DEF StoreInv, OtherTypes, Lost
    <2>4. hist' \in History /\ ReferencedImages(hist') = ReferencedImages(hist)
      BY <1>1 DEF StoreInv, ListInv
    <2>5. ListInv' /\ WriterInv'
      <3>1. {x} \in SUBSET Images
        BY <2>1
      <3>2. \A y \in {x} : y \in ReferencedImages(hist') \/ InHand(y) => y \in Lost'
        BY <2>2, <2>3, <2>4 DEF used
      <3>3. files' = Without(files, {x}) /\ Lost \subseteq Lost'
        BY <1>3, <2>3
      <3> QED
        BY <1>1, <2>4, <3>1, <3>2, <3>3, RemoveFiles
    <2>6. gc' \in [Collector -> Collection]
      BY <1>2, <1>3, <2>1 DEF Collection, StoreInv, OtherTypes
    <2> QED
      BY <1>1, <2>3, <2>5, <2>6 DEF StoreInv, OtherTypes
  <1>4. CASE ~(~over /\ removes)
    <2>1. UNCHANGED <<files, overtaken, blinded>>
      BY <1>4 DEF GcRemove
    <2>2. gc' \in [Collector -> Collection]
      <3>1. CASE over
        <4>1. NoCollection \in Collection
          BY DEF NoCollection, Collection
        <4>2. gc' = [gc EXCEPT ![g] = NoCollection]
          BY <3>1 DEF GcRemove
        <4> QED
          BY <4>1, <4>2 DEF StoreInv, OtherTypes
      <3>2. CASE ~over
        <4>1. gc' = [gc EXCEPT ![g].all = Tail(@)]
          BY <1>4, <3>2 DEF GcRemove
        <4>2. Tail(gc[g].all) \in Seq(Images)
          BY <1>2, <3>2 DEF Collection
        <4> QED
          BY <1>2, <4>1, <4>2 DEF Collection, StoreInv, OtherTypes
      <3> QED
        BY <3>1, <3>2
    <2>3. ListInv' /\ WriterInv'
      BY <1>1, <2>1 DEF StoreInv, ListInv, WriterInv, ReferencedImages, Elements, Lost
    <2> QED
      BY <1>1, <2>1, <2>2, <2>3 DEF StoreInv, OtherTypes
  <1> QED
    BY <1>3, <1>4

\* Every step keeps the invariant.
LEMMA StoreStep == StoreInv /\ [Next]_vars => StoreInv'
  <1> SUFFICES ASSUME StoreInv, [Next]_vars PROVE StoreInv'
    OBVIOUS
  <1>1. CASE Recording
    BY <1>1, BeginStep, SaveStep, AppendStep, AppendFailsStep DEF Recording
  <1>2. CASE Edit
    BY <1>2, QuietEditStep, DeleteStep DEF Edit
  <1>3. CASE Collecting
    BY <1>3, LookStep, RemoveStep DEF Collecting
  <1>4. CASE UNCHANGED vars
    BY <1>4 DEF vars, StoreInv, ListInv, WriterInv, OtherTypes, ReferencedImages, Elements, Lost
  <1> QED
    BY <1>1, <1>2, <1>3, <1>4 DEF Next

\* The invariant holds in every reachable state.
LEMMA StoreInvariant == Spec => []StoreInv
  BY StoreInit, StoreStep, PTL DEF Spec

-----------------------------------------------------------------------------
(* What it shows *)

\* The history, the image directory, the writers and the collectors keep their
\* types; in particular no content is recorded twice and no image stored twice.
THEOREM TypeCorrect == Spec => []TypeOK
  <1>1. StoreInv => TypeOK
    BY DEF StoreInv, ListInv, OtherTypes, History, Directory, TypeOK
  <1> QED
    BY <1>1, StoreInvariant, PTL

\* An entry of the history has its image, unless it was removed from under a
\* writer, by a collection that had read the history before the entry was there,
\* or by a collection that could not read the history at all.
THEOREM ImagesSurvive == Spec => []DanglingIsExplained
  <1>1. StoreInv => DanglingIsExplained
    BY References DEF StoreInv, ListInv, DanglingIsExplained, Lost
  <1> QED
    BY <1>1, StoreInvariant, PTL

-----------------------------------------------------------------------------
(* Pins and the newest entries *)

\* Is there an entry of content c in the list?
Has(list, c) == \E k \in 1 .. Len(list) : list[k].of = c
HasPinned(list, c) == \E k \in 1 .. Len(list) : list[k].of = c /\ list[k].pinned

\* A selection has what it keeps, and nothing of another content.
LEMMA PickHas ==
  ASSUME NEW list \in History, NEW keep \in SUBSET (1 .. Len(list)),
         NEW i \in 1 .. Len(list)
  PROVE  /\ Has(Pick(list, keep), list[i].of) <=> i \in keep
         /\ i \in keep /\ list[i].pinned => HasPinned(Pick(list, keep), list[i].of)
  <1> DEFINE p == Pick(list, keep)
  <1>1. list \in Seq(Entry) /\ keep \subseteq 1 .. Len(list)
    BY DEF History
  <1>2. /\ \A k \in 1 .. Len(p) : \E j \in keep : p[k] = list[j]
        /\ \A j \in keep : \E k \in 1 .. Len(p) : p[k] = list[j]
    BY <1>1, PickIsOrdered
  <1> HIDE DEF p
  <1>3. ASSUME Has(p, list[i].of) PROVE i \in keep
    <2>1. PICK k \in 1 .. Len(p) : p[k].of = list[i].of
      BY <1>3 DEF Has
    <2>2. PICK j \in keep : p[k] = list[j]
      BY <1>2
    <2>3. j \in 1 .. Len(list) /\ list[j].of = list[i].of
      BY <1>1, <2>1, <2>2
    <2> QED
      BY <2>2, <2>3 DEF History
  <1>4. ASSUME i \in keep
        PROVE  Has(p, list[i].of) /\ (list[i].pinned => HasPinned(p, list[i].of))
    <2>1. PICK k \in 1 .. Len(p) : p[k] = list[i]
      BY <1>2, <1>4
    <2> QED
      BY <2>1 DEF Has, HasPinned
  <1> QED
    BY <1>3, <1>4 DEF p

\* capTrim keeps what is pinned.  If it keeps an entry that is not, it keeps
\* everything newer.  The newest entry stays the first one.
LEMMA TrimKeeps ==
  ASSUME NEW list \in History, NEW max \in Nat
  PROVE  LET t == CapTrim(list, max)
         IN  /\ \A i \in 1 .. Len(list) : list[i].pinned => HasPinned(t, list[i].of)
             /\ \A i, j \in 1 .. Len(list) :
                   i < j /\ ~list[j].pinned /\ Has(t, list[j].of) => Has(t, list[i].of)
             /\ Len(list) > 0 /\ Has(t, list[1].of) => t[1] = list[1]
  <1> DEFINE n(i) == NewerUnpinned(list, i)
             keep == {i \in 1 .. Len(list) : list[i].pinned \/ n(i) + Pinned(list) < max}
             t == CapTrim(list, max)
  <1>1. list \in Seq(Entry) /\ Len(list) \in Nat /\ keep \in SUBSET (1 .. Len(list))
    BY DEF History
  <1>2. t = Pick(list, keep)
    BY DEF CapTrim
  <1>3. Pinned(list) \in Nat /\ \A i \in 1 .. Len(list) : n(i) \in Nat
    <2>1. IsFiniteSet(1 .. Len(list))
      BY <1>1, FS_Interval
    <2>2. ASSUME NEW T \in SUBSET (1 .. Len(list)) PROVE Cardinality(T) \in Nat
      BY <2>1, FS_Subset, FS_CardinalityType
    <2>3. \A i \in 1 .. Len(list) :
             {j \in 1 .. i - 1 : ~list[j].pinned} \in SUBSET (1 .. Len(list))
      BY <1>1
    <2> QED
      BY <2>2, <2>3 DEF Pinned, NewerUnpinned
  <1>4. ASSUME NEW i \in 1 .. Len(list), NEW j \in 1 .. Len(list), i < j
        PROVE  n(i) <= n(j)
    <2> DEFINE before(k) == {l \in 1 .. k - 1 : ~list[l].pinned}
    <2>1. before(j) \in SUBSET (1 .. Len(list))
      BY <1>1
    <2>2. IsFiniteSet(before(j))
      <3> HIDE DEF before
      <3>1. IsFiniteSet(1 .. Len(list))
        BY <1>1, FS_Interval
      <3> QED
        BY <2>1, <3>1, FS_Subset
    <2>3. before(i) \in SUBSET before(j)
      BY <1>1, <1>4
    <2> QED
      BY <2>2, <2>3, FS_Subset DEF NewerUnpinned
  <1> HIDE DEF n
  <1>5. \A i \in 1 .. Len(list) :
           i \in keep <=> list[i].pinned \/ n(i) + Pinned(list) < max
    OBVIOUS
  <1> HIDE DEF keep, t
  <1>6. 1 \in keep => t[1] = list[1]
    <2>1. LET p == Pick(list, keep) IN 1 \in keep => p[1] = list[1]
      BY <1>1, PickIsOrdered
    <2> QED
      BY <1>2, <2>1
  <1>7. ASSUME NEW i \in 1 .. Len(list)
        PROVE  /\ Has(t, list[i].of) <=> i \in keep
               /\ list[i].pinned => HasPinned(t, list[i].of)
    BY <1>1, <1>2, <1>5, PickHas
  <1>8. ASSUME NEW i \in 1 .. Len(list), NEW j \in 1 .. Len(list),
               i < j, ~list[j].pinned, Has(t, list[j].of)
        PROVE  Has(t, list[i].of)
    <2>1. n(j) + Pinned(list) < max
      BY <1>5, <1>7, <1>8
    <2>2. n(i) + Pinned(list) < max
      BY <1>3, <1>4, <1>8, <2>1
    <2> QED
      BY <1>5, <1>7, <2>2
  <1>9. ASSUME Len(list) > 0, Has(t, list[1].of)
         PROVE  t[1] = list[1]
    <2>1. 1 \in 1 .. Len(list)
      BY <1>1, <1>9
    <2> QED
      BY <1>6, <1>7, <1>9, <2>1
  <1> QED
    BY <1>7, <1>8, <1>9 DEF t

\* Where the entries of the history are when AppendHistory trims.
LEMMA NewListOrder ==
  ASSUME StoreInv, NEW w \in Writer, pc[w] = "append"
  PROVE  LET list == <<NewEntry(w)>> \o Others(w)
         IN  /\ Len(list) > 0 /\ list[1].of = arg[w]
             /\ \A i \in 1 .. Len(hist) : hist[i].of = arg[w] /\ hist[i].pinned =>
                   list[1].pinned
             /\ \A i \in 1 .. Len(hist) : hist[i].of # arg[w] =>
                   \E a \in 1 .. Len(list) : a > 1 /\ list[a] = hist[i]
             /\ \A i, j \in 1 .. Len(hist) :
                   i < j /\ hist[i].of # arg[w] /\ hist[j].of # arg[w] =>
                   \E a, b \in 1 .. Len(list) : a < b /\ list[a] = hist[i] /\ list[b] = hist[j]
  <1> DEFINE keep == {i \in 1 .. Len(hist) : hist[i].of # arg[w]}
             rest == Others(w)
             e == NewEntry(w)
             list == <<e>> \o rest
  <1>1. hist \in Seq(Entry) /\ keep \in SUBSET (1 .. Len(hist))
    BY DEF StoreInv, ListInv, History
  <1>2. /\ e.of = arg[w]
        /\ \A i \in 1 .. Len(hist) : hist[i].of = arg[w] /\ hist[i].pinned => e.pinned
    BY DEF NewEntry
  <1>3. \A i \in 1 .. Len(hist) : hist[i].of # arg[w] <=> i \in keep
    OBVIOUS
  <1> HIDE DEF keep, rest, e
  <1>4. rest = Pick(hist, keep)
    BY DEF rest, keep, Others
  <1>5. /\ rest \in Seq(Entry)
        /\ \A i \in keep : \E k \in 1 .. Len(rest) : rest[k] = hist[i]
    <2>1. LET p == Pick(hist, keep)
          IN  /\ p \in Seq(Entry)
              /\ \A i \in keep : \E k \in 1 .. Len(p) : p[k] = hist[i]
      BY <1>1, PickIsOrdered
    <2> QED
      BY <1>4, <2>1
  <1>6. /\ Len(rest) \in Nat /\ Len(list) = Len(rest) + 1 /\ list[1] = e
        /\ \A k \in 1 .. Len(rest) : k + 1 \in 1 .. Len(list) /\ list[k + 1] = rest[k]
    BY <1>5
  <1> HIDE DEF list
  <1>7. ASSUME NEW i \in 1 .. Len(hist), hist[i].of # arg[w]
        PROVE  \E a \in 1 .. Len(list) : a > 1 /\ list[a] = hist[i]
    <2>1. PICK k \in 1 .. Len(rest) : rest[k] = hist[i]
      BY <1>3, <1>5, <1>7
    <2>2. k + 1 \in 1 .. Len(list) /\ k + 1 > 1 /\ list[k + 1] = hist[i]
      BY <1>6, <2>1
    <2> QED
      BY <2>2
  <1>8. ASSUME NEW i \in 1 .. Len(hist), NEW j \in 1 .. Len(hist),
               i < j, hist[i].of # arg[w], hist[j].of # arg[w]
        PROVE  \E a, b \in 1 .. Len(list) : a < b /\ list[a] = hist[i] /\ list[b] = hist[j]
    <2>1. PICK k \in 1 .. Len(rest), l \in 1 .. Len(rest) :
             k < l /\ rest[k] = hist[i] /\ rest[l] = hist[j]
      BY <1>1, <1>3, <1>4, <1>8, PickKeepsOrder
    <2>2. /\ k + 1 \in 1 .. Len(list) /\ l + 1 \in 1 .. Len(list) /\ k + 1 < l + 1
          /\ list[k + 1] = hist[i] /\ list[l + 1] = hist[j]
      BY <1>6, <2>1
    <2> QED
      BY <2>2
  <1>9. Len(list) > 0 /\ list[1].of = arg[w]
    BY <1>2, <1>6
  <1>10. \A i \in 1 .. Len(hist) : hist[i].of = arg[w] /\ hist[i].pinned => list[1].pinned
    BY <1>2, <1>6
  <1> QED
    BY <1>7, <1>8, <1>9, <1>10 DEF list, e, rest

\* What PinsAndNewestSurvive says of one step.
Survive ==
    \A i \in 1 .. Len(hist) :
        /\ hist[i].pinned /\ Unpinned(i) =>
              DeleteEntry(hist[i].of) \/ SetPinned(hist[i].of, FALSE)
        /\ ~hist[i].pinned /\ Gone(i) =>
              \/ DeleteEntry(hist[i].of)
              \/ \A j \in i + 1 .. Len(hist) :
                    hist[j].pinned \/ Gone(j) \/ hist'[1].of = hist[j].of

\* In terms of the new history.
LEMMA GoneHas ==
  ASSUME NEW i
  PROVE  /\ Gone(i) <=> ~Has(hist', hist[i].of)
         /\ Unpinned(i) <=> ~HasPinned(hist', hist[i].of)
  BY DEF Gone, Unpinned, Has, HasPinned

\* A step that leaves the history alone loses nothing.
LEMMA SameSurvive ==
  ASSUME hist' = hist
  PROVE  Survive
  BY DEF Survive, Gone, Unpinned

\* A recorded clip replaces its own entry, and pushes out the oldest.
LEMMA AppendSurvive ==
  ASSUME StoreInv, NEW w \in Writer, AppendHistory(w)
  PROVE  Survive
  <1> DEFINE list == <<NewEntry(w)>> \o Others(w)
  <1>1. pc[w] = "append" /\ hist' = CapTrim(list, cap) /\ cap \in Nat
    BY StoreAssumption DEF AppendHistory, StoreInv, OtherTypes
  <1>2. list \in History
    BY <1>1, NewList
  <1>3. /\ \A a \in 1 .. Len(list) : list[a].pinned => HasPinned(hist', list[a].of)
        /\ \A a, b \in 1 .. Len(list) :
              a < b /\ ~list[b].pinned /\ Has(hist', list[b].of) => Has(hist', list[a].of)
        /\ Len(list) > 0 /\ Has(hist', list[1].of) => hist'[1] = list[1]
    <2> HIDE DEF list
    <2> QED
      BY <1>1, <1>2, TrimKeeps
  <1>4. /\ Len(list) > 0 /\ list[1].of = arg[w]
        /\ \A i \in 1 .. Len(hist) : hist[i].of = arg[w] /\ hist[i].pinned => list[1].pinned
        /\ \A i \in 1 .. Len(hist) : hist[i].of # arg[w] =>
              \E a \in 1 .. Len(list) : a > 1 /\ list[a] = hist[i]
    BY <1>1, NewListOrder
  <1>5. \A i, j \in 1 .. Len(hist) :
           i < j /\ hist[i].of # arg[w] /\ hist[j].of # arg[w] =>
           \E a, b \in 1 .. Len(list) : a < b /\ list[a] = hist[i] /\ list[b] = hist[j]
    BY <1>1, NewListOrder
  <1> HIDE DEF list
  <1>6. 1 \in 1 .. Len(list)
    BY <1>2, <1>4 DEF History
  <1>7. ASSUME NEW i \in 1 .. Len(hist), hist[i].pinned
        PROVE  ~Unpinned(i)
    <2>1. CASE hist[i].of = arg[w]
      BY <1>3, <1>4, <1>6, <1>7, <2>1, GoneHas
    <2>2. CASE hist[i].of # arg[w]
      <3>1. PICK a \in 1 .. Len(list) : list[a] = hist[i]
        BY <1>4, <2>2
      <3> QED
        BY <1>3, <1>7, <3>1, GoneHas
    <2> QED
      BY <2>1, <2>2
  <1>8. ASSUME NEW i \in 1 .. Len(hist), Gone(i),
               NEW j \in i + 1 .. Len(hist), ~hist[j].pinned, ~Gone(j)
        PROVE  hist'[1].of = hist[j].of
    <2>1. j \in 1 .. Len(hist) /\ i < j
      BY DEF StoreInv, ListInv, History
    <2>2. Has(hist', hist[j].of) /\ ~Has(hist', hist[i].of)
      BY <1>8, GoneHas
    <2>3. CASE hist[j].of = arg[w]
      BY <1>3, <1>4, <2>2, <2>3
    <2>4. CASE hist[j].of # arg[w] /\ hist[i].of # arg[w]
      <3>1. PICK a \in 1 .. Len(list), b \in 1 .. Len(list) :
               a < b /\ list[a] = hist[i] /\ list[b] = hist[j]
        BY <1>5, <2>1, <2>4
      <3> QED
        BY <1>3, <1>8, <2>2, <3>1
    <2>5. CASE hist[j].of # arg[w] /\ hist[i].of = arg[w]
      <3>1. PICK b \in 1 .. Len(list) : b > 1 /\ list[b] = hist[j]
        BY <1>4, <2>1, <2>5
      <3>2. 1 < b
        BY <3>1
      <3> QED
        BY <1>3, <1>4, <1>6, <1>8, <2>2, <2>5, <3>1, <3>2
    <2> QED
      BY <2>3, <2>4, <2>5
  <1> QED
    BY <1>7, <1>8 DEF Survive

\* Recap pushes out the oldest.
LEMMA RecapSurvive ==
  ASSUME StoreInv, Recap, hist' # hist
  PROVE  Survive
  <1>1. hist \in History /\ hist' = CapTrim(hist, cap) /\ cap \in Nat /\ Len(hist) \in Nat
    BY StoreAssumption DEF Recap, StoreInv, ListInv, History, OtherTypes
  <1>2. /\ \A i \in 1 .. Len(hist) : hist[i].pinned => HasPinned(hist', hist[i].of)
        /\ \A i, j \in 1 .. Len(hist) :
              i < j /\ ~hist[j].pinned /\ Has(hist', hist[j].of) => Has(hist', hist[i].of)
    BY <1>1, TrimKeeps
  <1>3. \A i \in 1 .. Len(hist) : hist[i].pinned => ~Unpinned(i)
    BY <1>2, GoneHas
  <1>4. ASSUME NEW i \in 1 .. Len(hist), Gone(i), NEW j \in i + 1 .. Len(hist), ~hist[j].pinned
        PROVE  Gone(j)
    <2>1. j \in 1 .. Len(hist) /\ i < j
      BY <1>1
    <2> QED
      BY <1>2, <1>4, <2>1, GoneHas
  <1> QED
    BY <1>3, <1>4 DEF Survive

\* Edits by the user.
LEMMA EditSurvive ==
  ASSUME StoreInv, Edit
  PROVE  Survive
  <1>1. hist \in History /\ hist \in Seq(Entry) /\ Len(hist) \in Nat
    BY DEF StoreInv, ListInv, History
  <1>2. ASSUME NEW c \in Content, DeleteEntry(c) PROVE Survive
    <2> DEFINE keep == {i \in 1 .. Len(hist) : hist[i].of # c}
    <2>1. keep \in SUBSET (1 .. Len(hist)) /\ hist' = Pick(hist, keep)
      BY <1>2 DEF DeleteEntry, KeepOnly
    <2>2. \A i \in 1 .. Len(hist) : i \in keep <=> hist[i].of # c
      OBVIOUS
    <2> HIDE DEF keep
    <2>3. ASSUME NEW i \in 1 .. Len(hist), hist[i].of # c
          PROVE  ~Gone(i) /\ (hist[i].pinned => ~Unpinned(i))
      BY <1>1, <2>1, <2>2, <2>3, PickHas, GoneHas
    <2> QED
      BY <1>2, <2>3 DEF Survive
  <1>3. ASSUME NEW c \in Content, NEW flag \in BOOLEAN, SetPinned(c, flag) PROVE Survive
    <2>1. /\ Len(hist') = Len(hist)
          /\ \A i \in 1 .. Len(hist) :
                hist'[i] = IF hist[i].of = c THEN [hist[i] EXCEPT !.pinned = flag] ELSE hist[i]
      BY <1>1, <1>3 DEF SetPinned
    <2>2. \A i \in 1 .. Len(hist) : hist[i] \in Entry
      BY <1>1
    <2>3. \A i \in 1 .. Len(hist) : /\ hist'[i].of = hist[i].of
                                    /\ hist'[i].pinned = IF hist[i].of = c THEN flag
                                                         ELSE hist[i].pinned
      BY <2>1, <2>2 DEF Entry
    <2>4. \A i \in 1 .. Len(hist) : ~Gone(i)
      BY <2>1, <2>3 DEF Gone
    <2>5. ASSUME NEW i \in 1 .. Len(hist), hist[i].pinned, Unpinned(i)
          PROVE  hist[i].of = c /\ flag = FALSE
      BY <2>1, <2>3, <2>5 DEF Unpinned
    <2> QED
      BY <1>3, <2>4, <2>5 DEF Survive
  <1>4. ASSUME ClearUnpinned PROVE Survive
    <2> DEFINE keep == {i \in 1 .. Len(hist) : hist[i].pinned}
    <2>1. keep \in SUBSET (1 .. Len(hist)) /\ hist' = Pick(hist, keep)
      BY <1>4 DEF ClearUnpinned, KeepOnly
    <2>2. \A i \in 1 .. Len(hist) : i \in keep <=> hist[i].pinned
      OBVIOUS
    <2> HIDE DEF keep
    <2>3. ASSUME NEW i \in 1 .. Len(hist)
          PROVE  IF hist[i].pinned THEN ~Unpinned(i) ELSE Gone(i)
      BY <1>1, <2>1, <2>2, PickHas, GoneHas
    <2>4. \A i \in 1 .. Len(hist) : \A j \in i + 1 .. Len(hist) : j \in 1 .. Len(hist)
      BY <1>1
    <2> QED
      BY <2>3, <2>4 DEF Survive
  <1>5. ASSUME NEW n \in Caps, SetMaxHistory(n) PROVE Survive
    BY <1>5, SameSurvive DEF SetMaxHistory
  <1> QED
    BY <1>2, <1>3, <1>4, <1>5, RecapSurvive, SameSurvive DEF Edit

\* Every step: only AppendHistory and the edits write the history.
LEMMA StepSurvive == StoreInv /\ [Next]_vars => [Survive]_vars
  <1> SUFFICES ASSUME StoreInv, Next PROVE Survive
    OBVIOUS
  <1>1. CASE Recording
    <2>1. PICK w \in Writer : \/ \E c \in Content : Record(w, c)
                              \/ ImageExists(w) \/ SaveImage(w) \/ SaveFails(w)
                              \/ AppendHistory(w) \/ AppendFails(w)
      BY <1>1 DEF Recording
    <2>2. CASE AppendHistory(w)
      BY <2>2, AppendSurvive
    <2>3. CASE ~AppendHistory(w)
      BY <2>1, <2>3, SameSurvive DEF Record, ImageExists, SaveImage, SaveFails, AppendFails
    <2> QED
      BY <2>2, <2>3
  <1>2. CASE Edit
    BY <1>2, EditSurvive
  <1>3. CASE Collecting
    BY <1>3, SameSurvive DEF Collecting, GcList, GcReferenced, GcStat, GcRemove
  <1> QED
    BY <1>1, <1>2, <1>3 DEF Next

\* Whatever is recorded, edited, resized and trimmed: a pin holds until the user
\* takes it off or deletes the entry, and trimming drops the oldest entries first.
THEOREM TrimmingIsFair == Spec => PinsAndNewestSurvive
  BY StoreInvariant, StepSurvive, PTL DEF Spec, PinsAndNewestSurvive, Survive
=============================================================================
