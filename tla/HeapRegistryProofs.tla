------------------------- MODULE HeapRegistryProofs -------------------------
(* For any licenses, features and bounds: the slices are heaps whenever they *)
(* are looked at, the lookup's loop does what RegistryMethods says in one    *)
(* step, and heaps and loops together are a LicenseStore.                    *)
EXTENDS HeapRegistry, FiniteSetTheorems, SequenceTheorems, TLAPS

(* The order of the queues is a strict weak order, which is what             *)
(* container/heap requires of Less, and licenses that tie in it expire       *)
(* together, so a live and a dead one never tie.                             *)
LEMMA LessIsStrictWeakOrder ==
    /\ \A i \in License : ~Less(i, i)
    /\ \A i, j, k \in License : Less(i, j) /\ Less(j, k) => Less(i, k)
    /\ \A i, j, k \in License : ~Less(i, j) /\ ~Less(j, k) => ~Less(i, k)
    /\ \A i, j \in License : ~Less(i, j) /\ ~Less(j, i) => NotAfter[i] = NotAfter[j]
<1>1. \A i \in License : /\ rankTier(TierName[i]) \in Int
                         /\ NotBefore[i] \in Int /\ NotAfter[i] \in Int
  BY LicenseAssumption DEF rankTier
<1> QED
  BY <1>1 DEF Less

-----------------------------------------------------------------------------
(* Slices: what the methods of LicenseQueue do to their items. *)

LEMMA SliceItems ==
    ASSUME NEW q \in Seq(License)
    PROVE  /\ Len(q) \in Nat /\ DOMAIN q = 1..Len(q)
           /\ \A i \in 1..Len(q) : q[i] \in License
           /\ q # <<>> <=> Len(q) > 0
  BY LenProperties, ElementOfSeq, EmptySeq

LEMMA SwapItems ==
    ASSUME NEW q \in Seq(License), NEW i \in 1..Len(q), NEW j \in 1..Len(q)
    PROVE  /\ Swap(q, i, j) \in Seq(License)
           /\ Len(Swap(q, i, j)) = Len(q)
           /\ \A k \in 1..Len(q) :
                 Swap(q, i, j)[k] = IF k = j THEN q[i] ELSE IF k = i THEN q[j] ELSE q[k]
<1>1. q[i] \in License /\ q[j] \in License
  BY ElementOfSeq
<1> DEFINE r == [q EXCEPT ![i] = q[j]]
<1>2. /\ r \in Seq(License) /\ Len(r) = Len(q)
      /\ \A k \in 1..Len(q) : r[k] = IF k = i THEN q[j] ELSE q[k]
  BY <1>1, ExceptSeq
<1>3. Swap(q, i, j) = [r EXCEPT ![j] = q[i]]
  BY DEF Swap
<1> HIDE DEF r
<1>4. /\ [r EXCEPT ![j] = q[i]] \in Seq(License)
      /\ Len([r EXCEPT ![j] = q[i]]) = Len(r)
      /\ \A k \in 1..Len(r) : [r EXCEPT ![j] = q[i]][k] = IF k = j THEN q[i] ELSE r[k]
  BY <1>1, <1>2, ExceptSeq
<1> QED
  BY <1>2, <1>3, <1>4

LEMMA PopItems ==
    ASSUME NEW q \in Seq(License), Len(q) > 0
    PROVE  /\ Pop(q) \in Seq(License)
           /\ Len(Pop(q)) = Len(q) - 1
           /\ \A k \in 1..(Len(q) - 1) : Pop(q)[k] = q[k]
<1>1. Len(q) \in Nat /\ \A i \in 1..(Len(q) - 1) : q[i] \in License
  BY SliceItems
<1> DEFINE n == Len(q) - 1
<1>2. 1 \in Int /\ n \in Int /\ n >= 0 /\ \A i \in 1..n : q[i] \in License
  BY <1>1
<1> HIDE DEF n
<1>3. /\ SubSeq(q, 1, n) \in Seq(License)
      /\ Len(SubSeq(q, 1, n)) = IF 1 <= n THEN n - 1 + 1 ELSE 0
      /\ \A i \in 1..(n - 1 + 1) : SubSeq(q, 1, n)[i] = q[1 + i - 1]
  BY <1>2, SubSeqProperties
<1>4. Len(SubSeq(q, 1, n)) = n /\ \A i \in 1..n : SubSeq(q, 1, n)[i] = q[i]
  BY <1>2, <1>3
<1> QED
  BY <1>3, <1>4 DEF Pop, n

LEMMA AppendItems ==
    ASSUME NEW q \in Seq(License), NEW l \in License
    PROVE  /\ Append(q, l) \in Seq(License)
           /\ Len(Append(q, l)) = Len(q) + 1
           /\ Append(q, l)[Len(q) + 1] = l
           /\ \A k \in 1..Len(q) : Append(q, l)[k] = q[k]
  BY SliceItems


-----------------------------------------------------------------------------
(* Counting: how often a license is in a slice. *)

Places(q, l) == {i \in DOMAIN q : q[i] = l}

LEMMA PlacesFinite ==
    ASSUME NEW q \in Seq(License), NEW l
    PROVE  IsFiniteSet(Places(q, l)) /\ Count(q, l) = Cardinality(Places(q, l))
<1>1. IsFiniteSet(1..Len(q))
  BY SliceItems, FS_Interval
<1>2. Places(q, l) \in SUBSET (1..Len(q))
  BY SliceItems DEF Places
<1> QED
  BY <1>1, <1>2, FS_Subset DEF Count, Places

LEMMA CountZero ==
    ASSUME NEW q \in Seq(License), NEW l
    PROVE  /\ Count(q, l) \in Nat
           /\ Count(q, l) > 0 <=> \E i \in 1..Len(q) : q[i] = l
<1>1. Count(q, l) \in Nat /\ (Count(q, l) = 0 <=> Places(q, l) = {})
  BY PlacesFinite, FS_CardinalityType, FS_EmptySet
<1>2. Places(q, l) # {} <=> \E i \in 1..Len(q) : q[i] = l
  BY SliceItems DEF Places
<1> QED
  BY <1>1, <1>2

(* Exchanging two items changes no count: the exchange of the two indices    *)
(* takes the places of a license before to its places after.                 *)
LEMMA CountSwap ==
    ASSUME NEW q \in Seq(License), NEW i \in 1..Len(q), NEW j \in 1..Len(q), NEW l
    PROVE  Count(Swap(q, i, j), l) = Count(q, l)
<1> DEFINE r == Swap(q, i, j)
           move == [k \in Places(q, l) |-> IF k = j THEN i ELSE IF k = i THEN j ELSE k]
<1>1. /\ r \in Seq(License) /\ Len(r) = Len(q)
      /\ \A k \in 1..Len(q) : r[k] = IF k = j THEN q[i] ELSE IF k = i THEN q[j] ELSE q[k]
  BY SwapItems
<1> HIDE DEF r
<1>2. Places(q, l) = {k \in 1..Len(q) : q[k] = l}
  BY SliceItems DEF Places
<1>3. Places(r, l) = {k \in 1..Len(q) : r[k] = l}
  BY <1>1, SliceItems DEF Places
<1>4. move \in [Places(q, l) -> Places(r, l)]
  BY <1>1, <1>2, <1>3
<1>5. \A a, b \in Places(q, l) : move[a] = move[b] => a = b
  OBVIOUS
<1>6. \A t \in Places(r, l) : \E s \in Places(q, l) : move[s] = t
  <2> SUFFICES ASSUME NEW t \in Places(r, l) PROVE \E s \in Places(q, l) : move[s] = t
    OBVIOUS
  <2> DEFINE s == IF t = j THEN i ELSE IF t = i THEN j ELSE t
  <2>1. s \in Places(q, l) /\ move[s] = t
    BY <1>1, <1>2, <1>3
  <2> QED
    BY <2>1
<1>7. ExistsBijection(Places(q, l), Places(r, l))
  <2> HIDE DEF move
  <2>1. move \in Bijection(Places(q, l), Places(r, l))
    BY <1>4, <1>5, <1>6 DEF Bijection, Injection, Surjection, IsInjective
  <2> QED
    BY <2>1 DEF ExistsBijection
<1> QED
  BY <1>1, <1>7, PlacesFinite, FS_Bijection DEF r

LEMMA CountPop ==
    ASSUME NEW q \in Seq(License), Len(q) > 0, NEW l
    PROVE  Count(Pop(q), l) = IF l = q[Len(q)] THEN Count(q, l) - 1 ELSE Count(q, l)
<1> DEFINE r == Pop(q)
           n == Len(q)
<1>1. /\ r \in Seq(License) /\ Len(r) = n - 1 /\ n \in Nat /\ n > 0
      /\ \A k \in 1..(n - 1) : r[k] = q[k]
  BY PopItems, SliceItems
<1> HIDE DEF r
<1>2. Places(q, l) = {k \in 1..n : q[k] = l} /\ Places(r, l) = {k \in 1..(n - 1) : r[k] = l}
  BY <1>1, SliceItems DEF Places
<1>3. Places(r, l) = Places(q, l) \ {n}
  BY <1>1, <1>2
<1>4. n \in Places(q, l) <=> l = q[n]
  BY <1>1, <1>2
<1>5. Cardinality(Places(q, l) \ {n}) =
         IF n \in Places(q, l) THEN Cardinality(Places(q, l)) - 1 ELSE Cardinality(Places(q, l))
  BY PlacesFinite, FS_RemoveElement
<1> QED
  BY <1>1, <1>3, <1>4, <1>5, PlacesFinite DEF r


-----------------------------------------------------------------------------
(* Heaps: the first n items of a slice in heap order, and what is still in   *)
(* order while one item is on its way up or down.                            *)

Heap(q, n) == \A i \in 2..n : ~Less(q[i], q[i \div 2])

(* The item at j may be before its parent; nothing below it is. *)
HeapAbove(q, n, j) ==
    /\ \A i \in 2..n : i # j => ~Less(q[i], q[i \div 2])
    /\ \A i \in 2..n : i \div 2 = j /\ j > 1 => ~Less(q[i], q[j \div 2])

(* The children of the item at j may be before it; not before its parent. *)
HeapBelow(q, n, j) ==
    /\ \A i \in 2..n : i \div 2 # j => ~Less(q[i], q[i \div 2])
    /\ \A i \in 2..n : i \div 2 = j /\ j > 1 => ~Less(q[i], q[j \div 2])

LEMMA Halves ==
    /\ \A i \in Nat : i >= 2 => i \div 2 \in Nat /\ i \div 2 >= 1 /\ i \div 2 < i
    /\ \A i \in Nat, j \in Nat : i \div 2 = j <=> i = 2 * j \/ i = 2 * j + 1
  OBVIOUS

LEMMA AppendHeap ==
    ASSUME NEW q \in Seq(License), NEW l \in License, Heap(q, Len(q))
    PROVE  HeapAbove(Append(q, l), Len(q) + 1, Len(q) + 1)
<1> DEFINE n == Len(q)
           r == Append(q, l)
<1>1. n \in Nat /\ \A k \in 1..n : r[k] = q[k]
  BY AppendItems, SliceItems
<1> HIDE DEF r, n
<1>2. \A i \in 2..(n + 1) : i # n + 1 => i \in 2..n /\ i \in 1..n /\ i \div 2 \in 1..n
  BY <1>1, Halves
<1>3. \A i \in 2..(n + 1) : i \div 2 # n + 1
  BY <1>1, Halves
<1>4. \A i \in 2..n : ~Less(q[i], q[i \div 2])
  BY DEF Heap, n
<1>5. HeapAbove(r, n + 1, n + 1)
  BY <1>1, <1>2, <1>3, <1>4 DEF HeapAbove
<1> QED
  BY <1>5 DEF r, n

LEMMA UpTurn ==
    ASSUME NEW q \in Seq(License), NEW j \in 2..Len(q), HeapAbove(q, Len(q), j),
           Less(q[j], q[j \div 2])
    PROVE  HeapAbove(Swap(q, j, j \div 2), Len(q), j \div 2)
<1> DEFINE n == Len(q)
           i == j \div 2
           r == Swap(q, j, i)
<1>1. n \in Nat /\ j \in 1..n /\ i \in 1..n /\ i < j /\ j >= 2 /\ i \in Nat
  BY SliceItems, Halves
<1>2. \A k \in 1..n : r[k] = IF k = i THEN q[j] ELSE IF k = j THEN q[i] ELSE q[k]
  BY <1>1, SwapItems
<1>3. \A k \in 1..n : q[k] \in License
  BY SliceItems
<1>4. /\ \A k \in 2..n : k # j => ~Less(q[k], q[k \div 2])
      /\ \A k \in 2..n : k \div 2 = j /\ j > 1 => ~Less(q[k], q[i])
  BY DEF HeapAbove
<1>5. Less(q[j], q[i]) /\ j \div 2 = i
  OBVIOUS
<1>6. \A k \in 2..n : k \in 1..n /\ k \div 2 \in 1..n /\ k \div 2 < k
  BY <1>1, Halves
<1> HIDE DEF n, i, r
<1>7. ASSUME NEW k \in 2..n, k # i PROVE ~Less(r[k], r[k \div 2])
  <2>1. CASE k = j
    <3>1. r[k] = q[i] /\ r[k \div 2] = q[j]
      BY <1>1, <1>2, <1>5, <2>1
    <3> QED
      BY <1>1, <1>3, <1>5, <3>1, LessIsStrictWeakOrder
  <2>2. CASE k # j /\ k \div 2 = i
    <3>1. r[k] = q[k] /\ r[k \div 2] = q[j] /\ ~Less(q[k], q[i])
      BY <1>1, <1>2, <1>4, <1>6, <1>7, <2>2
    <3> QED
      BY <1>1, <1>3, <1>5, <1>6, <3>1, LessIsStrictWeakOrder
  <2>3. CASE k # j /\ k \div 2 = j
    <3>1. r[k] = q[k] /\ r[k \div 2] = q[i]
      BY <1>1, <1>2, <1>6, <1>7, <2>3
    <3> QED
      BY <1>1, <1>4, <2>3, <3>1
  <2>4. CASE k # j /\ k \div 2 # i /\ k \div 2 # j
    <3>1. r[k] = q[k] /\ r[k \div 2] = q[k \div 2]
      BY <1>2, <1>6, <1>7, <2>4
    <3> QED
      BY <1>4, <2>4, <3>1
  <2> QED
    BY <2>1, <2>2, <2>3, <2>4
<1>8. ASSUME NEW k \in 2..n, k \div 2 = i, i > 1 PROVE ~Less(r[k], r[i \div 2])
  <2>1. i \in 2..n /\ i \div 2 \in 1..n /\ i \div 2 < i /\ i < j
    BY <1>1, <1>6, <1>8
  <2>2. r[i \div 2] = q[i \div 2] /\ ~Less(q[i], q[i \div 2])
    BY <1>1, <1>2, <1>4, <2>1
  <2>3. CASE k = j
    BY <1>1, <1>2, <2>2, <2>3
  <2>4. CASE k # j
    <3>1. r[k] = q[k] /\ ~Less(q[k], q[i])
      BY <1>2, <1>4, <1>6, <1>8, <2>4
    <3> QED
      BY <1>1, <1>3, <1>6, <2>1, <2>2, <3>1, LessIsStrictWeakOrder
  <2> QED
    BY <2>3, <2>4
<1>9. HeapAbove(r, n, i)
  BY <1>7, <1>8 DEF HeapAbove
<1> QED
  BY <1>9 DEF r, n, i

LEMMA UpEnds ==
    ASSUME NEW q \in Seq(License), NEW j \in 1..Len(q), HeapAbove(q, Len(q), j),
           ~(j > 1 /\ Less(q[j], q[j \div 2]))
    PROVE  Heap(q, Len(q))
  BY SliceItems DEF HeapAbove, Heap


(* heap.Pop exchanges the root with the last item, and that leaves the order *)
(* of the others as it was but for the children of the new root.             *)
LEMMA SwapHeap ==
    ASSUME NEW q \in Seq(License), Len(q) > 0, Heap(q, Len(q))
    PROVE  HeapBelow(Swap(q, 1, Len(q)), Len(q) - 1, 1)
<1> DEFINE n == Len(q)
           r == Swap(q, 1, n)
<1>1. n \in Nat /\ n >= 1
  BY SliceItems
<1>2. \A k \in 1..n : k # 1 /\ k # n => r[k] = q[k]
  BY <1>1, SwapItems
<1>3. \A k \in 2..n : ~Less(q[k], q[k \div 2])
  BY DEF Heap
<1> HIDE DEF n, r
<1>4. \A k \in 2..(n - 1) : k \div 2 # 1 =>
         /\ k \in 1..n /\ k # 1 /\ k # n /\ k \in 2..n
         /\ k \div 2 \in 1..n /\ k \div 2 # n
  BY <1>1, Halves
<1>5. HeapBelow(r, n - 1, 1)
  BY <1>2, <1>3, <1>4 DEF HeapBelow
<1> QED
  BY <1>5 DEF r, n

(* The child the pass compares with is one that its sibling is not before. *)
LEMMA ChildFacts ==
    ASSUME NEW q \in Seq(License), NEW n \in 0..Len(q), NEW j \in Nat, j >= 1, 2 * j <= n
    PROVE  /\ Child(q, n, j) \in 2..n /\ Child(q, n, j) \div 2 = j /\ j < Child(q, n, j)
           /\ \A k \in 2..n : k \div 2 = j => ~Less(q[k], q[Child(q, n, j)])
<1>1. Len(q) \in Nat /\ n \in Nat /\ n <= Len(q)
  BY SliceItems
<1>2. CASE 2 * j + 1 <= n /\ Less(q[2 * j + 1], q[2 * j])
  <2>1. Child(q, n, j) = 2 * j + 1
    BY <1>2 DEF Child
  <2>2. /\ 2 * j \in 1..Len(q) /\ 2 * j + 1 \in 1..Len(q)
        /\ q[2 * j] \in License /\ q[2 * j + 1] \in License
    BY <1>1, <1>2, SliceItems
  <2>3. ~Less(q[2 * j], q[2 * j + 1]) /\ ~Less(q[2 * j + 1], q[2 * j + 1])
    BY <1>2, <2>2, LessIsStrictWeakOrder
  <2>4. \A k \in 2..n : k \div 2 = j => k = 2 * j \/ k = 2 * j + 1
    BY <1>1, Halves
  <2>5. 2 * j + 1 \in 2..n /\ (2 * j + 1) \div 2 = j /\ j < 2 * j + 1
    BY <1>1, <1>2
  <2> QED
    BY <2>1, <2>3, <2>4, <2>5
<1>3. CASE ~(2 * j + 1 <= n /\ Less(q[2 * j + 1], q[2 * j]))
  <2>1. Child(q, n, j) = 2 * j
    BY <1>3 DEF Child
  <2>2. 2 * j \in 1..Len(q) /\ q[2 * j] \in License
    BY <1>1, SliceItems
  <2>3. ~Less(q[2 * j], q[2 * j])
    BY <2>2, LessIsStrictWeakOrder
  <2>4. \A k \in 2..n : k \div 2 = j => k = 2 * j \/ (k = 2 * j + 1 /\ 2 * j + 1 <= n)
    BY <1>1, Halves
  <2>5. 2 * j \in 2..n /\ (2 * j) \div 2 = j /\ j < 2 * j
    BY <1>1
  <2> QED
    BY <1>3, <2>1, <2>3, <2>4, <2>5
<1> QED
  BY <1>2, <1>3

LEMMA DownTurn ==
    ASSUME NEW q \in Seq(License), NEW n \in 0..Len(q), NEW j \in Nat, j >= 1,
           2 * j <= n, HeapBelow(q, n, j), Less(q[Child(q, n, j)], q[j])
    PROVE  HeapBelow(Swap(q, j, Child(q, n, j)), n, Child(q, n, j))
<1> DEFINE c == Child(q, n, j)
           r == Swap(q, j, c)
<1>1. Len(q) \in Nat /\ n \in Nat /\ n <= Len(q)
  BY SliceItems
<1>2. /\ c \in 2..n /\ c \div 2 = j /\ j < c
      /\ \A k \in 2..n : k \div 2 = j => ~Less(q[k], q[c])
  BY ChildFacts
<1>3. c \in 1..n /\ j \in 1..n /\ c \in 1..Len(q) /\ j \in 1..Len(q)
  BY <1>1, <1>2
<1>4. \A k \in 1..n : r[k] = IF k = c THEN q[j] ELSE IF k = j THEN q[c] ELSE q[k]
  <2> HIDE DEF c
  <2>1. \A k \in 1..Len(q) : r[k] = IF k = c THEN q[j] ELSE IF k = j THEN q[c] ELSE q[k]
    BY <1>3, SwapItems
  <2> HIDE DEF r
  <2> QED
    BY <1>1, <2>1
<1>5. \A k \in 1..n : q[k] \in License
  BY <1>1, SliceItems
<1>6. /\ \A k \in 2..n : k \div 2 # j => ~Less(q[k], q[k \div 2])
      /\ \A k \in 2..n : k \div 2 = j /\ j > 1 => ~Less(q[k], q[j \div 2])
  BY DEF HeapBelow
<1>7. Less(q[c], q[j])
  OBVIOUS
<1>8. \A k \in 2..n : k \in 1..n /\ k \div 2 \in 1..n /\ k \div 2 < k
  BY <1>1, Halves
<1> HIDE DEF c, r
<1>9. ASSUME NEW k \in 2..n, k \div 2 # c PROVE ~Less(r[k], r[k \div 2])
  <2>1. CASE k = c
    <3>1. r[k] = q[j] /\ r[k \div 2] = q[c]
      BY <1>2, <1>3, <1>4, <2>1
    <3> QED
      BY <1>3, <1>5, <1>7, <3>1, LessIsStrictWeakOrder
  <2>2. CASE k # c /\ k \div 2 = j
    <3>1. r[k] = q[k] /\ r[k \div 2] = q[c]
      BY <1>2, <1>3, <1>4, <1>8, <1>9, <2>2
    <3> QED
      BY <1>2, <2>2, <3>1
  <2>3. CASE k = j
    <3>1. j > 1 /\ j \div 2 < j /\ j \div 2 \in 1..n
      BY <1>8, <1>9, <2>3
    <3>2. r[k] = q[c] /\ r[k \div 2] = q[j \div 2]
      BY <1>2, <1>3, <1>4, <1>9, <2>3, <3>1
    <3> QED
      BY <1>2, <1>6, <3>1, <3>2
  <2>4. CASE k # c /\ k # j /\ k \div 2 # j
    <3>1. r[k] = q[k] /\ r[k \div 2] = q[k \div 2]
      BY <1>4, <1>8, <1>9, <2>4
    <3> QED
      BY <1>6, <2>4, <3>1
  <2> QED
    BY <2>1, <2>2, <2>3, <2>4
<1>10. ASSUME NEW k \in 2..n, k \div 2 = c PROVE ~Less(r[k], r[c \div 2])
  <2>1. k # c /\ k # j /\ k \div 2 # j
    BY <1>2, <1>8, <1>10
  <2>2. r[k] = q[k] /\ r[c \div 2] = q[c]
    BY <1>2, <1>3, <1>4, <1>8, <2>1
  <2> QED
    BY <1>6, <1>10, <2>1, <2>2
<1>11. HeapBelow(r, n, c)
  BY <1>9, <1>10 DEF HeapBelow
<1> QED
  BY <1>11 DEF r, c

LEMMA DownEnds ==
    ASSUME NEW q \in Seq(License), Len(q) > 0, NEW j \in Nat, j >= 1,
           HeapBelow(q, Len(q) - 1, j),
           ~(2 * j <= Len(q) - 1 /\ Less(q[Child(q, Len(q) - 1, j)], q[j]))
    PROVE  Heap(Pop(q), Len(q) - 1)
<1> DEFINE n == Len(q) - 1
           c == Child(q, n, j)
<1>1. Len(q) \in Nat /\ n \in Nat /\ n \in 0..Len(q) /\ n <= Len(q)
  BY SliceItems
<1>2. \A k \in 1..n : q[k] \in License
  BY <1>1, SliceItems
<1>3. \A k \in 1..n : Pop(q)[k] = q[k]
  BY PopItems
<1>4. \A k \in 2..n : k \in 1..n /\ k \div 2 \in 1..n /\ (k \div 2 = j => 2 * j <= n)
  BY <1>1, Halves
<1>5. 2 * j <= n => ~Less(q[c], q[j])
  OBVIOUS
<1>6. 2 * j <= n => c \in 2..n /\ \A k \in 2..n : k \div 2 = j => ~Less(q[k], q[c])
  BY <1>1, ChildFacts
<1>7. \A k \in 2..n : k \div 2 # j => ~Less(q[k], q[k \div 2])
  BY DEF HeapBelow
<1> HIDE DEF c, n
<1>8. ASSUME NEW k \in 2..n PROVE ~Less(q[k], q[k \div 2])
  <2>1. CASE k \div 2 = j
    <3>1. 2 * j <= n /\ c \in 1..n /\ ~Less(q[k], q[c]) /\ ~Less(q[c], q[j])
      BY <1>4, <1>5, <1>6, <2>1
    <3> QED
      BY <1>2, <1>4, <2>1, <3>1, LessIsStrictWeakOrder
  <2> QED
    BY <1>7, <2>1
<1>9. Heap(Pop(q), n)
  BY <1>3, <1>4, <1>8 DEF Heap
<1> QED
  BY <1>9 DEF n

(* In a heap nothing is before the root.  Among the indices of items before  *)
(* it there would be a least one, and the parent of that item would be       *)
(* before the root as well.                                                  *)
LEMMA RootIsForemost ==
    ASSUME NEW q \in Seq(License), Heap(q, Len(q)), NEW k \in 1..Len(q)
    PROVE  ~Less(q[k], q[1])
<1> DEFINE n == Len(q)
           T == {i \in 1..n : Less(q[i], q[1])}
           R == OpToRel(<, Nat)
<1>1. n \in Nat /\ 1 \in 1..n /\ \A i \in 1..n : q[i] \in License
  BY SliceItems
<1> SUFFICES ASSUME T # {} PROVE FALSE
  OBVIOUS
<1>2. T \subseteq Nat
  BY <1>1
<1>3. \E x \in T : \A y \in T : <<y, x>> \notin R
  <2> HIDE DEF T, R
  <2>1. IsWellFoundedOn(R, Nat)
    BY NatLessThanWellFounded DEF R
  <2> QED
    BY <1>2, <2>1, WFMin
<1>4. PICK x \in T : \A y \in T : <<y, x>> \notin R
  BY <1>3
<1>5. \A y \in T : ~(y < x)
  BY <1>2, <1>4 DEF OpToRel
<1>6. x \in 2..n /\ x \div 2 \in 1..n /\ x \div 2 < x
  BY <1>1, Halves, LessIsStrictWeakOrder
<1>7. ~Less(q[x], q[x \div 2]) /\ Less(q[x], q[1])
  BY <1>6 DEF Heap
<1>8. Less(q[x \div 2], q[1])
  BY <1>1, <1>6, <1>7, LessIsStrictWeakOrder
<1> QED
  BY <1>5, <1>6, <1>8


-----------------------------------------------------------------------------
(* The inductive invariant. *)

Items(q) == {q[i] : i \in 1..Len(q)}

(* One call at a time has the mutex, and Add has room for its pushes. *)
Mutex ==
    /\ lock # Free => adding = NoLicense
    /\ adding = NoLicense => todo = {}
    /\ adding # NoLicense => adding \in store /\ todo \subseteq FeaturesOf[adding]
    /\ \A f \in todo : Len(queue[f]) < MaxLen

(* The pass under way belongs to the call that has the mutex, and its queue  *)
(* is a heap but for the item it moves.                                      *)
Pass ==
    /\ sift.way = "none" => sift = Settled
    /\ sift.way = "up" =>
          /\ adding # NoLicense /\ sift.on \in Feature
          /\ sift.at \in 1..Len(queue[sift.on])
          /\ HeapAbove(queue[sift.on], Len(queue[sift.on]), sift.at)
    /\ sift.way = "down" =>
          /\ lock # Free /\ sift.on = lock
          /\ sift.at \in 1..Len(queue[lock])
          /\ HeapBelow(queue[lock], Len(queue[lock]) - 1, sift.at)

(* Queues hold licenses that cover their feature, and of the live ones only  *)
(* such as the store knows.                                                  *)
QueuedIsKnown ==
    \A f \in Feature : \A l \in Items(queue[f]) :
       f \in FeaturesOf[l] /\ (Live(l, now) => l \in store)

(* What is stored is in the queue of each of its features, unless its Add    *)
(* has still to push it there.                                               *)
KnownIsQueued ==
    \A l \in store : \A f \in FeaturesOf[l] :
       l \in Items(queue[f]) \/ (l = adding /\ f \in todo)

(* A dead license that nothing left in the looked-up queue is before. *)
Gone(l) == ~Live(l, now) /\ \A m \in Items(queue[lock]) : ~Less(m, l)

(* What a lookup has taken from the queue it found, and what it is about to  *)
(* take, is gone in that sense.                                              *)
Drained ==
    lock # Free =>
       /\ \A l \in License :
             \/ Count(queue[lock], l) = Count(entry, l)
             \/ Count(queue[lock], l) < Count(entry, l) /\ Gone(l)
       /\ sift.way = "down" => Gone(queue[lock][Len(queue[lock])])

IInv == /\ TypeOK
        /\ Mutex
        /\ Pass
        /\ HeapOrdered
        /\ QueuedIsKnown
        /\ KnownIsQueued
        /\ Drained


-----------------------------------------------------------------------------
(* What exchanging, cutting off and appending does to the set of items. *)

LEMMA ItemsCounted ==
    ASSUME NEW q \in Seq(License)
    PROVE  /\ Items(q) \subseteq License
           /\ \A l : Count(q, l) \in Nat /\ (Count(q, l) > 0 <=> l \in Items(q))
  BY SliceItems, CountZero DEF Items

LEMMA SwapKeepsItems ==
    ASSUME NEW q \in Seq(License), NEW i \in 1..Len(q), NEW j \in 1..Len(q)
    PROVE  Items(Swap(q, i, j)) = Items(q)
<1> DEFINE r == Swap(q, i, j)
<1>1. /\ Len(r) = Len(q)
      /\ \A k \in 1..Len(q) : r[k] = IF k = j THEN q[i] ELSE IF k = i THEN q[j] ELSE q[k]
  BY SwapItems
<1> HIDE DEF r
<1>2. Items(r) \subseteq Items(q)
  BY <1>1 DEF Items
<1>3. ASSUME NEW k \in 1..Len(q) PROVE q[k] \in Items(r)
  <2>1. \E m \in 1..Len(r) : r[m] = q[k]
    <3>1. CASE k = i
      BY <1>1, <3>1
    <3>2. CASE k = j
      BY <1>1, <3>2
    <3>3. CASE k # i /\ k # j
      BY <1>1, <3>3
    <3> QED
      BY <3>1, <3>2, <3>3
  <2> QED
    BY <2>1 DEF Items
<1> QED
  BY <1>2, <1>3 DEF Items, r

LEMMA PopTakesLast ==
    ASSUME NEW q \in Seq(License), Len(q) > 0
    PROVE  /\ Items(Pop(q)) \subseteq Items(q)
           /\ q[Len(q)] \in Items(q)
           /\ Items(q) \subseteq Items(Pop(q)) \cup {q[Len(q)]}
<1>1. Len(q) \in Nat
  BY SliceItems
<1>2. Len(Pop(q)) = Len(q) - 1 /\ \A k \in 1..(Len(q) - 1) : Pop(q)[k] = q[k]
  BY PopItems
<1>3. \A k \in 1..Len(q) : k = Len(q) \/ k \in 1..(Len(q) - 1)
  BY <1>1
<1>4. \A k \in 1..(Len(q) - 1) : k \in 1..Len(q)
  BY <1>1
<1>5. Len(q) \in 1..Len(q)
  BY <1>1
<1>6. Items(Pop(q)) \subseteq Items(q) /\ q[Len(q)] \in Items(q)
  BY <1>2, <1>4, <1>5 DEF Items
<1>7. Items(q) \subseteq Items(Pop(q)) \cup {q[Len(q)]}
  BY <1>2, <1>3 DEF Items
<1> QED
  BY <1>6, <1>7

LEMMA AppendAddsOne ==
    ASSUME NEW q \in Seq(License), NEW l \in License
    PROVE  Items(Append(q, l)) = Items(q) \cup {l}
<1>1. Len(q) \in Nat
  BY SliceItems
<1>2. /\ Len(Append(q, l)) = Len(q) + 1
      /\ Append(q, l)[Len(q) + 1] = l
      /\ \A k \in 1..Len(q) : Append(q, l)[k] = q[k]
  BY AppendItems
<1>3. 1..(Len(q) + 1) = (1..Len(q)) \cup {Len(q) + 1}
  BY <1>1
<1> QED
  BY <1>2, <1>3 DEF Items

(* A license that is dead stays dead. *)
LEMMA DeadStaysDead ==
    ASSUME NEW l \in License, NEW t \in Int, NEW u \in Int, t <= u, Live(l, u)
    PROVE  Live(l, t)
  BY LicenseAssumption DEF Live

-----------------------------------------------------------------------------
(* Every step keeps the invariant. *)

LEMMA InitIInv == Init => IInv
<1> SUFFICES ASSUME Init PROVE IInv
  OBVIOUS
<1>1. <<>> \in Slice /\ Len(<<>>) = 0
  BY EmptySeq, HeapAssumption DEF Slice
<1>2. TypeOK
  BY <1>1, HeapAssumption DEF Init, TypeOK, Settled
<1>3. Mutex /\ Pass
  BY DEF Init, Mutex, Pass, Settled
<1>4. HeapOrdered /\ QueuedIsKnown /\ KnownIsQueued /\ Drained
  BY <1>1 DEF Init, HeapOrdered, QueuedIsKnown, KnownIsQueued, Drained, Items
<1> QED
  BY <1>2, <1>3, <1>4 DEF IInv

LEMMA StutterIInv == IInv /\ UNCHANGED vars => IInv'
  BY DEF IInv, vars, TypeOK, Mutex, Pass, HeapOrdered, QueuedIsKnown, KnownIsQueued,
         Drained, Gone

LEMMA TickIInv == IInv /\ Tick => IInv'
<1> SUFFICES ASSUME IInv, Tick PROVE IInv'
  OBVIOUS
<1>1. UNCHANGED <<queue, store, lock, adding, todo, sift, entry, answer>>
  BY DEF Tick
<1>2. now \in Int /\ now' \in Int /\ now <= now' /\ now' \in 0..MaxTime
  BY HeapAssumption DEF IInv, TypeOK, Tick
<1>3. \A l \in License : Live(l, now') => Live(l, now)
  BY <1>2, DeadStaysDead
<1>4. TypeOK' /\ Mutex' /\ Pass' /\ HeapOrdered' /\ KnownIsQueued'
  BY <1>1, <1>2 DEF IInv, TypeOK, Mutex, Pass, HeapOrdered, KnownIsQueued
<1>5. \A f \in Feature : queue[f] \in Seq(License) /\ Items(queue[f]) \subseteq License
  BY ItemsCounted DEF IInv, TypeOK, Slice
<1>6. QueuedIsKnown'
  BY <1>1, <1>3, <1>5 DEF IInv, QueuedIsKnown
<1>7. Drained'
  <2> SUFFICES ASSUME lock # Free PROVE Drained'
    BY <1>1 DEF Drained
  <2>1. lock \in Feature /\ queue[lock] \in Seq(License)
    BY <1>5 DEF IInv, TypeOK
  <2>2. \A l \in License : Gone(l) => Gone(l)'
    BY <1>1, <1>3 DEF Gone
  <2>3. sift.way = "down" => queue[lock][Len(queue[lock])] \in License
    <3>1. sift.way = "down" => Len(queue[lock]) \in 1..Len(queue[lock])
      BY <2>1, SliceItems DEF IInv, Pass
    <3> QED
      BY <2>1, <3>1, SliceItems
  <2> QED
    BY <1>1, <2>2, <2>3 DEF IInv, Drained
<1> QED
  BY <1>4, <1>6, <1>7 DEF IInv

LEMMA AddIInv == ASSUME NEW l \in License PROVE IInv /\ Add(l) => IInv'
<1> SUFFICES ASSUME IInv, Add(l) PROVE IInv'
  OBVIOUS
<1>1. /\ lock = Free /\ adding = NoLicense /\ todo = {}
      /\ store' = store \cup {l} /\ adding' = l /\ todo' = FeaturesOf[l]
      /\ \A f \in FeaturesOf[l] : Len(queue[f]) < MaxLen
      /\ UNCHANGED <<now, queue, lock, sift, entry, answer>>
  BY DEF Add, Held, IInv, Mutex
<1>2. FeaturesOf[l] \subseteq Feature /\ l # NoLicense
  BY LicenseAssumption
<1>3. TypeOK' /\ Mutex'
  BY <1>1, <1>2 DEF IInv, TypeOK, Mutex
<1>4. sift.way = "none" /\ sift = Settled
  BY <1>1 DEF IInv, TypeOK, Pass
<1>5. Pass' /\ HeapOrdered' /\ Drained'
  BY <1>1, <1>4 DEF IInv, Pass, HeapOrdered, Drained
<1>6. QueuedIsKnown' /\ KnownIsQueued'
  BY <1>1 DEF IInv, QueuedIsKnown, KnownIsQueued
<1> QED
  BY <1>3, <1>5, <1>6 DEF IInv

(* The pass AddTo begins: the queue is a heap but for its new last item. *)
LEMMA AddToIInv == ASSUME NEW f \in Feature PROVE IInv /\ AddTo(f) => IInv'
<1> SUFFICES ASSUME IInv, AddTo(f) PROVE IInv'
  OBVIOUS
<1> DEFINE q == queue[f]
           r == Append(q, adding)
<1>1. /\ f \in todo /\ sift = Settled
      /\ queue' = [queue EXCEPT ![f] = r]
      /\ sift' = [way |-> "up", on |-> f, at |-> Len(q) + 1]
      /\ todo' = todo \ {f}
      /\ UNCHANGED <<now, store, lock, adding, entry, answer>>
  BY DEF AddTo, Push
<1>2. /\ adding # NoLicense /\ adding \in License /\ adding \in store
      /\ lock = Free /\ f \in FeaturesOf[adding] /\ Len(q) < MaxLen
  BY <1>1 DEF IInv, TypeOK, Mutex
<1>3. q \in Seq(License) /\ Len(q) \in Nat
  BY SliceItems DEF IInv, TypeOK, Slice
<1>4. r \in Seq(License) /\ Len(r) = Len(q) + 1 /\ Items(r) = Items(q) \cup {adding}
  BY <1>2, <1>3, AppendItems, AppendAddsOne
<1>5. Len(q) + 1 \in 0..MaxLen /\ r \in Slice
  BY <1>2, <1>3, <1>4, HeapAssumption DEF Slice
<1>6. HeapAbove(r, Len(r), Len(q) + 1)
  <2>1. Heap(q, Len(q))
    BY <1>1, HeapAssumption DEF IInv, HeapOrdered, Heap, Settled
  <2> QED
    BY <1>2, <1>3, <1>4, <2>1, AppendHeap
<1>7. queue \in [Feature -> Slice]
  BY DEF IInv, TypeOK
<1> HIDE DEF r
<1>8. queue'[f] = r /\ \A g \in Feature \ {f} : queue'[g] = queue[g]
  BY <1>1, <1>7
<1>9. sift'.way = "up" /\ sift'.on = f /\ sift'.at = Len(q) + 1
  BY <1>1
<1>10. TypeOK'
  BY <1>1, <1>5, <1>7 DEF IInv, TypeOK
<1>11. Mutex'
  BY <1>1, <1>2, <1>8, <1>10 DEF IInv, Mutex, TypeOK
<1>12. Pass'
  BY <1>1, <1>2, <1>3, <1>4, <1>6, <1>8, <1>9 DEF Pass
<1>13. HeapOrdered'
  BY <1>1, <1>8, <1>9, HeapAssumption DEF IInv, HeapOrdered, Settled
<1>14. QueuedIsKnown'
  BY <1>1, <1>2, <1>4, <1>8 DEF IInv, QueuedIsKnown
<1>15. KnownIsQueued'
  <2>1. \A g \in Feature : Items(queue[g]) \subseteq Items(queue'[g])
    BY <1>4, <1>8
  <2>2. store \subseteq License /\ \A l \in License : FeaturesOf[l] \subseteq Feature
    BY LicenseAssumption DEF IInv, TypeOK
  <2>3. adding \in Items(queue'[f])
    BY <1>4, <1>8
  <2> QED
    BY <1>1, <2>1, <2>2, <2>3 DEF IInv, KnownIsQueued
<1>16. Drained'
  BY <1>1, <1>2 DEF Drained
<1> QED
  BY <1>10, <1>11, <1>12, <1>13, <1>14, <1>15, <1>16 DEF IInv


LEMMA AddedIInv == IInv /\ Added => IInv'
<1> SUFFICES ASSUME IInv, Added PROVE IInv'
  OBVIOUS
<1>1. /\ adding # NoLicense /\ todo = {} /\ sift = Settled /\ adding' = NoLicense
      /\ UNCHANGED <<now, queue, store, lock, todo, sift, entry, answer>>
  BY DEF Added
<1>2. lock = Free /\ sift.way = "none"
  BY <1>1 DEF IInv, Mutex, Settled
<1>3. TypeOK' /\ Mutex' /\ Pass'
  BY <1>1, <1>2 DEF IInv, TypeOK, Mutex, Pass
<1>4. HeapOrdered' /\ QueuedIsKnown' /\ KnownIsQueued' /\ Drained'
  BY <1>1, <1>2 DEF IInv, HeapOrdered, QueuedIsKnown, KnownIsQueued, Drained
<1> QED
  BY <1>3, <1>4 DEF IInv

LEMMA LockIInv == ASSUME NEW f \in Feature PROVE IInv /\ Lock(f) => IInv'
<1> SUFFICES ASSUME IInv, Lock(f) PROVE IInv'
  OBVIOUS
<1>1. /\ lock = Free /\ adding = NoLicense /\ lock' = f /\ entry' = queue[f]
      /\ UNCHANGED <<now, queue, store, adding, todo, sift, answer>>
  BY DEF Lock, Held
<1>2. sift.way = "none" /\ sift = Settled
  BY <1>1 DEF IInv, TypeOK, Pass
<1>3. TypeOK' /\ Mutex' /\ Pass'
  BY <1>1, <1>2 DEF IInv, TypeOK, Mutex, Pass
<1>4. HeapOrdered' /\ QueuedIsKnown' /\ KnownIsQueued'
  BY <1>1 DEF IInv, HeapOrdered, QueuedIsKnown, KnownIsQueued
<1>5. Drained'
  BY <1>1, <1>2 DEF Drained
<1> QED
  BY <1>3, <1>4, <1>5 DEF IInv

(* The pass PopRoot begins.  The root goes last: it is dead, and nothing in  *)
(* the queue is before it.                                                   *)
LEMMA PopRootIInv == IInv /\ PopRoot => IInv'
<1> SUFFICES ASSUME IInv, PopRoot PROVE IInv'
  OBVIOUS
<1> DEFINE q == queue[lock]
           r == Swap(q, 1, Len(q))
<1>1. /\ lock # Free /\ sift = Settled /\ q # <<>> /\ ~Live(q[1], now)
      /\ queue' = [queue EXCEPT ![lock] = r]
      /\ sift' = [way |-> "down", on |-> lock, at |-> 1]
      /\ UNCHANGED <<now, store, lock, adding, todo, entry, answer>>
  BY DEF PopRoot
<1>2. lock \in Feature /\ adding = NoLicense /\ todo = {} /\ queue \in [Feature -> Slice]
  BY <1>1 DEF IInv, TypeOK, Mutex
<1>3. q \in Seq(License) /\ Len(q) \in Nat /\ Len(q) > 0 /\ Len(q) <= MaxLen
  BY <1>1, <1>2, SliceItems DEF Slice
<1>4. 1 \in 1..Len(q) /\ Len(q) \in 1..Len(q) /\ 1 \in 0..MaxLen
  BY <1>3, HeapAssumption
<1>5. /\ r \in Seq(License) /\ Len(r) = Len(q) /\ r \in Slice
      /\ Items(r) = Items(q) /\ r[Len(q)] = q[1]
      /\ \A l \in License : Count(r, l) = Count(q, l)
  <2>1. r \in Seq(License) /\ Len(r) = Len(q) /\ r[Len(q)] = q[1]
    BY <1>3, <1>4, SwapItems
  <2>2. Items(r) = Items(q) /\ \A l \in License : Count(r, l) = Count(q, l)
    BY <1>3, <1>4, SwapKeepsItems, CountSwap
  <2> QED
    BY <1>3, <2>1, <2>2 DEF Slice
<1>6. Heap(q, Len(q))
  BY <1>1, <1>2, HeapAssumption DEF IInv, HeapOrdered, Heap, Settled
<1>7. HeapBelow(r, Len(q) - 1, 1)
  BY <1>3, <1>6, SwapHeap
<1>8. \A m \in Items(q) : ~Less(m, q[1])
  BY <1>3, <1>6, RootIsForemost DEF Items
<1> HIDE DEF r
<1>9. queue'[lock] = r /\ \A g \in Feature \ {lock} : queue'[g] = queue[g]
  BY <1>1, <1>2
<1>10. sift'.way = "down" /\ sift'.on = lock /\ sift'.at = 1
  BY <1>1
<1>11. TypeOK' /\ Mutex'
  BY <1>1, <1>2, <1>4, <1>5 DEF IInv, TypeOK, Mutex
<1>12. Pass'
  BY <1>1, <1>3, <1>5, <1>7, <1>9, <1>10 DEF Pass
<1>13. HeapOrdered'
  BY <1>1, <1>9, <1>10, HeapAssumption DEF IInv, HeapOrdered, Settled
<1>14. \A g \in Feature : Items(queue'[g]) = Items(queue[g])
  BY <1>5, <1>9
<1>15. QueuedIsKnown'
  BY <1>1, <1>14 DEF IInv, QueuedIsKnown
<1>16. KnownIsQueued'
  BY <1>1, <1>14, LicenseAssumption DEF IInv, KnownIsQueued, TypeOK
<1>17. Drained'
  <2>1. \A l \in License : Gone(l) => Gone(l)'
    BY <1>1, <1>5, <1>9 DEF Gone
  <2>2. Gone(queue[lock][Len(queue[lock])])'
    BY <1>1, <1>5, <1>8, <1>9 DEF Gone
  <2>3. \A l \in License : \/ Count(queue'[lock], l) = Count(entry', l)
                           \/ Count(queue'[lock], l) < Count(entry', l) /\ Gone(l)'
    BY <1>1, <1>5, <1>9, <2>1 DEF IInv, Drained
  <2> QED
    BY <1>1, <2>2, <2>3 DEF Drained
<1> QED
  BY <1>11, <1>12, <1>13, <1>15, <1>16, <1>17 DEF IInv

LEMMA ReturnIInv == IInv /\ Return => IInv'
<1> SUFFICES ASSUME IInv, Return PROVE IInv'
  OBVIOUS
<1>1. PICK l \in License \cup {NoLicense} : Unlock(l)
  <2>1. lock \in Feature /\ queue[lock] \in Seq(License)
    BY DEF Return, IInv, TypeOK, Slice
  <2>2. queue[lock] # <<>> => queue[lock][1] \in License
    BY <2>1, SliceItems
  <2> QED
    BY <2>2 DEF Return
<1>2. /\ lock # Free /\ sift = Settled /\ lock' = Free /\ answer' = <<lock, l>>
      /\ entry' = <<>> /\ UNCHANGED <<now, queue, store, adding, todo, sift>>
  BY <1>1 DEF Return, Unlock
<1>3. <<>> \in Slice
  BY EmptySeq, HeapAssumption DEF Slice
<1>4. TypeOK' /\ Mutex'
  BY <1>2, <1>3 DEF IInv, TypeOK, Mutex
<1>5. Pass' /\ HeapOrdered' /\ Drained'
  BY <1>2 DEF IInv, Pass, HeapOrdered, Drained, Settled
<1>6. QueuedIsKnown' /\ KnownIsQueued'
  BY <1>2 DEF IInv, QueuedIsKnown, KnownIsQueued
<1> QED
  BY <1>4, <1>5, <1>6 DEF IInv

(* One exchange of a pass: no item enters or leaves a queue, and no count    *)
(* changes.                                                                  *)
LEMMA ExchangeIInv ==
    ASSUME IInv, NEW i \in 1..Len(queue[sift.on]), Exchange(i),
           sift.way \in {"up", "down"}, sift.at \in 1..Len(queue[sift.on]),
           sift.way = "down" => /\ i # Len(queue[sift.on])
                                /\ sift.at # Len(queue[sift.on]),
           UNCHANGED <<now, store, lock, adding, todo, entry, answer>>, Pass'
    PROVE  IInv'
<1> DEFINE f == sift.on
           q == queue[f]
           r == Swap(q, sift.at, i)
<1>1. f \in Feature /\ queue \in [Feature -> Slice]
  BY DEF IInv, TypeOK, Pass
<1>2. q \in Seq(License) /\ Len(q) \in Nat /\ Len(q) <= MaxLen
  BY <1>1, SliceItems DEF Slice
<1>3. /\ r \in Seq(License) /\ Len(r) = Len(q) /\ r \in Slice
      /\ Items(r) = Items(q)
      /\ \A l \in License : Count(r, l) = Count(q, l)
      /\ \A k \in 1..Len(q) : k # i /\ k # sift.at => r[k] = q[k]
  <2>1. /\ r \in Seq(License) /\ Len(r) = Len(q)
        /\ \A k \in 1..Len(q) : k # i /\ k # sift.at => r[k] = q[k]
    <3> DEFINE a == sift.at
    <3>1. a \in 1..Len(q) /\ i \in 1..Len(q)
      OBVIOUS
    <3> HIDE DEF a, q
    <3>2. /\ Swap(q, a, i) \in Seq(License) /\ Len(Swap(q, a, i)) = Len(q)
          /\ \A k \in 1..Len(q) :
                Swap(q, a, i)[k] = IF k = i THEN q[a] ELSE IF k = a THEN q[i] ELSE q[k]
      BY <1>2, <3>1, SwapItems
    <3> QED
      BY <3>2 DEF a
  <2>2. Items(r) = Items(q) /\ \A l \in License : Count(r, l) = Count(q, l)
    BY <1>2, SwapKeepsItems, CountSwap
  <2> QED
    BY <1>2, <2>1, <2>2 DEF Slice
<1>4. queue' = [queue EXCEPT ![f] = r] /\ sift' = [sift EXCEPT !.at = i]
  BY DEF Exchange
<1> HIDE DEF r
<1>5. queue'[f] = r /\ \A g \in Feature \ {f} : queue'[g] = queue[g]
  BY <1>1, <1>4
<1>6. sift'.way = sift.way /\ sift'.on = f
  BY <1>4 DEF IInv, TypeOK
<1>7. TypeOK'
  <2>1. i \in 0..MaxLen
    BY <1>2, HeapAssumption
  <2>2. queue' \in [Feature -> Slice]
    BY <1>1, <1>3, <1>4
  <2>3. sift' \in [way : {"none", "up", "down"}, on : Feature \cup {Free}, at : 0..MaxLen]
    BY <1>4, <2>1 DEF IInv, TypeOK
  <2> QED
    BY <2>2, <2>3 DEF IInv, TypeOK
<1>8. \A g \in Feature : Items(queue'[g]) = Items(queue[g]) /\ Len(queue'[g]) = Len(queue[g])
  BY <1>3, <1>5
<1>9. Mutex'
  BY <1>7, <1>8 DEF IInv, Mutex, TypeOK
<1>10. HeapOrdered'
  BY <1>5, <1>6 DEF IInv, HeapOrdered
<1>11. QueuedIsKnown'
  BY <1>8 DEF IInv, QueuedIsKnown
<1>12. KnownIsQueued'
  BY <1>8, LicenseAssumption DEF IInv, KnownIsQueued, TypeOK
<1>13. Drained'
  <2> SUFFICES ASSUME lock # Free PROVE Drained'
    BY DEF Drained
  <2>1. sift.way = "down" /\ f = lock /\ Len(q) \in 1..Len(q)
    BY <1>2 DEF IInv, Pass, Mutex
  <2>2. \A l \in License : Gone(l) => Gone(l)'
    BY <1>3, <1>5, <2>1 DEF Gone
  <2>3. r[Len(r)] = q[Len(q)] /\ q[Len(q)] \in License
    BY <1>2, <1>3, <2>1, SliceItems
  <2> QED
    BY <1>3, <1>5, <2>1, <2>2, <2>3 DEF IInv, Drained
<1> QED
  BY <1>7, <1>9, <1>10, <1>11, <1>12, <1>13 DEF IInv


LEMMA UpIInv == IInv /\ Up => IInv'
<1> SUFFICES ASSUME IInv, Up PROVE IInv'
  OBVIOUS
<1> DEFINE f == sift.on
           q == queue[f]
           j == sift.at
<1>1. /\ sift.way = "up" /\ UNCHANGED <<now, store, lock, adding, todo, entry, answer>>
      /\ adding # NoLicense /\ f \in Feature /\ j \in 1..Len(q) /\ HeapAbove(q, Len(q), j)
  BY DEF Up, IInv, Pass
<1>2. q \in Seq(License) /\ Len(q) \in Nat /\ queue \in [Feature -> Slice]
  BY <1>1, SliceItems DEF IInv, TypeOK, Slice
<1>3. CASE j > 1 /\ Less(q[j], q[j \div 2])
  <2>1. Exchange(j \div 2)
    BY <1>3 DEF Up
  <2>2. j \in 2..Len(q) /\ j \div 2 \in 1..Len(q)
    BY <1>1, <1>2, <1>3, Halves
  <2> DEFINE r == Swap(q, j, j \div 2)
  <2>3. r \in Seq(License) /\ Len(r) = Len(q) /\ HeapAbove(r, Len(q), j \div 2)
    BY <1>1, <1>2, <1>3, <2>2, SwapItems, UpTurn
  <2>4. queue' = [queue EXCEPT ![f] = r] /\ sift' = [sift EXCEPT !.at = j \div 2]
    BY <2>1 DEF Exchange
  <2> HIDE DEF r
  <2>5. queue'[f] = r
    BY <1>1, <1>2, <2>4
  <2>6. sift'.way = "up" /\ sift'.on = f /\ sift'.at = j \div 2
    BY <1>1, <2>4 DEF IInv, TypeOK
  <2>7. Pass'
    BY <1>1, <2>2, <2>3, <2>5, <2>6 DEF Pass
  <2> QED
    BY <1>1, <2>1, <2>2, <2>7, ExchangeIInv
<1>4. CASE ~(j > 1 /\ Less(q[j], q[j \div 2]))
  <2>1. sift' = Settled /\ queue' = queue
    BY <1>4 DEF Up
  <2>2. Heap(q, Len(q))
    BY <1>1, <1>2, <1>4, UpEnds
  <2>3. Settled.way = "none" /\ Settled.on = Free /\ Settled.at = 0
    BY DEF Settled
  <2>4. TypeOK'
    <3>1. 0 \in 0..MaxLen
      BY HeapAssumption
    <3>2. sift' \in [way : {"none", "up", "down"}, on : Feature \cup {Free}, at : 0..MaxLen]
      BY <2>1, <3>1 DEF Settled
    <3> QED
      BY <1>1, <2>1, <3>2 DEF IInv, TypeOK
  <2>5. Mutex' /\ Pass'
    BY <1>1, <2>1, <2>3 DEF IInv, Mutex, Pass
  <2>6. HeapOrdered'
    BY <1>1, <2>1, <2>2 DEF IInv, HeapOrdered, Heap
  <2>7. QueuedIsKnown' /\ KnownIsQueued'
    BY <1>1, <2>1 DEF IInv, QueuedIsKnown, KnownIsQueued
  <2>8. Drained'
    BY <1>1 DEF IInv, Mutex, Drained
  <2> QED
    BY <2>4, <2>5, <2>6, <2>7, <2>8 DEF IInv
<1> QED
  BY <1>3, <1>4

(* The end of a pop: the old root leaves its queue and the store. *)
LEMMA DropIInv ==
    ASSUME IInv, sift.way = "down",
           ~(/\ 2 * sift.at <= Len(queue[lock]) - 1
             /\ Less(queue[lock][Child(queue[lock], Len(queue[lock]) - 1, sift.at)],
                     queue[lock][sift.at])),
           queue' = [queue EXCEPT ![lock] = Pop(queue[lock])],
           store' = store \ {queue[lock][Len(queue[lock])]},
           sift' = Settled, UNCHANGED <<now, lock, adding, todo, entry, answer>>
    PROVE  IInv'
<1> DEFINE q == queue[lock]
           x == q[Len(q)]
           r == Pop(q)
<1>1. /\ lock # Free /\ sift.on = lock /\ sift.at \in 1..Len(q)
      /\ HeapBelow(q, Len(q) - 1, sift.at)
  BY DEF IInv, Pass
<1>2. /\ lock \in Feature /\ queue \in [Feature -> Slice]
      /\ adding = NoLicense /\ todo = {}
  BY <1>1 DEF IInv, TypeOK, Mutex
<1>3. /\ q \in Seq(License) /\ Len(q) \in Nat /\ Len(q) <= MaxLen
      /\ sift.at \in Nat /\ sift.at >= 1 /\ Len(q) > 0
  BY <1>1, <1>2, SliceItems DEF Slice
<1>4. /\ r \in Seq(License) /\ Len(r) = Len(q) - 1 /\ r \in Slice
      /\ Items(r) \subseteq Items(q) /\ x \in Items(q) /\ Items(q) \subseteq Items(r) \cup {x}
  BY <1>1, <1>3, PopItems, PopTakesLast, HeapAssumption DEF Slice
<1>5. Heap(r, Len(r))
  BY <1>1, <1>2, <1>3, <1>4, DownEnds
<1>6. x \in License /\ Items(q) \subseteq License
  BY <1>3, <1>4, ItemsCounted
<1>7. \A l \in License : Count(r, l) = IF l = x THEN Count(q, l) - 1 ELSE Count(q, l)
  BY <1>1, <1>3, CountPop
<1>8. Gone(x)
  BY <1>1 DEF IInv, Drained
<1> HIDE DEF r
<1>9. queue'[lock] = r /\ \A g \in Feature \ {lock} : queue'[g] = queue[g]
  BY <1>2 DEF r
<1>10. queue' \in [Feature -> Slice]
  BY <1>2, <1>4 DEF r
<1>11. sift'.way = "none" /\ sift'.on = Free /\ sift'.at = 0
  BY DEF Settled
<1>12. TypeOK'
  <2>1. 0 \in 0..MaxLen
    BY HeapAssumption
  <2>2. sift' \in [way : {"none", "up", "down"}, on : Feature \cup {Free}, at : 0..MaxLen]
    BY <2>1 DEF Settled
  <2> QED
    BY <1>10, <2>2 DEF IInv, TypeOK
<1>13. Mutex' /\ Pass'
  BY <1>2, <1>11 DEF IInv, Mutex, Pass
<1>14. HeapOrdered'
  BY <1>1, <1>5, <1>9 DEF IInv, HeapOrdered, Heap
<1>15. \A g \in Feature : Items(queue'[g]) \subseteq Items(queue[g])
  BY <1>4, <1>9
<1>16. QueuedIsKnown'
  <2> SUFFICES ASSUME NEW g \in Feature, NEW l \in Items(queue'[g])
               PROVE  g \in FeaturesOf[l] /\ (Live(l, now) => l \in store')
    BY DEF QueuedIsKnown
  <2>1. g \in FeaturesOf[l] /\ (Live(l, now) => l \in store)
    BY <1>15 DEF IInv, QueuedIsKnown
  <2> QED
    BY <1>8, <2>1 DEF Gone
<1>17. KnownIsQueued'
  <2> SUFFICES ASSUME NEW l \in store, l # x, NEW g \in FeaturesOf[l]
               PROVE  l \in Items(queue'[g])
    BY DEF KnownIsQueued
  <2>1. g \in Feature
    BY LicenseAssumption DEF IInv, TypeOK
  <2>2. l \in Items(queue[g])
    BY <1>2 DEF IInv, KnownIsQueued
  <2> QED
    BY <1>4, <1>9, <2>1, <2>2
<1>18. Drained'
  <2>1. \A l \in License : Gone(l) => Gone(l)'
    BY <1>4, <1>9 DEF Gone
  <2>2. \A l \in License : Count(q, l) \in Nat /\ Count(entry, l) \in Nat
    BY <1>3, ItemsCounted DEF IInv, TypeOK, Slice
  <2> QED
    BY <1>1, <1>6, <1>7, <1>8, <1>9, <1>11, <2>1, <2>2 DEF IInv, Drained
<1> QED
  BY <1>12, <1>13, <1>14, <1>16, <1>17, <1>18 DEF IInv

LEMMA DownIInv == IInv /\ Down => IInv'
<1> SUFFICES ASSUME IInv, Down PROVE IInv'
  OBVIOUS
<1> DEFINE q == queue[lock]
           n == Len(q) - 1
           j == sift.at
           c == Child(q, n, j)
<1>1. /\ sift.way = "down" /\ UNCHANGED <<now, lock, adding, todo, entry, answer>>
      /\ lock # Free /\ sift.on = lock /\ j \in 1..Len(q) /\ HeapBelow(q, n, j)
  BY DEF Down, IInv, Pass
<1>2. lock \in Feature /\ queue \in [Feature -> Slice]
  BY <1>1 DEF IInv, TypeOK
<1>3. /\ q \in Seq(License) /\ Len(q) \in Nat /\ n \in 0..Len(q)
      /\ j \in Nat /\ j >= 1 /\ Len(q) > 0
  BY <1>1, <1>2, SliceItems DEF Slice
<1>4. CASE 2 * j <= n /\ Less(q[c], q[j])
  <2>1. Exchange(c) /\ store' = store
    BY <1>1, <1>4 DEF Down
  <2>2. c \in 2..n /\ j < c
    BY <1>1, <1>2, <1>3, <1>4, ChildFacts
  <2> DEFINE r == Swap(q, j, c)
  <2>3. HeapBelow(r, n, c)
    BY <1>1, <1>2, <1>3, <1>4, DownTurn
  <2> HIDE DEF c
  <2>4. c \in 1..Len(q) /\ j \in 1..Len(q) /\ c # Len(q) /\ j # Len(q) /\ c >= 1
    BY <1>1, <1>2, <1>3, <2>2
  <2>5. r \in Seq(License) /\ Len(r) = Len(q)
    BY <1>3, <2>4, SwapItems
  <2>6. queue' = [queue EXCEPT ![lock] = r] /\ sift' = [sift EXCEPT !.at = c]
    BY <1>1, <2>1 DEF Exchange
  <2> HIDE DEF r
  <2>7. queue'[lock] = r
    BY <1>2, <2>6
  <2>8. sift'.way = "down" /\ sift'.on = lock /\ sift'.at = c
    BY <1>1, <2>6 DEF IInv, TypeOK
  <2>9. Pass'
    BY <1>1, <2>3, <2>4, <2>5, <2>7, <2>8 DEF Pass
  <2> QED
    BY <1>1, <2>1, <2>4, <2>9, ExchangeIInv
<1>5. CASE ~(2 * j <= n /\ Less(q[c], q[j]))
  <2>1. /\ queue' = [queue EXCEPT ![lock] = Pop(q)]
        /\ store' = store \ {q[Len(q)]} /\ sift' = Settled
    BY <1>1, <1>2, <1>5 DEF Down
  <2> QED
    BY <1>1, <1>5, <2>1, DropIInv
<1> QED
  BY <1>4, <1>5


LEMMA NextIInv == IInv /\ [Next]_vars => IInv'
  BY TickIInv, AddIInv, LockIInv, UpIInv, DownIInv, AddToIInv, AddedIInv, PopRootIInv,
     ReturnIInv, StutterIInv DEF Next, Holder

(* IInv is an invariant of the heaps and the calls that work on them. *)
THEOREM Invariance == Spec => []IInv
  BY InitIInv, NextIInv, PTL DEF Spec

(* Every slice holds licenses only, and no pass leaves its slice. *)
THEOREM TypeCorrect == Spec => []TypeOK
<1>1. IInv => TypeOK
  BY DEF IInv
<1> QED
  BY <1>1, Invariance, PTL

(* container/heap's passes restore the order that Less gives, in slices of   *)
(* any length: whenever a root is looked at its queue is a heap.             *)
THEOREM QueuesAreHeaps == Spec => []HeapOrdered
<1>1. IInv => HeapOrdered
  BY DEF IInv
<1> QED
  BY <1>1, Invariance, PTL

-----------------------------------------------------------------------------
(* The answer of a lookup. *)

(* Only Return gives the mutex of a lookup back. *)
LEMMA ReleaseIsReturn ==
    ASSUME [Next]_vars, lock # Free, lock' = Free
    PROVE  Return
<1>1. lock' # lock
  OBVIOUS
<1>2. ~Tick /\ ~UNCHANGED vars /\ ~Up /\ ~Down /\ ~Added /\ ~PopRoot
  BY <1>1 DEF Tick, vars, Up, Down, Added, PopRoot
<1>3. \A l \in License : ~Add(l)
  BY DEF Add, Held
<1>4. \A f \in Feature : ~Lock(f) /\ ~AddTo(f)
  BY <1>1 DEF Lock, Held, AddTo
<1> QED
  BY <1>2, <1>3, <1>4 DEF Next, Holder

(* A live root and a dead license that is not before it do not tie. *)
LEMMA LiveAndDeadDiffer ==
    ASSUME NEW l \in License, NEW m \in License, Live(l, now), ~Live(m, now)
    PROVE  Less(l, m) \/ Less(m, l)
  BY LessIsStrictWeakOrder DEF Live

(* What a lookup that may return finds at the root. *)
LEMMA ReturnFacts ==
    ASSUME IInv, Return
    PROVE  LET q == queue[lock] IN
           /\ lock \in Feature /\ q \in Seq(License) /\ Items(q) \subseteq License
           /\ UNCHANGED <<now, store>>
           /\ \/ Items(q) = {} /\ answer' = <<lock, NoLicense>>
              \/ /\ q[1] \in Items(q) /\ Live(q[1], now)
                 /\ \A m \in Items(q) : ~Less(m, q[1])
                 /\ answer' = <<lock, q[1]>>
<1> DEFINE q == queue[lock]
<1>1. /\ lock # Free /\ sift = Settled /\ UNCHANGED <<now, store>>
      /\ \/ q = <<>> /\ answer' = <<lock, NoLicense>>
         \/ q # <<>> /\ Live(q[1], now) /\ answer' = <<lock, q[1]>>
  BY DEF Return, Unlock
<1>2. lock \in Feature /\ q \in Seq(License)
  BY <1>1 DEF IInv, TypeOK, Slice
<1>3. Items(q) \subseteq License
  BY <1>2, ItemsCounted
<1>4. Heap(q, Len(q))
  BY <1>1, <1>2 DEF IInv, HeapOrdered, Heap, Settled
<1>5. CASE q = <<>> /\ answer' = <<lock, NoLicense>>
  <2>1. Len(q) = 0
    BY <1>2, <1>5, SliceItems
  <2> QED
    BY <1>1, <1>2, <1>3, <1>5, <2>1 DEF Items
<1>6. CASE q # <<>> /\ Live(q[1], now) /\ answer' = <<lock, q[1]>>
  <2>1. 1 \in 1..Len(q)
    BY <1>2, <1>6, SliceItems
  <2>2. q[1] \in Items(q) /\ \A m \in Items(q) : ~Less(m, q[1])
    BY <1>2, <1>4, <2>1, RootIsForemost DEF Items
  <2> QED
    BY <1>1, <1>2, <1>3, <1>6, <2>2
<1> QED
  BY <1>1, <1>5, <1>6

(* The loop, however many pops and ticks it takes, does what the one-step    *)
(* LicenseForFeature of RegistryMethods does at the time it returns.         *)
THEOREM LookupIsOneStep == Spec => LoopDrains
<1>1. ASSUME IInv, [Next]_vars, lock # Free, lock' = Free
      PROVE  /\ BagOf(queue[lock]) = [l \in License |->
                   IF l \in AtEntry!Popped(lock) THEN 0 ELSE Count(entry, l)]
             /\ answer'[2] \in AtEntry!Found(lock)
  <2> DEFINE q == queue[lock]
             P == AtEntry!Popped(lock)
             QL == {l \in Items(q) : Live(l, now)}
  <2>1. Return
    BY <1>1, ReleaseIsReturn
  <2>2. /\ lock \in Feature /\ q \in Seq(License) /\ Items(q) \subseteq License
        /\ \/ Items(q) = {} /\ answer' = <<lock, NoLicense>>
           \/ /\ q[1] \in Items(q) /\ Live(q[1], now)
              /\ \A m \in Items(q) : ~Less(m, q[1])
              /\ answer' = <<lock, q[1]>>
    BY <1>1, <2>1, ReturnFacts
  <2>3. entry \in Seq(License)
    BY <1>1 DEF IInv, TypeOK, Slice
  <2>4. \A l \in License : /\ Count(q, l) \in Nat /\ (Count(q, l) > 0 <=> l \in Items(q))
                           /\ Count(entry, l) \in Nat
    BY <2>2, <2>3, ItemsCounted
  <2>5. \A l \in License : \/ Count(q, l) = Count(entry, l)
                           \/ Count(q, l) < Count(entry, l) /\ Gone(l)
    BY <1>1 DEF IInv, Drained
  <2>6. AtEntry!QueuedLive(lock) = {l \in License : Count(entry, l) > 0 /\ Live(l, now)}
    BY <2>2 DEF AtEntry!QueuedLive, AtEntry!Queued, BagOf, AtEntry!Live, Live
  <2>7. AtEntry!QueuedLive(lock) = QL
    BY <2>2, <2>4, <2>5, <2>6 DEF Gone
  <2>8. P = {l \in License : /\ Count(entry, l) > 0 /\ ~Live(l, now)
                             /\ \A m \in QL : ~Less(m, l)}
    BY <2>2, <2>7 DEF AtEntry!Popped, AtEntry!Queued, BagOf, AtEntry!Live, Live,
                      AtEntry!Less, Less, AtEntry!rankTier, rankTier
  <2>9. BagOf(q) = [l \in License |-> IF l \in P THEN 0 ELSE Count(entry, l)]
    <3> HIDE DEF P, q
    <3>1. ASSUME NEW l \in P PROVE Count(q, l) = 0
      <4>1. l \in License /\ ~Live(l, now) /\ \A m \in QL : ~Less(m, l)
        BY <2>8
      <4>2. l \notin Items(q)
        BY <2>2, <4>1, LiveAndDeadDiffer
      <4> QED
        BY <2>4, <4>1, <4>2
    <3>2. ASSUME NEW l \in License, l \notin P PROVE Count(q, l) = Count(entry, l)
      <4>1. Count(q, l) < Count(entry, l) /\ Gone(l) => l \in P
        BY <2>4, <2>8 DEF Gone, q
      <4> QED
        BY <2>5, <3>2, <4>1
    <3> QED
      BY <3>1, <3>2 DEF BagOf
  <2>10. answer'[2] \in AtEntry!Found(lock)
    <3>1. AtEntry!Found(lock) = IF QL = {} THEN {NoLicense} ELSE Foremost(QL)
      BY <2>7 DEF AtEntry!Found, AtEntry!Foremost, Foremost, AtEntry!Less, Less,
                  AtEntry!rankTier, rankTier
    <3> QED
      BY <2>2, <3>1 DEF Foremost
  <2> QED
    BY <2>9, <2>10
<1>2. IInv /\ [Next]_vars =>
        [lock # Free /\ lock' = Free =>
           /\ BagOf(queue[lock]) = [l \in License |->
                 IF l \in AtEntry!Popped(lock) THEN 0 ELSE Count(entry, l)]
           /\ answer'[2] \in AtEntry!Found(lock)]_vars
  BY <1>1
<1> QED
  BY <1>2, Invariance, PTL DEF Spec, LoopDrains

-----------------------------------------------------------------------------
(* The heaps and the loops implement LicenseStore. *)

LEMMA ReturnRefines == ASSUME IInv, Return PROVE Store!Next
<1> DEFINE q == queue[lock]
           QL == {l \in Items(q) : Live(l, now)}
<1>1. /\ lock \in Feature /\ Items(q) \subseteq License /\ UNCHANGED <<now, store>>
      /\ \/ Items(q) = {} /\ answer' = <<lock, NoLicense>>
         \/ /\ q[1] \in Items(q) /\ Live(q[1], now)
            /\ \A m \in Items(q) : ~Less(m, q[1])
            /\ answer' = <<lock, q[1]>>
  BY ReturnFacts
<1>2. todo = {}
  BY DEF Return, IInv, Mutex
<1>3. Store!LiveFor(lock) = QL
  BY <1>1, <1>2
  DEF Store!LiveFor, Store!Live, Live, IInv, QueuedIsKnown, KnownIsQueued
<1>4. Store!Foremost(Store!LiveFor(lock)) = Foremost(QL)
  BY <1>3 DEF Store!Foremost, Foremost, Store!Less, Less, Store!rankTier, rankTier
<1>5. Store!Ask(lock)
  <2>1. store' \subseteq store /\ Store!MayForget(store \ store') /\ UNCHANGED now
    BY <1>1 DEF Store!MayForget
  <2>2. \/ Store!LiveFor(lock) = {} /\ answer' = <<lock, NoLicense>>
        \/ \E l \in Store!Foremost(Store!LiveFor(lock)) : answer' = <<lock, l>>
    <3>1. CASE Items(q) = {} /\ answer' = <<lock, NoLicense>>
      BY <1>3, <3>1
    <3>2. CASE /\ q[1] \in Items(q) /\ Live(q[1], now)
               /\ \A m \in Items(q) : ~Less(m, q[1])
               /\ answer' = <<lock, q[1]>>
      <4>1. q[1] \in Foremost(QL)
        BY <3>2 DEF Foremost
      <4> QED
        BY <1>4, <3>2, <4>1
    <3> QED
      BY <1>1, <3>1, <3>2
  <2> QED
    BY <2>1, <2>2 DEF Store!Ask
<1> QED
  BY <1>1, <1>5 DEF Store!Next

LEMMA DownRefines == ASSUME IInv, Down PROVE Store!Next \/ UNCHANGED Store!vars
<1>1. /\ sift.way = "down" /\ UNCHANGED <<now, answer>> /\ sift.on = lock
      /\ lock # Free
  BY DEF Down, IInv, Pass
<1>2. CASE store' = store
  BY <1>1, <1>2 DEF Store!vars
<1>3. CASE store' = store \ {queue[lock][Len(queue[lock])]}
  <2>1. ~Live(queue[lock][Len(queue[lock])], now)
    BY <1>1 DEF IInv, Drained, Gone
  <2>2. Store!Forget
    BY <1>1, <1>3, <2>1 DEF Store!Forget, Store!MayForget, Store!Live, Live
  <2> QED
    BY <2>2 DEF Store!Next
<1> QED
  BY <1>1, <1>2, <1>3 DEF Down

(* Slices, passes and loops notwithstanding, a caller sees a LicenseStore: a *)
(* live license is never lost, and a lookup yields a foremost live one.      *)
THEOREM Refinement == Spec => StoreSpec
<1>1. Init => Store!Init
  BY DEF Init, Store!Init
<1>2. IInv /\ [Next]_vars => [Store!Next]_Store!vars
  <2> SUFFICES ASSUME IInv, [Next]_vars PROVE Store!Next \/ UNCHANGED Store!vars
    OBVIOUS
  <2>1. CASE Tick
    BY <2>1 DEF Tick, Store!Tick, Store!Next
  <2>2. CASE \E l \in License : Add(l)
    BY <2>2 DEF Add, Store!Put, Store!Next
  <2>3. CASE \E f \in Feature : Lock(f) \/ AddTo(f)
    BY <2>3 DEF Lock, AddTo, Store!vars
  <2>4. CASE Up \/ Added \/ PopRoot
    BY <2>4 DEF Up, Added, PopRoot, Store!vars
  <2>5. CASE Down
    BY <2>5, DownRefines
  <2>6. CASE Return
    BY <2>6, ReturnRefines
  <2>7. CASE UNCHANGED vars
    BY <2>7 DEF vars, Store!vars
  <2> QED
    BY <2>1, <2>2, <2>3, <2>4, <2>5, <2>6, <2>7 DEF Next, Holder
<1> QED
  BY <1>1, <1>2, Invariance, PTL DEF Spec, StoreSpec, Store!Spec


-----------------------------------------------------------------------------
(* Progress under the mutex. *)

LEMMA UpAdvances ==
    ASSUME IInv, Up
    PROVE  lock = Free /\ todo' = todo /\ Way \in Nat /\ Way' \in Nat /\ Way' < Way
<1> DEFINE j == sift.at
<1>1. /\ sift.way = "up" /\ sift.on \in Feature /\ j \in 1..Len(queue[sift.on])
      /\ lock = Free /\ lock' = lock /\ todo' = todo
  BY DEF Up, IInv, Pass, Mutex
<1>2. j \in Nat /\ j >= 1
  BY <1>1, SliceItems DEF IInv, TypeOK, Slice
<1>3. Way = j
  BY <1>1 DEF Way
<1>4. CASE j > 1 /\ Less(queue[sift.on][j], queue[sift.on][j \div 2])
  <2>1. sift' = [sift EXCEPT !.at = j \div 2]
    BY <1>4 DEF Up, Exchange
  <2>2. sift'.way = "up" /\ sift'.at = j \div 2
    BY <1>1, <2>1 DEF IInv, TypeOK
  <2>3. Way' = j \div 2
    BY <2>2 DEF Way
  <2> QED
    BY <1>1, <1>2, <1>3, <1>4, <2>3, Halves
<1>5. CASE ~(j > 1 /\ Less(queue[sift.on][j], queue[sift.on][j \div 2]))
  <2>1. sift' = Settled
    BY <1>5 DEF Up
  <2>2. Way' = 0
    BY <1>1, <2>1 DEF Way, Settled
  <2> QED
    BY <1>1, <1>2, <1>3, <2>2
<1> QED
  BY <1>4, <1>5

LEMMA DownAdvances ==
    ASSUME IInv, Down
    PROVE  \/ lock # Free /\ Len(queue'[lock]) < Len(queue[lock])
           \/ /\ Len(queue'[lock]) = Len(queue[lock])
              /\ todo' = todo /\ Way \in Nat /\ Way' \in Nat /\ Way' < Way
<1> DEFINE q == queue[lock]
           n == Len(q) - 1
           j == sift.at
           c == Child(q, n, j)
<1>1. /\ sift.way = "down" /\ lock # Free /\ sift.on = lock /\ j \in 1..Len(q)
      /\ lock' = lock /\ todo' = todo
  BY DEF Down, IInv, Pass
<1>2. lock \in Feature /\ queue \in [Feature -> Slice]
  BY <1>1 DEF IInv, TypeOK
<1>3. /\ q \in Seq(License) /\ Len(q) \in Nat /\ n \in 0..Len(q)
      /\ j \in Nat /\ j >= 1 /\ j <= Len(q) /\ Len(q) > 0
  BY <1>1, <1>2, SliceItems DEF Slice
<1>4. Way = Len(q) - j
  BY <1>1 DEF Way
<1>5. CASE 2 * j <= n /\ Less(q[c], q[j])
  <2>1. /\ queue' = [queue EXCEPT ![lock] = Swap(q, j, c)]
        /\ sift' = [sift EXCEPT !.at = c]
    BY <1>1, <1>5 DEF Down, Exchange
  <2>2. c \in 2..n /\ j < c
    BY <1>3, <1>5, ChildFacts
  <2> HIDE DEF c
  <2>3. c \in 1..Len(q) /\ j \in 1..Len(q) /\ c \in Nat /\ c <= Len(q)
    BY <1>3, <2>2
  <2>4. Len(Swap(q, j, c)) = Len(q)
    BY <1>3, <2>3, SwapItems
  <2>5. Len(queue'[lock]) = Len(q)
    BY <1>2, <2>1, <2>4
  <2>6. sift'.way = "down" /\ sift'.at = c
    BY <1>1, <2>1 DEF IInv, TypeOK
  <2>7. Way' = Len(q) - c
    BY <1>1, <2>5, <2>6 DEF Way
  <2> QED
    BY <1>1, <1>3, <1>4, <2>2, <2>3, <2>5, <2>7
<1>6. CASE ~(2 * j <= n /\ Less(q[c], q[j]))
  <2>1. queue' = [queue EXCEPT ![lock] = Pop(q)]
    BY <1>1, <1>2, <1>6 DEF Down
  <2>2. Len(queue'[lock]) = Len(q) - 1
    BY <1>2, <1>3, <2>1, PopItems
  <2> QED
    BY <1>1, <1>3, <2>2
<1> QED
  BY <1>5, <1>6

LEMMA PopRootAdvances ==
    ASSUME IInv, PopRoot
    PROVE  /\ Len(queue'[lock]) = Len(queue[lock])
           /\ todo' = todo /\ Way \in Nat /\ Way' \in Nat /\ Way' < Way
<1> DEFINE q == queue[lock]
<1>1. /\ lock # Free /\ lock' = lock /\ todo' = todo /\ sift = Settled /\ q # <<>>
      /\ queue' = [queue EXCEPT ![lock] = Swap(q, 1, Len(q))]
      /\ sift' = [way |-> "down", on |-> lock, at |-> 1]
  BY DEF PopRoot
<1>2. lock \in Feature /\ queue \in [Feature -> Slice]
  BY <1>1 DEF IInv, TypeOK
<1>3. q \in Seq(License) /\ Len(q) \in Nat /\ Len(q) > 0
  BY <1>1, <1>2, SliceItems DEF Slice
<1>4. 1 \in 1..Len(q) /\ Len(q) \in 1..Len(q)
  BY <1>3
<1>5. Len(queue'[lock]) = Len(q)
  BY <1>1, <1>2, <1>3, <1>4, SwapItems
<1>6. Way = Len(q)
  BY <1>1 DEF Way, Settled
<1>7. Way' = Len(q) - 1
  BY <1>1, <1>5 DEF Way
<1> QED
  BY <1>1, <1>3, <1>5, <1>6, <1>7

(* Every loop that runs under the mutex has an end: each step but the last   *)
(* of a call lessens what is left of it in a well-founded order.             *)
THEOREM LoopsEnd == Spec => TurnsAdvance
<1>1. ASSUME IInv, [Next]_vars, ~UNCHANGED vars, Held, Held', now' = now
      PROVE  \/ lock # Free /\ Len(queue'[lock]) < Len(queue[lock])
             \/ adding # NoLicense /\ todo' \subseteq todo /\ todo' # todo
             \/ /\ lock # Free => Len(queue'[lock]) = Len(queue[lock])
                /\ todo' = todo
                /\ Way \in Nat /\ Way' \in Nat /\ Way' < Way
  <2>1. ~Tick
    BY <1>1 DEF Tick, IInv, TypeOK
  <2>2. ~(\E l \in License : Add(l)) /\ ~(\E f \in Feature : Lock(f))
    BY <1>1 DEF Add, Lock
  <2>3. ~Added /\ ~Return
    <3>1. Added => ~Held'
      BY <1>1 DEF Added, Held, IInv, Mutex
    <3>2. Return => ~Held'
      BY <1>1 DEF Return, Unlock, Held, IInv, Mutex
    <3> QED
      BY <1>1, <3>1, <3>2
  <2>4. CASE Up
    BY <1>1, <2>4, UpAdvances
  <2>5. CASE Down
    BY <1>1, <2>5, DownAdvances
  <2>6. CASE PopRoot
    BY <1>1, <2>6, PopRootAdvances
  <2>7. ASSUME NEW f \in Feature, AddTo(f)
        PROVE  adding # NoLicense /\ todo' \subseteq todo /\ todo' # todo
    BY <1>1, <2>7 DEF AddTo, IInv, Mutex
  <2> QED
    BY <1>1, <2>1, <2>2, <2>3, <2>4, <2>5, <2>6, <2>7 DEF Next, Holder
<1>2. IInv /\ [Next]_vars =>
        [Held /\ Held' /\ now' = now =>
           \/ lock # Free /\ Len(queue'[lock]) < Len(queue[lock])
           \/ adding # NoLicense /\ todo' \subseteq todo /\ todo' # todo
           \/ /\ lock # Free => Len(queue'[lock]) = Len(queue[lock])
              /\ todo' = todo
              /\ Way \in Nat /\ Way' \in Nat /\ Way' < Way]_vars
  BY <1>1
<1> QED
  BY <1>2, Invariance, PTL DEF Spec, TurnsAdvance
=============================================================================
