------------------------------ MODULE Boot_proofs ------------------------------
(* What is true of the kernel's start for every memory map: the clean-up of the *)
(* map stays in its array and leaves no overlaps but the BIOS's own, the zones  *)
(* divide the usable memory, the blocks that the contiguous allocator has given *)
(* are apart and make up the range that it reports to the next allocator, and   *)
(* without overlaps from the BIOS they were usable and are not the kernel's.    *)
EXTENDS Boot, NatLemmas, SequenceTheorems

--------------------------------------------------------------------------------
(* The regions, and what each step of the clean-up does to them.                *)

(* The regions that begin and end at addresses of A.                       *)
Regions(A) == {e \in [base : A, size : Int, type : Int] : Fin(e) \in A}

----------------------------------------------------------------------------
(* The sort.                                                               *)

(* Entry j of s comes before entry k, or is it.                            *)
NotAfter(s, j, k) == Before(s[j], s[k]) \/ (j <= k /\ ~ Before(s[k], s[j]))

LEMMA RegionParts ==
    ASSUME NEW A, NEW e \in Regions(A)
    PROVE  /\ e \in [base : A, size : Int, type : Int] /\ Fin(e) \in A
           /\ e.base \in A /\ e.size \in Int /\ e.type \in Int
BY DEF Regions

LEMMA RankOrder ==
    ASSUME NEW A \in SUBSET Int, NEW s \in Seq(Regions(A)),
           NEW j \in DOMAIN s, NEW k \in DOMAIN s, NEW l \in DOMAIN s
    PROVE  /\ NotAfter(s, k, k)
           /\ j # k => (NotAfter(s, j, k) <=> ~ NotAfter(s, k, j))
           /\ NotAfter(s, j, k) /\ NotAfter(s, k, l) => NotAfter(s, j, l)
<1>1. ASSUME NEW x \in DOMAIN s
      PROVE  x \in Int /\ s[x].base \in Int /\ s[x].size \in Int
  <2>1. x \in 1 .. Len(s) /\ Len(s) \in Nat
    BY LenProperties
  <2>2. s[x] \in Regions(A)
    BY <2>1, ElementOfSeq
  <2>3. s[x].base \in A /\ s[x].size \in Int
    BY <2>2, RegionParts
  <2>4. x \in Int
    BY <2>1
  <2>5. A \subseteq Int
    OBVIOUS
  <2>6. s[x].base \in Int
    BY <2>3, <2>5
  <2> QED BY <2>3, <2>4, <2>6
<1> DEFINE b(x) == s[x].base
           z(x) == s[x].size
<1>2. \A x, y \in DOMAIN s : NotAfter(s, x, y) <=>
        \/ b(x) < b(y) \/ (b(x) = b(y) /\ z(x) < z(y))
        \/ x <= y /\ ~ (b(y) < b(x) \/ (b(y) = b(x) /\ z(y) < z(x)))
  BY DEF NotAfter, Before
<1>3. /\ j \in Int /\ b(j) \in Int /\ z(j) \in Int
      /\ k \in Int /\ b(k) \in Int /\ z(k) \in Int
      /\ l \in Int /\ b(l) \in Int /\ z(l) \in Int
  BY <1>1
<1> HIDE DEF b, z
<1>4. NotAfter(s, k, k)
  BY <1>2, <1>3
<1>5. j # k => (NotAfter(s, j, k) <=> ~ NotAfter(s, k, j))
  BY <1>2, <1>3
<1>6. NotAfter(s, j, k) /\ NotAfter(s, k, l) => NotAfter(s, j, l)
  BY <1>2, <1>3
<1> QED BY <1>4, <1>5, <1>6

LEMMA RankGrows ==
    ASSUME NEW A \in SUBSET Int, NEW s \in Seq(Regions(A)),
           NEW j \in DOMAIN s, NEW k \in DOMAIN s, j # k, NotAfter(s, j, k)
    PROVE  Rank(s, j) < Rank(s, k)
<1> DEFINE Upto(x) == {y \in DOMAIN s : NotAfter(s, y, x)}
<1>1. IsFiniteSet(DOMAIN s)
  <2>1. DOMAIN s = 1 .. Len(s) /\ Len(s) \in Int /\ 1 \in Int
    BY LenProperties
  <2> QED BY <2>1, FS_Interval
<1>2. Upto(j) \subseteq Upto(k) /\ k \in Upto(k) /\ k \notin Upto(j)
  BY RankOrder
<1>3. IsFiniteSet(Upto(j)) /\ IsFiniteSet(Upto(k))
  <2>1. Upto(j) \in SUBSET DOMAIN s /\ Upto(k) \in SUBSET DOMAIN s
    OBVIOUS
  <2> HIDE DEF Upto
  <2> QED BY <1>1, <2>1, FS_Subset
<1>4. Rank(s, j) = Cardinality(Upto(j)) /\ Rank(s, k) = Cardinality(Upto(k))
  BY DEF Rank, NotAfter
<1> HIDE DEF Upto
<1>5. Cardinality(Upto(j)) <= Cardinality(Upto(k)) /\ Cardinality(Upto(j)) # Cardinality(Upto(k))
  <2>1. Upto(j) \in SUBSET Upto(k) /\ Upto(j) # Upto(k)
    BY <1>2
  <2> QED BY <1>3, <2>1, FS_Subset
<1>6. Cardinality(Upto(j)) \in Nat /\ Cardinality(Upto(k)) \in Nat
  BY <1>3, FS_CardinalityType
<1> QED BY <1>4, <1>5, <1>6

LEMMA RankRange ==
    ASSUME NEW A \in SUBSET Int, NEW s \in Seq(Regions(A)), NEW k \in DOMAIN s
    PROVE  Rank(s, k) \in 1 .. Len(s)
<1> DEFINE Upto == {y \in DOMAIN s : NotAfter(s, y, k)}
<1>1. DOMAIN s = 1 .. Len(s) /\ Len(s) \in Nat
  BY LenProperties
<1>2. IsFiniteSet(DOMAIN s) /\ Cardinality(DOMAIN s) = Len(s)
  <2>1. 1 \in Int /\ Len(s) \in Int
    BY <1>1
  <2>2. IsFiniteSet(1 .. Len(s)) /\ Cardinality(1 .. Len(s)) = IF 1 > Len(s) THEN 0 ELSE Len(s) - 1 + 1
    BY <2>1, FS_Interval
  <2> QED BY <1>1, <2>2
<1>3. Upto \in SUBSET DOMAIN s /\ k \in Upto
  BY RankOrder
<1>4. Rank(s, k) = Cardinality(Upto)
  BY DEF Rank, NotAfter
<1> HIDE DEF Upto
<1>5. IsFiniteSet(Upto) /\ Cardinality(Upto) <= Cardinality(DOMAIN s)
  BY <1>2, <1>3, FS_Subset
<1>6. Cardinality(Upto) \in Nat /\ Cardinality(Upto) # 0
  BY <1>3, <1>5, FS_CardinalityType, FS_EmptySet
<1> QED BY <1>1, <1>2, <1>4, <1>5, <1>6

(* Every place gets an entry: ranks are one to one.                        *)
LEMMA RankOnto ==
    ASSUME NEW A \in SUBSET Int, NEW s \in Seq(Regions(A)), NEW r \in DOMAIN s
    PROVE  \E k \in DOMAIN s : Rank(s, k) = r
<1> DEFINE D == 1 .. Len(s)
           f == [k \in D |-> Rank(s, k)]
<1>1. DOMAIN s = D /\ Len(s) \in Nat
  BY LenProperties
<1>2. IsFiniteSet(D) /\ Cardinality(D) = Cardinality(D)
  BY <1>1, FS_Interval
<1>3. f \in [D -> D]
  BY <1>1, RankRange
<1>4. ASSUME NEW j \in D, NEW k \in D, f[j] = f[k] PROVE j = k
  <2>1. SUFFICES ASSUME j # k PROVE FALSE
    OBVIOUS
  <2>2. Rank(s, j) = Rank(s, k)
    BY <1>4
  <2>3. Rank(s, j) \in Int /\ Rank(s, k) \in Int
    BY <1>1, RankRange
  <2>4. Rank(s, j) < Rank(s, k) \/ Rank(s, k) < Rank(s, j)
    BY <1>1, <2>1, RankOrder, RankGrows
  <2> QED BY <2>2, <2>3, <2>4
<1> HIDE DEF f
<1>5. f \in Injection(D, D)
  BY <1>3, <1>4 DEF Injection, IsInjective
<1>6. f \in Surjection(D, D)
  BY <1>2, <1>5, FS_Injection
<1>7. PICK k \in D : f[k] = r
  BY <1>1, <1>6 DEF Surjection
<1> QED BY <1>1, <1>7 DEF f

(* e820_sort keeps the number of entries, and each stays an entry.         *)
LEMMA SortedType ==
    ASSUME NEW A \in SUBSET Int, NEW s \in Seq(Regions(A))
    PROVE  Sorted(s) \in Seq(Regions(A)) /\ Len(Sorted(s)) = Len(s)
<1>1. DOMAIN s = 1 .. Len(s) /\ Len(s) \in Nat
  BY LenProperties
<1>2. ASSUME NEW r \in 1 .. Len(s)
      PROVE  s[CHOOSE k \in DOMAIN s : Rank(s, k) = r] \in Regions(A)
  <2>1. (CHOOSE k \in DOMAIN s : Rank(s, k) = r) \in 1 .. Len(s)
    BY <1>1, RankOnto
  <2> QED BY <2>1, ElementOfSeq
<1>3. Sorted(s) \in [1 .. Len(s) -> Regions(A)]
  BY <1>1, <1>2 DEF Sorted
<1> HIDE DEF Regions
<1> QED BY <1>1, <1>3, SeqDef

LEMMA SortedFromType ==
    ASSUME NEW A \in SUBSET Int, NEW s \in Seq(Regions(A)), NEW k \in 1 .. Len(s)
    PROVE  SortedFrom(s, k) \in Seq(Regions(A)) /\ Len(SortedFrom(s, k)) = Len(s)
<1> DEFINE low == SubSeq(s, 1, k - 1)
           high == SubSeq(s, k, Len(s))
<1>1. Len(s) \in Nat /\ \A x \in 1 .. Len(s) : s[x] \in Regions(A)
  BY LenProperties, ElementOfSeq
<1>2. low \in Seq(Regions(A)) /\ Len(low) = k - 1
  BY <1>1, SubSeqProperties
<1>3. high \in Seq(Regions(A)) /\ Len(high) = Len(s) - k + 1
  BY <1>1, SubSeqProperties
<1> HIDE DEF low, high
<1>4. Sorted(high) \in Seq(Regions(A)) /\ Len(Sorted(high)) = Len(high)
  BY <1>3, SortedType
<1>5. low \o Sorted(high) \in Seq(Regions(A)) /\ Len(low \o Sorted(high)) = Len(s)
  BY <1>1, <1>2, <1>3, <1>4, ConcatProperties
<1> QED BY <1>5 DEF SortedFrom, low, high

LEMMA DiscardType ==
    ASSUME NEW S, NEW s \in Seq(S), NEW k \in 1 .. Len(s)
    PROVE  Discard(s, k) \in Seq(S) /\ Len(Discard(s, k)) = Len(s) - 1
<1> DEFINE low == SubSeq(s, 1, k - 1)
           high == SubSeq(s, k + 1, Len(s))
<1>1. Len(s) \in Nat /\ \A x \in 1 .. Len(s) : s[x] \in S
  BY LenProperties, ElementOfSeq
<1>2. low \in Seq(S) /\ Len(low) = k - 1
  BY <1>1, SubSeqProperties
<1>3. high \in Seq(S) /\ Len(high) = Len(s) - k
  BY <1>1, SubSeqProperties
<1> HIDE DEF low, high
<1>4. low \o high \in Seq(S) /\ Len(low \o high) = Len(low) + Len(high)
  BY <1>2, <1>3, ConcatProperties
<1>5. Len(low) + Len(high) = Len(s) - 1
  BY <1>1, <1>2, <1>3
<1> QED BY <1>4, <1>5 DEF Discard, RemoveAt, low, high

----------------------------------------------------------------------------
(* The steps of the loops.                                                 *)

(* A region that begins and ends at addresses of A.                        *)
LEMMA RegionMade ==
    ASSUME NEW A \in SUBSET Int, NEW b \in A, NEW s \in Int, NEW t \in Int, b + s \in A
    PROVE  Entry(b, s, t) \in Regions(A)
BY DEF Regions, Entry, Fin

LEMMA RegionEnds ==
    ASSUME NEW A \in SUBSET Int, NEW e \in Regions(A)
    PROVE  /\ e.base \in A /\ e.base \in Int /\ e.size \in Int /\ e.type \in Int
           /\ e.base + e.size \in A /\ e.base + e.size \in Int
BY DEF Regions, Fin

LEMMA Resized ==
    ASSUME NEW A \in SUBSET Int, NEW s \in Seq(Regions(A)), NEW k \in 1 .. Len(s),
           NEW z \in Int, s[k].base + z \in A
    PROVE  /\ [s EXCEPT ![k].size = z] \in Seq(Regions(A))
           /\ Len([s EXCEPT ![k].size = z]) = Len(s)
           /\ \A j \in 1 .. Len(s) : j # k => [s EXCEPT ![k].size = z][j] = s[j]
<1> DEFINE e == [s[k] EXCEPT !.size = z]
<1>1. s[k] \in Regions(A)
  BY ElementOfSeq
<1>2. e \in [base : A, size : Int, type : Int]
  <2>1. s[k] \in [base : A, size : Int, type : Int]
    BY <1>1, RegionParts
  <2> QED BY <2>1
<1>3. e.base = s[k].base /\ e.size = z
  BY <1>1, RegionParts
<1>4. e \in Regions(A)
  BY <1>2, <1>3 DEF Regions, Fin
<1>5. [s EXCEPT ![k].size = z] = [s EXCEPT ![k] = e]
  OBVIOUS
<1> HIDE DEF e
<1> QED BY <1>4, <1>5, ExceptSeq

(* The current entry and the next one.                                     *)
LEMMA InLoopFacts ==
    ASSUME NEW A \in SUBSET Int, m \in Seq(Regions(A)), i \in Nat \ {0}, i < Len(m)
    PROVE  /\ Len(m) \in Nat /\ i \in 1 .. Len(m) /\ i + 1 \in 1 .. Len(m) /\ i # i + 1
           /\ c \in Regions(A) /\ n \in Regions(A)
           /\ c.base \in A /\ c.base \in Int /\ c.size \in Int /\ c.type \in Int
           /\ n.base \in A /\ n.base \in Int /\ n.size \in Int /\ n.type \in Int
           /\ Fin(c) \in A /\ Fin(c) \in Int /\ Fin(n) \in A /\ Fin(n) \in Int
           /\ Fin(c) = c.base + c.size /\ Fin(n) = n.base + n.size
<1>1. Len(m) \in Nat
  BY LenProperties
<1>2. i \in 1 .. Len(m) /\ i + 1 \in 1 .. Len(m)
  BY <1>1
<1>3. c \in Regions(A) /\ n \in Regions(A)
  BY <1>2, ElementOfSeq DEF c, n
<1> QED BY <1>1, <1>2, <1>3, RegionEnds DEF Fin

LEMMA CutType ==
    ASSUME NEW A \in SUBSET Int, m \in Seq(Regions(A)), i \in Nat \ {0}, i < Len(m)
    PROVE  /\ CutBefore(m) \in Seq(Regions(A)) /\ Len(CutBefore(m)) = Len(m)
           /\ CutBefore(m)[i + 1] = n
<1> DEFINE z == n.base - c.base
           s == [m EXCEPT ![i].size = z]
<1>1. z \in Int /\ m[i].base + z = n.base /\ n.base \in A
  BY InLoopFacts DEF c
<1>2. i \in 1 .. Len(m) /\ i + 1 \in 1 .. Len(m)
  BY InLoopFacts
<1>3. CutBefore(m) = s
  BY DEF CutBefore
<1> HIDE DEF z
<1>4. /\ s \in Seq(Regions(A)) /\ Len(s) = Len(m)
      /\ \A j \in 1 .. Len(m) : j # i => s[j] = m[j]
  BY <1>1, <1>2, Resized
<1> HIDE DEF s
<1>5. s[i + 1] = m[i + 1]
  BY <1>2, <1>4
<1> QED BY <1>3, <1>4, <1>5 DEF n

(* The entry that is put in place of the next one.                         *)
LEMMA ReplaceNext ==
    ASSUME NEW A \in SUBSET Int, m \in Seq(Regions(A)), i \in Nat \ {0}, i < Len(m),
           NEW e \in Regions(A), NEW k \in 1 .. Len(m)
    PROVE  /\ SortedFrom([m EXCEPT ![i + 1] = e], k) \in Seq(Regions(A))
           /\ Len(SortedFrom([m EXCEPT ![i + 1] = e], k)) = Len(m)
<1> USE InLoopFacts
<1>1. [m EXCEPT ![i + 1] = e] \in Seq(Regions(A)) /\ Len([m EXCEPT ![i + 1] = e]) = Len(m)
  BY ExceptSeq
<1> HIDE DEF Regions
<1> QED BY <1>1, SortedFromType

(* What a step may do to the map.                                          *)
Kept(A) == m' \in Seq(Regions(A)) /\ Len(m') <= E820_ENTRIES

LEMMA OverlapType ==
    ASSUME NEW A \in SUBSET Int, m \in Seq(Regions(A)), i \in Nat \ {0},
           E820_ENTRIES \in Nat, Len(m) <= E820_ENTRIES, OverlapStep
    PROVE  Kept(A) /\ i' \in Nat \ {0}
<1>1. i < Len(m)
  BY DEF OverlapStep, SkipEntry, DropDuplicate, DropShorter, TrimLonger, DropTail,
         TrimToTail, Split, SplitNoRoom, DropInside, TrimNext, TrimCurrent, Clash, InLoop
<1>2. i' \in Nat \ {0}
  BY DEF OverlapStep, SkipEntry, DropDuplicate, DropShorter, TrimLonger, DropTail,
         TrimToTail, Split, SplitNoRoom, DropInside, TrimNext, TrimCurrent, Again, Advance
<1> SUFFICES Kept(A)
  BY <1>2
<1> DEFINE Facts == /\ Len(m) \in Nat /\ i \in 1 .. Len(m) /\ i + 1 \in 1 .. Len(m)
                    /\ c.base \in A /\ c.base \in Int /\ c.size \in Int /\ c.type \in Int
                    /\ n.base \in A /\ n.base \in Int /\ n.size \in Int /\ n.type \in Int
                    /\ Fin(c) \in A /\ Fin(c) \in Int /\ Fin(n) \in A /\ Fin(n) \in Int
                    /\ Fin(c) = c.base + c.size /\ Fin(n) = n.base + n.size
<1>3. Facts
  BY <1>1, InLoopFacts
<1>4. CASE SkipEntry
  BY <1>4 DEF SkipEntry, Kept
<1>5. ASSUME NEW k \in {i, i + 1}, m' = Discard(m, k) PROVE Kept(A)
  <2>1. k \in 1 .. Len(m)
    BY <1>3
  <2>2. Discard(m, k) \in Seq(Regions(A)) /\ Len(Discard(m, k)) = Len(m) - 1
    BY <2>1, DiscardType
  <2> QED BY <1>3, <1>5, <2>2 DEF Kept
<1>6. CASE DropDuplicate
  BY <1>5, <1>6 DEF DropDuplicate
<1>7. CASE DropShorter \/ DropTail \/ DropInside
  BY <1>5, <1>7 DEF DropShorter, DropTail, DropInside
<1>8. CASE TrimLonger
  <2>1. c.base = n.base
    BY <1>8 DEF TrimLonger, SameBase
  <2>2. Entry(Fin(c), n.size - c.size, n.type) \in Regions(A)
    <3>1. PICK b \in Int, x \in Int, y \in Int : b = c.base /\ x = c.size /\ y = n.size
      BY <1>3
    <3>2. y - x \in Int /\ (b + x) + (y - x) = b + y
      BY ONLY b \in Int, x \in Int, y \in Int
    <3>3. n.size - c.size \in Int /\ Fin(c) + (n.size - c.size) = Fin(n)
      BY <1>3, <2>1, <3>1, <3>2
    <3> QED BY <1>3, <3>3, RegionMade
  <2> QED BY <1>1, <1>3, <1>8, <2>2, ReplaceNext DEF TrimLonger, Kept
<1>9. CASE TrimToTail \/ TrimCurrent
  BY <1>1, <1>9, CutType DEF TrimToTail, TrimCurrent, Kept
<1>10. CASE Split
  <2> DEFINE e == Entry(Fin(n), Fin(c) - Fin(n), c.type)
             s == Append(CutBefore(m), e)
  <2>1. e \in Regions(A)
    <3>1. Fin(c) - Fin(n) \in Int /\ Fin(n) + (Fin(c) - Fin(n)) = Fin(c)
      BY <1>3
    <3> QED BY <1>3, <3>1, RegionMade
  <2> HIDE DEF e
  <2>2. CutBefore(m) \in Seq(Regions(A)) /\ Len(CutBefore(m)) = Len(m)
    BY <1>1, CutType
  <2>3. s \in Seq(Regions(A)) /\ Len(s) = Len(m) + 1
    BY <2>1, <2>2, AppendProperties
  <2>4. m' = SortedFrom(s, i + 1) /\ Len(m) < E820_ENTRIES
    BY <1>10 DEF Split, e
  <2> HIDE DEF s
  <2>5. i + 1 \in 1 .. Len(s)
    BY <1>3, <2>3
  <2>6. m' \in Seq(Regions(A)) /\ Len(m') = Len(s)
    BY <2>3, <2>4, <2>5, SortedFromType
  <2> QED BY <1>3, <2>3, <2>4, <2>6 DEF Kept
<1>11. CASE SplitNoRoom
  <2> DEFINE s == CutBefore(m)
             z == Fin(c) - n.base
  <2>1. s \in Seq(Regions(A)) /\ Len(s) = Len(m) /\ s[i + 1] = n
    BY <1>1, CutType
  <2>2. m' = [s EXCEPT ![i + 1].size = z]
    BY <1>11 DEF SplitNoRoom
  <2>3. z \in Int /\ s[i + 1].base + z \in A
    <3>1. n.base + (Fin(c) - n.base) = Fin(c)
      BY <1>3
    <3> QED BY <1>3, <2>1, <3>1
  <2> HIDE DEF s, z
  <2>4. m' \in Seq(Regions(A)) /\ Len(m') = Len(s)
    <3>1. i + 1 \in 1 .. Len(s)
      BY <1>3, <2>1
    <3>2. s \in Seq(Regions(A))
      BY <2>1
    <3> HIDE DEF Regions
    <3>3. /\ [s EXCEPT ![i + 1].size = z] \in Seq(Regions(A))
          /\ Len([s EXCEPT ![i + 1].size = z]) = Len(s)
      BY ONLY A \in SUBSET Int, <2>3, <3>1, <3>2, Resized
    <3> QED BY <2>2, <3>3
  <2> QED BY <2>1, <2>4 DEF Kept
<1>12. CASE TrimNext
  <2>1. Entry(Fin(c), Fin(n) - Fin(c), n.type) \in Regions(A)
    <3>1. Fin(n) - Fin(c) \in Int /\ Fin(c) + (Fin(n) - Fin(c)) = Fin(n)
      BY <1>3
    <3> QED BY <1>3, <3>1, RegionMade
  <2> QED BY <1>1, <1>3, <1>12, <2>1, ReplaceNext DEF TrimNext, Kept
<1> QED BY <1>4, <1>6, <1>7, <1>8, <1>9, <1>10, <1>11, <1>12 DEF OverlapStep

LEMMA MergeType ==
    ASSUME NEW A \in SUBSET Int, m \in Seq(Regions(A)), i \in Nat \ {0},
           E820_ENTRIES \in Nat, Len(m) <= E820_ENTRIES, Merge
    PROVE  Kept(A) /\ i' \in Nat \ {0}
<1>1. i < Len(m)
  BY DEF Merge, InLoop
<1> DEFINE z == c.size + n.size
           s == [m EXCEPT ![i].size = z]
<1>2. Fin(c) = n.base /\ m' = Discard(s, i + 1) /\ i' = i
  BY DEF Merge, Mergeable, Again
<1>3. z \in Int /\ m[i].base + z \in A
  <2>1. /\ c.base \in Int /\ c.size \in Int /\ n.size \in Int /\ Fin(n) \in A
        /\ Fin(c) = c.base + c.size /\ Fin(n) = n.base + n.size
    BY <1>1, InLoopFacts
  <2>2. PICK b \in Int, x \in Int, y \in Int : b = c.base /\ x = c.size /\ y = n.size
    BY <2>1
  <2>3. x + y \in Int /\ b + (x + y) = (b + x) + y
    BY ONLY b \in Int, x \in Int, y \in Int
  <2>4. c.base + z = Fin(n) /\ z \in Int
    BY <1>2, <2>1, <2>2, <2>3
  <2> QED BY <2>1, <2>4 DEF c
<1>4. i \in 1 .. Len(m) /\ i + 1 \in 1 .. Len(m)
  BY <1>1, InLoopFacts
<1> HIDE DEF z
<1>5. s \in Seq(Regions(A)) /\ Len(s) = Len(m)
  BY <1>3, <1>4, Resized
<1> HIDE DEF s
<1>6. Discard(s, i + 1) \in Seq(Regions(A)) /\ Len(Discard(s, i + 1)) = Len(s) - 1
  BY <1>5, <1>4, DiscardType
<1> QED BY <1>2, <1>5, <1>6 DEF Kept

(* Every step of e820_init keeps a map of regions between addresses of A,  *)
(* and stays in the array.                                                 *)
LEMMA StepType ==
    ASSUME NEW A \in SUBSET Int, m \in Seq(Regions(A)), i \in Nat \ {0},
           input \in Seq(Regions(A)), Len(input) <= E820_ENTRIES,
           E820_ENTRIES \in Nat, Len(m) <= E820_ENTRIES, Next
    PROVE  Kept(A) /\ i' \in Nat \ {0} /\ input' = input
<1>1. CASE Sort
  BY <1>1, SortedType DEF Sort, Kept
<1>2. CASE OverlapStep
  BY <1>2, OverlapType DEF OverlapStep
<1>3. CASE Merge
  BY <1>3, MergeType DEF Merge
<1>4. CASE OverlapDone \/ KeepApart \/ CoalesceDone
  BY <1>4 DEF OverlapDone, KeepApart, CoalesceDone, Advance, Kept
<1> QED BY <1>1, <1>2, <1>3, <1>4 DEF Next

----------------------------------------------------------------------------
(* What the entries of a map cover.                                        *)

Entries(s) == {s[k] : k \in DOMAIN s}

(* No region ends before it begins.                                        *)
Forward(S) == \A e \in S : e.size \in Nat

(* The addresses that the regions of S contain are those that the regions  *)
(* of T contain, and no type is lower there.                               *)
SameCover(S, T) ==
    /\ \A a \in Int : \A f \in T : Spans(f, a) => \E e \in S : Spans(e, a)
    /\ \A a \in Int : \A e \in S : Spans(e, a) =>
          \E f \in T : Spans(f, a) /\ f.type >= e.type

(* A sort changes the order of the entries only.                           *)
LEMMA SortedEntries ==
    ASSUME NEW A \in SUBSET Int, NEW s \in Seq(Regions(A))
    PROVE  Entries(Sorted(s)) = Entries(s)
<1>1. DOMAIN Sorted(s) = DOMAIN s
  BY DEF Sorted
<1>2. ASSUME NEW r \in DOMAIN s PROVE Sorted(s)[r] \in Entries(s)
  <2>1. (CHOOSE k \in DOMAIN s : Rank(s, k) = r) \in DOMAIN s
    BY RankOnto
  <2> QED BY <2>1 DEF Sorted, Entries
<1>3. ASSUME NEW k \in DOMAIN s PROVE s[k] \in Entries(Sorted(s))
  <2> DEFINE r == Rank(s, k)
             l == CHOOSE x \in DOMAIN s : Rank(s, x) = r
  <2>1. r \in DOMAIN s
    BY RankRange, LenProperties
  <2>2. l \in DOMAIN s /\ Rank(s, l) = r
    OBVIOUS
  <2>3. l = k
    <3>1. SUFFICES ASSUME l # k PROVE FALSE
      OBVIOUS
    <3>2. Rank(s, l) \in Int /\ Rank(s, k) \in Int
      BY <2>2, RankRange, LenProperties
    <3>3. Rank(s, l) < Rank(s, k) \/ Rank(s, k) < Rank(s, l)
      <4> HIDE DEF l, r
      <4> QED BY <2>2, <3>1, RankOrder, RankGrows
    <3> HIDE DEF l
    <3> QED BY <2>2, <3>2, <3>3
  <2>4. Sorted(s)[r] = s[l]
    BY <2>1 DEF Sorted
  <2> HIDE DEF l, r
  <2> QED BY <1>1, <2>1, <2>3, <2>4 DEF Entries
<1> QED BY <1>1, <1>2, <1>3 DEF Entries

LEMMA ConcatEntries ==
    ASSUME NEW S, NEW s \in Seq(S), NEW t \in Seq(S)
    PROVE  Entries(s \o t) = Entries(s) \cup Entries(t)
<1>1. /\ s \o t \in Seq(S) /\ Len(s \o t) = Len(s) + Len(t)
      /\ \A k \in 1 .. Len(s) + Len(t) :
            (s \o t)[k] = IF k <= Len(s) THEN s[k] ELSE t[k - Len(s)]
  BY ConcatProperties
<1>2. /\ Len(s) \in Nat /\ DOMAIN s = 1 .. Len(s)
      /\ Len(t) \in Nat /\ DOMAIN t = 1 .. Len(t)
      /\ DOMAIN (s \o t) = 1 .. Len(s) + Len(t)
  BY <1>1, LenProperties
<1>3. ASSUME NEW k \in DOMAIN (s \o t)
      PROVE  (s \o t)[k] \in Entries(s) \cup Entries(t)
  <2>1. CASE k <= Len(s)
    BY <1>1, <1>2, <2>1 DEF Entries
  <2>2. CASE ~ (k <= Len(s))
    <3>1. k - Len(s) \in DOMAIN t /\ (s \o t)[k] = t[k - Len(s)]
      BY <1>1, <1>2, <2>2
    <3> QED BY <3>1 DEF Entries
  <2> QED BY <2>1, <2>2
<1>4. ASSUME NEW k \in DOMAIN s PROVE s[k] \in Entries(s \o t)
  <2>1. k \in DOMAIN (s \o t) /\ (s \o t)[k] = s[k]
    BY <1>1, <1>2
  <2> QED BY <2>1 DEF Entries
<1>5. ASSUME NEW k \in DOMAIN t PROVE t[k] \in Entries(s \o t)
  <2>1. /\ k + Len(s) \in 1 .. Len(s) + Len(t) /\ ~ (k + Len(s) <= Len(s))
        /\ (k + Len(s)) - Len(s) = k
    BY <1>2
  <2>2. k + Len(s) \in DOMAIN (s \o t) /\ (s \o t)[k + Len(s)] = t[k]
    BY <1>1, <1>2, <2>1
  <2> QED BY <2>2 DEF Entries
<1> QED BY <1>3, <1>4, <1>5 DEF Entries

LEMMA AppendEntries ==
    ASSUME NEW S, NEW s \in Seq(S), NEW e \in S
    PROVE  Entries(Append(s, e)) = Entries(s) \cup {e}
<1> DEFINE t == Append(s, e)
<1>1. /\ Len(s) \in Nat /\ DOMAIN s = 1 .. Len(s)
      /\ t \in Seq(S) /\ Len(t) = Len(s) + 1
      /\ \A k \in 1 .. Len(s) : t[k] = s[k]
      /\ t[Len(s) + 1] = e
  BY LenProperties, AppendProperties
<1>2. DOMAIN t = DOMAIN s \cup {Len(s) + 1}
  <2>1. DOMAIN t = 1 .. Len(s) + 1
    BY <1>1, LenProperties
  <2> QED BY <1>1, <2>1
<1> HIDE DEF t
<1> QED BY <1>1, <1>2 DEF Entries, t

(* A part of a map.                                                        *)
LEMMA PartEntries ==
    ASSUME NEW S, NEW s \in Seq(S), NEW x \in 1 .. Len(s) + 1, NEW y \in 0 .. Len(s), x <= y + 1
    PROVE  /\ SubSeq(s, x, y) \in Seq(S)
           /\ Entries(SubSeq(s, x, y)) = {s[k] : k \in x .. y}
<1> DEFINE t == SubSeq(s, x, y)
<1>1. Len(s) \in Nat /\ \A k \in 1 .. Len(s) : s[k] \in S
  BY LenProperties, ElementOfSeq
<1>2. \A k \in x .. y : s[k] \in S
  BY <1>1
<1>3. /\ t \in Seq(S) /\ Len(t) = y - x + 1
      /\ \A k \in 1 .. y - x + 1 : t[k] = s[x + k - 1]
  BY <1>1, <1>2, SubSeqProperties
<1>4. DOMAIN t = 1 .. y - x + 1
  BY <1>3, LenProperties
<1> HIDE DEF t
<1>5. ASSUME NEW k \in DOMAIN t PROVE t[k] \in {s[l] : l \in x .. y}
  <2>1. x + k - 1 \in x .. y /\ t[k] = s[x + k - 1]
    BY <1>1, <1>3, <1>4
  <2> QED BY <2>1
<1>6. ASSUME NEW l \in x .. y PROVE s[l] \in {t[k] : k \in DOMAIN t}
  <2>1. l - x + 1 \in DOMAIN t /\ x + (l - x + 1) - 1 = l
    BY <1>1, <1>4
  <2>2. t[l - x + 1] = s[l]
    BY <1>3, <1>4, <2>1
  <2> QED BY <2>1, <2>2
<1> QED BY <1>3, <1>5, <1>6 DEF Entries, t

LEMMA SortedFromEntries ==
    ASSUME NEW A \in SUBSET Int, NEW s \in Seq(Regions(A)), NEW k \in 1 .. Len(s)
    PROVE  Entries(SortedFrom(s, k)) = Entries(s)
<1> DEFINE low == SubSeq(s, 1, k - 1)
           high == SubSeq(s, k, Len(s))
<1>1. Len(s) \in Nat /\ DOMAIN s = 1 .. Len(s)
  BY LenProperties
<1>2. low \in Seq(Regions(A)) /\ Entries(low) = {s[x] : x \in 1 .. k - 1}
  <2>1. 1 \in 1 .. Len(s) + 1 /\ k - 1 \in 0 .. Len(s) /\ 1 <= k - 1 + 1
    BY <1>1
  <2> HIDE DEF Regions
  <2> QED BY <2>1, PartEntries
<1>3. high \in Seq(Regions(A)) /\ Entries(high) = {s[x] : x \in k .. Len(s)}
  <2>1. k \in 1 .. Len(s) + 1 /\ Len(s) \in 0 .. Len(s) /\ k <= Len(s) + 1
    BY <1>1
  <2> HIDE DEF Regions
  <2> QED BY <2>1, PartEntries
<1> HIDE DEF low, high
<1>4. Sorted(high) \in Seq(Regions(A)) /\ Entries(Sorted(high)) = Entries(high)
  BY <1>3, SortedType, SortedEntries
<1>5. Entries(low \o Sorted(high)) = Entries(low) \cup Entries(high)
  BY <1>2, <1>4, ConcatEntries
<1>6. DOMAIN s = (1 .. k - 1) \cup (k .. Len(s))
  BY <1>1
<1>7. Entries(s) = Entries(low) \cup Entries(high)
  BY <1>2, <1>3, <1>6 DEF Entries
<1> QED BY <1>5, <1>7 DEF SortedFrom, low, high

LEMMA DiscardEntries ==
    ASSUME NEW S, NEW s \in Seq(S), NEW k \in 1 .. Len(s)
    PROVE  Entries(Discard(s, k)) = {s[j] : j \in DOMAIN s \ {k}}
<1> DEFINE low == SubSeq(s, 1, k - 1)
           high == SubSeq(s, k + 1, Len(s))
<1>1. Len(s) \in Nat /\ DOMAIN s = 1 .. Len(s)
  BY LenProperties
<1>2. low \in Seq(S) /\ Entries(low) = {s[x] : x \in 1 .. k - 1}
  <2>1. 1 \in 1 .. Len(s) + 1 /\ k - 1 \in 0 .. Len(s) /\ 1 <= k - 1 + 1
    BY <1>1
  <2> QED BY <2>1, PartEntries
<1>3. high \in Seq(S) /\ Entries(high) = {s[x] : x \in k + 1 .. Len(s)}
  <2>1. k + 1 \in 1 .. Len(s) + 1 /\ Len(s) \in 0 .. Len(s) /\ k + 1 <= Len(s) + 1
    BY <1>1
  <2> QED BY <2>1, PartEntries
<1> HIDE DEF low, high
<1>4. Entries(low \o high) = Entries(low) \cup Entries(high)
  BY <1>2, <1>3, ConcatEntries
<1>5. DOMAIN s \ {k} = (1 .. k - 1) \cup (k + 1 .. Len(s))
  BY <1>1
<1>6. {s[j] : j \in DOMAIN s \ {k}} = Entries(low) \cup Entries(high)
  BY <1>2, <1>3, <1>5
<1> QED BY <1>4, <1>6 DEF Discard, RemoveAt, low, high

(* The entries besides the current one and the next.                       *)
Rest == {m[j] : j \in DOMAIN m \ {i, i + 1}}

(* Whether the regions of T contain what c and n contain, and no more.     *)
Replaces(T) ==
    /\ Forward(T)
    /\ \A a \in Int : \A f \in T : Spans(f, a) => Spans(c, a) \/ Spans(n, a)
    /\ \A a \in Int : Spans(c, a) => \E f \in T : Spans(f, a) /\ f.type >= c.type
    /\ \A a \in Int : Spans(n, a) => \E f \in T : Spans(f, a) /\ f.type >= n.type

LEMMA Replaced ==
    ASSUME NEW A \in SUBSET Int, m \in Seq(Regions(A)), i \in Nat \ {0}, i < Len(m),
           Forward(Entries(m)), NEW T, Replaces(T)
    PROVE  SameCover(Entries(m), Rest \cup T) /\ Forward(Rest \cup T)
<1>1. /\ i \in DOMAIN m /\ i + 1 \in DOMAIN m /\ c = m[i] /\ n = m[i + 1]
      /\ \A j \in DOMAIN m : m[j].type \in Int
  <2>1. Len(m) \in Nat /\ DOMAIN m = 1 .. Len(m)
    BY LenProperties
  <2>2. \A j \in 1 .. Len(m) : m[j] \in Regions(A)
    BY ElementOfSeq
  <2> QED BY <2>1, <2>2, RegionParts DEF c, n
<1>2. Entries(m) = Rest \cup {c, n}
  BY <1>1 DEF Entries, Rest
<1>3. \A e \in Rest : e.type \in Int /\ e.type >= e.type
  BY <1>1 DEF Rest
<1> HIDE DEF Rest
<1>4. ASSUME NEW a \in Int, NEW f \in Rest \cup T, Spans(f, a)
      PROVE  \E e \in Entries(m) : Spans(e, a)
  BY <1>2, <1>4 DEF Replaces
<1>5. ASSUME NEW a \in Int, NEW e \in Entries(m), Spans(e, a)
      PROVE  \E f \in Rest \cup T : Spans(f, a) /\ f.type >= e.type
  BY <1>2, <1>3, <1>5 DEF Replaces
<1>6. Forward(Rest \cup T)
  BY <1>2 DEF Replaces, Forward
<1> QED BY <1>4, <1>5, <1>6 DEF SameCover

(* The entries of a map that differs from m at the two entries only.       *)
LEMMA PairEntries ==
    ASSUME NEW A \in SUBSET Int, m \in Seq(Regions(A)), i \in Nat \ {0}, i < Len(m),
           NEW s \in Seq(Regions(A)), Len(s) = Len(m),
           \A j \in 1 .. Len(m) : j \notin {i, i + 1} => s[j] = m[j]
    PROVE  /\ Entries(s) = Rest \cup {s[i], s[i + 1]}
           /\ Entries(Discard(s, i)) = Rest \cup {s[i + 1]}
           /\ Entries(Discard(s, i + 1)) = Rest \cup {s[i]}
<1>1. Len(m) \in Nat /\ DOMAIN m = 1 .. Len(m) /\ DOMAIN s = DOMAIN m
  BY LenProperties
<1>2. i \in 1 .. Len(s) /\ i + 1 \in 1 .. Len(s) /\ i # i + 1
  BY <1>1
<1>3. Rest = {s[j] : j \in DOMAIN s \ {i, i + 1}}
  <2>1. \A j \in DOMAIN s \ {i, i + 1} : s[j] = m[j]
    BY <1>1
  <2> QED BY <1>1, <2>1 DEF Rest
<1>4. /\ Entries(Discard(s, i)) = {s[j] : j \in DOMAIN s \ {i}}
      /\ Entries(Discard(s, i + 1)) = {s[j] : j \in DOMAIN s \ {i + 1}}
  <2> HIDE DEF Regions
  <2> QED BY <1>2, DiscardEntries
<1> HIDE DEF Rest
<1>5. /\ DOMAIN s \ {i} = (DOMAIN s \ {i, i + 1}) \cup {i + 1}
      /\ DOMAIN s \ {i + 1} = (DOMAIN s \ {i, i + 1}) \cup {i}
      /\ DOMAIN s = (DOMAIN s \ {i, i + 1}) \cup {i, i + 1}
  BY <1>1, <1>2
<1> DEFINE Others == DOMAIN s \ {i, i + 1}
<1>6. /\ {s[j] : j \in Others \cup {i + 1}} = {s[j] : j \in Others} \cup {s[i + 1]}
      /\ {s[j] : j \in Others \cup {i}} = {s[j] : j \in Others} \cup {s[i]}
      /\ {s[j] : j \in Others \cup {i, i + 1}} = {s[j] : j \in Others} \cup {s[i], s[i + 1]}
  OBVIOUS
<1> QED BY <1>3, <1>4, <1>5, <1>6 DEF Entries

(* The current entry cut to end where the next begins.                     *)
Cut == [c EXCEPT !.size = n.base - c.base]

LEMMA ResizedEntry ==
    ASSUME NEW A \in SUBSET Int, NEW s \in Seq(Regions(A)), NEW k \in 1 .. Len(s), NEW z \in Int
    PROVE  [s EXCEPT ![k].size = z][k] = [s[k] EXCEPT !.size = z]
<1>1. k \in DOMAIN s
  BY LenProperties
<1> QED BY <1>1

LEMMA CutEntries ==
    ASSUME NEW A \in SUBSET Int, m \in Seq(Regions(A)), i \in Nat \ {0}, i < Len(m)
    PROVE  /\ Entries(CutBefore(m)) = Rest \cup {Cut, n}
           /\ CutBefore(m)[i] = Cut
           /\ \A j \in 1 .. Len(m) : j # i => CutBefore(m)[j] = m[j]
<1> USE InLoopFacts
<1> DEFINE z == n.base - c.base
<1>1. i \in 1 .. Len(m) /\ z \in Int /\ m[i].base + z \in A
  <2>1. m[i].base + z = n.base
    BY DEF c
  <2> QED BY <2>1
<1> HIDE DEF z
<1>2. \A j \in 1 .. Len(m) : j # i => [m EXCEPT ![i].size = z][j] = m[j]
  BY <1>1, Resized
<1>3. [m EXCEPT ![i].size = z][i] = [m[i] EXCEPT !.size = z]
  BY SMTT(30), <1>1, ResizedEntry
<1>4. CutBefore(m) = [m EXCEPT ![i].size = z]
  BY DEF CutBefore, z
<1>5. CutBefore(m)[i] = Cut
  BY <1>3, <1>4 DEF Cut, z, c
<1>6. CutBefore(m) \in Seq(Regions(A)) /\ Len(CutBefore(m)) = Len(m) /\ CutBefore(m)[i + 1] = n
  BY CutType
<1>7. Entries(CutBefore(m)) = Rest \cup {CutBefore(m)[i], CutBefore(m)[i + 1]}
  <2>1. \A j \in 1 .. Len(m) : j \notin {i, i + 1} => CutBefore(m)[j] = m[j]
    BY <1>2, <1>4
  <2> HIDE DEF Regions
  <2> QED BY <1>6, <2>1, PairEntries
<1> QED BY <1>2, <1>4, <1>5, <1>6, <1>7

LEMMA ReplacedEntries ==
    ASSUME NEW A \in SUBSET Int, m \in Seq(Regions(A)), i \in Nat \ {0}, i < Len(m),
           NEW e \in Regions(A), NEW k \in 1 .. Len(m)
    PROVE  Entries(SortedFrom([m EXCEPT ![i + 1] = e], k)) = Rest \cup {c, e}
<1> USE InLoopFacts
<1> DEFINE s == [m EXCEPT ![i + 1] = e]
<1>1. s \in Seq(Regions(A)) /\ Len(s) = Len(m)
  BY ExceptSeq
<1>2. s[i] = c /\ s[i + 1] = e /\ \A j \in 1 .. Len(m) : j \notin {i, i + 1} => s[j] = m[j]
  <2>1. DOMAIN m = 1 .. Len(m)
    BY LenProperties
  <2> QED BY <2>1 DEF c
<1> HIDE DEF s, Regions
<1>3. Entries(s) = Rest \cup {c, e}
  BY <1>1, <1>2, PairEntries
<1>4. Entries(SortedFrom(s, k)) = Entries(s)
  BY <1>1, SortedFromEntries
<1> QED BY <1>3, <1>4 DEF s

(* The parts of a region, as Spans sees them.                              *)
LEMMA SpansParts ==
    ASSUME NEW A \in SUBSET Int, m \in Seq(Regions(A)), i \in Nat \ {0}, i < Len(m)
    PROVE  /\ \A a \in Int : Spans(c, a) <=> c.base <= a /\ a < Fin(c)
           /\ \A a \in Int : Spans(n, a) <=> n.base <= a /\ a < Fin(n)
           /\ \A a \in Int : Spans(Cut, a) <=> c.base <= a /\ a < n.base
           /\ Cut.type = c.type
           /\ \A b, z, t, a \in Int :
                 /\ Spans(Entry(b, z, t), a) <=> b <= a /\ a < b + z
                 /\ Entry(b, z, t).type = t
<1>1. c \in Regions(A) /\ c.base \in Int /\ n.base \in Int
  BY InLoopFacts
<1>2. Cut.base = c.base /\ Cut.size = n.base - c.base /\ Cut.type = c.type
  BY <1>1, RegionParts DEF Cut
<1>3. c.base + (n.base - c.base) = n.base
  BY <1>1
<1> QED BY <1>2, <1>3 DEF Spans, Fin, Entry

(* No turn of the overlap loop loses an address or lowers a type, if its   *)
(* two entries are in order.                                               *)
LEMMA OverlapCovers ==
    ASSUME NEW A \in SUBSET Int, m \in Seq(Regions(A)), i \in Nat \ {0},
           Forward(Entries(m)), InOrder, OverlapStep
    PROVE  SameCover(Entries(m), Entries(m')) /\ Forward(Entries(m'))
<1> DEFINE Goal == SameCover(Entries(m), Entries(m')) /\ Forward(Entries(m'))
<1>1. i < Len(m) /\ pc = "overlap"
  BY DEF OverlapStep, SkipEntry, DropDuplicate, DropShorter, TrimLonger, DropTail,
         TrimToTail, Split, SplitNoRoom, DropInside, TrimNext, TrimCurrent, Clash, InLoop
<1> DEFINE Facts == /\ Len(m) \in Nat /\ i \in 1 .. Len(m) /\ i + 1 \in 1 .. Len(m)
                    /\ c.base \in Int /\ c.size \in Int /\ c.type \in Int
                    /\ n.base \in Int /\ n.size \in Int /\ n.type \in Int
                    /\ Fin(c) \in Int /\ Fin(n) \in Int
                    /\ Fin(c) = c.base + c.size /\ Fin(n) = n.base + n.size
           Order == c.base < n.base \/ (c.base = n.base /\ c.size <= n.size)
<1>2. Facts
  BY <1>1, InLoopFacts
<1>3. Order
  BY <1>1 DEF InOrder
<1>4. /\ \A a \in Int : Spans(c, a) <=> c.base <= a /\ a < Fin(c)
      /\ \A a \in Int : Spans(n, a) <=> n.base <= a /\ a < Fin(n)
  BY <1>1, SpansParts
<1>5. ASSUME NEW T, Replaces(T), Entries(m') = Rest \cup T
      PROVE  Goal
  BY <1>1, <1>5, Replaced
<1>6. /\ Entries(m) = Rest \cup {c, n}
      /\ Entries(Discard(m, i)) = Rest \cup {n}
      /\ Entries(Discard(m, i + 1)) = Rest \cup {c}
  BY <1>1, PairEntries DEF c, n
<1>32. c.size \in Nat /\ n.size \in Nat
  BY <1>6 DEF Forward
<1> SUFFICES Goal
  OBVIOUS
<1> HIDE DEF Goal
<1>7. Replaces({c, n})
  <2>1. c.type >= c.type /\ n.type >= n.type
    BY <1>2
  <2> QED BY <1>32, <2>1 DEF Replaces, Forward
<1>8. CASE SkipEntry
  BY <1>5, <1>6, <1>7, <1>8 DEF SkipEntry
<1>30. /\ \A a \in Int : Spans(Cut, a) <=> c.base <= a /\ a < n.base
       /\ Cut.type = c.type /\ Cut.size \in Nat
  <2>1. Cut.size = n.base - c.base
    BY <1>1, InLoopFacts, RegionParts DEF Cut
  <2>2. n.base - c.base \in Nat
    BY <1>2, <1>3
  <2> QED BY <1>1, <2>1, <2>2, SpansParts
<1>9. ASSUME m' = Discard(m, i), n.type >= c.type, \A a \in Int : Spans(c, a) => Spans(n, a)
      PROVE  Goal
  <2>1. Replaces({n})
    BY <1>2, <1>9, <1>32 DEF Replaces, Forward
  <2> QED BY <1>5, <1>6, <1>9, <2>1
<1>10. ASSUME m' = Discard(m, i + 1), c.type >= n.type, \A a \in Int : Spans(n, a) => Spans(c, a)
       PROVE  Goal
  <2>1. Replaces({c})
    BY <1>2, <1>10, <1>32 DEF Replaces, Forward
  <2> QED BY <1>5, <1>6, <1>10, <2>1
<1>11. CASE DropDuplicate
  <2>1. c.base = n.base /\ Fin(c) = Fin(n)
    BY <1>11 DEF DropDuplicate, SameBlock
  <2>2. \A a \in Int : Spans(c, a) <=> Spans(n, a)
    BY <1>4, <2>1
  <2>3. m' = Discard(m, IF n.type >= c.type THEN i ELSE i + 1)
    BY <1>11 DEF DropDuplicate
  <2>4. CASE n.type >= c.type
    BY <1>9, <2>2, <2>3, <2>4
  <2>5. CASE ~ (n.type >= c.type)
    <3>1. c.type >= n.type
      BY <1>2, <2>5
    <3> QED BY <1>10, <2>2, <2>3, <2>5, <3>1
  <2> QED BY <2>4, <2>5
<1>12. CASE DropShorter
  <2>1. c.base = n.base /\ c.type <= n.type /\ m' = Discard(m, i)
    BY <1>12 DEF DropShorter, SameBase
  <2>2. Fin(c) <= Fin(n) /\ n.type >= c.type
    BY <1>2, <1>3, <2>1
  <2>3. \A a \in Int : Spans(c, a) => Spans(n, a)
    BY <1>2, <1>4, <2>1, <2>2
  <2> QED BY <1>9, <2>1, <2>2, <2>3
<1>13. CASE DropTail \/ DropInside
  <2>1. m' = Discard(m, i + 1) /\ c.type >= n.type /\ c.base <= n.base /\ Fin(n) <= Fin(c)
    BY <1>2, <1>3, <1>13 DEF DropTail, DropInside, SameEnd, NextInside
  <2>2. \A a \in Int : Spans(n, a) => Spans(c, a)
    <3>1. SUFFICES ASSUME NEW a \in Int, n.base <= a, a < Fin(n)
                   PROVE  c.base <= a /\ a < Fin(c)
      BY <1>4
    <3>2. c.base <= n.base /\ Fin(n) <= Fin(c)
      BY <2>1
    <3> QED BY SMTT(30), <1>2, <3>1, <3>2
  <2> QED BY <1>10, <2>1, <2>2
<1>14. ASSUME NEW z \in Int, NEW k \in 1 .. Len(m), Fin(c) + z = Fin(n),
              c.base <= n.base, n.base <= Fin(c), Fin(c) <= Fin(n), c.type >= n.type,
              m' = SortedFrom([m EXCEPT ![i + 1] = Entry(Fin(c), z, n.type)], k)
       PROVE  Goal
  <2> DEFINE e == Entry(Fin(c), z, n.type)
  <2>1. e \in Regions(A)
    <3>1. Fin(c) \in A /\ Fin(n) \in A
      BY <1>1, InLoopFacts
    <3> QED BY <1>2, <1>14, <3>1, RegionMade
  <2>2. (\A a \in Int : Spans(e, a) <=> Fin(c) <= a /\ a < Fin(n)) /\ e.type = n.type
    BY <1>2, <1>14 DEF Spans, Entry, Fin
  <2>8. e.size \in Nat
    <3>1. z >= 0
      BY <1>2, <1>14
    <3> QED BY <3>1 DEF Entry
  <2> HIDE DEF e
  <2>3. ASSUME NEW a \in Int PROVE Spans(e, a) => Spans(n, a)
    <3>1. n.base <= Fin(c)
      BY <1>14
    <3> QED BY <1>2, <1>4, <2>2, <3>1
  <2>4. ASSUME NEW a \in Int, Spans(n, a) PROVE Spans(c, a) \/ Spans(e, a)
    <3>1. c.base <= n.base
      BY <1>14
    <3>2. n.base <= a /\ a < Fin(n)
      BY <1>4, <2>4
    <3> QED BY SMTT(30), <1>2, <1>4, <2>2, <3>1, <3>2
  <2>5. c.type >= n.type /\ c.type >= c.type /\ e.type >= n.type
    <3>1. c.type >= n.type
      BY <1>14
    <3> QED BY <1>2, <2>2, <3>1
  <2>6. Replaces({c, e})
    BY <1>32, <2>3, <2>4, <2>5, <2>8 DEF Replaces, Forward
  <2>7. Entries(m') = Rest \cup {c, e}
    <3>1. m' = SortedFrom([m EXCEPT ![i + 1] = e], k)
      BY <1>14 DEF e
    <3> QED BY <1>1, <2>1, <3>1, ReplacedEntries
  <2> QED BY <1>5, <2>6, <2>7
<1>31. ASSUME Clash PROVE n.base < Fin(c) /\ n.base <= Fin(c)
  BY <1>2, <1>31 DEF Clash
<1>17. CASE TrimLonger
  <2>1. c.base = n.base
    BY <1>17 DEF TrimLonger, SameBase
  <2>2. n.size - c.size \in Int /\ Fin(c) + (n.size - c.size) = Fin(n)
    BY <1>2, <2>1
  <2>3. c.type >= n.type /\ c.base <= n.base
    BY <1>2, <1>17, <2>1 DEF TrimLonger
  <2>4. n.base <= Fin(c)
    BY <1>17, <1>31 DEF TrimLonger
  <2>5. m' = SortedFrom([m EXCEPT ![i + 1] = Entry(Fin(c), n.size - c.size, n.type)], i)
    BY <1>17 DEF TrimLonger
  <2>6. i \in 1 .. Len(m)
    BY <1>2
  <2>7. Fin(c) <= Fin(n)
    BY <1>2, <1>3, <2>1
  <2> QED BY <1>14, <2>7, <2>2, <2>3, <2>4, <2>5, <2>6
<1>15. CASE TrimNext
  <2>1. Fin(n) - Fin(c) \in Int /\ Fin(c) + (Fin(n) - Fin(c)) = Fin(n)
    BY <1>2
  <2>2. c.base <= n.base
    BY <1>2, <1>3
  <2>3. c.type >= n.type
    BY <1>2, <1>15 DEF TrimNext
  <2>4. n.base <= Fin(c)
    BY <1>15, <1>31 DEF TrimNext
  <2>5. m' = SortedFrom([m EXCEPT ![i + 1] = Entry(Fin(c), Fin(n) - Fin(c), n.type)], i + 1)
    BY <1>15 DEF TrimNext
  <2>6. i + 1 \in 1 .. Len(m)
    BY <1>2
  <2>7. Fin(c) <= Fin(n)
    BY <1>2, <1>15 DEF TrimNext, NextBeyond
  <2> QED BY <1>14, <2>7, <2>1, <2>2, <2>3, <2>4, <2>5, <2>6
<1>16. CASE TrimToTail \/ TrimCurrent
  <2>1. m' = CutBefore(m) /\ c.type <= n.type /\ c.base # n.base /\ Fin(c) <= Fin(n)
    BY <1>2, <1>16 DEF TrimToTail, TrimCurrent, SameEnd, NextBeyond
  <2>2. n.base < Fin(c)
    BY <1>16, <1>31 DEF TrimToTail, TrimCurrent
  <2>3. c.base < n.base
    BY <1>3, <2>1
  <2>4. Replaces({Cut, n})
    <3>1. ASSUME NEW a \in Int PROVE Spans(Cut, a) => Spans(c, a)
      BY <1>2, <1>4, <1>30, <2>2
    <3>2. ASSUME NEW a \in Int, Spans(c, a) PROVE Spans(Cut, a) \/ Spans(n, a)
      <4>1. c.base <= a /\ a < Fin(c)
        BY <1>4, <3>2
      <4>2. Fin(c) <= Fin(n)
        BY <2>1
      <4> QED BY SMTT(30), <1>2, <1>4, <1>30, <4>1, <4>2
    <3>3. Cut.type >= c.type /\ n.type >= n.type /\ n.type >= c.type
      BY <1>2, <1>30, <2>1
    <3> QED BY <1>30, <1>32, <3>1, <3>2, <3>3 DEF Replaces, Forward
  <2>5. Entries(m') = Rest \cup {Cut, n}
    BY <1>1, <2>1, CutEntries
  <2> QED BY <1>5, <2>4, <2>5
<1>18. ASSUME Clash, NextInside
       PROVE  c.base < n.base /\ n.base < Fin(c) /\ Fin(n) < Fin(c)
  BY <1>3, <1>18, <1>31 DEF NextInside
<1>19. CASE Split
  <2> DEFINE e == Entry(Fin(n), Fin(c) - Fin(n), c.type)
             s == Append(CutBefore(m), e)
  <2>1. c.base < n.base /\ n.base < Fin(c) /\ Fin(n) < Fin(c)
    BY <1>18, <1>19 DEF Split
  <2>2. Fin(c) - Fin(n) \in Int /\ Fin(n) + (Fin(c) - Fin(n)) = Fin(c)
    BY <1>2
  <2>3. e \in Regions(A)
    <3>1. Fin(c) \in A /\ Fin(n) \in A
      BY <1>1, InLoopFacts
    <3> QED BY <1>2, <2>2, <3>1, RegionMade
  <2>4. (\A a \in Int : Spans(e, a) <=> Fin(n) <= a /\ a < Fin(c)) /\ e.type = c.type
    BY <1>2, <2>2 DEF Spans, Entry, Fin
  <2>10. e.size \in Nat
    <3>1. Fin(c) - Fin(n) \in Nat
      BY <1>2, <2>1
    <3> QED BY <3>1 DEF Entry
  <2>5. m' = SortedFrom(s, i + 1) /\ n.type > c.type
    BY <1>19 DEF Split
  <2> HIDE DEF e
  <2>6. CutBefore(m) \in Seq(Regions(A)) /\ Len(CutBefore(m)) = Len(m)
    BY <1>1, CutType
  <2>7. s \in Seq(Regions(A)) /\ Len(s) = Len(m) + 1 /\ Entries(s) = Entries(CutBefore(m)) \cup {e}
    <3> HIDE DEF Regions
    <3> QED BY <2>3, <2>6, AppendProperties, AppendEntries
  <2> HIDE DEF s
  <2>8. Entries(m') = Rest \cup {Cut, n, e}
    <3>1. i + 1 \in 1 .. Len(s)
      BY <1>2, <2>7
    <3>2. Entries(m') = Entries(s)
      BY <2>5, <2>7, <3>1, SortedFromEntries
    <3>3. Entries(CutBefore(m)) = Rest \cup {Cut, n}
      BY <1>1, CutEntries
    <3> QED BY <2>7, <3>2, <3>3
  <2>9. Replaces({Cut, n, e})
    <3>1. ASSUME NEW a \in Int PROVE Spans(Cut, a) => Spans(c, a)
      BY <1>2, <1>4, <1>30, <2>1
    <3>2. ASSUME NEW a \in Int, Spans(e, a) PROVE Spans(c, a)
      <4>1. Fin(n) <= a /\ a < Fin(c)
        BY <2>4, <3>2
      <4>2. c.base <= a
        BY <1>2, <1>32, <2>1, <4>1
      <4> QED BY <1>4, <4>1, <4>2
    <3>3. ASSUME NEW a \in Int, Spans(c, a) PROVE Spans(Cut, a) \/ Spans(n, a) \/ Spans(e, a)
      <4>1. c.base <= a /\ a < Fin(c)
        BY <1>4, <3>3
      <4>2. a < n.base => Spans(Cut, a)
        BY <1>30, <4>1
      <4>3. n.base <= a /\ a < Fin(n) => Spans(n, a)
        BY <1>4
      <4>4. Fin(n) <= a => Spans(e, a)
        BY <2>4, <4>1
      <4>5. a < n.base \/ (n.base <= a /\ a < Fin(n)) \/ Fin(n) <= a
        BY <1>2
      <4> QED BY <4>2, <4>3, <4>4, <4>5
    <3>4. Cut.type >= c.type /\ n.type >= n.type /\ n.type >= c.type /\ e.type >= c.type
      BY <1>2, <1>30, <2>4, <2>5
    <3> QED BY <1>30, <1>32, <2>10, <3>1, <3>2, <3>3, <3>4 DEF Replaces, Forward
  <2> QED BY <1>5, <2>8, <2>9
<1>20. CASE SplitNoRoom
  <2> DEFINE s == CutBefore(m)
             z == Fin(c) - n.base
             e == [n EXCEPT !.size = z]
  <2>1. c.base < n.base /\ n.base < Fin(c) /\ Fin(n) < Fin(c)
    BY <1>18, <1>20 DEF SplitNoRoom
  <2>2. s \in Seq(Regions(A)) /\ Len(s) = Len(m) /\ s[i + 1] = n /\ s[i] = Cut
        /\ \A j \in 1 .. Len(m) : j # i => s[j] = m[j]
    BY <1>1, CutType, CutEntries
  <2>3. m' = [s EXCEPT ![i + 1].size = z] /\ n.type > c.type
    BY <1>20 DEF SplitNoRoom
  <2>4. z \in Int /\ n.base + z = Fin(c)
    BY <1>2
  <2>5. (\A a \in Int : Spans(e, a) <=> n.base <= a /\ a < Fin(c)) /\ e.type = n.type
    <3>1. n \in [base : A, size : Int, type : Int]
      BY <1>1, InLoopFacts, RegionParts
    <3>2. e.base = n.base /\ e.size = z /\ e.type = n.type
      BY <3>1
    <3> QED BY <2>4, <3>2 DEF Spans, Fin
  <2>10. e.size \in Nat
    <3>1. n \in [base : A, size : Int, type : Int]
      BY <1>1, InLoopFacts, RegionParts
    <3>2. e.size = z
      BY <3>1
    <3>3. z \in Nat
      BY <1>2, <2>1
    <3> QED BY <3>2, <3>3
  <2> HIDE DEF s, z
  <2>6. m' \in Seq(Regions(A)) /\ Len(m') = Len(s) /\ m'[i + 1] = e
        /\ \A j \in 1 .. Len(s) : j # i + 1 => m'[j] = s[j]
    <3>1. i + 1 \in 1 .. Len(s) /\ s[i + 1].base + z \in A
      <4>1. Fin(c) \in A
        BY <1>1, InLoopFacts
      <4> QED BY <1>2, <2>2, <2>4, <4>1
    <3> QED BY <2>2, <2>3, <2>4, <3>1, Resized, ResizedEntry
  <2> HIDE DEF e
  <2>7. Entries(m') = Rest \cup {Cut, e}
    <3>1. \A j \in 1 .. Len(m) : j \notin {i, i + 1} => m'[j] = m[j]
      BY <2>2, <2>6
    <3>2. m'[i] = Cut
      BY <1>2, <2>2, <2>6
    <3>3. Entries(m') = Rest \cup {m'[i], m'[i + 1]}
      <4> HIDE DEF Regions
      <4> QED BY <1>1, <2>2, <2>6, <3>1, PairEntries
    <3> QED BY <2>6, <3>2, <3>3
  <2>8. Replaces({Cut, e})
    <3>1. ASSUME NEW a \in Int PROVE (Spans(Cut, a) => Spans(c, a)) /\ (Spans(e, a) => Spans(c, a))
      BY SMTT(30), <1>2, <1>4, <1>30, <2>1, <2>5
    <3>2. ASSUME NEW a \in Int, Spans(c, a) PROVE Spans(Cut, a) \/ Spans(e, a)
      <4>1. c.base <= a /\ a < Fin(c)
        BY <1>4, <3>2
      <4> QED BY SMTT(30), <1>2, <1>30, <2>5, <4>1
    <3>3. ASSUME NEW a \in Int, Spans(n, a) PROVE Spans(e, a)
      BY <1>2, <1>4, <2>1, <2>5, <3>3
    <3>4. Cut.type >= c.type /\ e.type >= n.type /\ e.type >= c.type
      BY SMTT(30), <1>2, <1>30, <2>3, <2>5
    <3> QED BY <1>30, <1>32, <2>10, <3>1, <3>2, <3>3, <3>4 DEF Replaces, Forward
  <2> QED BY <1>5, <2>7, <2>8
<1> QED BY <1>8, <1>11, <1>12, <1>13, <1>15, <1>16, <1>17, <1>19, <1>20 DEF OverlapStep

LEMMA MergeCovers ==
    ASSUME NEW A \in SUBSET Int, m \in Seq(Regions(A)), i \in Nat \ {0},
           Forward(Entries(m)), Merge
    PROVE  SameCover(Entries(m), Entries(m')) /\ Forward(Entries(m'))
<1>1. i < Len(m)
  BY DEF Merge, InLoop
<1> DEFINE z == c.size + n.size
           s == [m EXCEPT ![i].size = z]
           e == [c EXCEPT !.size = z]
<1>2. Fin(c) = n.base /\ c.type = n.type
  BY DEF Merge, Mergeable
<1>13. m' = Discard(s, i + 1)
  BY DEF Merge
<1>3. /\ i \in 1 .. Len(m) /\ c \in Regions(A) /\ Fin(n) \in A
      /\ c.base \in Int /\ c.size \in Int /\ c.type \in Int
      /\ n.base \in Int /\ n.size \in Int /\ n.type \in Int
      /\ Fin(c) = c.base + c.size /\ Fin(n) = n.base + n.size
  BY <1>1, InLoopFacts
<1>4. c.base + z = Fin(n)
  <2>1. Fin(n) = (c.base + c.size) + n.size
    BY <1>2, <1>3
  <2> QED BY <1>3, <2>1
<1>5. e.base = c.base /\ e.size = z /\ e.type = c.type
  BY <1>3, RegionParts
<1>6. c \in Entries(m) /\ n \in Entries(m)
  BY <1>1, PairEntries DEF c, n
<1>7. c.size \in Nat /\ n.size \in Nat
  BY <1>6 DEF Forward
<1>8. /\ s \in Seq(Regions(A)) /\ Len(s) = Len(m) /\ s[i] = e
      /\ \A j \in 1 .. Len(m) : j # i => s[j] = m[j]
  <2>1. i \in 1 .. Len(m) /\ z \in Int /\ m[i].base + z \in A
    BY <1>3, <1>4 DEF c
  <2>2. [m EXCEPT ![i].size = z][i] = [m[i] EXCEPT !.size = z]
    BY <2>1, ResizedEntry
  <2> HIDE DEF s, e, z
  <2>3. /\ [m EXCEPT ![i].size = z] \in Seq(Regions(A))
        /\ Len([m EXCEPT ![i].size = z]) = Len(m)
        /\ \A j \in 1 .. Len(m) : j # i => [m EXCEPT ![i].size = z][j] = m[j]
    BY <2>1, Resized
  <2> QED BY <2>2, <2>3 DEF c, s, e
<1>9. \A a \in Int : /\ Spans(c, a) <=> c.base <= a /\ a < Fin(c)
                     /\ Spans(n, a) <=> n.base <= a /\ a < Fin(n)
                     /\ Spans(e, a) <=> c.base <= a /\ a < Fin(n)
  BY <1>4, <1>5 DEF Spans, Fin
<1>10. e.size \in Nat
  BY <1>5, <1>7
<1> HIDE DEF s, e, z
<1>11. Entries(m') = Rest \cup {e}
  <2>1. \A j \in 1 .. Len(m) : j \notin {i, i + 1} => s[j] = m[j]
    BY <1>8
  <2>2. Entries(Discard(s, i + 1)) = Rest \cup {s[i]}
    <3> HIDE DEF Regions
    <3> QED BY <1>1, <1>8, <2>1, PairEntries
  <2> QED BY <1>8, <1>13, <2>2
<1>12. Replaces({e})
  <2>1. ASSUME NEW a \in Int, Spans(e, a) PROVE Spans(c, a) \/ Spans(n, a)
    BY <1>2, <1>3, <1>9, <2>1
  <2>2. ASSUME NEW a \in Int, Spans(c, a) PROVE Spans(e, a)
    <3>1. c.base <= a /\ a < n.base
      BY <1>2, <1>9, <2>2
    <3> QED BY <1>3, <1>7, <1>9, <3>1
  <2>3. ASSUME NEW a \in Int, Spans(n, a) PROVE Spans(e, a)
    BY <1>2, <1>3, <1>7, <1>9, <2>3
  <2>4. e.type >= c.type /\ e.type >= n.type
    BY <1>2, <1>3, <1>5
  <2> QED BY <1>10, <2>1, <2>2, <2>3, <2>4 DEF Replaces, Forward
<1> QED BY <1>1, <1>11, <1>12, Replaced

LEMMA CoverChain ==
    ASSUME NEW A, NEW R \in SUBSET Regions(A), NEW S \in SUBSET Regions(A),
           NEW T \in SUBSET Regions(A), SameCover(R, S), SameCover(S, T)
    PROVE  SameCover(R, T)
<1>1. \A e \in R \cup S \cup T : e.type \in Int
  BY RegionParts
<1>2. ASSUME NEW a \in Int, NEW f \in T, Spans(f, a) PROVE \E e \in R : Spans(e, a)
  BY <1>2 DEF SameCover
<1>3. ASSUME NEW a \in Int, NEW e \in R, Spans(e, a)
      PROVE  \E f \in T : Spans(f, a) /\ f.type >= e.type
  <2>1. PICK g \in S : Spans(g, a) /\ g.type >= e.type
    BY <1>3 DEF SameCover
  <2>2. PICK f \in T : Spans(f, a) /\ f.type >= g.type
    BY <2>1 DEF SameCover
  <2>3. f.type >= e.type
    BY <1>1, <2>1, <2>2
  <2> QED BY <2>2, <2>3
<1> QED BY <1>2, <1>3 DEF SameCover

LEMMA SameEntries ==
    ASSUME NEW A, NEW S \in SUBSET Regions(A)
    PROVE  SameCover(S, S)
<1>1. \A e \in S : e.type \in Int /\ e.type >= e.type
  BY RegionParts
<1> QED BY <1>1 DEF SameCover

LEMMA EntriesType ==
    ASSUME NEW A, NEW s \in Seq(Regions(A))
    PROVE  Entries(s) \in SUBSET Regions(A)
<1>1. DOMAIN s = 1 .. Len(s) /\ \A k \in 1 .. Len(s) : s[k] \in Regions(A)
  BY LenProperties, ElementOfSeq
<1> HIDE DEF Regions
<1> QED BY <1>1 DEF Entries

Cleaning == pc \in {"overlap", "coalesce", "done"}

CoverInv ==
    /\ Forward(Entries(input))
    /\ Cleaning => SameCover(Entries(input), Entries(m)) /\ Forward(Entries(m))

(* No step of e820_init loses an address or lowers a type, if the entries  *)
(* at hand are in order.                                                   *)
LEMMA StepCovers ==
    ASSUME NEW A \in SUBSET Int, m \in Seq(Regions(A)), i \in Nat \ {0},
           input \in Seq(Regions(A)), Len(input) <= E820_ENTRIES,
           E820_ENTRIES \in Nat, Len(m) <= E820_ENTRIES, CoverInv, InOrder, Next
    PROVE  CoverInv'
<1>1. input' = input /\ m' \in Seq(Regions(A))
  BY StepType DEF Kept
<1>2. /\ Entries(input) \in SUBSET Regions(A) /\ Entries(m) \in SUBSET Regions(A)
      /\ Entries(m') \in SUBSET Regions(A)
  BY <1>1, EntriesType
<1>3. Entries(m)' = Entries(m') /\ Entries(input)' = Entries(input)
  BY <1>1 DEF Entries
<1>4. Forward(Entries(input))
  BY DEF CoverInv
<1>5. ASSUME Cleaning, SameCover(Entries(m), Entries(m')), Forward(Entries(m'))
      PROVE  CoverInv'
  <2>1. SameCover(Entries(input), Entries(m))
    BY <1>5 DEF CoverInv
  <2>2. SameCover(Entries(input), Entries(m'))
    BY <1>2, <1>5, <2>1, CoverChain
  <2> QED BY <1>3, <1>4, <1>5, <2>2 DEF CoverInv
<1>6. ASSUME Cleaning, UNCHANGED m PROVE CoverInv'
  <2>1. Forward(Entries(m))
    BY <1>6 DEF CoverInv
  <2> QED BY <1>2, <1>5, <1>6, <2>1, SameEntries
<1>7. CASE Sort
  <2>1. Entries(m') = Entries(input)
    BY <1>7, SortedEntries DEF Sort
  <2> QED BY <1>2, <1>3, <1>4, <2>1, SameEntries DEF CoverInv
<1>8. CASE OverlapStep
  <2>1. Cleaning
    BY <1>8 DEF OverlapStep, SkipEntry, DropDuplicate, DropShorter, TrimLonger, DropTail,
         TrimToTail, Split, SplitNoRoom, DropInside, TrimNext, TrimCurrent, Clash, InLoop, Cleaning
  <2>2. Forward(Entries(m))
    BY <2>1 DEF CoverInv
  <2> QED BY <1>5, <1>8, <2>1, <2>2, OverlapCovers
<1>9. CASE Merge
  <2>1. Cleaning
    BY <1>9 DEF Merge, InLoop, Cleaning
  <2>2. Forward(Entries(m))
    BY <2>1 DEF CoverInv
  <2> QED BY <1>5, <1>9, <2>1, <2>2, MergeCovers
<1>10. CASE OverlapDone
  BY <1>6, <1>10 DEF OverlapDone, Cleaning
<1>11. CASE KeepApart
  BY <1>6, <1>11 DEF KeepApart, InLoop, Cleaning
<1>12. CASE CoalesceDone
  BY <1>6, <1>12 DEF CoalesceDone, Cleaning
<1> QED BY <1>7, <1>8, <1>9, <1>10, <1>11, <1>12 DEF Next

LEMMA CoverInvCovers ==
    ASSUME NEW A \in SUBSET Int, m \in Seq(Regions(A)), input \in Seq(Regions(A)), CoverInv
    PROVE  Covers
<1> SUFFICES ASSUME pc \in {"overlap", "coalesce"} PROVE Covers
  BY DEF Covers
<1>1. SameCover(Entries(input), Entries(m))
  BY DEF CoverInv, Cleaning
<1>2. \A e \in Entries(input) \cup Entries(m) : e.base \in Int /\ Fin(e) \in Int
  <2>1. Entries(input) \in SUBSET Regions(A) /\ Entries(m) \in SUBSET Regions(A)
    BY EntriesType
  <2> QED BY <2>1, RegionParts
<1>3. \A e \in Entries(input) \cup Entries(m) : \A a \in e.base .. Fin(e) - 1 :
          a \in Int /\ Spans(e, a)
  BY <1>2 DEF Spans
<1>4. ASSUME NEW j \in DOMAIN m, NEW a \in m[j].base .. Fin(m[j]) - 1
      PROVE  \E k \in DOMAIN input : Spans(input[k], a)
  <2>1. m[j] \in Entries(m)
    BY DEF Entries
  <2>2. a \in Int /\ Spans(m[j], a)
    BY <1>3, <2>1
  <2>3. PICK e \in Entries(input) : Spans(e, a)
    BY <1>1, <2>1, <2>2 DEF SameCover
  <2> QED BY <2>3 DEF Entries
<1>5. ASSUME NEW k \in DOMAIN input, NEW a \in input[k].base .. Fin(input[k]) - 1
      PROVE  \E j \in DOMAIN m : Spans(m[j], a) /\ m[j].type >= input[k].type
  <2>1. input[k] \in Entries(input)
    BY DEF Entries
  <2>2. a \in Int /\ Spans(input[k], a)
    BY <1>3, <2>1
  <2>3. PICK f \in Entries(m) : Spans(f, a) /\ f.type >= input[k].type
    BY <1>1, <2>1, <2>2 DEF SameCover
  <2> QED BY <2>3 DEF Entries
<1> QED BY <1>4, <1>5 DEF Covers

----------------------------------------------------------------------------
(* Where the entries of a changed map come from.                           *)

(* An entry may come before another in a sorted map.                       *)
AtMost(e, f) == e.base < f.base \/ (e.base = f.base /\ e.size <= f.size)

LEMMA EntryFacts ==
    ASSUME NEW A \in SUBSET Int, NEW s \in Seq(Regions(A)), NEW k \in 1 .. Len(s)
    PROVE  /\ s[k] \in Regions(A) /\ s[k] \in [base : A, size : Int, type : Int]
           /\ s[k].base \in Int /\ s[k].size \in Int /\ s[k].type \in Int
           /\ Fin(s[k]) \in Int /\ Fin(s[k]) = s[k].base + s[k].size
<1>1. s[k] \in Regions(A)
  BY ElementOfSeq
<1> QED BY <1>1, RegionParts, RegionEnds DEF Fin

LEMMA LengthFacts ==
    ASSUME NEW S, NEW s \in Seq(S)
    PROVE  DOMAIN s = 1 .. Len(s) /\ Len(s) \in Nat /\ \A k \in 1 .. Len(s) : k \in Nat
<1>1. DOMAIN s = 1 .. Len(s) /\ Len(s) \in Nat
  BY LenProperties
<1> QED BY <1>1

(* A sort puts each entry in a place of its own, in order.                 *)
LEMMA SortedElements ==
    ASSUME NEW A \in SUBSET Int, NEW s \in Seq(Regions(A))
    PROVE  \E p \in [1 .. Len(s) -> 1 .. Len(s)] :
              /\ \A j, k \in 1 .. Len(s) : p[j] = p[k] => j = k
              /\ \A r \in 1 .. Len(s) : Sorted(s)[r] = s[p[r]]
              /\ \A j, k \in 1 .. Len(s) : j < k => AtMost(s[p[j]], s[p[k]])
<1> DEFINE p == [r \in 1 .. Len(s) |-> CHOOSE k \in DOMAIN s : Rank(s, k) = r]
<1>1. DOMAIN s = 1 .. Len(s) /\ Len(s) \in Nat
  BY LengthFacts
<1>2. ASSUME NEW r \in 1 .. Len(s) PROVE p[r] \in 1 .. Len(s) /\ Rank(s, p[r]) = r
  <2>1. \E k \in DOMAIN s : Rank(s, k) = r
    BY <1>1, RankOnto
  <2> QED BY <1>1, <2>1
<1>3. \A r \in 1 .. Len(s) : Sorted(s)[r] = s[p[r]]
  BY <1>1 DEF Sorted
<1>4. p \in [1 .. Len(s) -> 1 .. Len(s)]
  BY <1>2
<1> HIDE DEF p
<1>5. ASSUME NEW j \in 1 .. Len(s), NEW k \in 1 .. Len(s), p[j] = p[k] PROVE j = k
  BY <1>2, <1>5
<1>6. ASSUME NEW j \in 1 .. Len(s), NEW k \in 1 .. Len(s), j < k
      PROVE  AtMost(s[p[j]], s[p[k]])
  <2>1. PICK x \in DOMAIN s, y \in DOMAIN s : x = p[j] /\ y = p[k]
    BY <1>1, <1>2
  <2>2. Rank(s, x) = j /\ Rank(s, y) = k /\ j \in Int /\ k \in Int
    BY <1>2, <2>1
  <2>3. x # y
    BY <1>6, <2>2
  <2>4. NotAfter(s, x, y)
    <3>1. SUFFICES ASSUME ~ NotAfter(s, x, y) PROVE FALSE
      OBVIOUS
    <3>2. NotAfter(s, y, x)
      BY <2>3, <3>1, RankOrder
    <3>3. Rank(s, y) < Rank(s, x)
      BY <2>3, <3>2, RankGrows
    <3> QED BY <1>6, <2>2, <3>3
  <2>5. /\ s[x].base \in Int /\ s[x].size \in Int
        /\ s[y].base \in Int /\ s[y].size \in Int
    BY <1>1, EntryFacts
  <2>6. AtMost(s[x], s[y])
    BY <2>4, <2>5 DEF NotAfter, Before, AtMost
  <2> QED BY <2>1, <2>6
<1> QED BY <1>3, <1>4, <1>5, <1>6

(* So does a sort of the entries from k on, which leaves those before k.   *)
Arranges(p, s, t, k) ==
    /\ \A x, y \in 1 .. Len(s) : p[x] = p[y] => x = y
    /\ \A x \in 1 .. Len(s) : /\ t[x] = s[p[x]]
                              /\ x < k => p[x] = x
                              /\ x >= k => p[x] >= k
    /\ \A x, y \in 1 .. Len(s) : k <= x /\ x < y => AtMost(s[p[x]], s[p[y]])

LEMMA SortedFromElements ==
    ASSUME NEW A \in SUBSET Int, NEW s \in Seq(Regions(A)), NEW k \in 1 .. Len(s)
    PROVE  \E p \in [1 .. Len(s) -> 1 .. Len(s)] : Arranges(p, s, SortedFrom(s, k), k)
<1> DEFINE low == SubSeq(s, 1, k - 1)
           high == SubSeq(s, k, Len(s))
           L == Len(s) - k + 1
<1>0. \A x \in 1 .. Len(s) : s[x] \in Regions(A)
  BY EntryFacts
<1>1. Len(s) \in Nat /\ k \in Nat /\ k >= 1 /\ k <= Len(s) /\ L \in Nat /\ L = Len(s) - k + 1
  BY LengthFacts
<1> HIDE DEF L
<1>2. /\ low \in Seq(Regions(A)) /\ Len(low) = k - 1
      /\ \A x \in 1 .. k - 1 : low[x] = s[x]
  <2>1. 1 \in 1 .. Len(s) + 1 /\ k - 1 \in 0 .. Len(s) /\ 1 <= k - 1 + 1
    BY <1>1
  <2>2. \A x \in 1 .. k - 1 : s[x] \in Regions(A)
    BY <1>0, <1>1
  <2> HIDE DEF Regions
  <2>3. /\ low \in Seq(Regions(A)) /\ Len(low) = (k - 1) - 1 + 1
        /\ \A x \in 1 .. (k - 1) - 1 + 1 : low[x] = s[1 + x - 1]
    BY <2>1, <2>2, <1>1, SubSeqProperties
  <2>4. (k - 1) - 1 + 1 = k - 1 /\ \A x \in 1 .. k - 1 : 1 + x - 1 = x
    BY <1>1
  <2> QED BY <2>3, <2>4
<1>3. /\ high \in Seq(Regions(A)) /\ Len(high) = L
      /\ \A x \in 1 .. L : high[x] = s[k + x - 1]
  <2>1. \A x \in k .. Len(s) : s[x] \in Regions(A)
    BY <1>0, <1>1
  <2> HIDE DEF Regions
  <2> QED BY <1>1, <2>1, SubSeqProperties
<1> HIDE DEF low, high, Regions
<1>4. PICK q \in [1 .. Len(high) -> 1 .. Len(high)] :
        /\ \A j, l \in 1 .. Len(high) : q[j] = q[l] => j = l
        /\ \A r \in 1 .. Len(high) : Sorted(high)[r] = high[q[r]]
        /\ \A j, l \in 1 .. Len(high) : j < l => AtMost(high[q[j]], high[q[l]])
  BY <1>3, SortedElements
<1>4a. /\ \A j \in 1 .. L : q[j] \in 1 .. L
       /\ \A j, l \in 1 .. L : q[j] = q[l] => j = l
       /\ \A r \in 1 .. L : Sorted(high)[r] = high[q[r]]
       /\ \A j, l \in 1 .. L : j < l => AtMost(high[q[j]], high[q[l]])
  <2>1. Len(high) = L
    BY <1>3
  <2>2. \A j \in 1 .. Len(high) : q[j] \in 1 .. Len(high)
    OBVIOUS
  <2> QED BY ONLY <1>4, <2>1, <2>2
<1>5. Sorted(high) \in Seq(Regions(A)) /\ Len(Sorted(high)) = L
  BY <1>3, SortedType
<1>6. \A x \in 1 .. Len(s) :
         SortedFrom(s, k)[x] = IF x <= k - 1 THEN low[x] ELSE Sorted(high)[x - (k - 1)]
  <2>1. (k - 1) + L = Len(s)
    BY <1>1
  <2>2. \A x \in 1 .. (k - 1) + L :
           (low \o Sorted(high))[x] = IF x <= k - 1 THEN low[x] ELSE Sorted(high)[x - (k - 1)]
    BY <1>2, <1>5, ConcatProperties
  <2> QED BY <2>1, <2>2 DEF SortedFrom, low, high
<1> DEFINE p == [x \in 1 .. Len(s) |-> IF x < k THEN x ELSE q[x - k + 1] + k - 1]
<1>7. ASSUME NEW x \in 1 .. Len(s), x < k
      PROVE  p[x] = x /\ SortedFrom(s, k)[x] = s[x]
  <2>1. x \in 1 .. k - 1 /\ x <= k - 1
    BY <1>1, <1>7
  <2> QED BY <1>2, <1>6, <1>7, <2>1
<1>8. ASSUME NEW x \in 1 .. Len(s), ~ (x < k)
      PROVE  /\ x - k + 1 \in 1 .. L /\ q[x - k + 1] \in 1 .. L
             /\ p[x] = q[x - k + 1] + k - 1 /\ p[x] \in k .. Len(s)
             /\ s[p[x]] = high[q[x - k + 1]]
             /\ SortedFrom(s, k)[x] = s[p[x]]
  <2>1. x - k + 1 \in 1 .. L /\ ~ (x <= k - 1) /\ x - (k - 1) = x - k + 1
    BY <1>1, <1>8
  <2>2. PICK y \in 1 .. L : y = q[x - k + 1]
    BY <1>4a, <2>1
  <2>3. p[x] = y + k - 1
    BY <1>8, <2>2
  <2>4. y + k - 1 \in k .. Len(s) /\ k + y - 1 = y + k - 1
    BY ONLY <1>1, y \in 1 .. L
  <2>5. high[y] = s[y + k - 1]
    BY <1>3, <2>4
  <2>6. SortedFrom(s, k)[x] = Sorted(high)[x - k + 1]
    BY <1>6, <2>1
  <2>7. Sorted(high)[x - k + 1] = high[y]
    BY <1>4a, <2>1, <2>2
  <2> HIDE DEF p
  <2> QED BY <2>1, <2>2, <2>3, <2>4, <2>5, <2>6, <2>7
<1> HIDE DEF p
<1>9. \A x \in 1 .. Len(s) : p[x] \in 1 .. Len(s)
  BY <1>1, <1>7, <1>8
<1>10. p \in [1 .. Len(s) -> 1 .. Len(s)]
  BY <1>9 DEF p
<1>11. ASSUME NEW x \in 1 .. Len(s), NEW y \in 1 .. Len(s), p[x] = p[y] PROVE x = y
  <2>1. CASE x < k /\ y < k
    BY <1>7, <1>11, <2>1
  <2>2. CASE x < k /\ ~ (y < k)
    <3>1. p[x] < k /\ p[y] \in k .. Len(s)
      BY <1>7, <1>8, <2>2
    <3>2. \A z \in k .. Len(s) : ~ (z < k)
      BY ONLY <1>1
    <3> QED BY ONLY <1>11, <3>1, <3>2
  <2>3. CASE ~ (x < k) /\ y < k
    <3>1. p[y] < k /\ p[x] \in k .. Len(s)
      BY <1>7, <1>8, <2>3
    <3>2. \A z \in k .. Len(s) : ~ (z < k)
      BY ONLY <1>1
    <3> QED BY ONLY <1>11, <3>1, <3>2
  <2>4. CASE ~ (x < k) /\ ~ (y < k)
    <3>1. /\ x - k + 1 \in 1 .. L /\ q[x - k + 1] \in 1 .. L /\ p[x] = q[x - k + 1] + k - 1
          /\ y - k + 1 \in 1 .. L /\ q[y - k + 1] \in 1 .. L /\ p[y] = q[y - k + 1] + k - 1
      BY <1>8, <2>4
    <3>2. q[x - k + 1] = q[y - k + 1]
      <4>1. PICK u \in 1 .. L, v \in 1 .. L : u = q[x - k + 1] /\ v = q[y - k + 1]
        BY <3>1
      <4>2. u + k - 1 = v + k - 1
        BY <1>11, <3>1, <4>1
      <4>3. u = v
        BY ONLY <1>1, <4>2, u \in 1 .. L, v \in 1 .. L
      <4> QED BY <4>1, <4>3
    <3>3. x - k + 1 = y - k + 1
      BY <1>4a, <3>1, <3>2
    <3> QED BY <1>1, <3>3
  <2> QED BY <2>1, <2>2, <2>3, <2>4
<1>12. ASSUME NEW x \in 1 .. Len(s), NEW y \in 1 .. Len(s), k <= x, x < y
       PROVE  AtMost(s[p[x]], s[p[y]])
  <2>1. ~ (x < k) /\ ~ (y < k) /\ x - k + 1 < y - k + 1
    BY <1>1, <1>12
  <2>2. /\ x - k + 1 \in 1 .. L /\ s[p[x]] = high[q[x - k + 1]]
        /\ y - k + 1 \in 1 .. L /\ s[p[y]] = high[q[y - k + 1]]
    BY <1>8, <2>1
  <2>3. AtMost(high[q[x - k + 1]], high[q[y - k + 1]])
    BY <1>4a, <2>1, <2>2
  <2> QED BY <2>2, <2>3
<1>13. ASSUME NEW x \in 1 .. Len(s)
       PROVE  SortedFrom(s, k)[x] = s[p[x]] /\ (x < k => p[x] = x) /\ (x >= k => p[x] >= k)
  <2>1. CASE x < k
    BY <1>1, <1>7, <2>1
  <2>2. CASE ~ (x < k)
    <3>1. SortedFrom(s, k)[x] = s[p[x]] /\ p[x] \in k .. Len(s)
      BY <1>8, <2>2
    <3> QED BY <1>1, <2>2, <3>1
  <2> QED BY <2>1, <2>2
<1>14. Arranges(p, s, SortedFrom(s, k), k)
  BY <1>11, <1>12, <1>13 DEF Arranges
<1> QED BY <1>10, <1>14

(* An entry discarded makes those behind it move up.                       *)
LEMMA DiscardElements ==
    ASSUME NEW S, NEW s \in Seq(S), NEW k \in 1 .. Len(s)
    PROVE  /\ Discard(s, k) \in Seq(S) /\ Len(Discard(s, k)) = Len(s) - 1
           /\ \A j \in 1 .. Len(s) - 1 : Discard(s, k)[j] = IF j < k THEN s[j] ELSE s[j + 1]
<1> DEFINE low == SubSeq(s, 1, k - 1)
           high == SubSeq(s, k + 1, Len(s))
<1>1. Len(s) \in Nat /\ k \in Nat /\ \A x \in 1 .. Len(s) : s[x] \in S
  BY LengthFacts, ElementOfSeq
<1>2. /\ low \in Seq(S) /\ Len(low) = k - 1
      /\ \A x \in 1 .. k - 1 : low[x] = s[x]
  <2>1. /\ low \in Seq(S) /\ Len(low) = (k - 1) - 1 + 1
        /\ \A x \in 1 .. (k - 1) - 1 + 1 : low[x] = s[1 + x - 1]
    BY <1>1, SubSeqProperties
  <2>2. (k - 1) - 1 + 1 = k - 1 /\ \A x \in 1 .. k - 1 : 1 + x - 1 = x
    BY <1>1
  <2> QED BY <2>1, <2>2
<1>3. /\ high \in Seq(S) /\ Len(high) = Len(s) - k
      /\ \A x \in 1 .. Len(s) - k : high[x] = s[x + k]
  <2>1. /\ high \in Seq(S) /\ Len(high) = Len(s) - (k + 1) + 1
        /\ \A x \in 1 .. Len(s) - (k + 1) + 1 : high[x] = s[(k + 1) + x - 1]
    BY <1>1, SubSeqProperties
  <2>2. Len(s) - (k + 1) + 1 = Len(s) - k /\ \A x \in 1 .. Len(s) - k : (k + 1) + x - 1 = x + k
    BY <1>1
  <2> QED BY <2>1, <2>2
<1> HIDE DEF low, high
<1>4. ASSUME NEW j \in 1 .. Len(s) - 1
      PROVE  (low \o high)[j] = IF j < k THEN s[j] ELSE s[j + 1]
  <2>1. j \in 1 .. Len(low) + Len(high)
    BY <1>1, <1>2, <1>3
  <2>2. (low \o high)[j] = IF j <= Len(low) THEN low[j] ELSE high[j - Len(low)]
    BY <1>2, <1>3, <2>1, ConcatProperties
  <2>3. CASE j < k
    <3>1. j <= Len(low) /\ j \in 1 .. k - 1
      BY <1>1, <1>2, <2>3
    <3> QED BY <1>2, <2>2, <2>3, <3>1
  <2>4. CASE ~ (j < k)
    <3>1. /\ ~ (j <= Len(low)) /\ j - Len(low) \in 1 .. Len(s) - k
          /\ (j - Len(low)) + k = j + 1
      BY <1>1, <1>2, <2>4
    <3> QED BY <1>3, <2>2, <2>4, <3>1
  <2> QED BY <2>3, <2>4
<1> QED BY <1>4, DiscardType DEF Discard, RemoveAt, low, high

----------------------------------------------------------------------------
(* The map while it is walked over, if the entries of the BIOS are apart.  *)

Apart(e, f) == Fin(e) <= f.base \/ Fin(f) <= e.base
Inside(e, f) == f.base <= e.base /\ Fin(e) <= Fin(f)

(* No entry is empty or unused.                                            *)
Solid(s) == \A j \in 1 .. Len(s) : s[j].size > 0 /\ s[j].type > 0

(* The map is made of two layers, each without overlaps: at first the      *)
(* BIOS's entries and the two added.  What an entry is cut into stays in   *)
(* its layer.                                                              *)
Layered(s) ==
    \E F \in SUBSET (1 .. Len(s)) : \A j, k \in 1 .. Len(s) :
        j # k /\ (j \in F <=> k \in F) => Apart(s[j], s[k])

(* The entries from k on are in the order of e820_sort, and those before   *)
(* it end where the ones behind them begin, or earlier.                    *)
Ordered(s, k) == \A j, l \in 1 .. Len(s) : k <= j /\ j < l => AtMost(s[j], s[l])
Settled(s, k) == \A j, l \in 1 .. Len(s) : j < k /\ j < l => Fin(s[j]) <= s[l].base
Tidy(s, k) == Solid(s) /\ Layered(s) /\ Ordered(s, k) /\ Settled(s, k)

(* The numbers of a map's entries.                                         *)
Numbers(s) == \A j \in 1 .. Len(s) :
    /\ s[j].base \in Int /\ s[j].size \in Int /\ s[j].type \in Int
    /\ Fin(s[j]) \in Int /\ Fin(s[j]) = s[j].base + s[j].size

LEMMA NumbersOf ==
    ASSUME NEW A \in SUBSET Int, NEW s \in Seq(Regions(A))
    PROVE  Numbers(s)
BY EntryFacts DEF Numbers

LEMMA ApartInside ==
    ASSUME NEW d, NEW e, NEW f, NEW h, Apart(e, h), Inside(d, e), Inside(f, h),
           d.base \in Int, e.base \in Int, f.base \in Int, h.base \in Int,
           Fin(d) \in Int, Fin(e) \in Int, Fin(f) \in Int, Fin(h) \in Int
    PROVE  Apart(d, f)
<1> DEFINE x(r) == r.base
           y(r) == Fin(r)
<1>1. /\ x(d) \in Int /\ x(e) \in Int /\ x(f) \in Int /\ x(h) \in Int
      /\ y(d) \in Int /\ y(e) \in Int /\ y(f) \in Int /\ y(h) \in Int
  OBVIOUS
<1>2. y(e) <= x(h) \/ y(h) <= x(e)
  BY DEF Apart
<1>3. x(e) <= x(d) /\ y(d) <= y(e) /\ x(h) <= x(f) /\ y(f) <= y(h)
  BY DEF Inside
<1>4. (y(d) <= x(f) \/ y(f) <= x(d)) => Apart(d, f)
  BY DEF Apart
<1> HIDE DEF x, y
<1> QED BY <1>1, <1>2, <1>3, <1>4

LEMMA Recoloured ==
    ASSUME NEW s, NEW t, Numbers(s), Numbers(t), Layered(s),
           NEW g, \A j \in 1 .. Len(t) : g[j] \in 1 .. Len(s) /\ Inside(t[j], s[g[j]]),
           \A j, k \in 1 .. Len(t) : j # k /\ g[j] = g[k] => Apart(t[j], t[k])
    PROVE  Layered(t)
<1>1. PICK F \in SUBSET (1 .. Len(s)) : \A j, k \in 1 .. Len(s) :
        j # k /\ (j \in F <=> k \in F) => Apart(s[j], s[k])
  BY DEF Layered
<1> DEFINE G == {j \in 1 .. Len(t) : g[j] \in F}
<1>2. ASSUME NEW j \in 1 .. Len(t), NEW k \in 1 .. Len(t), j # k, j \in G <=> k \in G
      PROVE  Apart(t[j], t[k])
  <2>1. CASE g[j] = g[k]
    BY <1>2, <2>1
  <2>2. CASE g[j] # g[k]
    <3>1. PICK x \in 1 .. Len(s), y \in 1 .. Len(s) : x = g[j] /\ y = g[k]
      OBVIOUS
    <3>2. Apart(s[x], s[y])
      BY <1>1, <1>2, <2>2, <3>1
    <3>3. Inside(t[j], s[x]) /\ Inside(t[k], s[y])
      BY <3>1
    <3>4. /\ s[x].base \in Int /\ Fin(s[x]) \in Int /\ s[y].base \in Int /\ Fin(s[y]) \in Int
          /\ t[j].base \in Int /\ Fin(t[j]) \in Int /\ t[k].base \in Int /\ Fin(t[k]) \in Int
      BY DEF Numbers
    <3> QED BY <3>2, <3>3, <3>4, ApartInside
  <2> QED BY <2>1, <2>2
<1>3. G \in SUBSET (1 .. Len(t))
  OBVIOUS
<1> HIDE DEF G
<1> QED BY <1>2, <1>3 DEF Layered

(* No three entries share an address.                                      *)
LEMMA NoThree ==
    ASSUME NEW s, Numbers(s), Layered(s), NEW a \in Int,
           NEW j \in 1 .. Len(s), NEW k \in 1 .. Len(s), NEW l \in 1 .. Len(s),
           j # k, j # l, k # l, Spans(s[j], a), Spans(s[k], a), Spans(s[l], a)
    PROVE  FALSE
<1>1. PICK F \in SUBSET (1 .. Len(s)) : \A x, y \in 1 .. Len(s) :
        x # y /\ (x \in F <=> y \in F) => Apart(s[x], s[y])
  BY DEF Layered
<1>2. Apart(s[j], s[k]) \/ Apart(s[j], s[l]) \/ Apart(s[k], s[l])
  <2>1. (j \in F <=> k \in F) \/ (j \in F <=> l \in F) \/ (k \in F <=> l \in F)
    OBVIOUS
  <2> QED BY <1>1, <2>1
<1>3. ASSUME NEW x \in 1 .. Len(s), NEW y \in 1 .. Len(s), Spans(s[x], a), Spans(s[y], a)
      PROVE  ~ Apart(s[x], s[y])
  <2>1. s[x].base \in Int /\ Fin(s[x]) \in Int /\ s[y].base \in Int /\ Fin(s[y]) \in Int
    BY DEF Numbers
  <2>2. s[x].base <= a /\ a < Fin(s[x]) /\ s[y].base <= a /\ a < Fin(s[y])
    BY <1>3 DEF Spans
  <2>3. ~ (Fin(s[x]) <= s[y].base) /\ ~ (Fin(s[y]) <= s[x].base)
    BY ONLY a \in Int, <2>1, <2>2
  <2> QED BY <2>3 DEF Apart
<1> QED BY <1>2, <1>3

(* What a sort of the entries from k on, and a discard behind them, do.    *)
LEMMA SortTidies ==
    ASSUME NEW A \in SUBSET Int, NEW s \in Seq(Regions(A)), NEW k \in 1 .. Len(s),
           Solid(s), Layered(s), Settled(s, k)
    PROVE  Tidy(SortedFrom(s, k), k)
<1> DEFINE t == SortedFrom(s, k)
<1>1. t \in Seq(Regions(A)) /\ Len(t) = Len(s)
  BY SortedFromType
<1>2a. PICK p \in [1 .. Len(s) -> 1 .. Len(s)] : Arranges(p, s, t, k)
  BY SortedFromElements
<1>2. /\ \A x, y \in 1 .. Len(s) : p[x] = p[y] => x = y
      /\ \A x \in 1 .. Len(s) : /\ t[x] = s[p[x]]
                                /\ x < k => p[x] = x
                                /\ x >= k => p[x] >= k
      /\ \A x, y \in 1 .. Len(s) : k <= x /\ x < y => AtMost(s[p[x]], s[p[y]])
  BY <1>2a DEF Arranges
<1>3. Numbers(s) /\ Numbers(t)
  BY <1>1, NumbersOf
<1> HIDE DEF t
<1>4. Solid(t)
  BY <1>1, <1>2 DEF Solid
<1>5. Layered(t)
  <2>1. ASSUME NEW j \in 1 .. Len(t)
        PROVE  p[j] \in 1 .. Len(s) /\ Inside(t[j], s[p[j]])
    <3>1. p[j] \in 1 .. Len(s) /\ t[j] = s[p[j]]
      BY <1>1, <1>2
    <3>2. t[j].base \in Int /\ Fin(t[j]) \in Int
      BY <1>3 DEF Numbers
    <3> QED BY <3>1, <3>2 DEF Inside
  <2>2. \A j, l \in 1 .. Len(t) : j # l /\ p[j] = p[l] => Apart(t[j], t[l])
    BY <1>1, <1>2
  <2> QED BY <1>3, <2>1, <2>2, Recoloured
<1>6. Ordered(t, k)
  BY <1>1, <1>2 DEF Ordered
<1>7. Settled(t, k)
  <2> SUFFICES ASSUME NEW j \in 1 .. Len(s), NEW l \in 1 .. Len(s), j < k, j < l
               PROVE  Fin(t[j]) <= t[l].base
    BY <1>1 DEF Settled
  <2>1. t[j] = s[j]
    BY <1>2
  <2>2. PICK y \in 1 .. Len(s) : y = p[l] /\ t[l] = s[y]
    BY <1>2
  <2>3. j < y
    <3>1. CASE l < k
      BY <1>2, <2>2, <3>1
    <3>2. CASE ~ (l < k)
      <4>1. l >= k
        BY <3>2
      <4>2. y >= k
        BY <1>2, <2>2, <4>1
      <4>3. j \in Int /\ k \in Int /\ y \in Int
        BY LengthFacts
      <4> QED BY ONLY <4>2, <4>3, j < k
    <3> QED BY <3>1, <3>2
  <2>4. Fin(s[j]) <= s[y].base
    BY <2>3 DEF Settled
  <2> QED BY <2>1, <2>2, <2>4
<1> QED BY <1>4, <1>5, <1>6, <1>7 DEF Tidy, t

LEMMA DiscardTidies ==
    ASSUME NEW A \in SUBSET Int, NEW s \in Seq(Regions(A)), NEW k \in 1 .. Len(s),
           NEW x \in Nat, x <= k, Tidy(s, x)
    PROVE  Tidy(Discard(s, k), x)
<1> DEFINE t == Discard(s, k)
           g == [j \in 1 .. Len(s) - 1 |-> IF j < k THEN j ELSE j + 1]
<1>1. /\ t \in Seq(Regions(A)) /\ Len(t) = Len(s) - 1
      /\ \A j \in 1 .. Len(s) - 1 : t[j] = IF j < k THEN s[j] ELSE s[j + 1]
  <2> HIDE DEF Regions
  <2> QED BY DiscardElements
<1>2. Len(s) \in Nat /\ k \in Nat /\ k <= Len(s)
  BY LengthFacts
<1>3. Numbers(s) /\ Numbers(t)
  BY <1>1, NumbersOf
<1> HIDE DEF t
<1>4. ASSUME NEW j \in 1 .. Len(t)
      PROVE  /\ g[j] \in 1 .. Len(s) /\ t[j] = s[g[j]]
             /\ j \in Int /\ g[j] \in Int
             /\ g[j] = IF j < k THEN j ELSE j + 1
  <2>1. g[j] = IF j < k THEN j ELSE j + 1
    BY <1>1
  <2>2. j \in Int /\ j >= 1 /\ j <= Len(s) - 1
    BY <1>1, <1>2
  <2>3. t[j] = IF j < k THEN s[j] ELSE s[j + 1]
    BY <1>1
  <2> HIDE DEF g
  <2>4. CASE j < k
    BY ONLY <1>2, <2>1, <2>2, <2>3, <2>4
  <2>5. CASE ~ (j < k)
    BY ONLY <1>2, <2>1, <2>2, <2>3, <2>5
  <2> QED BY <2>4, <2>5
<1> HIDE DEF g
<1>5. Solid(t)
  BY <1>4 DEF Solid, Tidy
<1>6. ASSUME NEW j \in 1 .. Len(t), NEW l \in 1 .. Len(t)
      PROVE  /\ j < l => g[j] < g[l]
             /\ g[j] = g[l] => j = l
             /\ j < x <=> g[j] < x
  <2>1. /\ j \in Int /\ g[j] \in Int /\ g[j] = IF j < k THEN j ELSE j + 1
        /\ l \in Int /\ g[l] \in Int /\ g[l] = IF l < k THEN l ELSE l + 1
    BY <1>4
  <2> QED BY ONLY <1>2, <2>1, x \in Nat, x <= k
<1>7. Layered(t)
  <2>1. ASSUME NEW j \in 1 .. Len(t)
        PROVE  g[j] \in 1 .. Len(s) /\ Inside(t[j], s[g[j]])
    <3>1. t[j].base \in Int /\ Fin(t[j]) \in Int
      BY <1>3 DEF Numbers
    <3> QED BY <1>4, <3>1 DEF Inside
  <2>2. \A j, l \in 1 .. Len(t) : j # l /\ g[j] = g[l] => Apart(t[j], t[l])
    BY <1>6
  <2> QED BY <1>3, <2>1, <2>2, Recoloured DEF Tidy
<1>8. Ordered(t, x)
  <2> SUFFICES ASSUME NEW j \in 1 .. Len(t), NEW l \in 1 .. Len(t), x <= j, j < l
               PROVE  AtMost(t[j], t[l])
    BY DEF Ordered
  <2>1. x <= g[j] /\ g[j] < g[l]
    <3>1. ~ (j < x) /\ j \in Int /\ g[j] \in Int
      BY <1>4
    <3> QED BY <1>6, <3>1
  <2> QED BY <1>4, <2>1 DEF Tidy, Ordered
<1>9. Settled(t, x)
  <2> SUFFICES ASSUME NEW j \in 1 .. Len(t), NEW l \in 1 .. Len(t), j < x, j < l
               PROVE  Fin(t[j]) <= t[l].base
    BY DEF Settled
  <2>1. g[j] < x /\ g[j] < g[l]
    BY <1>6
  <2>2. g[j] \in 1 .. Len(s) /\ t[j] = s[g[j]] /\ g[l] \in 1 .. Len(s) /\ t[l] = s[g[l]]
    BY <1>4
  <2>3. Settled(s, x)
    BY DEF Tidy
  <2>4. Fin(s[g[j]]) <= s[g[l]].base
    BY ONLY <2>1, <2>2, <2>3 DEF Settled
  <2> QED BY <2>2, <2>4
<1> QED BY <1>5, <1>7, <1>8, <1>9 DEF Tidy, t

(* What the walk knows of the current entry and of those behind it.        *)
LEMMA WalkFacts ==
    ASSUME NEW A \in SUBSET Int, m \in Seq(Regions(A)), i \in Nat \ {0}, i < Len(m), Tidy(m, i)
    PROVE  /\ c.size > 0 /\ c.type > 0 /\ n.size > 0 /\ n.type > 0
           /\ c.base < n.base \/ (c.base = n.base /\ c.size <= n.size)
           /\ \A l \in 1 .. Len(m) : i < l => n.base <= m[l].base
           /\ \A j, l \in 1 .. Len(m) : j < i /\ j < l => Fin(m[j]) <= m[l].base
           /\ \A j, l \in 1 .. Len(m) : i <= j /\ j < l => AtMost(m[j], m[l])
<1>1. i \in 1 .. Len(m) /\ i + 1 \in 1 .. Len(m) /\ i \in Int /\ i <= i /\ i < i + 1
  BY InLoopFacts
<1>2. c.size > 0 /\ c.type > 0 /\ n.size > 0 /\ n.type > 0
  BY <1>1 DEF Tidy, Solid, c, n
<1>3. \A j, l \in 1 .. Len(m) : j < i /\ j < l => Fin(m[j]) <= m[l].base
  BY DEF Tidy, Settled
<1>4. \A j, l \in 1 .. Len(m) : i <= j /\ j < l => AtMost(m[j], m[l])
  BY DEF Tidy, Ordered
<1>5. AtMost(c, n)
  BY <1>1, <1>4 DEF c, n
<1>6. ASSUME NEW l \in 1 .. Len(m), i < l PROVE n.base <= m[l].base
  <2>1. n.base \in Int /\ m[l].base \in Int
    BY InLoopFacts, EntryFacts
  <2>2. CASE l = i + 1
    BY <2>1, <2>2 DEF n
  <2>3. CASE l # i + 1
    <3>1. i <= i + 1 /\ i + 1 < l
      BY <1>1, <1>6, <2>3
    <3>2. AtMost(n, m[l])
      BY <1>1, <1>4, <3>1 DEF n
    <3> QED BY <2>1, <3>2 DEF AtMost
  <2> QED BY <2>2, <2>3
<1> QED BY <1>2, <1>3, <1>4, <1>5, <1>6 DEF AtMost

LEMMA SkipTidies ==
    ASSUME NEW A \in SUBSET Int, m \in Seq(Regions(A)), i \in Nat \ {0}, i < Len(m), Tidy(m, i),
           Fin(c) <= n.base
    PROVE  Tidy(m, i + 1)
<1>1. Ordered(m, i + 1)
  <2> SUFFICES ASSUME NEW j \in 1 .. Len(m), NEW l \in 1 .. Len(m), i + 1 <= j, j < l
               PROVE  AtMost(m[j], m[l])
    BY DEF Ordered
  <2>1. i <= j
    OBVIOUS
  <2> QED BY <2>1 DEF Tidy, Ordered
<1>2. Settled(m, i + 1)
  <2> SUFFICES ASSUME NEW j \in 1 .. Len(m), NEW l \in 1 .. Len(m), j < i + 1, j < l
               PROVE  Fin(m[j]) <= m[l].base
    BY DEF Settled
  <2>1. CASE j < i
    BY <2>1, WalkFacts
  <2>2. CASE ~ (j < i)
    <3>1. j = i
      BY <2>2
    <3>2. n.base <= m[l].base
      BY <3>1, WalkFacts
    <3>3. n.base \in Int /\ Fin(c) \in Int /\ m[l].base \in Int
      BY InLoopFacts, EntryFacts
    <3>4. Fin(c) <= m[l].base
      BY <3>2, <3>3
    <3> QED BY <3>1, <3>4 DEF c
  <2> QED BY <2>1, <2>2
<1> QED BY <1>1, <1>2 DEF Tidy

(* The current entry and the next one change, and give up addresses.       *)
LEMMA PairTidies ==
    ASSUME NEW A \in SUBSET Int, m \in Seq(Regions(A)), i \in Nat \ {0}, i < Len(m), Tidy(m, i),
           NEW s \in Seq(Regions(A)), Len(s) = Len(m),
           \A j \in 1 .. Len(m) : j \notin {i, i + 1} => s[j] = m[j],
           s[i].size > 0, s[i].type > 0, s[i + 1].size > 0, s[i + 1].type > 0,
           Inside(s[i], c), n.base <= s[i + 1].base,
           Inside(s[i + 1], n) \/ (Inside(s[i + 1], c) /\ Apart(s[i], s[i + 1]))
    PROVE  /\ Solid(s) /\ Layered(s) /\ Settled(s, i)
           /\ (\A l \in 1 .. Len(s) : i < l => Fin(s[i]) <= s[l].base) => Settled(s, i + 1)
<1>1. i \in 1 .. Len(m) /\ i + 1 \in 1 .. Len(m) /\ i # i + 1 /\ Len(m) \in Nat
  BY InLoopFacts
<1>2. Numbers(m) /\ Numbers(s)
  BY NumbersOf
<1>3. Solid(s)
  <2> SUFFICES ASSUME NEW j \in 1 .. Len(m) PROVE s[j].size > 0 /\ s[j].type > 0
    BY DEF Solid
  <2>1. CASE j \in {i, i + 1}
    BY <2>1
  <2>2. CASE j \notin {i, i + 1}
    BY <2>2 DEF Tidy, Solid
  <2> QED BY <2>1, <2>2
<1>4. ASSUME NEW j \in 1 .. Len(m) PROVE Inside(m[j], m[j])
  <2>1. m[j].base \in Int /\ Fin(m[j]) \in Int
    BY <1>2 DEF Numbers
  <2> QED BY <2>1 DEF Inside
<1>5. Layered(s)
  <2>1. CASE Inside(s[i + 1], n)
    <3> DEFINE g == [j \in 1 .. Len(m) |-> j]
    <3>1. ASSUME NEW j \in 1 .. Len(s)
          PROVE  g[j] \in 1 .. Len(m) /\ Inside(s[j], m[g[j]])
      <4>1. g[j] = j /\ j \in 1 .. Len(m)
        OBVIOUS
      <4>2. CASE j = i \/ j = i + 1
        BY <2>1, <4>1, <4>2 DEF c, n
      <4>3. CASE j # i /\ j # i + 1
        BY <1>4, <4>1, <4>3
      <4> QED BY <4>1, <4>2, <4>3
    <3>2. \A j, l \in 1 .. Len(s) : j # l /\ g[j] = g[l] => Apart(s[j], s[l])
      OBVIOUS
    <3> HIDE DEF g
    <3>3. Layered(m)
      BY DEF Tidy
    <3> QED BY <1>2, <3>1, <3>2, <3>3, Recoloured
  <2>2. CASE Inside(s[i + 1], c) /\ Apart(s[i], s[i + 1])
    <3> DEFINE g == [j \in 1 .. Len(m) |-> IF j = i + 1 THEN i ELSE j]
    <3>1. ASSUME NEW j \in 1 .. Len(s)
          PROVE  g[j] \in 1 .. Len(m) /\ Inside(s[j], m[g[j]])
      <4>1. j \in 1 .. Len(m) /\ g[j] = IF j = i + 1 THEN i ELSE j
        OBVIOUS
      <4>2. CASE j = i \/ j = i + 1
        BY <1>1, <2>2, <4>1, <4>2 DEF c
      <4>3. CASE j # i /\ j # i + 1
        BY <1>4, <4>1, <4>3
      <4> QED BY <4>1, <4>2, <4>3
    <3>2. ASSUME NEW j \in 1 .. Len(s), NEW l \in 1 .. Len(s), j # l, g[j] = g[l]
          PROVE  Apart(s[j], s[l])
      <4>1. (j = i /\ l = i + 1) \/ (j = i + 1 /\ l = i)
        BY <3>2
      <4> QED BY <2>2, <4>1 DEF Apart
    <3> HIDE DEF g
    <3>3. Layered(m)
      BY DEF Tidy
    <3> QED BY <1>2, <3>1, <3>2, <3>3, Recoloured
  <2> QED BY <2>1, <2>2
<1>6. ASSUME NEW l \in 1 .. Len(m) PROVE m[l].base <= s[l].base
  <2>1. m[l].base \in Int
    BY <1>2 DEF Numbers
  <2>2. CASE l = i
    BY <2>2 DEF Inside, c
  <2>3. CASE l = i + 1
    BY <2>3 DEF n
  <2>4. CASE l # i /\ l # i + 1
    BY <2>1, <2>4
  <2> QED BY <2>2, <2>3, <2>4
<1>7. ASSUME NEW j \in 1 .. Len(m), NEW l \in 1 .. Len(m), j < i, j < l
      PROVE  Fin(s[j]) <= s[l].base
  <2>1. Fin(m[j]) <= m[l].base /\ m[l].base <= s[l].base
    BY <1>6, <1>7, WalkFacts
  <2>2. Fin(m[j]) \in Int /\ m[l].base \in Int /\ s[l].base \in Int
    BY <1>2 DEF Numbers
  <2>3. s[j] = m[j]
    <3>1. i \in Int /\ j \in Int
      BY <1>1
    <3>2. j # i /\ j # i + 1
      BY ONLY <3>1, j < i
    <3> QED BY <3>2
  <2> QED BY <2>1, <2>2, <2>3
<1>8. Settled(s, i)
  BY <1>7 DEF Settled
<1>9. ASSUME \A l \in 1 .. Len(s) : i < l => Fin(s[i]) <= s[l].base
      PROVE  Settled(s, i + 1)
  <2> SUFFICES ASSUME NEW j \in 1 .. Len(m), NEW l \in 1 .. Len(m), j < i + 1, j < l
               PROVE  Fin(s[j]) <= s[l].base
    BY DEF Settled
  <2>1. CASE j < i
    BY <1>7, <2>1
  <2>2. CASE ~ (j < i)
    <3>1. j = i
      BY <2>2
    <3> QED BY <1>9, <3>1
  <2> QED BY <2>1, <2>2
<1> QED BY <1>3, <1>5, <1>8, <1>9

(* The current entry ends where the next one begins.                       *)
LEMMA CutTidies ==
    ASSUME NEW A \in SUBSET Int, m \in Seq(Regions(A)), i \in Nat \ {0}, i < Len(m), Tidy(m, i),
           c.base < n.base, n.base <= Fin(c)
    PROVE  /\ Tidy(CutBefore(m), i + 1)
           /\ Cut.base = c.base /\ Fin(Cut) = n.base /\ Cut.size > 0 /\ Cut.type > 0
<1> DEFINE s == CutBefore(m)
<1>1. /\ s \in Seq(Regions(A)) /\ Len(s) = Len(m) /\ s[i + 1] = n /\ s[i] = Cut
      /\ \A j \in 1 .. Len(m) : j # i => s[j] = m[j]
  BY CutType, CutEntries
<1>2. /\ i \in 1 .. Len(m) /\ i + 1 \in 1 .. Len(m) /\ i \in Int
      /\ c.base \in Int /\ n.base \in Int /\ Fin(n) \in Int /\ Fin(c) \in Int
  BY InLoopFacts
<1> HIDE DEF s
<1>3. Cut.base = c.base /\ Cut.size = n.base - c.base /\ Cut.type = c.type
  BY InLoopFacts, RegionParts DEF Cut
<1>4. Fin(Cut) = n.base
  BY <1>2, <1>3 DEF Fin
<1>5. Cut.size > 0 /\ Cut.type > 0 /\ n.size > 0 /\ n.type > 0
  <2>1. c.type > 0 /\ n.size > 0 /\ n.type > 0
    BY WalkFacts
  <2>2. n.base - c.base > 0
    BY <1>2
  <2> QED BY <1>3, <2>1, <2>2
<1>6. Inside(Cut, c) /\ Inside(n, n) /\ n.base <= n.base
  BY <1>2, <1>3, <1>4 DEF Inside
<1>7. \A l \in 1 .. Len(s) : i < l => Fin(s[i]) <= s[l].base
  <2> SUFFICES ASSUME NEW l \in 1 .. Len(m), i < l PROVE n.base <= s[l].base
    BY <1>1, <1>4
  <2>1. s[l] = m[l]
    BY <1>1
  <2> QED BY <2>1, WalkFacts
<1>8. Solid(s) /\ Layered(s) /\ Settled(s, i + 1)
  BY <1>1, <1>5, <1>6, <1>7, PairTidies
<1>9. Ordered(s, i + 1)
  <2> SUFFICES ASSUME NEW j \in 1 .. Len(m), NEW l \in 1 .. Len(m), i + 1 <= j, j < l
               PROVE  AtMost(s[j], s[l])
    BY <1>1 DEF Ordered
  <2>1. i <= j /\ j # i /\ l # i
    BY <1>2
  <2>2. s[j] = m[j] /\ s[l] = m[l]
    BY <1>1, <2>1
  <2> QED BY <2>1, <2>2, WalkFacts
<1> QED BY <1>3, <1>4, <1>5, <1>8, <1>9 DEF Tidy, s

(* No other entry begins where the current one and the next overlap.       *)
LEMMA NoneBetween ==
    ASSUME NEW A \in SUBSET Int, m \in Seq(Regions(A)), i \in Nat \ {0}, i < Len(m), Tidy(m, i),
           NEW l \in 1 .. Len(m), i + 1 < l
    PROVE  Fin(c) <= m[l].base \/ Fin(n) <= m[l].base
<1>1. /\ i \in 1 .. Len(m) /\ i + 1 \in 1 .. Len(m) /\ i \in Int /\ l \in Int
      /\ c.base \in Int /\ n.base \in Int /\ Fin(n) \in Int /\ Fin(c) \in Int
  BY InLoopFacts, LengthFacts
<1>2. Numbers(m)
  BY NumbersOf
<1>3. SUFFICES ASSUME ~ (Fin(c) <= m[l].base), ~ (Fin(n) <= m[l].base) PROVE FALSE
  OBVIOUS
<1> DEFINE a == m[l].base
<1>4. a \in Int /\ a < Fin(c) /\ a < Fin(n)
  BY <1>1, <1>2, <1>3 DEF Numbers
<1>5. Spans(m[l], a)
  <2>1. m[l].size > 0 /\ m[l].size \in Int /\ Fin(m[l]) = a + m[l].size
    BY <1>2 DEF Tidy, Solid, Numbers
  <2> QED BY <1>4, <2>1 DEF Spans
<1>6. n.base <= a /\ c.base <= a
  <2>1. i < l
    BY <1>1
  <2>2. n.base <= a /\ c.base <= n.base
    BY <1>1, <2>1, WalkFacts
  <2> QED BY <1>1, <1>4, <2>2
<1>7. Spans(m[i], a) /\ Spans(m[i + 1], a)
  BY <1>4, <1>6 DEF Spans, c, n
<1>8. i # i + 1 /\ i # l /\ i + 1 # l
  BY <1>1
<1> HIDE DEF a
<1>9. Layered(m)
  BY DEF Tidy
<1> QED BY <1>1, <1>2, <1>4, <1>5, <1>7, <1>8, <1>9, NoThree

(* The next entry begins where the current one ends, and is sorted in.     *)
LEMMA TrimTidies ==
    ASSUME NEW A \in SUBSET Int, m \in Seq(Regions(A)), i \in Nat \ {0}, i < Len(m), Tidy(m, i),
           NEW z \in Int, Fin(c) + z = Fin(n), n.base <= Fin(c), Fin(c) < Fin(n)
    PROVE  /\ Tidy(SortedFrom([m EXCEPT ![i + 1] = Entry(Fin(c), z, n.type)], i), i)
           /\ Tidy(SortedFrom([m EXCEPT ![i + 1] = Entry(Fin(c), z, n.type)], i + 1), i + 1)
<1> DEFINE e == Entry(Fin(c), z, n.type)
           s == [m EXCEPT ![i + 1] = e]
<1>1. /\ i \in 1 .. Len(m) /\ i + 1 \in 1 .. Len(m) /\ i \in Int /\ i # i + 1
      /\ c.base \in Int /\ n.base \in Int /\ Fin(n) \in Int /\ Fin(c) \in Int /\ n.type \in Int
      /\ Fin(c) \in A /\ Fin(n) \in A
  BY InLoopFacts
<1>2. e \in Regions(A)
  BY <1>1, RegionMade
<1>3. e.base = Fin(c) /\ e.size = z /\ e.type = n.type /\ Fin(e) = Fin(n)
  BY DEF Entry, Fin
<1>4. z > 0
  BY <1>1
<1> HIDE DEF e
<1>5. s \in Seq(Regions(A)) /\ Len(s) = Len(m)
  BY <1>1, <1>2, ExceptSeq
<1>6. s[i] = c /\ s[i + 1] = e /\ \A j \in 1 .. Len(m) : j \notin {i, i + 1} => s[j] = m[j]
  <2>1. DOMAIN m = 1 .. Len(m)
    BY LengthFacts
  <2> QED BY <1>1, <2>1 DEF c
<1> HIDE DEF s
<1>7. s[i].size > 0 /\ s[i].type > 0 /\ s[i + 1].size > 0 /\ s[i + 1].type > 0
  <2>1. c.size > 0 /\ c.type > 0 /\ n.type > 0
    BY WalkFacts
  <2> QED BY <1>3, <1>4, <1>6, <2>1
<1>8. Inside(s[i], c) /\ n.base <= s[i + 1].base /\ Inside(s[i + 1], n)
  BY <1>1, <1>3, <1>6 DEF Inside
<1>9. /\ Solid(s) /\ Layered(s) /\ Settled(s, i)
      /\ (\A l \in 1 .. Len(s) : i < l => Fin(s[i]) <= s[l].base) => Settled(s, i + 1)
  BY <1>5, <1>6, <1>7, <1>8, PairTidies
<1>10. ASSUME NEW l \in 1 .. Len(m), i < l PROVE Fin(c) <= s[l].base
  <2>1. CASE l = i + 1
    BY <1>1, <1>3, <1>6, <2>1
  <2>2. CASE l # i + 1
    <3>1. l \in Int /\ m[l].base \in Int
      BY EntryFacts
    <3>2. i + 1 < l /\ l # i
      BY <1>1, <1>10, <2>2, <3>1
    <3>3. Fin(c) <= m[l].base \/ Fin(n) <= m[l].base
      BY <3>2, NoneBetween
    <3>4. Fin(c) <= m[l].base
      BY <1>1, <3>1, <3>3
    <3> QED BY <1>6, <2>2, <3>2, <3>4
  <2> QED BY <2>1, <2>2
<1>11. Settled(s, i + 1)
  BY <1>5, <1>6, <1>9, <1>10
<1>12. i \in 1 .. Len(s) /\ i + 1 \in 1 .. Len(s)
  BY <1>1, <1>5
<1>13. Tidy(SortedFrom(s, i), i) /\ Tidy(SortedFrom(s, i + 1), i + 1)
  BY <1>5, <1>9, <1>11, <1>12, SortTidies
<1> QED BY <1>13 DEF s, e

(* What follows the next entry becomes an entry of its own.                *)
LEMMA SplitTidies ==
    ASSUME NEW A \in SUBSET Int, m \in Seq(Regions(A)), i \in Nat \ {0}, i < Len(m), Tidy(m, i),
           c.base < n.base, n.base < Fin(c), Fin(n) < Fin(c)
    PROVE  Tidy(SortedFrom(Append(CutBefore(m), Entry(Fin(n), Fin(c) - Fin(n), c.type)), i + 1),
                i + 1)
<1> DEFINE e == Entry(Fin(n), Fin(c) - Fin(n), c.type)
           s == CutBefore(m)
           t == Append(s, e)
           N == Len(m) + 1
<1>1. /\ i \in 1 .. Len(m) /\ i + 1 \in 1 .. Len(m) /\ i \in Int /\ i # i + 1 /\ Len(m) \in Nat
      /\ c.base \in Int /\ n.base \in Int /\ Fin(n) \in Int /\ Fin(c) \in Int /\ c.type \in Int
      /\ Fin(c) \in A /\ Fin(n) \in A /\ n.size \in Int /\ Fin(n) = n.base + n.size
  BY InLoopFacts
<1>2. Fin(c) - Fin(n) \in Int /\ Fin(n) + (Fin(c) - Fin(n)) = Fin(c) /\ Fin(c) - Fin(n) > 0
  <2>1. PICK x \in Int, y \in Int : x = Fin(c) /\ y = Fin(n) /\ y < x
    BY <1>1
  <2>2. x - y \in Int /\ y + (x - y) = x /\ x - y > 0
    BY ONLY x \in Int, y \in Int, <2>1
  <2> QED BY <2>1, <2>2
<1>3. e \in Regions(A)
  BY <1>1, <1>2, RegionMade
<1>4. e.base = Fin(n) /\ e.size = Fin(c) - Fin(n) /\ e.type = c.type /\ Fin(e) = Fin(c)
  BY <1>1, <1>2 DEF Entry, Fin
<1> HIDE DEF e
<1>5. /\ s \in Seq(Regions(A)) /\ Len(s) = Len(m) /\ s[i + 1] = n /\ s[i] = Cut
      /\ \A j \in 1 .. Len(m) : j # i => s[j] = m[j]
  BY CutType, CutEntries
<1>6. /\ Tidy(s, i + 1) /\ Cut.base = c.base /\ Fin(Cut) = n.base
      /\ Cut.size > 0 /\ Cut.type > 0
  <2>1. n.base <= Fin(c)
    BY <1>1
  <2> QED BY <2>1, CutTidies
<1> HIDE DEF s
<1>7. /\ t \in Seq(Regions(A)) /\ Len(t) = N /\ t[N] = e
      /\ \A j \in 1 .. Len(m) : t[j] = s[j]
  <2> HIDE DEF Regions
  <2>1. /\ t \in Seq(Regions(A)) /\ Len(t) = Len(s) + 1 /\ t[Len(s) + 1] = e
        /\ \A j \in 1 .. Len(s) : t[j] = s[j]
    <3>1. s \in Seq(Regions(A))
      BY <1>5
    <3> QED BY ONLY <3>1, <1>3, AppendProperties
  <2> HIDE DEF t
  <2> QED BY <1>5, <2>1
<1> HIDE DEF t
<1>8. \A j \in 1 .. N : j # N => j \in 1 .. Len(m)
  BY <1>1
<1>9. c.size > 0 /\ c.type > 0 /\ n.size > 0
  BY WalkFacts
<1>10. Solid(t)
  <2> SUFFICES ASSUME NEW j \in 1 .. N PROVE t[j].size > 0 /\ t[j].type > 0
    BY <1>7 DEF Solid
  <2>1. CASE j = N
    BY <1>2, <1>4, <1>7, <1>9, <2>1
  <2>2. CASE j # N
    BY <1>5, <1>6, <1>7, <1>8, <2>2 DEF Tidy, Solid
  <2> QED BY <2>1, <2>2
<1>11. Numbers(m) /\ Numbers(t)
  BY <1>7, NumbersOf
<1>12. Apart(Cut, e) /\ Apart(e, Cut)
  <2>1. Fin(Cut) <= e.base
    BY <1>1, <1>4, <1>6, <1>9
  <2> QED BY <2>1 DEF Apart
<1>13. Layered(t)
  <2> DEFINE g == [j \in 1 .. N |-> IF j = N THEN i ELSE j]
  <2>1. ASSUME NEW j \in 1 .. Len(t)
        PROVE  g[j] \in 1 .. Len(m) /\ Inside(t[j], m[g[j]])
    <3>1. j \in 1 .. N /\ g[j] = IF j = N THEN i ELSE j
      BY <1>7
    <3> HIDE DEF g, N
    <3>2. CASE j = N
      <4>1. g[j] = i /\ t[j] = e
        BY <1>7, <3>1, <3>2
      <4>2. c.base <= Fin(n) /\ Fin(c) <= Fin(c)
        BY <1>1, <1>9
      <4>3. Inside(e, c)
        BY <1>4, <4>2 DEF Inside
      <4> QED BY <1>1, <4>1, <4>3 DEF c
    <3>3. CASE j = i /\ j # N
      <4>1. Inside(Cut, c)
        BY <1>1, <1>6 DEF Inside
      <4>2. g[j] = i /\ t[j] = Cut
        BY <1>1, <1>5, <1>7, <3>1, <3>3
      <4> QED BY <1>1, <4>1, <4>2 DEF c
    <3>4. CASE j # i /\ j # N
      <4>1. j \in 1 .. Len(m) /\ g[j] = j /\ t[j] = m[j]
        BY <1>5, <1>7, <1>8, <3>1, <3>4
      <4>2. m[j].base \in Int /\ Fin(m[j]) \in Int
        BY <1>11, <4>1 DEF Numbers
      <4> QED BY <4>1, <4>2 DEF Inside
    <3> QED BY <3>2, <3>3, <3>4
  <2>2. ASSUME NEW j \in 1 .. Len(t), NEW l \in 1 .. Len(t), j # l, g[j] = g[l]
        PROVE  Apart(t[j], t[l])
    <3>1. (j = N /\ l = i) \/ (j = i /\ l = N)
      BY <1>7, <2>2
    <3>2. t[i] = Cut /\ t[N] = e
      BY <1>1, <1>5, <1>7
    <3> HIDE DEF N
    <3> QED BY <1>12, <3>1, <3>2
  <2>3. \A j, k \in 1 .. Len(t) : j # k /\ g[j] = g[k] => Apart(t[j], t[k])
    BY <2>2
  <2> HIDE DEF g
  <2>4. Layered(m)
    BY DEF Tidy
  <2> QED BY <1>11, <2>1, <2>3, <2>4, Recoloured
<1>14. Settled(t, i + 1)
  <2> SUFFICES ASSUME NEW j \in 1 .. N, NEW l \in 1 .. N, j < i + 1, j < l
               PROVE  Fin(t[j]) <= t[l].base
    BY <1>7 DEF Settled
  <2>1. j \in 1 .. Len(m) /\ t[j] = s[j]
    <3>1. j \in 1 .. Len(m)
      BY ONLY <1>1, j \in 1 .. Len(m) + 1, j < i + 1
    <3> QED BY <1>7, <3>1
  <2>2. CASE l # N
    <3>1. l \in 1 .. Len(m) /\ t[l] = s[l]
      BY <1>7, <1>8, <2>2
    <3> QED BY <1>5, <1>6, <2>1, <3>1 DEF Tidy, Settled
  <2>3. CASE l = N
    <3>1. t[l].base = Fin(n) /\ n.base < Fin(n)
      <4>1. t[l] = e /\ e.base = Fin(n)
        BY <1>4, <1>7, <2>3
      <4>2. PICK b \in Int, x \in Int : b = n.base /\ x = n.size /\ x > 0 /\ Fin(n) = b + x
        BY <1>1, <1>9
      <4>3. b < b + x
        BY ONLY b \in Int, x \in Int, <4>2
      <4> QED BY <4>1, <4>2, <4>3
    <3>2. CASE j = i
      BY <1>1, <1>5, <1>6, <2>1, <3>1, <3>2
    <3>3. CASE j # i
      <4>1. j < i /\ j < i + 1 /\ s[j] = m[j]
        BY <1>1, <1>5, <2>1, <3>3
      <4>2. Fin(m[j]) <= n.base
        <5>1. \A k \in 1 .. Len(m) : j < k => Fin(m[j]) <= m[k].base
          BY <2>1, <4>1, WalkFacts
        <5> QED BY <1>1, <4>1, <5>1 DEF n
      <4>3. Fin(m[j]) \in Int
        BY <1>11, <2>1 DEF Numbers
      <4>4. Fin(m[j]) <= Fin(n)
        BY <1>1, <3>1, <4>2, <4>3
      <4> QED BY <2>1, <3>1, <4>1, <4>4
    <3> QED BY <3>2, <3>3
  <2> QED BY <2>2, <2>3
<1>15. i + 1 \in 1 .. Len(t)
  BY <1>1, <1>7
<1>16. Tidy(SortedFrom(t, i + 1), i + 1)
  BY <1>7, <1>10, <1>13, <1>14, <1>15, SortTidies
<1> QED BY <1>16 DEF t, s, e

(* The next entry takes over what follows it.                              *)
LEMMA NoRoomTidies ==
    ASSUME NEW A \in SUBSET Int, m \in Seq(Regions(A)), i \in Nat \ {0}, i < Len(m), Tidy(m, i),
           c.base < n.base, n.base < Fin(c), Fin(n) < Fin(c)
    PROVE  Tidy([CutBefore(m) EXCEPT ![i + 1].size = Fin(c) - n.base], i + 1)
<1> DEFINE r == CutBefore(m)
           z == Fin(c) - n.base
           e == [n EXCEPT !.size = z]
           s == [r EXCEPT ![i + 1].size = z]
<1>1. /\ i \in 1 .. Len(m) /\ i + 1 \in 1 .. Len(m) /\ i \in Int /\ i # i + 1
      /\ c.base \in Int /\ n.base \in Int /\ Fin(n) \in Int /\ Fin(c) \in Int
      /\ Fin(c) \in A /\ n.type \in Int
  BY InLoopFacts
<1>2. z \in Int /\ n.base + z = Fin(c) /\ z > 0
  BY <1>1
<1>3. e.base = n.base /\ e.size = z /\ e.type = n.type /\ Fin(e) = Fin(c)
  <2>1. n \in [base : A, size : Int, type : Int]
    BY InLoopFacts, RegionParts
  <2>2. e.base = n.base /\ e.size = z /\ e.type = n.type
    BY <2>1
  <2> QED BY <1>2, <2>2 DEF Fin
<1>4. /\ r \in Seq(Regions(A)) /\ Len(r) = Len(m) /\ r[i + 1] = n /\ r[i] = Cut
      /\ \A j \in 1 .. Len(m) : j # i => r[j] = m[j]
  BY CutType, CutEntries
<1>5. Cut.base = c.base /\ Fin(Cut) = n.base /\ Cut.size > 0 /\ Cut.type > 0
  <2>1. n.base <= Fin(c)
    BY <1>1
  <2> QED BY <2>1, CutTidies
<1> HIDE DEF r, z
<1>6. /\ s \in Seq(Regions(A)) /\ Len(s) = Len(r)
      /\ \A j \in 1 .. Len(r) : j # i + 1 => s[j] = r[j]
  <2>1. i + 1 \in 1 .. Len(r) /\ r[i + 1].base + z \in A
    BY <1>1, <1>2, <1>4
  <2> QED BY <1>2, <1>4, <2>1, Resized
<1>7. s[i + 1] = e
  <2>1. i + 1 \in 1 .. Len(r)
    BY <1>1, <1>4
  <2>2. [r EXCEPT ![i + 1].size = z][i + 1] = [r[i + 1] EXCEPT !.size = z]
    BY <1>2, <1>4, <2>1, ResizedEntry
  <2> QED BY <1>4, <2>2
<1> HIDE DEF s, e
<1>8. /\ s[i] = Cut
      /\ \A j \in 1 .. Len(m) : j \notin {i, i + 1} => s[j] = m[j]
  BY <1>1, <1>4, <1>6
<1>9. Inside(Cut, c) /\ Inside(e, c) /\ Apart(Cut, e)
  BY <1>1, <1>3, <1>5 DEF Inside, Apart
<1>10. s[i].size > 0 /\ s[i].type > 0 /\ s[i + 1].size > 0 /\ s[i + 1].type > 0
  BY <1>2, <1>3, <1>5, <1>7, <1>8, WalkFacts
<1>11. \A l \in 1 .. Len(s) : i < l => Fin(s[i]) <= s[l].base
  <2> SUFFICES ASSUME NEW l \in 1 .. Len(m), i < l PROVE n.base <= s[l].base
    BY <1>4, <1>5, <1>6, <1>8
  <2>1. CASE l = i + 1
    BY <1>1, <1>3, <1>7, <2>1
  <2>2. CASE l # i + 1
    <3>1. l # i
      BY <1>1
    <3>2. s[l] = m[l]
      BY <1>8, <2>2, <3>1
    <3> QED BY <3>2, WalkFacts
  <2> QED BY <2>1, <2>2
<1>12. Solid(s) /\ Layered(s) /\ Settled(s, i + 1)
  <2>1. n.base <= s[i + 1].base
    BY <1>1, <1>3, <1>7
  <2> QED BY <1>4, <1>6, <1>7, <1>8, <1>9, <1>10, <1>11, <2>1, PairTidies
<1>13. Ordered(s, i + 1)
  <2> SUFFICES ASSUME NEW j \in 1 .. Len(m), NEW l \in 1 .. Len(m), i + 1 <= j, j < l
               PROVE  AtMost(s[j], s[l])
    BY <1>4, <1>6 DEF Ordered
  <2>1. /\ j \in Int /\ l \in Int /\ i <= j /\ j # i /\ l # i /\ l # i + 1
        /\ i + 1 < l /\ i < l
    BY <1>1
  <2>2. s[l] = m[l]
    BY <1>8, <2>1
  <2>3. CASE j # i + 1
    <3>1. s[j] = m[j]
      BY <1>8, <2>1, <2>3
    <3> QED BY <2>1, <2>2, <3>1, WalkFacts
  <2>4. CASE j = i + 1
    <3>1. m[l].base \in Int /\ n.base <= m[l].base /\ n.size > 0
      BY <2>1, EntryFacts, WalkFacts
    <3>2. Fin(c) <= m[l].base \/ Fin(n) <= m[l].base
      BY <2>1, NoneBetween
    <3>3. n.base < Fin(n)
      BY InLoopFacts, <3>1
    <3>4. n.base < m[l].base
      BY <1>1, <3>1, <3>2, <3>3
    <3> QED BY <1>3, <1>7, <2>2, <2>4, <3>4 DEF AtMost
  <2> QED BY <2>3, <2>4
<1>14. Tidy(s, i + 1)
  BY <1>12, <1>13 DEF Tidy
<1> QED BY <1>14 DEF s, r, z

(* A turn of the overlap loop keeps the map so.                            *)
LEMMA OverlapTidies ==
    ASSUME NEW A \in SUBSET Int, m \in Seq(Regions(A)), i \in Nat \ {0}, Tidy(m, i), OverlapStep
    PROVE  Tidy(m', i')
<1>1. i < Len(m)
  BY DEF OverlapStep, SkipEntry, DropDuplicate, DropShorter, TrimLonger, DropTail,
         TrimToTail, Split, SplitNoRoom, DropInside, TrimNext, TrimCurrent, Clash, InLoop
<1>2. /\ i \in 1 .. Len(m) /\ i + 1 \in 1 .. Len(m) /\ i \in Nat /\ i <= i /\ i <= i + 1
      /\ c.base \in Int /\ n.base \in Int /\ Fin(n) \in Int /\ Fin(c) \in Int
      /\ c.type \in Int /\ n.type \in Int /\ n.size \in Int /\ c.size \in Int
      /\ Fin(c) = c.base + c.size /\ Fin(n) = n.base + n.size
  BY <1>1, InLoopFacts
<1>3. /\ c.type > 0 /\ c.size > 0
      /\ c.base < n.base \/ (c.base = n.base /\ c.size <= n.size)
  BY <1>1, WalkFacts
<1>4. c.base <= n.base /\ (c.base # n.base => c.base < n.base)
  BY <1>2, <1>3
<1>5. Clash => n.base < Fin(c) /\ n.base <= Fin(c)
  BY <1>2 DEF Clash
<1>6. CASE SkipEntry
  <2>1. Fin(c) <= n.base
    BY <1>2, <1>3, <1>6 DEF SkipEntry
  <2>2. m' = m /\ i' = i + 1
    BY <1>6 DEF SkipEntry, Advance
  <2> QED BY <1>1, <2>1, <2>2, SkipTidies
<1>7. ASSUME NEW k \in {i, i + 1}, m' = Discard(m, k), i' = i PROVE Tidy(m', i')
  <2>1. k \in 1 .. Len(m) /\ i <= k
    BY <1>2
  <2>2. Tidy(Discard(m, k), i)
    BY <1>2, <2>1, DiscardTidies
  <2> QED BY <1>7, <2>2
<1>8. CASE DropDuplicate
  BY <1>7, <1>8 DEF DropDuplicate, Again
<1>9. CASE DropShorter \/ DropTail \/ DropInside
  BY <1>7, <1>9 DEF DropShorter, DropTail, DropInside, Again
<1>10. CASE TrimLonger
  <2>1. c.base = n.base /\ Fin(c) # Fin(n) /\ n.base <= Fin(c)
    BY <1>5, <1>10 DEF TrimLonger, SameBase
  <2>2. /\ n.size - c.size \in Int /\ Fin(c) + (n.size - c.size) = Fin(n)
        /\ Fin(c) < Fin(n)
    <3>1. PICK b \in Int, x \in Int, y \in Int : b = c.base /\ x = c.size /\ y = n.size
      BY <1>2
    <3>2. x <= y /\ b + x # b + y
      BY <1>2, <1>3, <2>1, <3>1
    <3>3. y - x \in Int /\ (b + x) + (y - x) = b + y /\ b + x < b + y
      BY ONLY b \in Int, x \in Int, y \in Int, <3>2
    <3> QED BY <1>2, <2>1, <3>1, <3>3
  <2>3. Tidy(SortedFrom([m EXCEPT ![i + 1] = Entry(Fin(c), n.size - c.size, n.type)], i), i)
    BY <1>1, <2>1, <2>2, TrimTidies
  <2>4. /\ m' = SortedFrom([m EXCEPT ![i + 1] = Entry(Fin(c), n.size - c.size, n.type)], i)
        /\ i' = i
    BY <1>10 DEF TrimLonger, Again
  <2> QED BY <2>3, <2>4
<1>11. CASE TrimNext
  <2>1. Fin(c) < Fin(n) /\ n.base <= Fin(c)
    BY <1>2, <1>5, <1>11 DEF TrimNext, NextBeyond
  <2>2. Fin(n) - Fin(c) \in Int /\ Fin(c) + (Fin(n) - Fin(c)) = Fin(n)
    BY <1>2
  <2>3. Tidy(SortedFrom([m EXCEPT ![i + 1] = Entry(Fin(c), Fin(n) - Fin(c), n.type)], i + 1), i + 1)
    BY <1>1, <2>1, <2>2, TrimTidies
  <2>4. /\ m' = SortedFrom([m EXCEPT ![i + 1] = Entry(Fin(c), Fin(n) - Fin(c), n.type)], i + 1)
        /\ i' = i + 1
    BY <1>11 DEF TrimNext, Advance
  <2> QED BY <2>3, <2>4
<1>12. CASE TrimToTail \/ TrimCurrent
  <2>1. c.base < n.base /\ n.base <= Fin(c)
    BY <1>4, <1>5, <1>12 DEF TrimToTail, TrimCurrent, SameEnd, NextBeyond
  <2>2. m' = CutBefore(m) /\ i' = i + 1
    BY <1>12 DEF TrimToTail, TrimCurrent, Advance
  <2> QED BY <1>1, <2>1, <2>2, CutTidies
<1>13. ASSUME Clash, NextInside
       PROVE  c.base < n.base /\ n.base < Fin(c) /\ Fin(n) < Fin(c)
  BY <1>4, <1>5, <1>13 DEF NextInside
<1>14. CASE Split
  <2>1. c.base < n.base /\ n.base < Fin(c) /\ Fin(n) < Fin(c)
    BY <1>13, <1>14 DEF Split
  <2>2. /\ m' = SortedFrom(Append(CutBefore(m), Entry(Fin(n), Fin(c) - Fin(n), c.type)), i + 1)
        /\ i' = i + 1
    BY <1>14 DEF Split, Advance
  <2> QED BY <1>1, <2>1, <2>2, SplitTidies
<1>15. CASE SplitNoRoom
  <2>1. c.base < n.base /\ n.base < Fin(c) /\ Fin(n) < Fin(c)
    BY <1>13, <1>15 DEF SplitNoRoom
  <2>2. /\ m' = [CutBefore(m) EXCEPT ![i + 1].size = Fin(c) - n.base]
        /\ i' = i + 1
    BY <1>15 DEF SplitNoRoom, Advance
  <2> QED BY <1>1, <2>1, <2>2, NoRoomTidies
<1> QED BY <1>6, <1>8, <1>9, <1>10, <1>11, <1>12, <1>14, <1>15 DEF OverlapStep

(* Each entry ends where the ones behind it begin, or earlier.             *)
Separate(s) == \A j, l \in 1 .. Len(s) : j < l => Fin(s[j]) <= s[l].base

LEMMA MergeKeeps ==
    ASSUME NEW A \in SUBSET Int, m \in Seq(Regions(A)), i \in Nat \ {0},
           Solid(m), Separate(m), Merge
    PROVE  Solid(m') /\ Separate(m')
<1> DEFINE z == c.size + n.size
           s == [m EXCEPT ![i].size = z]
           e == [c EXCEPT !.size = z]
           t == Discard(s, i + 1)
<1>1. i < Len(m) /\ Fin(c) = n.base /\ m' = t
  BY DEF Merge, Mergeable, InLoop
<1>2. /\ i \in 1 .. Len(m) /\ i + 1 \in 1 .. Len(m) /\ i \in Int /\ Len(m) \in Nat
      /\ c.base \in Int /\ n.base \in Int /\ Fin(n) \in Int /\ Fin(c) \in Int /\ Fin(n) \in A
      /\ c.size \in Int /\ n.size \in Int
      /\ Fin(c) = c.base + c.size /\ Fin(n) = n.base + n.size
  BY <1>1, InLoopFacts
<1>3. c.size > 0 /\ n.size > 0 /\ c.type > 0
  BY <1>2 DEF Solid, c, n
<1>4. z \in Int /\ c.base + z = Fin(n) /\ z > 0
  <2>1. PICK b \in Int, x \in Int, y \in Int : b = c.base /\ x = c.size /\ y = n.size
    BY <1>2
  <2>2. x > 0 /\ y > 0
    BY <1>3, <2>1
  <2>3. x + y \in Int /\ b + (x + y) = (b + x) + y /\ x + y > 0
    BY ONLY b \in Int, x \in Int, y \in Int, <2>2
  <2>4. Fin(n) = (b + x) + y
    BY <1>1, <1>2, <2>1
  <2> QED BY <2>1, <2>3, <2>4
<1>5. e.base = c.base /\ e.size = z /\ e.type = c.type /\ Fin(e) = Fin(n)
  <2>1. c \in [base : A, size : Int, type : Int]
    BY <1>1, InLoopFacts, RegionParts
  <2>2. e.base = c.base /\ e.size = z /\ e.type = c.type
    BY <2>1
  <2> QED BY <1>4, <2>2 DEF Fin
<1> HIDE DEF z
<1>6. /\ s \in Seq(Regions(A)) /\ Len(s) = Len(m) /\ s[i] = e
      /\ \A j \in 1 .. Len(m) : j # i => s[j] = m[j]
  <2>1. m[i].base + z \in A
    BY <1>2, <1>4 DEF c
  <2>2. [m EXCEPT ![i].size = z][i] = [m[i] EXCEPT !.size = z]
    <3>1. i \in 1 .. Len(m) /\ z \in Int
      BY <1>2, <1>4
    <3> QED BY ONLY A \in SUBSET Int, m \in Seq(Regions(A)), <3>1, ResizedEntry
  <2>3. s[i] = e
    BY <2>2 DEF c
  <2> HIDE DEF e
  <2>4. /\ s \in Seq(Regions(A)) /\ Len(s) = Len(m)
        /\ \A j \in 1 .. Len(m) : j # i => s[j] = m[j]
    <3>1. i \in 1 .. Len(m) /\ z \in Int
      BY <1>2, <1>4
    <3> QED BY ONLY A \in SUBSET Int, m \in Seq(Regions(A)), <2>1, <3>1, Resized
  <2> QED BY <2>3, <2>4
<1> HIDE DEF s, e
<1>7. /\ t \in Seq(Regions(A)) /\ Len(t) = Len(m) - 1
      /\ \A j \in 1 .. Len(m) - 1 : t[j] = IF j < i + 1 THEN s[j] ELSE s[j + 1]
  <2>1. i + 1 \in 1 .. Len(s)
    BY <1>2, <1>6
  <2> HIDE DEF Regions
  <2> QED BY <1>6, <2>1, DiscardElements
<1>8. Numbers(m)
  BY NumbersOf
<1> HIDE DEF t
(* Where an entry comes from, and where it ends.                           *)
<1> DEFINE from(j) == IF j <= i THEN j ELSE j + 1
           to(j)   == IF j < i THEN j ELSE j + 1
<1>9. ASSUME NEW j \in 1 .. Len(t)
      PROVE  /\ j \in Int /\ from(j) \in 1 .. Len(m) /\ to(j) \in 1 .. Len(m)
             /\ t[j].base = m[from(j)].base /\ Fin(t[j]) = Fin(m[to(j)])
             /\ t[j].size > 0 /\ t[j].type > 0
  <2>1. j \in Int /\ j >= 1 /\ j <= Len(m) - 1 /\ j \in 1 .. Len(m) /\ j + 1 \in 1 .. Len(m)
    <3>1. Len(t) = Len(m) - 1 /\ Len(m) \in Nat
      BY <1>2, <1>7
    <3> QED BY ONLY <3>1, j \in 1 .. Len(t)
  <2>2. t[j] = IF j < i + 1 THEN s[j] ELSE s[j + 1]
    BY <1>7
  <2>3. CASE j = i
    <3>1. t[j] = e
      BY <1>2, <1>6, <2>2, <2>3
    <3>2. from(j) = i /\ to(j) = i + 1
      BY <1>2, <2>3
    <3> HIDE DEF from, to
    <3> QED BY <1>2, <1>3, <1>4, <1>5, <2>1, <3>1, <3>2 DEF c, n
  <2>4. CASE j < i
    <3>1. j < i + 1 /\ j # i /\ from(j) = j /\ to(j) = j
      BY <1>2, <2>1, <2>4
    <3>2. t[j] = m[j]
      BY <1>6, <2>1, <2>2, <3>1
    <3> HIDE DEF from, to
    <3> QED BY <2>1, <3>1, <3>2 DEF Solid
  <2>5. CASE i < j
    <3>1. ~ (j < i + 1) /\ j + 1 # i /\ from(j) = j + 1 /\ to(j) = j + 1
      BY <1>2, <2>1, <2>5
    <3>2. t[j] = m[j + 1]
      BY <1>6, <2>1, <2>2, <3>1
    <3> HIDE DEF from, to
    <3> QED BY <2>1, <3>1, <3>2 DEF Solid
  <2> QED BY <1>2, <2>1, <2>3, <2>4, <2>5
<1>10. ASSUME NEW j \in 1 .. Len(t), NEW l \in 1 .. Len(t), j < l
       PROVE  Fin(t[j]) <= t[l].base
  <2>1. j \in Int /\ l \in Int
    BY <1>9
  <2>2. to(j) < from(l)
    BY <1>2, <1>10, <2>1
  <2> HIDE DEF from, to
  <2>3. Fin(m[to(j)]) <= m[from(l)].base
    BY <1>9, <2>2 DEF Separate
  <2> QED BY <1>9, <2>3
<1> HIDE DEF from, to
<1>11. Solid(t)
  BY <1>9 DEF Solid
<1>12. Separate(t)
  BY <1>10 DEF Separate
<1> QED BY <1>1, <1>11, <1>12

(* The BIOS's entries do not overlap each other.                           *)
Lone == Disjoint(SubSeq(input, 1, Len(input) - 2))

LayersInv ==
    /\ Len(input) > 0 /\ Solid(input)
    /\ pc = "sort" => i = 1
    /\ Lone => /\ Layered(input)
               /\ pc = "overlap" => Tidy(m, i)
               /\ pc \in {"coalesce", "done"} => Solid(m) /\ Separate(m)

LEMMA StepLayers ==
    ASSUME NEW A \in SUBSET Int, m \in Seq(Regions(A)), i \in Nat \ {0},
           input \in Seq(Regions(A)), LayersInv, Next
    PROVE  LayersInv'
<1>1. input' = input
  BY DEF Next, Sort, OverlapStep, OverlapDone, Merge, KeepApart, CoalesceDone
<1>2. Lone' = Lone /\ Solid(input)' = Solid(input) /\ Layered(input)' = Layered(input)
  BY <1>1 DEF Lone, Solid, Layered, Disjoint, Apart, Fin
<1>3. pc' # "sort"
  BY DEF Next, Sort, OverlapStep, OverlapDone, Merge, KeepApart, CoalesceDone, InLoop,
         SkipEntry, DropDuplicate, DropShorter, TrimLonger, DropTail, TrimToTail, Split,
         SplitNoRoom, DropInside, TrimNext, TrimCurrent, Clash
<1>4. /\ Tidy(m, i)' = Tidy(m', i') /\ Solid(m)' = Solid(m') /\ Separate(m)' = Separate(m')
  BY DEF Tidy, Solid, Layered, Ordered, Settled, Separate, Apart, AtMost, Fin
<1>5. SUFFICES ASSUME Lone
               PROVE  /\ pc' = "overlap" => Tidy(m', i')
                      /\ pc' \in {"coalesce", "done"} => Solid(m') /\ Separate(m')
  BY <1>1, <1>2, <1>3, <1>4 DEF LayersInv
<1>6. CASE Sort
  <2>1. pc' = "overlap" /\ m' = Sorted(input) /\ i' = 1
    BY <1>6 DEF Sort, LayersInv
  <2>2. SortedFrom(input, 1) = Sorted(input)
    <3>1. SubSeq(input, 1, Len(input)) = input /\ SubSeq(input, 1, 1 - 1) = << >>
      BY SubSeqFull, SubSeqEmpty
    <3>2. << >> \o Sorted(input) = Sorted(input)
      BY SortedType, ConcatEmptySeq
    <3> QED BY <3>1, <3>2 DEF SortedFrom
  <2>3. 1 \in 1 .. Len(input)
    BY LengthFacts DEF LayersInv
  <2>4. Settled(input, 1)
    <3>1. \A j \in 1 .. Len(input) : ~ (j < 1)
      OBVIOUS
    <3> QED BY <3>1 DEF Settled
  <2>5. Tidy(SortedFrom(input, 1), 1)
    BY <1>5, <2>3, <2>4, SortTidies DEF LayersInv
  <2> QED BY <2>1, <2>2, <2>5
<1>7. CASE OverlapStep
  <2>1. pc = "overlap" /\ pc' = pc
    BY <1>7 DEF OverlapStep, SkipEntry, DropDuplicate, DropShorter, TrimLonger, DropTail,
         TrimToTail, Split, SplitNoRoom, DropInside, TrimNext, TrimCurrent, Clash, InLoop
  <2>2. Tidy(m, i)
    BY <1>5, <2>1 DEF LayersInv
  <2> QED BY <1>7, <2>1, <2>2, OverlapTidies
<1>8. CASE OverlapDone
  <2>1. pc = "overlap" /\ i >= Len(m) /\ pc' = "coalesce" /\ m' = m
    BY <1>8 DEF OverlapDone
  <2>2. Tidy(m, i)
    BY <1>5, <2>1 DEF LayersInv
  <2>3. Separate(m)
    <3> SUFFICES ASSUME NEW j \in 1 .. Len(m), NEW l \in 1 .. Len(m), j < l
                 PROVE  Fin(m[j]) <= m[l].base
      BY DEF Separate
    <3>1. j < i
      BY <2>1, LengthFacts
    <3> QED BY <2>2, <3>1 DEF Tidy, Settled
  <2> QED BY <2>1, <2>2, <2>3 DEF Tidy
<1>9. CASE Merge
  <2>1. pc = "coalesce" /\ pc' = pc
    BY <1>9 DEF Merge, InLoop
  <2>2. Solid(m) /\ Separate(m)
    BY <1>5, <2>1 DEF LayersInv
  <2> QED BY <1>9, <2>1, <2>2, MergeKeeps
<1>10. CASE KeepApart \/ CoalesceDone
  <2>1. pc = "coalesce" /\ pc' \in {"coalesce", "done"} /\ m' = m
    BY <1>10 DEF KeepApart, CoalesceDone, InLoop
  <2>2. Solid(m) /\ Separate(m)
    BY <1>5, <2>1 DEF LayersInv
  <2> QED BY <2>1, <2>2
<1> QED BY <1>6, <1>7, <1>8, <1>9, <1>10 DEF Next

(* Then the entries come in the order that e820_overlap counts on.         *)
LEMMA LayersInOrder ==
    ASSUME NEW A \in SUBSET Int, m \in Seq(Regions(A)), i \in Nat \ {0}, LayersInv, Lone
    PROVE  InOrder
<1> SUFFICES ASSUME pc = "overlap", i < Len(m)
             PROVE  c.base < n.base \/ (c.base = n.base /\ c.size <= n.size)
  BY DEF InOrder
<1>1. Tidy(m, i)
  BY DEF LayersInv
<1> QED BY <1>1, WalkFacts

-------------------------------------------------------------------------------
(* The memory map while it is cleaned up.                                       *)

(* The sizes that callers of palloc_get ask for.                                *)
Asked == 0 .. MAX_ORDER - 1

(* Addresses so far below the top that nothing added to them wraps around.      *)
Low == {a \in Nat : \A order \in Asked : a + PAGE + PAGE * 2^order < TOP}

MapInv ==
    /\ m \in Seq(Regions(Low)) /\ Len(m) <= E820_ENTRIES
    /\ i \in Nat \ {0}
    /\ input \in Seq(Regions(Low)) /\ Len(input) <= E820_ENTRIES

LEMMA LowInt == Low \in SUBSET Int /\ Low \subseteq Nat
BY DEF Low

LEMMA InitMap == Init => MapInv
<1> SUFFICES ASSUME Init PROVE MapInv
  OBVIOUS
<1>1. PICK fw \in FirmwareMaps, ks \in KernelSizes :
        /\ Len(fw) < E820_ENTRIES - 3
        /\ input = fw \o <<Entry(KernelBase, ks, ReservedType),
                           Entry(0, FirstPage, ReservedType)>>
  BY DEF Init
<1> DEFINE added == <<Entry(KernelBase, ks, ReservedType), Entry(0, FirstPage, ReservedType)>>
<1>2. fw \in Seq([base : Nat, size : Nat \ {0}, type : Nat])
  BY MapAssumption
<1>3. fw \in Seq(Regions(Low))
  <2>1. Len(fw) \in Nat /\ DOMAIN fw = 1 .. Len(fw)
    BY <1>2, LenProperties
  <2>2. ASSUME NEW k \in 1 .. Len(fw) PROVE fw[k] \in Regions(Low)
    <3>1. fw[k] \in [base : Nat, size : Nat \ {0}, type : Nat]
      BY <1>2, ElementOfSeq
    <3>2. Fin(fw[k]) = fw[k].base + fw[k].size /\ fw[k].base \in Nat /\ fw[k].size \in Nat
      BY <3>1 DEF Fin
    <3>3. \A order \in Asked : Fin(fw[k]) + PAGE + PAGE * 2^order < TOP
      BY <2>1, BootAssumption DEF Asked
    <3>4. Fin(fw[k]) \in Low
      BY <3>2, <3>3 DEF Low
    <3>5. fw[k].base \in Low
      <4> SUFFICES ASSUME NEW order \in Asked PROVE fw[k].base + PAGE + PAGE * 2^order < TOP
        BY <3>2 DEF Low
      <4>1. PICK p \in Int : p = PAGE * 2^order
        BY BootAssumption DEF Asked
      <4>2. PICK b \in Nat, z \in Nat : b = fw[k].base /\ z = fw[k].size
        BY <3>2
      <4>3. (b + z) + PAGE + p < TOP
        BY <3>2, <3>3, <4>1, <4>2
      <4>4. PAGE \in Int /\ TOP \in Int
        BY BootAssumption
      <4>5. b + PAGE + p < TOP
        BY ONLY b \in Nat, z \in Nat, p \in Int, <4>3, <4>4
      <4> QED BY <4>1, <4>2, <4>5
    <3> QED BY <3>1, <3>4, <3>5 DEF Regions
  <2>3. fw \in [1 .. Len(fw) -> Regions(Low)]
    BY <1>2, <2>1, <2>2, LenProperties
  <2> QED BY <2>1, <2>3, SeqDef
<1>4. added \in Seq(Regions(Low)) /\ Len(added) = 2
  <2>1. ASSUME NEW b \in Nat, NEW s \in Nat, \A order \in Asked : b + s + PAGE + PAGE * 2^order < TOP
        PROVE  Entry(b, s, ReservedType) \in Regions(Low)
    <3>1. b + s \in Low
      BY <2>1 DEF Low
    <3>2. b \in Low
      <4> SUFFICES ASSUME NEW order \in Asked PROVE b + PAGE + PAGE * 2^order < TOP
        BY DEF Low
      <4>1. PAGE * 2^order \in Int /\ PAGE \in Int /\ TOP \in Int
        BY BootAssumption DEF Asked
      <4> QED BY <2>1, <4>1
    <3>3. s \in Int /\ ReservedType \in Int /\ Low \in SUBSET Int
      BY LowInt DEF ReservedType
    <3> HIDE DEF Low, ReservedType
    <3> QED BY <3>1, <3>2, <3>3, RegionMade
  <2>2. Entry(KernelBase, ks, ReservedType) \in Regions(Low)
    <3>1. KernelBase \in Nat /\ ks \in Nat
      BY MapAssumption
    <3>2. \A order \in Asked : KernelBase + ks + PAGE + PAGE * 2^order < TOP
      BY BootAssumption DEF Asked
    <3> QED BY <2>1, <3>1, <3>2
  <2>3. Entry(0, FirstPage, ReservedType) \in Regions(Low)
    <3>1. FirstPage \in Nat /\ 0 + FirstPage = FirstPage
      BY MapAssumption
    <3>2. \A order \in Asked : FirstPage + PAGE + PAGE * 2^order < TOP
      BY BootAssumption DEF Asked
    <3> QED BY <2>1, <3>1, <3>2
  <2> QED BY <2>2, <2>3
<1> HIDE DEF added
<1>5. input \in Seq(Regions(Low)) /\ Len(input) = Len(fw) + 2
  BY <1>1, <1>3, <1>4, ConcatProperties DEF added
<1>6. Len(fw) \in Nat
  BY <1>3, LenProperties
<1>7. m \in Seq(Regions(Low)) /\ Len(m) = 0 /\ i = 1
  BY EmptySeq DEF Init
<1> QED BY <1>1, <1>5, <1>6, <1>7, MapAssumption DEF MapInv

LEMMA StepMap == MapInv /\ [BootNext]_bvars => MapInv'
<1> SUFFICES ASSUME MapInv, [BootNext]_bvars PROVE MapInv'
  OBVIOUS
<1>1. CASE CleanMap
  <2>1. Kept(Low) /\ i' \in Nat \ {0} /\ input' = input
    BY <1>1, LowInt, StepType, MapAssumption DEF MapInv, CleanMap
  <2>2. Low' = Low
    OBVIOUS
  <2> QED BY <2>1, <2>2 DEF MapInv, Kept
<1>2. ASSUME UNCHANGED vars PROVE MapInv'
  BY <1>2 DEF vars, MapInv
<1>3. CASE ZoneInit
  BY <1>2, <1>3 DEF ZoneInit
<1>4. CASE InitPages
  BY <1>2, <1>4 DEF InitPages
<1>5. CASE ReserveBss \/ BssTooLarge
  BY <1>2, <1>5 DEF ReserveBss, BssTooLarge
<1>6. CASE NextTable \/ NextStackPage \/ Stop
  BY <1>2, <1>6 DEF NextTable, NextStackPage, Stop
<1>7. CASE UNCHANGED bvars
  BY <1>2, <1>7 DEF bvars
<1> QED BY <1>1, <1>3, <1>4, <1>5, <1>6, <1>7 DEF BootNext

(* However many entries the map has and in whatever way they overlap, splitting *)
(* them never writes behind the array of e820_init (e820.c:165).                *)
THEOREM MapInArray == BootSpec => []WithinArray
<1>1. BootInit => MapInv
  BY InitMap DEF BootInit
<1>2. MapInv => WithinArray
  BY DEF MapInv, WithinArray
<1> QED BY <1>1, <1>2, StepMap, PTL DEF BootSpec

(* The entries of the map are turned and cut in order, and cover what they did. *)
LEMMA InitCover == Init => CoverInv
<1> SUFFICES ASSUME Init PROVE CoverInv
  OBVIOUS
<1>1. PICK fw \in FirmwareMaps, ks \in KernelSizes :
        input = fw \o <<Entry(KernelBase, ks, ReservedType),
                        Entry(0, FirstPage, ReservedType)>>
  BY DEF Init
<1> DEFINE sized == [base : Nat, size : Nat, type : Nat]
           added == <<Entry(KernelBase, ks, ReservedType), Entry(0, FirstPage, ReservedType)>>
<1>2. fw \in Seq(sized)
  <2>1. fw \in Seq([base : Nat, size : Nat \ {0}, type : Nat])
    BY MapAssumption
  <2>2. Len(fw) \in Nat /\ DOMAIN fw = 1 .. Len(fw)
    BY <2>1, LenProperties
  <2>3. \A k \in 1 .. Len(fw) : fw[k] \in sized
    <3>1. \A k \in 1 .. Len(fw) : fw[k] \in [base : Nat, size : Nat \ {0}, type : Nat]
      BY <2>1, ElementOfSeq
    <3> QED BY <3>1
  <2>4. fw \in [1 .. Len(fw) -> sized]
    <3> HIDE DEF sized
    <3> QED BY <2>1, <2>2, <2>3, LenProperties
  <2> HIDE DEF sized
  <2> QED BY <2>2, <2>4, SeqDef
<1>3. added \in Seq(sized)
  <2>1. Entry(KernelBase, ks, ReservedType) \in sized /\ Entry(0, FirstPage, ReservedType) \in sized
    BY MapAssumption DEF Entry, ReservedType
  <2> QED BY <2>1
<1> HIDE DEF added
<1>4. input \in Seq(sized)
  <2> HIDE DEF sized
  <2> QED BY <1>1, <1>2, <1>3, ConcatProperties DEF added
<1>5. Forward(Entries(input))
  <2>1. DOMAIN input = 1 .. Len(input) /\ \A k \in 1 .. Len(input) : input[k] \in sized
    BY <1>4, LenProperties, ElementOfSeq
  <2> QED BY <2>1 DEF Entries, Forward
<1>6. pc = "sort"
  BY DEF Init
<1> QED BY <1>5, <1>6 DEF CoverInv, Cleaning

LEMMA StepCover == MapInv /\ CoverInv /\ InOrder /\ [BootNext]_bvars => CoverInv'
<1> SUFFICES ASSUME MapInv, CoverInv, InOrder, [BootNext]_bvars PROVE CoverInv'
  OBVIOUS
<1>1. CASE CleanMap
  BY <1>1, LowInt, StepCovers, MapAssumption DEF MapInv, CleanMap
<1>2. ASSUME UNCHANGED vars PROVE CoverInv'
  BY <1>2 DEF vars, CoverInv, Cleaning, Entries
<1>3. CASE ZoneInit
  BY <1>2, <1>3 DEF ZoneInit
<1>4. CASE InitPages
  BY <1>2, <1>4 DEF InitPages
<1>5. CASE ReserveBss \/ BssTooLarge
  BY <1>2, <1>5 DEF ReserveBss, BssTooLarge
<1>6. CASE NextTable \/ NextStackPage \/ Stop
  BY <1>2, <1>6 DEF NextTable, NextStackPage, Stop
<1>7. CASE UNCHANGED bvars
  BY <1>2, <1>7 DEF bvars
<1> QED BY <1>1, <1>3, <1>4, <1>5, <1>6, <1>7 DEF BootNext

(* However entries overlap and however full the array is, as long as they come  *)
(* in order the map keeps its addresses, and none gets a lower type.            *)
THEOREM MapCovers == BootSpec => NeverDowngraded
<1>1. BootInit => MapInv /\ CoverInv
  BY InitMap, InitCover DEF BootInit
<1>2. MapInv /\ CoverInv => Covers
  BY LowInt, CoverInvCovers DEF MapInv
<1> QED BY <1>1, <1>2, StepMap, StepCover, PTL DEF BootSpec, NeverDowngraded

-------------------------------------------------------------------------------
(* The map without overlaps.                                                    *)

(* What e820_init adds stays where it put it.                                   *)
AddedInv ==
    /\ Len(input) >= 2
    /\ input[Len(input) - 1].base = KernelBase
    /\ input[Len(input) - 1].type = ReservedType
    /\ input[Len(input) - 1].size \in Nat \ {0}

LEMMA InputParts ==
    ASSUME Init
    PROVE  \E N \in Nat : \E ks \in KernelSizes :
              /\ Len(input) = N + 2
              /\ \A k \in 1 .. N : input[k].size > 0 /\ input[k].type > 0
              /\ input[N + 1] = Entry(KernelBase, ks, ReservedType)
              /\ input[N + 2] = Entry(0, FirstPage, ReservedType)
<1>1. PICK fw \in FirmwareMaps, ks \in KernelSizes :
        input = fw \o <<Entry(KernelBase, ks, ReservedType),
                        Entry(0, FirstPage, ReservedType)>>
  BY DEF Init
<1> DEFINE S == [base : Nat, size : Nat, type : Nat]
           x == Entry(KernelBase, ks, ReservedType)
           y == Entry(0, FirstPage, ReservedType)
           added == <<x, y>>
           N == Len(fw)
<1>2. /\ fw \in Seq([base : Nat, size : Nat \ {0}, type : Nat])
      /\ DOMAIN fw = 1 .. N /\ N \in Nat
  BY MapAssumption, LenProperties
<1>3. ASSUME NEW k \in 1 .. N PROVE fw[k] \in S /\ fw[k].size > 0 /\ fw[k].type > 0
  <2>1. fw[k] \in [base : Nat, size : Nat \ {0}, type : Nat]
    BY <1>2, ElementOfSeq
  <2>2. fw[k].type # 0
    BY <1>2, UsedAssumption
  <2> QED BY <2>1, <2>2
<1>4. x \in S /\ y \in S
  BY MapAssumption DEF Entry, ReservedType
<1> HIDE DEF S, x, y
<1>5. fw \in Seq(S)
  <2>1. fw \in [1 .. N -> S]
    BY <1>2, <1>3, LenProperties
  <2>2. N \in Nat
    BY <1>2
  <2> HIDE DEF N
  <2> QED BY <2>1, <2>2, SeqDef
<1>6. added \in Seq(S) /\ Len(added) = 2 /\ added[1] = x /\ added[2] = y
  BY <1>4
<1>7. input = fw \o added
  BY <1>1 DEF x, y
<1> HIDE DEF added, N
<1>8. /\ Len(input) = N + 2
      /\ \A k \in 1 .. N + 2 : input[k] = IF k <= N THEN fw[k] ELSE added[k - N]
  <2>1. /\ Len(fw \o added) = Len(fw) + Len(added)
        /\ \A k \in 1 .. Len(fw) + Len(added) :
              (fw \o added)[k] = IF k <= Len(fw) THEN fw[k] ELSE added[k - Len(fw)]
    BY <1>5, <1>6, ConcatProperties
  <2>2. Len(fw) = N /\ Len(added) = 2
    BY <1>6 DEF N
  <2> QED BY ONLY <1>7, <2>1, <2>2
<1>9. /\ N + 1 \in 1 .. N + 2 /\ N + 2 \in 1 .. N + 2 /\ ~ (N + 1 <= N) /\ ~ (N + 2 <= N)
      /\ (N + 1) - N = 1 /\ (N + 2) - N = 2
      /\ \A k \in 1 .. N : k \in 1 .. N + 2 /\ k <= N
  BY <1>2
<1>10. input[N + 1] = x /\ input[N + 2] = y /\ \A k \in 1 .. N : input[k] = fw[k]
  BY <1>6, <1>8, <1>9
<1> QED BY <1>2, <1>3, <1>8, <1>10 DEF x, y

LEMMA InitLayers == Init => LayersInv /\ AddedInv
<1> SUFFICES ASSUME Init PROVE LayersInv /\ AddedInv
  OBVIOUS
<1>1. PICK N \in Nat, ks \in KernelSizes :
        /\ Len(input) = N + 2
        /\ \A k \in 1 .. N : input[k].size > 0 /\ input[k].type > 0
        /\ input[N + 1] = Entry(KernelBase, ks, ReservedType)
        /\ input[N + 2] = Entry(0, FirstPage, ReservedType)
  BY InputParts
<1>2. /\ ks \in Nat /\ ks > 0 /\ KernelBase \in Nat /\ FirstPage \in Nat
      /\ FirstPage > 0 /\ FirstPage <= KernelBase
  BY MapAssumption, UsedAssumption
<1>3. /\ input[N + 1].base = KernelBase /\ input[N + 1].size = ks /\ input[N + 1].type = 5
      /\ input[N + 2].base = 0 /\ input[N + 2].size = FirstPage /\ input[N + 2].type = 5
      /\ Fin(input[N + 2]) = 0 + FirstPage
  BY <1>1 DEF Entry, ReservedType, Fin
<1>4. \A k \in 1 .. N + 2 : k \in 1 .. N \/ k = N + 1 \/ k = N + 2
  OBVIOUS
<1>5. Solid(input)
  <2> SUFFICES ASSUME NEW k \in 1 .. N + 2 PROVE input[k].size > 0 /\ input[k].type > 0
    BY <1>1 DEF Solid
  <2>1. CASE k \in 1 .. N
    BY <1>1, <2>1
  <2>2. CASE k = N + 1 \/ k = N + 2
    BY <1>2, <1>3, <2>2
  <2> QED BY <1>4, <2>1, <2>2
<1>6. ASSUME Lone PROVE Layered(input)
  <2> DEFINE F == 1 .. N
             s == SubSeq(input, 1, N)
  <2>1. F \in SUBSET (1 .. Len(input)) /\ N + 1 \notin F /\ N + 2 \notin F
    BY <1>1
  <2>2. Disjoint(s)
    <3>1. Len(input) - 2 = N
      BY <1>1
    <3> QED BY <1>6, <3>1 DEF Lone
  <2>3. DOMAIN s = 1 .. N /\ \A k \in 1 .. N : s[k] = input[k]
    <3> DEFINE S == {input[k] : k \in 1 .. N}
    <3>1. \A k \in 1 .. N : input[k] \in S
      OBVIOUS
    <3> HIDE DEF S
    <3>2. /\ s \in Seq(S) /\ Len(s) = IF 1 <= N THEN N - 1 + 1 ELSE 0
          /\ \A k \in 1 .. N - 1 + 1 : s[k] = input[1 + k - 1]
      <4>1. 1 \in Int /\ N \in Int
        OBVIOUS
      <4> QED BY <3>1, <4>1, SubSeqProperties
    <3> HIDE DEF s
    <3>3. Len(s) = N /\ N - 1 + 1 = N /\ \A k \in 1 .. N : 1 + k - 1 = k
      BY <3>2
    <3> QED BY <3>2, <3>3, LenProperties
  <2> HIDE DEF s
  <2>4. \A j, k \in F : j # k => Apart(input[j], input[k])
    <3> SUFFICES ASSUME NEW j \in 1 .. N, NEW k \in 1 .. N, j # k
                 PROVE  Apart(input[j], input[k])
      OBVIOUS
    <3>1. j < k \/ k < j
      OBVIOUS
    <3> QED BY <2>2, <2>3, <3>1 DEF Disjoint, Apart
  <2>5. Apart(input[N + 1], input[N + 2]) /\ Apart(input[N + 2], input[N + 1])
    <3>1. Fin(input[N + 2]) <= input[N + 1].base
      BY <1>2, <1>3
    <3> QED BY <3>1 DEF Apart
  <2> HIDE DEF F
  <2>6. ASSUME NEW j \in 1 .. Len(input), NEW k \in 1 .. Len(input), j # k, j \in F <=> k \in F
        PROVE  Apart(input[j], input[k])
    <3>1. (j \in F \/ j = N + 1 \/ j = N + 2) /\ (k \in F \/ k = N + 1 \/ k = N + 2)
      BY <1>1, <1>4 DEF F
    <3>2. \/ j \in F /\ k \in F
          \/ j = N + 1 /\ k = N + 2
          \/ j = N + 2 /\ k = N + 1
      BY <2>1, <2>6, <3>1
    <3> QED BY <2>4, <2>5, <2>6, <3>2
  <2> QED BY <2>1, <2>6 DEF Layered
<1>7. pc = "sort" /\ i = 1
  BY DEF Init
<1>8. LayersInv
  <2>1. Len(input) > 0
    BY <1>1
  <2> QED BY <1>5, <1>6, <1>7, <2>1 DEF LayersInv
<1>9. AddedInv
  <2>1. Len(input) >= 2 /\ Len(input) - 1 = N + 1
    BY <1>1
  <2> QED BY <1>2, <1>3, <2>1 DEF AddedInv, ReservedType
<1> QED BY <1>8, <1>9

LEMMA BootLayers == MapInv /\ LayersInv /\ AddedInv /\ [BootNext]_bvars => LayersInv' /\ AddedInv'
<1> SUFFICES ASSUME MapInv, LayersInv, AddedInv, [BootNext]_bvars
             PROVE  LayersInv' /\ AddedInv'
  OBVIOUS
<1>1. CASE CleanMap
  <2>1. Next /\ input' = input
    BY <1>1, LowInt, StepType, MapAssumption DEF MapInv, CleanMap
  <2>2. LayersInv'
    BY <2>1, LowInt, StepLayers DEF MapInv
  <2> QED BY <2>1, <2>2 DEF AddedInv
<1>2. ASSUME UNCHANGED vars PROVE LayersInv' /\ AddedInv'
  <2>1. m' = m /\ i' = i /\ pc' = pc /\ input' = input
    BY <1>2 DEF vars
  <2>2. /\ Lone' = Lone /\ Solid(input)' = Solid(input) /\ Layered(input)' = Layered(input)
        /\ Tidy(m, i)' = Tidy(m, i) /\ Solid(m)' = Solid(m) /\ Separate(m)' = Separate(m)
    BY <2>1 DEF Lone, Disjoint, Solid, Layered, Tidy, Ordered, Settled, Separate, Apart, AtMost, Fin
  <2> QED BY <2>1, <2>2 DEF LayersInv, AddedInv
<1>3. CASE ZoneInit
  BY <1>2, <1>3 DEF ZoneInit
<1>4. CASE InitPages
  BY <1>2, <1>4 DEF InitPages
<1>5. CASE ReserveBss \/ BssTooLarge
  BY <1>2, <1>5 DEF ReserveBss, BssTooLarge
<1>6. CASE NextTable \/ NextStackPage \/ Stop
  BY <1>2, <1>6 DEF NextTable, NextStackPage, Stop
<1>7. CASE UNCHANGED bvars
  BY <1>2, <1>7 DEF bvars
<1> QED BY <1>1, <1>3, <1>4, <1>5, <1>6, <1>7 DEF BootNext

(* If the entries of the BIOS do not overlap each other, then however the       *)
(* kernel and the first page lie over them, and also where splits were given up *)
(* for lack of room, the finished map has no overlap (e820.c:83).               *)
THEOREM MapDisjoint == BootSpec => []DisjointFirmware
<1>1. BootInit => MapInv /\ LayersInv /\ AddedInv
  BY InitMap, InitLayers DEF BootInit
<1>2. MapInv /\ LayersInv => DisjointFirmware
  <2> SUFFICES ASSUME MapInv, LayersInv, pc = "done", Lone PROVE Disjoint(m)
    BY DEF DisjointFirmware, Lone
  <2>1. Separate(m) /\ DOMAIN m = 1 .. Len(m)
    BY LenProperties DEF LayersInv, MapInv
  <2> QED BY <2>1 DEF Separate, Disjoint
<1> QED BY <1>1, <1>2, StepMap, BootLayers, PTL DEF BootSpec

-------------------------------------------------------------------------------
(* The zones.                                                                   *)

(* Once they are set the map is not written again.                              *)
ZonesInv == kzones # << >> => step # "e820" /\ kzones = Zones

LEMMA ZonesSet == Zones # << >>
BY DEF Zones

LEMMA StepZones == ZonesInv /\ [BootNext]_bvars => ZonesInv'
<1> SUFFICES ASSUME ZonesInv, [BootNext]_bvars PROVE ZonesInv'
  OBVIOUS
<1>1. ASSUME UNCHANGED m PROVE Zones' = Zones
  BY <1>1 DEF Zones, MaxAddr, UsableEnds, Zone, Fin
<1>2. CASE CleanMap
  <2>1. kzones = << >> /\ kzones' = kzones
    BY <1>2 DEF CleanMap, ZonesInv
  <2> QED BY <2>1 DEF ZonesInv
<1>3. CASE ZoneInit
  <2>1. kzones' = Zones /\ step' = "pages" /\ m' = m
    BY <1>3 DEF ZoneInit, vars
  <2> QED BY <1>1, <2>1 DEF ZonesInv
<1>4. ASSUME step # "e820", step' # "e820", UNCHANGED <<vars, kzones>> PROVE ZonesInv'
  <2>1. m' = m /\ kzones' = kzones
    BY <1>4 DEF vars
  <2> QED BY <1>1, <1>4, <2>1 DEF ZonesInv
<1>5. CASE InitPages
  BY <1>4, <1>5 DEF InitPages
<1>6. CASE ReserveBss
  BY <1>4, <1>6 DEF ReserveBss
<1>7. CASE BssTooLarge
  BY <1>4, <1>7 DEF BssTooLarge
<1>8. CASE NextTable
  BY <1>4, <1>8 DEF NextTable
<1>9. CASE NextStackPage
  BY <1>4, <1>9 DEF NextStackPage
<1>10. CASE Stop
  BY <1>4, <1>10 DEF Stop
<1>11. CASE UNCHANGED bvars
  <2>1. m' = m /\ kzones' = kzones /\ step' = step
    BY <1>11 DEF bvars, vars
  <2> QED BY <1>1, <2>1 DEF ZonesInv
<1> QED BY <1>2, <1>3, <1>5, <1>6, <1>7, <1>8, <1>9, <1>10, <1>11 DEF BootNext

(* zone_init finds the end of usable memory.                                    *)
LEMMA MaxAddrIs ==
    ASSUME MapInv
    PROVE  /\ MaxAddr \in Nat
           /\ \A k \in DOMAIN m : m[k].type = 1 => Fin(m[k]) <= MaxAddr
<1> DEFINE D == {j \in DOMAIN m : m[j].type = 1}
           E == {Fin(m[k]) : k \in D}
<1>1. Len(m) \in Nat /\ DOMAIN m = 1 .. Len(m)
  BY LenProperties DEF MapInv
<1>2. IsFiniteSet(D)
  <2>1. IsFiniteSet(1 .. Len(m))
    <3>1. 1 \in Int /\ Len(m) \in Int
      BY <1>1
    <3> QED BY <3>1, FS_Interval
  <2>2. D \in SUBSET (1 .. Len(m))
    BY <1>1
  <2> HIDE DEF D
  <2> QED BY <2>1, <2>2, FS_Subset
<1>3. IsFiniteSet(E)
  <2> DEFINE f == [k \in D |-> Fin(m[k])]
  <2>1. f \in [D -> E] /\ \A e \in E : \E k \in D : f[k] = e
    OBVIOUS
  <2>2. f \in Surjection(D, E)
    <3> HIDE DEF D, E, f
    <3> QED BY <2>1 DEF Surjection
  <2> HIDE DEF D, E, f
  <2> QED BY <1>2, <2>2, FS_Surjection
<1>4. E \subseteq Nat
  <2>1. SUFFICES ASSUME NEW k \in DOMAIN m PROVE Fin(m[k]) \in Nat
    OBVIOUS
  <2>2. m[k] \in Regions(Low)
    BY <1>1, ElementOfSeq DEF MapInv
  <2> QED BY <2>2, RegionParts, LowInt
<1>5. UsableEnds = {0} \cup E
  BY DEF UsableEnds
<1> HIDE DEF D, E
<1>6. IsFiniteSet(UsableEnds) /\ UsableEnds \subseteq Nat /\ UsableEnds # {}
  <2>1. IsFiniteSet({0})
    BY FS_Singleton
  <2>2. IsFiniteSet({0} \cup E)
    BY <1>3, <2>1, FS_Union
  <2> QED BY <1>4, <1>5, <2>2
<1>7. \E a \in UsableEnds : \A b \in UsableEnds : b <= a
  BY <1>6, GreatestElement
<1>8. MaxAddr \in UsableEnds /\ \A b \in UsableEnds : b <= MaxAddr
  BY <1>7 DEF MaxAddr
<1>9. \A k \in DOMAIN m : m[k].type = 1 => Fin(m[k]) \in UsableEnds
  BY DEF UsableEnds
<1> QED BY <1>6, <1>8, <1>9

(* Whatever the usable memory, one zone holds each address below its end.       *)
LEMMA OneZone ==
    ASSUME MaxAddr \in Nat, NEW a \in Nat, a < MaxAddr
    PROVE  \E z \in DOMAIN Zones : \A y \in DOMAIN Zones :
              (Zones[y].bgn <= a /\ a <= Zones[y].end) <=> y = z
<1> USE BootAssumption DEF Zone
<1>1. CASE MaxAddr > Dma32End - 1
  <2>1. Zones = <<Zone(Dma32End, MaxAddr), Zone(DmaEnd, Dma32End - 1), Zone(0, DmaEnd - 1)>>
    BY <1>1 DEF Zones
  <2>2. DOMAIN Zones = {1, 2, 3}
    BY <2>1
  <2>3. /\ Zones[1] = Zone(Dma32End, MaxAddr)
        /\ Zones[2] = Zone(DmaEnd, Dma32End - 1)
        /\ Zones[3] = Zone(0, DmaEnd - 1)
    BY <2>1
  <2> QED BY <2>2, <2>3
<1>2. CASE ~ (MaxAddr > Dma32End - 1) /\ MaxAddr > DmaEnd
  <2>1. Zones = <<Zone(DmaEnd, MaxAddr), Zone(0, DmaEnd - 1)>>
    BY <1>2 DEF Zones
  <2>2. DOMAIN Zones = {1, 2}
    BY <2>1
  <2>3. Zones[1] = Zone(DmaEnd, MaxAddr) /\ Zones[2] = Zone(0, DmaEnd - 1)
    BY <2>1
  <2> QED BY <2>2, <2>3
<1>3. CASE ~ (MaxAddr > Dma32End - 1) /\ ~ (MaxAddr > DmaEnd)
  <2>1. Zones = <<Zone(0, MaxAddr)>>
    BY <1>3 DEF Zones
  <2>2. DOMAIN Zones = {1} /\ Zones[1] = Zone(0, MaxAddr)
    BY <2>1
  <2> QED BY <2>2
<1> QED BY <1>1, <1>2, <1>3

(* Every address of usable memory is in exactly one zone (zone.c:46).           *)
THEOREM ZonesDivide == BootSpec => []ZonesPartition
<1>1. BootInit => MapInv /\ ZonesInv
  BY InitMap DEF BootInit, ZonesInv
<1>2. MapInv /\ ZonesInv => ZonesPartition
  <2> SUFFICES ASSUME MapInv, ZonesInv, kzones # << >>,
                      NEW k \in {j \in DOMAIN m : m[j].type = 1},
                      NEW a \in m[k].base .. Fin(m[k]) - 1
               PROVE  Cardinality({z \in DOMAIN kzones :
                                     kzones[z].bgn <= a /\ a <= kzones[z].end}) = 1
    BY DEF ZonesPartition
  <2>1. kzones = Zones
    BY DEF ZonesInv
  <2>2. m[k] \in Regions(Low)
    BY LenProperties, ElementOfSeq DEF MapInv
  <2>3. m[k].base \in Nat /\ Fin(m[k]) \in Nat
    BY <2>2, RegionParts, LowInt
  <2>4. MaxAddr \in Nat /\ Fin(m[k]) <= MaxAddr
    BY MaxAddrIs
  <2>5. a \in Nat /\ a < MaxAddr
    BY <2>3, <2>4
  <2>6. PICK z \in DOMAIN Zones : \A y \in DOMAIN Zones :
              (Zones[y].bgn <= a /\ a <= Zones[y].end) <=> y = z
    BY <2>4, <2>5, OneZone
  <2>7. {y \in DOMAIN kzones : kzones[y].bgn <= a /\ a <= kzones[y].end} = {z}
    BY <2>1, <2>6
  <2> QED BY <2>7, FS_Singleton
<1> QED BY <1>1, <1>2, StepMap, StepZones, PTL DEF BootSpec

-------------------------------------------------------------------------------
(* The pages.                                                                   *)

(* Addresses to which the size of a block can be added.                         *)
Fits(a) == a \in Nat /\ \A order \in Asked : a + PAGE * 2^order < TOP

(* The zones of the contiguous allocator: they begin and end at such addresses. *)
GoodZones == {z \in Nat \X Nat : Fits(z[1]) /\ Fits(Pages!Wrap(z[1] + z[2]))}

PagesInv ==
    /\ bss \in Nat /\ visited \in Nat
    /\ zones \in Seq(GoodZones)
    /\ phase = "registering" => pbgn = Pages!NOWHERE /\ given = {}
    /\ phase = "ready" /\ pbgn # Pages!NOWHERE =>
          /\ zidx \in 1 .. Len(zones)
          /\ Fits(pbgn) /\ Fits(pend) /\ pbgn <= pend
          /\ Pages!ReportExact

LEMMA Power == \A order \in Asked : PAGE * 2^order \in Nat
BY BootAssumption DEF Asked

(* What is added to an address of the map before it wraps.                      *)
LEMMA Modulo ==
    ASSUME NEW x \in Int
    PROVE  /\ x \in 0 .. TOP - 1 => Pages!Wrap(x) = x
           /\ x \in -TOP .. -1 /\ TOP > 0 => Pages!Wrap(x) = x + TOP
           /\ x \in TOP .. 2 * TOP - 1 /\ TOP > 0 => Pages!Wrap(x) = x - TOP
BY BootAssumption DEF Pages!Wrap

LEMMA Floor ==
    ASSUME NEW a \in Nat
    PROVE  /\ Pages!FloorPage(a) \in Nat /\ Pages!FloorPage(a) <= a
           /\ a < Pages!FloorPage(a) + PAGE
BY BootAssumption DEF Pages!FloorPage

(* A region cut to whole pages, empty ones included, is such a zone.            *)
LEMMA ZoneGood ==
    ASSUME NEW r \in Regions(Low)
    PROVE  /\ Pages!Zone(r) \in GoodZones
           /\ r.base <= Pages!Zone(r)[1]
           /\ Pages!Wrap(Pages!Zone(r)[1] + Pages!Zone(r)[2]) <= Fin(r)
<1> DEFINE b == r.base
           e == r.base + r.size
           head == Pages!CeilPage(b)
           tail == Pages!FloorPage(Pages!Wrap(e))
<1>1. b \in Low /\ e \in Low
  BY RegionParts DEF Fin
<1>2. PAGE \in Nat /\ PAGE > 0 /\ TOP \in Nat /\ 1 \in Asked
  BY BootAssumption DEF Asked
<1>3. b \in Nat /\ e \in Nat
  BY <1>1, LowInt
<1>4. \A order \in Asked : b + PAGE + PAGE * 2^order < TOP /\ e + PAGE + PAGE * 2^order < TOP
  BY <1>1 DEF Low
<1>5. ASSUME NEW order \in Asked PROVE PAGE * 2^order \in Nat
  BY Power
<1>6. b + PAGE - 1 \in 0 .. TOP - 1 /\ e \in 0 .. TOP - 1
  BY <1>2, <1>3, <1>4, <1>5
<1>7. Pages!Wrap(b + PAGE - 1) = b + PAGE - 1 /\ Pages!Wrap(e) = e
  BY <1>6, Modulo
<1>8. head \in Nat /\ head <= b + PAGE - 1 /\ b <= head
  <2>1. b + PAGE - 1 \in Nat
    BY <1>2, <1>3
  <2>2. head = Pages!FloorPage(b + PAGE - 1)
    BY <1>7 DEF Pages!CeilPage
  <2> HIDE DEF head, b
  <2>3. head \in Nat /\ head <= b + PAGE - 1 /\ b + PAGE - 1 < head + PAGE
    BY <2>1, <2>2, Floor
  <2>4. b <= head
    BY ONLY <1>2, <1>3, <2>3
  <2> QED BY <2>3, <2>4
<1>9. tail \in Nat /\ tail <= e
  BY <1>3, <1>7, Floor
<1> HIDE DEF head, tail, b, e
<1>10. Pages!Wrap(tail - head) \in Nat /\ Pages!Wrap(head + Pages!Wrap(tail - head)) = tail
  <2>1. head \in 0 .. TOP - 1 /\ tail \in 0 .. TOP - 1
    BY <1>2, <1>3, <1>6, <1>8, <1>9
  <2>2. CASE head <= tail
    <3>1. Pages!Wrap(tail - head) = tail - head
      BY <1>2, <2>1, <2>2, Modulo
    <3>2. head + (tail - head) = tail /\ Pages!Wrap(tail) = tail
      BY <1>2, <2>1, Modulo
    <3> QED BY <2>1, <2>2, <3>1, <3>2
  <2>3. CASE ~ (head <= tail)
    <3>1. Pages!Wrap(tail - head) = tail - head + TOP
      BY <1>2, <2>1, <2>3, Modulo
    <3>2. head + (tail - head + TOP) = tail + TOP /\ Pages!Wrap(tail + TOP) = tail
      BY <1>2, <2>1, Modulo
    <3> QED BY <1>2, <2>1, <3>1, <3>2
  <2> QED BY <2>2, <2>3
<1>11. Fits(head) /\ Fits(tail)
  <2> SUFFICES ASSUME NEW order \in Asked
               PROVE  head + PAGE * 2^order < TOP /\ tail + PAGE * 2^order < TOP
    BY <1>8, <1>9 DEF Fits
  <2>1. PAGE * 2^order \in Nat
    BY <1>5
  <2>2. b + PAGE + PAGE * 2^order < TOP /\ e + PAGE + PAGE * 2^order < TOP
    BY <1>4
  <2> HIDE DEF Asked
  <2> QED BY <1>2, <1>3, <1>8, <1>9, <2>1, <2>2
<1>12. Pages!Zone(r) = <<head, Pages!Wrap(tail - head)>>
  BY DEF Pages!Zone, head, tail, b, e
<1>13. e = Fin(r) /\ b = r.base
  BY DEF b, e, Fin
<1> QED BY <1>8, <1>9, <1>10, <1>11, <1>12, <1>13 DEF GoodZones

LEMMA InitPagesInv == BootInit => PagesInv
<1> SUFFICES ASSUME BootInit PROVE PagesInv
  OBVIOUS
<1>1. zones \in Seq(GoodZones)
  BY EmptySeq DEF BootInit
<1> QED BY <1>1 DEF BootInit, PagesInv

(* The steps of palloc_init.                                                    *)
LEMMA RegisterInv ==
    ASSUME MapInv, PagesInv, UNCHANGED <<vars, bss>>, Pages!Skip \/ Pages!Register
    PROVE  PagesInv'
<1>1. visited \in Nat /\ visited' = visited + 1 /\ visited < Len(m)
  BY DEF PagesInv, Pages!Skip, Pages!Register
<1>2. /\ phase = "registering" /\ phase' # "ready"
      /\ pbgn' = pbgn /\ given' = given /\ bss' = bss
  BY DEF Pages!Skip, Pages!Register
<1>3. zones' \in Seq(GoodZones)
  <2>1. CASE Pages!Skip
    BY <2>1 DEF Pages!Skip, PagesInv
  <2>2. CASE Pages!Register
    <3>1. m[visited + 1] \in Regions(Low)
      <4>1. visited + 1 \in 1 .. Len(m)
        BY <1>1, LenProperties DEF MapInv
      <4> QED BY <4>1, ElementOfSeq DEF MapInv
    <3>2. Pages!Zone(m[visited + 1]) \in GoodZones
      BY <3>1, ZoneGood
    <3>3. zones' = Append(zones, Pages!Zone(m[visited + 1]))
      BY <2>2 DEF Pages!Register
    <3>4. zones \in Seq(GoodZones)
      BY DEF PagesInv
    <3> HIDE DEF GoodZones
    <3> QED BY <3>2, <3>3, <3>4, AppendProperties
  <2> QED BY <2>1, <2>2
<1>4. GoodZones' = GoodZones /\ Pages!NOWHERE' = Pages!NOWHERE
  BY DEF GoodZones, Fits, Asked, Pages!Wrap, Pages!NOWHERE
<1>5. phase' = "registering" => pbgn' = Pages!NOWHERE /\ given' = {}
  BY <1>2 DEF PagesInv
<1>6. bss' \in Nat /\ visited' \in Nat
  BY <1>1, <1>2 DEF PagesInv
<1> QED BY <1>2, <1>3, <1>4, <1>5, <1>6 DEF PagesInv

(* The zone that _init chooses begins above the kernel.                         *)
LEMMA ChosenZone ==
    ASSUME PagesInv, Pages!Choose, pbgn' # Pages!NOWHERE
    PROVE  /\ zidx' \in Pages!Above /\ zidx' \in 1 .. Len(zones)
           /\ pbgn' = zones[zidx'][1] /\ Fits(pbgn')
<1>1. pbgn = Pages!NOWHERE /\ zones \in Seq(GoodZones)
  BY DEF PagesInv, Pages!Choose
<1>2. Len(zones) \in Nat
  BY <1>1, LenProperties
<1> DEFINE Above == Pages!Above
           Lowest(k) == \A l \in Above :
                          \/ zones[k][1] < zones[l][1]
                          \/ zones[k][1] = zones[l][1] /\ k <= l
           Bases == {zones[k][1] : k \in Above}
<1>3. Above \subseteq 1 .. Len(zones)
  BY DEF Pages!Above
<1>4. Above # {}
  BY <1>1 DEF Pages!Choose
<1>5. \A k \in Above : zones[k] \in GoodZones /\ zones[k][1] \in Nat /\ Fits(zones[k][1])
  <2>1. SUFFICES ASSUME NEW k \in 1 .. Len(zones)
                 PROVE  zones[k] \in GoodZones /\ zones[k][1] \in Nat /\ Fits(zones[k][1])
    BY <1>3
  <2>2. zones[k] \in GoodZones
    BY <1>1, ElementOfSeq
  <2> QED BY <2>2 DEF GoodZones
<1>6. zidx' = (CHOOSE k \in Above : Lowest(k)) /\ pbgn' = zones[CHOOSE k \in Above : Lowest(k)][1]
  BY <1>4, Zenon DEF Pages!Choose
<1> HIDE DEF Above
<1>7. Bases \in SUBSET Nat /\ Bases # {}
  BY <1>4, <1>5
<1>8. PICK b \in Bases : \A e \in Bases : b <= e
  BY <1>7, LeastNat
<1> DEFINE First == {k \in Above : zones[k][1] = b}
<1>9. First \in SUBSET Nat /\ First # {}
  <2>1. 1 .. Len(zones) \subseteq Nat
    BY <1>2
  <2>2. \E k \in Above : zones[k][1] = b
    BY <1>8
  <2> QED BY <1>3, <2>1, <2>2
<1>10. PICK k \in First : \A l \in First : k <= l
  BY <1>9, LeastNat
<1>11. k \in Above /\ Lowest(k)
  <2>1. k \in Above /\ zones[k][1] = b
    OBVIOUS
  <2>2. ASSUME NEW l \in Above
        PROVE  zones[k][1] < zones[l][1] \/ (zones[k][1] = zones[l][1] /\ k <= l)
    <3>1. zones[l][1] \in Bases
      OBVIOUS
    <3>2. b <= zones[l][1] /\ b \in Nat /\ zones[l][1] \in Nat
      BY <1>5, <1>7, <1>8, <3>1
    <3>3. CASE zones[l][1] = b
      BY <1>10, <2>1, <3>3
    <3>4. CASE zones[l][1] # b
      BY <2>1, <3>2, <3>4
    <3> QED BY <3>3, <3>4
  <2> QED BY <2>1, <2>2 DEF Lowest
<1> HIDE DEF Lowest
<1>12. (CHOOSE x \in Above : Lowest(x)) \in Above
  BY <1>11
<1> QED BY <1>3, <1>5, <1>6, <1>12 DEF Above

LEMMA ChooseInv ==
    ASSUME MapInv, PagesInv, UNCHANGED <<vars, bss>>, Pages!Choose
    PROVE  PagesInv'
<1>1. /\ phase' = "ready" /\ pend' = pbgn' /\ given' = given /\ zones' = zones
      /\ visited' = visited /\ bss' = bss
  BY DEF Pages!Choose
<1>2. pbgn = Pages!NOWHERE /\ given = {} /\ zones \in Seq(GoodZones)
  BY DEF PagesInv, Pages!Choose
<1>4. ASSUME pbgn' # Pages!NOWHERE
      PROVE  zidx' \in 1 .. Len(zones) /\ Fits(pbgn')
  BY <1>4, ChosenZone
<1>5. ASSUME pbgn' # Pages!NOWHERE PROVE Pages!ReportExact'
  <2>1. pbgn' \in Nat /\ pend' = pbgn' /\ given' = {}
    BY <1>1, <1>2, <1>4, <1>5 DEF Fits
  <2>2. pbgn' .. pend' - 1 = {}
    <3>1. \A x \in Nat : x .. x - 1 = {}
      OBVIOUS
    <3> QED BY <2>1, <3>1
  <2> QED BY <2>1, <2>2 DEF Pages!ReportExact
<1>6. GoodZones' = GoodZones /\ Pages!NOWHERE' = Pages!NOWHERE /\ Fits(pbgn)' = Fits(pbgn')
  BY DEF GoodZones, Fits, Asked, Pages!Wrap, Pages!NOWHERE
<1>7. bss' \in Nat /\ visited' \in Nat /\ zones' \in Seq(GoodZones)
  BY <1>1 DEF PagesInv
<1>8. pbgn' # Pages!NOWHERE => pbgn' <= pend' /\ Fits(pend')
  BY <1>1, <1>4 DEF Fits
<1> QED BY <1>1, <1>4, <1>5, <1>6, <1>7, <1>8 DEF PagesInv

(* palloc_get of kmain: the end moves over the block handed out.                *)
LEMMA GetInv ==
    ASSUME PagesInv, UNCHANGED <<vars, bss>>, NEW order \in Asked, Get(order)
    PROVE  PagesInv'
<1>1. /\ phase = "ready" /\ phase' = phase /\ zones' = zones /\ zidx' = zidx
      /\ pbgn' = pbgn /\ visited' = visited /\ bss' = bss
  BY DEF Get, Pages!Alloc, Pages!AllocFails, Pages!vars
<1>2. GoodZones' = GoodZones /\ Pages!NOWHERE' = Pages!NOWHERE
  BY DEF GoodZones, Fits, Asked, Pages!Wrap, Pages!NOWHERE
<1>3. SUFFICES ASSUME pbgn # Pages!NOWHERE
               PROVE  Fits(pend') /\ pbgn <= pend' /\ Pages!ReportExact'
  <2>1. Fits(pbgn)' = Fits(pbgn') /\ Fits(pend)' = Fits(pend')
    BY DEF Fits, Asked
  <2> QED BY <1>1, <1>2, <1>3, <2>1 DEF PagesInv
<1>4. /\ zidx \in 1 .. Len(zones) /\ zones \in Seq(GoodZones)
      /\ Fits(pbgn) /\ Fits(pend) /\ pbgn <= pend /\ Pages!ReportExact
  BY <1>1, <1>3 DEF PagesInv
<1>5. CASE Pages!AllocFails(order) /\ UNCHANGED given
  <2>1. pend' = pend /\ given' = given
    BY <1>5 DEF Pages!AllocFails, Pages!vars
  <2> QED BY <1>1, <1>4, <2>1 DEF Pages!ReportExact, Pages!Units, Pages!Size
<1>6. CASE Pages!Alloc(order)
  <2> DEFINE size == PAGE * 2^order
             end == Pages!Wrap(zones[zidx][1] + zones[zidx][2])
             new == <<pend, order>>
  <2>1. size \in Nat /\ pend \in Nat /\ pbgn \in Nat /\ TOP \in Nat
    BY <1>4, Power, BootAssumption DEF Fits
  <2>2. pend + size \in 0 .. TOP - 1
    <3>1. pend + size < TOP
      BY <1>4 DEF Fits
    <3> QED BY <2>1, <3>1
  <2>3. Pages!Wrap(pend + Pages!Size(order)) = pend + size
    <3>1. Pages!Size(order) = size /\ pend + size \in Int
      BY <2>1 DEF Pages!Size
    <3> HIDE DEF size
    <3> QED BY <2>2, <3>1, Modulo
  <2>4. pend + size < end
    BY <1>6, <2>3 DEF Pages!Alloc, Pages!Room
  <2>5. end \in Nat /\ Fits(end)
    <3>1. zones[zidx] \in GoodZones
      BY <1>4, ElementOfSeq
    <3> QED BY <3>1 DEF GoodZones, Fits
  <2>6. pend' = pend + size /\ given' = given \cup {new}
    BY <1>6, <2>3 DEF Pages!Alloc, Pages!Take
  <2> HIDE DEF size, end
  <2>7. Fits(pend')
    <3> SUFFICES ASSUME NEW o \in Asked PROVE pend + size + PAGE * 2^o < TOP
      BY <2>1, <2>6 DEF Fits
    <3>1. PAGE * 2^o \in Nat /\ end + PAGE * 2^o < TOP
      BY <2>5, Power DEF Fits
    <3> QED BY <2>1, <2>4, <2>5, <3>1
  <2>8. pbgn <= pend'
    BY <1>4, <2>1, <2>6
  <2>9. Pages!ReportExact'
    <3> DEFINE U(b) == b[1] .. b[1] + PAGE * 2^b[2] - 1
    <3>1. \A b, d \in given : b # d => U(b) \cap U(d) = {}
      BY <1>4 DEF Pages!ReportExact, Pages!Units, Pages!Size
    <3>2. UNION {U(b) : b \in given} = pbgn .. pend - 1
      BY <1>1, <1>4 DEF Pages!ReportExact, Pages!Units, Pages!Size
    <3>3. U(new) = pend .. pend + size - 1
      BY DEF size
    <3> HIDE DEF U, new
    <3>4. \A b \in given : U(b) \cap U(new) = {}
      <4>1. SUFFICES ASSUME NEW b \in given PROVE U(b) \cap U(new) = {}
        OBVIOUS
      <4>2. U(b) \subseteq pbgn .. pend - 1
        BY <3>2
      <4>3. (pbgn .. pend - 1) \cap (pend .. pend + size - 1) = {}
        BY <2>1
      <4> QED BY <3>3, <4>2, <4>3
    <3>5. \A b, d \in given' : b # d => U(b) \cap U(d) = {}
      BY <2>6, <3>1, <3>4
    <3>6. UNION {U(b) : b \in given'} = (pbgn .. pend - 1) \cup (pend .. pend + size - 1)
      <4>1. {U(b) : b \in given'} = {U(b) : b \in given} \cup {U(new)}
        BY <2>6
      <4> QED BY <3>2, <3>3, <4>1
    <3>7. (pbgn .. pend - 1) \cup (pend .. pend + size - 1) = pbgn .. pend + size - 1
      BY <1>4, <2>1
    <3>8. UNION {U(b) : b \in given'} = pbgn' .. pend' - 1
      <4>1. pbgn' .. pend' - 1 = pbgn .. pend + size - 1
        BY <1>1, <2>1, <2>6
      <4> HIDE DEF new
      <4> QED BY <3>6, <3>7, <4>1
    <3> QED BY <3>5, <3>8 DEF Pages!ReportExact, Pages!Units, Pages!Size, U
  <2> QED BY <2>7, <2>8, <2>9
<1> QED BY <1>5, <1>6 DEF Get

LEMMA StepPages == MapInv /\ PagesInv /\ [BootNext]_bvars => PagesInv'
<1> SUFFICES ASSUME MapInv, PagesInv, [BootNext]_bvars PROVE PagesInv'
  OBVIOUS
<1>1. ASSUME UNCHANGED pvars, bss' \in Nat PROVE PagesInv'
  BY <1>1 DEF PagesInv, pvars, GoodZones, Fits, Asked, Pages!Wrap, Pages!NOWHERE,
              Pages!ReportExact, Pages!Units, Pages!Size
<1>2. bss \in Nat /\ 1 \in Asked
  BY BootAssumption DEF PagesInv, Asked
<1>3. CASE CleanMap
  BY <1>1, <1>2, <1>3 DEF CleanMap
<1>4. CASE ZoneInit
  BY <1>1, <1>4, BootAssumption DEF ZoneInit
<1>5. CASE InitPages
  <2>1. UNCHANGED <<vars, bss>>
    BY <1>5 DEF InitPages
  <2>2. (Pages!Skip \/ Pages!Register) \/ Pages!Choose
    BY <1>5 DEF InitPages
  <2> QED BY <2>1, <2>2, RegisterInv, ChooseInv
<1>6. CASE ReserveBss
  <2>1. bss \in Asked
    BY <1>2, <1>6, BootAssumption DEF ReserveBss, Asked
  <2> QED BY <1>6, <2>1, GetInv DEF ReserveBss
<1>7. CASE BssTooLarge
  BY <1>1, <1>2, <1>7 DEF BssTooLarge
<1>8. CASE NextTable
  BY <1>2, <1>8, GetInv DEF NextTable
<1>9. CASE NextStackPage
  BY <1>2, <1>9, GetInv DEF NextStackPage
<1>10. CASE Stop
  BY <1>1, <1>2, <1>10 DEF Stop
<1>11. CASE UNCHANGED bvars
  BY <1>1, <1>2, <1>11 DEF bvars
<1> QED BY <1>3, <1>4, <1>5, <1>6, <1>7, <1>8, <1>9, <1>10, <1>11 DEF BootNext

(* Over every memory map the blocks handed out do not overlap, and the range    *)
(* that is reported to the next allocator is made of them, no more and no less  *)
(* (palloc_contiguous.c:108, 126).                                              *)
THEOREM ReportedExactly == BootSpec => []ReportExact
<1>1. BootInit => MapInv /\ PagesInv
  BY InitMap, InitPagesInv DEF BootInit
<1>2. PagesInv => ReportExact
  BY DEF PagesInv, ReportExact, RamAbove
<1> QED BY <1>1, <1>2, StepMap, StepPages, PTL DEF BootSpec

-------------------------------------------------------------------------------
(* What is handed out.                                                          *)

(* A zone to allocate from was found.                                           *)
Found == phase = "ready" /\ pbgn # Pages!NOWHERE

ZoneEnd(z) == Pages!Wrap(z[1] + z[2])

(* Each zone is a usable region of the finished map cut to whole pages, and     *)
(* what is handed out lies in the one that was chosen.                          *)
OriginInv ==
    /\ step # "e820" => pc = "done"
    /\ step \in {"e820", "zones"} => zones = << >>
    /\ step \in {"e820", "zones", "pages"} => phase = "registering"
    /\ \A z \in 1 .. Len(zones) : \E k \in 1 .. Len(m) :
          m[k].type = 1 /\ zones[z] = Pages!Zone(m[k])
    /\ Found =>
          /\ pbgn = zones[zidx][1] /\ kb < pbgn
          /\ pend = pbgn \/ pend < ZoneEnd(zones[zidx])

LEMMA InitOrigin == BootInit => OriginInv
<1> SUFFICES ASSUME BootInit PROVE OriginInv
  OBVIOUS
<1>1. step = "e820" /\ zones = << >> /\ phase = "registering"
  BY DEF BootInit
<1>2. Len(zones) = 0 /\ 1 .. 0 = {}
  BY <1>1
<1> QED BY <1>1, <1>2 DEF OriginInv, Found

(* palloc_get takes from the zone that was chosen, or nothing.                  *)
LEMMA GetStays ==
    ASSUME PagesInv, OriginInv, UNCHANGED vars, NEW order \in Asked, Get(order),
           step' # "e820", step \notin {"e820", "zones", "pages"},
           step' \notin {"e820", "zones", "pages"}
    PROVE  OriginInv'
<1>1. /\ phase = "ready" /\ phase' = phase /\ zones' = zones /\ zidx' = zidx /\ pbgn' = pbgn
  BY DEF Get, Pages!Alloc, Pages!AllocFails, Pages!vars
<1>2. m' = m /\ pc' = pc
  BY DEF vars
<1>3. \/ pend' = pend
      \/ pend' < ZoneEnd(zones[zidx])
  BY DEF Get, Pages!Alloc, Pages!AllocFails, Pages!vars, Pages!Room, Pages!Take, ZoneEnd
<1>4. \A z \in 1 .. Len(zones') : \E k \in 1 .. Len(m') :
          m'[k].type = 1 /\ zones'[z] = Pages!Zone(m'[k])
  BY <1>1, <1>2 DEF OriginInv
<1>5. Found' = Found /\ ZoneEnd(zones[zidx])' = ZoneEnd(zones[zidx])
  BY <1>1 DEF Found, Pages!NOWHERE, ZoneEnd, Pages!Wrap
<1>6. Found => /\ pbgn' = zones'[zidx'][1] /\ kb < pbgn'
               /\ pend' = pbgn' \/ pend' < ZoneEnd(zones[zidx])
  BY <1>1, <1>3 DEF OriginInv
<1>7. kb' = kb
  BY DEF kb
<1>8. pc = "done"
  BY DEF OriginInv
<1> QED BY <1>1, <1>2, <1>4, <1>5, <1>6, <1>7, <1>8 DEF OriginInv, Pages!Zone, Pages!CeilPage,
        Pages!FloorPage, Pages!Wrap

LEMMA StepOrigin == MapInv /\ PagesInv /\ OriginInv /\ [BootNext]_bvars => OriginInv'
<1> SUFFICES ASSUME MapInv, PagesInv, OriginInv, [BootNext]_bvars PROVE OriginInv'
  OBVIOUS
<1> USE DEF Found, ZoneEnd, kb, Pages!NOWHERE, Pages!Zone, Pages!CeilPage, Pages!FloorPage,
            Pages!Wrap
<1>1. ASSUME UNCHANGED <<m, pc, pvars>>, step' # "e820", step # "e820",
             step' = "zones" => step = "zones",
             step' = "pages" => step \in {"zones", "pages"}
      PROVE  OriginInv'
  BY <1>1 DEF OriginInv, pvars
<1>2. CASE CleanMap
  <2>1. /\ step = "e820" /\ UNCHANGED pvars
        /\ step' = IF pc' = "done" THEN "zones" ELSE "e820"
    BY <1>2 DEF CleanMap
  <2>2. zones = << >> /\ zones' = zones /\ phase = "registering" /\ phase' = phase
    BY <2>1 DEF OriginInv, pvars
  <2>3. 1 .. Len(zones') = {}
    BY <2>2
  <2> QED BY <2>1, <2>2, <2>3 DEF OriginInv
<1>3. CASE ZoneInit
  BY <1>1, <1>3 DEF ZoneInit, vars
<1>4. CASE InitPages
  <2>1. /\ step = "pages" /\ step' \in {"pages", "bss", "asserted"}
        /\ m' = m /\ pc' = pc /\ pc = "done"
    BY <1>4 DEF InitPages, vars, OriginInv
  <2>2. CASE Pages!Skip
    <3>1. /\ phase = "registering" /\ phase' = phase /\ zones' = zones
      BY <2>2 DEF Pages!Skip
    <3> QED BY <2>1, <3>1 DEF OriginInv
  <2>3. CASE Pages!Register
    <3> DEFINE z == Pages!Zone(m[visited + 1])
    <3>1. /\ phase = "registering" /\ phase' # "ready" /\ zones' = Append(zones, z)
          /\ visited < Len(m) /\ m[visited + 1].type = 1
      BY <2>3 DEF Pages!Register
    <3>2. step' = "pages" => phase' = "registering"
      BY <1>4, <2>3, <3>1 DEF InitPages, Pages!Register
    <3>3. visited + 1 \in 1 .. Len(m) /\ zones \in Seq(GoodZones)
      BY <3>1, LenProperties DEF PagesInv, MapInv
    <3>4. z \in GoodZones
      BY <3>3, ZoneGood, EntryFacts, LowInt DEF MapInv
    <3> HIDE DEF z, GoodZones
    <3>5. /\ Len(zones') = Len(zones) + 1 /\ zones'[Len(zones) + 1] = z /\ Len(zones) \in Nat
          /\ \A k \in 1 .. Len(zones) : zones'[k] = zones[k]
      BY <3>1, <3>3, <3>4, AppendProperties, LenProperties
    <3>6. ASSUME NEW k \in 1 .. Len(zones')
          PROVE  \E l \in 1 .. Len(m) : m[l].type = 1 /\ zones'[k] = Pages!Zone(m[l])
      <4>1. CASE k = Len(zones) + 1
        BY <3>1, <3>3, <3>5, <4>1 DEF z
      <4>2. CASE k # Len(zones) + 1
        <5>1. k \in 1 .. Len(zones)
          BY <3>5, <4>2
        <5> QED BY <3>5, <5>1 DEF OriginInv
      <4> QED BY <4>1, <4>2
    <3> QED BY <2>1, <3>1, <3>2, <3>6 DEF OriginInv
  <2>4. CASE Pages!Choose
    <3>1. phase' = "ready" /\ pend' = pbgn' /\ zones' = zones
      BY <2>4 DEF Pages!Choose
    <3>2. step' = "bss"
      BY <1>4, <3>1 DEF InitPages
    <3>3. ASSUME pbgn' # Pages!NOWHERE
          PROVE  pbgn' = zones[zidx'][1] /\ kb < pbgn'
      <4>1. zidx' \in Pages!Above /\ pbgn' = zones[zidx'][1]
        BY <2>4, <3>3, ChosenZone
      <4>2. zones[zidx'][1] > kb
        BY <4>1 DEF Pages!Above
      <4>3. zones[zidx'][1] \in Nat /\ kb \in Nat
        <5>1. zidx' \in 1 .. Len(zones) /\ zones \in Seq(GoodZones)
          BY <2>4, <3>3, ChosenZone DEF PagesInv
        <5>2. zones[zidx'] \in GoodZones
          BY <5>1, ElementOfSeq
        <5> QED BY <5>2, MapAssumption, BootAssumption DEF GoodZones
      <4> QED BY <4>1, <4>2, <4>3
    <3> QED BY <2>1, <3>1, <3>2, <3>3 DEF OriginInv
  <2> QED BY <1>4, <2>2, <2>3, <2>4 DEF InitPages
<1>5. 1 \in Asked
  BY BootAssumption DEF Asked
<1> USE DEF BootNext
<1>6. CASE ReserveBss
  <2>1. bss \in Asked
    BY <1>6, BootAssumption DEF PagesInv, ReserveBss, Asked
  <2>2. Get(bss) /\ step = "bss" /\ step' = "tables" /\ UNCHANGED vars
    BY <1>6 DEF ReserveBss
  <2> QED BY ONLY PagesInv, OriginInv, <2>1, <2>2, GetStays
<1>7. CASE NextTable
  <2>1. Get(1) /\ step = "tables" /\ step' \in {"tables", "fault"} /\ UNCHANGED vars
    BY <1>7 DEF NextTable
  <2> QED BY ONLY PagesInv, OriginInv, <1>5, <2>1, GetStays
<1>8. CASE NextStackPage
  <2>1. Get(1) /\ step = "tables" /\ step' \in {"tables", "paging"} /\ UNCHANGED vars
    BY <1>8 DEF NextStackPage
  <2> QED BY ONLY PagesInv, OriginInv, <1>5, <2>1, GetStays
<1>9. CASE BssTooLarge
  BY <1>1, <1>9 DEF BssTooLarge, vars
<1>10. CASE Stop
  BY <1>1, <1>10 DEF Stop, vars
<1>11. CASE UNCHANGED bvars
  BY <1>11 DEF OriginInv, bvars, vars, pvars
<1> QED BY <1>2, <1>3, <1>4, <1>6, <1>7, <1>8, <1>9, <1>10, <1>11

(* Without overlaps in the map of the BIOS the entries come in order, so the    *)
(* clean-up keeps addresses and their types.                                    *)
CleanInv == Lone => CoverInv

LEMMA StepClean ==
    MapInv /\ LayersInv /\ AddedInv /\ CleanInv /\ [BootNext]_bvars => CleanInv'
<1> SUFFICES ASSUME MapInv, LayersInv, AddedInv, CleanInv, [BootNext]_bvars, Lone'
             PROVE  CoverInv'
  BY DEF CleanInv
<1>1. CASE CleanMap
  <2>1. input' = input
    BY <1>1, LowInt, StepType, MapAssumption DEF MapInv, CleanMap
  <2>2. Lone
    BY <2>1 DEF Lone, Disjoint, Fin
  <2>3. InOrder
    BY <2>2, LowInt, LayersInOrder DEF MapInv
  <2> QED BY <2>2, <2>3, StepCover DEF CleanInv
<1>2. ASSUME UNCHANGED vars PROVE CoverInv'
  <2>1. input' = input /\ m' = m /\ pc' = pc
    BY <1>2 DEF vars
  <2>2. Lone
    BY <2>1 DEF Lone, Disjoint, Fin
  <2> QED BY <2>1, <2>2 DEF CleanInv, CoverInv, Cleaning, Entries
<1>3. CASE ZoneInit
  BY <1>2, <1>3 DEF ZoneInit
<1>4. CASE InitPages
  BY <1>2, <1>4 DEF InitPages
<1>5. CASE ReserveBss \/ BssTooLarge
  BY <1>2, <1>5 DEF ReserveBss, BssTooLarge
<1>6. CASE NextTable \/ NextStackPage \/ Stop
  BY <1>2, <1>6 DEF NextTable, NextStackPage, Stop
<1>7. CASE UNCHANGED bvars
  BY <1>2, <1>7 DEF bvars
<1> QED BY <1>1, <1>3, <1>4, <1>5, <1>6, <1>7 DEF BootNext

(* What is usable in the finished map was usable in every entry that has it.    *)
LEMMA UsableAt ==
    ASSUME MapInv, CleanInv, LayersInv, Lone, pc = "done",
           NEW k \in 1 .. Len(m), m[k].type = 1, NEW a \in Int, Spans(m[k], a)
    PROVE  TypesAt(input, a) = {1}
<1>1. /\ Separate(m) /\ Solid(input) /\ SameCover(Entries(input), Entries(m))
      /\ Numbers(m) /\ Numbers(input)
  BY LowInt, NumbersOf DEF LayersInv, MapInv, CleanInv, CoverInv, Cleaning
<1>2. DOMAIN m = 1 .. Len(m) /\ DOMAIN input = 1 .. Len(input)
  BY LenProperties DEF MapInv
<1>3. ASSUME NEW l \in 1 .. Len(m), Spans(m[l], a) PROVE l = k
  <2>1. /\ m[k].base \in Int /\ Fin(m[k]) \in Int /\ m[l].base \in Int /\ Fin(m[l]) \in Int
    BY <1>1 DEF Numbers
  <2>2. m[k].base <= a /\ a < Fin(m[k]) /\ m[l].base <= a /\ a < Fin(m[l])
    BY <1>3 DEF Spans
  <2>3. ~ (Fin(m[k]) <= m[l].base) /\ ~ (Fin(m[l]) <= m[k].base)
    BY <2>1, <2>2
  <2>4. ~ (k < l) /\ ~ (l < k)
    BY <1>1, <2>3 DEF Separate
  <2> QED BY <2>4
<1>4. ASSUME NEW j \in 1 .. Len(input), Spans(input[j], a) PROVE input[j].type = 1
  <2>1. input[j] \in Entries(input)
    BY <1>2 DEF Entries
  <2>2. PICK f \in Entries(m) : Spans(f, a) /\ f.type >= input[j].type
    BY <1>1, <1>4, <2>1 DEF SameCover
  <2>3. PICK l \in 1 .. Len(m) : f = m[l]
    BY <1>2 DEF Entries
  <2>4. l = k
    BY <1>3, <2>2, <2>3
  <2>5. 1 >= input[j].type
    BY <2>2, <2>3, <2>4
  <2>6. input[j].type > 0 /\ input[j].type \in Int
    BY <1>1 DEF Solid, Numbers
  <2> QED BY <2>5, <2>6
<1>5. \E j \in 1 .. Len(input) : Spans(input[j], a)
  <2>1. m[k] \in Entries(m)
    BY <1>2 DEF Entries
  <2>2. PICK e \in Entries(input) : Spans(e, a)
    BY <1>1, <2>1 DEF SameCover
  <2> QED BY <1>2, <2>2 DEF Entries
<1> QED BY <1>2, <1>4, <1>5 DEF TypesAt, Spans

(* What was given was taken from a usable region of the finished map.           *)
LEMMA TakenFrom ==
    ASSUME MapInv, PagesInv, OriginInv, Found, pend # pbgn
    PROVE  \E k \in 1 .. Len(m) : m[k].type = 1 /\ \A a \in pbgn .. pend : Spans(m[k], a)
<1>1. /\ zidx \in 1 .. Len(zones) /\ zones \in Seq(GoodZones) /\ pbgn \in Nat /\ pend \in Nat
  BY DEF PagesInv, Found, Fits
<1>2. pbgn = zones[zidx][1] /\ pend < ZoneEnd(zones[zidx])
  BY DEF OriginInv
<1>3. PICK k \in 1 .. Len(m) : m[k].type = 1 /\ zones[zidx] = Pages!Zone(m[k])
  BY <1>1 DEF OriginInv
<1>4. m[k] \in Regions(Low) /\ m[k].base \in Int /\ Fin(m[k]) \in Int
  BY EntryFacts, LowInt DEF MapInv
<1>5. zones[zidx] \in GoodZones
  BY <1>1, ElementOfSeq
<1>6. ZoneEnd(zones[zidx]) \in Nat
  BY <1>5 DEF GoodZones, ZoneEnd, Fits
<1>7. m[k].base <= pbgn /\ ZoneEnd(zones[zidx]) <= Fin(m[k])
  BY <1>2, <1>3, <1>4, ZoneGood DEF ZoneEnd
<1>8. pend < Fin(m[k])
  BY <1>1, <1>2, <1>4, <1>6, <1>7
<1>9. \A a \in pbgn .. pend : m[k].base <= a /\ a < Fin(m[k])
  BY <1>1, <1>4, <1>7, <1>8
<1> QED BY <1>3, <1>9 DEF Spans

(* If the entries of the BIOS's map do not overlap, no page that one of them    *)
(* reserves is ever handed out (palloc_contiguous.c:126, e820.c:103).           *)
THEOREM UsableOnly == BootSpec => []GivenUsable
<1>1. BootInit => MapInv /\ LayersInv /\ AddedInv /\ CleanInv /\ PagesInv /\ OriginInv
  BY InitMap, InitLayers, InitCover, InitPagesInv, InitOrigin DEF BootInit, CleanInv
<1>2. MapInv /\ LayersInv /\ CleanInv /\ PagesInv /\ OriginInv => GivenUsable
  <2> SUFFICES ASSUME MapInv, LayersInv, CleanInv, PagesInv, OriginInv, RamAbove, Lone,
                      NEW b \in given, NEW a \in Pages!Units(b)
               PROVE  TypesAt(input, a) = {1}
    BY DEF GivenUsable, Lone, Firmware
  <2>1. Found /\ phase = "ready" /\ pc = "done"
    BY DEF RamAbove, Found, OriginInv
  <2>2. a \in pbgn .. pend - 1 /\ pbgn \in Nat /\ pend \in Nat
    <3>1. UNION {Pages!Units(d) : d \in given} = pbgn .. pend - 1
      BY <2>1 DEF PagesInv, Found, Pages!ReportExact
    <3>2. pbgn \in Nat /\ pend \in Nat
      BY <2>1 DEF PagesInv, Found, Fits
    <3> QED BY <3>1, <3>2
  <2>3. a \in pbgn .. pend /\ a \in Int /\ pend # pbgn
    BY <2>2
  <2>4. PICK k \in 1 .. Len(m) : m[k].type = 1 /\ \A x \in pbgn .. pend : Spans(m[k], x)
    BY <2>1, <2>3, TakenFrom
  <2> QED BY <2>1, <2>3, <2>4, UsableAt
<1> QED BY <1>1, <1>2, StepMap, BootLayers, StepClean, StepPages, StepOrigin, PTL DEF BootSpec

-------------------------------------------------------------------------------
(* The kernel, its tables and its stack.                                        *)

(* A block is never empty, and the size of .bss is less than what is reserved.  *)
LEMMA BlockSize ==
    ASSUME NEW order \in Asked
    PROVE  PAGE * 2^order \in Nat /\ PAGE * 2^order > 0 /\ order * PAGE <= PAGE * 2^order
<1> DEFINE p == 2^order
<1>1. PAGE \in Nat /\ PAGE > 0 /\ order \in Nat /\ p \in Nat /\ order < p
  BY BootAssumption DEF Asked
<1> HIDE DEF p
<1>2. p - order \in Nat /\ p - order > 0 /\ p = order + (p - order)
  BY <1>1
<1>3. PAGE * (p - order) \in Nat /\ PAGE * (p - order) > 0
  BY <1>1, <1>2
<1>4. PAGE * p = order * PAGE + PAGE * (p - order)
  BY <1>1
<1>5. order * PAGE \in Nat
  BY <1>1
<1>6. PAGE * p \in Nat /\ PAGE * p > 0 /\ order * PAGE <= PAGE * p
  BY <1>3, <1>4, <1>5
<1> QED BY <1>6 DEF p

(* The block for .bss is the first of its zone, and what was taken for tables   *)
(* and the stack lies behind it, each block at an address of its own.           *)
FramesInv ==
    /\ step \in {"e820", "zones", "pages", "bss"} => pbss = 0 /\ frames = << >>
    /\ step = "bss" => phase = "ready" /\ pend = pbgn
    /\ Found /\ pbss # 0 =>
          /\ bss \in Asked /\ pbgn + PAGE * 2^bss <= pend
          /\ frames \in Seq(Nat)
          /\ \A k \in 1 .. Len(frames) : frames[k] # 0 =>
                pbgn + PAGE * 2^bss <= frames[k] /\ frames[k] < pend
          /\ \A k, l \in 1 .. Len(frames) : k # l /\ frames[k] # 0 => frames[l] # frames[k]

(* palloc_get either moves the end or returns 0.                                *)
LEMMA GetMoves ==
    ASSUME PagesInv, Found, NEW order \in Asked, Get(order)
    PROVE  /\ pbgn' = pbgn /\ phase' = phase /\ Found'
           /\ pbgn \in Nat /\ pend \in Nat /\ pbgn <= pend
           /\ \/ Result(order) = pend /\ pend' = pend + PAGE * 2^order
              \/ Result(order) = 0 /\ pend' = pend
<1>1. Fits(pend) /\ pbgn \in Nat /\ pend \in Nat /\ pbgn <= pend
  BY DEF PagesInv, Found, Fits
<1>2. pbgn' = pbgn /\ phase' = phase
  BY DEF Get, Pages!Alloc, Pages!AllocFails, Pages!vars
<1>3. Found'
  BY <1>2 DEF Found, Pages!NOWHERE
<1>4. CASE Pages!AllocFails(order)
  <2>1. pend' = pend /\ ~ Pages!Room(order)
    BY <1>4 DEF Pages!AllocFails, Pages!vars
  <2> QED BY <1>1, <1>2, <1>3, <2>1 DEF Result
<1>5. CASE Pages!Alloc(order)
  <2>1. Pages!Room(order) /\ pend' = Pages!Wrap(pend + Pages!Size(order))
    BY <1>5 DEF Pages!Alloc, Pages!Take
  <2>2. PAGE * 2^order \in Nat /\ TOP \in Nat /\ pend + PAGE * 2^order < TOP
    BY <1>1, BlockSize, BootAssumption DEF Fits
  <2>3. pend + Pages!Size(order) \in 0 .. TOP - 1 /\ Pages!Size(order) = PAGE * 2^order
    BY <1>1, <2>2 DEF Pages!Size
  <2>4. pend' = pend + PAGE * 2^order
    BY <2>1, <2>3, Modulo
  <2> QED BY <1>1, <1>2, <1>3, <2>1, <2>4 DEF Result
<1> QED BY <1>4, <1>5 DEF Get

(* One more block for a table or the stack.                                     *)
LEMMA NextFrame ==
    ASSUME PagesInv, FramesInv, Get(1), frames' = Append(frames, Result(1)),
           step \notin {"e820", "zones", "pages", "bss"},
           step' \notin {"e820", "zones", "pages", "bss"}, UNCHANGED <<bss, pbss>>
    PROVE  FramesInv'
<1>1. 1 \in Asked
  BY BootAssumption DEF Asked
<1>2. SUFFICES ASSUME Found', pbss # 0
               PROVE  /\ bss \in Asked /\ pbgn' + PAGE * 2^bss <= pend'
                      /\ frames' \in Seq(Nat)
                      /\ \A k \in 1 .. Len(frames') : frames'[k] # 0 =>
                            pbgn' + PAGE * 2^bss <= frames'[k] /\ frames'[k] < pend'
                      /\ \A k, l \in 1 .. Len(frames') :
                            k # l /\ frames'[k] # 0 => frames'[l] # frames'[k]
  BY DEF FramesInv, Asked
<1>3. Found
  <2>1. phase' = phase /\ pbgn' = pbgn
    BY DEF Get, Pages!Alloc, Pages!AllocFails, Pages!vars
  <2> QED BY <1>2, <2>1 DEF Found, Pages!NOWHERE
<1> DEFINE r == Result(1)
           low == pbgn + PAGE * 2^bss
           N == Len(frames)
<1>4. /\ pbgn' = pbgn /\ pbgn \in Nat /\ pend \in Nat
      /\ \/ r = pend /\ pend' = pend + PAGE * 2^1
         \/ r = 0 /\ pend' = pend
  BY <1>1, <1>3, GetMoves
<1>5. /\ bss \in Asked /\ low <= pend /\ frames \in Seq(Nat)
      /\ \A k \in 1 .. N : frames[k] # 0 => low <= frames[k] /\ frames[k] < pend
      /\ \A k, l \in 1 .. N : k # l /\ frames[k] # 0 => frames[l] # frames[k]
  BY <1>2, <1>3 DEF FramesInv
<1>6. PAGE * 2^1 \in Nat /\ PAGE * 2^1 > 0 /\ PAGE * 2^bss \in Nat
  BY <1>1, <1>5, BlockSize
<1>7. low \in Nat
  BY <1>4, <1>6
<1>8. low <= pend' /\ pend <= pend' /\ pend' \in Nat /\ r \in Nat
      /\ (r # 0 => r = pend /\ pend < pend')
  <2> HIDE DEF r, low
  <2>1. CASE r = pend /\ pend' = pend + PAGE * 2^1
    BY <1>4, <1>5, <1>6, <1>7, <2>1
  <2>2. CASE r = 0 /\ pend' = pend
    BY <1>4, <1>5, <1>7, <2>2
  <2> QED BY <1>4, <2>1, <2>2
<1> HIDE DEF r, low
<1>9. /\ frames' \in Seq(Nat) /\ Len(frames') = N + 1 /\ N \in Nat
      /\ frames'[N + 1] = r /\ \A k \in 1 .. N : frames'[k] = frames[k] /\ frames[k] \in Nat
  <2>1. frames' = Append(frames, r)
    BY DEF r
  <2> QED BY <1>5, <1>8, <2>1, AppendProperties, LenProperties, ElementOfSeq
<1> HIDE DEF N
<1>10. \A k \in 1 .. N + 1 : k \in 1 .. N \/ k = N + 1
  BY <1>9
<1>11. ASSUME NEW k \in 1 .. N + 1, frames'[k] # 0 PROVE low <= frames'[k] /\ frames'[k] < pend'
  <2>1. CASE k \in 1 .. N
    <3>1. frames'[k] = frames[k] /\ frames[k] \in Nat /\ low <= frames[k] /\ frames[k] < pend
      BY <1>5, <1>9, <1>11, <2>1
    <3>2. \A x, y, z \in Nat : x < y /\ y <= z => x < z
      OBVIOUS
    <3>3. frames'[k] < pend'
      BY ONLY <1>4, <1>8, <3>1, <3>2
    <3> QED BY ONLY <3>1, <3>3
  <2>2. CASE k = N + 1
    BY <1>5, <1>8, <1>9, <1>11, <2>2
  <2> QED BY <1>10, <2>1, <2>2
<1>12. ASSUME NEW k \in 1 .. N + 1, NEW l \in 1 .. N + 1, k # l, frames'[k] # 0
       PROVE  frames'[l] # frames'[k]
  <2>1. \A x \in 1 .. N : frames'[x] # 0 => frames'[x] < pend /\ frames'[x] \in Nat
    BY <1>5, <1>9
  <2>2. CASE k \in 1 .. N /\ l \in 1 .. N
    BY <1>5, <1>9, <1>12, <2>2
  <2>3. CASE k = N + 1 /\ l \in 1 .. N
    <3>1. r = pend /\ frames'[k] = pend /\ pend # 0 /\ pend \in Nat
      BY <1>4, <1>8, <1>9, <1>12, <2>3
    <3>2. frames'[l] # 0 => frames'[l] < pend /\ frames'[l] \in Nat
      BY <2>1, <2>3
    <3>3. \A x \in Nat : x < pend => x # pend
      BY <3>1
    <3> QED BY ONLY <3>1, <3>2, <3>3
  <2>4. CASE k \in 1 .. N /\ l = N + 1
    <3>1. frames'[k] < pend /\ frames'[k] \in Nat /\ frames'[l] = r
      BY <1>9, <1>12, <2>1, <2>4
    <3>2. r = 0 \/ r = pend
      BY <1>8
    <3>3. \A x \in Nat : x < pend => x # pend
      BY <1>4
    <3> QED BY ONLY <1>12, <3>1, <3>2, <3>3
  <2> QED BY <1>10, <1>12, <2>2, <2>3, <2>4
<1> QED BY <1>4, <1>5, <1>8, <1>9, <1>11, <1>12 DEF low

LEMMA StepFrames == PagesInv /\ OriginInv /\ FramesInv /\ [BootNext]_bvars => FramesInv'
<1> SUFFICES ASSUME PagesInv, OriginInv, FramesInv, [BootNext]_bvars PROVE FramesInv'
  OBVIOUS
<1>1. ASSUME step \in {"e820", "zones", "pages"}, step' \in {"e820", "zones", "pages"},
             UNCHANGED <<pbss, frames>>
      PROVE  FramesInv'
  BY <1>1 DEF FramesInv
<1>2. ASSUME step' \notin {"e820", "zones", "pages", "bss"},
             UNCHANGED <<pvars, bss, pbss, frames>>
      PROVE  FramesInv'
  BY <1>2 DEF FramesInv, Found, pvars, Pages!NOWHERE, Asked
<1>3. CASE CleanMap
  BY <1>1, <1>3 DEF CleanMap
<1>4. CASE ZoneInit
  BY <1>1, <1>4 DEF ZoneInit
<1>5. CASE InitPages
  <2>1. /\ step = "pages" /\ pbss' = pbss /\ frames' = frames /\ pbss = 0 /\ frames = << >>
    BY <1>5 DEF InitPages, FramesInv
  <2>2. CASE Pages!Skip \/ Pages!Register
    <3>1. step' # "bss"
      BY <1>5, <2>1, <2>2 DEF InitPages, Pages!Skip, Pages!Register
    <3> QED BY <2>1, <3>1 DEF FramesInv
  <2>3. CASE Pages!Choose
    <3>1. phase' = "ready" /\ pend' = pbgn'
      BY <2>3 DEF Pages!Choose
    <3> QED BY <2>1, <3>1 DEF FramesInv
  <2> QED BY <1>5, <2>2, <2>3 DEF InitPages
<1>6. CASE ReserveBss
  <2>1. /\ bss \in Asked /\ Get(bss) /\ step = "bss" /\ step' = "tables" /\ bss' = bss
        /\ pbss' = Result(bss) /\ frames' = frames /\ frames = << >>
    BY <1>6, BootAssumption DEF ReserveBss, PagesInv, FramesInv, Asked
  <2>2. ASSUME Found', pbss' # 0
        PROVE  pbgn' + PAGE * 2^bss <= pend'
    <3>1. Found
      <4>1. phase' = phase /\ pbgn' = pbgn
        BY <2>1 DEF Get, Pages!Alloc, Pages!AllocFails, Pages!vars
      <4> QED BY <2>2, <4>1 DEF Found, Pages!NOWHERE
    <3>2. /\ pbgn' = pbgn /\ pbgn \in Nat /\ pend \in Nat
          /\ \/ Result(bss) = pend /\ pend' = pend + PAGE * 2^bss
             \/ Result(bss) = 0 /\ pend' = pend
      BY <2>1, <3>1, GetMoves
    <3>3. pend = pbgn /\ pend' = pend + PAGE * 2^bss
      BY <2>1, <2>2, <3>2 DEF FramesInv
    <3>4. PAGE * 2^bss \in Nat
      BY <2>1, BlockSize
    <3> QED BY <3>2, <3>3, <3>4
  <2>3. frames' \in Seq(Nat) /\ 1 .. Len(frames') = {}
    BY <2>1
  <2> QED BY <2>1, <2>2, <2>3 DEF FramesInv, Asked
<1>7. CASE BssTooLarge
  BY <1>2, <1>7 DEF BssTooLarge
<1>8. CASE NextTable
  BY <1>8, NextFrame DEF NextTable
<1>9. CASE NextStackPage
  BY <1>9, NextFrame DEF NextStackPage
<1>10. CASE Stop
  BY <1>2, <1>10 DEF Stop
<1>11. CASE UNCHANGED bvars
  BY <1>11 DEF FramesInv, Found, bvars, pvars, Pages!NOWHERE, Asked
<1> QED BY <1>3, <1>4, <1>5, <1>6, <1>7, <1>8, <1>9, <1>10, <1>11 DEF BootNext

(* The block for .bss begins behind the kernel's image.                         *)
LEMMA BehindImage ==
    ASSUME MapInv, LayersInv, AddedInv, CleanInv, PagesInv, OriginInv, Lone,
           Found, pend # pbgn, StarterSize <= ImageSize
    PROVE  ImageSize \in Nat /\ kb + ImageSize <= pbgn
<1> DEFINE k == Len(input) - 1
           e == input[k]
           s == e.size
<1>1. /\ k \in 1 .. Len(input) /\ DOMAIN input = 1 .. Len(input)
      /\ e.base = KernelBase /\ s \in Nat /\ e.type = 5
  BY LenProperties DEF MapInv, AddedInv, ReservedType
<1>2. pbgn \in Nat /\ pend \in Nat /\ pbgn <= pend /\ kb < pbgn /\ pc = "done"
  <2>1. step # "e820"
    BY DEF OriginInv, Found
  <2> QED BY <2>1 DEF PagesInv, OriginInv, Found, Fits
<1>3. pbgn \in pbgn .. pend
  BY <1>2
<1>4. PICK j \in 1 .. Len(m) : m[j].type = 1 /\ \A a \in pbgn .. pend : Spans(m[j], a)
  BY TakenFrom
<1>5. TypesAt(input, pbgn) = {1}
  BY <1>2, <1>3, <1>4, UsableAt
<1>6. ~ (e.base <= pbgn /\ pbgn < Fin(e))
  <2>1. SUFFICES ASSUME e.base <= pbgn, pbgn < Fin(e) PROVE FALSE
    OBVIOUS
  <2>2. input[k].type \in TypesAt(input, pbgn)
    BY <1>1, <2>1 DEF TypesAt
  <2> QED BY <1>1, <1>5, <2>2
<1>7. ImageSize = s \div 2
  BY DEF ImageSize
<1>8. Fin(e) = KernelBase + s
  BY <1>1 DEF Fin
<1> HIDE DEF e, s
<1>9. s \div 2 \in Nat /\ 2 * (s \div 2) <= s
  BY <1>1
<1>10. KernelBase \in Nat /\ StarterSize \in Nat /\ kb = KernelBase + StarterSize
  BY MapAssumption, BootAssumption DEF kb
<1>11. KernelBase + s <= pbgn
  BY <1>1, <1>2, <1>6, <1>8, <1>10
<1>12. \A x, y, z, w \in Nat : x <= y /\ z + (2 * y) <= w => z + x + y <= w
  OBVIOUS
<1>13. KernelBase + 2 * (s \div 2) <= pbgn
  BY <1>1, <1>2, <1>9, <1>10, <1>11
<1> QED BY <1>2, <1>7, <1>9, <1>10, <1>12, <1>13

(* If the entries of the BIOS's map do not overlap and the starter is no longer *)
(* than the image, no table and no page of the stack is in the image or in the  *)
(* .bss behind it, and each is a block of its own (kmain.c:230).                *)
THEOREM KernelKeptApart == BootSpec => []KernelApart
<1> DEFINE All == /\ MapInv /\ LayersInv /\ AddedInv /\ CleanInv
                  /\ PagesInv /\ OriginInv /\ FramesInv
<1>1. BootInit => All
  <2>1. BootInit => FramesInv
    BY DEF BootInit, FramesInv, Found
  <2> QED BY <2>1, InitMap, InitLayers, InitCover, InitPagesInv, InitOrigin DEF BootInit, CleanInv
<1>2. All /\ [BootNext]_bvars => All'
  BY StepMap, BootLayers, StepClean, StepPages, StepOrigin, StepFrames
<1>3. All => KernelApart
  <2> SUFFICES ASSUME All, RamAbove, pbss # 0, Lone, StarterSize <= ImageSize,
                      NEW k \in DOMAIN frames, frames[k] # 0
               PROVE  /\ Block(frames[k]) \cap (kb .. KernelEnd - 1) = {}
                      /\ \A l \in DOMAIN frames \ {k} : frames[l] # frames[k]
    BY DEF KernelApart, Lone, Firmware
  <2> DEFINE f == frames[k]
  <2>1. Found
    BY DEF RamAbove, Found
  <2>2. /\ bss \in Asked /\ pbgn + PAGE * 2^bss <= pend /\ frames \in Seq(Nat)
        /\ \A l \in 1 .. Len(frames) : frames[l] # 0 => pbgn + PAGE * 2^bss <= frames[l]
        /\ \A j, l \in 1 .. Len(frames) : j # l /\ frames[j] # 0 => frames[l] # frames[j]
    BY <2>1 DEF FramesInv
  <2>3. DOMAIN frames = 1 .. Len(frames) /\ k \in 1 .. Len(frames) /\ f \in Nat
    BY <2>2, LenProperties, ElementOfSeq
  <2>4. pbgn \in Nat /\ pend \in Nat
    BY <2>1 DEF PagesInv, Found, Fits
  <2>5. PAGE * 2^bss \in Nat /\ PAGE * 2^bss > 0 /\ bss * PAGE <= PAGE * 2^bss /\ bss * PAGE \in Nat
    BY <2>2, BlockSize, BootAssumption DEF Asked
  <2>6. pend # pbgn
    BY <2>2, <2>4, <2>5
  <2>7. ImageSize \in Nat /\ kb + ImageSize <= pbgn
    BY <2>1, <2>6, BehindImage
  <2>8. kb \in Nat
    BY MapAssumption, BootAssumption DEF kb
  <2>9. pbgn + PAGE * 2^bss <= f
    BY <2>2, <2>3
  <2>10. KernelEnd \in Nat /\ KernelEnd <= f
    <3>1. KernelEnd = kb + ImageSize + bss * PAGE
      BY DEF KernelEnd
    <3> HIDE DEF f
    <3> QED BY <2>3, <2>4, <2>5, <2>7, <2>8, <2>9, <3>1
  <2>11. Block(f) \cap (kb .. KernelEnd - 1) = {}
    <3>1. PAGE \in Nat
      BY BootAssumption
    <3> HIDE DEF f
    <3> QED BY <2>3, <2>8, <2>10, <3>1 DEF Block
  <2> QED BY <2>2, <2>3, <2>11
<1> HIDE DEF All
<1>4. BootSpec => []All
  BY <1>1, <1>2, PTL DEF BootSpec
<1> QED BY <1>3, <1>4, PTL

================================================================================
