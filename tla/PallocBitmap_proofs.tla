------------------------ MODULE PallocBitmap_proofs ------------------------
(***************************************************************************)
(* Proofs about the bitmap allocator for every number of orders and every  *)
(* set of zones.  The inductive invariant is IInv: the bitmaps of all      *)
(* orders agree with the bitmap of single pages (BitmapsAgree), which in   *)
(* turn holds exactly the pages of the live blocks and the reserved ones   *)
(* (NothingLost).  It needs the counter of _page_reserve to start at 0;    *)
(* the weaker WInv, which gives LiveDisjoint, does not.                    *)
(***************************************************************************)
EXTENDS PallocBitmap, NatLemmas

(* Every live block is one of the blocks of some zone.                     *)
LiveInZone == \A x \in live : \E z \in Zones : x[1] \in Blocks(z, x[2])

(* The pages that _page_reserve marked are in no live block.              *)
ReservedKept ==
    \A x \in live, z \in Zones : Pages(x[1], x[2]) \cap Reserved(z) = {}

IInv ==
    /\ TypeOK
    /\ BitmapsAgree
    /\ LiveInZone
    /\ LiveDisjoint
    /\ ReservedKept
    /\ NothingLost

(* The new value of zone z's bitmaps after alloc and after free.           *)
Marked(z, a, j) ==
    [m \in Orders |-> bmap[z][m] \cup Touched(a, j, MarkAbove(z, a, j), m)]
Cleared(z, a, j) ==
    [m \in Orders |-> bmap[z][m] \ Touched(a, j, ClearAbove(z, a, j), m)]

(* The bitmaps bm of a zone agree.                                         *)
Agree(z, bm) ==
    \A m \in Orders : \A b \in Blocks(z, m) :
        b \in bm[m] <=> Pages(b, m) \cap bm[0] # {}

----------------------------------------------------------------------------
(* Naturally aligned blocks: rounding, alignment, the block around a page, *)
(* and which blocks lie in a zone.  Nothing here speaks of the state.      *)

(* RoundDown is the largest multiple of p that does not exceed a.          *)
LEMMA RoundDownFacts ==
    ASSUME NEW a \in Nat, NEW p \in Nat \ {0}
    PROVE  /\ RoundDown(a, p) \in Nat
           /\ RoundDown(a, p) % p = 0
           /\ RoundDown(a, p) <= a
           /\ a < RoundDown(a, p) + p
<1>1. /\ a \div p \in Nat
      /\ a % p \in 0 .. (p - 1)
      /\ a = ((a \div p) * p) + (a % p)
  BY DivMod
<1>2. ((a \div p) * p) % p = 0
  BY <1>1, MulMod
<1> DEFINE r == (a \div p) * p
           t == a % p
<1>3. r \in Nat /\ t \in 0 .. (p - 1) /\ a = r + t
  BY <1>1, MulLess
<1> HIDE DEF r, t
<1>4. r <= a /\ a < r + p
  BY <1>3
<1> QED BY <1>2, <1>3, <1>4 DEF r, RoundDown

(* The size of an order divides the size of every higher order.            *)
LEMMA SizeDivides ==
    \A j \in Orders : \A i \in 0 .. j :
        \E q \in Nat \ {0} : BlockPages[j] = q * BlockPages[i]
<1> DEFINE Bad == {j \in Orders : \E i \in 0 .. j :
                      ~ \E q \in Nat \ {0} : BlockPages[j] = q * BlockPages[i]}
<1>1. SUFFICES ASSUME Bad # {} PROVE FALSE
  OBVIOUS
<1>2. PICK j \in Bad : \A m \in Bad : j <= m
  <2>1. Bad \subseteq Nat
    BY OrderAssumption DEF Orders
  <2> HIDE DEF Bad
  <2> QED BY <2>1, <1>1, LeastNat
<1>3. PICK i \in 0 .. j : ~ \E q \in Nat \ {0} : BlockPages[j] = q * BlockPages[i]
  BY <1>2
<1>4. j \in 0 .. MAX_ORDER - 1 /\ MAX_ORDER \in Nat
  BY OrderAssumption DEF Orders
<1>5. i # j
  <2>1. BlockPages[j] \in Nat \ {0}
    BY OrderAssumption
  <2> QED BY <1>3, <2>1
<1>6. j - 1 \in Orders /\ i \in 0 .. (j - 1) /\ i \in Orders /\ j > 0
  BY <1>4, <1>5, OrderAssumption DEF Orders
<1>7. j - 1 \notin Bad
  BY <1>2, <1>4, <1>6
<1>8. PICK q \in Nat \ {0} : BlockPages[j - 1] = q * BlockPages[i]
  BY <1>6, <1>7
<1>9. BlockPages[j] = (2 * q) * BlockPages[i] /\ 2 * q \in Nat \ {0}
  <2>1. BlockPages[i] \in Nat \ {0}
    BY <1>6, OrderAssumption
  <2>2. BlockPages[j] = 2 * BlockPages[j - 1]
    BY <1>6, OrderAssumption
  <2> QED BY <2>1, <2>2, <1>8
<1> QED BY <1>9, <1>3

----------------------------------------------------------------------------
(* Alignment.                                                              *)

LEMMA SizeType == \A j \in Orders : BlockPages[j] \in Nat \ {0} /\ j \in Nat
BY OrderAssumption DEF Orders

LEMMA Multiple ==
    ASSUME NEW j \in Orders, NEW a \in Nat
    PROVE  IsAligned(a, j) <=> \E q \in Nat : a = q * BlockPages[j]
BY SizeType, ModZero DEF IsAligned

(* AlignDown is the start of an aligned block that contains the page.      *)
LEMMA AlignDownBlock ==
    ASSUME NEW j \in Orders, NEW a \in Nat
    PROVE  /\ AlignDown(a, j) \in Nat
           /\ IsAligned(AlignDown(a, j), j)
           /\ a \in Pages(AlignDown(a, j), j)
<1> DEFINE r == RoundDown(a, BlockPages[j])
<1>1. BlockPages[j] \in Nat \ {0}
  BY SizeType
<1>2. /\ r \in Nat /\ r % BlockPages[j] = 0
      /\ r <= a /\ a < r + BlockPages[j]
  BY <1>1, RoundDownFacts
<1> HIDE DEF r
<1>3. a \in r .. r + BlockPages[j] - 1
  BY <1>1, <1>2
<1> QED BY <1>2, <1>3 DEF AlignDown, IsAligned, Pages, r

(* Aligned blocks that overlap are nested.                                 *)
LEMMA Nested ==
    ASSUME NEW j \in Orders, NEW i \in 0 .. j,
           NEW x \in Nat, IsAligned(x, i), NEW y \in Nat, IsAligned(y, j),
           Pages(x, i) \cap Pages(y, j) # {}
    PROVE  /\ y <= x /\ x + BlockPages[i] <= y + BlockPages[j]
           /\ x \in Pages(y, j)
           /\ Pages(x, i) \subseteq Pages(y, j)
<1> DEFINE p == BlockPages[i]
<1>1. i \in Orders /\ p \in Nat \ {0} /\ BlockPages[j] \in Nat \ {0}
  <2>1. i \in Orders
    BY OrderAssumption DEF Orders
  <2> QED BY <2>1, SizeType
<1>2. PICK q \in Nat \ {0} : BlockPages[j] = q * p
  BY SizeDivides
<1>3. PICK u \in Nat : x = u * p
  BY <1>1, Multiple
<1>4. PICK v \in Nat : y = v * BlockPages[j]
  BY Multiple
<1>5. y = (v * q) * p /\ v * q \in Nat
  BY <1>1, <1>2, <1>4
<1>6. y + BlockPages[j] = (v * q + q) * p /\ v * q + q \in Nat
  BY <1>1, <1>2, <1>5
<1> HIDE DEF p
<1>7. x < y + BlockPages[j] /\ y < x + p
  BY <1>1 DEF Pages, p
<1>8. u < v * q + q
  BY <1>1, <1>3, <1>6, <1>7, MulLess
<1>9. (u + 1) * p = x + p
  BY <1>1, <1>3
<1>10. v * q < u + 1
  BY <1>1, <1>5, <1>7, <1>9, MulLess
<1>11. y <= x
  BY <1>1, <1>3, <1>5, <1>10, MulLess
<1>12. x + p <= y + BlockPages[j]
  BY <1>1, <1>3, <1>6, <1>8, MulLess
<1> QED BY <1>1, <1>11, <1>12 DEF Pages, p

(* The aligned block of order j that contains page a is AlignDown(a, j).   *)
LEMMA AlignDownUnique ==
    ASSUME NEW j \in Orders, NEW a \in Nat, NEW x \in Nat,
           IsAligned(x, j), a \in Pages(x, j)
    PROVE  x = AlignDown(a, j)
<1>1. AlignDown(a, j) \in Nat /\ IsAligned(AlignDown(a, j), j)
      /\ a \in Pages(AlignDown(a, j), j)
  BY AlignDownBlock
<1>2. j \in 0 .. j
  BY SizeType
<1>3. x <= AlignDown(a, j) /\ AlignDown(a, j) <= x
  BY <1>1, <1>2, Nested
<1> QED BY <1>1, <1>3

LEMMA AlignDownAligned ==
    ASSUME NEW j \in Orders, NEW a \in Nat, IsAligned(a, j)
    PROVE  AlignDown(a, j) = a
<1>1. a \in Pages(a, j)
  BY SizeType DEF Pages
<1> QED BY <1>1, AlignDownUnique

(* The blocks of order i in a block of order i + 1 are its two halves.     *)
LEMMA Halves ==
    ASSUME NEW j \in Orders, j > 0, NEW b \in Nat, IsAligned(b, j),
           NEW h \in Nat, IsAligned(h, j - 1), h \in Pages(b, j)
    PROVE  h \in {b, b + BlockPages[j - 1]}
<1> DEFINE p == BlockPages[j - 1]
<1>1. j - 1 \in Orders /\ p \in Nat \ {0} /\ BlockPages[j] = 2 * p
  <2>1. j - 1 \in Orders
    BY SizeType, OrderAssumption DEF Orders
  <2> QED BY <2>1, SizeType, OrderAssumption
<1>2. PICK u \in Nat : h = u * p
  BY <1>1, Multiple
<1>3. PICK v \in Nat : b = v * BlockPages[j]
  BY Multiple
<1>4. b = (2 * v) * p /\ 2 * v \in Nat
  BY <1>1, <1>3
<1> HIDE DEF p
<1>5. b <= h /\ h < b + 2 * p
  BY <1>1 DEF Pages
<1>6. b + 2 * p = (2 * v + 2) * p
  BY <1>1, <1>4
<1>7. u < 2 * v + 2
  BY <1>1, <1>2, <1>4, <1>5, <1>6, MulLess
<1>8. 2 * v <= u
  BY <1>1, <1>2, <1>4, <1>5, MulLess
<1>9. u = 2 * v \/ u = 2 * v + 1
  BY <1>7, <1>8
<1>10. (2 * v + 1) * p = b + p
  BY <1>1, <1>4
<1> QED BY <1>1, <1>2, <1>4, <1>9, <1>10 DEF p

----------------------------------------------------------------------------
(* The blocks of a zone.                                                   *)

LEMMA ZoneType ==
    ASSUME NEW z \in Zones
    PROVE  ZoneBase[z] \in Nat \ {0} /\ ZoneSize[z] \in Nat /\ z \in Nat \ {0}
BY ZoneAssumption DEF Zones

(* An aligned block has a bit exactly when it lies inside the zone.        *)
LEMMA BlocksAre ==
    ASSUME NEW z \in Zones, NEW j \in Orders, NEW a \in Nat, IsAligned(a, j)
    PROVE  /\ a \in Blocks(z, j) <=> InZone(z, a, j)
           /\ a \in Blocks(z, j) <=>
                 /\ ZoneBase[z] <= a
                 /\ a + BlockPages[j] <= ZoneBase[z] + ZoneSize[z]
<1> DEFINE p == BlockPages[j]
           x == ZoneBase[z]
           y == ZoneBase[z] + ZoneSize[z]
           b == RoundUp(x, p)
           e == RoundDown(y, p)
<1>1. p \in Nat \ {0} /\ x \in Nat /\ y \in Nat /\ x + p - 1 \in Nat
  BY SizeType, ZoneType
<1>2. b \in Nat /\ b % p = 0 /\ x <= b /\ b < x + p
  <2> HIDE DEF p, x
  <2> QED BY <1>1, RoundDownFacts DEF RoundUp
<1>3. e \in Nat /\ e % p = 0 /\ e <= y /\ y < e + p
  <2> HIDE DEF p, y
  <2> QED BY <1>1, RoundDownFacts
<1>4. PICK q \in Nat : a = q * p
  BY Multiple
<1> HIDE DEF p, x, y, b, e
<1>5. PICK u \in Nat : b = u * p
  BY <1>1, <1>2, ModZero
<1>6. PICK v \in Nat : e = v * p
  BY <1>1, <1>3, ModZero
<1>7. ZoneBgn(z, j) = b
  BY DEF ZoneBgn, b, x, p
<1>8. b < e => ZoneEnd(z, j) = e
  <2>1. SUFFICES ASSUME b < e PROVE ZoneEnd(z, j) = e
    OBVIOUS
  <2>2. BlockCount(z, j) = (e - b) \div p
    BY <2>1, <1>2, <1>3 DEF BlockCount, b, e, x, y, p
  <2>3. u < v
    BY <2>1, <1>1, <1>5, <1>6, MulLess
  <2>4. e - b = (v - u) * p /\ v - u \in Nat
    BY <2>3, <1>1, <1>5, <1>6
  <2>5. (e - b) \div p = v - u
    BY <2>4, <1>1, MulMod
  <2>6. ZoneEnd(z, j) = b + (v - u) * p
    BY <2>2, <2>5, <1>7 DEF ZoneEnd, p
  <2> QED BY <2>4, <2>6, <1>2, <1>3
<1>9. ~ (b < e) => ZoneEnd(z, j) = b
  <2>1. SUFFICES ASSUME ~ (b < e) PROVE ZoneEnd(z, j) = b
    OBVIOUS
  <2>2. BlockCount(z, j) = 0
    BY <2>1, <1>2, <1>3 DEF BlockCount, b, e, x, y, p
  <2> QED BY <2>2, <1>1, <1>2, <1>7 DEF ZoneEnd, p
<1>10. x <= a => b <= a
  <2>1. SUFFICES ASSUME x <= a, a < b PROVE FALSE
    BY <1>2
  <2>2. a + p <= b
    BY <2>1, <1>1, <1>4, <1>5, MulLess
  <2> QED BY <2>1, <2>2, <1>1, <1>2
<1>11. a + p <= y <=> a < e
  <2>1. ASSUME a < e PROVE a + p <= e
    BY <2>1, <1>1, <1>4, <1>6, MulLess
  <2>2. ASSUME e <= a PROVE ~ (a + p <= y)
    BY <2>2, <1>1, <1>3
  <2> QED BY <2>1, <2>2, <1>1, <1>3
<1>12. InZone(z, a, j) <=> x <= a /\ a + p <= y
  BY <1>1, <1>2, <1>3, <1>7, <1>8, <1>9, <1>10, <1>11 DEF InZone
<1>13. a \in Blocks(z, j) <=> InZone(z, a, j)
  <2>1. ZoneBgn(z, j) \in Nat /\ ZoneEnd(z, j) \in Nat
    BY <1>2, <1>3, <1>7, <1>8, <1>9
  <2> QED BY <2>1 DEF Blocks, InZone
<1> QED BY <1>12, <1>13 DEF x, y, p

LEMMA BlocksType ==
    ASSUME NEW z \in Zones, NEW j \in Orders
    PROVE  /\ Blocks(z, j) \subseteq Nat
           /\ \A b \in Blocks(z, j) : IsAligned(b, j)
<1>1. /\ BlockPages[j] \in Nat \ {0}
      /\ ZoneBase[z] + BlockPages[j] - 1 \in Nat
  BY SizeType, ZoneType
<1>2. ZoneBgn(z, j) \in Nat
  BY <1>1, RoundDownFacts DEF ZoneBgn, RoundUp
<1> QED BY <1>2 DEF Blocks

(* An aligned block inside a block of the zone is a block of the zone.     *)
LEMMA InnerBlock ==
    ASSUME NEW z \in Zones, NEW j \in Orders, NEW b \in Blocks(z, j),
           NEW i \in 0 .. j, NEW h \in Nat, IsAligned(h, i),
           Pages(h, i) \cap Pages(b, j) # {}
    PROVE  /\ i \in Orders
           /\ h \in Blocks(z, i)
           /\ InZone(z, h, i)
           /\ Pages(h, i) \subseteq Pages(b, j)
<1>1. b \in Nat /\ IsAligned(b, j)
  BY BlocksType
<1>2. i \in Orders
  BY OrderAssumption DEF Orders
<1>3. /\ b <= h /\ h + BlockPages[i] <= b + BlockPages[j]
      /\ Pages(h, i) \subseteq Pages(b, j)
  BY <1>1, Nested
<1>4. ZoneBase[z] <= b /\ b + BlockPages[j] <= ZoneBase[z] + ZoneSize[z]
  BY <1>1, BlocksAre
<1>5. ZoneBase[z] <= h /\ h + BlockPages[i] <= ZoneBase[z] + ZoneSize[z]
  BY <1>1, <1>2, <1>3, <1>4, SizeType, ZoneType
<1> QED BY <1>2, <1>3, <1>5, BlocksAre

(* Every page is a block of order 0.                                       *)
LEMMA PageBlocks ==
    /\ 0 \in Orders /\ BlockPages[0] = 1
    /\ \A p \in Nat : IsAligned(p, 0) /\ Pages(p, 0) = {p} /\ AlignDown(p, 0) = p
<1>1. 0 \in Orders /\ BlockPages[0] = 1
  BY OrderAssumption DEF Orders
<1>2. ASSUME NEW p \in Nat PROVE IsAligned(p, 0) /\ Pages(p, 0) = {p}
  BY <1>1, <1>2 DEF IsAligned, Pages
<1> QED BY <1>1, <1>2, AlignDownAligned

(* The pages of a block of the zone are in the zone, so two blocks of      *)
(* different zones have no page in common.                                 *)
LEMMA ZonesApart ==
    ASSUME NEW y \in Zones, NEW z \in Zones, NEW i \in Orders, NEW j \in Orders,
           NEW a \in Blocks(y, i), NEW b \in Blocks(z, j),
           Pages(a, i) \cap Pages(b, j) # {}
    PROVE  y = z
<1>1. a \in Nat /\ b \in Nat /\ IsAligned(a, i) /\ IsAligned(b, j)
  BY BlocksType
<1>2. /\ ZoneBase[y] <= a /\ a + BlockPages[i] <= ZoneBase[y] + ZoneSize[y]
      /\ ZoneBase[z] <= b /\ b + BlockPages[j] <= ZoneBase[z] + ZoneSize[z]
  BY <1>1, BlocksAre
<1>3. PICK p : p \in Pages(a, i) /\ p \in Pages(b, j)
  OBVIOUS
<1>4. /\ p \in Int
      /\ ZoneBase[y] <= p /\ p < ZoneBase[y] + ZoneSize[y]
      /\ ZoneBase[z] <= p /\ p < ZoneBase[z] + ZoneSize[z]
  BY <1>1, <1>2, <1>3, SizeType, ZoneType DEF Pages
<1> QED BY <1>4, ZoneType, ZoneAssumption

(* Inside(a, j, m) is the blocks of order m that share a page with block   *)
(* a of order j, and together they are the pages of the block.             *)
LEMMA InsideIs ==
    ASSUME NEW j \in Orders, NEW m \in 0 .. j, NEW a \in Nat, IsAligned(a, j),
           NEW b \in Nat, IsAligned(b, m)
    PROVE  /\ b \in Inside(a, j, m) <=> Pages(b, m) \cap Pages(a, j) # {}
           /\ b \in Inside(a, j, m) => Pages(b, m) \subseteq Pages(a, j)
           /\ Inside(a, j, 0) = Pages(a, j)
<1>1. m \in Orders
  BY OrderAssumption DEF Orders
<1>2. b \in Pages(b, m)
  BY <1>1, SizeType DEF Pages
<1>3. b \in Inside(a, j, m) <=> b \in Pages(a, j)
  BY DEF Inside, Pages
<1>4. Inside(a, j, 0) = Pages(a, j)
  BY PageBlocks, SizeType DEF Inside, Pages
<1> QED BY <1>2, <1>3, <1>4, Nested

----------------------------------------------------------------------------
(* Reserved pages.                                                         *)

LEMMA ReservedBlocks ==
    ASSUME NEW z \in Zones
    PROVE  Reserved(z) \subseteq Blocks(z, 0) /\ Reserved(z) \subseteq Nat
<1>1. SUFFICES ASSUME NEW p \in Reserved(z) PROVE p \in Nat /\ p \in Blocks(z, 0)
  OBVIOUS
<1>2. p \in Nat /\ p >= ZoneBgn(z, 0) /\ p + 1 < ZoneEnd(z, 0)
  BY HandoverAssumption DEF Reserved, ReservePages, ReserveIn
<1>3. ZoneEnd(z, 0) \in Int
  BY SizeType, ZoneType, PageBlocks
     DEF ZoneEnd, ZoneBgn, BlockCount, RoundUp, RoundDown
<1>4. InZone(z, p, 0)
  BY <1>2, <1>3 DEF InZone
<1> QED BY <1>2, <1>4, PageBlocks, BlocksAre

(* A reserved page is reserved in the bitmaps of one zone only.            *)
LEMMA ReservedOnce ==
    ASSUME NEW y \in Zones, NEW z \in Zones, NEW j \in Orders,
           NEW a \in Blocks(y, j), Pages(a, j) \cap Reserved(z) # {}
    PROVE  y = z
<1>1. PICK p \in Reserved(z) : p \in Pages(a, j)
  OBVIOUS
<1>2. p \in Blocks(z, 0) /\ p \in Nat
  BY ReservedBlocks
<1>3. Pages(a, j) \cap Pages(p, 0) # {}
  BY <1>1, <1>2, PageBlocks
<1> QED BY <1>2, <1>3, PageBlocks, ZonesApart

(* With the counter starting at 0, _page_reserve marks the page and every  *)
(* block of the zone around it.                                            *)
LEMMA ReserveMarks ==
    ASSUME NEW z \in Zones, NEW m \in Orders, NEW p \in Reserved(z)
    PROVE  m \in ReserveOrders(z, p, 0) <=> AlignDown(p, m) \in Blocks(z, m)
<1>1. p \in Nat
  BY ReservedBlocks
<1>2. /\ AlignDown(p, m) \in Nat /\ IsAligned(AlignDown(p, m), m)
      /\ p \in Pages(AlignDown(p, m), m)
  BY <1>1, AlignDownBlock
<1>3. m \in 0 .. m
  BY SizeType
<1>4. m \in ReserveOrders(z, p, 0) => AlignDown(p, m) \in Blocks(z, m)
  BY <1>2, <1>3, BlocksAre DEF ReserveOrders
<1>5. ASSUME AlignDown(p, m) \in Blocks(z, m) PROVE m \in ReserveOrders(z, p, 0)
  <2>1. SUFFICES ASSUME NEW l \in 0 .. m PROVE InZone(z, AlignDown(p, l), l)
    BY <1>3 DEF ReserveOrders
  <2>2. l \in Orders
    BY OrderAssumption DEF Orders
  <2>3. /\ AlignDown(p, l) \in Nat /\ IsAligned(AlignDown(p, l), l)
        /\ p \in Pages(AlignDown(p, l), l)
    BY <1>1, <2>2, AlignDownBlock
  <2> QED BY <1>2, <1>5, <2>3, InnerBlock
<1> QED BY <1>4, <1>5

LEMMA ReserveAgrees ==
    ASSUME NEW z \in Zones, NEW start \in [ReservePages -> {0}]
    PROVE  LET bm == ReserveAll(start)[z]
           IN  /\ bm \in [Orders -> SUBSET Nat]
               /\ \A m \in Orders : bm[m] \subseteq Blocks(z, m)
               /\ bm[0] = Reserved(z)
               /\ Agree(z, bm)
<1> DEFINE bm == ReserveAll(start)[z]
<1>1. bm = [m \in Orders |-> {AlignDown(p, m) : p \in
              {q \in Reserved(z) : m \in ReserveOrders(z, q, start[q])}}]
  BY DEF ReserveAll
<1>2. \A q \in Reserved(z) : start[q] = 0
  BY DEF Reserved
<1>3. ASSUME NEW m \in Orders
      PROVE  bm[m] = {AlignDown(p, m) : p \in
                         {q \in Reserved(z) : AlignDown(q, m) \in Blocks(z, m)}}
  BY <1>1, <1>2, ReserveMarks
<1> HIDE DEF bm
<1>4. ASSUME NEW m \in Orders PROVE bm[m] \subseteq Blocks(z, m) /\ bm[m] \subseteq Nat
  BY <1>3, BlocksType
<1>5. bm[0] = Reserved(z)
  BY <1>3, PageBlocks, ReservedBlocks
<1>6. ASSUME NEW m \in Orders, NEW b \in Blocks(z, m)
      PROVE  b \in bm[m] <=> Pages(b, m) \cap bm[0] # {}
  <2>1. b \in Nat /\ IsAligned(b, m)
    BY BlocksType
  <2>2. ASSUME b \in bm[m] PROVE Pages(b, m) \cap bm[0] # {}
    <3>1. PICK p \in Reserved(z) : b = AlignDown(p, m)
      BY <2>2, <1>3
    <3> QED BY <3>1, <1>5, ReservedBlocks, AlignDownBlock
  <2>3. ASSUME NEW p, p \in Pages(b, m), p \in bm[0] PROVE b \in bm[m]
    <3>1. p \in Reserved(z) /\ p \in Nat
      BY <2>3, <1>5, ReservedBlocks
    <3>2. b = AlignDown(p, m)
      BY <3>1, <2>1, <2>3, AlignDownUnique
    <3> QED BY <3>1, <3>2, <1>3
  <2> QED BY <2>2, <2>3
<1>7. bm \in [Orders -> SUBSET Nat]
  BY <1>1, <1>4
<1> QED BY <1>4, <1>5, <1>6, <1>7 DEF Agree, bm

LEMMA ReservedFinite ==
    ASSUME NEW z \in Zones
    PROVE  IsFiniteSet(Reserved(z)) /\ Cardinality(Reserved(z)) \in Nat
<1>1. IsFiniteSet(TakenBgn .. TakenEnd - 1)
  BY HandoverAssumption, FS_Interval
<1>2. Reserved(z) \subseteq TakenBgn .. TakenEnd - 1
  BY DEF Reserved, ReservePages
<1>3. IsFiniteSet(Reserved(z))
  BY <1>1, <1>2, FS_Subset
<1> QED BY <1>3, FS_CardinalityType

LEMMA InitIInv == ASSUME StartOrders = {0} PROVE Init => IInv
<1>1. SUFFICES ASSUME Init PROVE IInv
  OBVIOUS
<1>2. PICK start \in [ReservePages -> {0}] : bmap = ReserveAll(start)
  BY <1>1 DEF Init
<1>3. /\ busy = [z \in Zones |-> Cardinality(Reserved(z))]
      /\ live = {} /\ ret = 0
  BY <1>1 DEF Init
<1>4. ASSUME NEW z \in Zones
      PROVE  /\ bmap[z] \in [Orders -> SUBSET Nat]
             /\ \A m \in Orders : bmap[z][m] \subseteq Blocks(z, m)
             /\ bmap[z][0] = Reserved(z)
             /\ Agree(z, bmap[z])
  BY <1>2, ReserveAgrees
<1>5. bmap \in [Zones -> [Orders -> SUBSET Nat]]
  <2>1. bmap = [z \in Zones |-> bmap[z]]
    BY <1>2 DEF ReserveAll
  <2> QED BY <2>1, <1>4
<1>6. busy \in [Zones -> Int]
  BY <1>3, ReservedFinite
<1>7. TypeOK
  BY <1>3, <1>4, <1>5, <1>6 DEF TypeOK
<1>8. BitmapsAgree
  BY <1>4 DEF BitmapsAgree, Agree
<1>9. NothingLost
  BY <1>3, <1>4 DEF NothingLost
<1> QED BY <1>3, <1>7, <1>8, <1>9
        DEF IInv, LiveInZone, LiveDisjoint, ReservedKept

----------------------------------------------------------------------------
(* alloc.                                                                  *)

(* The block of order m around block a of order j.                         *)
LEMMA Around ==
    ASSUME NEW j \in Orders, NEW a \in Nat, IsAligned(a, j),
           NEW m \in j .. MAX_ORDER - 1
    PROVE  /\ m \in Orders
           /\ AlignDown(a, m) \in Nat /\ IsAligned(AlignDown(a, m), m)
           /\ Pages(a, j) \subseteq Pages(AlignDown(a, m), m)
           /\ \A b \in Nat : IsAligned(b, m) /\ Pages(b, m) \cap Pages(a, j) # {}
                 => b = AlignDown(a, m)
<1>1. m \in Orders /\ j \in 0 .. m
  BY SizeType, OrderAssumption DEF Orders
<1>2. /\ AlignDown(a, m) \in Nat /\ IsAligned(AlignDown(a, m), m)
      /\ a \in Pages(AlignDown(a, m), m)
  BY <1>1, AlignDownBlock
<1>3. a \in Pages(a, j)
  BY SizeType DEF Pages
<1>4. Pages(a, j) \subseteq Pages(AlignDown(a, m), m)
  BY <1>1, <1>2, <1>3, Nested
<1>5. ASSUME NEW b \in Nat, IsAligned(b, m), Pages(b, m) \cap Pages(a, j) # {}
      PROVE  b = AlignDown(a, m)
  <2>1. a \in Pages(b, m)
    BY <1>1, <1>5, Nested
  <2> QED BY <1>1, <1>5, <2>1, AlignDownUnique
<1> QED BY <1>1, <1>2, <1>4, <1>5

(* The blocks around a that lie between it and a block of the zone.        *)
LEMMA AroundInZone ==
    ASSUME NEW z \in Zones, NEW j \in Orders, NEW a \in Nat, IsAligned(a, j),
           NEW m \in j .. MAX_ORDER - 1, AlignDown(a, m) \in Blocks(z, m),
           NEW l \in j .. m
    PROVE  /\ AlignDown(a, l) \in Blocks(z, l)
           /\ InZone(z, AlignDown(a, l), l)
           /\ Pages(AlignDown(a, l), l) \subseteq Pages(AlignDown(a, m), m)
<1>1. l \in j .. MAX_ORDER - 1 /\ l \in 0 .. m
  BY OrderAssumption DEF Orders
<1>2. m \in Orders /\ l \in Orders
  BY <1>1, Around
<1>3. /\ Pages(a, j) \subseteq Pages(AlignDown(a, l), l)
      /\ Pages(a, j) \subseteq Pages(AlignDown(a, m), m)
      /\ AlignDown(a, l) \in Nat /\ IsAligned(AlignDown(a, l), l)
  BY <1>1, Around
<1>4. a \in Pages(a, j)
  BY SizeType DEF Pages
<1>5. Pages(AlignDown(a, l), l) \cap Pages(AlignDown(a, m), m) # {}
  BY <1>3, <1>4
<1> QED BY <1>1, <1>2, <1>3, <1>5, InnerBlock

(* Which bits an operation on block a of order j touches.                  *)
LEMMA TouchedIs ==
    ASSUME NEW j \in Orders, NEW a \in Nat, IsAligned(a, j),
           NEW above \in SUBSET (j + 1 .. MAX_ORDER - 1), NEW m \in Orders
    PROVE  /\ m <= j => Touched(a, j, above, m) = Inside(a, j, m)
           /\ m \in above => Touched(a, j, above, m) = {AlignDown(a, m)}
           /\ m > j /\ m \notin above => Touched(a, j, above, m) = {}
           /\ Touched(a, j, above, 0) = Pages(a, j)
           /\ Touched(a, j, above, m) \subseteq Nat
<1>1. m \in Nat /\ j \in Nat /\ a \in Nat
  BY SizeType
<1>2. 0 <= j /\ Inside(a, j, 0) = Pages(a, j)
  <2>1. 0 \in 0 .. j /\ IsAligned(a, 0)
    BY <1>1, PageBlocks
  <2> QED BY <1>1, <2>1, InsideIs
<1>3. Inside(a, j, m) \subseteq Nat
  BY <1>1, SizeType DEF Inside
<1>4. AlignDown(a, m) \in Nat
  BY <1>1, AlignDownBlock
<1> QED BY <1>1, <1>2, <1>3, <1>4 DEF Touched

LEMMA TouchedAll ==
    ASSUME NEW j \in Orders, NEW a \in Nat, IsAligned(a, j),
           NEW above \in SUBSET (j + 1 .. MAX_ORDER - 1)
    PROVE  \A m \in Orders :
              /\ m <= j => Touched(a, j, above, m) = Inside(a, j, m)
              /\ m \in above => Touched(a, j, above, m) = {AlignDown(a, m)}
              /\ m > j /\ m \notin above => Touched(a, j, above, m) = {}
<1>1. SUFFICES ASSUME NEW m \in Orders
               PROVE  /\ m <= j => Touched(a, j, above, m) = Inside(a, j, m)
                      /\ m \in above => Touched(a, j, above, m) = {AlignDown(a, m)}
                      /\ m > j /\ m \notin above => Touched(a, j, above, m) = {}
  OBVIOUS
<1>2. m \in Nat /\ j \in Nat /\ (m \in above => m > j)
  BY SizeType
<1>3. m <= j => Touched(a, j, above, m) = Inside(a, j, m)
  BY <1>2 DEF Touched
<1>4. ~ (m <= j) => Touched(a, j, above, m) = {AlignDown(a, l) : l \in above \cap {m}}
  BY <1>2 DEF Touched
<1>5. /\ m \in above => ~ (m <= j)
      /\ m > j => ~ (m <= j)
  BY <1>2
<1> QED BY <1>3, <1>4, <1>5

(* What alloc marks are blocks of the zone.                                *)
LEMMA AllocTyped ==
    ASSUME TypeOK, NEW z \in Zones, NEW j \in Orders, NEW a \in Clear(z, j)
    PROVE  /\ Marked(z, a, j) \in [Orders -> SUBSET Nat]
           /\ \A m \in Orders : Marked(z, a, j)[m] \subseteq Blocks(z, m)
<1> DEFINE bm == bmap[z]
           above == MarkAbove(z, a, j)
           new == Marked(z, a, j)
<1>1. /\ a \in Blocks(z, j)
      /\ a \in Nat /\ IsAligned(a, j)
      /\ j \in Nat /\ j \in 0 .. j
  BY BlocksType, SizeType DEF Clear
<1>2. above \in SUBSET (j + 1 .. MAX_ORDER - 1)
  BY DEF MarkAbove
<1>3. \A m \in Orders : bm[m] \subseteq Blocks(z, m) /\ bm[m] \subseteq Nat
  BY DEF TypeOK
<1>4. \A m \in Orders : new[m] = bm[m] \cup Touched(a, j, above, m)
  BY DEF Marked
<1>6. new \in [Orders -> SUBSET Nat]
  BY <1>1, <1>2, <1>3, TouchedIs DEF Marked
<1> HIDE DEF new, above, bm
<1>5. \A m \in Orders :
         /\ m <= j => Touched(a, j, above, m) = Inside(a, j, m)
         /\ m > j /\ m \notin above => Touched(a, j, above, m) = {}
  BY <1>1, <1>2, TouchedAll
<1>7. ASSUME NEW m \in Orders PROVE new[m] \subseteq Blocks(z, m)
  <2>1. CASE m <= j
    <3>1. SUFFICES ASSUME NEW b \in Inside(a, j, m) PROVE b \in Blocks(z, m)
      BY <2>1, <1>3, <1>4, <1>5
    <3>2. m \in 0 .. j /\ b \in Nat /\ IsAligned(b, m)
      BY <2>1, <1>1, SizeType DEF Inside
    <3>3. Pages(b, m) \cap Pages(a, j) # {}
      BY <1>1, <3>2, InsideIs
    <3> QED BY <1>1, <3>2, <3>3, InnerBlock
  <2>2. CASE m \in above
    <3>1. m \in j .. MAX_ORDER - 1 /\ m \in j + 1 .. m
      BY <2>2, <1>1, <1>2
    <3>2. InZone(z, AlignDown(a, m), m)
      BY <2>2, <3>1 DEF above, MarkAbove
    <3>3. AlignDown(a, m) \in Blocks(z, m)
      BY <1>1, <3>1, <3>2, Around, BlocksAre
    <3>4. Touched(a, j, above, m) = {AlignDown(a, m)}
      BY <2>2, <1>1, <1>2, TouchedIs
    <3> QED BY <3>3, <3>4, <1>3, <1>4
  <2>3. CASE m > j /\ m \notin above
    BY <2>3, <1>3, <1>4, <1>5
  <2> QED BY <2>1, <2>2, <2>3, <1>1, SizeType
<1> QED BY <1>6, <1>7 DEF new

LEMMA AllocAgrees ==
    ASSUME TypeOK, BitmapsAgree, NEW z \in Zones, NEW j \in Orders,
           NEW a \in Clear(z, j)
    PROVE  /\ Marked(z, a, j) \in [Orders -> SUBSET Nat]
           /\ \A m \in Orders : Marked(z, a, j)[m] \subseteq Blocks(z, m)
           /\ Marked(z, a, j)[0] = bmap[z][0] \cup Pages(a, j)
           /\ Agree(z, Marked(z, a, j))
<1> DEFINE bm == bmap[z]
           above == MarkAbove(z, a, j)
           new == Marked(z, a, j)
<1>1. /\ a \in Blocks(z, j) /\ a \notin bm[j]
      /\ a \in Nat /\ IsAligned(a, j) /\ a \in Pages(a, j)
      /\ j \in Nat /\ j \in 0 .. j
  BY BlocksType, SizeType DEF Clear, Pages
<1>2. above \in SUBSET (j + 1 .. MAX_ORDER - 1)
  BY DEF MarkAbove
<1>3. /\ \A m \in Orders : bm[m] \subseteq Blocks(z, m) /\ bm[m] \subseteq Nat
      /\ \A m \in Orders : \A b \in Blocks(z, m) :
            b \in bm[m] <=> Pages(b, m) \cap bm[0] # {}
  BY DEF TypeOK, BitmapsAgree
<1>4. \A m \in Orders : new[m] = bm[m] \cup Touched(a, j, above, m)
  BY DEF Marked
<1>5. new[0] = bm[0] \cup Pages(a, j)
  BY <1>1, <1>2, <1>4, TouchedIs, PageBlocks
<1>6. new \in [Orders -> SUBSET Nat]
  BY <1>1, <1>2, <1>3, TouchedIs DEF Marked
<1> HIDE DEF new, above, bm
<1>7. \A m \in Orders : new[m] \subseteq Blocks(z, m)
  BY AllocTyped DEF new
<1>8. ASSUME NEW m \in Orders, NEW b \in Blocks(z, m)
      PROVE  b \in new[m] <=> Pages(b, m) \cap new[0] # {}
  <2>1. b \in Nat /\ IsAligned(b, m) /\ m \in Nat
    BY BlocksType, SizeType
  <2>2. Pages(b, m) \cap new[0] # {} <=>
          \/ b \in bm[m]
          \/ Pages(b, m) \cap Pages(a, j) # {}
    BY <1>3, <1>5
  <2>3. CASE m <= j
    <3>1. m \in 0 .. j
      BY <2>1, <2>3
    <3>2. b \in Inside(a, j, m) <=> Pages(b, m) \cap Pages(a, j) # {}
      BY <1>1, <2>1, <3>1, InsideIs
    <3> QED BY <2>2, <2>3, <3>2, <1>1, <1>2, <1>4, TouchedIs
  <2>4. CASE m > j
    <3>1. m \in j .. MAX_ORDER - 1 /\ m \in j + 1 .. MAX_ORDER - 1
      BY <2>1, <2>4, <1>1, OrderAssumption DEF Orders
    <3>2. Pages(b, m) \cap Pages(a, j) # {} <=> b = AlignDown(a, m)
      BY <1>1, <2>1, <3>1, Around
    <3>3. CASE b # AlignDown(a, m)
      BY <2>2, <2>4, <3>2, <3>3, <1>1, <1>2, <1>4, TouchedIs
    <3>4. CASE b = AlignDown(a, m)
      <4>1. CASE m \in above
        BY SMTT(30), <2>2, <3>2, <3>4, <4>1, <1>1, <1>2, <1>4, TouchedIs
      <4>2. CASE m \notin above
        <5>1. PICK l \in j + 1 .. m : \/ ~ InZone(z, AlignDown(a, l), l)
                                      \/ AlignDown(a, l) \in bm[l]
          BY <4>2, <3>1 DEF above, MarkAbove, bm
        <5>2. l \in j .. m /\ l \in j .. MAX_ORDER - 1
          BY <1>1, <2>1, <3>1, <5>1, OrderAssumption
        <5>3. /\ InZone(z, AlignDown(a, l), l)
              /\ AlignDown(a, l) \in Blocks(z, l)
              /\ Pages(AlignDown(a, l), l) \subseteq Pages(AlignDown(a, m), m)
          BY <1>1, <3>1, <3>4, <5>2, AroundInZone
        <5>4. l \in Orders
          BY <1>1, <5>2, Around
        <5>5. Pages(AlignDown(a, l), l) \cap bm[0] # {}
          BY <1>3, <5>1, <5>3, <5>4
        <5>6. b \in bm[m]
          BY <1>3, <3>4, <5>3, <5>5
        <5> QED BY <5>6, <2>2, <1>4
      <4> QED BY <4>1, <4>2
    <3> QED BY <3>3, <3>4
  <2> QED BY <2>1, <2>3, <2>4, <1>1
<1>9. Agree(z, new)
  BY <1>8 DEF Agree
<1> QED BY <1>5, <1>6, <1>7, <1>9 DEF new, bm

----------------------------------------------------------------------------
(* free.                                                                   *)

LEMMA FreeAgrees ==
    ASSUME TypeOK, BitmapsAgree, NEW z \in Zones, NEW j \in Orders,
           NEW a \in Blocks(z, j), Pages(a, j) \subseteq bmap[z][0]
    PROVE  /\ Cleared(z, a, j) \in [Orders -> SUBSET Nat]
           /\ \A m \in Orders : Cleared(z, a, j)[m] \subseteq Blocks(z, m)
           /\ Cleared(z, a, j)[0] = bmap[z][0] \ Pages(a, j)
           /\ Agree(z, Cleared(z, a, j))
<1> DEFINE bm == bmap[z]
           above == ClearAbove(z, a, j)
           new == Cleared(z, a, j)
<1>1. /\ a \in Nat /\ IsAligned(a, j) /\ a \in Pages(a, j)
      /\ j \in Nat /\ j \in 0 .. j
  BY BlocksType, SizeType DEF Pages
<1>2. above \in SUBSET (j + 1 .. MAX_ORDER - 1)
  BY DEF ClearAbove
<1>3. /\ \A m \in Orders : bm[m] \subseteq Blocks(z, m) /\ bm[m] \subseteq Nat
      /\ \A m \in Orders : \A b \in Blocks(z, m) :
            b \in bm[m] <=> Pages(b, m) \cap bm[0] # {}
      /\ Pages(a, j) \subseteq bm[0]
  BY DEF TypeOK, BitmapsAgree
<1>4. \A m \in Orders : new[m] = bm[m] \ Touched(a, j, above, m)
  BY DEF Cleared
<1>5. new[0] = bm[0] \ Pages(a, j)
  BY <1>1, <1>2, <1>4, TouchedIs, PageBlocks
<1>6. new \in [Orders -> SUBSET Nat]
  BY <1>3 DEF Cleared
<1>7. \A m \in Orders : new[m] \subseteq Blocks(z, m)
  BY <1>3, <1>4
<1> HIDE DEF new, above, bm
<1>8. ASSUME NEW m \in Orders, NEW b \in Blocks(z, m)
      PROVE  b \in new[m] <=> Pages(b, m) \cap new[0] # {}
  <2>1. b \in Nat /\ IsAligned(b, m) /\ m \in Nat
    BY BlocksType, SizeType
  <2>2. CASE m <= j
    <3>1. m \in 0 .. j
      BY <2>1, <2>2
    <3>2. /\ b \in Inside(a, j, m) <=> Pages(b, m) \cap Pages(a, j) # {}
          /\ b \in Inside(a, j, m) => Pages(b, m) \subseteq Pages(a, j)
      BY <1>1, <2>1, <3>1, InsideIs
    <3>3. new[m] = bm[m] \ Inside(a, j, m)
      BY SMTT(30), <2>2, <1>1, <1>2, <1>4, TouchedIs
    <3> QED BY <3>2, <3>3, <1>3, <1>5
  <2>3. CASE m > j
    <3>1. m \in j .. MAX_ORDER - 1 /\ m \in j + 1 .. MAX_ORDER - 1
      BY <2>1, <2>3, <1>1, OrderAssumption DEF Orders
    <3>2. Pages(b, m) \cap Pages(a, j) # {} <=> b = AlignDown(a, m)
      BY <1>1, <2>1, <3>1, Around
    <3>3. new[m] = IF m \in above THEN bm[m] \ {AlignDown(a, m)} ELSE bm[m]
      <4>1. CASE m \in above
        <5>1. Touched(a, j, above, m) = {AlignDown(a, m)}
          BY <4>1, <1>1, <1>2, TouchedIs
        <5> QED BY <4>1, <5>1, <1>4
      <4>2. CASE m \notin above
        <5>1. Touched(a, j, above, m) = {}
          BY <2>3, <4>2, <1>1, <1>2, TouchedIs
        <5> QED BY <4>2, <5>1, <1>4
      <4> QED BY <4>1, <4>2
    <3>4. CASE b # AlignDown(a, m)
      BY <3>2, <3>3, <3>4, <1>3, <1>5
    <3>5. CASE b = AlignDown(a, m)
      <4> DEFINE B(l) == AlignDown(a, l)
      <4>1. ASSUME NEW l \in j + 1 .. m
            PROVE  /\ l \in Orders /\ l - 1 \in Orders /\ l - 1 \in 0 .. l /\ l > 0
                   /\ l - 1 \in j .. m /\ l - 1 \in j .. MAX_ORDER - 1
                   /\ l \in j .. m /\ l \in j .. MAX_ORDER - 1
                   /\ l - 1 \in 0 .. m
        BY <1>1, <2>1, <3>1, OrderAssumption DEF Orders
      <4>2. ASSUME NEW l \in j + 1 .. m
            PROVE  /\ B(l) \in Nat /\ IsAligned(B(l), l)
                   /\ B(l) \in Blocks(z, l) /\ InZone(z, B(l), l)
                   /\ Pages(B(l), l) \subseteq Pages(b, m)
                   /\ B(l - 1) \in Nat /\ IsAligned(B(l - 1), l - 1)
                   /\ Pages(a, j) \subseteq Pages(B(l - 1), l - 1)
        BY <1>1, <3>1, <3>5, <4>1, Around, AroundInZone
      <4> HIDE DEF B
      <4>3. CASE m \in above
        (* A page still marked would lie in the clear half at some order.  *)
        <5>1. SUFFICES ASSUME NEW p \in Pages(b, m), p \in new[0] PROVE FALSE
          BY <3>3, <3>5, <4>3
        <5> DEFINE S == {l \in j + 1 .. m : p \in Pages(B(l), l)}
        <5>2. p \in Nat /\ p \in bm[0] /\ p \notin Pages(a, j)
          BY <5>1, <1>3, <1>5, PageBlocks
        <5>3. m \in S /\ S \subseteq Nat
          BY <3>1, <3>5, <1>1, <2>1 DEF B
        <5>4. PICK l \in S : \A k \in S : l <= k
          <6> HIDE DEF S
          <6> QED BY <5>3, LeastNat
        <5>5. p \notin Pages(B(l - 1), l - 1)
          <6>1. CASE l - 1 = j
            BY <6>1, <5>2, <1>1, AlignDownAligned DEF B
          <6>2. CASE l - 1 # j
            <7>1. l - 1 \in j + 1 .. m /\ ~ (l <= l - 1)
              BY <6>2, <5>4, <1>1, <2>1
            <7> QED BY <7>1, <5>4
          <6> QED BY <6>1, <6>2
        <5> DEFINE h == AlignDown(p, l - 1)
        <5>6. h \in Nat /\ IsAligned(h, l - 1) /\ p \in Pages(h, l - 1)
          BY <4>1, <5>2, <5>4, AlignDownBlock
        <5> HIDE DEF h, S
        <5>7. l \in j + 1 .. m /\ p \in Pages(B(l), l)
          BY <5>4 DEF S
        <5>8. /\ h \in Blocks(z, l - 1)
              /\ Pages(h, l - 1) \subseteq Pages(B(l), l)
          BY <4>1, <4>2, <5>6, <5>7, InnerBlock
        <5>9. h \in Pages(B(l), l)
          <6>1. h \in Pages(h, l - 1)
            BY <4>1, <5>6, <5>7, SizeType DEF Pages
          <6> QED BY <6>1, <5>8
        <5>10. h \in {B(l), B(l) + BlockPages[l - 1]}
          BY <4>1, <4>2, <5>6, <5>7, <5>9, Halves
        <5>11. h # B(l - 1)
          BY <5>5, <5>6
        <5>12. h \notin bm[l - 1]
          BY <4>3, <5>7, <5>10, <5>11 DEF above, ClearAbove, bm, B
        <5> QED BY <5>2, <5>6, <5>7, <5>8, <5>12, <4>1, <1>3
      <4>4. CASE m \notin above
        (* The busy half that stopped the merge still has a marked page.   *)
        <5>1. PICK l \in j + 1 .. m :
                 \E h \in {B(l), B(l) + BlockPages[l - 1]} \cap bm[l - 1] :
                     h # B(l - 1)
          BY <3>1, <4>2, <4>4 DEF above, ClearAbove, bm, B
        <5>2. PICK h \in bm[l - 1] :
                 h \in {B(l), B(l) + BlockPages[l - 1]} /\ h # B(l - 1)
          BY <5>1
        <5>3. h \in Blocks(z, l - 1) /\ h \in Nat /\ IsAligned(h, l - 1)
          BY <4>1, <5>1, <5>2, <1>3, BlocksType
        <5>4. PICK p \in Pages(h, l - 1) : p \in bm[0]
          BY <4>1, <5>1, <5>2, <5>3, <1>3
        <5>5. p \notin Pages(B(l - 1), l - 1)
          <6>1. SUFFICES ASSUME p \in Pages(B(l - 1), l - 1) PROVE FALSE
            OBVIOUS
          <6>2. p \in Nat
            BY <5>4, <1>3, PageBlocks
          <6>3. h = AlignDown(p, l - 1) /\ B(l - 1) = AlignDown(p, l - 1)
            BY <4>1, <4>2, <5>1, <5>3, <5>4, <6>1, <6>2, AlignDownUnique
          <6> QED BY <6>3, <5>2
        <5>6. p \in new[0]
          BY <4>2, <5>1, <5>4, <5>5, <1>5
        <5>7. p \in Pages(B(l), l)
          <6>1. /\ BlockPages[l] = 2 * BlockPages[l - 1]
                /\ BlockPages[l - 1] \in Nat \ {0}
            BY <4>1, <5>1, SizeType, OrderAssumption
          <6> QED BY <6>1, <4>2, <5>1, <5>2, <5>3, <5>4 DEF Pages
        <5>8. p \in Pages(b, m)
          BY <4>2, <5>1, <5>7
        <5>9. b \in bm[m]
          BY <5>4, <5>8, <1>3
        <5> QED BY <5>6, <5>8, <5>9, <3>3, <4>4
      <4> QED BY <4>3, <4>4
    <3> QED BY <3>4, <3>5
  <2> QED BY <2>1, <2>2, <2>3, <1>1
<1>9. Agree(z, new)
  BY <1>8 DEF Agree
<1> QED BY <1>5, <1>6, <1>7, <1>9 DEF new, bm

----------------------------------------------------------------------------
(* The steps preserve the invariant.                                       *)

(* A live block is a block of one zone, and all its pages are marked.      *)
LEMMA LiveBlock ==
    ASSUME TypeOK, LiveInZone, NothingLost, NEW x \in live
    PROVE  /\ x = <<x[1], x[2]>> /\ x[1] \in Nat /\ x[2] \in Orders
           /\ IsAligned(x[1], x[2])
           /\ \E z \in Zones :
                 /\ x[1] \in Blocks(z, x[2])
                 /\ InZone(z, x[1], x[2])
                 /\ Pages(x[1], x[2]) \subseteq bmap[z][0]
                 /\ \A y \in Zones : InZone(y, x[1], x[2]) => y = z
<1>1. x = <<x[1], x[2]>> /\ x[1] \in Nat /\ x[2] \in Orders
  BY DEF TypeOK
<1>2. PICK z \in Zones : x[1] \in Blocks(z, x[2])
  BY DEF LiveInZone
<1>3. IsAligned(x[1], x[2])
  BY <1>1, <1>2, BlocksType
<1>4. InZone(z, x[1], x[2])
  BY <1>1, <1>2, <1>3, BlocksAre
<1>5. Pages(x[1], x[2]) \subseteq bmap[z][0]
  BY <1>4 DEF NothingLost
<1>6. ASSUME NEW y \in Zones, InZone(y, x[1], x[2]) PROVE y = z
  <2>1. x[1] \in Blocks(y, x[2])
    BY <1>1, <1>3, <1>6, BlocksAre
  <2>2. x[1] \in Pages(x[1], x[2])
    BY <1>1, SizeType DEF Pages
  <2> QED BY <1>1, <1>2, <2>1, <2>2, ZonesApart
<1> QED BY <1>1, <1>2, <1>3, <1>4, <1>5, <1>6

(* A block whose bit is clear has no page in use and none reserved.        *)
LEMMA ClearBlock ==
    ASSUME IInv, NEW z \in Zones, NEW j \in Orders, NEW a \in Clear(z, j)
    PROVE  /\ a \in Blocks(z, j) /\ a \in Nat /\ IsAligned(a, j) /\ InZone(z, a, j)
           /\ Pages(a, j) \cap bmap[z][0] = {}
           /\ \A x \in live : Pages(x[1], x[2]) \cap Pages(a, j) = {}
           /\ \A y \in Zones : Pages(a, j) \cap Reserved(y) = {}
           /\ \A y \in Zones : InZone(y, a, j) => y = z
           /\ a \in Pages(a, j)
<1>1. a \in Blocks(z, j) /\ a \in Nat /\ IsAligned(a, j)
  BY BlocksType DEF Clear
<1>2. InZone(z, a, j) /\ a \in Pages(a, j)
  BY <1>1, BlocksAre, SizeType DEF Pages
<1>3. Pages(a, j) \cap bmap[z][0] = {}
  BY <1>1 DEF IInv, BitmapsAgree, Clear
<1>4. ASSUME NEW x \in live PROVE Pages(x[1], x[2]) \cap Pages(a, j) = {}
  <2>1. PICK y \in Zones : /\ x[1] \in Blocks(y, x[2]) /\ x[2] \in Orders
                           /\ Pages(x[1], x[2]) \subseteq bmap[y][0]
    BY <1>4, LiveBlock DEF IInv
  <2>2. CASE y = z
    BY <2>1, <2>2, <1>3
  <2>3. CASE y # z
    BY <2>1, <2>3, <1>1, ZonesApart
  <2> QED BY <2>2, <2>3
<1>5. ASSUME NEW y \in Zones PROVE Pages(a, j) \cap Reserved(y) = {}
  <2>1. Reserved(z) \subseteq bmap[z][0]
    BY DEF IInv, NothingLost
  <2> QED BY <2>1, <1>1, <1>3, ReservedOnce
<1>6. ASSUME NEW y \in Zones, InZone(y, a, j) PROVE y = z
  <2>1. a \in Blocks(y, j)
    BY <1>1, <1>6, BlocksAre
  <2> QED BY <1>1, <1>2, <2>1, ZonesApart
<1> QED BY <1>1, <1>2, <1>3, <1>4, <1>5, <1>6

LEMMA AllocIInv ==
    ASSUME IInv, NEW j \in Orders, Alloc(j)
    PROVE  IInv'
<1>1. PICK z \in Zones : \E a \in Clear(z, j) : AllocAt(z, a, j)
  BY DEF Alloc
<1>2. PICK a \in Clear(z, j) : AllocAt(z, a, j)
  BY <1>1
<1>3. /\ bmap' = [bmap EXCEPT ![z] = Marked(z, a, j)]
      /\ busy' = [busy EXCEPT ![z] = @ + BlockPages[j]]
      /\ live' = live \cup {<<a, j>>}
      /\ ret' = a
  BY <1>2 DEF AllocAt, Marked
<1>4. /\ a \in Blocks(z, j) /\ a \in Nat /\ IsAligned(a, j) /\ InZone(z, a, j)
      /\ Pages(a, j) \cap bmap[z][0] = {}
      /\ \A x \in live : Pages(x[1], x[2]) \cap Pages(a, j) = {}
      /\ \A y \in Zones : Pages(a, j) \cap Reserved(y) = {}
      /\ \A y \in Zones : InZone(y, a, j) => y = z
  BY ClearBlock
<1>5. /\ Marked(z, a, j) \in [Orders -> SUBSET Nat]
      /\ \A m \in Orders : Marked(z, a, j)[m] \subseteq Blocks(z, m)
      /\ Marked(z, a, j)[0] = bmap[z][0] \cup Pages(a, j)
      /\ Agree(z, Marked(z, a, j))
  BY AllocAgrees DEF IInv
<1>6. bmap \in [Zones -> [Orders -> SUBSET Nat]]
  BY DEF IInv, TypeOK
<1>7. /\ bmap'[z] = Marked(z, a, j)
      /\ \A y \in Zones : y # z => bmap'[y] = bmap[y]
      /\ bmap' \in [Zones -> [Orders -> SUBSET Nat]]
  BY <1>3, <1>5, <1>6
<1>8. TypeOK'
  <2>1. \A y \in Zones, m \in Orders : bmap'[y][m] \subseteq Blocks(y, m)
    BY <1>5, <1>7 DEF IInv, TypeOK
  <2>2. busy' \in [Zones -> Int]
    BY <1>3, SizeType DEF IInv, TypeOK
  <2>3. live' \subseteq Nat \X Orders /\ ret' \in Nat
    BY <1>3, <1>4 DEF IInv, TypeOK
  <2> QED BY <1>7, <2>1, <2>2, <2>3 DEF TypeOK
<1>9. BitmapsAgree'
  BY <1>5, <1>7 DEF IInv, BitmapsAgree, Agree
<1>10. LiveInZone'
  BY <1>3, <1>4 DEF IInv, LiveInZone
<1>11. LiveDisjoint'
  <2>1. <<a, j>>[1] = a /\ <<a, j>>[2] = j
    OBVIOUS
  <2>2. LiveDisjoint
    BY DEF IInv
  <2> QED BY <2>1, <2>2, <1>3, <1>4 DEF LiveDisjoint
<1>12. ReservedKept'
  BY <1>3, <1>4 DEF IInv, ReservedKept
<1>13. NothingLost'
  <2>1. SUFFICES ASSUME NEW y \in Zones
                 PROVE  bmap'[y][0] = Reserved(y) \cup UNION {Pages(x[1], x[2]) :
                            x \in {w \in live' : InZone(y, w[1], w[2])}}
    BY DEF NothingLost
  <2>2. bmap[y][0] = Reserved(y) \cup UNION {Pages(x[1], x[2]) :
            x \in {w \in live : InZone(y, w[1], w[2])}}
    BY DEF IInv, NothingLost
  <2>3. CASE y = z
    <3>1. {w \in live' : InZone(y, w[1], w[2])} =
             {w \in live : InZone(y, w[1], w[2])} \cup {<<a, j>>}
      BY <2>3, <1>3, <1>4
    <3>2. bmap'[y][0] = bmap[y][0] \cup Pages(a, j)
      BY <2>3, <1>5, <1>7
    <3>3. ASSUME NEW p
          PROVE  p \in UNION {Pages(x[1], x[2]) :
                     x \in {w \in live : InZone(y, w[1], w[2])} \cup {<<a, j>>}}
                 <=> \/ p \in UNION {Pages(x[1], x[2]) :
                            x \in {w \in live : InZone(y, w[1], w[2])}}
                     \/ p \in Pages(a, j)
      <4> DEFINE L == {w \in live : InZone(y, w[1], w[2])}
                 e == <<a, j>>
      <4>1. e[1] = a /\ e[2] = j
        OBVIOUS
      <4> HIDE DEF L, e
      <4>2. /\ p \in UNION {Pages(x[1], x[2]) : x \in L \cup {e}} <=>
                   \E x \in L \cup {e} : p \in Pages(x[1], x[2])
            /\ p \in UNION {Pages(x[1], x[2]) : x \in L} <=>
                   \E x \in L : p \in Pages(x[1], x[2])
        OBVIOUS
      <4>3. p \in UNION {Pages(x[1], x[2]) : x \in L \cup {e}} <=>
               \/ p \in UNION {Pages(x[1], x[2]) : x \in L}
               \/ p \in Pages(a, j)
        BY <4>1, <4>2
      <4> QED BY <4>3 DEF L, e
    <3> QED BY <2>2, <3>1, <3>2, <3>3
  <2>4. CASE y # z
    <3>1. {w \in live' : InZone(y, w[1], w[2])} =
             {w \in live : InZone(y, w[1], w[2])}
      BY <2>4, <1>3, <1>4
    <3> QED BY <2>2, <2>4, <3>1, <1>7
  <2> QED BY <2>3, <2>4
<1> QED BY <1>8, <1>9, <1>10, <1>11, <1>12, <1>13 DEF IInv

LEMMA FreeIInv ==
    ASSUME IInv, NEW a, NEW j, Free(a, j)
    PROVE  IInv'
<1> DEFINE e == <<a, j>>
<1>1. e \in live /\ e[1] = a /\ e[2] = j
  BY DEF Free
<1>2. PICK z \in Zones :
         /\ FreeIn(z, a, j)
         /\ bmap' = [bmap EXCEPT ![z] = Cleared(z, a, j)]
         /\ busy' = [busy EXCEPT ![z] = @ - BlockPages[j]]
  BY DEF Free, Cleared
<1>3. live' = live \ {e} /\ ret' = 0
  BY DEF Free
<1> HIDE DEF e
<1>4. /\ a \in Nat /\ j \in Orders /\ IsAligned(a, j)
      /\ a \in Blocks(z, j)
      /\ Pages(a, j) \subseteq bmap[z][0]
      /\ \A y \in Zones : InZone(y, a, j) => y = z
  BY <1>1, <1>2, LiveBlock DEF IInv, FreeIn
<1>5. /\ Cleared(z, a, j) \in [Orders -> SUBSET Nat]
      /\ \A m \in Orders : Cleared(z, a, j)[m] \subseteq Blocks(z, m)
      /\ Cleared(z, a, j)[0] = bmap[z][0] \ Pages(a, j)
      /\ Agree(z, Cleared(z, a, j))
  BY <1>4, FreeAgrees DEF IInv
<1>6. bmap \in [Zones -> [Orders -> SUBSET Nat]]
  BY DEF IInv, TypeOK
<1>7. /\ bmap'[z] = Cleared(z, a, j)
      /\ \A y \in Zones : y # z => bmap'[y] = bmap[y]
      /\ bmap' \in [Zones -> [Orders -> SUBSET Nat]]
  BY <1>2, <1>5, <1>6
<1>8. TypeOK'
  <2>1. \A y \in Zones, m \in Orders : bmap'[y][m] \subseteq Blocks(y, m)
    BY <1>5, <1>7 DEF IInv, TypeOK
  <2>2. busy' \in [Zones -> Int]
    BY <1>2, <1>4, SizeType DEF IInv, TypeOK
  <2>3. live' \subseteq Nat \X Orders /\ ret' \in Nat
    BY <1>3 DEF IInv, TypeOK
  <2> QED BY <1>7, <2>1, <2>2, <2>3 DEF TypeOK
<1>9. BitmapsAgree'
  BY <1>5, <1>7 DEF IInv, BitmapsAgree, Agree
<1>10. LiveInZone'
  BY <1>3 DEF IInv, LiveInZone
<1>11. LiveDisjoint'
  BY <1>3 DEF IInv, LiveDisjoint
<1>12. ReservedKept'
  BY <1>3 DEF IInv, ReservedKept
<1>13. NothingLost'
  <2>1. SUFFICES ASSUME NEW y \in Zones
                 PROVE  bmap'[y][0] = Reserved(y) \cup UNION {Pages(x[1], x[2]) :
                            x \in {w \in live' : InZone(y, w[1], w[2])}}
    BY DEF NothingLost
  <2> DEFINE L == {w \in live : InZone(y, w[1], w[2])}
             Lp == {w \in live' : InZone(y, w[1], w[2])}
  <2>2. bmap[y][0] = Reserved(y) \cup UNION {Pages(x[1], x[2]) : x \in L}
    BY DEF IInv, NothingLost
  <2>3. Lp = L \ {e}
    BY <1>3
  <2>4. CASE y = z
    <3>1. /\ \A x \in L \ {e} : Pages(x[1], x[2]) \cap Pages(a, j) = {}
          /\ Reserved(y) \cap Pages(a, j) = {}
      BY <1>1 DEF IInv, LiveDisjoint, ReservedKept
    <3>2. bmap'[y][0] = bmap[y][0] \ Pages(a, j)
      BY <2>4, <1>5, <1>7
    <3> HIDE DEF L, Lp
    <3>3. ASSUME NEW p
          PROVE  p \in bmap'[y][0] <=>
                    p \in Reserved(y) \cup UNION {Pages(x[1], x[2]) : x \in Lp}
      <4>1. /\ p \in UNION {Pages(x[1], x[2]) : x \in Lp} <=>
                   \E x \in Lp : p \in Pages(x[1], x[2])
            /\ p \in UNION {Pages(x[1], x[2]) : x \in L} <=>
                   \E x \in L : p \in Pages(x[1], x[2])
        OBVIOUS
      <4>2. p \in bmap[y][0] <=>
               p \in Reserved(y) \/ \E x \in L : p \in Pages(x[1], x[2])
        BY <2>2, <4>1
      <4> QED BY <1>1, <2>3, <3>1, <3>2, <4>1, <4>2
    <3> QED BY <3>3 DEF Lp
  <2>5. CASE y # z
    <3>1. e \notin L
      BY <2>5, <1>1, <1>4
    <3>2. Lp = L
      BY <2>3, <3>1
    <3> QED BY <2>2, <2>5, <3>2, <1>7
  <2> QED BY <2>4, <2>5
<1> QED BY <1>8, <1>9, <1>10, <1>11, <1>12, <1>13 DEF IInv

LEMMA NextIInv == IInv /\ [Next]_vars => IInv'
<1> SUFFICES ASSUME IInv, [Next]_vars PROVE IInv'
  OBVIOUS
<1>1. ASSUME NEW j \in Orders, Alloc(j) PROVE IInv'
  BY <1>1, AllocIInv
<1>2. ASSUME NEW j \in Orders, AllocFails(j) PROVE IInv'
  BY <1>2 DEF AllocFails, IInv, TypeOK, BitmapsAgree, LiveInZone, LiveDisjoint,
              ReservedKept, NothingLost
<1>3. ASSUME NEW x \in live, Free(x[1], x[2]) PROVE IInv'
  BY <1>3, FreeIInv
<1>4. CASE UNCHANGED vars
  BY <1>4 DEF vars, IInv, TypeOK, BitmapsAgree, LiveInZone, LiveDisjoint,
              ReservedKept, NothingLost
<1> QED BY <1>1, <1>2, <1>3, <1>4 DEF Next

----------------------------------------------------------------------------
(* Whatever the counter of _page_reserve starts at.  The marks of a        *)
(* reservation may then begin at any order, so larger blocks may be marked *)
(* without a page in use.  What remains is the other direction: above a    *)
(* marked block all blocks of the zone are marked (UpClosed), and a live   *)
(* block is marked at its order and below (LiveMarked).                    *)

UpClosed(z, bm) ==
    \A i \in Orders : \A b \in bm[i] : \A m \in i .. MAX_ORDER - 1 :
        AlignDown(b, m) \in Blocks(z, m) => AlignDown(b, m) \in bm[m]

LiveMarked ==
    \A x \in live : \E z \in Zones :
        /\ x[1] \in Blocks(z, x[2])
        /\ \A m \in 0 .. x[2] : Inside(x[1], x[2], m) \subseteq bmap[z][m]

WInv ==
    /\ TypeOK
    /\ \A z \in Zones : UpClosed(z, bmap[z])
    /\ LiveMarked
    /\ LiveDisjoint

LEMMA InitWInv == Init => WInv
<1>1. SUFFICES ASSUME Init PROVE WInv
  OBVIOUS
<1>2. PICK start \in [ReservePages -> StartOrders] : bmap = ReserveAll(start)
  BY <1>1 DEF Init
<1>3. busy = [z \in Zones |-> Cardinality(Reserved(z))] /\ live = {} /\ ret = 0
  BY <1>1 DEF Init
<1>4. ASSUME NEW z \in Zones, NEW m \in Orders
      PROVE  bmap[z][m] = {AlignDown(p, m) : p \in {q \in Reserved(z) :
                                m \in ReserveOrders(z, q, start[q])}}
  BY <1>2 DEF ReserveAll
<1>5. ASSUME NEW z \in Zones, NEW m \in Orders, NEW b \in bmap[z][m]
      PROVE  \E p \in Reserved(z) :
                /\ b = AlignDown(p, m) /\ m \in ReserveOrders(z, p, start[p])
                /\ p \in Nat /\ start[p] \in Nat /\ p \in Pages(b, m)
                /\ b \in Nat /\ IsAligned(b, m) /\ b \in Blocks(z, m)
  <2>1. PICK p \in Reserved(z) : b = AlignDown(p, m)
                                 /\ m \in ReserveOrders(z, p, start[p])
    BY <1>4
  <2>2. p \in Nat /\ start[p] \in Nat
    BY ReservedBlocks, HandoverAssumption DEF Reserved
  <2>3. b \in Nat /\ IsAligned(b, m) /\ p \in Pages(b, m)
    BY <2>1, <2>2, AlignDownBlock
  <2>4. m \in start[p] .. m
    BY <2>1, <2>2, SizeType DEF ReserveOrders
  <2>5. b \in Blocks(z, m)
    BY <2>1, <2>3, <2>4, BlocksAre DEF ReserveOrders
  <2> QED BY <2>1, <2>2, <2>3, <2>5
<1>6. TypeOK
  <2>1. bmap \in [Zones -> [Orders -> SUBSET Nat]]
    <3>1. bmap = [z \in Zones |-> [m \in Orders |-> bmap[z][m]]]
      BY <1>2 DEF ReserveAll
    <3>2. \A z \in Zones, m \in Orders : bmap[z][m] \in SUBSET Nat
      BY <1>5
    <3> QED BY <3>1, <3>2
  <2>2. \A z \in Zones, m \in Orders : bmap[z][m] \subseteq Blocks(z, m)
    BY <1>5
  <2>3. busy \in [Zones -> Int]
    BY <1>3, ReservedFinite
  <2> QED BY <1>3, <2>1, <2>2, <2>3 DEF TypeOK
<1>7. ASSUME NEW z \in Zones PROVE UpClosed(z, bmap[z])
  <2>1. SUFFICES ASSUME NEW i \in Orders, NEW b \in bmap[z][i],
                        NEW m \in i .. MAX_ORDER - 1,
                        AlignDown(b, m) \in Blocks(z, m)
                 PROVE  AlignDown(b, m) \in bmap[z][m]
    BY DEF UpClosed
  <2>2. PICK p \in Reserved(z) :
                /\ b = AlignDown(p, i) /\ i \in ReserveOrders(z, p, start[p])
                /\ p \in Nat /\ start[p] \in Nat /\ p \in Pages(b, i)
                /\ b \in Nat /\ IsAligned(b, i) /\ b \in Blocks(z, i)
    BY <1>5
  <2>3. /\ m \in Orders
        /\ AlignDown(b, m) \in Nat /\ IsAligned(AlignDown(b, m), m)
        /\ Pages(b, i) \subseteq Pages(AlignDown(b, m), m)
    BY <2>2, Around
  <2>4. AlignDown(b, m) = AlignDown(p, m)
    BY <2>2, <2>3, AlignDownUnique
  <2>5. ASSUME NEW l \in start[p] .. m PROVE InZone(z, AlignDown(p, l), l)
    <3>1. l \in 0 .. m /\ l \in Orders
      BY <2>2, <2>3, SizeType, OrderAssumption DEF Orders
    <3>2. /\ AlignDown(p, l) \in Nat /\ IsAligned(AlignDown(p, l), l)
          /\ p \in Pages(AlignDown(p, l), l)
      BY <2>2, <3>1, AlignDownBlock
    <3>3. Pages(AlignDown(p, l), l) \cap Pages(AlignDown(b, m), m) # {}
      BY <2>2, <2>3, <3>2
    <3> QED BY <2>1, <2>3, <3>1, <3>2, <3>3, InnerBlock
  <2>6. i >= start[p] /\ i \in Nat /\ m >= i
    BY <2>2, SizeType DEF ReserveOrders
  <2>7. m >= start[p]
    BY <2>2, <2>3, <2>6, SizeType
  <2>8. m \in ReserveOrders(z, p, start[p])
    BY <2>3, <2>5, <2>7 DEF ReserveOrders
  <2> QED BY <1>4, <2>3, <2>4, <2>8
<1> QED BY <1>3, <1>6, <1>7 DEF WInv, LiveMarked, LiveDisjoint

(* A live block is a block of one zone, and marked in it.                  *)
LEMMA LiveIs ==
    ASSUME WInv, NEW x \in live
    PROVE  /\ x = <<x[1], x[2]>> /\ x[1] \in Nat /\ x[2] \in Orders
           /\ IsAligned(x[1], x[2])
           /\ \E z \in Zones :
                 /\ x[1] \in Blocks(z, x[2])
                 /\ InZone(z, x[1], x[2])
                 /\ \A m \in 0 .. x[2] : Inside(x[1], x[2], m) \subseteq bmap[z][m]
                 /\ \A y \in Zones : InZone(y, x[1], x[2]) => y = z
<1>1. x = <<x[1], x[2]>> /\ x[1] \in Nat /\ x[2] \in Orders
  BY DEF WInv, TypeOK
<1>2. PICK z \in Zones :
         /\ x[1] \in Blocks(z, x[2])
         /\ \A m \in 0 .. x[2] : Inside(x[1], x[2], m) \subseteq bmap[z][m]
  BY DEF WInv, LiveMarked
<1>3. IsAligned(x[1], x[2])
  BY <1>1, <1>2, BlocksType
<1>4. InZone(z, x[1], x[2])
  BY <1>1, <1>2, <1>3, BlocksAre
<1>5. ASSUME NEW y \in Zones, InZone(y, x[1], x[2]) PROVE y = z
  <2>1. x[1] \in Blocks(y, x[2])
    BY <1>1, <1>3, <1>5, BlocksAre
  <2>2. x[1] \in Pages(x[1], x[2])
    BY <1>1, SizeType DEF Pages
  <2> QED BY <1>1, <1>2, <2>1, <2>2, ZonesApart
<1> QED BY <1>1, <1>2, <1>3, <1>4, <1>5

(* A block whose bit is clear shares no page with a live one: a live block *)
(* inside it would have marked it, and a live block around it as well.     *)
LEMMA ClearApart ==
    ASSUME WInv, NEW z \in Zones, NEW j \in Orders, NEW a \in Clear(z, j),
           NEW x \in live
    PROVE  Pages(x[1], x[2]) \cap Pages(a, j) = {}
<1>1. a \in Blocks(z, j) /\ a \notin bmap[z][j] /\ a \in Nat /\ IsAligned(a, j)
  BY BlocksType DEF Clear
<1>2. SUFFICES ASSUME Pages(x[1], x[2]) \cap Pages(a, j) # {} PROVE FALSE
  OBVIOUS
<1> DEFINE c == x[1]
           i == x[2]
<1>3. PICK y \in Zones :
         /\ c \in Nat /\ i \in Orders /\ IsAligned(c, i) /\ c \in Blocks(y, i)
         /\ \A m \in 0 .. i : Inside(c, i, m) \subseteq bmap[y][m]
  BY LiveIs
<1>4. Pages(c, i) \cap Pages(a, j) # {}
  BY <1>2
<1> HIDE DEF c, i
<1>5. y = z
  BY <1>1, <1>3, <1>4, ZonesApart
<1>6. i \in Nat /\ j \in Nat
  BY <1>3, SizeType
<1>7. CASE j <= i
  <2>1. j \in 0 .. i
    BY <1>6, <1>7
  <2>2. a \in Inside(c, i, j)
    BY <1>1, <1>3, <1>4, <2>1, InsideIs
  <2> QED BY <1>1, <1>3, <1>5, <2>1, <2>2
<1>8. CASE i < j
  <2>1. i \in 0 .. i /\ j \in i .. MAX_ORDER - 1
    BY <1>6, <1>8, OrderAssumption DEF Orders
  <2>2. c \in bmap[z][i]
    <3>1. c \in Pages(c, i)
      BY <1>3, SizeType DEF Pages
    <3>2. c \in Inside(c, i, i)
      BY <1>3, <2>1, <3>1, InsideIs
    <3> QED BY <1>3, <1>5, <2>1, <3>2
  <2>3. a = AlignDown(c, j)
    BY <1>1, <1>3, <1>4, <2>1, Around
  <2> QED BY <1>1, <1>3, <2>1, <2>2, <2>3 DEF WInv, UpClosed
<1> QED BY <1>6, <1>7, <1>8

LEMMA AllocUp ==
    ASSUME TypeOK, NEW z \in Zones, UpClosed(z, bmap[z]),
           NEW j \in Orders, NEW a \in Clear(z, j)
    PROVE  /\ UpClosed(z, Marked(z, a, j))
           /\ \A m \in 0 .. j : Inside(a, j, m) \subseteq Marked(z, a, j)[m]
           /\ \A m \in Orders : bmap[z][m] \subseteq Marked(z, a, j)[m]
<1> DEFINE bm == bmap[z]
           above == MarkAbove(z, a, j)
           new == Marked(z, a, j)
           B(m) == AlignDown(a, m)
<1>1. /\ a \in Blocks(z, j) /\ a \in Nat /\ IsAligned(a, j) /\ a \in Pages(a, j)
      /\ j \in Nat /\ j \in 0 .. j
  BY BlocksType, SizeType DEF Clear, Pages
<1>2. above \in SUBSET (j + 1 .. MAX_ORDER - 1)
  BY DEF MarkAbove
<1>3. \A m \in Orders : new[m] = bm[m] \cup Touched(a, j, above, m)
  BY DEF Marked
<1>4. \A m \in Orders : bm[m] \subseteq Nat
  BY DEF TypeOK
<1>5. \A i \in Orders : \A b \in bm[i] : \A m \in i .. MAX_ORDER - 1 :
        AlignDown(b, m) \in Blocks(z, m) => AlignDown(b, m) \in bm[m]
  BY DEF UpClosed
<1> HIDE DEF new, above, bm
<1>0. \A m \in Orders :
         /\ m <= j => Touched(a, j, above, m) = Inside(a, j, m)
         /\ m \in above => Touched(a, j, above, m) = {AlignDown(a, m)}
         /\ m > j /\ m \notin above => Touched(a, j, above, m) = {}
  BY <1>1, <1>2, TouchedAll
<1>6. ASSUME NEW m \in 0 .. j PROVE m \in Orders /\ Inside(a, j, m) \subseteq new[m]
  <2>1. m \in Orders /\ m <= j
    BY OrderAssumption DEF Orders
  <2>2. Touched(a, j, above, m) = Inside(a, j, m)
    BY <1>1, <1>2, <2>1, TouchedIs
  <2> QED BY <1>3, <2>1, <2>2
<1>7. ASSUME NEW m \in j .. MAX_ORDER - 1, B(m) \in Blocks(z, m)
      PROVE  B(m) \in new[m]
  <2>1. m \in Orders /\ m \in Nat
    BY <1>1, <1>7, Around, SizeType
  <2>2. CASE m = j
    <3>1. B(m) = a /\ a \in Inside(a, j, j)
      BY <1>1, <2>2, AlignDownAligned, InsideIs
    <3> QED BY <1>1, <1>6, <2>2, <3>1
  <2>3. CASE m \in above
    <3>1. Touched(a, j, above, m) = {AlignDown(a, m)}
      BY <1>1, <1>2, <2>1, <2>3, TouchedIs
    <3> QED BY <1>3, <2>1, <3>1
  <2>4. CASE m # j /\ m \notin above
    <3>1. m \in j + 1 .. MAX_ORDER - 1
      BY <1>1, <1>7, <2>1, <2>4
    <3>2. PICK l \in j + 1 .. m : \/ ~ InZone(z, AlignDown(a, l), l)
                                  \/ AlignDown(a, l) \in bm[l]
      BY <2>4, <3>1 DEF above, MarkAbove, bm
    <3>3. l \in j .. m /\ l \in j .. MAX_ORDER - 1 /\ m \in l .. MAX_ORDER - 1
      BY <1>1, <2>1, <3>1, <3>2, OrderAssumption
    <3>4. /\ InZone(z, B(l), l)
          /\ B(l) \in Blocks(z, l)
          /\ Pages(B(l), l) \subseteq Pages(B(m), m)
      BY <1>1, <1>7, <3>3, AroundInZone
    <3>5. /\ l \in Orders /\ B(l) \in Nat /\ IsAligned(B(l), l)
          /\ Pages(a, j) \subseteq Pages(B(l), l)
      BY <1>1, <3>3, Around
    <3>6. B(l) \in bm[l] /\ a \in Pages(B(l), l)
      BY <1>1, <3>2, <3>4, <3>5
    <3>7. B(m) \in Nat /\ IsAligned(B(m), m)
      BY <1>1, <1>7, Around
    <3>8. Pages(B(m), m) \cap Pages(B(l), l) # {}
      BY <3>4, <3>6
    <3> HIDE DEF B
    <3>9. B(m) = AlignDown(B(l), m)
      BY <3>3, <3>5, <3>7, <3>8, Around
    <3>10. B(m) \in bm[m]
      BY <1>5, <1>7, <3>3, <3>5, <3>6, <3>9
    <3> QED BY <1>3, <2>1, <3>10
  <2> QED BY <2>2, <2>3, <2>4
<1>8. ASSUME NEW i \in Orders, NEW b \in new[i], NEW m \in i .. MAX_ORDER - 1,
             AlignDown(b, m) \in Blocks(z, m)
      PROVE  AlignDown(b, m) \in new[m]
  <2>1. CASE b \in bm[i]
    <3>1. b \in Blocks(z, i) /\ b \in Nat /\ IsAligned(b, i)
      BY <2>1, BlocksType DEF TypeOK, bm
    <3>2. m \in Orders
      BY <3>1, Around
    <3> QED BY <1>3, <1>5, <1>8, <2>1, <3>2
  <2>2. CASE b \in Touched(a, j, above, i)
    <3>1. /\ i \in Nat /\ b \in Nat /\ IsAligned(b, i)
          /\ Pages(b, i) \cap Pages(a, j) # {}
      <4>1. i \in Nat
        BY SizeType
      <4>2. CASE i <= j
        <5>1. i \in 0 .. j /\ b \in Inside(a, j, i)
          BY <1>0, <2>2, <4>1, <4>2
        <5>2. b \in Nat /\ IsAligned(b, i)
          BY <1>1, <5>1, SizeType DEF Inside
        <5> QED BY <1>1, <4>1, <5>1, <5>2, InsideIs
      <4>3. CASE ~ (i <= j)
        <5>1. i \in above /\ b = AlignDown(a, i)
          BY <1>1, <1>2, <2>2, <4>1, <4>3, TouchedIs
        <5>2. i \in j .. MAX_ORDER - 1
          BY <1>1, <1>2, <5>1
        <5>3. b \in Nat /\ IsAligned(b, i) /\ Pages(a, j) \subseteq Pages(b, i)
          BY <1>1, <5>1, <5>2, Around
        <5> QED BY <1>1, <4>1, <5>3
      <4> QED BY <4>2, <4>3
    <3> DEFINE c == AlignDown(b, m)
    <3>2. /\ m \in Orders /\ c \in Nat /\ IsAligned(c, m)
          /\ Pages(b, i) \subseteq Pages(c, m)
      BY <3>1, Around
    <3>3. Pages(c, m) \cap Pages(a, j) # {} /\ m \in Nat
      BY <3>1, <3>2, SizeType
    <3>4. c \in Blocks(z, m)
      BY <1>8
    <3> HIDE DEF c
    <3>5. CASE m <= j
      <4>1. m \in 0 .. j
        BY <3>3, <3>5
      <4> QED BY <1>1, <1>6, <3>2, <3>3, <4>1, InsideIs DEF c
    <3>6. CASE ~ (m <= j)
      <4>1. m \in j .. MAX_ORDER - 1
        BY <1>1, <3>3, <3>6, OrderAssumption
      <4>2. c = AlignDown(a, m)
        BY <1>1, <3>2, <3>3, <4>1, Around
      <4> QED BY <1>7, <3>4, <4>1, <4>2 DEF c
    <3> QED BY <3>5, <3>6
  <2> QED BY <1>3, <2>1, <2>2
<1>9. UpClosed(z, new)
  BY <1>8 DEF UpClosed
<1> QED BY <1>3, <1>6, <1>9 DEF new, bm

(* free clears a larger block only with all that is inside it: at the      *)
(* order where block b is in the other half of what is merged, that half   *)
(* was marked and stopped the merge.                                       *)
LEMMA FreeUp ==
    ASSUME TypeOK, NEW z \in Zones, UpClosed(z, bmap[z]),
           NEW j \in Orders, NEW a \in Blocks(z, j)
    PROVE  UpClosed(z, Cleared(z, a, j))
<1> DEFINE bm == bmap[z]
           above == ClearAbove(z, a, j)
           new == Cleared(z, a, j)
           B(m) == AlignDown(a, m)
<1>1. /\ a \in Nat /\ IsAligned(a, j) /\ a \in Pages(a, j)
      /\ j \in Nat /\ j \in 0 .. j
  BY BlocksType, SizeType DEF Pages
<1>2. above \in SUBSET (j + 1 .. MAX_ORDER - 1)
  BY DEF ClearAbove
<1>3. \A m \in Orders : new[m] = bm[m] \ Touched(a, j, above, m)
  BY DEF Cleared
<1>4. \A i \in Orders : \A b \in bm[i] : \A m \in i .. MAX_ORDER - 1 :
        AlignDown(b, m) \in Blocks(z, m) => AlignDown(b, m) \in bm[m]
  BY DEF UpClosed
<1>5. \A m \in above : \A l \in j + 1 .. m :
         /\ l \in above
         /\ InZone(z, B(l), l)
         /\ {B(l), B(l) + BlockPages[l - 1]} \cap bm[l - 1] \subseteq {B(l - 1)}
  BY <1>1, OrderAssumption DEF ClearAbove
<1> HIDE DEF new, above, bm
<1>0. \A m \in Orders :
         /\ m <= j => Touched(a, j, above, m) = Inside(a, j, m)
         /\ m \in above => Touched(a, j, above, m) = {AlignDown(a, m)}
         /\ m > j /\ m \notin above => Touched(a, j, above, m) = {}
  BY <1>1, <1>2, TouchedAll
<1>6. SUFFICES ASSUME NEW i \in Orders, NEW b \in new[i], NEW m \in i .. MAX_ORDER - 1,
                      AlignDown(b, m) \in Blocks(z, m),
                      AlignDown(b, m) \notin new[m]
               PROVE  FALSE
  BY DEF UpClosed, new
<1>7. b \in bm[i] /\ b \notin Touched(a, j, above, i)
  BY <1>3
<1>8. b \in Blocks(z, i) /\ b \in Nat /\ IsAligned(b, i) /\ b \in Pages(b, i) /\ i \in Nat
  BY <1>7, BlocksType, SizeType DEF TypeOK, bm, Pages
<1> DEFINE c == AlignDown(b, m)
<1>9. /\ m \in Orders /\ c \in Nat /\ IsAligned(c, m) /\ m \in Nat /\ i \in 0 .. m
      /\ Pages(b, i) \subseteq Pages(c, m)
  BY <1>8, Around, SizeType
<1>10. c \in Blocks(z, m) /\ c \in Touched(a, j, above, m)
  BY <1>3, <1>4, <1>6, <1>7, <1>9
<1> HIDE DEF c
<1>11. Pages(b, i) \cap Pages(a, j) = {} \/ ~ (i <= j \/ i \in above)
  <2>1. SUFFICES ASSUME Pages(b, i) \cap Pages(a, j) # {}, i <= j \/ i \in above
                 PROVE  FALSE
    OBVIOUS
  <2>2. CASE i <= j
    <3>1. i \in 0 .. j
      BY <1>8, <2>2
    <3>2. b \in Inside(a, j, i)
      BY <1>1, <1>8, <2>1, <3>1, InsideIs
    <3> QED BY <1>0, <1>7, <2>2, <3>2
  <2>3. CASE i \in above
    <3>1. i \in j .. MAX_ORDER - 1
      BY <1>1, <1>2, <2>3
    <3>2. b = AlignDown(a, i)
      BY <1>1, <1>8, <2>1, <3>1, Around
    <3> QED BY <1>0, <1>7, <2>3, <3>2
  <2> QED BY <2>1, <2>2, <2>3
<1>12. CASE m <= j
  <2>1. m \in 0 .. j /\ c \in Inside(a, j, m)
    BY <1>1, <1>2, <1>9, <1>10, <1>12, TouchedIs
  <2>2. Pages(c, m) \subseteq Pages(a, j)
    BY <1>1, <1>9, <2>1, InsideIs
  <2>3. i <= j
    BY <1>1, <1>8, <1>9, <1>12
  <2> QED BY <1>8, <1>9, <1>11, <2>2, <2>3
<1>13. CASE ~ (m <= j)
  <2>1. m \in above /\ c = B(m)
    <3>1. m \in above
      <4>1. SUFFICES ASSUME m \notin above PROVE FALSE
        OBVIOUS
      <4>2. m > j
        BY <1>1, <1>9, <1>13
      <4> QED BY <1>0, <1>9, <1>10, <4>1, <4>2
    <3>2. c \in {AlignDown(a, m)}
      BY <1>0, <1>9, <1>10, <3>1
    <3> QED BY <3>1, <3>2
  <2>2. m \in j + 1 .. m /\ m \in j .. MAX_ORDER - 1
    BY <1>1, <1>2, <1>9, <2>1
  <2>3. i <= j \/ i \in above
    <3>1. CASE i <= j
      BY <3>1
    <3>2. CASE ~ (i <= j)
      <4>1. i \in j + 1 .. m
        BY <1>1, <1>8, <1>9, <3>2
      <4> QED BY <1>5, <2>1, <4>1
    <3> QED BY <3>1, <3>2
  <2>4. Pages(b, i) \cap Pages(a, j) = {}
    BY <1>11, <2>3
  <2>5. ASSUME NEW l \in j + 1 .. m
        PROVE  /\ l \in Orders /\ l - 1 \in Orders /\ l - 1 \in 0 .. l /\ l > 0
               /\ l \in Nat /\ l \in j .. m /\ l - 1 \in j .. m
               /\ l - 1 \in j .. MAX_ORDER - 1
               /\ l \in j .. MAX_ORDER - 1
    BY <1>1, <1>9, <2>2, OrderAssumption DEF Orders
  <2>6. ASSUME NEW l \in j + 1 .. m
        PROVE  /\ B(l) \in Nat /\ IsAligned(B(l), l) /\ B(l) \in Blocks(z, l)
               /\ Pages(a, j) \subseteq Pages(B(l), l)
               /\ B(l - 1) \in Nat /\ IsAligned(B(l - 1), l - 1)
               /\ Pages(a, j) \subseteq Pages(B(l - 1), l - 1)
    BY <1>1, <1>10, <2>1, <2>2, <2>5, Around, AroundInZone
  <2>7. B(j) = a
    BY <1>1, AlignDownAligned
  <2> HIDE DEF B
  <2> DEFINE S == {l \in j + 1 .. m : b \in Pages(B(l), l)}
  <2>8. m \in S /\ S \subseteq Nat
    BY <1>1, <1>8, <1>9, <2>1, <2>2
  <2>9. PICK l \in S : \A k \in S : l <= k
    <3> HIDE DEF S
    <3> QED BY <2>8, LeastNat
  <2>10. b \notin Pages(B(l - 1), l - 1)
    <3>1. CASE l - 1 = j
      BY <1>8, <2>4, <2>7, <3>1
    <3>2. CASE l - 1 # j
      <4>1. l - 1 \in j + 1 .. m /\ ~ (l <= l - 1)
        BY <1>1, <1>9, <2>9, <3>2
      <4> QED BY <2>9, <4>1
    <3> QED BY <3>1, <3>2
  <2>11. l \in j + 1 .. m /\ b \in Pages(B(l), l)
    BY <2>9
  <2> HIDE DEF S
  <2>12. i <= l - 1
    <3>1. SUFFICES ASSUME ~ (i <= l - 1) PROVE FALSE
      OBVIOUS
    <3>2. l \in 0 .. i
      BY <1>8, <2>5, <2>11, <3>1
    <3>3. Pages(B(l), l) \cap Pages(b, i) # {}
      BY <1>8, <2>11
    <3>4. Pages(B(l), l) \subseteq Pages(b, i)
      BY <1>8, <2>6, <2>11, <3>2, <3>3, Nested
    <3> QED BY <1>1, <2>4, <2>6, <2>11, <3>4
  <2> DEFINE h == AlignDown(b, l - 1)
  <2>13. l - 1 \in i .. MAX_ORDER - 1
    BY <1>8, <2>5, <2>11, <2>12
  <2>14. /\ h \in Nat /\ IsAligned(h, l - 1) /\ b \in Pages(h, l - 1)
    BY <1>8, <2>13, Around
  <2> HIDE DEF h
  <2>15. h \in Blocks(z, l - 1) /\ Pages(h, l - 1) \subseteq Pages(B(l), l)
    BY <2>5, <2>6, <2>11, <2>14, InnerBlock
  <2>16. h \in bm[l - 1]
    BY <1>4, <1>7, <2>13, <2>15 DEF h
  <2>17. h \in Pages(B(l), l)
    <3>1. h \in Pages(h, l - 1)
      BY <2>5, <2>11, <2>14, SizeType DEF Pages
    <3> QED BY <2>15, <3>1
  <2>18. h \in {B(l), B(l) + BlockPages[l - 1]}
    BY <2>5, <2>6, <2>11, <2>14, <2>17, Halves
  <2>19. h # B(l - 1)
    BY <2>10, <2>14
  <2> QED BY <1>5, <2>1, <2>11, <2>16, <2>18, <2>19 DEF B
<1> QED BY <1>12, <1>13

LEMMA AllocWInv ==
    ASSUME WInv, NEW j \in Orders, Alloc(j)
    PROVE  WInv'
<1>1. PICK z \in Zones : \E a \in Clear(z, j) : AllocAt(z, a, j)
  BY DEF Alloc
<1>2. PICK a \in Clear(z, j) : AllocAt(z, a, j)
  BY <1>1
<1>3. /\ bmap' = [bmap EXCEPT ![z] = Marked(z, a, j)]
      /\ busy' = [busy EXCEPT ![z] = @ + BlockPages[j]]
      /\ live' = live \cup {<<a, j>>}
      /\ ret' = a
  BY <1>2 DEF AllocAt, Marked
<1>4. /\ a \in Blocks(z, j) /\ a \in Nat
      /\ \A x \in live : Pages(x[1], x[2]) \cap Pages(a, j) = {}
  BY ClearApart, BlocksType DEF Clear
<1>5. /\ Marked(z, a, j) \in [Orders -> SUBSET Nat]
      /\ \A m \in Orders : Marked(z, a, j)[m] \subseteq Blocks(z, m)
      /\ UpClosed(z, Marked(z, a, j))
      /\ \A m \in 0 .. j : Inside(a, j, m) \subseteq Marked(z, a, j)[m]
      /\ \A m \in Orders : bmap[z][m] \subseteq Marked(z, a, j)[m]
  BY AllocTyped, AllocUp DEF WInv
<1>6. bmap \in [Zones -> [Orders -> SUBSET Nat]]
  BY DEF WInv, TypeOK
<1>7. /\ bmap'[z] = Marked(z, a, j)
      /\ \A y \in Zones : y # z => bmap'[y] = bmap[y]
      /\ bmap' \in [Zones -> [Orders -> SUBSET Nat]]
  BY <1>3, <1>5, <1>6
<1>8. TypeOK'
  <2>1. \A y \in Zones, m \in Orders : bmap'[y][m] \subseteq Blocks(y, m)
    BY <1>5, <1>7 DEF WInv, TypeOK
  <2>2. busy' \in [Zones -> Int]
    BY <1>3, SizeType DEF WInv, TypeOK
  <2>3. live' \subseteq Nat \X Orders /\ ret' \in Nat
    BY <1>3, <1>4 DEF WInv, TypeOK
  <2> QED BY <1>7, <2>1, <2>2, <2>3 DEF TypeOK
<1>9. \A y \in Zones : UpClosed(y, bmap'[y])
  BY <1>5, <1>7 DEF WInv
<1>10. LiveMarked'
  <2>1. \A m \in 0 .. MAX_ORDER - 1 : \A y \in Zones : bmap[y][m] \subseteq bmap'[y][m]
    BY <1>5, <1>7 DEF Orders
  <2>2. ASSUME NEW x \in live
        PROVE  \E y \in Zones :
                  /\ x[1] \in Blocks(y, x[2])
                  /\ \A m \in 0 .. x[2] : Inside(x[1], x[2], m) \subseteq bmap'[y][m]
    <3>1. PICK y \in Zones :
             /\ x[1] \in Blocks(y, x[2])
             /\ \A m \in 0 .. x[2] : Inside(x[1], x[2], m) \subseteq bmap[y][m]
      BY DEF WInv, LiveMarked
    <3>2. \A m \in 0 .. x[2] : m \in 0 .. MAX_ORDER - 1
      BY LiveIs, OrderAssumption DEF Orders
    <3> QED BY <2>1, <3>1, <3>2
  <2>3. \E y \in Zones :
           /\ a \in Blocks(y, j)
           /\ \A m \in 0 .. j : Inside(a, j, m) \subseteq bmap'[y][m]
    BY <1>4, <1>5, <1>7
  <2> QED BY <1>3, <2>2, <2>3 DEF LiveMarked
<1>11. LiveDisjoint'
  BY <1>3, <1>4 DEF WInv, LiveDisjoint
<1> QED BY <1>8, <1>9, <1>10, <1>11 DEF WInv

LEMMA FreeWInv ==
    ASSUME WInv, NEW a, NEW j, Free(a, j)
    PROVE  WInv'
<1> DEFINE e == <<a, j>>
<1>1. e \in live /\ e[1] = a /\ e[2] = j
  BY DEF Free
<1>2. PICK z \in Zones :
         /\ FreeIn(z, a, j)
         /\ bmap' = [bmap EXCEPT ![z] = Cleared(z, a, j)]
         /\ busy' = [busy EXCEPT ![z] = @ - BlockPages[j]]
  BY DEF Free, Cleared
<1>3. live' = live \ {e} /\ ret' = 0
  BY DEF Free
<1> HIDE DEF e
<1>4. a \in Nat /\ j \in Orders /\ IsAligned(a, j) /\ a \in Blocks(z, j)
  BY <1>1, <1>2, LiveIs, BlocksAre DEF FreeIn
<1>5. bmap \in [Zones -> [Orders -> SUBSET Nat]]
  BY DEF WInv, TypeOK
<1>6. /\ Cleared(z, a, j) \in [Orders -> SUBSET Nat]
      /\ \A m \in Orders : Cleared(z, a, j)[m] =
             bmap[z][m] \ Touched(a, j, ClearAbove(z, a, j), m)
  BY <1>5 DEF Cleared
<1>7. UpClosed(z, Cleared(z, a, j))
  BY <1>4, FreeUp DEF WInv
<1>8. /\ bmap'[z] = Cleared(z, a, j)
      /\ \A y \in Zones : y # z => bmap'[y] = bmap[y]
      /\ bmap' \in [Zones -> [Orders -> SUBSET Nat]]
  BY <1>2, <1>5, <1>6
<1>9. TypeOK'
  <2>1. \A y \in Zones, m \in Orders : bmap'[y][m] \subseteq Blocks(y, m)
    BY <1>6, <1>8 DEF WInv, TypeOK
  <2>2. busy' \in [Zones -> Int]
    BY <1>2, <1>4, SizeType DEF WInv, TypeOK
  <2>3. live' \subseteq Nat \X Orders /\ ret' \in Nat
    BY <1>3 DEF WInv, TypeOK
  <2> QED BY <1>8, <2>1, <2>2, <2>3 DEF TypeOK
<1>10. \A y \in Zones : UpClosed(y, bmap'[y])
  BY <1>7, <1>8 DEF WInv
<1>11. LiveMarked'
  <2>1. SUFFICES ASSUME NEW x \in live, x # e
                 PROVE  \E y \in Zones :
                  /\ x[1] \in Blocks(y, x[2])
                  /\ \A m \in 0 .. x[2] : Inside(x[1], x[2], m) \subseteq bmap'[y][m]
    BY <1>3 DEF LiveMarked
  <2> DEFINE c == x[1]
             i == x[2]
             above == ClearAbove(z, a, j)
  <2>2. PICK y \in Zones :
           /\ c \in Nat /\ i \in Orders /\ IsAligned(c, i) /\ c \in Blocks(y, i)
           /\ \A m \in 0 .. i : Inside(c, i, m) \subseteq bmap[y][m]
    BY LiveIs
  <2>3. Pages(c, i) \cap Pages(a, j) = {}
    BY <1>1, <2>1 DEF WInv, LiveDisjoint
  <2> HIDE DEF c, i
  <2>4. CASE y # z
    BY <1>8, <2>2, <2>4 DEF c, i
  <2>5. CASE y = z
    <3>0. \A m \in Orders :
             /\ m <= j => Touched(a, j, above, m) = Inside(a, j, m)
             /\ m \in above => Touched(a, j, above, m) = {AlignDown(a, m)}
             /\ m > j /\ m \notin above => Touched(a, j, above, m) = {}
      BY <1>4, TouchedAll DEF ClearAbove
    <3>1. ASSUME NEW m \in 0 .. i, NEW q \in Inside(c, i, m)
          PROVE  q \notin Touched(a, j, above, m)
      <4>1. /\ m \in Orders /\ m \in Nat /\ j \in Nat
            /\ above \in SUBSET (j + 1 .. MAX_ORDER - 1)
        BY <1>4, <2>2, SizeType, OrderAssumption DEF Orders, ClearAbove
      <4>2. q \in Nat /\ IsAligned(q, m)
        BY <2>2, <4>1, <3>1, SizeType DEF Inside
      <4>3. q \in Pages(q, m) /\ Pages(q, m) \subseteq Pages(c, i)
        BY <2>2, <3>1, <4>1, <4>2, InsideIs, SizeType DEF Pages
      <4>4. Pages(q, m) \cap Pages(a, j) = {}
        BY <2>3, <4>3
      <4> HIDE DEF above
      <4>5. CASE m <= j
        <5>1. m \in 0 .. j
          BY <4>1, <4>5
        <5>2. q \notin Inside(a, j, m)
          BY <1>4, <4>2, <4>4, <5>1, InsideIs
        <5> QED BY <3>0, <4>1, <4>5, <5>2
      <4>6. CASE m \in above
        <5>1. m \in j .. MAX_ORDER - 1
          BY <4>1, <4>6
        <5>2. Pages(a, j) \subseteq Pages(AlignDown(a, m), m)
          BY <1>4, <5>1, Around
        <5>3. a \in Pages(a, j)
          BY <1>4, SizeType DEF Pages
        <5>4. q # AlignDown(a, m)
          BY <4>4, <5>2, <5>3
        <5> QED BY <3>0, <4>1, <4>6, <5>4
      <4>7. CASE ~ (m <= j) /\ m \notin above
        <5>1. m > j
          BY <4>1, <4>7
        <5> QED BY <3>0, <4>1, <4>7, <5>1
      <4> QED BY <4>5, <4>6, <4>7
    <3>2. ASSUME NEW m \in 0 .. i PROVE Inside(c, i, m) \subseteq bmap'[z][m]
      <4>1. m \in Orders
        BY <2>2, OrderAssumption DEF Orders
      <4> QED BY <1>6, <1>8, <2>2, <2>5, <3>1, <4>1
    <3> QED BY <2>2, <2>5, <3>2 DEF c, i
  <2> QED BY <2>4, <2>5
<1>12. LiveDisjoint'
  BY <1>3 DEF WInv, LiveDisjoint
<1> QED BY <1>9, <1>10, <1>11, <1>12 DEF WInv

LEMMA NextWInv == WInv /\ [Next]_vars => WInv'
<1> SUFFICES ASSUME WInv, [Next]_vars PROVE WInv'
  OBVIOUS
<1>1. ASSUME NEW j \in Orders, Alloc(j) PROVE WInv'
  BY <1>1, AllocWInv
<1>2. ASSUME NEW j \in Orders, AllocFails(j) PROVE WInv'
  BY <1>2 DEF AllocFails, WInv, TypeOK, LiveMarked, LiveDisjoint
<1>3. ASSUME NEW x \in live, Free(x[1], x[2]) PROVE WInv'
  BY <1>3, FreeWInv
<1>4. CASE UNCHANGED vars
  BY <1>4 DEF vars, WInv, TypeOK, LiveMarked, LiveDisjoint
<1> QED BY <1>1, <1>2, <1>3, <1>4 DEF Next

LEMMA WeakInvariance == Spec => []WInv
<1>1. Init => WInv
  BY InitWInv
<1>2. WInv /\ [Next]_vars => WInv'
  BY NextWInv
<1> QED BY <1>1, <1>2, PTL DEF Spec

(* No page is in two blocks that callers hold, whatever the uninitialised  *)
(* counter of _page_reserve has held for each of the pages reserved.       *)
THEOREM NeverTwice == Spec => []LiveDisjoint
<1>1. WInv => LiveDisjoint
  BY DEF WInv
<1> QED BY <1>1, WeakInvariance, PTL

(* The assertions in _free hold whenever a caller gives back a block that  *)
(* alloc returned, with the order it asked for, whatever that counter held. *)
THEOREM FreeAssertions == Spec => []FreeNeverAsserts
<1>1. WInv => FreeNeverAsserts
  <2> SUFFICES ASSUME WInv, NEW x \in live
               PROVE  /\ IsAligned(x[1], x[2])
                      /\ \E z \in Zones : FreeIn(z, x[1], x[2])
    BY DEF FreeNeverAsserts
  <2>1. PICK z \in Zones :
           /\ IsAligned(x[1], x[2])
           /\ InZone(z, x[1], x[2])
           /\ \A y \in Zones : InZone(y, x[1], x[2]) => y = z
    BY LiveIs
  <2>2. \A y \in 1 .. z - 1 : y \in Zones /\ y # z
    BY ZoneAssumption DEF Zones
  <2> QED BY <2>1, <2>2 DEF FreeIn
<1> QED BY <1>1, WeakInvariance, PTL

----------------------------------------------------------------------------
(* The theorems.                                                           *)

(* What holds in every state, whatever blocks are asked for and given back. *)
LEMMA Invariance ==
    ASSUME StartOrders = {0}
    PROVE  Spec => []IInv
<1>1. Init => IInv
  BY InitIInv
<1>2. IInv /\ [Next]_vars => IInv'
  BY NextIInv
<1> QED BY <1>1, <1>2, PTL DEF Spec

(* The bitmaps of all orders agree on what is in use, and no page is in    *)
(* two blocks that callers hold.                                           *)
THEOREM Safety ==
    ASSUME StartOrders = {0}
    PROVE  Spec => [](TypeOK /\ BitmapsAgree /\ LiveDisjoint)
<1>1. IInv => TypeOK /\ BitmapsAgree /\ LiveDisjoint
  BY DEF IInv
<1> QED BY <1>1, Invariance, PTL

(* No page is lost: after any sequence of alloc and free the pages marked  *)
(* are those of the blocks that callers hold and the reserved ones.        *)
THEOREM NoPageLost ==
    ASSUME StartOrders = {0}
    PROVE  Spec => []NothingLost
<1>1. IInv => NothingLost
  BY DEF IInv
<1> QED BY <1>1, Invariance, PTL

LEMMA BitmapFinite ==
    ASSUME TypeOK, NEW z \in Zones
    PROVE  IsFiniteSet(bmap[z][0]) /\ Cardinality(bmap[z][0]) \in Nat
<1>1. bmap[z][0] \subseteq ZoneBgn(z, 0) .. ZoneEnd(z, 0) - 1
  BY PageBlocks DEF TypeOK, Blocks
<1>2. ZoneBgn(z, 0) \in Int /\ ZoneEnd(z, 0) - 1 \in Int
  BY PageBlocks, SizeType, ZoneType
     DEF ZoneEnd, ZoneBgn, BlockCount, RoundUp, RoundDown
<1>3. IsFiniteSet(ZoneBgn(z, 0) .. ZoneEnd(z, 0) - 1)
  BY <1>2, FS_Interval
<1>4. IsFiniteSet(bmap[z][0])
  BY <1>1, <1>3, FS_Subset
<1> QED BY <1>4, FS_CardinalityType

LEMMA PagesFinite ==
    ASSUME NEW j \in Orders, NEW a \in Nat
    PROVE  IsFiniteSet(Pages(a, j)) /\ Cardinality(Pages(a, j)) = BlockPages[j]
<1>1. a \in Int /\ a + BlockPages[j] - 1 \in Int /\ ~ (a > a + BlockPages[j] - 1)
  BY SizeType
<1>2. /\ IsFiniteSet(a .. a + BlockPages[j] - 1)
      /\ Cardinality(a .. a + BlockPages[j] - 1) = (a + BlockPages[j] - 1) - a + 1
  BY <1>1, FS_Interval
<1> QED BY <1>2, SizeType DEF Pages

(* zone->busy, which alloc and free add to and subtract from, is always    *)
(* the number of pages marked in the zone.                                 *)
THEOREM Counting ==
    ASSUME StartOrders = {0}
    PROVE  Spec => []BusyCounts
<1> DEFINE Inv == IInv /\ BusyCounts
<1>1. Init => Inv
  <2>1. SUFFICES ASSUME Init PROVE BusyCounts
    BY InitIInv
  <2>2. PICK start \in [ReservePages -> {0}] : bmap = ReserveAll(start)
    BY <2>1 DEF Init
  <2>3. \A z \in Zones : bmap[z][0] = Reserved(z)
    BY <2>2, ReserveAgrees
  <2> QED BY <2>1, <2>3 DEF Init, BusyCounts
<1>2. Inv /\ [Next]_vars => Inv'
  <2> SUFFICES ASSUME Inv, [Next]_vars PROVE BusyCounts'
    BY NextIInv
  <2>1. TypeOK /\ BusyCounts /\ IInv
    BY DEF IInv
  <2>2. ASSUME NEW j \in Orders, Alloc(j) PROVE BusyCounts'
    <3>1. PICK z \in Zones : \E a \in Clear(z, j) : AllocAt(z, a, j)
      BY <2>2 DEF Alloc
    <3>2. PICK a \in Clear(z, j) : AllocAt(z, a, j)
      BY <3>1
    <3>3. /\ bmap' = [bmap EXCEPT ![z] = Marked(z, a, j)]
          /\ busy' = [busy EXCEPT ![z] = @ + BlockPages[j]]
      BY <3>2 DEF AllocAt, Marked
    <3>4. a \in Nat /\ Pages(a, j) \cap bmap[z][0] = {}
      BY <2>1, ClearBlock
    <3>5. Marked(z, a, j)[0] = bmap[z][0] \cup Pages(a, j)
      BY <2>1, AllocAgrees DEF IInv
    <3>6. Cardinality(bmap[z][0] \cup Pages(a, j)) =
             Cardinality(bmap[z][0]) + BlockPages[j]
      <4>1. /\ Cardinality(bmap[z][0] \cup Pages(a, j)) =
                 Cardinality(bmap[z][0]) + Cardinality(Pages(a, j))
                    - Cardinality(bmap[z][0] \cap Pages(a, j))
        BY <2>1, <3>4, BitmapFinite, PagesFinite, FS_Union
      <4>2. Cardinality(bmap[z][0] \cap Pages(a, j)) = 0
        BY <3>4, FS_EmptySet
      <4> QED BY <2>1, <3>4, <4>1, <4>2, BitmapFinite, PagesFinite, SizeType
    <3>7. ASSUME NEW y \in Zones PROVE busy'[y] = Cardinality(bmap'[y][0])
      BY <2>1, <3>3, <3>5, <3>6 DEF TypeOK, BusyCounts
    <3> QED BY <3>7 DEF BusyCounts
  <2>3. ASSUME NEW j \in Orders, AllocFails(j) PROVE BusyCounts'
    BY <2>1, <2>3 DEF AllocFails, BusyCounts
  <2>4. ASSUME NEW x \in live, Free(x[1], x[2]) PROVE BusyCounts'
    <3> DEFINE a == x[1]
               j == x[2]
    <3>1. PICK z \in Zones :
             /\ FreeIn(z, a, j)
             /\ bmap' = [bmap EXCEPT ![z] = Cleared(z, a, j)]
             /\ busy' = [busy EXCEPT ![z] = @ - BlockPages[j]]
      BY <2>4 DEF Free, Cleared
    <3>2. /\ a \in Nat /\ j \in Orders /\ a \in Blocks(z, j)
          /\ Pages(a, j) \subseteq bmap[z][0]
      BY <2>1, <3>1, LiveBlock DEF IInv, FreeIn
    <3> HIDE DEF a, j
    <3>3. Cleared(z, a, j)[0] = bmap[z][0] \ Pages(a, j)
      BY <2>1, <3>2, FreeAgrees DEF IInv
    <3>4. Cardinality(bmap[z][0] \ Pages(a, j)) =
             Cardinality(bmap[z][0]) - BlockPages[j]
      <4>1. bmap[z][0] \cap Pages(a, j) = Pages(a, j)
        BY <3>2
      <4>2. IsFiniteSet(bmap[z][0])
        BY <2>1, BitmapFinite
      <4>3. Cardinality(bmap[z][0] \ Pages(a, j)) =
               Cardinality(bmap[z][0]) - Cardinality(bmap[z][0] \cap Pages(a, j))
        BY <4>2, FS_Difference
      <4>4. Cardinality(Pages(a, j)) = BlockPages[j]
        BY <3>2, PagesFinite
      <4> QED BY <4>1, <4>3, <4>4
    <3>5. ASSUME NEW y \in Zones PROVE busy'[y] = Cardinality(bmap'[y][0])
      BY <2>1, <3>1, <3>3, <3>4 DEF TypeOK, BusyCounts
    <3> QED BY <3>5 DEF BusyCounts
  <2>5. CASE UNCHANGED vars
    BY <2>1, <2>5 DEF vars, BusyCounts
  <2> QED BY <2>2, <2>3, <2>4, <2>5 DEF Next
<1>3. Inv => BusyCounts
  OBVIOUS
<1> HIDE DEF Inv
<1> QED BY <1>1, <1>2, <1>3, PTL DEF Spec

(* The bitmap allocator implements PageAllocator: alloc returns an aligned *)
(* block of free pages of a zone, and returns 0 only when there is none.   *)
THEOREM Refinement ==
    ASSUME StartOrders = {0}
    PROVE  Spec => ImplementsPageAllocator
<1>1. Init => IInv
  BY InitIInv
<1>2. IInv /\ [Next]_vars => IInv'
  BY NextIInv
<1>3. Init => Abstract!Init
  BY DEF Init, Abstract!Init
<1>4. IInv /\ [Next]_vars => [Abstract!Next]_(Abstract!avars)
  <2> SUFFICES ASSUME IInv, [Next]_vars PROVE [Abstract!Next]_(Abstract!avars)
    OBVIOUS
  <2> DEFINE Candidate == [j \in Orders |-> UNION {Blocks(z, j) : z \in Zones}]
             Withheld == UNION {Reserved(z) : z \in Zones}
  <2>1. ASSUME NEW j \in Orders, Alloc(j) PROVE Abstract!Get(j)
    <3>1. PICK z \in Zones : \E a \in Clear(z, j) : AllocAt(z, a, j)
      BY <2>1 DEF Alloc
    <3>2. PICK a \in Clear(z, j) : AllocAt(z, a, j)
      BY <3>1
    <3>3. /\ a \in Blocks(z, j)
          /\ \A x \in live : Pages(x[1], x[2]) \cap Pages(a, j) = {}
          /\ \A y \in Zones : Pages(a, j) \cap Reserved(y) = {}
      BY ClearBlock
    <3>4. a \in Candidate[j]
      BY <3>3
    <3>5. Abstract!Available(a, j)
      BY <3>3 DEF Abstract!Available, Abstract!Extent, Pages
    <3>6. live' = live \cup {<<a, j>>} /\ ret' = a
      BY <3>2 DEF AllocAt
    <3> QED BY <3>4, <3>5, <3>6 DEF Abstract!Get
  <2>2. ASSUME NEW j \in Orders, AllocFails(j) PROVE Abstract!Refuse(j)
    <3>1. ASSUME NEW a \in Candidate[j] PROVE ~ Abstract!Available(a, j)
      <4>1. PICK z \in Zones : a \in Blocks(z, j)
        BY <3>1
      <4>2. a \in bmap[z][j]
        BY <2>2, <4>1 DEF AllocFails, Clear
      <4>3. PICK p \in Pages(a, j) : p \in bmap[z][0]
        BY <4>1, <4>2 DEF IInv, BitmapsAgree
      <4>4. \/ p \in Reserved(z)
            \/ \E x \in live : p \in Pages(x[1], x[2])
        BY <4>3 DEF IInv, NothingLost
      <4> QED BY <4>3, <4>4 DEF Abstract!Available, Abstract!Extent, Pages
    <3> QED BY <2>2, <3>1 DEF AllocFails, Abstract!Refuse
  <2>3. ASSUME NEW x \in live, Free(x[1], x[2]) PROVE Abstract!Put(x)
    <3>1. x = <<x[1], x[2]>>
      BY <2>3, LiveBlock DEF IInv
    <3> QED BY <2>3, <3>1 DEF Free, Abstract!Put
  <2>4. CASE UNCHANGED vars
    BY <2>4 DEF vars, Abstract!avars
  <2> QED BY <2>1, <2>2, <2>3, <2>4 DEF Next, Abstract!Next
<1> QED BY <1>1, <1>2, <1>3, <1>4, PTL DEF Spec, ImplementsPageAllocator, Abstract!Spec
=============================================================================
