---------------------------- MODULE PallocBitmap ----------------------------
(***************************************************************************)
(* The bitmap physical page allocator, kernel/mm/palloc_bitmap.c.          *)
(*                                                                         *)
(* A zone is a run of physical pages.  For each order j it has a bitmap    *)
(* with one bit per naturally aligned block of 2^j pages that lies in the  *)
(* zone.  A bit is set when some page of its block is in use.  alloc takes *)
(* the first clear bit of the requested order and brings the bitmaps below *)
(* and above it up to date; free clears the block and merges upwards.      *)
(*                                                                         *)
(* Addresses are page numbers (an address is a page number shifted left by *)
(* PAGE_LOG_SIZE); the bit of a block is named by the block's first page,  *)
(* so the 64-bit words of a bitmap are abstracted to the set of blocks     *)
(* whose bit is set.                                                       *)
(***************************************************************************)
EXTENDS Integers, FiniteSets

CONSTANTS
    MAX_ORDER,    (* The number of orders.                                 *)
    BlockPages,   (* BlockPages[j] is the size of an order-j block, 2^j.   *)
    ZoneCount,    (* The number of zones, numbered in list order.          *)
    ZoneBase,     (* The first page of each zone.                          *)
    ZoneSize,     (* The number of pages of each zone.                     *)
    TakenBgn,     (* The previous allocator has handed out the pages from  *)
    TakenEnd,     (* TakenBgn to TakenEnd - 1.                             *)
    StartOrders   (* What the uninitialised counter of _page_reserve may   *)
                  (* hold when its loop starts.                            *)

Orders == 0 .. MAX_ORDER - 1
Zones  == 1 .. ZoneCount

ASSUME OrderAssumption ==
    /\ MAX_ORDER \in Nat \ {0}
    /\ BlockPages \in [Orders -> Nat \ {0}]
    /\ BlockPages[0] = 1
    /\ \A j \in Orders : j > 0 => BlockPages[j] = 2 * BlockPages[j - 1]

(* Zones come from the sanitised e820 map: they are disjoint, and page 0   *)
(* is never part of one (e820_init reserves it).                           *)
ASSUME ZoneAssumption ==
    /\ ZoneCount \in Nat
    /\ ZoneBase \in [Zones -> Nat \ {0}]
    /\ ZoneSize \in [Zones -> Nat]
    /\ \A y, z \in Zones : y # z =>
          \/ ZoneBase[y] + ZoneSize[y] <= ZoneBase[z]
          \/ ZoneBase[z] + ZoneSize[z] <= ZoneBase[y]

ASSUME HandoverAssumption ==
    /\ TakenBgn \in Nat
    /\ TakenEnd \in Nat
    /\ StartOrders \subseteq Nat

VARIABLES
    bmap,   (* bmap[z][j]: the order-j blocks of zone z whose bit is set.  *)
    busy,   (* busy[z]: zone->busy, the zone's count of pages in use.      *)
    live,   (* The blocks <<address, order>> that callers hold.            *)
    ret     (* The address the last call returned, 0 for none.             *)

vars == <<bmap, busy, live, ret>>

----------------------------------------------------------------------------
(* Geometry of a zone.                                                     *)

RoundDown(a, p) == (a \div p) * p
RoundUp(a, p)   == RoundDown(a + p - 1, p)

(* The block of order j that page a lies in: addr & ~a in the code.        *)
AlignDown(a, j) == RoundDown(a, BlockPages[j])

IsAligned(a, j) == a % BlockPages[j] = 0

(* zone->bmap[j].count.  _setup_zone leaves it 0 from the first order on   *)
(* at which no whole block fits.                                           *)
BlockCount(z, j) ==
    LET b == RoundUp(ZoneBase[z], BlockPages[j])
        e == RoundDown(ZoneBase[z] + ZoneSize[z], BlockPages[j])
    IN  IF b >= e THEN 0 ELSE (e - b) \div BlockPages[j]

ZoneBgn(z, j) == RoundUp(ZoneBase[z], BlockPages[j])
ZoneEnd(z, j) == ZoneBgn(z, j) + BlockCount(z, j) * BlockPages[j]

InZone(z, a, j) == ZoneBgn(z, j) <= a /\ a < ZoneEnd(z, j)

(* The blocks that have a bit in zone z at order j.                        *)
Blocks(z, j) == {a \in ZoneBgn(z, j) .. ZoneEnd(z, j) - 1 : IsAligned(a, j)}

(* The order-m blocks between a and a + 2^j.                               *)
Inside(a, j, m) == {b \in a .. a + BlockPages[j] - 1 : IsAligned(b, m)}

Pages(a, j) == a .. a + BlockPages[j] - 1

----------------------------------------------------------------------------
(* Taking over from the previous allocator: _init.                         *)

(* The pages that __zone_reserve passes to _page_reserve.                  *)
ReservePages == {p \in TakenBgn .. TakenEnd - 1 : p + 1 < TakenEnd}

(* The zone in which _page_reserve looks for page p.                       *)
ReserveIn(p, z) ==
    /\ ZoneBgn(z, 0) <= p /\ p + 1 < ZoneEnd(z, 0)
    /\ \A y \in 1 .. z - 1 : ~ (ZoneBgn(y, 0) <= p /\ p + 1 < ZoneEnd(y, 0))

Reserved(z) == {p \in ReservePages : ReserveIn(p, z)}

(* The orders at which _page_reserve sets a bit for page p of zone z, when *)
(* its counter starts at s.                                                *)
ReserveOrders(z, p, s) ==
    {m \in Orders : m >= s /\ \A l \in s .. m : InZone(z, AlignDown(p, l), l)}

ReserveAll(start) ==
    [z \in Zones |-> [m \in Orders |->
        {AlignDown(p, m) : p \in {q \in Reserved(z) :
                                     m \in ReserveOrders(z, q, start[q])}}]]

Init ==
    /\ \E start \in [ReservePages -> StartOrders] : bmap = ReserveAll(start)
    /\ busy = [z \in Zones |-> Cardinality(Reserved(z))]
    /\ live = {}
    /\ ret = 0

----------------------------------------------------------------------------
(* alloc and free.                                                         *)

Clear(z, j) == Blocks(z, j) \ bmap[z][j]

(* Mutant: the enclosing blocks are marked one order up only.             *)
MarkAboveOnce(z, a, j) ==
    {m \in (j + 1 .. MAX_ORDER - 1) \cap {j + 1} :
        InZone(z, AlignDown(a, m), m) /\ AlignDown(a, m) \notin bmap[z][m]}

(* The orders above j at which alloc sets a bit: up to the first order at  *)
(* which the enclosing block leaves the zone or is already marked.         *)
MarkAbove(z, a, j) ==
    {m \in j + 1 .. MAX_ORDER - 1 :
        \A l \in j + 1 .. m :
            /\ InZone(z, AlignDown(a, l), l)
            /\ AlignDown(a, l) \notin bmap[z][l]}

(* Mutant: merges without looking at the other half.                       *)
ClearAboveBlind(z, a, j) ==
    {m \in j + 1 .. MAX_ORDER - 1 :
        \A l \in j + 1 .. m : InZone(z, AlignDown(a, l), l)}

(* Mutant: freed blocks are not merged.                                    *)
ClearAboveNone(z, a, j) == {}

(* The orders above j at which free clears a bit: as long as both halves   *)
(* of the enclosing block are clear.  The half that holds the freed block  *)
(* has just been cleared, so the other half decides.                       *)
ClearAbove(z, a, j) ==
    {m \in j + 1 .. MAX_ORDER - 1 :
        \A l \in j + 1 .. m :
            LET b == AlignDown(a, l)
            IN  /\ InZone(z, b, l)
                /\ {b, b + BlockPages[l - 1]} \cap bmap[z][l - 1]
                      \subseteq {AlignDown(a, l - 1)}}

(* Mutant: the bits of the smaller blocks inside are left alone.           *)
TouchedNotBelow(a, j, above, m) ==
    IF m <= j THEN {b \in {a} : m = j}
              ELSE {AlignDown(a, l) : l \in above \cap {m}}

(* The bits of order m that belong to block a of order j, or to the blocks *)
(* around it at the orders of above.                                       *)
Touched(a, j, above, m) ==
    IF m <= j THEN Inside(a, j, m)
              ELSE {AlignDown(a, l) : l \in above \cap {m}}

(* Mutant: zone->busy counts blocks instead of pages.                      *)
AllocAtCountsBlocks(z, a, j) ==
    /\ bmap' = [bmap EXCEPT ![z] = [m \in Orders |->
                   bmap[z][m] \cup Touched(a, j, MarkAbove(z, a, j), m)]]
    /\ busy' = [busy EXCEPT ![z] = @ + 1]
    /\ live' = live \cup {<<a, j>>}
    /\ ret' = a

AllocAt(z, a, j) ==
    /\ bmap' = [bmap EXCEPT ![z] = [m \in Orders |->
                   bmap[z][m] \cup Touched(a, j, MarkAbove(z, a, j), m)]]
    /\ busy' = [busy EXCEPT ![z] = @ + BlockPages[j]]
    /\ live' = live \cup {<<a, j>>}
    /\ ret' = a

(* The first clear bit of the first zone that has one.                     *)
Alloc(j) ==
    \E z \in Zones :
        /\ \A y \in 1 .. z - 1 : Clear(y, j) = {}
        /\ \E a \in Clear(z, j) :
              /\ \A b \in Clear(z, j) : a <= b
              /\ AllocAt(z, a, j)

AllocFails(j) ==
    /\ \A z \in Zones : Clear(z, j) = {}
    /\ ret' = 0
    /\ UNCHANGED <<bmap, busy, live>>

(* Mutant: the strict bound of _page_reserve used here too.                *)
FreeInStrict(z, a, j) ==
    /\ InZone(z, a, j) /\ a + BlockPages[j] < ZoneEnd(z, j)
    /\ \A y \in 1 .. z - 1 : ~ InZone(y, a, j)

(* The zone in which free looks for block a of order j.                    *)
FreeIn(z, a, j) ==
    /\ InZone(z, a, j)
    /\ \A y \in 1 .. z - 1 : ~ InZone(y, a, j)

(* A caller gives back a block it holds, with the order it asked for.      *)
Free(a, j) ==
    /\ <<a, j>> \in live
    /\ IsAligned(a, j)
    /\ \E z \in Zones :
          /\ FreeIn(z, a, j)
          /\ bmap' = [bmap EXCEPT ![z] = [m \in Orders |->
                        bmap[z][m] \ Touched(a, j, ClearAbove(z, a, j), m)]]
          /\ busy' = [busy EXCEPT ![z] = @ - BlockPages[j]]
    /\ live' = live \ {<<a, j>>}
    /\ ret' = 0

Next ==
    \/ \E j \in Orders : Alloc(j) \/ AllocFails(j)
    \/ \E blk \in live : Free(blk[1], blk[2])

Spec == Init /\ [][Next]_vars

----------------------------------------------------------------------------
(* Properties.                                                             *)

(* Every bit set is that of a block inside its zone, for each order.       *)
TypeOK ==
    /\ bmap \in [Zones -> [Orders -> SUBSET Nat]]
    /\ \A z \in Zones, j \in Orders : bmap[z][j] \subseteq Blocks(z, j)
    /\ busy \in [Zones -> Int]
    /\ live \subseteq (Nat \X Orders)
    /\ ret \in Nat

(* The bitmaps of all orders agree: the bit of a block is set exactly when *)
(* one of its pages is in use.  alloc's upward marking that stops at the   *)
(* first marked block, and free's upward merging that stops at the first   *)
(* busy half, must both leave this true, or a block is handed out over a   *)
(* busy page, or is never handed out again.                                *)
BitmapsAgree ==
    \A z \in Zones, j \in Orders : \A b \in Blocks(z, j) :
        b \in bmap[z][j] <=> Pages(b, j) \cap bmap[z][0] # {}

(* A page is never handed out twice: blocks held at the same time do not   *)
(* overlap, whatever their orders, and whatever marks the uninitialised    *)
(* counter of _page_reserve has made or left out.                          *)
LiveDisjoint ==
    \A x, y \in live : x # y => Pages(x[1], x[2]) \cap Pages(y[1], y[2]) = {}

(* No page is lost: the pages marked in a zone are those of the blocks     *)
(* that callers hold and the reserved ones.                                *)
NothingLost ==
    \A z \in Zones :
        bmap[z][0] = Reserved(z) \cup
            UNION {Pages(x[1], x[2]) : x \in {y \in live : InZone(z, y[1], y[2])}}

(* zone->busy is the number of marked pages of the zone.                   *)
BusyCounts == \A z \in Zones : busy[z] = Cardinality(bmap[z][0])

(* Neither assertion of _free can fail for a block that alloc returned.    *)
FreeNeverAsserts ==
    \A x \in live : /\ IsAligned(x[1], x[2])
                    /\ \E z \in Zones : FreeIn(z, x[1], x[2])

----------------------------------------------------------------------------
(* The abstract allocator that this one implements.                        *)
Abstract == INSTANCE PageAllocator WITH
    Order     <- Orders,
    Candidate <- [j \in Orders |-> UNION {Blocks(z, j) : z \in Zones}],
    Length    <- BlockPages,
    Withheld  <- UNION {Reserved(z) : z \in Zones},
    held      <- live,
    result    <- ret

(* The bitmap allocator keeps the promise of a page allocator: alloc       *)
(* returns an aligned block whose pages nobody holds, and refuses only     *)
(* when there is none.                                                     *)
ImplementsPageAllocator == Abstract!Spec
=============================================================================
