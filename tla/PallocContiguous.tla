--------------------------- MODULE PallocContiguous ---------------------------
(* The kernel's first page allocators (src/kernel/mm/palloc_bootstrap.c and   *)
(* palloc_contiguous.c).  The bootstrap allocator only lists the usable       *)
(* regions of the memory map, cut to whole pages; the contiguous one hands    *)
(* out pages one after the other from the first of them above the kernel.     *)
(* It takes nothing back, and at the handover it reports what it has given as *)
(* one range.  Addresses are in units of which PAGE make a page, and wrap     *)
(* around at TOP.                                                             *)
EXTENDS Integers, Sequences, FiniteSets

CONSTANTS
    PAGE, TOP,     \* units in a page, and in the address space
    KernelPla,     \* kernel_pla, where the kernel was loaded
    MaxOrder,      \* the orders callers ask for are below this
    ZonesMax,      \* ZONES_MAX
    Maps           \* the memory maps: sequences of regions [base, size, type]

Orders == 0 .. MaxOrder - 1
NOWHERE == TOP - 1      \* (void*)-1, what pbgn starts with

VARIABLES
    map,      \* the memory map, sorted and without overlaps
    i,        \* how many regions of it the bootstrap allocator has visited
    zones,    \* the zones registered, each <<base, size>>
    phase,    \* registering, ready, or what stopped it
    zidx, pbgn, pend,
    given     \* the blocks handed out, each <<address, order>>
vars == <<map, i, zones, phase, zidx, pbgn, pend, given>>

Wrap(a) == a % TOP
FloorPage(a) == a - (a % PAGE)
CeilPage(a) == FloorPage(Wrap(a + PAGE - 1))

Init ==
    /\ map \in Maps
    /\ i = 0
    /\ zones = << >>
    /\ phase = "registering"
    /\ zidx = 1
    /\ pbgn = NOWHERE
    /\ pend = NOWHERE
    /\ given = {}

-------------------------------------------------------------------------------

(* A region cut to whole pages.  When it holds none the size is negative, and *)
(* wraps.                                                                     *)
Zone(r) ==
    LET head == CeilPage(r.base)
        tail == FloorPage(Wrap(r.base + r.size))
    IN <<head, Wrap(tail - head)>>

(* _foreach_zone of the bootstrap allocator, calling __register for each      *)
(* usable region; the zone is written before the count is checked.            *)
Skip ==
    /\ phase = "registering" /\ i < Len(map)
    /\ map[i + 1].type # 1
    /\ i' = i + 1
    /\ UNCHANGED <<map, zones, phase, zidx, pbgn, pend, given>>

Register ==
    /\ phase = "registering" /\ i < Len(map)
    /\ map[i + 1].type = 1
    /\ i' = i + 1
    /\ zones' = Append(zones, Zone(map[i + 1]))
    /\ phase' = IF Len(zones) < ZonesMax THEN phase ELSE "overrun"
    /\ UNCHANGED <<map, zidx, pbgn, pend, given>>

(* The zones that begin above the kernel.                                     *)
Above == {k \in 1 .. Len(zones) : zones[k][1] > KernelPla /\ zones[k][1] < pbgn}

(* The rest of _init: the lowest of them is the one to allocate from.         *)
Choose ==
    /\ phase = "registering" /\ i = Len(map)
    /\ phase' = "ready"
    /\ IF Above = {} THEN zidx' = zidx /\ pbgn' = pbgn
       ELSE LET k == CHOOSE k \in Above :
                        \A m \in Above : \/ zones[k][1] < zones[m][1]
                                         \/ zones[k][1] = zones[m][1] /\ k <= m
            IN zidx' = k /\ pbgn' = zones[k][1]
    /\ pend' = pbgn'
    /\ UNCHANGED <<map, i, zones, given>>

-------------------------------------------------------------------------------
Size(order) == PAGE * 2^order

(* Mutant: only the block's first page has to fit.                            *)
RoomForOne(order) ==
    zidx <= Len(zones) /\ Wrap(pend + PAGE) < Wrap(zones[zidx][1] + zones[zidx][2])

(* Whether the next pages of the zone are enough.                             *)
Room(order) ==
    zidx <= Len(zones) /\ Wrap(pend + Size(order)) < Wrap(zones[zidx][1] + zones[zidx][2])

(* Mutant: the end moves by one page whatever the order.                      *)
TakeOne(order) ==
    /\ given' = given \cup {<<pend, order>>}
    /\ pend' = Wrap(pend + PAGE)

Take(order) ==
    /\ given' = given \cup {<<pend, order>>}
    /\ pend' = Wrap(pend + Size(order))

(* _alloc.                                                                    *)
Alloc(order) ==
    /\ phase = "ready"
    /\ Room(order)
    /\ Take(order)
    /\ UNCHANGED <<map, i, zones, phase, zidx, pbgn>>

(* _alloc returns 0.                                                          *)
AllocFails(order) ==
    /\ phase = "ready"
    /\ ~Room(order)
    /\ UNCHANGED vars

Next == \/ Skip \/ Register \/ Choose
        \/ \E order \in Orders : Alloc(order) \/ AllocFails(order)

Spec == Init /\ [][Next]_vars

-------------------------------------------------------------------------------
Units(b) == b[1] .. b[1] + Size(b[2]) - 1
Usable == UNION {map[k].base .. map[k].base + map[k].size - 1 :
                    k \in {n \in 1 .. Len(map) : map[n].type = 1}}

(* Addresses stay in the address space, also those of empty zones, and zidx   *)
(* in the array.                                                              *)
TypeOK ==
    /\ i \in 0 .. Len(map)
    /\ \A k \in 1 .. Len(zones) : zones[k][1] \in 0 .. TOP - 1 /\ zones[k][2] \in 0 .. TOP - 1
    /\ phase \in {"registering", "ready", "overrun"}
    /\ zidx \in 1 .. ZonesMax
    /\ pbgn \in 0 .. TOP - 1 /\ pend \in 0 .. TOP - 1

(* Blocks do not overlap, and the one range that _foreach_page reports to the *)
(* next allocator, from pbgn to pend, is made of them: nothing given away is  *)
(* left out, and nothing else is reported as taken.                           *)
ReportExact ==
    /\ \A b, c \in given : b # c => Units(b) \cap Units(c) = {}
    /\ phase = "ready" => UNION {Units(b) : b \in given} = pbgn .. pend - 1
===============================================================================
