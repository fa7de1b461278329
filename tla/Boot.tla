--------------------------------- MODULE Boot ---------------------------------
(* The kernel's start (src/kernel/kmain.c) up to the assertion that stops it:   *)
(* the memory map is cleaned up (E820), zone_init sorts memory into zones       *)
(* (src/kernel/mm/zone.c), palloc_contiguous takes over from the bootstrap      *)
(* allocator (PallocContiguous), and kmain asks it for the pages of .bss, of    *)
(* the page tables and of the kernel's stack.                                   *)
EXTENDS E820

CONSTANTS
    PAGE, TOP, ZonesMax,   (* As in PallocContiguous.                           *)
    MAX_ORDER,
    DmaEnd, Dma32End,      (* The ends of the DMA zones, 16 MB and 4 GB.        *)
    StarterSize,           (* The starter, which lies in front of the kernel.   *)
    BssPages,              (* The possible sizes of .bss, in pages.             *)
    EN,                    (* Entries of a page table.                          *)
    IdentityEnd            (* The end of the memory mapped to itself, 2 MB.     *)

(* The zones are in order, and memory ends so far below the top of the address   *)
(* space that no sum of an address and the size of a block wraps around.         *)
ASSUME BootAssumption ==
    /\ DmaEnd \in Nat \ {0} /\ Dma32End \in Nat /\ DmaEnd < Dma32End
    /\ PAGE \in Nat \ {0} /\ TOP \in Nat /\ MAX_ORDER \in Nat /\ MAX_ORDER > 1
    /\ BssPages \subseteq Nat /\ StarterSize \in Nat
    /\ \A order \in 0 .. MAX_ORDER - 1 :
          /\ 2^order \in Nat /\ order < 2^order    (* The provers know no powers.   *)
          /\ \A fw \in FirmwareMaps : \A k \in DOMAIN fw :
                Fin(fw[k]) + PAGE + PAGE * 2^order < TOP
          /\ \A ks \in KernelSizes : KernelBase + ks + PAGE + PAGE * 2^order < TOP
          /\ FirstPage + PAGE + PAGE * 2^order < TOP

VARIABLES
    bss,        (* The pages of .bss.                                           *)
    step,       (* What kmain is doing.                                         *)
    kzones,     (* _zones of zone.c.                                            *)
    visited, zones, phase, zidx, pbgn, pend, given,   (* As in PallocContiguous *)
    pbss,       (* What was reserved for .bss.                                  *)
    frames      (* The pages taken by init_paging, tables first, in order.      *)

pvars == <<visited, zones, phase, zidx, pbgn, pend, given>>
bvars == <<vars, pvars, bss, step, kzones, pbss, frames>>

(* Where start.S finds the kernel's image, and kernel_pla.                      *)
kb == KernelBase + StarterSize

Pages == INSTANCE PallocContiguous
            WITH map <- m, i <- visited, KernelPla <- kb, MaxOrder <- MAX_ORDER, Maps <- {}

BootInit ==
    /\ Init
    /\ bss = 0          (* Chosen when it is first looked at.                    *)
    /\ step = "e820"
    /\ kzones = << >>
    /\ visited = 0 /\ zones = << >> /\ phase = "registering" /\ zidx = 1
    /\ pbgn = Pages!NOWHERE /\ pend = Pages!NOWHERE /\ given = {}
    /\ pbss = 0
    /\ frames = << >>

CleanMap ==
    /\ step = "e820"
    /\ Next
    /\ step' = IF pc' = "done" THEN "zones" ELSE step
    /\ UNCHANGED <<pvars, bss, kzones, pbss, frames>>

-------------------------------------------------------------------------------
(* zone_init: the highest address of usable memory decides how many there are.  *)
UsableEnds == {0} \cup {Fin(m[k]) : k \in {j \in DOMAIN m : m[j].type = 1}}
MaxAddr == CHOOSE a \in UsableEnds : \A b \in UsableEnds : b <= a

Zone(bgn, end) == [bgn |-> bgn, end |-> end]

(* Mutant: the zone in the middle begins at the end of the one below.           *)
ZonesTouching ==
    CASE MaxAddr > Dma32End - 1 ->
            <<Zone(Dma32End, MaxAddr), Zone(DmaEnd - 1, Dma32End - 1), Zone(0, DmaEnd - 1)>>
      [] MaxAddr > DmaEnd /\ MaxAddr <= Dma32End - 1 ->
            <<Zone(DmaEnd, MaxAddr), Zone(0, DmaEnd - 1)>>
      [] OTHER -> <<Zone(0, MaxAddr)>>
Zones ==
    CASE MaxAddr > Dma32End - 1 ->
            <<Zone(Dma32End, MaxAddr), Zone(DmaEnd, Dma32End - 1), Zone(0, DmaEnd - 1)>>
      [] MaxAddr > DmaEnd /\ MaxAddr <= Dma32End - 1 ->
            <<Zone(DmaEnd, MaxAddr), Zone(0, DmaEnd - 1)>>
      [] OTHER -> <<Zone(0, MaxAddr)>>

ZoneInit ==
    /\ step = "zones"
    /\ kzones' = Zones
    /\ bss' \in BssPages
    /\ step' = "pages"
    /\ UNCHANGED <<vars, pvars, pbss, frames>>

(* palloc_init of the contiguous allocator, over the bootstrap allocator.       *)
InitPages ==
    /\ step = "pages"
    /\ Pages!Skip \/ Pages!Register \/ Pages!Choose
    /\ step' = CASE phase' = "ready" -> "bss"
                 [] phase' = "overrun" -> "asserted"
                 [] OTHER -> step
    /\ UNCHANGED <<vars, bss, kzones, pbss, frames>>

-------------------------------------------------------------------------------
(* palloc_get: the block, or 0, which no caller of kmain looks at.              *)
Result(order) == IF Pages!Room(order) THEN pend ELSE 0
Get(order) == Pages!Alloc(order) \/ (Pages!AllocFails(order) /\ UNCHANGED given)

(* "Reserve space for bss": the number of its pages is passed as an order.      *)
(* Mutant: nothing is reserved.                                                 *)
ReserveNothing ==
    /\ step = "bss"
    /\ bss < MAX_ORDER
    /\ pbss' = Result(0) /\ UNCHANGED pvars
    /\ step' = "tables"
    /\ UNCHANGED <<vars, bss, kzones, frames>>
ReserveBss ==
    /\ step = "bss"
    /\ bss < MAX_ORDER
    /\ pbss' = Result(bss) /\ Get(bss)
    /\ step' = "tables"
    /\ UNCHANGED <<vars, bss, kzones, frames>>

(* ASSERT(order < MAX_ORDER).                                                   *)
BssTooLarge ==
    /\ step = "bss"
    /\ bss >= MAX_ORDER
    /\ step' = "asserted"
    /\ UNCHANGED <<vars, pvars, bss, kzones, pbss, frames>>

(* The image and .bss behind it, as init_paging maps them: size sz, at kb.      *)
(* The kernel's entry of the memory map was given twice the size of the image:  *)
(* to __bss - __text it adds what the structure calls kernel_offset, which is   *)
(* where mkimage writes the size of the image.                                  *)
ImageSize == input[Len(input) - 1].size \div 2
KernelEnd == kb + ImageSize + bss * PAGE
KernelPages == (KernelEnd - kb + PAGE - 1) \div PAGE
KernelTables == (KernelPages + EN - 1) \div EN

(* pml4, pdpt, pd, the kernel's tables, and the stack's two; then its pages.    *)
Tables == 3 + KernelTables + 2
StackPages == 3

(* A table is cleared and filled where it is, in the memory mapped to itself,   *)
(* the first three once all of them are taken; a page fault resets the machine, *)
(* for kmain has just loaded an empty IDT.                                      *)
Cleared(taken) == IF Len(taken) < 3 THEN {} ELSE DOMAIN taken
NextTable ==
    /\ step = "tables"
    /\ Len(frames) < Tables
    /\ frames' = Append(frames, Result(1)) /\ Get(1)
    /\ step' = IF \A k \in Cleared(frames') : frames'[k] + PAGE <= IdentityEnd
               THEN step ELSE "fault"
    /\ UNCHANGED <<vars, bss, kzones, pbss>>

NextStackPage ==
    /\ step = "tables"
    /\ Len(frames) \in Tables .. Tables + StackPages - 1
    /\ frames' = Append(frames, Result(1)) /\ Get(1)
    /\ step' = IF Len(frames') = Tables + StackPages THEN "paging" ELSE step
    /\ UNCHANGED <<vars, bss, kzones, pbss>>

(* pg_load_pml4, then .bss is cleared and the processor asked what it can do;   *)
(* the assertion that follows always stops the machine.                         *)
Stop ==
    /\ step = "paging"
    /\ step' = "asserted"
    /\ UNCHANGED <<vars, pvars, bss, kzones, pbss, frames>>

BootNext == \/ CleanMap \/ ZoneInit \/ InitPages \/ ReserveBss \/ BssTooLarge
            \/ NextTable \/ NextStackPage \/ Stop

BootSpec == BootInit /\ [][BootNext]_bvars /\ WF_bvars(BootNext)

-------------------------------------------------------------------------------
(* Every address of usable memory is in one zone, and in one only (zone.c:46).  *)
ZonesPartition ==
    kzones # << >> =>
        \A k \in {j \in DOMAIN m : m[j].type = 1} : \A a \in m[k].base .. Fin(m[k]) - 1 :
            Cardinality({z \in DOMAIN kzones : kzones[z].bgn <= a /\ a <= kzones[z].end}) = 1

(* A zone begins above the kernel: without one palloc_contiguous hands out      *)
(* whatever (void* )-1 and the sums behind it wrap to.                          *)
RamAbove == step # "e820" /\ phase = "ready" /\ pbgn # Pages!NOWHERE

Block(a) == a .. a + 2 * PAGE - 1
Firmware == SubSeq(input, 1, Len(input) - 2)

(* The code never looks at where .bss is when it reserves pages for it: .bss    *)
(* lies behind the image whatever palloc_get returned, and only the kernel's    *)
(* entry of the memory map and the first block of the zone behind it keep it    *)
(* free.  With a starter no longer than the image and a reservation that worked *)
(* no table and no stack page is in the image or in .bss, which is cleared      *)
(* once the tables are in use, and no two of them share a page (kmain.c:230,    *)
(* 49-106, 249, e820.c:252).                                                    *)
KernelApart ==
    RamAbove /\ pbss # 0 /\ Disjoint(Firmware) /\ StarterSize <= ImageSize =>
        \A k \in DOMAIN frames :
            frames[k] # 0 =>
                /\ Block(frames[k]) \cap (kb .. KernelEnd - 1) = {}
                /\ \A l \in DOMAIN frames \ {k} : frames[l] # frames[k]

(* No page that an entry of the firmware's map reserves is handed out, if the   *)
(* entries do not overlap each other: what trimming, splitting and merging the  *)
(* map, cutting it to whole pages and taking pages from it leave usable was     *)
(* usable from the start (e820.c, palloc_bootstrap.c:72, palloc_contiguous.c).  *)
GivenUsable ==
    RamAbove /\ Disjoint(Firmware) =>
        \A b \in given : \A a \in Pages!Units(b) : TypesAt(input, a) = {1}

(* Blocks do not overlap, and the range reported to the next allocator is made  *)
(* of them.                                                                     *)
ReportExact == RamAbove => Pages!ReportExact

(* kmain reaches the end of what it does.                                       *)
Stops == <>(step \in {"asserted", "fault"})
===============================================================================
