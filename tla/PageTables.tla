------------------------------ MODULE PageTables ------------------------------
(* The kernel's page tables (src/kernel/mm/pg.c) and what kmain maps with       *)
(* them: init_paging builds the first four levels, build_direct_mapping maps    *)
(* all the memory at DIRECT, build_page_map the page descriptors at VMAP.       *)
(*                                                                              *)
(* A table has EN entries (512), an address that is mapped is the number of a   *)
(* page, and contents other than tables are not looked at.  The memory map is   *)
(* in bytes, for nothing makes its entries whole pages.  Once init_paging is    *)
(* done a table is reached through entry SELF of the topmost one only: PgDir is the    *)
(* virtual address that pg_vma2pgdir computes and Walk what the MMU makes of    *)
(* it, so that a write goes wherever the tables send it at that moment.         *)
EXTENDS Integers, Sequences, FiniteSets

CONSTANTS
    EN,           (* Entries of a table: 512.                                   *)
    DirectEntry,  (* Where in the topmost table the direct mapping and the      *)
    VmapEntry,    (* descriptors begin: 256 and 506.                            *)
    Frames,       (* The physical pages 0 .. the last.                          *)
    Layouts,      (* The memory that kmain may find, see LayoutAssumption.      *)
    MAX_ORDER,
    PageBytes,    (* The size of a page, and of struct page_t.                  *)
    DescBytes

(* The pages behind one entry of the topmost table: 512 GB.                     *)
Span == EN * EN * EN

SELF == EN - 2
LARGE == EN
VPages == 0 .. EN * Span - 1
DIRECT == DirectEntry * Span      (* 0xffff8000_00000000                        *)
VMAP == VmapEntry * Span          (* VMAP_ADDR                                  *)
WINDOW == SELF * Span             (* The tables themselves.                     *)

(* The page that an address lies in, with PAGE_LOG_SIZE bits shifted out.       *)
PageOf(a) == a \div PageBytes

(* The pages that usable memory reaches up to, and what their descriptors take. *)
UsableEnds(y) == {0} \cup {y.map[k].base + y.map[k].size :
                              k \in {n \in DOMAIN y.map : y.map[n].type = 1}}
NPages(y) == PageOf(CHOOSE n \in UsableEnds(y) : \A m \in UsableEnds(y) : m <= n)
DescPages(y) == (NPages(y) * DescBytes + PageBytes - 1) \div PageBytes

(* init_paging: every table and stack page is a block of order 1.               *)
InitFrame(y, n) == y.first + 2 * (n - 1)
InitTables(y) == (y.ksize + EN - 1) \div EN

ASSUME SizeAssumption ==
    /\ EN \in Nat /\ EN >= 4
    /\ DirectEntry \in Nat /\ VmapEntry \in DirectEntry + 1 .. SELF - 1
    /\ Frames \subseteq Nat
    /\ MAX_ORDER \in Nat \ {0} /\ PageBytes \in Nat \ {0} /\ DescBytes \in Nat \ {0}

(* What a prover, to whom powers mean nothing, has to be told of them.          *)
ASSUME PowerAssumption == 2^0 = 1 /\ \A o \in 0 .. MAX_ORDER - 1 : 2^o \in Nat \ {0}

(* A layout: the memory map in bytes, sorted and without overlaps; the kernel's *)
(* pages and its first stack page; the pages first .. limit - 1 that            *)
(* palloc_contiguous has left, none of them those and more of them than         *)
(* init_paging takes.  Memory ends below VMAP, and the descriptors, which the   *)
(* code lets grow from there, before the window of the tables.                  *)
Layout == [map : Seq([base : Nat, size : Nat, type : Nat]),
           boot : Nat, kbase : Nat, ksize : Nat, first : Nat, limit : Nat]
Sorted(map) ==
    /\ \A k \in DOMAIN map : map[k].size > 0
    /\ \A j, k \in DOMAIN map : j < k => map[j].base + map[j].size <= map[k].base
ASSUME LayoutAssumption ==
    \A y \in Layouts :
        /\ y \in Layout
        /\ Sorted(y.map)
        /\ \A k \in DOMAIN y.map : PageOf(y.map[k].base + y.map[k].size) <= VMAP - DIRECT
        /\ y.ksize > 0 /\ y.kbase + y.ksize <= y.first /\ y.boot < y.first
        /\ y.first .. y.limit - 1 \subseteq Frames
        /\ InitFrame(y, 9 + InitTables(y)) < y.limit
        /\ DescPages(y) <= WINDOW - VMAP

VARIABLES
    lay,    (* The layout found.                                                *)
    mem,    (* The pages of memory, as tables.                                  *)
    nxt,    (* The next page of palloc_contiguous.                              *)
    call,   (* The request that pg_map_region_optimized works on: pages left    *)
            (* (s) and the bytes beyond them (rest); the page to map next (v to *)
            (* p) and how far inside it both addresses are (off); and where     *)
            (* _pg_map is: loop index i down to level l, or i = OUT between two *)
            (* pages.                                                           *)
    ph,     (* What kmain is doing.                                             *)
    e, base, size,   (* The locals of build_direct_mapping.                     *)
    vm, need, order  (* v, size (in pages) and order of build_page_map.         *)

vars == <<lay, mem, nxt, call, ph, e, base, size, vm, need, order>>
client == <<ph, e, base, size, vm, need, order>>

NoEntry == [at |-> 0, present |-> FALSE, ps |-> FALSE]
Entry(f, large) == [at |-> f, present |-> TRUE, ps |-> large]
Zeroed == [k \in 0 .. EN - 1 |-> NoEntry]
Stale  == [k \in 0 .. EN - 1 |-> Entry(0, FALSE)]   (* A page nobody cleared.   *)

OUT == 4
Idle == [v |-> 0, p |-> 0, s |-> 0, i |-> OUT, l |-> 0, off |-> 0, rest |-> 0]
Request(v, p, s) == [Idle EXCEPT !.v = v, !.p = p, !.s = s]

-------------------------------------------------------------------------------
(* palloc_get from the contiguous allocator: 2^o pages, or 0.                   *)
Get(n, o) == IF n + 2^o < lay.limit THEN n ELSE 0

(* Mutant: the order is taken for the number of pages.                          *)
TakenOrder(n, o) == IF Get(n, o) = 0 THEN n ELSE n + o
Taken(n, o) == IF Get(n, o) = 0 THEN n ELSE n + 2^o

(* The t-th table of the kernel's pages.                                        *)
KernelTable(y, t) ==
    [k \in 0 .. EN - 1 |->
        IF t * EN + k < y.ksize THEN Entry(y.kbase + t * EN + k, FALSE) ELSE NoEntry]

InitPaging(y) ==
    LET pml4 == InitFrame(y, 1)   pdpt == InitFrame(y, 2)   pd == InitFrame(y, 3)
        np == InitTables(y)
        spd == InitFrame(y, 4 + np)   spt == InitFrame(y, 5 + np)
        stack(k) == InitFrame(y, 6 + np + (EN - 2 - k))
    IN [f \in Frames |->
          CASE f = pml4 -> [Zeroed EXCEPT ![EN - 1] = Entry(pdpt, FALSE),
                                          ![SELF] = Entry(pml4, FALSE)]
            [] f = pdpt -> [Zeroed EXCEPT ![EN - 1] = Entry(pd, FALSE),
                                          ![EN - 2] = Entry(spd, FALSE)]
            [] f = pd -> [k \in 0 .. EN - 1 |->
                             IF k < np THEN Entry(InitFrame(y, 4 + k), FALSE) ELSE NoEntry]
            [] f \in {InitFrame(y, 4 + t) : t \in 0 .. np - 1} ->
                  KernelTable(y, (f - InitFrame(y, 4)) \div 2)
            [] f = spd -> [Zeroed EXCEPT ![EN - 1] = Entry(spt, FALSE)]
            [] f = spt -> [k \in 0 .. EN - 1 |->
                              CASE k = EN - 1 -> Entry(y.boot, FALSE)
                                [] k \in EN - 4 .. EN - 2 -> Entry(stack(k), FALSE)
                                [] OTHER -> NoEntry]
            [] OTHER -> Stale]

PML4 == InitFrame(lay, 1)     (* What pg_load_pml4 puts into cr3.               *)

Init ==
    /\ lay \in Layouts
    /\ mem = InitPaging(lay)
    /\ nxt = InitFrame(lay, 9 + InitTables(lay))
    /\ call = Idle
    /\ ph = "direct"
    /\ e = 1 /\ base = 0 /\ size = 0
    /\ vm = VMAP /\ need = 0 /\ order = MAX_ORDER - 1

-------------------------------------------------------------------------------
(* The index of page v in a table of level l, 3 for the topmost: the number of  *)
(* the page is shifted by the bits of one level at a time.                      *)
Shift(v) == v \div EN
Shifted(v, l) == CASE l = 0 -> v
                   [] l = 1 -> Shift(v)
                   [] l = 2 -> Shift(Shift(v))
                   [] l = 3 -> Shift(Shift(Shift(v)))
Digit(v, l) == Shifted(v, l) % EN

Fault == -1

(* The page that the MMU finds behind the entries a[1] .. a[4] of the tables.   *)
Entered(M, f, k) ==
    IF f \in Frames /\ M[f][k].present THEN M[f][k] ELSE Entry(Fault, FALSE)

Walk(M, a) ==
    LET pdpt == Entered(M, PML4, a[1]).at
        pd   == Entered(M, pdpt, a[2]).at
        last == Entered(M, pd, a[3])
    IN IF last.ps THEN last.at + a[4] ELSE Entered(M, last.at, a[4]).at

Path(v) == <<Digit(v, 3), Digit(v, 2), Digit(v, 1), Digit(v, 0)>>

(* pg_vma2pgdir: where the level l table of page v is mapped.                   *)
PgDir(v, l) ==
    [n \in 1 .. 4 |-> IF n <= l + 1 THEN SELF ELSE Digit(v, 5 - n + l)]

(* What *pg_vma2pgent(v, l) reads.                                              *)
PgEnt(v, l) == Entered(mem, Walk(mem, PgDir(v, l)), Digit(v, l))

(* pg_vma2pma, with the number of the page for the address.                     *)
Vma2Pma(v) ==
    LET ent(l) == PgEnt(v, l)
        here(l) == ent(l).at # Fault
    IN CASE ~ here(3) -> 0
         [] here(3) /\ ent(3).ps -> ent(3).at
         [] here(3) /\ ~ here(2) -> 0
         [] here(3) /\ here(2) /\ ent(2).ps -> ent(2).at
         [] here(3) /\ here(2) /\ ~ here(1) -> 0
         [] here(3) /\ here(2) /\ here(1) /\ ent(1).ps -> ent(1).at + Digit(v, 0)
         [] OTHER -> IF here(0) THEN ent(0).at ELSE 0

-------------------------------------------------------------------------------
(* pg_map_region_optimized: the next page, large where all three allow it.      *)
LargeFits == /\ call.p % LARGE = 0 /\ call.v % LARGE = 0 /\ call.off = 0
             /\ call.s >= LARGE
Start ==
    /\ call.s > 0 /\ call.i = OUT
    /\ call' = [call EXCEPT !.i = 3, !.l = IF LargeFits THEN 1 ELSE 0]
    /\ UNCHANGED <<lay, mem, nxt, client>>

(* The size was no number of pages: the rest gets a page, s passes 0 and the    *)
(* loop maps on without an end.  Nothing is modelled after it.                  *)
RunAway ==
    /\ call.s = 0 /\ call.rest # 0
    /\ call' = Idle /\ ph' = "broken"
    /\ UNCHANGED <<lay, mem, nxt, e, base, size, vm, need, order>>

(* The table that pdt points to, and the entry for the page.                    *)
Pdt == Walk(mem, PgDir(call.v, call.i))
Slot == Digit(call.v, call.i)

(* Mutant: a new table is not cleared.                                          *)
ClearedNot(M, f) == M

(* memset(pdt, 0, PAGE_SIZE).                                                   *)
Cleared(M, f) == [M EXCEPT ![f] = Zeroed]

(* The entry leads to a table already.                                          *)
Descend ==
    /\ call.s > 0 /\ call.i # OUT /\ call.i > call.l
    /\ mem[Pdt][Slot].present
    /\ call' = [call EXCEPT !.i = @ - 1]
    /\ UNCHANGED <<lay, mem, nxt, client>>

(* A new table: it is entered, reached through the tables and cleared there.    *)
(* When palloc_get fails page 0 becomes a table: nothing is modelled after it.  *)
CreateTable ==
    /\ call.s > 0 /\ call.i # OUT /\ call.i > call.l
    /\ ~ mem[Pdt][Slot].present
    /\ LET M == [mem EXCEPT ![Pdt][Slot] = Entry(Get(nxt, 0), FALSE)]
       IN mem' = Cleared(M, Walk(M, PgDir(call.v, call.i - 1)))
    /\ nxt' = Taken(nxt, 0)
    /\ call' = IF Get(nxt, 0) = 0 THEN Idle ELSE [call EXCEPT !.i = @ - 1]
    /\ ph' = IF Get(nxt, 0) = 0 THEN "broken" ELSE ph
    /\ UNCHANGED <<lay, e, base, size, vm, need, order>>

(* ps, in pages.                                                               *)
Stride == IF call.l = 1 THEN LARGE ELSE 1

(* The entry of the page itself, and the loop of pg_map_region_optimized.  What *)
(* is inside the page in p falls on bits of the entry that name no page.        *)
SetEntry ==
    /\ call.s > 0 /\ call.i = call.l
    /\ mem' = [mem EXCEPT ![Pdt][Slot] = Entry(call.p, call.l # 0)]
    /\ call' = [call EXCEPT !.v = @ + Stride, !.p = @ + Stride, !.s = @ - Stride, !.i = OUT]
    /\ UNCHANGED <<lay, nxt, client>>

-------------------------------------------------------------------------------
Returned == call.s = 0 /\ call.rest = 0

Region ==
    IF size > 0
    THEN [Request(DIRECT + PageOf(base), PageOf(base), PageOf(size)) EXCEPT
             !.off = base % PageBytes, !.rest = size % PageBytes]
    ELSE call

(* Mutant: neighbours are joined without adding up their sizes.                 *)
JoinLost ==
    /\ ph = "direct" /\ Returned /\ e <= Len(lay.map)
    /\ base + size = lay.map[e].base
    /\ e' = e + 1
    /\ UNCHANGED <<lay, mem, nxt, call, ph, base, size, vm, need, order>>

(* build_direct_mapping: the next region continues the one collected,           *)
Join ==
    /\ ph = "direct" /\ Returned /\ e <= Len(lay.map)
    /\ base + size = lay.map[e].base
    /\ size' = size + lay.map[e].size
    /\ e' = e + 1
    /\ UNCHANGED <<lay, mem, nxt, call, ph, base, vm, need, order>>

(* or the one collected is mapped, when there is one, and a new one begins.     *)
Begin ==
    /\ ph = "direct" /\ Returned /\ e <= Len(lay.map)
    /\ base + size # lay.map[e].base
    /\ call' = Region
    /\ base' = lay.map[e].base /\ size' = lay.map[e].size
    /\ e' = e + 1
    /\ UNCHANGED <<lay, mem, nxt, ph, vm, need, order>>

LastRegion ==
    /\ ph = "direct" /\ Returned /\ e > Len(lay.map)
    /\ call' = Region
    /\ ph' = "descriptors"
    /\ need' = DescPages(lay)
    /\ UNCHANGED <<lay, mem, nxt, e, base, size, vm, order>>

(* The order that build_page_map's inner loop comes down to.                    *)
Fits(o) == 2^o <= need
NextOrder == CHOOSE o \in 0 .. order : /\ o = 0 \/ Fits(o)
                                       /\ \A q \in o + 1 .. order : ~ Fits(q)

(* build_page_map: a block of the largest order that fits is mapped.  When      *)
(* palloc_get fails the pages from 0 on are mapped and cleared: as above.       *)
Chunk ==
    /\ ph = "descriptors" /\ Returned /\ need # 0
    /\ order' = NextOrder
    /\ nxt' = Taken(nxt, NextOrder)
    /\ IF Get(nxt, NextOrder) = 0
       THEN ph' = "broken" /\ UNCHANGED call
       ELSE ph' = "clearing" /\ call' = Request(vm, Get(nxt, NextOrder), 2^NextOrder)
    /\ UNCHANGED <<lay, mem, e, base, size, vm, need>>

(* memset of the block just mapped, and the next one.                           *)
ClearChunk ==
    /\ ph = "clearing" /\ Returned
    /\ mem' = [f \in Frames |->
                 IF \E v \in vm .. vm + 2^order - 1 : Walk(mem, Path(v)) = f
                 THEN Zeroed ELSE mem[f]]
    /\ ph' = "descriptors"
    /\ vm' = vm + 2^order
    /\ need' = need - 2^order
    /\ UNCHANGED <<lay, nxt, call, e, base, size, order>>

Mapped ==
    /\ ph = "descriptors" /\ Returned /\ need = 0
    /\ ph' = "done"
    /\ UNCHANGED <<lay, mem, nxt, call, e, base, size, vm, need, order>>

Next == \/ Start \/ RunAway \/ Descend \/ CreateTable \/ SetEntry
        \/ Join \/ Begin \/ LastRegion \/ Chunk \/ ClearChunk \/ Mapped

Spec == Init /\ [][Next]_vars

-------------------------------------------------------------------------------
(* The pages mapped outside the window of the tables themselves.                *)
Program == {v \in VPages : Digit(v, 3) # SELF}
Translate == [v \in Program |-> Walk(mem, Path(v))]

Mapping == INSTANCE AddressSpace
              WITH VPages <- Program, Large <- LARGE, NotMapped <- Fault, space <- Translate

(* Setting up the tables level by level, through the tables themselves, maps    *)
(* one page or one large page at a time: a new table on the way changes the     *)
(* translation of no address at all, and no page that was mapped before, the    *)
(* kernel's and its stack's included, is ever sent elsewhere (pg.c:57-122,      *)
(* kmain.c:115-175).                                                            *)
ImplementsAddressSpace == Mapping!Spec

(* The tables of a level: those that the entries of the tables one level up     *)
(* lead to.                                                                     *)
Leads(T) == {x \in T \X (0 .. EN - 1) :
                /\ x # <<PML4, SELF>>
                /\ mem[x[1]][x[2]].present /\ ~ mem[x[1]][x[2]].ps}
Under(T) == {mem[x[1]][x[2]].at : x \in Leads(T)}
Pdpts == Under({PML4})
Pds == Under(Pdpts)
Pts == Under(Pds)
Tables == {PML4} \cup Pdpts \cup Pds \cup Pts

(* The tables form a tree: each is entered once, at one level.  They were all   *)
(* handed out by the allocator, and outside the direct mapping no address leads *)
(* to one: no page of the kernel, of its stack or of the descriptors is a table *)
(* too (pg.c:66-80, kmain.c:49-110).                                            *)
TablesApart ==
    ph # "broken" =>
        /\ \A x, y \in Leads({PML4} \cup Pdpts \cup Pds) :
              mem[x[1]][x[2]].at = mem[y[1]][y[2]].at => x = y
        /\ Pdpts \cap Pds = {} /\ Pdpts \cap Pts = {} /\ Pds \cap Pts = {}
        /\ PML4 \notin Pdpts \cup Pds \cup Pts
        /\ Tables \subseteq lay.first .. nxt - 1
        /\ \A v \in Program \ (DIRECT .. VMAP - 1) : Walk(mem, Path(v)) \notin Tables

(* When kmain is through, pg_pma2vma leads to every page whose last byte lies   *)
(* in an entry of the memory map, and pg_pma2page to a cleared descriptor of    *)
(* its own for every whole page below the end of usable memory; pg_vma2pma      *)
(* agrees with the MMU on all of them (pg.h:74, 112, pg.c:149).  It gets        *)
(* through when the neighbouring entries it joins have whole pages together;    *)
(* a piece of a page at the end of such a region is left out, and else the loop *)
(* of pg.c:96 never ends.                                                       *)
InMap == UNION {PageOf(lay.map[k].base) .. PageOf(lay.map[k].base + lay.map[k].size) - 1 :
                   k \in DOMAIN lay.map}
DescPagesOf(p) == {VMAP + (p * DescBytes + b) \div PageBytes : b \in 0 .. DescBytes - 1}
EverythingMapped ==
    ph = "done" =>
        /\ \A p \in InMap : Walk(mem, Path(DIRECT + p)) = p
        /\ \A p \in 0 .. NPages(lay) - 1 : \A v \in DescPagesOf(p) :
              LET d == Walk(mem, Path(v))
              IN d \in lay.first .. nxt - 1 /\ mem[d] = Zeroed
        /\ \A v \in Program : LET f == Walk(mem, Path(v))
                              IN Vma2Pma(v) = IF f = Fault THEN 0 ELSE f
===============================================================================
