# nkos in TLA+

nkos is a boot loader and an x86-64 kernel, written in C and assembly and started
on the bare machine. It has no tests and no documents; its comments are all it says
about itself. This directory holds models of the loader's and the kernel's own logic:
memory maps, page allocators, page tables, the slab allocator, the loader's heap,
devices, file system and terminal, and the three `printf` functions; the TLC
configurations that check them; and the proofs, checked by TLAPS, of what holds for
every size.

Everything in nkos runs on one processor with interrupts off and keeps nothing on
disk: there are no interleavings, no lost messages and no crashes to recover from.
What is hard is state that long sequences of legal calls build up (boundary tags,
bitmaps of several orders, rings and trees of free chunks, slab lists, the memory
map, tables that are reached through themselves), quantities at their limits, the
handover from one allocator to the next, and what the loader finds on its disks:
structures that lead back to themselves, and sectors that cannot be read.

- [Inventory](#inventory)
- [The modules](#the-modules)
- [Runs, bounds and fairness](#runs-bounds-and-fairness)
- [Where the code is not what it says](#where-the-code-is-not-what-it-says)
- [What is proved](#what-is-proved)
- [What is not modelled](#what-is-not-modelled)
- [Plan](#plan)

## Inventory

The loader (32 bits) is loaded by the boot sector; `start.S` calls the constructors of
its built-in modules in order (heap, terminal, devices, partition and file system
drivers) and then `main`, which opens the kernel's image on an ext2 file system, reads
it and jumps to its real-mode starter. The starter asks the BIOS for the memory map,
sets a video mode, builds first page tables and enters the kernel in 64-bit mode.
`kmain` then cleans the memory map up, sorts memory into zones, starts the contiguous
page allocator over the bootstrap one, takes pages for `.bss`, tables and stack, and
stops at an assertion. Written behind it are the mapping of all memory, the switch to
"bitmap allocator", which now starts the unfinished buddy allocator, and a trial of the
slab allocator.

| component | state | operations | what makes it correct | hard because |
|---|---|---|---|---|
| **memory map**, `kernel/e820.c` | array of 64 regions | `e820_init`: add kernel and first page, sort, resolve overlaps, coalesce | no address lost, invented or given a weaker type; inside the array; ends | one array is trimmed, split and re-sorted while it is walked |
| **zones**, `zone.c` | list of zones | `zone_init` | zones partition RAM | ends that are inclusive or not |
| **bootstrap and contiguous allocators**, `palloc_bootstrap.c`, `palloc_contiguous.c` | zones, `pbgn`, `pend` | list zones, choose one, `_alloc`, report what was given | blocks are usable RAM; the report is exact | sizes and sums wrap; array bound tested late |
| **`kmain.c`** | the current allocator | the boot sequence | nothing in use is given again; what is given was usable | several owners, one memory; no result is tested |
| **bitmap allocator**, `palloc_bitmap.c` | a bitmap per order and zone, `busy` | `_init` with reservations, `_alloc`, `_free` | bitmaps agree; no page twice, none lost | marking and merging stop early at each order |
| **page tables**, `kernel/mm/pg.c` | four levels of tables | `init_paging`, `pg_map`, `pg_map_region`, `pg_vma2pma` | translation gives what was mapped; others unchanged | tables are reached through themselves |
| **slab allocator**, `slab.c` | caches, each with free, busy and full slabs | `slab_init`, `slab_register`, `slab_allocate` | objects disjoint, lists and counters right | growing allocates from the allocator itself; geometry |
| **loader heap**, `loader/krn/mm.c` | chunks with boundary tags, small rings, large tries | `mm_init`, `mm_malloc`, `mm_free` | chunks tile the arena; blocks disjoint; bins hold free chunks | tags describe neighbours; rings inside tries |
| **devices**, `dm.c`, `mod_extp.c` | rings of devices, stacked by parent; modules; mounts | init, register, mount, find, read | what is mounted is what the disks hold; the search ends | nested calls, chains on disk, errors of three kinds |
| **paths and ext2**, `dm_path.c`, `mod_ext2.c` | a path being consumed, a file | open, read, seek, close | the right bytes of the right file | indirect blocks, symbolic links, undefined answers |
| **loader main**, `loader/main.c` | where it is | open, size, read, jump | jumps only with the whole image | errors that look like successes |
| **terminal**, `loader/krn/tm.c` | cursor, attribute, parser state, screen | `tm_putchar` | stays on the screen; shows what was written | sequences broken off; no bound is tested |
| **printf**, three of them | label or state, `struct fmt_t` | one step per character of the format | prints what the C standard says, but for named exceptions; takes its own arguments | tables of labels; flags, widths, sizes in any combination |
| buddy, `palloc_buddy.c` | zones | alloc and free are `ASSERT(0)` | | not finished |
| streams, utilities, kernel services | none of their own | | | |
| start, BIOS, tools, `start.S`, `pm.S`, `a20.S`, `bs/`, `boot/`, `util/` | the machine | mode switches, disk reads, image layout | both sides agree on the layout | no source says it twice the same way |

Interactions are calls through tables of functions (page allocators, device methods)
and memory handed from owner to owner: `e820_init` writes the map that the bootstrap
allocator lists; `_foreach_zone` and `_foreach_page` of an allocator are called by the
`_init` of the next; `init_paging` and the slab allocator take blocks with `palloc_get`;
a read of a file goes through its file system, its partition and the drive; the loader's
drivers and paths live in its heap.

`PROJECT.json` lists the hazards of this code line by line, with the properties that
watch them.

## The modules

**The kernel's start.** `Boot` is `kmain` up to the assertion that stops it. It extends
`E820`, which has the array `m`, the loop counter and the phase of `e820_init`; each
turn of the overlap loop, with the sort at its end, is one step, each turn of the
coalescing loop another. `ZoneInit` is `zone.c`. `PallocContiguous` is instantiated as
`Pages` over the cleaned map: one action for each region that `_foreach_zone` of the
bootstrap allocator visits, the choice of the zone, and `_alloc`. `ReserveBss`,
`NextTable` and `NextStackPage` then take pages as `kmain` and `init_paging` do, testing
no result. A table behind the memory mapped so far ends in step `"fault"`, an
assertion in `"asserted"`. `MCBoot` enumerates the firmware's maps.

**Page tables.** `AddressSpace` is the promise of `pg_map`: one step maps one page, or
one large one, that was not mapped, and nothing mapped is ever sent elsewhere.
`PageTables` is `pg.c` with what `kmain` maps, a memory map in bytes, whose regions may
begin or end inside a page: `mem` holds the tables; entry `SELF` of
the topmost leads to itself, `PgDir` computes the virtual address of a directory as
`pg_vma2pgdir` does and `Walk` is the MMU, so that a write lands wherever the tables
send it at that moment. Entering a table, clearing it through the entry just made and
entering the page are separate steps; `RunAway` is the turn of `pg_map_region`'s loop
whose counter of bytes passes 0. The entries of a table are a parameter, and so is
where in the topmost one the direct mapping and the descriptors begin; a layout says
what memory `kmain` finds.

**Pages.** `PageAllocator` is the promise of `palloc_get` and `palloc_free`: a block
handed out is a whole aligned block of some zone, shares no page with a block in use
or one withheld, and a refusal means that there is none. `PallocBitmap` is the
allocator of `palloc_bitmap.c`: `bmap[z][j]` is the set of blocks of order `j` whose
bit is set in zone `z`, `busy[z]` the counter, `live` (history) the blocks that callers
hold. `Init` is the whole of `_init` with its reservations, `Alloc`, `AllocFails` and
`Free` the two handlers including their loops over enclosing and enclosed blocks.

**The slab allocator** is `Slab`. Addresses are pairs of a block and the byte in it,
with the structure sizes of the code, so that headers, colours and objects can collide.
The memory of the allocator is passed as a record through functions, since one
`slab_allocate` may run the whole of `_slab_grow_large`, which allocates a `slab_t` and
a `buf_t` for each object from two other caches, which may grow as well. An assertion
on `palloc_get` that fails stops the machine (`status = "panic"`); going through a null
`buf` is the state `"wild"`, from which nothing is claimed. To its callers it
implements `Heap`, the same promise as the loader's heap without `Free`.

**The loader's heap** is three layers over `Arena`, which has the arena's bounds and the
lengths requests are served with. `Heap` is the promise to callers. `HeapTags` is
the boundary tags: `tag` maps the address of each chunk to its header (`psz`, `size`,
`cbusy`, `pbusy`); `mm_malloc` picks *any* free chunk that is long enough, `mm_free`
merges with both neighbours. `LargeBins` is the tries of large chunks as functions
from one record of links to the next: link, unlink, and the search. `LoaderHeap`
composes them: every call changes tags and bins as the code does, small rings included,
and it implements `HeapTags` and with it `Heap`. `MCLargeBins` builds tries on
their own, with more chunks of one bin than an arena small enough for TLC can hold.

**The loader's disks.** `Devices` is `dm.c` with the drivers' `create` and `init`: what
is on a drive is a function from byte addresses to the structures that begin there,
and `dm_init`'s calls of itself are a stack of frames, one step for each entry of a
table and each table of an extended partition's chain. A sector may be unreadable, an
allocation may fail, and a superblock read into memory that held another is the other.
`Paths` has the functions of `dm_path.c` on a path `c` with the element from `s` to
`p`; nothing ends the characters, so a search beyond them may find a separator, or not.
`Ext2` opens a file one element of the path per step, symbolic links included, and
reads it block by block through the index of blocks; where the code goes on with what
is not there, the model ends in phase `"undefined"`. `Loader` composes them with
`main`, or with a client that seeks, reads and closes as it likes. `MCLoader` holds the
machines.

**The terminal** is `Terminal`: `tm_putchar` with its three states, the cursor, the
attribute as four fields, and the screen. History variables keep all lines ever
written (`paper`), the text (`fed`), and the characters of it that were displayed, each
at its place in the text (`shown`). `tm_do_sgr` applies parameters
one after the other; since each sets some fields and keeps the others, the model says
which parameter is the last to set a field.

**Formatted output.** `Formats` says what a format and its arguments mean, from the C
standard. `PrintfCall` is a call: format, place, arguments taken, characters put out.
`KernelPrintf` is the kernel's function and the starter's: labels and tables, a step
per character, which differ in the modifiers and the width of numbers. `LoaderPrintf`
is the loader's: copying, and a chain of functions that read a directive. `Printf`
composes them, with `AsRead` for the directive that a function takes a given one for;
`MCPrintf` enumerates the formats.

What is abstracted: addresses are small numbers, contents of objects and files do not
exist beyond where they come from, names are short, debug output is left out. What is
not: each guard, early return, loop bound and order of updates. Integers keep their
width where the code relies on it: sizes of regions wrap at `TOP`, offsets on disk at
`W32`, parameters at `UINT`, numbers printed at 3, 4, 6 and 9 bits in place of 8, 16, 32
and 64, `rsize` at 16 bits.

## Runs, bounds and fairness

| run | what it checks | bounds and why they are enough |
|---|---|---|
| `bitmap` | bitmaps of all orders agree; no page is in two blocks; nothing is lost; `busy` counts; `_free`'s assertions hold; implements `PageAllocator` | 4 orders; a zone of 10 pages that is aligned to 2 only and one of 2: blocks are missing at its edges, and marks cross three orders. The uninitialised counter of `_page_reserve` happens to be 0 |
| `boot` | types never get weaker and no address is lost or invented; the map stays in the array; the kernel overlaps nothing; zones partition RAM; what is handed out was usable, and is apart from image, `.bss` and each other; the report is exact; `kmain` comes to its end | all sorted maps of three regions and all of fewer in any order, with regions of 1, 5 and 60 addresses of two types at three bases, whole pages or not; two sizes of kernel, three of `.bss`; an array of 7: every branch of the overlap loop is taken, splits are refused; memory that suffices, that is too small for `.bss` or for a table, and that ends before the identity map and behind it |
| `large_bins` | every search finds the best fit; all chunks are in their bin and ring | four chunks of sizes that branch at each of the first bits, or not at all |
| `heap` | chunks tile the arena; flags and sizes agree with neighbours; no two neighbours free; small rings hold free chunks of their lengths and no others; every large free chunk is found; implements `HeapTags` and `Heap` | room for two large chunks of one bin or six small ones: splits, rests too short to split, merges on either side and both, rings of three; a third large one of that bin meets the faults below |
| `heap_tries` | *violation*: a large chunk taken out is gone from the trie | room for three large chunks of one bin, two of them equally long |
| `slab` | objects and headers are disjoint, aligned and in their block; lists and counters; balance of the allocator's own objects; no growth while objects are left; implements `Heap` | page of 1 KiB with the code's structures, 7 blocks: `buf_t`'s cache grows in the middle of a growth, and memory runs out in every state; objects 10, 8, 3 and 1 to a slab |
| `slab_single` | *violation*: what is in the busy list has an object to give | as above |
| `terminal` | bounds, and the screen shows the last lines; sequences and nothing else are swallowed | all texts of six out of nine characters on 2 by 2 cells with two parameters: wrap, scroll, too many parameters and broken sequences all happen within six |
| `page_tables` | one page or large page is mapped at a time and no other changes; tables form a tree of pages of their own; once `kmain` is through, every page that ends in the map is mapped | tables of 5 entries, the direct mapping at entry 1; memory of up to 63 pages: directories of every level are made on the way, regions take small pages, large ones and both, a hole before the kernel, regions that begin or end inside a page and loops that never end for them, memories too small for the maps |
| `loader` | which file systems are mounted, each once; names open the file they lead to, reads give its bytes as far as they are found; every step of a search comes nearer to its end; the search for devices ends | ten machines, three sound ones and seven with an unreadable sector under a table, a chain, a superblock, the index of blocks, a directory or the file; logical partitions, a chain of three tables, one that leads to itself, an extended partition in an extended one; a file of 33 blocks, with four numbers to a block, reaches the triple indirect block, and one of 39 goes beyond where its index is right; links relative, absolute, long and to themselves; memory may fail once; two calls of a client after opening |
| `disk_error` | *violation*: the loader jumps only into a whole image | as above, `main` only |
| `printf` | what is put out is what the format means, with five named differences, or, at a limit, a beginning of it; no directive takes another's argument | 20 000 formats: a directive of every combination of flags, width, precision, size, conversion and sign, stars of both signs, widths that wrap to small ones, between characters and behind another directive whose fields must be forgotten; limits of 20 on width and precision |

`printf` reaches 288 000 states, `boot` 169 000, `heap` 50 000, `loader` 46 000,
`page_tables`, whose states are the largest, 2 400; none takes longer than two minutes.

Deadlock is not checked where the program really stops: the kernel at its assertion
(`boot`), the page tables when `kmain` is through or memory is out (`page_tables`), the
loader when it has jumped or failed (`loader`, `disk_error`), the heap that hangs and
the machine that panics (`heap*`, `slab*`), and where the trie's chunks or the text have
reached their bound (`large_bins`, `terminal`). The bounds on the length of a text
(`MaxFed`), on chunks (`MaxChunks`), caches (`MaxCaches`), calls (`MaxCalls`) and failed
allocations (`MaxStarved`) are in guards; that on blocks (`MaxBlocks`) is the memory of
the machine, and its end is handled as the code handles it.

Liveness is checked where the code has to finish. `Stops`: `kmain` comes to its
assertion or faults, under weak fairness of its steps. `Settles`: the loader is through
with its drives, under weak fairness of the steps of `dm_init`. Both assume no more than
that straight-line code on the one processor goes on. `Nearer` says of the search for
a file what makes it end: a measure that every step lowers. The other components answer
calls; that a call returns is part of their states (`hung`).

Each property has a mutant in `PROJECT.json`, a change of one definition as a mistake in
that code would make it, and the run that finds it.

## Where the code is not what it says

Three runs end in a counterexample; each is a behaviour of the code against its comment.

- `slab_single`: "Move the slab to full list" (`slab.c:205`). A slab with a single
  object goes to the busy list when that object is taken, and the next allocation goes
  through a null pointer.
- `disk_error`: "can't read kernel image file" (`main.c:58`). A BIOS error is a positive
  number and its readers look for a negative one; the loader jumps into an image with a
  hole.

- `heap_tries`: "Remove chunk from large free list" (`mm.c:580`). A chunk that takes over
  a place in the trie from the head of its ring gets no parent (`mm.c:610`); when it
  leaves in turn, its parent still leads to it, and the next call hands out a block that
  is in use. It takes three chunks of one bin.

The models contain more behaviour of that kind, as it is in the code. Properties are
stated beside it, and say what holds nevertheless. In the kernel:

- After the branch that moves the start of the next entry and sorts, the overlap loop
  goes on instead of looking at the same entry again (`e820.c:207`); a second entry that
  begins inside it stays overlapped, against `e820.c:266`. `DisjointFirmware` is stated
  for firmware whose entries do not overlap each other.
- "Entries should have been sorted so next entries is bigger than this" (`e820.c:125`),
  and of two with the same base the first is dropped or trimmed. A split refused for want of room
  leaves an entry that is longer than it was, possibly longer than one with the same base
  behind it, and then addresses are lost: with an array of 11 and the entries (101,7,1),
  (102,1,2), (104,1,2), (111,9,4), (112,18,3), (113,47,1), (120,4,2), written as base,
  size and type, the addresses from 130 to 159 leave the map. `NeverDowngraded` is stated
  for behaviours in which entries come in order; a search with an array that never fills
  found no other way out of it.
- The image is not wholly reserved: the entry of the kernel gets twice the size of the
  image, `kernel_offset` being the size of the image that `mkimage.c:98` writes there
  (`e820.c:252`), and none of `.bss`. `KernelApart` therefore needs a starter that is no
  longer than the image, and a reservation for `.bss` that worked.
- `palloc_get` takes an order and `kmain` passes a number of pages (`kmain.c:230`).
- `_page_reserve` reads an uninitialised counter (`palloc_bitmap.c:282`); the model
  starts it anywhere in `StartOrders`. From another value than 0 a reservation may leave
  pages unmarked, which are then handed out. The run takes 0, and the theorems that need
  it say so; that no page is in two blocks and that `_free`'s assertions hold is proved
  for any value. The strict bound of `palloc_bitmap.c:277` drops a zone's last page in
  any case: it cannot be reserved.
- the loop of `__zone_reserve` ends one page early (`palloc_bitmap.c:140`): the last
  page in use at the handover is not among `ReservePages`.
- the zone array is written before its bound is tested (`palloc_contiguous.c:90`): phase
  `"overrun"`.
- `pg_map_region` counts bytes down until none is left (`pg.c:96`). Nothing aligns the
  regions of the memory map. A size that is no number of whole pages makes the counter
  pass 0, and the loop maps page after page until memory is out (`RunAway`); of a region
  of whole pages that begins inside one, the page it ends in is not mapped.
  `EverythingMapped` is stated for a `kmain` that gets through, of the pages whose last
  byte is in the map.
- `printf` of the kernel reads the `int` behind a star as a `uint64_t`
  (`printf.c:525`, `544`): -4 is 4294967292, for the width and for the precision.
  Flag `#` is read and ignored, in the starter as well, and `%X` prints small letters.
  `Rendered` states all this through `AsRead`, and that there is nothing else, for the
  directives of the run.
- the starter's widths and precisions wrap at 32 bits between two checks
  (`boot/utl/printf.c`), so that one of 2^32 + 4 is one of 4; `Rendered` states that too.
- a point behind flags is a digit of the precision for both (`printf.c:219`), and the
  directive is given up (`Refused`). A conversion that they do not know, `hh` and `ll`
  among them, leaves the directive open: what follows is read as part of it. No run
  has such a directive, nor a `y`, which reads one byte behind the table of classes.

In the loader:

- "find the rightmost child" (`mm.c:615`): the loop never advances, and taking a chunk
  with children out of the trie does not return; the model then is in state `hung`.
- a ring of two small chunks is taken for a ring of one (`mm.c:569`), which loses a
  chunk until a neighbour of it is freed, and `mm_find_small` finds the worst fit
  (`mm.c:726`); what is in the bins is right, what should be there is not stated.
- the offset of the tables of an extended chain adds the links up, each of which counts
  from the partition (`mod_extp.c:110`): the third table is looked for in the wrong
  place. `MountedReal` is stated with that: what the third table holds is not mounted.
  Nothing tests for a chain that comes back; the growing offset ends it, unless
  it wraps around, which none of the machines has.
- the last sector of a read is the one behind its last byte (`dm.c:258`): a read that
  ends with the device is refused.
- a name is compared over the length of the element only (`dm.c:390`): `hd0p1` may find
  `hd0p10`.
- `dm_ext2_init` keeps the result of a read in an unsigned variable (`mod_ext2.c:190`),
  and never sees an error.
- `dm_path_hasnext` is called without its argument (`mod_ext2.c:463`); its answer is a
  choice, `stray` when it is not the truth.
- `dm_path_prepend`, called when `s` has run past the end of the path, takes a negative
  number of characters; what it then reads as names matches nothing in the model.
- the middle level of triple indirect blocks is indexed by `bi % (bs * bs)`
  (`mod_ext2.c:346`) instead of its quotient by `bs`, which is right for
  the first block below it only. `ReadsRight` stops there (`FoundBlocks`), while a file of
  the run goes on. A directory's blocks are counted with its indirect ones (`mod_ext2.c:382`).
- holes in files, whose block number is 0, are read from block 0. `ReadsRight` is stated
  for files without any.
- `printf` of the loader takes the `int` behind a star for a `size_t`
  (`printf.c:405-416`), so that a negative one pads nearly 2^32 times. The prefix
  of `#` counts for the width only with `-` or a precision: `%#8x` prints ten characters
  (`printf.c:655`). `Rendered` states both through `AsRead`. Left out of the run: `%#x` of
  0 prints `0x0`; `%%` is no directive, the second sign begins another one; `%i` and a star behind
  flags are not known and are copied, which the run shows of `%i` only.

## What is proved

`tlapm` checks every step; the theorems hold for all values of the constants that
satisfy the modules' named assumptions.

**`Boot_proofs`**, about every map
the firmware may give (`MapAssumption`: entries are not empty; `UsedAssumption`: nor of
type 0, which `e820_overlap` takes for an unused slot, nor is the kernel empty, and the
first page lies in front of it) and every array. The prover knows nothing of powers, so
`BootAssumption` says that those of 2 below `MAX_ORDER` are natural numbers above their
exponents; it also says that zones are in order and that memory ends a block below the
top of the address space.

- `MapInArray`: `WithinArray`, from `MapInv`: entries keep their shape, their ends are
  among the addresses that were there, and each step adds at most one, if there is room.
- `MapCovers`: `NeverDowngraded`. Every branch of the loop takes the two entries at hand
  away and puts up to three in their place; `OverlapCovers` shows for each branch that
  those cover the same addresses with types no lower (`SameCover`) and have no negative
  size (`Forward`), `MergeCovers` for the coalescing loop. That the sort loses nothing is
  a permutation argument about ranks. The order of the two entries is an assumption of the
  property and is used in the branches for entries that begin together.
- `ZonesDivide`: `ZonesPartition`, from `ZonesInv` and the case distinction of `zone.c`.
- `ReportedExactly`: `ReportExact`, from `PagesInv`: zones begin and end so far below
  `TOP` that no sum with a block wraps, the empty ones with their wrapped sizes included,
  and the blocks given tile the range between `pbgn` and `pend`. `Pages` being an
  instance of `PallocContiguous`, this is the contiguous allocator over every map that
  the clean-up may leave, with overlaps or without.
- `MapDisjoint`: `DisjointFirmware`. If the BIOS's entries do not overlap, the map is two
  layers without overlaps, theirs and that of the two entries added (`Layered`), and
  what a step cuts an entry into stays in its layer; so never do three entries meet in
  one address, which is what makes the look at two neighbours enough (`NoThree`). With
  it `Tidy` is inductive: the entries from `i` on are sorted, and those before it end
  where any later one begins (`Ordered`, `Settled`). Each branch of the loop has its
  lemma; `NoRoomTidies` is the one where a full array makes one entry take over another's
  rest. Coalescing keeps what is apart so (`MergeKeeps`).
- `UsableOnly`: `GivenUsable`. Without overlaps in the beginning entries come in order
  (`LayersInOrder`), so `MapCovers`' invariant holds without its condition (`CleanInv`);
  with the finished map's entries apart, an address of a usable one has no other type in
  any entry of the beginning (`UsableAt`). Zones lie within their regions when cut to
  whole pages (`ZoneGood`), and what is given within the zone chosen (`OriginInv`,
  `TakenFrom`), one shorter than a page included, which gives nothing.
- `KernelKeptApart`: `KernelApart`. `FramesInv`: the block for `.bss` is the zone's first,
  and each block taken later is behind it and at an address of its own. That first block
  begins above `kb` at an address that is usable, hence behind the kernel's entry, which
  has twice the image's size: enough, if the starter is no longer (`BehindImage`); and
  2^n pages are more than n (`BlockSize`).

**`PallocBitmap_proofs`** (which begins with facts about aligned blocks whose lengths
double: enclosed or apart, halves, the enclosing block is unique; those about division
are in `NatLemmas`), for any number of orders and any disjoint zones. The invariant `IInv`: the
bitmap of single pages holds exactly the pages of live blocks and the reserved ones
(`NothingLost`), and a larger block is marked exactly when one of its pages is
(`BitmapsAgree`). The second makes the early stops right: at the first enclosing block
already marked, all further ones are; at the first busy half, all blocks above stay
busy. `LiveInZone` and `LiveDisjoint` turn a cleared block into exactly one block's
pages. From it follow `Safety`, `NoPageLost`, `Counting` and `Refinement`; they assume
that the counter of `_page_reserve` starts at 0. `NeverTwice` (`LiveDisjoint`) and
`FreeAssertions` do not: whatever it holds, reservations mark too few blocks and never too
many, and the weaker invariant `WInv`, that the pages of live blocks are marked and
every block that encloses a marked one, is enough for them.

**`HeapTags_proofs`**: `Consistent`, `ArenaTiled`, `FreeMerged` and `Refinement`, for
every arena and set of requests, and any choice of the free chunk; the run `heap` checks
them of `LoaderHeap`, whose choice its bins make. The invariant is those properties together,
each needing the others: a merge keeps the tiling only because `psz` and `pbusy` are
true of the neighbour, and one neighbour on each side is enough only because no two are
free. `mm_malloc` and `mm_free` then map to `Heap`'s steps. `Heap` does not keep which
request a step serves: a block lies inside, overlaps none and is as long as *some* request.

**`LargeBins_proofs`**: `Reached` (`AllLinked`) and `BestFit` (`FindsBestFit`), for any
number of chunks freed, of any lengths that go into large bins and fit the arena
(`SizeAssumption`), and any searches. `PowerAssumption` says what 2^0 is and that powers
double. The invariant `Good` has three parts.

- `Parted`: a child `j` of a node at depth `d` agrees with it in `d` bits of the key and
  has `j` as the next, and each node is where the key of its length leads from its bin's
  root (`InTree`). Then what is met on the way of a length agrees with it so far
  (`OnTheWay`), and as two lengths of a bin that agree in all bits are the same
  (`AllAgree`), no way is longer than the bits (`NotTooDeep`).
- `Ringed`: `next` and `prev` undo each other and stay within a length.
- `Placed`: the key of each chunk leads to a node of its length, whose ring it is in.

Linking never changes a link down that is there (`Kept`), so the ways stay (`KeptWay`);
`LinkRoot`, `LinkLeaf` and `LinkRing` are the three cases of `mm_link_large`. `Reachable`
goes as many rounds as there are chunks, enough because a round that adds nothing is the
last (`ReachableIs`). For the search: lengths of lower bins are shorter (`SlotOrder`),
and of two that agree so far the one whose next bit is 0 is shorter (`KeyOrder`). Let `t`
be the shortest fit in the bin and `e` the first bit in which it differs from `s`. If
its node is met before, it is on the path; otherwise `e` is the last right child passed
by, since one passed by below would be a shorter fit (`SeenShortest`), and the spine there
comes by the shortest of its subtree (`SpineShortest`), as in the bins above
(`RootSpine`). The recursive functions that paths and spines are get their values from
`Recursion` in `NatLemmas`, itself shown by the least number for which it fails.

**`Slab_proofs`**: `Balance`, `SingleOpenSlab`, `ListsKept`, `TypeCorrect`, `BytesApart`
and `Refinement`, for all sizes of pages, structures, objects and cache lines. A step
that lets caches grow in the midst of growing is one action, so the invariant `IInv`
speaks of a memory, a record, and every function an allocation is made of is shown to
keep it: `TakeBlockGood`, `GrowSmallGood`, `DetachGood`, `GrowLargeGood`, `ExtendGood`.

- `Shaped`: the objects of a cache fit behind the header at every colour, the last one
  included (`SmallShapeFacts`, `LargeShapeFacts`, `ColorFacts`): the numbers of objects
  and colours come out of divisions, with the correction for alignment in between, and
  a small slab has two objects at least.
- `SlabRight`: a slab's objects begin at some byte `d`; its free list is the first of
  them and those handed out are the rest, so the next object is new (`NextIsNew`). The
  header of a large slab is an object of `cache_slab` that is out.
- `Listed`, `Counted`: each slab once in one of the lists, at most one of them not full.
  They are what makes `Exhausted` mean that no object is left, and `SingleOpenSlab`
  follows from them because a cache never grows during its own growth.
- `Balanced`: the objects given by the caches of `slab_t`, `buf_t` and caches are as many
  as stand for something. The loop of `_slab_grow_large` is a recursive function,
  and along its values the balance is off by one `slab_t` and `i` `buf_t` (`AlongNext`).
  That it has those values (`StepsExist`) and that they all are so (`AlongSteps`) is
  shown by the least number for which it fails, not by an induction theorem.

`SizeAssumption` asks that no size be 0, that a `slab_t` be no longer than a cache, and
that a page be long enough for a few objects behind their header;
`ShapeAssumption` that the allocator's own objects be small and the users' fit a block;
`LineAssumption` that the cache line be not 0; `PowerAssumption` what is needed of
powers of 2. All hold of the code's numbers. `Refinement` maps what callers hold to
`Heap`, whose arena is the blocks there may be. The run shows, and the theorems allow,
that a slab of one object is full in the busy list: after it the state is `"wild"`.

**`PageTables_proofs`**: `Refinement`, `TablesStayApart` and `AllMapped`, for tables of
any size, any place of the areas in the address space and every memory. The invariant
`IInv` has three parts.

- `Tree`: some function `L` gives every table its level. An entry in use leads one level
  down, to a table that no other entry leads to; only the self reference leads to its
  own table. So the walk through `SELF` arrives at the table `_pg_map` means (`Reached`,
  on `SelfWalk`), and writing into it changes only what leads through that entry
  (`Untouched`, `Elsewhere`). A new table is the delicate case (`NewTable`): between its
  being entered and its being cleared it is reached through itself, with whatever the
  page held; as no other entry leads there, no address of the program sees it.
- `CallInv` and `DirectInv`: the request at work has nothing mapped in it, since both
  loops of `kmain` go upwards and their regions do not overlap; that is why an entry
  overwritten by `_pg_map` is always an empty one.
- `PagesInv`: the descriptors below `vm` have cleared pages of their own, which no table
  may be taken from later.

`SizeAssumption` puts the direct mapping before the descriptors and those before the
window of the tables, as 256, 506 and 510 of 512 entries are. `LayoutAssumption` asks of
the memory map that it be sorted and without overlaps, and not that its regions be whole
pages; that the contiguous allocator has the pages `init_paging` takes (which tests
none), and that memory is less than fits between the areas. `AllMapped` is about a
`kmain` that gets through, which it does when every region is as long as its whole pages
(`Collected` collects what the calls have mapped). Of what follows a failed `palloc_get`
(phase `"broken"`) nothing is claimed.

**`Terminal_proofs`**, for every screen and every text: `OnScreen` has an invariant with
a part about the screen, kept by going down a line and by displaying, from whichever
state they are called, and one about the parser, where the number of parameters is
below the limit exactly while a sequence is open. `SequencesSwallowed` adds that what
was displayed is the text without its sequences: the parser's state says where in a
sequence the text so far ends (`SequenceInv`), and a character written changes nothing
about those before it (`Earlier`).

Checked by TLC only:

- `SmallRings` and `LargeFound` (`LoaderHeap`): the second holds of arenas with room for
  two large chunks of one bin only, as said above; there is no theorem about every arena.
- `MountedReal` (`Devices`), `OpensRight` and `ReadsRight` (`Loader`): they compare the
  code's walk through tables of partitions, directories and block lists with a recursive
  description of the disk, over drives given as data.
- `Rendered` and `TakesItsOwn` (`Printf`): digits and fields are recursive functions of
  a number and a text, and equality with the reference is induction over both.
- `Stops` and `Settles`: liveness is beyond the prover.

## What is not modelled

- The streams of the loader, a table of one entry that relays to the terminal, and the
  string and conversion routines, which are modelled by what they return where they are
  called.
- Start-up code, BIOS calls, the kernel's starter, the boot sector and the host's tools:
  the machine or a file is their state. What the starter leaves is the input of `Boot`,
  what the tools wrote is what the drives of `Loader` hold.
- The buddy allocator, whose alloc and free are `ASSERT(0)`; `cpuinfo` and the serial
  port, which have no state.
- Of the modelled files the debug printers, and what undefined inputs would do: sizes for
  the slab allocator beyond the longest block, alignments that are no powers of two, a
  cache line of 0 bytes, requests of nearly 4 GiB to the loader's heap, memory that is not
  zero where `mm_init` expects it, more than one terminal, formats the C standard gives no
  meaning.
- The translation buffer: `PageTables` translates from the tables as they are.
- What a reader finds behind an array of regions that is full: the map is a sequence, and
  what stops at an entry of size 0 stops at its end.
- The memory of the loader's paths: `Loader` says when an allocation fails, and not that a
  path freed twice would spoil the heap.

## Plan

*Done*: everything but the components above; `Boot` composes the map, the zones and the
first two allocators, `Loader` the devices, the file system and `main`. Left:

1. The handover from the contiguous allocator to the bitmap one in `Boot`, once the code
   has it: `PallocBitmap` starts from any range reported as taken.
2. The layout on which `mkimage`, the starter and the kernel should agree.
3. Proofs: of `Devices`, `MountedReal`.
