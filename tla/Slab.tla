--------------------------------- MODULE Slab ---------------------------------
(* The kernel's slab allocator (src/kernel/mm/slab.c).  A cache hands out     *)
(* objects of one size from slabs, each a block of pages; a small object's    *)
(* slab keeps its header (a slab_t and one buf_t per object) in front of its  *)
(* objects, a large one's takes them from the allocator's own caches.  The    *)
(* caches, too, are objects, of the cache _ca.  Nothing is ever freed.        *)
(* An address is a pair: the block, numbered as palloc_get returns them, and  *)
(* the byte in it.                                                            *)
EXTENDS Integers, Sequences, FiniteSets, Functions

CONSTANTS
    PAGE_SIZE,     \* bytes in a page
    MAX_ORDER,     \* blocks are of 2^0 .. 2^(MAX_ORDER - 1) pages
    CACHE, SLAB, BUF, WORD,
                   \* sizeof slab_cache_t, slab_t, buf_t and uint64_t
    CacheLine,     \* what cpuinfo_get_cache_line finds
    Users,         \* what slab_register is called with: pairs <<size, align>>
    MaxCaches,     \* the caches there may be
    MaxBlocks      \* the blocks palloc_get has

ASSUME LineAssumption == CacheLine \in Nat \ {0}

(* No size is zero.  A slab_t is no longer than a cache, so that leaving a    *)
(* cache's bytes out of the page leaves room for the slab's header, and a     *)
(* page is long enough for several small objects with their headers.          *)
ASSUME SizeAssumption ==
    /\ {PAGE_SIZE, MAX_ORDER, CACHE, SLAB, BUF, WORD} \subseteq Nat \ {0}
    /\ Users \subseteq (Nat \ {0}) \X Nat
    /\ SLAB <= CACHE /\ 8 * (CACHE + 3 * BUF) <= 5 * PAGE_SIZE
    /\ MaxCaches \in Nat /\ MaxCaches >= 3 /\ MaxBlocks \in Nat \ {0}

(* What the proofs need to know of powers of two.                             *)
ASSUME PowerAssumption ==
    /\ 2^0 = 1 /\ 2^16 \in Nat \ {0}
    /\ \A k \in 0 .. MAX_ORDER : 2^k \in Nat \ {0} /\ 2^k <= 2^MAX_ORDER

VARIABLES
    caches,    \* the caches in the order of _sa's list, records
    slabs,     \* the slab_t records, by their address
    blocks,    \* how many blocks have been taken
    out,       \* the objects handed out, records [cache, at]
    status     \* running, or panic (an assertion), or wild (a null pointer)
vars == <<caches, slabs, blocks, out, status>>

CA == 1        \* _ca
CacheSlab == 2 \* _sa.cache_slab
CacheBuf == 3  \* _sa.cache_buf

-------------------------------------------------------------------------------
(* Geometry of a cache.  Alignments are powers of two, so that the code's     *)
(* masks round up to a multiple.                                              *)
RoundUp(x, a) == ((x + a - 1) \div a) * a

(* An alignment lies between a word and a page.                               *)
Align(a) ==
    IF a >= PAGE_SIZE THEN PAGE_SIZE ELSE IF a <= WORD THEN WORD ELSE RoundUp(a, WORD)

OnSlab(osize) == osize * 8 < PAGE_SIZE

(* Mutant: the header of n objects is not rounded up to their alignment.      *)
HeaderUnaligned(n, a) == SLAB + n * BUF

_slab_header_size(n, a) == RoundUp(SLAB + n * BUF, a)

(* The objects of a slab that holds its own header, and the bytes left over.  *)
SmallShape(osize, a) ==
    LET guess == (PAGE_SIZE - CACHE) \div (BUF + osize)
        used(n) == _slab_header_size(n, a) + n * osize
        nobjs == IF used(guess) > PAGE_SIZE THEN guess - 1 ELSE guess
    IN [order |-> 0, nobjs |-> nobjs, rsize |-> PAGE_SIZE - used(nobjs)]

Block(order) == PAGE_SIZE * 2^order

(* A large object's slab is the shortest block that wastes less than an       *)
(* eighth, or else the longest block there is.                                *)
LargeShape(osize) ==
    LET thrifty == {k \in 0 .. MAX_ORDER - 1 :
                        osize <= Block(k) /\ (Block(k) % osize) * 8 < Block(k)}
        order == IF thrifty = {} THEN MAX_ORDER - 1
                 ELSE CHOOSE k \in thrifty : \A j \in thrifty : k <= j
    IN [order |-> order, nobjs |-> Block(order) \div osize, rsize |-> Block(order) % osize]

(* _slab_cache_init: slabs begin at one of `colors' multiples of offset.      *)
_slab_cache_init(size, align) ==
    LET a == Align(align)
        osize == RoundUp(size, a)
        shape == IF OnSlab(osize) THEN SmallShape(osize, a) ELSE LargeShape(osize)
        offset == RoundUp(CacheLine, a)
    IN [osize |-> osize, align |-> a, order |-> shape.order, nobjs |-> shape.nobjs,
        offset |-> offset, colors |-> (shape.rsize % 2^16) \div offset + 1, nxtcol |-> 0,
        bsy |-> 0, cnt |-> 0, free |-> << >>, busy |-> << >>, full |-> << >>]

(* The allocator's own objects are small, and no object is longer than the    *)
(* longest block, beyond which _slab_cache_init reads nobjs uninitialised.    *)
ASSUME ShapeAssumption ==
    /\ \A z \in {CACHE, SLAB, BUF} : OnSlab(RoundUp(z, WORD))
    /\ \A u \in Users : RoundUp(u[1], Align(u[2])) <= Block(MAX_ORDER - 1)

-------------------------------------------------------------------------------
(* The allocator's memory m as one record, so that an allocation which makes  *)
(* its cache grow, which may make others grow, is one step.                   *)
Memory == [caches |-> caches, slabs |-> slabs, blocks |-> blocks, out |-> out]

NextColor(k) == IF k.nxtcol + 1 >= k.colors THEN 0 ELSE k.nxtcol + 1

(* Mutant: objects are laid out a word too close.                             *)
FreeListTight(k, b, data) ==
    [i \in 1 .. k.nobjs |-> <<b, data + (k.nobjs - i) * (k.osize - WORD)>>]

(* The free list of a new slab whose first object is at `data': the last      *)
(* object comes first.                                                        *)
FreeList(k, b, data) ==
    [i \in 1 .. k.nobjs |-> <<b, data + (k.nobjs - i) * k.osize>>]

(* A new slab of cache c at s becomes the head of the free list.              *)
AddSlab(m, c, s, b, data) ==
    LET k == m.caches[c]
        slab == [cache |-> c, page |-> b, free |-> FreeList(k, b, data),
                 bsy |-> 0, cnt |-> k.nobjs]
    IN [m EXCEPT !.slabs = [t \in {s} \cup DOMAIN @ |-> IF t = s THEN slab ELSE @[t]],
                 !.caches[c].cnt = @ + k.nobjs,
                 !.caches[c].free = <<s>> \o @]

(* palloc_get gives a block and the cache its next colour.                    *)
TakeBlock(m, c) ==
    [m EXCEPT !.blocks = @ + 1, !.caches[c].nxtcol = NextColor(m.caches[c])]

_slab_grow_small(m, c) ==
    LET k == m.caches[c]
        b == m.blocks + 1
        at == k.offset * k.nxtcol
    IN AddSlab(TakeBlock(m, c), c, <<b, at>>, b, at + _slab_header_size(k.nobjs, k.align))

(* Mutant: a slab leaves the free list only when it is full.                  *)
RelistWhenFull(k, s, full) ==
    IF k.busy = << >> /\ ~full THEN k
    ELSE IF k.busy = << >> THEN [k EXCEPT !.free = Tail(@), !.full = <<s>> \o @]
    ELSE IF full THEN [k EXCEPT !.busy = Tail(@), !.full = <<s>> \o @] ELSE k

(* Slab s moves from the free list to the busy one, or else, once its last    *)
(* object is taken, from the busy list to the full one.                       *)
Relist(k, s, full) ==
    IF k.busy = << >> THEN [k EXCEPT !.free = Tail(@), !.busy = <<s>> \o @]
    ELSE IF full THEN [k EXCEPT !.busy = Tail(@), !.full = <<s>> \o @]
    ELSE k

(* The slab the next object of cache k comes from.                            *)
Candidate(k) == IF k.busy # << >> THEN Head(k.busy) ELSE Head(k.free)

(* slab_allocate once the cache has a slab.                                   *)
Detach(m, c) ==
    LET k == m.caches[c]
        s == Candidate(k)
        bsy == m.slabs[s].bsy + 1
    IN [m EXCEPT !.slabs[s].free = Tail(@),
                 !.slabs[s].bsy = bsy,
                 !.caches[c] = Relist([k EXCEPT !.bsy = @ + 1], s, bsy = m.slabs[s].cnt),
                 !.out = @ \cup {[cache |-> c, at |-> Head(m.slabs[s].free)]}]

(* Mutant: the busy slabs are forgotten.                                      *)
ExhaustedFree(k) == k.free = << >>

Exhausted(k) == k.busy = << >> /\ k.free = << >>

(* slab_allocate for a cache of small objects.                                *)
AllocateSmall(m, c) ==
    Detach(IF Exhausted(m.caches[c]) THEN _slab_grow_small(m, c) ELSE m, c)

(* What the next slab_allocate of cache c returns, given memory m.            *)
NextObject(m, c) ==
    LET g == IF Exhausted(m.caches[c]) THEN _slab_grow_small(m, c) ELSE m
    IN Head(g.slabs[Candidate(g.caches[c])].free)

(* Mutant: no buf_t is taken for the last object.                             *)
GrowOneBufShort(m, c) ==
    LET k == m.caches[c]
        b == m.blocks + 1
        m1 == TakeBlock(m, c)
        s == NextObject(m1, CacheSlab)
        step[i \in 0 .. k.nobjs - 1] ==
            IF i = 0 THEN AllocateSmall(m1, CacheSlab)
            ELSE LET prev == step[i - 1] IN AllocateSmall(prev, CacheBuf)
    IN AddSlab(step[k.nobjs - 1], c, s, b, k.offset * k.nxtcol)

(* A slab_t for the slab and a buf_t for each object come from the            *)
(* allocator's own caches.                                                    *)
_slab_grow_large(m, c) ==
    LET k == m.caches[c]
        b == m.blocks + 1
        m1 == TakeBlock(m, c)
        s == NextObject(m1, CacheSlab)
        step[i \in 0 .. k.nobjs] ==
            IF i = 0 THEN AllocateSmall(m1, CacheSlab)
            ELSE LET prev == step[i - 1] IN AllocateSmall(prev, CacheBuf)
    IN AddSlab(step[k.nobjs], c, s, b, k.offset * k.nxtcol)

_slab_grow(m, c) ==
    IF OnSlab(m.caches[c].osize) THEN _slab_grow_small(m, c) ELSE _slab_grow_large(m, c)

(* Memory in which slab_allocate of cache c looks for a slab.                 *)
Ready(m, c) == IF Exhausted(m.caches[c]) THEN _slab_grow(m, c) ELSE m

(* slab_register: the new cache is an object of _ca, at the end of the list.  *)
Registered(m, size, align) ==
    LET m1 == AllocateSmall(m, CA)
    IN [m1 EXCEPT !.caches = Append(@, _slab_cache_init(size, align))]

-------------------------------------------------------------------------------
(* slab_init: the cache of caches, then the caches of slab_t and buf_t.       *)
Init ==
    /\ LET m0 == [caches |-> <<_slab_cache_init(CACHE, WORD)>>, slabs |-> << >>,
                  blocks |-> 0, out |-> {}]
           m == Registered(Registered(m0, SLAB, WORD), BUF, WORD)
       IN /\ caches = m.caches /\ slabs = m.slabs
          /\ blocks = m.blocks /\ out = m.out
    /\ status = "running"

(* palloc_get returns null and the assertion on it stops the kernel.          *)
Commit(m) ==
    IF m.blocks <= MaxBlocks
    THEN /\ caches' = m.caches /\ slabs' = m.slabs
         /\ blocks' = m.blocks /\ out' = m.out
         /\ UNCHANGED status
    ELSE status' = "panic" /\ UNCHANGED <<caches, slabs, blocks, out>>

slab_register(size, align) ==
    /\ status = "running"
    /\ Len(caches) < MaxCaches
    /\ Commit(Registered(Memory, size, align))

HasObject(m, c) == m.slabs[Candidate(m.caches[c])].free # << >>

slab_allocate(c) ==
    /\ status = "running"
    /\ LET m == Ready(Memory, c)
       IN HasObject(m, c) /\ Commit(Detach(m, c))

(* The slab chosen has no free object and the code goes through a null buf.   *)
AllocateNull(c) ==
    /\ status = "running"
    /\ ~HasObject(Ready(Memory, c), c)
    /\ status' = "wild"
    /\ UNCHANGED <<caches, slabs, blocks, out>>

(* Callers have the caches they registered, not the allocator's own.          *)
Next ==
    \/ \E u \in Users : slab_register(u[1], u[2])
    \/ \E c \in CacheBuf + 1 .. Len(caches) : slab_allocate(c) \/ AllocateNull(c)

Spec == Init /\ [][Next]_vars

-------------------------------------------------------------------------------
(* The slabs of a list, the slabs and the objects handed out of a cache, and  *)
(* all slabs of large objects.                                                *)
SlabsOf(c) == {s \in DOMAIN slabs : slabs[s].cache = c}
OutOf(c) == {o \in out : o.cache = c}
Large == {s \in DOMAIN slabs : ~OnSlab(caches[slabs[s].cache].osize)}

(* The bytes of block b in use: objects handed out, and the header of a slab  *)
(* that holds its own.                                                        *)
Areas(b) ==
    {[from |-> o.at[2], size |-> caches[o.cache].osize] : o \in {p \in out : p.at[1] = b}}
    \cup {[from |-> s[2], size |-> SLAB + slabs[s].cnt * BUF] :
            s \in {t \in DOMAIN slabs \ Large : t[1] = b}}

(* The state is well formed: a free object is an address in its slab's block, *)
(* no cache is short of objects or colours, and no slab has given more than   *)
(* it has.                                                                    *)
TypeOK ==
    /\ status \in {"running", "panic", "wild"}
    /\ blocks \in 0 .. MaxBlocks
    /\ Len(caches) \in CacheBuf .. MaxCaches
    /\ \A c \in DOMAIN caches :
        /\ caches[c].nobjs > 0
        /\ caches[c].nxtcol \in 0 .. caches[c].colors - 1
        /\ caches[c].bsy \in 0 .. caches[c].cnt
    /\ \A s \in DOMAIN slabs :
        /\ slabs[s].page \in 1 .. blocks
        /\ slabs[s].bsy \in 0 .. slabs[s].cnt
        /\ \A i \in DOMAIN slabs[s].free :
            slabs[s].free[i] \in {slabs[s].page} \X Nat

(* Objects handed out and slab headers lie inside their block, share no byte, *)
(* and objects are aligned as their cache asks: colours, headers and the      *)
(* sizes of the two kinds of slab fit together (_slab_cache_init).            *)
Apart ==
    \A s \in DOMAIN slabs :
        LET k == caches[slabs[s].cache]
            areas == Areas(slabs[s].page)
        IN /\ \A x, y \in areas : x.from <= y.from /\ x # y => x.from + x.size <= y.from
           /\ \A x \in areas : x.from + x.size <= Block(k.order)
           /\ \A o \in out : o.at[1] = slabs[s].page =>
                o.cache = slabs[s].cache /\ o.at[2] % k.align = 0

(* The three lists of a cache hold its slabs, each once, by how many of their *)
(* objects are in use; only a slab with a single object may be full and busy. *)
ListsRight ==
    \A c \in DOMAIN caches :
        LET k == caches[c]
            all == k.free \o k.busy \o k.full
        IN /\ Range(all) = SlabsOf(c)
           /\ Len(all) = Cardinality(SlabsOf(c))
           /\ \A s \in Range(k.free) : slabs[s].bsy = 0
           /\ \A s \in Range(k.busy) :
                slabs[s].bsy > 0 /\ (slabs[s].bsy < slabs[s].cnt \/ slabs[s].cnt = 1)
           /\ \A s \in Range(k.full) : slabs[s].bsy = slabs[s].cnt

(* slab.c:205 says that a slab whose last object is taken moves to the full   *)
(* list: what is in the busy list has an object to give.                      *)
BusyHasRoom ==
    \A c \in DOMAIN caches : \A s \in Range(caches[c].busy) : slabs[s].free # << >>

(* The allocator's own objects are in balance: one of _ca for each cache but  *)
(* itself, one slab_t for each slab of large objects and one buf_t for each   *)
(* object of those, whatever grew in the midst of what.                       *)
OwnObjects ==
    /\ Cardinality(OutOf(CA)) = Len(caches) - 1
    /\ {o.at : o \in OutOf(CacheSlab)} = Large
    /\ Cardinality(OutOf(CacheBuf)) =
           Cardinality(UNION {{s} \X (1 .. slabs[s].cnt) : s \in Large})

(* A cache grows only when it has no object left, also when it grows for the  *)
(* growth of another: at most one of its slabs is not full.                   *)
OneOpenSlab ==
    \A c \in DOMAIN caches : Len(caches[c].free) + Len(caches[c].busy) <= 1

(* To its callers the allocator is a heap from which nothing is freed: it     *)
(* gives at least the bytes asked for, and no byte twice.                     *)
Flat(at) == at[1] * Block(MAX_ORDER) + at[2]
UserObjects == {o \in out : o.cache > CacheBuf}
Live ==
    [a \in {Flat(o.at) : o \in UserObjects} |->
        caches[(CHOOSE o \in UserObjects : Flat(o.at) = a).cache].osize]
Abstract ==
    INSTANCE Heap WITH ArenaStart <- 0, ArenaEnd <- Flat(<<MaxBlocks + 1, 0>>),
                       Requests <- {u[1] : u \in Users}, live <- Live
ImplementsHeap == Abstract!Spec
===============================================================================
