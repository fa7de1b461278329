------------------------------ MODULE Slab_proofs ------------------------------
(* Proofs about the slab allocator for every size of pages, objects and cache  *)
(* lines.                                                                      *)
EXTENDS Slab, NatLemmas, SequenceTheorems

-------------------------------------------------------------------------------
(* The invariant speaks of a memory m, a record like Memory: an allocation    *)
(* that makes caches grow is one step, and each of its parts keeps it.        *)

Positive == Nat \ {0}
Address == Positive \X Nat
Object == [cache : Positive, at : Address]
SlabRecord == [cache : Positive, page : Positive, free : Seq(Address), bsy : Nat, cnt : Nat]
CacheRecord ==
    [osize : Positive, align : Positive, order : Nat, nobjs : Positive,
     offset : Positive, colors : Positive, nxtcol : Nat, bsy : Nat, cnt : Nat,
     free : Seq(Address), busy : Seq(Address), full : Seq(Address)]

Typed(m) ==
    /\ m = [caches |-> m.caches, slabs |-> m.slabs, blocks |-> m.blocks, out |-> m.out]
    /\ m.caches \in Seq(CacheRecord)
    /\ DOMAIN m.slabs \in SUBSET Address /\ IsFiniteSet(DOMAIN m.slabs)
    /\ m.slabs \in [DOMAIN m.slabs -> SlabRecord]
    /\ m.blocks \in Nat
    /\ m.out \in SUBSET Object /\ IsFiniteSet(m.out)

(* The bytes in front of the objects of a slab at colour 0.                   *)
Room(k) == IF OnSlab(k.osize) THEN _slab_header_size(k.nobjs, k.align) ELSE 0

(* The slabs of cache k end inside their block, whatever their colour.        *)
Shaped(k) ==
    /\ k.order \in 0 .. MAX_ORDER - 1
    /\ k.nxtcol \in 0 .. k.colors - 1
    /\ k.offset % k.align = 0 /\ k.osize % k.align = 0
    /\ k.offset * (k.colors - 1) + Room(k) + k.nobjs * k.osize <= Block(k.order)
    /\ OnSlab(k.osize) => k.nobjs >= 2

(* The free list of a slab with n free objects, and the objects it gave.      *)
Objects(n, b, d, z) == [i \in 1 .. n |-> <<b, d + (n - i) * z>>]
Given(r, d, z) ==
    {[cache |-> r.cache, at |-> <<r.page, d + j * z>>] : j \in (r.cnt - r.bsy) .. (r.cnt - 1)}

(* The objects of slab s begin at byte d of its block.                        *)
Begins(m, s, d) ==
    LET r == m.slabs[s]
        k == m.caches[r.cache]
    IN /\ d % k.align = 0
       /\ d + r.cnt * k.osize <= Block(k.order)
       /\ OnSlab(k.osize) => s[1] = r.page /\ s[2] + SLAB + r.cnt * BUF <= d
       /\ r.free = Objects(r.cnt - r.bsy, r.page, d, k.osize)
       /\ {o \in m.out : o.at[1] = r.page} = Given(r, d, k.osize)

SlabRight(m, s) ==
    LET r == m.slabs[s]
    IN /\ r.cache \in DOMAIN m.caches
       /\ r.page \in 1 .. m.blocks
       /\ r.cnt = m.caches[r.cache].nobjs /\ r.bsy \in 0 .. r.cnt
       /\ \E d \in 0 .. Block(MAX_ORDER) : Begins(m, s, d)
       /\ ~OnSlab(m.caches[r.cache].osize) => [cache |-> CacheSlab, at |-> s] \in m.out

PagesApart(m) ==
    \A s, t \in DOMAIN m.slabs : m.slabs[s].page = m.slabs[t].page => s = t

OutOfSlabs(m) ==
    \A o \in m.out : \E s \in DOMAIN m.slabs : o.at[1] = m.slabs[s].page

SlabsIn(m, c) == {s \in DOMAIN m.slabs : m.slabs[s].cache = c}

(* Each slab is once in the lists of its cache, and one at most has objects   *)
(* left; the counters of the cache say how many are in use and in all.        *)
Lists(k) == k.free \o k.busy \o k.full
OpenSlab(m, k) ==
    \/ k.free = << >> /\ k.busy = << >>
    \/ \E s \in DOMAIN m.slabs :
        k.free = <<s>> /\ k.busy = << >> /\ m.slabs[s].bsy = 0
    \/ \E s \in DOMAIN m.slabs :
        /\ k.free = << >> /\ k.busy = <<s>> /\ m.slabs[s].bsy > 0
        /\ m.slabs[s].bsy < m.slabs[s].cnt \/ m.slabs[s].cnt = 1
Once(q) == \A i, j \in DOMAIN q : q[i] = q[j] => i = j
Listed(m, c) ==
    LET k == m.caches[c]
    IN /\ OpenSlab(m, k)
       /\ Once(Lists(k)) /\ Range(Lists(k)) = SlabsIn(m, c)
       /\ \A s \in Range(k.full) : m.slabs[s].bsy = m.slabs[s].cnt
Counted(m, c) ==
    LET k == m.caches[c]
        busy == IF k.busy = << >> THEN 0 ELSE m.slabs[Head(k.busy)].bsy
    IN k.cnt = k.nobjs * Len(Lists(k)) /\ k.bsy = k.nobjs * Len(k.full) + busy

Good(m) ==
    /\ Typed(m)
    /\ \A c \in DOMAIN m.caches : Shaped(m.caches[c])
    /\ \A c \in DOMAIN m.caches : c \in {CA, CacheSlab, CacheBuf} => OnSlab(m.caches[c].osize)
    /\ \A s \in DOMAIN m.slabs : SlabRight(m, s)
    /\ PagesApart(m) /\ OutOfSlabs(m)
    /\ \A c \in DOMAIN m.caches : Listed(m, c) /\ Counted(m, c)

(* The allocator's own objects are in balance (OwnObjects).                   *)
OutFrom(m, c) == {o \in m.out : o.cache = c}
LargeIn(m) == {s \in DOMAIN m.slabs : ~OnSlab(m.caches[m.slabs[s].cache].osize)}
BufsFor(m) == UNION {{s} \X (1 .. m.slabs[s].cnt) : s \in LargeIn(m)}
Balanced(m) ==
    /\ Cardinality(OutFrom(m, CA)) = Len(m.caches) - 1
    /\ {o.at : o \in OutFrom(m, CacheSlab)} = LargeIn(m)
    /\ IsFiniteSet(BufsFor(m))
    /\ Cardinality(OutFrom(m, CacheBuf)) = Cardinality(BufsFor(m))

(* A registered cache serves some request.                                    *)
Serves(m) ==
    \A c \in DOMAIN m.caches : c > CacheBuf => \E u \in Users : m.caches[c].osize >= u[1]

IInv ==
    /\ Good(Memory) /\ Balanced(Memory) /\ Serves(Memory)
    /\ status \in {"running", "panic", "wild"}
    /\ blocks <= MaxBlocks /\ Len(caches) \in CacheBuf .. MaxCaches

-------------------------------------------------------------------------------
(* Geometry: a cache that _slab_cache_init has set up is shaped right.        *)

LEMMA Sizes ==
    /\ PAGE_SIZE \in Positive /\ MAX_ORDER \in Positive /\ CACHE \in Positive
    /\ SLAB \in Positive /\ BUF \in Positive /\ WORD \in Positive
    /\ CacheLine \in Positive /\ 2^16 \in Positive
BY SizeAssumption, LineAssumption, PowerAssumption DEF Positive

LEMMA RoundUpFacts ==
    ASSUME NEW x \in Nat, NEW a \in Positive
    PROVE  /\ RoundUp(x, a) \in Nat /\ RoundUp(x, a) % a = 0
           /\ x <= RoundUp(x, a) /\ RoundUp(x, a) <= x + a - 1
           /\ x > 0 => RoundUp(x, a) \in Positive /\ a <= RoundUp(x, a)
<1>1. a \in Nat \ {0} /\ x + a - 1 \in Nat
  BY DEF Positive
<1>2. PICK q \in Nat, r \in 0 .. a - 1 : q = (x + a - 1) \div a /\ x + a - 1 = q * a + r
  BY <1>1, DivMod
<1>3. PICK p \in Nat : p = q * a
  BY <1>1, <1>2, MulLess
<1>4. RoundUp(x, a) = p
  BY <1>2, <1>3 DEF RoundUp
<1>5. p % a = 0
  BY <1>1, <1>3, MulMod
<1>6. x <= p /\ p <= x + a - 1
  BY <1>1, <1>2, <1>3
<1>7. ASSUME x > 0 PROVE p \in Positive /\ a <= p
  <2>1. p > 0
    BY <1>6, <1>7
  <2>2. q # 0
    BY <1>1, <1>3, <2>1
  <2>3. 1 * a <= q * a
    BY <1>1, <2>2
  <2> QED BY <1>1, <1>3, <2>1, <2>3 DEF Positive
<1> QED BY <1>4, <1>5, <1>6, <1>7

LEMMA Multiples ==
    ASSUME NEW x \in Nat, NEW y \in Nat, NEW n \in Nat, NEW a \in Positive,
           x % a = 0
    PROVE  (n * x) % a = 0 /\ (y % a = 0 => (x + y) % a = 0)
<1>1. a \in Nat \ {0}
  BY DEF Positive
<1>2. PICK q \in Nat : x = q * a
  BY <1>1, ModZero
<1>3. (n * x) % a = 0
  <2>1. n * x = (n * q) * a /\ n * q \in Nat
    BY <1>1, <1>2
  <2>2. PICK u \in Nat : u = n * q
    BY <2>1
  <2> QED BY <1>1, <2>1, <2>2, MulMod
<1>4. ASSUME y % a = 0 PROVE (x + y) % a = 0
  <2>1. PICK p \in Nat : y = p * a
    BY <1>1, <1>4, ModZero
  <2>2. x + y = (q + p) * a
    BY <1>1, <1>2, <2>1
  <2>3. PICK u \in Nat : u = q + p
    BY <1>2, <2>1
  <2>4. (u * a) % a = 0
    BY <1>1, <2>3, MulMod
  <2> QED BY ONLY <2>2, <2>3, <2>4
<1> QED BY <1>3, <1>4

LEMMA AlignType ==
    ASSUME NEW a \in Nat PROVE Align(a) \in Positive
BY Sizes, RoundUpFacts DEF Align, Positive

LEMMA BlockFacts ==
    ASSUME NEW k \in 0 .. MAX_ORDER
    PROVE  /\ Block(k) \in Positive /\ Block(k) <= Block(MAX_ORDER)
           /\ Block(0) = PAGE_SIZE
<1>1. 2^k \in Positive /\ 2^MAX_ORDER \in Positive /\ 2^k <= 2^MAX_ORDER /\ 2^0 = 1
  <2>1. MAX_ORDER \in 0 .. MAX_ORDER
    BY Sizes DEF Positive
  <2> QED BY <2>1, PowerAssumption DEF Positive
<1>2. PICK p \in Positive, q \in Positive : p = 2^k /\ q = 2^MAX_ORDER /\ p <= q
  BY <1>1
<1>3. PAGE_SIZE * p \in Positive /\ PAGE_SIZE * p <= PAGE_SIZE * q
  BY <1>2, Sizes DEF Positive
<1>4. PAGE_SIZE * 1 = PAGE_SIZE
  BY Sizes DEF Positive
<1> QED BY <1>1, <1>2, <1>3, <1>4 DEF Block

(* A small slab holds at least two objects and its header.                    *)
LEMMA SmallShapeFacts ==
    ASSUME NEW o \in Positive, NEW a \in Positive, a <= o, OnSlab(o)
    PROVE  LET sh == SmallShape(o, a)
               head == _slab_header_size(sh.nobjs, a)
           IN /\ sh.order = 0
              /\ sh.nobjs \in Nat /\ sh.nobjs >= 2
              /\ sh.rsize \in Nat /\ head \in Nat
              /\ head + sh.nobjs * o + sh.rsize = PAGE_SIZE
              /\ SLAB + sh.nobjs * BUF <= head
<1> DEFINE used(n) == _slab_header_size(n, a) + n * o
           guess == (PAGE_SIZE - CACHE) \div (BUF + o)
           nobjs == IF used(guess) > PAGE_SIZE THEN guess - 1 ELSE guess
<1>1. /\ PAGE_SIZE \in Int /\ CACHE \in Int /\ SLAB \in Int /\ BUF \in Int /\ o \in Int
      /\ a \in Int /\ a > 0 /\ o > 0 /\ BUF > 0 /\ CACHE > 0 /\ SLAB > 0 /\ PAGE_SIZE > 0
      /\ SLAB <= CACHE /\ 8 * (CACHE + 3 * BUF) <= 5 * PAGE_SIZE
      /\ o * 8 < PAGE_SIZE /\ a <= o
  BY Sizes, SizeAssumption DEF Positive, OnSlab
<1>2. PAGE_SIZE - CACHE \in Nat /\ BUF + o \in Nat \ {0}
  BY <1>1
<1>3. PICK g \in Nat, r \in 0 .. (BUF + o) - 1 :
        g = guess /\ PAGE_SIZE - CACHE = g * (BUF + o) + r
  BY <1>2, DivMod
<1>4. g >= 3
  <2>1. SUFFICES ASSUME g <= 2 PROVE FALSE
    BY <1>3
  <2>2. g * (BUF + o) <= 2 * (BUF + o)
    BY <2>1, <1>2
  <2>3. PAGE_SIZE - CACHE < 3 * (BUF + o)
    BY <2>2, <1>1, <1>3
  <2> QED BY <2>3, <1>1
<1>5. ASSUME NEW n \in Nat
      PROVE  /\ _slab_header_size(n, a) \in Nat
             /\ SLAB + n * BUF <= _slab_header_size(n, a)
             /\ _slab_header_size(n, a) <= SLAB + n * BUF + a - 1
             /\ n * o \in Nat /\ n * BUF \in Nat
             /\ used(n) \in Nat /\ used(n) <= SLAB + n * BUF + a - 1 + n * o
  <2>1. n * BUF \in Nat /\ n * o \in Nat
    BY Sizes DEF Positive
  <2>2. PICK p \in Nat, q \in Nat : p = n * BUF /\ q = n * o
    BY <2>1
  <2>3. SLAB + p \in Nat
    BY <1>1, <2>2
  <2>4. /\ RoundUp(SLAB + p, a) \in Nat /\ SLAB + p <= RoundUp(SLAB + p, a)
        /\ RoundUp(SLAB + p, a) <= SLAB + p + a - 1
    BY <2>3, RoundUpFacts
  <2>5. _slab_header_size(n, a) = RoundUp(SLAB + p, a)
    BY <2>2 DEF _slab_header_size
  <2> QED BY <1>1, <2>2, <2>4, <2>5
<1>6. g - 1 \in Nat /\ used(g - 1) <= PAGE_SIZE
  <2>1. g - 1 \in Nat
    BY <1>4
  <2>2. PICK n \in Nat : n = g - 1
    BY <2>1
  <2>3. PICK p \in Nat, q \in Nat : p = n * BUF /\ q = n * o
    BY <1>5
  <2>4. p + q = g * (BUF + o) - (BUF + o)
    <3>1. (n + 1) * (BUF + o) = n * BUF + n * o + (BUF + o)
      BY <1>1
    <3> QED BY <1>1, <2>2, <2>3, <3>1
  <2>5. PICK u \in Int : u = g * (BUF + o)
    BY <1>1
  <2>6. used(n) <= SLAB + p + a - 1 + q /\ used(n) \in Nat
    BY <1>5, <2>3
  <2>7. p + q <= PAGE_SIZE - CACHE - BUF - o
    BY <1>1, <1>3, <2>4, <2>5
  <2> HIDE DEF used
  <2>8. used(n) <= PAGE_SIZE
    BY <1>1, <2>6, <2>7
  <2> QED BY <2>1, <2>2, <2>8
<1>7. nobjs \in Nat /\ nobjs >= 2 /\ used(nobjs) <= PAGE_SIZE
  <2>1. guess = g /\ used(g) \in Nat
    BY <1>3, <1>5
  <2> HIDE DEF used, guess
  <2> QED BY <1>1, <1>4, <1>6, <2>1
<1>8. SmallShape(o, a) = [order |-> 0, nobjs |-> nobjs, rsize |-> PAGE_SIZE - used(nobjs)]
  BY DEF SmallShape
<1> HIDE DEF nobjs
<1>9. PICK h \in Nat, q \in Nat : h = _slab_header_size(nobjs, a) /\ q = nobjs * o
  BY <1>5, <1>7
<1>10. SLAB + nobjs * BUF <= h /\ h + q <= PAGE_SIZE
  BY <1>5, <1>7, <1>9
<1> QED BY <1>1, <1>7, <1>8, <1>9, <1>10

(* A large slab holds an object at least.                                     *)
LEMMA LargeShapeFacts ==
    ASSUME NEW o \in Positive, o <= Block(MAX_ORDER - 1)
    PROVE  LET sh == LargeShape(o)
           IN /\ sh.order \in 0 .. MAX_ORDER - 1
              /\ sh.nobjs \in Positive /\ sh.rsize \in Nat
              /\ sh.nobjs * o + sh.rsize = Block(sh.order)
<1> DEFINE thrifty == {k \in 0 .. MAX_ORDER - 1 :
                        o <= Block(k) /\ (Block(k) % o) * 8 < Block(k)}
           order == IF thrifty = {} THEN MAX_ORDER - 1
                    ELSE CHOOSE k \in thrifty : \A j \in thrifty : k <= j
<1>1. order \in 0 .. MAX_ORDER - 1 /\ o <= Block(order)
  <2>1. CASE thrifty = {}
    BY <2>1, Sizes DEF Positive
  <2>2. CASE thrifty # {}
    <3>1. thrifty \in SUBSET Nat
      OBVIOUS
    <3>2. \E k \in thrifty : \A j \in thrifty : k <= j
      <4> HIDE DEF thrifty
      <4> QED BY <2>2, <3>1, LeastNat
    <3>3. order \in thrifty
      <4> HIDE DEF thrifty
      <4> QED BY <2>2, <3>2
    <3> QED BY <3>3
  <2> QED BY <2>1, <2>2
<1>2. LargeShape(o) = [order |-> order, nobjs |-> Block(order) \div o, rsize |-> Block(order) % o]
  BY DEF LargeShape
<1> HIDE DEF order
<1>3. PICK b \in Positive : b = Block(order) /\ o <= b
  BY <1>1, BlockFacts, Sizes DEF Positive
<1>4. b \in Nat /\ o \in Nat \ {0}
  BY DEF Positive
<1>5. PICK q \in Nat, r \in 0 .. o - 1 : q = b \div o /\ r = b % o /\ b = q * o + r
  BY <1>4, DivMod
<1>6. q # 0
  BY <1>3, <1>4, <1>5
<1>7. q * o + r = Block(order) /\ q \in Positive
  BY <1>3, <1>5, <1>6 DEF Positive
<1>8. LargeShape(o) = [order |-> order, nobjs |-> q, rsize |-> r]
  BY <1>2, <1>3, <1>5
<1> QED BY <1>1, <1>5, <1>7, <1>8

(* The last colour leaves room for the objects.                               *)
LEMMA ColorFacts ==
    ASSUME NEW r \in Nat, NEW f \in Positive, NEW c, c = (r % 2^16) \div f + 1
    PROVE  c \in Positive /\ f * (c - 1) \in Nat /\ f * (c - 1) <= r
<1>1. PICK w \in Nat \ {0} : w = 2^16
  BY Sizes DEF Positive
<1>2. PICK t \in Nat : t = r % w /\ t <= r
  <2>1. PICK q \in Nat, t \in Nat : t = r % w /\ r = q * w + t
    <3>1. r \div w \in Nat /\ r % w \in 0 .. w - 1 /\ r = ((r \div w) * w) + (r % w)
      BY DivMod
    <3>2. PICK q \in Nat, t \in Nat : q = r \div w /\ t = r % w
      BY <3>1
    <3> QED BY <3>1, <3>2
  <2>2. q * w \in Nat
    BY <1>1, MulLess
  <2> QED BY <2>1, <2>2
<1>3. f \in Nat \ {0}
  BY DEF Positive
<1>4. PICK q \in Nat, u \in Nat : q = t \div f /\ t = q * f + u
  <2>1. t \div f \in Nat /\ t % f \in 0 .. f - 1 /\ t = ((t \div f) * f) + (t % f)
    BY <1>3, DivMod
  <2> QED BY <2>1
<1>5. c = q + 1
  BY <1>1, <1>2, <1>4
<1>6. f * (c - 1) = q * f /\ q * f \in Nat
  BY <1>3, <1>5
<1>7. q * f <= r
  BY <1>2, <1>4, <1>6
<1> QED BY <1>5, <1>6, <1>7 DEF Positive

(* _slab_cache_init.                                                          *)
LEMMA CacheInit ==
    ASSUME NEW size \in Positive, NEW align \in Nat,
           \/ OnSlab(RoundUp(size, Align(align)))
           \/ RoundUp(size, Align(align)) <= Block(MAX_ORDER - 1)
    PROVE  LET k == _slab_cache_init(size, align)
           IN /\ k \in CacheRecord /\ Shaped(k)
              /\ k.osize >= size /\ k.osize = RoundUp(size, Align(align))
              /\ k.bsy = 0 /\ k.cnt = 0
              /\ k.free = << >> /\ k.busy = << >> /\ k.full = << >>
<1> DEFINE k == _slab_cache_init(size, align)
<1>1. PICK a \in Positive : a = Align(align)
  BY AlignType
<1>2. PICK o \in Positive : o = RoundUp(size, a) /\ o % a = 0 /\ a <= o /\ size <= o
  <2>1. size \in Nat /\ size > 0
    BY DEF Positive
  <2> QED BY <2>1, RoundUpFacts
<1>3. PICK f \in Positive : f = RoundUp(CacheLine, a) /\ f % a = 0
  <2>1. CacheLine \in Nat /\ CacheLine > 0
    BY Sizes DEF Positive
  <2> QED BY <2>1, RoundUpFacts
<1> DEFINE sh == IF OnSlab(o) THEN SmallShape(o, a) ELSE LargeShape(o)
<1>4. PICK c : c = (sh.rsize % 2^16) \div f + 1
  OBVIOUS
<1>5. k = [osize |-> o, align |-> a, order |-> sh.order, nobjs |-> sh.nobjs,
           offset |-> f, colors |-> c, nxtcol |-> 0,
           bsy |-> 0, cnt |-> 0, free |-> << >>, busy |-> << >>, full |-> << >>]
  BY <1>1, <1>2, <1>3, <1>4 DEF _slab_cache_init
<1>6. OnSlab(o) \/ o <= Block(MAX_ORDER - 1)
  BY <1>1, <1>2
<1> DEFINE room == IF OnSlab(o) THEN _slab_header_size(sh.nobjs, a) ELSE 0
<1>7. /\ sh.order \in 0 .. MAX_ORDER - 1 /\ sh.nobjs \in Positive /\ sh.rsize \in Nat
      /\ room \in Nat
      /\ room + sh.nobjs * o + sh.rsize = Block(sh.order)
      /\ OnSlab(o) => sh.nobjs >= 2
  <2>1. CASE OnSlab(o)
    <3>1. 0 \in 0 .. MAX_ORDER - 1 /\ Block(0) = PAGE_SIZE
      BY Sizes, BlockFacts DEF Positive
    <3>2. PICK s : s = SmallShape(o, a)
      OBVIOUS
    <3>3. /\ s.order = 0 /\ s.nobjs \in Nat /\ s.nobjs >= 2
          /\ s.rsize \in Nat /\ _slab_header_size(s.nobjs, a) \in Nat
          /\ _slab_header_size(s.nobjs, a) + s.nobjs * o + s.rsize = PAGE_SIZE
      BY <1>2, <2>1, <3>2, SmallShapeFacts
    <3>4. sh = s /\ room = _slab_header_size(s.nobjs, a)
      BY <2>1, <3>2
    <3>5. s.nobjs \in Positive
      BY <3>3 DEF Positive
    <3> HIDE DEF sh, room
    <3> QED BY <3>1, <3>3, <3>4, <3>5
  <2>2. CASE ~OnSlab(o)
    <3>1. PICK s : s = LargeShape(o)
      OBVIOUS
    <3>2. /\ s.order \in 0 .. MAX_ORDER - 1
          /\ s.nobjs \in Positive /\ s.rsize \in Nat
          /\ s.nobjs * o + s.rsize = Block(s.order)
      BY <1>6, <2>2, <3>1, LargeShapeFacts
    <3>3. sh = s /\ room = 0
      BY <2>2, <3>1
    <3>4. s.nobjs * o \in Nat
      BY <3>2 DEF Positive
    <3> HIDE DEF sh, room
    <3> QED BY <2>2, <3>2, <3>3, <3>4
  <2> QED BY <2>1, <2>2
<1> HIDE DEF sh, room
<1>8. c \in Positive /\ f * (c - 1) \in Nat /\ f * (c - 1) <= sh.rsize
  BY <1>4, <1>7, ColorFacts
<1>9. sh.nobjs * o \in Nat
  BY <1>7 DEF Positive
<1>10. PICK p \in Nat, q \in Nat, u \in Nat, v \in Nat :
         p = sh.nobjs * o /\ q = f * (c - 1) /\ u = room /\ v = sh.rsize
  BY <1>7, <1>8, <1>9
<1>11. q + u + p <= Block(sh.order)
  BY <1>7, <1>8, <1>10
<1>12. Room(k) = room
  BY <1>5 DEF Room, room
<1>13. Shaped(k)
  <2>1. 0 \in 0 .. c - 1
    BY <1>8 DEF Positive
  <2> HIDE DEF k
  <2> QED BY <1>2, <1>3, <1>5, <1>7, <1>10, <1>11, <1>12, <2>1 DEF Shaped
<1>14. k \in CacheRecord
  <2>1. << >> \in Seq(Address) /\ sh.order \in Nat
    BY <1>7
  <2> HIDE DEF k
  <2> QED BY <1>5, <1>7, <1>8, <2>1 DEF CacheRecord
<1> HIDE DEF k
<1>15. /\ k.osize >= size /\ k.osize = RoundUp(size, Align(align))
       /\ k.bsy = 0 /\ k.cnt = 0 /\ k.free = << >> /\ k.busy = << >> /\ k.full = << >>
  BY <1>1, <1>2, <1>5 DEF Positive
<1> QED BY <1>13, <1>14, <1>15 DEF k

-------------------------------------------------------------------------------
(* Lists.                                                                     *)

(* The free list of a slab loses its head.                                    *)
LEMMA ObjectsFacts ==
    ASSUME NEW n \in Nat, NEW b \in Positive, NEW d \in Nat, NEW z \in Positive
    PROVE  /\ Objects(n, b, d, z) \in Seq(Address)
           /\ Objects(n, b, d, z) = << >> <=> n = 0
           /\ n > 0 => /\ Head(Objects(n, b, d, z)) = <<b, d + (n - 1) * z>>
                       /\ Tail(Objects(n, b, d, z)) = Objects(n - 1, b, d, z)
<1> DEFINE q == Objects(n, b, d, z)
<1>1. ASSUME NEW i \in 1 .. n PROVE <<b, d + (n - i) * z>> \in Address
  <2>1. n - i \in Nat /\ z \in Nat
    BY DEF Positive
  <2>2. (n - i) * z \in Nat
    BY <2>1
  <2> QED BY <2>2 DEF Address
<1>2. q \in Seq(Address) /\ Len(q) = n /\ DOMAIN q = 1 .. n
  <2>1. q \in [1 .. n -> Address]
    BY <1>1 DEF Objects
  <2> HIDE DEF q
  <2>2. q \in Seq(Address)
    BY <2>1
  <2> QED BY <2>1, <2>2
<1>3. q = << >> <=> n = 0
  <2> HIDE DEF q
  <2> QED BY <1>2
<1>4. ASSUME n > 0
      PROVE  Head(q) = <<b, d + (n - 1) * z>> /\ Tail(q) = Objects(n - 1, b, d, z)
  <2>1. q[1] = <<b, d + (n - 1) * z>>
    BY <1>4 DEF Objects
  <2>2. ASSUME NEW i \in 1 .. n - 1 PROVE q[i + 1] = Objects(n - 1, b, d, z)[i]
    <3>1. i + 1 \in 1 .. n /\ n - (i + 1) = (n - 1) - i
      OBVIOUS
    <3>2. q[i + 1] = <<b, d + (n - (i + 1)) * z>>
      BY <3>1 DEF Objects
    <3>3. Objects(n - 1, b, d, z)[i] = <<b, d + ((n - 1) - i) * z>>
      BY DEF Objects
    <3> QED BY <3>1, <3>2, <3>3
  <2>3. DOMAIN Objects(n - 1, b, d, z) = 1 .. n - 1
    BY DEF Objects
  <2>4. Objects(n - 1, b, d, z) = [i \in 1 .. n - 1 |-> Objects(n - 1, b, d, z)[i]]
    BY DEF Objects
  <2> HIDE DEF q
  <2>5. q # << >>
    BY <1>2, <1>4
  <2>6. Head(q) = q[1]
    BY <1>2, <2>5
  <2>7. /\ Tail(q) \in Seq(Address) /\ Len(Tail(q)) = n - 1
        /\ \A i \in 1 .. n - 1 : Tail(q)[i] = q[i + 1]
    BY <1>2, <2>5, HeadTailProperties
  <2>8. Tail(q) = [i \in 1 .. n - 1 |-> Tail(q)[i]]
    <3>1. PICK t : t = Tail(q)
      OBVIOUS
    <3>2. t \in [1 .. n - 1 -> Address]
      BY <2>7, <3>1, LenProperties
    <3> QED BY <3>1, <3>2
  <2> QED BY <2>1, <2>2, <2>4, <2>6, <2>7, <2>8
<1> QED BY <1>2, <1>3, <1>4

LEMMA ObjectsHead ==
    ASSUME NEW n \in Nat, NEW b \in Positive, NEW d \in Nat, NEW z \in Positive, n > 0,
           NEW h, h = <<b, d + (n - 1) * z>>
    PROVE  Head(Objects(n, b, d, z)) = h
BY ObjectsFacts

LEMMA ObjectsTail ==
    ASSUME NEW n \in Nat, NEW b \in Positive, NEW d \in Nat, NEW z \in Positive, n > 0,
           NEW l, l = n - 1
    PROVE  Tail(Objects(n, b, d, z)) = Objects(l, b, d, z)
BY ObjectsFacts

LEMMA Prepend ==
    ASSUME NEW s \in Address, NEW q \in Seq(Address)
    PROVE  /\ <<s>> \o q \in Seq(Address)
           /\ Len(<<s>> \o q) = Len(q) + 1
           /\ Range(<<s>> \o q) = {s} \cup Range(q)
           /\ s \notin Range(q) /\ Once(q) => Once(<<s>> \o q)
           /\ Once(<<s>> \o q) => s \notin Range(q) /\ Once(q)
<1> DEFINE p == <<s>> \o q
<1>1. <<s>> \in Seq(Address) /\ Len(<<s>>) = 1 /\ <<s>>[1] = s
  OBVIOUS
<1>2. Len(q) \in Nat /\ DOMAIN q = 1 .. Len(q)
  OBVIOUS
<1>3. /\ p \in Seq(Address) /\ Len(p) = Len(q) + 1
      /\ \A i \in 1 .. 1 + Len(q) : p[i] = IF i <= 1 THEN s ELSE q[i - 1]
  BY <1>1, <1>2, ConcatProperties
<1> HIDE DEF p
<1>4. DOMAIN p = 1 .. Len(q) + 1 /\ p[1] = s /\ 1 \in DOMAIN p
  BY <1>2, <1>3
<1>5. ASSUME NEW i \in DOMAIN q PROVE i \in Nat /\ i >= 1 /\ i + 1 \in DOMAIN p /\ p[i + 1] = q[i]
  BY <1>2, <1>3, <1>4
<1>6. ASSUME NEW i \in DOMAIN p, i # 1 PROVE i - 1 \in DOMAIN q /\ p[i] = q[i - 1] /\ i \in Nat
  BY <1>2, <1>3, <1>4, <1>6
<1>7. Range(p) = {s} \cup Range(q)
  <2>1. ASSUME NEW x \in Range(p) PROVE x \in {s} \cup Range(q)
    BY <1>4, <1>6 DEF Range
  <2>2. ASSUME NEW x \in Range(q) PROVE x \in Range(p)
    BY <1>5 DEF Range
  <2>3. s \in Range(p)
    BY <1>4 DEF Range
  <2> QED BY <2>1, <2>2, <2>3
<1>8. ASSUME s \notin Range(q), Once(q) PROVE Once(p)
  <2>1. SUFFICES ASSUME NEW i \in DOMAIN p, NEW j \in DOMAIN p, p[i] = p[j] PROVE i = j
    BY DEF Once
  <2>2. CASE i = 1 \/ j = 1
    BY <1>4, <1>6, <1>8, <2>1, <2>2 DEF Range
  <2>3. CASE i # 1 /\ j # 1
    <3>1. i - 1 = j - 1
      BY <1>6, <1>8, <2>1, <2>3 DEF Once
    <3> QED BY <1>6, <2>3, <3>1
  <2> QED BY <2>2, <2>3
<1>9. ASSUME Once(p) PROVE s \notin Range(q) /\ Once(q)
  <2>1. ASSUME NEW i \in DOMAIN q, q[i] = s PROVE FALSE
    <3>1. p[i + 1] = p[1] /\ i + 1 # 1
      BY <1>4, <1>5, <2>1
    <3> QED BY <1>4, <1>5, <1>9, <3>1 DEF Once
  <2>2. ASSUME NEW i \in DOMAIN q, NEW j \in DOMAIN q, q[i] = q[j] PROVE i = j
    <3>1. i + 1 = j + 1
      BY <1>5, <1>9, <2>2 DEF Once
    <3> QED BY <1>5, <3>1
  <2> QED BY <2>1, <2>2 DEF Once, Range
<1> QED BY <1>3, <1>7, <1>8, <1>9 DEF p

(* The lists of a cache put together.                                         *)
LEMMA Together ==
    ASSUME NEW k \in CacheRecord
    PROVE  /\ k.free = << >> /\ k.busy = << >> => Lists(k) = k.full
           /\ \A s \in Address :
                \/ k.free = <<s>> /\ k.busy = << >>
                \/ k.free = << >> /\ k.busy = <<s>>
                => Lists(k) = <<s>> \o k.full
<1>1. k.full \in Seq(Address)
  BY DEF CacheRecord
<1>2. << >> \in Seq(Address) /\ << >> \o << >> = << >>
  BY ConcatEmptySeq
<1>3. ASSUME NEW s \in Address PROVE <<s>> \o << >> = <<s>> /\ << >> \o <<s>> = <<s>>
  <2>1. <<s>> \in Seq(Address)
    OBVIOUS
  <2> QED BY <2>1, ConcatEmptySeq
<1>4. << >> \o k.full = k.full
  BY <1>1, ConcatEmptySeq
<1> QED BY <1>2, <1>3, <1>4 DEF Lists

(* A cache that has grown by a slab, or given an object, is otherwise the     *)
(* same.                                                                      *)
Same(k, l) ==
    /\ l.osize = k.osize /\ l.align = k.align /\ l.order = k.order /\ l.nobjs = k.nobjs
    /\ l.offset = k.offset /\ l.colors = k.colors

LEMMA ShapedSame ==
    ASSUME NEW k, NEW l, Same(k, l), Shaped(k), l.nxtcol \in 0 .. k.colors - 1
    PROVE  Shaped(l)
BY DEF Same, Shaped, Room

(* Relist: a slab s that gives an object moves from list to list, so that     *)
(* the lists together stay as they are.                                       *)
LEMMA RelistFacts ==
    ASSUME NEW k \in CacheRecord, NEW s \in Address, NEW full \in BOOLEAN,
           \/ k.free = <<s>> /\ k.busy = << >>
           \/ k.free = << >> /\ k.busy = <<s>>
    PROVE  LET l == Relist([k EXCEPT !.bsy = @ + 1], s, full)
           IN /\ l \in CacheRecord /\ Same(k, l)
              /\ l.nxtcol = k.nxtcol /\ l.cnt = k.cnt /\ l.bsy = k.bsy + 1
              /\ l.free = << >>
              /\ k.busy = << >> \/ ~full => l.busy = <<s>> /\ l.full = k.full
              /\ k.busy # << >> /\ full => l.busy = << >> /\ l.full = <<s>> \o k.full
              /\ Lists(l) = Lists(k)
<1> DEFINE l == Relist([k EXCEPT !.bsy = @ + 1], s, full)
<1>1. PICK j : j = [k EXCEPT !.bsy = @ + 1]
  OBVIOUS
<1>2. /\ j \in CacheRecord /\ Same(k, j) /\ j.nxtcol = k.nxtcol /\ j.cnt = k.cnt
      /\ j.bsy = k.bsy + 1 /\ j.free = k.free /\ j.busy = k.busy /\ j.full = k.full
  <2>1. k \in CacheRecord /\ k.bsy \in Nat
    BY DEF CacheRecord
  <2>2. PICK n \in Nat : n = k.bsy + 1
    BY <2>1
  <2>3. j = [k EXCEPT !.bsy = n]
    BY <1>1, <2>2
  <2>4. j \in CacheRecord
    BY ONLY <2>1, <2>2, <2>3 DEF CacheRecord
  <2>5. /\ j.nxtcol = k.nxtcol /\ j.cnt = k.cnt /\ j.bsy = n /\ j.free = k.free
        /\ j.busy = k.busy /\ j.full = k.full
    BY ONLY <2>1, <2>3 DEF CacheRecord
  <2>6. Same(k, j)
    BY ONLY <2>1, <2>3 DEF CacheRecord, Same
  <2> QED BY <2>2, <2>4, <2>5, <2>6
<1>3. <<s>> \in Seq(Address) /\ <<s>> # << >> /\ Tail(<<s>>) = << >> /\ << >> \in Seq(Address)
  OBVIOUS
<1>4. <<s>> \o << >> = <<s>>
  BY <1>3, ConcatEmptySeq
<1>5. k.full \in Seq(Address) /\ <<s>> \o k.full \in Seq(Address)
  <2>1. k.full \in Seq(Address)
    BY DEF CacheRecord
  <2> QED BY <2>1, Prepend
<1>6. Lists(k) = <<s>> \o k.full
  BY Together
<1>7. CASE k.busy = << >>
  <2>1. k.free = <<s>>
    BY <1>3, <1>7
  <2>2. l = [j EXCEPT !.free = << >>, !.busy = <<s>>]
    BY <1>1, <1>2, <1>3, <1>4, <1>7, <2>1 DEF Relist
  <2> HIDE DEF l
  <2>3. /\ l \in CacheRecord /\ Same(j, l) /\ l.nxtcol = j.nxtcol /\ l.cnt = j.cnt
        /\ l.bsy = j.bsy /\ l.free = << >> /\ l.busy = <<s>> /\ l.full = j.full
    BY <1>2, <1>3, <2>2 DEF CacheRecord, Same
  <2>4. Lists(l) = <<s>> \o l.full
    BY <2>3, Together
  <2>5. Same(k, l)
    BY <1>2, <2>3 DEF Same
  <2> QED BY <1>2, <1>6, <1>7, <2>3, <2>4, <2>5 DEF l
<1>8. CASE k.busy # << >> /\ ~full
  <2>1. k.free = << >> /\ k.busy = <<s>> /\ l = j
    BY <1>1, <1>2, <1>3, <1>8 DEF Relist
  <2> HIDE DEF l
  <2>2. Lists(l) = <<s>> \o l.full
    BY <1>2, <2>1, Together
  <2> QED BY <1>2, <1>6, <1>8, <2>1, <2>2 DEF l
<1>9. CASE k.busy # << >> /\ full
  <2>1. k.free = << >> /\ k.busy = <<s>>
    BY <1>3, <1>9
  <2>2. l = [j EXCEPT !.busy = << >>, !.full = <<s>> \o k.full]
    BY <1>1, <1>2, <1>3, <1>9, <2>1 DEF Relist
  <2> HIDE DEF l
  <2>3. /\ l \in CacheRecord /\ Same(j, l) /\ l.nxtcol = j.nxtcol /\ l.cnt = j.cnt
        /\ l.bsy = j.bsy /\ l.free = << >> /\ l.busy = << >> /\ l.full = <<s>> \o k.full
    BY <1>2, <1>3, <1>5, <2>1, <2>2 DEF CacheRecord, Same
  <2>4. Lists(l) = l.full
    BY <2>3, Together
  <2>5. Same(k, l)
    BY <1>2, <2>3 DEF Same
  <2> QED BY <1>2, <1>6, <1>9, <2>3, <2>4, <2>5 DEF l
<1> QED BY <1>7, <1>8, <1>9

-------------------------------------------------------------------------------
(* What a change to one cache leaves as it was.                               *)

LEMMA SlabKept ==
    ASSUME NEW m, NEW n, NEW t \in DOMAIN m.slabs, SlabRight(m, t),
           n.slabs[t] = m.slabs[t],
           DOMAIN m.caches \subseteq DOMAIN n.caches,
           \A c \in DOMAIN m.caches : Same(m.caches[c], n.caches[c]),
           m.blocks \in Nat, n.blocks \in Nat, m.blocks <= n.blocks,
           m.out \subseteq n.out,
           \A o \in n.out : o.at[1] = m.slabs[t].page => o \in m.out
    PROVE  SlabRight(n, t)
<1> DEFINE r == m.slabs[t]
           k == m.caches[r.cache]
           l == n.caches[r.cache]
<1>1. /\ r.cache \in DOMAIN m.caches /\ r.page \in 1 .. m.blocks
      /\ r.cnt = k.nobjs /\ r.bsy \in 0 .. r.cnt
      /\ ~OnSlab(k.osize) => [cache |-> CacheSlab, at |-> t] \in m.out
  BY DEF SlabRight
<1>2. PICK d \in 0 .. Block(MAX_ORDER) : Begins(m, t, d)
  BY DEF SlabRight
<1>3. Same(k, l) /\ r.cache \in DOMAIN n.caches
  BY <1>1
<1>4. {o \in n.out : o.at[1] = r.page} = {o \in m.out : o.at[1] = r.page}
  OBVIOUS
<1>5. Begins(n, t, d)
  BY <1>2, <1>3, <1>4 DEF Begins, Same
<1>6. r.page \in 1 .. n.blocks
  BY <1>1
<1> QED BY <1>1, <1>2, <1>3, <1>5, <1>6 DEF SlabRight, Same

(* The members of the lists of a cache are its slabs.                         *)
LEMMA Members ==
    ASSUME NEW m, Typed(m), NEW c \in DOMAIN m.caches, Listed(m, c)
    PROVE  LET k == m.caches[c]
           IN /\ k \in CacheRecord /\ DOMAIN m.slabs \subseteq Address
              /\ Range(k.full) \subseteq SlabsIn(m, c)
              /\ \A s \in DOMAIN m.slabs :
                    k.free = <<s>> \/ k.busy = <<s>> =>
                        /\ s \in SlabsIn(m, c) /\ s \notin Range(k.full) /\ s \in Address
                        /\ Lists(k) = <<s>> \o k.full
                        /\ \/ k.free = <<s>> /\ k.busy = << >>
                           \/ k.free = << >> /\ k.busy = <<s>>
<1> DEFINE k == m.caches[c]
<1>1. k \in CacheRecord /\ DOMAIN m.slabs \subseteq Address /\ k.full \in Seq(Address)
  <2>1. k \in CacheRecord
    BY DEF Typed
  <2> HIDE DEF k
  <2> QED BY <2>1 DEF Typed, CacheRecord
<1>2. /\ OpenSlab(m, k) /\ Once(Lists(k)) /\ Range(Lists(k)) = SlabsIn(m, c)
  BY DEF Listed
<1> HIDE DEF k
<1>3. ASSUME NEW s \in DOMAIN m.slabs,
             \/ k.free = <<s>> /\ k.busy = << >>
             \/ k.free = << >> /\ k.busy = <<s>>
      PROVE  /\ s \in SlabsIn(m, c) /\ s \notin Range(k.full) /\ s \in Address
             /\ Lists(k) = <<s>> \o k.full /\ Range(k.full) \subseteq SlabsIn(m, c)
  <2>1. s \in Address
    BY <1>1
  <2>2. Lists(k) = <<s>> \o k.full
    BY <1>1, <1>3, <2>1, Together
  <2> QED BY <1>1, <1>2, <2>1, <2>2, Prepend
<1>4. ASSUME NEW s \in DOMAIN m.slabs, k.free = <<s>> \/ k.busy = <<s>>
      PROVE  \/ k.free = <<s>> /\ k.busy = << >>
             \/ k.free = << >> /\ k.busy = <<s>>
  <2>1. <<s>> # << >>
    OBVIOUS
  <2> QED BY <1>2, <1>4, <2>1 DEF OpenSlab
<1>5. Range(k.full) \subseteq SlabsIn(m, c)
  <2>1. CASE k.free = << >> /\ k.busy = << >>
    BY <1>1, <1>2, <2>1, Together
  <2>2. CASE ~(k.free = << >> /\ k.busy = << >>)
    <3>1. PICK s \in DOMAIN m.slabs :
            \/ k.free = <<s>> /\ k.busy = << >>
            \/ k.free = << >> /\ k.busy = <<s>>
      BY <1>2, <2>2 DEF OpenSlab
    <3> QED BY <1>3, <3>1
  <2> QED BY <2>1, <2>2
<1> QED BY <1>1, <1>3, <1>4, <1>5 DEF k

LEMMA ListedKept ==
    ASSUME NEW m, NEW n, Typed(m), NEW c \in DOMAIN m.caches,
           Listed(m, c), Counted(m, c),
           n.caches[c] = m.caches[c], SlabsIn(n, c) = SlabsIn(m, c),
           \A s \in SlabsIn(m, c) : n.slabs[s] = m.slabs[s]
    PROVE  Listed(n, c) /\ Counted(n, c)
<1> DEFINE k == m.caches[c]
<1>1. /\ k \in CacheRecord
      /\ Range(k.full) \subseteq SlabsIn(m, c)
      /\ \A s \in DOMAIN m.slabs :
            k.free = <<s>> \/ k.busy = <<s>> => s \in SlabsIn(m, c)
  BY Members
<1>2. /\ OpenSlab(m, k) /\ Once(Lists(k)) /\ Range(Lists(k)) = SlabsIn(m, c)
      /\ \A s \in Range(k.full) : m.slabs[s].bsy = m.slabs[s].cnt
      /\ k.cnt = k.nobjs * Len(Lists(k))
      /\ k.bsy = k.nobjs * Len(k.full)
                 + (IF k.busy = << >> THEN 0 ELSE m.slabs[Head(k.busy)].bsy)
  BY DEF Listed, Counted
<1>3. n.caches[c] = k
  OBVIOUS
<1> HIDE DEF k
<1>4. SlabsIn(m, c) \subseteq DOMAIN n.slabs
  BY DEF SlabsIn
<1>5. OpenSlab(n, k)
  BY <1>1, <1>2, <1>4 DEF OpenSlab
<1>6. \A s \in Range(k.full) : n.slabs[s].bsy = n.slabs[s].cnt
  BY <1>1, <1>2
<1>7. k.busy # << >> => n.slabs[Head(k.busy)].bsy = m.slabs[Head(k.busy)].bsy
  <2>1. SUFFICES ASSUME k.busy # << >>
                 PROVE  n.slabs[Head(k.busy)].bsy = m.slabs[Head(k.busy)].bsy
    OBVIOUS
  <2>2. PICK s \in DOMAIN m.slabs : k.busy = <<s>>
    BY <1>2, <2>1 DEF OpenSlab
  <2>3. Head(k.busy) = s
    BY <2>2
  <2> QED BY <1>1, <2>2, <2>3
<1>8. Counted(n, c)
  BY <1>2, <1>3, <1>7 DEF Counted
<1> QED BY <1>2, <1>3, <1>5, <1>6, <1>8 DEF Listed

(* The caches but c, and of c what is fixed, are the same in n as in m, and   *)
(* so is what is fixed of the slabs.                                          *)
Frame(m, n, c) ==
    /\ Typed(n) /\ Len(n.caches) = Len(m.caches) /\ DOMAIN n.caches = DOMAIN m.caches
    /\ \A e \in DOMAIN m.caches : Same(m.caches[e], n.caches[e])
    /\ \A e \in DOMAIN m.caches : e # c => n.caches[e] = m.caches[e]
    /\ DOMAIN m.slabs \subseteq DOMAIN n.slabs
    /\ \A s \in DOMAIN m.slabs :
        /\ n.slabs[s].cache = m.slabs[s].cache /\ n.slabs[s].page = m.slabs[s].page
        /\ n.slabs[s].cnt = m.slabs[s].cnt

-------------------------------------------------------------------------------
(* slab_allocate once the cache has a slab.                                   *)

(* The slab record r after, the object it gives, and its cache after.         *)
After(r) == [r EXCEPT !.free = Tail(r.free), !.bsy = r.bsy + 1]
Handed(c, r) == [cache |-> c, at |-> Head(r.free)]
Relisted(k, s, r) == Relist([k EXCEPT !.bsy = @ + 1], s, r.bsy + 1 = r.cnt)

LEMMA DetachIs ==
    ASSUME NEW m, Typed(m), NEW c \in DOMAIN m.caches, NEW s \in DOMAIN m.slabs,
           s = Candidate(m.caches[c]), NEW r, r = m.slabs[s], r.free # << >>,
           NEW k \in CacheRecord, k = Relisted(m.caches[c], s, r),
           NEW q, q = After(r), NEW o, o = Handed(c, r),
           NEW n, n = Detach(m, c)
    PROVE  /\ Typed(n)
           /\ n.blocks = m.blocks /\ n.out = m.out \cup {o}
           /\ DOMAIN n.caches = DOMAIN m.caches /\ Len(n.caches) = Len(m.caches)
           /\ n.caches[c] = k
           /\ \A e \in DOMAIN m.caches : e # c => n.caches[e] = m.caches[e]
           /\ DOMAIN n.slabs = DOMAIN m.slabs
           /\ \A t \in DOMAIN m.slabs : t # s => n.slabs[t] = m.slabs[t]
           /\ n.slabs[s] = q
<1>1. r = m.slabs[s]
  OBVIOUS
<1>2. r \in SlabRecord /\ r.free \in Seq(Address)
  BY <1>1 DEF Typed, SlabRecord
<1>3. q = [r EXCEPT !.free = Tail(r.free), !.bsy = r.bsy + 1]
  BY DEF After
<1>4. Tail(r.free) \in Seq(Address) /\ Head(r.free) \in Address
  BY <1>1, <1>2, HeadTailProperties
<1>5. q \in SlabRecord
  <2>1. PICK f, b : f = Tail(r.free) /\ b = r.bsy + 1
    OBVIOUS
  <2>2. f \in Seq(Address)
    BY <1>1, <1>4, <2>1
  <2>3. b \in Nat
    BY ONLY <1>2, <2>1 DEF SlabRecord
  <2>4. q = [r EXCEPT !.free = f, !.bsy = b]
    BY <1>3, <2>1
  <2> QED BY ONLY <1>2, <2>2, <2>3, <2>4 DEF SlabRecord
<1>6. o = [cache |-> c, at |-> Head(r.free)]
  BY DEF Handed
<1>7. /\ m.caches \in Seq(CacheRecord) /\ c \in 1 .. Len(m.caches) /\ c \in Positive
      /\ DOMAIN m.caches = 1 .. Len(m.caches)
  <2>1. m.caches \in Seq(CacheRecord)
    BY DEF Typed
  <2>2. DOMAIN m.caches = 1 .. Len(m.caches) /\ Len(m.caches) \in Nat
    BY <2>1, LenProperties
  <2> QED BY <2>1, <2>2 DEF Positive
<1>8. o \in Object
  BY <1>4, <1>6, <1>7 DEF Object
<1>9. n = [caches |-> [m.caches EXCEPT ![c] = k], slabs |-> [m.slabs EXCEPT ![s] = q],
           blocks |-> m.blocks, out |-> m.out \cup {o}]
  <2>1. m = [caches |-> m.caches, slabs |-> m.slabs, blocks |-> m.blocks, out |-> m.out]
    BY DEF Typed
  <2>2. n = [m EXCEPT !.slabs[s].free = Tail(@), !.slabs[s].bsy = r.bsy + 1,
                      !.caches[c] = k, !.out = @ \cup {o}]
    BY <1>1, <1>6 DEF Detach, Relisted
  <2>3. PICK mc, ms, mb, mo : mc = m.caches /\ ms = m.slabs /\ mb = m.blocks /\ mo = m.out
    OBVIOUS
  <2>4. m = [caches |-> mc, slabs |-> ms, blocks |-> mb, out |-> mo]
    BY <2>1, <2>3
  <2>5. ms = [t \in DOMAIN ms |-> ms[t]] /\ s \in DOMAIN ms /\ r = ms[s]
    BY <1>1, <2>3 DEF Typed
  <2>6. [ms EXCEPT ![s].free = Tail(@), ![s].bsy = r.bsy + 1] = [ms EXCEPT ![s] = q]
    BY <1>2, <1>3, <2>5 DEF SlabRecord
  <2>7. n = [caches |-> [mc EXCEPT ![c] = k],
             slabs |-> [ms EXCEPT ![s].free = Tail(@), ![s].bsy = r.bsy + 1],
             blocks |-> mb, out |-> mo \cup {o}]
    BY ONLY <2>2, <2>4
  <2> QED BY <2>3, <2>6, <2>7
<1>10. /\ n.caches = [m.caches EXCEPT ![c] = k]
       /\ n.slabs = [m.slabs EXCEPT ![s] = q]
       /\ n.blocks = m.blocks /\ n.out = m.out \cup {o}
       /\ n = [caches |-> n.caches, slabs |-> n.slabs, blocks |-> n.blocks, out |-> n.out]
  BY <1>9
<1>11. /\ n.caches \in Seq(CacheRecord) /\ Len(n.caches) = Len(m.caches)
       /\ DOMAIN n.caches = DOMAIN m.caches /\ n.caches[c] = k
       /\ \A e \in DOMAIN m.caches : e # c => n.caches[e] = m.caches[e]
  BY <1>7, <1>10, ExceptSeq
<1>12. /\ DOMAIN n.slabs = DOMAIN m.slabs /\ n.slabs \in [DOMAIN n.slabs -> SlabRecord]
       /\ \A t \in DOMAIN m.slabs : t # s => n.slabs[t] = m.slabs[t]
       /\ n.slabs[s] = q
  BY <1>5, <1>10 DEF Typed
<1>13. n.out \in SUBSET Object /\ IsFiniteSet(n.out)
  <2>1. m.out \in SUBSET Object /\ IsFiniteSet(m.out)
    BY DEF Typed
  <2>2. IsFiniteSet(m.out \cup {o})
    BY <2>1, FS_AddElement
  <2> QED BY <1>8, <1>10, <2>1, <2>2
<1>14. Typed(n)
  BY <1>10, <1>11, <1>12, <1>13 DEF Typed
<1> QED BY <1>10, <1>11, <1>12, <1>14

(* The object that cache c gives next, of slab s.                             *)
Gives(m, c, s) ==
    /\ s \in DOMAIN m.slabs /\ s = Candidate(m.caches[c])
    /\ s \in SlabsIn(m, c) /\ m.slabs[s].free # << >>

(* A cache with an open slab has a candidate.                                 *)
LEMMA CandidateIs ==
    ASSUME NEW m, Typed(m), NEW c \in DOMAIN m.caches, Listed(m, c),
           ~Exhausted(m.caches[c])
    PROVE  LET k == m.caches[c]
               s == Candidate(k)
           IN /\ s \in DOMAIN m.slabs /\ s \in SlabsIn(m, c)
              /\ \/ k.free = <<s>> /\ k.busy = << >> /\ m.slabs[s].bsy = 0
                 \/ /\ k.free = << >> /\ k.busy = <<s>> /\ m.slabs[s].bsy > 0
                    /\ m.slabs[s].bsy < m.slabs[s].cnt \/ m.slabs[s].cnt = 1
<1> DEFINE k == m.caches[c]
<1>1. OpenSlab(m, k) /\ ~(k.free = << >> /\ k.busy = << >>)
  BY DEF Listed, Exhausted
<1>2. ASSUME NEW s \in DOMAIN m.slabs, k.free = <<s>> \/ k.busy = <<s>>
      PROVE  s \in SlabsIn(m, c)
  BY <1>2, Members
<1> HIDE DEF k
<1>3. PICK s \in DOMAIN m.slabs :
        \/ k.free = <<s>> /\ k.busy = << >> /\ m.slabs[s].bsy = 0
        \/ /\ k.free = << >> /\ k.busy = <<s>> /\ m.slabs[s].bsy > 0
           /\ m.slabs[s].bsy < m.slabs[s].cnt \/ m.slabs[s].cnt = 1
  BY <1>1 DEF OpenSlab
<1>4. Candidate(k) = s
  <2>1. <<s>> # << >> /\ Head(<<s>>) = s
    OBVIOUS
  <2> QED BY <1>3, <2>1 DEF Candidate
<1> QED BY <1>2, <1>3, <1>4 DEF k

LEMMA GivenMore ==
    ASSUME NEW r \in SlabRecord, NEW q, r.bsy < r.cnt,
           q.cache = r.cache, q.page = r.page, q.cnt = r.cnt, q.bsy = r.bsy + 1,
           NEW d \in Nat, NEW z \in Positive, NEW o,
           o = [cache |-> r.cache, at |-> <<r.page, d + (r.cnt - r.bsy - 1) * z>>]
    PROVE  Given(q, d, z) = Given(r, d, z) \cup {o} /\ o \notin Given(r, d, z)
<1>1. PICK a \in Nat, b \in Nat : a = r.cnt /\ b = r.bsy /\ b < a
  BY DEF SlabRecord
<1> DEFINE obj(j) == [cache |-> r.cache, at |-> <<r.page, d + j * z>>]
<1>2. Given(r, d, z) = {obj(j) : j \in (a - b) .. (a - 1)}
  BY <1>1 DEF Given
<1>3. Given(q, d, z) = {obj(j) : j \in (a - (b + 1)) .. (a - 1)}
  BY <1>1 DEF Given
<1>4. o = obj(a - b - 1) /\ a - (b + 1) = a - b - 1
  BY <1>1
<1>5. ASSUME NEW i \in Int, NEW j \in Int, obj(i) = obj(j) PROVE i = j
  <2>1. <<r.page, d + i * z>> = <<r.page, d + j * z>>
    BY <1>5
  <2>2. d + i * z = d + j * z
    BY <2>1
  <2>3. z \in Int /\ z > 0
    BY DEF Positive
  <2>4. i * z = j * z
    <3>1. PICK u \in Int, v \in Int : u = i * z /\ v = j * z
      BY <2>3
    <3> QED BY <2>2, <3>1
  <2>5. (i - j) * z = 0
    BY <2>3, <2>4
  <2> QED BY <2>3, <2>5
<1> HIDE DEF obj
<1>6. (a - b - 1) .. (a - 1) = ((a - b) .. (a - 1)) \cup {a - b - 1}
  BY <1>1
<1>7. Given(q, d, z) = Given(r, d, z) \cup {o}
  BY <1>2, <1>3, <1>4, <1>6
<1>8. o \notin Given(r, d, z)
  <2>1. SUFFICES ASSUME NEW j \in (a - b) .. (a - 1), o = obj(j) PROVE FALSE
    BY <1>2
  <2>2. j = a - b - 1
    BY <1>1, <1>4, <1>5, <2>1
  <2> QED BY <1>1, <2>2
<1> QED BY <1>7, <1>8

(* The object o that slab s, of record r and cache record k, gives is new,    *)
(* no slab_t is where it is, and the record q is as it should be.             *)
GivesNew(m, c, s, r, k, q, o) ==
    /\ o \in Object /\ o \notin m.out /\ o.at \notin DOMAIN m.slabs
    /\ o.at[1] = r.page
    /\ r.bsy < r.cnt /\ r \in SlabRecord /\ r.cache = c
    /\ \E d \in 0 .. Block(MAX_ORDER) :
        /\ Begins(m, s, d)
        /\ q.free = Objects(q.cnt - q.bsy, q.page, d, k.osize)
        /\ Given(q, d, k.osize) = Given(r, d, k.osize) \cup {o}

LEMMA NextIsNew ==
    ASSUME NEW m, Good(m), NEW c \in DOMAIN m.caches, NEW s, Gives(m, c, s),
           NEW r, NEW k, NEW q, NEW o, r = m.slabs[s], k = m.caches[c],
           q = After(r), o = Handed(c, r)
    PROVE  GivesNew(m, c, s, r, k, q, o)
<1>1. r = m.slabs[s]
  OBVIOUS
<1>2. k = m.caches[c]
  OBVIOUS
<1>3. r \in SlabRecord /\ k \in CacheRecord /\ r.cache = c /\ s \in DOMAIN m.slabs /\ r.free # << >>
      /\ SlabRight(m, s)
  BY <1>1, <1>2 DEF Good, Typed, Gives, SlabsIn
<1>4. PICK d \in 0 .. Block(MAX_ORDER) : Begins(m, s, d)
  BY <1>3 DEF SlabRight
<1>5. PICK z \in Positive : z = k.osize
  BY <1>3 DEF CacheRecord
<1>6. /\ r.free = Objects(r.cnt - r.bsy, r.page, d, z)
      /\ {g \in m.out : g.at[1] = r.page} = Given(r, d, z)
      /\ OnSlab(z) => s[1] = r.page /\ s[2] + SLAB + r.cnt * BUF <= d
  BY <1>1, <1>2, <1>3, <1>4, <1>5 DEF Begins
<1>7. r.page \in Positive /\ r.cnt \in Nat /\ r.bsy \in 0 .. r.cnt /\ d \in Nat
  BY <1>1, <1>3, <1>4 DEF SlabRight, SlabRecord
<1>8. PICK x \in Nat : r.cnt - r.bsy = x + 1
  <2>1. r.cnt - r.bsy \in Nat
    BY <1>7
  <2>2. r.cnt - r.bsy # 0
    <3>1. PICK w \in Nat, b \in Positive : w = r.cnt - r.bsy /\ b = r.page
      BY <1>7, <2>1
    <3>2. r.free = Objects(w, b, d, z) /\ d \in Nat
      BY <1>6, <1>7, <3>1
    <3>3. Objects(w, b, d, z) = << >> <=> w = 0
      BY <3>2, ObjectsFacts
    <3> QED BY <1>3, <3>1, <3>2, <3>3
  <2>3. r.cnt - r.bsy - 1 \in Nat
    BY <2>1, <2>2
  <2>4. r.cnt - r.bsy = (r.cnt - r.bsy - 1) + 1
    BY <1>7
  <2> QED BY <2>3, <2>4
<1>9. x + 1 \in Nat /\ x + 1 > 0 /\ (x + 1) - 1 = x
  OBVIOUS
<1>10. Head(r.free) = <<r.page, d + x * z>> /\ Tail(r.free) = Objects(x, r.page, d, z)
  <2>1. PICK w \in Nat : w = x + 1
    BY <1>9
  <2>2. PICK b \in Positive : b = r.page
    BY <1>7
  <2>3. r.free = Objects(w, b, d, z) /\ w > 0 /\ w - 1 = x
    BY <1>6, <1>8, <1>9, <2>1, <2>2
  <2>4. d \in Nat
    BY <1>7
  <2>5. w \in Nat /\ b \in Positive /\ z \in Positive
    OBVIOUS
  <2>6. Head(Objects(w, b, d, z)) = <<b, d + (w - 1) * z>>
    <3>1. PICK h : h = <<b, d + (w - 1) * z>>
      OBVIOUS
    <3>2. Head(Objects(w, b, d, z)) = h
      BY ONLY <2>3, <2>4, <2>5, <3>1, ObjectsHead
    <3> QED BY <3>1, <3>2
  <2>7. Tail(Objects(w, b, d, z)) = Objects(x, b, d, z)
    <3>1. x = w - 1
      BY <2>3
    <3> QED BY ONLY <2>3, <2>4, <2>5, <3>1, ObjectsTail
  <2> QED BY <2>2, <2>3, <2>6, <2>7
<1>11. PICK y \in Nat : y = d + x * z
  BY <1>7 DEF Positive
<1>12. o = [cache |-> c, at |-> <<r.page, y>>]
  BY <1>10, <1>11 DEF Handed
<1>13. c \in Positive
  <2>1. m.caches \in Seq(CacheRecord)
    BY DEF Good, Typed
  <2> QED BY <2>1, LenProperties DEF Positive
<1>14. o \in Object /\ o.at[1] = r.page /\ o.at[2] = y
  BY <1>7, <1>12, <1>13 DEF Object, Address
<1>15. r.cnt - r.bsy - 1 = x /\ r.bsy < r.cnt
  BY <1>7, <1>8
<1>16. /\ q.free = Objects(q.cnt - q.bsy, q.page, d, z)
       /\ Given(q, d, z) = Given(r, d, z) \cup {o} /\ o \notin Given(r, d, z)
  <2>1. /\ q.cache = r.cache /\ q.page = r.page /\ q.cnt = r.cnt /\ q.bsy = r.bsy + 1
        /\ q.free = Tail(r.free)
    BY <1>3 DEF SlabRecord, After
  <2>2. q.cnt - q.bsy = x
    BY <1>7, <1>15, <2>1
  <2>3. o = [cache |-> r.cache, at |-> <<r.page, d + (r.cnt - r.bsy - 1) * z>>]
    BY <1>3, <1>11, <1>12, <1>15
  <2>4. r \in SlabRecord /\ r.bsy < r.cnt /\ d \in Nat /\ z \in Positive
    BY <1>3, <1>7, <1>15
  <2>5. Given(q, d, z) = Given(r, d, z) \cup {o} /\ o \notin Given(r, d, z)
    BY ONLY <2>1, <2>3, <2>4, GivenMore
  <2> QED BY <1>10, <2>1, <2>2, <2>5
<1>17. o \notin m.out
  BY <1>6, <1>14, <1>16
<1>18. o.at \notin DOMAIN m.slabs
  <2>1. SUFFICES ASSUME NEW t \in DOMAIN m.slabs, t = o.at PROVE FALSE
    OBVIOUS
  <2>2. SlabRight(m, t) /\ t[1] = r.page /\ t[2] = y
    BY <1>14, <2>1 DEF Good
  <2>3. CASE OnSlab(m.caches[m.slabs[t].cache].osize)
    <3>1. t[1] = m.slabs[t].page
      BY <2>2, <2>3 DEF SlabRight, Begins
    <3>2. t = s
      BY <1>1, <1>3, <2>2, <3>1 DEF Good, PagesApart
    <3>3. s[2] = y /\ OnSlab(z)
      BY <1>1, <1>2, <1>3, <1>5, <2>2, <2>3, <3>2
    <3>4. s[2] + SLAB + r.cnt * BUF <= d
      BY <1>6, <3>3
    <3>5. r.cnt * BUF \in Nat /\ x * z \in Nat /\ SLAB \in Nat /\ SLAB > 0
      BY <1>7, Sizes DEF Positive
    <3>6. PICK u \in Nat, v \in Nat : u = r.cnt * BUF /\ v = x * z
      BY <3>5
    <3> QED BY <1>7, <1>11, <3>3, <3>4, <3>5, <3>6
  <2>4. CASE ~OnSlab(m.caches[m.slabs[t].cache].osize)
    <3>1. PICK p : p = [cache |-> CacheSlab, at |-> t]
      OBVIOUS
    <3>2. p \in m.out /\ p.at[1] = r.page
      BY <2>2, <2>4, <3>1 DEF SlabRight
    <3>3. p \in Given(r, d, z)
      BY <1>6, <3>2
    <3>4. p.cache = r.cache
      BY <3>3 DEF Given
    <3>5. p = o
      BY <1>3, <1>12, <2>1, <3>1, <3>4
    <3> QED BY <1>17, <3>2, <3>5
  <2> QED BY <2>3, <2>4
<1> QED BY <1>3, <1>4, <1>5, <1>14, <1>15, <1>16, <1>17, <1>18 DEF GivesNew

LEMMA DetachGood ==
    ASSUME NEW m, Good(m), NEW c \in DOMAIN m.caches, NEW s, Gives(m, c, s),
           ~Exhausted(m.caches[c])
    PROVE  LET n == Detach(m, c)
           IN /\ Good(n) /\ Frame(m, n, c)
              /\ DOMAIN n.slabs = DOMAIN m.slabs /\ n.blocks = m.blocks
              /\ n.out = m.out \cup {Handed(c, m.slabs[s])}
<1>1. PICK n, r, k, o : /\ n = Detach(m, c) /\ r = m.slabs[s] /\ k = m.caches[c]
                        /\ o = Handed(c, r)
  OBVIOUS
<1>2. PICK q, l : q = After(r) /\ l = Relisted(k, s, r)
  OBVIOUS
<1>3. /\ Typed(m) /\ Listed(m, c) /\ Counted(m, c) /\ SlabRight(m, s)
      /\ s \in DOMAIN m.slabs /\ s = Candidate(k) /\ r.free # << >> /\ s \in SlabsIn(m, c)
      /\ \A e \in DOMAIN m.caches : Shaped(m.caches[e]) /\ Listed(m, e) /\ Counted(m, e)
      /\ \A t \in DOMAIN m.slabs : SlabRight(m, t)
      /\ PagesApart(m) /\ OutOfSlabs(m)
      /\ \A e \in DOMAIN m.caches :
            e \in {CA, CacheSlab, CacheBuf} => OnSlab(m.caches[e].osize)
  BY <1>1 DEF Good, Gives
<1>4. k \in CacheRecord /\ s \in Address /\ Range(k.full) \subseteq SlabsIn(m, c)
  BY <1>1, <1>3, Members
<1>5. \/ k.free = <<s>> /\ k.busy = << >> /\ r.bsy = 0
      \/ k.free = << >> /\ k.busy = <<s>> /\ r.bsy > 0 /\ (r.bsy < r.cnt \/ r.cnt = 1)
  BY <1>1, <1>3, CandidateIs
<1>6. /\ o \in Object /\ o \notin m.out /\ o.at[1] = r.page
      /\ r.bsy < r.cnt /\ r \in SlabRecord /\ r.cache = c
      /\ \E d \in 0 .. Block(MAX_ORDER) :
            /\ Begins(m, s, d)
            /\ q.free = Objects(q.cnt - q.bsy, q.page, d, k.osize)
            /\ Given(q, d, k.osize) = Given(r, d, k.osize) \cup {o}
  <2>1. Gives(m, c, s)
    OBVIOUS
  <2>2. Good(m) /\ c \in DOMAIN m.caches
    OBVIOUS
  <2>3. GivesNew(m, c, s, r, k, q, o)
    BY ONLY <1>1, <1>2, <2>1, <2>2, NextIsNew
  <2> QED BY <2>3 DEF GivesNew
<1>7. PICK full \in BOOLEAN : full <=> r.bsy + 1 = r.cnt
  OBVIOUS
<1>8. /\ l \in CacheRecord /\ Same(k, l)
      /\ l.nxtcol = k.nxtcol /\ l.cnt = k.cnt /\ l.bsy = k.bsy + 1
      /\ l.free = << >>
      /\ k.busy = << >> \/ ~full => l.busy = <<s>> /\ l.full = k.full
      /\ k.busy # << >> /\ full => l.busy = << >> /\ l.full = <<s>> \o k.full
      /\ Lists(l) = Lists(k)
  <2>1. l = Relist([k EXCEPT !.bsy = @ + 1], s, full)
    BY <1>2, <1>7 DEF Relisted
  <2>2. \/ k.free = <<s>> /\ k.busy = << >>
        \/ k.free = << >> /\ k.busy = <<s>>
    BY <1>5
  <2> QED BY <1>4, <2>1, <2>2, RelistFacts
<1>9. /\ Typed(n) /\ n.blocks = m.blocks
      /\ n.out = m.out \cup {o}
      /\ DOMAIN n.caches = DOMAIN m.caches /\ Len(n.caches) = Len(m.caches)
      /\ n.caches[c] = l
      /\ \A e \in DOMAIN m.caches : e # c => n.caches[e] = m.caches[e]
      /\ DOMAIN n.slabs = DOMAIN m.slabs
      /\ \A t \in DOMAIN m.slabs : t # s => n.slabs[t] = m.slabs[t]
      /\ n.slabs[s] = q
  <2>1. /\ Typed(m) /\ c \in DOMAIN m.caches /\ s \in DOMAIN m.slabs
        /\ s = Candidate(m.caches[c]) /\ l \in CacheRecord /\ l = Relisted(m.caches[c], s, r)
        /\ r.free # << >>
    BY <1>1, <1>2, <1>3, <1>8
  <2> QED BY ONLY <1>1, <1>2, <2>1, DetachIs
<1>10. q.cache = r.cache /\ q.page = r.page /\ q.cnt = r.cnt /\ q.bsy = r.bsy + 1
  BY <1>2, <1>6 DEF SlabRecord, After
<1>11. \A e \in DOMAIN m.caches : Same(m.caches[e], n.caches[e])
  BY <1>1, <1>8, <1>9 DEF Same
<1>12. Frame(m, n, c)
  BY <1>1, <1>9, <1>10, <1>11 DEF Frame
<1>13. \A e \in DOMAIN n.caches : Shaped(n.caches[e])
  <2>1. Shaped(l)
    <3>1. l.nxtcol \in 0 .. k.colors - 1
      BY <1>1, <1>3, <1>8 DEF Shaped
    <3> QED BY <1>1, <1>3, <1>8, <3>1, ShapedSame
  <2> QED BY <1>3, <1>9, <2>1
<1>14. \A e \in DOMAIN n.caches :
          e \in {CA, CacheSlab, CacheBuf} => OnSlab(n.caches[e].osize)
  BY <1>3, <1>9, <1>11 DEF Same
<1>15. m.blocks \in Nat /\ n.blocks \in Nat /\ m.blocks <= n.blocks
  BY <1>3, <1>9 DEF Typed
<1>16. ASSUME NEW t \in DOMAIN m.slabs, t # s PROVE SlabRight(n, t)
  <2>1. m.slabs[t].page # r.page
    BY <1>1, <1>3, <1>16 DEF PagesApart
  <2>2. \A p \in n.out : p.at[1] = m.slabs[t].page => p \in m.out
    BY <1>6, <1>9, <2>1
  <2> QED BY <1>3, <1>9, <1>11, <1>15, <1>16, <2>2, SlabKept
<1>17. SlabRight(n, s)
  <2>1. PICK d \in 0 .. Block(MAX_ORDER) :
          /\ Begins(m, s, d)
          /\ q.free = Objects(q.cnt - q.bsy, q.page, d, k.osize)
          /\ Given(q, d, k.osize) = Given(r, d, k.osize) \cup {o}
    BY <1>6
  <2>2. l.osize = k.osize /\ l.align = k.align /\ l.order = k.order /\ l.nobjs = k.nobjs
    BY <1>8 DEF Same
  <2>3. {p \in n.out : p.at[1] = q.page} = {p \in m.out : p.at[1] = r.page} \cup {o}
    BY <1>6, <1>9, <1>10
  <2>4. {p \in m.out : p.at[1] = r.page} = Given(r, d, k.osize)
    BY <1>1, <1>6, <2>1 DEF Begins
  <2>5. Begins(n, s, d)
    <3>1. n.slabs[s] = q /\ n.caches[q.cache] = l
      BY <1>6, <1>9, <1>10
    <3>2. /\ d % l.align = 0 /\ d + q.cnt * l.osize <= Block(l.order)
          /\ OnSlab(l.osize) => s[1] = q.page /\ s[2] + SLAB + q.cnt * BUF <= d
      BY <1>1, <1>6, <1>10, <2>1, <2>2 DEF Begins
    <3>3. {p \in n.out : p.at[1] = q.page} = Given(q, d, l.osize)
      BY <2>1, <2>2, <2>3, <2>4
    <3>4. q.free = Objects(q.cnt - q.bsy, q.page, d, l.osize)
      BY <2>1, <2>2
    <3> QED BY <3>1, <3>2, <3>3, <3>4 DEF Begins
  <2>6. /\ r.page \in 1 .. m.blocks /\ r.cnt = k.nobjs
        /\ ~OnSlab(k.osize) => [cache |-> CacheSlab, at |-> s] \in m.out
    BY <1>1, <1>3, <1>6 DEF SlabRight
  <2>7. q.bsy \in 0 .. q.cnt
    BY <1>6, <1>10 DEF SlabRecord
  <2> QED BY <1>6, <1>9, <1>10, <2>2, <2>5, <2>6, <2>7 DEF SlabRight
<1>18. PagesApart(n)
  BY <1>1, <1>3, <1>9, <1>10 DEF PagesApart
<1>19. OutOfSlabs(n)
  <2>1. \A t \in DOMAIN m.slabs : n.slabs[t].page = m.slabs[t].page
    BY <1>1, <1>9, <1>10
  <2>2. SUFFICES ASSUME NEW p \in n.out
                 PROVE  \E t \in DOMAIN m.slabs : p.at[1] = m.slabs[t].page
    BY <1>9, <2>1 DEF OutOfSlabs
  <2>3. CASE p \in m.out
    BY <1>3, <2>3 DEF OutOfSlabs
  <2>4. CASE p = o
    BY <1>1, <1>3, <1>6, <2>4
  <2> QED BY <1>9, <2>3, <2>4
<1>20. \A e : SlabsIn(n, e) = SlabsIn(m, e)
  BY <1>1, <1>9, <1>10 DEF SlabsIn
<1>21. ASSUME NEW e \in DOMAIN m.caches, e # c PROVE Listed(n, e) /\ Counted(n, e)
  <2>1. \A t \in SlabsIn(m, e) : n.slabs[t] = m.slabs[t]
    BY <1>1, <1>6, <1>9, <1>21 DEF SlabsIn
  <2> QED BY <1>3, <1>9, <1>20, <1>21, <2>1, ListedKept
<1>22. s \notin Range(k.full) /\ k.full \in Seq(Address) /\ Lists(k) = <<s>> \o k.full
  <2>1. k.full \in Seq(Address)
    BY <1>4 DEF CacheRecord
  <2> QED BY <1>1, <1>3, <1>5, <2>1, Members
<1>23. \A t \in Range(k.full) : n.slabs[t].bsy = n.slabs[t].cnt
  <2>1. \A t \in Range(k.full) : m.slabs[t].bsy = m.slabs[t].cnt /\ t \in DOMAIN m.slabs
    BY <1>1, <1>3, <1>4 DEF Listed, SlabsIn
  <2> QED BY <1>9, <1>22, <2>1
<1>24. /\ r.bsy \in Nat /\ r.cnt \in Nat /\ r.cnt = k.nobjs /\ <<s>> # << >>
  BY <1>1, <1>3, <1>6 DEF SlabRecord, SlabRight
<1>25. Listed(n, c)
  <2>1. Once(Lists(l)) /\ Range(Lists(l)) = SlabsIn(n, c)
    BY <1>1, <1>3, <1>8, <1>20 DEF Listed
  <2>2. CASE k.busy = << >> \/ ~full
    <3>1. l.free = << >> /\ l.busy = <<s>> /\ l.full = k.full
      BY <1>8, <2>2
    <3>2. q.bsy > 0 /\ (q.bsy < q.cnt \/ q.cnt = 1)
      <4>1. PICK a \in Nat, b \in Nat : a = r.bsy /\ b = r.cnt
        BY <1>24
      <4>2. q.bsy = a + 1 /\ q.cnt = b /\ a < b
        BY <1>6, <1>10, <4>1
      <4>3. CASE k.busy = << >>
        BY <1>5, <1>24, <4>1, <4>2, <4>3
      <4>4. CASE ~full
        BY <1>7, <4>1, <4>2, <4>4
      <4> QED BY <2>2, <4>3, <4>4
    <3>3. OpenSlab(n, l)
      BY <1>3, <1>9, <3>1, <3>2 DEF OpenSlab
    <3> QED BY <1>9, <1>23, <2>1, <3>1, <3>3 DEF Listed
  <2>3. CASE k.busy # << >> /\ full
    <3>1. l.free = << >> /\ l.busy = << >> /\ l.full = <<s>> \o k.full
      BY <1>8, <2>3
    <3>2. Range(l.full) = {s} \cup Range(k.full)
      BY <1>4, <1>22, <3>1, Prepend
    <3>3. q.bsy = q.cnt
      BY <1>7, <1>10, <2>3
    <3>4. OpenSlab(n, l)
      BY <3>1 DEF OpenSlab
    <3> QED BY <1>9, <1>23, <2>1, <3>2, <3>3, <3>4 DEF Listed
  <2> QED BY <2>2, <2>3
<1>26. Counted(n, c)
  <2>1. PICK a \in Nat, b \in Nat, j \in Nat : a = Len(k.full) /\ b = r.bsy /\ j = k.nobjs
    BY <1>22, <1>24
  <2>2. k.cnt = k.nobjs * Len(Lists(k))
    BY <1>1, <1>3 DEF Counted
  <2>3. k.bsy = j * a + b
    <3>1. k.busy = <<s>> => Head(k.busy) = s
      OBVIOUS
    <3>2. k.bsy = j * a + (IF k.busy = << >> THEN 0 ELSE m.slabs[Head(k.busy)].bsy)
      BY <1>1, <1>3, <2>1 DEF Counted
    <3>3. CASE k.busy = << >>
      BY <1>5, <1>24, <2>1, <3>2, <3>3
    <3>4. CASE k.busy # << >>
      BY <1>1, <1>5, <2>1, <3>1, <3>2, <3>4
    <3> QED BY <3>3, <3>4
  <2>4. PICK p \in Nat : p = j * a
    BY <2>1
  <2>5. l.bsy = p + b + 1
    BY <1>8, <2>3, <2>4
  <2>6. l.nobjs = j /\ l.cnt = l.nobjs * Len(Lists(l))
    BY <1>8, <2>1, <2>2 DEF Same
  <2>7. CASE k.busy = << >> \/ ~full
    <3>1. l.busy = <<s>> /\ l.full = k.full
      BY <1>8, <2>7
    <3>2. Head(l.busy) = s /\ l.busy # << >>
      BY <3>1
    <3>3. q.bsy = b + 1
      BY <1>10, <2>1
    <3>4. l.nobjs * Len(l.full) = p
      BY <2>1, <2>4, <2>6, <3>1
    <3>5. l.bsy = p + q.bsy
      BY <2>1, <2>4, <2>5, <3>3
    <3>6. n.caches[c] = l /\ n.slabs[Head(l.busy)].bsy = q.bsy
      BY <1>9, <3>2
    <3> QED BY <2>6, <3>2, <3>4, <3>5, <3>6 DEF Counted
  <2>8. CASE k.busy # << >> /\ full
    <3>1. l.busy = << >> /\ l.full = <<s>> \o k.full
      BY <1>8, <2>8
    <3>2. Len(l.full) = a + 1
      BY <1>4, <1>22, <2>1, <3>1, Prepend
    <3>3. b + 1 = j
      BY <1>7, <1>24, <2>1, <2>8
    <3>4. j * (a + 1) = p + j
      BY <2>4
    <3>5. l.nobjs * Len(l.full) = p + j
      BY <2>6, <3>2, <3>4
    <3>6. l.bsy = l.nobjs * Len(l.full) + 0
      BY <2>1, <2>4, <2>5, <3>3, <3>5
    <3>7. n.caches[c] = l
      BY <1>9
    <3> QED BY <2>6, <3>1, <3>6, <3>7 DEF Counted
  <2> QED BY <2>7, <2>8
<1>27. Good(n)
  <2>1. \A t \in DOMAIN n.slabs : SlabRight(n, t)
    BY <1>9, <1>16, <1>17
  <2>2. \A e \in DOMAIN n.caches : Listed(n, e) /\ Counted(n, e)
    BY <1>9, <1>21, <1>25, <1>26
  <2> QED BY <1>9, <1>13, <1>14, <1>18, <1>19, <2>1, <2>2 DEF Good
<1> QED BY <1>1, <1>9, <1>12, <1>27

-------------------------------------------------------------------------------
(* A new slab.                                                                *)

(* Block b is taken but no slab is in it.                                     *)
Fresh(m, b) == b \in 1 .. m.blocks /\ \A t \in DOMAIN m.slabs : m.slabs[t].page # b

(* Cache c, which is exhausted, may have a slab at s whose objects begin at   *)
(* byte `data' of block b.                                                    *)
Fits(m, c, s, b, data) ==
    LET k == m.caches[c]
    IN /\ c \in DOMAIN m.caches /\ Exhausted(k) /\ Fresh(m, b)
       /\ s \in Address /\ s \notin DOMAIN m.slabs
       /\ data \in Nat /\ data % k.align = 0
       /\ data + k.nobjs * k.osize <= Block(k.order)
       /\ OnSlab(k.osize) => s[1] = b /\ s[2] + SLAB + k.nobjs * BUF <= data
       /\ ~OnSlab(k.osize) => [cache |-> CacheSlab, at |-> s] \in m.out

NewSlab(c, k, b, data) ==
    [cache |-> c, page |-> b, free |-> FreeList(k, b, data), bsy |-> 0, cnt |-> k.nobjs]
Grown(k, s) == [k EXCEPT !.cnt = @ + k.nobjs, !.free = <<s>> \o @]

LEMMA AddSlabIs ==
    ASSUME NEW m, Typed(m), NEW c \in DOMAIN m.caches, NEW s \in Address,
           s \notin DOMAIN m.slabs, NEW b \in Positive, NEW data \in Nat,
           NEW k, k = m.caches[c], NEW r \in SlabRecord, r = NewSlab(c, k, b, data),
           NEW l \in CacheRecord, l = Grown(k, s), NEW n, n = AddSlab(m, c, s, b, data)
    PROVE  /\ Typed(n)
           /\ n.blocks = m.blocks /\ n.out = m.out
           /\ DOMAIN n.caches = DOMAIN m.caches /\ Len(n.caches) = Len(m.caches)
           /\ n.caches[c] = l
           /\ \A e \in DOMAIN m.caches : e # c => n.caches[e] = m.caches[e]
           /\ DOMAIN n.slabs = {s} \cup DOMAIN m.slabs
           /\ \A t \in DOMAIN m.slabs : n.slabs[t] = m.slabs[t]
           /\ n.slabs[s] = r
<1>1. /\ m.caches \in Seq(CacheRecord) /\ c \in 1 .. Len(m.caches)
      /\ DOMAIN m.caches = 1 .. Len(m.caches)
  <2>1. m.caches \in Seq(CacheRecord)
    BY DEF Typed
  <2> QED BY <2>1, LenProperties
<1>2. PICK mc, ms, mb, mo : mc = m.caches /\ ms = m.slabs /\ mb = m.blocks /\ mo = m.out
  OBVIOUS
<1>3. m = [caches |-> mc, slabs |-> ms, blocks |-> mb, out |-> mo]
  BY <1>2 DEF Typed
<1>4. mc = [e \in DOMAIN mc |-> mc[e]] /\ c \in DOMAIN mc /\ k = mc[c] /\ k \in CacheRecord
  BY <1>1, <1>2
<1>5. n = [m EXCEPT !.slabs = [t \in {s} \cup DOMAIN @ |-> IF t = s THEN r ELSE @[t]],
                    !.caches[c].cnt = @ + k.nobjs, !.caches[c].free = <<s>> \o @]
  BY DEF AddSlab, NewSlab
<1>6. n = [caches |-> [mc EXCEPT ![c].cnt = @ + k.nobjs, ![c].free = <<s>> \o @],
           slabs |-> [t \in {s} \cup DOMAIN ms |-> IF t = s THEN r ELSE ms[t]],
           blocks |-> mb, out |-> mo]
  BY ONLY <1>3, <1>5
<1>7. [mc EXCEPT ![c].cnt = @ + k.nobjs, ![c].free = <<s>> \o @] = [mc EXCEPT ![c] = l]
  BY <1>4 DEF Grown, CacheRecord
<1>8. /\ n.caches = [m.caches EXCEPT ![c] = l]
      /\ n.slabs = [t \in {s} \cup DOMAIN m.slabs |-> IF t = s THEN r ELSE m.slabs[t]]
      /\ n.blocks = m.blocks /\ n.out = m.out
      /\ n = [caches |-> n.caches, slabs |-> n.slabs, blocks |-> n.blocks, out |-> n.out]
  BY <1>2, <1>6, <1>7
<1>9. /\ n.caches \in Seq(CacheRecord) /\ Len(n.caches) = Len(m.caches)
      /\ DOMAIN n.caches = DOMAIN m.caches /\ n.caches[c] = l
      /\ \A e \in DOMAIN m.caches : e # c => n.caches[e] = m.caches[e]
  BY <1>1, <1>8, ExceptSeq
<1>10. /\ DOMAIN n.slabs = {s} \cup DOMAIN m.slabs
       /\ n.slabs \in [DOMAIN n.slabs -> SlabRecord]
       /\ \A t \in DOMAIN m.slabs : n.slabs[t] = m.slabs[t]
       /\ n.slabs[s] = r
  BY <1>8 DEF Typed
<1>11. DOMAIN n.slabs \in SUBSET Address /\ IsFiniteSet(DOMAIN n.slabs)
  <2>1. DOMAIN m.slabs \in SUBSET Address /\ IsFiniteSet(DOMAIN m.slabs)
    BY DEF Typed
  <2>2. IsFiniteSet(DOMAIN m.slabs \cup {s})
    BY <2>1, FS_AddElement
  <2>3. DOMAIN n.slabs = DOMAIN m.slabs \cup {s}
    BY <1>10
  <2> QED BY <2>1, <2>2, <2>3
<1>12. Typed(n)
  BY <1>8, <1>9, <1>10, <1>11 DEF Typed
<1> QED BY <1>8, <1>9, <1>10, <1>12

LEMMA AddSlabGood ==
    ASSUME NEW m, Good(m), NEW c, NEW s, NEW b, NEW data, Fits(m, c, s, b, data),
           NEW n, n = AddSlab(m, c, s, b, data)
    PROVE  /\ Good(n) /\ Frame(m, n, c)
           /\ n.blocks = m.blocks /\ n.out = m.out
           /\ DOMAIN n.slabs = {s} \cup DOMAIN m.slabs /\ s \notin DOMAIN m.slabs
           /\ n.slabs[s].cache = c /\ n.slabs[s].cnt = m.caches[c].nobjs
           /\ n.slabs[s].page = b
           /\ Gives(n, c, s) /\ ~Exhausted(n.caches[c])
<1>1. PICK k, r, l : k = m.caches[c] /\ r = NewSlab(c, k, b, data) /\ l = Grown(k, s)
  OBVIOUS
<1>2. /\ Typed(m)
      /\ \A e \in DOMAIN m.caches : Shaped(m.caches[e]) /\ Listed(m, e) /\ Counted(m, e)
      /\ \A t \in DOMAIN m.slabs : SlabRight(m, t)
      /\ PagesApart(m) /\ OutOfSlabs(m)
      /\ \A e \in DOMAIN m.caches :
            e \in {CA, CacheSlab, CacheBuf} => OnSlab(m.caches[e].osize)
  BY DEF Good
<1>3. /\ c \in DOMAIN m.caches /\ k.free = << >> /\ k.busy = << >>
      /\ b \in 1 .. m.blocks /\ \A t \in DOMAIN m.slabs : m.slabs[t].page # b
      /\ s \in Address /\ s \notin DOMAIN m.slabs
      /\ data \in Nat /\ data % k.align = 0
      /\ data + k.nobjs * k.osize <= Block(k.order)
      /\ OnSlab(k.osize) => s[1] = b /\ s[2] + SLAB + k.nobjs * BUF <= data
      /\ ~OnSlab(k.osize) => [cache |-> CacheSlab, at |-> s] \in m.out
  BY <1>1 DEF Fits, Fresh, Exhausted
<1>4. k \in CacheRecord /\ c \in Positive /\ m.blocks \in Nat
  <2>1. m.caches \in Seq(CacheRecord) /\ m.blocks \in Nat
    BY <1>2 DEF Typed
  <2>2. DOMAIN m.caches = 1 .. Len(m.caches)
    BY <2>1, LenProperties
  <2>3. k \in CacheRecord
    BY <1>1, <1>3, <2>1, <2>2, ElementOfSeq
  <2> QED BY <1>3, <2>1, <2>2, <2>3 DEF Positive
<1>5. /\ k.nobjs \in Positive /\ k.osize \in Positive /\ b \in Positive /\ k.full \in Seq(Address)
      /\ k.nobjs \in Nat /\ k.cnt \in Nat
  BY <1>3, <1>4 DEF CacheRecord, Positive
<1>6. PICK q : q = FreeList(k, b, data)
  OBVIOUS
<1>7. /\ q = Objects(k.nobjs, b, data, k.osize)
      /\ q \in Seq(Address) /\ q # << >>
  <2>1. q = Objects(k.nobjs, b, data, k.osize)
    BY <1>6 DEF FreeList, Objects
  <2>2. PICK j \in Nat, z \in Positive : j = k.nobjs /\ z = k.osize /\ j # 0
    BY <1>5 DEF Positive
  <2>3. PICK x \in Positive, y \in Nat : x = b /\ y = data
    BY <1>3, <1>5
  <2>4. Objects(j, x, y, z) \in Seq(Address) /\ (Objects(j, x, y, z) = << >> <=> j = 0)
    BY ONLY ObjectsFacts
  <2> QED BY <2>1, <2>2, <2>3, <2>4
<1>8. /\ r = [cache |-> c, page |-> b, free |-> q, bsy |-> 0, cnt |-> k.nobjs]
      /\ r \in SlabRecord
  <2>1. r = [cache |-> c, page |-> b, free |-> q, bsy |-> 0, cnt |-> k.nobjs]
    BY <1>1, <1>6 DEF NewSlab
  <2> QED BY <1>4, <1>5, <1>7, <2>1 DEF SlabRecord
<1>9. /\ l \in CacheRecord /\ Same(k, l) /\ l.nxtcol = k.nxtcol
      /\ l.cnt = k.cnt + k.nobjs /\ l.bsy = k.bsy
      /\ l.free = <<s>> /\ l.busy = << >> /\ l.full = k.full
  <2>1. <<s>> \in Seq(Address) /\ <<s>> \o << >> = <<s>>
    <3>1. <<s>> \in Seq(Address)
      BY <1>3
    <3> QED BY <3>1, ConcatEmptySeq
  <2>2. PICK f, x : f = <<s>> /\ x = k.cnt + k.nobjs
    OBVIOUS
  <2>3. f \in Seq(Address) /\ x \in Nat
    BY <1>5, <2>1, <2>2
  <2>4. l = [k EXCEPT !.cnt = x, !.free = f]
    BY <1>1, <1>3, <1>4, <2>1, <2>2 DEF Grown, CacheRecord
  <2>5. /\ l \in CacheRecord /\ Same(k, l) /\ l.nxtcol = k.nxtcol
        /\ l.cnt = x /\ l.bsy = k.bsy /\ l.free = f /\ l.busy = k.busy /\ l.full = k.full
    BY ONLY <1>4, <2>3, <2>4 DEF CacheRecord, Same
  <2> QED BY <1>3, <2>2, <2>5
<1>10. /\ Typed(n)
       /\ n.blocks = m.blocks /\ n.out = m.out
       /\ DOMAIN n.caches = DOMAIN m.caches /\ Len(n.caches) = Len(m.caches)
       /\ n.caches[c] = l
       /\ \A e \in DOMAIN m.caches : e # c => n.caches[e] = m.caches[e]
       /\ DOMAIN n.slabs = {s} \cup DOMAIN m.slabs
       /\ \A t \in DOMAIN m.slabs : n.slabs[t] = m.slabs[t]
       /\ n.slabs[s] = r
  <2>1. /\ n = AddSlab(m, c, s, b, data) /\ b \in Positive /\ data \in Nat
        /\ c \in DOMAIN m.caches /\ s \in Address /\ s \notin DOMAIN m.slabs
        /\ r \in SlabRecord /\ l \in CacheRecord /\ Typed(m)
    BY <1>2, <1>3, <1>5, <1>8, <1>9
  <2> QED BY ONLY <1>1, <2>1, AddSlabIs
<1>11. \A e \in DOMAIN m.caches : Same(m.caches[e], n.caches[e])
  BY <1>1, <1>9, <1>10 DEF Same
<1>12. Frame(m, n, c)
  BY <1>10, <1>11 DEF Frame
<1>13. \A e \in DOMAIN n.caches : Shaped(n.caches[e])
  <2>1. l.nxtcol \in 0 .. k.colors - 1
    BY <1>1, <1>2, <1>3, <1>9 DEF Shaped
  <2>2. Shaped(l)
    BY <1>1, <1>2, <1>3, <1>9, <2>1, ShapedSame
  <2> QED BY <1>2, <1>10, <2>2
<1>14. \A e \in DOMAIN n.caches :
          e \in {CA, CacheSlab, CacheBuf} => OnSlab(n.caches[e].osize)
  BY <1>2, <1>10, <1>11 DEF Same
<1>15. ASSUME NEW t \in DOMAIN m.slabs PROVE SlabRight(n, t)
  <2>1. m.blocks <= n.blocks /\ m.blocks \in Nat /\ n.blocks \in Nat
    BY <1>4, <1>10
  <2>2. \A p \in n.out : p.at[1] = m.slabs[t].page => p \in m.out
    BY <1>10
  <2> QED BY <1>2, <1>10, <1>11, <2>1, <2>2, SlabKept
<1>16. r.cache = c /\ r.page = b /\ r.free = q /\ r.bsy = 0 /\ r.cnt = k.nobjs
  BY <1>8
<1>17. data \in 0 .. Block(MAX_ORDER)
  <2>1. PICK x \in Positive, y \in Positive : x = Block(k.order) /\ y = Block(MAX_ORDER) /\ x <= y
    <3>1. k.order \in 0 .. MAX_ORDER /\ MAX_ORDER \in 0 .. MAX_ORDER
      BY <1>1, <1>2, <1>3, Sizes DEF Shaped, Positive
    <3> QED BY <3>1, BlockFacts
  <2>2. PICK p \in Nat : p = k.nobjs * k.osize
    BY <1>5 DEF Positive
  <2> QED BY <1>3, <2>1, <2>2 DEF Positive
<1>18. Begins(n, s, data)
  <2>1. n.slabs[s] = r /\ n.caches[r.cache] = l
    BY <1>10, <1>16
  <2>2. l.osize = k.osize /\ l.align = k.align /\ l.order = k.order /\ l.nobjs = k.nobjs
    BY <1>9 DEF Same
  <2>3. r.free = Objects(r.cnt - r.bsy, r.page, data, l.osize)
    <3>1. r.cnt - r.bsy = k.nobjs
      BY <1>5, <1>16
    <3> QED BY <1>7, <1>16, <2>2, <3>1
  <2>4. Given(r, data, l.osize) = {}
    <3>1. (r.cnt - r.bsy) .. (r.cnt - 1) = {}
      BY <1>5, <1>16
    <3> QED BY <3>1 DEF Given
  <2>5. {p \in n.out : p.at[1] = r.page} = {}
    BY <1>2, <1>3, <1>10, <1>16 DEF OutOfSlabs
  <2> QED BY <1>3, <1>16, <2>1, <2>2, <2>3, <2>4, <2>5 DEF Begins
<1>19. SlabRight(n, s)
  <2>1. l.osize = k.osize /\ l.nobjs = k.nobjs
    BY <1>9 DEF Same
  <2>2. r.bsy \in 0 .. r.cnt
    BY <1>5, <1>16
  <2> QED BY <1>3, <1>10, <1>16, <1>17, <1>18, <2>1, <2>2 DEF SlabRight
<1>20. PagesApart(n)
  BY <1>2, <1>3, <1>10, <1>16 DEF PagesApart
<1>21. OutOfSlabs(n)
  BY <1>2, <1>10 DEF OutOfSlabs
<1>22. SlabsIn(n, c) = {s} \cup SlabsIn(m, c)
  BY <1>3, <1>10, <1>16 DEF SlabsIn
<1>23. ASSUME NEW e \in DOMAIN m.caches, e # c PROVE Listed(n, e) /\ Counted(n, e)
  <2>1. SlabsIn(n, e) = SlabsIn(m, e)
    BY <1>3, <1>10, <1>16, <1>23 DEF SlabsIn
  <2>2. \A t \in SlabsIn(m, e) : n.slabs[t] = m.slabs[t]
    BY <1>10 DEF SlabsIn
  <2> QED BY <1>2, <1>10, <1>23, <2>1, <2>2, ListedKept
<1>24. Lists(k) = k.full /\ Lists(l) = <<s>> \o k.full
  BY <1>3, <1>4, <1>9, Together
<1>25. Range(k.full) = SlabsIn(m, c) /\ Once(k.full)
  BY <1>1, <1>2, <1>3, <1>24 DEF Listed
<1>26. Listed(n, c)
  <2>1. s \notin Range(k.full)
    BY <1>3, <1>25 DEF SlabsIn
  <2>2. Once(Lists(l)) /\ Range(Lists(l)) = SlabsIn(n, c)
    BY <1>3, <1>5, <1>22, <1>24, <1>25, <2>1, Prepend
  <2>3. \A t \in Range(k.full) : n.slabs[t].bsy = n.slabs[t].cnt
    BY <1>1, <1>2, <1>3, <1>10, <1>25 DEF Listed, SlabsIn
  <2>4. OpenSlab(n, l)
    BY <1>9, <1>10, <1>16 DEF OpenSlab
  <2> QED BY <1>9, <1>10, <2>2, <2>3, <2>4 DEF Listed
<1>27. Counted(n, c)
  <2>1. PICK a \in Nat, j \in Nat : a = Len(k.full) /\ j = k.nobjs
    BY <1>5
  <2>2. k.cnt = j * a /\ k.bsy = j * a + 0
    BY <1>1, <1>2, <1>3, <1>24, <2>1 DEF Counted
  <2>3. Len(Lists(l)) = a + 1
    BY <1>3, <1>5, <1>24, <2>1, Prepend
  <2>4. l.nobjs = j /\ l.cnt = j * a + j /\ l.bsy = j * a + 0
    BY <1>9, <2>1, <2>2 DEF Same
  <2>5. j * (a + 1) = j * a + j
    OBVIOUS
  <2>6. l.cnt = l.nobjs * Len(Lists(l))
    BY <2>3, <2>4, <2>5
  <2>7. l.bsy = l.nobjs * Len(l.full) + 0
    BY <1>9, <2>1, <2>4
  <2> QED BY <1>9, <1>10, <2>6, <2>7 DEF Counted
<1>28. Good(n)
  <2>1. \A t \in DOMAIN n.slabs : SlabRight(n, t)
    BY <1>10, <1>15, <1>19
  <2>2. \A e \in DOMAIN n.caches : Listed(n, e) /\ Counted(n, e)
    BY <1>10, <1>23, <1>26, <1>27
  <2> QED BY <1>10, <1>13, <1>14, <1>20, <1>21, <2>1, <2>2 DEF Good
<1>29. Gives(n, c, s) /\ ~Exhausted(n.caches[c])
  <2>1. <<s>> # << >> /\ Head(<<s>>) = s
    OBVIOUS
  <2>2. Candidate(l) = s /\ ~Exhausted(l)
    BY <1>9, <2>1 DEF Candidate, Exhausted
  <2> QED BY <1>7, <1>10, <1>16, <1>22, <2>2 DEF Gives
<1> QED BY <1>1, <1>3, <1>10, <1>12, <1>16, <1>28, <1>29

(* Where objects and slabs are.                                               *)
LEMMA OutLow ==
    ASSUME NEW m, Good(m), NEW o \in m.out
    PROVE  o.at[1] \in 1 .. m.blocks
BY DEF Good, OutOfSlabs, SlabRight

LEMMA KeysLow ==
    ASSUME NEW m, Good(m), NEW t \in DOMAIN m.slabs
    PROVE  t[1] \in 1 .. m.blocks
<1>1. SlabRight(m, t)
  BY DEF Good
<1>2. CASE OnSlab(m.caches[m.slabs[t].cache].osize)
  BY <1>1, <1>2 DEF SlabRight, Begins
<1>3. CASE ~OnSlab(m.caches[m.slabs[t].cache].osize)
  <2>1. PICK p : p = [cache |-> CacheSlab, at |-> t]
    OBVIOUS
  <2>2. p \in m.out /\ p.at = t
    BY <1>1, <1>3, <2>1 DEF SlabRight
  <2> QED BY <2>2, OutLow
<1> QED BY <1>2, <1>3

(* A slab that has not given all its objects has a free one.                  *)
LEMMA HasFree ==
    ASSUME NEW m, Good(m), NEW s \in DOMAIN m.slabs, m.slabs[s].bsy < m.slabs[s].cnt
    PROVE  m.slabs[s].free # << >>
<1>1. PICK r : r = m.slabs[s]
  OBVIOUS
<1>2. /\ r \in SlabRecord /\ r.bsy < r.cnt /\ r.cache \in DOMAIN m.caches
      /\ \E d \in 0 .. Block(MAX_ORDER) : Begins(m, s, d)
  BY <1>1 DEF Good, Typed, SlabRight
<1>3. PICK d \in 0 .. Block(MAX_ORDER) : Begins(m, s, d)
  BY <1>2
<1>4. PICK z : z = m.caches[r.cache].osize
  OBVIOUS
<1>5. r.free = Objects(r.cnt - r.bsy, r.page, d, z)
  BY <1>1, <1>3, <1>4 DEF Begins
<1>6. PICK w, b : w = r.cnt - r.bsy /\ b = r.page
  OBVIOUS
<1>7. w \in Nat /\ w # 0 /\ b \in Positive /\ d \in Nat
  BY <1>2, <1>3, <1>6 DEF SlabRecord
<1>8. z \in Positive
  <2>1. m.caches[r.cache] \in CacheRecord
    BY <1>2 DEF Good, Typed
  <2> QED BY <1>4, <2>1 DEF CacheRecord
<1>9. Objects(w, b, d, z) # << >>
  BY ONLY <1>7, <1>8, ObjectsFacts
<1> QED BY <1>1, <1>5, <1>6, <1>9

(* Memory n is m with a block more, for cache c.                              *)
Taken(m, n, c) ==
    /\ Good(n) /\ Frame(m, n, c)
    /\ n.slabs = m.slabs /\ n.out = m.out /\ n.blocks = m.blocks + 1
    /\ Fresh(n, m.blocks + 1)
    /\ Exhausted(n.caches[c]) <=> Exhausted(m.caches[c])

LEMMA TakeBlockGood ==
    ASSUME NEW m, Good(m), NEW c \in DOMAIN m.caches, NEW n, n = TakeBlock(m, c)
    PROVE  Taken(m, n, c)
<1>1. PICK k, x : k = m.caches[c] /\ x = NextColor(k)
  OBVIOUS
<1>2. PICK l : l = [k EXCEPT !.nxtcol = x]
  OBVIOUS
<1>3. /\ Typed(m)
      /\ \A e \in DOMAIN m.caches : Shaped(m.caches[e]) /\ Listed(m, e) /\ Counted(m, e)
      /\ \A t \in DOMAIN m.slabs : SlabRight(m, t)
      /\ PagesApart(m) /\ OutOfSlabs(m)
      /\ \A e \in DOMAIN m.caches :
            e \in {CA, CacheSlab, CacheBuf} => OnSlab(m.caches[e].osize)
  BY DEF Good
<1>4. /\ m.caches \in Seq(CacheRecord) /\ k \in CacheRecord /\ Shaped(k) /\ m.blocks \in Nat
      /\ DOMAIN m.caches = 1 .. Len(m.caches)
  <2>1. m.caches \in Seq(CacheRecord) /\ m.blocks \in Nat
    BY <1>3 DEF Typed
  <2>2. DOMAIN m.caches = 1 .. Len(m.caches)
    BY <2>1, LenProperties
  <2> QED BY <1>1, <1>3, <2>1, <2>2, ElementOfSeq
<1>5. x \in 0 .. k.colors - 1 /\ x \in Nat
  <2>1. PICK a \in Nat, b \in Nat : a = k.nxtcol /\ b = k.colors /\ a <= b - 1
    BY <1>4 DEF Shaped, CacheRecord, Positive
  <2>2. x = IF a + 1 >= b THEN 0 ELSE a + 1
    BY <1>1, <2>1 DEF NextColor
  <2> QED BY ONLY <2>1, <2>2
<1>6. /\ l \in CacheRecord /\ Same(k, l) /\ l.nxtcol = x /\ l.cnt = k.cnt /\ l.bsy = k.bsy
      /\ l.free = k.free /\ l.busy = k.busy /\ l.full = k.full
  BY ONLY <1>2, <1>4, <1>5 DEF CacheRecord, Same
<1>7. n = [m EXCEPT !.blocks = @ + 1, !.caches[c].nxtcol = x]
  BY <1>1 DEF TakeBlock
<1>8. n = [caches |-> [m.caches EXCEPT ![c] = l], slabs |-> m.slabs,
           blocks |-> m.blocks + 1, out |-> m.out]
  <2>1. PICK mc, ms, mb, mo : mc = m.caches /\ ms = m.slabs /\ mb = m.blocks /\ mo = m.out
    OBVIOUS
  <2>2. m = [caches |-> mc, slabs |-> ms, blocks |-> mb, out |-> mo]
    BY <1>3, <2>1 DEF Typed
  <2>3. n = [caches |-> [mc EXCEPT ![c].nxtcol = x], slabs |-> ms,
             blocks |-> mb + 1, out |-> mo]
    BY ONLY <1>7, <2>2
  <2>4. mc[c] = k /\ c \in DOMAIN mc
    BY <1>1, <2>1
  <2>5. [mc EXCEPT ![c].nxtcol = x] = [mc EXCEPT ![c] = l]
    BY ONLY <1>2, <1>4, <2>4
  <2> QED BY <2>1, <2>3, <2>5
<1>9. /\ n.caches = [m.caches EXCEPT ![c] = l]
      /\ n.slabs = m.slabs /\ n.out = m.out /\ n.blocks = m.blocks + 1
      /\ n = [caches |-> n.caches, slabs |-> n.slabs, blocks |-> n.blocks, out |-> n.out]
  BY <1>8
<1>10. /\ n.caches \in Seq(CacheRecord) /\ Len(n.caches) = Len(m.caches)
       /\ DOMAIN n.caches = DOMAIN m.caches /\ n.caches[c] = l
       /\ \A e \in DOMAIN m.caches : e # c => n.caches[e] = m.caches[e]
  BY <1>4, <1>6, <1>9, ExceptSeq
<1>11. Typed(n)
  <2>1. n.blocks \in Nat
    BY <1>4, <1>9
  <2> QED BY <1>3, <1>9, <1>10, <2>1 DEF Typed
<1>12. \A e \in DOMAIN m.caches : Same(m.caches[e], n.caches[e])
  BY <1>1, <1>6, <1>10 DEF Same
<1>13. Frame(m, n, c)
  BY <1>9, <1>10, <1>11, <1>12 DEF Frame
<1>14. \A e \in DOMAIN n.caches : Shaped(n.caches[e])
  <2>1. Shaped(l)
    BY <1>4, <1>5, <1>6, ShapedSame
  <2> QED BY <1>3, <1>10, <2>1
<1>15. \A e \in DOMAIN n.caches :
          e \in {CA, CacheSlab, CacheBuf} => OnSlab(n.caches[e].osize)
  BY <1>3, <1>10, <1>12 DEF Same
<1>16. ASSUME NEW t \in DOMAIN m.slabs PROVE SlabRight(n, t)
  <2>1. m.blocks <= n.blocks /\ m.blocks \in Nat /\ n.blocks \in Nat
    BY <1>4, <1>9
  <2> QED BY <1>3, <1>9, <1>10, <1>12, <2>1, SlabKept
<1>17. PagesApart(n) /\ OutOfSlabs(n) /\ \A e : SlabsIn(n, e) = SlabsIn(m, e)
  BY <1>3, <1>9 DEF PagesApart, OutOfSlabs, SlabsIn
<1>18. Listed(n, c) /\ Counted(n, c)
  <2>1. Lists(l) = Lists(k)
    BY <1>6 DEF Lists
  <2>2. OpenSlab(n, l) <=> OpenSlab(m, k)
    BY <1>6, <1>9 DEF OpenSlab
  <2>3. Listed(n, c)
    BY <1>1, <1>3, <1>6, <1>9, <1>10, <1>17, <2>1, <2>2 DEF Listed
  <2>4. l.nobjs = k.nobjs
    BY <1>6 DEF Same
  <2>5. Counted(n, c)
    BY <1>1, <1>3, <1>6, <1>9, <1>10, <2>1, <2>4 DEF Counted
  <2> QED BY <2>3, <2>5
<1>19. ASSUME NEW e \in DOMAIN m.caches, e # c PROVE Listed(n, e) /\ Counted(n, e)
  BY <1>3, <1>9, <1>10, <1>17, <1>19, ListedKept
<1>20. Good(n)
  BY <1>9, <1>10, <1>11, <1>14, <1>15, <1>16, <1>17, <1>18, <1>19 DEF Good
<1>21. Fresh(n, m.blocks + 1)
  <2>1. \A t \in DOMAIN m.slabs : m.slabs[t].page \in 1 .. m.blocks
    BY <1>3 DEF SlabRight
  <2> QED BY <1>4, <1>9, <2>1 DEF Fresh
<1>22. Exhausted(n.caches[c]) <=> Exhausted(m.caches[c])
  BY <1>1, <1>6, <1>10 DEF Exhausted
<1> QED BY <1>9, <1>13, <1>20, <1>21, <1>22 DEF Taken

(* Memory n is m with a new slab for cache c, at s.                           *)
Grew(m, n, c, s) ==
    /\ Good(n) /\ Frame(m, n, c)
    /\ n.out = m.out /\ n.blocks = m.blocks + 1
    /\ DOMAIN n.slabs = {s} \cup DOMAIN m.slabs /\ s \notin DOMAIN m.slabs
    /\ n.slabs[s].cache = c /\ n.slabs[s].page = m.blocks + 1
    /\ n.slabs[s].cnt = m.caches[c].nobjs
    /\ Gives(n, c, s) /\ ~Exhausted(n.caches[c])

LEMMA FrameTrans ==
    ASSUME NEW m, NEW n, NEW p, NEW c, Frame(m, n, c), Frame(n, p, c)
    PROVE  Frame(m, p, c)
BY DEF Frame, Same

(* The colour of a new small slab leaves room for its header and objects.     *)
LEMMA SmallFits ==
    ASSUME NEW k \in CacheRecord, Shaped(k), OnSlab(k.osize), NEW at, NEW data,
           at = k.offset * k.nxtcol,
           data = at + _slab_header_size(k.nobjs, k.align)
    PROVE  /\ at \in Nat /\ data \in Nat /\ data % k.align = 0
           /\ data + k.nobjs * k.osize <= Block(k.order)
           /\ at + SLAB + k.nobjs * BUF <= data
<1>1. PICK f, x, w, j, o, a :
        /\ f = k.offset /\ x = k.nxtcol /\ w = k.colors - 1 /\ j = k.nobjs
        /\ o = k.osize /\ a = k.align
  OBVIOUS
<1>2. /\ f \in Positive /\ x \in Nat /\ w \in Nat /\ j \in Nat /\ o \in Positive /\ a \in Positive
      /\ x <= w /\ f % a = 0
  <2>1. /\ f \in Positive /\ x \in Nat /\ k.colors \in Positive /\ j \in Positive
        /\ o \in Positive /\ a \in Positive
    BY <1>1 DEF CacheRecord
  <2>2. x \in 0 .. k.colors - 1 /\ f % a = 0
    BY <1>1 DEF Shaped
  <2>3. PICK y \in Positive : y = k.colors
    BY <2>1
  <2>4. x <= w /\ w \in Nat /\ j \in Nat
    BY <1>1, <2>1, <2>2, <2>3 DEF Positive
  <2> QED BY <2>1, <2>2, <2>4
<1>3. PICK h : h = _slab_header_size(j, a)
  OBVIOUS
<1>4. h \in Nat /\ h % a = 0 /\ SLAB + j * BUF <= h
  <2>1. j * BUF \in Nat /\ SLAB \in Nat
    BY <1>2, Sizes DEF Positive
  <2>2. PICK u \in Nat : u = SLAB + j * BUF
    BY <2>1
  <2>3. RoundUp(u, a) \in Nat /\ RoundUp(u, a) % a = 0 /\ u <= RoundUp(u, a)
    BY ONLY <1>2, RoundUpFacts
  <2> QED BY <1>3, <2>2, <2>3 DEF _slab_header_size
<1>5. f * w + h + j * o <= Block(k.order)
  BY <1>1, <1>3 DEF Shaped, Room
<1>6. at = f * x /\ data = at + h
  BY <1>1, <1>3
<1>7. at \in Nat /\ at <= f * w /\ f * w \in Nat
  BY <1>2, <1>6 DEF Positive
<1>8. at % a = 0
  <2>1. f \in Nat /\ f % a = 0 /\ x \in Nat /\ a \in Positive
    BY <1>2 DEF Positive
  <2>2. (x * f) % a = 0
    BY ONLY <2>1, Multiples
  <2> QED BY <1>6, <2>1, <2>2
<1>9. data \in Nat /\ data % a = 0
  BY <1>2, <1>4, <1>6, <1>7, <1>8, Multiples
<1>10. PICK p \in Nat, q \in Nat, r \in Nat, b \in Positive :
          p = j * o /\ q = j * BUF /\ r = f * w /\ b = Block(k.order)
  <2>1. k.order \in 0 .. MAX_ORDER
    BY Sizes DEF Shaped, Positive
  <2>2. j * o \in Nat /\ j * BUF \in Nat
    BY <1>2, Sizes DEF Positive
  <2> QED BY <1>7, <2>1, <2>2, BlockFacts
<1>11. data + p <= b /\ at + SLAB + q <= data
  BY <1>4, <1>5, <1>6, <1>7, <1>9, <1>10, Sizes DEF Positive
<1> QED BY <1>1, <1>7, <1>9, <1>10, <1>11

LEMMA GrowSmallGood ==
    ASSUME NEW m, Good(m), NEW c \in DOMAIN m.caches,
           OnSlab(m.caches[c].osize), Exhausted(m.caches[c]),
           NEW n, n = _slab_grow_small(m, c)
    PROVE  \E s : s[1] = m.blocks + 1 /\ Grew(m, n, c, s)
<1>1. PICK k, b, p : k = m.caches[c] /\ b = m.blocks + 1 /\ p = TakeBlock(m, c)
  OBVIOUS
<1>2. PICK at, data : /\ at = k.offset * k.nxtcol
                      /\ data = at + _slab_header_size(k.nobjs, k.align)
  OBVIOUS
<1>3. PICK s : s = <<b, at>>
  OBVIOUS
<1>4. n = AddSlab(p, c, s, b, data)
  BY <1>1, <1>2, <1>3 DEF _slab_grow_small
<1>5. k \in CacheRecord /\ Shaped(k) /\ m.blocks \in Nat /\ OnSlab(k.osize)
  BY <1>1 DEF Good, Typed
<1>6. /\ at \in Nat /\ data \in Nat /\ data % k.align = 0
      /\ data + k.nobjs * k.osize <= Block(k.order)
      /\ at + SLAB + k.nobjs * BUF <= data
  BY ONLY <1>2, <1>5, SmallFits
<1>7. Taken(m, p, c)
  BY <1>1, TakeBlockGood
<1>8. /\ Good(p) /\ Frame(m, p, c) /\ p.slabs = m.slabs /\ p.out = m.out
      /\ p.blocks = b /\ Fresh(p, b) /\ Exhausted(p.caches[c])
  BY <1>1, <1>7 DEF Taken
<1>9. Same(k, p.caches[c]) /\ c \in DOMAIN p.caches
  BY <1>1, <1>8 DEF Frame
<1>10. s \in Address /\ s \notin DOMAIN m.slabs /\ s[1] = b /\ s[2] = at
  <2>1. b \in Positive
    BY <1>1, <1>5 DEF Positive
  <2>2. s \in Address
    BY <1>3, <1>6, <2>1 DEF Address
  <2>3. ASSUME s \in DOMAIN m.slabs PROVE FALSE
    <3>1. s[1] \in 1 .. m.blocks
      BY <2>3, KeysLow
    <3> QED BY <1>1, <1>3, <1>5, <3>1
  <2> QED BY <1>3, <2>2, <2>3
<1>11. Fits(p, c, s, b, data)
  BY <1>5, <1>6, <1>8, <1>9, <1>10 DEF Fits, Same
<1>12. /\ Good(n) /\ Frame(p, n, c) /\ n.blocks = p.blocks /\ n.out = p.out
       /\ DOMAIN n.slabs = {s} \cup DOMAIN p.slabs /\ s \notin DOMAIN p.slabs
       /\ n.slabs[s].cache = c /\ n.slabs[s].cnt = p.caches[c].nobjs
       /\ n.slabs[s].page = b
       /\ Gives(n, c, s) /\ ~Exhausted(n.caches[c])
  BY ONLY <1>4, <1>8, <1>11, AddSlabGood
<1>13. Frame(m, n, c)
  BY ONLY <1>8, <1>12, FrameTrans
<1>14. p.caches[c].nobjs = m.caches[c].nobjs
  BY <1>1, <1>9 DEF Same
<1>15. Grew(m, n, c, s)
  BY <1>1, <1>8, <1>12, <1>13, <1>14 DEF Grew
<1> QED BY <1>1, <1>10, <1>15

(* Memory n is m once a cache c of small objects has given o: it has taken a  *)
(* block for a slab at most.                                                  *)
Gave(m, n, c, o) ==
    /\ Good(n) /\ Frame(m, n, c)
    /\ o \in Object /\ o.cache = c /\ o \notin m.out /\ o.at \notin DOMAIN n.slabs
    /\ n.out = m.out \cup {o}
    /\ n.blocks \in m.blocks .. m.blocks + 1
    /\ \A t \in DOMAIN n.slabs \ DOMAIN m.slabs :
        n.slabs[t].cache = c /\ n.slabs[t].page = m.blocks + 1 /\ t[1] = m.blocks + 1

LEMMA DetachGave ==
    ASSUME NEW m, Good(m), NEW c \in DOMAIN m.caches, NEW s, Gives(m, c, s),
           ~Exhausted(m.caches[c]), NEW o, o = Handed(c, m.slabs[s]),
           NEW n, n = Detach(m, c)
    PROVE  Gave(m, n, c, o) /\ DOMAIN n.slabs = DOMAIN m.slabs /\ n.blocks = m.blocks
<1>1. /\ Good(n) /\ Frame(m, n, c)
      /\ DOMAIN n.slabs = DOMAIN m.slabs /\ n.blocks = m.blocks
      /\ n.out = m.out \cup {o}
  BY DetachGood
<1>2. PICK r, k, q : r = m.slabs[s] /\ k = m.caches[c] /\ q = After(r)
  OBVIOUS
<1>3. GivesNew(m, c, s, r, k, q, o)
  <2>1. o = Handed(c, r) /\ Good(m) /\ c \in DOMAIN m.caches /\ Gives(m, c, s)
    BY <1>2
  <2> QED BY ONLY <1>2, <2>1, NextIsNew
<1>4. o \in Object /\ o \notin m.out /\ o.at \notin DOMAIN n.slabs /\ o.cache = c
  BY <1>1, <1>3 DEF GivesNew, Handed
<1>5. m.blocks \in Nat
  BY DEF Good, Typed
<1> QED BY <1>1, <1>4, <1>5 DEF Gave

(* The slab that a cache of small objects gives from next.                    *)
LEMMA SmallGives ==
    ASSUME NEW m, Good(m), NEW c \in DOMAIN m.caches,
           OnSlab(m.caches[c].osize), ~Exhausted(m.caches[c])
    PROVE  Gives(m, c, Candidate(m.caches[c]))
<1>1. PICK k, s : k = m.caches[c] /\ s = Candidate(k)
  OBVIOUS
<1>2. Typed(m) /\ Listed(m, c) /\ k \in CacheRecord /\ k.nobjs >= 2 /\ k.nobjs \in Nat
  <2>1. Typed(m) /\ Listed(m, c) /\ Shaped(k) /\ k \in CacheRecord /\ OnSlab(k.osize)
    BY <1>1 DEF Good, Typed
  <2> QED BY <2>1 DEF Shaped, CacheRecord, Positive
<1>3. /\ s \in DOMAIN m.slabs /\ s \in SlabsIn(m, c)
      /\ \/ m.slabs[s].bsy = 0
         \/ m.slabs[s].bsy < m.slabs[s].cnt
         \/ m.slabs[s].cnt = 1
  BY <1>1, <1>2, CandidateIs
<1>4. m.slabs[s].cnt = k.nobjs
  BY <1>1, <1>3 DEF Good, SlabRight, SlabsIn
<1>5. m.slabs[s].bsy < m.slabs[s].cnt
  BY <1>2, <1>3, <1>4
<1> QED BY <1>1, <1>3, <1>5, HasFree DEF Gives

LEMMA AllocateSmallGave ==
    ASSUME NEW m, Good(m), NEW c \in DOMAIN m.caches, OnSlab(m.caches[c].osize),
           NEW o, o = [cache |-> c, at |-> NextObject(m, c)],
           NEW n, n = AllocateSmall(m, c)
    PROVE  Gave(m, n, c, o)
<1>1. CASE ~Exhausted(m.caches[c])
  <2>1. PICK s : s = Candidate(m.caches[c])
    OBVIOUS
  <2>2. Gives(m, c, s)
    BY <1>1, <2>1, SmallGives
  <2>3. o = Handed(c, m.slabs[s]) /\ n = Detach(m, c)
    BY <1>1, <2>1 DEF Handed, NextObject, AllocateSmall
  <2> QED BY <1>1, <2>2, <2>3, DetachGave
<1>2. CASE Exhausted(m.caches[c])
  <2>1. PICK g : g = _slab_grow_small(m, c)
    OBVIOUS
  <2>2. PICK s : s[1] = m.blocks + 1 /\ Grew(m, g, c, s)
    BY <1>2, <2>1, GrowSmallGood
  <2>3. /\ Good(g) /\ Frame(m, g, c) /\ g.out = m.out /\ g.blocks = m.blocks + 1
        /\ DOMAIN g.slabs = {s} \cup DOMAIN m.slabs /\ s \notin DOMAIN m.slabs
        /\ g.slabs[s].cache = c /\ g.slabs[s].page = m.blocks + 1
        /\ Gives(g, c, s) /\ ~Exhausted(g.caches[c])
    BY <2>2 DEF Grew
  <2>4. c \in DOMAIN g.caches /\ s = Candidate(g.caches[c]) /\ m.blocks \in Nat
    BY <2>3 DEF Frame, Gives, Good, Typed
  <2>5. o = Handed(c, g.slabs[s]) /\ n = Detach(g, c)
    BY <1>2, <2>1, <2>4 DEF Handed, NextObject, AllocateSmall
  <2>6. Gave(g, n, c, o) /\ DOMAIN n.slabs = DOMAIN g.slabs /\ n.blocks = g.blocks
    BY ONLY <2>3, <2>4, <2>5, DetachGave
  <2>7. /\ Good(n) /\ Frame(g, n, c)
        /\ o \in Object /\ o.cache = c /\ o \notin m.out /\ o.at \notin DOMAIN n.slabs
        /\ n.out = m.out \cup {o} /\ n.blocks = m.blocks + 1
    BY <2>3, <2>6 DEF Gave
  <2>8. Frame(m, n, c)
    BY ONLY <2>3, <2>7, FrameTrans
  <2>9. \A t \in DOMAIN n.slabs \ DOMAIN m.slabs :
          n.slabs[t].cache = c /\ n.slabs[t].page = m.blocks + 1 /\ t[1] = m.blocks + 1
    BY <2>2, <2>3, <2>6, <2>7 DEF Frame
  <2>10. n.blocks \in m.blocks .. m.blocks + 1
    BY <2>4, <2>7
  <2> QED BY <2>7, <2>8, <2>9, <2>10 DEF Gave
<1> QED BY <1>1, <1>2

(* A cache of small objects that gives one leaves the slabs of large objects  *)
(* as they are, and takes no block that was taken.                            *)
GaveMore(m, n, c, o) ==
    /\ LargeIn(n) = LargeIn(m) /\ BufsFor(n) = BufsFor(m)
    /\ OutFrom(n, c) = OutFrom(m, c) \cup {o}
    /\ \A e : e # c => OutFrom(n, e) = OutFrom(m, e)
    /\ IsFiniteSet(OutFrom(m, c))
    /\ Cardinality(OutFrom(n, c)) = Cardinality(OutFrom(m, c)) + 1
    /\ \A b : Fresh(m, b) => Fresh(n, b)

LEMMA GaveBalance ==
    ASSUME NEW m, Good(m), NEW n, NEW c \in DOMAIN m.caches, OnSlab(m.caches[c].osize),
           NEW o, Gave(m, n, c, o)
    PROVE  GaveMore(m, n, c, o)
<1>1. /\ Frame(m, n, c) /\ o.cache = c /\ o \notin m.out /\ n.out = m.out \cup {o}
      /\ n.blocks \in m.blocks .. m.blocks + 1 /\ Typed(m)
      /\ \A t \in DOMAIN n.slabs \ DOMAIN m.slabs :
            n.slabs[t].cache = c /\ n.slabs[t].page = m.blocks + 1
  BY DEF Gave, Good
<1>2. /\ \A t \in DOMAIN m.slabs : /\ t \in DOMAIN n.slabs
                                   /\ n.slabs[t].cache = m.slabs[t].cache
                                   /\ n.slabs[t].page = m.slabs[t].page
                                   /\ n.slabs[t].cnt = m.slabs[t].cnt
      /\ \A e \in DOMAIN m.caches : n.caches[e].osize = m.caches[e].osize
  BY <1>1 DEF Frame, Same
<1>3. \A t \in DOMAIN m.slabs : m.slabs[t].cache \in DOMAIN m.caches
  BY DEF Good, SlabRight
<1>4. LargeIn(n) = LargeIn(m) /\ LargeIn(m) \subseteq DOMAIN m.slabs
  BY <1>1, <1>2, <1>3 DEF LargeIn
<1>5. BufsFor(n) = BufsFor(m)
  BY <1>2, <1>4 DEF BufsFor
<1>6. OutFrom(n, c) = OutFrom(m, c) \cup {o} /\ o \notin OutFrom(m, c)
  BY <1>1 DEF OutFrom
<1>7. \A e : e # c => OutFrom(n, e) = OutFrom(m, e)
  BY <1>1 DEF OutFrom
<1>8. IsFiniteSet(OutFrom(m, c))
  <2>1. IsFiniteSet(m.out) /\ OutFrom(m, c) \subseteq m.out
    BY <1>1 DEF Typed, OutFrom
  <2> QED BY <2>1, FS_Subset
<1>9. Cardinality(OutFrom(n, c)) = Cardinality(OutFrom(m, c)) + 1
  BY <1>6, <1>8, FS_AddElement
<1>10. ASSUME NEW b, Fresh(m, b) PROVE Fresh(n, b)
  <2>1. b \in 1 .. m.blocks /\ \A t \in DOMAIN m.slabs : m.slabs[t].page # b
    BY <1>10 DEF Fresh
  <2>2. m.blocks \in Nat
    BY <1>1 DEF Typed
  <2> QED BY <1>1, <1>2, <2>1, <2>2 DEF Fresh
<1> QED BY <1>4, <1>5, <1>6, <1>7, <1>8, <1>9, <1>10 DEF GaveMore

-------------------------------------------------------------------------------
(* The growth of a cache of large objects.                                    *)

(* The memories t in which a slab_t and then n buf_t have been taken.         *)
IsSteps(t, m, n) ==
    t = [i \in 0 .. n |-> IF i = 0 THEN AllocateSmall(m, CacheSlab)
                          ELSE AllocateSmall(t[i - 1], CacheBuf)]

LEMMA StepsExist ==
    ASSUME NEW m, NEW n \in Nat
    PROVE  \E t : IsSteps(t, m, n)
<1> DEFINE Bad == {i \in Nat : ~\E t : IsSteps(t, m, i)}
<1>1. SUFFICES ASSUME Bad # {} PROVE FALSE
  OBVIOUS
<1>2. PICK j \in Bad : \A i \in Bad : j <= i
  <2>1. Bad \in SUBSET Nat
    OBVIOUS
  <2> HIDE DEF Bad
  <2> QED BY <1>1, <2>1, LeastNat
<1>3. j \in Nat /\ ~\E t : IsSteps(t, m, j)
  OBVIOUS
<1>4. CASE j = 0
  <2>1. PICK t : t = [i \in 0 .. 0 |-> AllocateSmall(m, CacheSlab)]
    OBVIOUS
  <2>2. IsSteps(t, m, 0)
    BY <2>1 DEF IsSteps
  <2> QED BY <1>3, <1>4, <2>2
<1>5. CASE j # 0
  <2>1. j - 1 \in Nat /\ j - 1 \notin Bad
    BY <1>2, <1>3, <1>5
  <2>2. PICK t : IsSteps(t, m, j - 1)
    BY <2>1
  <2>3. \A i \in 0 .. j - 1 : t[i] = IF i = 0 THEN AllocateSmall(m, CacheSlab)
                                     ELSE AllocateSmall(t[i - 1], CacheBuf)
    BY <2>2 DEF IsSteps
  <2>4. PICK u : u = [i \in 0 .. j |-> IF i = j THEN AllocateSmall(t[j - 1], CacheBuf)
                                       ELSE t[i]]
    OBVIOUS
  <2>5. \A i \in 0 .. j - 1 : u[i] = t[i] /\ i \in 0 .. j /\ i # j
    BY <1>3, <2>4
  <2>6. ASSUME NEW i \in 0 .. j
        PROVE  u[i] = IF i = 0 THEN AllocateSmall(m, CacheSlab)
                      ELSE AllocateSmall(u[i - 1], CacheBuf)
    <3>1. CASE i = j
      <4>1. u[i] = AllocateSmall(t[j - 1], CacheBuf)
        BY <2>4, <3>1
      <4>2. u[j - 1] = t[j - 1]
        BY <2>1, <2>5
      <4> QED BY <1>5, <3>1, <4>1, <4>2
    <3>2. CASE i = 0
      BY <1>3, <1>5, <2>1, <2>3, <2>5, <3>2
    <3>3. CASE i # j /\ i # 0
      <4>1. i \in 0 .. j - 1 /\ i - 1 \in 0 .. j - 1
        BY <1>3, <3>3
      <4> QED BY <2>3, <2>5, <3>3, <4>1
    <3> QED BY <3>1, <3>2, <3>3
  <2>7. u = [i \in 0 .. j |-> IF i = 0 THEN AllocateSmall(m, CacheSlab)
                              ELSE AllocateSmall(u[i - 1], CacheBuf)]
    <3>1. u = [i \in 0 .. j |-> u[i]]
      BY <2>4
    <3> QED BY <2>6, <3>1
  <2>8. IsSteps(u, m, j)
    BY <2>7 DEF IsSteps
  <2> QED BY <1>3, <2>8
<1> QED BY <1>4, <1>5

LEMMA GrowLargeIs ==
    ASSUME NEW m, NEW c, NEW k, k = m.caches[c], k.nobjs \in Nat,
           NEW p, p = TakeBlock(m, c)
    PROVE  \E t : /\ IsSteps(t, p, k.nobjs)
                  /\ _slab_grow_large(m, c) =
                        AddSlab(t[k.nobjs], c, NextObject(p, CacheSlab), m.blocks + 1,
                                k.offset * k.nxtcol)
<1>1. PICK u : IsSteps(u, p, k.nobjs)
  BY StepsExist
<1> DEFINE step == CHOOSE t : t = [i \in 0 .. k.nobjs |->
                       IF i = 0 THEN AllocateSmall(p, CacheSlab)
                       ELSE LET prev == t[i - 1] IN AllocateSmall(prev, CacheBuf)]
<1>2. step = [i \in 0 .. k.nobjs |->
                       IF i = 0 THEN AllocateSmall(p, CacheSlab)
                       ELSE LET prev == step[i - 1] IN AllocateSmall(prev, CacheBuf)]
  <2>1. \E t : t = [i \in 0 .. k.nobjs |->
                       IF i = 0 THEN AllocateSmall(p, CacheSlab)
                       ELSE LET prev == t[i - 1] IN AllocateSmall(prev, CacheBuf)]
    BY <1>1 DEF IsSteps
  <2> QED BY <2>1
<1>3. IsSteps(step, p, k.nobjs)
  BY <1>2 DEF IsSteps
<1>4. _slab_grow_large(m, c) =
          AddSlab(step[k.nobjs], c, NextObject(p, CacheSlab), m.blocks + 1,
                  k.offset * k.nxtcol)
  BY DEF _slab_grow_large
<1> QED BY <1>3, <1>4

(* Memory q is p once the slab_t at s and then i buf_t have been taken for    *)
(* cache c of large objects, whose new slab will be in block b.               *)
Along(p, q, c, s, b, i) ==
    /\ Good(q) /\ Fresh(q, b)
    /\ DOMAIN q.caches = DOMAIN p.caches /\ Len(q.caches) = Len(p.caches)
    /\ \A e \in DOMAIN p.caches : Same(p.caches[e], q.caches[e])
    /\ q.caches[c] = p.caches[c]
    /\ [cache |-> CacheSlab, at |-> s] \in q.out /\ s \in Address /\ s \notin DOMAIN q.slabs
    /\ LargeIn(q) = LargeIn(p) /\ BufsFor(q) = BufsFor(p)
    /\ OutFrom(q, CacheSlab) = OutFrom(p, CacheSlab) \cup {[cache |-> CacheSlab, at |-> s]}
    /\ Cardinality(OutFrom(q, CacheBuf)) = Cardinality(OutFrom(p, CacheBuf)) + i
    /\ \A e : e \notin {CacheSlab, CacheBuf} => OutFrom(q, e) = OutFrom(p, e)

LEMMA AlongFirst ==
    ASSUME NEW p, Good(p), Len(p.caches) >= 3, NEW c \in DOMAIN p.caches, c > CacheBuf,
           NEW b, Fresh(p, b), NEW s, s = NextObject(p, CacheSlab),
           NEW q, q = AllocateSmall(p, CacheSlab)
    PROVE  Along(p, q, c, s, b, 0)
<1>1. PICK o : o = [cache |-> CacheSlab, at |-> s]
  OBVIOUS
<1>2. CacheSlab \in DOMAIN p.caches /\ OnSlab(p.caches[CacheSlab].osize) /\ c # CacheSlab
  <2>1. DOMAIN p.caches = 1 .. Len(p.caches) /\ Len(p.caches) \in Nat
    BY LenProperties DEF Good, Typed
  <2>2. CacheSlab \in DOMAIN p.caches
    BY <2>1 DEF CacheSlab
  <2> QED BY <2>1, <2>2 DEF Good, CacheSlab, CacheBuf
<1>3. Gave(p, q, CacheSlab, o)
  BY <1>1, <1>2, AllocateSmallGave
<1>4. /\ LargeIn(q) = LargeIn(p) /\ BufsFor(q) = BufsFor(p)
      /\ OutFrom(q, CacheSlab) = OutFrom(p, CacheSlab) \cup {o}
      /\ \A e : e # CacheSlab => OutFrom(q, e) = OutFrom(p, e)
      /\ Fresh(q, b)
  <2>1. Good(p) /\ Fresh(p, b)
    OBVIOUS
  <2>2. GaveMore(p, q, CacheSlab, o)
    BY ONLY <1>2, <1>3, <2>1, GaveBalance
  <2> QED BY <2>1, <2>2 DEF GaveMore
<1>5. /\ Good(q) /\ Frame(p, q, CacheSlab)
      /\ o \in Object /\ o.at \notin DOMAIN q.slabs /\ q.out = p.out \cup {o}
  BY <1>3 DEF Gave
<1>6. /\ DOMAIN q.caches = DOMAIN p.caches /\ Len(q.caches) = Len(p.caches)
      /\ \A e \in DOMAIN p.caches : Same(p.caches[e], q.caches[e])
      /\ q.caches[c] = p.caches[c]
  BY <1>2, <1>5 DEF Frame
<1>7. o \in q.out /\ s \in Address /\ s \notin DOMAIN q.slabs
  BY <1>1, <1>5 DEF Object
<1>8. OutFrom(q, CacheBuf) = OutFrom(p, CacheBuf)
  BY <1>4 DEF CacheSlab, CacheBuf
<1>9. Cardinality(OutFrom(p, CacheBuf)) \in Nat
  <2>1. IsFiniteSet(p.out) /\ OutFrom(p, CacheBuf) \subseteq p.out
    BY DEF Good, Typed, OutFrom
  <2> QED BY <2>1, FS_Subset, FS_CardinalityType
<1>10. Cardinality(OutFrom(q, CacheBuf)) = Cardinality(OutFrom(p, CacheBuf)) + 0
  BY <1>8, <1>9
<1> QED BY <1>1, <1>4, <1>5, <1>6, <1>7, <1>10 DEF Along

LEMMA AlongNext ==
    ASSUME NEW p, NEW q, NEW c, c > CacheBuf, NEW b, NEW s, NEW i \in Nat,
           Len(p.caches) >= 3, c \in DOMAIN p.caches, Along(p, q, c, s, b, i),
           IsFiniteSet(p.out), NEW n, n = AllocateSmall(q, CacheBuf)
    PROVE  Along(p, n, c, s, b, i + 1)
<1>1. PICK o : o = [cache |-> CacheBuf, at |-> NextObject(q, CacheBuf)]
  OBVIOUS
<1>2. PICK a : a = [cache |-> CacheSlab, at |-> s]
  OBVIOUS
<1>3. /\ Good(q) /\ Fresh(q, b)
      /\ DOMAIN q.caches = DOMAIN p.caches /\ Len(q.caches) = Len(p.caches)
      /\ \A e \in DOMAIN p.caches : Same(p.caches[e], q.caches[e])
      /\ q.caches[c] = p.caches[c]
      /\ a \in q.out /\ s \in Address /\ s \notin DOMAIN q.slabs
      /\ LargeIn(q) = LargeIn(p) /\ BufsFor(q) = BufsFor(p)
      /\ OutFrom(q, CacheSlab) = OutFrom(p, CacheSlab) \cup {a}
      /\ Cardinality(OutFrom(q, CacheBuf)) = Cardinality(OutFrom(p, CacheBuf)) + i
      /\ \A e : e \notin {CacheSlab, CacheBuf} => OutFrom(q, e) = OutFrom(p, e)
  BY <1>2 DEF Along
<1>4. /\ CacheBuf \in DOMAIN q.caches /\ OnSlab(q.caches[CacheBuf].osize) /\ c # CacheBuf
      /\ c \in DOMAIN q.caches
  <2>1. DOMAIN q.caches = 1 .. Len(q.caches) /\ Len(q.caches) \in Nat
    BY <1>3, LenProperties DEF Good, Typed
  <2>2. CacheBuf \in DOMAIN q.caches
    BY <1>3, <2>1 DEF CacheBuf
  <2> QED BY <1>3, <2>1, <2>2 DEF Good, CacheBuf
<1>5. Gave(q, n, CacheBuf, o)
  BY <1>1, <1>3, <1>4, AllocateSmallGave
<1>6. /\ LargeIn(n) = LargeIn(q) /\ BufsFor(n) = BufsFor(q)
      /\ \A e : e # CacheBuf => OutFrom(n, e) = OutFrom(q, e)
      /\ Cardinality(OutFrom(n, CacheBuf)) = Cardinality(OutFrom(q, CacheBuf)) + 1
      /\ Fresh(n, b)
  <2>1. GaveMore(q, n, CacheBuf, o)
    BY ONLY <1>3, <1>4, <1>5, GaveBalance
  <2> QED BY <1>3, <2>1 DEF GaveMore
<1>7. /\ Good(n) /\ Frame(q, n, CacheBuf) /\ n.out = q.out \cup {o}
      /\ \A t \in DOMAIN n.slabs \ DOMAIN q.slabs : t[1] = q.blocks + 1
  BY <1>5 DEF Gave
<1>8. /\ DOMAIN n.caches = DOMAIN p.caches /\ Len(n.caches) = Len(p.caches)
      /\ \A e \in DOMAIN p.caches : Same(q.caches[e], n.caches[e])
      /\ n.caches[c] = p.caches[c]
  BY <1>3, <1>4, <1>7 DEF Frame
<1>9. \A e \in DOMAIN p.caches : Same(p.caches[e], n.caches[e])
  BY <1>3, <1>8 DEF Same
<1>10. a \in n.out /\ s \notin DOMAIN n.slabs
  <2>1. a.at[1] \in 1 .. q.blocks /\ q.blocks \in Nat
    BY <1>3, OutLow DEF Good, Typed
  <2>2. s[1] # q.blocks + 1
    BY <1>2, <2>1
  <2> QED BY <1>3, <1>7, <2>2
<1>11. Cardinality(OutFrom(p, CacheBuf)) \in Nat
  <2>1. OutFrom(p, CacheBuf) \subseteq p.out
    BY DEF OutFrom
  <2> QED BY <2>1, FS_Subset, FS_CardinalityType
<1>12. Cardinality(OutFrom(n, CacheBuf)) = Cardinality(OutFrom(p, CacheBuf)) + (i + 1)
  BY <1>3, <1>6, <1>11
<1>13. OutFrom(n, CacheSlab) = OutFrom(p, CacheSlab) \cup {a}
  BY <1>3, <1>6 DEF CacheSlab, CacheBuf
<1>14. \A e : e \notin {CacheSlab, CacheBuf} => OutFrom(n, e) = OutFrom(p, e)
  BY <1>3, <1>6
<1> QED BY <1>2, <1>3, <1>6, <1>7, <1>8, <1>9, <1>10, <1>12, <1>13, <1>14 DEF Along

LEMMA AlongSteps ==
    ASSUME NEW p, Good(p), Len(p.caches) >= 3, NEW c \in DOMAIN p.caches, c > CacheBuf,
           NEW b, Fresh(p, b), NEW s, s = NextObject(p, CacheSlab),
           NEW n \in Nat, NEW t, IsSteps(t, p, n)
    PROVE  Along(p, t[n], c, s, b, n)
<1> DEFINE Bad == {i \in 0 .. n : ~Along(p, t[i], c, s, b, i)}
<1>1. SUFFICES ASSUME Bad # {} PROVE FALSE
  BY n \in 0 .. n
<1>2. PICK j \in Bad : \A i \in Bad : j <= i
  <2>1. Bad \in SUBSET Nat
    OBVIOUS
  <2> HIDE DEF Bad
  <2> QED BY <1>1, <2>1, LeastNat
<1>3. j \in 0 .. n /\ ~Along(p, t[j], c, s, b, j)
  OBVIOUS
<1>4. t[j] = IF j = 0 THEN AllocateSmall(p, CacheSlab)
             ELSE AllocateSmall(t[j - 1], CacheBuf)
  BY <1>3 DEF IsSteps
<1>5. CASE j = 0
  BY <1>3, <1>4, <1>5, AlongFirst
<1>6. CASE j # 0
  <2>1. j - 1 \in 0 .. n /\ j - 1 \notin Bad
    BY <1>2, <1>3, <1>6
  <2>0. PICK i \in Nat : i = j - 1 /\ j = i + 1
    BY <1>3, <2>1
  <2>2. PICK q : i = j - 1 /\ q = t[j - 1] /\ j = i + 1
    BY <2>0
  <2>3. Along(p, q, c, s, b, i)
    BY <2>1, <2>2
  <2>4. IsFiniteSet(p.out)
    BY DEF Good, Typed
  <2>5. t[j] = AllocateSmall(q, CacheBuf)
    BY <1>4, <1>6, <2>2
  <2>6. Along(p, t[j], c, s, b, i + 1)
    BY <2>3, <2>4, <2>5, AlongNext
  <2> QED BY <1>3, <2>2, <2>6
<1> QED BY <1>5, <1>6

(* The colour of a new large slab leaves room for its objects.                *)
LEMMA LargeFits ==
    ASSUME NEW k \in CacheRecord, Shaped(k), ~OnSlab(k.osize), NEW data,
           data = k.offset * k.nxtcol
    PROVE  /\ data \in Nat /\ data % k.align = 0
           /\ data + k.nobjs * k.osize <= Block(k.order)
<1>1. PICK f, x, w, j, o, a :
        /\ f = k.offset /\ x = k.nxtcol /\ w = k.colors - 1 /\ j = k.nobjs
        /\ o = k.osize /\ a = k.align
  OBVIOUS
<1>2. /\ f \in Positive /\ x \in Nat /\ w \in Nat /\ j \in Positive /\ o \in Positive
      /\ a \in Positive /\ x <= w /\ f % a = 0
  <2>1. /\ f \in Positive /\ x \in Nat /\ k.colors \in Positive /\ j \in Positive
        /\ o \in Positive /\ a \in Positive
    BY <1>1 DEF CacheRecord
  <2>2. x \in 0 .. k.colors - 1 /\ f % a = 0
    BY <1>1 DEF Shaped
  <2>3. PICK y \in Positive : y = k.colors
    BY <2>1
  <2>4. x <= w /\ w \in Nat
    BY <1>1, <2>1, <2>2, <2>3 DEF Positive
  <2> QED BY <2>1, <2>2, <2>4
<1>3. f * w + 0 + j * o <= Block(k.order)
  BY <1>1 DEF Shaped, Room
<1>4. data = f * x /\ data \in Nat /\ data <= f * w /\ f * w \in Nat
  <2>1. data = f * x
    BY <1>1
  <2> QED BY <1>2, <2>1 DEF Positive
<1>5. data % a = 0
  <2>1. f \in Nat /\ f % a = 0 /\ x \in Nat /\ a \in Positive
    BY <1>2 DEF Positive
  <2>2. (x * f) % a = 0
    BY ONLY <2>1, Multiples
  <2> QED BY <1>4, <2>1, <2>2
<1>6. PICK p \in Nat, r \in Nat, b \in Positive :
          p = j * o /\ r = f * w /\ b = Block(k.order)
  <2>1. k.order \in 0 .. MAX_ORDER
    BY Sizes DEF Shaped, Positive
  <2>2. j * o \in Nat
    BY <1>2 DEF Positive
  <2> QED BY <1>4, <2>1, <2>2, BlockFacts
<1>7. data + p <= b
  BY <1>3, <1>4, <1>6 DEF Positive
<1> QED BY <1>1, <1>4, <1>5, <1>6, <1>7

(* Memory n is m with a slab more for cache c, and with what that took from   *)
(* the allocator's own caches: c has an object to give.                       *)
Readied(m, n, c) ==
    /\ Good(n) /\ Balanced(n)
    /\ DOMAIN n.caches = DOMAIN m.caches /\ Len(n.caches) = Len(m.caches)
    /\ \A e \in DOMAIN m.caches : Same(m.caches[e], n.caches[e])
    /\ \A e : e \notin {CacheSlab, CacheBuf} => OutFrom(n, e) = OutFrom(m, e)
    /\ \E s : Gives(n, c, s)
    /\ ~Exhausted(n.caches[c])

(* A new slab of large objects needs a slab_t and a buf_t for each object.    *)
LEMMA LargeMore ==
    ASSUME NEW q, Good(q), IsFiniteSet(BufsFor(q)), NEW c \in DOMAIN q.caches,
           ~OnSlab(q.caches[c].osize), NEW s, s \notin DOMAIN q.slabs, NEW n,
           Frame(q, n, c), DOMAIN n.slabs = {s} \cup DOMAIN q.slabs,
           n.slabs[s].cache = c, NEW j \in Nat, n.slabs[s].cnt = j
    PROVE  /\ LargeIn(n) = LargeIn(q) \cup {s}
           /\ IsFiniteSet(BufsFor(n))
           /\ Cardinality(BufsFor(n)) = Cardinality(BufsFor(q)) + j
<1>1. /\ \A t \in DOMAIN q.slabs : /\ n.slabs[t].cache = q.slabs[t].cache
                                   /\ n.slabs[t].cnt = q.slabs[t].cnt
                                   /\ q.slabs[t].cache \in DOMAIN q.caches
      /\ \A e \in DOMAIN q.caches : n.caches[e].osize = q.caches[e].osize
  BY DEF Frame, Same, Good, SlabRight
<1>2. LargeIn(n) = LargeIn(q) \cup {s} /\ LargeIn(q) \subseteq DOMAIN q.slabs
  BY <1>1 DEF LargeIn
<1> DEFINE more == {s} \X (1 .. j)
<1>3. BufsFor(n) = BufsFor(q) \cup more
  BY <1>1, <1>2 DEF BufsFor
<1>4. BufsFor(q) \cap more = {}
  BY <1>2 DEF BufsFor
<1>5. IsFiniteSet(more) /\ Cardinality(more) = j
  <2>1. IsFiniteSet({s}) /\ Cardinality({s}) = 1
    BY FS_Singleton
  <2>2. 1 \in Int /\ j \in Int
    OBVIOUS
  <2>3. IsFiniteSet(1 .. j) /\ Cardinality(1 .. j) = IF 1 > j THEN 0 ELSE j - 1 + 1
    BY ONLY <2>2, FS_Interval
  <2>4. Cardinality(1 .. j) = j
    BY <2>3
  <2>5. PICK x, y : x = {s} /\ y = 1 .. j
    OBVIOUS
  <2>6. IsFiniteSet(x) /\ IsFiniteSet(y) /\ Cardinality(x) = 1 /\ Cardinality(y) = j
    BY <2>1, <2>3, <2>4, <2>5
  <2>7. IsFiniteSet(x \X y) /\ Cardinality(x \X y) = Cardinality(x) * Cardinality(y)
    BY ONLY <2>6, FS_Product
  <2>8. more = x \X y
    BY <2>5
  <2>9. 1 * j = j
    OBVIOUS
  <2>10. Cardinality(x \X y) = j
    BY <2>6, <2>7, <2>9
  <2> HIDE DEF more
  <2> QED BY <2>7, <2>8, <2>10
<1> HIDE DEF more
<1>6. /\ IsFiniteSet(BufsFor(q) \cup more)
      /\ Cardinality(BufsFor(q) \cup more)
            = Cardinality(BufsFor(q)) + Cardinality(more) - Cardinality(BufsFor(q) \cap more)
  BY <1>5, FS_Union
<1>7. Cardinality(BufsFor(q)) \in Nat /\ Cardinality(BufsFor(q) \cap more) = 0
  BY <1>4, FS_CardinalityType, FS_EmptySet
<1> QED BY <1>2, <1>3, <1>5, <1>6, <1>7

LEMMA GrowLargeGood ==
    ASSUME NEW m, Good(m), Balanced(m), Len(m.caches) >= 3, NEW c \in DOMAIN m.caches,
           c > CacheBuf, ~OnSlab(m.caches[c].osize), Exhausted(m.caches[c]),
           NEW n, n = _slab_grow_large(m, c)
    PROVE  Readied(m, n, c)
<1>1. PICK k, b, p, s, data : /\ k = m.caches[c] /\ b = m.blocks + 1 /\ p = TakeBlock(m, c)
                              /\ s = NextObject(p, CacheSlab) /\ data = k.offset * k.nxtcol
  OBVIOUS
<1>2. k \in CacheRecord /\ Shaped(k) /\ ~OnSlab(k.osize) /\ m.blocks \in Nat
  BY <1>1 DEF Good, Typed
<1>3. k.nobjs \in Nat
  BY <1>2 DEF CacheRecord, Positive
<1>4. PICK t : /\ IsSteps(t, p, k.nobjs)
               /\ n = AddSlab(t[k.nobjs], c, s, b, data)
  BY <1>1, <1>3, GrowLargeIs
<1>5. PICK q, j : q = t[k.nobjs] /\ j = k.nobjs
  OBVIOUS
<1>6. Taken(m, p, c)
  BY <1>1, TakeBlockGood
<1>7. /\ Good(p) /\ Frame(m, p, c) /\ p.slabs = m.slabs /\ p.out = m.out
      /\ Fresh(p, b) /\ Exhausted(p.caches[c])
  BY <1>1, <1>6 DEF Taken
<1>8. /\ DOMAIN p.caches = DOMAIN m.caches /\ Len(p.caches) = Len(m.caches)
      /\ \A e \in DOMAIN m.caches : Same(m.caches[e], p.caches[e])
  BY <1>7 DEF Frame
<1>9. Along(p, q, c, s, b, j)
  <2>1. Len(p.caches) >= 3 /\ c \in DOMAIN p.caches /\ c > CacheBuf
    BY <1>8
  <2> QED BY ONLY <1>1, <1>3, <1>4, <1>5, <1>7, <2>1, AlongSteps
<1>10. PICK a : a = [cache |-> CacheSlab, at |-> s]
  OBVIOUS
<1>11. /\ Good(q) /\ Fresh(q, b)
       /\ DOMAIN q.caches = DOMAIN p.caches /\ Len(q.caches) = Len(p.caches)
       /\ \A e \in DOMAIN p.caches : Same(p.caches[e], q.caches[e])
       /\ q.caches[c] = p.caches[c]
       /\ a \in q.out /\ s \in Address /\ s \notin DOMAIN q.slabs
       /\ LargeIn(q) = LargeIn(p) /\ BufsFor(q) = BufsFor(p)
       /\ OutFrom(q, CacheSlab) = OutFrom(p, CacheSlab) \cup {a}
       /\ Cardinality(OutFrom(q, CacheBuf)) = Cardinality(OutFrom(p, CacheBuf)) + j
       /\ \A e : e \notin {CacheSlab, CacheBuf} => OutFrom(q, e) = OutFrom(p, e)
  BY <1>9, <1>10 DEF Along
<1>12. Same(k, q.caches[c]) /\ c \in DOMAIN q.caches
  BY <1>1, <1>8, <1>11
<1>13. data \in Nat /\ data % k.align = 0 /\ data + k.nobjs * k.osize <= Block(k.order)
  BY <1>1, <1>2, LargeFits
<1>14. Fits(q, c, s, b, data)
  BY <1>2, <1>7, <1>10, <1>11, <1>12, <1>13 DEF Fits, Same
<1>15. /\ Good(n) /\ Frame(q, n, c) /\ n.out = q.out
       /\ DOMAIN n.slabs = {s} \cup DOMAIN q.slabs
       /\ n.slabs[s].cache = c /\ n.slabs[s].cnt = q.caches[c].nobjs
       /\ Gives(n, c, s) /\ ~Exhausted(n.caches[c])
  <2>1. n = AddSlab(q, c, s, b, data)
    BY <1>4, <1>5
  <2> QED BY ONLY <1>11, <1>14, <2>1, AddSlabGood
<1>16. n.slabs[s].cnt = j /\ ~OnSlab(q.caches[c].osize)
  BY <1>2, <1>5, <1>12, <1>15 DEF Same
<1>17. LargeIn(p) = LargeIn(m) /\ BufsFor(p) = BufsFor(m)
  <2>1. \A t1 \in DOMAIN m.slabs : m.slabs[t1].cache \in DOMAIN m.caches
    BY DEF Good, SlabRight
  <2>2. LargeIn(p) = LargeIn(m)
    BY <1>7, <1>8, <2>1 DEF LargeIn, Same
  <2> QED BY <1>7, <2>2 DEF BufsFor
<1>18. \A e : OutFrom(p, e) = OutFrom(m, e) /\ OutFrom(n, e) = OutFrom(q, e)
  BY <1>7, <1>15 DEF OutFrom
<1>19. /\ LargeIn(n) = LargeIn(q) \cup {s} /\ IsFiniteSet(BufsFor(n))
       /\ Cardinality(BufsFor(n)) = Cardinality(BufsFor(q)) + j
  <2>1. IsFiniteSet(BufsFor(q)) /\ j \in Nat
    BY <1>3, <1>5, <1>11, <1>17 DEF Balanced
  <2> QED BY ONLY <1>11, <1>12, <1>15, <1>16, <2>1, LargeMore
<1>20. /\ DOMAIN n.caches = DOMAIN m.caches /\ Len(n.caches) = Len(m.caches)
       /\ \A e \in DOMAIN m.caches : Same(m.caches[e], n.caches[e])
  BY <1>8, <1>11, <1>15 DEF Frame, Same
<1>21. \A e : e \notin {CacheSlab, CacheBuf} => OutFrom(n, e) = OutFrom(m, e)
  BY <1>11, <1>18
<1>22. Balanced(n)
  <2>1. OutFrom(n, CA) = OutFrom(m, CA)
    BY <1>21 DEF CA, CacheSlab, CacheBuf
  <2>2. OutFrom(n, CacheSlab) = OutFrom(m, CacheSlab) \cup {a}
    BY <1>11, <1>18
  <2>3. {o.at : o \in OutFrom(n, CacheSlab)} = {o.at : o \in OutFrom(m, CacheSlab)} \cup {s}
    BY <1>10, <2>2
  <2>4. {o.at : o \in OutFrom(n, CacheSlab)} = LargeIn(n)
    BY <1>11, <1>17, <1>19, <2>3 DEF Balanced
  <2>5. Cardinality(OutFrom(n, CacheBuf)) = Cardinality(BufsFor(n))
    BY <1>11, <1>17, <1>18, <1>19 DEF Balanced
  <2> QED BY <1>19, <1>20, <2>1, <2>4, <2>5 DEF Balanced
<1> QED BY <1>15, <1>20, <1>21, <1>22 DEF Readied

LEMMA GrowSmallReadied ==
    ASSUME NEW m, Good(m), Balanced(m), NEW c \in DOMAIN m.caches,
           OnSlab(m.caches[c].osize), Exhausted(m.caches[c]),
           NEW n, n = _slab_grow_small(m, c)
    PROVE  Readied(m, n, c)
<1>1. PICK s : Grew(m, n, c, s)
  BY GrowSmallGood
<1>2. /\ Good(n) /\ Frame(m, n, c) /\ n.out = m.out
      /\ DOMAIN n.slabs = {s} \cup DOMAIN m.slabs /\ n.slabs[s].cache = c
      /\ s \notin DOMAIN m.slabs
      /\ Gives(n, c, s) /\ ~Exhausted(n.caches[c])
  BY <1>1 DEF Grew
<1>3. /\ DOMAIN n.caches = DOMAIN m.caches /\ Len(n.caches) = Len(m.caches)
      /\ \A e \in DOMAIN m.caches : Same(m.caches[e], n.caches[e])
      /\ \A t \in DOMAIN m.slabs : /\ n.slabs[t].cache = m.slabs[t].cache
                                   /\ n.slabs[t].cnt = m.slabs[t].cnt
  BY <1>2 DEF Frame
<1>4. \A e : OutFrom(n, e) = OutFrom(m, e)
  BY <1>2 DEF OutFrom
<1>5. LargeIn(n) = LargeIn(m) /\ LargeIn(m) \subseteq DOMAIN m.slabs
  <2>1. \A t \in DOMAIN m.slabs : m.slabs[t].cache \in DOMAIN m.caches
    BY DEF Good, SlabRight
  <2> QED BY <1>2, <1>3, <2>1 DEF LargeIn, Same
<1>6. BufsFor(n) = BufsFor(m)
  BY <1>3, <1>5 DEF BufsFor
<1>7. Balanced(n)
  BY <1>3, <1>4, <1>5, <1>6 DEF Balanced
<1> QED BY <1>2, <1>3, <1>4, <1>7 DEF Readied

(* slab_allocate of a caller's cache: memory n is m with o handed out.        *)
Allocated(m, n, c, o) ==
    /\ Good(n) /\ Balanced(n)
    /\ DOMAIN n.caches = DOMAIN m.caches /\ Len(n.caches) = Len(m.caches)
    /\ \A e \in DOMAIN m.caches : Same(m.caches[e], n.caches[e])
    /\ o \in Object /\ o.cache = c /\ o \notin m.out
    /\ OutFrom(n, c) = OutFrom(m, c) \cup {o}
    /\ \A e : e \notin {c, CacheSlab, CacheBuf} => OutFrom(n, e) = OutFrom(m, e)

LEMMA DetachAllocated ==
    ASSUME NEW m, Good(m), Balanced(m), NEW c \in DOMAIN m.caches, c > CacheBuf,
           NEW s, Gives(m, c, s), ~Exhausted(m.caches[c]), NEW n, n = Detach(m, c)
    PROVE  \E o : Allocated(m, n, c, o)
<1>1. PICK o : o = Handed(c, m.slabs[s])
  OBVIOUS
<1>2. Gave(m, n, c, o) /\ DOMAIN n.slabs = DOMAIN m.slabs
  BY <1>1, DetachGave
<1>3. /\ Good(n) /\ Frame(m, n, c) /\ n.out = m.out \cup {o}
      /\ o \in Object /\ o.cache = c /\ o \notin m.out
  BY <1>2 DEF Gave
<1>4. /\ DOMAIN n.caches = DOMAIN m.caches /\ Len(n.caches) = Len(m.caches)
      /\ \A e \in DOMAIN m.caches : Same(m.caches[e], n.caches[e])
      /\ \A t \in DOMAIN m.slabs : /\ n.slabs[t].cache = m.slabs[t].cache
                                   /\ n.slabs[t].cnt = m.slabs[t].cnt
  BY <1>3 DEF Frame
<1>5. /\ OutFrom(n, c) = OutFrom(m, c) \cup {o}
      /\ \A e : e # c => OutFrom(n, e) = OutFrom(m, e)
  BY <1>3 DEF OutFrom
<1>6. LargeIn(n) = LargeIn(m) /\ LargeIn(m) \subseteq DOMAIN m.slabs
  <2>1. \A t \in DOMAIN m.slabs : m.slabs[t].cache \in DOMAIN m.caches
    BY DEF Good, SlabRight
  <2> QED BY <1>2, <1>4, <2>1 DEF LargeIn, Same
<1>7. BufsFor(n) = BufsFor(m)
  BY <1>4, <1>6 DEF BufsFor
<1>8. c # CA /\ c # CacheSlab /\ c # CacheBuf
  <2>1. c \in Nat
    BY LenProperties DEF Good, Typed
  <2> QED BY <2>1 DEF CA, CacheSlab, CacheBuf
<1>9. Balanced(n)
  BY <1>4, <1>5, <1>6, <1>7, <1>8 DEF Balanced
<1> QED BY <1>3, <1>4, <1>5, <1>9 DEF Allocated

LEMMA AllocateGood ==
    ASSUME NEW m, Good(m), Balanced(m), Len(m.caches) >= 3, NEW c \in DOMAIN m.caches,
           c > CacheBuf, HasObject(Ready(m, c), c), NEW n, n = Detach(Ready(m, c), c)
    PROVE  \E o : Allocated(m, n, c, o)
<1>1. CASE ~Exhausted(m.caches[c])
  <2>1. n = Detach(m, c) /\ HasObject(m, c)
    BY <1>1 DEF Ready
  <2>2. PICK s : s = Candidate(m.caches[c])
    OBVIOUS
  <2>3. s \in DOMAIN m.slabs /\ s \in SlabsIn(m, c)
    BY <1>1, <2>2, CandidateIs DEF Good
  <2>4. Gives(m, c, s)
    BY <2>1, <2>2, <2>3 DEF Gives, HasObject
  <2> QED BY <1>1, <2>1, <2>4, DetachAllocated
<1>2. CASE Exhausted(m.caches[c])
  <2>1. PICK g : g = Ready(m, c)
    OBVIOUS
  <2>2. g = _slab_grow(m, c)
    BY <1>2, <2>1 DEF Ready
  <2>3. Readied(m, g, c)
    <3>1. CASE OnSlab(m.caches[c].osize)
      BY <1>2, <2>2, <3>1, GrowSmallReadied DEF _slab_grow
    <3>2. CASE ~OnSlab(m.caches[c].osize)
      BY <1>2, <2>2, <3>2, GrowLargeGood DEF _slab_grow
    <3> QED BY <3>1, <3>2
  <2>4. /\ Good(g) /\ Balanced(g)
        /\ DOMAIN g.caches = DOMAIN m.caches /\ Len(g.caches) = Len(m.caches)
        /\ \A e \in DOMAIN m.caches : Same(m.caches[e], g.caches[e])
        /\ \A e : e \notin {CacheSlab, CacheBuf} => OutFrom(g, e) = OutFrom(m, e)
        /\ ~Exhausted(g.caches[c])
    BY <2>3 DEF Readied
  <2>5. PICK s : Gives(g, c, s)
    BY <2>3 DEF Readied
  <2>6. n = Detach(g, c) /\ c \in DOMAIN g.caches /\ c > CacheBuf
    BY <2>1, <2>4
  <2>7. PICK o : Allocated(g, n, c, o)
    BY ONLY <2>4, <2>5, <2>6, DetachAllocated
  <2>8. /\ Good(n) /\ Balanced(n)
        /\ DOMAIN n.caches = DOMAIN g.caches /\ Len(n.caches) = Len(g.caches)
        /\ \A e \in DOMAIN g.caches : Same(g.caches[e], n.caches[e])
        /\ o \in Object /\ o.cache = c /\ o \notin g.out
        /\ OutFrom(n, c) = OutFrom(g, c) \cup {o}
        /\ \A e : e \notin {c, CacheSlab, CacheBuf} => OutFrom(n, e) = OutFrom(g, e)
    BY <2>7 DEF Allocated
  <2>9. \A e \in DOMAIN m.caches : Same(m.caches[e], n.caches[e])
    BY <2>4, <2>8 DEF Same
  <2>10. c \notin {CacheSlab, CacheBuf}
    <3>1. c \in Nat
      BY LenProperties DEF Good, Typed
    <3> QED BY <3>1 DEF CacheSlab, CacheBuf
  <2>11. /\ OutFrom(g, c) = OutFrom(m, c) /\ o \notin m.out
         /\ \A e : e \notin {c, CacheSlab, CacheBuf} => OutFrom(n, e) = OutFrom(m, e)
    <3>1. OutFrom(g, c) = OutFrom(m, c)
      BY <2>4, <2>10
    <3>2. o \notin OutFrom(g, c)
      BY <2>8 DEF OutFrom
    <3>3. o \notin m.out
      BY <2>8, <3>1, <3>2 DEF OutFrom
    <3>4. ASSUME NEW e, e \notin {c, CacheSlab, CacheBuf}
          PROVE  OutFrom(n, e) = OutFrom(m, e)
      BY <2>4, <2>8, <3>4
    <3> QED BY <3>1, <3>3, <3>4
  <2> QED BY <2>4, <2>8, <2>9, <2>11 DEF Allocated
<1> QED BY <1>1, <1>2

-------------------------------------------------------------------------------
(* slab_register.                                                             *)

(* A cache with no slabs yet.                                                 *)
New(k) ==
    /\ k \in CacheRecord /\ Shaped(k) /\ k.bsy = 0 /\ k.cnt = 0
    /\ k.free = << >> /\ k.busy = << >> /\ k.full = << >>

(* Memory n is m with cache k more.                                           *)
Extended(m, n, k) ==
    /\ Good(n) /\ n.slabs = m.slabs /\ n.blocks = m.blocks /\ n.out = m.out
    /\ Len(n.caches) = Len(m.caches) + 1
    /\ \A e \in DOMAIN m.caches : e \in DOMAIN n.caches /\ n.caches[e] = m.caches[e]
    /\ \A e \in DOMAIN n.caches : e \in DOMAIN m.caches \/ e = Len(m.caches) + 1
    /\ n.caches[Len(m.caches) + 1] = k

LEMMA ExtendGood ==
    ASSUME NEW m, Good(m), NEW k, New(k),
           Len(m.caches) + 1 \in {CA, CacheSlab, CacheBuf} => OnSlab(k.osize),
           NEW n, n = [m EXCEPT !.caches = Append(@, k)]
    PROVE  Extended(m, n, k)
<1>1. /\ Typed(m)
      /\ \A e \in DOMAIN m.caches : Shaped(m.caches[e]) /\ Listed(m, e) /\ Counted(m, e)
      /\ \A t \in DOMAIN m.slabs : SlabRight(m, t)
      /\ PagesApart(m) /\ OutOfSlabs(m)
      /\ \A e \in DOMAIN m.caches :
            e \in {CA, CacheSlab, CacheBuf} => OnSlab(m.caches[e].osize)
  BY DEF Good
<1>2. PICK l \in Nat : l = Len(m.caches) /\ DOMAIN m.caches = 1 .. l
  <2>1. m.caches \in Seq(CacheRecord)
    BY <1>1 DEF Typed
  <2> QED BY <2>1, LenProperties
<1>3. /\ k \in CacheRecord /\ Shaped(k) /\ k.bsy = 0 /\ k.cnt = 0
      /\ k.free = << >> /\ k.busy = << >> /\ k.full = << >>
  BY DEF New
<1>4. n = [caches |-> Append(m.caches, k), slabs |-> m.slabs,
           blocks |-> m.blocks, out |-> m.out]
  <2>1. m = [caches |-> m.caches, slabs |-> m.slabs, blocks |-> m.blocks, out |-> m.out]
    BY <1>1 DEF Typed
  <2> QED BY <2>1
<1>5. /\ n.caches = Append(m.caches, k)
      /\ n.slabs = m.slabs /\ n.blocks = m.blocks /\ n.out = m.out
      /\ n = [caches |-> n.caches, slabs |-> n.slabs, blocks |-> n.blocks, out |-> n.out]
  BY <1>4
<1>6. /\ n.caches \in Seq(CacheRecord) /\ Len(n.caches) = l + 1
      /\ \A e \in 1 .. l : n.caches[e] = m.caches[e]
      /\ n.caches[l + 1] = k
  <2>1. m.caches \in Seq(CacheRecord)
    BY <1>1 DEF Typed
  <2> QED BY <1>2, <1>3, <1>5, <2>1, AppendProperties
<1>7. DOMAIN n.caches = 1 .. l + 1
  BY <1>6, LenProperties
<1>8. /\ \A e \in DOMAIN m.caches : e \in DOMAIN n.caches /\ n.caches[e] = m.caches[e]
      /\ \A e \in DOMAIN n.caches : e \in DOMAIN m.caches \/ e = l + 1
      /\ l + 1 \notin DOMAIN m.caches
  BY <1>2, <1>6, <1>7
<1>9. Typed(n)
  BY <1>1, <1>5, <1>6 DEF Typed
<1>10. \A e \in DOMAIN n.caches :
          Shaped(n.caches[e]) /\ (e \in {CA, CacheSlab, CacheBuf} => OnSlab(n.caches[e].osize))
  BY <1>1, <1>2, <1>3, <1>6, <1>8
<1>11. ASSUME NEW t \in DOMAIN m.slabs PROVE SlabRight(n, t)
  <2>1. \A e \in DOMAIN m.caches : Same(m.caches[e], n.caches[e])
    BY <1>8 DEF Same
  <2>2. m.blocks \in Nat /\ m.blocks <= n.blocks /\ n.blocks \in Nat
    BY <1>1, <1>5 DEF Typed
  <2>3. DOMAIN m.caches \subseteq DOMAIN n.caches
    BY <1>8
  <2> QED BY <1>1, <1>5, <2>1, <2>2, <2>3, SlabKept
<1>12. PagesApart(n) /\ OutOfSlabs(n) /\ \A e : SlabsIn(n, e) = SlabsIn(m, e)
  BY <1>1, <1>5 DEF PagesApart, OutOfSlabs, SlabsIn
<1>13. ASSUME NEW e \in DOMAIN m.caches PROVE Listed(n, e) /\ Counted(n, e)
  <2>1. n.caches[e] = m.caches[e] /\ SlabsIn(n, e) = SlabsIn(m, e)
    BY <1>8, <1>12
  <2>2. \A t \in SlabsIn(m, e) : n.slabs[t] = m.slabs[t]
    BY <1>5
  <2>3. Typed(m) /\ Listed(m, e) /\ Counted(m, e)
    BY <1>1
  <2> QED BY ONLY <1>13, <2>1, <2>2, <2>3, ListedKept
<1>14. Listed(n, l + 1) /\ Counted(n, l + 1)
  <2>1. SlabsIn(n, l + 1) = {}
    <3>1. \A t \in DOMAIN m.slabs : m.slabs[t].cache \in DOMAIN m.caches
      BY <1>1 DEF SlabRight
    <3>2. SlabsIn(m, l + 1) = {}
      BY <1>8, <3>1 DEF SlabsIn
    <3> QED BY <1>12, <3>2
  <2>2. Lists(k) = << >> /\ << >> \in Seq(Address) /\ Len(<< >>) = 0
    BY <1>3, ConcatEmptySeq DEF Lists
  <2>3. Once(Lists(k)) /\ Range(Lists(k)) = {} /\ Range(k.full) = {}
    BY <1>3, <2>2 DEF Once, Range
  <2>4. OpenSlab(n, k)
    BY <1>3 DEF OpenSlab
  <2>5. Listed(n, l + 1)
    BY <1>6, <2>1, <2>3, <2>4 DEF Listed
  <2>6. k.nobjs \in Nat
    BY <1>3 DEF CacheRecord, Positive
  <2>7. k.nobjs * 0 = 0
    BY <2>6
  <2>8. Counted(n, l + 1)
    BY <1>3, <1>6, <2>2, <2>7 DEF Counted
  <2> QED BY <2>5, <2>8
<1>15. Good(n)
  <2>1. \A e \in DOMAIN n.caches : Listed(n, e) /\ Counted(n, e)
    BY <1>8, <1>13, <1>14
  <2>2. \A t \in DOMAIN n.slabs : SlabRight(n, t)
    BY <1>5, <1>11
  <2> QED BY <1>9, <1>10, <1>12, <2>1, <2>2 DEF Good
<1> QED BY <1>2, <1>5, <1>6, <1>8, <1>15 DEF Extended

(* Memory n is m with cache k registered.                                     *)
RegisteredAs(m, n, k) ==
    /\ Good(n) /\ Balanced(n)
    /\ Len(n.caches) = Len(m.caches) + 1
    /\ \A e \in DOMAIN m.caches : e \in DOMAIN n.caches /\ Same(m.caches[e], n.caches[e])
    /\ \A e \in DOMAIN n.caches : e \in DOMAIN m.caches \/ e = Len(m.caches) + 1
    /\ n.caches[Len(m.caches) + 1] = k
    /\ \A e : e # CA => OutFrom(n, e) = OutFrom(m, e)
    /\ n.blocks \in m.blocks .. m.blocks + 1

LEMMA RegisteredGood ==
    ASSUME NEW m, Good(m), Balanced(m), Len(m.caches) >= 1,
           NEW size, NEW align, NEW k, k = _slab_cache_init(size, align), New(k),
           Len(m.caches) + 1 \in {CA, CacheSlab, CacheBuf} => OnSlab(k.osize),
           NEW n, n = Registered(m, size, align)
    PROVE  /\ RegisteredAs(m, n, k)
           /\ n.caches[CA] = AllocateSmall(m, CA).caches[CA]
           /\ n.blocks = AllocateSmall(m, CA).blocks
<1>1. PICK p, o : p = AllocateSmall(m, CA) /\ o = [cache |-> CA, at |-> NextObject(m, CA)]
  OBVIOUS
<1>2. CA \in DOMAIN m.caches /\ OnSlab(m.caches[CA].osize) /\ Len(m.caches) \in Nat
      /\ DOMAIN m.caches = 1 .. Len(m.caches)
  <2>1. DOMAIN m.caches = 1 .. Len(m.caches) /\ Len(m.caches) \in Nat
    BY LenProperties DEF Good, Typed
  <2>2. CA \in DOMAIN m.caches
    BY <2>1 DEF CA
  <2> QED BY <2>1, <2>2 DEF Good
<1>3. Gave(m, p, CA, o)
  <2>1. Good(m)
    OBVIOUS
  <2> QED BY ONLY <1>1, <1>2, <2>1, AllocateSmallGave
<1>4. GaveMore(m, p, CA, o)
  <2>1. Good(m)
    OBVIOUS
  <2> QED BY ONLY <1>2, <1>3, <2>1, GaveBalance
<1>5. /\ Good(p) /\ Frame(m, p, CA) /\ p.blocks \in m.blocks .. m.blocks + 1
  BY <1>3 DEF Gave
<1>6. /\ LargeIn(p) = LargeIn(m) /\ BufsFor(p) = BufsFor(m)
      /\ \A e : e # CA => OutFrom(p, e) = OutFrom(m, e)
      /\ Cardinality(OutFrom(p, CA)) = Cardinality(OutFrom(m, CA)) + 1
  BY <1>4 DEF GaveMore
<1>7. Len(p.caches) = Len(m.caches) /\ DOMAIN p.caches = DOMAIN m.caches
      /\ \A e \in DOMAIN m.caches : Same(m.caches[e], p.caches[e])
  BY <1>5 DEF Frame
<1>8. n = [p EXCEPT !.caches = Append(@, k)]
  BY <1>1 DEF Registered
<1>9. Extended(p, n, k)
  <2>1. New(k) /\ (Len(p.caches) + 1 \in {CA, CacheSlab, CacheBuf} => OnSlab(k.osize))
    BY <1>7
  <2> QED BY ONLY <1>5, <1>8, <2>1, ExtendGood
<1>10. /\ Good(n) /\ n.slabs = p.slabs /\ n.blocks = p.blocks /\ n.out = p.out
       /\ Len(n.caches) = Len(p.caches) + 1
       /\ \A e \in DOMAIN p.caches : e \in DOMAIN n.caches /\ n.caches[e] = p.caches[e]
       /\ \A e \in DOMAIN n.caches : e \in DOMAIN p.caches \/ e = Len(p.caches) + 1
       /\ n.caches[Len(p.caches) + 1] = k
  BY <1>9 DEF Extended
<1>11. \A e : OutFrom(n, e) = OutFrom(p, e)
  BY <1>10 DEF OutFrom
<1>12. LargeIn(n) = LargeIn(p) /\ BufsFor(n) = BufsFor(p)
  <2>1. \A t \in DOMAIN p.slabs : p.slabs[t].cache \in DOMAIN p.caches
    BY <1>5 DEF Good, SlabRight
  <2>2. LargeIn(n) = LargeIn(p)
    BY <1>10, <2>1 DEF LargeIn
  <2> QED BY <1>10, <2>2 DEF BufsFor
<1>13. Balanced(n)
  <2>1. /\ Cardinality(OutFrom(m, CA)) = Len(m.caches) - 1
        /\ {a.at : a \in OutFrom(m, CacheSlab)} = LargeIn(m)
        /\ IsFiniteSet(BufsFor(m))
        /\ Cardinality(OutFrom(m, CacheBuf)) = Cardinality(BufsFor(m))
    BY DEF Balanced
  <2>2. OutFrom(n, CacheSlab) = OutFrom(m, CacheSlab) /\ OutFrom(n, CacheBuf) = OutFrom(m, CacheBuf)
    BY <1>6, <1>11 DEF CA, CacheSlab, CacheBuf
  <2>3. Cardinality(OutFrom(n, CA)) = Len(n.caches) - 1
    BY <1>2, <1>6, <1>7, <1>10, <1>11, <2>1
  <2> QED BY <1>6, <1>12, <2>1, <2>2, <2>3 DEF Balanced
<1>14. \A e : e # CA => OutFrom(n, e) = OutFrom(m, e)
  BY <1>6, <1>11
<1>15. RegisteredAs(m, n, k)
  BY <1>5, <1>7, <1>10, <1>13, <1>14 DEF RegisteredAs
<1> QED BY <1>1, <1>2, <1>7, <1>10, <1>15

-------------------------------------------------------------------------------
(* The invariant.                                                             *)

(* The first slab of _ca has room for a second cache.                         *)
LEMMA FirstOpen ==
    ASSUME NEW n, Good(n), Len(n.caches) = 1, NEW o, n.out = {o}
    PROVE  ~Exhausted(n.caches[CA])
<1>1. SUFFICES ASSUME Exhausted(n.caches[CA]) PROVE FALSE
  OBVIOUS
<1>2. PICK k : k = n.caches[CA]
  OBVIOUS
<1>3. /\ DOMAIN n.caches = {CA} /\ k \in CacheRecord /\ Shaped(k) /\ Listed(n, CA)
      /\ OnSlab(k.osize)
  <2>1. n.caches \in Seq(CacheRecord)
    BY DEF Good, Typed
  <2>2. DOMAIN n.caches = {CA}
    BY <2>1, LenProperties DEF CA
  <2>3. k \in CacheRecord
    BY <1>2, <2>1, <2>2, ElementOfSeq DEF CA
  <2> QED BY <1>2, <2>2, <2>3 DEF Good
<1>4. PICK s \in DOMAIN n.slabs : o.at[1] = n.slabs[s].page
  BY DEF Good, OutOfSlabs
<1>5. PICK r : r = n.slabs[s]
  OBVIOUS
<1>6. /\ r \in SlabRecord /\ r.cache = CA /\ r.cnt = k.nobjs
      /\ \E d \in 0 .. Block(MAX_ORDER) : Begins(n, s, d)
  <2>1. SlabRight(n, s) /\ r \in SlabRecord
    BY <1>5 DEF Good, Typed
  <2> QED BY <1>2, <1>3, <1>5, <2>1 DEF SlabRight
<1>7. PICK d \in 0 .. Block(MAX_ORDER) : Begins(n, s, d)
  BY <1>6
<1>8. {p \in n.out : p.at[1] = r.page} = Given(r, d, k.osize)
  BY <1>2, <1>5, <1>6, <1>7 DEF Begins
<1>9. Given(r, d, k.osize) \subseteq {o}
  BY <1>8
<1>10. r.bsy = r.cnt
  <2>1. Lists(k) = k.full
    BY <1>1, <1>2, <1>3, Together DEF Exhausted
  <2>2. s \in SlabsIn(n, CA)
    BY <1>5, <1>6 DEF SlabsIn
  <2> QED BY <1>2, <1>3, <1>5, <2>1, <2>2 DEF Listed
<1>11. k.nobjs >= 2 /\ k.nobjs \in Nat
  BY <1>3 DEF Shaped, CacheRecord, Positive
<1>12. PICK z \in Positive : z = k.osize
  BY <1>3 DEF CacheRecord
<1>13. ASSUME NEW j \in 0 .. 1 PROVE [cache |-> r.cache, at |-> <<r.page, d + j * z>>] = o
  <2>1. j \in (r.cnt - r.bsy) .. (r.cnt - 1)
    BY <1>6, <1>10, <1>11
  <2> QED BY <1>9, <1>12, <2>1 DEF Given
<1>14. d + 0 * z = d + 1 * z
  <2>1. [cache |-> r.cache, at |-> <<r.page, d + 0 * z>>]
            = [cache |-> r.cache, at |-> <<r.page, d + 1 * z>>]
    <3>1. 0 \in 0 .. 1 /\ 1 \in 0 .. 1
      OBVIOUS
    <3> QED BY <1>13, <3>1
  <2>2. PICK x, y : x = d + 0 * z /\ y = d + 1 * z
    OBVIOUS
  <2>3. [cache |-> r.cache, at |-> <<r.page, x>>] = [cache |-> r.cache, at |-> <<r.page, y>>]
    BY <2>1, <2>2
  <2>4. <<r.page, x>> = <<r.page, y>>
    BY ONLY <2>3
  <2> QED BY <2>2, <2>4
<1> QED BY <1>14 DEF Positive

(* Before any cache but _ca is registered.                                    *)
Bare == [caches |-> <<_slab_cache_init(CACHE, WORD)>>, slabs |-> << >>,
         blocks |-> 0, out |-> {}]

LEMMA OwnNew ==
    ASSUME NEW z \in {CACHE, SLAB, BUF}
    PROVE  New(_slab_cache_init(z, WORD)) /\ OnSlab(_slab_cache_init(z, WORD).osize)
<1>1. z \in Positive /\ z \in Nat /\ z > 0 /\ WORD \in Positive /\ WORD \in Nat
      /\ PAGE_SIZE \in Positive
  BY Sizes DEF Positive
<1>2. OnSlab(RoundUp(z, WORD))
  BY ShapeAssumption
<1>3. RoundUp(z, WORD) \in Positive /\ WORD <= RoundUp(z, WORD)
  BY ONLY <1>1, RoundUpFacts
<1>4. ~(WORD >= PAGE_SIZE)
  <2>1. PICK x : x = RoundUp(z, WORD)
    OBVIOUS
  <2>2. x \in Positive /\ WORD <= x /\ x * 8 < PAGE_SIZE
    BY <1>2, <1>3, <2>1 DEF OnSlab
  <2> QED BY ONLY <1>1, <2>2 DEF Positive
<1>5. Align(WORD) = WORD
  BY <1>1, <1>4 DEF Align
<1>6. OnSlab(RoundUp(z, Align(WORD)))
  BY <1>2, <1>5
<1>7. PICK k : k = _slab_cache_init(z, WORD)
  OBVIOUS
<1>8. /\ k \in CacheRecord /\ Shaped(k) /\ k.osize = RoundUp(z, Align(WORD))
      /\ k.bsy = 0 /\ k.cnt = 0
      /\ k.free = << >> /\ k.busy = << >> /\ k.full = << >>
  BY ONLY <1>1, <1>6, <1>7, CacheInit
<1> QED BY <1>6, <1>7, <1>8 DEF New

LEMMA BareGood == Good(Bare) /\ Balanced(Bare) /\ Len(Bare.caches) = 1
<1>1. PICK k : k = _slab_cache_init(CACHE, WORD)
  OBVIOUS
<1>2. New(k) /\ OnSlab(k.osize)
  BY <1>1, OwnNew
<1>3. PICK m : m = Bare
  OBVIOUS
<1>4. m.caches = <<k>> /\ m.slabs = << >> /\ m.blocks = 0 /\ m.out = {}
      /\ m = [caches |-> m.caches, slabs |-> m.slabs, blocks |-> m.blocks, out |-> m.out]
  BY <1>1, <1>3 DEF Bare
<1>5. /\ k \in CacheRecord /\ Shaped(k) /\ k.bsy = 0 /\ k.cnt = 0
      /\ k.free = << >> /\ k.busy = << >> /\ k.full = << >>
  BY <1>2 DEF New
<1>6. <<k>> \in Seq(CacheRecord) /\ Len(<<k>>) = 1 /\ DOMAIN <<k>> = {1} /\ <<k>>[1] = k
  BY <1>5
<1>7. DOMAIN m.slabs = {} /\ m.slabs \in [DOMAIN m.slabs -> SlabRecord]
  <2>1. DOMAIN << >> = {}
    OBVIOUS
  <2> QED BY <1>4, <2>1
<1>8. Typed(m)
  <2>1. IsFiniteSet({})
    BY FS_EmptySet
  <2>2. m.caches \in Seq(CacheRecord) /\ m.blocks \in Nat /\ m.out = {}
    BY <1>4, <1>6
  <2> QED BY <1>4, <1>7, <2>1, <2>2 DEF Typed
<1>9. Listed(m, 1) /\ Counted(m, 1)
  <2>1. SlabsIn(m, 1) = {}
    BY <1>7 DEF SlabsIn
  <2>2. Lists(k) = << >> /\ Len(<< >>) = 0
    BY <1>5, ConcatEmptySeq DEF Lists
  <2>3. Once(Lists(k)) /\ Range(Lists(k)) = {} /\ Range(k.full) = {}
    BY <1>5, <2>2 DEF Once, Range
  <2>4. OpenSlab(m, k)
    BY <1>5 DEF OpenSlab
  <2>5. Listed(m, 1)
    BY <1>4, <1>6, <2>1, <2>3, <2>4 DEF Listed
  <2>6. k.nobjs \in Nat
    BY <1>5 DEF CacheRecord, Positive
  <2>7. k.nobjs * 0 = 0
    BY <2>6
  <2>8. Counted(m, 1)
    BY <1>4, <1>5, <1>6, <2>2, <2>7 DEF Counted
  <2> QED BY <2>5, <2>8
<1>10. PagesApart(m) /\ OutOfSlabs(m)
  BY <1>4, <1>7 DEF PagesApart, OutOfSlabs
<1>11. Good(m)
  BY <1>2, <1>4, <1>5, <1>6, <1>7, <1>8, <1>9, <1>10 DEF Good
<1>12. Balanced(m)
  <2>1. \A e : OutFrom(m, e) = {}
    BY <1>4 DEF OutFrom
  <2>2. LargeIn(m) = {} /\ BufsFor(m) = {}
    BY <1>7 DEF LargeIn, BufsFor
  <2>3. IsFiniteSet({}) /\ Cardinality({}) = 0
    BY FS_EmptySet
  <2>4. {o.at : o \in OutFrom(m, CacheSlab)} = {}
    BY <2>1
  <2>5. Len(m.caches) = 1
    BY <1>4, <1>6
  <2>6. Cardinality(OutFrom(m, CA)) = Len(m.caches) - 1
    BY <2>1, <2>3, <2>5
  <2>7. Cardinality(OutFrom(m, CacheBuf)) = Cardinality(BufsFor(m))
    BY <2>1, <2>2
  <2>8. IsFiniteSet(BufsFor(m)) /\ {o.at : o \in OutFrom(m, CacheSlab)} = LargeIn(m)
    BY <2>2, <2>3, <2>4
  <2> QED BY <2>6, <2>7, <2>8 DEF Balanced
<1> QED BY <1>3, <1>4, <1>6, <1>11, <1>12

LEMMA InitInv == Init => IInv /\ \A e : e # CA => OutFrom(Memory, e) = {}
<1> SUFFICES ASSUME Init PROVE IInv /\ \A e : e # CA => OutFrom(Memory, e) = {}
  OBVIOUS
<1>1. PICK m, n, i, j :
        /\ m = Registered(Bare, SLAB, WORD) /\ n = Registered(m, BUF, WORD)
        /\ i = _slab_cache_init(SLAB, WORD) /\ j = _slab_cache_init(BUF, WORD)
  OBVIOUS
<1>2. /\ caches = n.caches /\ slabs = n.slabs /\ blocks = n.blocks /\ out = n.out
      /\ status = "running"
  BY <1>1 DEF Init, Bare
<1>3. New(i) /\ OnSlab(i.osize) /\ New(j) /\ OnSlab(j.osize)
  BY <1>1, OwnNew
<1>4. PICK b : b = Bare
  OBVIOUS
<1>5. Good(b) /\ Balanced(b) /\ Len(b.caches) = 1 /\ b.out = {} /\ b.blocks = 0
  BY <1>4, BareGood DEF Bare
<1>6. PICK p : p = AllocateSmall(b, CA)
  OBVIOUS
<1>7. /\ RegisteredAs(b, m, i) /\ m.caches[CA] = p.caches[CA] /\ m.blocks = p.blocks
  <2>1. /\ Len(b.caches) >= 1
        /\ Len(b.caches) + 1 \in {CA, CacheSlab, CacheBuf} => OnSlab(i.osize)
    BY <1>3, <1>5
  <2> QED BY ONLY <1>1, <1>3, <1>4, <1>5, <1>6, <2>1, RegisteredGood
<1>8. /\ Good(m) /\ Balanced(m) /\ Len(m.caches) = 2 /\ m.blocks \in 0 .. 1
      /\ \A e \in DOMAIN b.caches : Same(b.caches[e], m.caches[e])
  BY <1>5, <1>7 DEF RegisteredAs
<1>9. /\ RegisteredAs(m, n, j) /\ n.blocks = AllocateSmall(m, CA).blocks
  <2>1. /\ Len(m.caches) >= 1
        /\ Len(m.caches) + 1 \in {CA, CacheSlab, CacheBuf} => OnSlab(j.osize)
    BY <1>3, <1>8
  <2> QED BY ONLY <1>1, <1>3, <1>8, <2>1, RegisteredGood
<1>10. Good(n) /\ Balanced(n) /\ Len(n.caches) = 3
  BY <1>8, <1>9 DEF RegisteredAs
<1>11. ~Exhausted(m.caches[CA])
  <2>1. PICK o : o = [cache |-> CA, at |-> NextObject(b, CA)]
    OBVIOUS
  <2>2. CA \in DOMAIN b.caches /\ OnSlab(b.caches[CA].osize)
    <3>1. CA \in DOMAIN b.caches
      BY <1>5, LenProperties DEF Good, Typed, CA
    <3> QED BY <1>5, <3>1 DEF Good
  <2>3. Gave(b, p, CA, o)
    BY ONLY <1>5, <1>6, <2>1, <2>2, AllocateSmallGave
  <2>4. Good(p) /\ Len(p.caches) = 1 /\ p.out = {o}
    BY <1>5, <2>3 DEF Gave, Frame
  <2>5. ~Exhausted(p.caches[CA])
    BY ONLY <2>4, FirstOpen
  <2> QED BY <1>7, <2>5
<1>12. n.blocks <= 1
  <2>1. CA \in DOMAIN m.caches /\ OnSlab(m.caches[CA].osize)
    <3>1. CA \in DOMAIN m.caches
      BY <1>8, LenProperties DEF Good, Typed, CA
    <3> QED BY <1>8, <3>1 DEF Good
  <2>2. PICK s : s = Candidate(m.caches[CA])
    OBVIOUS
  <2>3. Gives(m, CA, s)
    BY <1>8, <1>11, <2>1, <2>2, SmallGives
  <2>4. PICK q : q = Detach(m, CA)
    OBVIOUS
  <2>5. q.blocks = m.blocks
    BY <1>8, <1>11, <2>1, <2>3, <2>4, DetachGood
  <2>6. AllocateSmall(m, CA) = q
    BY <1>11, <2>4 DEF AllocateSmall
  <2> QED BY <1>8, <1>9, <2>5, <2>6
<1>13. Memory = n
  <2>1. n = [caches |-> n.caches, slabs |-> n.slabs, blocks |-> n.blocks, out |-> n.out]
    BY <1>10 DEF Good, Typed
  <2> QED BY <1>2, <2>1 DEF Memory
<1>14. Serves(n)
  <2>1. DOMAIN n.caches = 1 .. 3
    BY <1>10, LenProperties DEF Good, Typed
  <2> QED BY <2>1 DEF Serves, CacheBuf
<1>15. blocks <= MaxBlocks /\ Len(caches) \in CacheBuf .. MaxCaches
  <2>1. n.blocks \in Nat
    BY <1>10 DEF Good, Typed
  <2> QED BY <1>2, <1>10, <1>12, <2>1, SizeAssumption DEF CacheBuf
<1>16. IInv
  BY <1>2, <1>10, <1>13, <1>14, <1>15 DEF IInv
<1>17. \A e : e # CA => OutFrom(Memory, e) = {}
  <2>1. \A e : OutFrom(b, e) = {}
    BY <1>5 DEF OutFrom
  <2>2. \A e : e # CA => OutFrom(m, e) = {}
    BY <1>7, <2>1 DEF RegisteredAs
  <2>3. \A e : e # CA => OutFrom(n, e) = {}
    BY <1>9, <2>2 DEF RegisteredAs
  <2> QED BY <1>13, <2>3
<1> QED BY <1>16, <1>17

(* Committing a memory that the rest of the invariant is true of.             *)
LEMMA CommitInv ==
    ASSUME IInv, NEW n, Good(n), Balanced(n), Serves(n),
           Len(n.caches) \in CacheBuf .. MaxCaches, Commit(n)
    PROVE  IInv'
<1>1. CASE n.blocks <= MaxBlocks
  <2>1. caches' = n.caches /\ slabs' = n.slabs /\ blocks' = n.blocks /\ out' = n.out
        /\ status' = status
    BY <1>1 DEF Commit
  <2>2. n = [caches |-> n.caches, slabs |-> n.slabs, blocks |-> n.blocks, out |-> n.out]
    BY DEF Good, Typed
  <2>3. Memory' = n
    BY <2>1, <2>2 DEF Memory
  <2> QED BY <1>1, <2>1, <2>3 DEF IInv
<1>2. CASE ~(n.blocks <= MaxBlocks)
  <2>1. /\ caches' = caches /\ slabs' = slabs /\ blocks' = blocks /\ out' = out
        /\ status' = "panic"
    BY <1>2 DEF Commit
  <2>2. Memory' = Memory
    BY <2>1 DEF Memory
  <2> QED BY <2>1, <2>2 DEF IInv
<1> QED BY <1>1, <1>2

LEMMA InvFacts ==
    ASSUME IInv, NEW m, m = Memory
    PROVE  /\ Good(m) /\ Balanced(m) /\ Serves(m)
           /\ m.caches = caches /\ m.slabs = slabs /\ m.blocks = blocks /\ m.out = out
           /\ Len(m.caches) \in Nat /\ Len(m.caches) >= 3 /\ Len(m.caches) <= MaxCaches
           /\ DOMAIN m.caches = 1 .. Len(m.caches) /\ MaxCaches \in Nat
<1>1. /\ Good(m) /\ Balanced(m) /\ Serves(m) /\ Len(caches) \in CacheBuf .. MaxCaches
      /\ MaxCaches \in Nat
  BY SizeAssumption DEF IInv
<1>2. m.caches = caches /\ m.slabs = slabs /\ m.blocks = blocks /\ m.out = out
  BY DEF Memory
<1>3. m.caches \in Seq(CacheRecord)
  BY <1>1 DEF Good, Typed
<1>4. Len(m.caches) \in Nat /\ DOMAIN m.caches = 1 .. Len(m.caches)
  BY <1>3, LenProperties
<1> QED BY <1>1, <1>2, <1>4 DEF CacheBuf

(* What a step of slab_register makes.                                        *)
LEMMA RegisterStep ==
    ASSUME IInv, NEW u \in Users, Len(caches) < MaxCaches, NEW m, m = Memory,
           NEW n, n = Registered(m, u[1], u[2]),
           NEW k, k = _slab_cache_init(u[1], u[2])
    PROVE  /\ RegisteredAs(m, n, k) /\ Serves(n) /\ k.osize >= u[1]
           /\ Len(n.caches) \in CacheBuf .. MaxCaches
<1>1. /\ Good(m) /\ Balanced(m) /\ Serves(m) /\ m.caches = caches
      /\ Len(m.caches) \in Nat /\ Len(m.caches) >= 3 /\ Len(m.caches) < MaxCaches
      /\ DOMAIN m.caches = 1 .. Len(m.caches) /\ MaxCaches \in Nat
  BY InvFacts
<1>2. PICK size, align : size = u[1] /\ align = u[2]
  OBVIOUS
<1>3. size \in Positive /\ align \in Nat /\ RoundUp(size, Align(align)) <= Block(MAX_ORDER - 1)
  BY <1>2, SizeAssumption, ShapeAssumption DEF Positive
<1>4. k = _slab_cache_init(size, align)
  BY <1>2
<1>5. /\ k \in CacheRecord /\ Shaped(k) /\ k.osize >= size
      /\ k.bsy = 0 /\ k.cnt = 0
      /\ k.free = << >> /\ k.busy = << >> /\ k.full = << >>
  BY ONLY <1>3, <1>4, CacheInit
<1>6. New(k)
  BY <1>5 DEF New
<1>7. Len(m.caches) + 1 \notin {CA, CacheSlab, CacheBuf} /\ Len(m.caches) >= 1
  BY <1>1 DEF CA, CacheSlab, CacheBuf
<1>8. RegisteredAs(m, n, k)
  <2>1. n = Registered(m, size, align)
    BY <1>2
  <2> QED BY ONLY <1>1, <1>4, <1>6, <1>7, <2>1, RegisteredGood
<1>9. /\ Len(n.caches) = Len(m.caches) + 1
      /\ \A e \in DOMAIN m.caches : e \in DOMAIN n.caches /\ Same(m.caches[e], n.caches[e])
      /\ \A e \in DOMAIN n.caches : e \in DOMAIN m.caches \/ e = Len(m.caches) + 1
      /\ n.caches[Len(m.caches) + 1] = k
  BY <1>8 DEF RegisteredAs
<1>10. Serves(n)
  <2>1. SUFFICES ASSUME NEW c \in DOMAIN n.caches, c > CacheBuf
                 PROVE  \E v \in Users : n.caches[c].osize >= v[1]
    BY DEF Serves
  <2>2. CASE c \in DOMAIN m.caches
    <3>1. n.caches[c].osize = m.caches[c].osize
      BY <1>9, <2>2 DEF Same
    <3> QED BY <1>1, <2>1, <2>2, <3>1 DEF Serves
  <2>3. CASE c = Len(m.caches) + 1
    BY <1>2, <1>5, <1>9, <2>3
  <2> QED BY <1>9, <2>2, <2>3
<1> QED BY <1>1, <1>2, <1>5, <1>8, <1>9, <1>10 DEF CacheBuf

(* What a step of slab_allocate makes.                                        *)
LEMMA AllocateStep ==
    ASSUME IInv, NEW c \in CacheBuf + 1 .. Len(caches), NEW m, m = Memory,
           HasObject(Ready(m, c), c), NEW n, n = Detach(Ready(m, c), c)
    PROVE  /\ \E o : Allocated(m, n, c, o)
           /\ Serves(n) /\ Len(n.caches) \in CacheBuf .. MaxCaches
<1>1. /\ Good(m) /\ Balanced(m) /\ Serves(m) /\ m.caches = caches
      /\ Len(m.caches) \in Nat /\ Len(m.caches) >= 3 /\ Len(m.caches) <= MaxCaches
      /\ DOMAIN m.caches = 1 .. Len(m.caches) /\ MaxCaches \in Nat
  BY InvFacts
<1>2. c \in DOMAIN m.caches /\ c > CacheBuf
  BY <1>1 DEF CacheBuf
<1>3. PICK o : Allocated(m, n, c, o)
  BY <1>1, <1>2, AllocateGood
<1>4. /\ DOMAIN n.caches = DOMAIN m.caches /\ Len(n.caches) = Len(m.caches)
      /\ \A e \in DOMAIN m.caches : Same(m.caches[e], n.caches[e])
  BY <1>3 DEF Allocated
<1>5. Serves(n)
  <2>1. \A e \in DOMAIN m.caches : n.caches[e].osize = m.caches[e].osize
    BY <1>4 DEF Same
  <2> QED BY <1>1, <1>4, <2>1 DEF Serves
<1> QED BY <1>1, <1>3, <1>4, <1>5 DEF CacheBuf

LEMMA NextInv == IInv /\ [Next]_vars => IInv'
<1> SUFFICES ASSUME IInv, [Next]_vars PROVE IInv'
  OBVIOUS
<1>1. PICK m : m = Memory
  OBVIOUS
<1>2. ASSUME NEW u \in Users, slab_register(u[1], u[2]) PROVE IInv'
  <2>1. PICK n, k : n = Registered(m, u[1], u[2]) /\ k = _slab_cache_init(u[1], u[2])
    OBVIOUS
  <2>2. Len(caches) < MaxCaches /\ Commit(n)
    BY <1>1, <1>2, <2>1 DEF slab_register
  <2>3. /\ RegisteredAs(m, n, k) /\ Serves(n)
        /\ Len(n.caches) \in CacheBuf .. MaxCaches
    BY <1>1, <2>1, <2>2, RegisterStep
  <2>4. Good(n) /\ Balanced(n)
    BY <2>3 DEF RegisteredAs
  <2> QED BY <2>2, <2>3, <2>4, CommitInv
<1>3. ASSUME NEW c \in CacheBuf + 1 .. Len(caches), slab_allocate(c) PROVE IInv'
  <2>1. PICK n : n = Detach(Ready(m, c), c)
    OBVIOUS
  <2>2. HasObject(Ready(m, c), c) /\ Commit(n)
    BY <1>1, <1>3, <2>1 DEF slab_allocate
  <2>3. /\ \E o : Allocated(m, n, c, o)
        /\ Serves(n) /\ Len(n.caches) \in CacheBuf .. MaxCaches
    BY <1>1, <2>1, <2>2, AllocateStep
  <2>4. Good(n) /\ Balanced(n)
    BY <2>3 DEF Allocated
  <2> QED BY <2>2, <2>3, <2>4, CommitInv
<1>4. ASSUME NEW c, AllocateNull(c) PROVE IInv'
  <2>1. /\ caches' = caches /\ slabs' = slabs /\ blocks' = blocks /\ out' = out
        /\ status' = "wild"
    BY <1>4 DEF AllocateNull
  <2>2. Memory' = Memory
    BY <2>1 DEF Memory
  <2> QED BY <2>1, <2>2 DEF IInv
<1>5. CASE UNCHANGED vars
  <2>1. Memory' = Memory
    BY <1>5 DEF vars, Memory
  <2> QED BY <1>5, <2>1 DEF IInv, vars
<1> QED BY <1>2, <1>3, <1>4, <1>5 DEF Next

(* At every step the caches are good (what each slab holds, counts and links  *)
(* agree, in the list it belongs to), the allocator's own caches have given   *)
(* out one object for each slab and buf of the large caches and for each      *)
(* cache registered, and a user's cache is long enough for a request.         *)
THEOREM Invariance == Spec => []IInv
BY InitInv, NextInv, PTL DEF Spec

-------------------------------------------------------------------------------
(* What the invariant implies.                                                *)

(* Each of the allocator's own caches has one object out for what it stands   *)
(* for: the growth of a cache takes a slab_t and a buf_t for each object.     *)
THEOREM Balance == Spec => []OwnObjects
<1>1. IInv => OwnObjects
  <2> SUFFICES ASSUME IInv PROVE OwnObjects
    OBVIOUS
  <2>1. PICK m : m = Memory
    OBVIOUS
  <2>2. /\ Balanced(m)
        /\ m.caches = caches /\ m.slabs = slabs /\ m.blocks = blocks /\ m.out = out
    BY <2>1, InvFacts
  <2>3. /\ OutOf(CA) = OutFrom(m, CA) /\ OutOf(CacheSlab) = OutFrom(m, CacheSlab)
        /\ OutOf(CacheBuf) = OutFrom(m, CacheBuf) /\ Large = LargeIn(m)
    BY <2>2 DEF OutOf, OutFrom, Large, LargeIn
  <2>4. UNION {{s} \X (1 .. slabs[s].cnt) : s \in Large} = BufsFor(m)
    BY <2>2, <2>3 DEF BufsFor
  <2> QED BY <2>2, <2>3, <2>4 DEF Balanced, OwnObjects
<1> QED BY <1>1, Invariance, PTL

(* A cache has one slab at most that is not full, also when it grows for the  *)
(* growth of another.                                                         *)
THEOREM SingleOpenSlab == Spec => []OneOpenSlab
<1>1. IInv => OneOpenSlab
  <2> SUFFICES ASSUME IInv PROVE OneOpenSlab
    OBVIOUS
  <2>1. PICK m : m = Memory
    OBVIOUS
  <2>2. Good(m) /\ m.caches = caches
    BY <2>1, InvFacts
  <2>3. SUFFICES ASSUME NEW c \in DOMAIN m.caches
                 PROVE  Len(m.caches[c].free) + Len(m.caches[c].busy) <= 1
    BY <2>2 DEF OneOpenSlab
  <2>4. PICK k : k = m.caches[c] /\ OpenSlab(m, k)
    BY <2>2 DEF Good, Listed
  <2>5. PICK x, y : x = k.free /\ y = k.busy
    OBVIOUS
  <2>6. \/ x = << >> /\ y = << >>
        \/ \E s : x = <<s>> /\ y = << >>
        \/ \E s : x = << >> /\ y = <<s>>
    BY <2>4, <2>5 DEF OpenSlab
  <2>7. Len(x) + Len(y) <= 1
    <3>1. Len(<< >>) = 0 /\ \A s : Len(<<s>>) = 1
      OBVIOUS
    <3>2. Len(x) \in {0, 1} /\ Len(y) \in {0, 1} /\ (Len(x) = 0 \/ Len(y) = 0)
      BY ONLY <2>6, <3>1, Zenon
    <3>3. PICK i, j : i = Len(x) /\ j = Len(y)
      OBVIOUS
    <3>4. i + j <= 1
      <4>1. i \in {0, 1} /\ j \in {0, 1} /\ (i = 0 \/ j = 0)
        BY ONLY <3>2, <3>3
      <4> QED BY ONLY <4>1
    <3> QED BY <3>3, <3>4
  <2> QED BY <2>4, <2>5, <2>7
<1> QED BY <1>1, Invariance, PTL

(* A sequence without repetitions is as long as the set of its members.       *)
LEMMA OnceLength ==
    ASSUME NEW q \in Seq(Address), Once(q)
    PROVE  Len(q) = Cardinality(Range(q))
<1>1. PICK l \in Nat : l = Len(q) /\ DOMAIN q = 1 .. l
  BY LenProperties
<1>2. q \in [1 .. l -> Range(q)]
  <2>1. q = [i \in 1 .. l |-> q[i]]
    BY <1>1
  <2> QED BY <1>1, <2>1 DEF Range
<1>3. q \in Bijection(1 .. l, Range(q))
  BY <1>1, <1>2 DEF Once, Range, Bijection, Injection, Surjection, IsInjective
<1>4. IsFiniteSet(1 .. l) /\ Cardinality(1 .. l) = l
  BY FS_Interval
<1>5. ExistsBijection(1 .. l, Range(q))
  BY <1>3 DEF ExistsBijection
<1>6. Cardinality(Range(q)) = Cardinality(1 .. l)
  BY <1>4, <1>5, FS_Bijection
<1> QED BY <1>1, <1>4, <1>6

(* A slab is in the list its objects in use put it in, and in no other.       *)
THEOREM ListsKept == Spec => []ListsRight
<1>1. IInv => ListsRight
  <2> SUFFICES ASSUME IInv PROVE ListsRight
    OBVIOUS
  <2>1. PICK m : m = Memory
    OBVIOUS
  <2>2. Good(m) /\ m.caches = caches /\ m.slabs = slabs
    BY <2>1, InvFacts
  <2>3. \A c : SlabsOf(c) = SlabsIn(m, c)
    BY <2>2 DEF SlabsOf, SlabsIn
  <2>4. ASSUME NEW c \in DOMAIN m.caches, NEW k, k = m.caches[c]
        PROVE  /\ Range(Lists(k)) = SlabsIn(m, c)
               /\ Len(Lists(k)) = Cardinality(SlabsIn(m, c))
               /\ \A s \in Range(k.free) : m.slabs[s].bsy = 0
               /\ \A s \in Range(k.busy) :
                    /\ m.slabs[s].bsy > 0
                    /\ m.slabs[s].bsy < m.slabs[s].cnt \/ m.slabs[s].cnt = 1
               /\ \A s \in Range(k.full) : m.slabs[s].bsy = m.slabs[s].cnt
    <3>1. /\ OpenSlab(m, k) /\ Once(Lists(k)) /\ Range(Lists(k)) = SlabsIn(m, c)
          /\ \A s \in Range(k.full) : m.slabs[s].bsy = m.slabs[s].cnt
          /\ k \in CacheRecord
      BY <2>2, <2>4 DEF Good, Listed, Typed
    <3>2. Lists(k) \in Seq(Address)
      <4>1. k.free \in Seq(Address) /\ k.busy \in Seq(Address) /\ k.full \in Seq(Address)
        BY <3>1 DEF CacheRecord
      <4> QED BY <4>1, ConcatProperties DEF Lists
    <3>3. Len(Lists(k)) = Cardinality(SlabsIn(m, c))
      BY <3>1, <3>2, OnceLength
    <3>4. Range(<< >>) = {} /\ \A s : Range(<<s>>) = {s}
      BY DEF Range
    <3>5. /\ \A s \in Range(k.free) : m.slabs[s].bsy = 0
          /\ \A s \in Range(k.busy) :
                /\ m.slabs[s].bsy > 0
                /\ m.slabs[s].bsy < m.slabs[s].cnt \/ m.slabs[s].cnt = 1
      <4>1. CASE k.free = << >> /\ k.busy = << >>
        BY <3>4, <4>1
      <4>2. ASSUME NEW s \in DOMAIN m.slabs,
                   k.free = <<s>> /\ k.busy = << >> /\ m.slabs[s].bsy = 0
            PROVE  /\ Range(k.free) = {s} /\ Range(k.busy) = {} /\ m.slabs[s].bsy = 0
        BY <3>4, <4>2
      <4>3. ASSUME NEW s \in DOMAIN m.slabs,
                   /\ k.free = << >> /\ k.busy = <<s>> /\ m.slabs[s].bsy > 0
                   /\ m.slabs[s].bsy < m.slabs[s].cnt \/ m.slabs[s].cnt = 1
            PROVE  Range(k.free) = {} /\ Range(k.busy) = {s}
        BY <3>4, <4>3
      <4>4. \/ k.free = << >> /\ k.busy = << >>
            \/ \E s \in DOMAIN m.slabs :
                  k.free = <<s>> /\ k.busy = << >> /\ m.slabs[s].bsy = 0
            \/ \E s \in DOMAIN m.slabs :
                  /\ k.free = << >> /\ k.busy = <<s>> /\ m.slabs[s].bsy > 0
                  /\ m.slabs[s].bsy < m.slabs[s].cnt \/ m.slabs[s].cnt = 1
        BY <3>1 DEF OpenSlab
      <4> QED BY <4>1, <4>2, <4>3, <4>4
    <3> QED BY <3>1, <3>3, <3>5
  <2> QED BY <2>2, <2>3, <2>4 DEF ListsRight, Lists
<1> QED BY <1>1, Invariance, PTL

(* Where the objects of a slab are.                                           *)
LEMMA Layout ==
    ASSUME NEW m, Good(m), NEW s \in DOMAIN m.slabs, NEW d \in Nat, Begins(m, s, d)
    PROVE  LET r == m.slabs[s]
               k == m.caches[r.cache]
           IN /\ r \in SlabRecord /\ k \in CacheRecord /\ Shaped(k)
              /\ r.cache \in DOMAIN m.caches /\ r.page \in 1 .. m.blocks
              /\ r.bsy \in 0 .. r.cnt /\ r.cnt = k.nobjs
              /\ \A o \in m.out : o.at[1] = r.page =>
                    /\ o.cache = r.cache
                    /\ \E j \in 0 .. r.cnt - 1 : o.at = <<r.page, d + j * k.osize>>
<1>1. PICK r, k : r = m.slabs[s] /\ k = m.caches[r.cache]
  OBVIOUS
<1>2. /\ SlabRight(m, s) /\ r \in SlabRecord
  BY <1>1 DEF Good, Typed
<1>3. /\ r.cache \in DOMAIN m.caches /\ r.page \in 1 .. m.blocks
      /\ r.bsy \in 0 .. r.cnt /\ r.cnt = k.nobjs
  BY <1>1, <1>2 DEF SlabRight
<1>4. k \in CacheRecord /\ Shaped(k)
  BY <1>1, <1>3 DEF Good, Typed
<1>5. {o \in m.out : o.at[1] = r.page} = Given(r, d, k.osize)
  BY <1>1 DEF Begins
<1>6. ASSUME NEW o \in m.out, o.at[1] = r.page
      PROVE  /\ o.cache = r.cache
             /\ \E j \in 0 .. r.cnt - 1 : o.at = <<r.page, d + j * k.osize>>
  <2>1. o \in Given(r, d, k.osize)
    BY <1>5, <1>6
  <2>2. PICK j \in (r.cnt - r.bsy) .. (r.cnt - 1) :
          o = [cache |-> r.cache, at |-> <<r.page, d + j * k.osize>>]
    BY <2>1 DEF Given
  <2>3. j \in 0 .. r.cnt - 1
    BY <1>2, <1>3, <2>2 DEF SlabRecord
  <2> QED BY <2>2, <2>3
<1> QED BY <1>1, <1>2, <1>3, <1>4, <1>6

(* The j-th of n objects of z bytes.                                          *)
LEMMA Spaced ==
    ASSUME NEW d \in Nat, NEW z \in Positive, NEW n \in Nat, NEW i \in 0 .. n - 1,
           NEW j \in 0 .. n - 1
    PROVE  /\ d + i * z \in Nat /\ d <= d + i * z
           /\ d + i * z + z <= d + n * z
           /\ i < j => d + i * z + z <= d + j * z
<1>1. z \in Nat
  BY DEF Positive
<1>2. ASSUME NEW l \in Nat, i < l PROVE i * z + z <= l * z
  <2>1. PICK x \in Nat : l = i + 1 + x
    <3>1. l - (i + 1) \in Nat /\ l = i + 1 + (l - (i + 1))
      BY <1>2
    <3> QED BY <3>1
  <2>2. l * z = i * z + z + x * z
    BY <1>1, <2>1
  <2>3. x * z \in Nat /\ i * z \in Nat
    BY <1>1, <2>1
  <2> QED BY <1>1, <2>2, <2>3
<1>3. PICK a \in Nat, b \in Nat, c \in Nat : a = i * z /\ b = j * z /\ c = n * z
  BY <1>1
<1>4. a + z <= c
  BY <1>2, <1>3
<1>5. i < j => a + z <= b
  BY <1>2, <1>3
<1> QED BY <1>1, <1>3, <1>4, <1>5

(* The state is well formed.                                                  *)
THEOREM TypeCorrect == Spec => []TypeOK
<1>1. IInv => TypeOK
  <2> SUFFICES ASSUME IInv PROVE TypeOK
    OBVIOUS
  <2>1. PICK m : m = Memory
    OBVIOUS
  <2>2. /\ Good(m) /\ m.caches = caches /\ m.slabs = slabs /\ m.blocks = blocks
        /\ m.blocks \in Nat
    BY <2>1, InvFacts DEF Good, Typed
  <2>3. ASSUME NEW c \in DOMAIN m.caches, NEW k, k = m.caches[c]
        PROVE  k.nobjs > 0 /\ k.nxtcol \in 0 .. k.colors - 1 /\ k.bsy \in 0 .. k.cnt
    <3>1. /\ k \in CacheRecord /\ Shaped(k) /\ Listed(m, c) /\ Counted(m, c) /\ Typed(m)
      BY <2>2, <2>3 DEF Good, Typed
    <3>2. PICK x, y : x = Len(Lists(k)) /\ y = Len(k.full)
      OBVIOUS
    <3>3. PICK j \in Positive : j = k.nobjs
      BY <3>1 DEF CacheRecord
    <3>4. k.full \in Seq(Address) /\ y \in Nat
      <4>1. k.full \in Seq(Address)
        BY <3>1 DEF CacheRecord
      <4> QED BY <3>2, <4>1
    <3>5. j \in Nat /\ j * y \in Nat /\ j * (y + 1) = j * y + j
      BY <3>4 DEF Positive
    <3>6. PICK w \in Nat : w = j * y
      BY <3>5
    <3>7. CASE Exhausted(k)
      <4>1. Lists(k) = k.full /\ k.busy = << >>
        BY <3>1, <3>7, Together DEF Exhausted
      <4>2. k.cnt = j * y /\ k.bsy = j * y + 0
        BY <2>3, <3>1, <3>2, <3>3, <4>1 DEF Counted
      <4> QED BY <3>1, <3>3, <3>6, <4>2 DEF Shaped, Positive
    <3>8. CASE ~Exhausted(k)
      <4>1. PICK s : s = Candidate(k)
        OBVIOUS
      <4>2. /\ s \in DOMAIN m.slabs /\ s \in SlabsIn(m, c)
            /\ (k.free = <<s>> /\ k.busy = << >>) \/ (k.free = << >> /\ k.busy = <<s>>)
        BY <2>3, <3>1, <3>8, <4>1, CandidateIs
      <4>3. Lists(k) = <<s>> \o k.full /\ s \in Address
        BY <2>3, <3>1, <4>2, Members
      <4>4. x = y + 1
        BY <3>2, <3>4, <4>3, Prepend
      <4>5. PICK b \in Nat : b = (IF k.busy = << >> THEN 0 ELSE m.slabs[Head(k.busy)].bsy) /\ b <= j
        <5>1. m.slabs[s].bsy \in 0 .. m.slabs[s].cnt /\ m.slabs[s].cnt = j
          BY <2>2, <2>3, <3>3, <4>2 DEF Good, SlabRight, SlabsIn
        <5>2. k.busy # << >> => Head(k.busy) = s
          BY <4>2
        <5> QED BY <5>1, <5>2 DEF Positive
      <4>6. k.cnt = w + j /\ k.bsy = w + b
        BY <2>3, <3>1, <3>2, <3>3, <3>5, <3>6, <4>4, <4>5 DEF Counted
      <4> QED BY <3>1, <3>3, <4>5, <4>6 DEF Shaped, Positive
    <3> QED BY <3>7, <3>8
  <2>4. ASSUME NEW s \in DOMAIN m.slabs, NEW r, r = m.slabs[s]
        PROVE  /\ r.page \in 1 .. m.blocks /\ r.bsy \in 0 .. r.cnt
               /\ \A i \in DOMAIN r.free : r.free[i] \in {r.page} \X Nat
    <3>1. PICK d \in 0 .. Block(MAX_ORDER) : Begins(m, s, d)
      BY <2>2 DEF Good, SlabRight
    <3>2. d \in Nat
      OBVIOUS
    <3>3. PICK k : k = m.caches[r.cache]
      OBVIOUS
    <3>4. /\ r \in SlabRecord /\ k \in CacheRecord /\ r.page \in 1 .. m.blocks
          /\ r.bsy \in 0 .. r.cnt
      BY <2>2, <2>4, <3>1, <3>2, <3>3, Layout
    <3>5. r.free = Objects(r.cnt - r.bsy, r.page, d, k.osize)
      BY <2>4, <3>1, <3>3 DEF Begins
    <3>6. PICK w \in Nat, z \in Positive : w = r.cnt - r.bsy /\ z = k.osize
      <4>1. k.osize \in Positive
        BY <3>4 DEF CacheRecord
      <4>2. r.cnt - r.bsy \in Nat
        BY <3>4 DEF SlabRecord
      <4> QED BY <4>1, <4>2
    <3>7. ASSUME NEW i \in DOMAIN r.free PROVE r.free[i] \in {r.page} \X Nat
      <4>1. i \in 1 .. w /\ r.free[i] = <<r.page, d + (w - i) * z>>
        BY <3>5, <3>6 DEF Objects
      <4>2. PICK y \in Nat : y = (w - i) * z
        <5>1. w - i \in Nat /\ z \in Nat
          BY <4>1 DEF Positive
        <5> QED BY <5>1
      <4> QED BY <3>2, <4>1, <4>2
    <3> QED BY <3>4, <3>7
  <2> QED BY <2>2, <2>3, <2>4 DEF TypeOK, IInv
<1> QED BY <1>1, Invariance, PTL

(* The bytes in use of a slab whose objects begin at d: the header, which     *)
(* ends at d at the latest, and the objects.                                  *)
Used(x, r, s, d, z) ==
    \/ x = [from |-> s[2], size |-> SLAB + r.cnt * BUF] /\ s[2] + SLAB + r.cnt * BUF <= d
    \/ \E j \in 0 .. r.cnt - 1 : x = [from |-> d + j * z, size |-> z]

LEMMA UsedApart ==
    ASSUME NEW r \in SlabRecord, NEW s \in Address, NEW d \in Nat, NEW z \in Positive,
           NEW b \in Nat, d + r.cnt * z <= b,
           NEW x, NEW y, Used(x, r, s, d, z), Used(y, r, s, d, z)
    PROVE  /\ x.from + x.size <= b
           /\ x.from <= y.from /\ x # y => x.from + x.size <= y.from
<1>1. PICK n \in Nat, f \in Nat : n = r.cnt /\ f = s[2]
  BY DEF SlabRecord, Address
<1>2. PICK h \in Nat : h = SLAB + n * BUF /\ h = SLAB + r.cnt * BUF /\ h > 0
  <2>1. n * BUF \in Nat /\ SLAB \in Nat /\ SLAB > 0
    BY Sizes DEF Positive
  <2> QED BY <1>1, <2>1
<1>3. z \in Nat /\ z > 0 /\ n * z \in Nat
  BY DEF Positive
<1> DEFINE Head1(a) == a = [from |-> f, size |-> h] /\ f + h <= d
           Body(a, j) == a = [from |-> d + j * z, size |-> z]
<1>4. ASSUME NEW a, Used(a, r, s, d, z)
      PROVE  Head1(a) \/ \E j \in 0 .. n - 1 : Body(a, j)
  <2>1. s[2] + SLAB + r.cnt * BUF = f + h
    <3>1. n * BUF \in Nat /\ SLAB \in Nat
      BY Sizes DEF Positive
    <3> QED BY <1>1, <1>2, <3>1
  <2> QED BY <1>1, <1>2, <1>4, <2>1 DEF Used
<1>5. ASSUME NEW j \in 0 .. n - 1
      PROVE  /\ d + j * z \in Nat /\ d <= d + j * z /\ d + j * z + z <= d + n * z
  BY Spaced
<1>6. x.from + x.size <= b
  <2>1. CASE Head1(x)
    BY <1>1, <1>2, <1>3, <2>1
  <2>2. ASSUME NEW j \in 0 .. n - 1, Body(x, j) PROVE x.from + x.size <= b
    BY <1>1, <1>3, <1>5, <2>2
  <2> QED BY <1>4, <2>1, <2>2
<1>7. ASSUME x.from <= y.from, x # y PROVE x.from + x.size <= y.from
  <2>1. CASE Head1(x) /\ Head1(y)
    BY <1>7, <2>1
  <2>2. ASSUME Head1(x), NEW j \in 0 .. n - 1, Body(y, j) PROVE x.from + x.size <= y.from
    BY <1>2, <1>5, <2>2
  <2>3. ASSUME Head1(y), NEW j \in 0 .. n - 1, Body(x, j) PROVE FALSE
    BY <1>2, <1>5, <1>7, <2>3
  <2>4. ASSUME NEW i \in 0 .. n - 1, NEW j \in 0 .. n - 1, Body(x, i), Body(y, j)
        PROVE  x.from + x.size <= y.from
    <3>1. i # j
      BY <1>7, <2>4
    <3>2. i < j => d + i * z + z <= d + j * z
      BY Spaced
    <3>3. j < i => d + j * z + z <= d + i * z
      BY Spaced
    <3>4. d + i * z <= d + j * z
      BY <1>7, <2>4
    <3>5. PICK u \in Nat, v \in Nat : u = d + i * z /\ v = d + j * z
      BY <1>5
    <3>6. u + z <= v
      BY <1>3, <3>1, <3>2, <3>3, <3>4, <3>5
    <3> QED BY <2>4, <3>5, <3>6
  <2> QED BY <1>4, <2>1, <2>2, <2>3, <2>4
<1> QED BY <1>6, <1>7

(* No byte of a block is in use twice, whatever the colour of its slab.       *)
THEOREM BytesApart == Spec => []Apart
<1>1. IInv => Apart
  <2> SUFFICES ASSUME IInv PROVE Apart
    OBVIOUS
  <2>1. PICK m : m = Memory
    OBVIOUS
  <2>2. /\ Good(m) /\ m.caches = caches /\ m.slabs = slabs /\ m.out = out
    BY <2>1, InvFacts
  <2>3. SUFFICES ASSUME NEW s \in DOMAIN slabs, NEW k, k = caches[slabs[s].cache],
                        NEW areas, areas = Areas(slabs[s].page)
                 PROVE  /\ \A x, y \in areas : x.from <= y.from /\ x # y => x.from + x.size <= y.from
                        /\ \A x \in areas : x.from + x.size <= Block(k.order)
                        /\ \A o \in out : o.at[1] = slabs[s].page =>
                             o.cache = slabs[s].cache /\ o.at[2] % k.align = 0
    BY DEF Apart
  <2>4. PICK r : r = m.slabs[s]
    OBVIOUS
  <2>5. PICK d \in 0 .. Block(MAX_ORDER) : Begins(m, s, d)
    BY <2>2, <2>3 DEF Good, SlabRight
  <2>6. d \in Nat /\ s \in DOMAIN m.slabs /\ s \in Address
    BY <2>2, <2>3 DEF Good, Typed
  <2>7. /\ r \in SlabRecord /\ k \in CacheRecord /\ Shaped(k)
        /\ \A o \in m.out : o.at[1] = r.page =>
              /\ o.cache = r.cache
              /\ \E j \in 0 .. r.cnt - 1 : o.at = <<r.page, d + j * k.osize>>
    <3>1. k = m.caches[m.slabs[s].cache]
      BY <2>2, <2>3
    <3> QED BY <2>2, <2>4, <2>5, <2>6, <3>1, Layout
  <2>8. PICK z \in Positive, n \in Nat, a \in Positive :
          z = k.osize /\ n = r.cnt /\ a = k.align
    BY <2>7 DEF CacheRecord, SlabRecord
  <2>9. /\ d % a = 0 /\ d + n * z <= Block(k.order) /\ z % a = 0
        /\ OnSlab(z) => s[1] = r.page /\ s[2] + SLAB + n * BUF <= d
    BY <2>2, <2>3, <2>4, <2>5, <2>7, <2>8 DEF Begins, Shaped
  <2>10. ASSUME NEW x \in areas PROVE Used(x, r, s, d, z)
    <3>1. CASE \E o \in out : o.at[1] = r.page /\ x = [from |-> o.at[2], size |-> caches[o.cache].osize]
      <4>1. PICK o \in out :
              o.at[1] = r.page /\ x = [from |-> o.at[2], size |-> caches[o.cache].osize]
        BY <3>1
      <4>2. PICK j \in 0 .. r.cnt - 1 : o.cache = r.cache /\ o.at = <<r.page, d + j * z>>
        BY <2>2, <2>7, <2>8, <4>1
      <4>3. x = [from |-> d + j * z, size |-> z]
        BY <2>2, <2>3, <2>4, <2>8, <4>1, <4>2
      <4> QED BY <4>3 DEF Used
    <3>2. CASE \E t \in DOMAIN slabs \ Large :
                 t[1] = r.page /\ x = [from |-> t[2], size |-> SLAB + slabs[t].cnt * BUF]
      <4>1. PICK t \in DOMAIN slabs \ Large :
              t[1] = r.page /\ x = [from |-> t[2], size |-> SLAB + slabs[t].cnt * BUF]
        BY <3>2
      <4>2. OnSlab(m.caches[m.slabs[t].cache].osize) /\ t \in DOMAIN m.slabs
        BY <2>2, <4>1 DEF Large
      <4>3. t[1] = m.slabs[t].page
        <5>1. PICK e \in 0 .. Block(MAX_ORDER) : Begins(m, t, e)
          BY <2>2, <4>2 DEF Good, SlabRight
        <5> QED BY <4>2, <5>1 DEF Begins
      <4>4. t = s
        BY <2>2, <2>4, <2>6, <4>1, <4>2, <4>3 DEF Good, PagesApart
      <4>5. OnSlab(z)
        BY <2>2, <2>3, <2>8, <4>2, <4>4
      <4>6. s[2] + SLAB + r.cnt * BUF <= d
        BY <2>8, <2>9, <4>5
      <4> QED BY <2>2, <2>4, <4>1, <4>4, <4>6 DEF Used
    <3> QED BY <2>2, <2>3, <2>4, <2>10, <3>1, <3>2 DEF Areas
  <2>11. PICK b \in Nat : b = Block(k.order)
    <3>1. k.order \in 0 .. MAX_ORDER
      BY <2>7, Sizes DEF Shaped, Positive
    <3> QED BY <3>1, BlockFacts DEF Positive
  <2>12. ASSUME NEW x \in areas, NEW y \in areas
         PROVE  /\ x.from + x.size <= b
                /\ x.from <= y.from /\ x # y => x.from + x.size <= y.from
    <3>1. Used(x, r, s, d, z) /\ Used(y, r, s, d, z)
      BY <2>10
    <3>2. d + r.cnt * z <= b
      BY <2>8, <2>9, <2>11
    <3> QED BY ONLY <2>6, <2>7, <3>1, <3>2, UsedApart
  <2>13. ASSUME NEW o \in out, o.at[1] = slabs[s].page
         PROVE  o.cache = slabs[s].cache /\ o.at[2] % k.align = 0
    <3>1. PICK j \in 0 .. r.cnt - 1 : o.cache = r.cache /\ o.at = <<r.page, d + j * z>>
      BY <2>2, <2>4, <2>7, <2>8, <2>13
    <3>2. z \in Nat /\ j \in Nat /\ a \in Positive
      BY <2>8, <3>1 DEF Positive
    <3>3. (j * z) % a = 0
      BY ONLY <2>9, <3>2, Multiples
    <3>4. PICK w \in Nat : w = j * z
      BY <3>2
    <3>5. (d + w) % a = 0
      <4>1. w % a = 0
        BY <3>3, <3>4
      <4> QED BY ONLY <2>6, <2>9, <3>2, <4>1, Multiples
    <3> QED BY <2>2, <2>4, <2>8, <3>1, <3>4, <3>5
  <2> QED BY <2>11, <2>12, <2>13
<1> QED BY <1>1, Invariance, PTL

-------------------------------------------------------------------------------
(* The allocator is a heap from which nothing is freed.                       *)

(* Object o is the j-th of slab s, whose objects begin at byte d.             *)
IsAt(m, o, s, d, j) ==
    LET r == m.slabs[s]
        k == m.caches[r.cache]
    IN /\ o.cache = r.cache /\ o.cache \in DOMAIN m.caches
       /\ o.at = <<r.page, d + j * k.osize>>
       /\ j \in 0 .. r.cnt - 1 /\ r.cnt \in Nat /\ k.osize \in Positive
       /\ r.page \in 1 .. m.blocks
       /\ d + r.cnt * k.osize <= Block(MAX_ORDER) /\ Begins(m, s, d)

(* Two objects share no byte.                                                 *)
LEMMA ObjectsApart ==
    ASSUME NEW m, Good(m), NEW o \in m.out, NEW p \in m.out
    PROVE  LET z == m.caches[o.cache].osize
               y == m.caches[p.cache].osize
           IN /\ o.cache \in DOMAIN m.caches /\ z \in Positive
              /\ Flat(o.at) \in Nat /\ Block(MAX_ORDER) \in Nat
              /\ Flat(o.at) + z <= (m.blocks + 1) * Block(MAX_ORDER)
              /\ o # p => Flat(o.at) + z <= Flat(p.at) \/ Flat(p.at) + y <= Flat(o.at)
<1>1. PICK B \in Positive : B = Block(MAX_ORDER)
  <2>1. MAX_ORDER \in 0 .. MAX_ORDER
    BY Sizes DEF Positive
  <2> QED BY <2>1, BlockFacts
<1>2. B \in Nat /\ m.blocks \in Nat
  BY DEF Positive, Good, Typed
<1>3. ASSUME NEW q \in m.out
      PROVE  \E s \in DOMAIN m.slabs, d \in Nat, j \in Nat : IsAt(m, q, s, d, j)
  <2>1. PICK s \in DOMAIN m.slabs : q.at[1] = m.slabs[s].page
    BY DEF Good, OutOfSlabs
  <2>2. PICK d \in 0 .. Block(MAX_ORDER) : Begins(m, s, d)
    BY DEF Good, SlabRight
  <2>3. d \in Nat
    OBVIOUS
  <2>4. PICK r, k : r = m.slabs[s] /\ k = m.caches[r.cache]
    OBVIOUS
  <2>5. /\ r \in SlabRecord /\ k \in CacheRecord /\ Shaped(k)
        /\ r.cache \in DOMAIN m.caches /\ r.page \in 1 .. m.blocks
        /\ \A a \in m.out : a.at[1] = r.page =>
              /\ a.cache = r.cache
              /\ \E j \in 0 .. r.cnt - 1 : a.at = <<r.page, d + j * k.osize>>
    BY <2>2, <2>3, <2>4, Layout
  <2>6. PICK j \in 0 .. r.cnt - 1 : q.at = <<r.page, d + j * k.osize>>
    BY <2>1, <2>4, <2>5
  <2>7. q.cache = r.cache
    BY <2>1, <2>4, <2>5
  <2>8. r.cnt \in Nat /\ k.osize \in Positive
    BY <2>5 DEF SlabRecord, CacheRecord
  <2>9. d + r.cnt * k.osize <= B
    <3>1. d + r.cnt * k.osize <= Block(k.order)
      BY <2>2, <2>4 DEF Begins
    <3>2. k.order \in 0 .. MAX_ORDER
      BY <2>5, Sizes DEF Shaped, Positive
    <3>3. PICK x \in Nat : x = Block(k.order) /\ x <= B
      BY <1>1, <3>2, BlockFacts DEF Positive
    <3>4. PICK w \in Nat : w = r.cnt * k.osize
      BY <2>8 DEF Positive
    <3> QED BY <1>2, <2>3, <3>1, <3>3, <3>4
  <2>10. j \in Nat /\ j \in 0 .. r.cnt - 1
    BY <2>6, <2>8
  <2>11. IsAt(m, q, s, d, j)
    BY <1>1, <2>2, <2>4, <2>5, <2>6, <2>7, <2>8, <2>9 DEF IsAt
  <2> QED BY <2>3, <2>10, <2>11
<1>4. PICK s \in DOMAIN m.slabs, d \in Nat, i \in Nat : IsAt(m, o, s, d, i)
  BY <1>3
<1>5. PICK t \in DOMAIN m.slabs, e \in Nat, j \in Nat : IsAt(m, p, t, e, j)
  BY <1>3
<1>6. PICK f, z, n, g, y, l :
        /\ f = m.slabs[s].page /\ z = m.caches[o.cache].osize /\ n = m.slabs[s].cnt
        /\ g = m.slabs[t].page /\ y = m.caches[p.cache].osize /\ l = m.slabs[t].cnt
  OBVIOUS
<1>7. /\ o.at = <<f, d + i * z>> /\ i \in 0 .. n - 1 /\ n \in Nat /\ z \in Positive
      /\ f \in 1 .. m.blocks /\ d + n * z <= B /\ o.cache \in DOMAIN m.caches
  BY <1>1, <1>4, <1>6 DEF IsAt
<1>8. /\ p.at = <<g, e + j * y>> /\ j \in 0 .. l - 1 /\ l \in Nat /\ y \in Positive
      /\ g \in 1 .. m.blocks /\ e + l * y <= B
  BY <1>1, <1>5, <1>6 DEF IsAt
<1>9. PICK u \in Nat : u = d + i * z /\ u + z <= B
  <2>1. /\ d + i * z \in Nat /\ d + i * z + z <= d + n * z
    BY <1>7, Spaced
  <2>2. PICK w \in Nat, x \in Nat : w = n * z /\ x = d + i * z
    BY <1>7, <2>1 DEF Positive
  <2> QED BY <1>2, <1>7, <2>1, <2>2 DEF Positive
<1>10. PICK v \in Nat : v = e + j * y /\ v + y <= B
  <2>1. /\ e + j * y \in Nat /\ e + j * y + y <= e + l * y
    BY <1>8, Spaced
  <2>2. PICK w \in Nat, x \in Nat : w = l * y /\ x = e + j * y
    BY <1>8, <2>1 DEF Positive
  <2> QED BY <1>2, <1>8, <2>1, <2>2 DEF Positive
<1>11. f \in Nat /\ g \in Nat /\ z \in Nat /\ z > 0 /\ y \in Nat /\ y > 0
  BY <1>2, <1>7, <1>8 DEF Positive
<1>12. Flat(o.at) = f * B + u /\ Flat(p.at) = g * B + v
  BY <1>1, <1>7, <1>8, <1>9, <1>10 DEF Flat
<1>13. ASSUME NEW a \in Nat, NEW b \in Nat, a < b PROVE a * B + B <= b * B
  <2>1. PICK x \in Nat : b = a + 1 + x
    <3>1. b - (a + 1) \in Nat /\ b = a + 1 + (b - (a + 1))
      BY <1>13
    <3> QED BY <3>1
  <2>2. b * B = a * B + B + x * B
    BY <1>2, <2>1
  <2>3. x * B \in Nat /\ a * B \in Nat
    BY <1>2
  <2> QED BY <1>2, <2>2, <2>3
<1>14. PICK fb \in Nat, gb \in Nat, mb \in Nat :
         fb = f * B /\ gb = g * B /\ mb = (m.blocks + 1) * B
  BY <1>2, <1>11
<1>15. Flat(o.at) \in Nat /\ Flat(o.at) + z <= (m.blocks + 1) * B
  <2>1. fb + B <= mb
    BY <1>2, <1>7, <1>11, <1>13, <1>14
  <2> QED BY <1>2, <1>9, <1>11, <1>12, <1>14, <2>1
<1>16. ASSUME o # p
       PROVE  Flat(o.at) + z <= Flat(p.at) \/ Flat(p.at) + y <= Flat(o.at)
  <2>1. CASE f < g
    <3>1. fb + B <= gb
      BY <1>11, <1>13, <1>14, <2>1
    <3> QED BY <1>2, <1>9, <1>10, <1>11, <1>12, <1>14, <3>1
  <2>2. CASE g < f
    <3>1. gb + B <= fb
      BY <1>11, <1>13, <1>14, <2>2
    <3> QED BY <1>2, <1>9, <1>10, <1>11, <1>12, <1>14, <3>1
  <2>3. CASE f = g
    <3>1. s = t
      BY <1>6, <2>3 DEF Good, PagesApart
    <3>2. o.cache = p.cache /\ z = y /\ n = l
      BY <1>4, <1>5, <1>6, <3>1 DEF IsAt
    <3>3. PICK h \in 0 .. n - 1 : p.at = <<f, d + h * z>>
      <4>1. d \in Nat /\ Begins(m, s, d)
        BY <1>4 DEF IsAt
      <4>2. \A a \in m.out : a.at[1] = m.slabs[s].page =>
              \E h \in 0 .. m.slabs[s].cnt - 1 :
                a.at = <<m.slabs[s].page, d + h * m.caches[m.slabs[s].cache].osize>>
        BY <4>1, Layout
      <4>3. m.caches[m.slabs[s].cache].osize = z
        BY <1>1, <1>4, <1>6 DEF IsAt
      <4>4. p.at[1] = f
        BY <1>8, <2>3
      <4> QED BY <1>6, <4>2, <4>3, <4>4
    <3>4. v = d + h * z
      BY <1>8, <1>10, <3>3
    <3>5. i # h
      <4>1. o \in Object /\ p \in Object
        BY DEF Good, Typed
      <4>2. o = [cache |-> o.cache, at |-> o.at] /\ p = [cache |-> p.cache, at |-> p.at]
        BY <4>1 DEF Object
      <4> QED BY <1>7, <1>16, <3>2, <3>3, <4>2
    <3>6. i < h => u + z <= v
      BY <1>7, <1>9, <3>3, <3>4, Spaced
    <3>7. h < i => v + z <= u
      BY <1>7, <1>9, <3>3, <3>4, Spaced
    <3>8. u + z <= v \/ v + z <= u
      BY <1>7, <3>3, <3>5, <3>6, <3>7
    <3>9. Flat(o.at) = fb + u /\ Flat(p.at) = fb + v
      BY <1>12, <1>14, <2>3
    <3> QED BY <1>9, <1>10, <1>11, <3>2, <3>8, <3>9
  <2> QED BY <1>11, <2>1, <2>2, <2>3
<1> QED BY <1>1, <1>2, <1>6, <1>7, <1>15, <1>16

(* The callers' objects in memory m, and their lengths by their address.      *)
UsersIn(m) == {o \in m.out : o.cache > CacheBuf}
LiveIn(m) ==
    [a \in {Flat(o.at) : o \in UsersIn(m)} |->
        m.caches[(CHOOSE o \in UsersIn(m) : Flat(o.at) = a).cache].osize]

LEMMA LiveFacts ==
    ASSUME NEW m, Good(m)
    PROVE  /\ DOMAIN LiveIn(m) = {Flat(o.at) : o \in UsersIn(m)}
           /\ \A o \in UsersIn(m) : LiveIn(m)[Flat(o.at)] = m.caches[o.cache].osize
           /\ LiveIn(m) = [a \in DOMAIN LiveIn(m) |-> LiveIn(m)[a]]
<1>1. DOMAIN LiveIn(m) = {Flat(o.at) : o \in UsersIn(m)}
  BY DEF LiveIn
<1>2. ASSUME NEW o \in UsersIn(m) PROVE LiveIn(m)[Flat(o.at)] = m.caches[o.cache].osize
  <2>1. PICK p : p = CHOOSE q \in UsersIn(m) : Flat(q.at) = Flat(o.at)
    OBVIOUS
  <2>2. p \in UsersIn(m) /\ Flat(p.at) = Flat(o.at)
    BY <2>1
  <2>3. LiveIn(m)[Flat(o.at)] = m.caches[p.cache].osize
    BY <2>1 DEF LiveIn
  <2>4. p = o
    <3>1. o \in m.out /\ p \in m.out
      BY <2>2 DEF UsersIn
    <3>2. PICK z, y, a : /\ z = m.caches[o.cache].osize /\ y = m.caches[p.cache].osize
                         /\ a = Flat(o.at)
      OBVIOUS
    <3>3. z \in Positive /\ y \in Positive /\ a \in Nat
      BY <3>1, <3>2, ObjectsApart
    <3>4. o # p => a + z <= Flat(p.at) \/ Flat(p.at) + y <= a
      BY <3>1, <3>2, ObjectsApart
    <3> QED BY <2>2, <3>2, <3>3, <3>4 DEF Positive
  <2> QED BY <2>3, <2>4
<1>3. LiveIn(m) = [a \in DOMAIN LiveIn(m) |-> LiveIn(m)[a]]
  <2>1. PICK f : f = LiveIn(m)
    OBVIOUS
  <2>2. f = [a \in DOMAIN f |-> f[a]]
    BY <2>1 DEF LiveIn
  <2> QED BY <2>1, <2>2
<1> QED BY <1>1, <1>2, <1>3

LEMMA LiveIsIn == ASSUME NEW m, m = Memory PROVE Live = LiveIn(m)
<1>1. m.caches = caches /\ m.out = out
  BY DEF Memory
<1> QED BY <1>1 DEF Live, LiveIn, UserObjects, UsersIn

(* Memory n is m with an object of cache c handed out.                        *)
LEMMA AllocateRefines ==
    ASSUME NEW m, Good(m), Serves(m), NEW c \in DOMAIN m.caches, c > CacheBuf, NEW o,
           NEW n, Allocated(m, n, c, o), n.blocks <= MaxBlocks,
           Live = LiveIn(m), Live' = LiveIn(n)
    PROVE  Abstract!Next
<1>1. /\ Good(n) /\ DOMAIN n.caches = DOMAIN m.caches
      /\ \A e \in DOMAIN m.caches : n.caches[e].osize = m.caches[e].osize
      /\ o \in Object /\ o.cache = c /\ o \notin m.out
      /\ OutFrom(n, c) = OutFrom(m, c) \cup {o}
      /\ \A e : e \notin {c, CacheSlab, CacheBuf} => OutFrom(n, e) = OutFrom(m, e)
  BY DEF Allocated, Same
<1>2. o \in UsersIn(n) /\ o \in n.out
  BY <1>1 DEF UsersIn, OutFrom
<1>3. UsersIn(n) = UsersIn(m) \cup {o} /\ o \notin UsersIn(m)
  <2>1. ASSUME NEW e, e > CacheBuf PROVE e \notin {CacheSlab, CacheBuf}
    BY <2>1 DEF CacheSlab, CacheBuf
  <2>2. ASSUME NEW q \in UsersIn(n) PROVE q \in UsersIn(m) \cup {o}
    <3>1. q \in n.out /\ q.cache > CacheBuf /\ q \in OutFrom(n, q.cache)
      BY DEF UsersIn, OutFrom
    <3>2. q \in OutFrom(m, q.cache) \/ q = o
      BY <1>1, <2>1, <3>1
    <3> QED BY <3>1, <3>2 DEF UsersIn, OutFrom
  <2>3. ASSUME NEW q \in UsersIn(m) PROVE q \in UsersIn(n)
    <3>1. q \in m.out /\ q.cache > CacheBuf /\ q \in OutFrom(m, q.cache)
      BY DEF UsersIn, OutFrom
    <3>2. q \in OutFrom(n, q.cache)
      BY <1>1, <2>1, <3>1
    <3> QED BY <3>1, <3>2 DEF UsersIn, OutFrom
  <2> QED BY <1>1, <1>2, <2>2, <2>3 DEF UsersIn
<1>4. PICK a, z, B : /\ a = Flat(o.at) /\ z = m.caches[c].osize /\ B = Block(MAX_ORDER)
                     /\ z = n.caches[o.cache].osize
  BY <1>1
<1>5. /\ a \in Nat /\ z \in Positive /\ B \in Nat /\ a + z <= (n.blocks + 1) * B
  BY <1>1, <1>2, <1>4, ObjectsApart
<1>6. ASSUME NEW q \in UsersIn(m)
      PROVE  /\ LiveIn(m)[Flat(q.at)] = m.caches[q.cache].osize
             /\ LiveIn(n)[Flat(q.at)] = m.caches[q.cache].osize
             /\ Flat(q.at) \in Nat /\ m.caches[q.cache].osize \in Positive
             /\ a + z <= Flat(q.at) \/ Flat(q.at) + m.caches[q.cache].osize <= a
  <2>1. q \in m.out /\ q \in UsersIn(n) /\ q \in n.out /\ q # o
    BY <1>3 DEF UsersIn
  <2>2. /\ q.cache \in DOMAIN m.caches /\ m.caches[q.cache].osize \in Positive
        /\ Flat(q.at) \in Nat
    BY <2>1, ObjectsApart
  <2>3. n.caches[q.cache].osize = m.caches[q.cache].osize
    BY <1>1, <2>2
  <2>4. LiveIn(m)[Flat(q.at)] = m.caches[q.cache].osize
    BY LiveFacts
  <2>5. LiveIn(n)[Flat(q.at)] = m.caches[q.cache].osize
    BY <1>1, <2>1, <2>3, LiveFacts
  <2>6. a + z <= Flat(q.at) \/ Flat(q.at) + m.caches[q.cache].osize <= a
    BY <1>1, <1>2, <1>4, <2>1, <2>3, ObjectsApart
  <2> QED BY <2>2, <2>4, <2>5, <2>6
<1>7. LiveIn(n)[a] = z
  BY <1>1, <1>2, <1>4, LiveFacts
<1>8. /\ DOMAIN LiveIn(n) = DOMAIN LiveIn(m) \cup {a}
      /\ \A x \in DOMAIN LiveIn(m) : \E q \in UsersIn(m) : x = Flat(q.at)
  <2>1. DOMAIN LiveIn(m) = {Flat(q.at) : q \in UsersIn(m)}
    BY LiveFacts
  <2>2. DOMAIN LiveIn(n) = {Flat(q.at) : q \in UsersIn(n)}
    BY <1>1, LiveFacts
  <2> QED BY <1>3, <1>4, <2>1, <2>2
<1>9. ASSUME NEW x \in DOMAIN LiveIn(m)
      PROVE  /\ LiveIn(n)[x] = LiveIn(m)[x] /\ x # a
             /\ (a .. a + z - 1) \cap (x .. x + LiveIn(m)[x] - 1) = {}
  <2>1. PICK q \in UsersIn(m) : x = Flat(q.at)
    BY <1>8
  <2>2. PICK y : y = m.caches[q.cache].osize
    OBVIOUS
  <2>3. /\ LiveIn(m)[x] = y /\ LiveIn(n)[x] = y /\ x \in Nat /\ y \in Positive
        /\ a + z <= x \/ x + y <= a
    BY <1>6, <2>1, <2>2
  <2>4. x # a /\ (a .. a + z - 1) \cap (x .. x + y - 1) = {}
    BY <1>5, <2>3 DEF Positive
  <2> QED BY <2>3, <2>4
<1>10. Live' = [b \in DOMAIN Live \cup {a} |-> IF b = a THEN Live'[a] ELSE Live[b]]
  <2>1. PICK f, g : f = LiveIn(m) /\ g = LiveIn(n)
    OBVIOUS
  <2>2. g = [b \in DOMAIN g |-> g[b]]
    BY <1>1, <2>1, LiveFacts
  <2>3. DOMAIN g = DOMAIN f \cup {a} /\ \A x \in DOMAIN f : g[x] = f[x] /\ x # a
    BY <1>8, <1>9, <2>1
  <2>4. g = [b \in DOMAIN f \cup {a} |-> IF b = a THEN g[a] ELSE f[b]]
    BY ONLY <2>2, <2>3
  <2> QED BY <2>1, <2>4
<1>11. Abstract!Bytes(a, Live'[a])
          \subseteq Abstract!Bytes(0, Flat(<<MaxBlocks + 1, 0>>) - 0)
  <2>1. MaxBlocks \in Nat /\ n.blocks \in Nat
    BY <1>1, SizeAssumption DEF Good, Typed
  <2>2. PICK x \in Nat : MaxBlocks = n.blocks + x
    <3>1. MaxBlocks - n.blocks \in Nat /\ MaxBlocks = n.blocks + (MaxBlocks - n.blocks)
      BY <2>1
    <3> QED BY <3>1
  <2>3. (MaxBlocks + 1) * B = (n.blocks + 1) * B + x * B /\ x * B \in Nat
    BY <1>5, <2>1, <2>2
  <2>4. PICK u \in Nat, v \in Nat, w \in Nat :
          u = (MaxBlocks + 1) * B /\ v = (n.blocks + 1) * B /\ w = x * B
    BY <1>5, <2>1, <2>3
  <2>5. a + z <= u
    BY <1>5, <2>3, <2>4 DEF Positive
  <2>6. Flat(<<MaxBlocks + 1, 0>>) = u
    BY <1>4, <2>4 DEF Flat
  <2>7. a .. a + z - 1 \subseteq 0 .. 0 + (u - 0) - 1
    BY <1>5, <2>5 DEF Positive
  <2> QED BY <1>7, <2>6, <2>7 DEF Abstract!Bytes
<1>12. PICK u \in Users : z >= u[1]
  BY <1>4 DEF Serves
<1>13. Abstract!Malloc(u[1])
  <2>1. a \in (DOMAIN Live') \ DOMAIN Live
    BY <1>8, <1>9
  <2>2. Live'[a] >= u[1]
    BY <1>7, <1>12
  <2>3. \A b \in DOMAIN Live : Abstract!Bytes(a, Live'[a]) \cap Abstract!Bytes(b, Live[b]) = {}
    BY <1>7, <1>9 DEF Abstract!Bytes
  <2> QED BY <1>10, <1>11, <2>1, <2>2, <2>3 DEF Abstract!Malloc
<1> QED BY <1>13 DEF Abstract!Next

(* A cache more leaves the callers' objects as they are.                      *)
LEMMA RegisterLive ==
    ASSUME NEW m, Good(m), NEW n, NEW k, RegisteredAs(m, n, k)
    PROVE  LiveIn(n) = LiveIn(m)
<1>1. /\ Good(n) /\ \A e \in DOMAIN m.caches : n.caches[e].osize = m.caches[e].osize
      /\ \A e : e # CA => OutFrom(n, e) = OutFrom(m, e)
  BY DEF RegisteredAs, Same
<1>2. UsersIn(n) = UsersIn(m)
  <2>1. ASSUME NEW e, e > CacheBuf PROVE e # CA
    BY <2>1 DEF CA, CacheBuf
  <2>2. ASSUME NEW q PROVE q \in UsersIn(n) <=> q \in UsersIn(m)
    BY <1>1, <2>1 DEF UsersIn, OutFrom
  <2> QED BY <2>2
<1>3. PICK f, g : f = LiveIn(m) /\ g = LiveIn(n)
  OBVIOUS
<1>4. DOMAIN f = {Flat(o.at) : o \in UsersIn(m)} /\ DOMAIN g = DOMAIN f
  BY <1>1, <1>2, <1>3, LiveFacts
<1>5. ASSUME NEW x \in DOMAIN f PROVE f[x] = g[x]
  <2>1. PICK o \in UsersIn(m) : x = Flat(o.at)
    BY <1>4
  <2>2. o.cache \in DOMAIN m.caches
    <3>1. o \in m.out
      BY DEF UsersIn
    <3> QED BY <3>1, ObjectsApart
  <2>3. f[x] = m.caches[o.cache].osize
    BY <1>3, <2>1, LiveFacts
  <2>4. g[x] = n.caches[o.cache].osize
    BY <1>1, <1>2, <1>3, <2>1, LiveFacts
  <2> QED BY <1>1, <2>2, <2>3, <2>4
<1>6. f = [a \in DOMAIN f |-> f[a]] /\ g = [a \in DOMAIN g |-> g[a]]
  BY <1>1, <1>3, LiveFacts
<1>7. f = g
  BY ONLY <1>4, <1>5, <1>6
<1> QED BY <1>3, <1>7

(* A memory that is not committed leaves the callers' objects as they are.    *)
LEMMA CommitLive ==
    ASSUME NEW n, Good(n), Commit(n)
    PROVE  \/ n.blocks <= MaxBlocks /\ Live' = LiveIn(n)
           \/ Live' = Live
<1>1. CASE n.blocks <= MaxBlocks
  <2>1. caches' = n.caches /\ out' = n.out
    BY <1>1 DEF Commit
  <2>2. Live' = LiveIn(n)
    BY <2>1 DEF Live, LiveIn, UserObjects, UsersIn
  <2> QED BY <1>1, <2>2
<1>2. CASE ~(n.blocks <= MaxBlocks)
  <2>1. caches' = caches /\ out' = out
    BY <1>2 DEF Commit
  <2> QED BY <2>1 DEF Live, UserObjects
<1> QED BY <1>1, <1>2

LEMMA StepRefines == IInv /\ [Next]_vars => [Abstract!Next]_Live
<1> SUFFICES ASSUME IInv, [Next]_vars PROVE Abstract!Next \/ Live' = Live
  OBVIOUS
<1>1. PICK m : m = Memory
  OBVIOUS
<1>2. Good(m) /\ Serves(m) /\ m.caches = caches /\ DOMAIN m.caches = 1 .. Len(caches)
  BY <1>1, InvFacts
<1>3. Live = LiveIn(m)
  BY <1>1, LiveIsIn
<1>4. ASSUME NEW u \in Users, slab_register(u[1], u[2]) PROVE Live' = Live
  <2>1. PICK n, k : n = Registered(m, u[1], u[2]) /\ k = _slab_cache_init(u[1], u[2])
    OBVIOUS
  <2>2. Len(caches) < MaxCaches /\ Commit(n)
    BY <1>1, <1>4, <2>1 DEF slab_register
  <2>3. RegisteredAs(m, n, k)
    BY <1>1, <2>1, <2>2, RegisterStep
  <2>4. Good(n) /\ LiveIn(n) = LiveIn(m)
    BY <1>2, <2>3, RegisterLive DEF RegisteredAs
  <2> QED BY <1>3, <2>2, <2>4, CommitLive
<1>5. ASSUME NEW c \in CacheBuf + 1 .. Len(caches), slab_allocate(c)
      PROVE  Abstract!Next \/ Live' = Live
  <2>1. PICK n : n = Detach(Ready(m, c), c)
    OBVIOUS
  <2>2. HasObject(Ready(m, c), c) /\ Commit(n)
    BY <1>1, <1>5, <2>1 DEF slab_allocate
  <2>3. PICK o : Allocated(m, n, c, o)
    BY <1>1, <2>1, <2>2, AllocateStep
  <2>4. Good(n)
    BY <2>3 DEF Allocated
  <2>5. CASE Live' = Live
    BY <2>5
  <2>6. CASE n.blocks <= MaxBlocks /\ Live' = LiveIn(n)
    <3>1. c \in DOMAIN m.caches /\ c > CacheBuf
      BY <1>2 DEF CacheBuf
    <3> QED BY ONLY <1>2, <1>3, <2>3, <2>6, <3>1, AllocateRefines
  <2> QED BY <2>2, <2>4, <2>5, <2>6, CommitLive
<1>6. ASSUME NEW c, AllocateNull(c) PROVE Live' = Live
  BY <1>6 DEF AllocateNull, Live, UserObjects
<1>7. CASE UNCHANGED vars
  BY <1>7 DEF vars, Live, UserObjects
<1> QED BY <1>4, <1>5, <1>6, <1>7 DEF Next

LEMMA InitRefines == Init => Abstract!Init
<1> SUFFICES ASSUME Init PROVE Abstract!Init
  OBVIOUS
<1>1. PICK m : m = Memory
  OBVIOUS
<1>2. \A e : e # CA => OutFrom(m, e) = {}
  BY <1>1, InitInv
<1>3. UsersIn(m) = {}
  <2>1. ASSUME NEW q \in UsersIn(m) PROVE FALSE
    <3>1. q \in OutFrom(m, q.cache) /\ q.cache > CacheBuf
      BY DEF UsersIn, OutFrom
    <3>2. q.cache # CA
      BY <3>1 DEF CA, CacheBuf
    <3> QED BY <1>2, <3>1, <3>2
  <2> QED BY <2>1
<1>4. LiveIn(m) = [a \in {} |-> 0]
  <2>1. {Flat(o.at) : o \in UsersIn(m)} = {}
    BY <1>3
  <2> QED BY <2>1 DEF LiveIn
<1>5. Live = LiveIn(m)
  BY <1>1, LiveIsIn
<1> QED BY <1>4, <1>5 DEF Abstract!Init

(* An object handed out is as long as asked for, lies in the blocks taken and *)
(* shares no byte with another, and is never taken back.                      *)
THEOREM Refinement == Spec => ImplementsHeap
<1>1. Init => Abstract!Init
  BY InitRefines
<1>2. IInv /\ [Next]_vars => [Abstract!Next]_Live
  BY StepRefines
<1> QED BY <1>1, <1>2, Invariance, PTL DEF Spec, ImplementsHeap, Abstract!Spec

===============================================================================
