------------------------------ MODULE LargeBins -------------------------------
(* The large bins of the loader's heap (src/loader/krn/mm.c): 96 bitwise      *)
(* tries of free chunks.  A node is the first chunk of its size, and chunks   *)
(* of equal size hang in its ring; its subtrees part the other sizes of the   *)
(* bin by the next bit of the key.                                            *)
(*                                                                            *)
(* The bins are a record b with lb, the root of each bin, and node, the links *)
(* of each chunk that is in a bin: its neighbours prev and next in the ring,  *)
(* its parent p, its children c[0] and c[1] and its bin i.  size gives the    *)
(* length of each chunk, and 0 is the null pointer.                           *)
EXTENDS Integers, FiniteSets

LB_COUNT == 96
NULL == 0
DEPTH == 20      \* bits in a size: the arena is shorter than 2^20 bytes

(* What the proofs need to know of powers of two.                             *)
ASSUME PowerAssumption ==
    2^0 = 1 /\ \A n \in 0 .. DEPTH : 2^n \in Nat \ {0} /\ 2^(n + 1) = 2 * 2^n

HighBit(v) == CHOOSE n \in 0 .. DEPTH : 2^n <= v /\ v < 2^(n + 1)
Bit(v, n) == IF n < 0 THEN 0 ELSE (v \div 2^n) % 2

(* Four bins to a power of two, from 256 on.                                  *)
mm_slot_large(v) ==
    LET n == HighBit(v) IN 4 * (n - 8) + 2 * Bit(v, n - 1) + Bit(v, n - 2)

(* Mutant: the key starts one bit too low.                                    *)
mm_key_largeLow(v, d) == Bit(v, HighBit(v) - 4 - d)

(* Bit 31 of the key after d shifts: the bits of the size below those that    *)
(* choose the bin, highest first.                                             *)
mm_key_large(v, d) == Bit(v, HighBit(v) - 3 - d)

Fresh(n, i) ==
    [prev |-> n, next |-> n, p |-> NULL, c |-> [j \in 0 .. 1 |-> NULL], i |-> i]

-------------------------------------------------------------------------------
(* The nodes met going down from root by the key of s, as far as one of that  *)
(* size or a missing child.                                                   *)
Path(b, size, root, s) ==
    LET at[d \in 0 .. DEPTH] ==
            IF d = 0 THEN root
            ELSE LET p == at[d - 1]
                 IN IF p = NULL \/ size[p] = s THEN NULL
                    ELSE b.node[p].c[mm_key_large(s, d - 1)]
    IN [d \in 0 .. DEPTH |-> at[d]]

LastDepth(at) == CHOOSE d \in 0 .. DEPTH : at[d] # NULL /\ (d = DEPTH \/ at[d + 1] = NULL)

(* The nodes met going down by the left child, or the right when there is no  *)
(* left.                                                                      *)
Spine(b, root) ==
    LET at[d \in 0 .. DEPTH] ==
            IF d = 0 THEN root
            ELSE LET p == at[d - 1]
                     c == b.node[p].c
                 IN IF p = NULL THEN NULL ELSE c[IF c[0] # NULL THEN 0 ELSE 1]
    IN IF root = NULL THEN {} ELSE {at[d] : d \in 0 .. DEPTH} \ {NULL}

(* Mutant: the chunk that was behind p is not told.                           *)
JoinRingOneWay(node, n, p) ==
    [node EXCEPT ![n].next = node[p].next, ![n].prev = p, ![p].next = n]

(* Put n behind p in its ring.                                                *)
JoinRing(node, n, p) ==
    LET q == node[p].next
    IN [[node EXCEPT ![n].next = q, ![n].prev = p, ![p].next = n] EXCEPT ![q].prev = n]

(* mm_link_large: into the ring of a chunk of the same size, or as a leaf.    *)
mm_link_large(b, size, n) ==
    LET s == size[n]
        i == mm_slot_large(s)
        at == Path(b, size, b.lb[i], s)
        d == LastDepth(at)
        p == at[d]
        node == [m \in DOMAIN b.node \cup {n} |->
                    IF m = n THEN Fresh(n, i) ELSE b.node[m]]
    IN IF b.lb[i] = NULL
       THEN [b EXCEPT !.lb[i] = n, !.node = node]
       ELSE IF size[p] = s
       THEN [b EXCEPT !.node = JoinRing(node, n, p)]
       ELSE [b EXCEPT !.node = [node EXCEPT ![n].p = p, ![p].c[mm_key_large(s, d)] = n]]

(* The search for the rightmost child never leaves the chunk it starts from,  *)
(* so unlinking a chunk that has children and no ring does not return.        *)
UnlinkHangs(b, p) == /\ b.node[p].next = p
                     /\ \E j \in 0 .. 1 : b.node[p].c[j] # NULL

(* Mutant: the bin's root goes with the chunk that leaves.                    *)
UnlinkRingLosesRoot(b, p) ==
    LET x == b.node[p]
    IN [b EXCEPT !.node = [[@ EXCEPT ![x.next].prev = x.prev] EXCEPT ![x.prev].next = x.next],
                 !.lb[x.i] = IF @ = p THEN NULL ELSE @]

(* Out of a ring: the next chunk takes p's place in the tree, if p had one.   *)
(* Its parent field is not set, nor are the children's; a parent that has     *)
(* left is no node any more, and its payload is written instead.              *)
UnlinkRing(b, p) ==
    LET x == b.node[p]
        q == x.next
        detached == [[b.node EXCEPT ![q].prev = x.prev] EXCEPT ![x.prev].next = q]
        inTree == x.p # NULL \/ b.lb[x.i] = p
        copied == IF inTree THEN [detached EXCEPT ![q].c = x.c] ELSE detached
        side == {j \in 0 .. 1 : x.p \in DOMAIN b.node /\ b.node[x.p].c[j] = p}
    IN [b EXCEPT !.node = IF side = {} THEN copied
                          ELSE [copied EXCEPT ![x.p].c[CHOOSE j \in side : TRUE] = q],
                 !.lb[x.i] = IF @ = p THEN q ELSE @]

(* A leaf: its parent forgets it, unless its parent has left.                 *)
UnlinkLeaf(b, p) ==
    LET x == b.node[p]
        j == IF b.node[x.p].c[0] = p THEN 0 ELSE 1
    IN [b EXCEPT !.node = IF x.p \in DOMAIN @ THEN [@ EXCEPT ![x.p].c[j] = NULL] ELSE @,
                 !.lb[x.i] = IF @ = p THEN NULL ELSE @]

(* mm_unlink_large, where it returns.                                         *)
mm_unlink_large(b, p) ==
    IF b.node[p].next # p THEN UnlinkRing(b, p) ELSE UnlinkLeaf(b, p)

-------------------------------------------------------------------------------
(* The smallest of some chunks that is long enough, or NULL.                  *)
Best(size, S, s) ==
    LET fit == {c \in S : size[c] >= s}
    IN IF fit = {} THEN NULL ELSE CHOOSE c \in fit : \A o \in fit : size[c] <= size[o]

(* mm_find_large: along the key's path and down the spine of the last right   *)
(* subtree passed by; then, if that has none, in the spines of all the bins   *)
(* above.                                                                     *)
mm_find_large(b, size, s) ==
    LET i == mm_slot_large(s)
        at == Path(b, size, b.lb[i], s)
        passed == {d \in 0 .. DEPTH - 1 :
                    /\ at[d] # NULL /\ size[at[d]] # s
                    /\ mm_key_large(s, d) = 0
                    /\ b.node[at[d]].c[1] # NULL}
        a == IF passed = {} THEN NULL
             ELSE b.node[at[CHOOSE d \in passed : \A e \in passed : e <= d]].c[1]
        near == Best(size, ({at[d] : d \in 0 .. DEPTH} \ {NULL}) \cup Spine(b, a), s)
        above == UNION {Spine(b, b.lb[j]) : j \in i + 1 .. LB_COUNT - 1}
    IN IF b.lb[i] # NULL /\ near # NULL THEN near ELSE Best(size, above, s)

-------------------------------------------------------------------------------
(* The chunks a search can come to from root: its tree and their rings.       *)
Reachable(b, root) ==
    LET more(S) == S \cup UNION {{b.node[p].next, b.node[p].c[0], b.node[p].c[1]}
                                    : p \in (S \cap DOMAIN b.node)}
        N == Cardinality(DOMAIN b.node)
        from[k \in 0 .. N] == IF k = 0 THEN {root} ELSE more(from[k - 1])
    IN IF root = NULL THEN {} ELSE from[N] \ {NULL}
===============================================================================
