------------------------------ MODULE LoaderHeap ------------------------------
(* The loader's heap (src/loader/krn/mm.c): the boundary tags of HeapTags and *)
(* the bins that say which free chunk serves a request.  Chunks shorter than  *)
(* 256 bytes are in 32 small bins, each a ring; the others in the tries of    *)
(* LargeBins.  The bins are one record: sb, lb and the links node of every    *)
(* free chunk, which lie in its payload and are gone once it is handed out.   *)
(*                                                                            *)
(* The arena's header is RAM that mm_init does not write; the model starts    *)
(* from RAM that holds zeros.                                                 *)
EXTENDS Arena, LargeBins, Sequences

MAX_SMALL == 256
SB_COUNT == 32

VARIABLES
    tag,      \* the chunks' headers
    bins,     \* the free lists
    hung      \* a call is in mm_unlink_large's endless loop
vars == <<tag, bins, hung>>

Tags == INSTANCE HeapTags

Sizes(t) == [p \in DOMAIN t |-> t[p].size]
FreeChunks == {p \in DOMAIN tag : Tags!IsFree(p)}

-------------------------------------------------------------------------------

(* mm_link_small: a ring of its own, or behind the head of the bin's ring.    *)
mm_link_small(b, size, p) ==
    LET i == size[p] \div 8
        h == b.sb[i]
        node == [q \in DOMAIN b.node \cup {p} |-> IF q = p THEN Fresh(p, 0) ELSE b.node[q]]
    IN IF h = NULL THEN [b EXCEPT !.sb[i] = p, !.node = node]
       ELSE [b EXCEPT !.node = JoinRing(node, p, h)]

(* Mutant: the chunk behind keeps its prev.                                   *)
mm_unlink_smallOneWay(b, size, p) ==
    LET x == b.node[p]
        next == IF x.next = x.prev THEN NULL ELSE x.next
    IN [b EXCEPT !.node = [@ EXCEPT ![x.prev].next = x.next],
                 !.sb[size[p] \div 8] = IF @ = p THEN next ELSE @]

(* mm_unlink_small: out of its ring.  A ring of two chunks looks like a ring  *)
(* of one here, so when its head leaves, the bin becomes empty.               *)
mm_unlink_small(b, size, p) ==
    LET x == b.node[p]
        next == IF x.next = x.prev THEN NULL ELSE x.next
    IN [b EXCEPT !.node = [[@ EXCEPT ![x.next].prev = x.prev] EXCEPT ![x.prev].next = x.next],
                 !.sb[size[p] \div 8] = IF @ = p THEN next ELSE @]

(* mm_link and mm_unlink; the links of a chunk that left are its payload.     *)
mm_link(b, size, p) ==
    IF size[p] < MAX_SMALL THEN mm_link_small(b, size, p) ELSE mm_link_large(b, size, p)

mm_unlink(b, size, p) ==
    LET out == IF size[p] < MAX_SMALL THEN mm_unlink_small(b, size, p)
                                      ELSE mm_unlink_large(b, p)
    IN [out EXCEPT !.node = [q \in DOMAIN @ \ {p} |-> @[q]]]

Hangs(p) == tag[p].size >= MAX_SMALL /\ UnlinkHangs(bins, p)

(* mm_find_small: the last bin that is not empty and can serve, or a large    *)
(* chunk.                                                                     *)
mm_find_small(s) ==
    LET serving == {j \in s \div 8 .. SB_COUNT - 1 : bins.sb[j] # NULL}
    IN IF serving = {} THEN mm_find_large(bins, Sizes(tag), MAX_SMALL)
       ELSE bins.sb[CHOOSE j \in serving : \A k \in serving : k <= j]

(* Mutant: starts at the bin below, whose chunks may be too short.            *)
FoundLow(s) ==
    IF s >= MAX_SMALL THEN mm_find_large(bins, Sizes(tag), s) ELSE mm_find_small(s - 8)

Found(s) ==
    IF s >= MAX_SMALL THEN mm_find_large(bins, Sizes(tag), s) ELSE mm_find_small(s)

-------------------------------------------------------------------------------
Init ==
    /\ Tags!mm_init
    /\ LET empty == [sb |-> [i \in 0 .. SB_COUNT - 1 |-> NULL],
                     lb |-> [i \in 0 .. LB_COUNT - 1 |-> NULL],
                     node |-> << >>]
       IN bins = mm_link(empty, Sizes(tag), First)
    /\ hung = FALSE

(* mm_split, its effect on the bins: p leaves its bin, the rest enters one.   *)
SplitBins(p, sreq) ==
    LET out == mm_unlink(bins, Sizes(tag), p)
    IN IF Tags!Splits(p, sreq)
       THEN mm_link(out, Sizes(Tags!SplitTags(p, sreq)), p + sreq + WORD)
       ELSE out

mm_malloc(size) ==
    LET sreq == Rounded(size)
        p == Found(sreq)
    IN /\ ~hung
       /\ p # NULL
       /\ ~Hangs(p)
       /\ bins' = SplitBins(p, sreq)
       /\ tag' = Tags!SplitTags(p, sreq)
       /\ UNCHANGED hung

(* mm_malloc returns 0.                                                       *)
mm_malloc_fails(size) ==
    /\ ~hung
    /\ Found(Rounded(size)) = NULL
    /\ UNCHANGED vars

(* The chunks mm_coalesce takes out of their bins, in this order.             *)
CoalesceLeavers(p) ==
    (IF Tags!Forward(p) THEN <<Tags!mm_next(p)>> ELSE << >>)
    \o (IF Tags!Backward(p) THEN <<Tags!mm_prev(p)>> ELSE << >>)

(* The bins when the first k leavers have left.                               *)
Left(p, k) ==
    LET out[n \in 0 .. k] ==
            IF n = 0 THEN bins
            ELSE mm_unlink(out[n - 1], Sizes(tag), CoalesceLeavers(p)[n])
    IN out[k]

FreeHangs(p) ==
    \E k \in DOMAIN CoalesceLeavers(p) :
        LET q == CoalesceLeavers(p)[k]
        IN tag[q].size >= MAX_SMALL /\ UnlinkHangs(Left(p, k - 1), q)

mm_free(p) ==
    /\ ~hung
    /\ ~FreeHangs(p)
    /\ bins' = mm_link(Left(p, Len(CoalesceLeavers(p))),
                       Sizes(Tags!CoalesceTags(p)), Tags!MergedBgn(p))
    /\ tag' = Tags!CoalesceTags(p)
    /\ UNCHANGED hung

(* The call that never returns; nothing else runs.                            *)
Hang ==
    /\ ~hung
    /\ \/ \E size \in Requests : LET p == Found(Rounded(size)) IN p # NULL /\ Hangs(p)
       \/ \E p \in Tags!Live : FreeHangs(p)
    /\ hung' = TRUE
    /\ UNCHANGED <<tag, bins>>

Next ==
    \/ \E size \in Requests : mm_malloc(size) \/ mm_malloc_fails(size)
    \/ \E p \in Tags!Live : mm_free(p)
    \/ Hang

Spec == Init /\ [][Next]_vars

-------------------------------------------------------------------------------
(* The chunks that malloc can come to from the head of a bin.                 *)
SmallBin(i) == Reachable(bins, bins.sb[i])
LargeBin(i) == Reachable(bins, bins.lb[i])

(* "Add chunk to small free list", "Remove chunk from small free list"        *)
(* (mm.c:540, 559): the links of a small bin join free chunks of its lengths, *)
(* both ways, after any order of calls.  A small free chunk is in its bin, or *)
(* in none and alone: the comment at line 286 says that it always is in one,  *)
(* but the second of a ring of two is left behind when the first leaves it    *)
(* (line 569).                                                                *)
SmallRings ==
    /\ \A i \in 0 .. SB_COUNT - 1 :
        SmallBin(i) \subseteq {p \in FreeChunks : tag[p].size \div 8 = i}
    /\ \A p \in FreeChunks : tag[p].size < MAX_SMALL =>
        LET x == bins.node[p]
        IN /\ {x.next, x.prev} \subseteq FreeChunks
           /\ bins.node[x.next].prev = p /\ bins.node[x.prev].next = p
           /\ p \in SmallBin(tag[p].size \div 8) \/ x.next = p

(* "Remove chunk from large free list" (mm.c:580): a large chunk that was     *)
(* handed out is gone from the tries and their rings, so that no search comes *)
(* to it again.                                                               *)
LargeBinsFree == \A i \in 0 .. LB_COUNT - 1 : LargeBin(i) \subseteq FreeChunks

(* In an arena with room for two large chunks of a bin: every free chunk of   *)
(* 256 bytes or more can be found from its bin, whichever of the two became   *)
(* the root or left it, and a request that long is refused only when no free  *)
(* chunk would do.                                                            *)
LargeFound ==
    /\ \A p \in FreeChunks : tag[p].size >= MAX_SMALL =>
            p \in LargeBin(mm_slot_large(tag[p].size))
    /\ \A size \in Requests :
        LET s == Rounded(size)
        IN s >= MAX_SMALL /\ Found(s) = NULL => \A p \in FreeChunks : tag[p].size < s

(* The bins choose among the chunks that HeapTags allows: what malloc finds   *)
(* is free and long enough.                                                   *)
ImplementsTags == Tags!Spec

(* The invariants of the boundary tags and the promise to callers, of the     *)
(* heap with its bins: mm_coalesce relies on psz, pbusy and on there being no *)
(* two free neighbours, and a block handed out shares no byte with another.   *)
Tiling == Tags!Tiling
TagsAgree == Tags!TagsAgree
NoFreeNeighbours == Tags!NoFreeNeighbours
ImplementsHeap == Tags!ImplementsHeap
===============================================================================
