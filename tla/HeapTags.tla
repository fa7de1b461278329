------------------------------- MODULE HeapTags -------------------------------
(* The boundary tags of the loader's heap (src/loader/krn/mm.c).              *)
(*                                                                            *)
(* The arena is a row of chunks.  A chunk at p has its size and two flags at  *)
(* p + 4 and its payload from p + 8; the next chunk is at p + size + 4, so    *)
(* the word psz a chunk starts with is the payload's last one while the       *)
(* previous chunk is in use.  The last chunk is a sentinel of size 0.  Here a *)
(* request may be served from any free chunk that is long enough; LoaderHeap  *)
(* adds the bins that choose it.                                              *)
EXTENDS Arena

VARIABLE tag      \* the header of the chunk at each address

Chunks == DOMAIN tag

(* A psz that holds the previous chunk's payload.                             *)
Payload == -1

mm_next(p) == p + tag[p].size + WORD
mm_prev(p) == p - tag[p].psz - WORD

IsFree(p) == ~tag[p].cbusy
Live == {p \in Chunks \ {Last} : tag[p].cbusy}
Header(size, cbusy, pbusy, psz) ==
    [size |-> size, cbusy |-> cbusy, pbusy |-> pbusy, psz |-> psz]

-------------------------------------------------------------------------------
(* mm_init: one free chunk and the sentinel behind it.                        *)
mm_init ==
    LET s == ArenaEnd - ArenaStart - 2 * WORD
    IN tag = [p \in {First, Last} |->
                IF p = First THEN Header(s, FALSE, TRUE, Payload)
                             ELSE Header(0, TRUE, FALSE, s)]

(* There is room for a second chunk behind the block.                         *)
Splits(p, sreq) == tag[p].size - sreq >= 5 * WORD

(* Mutant: a chunk taken whole does not tell the next that it is in use.      *)
SplitTagsQuiet(p, sreq) ==
    LET n == p + sreq + WORD
        rest == tag[p].size - sreq - WORD
        e == mm_next(p)
    IN IF Splits(p, sreq)
       THEN [q \in Chunks \cup {n} |->
               CASE q = p -> Header(sreq, TRUE, tag[p].pbusy, tag[p].psz)
                 [] q = n -> Header(rest, FALSE, TRUE, Payload)
                 [] q = e -> [tag[e] EXCEPT !.psz = rest]
                 [] OTHER -> tag[q]]
       ELSE [tag EXCEPT ![p].cbusy = TRUE]

(* mm_split: take the front of the chunk and leave the rest as a free chunk,  *)
(* or take it whole when the rest could not be a chunk.                       *)
SplitTags(p, sreq) ==
    LET n == p + sreq + WORD
        rest == tag[p].size - sreq - WORD
        e == mm_next(p)
    IN IF Splits(p, sreq)
       THEN [q \in Chunks \cup {n} |->
               CASE q = p -> Header(sreq, TRUE, tag[p].pbusy, tag[p].psz)
                 [] q = n -> Header(rest, FALSE, TRUE, Payload)
                 [] q = e -> [tag[e] EXCEPT !.psz = rest]
                 [] OTHER -> tag[q]]
       ELSE [q \in Chunks |->
               CASE q = p -> [tag[p] EXCEPT !.cbusy = TRUE]
                 [] q = e -> [tag[e] EXCEPT !.pbusy = TRUE, !.psz = Payload]
                 [] OTHER -> tag[q]]

(* Mutant: the previous chunk is never merged.                                *)
BackwardNever(p) == FALSE

(* mm_coalesce: whether the next and the previous chunk are free, the chunk   *)
(* they make with p, and the chunks that are swallowed by it.                 *)
Forward(p) == ~tag[mm_next(p)].cbusy
Backward(p) == ~tag[p].pbusy
MergedBgn(p) == IF Backward(p) THEN mm_prev(p) ELSE p
MergedEnd(p) == IF Forward(p) THEN mm_next(mm_next(p)) ELSE mm_next(p)
(* Mutant: the header of the swallowed chunk is forgotten.                    *)
MergedSizeShort(p) ==
      tag[p].size
    + (IF Forward(p) THEN tag[mm_next(p)].size ELSE 0)
    + (IF Backward(p) THEN tag[p].psz + WORD ELSE 0)

(* Two chunks merged gain the header between them.                            *)
MergedSize(p) ==
      tag[p].size
    + (IF Forward(p) THEN tag[mm_next(p)].size + WORD ELSE 0)
    + (IF Backward(p) THEN tag[p].psz + WORD ELSE 0)
Swallowed(p) == (IF Forward(p) THEN {mm_next(p)} ELSE {})
           \cup (IF Backward(p) THEN {p} ELSE {})

CoalesceTags(p) ==
    [q \in Chunks \ Swallowed(p) |->
        CASE q = MergedBgn(p) ->
                [tag[q] EXCEPT !.size = MergedSize(p), !.cbusy = FALSE]
          [] q = MergedEnd(p) ->
                [tag[q] EXCEPT !.psz = MergedSize(p), !.pbusy = FALSE]
          [] OTHER -> tag[q]]

Init == mm_init

mm_malloc(size) ==
    \E p \in Chunks : /\ IsFree(p)
                      /\ tag[p].size >= Rounded(size)
                      /\ tag' = SplitTags(p, Rounded(size))

mm_free(p) == tag' = CoalesceTags(p)

Next ==
    \/ \E size \in Requests : mm_malloc(size)
    \/ \E p \in Live : mm_free(p)

Spec == Init /\ [][Next]_tag

-------------------------------------------------------------------------------
Tags == [size : 0 .. ArenaEnd, cbusy : BOOLEAN, pbusy : BOOLEAN,
         psz : {Payload} \cup (0 .. ArenaEnd)]

(* Headers have sizes of the arena's order and psz is a size or payload.      *)
TypeOK == tag \in [Chunks -> Tags] /\ Chunks \subseteq First .. Last

(* The chunks tile the arena: from any but the sentinel the size leads to     *)
(* another, none begins inside another, and each but the first follows one;   *)
(* so the walk of mm_next from the first chunk meets every chunk and ends.    *)
Tiling ==
    /\ {First, Last} \subseteq Chunks
    /\ tag[Last].size = 0
    /\ \A p \in Chunks \ {Last} : tag[p].size >= MIN_CHUNK /\ mm_next(p) \in Chunks
    /\ \A p, q \in Chunks : p < q => mm_next(p) <= q
    /\ \A q \in Chunks \ {First} : \E p \in Chunks \ {Last} : mm_next(p) = q

(* What a chunk says of its predecessor is true: the pbusy flag always, and   *)
(* the size that mm_prev steps back by whenever the predecessor is free.      *)
TagsAgree ==
    /\ tag[First].pbusy
    /\ tag[Last].cbusy
    /\ \A p \in Chunks \ {Last} :
        LET n == tag[mm_next(p)]
        IN /\ n.pbusy = tag[p].cbusy
           /\ ~tag[p].cbusy => n.psz = tag[p].size

(* Two neighbours are never both free: mm_free merges whenever it can, and    *)
(* mm_coalesce's comment on the chunk after a free one relies on it.          *)
NoFreeNeighbours ==
    \A p \in Chunks \ {Last} : ~tag[p].cbusy => tag[mm_next(p)].cbusy

(* The blocks in use, as a caller sees them: payload address and length.      *)
LiveBlocks == [a \in {p + 2 * WORD : p \in Live} |-> tag[a - 2 * WORD].size]

Abstract == INSTANCE Heap WITH live <- LiveBlocks

(* The tags implement the heap's promise: blocks handed out are long enough,  *)
(* inside the arena and disjoint, and only mm_free takes one back.            *)
ImplementsHeap == Abstract!Spec
===============================================================================
