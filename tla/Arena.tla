--------------------------------- MODULE Arena ---------------------------------
(* The loader's arena and the lengths in it (src/loader/krn/mm.c).             *)
EXTENDS Integers

CONSTANTS
    ArenaStart, ArenaEnd,   \* arena->start and arena->end
    Requests                \* the sizes mm_malloc is called with

WORD == 4                   \* sizeof(size_t)
MIN_CHUNK == 4 * WORD

ASSUME ArenaAssumption ==
    /\ ArenaStart \in Nat /\ ArenaStart > WORD
    /\ ArenaEnd \in Nat /\ ArenaEnd - ArenaStart - 2 * WORD >= MIN_CHUNK
ASSUME RequestAssumption == Requests \subseteq Nat

First == ArenaStart - WORD
Last == ArenaEnd - 2 * WORD

(* Mutant: rounds down.                                                       *)
mm_align8Down(size) == size - (size % 8)

(* The size a request is served with.                                         *)
mm_align8(size) == LET r == size - (size % 8) IN IF r = size THEN r ELSE r + 8
Rounded(size) == mm_align8(IF size < MIN_CHUNK THEN MIN_CHUNK ELSE size)
===============================================================================
