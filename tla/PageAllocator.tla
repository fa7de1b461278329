--------------------------- MODULE PageAllocator ---------------------------
(***************************************************************************)
(* What a physical page allocator (struct palloc_vtbl_t, palloc.c)         *)
(* promises its callers: palloc_get returns a naturally aligned block of   *)
(* free pages inside a zone, or 0, and then only when there is no such     *)
(* block; palloc_free makes the pages of a block available again.          *)
(***************************************************************************)
EXTENDS Integers

CONSTANTS
    Order,     (* The orders a caller may ask for.                         *)
    Candidate, (* Candidate[j]: the addresses of the order-j blocks.       *)
    Length,    (* Length[j]: the number of pages of an order-j block.      *)
    Withheld   (* The pages that are never handed out.                     *)

VARIABLES held, result

avars == <<held, result>>

Extent(a, j) == a .. a + Length[j] - 1

(* Block a of order j holds no page that is in use.                        *)
Available(a, j) ==
    /\ Extent(a, j) \cap Withheld = {}
    /\ \A x \in held : Extent(a, j) \cap Extent(x[1], x[2]) = {}

Init == held = {} /\ result = 0

Get(j) ==
    \E a \in Candidate[j] :
        /\ Available(a, j)
        /\ held' = held \cup {<<a, j>>}
        /\ result' = a

Refuse(j) ==
    /\ \A a \in Candidate[j] : ~ Available(a, j)
    /\ result' = 0
    /\ UNCHANGED held

Put(x) == held' = held \ {x} /\ result' = 0

Next == \/ \E j \in Order : Get(j) \/ Refuse(j)
        \/ \E x \in held : Put(x)

Spec == Init /\ [][Next]_avars
=============================================================================
