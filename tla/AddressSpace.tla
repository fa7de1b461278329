----------------------------- MODULE AddressSpace -----------------------------
(* What mapping promises (src/kernel/mm/pg.c): a virtual page that was mapped   *)
(* keeps its physical page for ever, and one step maps one page, or one large   *)
(* block of consecutive pages, that was not mapped before.                      *)
EXTENDS Integers

CONSTANTS
    VPages,     (* The virtual pages.                                           *)
    Large,      (* The number of pages of a large block.                        *)
    NotMapped   (* What a virtual page without a physical one is mapped to.     *)

VARIABLE space  (* The physical page of every virtual page.                     *)

Init == space \in [VPages -> Int \cup {NotMapped}]

(* Pages v .. v + n - 1 of the old space are mapped to n consecutive physical   *)
(* pages in the new one.                                                        *)
Maps(old, new, v, n) ==
    /\ \A w \in v .. v + n - 1 :
          /\ w \in DOMAIN old /\ old[w] = NotMapped
          /\ new[w] # NotMapped /\ new[w] = new[v] + (w - v)
    /\ \A w \in DOMAIN old \ (v .. v + n - 1) : new[w] = old[w]

Grows(old, new) ==
    \E v \in DOMAIN old : Maps(old, new, v, 1) \/ (v % Large = 0 /\ Maps(old, new, v, Large))

Next == Grows(space, space')

Spec == Init /\ [][Next]_space
===============================================================================
