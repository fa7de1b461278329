----------------------------- MODULE MCLargeBins ------------------------------
(* The tries of the large bins as chunks of any sizes are freed one by one,   *)
(* and what every search in them finds.                                       *)
EXTENDS LargeBins

CONSTANTS
    MaxChunks,     \* how many chunks are freed
    Sizes,         \* the lengths they may have
    Searches       \* the lengths looked for

(* Lengths of large chunks, in as many bits as the tries have depth.          *)
ASSUME SizeAssumption ==
    MaxChunks \in Nat /\ Sizes \cup Searches \subseteq 2^8 .. 2^(DEPTH + 1) - 1

VARIABLES bins, size
vars == <<bins, size>>

Linked == DOMAIN size

Init ==
    /\ bins = [lb |-> [i \in 0 .. LB_COUNT - 1 |-> NULL], node |-> << >>]
    /\ size = << >>

(* The next chunk is freed with some length.                                  *)
Link(s) ==
    LET n == Cardinality(Linked) + 1
        sized == [m \in Linked \cup {n} |-> IF m = n THEN s ELSE size[m]]
    IN /\ n <= MaxChunks
       /\ size' = sized
       /\ bins' = mm_link_large(bins, sized, n)

Next == \E s \in Sizes : Link(s)
Spec == Init /\ [][Next]_vars

-------------------------------------------------------------------------------
(* The comment on mm_find_large ("find best fitting large chunk", mm.c:740):  *)
(* whatever tries the sizes and their order have built, it finds a chunk that *)
(* is long enough if there is one, and none that is shorter would do.         *)
FindsBestFit ==
    \A s \in Searches :
        LET c == mm_find_large(bins, size, s)
        IN IF c = NULL THEN \A n \in Linked : size[n] < s
           ELSE /\ size[c] >= s
                /\ \A n \in Linked : size[n] >= s => size[c] <= size[n]

(* Every freed chunk can be reached from the root of its bin, from no other,  *)
(* and each ring holds just the chunks of one size.                           *)
AllLinked ==
    /\ \A i \in 0 .. LB_COUNT - 1 :
        Reachable(bins, bins.lb[i]) = {n \in Linked : mm_slot_large(size[n]) = i}
    /\ \A n \in Linked :
        LET x == bins.node[n]
        IN /\ bins.node[x.next].prev = n
           /\ bins.node[x.prev].next = n
           /\ size[x.next] = size[n]
===============================================================================
