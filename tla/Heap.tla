--------------------------------- MODULE Heap ---------------------------------
(* What a heap promises its callers: a block it hands out is as long as asked *)
(* for, lies in the arena and shares no byte with a block still in use, and   *)
(* only a block in use is given back.                                         *)
EXTENDS Integers

CONSTANTS ArenaStart, ArenaEnd, Requests

VARIABLE live      \* the length of each block in use, by its address

Bytes(a, z) == a .. a + z - 1

Init == live = [a \in {} |-> 0]

(* A block that is in use after the step, was not before, and is apart from   *)
(* every other.                                                               *)
Malloc(size) ==
    \E a \in (DOMAIN live') \ DOMAIN live :
        /\ live' = [b \in DOMAIN live \cup {a} |-> IF b = a THEN live'[a] ELSE live[b]]
        /\ live'[a] >= size
        /\ Bytes(a, live'[a]) \subseteq Bytes(ArenaStart, ArenaEnd - ArenaStart)
        /\ \A b \in DOMAIN live : Bytes(a, live'[a]) \cap Bytes(b, live[b]) = {}

Free(a) == live' = [b \in DOMAIN live \ {a} |-> live[b]]

Next ==
    \/ \E size \in Requests : Malloc(size)
    \/ \E a \in DOMAIN live : Free(a)

Spec == Init /\ [][Next]_live
===============================================================================
