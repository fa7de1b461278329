--------------------------------- MODULE Paths ---------------------------------
(* File names as the loader walks them (src/loader/krn/dm_path.c): the          *)
(* characters c, the element being looked at from s to p, counted from 0.       *)
(* There is no zero behind the characters, so that the search for a separator   *)
(* may run past them: Overruns holds how far behind the end the next '/' may    *)
(* be found, 0 standing for a zero found first.                                 *)
EXTENDS Integers, Sequences

CONSTANT Overruns

ASSUME OverrunsAssumption == Overruns \subseteq Nat /\ 0 \in Overruns

LOCAL Least(S) == CHOOSE k \in S : \A j \in S : k <= j

Path(c) == [c |-> c, s |-> 0, p |-> 0]

HasNext(q) == q.s < Len(q.c)

Size(q) == q.p - q.s

(* What is behind the end is no part of any name.                               *)
Name(q) == SubSeq(q.c \o <<"?", "?">>, q.s + 1, q.p)

(* Characters s .. of q that are not '/', or are.                               *)
LOCAL Others(q, s)     == {k \in s .. Len(q.c) - 1 : q.c[k + 1] # "/"}
LOCAL Separators(q, s) == {k \in s .. Len(q.c) - 1 : q.c[k + 1] = "/"}

LOCAL Skipped(q) == IF q.p >= Len(q.c) THEN q.p
                    ELSE Least(Others(q, q.p) \cup {Len(q.c)})

NextElement(q, over) ==
    IF q.s = Len(q.c) THEN q
    ELSE LET s == Skipped(q)
         IN  [q EXCEPT !.s = s, !.p = Least(Separators(q, s) \cup {Len(q.c) + over})]

Create(filename, over) == NextElement(Path(filename), over)

LOCAL Closed(name) ==
    IF name # << >> /\ name[Len(name)] # "/" THEN Append(name, "/") ELSE name

(* Whether name has to be put in front of a copy, and the path freed.           *)
Moves(q, name) == Len(Closed(name)) >= q.s

(* Name in front of what is left of the path.                                   *)
Prepend(q, name, over) ==
    LET t == Closed(name)
        l == Len(t)
    IN  IF Moves(q, name)
        THEN NextElement(Path(t \o SubSeq(q.c, q.s + 1, Len(q.c))), over)
        ELSE NextElement([c |-> SubSeq(q.c, 1, q.s - l) \o t \o SubSeq(q.c, q.s + 1, Len(q.c)),
                   s |-> q.s - l, p |-> q.s - l], over)
================================================================================
