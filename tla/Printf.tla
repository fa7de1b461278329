-------------------------------- MODULE Printf --------------------------------
(* The three printf functions, each given formats that the C standard gives a   *)
(* meaning and whose directives are in its tables.                              *)
EXTENDS KernelPrintf, LoaderPrintf
LOCAL INSTANCE SequencesExt

CONSTANT Formatted(_)   (* What the callers of a library mean.                  *)

vars == <<lib, items, p, taken, out, jt, fmt, s, stat, spec>>

Init ==
    /\ lib \in {"kernel", "boot", "loader"}
    /\ items \in Formatted(lib)
    /\ CallInit /\ KernelInit /\ LoaderInit

Ends == (KernelEnds \/ LoaderEnds) /\ UNCHANGED vars

Next ==
    \/ KernelNext /\ UNCHANGED <<s, stat, spec>>
    \/ BootReads /\ UNCHANGED <<s, stat, spec>>
    \/ BootPuts /\ UNCHANGED <<s, stat, spec>>
    \/ LoaderNext /\ UNCHANGED <<jt, fmt>>
    \/ Ends

Spec == Init /\ [][Next]_vars

--------------------------------------------------------------------------------
(* The directive that a function takes d for, where that is another one.  A     *)
(* negative star is a large unsigned number for the kernel and the loader; the  *)
(* starter's widths and precisions are counted modulo WRAP; the kernel's        *)
(* functions leave flag '#' out and print %X in small letters; the loader does  *)
(* not count the prefix of '#' in a width that is not filled behind or by a     *)
(* precision, so that the field gets two wider.                                 *)
StarRead(n) == IF lib = "boot" THEN n ELSE Low(n, INT)
DigitsRead(n) == IF lib = "boot" /\ n # None THEN n % WRAP ELSE n

Uncounted(d) == lib = "loader" /\ Prefix(d) # << >> /\ d.width # None /\ "-" \notin d.flags /\ d.prec = None

AsRead(d) ==
    IF d.is # "dir" THEN d
    ELSE [d EXCEPT !.width = IF d.wstar THEN StarRead(@) ELSE DigitsRead(@) + (IF Uncounted(d) THEN 2 ELSE 0),
                   !.prec  = IF d.pstar THEN StarRead(@) ELSE DigitsRead(@),
                   !.flags = IF lib = "loader" THEN @ ELSE @ \ {"#"},
                   !.conv  = IF @ = "X" THEN "x" ELSE @]

Means(ds) == Meaning([k \in DOMAIN ds |-> AsRead(ds[k])])

(* A directive whose width or precision is, at one of its digits, over the      *)
(* limit, or whose flags are followed by the point of a precision: the kernel's *)
(* functions give it up.                                                        *)
Over(n, max) == n # None /\ \E k \in 0 .. 3 : DigitsRead(n \div 10^k) > max

Refused(d) ==
    /\ d.is = "dir"
    /\ \/ ~ d.wstar /\ Over(d.width, MAX_WIDTH)
       \/ ~ d.pstar /\ Over(d.prec, MAX_PRECISION)
       \/ d.flags # {} /\ d.width = None /\ ~ d.wstar /\ d.prec # None

Completed == (KernelEnds \/ LoaderEnds) /\ jt # "failure"

(* What was put out is the beginning of what the C standard has for the         *)
(* directives as the function takes them (AsRead), and at the end it is all of  *)
(* it; only the kernel's functions may stop before, at a directive that they    *)
(* refuse.  It is said of the directives of the run: of each function those of  *)
(* its own tables, with no precision of 0, no conversion unknown to the         *)
(* kernel's functions, which leave the directive open, no star behind flags and *)
(* no %#x of 0 for the loader, which prints 0x0.                                *)
Rendered ==
    /\ IsPrefix(out, Means(items))
    /\ Completed => out = Means(items)
    /\ jt = "failure" => \E k \in DOMAIN items :
                            /\ Refused(items[k])
                            /\ out = Means(SubSeq(items, 1, k - 1))

(* The arguments taken are those of the directives read, and some of the one    *)
(* that is being read: no directive takes an argument that is another's, or     *)
(* leaves one of its own to the next.                                           *)
TakesItsOwn ==
    /\ taken >= ArgumentsEnded(items, p - 1)
    /\ taken <= ArgumentsBegun(items, p - 1)
    /\ Completed => taken = Len(AllArguments(items))
================================================================================
