-------------------------------- MODULE Formats --------------------------------
(* What a format and its arguments mean, as the C standard has it, for the part *)
(* of it that the three printf functions of the repository handle: items that   *)
(* are characters or directives, none of them with a precision of 0, how they   *)
(* are spelled and what they print.  Characters are strings of length 1;        *)
(* numbers have BYTE, HALF, INT or LONG bits in place of 8, 16, 32 and 64.      *)
EXTENDS Integers, Sequences
LOCAL INSTANCE SequencesExt

CONSTANTS BYTE, HALF, INT, LONG

ASSUME BitsAssumption ==
    /\ {BYTE, HALF, INT, LONG} \subseteq Nat \ {0}
    /\ BYTE < HALF /\ HALF < INT /\ INT < LONG

(* An item: a character c, a directive that nobody knows, which stands for its  *)
(* characters, or a directive.  Width and precision are numbers, or None; when  *)
(* they are stars, arguments.                                                   *)
None == -1
Chr(c) == [is |-> "chr", c |-> c]
Unknown(text) == [is |-> "unknown", text |-> text]
Directive(flags, width, wstar, prec, pstar, mod, conv, arg) ==
    [is |-> "dir", flags |-> flags, width |-> width, wstar |-> wstar,
     prec |-> prec, pstar |-> pstar, mod |-> mod, conv |-> conv, arg |-> arg]

DigitOf == <<"0", "1", "2", "3", "4", "5", "6", "7", "8", "9", "a", "b", "c", "d", "e", "f">>

Repeat(c, n) == [k \in 1 .. n |-> c]

(* The digits of n: as many as it takes, each the quotient by its own power.    *)
Places(n, base) == CHOOSE k \in 1 .. LONG : base^k > n /\ (k = 1 \/ base^(k - 1) <= n)
Digits(n, base) == [i \in 1 .. Places(n, base) |->
                       DigitOf[((n \div base^(Places(n, base) - i)) % base) + 1]]

--------------------------------------------------------------------------------
FlagOrder == <<"#", "0", "-", "+", " ">>
Spelled(n, star) == IF star THEN <<"*">> ELSE IF n = None THEN << >> ELSE Digits(n, 10)

Spell(d) ==
    IF d.is = "chr" THEN IF d.c = "%" THEN <<"%", "%">> ELSE <<d.c>>
    ELSE IF d.is = "unknown" THEN d.text
    ELSE <<"%">> \o SelectSeq(FlagOrder, LAMBDA f : f \in d.flags)
                 \o Spelled(d.width, d.wstar)
                 \o (IF d.prec = None THEN << >> ELSE <<".">> \o Spelled(d.prec, d.pstar))
                 \o d.mod \o <<d.conv>>

Arguments(d) ==
    IF d.is # "dir" THEN << >>
    ELSE (IF d.wstar THEN <<d.width>> ELSE << >>) \o (IF d.pstar THEN <<d.prec>> ELSE << >>)
            \o <<d.arg>>

Bits(d) == CASE d.mod = <<"h", "h">> -> BYTE
             [] d.mod = <<"h">>      -> HALF
             [] d.mod = <<"l">>      -> LONG
             [] d.mod = << >>        -> INT

Low(n, bits) == n % 2^bits
Signed(n, bits) == IF Low(n, bits) >= 2^(bits - 1) THEN Low(n, bits) - 2^bits ELSE Low(n, bits)
Magnitude(n) == IF n < 0 THEN -n ELSE n

(* A negative width asks for the left.                                          *)
Left(d)  == "-" \in d.flags \/ (d.wstar /\ d.width < 0)
Room(d)  == IF d.width = None /\ ~ d.wstar THEN 0 ELSE Magnitude(d.width)
Least0(n) == IF n < 0 THEN 0 ELSE n

(* Sign or prefix and then the digits, with zeros up to the precision or, with  *)
(* flag 0 alone, up to the width.                                               *)
Number(d, sign, digits) ==
    LET zeros == IF d.prec > 0 THEN Least0(d.prec - Len(digits))
                 ELSE IF "0" \in d.flags /\ ~ Left(d) THEN Least0(Room(d) - Len(digits) - Len(sign))
                 ELSE 0
    IN  sign \o Repeat("0", zeros) \o digits

Sign(d) == IF Signed(d.arg, Bits(d)) < 0 THEN <<"-">>
           ELSE IF "+" \in d.flags THEN <<"+">>
           ELSE IF " " \in d.flags THEN <<" ">> ELSE << >>

Prefix(d) == IF "#" \in d.flags /\ Low(d.arg, Bits(d)) # 0 THEN <<"0", "x">> ELSE << >>

Body(d) ==
    CASE d.conv \in {"d", "i"} -> Number(d, Sign(d), Digits(Magnitude(Signed(d.arg, Bits(d))), 10))
      [] d.conv = "u" -> Number(d, << >>, Digits(Low(d.arg, Bits(d)), 10))
      [] d.conv = "o" -> Number(d, << >>, Digits(Low(d.arg, Bits(d)), 8))
      [] d.conv = "x" -> Number(d, Prefix(d), Digits(Low(d.arg, Bits(d)), 16))
      [] d.conv = "s" -> IF d.prec > 0 /\ d.prec < Len(d.arg) THEN SubSeq(d.arg, 1, d.prec) ELSE d.arg

Spaces(d) == Repeat(" ", Least0(Room(d) - Len(Body(d))))

(* What an item prints.                                                         *)
Printed(d) ==
    IF d.is = "chr" THEN <<d.c>>
    ELSE IF d.is = "unknown" THEN d.text
    ELSE IF Left(d) THEN Body(d) \o Spaces(d) ELSE Spaces(d) \o Body(d)

(* The format, the arguments and the output of a sequence of items.             *)
Format(items) == FlattenSeq([k \in DOMAIN items |-> Spell(items[k])])
AllArguments(items) == FlattenSeq([k \in DOMAIN items |-> Arguments(items[k])])
Meaning(items) == FlattenSeq([k \in DOMAIN items |-> Printed(items[k])])

(* The arguments of the items that end within the first n characters, and of    *)
(* those that begin there.                                                      *)
Upto(items, k) == SubSeq(items, 1, k)
ArgumentsEnded(items, n) ==
    Len(AllArguments(Upto(items, CHOOSE k \in 0 .. Len(items) :
        /\ Len(Format(Upto(items, k))) <= n
        /\ k = Len(items) \/ Len(Format(Upto(items, k + 1))) > n)))
ArgumentsBegun(items, n) ==
    Len(AllArguments(Upto(items, CHOOSE k \in 0 .. Len(items) :
        /\ Len(Format(Upto(items, k))) >= n
        /\ k = 0 \/ Len(Format(Upto(items, k - 1))) < n)))
================================================================================
