------------------------------ MODULE LoaderPrintf ------------------------------
(* vfprintf of src/loader/utl/printf.c: the format is copied up to the next     *)
(* '%', and a directive is read by the functions read_fmt_ini .. read_fmt_fmt,  *)
(* each of which says which one goes on.  A directive that is not understood is *)
(* copied as far as it was read.                                                *)
EXTENDS PrintfCall

VARIABLES
    s,        (* buf.s: where what is not written yet begins.                   *)
    stat,     (* The state of read_fmt; TEXT when vfprintf copies.              *)
    spec      (* struct fmt_t.                                                  *)

READ == -1           (* PFMT_WREAD and PFMT_PREAD *)

NoSpec == [w |-> 0, p |-> 0, s |-> INT, f |-> {}]

Conversions == {"s", "x", "p", "u", "d", "i", "%"}
FlagChars   == {"#", "+", " ", "-", "0"}
Figures     == {"0", "1", "2", "3", "4", "5", "6", "7", "8", "9"}
Figure(c)   == (CHOOSE k \in 1 .. 10 : DigitOf[k] = c) - 1

Pending == SubSeq(Format(items), s, p - 1)

LoaderInit == s = 1 /\ stat = "TEXT" /\ spec = NoSpec

In(state) == lib = "loader" /\ stat = state /\ More /\ UNCHANGED <<lib, items>>

--------------------------------------------------------------------------------
(* vfprintf: a character of the text, or the beginning of a directive, which    *)
(* has what was copied so far written.                                          *)
Copy == In("TEXT") /\ Char # "%" /\ p' = p + 1 /\ UNCHANGED <<s, stat, spec, taken, out>>

Begin ==
    /\ In("TEXT") /\ Char = "%"
    /\ out' = out \o Pending
    /\ s' = p /\ p' = p + 1
    /\ stat' = "INI" /\ spec' = NoSpec
    /\ UNCHANGED taken

(* A directive goes on in state next, with the character read if Reads.         *)
Goes(next, reads) ==
    /\ stat' = next
    /\ p' = IF reads THEN p + 1 ELSE p
    /\ UNCHANGED <<s, taken, out>>

(* STAT_ERR: what was read of the directive is written as it is.                *)
Err(end) ==
    /\ out' = out \o SubSeq(Format(items), s, end - 1)
    /\ p' = end /\ s' = end
    /\ stat' = "TEXT"
    /\ UNCHANGED <<spec, taken>>

Keep == UNCHANGED spec

Ini ==
    /\ In("INI")
    /\ \/ Char \in FlagChars /\ Goes("FLG", FALSE) /\ Keep
       \/ Char \in (Figures \ {"0"}) \cup {"*"} /\ Goes("WID", FALSE) /\ Keep
       \/ Char = "." /\ Goes("PRE", TRUE) /\ Keep
       \/ Char = "h" /\ Goes("MOD", FALSE) /\ Keep
       \/ Char \in Conversions /\ Goes("FMT", FALSE) /\ Keep
       \/ Char \notin FlagChars \cup Figures \cup {"*", ".", "h"} \cup Conversions /\ Err(p + 1)

(* Behind the flags, those that others put out of force are gone.               *)
Settled(f) == f \ ((IF "-" \in f THEN {"0"} ELSE {}) \cup (IF "+" \in f THEN {" "} ELSE {}))

Flg ==
    /\ In("FLG")
    /\ \/ Char \in FlagChars /\ Goes("FLG", TRUE) /\ spec' = [spec EXCEPT !.f = @ \cup {Char}]
       \/ /\ Char \in Figures \ {"0"} /\ Goes("WID", FALSE)
          /\ spec' = [spec EXCEPT !.f = Settled(@)]
       \/ Char = "." /\ Goes("PRE", TRUE) /\ spec' = [spec EXCEPT !.f = Settled(@)]
       \/ Char = "h" /\ Goes("MOD", FALSE) /\ spec' = [spec EXCEPT !.f = Settled(@)]
       \/ Char \in Conversions /\ Goes("FMT", FALSE) /\ spec' = [spec EXCEPT !.f = Settled(@)]
       \/ Char \notin FlagChars \cup Figures \cup {".", "h"} \cup Conversions /\ Err(p)

Wid ==
    /\ In("WID")
    /\ \/ Char = "*" /\ spec.w = 0 /\ Goes("WID", TRUE) /\ spec' = [spec EXCEPT !.w = READ]
       \/ /\ Char \in Figures /\ spec.w # READ /\ Goes("WID", TRUE)
          /\ spec' = [spec EXCEPT !.w = @ * 10 + Figure(Char)]
       \/ Char \in Conversions /\ Goes("FMT", FALSE) /\ Keep
       \/ Char = "h" /\ Goes("MOD", FALSE) /\ Keep
       \/ Char = "." /\ Goes("PRE", TRUE) /\ Keep
       \/ /\ \/ Char = "*" /\ spec.w # 0
             \/ Char \in Figures /\ spec.w = READ
             \/ Char \notin Figures \cup Conversions \cup {"*", "h", "."}
          /\ Err(p)

Pre ==
    /\ In("PRE")
    /\ \/ Char = "*" /\ spec.p = 0 /\ Goes("PRE", TRUE) /\ spec' = [spec EXCEPT !.p = READ]
       \/ /\ Char \in Figures /\ spec.p # READ /\ Goes("PRE", TRUE)
          /\ spec' = [spec EXCEPT !.p = @ * 10 + Figure(Char)]
       \/ Char = "h" /\ Goes("MOD", FALSE) /\ Keep
       \/ Char \in Conversions /\ Goes("FMT", FALSE) /\ Keep
       \/ /\ \/ Char = "*" /\ spec.p # 0
             \/ Char \in Figures /\ spec.p = READ
             \/ Char \notin Figures \cup Conversions \cup {"*", "h"}
          /\ Err(p)

Mod ==
    /\ In("MOD")
    /\ \/ /\ Char = "h" /\ spec.s # BYTE /\ Goes("MOD", TRUE)
          /\ spec' = [spec EXCEPT !.s = IF @ = INT THEN HALF ELSE BYTE]
       \/ Char \in Conversions /\ Goes("FMT", FALSE) /\ Keep
       \/ /\ \/ Char = "h" /\ spec.s = BYTE
             \/ Char \notin Conversions \cup {"h"}
          /\ Err(p)

--------------------------------------------------------------------------------
(* The arguments of the print functions: width and precision, which are taken   *)
(* for unsigned numbers, and the value.                                         *)
Stars == (IF spec.w = READ THEN 1 ELSE 0) + (IF spec.p = READ THEN 1 ELSE 0)
Aw == IF spec.w = READ THEN Low(Arg(1), INT) ELSE spec.w
Ap == IF spec.p = READ THEN Low(Arg(Stars), INT) ELSE spec.p
Value == Arg(Stars + 1)
Field32 == Low(Value, spec.s)

Fill(c, n, m) == IF n > m THEN Repeat(c, n - m) ELSE << >>
Has(f) == f \in spec.f

(* conv_uint32_d, conv_uint32_h and those for shorter numbers.                  *)
Conv(n, base) == Digits(n, base)

(* What goes in front of the figures of a number.                               *)
Sgn == IF Signed(Value, spec.s) < 0 THEN <<"-">>
       ELSE IF Has("+") THEN <<"+">>
       ELSE IF Has(" ") THEN <<" ">> ELSE << >>

(* print_d and print_u, sign being empty for the latter.                        *)
PutDecimal(sign, v) ==
    LET zeros == Fill("0", Ap, Len(v))
        rest  == Low(Len(sign) + Len(v) + Len(zeros), INT)
    IN  IF Has("-") THEN sign \o zeros \o v \o Fill(" ", Aw, rest)
        ELSE IF Ap > 0 THEN Fill(" ", Aw, rest) \o sign \o zeros \o v
        ELSE IF Has("0") THEN sign \o Fill("0", Aw, rest) \o v
        ELSE Fill(" ", Aw, rest) \o sign \o v

(* print_x: with neither flag '-' nor a precision the prefix is not counted.    *)
PutHex(prefix, v) ==
    LET zeros == Fill("0", Ap, Len(v))
        rest  == Low(Len(prefix) + Len(v) + Len(zeros), INT)
    IN  IF Has("-") THEN prefix \o zeros \o v \o Fill(" ", Aw, rest)
        ELSE IF Ap > 0 THEN Fill(" ", Aw, rest) \o prefix \o zeros \o v
        ELSE IF Has("0") THEN prefix \o Fill("0", Aw, Len(v)) \o v
        ELSE Fill(" ", Aw, Len(v)) \o prefix \o v

(* print_s                                                                      *)
Cut == IF Ap > 0 /\ Len(Value) > Ap THEN SubSeq(Value, 1, Ap) ELSE Value
PutString == IF Has("-") THEN Cut \o Fill(" ", Aw, Len(Cut)) ELSE Fill(" ", Aw, Len(Cut)) \o Cut

Prefix0x == IF Has("#") \/ Char = "p" THEN <<"0", "x">> ELSE << >>

(* Mutant: the print functions read a copy of va_list.                          *)
PutMut(text) ==
    /\ out' = out \o text
    /\ p' = p + 1 /\ s' = p + 1
    /\ stat' = "TEXT"
    /\ UNCHANGED <<spec, taken>>

Put(text) ==
    /\ out' = out \o text
    /\ taken' = taken + Stars + 1
    /\ p' = p + 1 /\ s' = p + 1
    /\ stat' = "TEXT"
    /\ Keep

(* read_fmt_fmt, and the print function it chooses.                             *)
Fmt ==
    /\ In("FMT")
    /\ \/ Char = "d" /\ Put(PutDecimal(Sgn, Conv(Magnitude(Signed(Value, spec.s)), 10)))
       \/ Char = "u" /\ Put(PutDecimal(<< >>, Conv(Field32, 10)))
       \/ Char \in {"x", "p"} /\ Put(PutHex(Prefix0x, Conv(Field32, 16)))
       \/ Char = "s" /\ Put(PutString)
       \/ Char \notin {"d", "u", "x", "p", "s"} /\ Err(p)

(* The format ends in the text, which is written, or within a directive, which  *)
(* is not.                                                                      *)
Finish ==
    /\ lib = "loader" /\ ~ More /\ stat # "END"
    /\ out' = IF stat = "TEXT" THEN out \o Pending ELSE out
    /\ stat' = "END"
    /\ UNCHANGED <<lib, items, p, s, spec, taken>>

LoaderNext ==
    Copy \/ Begin \/ Ini \/ Flg \/ Wid \/ Pre \/ Mod \/ Fmt \/ Finish

LoaderEnds == lib = "loader" /\ stat = "END"
================================================================================
