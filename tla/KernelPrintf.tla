------------------------------ MODULE KernelPrintf ------------------------------
(* kvprinto of src/kernel/utl/printf.c, and ks_vprintf of                       *)
(* src/kernel/boot/utl/printf.c, which is the same without the modifiers: a     *)
(* state for each label, tables that give the next label for each class of      *)
(* character, and a step for each character of the format.                      *)
(*                                                                              *)
(* A 'y' reads one byte behind the table of classes; it is taken to be padding, *)
(* a zero.                                                                      *)
EXTENDS PrintfCall

CONSTANTS
    MAX_WIDTH,
    MAX_PRECISION,
    WRAP,             (* The starter's width and precision are uint32_t.        *)
    TMP               (* sizeof(tmp), one place of which is for the final zero. *)

VARIABLES
    jt,       (* The label whose jump table is in use.                          *)
    fmt       (* struct fmt_t.                                                  *)

Kernels == {"kernel", "boot"}

NoFmt == [width |-> 0, prec |-> 0, size |-> INT, base |-> 10, flags |-> {}]

Class == {"default", "space", "number", "percent", "asterisk", "plus", "minus", "dot",
          "zero", "digit", "long", "half", "signed", "unsigned", "string"}

ClassOf(c) ==
    CASE c = " " -> "space"       [] c = "#" -> "number"     [] c = "%" -> "percent"
      [] c = "*" -> "asterisk"    [] c = "+" -> "plus"       [] c = "-" -> "minus"
      [] c = "." -> "dot"         [] c = "0" -> "zero"       [] c \in {"l", "L"} -> "long"
      [] c \in {"1", "2", "3", "4", "5", "6", "7", "8", "9"} -> "digit"
      [] c \in {"h", "H"} -> "half"    [] c \in {"d", "i"} -> "signed"
      [] c \in {"u", "x", "X", "o"} -> "unsigned"    [] c = "s" -> "string"
      [] OTHER -> "default"

(* The jump tables: whatever is not mentioned goes to normal.                   *)
JT_normal == [[c \in Class |-> "normal"] EXCEPT !["percent"] = "fmtini"]
JT_m_half == [[c \in Class |-> "normal"] EXCEPT !["signed"] = "fmt_d", !["unsigned"] = "fmt_u",
                                                !["string"] = "fmt_s"]
JT_m_long == JT_m_half
JT_pprec  == [JT_m_half EXCEPT !["long"] = "m_long", !["half"] = "m_half"]
JT_prec   == [JT_pprec EXCEPT !["zero"] = "prec", !["digit"] = "prec"]
JT_dot    == [JT_prec EXCEPT !["asterisk"] = "pprec"]
JT_pwidth == [JT_pprec EXCEPT !["dot"] = "dot"]
JT_width  == [JT_pwidth EXCEPT !["zero"] = "width", !["digit"] = "width"]
JT_fmtini == [JT_pwidth EXCEPT !["space"] = "flags", !["number"] = "flags", !["plus"] = "flags",
                               !["minus"] = "flags", !["zero"] = "flags", !["percent"] = "percent",
                               !["asterisk"] = "pwidth", !["digit"] = "width"]

(* Behind flags a dot leads to the digits of a precision and is one itself.     *)
JT_flags  == [JT_fmtini EXCEPT !["dot"] = "prec"]

Jump(table, class) ==
    CASE table = "normal" -> JT_normal[class]    [] table = "fmtini" -> JT_fmtini[class]
      [] table = "flags"  -> JT_flags[class]     [] table = "width"  -> JT_width[class]
      [] table = "pwidth" -> JT_pwidth[class]    [] table = "dot"    -> JT_dot[class]
      [] table = "prec"   -> JT_prec[class]      [] table = "pprec"  -> JT_pprec[class]
      [] table = "m_half" -> JT_m_half[class]    [] table = "m_long" -> JT_m_long[class]

(* The starter's tables have no modifiers.                                      *)
BootJump(table, class) == IF class \in {"long", "half"} THEN "normal" ELSE Jump(table, class)

(* itoa: digits from the last to the first, in a buffer of len bytes.           *)
Itoa(val, len, base) ==
    LET digits[v \in Nat] == IF v = 0 THEN << >> ELSE Append(digits[v \div base], DigitOf[(v % base) + 1])
        p0 == IF val = 0 THEN <<"0">> ELSE digits[val]
    IN  IF Len(p0) < len THEN [fits |-> TRUE, str |-> p0] ELSE [fits |-> FALSE]

--------------------------------------------------------------------------------
KernelInit == jt = "normal" /\ fmt = NoFmt

(* goto *jumps[jt[cc]]                                                          *)
At(label) ==
    /\ lib \in Kernels /\ jt # "failure" /\ More
    /\ label = IF lib = "boot" THEN BootJump(jt, ClassOf(Char)) ELSE Jump(jt, ClassOf(Char))
    /\ p' = p + 1
    /\ UNCHANGED <<lib, items>>

Fmtini == At("fmtini") /\ jt' = "fmtini" /\ fmt' = NoFmt /\ UNCHANGED <<taken, out>>

Flags ==
    /\ At("flags") /\ jt' = "flags"
    /\ fmt' = [fmt EXCEPT !.flags = @ \cup {Char}]
    /\ UNCHANGED <<taken, out>>

DigitValue(c) == CASE c = "." -> -2 [] OTHER -> (CHOOSE k \in 1 .. 10 : DigitOf[k] = c) - 1

(* A width or a precision: 64 bits hold all that is let through, 32 do not.     *)
Wide(n) == IF lib = "boot" THEN n % WRAP ELSE n

(* Too large, or less than 0, which is a large unsigned number.                 *)
Beyond(n, max) == n < 0 \/ n > max

Width ==
    /\ At("width")
    /\ fmt' = [fmt EXCEPT !.width = Wide(@ * 10 + DigitValue(Char))]
    /\ jt' = IF Beyond(fmt'.width, MAX_WIDTH) THEN "failure" ELSE "width"
    /\ UNCHANGED <<taken, out>>

(* The int behind a star.  The starter takes 32 bits and looks at their sign;   *)
(* the kernel takes 64, to which an int in a register is extended by zeros.     *)
Star == IF lib = "boot" THEN Arg(1) ELSE Low(Arg(1), INT)

Pwidth ==
    /\ At("pwidth") /\ jt' = "pwidth"
    /\ fmt' = [fmt EXCEPT !.width = Magnitude(Star),
                          !.flags = IF Star < 0 THEN @ \cup {"-"} ELSE @]
    /\ taken' = taken + 1
    /\ UNCHANGED out

Dot == At("dot") /\ jt' = "dot" /\ UNCHANGED <<fmt, taken, out>>

Pprec ==
    /\ At("pprec") /\ jt' = "pprec"
    /\ fmt' = [fmt EXCEPT !.prec = IF Star > 0 THEN Star ELSE @]
    /\ taken' = taken + 1
    /\ UNCHANGED out

Prec ==
    /\ At("prec")
    /\ fmt' = [fmt EXCEPT !.prec = Wide(@ * 10 + DigitValue(Char))]
    /\ jt' = IF Beyond(fmt'.prec, MAX_PRECISION) THEN "failure" ELSE "prec"
    /\ UNCHANGED <<taken, out>>

MHalf == At("m_half") /\ jt' = "m_half" /\ fmt' = [fmt EXCEPT !.size = HALF] /\ UNCHANGED <<taken, out>>
MLong == At("m_long") /\ jt' = "m_long" /\ fmt' = [fmt EXCEPT !.size = LONG] /\ UNCHANGED <<taken, out>>

Percent == At("percent") /\ jt' = "normal" /\ out' = Append(out, Char) /\ UNCHANGED <<fmt, taken>>

(* A character that belongs to no directive is put out, and the table stays:    *)
(* after a conversion that is not known the format goes on inside it.           *)
Normal == At("normal") /\ out' = Append(out, Char) /\ UNCHANGED <<jt, fmt, taken>>

(* The bytes of the unsigned value that the conversion looks at.                *)
Unsigned == Low(Arg(1), fmt.size)
Negative == Unsigned >= 2^(fmt.size - 1)

HasFlag(f) == f \in fmt.flags

Signature == IF Negative THEN <<"-">>
             ELSE IF HasFlag("+") THEN <<"+">>
             ELSE IF HasFlag(" ") THEN <<" ">> ELSE << >>

(* out_pad(c, n - m) where n may be the smaller one.                            *)
Pad(c, n, m) == IF n > m THEN Repeat(c, n - m) ELSE << >>

(* What a number v puts out behind its sign.                                    *)
(* Mutant: the width does not count the sign.                                   *)
FieldMut(sign, v) ==
    LET zeros == Pad("0", fmt.prec, Len(v))
        rest  == Len(v) + Len(zeros)
    IN  IF HasFlag("-") THEN sign \o zeros \o v \o Pad(" ", fmt.width, rest)
        ELSE IF fmt.prec > 0 THEN Pad(" ", fmt.width, rest) \o sign \o zeros \o v
        ELSE IF HasFlag("0") THEN sign \o Pad("0", fmt.width, rest) \o v
        ELSE Pad(" ", fmt.width, rest) \o sign \o v

Field(sign, v) ==
    LET zeros == Pad("0", fmt.prec, Len(v))
        rest  == Len(sign) + Len(v) + Len(zeros)
    IN  IF HasFlag("-") THEN sign \o zeros \o v \o Pad(" ", fmt.width, rest)
        ELSE IF fmt.prec > 0 THEN Pad(" ", fmt.width, rest) \o sign \o zeros \o v
        ELSE IF HasFlag("0") THEN sign \o Pad("0", fmt.width, rest) \o v
        ELSE Pad(" ", fmt.width, rest) \o sign \o v

(* A number v converted behind its sign, or the end of it all.                  *)
PutNumber(sign, v) ==
    /\ taken' = taken + 1
    /\ IF v.fits THEN jt' = "normal" /\ out' = out \o Field(sign, v.str)
       ELSE jt' = "failure" /\ UNCHANGED out

FmtD ==
    /\ At("fmt_d")
    /\ PutNumber(Signature, Itoa(IF Negative THEN 2^fmt.size - Unsigned ELSE Unsigned, TMP, 10))
    /\ UNCHANGED fmt

Base == CASE Char \in {"x", "X"} -> 16 [] Char = "o" -> 8 [] OTHER -> fmt.base

FmtU ==
    /\ At("fmt_u")
    /\ fmt' = [fmt EXCEPT !.base = Base]
    /\ PutNumber(<< >>, Itoa(Unsigned, TMP, Base))

(* How much of a string s is put out.                                           *)
Clip(s) == IF fmt.prec > 0 /\ Len(s) > fmt.prec THEN SubSeq(s, 1, fmt.prec) ELSE s

FmtS ==
    /\ At("fmt_s") /\ jt' = "normal"
    /\ out' = out \o (IF HasFlag("-") THEN Clip(Arg(1)) \o Pad(" ", fmt.width, Len(Clip(Arg(1))))
                      ELSE Pad(" ", fmt.width, Len(Clip(Arg(1)))) \o Clip(Arg(1)))
    /\ taken' = taken + 1
    /\ UNCHANGED fmt

KernelNext ==
    /\ lib = "kernel"
    /\ \/ Fmtini \/ Flags \/ Width \/ Pwidth \/ Dot \/ Pprec \/ Prec \/ MHalf \/ MLong
       \/ Percent \/ Normal \/ FmtD \/ FmtU \/ FmtS

(* ks_vprintf: what reads a directive, and what puts something out.             *)
BootReads == lib = "boot" /\ (Fmtini \/ Flags \/ Width \/ Pwidth \/ Dot \/ Pprec \/ Prec)
BootPuts  == lib = "boot" /\ (Percent \/ Normal \/ FmtD \/ FmtU \/ FmtS)

KernelEnds == lib \in Kernels /\ (jt = "failure" \/ ~ More)
================================================================================
