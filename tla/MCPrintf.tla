------------------------------- MODULE MCPrintf -------------------------------
(* A directive of every shape between two characters, and behind another one    *)
(* whose width, precision, flags and size must be forgotten.                    *)
EXTENDS Printf

(* Widths and precisions: none, some, over the limit, over it and small again   *)
(* modulo WRAP, and stars of both signs.                                        *)
Widths == {<<None, FALSE>>, <<4, FALSE>>, <<21, FALSE>>, <<28, FALSE>>, <<4, TRUE>>, <<-4, TRUE>>}
Precs  == {<<None, FALSE>>, <<3, FALSE>>, <<21, FALSE>>, <<27, FALSE>>, <<3, TRUE>>, <<-3, TRUE>>}

Shapes(flagSets, mods, convs, args) ==
    {Directive(f, w[1], w[2], q[1], q[2], m, c, a) :
        f \in flagSets, w \in Widths, q \in Precs, m \in mods, c \in convs, a \in args}

SignFlags == {{}, {"0"}, {"-", " "}, {"+", " "}, {"0", "+"}, {"0", "-"}}
PadFlags  == {{}, {"0"}, {"0", "-"}}
AltFlags  == {{"#"}, {"#", "0"}, {"#", "-"}}

Numbers(mods) ==
    Shapes(SignFlags, mods, {"d"}, {5, -3, 300})
    \cup Shapes(PadFlags, mods, {"u", "x"}, {0, 47, -1})
    \cup Shapes(AltFlags, mods, {"x"}, {47, -1})
    \cup Shapes({{}, {"-"}}, {<< >>}, {"s"}, {<<"q">>, <<"q", "r", "s", "t", "u">>})

(* The kernel's functions know stars everywhere; the starter's no modifiers.    *)
KernelShapes(mods) == Numbers(mods) \cup Shapes({{}, {"0"}}, {<< >>}, {"o", "X"}, {47, -1})

(* The loader knows no star behind flags.                                       *)
LoaderShapes == {d \in Numbers({<< >>, <<"h">>, <<"h", "h">>}) : d.flags # {} => ~ d.wstar}

(* What the loader leaves as it is, each at another place of a directive.       *)
Strangers == {<<"%", "q">>, <<"%", "+", "q">>, <<"%", "4", "q">>, <<"%", "*", "*">>, <<"%", "*", "4">>,
              <<"%", ".", "q">>, <<"%", ".", "*", "*">>, <<"%", ".", "*", "3">>, <<"%", "h", "q">>,
              <<"%", "h", "h", "h">>, <<"%", "i">>}

First(mod) == Directive({"0", "+"}, 4, FALSE, 3, FALSE, mod, "d", 7)

MCFormatted(l) ==
    LET shapes == CASE l = "kernel" -> KernelShapes({<< >>, <<"h">>, <<"l">>})
                    [] l = "boot"   -> KernelShapes({<< >>})
                    [] l = "loader" -> LoaderShapes
        mod == IF l = "boot" THEN << >> ELSE <<"h">>
    IN  {<<Chr("a"), d, Chr(IF l = "loader" THEN "z" ELSE "%")>> : d \in shapes}
        \cup {<<First(mod), d>> : d \in shapes}
        \cup (IF l = "loader" THEN {<<Unknown(t), First(mod)>> : t \in Strangers} ELSE {})
================================================================================
