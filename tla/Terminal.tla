------------------------------- MODULE Terminal -------------------------------
(* The loader's terminal (src/loader/krn/tm.c): characters written one by one *)
(* drive a parser of escape sequences, the cursor and the text screen.  The   *)
(* driver serves one screen; the lines that have left it at the top are kept  *)
(* here as history, with the characters fed and those of them displayed.     *)
EXTENDS Integers, Sequences, FiniteSets

CONSTANTS
    Cols, Rows,    \* mx and my
    NPAR,          \* the parameters of a sequence
    UINT,          \* a parameter wraps around at this, 2^32
    Chars,         \* the characters written: digits, "[", ";", "m", "ESC",
                   \* "CR", "LF", and any others, which display themselves
    MaxFed         \* bound on the characters written

ASSUME SizeAssumption == Cols \in Nat \ {0} /\ Rows \in Nat \ {0}
ASSUME ParAssumption == NPAR \in Nat \ {0} /\ UINT \in Nat \ {0}

Digits == [d \in {"0", "1", "2", "3", "4", "5", "6", "7", "8", "9"} |->
    CASE d = "0" -> 0 [] d = "1" -> 1 [] d = "2" -> 2 [] d = "3" -> 3 [] d = "4" -> 4
      [] d = "5" -> 5 [] d = "6" -> 6 [] d = "7" -> 7 [] d = "8" -> 8 [] OTHER -> 9]

(* An attribute byte: three bits of colour and one of intensity for the       *)
(* character, three of colour and one of blinking for what is behind it.      *)
Attrs == [fg : 0 .. 7, bright : BOOLEAN, bg : 0 .. 7, blink : BOOLEAN]
WhiteOnBlack == [fg |-> 7, bright |-> FALSE, bg |-> 0, blink |-> FALSE]
Zero == [fg |-> 0, bright |-> FALSE, bg |-> 0, blink |-> FALSE]

Cells == (Chars \cup {"NUL"}) \X Attrs
Line(attr) == [x \in 0 .. Cols - 1 |-> <<"NUL", attr>>]

VARIABLES
    px, py, attr,  \* the cursor, and the attribute of what is displayed next
    state,         \* which function parses the next character
    par, npar,     \* the parameters of a sequence, from 0
    screen,        \* the lines of the screen, from 0
    scrolled,      \* history: how many lines have left the screen
    paper,         \* history: every line so far, from 0 to the cursor's
    fed, shown     \* history: the characters written and those of them that
                   \* were displayed, each at its place among all
vars == <<px, py, attr, state, par, npar, screen, scrolled, paper, fed, shown>>

(* The screen is cleared by tm_init.                                          *)
Init ==
    /\ px = 0 /\ py = 0
    /\ attr = WhiteOnBlack
    /\ state = "normal"
    /\ par = [i \in 0 .. NPAR - 1 |-> 0]
    /\ npar = 0
    /\ screen = [y \in 0 .. Rows - 1 |-> Line(WhiteOnBlack)]
    /\ scrolled = 0
    /\ paper = [y \in {0} |-> Line(WhiteOnBlack)]
    /\ fed = << >>
    /\ shown = << >>

-------------------------------------------------------------------------------
(* Mutant: one line too few is moved.                                         *)
ScrollUpShort(s) ==
    [y \in 0 .. Rows - 1 |-> IF y < Rows - 2 THEN s[y + 1]
                             ELSE IF y = Rows - 1 THEN Line(Zero) ELSE s[y]]

(* tm_scrollup: the last line is filled with zeros, not as tm_clear does.     *)
tm_scrollup(s) ==
    [y \in 0 .. Rows - 1 |-> IF y < Rows - 1 THEN s[y + 1] ELSE Line(Zero)]

(* The cursor goes down a line, and tm_putchar scrolls when it leaves the     *)
(* screen, whose contents are s, the lines so far being p.                    *)
LineDown(s, p) ==
    LET last == scrolled + py
        fresh == IF py + 1 < Rows THEN Line(WhiteOnBlack) ELSE Line(Zero)
    IN /\ px' = 0
       /\ paper' = [y \in 0 .. last + 1 |-> IF y <= last THEN p[y] ELSE fresh]
       /\ IF py + 1 < Rows
          THEN py' = py + 1 /\ screen' = s /\ UNCHANGED scrolled
          ELSE screen' = tm_scrollup(s) /\ scrolled' = scrolled + 1 /\ UNCHANGED py

(* A character goes to the cell under the cursor, which moves on.             *)
Display(c) ==
    LET s == [screen EXCEPT ![py] = [@ EXCEPT ![px] = <<c, attr>>]]
        p == [paper EXCEPT ![scrolled + py] = [@ EXCEPT ![px] = <<c, attr>>]]
    IN /\ shown' = [i \in DOMAIN shown \cup {Len(fed) + 1} |->
                     IF i = Len(fed) + 1 THEN c ELSE shown[i]]
       /\ IF px + 1 < Cols
          THEN px' = px + 1 /\ screen' = s /\ paper' = p /\ UNCHANGED <<py, scrolled>>
          ELSE LineDown(s, p)

Stay == UNCHANGED <<px, py, screen, scrolled, paper, shown>>

tm_state_normal(c) ==
    \/ /\ c = "CR"
       /\ px' = 0
       /\ state' = "normal"
       /\ UNCHANGED <<py, screen, scrolled, paper, shown>>
    \/ /\ c = "LF"
       /\ LineDown(screen, paper)
       /\ state' = "normal"
       /\ UNCHANGED shown
    \/ /\ c = "ESC"
       /\ state' = "esc"
       /\ Stay
    \/ /\ c \notin {"CR", "LF", "ESC"}
       /\ Display(c)
       /\ state' = "normal"

(* Mutant: what follows ESC is swallowed even if it opens no sequence.        *)
SwallowAfterEsc(c) ==
    IF c = "["
    THEN /\ state' = "csi" /\ par' = [i \in 0 .. NPAR - 1 |-> 0] /\ npar' = 0
         /\ Stay /\ UNCHANGED attr
    ELSE state' = "normal" /\ Stay /\ UNCHANGED <<attr, par, npar>>

tm_state_esc(c) ==
    IF c = "["
    THEN /\ state' = "csi"
         /\ par' = [i \in 0 .. NPAR - 1 |-> 0]
         /\ npar' = 0
         /\ Stay /\ UNCHANGED attr
    ELSE tm_state_normal(c) /\ UNCHANGED <<attr, par, npar>>

(* The parameters are applied in turn, so each part of the attribute comes    *)
(* from the last parameter that sets it.                                      *)
Latest(n, Setting, old, Value(_)) ==
    LET at == {i \in 0 .. n - 1 : par[i] \in Setting}
    IN IF at = {} THEN old
       ELSE Value(par[CHOOSE i \in at : \A j \in at : j <= i])

(* The colours of the escape sequences, black, red, ..., as the screen counts.*)
Colour(v) == IF v \in 0 .. 7 THEN <<0, 4, 2, 6, 1, 5, 3, 7>>[v + 1] ELSE 0
Fg(v) == IF v \in 30 .. 37 THEN Colour(v - 30) ELSE 7
Bg(v) == Colour(v - 40)
Bright(v) == v \in {4, 38}
Blink(v) == v = 5

tm_do_sgr(n) ==
    [fg     |-> Latest(n, {0} \cup 30 .. 39, attr.fg, Fg),
     bright |-> Latest(n, {0, 4, 24, 38, 39}, attr.bright, Bright),
     bg     |-> Latest(n, {0, 49} \cup 40 .. 47, attr.bg, Bg),
     blink  |-> Latest(n, {0, 5, 25}, attr.blink, Blink)]

(* There is room for a parameter number n.                                    *)
RoomFor(n) == n < NPAR

tm_state_csi(c) ==
    \/ /\ c = "m"
       /\ npar' = npar + 1
       /\ attr' = tm_do_sgr(npar + 1)
       /\ state' = "normal"
       /\ Stay /\ UNCHANGED par
    \/ /\ c \in DOMAIN Digits
       /\ par' = [par EXCEPT ![npar] = (@ * 10 + Digits[c]) % UINT]
       /\ Stay /\ UNCHANGED <<attr, state, npar>>
    \/ /\ c = ";" /\ RoomFor(npar + 1)
       /\ npar' = npar + 1
       /\ Stay /\ UNCHANGED <<attr, state, par>>
    \/ /\ c = ";" /\ ~RoomFor(npar + 1)
       /\ npar' = npar + 1
       /\ tm_state_normal(c) /\ UNCHANGED <<attr, par>>
    \/ /\ c \notin DOMAIN Digits \cup {"m", ";"}
       /\ tm_state_normal(c) /\ UNCHANGED <<attr, par, npar>>

(* tm_putchar.                                                                *)
tm_putchar(c) ==
    /\ Len(fed) < MaxFed
    /\ fed' = Append(fed, c)
    /\ \/ state = "normal" /\ tm_state_normal(c) /\ UNCHANGED <<attr, par, npar>>
       \/ state = "esc" /\ tm_state_esc(c)
       \/ state = "csi" /\ tm_state_csi(c)

Next == \E c \in Chars : tm_putchar(c)

Spec == Init /\ [][Next]_vars

-------------------------------------------------------------------------------
(* The cursor is on the screen and a sequence has a place for its parameter:  *)
(* tm_state_normal and tm_state_csi write where these say, without looking.   *)
TypeOK ==
    /\ px \in 0 .. Cols - 1
    /\ py \in 0 .. Rows - 1
    /\ attr \in Attrs
    /\ state \in {"normal", "esc", "csi"}
    /\ par \in [0 .. NPAR - 1 -> 0 .. UINT - 1]
    /\ npar \in 0 .. NPAR
    /\ state = "csi" => npar < NPAR
    /\ screen \in [0 .. Rows - 1 -> [0 .. Cols - 1 -> Cells]]
    /\ scrolled \in Nat
    /\ paper \in [0 .. scrolled + py -> [0 .. Cols - 1 -> Cells]]

(* The screen is the end of what has been written: its lines down to the      *)
(* cursor's are the last lines written, and lines below are empty.            *)
Window ==
    /\ \A y \in 0 .. py : screen[y] = paper[scrolled + y]
    /\ \A y \in py + 1 .. Rows - 1 : screen[y] = Line(WhiteOnBlack)
    /\ scrolled > 0 => py = Rows - 1

(* The i-th character fed belongs to an escape sequence: it is ESC, the "["   *)
(* right behind one, or comes after those with only parameters between.       *)
Opens(j) == j > 1 /\ fed[j] = "[" /\ fed[j - 1] = "ESC"
Params(i, j) == \A k \in i .. j : fed[k] \in DOMAIN Digits \cup {";"}
Separators(i, j) == Cardinality({k \in i .. j : fed[k] = ";"})
Controls(i) ==
    \/ fed[i] \in {"ESC", "CR", "LF"}
    \/ Opens(i)
    \/ /\ fed[i] \in DOMAIN Digits \cup {";", "m"}
       /\ \E j \in 1 .. i - 1 : Opens(j) /\ Params(j + 1, i - 1) /\ Separators(j, i) < NPAR

(* Characters of escape sequences are swallowed and no others are, however    *)
(* sequences are cut short, nested or too long (the three tm_state functions).*)
Swallowed == shown = [i \in {j \in DOMAIN fed : ~Controls(j)} |-> fed[i]]
===============================================================================
