---------------------------- MODULE Terminal_proofs ----------------------------
(* Proofs about the loader's terminal, for screens of every size: writes stay *)
(* on the screen and in the parameter array, and the screen always shows the  *)
(* end of what was written.                                                   *)
EXTENDS Terminal, FiniteSetTheorems, TLAPS

Rules == 0 .. Cols - 1
Lines == [Rules -> Cells]

(* A screen s and all lines p agree for a cursor on line y, n lines having    *)
(* been scrolled.                                                             *)
Visible(s, p, y, n) ==
    /\ s \in [0 .. Rows - 1 -> Lines]
    /\ p \in [0 .. n + y -> Lines]
    /\ \A i \in 0 .. y : s[i] = p[n + i]
    /\ \A i \in y + 1 .. Rows - 1 : s[i] = Line(WhiteOnBlack)

(* The part of the invariant about the screen, and the one about the parser.  *)
ScreenInv ==
    /\ px \in 0 .. Cols - 1
    /\ py \in 0 .. Rows - 1
    /\ scrolled \in Nat
    /\ scrolled > 0 => py = Rows - 1
    /\ Visible(screen, paper, py, scrolled)

ParserInv ==
    /\ attr \in Attrs
    /\ state \in {"normal", "esc", "csi"}
    /\ par \in [0 .. NPAR - 1 -> 0 .. UINT - 1]
    /\ npar \in 0 .. NPAR
    /\ state = "csi" => npar < NPAR

(* The two parts are together the invariants that the run checks.             *)
LEMMA Parts == (ScreenInv /\ ParserInv) <=> (TypeOK /\ Window)
  BY DEF ScreenInv, ParserInv, TypeOK, Window, Visible, Lines, Rules

LEMMA LineType == ASSUME NEW a \in Attrs PROVE Line(a) \in Lines
  BY DEF Line, Lines, Rules, Cells

LEMMA Whites == WhiteOnBlack \in Attrs /\ Zero \in Attrs
  BY DEF WhiteOnBlack, Zero, Attrs

(* Going down a line keeps a screen and lines that agree in agreement,        *)
(* whether it scrolls or not.                                                 *)
LEMMA LineDownInv ==
  ASSUME py \in 0 .. Rows - 1, scrolled \in Nat,
         scrolled > 0 => py = Rows - 1,
         NEW s, NEW p, Visible(s, p, py, scrolled),
         LineDown(s, p)
  PROVE  ScreenInv'
<1> USE SizeAssumption
<1> DEFINE last == scrolled + py
<1> DEFINE fresh == IF py + 1 < Rows THEN Line(WhiteOnBlack) ELSE Line(Zero)
<1>0. fresh \in Lines
  BY LineType, Whites
<1>1. /\ px' = 0
      /\ paper' = [y \in 0 .. last + 1 |-> IF y <= last THEN p[y] ELSE fresh]
  BY DEF LineDown
<1> HIDE DEF fresh
<1>2. CASE py + 1 < Rows
  <2>1. py' = py + 1 /\ screen' = s /\ scrolled' = scrolled
    BY <1>2 DEF LineDown
  <2>2. fresh = Line(WhiteOnBlack)
    BY <1>2 DEF fresh
  <2>3. paper' \in [0 .. scrolled' + py' -> Lines]
    BY <1>0, <1>1, <2>1 DEF Visible
  <2>4. ASSUME NEW i \in 0 .. py' PROVE screen'[i] = paper'[scrolled' + i]
    <3>1. CASE i <= py
      BY <3>1, <1>1, <2>1 DEF Visible
    <3>2. CASE i = py + 1
      BY <3>2, <1>1, <1>2, <2>1, <2>2 DEF Visible
    <3> QED BY <3>1, <3>2, <2>1
  <2>5. ASSUME NEW i \in py' + 1 .. Rows - 1 PROVE screen'[i] = Line(WhiteOnBlack)
    BY <2>1 DEF Visible
  <2>6. Visible(screen', paper', py', scrolled')
    <3>1. screen' \in [0 .. Rows - 1 -> Lines]
      BY <2>1 DEF Visible
    <3> QED BY <2>3, <2>4, <2>5, <3>1 DEF Visible
  <2>7. px' \in 0 .. Cols - 1 /\ py' \in 0 .. Rows - 1 /\ scrolled' \in Nat
    BY <1>1, <1>2, <2>1
  <2>8. scrolled' > 0 => py' = Rows - 1
    BY <1>2, <2>1
  <2> QED BY <2>6, <2>7, <2>8 DEF ScreenInv
<1>3. CASE ~(py + 1 < Rows)
  <2>1. py' = py /\ screen' = tm_scrollup(s) /\ scrolled' = scrolled + 1 /\ py = Rows - 1
    BY <1>3 DEF LineDown
  <2>2. fresh = Line(Zero)
    BY <1>3 DEF fresh
  <2>3. paper' \in [0 .. scrolled' + py' -> Lines]
    BY <1>0, <1>1, <2>1 DEF Visible
  <2>4. screen' \in [0 .. Rows - 1 -> Lines]
    BY <1>0, <2>1, <2>2 DEF Visible, tm_scrollup
  <2>5. ASSUME NEW i \in 0 .. py' PROVE screen'[i] = paper'[scrolled' + i]
    <3>1. CASE i < py
      <4>1. screen'[i] = s[i + 1]
        BY <3>1, <2>1 DEF tm_scrollup
      <4>2. s[i + 1] = p[scrolled + (i + 1)]
        BY <3>1 DEF Visible
      <4> QED BY <3>1, <4>1, <4>2, <1>1, <2>1
    <3>2. CASE i = py
      BY <3>2, <1>1, <2>1, <2>2 DEF tm_scrollup
    <3> QED BY <3>1, <3>2, <2>1
  <2>6. Visible(screen', paper', py', scrolled')
    BY <2>1, <2>3, <2>4, <2>5 DEF Visible
  <2>7. px' \in 0 .. Cols - 1 /\ py' \in 0 .. Rows - 1 /\ scrolled' \in Nat
    BY <1>1, <2>1
  <2> QED BY <2>1, <2>6, <2>7 DEF ScreenInv
<1> QED BY <1>2, <1>3

(* Writing one cell of the cursor's line on both keeps them in agreement.     *)
LEMMA DisplayInv ==
  ASSUME ScreenInv, attr \in Attrs, NEW c \in Chars, Display(c)
  PROVE  ScreenInv'
<1> USE SizeAssumption
<1>1. PICK cell : cell = <<c, attr>>
  OBVIOUS
<1>2. cell \in Cells
  BY <1>1 DEF Cells
<1>3. PICK s : s = [screen EXCEPT ![py] = [@ EXCEPT ![px] = cell]]
  OBVIOUS
<1>4. PICK p : p = [paper EXCEPT ![scrolled + py] = [@ EXCEPT ![px] = cell]]
  OBVIOUS
<1>5. screen[py] \in Lines /\ screen[py] = paper[scrolled + py]
  BY DEF ScreenInv, Visible
<1>6. [screen[py] EXCEPT ![px] = cell] \in Lines
  BY <1>2, <1>5 DEF Lines, Rules
<1>7. Visible(s, p, py, scrolled)
  <2>1. s \in [0 .. Rows - 1 -> Lines] /\ p \in [0 .. scrolled + py -> Lines]
    BY <1>3, <1>4, <1>5, <1>6 DEF ScreenInv, Visible
  <2>2. ASSUME NEW i \in 0 .. py PROVE s[i] = p[scrolled + i]
    <3>1. screen[i] = paper[scrolled + i]
      BY DEF ScreenInv, Visible
    <3>2. i \in DOMAIN screen /\ scrolled + i \in DOMAIN paper
      BY DEF ScreenInv, Visible
    <3>3. scrolled + i = scrolled + py <=> i = py
      BY DEF ScreenInv
    <3> QED BY <1>3, <1>4, <1>5, <3>1, <3>2, <3>3
  <2>3. ASSUME NEW i \in py + 1 .. Rows - 1 PROVE s[i] = Line(WhiteOnBlack)
    BY <1>3 DEF ScreenInv, Visible
  <2> QED BY <2>1, <2>2, <2>3 DEF Visible
<1>8. CASE px + 1 < Cols
  <2>1. px' = px + 1 /\ screen' = s /\ paper' = p /\ py' = py /\ scrolled' = scrolled
    BY <1>1, <1>3, <1>4, <1>8 DEF Display
  <2> QED BY <1>7, <1>8, <2>1 DEF ScreenInv
<1>9. CASE ~(px + 1 < Cols)
  <2>1. LineDown(s, p)
    BY <1>1, <1>3, <1>4, <1>9 DEF Display
  <2> QED BY <1>7, <2>1, LineDownInv DEF ScreenInv
<1> QED BY <1>8, <1>9

LEMMA StayInv == ASSUME ScreenInv, Stay PROVE ScreenInv'
  BY DEF ScreenInv, Stay, Visible

(* The handler of ordinary characters, from whichever state it is called.     *)
LEMMA NormalInv ==
  ASSUME ScreenInv, attr \in Attrs, NEW c \in Chars, tm_state_normal(c)
  PROVE  ScreenInv' /\ state' \in {"normal", "esc"}
<1>1. CASE c = "CR"
  <2>1. px' = 0 /\ py' = py /\ screen' = screen /\ scrolled' = scrolled /\ paper' = paper
        /\ state' = "normal"
    BY <1>1 DEF tm_state_normal
  <2> QED BY <2>1, SizeAssumption DEF ScreenInv, Visible
<1>2. CASE c = "LF"
  <2>1. LineDown(screen, paper) /\ state' = "normal"
    BY <1>2 DEF tm_state_normal
  <2> QED BY <2>1, LineDownInv DEF ScreenInv
<1>3. CASE c = "ESC"
  <2>1. Stay /\ state' = "esc"
    BY <1>3 DEF tm_state_normal
  <2> QED BY <2>1, StayInv
<1>4. CASE c \notin {"CR", "LF", "ESC"}
  <2>1. Display(c) /\ state' = "normal"
    BY <1>4 DEF tm_state_normal
  <2> QED BY <2>1, DisplayInv
<1> QED BY <1>1, <1>2, <1>3, <1>4

(* Whatever the parameters are, they make an attribute.                       *)
LEMMA SgrType == ASSUME attr \in Attrs, NEW n PROVE tm_do_sgr(n) \in Attrs
<1>1. Latest(n, {0} \cup 30 .. 39, attr.fg, Fg) \in 0 .. 7
  BY DEF Latest, Fg, Colour, Attrs
<1>2. Latest(n, {0, 4, 24, 38, 39}, attr.bright, Bright) \in BOOLEAN
  <2>1. ASSUME NEW v PROVE Bright(v) \in BOOLEAN
    BY DEF Bright
  <2> QED BY <2>1, Zenon DEF Latest, Attrs
<1>3. Latest(n, {0, 49} \cup 40 .. 47, attr.bg, Bg) \in 0 .. 7
  BY DEF Latest, Bg, Colour, Attrs
<1>4. Latest(n, {0, 5, 25}, attr.blink, Blink) \in BOOLEAN
  BY DEF Latest, Blink, Attrs
<1> QED BY <1>1, <1>2, <1>3, <1>4 DEF tm_do_sgr, Attrs

LEMMA DigitType == ASSUME NEW c \in DOMAIN Digits PROVE Digits[c] \in 0 .. 9
  BY DEF Digits

(* The invariant holds at the start ...                                       *)
LEMMA InitInv == Init => ScreenInv /\ ParserInv
<1> SUFFICES ASSUME Init PROVE ScreenInv /\ ParserInv
  OBVIOUS
<1> USE SizeAssumption, ParAssumption
<1>1. Line(WhiteOnBlack) \in Lines
  BY LineType, Whites
<1>2. ScreenInv
  BY <1>1 DEF Init, ScreenInv, Visible
<1>3. ParserInv
  BY Whites DEF Init, ParserInv
<1> QED BY <1>2, <1>3

(* ... and every character keeps it.                                          *)
LEMMA StepInv ==
  ASSUME ScreenInv, ParserInv, NEW c \in Chars, tm_putchar(c)
  PROVE  ScreenInv' /\ ParserInv'
<1> USE ParAssumption
<1>0. attr \in Attrs
  BY DEF ParserInv
<1>1. CASE state = "normal"
  <2>1. tm_state_normal(c) /\ UNCHANGED <<attr, par, npar>>
    BY <1>1 DEF tm_putchar
  <2> QED BY <1>0, <2>1, NormalInv DEF ParserInv
<1>2. CASE state = "esc" /\ c = "["
  <2>1. /\ state' = "csi" /\ par' = [i \in 0 .. NPAR - 1 |-> 0] /\ npar' = 0
        /\ Stay /\ attr' = attr
    BY <1>2 DEF tm_putchar, tm_state_esc
  <2> QED BY <2>1, StayInv DEF ParserInv
<1>3. CASE state = "esc" /\ c # "["
  <2>1. tm_state_normal(c) /\ UNCHANGED <<attr, par, npar>>
    BY <1>3 DEF tm_putchar, tm_state_esc
  <2> QED BY <1>0, <2>1, NormalInv DEF ParserInv
<1>4. CASE state = "csi"
  <2>0. tm_state_csi(c) /\ npar \in 0 .. NPAR - 1
    BY <1>4 DEF tm_putchar, ParserInv
  <2>1. CASE c = "m" /\ npar' = npar + 1 /\ attr' = tm_do_sgr(npar + 1)
             /\ state' = "normal" /\ Stay /\ par' = par
    BY <1>0, <2>0, <2>1, SgrType, StayInv DEF ParserInv
  <2>2. CASE /\ c \in DOMAIN Digits
             /\ par' = [par EXCEPT ![npar] = (@ * 10 + Digits[c]) % UINT]
             /\ Stay /\ UNCHANGED <<attr, state, npar>>
    <3>1. Digits[c] \in 0 .. 9 /\ par[npar] \in Nat
      BY <2>0, <2>2, DigitType DEF ParserInv
    <3>2. PICK v : v = par[npar] * 10 + Digits[c]
      OBVIOUS
    <3>3. v % UINT \in 0 .. UINT - 1
      BY <3>1, <3>2
    <3>4. par' = [par EXCEPT ![npar] = v % UINT]
      BY <2>2, <3>2
    <3>5. par' \in [0 .. NPAR - 1 -> 0 .. UINT - 1]
      BY <3>3, <3>4 DEF ParserInv
    <3> QED BY <2>2, <3>5, StayInv DEF ParserInv
  <2>3. CASE /\ RoomFor(npar + 1) /\ npar' = npar + 1
             /\ Stay /\ UNCHANGED <<attr, state, par>>
    BY <2>0, <2>3, StayInv DEF ParserInv, RoomFor
  <2>4. CASE npar' = npar + 1 /\ tm_state_normal(c) /\ UNCHANGED <<attr, par>>
    BY <1>0, <2>0, <2>4, NormalInv DEF ParserInv
  <2>5. CASE tm_state_normal(c) /\ UNCHANGED <<attr, par, npar>>
    BY <1>0, <2>5, NormalInv DEF ParserInv
  <2> QED BY <2>0, <2>1, <2>2, <2>3, <2>4, <2>5 DEF tm_state_csi
<1> QED BY <1>1, <1>2, <1>3, <1>4 DEF ParserInv

(* Whatever is written, tm_putchar never addresses a cell outside the screen  *)
(* nor a parameter outside the array, and after scrolling the screen still    *)
(* shows the last lines written and nothing else.                             *)
THEOREM OnScreen == Spec => [](TypeOK /\ Window)
<1>1. Init => ScreenInv /\ ParserInv
  BY InitInv
<1>2. ScreenInv /\ ParserInv /\ [Next]_vars => (ScreenInv /\ ParserInv)'
  <2> SUFFICES ASSUME ScreenInv, ParserInv, [Next]_vars PROVE (ScreenInv /\ ParserInv)'
    OBVIOUS
  <2>1. CASE Next
    BY <2>1, StepInv DEF Next
  <2>2. CASE UNCHANGED vars
    BY <2>2 DEF vars, ScreenInv, ParserInv, Visible
  <2> QED BY <2>1, <2>2
<1>3. ScreenInv /\ ParserInv => TypeOK /\ Window
  BY Parts
<1> QED BY <1>1, <1>2, <1>3, PTL DEF Spec

-------------------------------------------------------------------------------
(* Sequences.  A sequence that opened at the j-th character is still being    *)
(* read when only parameters came after it, and not too many of them.         *)
Running(j) == Opens(j) /\ Params(j + 1, Len(fed)) /\ Separators(j, Len(fed)) < NPAR

(* What the parser's state says about the characters fed.                     *)
SequenceInv ==
    /\ fed \in Seq(Chars)
    /\ state = "esc" <=> Len(fed) > 0 /\ fed[Len(fed)] = "ESC"
    /\ state = "csi" <=> \E j \in 1 .. Len(fed) : Running(j)
    /\ \A j \in 1 .. Len(fed) : Running(j) => npar = Separators(j, Len(fed))

(* A character written changes nothing about those before it.                 *)
LEMMA Earlier ==
  ASSUME fed \in Seq(Chars), NEW c \in Chars, fed' = Append(fed, c),
         NEW i \in 1 .. Len(fed)
  PROVE  /\ Opens(i)' <=> Opens(i)
         /\ \A j \in Nat \ {0} : Params(j, i)' <=> Params(j, i)
         /\ \A j \in Nat \ {0} : Separators(j, i)' = Separators(j, i)
         /\ Controls(i)' <=> Controls(i)
<1>1. \A k \in 1 .. Len(fed) : fed'[k] = fed[k]
  OBVIOUS
<1>2. \A k \in 1 .. Len(fed) : Opens(k)' <=> Opens(k)
  BY <1>1 DEF Opens
<1>3. ASSUME NEW j \in Nat \ {0}, NEW k \in 0 .. Len(fed)
      PROVE  Params(j, k)' <=> Params(j, k)
  <2>1. \A m \in j .. k : fed'[m] = fed[m]
    BY <1>1
  <2> QED BY <2>1 DEF Params
<1>4. ASSUME NEW j \in Nat \ {0}, NEW k \in 1 .. Len(fed)
      PROVE  Separators(j, k)' = Separators(j, k)
  <2>1. \A m \in j .. k : fed'[m] = fed[m]
    BY <1>1
  <2>2. {m \in j .. k : fed'[m] = ";"} = {m \in j .. k : fed[m] = ";"}
    BY <2>1
  <2> QED BY <2>2 DEF Separators
<1>5. Controls(i)' <=> Controls(i)
  <2>1. \A j \in 1 .. i - 1 : /\ Opens(j)' <=> Opens(j)
                              /\ Params(j + 1, i - 1)' <=> Params(j + 1, i - 1)
                              /\ Separators(j, i)' = Separators(j, i)
    BY <1>2, <1>3, <1>4
  <2>2. fed'[i] = fed[i] /\ (Opens(i)' <=> Opens(i))
    BY <1>1, <1>2
  <2> QED BY <2>1, <2>2 DEF Controls
<1> QED BY <1>2, <1>3, <1>4, <1>5

(* The character behind those adds itself to what is counted when it is one.  *)
LEMMA SeparatorsGrow ==
  ASSUME fed \in Seq(Chars), NEW c \in Chars, fed' = Append(fed, c),
         NEW n, n = Len(fed), NEW j \in 1 .. n
  PROVE  /\ Separators(j, n) \in Nat
         /\ c = ";" => Separators(j, n + 1)' = Separators(j, n) + 1
         /\ c # ";" => Separators(j, n + 1)' = Separators(j, n)
<1>1. PICK f, g : f = fed /\ g = fed'
  OBVIOUS
<1>2. n \in Nat /\ g[n + 1] = c /\ \A k \in j .. n : g[k] = f[k]
  BY <1>1
<1> DEFINE S == {k \in j .. n : f[k] = ";"}
           T == {k \in j .. n + 1 : g[k] = ";"}
<1>3. Separators(j, n) = Cardinality(S) /\ Separators(j, n + 1)' = Cardinality(T)
  BY <1>1 DEF Separators
<1>4. IsFiniteSet(S)
  <2>1. IsFiniteSet(j .. n)
    BY <1>2, FS_Interval
  <2> QED BY <2>1, FS_Subset
<1>5. n + 1 \notin S /\ T = IF c = ";" THEN S \cup {n + 1} ELSE S
  <2>1. \A k : k \in j .. n + 1 <=> k \in j .. n \/ k = n + 1
    BY <1>2
  <2>2. n + 1 \notin j .. n
    BY <1>2
  <2>3. CASE c = ";"
    <3>1. ASSUME NEW k PROVE k \in T <=> k \in S \cup {n + 1}
      BY <1>2, <2>1, <2>2, <2>3
    <3> QED BY <2>2, <2>3, <3>1
  <2>4. CASE c # ";"
    <3>1. ASSUME NEW k PROVE k \in T <=> k \in S
      BY <1>2, <2>1, <2>2, <2>4
    <3> QED BY <2>2, <2>4, <3>1
  <2> QED BY <2>3, <2>4
<1> HIDE DEF S, T
<1>6. Cardinality(S) \in Nat /\ Cardinality(S \cup {n + 1}) = Cardinality(S) + 1
  BY <1>4, <1>5, FS_CardinalityType, FS_AddElement
<1> QED BY <1>3, <1>5, <1>6

(* What tm_putchar does with the parser and with the character, in every one  *)
(* of its states: it opens a sequence, continues it, or ends it.              *)
Opening(c) == state = "esc" /\ c = "["
Continuing(c) ==
    state = "csi" /\ (c \in DOMAIN Digits \/ (c = ";" /\ npar + 1 < NPAR))
Silent(c) ==
    \/ c \in {"ESC", "CR", "LF"}
    \/ Opening(c) \/ Continuing(c)
    \/ state = "csi" /\ c = "m"
Shown(c) == [i \in DOMAIN shown \cup {Len(fed) + 1} |->
                IF i = Len(fed) + 1 THEN c ELSE shown[i]]

LEMMA NormalShows ==
  ASSUME NEW c, tm_state_normal(c)
  PROVE  /\ state' = IF c = "ESC" THEN "esc" ELSE "normal"
         /\ shown' = IF c \in {"ESC", "CR", "LF"} THEN shown ELSE Shown(c)
BY DEF tm_state_normal, Stay, LineDown, Display, Shown

LEMMA Handled ==
  ASSUME NEW c, tm_putchar(c), npar \in Nat
  PROVE  /\ fed' = Append(fed, c)
         /\ state' = "esc" <=> c = "ESC"
         /\ state' = "csi" <=> Opening(c) \/ Continuing(c)
         /\ shown' = IF Silent(c) THEN shown ELSE Shown(c)
         /\ Opening(c) => npar' = 0
         /\ Continuing(c) /\ c = ";" => npar' = npar + 1
         /\ Continuing(c) /\ c # ";" => npar' = npar
<1> USE DEF Opening, Continuing, Silent
<1>0. DOMAIN Digits = {"0", "1", "2", "3", "4", "5", "6", "7", "8", "9"}
  BY DEF Digits
<1>1. fed' = Append(fed, c)
  BY DEF tm_putchar
<1>2. CASE state = "normal" /\ tm_state_normal(c)
  BY <1>1, <1>2, NormalShows
<1>3. CASE state = "esc" /\ tm_state_esc(c)
  <2>1. CASE c = "["
    BY <1>1, <1>3, <2>1 DEF tm_state_esc, Stay
  <2>2. CASE c # "["
    BY <1>1, <1>3, <2>2, NormalShows DEF tm_state_esc
  <2> QED BY <2>1, <2>2
<1>4. CASE state = "csi" /\ tm_state_csi(c)
  <2>1. CASE c = "m"
    BY <1>0, <1>1, <1>4, <2>1 DEF tm_state_csi, Stay
  <2>2. CASE c \in DOMAIN Digits
    <3>1. c \notin {"m", ";", "ESC", "CR", "LF", "["}
      BY <1>0, <2>2
    <3>2. state' = state /\ npar' = npar /\ shown' = shown
      BY <1>4, <2>2, <3>1 DEF tm_state_csi, Stay
    <3>3. Silent(c) /\ Continuing(c) /\ ~Opening(c)
      BY <1>4, <2>2, <3>1
    <3> HIDE DEF Opening, Continuing, Silent
    <3>4. state' = "csi" /\ c # "ESC" /\ c # ";"
      BY <1>4, <3>1, <3>2
    <3> QED BY <1>1, <3>2, <3>3, <3>4
  <2>3. CASE c = ";"
    BY <1>0, <1>1, <1>4, <2>3, NormalShows DEF tm_state_csi, Stay, RoomFor
  <2>4. CASE c \notin DOMAIN Digits \cup {"m", ";"}
    BY <1>0, <1>1, <1>4, <2>4, NormalShows DEF tm_state_csi
  <2> QED BY <2>1, <2>2, <2>3, <2>4
<1> QED BY <1>2, <1>3, <1>4 DEF tm_putchar

(* A sequence is being read behind the new character when it opens one, or    *)
(* continues the one that was.                                                *)
LEMMA RunsOn ==
  ASSUME SequenceInv, npar \in Nat, NEW c \in Chars, fed' = Append(fed, c),
         NEW n, n = Len(fed)
  PROVE  /\ Opens(n + 1)' <=> Opening(c)
         /\ \A j \in 1 .. n :
               /\ Running(j)' <=> Running(j) /\ Continuing(c)
               /\ Running(j)' /\ c = ";" => Separators(j, n + 1)' = npar + 1
               /\ Running(j)' /\ c # ";" => Separators(j, n + 1)' = npar
<1>1. /\ n \in Nat /\ Len(fed') = n + 1 /\ fed'[n + 1] = c
      /\ \A k \in 1 .. n : fed'[k] = fed[k]
  BY DEF SequenceInv
<1>2. Opens(n + 1)' <=> Opening(c)
  <2>1. Opens(n + 1)' <=> n > 0 /\ c = "[" /\ fed[n] = "ESC"
    BY <1>1 DEF Opens
  <2> QED BY <2>1 DEF SequenceInv, Opening
<1>3. ASSUME NEW j \in 1 .. n
      PROVE  /\ Running(j)' <=> Running(j) /\ Continuing(c)
             /\ Running(j)' /\ c = ";" => Separators(j, n + 1)' = npar + 1
             /\ Running(j)' /\ c # ";" => Separators(j, n + 1)' = npar
  <2>1. /\ Separators(j, n) \in Nat
        /\ c = ";" => Separators(j, n + 1)' = Separators(j, n) + 1
        /\ c # ";" => Separators(j, n + 1)' = Separators(j, n)
    BY SeparatorsGrow DEF SequenceInv
  <2>2. Opens(j)' <=> Opens(j)
    BY Earlier DEF SequenceInv
  <2>3. Params(j + 1, n + 1)' <=> Params(j + 1, n) /\ c \in DOMAIN Digits \cup {";"}
    <3>1. \A k : k \in j + 1 .. n + 1 <=> k \in j + 1 .. n \/ k = n + 1
      BY <1>1
    <3>2. \A k \in j + 1 .. n : fed'[k] = fed[k]
      BY <1>1
    <3> QED BY <1>1, <3>1, <3>2 DEF Params
  <2>4. Running(j)' <=> /\ Opens(j)' /\ Params(j + 1, n + 1)'
                        /\ Separators(j, n + 1)' < NPAR
    BY <1>1 DEF Running
  <2>5. Running(j) <=> Opens(j) /\ Params(j + 1, n) /\ Separators(j, n) < NPAR
    BY DEF Running
  <2>6. Running(j) => state = "csi" /\ npar = Separators(j, n)
    BY <1>1 DEF SequenceInv
  <2>7. NPAR \in Nat /\ ";" \notin DOMAIN Digits
    BY ParAssumption DEF Digits
  <2>8. CASE Running(j)
    <3>1. Running(j)' <=> Continuing(c)
      <4>1. CASE c = ";"
        BY <2>1, <2>2, <2>3, <2>4, <2>5, <2>6, <2>7, <2>8, <4>1 DEF Continuing
      <4>2. CASE c # ";"
        BY <2>1, <2>2, <2>3, <2>4, <2>5, <2>6, <2>8, <4>2 DEF Continuing
      <4> QED BY <4>1, <4>2
    <3> QED BY <2>1, <2>6, <2>8, <3>1
  <2>9. CASE ~Running(j)
    <3>1. CASE c = ";"
      <4>1. Separators(j, n + 1)' < NPAR => Separators(j, n) < NPAR
        <5>1. \A k \in Nat : k + 1 < NPAR => k < NPAR
          BY ParAssumption
        <5> QED BY <2>1, <3>1, <5>1
      <4> QED BY <2>2, <2>3, <2>4, <2>5, <2>9, <4>1
    <3>2. CASE c # ";"
      BY <2>1, <2>2, <2>3, <2>4, <2>5, <2>9, <3>2
    <3> QED BY <2>9, <3>1, <3>2
  <2> QED BY <2>8, <2>9
<1> QED BY <1>2, <1>3

(* The new character is one of a sequence exactly when it is not displayed.   *)
LEMMA SilentControls ==
  ASSUME SequenceInv, npar \in Nat, NEW c \in Chars, fed' = Append(fed, c),
         NEW n, n = Len(fed)
  PROVE  Controls(n + 1)' <=> Silent(c)
<1>1. /\ n \in Nat /\ Len(fed') = n + 1 /\ fed'[n + 1] = c
      /\ \A k \in 1 .. n : fed'[k] = fed[k]
  BY DEF SequenceInv
<1>2. Opens(n + 1)' <=> Opening(c)
  BY RunsOn
<1>3. ASSUME NEW j \in 1 .. n
      PROVE  /\ Opens(j)' <=> Opens(j)
             /\ Params(j + 1, n)' <=> Params(j + 1, n)
             /\ Separators(j, n) \in Nat
             /\ c = ";" => Separators(j, n + 1)' = Separators(j, n) + 1
             /\ c # ";" => Separators(j, n + 1)' = Separators(j, n)
  <2>1. Params(j + 1, n)' <=> Params(j + 1, n)
    <3>1. \A k \in j + 1 .. n : fed'[k] = fed[k]
      BY <1>1
    <3> QED BY <3>1 DEF Params
  <2> QED BY <2>1, Earlier, SeparatorsGrow DEF SequenceInv
<1>4. state = "csi" <=> \E j \in 1 .. n : Running(j)
  BY DEF SequenceInv
<1>5. \A j \in 1 .. n : Running(j) <=> /\ Opens(j) /\ Params(j + 1, n)
                                       /\ Separators(j, n) < NPAR
  BY DEF Running
<1>6. \A j \in 1 .. n : Running(j) => npar = Separators(j, n)
  BY DEF SequenceInv
<1>7. Controls(n + 1)' <=>
        \/ c \in {"ESC", "CR", "LF"}
        \/ Opens(n + 1)'
        \/ /\ c \in DOMAIN Digits \cup {";", "m"}
           /\ \E j \in 1 .. n : /\ Opens(j)' /\ Params(j + 1, n)'
                                /\ Separators(j, n + 1)' < NPAR
  BY <1>1 DEF Controls
<1>8. NPAR \in Nat /\ ";" \notin DOMAIN Digits
  BY ParAssumption DEF Digits
<1>9. CASE c = ";"
  <2>1. ASSUME NEW j \in 1 .. n
        PROVE  Separators(j, n + 1)' = Separators(j, n) + 1
    BY <1>3, <1>9
  <2>2. ASSUME NEW j \in 1 .. n, Opens(j)', Params(j + 1, n)', Separators(j, n + 1)' < NPAR
        PROVE  Continuing(c)
    <3>1. Separators(j, n) < NPAR
      <4>1. \A k \in Nat : k + 1 < NPAR => k < NPAR
        BY ParAssumption
      <4> QED BY <1>3, <2>1, <2>2, <4>1
    <3>2. Running(j)
      BY <1>3, <1>5, <2>2, <3>1
    <3>3. npar = Separators(j, n) /\ state = "csi"
      BY <1>4, <1>6, <3>2
    <3>4. npar + 1 < NPAR
      BY <2>1, <2>2, <3>3
    <3> QED BY <1>9, <3>3, <3>4 DEF Continuing
  <2>3. ASSUME Continuing(c)
        PROVE  \E j \in 1 .. n : Opens(j)' /\ Params(j + 1, n)' /\ Separators(j, n + 1)' < NPAR
    <3>1. state = "csi" /\ npar + 1 < NPAR
      BY <1>8, <1>9, <2>3 DEF Continuing
    <3>2. PICK j \in 1 .. n : Running(j)
      BY <1>4, <3>1
    <3>3. Separators(j, n + 1)' < NPAR
      BY <1>6, <2>1, <3>1, <3>2
    <3> QED BY <1>3, <1>5, <3>2, <3>3
  <2> QED BY <1>2, <1>7, <1>9, <2>2, <2>3 DEF Silent
<1>10. CASE c # ";"
  <2>1. ASSUME NEW j \in 1 .. n
        PROVE  Separators(j, n + 1)' = Separators(j, n)
    BY <1>3, <1>10
  <2>2. (\E j \in 1 .. n : Opens(j)' /\ Params(j + 1, n)' /\ Separators(j, n + 1)' < NPAR)
          <=> state = "csi"
    BY <1>3, <1>4, <1>5, <2>1
  <2> QED BY <1>2, <1>7, <1>10, <2>2 DEF Silent, Continuing
<1> QED BY <1>9, <1>10

LEMMA SequenceStep ==
  ASSUME SequenceInv, npar \in Nat, NEW c \in Chars, tm_putchar(c)
  PROVE  SequenceInv'
<1>1. PICK n : n = Len(fed)
  OBVIOUS
<1>2. fed' = Append(fed, c)
  BY Handled
<1>3. n \in Nat /\ Len(fed') = n + 1 /\ fed'[n + 1] = c /\ fed' \in Seq(Chars)
  BY <1>1, <1>2 DEF SequenceInv
<1>4. state' = "esc" <=> Len(fed') > 0 /\ fed'[Len(fed')] = "ESC"
  <2>1. state' = "esc" <=> c = "ESC"
    BY Handled
  <2>2. Len(fed') > 0 /\ fed'[Len(fed')] = c
    BY <1>3
  <2> QED BY <2>1, <2>2
<1>5. \A j \in 1 .. n :
         /\ Running(j)' <=> Running(j) /\ Continuing(c)
         /\ Running(j)' /\ c = ";" => Separators(j, n + 1)' = npar + 1
         /\ Running(j)' /\ c # ";" => Separators(j, n + 1)' = npar
  BY <1>1, <1>2, RunsOn
<1>6. /\ Running(n + 1)' <=> Opening(c)
      /\ Opening(c) => Separators(n + 1, n + 1)' = 0
  <2>1. Opens(n + 1)' <=> Opening(c)
    BY <1>1, <1>2, RunsOn
  <2>2. Opening(c) => Separators(n + 1, n + 1)' = 0
    <3> SUFFICES ASSUME Opening(c) PROVE Separators(n + 1, n + 1)' = 0
      OBVIOUS
    <3>0. fed'[n + 1] # ";" /\ \A k \in n + 1 .. n + 1 : k = n + 1
      BY <1>3 DEF Opening
    <3>1. {k \in n + 1 .. n + 1 : fed'[k] = ";"} = {}
      BY <3>0
    <3> QED BY <3>1, FS_EmptySet DEF Separators
  <2>3. Params((n + 1) + 1, n + 1)'
    <3>1. (n + 1) + 1 .. n + 1 = {}
      BY <1>3
    <3> QED BY <3>1 DEF Params
  <2>4. Running(n + 1)' <=> /\ Opens(n + 1)' /\ Params((n + 1) + 1, n + 1)'
                            /\ Separators(n + 1, n + 1)' < NPAR
    BY <1>3 DEF Running
  <2>5. 0 < NPAR
    BY ParAssumption
  <2> QED BY <2>1, <2>2, <2>3, <2>4, <2>5
<1>7. \A j : j \in 1 .. n + 1 <=> j \in 1 .. n \/ j = n + 1
  BY <1>3
<1>8. state = "csi" <=> \E j \in 1 .. n : Running(j)
  BY <1>1 DEF SequenceInv
<1>9. state' = "csi" <=> \E j \in 1 .. n + 1 : Running(j)'
  <2>1. state' = "csi" <=> Opening(c) \/ Continuing(c)
    BY Handled
  <2>2. Continuing(c) => state = "csi"
    BY DEF Continuing
  <2> QED BY <1>5, <1>6, <1>7, <1>8, <2>1, <2>2
<1>10. ASSUME NEW j \in 1 .. n + 1, Running(j)'
       PROVE  npar' = Separators(j, n + 1)'
  <2>1. CASE j = n + 1
    BY <1>6, <1>10, <2>1, Handled
  <2>2. CASE j \in 1 .. n /\ c = ";"
    BY <1>5, <1>10, <2>2, Handled
  <2>3. CASE j \in 1 .. n /\ c # ";"
    BY <1>5, <1>10, <2>3, Handled
  <2> QED BY <1>7, <2>1, <2>2, <2>3
<1> QED BY <1>3, <1>4, <1>9, <1>10 DEF SequenceInv

LEMMA SwallowedStep ==
  ASSUME SequenceInv, Swallowed, npar \in Nat, NEW c \in Chars, tm_putchar(c)
  PROVE  Swallowed'
<1>1. PICK n : n = Len(fed)
  OBVIOUS
<1>2. fed' = Append(fed, c)
  BY Handled
<1>3. /\ n \in Nat /\ fed'[n + 1] = c /\ DOMAIN fed = 1 .. n /\ DOMAIN fed' = 1 .. n + 1
      /\ \A k \in 1 .. n : fed'[k] = fed[k]
  BY <1>1, <1>2 DEF SequenceInv
<1>4. \A i \in 1 .. n : Controls(i)' <=> Controls(i)
  BY <1>1, <1>2, Earlier DEF SequenceInv
<1>5. Controls(n + 1)' <=> Silent(c)
  BY <1>1, <1>2, SilentControls
<1>6. \A j : j \in 1 .. n + 1 <=> j \in 1 .. n \/ j = n + 1
  BY <1>3
<1>7. n + 1 \notin 1 .. n
  BY <1>3
<1>8. PICK D : D = {j \in DOMAIN fed : ~Controls(j)}
  OBVIOUS
<1>9. PICK E : E = {j \in DOMAIN fed' : ~Controls(j)'}
  OBVIOUS
<1>10. shown = [i \in D |-> fed[i]] /\ n + 1 \notin D
  BY <1>3, <1>7, <1>8 DEF Swallowed
<1>11. CASE Silent(c)
  <2>1. E = D
    BY <1>3, <1>4, <1>5, <1>6, <1>8, <1>9, <1>11
  <2>2. shown' = shown
    BY <1>11, Handled
  <2>3. \A i \in D : fed'[i] = fed[i]
    BY <1>3, <1>8
  <2>4. shown' = [i \in E |-> fed'[i]]
    BY <1>10, <2>1, <2>2, <2>3
  <2> QED BY <1>9, <2>4 DEF Swallowed
<1>12. CASE ~Silent(c)
  <2>1. E = D \cup {n + 1}
    BY <1>3, <1>4, <1>5, <1>6, <1>8, <1>9, <1>12
  <2>2. shown' = [i \in D \cup {n + 1} |-> IF i = n + 1 THEN c ELSE shown[i]]
    BY <1>1, <1>10, <1>12, Handled DEF Shown
  <2>3. \A i \in D : fed'[i] = fed[i] /\ i # n + 1
    BY <1>3, <1>7, <1>8
  <2>4. shown' = [i \in E |-> fed'[i]]
    BY <1>3, <1>10, <2>1, <2>2, <2>3
  <2> QED BY <1>9, <2>4 DEF Swallowed
<1> QED BY <1>11, <1>12

(* Whatever text is written, the characters of escape sequences are swallowed *)
(* and no others are, wherever a sequence is cut short, opens another or has  *)
(* too many parameters.                                                       *)
THEOREM SequencesSwallowed == Spec => []Swallowed
<1> DEFINE Inv == ScreenInv /\ ParserInv /\ SequenceInv /\ Swallowed
<1>1. Init => Inv
  <2> SUFFICES ASSUME Init PROVE SequenceInv /\ Swallowed
    BY InitInv
  <2>1. fed = << >> /\ shown = << >> /\ state = "normal" /\ Len(fed) = 0
    BY DEF Init
  <2>2. SequenceInv
    BY <2>1 DEF SequenceInv
  <2>3. Swallowed
    BY <2>1 DEF Swallowed
  <2> QED BY <2>2, <2>3
<1>2. Inv /\ [Next]_vars => Inv'
  <2> SUFFICES ASSUME Inv, [Next]_vars PROVE Inv'
    OBVIOUS
  <2>1. ASSUME NEW c \in Chars, tm_putchar(c) PROVE Inv'
    <3>1. npar \in Nat
      BY ParAssumption DEF ParserInv
    <3> QED BY <2>1, <3>1, StepInv, SequenceStep, SwallowedStep
  <2>2. CASE UNCHANGED vars
    <3>1. /\ px' = px /\ py' = py /\ attr' = attr /\ state' = state /\ par' = par
          /\ npar' = npar /\ screen' = screen /\ scrolled' = scrolled /\ paper' = paper
          /\ fed' = fed /\ shown' = shown
      BY <2>2 DEF vars
    <3>2. ScreenInv' /\ ParserInv'
      BY <3>1 DEF ScreenInv, ParserInv, Visible
    <3>3. SequenceInv'
      BY <3>1 DEF SequenceInv, Running, Opens, Params, Separators
    <3>4. Swallowed'
      <4>1. ASSUME NEW i PROVE Controls(i)' <=> Controls(i)
        BY <3>1 DEF Controls, Opens, Params, Separators
      <4> QED BY <3>1, <4>1 DEF Swallowed
    <3> QED BY <3>2, <3>3, <3>4
  <2> QED BY <2>1, <2>2 DEF Next
<1>3. Inv => Swallowed
  OBVIOUS
<1> HIDE DEF Inv
<1> QED BY <1>1, <1>2, <1>3, PTL DEF Spec
===============================================================================
