--------------------------- MODULE PageTables_proofs ---------------------------
(* Proofs about the kernel's page tables, for tables of every size and every    *)
(* memory: mapping through the self reference changes only the pages asked for, *)
(* the tables stay a tree of their own, and all of memory ends up mapped.       *)
EXTENDS PageTables, NatLemmas, TLAPS

Keys == 0 .. EN - 1
EntryType == [at : Nat, present : BOOLEAN, ps : BOOLEAN]
TableType == [Keys -> EntryType]

-------------------------------------------------------------------------------
(* The invariant.  L gives every table of M its level.  Each entry of a table   *)
(* that leads to a table leads one level down, to one that no other entry leads *)
(* to; the self reference is the exception.                                     *)
Entries(M, L) == {x \in (DOMAIN L) \X Keys : /\ L[x[1]] > 0 /\ x # <<PML4, SELF>>
                                           /\ M[x[1]][x[2]].present}
Tree(M, L, n) ==
    /\ L \in [DOMAIN L -> 0 .. 3] /\ DOMAIN L \subseteq lay.first .. n - 1
    /\ PML4 \in DOMAIN L /\ \A f \in DOMAIN L : L[f] = 3 <=> f = PML4
    /\ M[PML4][SELF] = Entry(PML4, FALSE)
    /\ \A x \in Entries(M, L) :
          LET ent == M[x[1]][x[2]] IN
          IF ent.ps THEN L[x[1]] = 1
          ELSE ent.at \in DOMAIN L /\ L[ent.at] = L[x[1]] - 1
    /\ \A x, y \in Entries(M, L) :
          LET a == M[x[1]][x[2]]   b == M[y[1]][y[2]] IN
          ~ a.ps /\ ~ b.ps /\ a.at = b.at => x = y

(* Outside the direct mapping no page leads to a table, or to one yet to be     *)
(* given.                                                                       *)
Outside(M, L, n) ==
    \A v \in Program : v < DIRECT \/ v >= VMAP =>
        Walk(M, Path(v)) \notin DOMAIN L /\ Walk(M, Path(v)) < n

(* The table that the entries of the upper levels lead to for page v.           *)
Ent3(M, v) == Entered(M, PML4, Digit(v, 3))
Ent2(M, v) == Entered(M, Ent3(M, v).at, Digit(v, 2))
Ent1(M, v) == Entered(M, Ent2(M, v).at, Digit(v, 1))
Ent0(M, v) == Entered(M, Ent1(M, v).at, Digit(v, 0))
Tab(M, v, l) == CASE l = 3 -> PML4
                  [] l = 2 -> Ent3(M, v).at
                  [] l = 1 -> Ent2(M, v).at
                  [] l = 0 -> Ent1(M, v).at

Phases == {"direct", "descriptors", "clearing", "done", "broken"}

CallType ==
    [v : Nat, p : Nat, s : Nat, i : 0 .. OUT, l : {0, 1}, off : Nat, rest : Nat]

TypeInv ==
    /\ lay \in Layouts
    /\ mem \in [Frames -> TableType]
    /\ nxt \in lay.first .. lay.limit
    /\ call \in CallType
    /\ ph \in Phases
    /\ e \in 1 .. Len(lay.map) + 1 /\ base \in Nat /\ size \in Nat
    /\ vm \in Nat /\ need \in Nat /\ order \in 0 .. MAX_ORDER - 1

(* The request that is being worked on: none of its pages is mapped yet, and    *)
(* where _pg_map is, there is a table.                                          *)
IsMapped(v) == Walk(mem, Path(v)) # Fault
CallInv(L) ==
    call.s > 0 =>
        /\ ph \in {"direct", "descriptors", "clearing"}
        /\ \A w \in call.v .. call.v + call.s - 1 : w \in Program /\ ~ IsMapped(w)
        /\ call.i # OUT =>
              /\ call.i >= call.l
              /\ call.l = 1 => call.v % EN = 0 /\ call.s >= EN
              /\ Tab(mem, call.v, call.i) \in DOMAIN L
              /\ L[Tab(mem, call.v, call.i)] = call.i

(* build_direct_mapping goes upwards: nothing is mapped from the page at which  *)
(* it is up to VMAP, and the regions it has been through lead to themselves,    *)
(* but for the request and the region collected.                                *)
From == PageOf(base)
Upto == PageOf(base + size)
InRegion(k, p) ==
    p \in PageOf(lay.map[k].base) .. PageOf(lay.map[k].base + lay.map[k].size) - 1
DirectInv ==
    /\ ph = "direct" =>
          /\ vm = VMAP
          /\ DIRECT + Upto <= VMAP
          /\ e <= Len(lay.map) => base + size <= lay.map[e].base
          /\ call.s > 0 => call.v + call.s <= DIRECT + From
          /\ \A w \in 0 .. VMAP - 1 :
                IsMapped(w) => w < IF call.s > 0 THEN call.v ELSE DIRECT + From
    /\ ph = "descriptors" /\ call.s > 0 =>
          /\ vm = VMAP /\ call.v + call.s <= VMAP
          /\ \A w \in 0 .. VMAP - 1 : IsMapped(w) => w < call.v
    /\ ph \in {"direct", "descriptors"} /\ call.s > 0 => call.v = DIRECT + call.p
    /\ ph \notin {"direct", "broken"} => e = Len(lay.map) + 1
    /\ ph \notin {"direct", "descriptors"} => call.rest = 0
    /\ ph # "broken" /\ call.rest = 0 =>
          \A k \in 1 .. e - 1 : \A p \in Nat :
              InRegion(k, p) =>
                  \/ Walk(mem, Path(DIRECT + p)) = p
                  \/ ph = "direct" /\ p \in From .. Upto - 1
                  \/ call.s > 0 /\ DIRECT + p \in call.v .. call.v + call.s - 1

(* build_page_map goes upwards too: the descriptors below vm have cleared pages *)
(* of their own, those of the block being mapped lead into it.                  *)
Vm == IF ph = "clearing" THEN vm + 2^order - call.s ELSE vm
Block == call.p - (call.v - vm)
PagesInv(L) ==
    ph # "broken" =>
        /\ VMAP <= vm
        /\ ph # "direct" => vm + need = VMAP + DescPages(lay)
        /\ \A w \in VMAP .. WINDOW - 1 : IsMapped(w) => w < Vm
        /\ \A w \in VMAP .. vm - 1 :
              LET f == Walk(mem, Path(w))
              IN f \in lay.first .. nxt - 1 /\ mem[f] = Zeroed
        /\ ph = "clearing" =>
              /\ call.v + call.s = vm + 2^order /\ vm <= call.v /\ 2^order <= need
              /\ lay.first <= Block /\ Block + 2^order <= nxt
              /\ \A f \in Block .. Block + 2^order - 1 : f \notin DOMAIN L
              /\ \A w \in vm .. call.v - 1 : Walk(mem, Path(w)) = Block + (w - vm)
        /\ ph = "done" => need = 0

TreeInv(L) == Tree(mem, L, nxt) /\ Outside(mem, L, nxt) /\ CallInv(L) /\ PagesInv(L)

IInv ==
    /\ TypeInv
    /\ ph = "broken" => call.s = 0
    /\ DirectInv
    /\ ph # "broken" => \E L : TreeInv(L)

-------------------------------------------------------------------------------
(* Numbers of pages and their digits.                                           *)
LEMMA DivLess ==
    ASSUME NEW a \in Nat, NEW b \in Nat \ {0}, NEW c \in Nat
    PROVE  a < c * b <=> a \div b < c
<1> DEFINE q == a \div b
<1>1. q \in Nat /\ q * b <= a /\ a < q * b + b
  BY DivMod
<1> HIDE DEF q
<1>2. ASSUME q < c PROVE a < c * b
  <2>1. q + 1 <= c
    BY <1>1, <1>2
  <2>2. (q + 1) * b <= c * b
    BY <1>1, <2>1
  <2> QED BY <1>1, <2>2
<1>3. ASSUME c <= q PROVE c * b <= a
  <2>1. c * b <= q * b
    BY <1>1, <1>3
  <2> QED BY <1>1, <2>1
<1> QED BY <1>1, <1>2, <1>3 DEF q

(* The page of an address: the pages of two numbers of bytes add up when one of *)
(* them is whole.                                                               *)
LEMMA PageFacts ==
    /\ PageOf(0) = 0
    /\ \A a, b \in Nat :
          /\ PageOf(a) \in Nat /\ b % PageBytes \in Nat
          /\ a <= b => PageOf(a) <= PageOf(b)
          /\ PageOf(a) + PageOf(b) <= PageOf(a + b)
          /\ b % PageBytes = 0 => PageOf(a + b) = PageOf(a) + PageOf(b)
          /\ a < (PageOf(a) + 1) * PageBytes
<1>0. PageBytes \in Nat \ {0}
  BY SizeAssumption
<1>1. ASSUME NEW a \in Nat
      PROVE  /\ PageOf(a) \in Nat /\ a % PageBytes \in 0 .. PageBytes - 1
             /\ a = PageOf(a) * PageBytes + (a % PageBytes)
             /\ PageOf(a) * PageBytes \in Nat
  <2>1. PICK x, q : x = PageOf(a) /\ q = a % PageBytes
    OBVIOUS
  <2>2. x \in Nat /\ q \in 0 .. PageBytes - 1 /\ a = x * PageBytes + q
    BY <1>0, <2>1, DivMod DEF PageOf
  <2>3. x * PageBytes \in Nat
    BY <1>0, <2>2
  <2> QED BY <2>1, <2>2, <2>3
<1>2. ASSUME NEW a \in Nat, NEW c \in Nat
      PROVE  a < c * PageBytes <=> PageOf(a) < c
  BY <1>0, DivLess DEF PageOf
<1>3. ASSUME NEW a \in Nat, NEW b \in Nat
      PROVE  /\ a <= b => PageOf(a) <= PageOf(b)
             /\ PageOf(a) + PageOf(b) <= PageOf(a + b)
             /\ b % PageBytes = 0 => PageOf(a + b) = PageOf(a) + PageOf(b)
             /\ a < (PageOf(a) + 1) * PageBytes
  <2>1. PICK x, y, z : x = PageOf(a) /\ y = PageOf(b) /\ z = PageOf(a + b)
    OBVIOUS
  <2>2. /\ x \in Nat /\ y \in Nat /\ z \in Nat /\ a + b \in Nat
        /\ x + 1 \in Nat /\ y + 1 \in Nat /\ x + y \in Nat /\ x + y + 1 \in Nat
    <3>1. a + b \in Nat
      OBVIOUS
    <3>2. x \in Nat /\ y \in Nat /\ z \in Nat
      BY <1>1, <2>1, <3>1
    <3> QED BY <3>1, <3>2
  <2>3. a < (x + 1) * PageBytes
    BY <1>2, <2>1, <2>2
  <2>4. a <= b => x <= y
    <3>1. b < (y + 1) * PageBytes
      BY <1>2, <2>1, <2>2
    <3>2. (y + 1) * PageBytes \in Nat
      BY <1>0, <2>2
    <3>3. a <= b => a < (y + 1) * PageBytes
      BY <3>1, <3>2
    <3>4. a <= b => x < y + 1
      BY <1>2, <2>1, <2>2, <3>3
    <3> QED BY <2>2, <3>4
  <2>5. PICK m, n, c, d : /\ m = x * PageBytes /\ n = y * PageBytes
                          /\ c = a % PageBytes /\ d = b % PageBytes
    OBVIOUS
  <2>6. /\ m \in Nat /\ n \in Nat /\ c \in 0 .. PageBytes - 1 /\ d \in 0 .. PageBytes - 1
        /\ a = m + c /\ b = n + d
    BY <1>1, <2>1, <2>5
  <2>7. /\ (x + y) * PageBytes = m + n
        /\ (x + y + 1) * PageBytes = m + n + PageBytes
    BY <1>0, <2>2, <2>5
  <2>8. x + y <= z
    <3>1. ~ a + b < (x + y) * PageBytes
      BY <1>0, <2>6, <2>7
    <3>2. ~ z < x + y
      BY <1>2, <2>1, <2>2, <3>1
    <3> QED BY <2>2, <3>2
  <2>9. b % PageBytes = 0 => z <= x + y
    <3>1. d = 0 => a + b < (x + y + 1) * PageBytes
      BY <1>0, <2>6, <2>7
    <3>2. d = 0 => z < x + y + 1
      BY <1>2, <2>1, <2>2, <3>1
    <3> QED BY <2>2, <2>5, <3>2
  <2> QED BY <2>1, <2>2, <2>3, <2>4, <2>8, <2>9
<1>4. PageOf(0) = 0
  <2>1. 0 < 1 * PageBytes
    BY <1>0
  <2>2. PageOf(0) < 1 /\ PageOf(0) \in Nat
    BY <1>1, <1>2, <2>1
  <2> QED BY <2>2
<1>5. \A a, b \in Nat : PageOf(a) \in Nat /\ b % PageBytes \in Nat
  BY <1>0, <1>1
<1> QED BY <1>3, <1>4, <1>5

(* One entry of the topmost table spans the shifts that are below EN.           *)
LEMMA Sizes ==
    /\ EN \in Nat /\ EN >= 4 /\ Span \in Nat \ {0} /\ EN <= Span /\ EN * Span \in Nat
    /\ DIRECT \in Nat /\ VMAP \in Nat /\ WINDOW \in Nat
    /\ DIRECT < VMAP /\ VMAP < WINDOW /\ WINDOW < EN * Span
    /\ SELF \in Keys /\ EN - 1 \in Keys /\ SELF # EN - 1
<1>1. EN \in Nat /\ EN >= 4
  BY SizeAssumption
<1>2. EN * EN \in Nat /\ EN * EN >= EN
  BY <1>1
<1>3. (EN * EN) * EN \in Nat /\ (EN * EN) * EN >= EN
  BY <1>1, <1>2
<1>4. Span \in Nat /\ Span >= EN /\ Span > 0
  BY <1>1, <1>3 DEF Span
<1>5. ASSUME NEW a \in Nat, NEW b \in Nat, a < b
      PROVE  a * Span \in Nat /\ b * Span \in Nat /\ a * Span < b * Span
  <2> HIDE DEF Span
  <2>1. PICK c \in Nat : b = a + 1 + c
    <3>1. b - a - 1 \in Nat /\ b = a + 1 + (b - a - 1)
      BY <1>5
    <3> QED BY <3>1
  <2>2. a * Span \in Nat /\ c * Span \in Nat /\ b * Span = a * Span + Span + c * Span
    BY <1>4, <2>1
  <2> QED BY <1>4, <2>2
<1>6. /\ DirectEntry \in Nat /\ VmapEntry \in Nat /\ SELF \in Nat
      /\ DirectEntry < VmapEntry /\ VmapEntry < SELF /\ SELF < EN
  BY <1>1, SizeAssumption DEF SELF
<1>7. /\ DirectEntry * Span \in Nat /\ VmapEntry * Span \in Nat /\ SELF * Span \in Nat
      /\ EN * Span \in Nat /\ DirectEntry * Span < VmapEntry * Span
      /\ VmapEntry * Span < SELF * Span /\ SELF * Span < EN * Span
  BY <1>1, <1>5, <1>6
<1> QED BY <1>1, <1>4, <1>7 DEF DIRECT, VMAP, WINDOW, SELF, Keys

LEMMA ShiftFacts ==
    ASSUME NEW v \in Nat
    PROVE  /\ Shift(v) \in Nat /\ Shift(Shift(v)) \in Nat /\ Shift(Shift(Shift(v))) \in Nat
           /\ \A c \in Nat : v < c * Span <=> Shift(Shift(Shift(v))) < c
<1>1. EN \in Nat \ {0} /\ EN * EN \in Nat
  BY Sizes
<1>2. ASSUME NEW w \in Nat PROVE Shift(w) \in Nat
  BY <1>1, <1>2, DivMod DEF Shift
<1>3. ASSUME NEW w \in Nat, NEW c \in Nat PROVE w < c * EN <=> Shift(w) < c
  BY <1>1, DivLess DEF Shift
<1>4. ASSUME NEW c \in Nat PROVE v < c * Span <=> Shift(Shift(Shift(v))) < c
  <2>1. c * EN \in Nat /\ (c * EN) * EN \in Nat /\ ((c * EN) * EN) * EN = c * Span
    <3>1. c * EN \in Nat
      BY <1>1
    <3>2. (c * EN) * EN \in Nat
      BY <1>1, <3>1
    <3>3. ((c * EN) * EN) * EN = c * (EN * EN * EN)
      BY <1>1
    <3> QED BY <3>1, <3>2, <3>3 DEF Span
  <2>2. v < ((c * EN) * EN) * EN <=> Shift(v) < (c * EN) * EN
    BY <1>3, <2>1
  <2>3. Shift(v) < (c * EN) * EN <=> Shift(Shift(v)) < c * EN
    BY <1>2, <1>3, <2>1
  <2>4. Shift(Shift(v)) < c * EN <=> Shift(Shift(Shift(v))) < c
    BY <1>2, <1>3, <2>1
  <2> QED BY <2>1, <2>2, <2>3, <2>4
<1> QED BY <1>2, <1>4

LEMMA DigitIs ==
    ASSUME NEW v
    PROVE  /\ Digit(v, 0) = v % EN /\ Digit(v, 1) = Shift(v) % EN
           /\ Digit(v, 2) = Shift(Shift(v)) % EN
           /\ Digit(v, 3) = Shift(Shift(Shift(v))) % EN
BY DEF Digit, Shifted

LEMMA DigitType ==
    ASSUME NEW v \in Nat, NEW l \in 0 .. 3
    PROVE  Digit(v, l) \in Keys
<1>1. EN \in Nat \ {0}
  BY Sizes
<1>2. \A w \in Nat : w % EN \in Keys
  BY <1>1, DivMod DEF Keys
<1> QED BY <1>2, DigitIs, ShiftFacts

(* The digits above the last determine the large block of a page, and all of    *)
(* them the page.                                                               *)
LEMMA TopDigit ==
    ASSUME NEW v \in VPages
    PROVE  v \in Nat /\ Digit(v, 3) = Shift(Shift(Shift(v)))
<1>1. v \in Nat /\ v < EN * Span
  BY Sizes DEF VPages
<1>2. Shift(Shift(Shift(v))) \in Nat /\ Shift(Shift(Shift(v))) < EN
  BY <1>1, ShiftFacts, Sizes
<1>3. EN \in Nat
  BY Sizes
<1>4. \A k \in Nat : k < EN => k % EN = k
  BY <1>3
<1> QED BY <1>1, <1>2, <1>4, DigitIs

LEMMA BlockDigits ==
    ASSUME NEW v \in VPages, NEW w \in VPages,
           Digit(v, 1) = Digit(w, 1), Digit(v, 2) = Digit(w, 2), Digit(v, 3) = Digit(w, 3)
    PROVE  Shift(v) = Shift(w)
<1>1. EN \in Nat \ {0}
  BY Sizes
<1>2. \A u \in Nat : u = Shift(u) * EN + (u % EN)
  BY <1>1, DivMod DEF Shift
<1>3. Shift(Shift(Shift(v))) = Shift(Shift(Shift(w)))
  BY TopDigit
<1>4. ASSUME NEW x \in Nat, NEW y \in Nat, Shift(x) = Shift(y), x % EN = y % EN
      PROVE  x = y
  <2>1. x = Shift(x) * EN + (x % EN) /\ y = Shift(y) * EN + (y % EN)
    BY <1>2
  <2>2. PICK a : a = Shift(x) * EN
    OBVIOUS
  <2> QED BY ONLY <2>1, <2>2, <1>4
<1>5. /\ Shift(v) \in Nat /\ Shift(Shift(v)) \in Nat
      /\ Shift(w) \in Nat /\ Shift(Shift(w)) \in Nat
  BY TopDigit, ShiftFacts
<1>6. Shift(v) % EN = Shift(w) % EN /\ Shift(Shift(v)) % EN = Shift(Shift(w)) % EN
  BY DigitIs
<1>7. Shift(Shift(v)) = Shift(Shift(w))
  BY <1>3, <1>4, <1>5, <1>6
<1> QED BY <1>4, <1>5, <1>6, <1>7

LEMMA PageDigits ==
    ASSUME NEW v \in VPages, NEW w \in VPages, \A l \in 0 .. 3 : Digit(v, l) = Digit(w, l)
    PROVE  v = w
<1>1. EN \in Nat \ {0} /\ v \in Nat /\ w \in Nat
  BY Sizes, TopDigit
<1>2. \A u \in Nat : u = Shift(u) * EN + (u % EN)
  BY <1>1, DivMod DEF Shift
<1>3. Shift(v) = Shift(w)
  BY BlockDigits
<1>4. v % EN = w % EN
  BY DigitIs
<1>5. v = Shift(v) * EN + (v % EN) /\ w = Shift(w) * EN + (w % EN)
  BY <1>1, <1>2
<1> QED BY ONLY <1>3, <1>4, <1>5

LEMMA AlignedBlock ==
    ASSUME NEW v \in VPages, NEW w \in Nat, v % EN = 0
    PROVE  /\ Digit(v, 0) = 0
           /\ Shift(v) = Shift(w) <=> w \in v .. v + EN - 1
           /\ w \in v .. v + EN - 1 =>
                 Digit(w, 0) = w - v /\ \A l \in 1 .. 3 : Digit(w, l) = Digit(v, l)
<1>1. EN \in Nat \ {0} /\ v \in Nat
  BY Sizes, TopDigit
<1>2. /\ v = Shift(v) * EN + (v % EN) /\ Shift(v) \in Nat
      /\ w = Shift(w) * EN + (w % EN) /\ Shift(w) \in Nat /\ w % EN \in 0 .. EN - 1
  BY <1>1, DivMod DEF Shift
<1>3. ASSUME Shift(v) = Shift(w) PROVE w \in v .. v + EN - 1 /\ w % EN = w - v
  <2>1. w = v + (w % EN)
    <3>1. v % EN = 0 /\ v = Shift(v) * EN + 0
      BY <1>2
    <3> QED BY <1>1, <1>2, <1>3, <3>1
  <2>2. PICK x : x = w % EN
    OBVIOUS
  <2>3. x \in 0 .. EN - 1 /\ w = v + x /\ v \in Nat /\ EN \in Nat
    BY <1>1, <1>2, <2>1, <2>2
  <2>4. w \in v .. v + EN - 1 /\ x = w - v
    BY ONLY <2>3
  <2> QED BY <2>2, <2>4
<1>4. ASSUME w \in v .. v + EN - 1 PROVE Shift(v) = Shift(w)
  <2>1. PICK a, b, x : a = Shift(v) /\ b = Shift(w) /\ x = a * EN
    OBVIOUS
  <2>2. a \in Nat /\ b \in Nat /\ x \in Nat /\ v = x
    BY <1>1, <1>2, <2>1
  <2>3. (a + 1) * EN = x + EN
    BY <1>1, <2>1, <2>2
  <2>4. w < (a + 1) * EN /\ ~ w < a * EN
    BY <1>1, <1>4, <2>1, <2>2, <2>3
  <2>5. b < a + 1 /\ ~ b < a
    <3>1. w < (a + 1) * EN <=> w \div EN < a + 1
      BY <1>1, <2>2, DivLess
    <3>2. w < a * EN <=> w \div EN < a
      BY <1>1, <2>2, DivLess
    <3> QED BY <2>1, <2>4, <3>1, <3>2 DEF Shift
  <2> QED BY <2>1, <2>2, <2>5
<1>5. ASSUME NEW l \in 1 .. 3, Shift(v) = Shift(w) PROVE Digit(w, l) = Digit(v, l)
  BY <1>5, DigitIs
<1> QED BY <1>3, <1>4, <1>5, DigitIs

(* The pages below the window of the tables, and behind it.                     *)
LEMMA Areas ==
    ASSUME NEW v \in Nat
    PROVE  /\ v < WINDOW => v \in Program /\ Digit(v, 3) # EN - 1
           /\ v \in VPages /\ Digit(v, 3) = EN - 1 => v >= WINDOW
<1>1. PICK q : q = Shift(Shift(Shift(v)))
  OBVIOUS
<1>2. q \in Nat /\ \A c \in Nat : v < c * Span <=> q < c
  BY <1>1, ShiftFacts
<1>3. EN \in Nat /\ EN >= 4 /\ SELF \in Nat /\ SELF < EN - 1
  BY Sizes DEF SELF
<1>4. v < WINDOW <=> q < SELF
  BY <1>2, <1>3 DEF WINDOW
<1>5. v < WINDOW => v \in VPages
  BY Sizes DEF VPages
<1>6. v \in VPages => Digit(v, 3) = q
  BY <1>1, TopDigit
<1>7. ~ v < WINDOW => v >= WINDOW
  BY Sizes
<1> QED BY <1>2, <1>3, <1>4, <1>5, <1>6, <1>7 DEF Program

-------------------------------------------------------------------------------
(* What the MMU finds.                                                          *)
Memory == [Frames -> TableType]

LEMMA Frame == Fault \notin Frames /\ Fault \notin Nat
BY SizeAssumption DEF Fault

LEMMA ProgramPage ==
    ASSUME NEW v \in Program
    PROVE  /\ v \in VPages /\ v \in Nat /\ Digit(v, 3) # SELF
           /\ \A l \in 0 .. 3 : Digit(v, l) \in Keys
BY TopDigit, DigitType DEF Program

LEMMA EnteredIs ==
    ASSUME NEW M \in Memory, NEW f, NEW k \in Keys
    PROVE  LET x == Entered(M, f, k) IN
           /\ x.ps \in BOOLEAN /\ x.at \in Nat \cup {Fault}
           /\ x.at # Fault => f \in Frames /\ x = M[f][k] /\ x.present
           /\ x.at = Fault => ~ x.ps /\ ~ (f \in Frames /\ M[f][k].present)
<1>1. CASE f \in Frames /\ M[f][k].present
  <2>1. Entered(M, f, k) = M[f][k] /\ M[f][k] \in EntryType
    BY <1>1 DEF Entered, Memory, TableType
  <2> QED BY <1>1, <2>1, Frame DEF EntryType
<1>2. CASE ~ (f \in Frames /\ M[f][k].present)
  BY <1>2 DEF Entered, Entry
<1> QED BY <1>1, <1>2

LEMMA WalkIs ==
    ASSUME NEW M, NEW v
    PROVE  Walk(M, Path(v)) = IF Ent1(M, v).ps THEN Ent1(M, v).at + Digit(v, 0)
                              ELSE Ent0(M, v).at
BY DEF Walk, Path, Ent3, Ent2, Ent1, Ent0

LEMMA TabIs ==
    ASSUME NEW M, NEW v
    PROVE  /\ Tab(M, v, 3) = PML4 /\ Tab(M, v, 2) = Ent3(M, v).at
           /\ Tab(M, v, 1) = Ent2(M, v).at /\ Tab(M, v, 0) = Ent1(M, v).at
BY DEF Tab

LEMMA WalkType ==
    ASSUME NEW M \in Memory, NEW v \in Program
    PROVE  Walk(M, Path(v)) \in Nat \cup {Fault} /\ Walk(M, Path(v)) \in Int
<1>1. /\ Digit(v, 3) \in Keys /\ Digit(v, 2) \in Keys
      /\ Digit(v, 1) \in Keys /\ Digit(v, 0) \in Keys /\ Digit(v, 0) \in Nat
  BY ProgramPage, Sizes DEF Keys
<1>2. Ent0(M, v).at \in Nat \cup {Fault}
  BY <1>1, EnteredIs DEF Ent0
<1>3. Ent1(M, v).ps => Ent1(M, v).at \in Nat
  BY <1>1, EnteredIs DEF Ent1
<1>4. Fault \in Int
  BY DEF Fault
<1> QED BY <1>1, <1>2, <1>3, <1>4, WalkIs

(* pg_vma2pgdir leads to the table of a page on every level that it reaches     *)
(* through tables.                                                              *)
LEMMA SelfWalk ==
    ASSUME NEW M, NEW v, PML4 \in Frames, M[PML4][SELF] = Entry(PML4, FALSE)
    PROVE  /\ Walk(M, PgDir(v, 3)) = Tab(M, v, 3)
           /\ Walk(M, PgDir(v, 2)) = Tab(M, v, 2)
           /\ ~ Ent3(M, v).ps => Walk(M, PgDir(v, 1)) = Tab(M, v, 1)
           /\ ~ Ent2(M, v).ps => Walk(M, PgDir(v, 0)) = Tab(M, v, 0)
<1>1. Entered(M, PML4, SELF) = Entry(PML4, FALSE)
  BY DEF Entered, Entry
<1>2. Entry(PML4, FALSE).at = PML4 /\ Entry(PML4, FALSE).ps = FALSE
  BY DEF Entry
<1>3. /\ PgDir(v, 3)[1] = SELF /\ PgDir(v, 3)[2] = SELF
      /\ PgDir(v, 3)[3] = SELF /\ PgDir(v, 3)[4] = SELF
      /\ PgDir(v, 2)[1] = SELF /\ PgDir(v, 2)[2] = SELF
      /\ PgDir(v, 2)[3] = SELF /\ PgDir(v, 2)[4] = Digit(v, 3)
  BY DEF PgDir
<1>4. /\ PgDir(v, 1)[1] = SELF /\ PgDir(v, 1)[2] = SELF
      /\ PgDir(v, 1)[3] = Digit(v, 3) /\ PgDir(v, 1)[4] = Digit(v, 2)
      /\ PgDir(v, 0)[1] = SELF /\ PgDir(v, 0)[2] = Digit(v, 3)
      /\ PgDir(v, 0)[3] = Digit(v, 2) /\ PgDir(v, 0)[4] = Digit(v, 1)
  BY DEF PgDir
<1>5. Walk(M, PgDir(v, 3)) = PML4
  BY <1>1, <1>2, <1>3 DEF Walk
<1>6. Walk(M, PgDir(v, 2)) = Ent3(M, v).at
  BY <1>1, <1>2, <1>3 DEF Walk, Ent3
<1>7. ~ Ent3(M, v).ps => Walk(M, PgDir(v, 1)) = Ent2(M, v).at
  BY <1>1, <1>2, <1>4 DEF Walk, Ent3, Ent2
<1>8. ~ Ent2(M, v).ps => Walk(M, PgDir(v, 0)) = Ent1(M, v).at
  BY <1>1, <1>2, <1>4 DEF Walk, Ent3, Ent2, Ent1
<1> QED BY <1>5, <1>6, <1>7, <1>8 DEF Tab

(* An entry of a table leads one level down or to a large page, or nowhere.     *)
LEMMA EntryIn ==
    ASSUME NEW M \in Memory, NEW L, DOMAIN L \subseteq Frames,
           NEW f \in DOMAIN L, NEW k \in Keys, L[f] > 0, f # PML4 \/ k # SELF,
           Entered(M, f, k).at # Fault
    PROVE  <<f, k>> \in Entries(M, L) /\ Entered(M, f, k) = M[f][k]
BY EnteredIs DEF Entries, Entered, Entry

LEMMA EntryLeads ==
    ASSUME NEW M \in Memory, NEW L, NEW n, Tree(M, L, n), DOMAIN L \subseteq Frames,
           NEW f \in DOMAIN L, NEW k \in Keys, L[f] > 0, f # PML4 \/ k # SELF
    PROVE  LET x == Entered(M, f, k) IN
           \/ x.at = Fault /\ ~ x.ps
           \/ x.at \in Nat /\ x.ps /\ L[f] = 1
           \/ x.at \in DOMAIN L /\ ~ x.ps /\ L[x.at] = L[f] - 1
<1>1. CASE M[f][k].present
  <2>1. <<f, k>> \in Entries(M, L) /\ Entered(M, f, k) = M[f][k] /\ f \in Frames
    BY <1>1 DEF Entries, Entered
  <2>2. IF M[f][k].ps THEN L[f] = 1
        ELSE M[f][k].at \in DOMAIN L /\ L[M[f][k].at] = L[f] - 1
    BY <2>1 DEF Tree
  <2>3. M[f][k] \in EntryType
    BY <2>1 DEF Memory, TableType
  <2> QED BY <2>1, <2>2, <2>3 DEF EntryType
<1>2. CASE ~ M[f][k].present
  BY <1>2, EnteredIs DEF Entered, Entry
<1> QED BY <1>1, <1>2

(* So the table of a page on each level is one of that level, as long as the    *)
(* entries above lead anywhere.                                                 *)
LEMMA Levels ==
    ASSUME NEW M \in Memory, NEW L, NEW n, Tree(M, L, n), DOMAIN L \subseteq Frames,
           NEW v \in Program
    PROVE  /\ ~ Ent3(M, v).ps /\ ~ Ent2(M, v).ps
           /\ PML4 \in DOMAIN L /\ L[PML4] = 3
           /\ Ent3(M, v).at = Fault \/ (Ent3(M, v).at \in DOMAIN L /\ L[Ent3(M, v).at] = 2)
           /\ Ent2(M, v).at = Fault \/ (Ent2(M, v).at \in DOMAIN L /\ L[Ent2(M, v).at] = 1)
           /\ \/ Ent1(M, v).at = Fault /\ ~ Ent1(M, v).ps
              \/ Ent1(M, v).at \in Nat /\ Ent1(M, v).ps
              \/ Ent1(M, v).at \in DOMAIN L /\ L[Ent1(M, v).at] = 0 /\ ~ Ent1(M, v).ps
<1>0. Digit(v, 3) \in Keys /\ Digit(v, 2) \in Keys /\ Digit(v, 1) \in Keys
  BY ProgramPage
<1>1. PML4 \in DOMAIN L /\ L[PML4] = 3
  BY DEF Tree
<1>3. \A k \in Keys : Entered(M, Fault, k).at = Fault /\ ~ Entered(M, Fault, k).ps
  BY Frame DEF Entered, Entry
<1>5. /\ ~ Ent3(M, v).ps
      /\ Ent3(M, v).at = Fault \/ (Ent3(M, v).at \in DOMAIN L /\ L[Ent3(M, v).at] = 2)
  BY <1>0, <1>1, ProgramPage, EntryLeads DEF Ent3
<1>6. /\ ~ Ent2(M, v).ps
      /\ Ent2(M, v).at = Fault \/ (Ent2(M, v).at \in DOMAIN L /\ L[Ent2(M, v).at] = 1)
  <2>1. CASE Ent3(M, v).at = Fault
    BY <1>0, <1>3, <2>1 DEF Ent2
  <2>2. CASE Ent3(M, v).at \in DOMAIN L /\ L[Ent3(M, v).at] = 2
    BY <1>0, <1>1, <2>2, EntryLeads DEF Ent2
  <2> QED BY <1>5, <2>1, <2>2
<1>7. \/ Ent1(M, v).at = Fault /\ ~ Ent1(M, v).ps
      \/ Ent1(M, v).at \in Nat /\ Ent1(M, v).ps
      \/ Ent1(M, v).at \in DOMAIN L /\ L[Ent1(M, v).at] = 0 /\ ~ Ent1(M, v).ps
  <2>1. CASE Ent2(M, v).at = Fault
    BY <1>0, <1>3, <2>1 DEF Ent1
  <2>2. CASE Ent2(M, v).at \in DOMAIN L /\ L[Ent2(M, v).at] = 1
    BY <1>0, <1>1, <2>2, EntryLeads DEF Ent1
  <2> QED BY <1>6, <2>1, <2>2
<1> QED BY <1>1, <1>5, <1>6, <1>7

(* Two pages whose paths meet in an entry have come the same way.               *)
Passes(M, w, f, k, i) ==
    /\ Tab(M, w, i) = f /\ Digit(w, i) = k
    /\ i = 0 => ~ Ent1(M, w).ps

LEMMA SharedTables ==
    ASSUME NEW M \in Memory, NEW L, NEW n, Tree(M, L, n), DOMAIN L \subseteq Frames,
           NEW v \in Program, NEW w \in Program
    PROVE  /\ Ent3(M, v).at = Ent3(M, w).at /\ Ent3(M, v).at # Fault =>
                 Digit(v, 3) = Digit(w, 3)
           /\ Ent2(M, v).at = Ent2(M, w).at /\ Ent2(M, v).at # Fault =>
                 Digit(v, 3) = Digit(w, 3) /\ Digit(v, 2) = Digit(w, 2)
           /\ /\ Ent1(M, v).at = Ent1(M, w).at /\ Ent1(M, v).at # Fault
              /\ ~ Ent1(M, v).ps /\ ~ Ent1(M, w).ps
              => \A j \in 1 .. 3 : Digit(v, j) = Digit(w, j)
<1>1. ASSUME NEW f \in DOMAIN L, NEW k \in Keys, NEW g \in DOMAIN L, NEW c \in Keys,
             L[f] > 0, L[g] > 0, f # PML4 \/ k # SELF, g # PML4 \/ c # SELF,
             Entered(M, f, k).at = Entered(M, g, c).at, Entered(M, f, k).at # Fault,
             ~ Entered(M, f, k).ps, ~ Entered(M, g, c).ps
      PROVE  f = g /\ k = c
  <2>1. <<f, k>> \in Entries(M, L) /\ Entered(M, f, k) = M[f][k]
    BY <1>1, EntryIn
  <2>2. <<g, c>> \in Entries(M, L) /\ Entered(M, g, c) = M[g][c]
    BY <1>1, EntryIn
  <2>3. \A x, y \in Entries(M, L) :
          ~ M[x[1]][x[2]].ps /\ ~ M[y[1]][y[2]].ps
          /\ M[x[1]][x[2]].at = M[y[1]][y[2]].at => x = y
    BY DEF Tree
  <2>4. <<f, k>> = <<g, c>>
    BY <1>1, <2>1, <2>2, <2>3
  <2> QED BY <2>4
<1>2. \A l \in 0 .. 3 : Digit(v, l) \in Keys /\ Digit(w, l) \in Keys
  BY ProgramPage
<1>3. PML4 \in DOMAIN L /\ L[PML4] = 3 /\ Digit(v, 3) # SELF /\ Digit(w, 3) # SELF
  BY ProgramPage, Levels
<1>4. \A k \in Keys : Entered(M, Fault, k).at = Fault
  BY Frame DEF Entered, Entry
<1>5. ASSUME Ent3(M, v).at = Ent3(M, w).at, Ent3(M, v).at # Fault
      PROVE  Digit(v, 3) = Digit(w, 3)
  <2>1. ~ Ent3(M, v).ps /\ ~ Ent3(M, w).ps
    BY Levels
  <2> QED BY <1>1, <1>2, <1>3, <1>5, <2>1 DEF Ent3
<1>6. ASSUME Ent2(M, v).at = Ent2(M, w).at, Ent2(M, v).at # Fault
      PROVE  Digit(v, 3) = Digit(w, 3) /\ Digit(v, 2) = Digit(w, 2)
  <2>1. Ent3(M, v).at # Fault /\ Ent3(M, w).at # Fault
    BY <1>2, <1>4, <1>6 DEF Ent2
  <2>2. /\ Ent3(M, v).at \in DOMAIN L /\ L[Ent3(M, v).at] = 2 /\ ~ Ent2(M, v).ps
        /\ Ent3(M, w).at \in DOMAIN L /\ L[Ent3(M, w).at] = 2 /\ ~ Ent2(M, w).ps
    BY <2>1, Levels
  <2>3. Ent3(M, v).at = Ent3(M, w).at /\ Digit(v, 2) = Digit(w, 2)
    BY <1>1, <1>2, <1>3, <1>6, <2>2 DEF Ent2
  <2> QED BY <1>5, <2>1, <2>3
<1>7. ASSUME Ent1(M, v).at = Ent1(M, w).at, Ent1(M, v).at # Fault,
             ~ Ent1(M, v).ps, ~ Ent1(M, w).ps
      PROVE  \A j \in 1 .. 3 : Digit(v, j) = Digit(w, j)
  <2>1. Ent2(M, v).at # Fault /\ Ent2(M, w).at # Fault
    BY <1>2, <1>4, <1>7 DEF Ent1
  <2>2. /\ Ent2(M, v).at \in DOMAIN L /\ L[Ent2(M, v).at] = 1
        /\ Ent2(M, w).at \in DOMAIN L /\ L[Ent2(M, w).at] = 1
    BY <2>1, Levels
  <2>3. Ent2(M, v).at = Ent2(M, w).at /\ Digit(v, 1) = Digit(w, 1)
    BY <1>1, <1>2, <1>3, <1>7, <2>2 DEF Ent1
  <2> QED BY <1>6, <2>1, <2>3
<1> QED BY <1>5, <1>6, <1>7

LEMMA SharedPath ==
    ASSUME NEW M \in Memory, NEW L, NEW n, Tree(M, L, n), DOMAIN L \subseteq Frames,
           NEW f \in DOMAIN L, NEW k, NEW i \in 0 .. 3, L[f] = i,
           NEW v \in Program, Passes(M, v, f, k, i),
           NEW w \in Program, Passes(M, w, f, k, i)
    PROVE  \A j \in i .. 3 : Digit(v, j) = Digit(w, j)
<1>1. f # Fault
  BY Frame
<1>2. CASE i = 3
  BY <1>2 DEF Passes
<1>3. CASE i = 2
  BY <1>1, <1>3, SharedTables DEF Passes, Tab
<1>4. CASE i = 1
  BY <1>1, <1>4, SharedTables DEF Passes, Tab
<1>5. CASE i = 0
  BY <1>1, <1>5, SharedTables DEF Passes, Tab
<1> QED BY <1>2, <1>3, <1>4, <1>5

(* What memory must keep for a page to lead to the same page.                   *)
LEMMA Untouched ==
    ASSUME NEW M \in Memory, NEW M2, NEW L, NEW n, Tree(M, L, n), DOMAIN L \subseteq Frames,
           NEW w \in Program,
           M2[PML4][Digit(w, 3)] = M[PML4][Digit(w, 3)],
           Ent3(M, w).at \in DOMAIN L =>
              M2[Ent3(M, w).at][Digit(w, 2)] = M[Ent3(M, w).at][Digit(w, 2)],
           Ent2(M, w).at \in DOMAIN L =>
              M2[Ent2(M, w).at][Digit(w, 1)] = M[Ent2(M, w).at][Digit(w, 1)],
           Ent1(M, w).at \in DOMAIN L /\ ~ Ent1(M, w).ps =>
              M2[Ent1(M, w).at][Digit(w, 0)] = M[Ent1(M, w).at][Digit(w, 0)]
    PROVE  /\ Ent3(M2, w) = Ent3(M, w) /\ Ent2(M2, w) = Ent2(M, w)
           /\ Ent1(M2, w) = Ent1(M, w)
           /\ Walk(M2, Path(w)) = Walk(M, Path(w))
<1>1. \A f, k : (f \in Frames => M2[f][k] = M[f][k]) => Entered(M2, f, k) = Entered(M, f, k)
  BY DEF Entered
<1>2. \A k : Entered(M2, Fault, k) = Entered(M, Fault, k)
  BY <1>1, Frame
<1>3. Ent3(M2, w) = Ent3(M, w)
  BY <1>1 DEF Ent3
<1>4. Ent2(M2, w) = Ent2(M, w)
  <2>1. Ent3(M, w).at = Fault \/ Ent3(M, w).at \in DOMAIN L
    BY Levels
  <2> QED BY <1>1, <1>2, <1>3, <2>1 DEF Ent2
<1>5. Ent1(M2, w) = Ent1(M, w)
  <2>1. Ent2(M, w).at = Fault \/ Ent2(M, w).at \in DOMAIN L
    BY Levels
  <2> QED BY <1>1, <1>2, <1>4, <2>1 DEF Ent1
<1>6. ~ Ent1(M, w).ps => Ent0(M2, w) = Ent0(M, w)
  <2>1. ~ Ent1(M, w).ps => Ent1(M, w).at = Fault \/ Ent1(M, w).at \in DOMAIN L
    BY Levels
  <2> QED BY <1>1, <1>2, <1>5, <2>1 DEF Ent0
<1> QED BY <1>3, <1>4, <1>5, <1>6, WalkIs

(* One entry of a table is written: pages whose paths do not pass it lead where *)
(* they did, and for the others the entries above are still the same.           *)
AgreeBut(M, M2, L, f, k) ==
    \A g \in DOMAIN L : \A c \in Keys : ~ (g = f /\ c = k) => M2[g][c] = M[g][c]

LEMMA Elsewhere ==
    ASSUME NEW M \in Memory, NEW M2, NEW L, NEW n, Tree(M, L, n), DOMAIN L \subseteq Frames,
           NEW f \in DOMAIN L, NEW k, NEW i \in 0 .. 3, L[f] = i, AgreeBut(M, M2, L, f, k),
           NEW w \in Program, ~ Passes(M, w, f, k, i)
    PROVE  /\ Ent3(M2, w) = Ent3(M, w) /\ Ent2(M2, w) = Ent2(M, w)
           /\ Ent1(M2, w) = Ent1(M, w)
           /\ Walk(M2, Path(w)) = Walk(M, Path(w))
<1>1. /\ Digit(w, 3) \in Keys /\ Digit(w, 2) \in Keys
      /\ Digit(w, 1) \in Keys /\ Digit(w, 0) \in Keys
  BY ProgramPage
<1>2. \A g \in DOMAIN L, c \in Keys : ~ (g = f /\ c = k) => M2[g][c] = M[g][c]
  BY DEF AgreeBut
<1>3. M2[PML4][Digit(w, 3)] = M[PML4][Digit(w, 3)]
  <2>1. PML4 \in DOMAIN L /\ L[PML4] = 3
    BY Levels
  <2>2. ~ (PML4 = f /\ Digit(w, 3) = k)
    BY <2>1 DEF Passes, Tab
  <2> QED BY <1>1, <1>2, <2>1, <2>2
<1>4. ASSUME Ent3(M, w).at \in DOMAIN L
      PROVE  M2[Ent3(M, w).at][Digit(w, 2)] = M[Ent3(M, w).at][Digit(w, 2)]
  <2>1. L[Ent3(M, w).at] = 2
    BY <1>4, Levels, Frame
  <2>2. ~ (Ent3(M, w).at = f /\ Digit(w, 2) = k)
    BY <2>1 DEF Passes, Tab
  <2> QED BY <1>1, <1>2, <1>4, <2>2
<1>5. ASSUME Ent2(M, w).at \in DOMAIN L
      PROVE  M2[Ent2(M, w).at][Digit(w, 1)] = M[Ent2(M, w).at][Digit(w, 1)]
  <2>1. L[Ent2(M, w).at] = 1
    BY <1>5, Levels, Frame
  <2>2. ~ (Ent2(M, w).at = f /\ Digit(w, 1) = k)
    BY <2>1 DEF Passes, Tab
  <2> QED BY <1>1, <1>2, <1>5, <2>2
<1>6. ASSUME Ent1(M, w).at \in DOMAIN L, ~ Ent1(M, w).ps
      PROVE  M2[Ent1(M, w).at][Digit(w, 0)] = M[Ent1(M, w).at][Digit(w, 0)]
  <2>1. L[Ent1(M, w).at] = 0
    BY <1>6, Levels, Frame
  <2>2. ~ (Ent1(M, w).at = f /\ Digit(w, 0) = k)
    BY <1>6, <2>1 DEF Passes, Tab
  <2> QED BY <1>1, <1>2, <1>6, <2>2
<1> QED BY <1>3, <1>4, <1>5, <1>6, Untouched

OnlyFrom(M, M2, w, f, k, i) ==
    /\ i = 3 => Ent3(M2, w) = Entered(M2, f, k)
    /\ i < 3 => Ent3(M2, w) = Ent3(M, w)
    /\ i = 2 => Ent2(M2, w) = Entered(M2, f, k)
    /\ i < 2 => Ent2(M2, w) = Ent2(M, w)
    /\ i = 1 => Ent1(M2, w) = Entered(M2, f, k)
    /\ i < 1 => Ent1(M2, w) = Ent1(M, w) /\ Ent0(M2, w) = Entered(M2, f, k)

LEMMA Above ==
    ASSUME NEW M \in Memory, NEW M2, NEW L, NEW n, Tree(M, L, n), DOMAIN L \subseteq Frames,
           NEW f \in DOMAIN L, NEW k, NEW i \in 0 .. 3, L[f] = i, AgreeBut(M, M2, L, f, k),
           NEW w \in Program, Passes(M, w, f, k, i)
    PROVE  OnlyFrom(M, M2, w, f, k, i)
<1>1. Digit(w, 3) \in Keys /\ Digit(w, 2) \in Keys /\ Digit(w, 1) \in Keys
  BY ProgramPage
<1>2. \A g \in DOMAIN L, c \in Keys : g # f => Entered(M2, g, c) = Entered(M, g, c)
  BY DEF AgreeBut, Entered
<1>3. \A c : Entered(M2, Fault, c) = Entered(M, Fault, c)
  BY Frame DEF Entered
<1>4. Tab(M, w, i) = f /\ Digit(w, i) = k
  BY DEF Passes
<1>5. i < 3 => Ent3(M2, w) = Ent3(M, w)
  <2>1. PML4 \in DOMAIN L /\ L[PML4] = 3
    BY Levels
  <2> QED BY <1>1, <1>2, <2>1 DEF Ent3
<1>6. i < 2 => Ent2(M2, w) = Ent2(M, w)
  <2>1. Ent3(M, w).at = Fault \/ (Ent3(M, w).at \in DOMAIN L /\ L[Ent3(M, w).at] = 2)
    BY Levels
  <2> QED BY <1>1, <1>2, <1>3, <1>5, <2>1 DEF Ent2
<1>7. i < 1 => Ent1(M2, w) = Ent1(M, w)
  <2>1. Ent2(M, w).at = Fault \/ (Ent2(M, w).at \in DOMAIN L /\ L[Ent2(M, w).at] = 1)
    BY Levels
  <2> QED BY <1>1, <1>2, <1>3, <1>6, <2>1 DEF Ent1
<1>8. CASE i = 3
  BY <1>4, <1>8, TabIs DEF Ent3, OnlyFrom
<1>9. CASE i = 2
  BY <1>4, <1>5, <1>9, TabIs DEF Ent2, OnlyFrom
<1>10. CASE i = 1
  BY <1>4, <1>5, <1>6, <1>10, TabIs DEF Ent1, OnlyFrom
<1>11. CASE i = 0
  BY <1>4, <1>5, <1>6, <1>7, <1>11, TabIs DEF Ent0, OnlyFrom
<1>12. i = 3 \/ i = 2 \/ i = 1 \/ i = 0
  OBVIOUS
<1> QED BY <1>8, <1>9, <1>10, <1>11, <1>12

-------------------------------------------------------------------------------
(* What _pg_map writes.  It reaches the table of a page on every level.         *)
LEMMA Reached ==
    ASSUME NEW M \in Memory, NEW L, NEW n, Tree(M, L, n), DOMAIN L \subseteq Frames,
           NEW v \in Program, NEW i \in 0 .. 3
    PROVE  Walk(M, PgDir(v, i)) = Tab(M, v, i)
<1>1. PML4 \in Frames /\ ~ Ent3(M, v).ps /\ ~ Ent2(M, v).ps
  BY Levels
<1>2. M[PML4][SELF] = Entry(PML4, FALSE)
  BY DEF Tree
<1>3. i = 0 \/ i = 1 \/ i = 2 \/ i = 3
  OBVIOUS
<1>4. /\ Walk(M, PgDir(v, 3)) = Tab(M, v, 3) /\ Walk(M, PgDir(v, 2)) = Tab(M, v, 2)
      /\ Walk(M, PgDir(v, 1)) = Tab(M, v, 1) /\ Walk(M, PgDir(v, 0)) = Tab(M, v, 0)
  BY <1>1, <1>2, SelfWalk
<1> QED BY <1>3, <1>4

(* Behind a table without entries there is nothing.                             *)
Blank(M, f) == \A k \in Keys : Entered(M, f, k) = Entry(Fault, FALSE)

LEMMA ZeroedIs ==
    ASSUME NEW k \in Keys
    PROVE  Zeroed[k] = NoEntry /\ ~ NoEntry.present
BY DEF Zeroed, NoEntry, Keys

LEMMA BlankFault ==
    ASSUME NEW M
    PROVE  Blank(M, Fault)
BY Frame DEF Blank, Entered

LEMMA DeadEnd ==
    ASSUME NEW M, NEW w \in Program, NEW j \in 0 .. 3, Blank(M, Tab(M, w, j)),
           j = 0 => ~ Ent1(M, w).ps
    PROVE  Walk(M, Path(w)) = Fault
<1>1. /\ Digit(w, 3) \in Keys /\ Digit(w, 2) \in Keys
      /\ Digit(w, 1) \in Keys /\ Digit(w, 0) \in Keys
  BY ProgramPage
<1>2. Entry(Fault, FALSE).at = Fault /\ Entry(Fault, FALSE).ps = FALSE
  BY DEF Entry
<1>3. \A f, k : Blank(M, f) /\ k \in Keys => Entered(M, f, k) = Entry(Fault, FALSE)
  BY DEF Blank
<1>4. j = 3 => Ent3(M, w) = Entry(Fault, FALSE)
  BY <1>1, <1>3, TabIs DEF Ent3
<1>5. j = 3 \/ j = 2 => Ent2(M, w) = Entry(Fault, FALSE)
  BY <1>1, <1>2, <1>3, <1>4, BlankFault, TabIs DEF Ent2
<1>6. j = 3 \/ j = 2 \/ j = 1 => Ent1(M, w) = Entry(Fault, FALSE)
  BY <1>1, <1>2, <1>3, <1>5, BlankFault, TabIs DEF Ent1
<1>7. ~ Ent1(M, w).ps /\ Ent0(M, w) = Entry(Fault, FALSE)
  <2>1. CASE j = 0
    BY <1>1, <1>3, <2>1, TabIs DEF Ent0
  <2>2. CASE j # 0
    <3>1. Ent1(M, w) = Entry(Fault, FALSE)
      <4>1. j = 3 \/ j = 2 \/ j = 1
        BY <2>2
      <4> QED BY <1>6, <4>1
    <3> QED BY <1>1, <1>2, <1>3, <3>1, BlankFault DEF Ent0
  <2> QED BY <2>1, <2>2
<1> QED BY <1>2, <1>7, WalkIs

(* A new table: it is found through the tables where the entry points, and      *)
(* once it is cleared every page leads where it did.                            *)
LEMMA Clears ==
    ASSUME NEW M \in Memory, NEW g
    PROVE  /\ Cleared(M, g) \in Memory /\ (g \in Frames => Cleared(M, g)[g] = Zeroed)
           /\ \A h \in Frames : h # g => Cleared(M, g)[h] = M[h]
<1>1. Zeroed \in TableType
  BY SizeAssumption DEF EntryType, TableType, Zeroed, NoEntry, Keys
<1> QED BY <1>1 DEF Memory, Cleared

Wrote(M, M1, L, f, k, p) ==
    M1 \in Memory /\ AgreeBut(M, M1, L, f, k) /\ M1[f][k] = Entry(p, FALSE)
WroteLarge(M, M1, L, f, k, p) ==
    M1 \in Memory /\ AgreeBut(M, M1, L, f, k) /\ M1[f][k] = Entry(p, TRUE)

LEMMA NewTable ==
    ASSUME NEW M \in Memory, NEW L, NEW n, Tree(M, L, n), DOMAIN L \subseteq Frames,
           NEW f \in DOMAIN L, NEW k, NEW i \in 1 .. 3, L[f] = i, ~ M[f][k].present,
           NEW v \in Program, Passes(M, v, f, k, i), NEW g \in Nat,
           NEW M1, Wrote(M, M1, L, f, k, g),
           NEW M2, Wrote(M, M2, L, f, k, g), g \in Frames => M2[g] = Zeroed
    PROVE  /\ Walk(M1, PgDir(v, i - 1)) = g
           /\ Tab(M2, v, i - 1) = g
           /\ \A w \in Program : Walk(M2, Path(w)) = Walk(M, Path(w))
<1>0. /\ M1 \in Memory /\ AgreeBut(M, M1, L, f, k) /\ M1[f][k] = Entry(g, FALSE)
      /\ M2 \in Memory /\ AgreeBut(M, M2, L, f, k) /\ M2[f][k] = Entry(g, FALSE)
  BY DEF Wrote
<1>1. k \in Keys /\ f \in Frames /\ (f = PML4 => k # SELF)
  <2>1. f = PML4 => i = 3
    BY Levels
  <2>2. Digit(v, i) = k /\ i \in 0 .. 3
    BY DEF Passes
  <2> QED BY <2>1, <2>2, ProgramPage
<1>7. Entered(M1, f, k) = Entry(g, FALSE) /\ Entered(M2, f, k) = Entry(g, FALSE)
  BY <1>0, <1>1 DEF Entered, Entry
<1>8. Entered(M, f, k) = Entry(Fault, FALSE)
  BY DEF Entered
<1>9. Entry(g, FALSE).at = g /\ Entry(g, FALSE).ps = FALSE /\ Entry(Fault, FALSE).at = Fault
      /\ Entry(Fault, FALSE).ps = FALSE
  BY DEF Entry
<1>11. Blank(M2, g)
  BY ZeroedIs DEF Blank, Entered
<1>12. ASSUME NEW w \in Program, Passes(M, w, f, k, i)
       PROVE  /\ Tab(M2, w, i - 1) = g /\ (i = 1 => ~ Ent1(M2, w).ps)
              /\ Tab(M1, w, i - 1) = g
              /\ Tab(M, w, i - 1) = Fault /\ (i = 1 => ~ Ent1(M, w).ps)
  <2>1. Tab(M, w, i) = f /\ Digit(w, i) = k
    BY <1>12 DEF Passes
  <2>0. i \in 0 .. 3
    OBVIOUS
  <2>4. ASSUME NEW M3, AgreeBut(M, M3, L, f, k)
        PROVE  /\ i = 3 => Ent3(M3, w) = Entered(M3, f, k)
               /\ i = 2 => Ent2(M3, w) = Entered(M3, f, k)
               /\ i = 1 => Ent1(M3, w) = Entered(M3, f, k)
    <3>1. OnlyFrom(M, M3, w, f, k, i)
      BY <1>12, <2>0, <2>4, Above
    <3> QED BY <3>1 DEF OnlyFrom
  <2>5. /\ i = 3 => Ent3(M1, w) = Entered(M1, f, k)
        /\ i = 2 => Ent2(M1, w) = Entered(M1, f, k)
        /\ i = 1 => Ent1(M1, w) = Entered(M1, f, k)
    BY <1>0, <2>4
  <2>6. /\ i = 3 => Ent3(M2, w) = Entered(M2, f, k)
        /\ i = 2 => Ent2(M2, w) = Entered(M2, f, k)
        /\ i = 1 => Ent1(M2, w) = Entered(M2, f, k)
    BY <1>0, <2>4
  <2>7. CASE i = 3
    <3>1. i - 1 = 2
      BY <2>7
    <3>2. Tab(M2, w, i - 1) = Ent3(M2, w).at /\ Tab(M1, w, i - 1) = Ent3(M1, w).at
          /\ Tab(M, w, i - 1) = Ent3(M, w).at
      BY <3>1, TabIs
    <3>3. Ent3(M, w) = Entered(M, f, k)
      BY <2>1, <2>7, TabIs DEF Ent3
    <3>4. Ent3(M2, w) = Entered(M2, f, k) /\ Ent3(M1, w) = Entered(M1, f, k)
      BY <2>5, <2>6, <2>7
    <3>5. Ent3(M2, w).at = g /\ Ent3(M1, w).at = g /\ Ent3(M, w).at = Fault
      BY <1>7, <1>8, <1>9, <3>3, <3>4
    <3> QED BY ONLY <2>7, <3>2, <3>5
  <2>8. CASE i = 2
    <3>1. i - 1 = 1
      BY <2>8
    <3>2. Tab(M2, w, i - 1) = Ent2(M2, w).at /\ Tab(M1, w, i - 1) = Ent2(M1, w).at
          /\ Tab(M, w, i - 1) = Ent2(M, w).at
      BY <3>1, TabIs
    <3>3. Ent2(M, w) = Entered(M, f, k)
      BY <2>1, <2>8, TabIs DEF Ent2
    <3>4. Ent2(M2, w) = Entered(M2, f, k) /\ Ent2(M1, w) = Entered(M1, f, k)
      BY <2>5, <2>6, <2>8
    <3>5. Ent2(M2, w).at = g /\ Ent2(M1, w).at = g /\ Ent2(M, w).at = Fault
      BY <1>7, <1>8, <1>9, <3>3, <3>4
    <3> QED BY ONLY <2>8, <3>2, <3>5
  <2>9. CASE i = 1
    <3>1. i - 1 = 0
      BY <2>9
    <3>2. Tab(M2, w, i - 1) = Ent1(M2, w).at /\ Tab(M1, w, i - 1) = Ent1(M1, w).at
          /\ Tab(M, w, i - 1) = Ent1(M, w).at
      BY <3>1, TabIs
    <3>3. Ent1(M, w) = Entered(M, f, k)
      BY <2>1, <2>9, TabIs DEF Ent1
    <3> QED BY <1>7, <1>8, <1>9, <2>5, <2>6, <2>9, <3>2, <3>3
  <2>10. i = 3 \/ i = 2 \/ i = 1
    OBVIOUS
  <2> QED BY <2>7, <2>8, <2>9, <2>10
<1>13. Walk(M1, PgDir(v, i - 1)) = g
  <2>1. PML4 \in Frames /\ M1[PML4][SELF] = Entry(PML4, FALSE)
    <3>1. PML4 \in DOMAIN L /\ M[PML4][SELF] = Entry(PML4, FALSE)
      BY DEF Tree
    <3> QED BY <1>0, <1>1, <3>1, Sizes DEF AgreeBut
  <2>2. /\ i - 1 < 2 => ~ Ent3(M1, v).ps
        /\ i - 1 < 1 => ~ Ent2(M1, v).ps
    <3>1. ~ Ent3(M, v).ps /\ ~ Ent2(M, v).ps
      BY Levels
    <3>2. OnlyFrom(M, M1, v, f, k, i)
      <4>1. i \in 0 .. 3
        OBVIOUS
      <4> QED BY <1>0, <4>1, Above
    <3>3. (i < 3 => Ent3(M1, v) = Ent3(M, v)) /\ (i < 2 => Ent2(M1, v) = Ent2(M, v))
      BY <3>2 DEF OnlyFrom
    <3> QED BY <3>1, <3>2, <3>3
  <2>3. Walk(M1, PgDir(v, i - 1)) = Tab(M1, v, i - 1)
    <3>1. (i = 1 /\ i - 1 = 0) \/ (i = 2 /\ i - 1 = 1) \/ (i = 3 /\ i - 1 = 2)
      OBVIOUS
    <3>2. /\ Walk(M1, PgDir(v, 2)) = Tab(M1, v, 2)
          /\ ~ Ent3(M1, v).ps => Walk(M1, PgDir(v, 1)) = Tab(M1, v, 1)
          /\ ~ Ent2(M1, v).ps => Walk(M1, PgDir(v, 0)) = Tab(M1, v, 0)
      BY <2>1, SelfWalk
    <3>3. (i <= 2 => ~ Ent3(M1, v).ps) /\ (i = 1 => ~ Ent2(M1, v).ps)
      BY <2>2
    <3> QED BY <3>1, <3>2, <3>3
  <2> QED BY <1>12, <2>3
<1>14. ASSUME NEW w \in Program PROVE Walk(M2, Path(w)) = Walk(M, Path(w))
  <2>1. CASE Passes(M, w, f, k, i)
    <3>1. Walk(M, Path(w)) = Fault
      BY <1>12, <2>1, BlankFault, DeadEnd
    <3>2. Walk(M2, Path(w)) = Fault
      BY <1>11, <1>12, <2>1, DeadEnd
    <3> QED BY <3>1, <3>2
  <2>2. CASE ~ Passes(M, w, f, k, i)
    BY <1>0, <2>2, Elsewhere
  <2> QED BY <2>1, <2>2
<1> QED BY <1>12, <1>13, <1>14

(* It joins the tree one level down, where it is the next page handed out.      *)
Grown(L, n, i) == [h \in DOMAIN L \cup {n} |-> IF h = n THEN i ELSE L[h]]

LEMMA GrownTree ==
    ASSUME NEW M \in Memory, NEW L, NEW n \in Nat, Tree(M, L, n), lay.first \in Nat,
           lay.first <= n,
           NEW i \in 1 .. 3, NEW f \in DOMAIN L, L[f] = i, NEW k \in Keys,
           f # PML4 \/ k # SELF,
           NEW M2, AgreeBut(M, M2, L, f, k), M2[f][k] = Entry(n, FALSE), M2[n] = Zeroed,
           NEW L2, L2 = Grown(L, n, i - 1)
    PROVE  Tree(M2, L2, n + 1)
<1>1. n \notin DOMAIN L /\ DOMAIN L \subseteq lay.first .. n - 1
  BY DEF Tree
<1>2. /\ DOMAIN L2 = DOMAIN L \cup {n} /\ L2[n] = i - 1
      /\ \A h \in DOMAIN L : L2[h] = L[h]
  BY <1>1 DEF Grown
<1>3. \A h \in DOMAIN L : L[h] \in 0 .. 3
  BY DEF Tree
<1>4. L2 \in [DOMAIN L2 -> 0 .. 3] /\ DOMAIN L2 \subseteq lay.first .. n + 1 - 1
  BY <1>1, <1>2, <1>3 DEF Grown
<1>5. PML4 \in DOMAIN L2 /\ \A h \in DOMAIN L2 : L2[h] = 3 <=> h = PML4
  <2>1. PML4 \in DOMAIN L /\ \A h \in DOMAIN L : L[h] = 3 <=> h = PML4
    BY DEF Tree
  <2> QED BY <1>1, <1>2, <2>1
<1>6. M2[PML4][SELF] = Entry(PML4, FALSE)
  BY Sizes DEF Tree, AgreeBut
<1>7. /\ <<f, k>> \in Entries(M2, L2)
      /\ \A x \in Entries(M2, L2) :
            x = <<f, k>> \/ (x \in Entries(M, L) /\ M2[x[1]][x[2]] = M[x[1]][x[2]]
                             /\ x[1] \in DOMAIN L)
  <2>1. <<f, k>> \in Entries(M2, L2)
    BY <1>1, <1>2 DEF Entries, Entry
  <2>2. ASSUME NEW h \in DOMAIN L2, NEW c \in Keys, <<h, c>> \in Entries(M2, L2),
               <<h, c>> # <<f, k>>
        PROVE  <<h, c>> \in Entries(M, L) /\ M2[h][c] = M[h][c] /\ h \in DOMAIN L
    <3>1. M2[h][c].present /\ L2[h] > 0 /\ <<h, c>> # <<PML4, SELF>>
      BY <2>2 DEF Entries
    <3>2. h # n
      BY <3>1, ZeroedIs
    <3>3. h \in DOMAIN L /\ M2[h][c] = M[h][c] /\ L2[h] = L[h]
      BY <1>2, <2>2, <3>2 DEF AgreeBut
    <3> QED BY <3>1, <3>3 DEF Entries
  <2>3. ASSUME NEW x \in Entries(M2, L2)
        PROVE  x = <<f, k>> \/ (x \in Entries(M, L) /\ M2[x[1]][x[2]] = M[x[1]][x[2]]
                                /\ x[1] \in DOMAIN L)
    <3>1. PICK h \in DOMAIN L2, c \in Keys : x = <<h, c>>
      BY DEF Entries
    <3> QED BY <2>2, <3>1
  <2> QED BY <2>1, <2>3
<1>8. /\ \A x \in Entries(M, L) :
            IF M[x[1]][x[2]].ps THEN L[x[1]] = 1
            ELSE M[x[1]][x[2]].at \in DOMAIN L /\ L[M[x[1]][x[2]].at] = L[x[1]] - 1
      /\ \A x, y \in Entries(M, L) :
            ~ M[x[1]][x[2]].ps /\ ~ M[y[1]][y[2]].ps
            /\ M[x[1]][x[2]].at = M[y[1]][y[2]].at => x = y
  BY DEF Tree
<1>9. Entry(n, FALSE).at = n /\ Entry(n, FALSE).ps = FALSE
  BY DEF Entry
<1>10. <<f, k>>[1] = f /\ <<f, k>>[2] = k
  OBVIOUS
<1>11. ASSUME NEW x \in Entries(M2, L2)
       PROVE  IF M2[x[1]][x[2]].ps THEN L2[x[1]] = 1
              ELSE M2[x[1]][x[2]].at \in DOMAIN L2
                   /\ L2[M2[x[1]][x[2]].at] = L2[x[1]] - 1
  <2>1. CASE x = <<f, k>>
    BY <1>2, <1>9, <1>10, <2>1
  <2>2. CASE x \in Entries(M, L) /\ M2[x[1]][x[2]] = M[x[1]][x[2]] /\ x[1] \in DOMAIN L
    BY <1>2, <1>8, <2>2
  <2> QED BY <1>7, <2>1, <2>2
<1>12. ASSUME NEW x \in Entries(M2, L2), NEW y \in Entries(M2, L2),
              ~ M2[x[1]][x[2]].ps, ~ M2[y[1]][y[2]].ps,
              M2[x[1]][x[2]].at = M2[y[1]][y[2]].at
       PROVE  x = y
  <2>1. \A z \in Entries(M, L) : ~ M[z[1]][z[2]].ps => M[z[1]][z[2]].at # n
    BY <1>1, <1>8
  <2>2. CASE x = <<f, k>> /\ y # <<f, k>>
    BY <1>7, <1>9, <1>10, <1>12, <2>1, <2>2
  <2>3. CASE x # <<f, k>> /\ y = <<f, k>>
    BY <1>7, <1>9, <1>10, <1>12, <2>1, <2>3
  <2>4. CASE x # <<f, k>> /\ y # <<f, k>>
    BY <1>7, <1>8, <1>12, <2>4
  <2> QED BY <2>2, <2>3, <2>4
<1> QED BY <1>4, <1>5, <1>6, <1>11, <1>12 DEF Tree

(* The entry of a page, or of a large page, sends that one alone elsewhere.     *)
LEMMA SmallPage ==
    ASSUME NEW M \in Memory, NEW L, NEW n, Tree(M, L, n), DOMAIN L \subseteq Frames,
           NEW f \in DOMAIN L, NEW k, L[f] = 0,
           NEW v \in Program, Passes(M, v, f, k, 0), NEW p \in Nat,
           NEW M2, Wrote(M, M2, L, f, k, p),
           NEW w \in Program
    PROVE  Walk(M2, Path(w)) = IF w = v THEN p ELSE Walk(M, Path(w))
<1>0. M2 \in Memory /\ AgreeBut(M, M2, L, f, k) /\ M2[f][k] = Entry(p, FALSE)
  BY DEF Wrote
<1>1. CASE Passes(M, w, f, k, 0)
  <2>1. \A j \in 0 .. 3 : Digit(v, j) = Digit(w, j)
    BY <1>1, SharedPath
  <2>2. w = v
    BY <2>1, PageDigits, ProgramPage
  <2>3. Ent1(M2, w) = Ent1(M, w) /\ Ent0(M2, w) = Entered(M2, f, k)
    <3>1. PICK i \in 0 .. 3 : i = 0
      OBVIOUS
    <3>2. L[f] = i /\ Passes(M, w, f, k, i)
      BY <1>1, <3>1
    <3>3. OnlyFrom(M, M2, w, f, k, i)
      BY <1>0, <3>2, Above
    <3> QED BY <3>1, <3>3 DEF OnlyFrom
  <2>4. Entered(M2, f, k) = Entry(p, FALSE) /\ Entry(p, FALSE).at = p
    BY <1>0 DEF Entered, Entry
  <2>5. ~ Ent1(M, w).ps
    BY <1>1 DEF Passes
  <2> QED BY <2>2, <2>3, <2>4, <2>5, WalkIs
<1>2. CASE ~ Passes(M, w, f, k, 0)
  <2>1. w # v
    BY <1>2
  <2>2. Walk(M2, Path(w)) = Walk(M, Path(w))
    <3>1. 0 \in 0 .. 3
      OBVIOUS
    <3> QED BY <1>0, <1>2, <3>1, Elsewhere
  <2> QED BY <2>1, <2>2
<1> QED BY <1>1, <1>2

LEMMA LargePage ==
    ASSUME NEW M \in Memory, NEW L, NEW n, Tree(M, L, n), DOMAIN L \subseteq Frames,
           NEW f \in DOMAIN L, NEW k, L[f] = 1,
           NEW v \in Program, Passes(M, v, f, k, 1), v % EN = 0, NEW p \in Nat,
           NEW M2, WroteLarge(M, M2, L, f, k, p),
           NEW w \in Program
    PROVE  Walk(M2, Path(w)) = IF w \in v .. v + EN - 1 THEN p + (w - v)
                               ELSE Walk(M, Path(w))
<1>0. v \in VPages /\ w \in VPages /\ w \in Nat /\ 1 \in 0 .. 3
  BY ProgramPage
<1>3. M2 \in Memory /\ AgreeBut(M, M2, L, f, k) /\ M2[f][k] = Entry(p, TRUE)
  BY DEF WroteLarge
<1>1. CASE Passes(M, w, f, k, 1)
  <2>1. \A j \in 1 .. 3 : Digit(v, j) = Digit(w, j)
    BY <1>0, <1>1, SharedPath
  <2>2. Shift(v) = Shift(w)
    BY <1>0, <2>1, BlockDigits
  <2>3. w \in v .. v + EN - 1 /\ Digit(w, 0) = w - v
    BY <1>0, <2>2, AlignedBlock
  <2>4. Ent1(M2, w) = Entered(M2, f, k)
    <3>1. OnlyFrom(M, M2, w, f, k, 1)
      BY <1>0, <1>1, <1>3, Above
    <3> QED BY <3>1 DEF OnlyFrom
  <2>5. /\ Entered(M2, f, k) = Entry(p, TRUE)
        /\ Entry(p, TRUE).at = p /\ Entry(p, TRUE).ps = TRUE
    BY <1>3 DEF Entered, Entry
  <2> QED BY <2>3, <2>4, <2>5, WalkIs
<1>2. CASE ~ Passes(M, w, f, k, 1)
  <2>1. w \notin v .. v + EN - 1
    <3>1. SUFFICES ASSUME w \in v .. v + EN - 1 PROVE FALSE
      OBVIOUS
    <3>2. \A j \in 1 .. 3 : Digit(w, j) = Digit(v, j)
      BY <1>0, <3>1, AlignedBlock
    <3>3. Digit(w, 1) = Digit(v, 1) /\ Digit(w, 2) = Digit(v, 2) /\ Digit(w, 3) = Digit(v, 3)
      BY <3>2
    <3>4. Ent2(M, w) = Ent2(M, v)
      BY <3>3 DEF Ent2, Ent3
    <3> QED BY <1>2, <3>3, <3>4, TabIs DEF Passes
  <2>2. Walk(M2, Path(w)) = Walk(M, Path(w))
    BY <1>0, <1>2, <1>3, Elsewhere
  <2> QED BY <2>1, <2>2
<1> QED BY <1>1, <1>2

(* Neither is an entry of the tree.                                             *)
LEMMA SameTree ==
    ASSUME NEW M, NEW L, NEW n \in Nat, Tree(M, L, n), NEW m \in Nat, n <= m,
           NEW f, NEW k, f # PML4 \/ k # SELF,
           NEW M2, AgreeBut(M, M2, L, f, k), lay.first \in Nat,
           f \in DOMAIN L => L[f] = 0 \/ (L[f] = 1 /\ M2[f][k].ps)
    PROVE  Tree(M2, L, m)
<1>1. L \in [DOMAIN L -> 0 .. 3] /\ DOMAIN L \subseteq lay.first .. m - 1
  <2>1. L \in [DOMAIN L -> 0 .. 3] /\ DOMAIN L \subseteq lay.first .. n - 1
    BY DEF Tree
  <2>2. \A h \in lay.first .. n - 1 : h \in lay.first .. m - 1
    OBVIOUS
  <2> QED BY ONLY <2>1, <2>2
<1>2. PML4 \in DOMAIN L /\ \A h \in DOMAIN L : L[h] = 3 <=> h = PML4
  BY DEF Tree
<1>3. M2[PML4][SELF] = Entry(PML4, FALSE)
  <2>1. M[PML4][SELF] = Entry(PML4, FALSE)
    BY DEF Tree
  <2>2. SELF \in Keys /\ ~ (PML4 = f /\ SELF = k)
    BY Sizes
  <2>3. M2[PML4][SELF] = M[PML4][SELF]
    BY <1>2, <2>2 DEF AgreeBut
  <2> QED BY <2>1, <2>3
<1>4. /\ \A x \in Entries(M, L) :
            IF M[x[1]][x[2]].ps THEN L[x[1]] = 1
            ELSE M[x[1]][x[2]].at \in DOMAIN L /\ L[M[x[1]][x[2]].at] = L[x[1]] - 1
      /\ \A x, y \in Entries(M, L) :
            ~ M[x[1]][x[2]].ps /\ ~ M[y[1]][y[2]].ps
            /\ M[x[1]][x[2]].at = M[y[1]][y[2]].at => x = y
  BY DEF Tree
<1>5. ASSUME NEW x \in Entries(M2, L)
      PROVE  \/ L[x[1]] = 1 /\ M2[x[1]][x[2]].ps
             \/ x \in Entries(M, L) /\ M2[x[1]][x[2]] = M[x[1]][x[2]]
  <2>1. PICK h \in DOMAIN L, c \in Keys : x = <<h, c>>
    BY DEF Entries
  <2>2. M2[h][c].present /\ L[h] > 0 /\ <<h, c>> # <<PML4, SELF>>
    BY <2>1 DEF Entries
  <2>3. CASE h = f /\ c = k
    BY <2>1, <2>2, <2>3
  <2>4. CASE ~ (h = f /\ c = k)
    <3>1. M2[h][c] = M[h][c]
      BY <2>4 DEF AgreeBut
    <3> QED BY <2>1, <2>2, <3>1 DEF Entries
  <2> QED BY <2>3, <2>4
<1>6. ASSUME NEW x \in Entries(M2, L)
      PROVE  IF M2[x[1]][x[2]].ps THEN L[x[1]] = 1
             ELSE M2[x[1]][x[2]].at \in DOMAIN L /\ L[M2[x[1]][x[2]].at] = L[x[1]] - 1
  BY <1>4, <1>5
<1>7. ASSUME NEW x \in Entries(M2, L), NEW y \in Entries(M2, L),
             ~ M2[x[1]][x[2]].ps, ~ M2[y[1]][y[2]].ps,
             M2[x[1]][x[2]].at = M2[y[1]][y[2]].at
      PROVE  x = y
  BY <1>4, <1>5, <1>7
<1> QED BY <1>1, <1>2, <1>3, <1>6, <1>7 DEF Tree

(* A change of pages that are not tables changes nothing.                       *)
LEMMA SameTables ==
    ASSUME NEW M \in Memory, NEW L, NEW n, Tree(M, L, n), DOMAIN L \subseteq Frames,
           NEW M2, \A h \in DOMAIN L : M2[h] = M[h], NEW w \in Program
    PROVE  Walk(M2, Path(w)) = Walk(M, Path(w)) /\ \A l \in 0 .. 3 : Tab(M2, w, l) = Tab(M, w, l)
<1>1. PML4 \in DOMAIN L
  BY DEF Tree
<1>2. /\ Ent3(M2, w) = Ent3(M, w) /\ Ent2(M2, w) = Ent2(M, w)
      /\ Ent1(M2, w) = Ent1(M, w)
      /\ Walk(M2, Path(w)) = Walk(M, Path(w))
  BY <1>1, Untouched
<1>3. \A l \in 0 .. 3 : l = 0 \/ l = 1 \/ l = 2 \/ l = 3
  OBVIOUS
<1> QED BY <1>2, <1>3, TabIs

-------------------------------------------------------------------------------
(* The memory map found.                                                        *)
LEMMA LayoutFacts ==
    ASSUME TypeInv
    PROVE  /\ lay.first \in Nat /\ lay.limit \in Nat /\ 0 < lay.first
           /\ lay.first .. lay.limit - 1 \subseteq Frames
           /\ lay.map \in Seq([base : Nat, size : Nat, type : Nat])
           /\ Len(lay.map) \in Nat /\ DOMAIN lay.map = 1 .. Len(lay.map)
           /\ Sorted(lay.map)
           /\ \A k \in DOMAIN lay.map :
                 /\ lay.map[k].base \in Nat /\ lay.map[k].size \in Nat
                 /\ DIRECT + PageOf(lay.map[k].base + lay.map[k].size) <= VMAP
<1>1. lay \in Layout /\ lay \in Layouts
  BY LayoutAssumption DEF TypeInv
<1>2. /\ lay.map \in Seq([base : Nat, size : Nat, type : Nat])
      /\ lay.first \in Nat /\ lay.limit \in Nat /\ lay.boot \in Nat
  BY <1>1 DEF Layout
<1>3. lay.boot < lay.first /\ lay.first .. lay.limit - 1 \subseteq Frames /\ Sorted(lay.map)
  BY <1>1, LayoutAssumption
<1>5. \A k \in DOMAIN lay.map : lay.map[k] \in [base : Nat, size : Nat, type : Nat]
  <2>1. \A S, m : m \in Seq(S) => \A k \in DOMAIN m : m[k] \in S
    OBVIOUS
  <2> QED BY <1>2, <2>1
<1>4. ASSUME NEW k \in DOMAIN lay.map
      PROVE  DIRECT + PageOf(lay.map[k].base + lay.map[k].size) <= VMAP
  <2>1. PICK b : b = PageOf(lay.map[k].base + lay.map[k].size)
    OBVIOUS
  <2>2. b \in Nat /\ DIRECT \in Nat /\ VMAP \in Nat
    <3>1. lay.map[k].base + lay.map[k].size \in Nat
      BY <1>5
    <3> QED BY <2>1, <3>1, PageFacts, Sizes
  <2>3. b <= VMAP - DIRECT
    BY <1>1, <2>1, LayoutAssumption
  <2>4. DIRECT + b <= VMAP
    BY ONLY <2>2, <2>3
  <2> QED BY <2>1, <2>4
<1> QED BY <1>2, <1>3, <1>4, <1>5

LEMMA MemoryEnds ==
    ASSUME TypeInv
    PROVE  /\ NPages(lay) \in Nat /\ DescPages(lay) \in Nat /\ VMAP + DescPages(lay) <= WINDOW
           /\ \A p \in 0 .. NPages(lay) - 1 : DescPagesOf(p) \subseteq
                                             VMAP .. VMAP + DescPages(lay) - 1
<1> DEFINE E == UsableEnds(lay)
           N == NPages(lay)
           B == (VMAP + 1) * PageBytes
<1>0. B \in Nat
  BY SizeAssumption, Sizes
<1> HIDE DEF B
<1>1. E \subseteq 0 .. B /\ E # {}
  <2>1. ASSUME NEW k \in DOMAIN lay.map PROVE lay.map[k].base + lay.map[k].size \in 0 .. B
    <3>1. PICK a : a = lay.map[k].base + lay.map[k].size
      OBVIOUS
    <3>2. a \in Nat /\ DIRECT + PageOf(a) <= VMAP
      <4>1. /\ lay.map[k].base \in Nat /\ lay.map[k].size \in Nat
            /\ DIRECT + PageOf(lay.map[k].base + lay.map[k].size) <= VMAP
        BY LayoutFacts
      <4> QED BY <3>1, <4>1
    <3>3. PageOf(a) < VMAP + 1 /\ VMAP + 1 \in Nat
      <4>1. PICK x, d, v : x = PageOf(a) /\ d = DIRECT /\ v = VMAP
        OBVIOUS
      <4>2. x \in Nat /\ d \in Nat /\ v \in Nat /\ d + x <= v
        BY <3>2, <4>1, PageFacts, Sizes
      <4> QED BY <4>1, <4>2
    <3>4. a < (VMAP + 1) * PageBytes
      BY <3>2, <3>3, SizeAssumption, DivLess DEF PageOf
    <3> QED BY <1>0, <3>1, <3>2, <3>4 DEF B
  <2>2. 0 \in 0 .. B
    BY <1>0
  <2> QED BY <2>1, <2>2 DEF UsableEnds
<1>2. E \in SUBSET Int /\ IsFiniteSet(E)
  <2>1. B \in Int /\ 0 \in Int
    BY <1>0
  <2>2. IsFiniteSet(0 .. B) /\ 0 .. B \subseteq Int
    BY <2>1, FS_Interval
  <2> HIDE DEF E
  <2> QED BY <1>1, <2>2, FS_Subset
<1>3. \E n \in E : \A m \in E : m <= n
  <2> HIDE DEF E
  <2> QED BY <1>1, <1>2, GreatestElement
<1>4. N \in Nat
  <2>1. PICK n : n = CHOOSE x \in E : \A m \in E : m <= x
    OBVIOUS
  <2>2. n \in E
    <3> HIDE DEF E
    <3> QED BY <1>3, <2>1
  <2>3. n \in Nat
    BY <1>0, <1>1, <2>2
  <2>4. N = PageOf(n)
    BY <2>1 DEF NPages
  <2> QED BY <2>3, <2>4, PageFacts
<1>5. N \in Nat
  BY <1>4
<1> HIDE DEF E, N
<1>6. /\ PageBytes \in Nat \ {0} /\ DescBytes \in Nat \ {0}
  BY SizeAssumption
<1>7. N * DescBytes \in Nat /\ (N * DescBytes + PageBytes - 1) \in Nat
  BY <1>5, <1>6
<1>8. DescPages(lay) = (N * DescBytes + PageBytes - 1) \div PageBytes
  BY DEF DescPages, N
<1>9. DescPages(lay) \in Nat
  BY <1>6, <1>7, <1>8, DivMod
<1>10. VMAP + DescPages(lay) <= WINDOW
  <2>1. PICK D : D = DescPages(lay)
    OBVIOUS
  <2>2. D <= WINDOW - VMAP
    BY <2>1, LayoutAssumption DEF TypeInv
  <2>3. D \in Nat /\ WINDOW \in Nat /\ VMAP \in Nat
    BY <1>9, <2>1, Sizes
  <2>4. VMAP + D <= WINDOW
    BY ONLY <2>2, <2>3
  <2> QED BY <2>1, <2>4
<1>11. ASSUME NEW p \in 0 .. N - 1, NEW b \in 0 .. DescBytes - 1
       PROVE  VMAP + (p * DescBytes + b) \div PageBytes \in VMAP .. VMAP + DescPages(lay) - 1
  <2>1. PICK a : a = p * DescBytes
    OBVIOUS
  <2>2. PICK c : c = N * DescBytes
    OBVIOUS
  <2>3. a \in Nat /\ c \in Nat /\ a + DescBytes <= c
    <3>1. p + 1 <= N /\ p \in Nat
      BY <1>5
    <3>2. (p + 1) * DescBytes <= N * DescBytes
      BY <1>5, <1>6, <3>1
    <3>3. (p + 1) * DescBytes = a + DescBytes
      BY <1>6, <2>1, <3>1
    <3> QED BY <1>5, <1>6, <2>1, <2>2, <3>1, <3>2, <3>3
  <2>4. a + b \in Nat /\ a + b < c
    BY <1>6, <2>3
  <2>5. PICK D : D = DescPages(lay)
    OBVIOUS
  <2>6. D \in Nat /\ D = (c + PageBytes - 1) \div PageBytes
    BY <1>8, <1>9, <2>2, <2>5
  <2>7. c <= D * PageBytes
    <3>1. ~ D < D
      BY <2>6
    <3>2. c + PageBytes - 1 < (D + 1) * PageBytes <=> (c + PageBytes - 1) \div PageBytes < D + 1
      BY <1>6, <2>3, <2>6, DivLess
    <3>3. c + PageBytes - 1 < (D + 1) * PageBytes
      BY <2>6, <3>2
    <3>4. (D + 1) * PageBytes = D * PageBytes + PageBytes /\ D * PageBytes \in Nat
      BY <1>6, <2>6
    <3> QED BY <1>6, <2>3, <3>3, <3>4
  <2>8. a + b < D * PageBytes
    <3>1. D * PageBytes \in Nat
      BY <1>6, <2>6
    <3> QED BY <2>3, <2>4, <2>7, <3>1
  <2>9. (a + b) \div PageBytes < D /\ (a + b) \div PageBytes \in Nat
    BY <1>6, <2>4, <2>6, <2>8, DivLess, DivMod
  <2> QED BY <2>1, <2>5, <2>6, <2>9, Sizes
<1>12. ASSUME NEW p \in 0 .. N - 1 PROVE DescPagesOf(p) \subseteq VMAP .. VMAP + DescPages(lay) - 1
  BY <1>11 DEF DescPagesOf
<1> QED BY <1>5, <1>9, <1>10, <1>12 DEF N

(* The state after a step: only the contents of memory differ, and with lay     *)
(* PML4 is the same.                                                            *)
LEMMA WalkNext ==
    ASSUME lay' = lay, NEW v
    PROVE  Walk(mem, Path(v))' = Walk(mem', Path(v))
<1>1. PML4' = PML4
  BY DEF PML4, InitFrame
<1> QED BY ONLY <1>1 DEF Walk, Entered

LEMMA TabNext ==
    ASSUME lay' = lay, NEW v, NEW l
    PROVE  Tab(mem, v, l)' = Tab(mem', v, l)
BY DEF Tab, Ent3, Ent2, Ent1, Entered, PML4, InitFrame

LEMMA TreeNext ==
    ASSUME lay' = lay, NEW L, Tree(mem', L, nxt')
    PROVE  Tree(mem, L, nxt)'
BY DEF Tree, Entries, PML4, InitFrame

(* What holds of the state when a step begins.                                  *)
LEMMA Facts ==
    ASSUME IInv, NEW L, TreeInv(L)
    PROVE  /\ mem \in Memory /\ Tree(mem, L, nxt) /\ DOMAIN L \subseteq Frames
           /\ lay.first \in Nat /\ nxt \in Nat /\ lay.limit \in Nat
           /\ 0 < lay.first /\ lay.first <= nxt /\ nxt <= lay.limit
           /\ \A f \in DOMAIN L : f \in Nat /\ lay.first <= f /\ f < nxt
           /\ \A f \in lay.first .. nxt - 1 : f \in Frames
           /\ call.v \in Nat /\ call.p \in Nat /\ call.s \in Nat
           /\ call.i \in 0 .. OUT /\ call.l \in {0, 1}
<1>1. TypeInv /\ Tree(mem, L, nxt)
  BY DEF IInv, TreeInv
<1>2. DOMAIN L \subseteq lay.first .. nxt - 1
  BY <1>1 DEF Tree
<1>3. /\ lay.first \in Nat /\ lay.limit \in Nat /\ 0 < lay.first
      /\ lay.first .. lay.limit - 1 \subseteq Frames
  BY <1>1, LayoutFacts
<1>4. mem \in Memory /\ nxt \in lay.first .. lay.limit
  BY <1>1 DEF TypeInv, Memory
<1>5. call \in CallType
  BY <1>1 DEF TypeInv
<1> QED BY <1>1, <1>2, <1>3, <1>4, <1>5 DEF CallType

(* The pages that the invariant speaks of are the program's.                    *)
LEMMA PagesAreProgram ==
    /\ \A w \in 0 .. VMAP - 1 : w \in Program
    /\ \A w \in VMAP .. WINDOW - 1 : w \in Program
<1>1. ASSUME NEW w \in 0 .. VMAP - 1 PROVE w \in Program
  BY Areas, Sizes
<1>2. ASSUME NEW w \in VMAP .. WINDOW - 1 PROVE w \in Program
  BY Areas, Sizes
<1> QED BY <1>1, <1>2

LEMMA RegionPage ==
    ASSUME TypeInv, NEW k \in 1 .. e - 1, NEW p \in Nat, InRegion(k, p)
    PROVE  /\ k \in DOMAIN lay.map
           /\ DIRECT + p \in DIRECT .. VMAP - 1 /\ DIRECT + p \in Program
<1>1. k \in DOMAIN lay.map
  BY LayoutFacts DEF TypeInv
<1>2. PICK b, n : /\ b = PageOf(lay.map[k].base)
                  /\ n = PageOf(lay.map[k].base + lay.map[k].size)
  OBVIOUS
<1>3. DIRECT + n <= VMAP /\ VMAP \in Nat /\ DIRECT \in Nat
  BY <1>1, <1>2, LayoutFacts, Sizes
<1>4. b \in Nat /\ n \in Nat /\ p \in b .. n - 1
  <2>1. lay.map[k].base \in Nat /\ lay.map[k].base + lay.map[k].size \in Nat
    <3>1. lay.map[k].base \in Nat /\ lay.map[k].size \in Nat
      BY <1>1, LayoutFacts
    <3> QED BY <3>1
  <2> QED BY <1>2, <2>1, PageFacts DEF InRegion
<1>5. DIRECT + p \in DIRECT .. VMAP - 1 /\ DIRECT + p \in 0 .. VMAP - 1
  BY <1>3, <1>4
<1> QED BY <1>1, <1>5, PagesAreProgram

LEMMA BlockPage ==
    ASSUME TypeInv, NEW L, PagesInv(L), ph = "clearing",
           NEW w \in vm .. vm + 2^order - 1
    PROVE  w \in VMAP .. WINDOW - 1 /\ w \in Program
<1>1. VMAP \in Nat /\ WINDOW \in Nat /\ DescPages(lay) \in Nat /\ VMAP + DescPages(lay) <= WINDOW
  BY Sizes, MemoryEnds
<1>2. need \in Nat /\ vm \in Nat /\ 2^order \in Nat
  BY PowerAssumption DEF TypeInv
<1>3. vm + need = VMAP + DescPages(lay) /\ VMAP <= vm /\ 2^order <= need
  BY DEF PagesInv
<1>4. w \in VMAP .. WINDOW - 1
  BY <1>1, <1>2, <1>3
<1> QED BY <1>4, PagesAreProgram

(* Steps within a request that leave every page where it was.                   *)
SameWalks == \A w \in Program : Walk(mem', Path(w)) = Walk(mem, Path(w))
SameRequest ==
    /\ call'.s = call.s /\ call'.v = call.v /\ call'.p = call.p /\ call'.rest = call.rest
    /\ UNCHANGED client

LEMMA SameMapped ==
    ASSUME lay' = lay, SameWalks, NEW w \in Program
    PROVE  /\ IsMapped(w)' = IsMapped(w)
           /\ Walk(mem, Path(w))' = Walk(mem, Path(w))
BY WalkNext DEF IsMapped, SameWalks

LEMMA SameDirect ==
    ASSUME TypeInv, DirectInv, lay' = lay, SameWalks, SameRequest
    PROVE  DirectInv'
<1>1. /\ ph' = ph /\ e' = e /\ base' = base /\ size' = size /\ vm' = vm
      /\ From' = From /\ Upto' = Upto /\ call'.rest = call.rest
      /\ call'.s = call.s /\ call'.v = call.v /\ call'.p = call.p
  BY DEF SameRequest, client, From, Upto
<1>2. \A w \in 0 .. VMAP - 1 : IsMapped(w)' = IsMapped(w)
  BY PagesAreProgram, SameMapped
<1>3. ASSUME NEW k \in 1 .. e - 1, NEW p \in Nat, InRegion(k, p)
      PROVE  Walk(mem, Path(DIRECT + p))' = Walk(mem, Path(DIRECT + p))
  BY <1>3, RegionPage, SameMapped
<1>4. \A k, p : InRegion(k, p)' = InRegion(k, p)
  BY DEF InRegion
<1>5. /\ ph \notin {"direct", "broken"} => e = Len(lay.map) + 1
      /\ ph \notin {"direct", "descriptors"} => call.rest = 0
  BY DEF DirectInv
<1>6. /\ ph = "direct" =>
            /\ vm = VMAP
            /\ DIRECT + Upto <= VMAP
            /\ e <= Len(lay.map) => base + size <= lay.map[e].base
            /\ call.s > 0 => call.v + call.s <= DIRECT + From
            /\ \A w \in 0 .. VMAP - 1 :
                  IsMapped(w)' => w < IF call.s > 0 THEN call.v ELSE DIRECT + From
      /\ ph = "descriptors" /\ call.s > 0 =>
            /\ vm = VMAP /\ call.v + call.s <= VMAP
            /\ \A w \in 0 .. VMAP - 1 : IsMapped(w)' => w < call.v
      /\ ph \in {"direct", "descriptors"} /\ call.s > 0 => call.v = DIRECT + call.p
  BY <1>2 DEF DirectInv
<1>7. ph # "broken" /\ call.rest = 0 =>
          \A k \in 1 .. e - 1 : \A p \in Nat :
              InRegion(k, p)' =>
                  \/ Walk(mem, Path(DIRECT + p))' = p
                  \/ ph = "direct" /\ p \in From .. Upto - 1
                  \/ call.s > 0 /\ DIRECT + p \in call.v .. call.v + call.s - 1
  BY <1>3, <1>4 DEF DirectInv
<1> QED BY <1>1, <1>5, <1>6, <1>7 DEF DirectInv

LEMMA DescriptorPage ==
    ASSUME TypeInv, DirectInv, NEW L, PagesInv(L), ph # "broken", NEW w \in VMAP .. vm - 1
    PROVE  w \in VMAP .. WINDOW - 1 /\ w \in Program
<1>1. VMAP \in Nat /\ WINDOW \in Nat /\ DescPages(lay) \in Nat /\ VMAP + DescPages(lay) <= WINDOW
  BY Sizes, MemoryEnds
<1>2. need \in Nat /\ vm \in Nat
  BY DEF TypeInv
<1>3. CASE ph = "direct"
  BY <1>1, <1>3 DEF DirectInv
<1>4. CASE ph # "direct"
  <2>1. vm + need = VMAP + DescPages(lay)
    BY <1>4 DEF PagesInv
  <2>2. w \in VMAP .. WINDOW - 1
    BY <1>1, <1>2, <2>1
  <2> QED BY <2>2, PagesAreProgram
<1> QED BY <1>3, <1>4

(* New tables are pages that had not been given.                                *)
Newer(L, L2) == nxt <= nxt' /\ \A h \in DOMAIN L2 : h \in DOMAIN L \/ nxt <= h
SameContents(L) == \A h \in Frames : h \notin DOMAIN L /\ h < nxt => mem'[h] = mem[h]

LEMMA SameOutside ==
    ASSUME IInv, NEW L, TreeInv(L), lay' = lay, SameWalks, NEW L2, Newer(L, L2), nxt' \in Nat
    PROVE  Outside(mem, L2, nxt)'
<1>1. nxt \in Nat
  BY Facts
<1>2. ASSUME NEW v \in Program, v < DIRECT \/ v >= VMAP
      PROVE  Walk(mem', Path(v)) \notin DOMAIN L2 /\ Walk(mem', Path(v)) < nxt'
  <2>1. PICK x : x = Walk(mem, Path(v)) /\ x = Walk(mem', Path(v))
    BY DEF SameWalks
  <2>2. x \notin DOMAIN L /\ x < nxt
    BY <1>2, <2>1 DEF TreeInv, Outside
  <2>3. x \in Int
    BY <2>1, Facts, WalkType
  <2>4. \A h \in DOMAIN L2 : h \in DOMAIN L \/ nxt <= h
    BY DEF Newer
  <2>5. nxt <= nxt'
    BY DEF Newer
  <2>6. x < nxt'
    BY <1>1, <2>2, <2>3, <2>5
  <2>7. x \notin DOMAIN L2
    BY <1>1, <2>2, <2>3, <2>4
  <2> QED BY <2>1, <2>6, <2>7
<1> QED BY <1>2, WalkNext DEF Outside

LEMMA SamePages ==
    ASSUME IInv, NEW L, TreeInv(L), ph # "broken", lay' = lay, SameWalks, SameRequest,
           NEW L2, Newer(L, L2), SameContents(L), nxt' \in Nat
    PROVE  PagesInv(L2)'
<1>1. /\ ph' = ph /\ vm' = vm /\ need' = need /\ order' = order
      /\ call'.s = call.s /\ call'.v = call.v /\ call'.p = call.p
  BY DEF SameRequest, client
<1>2. Vm' = Vm /\ Block' = Block
  BY <1>1 DEF Vm, Block
<1>3. TypeInv /\ DirectInv /\ PagesInv(L) /\ Outside(mem, L, nxt)
  BY DEF IInv, TreeInv
<1>4. VMAP <= vm /\ (ph # "direct" => vm + need = VMAP + DescPages(lay))
  BY <1>3 DEF PagesInv
<1>5. ASSUME NEW w \in VMAP .. WINDOW - 1, IsMapped(w)' PROVE w < Vm
  <2>1. IsMapped(w)
    BY <1>5, PagesAreProgram, SameMapped
  <2> QED BY <1>3, <2>1 DEF PagesInv
<1>6. ASSUME NEW w \in VMAP .. vm - 1
      PROVE  /\ Walk(mem', Path(w)) \in lay.first .. nxt' - 1
             /\ mem'[Walk(mem', Path(w))] = Zeroed
  <2>1. w \in Program
    BY <1>3, DescriptorPage
  <2>2. PICK f : f = Walk(mem, Path(w)) /\ f = Walk(mem', Path(w))
    BY <2>1 DEF SameWalks
  <2>3. f \in lay.first .. nxt - 1 /\ mem[f] = Zeroed
    BY <1>3, <2>2 DEF PagesInv
  <2>4. w < DIRECT \/ w >= VMAP
    BY Sizes
  <2>5. f \notin DOMAIN L
    BY <1>3, <2>1, <2>2, <2>4 DEF Outside
  <2>6. f \in Frames /\ f < nxt /\ nxt <= nxt' /\ nxt \in Nat /\ lay.first \in Nat
    BY <2>3, Facts DEF Newer
  <2>7. mem'[f] = mem[f]
    BY <2>5, <2>6 DEF SameContents
  <2> QED BY <2>2, <2>3, <2>6, <2>7
<1>7. ASSUME ph = "clearing"
      PROVE  /\ call.v + call.s = vm + 2^order /\ vm <= call.v /\ 2^order <= need
             /\ lay.first <= Block /\ Block + 2^order <= nxt'
             /\ \A f \in Block .. Block + 2^order - 1 : f \notin DOMAIN L2
             /\ \A w \in vm .. call.v - 1 : Walk(mem, Path(w))' = Block + (w - vm)
  <2>1. /\ call.v + call.s = vm + 2^order /\ vm <= call.v /\ 2^order <= need
        /\ lay.first <= Block /\ Block + 2^order <= nxt
        /\ \A f \in Block .. Block + 2^order - 1 : f \notin DOMAIN L
        /\ \A w \in vm .. call.v - 1 : Walk(mem, Path(w)) = Block + (w - vm)
    BY <1>3, <1>7 DEF PagesInv
  <2>2. ASSUME NEW w \in vm .. call.v - 1 PROVE Walk(mem, Path(w))' = Walk(mem, Path(w))
    <3>1. call.v \in Nat /\ call.s \in Nat /\ vm \in Nat /\ 2^order \in Nat
      BY Facts, <1>3, PowerAssumption DEF TypeInv
    <3>2. w \in vm .. vm + 2^order - 1
      BY <2>1, <3>1
    <3> QED BY <1>3, <1>7, <3>2, BlockPage, SameMapped
  <2>3. Block \in Int /\ 2^order \in Nat /\ nxt \in Nat /\ nxt <= nxt'
    BY Facts, <1>3, PowerAssumption DEF Block, TypeInv, Newer
  <2>4. ASSUME NEW f \in Block .. Block + 2^order - 1 PROVE f \notin DOMAIN L2
    <3>1. f \notin DOMAIN L /\ f < nxt /\ f \in Int
      BY <2>1, <2>3
    <3> QED BY <2>3, <3>1 DEF Newer
  <2> QED BY <2>1, <2>2, <2>3, <2>4
<1>8. ph = "done" => need = 0
  BY <1>3 DEF PagesInv
<1> QED BY <1>1, <1>2, <1>4, <1>5, <1>6, <1>7, <1>8, WalkNext DEF PagesInv

LEMMA NextCall ==
    ASSUME NEW L, CallInv(L), lay' = lay, SameWalks, SameRequest, NEW L2,
           call'.i # OUT =>
              /\ call'.i >= call'.l
              /\ call'.l = 1 => call.v % EN = 0 /\ call.s >= EN
              /\ Tab(mem', call.v, call'.i) \in DOMAIN L2
              /\ L2[Tab(mem', call.v, call'.i)] = call'.i
    PROVE  CallInv(L2)'
<1>1. ph' = ph /\ call'.s = call.s /\ call'.v = call.v /\ call'.p = call.p
  BY DEF SameRequest, client
<1>2. ASSUME call.s > 0
      PROVE  /\ ph \in {"direct", "descriptors", "clearing"}
             /\ \A w \in call.v .. call.v + call.s - 1 : w \in Program /\ ~ IsMapped(w)
  BY <1>2 DEF CallInv
<1>3. \A w \in Program : IsMapped(w)' = IsMapped(w)
  BY SameMapped
<1>4. Tab(mem, call.v, call.i)' = Tab(mem', call.v, call'.i)
  <2>1. ASSUME NEW v, NEW l, v = call'.v, l = call'.i
        PROVE  Tab(mem, call.v, call.i)' = Tab(mem', v, l)
    BY <2>1 DEF Tab, Ent3, Ent2, Ent1, Entered, PML4, InitFrame
  <2> QED BY <1>1, <2>1
<1> QED BY <1>1, <1>2, <1>3, <1>4 DEF CallInv

LEMMA Together ==
    ASSUME NEW L2, TypeInv', ph' = "broken" => call'.s = 0, DirectInv',
           ph' # "broken" => /\ Tree(mem, L2, nxt)' /\ Outside(mem, L2, nxt)'
                             /\ CallInv(L2)' /\ PagesInv(L2)'
    PROVE  IInv'
<1>1. ph' # "broken" => \E L : TreeInv(L)'
  BY DEF TreeInv
<1> QED BY <1>1 DEF IInv

(* The entry on the way that _pg_map looks at.                                  *)
LEMMA AtSlot ==
    ASSUME IInv, NEW L, TreeInv(L), call.s > 0, call.i # OUT
    PROVE  /\ ph # "broken" /\ call.v \in Program /\ ~ IsMapped(call.v)
           /\ call.i \in 0 .. 3 /\ call.i >= call.l
           /\ Pdt = Tab(mem, call.v, call.i) /\ Pdt \in DOMAIN L /\ L[Pdt] = call.i
           /\ Slot = Digit(call.v, call.i) /\ Slot \in Keys
           /\ Pdt # PML4 \/ Slot # SELF
           /\ Passes(mem, call.v, Pdt, Slot, call.i)
<1>1. ph # "broken" /\ CallInv(L)
  BY DEF IInv, TreeInv
<1>2. call.i \in 0 .. 3 /\ call.v \in Nat /\ call.s \in Nat
  BY Facts DEF OUT
<1>3. call.v \in Program /\ ~ IsMapped(call.v)
  <2>1. call.v \in call.v .. call.v + call.s - 1
    BY <1>2
  <2> QED BY <1>1, <2>1 DEF CallInv
<1>4. /\ call.i >= call.l
      /\ Tab(mem, call.v, call.i) \in DOMAIN L
      /\ L[Tab(mem, call.v, call.i)] = call.i
  BY <1>1 DEF CallInv
<1>5. Pdt = Tab(mem, call.v, call.i)
  BY <1>2, <1>3, Facts, Reached DEF Pdt
<1>6. Slot = Digit(call.v, call.i) /\ Slot \in Keys
  BY <1>2, <1>3, ProgramPage DEF Slot
<1>7. Pdt # PML4 \/ Slot # SELF
  <2>1. L[PML4] = 3
    BY <1>3, Facts, Levels
  <2>2. Digit(call.v, 3) # SELF
    BY <1>3, ProgramPage
  <2> QED BY <1>4, <1>5, <1>6, <2>1, <2>2
<1>8. call.i = 0 => ~ Ent1(mem, call.v).ps
  <2>1. ASSUME Ent1(mem, call.v).ps PROVE FALSE
    <3>1. Walk(mem, Path(call.v)) = Ent1(mem, call.v).at + Digit(call.v, 0)
      BY <2>1, WalkIs
    <3>2. Ent1(mem, call.v).at \in Nat
      BY <1>3, <2>1, Facts, Levels
    <3>3. Digit(call.v, 0) \in Nat
      BY <1>3, ProgramPage, Sizes DEF Keys
    <3>4. Ent1(mem, call.v).at + Digit(call.v, 0) # Fault
      BY <3>2, <3>3 DEF Fault
    <3> QED BY <1>3, <3>1, <3>4 DEF IsMapped
  <2> QED BY <2>1
<1> QED BY <1>1, <1>2, <1>3, <1>4, <1>5, <1>6, <1>7, <1>8 DEF Passes

LEMMA StartKeeps ==
    ASSUME IInv, NEW L, TreeInv(L), Start
    PROVE  IInv' /\ SameWalks
<1>1. /\ UNCHANGED <<lay, mem, nxt, client>> /\ call.s > 0 /\ call.i = OUT
      /\ call' = [call EXCEPT !.i = 3, !.l = IF LargeFits THEN 1 ELSE 0]
  BY DEF Start
<1>2. TypeInv /\ DirectInv /\ Tree(mem, L, nxt) /\ Outside(mem, L, nxt) /\ CallInv(L)
  BY DEF IInv, TreeInv
<1>3. call \in CallType
  BY <1>2 DEF TypeInv
<1>4. /\ call' \in CallType
      /\ call'.s = call.s /\ call'.v = call.v /\ call'.p = call.p
      /\ call'.rest = call.rest
      /\ call'.i = 3 /\ call'.l \in {0, 1}
      /\ call'.l = 1 => call.v % EN = 0 /\ call.s >= EN
  <2>1. PICK b : b = IF LargeFits THEN 1 ELSE 0
    OBVIOUS
  <2>2. b \in {0, 1} /\ (b = 1 => call.v % EN = 0 /\ call.s >= EN)
    BY <2>1 DEF LargeFits, LARGE
  <2>3. call' = [call EXCEPT !.i = 3, !.l = b]
    BY <1>1, <2>1
  <2>4. 3 \in 0 .. OUT
    BY DEF OUT
  <2> QED BY <1>3, <2>2, <2>3, <2>4 DEF CallType
<1>5. SameWalks /\ SameRequest
  BY <1>1, <1>4 DEF SameWalks, SameRequest
<1>6. TypeInv'
  BY <1>1, <1>2, <1>4 DEF TypeInv, client
<1>7. DirectInv'
  BY <1>1, <1>2, <1>5, SameDirect
<1>8. ph # "broken"
  BY <1>1 DEF IInv
<1>9. Newer(L, L) /\ SameContents(L) /\ nxt' \in Nat
  BY <1>1, Facts DEF Newer, SameContents
<1>10. Outside(mem, L, nxt)' /\ PagesInv(L)'
  BY <1>1, <1>5, <1>8, <1>9, SameOutside, SamePages
<1>11. CallInv(L)'
  <2>1. PML4 \in DOMAIN L /\ L[PML4] = 3
    BY <1>2, Facts DEF Tree
  <2>2. Tab(mem', call.v, call'.i) = PML4
    BY <1>4, TabIs
  <2> QED BY <1>1, <1>2, <1>4, <1>5, <2>1, <2>2, NextCall
<1>12. Tree(mem, L, nxt)'
  BY <1>1, <1>2, TreeNext
<1>13. ph' = ph
  BY <1>1 DEF client
<1> QED BY <1>5, <1>6, <1>7, <1>8, <1>10, <1>11, <1>12, <1>13, Together

LEMMA DescendKeeps ==
    ASSUME IInv, NEW L, TreeInv(L), Descend
    PROVE  IInv' /\ SameWalks
<1>1. /\ UNCHANGED <<lay, mem, nxt, client>> /\ call.s > 0 /\ call.i # OUT /\ call.i > call.l
      /\ call' = [call EXCEPT !.i = call.i - 1] /\ mem[Pdt][Slot].present
  BY DEF Descend
<1>2. TypeInv /\ DirectInv /\ Tree(mem, L, nxt) /\ Outside(mem, L, nxt) /\ CallInv(L)
  BY DEF IInv, TreeInv
<1>3. call \in CallType
  BY <1>2 DEF TypeInv
<1>4. /\ call' \in CallType
      /\ call'.s = call.s /\ call'.v = call.v /\ call'.p = call.p
      /\ call'.rest = call.rest
      /\ call'.i = call.i - 1 /\ call'.l = call.l /\ call.i \in 1 .. 3
      /\ call'.l = 1 => call.v % EN = 0 /\ call.s >= EN
  <2>1. call.l = 1 => call.v % EN = 0 /\ call.s >= EN
    BY <1>1, <1>2 DEF CallInv
  <2>2. call.i \in 0 .. 4 /\ call.i # 4 /\ call.l \in Nat
    BY <1>1, <1>3 DEF OUT, CallType
  <2>3. call.i \in 1 .. 3 /\ call.i - 1 \in 0 .. OUT
    BY <1>1, <2>2 DEF OUT
  <2> QED BY <1>1, <1>3, <2>1, <2>3 DEF CallType
<1>5. SameWalks /\ SameRequest
  BY <1>1, <1>4 DEF SameWalks, SameRequest
<1>6. TypeInv'
  BY <1>1, <1>2, <1>4 DEF TypeInv, client
<1>7. DirectInv'
  BY <1>1, <1>2, <1>5, SameDirect
<1>8. ph # "broken"
  BY <1>1 DEF IInv
<1>9. Newer(L, L) /\ SameContents(L) /\ nxt' \in Nat
  BY <1>1, Facts DEF Newer, SameContents
<1>10. Outside(mem, L, nxt)' /\ PagesInv(L)'
  BY <1>1, <1>5, <1>8, <1>9, SameOutside, SamePages
<1>11. CallInv(L)'
  <2>1. /\ call.v \in Program /\ ~ IsMapped(call.v)
        /\ Pdt = Tab(mem, call.v, call.i) /\ Pdt \in DOMAIN L /\ L[Pdt] = call.i
        /\ Slot = Digit(call.v, call.i) /\ Slot \in Keys
        /\ Pdt # PML4 \/ Slot # SELF
    BY <1>1, AtSlot
  <2>2. PICK x : x = Entered(mem, Pdt, Slot)
    OBVIOUS
  <2>3. x.at # Fault
    <3>1. Pdt \in Frames
      BY <2>1, Facts
    <3> QED BY <1>1, <2>1, <2>2, <3>1, Facts, EnteredIs
  <2>4. \/ x.at \in Nat /\ x.ps /\ L[Pdt] = 1
        \/ x.at \in DOMAIN L /\ ~ x.ps /\ L[x.at] = L[Pdt] - 1
    <3>1. L[Pdt] > 0
      BY <1>4, <2>1
    <3> QED BY <2>1, <2>2, <2>3, <3>1, Facts, EntryLeads
  <2>5. /\ call.i = 3 => x = Ent3(mem, call.v)
        /\ call.i = 2 => x = Ent2(mem, call.v)
        /\ call.i = 1 => x = Ent1(mem, call.v)
    BY <2>1, <2>2, TabIs DEF Ent3, Ent2, Ent1
  <2>6. ~ (x.at \in Nat /\ x.ps /\ L[Pdt] = 1)
    <3>1. SUFFICES ASSUME x.at \in Nat, x.ps, L[Pdt] = 1 PROVE FALSE
      OBVIOUS
    <3>2. x = Ent1(mem, call.v)
      BY <2>1, <2>5, <3>1
    <3>3. Walk(mem, Path(call.v)) = x.at + Digit(call.v, 0)
      BY <3>1, <3>2, WalkIs
    <3>4. Digit(call.v, 0) \in Nat
      BY <2>1, ProgramPage, Sizes DEF Keys
    <3>5. x.at + Digit(call.v, 0) # Fault
      BY <3>1, <3>4 DEF Fault
    <3> QED BY <2>1, <3>3, <3>5 DEF IsMapped
  <2>7. Tab(mem, call.v, call.i - 1) = x.at
    <3>1. call.i = 1 \/ call.i = 2 \/ call.i = 3
      BY <1>4
    <3>2. CASE call.i = 1
      <4>1. call.i - 1 = 0
        BY <3>2
      <4> QED BY <2>5, <3>2, <4>1, TabIs
    <3>3. CASE call.i = 2
      <4>1. call.i - 1 = 1
        BY <3>3
      <4> QED BY <2>5, <3>3, <4>1, TabIs
    <3>4. CASE call.i = 3
      <4>1. call.i - 1 = 2
        BY <3>4
      <4> QED BY <2>5, <3>4, <4>1, TabIs
    <3> QED BY <3>1, <3>2, <3>3, <3>4
  <2>8. call'.i >= call'.l
    BY <1>1, <1>3, <1>4 DEF CallType
  <2>9. Tab(mem', call.v, call'.i) = x.at
    BY <1>1, <1>4, <2>7
  <2>10. x.at \in DOMAIN L /\ L[x.at] = call'.i
    BY <1>4, <2>1, <2>4, <2>6
  <2> QED BY <1>1, <1>2, <1>4, <1>5, <2>8, <2>9, <2>10, NextCall
<1>12. Tree(mem, L, nxt)'
  BY <1>1, <1>2, TreeNext
<1>13. ph' = ph
  BY <1>1 DEF client
<1> QED BY <1>5, <1>6, <1>7, <1>8, <1>10, <1>11, <1>12, <1>13, Together

(* palloc_get gives pages above all those given.                                *)
LEMMA GetFacts ==
    ASSUME TypeInv, NEW o \in 0 .. MAX_ORDER - 1
    PROVE  /\ 2^o \in Nat \ {0} /\ nxt \in Nat \ {0}
           /\ Get(nxt, o) = 0 => Taken(nxt, o) = nxt
           /\ Get(nxt, o) # 0 => /\ Get(nxt, o) = nxt /\ Taken(nxt, o) = nxt + 2^o
                                 /\ nxt + 2^o < lay.limit
           /\ Taken(nxt, o) \in lay.first .. lay.limit /\ nxt <= Taken(nxt, o)
<1>1. 2^o \in Nat \ {0}
  BY PowerAssumption
<1>2. PICK x : x = 2^o
  OBVIOUS
<1>3. /\ nxt \in lay.first .. lay.limit /\ lay.first \in Nat /\ lay.limit \in Nat
      /\ 0 < lay.first
  BY LayoutFacts DEF TypeInv
<1>4. /\ Get(nxt, o) = IF nxt + x < lay.limit THEN nxt ELSE 0
      /\ Taken(nxt, o) = IF Get(nxt, o) = 0 THEN nxt ELSE nxt + x
  BY <1>2 DEF Get, Taken
<1>5. x \in Nat \ {0}
  BY <1>1, <1>2
<1> QED BY <1>2, <1>3, <1>4, <1>5

LEMMA CreateTableKeeps ==
    ASSUME IInv, NEW L, TreeInv(L), CreateTable
    PROVE  IInv' /\ SameWalks
<1>0. TypeInv /\ DirectInv /\ Tree(mem, L, nxt) /\ Outside(mem, L, nxt) /\ CallInv(L)
  BY DEF IInv, TreeInv
<1>1. PICK g : g = Get(nxt, 0)
  OBVIOUS
<1>2. PICK M1 : M1 = [mem EXCEPT ![Pdt][Slot] = Entry(g, FALSE)]
  OBVIOUS
<1>3. PICK M2 : M2 = Cleared(M1, g)
  OBVIOUS
<1>4. /\ call.s > 0 /\ call.i # OUT /\ call.i > call.l /\ ~ mem[Pdt][Slot].present
      /\ mem' = Cleared(M1, Walk(M1, PgDir(call.v, call.i - 1)))
      /\ nxt' = Taken(nxt, 0)
      /\ call' = IF g = 0 THEN Idle ELSE [call EXCEPT !.i = call.i - 1]
      /\ ph' = IF g = 0 THEN "broken" ELSE ph
      /\ UNCHANGED <<lay, e, base, size, vm, need, order>>
  BY <1>1, <1>2 DEF CreateTable
<1>5. /\ ph # "broken" /\ call.v \in Program
      /\ Pdt \in DOMAIN L /\ L[Pdt] = call.i /\ Slot \in Keys
      /\ Pdt # PML4 \/ Slot # SELF
      /\ Passes(mem, call.v, Pdt, Slot, call.i)
  BY <1>4, AtSlot
<1>6. /\ 2^0 = 1 /\ nxt \in Nat \ {0} /\ nxt' \in lay.first .. lay.limit /\ nxt <= nxt'
      /\ g # 0 => g = nxt /\ nxt' = nxt + 1 /\ nxt + 1 < lay.limit
  <2>1. 0 \in 0 .. MAX_ORDER - 1
    BY SizeAssumption
  <2>2. 2^0 = 1
    BY PowerAssumption
  <2> QED BY <1>0, <1>1, <1>4, <2>1, <2>2, GetFacts
<1>7. /\ g \in Nat /\ g \notin DOMAIN L /\ Pdt \in Frames /\ Pdt # g /\ nxt' \in Nat
      /\ call.i \in 1 .. 3 /\ call.i - 1 \in 0 .. 2
      /\ g # 0 => g \in Frames
  <2>1. /\ DOMAIN L \subseteq Frames /\ 0 < lay.first /\ lay.first \in Nat
        /\ \A f \in DOMAIN L : f \in Nat /\ lay.first <= f /\ f < nxt
        /\ nxt \in Nat /\ lay.first <= nxt /\ lay.limit \in Nat
        /\ call.i \in 0 .. OUT /\ call.l \in {0, 1}
    BY Facts
  <2>2. lay.first .. lay.limit - 1 \subseteq Frames
    BY <1>0, LayoutFacts
  <2>3. call.i \in 1 .. 3 /\ call.i - 1 \in 0 .. 2
    BY <1>4, <2>1 DEF OUT
  <2> QED BY <1>5, <1>6, <2>1, <2>2, <2>3
<1>8. /\ M1 \in Memory /\ M1[Pdt][Slot] = Entry(g, FALSE)
      /\ \A c \in Keys : c # Slot => M1[Pdt][c] = mem[Pdt][c]
      /\ \A h \in Frames : h # Pdt => M1[h] = mem[h]
  <2>1. Entry(g, FALSE) \in EntryType
    BY <1>7 DEF Entry, EntryType
  <2>2. mem \in Memory
    BY Facts
  <2>3. PICK f, k, x : f = Pdt /\ k = Slot /\ x = Entry(g, FALSE)
    OBVIOUS
  <2>4. f \in Frames /\ k \in Keys /\ x \in EntryType /\ M1 = [mem EXCEPT ![f][k] = x]
    BY <1>2, <1>5, <1>7, <2>1, <2>3
  <2>5. /\ M1 \in Memory /\ M1[f][k] = x
        /\ \A c \in Keys : c # k => M1[f][c] = mem[f][c]
        /\ \A h \in Frames : h # f => M1[h] = mem[h]
    BY ONLY <2>2, <2>4 DEF Memory, TableType
  <2> QED BY <2>3, <2>5
<1>9. /\ M2 \in Memory /\ (g \in Frames => M2[g] = Zeroed)
      /\ \A h \in Frames : h # g => M2[h] = M1[h]
  BY <1>3, <1>8, Clears
<1>10. /\ AgreeBut(mem, M1, L, Pdt, Slot) /\ AgreeBut(mem, M2, L, Pdt, Slot)
       /\ M2[Pdt][Slot] = Entry(g, FALSE)
  <2>1. DOMAIN L \subseteq Frames
    BY Facts
  <2> QED BY <1>7, <1>8, <1>9, <2>1 DEF AgreeBut
<1>11. /\ Walk(M1, PgDir(call.v, call.i - 1)) = g
       /\ Tab(M2, call.v, call.i - 1) = g
       /\ \A w \in Program : Walk(M2, Path(w)) = Walk(mem, Path(w))
  <2>1. mem \in Memory /\ Tree(mem, L, nxt) /\ DOMAIN L \subseteq Frames
    BY Facts
  <2>2. PICK v, i, f, k : v = call.v /\ i = call.i /\ f = Pdt /\ k = Slot
    OBVIOUS
  <2>3. /\ f \in DOMAIN L /\ i \in 1 .. 3 /\ L[f] = i /\ ~ mem[f][k].present
        /\ v \in Program /\ Passes(mem, v, f, k, i)
        /\ Wrote(mem, M1, L, f, k, g) /\ Wrote(mem, M2, L, f, k, g)
    BY <1>4, <1>5, <1>7, <1>8, <1>9, <1>10, <2>2 DEF Wrote
  <2>4. /\ Walk(M1, PgDir(v, i - 1)) = g
        /\ Tab(M2, v, i - 1) = g
        /\ \A w \in Program : Walk(M2, Path(w)) = Walk(mem, Path(w))
    <3>1. g \in Nat /\ (g \in Frames => M2[g] = Zeroed)
      BY <1>7, <1>8, <1>9
    <3> QED BY ONLY <2>1, <2>3, <3>1, NewTable
  <2> QED BY <2>2, <2>4
<1>12. mem' = M2
  BY <1>3, <1>4, <1>11
<1>13. SameWalks
  BY <1>11, <1>12 DEF SameWalks
<1>14. /\ call' \in CallType
       /\ g = 0 => call'.s = 0 /\ call'.rest = 0
       /\ g # 0 => /\ call'.s = call.s /\ call'.v = call.v /\ call'.p = call.p
                   /\ call'.rest = call.rest
                   /\ call'.i = call.i - 1 /\ call'.l = call.l
  <2>1. call \in CallType
    BY <1>0 DEF TypeInv
  <2>2. CASE g = 0
    BY <1>4, <2>2 DEF Idle, OUT, CallType
  <2>3. CASE g # 0
    <3>1. call' = [call EXCEPT !.i = call.i - 1] /\ call.i - 1 \in 0 .. OUT
      BY <1>4, <1>7, <2>3 DEF OUT
    <3> QED BY <2>1, <2>3, <3>1 DEF CallType
  <2> QED BY <2>2, <2>3
<1>15. TypeInv'
  <2>1. mem' \in [Frames -> TableType]
    BY <1>9, <1>12 DEF Memory
  <2>2. ph' \in Phases
    BY <1>0, <1>4 DEF TypeInv, Phases
  <2> QED BY <1>0, <1>4, <1>6, <1>14, <2>1, <2>2 DEF TypeInv
<1>16. CASE g = 0
  <2>1. ph' = "broken" /\ call'.s = 0 /\ call'.rest = 0
    BY <1>4, <1>14, <1>16
  <2>2. DirectInv'
    BY <2>1 DEF DirectInv
  <2> QED BY <1>13, <1>15, <2>1, <2>2, Together
<1>17. CASE g # 0
  <2>1. ph' = ph /\ SameRequest
    BY <1>4, <1>14, <1>17 DEF SameRequest, client
  <2>2. DirectInv'
    BY <1>0, <1>4, <1>13, <2>1, SameDirect
  <2>3. PICK L2 : L2 = Grown(L, nxt, call.i - 1)
    OBVIOUS
  <2>4. /\ nxt \notin DOMAIN L /\ DOMAIN L2 = DOMAIN L \cup {nxt} /\ L2[nxt] = call.i - 1
        /\ g = nxt
    BY <1>6, <1>7, <1>17, <2>3 DEF Grown
  <2>5. Tree(mem', L2, nxt')
    <3>1. mem \in Memory /\ lay.first \in Nat /\ lay.first <= nxt /\ nxt \in Nat
      BY Facts
    <3>2. PICK i, f, k : i = call.i /\ f = Pdt /\ k = Slot
      OBVIOUS
    <3>3. /\ i \in 1 .. 3 /\ f \in DOMAIN L /\ L[f] = i /\ k \in Keys
          /\ f # PML4 \/ k # SELF
          /\ AgreeBut(mem, M2, L, f, k) /\ M2[f][k] = Entry(nxt, FALSE)
          /\ M2[nxt] = Zeroed /\ L2 = Grown(L, nxt, i - 1)
      BY <1>5, <1>7, <1>9, <1>10, <1>17, <2>3, <2>4, <3>2
    <3>4. Tree(M2, L2, nxt + 1)
      BY <1>0, <3>1, <3>3, GrownTree
    <3> QED BY <1>6, <1>12, <1>17, <3>4
  <2>6. Newer(L, L2)
    BY <1>6, <2>4 DEF Newer
  <2>7. SameContents(L)
    <3>1. ASSUME NEW h \in Frames, h \notin DOMAIN L, h < nxt PROVE M2[h] = mem[h]
      <4>1. h # Pdt /\ h # g
        BY <1>5, <1>6, <2>4, <3>1
      <4> QED BY <1>8, <1>9, <4>1
    <3> QED BY <1>12, <3>1 DEF SameContents
  <2>8. Outside(mem, L2, nxt)' /\ PagesInv(L2)'
    BY <1>4, <1>5, <1>7, <1>13, <2>1, <2>6, <2>7, SameOutside, SamePages
  <2>9. CallInv(L2)'
    <3>1. call.l = 1 => call.v % EN = 0 /\ call.s >= EN
      BY <1>0, <1>4 DEF CallInv
    <3>2. call'.i >= call'.l
      <4>1. call.i \in Nat /\ call.l \in Nat
        BY <1>7, Facts
      <4> QED BY <1>4, <1>14, <1>17, <4>1
    <3>3. Tab(mem', call.v, call'.i) = g
      BY <1>11, <1>12, <1>14, <1>17
    <3>4. g \in DOMAIN L2 /\ L2[g] = call'.i
      BY <1>14, <1>17, <2>4
    <3> QED BY <1>0, <1>4, <1>13, <1>14, <1>17, <2>1, <3>1, <3>2, <3>3, <3>4, NextCall
  <2>10. Tree(mem, L2, nxt)'
    BY <1>4, <2>5, TreeNext
  <2> QED BY <1>5, <1>13, <1>15, <2>1, <2>2, <2>8, <2>9, <2>10, Together
<1> QED BY <1>16, <1>17

(* The entry of the page itself.                                                *)
Sent ==
    \A w \in Program :
        Walk(mem', Path(w)) = IF w \in call.v .. call.v + Stride - 1
                              THEN call.p + (w - call.v) ELSE Walk(mem, Path(w))

LEMMA StrideFacts ==
    ASSUME IInv, NEW L, TreeInv(L), call.s > 0, call.i = call.l
    PROVE  /\ Stride \in Nat /\ Stride > 0 /\ Stride <= call.s
           /\ call.l = 0 => Stride = 1
           /\ call.l = 1 => Stride = EN /\ call.v % EN = 0
           /\ call.l \in {0, 1} /\ call.i # OUT /\ call.v \in Nat /\ call.s \in Nat
           /\ call.p \in Nat
           /\ \A w \in call.v .. call.v + Stride - 1 :
                 /\ w \in call.v .. call.v + call.s - 1
                 /\ w \in Program /\ ~ IsMapped(w)
<1>1. CallInv(L)
  BY DEF TreeInv
<1>2. call.l \in {0, 1} /\ call.i # OUT /\ call.v \in Nat /\ call.s \in Nat /\ call.p \in Nat
  BY Facts DEF OUT
<1>3. call.l = 1 => call.v % EN = 0 /\ call.s >= EN
  BY <1>1, <1>2 DEF CallInv
<1>4. /\ Stride \in Nat /\ Stride > 0 /\ Stride <= call.s
      /\ call.l = 0 => Stride = 1
      /\ call.l = 1 => Stride = EN
  BY <1>2, <1>3, Sizes DEF Stride, LARGE
<1>5. \A w \in call.v .. call.v + Stride - 1 : w \in call.v .. call.v + call.s - 1
  BY <1>2, <1>4
<1>6. \A w \in call.v .. call.v + call.s - 1 : w \in Program /\ ~ IsMapped(w)
  BY <1>1 DEF CallInv
<1> QED BY <1>2, <1>3, <1>4, <1>5, <1>6

LEMMA SetEntryWalks ==
    ASSUME IInv, NEW L, TreeInv(L), SetEntry
    PROVE  /\ Sent /\ mem' \in Memory /\ Tree(mem', L, nxt)
           /\ \A h \in Frames : h \notin DOMAIN L => mem'[h] = mem[h]
<1>1. PICK v, i, f, k, p : v = call.v /\ i = call.i /\ f = Pdt /\ k = Slot /\ p = call.p
  OBVIOUS
<1>2. /\ call.s > 0 /\ call.i = call.l
      /\ mem' = [mem EXCEPT ![f][k] = Entry(p, call.l # 0)]
  BY <1>1 DEF SetEntry
<1>3. /\ call.l = 0 => Stride = 1
      /\ call.l = 1 => Stride = EN /\ v % EN = 0
      /\ call.l \in {0, 1} /\ call.i # OUT /\ v \in Nat /\ p \in Nat
  BY <1>1, <1>2, StrideFacts
<1>4. /\ f \in DOMAIN L /\ L[f] = i /\ k \in Keys /\ v \in Program
      /\ f # PML4 \/ k # SELF
      /\ Passes(mem, v, f, k, i)
  BY <1>1, <1>2, <1>3, AtSlot
<1>5. /\ mem \in Memory /\ Tree(mem, L, nxt) /\ DOMAIN L \subseteq Frames
      /\ nxt \in Nat /\ lay.first \in Nat
  BY Facts
<1>6. PICK x : x = Entry(p, call.l # 0)
  OBVIOUS
<1>7. x \in EntryType
  BY <1>3, <1>6 DEF Entry, EntryType
<1>8. /\ mem' \in Memory /\ mem'[f][k] = x
      /\ \A c \in Keys : c # k => mem'[f][c] = mem[f][c]
      /\ \A h \in Frames : h # f => mem'[h] = mem[h]
  <2>1. f \in Frames /\ k \in Keys /\ x \in EntryType /\ mem' = [mem EXCEPT ![f][k] = x]
    BY <1>2, <1>4, <1>5, <1>6, <1>7
  <2> QED BY ONLY <1>5, <2>1 DEF Memory, TableType
<1>9. AgreeBut(mem, mem', L, f, k)
  BY <1>5, <1>8 DEF AgreeBut
<1>10. CASE call.l = 0
  <2>1. i = 0 /\ L[f] = 0 /\ x = Entry(p, FALSE) /\ Stride = 1
    BY <1>1, <1>2, <1>3, <1>4, <1>6, <1>10
  <2>2. ASSUME NEW w \in Program
        PROVE  Walk(mem', Path(w)) = IF w = v THEN p ELSE Walk(mem, Path(w))
    <3>1. Passes(mem, v, f, k, 0) /\ Wrote(mem, mem', L, f, k, p)
      BY <1>4, <1>8, <1>9, <2>1 DEF Wrote
    <3> QED BY <1>3, <1>4, <1>5, <2>1, <3>1, SmallPage
  <2>3. \A w \in v .. v + 1 - 1 : w = v /\ p + (w - v) = p
    BY <1>3
  <2>4. v \in v .. v + 1 - 1 /\ p + (v - v) = p
    BY <1>3
  <2>5. Sent
    BY <1>1, <2>1, <2>2, <2>3, <2>4 DEF Sent
  <2>6. Tree(mem', L, nxt)
    <3>1. nxt <= nxt
      BY <1>5
    <3> QED BY <1>4, <1>5, <1>9, <2>1, <3>1, SameTree
  <2> QED BY <1>4, <1>8, <2>5, <2>6
<1>11. CASE call.l = 1
  <2>1. i = 1 /\ L[f] = 1 /\ x = Entry(p, TRUE) /\ Stride = EN /\ v % EN = 0
    <3>1. (call.l # 0) = TRUE
      BY <1>11
    <3>2. x = Entry(p, TRUE)
      BY <1>6, <3>1
    <3> QED BY <1>1, <1>2, <1>3, <1>4, <1>11, <3>2
  <2>2. ASSUME NEW w \in Program
        PROVE  Walk(mem', Path(w)) = IF w \in v .. v + EN - 1 THEN p + (w - v)
                                     ELSE Walk(mem, Path(w))
    <3>1. Passes(mem, v, f, k, 1) /\ WroteLarge(mem, mem', L, f, k, p)
      BY <1>4, <1>8, <1>9, <2>1 DEF WroteLarge
    <3>2. /\ mem \in Memory /\ Tree(mem, L, nxt) /\ DOMAIN L \subseteq Frames
          /\ f \in DOMAIN L /\ L[f] = 1 /\ v \in Program /\ v % EN = 0 /\ p \in Nat
      BY <1>3, <1>4, <1>5, <2>1
    <3> QED BY ONLY <2>2, <3>1, <3>2, LargePage
  <2>3. Sent
    BY <1>1, <2>1, <2>2 DEF Sent
  <2>4. Tree(mem', L, nxt)
    <3>1. nxt <= nxt /\ mem'[f][k].ps
      BY <1>5, <1>8, <2>1 DEF Entry
    <3> QED BY <1>4, <1>5, <1>9, <2>1, <3>1, SameTree
  <2> QED BY <1>4, <1>8, <2>3, <2>4
<1> QED BY <1>3, <1>10, <1>11

(* The pages of the region collected.                                           *)
LEMMA Collected ==
    ASSUME TypeInv
    PROVE  From \in Nat /\ Upto \in Nat /\ From <= Upto
<1>1. base \in Nat /\ size \in Nat
  BY DEF TypeInv
<1>2. base + size \in Nat /\ base <= base + size
  BY <1>1
<1> QED BY <1>1, <1>2, PageFacts DEF From, Upto

(* The request at work is below VMAP until the descriptors are mapped, which    *)
(* lead into their block.                                                       *)
LEMMA RequestPlace ==
    ASSUME IInv, NEW L, TreeInv(L), call.s > 0
    PROVE  /\ ph \in {"direct", "descriptors"} =>
                 call.v = DIRECT + call.p /\ DIRECT <= call.v /\ call.v + call.s <= VMAP
           /\ ph = "clearing" => /\ VMAP <= call.v /\ call.v + call.s = vm + 2^order
                                 /\ vm <= call.v /\ Vm = call.v
           /\ ph \in {"direct", "descriptors", "clearing"}
<1>1. TypeInv /\ DirectInv /\ CallInv(L) /\ PagesInv(L)
  BY DEF IInv, TreeInv
<1>2. ph \in {"direct", "descriptors", "clearing"}
  BY <1>1 DEF CallInv
<1>3. call.v \in Nat /\ call.p \in Nat /\ call.s \in Nat /\ VMAP \in Nat /\ DIRECT \in Nat
  BY Facts, Sizes
<1>7. ph \in {"direct", "descriptors"} => call.v = DIRECT + call.p
  BY <1>1 DEF DirectInv
<1>4. CASE ph = "direct"
  <2>1. DIRECT + Upto <= VMAP /\ call.v + call.s <= DIRECT + From
    BY <1>1, <1>4 DEF DirectInv
  <2>2. From \in Nat /\ Upto \in Nat /\ From <= Upto
    BY <1>1, Collected
  <2> QED BY <1>3, <1>4, <1>7, <2>1, <2>2
<1>5. CASE ph = "descriptors"
  <2>1. call.v + call.s <= VMAP
    BY <1>1, <1>5 DEF DirectInv
  <2> QED BY <1>3, <1>5, <1>7, <2>1
<1>6. CASE ph = "clearing"
  <2>1. call.v + call.s = vm + 2^order /\ vm <= call.v /\ VMAP <= vm
    BY <1>1, <1>6 DEF PagesInv
  <2>2. vm \in Nat /\ 2^order \in Nat
    BY <1>1, PowerAssumption DEF TypeInv
  <2>3. Vm = vm + 2^order - call.s
    BY <1>6 DEF Vm
  <2> QED BY <1>3, <1>6, <2>1, <2>2, <2>3
<1> QED BY <1>2, <1>4, <1>5, <1>6

LEMMA SetEntryCall ==
    ASSUME IInv, NEW L, TreeInv(L), SetEntry
    PROVE  /\ UNCHANGED <<lay, nxt, client>>
           /\ call' \in CallType
           /\ call'.v = call.v + Stride /\ call'.p = call.p + Stride
           /\ call'.s = call.s - Stride /\ call'.i = OUT /\ call'.rest = call.rest
           /\ call.s > 0 /\ call.i = call.l
<1>1. /\ call' = [call EXCEPT !.v = call.v + Stride, !.p = call.p + Stride,
                              !.s = call.s - Stride, !.i = OUT]
      /\ UNCHANGED <<lay, nxt, client>> /\ call.s > 0 /\ call.i = call.l
  BY DEF SetEntry
<1>2. call \in CallType
  BY DEF IInv, TypeInv
<1>3. Stride \in Nat /\ Stride <= call.s
  BY <1>1, StrideFacts
<1>4. call.v + Stride \in Nat /\ call.p + Stride \in Nat /\ call.s - Stride \in Nat
  BY <1>2, <1>3 DEF CallType
<1>5. OUT \in 0 .. OUT
  BY DEF OUT
<1> QED BY <1>1, <1>2, <1>4, <1>5 DEF CallType

LEMMA SetEntryOutside ==
    ASSUME IInv, NEW L, TreeInv(L), SetEntry
    PROVE  Outside(mem, L, nxt)'
<1>1. /\ UNCHANGED <<lay, nxt>> /\ call.s > 0 /\ call.i = call.l
  BY SetEntryCall
<1>2. PagesInv(L) /\ Outside(mem, L, nxt) /\ TypeInv
  BY DEF IInv, TreeInv
<1>3. ASSUME NEW w \in Program, w < DIRECT \/ w >= VMAP
      PROVE  Walk(mem', Path(w)) \notin DOMAIN L /\ Walk(mem', Path(w)) < nxt
  <2>1. CASE w \in call.v .. call.v + Stride - 1
    <3>1. /\ Stride \in Nat /\ Stride <= call.s /\ call.v \in Nat /\ call.s \in Nat
          /\ call.p \in Nat
      BY <1>1, StrideFacts
    <3>2. ph = "clearing"
      <4>1. VMAP \in Nat /\ DIRECT \in Nat
        BY Sizes
      <4>2. ~ (DIRECT <= call.v /\ call.v + call.s <= VMAP)
        BY <1>3, <2>1, <3>1, <4>1
      <4> QED BY <1>1, <4>2, RequestPlace
    <3>3. /\ call.v + call.s = vm + 2^order /\ vm <= call.v
          /\ Block + 2^order <= nxt
          /\ \A f \in Block .. Block + 2^order - 1 : f \notin DOMAIN L
      BY <1>2, <3>2 DEF PagesInv
    <3>4. Block = call.p - (call.v - vm)
      BY DEF Block
    <3>5. vm \in Nat /\ 2^order \in Nat /\ nxt \in Nat
      BY <1>2, PowerAssumption, Facts DEF TypeInv
    <3>6. Walk(mem', Path(w)) = call.p + (w - call.v)
      BY <2>1, SetEntryWalks DEF Sent
    <3>7. PICK b, x, n : b = Block /\ x = call.p + (w - call.v) /\ n = 2^order
      OBVIOUS
    <3>8. x \in b .. b + n - 1 /\ x < nxt
      BY <2>1, <3>1, <3>3, <3>4, <3>5, <3>7
    <3> QED BY <3>3, <3>6, <3>7, <3>8
  <2>2. CASE w \notin call.v .. call.v + Stride - 1
    <3>1. Walk(mem', Path(w)) = Walk(mem, Path(w))
      BY <2>2, SetEntryWalks DEF Sent
    <3> QED BY <1>2, <1>3, <3>1 DEF Outside
  <2> QED BY <2>1, <2>2
<1> QED BY <1>1, <1>3, WalkNext DEF Outside

LEMMA SetEntryDirect ==
    ASSUME IInv, NEW L, TreeInv(L), SetEntry
    PROVE  DirectInv'
<1>1. /\ lay' = lay /\ ph' = ph /\ e' = e /\ base' = base /\ size' = size /\ vm' = vm
      /\ From' = From /\ Upto' = Upto /\ call'.rest = call.rest
      /\ call'.v = call.v + Stride /\ call'.p = call.p + Stride
      /\ call'.s = call.s - Stride /\ call.s > 0 /\ call.i = call.l
  BY SetEntryCall DEF client, From, Upto
<1>2. TypeInv /\ DirectInv /\ CallInv(L)
  BY DEF IInv, TreeInv
<1>3. /\ Stride \in Nat /\ Stride > 0 /\ Stride <= call.s /\ call.v \in Nat /\ call.s \in Nat
      /\ call.p \in Nat /\ From \in Nat /\ Upto \in Nat
  BY <1>1, <1>2, StrideFacts, Collected
<1>4. ph \in {"direct", "descriptors", "clearing"}
  BY <1>1, RequestPlace
<1>5. ASSUME NEW w \in 0 .. VMAP - 1, IsMapped(w)', ph \in {"direct", "descriptors"}
      PROVE  w < call'.v
  <2>1. w \in Program /\ w \in Nat
    BY PagesAreProgram, Sizes
  <2>2. CASE w \in call.v .. call.v + Stride - 1
    BY <1>1, <1>3, <2>2
  <2>3. CASE w \notin call.v .. call.v + Stride - 1
    <3>1. Walk(mem', Path(w)) = Walk(mem, Path(w))
      BY <2>1, <2>3, SetEntryWalks DEF Sent
    <3>2. IsMapped(w)
      BY <1>1, <1>5, <3>1, WalkNext DEF IsMapped
    <3>3. w < call.v
      BY <1>1, <1>2, <1>5, <3>2 DEF DirectInv
    <3> QED BY <1>1, <1>3, <2>1, <3>3
  <2> QED BY <2>2, <2>3
<1>6. ph = "direct" =>
         /\ vm = VMAP
         /\ DIRECT + Upto <= VMAP
         /\ e <= Len(lay.map) => base + size <= lay.map[e].base
         /\ call'.s > 0 => call'.v + call'.s <= DIRECT + From
         /\ \A w \in 0 .. VMAP - 1 :
               IsMapped(w)' => w < IF call'.s > 0 THEN call'.v ELSE DIRECT + From
  <2>1. SUFFICES ASSUME ph = "direct"
        PROVE /\ vm = VMAP
              /\ DIRECT + Upto <= VMAP
              /\ e <= Len(lay.map) => base + size <= lay.map[e].base
              /\ call'.s > 0 => call'.v + call'.s <= DIRECT + From
              /\ \A w \in 0 .. VMAP - 1 :
                    IsMapped(w)' => w < IF call'.s > 0 THEN call'.v ELSE DIRECT + From
    OBVIOUS
  <2>2. /\ vm = VMAP /\ DIRECT + Upto <= VMAP /\ call.v + call.s <= DIRECT + From
        /\ e <= Len(lay.map) => base + size <= lay.map[e].base
    BY <1>1, <1>2, <2>1 DEF DirectInv
  <2>3. call'.v + call'.s <= DIRECT + From /\ call'.v <= DIRECT + From
    BY <1>1, <1>3, <2>2, Sizes
  <2>4. ASSUME NEW w \in 0 .. VMAP - 1, IsMapped(w)'
        PROVE  w < IF call'.s > 0 THEN call'.v ELSE DIRECT + From
    <3>1. w < call'.v /\ w \in Nat /\ call'.v \in Nat
      BY <1>1, <1>3, <1>5, <2>1, <2>4, Sizes
    <3> QED BY <1>3, <2>3, <3>1, Sizes
  <2> QED BY <2>2, <2>3, <2>4
<1>7. ph = "descriptors" /\ call'.s > 0 =>
         /\ vm = VMAP /\ call'.v + call'.s <= VMAP
         /\ \A w \in 0 .. VMAP - 1 : IsMapped(w)' => w < call'.v
  <2>1. call'.v + call'.s = call.v + call.s
    BY <1>1, <1>3
  <2>2. ph = "descriptors" => vm = VMAP /\ call.v + call.s <= VMAP
    BY <1>1, <1>2 DEF DirectInv
  <2> QED BY <1>5, <2>1, <2>2
<1>8. ph \in {"direct", "descriptors"} =>
         call'.v = DIRECT + call'.p /\ call.v = DIRECT + call.p
  <2>1. ph \in {"direct", "descriptors"} => call.v = DIRECT + call.p
    BY <1>1, <1>2 DEF DirectInv
  <2> QED BY <1>1, <1>3, <2>1, Sizes
<1>9. ASSUME NEW k \in 1 .. e - 1, NEW p \in Nat, InRegion(k, p), call.rest = 0
      PROVE  \/ Walk(mem, Path(DIRECT + p))' = p
             \/ ph = "direct" /\ p \in From .. Upto - 1
             \/ call'.s > 0 /\ DIRECT + p \in call'.v .. call'.v + call'.s - 1
  <2>1. /\ DIRECT + p \in Program /\ DIRECT + p \in DIRECT .. VMAP - 1
        /\ DIRECT \in Nat /\ VMAP \in Nat
    BY <1>2, <1>9, RegionPage, Sizes
  <2>2. CASE DIRECT + p \in call.v .. call.v + Stride - 1
    <3>1. ph # "clearing"
      <4>1. ph = "clearing" => VMAP <= call.v
        BY <1>1, RequestPlace
      <4> QED BY <1>3, <2>1, <2>2, <4>1, Sizes
    <3>2. call.v = DIRECT + call.p
      BY <1>4, <1>8, <3>1
    <3>3. Walk(mem', Path(DIRECT + p)) = call.p + ((DIRECT + p) - call.v)
      BY <2>1, <2>2, SetEntryWalks DEF Sent
    <3>4. Walk(mem', Path(DIRECT + p)) = p
      BY <1>3, <2>1, <3>2, <3>3
    <3> QED BY <1>1, <3>4, WalkNext
  <2>3. CASE DIRECT + p \notin call.v .. call.v + Stride - 1
    <3>1. Walk(mem', Path(DIRECT + p)) = Walk(mem, Path(DIRECT + p))
      BY <2>1, <2>3, SetEntryWalks DEF Sent
    <3>2. \/ Walk(mem, Path(DIRECT + p)) = p
          \/ ph = "direct" /\ p \in From .. Upto - 1
          \/ DIRECT + p \in call.v .. call.v + call.s - 1
      BY <1>2, <1>4, <1>9 DEF DirectInv
    <3>3. DIRECT + p \in call.v .. call.v + call.s - 1 =>
             call'.s > 0 /\ DIRECT + p \in call'.v .. call'.v + call'.s - 1
      BY <1>1, <1>3, <2>1, <2>3
    <3> QED BY <1>1, <3>1, <3>2, <3>3, WalkNext
  <2> QED BY <2>2, <2>3
<1>10. \A k, p : InRegion(k, p)' = InRegion(k, p)
  BY <1>1 DEF InRegion
<1>11. /\ ph \notin {"direct", "broken"} => e = Len(lay.map) + 1
       /\ ph \notin {"direct", "descriptors"} => call.rest = 0
  BY <1>2 DEF DirectInv
<1> QED BY <1>1, <1>6, <1>7, <1>8, <1>9, <1>10, <1>11 DEF DirectInv

LEMMA SetEntryPages ==
    ASSUME IInv, NEW L, TreeInv(L), SetEntry
    PROVE  PagesInv(L)'
<1>1. /\ lay' = lay /\ ph' = ph /\ vm' = vm /\ need' = need /\ order' = order /\ nxt' = nxt
      /\ call'.v = call.v + Stride /\ call'.p = call.p + Stride
      /\ call'.s = call.s - Stride /\ call.s > 0 /\ call.i = call.l
  BY SetEntryCall DEF client
<1>2. TypeInv /\ DirectInv /\ PagesInv(L) /\ Outside(mem, L, nxt)
  BY DEF IInv, TreeInv
<1>3. /\ Stride \in Nat /\ Stride > 0 /\ Stride <= call.s /\ call.v \in Nat /\ call.s \in Nat
      /\ call.p \in Nat /\ vm \in Nat /\ 2^order \in Nat
  BY <1>1, <1>2, StrideFacts, PowerAssumption DEF TypeInv
<1>4. /\ ph \in {"direct", "descriptors"} => call.v + call.s <= VMAP
      /\ ph = "clearing" => /\ VMAP <= call.v /\ call.v + call.s = vm + 2^order
                            /\ vm <= call.v /\ Vm = call.v
      /\ ph \in {"direct", "descriptors", "clearing"}
  BY <1>1, RequestPlace
<1>5. VMAP <= vm /\ (ph # "direct" => vm + need = VMAP + DescPages(lay))
  BY <1>2, <1>4 DEF PagesInv
<1>6. Block' = Block
  <2>1. Block = call.p - (call.v - vm)
    BY DEF Block
  <2>2. Block' = call'.p - (call'.v - vm)
    BY <1>1 DEF Block
  <2> QED BY <1>1, <1>3, <2>1, <2>2
<1>7. /\ ph = "clearing" => Vm' = call'.v
      /\ ph # "clearing" => Vm' = vm /\ Vm = vm
  <2>1. Vm' = IF ph = "clearing" THEN vm + 2^order - call'.s ELSE vm
    BY <1>1 DEF Vm
  <2> QED BY <1>1, <1>3, <1>4, <2>1 DEF Vm
<1>8. ASSUME NEW w \in VMAP .. WINDOW - 1, IsMapped(w)' PROVE w < Vm'
  <2>1. w \in Program /\ w >= VMAP /\ w \in Int /\ VMAP \in Nat
    BY PagesAreProgram, Sizes
  <2>2. CASE w \in call.v .. call.v + Stride - 1
    <3>1. ph = "clearing"
      BY <1>3, <1>4, <2>1, <2>2
    <3> QED BY <1>1, <1>3, <1>7, <2>2, <3>1
  <2>3. CASE w \notin call.v .. call.v + Stride - 1
    <3>1. Walk(mem', Path(w)) = Walk(mem, Path(w))
      BY <2>1, <2>3, SetEntryWalks DEF Sent
    <3>2. IsMapped(w)
      BY <1>1, <1>8, <3>1, WalkNext DEF IsMapped
    <3>3. w < Vm
      BY <1>2, <1>4, <3>2 DEF PagesInv
    <3>4. ph = "clearing" => Vm = call.v /\ Vm' = call.v + Stride
      BY <1>1, <1>4, <1>7
    <3> QED BY <1>3, <1>7, <2>1, <3>3, <3>4
  <2> QED BY <2>2, <2>3
<1>9. ASSUME NEW w \in VMAP .. vm - 1
      PROVE  /\ Walk(mem', Path(w)) \in lay.first .. nxt - 1
             /\ mem'[Walk(mem', Path(w))] = Zeroed
  <2>1. w \in Program /\ w >= VMAP /\ w \in Int /\ w < vm /\ VMAP \in Nat
    BY <1>2, <1>3, <1>4, DescriptorPage, Sizes
  <2>2. w \notin call.v .. call.v + Stride - 1
    BY <1>3, <1>4, <2>1
  <2>3. PICK f : f = Walk(mem, Path(w)) /\ f = Walk(mem', Path(w))
    BY <2>1, <2>2, SetEntryWalks DEF Sent
  <2>4. f \in lay.first .. nxt - 1 /\ mem[f] = Zeroed
    BY <1>2, <1>4, <2>3 DEF PagesInv
  <2>5. f \notin DOMAIN L
    BY <1>2, <2>1, <2>3 DEF Outside
  <2>6. mem'[f] = mem[f]
    BY <2>4, <2>5, Facts, SetEntryWalks
  <2> QED BY <2>3, <2>4, <2>6
<1>10. ASSUME ph = "clearing"
       PROVE  /\ call'.v + call'.s = vm + 2^order /\ vm <= call'.v /\ 2^order <= need
              /\ lay.first <= Block' /\ Block' + 2^order <= nxt
              /\ \A f \in Block' .. Block' + 2^order - 1 : f \notin DOMAIN L
              /\ \A w \in vm .. call'.v - 1 : Walk(mem, Path(w))' = Block' + (w - vm)
  <2>1. /\ call.v + call.s = vm + 2^order /\ vm <= call.v /\ 2^order <= need
        /\ lay.first <= Block /\ Block + 2^order <= nxt
        /\ \A f \in Block .. Block + 2^order - 1 : f \notin DOMAIN L
        /\ \A w \in vm .. call.v - 1 : Walk(mem, Path(w)) = Block + (w - vm)
    BY <1>2, <1>10 DEF PagesInv
  <2>2. ASSUME NEW w \in vm .. call'.v - 1 PROVE Walk(mem, Path(w))' = Block + (w - vm)
    <3>1. w \in vm .. vm + 2^order - 1 /\ w \in Int
      BY <1>1, <1>3, <2>1
    <3>2. w \in Program
      BY <1>2, <1>10, <3>1, BlockPage
    <3>3. CASE w \in call.v .. call.v + Stride - 1
      <4>1. Walk(mem', Path(w)) = call.p + (w - call.v)
        BY <3>2, <3>3, SetEntryWalks DEF Sent
      <4>2. call.p + (w - call.v) = Block + (w - vm)
        BY <1>3, <3>1 DEF Block
      <4> QED BY <1>1, <4>1, <4>2, WalkNext
    <3>4. CASE w \notin call.v .. call.v + Stride - 1
      <4>1. Walk(mem', Path(w)) = Walk(mem, Path(w))
        BY <3>2, <3>4, SetEntryWalks DEF Sent
      <4>2. w \in vm .. call.v - 1
        BY <1>1, <1>3, <3>1, <3>4
      <4> QED BY <1>1, <2>1, <4>1, <4>2, WalkNext
    <3> QED BY <3>3, <3>4
  <2>3. call'.v + call'.s = vm + 2^order /\ vm <= call'.v
    BY <1>1, <1>3, <2>1
  <2> QED BY <1>6, <2>1, <2>2, <2>3
<1> QED BY <1>1, <1>4, <1>5, <1>8, <1>9, <1>10, WalkNext DEF PagesInv

LEMMA SetEntryKeeps ==
    ASSUME IInv, NEW L, TreeInv(L), SetEntry
    PROVE  IInv'
<1>1. /\ UNCHANGED <<lay, nxt, client>>
      /\ call' \in CallType
      /\ call'.v = call.v + Stride /\ call'.s = call.s - Stride /\ call'.i = OUT
      /\ call.s > 0 /\ call.i = call.l
  BY SetEntryCall
<1>2. TypeInv /\ CallInv(L)
  BY DEF IInv, TreeInv
<1>3. /\ Stride \in Nat /\ Stride > 0 /\ Stride <= call.s /\ call.v \in Nat /\ call.s \in Nat
  BY <1>1, StrideFacts
<1>4. mem' \in Memory /\ Tree(mem', L, nxt)
  BY SetEntryWalks
<1>5. TypeInv'
  BY <1>1, <1>2, <1>4 DEF TypeInv, client, Memory
<1>6. Tree(mem, L, nxt)'
  BY <1>1, <1>4, TreeNext
<1>7. ph \in {"direct", "descriptors", "clearing"}
  BY <1>1, <1>2 DEF CallInv
<1>8. CallInv(L)'
  <2>1. ASSUME NEW w \in call'.v .. call'.v + call'.s - 1 PROVE w \in Program /\ ~ IsMapped(w)'
    <3>1. /\ w \in call.v .. call.v + call.s - 1
          /\ w \notin call.v .. call.v + Stride - 1
      BY <1>1, <1>3
    <3>2. w \in Program /\ ~ IsMapped(w)
      BY <1>1, <1>2, <3>1 DEF CallInv
    <3>3. Walk(mem', Path(w)) = Walk(mem, Path(w))
      BY <3>1, <3>2, SetEntryWalks DEF Sent
    <3> QED BY <1>1, <3>2, <3>3, WalkNext DEF IsMapped
  <2>2. ph' = ph
    BY <1>1 DEF client
  <2> QED BY <1>1, <1>7, <2>1, <2>2 DEF CallInv
<1>9. ph' # "broken"
  BY <1>1, <1>7 DEF client
<1> QED BY <1>5, <1>6, <1>8, <1>9, SetEntryOutside, SetEntryDirect, SetEntryPages, Together

(* Between requests memory does not change, except for the pages just cleared.  *)
LEMMA StillTree ==
    ASSUME IInv, NEW L, TreeInv(L), UNCHANGED <<lay, mem>>, nxt <= nxt', nxt' \in Nat
    PROVE  SameWalks /\ Tree(mem, L, nxt)' /\ Outside(mem, L, nxt)'
<1>1. SameWalks
  BY DEF SameWalks
<1>2. Tree(mem, L, nxt) /\ nxt \in Nat /\ lay.first \in Nat
  BY Facts
<1>3. DOMAIN L \subseteq lay.first .. nxt' - 1
  BY <1>2 DEF Tree
<1>4. Tree(mem, L, nxt')
  BY <1>2, <1>3 DEF Tree
<1>5. Newer(L, L)
  BY DEF Newer
<1> QED BY <1>1, <1>4, <1>5, TreeNext, SameOutside

LEMMA RequestType ==
    ASSUME NEW v \in Nat, NEW p \in Nat, NEW s \in Nat
    PROVE  /\ Request(v, p, s) \in CallType
           /\ Request(v, p, s).v = v /\ Request(v, p, s).p = p /\ Request(v, p, s).s = s
           /\ Request(v, p, s).i = OUT
           /\ Request(v, p, s).off = 0 /\ Request(v, p, s).rest = 0
<1>1. PICK x : x = Idle
  OBVIOUS
<1>2. x \in CallType /\ x.i = OUT /\ x.off = 0 /\ x.rest = 0
  BY <1>1 DEF Idle, OUT, CallType
<1>3. Request(v, p, s) = [x EXCEPT !.v = v, !.p = p, !.s = s]
  BY <1>1 DEF Request
<1> QED BY <1>2, <1>3 DEF CallType

(* The region collected becomes the request.                                    *)
LEMMA RegionFacts ==
    ASSUME TypeInv, DirectInv, ph = "direct", Returned
    PROVE  /\ Region \in CallType
           /\ Region.s \in Nat /\ From + Region.s <= Upto
           /\ Region.s > 0 => Region.v = DIRECT + From /\ Region.p = From /\ Region.i = OUT
           /\ Region.rest = 0 => From + Region.s = Upto
           /\ From \in Nat /\ Upto \in Nat /\ vm = VMAP /\ DIRECT + Upto <= VMAP
           /\ \A w \in 0 .. VMAP - 1 : IsMapped(w) => w < DIRECT + From
           /\ \A w \in DIRECT + From .. DIRECT + Upto - 1 :
                 w \in 0 .. VMAP - 1 /\ w \in Program /\ ~ IsMapped(w)
<1>0. call.s = 0 /\ call.rest = 0
  BY DEF Returned
<1>1. /\ call \in CallType /\ base \in Nat /\ size \in Nat
      /\ From \in Nat /\ Upto \in Nat /\ From <= Upto
  BY Collected DEF TypeInv
<1>2. /\ DIRECT + Upto <= VMAP /\ vm = VMAP
      /\ \A w \in 0 .. VMAP - 1 : IsMapped(w) => w < DIRECT + From
  BY <1>0 DEF DirectInv
<1>3. \A w \in DIRECT + From .. DIRECT + Upto - 1 :
         w \in 0 .. VMAP - 1 /\ ~ w < DIRECT + From
  BY <1>1, <1>2, Sizes
<1>4. \A w \in DIRECT + From .. DIRECT + Upto - 1 :
         w \in Program /\ ~ IsMapped(w)
  BY <1>2, <1>3, PagesAreProgram
<1>5. CASE size > 0
  <2>1. PICK a, b, n, o, q : /\ a = DIRECT + From /\ b = From /\ n = PageOf(size)
                             /\ o = base % PageBytes /\ q = size % PageBytes
    OBVIOUS
  <2>2. a \in Nat /\ b \in Nat /\ n \in Nat /\ o \in Nat /\ q \in Nat
    BY <1>1, <2>1, PageFacts, Sizes
  <2>3. From + n <= Upto /\ (q = 0 => From + n = Upto)
    BY <1>1, <2>1, PageFacts DEF From, Upto
  <2>4. Region = [Request(a, b, n) EXCEPT !.off = o, !.rest = q]
    BY <1>5, <2>1 DEF Region, From
  <2>5. PICK x : x = Request(a, b, n)
    OBVIOUS
  <2>6. x \in CallType /\ x.v = a /\ x.p = b /\ x.s = n /\ x.i = OUT
    BY <2>2, <2>5, RequestType
  <2>7. /\ Region \in CallType
        /\ Region.v = a /\ Region.p = b /\ Region.s = n /\ Region.i = OUT /\ Region.rest = q
    <3>1. Region = [x EXCEPT !.off = o, !.rest = q]
      BY <2>4, <2>5
    <3> QED BY <2>2, <2>6, <3>1 DEF CallType
  <2> QED BY <1>1, <1>2, <1>3, <1>4, <2>1, <2>2, <2>3, <2>7
<1>6. CASE ~ size > 0
  <2>1. Region = call /\ size = 0
    BY <1>1, <1>6 DEF Region
  <2>2. From = Upto
    BY <1>1, <2>1 DEF From, Upto
  <2> QED BY <1>0, <1>1, <1>2, <1>3, <1>4, <2>1, <2>2
<1> QED BY <1>5, <1>6

LEMMA RegionCall ==
    ASSUME TypeInv, DirectInv, NEW L, ph = "direct", Returned, call' = Region,
           lay' = lay, SameWalks, ph' \in {"direct", "descriptors"}
    PROVE  CallInv(L)'
<1>1. /\ call'.s > 0 => call'.v = DIRECT + From /\ call'.i = OUT
      /\ call'.s \in Nat /\ From + call'.s <= Upto /\ From \in Nat /\ Upto \in Nat
      /\ \A w \in DIRECT + From .. DIRECT + Upto - 1 : w \in Program /\ ~ IsMapped(w)
  BY RegionFacts
<1>3. ASSUME call'.s > 0
      PROVE  \A w \in call'.v .. call'.v + call'.s - 1 : w \in Program /\ ~ IsMapped(w)
  <2>1. \A w \in call'.v .. call'.v + call'.s - 1 : w \in DIRECT + From .. DIRECT + Upto - 1
    BY <1>1, <1>3, Sizes
  <2> QED BY <1>1, <2>1
<1>2. \A w \in Program : IsMapped(w)' = IsMapped(w)
  BY SameMapped
<1> QED BY <1>1, <1>2, <1>3 DEF CallInv

(* The next entry of the memory map.                                            *)
LEMMA NextEntry ==
    ASSUME TypeInv, e <= Len(lay.map)
    PROVE  /\ e \in Nat /\ e + 1 \in 1 .. Len(lay.map) + 1
           /\ lay.map[e].base \in Nat /\ lay.map[e].size \in Nat
           /\ DIRECT + PageOf(lay.map[e].base + lay.map[e].size) <= VMAP
           /\ e + 1 <= Len(lay.map) =>
                 lay.map[e].base + lay.map[e].size <= lay.map[e + 1].base
<1>1. e \in 1 .. Len(lay.map) + 1 /\ Len(lay.map) \in Nat /\ DOMAIN lay.map = 1 .. Len(lay.map)
  BY LayoutFacts DEF TypeInv
<1>2. e \in DOMAIN lay.map /\ e \in Nat /\ e + 1 \in 1 .. Len(lay.map) + 1
  BY <1>1
<1>3. e + 1 <= Len(lay.map) => e + 1 \in DOMAIN lay.map /\ e < e + 1
  BY <1>1, <1>2
<1>4. \A j, k \in DOMAIN lay.map : j < k => lay.map[j].base + lay.map[j].size <= lay.map[k].base
  BY LayoutFacts DEF Sorted
<1> QED BY <1>2, <1>3, <1>4, LayoutFacts

(* Where the regions that build_direct_mapping has been through are.            *)
LEMMA RegionsSoFar ==
    ASSUME TypeInv, DirectInv, ph = "direct", Returned,
           NEW k \in 1 .. e - 1, NEW p \in Nat, InRegion(k, p)
    PROVE  Walk(mem, Path(DIRECT + p)) = p \/ p \in From .. Upto - 1
<1>1. call.s = 0 /\ call.rest = 0
  BY DEF Returned
<1> QED BY <1>1 DEF DirectInv

LEMMA JoinKeeps ==
    ASSUME IInv, NEW L, TreeInv(L), Join
    PROVE  IInv' /\ SameWalks
<1>1. /\ UNCHANGED <<lay, mem, nxt, call, ph, base, vm, need, order>>
      /\ ph = "direct" /\ Returned /\ call.s = 0 /\ e <= Len(lay.map)
      /\ base + size = lay.map[e].base
      /\ size' = size + lay.map[e].size /\ e' = e + 1
  BY DEF Join, Returned
<1>2. TypeInv /\ DirectInv /\ PagesInv(L)
  BY DEF IInv, TreeInv
<1>3. SameWalks /\ Tree(mem, L, nxt)' /\ Outside(mem, L, nxt)'
  BY <1>1, Facts, StillTree
<1>4. /\ e \in Nat /\ e + 1 \in 1 .. Len(lay.map) + 1
      /\ lay.map[e].base \in Nat /\ lay.map[e].size \in Nat
      /\ DIRECT + PageOf(lay.map[e].base + lay.map[e].size) <= VMAP
      /\ e + 1 <= Len(lay.map) =>
            lay.map[e].base + lay.map[e].size <= lay.map[e + 1].base
  BY <1>1, <1>2, NextEntry
<1>5. /\ base \in Nat /\ size \in Nat /\ vm = VMAP
      /\ \A w \in 0 .. VMAP - 1 : IsMapped(w) => w < DIRECT + From
  BY <1>1, <1>2, RegionFacts DEF TypeInv
<1>11. PICK n \in Nat : n = lay.map[e].size
  BY <1>4
<1>12. size' = size + n /\ size' \in Nat /\ size <= size' /\ base + size = lay.map[e].base
  <2>1. size' = size + n /\ base + size = lay.map[e].base
    BY <1>1, <1>11
  <2>2. size \in Nat /\ n \in Nat
    BY <1>5, <1>11
  <2> QED BY ONLY <2>1, <2>2
<1>6. TypeInv'
  <2>1. e' \in 1 .. Len(lay.map) + 1
    BY <1>1, <1>4
  <2>2. UNCHANGED <<lay, mem, nxt, call, ph, base, vm, need, order>>
    BY <1>1
  <2> QED BY <1>2, <1>12, <2>1, <2>2 DEF TypeInv
<1>7. DirectInv'
  <2>1. base + size' = lay.map[e].base + lay.map[e].size
    <3>1. PICK b : b = lay.map[e].base
      OBVIOUS
    <3>2. base \in Nat /\ size \in Nat
      BY <1>5
    <3>3. base + size' = b + n
      BY ONLY <1>11, <1>12, <3>1, <3>2
    <3> QED BY <1>11, <3>1, <3>3
  <2>6. /\ From' = From /\ Upto' = PageOf(lay.map[e].base + lay.map[e].size)
        /\ DIRECT + Upto' <= VMAP
    BY <1>1, <1>4, <2>1 DEF From, Upto
  <2>7. /\ From \in Nat /\ Upto \in Nat /\ Upto' \in Nat
        /\ From <= Upto /\ Upto <= Upto' /\ Upto = PageOf(lay.map[e].base)
    <3>1. base + size \in Nat /\ base + size' \in Nat /\ base + size <= base + size'
      BY <1>5, <1>12
    <3>2. Upto' = PageOf(base + size')
      BY <2>1, <2>6
    <3> QED BY <1>1, <1>2, <3>1, <3>2, Collected, PageFacts DEF Upto
  <2>2. \A w \in 0 .. VMAP - 1 : IsMapped(w)' => w < DIRECT + From
    <3>1. \A w \in 0 .. VMAP - 1 : IsMapped(w)' = IsMapped(w)
      BY <1>1, <1>3, PagesAreProgram, SameMapped
    <3> QED BY <1>5, <3>1
  <2>3. ASSUME NEW k \in 1 .. e' - 1, NEW p \in Nat, InRegion(k, p)
        PROVE  Walk(mem, Path(DIRECT + p))' = p \/ p \in From .. Upto' - 1
    <3>1. CASE k = e
      <4>1. p \in Upto .. Upto' - 1
        BY <2>3, <2>6, <2>7, <3>1 DEF InRegion
      <4>2. PICK a, b, c : a = From /\ b = Upto /\ c = Upto'
        OBVIOUS
      <4>3. a \in Nat /\ b \in Nat /\ c \in Nat /\ a <= b /\ p \in b .. c - 1
        BY <2>7, <4>1, <4>2
      <4>4. p \in a .. c - 1
        BY ONLY <4>3
      <4> QED BY <4>2, <4>4
    <3>2. CASE k # e
      <4>1. k \in 1 .. e - 1
        BY <1>1, <1>4, <3>2
      <4>2. Walk(mem, Path(DIRECT + p)) = p \/ p \in From .. Upto - 1
        BY <1>1, <1>2, <2>3, <4>1, RegionsSoFar
      <4>3. p \in From .. Upto - 1 => p \in From .. Upto' - 1
        <5>1. PICK a, b, c : a = From /\ b = Upto /\ c = Upto'
          OBVIOUS
        <5>2. a \in Nat /\ b \in Nat /\ c \in Nat /\ b <= c
          BY <2>7, <5>1
        <5>3. p \in a .. b - 1 => p \in a .. c - 1
          BY ONLY <5>2
        <5> QED BY <5>1, <5>3
      <4>4. Walk(mem, Path(DIRECT + p))' = Walk(mem', Path(DIRECT + p)) /\ mem' = mem
        BY <1>1, WalkNext
      <4> QED BY <4>2, <4>3, <4>4
    <3> QED BY <3>1, <3>2
  <2>4. \A k, p : InRegion(k, p)' = InRegion(k, p)
    BY <1>1 DEF InRegion
  <2>5. call'.s = 0 /\ ~ call'.s > 0 /\ ph' = "direct"
    BY <1>1
  <2> QED BY <1>1, <1>4, <1>5, <2>1, <2>2, <2>3, <2>4, <2>5, <2>6 DEF DirectInv
<1>8. CallInv(L)'
  BY <1>1 DEF CallInv
<1>9. PagesInv(L)'
  <2>1. \A w \in VMAP .. WINDOW - 1 : IsMapped(w)' = IsMapped(w)
    BY <1>1, <1>3, PagesAreProgram, SameMapped
  <2>2. /\ VMAP <= vm
        /\ \A w \in VMAP .. WINDOW - 1 : IsMapped(w) => w < Vm
    BY <1>1, <1>2 DEF PagesInv
  <2>3. Vm' = Vm
    BY <1>1 DEF Vm
  <2>4. \A w \in VMAP .. vm - 1 : FALSE
    BY <1>5, Sizes
  <2> QED BY <1>1, <2>1, <2>2, <2>3, <2>4 DEF PagesInv
<1>10. ph' # "broken"
  BY <1>1
<1> QED BY <1>3, <1>6, <1>7, <1>8, <1>9, <1>10, Together

LEMMA BeginKeeps ==
    ASSUME IInv, NEW L, TreeInv(L), Begin
    PROVE  IInv' /\ SameWalks
<1>1. /\ UNCHANGED <<lay, mem, nxt, ph, vm, need, order>>
      /\ ph = "direct" /\ Returned /\ call.s = 0 /\ e <= Len(lay.map)
      /\ base + size # lay.map[e].base
      /\ call' = Region
      /\ base' = lay.map[e].base /\ size' = lay.map[e].size /\ e' = e + 1
  BY DEF Begin, Returned
<1>2. TypeInv /\ DirectInv /\ PagesInv(L)
  BY DEF IInv, TreeInv
<1>3. SameWalks /\ Tree(mem, L, nxt)' /\ Outside(mem, L, nxt)'
  BY <1>1, Facts, StillTree
<1>4. /\ e \in Nat /\ e + 1 \in 1 .. Len(lay.map) + 1
      /\ lay.map[e].base \in Nat /\ lay.map[e].size \in Nat
      /\ DIRECT + PageOf(lay.map[e].base + lay.map[e].size) <= VMAP
      /\ e + 1 <= Len(lay.map) =>
            lay.map[e].base + lay.map[e].size <= lay.map[e + 1].base
  BY <1>1, <1>2, NextEntry
<1>5. /\ call' \in CallType
      /\ call'.s \in Nat /\ From + call'.s <= Upto
      /\ call'.s > 0 => call'.v = DIRECT + From /\ call'.p = From
      /\ call'.rest = 0 => From + call'.s = Upto
      /\ From \in Nat /\ Upto \in Nat /\ vm = VMAP
      /\ base \in Nat /\ size \in Nat
      /\ \A w \in 0 .. VMAP - 1 : IsMapped(w) => w < DIRECT + From
  BY <1>1, <1>2, RegionFacts DEF TypeInv
<1>6. TypeInv'
  BY <1>1, <1>2, <1>4, <1>5 DEF TypeInv
<1>7. DirectInv'
  <2>1. /\ From' = PageOf(lay.map[e].base) /\ Upto <= From' /\ From' \in Nat
        /\ Upto' = PageOf(lay.map[e].base + lay.map[e].size)
    <3>1. base + size <= base'
      BY <1>1, <1>2 DEF DirectInv
    <3>2. base + size \in Nat /\ base' \in Nat
      BY <1>1, <1>4, <1>5
    <3> QED BY <1>1, <3>1, <3>2, PageFacts DEF From, Upto
  <2>2. \A w \in 0 .. VMAP - 1 : IsMapped(w)' => w < DIRECT + From
    <3>1. \A w \in 0 .. VMAP - 1 : IsMapped(w)' = IsMapped(w)
      BY <1>1, <1>3, PagesAreProgram, SameMapped
    <3> QED BY <1>5, <3>1
  <2>3. ASSUME NEW k \in 1 .. e' - 1, NEW p \in Nat, InRegion(k, p), call'.rest = 0
        PROVE  \/ Walk(mem, Path(DIRECT + p))' = p
               \/ p \in From' .. Upto' - 1
               \/ call'.s > 0 /\ DIRECT + p \in call'.v .. call'.v + call'.s - 1
    <3>1. CASE k = e
      BY <2>1, <2>3, <3>1 DEF InRegion
    <3>2. CASE k # e
      <4>1. k \in 1 .. e - 1
        BY <1>1, <1>4, <3>2
      <4>2. Walk(mem, Path(DIRECT + p)) = p \/ p \in From .. Upto - 1
        BY <1>1, <1>2, <2>3, <4>1, RegionsSoFar
      <4>3. p \in From .. Upto - 1 =>
               call'.s > 0 /\ DIRECT + p \in call'.v .. call'.v + call'.s - 1
        BY <1>5, <2>3, Sizes
      <4>4. Walk(mem, Path(DIRECT + p))' = Walk(mem', Path(DIRECT + p)) /\ mem' = mem
        BY <1>1, WalkNext
      <4> QED BY <4>2, <4>3, <4>4
    <3> QED BY <3>1, <3>2
  <2>4. \A k, p : InRegion(k, p)' = InRegion(k, p)
    BY <1>1 DEF InRegion
  <2>8. /\ DIRECT + From + call'.s <= DIRECT + From' /\ DIRECT + From <= DIRECT + From'
        /\ DIRECT + From \in Nat /\ DIRECT + From' \in Nat
    <3>1. PICK a, b, c, d, f : a = From /\ b = From' /\ c = call'.s /\ d = DIRECT /\ f = Upto
      OBVIOUS
    <3>2. /\ a \in Nat /\ b \in Nat /\ c \in Nat /\ d \in Nat /\ f \in Nat
          /\ a + c <= f /\ f <= b
      BY <1>5, <2>1, <3>1, Sizes
    <3>3. d + a + c <= d + b /\ d + a <= d + b /\ d + a \in Nat /\ d + b \in Nat
      BY ONLY <3>2
    <3> QED BY <3>1, <3>3
  <2>5. \A w \in 0 .. VMAP - 1 :
            IsMapped(w)' => w < IF call'.s > 0 THEN call'.v ELSE DIRECT + From'
    <3>1. ASSUME NEW w \in 0 .. VMAP - 1, IsMapped(w)'
          PROVE  w < IF call'.s > 0 THEN call'.v ELSE DIRECT + From'
      <4>1. w < DIRECT + From /\ w \in Nat
        BY <2>2, <3>1, Sizes
      <4> QED BY <1>5, <2>8, <4>1
    <3> QED BY <3>1
  <2>6. call'.s > 0 => call'.v + call'.s <= DIRECT + From' /\ call'.v = DIRECT + call'.p
    BY <1>5, <2>8
  <2>7. /\ DIRECT + Upto' <= VMAP
        /\ e' <= Len(lay.map) => base' + size' <= lay.map[e'].base
    BY <1>1, <1>4, <2>1
  <2> QED BY <1>1, <1>5, <2>3, <2>4, <2>5, <2>6, <2>7 DEF DirectInv
<1>8. CallInv(L)'
  BY <1>1, <1>2, <1>3, RegionCall
<1>9. PagesInv(L)'
  <2>1. \A w \in VMAP .. WINDOW - 1 : IsMapped(w)' = IsMapped(w)
    BY <1>1, <1>3, PagesAreProgram, SameMapped
  <2>2. /\ VMAP <= vm
        /\ \A w \in VMAP .. WINDOW - 1 : IsMapped(w) => w < Vm
    BY <1>1, <1>2 DEF PagesInv
  <2>3. Vm' = Vm
    BY <1>1 DEF Vm
  <2>4. \A w \in VMAP .. vm - 1 : FALSE
    BY <1>5, Sizes
  <2> QED BY <1>1, <2>1, <2>2, <2>3, <2>4 DEF PagesInv
<1>10. ph' # "broken"
  BY <1>1
<1> QED BY <1>3, <1>6, <1>7, <1>8, <1>9, <1>10, Together

LEMMA LastRegionKeeps ==
    ASSUME IInv, NEW L, TreeInv(L), LastRegion
    PROVE  IInv' /\ SameWalks
<1>1. /\ UNCHANGED <<lay, mem, nxt, e, base, size, vm, order>>
      /\ ph = "direct" /\ Returned /\ call.s = 0 /\ e > Len(lay.map)
      /\ call' = Region /\ ph' = "descriptors" /\ need' = DescPages(lay)
  BY DEF LastRegion, Returned
<1>2. TypeInv /\ DirectInv /\ PagesInv(L)
  BY DEF IInv, TreeInv
<1>3. SameWalks /\ Tree(mem, L, nxt)' /\ Outside(mem, L, nxt)'
  BY <1>1, Facts, StillTree
<1>4. e \in 1 .. Len(lay.map) + 1 /\ Len(lay.map) \in Nat /\ DescPages(lay) \in Nat
  BY <1>2, LayoutFacts, MemoryEnds DEF TypeInv
<1>5. /\ call' \in CallType
      /\ call'.s \in Nat /\ From + call'.s <= Upto
      /\ call'.s > 0 => call'.v = DIRECT + From /\ call'.p = From
      /\ call'.rest = 0 => From + call'.s = Upto
      /\ From \in Nat /\ Upto \in Nat /\ vm = VMAP /\ DIRECT + Upto <= VMAP
      /\ \A w \in 0 .. VMAP - 1 : IsMapped(w) => w < DIRECT + From
  BY <1>1, <1>2, RegionFacts
<1>6. TypeInv'
  BY <1>1, <1>2, <1>4, <1>5 DEF TypeInv, Phases
<1>7. DirectInv'
  <2>1. e = Len(lay.map) + 1
    BY <1>1, <1>4
  <2>2. \A w \in 0 .. VMAP - 1 : IsMapped(w)' => w < DIRECT + From
    <3>1. \A w \in 0 .. VMAP - 1 : IsMapped(w)' = IsMapped(w)
      BY <1>1, <1>3, PagesAreProgram, SameMapped
    <3> QED BY <1>5, <3>1
  <2>3. ASSUME NEW k \in 1 .. e - 1, NEW p \in Nat, InRegion(k, p), call'.rest = 0
        PROVE  \/ Walk(mem, Path(DIRECT + p))' = p
               \/ call'.s > 0 /\ DIRECT + p \in call'.v .. call'.v + call'.s - 1
    <3>1. Walk(mem, Path(DIRECT + p)) = p \/ p \in From .. Upto - 1
      BY <1>1, <1>2, <2>3, RegionsSoFar
    <3>2. p \in From .. Upto - 1 =>
             call'.s > 0 /\ DIRECT + p \in call'.v .. call'.v + call'.s - 1
      BY <1>5, <2>3, Sizes
    <3>3. Walk(mem, Path(DIRECT + p))' = Walk(mem', Path(DIRECT + p)) /\ mem' = mem
      BY <1>1, WalkNext
    <3> QED BY <3>1, <3>2, <3>3
  <2>4. \A k, p : InRegion(k, p)' = InRegion(k, p)
    BY <1>1 DEF InRegion
  <2>5. call'.s > 0 => call'.v + call'.s <= VMAP /\ call'.v = DIRECT + call'.p
                        /\ call'.v = DIRECT + From
    BY <1>5, Sizes
  <2> QED BY <1>1, <1>5, <2>1, <2>2, <2>3, <2>4, <2>5 DEF DirectInv
<1>8. CallInv(L)'
  BY <1>1, <1>2, <1>3, RegionCall
<1>9. PagesInv(L)'
  <2>1. \A w \in VMAP .. WINDOW - 1 : IsMapped(w)' = IsMapped(w)
    BY <1>1, <1>3, PagesAreProgram, SameMapped
  <2>2. /\ VMAP <= vm
        /\ \A w \in VMAP .. WINDOW - 1 : IsMapped(w) => w < Vm
    BY <1>1, <1>2 DEF PagesInv
  <2>3. Vm' = Vm
    BY <1>1 DEF Vm
  <2>4. \A w \in VMAP .. vm - 1 : FALSE
    BY <1>5, Sizes
  <2>5. vm + need' = VMAP + DescPages(lay)
    BY <1>1, <1>5
  <2> QED BY <1>1, <2>1, <2>2, <2>3, <2>4, <2>5 DEF PagesInv
<1>10. ph' # "broken"
  BY <1>1
<1> QED BY <1>3, <1>6, <1>7, <1>8, <1>9, <1>10, Together

LEMMA MappedKeeps ==
    ASSUME IInv, NEW L, TreeInv(L), Mapped
    PROVE  IInv' /\ SameWalks
<1>1. /\ UNCHANGED <<lay, mem, nxt, call, e, base, size, vm, need, order>>
      /\ ph = "descriptors" /\ call.s = 0 /\ call.rest = 0 /\ need = 0 /\ ph' = "done"
  BY DEF Mapped, Returned
<1>2. TypeInv /\ DirectInv /\ PagesInv(L) /\ Outside(mem, L, nxt)
  BY DEF IInv, TreeInv
<1>3. SameWalks /\ Tree(mem, L, nxt)' /\ Outside(mem, L, nxt)'
  BY <1>1, Facts, StillTree
<1>4. TypeInv'
  BY <1>1, <1>2 DEF TypeInv, Phases
<1>5. DirectInv'
  <2>1. /\ e = Len(lay.map) + 1
        /\ \A k \in 1 .. e - 1 : \A p \in Nat : InRegion(k, p) => Walk(mem, Path(DIRECT + p)) = p
    BY <1>1, <1>2 DEF DirectInv
  <2>2. \A k, p : InRegion(k, p)' = InRegion(k, p)
    BY <1>1 DEF InRegion
  <2>3. \A p : Walk(mem, Path(DIRECT + p))' = Walk(mem, Path(DIRECT + p))
    <3>1. ASSUME NEW p PROVE Walk(mem, Path(DIRECT + p))' = Walk(mem, Path(DIRECT + p))
      BY <1>1, WalkNext
    <3> QED BY <3>1
  <2> QED BY <1>1, <2>1, <2>2, <2>3 DEF DirectInv
<1>6. CallInv(L)'
  BY <1>1 DEF CallInv
<1>7. PagesInv(L)'
  <2>1. \A w \in VMAP .. WINDOW - 1 : IsMapped(w)' = IsMapped(w)
    BY <1>1, <1>3, PagesAreProgram, SameMapped
  <2>2. /\ VMAP <= vm /\ vm + need = VMAP + DescPages(lay)
        /\ \A w \in VMAP .. WINDOW - 1 : IsMapped(w) => w < Vm
        /\ \A w \in VMAP .. vm - 1 : /\ Walk(mem, Path(w)) \in lay.first .. nxt - 1
                                     /\ mem[Walk(mem, Path(w))] = Zeroed
    BY <1>1, <1>2 DEF PagesInv
  <2>3. Vm' = Vm
    BY <1>1 DEF Vm
  <2>4. \A w : Walk(mem, Path(w))' = Walk(mem, Path(w))
    <3>1. ASSUME NEW w PROVE Walk(mem, Path(w))' = Walk(mem, Path(w))
      BY <1>1, WalkNext
    <3> QED BY <3>1
  <2> QED BY <1>1, <2>1, <2>2, <2>3, <2>4 DEF PagesInv
<1>8. ph' # "broken"
  BY <1>1
<1> QED BY <1>3, <1>4, <1>5, <1>6, <1>7, <1>8, Together

(* The inner loop of build_page_map comes down to an order that fits.           *)
LEMMA NextOrderFits ==
    ASSUME TypeInv, need # 0
    PROVE  NextOrder \in 0 .. order /\ NextOrder \in 0 .. MAX_ORDER - 1 /\ 2^NextOrder <= need
<1>1. order \in 0 .. MAX_ORDER - 1 /\ need \in Nat \ {0} /\ MAX_ORDER \in Nat
  BY SizeAssumption DEF TypeInv
<1> DEFINE S == {o \in 0 .. order : o = 0 \/ Fits(o)}
           Is(o) == (o = 0 \/ Fits(o)) /\ \A q \in o + 1 .. order : ~ Fits(q)
<1>2. S \in SUBSET Int /\ IsFiniteSet(S) /\ 0 \in S
  <2>1. 0 \in Int /\ order \in Int
    BY <1>1
  <2>2. IsFiniteSet(0 .. order)
    BY <2>1, FS_Interval
  <2> QED BY <1>1, <2>2, FS_Subset
<1>3. PICK m \in S : \A o \in S : o <= m
  <2> HIDE DEF S
  <2>1. S # {}
    BY <1>2
  <2> QED BY <1>2, <2>1, GreatestElement
<1>4. Is(m)
  <2>1. m \in 0 .. order /\ (m = 0 \/ Fits(m))
    OBVIOUS
  <2>2. ASSUME NEW q \in m + 1 .. order, Fits(q) PROVE FALSE
    <3>1. q \in S /\ m < q
      BY <1>1, <2>1, <2>2
    <3> QED BY <1>1, <1>3, <2>1, <3>1
  <2> QED BY <2>1, <2>2
<1>5. m \in 0 .. order
  OBVIOUS
<1>6. NextOrder = CHOOSE o \in 0 .. order : Is(o)
  BY DEF NextOrder
<1> HIDE DEF S, Is
<1>7. NextOrder \in 0 .. order /\ Is(NextOrder)
  BY <1>4, <1>5, <1>6
<1>8. NextOrder = 0 \/ 2^NextOrder <= need
  BY <1>7 DEF Is, Fits
<1>9. NextOrder = 0 => 2^NextOrder <= need
  BY <1>1, PowerAssumption
<1>10. NextOrder \in 0 .. MAX_ORDER - 1
  BY <1>1, <1>7
<1> QED BY <1>7, <1>8, <1>9, <1>10

LEMMA ChunkKeeps ==
    ASSUME IInv, NEW L, TreeInv(L), Chunk
    PROVE  IInv' /\ SameWalks
<1>0. TypeInv /\ DirectInv /\ PagesInv(L) /\ Outside(mem, L, nxt)
  BY DEF IInv, TreeInv
<1>1. PICK o, g, n : o = NextOrder /\ g = Get(nxt, NextOrder) /\ n = 2^NextOrder
  OBVIOUS
<1>2. /\ UNCHANGED <<lay, mem, e, base, size, vm, need>>
      /\ ph = "descriptors" /\ call.s = 0 /\ call.rest = 0 /\ need # 0
      /\ order' = o /\ nxt' = Taken(nxt, NextOrder)
      /\ g = 0 => ph' = "broken" /\ call' = call
      /\ g # 0 => ph' = "clearing" /\ call' = Request(vm, g, n)
  BY <1>1 DEF Chunk, Returned
<1>3. o \in 0 .. MAX_ORDER - 1 /\ n <= need /\ NextOrder \in 0 .. MAX_ORDER - 1
  BY <1>0, <1>1, <1>2, NextOrderFits
<1>4. /\ n \in Nat \ {0} /\ nxt \in Nat \ {0}
      /\ nxt' \in lay.first .. lay.limit /\ nxt <= nxt'
      /\ g # 0 => g = nxt /\ nxt' = nxt + n
  BY <1>0, <1>1, <1>2, <1>3, GetFacts
<1>5. nxt' \in Nat
  BY <1>4, Facts
<1>6. SameWalks /\ Tree(mem, L, nxt)' /\ Outside(mem, L, nxt)'
  BY <1>2, <1>4, <1>5, StillTree
<1>7. /\ vm \in Nat /\ need \in Nat /\ VMAP \in Nat /\ WINDOW \in Nat
      /\ DescPages(lay) \in Nat /\ VMAP + DescPages(lay) <= WINDOW
  BY <1>0, MemoryEnds, Sizes DEF TypeInv
<1>8. /\ e = Len(lay.map) + 1
      /\ \A k \in 1 .. e - 1 : \A p \in Nat : InRegion(k, p) => Walk(mem, Path(DIRECT + p)) = p
  BY <1>0, <1>2 DEF DirectInv
<1>9. /\ VMAP <= vm /\ vm + need = VMAP + DescPages(lay)
      /\ \A w \in VMAP .. WINDOW - 1 : IsMapped(w) => w < vm
      /\ \A w \in VMAP .. vm - 1 : /\ Walk(mem, Path(w)) \in lay.first .. nxt - 1
                                   /\ mem[Walk(mem, Path(w))] = Zeroed
  <2>1. Vm = vm
    BY <1>2 DEF Vm
  <2> QED BY <1>0, <1>2, <2>1 DEF PagesInv
<1>10. call' \in CallType
  <2>1. CASE g = 0
    BY <1>0, <1>2, <2>1 DEF TypeInv
  <2>2. CASE g # 0
    <3>1. vm \in Nat /\ g \in Nat /\ n \in Nat
      BY <1>4, <1>7, <2>2
    <3> QED BY <1>2, <2>2, <3>1, RequestType DEF CallType
  <2> QED BY <2>1, <2>2
<1>11. TypeInv'
  BY <1>0, <1>2, <1>3, <1>4, <1>10 DEF TypeInv, Phases
<1>12. CASE g = 0
  <2>1. ph' = "broken" /\ call'.s = 0 /\ call'.rest = 0
    BY <1>2, <1>12
  <2>2. DirectInv'
    BY <2>1 DEF DirectInv
  <2> QED BY <1>6, <1>11, <2>1, <2>2, Together
<1>13. CASE g # 0
  <2>1. /\ call'.v = vm /\ call'.p = nxt /\ call'.s = n /\ call'.i = OUT
        /\ ph' = "clearing" /\ call'.rest = 0
    <3>1. vm \in Nat /\ g \in Nat /\ n \in Nat
      BY <1>4, <1>7, <1>13
    <3> QED BY <1>2, <1>4, <1>13, <3>1, RequestType
  <2>2. \A k, p : InRegion(k, p)' = InRegion(k, p)
    BY <1>2 DEF InRegion
  <2>3. \A v : Walk(mem, Path(v))' = Walk(mem, Path(v))
    <3>1. ASSUME NEW v PROVE Walk(mem, Path(v))' = Walk(mem, Path(v))
      BY <1>2, WalkNext
    <3> QED BY <3>1
  <2>4. DirectInv'
    BY <1>2, <1>8, <2>1, <2>2, <2>3 DEF DirectInv
  <2>5. CallInv(L)'
    <3>1. ASSUME NEW w \in vm .. vm + n - 1 PROVE w \in Program /\ ~ IsMapped(w)'
      <4>1. w \in VMAP .. WINDOW - 1 /\ ~ w < vm
        BY <1>3, <1>4, <1>7, <1>9
      <4>2. w \in Program /\ ~ IsMapped(w)
        BY <1>9, <4>1, PagesAreProgram
      <4> QED BY <1>2, <1>6, <4>2, SameMapped
    <3> QED BY <2>1, <3>1 DEF CallInv
  <2>6. PagesInv(L)'
    <3>1. \A w \in VMAP .. WINDOW - 1 : IsMapped(w)' = IsMapped(w)
      BY <1>2, <1>6, PagesAreProgram, SameMapped
    <3>2. 2^order' = n
      BY <1>1, <1>2
    <3>3. Vm' = vm
      <4>1. Vm' = vm + 2^order' - call'.s
        BY <1>2, <2>1 DEF Vm
      <4> QED BY <1>4, <1>7, <2>1, <3>2, <4>1
    <3>4. Block' = nxt
      <4>1. Block' = call'.p - (call'.v - vm)
        BY <1>2 DEF Block
      <4> QED BY <1>4, <1>7, <2>1, <4>1
    <3>5. /\ lay.first <= nxt /\ nxt + n <= nxt'
          /\ \A f \in nxt .. nxt + n - 1 : f \notin DOMAIN L
      <4>1. \A f \in DOMAIN L : f \in Nat /\ f < nxt
        BY Facts
      <4>2. \A f \in nxt .. nxt + n - 1 : f \notin DOMAIN L
        BY <1>4, <4>1
      <4> QED BY <1>4, <1>13, <4>2, Facts
    <3>6. \A w \in VMAP .. vm - 1 : /\ Walk(mem, Path(w)) \in lay.first .. nxt' - 1
                                    /\ mem[Walk(mem, Path(w))] = Zeroed
      <4>1. PICK a, b, c : a = lay.first /\ b = nxt /\ c = nxt'
        OBVIOUS
      <4>2. a \in Nat /\ b \in Nat /\ c \in Nat /\ b <= c
        BY <1>4, <1>5, <4>1, Facts
      <4>3. \A f \in a .. b - 1 : f \in a .. c - 1
        BY ONLY <4>2
      <4> QED BY <1>9, <4>1, <4>3
    <3>7. \A w \in vm .. vm - 1 : FALSE
      BY <1>7
    <3>8. call'.v + call'.s = vm + 2^order' /\ 2^order' <= need
      BY <1>3, <2>1, <3>2
    <3> QED BY <1>2, <1>7, <1>9, <2>1, <2>3, <3>1, <3>2, <3>3, <3>4, <3>5, <3>6, <3>7, <3>8
            DEF PagesInv
  <2>7. ph' # "broken"
    BY <2>1
  <2> QED BY <1>6, <1>11, <2>4, <2>5, <2>6, <2>7, Together
<1> QED BY <1>12, <1>13

LEMMA ClearChunkKeeps ==
    ASSUME IInv, NEW L, TreeInv(L), ClearChunk
    PROVE  IInv' /\ SameWalks
<1>0. TypeInv /\ DirectInv /\ PagesInv(L) /\ Outside(mem, L, nxt) /\ Tree(mem, L, nxt)
  BY DEF IInv, TreeInv
<1>1. PICK n, b : n = 2^order /\ b = Block
  OBVIOUS
<1>2. /\ UNCHANGED <<lay, nxt, call, e, base, size, order>>
      /\ ph = "clearing" /\ call.s = 0 /\ call.rest = 0
      /\ mem' = [f \in Frames |->
                    IF \E v \in vm .. vm + n - 1 : Walk(mem, Path(v)) = f
                    THEN Zeroed ELSE mem[f]]
      /\ ph' = "descriptors" /\ vm' = vm + n /\ need' = need - n
  BY <1>1 DEF ClearChunk, Returned
<1>3. /\ call.v + call.s = vm + n /\ vm <= call.v /\ n <= need
      /\ lay.first <= b /\ b + n <= nxt
      /\ \A f \in b .. b + n - 1 : f \notin DOMAIN L
      /\ \A w \in vm .. call.v - 1 : Walk(mem, Path(w)) = b + (w - vm)
      /\ VMAP <= vm /\ vm + need = VMAP + DescPages(lay)
      /\ \A w \in VMAP .. WINDOW - 1 : IsMapped(w) => w < Vm
      /\ \A w \in VMAP .. vm - 1 : /\ Walk(mem, Path(w)) \in lay.first .. nxt - 1
                                   /\ mem[Walk(mem, Path(w))] = Zeroed
  BY <1>0, <1>1, <1>2 DEF PagesInv
<1>4. /\ vm \in Nat /\ need \in Nat /\ n \in Nat /\ call.v \in Nat /\ call.p \in Nat
      /\ nxt \in Nat /\ lay.first \in Nat /\ VMAP \in Nat
  BY <1>0, <1>1, PowerAssumption, Facts, Sizes DEF TypeInv
<1>5. b \in Int
  BY <1>1, <1>4 DEF Block
<1>6. ASSUME NEW w \in vm .. vm + n - 1
      PROVE  /\ Walk(mem, Path(w)) \in b .. b + n - 1
             /\ Walk(mem, Path(w)) \in lay.first .. nxt - 1
  <2>1. Walk(mem, Path(w)) = b + (w - vm)
    <3>1. w \in vm .. call.v - 1
      BY <1>2, <1>3, <1>4
    <3> QED BY <1>3, <3>1
  <2> QED BY <1>3, <1>4, <1>5, <2>1
<1>7. \A h \in DOMAIN L : h \in Frames /\ mem'[h] = mem[h]
  <2>1. ASSUME NEW h \in DOMAIN L PROVE h \in Frames /\ mem'[h] = mem[h]
    <3>1. h \in Frames
      BY Facts
    <3>2. ~ \E v \in vm .. vm + n - 1 : Walk(mem, Path(v)) = h
      BY <1>3, <1>6
    <3> QED BY <1>2, <3>1, <3>2
  <2> QED BY <2>1
<1>8. mem' \in Memory
  <2>1. Zeroed \in TableType /\ mem \in Memory
    BY Facts, SizeAssumption DEF EntryType, TableType, Zeroed, NoEntry, Keys
  <2> QED BY <1>2, <2>1 DEF Memory
<1>9. SameWalks
  <2>1. ASSUME NEW w \in Program PROVE Walk(mem', Path(w)) = Walk(mem, Path(w))
    <3>1. mem \in Memory /\ DOMAIN L \subseteq Frames
      BY Facts
    <3> QED BY <1>0, <1>7, <3>1, SameTables
  <2> QED BY <2>1 DEF SameWalks
<1>10. Tree(mem, L, nxt)'
  <2>1. AgreeBut(mem, mem', L, Fault, 0)
    BY <1>7 DEF AgreeBut
  <2>2. Fault \notin DOMAIN L /\ PML4 \in DOMAIN L /\ nxt <= nxt
    BY <1>0, <1>4, Facts, Frame DEF Tree
  <2>3. Tree(mem', L, nxt)
    BY <1>0, <1>4, <2>1, <2>2, SameTree
  <2> QED BY <1>2, <2>3, TreeNext
<1>11. Outside(mem, L, nxt)'
  <2>1. Newer(L, L)
    BY <1>2, <1>4 DEF Newer
  <2> QED BY <1>2, <1>4, <1>9, <2>1, SameOutside
<1>12. need - n \in Nat /\ vm + n \in Nat
  BY <1>3, <1>4
<1>13. TypeInv'
  BY <1>0, <1>2, <1>8, <1>12 DEF TypeInv, Phases, Memory
<1>14. DirectInv'
  <2>1. /\ e = Len(lay.map) + 1
        /\ \A k \in 1 .. e - 1 : \A p \in Nat : InRegion(k, p) => Walk(mem, Path(DIRECT + p)) = p
    BY <1>0, <1>2 DEF DirectInv
  <2>2. ASSUME NEW k \in 1 .. e - 1, NEW p \in Nat, InRegion(k, p)
        PROVE  Walk(mem, Path(DIRECT + p))' = p
    <3>1. DIRECT + p \in Program
      BY <1>0, <2>2, RegionPage
    <3> QED BY <1>2, <1>9, <2>1, <2>2, <3>1, SameMapped
  <2>3. \A k, p : InRegion(k, p)' = InRegion(k, p)
    BY <1>2 DEF InRegion
  <2> QED BY <1>2, <2>1, <2>2, <2>3 DEF DirectInv
<1>15. CallInv(L)'
  BY <1>2 DEF CallInv
<1>16. PagesInv(L)'
  <2>1. \A w \in VMAP .. WINDOW - 1 : IsMapped(w)' = IsMapped(w)
    BY <1>2, <1>9, PagesAreProgram, SameMapped
  <2>2. Vm = vm + n /\ Vm' = vm + n
    BY <1>1, <1>2, <1>4 DEF Vm
  <2>3. ASSUME NEW w \in VMAP .. vm + n - 1
        PROVE  /\ Walk(mem, Path(w))' \in lay.first .. nxt - 1
               /\ mem'[Walk(mem, Path(w))'] = Zeroed
    <3>1. CASE w \in vm .. vm + n - 1
      <4>1. w \in Program
        BY <1>0, <1>1, <1>2, <3>1, BlockPage
      <4>2. PICK f : f = Walk(mem, Path(w)) /\ f = Walk(mem, Path(w))'
        BY <1>2, <1>9, <4>1, SameMapped
      <4>3. f \in lay.first .. nxt - 1 /\ f \in Frames
        BY <1>6, <3>1, <4>2, Facts
      <4>4. mem'[f] = Zeroed
        BY <1>2, <3>1, <4>2, <4>3
      <4> QED BY <4>2, <4>3, <4>4
    <3>2. CASE w \in VMAP .. vm - 1
      <4>1. w \in Program
        BY <1>0, <1>2, <3>2, DescriptorPage
      <4>2. PICK f : f = Walk(mem, Path(w)) /\ f = Walk(mem, Path(w))'
        BY <1>2, <1>9, <4>1, SameMapped
      <4>3. f \in lay.first .. nxt - 1 /\ mem[f] = Zeroed /\ f \in Frames
        BY <1>3, <3>2, <4>2, Facts
      <4>4. mem'[f] = Zeroed
        BY <1>2, <4>3
      <4> QED BY <4>2, <4>3, <4>4
    <3>3. w \in vm .. vm + n - 1 \/ w \in VMAP .. vm - 1
      BY <1>4
    <3> QED BY <3>1, <3>2, <3>3
  <2>4. VMAP <= vm + n /\ (vm + n) + (need - n) = VMAP + DescPages(lay)
    <3>1. DescPages(lay) \in Nat
      BY <1>0, MemoryEnds
    <3> QED BY <1>3, <1>4, <3>1
  <2>5. VMAP <= vm' /\ vm' + need' = VMAP + DescPages(lay')
    BY <1>2, <2>4
  <2>6. \A w \in VMAP .. WINDOW - 1 : IsMapped(w)' => w < Vm'
    <3>1. Vm' = Vm
      BY <2>2
    <3> QED BY <1>3, <2>1, <3>1
  <2>7. \A w \in VMAP .. vm' - 1 : /\ Walk(mem, Path(w))' \in lay'.first .. nxt' - 1
                                   /\ mem'[Walk(mem, Path(w))'] = Zeroed
    <3>1. vm' = vm + n /\ lay' = lay /\ nxt' = nxt
      BY <1>2
    <3>2. ASSUME NEW w \in VMAP .. vm' - 1 PROVE w \in VMAP .. vm + n - 1
      BY <1>4, <3>1
    <3>3. lay'.first .. nxt' - 1 = lay.first .. nxt - 1
      BY <3>1
    <3> QED BY <2>3, <3>2, <3>3
  <2>8. ph' = "descriptors"
    BY <1>2
  <2> QED BY <2>5, <2>6, <2>7, <2>8 DEF PagesInv
<1>17. ph' # "broken"
  BY <1>2
<1> QED BY <1>9, <1>10, <1>11, <1>13, <1>14, <1>15, <1>16, <1>17, Together

-------------------------------------------------------------------------------
(* The tables that init_paging sets up: Nth(1) .. Nth(5 + np), of which np are  *)
(* the kernel's.                                                                *)
Nth(n) == InitFrame(lay, n)
Np == InitTables(lay)
InitLevel ==
    [f \in {Nth(n) : n \in 1 .. 5 + Np} |->
        IF f = Nth(1) THEN 3 ELSE IF f = Nth(2) THEN 2
        ELSE IF f = Nth(3) \/ f = Nth(4 + Np) THEN 1 ELSE 0]

LEMMA InitFrames ==
    ASSUME lay \in Layouts
    PROVE  /\ Np \in Nat /\ lay.first \in Nat /\ lay.limit \in Nat /\ 0 < lay.first
           /\ lay.boot \in Nat /\ lay.kbase \in Nat /\ lay.ksize \in Nat
           /\ lay.boot < lay.first /\ lay.kbase + lay.ksize <= lay.first
           /\ \A n \in 1 .. 9 + Np : Nth(n) \in lay.first .. lay.limit - 1 /\ Nth(n) \in Frames
           /\ \A m, n \in 1 .. 9 + Np : /\ m < n => Nth(m) < Nth(n)
                                        /\ Nth(m) = Nth(n) => m = n
<1>1. /\ lay.first \in Nat /\ lay.limit \in Nat /\ lay.ksize \in Nat
      /\ lay.boot \in Nat /\ lay.kbase \in Nat
  BY LayoutAssumption DEF Layout
<1>2. Np \in Nat
  <2>1. EN \in Nat \ {0} /\ lay.ksize + EN - 1 \in Nat
    BY <1>1, Sizes
  <2> QED BY <2>1, DivMod DEF Np, InitTables
<1>3. \A n \in Nat : Nth(n) = lay.first + 2 * (n - 1)
  BY DEF Nth, InitFrame
<1>4. /\ Nth(9 + Np) < lay.limit /\ lay.first .. lay.limit - 1 \subseteq Frames
      /\ lay.boot < lay.first /\ lay.kbase + lay.ksize <= lay.first
  BY LayoutAssumption DEF Nth, Np
<1>5. ASSUME NEW n \in 1 .. 9 + Np PROVE Nth(n) \in lay.first .. lay.limit - 1
  BY <1>1, <1>2, <1>3, <1>4
<1>6. ASSUME NEW m \in 1 .. 9 + Np, NEW n \in 1 .. 9 + Np
      PROVE  /\ m < n => Nth(m) < Nth(n)
             /\ Nth(m) = Nth(n) => m = n
  BY <1>1, <1>2, <1>3
<1> QED BY <1>1, <1>2, <1>4, <1>5, <1>6

(* What stands in them.                                                         *)
InitEntries(k) ==
    /\ mem[Nth(1)][k] = IF k = EN - 1 THEN Entry(Nth(2), FALSE)
                        ELSE IF k = SELF THEN Entry(Nth(1), FALSE) ELSE NoEntry
    /\ mem[Nth(2)][k] = IF k = EN - 1 THEN Entry(Nth(3), FALSE)
                        ELSE IF k = EN - 2 THEN Entry(Nth(4 + Np), FALSE) ELSE NoEntry
    /\ mem[Nth(3)][k] = IF k < Np THEN Entry(Nth(4 + k), FALSE) ELSE NoEntry
    /\ mem[Nth(4 + Np)][k] = IF k = EN - 1 THEN Entry(Nth(5 + Np), FALSE) ELSE NoEntry
    /\ \A n \in 4 .. 3 + Np :
          mem[Nth(n)][k].present => mem[Nth(n)][k].at < lay.first
    /\ mem[Nth(5 + Np)][k].present =>
          \/ mem[Nth(5 + Np)][k].at < lay.first
          \/ mem[Nth(5 + Np)][k].at \in {Nth(6 + Np), Nth(7 + Np), Nth(8 + Np)}

LEMMA EntryOf ==
    /\ NoEntry \in EntryType /\ NoEntry.present = FALSE
    /\ \A f \in Nat : \A b \in BOOLEAN :
          /\ Entry(f, b) \in EntryType /\ Entry(f, b).at = f
          /\ Entry(f, b).present = TRUE /\ Entry(f, b).ps = b
    /\ Zeroed \in TableType
BY DEF NoEntry, Entry, EntryType, Zeroed, TableType, Keys

LEMMA KernelTableIs ==
    ASSUME lay \in Layouts, NEW t \in Nat
    PROVE  /\ KernelTable(lay, t) \in TableType
           /\ \A k \in Keys : LET x == KernelTable(lay, t)[k]
                              IN x.present => x.at < lay.first
<1>1. PICK q : q = t * EN
  OBVIOUS
<1>2. q \in Nat /\ EN \in Nat
  BY <1>1, Sizes
<1>3. ASSUME NEW k \in Keys
      PROVE  /\ KernelTable(lay, t)[k] \in EntryType
             /\ KernelTable(lay, t)[k].present => KernelTable(lay, t)[k].at < lay.first
  <2>1. k \in Nat
    BY <1>2, <1>3 DEF Keys
  <2>2. KernelTable(lay, t)[k] =
          IF q + k < lay.ksize THEN Entry(lay.kbase + q + k, FALSE) ELSE NoEntry
    BY <1>1 DEF KernelTable, Keys
  <2>3. lay.kbase + q + k \in Nat
    BY <1>2, <2>1, InitFrames
  <2>4. q + k < lay.ksize => lay.kbase + q + k < lay.first
    BY <1>2, <2>1, InitFrames
  <2> QED BY <2>2, <2>3, <2>4, EntryOf
<1>4. KernelTable(lay, t) = [k \in Keys |-> KernelTable(lay, t)[k]]
  BY DEF KernelTable, Keys
<1> QED BY <1>3, <1>4 DEF TableType

LEMMA InitTable ==
    ASSUME Init
    PROVE  mem \in Memory /\ \A k \in Keys : InitEntries(k)
<1> DEFINE Table(f) == mem[f]
           Kernel == {Nth(4 + t) : t \in 0 .. Np - 1}
           Stack(k) == Nth(6 + Np + (EN - 2 - k))
<1>0. lay \in Layouts /\ Np \in Nat /\ EN \in Nat /\ EN >= 4
  BY InitFrames, Sizes DEF Init
<1>1. \A n \in 1 .. 9 + Np : Nth(n) \in Frames /\ Nth(n) \in Nat
  BY <1>0, InitFrames, SizeAssumption
<1>2. \A m, n \in 1 .. 9 + Np : Nth(m) = Nth(n) => m = n
  BY <1>0, InitFrames
<1>3. mem = [f \in Frames |->
          CASE f = Nth(1) -> [Zeroed EXCEPT ![EN - 1] = Entry(Nth(2), FALSE),
                                            ![SELF] = Entry(Nth(1), FALSE)]
            [] f = Nth(2) -> [Zeroed EXCEPT ![EN - 1] = Entry(Nth(3), FALSE),
                                            ![EN - 2] = Entry(Nth(4 + Np), FALSE)]
            [] f = Nth(3) -> [k \in 0 .. EN - 1 |->
                                IF k < Np THEN Entry(Nth(4 + k), FALSE) ELSE NoEntry]
            [] f \in Kernel -> KernelTable(lay, (f - Nth(4)) \div 2)
            [] f = Nth(4 + Np) -> [Zeroed EXCEPT ![EN - 1] = Entry(Nth(5 + Np), FALSE)]
            [] f = Nth(5 + Np) -> [k \in 0 .. EN - 1 |->
                              CASE k = EN - 1 -> Entry(lay.boot, FALSE)
                                [] k \in EN - 4 .. EN - 2 -> Entry(Stack(k), FALSE)
                                [] OTHER -> NoEntry]
            [] OTHER -> Stale]
  BY DEF Init, InitPaging, Nth, Np
<1> DEFINE T1 == [Zeroed EXCEPT ![EN - 1] = Entry(Nth(2), FALSE),
                                ![SELF] = Entry(Nth(1), FALSE)]
           T2 == [Zeroed EXCEPT ![EN - 1] = Entry(Nth(3), FALSE),
                                ![EN - 2] = Entry(Nth(4 + Np), FALSE)]
           T3 == [k \in 0 .. EN - 1 |->
                                IF k < Np THEN Entry(Nth(4 + k), FALSE) ELSE NoEntry]
           T4(f) == KernelTable(lay, (f - Nth(4)) \div 2)
           T5 == [Zeroed EXCEPT ![EN - 1] = Entry(Nth(5 + Np), FALSE)]
           T6 == [k \in 0 .. EN - 1 |->
                              CASE k = EN - 1 -> Entry(lay.boot, FALSE)
                                [] k \in EN - 4 .. EN - 2 -> Entry(Stack(k), FALSE)
                                [] OTHER -> NoEntry]
<1>4. mem = [f \in Frames |->
          CASE f = Nth(1) -> T1 [] f = Nth(2) -> T2 [] f = Nth(3) -> T3
            [] f \in Kernel -> T4(f) [] f = Nth(4 + Np) -> T5 [] f = Nth(5 + Np) -> T6
            [] OTHER -> Stale]
  BY <1>3
<1>5. /\ Nth(1) # Nth(2) /\ Nth(1) # Nth(3) /\ Nth(1) # Nth(4 + Np) /\ Nth(1) # Nth(5 + Np)
      /\ Nth(2) # Nth(3) /\ Nth(2) # Nth(4 + Np) /\ Nth(2) # Nth(5 + Np)
      /\ Nth(3) # Nth(4 + Np) /\ Nth(3) # Nth(5 + Np) /\ Nth(4 + Np) # Nth(5 + Np)
  BY <1>0, <1>2
<1>6. /\ Nth(1) \notin Kernel /\ Nth(2) \notin Kernel /\ Nth(3) \notin Kernel
      /\ Nth(4 + Np) \notin Kernel /\ Nth(5 + Np) \notin Kernel
  BY <1>0, <1>2
<1>7. /\ Nth(1) \in Frames /\ Nth(2) \in Frames /\ Nth(3) \in Frames
      /\ Nth(4 + Np) \in Frames /\ Nth(5 + Np) \in Frames
  BY <1>0, <1>1
<1>8. \A f \in Frames :
          mem[f] = CASE f = Nth(1) -> T1 [] f = Nth(2) -> T2 [] f = Nth(3) -> T3
                     [] f \in Kernel -> T4(f) [] f = Nth(4 + Np) -> T5
                     [] f = Nth(5 + Np) -> T6 [] OTHER -> Stale
  <2> HIDE DEF T1, T2, T3, T4, T5, T6, Kernel
  <2> QED BY <1>4
<1>9. /\ mem[Nth(1)] = T1 /\ mem[Nth(2)] = T2 /\ mem[Nth(3)] = T3
      /\ mem[Nth(4 + Np)] = T5 /\ mem[Nth(5 + Np)] = T6
  <2> HIDE DEF T1, T2, T3, T4, T5, T6, Kernel
  <2> QED BY <1>5, <1>6, <1>7, <1>8
<1>10. \A n \in 4 .. 3 + Np :
          Nth(n) \in Frames /\ mem[Nth(n)] = KernelTable(lay, n - 4) /\ n - 4 \in Nat
  <2>1. ASSUME NEW n \in 4 .. 3 + Np PROVE /\ Nth(n) \in Frames
                                           /\ mem[Nth(n)] = KernelTable(lay, n - 4)
                                           /\ n - 4 \in Nat
    <3>1. n \in 1 .. 9 + Np /\ n - 4 \in 0 .. Np - 1 /\ 4 + (n - 4) = n
      BY <1>0
    <3>2. Nth(n) \in Kernel /\ Nth(n) \in Frames
      BY <1>1, <3>1
    <3>3. /\ Nth(n) # Nth(1) /\ Nth(n) # Nth(2) /\ Nth(n) # Nth(3)
          /\ Nth(n) # Nth(4 + Np) /\ Nth(n) # Nth(5 + Np)
      BY <1>6, <3>2
    <3>4. mem[Nth(n)] = T4(Nth(n))
      <4> HIDE DEF T1, T2, T3, T4, T5, T6, Kernel
      <4> QED BY <1>8, <3>2, <3>3
    <3>5. (Nth(n) - Nth(4)) \div 2 = n - 4
      <4>1. Nth(n) = lay.first + 2 * (n - 1) /\ Nth(4) = lay.first + 2 * 3
        BY DEF Nth, InitFrame
      <4>2. lay.first \in Nat /\ n \in Nat /\ n >= 4
        BY <1>0, InitFrames
      <4> QED BY <4>1, <4>2
    <3> QED BY <3>1, <3>2, <3>4, <3>5
  <2> QED BY <2>1
<1>11. lay.boot \in Nat /\ lay.first \in Nat /\ lay.boot < lay.first
  BY <1>0, InitFrames
<1>12. \A k \in EN - 4 .. EN - 2 : Stack(k) \in {Nth(6 + Np), Nth(7 + Np), Nth(8 + Np)}
  <2>1. ASSUME NEW k \in EN - 4 .. EN - 2
        PROVE  Stack(k) \in {Nth(6 + Np), Nth(7 + Np), Nth(8 + Np)}
    <3>1. k = EN - 2 \/ k = EN - 3 \/ k = EN - 4
      BY <1>0
    <3>2. \/ 6 + Np + (EN - 2 - k) = 6 + Np
          \/ 6 + Np + (EN - 2 - k) = 7 + Np
          \/ 6 + Np + (EN - 2 - k) = 8 + Np
      BY <1>0, <3>1
    <3> QED BY <3>2
  <2> QED BY <2>1
<1>13. \A k \in EN - 4 .. EN - 2 : Stack(k) \in Nat
  BY <1>0, <1>1, <1>12
<1>14. /\ T1 \in TableType /\ T2 \in TableType /\ T5 \in TableType
       /\ \A k \in Keys :
            /\ T1[k] = IF k = EN - 1 THEN Entry(Nth(2), FALSE)
                        ELSE IF k = SELF THEN Entry(Nth(1), FALSE) ELSE NoEntry
            /\ T2[k] = IF k = EN - 1 THEN Entry(Nth(3), FALSE)
                        ELSE IF k = EN - 2 THEN Entry(Nth(4 + Np), FALSE) ELSE NoEntry
            /\ T5[k] = IF k = EN - 1 THEN Entry(Nth(5 + Np), FALSE) ELSE NoEntry
  <2>1. /\ Entry(Nth(1), FALSE) \in EntryType /\ Entry(Nth(2), FALSE) \in EntryType
        /\ Entry(Nth(3), FALSE) \in EntryType /\ Entry(Nth(4 + Np), FALSE) \in EntryType
        /\ Entry(Nth(5 + Np), FALSE) \in EntryType
    <3>1. /\ 1 \in 1 .. 9 + Np /\ 2 \in 1 .. 9 + Np /\ 3 \in 1 .. 9 + Np
          /\ 4 + Np \in 1 .. 9 + Np /\ 5 + Np \in 1 .. 9 + Np
      BY <1>0
    <3>2. /\ Nth(1) \in Nat /\ Nth(2) \in Nat /\ Nth(3) \in Nat
          /\ Nth(4 + Np) \in Nat /\ Nth(5 + Np) \in Nat
      BY <1>1, <3>1
    <3> QED BY <3>2, EntryOf
  <2>2. /\ Zeroed \in [Keys -> EntryType] /\ \A k \in Keys : Zeroed[k] = NoEntry
        /\ SELF # EN - 1 /\ EN - 2 # EN - 1
    BY EntryOf, ZeroedIs, Sizes DEF TableType
  <2>3. PICK en1, en2, en3, en4, en5 :
           /\ en1 = Entry(Nth(1), FALSE) /\ en2 = Entry(Nth(2), FALSE)
           /\ en3 = Entry(Nth(3), FALSE) /\ en4 = Entry(Nth(4 + Np), FALSE)
           /\ en5 = Entry(Nth(5 + Np), FALSE)
    OBVIOUS
  <2>4. ASSUME NEW t \in [Keys -> EntryType], NEW a, NEW b, a # b, NEW x \in EntryType,
               NEW y \in EntryType
        PROVE  /\ [t EXCEPT ![a] = x, ![b] = y] \in [Keys -> EntryType]
               /\ [t EXCEPT ![a] = x] \in [Keys -> EntryType]
               /\ \A k \in Keys :
                    /\ [t EXCEPT ![a] = x, ![b] = y][k] =
                          IF k = a THEN x ELSE IF k = b THEN y ELSE t[k]
                    /\ [t EXCEPT ![a] = x][k] = IF k = a THEN x ELSE t[k]
    BY <2>4
  <2>5. T1 \in TableType /\ \A k \in Keys :
           T1[k] = IF k = EN - 1 THEN en2 ELSE IF k = SELF THEN en1 ELSE NoEntry
    BY <2>1, <2>2, <2>3, <2>4 DEF TableType
  <2>6. T2 \in TableType /\ \A k \in Keys :
           T2[k] = IF k = EN - 1 THEN en3 ELSE IF k = EN - 2 THEN en4 ELSE NoEntry
    BY <2>1, <2>2, <2>3, <2>4 DEF TableType
  <2>7. T5 \in TableType /\ \A k \in Keys :
           T5[k] = IF k = EN - 1 THEN en5 ELSE NoEntry
    BY <2>1, <2>2, <2>3, <2>4 DEF TableType
  <2> HIDE DEF T1, T2, T5
  <2> QED BY <2>3, <2>5, <2>6, <2>7
<1>15. T3 \in TableType /\ \A k \in Keys :
          T3[k] = IF k < Np THEN Entry(Nth(4 + k), FALSE) ELSE NoEntry
  <2>1. ASSUME NEW k \in Keys, k < Np PROVE Entry(Nth(4 + k), FALSE) \in EntryType
    <3>1. 4 + k \in 1 .. 9 + Np
      BY <1>0, <2>1 DEF Keys
    <3> QED BY <1>1, <3>1, EntryOf
  <2> QED BY <2>1, EntryOf DEF TableType, Keys
<1>16. /\ T6 \in TableType
       /\ \A k \in Keys : T6[k].present => \/ T6[k].at < lay.first
                                           \/ T6[k].at \in {Nth(6 + Np), Nth(7 + Np), Nth(8 + Np)}
  <2>1. ASSUME NEW k \in Keys
        PROVE  /\ T6[k] \in EntryType
               /\ T6[k].present => \/ T6[k].at < lay.first
                                   \/ T6[k].at \in {Nth(6 + Np), Nth(7 + Np), Nth(8 + Np)}
    <3> HIDE DEF Stack
    <3>1. T6[k] = CASE k = EN - 1 -> Entry(lay.boot, FALSE)
                    [] k \in EN - 4 .. EN - 2 -> Entry(Stack(k), FALSE)
                    [] OTHER -> NoEntry
      BY DEF Keys
    <3>2. CASE k = EN - 1
      <4>1. EN - 1 \notin EN - 4 .. EN - 2
        BY <1>0
      <4>2. T6[k] = Entry(lay.boot, FALSE)
        <5> HIDE DEF T6
        <5> QED BY <3>1, <3>2, <4>1
      <4> QED BY <1>11, <4>2, EntryOf
    <3>3. CASE k \in EN - 4 .. EN - 2
      <4>1. k # EN - 1
        BY <1>0, <3>3
      <4>2. T6[k] = Entry(Stack(k), FALSE)
        <5> HIDE DEF T6
        <5> QED BY <3>1, <3>3, <4>1
      <4>3. Entry(Stack(k), FALSE) \in EntryType /\ Entry(Stack(k), FALSE).at = Stack(k)
        BY <1>13, <3>3, EntryOf
      <4> QED BY <1>12, <3>3, <4>2, <4>3
    <3>4. CASE k # EN - 1 /\ k \notin EN - 4 .. EN - 2
      <4>1. T6[k] = NoEntry
        <5> HIDE DEF T6
        <5> QED BY <3>1, <3>4
      <4> QED BY <4>1, EntryOf
    <3> QED BY <3>2, <3>3, <3>4
  <2>2. T6 = [k \in Keys |-> T6[k]]
    BY DEF Keys
  <2> QED BY <2>1, <2>2 DEF TableType
<1>17. \A n \in 4 .. 3 + Np : /\ mem[Nth(n)] \in TableType
                              /\ \A k \in Keys : mem[Nth(n)][k].present =>
                                                    mem[Nth(n)][k].at < lay.first
  BY <1>0, <1>10, KernelTableIs
<1>18. Stale \in TableType
  <2>1. Entry(0, FALSE) \in EntryType
    BY EntryOf
  <2> QED BY <2>1 DEF Stale, TableType, Keys
<1>19. mem \in Memory
  <2>1. ASSUME NEW f \in Frames PROVE mem[f] \in TableType
    <3>1. CASE f \in Kernel
      <4>1. PICK t \in 0 .. Np - 1 : f = Nth(4 + t)
        BY <3>1
      <4>2. 4 + t \in 4 .. 3 + Np
        BY <1>0
      <4> QED BY <1>17, <4>1, <4>2
    <3>2. CASE f \notin Kernel
      <4> HIDE DEF T1, T2, T3, T4, T5, T6, Kernel
      <4>1. \/ f = Nth(1) \/ f = Nth(2) \/ f = Nth(3) \/ f = Nth(4 + Np) \/ f = Nth(5 + Np)
            \/ mem[f] = Stale
        BY <1>8, <3>2
      <4> QED BY <1>9, <1>14, <1>15, <1>16, <1>18, <4>1
    <3> QED BY <3>1, <3>2
  <2>2. mem = [f \in Frames |-> mem[f]]
    BY <1>3
  <2> QED BY <2>1, <2>2 DEF Memory
<1>20. ASSUME NEW k \in Keys PROVE InitEntries(k)
  <2> HIDE DEF T1, T2, T3, T4, T5, T6, Kernel
  <2> QED BY <1>9, <1>14, <1>15, <1>16, <1>17 DEF InitEntries
<1> QED BY <1>19, <1>20

(* The five entries that lead from table to table.                              *)
InitLink(x, m, n) ==
    \/ m = 1 /\ n = 2 /\ x[2] = EN - 1
    \/ m = 2 /\ n = 3 /\ x[2] = EN - 1
    \/ m = 2 /\ n = 4 + Np /\ x[2] = EN - 2
    \/ m = 3 /\ n = 4 + x[2] /\ x[2] < Np
    \/ m = 4 + Np /\ n = 5 + Np /\ x[2] = EN - 1

LEMMA InitLevels ==
    ASSUME Init
    PROVE  /\ DOMAIN InitLevel = {Nth(n) : n \in 1 .. 5 + Np}
           /\ \A n \in 1 .. 5 + Np :
                /\ Nth(n) \in DOMAIN InitLevel
                /\ InitLevel[Nth(n)] = IF n = 1 THEN 3 ELSE IF n = 2 THEN 2
                                       ELSE IF n = 3 \/ n = 4 + Np THEN 1 ELSE 0
<1>0. lay \in Layouts /\ Np \in Nat
  BY InitFrames DEF Init
<1>1. ASSUME NEW n \in 1 .. 5 + Np
      PROVE  InitLevel[Nth(n)] = IF n = 1 THEN 3 ELSE IF n = 2 THEN 2
                                 ELSE IF n = 3 \/ n = 4 + Np THEN 1 ELSE 0
  <2>1. /\ n \in 1 .. 9 + Np /\ 1 \in 1 .. 9 + Np /\ 2 \in 1 .. 9 + Np
        /\ 3 \in 1 .. 9 + Np /\ 4 + Np \in 1 .. 9 + Np
    BY <1>0
  <2>2. /\ (Nth(n) = Nth(1) <=> n = 1) /\ (Nth(n) = Nth(2) <=> n = 2)
        /\ (Nth(n) = Nth(3) <=> n = 3) /\ (Nth(n) = Nth(4 + Np) <=> n = 4 + Np)
    BY <1>0, <2>1, InitFrames
  <2>3. InitLevel[Nth(n)] = IF Nth(n) = Nth(1) THEN 3 ELSE IF Nth(n) = Nth(2) THEN 2
                            ELSE IF Nth(n) = Nth(3) \/ Nth(n) = Nth(4 + Np) THEN 1 ELSE 0
    BY DEF InitLevel
  <2> QED BY <2>2, <2>3
<1> QED BY <1>1 DEF InitLevel

LEMMA InitLinks ==
    ASSUME Init, NEW x \in Entries(mem, InitLevel)
    PROVE  \E m, n \in 1 .. 5 + Np :
              /\ x[1] = Nth(m) /\ InitLink(x, m, n) /\ x[2] \in Keys
              /\ mem[x[1]][x[2]].ps = FALSE /\ mem[x[1]][x[2]].at = Nth(n)
              /\ InitLevel[Nth(n)] = InitLevel[Nth(m)] - 1
<1>0. /\ lay \in Layouts /\ Np \in Nat /\ EN \in Nat /\ EN >= 4 /\ PML4 = Nth(1)
      /\ \A n \in 1 .. 9 + Np : Nth(n) \in Nat
  BY InitFrames, Sizes, SizeAssumption DEF Init, PML4, Nth
<1>1. PICK m \in 1 .. 5 + Np : x[1] = Nth(m)
  BY InitLevels DEF Entries
<1>2. PICK k \in Keys : x[2] = k
  BY DEF Entries
<1>3. InitLevel[Nth(m)] > 0 /\ mem[Nth(m)][k].present /\ ~ (m = 1 /\ k = SELF)
  BY <1>0, <1>1, <1>2 DEF Entries
<1>4. m = 1 \/ m = 2 \/ m = 3 \/ m = 4 + Np
  BY <1>0, <1>3, InitLevels
<1>5. InitEntries(k)
  BY InitTable
<1>6. k \in Nat /\ k <= EN - 1
  BY <1>0 DEF Keys
<1>7. ASSUME NEW n, n \in 1 .. 5 + Np /\ mem[Nth(m)][k] = Entry(Nth(n), FALSE) /\ InitLink(x, m, n),
             InitLevel[Nth(n)] = InitLevel[Nth(m)] - 1
      PROVE  \E r, t \in 1 .. 5 + Np :
                /\ x[1] = Nth(r) /\ InitLink(x, r, t) /\ x[2] \in Keys
                /\ mem[x[1]][x[2]].ps = FALSE /\ mem[x[1]][x[2]].at = Nth(t)
                /\ InitLevel[Nth(t)] = InitLevel[Nth(r)] - 1
  <2>1. Nth(n) \in Nat
    <3>1. n \in 1 .. 9 + Np
      BY <1>0, <1>7
    <3> QED BY <1>0, <3>1
  <2>2. mem[Nth(m)][k].ps = FALSE /\ mem[Nth(m)][k].at = Nth(n)
    BY <1>7, <2>1, EntryOf
  <2> QED BY <1>1, <1>2, <1>7, <2>2
<1>8. CASE m = 1
  <2>1. k = EN - 1 /\ mem[Nth(m)][k] = Entry(Nth(2), FALSE)
    BY <1>3, <1>5, <1>8, EntryOf DEF InitEntries
  <2>2. 2 \in 1 .. 5 + Np /\ InitLevel[Nth(2)] = InitLevel[Nth(m)] - 1
    BY <1>0, <1>8, InitLevels
  <2>3. InitLink(x, m, 2)
    BY <1>2, <1>8, <2>1 DEF InitLink
  <2> QED BY <1>7, <2>1, <2>2, <2>3
<1>9. CASE m = 2
  <2>1. CASE k = EN - 1
    <3>1. mem[Nth(m)][k] = Entry(Nth(3), FALSE)
      BY <1>5, <1>9, <2>1 DEF InitEntries
    <3>2. 3 \in 1 .. 5 + Np /\ InitLevel[Nth(3)] = InitLevel[Nth(m)] - 1
      BY <1>0, <1>9, InitLevels
    <3>3. InitLink(x, m, 3)
      BY <1>2, <1>9, <2>1 DEF InitLink
    <3> QED BY <1>7, <3>1, <3>2, <3>3
  <2>2. CASE k # EN - 1
    <3>1. k = EN - 2 /\ mem[Nth(m)][k] = Entry(Nth(4 + Np), FALSE)
      BY <1>3, <1>5, <1>9, <2>2, EntryOf DEF InitEntries
    <3>2. 4 + Np \in 1 .. 5 + Np /\ InitLevel[Nth(4 + Np)] = InitLevel[Nth(m)] - 1
      BY <1>0, <1>9, InitLevels
    <3>3. InitLink(x, m, 4 + Np)
      BY <1>2, <1>9, <3>1 DEF InitLink
    <3> QED BY <1>7, <3>1, <3>2, <3>3
  <2> QED BY <2>1, <2>2
<1>10. CASE m = 3
  <2>1. k < Np /\ mem[Nth(m)][k] = Entry(Nth(4 + k), FALSE)
    BY <1>3, <1>5, <1>10, EntryOf DEF InitEntries
  <2>2. /\ 4 + k \in 1 .. 5 + Np /\ 4 + k # 1 /\ 4 + k # 2 /\ 4 + k # 3 /\ 4 + k # 4 + Np
        /\ 3 # 4 + Np
    BY <1>0, <1>6, <2>1
  <2>3. InitLevel[Nth(4 + k)] = InitLevel[Nth(m)] - 1
    BY <1>10, <2>2, InitLevels
  <2>4. InitLink(x, m, 4 + k)
    BY <1>2, <1>10, <2>1 DEF InitLink
  <2> QED BY <1>7, <2>1, <2>2, <2>3, <2>4
<1>11. CASE m = 4 + Np
  <2>1. k = EN - 1 /\ mem[Nth(m)][k] = Entry(Nth(5 + Np), FALSE)
    BY <1>3, <1>5, <1>11, EntryOf DEF InitEntries
  <2>2. 5 + Np \in 1 .. 5 + Np /\ InitLevel[Nth(5 + Np)] = InitLevel[Nth(m)] - 1
    BY <1>0, <1>11, InitLevels
  <2>3. InitLink(x, m, 5 + Np)
    BY <1>2, <1>11, <2>1 DEF InitLink
  <2> QED BY <1>7, <2>1, <2>2, <2>3
<1> QED BY <1>4, <1>8, <1>9, <1>10, <1>11

LEMMA InitTree ==
    ASSUME Init
    PROVE  Tree(mem, InitLevel, nxt)
<1>0. /\ lay \in Layouts /\ Np \in Nat /\ EN \in Nat /\ EN >= 4 /\ PML4 = Nth(1)
      /\ \A n \in 1 .. 9 + Np : Nth(n) \in lay.first .. lay.limit - 1 /\ Nth(n) \in Nat
      /\ \A m, n \in 1 .. 9 + Np : /\ m < n => Nth(m) < Nth(n)
                                   /\ Nth(m) = Nth(n) => m = n
      /\ lay.first \in Nat
  BY InitFrames, Sizes, SizeAssumption DEF Init, PML4, Nth
<1>1. nxt = Nth(9 + Np)
  BY DEF Init, Nth, Np
<1>2. InitLevel \in [DOMAIN InitLevel -> 0 .. 3]
  <2>1. \A f \in DOMAIN InitLevel : InitLevel[f] \in 0 .. 3
    BY InitLevels
  <2> QED BY <2>1 DEF InitLevel
<1>3. DOMAIN InitLevel \subseteq lay.first .. nxt - 1
  <2>1. ASSUME NEW n \in 1 .. 5 + Np PROVE Nth(n) \in lay.first .. nxt - 1
    <3>1. n \in 1 .. 9 + Np /\ 9 + Np \in 1 .. 9 + Np /\ n < 9 + Np
      BY <1>0
    <3>2. Nth(n) \in Nat /\ Nth(9 + Np) \in Nat /\ Nth(n) < nxt /\ lay.first <= Nth(n)
      BY <1>0, <1>1, <3>1
    <3> QED BY <1>0, <1>1, <3>2
  <2> QED BY <2>1, InitLevels
<1>4. PML4 \in DOMAIN InitLevel /\ \A f \in DOMAIN InitLevel : InitLevel[f] = 3 <=> f = PML4
  <2>1. 1 \in 1 .. 5 + Np
    BY <1>0
  <2>2. ASSUME NEW n \in 1 .. 5 + Np PROVE InitLevel[Nth(n)] = 3 <=> Nth(n) = Nth(1)
    <3>1. n \in 1 .. 9 + Np /\ 1 \in 1 .. 9 + Np
      BY <1>0
    <3>2. Nth(n) = Nth(1) <=> n = 1
      BY <1>0, <3>1
    <3> QED BY <3>2, InitLevels
  <2> QED BY <1>0, <2>1, <2>2, InitLevels
<1>5. mem[PML4][SELF] = Entry(PML4, FALSE)
  BY <1>0, Sizes, InitTable DEF InitEntries
<1>6. \A x \in Entries(mem, InitLevel) :
         /\ mem[x[1]][x[2]].ps = FALSE
         /\ mem[x[1]][x[2]].at \in DOMAIN InitLevel
         /\ InitLevel[mem[x[1]][x[2]].at] = InitLevel[x[1]] - 1
  <2>1. ASSUME NEW x \in Entries(mem, InitLevel)
        PROVE  /\ mem[x[1]][x[2]].ps = FALSE
               /\ mem[x[1]][x[2]].at \in DOMAIN InitLevel
               /\ InitLevel[mem[x[1]][x[2]].at] = InitLevel[x[1]] - 1
    <3>1. PICK m, n \in 1 .. 5 + Np :
              /\ x[1] = Nth(m) /\ mem[x[1]][x[2]].ps = FALSE /\ mem[x[1]][x[2]].at = Nth(n)
              /\ InitLevel[Nth(n)] = InitLevel[Nth(m)] - 1
      BY InitLinks
    <3> QED BY <3>1, InitLevels
  <2> QED BY <2>1
<1>7. ASSUME NEW x \in Entries(mem, InitLevel), NEW y \in Entries(mem, InitLevel),
             mem[x[1]][x[2]].at = mem[y[1]][y[2]].at
      PROVE  x = y
  <2>1. PICK m, n \in 1 .. 5 + Np :
            x[1] = Nth(m) /\ InitLink(x, m, n) /\ x[2] \in Keys /\ mem[x[1]][x[2]].at = Nth(n)
    BY InitLinks
  <2>2. PICK p, q \in 1 .. 5 + Np :
            y[1] = Nth(p) /\ InitLink(y, p, q) /\ y[2] \in Keys /\ mem[y[1]][y[2]].at = Nth(q)
    BY InitLinks
  <2>3. n = q
    <3>1. n \in 1 .. 9 + Np /\ q \in 1 .. 9 + Np
      BY <1>0
    <3> QED BY <1>0, <1>7, <2>1, <2>2, <3>1
  <2>4. PICK j, k : j = x[2] /\ k = y[2]
    OBVIOUS
  <2>5. j \in Nat /\ k \in Nat
    BY <1>0, <2>1, <2>2, <2>4 DEF Keys
  <2>6. j = k /\ m = p
    BY <1>0, <2>1, <2>2, <2>3, <2>4, <2>5 DEF InitLink
  <2>7. x = <<x[1], x[2]>> /\ y = <<y[1], y[2]>>
    BY DEF Entries
  <2> QED BY <2>1, <2>2, <2>4, <2>6, <2>7
<1> QED BY <1>2, <1>3, <1>4, <1>5, <1>6, <1>7 DEF Tree

(* All that is mapped at first lies behind the last entry of the topmost table. *)
LEMMA InitWalks ==
    ASSUME Init, NEW v \in Program
    PROVE  \/ Walk(mem, Path(v)) = Fault
           \/ /\ Digit(v, 3) = EN - 1 /\ Walk(mem, Path(v)) \in Nat
              /\ Walk(mem, Path(v)) \notin DOMAIN InitLevel /\ Walk(mem, Path(v)) < nxt
<1>0. /\ lay \in Layouts /\ Np \in Nat /\ PML4 = Nth(1)
      /\ \A n \in 1 .. 9 + Np : Nth(n) \in lay.first .. lay.limit - 1 /\ Nth(n) \in Nat
      /\ \A m, n \in 1 .. 9 + Np : /\ m < n => Nth(m) < Nth(n)
                                   /\ Nth(m) = Nth(n) => m = n
      /\ lay.first \in Nat
  BY InitFrames, SizeAssumption DEF Init, PML4, Nth
<1>1. /\ mem \in Memory /\ Tree(mem, InitLevel, nxt)
      /\ \A k \in Keys : InitEntries(k)
  BY InitTable, InitTree
<1>2. nxt = Nth(9 + Np)
  BY DEF Init, Nth, Np
<1>3. DOMAIN InitLevel \subseteq Frames
  <2>1. \A n \in 1 .. 5 + Np : n \in 1 .. 9 + Np
    BY <1>0
  <2> QED BY <1>0, <2>1, InitFrames, InitLevels
<1>4. /\ Digit(v, 3) \in Keys /\ Digit(v, 2) \in Keys
      /\ Digit(v, 1) \in Keys /\ Digit(v, 0) \in Keys /\ Digit(v, 3) # SELF
  BY ProgramPage
<1>5. /\ Ent3(mem, v).at = Fault \/
            (Ent3(mem, v).at \in DOMAIN InitLevel /\ InitLevel[Ent3(mem, v).at] = 2)
      /\ Ent2(mem, v).at = Fault \/
            (Ent2(mem, v).at \in DOMAIN InitLevel /\ InitLevel[Ent2(mem, v).at] = 1)
      /\ \/ Ent1(mem, v).at = Fault /\ ~ Ent1(mem, v).ps
         \/ Ent1(mem, v).at \in Nat /\ Ent1(mem, v).ps
         \/ /\ Ent1(mem, v).at \in DOMAIN InitLevel /\ InitLevel[Ent1(mem, v).at] = 0
            /\ ~ Ent1(mem, v).ps
  BY <1>1, <1>3, Levels
<1>6. ~ Ent1(mem, v).ps
  <2>1. CASE Ent2(mem, v).at = Fault
    <3>1. Entered(mem, Fault, Digit(v, 1)) = Entry(Fault, FALSE)
      BY <1>4, BlankFault DEF Blank
    <3>2. Entry(Fault, FALSE).ps = FALSE
      BY DEF Entry
    <3> QED BY <2>1, <3>1, <3>2 DEF Ent1
  <2>2. CASE Ent2(mem, v).at # Fault
    <3>1. PICK n \in 1 .. 5 + Np : Ent2(mem, v).at = Nth(n) /\ InitLevel[Nth(n)] = 1
      BY <1>5, <2>2, InitLevels
    <3>2. n = 3 \/ n = 4 + Np
      BY <1>0, <3>1, InitLevels
    <3>3. PICK k : k = Digit(v, 1)
      OBVIOUS
    <3>4. mem[Nth(n)][k] = NoEntry \/ \E q \in Nat : mem[Nth(n)][k] = Entry(q, FALSE)
      <4>1. InitEntries(k) /\ k \in Nat
        BY <1>1, <1>4, <3>3, Sizes DEF Keys
      <4>2. CASE n = 3
        <5>1. k < Np => 4 + k \in 1 .. 9 + Np
          BY <1>0, <4>1
        <5> QED BY <1>0, <4>1, <4>2, <5>1 DEF InitEntries
      <4>3. CASE n = 4 + Np
        <5>1. 5 + Np \in 1 .. 9 + Np
          BY <1>0
        <5> QED BY <1>0, <4>1, <4>3, <5>1 DEF InitEntries
      <4> QED BY <3>2, <4>2, <4>3
    <3>5. mem[Nth(n)][k].ps = FALSE
      <4>1. NoEntry.ps = FALSE
        BY DEF NoEntry
      <4> QED BY <3>4, <4>1, EntryOf
    <3>6. Ent1(mem, v) = Entered(mem, Nth(n), k)
      BY <3>1, <3>3 DEF Ent1
    <3>7. Entered(mem, Nth(n), k) = mem[Nth(n)][k] \/ ~ Entered(mem, Nth(n), k).ps
      BY <1>1, <1>4, <3>3, EnteredIs
    <3> QED BY <3>5, <3>6, <3>7
  <2> QED BY <2>1, <2>2
<1>7. Walk(mem, Path(v)) = Ent0(mem, v).at
  BY <1>6, WalkIs
<1>8. CASE Ent0(mem, v).at = Fault
  BY <1>7, <1>8
<1>9. CASE Ent0(mem, v).at # Fault
  <2>1. PICK k : k = Digit(v, 0)
    OBVIOUS
  <2>2. PICK f : f = Ent1(mem, v).at
    OBVIOUS
  <2>3. /\ Ent0(mem, v) = mem[f][k] /\ mem[f][k].present /\ f \in Frames
        /\ Ent0(mem, v).at \in Nat
    BY <1>1, <1>4, <1>9, <2>1, <2>2, EnteredIs DEF Ent0
  <2>4. f \in DOMAIN InitLevel /\ InitLevel[f] = 0
    BY <1>5, <1>6, <2>2, <2>3, Frame
  <2>5. PICK n \in 1 .. 5 + Np : f = Nth(n)
    BY <2>4, InitLevels
  <2>6. n \in 4 .. 3 + Np \/ n = 5 + Np
    <3>1. n # 1 /\ n # 2 /\ n # 3 /\ n # 4 + Np
      BY <2>4, <2>5, InitLevels
    <3> QED BY <1>0, <3>1
  <2>7. PICK g : g = mem[f][k].at
    OBVIOUS
  <2>8. g < lay.first \/ g \in {Nth(6 + Np), Nth(7 + Np), Nth(8 + Np)}
    <3>1. InitEntries(k)
      BY <1>1, <1>4, <2>1
    <3> QED BY <2>3, <2>5, <2>6, <2>7, <3>1 DEF InitEntries
  <2>9. g \in Nat /\ Walk(mem, Path(v)) = g
    BY <1>7, <2>3, <2>7
  <2>10. g \notin DOMAIN InitLevel /\ g < nxt
    <3>1. CASE g < lay.first
      <4>1. DOMAIN InitLevel \subseteq lay.first .. nxt - 1
        BY <1>1 DEF Tree
      <4>2. 9 + Np \in 1 .. 9 + Np
        BY <1>0
      <4>3. lay.first <= nxt /\ nxt \in Nat
        BY <1>0, <1>2, <4>2
      <4> QED BY <1>0, <2>9, <3>1, <4>1, <4>3
    <3>2. CASE g \in {Nth(6 + Np), Nth(7 + Np), Nth(8 + Np)}
      <4>1. PICK m : g = Nth(m) /\ (m = 6 + Np \/ m = 7 + Np \/ m = 8 + Np)
        BY <3>2
      <4>2. m \in 1 .. 9 + Np /\ m < 9 + Np /\ 9 + Np \in 1 .. 9 + Np /\ m \notin 1 .. 5 + Np
        BY <1>0, <4>1
      <4>3. g < nxt
        BY <1>0, <1>2, <4>1, <4>2
      <4>4. ASSUME NEW j \in 1 .. 5 + Np PROVE g # Nth(j)
        <5>1. j \in 1 .. 9 + Np
          BY <1>0
        <5> QED BY <1>0, <4>1, <4>2, <5>1
      <4> QED BY <4>3, <4>4, InitLevels
    <3> QED BY <2>8, <3>1, <3>2
  <2>11. Digit(v, 3) = EN - 1
    <3>1. CASE Ent3(mem, v).at = Fault
      <4>1. Blank(mem, Tab(mem, v, 2))
        BY <3>1, BlankFault, TabIs
      <4>2. Walk(mem, Path(v)) = Fault
        BY <4>1, DeadEnd
      <4> QED BY <2>9, <4>2, Frame
    <3>2. CASE Ent3(mem, v).at # Fault
      <4>1. mem[PML4][Digit(v, 3)].present
        BY <1>1, <1>4, <3>2, EnteredIs DEF Ent3
      <4>2. InitEntries(Digit(v, 3))
        BY <1>1, <1>4
      <4> QED BY <1>0, <1>4, <4>1, <4>2, EntryOf DEF InitEntries
    <3> QED BY <3>1, <3>2
  <2> QED BY <2>9, <2>10, <2>11
<1> QED BY <1>8, <1>9

LEMMA InitHolds ==
    ASSUME Init
    PROVE  IInv
<1>0. /\ lay \in Layouts /\ Np \in Nat /\ lay.first \in Nat /\ lay.limit \in Nat
      /\ \A n \in 1 .. 9 + Np : Nth(n) \in lay.first .. lay.limit - 1
  BY InitFrames DEF Init
<1>1. /\ call = Idle /\ ph = "direct" /\ e = 1 /\ base = 0 /\ size = 0
      /\ vm = VMAP /\ need = 0 /\ order = MAX_ORDER - 1
      /\ nxt = Nth(9 + Np)
  BY DEF Init, Nth, Np
<1>2. call \in CallType /\ call.s = 0 /\ call.rest = 0
  BY <1>1 DEF Idle, OUT, CallType
<1>3. TypeInv
  <2>1. nxt \in lay.first .. lay.limit
    <3>1. 9 + Np \in 1 .. 9 + Np
      BY <1>0
    <3>2. nxt \in lay.first .. lay.limit - 1
      BY <1>0, <1>1, <3>1
    <3> QED BY <1>0, <3>2
  <2>2. mem \in [Frames -> TableType]
    BY InitTable DEF Memory
  <2>3. e \in 1 .. Len(lay.map) + 1
    <3>1. Len(lay.map) \in Nat
      BY <1>0, LayoutAssumption DEF Layout
    <3> QED BY <1>1, <3>1
  <2>4. vm \in Nat /\ order \in 0 .. MAX_ORDER - 1
    BY <1>1, Sizes, SizeAssumption
  <2> QED BY <1>0, <1>1, <1>2, <2>1, <2>2, <2>3, <2>4 DEF TypeInv, Phases
<1>4. \A w \in Program : IsMapped(w) => Digit(w, 3) = EN - 1
  BY InitWalks DEF IsMapped
<1>5. /\ \A w \in 0 .. VMAP - 1 : ~ IsMapped(w)
      /\ \A w \in VMAP .. WINDOW - 1 : ~ IsMapped(w)
  <2>1. ASSUME NEW w \in Program, w < WINDOW PROVE ~ IsMapped(w)
    <3>1. w \in VPages /\ w \in Nat
      BY ProgramPage
    <3>2. Digit(w, 3) = EN - 1 => w >= WINDOW
      BY <3>1, Areas
    <3>3. WINDOW \in Nat
      BY Sizes
    <3> QED BY <1>4, <2>1, <3>1, <3>2, <3>3
  <2>2. \A w \in 0 .. VMAP - 1 : w \in Program /\ w < WINDOW
    BY PagesAreProgram, Sizes
  <2>3. \A w \in VMAP .. WINDOW - 1 : w \in Program /\ w < WINDOW
    BY PagesAreProgram, Sizes
  <2> QED BY <2>1, <2>2, <2>3
<1>6. DirectInv
  <2>1. DIRECT + Upto <= VMAP
    <3>1. Upto = PageOf(0)
      BY <1>1 DEF Upto
    <3> QED BY <3>1, PageFacts, Sizes
  <2>5. VMAP \in Nat
    BY Sizes
  <2>2. e <= Len(lay.map) => base + size <= lay.map[e].base
    <3>1. ASSUME 1 <= Len(lay.map) PROVE lay.map[1].base \in Nat
      <4>1. 1 \in DOMAIN lay.map
        BY <1>3, <3>1, LayoutFacts
      <4> QED BY <1>3, <4>1, LayoutFacts
    <3> QED BY <1>1, <3>1
  <2>3. \A k \in 1 .. e - 1 : FALSE
    BY <1>1
  <2>4. /\ ph = "direct" /\ vm = VMAP /\ call.s = 0 /\ ~ call.s > 0 /\ call.rest = 0
        /\ \A w \in 0 .. VMAP - 1 : ~ IsMapped(w)
    BY <1>1, <1>2, <1>5
  <2> QED BY ONLY <2>1, <2>2, <2>3, <2>4 DEF DirectInv
<1>7. Outside(mem, InitLevel, nxt)
  <2>1. DOMAIN InitLevel \subseteq Nat /\ nxt \in Nat
    <3>1. DOMAIN InitLevel \subseteq lay.first .. nxt - 1
      BY InitTree DEF Tree
    <3>2. nxt \in Nat
      BY <1>0, <1>3 DEF TypeInv
    <3> QED BY <1>0, <3>1, <3>2
  <2>2. Fault \notin Nat /\ Fault < nxt
    BY <2>1, Frame DEF Fault
  <2> QED BY <2>1, <2>2, InitWalks DEF Outside
<1>8. CallInv(InitLevel)
  BY <1>2 DEF CallInv
<1>9. PagesInv(InitLevel)
  <2>1. \A w \in VMAP .. vm - 1 : FALSE
    BY <1>1, Sizes
  <2>2. VMAP <= vm
    BY <1>1, Sizes
  <2> QED BY <1>1, <1>5, <2>1, <2>2 DEF PagesInv
<1> QED BY <1>1, <1>2, <1>3, <1>6, <1>7, <1>8, <1>9, InitTree DEF IInv, TreeInv

-------------------------------------------------------------------------------
(* The loop that maps on without an end.                                        *)
LEMMA RunAwayKeeps ==
    ASSUME IInv, RunAway
    PROVE  IInv' /\ SameWalks
<1>1. /\ UNCHANGED <<lay, mem, nxt, e, base, size, vm, need, order>>
      /\ call' = Idle /\ ph' = "broken"
  BY DEF RunAway
<1>2. Idle \in CallType /\ Idle.s = 0 /\ Idle.rest = 0
  BY DEF Idle, OUT, CallType
<1>3. TypeInv'
  BY <1>1, <1>2 DEF IInv, TypeInv, Phases
<1>4. DirectInv'
  BY <1>1, <1>2 DEF DirectInv
<1>5. SameWalks
  BY <1>1 DEF SameWalks
<1> QED BY <1>1, <1>2, <1>3, <1>4, <1>5 DEF IInv

(* A step sends the page of the request elsewhere, or none.                     *)
Changes == SameWalks \/ (ph # "broken" /\ SetEntry /\ Sent)

LEMMA BrokenStops ==
    ASSUME IInv, ph = "broken"
    PROVE  ~ Next
<1>1. call.s = 0 /\ call.rest = 0
  BY DEF IInv, DirectInv
<1> QED BY <1>1 DEF Next, Start, RunAway, Descend, CreateTable, SetEntry, Join, Begin,
                    LastRegion, Chunk, ClearChunk, Mapped

LEMMA StepKeeps ==
    ASSUME IInv, [Next]_vars
    PROVE  IInv' /\ Changes
<1>1. CASE UNCHANGED vars
  <2>1. UNCHANGED <<lay, mem, nxt, call, ph, e, base, size, vm, need, order>>
    BY <1>1 DEF vars
  <2>2. SameWalks /\ SameRequest
    BY <2>1 DEF SameWalks, SameRequest, client
  <2>3. TypeInv /\ TypeInv' /\ DirectInv /\ (ph' = "broken" => call'.s = 0)
    BY <2>1 DEF IInv, TypeInv
  <2>4. DirectInv'
    BY <2>1, <2>2, <2>3, SameDirect
  <2>5. CASE ph = "broken"
    <3>1. ph' = "broken"
      BY <2>1, <2>5
    <3> QED BY <2>2, <2>3, <2>4, <3>1, Together DEF Changes
  <2>6. CASE ph # "broken"
    <3>1. PICK L : TreeInv(L)
      BY <2>6 DEF IInv
    <3>2. nxt \in Nat /\ nxt' \in Nat /\ nxt <= nxt'
      BY <2>1, <3>1, Facts
    <3>3. Newer(L, L) /\ SameContents(L)
      BY <2>1, <3>2 DEF Newer, SameContents
    <3>4. Tree(mem, L, nxt)' /\ Outside(mem, L, nxt)'
      BY <2>1, <3>1, <3>2, StillTree
    <3>5. PagesInv(L)'
      BY <2>1, <2>2, <2>6, <3>1, <3>2, <3>3, SamePages
    <3>6. CallInv(L)'
      <4>1. CallInv(L)
        BY <3>1 DEF TreeInv
      <4>2. CASE call.s > 0
        <5>1. call'.i # OUT =>
                 /\ call'.i >= call'.l
                 /\ call'.l = 1 => call.v % EN = 0 /\ call.s >= EN
                 /\ Tab(mem', call.v, call'.i) \in DOMAIN L
                 /\ L[Tab(mem', call.v, call'.i)] = call'.i
          BY <2>1, <4>1, <4>2 DEF CallInv
        <5> QED BY <2>1, <2>2, <4>1, <5>1, NextCall
      <4>3. CASE ~ call.s > 0
        BY <2>1, <4>3 DEF CallInv
      <4> QED BY <4>2, <4>3
    <3> QED BY <2>2, <2>3, <2>4, <3>4, <3>5, <3>6, Together DEF Changes
  <2> QED BY <2>5, <2>6
<1>2. CASE Next
  <2>1. ph # "broken"
    BY <1>2, BrokenStops
  <2>2. PICK L : TreeInv(L)
    BY <2>1 DEF IInv
  <2>3. CASE Start
    BY <2>2, <2>3, StartKeeps DEF Changes
  <2>4. CASE Descend
    BY <2>2, <2>4, DescendKeeps DEF Changes
  <2>5. CASE CreateTable
    BY <2>2, <2>5, CreateTableKeeps DEF Changes
  <2>6. CASE SetEntry
    BY <2>1, <2>2, <2>6, SetEntryKeeps, SetEntryWalks DEF Changes
  <2>7. CASE Join
    BY <2>2, <2>7, JoinKeeps DEF Changes
  <2>8. CASE Begin
    BY <2>2, <2>8, BeginKeeps DEF Changes
  <2>9. CASE LastRegion
    BY <2>2, <2>9, LastRegionKeeps DEF Changes
  <2>10. CASE Chunk
    BY <2>2, <2>10, ChunkKeeps DEF Changes
  <2>11. CASE ClearChunk
    BY <2>2, <2>11, ClearChunkKeeps DEF Changes
  <2>12. CASE Mapped
    BY <2>2, <2>12, MappedKeeps DEF Changes
  <2>13. CASE RunAway
    BY <2>13, RunAwayKeeps DEF Changes
  <2> QED BY <1>2, <2>3, <2>4, <2>5, <2>6, <2>7, <2>8, <2>9, <2>10, <2>11, <2>12, <2>13
          DEF Next
<1> QED BY <1>1, <1>2

LEMMA Invariance == Spec => []IInv
<1>1. Init => IInv
  BY InitHolds
<1>2. IInv /\ [Next]_vars => IInv'
  BY StepKeeps
<1> QED BY <1>1, <1>2, PTL DEF Spec

(* Building the tables never changes where a page that is mapped leads to, and  *)
(* a step maps one page or one large block of pages that led nowhere, however   *)
(* large tables and memory are (pg.c:57-122).                                   *)
THEOREM Refinement == Spec => ImplementsAddressSpace
<1>1. Init => Mapping!Init
  <2>1. ASSUME Init PROVE Mapping!Init
    <3>1. mem \in Memory
      BY <2>1, InitTable
    <3>2. \A v \in Program : Walk(mem, Path(v)) \in Int
      BY <3>1, WalkType
    <3> QED BY <3>2 DEF Mapping!Init, Translate
  <2> QED BY <2>1
<1>2. IInv /\ [Next]_vars => [Mapping!Next]_Translate
  <2> SUFFICES ASSUME IInv, [Next]_vars PROVE [Mapping!Next]_Translate
    OBVIOUS
  <2>1. lay' = lay
    BY DEF vars, Next, Start, RunAway, Descend, CreateTable, SetEntry, Join, Begin,
           LastRegion, Chunk, ClearChunk, Mapped
  <2>2. \A w : Walk(mem, Path(w))' = Walk(mem', Path(w))
    <3>1. ASSUME NEW w PROVE Walk(mem, Path(w))' = Walk(mem', Path(w))
      BY <2>1, WalkNext
    <3> QED BY <3>1
  <2>3. CASE SameWalks
    BY <2>2, <2>3 DEF SameWalks, Translate
  <2>4. CASE ph # "broken" /\ SetEntry /\ Sent
    <3>1. PICK L : TreeInv(L)
      BY <2>4 DEF IInv
    <3>2. PICK v, p, n : v = call.v /\ p = call.p /\ n = Stride
      OBVIOUS
    <3>3. call.s > 0 /\ call.i = call.l
      BY <2>4 DEF SetEntry
    <3>4. /\ n \in Nat /\ n > 0 /\ v \in Nat /\ p \in Nat
          /\ n = 1 \/ (n = LARGE /\ v % LARGE = 0)
          /\ \A w \in v .. v + n - 1 : w \in Program /\ Walk(mem, Path(w)) = Fault
      BY <3>1, <3>2, <3>3, StrideFacts DEF LARGE, IsMapped
    <3>5. PICK old, new : old = Translate /\ new = Translate'
      OBVIOUS
    <3>6. /\ DOMAIN old = Program
          /\ \A w \in Program : old[w] = Walk(mem, Path(w))
          /\ \A w \in Program : new[w] = IF w \in v .. v + n - 1 THEN p + (w - v)
                                         ELSE old[w]
      BY <2>2, <2>4, <3>2, <3>5 DEF Translate, Sent
    <3>7. v \in v .. v + n - 1 /\ new[v] = p
      BY <3>4, <3>6
    <3>8. Mapping!Maps(old, new, v, n)
      <4>1. ASSUME NEW w \in v .. v + n - 1
            PROVE  /\ w \in DOMAIN old /\ old[w] = Fault
                   /\ new[w] # Fault /\ new[w] = new[v] + (w - v)
        <5>1. p + (w - v) \in Nat
          BY <3>4
        <5> QED BY <3>4, <3>6, <3>7, <5>1, Frame
      <4>2. \A w \in DOMAIN old \ (v .. v + n - 1) : new[w] = old[w]
        BY <3>6
      <4> QED BY <4>1, <4>2 DEF Mapping!Maps
    <3>9. v \in DOMAIN old
      BY <3>4, <3>6, <3>7
    <3>10. Mapping!Grows(old, new)
      BY <3>4, <3>8, <3>9 DEF Mapping!Grows
    <3> QED BY <3>5, <3>10 DEF Mapping!Next
  <2> QED BY <2>3, <2>4, StepKeeps DEF Changes
<1> QED BY <1>1, <1>2, Invariance, PTL DEF Spec, ImplementsAddressSpace, Mapping!Spec

-------------------------------------------------------------------------------
LEMMA LeadsDown ==
    ASSUME NEW L, Tree(mem, L, nxt), NEW T, NEW i \in 1 .. 3,
           \A f \in T : f \in DOMAIN L /\ L[f] = i
    PROVE  /\ Leads(T) \subseteq Entries(mem, L)
           /\ \A x \in Leads(T) : ~ mem[x[1]][x[2]].ps
           /\ \A f \in Under(T) : f \in DOMAIN L /\ L[f] = i - 1
<1>1. ASSUME NEW x \in Leads(T)
      PROVE  x \in Entries(mem, L) /\ ~ mem[x[1]][x[2]].ps
  BY DEF Leads, Entries, Keys
<1>2. ASSUME NEW f \in Under(T) PROVE f \in DOMAIN L /\ L[f] = i - 1
  <2>1. PICK x \in Leads(T) : f = mem[x[1]][x[2]].at
    BY DEF Under
  <2>2. L[x[1]] = i
    BY DEF Leads
  <2> QED BY <1>1, <2>1, <2>2 DEF Tree
<1> QED BY <1>1, <1>2

(* The tables stay a tree, of pages of their own: in however many steps and in  *)
(* whatever order memory is mapped, no page of the kernel, of its stack or of   *)
(* the descriptors becomes a table (pg.c:66-80).                                *)
THEOREM TablesStayApart == Spec => []TablesApart
<1>1. IInv => TablesApart
  <2> SUFFICES ASSUME IInv, ph # "broken"
               PROVE  /\ \A x, y \in Leads({PML4} \cup Pdpts \cup Pds) :
                            mem[x[1]][x[2]].at = mem[y[1]][y[2]].at => x = y
                      /\ Pdpts \cap Pds = {} /\ Pdpts \cap Pts = {} /\ Pds \cap Pts = {}
                      /\ PML4 \notin Pdpts \cup Pds \cup Pts
                      /\ Tables \subseteq lay.first .. nxt - 1
                      /\ \A v \in Program \ (DIRECT .. VMAP - 1) : Walk(mem, Path(v)) \notin Tables
    BY DEF TablesApart
  <2>1. PICK L : TreeInv(L)
    BY DEF IInv
  <2>2. Tree(mem, L, nxt) /\ Outside(mem, L, nxt)
    BY <2>1 DEF TreeInv
  <2>3. \A f \in {PML4} : f \in DOMAIN L /\ L[f] = 3
    BY <2>2 DEF Tree
  <2>4. /\ \A f \in Pdpts : f \in DOMAIN L /\ L[f] = 2
        /\ Leads({PML4}) \subseteq Entries(mem, L)
        /\ \A x \in Leads({PML4}) : ~ mem[x[1]][x[2]].ps
    BY <2>2, <2>3, LeadsDown DEF Pdpts
  <2>5. /\ \A f \in Pds : f \in DOMAIN L /\ L[f] = 1
        /\ Leads(Pdpts) \subseteq Entries(mem, L)
        /\ \A x \in Leads(Pdpts) : ~ mem[x[1]][x[2]].ps
    BY <2>2, <2>4, LeadsDown DEF Pds
  <2>6. /\ \A f \in Pts : f \in DOMAIN L /\ L[f] = 0
        /\ Leads(Pds) \subseteq Entries(mem, L)
        /\ \A x \in Leads(Pds) : ~ mem[x[1]][x[2]].ps
    BY <2>2, <2>5, LeadsDown DEF Pts
  <2>7. ASSUME NEW x \in Leads({PML4} \cup Pdpts \cup Pds),
               NEW y \in Leads({PML4} \cup Pdpts \cup Pds),
               mem[x[1]][x[2]].at = mem[y[1]][y[2]].at
        PROVE  x = y
    <3>1. \A z \in Leads({PML4} \cup Pdpts \cup Pds) :
             z \in Leads({PML4}) \/ z \in Leads(Pdpts) \/ z \in Leads(Pds)
      BY DEF Leads
    <3>2. \A z \in Leads({PML4} \cup Pdpts \cup Pds) :
             z \in Entries(mem, L) /\ ~ mem[z[1]][z[2]].ps
      BY <2>4, <2>5, <2>6, <3>1
    <3> QED BY <2>2, <2>7, <3>2 DEF Tree
  <2>8. Tables \subseteq DOMAIN L
    BY <2>3, <2>4, <2>5, <2>6 DEF Tables
  <2>9. Tables \subseteq lay.first .. nxt - 1
    BY <2>2, <2>8 DEF Tree
  <2>10. ASSUME NEW v \in Program \ (DIRECT .. VMAP - 1)
         PROVE  Walk(mem, Path(v)) \notin Tables
    <3>1. v < DIRECT \/ v >= VMAP
      BY ProgramPage, Sizes
    <3> QED BY <2>2, <2>8, <3>1 DEF Outside
  <2>11. /\ Pdpts \cap Pds = {} /\ Pdpts \cap Pts = {} /\ Pds \cap Pts = {}
         /\ PML4 \notin Pdpts /\ PML4 \notin Pds /\ PML4 \notin Pts
    <3>1. /\ \A f \in Pdpts : L[f] = 2
          /\ \A f \in Pds : L[f] = 1
          /\ \A f \in Pts : L[f] = 0
          /\ L[PML4] = 3
      BY <2>3, <2>4, <2>5, <2>6
    <3> HIDE DEF Pdpts, Pds, Pts
    <3> QED BY ONLY <3>1
  <2> QED BY <2>7, <2>9, <2>10, <2>11
<1> QED BY <1>1, Invariance, PTL

(* pg_vma2pma, which reads the tables through themselves, finds what the MMU    *)
(* finds.                                                                       *)
LEMMA Vma2PmaIsWalk ==
    ASSUME IInv, NEW L, TreeInv(L), NEW v \in Program
    PROVE  Vma2Pma(v) = IF Walk(mem, Path(v)) = Fault THEN 0 ELSE Walk(mem, Path(v))
<1>1. mem \in Memory /\ Tree(mem, L, nxt) /\ DOMAIN L \subseteq Frames
  BY Facts
<1>2. \A i \in 0 .. 3 : Walk(mem, PgDir(v, i)) = Tab(mem, v, i)
  BY <1>1, Reached
<1>3. /\ PgEnt(v, 3) = Ent3(mem, v) /\ PgEnt(v, 2) = Ent2(mem, v)
      /\ PgEnt(v, 1) = Ent1(mem, v) /\ PgEnt(v, 0) = Ent0(mem, v)
  BY <1>2, TabIs DEF PgEnt, Ent3, Ent2, Ent1, Ent0
<1>4. ~ Ent3(mem, v).ps /\ ~ Ent2(mem, v).ps
  BY <1>1, Levels
<1>5. /\ Digit(v, 2) \in Keys /\ Digit(v, 1) \in Keys /\ Digit(v, 0) \in Keys
      /\ Digit(v, 0) \in Nat
  BY ProgramPage, Sizes DEF Keys
<1>6. \A k \in Keys : Entered(mem, Fault, k) = Entry(Fault, FALSE)
  BY BlankFault DEF Blank
<1>7. Entry(Fault, FALSE).at = Fault /\ ~ Entry(Fault, FALSE).ps
  BY DEF Entry
<1>8. /\ Ent3(mem, v).at = Fault => Ent2(mem, v).at = Fault
      /\ Ent2(mem, v).at = Fault => Ent1(mem, v).at = Fault
      /\ Ent1(mem, v).at = Fault => Ent0(mem, v).at = Fault /\ ~ Ent1(mem, v).ps
  <2>1. Ent3(mem, v).at = Fault => Ent2(mem, v).at = Fault
    BY <1>5, <1>6, <1>7 DEF Ent2
  <2>2. Ent2(mem, v).at = Fault => Ent1(mem, v).at = Fault /\ ~ Ent1(mem, v).ps
    BY <1>5, <1>6, <1>7 DEF Ent1
  <2>3. Ent1(mem, v).at = Fault => Ent0(mem, v).at = Fault
    BY <1>5, <1>6, <1>7 DEF Ent0
  <2>4. Ent1(mem, v).at = Fault => ~ Ent1(mem, v).ps
    BY <1>1, Levels, Frame
  <2> QED BY <2>1, <2>2, <2>3, <2>4
<1>9. Ent1(mem, v).ps => Ent1(mem, v).at + Digit(v, 0) # Fault
  <2>1. Ent1(mem, v).ps => Ent1(mem, v).at \in Nat
    BY <1>1, Levels
  <2> QED BY <1>5, <2>1 DEF Fault
<1>10. Walk(mem, Path(v)) = IF Ent1(mem, v).ps THEN Ent1(mem, v).at + Digit(v, 0)
                            ELSE Ent0(mem, v).at
  BY WalkIs
<1>11. PICK e3, e2, e1, e0 : /\ e3 = Ent3(mem, v) /\ e2 = Ent2(mem, v)
                             /\ e1 = Ent1(mem, v) /\ e0 = Ent0(mem, v)
  OBVIOUS
<1>12. Vma2Pma(v) =
         CASE ~ (e3.at # Fault) -> 0
           [] e3.at # Fault /\ e3.ps -> e3.at
           [] e3.at # Fault /\ ~ (e2.at # Fault) -> 0
           [] e3.at # Fault /\ e2.at # Fault /\ e2.ps -> e2.at
           [] e3.at # Fault /\ e2.at # Fault /\ ~ (e1.at # Fault) -> 0
           [] e3.at # Fault /\ e2.at # Fault /\ e1.at # Fault /\ e1.ps ->
                 e1.at + Digit(v, 0)
           [] OTHER -> IF e0.at # Fault THEN e0.at ELSE 0
  BY <1>3, <1>11 DEF Vma2Pma
<1> QED BY <1>4, <1>8, <1>9, <1>10, <1>11, <1>12

(* Whatever memory the machine has, and wherever its regions begin and end,     *)
(* once kmain is through every page whose last byte is in the map is mapped     *)
(* directly, every whole usable page has a cleared descriptor, and pg_vma2pma   *)
(* agrees with the MMU (kmain.c:115-175, pg.c:149).  Where the regions that     *)
(* adjoin are not whole pages together kmain never gets through.                *)
THEOREM AllMapped == Spec => []EverythingMapped
<1>1. IInv => EverythingMapped
  <2> SUFFICES ASSUME IInv, ph = "done"
               PROVE  /\ \A p \in InMap : Walk(mem, Path(DIRECT + p)) = p
                      /\ \A p \in 0 .. NPages(lay) - 1 : \A v \in DescPagesOf(p) :
                            LET d == Walk(mem, Path(v))
                            IN d \in lay.first .. nxt - 1 /\ mem[d] = Zeroed
                      /\ \A v \in Program : LET f == Walk(mem, Path(v))
                                            IN Vma2Pma(v) = IF f = Fault THEN 0 ELSE f
    BY DEF EverythingMapped
  <2>1. PICK L : TreeInv(L)
    BY DEF IInv
  <2>2. TypeInv /\ DirectInv /\ CallInv(L) /\ PagesInv(L)
    BY <2>1 DEF IInv, TreeInv
  <2>3. ~ call.s > 0
    BY <2>2 DEF CallInv
  <2>4. ASSUME NEW p \in InMap PROVE Walk(mem, Path(DIRECT + p)) = p
    <3>1. PICK k \in DOMAIN lay.map : InRegion(k, p)
      BY DEF InMap, InRegion
    <3>2. k \in 1 .. e - 1
      <4>1. e = Len(lay.map) + 1
        BY <2>2 DEF DirectInv
      <4>2. DOMAIN lay.map = 1 .. Len(lay.map) /\ Len(lay.map) \in Nat
        BY <2>2, LayoutFacts
      <4> QED BY ONLY <4>1, <4>2, k \in DOMAIN lay.map
    <3>3. p \in Nat
      <4>1. PICK x : x = PageOf(lay.map[k].base)
        OBVIOUS
      <4>2. x \in Nat /\ p >= x
        BY <2>2, <3>1, <4>1, LayoutFacts, PageFacts DEF InRegion
      <4>3. p \in Int
        BY <3>1 DEF InRegion
      <4> QED BY ONLY <4>2, <4>3
    <3>4. call.rest = 0
      BY <2>2 DEF DirectInv
    <3> QED BY <2>2, <2>3, <3>1, <3>2, <3>3, <3>4 DEF DirectInv
  <2>5. ASSUME NEW p \in 0 .. NPages(lay) - 1, NEW v \in DescPagesOf(p)
        PROVE  /\ Walk(mem, Path(v)) \in lay.first .. nxt - 1
               /\ mem[Walk(mem, Path(v))] = Zeroed
    <3>1. need = 0 /\ vm + need = VMAP + DescPages(lay)
      BY <2>2 DEF PagesInv
    <3>2. vm = VMAP + DescPages(lay)
      BY <2>2, <3>1 DEF TypeInv
    <3>3. v \in VMAP .. vm - 1
      <4>1. v \in VMAP .. VMAP + DescPages(lay) - 1
        BY <2>2, MemoryEnds
      <4>2. VMAP \in Nat /\ DescPages(lay) \in Nat
        BY <2>2, MemoryEnds, Sizes
      <4> QED BY <3>2, <4>1, <4>2
    <3> QED BY <2>2, <3>3 DEF PagesInv
  <2>6. \A v \in Program :
           Vma2Pma(v) = IF Walk(mem, Path(v)) = Fault THEN 0 ELSE Walk(mem, Path(v))
    BY <2>1, Vma2PmaIsWalk
  <2> QED BY <2>4, <2>5, <2>6
<1> QED BY <1>1, Invariance, PTL
===============================================================================
