--------------------------- MODULE LargeBins_proofs ---------------------------
(* Proofs about the tries of the large bins for chunks of every length and    *)
(* any number of them.                                                        *)
EXTENDS MCLargeBins, NatLemmas

-------------------------------------------------------------------------------
(* Bits of a length.                                                          *)

Lengths == 2^8 .. 2^(DEPTH + 1) - 1
Key(s, d) == mm_key_large(s, d)
Slot(s) == mm_slot_large(s)

(* The levels of a trie, at most: the bits behind the highest three.          *)
Levels == DEPTH - 2

(* Lengths s and t take the same way d levels down.                           *)
Agree(s, t, d) == \A e \in 0 .. d - 1 : Key(s, e) = Key(t, e)

(* The length s without its lowest n bits.                                    *)
Above(s, n) == s \div 2^n

LEMMA Powers ==
    ASSUME NEW n \in 0 .. DEPTH + 1
    PROVE  2^n \in Nat \ {0}
<1>1. CASE n \in 0 .. DEPTH
  BY <1>1, PowerAssumption
<1>2. CASE n = DEPTH + 1
  <2>1. DEPTH \in 0 .. DEPTH
    BY DEF DEPTH
  <2>2. 2^DEPTH \in Nat \ {0} /\ 2^(DEPTH + 1) = 2 * 2^DEPTH
    BY <2>1, PowerAssumption
  <2>3. 2 * 2^DEPTH \in Nat \ {0}
    BY <2>2
  <2> QED BY <1>2, <2>2, <2>3
<1> QED BY <1>1, <1>2 DEF DEPTH

LEMMA PowersGrow ==
    ASSUME NEW m \in 0 .. DEPTH + 1, NEW n \in 0 .. DEPTH + 1, m <= n
    PROVE  2^m <= 2^n
<1> DEFINE Bad == {k \in Nat : m + k <= DEPTH + 1 /\ ~(2^m <= 2^(m + k))}
<1>1. Bad = {}
  <2> SUFFICES ASSUME Bad # {} PROVE FALSE
    OBVIOUS
  <2>1. PICK k \in Bad : \A j \in Bad : k <= j
    <3>1. Bad \in SUBSET Nat
      OBVIOUS
    <3> HIDE DEF Bad
    <3> QED BY <3>1, LeastNat
  <2>2. k \in Nat /\ m + k <= DEPTH + 1 /\ ~(2^m <= 2^(m + k))
    OBVIOUS
  <2>3. CASE k = 0
    <3>1. m + k = m /\ 2^m \in Nat
      BY <2>2, <2>3, Powers
    <3> QED BY <2>2, <3>1
  <2>4. CASE k # 0
    <3>1. PICK j \in Nat : k = j + 1
      <4>1. k - 1 \in Nat /\ k = (k - 1) + 1
        BY <2>2, <2>4
      <4> QED BY <4>1
    <3>2. 2^m <= 2^(m + j)
      BY <2>1, <2>2, <3>1 DEF DEPTH
    <3>3. m + j \in 0 .. DEPTH /\ m + k = (m + j) + 1
      BY <2>2, <3>1 DEF DEPTH
    <3>4. 2^(m + j) \in Nat \ {0} /\ 2^(m + k) = 2 * 2^(m + j) /\ 2^m \in Nat
      BY <3>3, PowerAssumption, Powers
    <3> QED BY <2>2, <3>2, <3>4
  <2> QED BY <2>3, <2>4
<1>2. PICK k \in Nat : n = m + k
  <2>1. n - m \in Nat /\ n = m + (n - m)
    BY DEF DEPTH
  <2> QED BY <2>1
<1>3. m + k <= DEPTH + 1
  BY <1>2 DEF DEPTH
<1> QED BY <1>1, <1>2, <1>3

(* Halving.                                                                   *)
LEMMA DivHalf ==
    ASSUME NEW v \in Nat, NEW p \in Nat \ {0}
    PROVE  /\ v \div p = 2 * (v \div (2 * p)) + ((v \div p) % 2)
           /\ v \div (2 * p) \in Nat /\ (v \div p) % 2 \in 0 .. 1
<1>1. PICK a \in Nat, r \in 0 .. p - 1 : v = a * p + r /\ a = v \div p
  BY DivMod
<1>2. PICK b \in Nat, c \in 0 .. 1 : a = 2 * b + c /\ c = a % 2 /\ b = a \div 2
  BY <1>1
<1>3. 2 * p \in Nat \ {0} /\ c * p + r \in 0 .. 2 * p - 1
  BY <1>2
<1>4. v = b * (2 * p) + (c * p + r)
  <2>1. a * p = b * (2 * p) + c * p
    BY <1>2
  <2> QED BY <1>1, <2>1
<1>5. v \div (2 * p) = b
  <2>1. PICK x \in Nat, y \in 0 .. 2 * p - 1 : v = x * (2 * p) + y /\ x = v \div (2 * p)
    BY <1>3, DivMod
  <2>2. PICK q \in Nat \ {0} : q = 2 * p
    BY <1>3
  <2>3. PICK z \in 0 .. q - 1 : z = c * p + r
    BY <1>3, <2>2
  <2>4. x * q + y = b * q + z /\ y \in 0 .. q - 1
    BY <1>4, <2>1, <2>2, <2>3
  <2>5. ~(x < b)
    <3>1. x < b => x * q + q <= b * q /\ x * q \in Nat /\ b * q \in Nat
      BY <2>1, MulLess
    <3> QED BY <2>3, <2>4, <3>1, <1>2
  <2>6. ~(b < x)
    <3>1. b < x => b * q + q <= x * q /\ x * q \in Nat /\ b * q \in Nat
      BY <2>1, MulLess
    <3> QED BY <2>3, <2>4, <3>1, <1>2
  <2> QED BY <2>1, <2>5, <2>6
<1>6. v \div p = 2 * b + c /\ (v \div p) % 2 = c
  BY <1>1, <1>2
<1> QED BY ONLY <1>2, <1>5, <1>6

LEMMA AboveStep ==
    ASSUME NEW s \in Nat, NEW n \in 0 .. DEPTH
    PROVE  /\ Above(s, n) = 2 * Above(s, n + 1) + Bit(s, n)
           /\ Above(s, n) \in Nat /\ Above(s, n + 1) \in Nat /\ Bit(s, n) \in 0 .. 1
<1>1. PICK p \in Nat \ {0} : p = 2^n /\ 2^(n + 1) = 2 * p
  BY PowerAssumption
<1>2. Bit(s, n) = (s \div p) % 2
  BY <1>1 DEF Bit
<1>3. Above(s, n) = s \div p /\ Above(s, n + 1) = s \div (2 * p)
  BY <1>1 DEF Above
<1>4. s \div p \in Nat
  BY DivMod
<1> QED BY <1>2, <1>3, <1>4, DivHalf

(* What is less without its lowest bits is less.                              *)
LEMMA AboveLess ==
    ASSUME NEW s \in Nat, NEW t \in Nat, NEW n \in 0 .. DEPTH, Above(s, n) < Above(t, n)
    PROVE  s < t
<1>1. PICK p \in Nat \ {0} : p = 2^n
  BY PowerAssumption
<1>2. PICK a \in Nat, r \in 0 .. p - 1 : s = a * p + r /\ a = Above(s, n)
  BY <1>1, DivMod DEF Above
<1>3. PICK b \in Nat, q \in 0 .. p - 1 : t = b * p + q /\ b = Above(t, n)
  BY <1>1, DivMod DEF Above
<1>4. a * p + p <= b * p /\ a * p \in Nat /\ b * p \in Nat
  BY <1>2, <1>3, MulLess
<1> QED BY <1>2, <1>3, <1>4

LEMMA LengthsNat == ASSUME NEW s \in Lengths PROVE s \in Nat
<1>1. 2^8 \in Nat /\ 2^(DEPTH + 1) \in Nat
  <2>1. 8 \in 0 .. DEPTH + 1 /\ DEPTH + 1 \in 0 .. DEPTH + 1
    BY DEF DEPTH
  <2> QED BY <2>1, Powers
<1> QED BY <1>1 DEF Lengths

LEMMA HighBitIs ==
    ASSUME NEW s \in Lengths
    PROVE  /\ HighBit(s) \in 8 .. DEPTH
           /\ 2^HighBit(s) <= s /\ s < 2^(HighBit(s) + 1)
<1>1. s \in Nat /\ 2^8 <= s /\ s < 2^(DEPTH + 1)
  <2>1. 2^8 \in Nat /\ 2^(DEPTH + 1) \in Nat
    BY Powers DEF DEPTH
  <2> QED BY <2>1 DEF Lengths
<1> DEFINE S == {n \in 0 .. DEPTH : s < 2^(n + 1)}
<1>2. DEPTH \in S /\ S \in SUBSET Nat
  BY <1>1 DEF DEPTH
<1>3. PICK n \in S : \A m \in S : n <= m
  <2> HIDE DEF S
  <2> QED BY <1>2, LeastNat
<1>4. n \in 0 .. DEPTH /\ s < 2^(n + 1)
  OBVIOUS
<1>5. ASSUME NEW m \in 0 .. DEPTH, s < 2^(m + 1) PROVE m >= 8
  <2>1. SUFFICES ASSUME m < 8 PROVE FALSE
    BY DEF DEPTH
  <2>2. PICK k \in 0 .. 8 : k = m + 1
    BY <2>1 DEF DEPTH
  <2>3. k \in 0 .. DEPTH + 1 /\ 8 \in 0 .. DEPTH + 1
    BY DEF DEPTH
  <2>4. PICK j \in 0 .. DEPTH + 1 : j = 8 /\ k <= j
    BY <2>2, <2>3
  <2>5. 2^k <= 2^j /\ 2^k \in Nat /\ 2^j \in Nat
    BY <2>3, <2>4, PowersGrow, Powers
  <2> QED BY <1>1, <1>5, <2>2, <2>4, <2>5
<1>6. 2^n <= s
  <2>1. n >= 8
    BY <1>4, <1>5
  <2>2. PICK m \in 0 .. DEPTH : n = m + 1
    <3>1. n - 1 \in 0 .. DEPTH /\ n = (n - 1) + 1
      BY <1>4, <2>1 DEF DEPTH
    <3> QED BY <3>1
  <2>3. m \notin S
    BY <1>3, <1>4, <2>2
  <2>4. ~(s < 2^n) /\ 2^n \in Nat
    <3>1. n \in 0 .. DEPTH + 1
      BY <1>4 DEF DEPTH
    <3> QED BY <2>2, <2>3, <3>1, Powers
  <2> QED BY <1>1, <2>4
<1>7. \E m \in 0 .. DEPTH : 2^m <= s /\ s < 2^(m + 1)
  BY <1>4, <1>6
<1> HIDE DEF S
<1>8. HighBit(s) \in 0 .. DEPTH /\ 2^HighBit(s) <= s /\ s < 2^(HighBit(s) + 1)
  BY <1>7 DEF HighBit
<1> QED BY <1>5, <1>8

(* The bin is the number of bits with the highest three of them.              *)
LEMMA SlotIs ==
    ASSUME NEW s \in Lengths, NEW h \in 8 .. DEPTH, h = HighBit(s)
    PROVE  /\ Slot(s) = 4 * (h - 8) + Above(s, h - 2) - 4
           /\ Above(s, h - 2) \in 4 .. 7
           /\ Slot(s) \in 0 .. LB_COUNT - 1
<1>1. s \in Nat /\ 2^h <= s /\ s < 2^(h + 1)
  BY HighBitIs, LengthsNat
<1>2. Above(s, h) = 1
  <2>1. PICK p \in Nat \ {0} : p = 2^h /\ 2^(h + 1) = 2 * p
    BY PowerAssumption
  <2>2. PICK a \in Nat, r \in 0 .. p - 1 : s = a * p + r /\ a = Above(s, h)
    BY <1>1, <2>1, DivMod DEF Above
  <2>3. p <= s /\ s < 2 * p
    BY <1>1, <2>1
  <2>4. a # 0
    BY <2>2, <2>3
  <2>5. a > 1 => a * p >= 2 * p
    <3>1. 1 < a => 1 * p + p <= a * p
      BY <2>2, MulLess
    <3> QED BY <2>2, <3>1
  <2> QED BY <2>2, <2>3, <2>4, <2>5
<1>3. PICK i \in 0 .. DEPTH, j \in 0 .. DEPTH :
        i = h - 1 /\ j = h - 2 /\ i + 1 = h /\ j + 1 = i
  BY DEF DEPTH
<1>4. Above(s, i) = 2 + Bit(s, i) /\ Bit(s, i) \in 0 .. 1
  BY <1>1, <1>2, <1>3, AboveStep
<1>5. Above(s, j) = 2 * Above(s, i) + Bit(s, j) /\ Bit(s, j) \in 0 .. 1
  BY <1>1, <1>3, AboveStep
<1>6. Slot(s) = 4 * (h - 8) + 2 * Bit(s, i) + Bit(s, j)
  BY <1>3 DEF Slot, mm_slot_large
<1> QED BY <1>3, <1>4, <1>5, <1>6 DEF DEPTH, LB_COUNT

LEMMA KeyIs ==
    ASSUME NEW s \in Lengths, NEW d \in Nat, NEW h \in 8 .. DEPTH, h = HighBit(s)
    PROVE  /\ Key(s, d) \in 0 .. 1
           /\ d > h - 3 => Key(s, d) = 0
           /\ d <= h - 3 =>
                /\ Above(s, h - 2 - (d + 1)) = 2 * Above(s, h - 2 - d) + Key(s, d)
                /\ Above(s, h - 2 - d) \in Nat
<1>1. s \in Nat
  BY LengthsNat
<1>2. Key(s, d) = Bit(s, h - 3 - d)
  BY DEF Key, mm_key_large
<1>3. CASE d > h - 3
  BY <1>2, <1>3 DEF Bit
<1>4. CASE d <= h - 3
  <2>1. PICK n \in 0 .. DEPTH : n = h - 3 - d /\ n + 1 = h - 2 - d /\ n = h - 2 - (d + 1)
    BY <1>4 DEF DEPTH
  <2>2. Key(s, d) = Bit(s, n)
    BY <1>2, <2>1
  <2> QED BY <1>1, <1>4, <2>1, <2>2, AboveStep
<1> QED BY <1>3, <1>4

(* Two lengths of one bin have as many bits.                                  *)
LEMMA SameBin ==
    ASSUME NEW s \in Lengths, NEW t \in Lengths, Slot(s) = Slot(t)
    PROVE  /\ HighBit(s) = HighBit(t)
           /\ Above(s, HighBit(s) - 2) = Above(t, HighBit(s) - 2)
<1>1. PICK h \in 8 .. DEPTH, g \in 8 .. DEPTH : h = HighBit(s) /\ g = HighBit(t)
  BY HighBitIs
<1>2. /\ Slot(s) = 4 * (h - 8) + Above(s, h - 2) - 4 /\ Above(s, h - 2) \in 4 .. 7
      /\ Slot(t) = 4 * (g - 8) + Above(t, g - 2) - 4 /\ Above(t, g - 2) \in 4 .. 7
  BY <1>1, SlotIs
<1>3. PICK a \in 4 .. 7, b \in 4 .. 7 : a = Above(s, h - 2) /\ b = Above(t, g - 2)
  BY <1>2
<1>4. 4 * (h - 8) + a - 4 = 4 * (g - 8) + b - 4 /\ h \in Nat /\ g \in Nat
  <2>1. h \in Nat /\ g \in Nat
    BY DEF DEPTH
  <2> QED BY <1>2, <1>3, <2>1
<1>5. h = g /\ a = b
  BY ONLY <1>3, <1>4
<1> QED BY <1>1, <1>3, <1>5

LEMMA SlotOrder ==
    ASSUME NEW s \in Lengths, NEW t \in Lengths, Slot(s) < Slot(t)
    PROVE  s < t
<1>1. PICK h \in 8 .. DEPTH, g \in 8 .. DEPTH : h = HighBit(s) /\ g = HighBit(t)
  BY HighBitIs
<1>2. /\ Slot(s) = 4 * (h - 8) + Above(s, h - 2) - 4 /\ Above(s, h - 2) \in 4 .. 7
      /\ Slot(t) = 4 * (g - 8) + Above(t, g - 2) - 4 /\ Above(t, g - 2) \in 4 .. 7
  BY <1>1, SlotIs
<1>3. h <= g /\ (h = g => Above(s, h - 2) < Above(t, h - 2))
  BY <1>2 DEF DEPTH
<1>4. s \in Nat /\ t \in Nat
  BY LengthsNat
<1>5. CASE h = g
  <2>1. PICK n \in 0 .. DEPTH : n = h - 2
    BY DEF DEPTH
  <2> QED BY <1>3, <1>4, <1>5, <2>1, AboveLess
<1>6. CASE h < g
  <2>1. s < 2^(h + 1) /\ 2^g <= t
    BY <1>1, HighBitIs
  <2>2. PICK k \in 0 .. DEPTH + 1 : k = h + 1 /\ k <= g
    BY <1>6 DEF DEPTH
  <2>3. g \in 0 .. DEPTH + 1
    BY DEF DEPTH
  <2>4. 2^k <= 2^g /\ 2^k \in Nat /\ 2^g \in Nat
    BY <2>2, <2>3, PowersGrow, Powers
  <2> QED BY <1>4, <2>1, <2>2, <2>4
<1> QED BY <1>3, <1>5, <1>6

(* Lengths of a bin that agree in d bits of the key are equal but for the     *)
(* bits below.                                                                *)
LEMMA AgreeAbove ==
    ASSUME NEW s \in Lengths, NEW t \in Lengths, Slot(s) = Slot(t),
           NEW h \in 8 .. DEPTH, h = HighBit(s), NEW d \in 0 .. h - 2, Agree(s, t, d)
    PROVE  Above(s, h - 2 - d) = Above(t, h - 2 - d)
<1> DEFINE Bad == {e \in Nat : e <= d /\ Above(s, h - 2 - e) # Above(t, h - 2 - e)}
<1>1. Bad = {}
  <2> SUFFICES ASSUME Bad # {} PROVE FALSE
    OBVIOUS
  <2>1. PICK e \in Bad : \A k \in Bad : e <= k
    <3>1. Bad \in SUBSET Nat
      OBVIOUS
    <3> HIDE DEF Bad
    <3> QED BY <3>1, LeastNat
  <2>2. e \in Nat /\ e <= d /\ Above(s, h - 2 - e) # Above(t, h - 2 - e)
    OBVIOUS
  <2>3. e # 0
    <3>1. h - 2 - 0 = h - 2
      OBVIOUS
    <3> QED BY <2>2, <3>1, SameBin
  <2>4. PICK k \in Nat : e = k + 1
    <3>1. e - 1 \in Nat /\ e = (e - 1) + 1
      BY <2>2, <2>3
    <3> QED BY <3>1
  <2>5. Above(s, h - 2 - k) = Above(t, h - 2 - k)
    BY <2>1, <2>2, <2>4
  <2>6. Key(s, k) = Key(t, k) /\ k <= h - 3
    BY <2>2, <2>4 DEF Agree
  <2>7. h = HighBit(t)
    BY SameBin
  <2>8. /\ Above(s, h - 2 - (k + 1)) = 2 * Above(s, h - 2 - k) + Key(s, k)
        /\ Above(t, h - 2 - (k + 1)) = 2 * Above(t, h - 2 - k) + Key(t, k)
    BY <2>6, <2>7, KeyIs
  <2> QED BY <2>2, <2>4, <2>5, <2>6, <2>8
<1>2. d \in Nat /\ d <= d /\ d \notin Bad
  BY <1>1
<1> QED BY <1>2

LEMMA KeyOrder ==
    ASSUME NEW s \in Lengths, NEW t \in Lengths, Slot(s) = Slot(t),
           NEW d \in Nat, Agree(s, t, d), Key(s, d) = 0, Key(t, d) = 1
    PROVE  s < t
<1>1. PICK h \in 8 .. DEPTH : h = HighBit(s) /\ h = HighBit(t)
  BY HighBitIs, SameBin
<1>2. d <= h - 3
  BY <1>1, KeyIs DEF DEPTH
<1>3. /\ Above(s, h - 2 - (d + 1)) = 2 * Above(s, h - 2 - d) + 0
      /\ Above(t, h - 2 - (d + 1)) = 2 * Above(t, h - 2 - d) + 1
      /\ Above(s, h - 2 - d) \in Nat
  <2>1. /\ Above(s, h - 2 - (d + 1)) = 2 * Above(s, h - 2 - d) + Key(s, d)
        /\ Above(s, h - 2 - d) \in Nat
    BY <1>1, <1>2, KeyIs
  <2>2. Above(t, h - 2 - (d + 1)) = 2 * Above(t, h - 2 - d) + Key(t, d)
    BY <1>1, <1>2, KeyIs
  <2> QED BY <2>1, <2>2
<1>4. Above(s, h - 2 - d) = Above(t, h - 2 - d)
  <2>1. d \in 0 .. h - 2
    BY <1>2
  <2> QED BY <1>1, <2>1, AgreeAbove
<1>5. PICK n \in 0 .. DEPTH : n = h - 2 - (d + 1)
  BY <1>2 DEF DEPTH
<1>6. s \in Nat /\ t \in Nat
  BY LengthsNat
<1>7. Above(s, n) < Above(t, n)
  BY <1>3, <1>4, <1>5
<1> QED BY <1>6, <1>7, AboveLess

LEMMA AllAgree ==
    ASSUME NEW s \in Lengths, NEW t \in Lengths, Slot(s) = Slot(t), Agree(s, t, Levels)
    PROVE  s = t
<1>1. PICK h \in 8 .. DEPTH : h = HighBit(s)
  BY HighBitIs
<1>2. PICK d \in 0 .. h - 2 : d = h - 2 /\ h - 2 - d = 0
  OBVIOUS
<1>3. Agree(s, t, d)
  BY <1>1, <1>2 DEF Agree, Levels, DEPTH
<1>4. Above(s, 0) = Above(t, 0)
  BY <1>1, <1>2, <1>3, AgreeAbove
<1>5. \A v \in Nat : v \div 1 = v
  OBVIOUS
<1>6. s \in Nat /\ t \in Nat
  BY LengthsNat
<1> QED BY <1>4, <1>5, <1>6, PowerAssumption DEF Above

LEMMA FirstDifference ==
    ASSUME NEW s \in Lengths, NEW t \in Lengths, Slot(s) = Slot(t), s < t
    PROVE  \E e \in 0 .. Levels - 1 : Agree(s, t, e) /\ Key(s, e) = 0 /\ Key(t, e) = 1
<1> DEFINE Differ == {e \in 0 .. Levels - 1 : Key(s, e) # Key(t, e)}
<1>1. s \in Nat /\ t \in Nat
  BY LengthsNat
<1>2. Differ # {} /\ Differ \in SUBSET Nat
  <2>1. ~Agree(s, t, Levels)
    BY <1>1, AllAgree
  <2> QED BY <2>1 DEF Agree
<1>3. PICK e \in Differ : \A d \in Differ : e <= d
  <2> HIDE DEF Differ
  <2> QED BY <1>2, LeastNat
<1>4. e \in 0 .. Levels - 1 /\ Key(s, e) # Key(t, e) /\ e \in Nat
  OBVIOUS
<1>5. Agree(s, t, e) /\ Agree(t, s, e)
  BY <1>3, <1>4 DEF Agree, Levels, DEPTH
<1>6. Key(s, e) \in 0 .. 1 /\ Key(t, e) \in 0 .. 1
  <2>1. PICK h \in 8 .. DEPTH, g \in 8 .. DEPTH : h = HighBit(s) /\ g = HighBit(t)
    BY HighBitIs
  <2> QED BY <1>4, <2>1, KeyIs
<1>7. ~(Key(t, e) = 0 /\ Key(s, e) = 1)
  BY <1>1, <1>4, <1>5, KeyOrder
<1> QED BY <1>4, <1>5, <1>6, <1>7

-------------------------------------------------------------------------------
(* The tries and the ways through them.                                       *)

Node(L) ==
    [prev : L, next : L, p : L \cup {NULL}, c : [0 .. 1 -> L \cup {NULL}],
     i : 0 .. LB_COUNT - 1]
Tries(L) == [lb : [0 .. LB_COUNT - 1 -> L \cup {NULL}], node : [L -> Node(L)]]

(* The chunks in L, of these lengths, are in the tries b.                     *)
Typed(b, len, L) ==
    L \in SUBSET (Nat \ {0}) /\ b \in Tries(L) /\ \A n \in L : len[n] \in Lengths

(* Where the key of s leads.                                                  *)
PathTo(b, len, s) == Path(b, len, b.lb[Slot(s)], s)

LEMMA PathIs ==
    ASSUME NEW b, NEW len, NEW L, Typed(b, len, L), NEW s \in Lengths,
           NEW at, at = PathTo(b, len, s)
    PROVE  /\ at \in [0 .. DEPTH -> L \cup {NULL}]
           /\ at[0] = b.lb[Slot(s)]
           /\ \A d \in 1 .. DEPTH :
                 at[d] = IF at[d - 1] = NULL \/ len[at[d - 1]] = s THEN NULL
                         ELSE b.node[at[d - 1]].c[Key(s, d - 1)]
<1> DEFINE X == L \cup {NULL}
           T == (1 .. DEPTH) \X X
<1>1. Slot(s) \in 0 .. LB_COUNT - 1
  BY HighBitIs, SlotIs
<1>2. PICK root \in X : root = b.lb[Slot(s)]
  BY <1>1 DEF Typed, Tries
<1>3. \A d \in Nat : Key(s, d) \in 0 .. 1
  BY HighBitIs, KeyIs
<1>4. DEPTH \in Nat
  BY DEF DEPTH
<1>5. PICK F : F = [e \in T |-> IF e[2] = NULL \/ len[e[2]] = s THEN NULL
                                ELSE b.node[e[2]].c[Key(s, e[1] - 1)]]
  OBVIOUS
<1>6. F \in [T -> X]
  <2>1. ASSUME NEW e \in T, e[2] # NULL PROVE b.node[e[2]].c[Key(s, e[1] - 1)] \in X
    <3>1. PICK p \in L, d \in Nat : p = e[2] /\ d = e[1] - 1
      BY <1>4, <2>1
    <3>2. b.node[p] \in Node(L)
      BY <3>1 DEF Typed, Tries
    <3>3. b.node[p].c \in [0 .. 1 -> X]
      BY <3>2 DEF Node
    <3>4. Key(s, d) \in 0 .. 1
      BY <1>3, <3>1
    <3> QED BY <3>1, <3>3, <3>4
  <2>2. \A e \in T : (IF e[2] = NULL \/ len[e[2]] = s THEN NULL
                      ELSE b.node[e[2]].c[Key(s, e[1] - 1)]) \in X
    BY <2>1
  <2> QED BY <1>5, <2>2
<1>7. PICK f \in [0 .. DEPTH -> X] :
         f[0] = root /\ \A d \in 1 .. DEPTH : f[d] = F[<<d, f[d - 1]>>]
  <2>1. KeepsIn(F, X, DEPTH)
    BY <1>6 DEF KeepsIn
  <2> HIDE DEF X
  <2>2. \E f : Iterates(f, F, X, DEPTH, root)
    BY ONLY <1>2, <1>4, <2>1, Recursion
  <2> QED BY <2>2 DEF Iterates
<1>8. \A d \in 1 .. DEPTH : f[d] = IF f[d - 1] = NULL \/ len[f[d - 1]] = s THEN NULL
                                   ELSE b.node[f[d - 1]].c[Key(s, d - 1)]
  <2>1. SUFFICES ASSUME NEW d \in 1 .. DEPTH
                 PROVE  F[<<d, f[d - 1]>>] =
                           IF f[d - 1] = NULL \/ len[f[d - 1]] = s THEN NULL
                           ELSE b.node[f[d - 1]].c[Key(s, d - 1)]
    BY <1>7
  <2>2. f[d - 1] \in X
    BY <1>4, <1>7, <2>1
  <2>3. <<d, f[d - 1]>> \in T
    BY <2>1, <2>2
  <2> QED BY <1>5, <2>3
<1> DEFINE Body(g) == [d \in 0 .. DEPTH |->
                         IF d = 0 THEN root
                         ELSE LET p == g[d - 1]
                              IN IF p = NULL \/ len[p] = s THEN NULL
                                 ELSE b.node[p].c[mm_key_large(s, d - 1)]]
           w == CHOOSE g : g = Body(g)
<1>9. f = Body(f)
  <2>1. \A d \in 0 .. DEPTH :
           f[d] = IF d = 0 THEN root
                  ELSE IF f[d - 1] = NULL \/ len[f[d - 1]] = s THEN NULL
                       ELSE b.node[f[d - 1]].c[mm_key_large(s, d - 1)]
    BY <1>4, <1>7, <1>8 DEF Key
  <2> QED BY <1>7, <2>1
<1>10. w = Body(w)
  BY <1>9
<1>11. at = [d \in 0 .. DEPTH |-> w[d]]
  BY <1>2 DEF PathTo, Path
<1> HIDE DEF w
<1>12. at = w
  BY <1>10, <1>11
<1>13. at[0] = root /\ \A d \in 1 .. DEPTH :
          at[d] = IF at[d - 1] = NULL \/ len[at[d - 1]] = s THEN NULL
                  ELSE b.node[at[d - 1]].c[Key(s, d - 1)]
  <2>1. \A d \in 0 .. DEPTH :
           w[d] = IF d = 0 THEN root
                  ELSE IF w[d - 1] = NULL \/ len[w[d - 1]] = s THEN NULL
                       ELSE b.node[w[d - 1]].c[Key(s, d - 1)]
    <3>1. SUFFICES ASSUME NEW d \in 0 .. DEPTH
                   PROVE  Body(w)[d] = IF d = 0 THEN root
                             ELSE IF w[d - 1] = NULL \/ len[w[d - 1]] = s THEN NULL
                                  ELSE b.node[w[d - 1]].c[Key(s, d - 1)]
      BY <1>10
    <3> QED BY DEF Key
  <2>2. 0 \in 0 .. DEPTH /\ \A d \in 1 .. DEPTH : d \in 0 .. DEPTH /\ d # 0
    BY <1>4
  <2> HIDE DEF Body
  <2> QED BY <1>12, <2>1, <2>2
<1>14. {d \in Nat : d <= DEPTH /\ at[d] # f[d]} = {}
  <2> DEFINE Bad == {d \in Nat : d <= DEPTH /\ at[d] # f[d]}
  <2> SUFFICES ASSUME Bad # {} PROVE FALSE
    OBVIOUS
  <2>1. PICK d \in Bad : \A e \in Bad : d <= e
    <3>1. Bad \in SUBSET Nat
      OBVIOUS
    <3> HIDE DEF Bad
    <3> QED BY <3>1, LeastNat
  <2>2. d \in Nat /\ d <= DEPTH /\ at[d] # f[d]
    OBVIOUS
  <2>3. d # 0
    BY <1>7, <1>13, <2>2
  <2>4. d - 1 \in Nat /\ d - 1 <= DEPTH /\ d - 1 \notin Bad /\ d \in 1 .. DEPTH
    BY <1>4, <2>1, <2>2, <2>3
  <2>5. at[d - 1] = f[d - 1]
    BY <2>4
  <2> QED BY <1>8, <1>13, <2>2, <2>4, <2>5
<1>15. \A d \in 0 .. DEPTH : at[d] = f[d]
  BY <1>4, <1>14
<1>16. at = f
  <2>1. at = [d \in 0 .. DEPTH |-> at[d]]
    BY <1>10, <1>12
  <2>2. f = [d \in 0 .. DEPTH |-> f[d]]
    BY <1>7
  <2> QED BY <1>15, <2>1, <2>2
<1> QED BY <1>2, <1>7, <1>13, <1>16

(* The same, from one level to the next.                                      *)
Walk(at, b, len, L, s) ==
    /\ at[0] = b.lb[Slot(s)]
    /\ \A d \in 0 .. DEPTH : at[d] \in L \cup {NULL}
    /\ \A d \in 0 .. DEPTH - 1 :
          at[d + 1] = IF at[d] = NULL \/ len[at[d]] = s THEN NULL
                      ELSE b.node[at[d]].c[Key(s, d)]

LEMMA PathWalks ==
    ASSUME NEW b, NEW len, NEW L, Typed(b, len, L), NEW s \in Lengths,
           NEW at, at = PathTo(b, len, s)
    PROVE  Walk(at, b, len, L, s)
<1>1. /\ at \in [0 .. DEPTH -> L \cup {NULL}] /\ at[0] = b.lb[Slot(s)]
      /\ \A d \in 1 .. DEPTH :
            at[d] = IF at[d - 1] = NULL \/ len[at[d - 1]] = s THEN NULL
                    ELSE b.node[at[d - 1]].c[Key(s, d - 1)]
  BY PathIs
<1>2. ASSUME NEW d \in 0 .. DEPTH - 1
      PROVE  at[d + 1] = IF at[d] = NULL \/ len[at[d]] = s THEN NULL
                         ELSE b.node[at[d]].c[Key(s, d)]
  <2>1. PICK e \in 1 .. DEPTH : e = d + 1 /\ d = e - 1
    BY DEF DEPTH
  <2>2. at[e] = IF at[e - 1] = NULL \/ len[at[e - 1]] = s THEN NULL
                ELSE b.node[at[e - 1]].c[Key(s, e - 1)]
    BY <1>1, <2>1
  <2> QED BY <2>1, <2>2
<1> QED BY <1>1, <1>2 DEF Walk

(* What comes before a chunk met on the way.                                  *)
LEMMA WalkBefore ==
    ASSUME NEW b, NEW len, NEW L, NEW s, NEW at, Walk(at, b, len, L, s),
           NEW e \in 0 .. DEPTH, at[e] # NULL, NEW d \in 0 .. e - 1
    PROVE  at[d] # NULL /\ at[d] \in L /\ len[at[d]] # s
<1> DEFINE Going(k) == at[k] # NULL /\ len[at[k]] # s
           Bad == {k \in Nat : k + 1 <= e /\ ~Going(e - (k + 1))}
<1>0. DEPTH \in Nat /\ e \in Nat /\ d \in Nat /\ d < e
  BY DEF DEPTH
<1>1. Bad = {}
  <2> SUFFICES ASSUME Bad # {} PROVE FALSE
    OBVIOUS
  <2>1. PICK k \in Bad : \A j \in Bad : k <= j
    <3>1. Bad \in SUBSET Nat
      OBVIOUS
    <3> HIDE DEF Bad
    <3> QED BY <3>1, LeastNat
  <2>2. k \in Nat /\ k + 1 <= e /\ ~Going(e - (k + 1))
    OBVIOUS
  <2>3. PICK i \in 0 .. DEPTH - 1 : i = e - (k + 1) /\ i + 1 = e - k
    BY <1>0, <2>2
  <2>4. at[i + 1] # NULL
    <3>1. CASE k = 0
      BY <1>0, <2>3, <3>1
    <3>2. CASE k # 0
      <4>1. PICK j \in Nat : k = j + 1
        <5>1. k - 1 \in Nat /\ k = (k - 1) + 1
          BY <2>2, <3>2
        <5> QED BY <5>1
      <4>2. j \notin Bad /\ j + 1 <= e
        BY <2>1, <2>2, <4>1
      <4>3. Going(e - (j + 1))
        BY <4>2
      <4> QED BY <2>3, <4>1, <4>3
    <3> QED BY <3>1, <3>2
  <2>5. ~(at[i] = NULL \/ len[at[i]] = s)
    BY <2>3, <2>4 DEF Walk
  <2> QED BY <2>2, <2>3, <2>5
<1>2. PICK k \in Nat : k + 1 <= e /\ d = e - (k + 1)
  <2>1. e - d - 1 \in Nat /\ (e - d - 1) + 1 <= e /\ d = e - ((e - d - 1) + 1)
    BY <1>0
  <2> QED BY <2>1
<1>3. Going(d)
  BY <1>1, <1>2
<1>4. at[d] \in L \cup {NULL}
  BY <1>0 DEF Walk
<1> QED BY <1>3, <1>4

(* Chunk n is a node of its trie, d levels below the root.                    *)
InTree(b, len, n, d) == PathTo(b, len, len[n])[d] = n

LEMMA OneDepth ==
    ASSUME NEW b, NEW len, NEW L, Typed(b, len, L), NEW n \in L,
           NEW d \in 0 .. DEPTH, NEW e \in 0 .. DEPTH,
           InTree(b, len, n, d), InTree(b, len, n, e)
    PROVE  d = e
<1>1. len[n] \in Lengths /\ n # NULL
  BY DEF Typed, NULL
<1>2. PICK at : at = PathTo(b, len, len[n])
  OBVIOUS
<1>3. Walk(at, b, len, L, len[n])
  BY <1>1, <1>2, PathWalks
<1>4. at[d] = n /\ at[e] = n
  BY <1>2 DEF InTree
<1>5. DEPTH \in Nat
  BY DEF DEPTH
<1>6. ~(d < e)
  <2>1. d < e => d \in 0 .. e - 1
    BY <1>5
  <2> QED BY <1>1, <1>3, <1>4, <2>1, WalkBefore
<1>7. ~(e < d)
  <2>1. e < d => e \in 0 .. d - 1
    BY <1>5
  <2> QED BY <1>1, <1>3, <1>4, <2>1, WalkBefore
<1> QED BY <1>5, <1>6, <1>7

(* Chunk c is the j-th child of chunk n.                                      *)
Child(b, len, n, j, c) ==
    /\ Slot(len[c]) = Slot(len[n])
    /\ \E d \in 0 .. DEPTH - 1 :
          /\ InTree(b, len, n, d) /\ InTree(b, len, c, d + 1)
          /\ Key(len[c], d) = j /\ Agree(len[c], len[n], d)

(* The tries part the lengths by their bits, and every length is in its trie. *)
Rooted(b, len) ==
    \A i \in 0 .. LB_COUNT - 1 : b.lb[i] # NULL => Slot(len[b.lb[i]]) = i
Branched(b, len, L) ==
    \A n \in L, j \in 0 .. 1 :
        b.node[n].c[j] # NULL => Child(b, len, n, j, b.node[n].c[j])
Parted(b, len, L) == Typed(b, len, L) /\ Rooted(b, len) /\ Branched(b, len, L)

(* What is met on the way of s agrees with s so far.                          *)
Met(b, len, L, s, n, d) ==
    /\ n \in L /\ Slot(len[n]) = Slot(s) /\ Agree(len[n], s, d) /\ InTree(b, len, n, d)

LEMMA OnTheWay ==
    ASSUME NEW b, NEW len, NEW L, Parted(b, len, L), NEW s \in Lengths,
           NEW at, at = PathTo(b, len, s), NEW d \in 0 .. DEPTH, at[d] # NULL
    PROVE  Met(b, len, L, s, at[d], d)
<1> DEFINE Bad == {k \in Nat : k <= DEPTH /\ at[k] # NULL /\ ~Met(b, len, L, s, at[k], k)}
<1>0. DEPTH \in Nat
  BY DEF DEPTH
<1>1. Typed(b, len, L) /\ Walk(at, b, len, L, s)
  BY PathWalks DEF Parted
<1>2. Bad = {}
  <2> SUFFICES ASSUME Bad # {} PROVE FALSE
    OBVIOUS
  <2>1. PICK k \in Bad : \A j \in Bad : k <= j
    <3>1. Bad \in SUBSET Nat
      OBVIOUS
    <3> HIDE DEF Bad
    <3> QED BY <3>1, LeastNat
  <2>2. k \in Nat /\ k <= DEPTH /\ at[k] # NULL /\ ~Met(b, len, L, s, at[k], k)
    OBVIOUS
  <2>3. PICK n \in L : n = at[k]
    BY <1>0, <1>1, <2>2 DEF Walk
  <2>4. len[n] \in Lengths
    BY <1>1 DEF Typed
  <2>5. CASE k = 0
    <3>1. n = b.lb[Slot(s)] /\ n # NULL
      BY <1>1, <2>2, <2>3, <2>5 DEF Walk
    <3>2. Slot(s) \in 0 .. LB_COUNT - 1
      BY HighBitIs, SlotIs
    <3>3. Slot(len[n]) = Slot(s)
      BY <3>1, <3>2 DEF Parted, Rooted
    <3>4. PathTo(b, len, len[n])[0] = b.lb[Slot(len[n])]
      BY <1>1, <2>4, PathWalks DEF Walk
    <3>5. InTree(b, len, n, 0) /\ Agree(len[n], s, 0)
      BY <3>1, <3>3, <3>4 DEF InTree, Agree
    <3> QED BY <2>2, <2>3, <2>5, <3>3, <3>5 DEF Met
  <2>6. CASE k # 0
    <3>1. PICK j \in Nat : k = j + 1
      <4>1. k - 1 \in Nat /\ k = (k - 1) + 1
        BY <2>2, <2>6
      <4> QED BY <4>1
    <3>2. j \in 0 .. DEPTH /\ j \in 0 .. DEPTH - 1 /\ j \notin Bad
      BY <1>0, <2>1, <2>2, <3>1
    <3>3. PICK m : m = at[j]
      OBVIOUS
    <3>4. m # NULL /\ n = b.node[m].c[Key(s, j)]
      BY <1>1, <2>2, <2>3, <3>1, <3>2, <3>3 DEF Walk
    <3>5. Met(b, len, L, s, m, j)
      BY <3>2, <3>3, <3>4
    <3>6. Key(s, j) \in 0 .. 1 /\ n # NULL
      BY <2>2, <2>3, HighBitIs, KeyIs
    <3>7. Child(b, len, m, Key(s, j), n)
      BY <3>4, <3>5, <3>6 DEF Parted, Branched, Met
    <3>8. PICK e \in 0 .. DEPTH - 1 :
             /\ InTree(b, len, m, e) /\ InTree(b, len, n, e + 1)
             /\ Key(len[n], e) = Key(s, j) /\ Agree(len[n], len[m], e)
      BY <3>7 DEF Child
    <3>9. e = j
      BY <1>0, <1>1, <3>2, <3>5, <3>8, OneDepth DEF Met
    <3>10. Agree(len[n], s, k)
      BY <3>1, <3>5, <3>8, <3>9 DEF Met, Agree
    <3>11. Slot(len[n]) = Slot(s)
      BY <3>5, <3>7 DEF Met, Child
    <3> QED BY <2>2, <2>3, <3>1, <3>8, <3>9, <3>10, <3>11 DEF Met
  <2> QED BY <2>5, <2>6
<1> QED BY <1>0, <1>2

(* A way ends before the bits do.                                             *)
LEMMA NotTooDeep ==
    ASSUME NEW b, NEW len, NEW L, Parted(b, len, L), NEW s \in Lengths,
           NEW at, at = PathTo(b, len, s), NEW d \in 0 .. DEPTH, at[d] # NULL
    PROVE  d <= Levels
<1>1. SUFFICES ASSUME Levels < d PROVE FALSE
  BY DEF Levels, DEPTH
<1>2. Walk(at, b, len, L, s)
  BY PathWalks DEF Parted
<1>3. PICK e \in 0 .. d - 1 : e = Levels /\ e \in 0 .. DEPTH
  BY <1>1 DEF Levels, DEPTH
<1>4. at[e] # NULL /\ at[e] \in L /\ len[at[e]] # s
  BY <1>2, <1>3, WalkBefore
<1>5. Met(b, len, L, s, at[e], e)
  BY <1>3, <1>4, OnTheWay
<1>6. len[at[e]] \in Lengths /\ Slot(len[at[e]]) = Slot(s) /\ Agree(len[at[e]], s, Levels)
  BY <1>3, <1>4, <1>5 DEF Met, Parted, Typed
<1> QED BY <1>4, <1>6, AllAgree

LEMMA LastDepthIs ==
    ASSUME NEW b, NEW len, NEW L, Parted(b, len, L), NEW s \in Lengths,
           NEW at, at = PathTo(b, len, s), b.lb[Slot(s)] # NULL
    PROVE  /\ LastDepth(at) \in 0 .. Levels
           /\ at[LastDepth(at)] # NULL /\ at[LastDepth(at) + 1] = NULL
<1> DEFINE S == {d \in 0 .. Levels : at[d + 1] = NULL}
<1>1. Walk(at, b, len, L, s) /\ at[0] # NULL
  BY PathWalks DEF Parted, Walk
<1>2. Levels \in S /\ S \in SUBSET Nat
  <2>1. PICK e \in 0 .. DEPTH : e = Levels + 1
    BY DEF Levels, DEPTH
  <2>2. ~(e <= Levels)
    BY <2>1 DEF Levels, DEPTH
  <2>3. at[e] = NULL
    BY <2>2, NotTooDeep
  <2> QED BY <2>1, <2>3 DEF Levels, DEPTH
<1>3. PICK d \in S : \A e \in S : d <= e
  <2> HIDE DEF S
  <2> QED BY <1>2, LeastNat
<1>4. d \in 0 .. Levels /\ at[d + 1] = NULL
  OBVIOUS
<1>5. at[d] # NULL
  <2>1. CASE d = 0
    BY <1>1, <2>1
  <2>2. CASE d # 0
    <3>1. PICK e \in 0 .. Levels : d = e + 1
      <4>1. d - 1 \in 0 .. Levels /\ d = (d - 1) + 1
        BY <1>4, <2>2 DEF Levels, DEPTH
      <4> QED BY <4>1
    <3>2. e \notin S
      BY <1>3, <1>4, <3>1
    <3> QED BY <3>1, <3>2
  <2> QED BY <2>1, <2>2
<1>6. LastDepth(at) \in 0 .. DEPTH /\ at[LastDepth(at)] # NULL
      /\ (LastDepth(at) = DEPTH \/ at[LastDepth(at) + 1] = NULL)
  <2>1. d \in 0 .. DEPTH
    BY <1>4 DEF Levels, DEPTH
  <2>2. \E e \in 0 .. DEPTH : at[e] # NULL /\ (e = DEPTH \/ at[e + 1] = NULL)
    BY <1>4, <1>5, <2>1
  <2> QED BY <2>2 DEF LastDepth
<1>7. LastDepth(at) <= Levels
  BY <1>6, NotTooDeep
<1>8. LastDepth(at) # DEPTH /\ LastDepth(at) \in 0 .. Levels
  BY <1>6, <1>7 DEF Levels, DEPTH
<1> QED BY <1>6, <1>8

(* Two lengths that agree go the same way.                                    *)
LEMMA SameWay ==
    ASSUME NEW b, NEW len, NEW L, Parted(b, len, L),
           NEW s \in Lengths, NEW t \in Lengths, Slot(s) = Slot(t),
           NEW at, at = PathTo(b, len, s), NEW bt, bt = PathTo(b, len, t),
           NEW d \in 0 .. DEPTH, bt[d] # NULL, Agree(s, t, d),
           \A e \in 0 .. d - 1 : len[bt[e]] # s
    PROVE  at[d] = bt[d]
<1> DEFINE Bad == {k \in Nat : k <= d /\ at[k] # bt[k]}
<1>0. DEPTH \in Nat /\ d \in Nat
  BY DEF DEPTH
<1>1. Walk(at, b, len, L, s) /\ Walk(bt, b, len, L, t)
  BY PathWalks DEF Parted
<1>2. Bad = {}
  <2> SUFFICES ASSUME Bad # {} PROVE FALSE
    OBVIOUS
  <2>1. PICK k \in Bad : \A j \in Bad : k <= j
    <3>1. Bad \in SUBSET Nat
      OBVIOUS
    <3> HIDE DEF Bad
    <3> QED BY <3>1, LeastNat
  <2>2. k \in Nat /\ k <= d /\ at[k] # bt[k]
    OBVIOUS
  <2>3. k # 0
    BY <1>1, <2>2 DEF Walk
  <2>4. PICK j \in Nat : k = j + 1
    <3>1. k - 1 \in Nat /\ k = (k - 1) + 1
      BY <2>2, <2>3
    <3> QED BY <3>1
  <2>5. j \in 0 .. d - 1 /\ j \in 0 .. DEPTH - 1 /\ j \notin Bad
    BY <1>0, <2>1, <2>2, <2>4
  <2>6. at[j] = bt[j] /\ len[bt[j]] # s
    BY <2>5
  <2>7. bt[j] # NULL /\ len[bt[j]] # t
    BY <1>1, <2>5, WalkBefore
  <2>8. Key(s, j) = Key(t, j)
    BY <2>5 DEF Agree
  <2>9. at[j + 1] = b.node[at[j]].c[Key(s, j)] /\ bt[j + 1] = b.node[bt[j]].c[Key(t, j)]
    BY <1>1, <2>5, <2>6, <2>7 DEF Walk
  <2> QED BY <2>2, <2>4, <2>6, <2>8, <2>9
<1> QED BY <1>0, <1>2

(* The tries a keep what is in b: no link to a chunk changes.                 *)
Kept(b, len, L, a, leng) ==
    /\ \A i \in 0 .. LB_COUNT - 1 : b.lb[i] # NULL => a.lb[i] = b.lb[i]
    /\ \A n \in L : leng[n] = len[n]
    /\ \A n \in L, j \in 0 .. 1 : b.node[n].c[j] # NULL => a.node[n].c[j] = b.node[n].c[j]

LEMMA KeptWay ==
    ASSUME NEW b, NEW len, NEW L, Typed(b, len, L),
           NEW a, NEW leng, NEW M, Typed(a, leng, M), Kept(b, len, L, a, leng),
           NEW s \in Lengths, NEW at, at = PathTo(b, len, s),
           NEW bt, bt = PathTo(a, leng, s), NEW d \in 0 .. DEPTH, at[d] # NULL
    PROVE  bt[d] = at[d]
<1> DEFINE Bad == {k \in Nat : k <= d /\ bt[k] # at[k]}
<1>0. DEPTH \in Nat /\ d \in Nat
  BY DEF DEPTH
<1>1. Walk(at, b, len, L, s) /\ Walk(bt, a, leng, M, s)
  BY PathWalks
<1>2. Bad = {}
  <2> SUFFICES ASSUME Bad # {} PROVE FALSE
    OBVIOUS
  <2>1. PICK k \in Bad : \A j \in Bad : k <= j
    <3>1. Bad \in SUBSET Nat
      OBVIOUS
    <3> HIDE DEF Bad
    <3> QED BY <3>1, LeastNat
  <2>2. k \in Nat /\ k <= d /\ bt[k] # at[k]
    OBVIOUS
  <2>3. at[k] # NULL
    <3>1. k # d => k \in 0 .. d - 1
      BY <1>0, <2>2
    <3> QED BY <1>1, <3>1, WalkBefore
  <2>4. k # 0
    <3>1. Slot(s) \in 0 .. LB_COUNT - 1
      BY HighBitIs, SlotIs
    <3>2. k = 0 => at[k] = b.lb[Slot(s)] /\ bt[k] = a.lb[Slot(s)]
      BY <1>1 DEF Walk
    <3> QED BY <2>2, <2>3, <3>1, <3>2 DEF Kept
  <2>5. PICK j \in Nat : k = j + 1
    <3>1. k - 1 \in Nat /\ k = (k - 1) + 1
      BY <2>2, <2>4
    <3> QED BY <3>1
  <2>6. j \in 0 .. d - 1 /\ j \in 0 .. DEPTH - 1 /\ j \notin Bad
    BY <1>0, <2>1, <2>2, <2>5
  <2>7. PICK n : n = at[j] /\ n = bt[j]
    BY <2>6
  <2>8. n \in L /\ n # NULL /\ len[n] # s
    BY <1>1, <2>6, <2>7, WalkBefore
  <2>9. leng[n] # s
    BY <2>8 DEF Kept
  <2>10. at[k] = b.node[n].c[Key(s, j)] /\ bt[k] = a.node[n].c[Key(s, j)]
    BY <1>1, <2>5, <2>6, <2>7, <2>8, <2>9 DEF Walk
  <2>11. Key(s, j) \in 0 .. 1
    BY HighBitIs, KeyIs
  <2> QED BY <2>2, <2>3, <2>8, <2>10, <2>11 DEF Kept
<1> QED BY <1>0, <1>2

LEMMA KeptInTree ==
    ASSUME NEW b, NEW len, NEW L, Typed(b, len, L),
           NEW a, NEW leng, NEW M, Typed(a, leng, M), Kept(b, len, L, a, leng),
           NEW n \in L, NEW d \in 0 .. DEPTH, InTree(b, len, n, d)
    PROVE  InTree(a, leng, n, d)
<1>1. len[n] \in Lengths /\ n # NULL /\ leng[n] = len[n]
  BY DEF Typed, NULL, Kept
<1>2. PICK at, bt : at = PathTo(b, len, len[n]) /\ bt = PathTo(a, leng, len[n])
  OBVIOUS
<1>3. at[d] = n
  BY <1>2 DEF InTree
<1>4. bt[d] = n
  BY <1>1, <1>2, <1>3, KeptWay
<1> QED BY <1>1, <1>2, <1>4 DEF InTree

LEMMA KeptChild ==
    ASSUME NEW b, NEW len, NEW L, Typed(b, len, L),
           NEW a, NEW leng, NEW M, Typed(a, leng, M), Kept(b, len, L, a, leng),
           NEW n \in L, NEW c \in L, NEW j \in 0 .. 1, Child(b, len, n, j, c)
    PROVE  Child(a, leng, n, j, c)
<1>1. leng[n] = len[n] /\ leng[c] = len[c]
  BY DEF Kept
<1>2. PICK d \in 0 .. DEPTH - 1 :
         /\ InTree(b, len, n, d) /\ InTree(b, len, c, d + 1)
         /\ Key(len[c], d) = j /\ Agree(len[c], len[n], d)
  BY DEF Child
<1>3. d \in 0 .. DEPTH /\ d + 1 \in 0 .. DEPTH
  BY DEF DEPTH
<1>4. InTree(a, leng, n, d) /\ InTree(a, leng, c, d + 1)
  BY <1>2, <1>3, KeptInTree
<1> QED BY <1>1, <1>2, <1>4 DEF Child

(* Setting one link of chunk x.                                               *)
NextSet(K, f, x, v, g) ==
    /\ g \in [K -> Node(K)] /\ \A m \in K : m # x => g[m] = f[m]
    /\ g[x].next = v /\ g[x].prev = f[x].prev /\ g[x].c = f[x].c

LEMMA SetNext ==
    ASSUME NEW K, NEW f \in [K -> Node(K)], NEW x \in K, NEW v \in K,
           NEW g, g = [f EXCEPT ![x].next = v]
    PROVE  NextSet(K, f, x, v, g)
<1>1. f[x] \in Node(K)
  OBVIOUS
<1>2. PICK r : r = [f[x] EXCEPT !.next = v]
  OBVIOUS
<1>3. r \in Node(K) /\ r.next = v /\ r.prev = f[x].prev /\ r.c = f[x].c
  BY <1>1, <1>2 DEF Node
<1>4. g = [f EXCEPT ![x] = r]
  BY <1>2
<1>5. g \in [K -> Node(K)] /\ (\A m \in K : m # x => g[m] = f[m]) /\ g[x] = r
  BY ONLY <1>3, <1>4, f \in [K -> Node(K)], x \in K
<1> QED BY ONLY <1>3, <1>5 DEF NextSet

PrevSet(K, f, x, v, g) ==
    /\ g \in [K -> Node(K)] /\ \A m \in K : m # x => g[m] = f[m]
    /\ g[x].prev = v /\ g[x].next = f[x].next /\ g[x].c = f[x].c

LEMMA SetPrev ==
    ASSUME NEW K, NEW f \in [K -> Node(K)], NEW x \in K, NEW v \in K,
           NEW g, g = [f EXCEPT ![x].prev = v]
    PROVE  PrevSet(K, f, x, v, g)
<1>1. f[x] \in Node(K)
  OBVIOUS
<1>2. PICK r : r = [f[x] EXCEPT !.prev = v]
  OBVIOUS
<1>3. r \in Node(K) /\ r.prev = v /\ r.next = f[x].next /\ r.c = f[x].c
  BY <1>1, <1>2 DEF Node
<1>4. g = [f EXCEPT ![x] = r]
  BY <1>2
<1>5. g \in [K -> Node(K)] /\ (\A m \in K : m # x => g[m] = f[m]) /\ g[x] = r
  BY ONLY <1>3, <1>4, f \in [K -> Node(K)], x \in K
<1> QED BY ONLY <1>3, <1>5 DEF PrevSet

ParentSet(K, f, x, v, g) ==
    /\ g \in [K -> Node(K)] /\ \A m \in K : m # x => g[m] = f[m]
    /\ g[x].next = f[x].next /\ g[x].prev = f[x].prev /\ g[x].c = f[x].c

LEMMA SetParent ==
    ASSUME NEW K, NEW f \in [K -> Node(K)], NEW x \in K, NEW v \in K,
           NEW g, g = [f EXCEPT ![x].p = v]
    PROVE  ParentSet(K, f, x, v, g)
<1>1. f[x] \in Node(K)
  OBVIOUS
<1>2. PICK r : r = [f[x] EXCEPT !.p = v]
  OBVIOUS
<1>3. r \in Node(K) /\ r.next = f[x].next /\ r.prev = f[x].prev /\ r.c = f[x].c
  BY <1>1, <1>2 DEF Node
<1>4. g = [f EXCEPT ![x] = r]
  BY <1>2
<1>5. g \in [K -> Node(K)] /\ (\A m \in K : m # x => g[m] = f[m]) /\ g[x] = r
  BY ONLY <1>3, <1>4, f \in [K -> Node(K)], x \in K
<1> QED BY ONLY <1>3, <1>5 DEF ParentSet

ChildSet(K, f, x, j, v, g) ==
    /\ g \in [K -> Node(K)] /\ \A m \in K : m # x => g[m] = f[m]
    /\ g[x].next = f[x].next /\ g[x].prev = f[x].prev
    /\ g[x].c[j] = v /\ \A k \in 0 .. 1 : k # j => g[x].c[k] = f[x].c[k]

LEMMA SetChild ==
    ASSUME NEW K, NEW f \in [K -> Node(K)], NEW x \in K, NEW v \in K, NEW j \in 0 .. 1,
           NEW g, g = [f EXCEPT ![x].c[j] = v]
    PROVE  ChildSet(K, f, x, j, v, g)
<1>1. f[x] \in Node(K) /\ f[x].c \in [0 .. 1 -> K \cup {NULL}]
  BY DEF Node
<1>2. PICK h : h = [f[x].c EXCEPT ![j] = v]
  OBVIOUS
<1>3. h \in [0 .. 1 -> K \cup {NULL}] /\ h[j] = v /\ \A k \in 0 .. 1 : k # j => h[k] = f[x].c[k]
  BY <1>1, <1>2
<1>4. PICK r : r = [f[x] EXCEPT !.c = h]
  OBVIOUS
<1>5. r \in Node(K) /\ r.next = f[x].next /\ r.prev = f[x].prev /\ r.c = h
  BY <1>1, <1>3, <1>4 DEF Node
<1>6. g = [f EXCEPT ![x] = r]
  BY <1>2, <1>4
<1>7. g \in [K -> Node(K)] /\ (\A m \in K : m # x => g[m] = f[m]) /\ g[x] = r
  BY ONLY <1>5, <1>6, f \in [K -> Node(K)], x \in K
<1> QED BY ONLY <1>3, <1>5, <1>7 DEF ChildSet

(* A chunk more, of its own ring: f is the nodes with n added.                *)
Added(b, L, f, n) ==
    /\ f \in [L \cup {n} -> Node(L \cup {n})] /\ \A m \in L : f[m] = b.node[m]
    /\ f[n].next = n /\ f[n].prev = n /\ \A j \in 0 .. 1 : f[n].c[j] = NULL

LEMMA AddNode ==
    ASSUME NEW b, NEW len, NEW L, Typed(b, len, L), NEW n \in Nat \ {0}, n \notin L,
           NEW i \in 0 .. LB_COUNT - 1,
           NEW f, f = [m \in DOMAIN b.node \cup {n} |->
                         IF m = n THEN Fresh(n, i) ELSE b.node[m]]
    PROVE  Added(b, L, f, n)
<1>0. PICK K : K = L \cup {n}
  OBVIOUS
<1>1. b.node \in [L -> Node(L)]
  BY DEF Typed, Tries
<1>2. \A m \in L : b.node[m] \in Node(K)
  <2>1. ASSUME NEW m \in L PROVE b.node[m] \in Node(K)
    <3>1. b.node[m] \in Node(L)
      BY <1>1
    <3> QED BY <1>0, <3>1 DEF Node
  <2> QED BY <2>1
<1>3. Fresh(n, i) \in Node(K) /\ Fresh(n, i).next = n /\ Fresh(n, i).prev = n
      /\ \A j \in 0 .. 1 : Fresh(n, i).c[j] = NULL
  BY <1>0 DEF Fresh, Node
<1>4. f = [m \in K |-> IF m = n THEN Fresh(n, i) ELSE b.node[m]]
  BY <1>0, <1>1
<1>5. /\ f \in [K -> Node(K)] /\ \A m \in L : f[m] = b.node[m]
      /\ f[n].next = n /\ f[n].prev = n /\ \A j \in 0 .. 1 : f[n].c[j] = NULL
  BY <1>0, <1>2, <1>3, <1>4
<1> QED BY <1>0, <1>5 DEF Added

-------------------------------------------------------------------------------
(* Linking a chunk.                                                           *)

RingJoined(K, f, n, p, q, g) ==
    /\ g \in [K -> Node(K)] /\ \A m \in K : g[m].c = f[m].c
    /\ g[n].next = q /\ g[n].prev = p /\ g[p].next = n /\ g[q].prev = n
    /\ \A m \in K : m # n /\ m # p => g[m].next = f[m].next
    /\ \A m \in K : m # n /\ m # q => g[m].prev = f[m].prev

LEMMA JoinRingIs ==
    ASSUME NEW K, NEW f \in [K -> Node(K)], NEW n \in K, NEW p \in K, p # n,
           NEW q \in K, q = f[p].next, q # n, NEW g, g = JoinRing(f, n, p)
    PROVE  RingJoined(K, f, n, p, q, g)
<1>1. PICK f1 : f1 = [f EXCEPT ![n].next = q]
  OBVIOUS
<1>2. /\ f1 \in [K -> Node(K)] /\ \A m \in K : m # n => f1[m] = f[m]
      /\ f1[n].next = q /\ f1[n].prev = f[n].prev /\ f1[n].c = f[n].c
  <2>1. NextSet(K, f, n, q, f1)
    BY ONLY <1>1, SetNext, f \in [K -> Node(K)], n \in K, q \in K
  <2> QED BY ONLY <2>1 DEF NextSet
<1>3. PICK f2 : f2 = [f1 EXCEPT ![n].prev = p]
  OBVIOUS
<1>4. /\ f2 \in [K -> Node(K)] /\ \A m \in K : m # n => f2[m] = f1[m]
      /\ f2[n].prev = p /\ f2[n].next = f1[n].next /\ f2[n].c = f1[n].c
  <2>1. f1 \in [K -> Node(K)]
    BY <1>2
  <2>2. PrevSet(K, f1, n, p, f2)
    BY ONLY <1>3, <2>1, SetPrev, n \in K, p \in K
  <2> QED BY ONLY <2>2 DEF PrevSet
<1>5. PICK f3 : f3 = [f2 EXCEPT ![p].next = n]
  OBVIOUS
<1>6. /\ f3 \in [K -> Node(K)] /\ \A m \in K : m # p => f3[m] = f2[m]
      /\ f3[p].next = n /\ f3[p].prev = f2[p].prev /\ f3[p].c = f2[p].c
  <2>1. f2 \in [K -> Node(K)]
    BY <1>4
  <2>2. NextSet(K, f2, p, n, f3)
    BY ONLY <1>5, <2>1, SetNext, n \in K, p \in K
  <2> QED BY ONLY <2>2 DEF NextSet
<1>7. f3 = [f EXCEPT ![n].next = q, ![n].prev = p, ![p].next = n]
  BY <1>1, <1>3, <1>5
<1>8. g = [f3 EXCEPT ![q].prev = n]
  BY <1>7 DEF JoinRing
<1>9. /\ g \in [K -> Node(K)] /\ \A m \in K : m # q => g[m] = f3[m]
      /\ g[q].prev = n /\ g[q].next = f3[q].next /\ g[q].c = f3[q].c
  <2>1. f3 \in [K -> Node(K)]
    BY <1>6
  <2>2. PrevSet(K, f3, q, n, g)
    BY ONLY <1>8, <2>1, SetPrev, n \in K, q \in K
  <2> QED BY ONLY <2>2 DEF PrevSet
<1>10. g[n] = f3[n] /\ f3[n] = f2[n]
  BY <1>6, <1>9
<1>11. \A m \in K : g[m].c = f3[m].c /\ g[m].next = f3[m].next
  BY <1>9
<1>12. \A m \in K : f3[m].c = f2[m].c /\ f3[m].prev = f2[m].prev
  BY <1>6
<1>13. \A m \in K : f2[m].c = f[m].c /\ (m # n => f2[m] = f[m])
  BY <1>2, <1>4
<1>14. \A m \in K : g[m].c = f[m].c
  BY <1>11, <1>12, <1>13
<1>15. g[n].next = q /\ g[n].prev = p /\ g[p].next = n /\ g[q].prev = n
  BY <1>2, <1>4, <1>6, <1>9, <1>10, <1>11
<1>16. \A m \in K : m # n /\ m # p => g[m].next = f[m].next
  BY <1>6, <1>11, <1>13
<1>17. \A m \in K : m # n /\ m # q => g[m].prev = f[m].prev
  BY <1>9, <1>12, <1>13
<1> QED BY <1>9, <1>14, <1>15, <1>16, <1>17 DEF RingJoined

(* The rings: chunks of one length, linked both ways.                         *)
Ringed(b, len, L) ==
    \A n \in L :
        /\ b.node[n].next \in L /\ b.node[n].prev \in L
        /\ b.node[b.node[n].next].prev = n /\ b.node[b.node[n].prev].next = n
        /\ len[b.node[n].next] = len[n]

(* Chunk n is in the ring of r: in every set with r that the ring stays in.   *)
InRing(b, L, r, n) ==
    \A C \in SUBSET L : r \in C /\ (\A x \in C : b.node[x].next \in C) => n \in C

(* The key of n leads to a node of its length, and n is in the ring there.    *)
Placed(b, len, L, n) ==
    \E d \in 0 .. DEPTH, r \in L :
        r = PathTo(b, len, len[n])[d] /\ len[r] = len[n] /\ InRing(b, L, r, n)

Good(b, len, L) ==
    Parted(b, len, L) /\ Ringed(b, len, L) /\ \A n \in L : Placed(b, len, L, n)

(* Tries a are b with n more, which is in no ring or behind a chunk.          *)
RingsKept(b, L, a, n) ==
    \A x \in L : \/ a.node[x].next = b.node[x].next
                 \/ a.node[x].next = n /\ a.node[n].next = b.node[x].next

LEMMA PlacedKept ==
    ASSUME NEW b, NEW len, NEW L, Typed(b, len, L), Ringed(b, len, L),
           NEW a, NEW n, Typed(a, len, L \cup {n}), Kept(b, len, L, a, len),
           RingsKept(b, L, a, n), NEW m \in L, Placed(b, len, L, m)
    PROVE  Placed(a, len, L \cup {n}, m)
<1>1. PICK d \in 0 .. DEPTH, r \in L :
         r = PathTo(b, len, len[m])[d] /\ len[r] = len[m] /\ InRing(b, L, r, m)
  BY DEF Placed
<1>2. r # NULL /\ len[m] \in Lengths
  BY DEF Typed, NULL
<1>3. PICK at, bt : at = PathTo(b, len, len[m]) /\ bt = PathTo(a, len, len[m])
  OBVIOUS
<1>4. bt[d] = r
  BY <1>1, <1>2, <1>3, KeptWay
<1>5. ASSUME NEW C \in SUBSET (L \cup {n}), r \in C, \A x \in C : a.node[x].next \in C
      PROVE  m \in C
  <2>1. ASSUME NEW x \in C \cap L PROVE b.node[x].next \in C \cap L
    <3>1. b.node[x].next \in L
      BY DEF Ringed
    <3>2. a.node[x].next \in C
      BY <1>5
    <3>3. a.node[x].next = n => a.node[n].next \in C
      BY <1>5, <3>2
    <3> QED BY <3>1, <3>2, <3>3 DEF RingsKept
  <2>2. C \cap L \in SUBSET L /\ r \in C \cap L
    BY <1>5
  <2> QED BY <1>1, <2>1, <2>2 DEF InRing
<1>6. InRing(a, L \cup {n}, r, m)
  BY <1>5 DEF InRing
<1> QED BY <1>1, <1>3, <1>4, <1>6 DEF Placed

(* Branches that have not changed.                                            *)
LEMMA BranchKept ==
    ASSUME NEW b, NEW len, NEW L, Parted(b, len, L),
           NEW a, NEW K, Typed(a, len, K), Kept(b, len, L, a, len),
           NEW m \in L, NEW j \in 0 .. 1,
           a.node[m].c[j] = b.node[m].c[j], a.node[m].c[j] # NULL
    PROVE  Child(a, len, m, j, a.node[m].c[j])
<1>1. PICK c : c = b.node[m].c[j]
  OBVIOUS
<1>2. c \in L
  <2>1. b.node[m] \in Node(L)
    BY DEF Parted, Typed, Tries
  <2>2. b.node[m].c \in [0 .. 1 -> L \cup {NULL}]
    BY <2>1 DEF Node
  <2> QED BY <1>1, <2>2
<1>3. Child(b, len, m, j, c)
  BY <1>1 DEF Parted, Branched
<1>4. Typed(b, len, L)
  BY DEF Parted
<1> QED BY <1>1, <1>2, <1>3, <1>4, KeptChild

LEMMA NodeLinks ==
    ASSUME NEW b, NEW len, NEW L, Typed(b, len, L), NEW m \in L
    PROVE  /\ b.node[m].c \in [0 .. 1 -> L \cup {NULL}]
           /\ b.node[m].next \in L /\ b.node[m].prev \in L
<1>1. b.node[m] \in Node(L)
  BY DEF Typed, Tries
<1> QED BY <1>1 DEF Node

(* What is to be shown of tries a that chunk n has joined.                    *)
Joined(b, len, L, a, n) ==
    /\ Typed(a, len, L \cup {n}) /\ Kept(b, len, L, a, len) /\ Rooted(a, len)
    /\ Branched(a, len, L \cup {n}) /\ Ringed(a, len, L \cup {n})
    /\ RingsKept(b, L, a, n) /\ Placed(a, len, L \cup {n}, n)

LEMMA JoinedGood ==
    ASSUME NEW b, NEW len, NEW L, Good(b, len, L), NEW a, NEW n, Joined(b, len, L, a, n)
    PROVE  Good(a, len, L \cup {n})
<1>1. ASSUME NEW m \in L \cup {n} PROVE Placed(a, len, L \cup {n}, m)
  <2>1. CASE m = n
    BY <2>1 DEF Joined
  <2>2. CASE m \in L
    <3>1. Typed(b, len, L) /\ Ringed(b, len, L) /\ Placed(b, len, L, m)
      BY <2>2 DEF Good, Parted
    <3> QED BY <2>2, <3>1, PlacedKept DEF Joined
  <2> QED BY <2>1, <2>2
<1> QED BY <1>1 DEF Good, Joined, Parted

LEMMA RingsSame ==
    ASSUME NEW b, NEW len, NEW L, Ringed(b, len, L), NEW a, NEW n, n \notin L,
           \A m \in L : a.node[m].next = b.node[m].next /\ a.node[m].prev = b.node[m].prev,
           a.node[n].next = n, a.node[n].prev = n
    PROVE  Ringed(a, len, L \cup {n}) /\ RingsKept(b, L, a, n)
<1>1. ASSUME NEW m \in L
      PROVE  /\ a.node[m].next \in L /\ a.node[m].prev \in L
             /\ a.node[a.node[m].next].prev = m /\ a.node[a.node[m].prev].next = m
             /\ len[a.node[m].next] = len[m]
  BY DEF Ringed
<1> QED BY <1>1 DEF Ringed, RingsKept

LEMMA LinkRoot ==
    ASSUME NEW b, NEW len, NEW L, Good(b, len, L), NEW n \in Nat \ {0}, n \notin L,
           len[n] \in Lengths, NEW i \in 0 .. LB_COUNT - 1, i = Slot(len[n]),
           b.lb[i] = NULL, NEW f, Added(b, L, f, n),
           NEW a, a.lb = [b.lb EXCEPT ![i] = n], a.node = f,
           a = [lb |-> a.lb, node |-> a.node]
    PROVE  Joined(b, len, L, a, n)
<1> DEFINE K == L \cup {n}
<1>1. Typed(b, len, L) /\ Parted(b, len, L) /\ Ringed(b, len, L)
  BY DEF Good, Parted
<1>2. Typed(a, len, K)
  <2>1. a.lb \in [0 .. LB_COUNT - 1 -> K \cup {NULL}]
    <3>1. b.lb \in [0 .. LB_COUNT - 1 -> L \cup {NULL}]
      BY <1>1 DEF Typed, Tries
    <3> QED BY <3>1
  <2>2. a \in Tries(K)
    BY <2>1 DEF Tries, Added
  <2> QED BY <1>1, <2>2 DEF Typed
<1>3. \A e \in 0 .. LB_COUNT - 1 : a.lb[e] = IF e = i THEN n ELSE b.lb[e]
  BY <1>1 DEF Typed, Tries
<1>4. \A m \in L : a.node[m] = b.node[m]
  BY DEF Added
<1>5. Kept(b, len, L, a, len)
  BY <1>3, <1>4 DEF Kept
<1>6. Rooted(a, len)
  BY <1>1, <1>3 DEF Parted, Rooted
<1>7. Branched(a, len, K)
  <2>1. ASSUME NEW m \in L, NEW j \in 0 .. 1, a.node[m].c[j] # NULL
        PROVE  Child(a, len, m, j, a.node[m].c[j])
    BY <1>1, <1>2, <1>4, <1>5, <2>1, BranchKept
  <2> QED BY <2>1 DEF Branched, Added
<1>8. Ringed(a, len, K) /\ RingsKept(b, L, a, n)
  BY <1>1, <1>4, RingsSame DEF Added
<1>9. Placed(a, len, K, n)
  <2>1. PathTo(a, len, len[n])[0] = n
    <3>1. PICK at : at = PathTo(a, len, len[n])
      OBVIOUS
    <3>2. Walk(at, a, len, K, len[n])
      BY <1>2, <3>1, PathWalks
    <3> QED BY <1>3, <3>1, <3>2 DEF Walk
  <2>2. InRing(a, K, n, n) /\ n \in K /\ 0 \in 0 .. DEPTH
    BY DEF InRing, DEPTH
  <2> QED BY <2>1, <2>2 DEF Placed
<1> QED BY <1>2, <1>5, <1>6, <1>7, <1>8, <1>9 DEF Joined

(* The nodes f when n has become the k-th child of p.                         *)
HungLeaf(f, n, p, k) == [f EXCEPT ![n].p = p, ![p].c[k] = n]

LEMMA LinkLeaf ==
    ASSUME NEW b, NEW len, NEW L, Good(b, len, L), NEW n \in Nat \ {0}, n \notin L,
           NEW s \in Lengths, s = len[n], NEW at, at = PathTo(b, len, s),
           NEW d \in 0 .. DEPTH - 1, NEW p, p = at[d], p # NULL, len[p] # s, at[d + 1] = NULL,
           NEW f, Added(b, L, f, n), NEW a, a.lb = b.lb,
           a.node = HungLeaf(f, n, p, Key(s, d)),
           a = [lb |-> a.lb, node |-> a.node]
    PROVE  Joined(b, len, L, a, n)
<1> DEFINE K == L \cup {n}
<1>1. Typed(b, len, L) /\ Parted(b, len, L) /\ Ringed(b, len, L)
  BY DEF Good, Parted
<1>2. d \in 0 .. DEPTH /\ d + 1 \in 0 .. DEPTH /\ d \in Nat
  BY DEF DEPTH
<1>3. Met(b, len, L, s, p, d) /\ p \in L
  BY <1>1, <1>2, OnTheWay DEF Met
<1>4. PICK j \in 0 .. 1 : j = Key(s, d)
  BY <1>2, HighBitIs, KeyIs
<1>5. b.node[p].c[j] = NULL
  BY <1>1, <1>4, PathWalks DEF Walk
<1>6. p \in K /\ n \in K /\ p # n /\ f \in [K -> Node(K)]
  BY <1>3 DEF Added
<1>7. PICK f1 : f1 = [f EXCEPT ![n].p = p]
  OBVIOUS
<1>8. /\ f1 \in [K -> Node(K)] /\ \A m \in K : m # n => f1[m] = f[m]
      /\ f1[n].next = f[n].next /\ f1[n].prev = f[n].prev /\ f1[n].c = f[n].c
  <2>1. ParentSet(K, f, n, p, f1)
    <3> HIDE DEF K
    <3> QED BY ONLY <1>6, <1>7, SetParent
  <2> HIDE DEF K
  <2> QED BY ONLY <2>1 DEF ParentSet
<1>9. PICK g : g = [f1 EXCEPT ![p].c[j] = n]
  OBVIOUS
<1>10. a.node = g
  BY <1>4, <1>7, <1>9 DEF HungLeaf
<1>11. /\ g \in [K -> Node(K)] /\ \A m \in K : m # p => g[m] = f1[m]
       /\ g[p].next = f1[p].next /\ g[p].prev = f1[p].prev
       /\ g[p].c[j] = n /\ \A k \in 0 .. 1 : k # j => g[p].c[k] = f1[p].c[k]
  <2>1. f1 \in [K -> Node(K)]
    BY <1>8
  <2>2. p \in K /\ n \in K /\ j \in 0 .. 1
    BY <1>4, <1>6
  <2>3. ChildSet(K, f1, p, j, n, g)
    <3> HIDE DEF K
    <3> QED BY ONLY <1>9, <2>1, <2>2, SetChild
  <2> HIDE DEF K
  <2> QED BY ONLY <2>3 DEF ChildSet
<1>12. Typed(a, len, K)
  <2>1. a.lb \in [0 .. LB_COUNT - 1 -> K \cup {NULL}]
    <3>1. b.lb \in [0 .. LB_COUNT - 1 -> L \cup {NULL}]
      BY <1>1 DEF Typed, Tries
    <3> QED BY <3>1
  <2>2. a \in Tries(K)
    BY <1>10, <1>11, <2>1 DEF Tries
  <2> QED BY <1>1, <2>2 DEF Typed
<1>13. \A m \in L : m # p => a.node[m] = b.node[m]
  BY <1>8, <1>10, <1>11 DEF Added
<1>14. /\ a.node[p].c[j] = n /\ \A k \in 0 .. 1 : k # j => a.node[p].c[k] = b.node[p].c[k]
       /\ a.node[p].next = b.node[p].next /\ a.node[p].prev = b.node[p].prev
  <2>1. f[p] = b.node[p]
    BY <1>3 DEF Added
  <2>2. f1[p] = f[p]
    BY <1>6, <1>8
  <2>3. a.node[p].c[j] = n /\ \A k \in 0 .. 1 : k # j => a.node[p].c[k] = f1[p].c[k]
    BY ONLY <1>10, <1>11
  <2>4. a.node[p].next = f1[p].next /\ a.node[p].prev = f1[p].prev
    BY ONLY <1>10, <1>11
  <2> QED BY ONLY <2>1, <2>2, <2>3, <2>4
<1>15. a.node[n].next = n /\ a.node[n].prev = n /\ \A k \in 0 .. 1 : a.node[n].c[k] = NULL
  BY <1>6, <1>8, <1>10, <1>11 DEF Added
<1>16. Kept(b, len, L, a, len)
  <2>1. ASSUME NEW m \in L, NEW k \in 0 .. 1, b.node[m].c[k] # NULL
        PROVE  a.node[m].c[k] = b.node[m].c[k]
    <3>1. CASE m = p
      <4>1. k # j
        BY <1>5, <2>1, <3>1
      <4> QED BY <1>14, <3>1, <4>1
    <3>2. CASE m # p
      BY <1>13, <3>2
    <3> QED BY <3>1, <3>2
  <2> QED BY <2>1 DEF Kept
<1>17. Rooted(a, len)
  BY <1>1 DEF Parted, Rooted
<1>18. PICK bt : bt = PathTo(a, len, s)
  OBVIOUS
<1>19. bt[d] = p
  BY <1>1, <1>2, <1>12, <1>16, <1>18, KeptWay
<1>20. InTree(a, len, n, d + 1)
  <2>1. bt[d + 1] = a.node[p].c[Key(s, d)]
    <3>1. Walk(bt, a, len, K, s)
      BY <1>12, <1>18, PathWalks
    <3> QED BY <1>19, <3>1 DEF Walk
  <2> QED BY <1>4, <1>14, <1>18, <2>1 DEF InTree
<1>21. Child(a, len, p, j, n)
  <2>1. InTree(a, len, p, d)
    BY <1>1, <1>2, <1>3, <1>12, <1>16, KeptInTree DEF Met
  <2>2. Agree(len[n], len[p], d) /\ Slot(len[n]) = Slot(len[p])
    BY <1>3 DEF Met, Agree
  <2> QED BY <1>4, <1>20, <2>1, <2>2 DEF Child
<1>22. Branched(a, len, K)
  <2>1. ASSUME NEW m \in L, NEW k \in 0 .. 1, a.node[m].c[k] # NULL
        PROVE  Child(a, len, m, k, a.node[m].c[k])
    <3>1. CASE m = p /\ k = j
      BY <1>14, <1>21, <3>1
    <3>2. CASE m # p \/ k # j
      <4>1. a.node[m].c[k] = b.node[m].c[k]
        BY <1>13, <1>14, <3>2
      <4> QED BY <1>1, <1>12, <1>16, <2>1, <4>1, BranchKept
    <3> QED BY <3>1, <3>2
  <2> QED BY <1>15, <2>1 DEF Branched
<1>23. Ringed(a, len, K) /\ RingsKept(b, L, a, n)
  <2>1. \A m \in L : a.node[m].next = b.node[m].next /\ a.node[m].prev = b.node[m].prev
    BY <1>13, <1>14
  <2> QED BY <1>1, <1>15, <2>1, RingsSame
<1>24. Placed(a, len, K, n)
  <2>1. InRing(a, K, n, n) /\ n \in K
    BY DEF InRing
  <2>2. PathTo(a, len, len[n])[d + 1] = n
    BY <1>20 DEF InTree
  <2> QED BY <1>2, <2>1, <2>2 DEF Placed
<1> QED BY <1>12, <1>16, <1>17, <1>22, <1>23, <1>24 DEF Joined

LEMMA LinkRing ==
    ASSUME NEW b, NEW len, NEW L, Good(b, len, L), NEW n \in Nat \ {0}, n \notin L,
           NEW s \in Lengths, s = len[n], NEW at, at = PathTo(b, len, s),
           NEW d \in 0 .. DEPTH, NEW p, p = at[d], p # NULL, len[p] = s,
           NEW f, Added(b, L, f, n), NEW a, a.lb = b.lb, a.node = JoinRing(f, n, p),
           a = [lb |-> a.lb, node |-> a.node]
    PROVE  Joined(b, len, L, a, n)
<1> DEFINE K == L \cup {n}
<1>1. Typed(b, len, L) /\ Parted(b, len, L) /\ Ringed(b, len, L)
  BY DEF Good, Parted
<1>2. p \in L /\ p # n
  BY <1>1, OnTheWay DEF Met
<1>3. PICK q \in L : q = b.node[p].next /\ q # n
  BY <1>1, <1>2, NodeLinks
<1>4. \A m \in L : f[m] = b.node[m]
  BY DEF Added
<1>5. /\ a.node \in [K -> Node(K)] /\ \A m \in K : a.node[m].c = f[m].c
      /\ a.node[n].next = q /\ a.node[n].prev = p
      /\ a.node[p].next = n /\ a.node[q].prev = n
      /\ \A m \in K : m # n /\ m # p => a.node[m].next = f[m].next
      /\ \A m \in K : m # n /\ m # q => a.node[m].prev = f[m].prev
  <2>1. f \in [K -> Node(K)] /\ n \in K /\ p \in K /\ q \in K /\ q = f[p].next
    BY <1>2, <1>3, <1>4 DEF Added
  <2>2. PICK g : g = JoinRing(f, n, p) /\ a.node = g
    OBVIOUS
  <2>3. RingJoined(K, f, n, p, q, g)
    <3>1. p # n /\ q # n
      BY <1>2, <1>3
    <3> HIDE DEF K
    <3> QED BY ONLY <2>1, <2>2, <3>1, JoinRingIs
  <2> HIDE DEF K
  <2> QED BY ONLY <2>2, <2>3 DEF RingJoined
<1>6. /\ \A m \in L : m # p => a.node[m].next = b.node[m].next
      /\ \A m \in L : m # q => a.node[m].prev = b.node[m].prev
  BY <1>4, <1>5
<1>7. \A m \in L : a.node[m].c = b.node[m].c
  BY <1>4, <1>5
<1>8. \A j \in 0 .. 1 : a.node[n].c[j] = NULL
  BY <1>5 DEF Added
<1>9. Typed(a, len, K)
  <2>1. a.lb \in [0 .. LB_COUNT - 1 -> K \cup {NULL}]
    <3>1. b.lb \in [0 .. LB_COUNT - 1 -> L \cup {NULL}]
      BY <1>1 DEF Typed, Tries
    <3> QED BY <3>1
  <2>2. a \in Tries(K)
    BY <1>5, <2>1 DEF Tries
  <2> QED BY <1>1, <2>2 DEF Typed
<1>10. Kept(b, len, L, a, len)
  BY <1>7 DEF Kept
<1>11. Rooted(a, len)
  BY <1>1 DEF Parted, Rooted
<1>12. Branched(a, len, K)
  <2>1. ASSUME NEW m \in L, NEW j \in 0 .. 1, a.node[m].c[j] # NULL
        PROVE  Child(a, len, m, j, a.node[m].c[j])
    BY <1>1, <1>7, <1>9, <1>10, <2>1, BranchKept
  <2> QED BY <1>8, <2>1 DEF Branched
<1>13. \A m \in L : /\ b.node[m].next \in L /\ b.node[m].prev \in L
                    /\ b.node[b.node[m].next].prev = m /\ b.node[b.node[m].prev].next = m
                    /\ len[b.node[m].next] = len[m]
  BY <1>1 DEF Ringed
<1>14. Ringed(a, len, K)
  <2>1. ASSUME NEW m \in K
        PROVE  /\ a.node[m].next \in K /\ a.node[a.node[m].next].prev = m
               /\ len[a.node[m].next] = len[m]
    <3>1. CASE m = n
      <4>1. a.node[n].next = q /\ q \in K /\ a.node[q].prev = n
        BY <1>3, <1>5
      <4>2. len[q] = len[p] /\ len[p] = len[n]
        BY <1>2, <1>3, <1>13
      <4> QED BY <3>1, <4>1, <4>2
    <3>2. CASE m = p
      BY <1>5, <3>2
    <3>3. CASE m \in L /\ m # p
      <4>1. PICK v \in L : v = b.node[m].next
        BY <1>13, <3>3
      <4>2. a.node[m].next = v /\ b.node[v].prev = m /\ len[v] = len[m]
        BY <1>6, <1>13, <3>3, <4>1
      <4>3. v # q
        BY <1>2, <1>3, <1>13, <3>3, <4>2
      <4> QED BY <1>6, <4>2, <4>3
    <3> QED BY <3>1, <3>2, <3>3
  <2>2. ASSUME NEW m \in K
        PROVE  a.node[m].prev \in K /\ a.node[a.node[m].prev].next = m
    <3>1. CASE m = n
      BY <1>2, <1>5, <3>1
    <3>2. CASE m = q
      BY <1>5, <3>2
    <3>3. CASE m \in L /\ m # q
      <4>1. PICK v \in L : v = b.node[m].prev
        BY <1>13, <3>3
      <4>2. a.node[m].prev = v /\ b.node[v].next = m
        BY <1>6, <1>13, <3>3, <4>1
      <4>3. v # p
        BY <1>3, <3>3, <4>2
      <4> QED BY <1>6, <4>2, <4>3
    <3> QED BY <3>1, <3>2, <3>3
  <2> QED BY <2>1, <2>2 DEF Ringed
<1>15. RingsKept(b, L, a, n)
  BY <1>3, <1>5, <1>6 DEF RingsKept
<1>16. Placed(a, len, K, n)
  <2>1. PathTo(a, len, len[n])[d] = p
    <3>1. PICK bt : bt = PathTo(a, len, s)
      OBVIOUS
    <3> QED BY <1>1, <1>9, <1>10, <3>1, KeptWay
  <2>2. InRing(a, K, p, n)
    BY <1>5 DEF InRing
  <2> QED BY <1>2, <2>1, <2>2 DEF Placed
<1> QED BY <1>9, <1>10, <1>11, <1>12, <1>14, <1>15, <1>16 DEF Joined

(* mm_link_large.                                                             *)
LEMMA LinkGood ==
    ASSUME NEW b, NEW len, NEW L, Good(b, len, L), NEW n \in Nat \ {0}, n \notin L,
           len[n] \in Lengths, NEW a, a = mm_link_large(b, len, n)
    PROVE  Good(a, len, L \cup {n})
<1>1. PICK s \in Lengths : s = len[n]
  OBVIOUS
<1>2. PICK i \in 0 .. LB_COUNT - 1 : i = Slot(s)
  BY HighBitIs, SlotIs
<1>3. PICK at : at = PathTo(b, len, s)
  OBVIOUS
<1>4. PICK f : f = [m \in DOMAIN b.node \cup {n} |->
                      IF m = n THEN Fresh(n, i) ELSE b.node[m]]
  OBVIOUS
<1>5. Typed(b, len, L) /\ Parted(b, len, L)
  BY DEF Good, Parted
<1>6. Added(b, L, f, n)
  BY ONLY <1>4, <1>5, AddNode, n \in Nat \ {0}, n \notin L, i \in 0 .. LB_COUNT - 1
<1>7. b = [lb |-> b.lb, node |-> b.node]
  BY <1>5 DEF Typed, Tries
<1>8. PICK d : d = LastDepth(at)
  OBVIOUS
<1>9. PICK p : p = at[d]
  OBVIOUS
<1>10. a = IF b.lb[i] = NULL THEN [b EXCEPT !.lb[i] = n, !.node = f]
           ELSE IF len[p] = s THEN [b EXCEPT !.node = JoinRing(f, n, p)]
           ELSE [b EXCEPT !.node = HungLeaf(f, n, p, Key(s, d))]
  <2> DEFINE I == mm_slot_large(len[n])
             F == [m \in DOMAIN b.node \cup {n} |-> IF m = n THEN Fresh(n, I) ELSE b.node[m]]
             W == Path(b, len, b.lb[I], len[n])
             D == LastDepth(W)
             P == W[D]
  <2>1. a = IF b.lb[I] = NULL THEN [b EXCEPT !.lb[I] = n, !.node = F]
            ELSE IF len[P] = len[n] THEN [b EXCEPT !.node = JoinRing(F, n, P)]
            ELSE [b EXCEPT !.node = HungLeaf(F, n, P, Key(len[n], D))]
    BY ONLY a = mm_link_large(b, len, n) DEF mm_link_large, HungLeaf, Key
  <2>2. I = i
    BY <1>1, <1>2 DEF Slot
  <2> HIDE DEF I
  <2>3. F = f
    BY <1>4, <2>2
  <2>4. W = at
    BY <1>1, <1>2, <1>3, <2>2 DEF PathTo
  <2> HIDE DEF F, W
  <2>5. D = d /\ P = p
    BY <1>8, <1>9, <2>4
  <2> HIDE DEF D, P
  <2> QED BY ONLY <1>1, <2>1, <2>2, <2>3, <2>5
<1>11. CASE b.lb[i] = NULL
  <2>1. a.lb = [b.lb EXCEPT ![i] = n] /\ a.node = f /\ a = [lb |-> a.lb, node |-> a.node]
    BY <1>7, <1>10, <1>11
  <2>2. Joined(b, len, L, a, n)
    BY <1>1, <1>2, <1>6, <1>11, <2>1, LinkRoot
  <2> QED BY <2>2, JoinedGood
<1>12. CASE b.lb[i] # NULL
  <2>1. d \in 0 .. Levels /\ p # NULL /\ at[d + 1] = NULL
    BY <1>2, <1>3, <1>5, <1>8, <1>9, <1>12, LastDepthIs
  <2>2. d \in 0 .. DEPTH /\ d \in 0 .. DEPTH - 1
    BY <2>1 DEF Levels, DEPTH
  <2>3. CASE len[p] = s
    <3>1. a.lb = b.lb /\ a.node = JoinRing(f, n, p) /\ a = [lb |-> a.lb, node |-> a.node]
      BY <1>7, <1>10, <1>12, <2>3
    <3>2. Joined(b, len, L, a, n)
      BY <1>1, <1>3, <1>6, <1>9, <2>1, <2>2, <2>3, <3>1, LinkRing
    <3> QED BY <3>2, JoinedGood
  <2>4. CASE len[p] # s
    <3>1. /\ a.lb = b.lb /\ a.node = HungLeaf(f, n, p, Key(s, d))
          /\ a = [lb |-> a.lb, node |-> a.node]
      BY <1>7, <1>10, <1>12, <2>4
    <3>2. Joined(b, len, L, a, n)
      BY ONLY <1>1, <1>3, <1>6, <1>9, <2>1, <2>2, <2>4, <3>1, LinkLeaf,
              Good(b, len, L), n \in Nat \ {0}, n \notin L
    <3> QED BY <3>2, JoinedGood
  <2> QED BY <2>3, <2>4
<1> QED BY <1>11, <1>12
(* Lengths of chunks outside the tries do not matter.                         *)
LEMMA Resized ==
    ASSUME NEW b, NEW len, NEW L, Good(b, len, L), NEW leng, \A n \in L : leng[n] = len[n]
    PROVE  Good(b, leng, L)
<1>1. Typed(b, len, L) /\ Rooted(b, len) /\ Branched(b, len, L) /\ Ringed(b, len, L)
  BY DEF Good, Parted
<1>2. Typed(b, leng, L)
  BY <1>1 DEF Typed
<1>3. Kept(b, len, L, b, leng)
  BY DEF Kept
<1>4. Rooted(b, leng)
  <2>1. \A i \in 0 .. LB_COUNT - 1 : b.lb[i] # NULL => b.lb[i] \in L
    BY <1>1 DEF Typed, Tries
  <2> QED BY <1>1, <2>1 DEF Rooted
<1>5. Branched(b, leng, L)
  <2>1. ASSUME NEW n \in L, NEW j \in 0 .. 1, b.node[n].c[j] # NULL
        PROVE  Child(b, leng, n, j, b.node[n].c[j])
    <3>1. PICK c \in L : c = b.node[n].c[j]
      BY <1>1, <2>1, NodeLinks
    <3>2. Child(b, len, n, j, c)
      BY <1>1, <2>1, <3>1 DEF Branched
    <3> QED BY <1>1, <1>2, <1>3, <3>1, <3>2, KeptChild
  <2> QED BY <2>1 DEF Branched
<1>6. Ringed(b, leng, L)
  BY <1>1 DEF Ringed
<1>7. ASSUME NEW n \in L PROVE Placed(b, leng, L, n)
  <2>1. Placed(b, len, L, n)
    BY DEF Good
  <2>2. PICK d \in 0 .. DEPTH, r \in L :
           r = PathTo(b, len, len[n])[d] /\ len[r] = len[n] /\ InRing(b, L, r, n)
    BY <2>1 DEF Placed
  <2>3. r # NULL /\ len[n] \in Lengths
    BY <1>1 DEF Typed, NULL
  <2>4. PICK at, bt : at = PathTo(b, len, len[n]) /\ bt = PathTo(b, leng, len[n])
    OBVIOUS
  <2>5. bt[d] = r
    BY <1>1, <1>2, <1>3, <2>2, <2>3, <2>4, KeptWay
  <2>6. leng[n] = len[n] /\ leng[r] = len[r]
    OBVIOUS
  <2> QED BY <2>2, <2>4, <2>5, <2>6 DEF Placed
<1> QED BY <1>2, <1>4, <1>5, <1>6, <1>7 DEF Good, Parted

-------------------------------------------------------------------------------
(* The inductive invariant: the chunks freed so far are the first few, and    *)
(* the tries hold them.                                                       *)
IInv == /\ \E N \in 0 .. MaxChunks : Linked = 1 .. N
        /\ Good(bins, size, Linked)

LEMMA InitInv == Init => IInv
<1> SUFFICES ASSUME Init PROVE IInv
  OBVIOUS
<1>1. Linked = {} /\ Linked = 1 .. 0
  BY DEF Init, Linked
<1>2. 0 \in 0 .. MaxChunks
  BY SizeAssumption
<1>3. \A i \in 0 .. LB_COUNT - 1 : bins.lb[i] = NULL
  BY DEF Init
<1>4. Typed(bins, size, {})
  BY DEF Init, Typed, Tries
<1>5. Good(bins, size, {})
  BY <1>3, <1>4 DEF Good, Parted, Rooted, Branched, Ringed
<1> QED BY <1>1, <1>2, <1>5 DEF IInv

LEMMA LinkInv ==
    ASSUME IInv, NEW s \in Sizes, Link(s)
    PROVE  IInv'
<1>1. PICK N \in 0 .. MaxChunks : Linked = 1 .. N
  BY DEF IInv
<1>2. PICK L : L = Linked
  OBVIOUS
<1>3. N \in Nat /\ MaxChunks \in Nat
  BY SizeAssumption
<1>4. Cardinality(L) = N
  BY <1>1, <1>2, <1>3, FS_Interval
<1>5. PICK n \in Nat \ {0} : n = N + 1
  BY <1>3
<1>6. n \notin L /\ L \cup {n} = 1 .. n
  BY <1>1, <1>2, <1>3, <1>5
<1>7. PICK sized : sized = [m \in L \cup {n} |-> IF m = n THEN s ELSE size[m]]
  OBVIOUS
<1>8. n <= MaxChunks /\ size' = sized /\ bins' = mm_link_large(bins, sized, n)
  BY <1>2, <1>4, <1>5, <1>7 DEF Link
<1>9. Good(bins, size, L)
  BY <1>2 DEF IInv
<1>10. Good(bins, sized, L)
  <2>1. \A m \in L : sized[m] = size[m]
    BY <1>6, <1>7
  <2> QED BY <1>9, <2>1, Resized
<1>11. sized[n] \in Lengths
  BY <1>7, SizeAssumption DEF Lengths
<1>12. Good(bins', sized, L \cup {n})
  BY <1>5, <1>6, <1>8, <1>10, <1>11, LinkGood
<1>13. Linked' = L \cup {n}
  BY <1>7, <1>8 DEF Linked
<1>14. n \in 0 .. MaxChunks
  BY <1>3, <1>5, <1>8
<1> QED BY <1>6, <1>8, <1>12, <1>13, <1>14 DEF IInv

LEMMA NextInv == IInv /\ [Next]_vars => IInv'
<1> SUFFICES ASSUME IInv, [Next]_vars PROVE IInv'
  OBVIOUS
<1>1. CASE Next
  BY <1>1, LinkInv DEF Next
<1>2. CASE UNCHANGED vars
  BY <1>2 DEF vars, IInv, Linked
<1> QED BY <1>1, <1>2

(* However many chunks are freed and of whatever lengths, the tries part them *)
(* by the bits of their lengths, mm_link_large puts each where its length     *)
(* leads, and the rings hold chunks of one length.                            *)
THEOREM Invariance == Spec => []IInv
<1>1. Init => IInv
  BY InitInv
<1>2. IInv /\ [Next]_vars => IInv'
  BY NextInv
<1> QED BY <1>1, <1>2, PTL DEF Spec

-------------------------------------------------------------------------------
(* What a search can come to.                                                 *)

(* No link leads out of C.                                                    *)
Closed(b, C) ==
    \A x \in C : /\ b.node[x].next \in C
                 /\ \A j \in 0 .. 1 : b.node[x].c[j] # NULL => b.node[x].c[j] \in C

(* R is the smallest set with root that no link leads out of.                 *)
Closure(b, L, root, R) ==
    /\ root \in R /\ R \in SUBSET L /\ Closed(b, R)
    /\ \A C \in SUBSET L : root \in C /\ Closed(b, C) => R \in SUBSET C

(* The chunks that S, and one link from S, leads to.                          *)
More(b, S) ==
    S \cup UNION {{b.node[p].next, b.node[p].c[0], b.node[p].c[1]}
                     : p \in (S \cap DOMAIN b.node)}

LEMMA MoreIs ==
    ASSUME NEW b, NEW len, NEW L, Typed(b, len, L), NEW S \in SUBSET (L \cup {NULL})
    PROVE  /\ More(b, S) \in SUBSET (L \cup {NULL})
           /\ \A y : y \in More(b, S) <=>
                 \/ y \in S
                 \/ \E p \in S \cap L : y = b.node[p].next \/ \E j \in 0 .. 1 : y = b.node[p].c[j]
<1>1. DOMAIN b.node = L
  BY DEF Typed, Tries
<1>2. ASSUME NEW y
      PROVE  y \in More(b, S) <=>
                 \/ y \in S
                 \/ \E p \in S \cap L : y = b.node[p].next \/ \E j \in 0 .. 1 : y = b.node[p].c[j]
  <2>1. y \in More(b, S) <=>
           \/ y \in S
           \/ \E p \in S \cap L : y \in {b.node[p].next, b.node[p].c[0], b.node[p].c[1]}
    BY <1>1 DEF More
  <2>2. 0 .. 1 = {0, 1}
    OBVIOUS
  <2> QED BY <2>1, <2>2
<1>3. ASSUME NEW p \in L
      PROVE  b.node[p].next \in L /\ \A j \in 0 .. 1 : b.node[p].c[j] \in L \cup {NULL}
  BY NodeLinks
<1>4. \A y : y \in More(b, S) => y \in L \cup {NULL}
  BY <1>2, <1>3
<1> QED BY <1>2, <1>4

(* The sets that Reachable goes through.                                      *)
Spread(b, L, root, N, w) ==
    /\ w[0] = {root} /\ \A k \in 0 .. N : w[k] \in SUBSET (L \cup {NULL})
    /\ \A k \in 0 .. N - 1 : w[k + 1] = More(b, w[k])

LEMMA ReachableSpreads ==
    ASSUME NEW b, NEW len, NEW L, Typed(b, len, L), NEW root \in L,
           NEW N \in Nat, N = Cardinality(DOMAIN b.node)
    PROVE  \E w : Spread(b, L, root, N, w) /\ Reachable(b, root) = w[N] \ {NULL}
<1> DEFINE X == SUBSET (L \cup {NULL})
           Body(g) == [k \in 0 .. N |-> IF k = 0 THEN {root}
                         ELSE g[k - 1] \cup
                              UNION {{b.node[p].next, b.node[p].c[0], b.node[p].c[1]}
                                       : p \in (g[k - 1] \cap DOMAIN b.node)}]
           w == CHOOSE g : g = Body(g)
<1>1. PICK F : F = [e \in (1 .. N) \X X |-> More(b, e[2])]
  OBVIOUS
<1>2. KeepsIn(F, X, N)
  BY <1>1, MoreIs DEF KeepsIn
<1>3. PICK f : Iterates(f, F, X, N, {root})
  <2>1. {root} \in X
    OBVIOUS
  <2> HIDE DEF X
  <2> QED BY ONLY <1>2, <2>1, N \in Nat, Recursion
<1>4. ASSUME NEW g
      PROVE  g = Body(g) <=> g = [k \in 0 .. N |-> IF k = 0 THEN {root} ELSE More(b, g[k - 1])]
  BY DEF More
<1>5. f = Body(f)
  <2>1. /\ f \in [0 .. N -> X] /\ f[0] = {root}
        /\ \A k \in 1 .. N : f[k] = F[<<k, f[k - 1]>>]
    BY <1>3 DEF Iterates
  <2>2. ASSUME NEW k \in 1 .. N PROVE f[k] = More(b, f[k - 1])
    <3>1. k - 1 \in 0 .. N
      OBVIOUS
    <3>2. f[k - 1] \in X
      BY <2>1, <3>1
    <3>3. F[<<k, f[k - 1]>>] = More(b, f[k - 1])
      BY <1>1, <3>2
    <3> QED BY <2>1, <3>3
  <2>3. \A k \in 0 .. N : f[k] = IF k = 0 THEN {root} ELSE More(b, f[k - 1])
    BY <2>1, <2>2
  <2>4. f = [k \in 0 .. N |-> IF k = 0 THEN {root} ELSE More(b, f[k - 1])]
    BY <2>1, <2>3
  <2> HIDE DEF Body
  <2> QED BY <1>4, <2>4
<1>6. w = Body(w)
  BY <1>5
<1>7. Reachable(b, root) = w[N] \ {NULL}
  <2>1. root # NULL
    BY DEF Typed, NULL
  <2> QED BY <2>1 DEF Reachable
<1> HIDE DEF w
<1>8. w = [k \in 0 .. N |-> IF k = 0 THEN {root} ELSE More(b, w[k - 1])]
  <2> HIDE DEF Body
  <2> QED BY <1>4, <1>6
<1> HIDE DEF Body
<1>9. w[0] = {root} /\ \A k \in 0 .. N - 1 : w[k + 1] = More(b, w[k])
  <2>1. w[0] = {root}
    BY <1>8
  <2>2. ASSUME NEW k \in 0 .. N - 1 PROVE w[k + 1] = More(b, w[k])
    <3>1. PICK e \in 0 .. N : e = k + 1 /\ k = e - 1 /\ e # 0
      OBVIOUS
    <3>2. w[e] = More(b, w[e - 1])
      BY <1>8, <3>1
    <3> QED BY <3>1, <3>2
  <2> QED BY <2>1, <2>2
<1>10. {k \in Nat : k <= N /\ w[k] \notin X} = {}
  <2> DEFINE Bad == {k \in Nat : k <= N /\ w[k] \notin X}
  <2> SUFFICES ASSUME Bad # {} PROVE FALSE
    OBVIOUS
  <2>1. PICK k \in Bad : \A j \in Bad : k <= j
    <3>1. Bad \in SUBSET Nat
      OBVIOUS
    <3> HIDE DEF Bad
    <3> QED BY <3>1, LeastNat
  <2>2. k \in Nat /\ k <= N /\ w[k] \notin X
    OBVIOUS
  <2>3. k # 0
    BY <1>9, <2>2
  <2>4. PICK j \in Nat : k = j + 1
    <3>1. k - 1 \in Nat /\ k = (k - 1) + 1
      BY <2>2, <2>3
    <3> QED BY <3>1
  <2>5. j \notin Bad /\ j \in 0 .. N - 1
    BY <2>1, <2>2, <2>4
  <2>6. w[j] \in X
    BY <2>5
  <2> QED BY <1>9, <2>2, <2>4, <2>5, <2>6, MoreIs
<1> QED BY <1>7, <1>9, <1>10 DEF Spread

(* As many rounds as there are chunks are enough: a round that adds nothing   *)
(* is the last that would, and there are no more chunks to add than rounds.   *)
LEMMA ReachableIs ==
    ASSUME NEW b, NEW len, NEW L, Typed(b, len, L), IsFiniteSet(L), NEW root \in L
    PROVE  Closure(b, L, root, Reachable(b, root))
<1>1. DOMAIN b.node = L
  BY DEF Typed, Tries
<1>2. PICK N \in Nat : N = Cardinality(L)
  BY FS_CardinalityType
<1>3. PICK w : Spread(b, L, root, N, w) /\ Reachable(b, root) = w[N] \ {NULL}
  BY <1>1, <1>2, ReachableSpreads
<1>4. NULL \notin L
  BY DEF Typed, NULL
<1> DEFINE G(k) == w[k] \cap L
<1>5. ASSUME NEW k \in 0 .. N
      PROVE  G(k) \in SUBSET L /\ IsFiniteSet(G(k)) /\ Cardinality(G(k)) \in Nat
  <2>1. G(k) \in SUBSET L
    OBVIOUS
  <2> HIDE DEF G
  <2> QED BY <2>1, FS_Subset, FS_CardinalityType
<1>6. ASSUME NEW k \in 0 .. N - 1
      PROVE  \A y : y \in G(k + 1) <=>
               \/ y \in G(k)
               \/ /\ y \in L
                  /\ \E p \in G(k) : y = b.node[p].next \/ \E j \in 0 .. 1 : y = b.node[p].c[j]
  <2>1. w[k + 1] = More(b, w[k]) /\ w[k] \in SUBSET (L \cup {NULL})
    BY <1>3 DEF Spread
  <2>2. \A y : y \in More(b, w[k]) <=>
           \/ y \in w[k]
           \/ \E p \in w[k] \cap L : y = b.node[p].next \/ \E j \in 0 .. 1 : y = b.node[p].c[j]
    BY <2>1, MoreIs
  <2> QED BY <2>1, <2>2
<1>7. G(0) = {root}
  BY <1>3 DEF Spread
<1> HIDE DEF G
<1>8. ASSUME NEW p \in L
      PROVE  b.node[p].next \in L /\ \A j \in 0 .. 1 : b.node[p].c[j] \in L \cup {NULL}
  BY NodeLinks
<1> DEFINE Done(k) == Closed(b, G(k)) \/ Cardinality(G(k)) >= k + 1
           Bad == {k \in Nat : k <= N /\ ~Done(k)}
<1>9. Bad = {}
  <2> SUFFICES ASSUME Bad # {} PROVE FALSE
    OBVIOUS
  <2>1. PICK k \in Bad : \A j \in Bad : k <= j
    <3>1. Bad \in SUBSET Nat
      OBVIOUS
    <3> HIDE DEF Bad
    <3> QED BY <3>1, LeastNat
  <2>2. k \in Nat /\ k <= N /\ ~Closed(b, G(k)) /\ ~(Cardinality(G(k)) >= k + 1)
    OBVIOUS
  <2>3. k # 0
    <3>1. Cardinality({root}) = 1
      BY FS_Singleton
    <3> QED BY <1>7, <2>2, <3>1
  <2>4. PICK j \in Nat : k = j + 1
    <3>1. k - 1 \in Nat /\ k = (k - 1) + 1
      BY <2>2, <2>3
    <3> QED BY <3>1
  <2>5. j \notin Bad /\ j \in 0 .. N - 1 /\ j \in 0 .. N /\ k \in 0 .. N /\ j <= N
    BY <2>1, <2>2, <2>4
  <2>6. Done(j)
    BY <2>5
  <2>7. \A y : y \in G(k) <=>
           \/ y \in G(j)
           \/ /\ y \in L
              /\ \E p \in G(j) : y = b.node[p].next \/ \E m \in 0 .. 1 : y = b.node[p].c[m]
    BY <1>6, <2>4, <2>5
  <2>8. CASE Closed(b, G(j))
    <3>1. G(k) = G(j)
      BY <1>4, <2>7, <2>8 DEF Closed
    <3> QED BY <2>2, <2>8, <3>1
  <2>9. CASE ~Closed(b, G(j))
    <3>1. Cardinality(G(j)) >= j + 1
      BY <2>6, <2>9
    <3>2. G(j) \in SUBSET G(k) /\ G(j) # G(k)
      <4>1. G(j) \in SUBSET G(k)
        BY <2>7
      <4>2. PICK x \in G(j) : \/ b.node[x].next \notin G(j)
                              \/ \E m \in 0 .. 1 : /\ b.node[x].c[m] # NULL
                                                   /\ b.node[x].c[m] \notin G(j)
        BY <2>9 DEF Closed
      <4>3. x \in L
        BY <1>5, <2>5, <4>2
      <4>4. \E y \in L : /\ y \notin G(j)
                         /\ y = b.node[x].next \/ \E m \in 0 .. 1 : y = b.node[x].c[m]
        BY <1>8, <4>2, <4>3
      <4> QED BY <2>7, <4>1, <4>2, <4>4
    <3>3. /\ Cardinality(G(j)) \in Nat /\ Cardinality(G(k)) \in Nat /\ IsFiniteSet(G(k))
      BY <1>5, <2>5
    <3>4. Cardinality(G(j)) <= Cardinality(G(k)) /\ Cardinality(G(k)) # Cardinality(G(j))
      BY <3>2, <3>3, FS_Subset
    <3> QED BY <2>2, <2>4, <3>1, <3>3, <3>4
  <2> QED BY <2>8, <2>9
<1>10. Closed(b, G(N))
  <2>1. N \notin Bad
    BY <1>9
  <2>2. G(N) \in SUBSET L /\ Cardinality(G(N)) \in Nat
    BY <1>5
  <2>3. Cardinality(G(N)) <= N
    BY <1>2, <2>2, FS_Subset
  <2> QED BY <2>1, <2>2, <2>3
<1>11. ASSUME NEW C \in SUBSET L, root \in C, Closed(b, C) PROVE G(N) \in SUBSET C
  <2> DEFINE Out == {k \in Nat : k <= N /\ ~(G(k) \in SUBSET C)}
  <2>1. Out = {}
    <3> SUFFICES ASSUME Out # {} PROVE FALSE
      OBVIOUS
    <3>1. PICK k \in Out : \A j \in Out : k <= j
      <4>1. Out \in SUBSET Nat
        OBVIOUS
      <4> HIDE DEF Out
      <4> QED BY <4>1, LeastNat
    <3>2. k \in Nat /\ k <= N /\ ~(G(k) \in SUBSET C)
      OBVIOUS
    <3>3. k # 0
      BY <1>7, <1>11, <3>2
    <3>4. PICK j \in Nat : k = j + 1
      <4>1. k - 1 \in Nat /\ k = (k - 1) + 1
        BY <3>2, <3>3
      <4> QED BY <4>1
    <3>5. j \notin Out /\ j \in 0 .. N - 1 /\ j <= N
      BY <3>1, <3>2, <3>4
    <3>6. G(j) \in SUBSET C
      BY <3>5
    <3>7. \A y : y \in G(k) <=>
             \/ y \in G(j)
             \/ /\ y \in L
                /\ \E p \in G(j) : y = b.node[p].next \/ \E m \in 0 .. 1 : y = b.node[p].c[m]
      BY <1>6, <3>4, <3>5
    <3> QED BY <1>4, <1>11, <3>2, <3>6, <3>7 DEF Closed
  <2>2. N \notin Out
    BY <2>1
  <2> QED BY <2>2
<1>12. root \in G(N)
  <2> DEFINE Out == {k \in Nat : k <= N /\ root \notin G(k)}
  <2>1. Out = {}
    <3> SUFFICES ASSUME Out # {} PROVE FALSE
      OBVIOUS
    <3>1. PICK k \in Out : \A j \in Out : k <= j
      <4>1. Out \in SUBSET Nat
        OBVIOUS
      <4> HIDE DEF Out
      <4> QED BY <4>1, LeastNat
    <3>2. k \in Nat /\ k <= N /\ root \notin G(k)
      OBVIOUS
    <3>3. k # 0
      BY <1>7, <3>2
    <3>4. PICK j \in Nat : k = j + 1
      <4>1. k - 1 \in Nat /\ k = (k - 1) + 1
        BY <3>2, <3>3
      <4> QED BY <4>1
    <3>5. j \notin Out /\ j \in 0 .. N - 1 /\ j <= N
      BY <3>1, <3>2, <3>4
    <3> QED BY <1>6, <3>2, <3>4, <3>5
  <2>2. N \notin Out
    BY <2>1
  <2> QED BY <2>2
<1>13. Reachable(b, root) = G(N)
  <2>1. w[N] \in SUBSET (L \cup {NULL})
    BY <1>3 DEF Spread
  <2> QED BY <1>3, <1>4, <2>1 DEF G
<1>14. G(N) \in SUBSET L
  BY <1>5
<1> QED BY <1>10, <1>11, <1>12, <1>13, <1>14 DEF Closure

LEMMA BinReached ==
    ASSUME NEW b, NEW len, NEW L, Good(b, len, L), IsFiniteSet(L),
           NEW i \in 0 .. LB_COUNT - 1
    PROVE  Reachable(b, b.lb[i]) = {n \in L : Slot(len[n]) = i}
<1> DEFINE B == {n \in L : Slot(len[n]) = i}
<1>1. Typed(b, len, L) /\ Rooted(b, len) /\ Branched(b, len, L) /\ Ringed(b, len, L)
  BY DEF Good, Parted
<1>2. ASSUME NEW n \in B
      PROVE  \E at : \E d \in 0 .. DEPTH, r \in L :
                /\ Walk(at, b, len, L, len[n]) /\ at[0] = b.lb[i]
                /\ r = at[d] /\ InRing(b, L, r, n)
  <2>1. n \in L /\ Slot(len[n]) = i /\ len[n] \in Lengths
    BY <1>1 DEF Typed
  <2>2. Placed(b, len, L, n)
    BY <2>1 DEF Good
  <2>3. PICK d \in 0 .. DEPTH, r \in L :
           r = PathTo(b, len, len[n])[d] /\ len[r] = len[n] /\ InRing(b, L, r, n)
    BY <2>2 DEF Placed
  <2>4. PICK at : at = PathTo(b, len, len[n])
    OBVIOUS
  <2>5. Walk(at, b, len, L, len[n])
    BY <1>1, <2>1, <2>4, PathWalks
  <2>6. at[0] = b.lb[i]
    BY <2>1, <2>5 DEF Walk
  <2> QED BY <2>3, <2>4, <2>5, <2>6
<1>3. CASE b.lb[i] = NULL
  <2>1. B = {}
    <3> SUFFICES ASSUME NEW n \in B PROVE FALSE
      OBVIOUS
    <3> HIDE DEF B
    <3>1. PICK at : \E d \in 0 .. DEPTH, r \in L :
             /\ Walk(at, b, len, L, len[n]) /\ at[0] = b.lb[i]
             /\ r = at[d] /\ InRing(b, L, r, n)
      BY <1>2
    <3>2. PICK d \in 0 .. DEPTH, r \in L :
             /\ Walk(at, b, len, L, len[n]) /\ at[0] = b.lb[i] /\ r = at[d]
      BY <3>1
    <3>3. r # NULL
      BY <1>1 DEF Typed, NULL
    <3>4. d # 0
      BY <1>3, <3>2, <3>3
    <3>5. 0 \in 0 .. d - 1
      BY <3>4 DEF DEPTH
    <3>6. at[0] # NULL
      BY <3>2, <3>3, <3>5, WalkBefore
    <3> QED BY <1>3, <3>2, <3>6
  <2>2. Reachable(b, b.lb[i]) = {}
    BY <1>3 DEF Reachable
  <2> QED BY <2>1, <2>2
<1>4. CASE b.lb[i] # NULL
  <2>1. PICK root \in L : root = b.lb[i]
    BY <1>1, <1>4 DEF Typed, Tries
  <2>2. PICK R : R = Reachable(b, root)
    OBVIOUS
  <2>3. Closure(b, L, root, R)
    BY <1>1, <2>2, ReachableIs
  <2>4. R \in SUBSET B
    <3>1. root \in B
      BY <1>1, <1>4, <2>1 DEF Rooted
    <3>2. Closed(b, B)
      <4>1. ASSUME NEW x \in B
            PROVE  /\ b.node[x].next \in B
                   /\ \A j \in 0 .. 1 : b.node[x].c[j] # NULL => b.node[x].c[j] \in B
        <5>1. x \in L /\ Slot(len[x]) = i
          OBVIOUS
        <5>2. b.node[x].next \in L /\ len[b.node[x].next] = len[x]
          BY <1>1, <5>1 DEF Ringed
        <5>3. ASSUME NEW j \in 0 .. 1, b.node[x].c[j] # NULL PROVE b.node[x].c[j] \in B
          <6>1. b.node[x].c[j] \in L
            BY <1>1, <5>1, <5>3, NodeLinks
          <6>2. Child(b, len, x, j, b.node[x].c[j])
            BY <1>1, <5>1, <5>3 DEF Branched
          <6> QED BY <5>1, <6>1, <6>2 DEF Child
        <5> QED BY <5>1, <5>2, <5>3
      <4> QED BY <4>1 DEF Closed
    <3>3. B \in SUBSET L
      OBVIOUS
    <3> HIDE DEF B
    <3> QED BY <2>3, <3>1, <3>2, <3>3 DEF Closure
  <2>5. ASSUME NEW n \in B PROVE n \in R
    <3> HIDE DEF B
    <3>1. PICK at : \E d \in 0 .. DEPTH, r \in L :
             /\ Walk(at, b, len, L, len[n]) /\ at[0] = b.lb[i]
             /\ r = at[d] /\ InRing(b, L, r, n)
      BY <1>2
    <3>2. PICK d \in 0 .. DEPTH, r \in L :
             /\ Walk(at, b, len, L, len[n]) /\ at[0] = root
             /\ r = at[d] /\ InRing(b, L, r, n)
      BY <2>1, <3>1
    <3>3. R \in SUBSET L /\ Closed(b, R) /\ root \in R
      BY <2>3 DEF Closure
    <3> DEFINE Out == {k \in Nat : k <= d /\ at[k] \notin R}
    <3>4. Out = {}
      <4> SUFFICES ASSUME Out # {} PROVE FALSE
        OBVIOUS
      <4>1. PICK k \in Out : \A j \in Out : k <= j
        <5>1. Out \in SUBSET Nat
          OBVIOUS
        <5> HIDE DEF Out
        <5> QED BY <5>1, LeastNat
      <4>2. k \in Nat /\ k <= d /\ at[k] \notin R
        OBVIOUS
      <4>3. k # 0
        BY <3>2, <3>3, <4>2
      <4>4. PICK j \in Nat : k = j + 1
        <5>1. k - 1 \in Nat /\ k = (k - 1) + 1
          BY <4>2, <4>3
        <5> QED BY <5>1
      <4>5. j \notin Out /\ j \in 0 .. d - 1 /\ j \in 0 .. DEPTH - 1
        BY <4>1, <4>2, <4>4 DEF DEPTH
      <4>6. at[j] \in R
        BY <4>5
      <4>7. r # NULL
        BY <1>1 DEF Typed, NULL
      <4>8. at[j] # NULL /\ at[j] \in L /\ len[at[j]] # len[n]
        BY <3>2, <4>5, <4>7, WalkBefore
      <4>9. at[k] # NULL
        <5>1. k # d => k \in 0 .. d - 1
          BY <4>2 DEF DEPTH
        <5> QED BY <3>2, <4>7, <5>1, WalkBefore
      <4>10. at[k] = b.node[at[j]].c[Key(len[n], j)]
        BY <3>2, <4>4, <4>5, <4>8 DEF Walk
      <4>11. Key(len[n], j) \in 0 .. 1
        <5>1. len[n] \in Lengths
          BY <1>1 DEF B, Typed
        <5> QED BY <5>1, HighBitIs, KeyIs
      <4> QED BY <3>3, <4>2, <4>6, <4>9, <4>10, <4>11 DEF Closed
    <3>5. d \notin Out /\ d \in Nat /\ d <= d
      BY <3>4 DEF DEPTH
    <3>6. r \in R
      BY <3>2, <3>5
    <3> QED BY <3>2, <3>3, <3>6 DEF InRing, Closed
  <2> QED BY <2>1, <2>2, <2>4, <2>5
<1> QED BY <1>3, <1>4

LEMMA AllLinkedHolds == IInv => AllLinked
<1> SUFFICES ASSUME IInv PROVE AllLinked
  OBVIOUS
<1>1. PICK N \in 0 .. MaxChunks : Linked = 1 .. N
  BY DEF IInv
<1>2. IsFiniteSet(Linked)
  <2>1. N \in Int /\ 1 \in Int
    BY SizeAssumption
  <2> QED BY <1>1, <2>1, FS_Interval
<1>3. Good(bins, size, Linked)
  BY DEF IInv
<1>4. ASSUME NEW i \in 0 .. LB_COUNT - 1
      PROVE  Reachable(bins, bins.lb[i]) = {n \in Linked : mm_slot_large(size[n]) = i}
  <2>1. Reachable(bins, bins.lb[i]) = {n \in Linked : Slot(size[n]) = i}
    BY <1>2, <1>3, BinReached
  <2> QED BY <2>1 DEF Slot
<1>5. \A n \in Linked : /\ bins.node[bins.node[n].next].prev = n
                        /\ bins.node[bins.node[n].prev].next = n
                        /\ size[bins.node[n].next] = size[n]
  BY <1>3 DEF Good, Ringed
<1> QED BY <1>4, <1>5 DEF AllLinked

(* Every chunk freed can be reached from the root of its bin and from no      *)
(* other, and each ring holds just the chunks of one length.                  *)
THEOREM Reached == Spec => []AllLinked
<1>1. IInv => AllLinked
  BY AllLinkedHolds
<1> QED BY <1>1, Invariance, PTL

-------------------------------------------------------------------------------
(* What a search finds.                                                       *)

(* The way down from root by the left child, or the right if there is none.   *)
Down(at, b, L, root) ==
    /\ at[0] = root /\ \A d \in 0 .. DEPTH : at[d] \in L \cup {NULL}
    /\ \A d \in 0 .. DEPTH - 1 :
          at[d + 1] = IF at[d] = NULL THEN NULL
                      ELSE b.node[at[d]].c[IF b.node[at[d]].c[0] # NULL THEN 0 ELSE 1]

LEMMA SpineIs ==
    ASSUME NEW b, NEW len, NEW L, Typed(b, len, L), NEW root \in L
    PROVE  \E at : Down(at, b, L, root) /\ Spine(b, root) = {at[d] : d \in 0 .. DEPTH} \ {NULL}
<1> DEFINE X == L \cup {NULL}
           Under(p) == IF p = NULL THEN NULL
                       ELSE b.node[p].c[IF b.node[p].c[0] # NULL THEN 0 ELSE 1]
           Body(g) == [d \in 0 .. DEPTH |-> IF d = 0 THEN root
                         ELSE LET p == g[d - 1]
                                  c == b.node[p].c
                              IN IF p = NULL THEN NULL ELSE c[IF c[0] # NULL THEN 0 ELSE 1]]
           w == CHOOSE g : g = Body(g)
<1>0. DEPTH \in Nat
  BY DEF DEPTH
<1>1. \A p \in X : Under(p) \in X
  <2>1. ASSUME NEW p \in L PROVE Under(p) \in X
    <3>1. b.node[p].c \in [0 .. 1 -> X] /\ p # NULL
      BY NodeLinks DEF Typed, NULL
    <3> QED BY <3>1
  <2> QED BY <2>1
<1>2. ASSUME NEW g
      PROVE  g = Body(g) <=> g = [d \in 0 .. DEPTH |-> IF d = 0 THEN root ELSE Under(g[d - 1])]
  OBVIOUS
<1> HIDE DEF Under, Body
<1>3. PICK F : F = [e \in (1 .. DEPTH) \X X |-> Under(e[2])]
  OBVIOUS
<1>4. KeepsIn(F, X, DEPTH)
  BY <1>1, <1>3 DEF KeepsIn
<1>5. PICK f : Iterates(f, F, X, DEPTH, root)
  <2>1. root \in X
    OBVIOUS
  <2> HIDE DEF X
  <2> QED BY ONLY <1>0, <1>4, <2>1, Recursion
<1>6. f = Body(f)
  <2>1. /\ f \in [0 .. DEPTH -> X] /\ f[0] = root
        /\ \A d \in 1 .. DEPTH : f[d] = F[<<d, f[d - 1]>>]
    BY <1>5 DEF Iterates
  <2>2. ASSUME NEW d \in 1 .. DEPTH PROVE f[d] = Under(f[d - 1])
    <3>1. d - 1 \in 0 .. DEPTH
      BY <1>0
    <3>2. f[d - 1] \in X
      BY <2>1, <3>1
    <3>3. F[<<d, f[d - 1]>>] = Under(f[d - 1])
      BY <1>3, <3>2
    <3> QED BY <2>1, <3>3
  <2>3. \A d \in 0 .. DEPTH : f[d] = IF d = 0 THEN root ELSE Under(f[d - 1])
    BY <1>0, <2>1, <2>2
  <2>4. f = [d \in 0 .. DEPTH |-> IF d = 0 THEN root ELSE Under(f[d - 1])]
    BY <2>1, <2>3
  <2> QED BY <1>2, <2>4
<1>7. w = Body(w)
  BY <1>6
<1>8. Spine(b, root) = {w[d] : d \in 0 .. DEPTH} \ {NULL}
  <2>1. root # NULL
    BY DEF Typed, NULL
  <2> QED BY <2>1 DEF Spine, Body
<1> HIDE DEF w
<1>9. w = [d \in 0 .. DEPTH |-> IF d = 0 THEN root ELSE Under(w[d - 1])]
  BY <1>2, <1>7
<1>10. w[0] = root /\ \A d \in 0 .. DEPTH - 1 : w[d + 1] = Under(w[d])
  <2>1. w[0] = root
    BY <1>0, <1>9
  <2>2. ASSUME NEW d \in 0 .. DEPTH - 1 PROVE w[d + 1] = Under(w[d])
    <3>1. PICK e \in 0 .. DEPTH : e = d + 1 /\ d = e - 1 /\ e # 0
      BY <1>0
    <3>2. w[e] = Under(w[e - 1])
      BY <1>9, <3>1
    <3> QED BY <3>1, <3>2
  <2> QED BY <2>1, <2>2
<1>11. {d \in Nat : d <= DEPTH /\ w[d] \notin X} = {}
  <2> DEFINE Bad == {d \in Nat : d <= DEPTH /\ w[d] \notin X}
  <2> SUFFICES ASSUME Bad # {} PROVE FALSE
    OBVIOUS
  <2>1. PICK d \in Bad : \A e \in Bad : d <= e
    <3>1. Bad \in SUBSET Nat
      OBVIOUS
    <3> HIDE DEF Bad
    <3> QED BY <3>1, LeastNat
  <2>2. d \in Nat /\ d <= DEPTH /\ w[d] \notin X
    OBVIOUS
  <2>3. d # 0
    BY <1>10, <2>2
  <2>4. PICK e \in Nat : d = e + 1
    <3>1. d - 1 \in Nat /\ d = (d - 1) + 1
      BY <2>2, <2>3
    <3> QED BY <3>1
  <2>5. e \notin Bad /\ e \in 0 .. DEPTH - 1
    BY <1>0, <2>1, <2>2, <2>4
  <2>6. w[e] \in X
    BY <1>0, <2>5
  <2> QED BY <1>1, <1>10, <2>2, <2>4, <2>5, <2>6
<1>12. \A d \in 0 .. DEPTH : w[d] \in X
  BY <1>0, <1>11
<1>13. Down(w, b, L, root)
  BY <1>10, <1>12 DEF Down, Under
<1> QED BY <1>8, <1>13

(* All the spine is in the bin of its root.                                   *)
LEMMA SpineInBin ==
    ASSUME NEW b, NEW len, NEW L, Parted(b, len, L), NEW root \in L,
           NEW n \in Spine(b, root)
    PROVE  n \in L /\ Slot(len[n]) = Slot(len[root])
<1>0. DEPTH \in Nat
  BY DEF DEPTH
<1>1. Typed(b, len, L) /\ Branched(b, len, L)
  BY DEF Parted
<1>2. PICK at : Down(at, b, L, root) /\ Spine(b, root) = {at[d] : d \in 0 .. DEPTH} \ {NULL}
  BY <1>1, SpineIs
<1> DEFINE Bad == {d \in Nat : d <= DEPTH /\ at[d] # NULL /\ Slot(len[at[d]]) # Slot(len[root])}
<1>3. Bad = {}
  <2> SUFFICES ASSUME Bad # {} PROVE FALSE
    OBVIOUS
  <2>1. PICK d \in Bad : \A e \in Bad : d <= e
    <3>1. Bad \in SUBSET Nat
      OBVIOUS
    <3> HIDE DEF Bad
    <3> QED BY <3>1, LeastNat
  <2>2. d \in Nat /\ d <= DEPTH /\ at[d] # NULL /\ Slot(len[at[d]]) # Slot(len[root])
    OBVIOUS
  <2>3. d # 0
    BY <1>2, <2>2 DEF Down
  <2>4. PICK e \in Nat : d = e + 1
    <3>1. d - 1 \in Nat /\ d = (d - 1) + 1
      BY <2>2, <2>3
    <3> QED BY <3>1
  <2>5. e \notin Bad /\ e \in 0 .. DEPTH - 1 /\ e \in 0 .. DEPTH
    BY <1>0, <2>1, <2>2, <2>4
  <2>6. PICK j \in 0 .. 1 : at[e] # NULL /\ at[d] = b.node[at[e]].c[j]
    <3>1. at[e + 1] = IF at[e] = NULL THEN NULL
                      ELSE b.node[at[e]].c[IF b.node[at[e]].c[0] # NULL THEN 0 ELSE 1]
      BY <1>2, <2>5 DEF Down
    <3>2. at[e] # NULL
      BY <2>2, <2>4, <3>1
    <3> QED BY <2>4, <3>1, <3>2
  <2>7. at[e] \in L
    BY <1>2, <2>5, <2>6 DEF Down
  <2>8. Child(b, len, at[e], j, at[d])
    BY <1>1, <2>2, <2>6, <2>7 DEF Branched
  <2>9. Slot(len[at[e]]) = Slot(len[root])
    BY <2>5, <2>6
  <2> QED BY <2>2, <2>8, <2>9 DEF Child
<1>4. PICK d \in 0 .. DEPTH : n = at[d] /\ n # NULL
  BY <1>2
<1>5. d \in Nat /\ d <= DEPTH
  BY <1>0
<1> QED BY <1>2, <1>3, <1>4, <1>5 DEF Down

(* m is the shortest of its bin that agrees in d bits, and root is met on the *)
(* way to it after d levels: then the spine of root comes by m.               *)
LEMMA SpineShortest ==
    ASSUME NEW b, NEW len, NEW L, Parted(b, len, L), NEW m \in L,
           NEW bt, bt = PathTo(b, len, len[m]), NEW e \in 0 .. DEPTH, bt[e] = m,
           NEW d \in 0 .. e, NEW root \in L, root = bt[d],
           \A x \in L : Slot(len[x]) = Slot(len[m]) /\ Agree(len[x], len[m], d) => len[m] <= len[x]
    PROVE  m \in Spine(b, root)
<1>0. DEPTH \in Nat /\ e \in Nat /\ d \in Nat /\ d <= e /\ e <= DEPTH /\ e - d \in Nat
  BY DEF DEPTH
<1>1. Typed(b, len, L) /\ Branched(b, len, L)
  BY DEF Parted
<1>2. PICK at : Down(at, b, L, root) /\ Spine(b, root) = {at[k] : k \in 0 .. DEPTH} \ {NULL}
  BY <1>1, SpineIs
<1>3. len[m] \in Lengths /\ m # NULL
  BY <1>1 DEF Typed, NULL
<1>4. Walk(bt, b, len, L, len[m])
  BY <1>1, <1>3, PathWalks
<1> DEFINE Bad == {k \in Nat : k <= e - d /\ at[k] # bt[d + k]}
<1>5. Bad = {}
  <2> SUFFICES ASSUME Bad # {} PROVE FALSE
    OBVIOUS
  <2>1. PICK k \in Bad : \A j \in Bad : k <= j
    <3>1. Bad \in SUBSET Nat
      OBVIOUS
    <3> HIDE DEF Bad
    <3> QED BY <3>1, LeastNat
  <2>2. k \in Nat /\ k <= e - d /\ at[k] # bt[d + k]
    OBVIOUS
  <2>3. k # 0
    <3>1. d + 0 = d
      BY <1>0
    <3> QED BY <1>2, <2>2, <3>1 DEF Down
  <2>4. PICK j \in Nat : k = j + 1
    <3>1. k - 1 \in Nat /\ k = (k - 1) + 1
      BY <2>2, <2>3
    <3> QED BY <3>1
  <2>5. j \notin Bad /\ j \in 0 .. DEPTH - 1
    BY <1>0, <2>1, <2>2, <2>4
  <2>6. PICK i \in 0 .. DEPTH - 1 : i = d + j /\ i \in 0 .. e - 1 /\ i \in 0 .. DEPTH /\ i + 1 = d + k
    BY <1>0, <2>2, <2>4
  <2>7. PICK n : n = bt[i]
    OBVIOUS
  <2>8. at[j] = n
    BY <1>0, <2>2, <2>4, <2>5, <2>6, <2>7
  <2>9. n # NULL /\ n \in L /\ len[n] # len[m]
    BY <1>3, <1>4, <2>6, <2>7, WalkBefore
  <2>10. Met(b, len, L, len[m], n, i)
    BY <1>3, <2>6, <2>7, <2>9, OnTheWay
  <2>11. bt[i + 1] = b.node[n].c[Key(len[m], i)]
    BY <1>4, <2>6, <2>7, <2>9 DEF Walk
  <2>12. bt[i + 1] # NULL
    <3>1. i + 1 \in 0 .. e
      BY <1>0, <2>6
    <3>2. i + 1 # e => i + 1 \in 0 .. e - 1
      BY <1>0, <3>1
    <3> QED BY <1>3, <1>4, <3>2, WalkBefore
  <2>13. Key(len[m], i) \in 0 .. 1 /\ i \in Nat
    BY <1>3, <2>6, HighBitIs, KeyIs
  <2>14. at[j + 1] = b.node[n].c[IF b.node[n].c[0] # NULL THEN 0 ELSE 1]
    BY <1>2, <2>5, <2>8, <2>9 DEF Down
  <2>15. Key(len[m], i) = 1 => b.node[n].c[0] = NULL
    <3>1. SUFFICES ASSUME Key(len[m], i) = 1, b.node[n].c[0] # NULL PROVE FALSE
      OBVIOUS
    <3>2. PICK x : x = b.node[n].c[0]
      OBVIOUS
    <3>3. x \in L
      <4>1. b.node[n].c \in [0 .. 1 -> L \cup {NULL}]
        BY <1>1, <2>9, NodeLinks
      <4> QED BY <3>1, <3>2, <4>1
    <3>4. Child(b, len, n, 0, x)
      BY <1>1, <2>9, <3>1, <3>2 DEF Branched
    <3>5. PICK h \in 0 .. DEPTH - 1 :
             InTree(b, len, n, h) /\ Key(len[x], h) = 0 /\ Agree(len[x], len[n], h)
      BY <3>4 DEF Child
    <3>6. h = i
      <4>1. h \in 0 .. DEPTH
        BY <1>0
      <4> QED BY <1>1, <2>6, <2>9, <2>10, <3>5, <4>1, OneDepth DEF Met
    <3>7. Agree(len[x], len[m], i) /\ Slot(len[x]) = Slot(len[m])
      BY <2>10, <3>4, <3>5, <3>6 DEF Met, Agree, Child
    <3>8. len[x] \in Lengths
      BY <1>1, <3>3 DEF Typed
    <3>9. len[x] < len[m]
      BY <1>3, <2>13, <3>1, <3>5, <3>6, <3>7, <3>8, KeyOrder
    <3>10. Agree(len[x], len[m], d)
      BY <1>0, <2>6, <3>7 DEF Agree
    <3>11. len[m] <= len[x]
      BY <3>3, <3>7, <3>10
    <3> QED BY <1>3, <3>8, <3>9, <3>11, LengthsNat
  <2>16. at[j + 1] = bt[i + 1]
    BY <2>11, <2>12, <2>13, <2>14, <2>15
  <2> QED BY <2>2, <2>4, <2>6, <2>16
<1>6. PICK k \in 0 .. DEPTH : k = e - d /\ d + k = e /\ k \in Nat
  BY <1>0
<1>7. at[k] = m
  BY <1>5, <1>6
<1> QED BY <1>2, <1>3, <1>7

LEMMA BestIs ==
    ASSUME NEW len, NEW S, NULL \notin S, \A c \in S : len[c] \in Nat, NEW s \in Nat
    PROVE  IF \A c \in S : len[c] < s THEN Best(len, S, s) = NULL
           ELSE /\ Best(len, S, s) \in S /\ len[Best(len, S, s)] >= s
                /\ \A o \in S : len[o] >= s => len[Best(len, S, s)] <= len[o]
<1> DEFINE fit == {c \in S : len[c] >= s}
<1>1. CASE \A c \in S : len[c] < s
  <2>1. fit = {}
    BY <1>1
  <2> QED BY <1>1, <2>1 DEF Best
<1>2. CASE ~\A c \in S : len[c] < s
  <2>1. fit # {} /\ {len[c] : c \in fit} # {} /\ {len[c] : c \in fit} \in SUBSET Nat
    BY <1>2
  <2>2. PICK v \in {len[c] : c \in fit} : \A u \in {len[c] : c \in fit} : v <= u
    <3> HIDE DEF fit
    <3> QED BY <2>1, LeastNat
  <2>3. \E c \in fit : \A o \in fit : len[c] <= len[o]
    BY <2>2
  <2>4. Best(len, S, s) \in fit /\ \A o \in fit : len[Best(len, S, s)] <= len[o]
    <3>1. Best(len, S, s) = CHOOSE c \in fit : \A o \in fit : len[c] <= len[o]
      BY <2>1 DEF Best
    <3> HIDE DEF fit
    <3> QED BY <2>3, <3>1
  <2> QED BY <1>2, <2>4
<1> QED BY <1>1, <1>2

(* The shortest length of some chunks, and the node of that length.           *)
LEMMA ShortestNode ==
    ASSUME NEW b, NEW len, NEW L, Good(b, len, L), NEW C \in SUBSET L, C # {}
    PROVE  \E m \in L, e \in 0 .. DEPTH :
              /\ InTree(b, len, m, e) /\ \E n \in C : len[m] = len[n]
              /\ \A x \in C : len[m] <= len[x]
<1>1. \A n \in L : len[n] \in Lengths /\ len[n] \in Nat
  BY LengthsNat DEF Good, Parted, Typed
<1>2. PICK V : V = {len[n] : n \in C}
  OBVIOUS
<1>3. V # {} /\ V \in SUBSET Nat
  BY <1>1, <1>2
<1>4. PICK v \in V : \A u \in V : v <= u
  BY <1>3, LeastNat
<1>5. PICK n \in C : v = len[n] /\ \A x \in C : len[n] <= len[x]
  BY <1>2, <1>4
<1>6. Placed(b, len, L, n)
  BY DEF Good
<1>7. PICK e \in 0 .. DEPTH, m \in L : m = PathTo(b, len, len[n])[e] /\ len[m] = len[n]
  BY <1>6 DEF Placed
<1>8. InTree(b, len, m, e)
  BY <1>7 DEF InTree
<1> QED BY <1>5, <1>7, <1>8

-------------------------------------------------------------------------------
(* mm_find_large in its parts: where the right child was passed by, the last  *)
(* of these, and all it looks at in the bin.                                  *)
Passed(b, len, s, at) ==
    {d \in 0 .. DEPTH - 1 : /\ at[d] # NULL /\ len[at[d]] # s
                            /\ Key(s, d) = 0 /\ b.node[at[d]].c[1] # NULL}
LastPassed(b, len, s, at) ==
    IF Passed(b, len, s, at) = {} THEN NULL
    ELSE b.node[at[CHOOSE d \in Passed(b, len, s, at) :
                       \A e \in Passed(b, len, s, at) : e <= d]].c[1]
Seen(b, len, s, at) ==
    ({at[d] : d \in 0 .. DEPTH} \ {NULL}) \cup Spine(b, LastPassed(b, len, s, at))

(* The chunks of the bin of s that are long enough.                           *)
InBin(len, L, i) == {n \in L : Slot(len[n]) = i}
Fitting(len, L, s) == {n \in InBin(len, L, Slot(s)) : len[n] >= s}

LEMMA LastPassedIs ==
    ASSUME NEW b, NEW len, NEW s, NEW at, Passed(b, len, s, at) # {}
    PROVE  \E d \in Passed(b, len, s, at) :
              /\ LastPassed(b, len, s, at) = b.node[at[d]].c[1]
              /\ \A e \in Passed(b, len, s, at) : e <= d
<1>1. PICK P : P = Passed(b, len, s, at)
  OBVIOUS
<1>2. P # {} /\ P \in SUBSET (0 .. DEPTH - 1)
  BY <1>1 DEF Passed
<1>3. IsFiniteSet(P) /\ P \in SUBSET Int
  <2>1. 0 \in Int /\ DEPTH - 1 \in Int
    BY DEF DEPTH
  <2>2. IsFiniteSet(0 .. DEPTH - 1) /\ 0 .. DEPTH - 1 \in SUBSET Int
    BY <2>1, FS_Interval
  <2> QED BY <1>2, <2>2, FS_Subset
<1>4. \E d \in P : \A e \in P : e <= d
  BY <1>2, <1>3, GreatestElement
<1> QED BY <1>1, <1>4 DEF LastPassed

LEMMA SeenInBin ==
    ASSUME NEW b, NEW len, NEW L, Good(b, len, L), NEW s \in Lengths,
           NEW at, at = PathTo(b, len, s)
    PROVE  Seen(b, len, s, at) \in SUBSET InBin(len, L, Slot(s))
<1>1. Parted(b, len, L) /\ Typed(b, len, L) /\ Branched(b, len, L)
  BY DEF Good, Parted
<1>2. ASSUME NEW d \in 0 .. DEPTH, at[d] # NULL PROVE at[d] \in InBin(len, L, Slot(s))
  BY <1>1, <1>2, OnTheWay DEF Met, InBin
<1>3. ASSUME NEW n \in Spine(b, LastPassed(b, len, s, at)) PROVE n \in InBin(len, L, Slot(s))
  <2>1. PICK a : a = LastPassed(b, len, s, at)
    OBVIOUS
  <2>2. a # NULL
    BY <1>3, <2>1 DEF Spine
  <2>3. Passed(b, len, s, at) # {}
    BY <2>1, <2>2 DEF LastPassed
  <2>4. PICK d \in Passed(b, len, s, at) : a = b.node[at[d]].c[1]
    BY <2>1, <2>3, LastPassedIs
  <2>5. d \in 0 .. DEPTH /\ at[d] # NULL
    BY <2>4 DEF Passed, DEPTH
  <2>6. at[d] \in L /\ Slot(len[at[d]]) = Slot(s)
    BY <1>2, <2>5 DEF InBin
  <2>7. a \in L
    <3>1. b.node[at[d]].c \in [0 .. 1 -> L \cup {NULL}]
      BY <1>1, <2>6, NodeLinks
    <3> QED BY <2>2, <2>4, <3>1
  <2>8. Child(b, len, at[d], 1, a)
    BY <1>1, <2>2, <2>4, <2>6 DEF Branched
  <2>9. n \in L /\ Slot(len[n]) = Slot(len[a])
    BY <1>1, <2>1, <2>7, SpineInBin
  <2> QED BY <2>6, <2>8, <2>9 DEF Child, InBin
<1> QED BY <1>2, <1>3 DEF Seen

(* The shortest that fits in the bin of s is among what is looked at there.   *)
LEMMA SeenShortest ==
    ASSUME NEW b, NEW len, NEW L, Good(b, len, L), NEW s \in Lengths,
           NEW at, at = PathTo(b, len, s), Fitting(len, L, s) # {}
    PROVE  \E m \in Seen(b, len, s, at) \cap Fitting(len, L, s) :
              \A x \in Fitting(len, L, s) : len[m] <= len[x]
<1>0. DEPTH \in Nat
  BY DEF DEPTH
<1>1. Parted(b, len, L) /\ Typed(b, len, L) /\ Branched(b, len, L)
  BY DEF Good, Parted
<1>2. \A n \in L : len[n] \in Lengths /\ len[n] \in Nat /\ n # NULL
  BY <1>1, LengthsNat DEF Typed, NULL
<1>3. s \in Nat
  BY LengthsNat
<1>4. PICK m \in L, e \in 0 .. DEPTH :
         /\ InTree(b, len, m, e) /\ \E n \in Fitting(len, L, s) : len[m] = len[n]
         /\ \A x \in Fitting(len, L, s) : len[m] <= len[x]
  <2>1. Fitting(len, L, s) \in SUBSET L
    BY DEF Fitting, InBin
  <2> QED BY <2>1, ShortestNode
<1>5. m \in Fitting(len, L, s) /\ Slot(len[m]) = Slot(s) /\ len[m] >= s
  BY <1>4 DEF Fitting, InBin
<1>6. PICK t \in Lengths : t = len[m] /\ t \in Nat
  BY <1>2
<1>7. PICK bt : bt = PathTo(b, len, t)
  OBVIOUS
<1>8. bt[e] = m
  BY <1>4, <1>6, <1>7 DEF InTree
<1>9. Walk(at, b, len, L, s) /\ Walk(bt, b, len, L, t)
  BY <1>1, <1>7, PathWalks
<1>10. SUFFICES m \in Seen(b, len, s, at)
  BY <1>4, <1>5
<1>11. CASE t = s
  BY <1>2, <1>7, <1>8, <1>11 DEF Seen
<1>12. CASE t # s
  <2>1. s < t
    BY <1>3, <1>5, <1>6, <1>12
  <2>2. ASSUME NEW x \in L, Slot(len[x]) = Slot(s), len[x] >= s PROVE t <= len[x]
    BY <1>4, <1>6, <2>2 DEF Fitting, InBin
  <2>3. PICK h \in 0 .. Levels - 1 : Agree(s, t, h) /\ Key(s, h) = 0 /\ Key(t, h) = 1
    BY <1>5, <1>6, <2>1, FirstDifference
  <2>4. h \in 0 .. DEPTH /\ h \in 0 .. DEPTH - 1 /\ h \in Nat /\ e \in Nat
    BY DEF Levels, DEPTH
  <2>5. ASSUME NEW d \in 0 .. DEPTH, bt[d] # NULL, d <= h PROVE at[d] = bt[d]
    <3>1. Agree(s, t, d)
      BY <2>3, <2>4, <2>5 DEF Agree
    <3>2. ASSUME NEW k \in 0 .. d - 1 PROVE len[bt[k]] # s
      <4>1. bt[k] # NULL /\ k \in 0 .. DEPTH
        BY <1>0, <1>9, <2>5, WalkBefore
      <4>2. bt[k] \in L /\ Slot(len[bt[k]]) = Slot(t)
        BY <1>1, <1>7, <4>1, OnTheWay DEF Met
      <4> QED BY <1>3, <1>5, <1>6, <2>1, <2>2, <4>2
    <3>3. Slot(s) = Slot(t)
      BY <1>5, <1>6
    <3> QED BY <1>1, <1>7, <2>5, <3>1, <3>2, <3>3, SameWay
  <2>6. CASE e <= h
    BY <1>2, <1>8, <2>5, <2>6 DEF Seen
  <2>7. CASE h < e
    <3>1. h \in 0 .. e - 1
      BY <2>4, <2>7
    <3>2. bt[h] # NULL /\ bt[h] \in L /\ len[bt[h]] # t
      BY <1>2, <1>8, <1>9, <3>1, WalkBefore
    <3>3. PICK n \in L : n = bt[h] /\ n = at[h]
      BY <2>4, <2>5, <3>2
    <3>4. Met(b, len, L, t, n, h)
      BY <1>1, <1>7, <2>4, <3>2, <3>3, OnTheWay
    <3>5. bt[h + 1] = b.node[n].c[1]
      <4>1. bt[h + 1] = IF bt[h] = NULL \/ len[bt[h]] = t THEN NULL
                        ELSE b.node[bt[h]].c[Key(t, h)]
        BY <1>9, <2>4 DEF Walk
      <4> QED BY <2>3, <3>2, <3>3, <4>1
    <3>6. bt[h + 1] # NULL
      <4>1. h + 1 # e => h + 1 \in 0 .. e - 1
        BY <2>4, <2>7
      <4> QED BY <1>2, <1>8, <1>9, <4>1, WalkBefore
    <3>7. len[n] # s
      BY <1>3, <1>5, <1>6, <2>1, <2>2, <3>4 DEF Met
    <3>8. h \in Passed(b, len, s, at)
      BY <1>2, <2>3, <2>4, <3>3, <3>5, <3>6, <3>7 DEF Passed
    <3>9. PICK d \in Passed(b, len, s, at) :
             /\ LastPassed(b, len, s, at) = b.node[at[d]].c[1]
             /\ \A k \in Passed(b, len, s, at) : k <= d
      BY <3>8, LastPassedIs
    <3>10. /\ d \in 0 .. DEPTH - 1 /\ d \in 0 .. DEPTH /\ d \in Nat /\ h <= d
           /\ at[d] # NULL /\ Key(s, d) = 0 /\ b.node[at[d]].c[1] # NULL
      BY <1>0, <3>8, <3>9 DEF Passed
    <3>11. d = h
      <4>1. SUFFICES ASSUME h < d PROVE FALSE
        BY <2>4, <3>10
      <4>2. PICK k, x : k = at[d] /\ x = b.node[k].c[1]
        OBVIOUS
      <4>3. Met(b, len, L, s, k, d)
        BY <1>1, <3>10, <4>2, OnTheWay
      <4>4. k \in L /\ Slot(len[k]) = Slot(s) /\ Agree(len[k], s, d) /\ InTree(b, len, k, d)
        BY <4>3 DEF Met
      <4>5. x \in L
        <5>1. b.node[k].c \in [0 .. 1 -> L \cup {NULL}]
          BY <1>1, <4>4, NodeLinks
        <5> QED BY <3>10, <4>2, <5>1
      <4>6. Child(b, len, k, 1, x)
        BY <1>1, <3>10, <4>2, <4>4 DEF Branched
      <4>7. PICK i \in 0 .. DEPTH - 1 :
               InTree(b, len, k, i) /\ Key(len[x], i) = 1 /\ Agree(len[x], len[k], i)
        BY <4>6 DEF Child
      <4>8. i = d
        <5>1. i \in 0 .. DEPTH
          BY <1>0
        <5> QED BY <1>1, <3>10, <4>4, <4>7, <5>1, OneDepth
      <4>9. Slot(len[x]) = Slot(s) /\ Agree(s, len[x], d) /\ Key(len[x], d) = 1
        BY <4>4, <4>6, <4>7, <4>8 DEF Agree, Child
      <4>10. s < len[x]
        BY <1>2, <3>10, <4>5, <4>9, KeyOrder
      <4>11. len[x] < t
        <5>1. Key(len[x], h) = 0 /\ Agree(len[x], t, h)
          BY <2>3, <2>4, <3>10, <4>1, <4>9 DEF Agree
        <5>2. Slot(len[x]) = Slot(t) /\ len[x] \in Lengths
          BY <1>2, <1>5, <1>6, <4>5, <4>9
        <5> QED BY <2>3, <2>4, <5>1, <5>2, KeyOrder
      <4> QED BY <1>2, <1>3, <1>6, <2>2, <4>5, <4>9, <4>10, <4>11
    <3>12. PICK root \in L : root = bt[h + 1] /\ root = LastPassed(b, len, s, at)
      <4>1. b.node[n].c \in [0 .. 1 -> L \cup {NULL}]
        BY <1>1, NodeLinks
      <4>2. b.node[n].c[1] \in L
        BY <3>5, <3>6, <4>1
      <4> QED BY <3>3, <3>5, <3>9, <3>11, <4>2
    <3>13. PICK k \in 0 .. e : k = h + 1
      BY <2>4, <2>7
    <3>14. ASSUME NEW x \in L, Slot(len[x]) = Slot(len[m]), Agree(len[x], len[m], k)
           PROVE  len[m] <= len[x]
      <4>1. Key(len[x], h) = 1 /\ Agree(s, len[x], h)
        BY <1>6, <2>3, <2>4, <3>13, <3>14 DEF Agree
      <4>2. s < len[x]
        BY <1>2, <1>5, <2>3, <2>4, <3>14, <4>1, KeyOrder
      <4> QED BY <1>2, <1>3, <1>5, <1>6, <2>2, <3>14, <4>2
    <3>15. m \in Spine(b, root)
      BY <1>1, <1>6, <1>7, <1>8, <3>12, <3>13, <3>14, SpineShortest
    <3> QED BY <3>12, <3>15 DEF Seen
  <2> QED BY <2>4, <2>6, <2>7
<1> QED BY <1>11, <1>12

(* The spine of a bin's root is in the bin and comes by its shortest.         *)
LEMMA RootSpine ==
    ASSUME NEW b, NEW len, NEW L, Good(b, len, L), NEW i \in 0 .. LB_COUNT - 1
    PROVE  /\ Spine(b, b.lb[i]) \in SUBSET InBin(len, L, i)
           /\ InBin(len, L, i) # {} =>
                 \E m \in Spine(b, b.lb[i]) : \A x \in InBin(len, L, i) : len[m] <= len[x]
<1>1. Parted(b, len, L) /\ Typed(b, len, L) /\ Rooted(b, len)
  BY DEF Good, Parted
<1>2. b.lb[i] # NULL => b.lb[i] \in L /\ Slot(len[b.lb[i]]) = i
  BY <1>1 DEF Typed, Tries, Rooted
<1>3. ASSUME NEW n \in Spine(b, b.lb[i]) PROVE n \in InBin(len, L, i)
  <2>1. b.lb[i] # NULL
    BY <1>3 DEF Spine
  <2> QED BY <1>1, <1>2, <2>1, SpineInBin DEF InBin
<1>4. ASSUME InBin(len, L, i) # {}
      PROVE  \E m \in Spine(b, b.lb[i]) : \A x \in InBin(len, L, i) : len[m] <= len[x]
  <2>1. PICK m \in L, e \in 0 .. DEPTH :
           /\ InTree(b, len, m, e) /\ \E n \in InBin(len, L, i) : len[m] = len[n]
           /\ \A x \in InBin(len, L, i) : len[m] <= len[x]
    <3>1. InBin(len, L, i) \in SUBSET L
      BY DEF InBin
    <3> QED BY <1>4, <3>1, ShortestNode
  <2>2. Slot(len[m]) = i /\ len[m] \in Lengths /\ m # NULL
    BY <1>1, <2>1 DEF InBin, Typed, NULL
  <2>3. PICK bt : bt = PathTo(b, len, len[m])
    OBVIOUS
  <2>4. bt[e] = m
    BY <2>1, <2>3 DEF InTree
  <2>5. Walk(bt, b, len, L, len[m])
    BY <1>1, <2>2, <2>3, PathWalks
  <2>6. bt[0] = b.lb[i]
    BY <2>2, <2>5 DEF Walk
  <2>7. bt[0] # NULL
    <3>1. e # 0 => 0 \in 0 .. e - 1
      BY DEF DEPTH
    <3> QED BY <2>2, <2>4, <2>5, <3>1, WalkBefore
  <2>8. PICK root \in L : root = bt[0] /\ root = b.lb[i]
    BY <1>2, <2>6, <2>7
  <2>9. ASSUME NEW x \in L, Slot(len[x]) = Slot(len[m]), Agree(len[x], len[m], 0)
        PROVE  len[m] <= len[x]
    BY <2>1, <2>2, <2>9 DEF InBin
  <2>10. 0 \in 0 .. e
    BY DEF DEPTH
  <2>11. m \in Spine(b, root)
    BY <1>1, <2>3, <2>4, <2>8, <2>9, <2>10, SpineShortest
  <2> QED BY <2>1, <2>8, <2>11
<1> QED BY <1>3, <1>4

(* All that is looked at in the bins above that of s.                         *)
SeenAbove(b, s) == UNION {Spine(b, b.lb[j]) : j \in Slot(s) + 1 .. LB_COUNT - 1}

(* What is in a bin above is longer, what is in a bin below is shorter.       *)
LEMMA AboveBelow ==
    ASSUME NEW s \in Lengths, NEW t \in Lengths
    PROVE  /\ s \in Nat /\ t \in Nat /\ Slot(s) \in Nat /\ Slot(t) \in 0 .. LB_COUNT - 1
           /\ Slot(t) > Slot(s) => t > s
           /\ Slot(t) < Slot(s) => t < s
<1>1. Slot(s) \in 0 .. LB_COUNT - 1 /\ Slot(t) \in 0 .. LB_COUNT - 1
  BY HighBitIs, SlotIs
<1>2. s \in Nat /\ t \in Nat
  BY LengthsNat
<1>3. Slot(s) < Slot(t) => s < t
  BY SlotOrder
<1>4. Slot(t) < Slot(s) => t < s
  BY SlotOrder
<1> QED BY <1>1, <1>2, <1>3, <1>4 DEF LB_COUNT

LEMMA AboveShortest ==
    ASSUME NEW b, NEW len, NEW L, Good(b, len, L), NEW s \in Lengths,
           Fitting(len, L, s) = {}
    PROVE  /\ SeenAbove(b, s) \in SUBSET {n \in L : len[n] >= s}
           /\ \A n \in L : len[n] >= s => \E m \in SeenAbove(b, s) : len[m] <= len[n]
<1>1. \A n \in L : len[n] \in Lengths
  BY DEF Good, Parted, Typed
<1>2. Slot(s) \in Nat /\ LB_COUNT \in Nat
  BY AboveBelow DEF LB_COUNT
<1>3. ASSUME NEW n \in SeenAbove(b, s) PROVE n \in L /\ len[n] >= s
  <2>1. PICK j \in Slot(s) + 1 .. LB_COUNT - 1 : n \in Spine(b, b.lb[j])
    BY <1>3 DEF SeenAbove
  <2>2. j \in 0 .. LB_COUNT - 1 /\ j > Slot(s)
    BY <1>2
  <2>3. n \in L /\ Slot(len[n]) = j
    BY <2>1, <2>2, RootSpine DEF InBin
  <2>4. len[n] > s /\ len[n] \in Nat /\ s \in Nat
    BY <1>1, <2>2, <2>3, AboveBelow
  <2> QED BY <2>3, <2>4
<1>4. ASSUME NEW n \in L, len[n] >= s PROVE \E m \in SeenAbove(b, s) : len[m] <= len[n]
  <2>1. PICK j \in 0 .. LB_COUNT - 1 : j = Slot(len[n])
    BY <1>1, AboveBelow
  <2>2. j # Slot(s)
    BY <1>4, <2>1 DEF Fitting, InBin
  <2>3. ~(j < Slot(s))
    BY <1>1, <1>4, <2>1, AboveBelow
  <2>4. j \in Slot(s) + 1 .. LB_COUNT - 1
    BY <1>2, <2>1, <2>2, <2>3
  <2>5. n \in InBin(len, L, j)
    BY <2>1 DEF InBin
  <2>6. PICK m \in Spine(b, b.lb[j]) : len[m] <= len[n]
    BY <2>5, RootSpine
  <2> QED BY <2>4, <2>6 DEF SeenAbove
<1> QED BY <1>3, <1>4

LEMMA FindIs ==
    ASSUME NEW b, NEW len, NEW L, Good(b, len, L), NEW s \in Lengths,
           NEW c, c = mm_find_large(b, len, s)
    PROVE  IF c = NULL THEN \A n \in L : len[n] < s
           ELSE c \in L /\ len[c] >= s /\ \A n \in L : len[n] >= s => len[c] <= len[n]
<1>1. PICK i \in 0 .. LB_COUNT - 1 : i = Slot(s)
  BY HighBitIs, SlotIs
<1>2. PICK at : at = PathTo(b, len, s)
  OBVIOUS
<1>3. PICK S : S = Seen(b, len, s, at)
  OBVIOUS
<1>4. PICK A : A = SeenAbove(b, s)
  OBVIOUS
<1>5. c = IF b.lb[i] # NULL /\ Best(len, S, s) # NULL THEN Best(len, S, s) ELSE Best(len, A, s)
  <2> DEFINE I == mm_slot_large(s)
             W == Path(b, len, b.lb[I], s)
  <2>1. c = IF b.lb[I] # NULL /\ Best(len, Seen(b, len, s, W), s) # NULL
            THEN Best(len, Seen(b, len, s, W), s) ELSE Best(len, SeenAbove(b, s), s)
    BY ONLY c = mm_find_large(b, len, s)
       DEF mm_find_large, Seen, SeenAbove, LastPassed, Passed, Key, Slot
  <2>2. I = i
    BY <1>1 DEF Slot
  <2> HIDE DEF I
  <2>3. W = at
    BY <1>1, <1>2, <2>2 DEF PathTo
  <2> HIDE DEF W
  <2> QED BY ONLY <1>3, <1>4, <2>1, <2>2, <2>3
<1>6. \A n \in L : len[n] \in Lengths /\ len[n] \in Nat /\ n # NULL
  BY LengthsNat DEF Good, Parted, Typed, NULL
<1>7. s \in Nat
  BY LengthsNat
<1>8. S \in SUBSET InBin(len, L, i) /\ S \in SUBSET L
  BY <1>1, <1>2, <1>3, SeenInBin DEF InBin
<1>9. NULL \notin S /\ \A n \in S : len[n] \in Nat
  BY <1>6, <1>8
<1>10. CASE Fitting(len, L, s) # {}
  <2>1. PICK m \in S \cap Fitting(len, L, s) : \A x \in Fitting(len, L, s) : len[m] <= len[x]
    BY <1>2, <1>3, <1>10, SeenShortest
  <2>2. m \in S /\ m \in L /\ len[m] >= s
    BY <1>8, <2>1 DEF Fitting
  <2>3. PICK n : n = Best(len, S, s)
    OBVIOUS
  <2>4. n \in S /\ len[n] >= s /\ \A o \in S : len[o] >= s => len[n] <= len[o]
    <3>1. ~(len[m] < s)
      BY <1>6, <1>7, <2>2
    <3> QED BY <1>7, <1>9, <2>2, <2>3, <3>1, BestIs
  <2>5. n \in L /\ n # NULL /\ Slot(len[n]) = i
    BY <1>6, <1>8, <2>4 DEF InBin
  <2>6. b.lb[i] # NULL
    <3>1. Typed(b, len, L) /\ Placed(b, len, L, n)
      BY <2>5 DEF Good, Parted
    <3>2. PICK d \in 0 .. DEPTH, r \in L : r = PathTo(b, len, len[n])[d]
      BY <3>1 DEF Placed
    <3>3. PICK bt : bt = PathTo(b, len, len[n])
      OBVIOUS
    <3>4. Walk(bt, b, len, L, len[n])
      BY <1>6, <2>5, <3>1, <3>3, PathWalks
    <3>5. d # 0 => 0 \in 0 .. d - 1
      BY DEF DEPTH
    <3>6. bt[0] # NULL
      BY <1>6, <3>2, <3>3, <3>4, <3>5, WalkBefore
    <3> QED BY <2>5, <3>4, <3>6 DEF Walk
  <2>7. c = n
    BY <1>5, <2>3, <2>5, <2>6
  <2>8. ASSUME NEW x \in L, len[x] >= s PROVE len[n] <= len[x]
    <3>1. CASE Slot(len[x]) = i
      <4>1. x \in Fitting(len, L, s)
        BY <1>1, <2>8, <3>1 DEF Fitting, InBin
      <4> QED BY <1>6, <2>1, <2>2, <2>4, <2>5, <2>8, <4>1
    <3>2. CASE Slot(len[x]) > i
      BY <1>6, <2>5, <2>8, <3>2, AboveBelow
    <3>3. CASE Slot(len[x]) < i
      BY <1>1, <1>6, <2>8, <3>3, AboveBelow
    <3>4. Slot(len[x]) \in 0 .. LB_COUNT - 1
      BY <1>6, <2>8, AboveBelow
    <3> QED BY <3>1, <3>2, <3>3, <3>4 DEF LB_COUNT
  <2> QED BY <2>4, <2>5, <2>7, <2>8
<1>11. CASE Fitting(len, L, s) = {}
  <2>1. \A n \in S : len[n] < s
    BY <1>1, <1>6, <1>7, <1>8, <1>11 DEF Fitting
  <2>2. Best(len, S, s) = NULL
    BY <1>7, <1>9, <2>1, BestIs
  <2>3. c = Best(len, A, s)
    BY <1>5, <2>2
  <2>4. A \in SUBSET {n \in L : len[n] >= s}
        /\ \A n \in L : len[n] >= s => \E m \in A : len[m] <= len[n]
    BY <1>4, <1>11, AboveShortest
  <2>5. NULL \notin A /\ \A n \in A : len[n] \in Nat
    BY <1>6, <2>4
  <2>6. CASE A = {}
    <3>1. c = NULL
      BY <1>7, <2>3, <2>5, <2>6, BestIs
    <3> QED BY <1>6, <1>7, <2>4, <2>6, <3>1
  <2>7. CASE A # {}
    <3>1. ~\A n \in A : len[n] < s
      BY <1>6, <1>7, <2>4, <2>7
    <3>2. c \in A /\ len[c] >= s /\ \A o \in A : len[o] >= s => len[c] <= len[o]
      BY <1>7, <2>3, <2>5, <3>1, BestIs
    <3>3. c \in L /\ c # NULL
      BY <2>4, <2>5, <3>2
    <3>4. ASSUME NEW n \in L, len[n] >= s PROVE len[c] <= len[n]
      <4>1. PICK m \in A : len[m] <= len[n]
        BY <2>4, <3>4
      <4>2. m \in L /\ len[m] >= s
        BY <2>4
      <4> QED BY <1>6, <3>2, <3>3, <3>4, <4>1, <4>2
    <3> QED BY <3>2, <3>3, <3>4
  <2> QED BY <2>6, <2>7
<1> QED BY <1>10, <1>11

LEMMA FindsBestFitHolds == IInv => FindsBestFit
<1> SUFFICES ASSUME IInv, NEW s \in Searches, NEW c, c = mm_find_large(bins, size, s)
             PROVE  IF c = NULL THEN \A n \in Linked : size[n] < s
                    ELSE /\ size[c] >= s
                         /\ \A n \in Linked : size[n] >= s => size[c] <= size[n]
  BY DEF FindsBestFit
<1>1. s \in Lengths
  BY SizeAssumption DEF Lengths
<1>2. Good(bins, size, Linked)
  BY DEF IInv
<1> QED BY <1>1, <1>2, FindIs

(* The comment "find best fitting large chunk" (mm.c:740), for tries of every *)
(* size and every length looked for: what mm_find_large returns is long       *)
(* enough and no chunk in the bins that is long enough is shorter, and it     *)
(* returns none only when none is long enough.                                *)
THEOREM BestFit == Spec => []FindsBestFit
<1>1. IInv => FindsBestFit
  BY FindsBestFitHolds
<1> QED BY <1>1, Invariance, PTL
===============================================================================
