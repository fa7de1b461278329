---------------------------- MODULE HeapTags_proofs ----------------------------
(* The loader's boundary tags, for every arena and every set of requests: the *)
(* chunks always tile the arena, flags and sizes agree with the neighbours    *)
(* they describe, and the heap keeps its promise to its callers.              *)
EXTENDS HeapTags, TLAPS

(* The inductive invariant: each part needs the others.  The tiling is kept   *)
(* by a merge only because psz and pbusy are true, and only one neighbour on  *)
(* either side has to be merged because no two are free before the call.      *)
IInv == TypeOK /\ Tiling /\ TagsAgree /\ NoFreeNeighbours

(* What a size and flags are worth on their own.                              *)
LEMMA Fields ==
    ASSUME IInv, NEW p \in Chunks
    PROVE  /\ p \in Int /\ First <= p /\ p <= Last
           /\ tag[p].size \in Int /\ 0 <= tag[p].size
           /\ tag[p].size <= ArenaEnd
           /\ tag[p].cbusy \in BOOLEAN /\ tag[p].pbusy \in BOOLEAN
           /\ tag[p].psz \in Int
           /\ tag[p] \in Tags
BY ArenaAssumption DEF IInv, TypeOK, Tags, First, Last, WORD, Payload, Chunks

(* The end of the arena is where it should be.                                *)
LEMMA Ends ==
    /\ First \in Int /\ Last \in Int /\ First + MIN_CHUNK + WORD <= Last
    /\ 0 < First /\ Last <= ArenaEnd /\ ArenaEnd \in Int
    /\ ArenaEnd - ArenaStart - 2 * WORD = Last - First - WORD
    /\ ArenaEnd - ArenaStart - 2 * WORD \in Int
    /\ ArenaEnd - ArenaStart - 2 * WORD >= MIN_CHUNK
BY ArenaAssumption DEF First, Last, WORD, MIN_CHUNK

(* A request is never served with less than it asks for, or than a chunk      *)
(* needs for its links.                                                       *)
LEMMA RoundedUp ==
    ASSUME NEW size \in Nat
    PROVE  Rounded(size) \in Nat /\ Rounded(size) >= size /\ Rounded(size) >= MIN_CHUNK
<1> DEFINE least == IF size < MIN_CHUNK THEN MIN_CHUNK ELSE size
<1>1. least \in Nat /\ least >= size /\ least >= MIN_CHUNK
    BY DEF MIN_CHUNK, WORD
<1>2. \A s \in Nat : s % 8 \in 0 .. 7
    BY SMT
<1>3. \A s \in Nat : mm_align8(s) \in Int /\ mm_align8(s) >= s
    BY <1>2 DEF mm_align8
<1> QED
    BY <1>1, <1>3 DEF Rounded, MIN_CHUNK, WORD

(* A chunk before the sentinel: where it ends, and who is there.              *)
LEMMA Neighbour ==
    ASSUME IInv, NEW p \in Chunks, p # Last
    PROVE  /\ mm_next(p) \in Chunks
           /\ mm_next(p) \in Int
           /\ mm_next(p) = p + tag[p].size + 4
           /\ tag[p].size >= 16
           /\ p < mm_next(p)
           /\ tag[mm_next(p)].pbusy = tag[p].cbusy
           /\ ~tag[p].cbusy => tag[mm_next(p)].psz = tag[p].size
           /\ ~tag[p].cbusy => tag[mm_next(p)].cbusy
<1>1. tag[p].size >= MIN_CHUNK /\ mm_next(p) \in Chunks
    BY DEF IInv, Tiling
<1>2. /\ tag[mm_next(p)].pbusy = tag[p].cbusy
      /\ ~tag[p].cbusy => tag[mm_next(p)].psz = tag[p].size
    BY DEF IInv, TagsAgree
<1>3. ~tag[p].cbusy => tag[mm_next(p)].cbusy
    BY DEF IInv, NoFreeNeighbours
<1> QED
    BY <1>1, <1>2, <1>3, Fields DEF mm_next, MIN_CHUNK, WORD

(* Chunks do not overlap.                                                     *)
LEMMA Apart ==
    ASSUME IInv, NEW p \in Chunks, NEW q \in Chunks, p < q
    PROVE  p + tag[p].size + 4 <= q
BY DEF IInv, Tiling, mm_next, WORD

(* A free chunk is not the sentinel.                                          *)
LEMMA FreeIsNotLast ==
    ASSUME IInv, NEW p \in Chunks, ~tag[p].cbusy
    PROVE  p # Last
BY DEF IInv, TagsAgree

-------------------------------------------------------------------------------
LEMMA InitIInv == Init => IInv
<1> SUFFICES ASSUME Init PROVE IInv
    OBVIOUS
<1> DEFINE s == ArenaEnd - ArenaStart - 2 * WORD
<1>1. /\ Chunks = {First, Last}
      /\ First # Last
      /\ tag[First] = Header(s, FALSE, TRUE, Payload)
      /\ tag[Last] = Header(0, TRUE, FALSE, s)
    <2>1. tag = [p \in {First, Last} |->
                    IF p = First THEN Header(s, FALSE, TRUE, Payload)
                                 ELSE Header(0, TRUE, FALSE, s)]
        BY DEF Init, mm_init
    <2>2. First # Last
        BY Ends DEF MIN_CHUNK, WORD
    <2> QED
        BY <2>1, <2>2 DEF Chunks
<1>2. /\ tag[First].size = s /\ tag[First].cbusy = FALSE /\ tag[First].pbusy = TRUE
      /\ tag[Last].size = 0 /\ tag[Last].cbusy = TRUE /\ tag[Last].pbusy = FALSE
      /\ tag[Last].psz = s
    BY <1>1 DEF Header
<1>3. mm_next(First) = Last
    BY <1>2, Ends DEF mm_next, WORD
<1>4. TypeOK
    <2>1. s \in 0 .. ArenaEnd
        BY ArenaAssumption DEF WORD, MIN_CHUNK
    <2>2. tag[First] \in Tags /\ tag[Last] \in Tags
        BY <1>1, <2>1, ArenaAssumption DEF Header, Tags
    <2>3. tag \in [Chunks -> Tags]
        BY <1>1, <2>2 DEF Init, mm_init, Chunks
    <2>4. Chunks \subseteq First .. Last
        BY <1>1, Ends DEF MIN_CHUNK, WORD
    <2> QED
        BY <2>3, <2>4 DEF TypeOK
<1>5. Tiling
    <2>1. \A p, q \in Chunks : p < q => p = First /\ q = Last
        BY <1>1, Ends DEF MIN_CHUNK, WORD
    <2>2. \A p, q \in Chunks : p < q => mm_next(p) <= q
        BY <2>1, <1>3, Ends
    <2> QED
        BY <1>1, <1>2, <1>3, <2>2, Ends DEF Tiling
<1>6. TagsAgree
    BY <1>1, <1>2, <1>3 DEF TagsAgree
<1>7. NoFreeNeighbours
    BY <1>1, <1>2, <1>3 DEF NoFreeNeighbours
<1> QED
    BY <1>4, <1>5, <1>6, <1>7 DEF IInv

-------------------------------------------------------------------------------
(* Taking the front of a chunk: what every header is afterwards.              *)
LEMMA SplitFacts ==
    ASSUME IInv, NEW p \in Chunks, ~tag[p].cbusy,
           NEW sreq \in Nat, sreq >= MIN_CHUNK, sreq <= tag[p].size,
           Splits(p, sreq), tag' = SplitTags(p, sreq),
           NEW n, n = p + sreq + WORD, NEW e, e = mm_next(p)
    PROVE  /\ p # Last /\ e \in Chunks /\ n \notin Chunks /\ p < n /\ n < e
           /\ n \in Int /\ p \in Int /\ e \in Int
           /\ Chunks' = Chunks \cup {n}
           /\ tag'[p] = Header(sreq, TRUE, tag[p].pbusy, tag[p].psz)
           /\ tag'[n] = Header(tag[p].size - sreq - WORD, FALSE, TRUE, Payload)
           /\ tag'[e] = [tag[e] EXCEPT !.psz = tag[p].size - sreq - WORD]
           /\ \A q \in Chunks : q # p /\ q # e => tag'[q] = tag[q]
           /\ tag' \in [Chunks' -> Tags]
<1> DEFINE rest == tag[p].size - sreq - WORD
<1>1. /\ p # Last /\ e \in Chunks
      /\ e = p + tag[p].size + 4 /\ p \in Int /\ tag[p].size \in Int
    BY FreeIsNotLast, Neighbour, Fields
<1>2. p < n /\ n < e /\ n \in Int /\ rest >= 16 /\ rest \in Int /\ n + rest + 4 = e
    BY <1>1 DEF Splits, WORD, MIN_CHUNK
<1>3. n \notin Chunks
    BY <1>1, <1>2, Apart
<1>4. tag' = [q \in Chunks \cup {n} |->
               CASE q = p -> Header(sreq, TRUE, tag[p].pbusy, tag[p].psz)
                 [] q = n -> Header(rest, FALSE, TRUE, Payload)
                 [] q = e -> [tag[e] EXCEPT !.psz = rest]
                 [] OTHER -> tag[q]]
    BY DEF SplitTags
<1>5. Chunks' = Chunks \cup {n}
    BY <1>4 DEF Chunks
<1>a. p # n /\ p # e /\ n # e
    BY <1>1, <1>2
<1> HIDE DEF rest
<1>6. tag'[p] = Header(sreq, TRUE, tag[p].pbusy, tag[p].psz)
    BY <1>4, <1>a
<1>7. tag'[n] = Header(rest, FALSE, TRUE, Payload)
    BY <1>4, <1>a
<1> USE DEF rest
<1>8. tag'[e] = [tag[e] EXCEPT !.psz = rest]
    BY <1>4, <1>1, <1>2
<1>9. \A q \in Chunks : q # p /\ q # e => tag'[q] = tag[q]
    BY <1>4, <1>3
<1>10. \A q \in Chunks' : tag'[q] \in Tags
    <2>1. sreq \in 0 .. ArenaEnd /\ rest \in 0 .. ArenaEnd
        BY <1>1, <1>2, Fields, ArenaAssumption DEF WORD
    <2>2. tag'[p] \in Tags
        BY <1>6, <2>1, Fields DEF Header, Tags
    <2>3. tag'[n] \in Tags
        BY <1>7, <2>1 DEF Header, Tags
    <2>4. tag'[e] \in Tags
        BY <1>8, <1>1, <2>1, Fields DEF Tags
    <2> QED
        BY <1>5, <1>9, <2>2, <2>3, <2>4, Fields
<1>11. tag' \in [Chunks' -> Tags]
    BY <1>4, <1>5, <1>10
<1> QED
    BY <1>1, <1>2, <1>3, <1>5, <1>6, <1>7, <1>8, <1>9, <1>11

LEMMA SplitIInv ==
    ASSUME IInv, NEW p \in Chunks, ~tag[p].cbusy,
           NEW sreq \in Nat, sreq >= MIN_CHUNK, sreq <= tag[p].size,
           Splits(p, sreq), tag' = SplitTags(p, sreq)
    PROVE  IInv'
<1> DEFINE n == p + sreq + WORD
           e == mm_next(p)
           rest == tag[p].size - sreq - WORD
<1>1. /\ p # Last /\ e \in Chunks /\ n \notin Chunks /\ p < n /\ n < e
      /\ n \in Int /\ p \in Int /\ e \in Int
      /\ Chunks' = Chunks \cup {n}
      /\ tag'[p] = Header(sreq, TRUE, tag[p].pbusy, tag[p].psz)
      /\ tag'[n] = Header(rest, FALSE, TRUE, Payload)
      /\ tag'[e] = [tag[e] EXCEPT !.psz = rest]
      /\ \A q \in Chunks : q # p /\ q # e => tag'[q] = tag[q]
      /\ tag' \in [Chunks' -> Tags]
    BY SplitFacts
<1>2. /\ e = p + tag[p].size + 4 /\ tag[p].size \in Int
      /\ ~tag[p].cbusy => tag[e].cbusy
      /\ n + rest + 4 = e /\ rest \in Int
      /\ rest >= 16
    BY <1>1, Neighbour, Fields DEF WORD, Splits, MIN_CHUNK
<1>3. /\ tag'[p].size = sreq /\ tag'[p].cbusy = TRUE /\ tag'[p].pbusy = tag[p].pbusy
      /\ tag'[p].psz = tag[p].psz
      /\ tag'[n].size = rest /\ tag'[n].cbusy = FALSE /\ tag'[n].pbusy = TRUE
    BY <1>1 DEF Header
<1>4. /\ tag'[e].size = tag[e].size /\ tag'[e].cbusy = tag[e].cbusy
      /\ tag'[e].pbusy = tag[e].pbusy /\ tag'[e].psz = rest
    BY <1>1, Fields DEF Tags
<1>5. /\ mm_next(p)' = n /\ mm_next(n)' = e
      /\ \A q \in Chunks : q # p => mm_next(q)' = mm_next(q)
    BY <1>1, <1>2, <1>3, <1>4 DEF mm_next, WORD
<1>6. First' = First /\ Last' = Last /\ First \in Chunks /\ Last \in Chunks
    BY DEF First, Last, IInv, Tiling
<1>7. TypeOK'
    <2>1. First <= p /\ e <= Last
        BY <1>1, Fields
    <2>2. n \in First .. Last
        BY <2>1, <1>1, Ends
    <2> QED
        BY <2>2, <1>1, <1>6 DEF IInv, TypeOK
<1>8. \A q \in Chunks \ {Last} : q # p => mm_next(q) # e
    <2> TAKE q \in Chunks \ {Last}
    <2> HAVE q # p
    <2>1. q < p => mm_next(q) <= p
        BY Apart, Neighbour
    <2>2. q > p => e <= q /\ q < mm_next(q)
        BY <1>1, <1>2, Apart, Neighbour, Fields
    <2> QED
        BY <2>1, <2>2, <1>1, Fields, Neighbour
<1>9. Tiling'
    <2>1. tag'[Last].size = 0
        BY <1>1, <1>4, <1>6 DEF IInv, Tiling
    <2>2. ASSUME NEW q \in Chunks' \ {Last}
          PROVE  tag'[q].size >= MIN_CHUNK /\ mm_next(q)' \in Chunks'
        <3>1. CASE q = p
            BY <3>1, <1>1, <1>3, <1>5
        <3>2. CASE q = n
            <4>1. mm_next(q)' = e
                BY <3>2, <1>5
            <4>2. tag'[q].size = rest
                BY <3>2, <1>3
            <4>3. e \in Chunks'
                BY <1>1
            <4>4. rest >= MIN_CHUNK
                BY <1>2 DEF MIN_CHUNK, WORD
            <4> HIDE DEF rest, e
            <4> QED
                BY <4>1, <4>2, <4>3, <4>4
        <3>3. CASE q # p /\ q # n
            <4>1. q \in Chunks /\ q # Last /\ mm_next(q)' = mm_next(q)
                BY <3>3, <1>1, <1>5
            <4>2. tag'[q].size = tag[q].size
                BY <3>3, <4>1, <1>1, <1>4
            <4> QED
                BY <4>1, <4>2, <1>1 DEF IInv, Tiling
        <3> QED
            BY <3>1, <3>2, <3>3
    <2>3. ASSUME NEW q \in Chunks', NEW r \in Chunks', q < r
          PROVE  mm_next(q)' <= r
        <3>1. CASE q = p
            <4>1. CASE r = n
                BY <3>1, <4>1, <1>5, <1>1
            <4>2. CASE r # n
                BY <3>1, <4>2, <2>3, <1>1, <1>2, <1>5, Apart, Fields
            <4> QED
                BY <4>1, <4>2
        <3>2. CASE q = n
            BY <3>2, <2>3, <1>1, <1>2, <1>5, Apart, Fields
        <3>3. CASE q # p /\ q # n
            <4>1. CASE r = n
                <5>1. q < p
                    BY <3>3, <4>1, <2>3, <1>1, <1>2, Apart, Fields
                <5> QED
                    BY <5>1, <3>3, <4>1, <1>1, <1>5, Apart, Fields DEF mm_next, WORD
            <4>2. CASE r # n
                BY <3>3, <4>2, <2>3, <1>1, <1>5, Apart DEF mm_next, WORD
            <4> QED
                BY <4>1, <4>2
        <3> QED
            BY <3>1, <3>2, <3>3
    <2>4. ASSUME NEW r \in Chunks' \ {First}
          PROVE  \E q \in Chunks' \ {Last} : mm_next(q)' = r
        <3>1. CASE r = n
            BY <3>1, <1>1, <1>5
        <3>2. CASE r = e
            <4>1. n # Last
                BY <1>1, <1>6
            <4> QED
                BY <3>2, <4>1, <1>1, <1>5
        <3>3. CASE r # n /\ r # e
            <4>1. PICK q \in Chunks \ {Last} : mm_next(q) = r
                BY <3>3, <1>1 DEF IInv, Tiling
            <4> QED
                BY <4>1, <3>3, <1>1, <1>5
        <3> QED
            BY <3>1, <3>2, <3>3
    <2> QED
        BY <2>1, <2>2, <2>3, <2>4, <1>1, <1>6 DEF Tiling
<1>10. ASSUME NEW q \in Chunks' \ {Last}
       PROVE  /\ tag'[mm_next(q)'].pbusy = tag'[q].cbusy
              /\ ~tag'[q].cbusy => /\ tag'[mm_next(q)'].psz = tag'[q].size
                                   /\ tag'[mm_next(q)'].cbusy
    <2>1. CASE q = p
        BY <2>1, <1>3, <1>5
    <2>2. CASE q = n
        <3>1. tag[e].pbusy = FALSE
            BY <1>1, Neighbour, Fields
        <3> QED
            BY <2>2, <3>1, <1>2, <1>3, <1>4, <1>5
    <2>3. CASE q # p /\ q # n
        <3>1. q \in Chunks /\ q # Last /\ mm_next(q) # e /\ mm_next(q) \in Chunks
            BY <2>3, <1>1, <1>8, Neighbour
        <3>2. /\ tag[mm_next(q)].pbusy = tag[q].cbusy
              /\ ~tag[q].cbusy => tag[mm_next(q)].psz = tag[q].size
              /\ ~tag[q].cbusy => tag[mm_next(q)].cbusy
            BY <3>1, Neighbour
        <3>3. /\ tag'[q].cbusy = tag[q].cbusy /\ tag'[q].size = tag[q].size
              /\ mm_next(q)' = mm_next(q)
            BY <2>3, <3>1, <1>1, <1>4, <1>5
        <3>4. CASE mm_next(q) = p
            <4>1. tag[q].cbusy
                BY <3>2, <3>4
            <4> QED
                BY <4>1, <3>2, <3>3, <3>4, <1>3
        <3>5. CASE mm_next(q) # p
            BY <3>1, <3>2, <3>3, <3>5, <1>1
        <3> QED
            BY <3>4, <3>5
    <2> QED
        BY <2>1, <2>2, <2>3
<1>11. TagsAgree'
    <2>1. tag'[First].pbusy /\ tag'[Last].cbusy
        BY <1>1, <1>3, <1>4, <1>6 DEF IInv, TagsAgree
    <2> QED
        BY <2>1, <1>10, <1>6 DEF TagsAgree
<1>12. NoFreeNeighbours'
    BY <1>10, <1>6 DEF NoFreeNeighbours
<1> QED
    BY <1>7, <1>9, <1>11, <1>12 DEF IInv

(* Taking a chunk whole: only its flag and what the next says of it change.   *)
LEMMA TakeFacts ==
    ASSUME IInv, NEW p \in Chunks, ~tag[p].cbusy,
           NEW sreq \in Nat, ~Splits(p, sreq), tag' = SplitTags(p, sreq),
           NEW e, e = mm_next(p)
    PROVE  /\ p # Last /\ e \in Chunks /\ p # e
           /\ Chunks' = Chunks
           /\ tag'[p] = [tag[p] EXCEPT !.cbusy = TRUE]
           /\ tag'[e] = [tag[e] EXCEPT !.pbusy = TRUE, !.psz = Payload]
           /\ \A q \in Chunks : q # p /\ q # e => tag'[q] = tag[q]
           /\ tag' \in [Chunks -> Tags]
<1>1. p # Last /\ e \in Chunks /\ p # e
    BY FreeIsNotLast, Neighbour, Fields
<1>2. tag' = [q \in Chunks |->
               CASE q = p -> [tag[p] EXCEPT !.cbusy = TRUE]
                 [] q = e -> [tag[e] EXCEPT !.pbusy = TRUE, !.psz = Payload]
                 [] OTHER -> tag[q]]
    BY DEF SplitTags
<1>3. Chunks' = Chunks
    BY <1>2 DEF Chunks
<1>4. tag'[p] = [tag[p] EXCEPT !.cbusy = TRUE]
    BY <1>1, <1>2
<1>5. tag'[e] = [tag[e] EXCEPT !.pbusy = TRUE, !.psz = Payload]
    BY <1>1, <1>2
<1>6. \A q \in Chunks : q # p /\ q # e => tag'[q] = tag[q]
    BY <1>2
<1>7. tag'[p] \in Tags
    BY <1>4, Fields DEF Tags
<1>8. tag'[e] \in Tags
    BY <1>1, <1>5, Fields DEF Tags
<1> QED
    BY <1>1, <1>2, <1>3, <1>4, <1>5, <1>6, <1>7, <1>8, Fields

LEMMA TakeIInv ==
    ASSUME IInv, NEW p \in Chunks, ~tag[p].cbusy,
           NEW sreq \in Nat, ~Splits(p, sreq), tag' = SplitTags(p, sreq)
    PROVE  IInv'
<1> DEFINE e == mm_next(p)
<1>1. /\ p # Last /\ e \in Chunks /\ p # e
      /\ Chunks' = Chunks
      /\ tag'[p] = [tag[p] EXCEPT !.cbusy = TRUE]
      /\ tag'[e] = [tag[e] EXCEPT !.pbusy = TRUE, !.psz = Payload]
      /\ \A q \in Chunks : q # p /\ q # e => tag'[q] = tag[q]
      /\ tag' \in [Chunks -> Tags]
    BY TakeFacts
<1>2. /\ tag'[p].size = tag[p].size /\ tag'[p].cbusy = TRUE
      /\ tag'[p].pbusy = tag[p].pbusy /\ tag'[p].psz = tag[p].psz
    BY <1>1, Fields DEF Tags
<1>3. /\ tag'[e].size = tag[e].size /\ tag'[e].cbusy = tag[e].cbusy
      /\ tag'[e].pbusy = TRUE
    BY <1>1, Fields DEF Tags
<1>4. /\ \A q \in Chunks : tag'[q].size = tag[q].size
      /\ \A q \in Chunks : mm_next(q)' = mm_next(q)
    BY <1>1, <1>2, <1>3 DEF mm_next
<1>5. First' = First /\ Last' = Last /\ First \in Chunks /\ Last \in Chunks
    BY DEF First, Last, IInv, Tiling
<1>6. TypeOK'
    BY <1>1, <1>5 DEF IInv, TypeOK
<1>7. Tiling'
    BY <1>1, <1>4, <1>5 DEF IInv, Tiling
<1>8. \A q \in Chunks \ {Last} : q # p => mm_next(q) # e
    <2> TAKE q \in Chunks \ {Last}
    <2> HAVE q # p
    <2>1. q < p => mm_next(q) <= p
        BY Apart, Neighbour
    <2>2. q > p => e <= q
        BY <1>1, Apart, Neighbour, Fields
    <2> QED
        BY <2>1, <2>2, <1>1, Fields, Neighbour
<1>9. tag[e].cbusy
    BY <1>1, Neighbour
<1>10. ASSUME NEW q \in Chunks \ {Last}
       PROVE  /\ tag'[mm_next(q)].pbusy = tag'[q].cbusy
              /\ ~tag'[q].cbusy => /\ tag'[mm_next(q)].psz = tag'[q].size
                                   /\ tag'[mm_next(q)].cbusy
    <2>1. CASE q = p
        BY <2>1, <1>2, <1>3
    <2>2. CASE q # p
        <3>1. mm_next(q) # e /\ mm_next(q) \in Chunks
            BY <2>2, <1>8, Neighbour
        <3>2. /\ tag[mm_next(q)].pbusy = tag[q].cbusy
              /\ ~tag[q].cbusy => tag[mm_next(q)].psz = tag[q].size
              /\ ~tag[q].cbusy => tag[mm_next(q)].cbusy
            BY Neighbour
        <3>3. tag'[q].cbusy = tag[q].cbusy /\ tag'[q].size = tag[q].size
            BY <2>2, <1>1, <1>3, <1>4
        <3>4. CASE mm_next(q) = p
            BY <3>2, <3>3, <3>4, <1>2
        <3>5. CASE mm_next(q) # p
            BY <3>1, <3>2, <3>3, <3>5, <1>1
        <3> QED
            BY <3>4, <3>5
    <2> QED
        BY <2>1, <2>2
<1>11. TagsAgree'
    <2>1. tag'[First].pbusy /\ tag'[Last].cbusy
        BY <1>1, <1>2, <1>3, <1>5 DEF IInv, TagsAgree
    <2> QED
        BY <2>1, <1>1, <1>4, <1>5, <1>10 DEF TagsAgree
<1>12. NoFreeNeighbours'
    BY <1>1, <1>4, <1>5, <1>10 DEF NoFreeNeighbours
<1> QED
    BY <1>6, <1>7, <1>11, <1>12 DEF IInv

-------------------------------------------------------------------------------
(* What mm_coalesce makes of a block in use: one free chunk from b to e, with *)
(* busy chunks on either side, and no other chunk begins between them.        *)
LEMMA MergeGeometry ==
    ASSUME IInv, NEW p \in Live
    PROVE  /\ MergedBgn(p) \in Chunks /\ MergedEnd(p) \in Chunks
           /\ MergedBgn(p) <= p /\ p < MergedEnd(p)
           /\ MergedBgn(p) + MergedSize(p) + 4 = MergedEnd(p)
           /\ MergedSize(p) \in Int /\ MergedSize(p) >= 16
           /\ tag[MergedBgn(p)].pbusy /\ tag[MergedEnd(p)].cbusy
           /\ \A q \in Chunks :
                q \in Swallowed(p) <=> MergedBgn(p) < q /\ q < MergedEnd(p)
           /\ \A q \in Chunks :
                MergedBgn(p) <= q /\ q < MergedEnd(p) /\ q # p => ~tag[q].cbusy
<1> DEFINE n == mm_next(p)
           m == mm_next(n)
           r == mm_prev(p)
<1>1. p \in Chunks /\ p # Last /\ tag[p].cbusy
    BY DEF Live
<1>2. n \in Chunks /\ n = p + tag[p].size + 4 /\ tag[p].size >= 16 /\ p < n
      /\ p \in Int /\ n \in Int /\ tag[p].size \in Int
    BY <1>1, Neighbour, Fields
<1>3. ASSUME Forward(p)
      PROVE  /\ n # Last /\ m \in Chunks /\ m \in Int /\ m = n + tag[n].size + 4
             /\ n < m /\ tag[m].cbusy /\ ~tag[n].cbusy /\ tag[n].size \in Int
             /\ tag[n].size >= 16
    <2>1. ~tag[n].cbusy
        BY <1>3 DEF Forward
    <2>2. n # Last
        BY <2>1, <1>2, FreeIsNotLast
    <2> QED
        BY <2>1, <2>2, <1>2, Neighbour, Fields
<1>4. ASSUME Backward(p)
      PROVE  /\ r \in Chunks /\ r # Last /\ r \in Int /\ p = r + tag[r].size + 4
             /\ tag[p].psz = tag[r].size /\ tag[r].size \in Int /\ tag[r].size >= 16
             /\ ~tag[r].cbusy /\ tag[r].pbusy
    <2>1. ~tag[p].pbusy
        BY <1>4 DEF Backward
    <2>2. p # First
        BY <2>1 DEF IInv, TagsAgree
    <2>3. PICK x \in Chunks \ {Last} : mm_next(x) = p
        BY <1>1, <2>2 DEF IInv, Tiling
    <2>4. ~tag[x].cbusy /\ tag[p].psz = tag[x].size /\ p = x + tag[x].size + 4
          /\ tag[x].size >= 16 /\ x \in Int /\ tag[x].size \in Int
        BY <2>1, <2>3, Neighbour, Fields
    <2>5. r = x
        BY <2>4, <1>2 DEF mm_prev, WORD
    <2>6. tag[x].pbusy
        <3>1. CASE x = First
            BY <3>1 DEF IInv, TagsAgree
        <3>2. CASE x # First
            <4>1. PICK y \in Chunks \ {Last} : mm_next(y) = x
                BY <3>2, <2>3 DEF IInv, Tiling
            <4>2. /\ tag[x].pbusy = tag[y].cbusy
                  /\ ~tag[y].cbusy => tag[x].cbusy
                BY <4>1, Neighbour
            <4> QED
                BY <4>2, <2>4, Fields
        <3> QED
            BY <3>1, <3>2
    <2> QED
        BY <2>3, <2>4, <2>5, <2>6
<1>5. ASSUME NEW x \in Chunks, NEW q \in Chunks, x < q, x # Last
      PROVE  mm_next(x) <= q
    BY <1>5 DEF IInv, Tiling
<1>6. ~Forward(p) => tag[n].cbusy
    BY <1>2, Fields DEF Forward
<1>7. ~Backward(p) => tag[p].pbusy
    BY <1>1, Fields DEF Backward
<1>8. Backward(p) => mm_next(r) = p
    BY <1>4 DEF mm_next, WORD
<1> HIDE DEF n, m, r
<1>9. \A q \in Chunks : p < q => n <= q
    BY <1>1, <1>5 DEF n
<1>10. Forward(p) => \A q \in Chunks : n < q => m <= q
    BY <1>2, <1>3, <1>5 DEF m
<1>11. Backward(p) => \A q \in Chunks : r < q => p <= q
    BY <1>4, <1>5, <1>8
<1>12. \A q \in Chunks : q \in Int
    BY Fields
<1>13. MergedBgn(p) = IF Backward(p) THEN r ELSE p
    BY DEF MergedBgn, r
<1>14. MergedEnd(p) = IF Forward(p) THEN m ELSE n
    BY DEF MergedEnd, m, n
<1>15. MergedSize(p) = tag[p].size + (IF Forward(p) THEN tag[n].size + 4 ELSE 0)
                                   + (IF Backward(p) THEN tag[p].psz + 4 ELSE 0)
    BY DEF MergedSize, n, WORD
<1>16. Swallowed(p) = (IF Forward(p) THEN {n} ELSE {}) \cup (IF Backward(p) THEN {p} ELSE {})
    BY DEF Swallowed, n
<1>17. CASE Forward(p) /\ Backward(p)
    <2>1. \A q \in Chunks : r <= q /\ q < m => q = r \/ q = p \/ q = n
        BY <1>17, <1>2, <1>3, <1>4, <1>9, <1>10, <1>11, <1>12
    <2>2. \A q \in Chunks : q \in Swallowed(p) <=> r < q /\ q < m
        BY <2>1, <1>17, <1>2, <1>3, <1>4, <1>16
    <2>3. MergedBgn(p) = r /\ MergedEnd(p) = m
          /\ MergedSize(p) = tag[p].size + (tag[n].size + 4) + (tag[p].psz + 4)
        BY <1>17, <1>13, <1>14, <1>15
    <2>4. \A q \in Chunks : r <= q /\ q < m /\ q # p => ~tag[q].cbusy
        BY <2>1, <1>17, <1>3, <1>4
    <2>5. r \in Chunks /\ m \in Chunks /\ r \in Int /\ m \in Int /\ tag[r].pbusy /\ tag[m].cbusy
        BY <1>17, <1>3, <1>4
    <2>6. /\ p = r + tag[p].psz + 4 /\ tag[p].psz \in Int /\ tag[p].psz >= 16
          /\ m = n + tag[n].size + 4 /\ tag[n].size \in Int /\ tag[n].size >= 16
        BY <1>17, <1>3, <1>4
    <2>7. /\ r <= p /\ p < m /\ r + MergedSize(p) + 4 = m
          /\ MergedSize(p) \in Int /\ MergedSize(p) >= 16
        BY <2>3, <2>5, <2>6, <1>2
    <2> QED
        BY <2>2, <2>3, <2>4, <2>5, <2>7
<1>18. CASE Forward(p) /\ ~Backward(p)
    <2>1. \A q \in Chunks : p <= q /\ q < m => q = p \/ q = n
        <3> SUFFICES ASSUME NEW q \in Chunks, p <= q, q < m, q # p PROVE q = n
            OBVIOUS
        <3>1. q \in Int /\ n <= q
            BY <1>2, <1>9, <1>12
        <3> QED
            BY <3>1, <1>18, <1>2, <1>3, <1>10
    <2>2. \A q \in Chunks : q \in Swallowed(p) <=> p < q /\ q < m
        BY <2>1, <1>18, <1>2, <1>3, <1>16
    <2>3. MergedBgn(p) = p /\ MergedEnd(p) = m
          /\ MergedSize(p) = tag[p].size + (tag[n].size + 4)
        BY <1>18, <1>13, <1>14, <1>15, <1>2, <1>3
    <2>4. \A q \in Chunks : p <= q /\ q < m /\ q # p => ~tag[q].cbusy
        BY <2>1, <1>18, <1>3
    <2>5. m \in Chunks /\ tag[p].pbusy /\ tag[m].cbusy
        BY <1>18, <1>3, <1>7
    <2>6. /\ p <= p /\ p < m /\ p + MergedSize(p) + 4 = m
          /\ MergedSize(p) \in Int /\ MergedSize(p) >= 16
        BY <2>3, <1>18, <1>2, <1>3
    <2> QED
        BY <1>1, <2>2, <2>3, <2>4, <2>5, <2>6
<1>19. CASE ~Forward(p) /\ Backward(p)
    <2>1. \A q \in Chunks : r <= q /\ q < n => q = r \/ q = p
        <3> SUFFICES ASSUME NEW q \in Chunks, r <= q, q < n, q # r PROVE q = p
            OBVIOUS
        <3>1. q \in Int /\ p <= q
            BY <1>19, <1>4, <1>11, <1>12
        <3> QED
            BY <3>1, <1>2, <1>9
    <2>2. \A q \in Chunks : q \in Swallowed(p) <=> r < q /\ q < n
        BY <2>1, <1>19, <1>2, <1>4, <1>16
    <2>3. MergedBgn(p) = r /\ MergedEnd(p) = n
          /\ MergedSize(p) = tag[p].size + (tag[p].psz + 4)
        BY <1>19, <1>13, <1>14, <1>15, <1>2, <1>4
    <2>4. \A q \in Chunks : r <= q /\ q < n /\ q # p => ~tag[q].cbusy
        BY <2>1, <1>19, <1>4
    <2> QED
        BY <2>2, <2>3, <2>4, <1>19, <1>2, <1>4, <1>6
<1>20. CASE ~Forward(p) /\ ~Backward(p)
    <2>1. \A q \in Chunks : p <= q /\ q < n => q = p
        BY <1>20, <1>2, <1>9, <1>12
    <2>2. MergedBgn(p) = p /\ MergedEnd(p) = n /\ MergedSize(p) = tag[p].size
        BY <1>20, <1>13, <1>14, <1>15, <1>2
    <2> QED
        BY <2>1, <2>2, <1>20, <1>1, <1>2, <1>6, <1>7, <1>16, <1>12
<1> QED
    BY <1>17, <1>18, <1>19, <1>20

(* The headers after a merge.                                                 *)
LEMMA MergeFacts ==
    ASSUME IInv, NEW p \in Live, tag' = CoalesceTags(p)
    PROVE  /\ Chunks' = {q \in Chunks : q <= MergedBgn(p) \/ MergedEnd(p) <= q}
           /\ tag'[MergedBgn(p)] =
                [tag[MergedBgn(p)] EXCEPT !.size = MergedSize(p), !.cbusy = FALSE]
           /\ tag'[MergedEnd(p)] =
                [tag[MergedEnd(p)] EXCEPT !.psz = MergedSize(p), !.pbusy = FALSE]
           /\ \A q \in Chunks' :
                q # MergedBgn(p) /\ q # MergedEnd(p) => tag'[q] = tag[q]
           /\ tag' \in [Chunks' -> Tags]
<1> DEFINE b == MergedBgn(p)
           e == MergedEnd(p)
           s == MergedSize(p)
<1>1. /\ b \in Chunks /\ e \in Chunks /\ b + s + 4 = e /\ s \in Int /\ s >= 16
      /\ \A q \in Chunks : q \in Swallowed(p) <=> b < q /\ q < e
      /\ b \in Int /\ e \in Int /\ First <= b /\ e <= Last
    BY MergeGeometry, Fields
<1>2. tag' = [q \in Chunks \ Swallowed(p) |->
                CASE q = b -> [tag[q] EXCEPT !.size = s, !.cbusy = FALSE]
                  [] q = e -> [tag[q] EXCEPT !.psz = s, !.pbusy = FALSE]
                  [] OTHER -> tag[q]]
    BY DEF CoalesceTags
<1> HIDE DEF b, e, s
<1>3. Chunks' = Chunks \ Swallowed(p)
    BY <1>2 DEF Chunks
<1>4. Chunks' = {q \in Chunks : q <= b \/ e <= q}
    <2>1. \A q \in Chunks : (b < q /\ q < e) <=> ~(q <= b \/ e <= q)
        BY <1>1, Fields
    <2> QED
        BY <1>1, <1>3, <2>1
<1>5. b # e /\ b \in Chunks' /\ e \in Chunks'
    BY <1>1, <1>4
<1>6. tag'[b] = [tag[b] EXCEPT !.size = s, !.cbusy = FALSE]
    BY <1>2, <1>3, <1>5
<1>7. tag'[e] = [tag[e] EXCEPT !.psz = s, !.pbusy = FALSE]
    BY <1>2, <1>3, <1>5
<1>8. \A q \in Chunks' : q # b /\ q # e => tag'[q] = tag[q]
    BY <1>2, <1>3
<1>9. s \in 0 .. ArenaEnd
    BY <1>1, Ends
<1>10. tag'[b] \in Tags
    BY <1>1, <1>6, <1>9, Fields DEF Tags
<1>11. tag'[e] \in Tags
    BY <1>1, <1>7, <1>9, Fields DEF Tags
<1>12. \A q \in Chunks' : tag'[q] \in Tags
    BY <1>3, <1>8, <1>10, <1>11, Fields
<1>13. tag' \in [Chunks' -> Tags]
    BY <1>2, <1>3, <1>12
<1> QED
    BY <1>4, <1>6, <1>7, <1>8, <1>13 DEF b, e, s

LEMMA MergeIInv ==
    ASSUME IInv, NEW p \in Live, tag' = CoalesceTags(p)
    PROVE  IInv'
<1>0. PICK b, e, s : b = MergedBgn(p) /\ e = MergedEnd(p) /\ s = MergedSize(p)
    OBVIOUS
<1>1. /\ b \in Chunks /\ e \in Chunks /\ b + s + 4 = e /\ s \in Int /\ s >= 16
      /\ b \in Int /\ e \in Int /\ tag[b].pbusy /\ tag[e].cbusy /\ b < e
    BY <1>0, MergeGeometry, Fields
<1>2. /\ Chunks' = {q \in Chunks : q <= b \/ e <= q}
      /\ tag'[b] = [tag[b] EXCEPT !.size = s, !.cbusy = FALSE]
      /\ tag'[e] = [tag[e] EXCEPT !.psz = s, !.pbusy = FALSE]
      /\ \A q \in Chunks' : q # b /\ q # e => tag'[q] = tag[q]
      /\ tag' \in [Chunks' -> Tags]
    BY <1>0, MergeFacts
<1>3. b \in Chunks' /\ e \in Chunks' /\ Chunks' \subseteq Chunks
    BY <1>1, <1>2
<1>4. /\ tag'[b].size = s /\ tag'[b].cbusy = FALSE /\ tag'[b].pbusy = tag[b].pbusy
      /\ tag'[e].size = tag[e].size /\ tag'[e].cbusy = tag[e].cbusy
      /\ tag'[e].pbusy = FALSE /\ tag'[e].psz = s
    BY <1>1, <1>2, Fields DEF Tags
<1>5. /\ mm_next(b)' = e
      /\ \A q \in Chunks' : q # b => mm_next(q)' = mm_next(q)
    <2>1. \A q \in Chunks' : q # b => tag'[q].size = tag[q].size
        BY <1>2, <1>4
    <2> QED
        BY <2>1, <1>1, <1>4 DEF mm_next, WORD
<1>6. First' = First /\ Last' = Last /\ First \in Chunks /\ Last \in Chunks
    BY DEF First, Last, IInv, Tiling
<1>7. First \in Chunks' /\ Last \in Chunks' /\ b # Last
    BY <1>1, <1>2, <1>6, Fields, Ends
<1>8. ASSUME NEW q \in Chunks', q # Last, q # b
      PROVE  /\ mm_next(q) \in Chunks' /\ mm_next(q) # e /\ mm_next(q) \in Int
             /\ q \in Int /\ q < mm_next(q)
    <2>1. q \in Chunks /\ q \in Int /\ mm_next(q) \in Chunks /\ mm_next(q) \in Int
          /\ q < mm_next(q)
        BY <1>3, <1>8, Neighbour, Fields
    <2>2. q < b => mm_next(q) <= b
        BY <1>1, <2>1 DEF IInv, Tiling
    <2>3. q < b \/ e <= q
        BY <1>1, <1>2, <1>8, <2>1
    <2> QED
        BY <2>1, <2>2, <2>3, <1>1, <1>2
<1>9. TypeOK'
    BY <1>2, <1>6 DEF IInv, TypeOK
<1>10. Tiling'
    <2>1. tag'[Last].size = 0
        BY <1>2, <1>4, <1>7 DEF IInv, Tiling
    <2>2. ASSUME NEW q \in Chunks' \ {Last}
          PROVE  tag'[q].size >= MIN_CHUNK /\ mm_next(q)' \in Chunks'
        <3>1. CASE q = b
            BY <3>1, <1>1, <1>3, <1>4, <1>5 DEF MIN_CHUNK, WORD
        <3>2. CASE q # b
            <4>1. tag'[q].size = tag[q].size
                BY <3>2, <1>2, <1>4
            <4>2. tag[q].size >= MIN_CHUNK
                BY <1>3 DEF IInv, Tiling
            <4> QED
                BY <3>2, <4>1, <4>2, <1>5, <1>8
        <3> QED
            BY <3>1, <3>2
    <2>3. ASSUME NEW q \in Chunks', NEW r \in Chunks', q < r
          PROVE  mm_next(q)' <= r
        <3>1. CASE q = b
            <4>1. r \in Int
                BY <1>3, Fields
            <4> QED
                BY <3>1, <4>1, <2>3, <1>1, <1>2, <1>5
        <3>2. CASE q # b
            BY <3>2, <2>3, <1>3, <1>5 DEF IInv, Tiling
        <3> QED
            BY <3>1, <3>2
    <2>4. ASSUME NEW r \in Chunks' \ {First}
          PROVE  \E q \in Chunks' \ {Last} : mm_next(q)' = r
        <3>1. CASE r = e
            BY <3>1, <1>3, <1>5, <1>7
        <3>2. CASE r # e
            <4>1. PICK q \in Chunks \ {Last} : mm_next(q) = r
                BY <1>3 DEF IInv, Tiling
            <4>2. q \in Int /\ q < r /\ r \in Int /\ r = q + tag[q].size + 4
                BY <4>1, Neighbour, Fields
            <4>3. q < b \/ e <= q
                <5>1. q < b => r <= b
                    BY <4>1, <1>1 DEF IInv, Tiling
                <5>2. b <= q /\ q < e => r <= e
                    BY <4>1, <1>1 DEF IInv, Tiling
                <5> QED
                    BY <4>2, <5>1, <5>2, <3>2, <1>1, <1>2
            <4>4. q \in Chunks' /\ q # b
                BY <4>2, <4>3, <1>1, <1>2
            <4> QED
                BY <4>1, <4>4, <1>5
        <3> QED
            BY <3>1, <3>2
    <2> QED
        BY <2>1, <2>2, <2>3, <2>4, <1>6, <1>7 DEF Tiling
<1>11. ASSUME NEW q \in Chunks' \ {Last}
       PROVE  /\ tag'[mm_next(q)'].pbusy = tag'[q].cbusy
              /\ ~tag'[q].cbusy => /\ tag'[mm_next(q)'].psz = tag'[q].size
                                   /\ tag'[mm_next(q)'].cbusy
    <2>1. CASE q = b
        BY <2>1, <1>1, <1>4, <1>5
    <2>2. CASE q # b
        <3>1. q \in Chunks /\ mm_next(q)' = mm_next(q) /\ mm_next(q) \in Chunks'
              /\ mm_next(q) # e
            BY <2>2, <1>3, <1>5, <1>8
        <3>2. /\ tag[mm_next(q)].pbusy = tag[q].cbusy
              /\ ~tag[q].cbusy => tag[mm_next(q)].psz = tag[q].size
              /\ ~tag[q].cbusy => tag[mm_next(q)].cbusy
            BY <3>1, Neighbour
        <3>3. tag'[q].cbusy = tag[q].cbusy /\ tag'[q].size = tag[q].size
            BY <2>2, <1>2, <1>4
        <3>4. CASE mm_next(q) = b
            <4>1. tag[b].pbusy = tag[q].cbusy /\ tag[q].cbusy
                BY <3>2, <3>4, <1>1
            <4> QED
                BY <3>1, <3>3, <3>4, <4>1, <1>4
        <3>5. CASE mm_next(q) # b
            BY <3>1, <3>2, <3>3, <3>5, <1>2
        <3> QED
            BY <3>4, <3>5
    <2> QED
        BY <2>1, <2>2
<1>12. TagsAgree'
    <2>1. tag'[First].pbusy /\ tag'[Last].cbusy
        <3>1. First # e
            BY <1>1, <1>3, Fields
        <3> QED
            BY <3>1, <1>2, <1>4, <1>7 DEF IInv, TagsAgree
    <2> QED
        BY <2>1, <1>6, <1>11 DEF TagsAgree
<1>13. NoFreeNeighbours'
    BY <1>6, <1>11 DEF NoFreeNeighbours
<1> QED
    BY <1>9, <1>10, <1>12, <1>13 DEF IInv

LEMMA NextIInv == IInv /\ [Next]_tag => IInv'
<1> SUFFICES ASSUME IInv, [Next]_tag PROVE IInv'
    OBVIOUS
<1>1. CASE UNCHANGED tag
    BY <1>1 DEF IInv, TypeOK, Tiling, TagsAgree, NoFreeNeighbours, Chunks, mm_next,
                First, Last
<1>2. ASSUME NEW size \in Requests, mm_malloc(size)
      PROVE  IInv'
    <2>1. /\ Rounded(size) \in Nat /\ Rounded(size) >= MIN_CHUNK
        BY RoundedUp, RequestAssumption
    <2>2. PICK p \in Chunks : /\ ~tag[p].cbusy /\ tag[p].size >= Rounded(size)
                              /\ tag' = SplitTags(p, Rounded(size))
        BY <1>2 DEF mm_malloc, IsFree
    <2>3. Rounded(size) <= tag[p].size
        BY <2>1, <2>2, Fields
    <2>4. CASE Splits(p, Rounded(size))
        BY <2>1, <2>2, <2>3, <2>4, SplitIInv
    <2>5. CASE ~Splits(p, Rounded(size))
        BY <2>1, <2>2, <2>5, TakeIInv
    <2> QED
        BY <2>4, <2>5
<1>3. ASSUME NEW p \in Live, mm_free(p)
      PROVE  IInv'
    BY <1>3, MergeIInv DEF mm_free
<1> QED
    BY <1>1, <1>2, <1>3 DEF Next

(* What holds in every state, whatever callers ask for and give back.         *)
LEMMA Invariance == Spec => []IInv
<1>1. Init => IInv
    BY InitIInv
<1>2. IInv /\ [Next]_tag => IInv'
    BY NextIInv
<1> QED
    BY <1>1, <1>2, PTL DEF Spec

(* The tags of the loader's heap are always consistent, in whatever arena     *)
(* (mm_split, mm_coalesce): each chunk knows the state and the size of a free *)
(* one before it.                                                             *)
THEOREM Consistent == Spec => [](TypeOK /\ TagsAgree)
<1>1. IInv => TypeOK /\ TagsAgree
    BY DEF IInv
<1> QED
    BY <1>1, Invariance, PTL

(* Chunks tile the arena: splitting and merging leave no gap, make no chunk   *)
(* too small and never let one reach into the next.                           *)
THEOREM ArenaTiled == Spec => []Tiling
<1>1. IInv => Tiling
    BY DEF IInv
<1> QED
    BY <1>1, Invariance, PTL

(* Two free chunks are never neighbours: mm_free merges a chunk with both of  *)
(* its neighbours, and splitting leaves the rest next to chunks in use.       *)
THEOREM FreeMerged == Spec => []NoFreeNeighbours
<1>1. IInv => NoFreeNeighbours
    BY DEF IInv
<1> QED
    BY <1>1, Invariance, PTL

-------------------------------------------------------------------------------
(* A block is at its chunk's address plus 8, and has its chunk's size.        *)
LEMMA Blocks ==
    /\ DOMAIN LiveBlocks = {p + 8 : p \in Live}
    /\ IInv => \A p \in Live : LiveBlocks[p + 8] = tag[p].size
<1>1. LiveBlocks = [a \in {p + 8 : p \in Live} |-> tag[a - 8].size]
    BY DEF LiveBlocks, WORD
<1>2. ASSUME IInv, NEW p \in Live
      PROVE  p + 8 \in {q + 8 : q \in Live} /\ (p + 8) - 8 = p
    BY <1>2, Fields DEF Live
<1> QED
    BY <1>1, <1>2

(* After a call that changed no block in use but p's.                         *)
LEMMA BlocksOf ==
    ASSUME IInv, IInv'
    PROVE  /\ \A p \in Live' : LiveBlocks'[p + 8] = tag'[p].size
           /\ DOMAIN LiveBlocks' = {p + 8 : p \in Live'}
           /\ LiveBlocks' = [a \in DOMAIN LiveBlocks' |-> LiveBlocks'[a]]
<1>1. LiveBlocks' = [a \in {p + 8 : p \in Live'} |-> tag'[a - 8].size]
    BY DEF LiveBlocks, WORD
<1>2. ASSUME NEW p \in Live'
      PROVE  p \in Int
    <2>1. p \in Chunks' /\ Chunks' \subseteq First' .. Last'
        BY DEF Live, IInv, TypeOK
    <2>2. First' \in Int /\ Last' \in Int
        BY ArenaAssumption DEF First, Last, WORD
    <2> QED
        BY <2>1, <2>2
<1>3. ASSUME NEW p \in Live'
      PROVE  p + 8 \in {q + 8 : q \in Live'} /\ (p + 8) - 8 = p
    BY <1>2
<1> QED
    BY <1>1, <1>3

(* The block that a request adds to those in use, whether it was split off or *)
(* taken whole.                                                               *)
LEMMA SplitLive ==
    ASSUME IInv, NEW p \in Chunks, ~tag[p].cbusy,
           NEW sreq \in Nat, sreq >= MIN_CHUNK, sreq <= tag[p].size,
           Splits(p, sreq), tag' = SplitTags(p, sreq)
    PROVE  /\ p # Last /\ p \in Chunks' /\ tag'[p].cbusy
           /\ tag'[p].size \in Int /\ tag'[p].size >= sreq
           /\ tag'[p].size <= tag[p].size
           /\ Live' = Live \cup {p}
           /\ \A q \in Live : tag'[q].size = tag[q].size
<1> DEFINE n == p + sreq + WORD
           e == mm_next(p)
           rest == tag[p].size - sreq - WORD
<1>1. /\ p # Last /\ e \in Chunks /\ n \notin Chunks /\ p < n /\ n < e
      /\ n \in Int /\ p \in Int /\ e \in Int
      /\ Chunks' = Chunks \cup {n}
      /\ tag'[p] = Header(sreq, TRUE, tag[p].pbusy, tag[p].psz)
      /\ tag'[n] = Header(rest, FALSE, TRUE, Payload)
      /\ tag'[e] = [tag[e] EXCEPT !.psz = rest]
      /\ \A q \in Chunks : q # p /\ q # e => tag'[q] = tag[q]
      /\ tag' \in [Chunks' -> Tags]
    BY SplitFacts
<1> HIDE DEF n, e, rest
<1>2. /\ tag'[p].cbusy = TRUE /\ tag'[p].size = sreq
      /\ tag'[n].cbusy = FALSE
      /\ tag'[e].cbusy = tag[e].cbusy /\ tag'[e].size = tag[e].size
    BY <1>1, Fields DEF Header, Tags
<1>3. \A q \in Chunks : q # p => /\ tag'[q].cbusy = tag[q].cbusy
                                 /\ tag'[q].size = tag[q].size
    BY <1>1, <1>2
<1>4. Last' = Last /\ p \notin Live /\ Live \subseteq Chunks
    BY DEF Last, Live
<1>5. Live' = Live \cup {p}
    BY <1>1, <1>2, <1>3, <1>4 DEF Live
<1>6. \A q \in Live : tag'[q].size = tag[q].size
    BY <1>3, <1>4
<1>7. tag'[p].size \in Int /\ tag'[p].size >= sreq /\ tag'[p].size <= tag[p].size
    BY <1>2
<1> QED
    BY <1>1, <1>2, <1>5, <1>6, <1>7

LEMMA TakeLive ==
    ASSUME IInv, NEW p \in Chunks, ~tag[p].cbusy,
           NEW sreq \in Nat, sreq <= tag[p].size,
           ~Splits(p, sreq), tag' = SplitTags(p, sreq)
    PROVE  /\ p # Last /\ p \in Chunks' /\ tag'[p].cbusy
           /\ tag'[p].size \in Int /\ tag'[p].size >= sreq
           /\ tag'[p].size <= tag[p].size
           /\ Live' = Live \cup {p}
           /\ \A q \in Live : tag'[q].size = tag[q].size
<1> DEFINE e == mm_next(p)
<1>1. /\ p # Last /\ e \in Chunks /\ p # e
      /\ Chunks' = Chunks
      /\ tag'[p] = [tag[p] EXCEPT !.cbusy = TRUE]
      /\ tag'[e] = [tag[e] EXCEPT !.pbusy = TRUE, !.psz = Payload]
      /\ \A q \in Chunks : q # p /\ q # e => tag'[q] = tag[q]
      /\ tag' \in [Chunks -> Tags]
    BY TakeFacts
<1> HIDE DEF e
<1>2. /\ tag'[p].cbusy = TRUE /\ tag'[p].size = tag[p].size
      /\ tag'[e].cbusy = tag[e].cbusy /\ tag'[e].size = tag[e].size
    BY <1>1, Fields DEF Tags
<1>3. \A q \in Chunks : q # p => /\ tag'[q].cbusy = tag[q].cbusy
                                 /\ tag'[q].size = tag[q].size
    BY <1>1, <1>2
<1>4. Last' = Last /\ p \notin Live /\ Live \subseteq Chunks
    BY DEF Last, Live
<1>5. Live' = Live \cup {p}
    BY <1>1, <1>2, <1>3, <1>4 DEF Live
<1>6. \A q \in Live : tag'[q].size = tag[q].size
    BY <1>3, <1>4
<1>7. tag[p].size \in Int
    BY Fields
<1> QED
    BY <1>1, <1>2, <1>5, <1>6, <1>7

LEMMA MallocRefines ==
    ASSUME IInv, IInv', NEW size \in Requests, mm_malloc(size)
    PROVE  Abstract!Malloc(size)
<1>0. PICK sreq : sreq = Rounded(size)
    OBVIOUS
<1>1. /\ sreq \in Nat /\ sreq >= MIN_CHUNK /\ sreq >= size
      /\ size \in Nat
    BY <1>0, RoundedUp, RequestAssumption
<1>2. PICK p \in Chunks : /\ ~tag[p].cbusy /\ tag[p].size >= sreq
                          /\ tag' = SplitTags(p, sreq)
    BY <1>0 DEF mm_malloc, IsFree
<1>3. sreq <= tag[p].size /\ tag[p].size \in Int /\ p \in Int
    BY <1>1, <1>2, Fields
<1>4. /\ p # Last /\ p \in Chunks' /\ tag'[p].cbusy
      /\ tag'[p].size \in Int /\ tag'[p].size >= sreq
      /\ tag'[p].size <= tag[p].size
      /\ Live' = Live \cup {p}
      /\ \A q \in Live : tag'[q].size = tag[q].size
    BY <1>1, <1>2, <1>3, SplitLive, TakeLive
<1> DEFINE a == p + 8
<1>5. /\ DOMAIN LiveBlocks' = DOMAIN LiveBlocks \cup {a}
      /\ LiveBlocks'[a] = tag'[p].size
    BY <1>4, Blocks, BlocksOf
<1>6. a \notin DOMAIN LiveBlocks
    <2>1. p \notin Live /\ \A q \in Live : q \in Int
        BY <1>2, Fields DEF Live
    <2> QED
        BY <2>1, <1>3, Blocks
<1>7. \A x \in DOMAIN LiveBlocks : LiveBlocks'[x] = LiveBlocks[x]
    BY <1>4, Blocks, BlocksOf
<1>8. LiveBlocks' = [x \in DOMAIN LiveBlocks \cup {a} |->
                        IF x = a THEN LiveBlocks'[a] ELSE LiveBlocks[x]]
    <2>1. LiveBlocks' = [x \in DOMAIN LiveBlocks \cup {a} |-> LiveBlocks'[x]]
        BY <1>5, BlocksOf
    <2> HIDE DEF a
    <2> QED
        BY <2>1, <1>7
<1>9. p + tag[p].size + 4 <= Last /\ First <= p
    BY <1>2, <1>4, Fields, Neighbour
<1>10. Abstract!Bytes(a, LiveBlocks'[a])
            \subseteq Abstract!Bytes(ArenaStart, ArenaEnd - ArenaStart)
    BY <1>3, <1>4, <1>5, <1>9, ArenaAssumption DEF Abstract!Bytes, First, Last, WORD
<1>11. ASSUME NEW x \in DOMAIN LiveBlocks
       PROVE  Abstract!Bytes(a, LiveBlocks'[a]) \cap Abstract!Bytes(x, LiveBlocks[x]) = {}
    <2>1. PICK q \in Live : x = q + 8
        BY Blocks
    <2>2. q \in Chunks /\ q # p /\ q \in Int /\ tag[q].size \in Int
        BY <1>2, Fields DEF Live
    <2>3. q + tag[q].size + 4 <= p \/ p + tag[p].size + 4 <= q
        BY <2>2, <1>3, Apart
    <2>4. LiveBlocks[x] = tag[q].size
        BY <2>1, Blocks
    <2> QED
        BY <2>1, <2>2, <2>3, <2>4, <1>3, <1>4, <1>5 DEF Abstract!Bytes
<1> HIDE DEF a
<1> QED
    BY <1>1, <1>4, <1>5, <1>6, <1>8, <1>10, <1>11 DEF Abstract!Malloc

LEMMA FreeRefines ==
    ASSUME IInv, IInv', NEW p \in Live, mm_free(p)
    PROVE  p + 8 \in DOMAIN LiveBlocks /\ Abstract!Free(p + 8)
<1>1. PICK b, e, s : b = MergedBgn(p) /\ e = MergedEnd(p) /\ s = MergedSize(p)
    OBVIOUS
<1>2. /\ b \in Chunks /\ e \in Chunks /\ b <= p /\ p < e
      /\ \A q \in Chunks : b <= q /\ q < e /\ q # p => ~tag[q].cbusy
      /\ b \in Int /\ e \in Int /\ p \in Int /\ b < e
    BY <1>1, MergeGeometry, Fields DEF Live
<1>3. /\ Chunks' = {q \in Chunks : q <= b \/ e <= q}
      /\ tag'[b] = [tag[b] EXCEPT !.size = s, !.cbusy = FALSE]
      /\ tag'[e] = [tag[e] EXCEPT !.psz = s, !.pbusy = FALSE]
      /\ \A q \in Chunks' : q # b /\ q # e => tag'[q] = tag[q]
    BY <1>1, MergeFacts DEF mm_free
<1>4. /\ tag'[b].cbusy = FALSE
      /\ tag'[e].cbusy = tag[e].cbusy /\ tag'[e].size = tag[e].size
    BY <1>2, <1>3, Fields DEF Tags
<1>5. \A q \in Chunks' : q # b => tag'[q].cbusy = tag[q].cbusy /\ tag'[q].size = tag[q].size
    BY <1>3, <1>4
<1>6. Live' = Live \ {p}
    <2>1. Last' = Last
        BY DEF Last
    <2>2. ASSUME NEW q \in Live'
          PROVE  q \in Live /\ q # p
        <3>1. q \in Chunks' /\ q # Last /\ tag'[q].cbusy /\ q # b
            BY <2>1, <1>4 DEF Live
        <3>2. q # p
            BY <3>1, <1>2, <1>3
        <3> QED
            BY <3>1, <3>2, <1>3, <1>5 DEF Live
    <2>3. ASSUME NEW q \in Live, q # p
          PROVE  q \in Live'
        <3>1. q \in Chunks /\ q # Last /\ tag[q].cbusy /\ q \in Int
            BY Fields DEF Live
        <3>2. q < b \/ e <= q
            BY <3>1, <2>3, <1>2
        <3>3. q \in Chunks' /\ q # b
            BY <3>1, <3>2, <1>2, <1>3
        <3> QED
            BY <3>1, <3>3, <2>1, <1>5 DEF Live
    <2> QED
        BY <2>2, <2>3
<1>7. \A q \in Live' : tag'[q].size = tag[q].size
    BY <1>4, <1>5 DEF Live
<1>8. p + 8 \in DOMAIN LiveBlocks
    BY Blocks
<1>9. DOMAIN LiveBlocks' = DOMAIN LiveBlocks \ {p + 8}
    <2>1. \A q \in Live : q \in Int
        BY Fields DEF Live
    <2> QED
        BY <2>1, <1>2, <1>6, Blocks, BlocksOf
<1>10. \A x \in DOMAIN LiveBlocks' : LiveBlocks'[x] = LiveBlocks[x]
    BY <1>6, <1>7, Blocks, BlocksOf
<1>11. LiveBlocks' = [x \in DOMAIN LiveBlocks \ {p + 8} |-> LiveBlocks[x]]
    BY <1>9, <1>10, BlocksOf
<1> QED
    BY <1>8, <1>11 DEF Abstract!Free

(* The heap keeps its promise: mm_malloc hands out blocks that are as long as *)
(* asked, inside the arena and apart from every block in use, and mm_free     *)
(* takes back that one block and no other.                                    *)
THEOREM Refinement == Spec => ImplementsHeap
<1>1. Init => Abstract!Init
    <2> SUFFICES ASSUME Init PROVE Abstract!Init
        OBVIOUS
    <2>1. First # Last /\ tag[First].cbusy = FALSE /\ Chunks = {First, Last}
        <3>1. tag = [p \in {First, Last} |->
                        IF p = First
                        THEN Header(ArenaEnd - ArenaStart - 2 * WORD, FALSE, TRUE, Payload)
                        ELSE Header(0, TRUE, FALSE, ArenaEnd - ArenaStart - 2 * WORD)]
            BY DEF Init, mm_init
        <3>2. First # Last
            BY Ends DEF MIN_CHUNK, WORD
        <3> QED
            BY <3>1, <3>2 DEF Chunks, Header
    <2>2. Live = {}
        BY <2>1 DEF Live
    <2> QED
        BY <2>2 DEF Abstract!Init, LiveBlocks
<1>2. IInv /\ IInv' /\ [Next]_tag => [Abstract!Next]_LiveBlocks
    <2> SUFFICES ASSUME IInv, IInv', [Next]_tag PROVE [Abstract!Next]_LiveBlocks
        OBVIOUS
    <2>1. CASE UNCHANGED tag
        BY <2>1 DEF LiveBlocks, Live, Chunks, Last
    <2>2. ASSUME NEW size \in Requests, mm_malloc(size)
          PROVE  Abstract!Next
        BY <2>2, MallocRefines DEF Abstract!Next
    <2>3. ASSUME NEW p \in Live, mm_free(p)
          PROVE  Abstract!Next
        BY <2>3, FreeRefines DEF Abstract!Next
    <2> QED
        BY <2>1, <2>2, <2>3 DEF Next
<1>3. Init => IInv
    BY InitIInv
<1>4. IInv /\ [Next]_tag => IInv'
    BY NextIInv
<1> QED
    BY <1>1, <1>2, <1>3, <1>4, PTL DEF Spec, ImplementsHeap, Abstract!Spec
===============================================================================
