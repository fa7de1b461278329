-------------------------------- MODULE MCLoader --------------------------------
(* Small machines for Loader.  A sector has 8 bytes and what ext2 calls 1024    *)
(* has 16, so that a block of 16 bytes holds four block numbers, and a file of  *)
(* 33 blocks reaches the triple indirect block.                                 *)
EXTENDS Loader, TLC

PartOf(type, lba, size) == [is |-> "part", type |-> type, lba |-> lba, size |-> size]

(* A table of entries at a sector.                                              *)
Table(sect, parts) ==
    [a \in {sect * SECT + TABLE + j * ENTRY : j \in 0 .. Len(parts) - 1} |->
        parts[((a - sect * SECT - TABLE) \div ENTRY) + 1]]

Inode(mode, size, blocks, block, target) ==
    [is |-> "inode", mode |-> mode, size |-> size, blocks |-> blocks,
     block |-> [k \in 0 .. 14 |-> IF k \in DOMAIN block THEN block[k] ELSE 0], target |-> target]
Dir(blocks)  == Inode("dir", 0, 2 * Len(blocks), [k \in 0 .. Len(blocks) - 1 |-> blocks[k + 1]], << >>)
SymLink(name) == Inode("link", Len(name), 0, << >>, name)
Special0      == Inode("special", 0, 0, << >>, << >>)

WordOf(n) == [is |-> "word", n |-> n]

(* Entries from byte a on, the last one as long as the rest of the block.       *)
Dent(list, z) == [k \in DOMAIN list |-> [is |-> "dent", name |-> list[k][1], inode |-> list[k][2],
                                          length |-> IF k < Len(list) THEN 2 ELSE z - 2 * (k - 1)]]
Dents(a, z, list) == [x \in {a + 2 * (k - 1) : k \in DOMAIN list} |-> Dent(list, z)[((x - a) \div 2) + 1]]

(* The first of the file systems: blocks of 16 bytes, inodes in three groups.   *)
DataOf(b) == 20 + ((b * 5) % 33)
KBlocks == [b \in 0 .. 32 |-> DataOf(b)]
K == Inode("reg", 523, 84,
        [k \in 0 .. 14 |-> IF k < 12 THEN DataOf(k) ELSE IF k = 12 THEN 9 ELSE IF k = 13 THEN 10 ELSE 15], << >>)
Words(s, b, f) == [a \in {s + b * 16 + k * 4 : k \in 0 .. 3} |-> WordOf(f[((a - s - b * 16) \div 4) + 1])]

FirstInodes == <<Dir(<<6, 8>>), Dir(<<7>>), K, SymLink(<<"b", "/", "k">>), SymLink(<<"k">>),
                 SymLink(<<"/", "b">>), SymLink(<<"o">>), Special0,
                 SymLink(<<"b", "/", ".", "/", ".", "/", "k">>)>>
FirstAt(s) ==
    (s + 16) :> [is |-> "super", inodes |-> 12, per |-> 4, log |-> 0, uuid |-> "u"]
    @@ [a \in {s + 32, s + 34, s + 36} |-> [is |-> "desc", table |-> 3 + ((a - s - 32) \div 2)]]
    @@ [a \in {s + 48 + 4 * k : k \in 1 .. 9} |-> FirstInodes[(a - s - 48) \div 4]]
    @@ Dents(s + 96, 16, <<<< <<"b">>, 3>>, << <<"v">>, 5>>, << <<"a">>, 7>>, << <<"o">>, 8>>, << <<"z">>, 9>>>>)
    @@ Dents(s + 112, 16, <<<< <<"k">>, 4>>, << <<"l">>, 6>>, << <<".">>, 3>>>>)
    @@ Dents(s + 128, 16, <<<< <<"w">>, 10>>, << <<"q">>, 4>>>>)
    @@ Words(s, 9, <<DataOf(12), DataOf(13), DataOf(14), DataOf(15)>>)
    @@ Words(s, 10, <<11, 12, 13, 14>>)
    @@ Words(s, 11, <<DataOf(16), DataOf(17), DataOf(18), DataOf(19)>>)
    @@ Words(s, 12, <<DataOf(20), DataOf(21), DataOf(22), DataOf(23)>>)
    @@ Words(s, 13, <<DataOf(24), DataOf(25), DataOf(26), DataOf(27)>>)
    @@ Words(s, 14, <<DataOf(28), DataOf(29), DataOf(30), DataOf(31)>>)
    @@ Words(s, 15, <<16, 0, 0, 0>>)
    @@ Words(s, 16, <<17, 0, 0, 0>>)
    @@ Words(s, 17, <<DataOf(32), 0, 0, 0>>)

(* The second: blocks of 32 bytes, a file of 40.                                *)
Small == Inode("reg", 40, 4, [k \in {0, 1} |-> 5 - k], << >>)
SecondAt(s, uuid) ==
    (s + 16) :> [is |-> "super", inodes |-> 4, per |-> 4, log |-> 1, uuid |-> uuid]
    @@ (s + 32) :> [is |-> "desc", table |-> 2]
    @@ (s + 68) :> [Dir(<<3>>) EXCEPT !.blocks = 4] @@ (s + 72) :> Small
    @@ Dents(s + 96, 32, <<<< <<"k">>, 3>>>>)

Hd(k, p) == <<"h", "d", k, "p", p>>
SlashK == <<"/", "k">>
BSlashK == <<"/", "b", "/", "k">>

FirstFile(k, sect) == [drive |-> k, inode |-> sect * SECT + 60, start |-> sect * SECT,
                       size |-> 523, bs |-> 16, blocks |-> KBlocks]
FirstDir(k, sect, i) == [FirstFile(k, sect) EXCEPT !.inode = sect * SECT + 48 + 4 * (i - 1), !.size = 0]
SecondFile(k, sect) == [drive |-> k, inode |-> sect * SECT + 72, start |-> sect * SECT,
                        size |-> 40, bs |-> 32, blocks |-> [b \in {0, 1} |-> 5 - b]]

(* A drive with a primary and two logical partitions, and one without a file    *)
(* system.                                                                      *)
UsualDrive ==
    [count |-> 260, bad |-> {}, fs |-> {1, 122, 162}, third |-> {},
     at |-> Table(0, <<PartOf(131, 1, 108), PartOf(5, 120, 130), PartOf(12, 250, 4), PartOf(131, 254, 5)>>)
            @@ FirstAt(1 * SECT)
            @@ Table(120, <<PartOf(131, 2, 30), PartOf(5, 40, 30)>>)
            @@ SecondAt(122 * SECT, "v")
            @@ Table(160, <<PartOf(131, 2, 30), NoPart>>)
            @@ SecondAt(162 * SECT, "w")]
UsualHolds ==
    [n \in {Hd("0", "0") \o BSlashK, <<"{", "u", "}">> \o BSlashK, Hd("0", "0") \o <<"/", "v">>,
            Hd("0", "0") \o <<"/", "a", "/", "l">>, Hd("0", "0") \o <<"/", "/", "q">>,
            Hd("0", "0") \o <<"/", "b", "/", ".", "/", "k">>,
            Hd("0", "0") \o <<"/", "b", "/", ".", "/", "l">>} |-> FirstFile(0, 1)]
    @@ (Hd("0", "0") \o <<"/", "b">>) :> FirstDir(0, 1, 3)
    @@ (Hd("0", "5") \o SlashK) :> SecondFile(0, 122)
    @@ (<<"{", "w", "}">> \o SlashK) :> SecondFile(0, 162)
UsualNames == DOMAIN UsualHolds \cup
    {Hd("0", "0") \o <<"/", "o">>, Hd("0", "0") \o <<"/", "z">>, Hd("0", "0") \o <<"/", "w">>,
     Hd("0", "0") \o BSlashK \o SlashK, Hd("0", "3") \o SlashK, <<"{", "x", "}">> \o SlashK, SlashK}

(* A chain whose last link is its own place, and an extended partition within   *)
(* an extended one, on the second drive.                                        *)
NestedDrive ==
    [count |-> 200, bad |-> {}, fs |-> {8, 62}, third |-> {},
     at |-> Table(0, <<PartOf(5, 4, 40), NoPart, PartOf(5, 50, 90), NoPart>>)
            @@ Table(4, <<PartOf(131, 4, 20), PartOf(5, 26, 2)>>)
            @@ SecondAt(8 * SECT, "v")
            @@ Table(30, <<NoPart, PartOf(5, 26, 2)>>)
            @@ Table(50, <<PartOf(5, 10, 40), NoPart>>)
            @@ Table(60, <<PartOf(131, 2, 30), NoPart>>)
            @@ SecondAt(62 * SECT, "w")]
NestedHolds ==
    (Hd("1", "5") \o SlashK) :> SecondFile(1, 8)
    @@ (<<"h", "d", "1", "p", "2", "p", "5", "/", "k">>) :> SecondFile(1, 62)
    @@ (<<"{", "w", "}">> \o SlashK) :> SecondFile(1, 62)

(* A drive with a longer file, of six blocks more in the triple indirect one,   *)
(* and a chain of three tables.                                                 *)
LongBlocks == [b \in 0 .. 38 |-> IF b < 33 THEN DataOf(b) ELSE <<19, 53, 54, 55, 56, 57>>[b - 32]]
LongAt(s) ==
    (s + 60) :> [K EXCEPT !.size = 619, !.blocks = 98]
    @@ Words(s, 16, <<17, 18, 0, 0>>)
    @@ Words(s, 17, <<DataOf(32), 19, 53, 54>>)
    @@ Words(s, 18, <<55, 56, 57, 0>>)
    @@ FirstAt(s)
LongDrive ==
    [count |-> 260, bad |-> {}, fs |-> {1, 122, 162, 202}, third |-> {202},
     at |-> Table(0, <<PartOf(131, 1, 118), PartOf(5, 120, 130), NoPart, NoPart>>)
            @@ LongAt(1 * SECT)
            @@ Table(120, <<PartOf(131, 2, 30), PartOf(5, 40, 30)>>)
            @@ SecondAt(122 * SECT, "v")
            @@ Table(160, <<PartOf(131, 2, 30), PartOf(5, 80, 30)>>)
            @@ SecondAt(162 * SECT, "w")
            @@ Table(200, <<PartOf(131, 2, 30), NoPart>>)
            @@ SecondAt(202 * SECT, "x")]
LongHolds ==
    (Hd("0", "0") \o <<"/", "v">>) :> [FirstFile(0, 1) EXCEPT !.size = 619, !.blocks = LongBlocks]
    @@ (Hd("0", "6") \o SlashK) :> SecondFile(0, 162)

(* The machines: the usual drive alone, the nested one as the second drive, and *)
(* the longer file; and the usual drive with sectors that cannot be read: in    *)
(* the middle of the file, in the second table of the chain, under a            *)
(* superblock, under the drive's table, under the first table of the chain,     *)
(* under the index of blocks and under a directory.                             *)
NestedMachine == 2
LongMachine == 10
BadSectors == <<{}, {}, {2 * DataOf(20) + 1}, {160}, {122 + 2}, {0}, {120}, {2 * 11 + 1}, {2 * 6 + 1}, {}>>
DriveOf(m) ==
    IF m = NestedMachine THEN NestedDrive
    ELSE IF m = LongMachine THEN LongDrive ELSE [UsualDrive EXCEPT !.bad = BadSectors[m]]
AllMachines == [m \in 1 .. LongMachine |->
                  [k \in 1 .. 4 |-> IF k = (IF m = NestedMachine THEN 2 ELSE 1) THEN DriveOf(m) ELSE NoDrive]]
MCMachines == AllMachines

AllNames == [m \in 1 .. LongMachine |->
              IF m = 1 THEN UsualNames ELSE IF m = NestedMachine THEN DOMAIN NestedHolds
              ELSE IF m = LongMachine THEN DOMAIN LongHolds
              ELSE {Hd("0", "0") \o <<"/", "v">>, Hd("0", "5") \o SlashK, <<"{", "w", "}">> \o SlashK}]
AllHolds == [m \in 1 .. LongMachine |-> IF m = NestedMachine THEN NestedHolds
                                            ELSE IF m = LongMachine THEN LongHolds ELSE UsualHolds]
MCNames == AllNames
MCHolds == AllHolds
=================================================================================
