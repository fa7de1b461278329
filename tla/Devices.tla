-------------------------------- MODULE Devices --------------------------------
(* The loader's devices (src/loader/krn/dm.c, src/loader/mod/mod_extp.c, and    *)
(* creating and initialising a device of mod_ext2.c): the BIOS drives, the      *)
(* partitions of their tables, the chains of extended partitions, registration  *)
(* and mounting.                                                                *)
(*                                                                              *)
(* What is on a drive is a function from the addresses of its bytes to the      *)
(* structures that begin there; the sizes of a sector and of the structures     *)
(* are parameters.  The nested calls of dm_init are a stack of frames.          *)
EXTENDS Integers, Sequences

CONSTANTS
    SECT,       (* Bytes of a sector.                                           *)
    KB,         (* What ext2 calls 1024.                                        *)
    TABLE,      (* Offset of the partition table, 0x1be.                        *)
    ENTRY,      (* sizeof(struct dm_partition_t) and of the superblock.         *)
    SUPER,
    W32,        (* 2^32, where uint32_t wraps around.                           *)
    Machines,   (* The drives 0x80 .. 0x83 of each machine, see below.          *)
    MaxStarved  (* How many allocations may fail.                               *)

(* A drive: its sectors, those of them that cannot be read, and what begins at  *)
(* which byte.  fs says where the file systems in its partitions begin, and     *)
(* third which of them are in the third table of a chain or behind it.          *)
NoDrive == [count |-> 0]
ASSUME MachinesAssumption ==
    \A m \in DOMAIN Machines : Len(Machines[m]) = 4

VARIABLES
    mach,     (* The machine.                                                   *)
    drive,    (* i of dm_doinit, from 0.                                        *)
    frames,   (* The calls of dm_raw_init and dm_extp_init in progress: the     *)
              (* device, i, offset, the table read (p), and whether entry i is  *)
              (* still to be looked at.                                         *)
    devs,     (* All devices created.                                           *)
    reg,      (* Those registered and mounted: the rings from dm_reg_dev and    *)
    mnt,      (* dm_mnt_dev on.                                                 *)
    starved,  (* Allocations that have failed.                                  *)
    ph        (* What the loader is doing.                                      *)

devVars == <<mach, drive, frames, devs, reg, mnt, starved, ph>>

Drive(k) == Machines[mach][k + 1]

NoPart  == [is |-> "part", type |-> 0, lba |-> 0, size |-> 0]
NoSuper == [is |-> "none"]

(* What begins at byte a of drive k.                                            *)
At(k, a) == IF a \in DOMAIN Drive(k).at THEN Drive(k).at[a] ELSE NoSuper

Part(k, a)  == IF At(k, a).is = "part"  THEN At(k, a) ELSE NoPart
Super(k, a) == IF At(k, a).is = "super" THEN At(k, a) ELSE NoSuper

Refused == [cr |-> -1, at |-> 0, got |-> 0]

Least(S) == CHOOSE x \in S : \A y \in S : x <= y

Touched(a, size) == IF size = 0 THEN {} ELSE (a \div SECT) .. ((a + size - 1) \div SECT)

(* The sectors are read one by one up to the first of the bad ones.  A BIOS     *)
(* error is returned as it is, a positive number.                               *)
SectorLoop(a, size, bad) ==
    IF bad = {} THEN [cr |-> 0, at |-> a, got |-> size]
    ELSE [cr |-> 1, at |-> a, got |-> IF Least(bad) * SECT < a THEN 0 ELSE Least(bad) * SECT - a]

(* dm_raw_read: the result, the address read from and how much of it was read.  *)
RawRead(k, sect, off, size) ==
    IF sect + ((off + size) \div SECT) >= Drive(k).count THEN Refused
    ELSE SectorLoop((sect * SECT) + off, size,
                    Touched((sect * SECT) + off, size) \cap Drive(k).bad)

(* Block of a device in sectors (dm_ext2_read).                                 *)
Sectors(v, block) ==
    IF devs[v].kind = "ext2" THEN block * ((KB * 2^devs[v].super.log) \div SECT) ELSE block

(* Device v, its parent and so on to the drive.                                 *)
Above(v) ==
    LET above[u \in DOMAIN devs] ==
            {u} \cup IF devs[u].kind = "raw" THEN {} ELSE above[devs[u].parent]
    IN  above[v]

(* Where device v begins on its drive.                                          *)
Start(v) ==
    LET start[u \in DOMAIN devs] ==
            IF devs[u].kind = "raw" THEN 0 ELSE devs[u].base + start[devs[u].parent]
    IN  start[v]

(* Whether extended partition u refuses what is read from a sector of the drive.*)
Past(u, sect, off, size) ==
    devs[u].kind = "extp"
      /\ (sect - Start(u)) + ((off + size) \div SECT) >= devs[u].count

Relayed(v, sect, off, size) ==
    IF \E u \in Above(v) : Past(u, sect, off, size) THEN Refused
    ELSE RawRead(devs[v].drive, sect, off, size)

(* dm_read: the device's read method, which relays to its parent's with the     *)
(* device's own offset added, up to the drive.                                  *)
DmRead(v, sect, off, size) == Relayed(v, Start(v) + Sectors(v, sect), off, size)

Digit == <<"0", "1", "2", "3", "4", "5", "6", "7", "8", "9">>
MkName(name, num) ==
    name \o (IF num < 10 THEN <<Digit[num + 1]>>
             ELSE <<Digit[(num \div 10) + 1], Digit[(num % 10) + 1]>>)

(* dm_find_module: the two modules there are.                                   *)
Module(type) == CASE type = 131 -> "ext2" [] type = 5 -> "extp" [] OTHER -> "none"

Device(kind, parent, k, base, count, name) ==
    [kind |-> kind, parent |-> parent, drive |-> k, base |-> base, count |-> count,
     name |-> name, fs |-> FALSE, super |-> NoSuper]

Top == frames[Len(frames)]
Below == SubSeq(frames, 1, Len(frames) - 1)
Frame(v, i, table) == [dev |-> v, i |-> i, off |-> 0, table |-> table, todo |-> TRUE]

--------------------------------------------------------------------------------
(* Nothing found yet, on some machine.                                          *)
DevInit ==
    /\ mach \in DOMAIN Machines
    /\ drive = 0 /\ frames = << >> /\ devs = << >> /\ reg = << >> /\ mnt = << >>
    /\ starved = 0 /\ ph = "drives"

(* dm_doinit, one drive: dm_raw_create, and dm_raw_init up to the table.        *)
NextDrive ==
    /\ ph = "drives" /\ frames = << >> /\ drive < 4
    /\ Drive(drive) # NoDrive
    /\ devs' = Append(devs, Device("raw", 0, drive, 0, Drive(drive).count,
                                   MkName(<<"h", "d">>, drive)))
    /\ LET r == RawRead(drive, 0, TABLE, 4 * ENTRY)
       IN  frames' = IF r.cr = 0
                     THEN <<Frame(Len(devs) + 1, 0,
                                  [j \in 1 .. 4 |-> Part(drive, r.at + (j - 1) * ENTRY)])>>
                     ELSE << >>
    /\ drive' = drive + 1
    /\ UNCHANGED <<mach, reg, mnt, starved, ph>>

(* Mutant: a drive the BIOS does not know is asked for again.                   *)
AbsentDriveMut ==
    /\ ph = "drives" /\ frames = << >> /\ drive < 4
    /\ Drive(drive) = NoDrive
    /\ UNCHANGED devVars

(* dm_doinit: the BIOS knows no such drive.                                     *)
AbsentDrive ==
    /\ ph = "drives" /\ frames = << >> /\ drive < 4
    /\ Drive(drive) = NoDrive
    /\ drive' = drive + 1
    /\ UNCHANGED <<mach, frames, devs, reg, mnt, starved, ph>>

(* dm_doinit: there is no memory for the drive or for its table.                *)
StarvedDrive ==
    /\ ph = "drives" /\ frames = << >> /\ drive < 4 /\ starved < MaxStarved
    /\ Drive(drive) # NoDrive
    /\ drive' = drive + 1 /\ starved' = starved + 1
    /\ UNCHANGED <<mach, frames, devs, reg, mnt, ph>>

(* The entry that the innermost call looks at, and the device it would make.    *)
IsRaw == devs[Top.dev].kind = "raw"
Looked == IF IsRaw THEN Top.table[Top.i + 1] ELSE Top.table[1]

(* Mutant: a logical partition counted from the start of the extended one.      *)
EntryBaseMut == Looked.lba

EntryBase == IF IsRaw THEN Looked.lba ELSE (Top.off + Looked.lba) % W32
EntryName == MkName((IF IsRaw THEN devs[Top.dev] ELSE devs[devs[Top.dev].parent]).name
                        \o <<"p">>, Top.i)
Sub == Device(Module(Looked.type), Top.dev, devs[Top.dev].drive, EntryBase, Looked.size, EntryName)

Looking(kind) == ph = "drives" /\ frames # << >> /\ Top.todo /\ Module(Looked.type) = kind
Done == [Top EXCEPT !.todo = FALSE]

(* An entry no module is for.                                                   *)
NoModule ==
    /\ Looking("none")
    /\ frames' = Append(Below, Done)
    /\ UNCHANGED <<mach, drive, devs, reg, mnt, starved, ph>>

(* What the memory for a superblock may hold when nothing was read into it.      *)
Stale == {NoSuper} \cup {devs[v].super : v \in DOMAIN devs}

(* An ext2 partition: created, its superblock read (dm_ext2_init, whose result  *)
(* is 0 in every case) and registered.  When the read fails the superblock is   *)
(* whatever the memory held, at worst one read before.                          *)
Ext2Partition ==
    /\ Looking("ext2")
    /\ LET r == DmRead(Top.dev, EntryBase, KB, SUPER)
       IN  \E super \in IF r.cr = 0 THEN {Super(Sub.drive, r.at)} ELSE Stale :
              devs' = Append(devs, [Sub EXCEPT !.super = super, !.fs = (super # NoSuper)])
    /\ reg' = Append(reg, Len(devs) + 1)
    /\ frames' = Append(Below, Done)
    /\ UNCHANGED <<mach, drive, mnt, starved, ph>>

(* No memory for the superblock, or for the sector it is in: registered.        *)
StarvedExt2 ==
    /\ Looking("ext2") /\ starved < MaxStarved
    /\ \E super \in Stale : devs' = Append(devs, [Sub EXCEPT !.super = super, !.fs = (super # NoSuper)])
    /\ reg' = Append(reg, Len(devs) + 1)
    /\ frames' = Append(Below, Done)
    /\ starved' = starved + 1
    /\ UNCHANGED <<mach, drive, mnt, ph>>

(* No memory for the device, or for the table of an extended partition.         *)
StarvedPartition ==
    /\ \E kind \in {"ext2", "extp"} : Looking(kind)
    /\ starved < MaxStarved
    /\ frames' = Append(Below, Done)
    /\ starved' = starved + 1
    /\ UNCHANGED <<mach, drive, devs, reg, mnt, ph>>

(* A read of dm_extp_init at offset off of device v: the tables it may leave.   *)
(* A positive result leaves the one that was there.                             *)
Chain(r, k, old) ==
    IF r.cr = 0 THEN <<Part(k, r.at), Part(k, r.at + ENTRY)>> ELSE old

(* An extended partition: created, and dm_extp_init up to its first table.      *)
(* Where that cannot be read the memory holds nothing or the parent's entries.  *)
Extended ==
    /\ Looking("extp")
    /\ devs' = Append(devs, Sub)
    /\ LET v == Len(devs) + 1
           r == IF (TABLE + 2 * ENTRY) \div SECT >= Sub.count THEN Refused
                ELSE DmRead(Top.dev, Sub.base, TABLE, 2 * ENTRY)
       IN  IF r.cr < 0
           THEN /\ frames' = Append(Below, Done)
                /\ reg' = Append(reg, v)
           ELSE /\ \E junk \in {<<NoPart, NoPart>>, <<Top.table[1], Top.table[2]>>} :
                      frames' = Append(Append(Below, Done),
                                       Frame(v, 5, Chain(r, Sub.drive, junk)))
                /\ UNCHANGED reg
    /\ UNCHANGED <<mach, drive, mnt, starved, ph>>

(* The next entry of a drive's table, or the end of dm_raw_init.                *)
NextEntry ==
    /\ ph = "drives" /\ frames # << >> /\ ~ Top.todo /\ IsRaw
    /\ frames' = IF Top.i = 3 THEN Below
                 ELSE Append(Below, [Top EXCEPT !.i = @ + 1, !.todo = TRUE])
    /\ UNCHANGED <<mach, drive, devs, reg, mnt, starved, ph>>

(* The next table of a chain, which is linked from the one before; at its end   *)
(* the extended partition itself is registered.                                 *)
Link(f) == (f.off + f.table[2].lba) % W32

NextLink ==
    /\ ph = "drives" /\ frames # << >> /\ ~ Top.todo /\ ~ IsRaw
    /\ LET off == Link(Top)
           r   == DmRead(Top.dev, off, TABLE, 2 * ENTRY)
       IN  IF Top.table[2].lba = 0 \/ r.cr < 0
           THEN /\ frames' = Below
                /\ reg' = Append(reg, Top.dev)
           ELSE /\ frames' = Append(Below,
                      [Top EXCEPT !.i = @ + 1, !.off = off, !.todo = TRUE,
                                  !.table = Chain(r, devs[Top.dev].drive, @)])
                /\ UNCHANGED reg
    /\ UNCHANGED <<mach, drive, devs, mnt, starved, ph>>

(* No memory for the sector that the next table of a chain is in: the chain     *)
(* ends, and the extended partition is registered.                              *)
StarvedLink ==
    /\ ph = "drives" /\ frames # << >> /\ ~ IsRaw /\ starved < MaxStarved
    /\ ~ Top.todo /\ Top.table[2].lba # 0
    /\ frames' = Below /\ reg' = Append(reg, Top.dev)
    /\ starved' = starved + 1
    /\ UNCHANGED <<mach, drive, devs, mnt, ph>>

StarvedFirstLink ==
    /\ Looking("extp") /\ starved < MaxStarved
    /\ devs' = Append(devs, Sub) /\ reg' = Append(reg, Len(devs) + 1)
    /\ frames' = Append(Below, Done)
    /\ starved' = starved + 1
    /\ UNCHANGED <<mach, drive, mnt, ph>>

(* dm_mount_all: every registered device that is a file system.                 *)
Mountable == SelectSeq(reg, LAMBDA v : devs[v].fs)

MountAll ==
    /\ ph = "drives" /\ frames = << >> /\ drive = 4
    /\ mnt' = Mountable
    /\ ph' = "ready"
    /\ UNCHANGED <<mach, drive, frames, devs, reg, starved>>

DevNext ==
    \/ NextDrive \/ AbsentDrive \/ StarvedDrive
    \/ NoModule \/ Ext2Partition \/ StarvedExt2 \/ StarvedPartition \/ Extended
    \/ NextEntry \/ NextLink \/ StarvedLink \/ StarvedFirstLink \/ MountAll

--------------------------------------------------------------------------------
LOCAL Mounted == {mnt[j] : j \in DOMAIN mnt}

(* strncmp over the length of the element: any name it is a prefix of.          *)
Matching(elem) ==
    {j \in DOMAIN mnt : Len(elem) <= Len(devs[mnt[j]].name)
                          /\ SubSeq(devs[mnt[j]].name, 1, Len(elem)) = elem}
WithUuid(uuid) == {j \in DOMAIN mnt : devs[mnt[j]].super.uuid = uuid}

(* The first of a set of mounted devices, or 0.                                 *)
First(S) == IF S = {} THEN 0 ELSE mnt[CHOOSE j \in S : \A i \in S : j <= i]

FindByName(elem) == First(Matching(elem))
FindByUuid(uuid) == First(WithUuid(uuid))

--------------------------------------------------------------------------------
Sound == \A k \in 0 .. 3 : Drive(k) = NoDrive \/ Drive(k).bad = {}

(* The file systems mounted are, each of them once, exactly those in the        *)
(* partitions of a drive's own table and of the first two tables of a chain, an *)
(* extended partition within another included.  The third table of a chain is   *)
(* looked for in the wrong place (mod_extp.c:110): what it holds is not found,  *)
(* and nothing else is mounted for it as long as there is no table in that      *)
(* place.  All this while every sector can be read and memory is not short: an  *)
(* error leaves a table or a superblock that was read before in its place.      *)
MountedReal ==
    ph \notin {"drives"} /\ Sound /\ starved = 0 =>
        /\ {<<devs[v].drive, Start(v)>> : v \in Mounted}
              = UNION {{<<k, s>> : s \in Drive(k).fs \ Drive(k).third} : k \in {i \in 0 .. 3 : Drive(i) # NoDrive}}
        /\ \A i, j \in DOMAIN mnt : i # j => Start(mnt[i]) # Start(mnt[j])
                                              \/ devs[mnt[i]].drive # devs[mnt[j]].drive
================================================================================
