--------------------------------- MODULE Loader ---------------------------------
(* The loader from its disks to the kernel: devices are found and mounted, then *)
(* main (src/loader/main.c) opens the kernel's image, reads all of it and jumps *)
(* into it.  In some behaviours another client stands in for main, that calls   *)
(* the same functions in any order.                                             *)
EXTENDS Ext2

CONSTANTS
    Names,      (* File names to open, for each machine.                        *)
    Holds,      (* What they lead to: files by name, for each machine.          *)
    Sizes,      (* The client's arguments, and how often it calls.              *)
    Offsets,
    MaxCalls

(* A file: its drive, where the file system and where the inode begin on it,    *)
(* its size, the size of a block and the blocks that hold it.                   *)

VARIABLES
    role,     (* Who opens a file: main or any client.                          *)
    pc,       (* Where main is.                                                 *)
    calls     (* How often the client has called.                               *)

vars == <<devVars, ext2Vars, role, pc, calls>>

Init ==
    /\ DevInit /\ Ext2Init
    /\ role \in {"main", "client"} /\ pc = "open" /\ calls = 0

Starting == DevNext /\ UNCHANGED <<ext2Vars, role, pc, calls>>

NoDevices == UNCHANGED <<mach, drive, frames, devs, reg, mnt>>

Opening ==
    /\ \E name \in Names[mach] : (Open(name) /\ UNCHANGED starved) \/ StarvedOpen(name)
    /\ NoDevices /\ UNCHANGED <<role, pc, calls>>

Searching == WalkNext /\ NoDevices /\ UNCHANGED <<role, pc, calls>>

Main(at) == role = "main" /\ ph = "open" /\ pc = at
               /\ NoDevices /\ UNCHANGED <<role, calls>>

MainEnd == Main("open") /\ LSeek("end", 0) /\ UNCHANGED starved /\ pc' = "size" /\ UNCHANGED ph

Rewound == LSeek("set", 0)

MainSet == Main("size") /\ Rewound /\ UNCHANGED starved /\ pc' = "read" /\ UNCHANGED ph

(* The size asked for is the offset the end was at, and what was read must be   *)
(* as much.                                                                     *)
MainRead ==
    /\ Main("read")
    /\ Read(file.ino.size)
    /\ IF out'.st = "undefined" THEN ph' = "undefined" /\ UNCHANGED pc
       ELSE IF Total(out'.pieces) # file.ino.size THEN ph' = "failed" /\ UNCHANGED pc
       ELSE pc' = "close" /\ UNCHANGED ph

MainClose == Main("close") /\ Close /\ UNCHANGED starved /\ pc' = "jump" /\ ph' = "jump"

Client == role = "client" /\ ph = "open" /\ calls < MaxCalls
            /\ calls' = calls + 1 /\ NoDevices /\ UNCHANGED <<role, pc>>

ClientSeek ==
    /\ Client
    /\ \E whence \in {"set", "cur", "end"}, offset \in Offsets : LSeek(whence, offset)
    /\ UNCHANGED <<ph, starved>>

ClientRead ==
    /\ Client
    /\ \E size \in Sizes : Read(size)
    /\ ph' = IF out'.st = "undefined" THEN "undefined" ELSE ph

ClientClose == Client /\ Close /\ UNCHANGED starved /\ ph' = "closed"

Next ==
    \/ Starting
    \/ Opening \/ Searching
    \/ MainEnd \/ MainSet \/ MainRead \/ MainClose
    \/ ClientSeek \/ ClientRead \/ ClientClose

(* Nothing makes the loader wait while it looks for its devices.                *)
Spec == Init /\ [][Next]_vars /\ WF_vars(Starting)

--------------------------------------------------------------------------------
(* The file that the name asked for leads to, in the layout of the drives.      *)
Known == asked \in DOMAIN Holds[mach]
Meant == Holds[mach][asked]

(* What is opened is the file that the name leads to, through all the           *)
(* directories and symbolic links on the way, on the device that the name or    *)
(* the uuid in front tells; and it is opened unless the name leads nowhere, a   *)
(* sector or memory failed, or an answer was not the truth (dm_file_open,       *)
(* dm_ext2_find_file).                                                          *)
OpensRight ==
    /\ file # NoFile => /\ Known
                        /\ devs[file.v].drive = Meant.drive
                        /\ file.ino = At(Meant.drive, Meant.inode)
    /\ ph = "failed" /\ pc = "open" /\ Sound /\ starved = 0 /\ ~ stray => ~ Known

(* The address on the drive of byte n of the file.                              *)
ByteAt(n) == Meant.start + (Meant.blocks[n \div Meant.bs] * Meant.bs) + (n % Meant.bs)

(* Piece k of what was read, which starts at byte pos of the file.              *)
RightPiece(k, pos) ==
    LET p == out.pieces[k]
    IN  p[1] # -1 => /\ p[1] = ByteAt(pos)
                     /\ p[1] + p[2] - 1 = ByteAt(pos + p[2] - 1)
                     /\ pos \div Meant.bs = (pos + p[2] - 1) \div Meant.bs

(* The blocks of a file that Index finds in the right place: the direct ones,   *)
(* those behind a simple and a double indirect block, and the first behind a    *)
(* triple one.  The next is looked for in another entry of the middle level     *)
(* than it is in (mod_ext2.c:346).                                              *)
FoundBlocks == LET bs == Meant.bs \div WORD IN 12 + bs + bs * bs + 1
WellFound(n) == n < FoundBlocks * Meant.bs

(* As far as the file's blocks are found (FoundBlocks), and it has no holes:    *)
(* what a read leaves in the buffer are the bytes of the file from its offset   *)
(* on, whatever was read or sought before; and when every sector can be read    *)
(* they are all that were asked for and exist (dm_ext2_file_read,               *)
(* dm_ext2_inode_block_index).                                                  *)
ReadsRight ==
    out # NoOut =>
        /\ \A k \in DOMAIN out.pieces :
              LET pos == out.pos + Total(SubSeq(out.pieces, 1, k - 1))
              IN  WellFound(pos) => RightPiece(k, pos)
        /\ LET end == IF out.pos + out.want > Meant.size THEN Meant.size
                      ELSE out.pos + out.want
           IN  Sound /\ starved = 0 /\ WellFound(end - 1) =>
                    /\ out.st = "ok"
                    /\ \A k \in DOMAIN out.pieces : out.pieces[k][1] # -1
                    /\ Total(out.pieces) = IF out.pos > end THEN 0 ELSE end - out.pos

(* The loader jumps only when the whole of the kernel's image is in memory,     *)
(* every byte of it from the disk ("can't read kernel image file", main.c:59).  *)
JumpsWhole ==
    ph = "jump" => /\ Total(out.pieces) = Meant.size
                   /\ \A k \in DOMAIN out.pieces : out.pieces[k][1] # -1

(* The search for devices comes to an end on every machine, also when a chain   *)
(* of extended partitions links to itself (dm_doinit, dm_extp_init).            *)
Settles == <>(ph # "drives")

(* The search for a file comes nearer to its end with every step, also where    *)
(* symbolic links lead back to each other: one of the eight links is used up,   *)
(* or the rest of the same path gets shorter (dm_ext2_find_file).               *)
Nearer ==
    [][ph = "walk" /\ ph' = "walk" =>
          \/ walk.sc < walk'.sc /\ walk'.sc < 8
          \/ /\ walk'.sc = walk.sc
             /\ walk'.path.c = walk.path.c
             /\ walk'.path.s > walk.path.s]_vars
================================================================================
