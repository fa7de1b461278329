---------------------------------- MODULE Ext2 ----------------------------------
(* Opening and reading files of an ext2 file system                             *)
(* (src/loader/mod/mod_ext2.c), through dm_file_open of src/loader/krn/dm.c.    *)
(* Opening is a step for each element of the path.                              *)
(*                                                                              *)
(* A structure is read when what begins at the address read from is one of its  *)
(* kind; when it is not, or a BIOS error left the buffer as it was, what the    *)
(* code goes on with is anything, and the model ends in phase "undefined".      *)
EXTENDS Devices, Paths
LOCAL INSTANCE SequencesExt

CONSTANTS
    WORD,     (* sizeof(uint32_t), of a group descriptor and of an inode.       *)
    DESC,
    INODE,
    FAST,     (* Links shorter than that are kept in the inode, 60.             *)
    Cuts,     (* At which block of a read the memory may run out.                *)
    Uuids,    (* What uuid_parse accepts.                                       *)
    Strays    (* What dm_path_hasnext, called without an argument, may answer   *)
              (* besides the truth.                                             *)

VARIABLES
    asked,    (* The name given to dm_file_open.                                *)
    walk,     (* The search: device, path, inode, its number, links followed.   *)
    stray,    (* Whether undefined behaviour has answered anything but the      *)
              (* truth: beyond the end of a path or without an argument.        *)
    file,     (* The file open: device, inode, offset.                          *)
    out       (* The last read: from where, how much, and the pieces of the     *)
              (* drive that were put one after the other into the buffer.       *)

ext2Vars == <<asked, walk, stray, file, out>>

NoWalk == [v |-> 0]
NoFile == [v |-> 0]
NoOut  == [pos |-> 0, want |-> 0, pieces |-> << >>, st |-> "ok"]

Ok(x)     == [st |-> "ok", val |-> x]
Fails     == [st |-> "fails"]
Undefined == [st |-> "undefined"]

Blocksize(v) == KB * 2^devs[v].super.log

(* A structure of kind k where r was read.                                      *)
Seen(v, r, k) ==
    CASE r.cr < 0                                      -> Fails
      [] r.cr = 0 /\ At(devs[v].drive, r.at).is = k    -> Ok(At(devs[v].drive, r.at))
      [] OTHER                                         -> Undefined

(* A structure of kind k at an offset of a block.                               *)
Get(v, block, off, size, k) == Seen(v, DmRead(v, block, off, size), k)

NumberIn(r) == IF r.st = "ok" THEN Ok(r.val.n) ELSE r
NumberAt(v, r, n) ==
    IF r.st = "ok" THEN NumberIn(Get(v, r.val, n * WORD, WORD, "word")) ELSE r

(* The number found at the places ns, each in the block that the one before it  *)
(* leads to.                                                                    *)
Follows(v, block, ns) ==
    LET chase[j \in 0 .. Len(ns)] ==
            IF j = 0 THEN Ok(block) ELSE NumberAt(v, chase[j - 1], ns[j])
    IN  chase[Len(ns)]

(* dm_ext2_inode_block_index: the block that holds block b of the file, bs      *)
(* numbers to a block.  The middle level of three is reached by b % (bs * bs).  *)
(* Mutant: the simple indirect block is not counted off before the double one.  *)
IndexMut(v, ino, b, bs) ==
    CASE b < 12                    -> Ok(ino.block[b])
      [] b \in 12 .. 11 + bs       -> Follows(v, ino.block[12], <<b - 12>>)
      [] OTHER -> Follows(v, ino.block[13], <<(b - 12) \div bs, (b - 12) % bs>>)

Index(v, ino, b, bs) ==
    CASE b < 12                    -> Ok(ino.block[b])
      [] b \in 12 .. 11 + bs       -> Follows(v, ino.block[12], <<b - 12>>)
      [] b \in 12 + bs .. 11 + bs + bs * bs ->
            Follows(v, ino.block[13], <<(b - 12 - bs) \div bs, (b - 12 - bs) % bs>>)
      [] OTHER -> LET t == b - 12 - bs - bs * bs
                  IN  Follows(v, ino.block[14],
                              <<(t \div bs) \div bs, t % (bs * bs), t % bs>>)

BlockIndex(v, ino, b) == Index(v, ino, b, Blocksize(v) \div WORD)

(* The group of inode i, and where it is in the group's table.                  *)
Group(v, i)  == ((i - 1) % W32) \div devs[v].super.per
Member(v, i) == ((i - 1) % W32) % devs[v].super.per

Described(v, i) == Get(v, (KB \div Blocksize(v)) + 1, Group(v, i) * DESC, DESC, "desc")
InodeIn(v, i, d) ==
    IF d.st = "ok" THEN Get(v, d.val.table, Member(v, i) * INODE, INODE, "inode") ELSE d

(* dm_ext2_load_inode                                                           *)
LoadInode(v, i) == IF i > devs[v].super.inodes THEN Fails ELSE InodeIn(v, i, Described(v, i))

(* The entry called name among those of a block, which begins at byte a of      *)
(* drive k; one that was deleted has inode 0 and is found all the same.         *)
Scan(k, a, bsize, name) ==
    LET scan[j \in Nat] ==
            IF j >= bsize THEN [st |-> "none"]
            ELSE IF At(k, a + j).is # "dent" THEN Undefined
            ELSE IF At(k, a + j).name = name THEN Ok(At(k, a + j).inode)
            ELSE scan[j + At(k, a + j).length]
    IN  scan[0]

(* What a block of a directory, read with result r, says of name.               *)
ScanRead(v, r, name) ==
    CASE r.cr < 0 -> Fails
      [] r.cr = 0 -> Scan(devs[v].drive, r.at, r.got, name)
      [] OTHER    -> Undefined
ScanBlock(v, index, name) ==
    IF index.st = "ok" THEN ScanRead(v, DmRead(v, index.val, 0, Blocksize(v)), name) ELSE index

(* The first of some results that says anything.                                *)
FirstHit(results) ==
    LET hits == {k \in DOMAIN results : results[k].st # "none"}
    IN  IF hits = {} THEN Fails ELSE results[Least(hits)]

(* dm_ext2_dir_find up to the inode's number.  How many blocks there are is     *)
(* taken from i_blocks, which counts the indirect ones as well.                 *)
DirFind(v, name, ino) ==
    FirstHit([k \in 1 .. ino.blocks \div (2 * 2^devs[v].super.log) |->
                ScanBlock(v, BlockIndex(v, ino, k - 1), name)])

--------------------------------------------------------------------------------
Ext2Init == asked = << >> /\ walk = NoWalk /\ stray = FALSE /\ file = NoFile /\ out = NoOut

(* Character k of the element and what follows.                                 *)
LOCAL Char(q, k) == (q.c \o <<"?", "?", "?">>)[q.s + k + 1]

(* The device that the first element names: {uuid}, where the length and the    *)
(* brace must both be wrong for it to be refused, or a name.                    *)
Named(q) ==
    IF Char(q, 0) = "{"
    THEN IF (Size(q) # 3 /\ Char(q, 2) # "}") \/ Char(q, 1) \notin Uuids THEN 0
         ELSE FindByUuid(Char(q, 1))
    ELSE FindByName(Name(q))

(* dm_file_open up to the loop of dm_ext2_find_file.                            *)
Open(filename) ==
    /\ ph = "ready"
    /\ asked' = filename
    /\ IF filename[1] = "/" THEN ph' = "failed" /\ UNCHANGED <<walk, stray>>
       ELSE \E o1, o2 \in Overruns :
              LET q1 == Create(filename, o1)
                  q2 == NextElement(q1, o2)
                  v  == Named(q1)
                  r  == LoadInode(v, 2)
              IN  /\ stray' = (stray \/ q2 # NextElement(Create(filename, 0), 0))
                  /\ IF v = 0 \/ (v # 0 /\ r.st = "fails") THEN ph' = "failed" /\ UNCHANGED walk
                     ELSE IF r.st = "undefined" THEN ph' = "undefined" /\ UNCHANGED walk
                     ELSE /\ ph' = "walk"
                          /\ walk' = [v |-> v, path |-> q2, ino |-> r.val, at |-> 2, sc |-> 0]
    /\ UNCHANGED <<file, out>>

(* There is no memory for the path, which is used all the same, or for reading  *)
(* the root directory's inode.                                                  *)
StarvedOpen(filename) ==
    /\ ph = "ready" /\ filename[1] # "/" /\ starved < MaxStarved
    /\ asked' = filename /\ starved' = starved + 1
    /\ ph' \in {"failed", "undefined"}
    /\ UNCHANGED <<walk, stray, file, out>>

(* What looking up the next element gives: the number (n) and the inode (ino)   *)
(* it leads to.                                                                 *)
Number == DirFind(walk.v, Name(walk.path), walk.ino)
Found(n) == [n |-> n, ino |-> IF n.st = "ok" THEN LoadInode(walk.v, n.val) ELSE n]

Meets(r, modes) == r.ino.st = "ok" /\ r.ino.val.mode \in modes

Fail == ph' = "failed" /\ UNCHANGED <<asked, walk, stray, file, out>>

NotFound(r) == r.ino.st = "fails" /\ Fail
Special(r)  == Meets(r, {"special"}) /\ Fail
Lost(r)     == r.ino.st = "undefined" /\ ph' = "undefined"
                 /\ UNCHANGED <<asked, walk, stray, file, out>>

(* Mutant: the element just looked up is looked up again.                       *)
BeyondMut(over) == walk.path

(* Beyond the element just looked up, over being what lies behind the path.     *)
Beyond(over) == NextElement(walk.path, over)

(* The path behind a symbolic link: its target and what is left.                *)
(* Mutant: the link itself is not stepped over before the target is put there.  *)
FollowedMut(target, o1, o2) == Prepend(walk.path, target, o2)

Followed(target, o1, o2) == Prepend(Beyond(o1), target, o2)

(* A symbolic link, looked up from the directory it is in, even when absolute.  *)
Follow(r) ==
    /\ Meets(r, {"link"}) /\ walk.sc + 1 < 8 /\ r.ino.val.size < FAST
    /\ LET reloaded == LoadInode(walk.v, walk.at)
           target   == r.ino.val.target
       IN  /\ reloaded.st = "ok"
           /\ \E o1, o2 \in Overruns :
                 /\ walk' = [walk EXCEPT !.path = Followed(target, o1, o2), !.sc = @ + 1,
                                         !.ino = reloaded.val]
                 /\ stray' = (stray \/ Followed(target, o1, o2) # Followed(target, 0, 0))
    /\ UNCHANGED <<ph, asked, file, out>>

(* The eighth link, or one that is not in its inode.                            *)
Unfollowed(r) ==
    Meets(r, {"link"}) /\ (walk.sc + 1 >= 8 \/ r.ino.val.size >= FAST) /\ Fail

(* A directory.                                                                 *)
Enter(r) ==
    /\ Meets(r, {"dir"})
    /\ \E over \in Overruns :
          /\ walk' = [walk EXCEPT !.path = Beyond(over), !.ino = r.ino.val, !.at = r.n.val]
          /\ stray' = (stray \/ Beyond(over) # Beyond(0))
    /\ UNCHANGED <<ph, asked, file, out>>

(* A regular file, and whether more of the path is left: dm_path_hasnext is     *)
(* called without its argument.                                                 *)
Regular(r) ==
    /\ Meets(r, {"reg"})
    /\ \E over \in Overruns, more \in {HasNext(Beyond(0))} \cup Strays :
          /\ stray' = (stray \/ Beyond(over) # Beyond(0) \/ more # HasNext(Beyond(0)))
          /\ IF more THEN ph' = "failed" /\ UNCHANGED walk
             ELSE /\ walk' = [walk EXCEPT !.path = Beyond(over), !.ino = r.ino.val, !.at = r.n.val]
                  /\ UNCHANGED ph
    /\ UNCHANGED <<asked, file, out>>

(* The end of the path: dm_ext2_open returns the file.                          *)
Arrive ==
    /\ ph = "walk" /\ ~ HasNext(walk.path)
    /\ file' = [v |-> walk.v, ino |-> walk.ino, off |-> 0]
    /\ ph' = "open"
    /\ UNCHANGED <<asked, walk, stray, out>>

(* One iteration of the loop of dm_ext2_find_file.                              *)
LookUp ==
    /\ ph = "walk" /\ HasNext(walk.path)
    /\ \E n \in {Number} : \E r \in {Found(n)} :
          \/ NotFound(r) \/ Lost(r) \/ Special(r)
          \/ Follow(r) \/ Unfollowed(r) \/ Enter(r) \/ Regular(r)

(* No memory for a sector, for a block of a directory or for the file, or none  *)
(* for the path behind a symbolic link, which is used all the same.             *)
StarvedWalk ==
    /\ ph = "walk" /\ starved < MaxStarved
    /\ starved' = starved + 1
    /\ \/ ph' = "failed"
       \/ /\ HasNext(walk.path)
          /\ \E n \in {Number} : \E r \in {Found(n)} :
                /\ Meets(r, {"link"}) /\ walk.sc + 1 < 8 /\ r.ino.val.size < FAST
                /\ Moves(Beyond(0), r.ino.val.target)
          /\ ph' = "undefined"
    /\ UNCHANGED <<asked, walk, stray, file, out>>

WalkNext ==
    \/ (LookUp \/ Arrive) /\ UNCHANGED starved
    \/ StarvedWalk

--------------------------------------------------------------------------------
(* dm_ext2_file_llseek                                                          *)
Sought(whence, offset) ==
    CASE whence = "set" -> offset
      [] whence = "cur" -> file.off + offset
      [] whence = "end" -> file.ino.size + offset

LSeek(whence, offset) ==
    /\ file' = [file EXCEPT !.off = Sought(whence, offset)]
    /\ UNCHANGED <<asked, walk, stray, out>>

(* What a read puts into the buffer, where got bytes of count were read: the    *)
(* rest is what was there, written -1.  A positive result counts as success.    *)
Piece(a, n) == IF n > 0 THEN <<<<a, n>>>> ELSE << >>
Pieces(r, count) ==
    IF r.cr < 0 THEN Fails ELSE Ok(Piece(r.at, r.got) \o Piece(-1, count - r.got))
ReadBlock(v, index, off, count) ==
    IF index.st = "ok" THEN Pieces(DmRead(v, index.val, off, count), count) ELSE index

(* The loop of dm_ext2_file_read: the blocks that hold the bytes                *)
(* pos .. pos + size - 1.                                                       *)
ReadBlocks(v, ino, pos, size, bs) ==
    LET From(b) == IF b * bs < pos THEN pos - b * bs ELSE 0
        Upto(b) == IF (b + 1) * bs > pos + size THEN pos + size - b * bs ELSE bs
        first   == pos \div bs
        last    == IF size = 0 THEN first - 1 ELSE (pos + size - 1) \div bs
    IN  [k \in 1 .. last - first + 1 |->
            ReadBlock(v, BlockIndex(v, ino, first + k - 1),
                      From(first + k - 1), Upto(first + k - 1) - From(first + k - 1))]

(* The bytes asked for that the file has.                                       *)
Clipped(size) ==
    IF file.off > file.ino.size THEN 0
    ELSE IF file.off + size > file.ino.size THEN file.ino.size - file.off
    ELSE size

Total(pieces) == FoldSeq(LAMBDA p, n : p[2] + n, 0, pieces)

(* What remains of the steps of a read that ends at step end.                   *)
ReadTo(size, steps, end) ==
    \E pieces \in {FlattenSeq([k \in 1 .. end - 1 |-> steps[k].val])} :
        /\ out' = [pos |-> file.off, want |-> size, pieces |-> pieces,
                    st |-> IF end <= Len(steps) /\ steps[end] = Undefined
                           THEN "undefined" ELSE "ok"]
        /\ file' = [file EXCEPT !.off = @ + Total(pieces)]
        /\ UNCHANGED <<asked, walk, stray>>

(* dm_ext2_file_read: the blocks up to the first that cannot be read, or for    *)
(* one of whose sectors there is no memory.                                     *)
Read(size) ==
    \E steps \in {ReadBlocks(file.v, file.ino, file.off, Clipped(size), Blocksize(file.v))} :
    \E end \in {Least({k \in DOMAIN steps : steps[k].st # "ok"} \cup {Len(steps) + 1})} :
        \/ ReadTo(size, steps, end) /\ UNCHANGED starved
        \/ /\ starved < MaxStarved
           /\ starved' = starved + 1
           /\ \E cut \in Cuts : cut < end /\ ReadTo(size, [steps EXCEPT ![cut] = Fails], cut)

(* dm_ext2_file_close                                                           *)
Close == file' = NoFile /\ UNCHANGED <<asked, walk, stray, out>>
================================================================================
