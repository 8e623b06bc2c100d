------------------------------- MODULE Ext2File -------------------------------
(***************************************************************************)
(* The blocks of one file that has no extents: ext2_balloc() and           *)
(* ext2_getlbns(), which find or make the place of a block, ext2_bmaparray *)
(* and ext2_blockmap(), which read it, ext2_truncate() and                 *)
(* ext2_indirtrunc(), which give blocks back, and their callers            *)
(* ext2_write() and ext2_meta_write().                                     *)
(*                                                                         *)
(* Pointers are in the inode and in indirect blocks, each in memory and on *)
(* the disk.  The file's data are left out; its size is counted in units,  *)
(* BSize to a block, so that it may end within a block.  Blocks are alike: *)
(* ext2_alloc() returns the first free one (Ext2Alloc is about which).     *)
(***************************************************************************)
EXTENDS Integers, FiniteSets, FiniteSetsExt, Sequences

CONSTANTS
  Threads,
  Blocks,          \* the blocks that the file may get
  NDADDR,          \* direct pointers in the inode
  NIADDR,          \* indirect pointers in the inode
  NINDIR,          \* pointers in an indirect block
  BSize,           \* units in a block
  MaxRun,          \* blocks that the device reads at once, less one
  MaxLbn,          \* bound: the blocks that a file may have
  Lengths,         \* where writes and truncations end
  MaxSpan,         \* bound: blocks of one write, less one
  MaxCalls,        \* bound: calls that are made
  MaxFaults        \* bound: reads and writes that fail

ASSUME FileAssumption ==
  /\ Blocks \subseteq Nat \ {0} /\ IsFiniteSet(Blocks)
  /\ NDADDR \in Nat \ {0} /\ NIADDR \in Nat \ {0} /\ NINDIR \in Nat \ {0, 1}
  /\ BSize \in Nat \ {0, 1} /\ MaxRun \in Nat /\ MaxLbn \in Nat \ {0}
  /\ Lengths \subseteq 0..(MaxLbn * BSize) /\ MaxSpan \in Nat
  /\ MaxCalls \in Nat /\ MaxFaults \in Nat

Pointer == Blocks \cup {0}
Offsets == 0..(NINDIR - 1)
Indirs  == [Offsets -> Pointer]
Zeroes  == [o \in Offsets |-> 0]
Garbage == <<>>                     \* what a block holds that is no indirect block

VARIABLES
  i_db, i_ib, i_size, i_blocks,     \* of the struct inode
  ind,       \* ind[b]: the indirect block b, as it is in the buffer cache
  dinode,    \* the pointers in the inode table
  dind,      \* dind[b]: the indirect block b on the disk
  free,      \* the blocks that are free
  call,      \* call[t]: the running call of a thread
  calls,     \* calls that were made
  faults,    \* reads and writes that failed
  exposed    \* history: the inode was written with pointers that ext2_truncate() had
             \* put back, or could not be written without them

core == <<i_db, i_ib, i_size, i_blocks, ind>>
vars == <<i_db, i_ib, i_size, i_blocks, ind, dinode, dind, free, call, calls, faults, exposed>>

(***************************************************************************)
(* ext2_getlbns and ext2_bmaparray.                                        *)
(***************************************************************************)

\* blockcnt: the data blocks below an indirect block of a level.
Count[k \in 0..NIADDR] == IF k = 0 THEN 1 ELSE Count[k - 1] * NINDIR

\* The first block of the file that is below the k-th indirect pointer.
Base[k \in 1..NIADDR] == IF k = 1 THEN NDADDR ELSE Base[k - 1] + Count[k - 1]

\* Every block has a place: the bound is not above the EFBIG of ext2_getlbns().
ASSUME CapacityAssumption == MaxLbn <= Base[NIADDR] + Count[NIADDR]

\* The number of levels; 0 for a direct block.
Levels(lbn) == IF lbn < NDADDR THEN 0
               ELSE CHOOSE k \in 1..NIADDR : lbn - Base[k] \in 0..(Count[k] - 1)

\* in_off of the i-th entry: the offset in the i-th indirect block of the path.
InOff(lbn, i) == ((lbn - Base[Levels(lbn)]) \div Count[Levels(lbn) - i]) % NINDIR

\* The block of the path at depth i: the last is the data block.
OnPath(lbn) ==
  LET Walk[i \in 0..Levels(lbn)] ==
        IF i = 0 THEN i_ib[Levels(lbn) - 1]
        ELSE IF Walk[i - 1] = 0 THEN 0 ELSE ind[Walk[i - 1]][InOff(lbn, i)]
  IN  Walk

Bmaparray(lbn) == IF Levels(lbn) = 0 THEN i_db[lbn] ELSE OnPath(lbn)[Levels(lbn)]

\* The array that the pointer of lbn is in, of the inode or the last indirect block of the
\* path, with its length and the place of lbn in it.
Array(lbn)  == IF Levels(lbn) = 0 THEN i_db ELSE ind[OnPath(lbn)[Levels(lbn) - 1]]
Length(lbn) == IF Levels(lbn) = 0 THEN NDADDR ELSE NINDIR
Place(lbn)  == IF Levels(lbn) = 0 THEN lbn ELSE InOff(lbn, Levels(lbn))

\* is_sequential() of two neighbours of the array.
Sequential(a, bn) == a[bn] = a[bn - 1] + 1

\* Mutation: blocks that follow are counted, in whatever order they lie.
RunAny(lbn) ==
  LET Loop[run \in 0..MaxRun] ==
        LET bn == Place(lbn) + 1 + run IN
        IF bn < Length(lbn) /\ run < MaxRun /\ Array(lbn)[bn] # 0 THEN Loop[run + 1] ELSE run
  IN  Loop[0]

\* The run of a block that is there: the loop over the array, up to what the device reads
\* at once.  (The loop the other way never runs: ext2_blockmap() asks for no run backwards.)
Run(lbn) ==
  LET Loop[run \in 0..MaxRun] ==
        LET bn == Place(lbn) + 1 + run IN
        IF bn < Length(lbn) /\ run < MaxRun /\ Sequential(Array(lbn), bn) THEN Loop[run + 1]
        ELSE run
  IN  Loop[0]

\* ext2_blockmap(): how far the answer for an offset of the file goes, in units.
Blockmap(off, want) ==
  LET lbn    == off \div BSize
      contig == (Run(lbn) + 1) * BSize - (off % BSize) IN
  IF Bmaparray(lbn) = 0 THEN 0 ELSE Max({0, Min({contig, want, i_size - off})})

(***************************************************************************)
(* The calls.                                                              *)
(***************************************************************************)

\* lbn, last: the block and the last block that a write needs; length: the end of the
\* write, or the new length; i, indirb: of the walk; level, oldb, osize, released: of
\* ext2_truncate().
Calls == [op : {"none", "write", "meta", "truncate"},
          pc : {"idle", "balloc", "dalloc", "ialloc", "walk", "size", "cluster",
                "zero", "update", "indir", "direct", "done", "torn", "panic"},
          lbn : 0..MaxLbn, last : 0..MaxLbn, length : 0..(MaxLbn * BSize),
          indirb : Pointer, i : 0..NIADDR, level : -1..(NIADDR - 1),
          olddb : [0..(NDADDR - 1) -> Pointer], oldib : [0..(NIADDR - 1) -> Pointer],
          osize : 0..(MaxLbn * BSize), released : Nat]

NoDb == [i \in 0..(NDADDR - 1) |-> 0]
NoIb == [i \in 0..(NIADDR - 1) |-> 0]
NoCall == [op |-> "none", pc |-> "idle", lbn |-> 0, last |-> 0, length |-> 0,
           indirb |-> 0, i |-> 0, level |-> -1, olddb |-> NoDb, oldib |-> NoIb,
           osize |-> 0, released |-> 0]

\* An empty file.
Init ==
  /\ i_db = NoDb /\ i_ib = NoIb /\ i_size = 0 /\ i_blocks = 0
  /\ ind = [b \in Blocks |-> Zeroes]
  /\ dinode = [db |-> NoDb, ib |-> NoIb]
  /\ dind = [b \in Blocks |-> Garbage]
  /\ free = Blocks
  /\ call = [t \in Threads |-> NoCall]
  /\ calls = 0 /\ faults = 0 /\ exposed = FALSE

Go(t, c)     == call' = [call EXCEPT ![t] = c]
Goto(t, p)   == Go(t, [call[t] EXCEPT !.pc = p])
Return(t)    == Go(t, NoCall)
Fault        == faults < MaxFaults /\ faults' = faults + 1
Dinode       == [db |-> i_db, ib |-> i_ib]
Panicked     == \E t \in Threads : call[t].pc = "panic"
\* ext2_indirtrunc() has freed blocks although it could not write an indirect block without the
\* pointers to them.
Torn         == \E t \in Threads : call[t].pc = "torn"

\* ext2_truncate() has written the inode and put the old pointers back.
Window == \E t \in Threads : call[t].op = "truncate" /\ call[t].pc \in {"indir", "direct"}

\* ext2_write() of a regular file; or of a directory or a symbolic link, which
\* ext2_meta_write() is for, and which is never more than a block.
Write(t) ==
  /\ call[t].pc = "idle"
  /\ \E lo \in 0..(MaxLbn - 1), length \in Lengths, op \in {"write", "meta"} :
       LET last == (length - 1) \div BSize IN
       /\ last - lo \in 0..(IF op = "meta" THEN 0 ELSE MaxSpan)
       /\ Go(t, [NoCall EXCEPT !.op = op, !.pc = "balloc", !.lbn = lo, !.last = last,
                               !.length = length,
                               !.osize = IF op = "write" THEN i_size ELSE 0])
  /\ UNCHANGED <<core, dinode, dind, free, faults, exposed>>

\* ext2_truncate(): the block that the new end is in is needed, whole or not, unless
\* the file gets shorter and the end is between blocks.
Truncate(t) ==
  /\ call[t].pc = "idle"
  /\ \E length \in Lengths :
       LET c == [NoCall EXCEPT !.op = "truncate", !.length = length, !.osize = i_size]
       IN
       \/ /\ length > i_size
          /\ Go(t, [c EXCEPT !.pc = "balloc", !.lbn = (length - 1) \div BSize,
                             !.last = (length - 1) \div BSize])
          /\ UNCHANGED i_size
       \/ /\ length < i_size /\ length % BSize # 0
          /\ Go(t, [c EXCEPT !.pc = "balloc", !.lbn = length \div BSize,
                             !.last = length \div BSize])
          /\ UNCHANGED i_size
       \/ /\ length < i_size /\ length % BSize = 0
          /\ i_size' = length
          /\ Go(t, [c EXCEPT !.pc = "zero"])
  /\ UNCHANGED <<i_db, i_ib, i_blocks, ind, dinode, dind, free, faults, exposed>>

(***************************************************************************)
(* ext2_balloc.                                                            *)
(***************************************************************************)

\* It has the block of call[t].lbn: on to the next, or back to the caller.
Got(c) == IF c.lbn < c.last /\ c.op = "write"
          THEN [c EXCEPT !.pc = "balloc", !.lbn = @ + 1, !.i = 0, !.indirb = 0]
          ELSE [c EXCEPT !.pc = "size", !.i = 0, !.indirb = 0]

\* fragroundup() of the part of the last block that is in the file, and of a block.
Osize == IF i_size % BSize = 0 THEN 0 ELSE BSize

\* A pointer of the inode is looked at.  An error of the read ends the call.
BallocLook(t) ==
  LET c  == call[t]
      k  == Levels(c.lbn)
      nb == IF k = 0 THEN i_db[c.lbn] ELSE i_ib[k - 1]
      whole == i_size >= (c.lbn + 1) * BSize IN
  /\ c.pc = "balloc"
  /\ \/ /\ k = 0 /\ nb # 0 /\ (whole \/ Osize = BSize)
        /\ \/ Go(t, Got(c)) /\ UNCHANGED faults
           \/ Return(t) /\ Fault
     \/ /\ k = 0 /\ nb # 0 /\ ~whole /\ Osize # BSize   \* "Something is terribly wrong"
        /\ Goto(t, "panic") /\ UNCHANGED faults
     \/ /\ k = 0 /\ nb = 0
        /\ Goto(t, "dalloc") /\ UNCHANGED faults
     \/ /\ k # 0 /\ nb = 0
        /\ Goto(t, "ialloc") /\ UNCHANGED faults
     \/ /\ k # 0 /\ nb # 0
        /\ Go(t, [c EXCEPT !.pc = "walk", !.i = 1, !.indirb = nb]) /\ UNCHANGED faults
  /\ UNCHANGED <<core, dinode, dind, free, exposed>>

\* ext2_alloc().  When there is no block the call ends.
Nospace(t) ==
  /\ free = {}
  /\ Return(t)
  /\ UNCHANGED <<core, dinode, dind, free, faults, exposed>>

\* What is done when the new block cannot be used: it is freed, and stays counted.
Undo(t) ==
  /\ free # {} /\ Fault
  /\ i_blocks' = i_blocks + 1
  /\ Return(t)
  /\ UNCHANGED <<i_db, i_ib, i_size, ind, dinode, dind, free, exposed>>

Take(b) == free' = free \ {b} /\ i_blocks' = i_blocks + 1
NewBlock == Min(free)

\* A direct block.
DirectAlloc(t) ==
  LET c == call[t] IN
  /\ c.pc = "dalloc"
  /\ \/ Nospace(t) \/ Undo(t)
     \/ /\ free # {} /\ Take(NewBlock)
        /\ i_db' = [i_db EXCEPT ![c.lbn] = NewBlock]
        /\ Go(t, Got(c))
        /\ UNCHANGED <<i_ib, i_size, ind, dinode, dind, faults, exposed>>

\* "Write synchronously so that indirect blocks never point at garbage."
Cleared(b) == dind' = [dind EXCEPT ![b] = Zeroes]

\* The first indirect block of the path.
IndirAlloc(t) ==
  LET c == call[t] IN
  /\ c.pc = "ialloc"
  /\ \/ Nospace(t) \/ Undo(t)
     \/ /\ free # {} /\ Take(NewBlock)
        /\ Cleared(NewBlock)
        /\ i_ib' = [i_ib EXCEPT ![Levels(c.lbn) - 1] = NewBlock]
        /\ ind' = [ind EXCEPT ![NewBlock] = Zeroes]
        /\ Go(t, [c EXCEPT !.pc = "walk", !.i = 1, !.indirb = NewBlock])
        /\ UNCHANGED <<i_db, i_size, dinode, faults, exposed>>

\* One level of the path, with its buffer in hand.
Walk(t) ==
  LET c   == call[t]
      off == InOff(c.lbn, c.i)
      nb  == ind[c.indirb][off]
      leaf == c.i = Levels(c.lbn) IN
  /\ c.pc = "walk"
  /\ \/ /\ Fault /\ Return(t)                                    \* bread
        /\ UNCHANGED <<core, dinode, dind, free, exposed>>
     \/ /\ nb # 0
        /\ Go(t, IF leaf THEN Got(c) ELSE [c EXCEPT !.i = @ + 1, !.indirb = nb])
        /\ UNCHANGED <<core, dinode, dind, free, faults, exposed>>
     \/ nb = 0 /\ Nospace(t)
     \/ nb = 0 /\ leaf /\ Undo(t)
     \/ /\ nb = 0 /\ ~leaf /\ free # {} /\ Fault                 \* a second unlock
        /\ Goto(t, "panic")
        /\ UNCHANGED <<core, dinode, dind, free, exposed>>
     \/ /\ nb = 0 /\ free # {} /\ Take(NewBlock)
        /\ \/ leaf /\ Go(t, Got(c)) /\ UNCHANGED dind
           \/ /\ ~leaf /\ Cleared(NewBlock)
              /\ Go(t, [c EXCEPT !.i = @ + 1, !.indirb = NewBlock])
        /\ ind' = [ind EXCEPT ![c.indirb][off] = NewBlock, ![NewBlock] = Zeroes]
        /\ UNCHANGED <<i_db, i_ib, i_size, dinode, faults, exposed>>

Balloc(t) == BallocLook(t) \/ DirectAlloc(t) \/ IndirAlloc(t) \/ Walk(t)

(***************************************************************************)
(* ext2_write and ext2_meta_write, with their blocks.                      *)
(***************************************************************************)

\* The file has its new size before the data are written.
WriteSize(t) ==
  LET c == call[t] IN
  /\ c.op = "write" /\ c.pc = "size"
  /\ i_size' = IF c.length > c.osize THEN c.length ELSE i_size
  /\ Goto(t, "cluster")
  /\ UNCHANGED <<i_db, i_ib, i_blocks, ind, dinode, dind, free, faults, exposed>>

\* cluster_write(); if it fails the size goes back and the blocks stay.
WriteCluster(t) ==
  LET c == call[t] IN
  /\ c.op = "write" /\ c.pc = "cluster"
  /\ Return(t)
  /\ \/ UNCHANGED <<i_size, faults>>
     \/ Fault /\ i_size' = IF c.length > c.osize THEN c.osize ELSE i_size
  /\ UNCHANGED <<i_db, i_ib, i_blocks, ind, dinode, dind, free, exposed>>

\* A block of a directory or of a long symbolic link; the size grows before the
\* block is written, and stays so if it cannot be.
MetaWrite(t) ==
  LET c == call[t] IN
  /\ c.op = "meta" /\ c.pc = "size"
  /\ i_size' = Max({i_size, c.length})
  /\ Return(t)
  /\ UNCHANGED <<i_db, i_ib, i_blocks, ind, dinode, dind, free, faults, exposed>>

(***************************************************************************)
(* ext2_truncate.                                                          *)
(***************************************************************************)

\* The file gets longer: its last block is there.
Lengthen(t) ==
  LET c == call[t] IN
  /\ c.op = "truncate" /\ c.pc = "size" /\ c.length > c.osize
  /\ i_size' = c.length
  /\ \/ dinode' = Dinode /\ exposed' = Window /\ UNCHANGED faults
     \/ Fault /\ UNCHANGED <<dinode, exposed>>
  /\ Return(t)
  /\ UNCHANGED <<i_db, i_ib, i_blocks, ind, dind, free>>

\* It gets shorter, and ends within a block.
ShortenSize(t) ==
  LET c == call[t] IN
  /\ c.op = "truncate" /\ c.pc = "size" /\ c.length < c.osize
  /\ i_size' = c.length
  /\ Goto(t, "zero")
  /\ UNCHANGED <<i_db, i_ib, i_blocks, ind, dinode, dind, free, faults, exposed>>

\* The last block that is kept, in the file and below the indirect pointer of a level.
Lastblock(length)         == (length + BSize - 1) \div BSize - 1
\* Mutation: the block that the file ends in is not counted as kept.
LastiblockLess(length, level) == Max({-1, Lastblock(length) - 1 - Base[level + 1]})
Lastiblock(length, level) == Max({-1, Lastblock(length) - Base[level + 1]})

\* The pointers are cleared.
TruncZero(t) ==
  LET c == call[t] IN
  /\ c.pc = "zero"
  /\ i_ib' = [l \in DOMAIN i_ib |-> IF Lastiblock(c.length, l) < 0 THEN 0 ELSE i_ib[l]]
  /\ i_db' = [l \in DOMAIN i_db |-> IF l > Lastblock(c.length) THEN 0 ELSE i_db[l]]
  /\ Go(t, [c EXCEPT !.pc = "update", !.olddb = i_db, !.oldib = i_ib])
  /\ UNCHANGED <<i_size, i_blocks, ind, dinode, dind, free, faults, exposed>>

\* Mutation: the inode is left to a delayed write.
TruncUpdateLater(t) ==
  LET c == call[t] IN
  /\ c.pc = "update"
  /\ i_db' = c.olddb /\ i_ib' = c.oldib /\ i_size' = c.osize
  /\ Go(t, [c EXCEPT !.pc = "indir", !.olddb = NoDb, !.oldib = NoIb, !.level = NIADDR - 1])
  /\ UNCHANGED <<i_blocks, ind, dind, free, dinode, exposed, faults>>

\* "Update file and block pointers on disk before we start freeing blocks", and put
\* them back in memory.
TruncUpdate(t) ==
  LET c == call[t] IN
  /\ c.pc = "update"
  /\ \/ dinode' = Dinode /\ exposed' = FALSE /\ UNCHANGED faults
     \/ Fault /\ exposed' = TRUE /\ UNCHANGED dinode
  /\ i_db' = c.olddb /\ i_ib' = c.oldib /\ i_size' = c.osize
  /\ Go(t, [c EXCEPT !.pc = "indir", !.olddb = NoDb, !.oldib = NoIb, !.level = NIADDR - 1])
  /\ UNCHANGED <<i_blocks, ind, dind, free>>

\* ext2_indirtrunc(): the indirect blocks from b down in which pointers are cleared, each
\* with the last offset that is kept; -1 if none is.  One that cannot be read (bad) is left
\* as it is, with all below it.
Indirtrunc(level, b, lastbn, bad) ==
  LET Cut[l \in 0..(NIADDR - 1)] ==
        [c \in Blocks |-> [n \in -1..MaxLbn |->
           LET last == IF n > 0 THEN n \div Count[l] ELSE n
               more == {o \in Offsets : l > 0 /\ o >= last /\ ind[c][o] # 0} IN
           IF c \in bad THEN {}
           ELSE {<<c, last>>} \cup
                UNION {Cut[l - 1][ind[c][o]][IF o = last THEN n % Count[l] ELSE -1] : o \in more}]]
  IN  Cut[level][b][lastbn]

\* Mutation: the last pointer that is kept is cleared too.
CutBlockLess(cut, content) == [o \in Offsets |-> IF o >= cut[2] THEN 0 ELSE content[o]]

\* A cut block keeps its first pointers; the blocks of the others are freed.
CutBlock(cut, content) == [o \in Offsets |-> IF o > cut[2] THEN 0 ELSE content[o]]
FreedBy(cuts) == (UNION {{ind[c[1]][o] : o \in {p \in Offsets : p > c[2]}} : c \in cuts}) \ {0}

\* The blocks F are freed.
Blkfree(t, F, c) ==
  /\ free' = free \cup F
  /\ Go(t, [c EXCEPT !.released = @ + Cardinality(F)])

\* A block that some pointers are kept in is written, and what they led to is freed whether or
\* not that succeeds (lost: where it does not).  The buffer of a failed write is not kept,
\* so that the block is then what it is on the disk.
Kept(cuts) == {u \in cuts : u[2] >= 0}
CutOrLost(b, cuts, lost) ==
  IF b \in lost THEN dind[b]
  ELSE IF \E u \in Kept(cuts) : u[1] = b
       THEN CutBlock(CHOOSE u \in Kept(cuts) : u[1] = b, ind[b])
  ELSE ind[b]

\* One indirect pointer of the inode, from the last to the first that is kept.  Of the
\* indirect blocks below it some may not be read and some not be written; such errors of one pass
\* count as one.  After a write that failed the blocks that are freed have pointers to
\* them on the disk, and the file is not followed further.
TruncIndir(t) ==
  LET c    == call[t]
      bn   == i_ib[c.level]
      last == Lastiblock(c.length, c.level)
      next == [c EXCEPT !.level = @ - 1,
                        !.pc = IF last >= 0 THEN "done"
                               ELSE IF c.level = 0 THEN "direct" ELSE "indir"] IN
  /\ c.pc = "indir"
  /\ \/ /\ bn = 0
        /\ Go(t, next)
        /\ UNCHANGED <<i_ib, ind, dind, free, faults>>
     \/ /\ bn # 0
        /\ \E bad \in SUBSET {u[1] : u \in Indirtrunc(c.level, bn, last, {})} :
             LET cuts == Indirtrunc(c.level, bn, last, bad)
                 F    == FreedBy(cuts) \cup (IF last < 0 THEN {bn} ELSE {}) IN
             \E lost \in SUBSET {u[1] : u \in Kept(cuts)} :
               /\ IF bad = {} /\ lost = {} THEN UNCHANGED faults ELSE Fault
               /\ ind' = [b \in Blocks |-> IF b \in F THEN Zeroes ELSE CutOrLost(b, cuts, lost)]
               /\ dind' = [b \in Blocks |->
                             IF b \in F THEN Garbage
                             ELSE IF \E u \in Kept(cuts) : u[1] = b
                                  THEN CutOrLost(b, cuts, lost)
                             ELSE dind[b]]
               /\ Blkfree(t, F, IF lost = {} THEN next ELSE [next EXCEPT !.pc = "torn"])
        /\ i_ib' = IF last < 0 THEN [i_ib EXCEPT ![c.level] = 0] ELSE i_ib
  /\ UNCHANGED <<i_db, i_size, i_blocks, dinode, exposed>>

\* The direct blocks.
TruncDirect(t) ==
  LET c == call[t]
      F == {i_db[l] : l \in {m \in DOMAIN i_db : m > Lastblock(c.length)}} \ {0} IN
  /\ c.pc = "direct"
  /\ i_db' = [l \in DOMAIN i_db |-> IF l > Lastblock(c.length) THEN 0 ELSE i_db[l]]
  /\ Blkfree(t, F, [c EXCEPT !.pc = "done"])
  /\ UNCHANGED <<i_ib, i_size, i_blocks, ind, dinode, dind, faults, exposed>>

\* "Put back the real size."
TruncDone(t) ==
  LET c == call[t] IN
  /\ c.pc = "done"
  /\ i_size' = c.length
  /\ i_blocks' = Max({0, i_blocks - c.released})
  /\ Return(t)
  /\ UNCHANGED <<i_db, i_ib, ind, dinode, dind, free, faults, exposed>>

Shorten(t) == \/ ShortenSize(t) \/ TruncZero(t) \/ TruncUpdate(t) \/ TruncIndir(t)
              \/ TruncDirect(t) \/ TruncDone(t)

(***************************************************************************)
(* ext2_sync(), ext2_fsync() and the buffer cache.                         *)
(***************************************************************************)

FlushInode ==
  /\ dinode # Dinode
  /\ dinode' = Dinode /\ exposed' = Window
  /\ UNCHANGED <<core, dind, free, call, faults>>

FlushBuf(b) ==
  /\ b \notin free /\ dind[b] \notin {Garbage, ind[b]}
  /\ dind' = [dind EXCEPT ![b] = ind[b]]
  /\ UNCHANGED <<core, dinode, free, call, faults, exposed>>

\* The machine has stopped, or made all its calls; or the file has pointers to free blocks.
Stopped == (Panicked \/ Torn \/ calls = MaxCalls) /\ UNCHANGED vars

Begin(t) == calls < MaxCalls /\ calls' = calls + 1 /\ (Write(t) \/ Truncate(t))

Next ==
  \/ /\ ~Panicked /\ ~Torn
     /\ \E t \in Threads : Begin(t)
  \/ /\ ~Panicked /\ ~Torn /\ UNCHANGED calls
     /\ \/ \E t \in Threads : \/ Balloc(t) \/ WriteSize(t) \/ WriteCluster(t)
                              \/ MetaWrite(t) \/ Lengthen(t) \/ Shorten(t)
        \/ FlushInode
        \/ \E b \in Blocks : FlushBuf(b)
  \/ Stopped

Spec == Init /\ [][Next]_vars

(***************************************************************************)
(* Properties.                                                             *)
(***************************************************************************)

\* The types of the pointers, the disk and the calls.
TypeOK ==
  /\ i_db \in [0..(NDADDR - 1) -> Pointer] /\ i_ib \in [0..(NIADDR - 1) -> Pointer]
  /\ i_size \in 0..(MaxLbn * BSize) /\ i_blocks \in Nat
  /\ ind \in [Blocks -> Indirs]
  /\ dinode \in [db : [0..(NDADDR - 1) -> Pointer], ib : [0..(NIADDR - 1) -> Pointer]]
  /\ dind \in [Blocks -> Indirs \cup {Garbage}]
  /\ free \subseteq Blocks
  /\ call \in [Threads -> Calls]
  /\ calls \in 0..MaxCalls /\ faults \in 0..MaxFaults /\ exposed \in BOOLEAN

\* All pointers from a level down: <<where, offset, block, level>>, level 0 being
\* data.  content[b] is an indirect block as it is read from memory or the disk.
Pointers(db, ib, content) ==
  LET top == {<<0, l, db[l], 0>> : l \in DOMAIN db}
               \cup {<<0, NDADDR + l, ib[l], l + 1>> : l \in DOMAIN ib}
      Live(S) == {p \in S : p[3] # 0}
      Down[k \in 0..NIADDR] ==
        IF k = 0 THEN Live(top)
        ELSE LET S == Down[k - 1] IN
             S \cup Live(UNION {{<<p[3], o, content[p[3]][o], p[4] - 1>> :
                                   o \in DOMAIN content[p[3]] \cap Offsets} :
                                 p \in {q \in S : q[4] > 0}})
  IN  Down[NIADDR]

Reached(P) == {p[3] : p \in P}
Idle       == \A t \in Threads : call[t].pc = "idle"

\* No block is free or has a second place while a pointer of the file leads to it;
\* and between calls, unless something failed, the file's blocks are those that it
\* holds and as many as it counts.  (ext2_truncate() frees blocks after it has put the
\* pointers to them back.)  Excepted is a truncation that could not write an indirect block.
Owned ==
  LET P == Pointers(i_db, i_ib, ind) IN
  /\ TypeOK
  /\ ~Window /\ ~Torn => Reached(P) \cap free = {} /\ Cardinality(P) = Cardinality(Reached(P))
  /\ Idle /\ faults = 0 => Reached(P) = Blocks \ free /\ i_blocks = Cardinality(P)

\* A machine that stops at any moment leaves an inode whose pointers lead to blocks
\* that are its own, and to no indirect block that was not written: indirect blocks
\* are written before, and freed after, the pointers to them.  Excepted is the inode
\* that was written in the window of ext2_truncate(), and a truncation that could not write
\* an indirect block.
DiskOwned ==
  ~exposed /\ ~Torn =>
    LET P == Pointers(dinode.db, dinode.ib, dind) IN
    /\ Reached(P) \cap free = {} /\ Cardinality(P) = Cardinality(Reached(P))
    /\ \A p \in P : p[4] > 0 => dind[p[3]] # Garbage

\* What ext2_blockmap() tells the cluster layer is so at any moment, also in the middle of a
\* write or a truncation: all blocks of the run that it counts in one array of pointers are
\* where the path of each leads, none of them is free, and none is beyond the end of the
\* file.
RunExact ==
  ~Torn => \A l \in 0..(MaxLbn - 1) :
    LET n == Blockmap(l * BSize, MaxLbn * BSize) IN
    /\ n > 0 => l * BSize + n <= i_size
    /\ \A k \in 0..(MaxLbn - 1 - l) :
         k * BSize < n => /\ Bmaparray(l + k) = Bmaparray(l) + k
                          /\ Bmaparray(l) + k \notin free

\* Whatever is cut off or put in at other places of the file, a block keeps its place
\* in it until a truncation to before that place, or one that loses an indirect block with its
\* buffer; and once a truncation is done, unless something failed, no place behind the end
\* has a block.
KeptMapping ==
  [][/\ \A l \in 0..(MaxLbn - 1) :
          Bmaparray(l) # 0 /\ Bmaparray(l)' # Bmaparray(l) /\ ~Torn' =>
            \E t \in Threads : call[t].op = "truncate" /\ l > Lastblock(call[t].length)
     /\ \A t \in Threads : TruncDone(t) /\ faults = 0 =>
          \A l \in (Lastblock(call[t].length) + 1)..(MaxLbn - 1) : Bmaparray(l) = 0]_vars
=============================================================================
