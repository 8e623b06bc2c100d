------------------------------- MODULE Ext2Dir -------------------------------
(***************************************************************************)
(* One directory as it lies in its blocks, and the functions of            *)
(* kext/ext2_lookup.c that search and change it: ext2_lookup_ino(),        *)
(* ext2_direnter(), ext2_dirremove() and ext2_dirrewrite().                *)
(*                                                                         *)
(* A change takes two calls.  The lookup leaves in the directory's inode   *)
(* where it found the entry or room for one (i_offset, i_count, i_endoff); *)
(* the second call relies on it.  Nothing is locked in between.            *)
(*                                                                         *)
(* Space is counted in units: a short name takes one, a longer one two or  *)
(* more (EXT2_DIR_REC_LEN).  A unit holds the header of a record, current  *)
(* or left over, or the rest of a name.  A lookup is one step, and so is   *)
(* a change of a block, which is made with its buffer in hand.  The mount  *)
(* is read-write, so that ext2_dirbad() panics.                            *)
(***************************************************************************)
EXTENDS Integers, FiniteSets

CONSTANTS
  Threads,
  Names,       \* the names that are looked up
  Dot, DotDot, \* the two that every directory has
  Len,         \* Len[n]: EXT2_DIR_REC_LEN of the name
  Inos, NoIno, \* inode numbers, and 0
  BlkSize,     \* DIRBLKSIZ
  MaxBlocks,   \* bound: blocks of the directory
  MaxFaults,   \* bound: writes that fail
  Ops          \* the operations that the VFS layer calls

NoName   == "none"
AllNames == Names \cup {Dot, DotDot, NoName}
Offsets  == 0..(MaxBlocks * BlkSize - 1)
OpKinds  == {"lookup", "create", "remove", "rename", "move"}

ASSUME DirAssumption ==
  /\ BlkSize \in Nat /\ BlkSize > 2
  /\ MaxBlocks \in Nat \ {0} /\ MaxFaults \in Nat
  /\ Len \in [AllNames -> 1..BlkSize] /\ Len[Dot] = 1 /\ Len[DotDot] = 1
  /\ Cardinality({Dot, DotDot, NoName}) = 3 /\ {Dot, DotDot, NoName} \cap Names = {}
  /\ Inos # {} /\ NoIno \notin Inos
  /\ Ops \subseteq OpKinds

VARIABLES
  dir,       \* dir[o]: the unit at offset o
  size,      \* i_size
  i_offset, i_count, i_endoff, i_diroff,   \* of the directory's struct inode
  pc, loc,   \* of the threads
  faults,    \* writes that failed
  torn       \* history: blocks whose first write failed

hint == <<i_offset, i_count, i_endoff>>
vars == <<dir, size, i_offset, i_count, i_endoff, i_diroff, pc, loc, faults, torn>>

\* A directory entry; in units that are no header (zeroes, the rest of a name)
\* reclen is 0.
Entry == [ino : Inos \cup {NoIno}, reclen : 0..(2 * BlkSize), name : AllNames]
Zero  == [ino |-> NoIno, reclen |-> 0, name |-> NoName]

Blk(o)       == o \div BlkSize
BlkStart(o)  == (o \div BlkSize) * BlkSize
Roundup(o)   == ((o + BlkSize - 1) \div BlkSize) * BlkSize

\* op, name and ino: what was asked for; other: the other name of a rename within
\* the directory; nameiop: that of the lookup; offset and count: a copy of
\* what it left in the inode, which the code does not keep.
Locals == [op : OpKinds, name : Names, other : Names, ino : Inos,
           nameiop : {"LOOKUP", "CREATE", "DELETE", "RENAME"},
           offset : 0..(MaxBlocks * BlkSize), count : 0..BlkSize]

NoLocals == [op |-> "lookup", name |-> CHOOSE n \in Names : TRUE,
             other |-> CHOOSE n \in Names : TRUE,
             ino |-> CHOOSE i \in Inos : TRUE, nameiop |-> "LOOKUP", offset |-> 0, count |-> 0]

ChangePcs == {"direnter", "dirremove", "dirrewrite"}
Pcs       == {"idle", "lookup", "panic"} \cup ChangePcs

\* A directory that ext2_mkdir() has just made.
Init ==
  /\ dir = [o \in Offsets |->
              IF o = 0 THEN [ino |-> CHOOSE i \in Inos : TRUE, reclen |-> 1, name |-> Dot]
              ELSE IF o = 1 THEN [ino |-> CHOOSE i \in Inos : TRUE,
                                  reclen |-> BlkSize - 1, name |-> DotDot]
              ELSE Zero]
  /\ size = BlkSize
  /\ i_offset = 0 /\ i_count = 0 /\ i_endoff = 0 /\ i_diroff = 0
  /\ pc = [t \in Threads |-> "idle"]
  /\ loc = [t \in Threads |-> NoLocals]
  /\ faults = 0 /\ torn = {}

Goto(t, p)   == pc' = [pc EXCEPT ![t] = p]
SetLoc(t, l) == loc' = [loc EXCEPT ![t] = l]
Return(t)    == Goto(t, "idle") /\ SetLoc(t, NoLocals)
Panic(t)     == Goto(t, "panic") /\ SetLoc(t, NoLocals)

(***************************************************************************)
(* ext2_lookup_ino.                                                        *)
(***************************************************************************)

\* The variables of the search loop at its start.  A plain lookup goes on from
\* the block where the last one ended, and then from the beginning up to there.
StartSearch(nameiop) ==
  LET cached == nameiop = "LOOKUP" /\ i_diroff # 0 /\ i_diroff <= size
      first  == IF cached THEN i_diroff ELSE 0 IN
  [off |-> first, prev |-> first, end |-> Roundup(size), useful |-> 0,
   passes |-> IF cached THEN 2 ELSE 1, diroff |-> i_diroff,
   status |-> IF nameiop \in {"CREATE", "RENAME"} THEN "NONE" ELSE "FOUND",
   slotoff |-> -1, slotsize |-> 0, slotfree |-> 0, stop |-> "no"]

\* slotfree and slotoff are about one block.
SlotBlock(s) == IF s.status = "NONE" /\ s.off = BlkStart(s.off)
                THEN [s EXCEPT !.slotoff = -1, !.slotfree = 0] ELSE s

\* Mutation: the name that is in the record is not subtracted.
SlotWhole(s, e, need) ==
  IF s.status = "FOUND" \/ e.reclen < need THEN s
  ELSE [s EXCEPT !.status = "FOUND", !.slotoff = s.off, !.slotsize = e.reclen]

\* Room for need units: in the record e alone, or in all so far of the block.
Slot(s, e, need) ==
  LET room == e.reclen - (IF e.ino # NoIno THEN Len[e.name] ELSE 0)
      free == s.slotfree + room
      at   == IF s.slotoff = -1 THEN s.off ELSE s.slotoff
  IN  IF s.status = "FOUND" \/ room <= 0 THEN s
      ELSE IF room >= need
           THEN [s EXCEPT !.status = "FOUND", !.slotoff = s.off, !.slotsize = e.reclen]
      ELSE IF s.status = "COMPACT" THEN s
      ELSE [s EXCEPT !.slotfree = free, !.slotoff = at,
                     !.status = IF free >= need THEN "COMPACT" ELSE "NONE",
                     !.slotsize = IF free >= need THEN s.off + e.reclen - at ELSE @]

\* The record after e.
Advance(s, e) == [s EXCEPT !.prev = s.off, !.off = s.off + e.reclen,
                           !.useful = IF e.ino # NoIno THEN s.off + e.reclen ELSE @]

\* Mutation: one pass, wherever it began.
SecondPassNone(s) == [s EXCEPT !.stop = "notfound"]

\* The end of a pass.
SecondPass(s) == IF s.passes = 2
                 THEN [s EXCEPT !.passes = 1, !.off = 0, !.end = s.diroff]
                 ELSE [s EXCEPT !.stop = "notfound"]

\* The loop, with a bound on its turns that is never reached: two passes, and a
\* turn for each end.
Searched(name, nameiop) ==
  LET Turn(s) ==
        LET b == SlotBlock(s)
            e == dir[s.off]
            f == Slot(b, e, Len[name])
        IN  IF e.reclen = 0 THEN [b EXCEPT !.stop = "dirbad"]
            ELSE IF e.ino # NoIno /\ e.name = name THEN [f EXCEPT !.stop = "found"]
            ELSE Advance(f, e)
      Turns[k \in 0..(2 * MaxBlocks * BlkSize + 2)] ==
        IF k = 0 THEN StartSearch(nameiop)
        ELSE LET s == Turns[k - 1] IN
             IF s.stop # "no" THEN s ELSE IF s.off < s.end THEN Turn(s) ELSE SecondPass(s)
  IN  Turns[2 * MaxBlocks * BlkSize + 2]

\* ext2_readdir() from an offset on, into a buffer with room for so many units: the
\* records it lists, and where the next call is to go on.  Whatever the offset, it reads
\* from the start of the block.
Readdir(start, room) ==
  LET Turn(s) ==
        LET e == dir[s.off] IN
        IF e.reclen < Len[e.name] \/ Blk(s.off + e.reclen - 1) # Blk(s.off)
        THEN [s EXCEPT !.stop = "EIO"]
        ELSE IF s.off < start \/ e.ino = NoIno THEN [s EXCEPT !.off = @ + e.reclen]
        ELSE IF Len[e.name] > s.room
             THEN [s EXCEPT !.stop = IF s.room = room THEN "EINVAL" ELSE "full"]
        ELSE [s EXCEPT !.off = @ + e.reclen, !.room = @ - Len[e.name], !.list = @ \cup {s.off}]
      Turns[k \in 0..(MaxBlocks * BlkSize)] ==
        IF k = 0 THEN [off |-> BlkStart(start), room |-> room, list |-> {}, stop |-> "no"]
        ELSE LET s == Turns[k - 1] IN
             IF s.stop = "no" /\ s.off < size /\ s.room > 0 THEN Turn(s) ELSE s
  IN  Turns[MaxBlocks * BlkSize]

\* What the VFS layer looks a name up for.
NameiopOf(op) == CASE op = "lookup" -> "LOOKUP"
                   [] op = "create" -> "CREATE"
                   [] op = "remove" -> "DELETE"
                   [] op = "rename" -> "RENAME"
                   [] op = "move"   -> "DELETE"

\* A call of the VFS layer.  "create" is ext2_create(), ext2_mkdir(), ext2_link()
\* and ext2_symlink(), "remove" ext2_remove(), ext2_rmdir() and the old name of an
\* ext2_rename() to another directory, "rename" its new name, and "move"
\* ext2_rename() to another name of the same directory.
Begin(t) ==
  /\ pc[t] = "idle"
  /\ \A u \in Threads : pc[u] # "panic"
  /\ \E op \in Ops, name, other \in Names, ino \in Inos :
       /\ op \notin {"create", "rename"} => ino = NoLocals.ino
       /\ IF op = "move" THEN other # name ELSE other = NoLocals.other
       /\ SetLoc(t, [NoLocals EXCEPT !.op = op, !.name = name, !.other = other,
                                     !.ino = ino, !.nameiop = NameiopOf(op)])
  /\ Goto(t, "lookup")
  /\ UNCHANGED <<dir, size, hint, i_diroff, faults, torn>>

\* On to the call that follows the lookup.
Proceed(t, p) ==
  /\ Goto(t, p)
  /\ SetLoc(t, [loc[t] EXCEPT !.offset = i_offset', !.count = i_count'])

\* A rename within the directory turns to its other name.
Swap(l) == [l EXCEPT !.name = l.other, !.other = l.name]

\* The old name of such a rename was found, and the new one is looked up.
LookupTarget(t, ino) ==
  /\ Goto(t, "lookup")
  /\ SetLoc(t, [Swap(loc[t]) EXCEPT !.ino = ino, !.nameiop = "RENAME"])

\* Mutation: the first entry of a block goes to the record before it, too.
FoundNoBlock(t, s) ==
  /\ s.stop = "found" /\ loc[t].nameiop = "DELETE"
  /\ i_offset' = s.off /\ i_count' = s.off - s.prev
  /\ Proceed(t, "dirremove")
  /\ UNCHANGED <<i_endoff, i_diroff>>

\* The entry is there, at s.off.  To create it is then an error, and so is to
\* rename a file to itself.  (The report "i_size too small" is left out: it compares the
\* offset in the block with the size, which is a block at least.)
Found(t, s) ==
  LET l   == loc[t]
      ino == dir[s.off].ino IN
  /\ s.stop = "found"
  /\ \/ /\ l.nameiop = "LOOKUP"
        /\ i_diroff' = BlkStart(s.off)
        /\ Return(t)
        /\ UNCHANGED hint
     \/ /\ l.nameiop = "CREATE"
        /\ Return(t)
        /\ UNCHANGED <<hint, i_diroff>>
     \/ /\ l.nameiop = "DELETE"
        /\ i_offset' = s.off
        /\ i_count' = IF s.off = BlkStart(s.off) THEN 0 ELSE s.off - s.prev
        /\ IF l.op = "move" THEN LookupTarget(t, ino) ELSE Proceed(t, "dirremove")
        /\ UNCHANGED <<i_endoff, i_diroff>>
     \/ /\ l.nameiop = "RENAME"
        /\ i_offset' = s.off
        /\ UNCHANGED <<i_count, i_endoff, i_diroff>>
        /\ IF ino = l.ino THEN Return(t) ELSE Proceed(t, "dirrewrite")

\* The entry is not there; a new one goes where there is room.
NotFound(t, s) ==
  LET fresh  == Roundup(size)
      slotend == s.slotoff + s.slotsize
      useful == IF s.useful < slotend THEN slotend ELSE s.useful IN
  /\ s.stop = "notfound"
  /\ \/ /\ loc[t].nameiop \in {"CREATE", "RENAME"}
        /\ i_offset' = IF s.status = "NONE" THEN fresh ELSE s.slotoff
        /\ i_count' = IF s.status = "NONE" THEN 0 ELSE s.slotsize
        /\ i_endoff' = IF s.status = "NONE" THEN fresh ELSE Roundup(useful)
        /\ Proceed(t, "direnter")
     \/ /\ loc[t].nameiop \notin {"CREATE", "RENAME"}
        /\ Return(t)
        /\ UNCHANGED hint
  /\ UNCHANGED i_diroff

\* ext2_dirbad() on a record without length.
Dirbad(t, s) == /\ s.stop = "dirbad"
                /\ Panic(t)
                /\ UNCHANGED <<hint, i_diroff>>

\* A block of the directory, or the inode that was found, may not be readable.  (What
\* is in hint then is not used.)  The directory itself is not removed meanwhile.
Lookup(t) ==
  LET s == Searched(loc[t].name, loc[t].nameiop) IN
  /\ pc[t] = "lookup"
  /\ \/ (Found(t, s) \/ NotFound(t, s) \/ Dirbad(t, s)) /\ UNCHANGED faults
     \/ /\ faults < MaxFaults /\ faults' = faults + 1
        /\ Return(t)
        /\ UNCHANGED <<hint, i_diroff>>
  /\ UNCHANGED <<dir, size, torn>>

(***************************************************************************)
(* ext2_direnter, ext2_dirremove and ext2_dirrewrite.                      *)
(***************************************************************************)

\* After the change: a rename within the directory has its old name to remove.
Then(t) ==
  IF loc[t].op = "move" /\ pc[t] # "dirremove"
  THEN Goto(t, "dirremove") /\ SetLoc(t, Swap(loc[t]))
  ELSE Return(t)

\* A block is written, or that fails and its buffer is dropped with the change;
\* ext2_blkatoff() may fail as well.
Write(t, d) ==
  \/ dir' = d /\ Then(t) /\ UNCHANGED faults
  \/ /\ faults < MaxFaults /\ faults' = faults + 1
     /\ Return(t)
     /\ UNCHANGED dir

NewEntry(l, reclen) == [ino |-> l.ino, reclen |-> reclen, name |-> l.name]

\* d with n units copied from one offset to another.
Copy(d, from, to, n) ==
  [o \in Offsets |-> IF o \in to..(to + n - 1) THEN d[from + o - to] ELSE d[o]]

\* d with an entry written at offset o, the rest of its name behind it.
Put(d, o, e) ==
  [p \in Offsets |-> IF p = o THEN e
                     ELSE IF p \in (o + 1)..(o + Len[e.name] - 1) THEN Zero ELSE d[p]]

\* No room was found: the entry opens a new block at i_offset.  If ext2_balloc()
\* fails nothing changes; if the write does, i_size has grown and the block holds
\* what was on the disk, taken to be zeroes.  (The panic "frag size" is left out: DIRBLKSIZ
\* is the block size of the mount.)
EnterNewBlock(t) ==
  LET l == loc[t]
      grown == IF i_offset + Len[l.name] > size THEN i_offset + Len[l.name] ELSE size IN
  /\ pc[t] = "direnter" /\ i_count = 0
  /\ \/ /\ i_offset % BlkSize # 0                          \* "newblk"
        /\ Panic(t)
        /\ UNCHANGED <<dir, size, faults, torn>>
     \/ /\ i_offset % BlkSize = 0 /\ i_offset \in Offsets
        /\ \/ /\ dir' = Put(dir, i_offset, NewEntry(l, BlkSize))
              /\ size' = Roundup(grown)
              /\ Then(t)
              /\ UNCHANGED <<faults, torn>>
           \/ /\ faults < MaxFaults /\ faults' = faults + 1
              /\ size' = grown
              /\ torn' = torn \cup {Blk(i_offset)}
              /\ Return(t)
              /\ UNCHANGED dir
     \/ /\ i_offset % BlkSize = 0
        /\ Return(t)
        /\ UNCHANGED <<dir, size, faults, torn>>
  /\ UNCHANGED <<hint, i_diroff>>

\* Mutation: the header of an unused entry is not counted as free.
CompactionShort ==
  LET First == [d |-> dir, ep |-> i_offset, dsize |-> Len[dir[i_offset].name],
                spacefree |-> dir[i_offset].reclen - Len[dir[i_offset].name],
                loc |-> dir[i_offset].reclen]
      Turn(s) ==
        LET live  == s.d[s.ep].ino # NoIno
            nep   == s.d[i_offset + s.loc]
            d1    == IF live THEN [s.d EXCEPT ![s.ep].reclen = s.dsize] ELSE s.d
            ep1   == IF live THEN s.ep + s.dsize ELSE s.ep
            dsize == Len[nep.name]
        IN  [d |-> Copy(d1, i_offset + s.loc, ep1, dsize), ep |-> ep1, dsize |-> dsize,
             spacefree |-> s.spacefree + nep.reclen - dsize,
             loc |-> s.loc + nep.reclen]
      Turns[k \in 0..BlkSize] ==
        IF k = 0 THEN First
        ELSE LET s == Turns[k - 1] IN
             IF s.loc < i_count /\ i_offset + s.loc \in Offsets THEN Turn(s) ELSE s
  IN  Turns[BlkSize]

\* The entries from i_offset on are moved together, one turn of the loop a step of
\* this recursion: ep is the entry written last, at the turn's end a copy of the
\* one at loc.
Compaction ==
  LET First == [d |-> dir, ep |-> i_offset, dsize |-> Len[dir[i_offset].name],
                spacefree |-> dir[i_offset].reclen - Len[dir[i_offset].name],
                loc |-> dir[i_offset].reclen]
      Turn(s) ==
        LET live  == s.d[s.ep].ino # NoIno
            nep   == s.d[i_offset + s.loc]
            d1    == IF live THEN [s.d EXCEPT ![s.ep].reclen = s.dsize] ELSE s.d
            ep1   == IF live THEN s.ep + s.dsize ELSE s.ep
            dsize == Len[nep.name]
        IN  [d |-> Copy(d1, i_offset + s.loc, ep1, dsize), ep |-> ep1, dsize |-> dsize,
             spacefree |-> s.spacefree + (IF live THEN 0 ELSE s.dsize)
                             + nep.reclen - dsize,
             loc |-> s.loc + nep.reclen]
      Turns[k \in 0..BlkSize] ==
        IF k = 0 THEN First
        ELSE LET s == Turns[k - 1] IN
             IF s.loc < i_count /\ i_offset + s.loc \in Offsets THEN Turn(s) ELSE s
  IN  Turns[BlkSize]

\* ext2_truncate() gives the blocks behind the last entry back, and has done so when
\* it fails to write the inode.
EnterTruncate(t, new) ==
  /\ dir' = [o \in Offsets |-> IF o < i_endoff THEN new[o] ELSE Zero]
  /\ size' = i_endoff
  /\ \/ Then(t) /\ UNCHANGED faults
     \/ Return(t) /\ faults < MaxFaults /\ faults' = faults + 1

\* The new entry takes the free space at the end.
EnterSlot(t) ==
  LET l    == loc[t]
      s    == Compaction
      live == s.d[s.ep].ino # NoIno
      room == IF live THEN s.spacefree ELSE s.spacefree + s.dsize
      at   == IF live THEN s.ep + s.dsize ELSE s.ep
      d1   == IF live THEN [s.d EXCEPT ![s.ep].reclen = s.dsize] ELSE s.d
      new  == Put(d1, at, NewEntry(l, room))
      big  == IF i_offset + i_count > size THEN i_offset + i_count ELSE size IN
  /\ pc[t] = "direnter" /\ i_count # 0
  /\ \/ /\ room < Len[l.name]                               \* "compact1", "compact2"
        /\ Panic(t)
        /\ UNCHANGED <<dir, faults>>
        /\ size' = big
     \/ /\ room >= Len[l.name] /\ ~(i_endoff # 0 /\ i_endoff < big)
        /\ size' = big
        /\ Write(t, new)
     \/ /\ room >= Len[l.name] /\ i_endoff # 0 /\ i_endoff < big
        /\ \/ EnterTruncate(t, new)
           \/ /\ faults < MaxFaults /\ faults' = faults + 1   \* the write failed
              /\ size' = big
              /\ Return(t)
              /\ UNCHANGED dir
  /\ UNCHANGED <<hint, i_diroff, torn>>

\* The first entry of a block loses its inode; another one goes to the record
\* before it.
Dirremove(t) ==
  LET ep  == i_offset - i_count
      rep == ep + dir[ep].reclen IN
  /\ pc[t] = "dirremove"
  /\ \/ i_count = 0 /\ Write(t, [dir EXCEPT ![i_offset].ino = NoIno])
     \/ /\ i_count # 0 /\ ep >= 0 /\ Blk(rep) = Blk(ep)
        /\ Write(t, [dir EXCEPT ![ep].reclen = @ + dir[rep].reclen])
     \/ /\ i_count # 0 /\ ep >= 0 /\ Blk(rep) # Blk(ep)      \* behind the buffer
        /\ \E reclen \in 0..BlkSize : Write(t, [dir EXCEPT ![ep].reclen = @ + reclen])
     \/ /\ i_count # 0 /\ ep < 0                             \* no such block
        /\ Return(t)
        /\ UNCHANGED <<dir, faults>>
  /\ UNCHANGED <<size, hint, i_diroff, torn>>

Dirrewrite(t) ==
  /\ pc[t] = "dirrewrite"
  /\ Write(t, [dir EXCEPT ![i_offset].ino = loc[t].ino])
  /\ UNCHANGED <<size, hint, i_diroff, torn>>

Change(t) == EnterNewBlock(t) \/ EnterSlot(t) \/ Dirremove(t) \/ Dirrewrite(t)

Next == \E t \in Threads : Begin(t) \/ Lookup(t) \/ Change(t)

Spec == Init /\ [][Next]_vars

(***************************************************************************)
(* Properties.                                                             *)
(***************************************************************************)

\* The types of the directory and of the hints in its inode: no offset that a
\* lookup leaves there lies outside the directory.
TypeOK ==
  /\ dir \in [Offsets -> Entry]
  /\ size \in 0..(MaxBlocks * BlkSize)
  /\ i_offset \in 0..(MaxBlocks * BlkSize) /\ i_count \in 0..BlkSize
  /\ i_endoff \in 0..(MaxBlocks * BlkSize) /\ i_diroff \in Offsets
  /\ pc \in [Threads -> Pcs]
  /\ loc \in [Threads -> Locals]
  /\ faults \in 0..MaxFaults
  /\ torn \subseteq 0..(MaxBlocks - 1)

\* The offsets at which a search finds a record: from the start of each block on,
\* one record after the other.
Starts ==
  LET Live == {o \in Offsets : o < size}
      Reach[k \in 0..BlkSize] ==
        IF k = 0 THEN {o \in Live : o % BlkSize = 0}
        ELSE LET S == Reach[k - 1] IN
             S \cup ({o + dir[o].reclen : o \in S} \cap Live)
  IN  Reach[BlkSize]

\* The records of a block tile it, whatever was entered, compacted, removed and cut
\* off: each has room for its name and none reaches into the next block, so that
\* the check of ext2_dirbadentry(), which is compiled out, would pass.
Tiles ==
  /\ \A o \in Starts : Blk(o) \notin torn =>
       /\ dir[o].reclen >= Len[dir[o].name]
       /\ Blk(o + dir[o].reclen - 1) = Blk(o)
  /\ torn = {} => size % BlkSize = 0

\* The records of a name, and what the directory says it refers to.
Records(n) == {o \in Starts : dir[o].ino # NoIno /\ dir[o].name = n}
Entries ==
  LET live == {o \in Starts : dir[o].ino # NoIno} IN
  [n \in Names |-> IF \E o \in live : dir[o].name = n
                   THEN dir[CHOOSE o \in live : dir[o].name = n].ino ELSE NoIno]

\* A name is there once at most, whatever a search that began in the middle, a
\* compaction or a truncation did to its record.
OneRecord ==
  LET live == {o \in Starts : dir[o].ino # NoIno} IN
  \A o, p \in live : dir[o].name = dir[p].name => o = p

\* The directory stays well formed through any sequence of calls: types and hints in
\* range, blocks tiled by their records, a name there once.
WellFormed == TypeOK /\ Tiles /\ OneRecord

\* The right name: what ext2_direnter() enters, ext2_dirremove() removes and
\* ext2_dirrewrite() redirects is the name that the call was made for.
RightName ==
  [][\A t \in Threads :
       pc[t] \in ChangePcs /\ pc'[t] # pc[t] /\ dir' # dir =>
         Entries' = [Entries EXCEPT ![loc[t].name] =
                       IF pc[t] = "dirremove" THEN NoIno ELSE loc[t].ino]]_vars

\* A listing that goes on at any offset, one that compaction has put into the middle of
\* a record included, has the entries from there to its end, and gets on.
ListExact ==
  torn = {} => \A start \in 0..(size - 1), room \in {BlkSize \div 2, BlkSize} :
    LET r == Readdir(start, room) IN
    /\ r.stop # "EIO"
    /\ r.stop = "EINVAL" => room < BlkSize
    /\ r.stop # "EINVAL" => r.off > start
    /\ r.list = {o \in Starts : dir[o].ino # NoIno /\ o \in start..(r.off - 1)}

\* A search misses nothing and finds nothing that is not there, wherever the last
\* one left i_diroff and whatever was cut off behind it since; nor does a listing.
SearchExact ==
  /\ (\A t \in Threads : pc[t] = "idle") => ListExact
  /\ \A t \in Threads : pc[t] = "lookup" =>
       LET s == Searched(loc[t].name, loc[t].nameiop) IN
       /\ s.stop = "found" => s.off \in Records(loc[t].name)
       /\ s.stop = "notfound" => Records(loc[t].name) = {}

\* None of the panics of ext2_dirbad() and ext2_direnter() is reached, but on a
\* block whose first write failed.
NoPanic == torn = {} => \A t \in Threads : pc[t] # "panic"
=============================================================================
