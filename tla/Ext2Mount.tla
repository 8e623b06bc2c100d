------------------------------ MODULE Ext2Mount ------------------------------
(***************************************************************************)
(* The life of a volume: ext2_mountfs(), ext2_sync() and ext2_unmount()    *)
(* (kext/ext2_vfsops.c) around the operations that change its metadata,    *)
(* with I/O errors, crashes at any point, and fsck_ext2fs in between.      *)
(*                                                                         *)
(* What is on disk says the same thing four times: how many blocks of a    *)
(* group are in use is in the group's bitmap, in its descriptor, in the    *)
(* superblock's total and in the inodes that point to them.  The last two  *)
(* are kept by group here.  Bitmaps and inodes change in the buffer cache  *)
(* and are written at the kernel's leisure; descriptors and superblock are *)
(* kept in the mount and written only by ext2_cgupdate().  The clean flag  *)
(* of the superblock promises that the four agree.                         *)
(*                                                                         *)
(* A write that buf_bawrite() starts is taken to end at once; that it may  *)
(* fail unnoticed is modelled.  The journal is not.                        *)
(***************************************************************************)
EXTENDS Integers, FiniteSets

CONSTANTS
  NGroups,     \* e2fs_gdbcount: groups, each with a descriptor block of its own
  Size,        \* blocks of a group that files may use
  MaxFaults,   \* bound: I/O errors
  MaxCrashes,  \* bound: crashes
  MaxChanges   \* bound: blocks allocated or freed

ASSUME MountAssumption ==
  /\ NGroups \in Nat \ {0} /\ Size \in Nat \ {0}
  /\ MaxFaults \in Nat /\ MaxCrashes \in Nat /\ MaxChanges \in Nat

VARIABLES
  dsb,      \* the superblock on disk: the two bits of e2fs_state, and the total
  dgd,      \* dgd[g]: the descriptors on disk
  dbm,      \* dbm[g]: the bitmaps on disk
  dino,     \* dino[g]: the inodes on disk
  bbm,      \* bbm[g]: the bitmaps in the buffer cache
  bino,     \* bino[g]: the inodes in the buffer cache
  mnt,      \* "none", "ro" or "rw"
  fs,       \* struct m_ext2fs
  ip,       \* ip[g]: the inode in core that has the group's blocks
  op,       \* the VFS operation under way
  w,        \* the thread that changes a file, if any
  count,    \* I/O errors, crashes and changes so far
  lost      \* history: how the volume was damaged without being marked so

disk  == <<dsb, dgd, dbm, dino>>
cache == <<bbm, bino>>
vars  == <<dsb, dgd, dbm, dino, bbm, bino, mnt, fs, ip, op, w, count, lost>>

Groups == 0..(NGroups - 1)
Bitmaps == [Groups -> 0..Size]
Count   == [Groups -> Int]       \* on a damaged volume any number

\* The bits of e2fs_state, and e2fs_fbcount by group.
Superblock == [clean : BOOLEAN, errors : BOOLEAN, used : Count]
M_ext2fs   == [clean : BOOLEAN, errors : BOOLEAN, wasvalid : BOOLEAN,
               fmod : BOOLEAN, used : Count, gd : Count]

\* by: the function that runs; todo: the vnodes not visited yet; i, allerror and
\* error: the variables of ext2_cgupdate(); wait: MNT_WAIT.
OpPcs == {"idle", "mark", "vnodes", "fmod", "sb", "gd", "cgdone", "markclean", "flush"}
Op    == [pc : OpPcs, by : {"mount", "sync", "unmount"}, wait : BOOLEAN,
          todo : SUBSET Groups, i : 0..NGroups, allerror : BOOLEAN, error : BOOLEAN]
NoOp  == [pc |-> "idle", by |-> "mount", wait |-> TRUE, todo |-> {}, i |-> 0,
          allerror |-> FALSE, error |-> FALSE]

\* pc: where it is; d: a block more or a block less.
Worker == [pc : {"idle", "bit", "count", "fmod", "bdwrite"}, g : Groups, d : {-1, 1}]
NoWork == [pc |-> "idle", g |-> 0, d |-> 1]

NoCount == [g \in Groups |-> 0]
NoFs    == [clean |-> FALSE, errors |-> FALSE, wasvalid |-> FALSE, fmod |-> FALSE,
            used |-> NoCount, gd |-> NoCount]
NoInodes == [g \in Groups |-> [n |-> 0, mod |-> FALSE]]

Consistent(sb, gd, bm, ino) == sb.used = gd /\ gd = bm /\ bm = ino

\* A volume nobody has mounted: one that is marked good is.
Init ==
  /\ dsb \in [clean : BOOLEAN, errors : BOOLEAN, used : Bitmaps]
  /\ dgd = dsb.used
  /\ dbm \in Bitmaps
  /\ dino = dgd
  /\ dsb.clean /\ ~dsb.errors => dbm = dgd
  /\ bbm = dbm /\ bino = dino
  /\ mnt = "none" /\ fs = NoFs /\ ip = NoInodes
  /\ op = NoOp /\ w = NoWork
  /\ count = [io |-> 0, crash |-> 0, change |-> 0] /\ lost = {}

\* An I/O that succeeds, or fails while the bound allows it.
Outcome(ok) == \/ ok /\ UNCHANGED count
               \/ ~ok /\ count.io < MaxFaults /\ count' = [count EXCEPT !.io = @ + 1]

(***************************************************************************)
(* ext2_sbupdate and ext2_cgupdate.                                        *)
(***************************************************************************)

SbOf(m) == [clean |-> m.clean, errors |-> m.errors, used |-> m.used]

sbupdate(ok) == /\ Outcome(ok)
                /\ dsb' = IF ok THEN SbOf(fs) ELSE dsb

CgSb ==
  /\ op.pc = "sb"
  /\ \E ok \in BOOLEAN :
       /\ sbupdate(ok)
       /\ op' = [op EXCEPT !.pc = "gd", !.i = 0, !.error = FALSE,
                           !.allerror = op.wait /\ ~ok]
  /\ UNCHANGED <<dgd, dbm, dino, cache, mnt, fs, ip, w, lost>>

\* One descriptor block.  Only the last result is kept in error; no buffer at all
\* ends the loop.
CgGd ==
  /\ op.pc = "gd" /\ op.i < NGroups
  /\ \/ \E ok \in BOOLEAN :
          /\ Outcome(ok)
          /\ dgd' = IF ok THEN [dgd EXCEPT ![op.i] = fs.gd[op.i]] ELSE dgd
          /\ op' = [op EXCEPT !.i = op.i + 1, !.error = op.wait /\ ~ok]
     \/ /\ Outcome(FALSE)
        /\ op' = [op EXCEPT !.pc = "cgdone", !.allerror = TRUE,
                            !.i = 0, !.error = FALSE]
        /\ UNCHANGED dgd
  /\ UNCHANGED <<dsb, dbm, dino, cache, mnt, fs, ip, w, lost>>

CgGdEnd ==
  /\ op.pc = "gd" /\ op.i = NGroups
  /\ op' = [op EXCEPT !.pc = "cgdone", !.allerror = op.allerror \/ op.error,
                      !.i = 0, !.error = FALSE]
  /\ UNCHANGED <<disk, cache, mnt, fs, ip, w, count, lost>>

(***************************************************************************)
(* ext2_mountfs.                                                           *)
(***************************************************************************)

Mountable(ro, force) == ro \/ force \/ (dsb.clean /\ ~dsb.errors)

\* Superblock and descriptors are read; read-write, the volume is no longer clean.
Mount ==
  /\ op.pc = "idle" /\ mnt = "none"
  /\ \E ro, force \in BOOLEAN :
       /\ Mountable(ro, force)
       /\ mnt' = IF ro THEN "ro" ELSE "rw"
       /\ fs' = [clean |-> ro /\ dsb.clean, errors |-> dsb.errors,
                 wasvalid |-> dsb.clean, fmod |-> ~ro, used |-> dsb.used, gd |-> dgd]
       /\ op' = IF ro THEN NoOp ELSE [NoOp EXCEPT !.pc = "mark"]
  /\ ip' = [g \in Groups |-> [n |-> bino[g], mod |-> FALSE]]
  /\ lost' = IF Consistent(dsb, dgd, dbm, dino) THEN {} ELSE lost
  /\ UNCHANGED <<disk, cache, w, count>>

\* ... and the disk is told so; whether that works is not looked at.
MountMark ==
  /\ op.pc = "mark"
  /\ \E ok \in BOOLEAN :
       /\ sbupdate(ok)
       /\ lost' = IF ~ok /\ dsb.clean THEN lost \cup {"mark"} ELSE lost
  /\ op' = NoOp
  /\ UNCHANGED <<dgd, dbm, dino, cache, mnt, fs, ip, w>>

(***************************************************************************)
(* ext2_sync, and the visit of the vnodes that ext2_unmount makes as well. *)
(***************************************************************************)

\* ext2_sync() refuses a read-only mount that was modified.
Sync ==
  /\ op.pc = "idle" /\ mnt # "none"
  /\ ~(mnt = "ro" /\ fs.fmod)
  /\ \E wait \in BOOLEAN :
       op' = [NoOp EXCEPT !.pc = "vnodes", !.by = "sync", !.wait = wait, !.todo = Groups]
  /\ UNCHANGED <<disk, cache, mnt, fs, ip, w, count, lost>>

\* ext2_flushfiles(): nobody uses the volume any more.
Unmount ==
  /\ op.pc = "idle" /\ mnt # "none" /\ w.pc = "idle"
  /\ op' = [NoOp EXCEPT !.pc = "vnodes", !.by = "unmount", !.todo = Groups]
  /\ UNCHANGED <<disk, cache, mnt, fs, ip, w, count, lost>>

\* ext2_update() of inode g: on a read-only mount nothing; else into the buffer,
\* and with wait on to the disk.  The inode counts as written even if it was not.
update(g, wait, ok) ==
  LET todo == ip[g].mod /\ mnt = "rw" IN
  /\ Outcome(ok)
  /\ ip' = [ip EXCEPT ![g].mod = IF mnt = "rw" THEN FALSE ELSE @]
  /\ bino' = IF todo /\ ok THEN [bino EXCEPT ![g] = ip[g].n] ELSE bino
  /\ dino' = IF todo /\ ok /\ wait THEN [dino EXCEPT ![g] = ip[g].n] ELSE dino

\* ext2_sync_callback() for one vnode, or vflush() making it inactive.
Vnode(g) ==
  /\ op.pc = "vnodes" /\ g \in op.todo
  /\ \E ok \in BOOLEAN :
       /\ ok \/ (ip[g].mod /\ mnt = "rw")
       /\ update(g, op.by = "sync" /\ op.wait, ok)
       /\ lost' = IF ok THEN lost ELSE lost \cup {"inode"}
  /\ op' = [op EXCEPT !.todo = @ \ {g}]
  /\ UNCHANGED <<dsb, dgd, dbm, bbm, mnt, fs, w>>

VnodesEnd ==
  /\ op.pc = "vnodes" /\ op.todo = {}
  /\ op' = [op EXCEPT !.pc = IF op.by = "sync" THEN "fmod"
                             ELSE IF mnt = "ro" THEN "flush" ELSE "sb"]
  /\ UNCHANGED <<disk, cache, mnt, fs, ip, w, count, lost>>

\* Mutation: fmod is cleared once all is written.
SyncFmodLate ==
  /\ op.by = "sync"
  /\ \/ /\ op.pc = "fmod"
        /\ op' = IF fs.fmod THEN [op EXCEPT !.pc = "sb"] ELSE NoOp
        /\ UNCHANGED fs
     \/ /\ op.pc = "cgdone"
        /\ fs' = [fs EXCEPT !.fmod = FALSE]
        /\ op' = NoOp
  /\ UNCHANGED <<disk, cache, mnt, ip, w, count, lost>>

\* fmod is looked at and cleared before ext2_cgupdate(), without the mutex.
SyncFmod ==
  /\ op.by = "sync"
  /\ \/ /\ op.pc = "fmod"
        /\ fs' = [fs EXCEPT !.fmod = FALSE]
        /\ op' = IF fs.fmod THEN [op EXCEPT !.pc = "sb"] ELSE NoOp
     \/ /\ op.pc = "cgdone"
        /\ op' = NoOp
        /\ UNCHANGED fs
  /\ UNCHANGED <<disk, cache, mnt, ip, w, count, lost>>

(***************************************************************************)
(* The rest of ext2_unmount.                                               *)
(***************************************************************************)

\* Mutation: the volume is marked clean whatever it was when mounted.
UnmountCgAlways ==
  /\ op.pc = "cgdone" /\ op.by = "unmount"
  /\ \/ /\ ~op.allerror
        /\ fs' = [fs EXCEPT !.clean = TRUE]
        /\ lost' = IF dgd # fs.gd THEN lost \cup {"desc"} ELSE lost
        /\ op' = [op EXCEPT !.pc = "markclean"]
     \/ /\ op.allerror
        /\ op' = [op EXCEPT !.pc = "flush", !.allerror = FALSE]
        /\ UNCHANGED <<fs, lost>>
  /\ UNCHANGED <<disk, cache, mnt, ip, w, count>>

\* After ext2_cgupdate(): a volume that was clean is so again, if no error was
\* reported (one that a later write covered up is not).
UnmountCg ==
  /\ op.pc = "cgdone" /\ op.by = "unmount"
  /\ \/ /\ ~op.allerror
        /\ fs' = [fs EXCEPT !.clean = fs.clean \/ fs.wasvalid]
        /\ lost' = IF dgd # fs.gd THEN lost \cup {"desc"} ELSE lost
        /\ op' = [op EXCEPT !.pc = "markclean"]
     \/ /\ op.allerror
        /\ op' = [op EXCEPT !.pc = "flush", !.allerror = FALSE]
        /\ UNCHANGED <<fs, lost>>
  /\ UNCHANGED <<disk, cache, mnt, ip, w, count>>

UnmountMark ==
  /\ op.pc = "markclean"
  /\ \E ok \in BOOLEAN : sbupdate(ok)
  /\ op' = [op EXCEPT !.pc = "flush"]
  /\ UNCHANGED <<dgd, dbm, dino, cache, mnt, fs, ip, w, lost>>

Forget == /\ mnt' = "none" /\ fs' = NoFs /\ ip' = NoInodes
          /\ op' = NoOp /\ w' = NoWork

\* buf_invalidateblks(BUF_WRITE_DATA): what is still in the cache is written and
\* dropped, and the mount freed.  A buffer that cannot be written is lost.
UnmountFlush ==
  /\ op.pc = "flush"
  /\ \/ /\ dbm' = bbm /\ dino' = bino
        /\ UNCHANGED <<cache, count, lost>>
     \/ \E g \in Groups :
          /\ Outcome(FALSE)
          /\ dbm' = [bbm EXCEPT ![g] = dbm[g]]
          /\ dino' = [bino EXCEPT ![g] = dino[g]]
          /\ bbm' = dbm' /\ bino' = dino'
          /\ lost' = lost \cup {"flush"}
  /\ Forget
  /\ UNCHANGED <<dsb, dgd>>

(***************************************************************************)
(* Changes of a file: ext2_alloccg and ext2_blkfree (module Ext2Alloc has  *)
(* the details), and the inode that has the block.                         *)
(***************************************************************************)

\* The VFS layer lets nobody in during a mount or an unmount.
Open == op.pc = "idle" \/ op.by = "sync"

AllocBegin(g) ==
  /\ mnt = "rw" /\ Open /\ w.pc = "idle"
  /\ fs.gd[g] < Size
  /\ w' = [pc |-> "bit", g |-> g, d |-> 1]
  /\ count.change < MaxChanges /\ count' = [count EXCEPT !.change = @ + 1]
  /\ UNCHANGED <<disk, cache, mnt, fs, ip, op, lost>>

\* Mutation: a pointer that is zero is freed too.
FreeBeginHole(g) ==
  /\ Open /\ w.pc = "idle"
  /\ mnt = "rw"
  /\ w' = [pc |-> "bit", g |-> g, d |-> -1]
  /\ count.change < MaxChanges /\ count' = [count EXCEPT !.change = @ + 1]
  /\ ip' = [ip EXCEPT ![g] = [n |-> @.n - 1, mod |-> FALSE]]
  /\ bino' = [bino EXCEPT ![g] = ip'[g].n]
  /\ UNCHANGED <<disk, bbm, mnt, fs, op, lost>>

\* ext2_truncate() drops the pointer first and writes the inode.  It is called by
\* ext2_inactive() for an inode without links too, which a volume that is not
\* clean may hold; there the mount may be read-only.
FreeBegin(g) ==
  LET fewer == ip[g].n - 1 IN
  /\ Open /\ w.pc = "idle"
  /\ mnt = "rw" \/ (mnt = "ro" /\ ~dsb.clean)
  /\ ip[g].n > 0
  /\ w' = [pc |-> "bit", g |-> g, d |-> -1]
  /\ count.change < MaxChanges /\ count' = [count EXCEPT !.change = @ + 1]
  /\ ip' = [ip EXCEPT ![g] = [n |-> fewer, mod |-> mnt = "ro"]]
  /\ bino' = IF mnt = "rw" THEN [bino EXCEPT ![g] = fewer] ELSE bino
  /\ dino' \in {dino, [dino EXCEPT ![g] = bino'[g]]}
  /\ UNCHANGED <<dsb, dgd, dbm, bbm, mnt, fs, op, lost>>

\* With the bitmap's buffer in hand.
Bit ==
  /\ w.pc = "bit"
  /\ bbm[w.g] + w.d \in 0..Size
  /\ bbm' = [bbm EXCEPT ![w.g] = @ + w.d]
  /\ w' = [w EXCEPT !.pc = "count"]
  /\ UNCHANGED <<disk, bino, mnt, fs, ip, op, count, lost>>

\* Under the mutex, which ext2_sync() does not take: the counters, then fmod.
Account ==
  \/ /\ w.pc = "count"
     /\ fs' = [fs EXCEPT !.used[w.g] = @ + w.d, !.gd[w.g] = @ + w.d]
     /\ w' = [w EXCEPT !.pc = "fmod"]
     /\ UNCHANGED <<disk, cache, mnt, ip, op, count, lost>>
  \/ /\ w.pc = "fmod"
     /\ fs' = [fs EXCEPT !.fmod = TRUE]
     /\ w' = [w EXCEPT !.pc = "bdwrite"]
     /\ UNCHANGED <<disk, cache, mnt, ip, op, count, lost>>

\* The buffer is given back, and a new block gets its pointer.
Bdwrite ==
  /\ w.pc = "bdwrite"
  /\ ip' = IF w.d = 1 THEN [ip EXCEPT ![w.g] = [n |-> @.n + 1, mod |-> TRUE]] ELSE ip
  /\ w' = NoWork
  /\ UNCHANGED <<disk, cache, mnt, fs, op, count, lost>>

(***************************************************************************)
(* The rest of the world.                                                  *)
(***************************************************************************)

Busy(g) == w.pc \in {"count", "fmod", "bdwrite"} /\ w.g = g

\* The kernel writes a delayed buffer.
BufWrite(g) ==
  /\ \/ bbm[g] # dbm[g] /\ ~Busy(g) /\ dbm' = [dbm EXCEPT ![g] = bbm[g]] /\ UNCHANGED dino
     \/ bino[g] # dino[g] /\ dino' = [dino EXCEPT ![g] = bino[g]] /\ UNCHANGED dbm
  /\ UNCHANGED <<dsb, dgd, cache, mnt, fs, ip, op, w, count, lost>>

\* The kernel goes down: only the disk is left.
Down ==
  /\ Forget
  /\ bbm' = dbm /\ bino' = dino
  /\ lost' = IF op.pc = "flush" /\ dsb.clean THEN lost \cup {"window"} ELSE lost
  /\ UNCHANGED disk

\* "map corrupted" and "freeing free block", on a damaged volume: the bitmap has
\* no bit to set or to clear.
Panic ==
  /\ w.pc = "bit"
  /\ bbm[w.g] + w.d \notin 0..Size
  /\ Down
  /\ UNCHANGED count

\* Power is lost.
Crash ==
  /\ mnt # "none"
  /\ count.crash < MaxCrashes /\ count' = [count EXCEPT !.crash = @ + 1]
  /\ Down

\* fsck_ext2fs checks a volume unless it is clean and nothing else.  It goes by the
\* inodes, of which it clears those with blocks of others, and rebuilds what is
\* counted; it sets the state anew if the clean bit is missing.
Fsck ==
  LET kept == [g \in Groups |-> IF dino[g] > Size THEN Size ELSE dino[g]] IN
  /\ mnt = "none"
  /\ ~(dsb.clean /\ ~dsb.errors)
  /\ dino' = kept /\ dbm' = kept /\ dgd' = kept
  /\ dsb' = [clean |-> TRUE, errors |-> dsb.clean /\ dsb.errors, used |-> kept]
  /\ bbm' = kept /\ bino' = kept
  /\ lost' = {}
  /\ UNCHANGED <<mnt, fs, ip, op, w, count>>

VfsOp == \/ Mount \/ MountMark \/ Sync \/ Unmount
         \/ (\E g \in Groups : Vnode(g)) \/ VnodesEnd
         \/ SyncFmod \/ CgSb \/ CgGd \/ CgGdEnd
         \/ UnmountCg \/ UnmountMark \/ UnmountFlush

FileOp == \/ (\E g \in Groups : AllocBegin(g) \/ FreeBegin(g))
          \/ Bit \/ Panic \/ Account \/ Bdwrite

Next == VfsOp \/ FileOp \/ (\E g \in Groups : BufWrite(g)) \/ Crash \/ Fsck

Spec == Init /\ [][Next]_vars

(***************************************************************************)
(* Properties.                                                             *)
(***************************************************************************)

\* The types of what is on disk, in the cache and in core; in use are never less
\* than no blocks and, by the bitmap, never more than a group has.
TypeOK ==
  /\ dsb \in Superblock
  /\ dgd \in Count
  /\ dino \in [Groups -> Nat] /\ bino \in [Groups -> Nat]
  /\ dbm \in Bitmaps /\ bbm \in Bitmaps
  /\ mnt \in {"none", "ro", "rw"}
  /\ fs \in M_ext2fs
  /\ ip \in [Groups -> [n : Nat, mod : BOOLEAN]]
  /\ op \in Op
  /\ w \in Worker
  /\ count \in [io : 0..MaxFaults, crash : 0..MaxCrashes, change : 0..MaxChanges]
  /\ lost \subseteq {"mark", "inode", "desc", "flush", "window"}

\* A volume whose superblock says that it is good is good, at every moment at
\* which a crash could leave it so: bitmaps, descriptors, superblock and inodes
\* agree.  ext2_mountfs() and fsck_ext2fs take its word for it.  "lost" names the
\* ways in which the code can break that promise; there is no other.
CleanMeansConsistent ==
  dsb.clean /\ ~dsb.errors =>
    Consistent(dsb, dgd, dbm, dino) \/ lost # {} \/ op.pc = "flush"

\* ext2_sync() does not forget: if fmod is clear and ext2_cgupdate() not at work,
\* superblock and descriptors are on disk as they are in core, unless a write
\* failed, although the counters change while ext2_sync() looks at fmod.
FmodCovers ==
  mnt = "rw" /\ ~fs.fmod /\ count.io = 0
    /\ op.pc \notin {"sb", "gd"} /\ w.pc # "fmod"
      => dsb.used = fs.used /\ dgd = fs.gd
=============================================================================
