--------------------------- MODULE Ext2MountProofs ---------------------------
(***************************************************************************)
(* Proofs about Ext2Mount, for any number of groups, blocks, I/O errors,   *)
(* crashes and changes.                                                    *)
(*                                                                         *)
(* That a volume marked clean is consistent is a promise made long after   *)
(* the changes it is about: the invariant follows how far bitmaps,         *)
(* descriptors, the superblock's total and inodes are apart, in core and   *)
(* in the buffer cache, from the mount to the last write of the unmount.   *)
(***************************************************************************)
EXTENDS Ext2Mount, TLAPS

(***************************************************************************)
(* The inductive invariants.                                               *)
(***************************************************************************)

\* Which function is where, and when a file may be changed.
Control ==
  /\ op.pc \in {"idle", "mark"} => op.by = "mount"
  /\ op.pc \in {"vnodes", "sb", "gd", "cgdone"} => op.by \in {"sync", "unmount"}
  /\ op.pc = "fmod" => op.by = "sync"
  /\ op.pc \in {"markclean", "flush"} => op.by = "unmount"
  /\ op.pc \in {"mark", "markclean"} => mnt = "rw"
  /\ mnt = "none" => op.pc = "idle"
  /\ mnt = "none" \/ op.by = "unmount" \/ op.pc = "mark" => w.pc = "idle"
  /\ mnt = "ro" /\ op.by = "unmount" => op.pc \in {"vnodes", "flush"}

\* A clean volume that is mounted read-only is not touched, and one that is not clean does
\* not become so.
RoInv ==
  mnt = "ro" => /\ fs.clean => dsb.clean
                /\ dsb.clean => w.pc = "idle" /\ ~fs.fmod /\ op.pc \notin {"sb", "gd"}

\* There is nothing in the cache that is not on disk.
Quiet ==
  mnt = "none" \/ op.pc = "mark" \/ (mnt = "ro" /\ dsb.clean) => bbm = dbm /\ bino = dino

\* A volume mounted read-write is not marked clean before ext2_unmount() does so, and then
\* only if it was.
RwInv ==
  mnt = "rw" => /\ fs.clean => fs.wasvalid /\ op.pc \in {"markclean", "flush"}
                /\ dsb.clean => lost # {} \/ op.pc \in {"mark", "flush"}

\* A volume that is marked good is, or will be once the cache is written.
Good ==
  dsb.clean /\ ~dsb.errors /\ lost = {} =>
    IF op.pc = "flush" THEN Consistent(dsb, dgd, bbm, bino) ELSE Consistent(dsb, dgd, dbm, dino)

\* What the change under way has done to the bitmap and not to the counters, and not to
\* the inode.
Uncounted(g) == IF w.pc = "count" /\ w.g = g THEN w.d ELSE 0
Unpointed(g) == IF /\ w.g = g
                   /\ \/ w.d = 1 /\ w.pc \in {"count", "fmod", "bdwrite"}
                      \/ w.d = -1 /\ w.pc = "bit"
                THEN 1 ELSE 0

\* On a volume that was good when it was mounted, counters, bitmaps and inodes agree but
\* for the change under way, and inodes in the cache but for those still to be written.
Agree ==
  mnt = "rw" /\ fs.wasvalid /\ ~fs.errors /\ lost = {} =>
    /\ \A g \in Groups : /\ fs.used[g] = bbm[g] - Uncounted(g)
                         /\ fs.gd[g] = bbm[g] - Uncounted(g)
                         /\ ip[g].n = bbm[g] - Unpointed(g)
                         /\ ~ip[g].mod => bino[g] = ip[g].n
    /\ op.by = "unmount" =>
         \A g \in Groups : op.pc # "vnodes" \/ g \notin op.todo => ~ip[g].mod
    /\ op.pc = "markclean" => dgd = fs.gd

CleanInv == Control /\ RoInv /\ Quiet /\ RwInv /\ Good /\ Agree

\* While ext2_cgupdate() is at work, the superblock and the descriptors it has written are
\* those in core, unless a write failed or a change was made, which sets fmod.
FmodInv ==
  mnt = "rw" /\ ~fs.fmod /\ count.io = 0 /\ w.pc # "fmod" =>
    /\ op.pc # "sb" => dsb.used = fs.used
    /\ op.pc = "gd" => \A g \in Groups : g < op.i => dgd[g] = fs.gd[g]
    /\ op.pc \notin {"sb", "gd"} => dgd = fs.gd

(***************************************************************************)
(* Types.                                                                  *)
(***************************************************************************)

\* The initial values of records are of their types.
LEMMA InitialRecords ==
  /\ NoOp \in Op /\ NoWork \in Worker /\ NoFs \in M_ext2fs
  /\ NoInodes \in [Groups -> [n : Nat, mod : BOOLEAN]]
<1>1. 0 \in Groups /\ 0 \in 0..NGroups
  BY MountAssumption DEF Groups
<1>2. QED
  BY <1>1 DEF NoOp, Op, OpPcs, NoWork, Worker, NoFs, M_ext2fs, NoCount, Count, NoInodes

\* A step of one of the VFS operations in its record.
LEMMA OpTypes ==
  ASSUME op \in Op, NEW a \in BOOLEAN, NEW b \in BOOLEAN
  PROVE  /\ \A c \in OpPcs, i \in 0..NGroups :
              [op EXCEPT !.pc = c, !.i = i, !.error = a, !.allerror = b] \in Op
         /\ \A c \in OpPcs : /\ [op EXCEPT !.pc = c] \in Op
                              /\ [op EXCEPT !.pc = c, !.allerror = a] \in Op
                              /\ [NoOp EXCEPT !.pc = c] \in Op
         /\ \A i \in 0..NGroups : [op EXCEPT !.i = i, !.error = a] \in Op
         /\ \A g \in Groups : [op EXCEPT !.todo = @ \ {g}] \in Op
         /\ [NoOp EXCEPT !.pc = "vnodes", !.by = "sync", !.wait = a, !.todo = Groups] \in Op
         /\ [NoOp EXCEPT !.pc = "vnodes", !.by = "unmount", !.todo = Groups] \in Op
<1>1. NoOp \in Op
  BY InitialRecords
<1> USE DEF Op
<1>2. \A c \in OpPcs, i \in 0..NGroups :
        [op EXCEPT !.pc = c, !.i = i, !.error = a, !.allerror = b] \in Op
  OBVIOUS
<1>3. \A c \in OpPcs : /\ [op EXCEPT !.pc = c] \in Op
                       /\ [op EXCEPT !.pc = c, !.allerror = a] \in Op
                       /\ [NoOp EXCEPT !.pc = c] \in Op
  BY <1>1
<1>4. \A i \in 0..NGroups : [op EXCEPT !.i = i, !.error = a] \in Op
  OBVIOUS
<1>5. \A g \in Groups : [op EXCEPT !.todo = @ \ {g}] \in Op
  OBVIOUS
<1>6. [NoOp EXCEPT !.pc = "vnodes", !.by = "sync", !.wait = a, !.todo = Groups] \in Op
  BY <1>1 DEF OpPcs
<1>7. [NoOp EXCEPT !.pc = "vnodes", !.by = "unmount", !.todo = Groups] \in Op
  BY <1>1 DEF OpPcs
<1>8. QED BY <1>2, <1>3, <1>4, <1>5, <1>6, <1>7

\* What an I/O leaves of the number of errors so far.
LEMMA OutcomeType ==
  ASSUME TypeOK, NEW ok \in BOOLEAN, Outcome(ok)
  PROVE  /\ count' \in [io : 0..MaxFaults, crash : 0..MaxCrashes, change : 0..MaxChanges]
         /\ count'.io = 0 => ok /\ count.io = 0
<1>1. CASE ok /\ UNCHANGED count
  BY <1>1 DEF TypeOK
<1>2. CASE ~ok /\ count.io < MaxFaults /\ count' = [count EXCEPT !.io = @ + 1]
  <2>1. count.io + 1 \in 0..MaxFaults /\ count.io + 1 # 0
    BY <1>2, MountAssumption DEF TypeOK
  <2>2. QED BY <1>2, <2>1 DEF TypeOK
<1>3. QED BY <1>1, <1>2 DEF Outcome

\* ext2_sbupdate() writes what is in core or nothing.
LEMMA SbupdateType ==
  ASSUME TypeOK, NEW ok \in BOOLEAN, sbupdate(ok)
  PROVE  dsb' \in Superblock /\ (ok => dsb' = SbOf(fs)) /\ (~ok => dsb' = dsb)
BY DEF TypeOK, sbupdate, SbOf, Superblock, M_ext2fs

\* Mount, sync and unmount keep the types.
LEMMA VfsType == TypeOK /\ VfsOp => TypeOK'
<1> SUFFICES ASSUME TypeOK, VfsOp PROVE TypeOK'
  OBVIOUS
<1>0. op \in Op /\ fs \in M_ext2fs /\ TRUE \in BOOLEAN /\ FALSE \in BOOLEAN
  BY DEF TypeOK
<1>1. CASE Mount
  <2>1. PICK ro \in BOOLEAN :
          /\ mnt' = IF ro THEN "ro" ELSE "rw"
          /\ fs' = [clean |-> ro /\ dsb.clean, errors |-> dsb.errors, wasvalid |-> dsb.clean,
                    fmod |-> ~ro, used |-> dsb.used, gd |-> dgd]
          /\ op' = IF ro THEN NoOp ELSE [NoOp EXCEPT !.pc = "mark"]
    BY <1>1 DEF Mount
  <2>2. fs' \in M_ext2fs
    <3> DEFINE c == ro /\ dsb.clean
               f == ~ro
    <3>1. /\ fs' = [clean |-> c, errors |-> dsb.errors, wasvalid |-> dsb.clean,
                    fmod |-> f, used |-> dsb.used, gd |-> dgd]
          /\ c \in BOOLEAN /\ f \in BOOLEAN
      BY <2>1
    <3>2. dsb.errors \in BOOLEAN /\ dsb.clean \in BOOLEAN /\ dsb.used \in Count /\ dgd \in Count
      BY DEF TypeOK, Superblock
    <3> HIDE DEF c, f
    <3>3. QED BY <3>1, <3>2 DEF M_ext2fs
  <2>3. op' \in Op
    BY <1>0, <2>1, InitialRecords, OpTypes DEF OpPcs
  <2>4. ip' \in [Groups -> [n : Nat, mod : BOOLEAN]]
    BY <1>1 DEF Mount, TypeOK
  <2>5. lost' \subseteq {"mark", "inode", "desc", "flush", "window"} /\ mnt' \in {"none", "ro", "rw"}
    BY <1>1, <2>1 DEF Mount, TypeOK
  <2>6. QED BY <1>1, <2>2, <2>3, <2>4, <2>5 DEF Mount, TypeOK, disk, cache
<1>2. CASE MountMark
  <2>1. PICK ok \in BOOLEAN : /\ sbupdate(ok)
                              /\ lost' = IF ~ok /\ dsb.clean THEN lost \cup {"mark"} ELSE lost
    BY <1>2 DEF MountMark
  <2>2. dsb' \in Superblock
    BY <2>1, SbupdateType
  <2>3. count' \in [io : 0..MaxFaults, crash : 0..MaxCrashes, change : 0..MaxChanges]
    BY <2>1, OutcomeType DEF sbupdate
  <2>4. lost' \subseteq {"mark", "inode", "desc", "flush", "window"}
    BY <2>1 DEF TypeOK
  <2>5. QED BY <1>2, <2>2, <2>3, <2>4, InitialRecords DEF MountMark, TypeOK, cache
<1>3. CASE Sync \/ Unmount
  <2>1. op' \in Op
    BY <1>0, <1>3, OpTypes DEF Sync, Unmount
  <2>2. QED BY <1>3, <2>1 DEF Sync, Unmount, TypeOK, disk, cache
<1>4. ASSUME NEW g \in Groups, Vnode(g) PROVE TypeOK'
  <2>1. PICK ok \in BOOLEAN : /\ update(g, op.by = "sync" /\ op.wait, ok)
                              /\ lost' = IF ok THEN lost ELSE lost \cup {"inode"}
    BY <1>4 DEF Vnode
  <2>2. count' \in [io : 0..MaxFaults, crash : 0..MaxCrashes, change : 0..MaxChanges]
    BY <2>1, OutcomeType DEF update
  <2>3. ip' \in [Groups -> [n : Nat, mod : BOOLEAN]]
    BY <2>1 DEF update, TypeOK
  <2>4. bino' \in [Groups -> Nat] /\ dino' \in [Groups -> Nat]
    BY <2>1 DEF update, TypeOK
  <2>5. lost' \subseteq {"mark", "inode", "desc", "flush", "window"}
    BY <2>1 DEF TypeOK
  <2>6. op' \in Op
    BY <1>0, <1>4, OpTypes DEF Vnode
  <2>7. QED BY <1>4, <2>2, <2>3, <2>4, <2>5, <2>6 DEF Vnode, TypeOK
<1>5. CASE VnodesEnd
  <2>1. op' \in Op
    BY <1>0, <1>5, OpTypes DEF VnodesEnd, OpPcs
  <2>2. QED BY <1>5, <2>1 DEF VnodesEnd, TypeOK, disk, cache
<1>6. CASE SyncFmod
  <2>1. op' \in Op
    BY <1>0, <1>6, OpTypes, InitialRecords DEF SyncFmod, OpPcs
  <2>2. fs' \in M_ext2fs
    BY <1>0, <1>6 DEF SyncFmod, M_ext2fs
  <2>3. QED BY <1>6, <2>1, <2>2 DEF SyncFmod, TypeOK, disk, cache
<1>7. CASE CgSb
  <2>1. PICK ok \in BOOLEAN : /\ sbupdate(ok)
                              /\ op' = [op EXCEPT !.pc = "gd", !.i = 0, !.error = FALSE,
                                                  !.allerror = op.wait /\ ~ok]
    BY <1>7 DEF CgSb
  <2>2. op' \in Op
    <3> DEFINE a == op.wait /\ ~ok
    <3>1. op' = [op EXCEPT !.pc = "gd", !.i = 0, !.error = FALSE, !.allerror = a] /\ a \in BOOLEAN
      BY <2>1
    <3>2. "gd" \in OpPcs /\ 0 \in 0..NGroups
      BY MountAssumption DEF OpPcs
    <3> HIDE DEF a
    <3>3. QED BY <1>0, <3>1, <3>2, OpTypes
  <2>3. dsb' \in Superblock
    BY <2>1, SbupdateType
  <2>4. count' \in [io : 0..MaxFaults, crash : 0..MaxCrashes, change : 0..MaxChanges]
    BY <2>1, OutcomeType DEF sbupdate
  <2>5. QED BY <1>7, <2>2, <2>3, <2>4 DEF CgSb, TypeOK, cache
<1>8. CASE CgGd
  <2>1. op.i \in Groups /\ op.i + 1 \in 0..NGroups /\ 0 \in 0..NGroups
    <3>1. op.i < NGroups /\ op.i \in 0..NGroups
      BY <1>0, <1>8 DEF CgGd, Op
    <3>2. QED BY <3>1, MountAssumption DEF Groups
  <2>2. CASE \E ok \in BOOLEAN :
               /\ Outcome(ok)
               /\ dgd' = IF ok THEN [dgd EXCEPT ![op.i] = fs.gd[op.i]] ELSE dgd
               /\ op' = [op EXCEPT !.i = op.i + 1, !.error = op.wait /\ ~ok]
    <3>1. PICK ok \in BOOLEAN :
               /\ Outcome(ok)
               /\ dgd' = IF ok THEN [dgd EXCEPT ![op.i] = fs.gd[op.i]] ELSE dgd
               /\ op' = [op EXCEPT !.i = op.i + 1, !.error = op.wait /\ ~ok]
      BY <2>2
    <3>2. op' \in Op
      <4> DEFINE a == op.wait /\ ~ok
      <4>1. op' = [op EXCEPT !.i = op.i + 1, !.error = a] /\ a \in BOOLEAN
        BY <3>1
      <4> HIDE DEF a
      <4>2. QED BY <1>0, <2>1, <4>1, OpTypes
    <3>3. dgd' \in Count
      BY <2>1, <3>1 DEF TypeOK, Count, M_ext2fs
    <3>4. count' \in [io : 0..MaxFaults, crash : 0..MaxCrashes, change : 0..MaxChanges]
      BY <3>1, OutcomeType
    <3>5. QED BY <1>8, <3>2, <3>3, <3>4 DEF CgGd, TypeOK, cache
  <2>3. CASE /\ Outcome(FALSE)
             /\ op' = [op EXCEPT !.pc = "cgdone", !.allerror = TRUE, !.i = 0, !.error = FALSE]
             /\ UNCHANGED dgd
    <3>1. op' \in Op
      BY <1>0, <2>1, <2>3 DEF Op, OpPcs
    <3>2. count' \in [io : 0..MaxFaults, crash : 0..MaxCrashes, change : 0..MaxChanges]
      BY <1>0, <2>3, OutcomeType
    <3>3. QED BY <1>8, <2>3, <3>1, <3>2 DEF CgGd, TypeOK, cache
  <2>4. QED BY <1>8, <2>2, <2>3 DEF CgGd
<1>9. CASE CgGdEnd
  <2>1. op' \in Op
    <3> DEFINE a == op.allerror \/ op.error
    <3>1. /\ op' = [op EXCEPT !.pc = "cgdone", !.allerror = a, !.i = 0, !.error = FALSE]
          /\ a \in BOOLEAN
      BY <1>9 DEF CgGdEnd
    <3>2. "cgdone" \in OpPcs /\ 0 \in 0..NGroups
      BY MountAssumption DEF OpPcs
    <3> HIDE DEF a
    <3>3. QED BY <1>0, <3>1, <3>2 DEF Op
  <2>2. QED BY <1>9, <2>1 DEF CgGdEnd, TypeOK, disk, cache
<1>10. CASE UnmountCg
  <2>1. op' \in Op
    BY <1>0, <1>10, OpTypes DEF UnmountCg, OpPcs
  <2>2. fs' \in M_ext2fs
    <3> DEFINE c == fs.clean \/ fs.wasvalid
    <3>1. (fs' = [fs EXCEPT !.clean = c] \/ fs' = fs) /\ c \in BOOLEAN
      BY <1>10 DEF UnmountCg
    <3> HIDE DEF c
    <3>2. QED BY <1>0, <3>1 DEF M_ext2fs
  <2>3. lost' \subseteq {"mark", "inode", "desc", "flush", "window"}
    BY <1>10 DEF UnmountCg, TypeOK
  <2>4. QED BY <1>10, <2>1, <2>2, <2>3 DEF UnmountCg, TypeOK, disk, cache
<1>11. CASE UnmountMark
  <2>1. PICK ok \in BOOLEAN : sbupdate(ok)
    BY <1>11 DEF UnmountMark
  <2>2. dsb' \in Superblock
    BY <2>1, SbupdateType
  <2>3. count' \in [io : 0..MaxFaults, crash : 0..MaxCrashes, change : 0..MaxChanges]
    BY <2>1, OutcomeType DEF sbupdate
  <2>4. op' \in Op
    BY <1>0, <1>11, OpTypes DEF UnmountMark, OpPcs
  <2>5. QED BY <1>11, <2>2, <2>3, <2>4 DEF UnmountMark, TypeOK, cache
<1>12. CASE UnmountFlush
  <2>1. /\ dbm' \in Bitmaps /\ bbm' \in Bitmaps
        /\ dino' \in [Groups -> Nat] /\ bino' \in [Groups -> Nat]
    <3>1. CASE dbm' = bbm /\ dino' = bino /\ UNCHANGED cache
      BY <3>1 DEF TypeOK, cache
    <3>2. ASSUME NEW g \in Groups, dbm' = [bbm EXCEPT ![g] = dbm[g]],
                 dino' = [bino EXCEPT ![g] = dino[g]], bbm' = dbm', bino' = dino'
          PROVE  /\ dbm' \in Bitmaps /\ bbm' \in Bitmaps
                 /\ dino' \in [Groups -> Nat] /\ bino' \in [Groups -> Nat]
      BY <3>2 DEF TypeOK, Bitmaps
    <3>3. QED BY <1>12, <3>1, <3>2 DEF UnmountFlush
  <2>2. count' \in [io : 0..MaxFaults, crash : 0..MaxCrashes, change : 0..MaxChanges]
    BY <1>0, <1>12, OutcomeType DEF UnmountFlush, TypeOK
  <2>3. lost' \subseteq {"mark", "inode", "desc", "flush", "window"}
    BY <1>12 DEF UnmountFlush, TypeOK
  <2>4. QED BY <1>12, <2>1, <2>2, <2>3, InitialRecords DEF UnmountFlush, Forget, TypeOK
<1>13. QED
  BY <1>1, <1>2, <1>3, <1>4, <1>5, <1>6, <1>7, <1>8, <1>9, <1>10, <1>11, <1>12 DEF VfsOp

\* The kernel going down leaves values of the right types.
LEMMA DownType == ASSUME TypeOK, Down
                  PROVE  /\ dsb' \in Superblock /\ dgd' \in Count
                         /\ dino' \in [Groups -> Nat] /\ bino' \in [Groups -> Nat]
                         /\ dbm' \in Bitmaps /\ bbm' \in Bitmaps
                         /\ mnt' \in {"none", "ro", "rw"} /\ fs' \in M_ext2fs
                         /\ ip' \in [Groups -> [n : Nat, mod : BOOLEAN]]
                         /\ op' \in Op /\ w' \in Worker
                         /\ lost' \subseteq {"mark", "inode", "desc", "flush", "window"}
BY InitialRecords DEF Down, Forget, TypeOK, disk

\* Changes of a file, the buffer cache, crashes and fsck_ext2fs keep the types.
LEMMA FileType ==
  TypeOK /\ (FileOp \/ (\E g \in Groups : BufWrite(g)) \/ Crash \/ Fsck) => TypeOK'
<1> SUFFICES ASSUME TypeOK, FileOp \/ (\E g \in Groups : BufWrite(g)) \/ Crash \/ Fsck PROVE TypeOK'
  OBVIOUS
<1> DEFINE Counts == [io : 0..MaxFaults, crash : 0..MaxCrashes, change : 0..MaxChanges]
<1>0. /\ count.change < MaxChanges => [count EXCEPT !.change = @ + 1] \in Counts
      /\ count.crash < MaxCrashes => [count EXCEPT !.crash = @ + 1] \in Counts
  <2>1. count.change \in 0..MaxChanges /\ count.crash \in 0..MaxCrashes
    BY DEF TypeOK
  <2>2. /\ count.change < MaxChanges => count.change + 1 \in 0..MaxChanges
        /\ count.crash < MaxCrashes => count.crash + 1 \in 0..MaxCrashes
    BY <2>1, MountAssumption
  <2>3. QED BY <2>2 DEF TypeOK
<1>1. ASSUME NEW g \in Groups, AllocBegin(g) PROVE TypeOK'
  <2>1. w' \in Worker /\ count' \in Counts
    BY <1>0, <1>1 DEF AllocBegin, Worker
  <2>2. QED BY <1>1, <2>1 DEF AllocBegin, TypeOK, disk, cache
<1>2. ASSUME NEW g \in Groups, FreeBegin(g) PROVE TypeOK'
  <2>1. w' \in Worker /\ count' \in Counts
    BY <1>0, <1>2 DEF FreeBegin, Worker
  <2>2. ip[g].n - 1 \in Nat
    BY <1>2 DEF FreeBegin, TypeOK
  <2>3. ip' \in [Groups -> [n : Nat, mod : BOOLEAN]]
    BY <1>2, <2>2 DEF FreeBegin, TypeOK
  <2>4. bino' \in [Groups -> Nat]
    BY <1>2, <2>2 DEF FreeBegin, TypeOK
  <2>5. dino' \in [Groups -> Nat]
    BY <1>2, <2>4 DEF FreeBegin, TypeOK
  <2>6. QED BY <1>2, <2>1, <2>3, <2>4, <2>5 DEF FreeBegin, TypeOK
<1>3. CASE Bit
  <2>1. w' \in Worker
    BY <1>3 DEF Bit, TypeOK, Worker
  <2>2. bbm' \in Bitmaps
    BY <1>3 DEF Bit, TypeOK, Bitmaps, Worker
  <2>3. QED BY <1>3, <2>1, <2>2 DEF Bit, TypeOK, disk
<1>4. CASE Panic
  BY <1>4, DownType DEF Panic, TypeOK
<1>5. CASE Account
  <2>1. w' \in Worker
    BY <1>5 DEF Account, TypeOK, Worker
  <2>2. fs' \in M_ext2fs
    <3>1. CASE fs' = [fs EXCEPT !.used[w.g] = @ + w.d, !.gd[w.g] = @ + w.d]
      <4>1. w.g \in Groups /\ w.d \in Int /\ fs.used \in Count /\ fs.gd \in Count
        BY DEF TypeOK, Worker, M_ext2fs
      <4>2. /\ [fs.used EXCEPT ![w.g] = @ + w.d] \in Count
            /\ [fs.gd EXCEPT ![w.g] = @ + w.d] \in Count
        BY <4>1 DEF Count
      <4>3. fs' = [fs EXCEPT !.used = [fs.used EXCEPT ![w.g] = @ + w.d],
                             !.gd = [fs.gd EXCEPT ![w.g] = @ + w.d]]
        BY <3>1 DEF TypeOK, M_ext2fs
      <4>4. QED BY <4>2, <4>3 DEF TypeOK, M_ext2fs
    <3>2. CASE fs' = [fs EXCEPT !.fmod = TRUE]
      BY <3>2 DEF TypeOK, M_ext2fs
    <3>3. QED BY <1>5, <3>1, <3>2 DEF Account
  <2>3. QED BY <1>5, <2>1, <2>2 DEF Account, TypeOK, disk, cache
<1>6. CASE Bdwrite
  <2>1. ip' \in [Groups -> [n : Nat, mod : BOOLEAN]]
    BY <1>6 DEF Bdwrite, TypeOK, Worker
  <2>2. QED BY <1>6, <2>1, InitialRecords DEF Bdwrite, TypeOK, disk, cache
<1>7. ASSUME NEW g \in Groups, BufWrite(g) PROVE TypeOK'
  <2>1. dbm' \in Bitmaps /\ dino' \in [Groups -> Nat]
    BY <1>7 DEF BufWrite, TypeOK, Bitmaps
  <2>2. QED BY <1>7, <2>1 DEF BufWrite, TypeOK, cache
<1>8. CASE Crash
  BY <1>0, <1>8, DownType DEF Crash, TypeOK
<1>9. CASE Fsck
  <2> DEFINE kept == [g \in Groups |-> IF dino[g] > Size THEN Size ELSE dino[g]]
  <2>1. kept \in Bitmaps /\ kept \in Count /\ kept \in [Groups -> Nat]
    BY MountAssumption DEF TypeOK, Bitmaps, Count
  <2>2. dino' = kept /\ dbm' = kept /\ dgd' = kept /\ bbm' = kept /\ bino' = kept
    BY <1>9 DEF Fsck
  <2>3. dsb' \in Superblock
    <3> DEFINE e == dsb.clean /\ dsb.errors
    <3>1. dsb' = [clean |-> TRUE, errors |-> e, used |-> kept] /\ e \in BOOLEAN
      BY <1>9 DEF Fsck
    <3> HIDE DEF e, kept
    <3>2. QED BY <2>1, <3>1 DEF Superblock
  <2> HIDE DEF kept
  <2>4. QED BY <1>9, <2>1, <2>2, <2>3 DEF Fsck, TypeOK
<1>10. QED BY <1>1, <1>2, <1>3, <1>4, <1>5, <1>6, <1>7, <1>8, <1>9 DEF FileOp

\* In any life of a volume: what is counted in core and on disk, the bitmaps within the
\* size of a group, and inodes that never point to less than no blocks.
THEOREM MountTypes == Spec => []TypeOK
<1>1. Init => TypeOK
  <2> SUFFICES ASSUME Init PROVE TypeOK
    OBVIOUS
  <2>1. dsb \in Superblock /\ dgd \in Count /\ dino \in [Groups -> Nat] /\ bino \in [Groups -> Nat]
    BY MountAssumption DEF Init, Superblock, Bitmaps, Count
  <2>2. count \in [io : 0..MaxFaults, crash : 0..MaxCrashes, change : 0..MaxChanges]
    BY MountAssumption DEF Init
  <2>3. QED BY <2>1, <2>2, InitialRecords DEF Init, TypeOK
<1>2. TypeOK /\ [Next]_vars => TypeOK'
  <2> SUFFICES ASSUME TypeOK, [Next]_vars PROVE TypeOK'
    OBVIOUS
  <2>1. CASE Next
    BY <2>1, VfsType, FileType DEF Next
  <2>2. CASE UNCHANGED vars
    BY <2>2 DEF vars, TypeOK
  <2>3. QED BY <2>1, <2>2
<1>3. QED BY <1>1, <1>2, PTL DEF Spec

(***************************************************************************)
(* ext2_sync does not forget.                                              *)
(***************************************************************************)

\* A change that is made while ext2_cgupdate() is at work leaves fmod set: mount, sync and
\* unmount keep what FmodInv says.
LEMMA FmodVfs == ASSUME TypeOK, TypeOK', FmodInv, VfsOp PROVE FmodInv'
<1> SUFFICES ASSUME mnt' = "rw", ~fs'.fmod, count'.io = 0, w'.pc # "fmod"
             PROVE  /\ op'.pc # "sb" => dsb'.used = fs'.used
                    /\ op'.pc = "gd" => \A g \in Groups : g < op'.i => dgd'[g] = fs'.gd[g]
                    /\ op'.pc \notin {"sb", "gd"} => dgd' = fs'.gd
  BY DEF FmodInv
<1>0. op \in Op /\ FALSE \in BOOLEAN /\ NoOp.pc = "idle"
  BY DEF TypeOK, NoOp
<1>1. CASE Mount
  <2>1. PICK ro \in BOOLEAN :
          /\ mnt' = IF ro THEN "ro" ELSE "rw"
          /\ fs' = [clean |-> ro /\ dsb.clean, errors |-> dsb.errors, wasvalid |-> dsb.clean,
                    fmod |-> ~ro, used |-> dsb.used, gd |-> dgd]
    BY <1>1 DEF Mount
  <2>2. QED BY <2>1
<1>2. CASE MountMark \/ UnmountMark
  <2>1. PICK ok \in BOOLEAN : sbupdate(ok)
    BY <1>2 DEF MountMark, UnmountMark
  <2>2. ok /\ count.io = 0
    BY <2>1, OutcomeType DEF sbupdate
  <2>3. dsb' = SbOf(fs)
    BY <2>1, <2>2, SbupdateType
  <2>4. op'.pc \in {"idle", "flush"} /\ UNCHANGED <<dgd, mnt, fs, w>> /\ op.pc \notin {"sb", "gd"}
    BY <1>0, <1>2 DEF MountMark, UnmountMark, Op
  <2>5. QED BY <2>2, <2>3, <2>4 DEF FmodInv, SbOf
<1>3. CASE Sync \/ Unmount \/ VnodesEnd
  <2>1. /\ op.pc \notin {"sb", "gd"} /\ op'.pc # "gd"
        /\ UNCHANGED <<dsb, dgd, mnt, fs, w, count>>
    BY <1>0, <1>3, InitialRecords DEF Sync, Unmount, VnodesEnd, Op, disk
  <2>2. QED BY <2>1 DEF FmodInv
<1>4. ASSUME NEW g \in Groups, Vnode(g)
      PROVE  /\ op'.pc # "sb" => dsb'.used = fs'.used
             /\ op'.pc = "gd" => \A h \in Groups : h < op'.i => dgd'[h] = fs'.gd[h]
             /\ op'.pc \notin {"sb", "gd"} => dgd' = fs'.gd
  <2>1. count.io = 0
    BY <1>4, OutcomeType DEF Vnode, update
  <2>2. op'.pc = "vnodes" /\ op.pc = "vnodes" /\ UNCHANGED <<dsb, dgd, mnt, fs, w>>
    BY <1>0, <1>4 DEF Vnode, Op
  <2>3. QED BY <2>1, <2>2 DEF FmodInv
<1>5. CASE SyncFmod
  <2>1. CASE op.pc = "cgdone"
    BY <1>0, <1>5, <2>1 DEF SyncFmod, FmodInv, disk
  <2>2. CASE op.pc = "fmod"
    <3>1. /\ fs' = [fs EXCEPT !.fmod = FALSE] /\ UNCHANGED <<dsb, dgd, mnt, w, count>>
          /\ op' = IF fs.fmod THEN [op EXCEPT !.pc = "sb"] ELSE NoOp
      BY <1>5, <2>2 DEF SyncFmod, disk
    <3>2. fs'.used = fs.used /\ fs'.gd = fs.gd
      BY <3>1 DEF TypeOK, M_ext2fs
    <3>3. CASE fs.fmod
      BY <1>0, <3>1, <3>3 DEF Op
    <3>4. CASE ~fs.fmod
      BY <1>0, <2>2, <3>1, <3>2, <3>4 DEF FmodInv
    <3>5. QED BY <3>3, <3>4
  <2>3. QED BY <1>5, <2>1, <2>2 DEF SyncFmod
<1>6. CASE CgSb
  <2>1. PICK ok \in BOOLEAN : /\ sbupdate(ok)
                              /\ op' = [op EXCEPT !.pc = "gd", !.i = 0, !.error = FALSE,
                                                  !.allerror = op.wait /\ ~ok]
    BY <1>6 DEF CgSb
  <2>2. ok /\ dsb' = SbOf(fs)
    BY <2>1, OutcomeType, SbupdateType DEF sbupdate
  <2>3. op'.pc = "gd" /\ op'.i = 0
    BY <1>0, <2>1 DEF Op
  <2>4. QED BY <1>6, <2>2, <2>3 DEF CgSb, SbOf, Groups
<1>7. CASE CgGd
  <2>1. PICK ok \in BOOLEAN :
               /\ Outcome(ok)
               /\ dgd' = IF ok THEN [dgd EXCEPT ![op.i] = fs.gd[op.i]] ELSE dgd
               /\ op' = [op EXCEPT !.i = op.i + 1, !.error = op.wait /\ ~ok]
    <3>1. ~Outcome(FALSE)
      BY <1>0, OutcomeType
    <3>2. QED BY <1>7, <3>1 DEF CgGd
  <2>2. ok /\ count.io = 0
    BY <2>1, OutcomeType
  <2>3. op'.pc = "gd" /\ op.pc = "gd" /\ op'.i = op.i + 1 /\ op.i \in Nat
    <3>1. op.pc = "gd" /\ op.i \in 0..NGroups
      BY <1>0, <1>7 DEF Op, CgGd
    <3>2. op'.pc = op.pc /\ op'.i = op.i + 1
      BY <1>0, <2>1 DEF Op
    <3>3. QED BY <3>1, <3>2
  <2>4. UNCHANGED <<dsb, mnt, fs, w>>
    BY <1>7 DEF CgGd
  <2>5. dsb.used = fs.used /\ \A g \in Groups : g < op.i => dgd[g] = fs.gd[g]
    BY <2>2, <2>3, <2>4 DEF FmodInv
  <2>6. \A g \in Groups : g < op.i + 1 => dgd'[g] = fs.gd[g]
    <3>1. dgd' = [dgd EXCEPT ![op.i] = fs.gd[op.i]]
      BY <2>1, <2>2
    <3>2. ASSUME NEW g \in Groups, g < op.i + 1 PROVE dgd'[g] = fs.gd[g]
      <4>1. g < op.i \/ g = op.i
        BY <2>3, <3>2 DEF Groups
      <4>2. QED BY <2>5, <3>1, <4>1 DEF TypeOK, Count
    <3>3. QED BY <3>2
  <2>7. QED BY <2>3, <2>4, <2>5, <2>6
<1>8. CASE CgGdEnd
  <2>1. op.pc = "gd" /\ op.i = NGroups /\ op'.pc = "cgdone" /\ UNCHANGED <<dsb, dgd, mnt, fs, w, count>>
    BY <1>0, <1>8 DEF CgGdEnd, Op, disk
  <2>2. dsb.used = fs.used /\ \A g \in Groups : dgd[g] = fs.gd[g]
    BY <2>1, MountAssumption DEF FmodInv, Groups
  <2>3. dgd = fs.gd
    BY <2>2 DEF TypeOK, Count, M_ext2fs
  <2>4. QED BY <2>1, <2>2, <2>3
<1>9. CASE UnmountCg
  <2>1. /\ op.pc = "cgdone" /\ op'.pc \in {"markclean", "flush"}
        /\ UNCHANGED <<dsb, dgd, mnt, w, count>>
    BY <1>0, <1>9 DEF UnmountCg, Op, disk
  <2>2. fs'.used = fs.used /\ fs'.gd = fs.gd /\ fs'.fmod = fs.fmod
    BY <1>9 DEF UnmountCg, TypeOK, M_ext2fs
  <2>3. QED BY <2>1, <2>2 DEF FmodInv
<1>10. CASE UnmountFlush
  BY <1>10 DEF UnmountFlush, Forget
<1>11. QED
  BY <1>1, <1>2, <1>3, <1>4, <1>5, <1>6, <1>7, <1>8, <1>9, <1>10 DEF VfsOp

\* So do changes of a file, the buffer cache, crashes and fsck_ext2fs.
LEMMA FmodFile ==
  ASSUME TypeOK, TypeOK', FmodInv, FileOp \/ (\E g \in Groups : BufWrite(g)) \/ Crash \/ Fsck
  PROVE  FmodInv'
<1> SUFFICES ASSUME mnt' = "rw", ~fs'.fmod, count'.io = 0, w'.pc # "fmod" PROVE FmodInv'
  BY DEF FmodInv
<1>1. CASE Crash \/ Panic \/ Fsck
  <2>1. mnt' = "none"
    BY <1>1 DEF Crash, Panic, Fsck, Down, Forget
  <2>2. QED BY <2>1
<1>2. CASE Account
  <2>1. CASE w' = [w EXCEPT !.pc = "fmod"]
    BY <2>1 DEF TypeOK, Worker
  <2>2. CASE fs' = [fs EXCEPT !.fmod = TRUE]
    BY <2>2 DEF TypeOK, M_ext2fs
  <2>3. QED BY <1>2, <2>1, <2>2 DEF Account
<1>3. CASE Bit \/ Bdwrite
  <2>1. UNCHANGED <<dsb, dgd, mnt, fs, op, count>> /\ w.pc # "fmod"
    BY <1>3 DEF Bit, Bdwrite, disk
  <2>2. QED BY <2>1 DEF FmodInv
<1>4. ASSUME NEW g \in Groups, AllocBegin(g) \/ FreeBegin(g) PROVE FmodInv'
  <2>1. UNCHANGED <<dsb, dgd, mnt, fs, op>> /\ w.pc # "fmod"
    BY <1>4 DEF AllocBegin, FreeBegin, disk
  <2>2. count.io = 0
    BY <1>4 DEF AllocBegin, FreeBegin, TypeOK
  <2>3. QED BY <2>1, <2>2 DEF FmodInv
<1>5. ASSUME NEW g \in Groups, BufWrite(g) PROVE FmodInv'
  <2>1. UNCHANGED <<dsb, dgd, mnt, fs, op, count, w>>
    BY <1>5 DEF BufWrite
  <2>2. QED BY <2>1 DEF FmodInv
<1>6. QED BY <1>1, <1>2, <1>3, <1>4, <1>5 DEF FileOp

\* ext2_sync() does not forget: where fmod is clear, superblock and descriptors are on disk
\* as they are in core, although fmod is cleared before they are written and changes go on
\* meanwhile.
THEOREM SyncCovers == Spec => []FmodCovers
<1>1. Init => FmodInv
  BY DEF Init, FmodInv
<1>2. TypeOK /\ TypeOK' /\ FmodInv /\ [Next]_vars => FmodInv'
  <2> SUFFICES ASSUME TypeOK, TypeOK', FmodInv, [Next]_vars PROVE FmodInv'
    OBVIOUS
  <2>1. CASE Next
    BY <2>1, FmodVfs, FmodFile DEF Next
  <2>2. CASE UNCHANGED vars
    BY <2>2 DEF vars, FmodInv
  <2>3. QED BY <2>1, <2>2
<1>3. FmodInv => FmodCovers
  BY DEF FmodInv, FmodCovers
<1>4. QED BY <1>1, <1>2, <1>3, MountTypes, PTL DEF Spec

(***************************************************************************)
(* A volume that is marked clean is consistent.                            *)
(***************************************************************************)

\* ext2_mountfs() reads what CleanInv says of an unmounted volume, and marks it not clean.
LEMMA CleanMount == ASSUME TypeOK, CleanInv, Mount \/ MountMark PROVE CleanInv'
<1>0. NoOp.pc = "idle" /\ NoOp.by = "mount" /\ NoOp \in Op
  BY InitialRecords DEF NoOp
<1>1. CASE Mount
  <2>1. PICK ro \in BOOLEAN :
          /\ mnt' = IF ro THEN "ro" ELSE "rw"
          /\ fs' = [clean |-> ro /\ dsb.clean, errors |-> dsb.errors, wasvalid |-> dsb.clean,
                    fmod |-> ~ro, used |-> dsb.used, gd |-> dgd]
          /\ op' = IF ro THEN NoOp ELSE [NoOp EXCEPT !.pc = "mark"]
    BY <1>1 DEF Mount
  <2>2. /\ op'.pc = IF ro THEN "idle" ELSE "mark"
        /\ op'.by = "mount"
    BY <1>0, <2>1 DEF Op
  <2>3. /\ UNCHANGED <<dsb, dgd, dbm, dino, bbm, bino, w>> /\ mnt = "none" /\ op.pc = "idle"
        /\ lost' = IF Consistent(dsb, dgd, dbm, dino) THEN {} ELSE lost
        /\ ip' = [g \in Groups |-> [n |-> bino[g], mod |-> FALSE]]
    BY <1>1 DEF Mount, disk, cache
  <2>4. w.pc = "idle" /\ bbm = dbm /\ bino = dino
    BY <2>3 DEF CleanInv, Control, Quiet
  <2>5. dsb.clean /\ ~dsb.errors /\ lost' = {} => Consistent(dsb, dgd, dbm, dino)
    BY <2>3 DEF CleanInv, Good
  <2>6. Control'
    BY <2>1, <2>2, <2>3, <2>4 DEF Control
  <2>7. RoInv'
    BY <2>1, <2>2, <2>3, <2>4 DEF RoInv
  <2>8. Quiet' /\ RwInv'
    BY <2>1, <2>2, <2>3, <2>4 DEF Quiet, RwInv
  <2>9. Good'
    BY <2>2, <2>3, <2>5 DEF Good, Consistent
  <2>10. Agree'
    <3>1. CASE fs'.wasvalid /\ ~fs'.errors /\ lost' = {}
      <4>1. Consistent(dsb, dgd, dbm, dino)
        BY <2>1, <2>5, <3>1
      <4>2. fs'.used = bbm /\ fs'.gd = bbm /\ bbm = bino
        BY <2>1, <2>4, <4>1 DEF Consistent
      <4>3. \A g \in Groups : Uncounted(g)' = 0 /\ Unpointed(g)' = 0
        BY <2>3, <2>4 DEF Uncounted, Unpointed
      <4>4. \A g \in Groups : ip'[g].n = bino[g] /\ bbm[g] \in Int
        BY <2>3 DEF TypeOK, Bitmaps
      <4>5. QED BY <2>2, <2>3, <4>2, <4>3, <4>4 DEF Agree
    <3>2. QED BY <3>1 DEF Agree
  <2>11. QED BY <2>6, <2>7, <2>8, <2>9, <2>10 DEF CleanInv
<1>2. CASE MountMark
  <2>1. PICK ok \in BOOLEAN : /\ sbupdate(ok)
                              /\ lost' = IF ~ok /\ dsb.clean THEN lost \cup {"mark"} ELSE lost
    BY <1>2 DEF MountMark
  <2>2. /\ op' = NoOp /\ op.pc = "mark" /\ mnt = "rw" /\ w.pc = "idle"
        /\ UNCHANGED <<dgd, dbm, dino, bbm, bino, mnt, fs, ip, w>>
    BY <1>2 DEF MountMark, cache, CleanInv, Control
  <2>3. ~fs.clean
    BY <2>2 DEF CleanInv, RwInv
  <2>4. dsb'.clean => lost' # {}
    BY <2>1, <2>3, SbupdateType DEF SbOf
  <2>5. Control' /\ RoInv' /\ Quiet'
    BY <1>0, <2>2 DEF Control, RoInv, Quiet
  <2>6. RwInv' /\ Good'
    BY <2>2, <2>3, <2>4 DEF RwInv, Good
  <2>7. Agree'
    BY <1>0, <2>1, <2>2 DEF CleanInv, Agree, Uncounted, Unpointed
  <2>8. QED BY <2>5, <2>6, <2>7 DEF CleanInv
<1>3. QED BY <1>1, <1>2

\* A volume in the hands of ext2_cgupdate() is not marked clean, unless that is on record.
LEMMA NotClean ==
  ASSUME CleanInv,
         \/ op.pc \in {"sb", "gd", "markclean"} \/ w.pc # "idle"
         \/ op.pc = "cgdone" /\ op.by = "unmount"
  PROVE  /\ mnt # "none" /\ op.pc \notin {"mark", "flush"}
         /\ mnt = "ro" => ~dsb.clean /\ ~fs.clean
         /\ mnt = "rw" => (dsb.clean => lost # {})
         /\ mnt = "rw" /\ op.pc # "markclean" => ~fs.clean
         /\ w.pc # "idle" => op.by # "unmount"
<1>1. mnt # "none" /\ op.pc \notin {"mark", "flush"} /\ (w.pc # "idle" => op.by # "unmount")
  BY DEF CleanInv, Control
<1>2. mnt = "ro" => ~dsb.clean /\ ~fs.clean
  BY DEF CleanInv, RoInv, Control
<1>3. mnt = "rw" => (dsb.clean => lost # {}) /\ (op.pc # "markclean" => ~fs.clean)
  BY <1>1 DEF CleanInv, RwInv
<1>4. QED BY <1>1, <1>2, <1>3

\* A step in which a VFS operation only moves on.
LEMMA CleanMoves ==
  ASSUME TypeOK, CleanInv, Sync \/ Unmount \/ VnodesEnd \/ SyncFmod PROVE CleanInv'
<1>0. NoOp.pc = "idle" /\ NoOp.by = "mount" /\ NoOp \in Op /\ op \in Op
  BY InitialRecords DEF NoOp, TypeOK
<1>1. CASE Sync \/ Unmount
  <2>1. UNCHANGED <<dsb, dgd, dbm, dino, bbm, bino, mnt, fs, ip, w, lost>> /\ op.pc = "idle" /\ mnt # "none"
    BY <1>1 DEF Sync, Unmount, disk, cache
  <2>2. /\ op'.pc = "vnodes" /\ op'.todo = Groups
        /\ op'.by = "sync" \/ (op'.by = "unmount" /\ w.pc = "idle")
    BY <1>0, <1>1 DEF Sync, Unmount, Op
  <2>3. Control'
    BY <2>1, <2>2 DEF CleanInv, Control
  <2>4. RoInv' /\ Quiet' /\ RwInv' /\ Good'
    BY <2>1, <2>2 DEF CleanInv, RoInv, Quiet, RwInv, Good
  <2>5. Agree'
    BY <2>1, <2>2 DEF CleanInv, Agree, Uncounted, Unpointed
  <2>6. QED BY <2>3, <2>4, <2>5 DEF CleanInv
<1>2. CASE VnodesEnd
  <2>1. UNCHANGED <<dsb, dgd, dbm, dino, bbm, bino, mnt, fs, ip, w, lost>> /\ op.pc = "vnodes" /\ op.todo = {}
    BY <1>2 DEF VnodesEnd, disk, cache
  <2>2. /\ op'.pc = IF op.by = "sync" THEN "fmod" ELSE IF mnt = "ro" THEN "flush" ELSE "sb"
        /\ op'.by = op.by /\ op.by \in {"sync", "unmount"} /\ mnt # "none"
    BY <1>0, <1>2 DEF VnodesEnd, Op, CleanInv, Control
  <2>3. Control'
    BY <2>1, <2>2 DEF CleanInv, Control
  <2>4. RoInv' /\ Quiet'
    BY <2>1, <2>2 DEF CleanInv, RoInv, Quiet
  <2>5. RwInv'
    BY <2>1, <2>2 DEF CleanInv, RwInv
  <2>6. Good'
    <3>1. CASE op'.pc = "flush"
      BY <2>1, <2>2, <3>1 DEF CleanInv, Good, Quiet
    <3>2. CASE op'.pc # "flush"
      BY <2>1, <3>2 DEF CleanInv, Good
    <3>3. QED BY <3>1, <3>2
  <2>7. Agree'
    BY <2>1, <2>2 DEF CleanInv, Agree, Uncounted, Unpointed
  <2>8. QED BY <2>3, <2>4, <2>5, <2>6, <2>7 DEF CleanInv
<1>3. CASE SyncFmod
  <2>1. /\ UNCHANGED <<dsb, dgd, dbm, dino, bbm, bino, mnt, ip, w, lost>>
        /\ op.pc \in {"fmod", "cgdone"} /\ op.by = "sync"
        /\ op'.pc \in {"idle", "sb"}
        /\ op'.pc = "idle" => op'.by = "mount"
        /\ op'.pc = "sb" => op'.by = "sync" /\ fs.fmod
    BY <1>0, <1>3 DEF SyncFmod, disk, cache, Op
  <2>2. /\ fs'.clean = fs.clean /\ fs'.wasvalid = fs.wasvalid /\ fs'.errors = fs.errors
        /\ fs'.used = fs.used /\ fs'.gd = fs.gd /\ (fs'.fmod => fs.fmod)
    BY <1>3 DEF SyncFmod, TypeOK, M_ext2fs
  <2>3. Control'
    BY <2>1 DEF CleanInv, Control
  <2>4. RoInv' /\ Quiet'
    BY <2>1, <2>2 DEF CleanInv, RoInv, Quiet
  <2>5. RwInv' /\ Good'
    BY <2>1, <2>2 DEF CleanInv, RwInv, Good
  <2>6. Agree'
    BY <2>1, <2>2 DEF CleanInv, Agree, Uncounted, Unpointed
  <2>7. QED BY <2>3, <2>4, <2>5, <2>6 DEF CleanInv
<1>4. QED BY <1>1, <1>2, <1>3

\* ext2_cgupdate() writes a superblock that is not clean.
LEMMA CleanCg ==
  ASSUME TypeOK, CleanInv, CgSb \/ CgGd \/ CgGdEnd PROVE CleanInv'
<1>0. op \in Op
  BY DEF TypeOK
<1>1. /\ UNCHANGED <<dbm, dino, bbm, bino, mnt, fs, ip, w, lost>>
      /\ op.pc \in {"sb", "gd"} /\ op'.pc \in {"gd", "cgdone"} /\ op'.by = op.by
  BY <1>0 DEF CgSb, CgGd, CgGdEnd, disk, cache, Op
<1>2. dsb' = dsb \/ dsb' = SbOf(fs)
  BY DEF CgSb, CgGd, CgGdEnd, disk, sbupdate
<1>3. /\ mnt # "none"
      /\ mnt = "ro" => ~dsb.clean /\ ~fs.clean
      /\ mnt = "rw" => (dsb.clean => lost # {}) /\ ~fs.clean
  BY <1>1, NotClean
<1>4. dsb'.clean => dsb.clean /\ dsb' = dsb
  BY <1>1, <1>2, <1>3 DEF SbOf, TypeOK
<1>5. Control'
  BY <1>1 DEF CleanInv, Control
<1>6. RoInv' /\ Quiet' /\ RwInv' /\ Good'
  <2>1. dsb'.clean => mnt = "rw" /\ lost # {}
    BY <1>3, <1>4 DEF TypeOK
  <2>2. QED BY <1>1, <1>3, <2>1 DEF RoInv, Quiet, RwInv, Good
<1>7. Agree'
  BY <1>1 DEF CleanInv, Agree, Uncounted, Unpointed
<1>8. QED BY <1>5, <1>6, <1>7 DEF CleanInv

\* The visit of a vnode brings its inode into the cache, or leaves a record that it could not.
LEMMA CleanVnode ==
  ASSUME TypeOK, CleanInv, NEW g \in Groups, Vnode(g) PROVE CleanInv'
<1>0. PICK ok \in BOOLEAN : /\ update(g, op.by = "sync" /\ op.wait, ok)
                            /\ lost' = IF ok THEN lost ELSE lost \cup {"inode"}
  BY DEF Vnode
<1> DEFINE todo == ip[g].mod /\ mnt = "rw"
           wait == op.by = "sync" /\ op.wait
<1>1. /\ ip' = [ip EXCEPT ![g].mod = IF mnt = "rw" THEN FALSE ELSE @]
      /\ bino' = IF todo /\ ok THEN [bino EXCEPT ![g] = ip[g].n] ELSE bino
      /\ dino' = IF todo /\ ok /\ wait THEN [dino EXCEPT ![g] = ip[g].n] ELSE dino
      /\ lost' = IF ok THEN lost ELSE lost \cup {"inode"}
  BY <1>0 DEF update
<1>2. /\ UNCHANGED <<dsb, dgd, dbm, bbm, mnt, fs, w>>
      /\ op.pc = "vnodes" /\ op'.pc = "vnodes" /\ op'.by = op.by /\ op'.todo = op.todo \ {g}
  BY DEF Vnode, TypeOK, Op
<1>3. mnt # "rw" => UNCHANGED <<bino, dino>>
  BY <1>1
<1>4. mnt = "rw" => /\ ip'[g].n = ip[g].n /\ ~ip'[g].mod
                    /\ \A h \in Groups \ {g} : ip'[h] = ip[h] /\ bino'[h] = bino[h]
                    /\ ok /\ ip[g].mod => bino'[g] = ip[g].n
                    /\ ~ip[g].mod => bino'[g] = bino[g]
  <2>1. mnt = "rw" => ip' = [ip EXCEPT ![g].mod = FALSE]
    BY <1>1
  <2>2. mnt = "rw" => /\ ip'[g].n = ip[g].n /\ ~ip'[g].mod
                      /\ \A h \in Groups \ {g} : ip'[h] = ip[h]
    BY <2>1 DEF TypeOK
  <2>3. QED BY <1>1, <2>2 DEF TypeOK
<1>5. lost' = {} => ok /\ lost = {}
  BY <1>1
<1>6. Control'
  BY <1>2 DEF CleanInv, Control
<1>7. RoInv' /\ Quiet'
  BY <1>2, <1>3 DEF CleanInv, RoInv, Quiet, Control
<1>8. RwInv'
  BY <1>2, <1>5 DEF CleanInv, RwInv
<1>9. Good'
  <2>1. mnt # "none"
    BY <1>2 DEF CleanInv, Control
  <2>2. CASE mnt = "rw"
    BY <1>2, <1>5, <2>2 DEF CleanInv, RwInv, Good
  <2>3. CASE mnt # "rw"
    BY <1>2, <1>3, <1>5, <2>3 DEF CleanInv, Good
  <2>4. QED BY <2>2, <2>3
<1>10. Agree'
  <2>1. CASE mnt = "rw" /\ fs.wasvalid /\ ~fs.errors /\ lost' = {}
    <3>1. /\ \A h \in Groups : /\ fs.used[h] = bbm[h] - Uncounted(h)
                               /\ fs.gd[h] = bbm[h] - Uncounted(h)
                               /\ ip[h].n = bbm[h] - Unpointed(h)
                               /\ ~ip[h].mod => bino[h] = ip[h].n
          /\ op.by = "unmount" => \A h \in Groups : h \notin op.todo => ~ip[h].mod
      BY <1>2, <1>5, <2>1 DEF CleanInv, Agree
    <3>2. \A h \in Groups : ip'[h].n = ip[h].n /\ (~ip'[h].mod => bino'[h] = ip[h].n)
      BY <1>4, <1>5, <2>1, <3>1
    <3>3. \A h \in Groups : h \notin op'.todo /\ op.by = "unmount" => ~ip'[h].mod
      BY <1>2, <1>4, <2>1, <3>1
    <3>4. \A h \in Groups : Uncounted(h)' = Uncounted(h) /\ Unpointed(h)' = Unpointed(h)
      BY <1>2 DEF Uncounted, Unpointed
    <3>5. QED BY <1>2, <3>1, <3>2, <3>3, <3>4 DEF Agree
  <2>2. QED BY <1>2, <2>1 DEF Agree
<1>11. QED BY <1>6, <1>7, <1>8, <1>9, <1>10 DEF CleanInv

\* ext2_unmount(): the volume is marked clean when counters and descriptors are on disk and
\* the rest is in the cache, and the cache is written last.
LEMMA CleanUnmount ==
  ASSUME TypeOK, CleanInv, UnmountCg \/ UnmountMark \/ UnmountFlush PROVE CleanInv'
<1>0. op \in Op
  BY DEF TypeOK
<1>1. CASE UnmountCg
  <2>1. /\ UNCHANGED <<dsb, dgd, dbm, dino, bbm, bino, mnt, ip, w>>
        /\ op.pc = "cgdone" /\ op.by = "unmount" /\ op'.by = "unmount"
        /\ op'.pc \in {"markclean", "flush"}
    BY <1>0, <1>1 DEF UnmountCg, disk, cache, Op
  <2>2. /\ fs'.wasvalid = fs.wasvalid /\ fs'.errors = fs.errors
        /\ fs'.used = fs.used /\ fs'.gd = fs.gd
        /\ fs'.clean => fs.clean \/ fs.wasvalid
    BY <1>1 DEF UnmountCg, TypeOK, M_ext2fs
  <2>3. /\ lost' = {} => lost = {}
        /\ op'.pc = "markclean" /\ lost' = {} => dgd = fs.gd
    BY <1>0, <1>1 DEF UnmountCg, Op
  <2>4. mnt = "rw" /\ ~fs.clean /\ (dsb.clean => lost # {})
    BY <2>1, NotClean DEF CleanInv, Control, TypeOK
  <2>5. Control' /\ RoInv' /\ Quiet'
    BY <2>1, <2>4 DEF CleanInv, Control, RoInv, Quiet
  <2>6. RwInv' /\ Good'
    BY <2>1, <2>2, <2>3, <2>4 DEF RwInv, Good
  <2>7. Agree'
    BY <2>1, <2>2, <2>3 DEF CleanInv, Agree, Uncounted, Unpointed
  <2>8. QED BY <2>5, <2>6, <2>7 DEF CleanInv
<1>2. CASE UnmountMark
  <2>1. PICK ok \in BOOLEAN : sbupdate(ok)
    BY <1>2 DEF UnmountMark
  <2>2. dsb' = dsb \/ dsb' = SbOf(fs)
    BY <2>1, SbupdateType
  <2>3. /\ UNCHANGED <<dgd, dbm, dino, bbm, bino, mnt, fs, ip, w, lost>>
        /\ op.pc = "markclean" /\ op'.pc = "flush" /\ op'.by = op.by
    BY <1>0, <1>2 DEF UnmountMark, cache, Op
  <2>4. /\ mnt = "rw" /\ op.by = "unmount" /\ w.pc = "idle"
        /\ fs.clean => fs.wasvalid
        /\ dsb.clean => lost # {}
    BY <2>3 DEF CleanInv, Control, RwInv
  <2>5. Control' /\ RoInv' /\ Quiet' /\ RwInv'
    BY <2>3, <2>4 DEF Control, RoInv, Quiet, RwInv
  <2>6. Good'
    <3>1. CASE dsb'.clean /\ ~dsb'.errors /\ lost = {}
      <4>1. dsb' = SbOf(fs) /\ fs.wasvalid /\ ~fs.errors
        BY <2>2, <2>4, <3>1 DEF SbOf
      <4>2. /\ \A g \in Groups : Uncounted(g) = 0 /\ Unpointed(g) = 0
            /\ \A g \in Groups : bbm[g] \in Int /\ bbm[g] - 0 = bbm[g]
        BY <2>4 DEF Uncounted, Unpointed, TypeOK, Bitmaps
      <4>3. /\ \A g \in Groups : fs.used[g] = bbm[g] /\ fs.gd[g] = bbm[g] /\ bino[g] = bbm[g]
            /\ dgd = fs.gd
        BY <2>3, <2>4, <3>1, <4>1, <4>2 DEF CleanInv, Agree
      <4>4. fs.used = fs.gd /\ fs.gd = bbm /\ bbm = bino
        BY <4>3 DEF TypeOK, M_ext2fs, Count, Bitmaps
      <4>5. QED BY <2>3, <4>1, <4>3, <4>4 DEF Good, Consistent, SbOf
    <3>2. QED BY <2>3, <3>1 DEF Good
  <2>7. Agree'
    BY <2>3 DEF CleanInv, Agree, Uncounted, Unpointed
  <2>8. QED BY <2>5, <2>6, <2>7 DEF CleanInv
<1>3. CASE UnmountFlush
  <2>1. /\ op.pc = "flush" /\ UNCHANGED <<dsb, dgd>>
        /\ mnt' = "none" /\ op' = NoOp /\ w' = NoWork
    BY <1>3 DEF UnmountFlush, Forget
  <2>2. /\ bbm' = dbm' /\ bino' = dino'
        /\ lost' = {} => lost = {} /\ dbm' = bbm /\ dino' = bino
    BY <1>3 DEF UnmountFlush, cache
  <2>3. Control' /\ RoInv' /\ Quiet' /\ RwInv' /\ Agree'
    BY <2>1, <2>2 DEF Control, RoInv, Quiet, RwInv, Agree, NoOp, NoWork
  <2>4. Good'
    BY <2>1, <2>2 DEF CleanInv, Good, NoOp, Consistent
  <2>5. QED BY <2>3, <2>4 DEF CleanInv
<1>4. QED BY <1>1, <1>2, <1>3

\* The steps of a change: bitmap, counters and inode are apart by what the change has done.
LEMMA CleanChange ==
  ASSUME TypeOK, TypeOK', CleanInv, Bit \/ Account \/ Bdwrite PROVE CleanInv'
<1>0. w.g \in Groups /\ w.d \in {-1, 1} /\ w \in Worker /\ fs \in M_ext2fs
  BY DEF TypeOK, Worker
<1>1. w.pc # "idle" /\ UNCHANGED <<dsb, dgd, dbm, dino, bino, mnt, op, lost>>
  BY DEF Bit, Account, Bdwrite, disk, cache
<1>2. /\ mnt # "none" /\ op.pc \notin {"mark", "flush"} /\ op.by # "unmount"
      /\ mnt = "ro" => ~dsb.clean /\ ~fs.clean
      /\ mnt = "rw" => (dsb.clean => lost # {}) /\ ~fs.clean
  BY <1>1, NotClean DEF CleanInv, Control
<1>3. fs'.clean = fs.clean /\ fs'.wasvalid = fs.wasvalid /\ fs'.errors = fs.errors
  BY DEF Bit, Account, Bdwrite, TypeOK, M_ext2fs
<1>4. Control'
  BY <1>1, <1>2 DEF CleanInv, Control
<1>5. RoInv' /\ Quiet' /\ RwInv'
  BY <1>1, <1>2, <1>3 DEF RoInv, Quiet, RwInv
<1>6. Good'
  BY <1>1, <1>2 DEF CleanInv, Good
<1>7. Agree'
  <2> SUFFICES ASSUME mnt = "rw", fs.wasvalid, ~fs.errors, lost = {}
               PROVE  \A g \in Groups : /\ fs'.used[g] = bbm'[g] - Uncounted(g)'
                                        /\ fs'.gd[g] = bbm'[g] - Uncounted(g)'
                                        /\ ip'[g].n = bbm'[g] - Unpointed(g)'
                                        /\ ~ip'[g].mod => bino'[g] = ip'[g].n
    BY <1>1, <1>2, <1>3 DEF Agree, CleanInv, Control
  <2> TAKE g \in Groups
  <2>1. /\ fs.used[g] = bbm[g] - Uncounted(g) /\ fs.gd[g] = bbm[g] - Uncounted(g)
        /\ ip[g].n = bbm[g] - Unpointed(g)
        /\ ~ip[g].mod => bino[g] = ip[g].n
    BY DEF CleanInv, Agree
  <2>2. bbm[g] \in Int
    BY DEF TypeOK, Bitmaps
  <2>3. CASE Bit
    <3>1. /\ w.pc = "bit" /\ w'.pc = "count" /\ w'.g = w.g /\ w'.d = w.d /\ UNCHANGED <<fs, ip>>
          /\ bbm'[g] = IF g = w.g THEN bbm[g] + w.d ELSE bbm[g]
      BY <1>0, <2>3 DEF Bit, Worker, TypeOK, Bitmaps
    <3>2. QED BY <1>0, <1>1, <2>1, <2>2, <3>1 DEF Uncounted, Unpointed
  <2>4. CASE w.pc = "count" /\ Account
    <3>1. /\ w'.pc = "fmod" /\ w'.g = w.g /\ w'.d = w.d /\ UNCHANGED <<bbm, ip>>
          /\ fs'.used[g] = IF g = w.g THEN fs.used[g] + w.d ELSE fs.used[g]
          /\ fs'.gd[g] = IF g = w.g THEN fs.gd[g] + w.d ELSE fs.gd[g]
      <4>1. /\ w' = [w EXCEPT !.pc = "fmod"] /\ UNCHANGED <<bbm, ip>>
            /\ fs' = [fs EXCEPT !.used[w.g] = @ + w.d, !.gd[w.g] = @ + w.d]
        BY <2>4 DEF Account, cache
      <4>2. /\ fs'.used = [fs.used EXCEPT ![w.g] = @ + w.d]
            /\ fs'.gd = [fs.gd EXCEPT ![w.g] = @ + w.d]
        BY <1>0, <4>1 DEF M_ext2fs
      <4>3. fs.used \in Count /\ fs.gd \in Count
        BY <1>0 DEF M_ext2fs
      <4>4. QED BY <1>0, <4>1, <4>2, <4>3 DEF Worker, Count
    <3>2. QED BY <1>0, <1>1, <2>1, <2>2, <2>4, <3>1 DEF Uncounted, Unpointed
  <2>5. CASE w.pc = "fmod" /\ Account
    <3>1. /\ w'.pc = "bdwrite" /\ w'.g = w.g /\ w'.d = w.d /\ UNCHANGED <<bbm, ip>>
          /\ fs'.used = fs.used /\ fs'.gd = fs.gd
      BY <1>0, <2>5 DEF Account, Worker, cache, M_ext2fs
    <3>2. QED BY <1>0, <1>1, <2>1, <2>2, <2>5, <3>1 DEF Uncounted, Unpointed
  <2>6. CASE Bdwrite
    <3>1. /\ w.pc = "bdwrite" /\ w'.pc = "idle" /\ UNCHANGED <<bbm, fs>>
          /\ ip'[g].n = IF g = w.g /\ w.d = 1 THEN ip[g].n + 1 ELSE ip[g].n
          /\ ~ip'[g].mod => ip'[g] = ip[g]
      BY <1>0, <2>6 DEF Bdwrite, NoWork, cache, TypeOK
    <3>2. QED BY <1>0, <1>1, <2>1, <2>2, <3>1 DEF Uncounted, Unpointed
  <2>7. QED BY <2>3, <2>4, <2>5, <2>6 DEF Account
<1>8. QED BY <1>4, <1>5, <1>6, <1>7 DEF CleanInv

\* The start of a change: never in a mount or an unmount.
LEMMA CleanBegin ==
  ASSUME TypeOK, TypeOK', CleanInv, NEW g \in Groups, AllocBegin(g) \/ FreeBegin(g)
  PROVE  CleanInv'
<1>1. /\ UNCHANGED <<dsb, dgd, dbm, bbm, mnt, fs, op, lost>>
      /\ w.pc = "idle" /\ w'.pc = "bit" /\ w'.g = g
      /\ mnt = "rw" \/ (mnt = "ro" /\ ~dsb.clean)
      /\ op.pc = "idle" \/ op.by = "sync"
  BY DEF AllocBegin, FreeBegin, Open, disk, cache
<1>2. op.by # "unmount" /\ op.pc \notin {"mark", "markclean", "flush"}
  BY <1>1 DEF CleanInv, Control
<1>3. Control'
  BY <1>1, <1>2 DEF CleanInv, Control
<1>4. RoInv' /\ Quiet'
  BY <1>1, <1>2 DEF CleanInv, RoInv, Quiet
<1>5. RwInv' /\ Good'
  BY <1>1, <1>2 DEF CleanInv, RwInv, Good
<1>6. Agree'
  <2> SUFFICES ASSUME mnt = "rw", fs.wasvalid, ~fs.errors, lost = {}
               PROVE  \A h \in Groups : /\ fs'.used[h] = bbm'[h] - Uncounted(h)'
                                        /\ fs'.gd[h] = bbm'[h] - Uncounted(h)'
                                        /\ ip'[h].n = bbm'[h] - Unpointed(h)'
                                        /\ ~ip'[h].mod => bino'[h] = ip'[h].n
    BY <1>1, <1>2 DEF Agree
  <2> TAKE h \in Groups
  <2>1. /\ fs.used[h] = bbm[h] /\ fs.gd[h] = bbm[h] /\ ip[h].n = bbm[h]
        /\ ~ip[h].mod => bino[h] = ip[h].n
    <3>1. bbm[h] \in Int /\ Uncounted(h) = 0 /\ Unpointed(h) = 0
      BY <1>1 DEF TypeOK, Bitmaps, Uncounted, Unpointed
    <3>2. QED BY <3>1 DEF CleanInv, Agree
  <2>2. bbm[h] \in Int /\ Uncounted(h)' = 0
    BY <1>1 DEF TypeOK, Bitmaps, Uncounted
  <2>3. CASE AllocBegin(g)
    <3>1. w'.d = 1 /\ UNCHANGED <<ip, bino>>
      BY <2>3 DEF AllocBegin, cache
    <3>2. QED BY <1>1, <2>1, <2>2, <3>1 DEF Unpointed
  <2>4. CASE FreeBegin(g)
    <3>1. /\ w'.d = -1
          /\ h = g => ip'[h].n = ip[h].n - 1 /\ bino'[h] = ip[h].n - 1
          /\ h # g => ip'[h] = ip[h] /\ bino'[h] = bino[h]
      BY <2>4 DEF FreeBegin, TypeOK
    <3>2. QED BY <1>1, <2>1, <2>2, <3>1 DEF Unpointed
  <2>5. QED BY <2>3, <2>4
<1>7. QED BY <1>3, <1>4, <1>5, <1>6 DEF CleanInv

\* The buffer cache, crashes and fsck_ext2fs.
LEMMA CleanWorld ==
  ASSUME TypeOK, CleanInv, (\E g \in Groups : BufWrite(g)) \/ Panic \/ Crash \/ Fsck
  PROVE  CleanInv'
<1>0. NoOp.pc = "idle" /\ NoOp.by = "mount" /\ NoWork.pc = "idle"
  BY DEF NoOp, NoWork
<1>1. ASSUME NEW g \in Groups, BufWrite(g) PROVE CleanInv'
  <2>1. UNCHANGED <<dsb, dgd, bbm, bino, mnt, fs, ip, op, w, lost>>
    BY <1>1 DEF BufWrite, cache
  <2>2. ~(bbm = dbm /\ bino = dino)
    BY <1>1 DEF BufWrite
  <2>3. Quiet' /\ Control' /\ RoInv' /\ RwInv'
    BY <2>1, <2>2 DEF CleanInv, Quiet, Control, RoInv, RwInv
  <2>4. Good'
    <3>1. mnt = "rw" \/ ~dsb.clean
      BY <2>2 DEF CleanInv, Quiet, TypeOK
    <3>2. QED BY <2>1, <2>2, <3>1 DEF CleanInv, RwInv, Quiet, Good
  <2>5. Agree'
    BY <2>1 DEF CleanInv, Agree, Uncounted, Unpointed
  <2>6. QED BY <2>3, <2>4, <2>5 DEF CleanInv
<1>2. CASE Panic \/ Crash
  <2>1. Down
    BY <1>2 DEF Panic, Crash
  <2>2. /\ mnt' = "none" /\ op' = NoOp /\ w' = NoWork /\ bbm' = dbm /\ bino' = dino
        /\ UNCHANGED <<dsb, dgd, dbm, dino>>
        /\ lost' = {} => lost = {} /\ ~(op.pc = "flush" /\ dsb.clean)
    BY <2>1 DEF Down, Forget, disk
  <2>3. Control' /\ RoInv' /\ Quiet' /\ RwInv' /\ Agree'
    BY <1>0, <2>2 DEF Control, RoInv, Quiet, RwInv, Agree
  <2>4. Good'
    BY <1>0, <2>2 DEF CleanInv, Good, Consistent
  <2>5. QED BY <2>3, <2>4 DEF CleanInv
<1>3. CASE Fsck
  <2>1. /\ mnt = "none" /\ UNCHANGED <<mnt, fs, ip, op, w>>
        /\ dsb'.used = dgd' /\ dgd' = dbm' /\ dbm' = dino' /\ bbm' = dbm' /\ bino' = dino'
    BY <1>3 DEF Fsck
  <2>2. Control' /\ RoInv' /\ Quiet' /\ RwInv' /\ Agree'
    BY <2>1 DEF CleanInv, Control, RoInv, Quiet, RwInv, Agree
  <2>3. Good'
    BY <2>1 DEF Good, Consistent
  <2>4. QED BY <2>2, <2>3 DEF CleanInv
<1>4. QED BY <1>1, <1>2, <1>3

\* A volume whose superblock says that it is good is good whenever power may be lost, but
\* for the ways on record, through any number of mounts, errors, crashes and repairs.
THEOREM CleanIsConsistent == Spec => []CleanMeansConsistent
<1>1. Init => CleanInv
  <2> SUFFICES ASSUME Init PROVE CleanInv
    OBVIOUS
  <2>1. Control /\ RoInv /\ Quiet /\ RwInv /\ Agree
    BY DEF Init, Control, RoInv, Quiet, RwInv, Agree, NoOp, NoWork
  <2>2. Good
    BY DEF Init, Good, Consistent, NoOp
  <2>3. QED BY <2>1, <2>2 DEF CleanInv
<1>2. TypeOK /\ TypeOK' /\ CleanInv /\ [Next]_vars => CleanInv'
  <2> SUFFICES ASSUME TypeOK, TypeOK', CleanInv, [Next]_vars PROVE CleanInv'
    OBVIOUS
  <2>1. CASE VfsOp
    BY <2>1, CleanMount, CleanMoves, CleanCg, CleanVnode, CleanUnmount DEF VfsOp
  <2>2. CASE FileOp
    BY <2>2, CleanChange, CleanBegin, CleanWorld DEF FileOp
  <2>3. CASE (\E g \in Groups : BufWrite(g)) \/ Crash \/ Fsck
    BY <2>3, CleanWorld
  <2>4. CASE UNCHANGED vars
    BY <2>4 DEF vars, CleanInv, Control, RoInv, Quiet, RwInv, Good, Agree, Uncounted, Unpointed
  <2>5. QED BY <2>1, <2>2, <2>3, <2>4 DEF Next
<1>3. CleanInv => CleanMeansConsistent
  BY DEF CleanInv, Good, CleanMeansConsistent
<1>4. QED BY <1>1, <1>2, <1>3, MountTypes, PTL DEF Spec
=============================================================================
