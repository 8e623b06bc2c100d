------------------------------ MODULE Ext2Vnops ------------------------------
(***************************************************************************)
(* The calls of kext/ext2_vnops.c that change the name space: create,      *)
(* mknod and symlink (ext2_makeinode), link, remove, mkdir, rmdir and      *)
(* rename, with ext2_dirempty() and ext2_checkpath() of ext2_lookup.c.     *)
(*                                                                         *)
(* One call runs at a time, in the steps between which the disk may fail   *)
(* or the machine may stop, and in which ext2_sync() may write any inode.  *)
(* The calls find their entries where the lookup left them (Ext2Dir is     *)
(* about when that is so), but for a rename within one directory, which    *)
(* removes what is at the place of another one.  A directory block is      *)
(* written at once, as on every mount that is not MNT_ASYNC, so that ent   *)
(* and dotdot are what is on the disk; of an inode the disk has the older  *)
(* state.                                                                  *)
(*                                                                         *)
(* A call that is refused before it changed anything (EPERM, EMLINK at its *)
(* start, EXDEV) does not begin, and a lookup that fails is no call.       *)
(***************************************************************************)
EXTENDS Integers, FiniteSets

CONSTANTS
  Inos,       \* inode numbers
  Root,       \* EXT2_ROOTINO
  NoIno,      \* 0
  Names,      \* names of entries other than "." and ".."
  LinkMax,    \* EXT2_LINK_MAX
  MaxFaults,  \* bound: reads and writes that fail
  Ftypes      \* whether the file system may have EXT2F_INCOMPAT_FTYPE

ASSUME VnopsAssumption ==
  /\ Root \in Inos /\ NoIno \notin Inos
  /\ IsFiniteSet(Inos) /\ IsFiniteSet(Names) /\ Names # {}
  /\ LinkMax \in Nat /\ LinkMax > 2 /\ MaxFaults \in Nat
  /\ Ftypes \subseteq BOOLEAN /\ Ftypes # {}

VARIABLES
  ftype,   \* the feature FTYPE: it decides what is in the entry ".."
  ent,     \* ent[d][n]: the inode that n names in directory d
  dotdot,  \* dotdot[d]: the inode that ".." names in d
  core,    \* the inodes in memory
  disk,    \* the inodes in the inode table
  used,    \* the inodes that are allocated
  call,    \* the running call
  faults,  \* reads and writes that failed
  stray    \* whether an entry too many is left, or another one than it should be gone

tree == <<ent, dotdot>>
vars == <<ftype, ent, dotdot, core, disk, used, call, faults, stray>>

Inode == [mode : {"free", "file", "dir"}, nlink : Int, rename : BOOLEAN]
Dinode == [mode : {"free", "file", "dir"}, nlink : Int]
Freed == [mode |-> "free", nlink |-> 0, rename |-> FALSE]
\* ext2_i2ei(), of what is modelled.
I2ei(ip) == [mode |-> ip.mode, nlink |-> ip.nlink]
NoEntries == [n \in Names |-> NoIno]

\* The arguments of the call and what it keeps in local variables: the directory
\* and the name, the inode that it is about, and of a rename the second directory,
\* name and inode.
Calls == [op : {"none", "makeinode", "mkdir", "link", "remove", "rmdir", "rename"},
          pc : {"idle", "init", "parent", "fill", "enter", "made", "bad", "checkpath", "target",
                "rewrite", "oldparent", "dotdot", "unlink", "panic"},
          d : Inos, n : Names, ip : Inos \cup {NoIno},
          td : Inos, tn : Names, xp : Inos \cup {NoIno}]

NoCall == [op |-> "none", pc |-> "idle", d |-> Root, n |-> CHOOSE n \in Names : TRUE,
           ip |-> NoIno, td |-> Root, tn |-> CHOOSE n \in Names : TRUE, xp |-> NoIno]

IsDir(i)  == i # NoIno /\ core[i].mode = "dir"
\* A tree that has lost or kept a wrong entry is not followed further than the call that
\* did it.
Idle      == call.pc = "idle" /\ ~stray

\* A file system that newfs_ext2fs made: the root directory alone.
Init ==
  /\ ftype \in Ftypes
  /\ ent = [d \in Inos |-> NoEntries]
  /\ dotdot = [d \in Inos |-> IF d = Root THEN Root ELSE NoIno]
  /\ core = [i \in Inos |-> IF i = Root THEN [mode |-> "dir", nlink |-> 2, rename |-> FALSE]
                            ELSE Freed]
  /\ disk = [i \in Inos |-> I2ei(core[i])]
  /\ used = {Root}
  /\ call = NoCall
  /\ faults = 0 /\ stray = FALSE

Goto(p)      == call' = [call EXCEPT !.pc = p]
Return       == call' = NoCall
Fault        == faults < MaxFaults /\ faults' = faults + 1
NoFault      == UNCHANGED faults
Nlink(c, i, k) == [c EXCEPT ![i].nlink = @ + k]

\* ext2_update() with waitfor: the inode as it is in c goes to the disk, or that fails.
Updated(c, i) == disk' = [disk EXCEPT ![i] = I2ei(c[i])] /\ NoFault
UpdateFails   == Fault /\ UNCHANGED disk

\* The call begins: d is a directory that is not removed (ext2_lookup_ino() refuses
\* to look for room in one that is).
Live(d) == d \in used /\ IsDir(d) /\ core[d].nlink # 0

(***************************************************************************)
(* ext2_makeinode, ext2_mkdir and ext2_link: a new name.                   *)
(***************************************************************************)

\* ext2_valloc() and the fields that its caller sets.  A new directory has two
\* links, a new file has one.
Makeinode(op, d, n) ==
  /\ Idle /\ Live(d) /\ ent[d][n] = NoIno
  /\ op = "mkdir" => core[d].nlink < LinkMax
  /\ \E i \in Inos \ used :
       /\ used' = used \cup {i}
       /\ core' = [core EXCEPT ![i] =
                     IF op = "mkdir" THEN [mode |-> "dir", nlink |-> 2, rename |-> FALSE]
                     ELSE [mode |-> "file", nlink |-> 1, rename |-> FALSE]]
       /\ call' = [NoCall EXCEPT !.op = op, !.pc = "init", !.d = d, !.n = n, !.ip = i]
  /\ UNCHANGED <<ftype, tree, disk, faults, stray>>

\* Mutation: a regular file is entered before its inode is written.
MakeinodeInitAsync ==
  /\ call.op = "makeinode" /\ call.pc = "init"
  /\ Goto("enter") /\ NoFault
  /\ UNCHANGED <<ftype, tree, core, disk, used, stray>>

\* "Make sure inode goes to disk before directory entry."
MakeinodeInit ==
  /\ call.op = "makeinode" /\ call.pc = "init"
  /\ \/ Updated(core, call.ip) /\ Goto("enter")
     \/ UpdateFails /\ Goto("bad")
  /\ UNCHANGED <<ftype, tree, core, used, stray>>

\* The error of this first ext2_update() is overwritten by that of the second one.
MkdirInit ==
  /\ call.op = "mkdir" /\ call.pc = "init"
  /\ \/ Updated(core, call.ip) /\ UNCHANGED stray
     \/ UpdateFails /\ stray' = TRUE
  /\ Goto("parent")
  /\ UNCHANGED <<ftype, tree, core, used>>

\* Mutation: the new directory's ".." is not counted.
MkdirParentUncounted ==
  /\ call.op = "mkdir" /\ call.pc = "parent"
  /\ Updated(core, call.d) /\ Goto("fill")
  /\ UNCHANGED <<ftype, tree, core, used, stray>>

\* The parent's link count is raised, and stays so if it cannot be written.
MkdirParent ==
  LET c == Nlink(core, call.d, 1) IN
  /\ call.op = "mkdir" /\ call.pc = "parent"
  /\ core' = c
  /\ \/ Updated(c, call.d) /\ Goto("fill")
     \/ UpdateFails /\ Goto("bad")
  /\ UNCHANGED <<ftype, tree, used, stray>>

\* The block with "." and ".." is allocated and written.
MkdirFill ==
  /\ call.op = "mkdir" /\ call.pc = "fill"
  /\ \/ /\ dotdot' = [dotdot EXCEPT ![call.ip] = call.d]
        /\ ent' = [ent EXCEPT ![call.ip] = NoEntries]
        /\ Goto("enter") /\ NoFault
        /\ UNCHANGED core
     \/ /\ Fault
        /\ core' = Nlink(core, call.d, -1)
        /\ Goto("bad")
        /\ UNCHANGED tree
  /\ UNCHANGED <<ftype, disk, used, stray>>

\* ext2_link() raises the count first.  The VFS layer links no directories.
Link(i, d, n) ==
  LET c == Nlink(core, i, 1) IN
  /\ Idle /\ Live(d) /\ ent[d][n] = NoIno
  /\ i \in used /\ core[i].mode = "file" /\ core[i].nlink \in 1..(LinkMax - 1)
  /\ \/ /\ core' = c /\ Updated(c, i)
        /\ call' = [NoCall EXCEPT !.op = "link", !.pc = "enter", !.d = d, !.n = n, !.ip = i]
     \/ UpdateFails /\ UNCHANGED <<core, call>>
  /\ UNCHANGED <<ftype, tree, used, stray>>

\* What ext2_direnter() does to the directory: it enters the name or fails, and when
\* it fails to cut off the directory's tail the name has been entered.
Direnter(d, n, i, entered) ==
  /\ UNCHANGED dotdot
  /\ \/ /\ entered /\ NoFault
        /\ ent' = [ent EXCEPT ![d][n] = i]
        /\ UNCHANGED stray
     \/ ~entered /\ Fault /\ UNCHANGED <<ent, stray>>
     \/ /\ ~entered /\ Fault
        /\ ent' = [ent EXCEPT ![d][n] = i]
        /\ stray' = TRUE

\* The counts that a failed ext2_direnter() has its callers put back.
EnterUndo ==
  CASE call.op = "mkdir" -> Nlink(core, call.d, -1)
    [] call.op = "link"  -> Nlink(core, call.ip, -1)
    [] OTHER             -> core

Enter ==
  /\ call.op \in {"makeinode", "mkdir", "link"} /\ call.pc = "enter"
  /\ \/ /\ Direnter(call.d, call.n, call.ip, TRUE)
        /\ IF call.op = "makeinode" THEN Goto("made") ELSE Return
        /\ UNCHANGED core
     \/ /\ Direnter(call.d, call.n, call.ip, FALSE)
        /\ core' = EnterUndo
        /\ IF call.op = "link" THEN Return ELSE Goto("bad")
  /\ UNCHANGED <<ftype, disk, used>>

\* What ext2_makeinode() was called for decides how the call ends.
Made == call.op = "makeinode" /\ call.pc = "made"

Create == Made /\ Return /\ UNCHANGED <<ftype, tree, core, disk, used, faults, stray>>

\* The device number is set and the inode written again; if that fails, so does the call,
\* although the name has been entered.
Mknod ==
  /\ Made /\ Return
  /\ Updated(core, call.ip) \/ UpdateFails
  /\ UNCHANGED <<ftype, tree, core, used, stray>>

\* A short target is kept in the inode, a long one is written, and may not be; then there
\* is a name of a symbolic link to nowhere.
Symlink ==
  /\ Made /\ Return
  /\ NoFault \/ Fault
  /\ UNCHANGED <<ftype, tree, core, disk, used, stray>>

\* "so must deallocate the inode": ext2_inactive() does it.
Bad ==
  /\ call.op \in {"makeinode", "mkdir"} /\ call.pc = "bad"
  /\ core' = [core EXCEPT ![call.ip].nlink = 0]
  /\ Return
  /\ UNCHANGED <<ftype, tree, disk, used, faults, stray>>

(***************************************************************************)
(* ext2_remove and ext2_rmdir.                                             *)
(***************************************************************************)

\* ext2_dirremove(), and what the caller does to the counts when it succeeds.
Dirremove(d, n, c) ==
  \/ /\ ent' = [ent EXCEPT ![d][n] = NoIno] /\ core' = c /\ NoFault
  \/ /\ Fault /\ UNCHANGED <<ent, core>>

Remove(d, n) ==
  /\ Idle /\ Live(d)
  /\ ent[d][n] # NoIno /\ ~IsDir(ent[d][n])
  /\ Dirremove(d, n, Nlink(core, ent[d][n], -1))
  /\ UNCHANGED <<ftype, dotdot, disk, used, call, stray>>

\* ext2_dirempty(): no names, and ".." is the parent.  A read that fails counts as
\* not empty, which only refuses the call.
Dirempty(i, parent) == ent[i] = NoEntries /\ dotdot[i] \in {parent, NoIno}

\* ext2_rmdir(), to the truncation of the directory.
Rmdir(d, n) ==
  LET i == ent[d][n] IN
  /\ Idle /\ Live(d) /\ IsDir(i) /\ i # d
  /\ core[i].nlink = 2 /\ Dirempty(i, d)
  /\ Dirremove(d, n, Nlink(Nlink(core, d, -1), i, -2))
  /\ dotdot' = IF ent' # ent THEN [dotdot EXCEPT ![i] = NoIno] ELSE dotdot
  /\ UNCHANGED <<ftype, disk, used, call, stray>>

(***************************************************************************)
(* ext2_rename.                                                            *)
(***************************************************************************)

Doingdirectory == IsDir(call.ip)
Newparent      == call.d # call.td

\* Up to the first change: the count of the source is raised.
Rename(fd, fn, td, tn) ==
  LET i == ent[fd][fn]
      c == [Nlink(core, i, 1) EXCEPT ![i].rename = core[i].mode = "dir"]
      begun == [NoCall EXCEPT !.op = "rename", !.d = fd, !.n = fn, !.td = td, !.tn = tn,
                              !.ip = i, !.xp = ent[td][tn]] IN
  /\ Idle /\ Live(fd) /\ Live(td) /\ i # NoIno
  /\ i # ent[td][tn]
  /\ core[i].nlink < LinkMax
  /\ core[i].mode = "dir" => i # fd /\ ~core[i].rename
  /\ core' = c
  /\ \/ Updated(c, i) /\ call' = [begun EXCEPT !.pc = "checkpath"]
     \/ UpdateFails /\ call' = [begun EXCEPT !.pc = "bad"]
  /\ UNCHANGED <<ftype, tree, used, stray>>

\* The directories from d up to the root, as the entries ".." lead.
Above(d) ==
  LET Up[k \in 0..Cardinality(Inos)] ==
        IF k = 0 THEN {d}
        ELSE Up[k - 1] \cup ({dotdot[e] : e \in Up[k - 1]} \ {NoIno})
  IN  Up[Cardinality(Inos)]

\* Mutation: only the target itself is looked at.
CheckpathShallow(source, target) == IF target = source THEN "EEXIST" ELSE "ok"

\* ext2_checkpath().  What it takes for the length of ".." is its file type, which
\* is 2 too with the feature FTYPE and 0 without.
Checkpath(source, target) ==
  IF target = source THEN "EEXIST"
  ELSE IF target = Root THEN "ok"
  ELSE IF ~ftype THEN "ENOTDIR"
  ELSE IF source \in Above(target) THEN "EINVAL" ELSE "ok"

RenameCheckpath ==
  /\ call.op = "rename" /\ call.pc = "checkpath"
  /\ \/ /\ ~(Doingdirectory /\ Newparent)
        /\ Goto("target") /\ NoFault
     \/ /\ Doingdirectory /\ Newparent
        /\ \/ /\ NoFault
              /\ Goto(IF Checkpath(call.ip, call.td) = "ok" THEN "target" ELSE "bad")
           \/ Fault /\ Goto("bad")
  /\ UNCHANGED <<ftype, tree, core, disk, used, stray>>

\* No target: the new parent counts the "..", and its count stays raised if it
\* cannot be written.
RenameTarget ==
  LET c == Nlink(core, call.td, 1) IN
  /\ call.op = "rename" /\ call.pc = "target" /\ call.xp = NoIno
  /\ \/ /\ ~(Doingdirectory /\ Newparent)
        /\ Goto("enter") /\ NoFault
        /\ UNCHANGED <<core, disk>>
     \/ /\ Doingdirectory /\ Newparent
        /\ \/ /\ core[call.td].nlink >= LinkMax
              /\ Goto("bad") /\ NoFault
              /\ UNCHANGED <<core, disk>>
           \/ /\ core[call.td].nlink < LinkMax
              /\ core' = c
              /\ \/ Updated(c, call.td) /\ Goto("enter")
                 \/ UpdateFails /\ Goto("bad")
  /\ UNCHANGED <<ftype, tree, used, stray>>

\* The source gets its second name; or the new parent's count goes back, and is written
\* at once if that works.
RenameEnter ==
  LET c == IF Doingdirectory /\ Newparent THEN Nlink(core, call.td, -1) ELSE core IN
  /\ call.op = "rename" /\ call.pc = "enter"
  /\ \/ /\ Direnter(call.td, call.tn, call.ip, TRUE)
        /\ Goto("oldparent")
        /\ UNCHANGED <<core, disk>>
     \/ /\ Direnter(call.td, call.tn, call.ip, FALSE)
        /\ core' = c
        /\ disk' \in {disk, [disk EXCEPT ![call.td] =
                               IF c = core THEN @ ELSE I2ei(c[call.td])]}
        /\ Goto("bad")
  /\ UNCHANGED <<ftype, used>>

\* A target that is not an empty directory, or of the other kind, or in a sticky
\* directory of someone else's.
RenameRefuse ==
  LET xp == call.xp IN
  /\ call.op = "rename" /\ call.pc = "target" /\ xp # NoIno
  /\ Goto("bad")
  /\ UNCHANGED <<ftype, tree, core, disk, used, faults, stray>>

\* Mutation: only a target that is a directory is looked at.
CompatibleHalf == IsDir(call.xp) => Dirempty(call.xp, call.td) /\ core[call.xp].nlink <= 2

\* What the target may be.
Compatible ==
  LET xp == call.xp IN
  IF IsDir(xp) THEN Dirempty(xp, call.td) /\ core[xp].nlink <= 2 /\ Doingdirectory
  ELSE ~Doingdirectory

\* The counts once the target's entry names the source: the target's own one or two
\* links, and in the same directory the ".." of the target.
RewriteCounts ==
  LET same == IF Doingdirectory /\ ~Newparent THEN Nlink(core, call.td, -1) ELSE core
  IN  Nlink(same, call.xp, IF Doingdirectory THEN -2 ELSE -1)

\* Mutation: the target is deleted, and then the source linked.
RenameRewriteDelete ==
  /\ call.op = "rename" /\ call.pc = "target" /\ call.xp # NoIno /\ Compatible
  /\ ent' = [ent EXCEPT ![call.td][call.tn] = NoIno]
  /\ core' = RewriteCounts
  /\ call' = [call EXCEPT !.pc = "enter"]
  /\ UNCHANGED <<ftype, dotdot, disk, used, faults, stray>>

\* ext2_dirrewrite(), and the target is squashed.
RenameRewrite ==
  LET xp == call.xp IN
  /\ call.op = "rename" /\ call.pc = "target" /\ xp # NoIno /\ Compatible
  /\ \/ /\ NoFault
        /\ ent' = [ent EXCEPT ![call.td][call.tn] = call.ip]
        /\ core' = RewriteCounts
        /\ dotdot' = IF Doingdirectory THEN [dotdot EXCEPT ![xp] = NoIno] ELSE dotdot
        /\ Goto(IF Doingdirectory /\ RewriteCounts[xp].nlink # 0 THEN "panic"
                ELSE "oldparent")                        \* "linked directory"
     \/ /\ Fault
        /\ Goto("bad")
        /\ UNCHANGED <<core, tree>>
  /\ UNCHANGED <<ftype, disk, used, stray>>

\* A directory with a new parent: the old parent's count.
RenameOldparent ==
  /\ call.op = "rename" /\ call.pc = "oldparent"
  /\ \/ /\ Doingdirectory /\ Newparent
        /\ core' = Nlink(core, call.d, -1)
        /\ Goto("dotdot")
     \/ /\ ~(Doingdirectory /\ Newparent)
        /\ Goto("unlink")
        /\ UNCHANGED core
  /\ UNCHANGED <<ftype, tree, disk, used, faults, stray>>

\* Its ".." is read, looked at as in ext2_checkpath(), and written.  Errors are lost.
RenameDotdot ==
  /\ call.op = "rename" /\ call.pc = "dotdot"
  /\ \/ /\ ftype /\ NoFault
        /\ dotdot' = [dotdot EXCEPT ![call.ip] = call.td]
        /\ Goto("unlink")
        /\ UNCHANGED stray
     \/ /\ Fault
        /\ stray' = TRUE
        /\ Goto("unlink")
        /\ UNCHANGED dotdot
     \/ /\ ~ftype /\ NoFault
        /\ Goto("panic")                                 \* "rename: mangled dir"
        /\ UNCHANGED <<dotdot, stray>>
  /\ UNCHANGED <<ftype, ent, core, disk, used>>

\* The names of d after ext2_dirremove().  It takes the place that the last lookup left in
\* the inode of d.  Between two directories that is the old name's.  Within one it is the
\* new name's, and with it a distance to the record before that is of another place: the
\* old name may be hit by chance, or the new one, or any other, or no name at all.
Removals ==
  {[ent EXCEPT ![call.d][k] = NoIno] : k \in IF Newparent THEN {call.n} ELSE Names}
    \cup (IF Newparent THEN {} ELSE {ent})
\* One of the two names of the file is gone, and the other is left.
Moved  == ent' = [ent EXCEPT ![call.d][call.n] = NoIno]
Undone == ~Newparent /\ ent' = [ent EXCEPT ![call.td][call.tn] = NoIno]

\* The old name goes, or what is in its place; one link is taken back either way.  If
\* that fails, because the disk does or because the place is before the directory's
\* start, both names stay and are counted, but only one of them is in the directory that
\* a directory's ".." names.
RenameUnlink ==
  LET c == [core EXCEPT ![call.ip].rename = FALSE] IN
  /\ call.op = "rename" /\ call.pc = "unlink"
  /\ \/ /\ NoFault
        /\ ent' \in Removals
        /\ core' = Nlink(c, call.ip, -1)
        /\ stray' = (stray \/ ~(Moved \/ Undone))
     \/ /\ Fault \/ (~Newparent /\ NoFault)
        /\ core' = c
        /\ stray' = Doingdirectory
        /\ UNCHANGED ent
  /\ Return
  /\ UNCHANGED <<ftype, dotdot, disk, used>>

\* "bad" and "out": the source loses its extra link.
RenameBad ==
  /\ call.op = "rename" /\ call.pc = "bad"
  /\ core' = [Nlink(core, call.ip, -1) EXCEPT ![call.ip].rename = FALSE]
  /\ Return
  /\ UNCHANGED <<ftype, tree, disk, used, faults, stray>>

(***************************************************************************)
(* The inodes: ext2_inactive() and ext2_sync().                            *)
(***************************************************************************)

\* The last reference to an inode without links goes: its blocks and the inode are
\* freed.  It may have been open for any time.
Inactive(i) ==
  /\ i \in used /\ core[i].nlink <= 0
  /\ i \notin {call.d, call.td, call.ip, call.xp}
  /\ used' = used \ {i}
  /\ core' = [core EXCEPT ![i] = Freed]
  /\ disk' = [disk EXCEPT ![i] = I2ei(Freed)]
  /\ ent' = [ent EXCEPT ![i] = NoEntries]
  /\ dotdot' = [dotdot EXCEPT ![i] = NoIno]
  /\ UNCHANGED <<ftype, call, faults, stray>>

\* ext2_sync() writes an inode that is marked as changed.
Flush(i) ==
  /\ i \in used /\ disk[i] # I2ei(core[i])
  /\ disk' = [disk EXCEPT ![i] = I2ei(core[i])]
  /\ UNCHANGED <<ftype, tree, core, used, call, faults, stray>>

\* ext2_fsync() writes the inode whether or not it is marked, and is told of an error; a
\* write of what is on the disk already is a step that changes nothing, and one that
\* succeeds is the same step as that of ext2_sync().
Fsync(i) ==
  \/ Flush(i)
  \/ i \in used /\ UpdateFails /\ UNCHANGED <<ftype, tree, core, used, call, stray>>

Stopped == (call.pc = "panic" \/ stray) /\ UNCHANGED vars

NewName == \/ MakeinodeInit \/ MkdirInit \/ MkdirParent \/ MkdirFill \/ Enter \/ Bad
           \/ Create \/ Mknod \/ Symlink
RenameStep == \/ RenameCheckpath \/ RenameTarget \/ RenameEnter \/ RenameRefuse
              \/ RenameRewrite \/ RenameOldparent \/ RenameDotdot \/ RenameUnlink
              \/ RenameBad

Next ==
  \/ \E d \in Inos, n \in Names :
       \/ \E op \in {"makeinode", "mkdir"} : Makeinode(op, d, n)
       \/ \E i \in Inos : Link(i, d, n)
       \/ Remove(d, n)
       \/ Rmdir(d, n)
       \/ \E td \in Inos, tn \in Names : Rename(d, n, td, tn)
  \/ NewName
  \/ RenameStep
  \/ call.pc # "panic" /\ \E i \in Inos : Inactive(i) \/ Fsync(i)
  \/ Stopped

Spec == Init /\ [][Next]_vars

(***************************************************************************)
(* Properties.                                                             *)
(***************************************************************************)

\* The types; that a running call's inode is allocated; and that no inode keeps
\* IN_RENAME when no rename runs, which would refuse every later one.
TypeOK ==
  /\ ftype \in Ftypes
  /\ ent \in [Inos -> [Names -> Inos \cup {NoIno}]]
  /\ dotdot \in [Inos -> Inos \cup {NoIno}]
  /\ core \in [Inos -> Inode] /\ disk \in [Inos -> Dinode]
  /\ used \subseteq Inos /\ stray \in BOOLEAN
  /\ call \in Calls /\ faults \in 0..MaxFaults
  /\ \A i \in Inos : core[i].rename => call.op = "rename" /\ call.ip = i

\* What refers to an inode, as fsck_ext2fs counts it: its names and, of a directory,
\* its "." and the ".." of its children.
NamesOf(i) == {e \in Inos \X Names : ent[e[1]][e[2]] = i}
Children(i) == {d \in Inos \ {Root} : core[d].mode = "dir" /\ core[d].nlink > 0 /\ dotdot[d] = i}
Refs(i) == Cardinality(NamesOf(i)) + Cardinality(Children(i))
             + (IF core[i].mode = "dir" THEN 1 ELSE 0) + (IF i = Root THEN 1 ELSE 0)

\* Between calls the link count of every inode is the number of entries that refer
\* to it; and whatever failed, it is not below that, so that no inode is freed under
\* a name.  Excepted is what a write leaves behind that was made and then reported
\* as failed, and what a rename within one directory leaves that removed neither of
\* the two names of its file.
LinkCounts ==
  Idle => \A i \in used :
    /\ faults = 0 /\ core[i].nlink > 0 => core[i].nlink = Refs(i)
    /\ core[i].nlink >= Refs(i) \/ NamesOf(i) = {}

\* However often directories are moved into each other, each of them is below the
\* root, in the directory that its ".." names; and no IN_RENAME is left behind.  Excepted
\* are the same two cases.
Tree ==
  /\ TypeOK
  /\ Idle => \A i \in used \ {Root} :
       IsDir(i) /\ NamesOf(i) # {} =>
         /\ Root \in Above(i)
         /\ \E n \in Names : ent[dotdot[i]][n] = i

\* A machine that stops at any moment leaves no name of an inode that is free or was
\* never written: inodes are written before they are entered, and entries removed
\* before inodes are freed.  Excepted are the same two cases: a rename within one
\* directory can leave two names that are counted as one.
DiskNamesInode ==
  ~stray => \A d \in Inos, n \in Names :
    LET i == ent[d][n] IN
    i # NoIno =>
      i \in used /\ disk[i].mode = core[i].mode /\ disk[i].nlink > 0

\* "Best we can do is always guarantee the target exists": from the first change of
\* a rename to its end the file has a name, even if another entry is removed than the old
\* name's.  A name that it is to replace is there until the file takes it, and then stays;
\* but not in the last step of a rename within one directory, which may remove it.
RenameKeepsName ==
  [][call.op = "rename" =>
       /\ \E d \in Inos, n \in Names : ent'[d][n] = call.ip
       /\ ent[call.td][call.tn] # NoIno /\ (Newparent \/ call.pc # "unlink") =>
            ent'[call.td][call.tn] # NoIno]_vars

\* A directory that is renamed onto another has been seen to be empty and linked
\* once, and its ".." to be one: the panics of ext2_rename() are not reached.  Excepted is
\* a directory that is moved into the root of a volume without the feature FTYPE, which
\* always panics: the code takes the type of the entry ".." for the length of its name.
\* What follows a rename that removed a wrong entry is not looked at: a directory that
\* kept two names with one of them counted can be brought to the first of these panics.
NoPanic == call.pc = "panic" => ~ftype /\ Doingdirectory /\ Newparent /\ call.td = Root
=============================================================================
