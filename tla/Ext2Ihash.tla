------------------------------ MODULE Ext2Ihash ------------------------------
(***************************************************************************)
(* The in-core inodes: the hash of kext/ext2_ihash.c, ext2_vget_typed()    *)
(* (kext/ext2_vfsops.c), which fills it, and ext2_inactive() and           *)
(* ext2_reclaim() (kext/ext2_inode.c), which empty it, run by several      *)
(* threads against the vnode layer of the kernel.                          *)
(*                                                                         *)
(* The hash mutex covers one walk of a chain, one insertion or one removal *)
(* at a time and is never held across vnode_getwithvid(), the read of the  *)
(* inode or vnode_create(); those are the windows between the steps here.  *)
(* Inodes are freed and allocated again while their old vnode is still     *)
(* being torn down.                                                        *)
(*                                                                         *)
(* A struct inode and its vnode come and go together, so both are indexed  *)
(* by the vnode.  The vnode layer is external: it is modelled from what    *)
(* the calls in kext/ rely on.  Which of two hashed inodes of one number a *)
(* walk meets first is left open.                                          *)
(***************************************************************************)
EXTENDS Integers, FiniteSets

CONSTANTS
  Threads,    \* kernel threads in the file system
  Inos,       \* inode numbers
  Vnodes,     \* the kernel's vnodes
  Types,      \* file types, the IFMT part of a mode
  Devices,    \* those of block and character devices
  NoType,     \* i_mode 0; as an argument vmode: not given
  NoVnode,
  MaxVid      \* bound: MaxVid[v] is how often vnode v is used again

ASSUME IhashAssumption ==
  /\ NoType \notin Types /\ Devices \subseteq Types
  /\ NoVnode \notin Vnodes
  /\ Inos # {} /\ Vnodes # {} /\ Types # {}
  /\ MaxVid \in [Vnodes -> Nat]

VARIABLES
  used,    \* inodes set in the inode bitmaps
  disk,    \* disk[i]: mode and link count of the on-disk inode
  vn,      \* vn[v]: the vnode
  ip,      \* ip[v]: its struct inode
  hashed,  \* the inodes in the hash
  pc, loc

vars == <<used, disk, vn, ip, hashed, pc, loc>>

Modes == Types \cup {NoType}

\* st: on the free list, in use, or being torn down (VL_TERMINATE); id: v_id,
\* another one for every use; marked: vnode_recycle() was called (VL_MARKTERM);
\* need: a reference was given up since VNOP_INACTIVE (VL_NEEDINACTIVE).
VnodeRec == [st : {"free", "live", "term"}, id : Nat, type : Modes,
             marked : BOOLEAN, need : BOOLEAN]
InodeRec == [number : Inos, mode : Modes, nlink : 0..1, vid : Nat,
             dirty : BOOLEAN]
DiskRec  == [mode : Modes, nlink : 0..1]

\* ino and vmode: the arguments of ext2_vget_typed(); v and vid: what the walk
\* found; mode: what was read from disk.
Locals == [ino : Inos, vmode : Modes, v : Vnodes \cup {NoVnode}, vid : Nat,
           di : DiskRec]

Free     == [mode |-> NoType, nlink |-> 0]
NoLocals == [ino |-> CHOOSE i \in Inos : TRUE, vmode |-> NoType, v |-> NoVnode,
             vid |-> 0, di |-> Free]

\* In ext2_vget_typed(); with a reference on loc.v; in ext2_inactive().
VgetPcs  == {"walk", "getwithvid", "read", "create", "ihashins"}
HavePcs  == {"have", "valloc", "makeinode", "put"}
InactPcs == {"inactive", "vfree", "update", "recycle"}
Pcs      == {"idle"} \cup VgetPcs \cup HavePcs \cup InactPcs
RefPcs   == HavePcs \cup InactPcs \cup {"ihashins"}

\* The references on a vnode (iocount and usecount in one).
Refs(v) == {t \in Threads : pc[t] \in RefPcs /\ loc[t].v = v}

\* A vnode of the free list with no struct inode, and a struct inode not in use.
FreeVnode(id) == [st |-> "free", id |-> id, type |-> NoType, marked |-> FALSE,
                  need |-> FALSE]
NoInode == [number |-> NoLocals.ino, mode |-> NoType, nlink |-> 0, vid |-> 0,
            dirty |-> FALSE]

Init ==
  /\ used = {}
  /\ disk = [i \in Inos |-> Free]
  /\ vn = [v \in Vnodes |-> FreeVnode(0)]
  /\ ip = [v \in Vnodes |-> NoInode]
  /\ hashed = {}
  /\ pc = [t \in Threads |-> "idle"]
  /\ loc = [t \in Threads |-> NoLocals]

Goto(t, p)   == pc' = [pc EXCEPT ![t] = p]
SetLoc(t, l) == loc' = [loc EXCEPT ![t] = l]
Return(t)    == Goto(t, "idle") /\ SetLoc(t, NoLocals)
Vget(t, i, m) == /\ Goto(t, "walk")
                 /\ SetLoc(t, [NoLocals EXCEPT !.ino = i, !.vmode = m])

\* ext2_vget_typed() returns v, to ext2_valloc() or to anyone else.
Got(t, v) == /\ Goto(t, IF loc[t].vmode # NoType THEN "valloc" ELSE "have")
             /\ SetLoc(t, [NoLocals EXCEPT !.ino = loc[t].ino, !.vmode = loc[t].vmode,
                                           !.v = v])

(***************************************************************************)
(* ext2_ihashget, ext2_ihashins and ext2_vget_typed.                       *)
(***************************************************************************)

\* A name was found in a directory (ext2_lookup_ino), or a file handle names the
\* inode: ext2_fhtovp() takes any number in range, and one of no file is found
\* out and put back once it is in core.
Lookup(t) ==
  /\ pc[t] = "idle"
  /\ \E i \in Inos : Vget(t, i, NoType)
  /\ UNCHANGED <<used, disk, vn, ip, hashed>>

\* ext2_valloc() took an inode from the bitmap for a new file.
Valloc(t) ==
  /\ pc[t] = "idle"
  /\ \E i \in Inos \ used, m \in Types :
       /\ used' = used \cup {i}
       /\ Vget(t, i, m)
  /\ UNCHANGED <<disk, vn, ip, hashed>>

\* ext2_ihashget() up to the unlock: the first match, and the vid kept with it.
Walk(t) ==
  /\ pc[t] = "walk"
  /\ LET match == {v \in hashed : ip[v].number = loc[t].ino} IN
       \/ /\ match = {}
          /\ Goto(t, "read")
          /\ UNCHANGED loc
       \/ \E v \in match :
            /\ SetLoc(t, [loc[t] EXCEPT !.v = v, !.vid = ip[v].vid])
            /\ Goto(t, "getwithvid")
  /\ UNCHANGED <<used, disk, vn, ip, hashed>>

\* Mutation: a reference is taken whatever the vnode has become (vnode_get).
GetAnyvid(t) ==
  /\ pc[t] = "getwithvid"
  /\ \/ vn[loc[t].v].st = "live" /\ Got(t, loc[t].v)
     \/ /\ vn[loc[t].v].st # "live"
        /\ Goto(t, "walk")
        /\ SetLoc(t, [loc[t] EXCEPT !.v = NoVnode, !.vid = 0])
  /\ UNCHANGED <<used, disk, vn, ip, hashed>>

\* vnode_getwithvid(): a reference on the vnode if it is still the same one, else
\* the chain is walked again.
Getwithvid(t) ==
  LET v == loc[t].v IN
  /\ pc[t] = "getwithvid"
  /\ \/ /\ vn[v].st = "live" /\ vn[v].id = loc[t].vid
        /\ Got(t, v)
     \/ /\ ~(vn[v].st = "live" /\ vn[v].id = loc[t].vid)
        /\ Goto(t, "walk")
        /\ SetLoc(t, [loc[t] EXCEPT !.v = NoVnode, !.vid = 0])
  /\ UNCHANGED <<used, disk, vn, ip, hashed>>

\* An error return: ext2_valloc() gives the inode back (ext2_vfree).
Fail(t) ==
  /\ used' = IF loc[t].vmode # NoType THEN used \ {loc[t].ino} ELSE used
  /\ Return(t)

\* The inode is read from disk, before there is a vnode.
Read(t) ==
  /\ pc[t] = "read"
  /\ \/ /\ SetLoc(t, [loc[t] EXCEPT !.di = disk[loc[t].ino]])
        /\ Goto(t, "create")
        /\ UNCHANGED used
     \/ Fail(t)
  /\ UNCHANGED <<disk, vn, ip, hashed>>

\* vnode_create(), and i_vnode and i_vid set: the vnode has its type for good.
Create(t) ==
  /\ pc[t] = "create"
  /\ \/ \E v \in Vnodes :
          /\ vn[v].st = "free"
          /\ vn' = [vn EXCEPT ![v].st = "live",
                              ![v].type = IF loc[t].vmode # NoType
                                          THEN loc[t].vmode ELSE loc[t].di.mode,
                              ![v].marked = FALSE, ![v].need = FALSE]
          /\ ip' = [ip EXCEPT ![v] = [number |-> loc[t].ino, mode |-> loc[t].di.mode,
                                      nlink |-> loc[t].di.nlink, vid |-> vn[v].id,
                                      dirty |-> FALSE]]
          /\ SetLoc(t, [loc[t] EXCEPT !.v = v, !.di = Free])
          /\ Goto(t, "ihashins")
          /\ UNCHANGED used
     \/ Fail(t) /\ UNCHANGED <<vn, ip>>
  /\ UNCHANGED <<disk, hashed>>

Ihashins(t) ==
  /\ pc[t] = "ihashins"
  /\ hashed' = hashed \cup {loc[t].v}
  /\ Got(t, loc[t].v)
  /\ UNCHANGED <<used, disk, vn, ip>>

(***************************************************************************)
(* What a thread does with the vnode: create, remove, or only look.        *)
(***************************************************************************)

\* The end of ext2_valloc(): the old inode is wiped.
VallocWipe(t) ==
  /\ pc[t] = "valloc"
  /\ ip' = [ip EXCEPT ![loc[t].v].mode = NoType]
  /\ Goto(t, "makeinode")
  /\ UNCHANGED <<used, disk, vn, hashed, loc>>

\* ext2_makeinode(): mode and link count are set, the inode written and the name
\* entered; a failure, of the write too, takes the link back.
Makeinode(t) ==
  LET v == loc[t].v
      written == [disk EXCEPT ![ip[v].number] = [mode |-> loc[t].vmode, nlink |-> 1]]
  IN
  /\ pc[t] = "makeinode"
  /\ \/ /\ disk' = written
        /\ ip' = [ip EXCEPT ![v].mode = loc[t].vmode, ![v].nlink = 1, ![v].dirty = FALSE]
        /\ Goto(t, "have")
     \/ /\ disk' \in {disk, written}
        /\ ip' = [ip EXCEPT ![v].mode = loc[t].vmode, ![v].nlink = 0, ![v].dirty = TRUE]
        /\ Goto(t, "put")
  /\ SetLoc(t, [loc[t] EXCEPT !.vmode = NoType])
  /\ UNCHANGED <<used, vn, hashed>>

\* ext2_remove(), or ext2_rmdir(): the entry goes, and the link with it.
Remove(t) ==
  LET v == loc[t].v IN
  /\ pc[t] = "have"
  /\ ip[v].nlink = 1
  /\ ip' = [ip EXCEPT ![v].nlink = 0, ![v].dirty = TRUE]
  /\ UNCHANGED <<used, disk, vn, hashed, pc, loc>>

\* vnode_put(): the last reference makes the vnode inactive.
Put(t) ==
  LET v == loc[t].v
      last == Refs(v) = {t}
  IN
  /\ pc[t] \in {"have", "put"}
  /\ vn' = [vn EXCEPT ![v].need = ~last]
  /\ \/ last /\ Goto(t, "inactive") /\ UNCHANGED loc
     \/ ~last /\ Return(t)
  /\ UNCHANGED <<used, disk, ip, hashed>>

(***************************************************************************)
(* ext2_inactive and ext2_reclaim.                                         *)
(***************************************************************************)

\* Ignore a stale file handle; truncate a file without links.
Inactive(t) ==
  LET v == loc[t].v IN
  /\ pc[t] = "inactive"
  /\ \/ /\ ip[v].mode = NoType
        /\ Goto(t, "recycle")
        /\ UNCHANGED ip
     \/ /\ ip[v].mode # NoType /\ ip[v].nlink = 0
        /\ ip' = [ip EXCEPT ![v].mode = NoType, ![v].dirty = TRUE]
        /\ Goto(t, "vfree")
     \/ /\ ip[v].mode # NoType /\ ip[v].nlink = 1
        /\ Goto(t, "update")
        /\ UNCHANGED ip
  /\ UNCHANGED <<used, disk, vn, hashed, loc>>

\* ext2_vfree(): from here on the number may be given to a new file.
Vfree(t) ==
  /\ pc[t] = "vfree"
  /\ used' = used \ {ip[loc[t].v].number}
  /\ Goto(t, "update")
  /\ UNCHANGED <<disk, vn, ip, hashed, loc>>

\* ext2_update() of an inode that was changed writes it, unless its block cannot be read; the
\* inode counts as written either way.
Written(v) == [disk EXCEPT ![ip[v].number] = [mode |-> ip[v].mode, nlink |-> ip[v].nlink]]

\* ext2_inactive() has it written, but not that of a device: this one is only marked for
\* later (IN_LAZYMOD).
Update(t) ==
  LET v == loc[t].v
      now == ip[v].dirty /\ vn[v].type \notin Devices IN
  /\ pc[t] = "update"
  /\ \/ /\ now
        /\ disk' \in {disk, Written(v)}
        /\ ip' = [ip EXCEPT ![v].dirty = FALSE]
     \/ ~now /\ UNCHANGED <<disk, ip>>
  /\ Goto(t, "recycle")
  /\ UNCHANGED <<used, vn, hashed, loc>>

\* vnode_recycle() for an inode that is no file any more.  Back in the vnode
\* layer: other references were taken; or taken and given up, and the vnode is
\* made inactive once more; or the last one is dropped, and a vnode that is
\* marked is torn down.
Recycle(t) ==
  LET v == loc[t].v
      marked == vn[v].marked \/ ip[v].mode = NoType
  IN
  /\ pc[t] = "recycle"
  /\ \/ /\ Refs(v) # {t}
        /\ vn' = [vn EXCEPT ![v].marked = marked]
        /\ Return(t)
     \/ /\ Refs(v) = {t} /\ vn[v].need
        /\ vn' = [vn EXCEPT ![v].marked = marked, ![v].need = FALSE]
        /\ Goto(t, "inactive")
        /\ UNCHANGED loc
     \/ /\ Refs(v) = {t} /\ ~vn[v].need
        /\ vn' = [vn EXCEPT ![v].marked = marked,
                            ![v].st = IF marked THEN "term" ELSE @]
        /\ Return(t)
  /\ UNCHANGED <<used, disk, ip, hashed>>

\* The kernel wants an unused vnode for something else.
Evict(v) ==
  /\ vn[v].st = "live" /\ Refs(v) = {}
  /\ vn' = [vn EXCEPT ![v].st = "term"]
  /\ UNCHANGED <<used, disk, ip, hashed, pc, loc>>

\* Mutation: the inode leaves the hash only once its vnode is on the free list.
IhashremLate(v) ==
  /\ vn[v].st = "free" /\ v \in hashed
  /\ hashed' = hashed \ {v}
  /\ UNCHANGED <<used, disk, vn, ip, pc, loc>>

\* ext2_reclaim(): what was left for later is written; then out of the hash ...
Ihashrem(v) ==
  /\ vn[v].st = "term" /\ v \in hashed
  /\ disk' \in IF ip[v].dirty THEN {disk, Written(v)} ELSE {disk}
  /\ hashed' = hashed \ {v}
  /\ UNCHANGED <<used, vn, ip, pc, loc>>

\* Mutation: the inode is freed without a look at the hash.
ReclaimEarly(v) ==
  /\ vn[v].st = "term" /\ vn[v].id < MaxVid[v]
  /\ vn' = [vn EXCEPT ![v] = FreeVnode(vn[v].id + 1)]
  /\ ip' = [ip EXCEPT ![v] = NoInode]
  /\ UNCHANGED <<used, disk, hashed, pc, loc>>

\* ... then vnode_clearfsnode() and the struct inode is freed.  The next use of
\* the vnode has another id.
Reclaim(v) ==
  /\ vn[v].st = "term" /\ v \notin hashed /\ vn[v].id < MaxVid[v]
  /\ vn' = [vn EXCEPT ![v] = FreeVnode(vn[v].id + 1)]
  /\ ip' = [ip EXCEPT ![v] = NoInode]
  /\ UNCHANGED <<used, disk, hashed, pc, loc>>

(***************************************************************************)
(* The specification.                                                      *)
(***************************************************************************)

VgetStep(t) == \/ Walk(t) \/ Getwithvid(t) \/ Read(t) \/ Create(t) \/ Ihashins(t)
Inactivate(t) == \/ Inactive(t) \/ Vfree(t) \/ Update(t) \/ Recycle(t)
Use(t) == VallocWipe(t) \/ Makeinode(t) \/ Remove(t) \/ Put(t)

Next == \/ \E t \in Threads : \/ Lookup(t) \/ Valloc(t)
                              \/ VgetStep(t) \/ Use(t) \/ Inactivate(t)
        \/ \E v \in Vnodes : Evict(v) \/ Ihashrem(v) \/ Reclaim(v)

Spec == Init /\ [][Next]_vars

\* A thread in ext2_vget_typed() runs on, and a vnode that is being torn down is
\* torn down to the end: both are kernel threads, and nothing here waits for
\* another thread for longer than a walk of a chain.
Fairness == /\ \A t \in Threads : WF_vars(VgetStep(t))
            /\ \A v \in Vnodes : WF_vars(Ihashrem(v))

(***************************************************************************)
(* Properties.                                                             *)
(***************************************************************************)

\* The types of vnodes, in-core inodes and threads; link counts and reference
\* counts stay in range, so ext2_remove() never drops a link that is not there.
TypeOK ==
  /\ used \subseteq Inos
  /\ disk \in [Inos -> DiskRec]
  /\ vn \in [Vnodes -> VnodeRec]
  /\ ip \in [Vnodes -> InodeRec]
  /\ hashed \subseteq Vnodes
  /\ pc \in [Threads -> Pcs]
  /\ loc \in [Threads -> Locals]

\* No freed inode is left in a chain for ext2_ihashget() to follow.
HashedInCore == \A v \in hashed : vn[v].st # "free"

\* What ext2_vget() returns is the inode that was asked for and stays so while
\* the reference is held, although the vnode was chosen before the hash mutex
\* was dropped and may have been given to another inode since.
RightVnode ==
  \A t \in Threads :
    pc[t] \in RefPcs => /\ vn[loc[t].v].st = "live"
                        /\ ip[loc[t].v].number = loc[t].ino
                        /\ ip[loc[t].v].vid = vn[loc[t].v].id

\* Every inode in core can be found: it is in the hash, or its maker is about to
\* put it there, or it is being torn down.
LiveHashed ==
  \A v \in Vnodes :
    vn[v].st = "live" /\ v \notin hashed =>
      \E t \in Threads : pc[t] = "ihashins" /\ loc[t].v = v

\* The hash holds the inodes in core and no others, and counts stay in range.
HashExact == TypeOK /\ HashedInCore /\ LiveHashed

\* ext2_vget() goes round for ever in ext2_ihashget() only if vnodes are recycled for ever:
\* once none is, every call returns.  (A call starts again when the vnode that it found is
\* being torn down; nothing in the code keeps that from happening every time.)
Recycled    == \E v \in Vnodes : vn'[v].id # vn[v].id
VgetReturns ==
  <>[][~Recycled]_vars => \A t \in Threads : (pc[t] \in VgetPcs) ~> (pc[t] \notin VgetPcs)
=============================================================================
