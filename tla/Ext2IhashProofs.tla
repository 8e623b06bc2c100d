--------------------------- MODULE Ext2IhashProofs ---------------------------
(***************************************************************************)
(* Proofs about Ext2Ihash, for any number of threads, inodes and vnodes    *)
(* and however often a vnode is used again.                                *)
(*                                                                         *)
(* The heart of it is the vnode identifier: a thread that dropped the hash *)
(* mutex with a vnode and its identifier in hand can tell by it whether    *)
(* the vnode is still what it was (VidInv).                                *)
(***************************************************************************)
EXTENDS Ext2Ihash, TLAPS

(***************************************************************************)
(* Types.                                                                  *)
(***************************************************************************)

\* The initial values of records are of their types.
LEMMA InitialRecords ==
  /\ NoLocals \in Locals
  /\ NoInode \in InodeRec
  /\ \A n \in Nat : FreeVnode(n) \in VnodeRec
<1>1. NoLocals.ino \in Inos
  BY IhashAssumption DEF NoLocals
<1>2. QED
  BY <1>1 DEF NoLocals, Locals, NoInode, InodeRec, FreeVnode, VnodeRec, Free, DiskRec, Modes

\* A thread has a vnode in hand wherever the code follows a pointer to one.
HasVnode == \A t \in Threads : pc[t] \in RefPcs \cup {"getwithvid"} => loc[t].v \in Vnodes

\* A vnode in use has an inode with its identifier, and a thread between the walk and
\* vnode_getwithvid() that still finds its identifier finds the inode of its walk.
VidInv ==
  /\ \A v \in Vnodes : vn[v].st # "free" => ip[v].vid = vn[v].id
  /\ \A t \in Threads : pc[t] = "getwithvid" =>
       LET v == loc[t].v IN
       /\ loc[t].vid <= vn[v].id
       /\ loc[t].vid = vn[v].id => vn[v].st # "free" /\ ip[v].number = loc[t].ino

IInv == TypeOK /\ HasVnode /\ VidInv /\ RightVnode /\ HashedInCore /\ LiveHashed

\* What ext2_vget_typed() returns with keeps the types.
LEMMA GotType ==
  ASSUME TypeOK, NEW t \in Threads, NEW v \in Vnodes, Got(t, v)
  PROVE  /\ pc' \in [Threads -> Pcs] /\ loc' \in [Threads -> Locals]
         /\ pc'[t] \in {"valloc", "have"}
         /\ loc'[t].v = v /\ loc'[t].ino = loc[t].ino
         /\ \A u \in Threads \ {t} : loc'[u] = loc[u] /\ pc'[u] = pc[u]
<1>1. [NoLocals EXCEPT !.ino = loc[t].ino, !.vmode = loc[t].vmode, !.v = v] \in Locals
  BY InitialRecords DEF TypeOK, Locals
<1>2. QED
  BY <1>1 DEF Got, Goto, SetLoc, TypeOK, Pcs, HavePcs, NoLocals

\* So does a return, and the start of ext2_vget_typed().
LEMMA ReturnType ==
  ASSUME TypeOK, NEW t \in Threads
  PROVE  /\ Return(t) => pc' \in [Threads -> Pcs] /\ loc' \in [Threads -> Locals]
         /\ \A i \in Inos, m \in Modes :
              Vget(t, i, m) => pc' \in [Threads -> Pcs] /\ loc' \in [Threads -> Locals]
<1>1. \A i \in Inos, m \in Modes : [NoLocals EXCEPT !.ino = i, !.vmode = m] \in Locals
  BY InitialRecords DEF Locals
<1>2. QED
  BY <1>1, InitialRecords DEF Return, Vget, Goto, SetLoc, TypeOK, Pcs, VgetPcs

\* What ext2_update() writes is an inode.
LEMMA WrittenType ==
  ASSUME NEW v \in Vnodes, ip[v] \in InodeRec, disk \in [Inos -> DiskRec]
  PROVE  Written(v) \in [Inos -> DiskRec]
<1>1. ip[v].number \in Inos /\ [mode |-> ip[v].mode, nlink |-> ip[v].nlink] \in DiskRec
  BY DEF InodeRec, DiskRec
<1>2. QED BY <1>1 DEF Written


\* Every step of every thread and of the vnode layer keeps the types.
LEMMA TypeStep == TypeOK /\ HasVnode /\ [Next]_vars => TypeOK'
<1> SUFFICES ASSUME TypeOK, HasVnode, [Next]_vars PROVE TypeOK'
  OBVIOUS
<1> USE DEF TypeOK
<1>1. ASSUME NEW t \in Threads, Lookup(t) \/ Valloc(t) PROVE TypeOK'
  BY <1>1, ReturnType DEF Lookup, Valloc, Modes
<1>2. ASSUME NEW t \in Threads, VgetStep(t) PROVE TypeOK'
  <2>0. loc[t] \in Locals
    OBVIOUS
  <2>1. CASE Walk(t)
    <3>1. \A v \in hashed : [loc[t] EXCEPT !.v = v, !.vid = ip[v].vid] \in Locals
      BY <2>0 DEF Locals, InodeRec
    <3>2. QED BY <2>1, <3>1 DEF Walk, Goto, SetLoc, Pcs, VgetPcs
  <2>2. CASE Getwithvid(t)
    <3>1. [loc[t] EXCEPT !.v = NoVnode, !.vid = 0] \in Locals
      BY <2>0 DEF Locals
    <3>2. loc[t].v \in Vnodes
      BY <2>2 DEF HasVnode, Getwithvid
    <3>3. QED BY <2>2, <3>1, <3>2, GotType DEF Getwithvid, Goto, SetLoc, Pcs, VgetPcs
  <2>3. CASE Read(t)
    <3>1. [loc[t] EXCEPT !.di = disk[loc[t].ino]] \in Locals
      BY <2>0 DEF Locals
    <3>2. QED BY <2>3, <3>1, ReturnType DEF Read, Fail, Goto, SetLoc, Pcs, VgetPcs
  <2>4. CASE Create(t)
    <3>1. ASSUME NEW v \in Vnodes
          PROVE  /\ [loc[t] EXCEPT !.v = v, !.di = Free] \in Locals
                 /\ [number |-> loc[t].ino, mode |-> loc[t].di.mode, nlink |-> loc[t].di.nlink,
                     vid |-> vn[v].id, dirty |-> FALSE] \in InodeRec
      <4>1. vn[v].id \in Nat /\ loc[t].ino \in Inos /\ loc[t].di \in DiskRec /\ Free \in DiskRec
        BY <2>0 DEF Locals, DiskRec, VnodeRec, Free, Modes
      <4>2. loc[t].di.mode \in Modes /\ loc[t].di.nlink \in 0..1
        BY <4>1 DEF DiskRec
      <4>3. [loc[t] EXCEPT !.v = v, !.di = Free] \in Locals
        BY <2>0, <4>1 DEF Locals
      <4>4. QED BY <4>1, <4>2, <4>3 DEF InodeRec
    <3>2. loc[t].vmode \in Modes /\ loc[t].di.mode \in Modes
      BY <2>0 DEF Locals, DiskRec
    <3>3. CASE Fail(t) /\ UNCHANGED <<vn, ip>>
      BY <2>4, <3>3, ReturnType DEF Fail, Create
    <3>4. CASE ~(Fail(t) /\ UNCHANGED <<vn, ip>>)
      <4>1. PICK v \in Vnodes :
              /\ vn' = [vn EXCEPT ![v].st = "live",
                              ![v].type = IF loc[t].vmode # NoType
                                          THEN loc[t].vmode ELSE loc[t].di.mode,
                              ![v].marked = FALSE, ![v].need = FALSE]
              /\ ip' = [ip EXCEPT ![v] = [number |-> loc[t].ino, mode |-> loc[t].di.mode,
                                      nlink |-> loc[t].di.nlink, vid |-> vn[v].id,
                                      dirty |-> FALSE]]
              /\ SetLoc(t, [loc[t] EXCEPT !.v = v, !.di = Free])
              /\ Goto(t, "ihashins")
              /\ UNCHANGED <<used, disk, hashed>>
        BY <2>4, <3>4 DEF Create
      <4> DEFINE m == IF loc[t].vmode # NoType THEN loc[t].vmode ELSE loc[t].di.mode
                 r == [vn[v] EXCEPT !.st = "live", !.type = m, !.marked = FALSE, !.need = FALSE]
      <4>2. m \in Modes
        BY <3>2
      <4> HIDE DEF m
      <4>3. vn' = [vn EXCEPT ![v] = r] /\ r \in VnodeRec
        <5>1. vn' = [vn EXCEPT ![v].st = "live", ![v].type = m, ![v].marked = FALSE, ![v].need = FALSE]
          BY <4>1 DEF m
        <5>2. QED BY <4>2, <5>1 DEF VnodeRec
      <4> HIDE DEF r
      <4>4. vn' \in [Vnodes -> VnodeRec]
        BY <4>3
      <4>5. ip' \in [Vnodes -> InodeRec]
        BY <3>1, <4>1
      <4>6. loc' \in [Threads -> Locals] /\ pc' \in [Threads -> Pcs]
        BY <3>1, <4>1 DEF Goto, SetLoc, Pcs, VgetPcs
      <4>7. QED
        BY <4>1, <4>4, <4>5, <4>6
    <3>5. QED BY <3>3, <3>4
  <2>5. CASE Ihashins(t)
    <3>1. loc[t].v \in Vnodes
      BY <2>5 DEF HasVnode, Ihashins, RefPcs
    <3>2. QED BY <2>5, <3>1, GotType DEF Ihashins
  <2>6. QED BY <1>2, <2>1, <2>2, <2>3, <2>4, <2>5 DEF VgetStep
<1>3. ASSUME NEW t \in Threads, Use(t) PROVE TypeOK'
  <2>0. loc[t] \in Locals /\ loc[t].v \in Vnodes /\ ip[loc[t].v] \in InodeRec
    BY <1>3 DEF HasVnode, Use, VallocWipe, Makeinode, Remove, Put, RefPcs, HavePcs
  <2>1. CASE VallocWipe(t)
    BY <2>0, <2>1 DEF VallocWipe, InodeRec, Modes, Goto, Pcs, HavePcs
  <2>2. CASE Makeinode(t)
    <3>1. [loc[t] EXCEPT !.vmode = NoType] \in Locals /\ loc[t].vmode \in Modes
      BY <2>0 DEF Locals, Modes
    <3>2. [mode |-> loc[t].vmode, nlink |-> 1] \in DiskRec
      BY <3>1 DEF DiskRec
    <3>3. disk' \in [Inos -> DiskRec] /\ loc' \in [Threads -> Locals] /\ pc' \in [Threads -> Pcs]
      <4>1. ip[loc[t].v].number \in Inos
        BY <2>0 DEF InodeRec
      <4>2. disk' \in [Inos -> DiskRec]
        BY <2>2, <3>2, <4>1 DEF Makeinode
      <4>3. QED BY <2>2, <3>1, <4>2 DEF Makeinode, Goto, SetLoc, Pcs, HavePcs
    <3>4. ip' \in [Vnodes -> InodeRec]
      <4> DEFINE v == loc[t].v
                 new(n, d) == [ip EXCEPT ![v].mode = loc[t].vmode, ![v].nlink = n, ![v].dirty = d]
      <4>1. ASSUME NEW n \in 0..1, NEW d \in BOOLEAN
            PROVE  new(n, d) \in [Vnodes -> InodeRec]
        <5> DEFINE r == [ip[v] EXCEPT !.mode = loc[t].vmode, !.nlink = n, !.dirty = d]
        <5>1. r \in InodeRec
          BY <2>0, <3>1 DEF InodeRec
        <5>2. new(n, d) = [ip EXCEPT ![v] = r]
          BY <2>0 DEF InodeRec
        <5>3. QED BY <2>0, <5>1, <5>2
      <4>2. ip' = new(1, FALSE) \/ ip' = new(0, TRUE)
        BY <2>2 DEF Makeinode
      <4> HIDE DEF new
      <4>3. new(1, FALSE) \in [Vnodes -> InodeRec] /\ new(0, TRUE) \in [Vnodes -> InodeRec]
        <5>1. 0 \in 0..1 /\ 1 \in 0..1
          OBVIOUS
        <5>2. QED BY <4>1, <5>1, Zenon
      <4>4. QED BY <4>2, <4>3
    <3>5. QED BY <2>2, <3>3, <3>4 DEF Makeinode
  <2>3. CASE Remove(t)
    BY <2>0, <2>3 DEF Remove, InodeRec
  <2>4. CASE Put(t)
    <3>1. vn' \in [Vnodes -> VnodeRec]
      <4> DEFINE b == Refs(loc[t].v) # {t}
      <4>1. vn' = [vn EXCEPT ![loc[t].v].need = b] /\ b \in BOOLEAN
        BY <2>4 DEF Put
      <4> HIDE DEF b
      <4>2. QED BY <2>0, <4>1 DEF VnodeRec
    <3>2. QED BY <2>4, <3>1, ReturnType DEF Put, Goto, Pcs, InactPcs
  <2>5. QED BY <1>3, <2>1, <2>2, <2>3, <2>4 DEF Use
<1>4. ASSUME NEW t \in Threads, Inactivate(t) PROVE TypeOK'
  <2>0. loc[t] \in Locals /\ loc[t].v \in Vnodes /\ ip[loc[t].v] \in InodeRec
    BY <1>4 DEF HasVnode, Inactivate, Inactive, Vfree, Update, Recycle, RefPcs, InactPcs
  <2>1. CASE Inactive(t)
    BY <2>0, <2>1 DEF Inactive, InodeRec, Modes, Goto, Pcs, InactPcs
  <2>2. CASE Vfree(t)
    BY <2>0, <2>2 DEF Vfree, Goto, Pcs, InactPcs
  <2>3. CASE Update(t)
    <3>1. disk' \in [Inos -> DiskRec]
      <4>1. Written(loc[t].v) \in [Inos -> DiskRec]
        BY <2>0, WrittenType DEF TypeOK
      <4>2. QED BY <2>3, <4>1 DEF Update
    <3>2. ip' \in [Vnodes -> InodeRec]
      <4>1. [ip[loc[t].v] EXCEPT !.dirty = FALSE] \in InodeRec
        BY <2>0 DEF InodeRec
      <4>2. QED BY <2>0, <2>3, <4>1 DEF Update
    <3>3. QED BY <2>3, <3>1, <3>2 DEF Update, Goto, Pcs, InactPcs
  <2>4. CASE Recycle(t)
    <3> DEFINE v == loc[t].v
               m == vn[v].marked \/ ip[v].mode = NoType
    <3>1. vn' \in [Vnodes -> VnodeRec]
      <4>1. m \in BOOLEAN /\ v \in Vnodes
        BY <2>0
      <4>2. \/ vn' = [vn EXCEPT ![v].marked = m]
            \/ vn' = [vn EXCEPT ![v].marked = m, ![v].need = FALSE]
            \/ vn' = [vn EXCEPT ![v].marked = m, ![v].st = IF m THEN "term" ELSE @]
        BY <2>4 DEF Recycle
      <4> HIDE DEF m, v
      <4>3. CASE vn' = [vn EXCEPT ![v].marked = m]
        BY <4>1, <4>3 DEF VnodeRec
      <4>4. CASE vn' = [vn EXCEPT ![v].marked = m, ![v].need = FALSE]
        <5>1. [vn[v] EXCEPT !.marked = m, !.need = FALSE] \in VnodeRec
          BY <4>1 DEF VnodeRec
        <5>2. vn' = [vn EXCEPT ![v] = [vn[v] EXCEPT !.marked = m, !.need = FALSE]]
          BY <4>1, <4>4 DEF VnodeRec
        <5>3. QED BY <4>1, <5>1, <5>2
      <4>5. CASE vn' = [vn EXCEPT ![v].marked = m, ![v].st = IF m THEN "term" ELSE @]
        <5> DEFINE s == IF m THEN "term" ELSE vn[v].st
        <5>1. s \in {"free", "live", "term"}
          BY <4>1 DEF VnodeRec
        <5>2. vn' = [vn EXCEPT ![v] = [vn[v] EXCEPT !.marked = m, !.st = s]]
          BY <4>1, <4>5 DEF VnodeRec
        <5> HIDE DEF s
        <5>3. [vn[v] EXCEPT !.marked = m, !.st = s] \in VnodeRec
          BY <4>1, <5>1 DEF VnodeRec
        <5>4. QED BY <4>1, <5>2, <5>3
      <4>6. QED BY <4>2, <4>3, <4>4, <4>5
    <3>2. QED BY <2>4, <3>1, ReturnType DEF Recycle, Goto, Pcs, InactPcs
  <2>5. QED BY <1>4, <2>1, <2>2, <2>3, <2>4 DEF Inactivate
<1>5. ASSUME NEW v \in Vnodes, Evict(v) \/ Ihashrem(v) \/ Reclaim(v) PROVE TypeOK'
  <2>1. FreeVnode(vn[v].id + 1) \in VnodeRec /\ NoInode \in InodeRec
    BY InitialRecords DEF VnodeRec
  <2>2. CASE Evict(v)
    BY <2>2 DEF Evict, VnodeRec
  <2>3. CASE Ihashrem(v)
    <3>1. Written(v) \in [Inos -> DiskRec]
      BY WrittenType DEF TypeOK
    <3>2. QED BY <2>3, <3>1 DEF Ihashrem
  <2>4. CASE Reclaim(v)
    BY <2>1, <2>4 DEF Reclaim
  <2>5. QED BY <1>5, <2>2, <2>3, <2>4
<1>6. CASE UNCHANGED vars
  BY <1>6 DEF vars
<1>7. QED BY <1>1, <1>2, <1>3, <1>4, <1>5, <1>6 DEF Next
(***************************************************************************)
(* The inductive invariant.                                                *)
(***************************************************************************)

\* A step of one thread that leaves the hash and the identities of vnodes and inodes
\* alone, takes no reference and gives at most its own one up, keeps the invariant.
LEMMA Kept ==
  ASSUME IInv, TypeOK', NEW t \in Threads,
         hashed' = hashed,
         \A v \in Vnodes : /\ vn'[v].st = vn[v].st /\ vn'[v].id = vn[v].id
                           /\ ip'[v].number = ip[v].number /\ ip'[v].vid = ip[v].vid,
         \A u \in Threads \ {t} : pc'[u] = pc[u] /\ loc'[u] = loc[u],
         pc[t] # "ihashins", pc'[t] \notin {"ihashins", "getwithvid"},
         pc'[t] \in RefPcs => /\ pc[t] \in RefPcs
                              /\ loc'[t].v = loc[t].v /\ loc'[t].ino = loc[t].ino
  PROVE  IInv'
<1> USE DEF IInv
<1>1. HasVnode'
  BY DEF HasVnode
<1>2. VidInv'
  BY DEF VidInv, HasVnode
<1>3. RightVnode'
  BY DEF RightVnode, HasVnode
<1>4. HashedInCore'
  BY DEF HashedInCore, TypeOK
<1>5. LiveHashed'
  BY DEF LiveHashed
<1>6. QED BY <1>1, <1>2, <1>3, <1>4, <1>5

\* The walk, up to the unlock of the hash mutex, keeps the invariant.
LEMMA WalkStep ==
  ASSUME IInv, TypeOK', NEW t \in Threads, Walk(t)
  PROVE  IInv'
<1> DEFINE match == {v \in hashed : ip[v].number = loc[t].ino}
<1>1. CASE Goto(t, "read") /\ UNCHANGED loc
  BY <1>1, Kept DEF Walk, Goto, IInv, TypeOK, RefPcs, HavePcs, InactPcs
<1>2. CASE ~(Goto(t, "read") /\ UNCHANGED loc)
  <2>1. PICK v \in match : /\ SetLoc(t, [loc[t] EXCEPT !.v = v, !.vid = ip[v].vid])
                           /\ Goto(t, "getwithvid")
    BY <1>2 DEF Walk
  <2>2. /\ pc'[t] = "getwithvid" /\ loc'[t].v = v /\ loc'[t].vid = ip[v].vid
        /\ loc'[t].ino = loc[t].ino
        /\ \A u \in Threads \ {t} : pc'[u] = pc[u] /\ loc'[u] = loc[u]
    BY <2>1 DEF IInv, TypeOK, Goto, SetLoc, Locals
  <2>3. v \in Vnodes /\ v \in hashed /\ ip[v].number = loc[t].ino /\ vn[v].st # "free"
    BY DEF IInv, TypeOK, HashedInCore
  <2>4. ip[v].vid = vn[v].id /\ vn[v].id \in Nat
    BY <2>3 DEF IInv, VidInv, TypeOK, VnodeRec
  <2>5. UNCHANGED <<vn, ip, hashed>> /\ pc[t] = "walk"
    BY DEF Walk
  <2>6. HasVnode'
    BY <2>2, <2>3 DEF IInv, HasVnode, RefPcs, HavePcs, InactPcs
  <2>7. VidInv'
    BY <2>2, <2>3, <2>4, <2>5 DEF IInv, VidInv
  <2>8. RightVnode'
    BY <2>2, <2>5 DEF IInv, RightVnode, RefPcs, HavePcs, InactPcs
  <2>9. HashedInCore' /\ LiveHashed'
    BY <2>2, <2>5 DEF IInv, HashedInCore, LiveHashed
  <2>10. QED BY <2>6, <2>7, <2>8, <2>9 DEF IInv
<1>3. QED BY <1>1, <1>2

\* vnode_getwithvid(): the identifier tells whether the vnode is still the one of the walk.
LEMMA GetwithvidStep ==
  ASSUME IInv, TypeOK', NEW t \in Threads, Getwithvid(t)
  PROVE  IInv'
<1> DEFINE v == loc[t].v
<1>0. UNCHANGED <<vn, ip, hashed>> /\ pc[t] = "getwithvid" /\ v \in Vnodes
  BY DEF Getwithvid, IInv, HasVnode
<1>1. CASE vn[v].st = "live" /\ vn[v].id = loc[t].vid
  <2>1. Got(t, v)
    BY <1>1 DEF Getwithvid
  <2>2. /\ pc'[t] \in {"valloc", "have"} /\ loc'[t].v = v /\ loc'[t].ino = loc[t].ino
        /\ \A u \in Threads \ {t} : loc'[u] = loc[u] /\ pc'[u] = pc[u]
    BY <1>0, <2>1, GotType DEF IInv
  <2>3. ip[v].number = loc[t].ino /\ ip[v].vid = vn[v].id
    BY <1>0, <1>1 DEF IInv, VidInv
  <2>4. HasVnode'
    BY <1>0, <2>2 DEF IInv, HasVnode
  <2>5. VidInv'
    BY <1>0, <2>2 DEF IInv, VidInv
  <2>6. RightVnode'
    BY <1>0, <1>1, <2>2, <2>3 DEF IInv, RightVnode
  <2>7. HashedInCore' /\ LiveHashed'
    BY <1>0, <2>2 DEF IInv, HashedInCore, LiveHashed
  <2>8. QED BY <2>4, <2>5, <2>6, <2>7 DEF IInv
<1>2. CASE ~(vn[v].st = "live" /\ vn[v].id = loc[t].vid)
  <2>1. /\ pc'[t] = "walk"
        /\ \A u \in Threads \ {t} : loc'[u] = loc[u] /\ pc'[u] = pc[u]
    BY <1>2 DEF Getwithvid, Goto, SetLoc, IInv, TypeOK
  <2>2. QED
    BY <1>0, <2>1, Kept DEF RefPcs, HavePcs, InactPcs
<1>3. QED BY <1>1, <1>2

\* vnode_create() takes a vnode no thread has, and its inode is on the way to the hash.
LEMMA CreateStep ==
  ASSUME IInv, TypeOK', NEW t \in Threads, Create(t)
  PROVE  IInv'
<1>0. UNCHANGED hashed /\ pc[t] = "create"
  BY DEF Create
<1>1. CASE Fail(t) /\ UNCHANGED <<vn, ip>>
  <2>1. pc'[t] = "idle" /\ \A u \in Threads \ {t} : loc'[u] = loc[u] /\ pc'[u] = pc[u]
    BY <1>1 DEF Fail, Return, Goto, SetLoc, IInv, TypeOK
  <2>2. QED BY <1>0, <1>1, <2>1, Kept DEF RefPcs, HavePcs, InactPcs
<1>2. CASE ~(Fail(t) /\ UNCHANGED <<vn, ip>>)
  <2>1. PICK v \in Vnodes :
          /\ vn[v].st = "free"
          /\ vn' = [vn EXCEPT ![v].st = "live",
                              ![v].type = IF loc[t].vmode # NoType
                                          THEN loc[t].vmode ELSE loc[t].di.mode,
                              ![v].marked = FALSE, ![v].need = FALSE]
          /\ ip' = [ip EXCEPT ![v] = [number |-> loc[t].ino, mode |-> loc[t].di.mode,
                                      nlink |-> loc[t].di.nlink, vid |-> vn[v].id,
                                      dirty |-> FALSE]]
          /\ SetLoc(t, [loc[t] EXCEPT !.v = v, !.di = Free])
          /\ Goto(t, "ihashins")
    BY <1>2 DEF Create
  <2>2. /\ vn'[v].st = "live" /\ vn'[v].id = vn[v].id
        /\ \A w \in Vnodes \ {v} : vn'[w] = vn[w]
    <3> DEFINE m == IF loc[t].vmode # NoType THEN loc[t].vmode ELSE loc[t].di.mode
    <3>1. vn' = [vn EXCEPT ![v].st = "live", ![v].type = m, ![v].marked = FALSE, ![v].need = FALSE]
      BY <2>1
    <3> HIDE DEF m
    <3>2. QED BY <3>1 DEF IInv, TypeOK, VnodeRec
  <2>3. /\ ip'[v].number = loc[t].ino /\ ip'[v].vid = vn[v].id
        /\ \A w \in Vnodes \ {v} : ip'[w] = ip[w]
    BY <2>1 DEF IInv, TypeOK
  <2>4. /\ pc'[t] = "ihashins" /\ loc'[t].v = v /\ loc'[t].ino = loc[t].ino
        /\ \A u \in Threads \ {t} : loc'[u] = loc[u] /\ pc'[u] = pc[u]
    BY <2>1 DEF IInv, TypeOK, Goto, SetLoc, Locals
  <2>5. HasVnode'
    BY <2>4 DEF IInv, HasVnode
  <2>6. VidInv'
    <3>1. ASSUME NEW u \in Threads, pc'[u] = "getwithvid"
          PROVE  pc[u] = "getwithvid" /\ loc'[u] = loc[u] /\ loc[u].v \in Vnodes
      BY <2>4, <3>1 DEF IInv, HasVnode
    <3>2. ASSUME NEW u \in Threads, pc'[u] = "getwithvid", loc[u].v = v
          PROVE  loc[u].vid <= vn[v].id /\ loc[u].vid # vn[v].id
      BY <2>1, <3>1, <3>2 DEF IInv, VidInv
    <3>3. QED BY <2>2, <2>3, <3>1, <3>2 DEF IInv, VidInv
  <2>7. RightVnode'
    <3>1. ASSUME NEW u \in Threads \ {t}, pc'[u] \in RefPcs
          PROVE  pc[u] \in RefPcs /\ loc'[u] = loc[u] /\ loc[u].v \in Vnodes \ {v}
      BY <2>1, <2>4, <3>1 DEF IInv, HasVnode, RightVnode
    <3>2. QED BY <2>2, <2>3, <2>4, <3>1 DEF IInv, RightVnode
  <2>8. HashedInCore'
    BY <1>0, <2>2 DEF IInv, TypeOK, HashedInCore
  <2>9. LiveHashed'
    BY <1>0, <2>2, <2>4 DEF IInv, LiveHashed
  <2>10. QED BY <2>5, <2>6, <2>7, <2>8, <2>9 DEF IInv
<1>3. QED BY <1>1, <1>2

\* The insertion, by which the maker of an inode stops being the only one to know it.
LEMMA IhashinsStep ==
  ASSUME IInv, TypeOK', NEW t \in Threads, Ihashins(t)
  PROVE  IInv'
<1>1. /\ UNCHANGED <<vn, ip>> /\ pc[t] = "ihashins" /\ loc[t].v \in Vnodes
      /\ hashed' = hashed \cup {loc[t].v}
  BY DEF Ihashins, IInv, HasVnode, RefPcs
<1>2. /\ pc'[t] \in {"valloc", "have"} /\ loc'[t].v = loc[t].v /\ loc'[t].ino = loc[t].ino
      /\ \A u \in Threads \ {t} : loc'[u] = loc[u] /\ pc'[u] = pc[u]
  BY <1>1, GotType DEF Ihashins, IInv
<1>3. vn[loc[t].v].st = "live"
  BY <1>1 DEF IInv, RightVnode, RefPcs
<1>4. HasVnode'
  BY <1>1, <1>2 DEF IInv, HasVnode
<1>5. VidInv'
  BY <1>1, <1>2 DEF IInv, VidInv
<1>6. RightVnode'
  BY <1>1, <1>2 DEF IInv, RightVnode, RefPcs, HavePcs
<1>7. HashedInCore'
  BY <1>1, <1>3 DEF IInv, HashedInCore
<1>8. LiveHashed'
  BY <1>1, <1>2 DEF IInv, LiveHashed
<1>9. QED BY <1>4, <1>5, <1>6, <1>7, <1>8 DEF IInv

\* A vnode in use that no thread but the one of this step refers to is torn down.
LEMMA TornDown ==
  ASSUME IInv, TypeOK', NEW w \in Vnodes, vn[w].st # "free",
         UNCHANGED <<ip, hashed>>,
         vn'[w].st = "term", \A v \in Vnodes \ {w} : vn'[v].st = vn[v].st,
         \A v \in Vnodes : vn'[v].id = vn[v].id,
         \A u \in Threads : \/ pc'[u] = pc[u] /\ loc'[u] = loc[u] /\ u \notin Refs(w)
                            \/ pc[u] = "recycle" /\ pc'[u] = "idle"
  PROVE  IInv'
<1>1. HasVnode'
  BY DEF IInv, HasVnode, RefPcs, HavePcs, InactPcs
<1>2. VidInv'
  <2>1. \A u \in Threads : pc'[u] = "getwithvid" =>
          pc[u] = "getwithvid" /\ loc'[u] = loc[u] /\ loc[u].v \in Vnodes
    BY DEF IInv, HasVnode
  <2>2. \A v \in Vnodes : (vn'[v].st # "free") = (vn[v].st # "free")
    OBVIOUS
  <2>3. QED BY <2>1, <2>2 DEF IInv, VidInv
<1>3. RightVnode'
  <2>1. ASSUME NEW u \in Threads, pc'[u] \in RefPcs
        PROVE  pc[u] \in RefPcs /\ loc'[u] = loc[u] /\ loc[u].v \in Vnodes \ {w}
    BY <2>1 DEF IInv, HasVnode, RefPcs, HavePcs, InactPcs, Refs
  <2>2. QED BY <2>1 DEF IInv, RightVnode
<1>4. HashedInCore'
  BY DEF IInv, HashedInCore, TypeOK
<1>5. LiveHashed'
  BY DEF IInv, LiveHashed
<1>6. QED BY <1>1, <1>2, <1>3, <1>4, <1>5 DEF IInv

\* What a thread does with its vnode short of giving it up leaves its identity alone.
LEMMA UseStep ==
  ASSUME IInv, TypeOK', NEW t \in Threads, Use(t)
  PROVE  IInv'
<1> DEFINE v == loc[t].v
<1>0. v \in Vnodes /\ pc[t] \in HavePcs /\ pc[t] \in RefPcs /\ UNCHANGED hashed
  BY DEF Use, VallocWipe, Makeinode, Remove, Put, IInv, HasVnode, RefPcs, HavePcs
<1>1. /\ pc'[t] \in HavePcs \cup {"inactive", "idle"}
      /\ pc'[t] # "idle" => loc'[t].v = loc[t].v /\ loc'[t].ino = loc[t].ino
      /\ \A u \in Threads \ {t} : loc'[u] = loc[u] /\ pc'[u] = pc[u]
  <2>1. CASE VallocWipe(t) \/ Remove(t)
    BY <1>0, <2>1 DEF VallocWipe, Remove, Goto, IInv, TypeOK, HavePcs
  <2>2. CASE Makeinode(t)
    BY <2>2 DEF Makeinode, Goto, SetLoc, IInv, TypeOK, HavePcs, Locals
  <2>3. CASE Put(t)
    BY <2>3 DEF Put, Return, Goto, SetLoc, IInv, TypeOK
  <2>4. QED BY <2>1, <2>2, <2>3 DEF Use
<1>2. \A w \in Vnodes : vn'[w].st = vn[w].st /\ vn'[w].id = vn[w].id
  <2>1. CASE Put(t)
    <3> DEFINE b == Refs(loc[t].v) # {t}
    <3>1. vn' = [vn EXCEPT ![loc[t].v].need = b]
      BY <2>1 DEF Put
    <3> HIDE DEF b
    <3>2. QED BY <1>0, <3>1 DEF IInv, TypeOK, VnodeRec
  <2>2. CASE UNCHANGED vn
    BY <2>2
  <2>3. QED BY <2>1, <2>2 DEF Use, VallocWipe, Makeinode, Remove
<1>3. \A w \in Vnodes : ip'[w].number = ip[w].number /\ ip'[w].vid = ip[w].vid
  <2>1. CASE VallocWipe(t)
    BY <1>0, <2>1 DEF VallocWipe, IInv, TypeOK, InodeRec
  <2>2. CASE Makeinode(t)
    BY <1>0, <2>2 DEF Makeinode, IInv, TypeOK, InodeRec
  <2>3. CASE Remove(t)
    BY <1>0, <2>3 DEF Remove, IInv, TypeOK, InodeRec
  <2>4. CASE Put(t)
    BY <2>4 DEF Put
  <2>5. QED BY <2>1, <2>2, <2>3, <2>4 DEF Use
<1>4. QED BY <1>0, <1>1, <1>2, <1>3, Kept DEF HavePcs, RefPcs, InactPcs

\* So does ext2_inactive(); its return may be the end of the vnode, and then no other
\* thread has a reference.
LEMMA InactivateStep ==
  ASSUME IInv, TypeOK', NEW t \in Threads, Inactivate(t)
  PROVE  IInv'
<1> DEFINE v == loc[t].v
<1>0. v \in Vnodes /\ pc[t] \in InactPcs /\ pc[t] \in RefPcs /\ UNCHANGED hashed
  BY DEF Inactivate, Inactive, Vfree, Update, Recycle, IInv, HasVnode, RefPcs, InactPcs
<1>1. /\ pc'[t] \in InactPcs \cup {"idle"}
      /\ pc'[t] # "idle" => loc'[t].v = loc[t].v /\ loc'[t].ino = loc[t].ino
      /\ \A u \in Threads \ {t} : loc'[u] = loc[u] /\ pc'[u] = pc[u]
  <2>1. CASE Inactive(t) \/ Vfree(t) \/ Update(t)
    BY <1>0, <2>1 DEF Inactive, Vfree, Update, Goto, IInv, TypeOK, InactPcs
  <2>2. CASE Recycle(t)
    BY <2>2 DEF Recycle, Return, Goto, SetLoc, IInv, TypeOK, InactPcs
  <2>3. QED BY <2>1, <2>2 DEF Inactivate
<1>2. \A w \in Vnodes : ip'[w].number = ip[w].number /\ ip'[w].vid = ip[w].vid
  <2>1. CASE Inactive(t)
    BY <1>0, <2>1 DEF Inactive, IInv, TypeOK, InodeRec
  <2>2. CASE Update(t)
    BY <1>0, <2>2 DEF Update, IInv, TypeOK, InodeRec
  <2>3. QED BY <2>1, <2>2 DEF Inactivate, Vfree, Recycle
<1>3. CASE \A w \in Vnodes : vn'[w].st = vn[w].st /\ vn'[w].id = vn[w].id
  BY <1>0, <1>1, <1>2, <1>3, Kept DEF HavePcs, RefPcs, InactPcs
<1>4. CASE Recycle(t)
  <2> DEFINE m == vn[v].marked \/ ip[v].mode = NoType
  <2>1. \/ vn' = [vn EXCEPT ![v].marked = m]
        \/ vn' = [vn EXCEPT ![v].marked = m, ![v].need = FALSE]
        \/ /\ vn' = [vn EXCEPT ![v].marked = m, ![v].st = IF m THEN "term" ELSE @]
           /\ Refs(v) = {t} /\ Return(t) /\ pc[t] = "recycle"
    BY <1>4 DEF Recycle
  <2>2. m \in BOOLEAN
    OBVIOUS
  <2> HIDE DEF m
  <2>3. CASE vn' = [vn EXCEPT ![v].marked = m] \/ vn' = [vn EXCEPT ![v].marked = m, ![v].need = FALSE]
    BY <1>0, <1>3, <2>3 DEF IInv, TypeOK, VnodeRec
  <2>4. CASE /\ vn' = [vn EXCEPT ![v].marked = m, ![v].st = IF m THEN "term" ELSE @]
             /\ Refs(v) = {t} /\ Return(t) /\ pc[t] = "recycle"
    <3>1. CASE ~m
      <4>1. \A w \in Vnodes : vn'[w].st = vn[w].st /\ vn'[w].id = vn[w].id
        BY <1>0, <2>4, <3>1 DEF IInv, TypeOK, VnodeRec
      <4>2. QED BY <1>3, <4>1
    <3>2. CASE m
      <4>1. /\ vn'[v].st = "term"
            /\ \A w \in Vnodes \ {v} : vn'[w].st = vn[w].st
            /\ \A w \in Vnodes : vn'[w].id = vn[w].id
        BY <1>0, <2>4, <3>2 DEF IInv, TypeOK, VnodeRec
      <4>2. \A u \in Threads : \/ pc'[u] = pc[u] /\ loc'[u] = loc[u] /\ u \notin Refs(v)
                               \/ pc[u] = "recycle" /\ pc'[u] = "idle"
        BY <1>1, <2>4 DEF Return, Goto, IInv, TypeOK
      <4>3. vn[v].st # "free" /\ UNCHANGED <<ip, hashed>>
        BY <1>0, <1>4 DEF IInv, RightVnode, Recycle
      <4>4. QED BY <1>0, <4>1, <4>2, <4>3, TornDown
    <3>3. QED BY <3>1, <3>2
  <2>5. QED BY <2>1, <2>3, <2>4
<1>5. QED BY <1>3, <1>4 DEF Inactivate, Inactive, Vfree, Update

\* The vnode layer takes a vnode back: the inode leaves the hash before it is freed, and
\* the vnode has another identifier from then on.
LEMMA VnodeStep ==
  ASSUME IInv, TypeOK', NEW v \in Vnodes, Evict(v) \/ Ihashrem(v) \/ Reclaim(v)
  PROVE  IInv'
<1>0. UNCHANGED <<pc, loc>>
  BY DEF Evict, Ihashrem, Reclaim
<1>1. CASE Evict(v)
  <2>1. /\ vn'[v].st = "term" /\ vn[v].st # "free"
        /\ \A w \in Vnodes \ {v} : vn'[w].st = vn[w].st
        /\ \A w \in Vnodes : vn'[w].id = vn[w].id
    BY <1>1 DEF Evict, IInv, TypeOK, VnodeRec
  <2>2. \A u \in Threads : pc'[u] = pc[u] /\ loc'[u] = loc[u] /\ u \notin Refs(v)
    BY <1>1 DEF Evict
  <2>3. UNCHANGED <<ip, hashed>>
    BY <1>1 DEF Evict
  <2>4. QED BY <2>1, <2>2, <2>3, TornDown
<1>2. CASE Ihashrem(v)
  <2>1. UNCHANGED <<vn, ip>> /\ hashed' = hashed \ {v} /\ vn[v].st = "term"
    BY <1>2 DEF Ihashrem
  <2>2. HasVnode' /\ VidInv' /\ RightVnode'
    BY <1>0, <2>1 DEF IInv, HasVnode, VidInv, RightVnode
  <2>3. HashedInCore' /\ LiveHashed'
    BY <1>0, <2>1 DEF IInv, HashedInCore, LiveHashed
  <2>4. QED BY <2>2, <2>3 DEF IInv
<1>3. CASE Reclaim(v)
  <2>1. /\ vn'[v].st = "free" /\ vn'[v].id = vn[v].id + 1
        /\ \A w \in Vnodes \ {v} : vn'[w] = vn[w] /\ ip'[w] = ip[w]
        /\ hashed' = hashed /\ v \notin hashed /\ vn[v].st = "term"
    BY <1>3 DEF Reclaim, FreeVnode, IInv, TypeOK
  <2>2. HasVnode'
    BY <1>0 DEF IInv, HasVnode
  <2>3. VidInv'
    <3>1. \A u \in Threads : pc[u] = "getwithvid" =>
            /\ loc[u].v \in Vnodes /\ loc[u].vid \in Nat /\ vn[v].id \in Nat
            /\ loc[u].vid <= vn[loc[u].v].id
      BY DEF IInv, HasVnode, VidInv, TypeOK, Locals, VnodeRec
    <3>2. QED BY <1>0, <2>1, <3>1 DEF IInv, VidInv
  <2>4. RightVnode'
    BY <1>0, <2>1 DEF IInv, RightVnode, HasVnode
  <2>5. HashedInCore' /\ LiveHashed'
    BY <1>0, <2>1 DEF IInv, HashedInCore, LiveHashed, TypeOK
  <2>6. QED BY <2>2, <2>3, <2>4, <2>5 DEF IInv
<1>4. QED BY <1>1, <1>2, <1>3

\* In any behaviour of the in-core inodes: the types, the vnode identifiers that guard the
\* unlocked windows, and the two properties they give.
THEOREM IhashInvariant == Spec => []IInv
<1>1. Init => IInv
  <2> SUFFICES ASSUME Init PROVE IInv
    OBVIOUS
  <2>1. TypeOK
    BY InitialRecords DEF Init, TypeOK, Pcs, Free, DiskRec, Modes
  <2>2. HasVnode /\ VidInv /\ RightVnode
    BY DEF Init, HasVnode, VidInv, RightVnode, RefPcs, HavePcs, InactPcs, FreeVnode
  <2>3. HashedInCore /\ LiveHashed
    BY DEF Init, HashedInCore, LiveHashed, FreeVnode
  <2>4. QED BY <2>1, <2>2, <2>3 DEF IInv
<1>2. IInv /\ [Next]_vars => IInv'
  <2> SUFFICES ASSUME IInv, [Next]_vars PROVE IInv'
    OBVIOUS
  <2>1. TypeOK'
    BY TypeStep DEF IInv
  <2>2. ASSUME NEW t \in Threads, Lookup(t) \/ Valloc(t) \/ Read(t) PROVE IInv'
    <3>1. /\ pc'[t] \in {"walk", "create", "idle"} /\ pc[t] \in {"idle", "read"}
          /\ \A u \in Threads \ {t} : loc'[u] = loc[u] /\ pc'[u] = pc[u]
          /\ UNCHANGED <<vn, ip, hashed>>
      BY <2>2 DEF Lookup, Valloc, Read, Vget, Fail, Return, Goto, SetLoc, IInv, TypeOK
    <3>2. QED BY <2>1, <3>1, Kept DEF RefPcs, HavePcs, InactPcs
  <2>3. ASSUME NEW t \in Threads, VgetStep(t) PROVE IInv'
    BY <2>1, <2>2, <2>3, WalkStep, GetwithvidStep, CreateStep, IhashinsStep DEF VgetStep
  <2>4. ASSUME NEW t \in Threads, Use(t) \/ Inactivate(t) PROVE IInv'
    BY <2>1, <2>4, UseStep, InactivateStep
  <2>5. ASSUME NEW v \in Vnodes, Evict(v) \/ Ihashrem(v) \/ Reclaim(v) PROVE IInv'
    BY <2>1, <2>5, VnodeStep
  <2>6. CASE UNCHANGED vars
    BY <2>6 DEF vars, IInv, TypeOK, HasVnode, VidInv, RightVnode, HashedInCore, LiveHashed
  <2>7. QED BY <2>2, <2>3, <2>4, <2>5, <2>6 DEF Next
<1>3. QED BY <1>1, <1>2, PTL DEF Spec

\* ext2_ihashget() never follows a chain to a freed inode, and every inode in core is in
\* its chain or about to be: the hash holds the inodes in core and no others.
THEOREM HashIsExact == Spec => []HashExact
<1>1. IInv => HashExact
  BY DEF IInv, HashExact
<1>2. QED BY <1>1, IhashInvariant, PTL

\* What ext2_vget() returns is the inode that was asked for, and stays so while the
\* reference is held, however many times its vnode was given to other inodes between the
\* unlock of the hash mutex and vnode_getwithvid().
THEOREM VgetIsRight == Spec => []RightVnode
<1>1. IInv => RightVnode
  BY DEF IInv
<1>2. QED BY <1>1, IhashInvariant, PTL
=============================================================================
