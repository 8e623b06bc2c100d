------------------------------ MODULE Ext2Alloc ------------------------------
(***************************************************************************)
(* The block and inode allocator of the kext (kext/ext2_alloc.c), run by   *)
(* any number of kernel threads.                                           *)
(*                                                                         *)
(* Two locks protect it: the mount mutex (EXT2_LOCK), which guards the     *)
(* superblock and group-descriptor counters, and the buffer of a group's   *)
(* bitmap, which buf_meta_bread() hands to one thread at a time and        *)
(* buf_brelse()/buf_bdwrite() give back.  A search holds the mutex while   *)
(* it looks for a promising group, drops it to read that group's bitmap,   *)
(* and takes it again to account for the bit it set; the counters and the  *)
(* bitmaps therefore disagree for a while, and everything the code checks  *)
(* under one lock may be stale under the other.                            *)
(*                                                                         *)
(* Blocks and inodes are allocated by the same protocol, so a group's      *)
(* bitmap is a "cell" <<kind, group>> and a bit of it a "slot"             *)
(* <<kind, group, bit>>.  The bit a search picks in a bitmap is any clear  *)
(* one; module AllocSearch models the search itself.                       *)
(***************************************************************************)
EXTENDS Integers, FiniteSets

CONSTANTS
  Threads,     \* kernel threads inside the file system
  NoThread,    \* the owner of a free lock
  GCount,      \* e2fs_gcount, the number of block groups
  Fpg,         \* e2fs_fpg, blocks per group
  Ipg,         \* e2fs_ipg, inodes per group
  Rbcount,     \* e2fs_rbcount, blocks only root may use
  Reserved,    \* Reserved[c]: bits of cell c that newfs set (metadata, reserved
               \* inodes, the padding of a short last group)
  MaxLeaks     \* bound: read errors met while freeing (each leaks a slot)

Kinds  == {"block", "inode"}
Groups == 0..(GCount - 1)
Cells  == Kinds \X Groups
BitNos == 0..(Fpg + Ipg - 1)
Bits(c) == IF c[1] = "block" THEN 0..(Fpg - 1) ELSE 0..(Ipg - 1)
Slots  == Cells \X BitNos

ASSUME ThreadsAssumption == NoThread \notin Threads /\ IsFiniteSet(Threads)
ASSUME GeometryAssumption ==
  /\ GCount \in Nat \ {0}
  /\ Fpg \in Nat \ {0}
  /\ Ipg \in Nat \ {0}
  /\ Rbcount \in Nat
  /\ MaxLeaks \in Nat
ASSUME ReservedAssumption ==
  /\ Reserved \in [Cells -> SUBSET BitNos]
  /\ \A c \in Cells : Reserved[c] \subseteq Bits(c)

VARIABLES
  mtx,       \* owner of ump->um_lock
  holder,    \* holder[c]: thread that has the buffer of bitmap c
  bits,      \* bits[c]: the set bits of bitmap c
  nfree,     \* nfree[c]: ext2bgd_nbfree / ext2bgd_nifree
  total,     \* total[k]: e2fs_fbcount / e2fs_ficount
  ndirs,     \* ndirs[g]: ext2bgd_ndirs
  totaldir,  \* e2fs_total_dir
  owned,     \* slots some file or directory refers to
  dirs,      \* the owned or leaked inodes that are directories
  leaked,    \* slots nobody refers to whose bit a failed free left set
  pc,        \* pc[t]: where thread t is
  loc        \* loc[t]: its local variables

counters == <<nfree, total, ndirs, totaldir>>
files    == <<owned, dirs, leaked>>
vars     == <<mtx, holder, bits, nfree, total, ndirs, totaldir, owned, dirs,
              leaked, pc, loc>>

(***************************************************************************)
(* Threads.                                                                *)
(***************************************************************************)

\* A search in progress: the group searched now is cell[2], the one it began
\* with icg, i the loop counter of ext2_hashalloc and stage the loop it is in.
\* "tried" is a history variable: the groups this call has asked so far.
Locals == [cell  : Cells,
           bit   : BitNos,
           isdir : BOOLEAN,
           stage : {"pref", "quad", "brute"},
           i     : Nat,
           icg   : Groups,
           tried : SUBSET Groups]

NoLocals == [cell  |-> <<"block", 0>>, bit |-> 0, isdir |-> FALSE,
             stage |-> "pref", i |-> 0, icg |-> 0, tried |-> {}]

\* A thread with slot s in hand; the variables of a search are dead.
Hold(s, isdir) ==
  [NoLocals EXCEPT !.cell = s[1], !.bit = s[2], !.isdir = isdir]

MtxPcs   == {"probe", "nospace"}
BufPcs   == {"recheck", "search", "account", "bdwrite",
             "clear", "faccount", "fbdwrite", "panic"}
OtherPcs == {"idle", "bread", "relock", "vget", "fbread"}
Pcs      == MtxPcs \cup BufPcs \cup OtherPcs

\* Threads that hold a slot of their own: its bit is set and no file has it.
ClaimPcs == {"account", "bdwrite", "vget", "fbread", "clear"}

Cell(t) == loc[t].cell
Slot(t) == <<loc[t].cell, loc[t].bit>>
Clear(c) == Bits(c) \ bits[c]
FreeSlots(k) == {s \in Slots : s[1][1] = k /\ s[2] \in Clear(s[1])}

Init ==
  /\ mtx = NoThread
  /\ holder = [c \in Cells |-> NoThread]
  /\ bits = Reserved
  /\ nfree = [c \in Cells |-> Cardinality(Bits(c) \ Reserved[c])]
  /\ total = [k \in Kinds |-> Cardinality(FreeSlots(k))]
  /\ ndirs = [g \in Groups |-> 0]
  /\ totaldir = 0
  /\ owned = {} /\ dirs = {} /\ leaked = {}
  /\ pc = [t \in Threads |-> "idle"]
  /\ loc = [t \in Threads |-> NoLocals]

Goto(t, p)   == pc' = [pc EXCEPT ![t] = p]
SetLoc(t, l) == loc' = [loc EXCEPT ![t] = l]
Return(t)    == Goto(t, "idle") /\ SetLoc(t, NoLocals)

(***************************************************************************)
(* ext2_hashalloc: the order in which the groups are asked.                *)
(***************************************************************************)

\* The search state for the first, preferred group.
StartSearch(k, cg, isdir) ==
  [cell |-> <<k, cg>>, bit |-> 0, isdir |-> isdir,
   stage |-> "pref", i |-> 0, icg |-> cg, tried |-> {cg}]

\* The next group after the one l asked in vain; only meaningful if ~Exhausted.
NextI(l) == IF l.stage = "pref" THEN 1
            ELSE IF l.stage = "quad" THEN 2 * l.i ELSE l.i + 1

InQuad(l) == l.stage # "brute" /\ NextI(l) < GCount

\* Mutation: the brute-force loop ends one group early.
ExhaustedEarly(l) == /\ ~InQuad(l)
                     /\ IF l.stage = "brute" THEN NextI(l) >= GCount ELSE 3 >= GCount

Exhausted(l) == /\ ~InQuad(l)
                /\ IF l.stage = "brute" THEN NextI(l) >= GCount ELSE 2 >= GCount

\* cg plus n, or back to the start past the last group.
Wrap(cg, n) == IF cg + n >= GCount THEN cg + n - GCount ELSE cg + n

NextCg(l) == IF InQuad(l) THEN Wrap(l.cell[2], NextI(l))
             ELSE IF l.stage = "brute" THEN Wrap(l.cell[2], 1)
             ELSE (l.icg + 2) % GCount

NextProbe(l) ==
  [l EXCEPT !.cell  = <<l.cell[1], NextCg(l)>>,
            !.stage = IF InQuad(l) THEN "quad" ELSE "brute",
            !.i     = IF InQuad(l) \/ l.stage = "brute" THEN NextI(l) ELSE 2,
            !.tried = l.tried \cup {NextCg(l)}]

\* With the mutex held: ask the next group, or give up (ENOSPC).
SearchOn(t) ==
  \/ /\ Exhausted(loc[t])
     /\ Goto(t, "nospace")
     /\ UNCHANGED loc
  \/ /\ ~Exhausted(loc[t])
     /\ Goto(t, "probe")
     /\ SetLoc(t, NextProbe(loc[t]))

(***************************************************************************)
(* Entry points of an allocation.                                          *)
(***************************************************************************)

\* ext2_balloc() takes the mutex and calls ext2_alloc(), which refuses at once
\* when no block is free, or none a user other than root may have.  The
\* preferred group follows from the preferred block or the inode: any group.
Alloc(t) ==
  /\ pc[t] = "idle"
  /\ mtx = NoThread
  /\ mtx' = t
  /\ \E root \in BOOLEAN, cg \in Groups :
       LET refused == \/ total["block"] = 0
                      \/ ~root /\ total["block"] < Rbcount
       IN /\ Goto(t, IF refused THEN "nospace" ELSE "probe")
          /\ SetLoc(t, IF refused THEN NoLocals
                                  ELSE StartSearch("block", cg, FALSE))
  /\ UNCHANGED <<holder, bits, counters, files>>

\* ext2_valloc() up to its call of ext2_hashalloc().  A directory goes to the
\* group ext2_dirpref() picks, anything else to its parent's: any group.
Valloc(t) ==
  /\ pc[t] = "idle"
  /\ mtx = NoThread
  /\ mtx' = t
  /\ \E isdir \in BOOLEAN, cg \in Groups :
       LET refused == total["inode"] = 0
       IN /\ Goto(t, IF refused THEN "nospace" ELSE "probe")
          /\ SetLoc(t, IF refused THEN NoLocals
                                  ELSE StartSearch("inode", cg, isdir))
  /\ UNCHANGED <<holder, bits, counters, files>>

\* The nospace: and noinodes: exits.
Nospace(t) ==
  /\ pc[t] = "nospace"
  /\ mtx = t
  /\ mtx' = NoThread
  /\ Return(t)
  /\ UNCHANGED <<holder, bits, counters, files>>

(***************************************************************************)
(* ext2_alloccg and ext2_nodealloccg, step by step.                        *)
(***************************************************************************)

\* Mutex held: a group whose counter is zero is passed over; for another the
\* mutex is dropped before its bitmap is read.
Probe(t) ==
  /\ pc[t] = "probe"
  /\ mtx = t
  /\ \/ /\ nfree[Cell(t)] = 0
        /\ SearchOn(t)
        /\ UNCHANGED mtx
     \/ /\ nfree[Cell(t)] # 0
        /\ mtx' = NoThread
        /\ Goto(t, "bread")
        /\ UNCHANGED loc
  /\ UNCHANGED <<holder, bits, counters, files>>

\* buf_meta_bread() waits for the buffer and may fail to read it.
Bread(t) ==
  /\ pc[t] = "bread"
  /\ \/ /\ holder[Cell(t)] = NoThread
        /\ holder' = [holder EXCEPT ![Cell(t)] = t]
        /\ Goto(t, "recheck")
     \/ /\ Goto(t, "relock")
        /\ UNCHANGED holder
  /\ UNCHANGED <<mtx, bits, counters, files, loc>>

\* Mutation: no second look at the counter once the bitmap is in hand.
RecheckNone(t) ==
  /\ pc[t] = "recheck"
  /\ Goto(t, "search")
  /\ UNCHANGED <<mtx, holder, bits, counters, files, loc>>

\* Buffer held, mutex not: another thread may have taken the group's last slot.
Recheck(t) ==
  /\ pc[t] = "recheck"
  /\ \/ /\ nfree[Cell(t)] = 0
        /\ holder' = [holder EXCEPT ![Cell(t)] = NoThread]
        /\ Goto(t, "relock")
     \/ /\ nfree[Cell(t)] # 0
        /\ Goto(t, "search")
        /\ UNCHANGED holder
  /\ UNCHANGED <<mtx, bits, counters, files, loc>>

\* A failed group: the mutex is taken again and ext2_hashalloc goes on.
Relock(t) ==
  /\ pc[t] = "relock"
  /\ mtx = NoThread
  /\ mtx' = t
  /\ SearchOn(t)
  /\ UNCHANGED <<holder, bits, counters, files>>

\* Mutation: the preferred bit is taken without a look at whether it is clear.
SearchUnchecked(t) ==
  /\ pc[t] = "search"
  /\ \E b \in Bits(Cell(t)) :
       /\ bits' = [bits EXCEPT ![Cell(t)] = @ \cup {b}]
       /\ SetLoc(t, Hold(<<Cell(t), b>>, loc[t].isdir))
       /\ Goto(t, "account")
  /\ UNCHANGED <<mtx, holder, counters, files>>

\* Mutation: the inode bitmap is searched for e2fs_fpg bits.
SearchPastEnd(t) ==
  /\ pc[t] = "search"
  /\ \E b \in (0..(Fpg - 1)) \ bits[Cell(t)] :
       /\ bits' = [bits EXCEPT ![Cell(t)] = @ \cup {b}]
       /\ SetLoc(t, Hold(<<Cell(t), b>>, loc[t].isdir))
       /\ Goto(t, "account")
  /\ UNCHANGED <<mtx, holder, counters, files>>

\* Find a clear bit and set it; a bitmap without one is a panic ("map
\* corrupted", in ext2_mapsearch and in ext2_nodealloccg).
Search(t) ==
  /\ pc[t] = "search"
  /\ \/ /\ Clear(Cell(t)) = {}
        /\ Goto(t, "panic")
        /\ UNCHANGED <<bits, loc>>
     \/ \E b \in Clear(Cell(t)) :
          /\ bits' = [bits EXCEPT ![Cell(t)] = @ \cup {b}]
          /\ SetLoc(t, Hold(<<Cell(t), b>>, loc[t].isdir))
          /\ Goto(t, "account")
  /\ UNCHANGED <<mtx, holder, counters, files>>

\* Mutation: only the group's counter is decremented.
AccountGroupOnly(t) ==
  /\ pc[t] = "account"
  /\ mtx = NoThread
  /\ nfree' = [nfree EXCEPT ![Cell(t)] = @ - 1]
  /\ Goto(t, "bdwrite")
  /\ UNCHANGED <<mtx, holder, bits, total, ndirs, totaldir, files, loc>>

\* The counters of the group and of the file system, between EXT2_LOCK and
\* EXT2_UNLOCK; the buffer is still held.
AccountAlloc(t) ==
  LET k == Cell(t)[1]
      g == Cell(t)[2]
  IN
  /\ pc[t] = "account"
  /\ mtx = NoThread
  /\ nfree' = [nfree EXCEPT ![Cell(t)] = @ - 1]
  /\ total' = [total EXCEPT ![k] = @ - 1]
  /\ IF loc[t].isdir
     THEN /\ ndirs' = [ndirs EXCEPT ![g] = @ + 1]
          /\ totaldir' = totaldir + 1
     ELSE UNCHANGED <<ndirs, totaldir>>
  /\ Goto(t, "bdwrite")
  /\ UNCHANGED <<mtx, holder, bits, files, loc>>

\* Mutation: a success path that forgets to release the bitmap's buffer.
AllocDoneKeepsBuffer(t) ==
  /\ pc[t] = "bdwrite"
  /\ Cell(t)[1] = "block"
  /\ owned' = owned \cup {Slot(t)}
  /\ Return(t)
  /\ UNCHANGED <<mtx, holder, bits, counters, dirs, leaked>>

\* buf_bdwrite() gives the buffer back.  A block is the caller's now; an inode
\* still has to be read in by ext2_vget_typed().
AllocDone(t) ==
  /\ pc[t] = "bdwrite"
  /\ holder' = [holder EXCEPT ![Cell(t)] = NoThread]
  /\ \/ /\ Cell(t)[1] = "block"
        /\ owned' = owned \cup {Slot(t)}
        /\ Return(t)
     \/ /\ Cell(t)[1] = "inode"
        /\ Goto(t, "vget")
        /\ UNCHANGED <<owned, loc>>
  /\ UNCHANGED <<mtx, bits, counters, dirs, leaked>>

\* Mutation: no ext2_vfree() when the new inode cannot be read.
VallocVgetNoFree(t) ==
  /\ pc[t] = "vget"
  /\ \/ /\ owned' = owned \cup {Slot(t)}
        /\ dirs' = IF loc[t].isdir THEN dirs \cup {Slot(t)} ELSE dirs
     \/ UNCHANGED <<owned, dirs>>
  /\ Return(t)
  /\ UNCHANGED <<mtx, holder, bits, counters, leaked>>

\* The end of ext2_valloc(): the inode is the caller's, or ext2_vget_typed()
\* failed and ext2_vfree() gives it back.
VallocVget(t) ==
  /\ pc[t] = "vget"
  /\ \/ /\ owned' = owned \cup {Slot(t)}
        /\ dirs' = IF loc[t].isdir THEN dirs \cup {Slot(t)} ELSE dirs
        /\ Return(t)
     \/ /\ Goto(t, "fbread")
        /\ UNCHANGED <<owned, dirs, loc>>
  /\ UNCHANGED <<mtx, holder, bits, counters, leaked>>

(***************************************************************************)
(* ext2_blkfree and ext2_vfree.                                            *)
(***************************************************************************)

\* A file gives up a block, or its inode: the caller has dropped the pointer
\* before it calls (ext2_truncate, ext2_inactive).
Free(t) ==
  /\ pc[t] = "idle"
  /\ \E s \in owned :
       /\ owned' = owned \ {s}
       /\ dirs' = dirs \ {s}
       /\ SetLoc(t, Hold(s, s \in dirs))
  /\ Goto(t, "fbread")
  /\ UNCHANGED <<mtx, holder, bits, counters, leaked>>

\* Both return without a word if the bitmap cannot be read: the bit stays set.
FreeBread(t) ==
  /\ pc[t] = "fbread"
  /\ \/ /\ holder[Cell(t)] = NoThread
        /\ holder' = [holder EXCEPT ![Cell(t)] = t]
        /\ Goto(t, "clear")
        /\ UNCHANGED <<loc, leaked, dirs>>
     \/ /\ Cardinality(leaked) < MaxLeaks
        /\ leaked' = leaked \cup {Slot(t)}
        /\ dirs' = IF loc[t].isdir THEN dirs \cup {Slot(t)} ELSE dirs
        /\ Return(t)
        /\ UNCHANGED holder
  /\ UNCHANGED <<mtx, bits, counters, owned>>

FreeClear(t) ==
  /\ pc[t] = "clear"
  /\ \/ /\ loc[t].bit \notin bits[Cell(t)]
        /\ Goto(t, "panic")
        /\ UNCHANGED bits
     \/ /\ loc[t].bit \in bits[Cell(t)]
        /\ bits' = [bits EXCEPT ![Cell(t)] = @ \ {loc[t].bit}]
        /\ Goto(t, "faccount")
  /\ UNCHANGED <<mtx, holder, counters, files, loc>>

\* Mutation: the group's counter is forgotten.
AccountFreeTotalOnly(t) ==
  /\ pc[t] = "faccount"
  /\ mtx = NoThread
  /\ total' = [total EXCEPT ![Cell(t)[1]] = @ + 1]
  /\ Goto(t, "fbdwrite")
  /\ UNCHANGED <<mtx, holder, bits, nfree, ndirs, totaldir, files, loc>>

AccountFree(t) ==
  LET k == Cell(t)[1]
      g == Cell(t)[2]
  IN
  /\ pc[t] = "faccount"
  /\ mtx = NoThread
  /\ nfree' = [nfree EXCEPT ![Cell(t)] = @ + 1]
  /\ total' = [total EXCEPT ![k] = @ + 1]
  /\ IF loc[t].isdir
     THEN /\ ndirs' = [ndirs EXCEPT ![g] = @ - 1]
          /\ totaldir' = totaldir - 1
     ELSE UNCHANGED <<ndirs, totaldir>>
  /\ Goto(t, "fbdwrite")
  /\ UNCHANGED <<mtx, holder, bits, files, loc>>

FreeDone(t) ==
  /\ pc[t] = "fbdwrite"
  /\ holder' = [holder EXCEPT ![Cell(t)] = NoThread]
  /\ Return(t)
  /\ UNCHANGED <<mtx, bits, counters, files>>

(***************************************************************************)
(* The specification.                                                      *)
(***************************************************************************)

\* The C functions, as the threads run them.
AllocCg(t)     == \/ Probe(t) \/ Bread(t) \/ Recheck(t) \/ Relock(t)
                  \/ Search(t) \/ AccountAlloc(t) \/ AllocDone(t)
FreeInGroup(t) == FreeBread(t) \/ FreeClear(t) \/ AccountFree(t) \/ FreeDone(t)

alloccg(t)     == Cell(t)[1] = "block" /\ AllocCg(t)
nodealloccg(t) == Cell(t)[1] = "inode" /\ AllocCg(t)
blkfree(t)     == Cell(t)[1] = "block" /\ FreeInGroup(t)
vfree(t)       == Cell(t)[1] = "inode" /\ FreeInGroup(t)

\* The steps of a call that has begun.
Continue(t) == alloccg(t) \/ nodealloccg(t) \/ Nospace(t) \/ VallocVget(t)
               \/ blkfree(t) \/ vfree(t)

Begin(t) == Alloc(t) \/ Valloc(t) \/ Free(t)

Next == \E t \in Threads : Begin(t) \/ Continue(t)

Spec == Init /\ [][Next]_vars

\* A thread that can go on again and again, the mutex and the buffers being
\* given back in between, is not passed over for ever: both are sleep locks
\* that wake their waiters.
FairSpec == Spec /\ \A t \in Threads : SF_vars(Continue(t))

(***************************************************************************)
(* Properties.                                                             *)
(***************************************************************************)

\* The types of bitmaps, counters, locks and locals: a bit that is set lies in its
\* group, and ext2_hashalloc() asks only groups that exist.
TypeOK ==
  /\ mtx \in Threads \cup {NoThread}
  /\ holder \in [Cells -> Threads \cup {NoThread}]
  /\ bits \in [Cells -> SUBSET BitNos]
  /\ \A c \in Cells : bits[c] \subseteq Bits(c)
  /\ nfree \in [Cells -> Int]
  /\ total \in [Kinds -> Int]
  /\ ndirs \in [Groups -> Int]
  /\ totaldir \in Int
  /\ owned \subseteq Slots
  /\ dirs \subseteq Slots
  /\ leaked \subseteq Slots
  /\ pc \in [Threads -> Pcs]
  /\ loc \in [Threads -> Locals]

\* Two locks: pc says who holds the mutex and who holds which buffer.
LockInv ==
  /\ \A t \in Threads : (mtx = t) <=> (pc[t] \in MtxPcs)
  /\ \A t \in Threads, c \in Cells :
       (holder[c] = t) <=> (pc[t] \in BufPcs /\ Cell(t) = c)

Claims(t) == pc[t] \in ClaimPcs

\* The slots of a cell nobody else may be given: what newfs reserved, what files
\* use, what failed frees left behind and what threads have in hand.
InUse(c) ==
  Reserved[c]
    \cup {b \in BitNos : <<c, b>> \in owned \cup leaked}
    \cup {b \in BitNos : \E t \in Threads : Claims(t) /\ Slot(t) = <<c, b>>}

\* No double allocation: a slot is in the hands of one file or one thread only,
\* and never one newfs reserved, however the threads in ext2_alloccg,
\* ext2_nodealloccg, ext2_blkfree and ext2_vfree interleave.
NoDoubleAlloc ==
  /\ \A t, u \in Threads : t # u /\ Claims(t) /\ Claims(u) => Slot(t) # Slot(u)
  /\ \A t \in Threads : Claims(t) => /\ Slot(t) \notin owned \cup leaked
                                     /\ loc[t].bit \notin Reserved[Cell(t)]
  /\ owned \cap leaked = {}
  /\ \A s \in owned \cup leaked : s[2] \notin Reserved[s[1]]

\* The bitmaps say exactly what is in use: a bit is neither lost (set, with no
\* file, thread or failed free to account for it) nor cleared under its user.
BitmapExact == \A c \in Cells : bits[c] = InUse(c)

\* The one thread between setting (clearing) a bit and counting it.
Pending(c) ==
  IF holder[c] = NoThread THEN 0
  ELSE IF pc[holder[c]] = "account" THEN 1
  ELSE IF pc[holder[c]] = "faccount" THEN -1 ELSE 0

\* The group descriptor counts the clear bits of its bitmap, give or take the
\* one bit of the thread that holds the bitmap's buffer: with the buffer free
\* the two agree, which is why the second look at ext2bgd_nbfree needs no mutex.
CountsExact == \A c \in Cells : nfree[c] = Cardinality(Clear(c)) + Pending(c)

\* None of the panics "map corrupted", "freeing free block" and "freeing free
\* inode" is reached.
NoPanic == \A t \in Threads : pc[t] # "panic"

\* ENOSPC is not given lightly: a search that gives up has asked every group.
\* (A call that ext2_alloc or ext2_valloc refuses at once searches nothing.)
TriedAll ==
  \A t \in Threads :
    pc[t] = "nospace" /\ loc[t].tried # {} => loc[t].tried = Groups

\* The superblock's fbcount and ficount count the clear bits of all bitmaps, but
\* for the threads between a bitmap and the mutex.  So the unsigned counters
\* never wrap, and a call refused because they are zero finds nothing free.
\* Directories are counted once, where their inode is: ext2bgd_ndirs is the
\* number of directory inodes of the group, in files or in a thread's hands.
TotalsExact ==
  /\ \A k \in Kinds :
       total[k] = Cardinality(FreeSlots(k))
                  + Cardinality({t \in Threads : pc[t] = "account" /\ Cell(t)[1] = k})
                  - Cardinality({t \in Threads : pc[t] = "faccount" /\ Cell(t)[1] = k})
  /\ \A g \in Groups :
       ndirs[g] = Cardinality({s \in dirs : s[1] = <<"inode", g>>})
                  + Cardinality({t \in Threads :
                        /\ loc[t].isdir
                        /\ Cell(t)[2] = g
                        /\ pc[t] \in {"bdwrite", "vget", "fbread", "clear", "faccount"}})

\* The allocator as the abstract pool of module SlotPool sees it.
PoolSlots == {s \in Slots : s[2] \in Bits(s[1]) \ Reserved[s[1]]}
PoolState == [s \in PoolSlots |-> IF s[2] \notin bits[s[1]] THEN "free"
                                  ELSE IF s \in owned THEN "lent" ELSE "held"]
Pool == INSTANCE SlotPool WITH Pool <- PoolSlots, state <- PoolState

\* The threads of ext2_alloc.c together implement the pool: every step moves at
\* most one slot, from free to held to lent and back, in that order.
ImplementsPool == Pool!Spec

\* Every call returns: no allocation or free waits for ever for the mutex or a
\* buffer, or searches for ever.
CallsReturn == \A t \in Threads : (pc[t] # "idle") ~> (pc[t] = "idle")
=============================================================================
