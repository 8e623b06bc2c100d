--------------------------- MODULE Ext2AllocProofs ---------------------------
(***************************************************************************)
(* Proofs about Ext2Alloc, for every number of threads and every geometry. *)
(*                                                                         *)
(* The argument is layered.  The types come first, then the two locks      *)
(* (LockInv), on which everything else rests: a bitmap and its counter are *)
(* only changed by the thread that holds the bitmap's buffer.              *)
(***************************************************************************)
EXTENDS Ext2Alloc, FiniteSetTheorems, TLAPS

(***************************************************************************)
(* Facts about the constants and the helper operators.                     *)
(***************************************************************************)

\* The groups are numbered from 0, and there are finitely many.
LEMMA GroupsFacts ==
  /\ GCount \in Nat /\ GCount > 0
  /\ \A g : g \in Groups <=> g \in Int /\ 0 <= g /\ g < GCount
  /\ \A c \in Cells : c[1] \in Kinds /\ c[2] \in Groups /\ c = <<c[1], c[2]>>
  /\ \A k \in Kinds, g \in Groups : <<k, g>> \in Cells
  /\ NoLocals \in Locals
  /\ 0 \in BitNos
BY GeometryAssumption DEF Groups, Cells, Kinds, NoLocals, Locals, BitNos

\* What a thread that takes a slot in hand remembers.
LEMMA HoldFields ==
  \A s, d : /\ Hold(s, d).cell = s[1] /\ Hold(s, d).bit = s[2]
            /\ Hold(s, d).tried = {}
BY DEF Hold, NoLocals

\* It is a well-typed set of local variables.
LEMMA HoldType ==
  ASSUME NEW s \in Slots, NEW d \in BOOLEAN
  PROVE  Hold(s, d) \in Locals
<1>1. NoLocals \in Locals /\ s[1] \in Cells /\ s[2] \in BitNos
  BY GroupsFacts DEF Slots
<1>2. QED BY <1>1 DEF Hold, Locals, NoLocals

\* The bits of a group's bitmap are finitely many numbers.
LEMMA BitsFacts ==
  ASSUME NEW c \in Cells
  PROVE  /\ Bits(c) \subseteq BitNos
         /\ IsFiniteSet(Bits(c))
BY GeometryAssumption, FS_Interval DEF Bits, BitNos

\* The next group that ext2_hashalloc() asks is a group, in whichever loop.
LEMMA NextProbeType ==
  ASSUME NEW l \in Locals, ~Exhausted(l),
         l.stage = "quad" => l.i \in Nat
  PROVE  NextProbe(l) \in Locals
<1>1. NextI(l) \in Nat /\ l.cell[2] \in Groups /\ l.icg \in Groups /\ l.cell \in Cells
  BY GroupsFacts DEF NextI, Locals
<1>2. NextCg(l) \in Groups
  <2>1. CASE InQuad(l)
    BY <1>1, <2>1, GroupsFacts DEF NextCg, InQuad, Wrap
  <2>2. CASE ~InQuad(l) /\ l.stage # "brute"
    <3>1. (l.icg + 2) % GCount \in Groups
      BY <1>1, GroupsFacts
    <3>2. QED BY <2>2, <3>1 DEF NextCg
  <2>3. CASE ~InQuad(l) /\ l.stage = "brute"
    BY <1>1, <2>3, GroupsFacts DEF NextCg, Wrap
  <2>4. QED BY <2>1, <2>2, <2>3
<1>3. <<l.cell[1], NextCg(l)>> \in Cells
  BY <1>1, <1>2, GroupsFacts
<1>4. QED BY <1>1, <1>2, <1>3 DEF NextProbe, Locals

\* Going on with the search, or giving up, keeps the types of the locals.
LEMMA SearchOnType ==
  ASSUME NEW t \in Threads, loc \in [Threads -> Locals], pc \in [Threads -> Pcs],
         SearchOn(t)
  PROVE  loc' \in [Threads -> Locals] /\ pc' \in [Threads -> Pcs]
<1>1. loc[t] \in Locals
  OBVIOUS
<1>2. loc[t].stage = "quad" => loc[t].i \in Nat
  BY <1>1 DEF Locals
<1>3. CASE Exhausted(loc[t])
  BY <1>3 DEF SearchOn, Goto, Pcs, MtxPcs
<1>4. CASE ~Exhausted(loc[t])
  <2>1. NextProbe(loc[t]) \in Locals
    BY <1>1, <1>2, <1>4, NextProbeType
  <2>2. QED BY <1>4, <2>1 DEF SearchOn, Goto, SetLoc, Pcs, MtxPcs
<1>5. QED BY <1>3, <1>4

(***************************************************************************)
(* Types.                                                                  *)
(***************************************************************************)

\* The clear bits of all groups together can be counted.
LEMMA FreeSlotsFinite ==
  ASSUME NEW k
  PROVE  IsFiniteSet(FreeSlots(k)) /\ Cardinality(FreeSlots(k)) \in Nat
<1>1. IsFiniteSet(Groups) /\ IsFiniteSet(Kinds) /\ IsFiniteSet(BitNos)
  <2>1. IsFiniteSet(Groups) /\ IsFiniteSet(BitNos)
    BY GeometryAssumption, FS_Interval DEF Groups, BitNos
  <2>2. IsFiniteSet(Kinds)
    <3>1. IsFiniteSet({"block"})
      BY FS_Singleton
    <3>2. IsFiniteSet({"block"} \cup {"inode"})
      BY <3>1, FS_AddElement
    <3>3. Kinds = {"block"} \cup {"inode"}
      BY DEF Kinds
    <3>4. QED BY <3>2, <3>3
  <2>3. QED BY <2>1, <2>2
<1>2. IsFiniteSet(Cells)
  BY <1>1, FS_Product DEF Cells
<1>3. IsFiniteSet(Cells \X BitNos)
  BY <1>1, <1>2, FS_Product
<1>4. FreeSlots(k) \subseteq Cells \X BitNos
  BY DEF FreeSlots, Slots
<1>5. QED BY <1>3, <1>4, FS_Subset, FS_CardinalityType

\* The variables of the allocator keep their types in every run of the threads.
THEOREM TypeCorrect == Spec => []TypeOK
<1>1. Init => TypeOK
  <2> SUFFICES ASSUME Init PROVE TypeOK
    OBVIOUS
  <2>1. \A c \in Cells : Cardinality(Bits(c) \ Reserved[c]) \in Int
    <3> TAKE c \in Cells
    <3>1. IsFiniteSet(Bits(c) \ Reserved[c])
      BY BitsFacts, FS_Subset
    <3>2. QED BY <3>1, FS_CardinalityType
  <2>2. \A k \in Kinds : Cardinality(FreeSlots(k)) \in Int
    BY FreeSlotsFinite
  <2>3. QED
    <3>1. nfree \in [Cells -> Int] /\ total \in [Kinds -> Int]
      BY <2>1, <2>2 DEF Init
    <3>2. ndirs \in [Groups -> Int] /\ totaldir \in Int
      BY DEF Init
    <3>3. /\ bits \in [Cells -> SUBSET BitNos]
          /\ \A c \in Cells : bits[c] \subseteq Bits(c)
      BY ReservedAssumption DEF Init
    <3>4. pc \in [Threads -> Pcs] /\ loc \in [Threads -> Locals]
      BY GroupsFacts DEF Init, Pcs, OtherPcs
    <3>5. QED
      BY <3>1, <3>2, <3>3, <3>4 DEF Init, TypeOK
<1>2. TypeOK /\ [Next]_vars => TypeOK'
  <2> SUFFICES ASSUME TypeOK, [Next]_vars PROVE TypeOK'
    OBVIOUS
  <2> USE DEF TypeOK
  <2>0. \A t \in Threads : /\ Cell(t) \in Cells
                           /\ Cell(t)[1] \in Kinds
                           /\ Cell(t)[2] \in Groups
                           /\ loc[t] \in Locals
                           /\ pc[t] \in Pcs
    BY GroupsFacts DEF Cell, Locals
  <2>a. \A t \in Threads, p \in Pcs : Goto(t, p) => pc' \in [Threads -> Pcs]
    BY DEF Goto
  <2>b. \A t \in Threads, l \in Locals : SetLoc(t, l) => loc' \in [Threads -> Locals]
    BY DEF SetLoc
  <2>c. \A t \in Threads : Return(t) => /\ pc' \in [Threads -> Pcs]
                                        /\ loc' \in [Threads -> Locals]
    BY GroupsFacts DEF Return, Goto, SetLoc, Pcs, OtherPcs
  <2>d. \A p : p \in MtxPcs \cup BufPcs \cup OtherPcs => p \in Pcs
    BY DEF Pcs
  <2>1. ASSUME NEW t \in Threads, Alloc(t) PROVE TypeOK'
    <3>1. \A cg \in Groups : StartSearch("block", cg, FALSE) \in Locals
      BY GroupsFacts DEF StartSearch, Locals, Kinds
    <3>2. QED
      BY <2>1, <2>a, <2>b, <2>d, <3>1, GroupsFacts
      DEF Alloc, counters, files, MtxPcs
  <2>2. ASSUME NEW t \in Threads, Valloc(t) PROVE TypeOK'
    <3>1. \A cg \in Groups, d \in BOOLEAN : StartSearch("inode", cg, d) \in Locals
      BY GroupsFacts DEF StartSearch, Locals, Kinds
    <3>2. QED
      BY <2>2, <2>a, <2>b, <2>d, <3>1, GroupsFacts
      DEF Valloc, counters, files, MtxPcs
  <2>3. ASSUME NEW t \in Threads, Free(t) PROVE TypeOK'
    <3>2. PICK s \in owned :
            /\ owned' = owned \ {s}
            /\ dirs' = dirs \ {s}
            /\ SetLoc(t, Hold(s, s \in dirs))
      BY <2>3 DEF Free
    <3>3. Hold(s, s \in dirs) \in Locals
      <4>1. (s \in dirs) \in BOOLEAN /\ s \in Slots
        OBVIOUS
      <4>2. QED BY HoldType, <4>1, Zenon
    <3>4. loc' \in [Threads -> Locals]
      BY <3>2, <3>3, <2>b
    <3>5. QED
      BY <2>3, <2>a, <2>d, <3>2, <3>4 DEF Free, counters, OtherPcs
  <2>4. ASSUME NEW t \in Threads, Nospace(t) PROVE TypeOK'
    BY <2>4, <2>c DEF Nospace, counters, files
  <2>5. ASSUME NEW t \in Threads, VallocVget(t) PROVE TypeOK'
    <3>1. Slot(t) \in Slots
      BY <2>0 DEF Slot, Slots, Locals
    <3>2. QED
      BY <2>5, <2>a, <2>c, <2>d, <3>1 DEF VallocVget, counters, OtherPcs
  <2>6. ASSUME NEW t \in Threads, Probe(t) PROVE TypeOK'
    BY <2>6, <2>a, <2>d, SearchOnType DEF Probe, counters, files, OtherPcs
  <2>7. ASSUME NEW t \in Threads, Bread(t) PROVE TypeOK'
    BY <2>7, <2>0, <2>a, <2>d DEF Bread, counters, files, OtherPcs, BufPcs
  <2>8. ASSUME NEW t \in Threads, Recheck(t) PROVE TypeOK'
    BY <2>8, <2>0, <2>a, <2>d DEF Recheck, counters, files, OtherPcs, BufPcs
  <2>9. ASSUME NEW t \in Threads, Relock(t) PROVE TypeOK'
    BY <2>9, SearchOnType DEF Relock, counters, files
  <2>10. ASSUME NEW t \in Threads, Search(t) PROVE TypeOK'
    <3>1. CASE Clear(Cell(t)) = {} /\ Goto(t, "panic") /\ UNCHANGED <<bits, loc>>
      BY <2>10, <2>a, <2>d, <3>1 DEF Search, counters, files, BufPcs
    <3>2. ASSUME NEW b \in Clear(Cell(t)),
                 bits' = [bits EXCEPT ![Cell(t)] = @ \cup {b}],
                 SetLoc(t, Hold(<<Cell(t), b>>, loc[t].isdir)),
                 Goto(t, "account")
          PROVE  TypeOK'
      <4>1. b \in BitNos /\ b \in Bits(Cell(t))
        BY <2>0, BitsFacts DEF Clear
      <4>2. Hold(<<Cell(t), b>>, loc[t].isdir) \in Locals
        <5>1. <<Cell(t), b>> \in Slots
          BY <2>0, <4>1 DEF Slots
        <5>2. loc[t].isdir \in BOOLEAN
          BY <2>0, Zenon DEF Locals
        <5>3. QED BY <5>1, <5>2, HoldType, Zenon
      <4>3. loc' \in [Threads -> Locals] /\ pc' \in [Threads -> Pcs]
        BY <3>2, <4>2, <2>a, <2>b, <2>d DEF BufPcs
      <4>4. /\ bits' \in [Cells -> SUBSET BitNos]
            /\ \A c \in Cells : bits'[c] \subseteq Bits(c)
        BY <3>2, <4>1, <2>0
      <4>5. QED BY <2>10, <4>3, <4>4 DEF Search, counters, files
    <3>3. QED BY <2>10, <3>1, <3>2 DEF Search
  <2>11. ASSUME NEW t \in Threads, AccountAlloc(t) PROVE TypeOK'
    BY <2>11, <2>0, <2>a, <2>d DEF AccountAlloc, files, BufPcs
  <2>12. ASSUME NEW t \in Threads, AllocDone(t) PROVE TypeOK'
    <3>1. Slot(t) \in Slots
      BY <2>0 DEF Slot, Slots, Locals
    <3>2. QED
      BY <2>12, <2>0, <2>a, <2>c, <2>d, <3>1 DEF AllocDone, counters, OtherPcs
  <2>13. ASSUME NEW t \in Threads, FreeBread(t) PROVE TypeOK'
    <3>1. Slot(t) \in Slots
      BY <2>0 DEF Slot, Slots, Locals
    <3>2. QED
      BY <2>13, <2>0, <2>a, <2>c, <2>d, <3>1 DEF FreeBread, counters, BufPcs
  <2>14. ASSUME NEW t \in Threads, FreeClear(t) PROVE TypeOK'
    BY <2>14, <2>0, <2>a, <2>d DEF FreeClear, counters, files, BufPcs, OtherPcs
  <2>15. ASSUME NEW t \in Threads, AccountFree(t) PROVE TypeOK'
    BY <2>15, <2>0, <2>a, <2>d DEF AccountFree, files, BufPcs
  <2>16. ASSUME NEW t \in Threads, FreeDone(t) PROVE TypeOK'
    BY <2>16, <2>0, <2>c DEF FreeDone, counters, files
  <2>17. CASE UNCHANGED vars
    BY <2>17 DEF vars
  <2>18. QED
    BY <2>1, <2>2, <2>3, <2>4, <2>5, <2>6, <2>7, <2>8, <2>9, <2>10, <2>11,
       <2>12, <2>13, <2>14, <2>15, <2>16, <2>17
    DEF Next, Begin, Continue, alloccg, nodealloccg, blkfree, vfree,
        AllocCg, FreeInGroup
<1>3. QED BY <1>1, <1>2, PTL DEF Spec

(***************************************************************************)
(* The locks.                                                              *)
(***************************************************************************)

\* The mutex is held exactly by the thread whose pc says so, and a bitmap's
\* buffer exactly by the thread working on that bitmap: mutual exclusion on
\* both, through all the unlock-read-relock windows of the allocators.
THEOREM LocksHeld == Spec => []LockInv
<1>1. Init => LockInv
  BY ThreadsAssumption DEF Init, LockInv, MtxPcs, BufPcs
<1>2. TypeOK /\ LockInv /\ [Next]_vars => LockInv'
  <2> SUFFICES ASSUME TypeOK, LockInv, [Next]_vars PROVE LockInv'
    OBVIOUS
  <2>0. /\ \A t \in Threads : Cell(t) \in Cells
        /\ mtx \in Threads \cup {NoThread}
        /\ holder \in [Cells -> Threads \cup {NoThread}]
        /\ pc \in [Threads -> Pcs]
        /\ loc \in [Threads -> Locals]
        /\ NoThread \notin Threads
    BY ThreadsAssumption DEF TypeOK, Cell, Locals
  <2> USE <2>0 DEF LockInv, Cell, MtxPcs, BufPcs, Goto, SetLoc, Return
  <2>1. ASSUME NEW t \in Threads, Alloc(t) PROVE LockInv'
    BY <2>1 DEF Alloc
  <2>2. ASSUME NEW t \in Threads, Valloc(t) PROVE LockInv'
    BY <2>2 DEF Valloc
  <2>3. ASSUME NEW t \in Threads, Free(t) PROVE LockInv'
    BY <2>3 DEF Free
  <2>4. ASSUME NEW t \in Threads, Nospace(t) PROVE LockInv'
    BY <2>4 DEF Nospace
  <2>5. ASSUME NEW t \in Threads, VallocVget(t) PROVE LockInv'
    BY <2>5 DEF VallocVget
  <2>6. ASSUME NEW t \in Threads, Probe(t) PROVE LockInv'
    BY <2>6 DEF Probe, SearchOn
  <2>7. ASSUME NEW t \in Threads, Bread(t) PROVE LockInv'
    BY <2>7 DEF Bread
  <2>8. ASSUME NEW t \in Threads, Recheck(t) PROVE LockInv'
    BY <2>8 DEF Recheck
  <2>9. ASSUME NEW t \in Threads, Relock(t) PROVE LockInv'
    BY <2>9 DEF Relock, SearchOn
  <2>10. ASSUME NEW t \in Threads, Search(t) PROVE LockInv'
    <3>1. holder' = holder /\ mtx' = mtx
      BY <2>10 DEF Search
    <3>2. \A u \in Threads : Cell(u)' = Cell(u)
      <4>1. CASE loc' = loc
        BY <4>1
      <4>2. ASSUME NEW b, loc' = [loc EXCEPT ![t] = Hold(<<loc[t].cell, b>>, loc[t].isdir)]
            PROVE  \A u \in Threads : Cell(u)' = Cell(u)
        <5>1. PICK l : l = Hold(<<loc[t].cell, b>>, loc[t].isdir)
          OBVIOUS
        <5>2. l.cell = loc[t].cell
          BY <5>1, HoldFields
        <5>3. loc' = [loc EXCEPT ![t] = l]
          BY <4>2, <5>1
        <5>4. QED BY <5>2, <5>3
      <4>3. QED BY <2>10, <4>1, <4>2 DEF Search
    <3>3. /\ pc[t] = "search"
          /\ \/ pc' = [pc EXCEPT ![t] = "panic"]
             \/ pc' = [pc EXCEPT ![t] = "account"]
      BY <2>10 DEF Search
    <3>4. QED BY <3>1, <3>2, <3>3
  <2>11. ASSUME NEW t \in Threads, AccountAlloc(t) PROVE LockInv'
    BY <2>11 DEF AccountAlloc
  <2>12. ASSUME NEW t \in Threads, AllocDone(t) PROVE LockInv'
    BY <2>12 DEF AllocDone
  <2>13. ASSUME NEW t \in Threads, FreeBread(t) PROVE LockInv'
    BY <2>13 DEF FreeBread
  <2>14. ASSUME NEW t \in Threads, FreeClear(t) PROVE LockInv'
    BY <2>14 DEF FreeClear
  <2>15. ASSUME NEW t \in Threads, AccountFree(t) PROVE LockInv'
    BY <2>15 DEF AccountFree
  <2>16. ASSUME NEW t \in Threads, FreeDone(t) PROVE LockInv'
    BY <2>16 DEF FreeDone
  <2>17. CASE UNCHANGED vars
    BY <2>17 DEF vars
  <2>18. QED
    BY <2>1, <2>2, <2>3, <2>4, <2>5, <2>6, <2>7, <2>8, <2>9, <2>10, <2>11,
       <2>12, <2>13, <2>14, <2>15, <2>16, <2>17
    DEF Next, Begin, Continue, alloccg, nodealloccg, blkfree, vfree,
        AllocCg, FreeInGroup
<1>3. QED BY <1>1, <1>2, TypeCorrect, PTL DEF Spec

(***************************************************************************)
(* The search visits every group.                                          *)
(***************************************************************************)

\* What a search in progress has asked: in the brute-force loop, everything from
\* the preferred group up to the present one.
SrchOK(l) ==
  /\ l.icg \in l.tried
  /\ l.stage = "pref"  => l.cell[2] = l.icg
  /\ l.stage = "quad"  => l.i >= 1 /\ GCount > 1 /\ Wrap(l.icg, 1) \in l.tried
  /\ l.stage = "brute" => /\ 2 <= l.i /\ l.i < GCount
                          /\ l.cell[2] = Wrap(l.icg, l.i)
                          /\ \A j \in 0..l.i : Wrap(l.icg, j) \in l.tried

SearchInv ==
  \A t \in Threads :
    /\ pc[t] \in {"probe", "bread", "recheck", "relock"} => SrchOK(loc[t])
    /\ pc[t] = "nospace" => loc[t].tried \in {{}, Groups}

\* When the brute-force loop of ext2_hashalloc() ends, every group was asked.
LEMMA ExhaustedMeansAll ==
  ASSUME NEW l \in Locals, SrchOK(l), Exhausted(l)
  PROVE  l.tried = Groups
<1>1. l.icg \in Groups /\ l.tried \subseteq Groups /\ l.i \in Nat
      /\ l.stage \in {"pref", "quad", "brute"}
  BY DEF Locals
<1>2. ASSUME NEW g \in Groups PROVE g \in l.tried
  <2>1. CASE l.stage = "brute"
    <3>1. l.i = GCount - 1
      BY <2>1, <1>1, GroupsFacts DEF SrchOK, Exhausted, InQuad, NextI
    <3>2. \E j \in 0..l.i : Wrap(l.icg, j) = g
      <4>1. CASE g >= l.icg
        <5>1. g - l.icg \in 0..l.i /\ Wrap(l.icg, g - l.icg) = g
          BY <3>1, <4>1, <1>1, GroupsFacts DEF Wrap
        <5>2. QED BY <5>1
      <4>2. CASE g < l.icg
        <5>1. /\ g - l.icg + GCount \in 0..l.i
              /\ Wrap(l.icg, g - l.icg + GCount) = g
          BY <3>1, <4>2, <1>1, GroupsFacts DEF Wrap
        <5>2. QED BY <5>1
      <4>3. QED BY <4>1, <4>2, <1>1, GroupsFacts
    <3>3. QED BY <2>1, <3>2 DEF SrchOK
  <2>2. CASE l.stage # "brute"
    <3>1. GCount <= 2
      BY <2>2, <1>1, GroupsFacts DEF Exhausted
    <3>2. CASE l.stage = "pref"
      <4>1. GCount = 1
        BY <3>2, <1>1, GroupsFacts DEF Exhausted, InQuad, NextI
      <4>2. QED BY <4>1, <1>1, GroupsFacts DEF SrchOK
    <3>3. CASE l.stage = "quad"
      BY <3>1, <3>3, <1>1, GroupsFacts DEF SrchOK, Wrap
    <3>4. QED BY <2>2, <3>2, <3>3, <1>1
  <2>3. QED BY <2>1, <2>2
<1>3. QED BY <1>1, <1>2

\* A turn of ext2_hashalloc() keeps the record of the groups asked so far.
LEMMA NextProbeOK ==
  ASSUME NEW l \in Locals, SrchOK(l), ~Exhausted(l)
  PROVE  SrchOK(NextProbe(l))
<1> DEFINE n == NextProbe(l)
<1>1. /\ l.icg \in Groups /\ l.tried \subseteq Groups /\ l.i \in Nat
      /\ l.stage \in {"pref", "quad", "brute"} /\ l.cell[2] \in Groups
  BY GroupsFacts DEF Locals
<1>2. /\ n.icg = l.icg
      /\ n.cell[2] = NextCg(l)
      /\ n.tried = l.tried \cup {NextCg(l)}
      /\ n.stage = IF InQuad(l) THEN "quad" ELSE "brute"
      /\ n.i = IF InQuad(l) \/ l.stage = "brute" THEN NextI(l) ELSE 2
  BY DEF NextProbe, Locals
<1>3. CASE InQuad(l)
  <2>1. n.stage = "quad" /\ n.i = NextI(l) /\ GCount > 1 /\ n.i >= 1
    BY <1>1, <1>2, <1>3, GroupsFacts DEF InQuad, NextI, SrchOK
  <2>2. Wrap(l.icg, 1) \in n.tried
    BY <1>1, <1>2, <1>3, GroupsFacts DEF InQuad, NextI, NextCg, SrchOK
  <2>3. QED BY <2>1, <2>2, <1>2 DEF SrchOK
<1>4. CASE ~InQuad(l) /\ l.stage = "brute"
  <2>1. n.stage = "brute" /\ n.i = l.i + 1 /\ 2 <= n.i /\ n.i < GCount
    BY <1>1, <1>2, <1>4, GroupsFacts DEF Exhausted, InQuad, NextI, SrchOK
  <2>2. n.cell[2] = Wrap(l.icg, l.i + 1)
    BY <1>1, <1>2, <1>4, <2>1, GroupsFacts DEF NextCg, Wrap, SrchOK
  <2>3. \A j \in 0..n.i : Wrap(l.icg, j) \in n.tried
    <3> TAKE j \in 0..n.i
    <3>1. j \in 0..l.i \/ j = l.i + 1
      BY <1>1, <2>1
    <3>2. QED BY <3>1, <2>2, <1>2, <1>4 DEF SrchOK
  <2>4. QED BY <2>1, <2>2, <2>3, <1>2 DEF SrchOK
<1>5. CASE ~InQuad(l) /\ l.stage # "brute"
  <2>1. GCount > 2 /\ l.stage = "quad"
    BY <1>1, <1>5, GroupsFacts DEF Exhausted, InQuad, NextI, SrchOK
  <2>2. (l.icg + 2) % GCount = Wrap(l.icg, 2)
    <3>1. CASE l.icg + 2 < GCount
      BY <3>1, <1>1, GroupsFacts DEF Wrap
    <3>2. CASE l.icg + 2 >= GCount
      <4>1. l.icg + 2 = 1 * GCount + (l.icg + 2 - GCount)
            /\ 0 <= l.icg + 2 - GCount /\ l.icg + 2 - GCount < GCount
        BY <3>2, <2>1, <1>1, GroupsFacts
      <4>2. QED BY <4>1, <3>2, <2>1, <1>1, GroupsFacts DEF Wrap
    <3>3. QED BY <3>1, <3>2, <1>1, GroupsFacts
  <2>3. n.stage = "brute" /\ n.i = 2 /\ n.cell[2] = Wrap(l.icg, 2)
    BY <1>2, <1>5, <2>2 DEF NextCg
  <2>4. \A j \in 0..2 : Wrap(l.icg, j) \in n.tried
    <3>1. Wrap(l.icg, 0) = l.icg
      BY <1>1, GroupsFacts DEF Wrap
    <3>2. QED BY <3>1, <2>1, <2>2, <2>3, <1>2 DEF SrchOK
  <2>5. QED BY <2>1, <2>3, <2>4, <1>2 DEF SrchOK
<1>6. QED BY <1>3, <1>4, <1>5

\* ENOSPC from a search means every group was asked: the preferred group, the
\* quadratic rehash and the brute-force loop that starts two groups on leave
\* none out, for any number of groups.
THEOREM SearchComplete == Spec => []TriedAll
<1>1. Init => SearchInv
  BY DEF Init, SearchInv
<1>2. TypeOK /\ SearchInv /\ [Next]_vars => SearchInv'
  <2> SUFFICES ASSUME TypeOK, SearchInv, [Next]_vars PROVE SearchInv'
    OBVIOUS
  <2>0. /\ \A t \in Threads : loc[t] \in Locals
        /\ pc \in [Threads -> Pcs]
        /\ loc \in [Threads -> Locals]
    BY DEF TypeOK
  <2>a. ASSUME NEW t \in Threads, SearchOn(t),
               pc[t] \in {"probe", "relock"}
        PROVE  SearchInv'
    <3>1. SrchOK(loc[t])
      BY <2>a DEF SearchInv
    <3>2. CASE Exhausted(loc[t])
      <4>1. loc[t].tried = Groups
        BY <3>1, <3>2, <2>0, ExhaustedMeansAll
      <4>2. QED BY <2>a, <2>0, <3>2, <4>1 DEF SearchInv, SearchOn, Goto
    <3>3. CASE ~Exhausted(loc[t])
      <4>1. SrchOK(NextProbe(loc[t]))
        BY <3>1, <3>3, <2>0, NextProbeOK
      <4>2. QED BY <2>a, <2>0, <3>3, <4>1 DEF SearchInv, SearchOn, Goto, SetLoc
    <3>4. QED BY <3>2, <3>3
  <2>b. ASSUME NEW t \in Threads, NEW cg \in Groups, NEW k, NEW d, NEW refused \in BOOLEAN,
               Goto(t, IF refused THEN "nospace" ELSE "probe"),
               SetLoc(t, IF refused THEN NoLocals ELSE StartSearch(k, cg, d))
        PROVE  SearchInv'
    <3>1. SrchOK(StartSearch(k, cg, d)) /\ NoLocals.tried = {}
      BY DEF SrchOK, StartSearch, NoLocals
    <3>2. QED BY <2>b, <2>0, <3>1 DEF SearchInv, Goto, SetLoc
  <2>1. ASSUME NEW t \in Threads, Alloc(t) PROVE SearchInv'
    BY <2>1, <2>b, Zenon DEF Alloc
  <2>2. ASSUME NEW t \in Threads, Valloc(t) PROVE SearchInv'
    BY <2>2, <2>b, Zenon DEF Valloc
  <2>3. ASSUME NEW t \in Threads, Probe(t) PROVE SearchInv'
    BY <2>3, <2>a, <2>0 DEF Probe, SearchInv, Goto
  <2>4. ASSUME NEW t \in Threads, Relock(t) PROVE SearchInv'
    BY <2>4, <2>a DEF Relock
  <2>5. ASSUME NEW t \in Threads, Bread(t) \/ Recheck(t) PROVE SearchInv'
    BY <2>5, <2>0 DEF Bread, Recheck, SearchInv, Goto
  <2>6. ASSUME NEW t \in Threads,
               \/ Free(t) \/ Nospace(t) \/ VallocVget(t) \/ Search(t)
               \/ AccountAlloc(t) \/ AllocDone(t) \/ FreeInGroup(t)
        PROVE  SearchInv'
    BY <2>6, <2>0
    DEF Free, Nospace, VallocVget, Search, AccountAlloc, AllocDone, FreeInGroup,
        FreeBread, FreeClear, AccountFree, FreeDone, SearchInv, Goto, SetLoc, Return
  <2>7. CASE UNCHANGED vars
    BY <2>7 DEF vars, SearchInv
  <2>8. QED
    BY <2>1, <2>2, <2>3, <2>4, <2>5, <2>6, <2>7
    DEF Next, Begin, Continue, alloccg, nodealloccg, blkfree, vfree, AllocCg
<1>3. SearchInv => TriedAll
  BY DEF SearchInv, TriedAll
<1>4. QED BY <1>1, <1>2, <1>3, TypeCorrect, PTL DEF Spec

(***************************************************************************)
(* Slots, bitmaps and group counters.                                      *)
(***************************************************************************)

\* What the thread holding a buffer knows: the count it has rechecked is still
\* not zero when it searches, and the bit it has cleared is still clear when it
\* counts it.
HandInv ==
  \A t \in Threads :
    /\ pc[t] = "search"   => nfree[Cell(t)] # 0
    /\ pc[t] = "faccount" => loc[t].bit \in Clear(Cell(t))

\* The inductive invariant of the allocator.
IInv == /\ LockInv /\ NoDoubleAlloc /\ BitmapExact /\ CountsExact
        /\ HandInv /\ NoPanic

\* BitmapExact, bit by bit.
Taken(c, b) == \/ b \in Reserved[c]
               \/ <<c, b>> \in owned
               \/ <<c, b>> \in leaked
               \/ \E t \in Threads : Claims(t) /\ Slot(t) = <<c, b>>

\* BitmapExact, one bit at a time: what the bitmap says of it is what is so.
LEMMA BitByBit ==
  ASSUME TypeOK
  PROVE  BitmapExact <=> \A c \in Cells, b \in BitNos : b \in bits[c] <=> Taken(c, b)
<1>1. \A c \in Cells : bits[c] \subseteq BitNos
  BY DEF TypeOK
<1>2. \A c \in Cells : InUse(c) = {b \in BitNos : Taken(c, b)}
  BY ReservedAssumption DEF InUse, Taken
<1>3. QED BY <1>1, <1>2 DEF BitmapExact

\* The same in the next state.
LEMMA BitByBitNext ==
  ASSUME TypeOK'
  PROVE  BitmapExact' <=> \A c \in Cells, b \in BitNos : b \in bits'[c] <=> Taken(c, b)'
<1>1. \A c \in Cells : bits'[c] \subseteq BitNos
  BY DEF TypeOK
<1>2. \A c \in Cells : InUse(c)' = {b \in BitNos : Taken(c, b)'}
  BY ReservedAssumption DEF InUse, Taken
<1>3. QED BY <1>1, <1>2 DEF BitmapExact

\* A step in which no thread gains or loses a slot.
Quiet == /\ UNCHANGED <<bits, owned, leaked>>
         /\ \A u \in Threads : /\ Claims(u)' <=> Claims(u)
                               /\ Claims(u) => Slot(u)' = Slot(u)

\* A step in which no slot changes hands keeps claims disjoint and bitmaps exact.
LEMMA QuietSlots ==
  ASSUME TypeOK, TypeOK', NoDoubleAlloc, BitmapExact, Quiet
  PROVE  NoDoubleAlloc' /\ BitmapExact'
<1>1. NoDoubleAlloc'
  <2>1. \A u \in Threads : Claims(u) => Cell(u)' = Cell(u) /\ loc'[u].bit = loc[u].bit
    BY DEF Quiet, Slot, Cell
  <2>2. QED BY <2>1 DEF NoDoubleAlloc, Quiet
<1>2. \A c, b : Taken(c, b)' <=> Taken(c, b)
  BY DEF Taken, Quiet
<1>3. QED BY <1>1, <1>2, BitByBit, BitByBitNext DEF Quiet

\* A step of t from one place to another, the other threads staying where they
\* are, with neither place holding a slot, or both the same one.
LEMMA QuietStep ==
  ASSUME TypeOK, NEW t \in Threads, NEW p,
         UNCHANGED <<bits, owned, leaked>>,
         pc' = [pc EXCEPT ![t] = p],
         p \in ClaimPcs <=> pc[t] \in ClaimPcs,
         \A u \in Threads : u # t => loc'[u] = loc[u],
         pc[t] \in ClaimPcs => loc' = loc
  PROVE  Quiet
<1>1. \A u \in Threads : u # t => pc'[u] = pc[u]
  BY DEF TypeOK
<1>2. pc'[t] = p
  BY DEF TypeOK
<1>3. QED BY <1>1, <1>2 DEF Quiet, Claims, Slot

\* Counters: nothing changes but the place of one thread that is not between a
\* bitmap and its counter, before or after.
LEMMA QuietCounts ==
  ASSUME TypeOK, TypeOK', LockInv, LockInv', CountsExact, NEW t \in Threads, NEW p,
         UNCHANGED <<bits, nfree>>,
         pc' = [pc EXCEPT ![t] = p],
         p \notin {"account", "faccount"}, pc[t] \notin {"account", "faccount"},
         \A c \in Cells : \/ holder'[c] = holder[c]
                          \/ holder[c] = t /\ holder'[c] = NoThread
                          \/ holder[c] = NoThread /\ holder'[c] = t
  PROVE  CountsExact'
<1>1. ASSUME NEW c \in Cells PROVE Pending(c)' = Pending(c)
  <2>1. \A u \in Threads : u # t => pc'[u] = pc[u]
    BY DEF TypeOK
  <2>2. pc'[t] = p
    BY DEF TypeOK
  <2>3. holder[c] \in Threads \cup {NoThread} /\ holder'[c] \in Threads \cup {NoThread}
    BY DEF TypeOK
  <2>4. QED BY <2>1, <2>2, <2>3, ThreadsAssumption DEF Pending
<1>2. \A c \in Cells : Clear(c)' = Clear(c)
  BY DEF Clear
<1>3. QED BY <1>1, <1>2 DEF CountsExact

\* The same for what a thread knows of the bitmap in its hands.
LEMMA QuietHand ==
  ASSUME TypeOK, HandInv, NEW t \in Threads, NEW p,
         UNCHANGED <<bits, nfree>>,
         pc' = [pc EXCEPT ![t] = p],
         p \notin {"search", "faccount"},
         \A u \in Threads : u # t => loc'[u] = loc[u]
  PROVE  HandInv'
<1>1. \A u \in Threads : u # t => pc'[u] = pc[u]
  BY DEF TypeOK
<1>2. pc'[t] = p
  BY DEF TypeOK
<1>3. QED BY <1>1, <1>2 DEF HandInv, Cell, Clear

\* All three at once, for the steps that only move a thread and pass a lock on.
LEMMA QuietInv ==
  ASSUME TypeOK, TypeOK', IInv, LockInv', NEW t \in Threads, NEW p,
         UNCHANGED <<bits, nfree, owned, leaked>>,
         pc' = [pc EXCEPT ![t] = p],
         p \in ClaimPcs <=> pc[t] \in ClaimPcs,
         p \notin {"account", "search", "faccount", "panic"},
         pc[t] \notin {"account", "faccount"},
         \A u \in Threads : u # t => loc'[u] = loc[u],
         pc[t] \in ClaimPcs => loc' = loc,
         \A c \in Cells : \/ holder'[c] = holder[c]
                          \/ holder[c] = t /\ holder'[c] = NoThread
                          \/ holder[c] = NoThread /\ holder'[c] = t
  PROVE  IInv'
<1>1. Quiet
  BY QuietStep
<1>2. NoDoubleAlloc' /\ BitmapExact'
  BY <1>1, QuietSlots DEF IInv
<1>3. CountsExact'
  BY QuietCounts DEF IInv
<1>4. HandInv'
  BY QuietHand DEF IInv
<1>5. NoPanic'
  BY DEF IInv, NoPanic, TypeOK
<1>6. QED BY <1>2, <1>3, <1>4, <1>5 DEF IInv

\* A search that goes on to another group, or gives up, changes no slot.
LEMMA SearchOnInv ==
  ASSUME TypeOK, TypeOK', IInv, LockInv', NEW t \in Threads,
         pc[t] \in {"probe", "relock"},
         SearchOn(t), UNCHANGED <<bits, nfree, owned, leaked, holder>>
  PROVE  IInv'
<1>1. \A u \in Threads : u # t => loc'[u] = loc[u]
  BY DEF SearchOn, SetLoc, TypeOK
<1>2. pc[t] \notin ClaimPcs /\ pc[t] \notin {"account", "faccount"}
  BY DEF ClaimPcs
<1>3. PICK p \in MtxPcs : pc' = [pc EXCEPT ![t] = p]
  BY DEF SearchOn, Goto, MtxPcs
<1>4. p \notin ClaimPcs /\ p \notin {"account", "search", "faccount", "panic"}
  BY DEF ClaimPcs, MtxPcs
<1>5. QED BY <1>1, <1>2, <1>3, <1>4, QuietInv

\* A group has a clear bit exactly if their number is not zero.
LEMMA ClearFinite ==
  ASSUME NEW c \in Cells
  PROVE  /\ IsFiniteSet(Clear(c)) /\ Cardinality(Clear(c)) \in Nat
         /\ Clear(c) # {} <=> Cardinality(Clear(c)) # 0
<1>1. IsFiniteSet(Clear(c))
  BY BitsFacts, FS_Subset DEF Clear
<1>2. QED BY <1>1, FS_CardinalityType, FS_EmptySet

\* Setting a bit: the searching thread gains a slot nobody had.
LEMMA SearchInvariant ==
  ASSUME TypeOK, TypeOK', IInv, LockInv', NEW t \in Threads, Search(t)
  PROVE  IInv'
<1>c. PICK c \in Cells : c = Cell(t)
  BY DEF TypeOK, Cell, Locals
<1>0. /\ c = Cell(t)
      /\ pc[t] = "search" /\ c \in Cells /\ holder[c] = t /\ loc[t] \in Locals
      /\ pc \in [Threads -> Pcs] /\ loc \in [Threads -> Locals]
      /\ bits \in [Cells -> SUBSET BitNos]
      /\ holder' = holder /\ nfree' = nfree /\ owned' = owned /\ leaked' = leaked
  BY <1>c DEF Search, TypeOK, IInv, LockInv, BufPcs, Cell, Locals, counters, files
<1>1. Pending(c) = 0
  BY <1>0, ThreadsAssumption DEF Pending
<1>2. Clear(c) # {}
  BY <1>0, <1>1, ClearFinite DEF IInv, CountsExact, HandInv
<1>3. PICK b \in Clear(c) : /\ bits' = [bits EXCEPT ![c] = @ \cup {b}]
                            /\ loc' = [loc EXCEPT ![t] = Hold(<<c, b>>, loc[t].isdir)]
                            /\ pc' = [pc EXCEPT ![t] = "account"]
  BY <1>c, <1>2 DEF Search, SetLoc, Goto
<1>4. /\ Cell(t)' = c /\ loc'[t].bit = b /\ Slot(t)' = <<c, b>> /\ Claims(t)' /\ ~Claims(t)
      /\ \A u \in Threads : u # t => /\ Claims(u)' <=> Claims(u)
                                     /\ Slot(u)' = Slot(u) /\ Cell(u)' = Cell(u)
                                     /\ loc'[u] = loc[u] /\ pc'[u] = pc[u]
      /\ b \in BitNos /\ b \in Bits(c) /\ b \notin bits[c]
  BY <1>0, <1>3, BitsFacts, HoldFields DEF Cell, Slot, Claims, ClaimPcs, Locals, Clear
<1>5. ~Taken(c, b)
  BY <1>0, <1>4, BitByBit DEF IInv
<1>6. NoDoubleAlloc'
  <2>1. \A u \in Threads : u # t /\ Claims(u) => Slot(u) # <<c, b>>
    BY <1>5 DEF Taken
  <2>2. <<c, b>> \notin owned \cup leaked /\ b \notin Reserved[c]
    BY <1>5 DEF Taken
  <2>3. QED BY <1>0, <1>4, <2>1, <2>2 DEF NoDoubleAlloc, IInv
<1>7. BitmapExact'
  <2>1. ASSUME NEW d \in Cells, NEW e \in BitNos
        PROVE  e \in bits'[d] <=> Taken(d, e)'
    <3>1. e \in bits[d] <=> Taken(d, e)
      BY BitByBit DEF IInv
    <3>2. Taken(d, e)' <=> Taken(d, e) \/ <<d, e>> = <<c, b>>
      BY <1>0, <1>4 DEF Taken
    <3>3. e \in bits'[d] <=> e \in bits[d] \/ <<d, e>> = <<c, b>>
      BY <1>0, <1>3
    <3>4. QED BY <3>1, <3>2, <3>3
  <2>2. QED BY <2>1, BitByBitNext
<1>8. CountsExact'
  <2>1. ASSUME NEW d \in Cells, d # c
        PROVE  Clear(d)' = Clear(d) /\ Pending(d)' = Pending(d)
    <3>1. holder[d] # t
      BY <1>0, <2>1 DEF IInv, LockInv
    <3>2. QED BY <1>0, <1>3, <1>4, <2>1, <3>1 DEF Clear, Pending, TypeOK
  <2>2. Clear(c)' = Clear(c) \ {b}
    BY <1>0, <1>3 DEF Clear
  <2>3. Cardinality(Clear(c)') = Cardinality(Clear(c)) - 1
    BY <1>0, <2>2, ClearFinite, FS_RemoveElement
  <2>4. Pending(c)' = 1
    BY <1>0, <1>3, ThreadsAssumption DEF Pending
  <2>5. QED BY <1>0, <1>1, <2>1, <2>3, <2>4, ClearFinite DEF CountsExact, IInv
<1>9. HandInv'
  <2>1. ASSUME NEW u \in Threads, pc'[u] = "faccount"
        PROVE  loc'[u].bit \in Clear(Cell(u))'
    <3>1. u # t /\ pc[u] = "faccount" /\ Cell(u) # c
      BY <1>0, <1>3, <1>4, <2>1 DEF IInv, LockInv, BufPcs
    <3>2. QED BY <1>0, <1>3, <1>4, <3>1 DEF HandInv, IInv, Clear, Cell, Locals, TypeOK
  <2>2. QED BY <1>0, <1>3, <1>4, <2>1 DEF HandInv, IInv
<1>10. NoPanic'
  BY <1>0, <1>3 DEF NoPanic, IInv
<1>11. QED BY <1>6, <1>7, <1>8, <1>9, <1>10 DEF IInv

\* Counting a bit that was set or cleared, with the buffer still in hand.
LEMMA AccountInvariant ==
  ASSUME TypeOK, TypeOK', IInv, LockInv', NEW t \in Threads,
         AccountAlloc(t) \/ AccountFree(t)
  PROVE  IInv'
<1>c. PICK c \in Cells : c = Cell(t)
  BY DEF TypeOK, Cell, Locals
<1>0. /\ c = Cell(t)
      /\ pc[t] \in {"account", "faccount"} /\ c \in Cells /\ holder[c] = t
      /\ pc \in [Threads -> Pcs] /\ nfree \in [Cells -> Int]
      /\ holder' = holder /\ bits' = bits /\ owned' = owned /\ leaked' = leaked
      /\ loc' = loc
  BY <1>c DEF AccountAlloc, AccountFree, TypeOK, IInv, LockInv, BufPcs, Cell, Locals, files
<1>1. \/ /\ pc[t] = "account" /\ pc' = [pc EXCEPT ![t] = "bdwrite"]
         /\ nfree' = [nfree EXCEPT ![c] = @ - 1]
      \/ /\ pc[t] = "faccount" /\ pc' = [pc EXCEPT ![t] = "fbdwrite"]
         /\ nfree' = [nfree EXCEPT ![c] = @ + 1]
  BY <1>c DEF AccountAlloc, AccountFree, Goto
<1>2. Quiet
  BY <1>0, <1>1, QuietStep DEF ClaimPcs
<1>3. NoDoubleAlloc' /\ BitmapExact'
  BY <1>2, QuietSlots DEF IInv
<1>4. CountsExact'
  <2>1. \A d \in Cells : Clear(d)' = Clear(d)
    BY <1>0 DEF Clear
  <2>2. ASSUME NEW d \in Cells, d # c
        PROVE  nfree'[d] = nfree[d] /\ Pending(d)' = Pending(d)
    <3>1. holder[d] # t
      BY <1>0, <2>2 DEF IInv, LockInv
    <3>2. QED BY <1>0, <1>1, <2>2, <3>1 DEF Pending, TypeOK
  <2>3. nfree'[c] + Pending(c) = nfree[c] + Pending(c)'
    BY <1>0, <1>1, ThreadsAssumption DEF Pending
  <2>4. Pending(c) \in Int /\ Pending(c)' \in Int
    BY DEF Pending
  <2>5. QED BY <1>0, <1>1, <2>1, <2>2, <2>3, <2>4, ClearFinite DEF CountsExact, IInv
<1>5. HandInv'
  <2>1. ASSUME NEW u \in Threads, pc'[u] \in {"search", "faccount"}
        PROVE  u # t /\ pc[u] = pc'[u] /\ Cell(u) # c /\ Cell(u) \in Cells
    BY <1>0, <1>1, <2>1 DEF IInv, LockInv, BufPcs, TypeOK, Cell, Locals
  <2>2. QED BY <1>0, <1>1, <2>1 DEF HandInv, IInv, Clear, Cell
<1>6. NoPanic'
  BY <1>0, <1>1 DEF NoPanic, IInv
<1>7. QED BY <1>3, <1>4, <1>5, <1>6 DEF IInv

\* A thread hands its slot to a file, or leaves it behind: the slot stays taken.
LEMMA HandOver ==
  ASSUME TypeOK, TypeOK', IInv, LockInv', NEW t \in Threads,
         pc[t] \in {"bdwrite", "vget", "fbread"},
         pc' = [pc EXCEPT ![t] = "idle"],
         \A u \in Threads : u # t => loc'[u] = loc[u],
         UNCHANGED <<bits, nfree>>,
         \/ owned' = owned \cup {Slot(t)} /\ leaked' = leaked
         \/ leaked' = leaked \cup {Slot(t)} /\ owned' = owned,
         \A c \in Cells : \/ holder'[c] = holder[c]
                          \/ holder[c] = t /\ holder'[c] = NoThread
  PROVE  IInv'
<1>1. PICK s \in Slots : s = Slot(t)
  BY DEF Slot, Slots, TypeOK, Locals
<1>2. /\ Claims(t) /\ ~Claims(t)'
      /\ \A u \in Threads : u # t => /\ Claims(u)' <=> Claims(u)
                                     /\ Slot(u)' = Slot(u) /\ Cell(u)' = Cell(u)
                                     /\ loc'[u] = loc[u] /\ pc'[u] = pc[u]
      /\ s[1] = Cell(t) /\ s[2] = loc[t].bit /\ s = <<s[1], s[2]>>
  BY <1>1 DEF Claims, ClaimPcs, Slot, Cell, TypeOK
<1>3. NoDoubleAlloc'
  <2>1. \A u \in Threads : u # t /\ Claims(u) => Slot(u) # s
    BY <1>1, <1>2 DEF NoDoubleAlloc, IInv
  <2>2. s \notin owned \cup leaked /\ s[2] \notin Reserved[s[1]]
    BY <1>1, <1>2 DEF NoDoubleAlloc, IInv
  <2>3. \A x : x \in (owned \cup leaked)' <=> x \in owned \cup leaked \/ x = s
    BY <1>1
  <2>4. (owned \cap leaked)' = {}
    BY <1>1, <2>2 DEF NoDoubleAlloc, IInv
  <2>5. QED BY <1>2, <2>1, <2>2, <2>3, <2>4 DEF NoDoubleAlloc, IInv
<1>4. BitmapExact'
  <2>1. ASSUME NEW d \in Cells, NEW e \in BitNos
        PROVE  Taken(d, e)' <=> Taken(d, e)
    <3>1. CASE <<d, e>> = s
      BY <1>1, <1>2, <3>1 DEF Taken
    <3>2. CASE <<d, e>> # s
      <4>1. \A u \in Threads : Claims(u)' /\ Slot(u)' = <<d, e>>
                               <=> Claims(u) /\ Slot(u) = <<d, e>>
        BY <1>1, <1>2, <3>2
      <4>2. QED BY <1>1, <3>2, <4>1 DEF Taken
    <3>3. QED BY <3>1, <3>2
  <2>2. QED BY <2>1, BitByBit, BitByBitNext DEF IInv
<1>5. CountsExact'
  <2>1. LockInv /\ CountsExact /\ pc[t] \notin {"account", "faccount"}
    BY DEF IInv
  <2>2. QED BY <2>1, QuietCounts, ZenonT(60)
<1>6. HandInv'
  BY QuietHand DEF IInv
<1>7. NoPanic'
  BY DEF IInv, NoPanic, TypeOK
<1>8. QED BY <1>3, <1>4, <1>5, <1>6, <1>7 DEF IInv

\* A file gives a slot back: it is in the freeing thread's hands now.
LEMMA FreeInvariant ==
  ASSUME TypeOK, TypeOK', IInv, LockInv', NEW t \in Threads, Free(t)
  PROVE  IInv'
<1>1. PICK s \in owned : /\ owned' = owned \ {s}
                         /\ loc' = [loc EXCEPT ![t] = Hold(s, s \in dirs)]
  BY DEF Free, SetLoc
<1>2. /\ pc[t] = "idle" /\ pc' = [pc EXCEPT ![t] = "fbread"]
      /\ bits' = bits /\ nfree' = nfree /\ leaked' = leaked /\ holder' = holder
      /\ s \in Slots /\ s = <<s[1], s[2]>>
  BY DEF Free, Goto, counters, TypeOK, Slots
<1>3. /\ ~Claims(t) /\ Claims(t)' /\ Slot(t)' = s
      /\ loc'[t].bit = s[2] /\ Cell(t)' = s[1]
      /\ \A u \in Threads : u # t => /\ Claims(u)' <=> Claims(u)
                                     /\ Slot(u)' = Slot(u) /\ Cell(u)' = Cell(u)
                                     /\ loc'[u] = loc[u] /\ pc'[u] = pc[u]
  BY <1>1, <1>2, HoldFields DEF Claims, ClaimPcs, Slot, Cell, TypeOK
<1>4. NoDoubleAlloc'
  <2>1. \A u \in Threads : u # t /\ Claims(u) => Slot(u) # s
    BY <1>1, <1>3 DEF NoDoubleAlloc, IInv
  <2>2. s \notin leaked /\ s[2] \notin Reserved[s[1]]
    BY <1>1 DEF NoDoubleAlloc, IInv
  <2>3. \A x : x \in (owned \cup leaked)' <=> x \in owned \cup leaked /\ x # s
    BY <1>1, <1>2, <2>2
  <2>4. (owned \cap leaked)' = {}
    BY <1>1, <1>2 DEF NoDoubleAlloc, IInv
  <2>5. QED BY <1>3, <2>1, <2>2, <2>3, <2>4 DEF NoDoubleAlloc, IInv
<1>5. BitmapExact'
  <2>1. ASSUME NEW d \in Cells, NEW e \in BitNos
        PROVE  Taken(d, e)' <=> Taken(d, e)
    <3>1. CASE <<d, e>> = s
      BY <1>1, <1>2, <1>3, <3>1 DEF Taken
    <3>2. CASE <<d, e>> # s
      <4>1. \A u \in Threads : Claims(u)' /\ Slot(u)' = <<d, e>>
                               <=> Claims(u) /\ Slot(u) = <<d, e>>
        BY <1>1, <1>3, <3>2
      <4>2. QED BY <1>1, <1>2, <3>2, <4>1 DEF Taken
    <3>3. QED BY <3>1, <3>2
  <2>2. QED BY <1>2, <2>1, BitByBit, BitByBitNext DEF IInv
<1>6. CountsExact'
  <2>1. LockInv /\ CountsExact /\ pc[t] \notin {"account", "faccount"}
    BY <1>2 DEF IInv
  <2>2. QED BY <1>2, <2>1, QuietCounts
<1>7. HandInv'
  <2>1. HandInv /\ \A u \in Threads : u # t => loc'[u] = loc[u]
    BY <1>3 DEF IInv
  <2>2. QED BY <1>2, <2>1, QuietHand
<1>8. NoPanic'
  BY <1>2 DEF IInv, NoPanic, TypeOK
<1>9. QED BY <1>4, <1>5, <1>6, <1>7, <1>8 DEF IInv

\* Clearing a bit: the bit was set, because the freeing thread had the slot.
LEMMA FreeClearInvariant ==
  ASSUME TypeOK, TypeOK', IInv, LockInv', NEW t \in Threads, FreeClear(t)
  PROVE  IInv'
<1>c. PICK c \in Cells, b \in BitNos : c = Cell(t) /\ b = loc[t].bit
  BY DEF TypeOK, Cell, Locals
<1>0. /\ pc[t] = "clear" /\ holder[c] = t /\ Slot(t) = <<c, b>> /\ Claims(t)
      /\ pc \in [Threads -> Pcs] /\ bits \in [Cells -> SUBSET BitNos]
      /\ holder' = holder /\ nfree' = nfree /\ owned' = owned /\ leaked' = leaked
      /\ loc' = loc
  BY <1>c DEF FreeClear, TypeOK, IInv, LockInv, BufPcs, Cell, Slot, counters, files,
              Claims, ClaimPcs
<1>1. b \in bits[c]
  <2>1. Taken(c, b)
    BY <1>0 DEF Taken
  <2>2. QED BY <2>1, BitByBit DEF IInv
<1>2. /\ bits' = [bits EXCEPT ![c] = @ \ {b}]
      /\ pc' = [pc EXCEPT ![t] = "faccount"]
  BY <1>c, <1>1 DEF FreeClear, Goto
<1>3. /\ ~Claims(t)' /\ \A u \in Threads : Slot(u)' = Slot(u) /\ Cell(u)' = Cell(u)
      /\ \A u \in Threads : u # t => (Claims(u)' <=> Claims(u)) /\ pc'[u] = pc[u]
  BY <1>0, <1>2 DEF Claims, ClaimPcs, Slot, Cell
<1>4. NoDoubleAlloc'
  BY <1>0, <1>3 DEF NoDoubleAlloc, IInv
<1>5. BitmapExact'
  <2>1. ASSUME NEW d \in Cells, NEW e \in BitNos
        PROVE  e \in bits'[d] <=> Taken(d, e)'
    <3>1. e \in bits[d] <=> Taken(d, e)
      BY BitByBit DEF IInv
    <3>2. CASE <<d, e>> = <<c, b>>
      <4>1. ~Taken(d, e)'
        <5>1. <<c, b>> \notin owned \cup leaked /\ b \notin Reserved[c]
          BY <1>0, <1>c DEF NoDoubleAlloc, IInv
        <5>2. \A u \in Threads : u # t /\ Claims(u) => Slot(u) # <<c, b>>
          BY <1>0 DEF NoDoubleAlloc, IInv
        <5>3. QED BY <1>0, <1>3, <3>2, <5>1, <5>2 DEF Taken
      <4>2. e \notin bits'[d]
        BY <1>0, <1>2, <3>2
      <4>3. QED BY <4>1, <4>2
    <3>3. CASE <<d, e>> # <<c, b>>
      <4>1. Taken(d, e)' <=> Taken(d, e)
        BY <1>0, <1>3, <3>3 DEF Taken
      <4>2. e \in bits'[d] <=> e \in bits[d]
        BY <1>0, <1>2, <3>3
      <4>3. QED BY <3>1, <4>1, <4>2
    <3>4. QED BY <3>2, <3>3
  <2>2. QED BY <2>1, BitByBitNext
<1>6. b \in Bits(c) /\ b \notin Clear(c) /\ Clear(c)' = Clear(c) \cup {b}
  BY <1>0, <1>1, <1>2 DEF Clear, TypeOK
<1>7. CountsExact'
  <2>1. ASSUME NEW d \in Cells, d # c
        PROVE  Clear(d)' = Clear(d) /\ Pending(d)' = Pending(d)
    <3>1. holder[d] # t
      BY <1>c, <1>0, <2>1 DEF IInv, LockInv
    <3>2. QED BY <1>0, <1>2, <1>3, <2>1, <3>1 DEF Clear, Pending, TypeOK
  <2>2. Cardinality(Clear(c)') = Cardinality(Clear(c)) + 1
    BY <1>6, ClearFinite, FS_AddElement
  <2>3. Pending(c) = 0 /\ Pending(c)' = -1
    BY <1>0, <1>2, ThreadsAssumption DEF Pending
  <2>4. QED BY <1>0, <2>1, <2>2, <2>3, ClearFinite DEF CountsExact, IInv
<1>8. HandInv'
  <2>1. ASSUME NEW u \in Threads, pc'[u] = "faccount"
        PROVE  loc'[u].bit \in Clear(Cell(u))'
    <3>1. CASE u = t
      BY <1>c, <1>0, <1>3, <1>6, <3>1 DEF Cell
    <3>2. CASE u # t
      <4>1. pc[u] = "faccount" /\ Cell(u) # c /\ Cell(u) \in Cells
        BY <1>c, <1>0, <1>3, <2>1, <3>2 DEF IInv, LockInv, BufPcs, TypeOK, Cell, Locals
      <4>2. QED BY <1>0, <1>2, <4>1 DEF HandInv, IInv, Clear, Cell
    <3>3. QED BY <3>1, <3>2
  <2>2. QED BY <1>0, <1>2, <1>3, <2>1 DEF HandInv, IInv
<1>9. NoPanic'
  BY <1>0, <1>2 DEF NoPanic, IInv
<1>10. QED BY <1>4, <1>5, <1>7, <1>8, <1>9 DEF IInv

\* A freshly mounted volume satisfies the invariant.
LEMMA InitInvariant == Init => IInv
<1> SUFFICES ASSUME Init PROVE IInv
  OBVIOUS
<1>1. \A t \in Threads : pc[t] = "idle" /\ ~Claims(t)
  BY DEF Init, Claims, ClaimPcs
<1>2. LockInv
  BY ThreadsAssumption DEF Init, LockInv, MtxPcs, BufPcs
<1>3. NoDoubleAlloc
  BY <1>1 DEF Init, NoDoubleAlloc
<1>4. BitmapExact
  BY <1>1, ReservedAssumption DEF Init, BitmapExact, InUse
<1>5. CountsExact
  <2> SUFFICES ASSUME NEW c \in Cells
               PROVE  nfree[c] = Cardinality(Clear(c)) + Pending(c)
    BY DEF CountsExact
  <2>1. Pending(c) = 0
    BY DEF Init, Pending
  <2>2. nfree[c] = Cardinality(Clear(c))
    BY DEF Init, Clear
  <2>3. QED BY <2>1, <2>2, ClearFinite
<1>6. HandInv /\ NoPanic
  BY <1>1 DEF HandInv, NoPanic
<1>7. QED BY <1>2, <1>3, <1>4, <1>5, <1>6 DEF IInv

\* IInv is inductive: the one argument behind the theorems below.
THEOREM AllocatorInvariant == Spec => []IInv
<1>2. TypeOK /\ TypeOK' /\ LockInv' /\ IInv /\ [Next]_vars => IInv'
  <2> SUFFICES ASSUME TypeOK, TypeOK', LockInv', IInv, [Next]_vars PROVE IInv'
    OBVIOUS
  <2>0. /\ \A t \in Threads : Cell(t) \in Cells
        /\ pc \in [Threads -> Pcs] /\ loc \in [Threads -> Locals]
        /\ holder \in [Cells -> Threads \cup {NoThread}]
    BY DEF TypeOK, Cell, Locals
  <2>1. ASSUME NEW t \in Threads, Alloc(t) \/ Valloc(t) PROVE IInv'
    <3>1. /\ \A u \in Threads : u # t => loc'[u] = loc[u]
          /\ UNCHANGED <<bits, nfree, owned, leaked, holder>>
          /\ pc[t] = "idle"
      BY <2>0, <2>1 DEF Alloc, Valloc, SetLoc, counters, files
    <3>2. PICK p \in MtxPcs : pc' = [pc EXCEPT ![t] = p]
      BY <2>1 DEF Alloc, Valloc, Goto, MtxPcs
    <3>3. QED BY <3>1, <3>2, QuietInv DEF ClaimPcs, MtxPcs
  <2>2. ASSUME NEW t \in Threads, Free(t) PROVE IInv'
    BY <2>2, FreeInvariant
  <2>3. ASSUME NEW t \in Threads, Nospace(t) PROVE IInv'
    <3>1. /\ \A u \in Threads : u # t => loc'[u] = loc[u]
          /\ UNCHANGED <<bits, nfree, owned, leaked, holder>>
          /\ pc[t] = "nospace" /\ pc' = [pc EXCEPT ![t] = "idle"]
      BY <2>0, <2>3 DEF Nospace, Return, Goto, SetLoc, counters, files
    <3>2. QED BY <3>1, QuietInv DEF ClaimPcs
  <2>4. ASSUME NEW t \in Threads, VallocVget(t) PROVE IInv'
    <3>1. /\ \A u \in Threads : u # t => loc'[u] = loc[u]
          /\ UNCHANGED <<bits, nfree, leaked, holder>> /\ pc[t] = "vget"
      BY <2>0, <2>4 DEF VallocVget, Return, SetLoc, counters
    <3>2. CASE owned' = owned \cup {Slot(t)} /\ pc' = [pc EXCEPT ![t] = "idle"]
      BY <3>1, <3>2, HandOver
    <3>3. CASE UNCHANGED <<owned, loc>> /\ pc' = [pc EXCEPT ![t] = "fbread"]
      BY <3>1, <3>3, QuietInv DEF ClaimPcs
    <3>4. QED BY <2>4, <3>2, <3>3 DEF VallocVget, Return, Goto
  <2>5. ASSUME NEW t \in Threads, Probe(t) PROVE IInv'
    <3>1. pc[t] = "probe" /\ UNCHANGED <<bits, nfree, owned, leaked, holder>>
      BY <2>5 DEF Probe, counters, files
    <3>2. CASE SearchOn(t)
      BY <3>1, <3>2, SearchOnInv
    <3>3. CASE Goto(t, "bread") /\ UNCHANGED loc
      BY <3>1, <3>3, QuietInv DEF ClaimPcs, Goto
    <3>4. QED BY <2>5, <3>2, <3>3 DEF Probe
  <2>6. ASSUME NEW t \in Threads, Relock(t) PROVE IInv'
    BY <2>6, SearchOnInv DEF Relock, counters, files
  <2>7. ASSUME NEW t \in Threads, Bread(t) PROVE IInv'
    <3>1. /\ UNCHANGED <<bits, nfree, owned, leaked, loc>> /\ pc[t] = "bread"
          /\ \A c \in Cells : \/ holder'[c] = holder[c]
                              \/ holder[c] = NoThread /\ holder'[c] = t
      BY <2>0, <2>7 DEF Bread, counters, files
    <3>2. PICK p \in {"recheck", "relock"} : pc' = [pc EXCEPT ![t] = p]
      BY <2>7 DEF Bread, Goto
    <3>3. QED BY <3>1, <3>2, QuietInv DEF ClaimPcs
  <2>8. ASSUME NEW t \in Threads, Recheck(t) PROVE IInv'
    <3>1. UNCHANGED <<bits, nfree, owned, leaked, loc>> /\ pc[t] = "recheck"
      BY <2>8 DEF Recheck, counters, files
    <3>2. holder[Cell(t)] = t
      BY <2>0, <3>1 DEF IInv, LockInv, BufPcs
    <3>3. CASE Goto(t, "relock") /\ holder' = [holder EXCEPT ![Cell(t)] = NoThread]
      <4>1. \A c \in Cells : \/ holder'[c] = holder[c]
                             \/ holder[c] = t /\ holder'[c] = NoThread
        BY <2>0, <3>2, <3>3
      <4>2. QED BY <3>1, <3>3, <4>1, QuietInv DEF ClaimPcs, Goto
    <3>4. CASE nfree[Cell(t)] # 0 /\ Goto(t, "search") /\ UNCHANGED holder
      <4>1. pc' = [pc EXCEPT ![t] = "search"]
        BY <3>4 DEF Goto
      <4>2. Quiet
        BY <3>1, <4>1, QuietStep DEF ClaimPcs
      <4>3. NoDoubleAlloc' /\ BitmapExact'
        BY <4>2, QuietSlots DEF IInv
      <4>4. CountsExact'
        <5>1. LockInv /\ CountsExact /\ pc[t] \notin {"account", "faccount"}
          BY <3>1 DEF IInv
        <5>2. QED BY <3>1, <3>4, <4>1, <5>1, QuietCounts
      <4>5. HandInv'
        BY <2>0, <3>1, <3>4, <4>1 DEF HandInv, IInv, Cell, Clear
      <4>6. NoPanic'
        BY <2>0, <4>1 DEF NoPanic, IInv
      <4>7. QED BY <4>3, <4>4, <4>5, <4>6 DEF IInv
    <3>5. QED BY <2>8, <3>3, <3>4 DEF Recheck
  <2>9. ASSUME NEW t \in Threads, Search(t) PROVE IInv'
    BY <2>9, SearchInvariant
  <2>10. ASSUME NEW t \in Threads, AccountAlloc(t) \/ AccountFree(t) PROVE IInv'
    BY <2>10, AccountInvariant
  <2>11. ASSUME NEW t \in Threads, AllocDone(t) PROVE IInv'
    <3>1. /\ UNCHANGED <<bits, nfree, leaked>> /\ pc[t] = "bdwrite"
          /\ \A u \in Threads : u # t => loc'[u] = loc[u]
          /\ holder' = [holder EXCEPT ![Cell(t)] = NoThread]
      BY <2>0, <2>11 DEF AllocDone, counters, Return, SetLoc
    <3>2. holder[Cell(t)] = t
      BY <2>0, <3>1 DEF IInv, LockInv, BufPcs
    <3>3. \A c \in Cells : \/ holder'[c] = holder[c]
                           \/ holder[c] = t /\ holder'[c] = NoThread
      BY <2>0, <3>1, <3>2
    <3>4. CASE owned' = owned \cup {Slot(t)} /\ pc' = [pc EXCEPT ![t] = "idle"]
      BY <3>1, <3>3, <3>4, HandOver
    <3>5. CASE UNCHANGED <<owned, loc>> /\ pc' = [pc EXCEPT ![t] = "vget"]
      BY <3>1, <3>3, <3>5, QuietInv DEF ClaimPcs
    <3>6. QED BY <2>11, <3>4, <3>5 DEF AllocDone, Return, Goto
  <2>12. ASSUME NEW t \in Threads, FreeBread(t) PROVE IInv'
    <3>1. /\ UNCHANGED <<bits, nfree, owned>> /\ pc[t] = "fbread"
          /\ \A u \in Threads : u # t => loc'[u] = loc[u]
      BY <2>0, <2>12 DEF FreeBread, counters, Return, SetLoc
    <3>2. CASE /\ leaked' = leaked \cup {Slot(t)} /\ UNCHANGED holder
               /\ pc' = [pc EXCEPT ![t] = "idle"]
      BY <3>1, <3>2, HandOver
    <3>3. CASE /\ UNCHANGED <<leaked, loc>> /\ pc' = [pc EXCEPT ![t] = "clear"]
               /\ holder[Cell(t)] = NoThread
               /\ holder' = [holder EXCEPT ![Cell(t)] = t]
      <4>1. \A c \in Cells : \/ holder'[c] = holder[c]
                             \/ holder[c] = NoThread /\ holder'[c] = t
        BY <2>0, <3>3
      <4>2. QED BY <3>1, <3>3, <4>1, QuietInv DEF ClaimPcs
    <3>4. QED BY <2>12, <3>2, <3>3 DEF FreeBread, Return, Goto
  <2>13. ASSUME NEW t \in Threads, FreeClear(t) PROVE IInv'
    BY <2>13, FreeClearInvariant
  <2>14. ASSUME NEW t \in Threads, FreeDone(t) PROVE IInv'
    <3>1. /\ UNCHANGED <<bits, nfree, leaked, owned>> /\ pc[t] = "fbdwrite"
          /\ \A u \in Threads : u # t => loc'[u] = loc[u]
          /\ holder' = [holder EXCEPT ![Cell(t)] = NoThread]
          /\ pc' = [pc EXCEPT ![t] = "idle"]
      BY <2>0, <2>14 DEF FreeDone, counters, files, Return, SetLoc, Goto
    <3>2. holder[Cell(t)] = t
      BY <2>0, <3>1 DEF IInv, LockInv, BufPcs
    <3>3. \A c \in Cells : \/ holder'[c] = holder[c]
                           \/ holder[c] = t /\ holder'[c] = NoThread
      BY <2>0, <3>1, <3>2
    <3>4. QED BY <3>1, <3>3, QuietInv DEF ClaimPcs
  <2>15. CASE UNCHANGED vars
    <3>1. /\ NoDoubleAlloc' /\ BitmapExact' /\ CountsExact' /\ HandInv' /\ NoPanic'
      BY <2>15
      DEF vars, IInv, NoDoubleAlloc, BitmapExact, CountsExact, HandInv, NoPanic,
          Claims, Slot, Cell, InUse, Clear, Pending
    <3>2. QED BY <3>1 DEF IInv
  <2>16. QED
    BY <2>1, <2>2, <2>3, <2>4, <2>5, <2>6, <2>7, <2>8, <2>9, <2>10, <2>11,
       <2>12, <2>13, <2>14, <2>15
    DEF Next, Begin, Continue, alloccg, nodealloccg, blkfree, vfree,
        AllocCg, FreeInGroup
<1>3. QED BY InitInvariant, <1>2, TypeCorrect, LocksHeld, PTL DEF Spec

\* No block and no inode is ever handed out twice, whatever the interleaving.
THEOREM NeverTwice == Spec => []NoDoubleAlloc
<1>1. IInv => NoDoubleAlloc
  BY DEF IInv
<1>2. QED BY <1>1, AllocatorInvariant, PTL

\* The bitmaps record exactly the slots in use.
THEOREM BitmapsExact == Spec => []BitmapExact
<1>1. IInv => BitmapExact
  BY DEF IInv
<1>2. QED BY <1>1, AllocatorInvariant, PTL

\* The group counters agree with the bitmaps up to the holder of the buffer.
THEOREM GroupCountsExact == Spec => []CountsExact
<1>1. IInv => CountsExact
  BY DEF IInv
<1>2. QED BY <1>1, AllocatorInvariant, PTL

\* The "map corrupted" and "freeing free ..." panics are unreachable.
THEOREM NeverPanics == Spec => []NoPanic
<1>1. IInv => NoPanic
  BY DEF IInv
<1>2. QED BY <1>1, AllocatorInvariant, PTL

(***************************************************************************)
(* The totals of the superblock and the directories of a group.            *)
(***************************************************************************)

\* The threads of kind k at p, the directories of group g in files and in hands.
At(k, p)      == {t \in Threads : pc[t] = p /\ Cell(t)[1] = k}
DirSlots(g)   == {s \in dirs : s[1] = <<"inode", g>>}
DirPcs        == {"bdwrite", "vget", "fbread", "clear", "faccount"}
DirThreads(g) == {t \in Threads : loc[t].isdir /\ Cell(t)[2] = g /\ pc[t] \in DirPcs}

\* Directories are inodes, and the inodes of files or left behind by a failed free.
DirInv ==
  /\ dirs \subseteq owned \cup leaked
  /\ \A s \in dirs : s[1][1] = "inode"
  /\ \A t \in Threads : loc[t].isdir => Cell(t)[1] = "inode"

\* One if x is in S.
In(x, S) == IF x \in S THEN 1 ELSE 0

\* Two sets that differ in x at most differ in size by x at most.
LEMMA OneApart ==
  ASSUME NEW S, NEW T, NEW x, IsFiniteSet(S), S \ {x} = T \ {x}
  PROVE  /\ Cardinality(S) \in Int /\ Cardinality(T) \in Int
         /\ Cardinality(T) - In(x, T) = Cardinality(S) - In(x, S)
<1>1. IsFiniteSet(S \ {x}) /\ Cardinality(S \ {x}) = Cardinality(S) - In(x, S)
  BY FS_RemoveElement, FS_CardinalityType DEF In
<1>2. IsFiniteSet(T)
  <2>1. CASE x \in T
    <3>1. T = (S \ {x}) \cup {x}
      BY <2>1
    <3>2. QED BY <1>1, <3>1, FS_AddElement
  <2>2. CASE x \notin T
    <3>1. T = S \ {x}
      BY <2>2
    <3>2. QED BY <1>1, <3>1
  <2>3. QED BY <2>1, <2>2
<1>3. Cardinality(T \ {x}) = Cardinality(T) - In(x, T)
  BY <1>2, FS_RemoveElement, FS_CardinalityType DEF In
<1>4. Cardinality(S) \in Int /\ Cardinality(T) \in Int
  BY <1>2, FS_CardinalityType
<1>5. QED BY <1>1, <1>3, <1>4

\* The sets that TotalsExact counts are finite.
LEMMA CountedFinite ==
  ASSUME TypeOK, NEW g, NEW k, NEW p
  PROVE  IsFiniteSet(At(k, p)) /\ IsFiniteSet(DirSlots(g)) /\ IsFiniteSet(DirThreads(g))
<1>1. IsFiniteSet(At(k, p)) /\ IsFiniteSet(DirThreads(g))
  BY ThreadsAssumption, FS_Subset DEF At, DirThreads
<1>2. IsFiniteSet(Slots)
  <2>1. IsFiniteSet(BitNos) /\ IsFiniteSet(Groups) /\ IsFiniteSet(Kinds)
    <3>1. IsFiniteSet(Groups) /\ IsFiniteSet(BitNos)
      BY GeometryAssumption, FS_Interval DEF Groups, BitNos
    <3>2. Kinds = {"block"} \cup {"inode"} /\ IsFiniteSet({"block"})
      BY FS_Singleton DEF Kinds
    <3>3. QED BY <3>1, <3>2, FS_AddElement
  <2>2. IsFiniteSet(Cells)
    BY <2>1, FS_Product DEF Cells
  <2>3. QED BY <2>1, <2>2, FS_Product DEF Slots
<1>3. DirSlots(g) \subseteq Slots
  BY DEF DirSlots, TypeOK
<1>4. QED BY <1>1, <1>2, <1>3, FS_Subset

\* A step of thread t that touches no slot but s keeps the totals if it changes each counter
\* by what it does to the sets the counter is of.
LEMMA TotalsStep ==
  ASSUME TypeOK, TypeOK', TotalsExact, NEW t \in Threads, NEW s,
         \A u \in Threads \ {t} : pc'[u] = pc[u] /\ loc'[u] = loc[u],
         \A k \in Kinds :
           /\ FreeSlots(k)' \ {s} = FreeSlots(k) \ {s}
           /\ total'[k] - total[k] =
                In(s, FreeSlots(k)') - In(s, FreeSlots(k))
                + In(t, At(k, "account")') - In(t, At(k, "account"))
                - In(t, At(k, "faccount")') + In(t, At(k, "faccount")),
         dirs' \ {s} = dirs \ {s},
         \A g \in Groups :
           ndirs'[g] - ndirs[g] =
             In(s, DirSlots(g)') - In(s, DirSlots(g))
             + In(t, DirThreads(g)') - In(t, DirThreads(g))
  PROVE  TotalsExact'
<1>0. \A x, S : In(x, S) \in Int
  BY DEF In
<1>1. ASSUME NEW k \in Kinds
      PROVE  total'[k] = Cardinality(FreeSlots(k)') + Cardinality(At(k, "account")')
                         - Cardinality(At(k, "faccount")')
  <2>1. /\ At(k, "account")' \ {t} = At(k, "account") \ {t}
        /\ At(k, "faccount")' \ {t} = At(k, "faccount") \ {t}
    BY DEF At, Cell
  <2>2. /\ Cardinality(FreeSlots(k)) \in Int /\ Cardinality(FreeSlots(k)') \in Int
        /\ Cardinality(FreeSlots(k)') - In(s, FreeSlots(k)') = Cardinality(FreeSlots(k)) - In(s, FreeSlots(k))
    BY FreeSlotsFinite, OneApart
  <2>3. /\ Cardinality(At(k, "account")) \in Int /\ Cardinality(At(k, "account")') \in Int
        /\ Cardinality(At(k, "account")') - In(t, At(k, "account")') =
             Cardinality(At(k, "account")) - In(t, At(k, "account"))
    BY <2>1, CountedFinite, OneApart
  <2>4. /\ Cardinality(At(k, "faccount")) \in Int /\ Cardinality(At(k, "faccount")') \in Int
        /\ Cardinality(At(k, "faccount")') - In(t, At(k, "faccount")') =
             Cardinality(At(k, "faccount")) - In(t, At(k, "faccount"))
    BY <2>1, CountedFinite, OneApart
  <2>5. total[k] = Cardinality(FreeSlots(k)) + Cardinality(At(k, "account"))
                   - Cardinality(At(k, "faccount"))
    BY DEF TotalsExact, At
  <2>6. total[k] \in Int /\ total'[k] \in Int
    BY DEF TypeOK
  <2>7. QED BY <1>0, <2>2, <2>3, <2>4, <2>5, <2>6
<1>2. ASSUME NEW g \in Groups
      PROVE  ndirs'[g] = Cardinality(DirSlots(g)') + Cardinality(DirThreads(g)')
  <2>1. DirThreads(g)' \ {t} = DirThreads(g) \ {t} /\ DirSlots(g)' \ {s} = DirSlots(g) \ {s}
    BY DEF DirThreads, DirSlots, Cell
  <2>2. /\ Cardinality(DirSlots(g)) \in Int /\ Cardinality(DirSlots(g)') \in Int
        /\ Cardinality(DirSlots(g)') - In(s, DirSlots(g)') = Cardinality(DirSlots(g)) - In(s, DirSlots(g))
    BY <2>1, CountedFinite, OneApart
  <2>3. /\ Cardinality(DirThreads(g)) \in Int /\ Cardinality(DirThreads(g)') \in Int
        /\ Cardinality(DirThreads(g)') - In(t, DirThreads(g)') =
             Cardinality(DirThreads(g)) - In(t, DirThreads(g))
    BY <2>1, CountedFinite, OneApart
  <2>4. ndirs[g] = Cardinality(DirSlots(g)) + Cardinality(DirThreads(g))
    BY DEF TotalsExact, DirSlots, DirThreads, DirPcs
  <2>5. ndirs[g] \in Int /\ ndirs'[g] \in Int
    BY DEF TypeOK
  <2>6. ndirs'[g] - ndirs[g] =
          In(s, DirSlots(g)') - In(s, DirSlots(g)) + In(t, DirThreads(g)') - In(t, DirThreads(g))
    OBVIOUS
  <2>7. /\ In(s, DirSlots(g)') \in Int /\ In(s, DirSlots(g)) \in Int
        /\ In(t, DirThreads(g)') \in Int /\ In(t, DirThreads(g)) \in Int
    BY <1>0
  <2>8. QED
    <3> DEFINE a == Cardinality(DirSlots(g))
               b == Cardinality(DirSlots(g)')
               c == Cardinality(DirThreads(g))
               d == Cardinality(DirThreads(g)')
               p == In(s, DirSlots(g))
               q == In(s, DirSlots(g)')
               r == In(t, DirThreads(g))
               x == In(t, DirThreads(g)')
               n == ndirs[g]
               m == ndirs'[g]
    <3>1. /\ a \in Int /\ b \in Int /\ c \in Int /\ d \in Int /\ n \in Int /\ m \in Int
          /\ p \in Int /\ q \in Int /\ r \in Int /\ x \in Int
      BY <2>2, <2>3, <2>5, <2>7
    <3>2. b - q = a - p
      BY <2>2
    <3>3. d - x = c - r 
      BY <2>3
    <3>4. n = a + c 
      BY <2>4
    <3>5. m - n = (q - p) + (x - r)
      BY <2>6
    <3> HIDE DEF a, b, c, d, p, q, r, x, n, m
    <3>6. m = b + d
      BY <3>1, <3>2, <3>3, <3>4, <3>5
    <3>7. QED BY <3>6 DEF m, b, d
<1>3. (\A k \in Kinds :
         total[k] = Cardinality(FreeSlots(k))
                    + Cardinality({u \in Threads : pc[u] = "account" /\ Cell(u)[1] = k})
                    - Cardinality({u \in Threads : pc[u] = "faccount" /\ Cell(u)[1] = k}))'
  BY <1>1 DEF At
<1>4. (\A g \in Groups :
         ndirs[g] = Cardinality({x \in dirs : x[1] = <<"inode", g>>})
                    + Cardinality({u \in Threads : /\ loc[u].isdir
                                                   /\ Cell(u)[2] = g
                                                   /\ pc[u] \in DirPcs}))'
  BY <1>2 DEF DirSlots, DirThreads
<1>5. QED BY <1>3, <1>4 DEF TotalsExact, DirPcs

\* A step that leaves bitmaps, counters and directories alone and in which the thread
\* neither counts nor holds a directory's inode, before or after.
LEMMA TotalsQuiet ==
  ASSUME TypeOK, TypeOK', TotalsExact, NEW t \in Threads,
         \A u \in Threads \ {t} : pc'[u] = pc[u] /\ loc'[u] = loc[u],
         UNCHANGED <<bits, total, ndirs, dirs>>,
         pc[t] \notin {"account", "faccount"}, pc'[t] \notin {"account", "faccount"},
         \/ /\ ~(pc[t] \in DirPcs /\ loc[t].isdir)
            /\ ~(pc'[t] \in DirPcs /\ loc'[t].isdir)
         \/ pc[t] \in DirPcs /\ pc'[t] \in DirPcs /\ loc'[t] = loc[t]
  PROVE  TotalsExact'
<1>1. \A k \in Kinds : /\ FreeSlots(k)' = FreeSlots(k)
                       /\ t \notin At(k, "account") /\ t \notin At(k, "account")'
                       /\ t \notin At(k, "faccount") /\ t \notin At(k, "faccount")'
  BY DEF FreeSlots, Clear, At
<1>2. \A g \in Groups : DirSlots(g)' = DirSlots(g) /\ (t \in DirThreads(g)' <=> t \in DirThreads(g))
  BY DEF DirSlots, DirThreads, Cell
<1>3. ASSUME NEW s PROVE TotalsExact'
  <2>1. ASSUME NEW k \in Kinds
        PROVE  total'[k] - total[k] =
                 In(s, FreeSlots(k)') - In(s, FreeSlots(k))
                 + In(t, At(k, "account")') - In(t, At(k, "account"))
                 - In(t, At(k, "faccount")') + In(t, At(k, "faccount"))
    <3>1. /\ In(s, FreeSlots(k)') = In(s, FreeSlots(k)) /\ In(s, FreeSlots(k)) \in Int
          /\ In(t, At(k, "account")) = 0 /\ In(t, At(k, "account")') = 0
          /\ In(t, At(k, "faccount")) = 0 /\ In(t, At(k, "faccount")') = 0
      BY <1>1 DEF In
    <3>2. total[k] \in Int /\ total'[k] = total[k]
      BY DEF TypeOK
    <3>3. QED BY <3>1, <3>2
  <2>2. ASSUME NEW g \in Groups
        PROVE  ndirs'[g] - ndirs[g] =
                 In(s, DirSlots(g)') - In(s, DirSlots(g))
                 + In(t, DirThreads(g)') - In(t, DirThreads(g))
    <3>1. /\ In(s, DirSlots(g)') = In(s, DirSlots(g)) /\ In(s, DirSlots(g)) \in Int
          /\ In(t, DirThreads(g)') = In(t, DirThreads(g)) /\ In(t, DirThreads(g)) \in Int
      BY <1>2 DEF In
    <3>2. ndirs[g] \in Int /\ ndirs'[g] = ndirs[g]
      BY DEF TypeOK
    <3>3. QED BY <3>1, <3>2
  <2>3. \A k \in Kinds : FreeSlots(k)' \ {s} = FreeSlots(k) \ {s}
    BY <1>1
  <2>4. QED BY <2>1, <2>2, <2>3, TotalsStep
<1>4. QED BY <1>3

\* A bit set or cleared by the thread that is to count it next.
LEMMA TotalsBit ==
  ASSUME TypeOK, TypeOK', TotalsExact, NEW t \in Threads, NEW c \in Cells, NEW b \in Bits(c),
         \A u \in Threads \ {t} : pc'[u] = pc[u] /\ loc'[u] = loc[u],
         UNCHANGED <<total, ndirs, dirs>>, Cell(t)' = c,
         \/ /\ b \notin bits[c] /\ bits' = [bits EXCEPT ![c] = @ \cup {b}]
            /\ pc[t] = "search" /\ pc'[t] = "account"
         \/ /\ b \in bits[c] /\ bits' = [bits EXCEPT ![c] = @ \ {b}]
            /\ pc[t] = "clear" /\ pc'[t] = "faccount" /\ loc' = loc
  PROVE  TotalsExact'
<1> DEFINE s == <<c, b>>
<1>0. s \in Slots /\ s[1] = c /\ s[2] = b /\ \A x \in Slots : x = <<x[1], x[2]>> /\ x[1] \in Cells
  BY BitsFacts DEF Slots
<1>1. \A x \in Slots \ {s} : x[2] \in Clear(x[1])' <=> x[2] \in Clear(x[1])
  BY <1>0 DEF Clear, TypeOK
<1>2. b \in Clear(c)' <=> pc'[t] = "faccount"
  BY DEF Clear, TypeOK
<1>3. b \in Clear(c) <=> pc'[t] = "account"
  BY DEF Clear, TypeOK
<1>4. ASSUME NEW k \in Kinds
      PROVE  /\ FreeSlots(k)' \ {s} = FreeSlots(k) \ {s}
             /\ total'[k] - total[k] =
                  In(s, FreeSlots(k)') - In(s, FreeSlots(k))
                  + In(t, At(k, "account")') - In(t, At(k, "account"))
                  - In(t, At(k, "faccount")') + In(t, At(k, "faccount"))
  <2>1. FreeSlots(k)' \ {s} = FreeSlots(k) \ {s}
    BY <1>1 DEF FreeSlots
  <2>2. /\ s \in FreeSlots(k)' <=> c[1] = k /\ pc'[t] = "faccount"
        /\ s \in FreeSlots(k) <=> c[1] = k /\ pc'[t] = "account"
    BY <1>0, <1>2, <1>3 DEF FreeSlots
  <2>3. /\ t \in At(k, "account")' <=> c[1] = k /\ pc'[t] = "account"
        /\ t \in At(k, "faccount")' <=> c[1] = k /\ pc'[t] = "faccount"
        /\ t \notin At(k, "account") /\ t \notin At(k, "faccount")
    BY DEF At
  <2>4. /\ In(s, FreeSlots(k)') = In(t, At(k, "faccount")') /\ In(t, At(k, "faccount")') \in Int
        /\ In(s, FreeSlots(k)) = In(t, At(k, "account")') /\ In(t, At(k, "account")') \in Int
        /\ In(t, At(k, "account")) = 0 /\ In(t, At(k, "faccount")) = 0
    BY <2>2, <2>3 DEF In
  <2>5. total[k] \in Int /\ total'[k] = total[k]
    BY DEF TypeOK
  <2>6. QED BY <2>1, <2>4, <2>5
<1>5. ASSUME NEW g \in Groups
      PROVE  ndirs'[g] - ndirs[g] =
               In(s, DirSlots(g)') - In(s, DirSlots(g))
               + In(t, DirThreads(g)') - In(t, DirThreads(g))
  <2>1. DirSlots(g)' = DirSlots(g) /\ (t \in DirThreads(g)' <=> t \in DirThreads(g))
    BY DEF DirSlots, DirThreads, Cell, DirPcs
  <2>2. /\ In(s, DirSlots(g)') = In(s, DirSlots(g)) /\ In(s, DirSlots(g)) \in Int
        /\ In(t, DirThreads(g)') = In(t, DirThreads(g)) /\ In(t, DirThreads(g)) \in Int
    BY <2>1 DEF In
  <2>3. ndirs[g] \in Int /\ ndirs'[g] = ndirs[g]
    BY DEF TypeOK
  <2>4. QED BY <2>2, <2>3
<1> HIDE DEF s
<1>6. QED BY <1>4, <1>5, TotalsStep

\* The counters follow, under the mutex.
LEMMA TotalsAccount ==
  ASSUME TypeOK, TypeOK', TotalsExact, DirInv, NEW t \in Threads, AccountAlloc(t) \/ AccountFree(t)
  PROVE  TotalsExact'
<1>c. PICK c \in Cells : c = Cell(t) /\ c[1] \in Kinds /\ c[2] \in Groups
  BY GroupsFacts DEF TypeOK, Cell, Locals
<1>0. PICK d \in {-1, 1} :
        /\ \A k \in Kinds : total'[k] = IF c[1] = k THEN total[k] + d ELSE total[k]
        /\ d = -1 => pc[t] = "account" /\ pc'[t] = "bdwrite"
        /\ d = 1 => pc[t] = "faccount" /\ pc'[t] = "fbdwrite"
        /\ \A g \in Groups :
             ndirs'[g] = IF loc[t].isdir /\ c[2] = g THEN ndirs[g] - d ELSE ndirs[g]
        /\ UNCHANGED <<bits, dirs, loc>>
        /\ \A u \in Threads \ {t} : pc'[u] = pc[u] /\ loc'[u] = loc[u]
  <2>1. CASE AccountAlloc(t)
    <3>1. /\ total' = [total EXCEPT ![c[1]] = @ - 1]
          /\ pc[t] = "account" /\ pc' = [pc EXCEPT ![t] = "bdwrite"]
          /\ ndirs' = IF loc[t].isdir THEN [ndirs EXCEPT ![c[2]] = @ + 1] ELSE ndirs
          /\ UNCHANGED <<bits, dirs, loc>>
      BY <1>c, <2>1 DEF AccountAlloc, Goto, files
    <3>2. pc'[t] = "bdwrite" /\ \A u \in Threads \ {t} : pc'[u] = pc[u] /\ loc'[u] = loc[u]
      BY <3>1 DEF TypeOK
    <3>3. \A k \in Kinds : total'[k] = IF c[1] = k THEN total[k] + (-1) ELSE total[k]
      BY <3>1 DEF TypeOK
    <3>4. \A g \in Groups :
            ndirs'[g] = IF loc[t].isdir /\ c[2] = g THEN ndirs[g] - (-1) ELSE ndirs[g]
      BY <3>1 DEF TypeOK
    <3>5. QED BY <3>1, <3>2, <3>3, <3>4
  <2>2. CASE AccountFree(t)
    <3>1. /\ total' = [total EXCEPT ![c[1]] = @ + 1]
          /\ pc[t] = "faccount" /\ pc' = [pc EXCEPT ![t] = "fbdwrite"]
          /\ ndirs' = IF loc[t].isdir THEN [ndirs EXCEPT ![c[2]] = @ - 1] ELSE ndirs
          /\ UNCHANGED <<bits, dirs, loc>>
      BY <1>c, <2>2 DEF AccountFree, Goto, files
    <3>2. pc'[t] = "fbdwrite" /\ \A u \in Threads \ {t} : pc'[u] = pc[u] /\ loc'[u] = loc[u]
      BY <3>1 DEF TypeOK
    <3>3. \A k \in Kinds : total'[k] = IF c[1] = k THEN total[k] + 1 ELSE total[k]
      BY <3>1 DEF TypeOK
    <3>4. \A g \in Groups :
            ndirs'[g] = IF loc[t].isdir /\ c[2] = g THEN ndirs[g] - 1 ELSE ndirs[g]
      BY <3>1 DEF TypeOK
    <3>5. QED BY <3>1, <3>2, <3>3, <3>4
  <2>3. QED BY <2>1, <2>2
<1>1. ASSUME NEW s PROVE TotalsExact'
  <2>1. ASSUME NEW k \in Kinds
        PROVE  /\ FreeSlots(k)' \ {s} = FreeSlots(k) \ {s}
               /\ total'[k] - total[k] =
                    In(s, FreeSlots(k)') - In(s, FreeSlots(k))
                    + In(t, At(k, "account")') - In(t, At(k, "account"))
                    - In(t, At(k, "faccount")') + In(t, At(k, "faccount"))
    <3>1. FreeSlots(k)' = FreeSlots(k)
      BY <1>0 DEF FreeSlots, Clear
    <3>2. /\ t \notin At(k, "account")' /\ t \notin At(k, "faccount")'
          /\ t \in At(k, "account") <=> c[1] = k /\ d = -1
          /\ t \in At(k, "faccount") <=> c[1] = k /\ d = 1
      BY <1>c, <1>0 DEF At
    <3>3. /\ In(s, FreeSlots(k)') = In(s, FreeSlots(k)) /\ In(s, FreeSlots(k)) \in Int
          /\ In(t, At(k, "account")') = 0 /\ In(t, At(k, "faccount")') = 0
          /\ In(t, At(k, "account")) = IF c[1] = k /\ d = -1 THEN 1 ELSE 0
          /\ In(t, At(k, "faccount")) = IF c[1] = k /\ d = 1 THEN 1 ELSE 0
      BY <3>1, <3>2 DEF In
    <3>4. total[k] \in Int /\ total'[k] = IF c[1] = k THEN total[k] + d ELSE total[k]
      BY <1>0 DEF TypeOK
    <3>5. QED BY <3>1, <3>3, <3>4
  <2>2. ASSUME NEW g \in Groups
        PROVE  ndirs'[g] - ndirs[g] =
                 In(s, DirSlots(g)') - In(s, DirSlots(g))
                 + In(t, DirThreads(g)') - In(t, DirThreads(g))
    <3>1. DirSlots(g)' = DirSlots(g)
      BY <1>0 DEF DirSlots
    <3>2. /\ t \in DirThreads(g)' <=> loc[t].isdir /\ c[2] = g /\ d = -1
          /\ t \in DirThreads(g) <=> loc[t].isdir /\ c[2] = g /\ d = 1
      BY <1>c, <1>0 DEF DirThreads, DirPcs, Cell
    <3>3. /\ In(s, DirSlots(g)') = In(s, DirSlots(g)) /\ In(s, DirSlots(g)) \in Int
          /\ In(t, DirThreads(g)') = IF loc[t].isdir /\ c[2] = g /\ d = -1 THEN 1 ELSE 0
          /\ In(t, DirThreads(g)) = IF loc[t].isdir /\ c[2] = g /\ d = 1 THEN 1 ELSE 0
      BY <3>1, <3>2 DEF In
    <3>4. /\ ndirs[g] \in Int
          /\ ndirs'[g] = IF loc[t].isdir /\ c[2] = g THEN ndirs[g] - d ELSE ndirs[g]
      BY <1>0 DEF TypeOK
    <3>5. QED BY <3>3, <3>4
  <2>3. QED BY <1>0, <2>1, <2>2, TotalsStep
<1>2. QED BY <1>1

\* A directory's inode that goes from a thread's hands to a file, or is left behind, or is
\* given up by its file.
LEMMA TotalsHand ==
  ASSUME TypeOK, TypeOK', TotalsExact, NEW t \in Threads, NEW s \in Slots, NEW c \in Cells,
         s[1] = c, c[1] = "inode",
         \A u \in Threads \ {t} : pc'[u] = pc[u] /\ loc'[u] = loc[u],
         UNCHANGED <<bits, total, ndirs>>,
         pc[t] \notin {"account", "faccount"}, pc'[t] \notin {"account", "faccount"},
         \/ /\ s \notin dirs /\ dirs' = dirs \cup {s}
            /\ pc[t] \in DirPcs /\ loc[t].isdir /\ Cell(t) = c /\ pc'[t] \notin DirPcs
         \/ /\ s \in dirs /\ dirs' = dirs \ {s}
            /\ pc'[t] \in DirPcs /\ loc'[t].isdir /\ Cell(t)' = c /\ pc[t] \notin DirPcs
  PROVE  TotalsExact'
<1>1. ASSUME NEW k \in Kinds
      PROVE  /\ FreeSlots(k)' \ {s} = FreeSlots(k) \ {s}
             /\ total'[k] - total[k] =
                  In(s, FreeSlots(k)') - In(s, FreeSlots(k))
                  + In(t, At(k, "account")') - In(t, At(k, "account"))
                  - In(t, At(k, "faccount")') + In(t, At(k, "faccount"))
  <2>1. /\ FreeSlots(k)' = FreeSlots(k)
        /\ t \notin At(k, "account") /\ t \notin At(k, "account")'
        /\ t \notin At(k, "faccount") /\ t \notin At(k, "faccount")'
    BY DEF FreeSlots, Clear, At
  <2>2. /\ In(s, FreeSlots(k)') = In(s, FreeSlots(k)) /\ In(s, FreeSlots(k)) \in Int
        /\ In(t, At(k, "account")) = 0 /\ In(t, At(k, "account")') = 0
        /\ In(t, At(k, "faccount")) = 0 /\ In(t, At(k, "faccount")') = 0
    BY <2>1 DEF In
  <2>3. total[k] \in Int /\ total'[k] = total[k]
    BY DEF TypeOK
  <2>4. QED BY <2>1, <2>2, <2>3
<1>2. ASSUME NEW g \in Groups
      PROVE  ndirs'[g] - ndirs[g] =
               In(s, DirSlots(g)') - In(s, DirSlots(g))
               + In(t, DirThreads(g)') - In(t, DirThreads(g))
  <2>1. c = <<"inode", g>> <=> c[2] = g
    BY GroupsFacts
  <2>2. /\ s \in DirSlots(g)' <=> s \in dirs' /\ c[2] = g
        /\ s \in DirSlots(g) <=> s \in dirs /\ c[2] = g
    BY <2>1 DEF DirSlots
  <2>3. /\ t \in DirThreads(g)' <=> s \in dirs /\ c[2] = g
        /\ t \in DirThreads(g) <=> s \in dirs' /\ c[2] = g
    BY DEF DirThreads
  <2>4. /\ In(s, DirSlots(g)') = In(t, DirThreads(g)) /\ In(t, DirThreads(g)) \in Int
        /\ In(s, DirSlots(g)) = In(t, DirThreads(g)') /\ In(t, DirThreads(g)') \in Int
    BY <2>2, <2>3 DEF In
  <2>5. ndirs[g] \in Int /\ ndirs'[g] = ndirs[g]
    BY DEF TypeOK
  <2>6. QED BY <2>4, <2>5
<1>3. dirs' \ {s} = dirs \ {s}
  OBVIOUS
<1>4. QED BY <1>1, <1>2, <1>3, TotalsStep

\* A step that takes no inode from a file and makes no directory keeps DirInv if the thread
\* still holds only inodes as directories.
LEMMA DirQuiet ==
  ASSUME DirInv, NEW t \in Threads, dirs' = dirs, owned \cup leaked \subseteq owned' \cup leaked',
         \A u \in Threads \ {t} : pc'[u] = pc[u] /\ loc'[u] = loc[u],
         loc'[t].isdir => loc'[t].cell[1] = "inode"
  PROVE  DirInv'
BY DEF DirInv, Cell

\* The locals of an idle thread, and of one with a slot in hand.
LEMMA HandFields ==
  ASSUME NEW s, NEW d
  PROVE  /\ ~NoLocals.isdir
         /\ Hold(s, d).cell = s[1] /\ Hold(s, d).bit = s[2] /\ Hold(s, d).isdir = d
BY DEF Hold, NoLocals

\* A search that goes on looks for the same kind of thing.
LEMMA SearchOnKeeps ==
  ASSUME TypeOK, NEW t \in Threads, SearchOn(t)
  PROVE  /\ \A u \in Threads \ {t} : pc'[u] = pc[u] /\ loc'[u] = loc[u]
         /\ pc'[t] \in MtxPcs
         /\ loc'[t].isdir = loc[t].isdir /\ loc'[t].cell[1] = loc[t].cell[1]
<1>1. loc[t] \in Locals /\ pc \in [Threads -> Pcs] /\ loc \in [Threads -> Locals]
  BY DEF TypeOK
<1>2. /\ NextProbe(loc[t]).isdir = loc[t].isdir
      /\ NextProbe(loc[t]).cell[1] = loc[t].cell[1]
  BY <1>1 DEF NextProbe, Locals
<1>3. CASE Exhausted(loc[t])
  BY <1>1, <1>3 DEF SearchOn, Goto, MtxPcs
<1>4. CASE ~Exhausted(loc[t])
  BY <1>1, <1>2, <1>4 DEF SearchOn, Goto, SetLoc, MtxPcs
<1>5. QED BY <1>3, <1>4

\* Every step keeps the totals exact and the directories among the inodes in use.
LEMMA TotalsInvariant ==
  ASSUME TypeOK, TypeOK', IInv, IInv', TotalsExact, DirInv, [Next]_vars
  PROVE  TotalsExact' /\ DirInv'
<1>0. /\ pc \in [Threads -> Pcs] /\ loc \in [Threads -> Locals]
      /\ \A t \in Threads : Cell(t) \in Cells /\ loc[t].bit \in BitNos
      /\ \A t \in Threads : Cell(t)[1] \in Kinds /\ Cell(t)[2] \in Groups
  <2>1. pc \in [Threads -> Pcs] /\ loc \in [Threads -> Locals]
    BY DEF TypeOK
  <2>2. \A t \in Threads : Cell(t) \in Cells /\ loc[t].bit \in BitNos
    BY <2>1 DEF Cell, Locals
  <2>3. QED BY <2>1, <2>2, GroupsFacts
<1>1. ASSUME NEW t \in Threads, Alloc(t) \/ Valloc(t) PROVE TotalsExact' /\ DirInv'
  <2>1. /\ UNCHANGED <<bits, total, ndirs, dirs, owned, leaked>> /\ pc[t] = "idle"
        /\ \A u \in Threads \ {t} : pc'[u] = pc[u] /\ loc'[u] = loc[u]
        /\ pc'[t] \in MtxPcs
    BY <1>0, <1>1 DEF Alloc, Valloc, Goto, SetLoc, counters, files, MtxPcs
  <2>2. loc'[t].isdir => loc'[t].cell[1] = "inode"
    <3>1. CASE Alloc(t)
      <4>1. PICK cg \in Groups : loc'[t] \in {NoLocals, StartSearch("block", cg, FALSE)}
        BY <1>0, <3>1 DEF Alloc, SetLoc
      <4>2. QED BY <4>1, HandFields DEF StartSearch
    <3>2. CASE Valloc(t)
      <4>1. PICK cg \in Groups, d \in BOOLEAN :
              loc'[t] \in {NoLocals, StartSearch("inode", cg, d)}
        BY <1>0, <3>2 DEF Valloc, SetLoc
      <4>2. QED BY <4>1, HandFields DEF StartSearch
    <3>3. QED BY <1>1, <3>1, <3>2
  <2>3. TotalsExact'
    BY <2>1, TotalsQuiet DEF MtxPcs, DirPcs
  <2>4. QED BY <2>1, <2>2, <2>3, DirQuiet
<1>2. ASSUME NEW t \in Threads, Free(t) PROVE TotalsExact' /\ DirInv'
  <2>1. PICK s \in owned : /\ owned' = owned \ {s} /\ dirs' = dirs \ {s}
                           /\ loc' = [loc EXCEPT ![t] = Hold(s, s \in dirs)]
    BY <1>2 DEF Free, SetLoc
  <2>2. /\ UNCHANGED <<bits, total, ndirs, leaked>> /\ pc[t] = "idle" /\ pc'[t] = "fbread"
        /\ \A u \in Threads \ {t} : pc'[u] = pc[u] /\ loc'[u] = loc[u]
        /\ loc'[t] = Hold(s, s \in dirs)
    BY <1>0, <1>2, <2>1 DEF Free, Goto, counters
  <2>3. Cell(t)' = s[1] /\ loc'[t].isdir = (s \in dirs)
    BY <2>2, HandFields DEF Cell
  <2>4. s \in Slots /\ s[1] \in Cells
    BY DEF TypeOK, Slots
  <2>5. TotalsExact'
    <3>1. CASE s \in dirs
      <4>1. s[1][1] = "inode"
        BY <3>1 DEF DirInv
      <4>2. /\ pc[t] \notin {"account", "faccount"} /\ pc'[t] \notin {"account", "faccount"}
            /\ pc[t] \notin DirPcs /\ pc'[t] \in DirPcs
        BY <2>2 DEF DirPcs
      <4>3. loc'[t].isdir
        BY <2>3, <3>1
      <4>4. QED BY <2>1, <2>2, <2>3, <2>4, <3>1, <4>1, <4>2, <4>3, TotalsHand
    <3>2. CASE s \notin dirs
      <4>1. ~loc'[t].isdir /\ dirs' = dirs
        BY <2>1, <2>3, <3>2
      <4>2. QED BY <2>2, <4>1, TotalsQuiet DEF DirPcs
    <3>3. QED BY <3>1, <3>2
  <2>6. DirInv'
    <3>1. dirs' \subseteq owned' \cup leaked'
      BY <2>1, <2>2 DEF DirInv
    <3>2. \A x \in dirs' : x[1][1] = "inode"
      BY <2>1 DEF DirInv
    <3>3. loc'[t].isdir => Cell(t)'[1] = "inode"
      BY <2>3 DEF DirInv
    <3>4. QED BY <2>2, <3>1, <3>2, <3>3 DEF DirInv, Cell
  <2>7. QED BY <2>5, <2>6
<1>3. ASSUME NEW t \in Threads, Nospace(t) \/ FreeDone(t) PROVE TotalsExact' /\ DirInv'
  <2>1. /\ UNCHANGED <<bits, total, ndirs, dirs, owned, leaked>>
        /\ pc[t] \in {"nospace", "fbdwrite"} /\ pc'[t] = "idle" /\ loc'[t] = NoLocals
        /\ \A u \in Threads \ {t} : pc'[u] = pc[u] /\ loc'[u] = loc[u]
    BY <1>0, <1>3 DEF Nospace, FreeDone, Return, Goto, SetLoc, counters, files
  <2>2. TotalsExact'
    BY <2>1, TotalsQuiet DEF DirPcs
  <2>3. QED BY <2>1, <2>2, HandFields, DirQuiet
<1>4. ASSUME NEW t \in Threads, Probe(t) \/ Relock(t) PROVE TotalsExact' /\ DirInv'
  <2>1. /\ UNCHANGED <<bits, total, ndirs, dirs, owned, leaked>>
        /\ pc[t] \in {"probe", "relock"}
        /\ \/ SearchOn(t)
           \/ Goto(t, "bread") /\ UNCHANGED loc
    BY <1>4 DEF Probe, Relock, counters, files
  <2>2. /\ \A u \in Threads \ {t} : pc'[u] = pc[u] /\ loc'[u] = loc[u]
        /\ pc'[t] \in MtxPcs \cup {"bread"}
        /\ loc'[t].isdir = loc[t].isdir /\ loc'[t].cell[1] = loc[t].cell[1]
    <3>1. CASE SearchOn(t)
      BY <3>1, SearchOnKeeps
    <3>2. CASE Goto(t, "bread") /\ UNCHANGED loc
      BY <1>0, <3>2 DEF Goto
    <3>3. QED BY <2>1, <3>1, <3>2
  <2>3. TotalsExact'
    BY <2>1, <2>2, TotalsQuiet DEF DirPcs, MtxPcs
  <2>4. loc'[t].isdir => loc'[t].cell[1] = "inode"
    BY <2>2 DEF DirInv, Cell
  <2>5. QED BY <2>1, <2>2, <2>3, <2>4, DirQuiet
<1>5. ASSUME NEW t \in Threads, Bread(t) \/ Recheck(t) PROVE TotalsExact' /\ DirInv'
  <2>1. /\ UNCHANGED <<bits, total, ndirs, dirs, owned, leaked, loc>>
        /\ pc[t] \in {"bread", "recheck"} /\ pc'[t] \in {"recheck", "relock", "search"}
        /\ \A u \in Threads \ {t} : pc'[u] = pc[u] /\ loc'[u] = loc[u]
    BY <1>0, <1>5 DEF Bread, Recheck, Goto, counters, files
  <2>2. TotalsExact'
    BY <2>1, TotalsQuiet DEF DirPcs
  <2>3. loc'[t].isdir => loc'[t].cell[1] = "inode"
    BY <2>1 DEF DirInv, Cell
  <2>4. QED BY <2>1, <2>2, <2>3, DirQuiet
<1>6. ASSUME NEW t \in Threads, Search(t) PROVE TotalsExact' /\ DirInv'
  <2>1. PICK b \in Clear(Cell(t)) :
          /\ bits' = [bits EXCEPT ![Cell(t)] = @ \cup {b}]
          /\ loc' = [loc EXCEPT ![t] = Hold(<<Cell(t), b>>, loc[t].isdir)]
          /\ pc' = [pc EXCEPT ![t] = "account"]
    <3>1. ~Goto(t, "panic")
      BY <1>0 DEF IInv, NoPanic, Goto
    <3>2. QED BY <1>6, <3>1 DEF Search, Goto, SetLoc
  <2>2. /\ UNCHANGED <<total, ndirs, dirs, owned, leaked>>
        /\ pc[t] = "search" /\ pc'[t] = "account"
        /\ \A u \in Threads \ {t} : pc'[u] = pc[u] /\ loc'[u] = loc[u]
        /\ loc'[t] = Hold(<<Cell(t), b>>, loc[t].isdir)
    BY <1>0, <1>6, <2>1 DEF Search, counters, files
  <2>3. loc'[t].cell = Cell(t) /\ loc'[t].isdir = loc[t].isdir
    BY <2>2, HandFields
  <2>4. TotalsExact'
    <3>1. b \in Bits(Cell(t)) /\ b \notin bits[Cell(t)] /\ Cell(t)' = Cell(t)
      BY <2>3 DEF Clear, Cell
    <3>2. QED BY <1>0, <2>1, <2>2, <3>1, TotalsBit
  <2>5. loc'[t].isdir => loc'[t].cell[1] = "inode"
    BY <2>3 DEF DirInv, Cell
  <2>6. QED BY <2>2, <2>4, <2>5, DirQuiet
<1>7. ASSUME NEW t \in Threads, FreeClear(t) PROVE TotalsExact' /\ DirInv'
  <2>1. /\ loc[t].bit \in bits[Cell(t)]
        /\ bits' = [bits EXCEPT ![Cell(t)] = @ \ {loc[t].bit}]
        /\ pc' = [pc EXCEPT ![t] = "faccount"]
    <3>1. ~Goto(t, "panic")
      BY <1>0 DEF IInv, NoPanic, Goto
    <3>2. QED BY <1>7, <3>1 DEF FreeClear, Goto
  <2>2. /\ UNCHANGED <<total, ndirs, dirs, owned, leaked, loc>>
        /\ pc[t] = "clear" /\ pc'[t] = "faccount"
        /\ \A u \in Threads \ {t} : pc'[u] = pc[u] /\ loc'[u] = loc[u]
    BY <1>0, <1>7, <2>1 DEF FreeClear, counters, files
  <2>3. TotalsExact'
    <3>1. loc[t].bit \in Bits(Cell(t)) /\ Cell(t)' = Cell(t)
      BY <1>0, <2>1, <2>2 DEF TypeOK, Cell
    <3>2. QED BY <1>0, <2>1, <2>2, <3>1, TotalsBit
  <2>4. loc'[t].isdir => loc'[t].cell[1] = "inode"
    BY <2>2 DEF DirInv, Cell
  <2>5. QED BY <2>2, <2>3, <2>4, DirQuiet
<1>8. ASSUME NEW t \in Threads, AccountAlloc(t) \/ AccountFree(t) PROVE TotalsExact' /\ DirInv'
  <2>1. TotalsExact'
    BY <1>8, TotalsAccount
  <2>2. /\ UNCHANGED <<dirs, owned, leaked, loc>>
        /\ \A u \in Threads \ {t} : pc'[u] = pc[u]
    BY <1>0, <1>8 DEF AccountAlloc, AccountFree, Goto, files
  <2>3. loc'[t].isdir => loc'[t].cell[1] = "inode"
    BY <2>2 DEF DirInv, Cell
  <2>4. QED BY <2>1, <2>2, <2>3, DirQuiet
<1>9. ASSUME NEW t \in Threads, AllocDone(t) PROVE TotalsExact' /\ DirInv'
  <2>1. /\ UNCHANGED <<bits, total, ndirs, dirs, leaked>> /\ owned \subseteq owned'
        /\ pc[t] = "bdwrite"
        /\ \A u \in Threads \ {t} : pc'[u] = pc[u] /\ loc'[u] = loc[u]
    BY <1>0, <1>9 DEF AllocDone, Return, Goto, SetLoc, counters
  <2>2. CASE Cell(t)[1] = "block" /\ Return(t)
    <3>1. ~loc[t].isdir
      BY <2>2 DEF DirInv
    <3>2. pc'[t] = "idle" /\ loc'[t] = NoLocals
      BY <1>0, <2>2 DEF Return, Goto, SetLoc
    <3>3. TotalsExact'
      BY <2>1, <3>1, <3>2, TotalsQuiet DEF DirPcs
    <3>4. QED BY <2>1, <3>2, <3>3, HandFields, DirQuiet
  <2>3. CASE Goto(t, "vget") /\ UNCHANGED <<owned, loc>>
    <3>1. pc'[t] = "vget" /\ loc'[t] = loc[t]
      BY <1>0, <2>3 DEF Goto
    <3>2. TotalsExact'
      BY <2>1, <3>1, TotalsQuiet DEF DirPcs
    <3>3. loc'[t].isdir => loc'[t].cell[1] = "inode"
      BY <3>1 DEF DirInv, Cell
    <3>4. QED BY <2>1, <3>2, <3>3, DirQuiet
  <2>4. QED BY <1>9, <2>2, <2>3 DEF AllocDone
<1>10. ASSUME NEW t \in Threads, VallocVget(t) \/ FreeBread(t) PROVE TotalsExact' /\ DirInv'
  <2>1. /\ UNCHANGED <<bits, total, ndirs>> /\ pc[t] \in {"vget", "fbread"}
        /\ \A u \in Threads \ {t} : pc'[u] = pc[u] /\ loc'[u] = loc[u]
        /\ \/ /\ owned' \cup leaked' = owned \cup leaked \cup {Slot(t)}
              /\ dirs' = IF loc[t].isdir THEN dirs \cup {Slot(t)} ELSE dirs
              /\ Return(t)
           \/ /\ UNCHANGED <<owned, leaked, dirs, loc>>
              /\ Goto(t, "fbread") \/ Goto(t, "clear")
    <3>1. CASE VallocVget(t)
      BY <1>0, <3>1 DEF VallocVget, Return, Goto, SetLoc, counters
    <3>2. CASE FreeBread(t)
      BY <1>0, <3>2 DEF FreeBread, Return, Goto, SetLoc, counters
    <3>3. QED BY <1>10, <3>1, <3>2
  <2>2. CASE /\ owned' \cup leaked' = owned \cup leaked \cup {Slot(t)}
             /\ dirs' = IF loc[t].isdir THEN dirs \cup {Slot(t)} ELSE dirs
             /\ Return(t)
    <3>1. pc'[t] = "idle" /\ loc'[t] = NoLocals
      BY <1>0, <2>2 DEF Return, Goto, SetLoc
    <3>2. CASE loc[t].isdir
      <4>1. Slot(t) \in Slots /\ Slot(t)[1] = Cell(t) /\ Cell(t)[1] = "inode"
        BY <1>0, <3>2 DEF Slot, Slots, Cell, DirInv
      <4>2. Slot(t) \notin dirs
        BY <2>1 DEF IInv, NoDoubleAlloc, Claims, ClaimPcs, DirInv
      <4>3. /\ pc[t] \notin {"account", "faccount"} /\ pc'[t] \notin {"account", "faccount"}
            /\ pc[t] \in DirPcs /\ pc'[t] \notin DirPcs
        BY <2>1, <3>1 DEF DirPcs
      <4>4. dirs' = dirs \cup {Slot(t)}
        BY <2>2, <3>2
      <4>5. TotalsExact'
        BY <1>0, <2>1, <3>2, <4>1, <4>2, <4>3, <4>4, TotalsHand
      <4>6. DirInv'
        <5>1. dirs' \subseteq owned' \cup leaked'
          BY <2>2, <4>4 DEF DirInv
        <5>2. \A x \in dirs' : x[1][1] = "inode"
          BY <4>1, <4>4 DEF DirInv
        <5>3. QED BY <2>1, <3>1, <5>1, <5>2, HandFields DEF DirInv, Cell
      <4>7. QED BY <4>5, <4>6
    <3>3. CASE ~loc[t].isdir
      <4>1. dirs' = dirs /\ owned \cup leaked \subseteq owned' \cup leaked'
        BY <2>2, <3>3
      <4>2. ~loc'[t].isdir
        BY <3>1, HandFields
      <4>3. TotalsExact'
        BY <2>1, <3>1, <3>3, <4>1, <4>2, TotalsQuiet
      <4>4. QED BY <2>1, <4>1, <4>2, <4>3, DirQuiet
    <3>4. QED BY <3>2, <3>3
  <2>3. CASE /\ UNCHANGED <<owned, leaked, dirs, loc>>
             /\ Goto(t, "fbread") \/ Goto(t, "clear")
    <3>1. pc'[t] \in {"fbread", "clear"} /\ loc'[t] = loc[t]
      BY <1>0, <2>3 DEF Goto
    <3>2. TotalsExact'
      BY <2>1, <2>3, <3>1, TotalsQuiet DEF DirPcs
    <3>3. loc'[t].isdir => loc'[t].cell[1] = "inode"
      BY <3>1 DEF DirInv, Cell
    <3>4. QED BY <2>1, <2>3, <3>2, <3>3, DirQuiet
  <2>4. QED BY <2>1, <2>2, <2>3
<1>11. CASE UNCHANGED vars
  BY <1>11 DEF vars, TotalsExact, DirInv, FreeSlots, Clear, Cell
<1>12. QED
  BY <1>1, <1>2, <1>3, <1>4, <1>5, <1>6, <1>7, <1>8, <1>9, <1>10, <1>11
  DEF Next, Begin, Continue, alloccg, nodealloccg, blkfree, vfree, AllocCg, FreeInGroup

\* The superblock's totals and the groups' directory counts are exact in every run: what they
\* say differs from the bitmaps and the files only by the threads on their way to the mutex.
THEOREM TotalsAreExact == Spec => []TotalsExact
<1>1. Init => TotalsExact /\ DirInv
  <2> SUFFICES ASSUME Init PROVE TotalsExact /\ DirInv
    OBVIOUS
  <2>1. DirInv
    BY DEF Init, DirInv, NoLocals
  <2>2. \A k, p : p # "idle" => At(k, p) = {}
    BY DEF Init, At
  <2>3. \A g : DirSlots(g) = {} /\ DirThreads(g) = {}
    BY DEF Init, DirSlots, DirThreads, DirPcs
  <2>4. \A k \in Kinds : total[k] = Cardinality(FreeSlots(k)) /\ Cardinality(FreeSlots(k)) \in Nat
    BY FreeSlotsFinite DEF Init
  <2>5. \A k \in Kinds : total[k] = Cardinality(FreeSlots(k)) + Cardinality(At(k, "account"))
                                    - Cardinality(At(k, "faccount"))
    <3> SUFFICES ASSUME NEW k \in Kinds
                 PROVE  total[k] = Cardinality(FreeSlots(k)) + Cardinality(At(k, "account"))
                                   - Cardinality(At(k, "faccount"))
      OBVIOUS
    <3>1. Cardinality(At(k, "account")) = 0 /\ Cardinality(At(k, "faccount")) = 0
      BY <2>2, FS_EmptySet
    <3>2. QED BY <2>4, <3>1
  <2>6. \A g \in Groups : ndirs[g] = Cardinality(DirSlots(g)) + Cardinality(DirThreads(g))
    <3>1. \A g \in Groups : ndirs[g] = 0
      BY DEF Init
    <3>2. \A g : Cardinality(DirSlots(g)) = 0 /\ Cardinality(DirThreads(g)) = 0
      BY <2>3, FS_EmptySet
    <3>3. QED BY <3>1, <3>2
  <2>7. QED BY <2>1, <2>5, <2>6 DEF TotalsExact, At, DirSlots, DirThreads, DirPcs
<1>2. TypeOK /\ TypeOK' /\ IInv /\ IInv' /\ TotalsExact /\ DirInv /\ [Next]_vars
        => TotalsExact' /\ DirInv'
  BY TotalsInvariant
<1>3. QED BY <1>1, <1>2, TypeCorrect, AllocatorInvariant, PTL DEF Spec

(***************************************************************************)
(* Refinement of SlotPool.                                                 *)
(***************************************************************************)

\* A slot in a thread's hands is one of the pool's, which calls it held.
LEMMA TakenInPool ==
  ASSUME TypeOK, IInv, NEW t \in Threads, Claims(t)
  PROVE  Slot(t) \in PoolSlots /\ PoolState[Slot(t)] = "held"
<1>1. PICK c \in Cells, b \in BitNos : Slot(t) = <<c, b>> /\ c = Cell(t) /\ b = loc[t].bit
  BY DEF TypeOK, Slot, Cell, Locals
<1>2. b \in bits[c]
  <2>1. Taken(c, b)
    BY <1>1 DEF Taken
  <2>2. QED BY <2>1, BitByBit DEF IInv
<1>3. b \notin Reserved[c] /\ <<c, b>> \notin owned
  BY <1>1 DEF IInv, NoDoubleAlloc
<1>4. <<c, b>> \in PoolSlots
  BY <1>2, <1>3 DEF PoolSlots, Slots, TypeOK
<1>5. QED BY <1>1, <1>2, <1>3, <1>4 DEF PoolState

\* A step that moves one slot of the pool is a step of the pool.
LEMMA PoolMove ==
  ASSUME NEW s \in PoolSlots, NEW to,
         PoolState' = [PoolState EXCEPT ![s] = to],
         <<PoolState[s], to>> \in {<<"free", "held">>, <<"held", "lent">>,
                                   <<"lent", "held">>, <<"held", "free">>}
  PROVE  Pool!Next
BY DEF Pool!Next, Pool!Take, Pool!Lend, Pool!GiveUp, Pool!Release, Pool!Move

\* A step that moves no slot is a stuttering step of the pool.
LEMMA PoolStutter ==
  ASSUME UNCHANGED <<bits, owned>>
  PROVE  PoolState' = PoolState
BY DEF PoolState

\* A slot in a thread's hands goes to a file.
LEMMA PoolLend ==
  ASSUME TypeOK, IInv, NEW t \in Threads, Claims(t),
         owned' = owned \cup {Slot(t)}, bits' = bits
  PROVE  Pool!Next
<1>1. PICK s \in PoolSlots : s = Slot(t) /\ PoolState[s] = "held"
  BY TakenInPool
<1>2. PoolState' = [PoolState EXCEPT ![s] = "lent"]
  BY <1>1 DEF PoolState
<1>3. QED BY <1>1, <1>2, PoolMove

\* The allocator implements SlotPool, for every geometry and number of threads.
THEOREM PoolRefinement == Spec => ImplementsPool
<1>1. Init => Pool!Init
  <2> SUFFICES ASSUME Init PROVE Pool!Init
    OBVIOUS
  <2>1. \A s \in PoolSlots : s \notin owned /\ s[2] \notin bits[s[1]]
    BY DEF Init, PoolSlots
  <2>2. QED BY <2>1 DEF Pool!Init, PoolState
<1>2. TypeOK /\ IInv /\ [Next]_vars => [Pool!Next]_PoolState
  <2> SUFFICES ASSUME TypeOK, IInv, [Next]_vars
               PROVE  Pool!Next \/ PoolState' = PoolState
    OBVIOUS
  <2>1. ASSUME NEW t \in Threads, Search(t)
        PROVE  Pool!Next \/ PoolState' = PoolState
    <3>c. PICK c \in Cells : c = Cell(t)
      BY DEF TypeOK, Cell, Locals
    <3>1. owned' = owned
      BY <2>1 DEF Search, files
    <3>2. CASE bits' = bits
      BY <3>1, <3>2, PoolStutter
    <3>3. ASSUME NEW b \in Clear(c), bits' = [bits EXCEPT ![c] = @ \cup {b}]
          PROVE  Pool!Next
      <4>1. b \in BitNos /\ b \in Bits(c) /\ b \notin bits[c]
        BY BitsFacts DEF Clear
      <4>2. ~Taken(c, b)
        BY <4>1, BitByBit DEF IInv
      <4>3. <<c, b>> \in PoolSlots /\ PoolState[<<c, b>>] = "free"
        BY <4>1, <4>2 DEF PoolSlots, PoolState, Slots, Taken
      <4>4. \A s \in PoolSlots : s[1] \in Cells /\ s = <<s[1], s[2]>>
        BY DEF PoolSlots, Slots
      <4>5. PoolState' = [PoolState EXCEPT ![<<c, b>>] = "held"]
        <5>1. \A s \in PoolSlots :
                s[2] \in bits'[s[1]] <=> s[2] \in bits[s[1]] \/ s = <<c, b>>
          BY <3>3, <4>4 DEF TypeOK
        <5>2. <<c, b>> \notin owned
          BY <4>2 DEF Taken
        <5>3. QED BY <3>1, <4>3, <5>1, <5>2 DEF PoolState
      <4>6. QED BY <4>3, <4>5, PoolMove
    <3>4. QED BY <2>1, <3>c, <3>2, <3>3 DEF Search
  <2>2. ASSUME NEW t \in Threads, AllocDone(t)
        PROVE  Pool!Next \/ PoolState' = PoolState
    <3>1. Claims(t) /\ bits' = bits
      BY <2>2 DEF AllocDone, Claims, ClaimPcs
    <3>2. CASE owned' = owned \cup {Slot(t)}
      BY <3>1, <3>2, PoolLend
    <3>3. CASE owned' = owned
      BY <3>1, <3>3, PoolStutter
    <3>4. QED BY <2>2, <3>2, <3>3 DEF AllocDone
  <2>3. ASSUME NEW t \in Threads, VallocVget(t)
        PROVE  Pool!Next \/ PoolState' = PoolState
    <3>1. Claims(t) /\ bits' = bits
      BY <2>3 DEF VallocVget, Claims, ClaimPcs
    <3>2. CASE owned' = owned \cup {Slot(t)}
      BY <3>1, <3>2, PoolLend
    <3>3. CASE owned' = owned
      BY <3>1, <3>3, PoolStutter
    <3>4. QED BY <2>3, <3>2, <3>3 DEF VallocVget
  <2>4. ASSUME NEW t \in Threads, Free(t)
        PROVE  Pool!Next
    <3>1. PICK s \in owned : owned' = owned \ {s} /\ bits' = bits
      BY <2>4 DEF Free
    <3>2. s \in Slots /\ s = <<s[1], s[2]>> /\ s[1] \in Cells /\ s[2] \in BitNos
      BY DEF TypeOK, Slots
    <3>3. s[2] \in bits[s[1]]
      <4>1. Taken(s[1], s[2])
        BY <3>2 DEF Taken
      <4>2. QED BY <3>2, <4>1, BitByBit DEF IInv
    <3>4. s \in PoolSlots /\ PoolState[s] = "lent"
      BY <3>2, <3>3 DEF PoolSlots, PoolState, IInv, NoDoubleAlloc, TypeOK
    <3>5. PoolState' = [PoolState EXCEPT ![s] = "held"]
      BY <3>1, <3>3, <3>4 DEF PoolState
    <3>6. QED BY <3>4, <3>5, PoolMove
  <2>5. ASSUME NEW t \in Threads, FreeClear(t)
        PROVE  Pool!Next \/ PoolState' = PoolState
    <3>1. owned' = owned /\ Claims(t)
      BY <2>5 DEF FreeClear, files, Claims, ClaimPcs
    <3>2. CASE bits' = bits
      BY <3>1, <3>2, PoolStutter
    <3>3. CASE bits' = [bits EXCEPT ![Cell(t)] = @ \ {loc[t].bit}]
      <4>1. PICK s \in PoolSlots : s = Slot(t) /\ PoolState[s] = "held"
        BY <3>1, TakenInPool
      <4>2. s[1] = Cell(t) /\ s[2] = loc[t].bit /\ s \notin owned
        BY <3>1, <4>1 DEF Slot, Cell, IInv, NoDoubleAlloc
      <4>3. \A x \in PoolSlots : x[1] \in Cells /\ x = <<x[1], x[2]>>
        BY DEF PoolSlots, Slots
      <4>4. \A x \in PoolSlots : x[2] \in bits'[x[1]] <=> x[2] \in bits[x[1]] /\ x # s
        BY <3>3, <4>2, <4>3 DEF TypeOK
      <4>5. PoolState' = [PoolState EXCEPT ![s] = "free"]
        BY <3>1, <4>2, <4>4 DEF PoolState
      <4>6. QED BY <4>1, <4>5, PoolMove
    <3>4. QED BY <2>5, <3>2, <3>3 DEF FreeClear
  <2>6. ASSUME NEW t \in Threads,
               \/ Alloc(t) \/ Valloc(t) \/ Nospace(t) \/ Probe(t) \/ Bread(t)
               \/ Recheck(t) \/ Relock(t) \/ AccountAlloc(t) \/ FreeBread(t)
               \/ AccountFree(t) \/ FreeDone(t)
        PROVE  PoolState' = PoolState
    <3>1. UNCHANGED <<bits, owned>>
      BY <2>6
      DEF Alloc, Valloc, Nospace, Probe, Bread, Recheck, Relock, AccountAlloc,
          FreeBread, AccountFree, FreeDone, files
    <3>2. QED BY <3>1, PoolStutter
  <2>7. CASE UNCHANGED vars
    BY <2>7, PoolStutter DEF vars
  <2>8. QED
    BY <2>1, <2>2, <2>3, <2>4, <2>5, <2>6, <2>7
    DEF Next, Begin, Continue, alloccg, nodealloccg, blkfree, vfree,
        AllocCg, FreeInGroup
<1>3. QED
  BY <1>1, <1>2, TypeCorrect, AllocatorInvariant, PTL
  DEF Spec, ImplementsPool, Pool!Spec
=============================================================================
