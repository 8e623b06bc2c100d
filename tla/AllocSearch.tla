----------------------------- MODULE AllocSearch -----------------------------
(***************************************************************************)
(* How one bit of a group's bitmap is chosen, with the buffer of the       *)
(* bitmap held: the scan for a run of eight free blocks in ext2_alloccg(), *)
(* the byte search of ext2_mapsearch() and that of ext2_nodealloccg()      *)
(* (kext/ext2_alloc.c).  Module Ext2Alloc calls all this "any clear bit".  *)
(*                                                                         *)
(* A step is one turn of a loop.  A byte of the bitmap is the set of the   *)
(* numbers of its one bits.                                                *)
(***************************************************************************)
EXTENDS Integers

CONSTANTS
  NBytes,       \* howmany(e2fs_fpg, NBBY), the bytes of a bitmap
  Ipg,          \* e2fs_ipg; the bits of an inode bitmap past it are set
  FirstDblock,  \* e2fs_first_dblock
  Cg,           \* the group searched
  Bytes,        \* the bytes a bitmap is made of
  Goals         \* the block or inode numbers the caller would like, 0 for none

NBBY == 8
Fpg  == NBytes * NBBY
Byte == SUBSET (0..(NBBY - 1))

ASSUME SearchAssumption ==
  /\ NBytes \in Nat \ {0}
  /\ Ipg \in 1..Fpg /\ Ipg % NBBY = 0     \* newfs sees to it
  /\ FirstDblock \in Nat
  /\ Cg \in Nat
  /\ Bytes \subseteq Byte
  /\ Goals \subseteq Nat

VARIABLES
  kind,      \* "block" or "inode": which of the two bitmaps is searched
  map,       \* the bitmap, bbp or ibp
  goal,      \* the argument bpref or ipref
  bpref,     \* the same, relative to the group
  start, end,
  loc,       \* the byte looked at
  runlen, runstart,
  n,         \* the bytes memcchr() has left
  bno,       \* the bit chosen
  pc

input == <<kind, map, goal>>
vars  == <<kind, map, goal, bpref, start, end, loc, runlen, runstart, n, bno, pc>>

Size == IF kind = "block" THEN Fpg ELSE Ipg

Full == 0..(NBBY - 1)

isclr(b) == (b % NBBY) \notin map[b \div NBBY]

Init ==
  /\ kind \in {"block", "inode"}
  /\ map \in [0..(NBytes - 1) -> Bytes]
  /\ kind = "inode" => \A b \in Ipg..(Fpg - 1) : ~isclr(b)
  /\ goal \in Goals
  /\ bpref = 0 /\ start = 0 /\ end = 0 /\ loc = 0 /\ runlen = 0 /\ runstart = 0
  /\ n = 0 /\ bno = 0
  /\ pc = "pref"

\* Mutation: the byte is sign-extended, so its top bit is bit 31.
FlsSigned(b) == IF 7 \in b THEN 32
                ELSE CHOOSE i \in 0..7 : /\ i = 0 \/ i - 1 \in b
                                         /\ \A j \in i..7 : j \notin b

\* Mutation: the bit is numbered from 0.
FlsFromZero(b) == IF b = {} THEN 0
                  ELSE CHOOSE i \in b : \A j \in b : j <= i

\* The number, from 1, of the highest one bit, or 0.
ext2_fls(b) == CHOOSE i \in 0..8 : /\ i = 0 \/ i - 1 \in b
                                   /\ \A j \in i..7 : j \notin b

\* ffs(b) - 1, the lowest one bit, for b not 0.
LowBit(b) == CHOOSE i \in 0..7 : i \in b /\ \A j \in 0..(i - 1) : j \notin b

dtogd(d) == (d - FirstDblock) % Fpg

Gotit(b) == pc' = "gotit" /\ bno' = b

(***************************************************************************)
(* ext2_alloccg: the preferred block, then a run of eight.                 *)
(***************************************************************************)

InGroup == goal # 0 /\ (goal - FirstDblock) \div Fpg = Cg

\* Where the scan starts; the offset in the group is passed to dtogd() again.
StartByte(b) == IF b # 0 THEN dtogd(b) \div NBBY ELSE 0

Alloccg ==
  LET b == IF InGroup THEN dtogd(goal) ELSE 0 IN
  /\ pc = "pref" /\ kind = "block"
  /\ bpref' = b
  /\ \/ /\ InGroup /\ isclr(b)
        /\ Gotit(b)
        /\ UNCHANGED <<start, end, loc>>
     \/ /\ ~(InGroup /\ isclr(b))
        /\ start' = StartByte(b)
        /\ end' = NBytes - start'
        /\ loc' = start'
        /\ pc' = "scan"
        /\ UNCHANGED bno
  /\ UNCHANGED <<input, runlen, runstart, n>>

\* A run of len free blocks from bit s on: long enough, or on to the next byte.
Run(s, len) ==
  /\ runstart' = s
  /\ runlen' = len
  /\ \/ len >= 8 /\ Gotit(s) /\ UNCHANGED loc
     \/ len < 8 /\ loc' = loc + 1 /\ UNCHANGED <<pc, bno>>

\* The run that begins with the high clear bits of this byte.
NewRun == Run(loc * NBBY + ext2_fls(map[loc]), NBBY - ext2_fls(map[loc]))

\* Mutation: a run that a byte ends is not measured against the byte's low bits
\* but continued over it.
ScanByteThrough ==
  /\ pc = "scan" /\ loc < end
  /\ \/ /\ map[loc] = Full
        /\ runlen' = 0
        /\ loc' = loc + 1
        /\ UNCHANGED <<runstart, pc, bno>>
     \/ map[loc] # Full /\ runlen = 0 /\ NewRun
     \/ map[loc] # Full /\ runlen # 0 /\ Run(runstart, runlen + NBBY)
  /\ UNCHANGED <<input, bpref, start, end, n>>

ScanByte ==
  /\ pc = "scan" /\ loc < end
  /\ \/ /\ map[loc] = Full
        /\ runlen' = 0
        /\ loc' = loc + 1
        /\ UNCHANGED <<runstart, pc, bno>>
     \/ map[loc] # Full /\ runlen = 0 /\ NewRun
     \/ map[loc] = {} /\ runlen # 0 /\ Run(runstart, runlen + NBBY)
     \/ /\ map[loc] \notin {Full, {}} /\ runlen # 0
        /\ LET len == runlen + LowBit(map[loc])
           IN IF len >= 8 THEN Run(runstart, len) ELSE NewRun
  /\ UNCHANGED <<input, bpref, start, end, n>>

\* goto retry: once more, over the bytes before the first one.
ScanRetry ==
  /\ pc = "scan" /\ loc >= end /\ start # 0
  /\ end' = start
  /\ start' = 0 /\ loc' = 0 /\ runlen' = 0 /\ runstart' = 0
  /\ UNCHANGED <<input, bpref, n, bno, pc>>

(***************************************************************************)
(* The byte search: memcchr(&map[start], 0xff, n), once from the preferred *)
(* byte to the end and once from the first byte to the preferred one.      *)
(***************************************************************************)

Mapsearch ==
  /\ pc = "scan" /\ loc >= end /\ start = 0
  /\ start' = StartByte(bpref)
  /\ n' = NBytes - start'
  /\ loc' = start'
  /\ pc' = "memcchr"
  /\ UNCHANGED <<input, bpref, end, runlen, runstart, bno>>

\* ext2_nodealloccg: the preferred inode, else the byte search.
Nodealloccg ==
  LET i == IF goal \in {0, 1} THEN 0 ELSE (goal - 1) % Ipg IN
  /\ pc = "pref" /\ kind = "inode"
  /\ bpref' = i
  /\ \/ /\ goal > 1 /\ isclr(i)
        /\ Gotit(i)
        /\ UNCHANGED <<start, loc, n>>
     \/ /\ ~(goal > 1 /\ isclr(i))
        /\ start' = i \div NBBY
        /\ n' = (Ipg - i + NBBY - 1) \div NBBY
        /\ loc' = start'
        /\ pc' = "memcchr"
        /\ UNCHANGED bno
  /\ UNCHANGED <<input, end, runlen, runstart>>

Memcchr ==
  /\ pc \in {"memcchr", "memcchr2"} /\ n # 0
  /\ \/ /\ map[loc] = Full
        /\ loc' = loc + 1 /\ n' = n - 1
        /\ UNCHANGED <<bno, pc>>
     \/ /\ map[loc] # Full
        /\ Gotit(loc * NBBY + LowBit(Full \ map[loc]))
        /\ UNCHANGED <<loc, n>>
  /\ UNCHANGED <<input, bpref, start, end, runlen, runstart>>

\* Mutation: the second search stops short of the preferred byte's predecessor.
MemcchrAgainShort ==
  /\ n = 0
  /\ \/ /\ pc = "memcchr"
        /\ n' = IF start = 0 THEN 1 ELSE start - 1
        /\ start' = 0 /\ loc' = 0
        /\ pc' = "memcchr2"
     \/ /\ pc = "memcchr2"
        /\ pc' = "panic"
        /\ UNCHANGED <<start, loc, n>>
  /\ UNCHANGED <<input, bpref, end, runlen, runstart, bno>>

\* NULL: search the other part, or panic ("map corrupted").
MemcchrAgain ==
  /\ n = 0
  /\ \/ /\ pc = "memcchr"
        /\ n' = start + 1
        /\ start' = 0 /\ loc' = 0
        /\ pc' = "memcchr2"
     \/ /\ pc = "memcchr2"
        /\ pc' = "panic"
        /\ UNCHANGED <<start, loc, n>>
  /\ UNCHANGED <<input, bpref, end, runlen, runstart, bno>>

Next == \/ Alloccg \/ ScanByte \/ ScanRetry \/ Mapsearch
        \/ Nodealloccg \/ Memcchr \/ MemcchrAgain

\* The thread that searches runs on: it waits for nothing.
Spec == Init /\ [][Next]_vars /\ WF_vars(Next)

(***************************************************************************)
(* Properties.                                                             *)
(***************************************************************************)

\* The types of the locals of ext2_alloccg() and ext2_mapsearch(): no byte of the
\* bitmap is read beyond its end, and no shift is by more than a byte.
TypeOK ==
  /\ kind \in {"block", "inode"}
  /\ map \in [0..(NBytes - 1) -> Byte]
  /\ goal \in Nat
  /\ bpref \in 0..(Fpg - 1)
  /\ start \in 0..(NBytes - 1)
  /\ end \in 0..NBytes
  /\ loc \in 0..NBytes
  /\ runlen \in 0..(2 * NBBY)
  /\ runstart \in 0..Fpg
  /\ n \in 0..NBytes
  /\ bno \in 0..(Fpg - 1)
  /\ pc \in {"pref", "scan", "memcchr", "memcchr2", "gotit", "panic"}

\* The bit that setbit() is about to set is a clear bit of the bitmap, inside
\* the group, however it was found: no block or inode in use is handed out.
ResultClear == pc = "gotit" => bno < Size /\ isclr(bno)

\* A run of eight is one: the block the scan picks and the seven after it are
\* free, wherever in their bytes the run begins and ends.
RunClear == pc = "gotit" /\ runlen >= 8 => \A i \in bno..(bno + 7) : isclr(i)

\* The searches miss no byte: "map corrupted" means that the bitmap is full,
\* wherever the search started.
PanicOnlyIfFull == pc = "panic" => \A b \in 0..(Size - 1) : ~isclr(b)
=============================================================================
