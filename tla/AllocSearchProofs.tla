-------------------------- MODULE AllocSearchProofs --------------------------
(***************************************************************************)
(* The searches of ext2_alloccg, ext2_mapsearch and ext2_nodealloccg hand  *)
(* out clear bits only and give up on full bitmaps only: for every bitmap, *)
(* of any length, every goal and every group.                              *)
(***************************************************************************)
EXTENDS AllocSearch, TLAPS

\* The byte the byte search begins with.
First == IF kind = "block" THEN StartByte(bpref) ELSE bpref \div NBBY

\* The bytes it looks at.
NB == IF kind = "block" THEN NBytes ELSE Ipg \div NBBY

FullBytes(i, j) == \A k \in i..(j - 1) : map[k] = Full

\* The run under way ends where the scan stands, and all of it is free.
ScanInv ==
  /\ pc = "pref" => runlen = 0
  /\ pc # "gotit" => runlen < 8
  /\ pc = "scan" =>
       /\ kind = "block"
       /\ runlen # 0 => /\ runstart + runlen = loc * NBBY
                        /\ \A i \in runstart..(loc * NBBY - 1) : isclr(i)

\* The bytes the byte search has passed over are full.
ByteInv ==
  /\ pc = "memcchr" => /\ start = First /\ First < NB
                       /\ start <= loc /\ loc + n = NB
                       /\ FullBytes(First, loc)
  /\ pc = "memcchr2" => /\ loc + n = First + 1 /\ First < NB
                        /\ FullBytes(First, NB)
                        /\ FullBytes(0, loc)

\* newfs sets the bits of an inode bitmap that stand for no inode.
Padding == kind = "inode" => \A b \in Ipg..(Fpg - 1) : ~isclr(b)

\* The inductive invariant.
IInv == /\ ScanInv /\ ByteInv /\ Padding
        /\ ResultClear /\ RunClear /\ PanicOnlyIfFull

(***************************************************************************)
(* The helpers.                                                            *)
(***************************************************************************)

\* A remainder is smaller than the divisor.
LEMMA ModRange ==
  ASSUME NEW a \in Int, NEW b \in Nat \ {0}
  PROVE  a % b \in 0..(b - 1)
OBVIOUS

\* The shape of the constants.
LEMMA Sizes ==
  /\ NBytes \in Nat /\ NBytes > 0
  /\ Fpg \in Nat /\ Fpg > 0 /\ Fpg = 8 * NBytes
  /\ Ipg \in Nat /\ Ipg > 0 /\ Ipg <= Fpg /\ Ipg % 8 = 0
  /\ FirstDblock \in Nat /\ Cg \in Nat
BY SearchAssumption DEF Fpg, NBBY

\* ext2_fls() returns a bit number from which on the byte is clear.
LEMMA FlsFacts ==
  ASSUME NEW b \in Byte
  PROVE  /\ ext2_fls(b) \in 0..8
         /\ \A j \in 0..7 : j >= ext2_fls(b) => j \notin b
<1>1. \E i \in 0..8 : (i = 0 \/ i - 1 \in b) /\ \A j \in i..7 : j \notin b
  <2>1. CASE 7 \in b
    BY <2>1
  <2>2. CASE 7 \notin b /\ 6 \in b
    BY <2>2
  <2>3. CASE 7 \notin b /\ 6 \notin b /\ 5 \in b
    BY <2>3
  <2>4. CASE 7 \notin b /\ 6 \notin b /\ 5 \notin b /\ 4 \in b
    BY <2>4
  <2>5. CASE 7 \notin b /\ 6 \notin b /\ 5 \notin b /\ 4 \notin b /\ 3 \in b
    BY <2>5
  <2>6. CASE 7 \notin b /\ 6 \notin b /\ 5 \notin b /\ 4 \notin b /\ 3 \notin b /\ 2 \in b
    BY <2>6
  <2>7. CASE /\ 7 \notin b /\ 6 \notin b /\ 5 \notin b /\ 4 \notin b /\ 3 \notin b
             /\ 2 \notin b /\ 1 \in b
    BY <2>7
  <2>8. CASE /\ 7 \notin b /\ 6 \notin b /\ 5 \notin b /\ 4 \notin b /\ 3 \notin b
             /\ 2 \notin b /\ 1 \notin b
    BY <2>8
  <2>9. QED BY <2>1, <2>2, <2>3, <2>4, <2>5, <2>6, <2>7, <2>8
<1>2. ext2_fls(b) \in 0..8 /\ \A j \in ext2_fls(b)..7 : j \notin b
  BY <1>1, Zenon DEF ext2_fls
<1>3. QED BY <1>2

\* ffs() - 1 of a byte that is not 0 is its lowest one bit.
LEMMA LowBitFacts ==
  ASSUME NEW b \in Byte, b # {}
  PROVE  /\ LowBit(b) \in 0..7 /\ LowBit(b) \in b
         /\ \A j \in 0..7 : j < LowBit(b) => j \notin b
<1>1. \E i \in 0..7 : i \in b /\ \A j \in 0..(i - 1) : j \notin b
  <2>0. \E i \in 0..7 : i \in b
    <3>1. \A i \in b : i \in 0..(8 - 1)
      BY Zenon DEF Byte, NBBY
    <3>2. \E i : i \in b
      BY Zenon
    <3>3. QED BY <3>1, <3>2
  <2>1. CASE 0 \in b
    BY <2>1
  <2>2. CASE 0 \notin b /\ 1 \in b
    BY <2>2
  <2>3. CASE 0 \notin b /\ 1 \notin b /\ 2 \in b
    BY <2>3
  <2>4. CASE 0 \notin b /\ 1 \notin b /\ 2 \notin b /\ 3 \in b
    BY <2>4
  <2>5. CASE 0 \notin b /\ 1 \notin b /\ 2 \notin b /\ 3 \notin b /\ 4 \in b
    BY <2>5
  <2>6. CASE 0 \notin b /\ 1 \notin b /\ 2 \notin b /\ 3 \notin b /\ 4 \notin b /\ 5 \in b
    BY <2>6
  <2>7. CASE /\ 0 \notin b /\ 1 \notin b /\ 2 \notin b /\ 3 \notin b /\ 4 \notin b
             /\ 5 \notin b /\ 6 \in b
    BY <2>7
  <2>8. CASE /\ 0 \notin b /\ 1 \notin b /\ 2 \notin b /\ 3 \notin b /\ 4 \notin b
             /\ 5 \notin b /\ 6 \notin b
    BY <2>0, <2>8
  <2>9. QED BY <2>1, <2>2, <2>3, <2>4, <2>5, <2>6, <2>7, <2>8
<1>2. /\ LowBit(b) \in 0..7 /\ LowBit(b) \in b
      /\ \A j \in 0..(LowBit(b) - 1) : j \notin b
  BY <1>1, Zenon DEF LowBit
<1>3. QED BY <1>2

\* An offset in the group, and the byte it lies in.
LEMMA StartFacts ==
  /\ \A d \in Int : dtogd(d) \in 0..(Fpg - 1)
  /\ \A b \in Int : StartByte(b) \in 0..(NBytes - 1)
<1>1. \A d \in Int : dtogd(d) \in 0..(Fpg - 1)
  BY Sizes, ModRange DEF dtogd
<1>2. QED BY <1>1, Sizes DEF StartByte, NBBY

(***************************************************************************)
(* Types.                                                                  *)
(***************************************************************************)

\* What a byte of the bitmap is.
LEMMA ByteFacts ==
  ASSUME TypeOK, loc < NBytes
  PROVE  /\ map[loc] \in Byte /\ Full \ map[loc] \in Byte
         /\ map[loc] # Full => Full \ map[loc] # {}
<1>1. map[loc] \in Byte
  BY Sizes DEF TypeOK
<1>2. QED BY <1>1 DEF Byte, Full

\* The byte search begins inside the bitmap and ends with it.
LEMMA ByteRange ==
  ASSUME TypeOK
  PROVE  NB \in Nat /\ NB <= NBytes /\ First \in Nat /\ First < NBytes
<1>1. bpref \in 0..(Fpg - 1)
  BY DEF TypeOK
<1>2. NB \in Nat /\ NB <= NBytes
  BY Sizes DEF NB, NBBY
<1>3. StartByte(bpref) \in 0..(NBytes - 1)
  BY <1>1, StartFacts, Sizes
<1>4. bpref \div 8 \in 0..(NBytes - 1)
  BY <1>1, Sizes
<1>5. QED BY <1>2, <1>3, <1>4, Sizes DEF First, NBBY

\* Every variable keeps its type; so the scan never leaves the bitmap, and the
\* block number it returns lies in the group.
LEMMA TypeStep == TypeOK /\ ScanInv /\ ByteInv /\ [Next]_vars => TypeOK'
<1> SUFFICES ASSUME TypeOK, ScanInv, ByteInv, [Next]_vars PROVE TypeOK'
  OBVIOUS
<1>0. /\ bpref \in Nat /\ loc \in Nat /\ start \in Nat /\ n \in Nat /\ goal \in Nat
      /\ runlen \in Nat /\ runstart \in Nat /\ NBytes \in Nat
  BY Sizes DEF TypeOK
<1>1. CASE Alloccg
  <2>1. bpref' \in 0..(Fpg - 1) /\ (start' = start \/ start' \in 0..(NBytes - 1))
    BY <1>0, <1>1, StartFacts, Sizes DEF Alloccg
  <2>2. /\ end' = end \/ end' = NBytes - start'
        /\ loc' = loc \/ loc' = start'
        /\ bno' = bno \/ bno' = bpref'
        /\ pc' \in {"gotit", "scan"}
    BY <1>1 DEF Alloccg, Gotit
  <2>3. QED BY <1>1, <2>1, <2>2, Sizes, SMTT(30) DEF Alloccg, TypeOK, input
<1>2. CASE ScanByte
  <2>1. loc < end /\ loc < NBytes /\ pc = "scan"
    BY <1>2, Sizes DEF ScanByte, TypeOK
  <2>2. ext2_fls(map[loc]) \in 0..8
    BY <2>1, ByteFacts, FlsFacts
  <2>3. CASE map[loc] = Full /\ runlen' = 0 /\ loc' = loc + 1 /\ UNCHANGED <<runstart, pc, bno>>
    BY <1>2, <2>1, <2>3, Sizes DEF ScanByte, TypeOK, input, NBBY
  <2>4. ASSUME NEW s \in 0..Fpg, NEW len \in 0..(2 * NBBY), Run(s, len),
               len >= 8 => s < Fpg
        PROVE  TypeOK'
    BY <1>2, <2>1, <2>4, Sizes DEF ScanByte, Run, Gotit, TypeOK, input, NBBY
  <2>5. CASE NewRun
    <3>1. /\ loc * NBBY + ext2_fls(map[loc]) \in 0..Fpg
          /\ NBBY - ext2_fls(map[loc]) \in 0..(2 * NBBY)
          /\ NBBY - ext2_fls(map[loc]) >= 8 => loc * NBBY + ext2_fls(map[loc]) < Fpg
      BY <1>0, <2>1, <2>2, Sizes DEF NBBY
    <3>2. QED BY <2>5, <3>1, <2>4 DEF NewRun
  <2>6. ASSUME NEW len \in Nat, Run(runstart, len), runlen # 0, len <= runlen + 8
        PROVE  TypeOK'
    <3>1. runstart < Fpg /\ runstart \in 0..Fpg /\ len \in 0..(2 * NBBY)
      BY <1>0, <2>1, <2>6, Sizes DEF ScanInv, NBBY, TypeOK
    <3>2. QED BY <2>4, <2>6, <3>1
  <2>7. CASE map[loc] = {} /\ runlen # 0 /\ Run(runstart, runlen + NBBY)
    BY <2>6, <2>7, <1>0 DEF NBBY
  <2>8. CASE /\ map[loc] \notin {Full, {}} /\ runlen # 0
             /\ Run(runstart, runlen + LowBit(map[loc]))
    BY <2>1, <2>6, <2>8, <1>0, ByteFacts, LowBitFacts
  <2>9. QED BY <1>2, <2>3, <2>5, <2>7, <2>8 DEF ScanByte
<1>3. CASE ScanRetry
  BY <1>3, Sizes DEF ScanRetry, TypeOK, input, NBBY
<1>4. CASE Mapsearch
  <2>1. start' \in 0..(NBytes - 1)
    BY <1>0, <1>4, StartFacts DEF Mapsearch
  <2>2. QED BY <1>4, <2>1, Sizes DEF Mapsearch, TypeOK, input
<1>5. CASE Nodealloccg
  <2>1. bpref' \in 0..(Ipg - 1)
    BY <1>0, <1>5, Sizes, ModRange DEF Nodealloccg
  <2>2. /\ start' = start \/ start' = bpref' \div 8
        /\ loc' = loc \/ loc' = start'
        /\ n' = n \/ n' = (Ipg - bpref' + 8 - 1) \div 8
        /\ bno' = bno \/ bno' = bpref'
        /\ pc' \in {"gotit", "memcchr"}
    BY <1>5 DEF Nodealloccg, Gotit, NBBY
  <2>3. start' \in 0..(NBytes - 1) /\ n' \in 0..NBytes /\ loc' \in 0..NBytes
    BY <2>1, <2>2, Sizes, SMTT(30) DEF TypeOK
  <2>4. QED BY <1>5, <2>1, <2>2, <2>3, Sizes DEF Nodealloccg, TypeOK, input
<1>6. CASE Memcchr
  <2>1. loc < NBytes /\ loc + n <= NBytes
    BY <1>0, <1>6, ByteRange DEF Memcchr, ByteInv
  <2>2. map[loc] # Full => LowBit(Full \ map[loc]) \in 0..7
    BY <2>1, ByteFacts, LowBitFacts
  <2>3. QED BY <1>0, <1>6, <2>1, <2>2, Sizes, SMTT(30) DEF Memcchr, Gotit, TypeOK, input, NBBY
<1>7. CASE MemcchrAgain
  BY <1>0, <1>7, Sizes DEF MemcchrAgain, TypeOK, input
<1>8. CASE UNCHANGED vars
  BY <1>8 DEF vars, TypeOK
<1>9. QED BY <1>1, <1>2, <1>3, <1>4, <1>5, <1>6, <1>7, <1>8 DEF Next
(***************************************************************************)
(* The invariant.                                                          *)
(***************************************************************************)

\* Bit i lies in byte i \div 8.
LEMMA BitInByte ==
  ASSUME NEW k \in Nat, NEW i \in (k * 8)..(k * 8 + 7)
  PROVE  i \div 8 = k /\ i % 8 = i - k * 8
OBVIOUS

\* A full byte has no clear bit; so full bytes make a full bitmap.
LEMMA FullClear ==
  ASSUME TypeOK, NEW i \in 0..NBytes, FullBytes(0, i),
         NEW b \in 0..(8 * i - 1)
  PROVE  ~isclr(b)
<1>1. b \div 8 \in 0..(i - 1) /\ b % 8 \in 0..7
  BY Sizes
<1>2. map[b \div 8] = Full
  BY <1>1 DEF FullBytes
<1>3. QED BY <1>1, <1>2 DEF isclr, Full, NBBY

\* The high clear bits of a byte are a run.
LEMMA HighRun ==
  ASSUME TypeOK, loc < NBytes,
         NEW i \in (loc * NBBY + ext2_fls(map[loc]))..(loc * NBBY + 7)
  PROVE  isclr(i)
<1>1. loc \in Nat /\ ext2_fls(map[loc]) \in 0..8 /\ map[loc] \in Byte
  BY ByteFacts, FlsFacts, Sizes DEF TypeOK
<1>2. i \in (loc * 8)..(loc * 8 + 7)
  BY <1>1 DEF NBBY
<1>3. i \div 8 = loc /\ i % 8 = i - loc * 8
  BY <1>1, <1>2, BitInByte
<1>4. i - loc * 8 \in 0..7 /\ i - loc * 8 >= ext2_fls(map[loc])
  BY <1>1, <1>2 DEF NBBY
<1>5. i - loc * 8 \notin map[loc]
  BY <1>1, <1>4, FlsFacts
<1>6. QED BY <1>3, <1>5 DEF isclr, NBBY

\* The low bits of a byte before its first one bit continue a run.
LEMMA LowRun ==
  ASSUME TypeOK, loc < NBytes, NEW len \in 0..8,
         \A j \in 0..7 : j < len => j \notin map[loc],
         NEW i \in (loc * NBBY)..(loc * NBBY + len - 1)
  PROVE  isclr(i)
<1>1. loc \in Nat
  BY Sizes DEF TypeOK
<1>2. i \in (loc * 8)..(loc * 8 + 7) /\ i - loc * 8 \in 0..7 /\ i - loc * 8 < len
  BY <1>1 DEF NBBY
<1>3. i \div 8 = loc /\ i % 8 = i - loc * 8
  BY <1>1, <1>2, BitInByte
<1>4. QED BY <1>2, <1>3 DEF isclr, NBBY

\* One turn of the scan: a run that is too short is remembered, and one that is
\* long enough is eight free blocks inside the group.
LEMMA RunStep ==
  ASSUME TypeOK, IInv, ScanByte, loc < NBytes,
         NEW s \in Nat, NEW len \in Nat, NEW e \in Nat, e <= 8,
         Run(s, len), len # 0 => s + len = loc * NBBY + e, len < 8 => e = 8,
         \A i \in s..(loc * NBBY + e - 1) : isclr(i)
  PROVE  IInv'
<1>0. /\ kind' = kind /\ map' = map /\ pc = "scan" /\ kind = "block"
      /\ loc \in Nat /\ NBytes \in Nat /\ Fpg = 8 * NBytes
      /\ runlen' = len /\ runstart' = s
  BY Sizes DEF ScanByte, input, IInv, ScanInv, TypeOK, Run
<1>1. CASE len >= 8 /\ Gotit(s)
  <2>1. s + len <= 8 * NBytes /\ s < Fpg
    BY <1>0, <1>1 DEF NBBY
  <2>2. \A i \in s..(s + 7) : isclr(i)
    BY <1>0, <1>1 DEF NBBY
  <2>3. isclr(s)
    BY <2>2
  <2>4. pc' = "gotit" /\ bno' = s
    BY <1>1 DEF Gotit
  <2>5. QED BY <1>0, <2>1, <2>2, <2>3, <2>4
        DEF IInv, ScanInv, ByteInv, Padding, ResultClear, RunClear, PanicOnlyIfFull,
            isclr, Size
<1>2. CASE len < 8 /\ loc' = loc + 1 /\ UNCHANGED <<pc, bno>>
  <2>1. len # 0 => /\ s + len = (loc + 1) * NBBY
                   /\ \A i \in s..((loc + 1) * NBBY - 1) : isclr(i)
    BY <1>0, <1>2 DEF NBBY
  <2>2. QED BY <1>0, <1>2, <2>1
        DEF IInv, ScanInv, ByteInv, Padding, ResultClear, RunClear, PanicOnlyIfFull, isclr
<1>3. QED BY <1>1, <1>2 DEF Run

\* Every step keeps the invariant.
LEMMA SearchStep == TypeOK /\ IInv /\ [Next]_vars => IInv'
<1> SUFFICES ASSUME TypeOK, IInv, [Next]_vars PROVE IInv'
  OBVIOUS
<1>0. /\ bpref \in Nat /\ loc \in Nat /\ start \in Nat /\ n \in Nat /\ goal \in Nat
      /\ runlen \in Nat /\ runstart \in Nat /\ NBytes \in Nat /\ Fpg = 8 * NBytes
      /\ kind \in {"block", "inode"}
  BY Sizes DEF TypeOK
<1>i. kind' = kind /\ map' = map
  BY DEF Next, Alloccg, ScanByte, ScanRetry, Mapsearch, Nodealloccg, Memcchr,
         MemcchrAgain, vars, input
<1>p. Padding'
  BY <1>i DEF IInv, Padding, isclr
<1>1. CASE Alloccg
  <2>1. PICK b \in 0..(Fpg - 1) : b = IF InGroup THEN dtogd(goal) ELSE 0
    BY <1>0, StartFacts, Sizes
  <2>2. pc = "pref" /\ kind = "block" /\ runlen' = runlen
    BY <1>1 DEF Alloccg
  <2>3. CASE isclr(b) /\ Gotit(b)
    <3>1. runlen = 0
      BY <2>2 DEF IInv, ScanInv
    <3>2. QED BY <1>0, <1>i, <1>p, <2>1, <2>2, <2>3, <3>1, Sizes
          DEF IInv, ScanInv, ByteInv, ResultClear, RunClear, PanicOnlyIfFull, isclr,
              Size, Gotit
  <2>4. CASE pc' = "scan"
    BY <1>i, <1>p, <2>2, <2>4
    DEF IInv, ScanInv, ByteInv, ResultClear, RunClear, PanicOnlyIfFull
  <2>5. QED BY <1>1, <2>1, <2>3, <2>4 DEF Alloccg
<1>2. CASE ScanByte
  <2>1. loc < NBytes /\ pc = "scan"
    BY <1>2, Sizes DEF ScanByte, TypeOK
  <2>2. CASE runlen' = 0 /\ loc' = loc + 1 /\ UNCHANGED <<runstart, pc, bno>>
    BY <1>i, <1>p, <2>1, <2>2
    DEF IInv, ScanInv, ByteInv, ResultClear, RunClear, PanicOnlyIfFull
  <2>3. CASE NewRun
    <3>1. PICK f \in 0..8 : f = ext2_fls(map[loc])
      BY <2>1, ByteFacts, FlsFacts
    <3>2. Run(loc * NBBY + f, NBBY - f)
      BY <2>3, <3>1 DEF NewRun
    <3>3. \A i \in (loc * NBBY + f)..(loc * NBBY + 8 - 1) : isclr(i)
      BY <1>0, <2>1, <3>1, HighRun DEF NBBY
    <3>4. /\ loc * NBBY + f \in Nat /\ NBBY - f \in Nat
          /\ (loc * NBBY + f) + (NBBY - f) = loc * NBBY + 8
      BY <1>0 DEF NBBY
    <3>5. QED BY <1>2, <2>1, <3>2, <3>3, <3>4, RunStep
  <2>4. ASSUME NEW e \in 0..8, runlen # 0, Run(runstart, runlen + e),
               runlen + e < 8 => e = 8, \A j \in 0..7 : j < e => j \notin map[loc]
        PROVE  IInv'
    <3>1. /\ runstart + runlen = loc * NBBY
          /\ \A i \in runstart..(loc * NBBY - 1) : isclr(i)
      BY <2>1, <2>4 DEF IInv, ScanInv
    <3>2. \A i \in (loc * NBBY)..(loc * NBBY + e - 1) : isclr(i)
      BY <2>1, <2>4, LowRun
    <3>3. \A i \in runstart..(loc * NBBY + e - 1) : isclr(i)
      BY <1>0, <3>1, <3>2 DEF NBBY
    <3>4. runstart + (runlen + e) = loc * NBBY + e /\ runlen + e \in Nat /\ e \in Nat /\ e <= 8
      BY <1>0, <3>1 DEF NBBY
    <3>5. QED BY <1>0, <1>2, <2>1, <2>4, <3>3, <3>4, RunStep
  <2>5. CASE map[loc] = {} /\ runlen # 0 /\ Run(runstart, runlen + NBBY)
    BY <2>4, <2>5, <1>0 DEF NBBY
  <2>6. CASE /\ map[loc] \notin {Full, {}} /\ runlen # 0
             /\ runlen + LowBit(map[loc]) >= 8
             /\ Run(runstart, runlen + LowBit(map[loc]))
    <3>1. PICK e \in 0..7 : /\ e = LowBit(map[loc])
                            /\ \A j \in 0..7 : j < e => j \notin map[loc]
      BY <2>1, <2>6, ByteFacts, LowBitFacts
    <3>2. QED BY <1>0, <2>4, <2>6, <3>1
  <2>7. QED BY <1>2, <2>2, <2>3, <2>5, <2>6 DEF ScanByte
<1>3. CASE ScanRetry
  BY <1>i, <1>p, <1>3 DEF ScanRetry, IInv, ScanInv, ByteInv, ResultClear, RunClear,
     PanicOnlyIfFull
<1>4. CASE Mapsearch
  <2>1. /\ pc = "scan" /\ kind = "block" /\ pc' = "memcchr" /\ bpref' = bpref
        /\ start' = StartByte(bpref) /\ loc' = start' /\ n' = NBytes - start'
        /\ runlen' = runlen /\ runlen < 8
    BY <1>4 DEF Mapsearch, IInv, ScanInv
  <2>2. First' = start' /\ NB' = NBytes /\ start' \in 0..(NBytes - 1)
    BY <1>0, <1>i, <2>1, StartFacts DEF First, NB, StartByte, dtogd
  <2>3. QED BY <1>0, <1>i, <1>p, <2>1, <2>2
        DEF IInv, ScanInv, ByteInv, ResultClear, RunClear, PanicOnlyIfFull, FullBytes
<1>5. CASE Nodealloccg
  <2>1. PICK i \in 0..(Ipg - 1) : i = IF goal \in {0, 1} THEN 0 ELSE (goal - 1) % Ipg
    BY <1>0, Sizes, ModRange
  <2>2. pc = "pref" /\ kind = "inode" /\ runlen' = runlen /\ runlen = 0 /\ bpref' = i
    BY <1>5, <2>1 DEF Nodealloccg, IInv, ScanInv
  <2>3. CASE isclr(i) /\ Gotit(i)
    BY <1>i, <1>p, <2>1, <2>2, <2>3, Sizes
    DEF IInv, ScanInv, ByteInv, ResultClear, RunClear, PanicOnlyIfFull, isclr, Size, Gotit
  <2>4. CASE /\ start' = i \div NBBY /\ n' = (Ipg - i + NBBY - 1) \div NBBY
             /\ loc' = start' /\ pc' = "memcchr"
    <3>1. First' = start' /\ NB' = Ipg \div 8
      BY <1>i, <2>2, <2>4 DEF First, NB, NBBY
    <3>2. start' + n' = Ipg \div 8 /\ start' \in Nat /\ start' < Ipg \div 8
      BY <2>4, Sizes DEF NBBY
    <3>3. QED BY <1>i, <1>p, <2>2, <2>4, <3>1, <3>2
          DEF IInv, ScanInv, ByteInv, ResultClear, RunClear, PanicOnlyIfFull, FullBytes
  <2>5. QED BY <1>5, <2>1, <2>3, <2>4 DEF Nodealloccg
<1>6. CASE Memcchr
  <2>1. /\ pc \in {"memcchr", "memcchr2"} /\ n # 0 /\ First' = First /\ NB' = NB
        /\ start' = start /\ runlen' = runlen /\ runlen < 8
    BY <1>6, <1>i DEF Memcchr, First, NB, StartByte, dtogd, IInv, ScanInv
  <2>2. NB \in Nat /\ NB <= NBytes /\ First \in Nat /\ First < NBytes /\ loc < NB /\ loc + n <= NB
    BY <1>0, <2>1, ByteRange DEF IInv, ByteInv
  <2>3. CASE map[loc] = Full /\ loc' = loc + 1 /\ n' = n - 1 /\ UNCHANGED <<bno, pc>>
    <3>1. /\ FullBytes(First, loc) => FullBytes(First, loc + 1)
          /\ FullBytes(0, loc) => FullBytes(0, loc + 1)
      BY <1>0, <2>2, <2>3 DEF FullBytes
    <3>2. ByteInv'
      BY <1>0, <1>i, <2>1, <2>2, <2>3, <3>1 DEF IInv, ByteInv, FullBytes
    <3>3. QED BY <1>i, <1>p, <2>1, <2>3, <3>2
          DEF IInv, ScanInv, ResultClear, RunClear, PanicOnlyIfFull
  <2>4. CASE map[loc] # Full /\ Gotit(loc * NBBY + LowBit(Full \ map[loc]))
    <3>1. PICK r \in 0..7 : r = LowBit(Full \ map[loc]) /\ r \in Full \ map[loc]
      BY <2>2, <2>4, <1>0, ByteFacts, LowBitFacts
    <3>2. (loc * 8 + r) \div 8 = loc /\ (loc * 8 + r) % 8 = r
      BY <1>0
    <3>3. isclr(loc * 8 + r) /\ loc * 8 + r < Size
      BY <1>0, <2>2, <3>1, <3>2, Sizes DEF isclr, NBBY, Size, NB
    <3>4. pc' = "gotit" /\ bno' = loc * 8 + r
      BY <2>4, <3>1 DEF Gotit, NBBY
    <3>5. PICK b \in Nat : b = loc * 8 + r
      BY <1>0
    <3>6. ResultClear'
      BY <1>i, <3>3, <3>4, <3>5 DEF ResultClear, isclr, Size
    <3>7. QED BY <1>0, <1>p, <2>1, <3>4, <3>6
          DEF IInv, ScanInv, ByteInv, RunClear, PanicOnlyIfFull
  <2>5. QED BY <1>6, <2>3, <2>4 DEF Memcchr
<1>7. CASE MemcchrAgain
  <2>1. /\ n = 0 /\ First' = First /\ NB' = NB /\ runlen' = runlen
        /\ NB \in Nat /\ NB <= NBytes /\ First \in Nat /\ First < NBytes
    BY <1>7, <1>i, ByteRange DEF MemcchrAgain, First, NB, StartByte, dtogd
  <2>2. CASE /\ pc = "memcchr" /\ n' = start + 1 /\ start' = 0 /\ loc' = 0
             /\ pc' = "memcchr2"
    <3>1. loc = NB /\ start = First /\ FullBytes(First, NB) /\ First < NB
      BY <1>0, <2>1, <2>2 DEF IInv, ByteInv
    <3>2. QED BY <1>0, <1>i, <1>p, <2>1, <2>2, <3>1
          DEF IInv, ScanInv, ByteInv, ResultClear, RunClear, PanicOnlyIfFull, FullBytes
  <2>3. CASE pc = "memcchr2" /\ pc' = "panic"
    <3>1. loc = First + 1 /\ FullBytes(First, NB) /\ FullBytes(0, loc)
      BY <1>0, <2>1, <2>3 DEF IInv, ByteInv
    <3>2. FullBytes(0, NB)
      BY <2>1, <3>1 DEF FullBytes
    <3>3. \A b \in 0..(8 * NB - 1) : ~isclr(b)
      BY <2>1, <3>2, FullClear, Sizes
    <3>4. Size = 8 * NB
      BY <1>0, Sizes DEF Size, NB, NBBY
    <3>5. QED BY <1>0, <1>i, <1>p, <2>1, <2>3, <3>3, <3>4
          DEF IInv, ScanInv, ByteInv, ResultClear, RunClear, PanicOnlyIfFull, isclr, Size
  <2>4. QED BY <1>7, <2>2, <2>3 DEF MemcchrAgain
<1>8. CASE UNCHANGED vars
  BY <1>8 DEF vars, IInv, ScanInv, ByteInv, Padding, ResultClear, RunClear,
     PanicOnlyIfFull, isclr, Size, First, NB, FullBytes, StartByte, dtogd
<1>9. QED BY <1>1, <1>2, <1>3, <1>4, <1>5, <1>6, <1>7, <1>8 DEF Next

(***************************************************************************)
(* The theorems.                                                           *)
(***************************************************************************)

\* Both invariants hold throughout.
THEOREM SearchInvariant == Spec => [](TypeOK /\ IInv)
<1>1. Init => TypeOK /\ IInv
  <2> SUFFICES ASSUME Init PROVE TypeOK /\ IInv
    OBVIOUS
  <2>1. map \in [0..(NBytes - 1) -> Byte] /\ goal \in Nat
    BY SearchAssumption DEF Init
  <2>2. TypeOK
    BY <2>1, Sizes DEF Init, TypeOK, NBBY
  <2>3. QED BY <2>2 DEF Init, IInv, ScanInv, ByteInv, Padding, ResultClear, RunClear,
                        PanicOnlyIfFull
<1>2. TypeOK /\ IInv /\ [Next]_vars => (TypeOK /\ IInv)'
  <2>1. IInv => ScanInv /\ ByteInv
    BY DEF IInv
  <2>2. QED BY <2>1, TypeStep, SearchStep
<1>3. QED BY <1>1, <1>2, PTL DEF Spec

\* The scan stays inside the bitmap, for every bitmap, goal and geometry: start, end, loc, the
\* run and the bit in hand keep the ranges that the indexing relies on.
THEOREM SearchTypes == Spec => []TypeOK
BY SearchInvariant, PTL

\* Every block or inode handed out is a clear bit of the group's bitmap.
THEOREM HandsOutClear == Spec => []ResultClear
<1>1. IInv => ResultClear
  BY DEF IInv
<1>2. QED BY <1>1, SearchInvariant, PTL

\* A run of eight that the scan reports is eight free blocks.
THEOREM RunsAreFree == Spec => []RunClear
<1>1. IInv => RunClear
  BY DEF IInv
<1>2. QED BY <1>1, SearchInvariant, PTL

\* "map corrupted" is said of full bitmaps only.
THEOREM PanicsOnFull == Spec => []PanicOnlyIfFull
<1>1. IInv => PanicOnlyIfFull
  BY DEF IInv
<1>2. QED BY <1>1, SearchInvariant, PTL
=============================================================================
