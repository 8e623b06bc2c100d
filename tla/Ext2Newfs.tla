------------------------------ MODULE Ext2Newfs ------------------------------
(***************************************************************************)
(* newfs_ext2fs makes a volume; fsck_ext2fs and the kernel extension then  *)
(* read its geometry from the superblock.                                  *)
(*                                                                         *)
(* The sizes of the code (1024 bytes of boot block, 512 of a sector, 32 of *)
(* a descriptor, 4 of a block number...) are constants, so that a group    *)
(* can be small.  A device is the sectors on which an older superblock is  *)
(* found, and what newfs writes: the copies of superblock and descriptors, *)
(* bit maps, and inodes with the blocks they own.                          *)
(***************************************************************************)
EXTENDS Integers, FiniteSets, FiniteSetsExt, Sequences, SequencesExt

CONSTANTS
  Options,           \* what newfs can be told: [fssize, bsize, inodesize, num_inodes, density, Oflag]
  NBBY,              \* bits of a byte
  SectorSize, BBSIZE, SBSIZE,     \* SBOFF is BBSIZE
  GdSize, PtrSize,   \* bytes of a group descriptor and of a block number
  InodeSize0,        \* EXT2_REV0_DINODE_SIZE
  LfSize, NDADDR,    \* EXT2_LOSTFOUNDSIZE; direct blocks of an inode
  Growth,            \* how much larger a volume may become, 1024 in the code
  U16Max, U32Max,    \* UINT16_MAX and UINT32_MAX
  Small, Medium      \* SMALL_FSSIZE and MEDIUM_FSSIZE

ROOTINO   == 2
RESIZEINO == 7
FIRSTINO  == 11
LFINO     == FIRSTINO

ASSUME NewfsAssumption ==
  /\ {NBBY, SectorSize, BBSIZE, SBSIZE, GdSize, PtrSize, InodeSize0, LfSize, NDADDR,
      Growth, U16Max, U32Max, Small, Medium} \subseteq Nat \ {0}
  /\ SBSIZE = BBSIZE /\ BBSIZE % SectorSize = 0

Howmany(a, b)  == (a + b - 1) \div b
Roundup(a, b)  == Howmany(a, b) * b
AtMost(a, b)   == IF a > b THEN b ELSE a
U16(n)         == n % (U16Max + 1)
U32(n)         == n % (U32Max + 1)

VARIABLES
  opt,       \* the options
  g,         \* the geometry in the superblock
  gd,        \* group descriptors in core
  sb,        \* the superblock's free blocks and inodes, in core
  pc, cg,    \* the step that newfs is at, the group that is next
  dsb,       \* group -> superblock and descriptors as written there
  bbm, ibm,  \* group -> bits that are set in the bit maps on disk
  itab,      \* inode -> mode, links, blocks; as written
  old,       \* sectors that still hold an older superblock
  boot       \* the boot block has been left alone

vars == <<opt, g, gd, sb, pc, cg, dsb, bbm, ibm, itab, old, boot>>

(***************************************************************************)
(* Geometry.                                                               *)
(***************************************************************************)
\* Groups 0 and 1 and the powers of 3, 5 and 7, here up to the fourth.
cg_has_sb(c) == c \in {0, 1} \/ \E p \in {3, 5, 7}, k \in 1..4 : c = p ^ k

\* main(): block size and number of inodes that are not given.
Bsize(o) == IF o.bsize # 0 THEN o.bsize ELSE IF o.fssize < Medium THEN BBSIZE ELSE 4 * BBSIZE
NumInodes(o) ==
  LET blocks == (o.fssize * SectorSize) \div Bsize(o) IN
  IF o.num_inodes # 0 THEN o.num_inodes
  ELSE IF o.density # 0 THEN o.fssize \div o.density
  ELSE blocks \div (IF o.fssize < Small THEN 8 ELSE IF o.fssize < Medium THEN 4 ELSE 2)

\* mke2fs(), its first checks.
Refused(o) ==
  LET first == IF Bsize(o) > BBSIZE THEN 0 ELSE 1 IN
  \/ o.Oflag = 0 /\ o.inodesize # InodeSize0
  \/ o.fssize * SectorSize < (first + 7) * Bsize(o)

\* mke2fs(), up to the calculation for the resize inode.  A last group that is too small
\* is left out, and if it is the only one, numbers are divided by zero later.
Geometry(o) ==
  LET bsize == Bsize(o)
      ipb   == bsize \div o.inodesize
      first == IF bsize > BBSIZE THEN 0 ELSE 1
      bpg   == bsize * NBBY
      bcnt  == (o.fssize * SectorSize) \div bsize
      n0    == Howmany(bcnt - first, bpg)
      gdb0  == Howmany(GdSize * n0, bsize)
      num   == AtMost(Max({NumInodes(o), FIRSTINO}), U16Max * n0)
      ibl   == Howmany(o.inodesize * (num \div n0), bsize)
      least == 3 + ibl + (IF o.Oflag = 0 \/ cg_has_sb(n0 - 1) THEN 1 + gdb0 ELSE 0)
      last  == bcnt - first - bpg * (n0 - 1)
      kill  == last < least
      ncg   == IF kill THEN n0 - 1 ELSE n0
      ipg   == Roundup(num \div ncg, ipb) IN
  IF ncg = 0 THEN [ncg |-> 0]
  ELSE [rev |-> o.Oflag, bsize |-> bsize, isize |-> o.inodesize, first |-> first, bpg |-> bpg,
        ncg |-> ncg, ipg |-> ipg, icount |-> ipg * ncg,
        bcount |-> IF kill THEN bcnt - last ELSE bcnt,
        lastcg |-> IF kill THEN bpg ELSE last, gdb |-> Howmany(GdSize * ncg, bsize),
        itpg |-> ipg \div ipb, resize |-> o.Oflag = 1, ngdb |-> 0, firstino |-> FIRSTINO,
        incompat |-> IF o.Oflag = 0 THEN {} ELSE {"filetype"},
        rocompat |-> IF o.Oflag = 0 THEN {} ELSE {"sparse_super", "large_file"}]

cgbase(x, c)  == x.first + x.bpg * c
NINDIR(x)     == x.bsize \div PtrSize
HasCopy(x, c) == x.rev = 0 \/ cg_has_sb(c)
cgoverhead(x, c) ==
  2 + x.itpg + (IF HasCopy(x, c) THEN 1 + x.gdb + (IF x.resize THEN x.ngdb ELSE 0) ELSE 0)

\* Descriptors that the volume has once it is Growth times as large, in blocks.
Target(x) ==
  LET blocks == AtMost((x.bcount - x.first) * Growth, U32Max) IN
  AtMost(Howmany(GdSize * Howmany(blocks, x.bpg), x.bsize), NINDIR(x))
WithNgdb(x, n) == IF x.rev = 0 THEN x ELSE [x EXCEPT !.ngdb = n, !.resize = n # 0]

\* Mutation: the blocks reserved for descriptors may fill up the last group and more.
ReservedUnbounded(x) == WithNgdb(x, U32(Target(x) - x.gdb))

\* mke2fs(): blocks reserved for the descriptors of a larger volume.  Numbers are unsigned:
\* a last group with less than no room does not bound them, and a volume that has more
\* descriptors than the target gets all the room there is.
Reserved(x) ==
  WithNgdb(x, AtMost(U32(Target(x) - x.gdb), U32(x.lastcg - cgoverhead(x, x.ncg - 1))))

\* mke2fs(): the descriptors.
Descriptors(x) ==
  [c \in 0..(x.ncg - 1) |->
     LET at == cgbase(x, c) + (IF HasCopy(x, c) THEN 1 + x.gdb + (IF x.resize THEN x.ngdb ELSE 0)
                               ELSE 0)
         size == IF c = x.ncg - 1 THEN x.lastcg ELSE x.bpg IN
     [b_bitmap |-> at, i_bitmap |-> at + 1, i_tables |-> at + 2,
      nbfree |-> U16(size - cgoverhead(x, c)),
      nifree |-> U16(x.ipg - (IF c = 0 THEN FIRSTINO - 1 ELSE 0)), ndirs |-> 0]]

(***************************************************************************)
(* Sectors.                                                                *)
(***************************************************************************)
Sectors(x, b, n) == LET spb == x.bsize \div SectorSize IN (b * spb)..((b + n) * spb - 1)
BootSectors      == 0..(BBSIZE \div SectorSize - 1)
SbSectors(s)     == s..(s + SBSIZE \div SectorSize - 1)

\* Where the superblocks of volumes with blocks of p bytes would be among n blocks, in bytes.
Pbsize       == {BBSIZE, 2 * BBSIZE, 4 * BBSIZE}
Places(p, n) == {p * (k * p * NBBY + (IF p = SBSIZE THEN 1 ELSE 0)) : k \in 0..(n \div (p * NBBY))}
                  \cap 0..(p * n - 1)

\* The older superblocks of volumes of every block size that a device can have.
Older(bytes) == {b \div SectorSize : b \in UNION {Places(p, Howmany(bytes, p)) : p \in Pbsize}}

\* wtfs(): what was in the sectors is gone.
Wtfs(secs) == old' = old \ secs /\ boot' = (boot /\ BootSectors \cap secs = {})

(***************************************************************************)
(* Actions.                                                                *)
(***************************************************************************)
Init ==
  /\ opt \in Options
  /\ g = [ncg |-> 0] /\ gd = <<>> /\ sb = [fb |-> 0, fi |-> 0] /\ pc = "options" /\ cg = 0
  /\ dsb = <<>> /\ bbm = <<>> /\ ibm = <<>> /\ itab = <<>>
  /\ old = (Older(opt.fssize * SectorSize) \ {0}) \cup {BBSIZE \div SectorSize} /\ boot = TRUE

Stop(how) ==
  /\ pc' = how
  /\ UNCHANGED <<opt, g, gd, sb, cg, dsb, bbm, ibm, itab, old, boot>>

\* mke2fs() until it begins to write, which it does with the last sector of the device.
Layout ==
  /\ pc = "options"
  /\ LET x == Reserved(Geometry(opt))
         d == Descriptors(x) IN
     IF Refused(opt) THEN Stop("errx")
     ELSE IF Geometry(opt).ncg = 0 THEN Stop("crash")
     ELSE /\ g' = x /\ gd' = d /\ pc' = "zap"
          /\ sb' = [fb |-> MapThenSumSet(LAMBDA c : d[c].nbfree, DOMAIN d),
                    fi |-> MapThenSumSet(LAMBDA c : d[c].nifree, DOMAIN d)]
          /\ Wtfs({opt.fssize - 1})
          /\ UNCHANGED <<opt, cg, dsb, bbm, ibm, itab>>

\* Mutation: only what a volume of this block size could have had there is cleared.
ZappedSame(x) ==
  UNION {SbSectors(((k * x.bpg + x.first) * x.bsize) \div SectorSize) : k \in 1..(x.ncg - 1)}

\* zap_old_sblock() for every place; group 0 up to its data will be written anyway.  The
\* number of bytes is of 32 bits: beyond them it is a place near the start once more.
Zapped(x) ==
  LET cg0_data == ((x.first + cgoverhead(x, 0)) * x.bsize) \div SectorSize
      places   == UNION {Places(p, (x.bcount * x.bsize) \div p) : p \in Pbsize}
      secs     == {U32(b) \div SectorSize : b \in places} IN
  UNION {SbSectors(s) : s \in {sec \in secs : sec >= cg0_data}}

Zap ==
  /\ pc = "zap"
  /\ Wtfs(Zapped(g)) /\ pc' = "initcg"
  /\ UNCHANGED <<opt, g, gd, sb, cg, dsb, bbm, ibm, itab>>

\* Mutation: the blocks that the last group does not have are free.
BlockbitsWhole(x, c) == 0..(cgoverhead(x, c) - 1)

\* initcg(): the bit maps of a new group, with the blocks that the last one does not have,
\* and the inodes that do not fill a byte taken for inodes that are not there.
Blockbits(x, c) ==
  0..(cgoverhead(x, c) - 1)
    \cup (IF c = x.ncg - 1 THEN (x.bcount - cgbase(x, c))..(x.bpg - 1) ELSE {})
Inodebits(x, c) ==
  ((x.ipg \div NBBY) * NBBY)..(x.bsize * NBBY - 1) \cup (IF c = 0 THEN 0..(FIRSTINO - 2) ELSE {})

Copy(c) == [g |-> g, gd |-> gd, sb |-> sb, nr |-> c]
CopySectors(x, c) == Sectors(x, cgbase(x, c), 1 + x.gdb) \ (IF cgbase(x, c) = 0 THEN BootSectors ELSE {})

Initcg ==
  /\ pc = "initcg"
  /\ IF g.ipg \div NBBY > g.bsize THEN Stop("crash")         \* memset() of a negative length
     ELSE /\ dsb' = IF HasCopy(g, cg) THEN (cg :> Copy(cg)) @@ dsb ELSE dsb
          /\ bbm' = (cg :> Blockbits(g, cg)) @@ bbm
          /\ ibm' = (cg :> Inodebits(g, cg)) @@ ibm
          /\ Wtfs(Sectors(g, gd[cg].b_bitmap, 2 + g.itpg)
                    \cup (IF HasCopy(g, cg) THEN CopySectors(g, cg) ELSE {}))
          /\ cg' = cg + 1
          /\ pc' = IF cg' < g.ncg THEN "initcg" ELSE IF g.resize THEN "resize" ELSE "lost+found"
          /\ UNCHANGED <<opt, g, gd, sb, itab>>

\* alloc() of n blocks, one after another: the first clear bits of group 0.
Room(n)   == gd[0].nbfree >= n /\ Cardinality(0..(g.bpg - 1) \ bbm[0]) >= n
Firstn(n) == {b \in 0..(g.bpg - 1) \ bbm[0] : Cardinality(0..b \ bbm[0]) <= n}

\* iput() of inode i, which has the blocks blks.  Those with the bits bs are newly allocated,
\* and the blocks written have been.
\* e2fs_ipg in core is never set: ino_to_cg() divides by zero, and where that yields zero
\* (arm64) every inode counts as one of group 0.
Iput(i, mode, nlink, bs, blks, written, next) ==
  LET new  == i >= FIRSTINO
      slot == (i - 1) % g.ipg
      at   == gd[0].i_tables + (slot \div (g.bsize \div g.isize)) IN
  IF \/ new /\ (gd[0].nifree = 0 \/ i - 1 \in ibm[0])
     \/ i >= g.ipg * g.ncg THEN Stop("errx")
  ELSE /\ itab' = (slot + 1 :> [mode |-> mode, nlink |-> nlink, blks |-> blks]) @@ itab
       /\ bbm' = [bbm EXCEPT ![0] = @ \cup bs]
       /\ ibm' = IF new THEN [ibm EXCEPT ![0] = @ \cup {i - 1}] ELSE ibm
       /\ gd' = [gd EXCEPT ![0].nbfree = @ - Cardinality(bs),
                           ![0].nifree = IF new THEN @ - 1 ELSE @,
                           ![0].ndirs = IF mode = "dir" THEN @ + 1 ELSE @]
       /\ sb' = [fb |-> sb.fb - Cardinality(bs), fi |-> IF new THEN sb.fi - 1 ELSE sb.fi]
       /\ Wtfs(UNION {Sectors(g, b, 1) : b \in {at, gd[0].b_bitmap, gd[0].i_bitmap} \cup written})
       /\ pc' = next
       /\ UNCHANGED <<opt, g, cg, dsb>>

Data(bs) == {g.first + b : b \in bs}

\* The blocks reserved for descriptors in group c, and the groups that have backups of them.
Reservedgdb(c) == {cgbase(g, c) + 1 + i : i \in g.gdb..(g.gdb + g.ngdb - 1)}
Backups        == {c \in 1..(g.ncg - 1) : cg_has_sb(c)}

\* init_resizeino(): a double indirect block leads to the reserved blocks of group 0, and
\* these to their backups.
Resizeino ==
  /\ pc = "resize"
  /\ LET dindir == Data(Firstn(1))
         blks   == dindir \cup UNION {Reservedgdb(c) : c \in {0} \cup Backups} IN
     IF ~Room(1) \/ g.gdb + g.ngdb > NINDIR(g) \/ Cardinality(Backups) > NINDIR(g)
     THEN Stop("errx")
     ELSE Iput(RESIZEINO, "reg", 1, Firstn(1), blks, dindir \cup Reservedgdb(0), "lost+found")

\* fsinit(): lost+found, with some room, and the root.
Lostfound ==
  /\ pc = "lost+found"
  /\ LET n == AtMost(LfSize \div g.bsize, NDADDR) IN
     IF ~Room(n) THEN Stop("errx")
     ELSE Iput(LFINO, "dir", 2, Firstn(n), Data(Firstn(n)), Data(Firstn(n)), "root")
Root ==
  /\ pc = "root"
  /\ IF ~Room(1) THEN Stop("errx")
     ELSE Iput(ROOTINO, "dir", 3, Firstn(1), Data(Firstn(1)), Data(Firstn(1)), "super")

\* mke2fs(): the superblock and the descriptors once more.
Super ==
  /\ pc = "super"
  /\ dsb' = (0 :> Copy(0)) @@ dsb
  /\ Wtfs(CopySectors(g, 0)) /\ pc' = "done"
  /\ UNCHANGED <<opt, g, gd, sb, cg, bbm, ibm, itab>>

\* Where the division by zero is a trap (x86_64) the first iput() ends the program.
Trap == pc \in {"resize", "lost+found"} /\ Stop("crash")

\* wtfs() and rdfs() end the program on an error.
Fail == pc \in {"zap", "initcg", "resize", "lost+found", "root", "super"} /\ Stop("failed")

Next == Layout \/ Zap \/ Initcg \/ Resizeino \/ Lostfound \/ Root \/ Super \/ Trap \/ Fail

Spec == Init /\ [][Next]_vars

(***************************************************************************)
(* What fsck_ext2fs and the kernel extension make of it.                   *)
(***************************************************************************)
Made == dsb[0]
Groups == 0..(Made.g.ncg - 1)
Metadata(c) ==
  LET d == Made.gd[c] IN {d.b_bitmap, d.i_bitmap} \cup d.i_tables..(d.i_tables + Made.g.itpg - 1)
Copies(c) == IF HasCopy(Made.g, c) THEN cgbase(Made.g, c)..(cgbase(Made.g, c) + Made.g.gdb) ELSE {}

BadSb  == [gcount |-> 0]
\* What newfs itself has calculated with.
Wanted == [gcount |-> g.ncg, gdbcount |-> g.gdb, itpg |-> g.itpg, gdblock |-> cgbase(g, 0) + 1]

\* readsb() of fsck: the geometry again, from the superblock; which is bad if that of group
\* 1 has another one.
Readsb(a, b) ==
  LET ipb    == a.bsize \div (IF a.rev = 0 THEN InodeSize0 ELSE a.isize)
      gcount == Howmany(a.bcount - a.first, a.bpg) IN
  IF a.bsize > 4 * BBSIZE \/ a.bpg = 0 \/ (gcount > 1 /\ a # b) THEN BadSb
  ELSE [gcount |-> gcount, gdbcount |-> Howmany(gcount, a.bsize \div GdSize),
        itpg |-> a.ipg \div ipb, gdblock |-> (IF a.bsize > BBSIZE THEN 0 ELSE 1) + 1]

\* calcsb(), and the loop of setup(): the sectors in which fsck looks for another superblock
\* when that of group 0 cannot be used.  It takes the blocks to be the smallest there are.
Calcsb ==
  LET bpg    == BBSIZE * NBBY
      gcount == Howmany((opt.fssize * SectorSize) \div BBSIZE - 1, bpg) IN
  {((k * bpg + 1) * BBSIZE) \div SectorSize : k \in 1..(gcount - 1)}

\* compute_sb_data() of the kernel extension: the geometry once more.
Sbdata(x) ==
  LET isize  == IF x.rev = 0 THEN InodeSize0 ELSE x.isize
      gcount == Howmany(x.bcount - x.first, x.bpg) IN
  [gcount |-> gcount, gdbcount |-> Howmany(gcount, x.bsize \div GdSize),
   itpg |-> x.ipg \div (x.bsize \div isize),
   gdblock |-> (IF x.bsize > SBSIZE THEN 0 ELSE 1) + 1]

\* pass1(): the blocks in use, first those that belong to no inode.  checkinode() looks at
\* none of the reserved inodes but the root.
Reserve == 0..(Made.g.first - 1) \cup UNION {Metadata(c) \cup Copies(c) : c \in Groups}
Checked  == {i \in DOMAIN itab : i >= FIRSTINO \/ i = ROOTINO}
Blockmap == Reserve \cup UNION {itab[i].blks : i \in Checked}

\* pass5(): a group's bit maps and counters as they should be.
Bbmap(c) == {b \in 0..(Made.g.bpg - 1) : LET d == cgbase(Made.g, c) + b IN
                                         d \in Blockmap \/ d >= Made.g.bcount}
Inused(c) == {i \in 0..(Made.g.ipg - 1) : LET j == c * Made.g.ipg + i + 1 IN
                                          j < FIRSTINO \/ j \in DOMAIN itab}
Ibmap(c) == Inused(c) \cup ((Made.g.ipg \div NBBY) * NBBY)..(Made.g.bsize * NBBY - 1)
Summary(c) == [nbfree |-> Made.g.bpg - Cardinality(Bbmap(c)),
               nifree |-> Made.g.ipg - Cardinality(Inused(c)),
               ndirs |-> Cardinality({i \in DOMAIN itab : itab[i].mode = "dir"
                                        /\ (i - 1) \div Made.g.ipg = c})]

EXT2F_INCOMPAT_SUPP  == {"filetype", "extents", "flex_bg", "meta_bg"}
EXT2F_ROCOMPAT_SUPP  == {"sparse_super", "large_file", "extra_isize"}

\* compute_sb_data() and ext2_check_sb_compat(): what the kernel extension mounts, for writing
\* too.
Compatible(x) ==
  /\ x.bsize \in {BBSIZE, 2 * BBSIZE, 4 * BBSIZE} /\ x.bpg # 0 /\ x.rev \in {0, 1}
  /\ x.rev = 1 => /\ x.firstino = FIRSTINO
                  /\ x.incompat \subseteq EXT2F_INCOMPAT_SUPP
                  /\ x.rocompat \subseteq EXT2F_ROCOMPAT_SUPP

\* ext2_statfs_internal(): f_blocks.
Fblocks(x) ==
  LET k == Sbdata(x)
      ngroups == Cardinality({c \in 0..(k.gcount - 1) : x.rev = 0 \/ cg_has_sb(c)}) IN
  x.bcount - (x.first + k.gcount * (2 + k.itpg)
              + ngroups * (1 + k.gdbcount + (IF x.resize THEN x.ngdb ELSE 0)))

(***************************************************************************)
(* Properties.                                                             *)
(***************************************************************************)
Done == pc = "done"

\* The blocks of the resize inode, as bits of a group.
Unseen(c) == {b \in 0..(g.bpg - 1) : RESIZEINO \in DOMAIN itab /\ cgbase(g, c) + b \in itab[RESIZEINO].blks}

\* A volume that newfs has made is one that fsck finds nothing wrong with, but for the
\* blocks of the resize inode, which it takes to be free: fsck's own idea of the geometry is
\* newfs's, no inode claims a block of another or of the metadata, and the bit maps and
\* counters that pass 5 works out are those on the disk.
FsckQuiet ==
  Done =>
    /\ Readsb(Made.g, IF 1 \in Groups THEN dsb[1].g ELSE Made.g) = Wanted
    /\ \A i \in DOMAIN itab : itab[i].blks \cap Reserve = {}
    /\ \A i, j \in DOMAIN itab : itab[i].blks \cap itab[j].blks # {} => i = j
    /\ \A c \in Groups : /\ Bbmap(c) \cap Unseen(c) = {} /\ bbm[c] = Bbmap(c) \cup Unseen(c)
                         /\ ibm[c] = Ibmap(c)
                         /\ Made.gd[c].nbfree = Summary(c).nbfree - Cardinality(Unseen(c))
                         /\ Made.gd[c].nifree = Summary(c).nifree /\ Made.gd[c].ndirs = Summary(c).ndirs
    /\ Made.sb = [fb |-> MapThenSumSet(LAMBDA c : Made.gd[c].nbfree, Groups),
                  fi |-> MapThenSumSet(LAMBDA c : Made.gd[c].nifree, Groups)]

\* The kernel extension mounts the volume and can rely on what its allocator takes for
\* granted: metadata lies in its own group and nowhere twice, a group's counter is the
\* number of its clear bits (that of inodes if they fill bytes), and statfs reports as many blocks as files can ever have.
KextAgrees ==
  Done =>
    /\ Compatible(Made.g) /\ Sbdata(Made.g) = Wanted
    /\ \A c \in Groups :
         /\ Metadata(c) \subseteq cgbase(g, c)..AtMost(cgbase(g, c + 1), g.bcount) - 1
         /\ Cardinality(Metadata(c)) = 2 + g.itpg /\ Metadata(c) \cap Copies(c) = {}
         /\ Made.gd[c].nbfree = Cardinality(0..(g.bpg - 1) \ bbm[c])
         /\ g.ipg % NBBY = 0 => Made.gd[c].nifree = Cardinality(0..(g.ipg - 1) \ ibm[c])
    /\ Fblocks(Made.g) = Made.sb.fb + Cardinality(UNION {itab[i].blks : i \in {ROOTINO, LFINO}})
                           + (IF g.resize THEN 1 ELSE 0)

\* The copies of the superblock, and what fsck finds of these and of older ones.
Own  == {(cgbase(g, c) * g.bsize) \div SectorSize : c \in DOMAIN dsb \ {0}}
Hits == Calcsb \cap (Own \cup old)
AtEnd(s)  == (s * SectorSize) + 4 * BBSIZE > g.bcount * g.bsize
Beyond(s) == s * SectorSize > U32Max

\* "Ensure there is nothing that looks like a filesystem superblock anywhere other than where
\* ours will be": of the superblocks that volumes of any block size may have left on the
\* device none is in the first 4 GiB of the new volume when newfs is done, and the boot block
\* is never touched.  The code misses one beyond these, where the number of bytes does not fit,
\* and one that is in an incomplete block of that size at the very end, or behind the volume.
\* So fsck that looks for another superblock finds no older one first, but for those; and
\* it finds one of the volume's own only if its blocks are of the smallest size.
OldGone ==
  /\ boot
  /\ Done => /\ \A s \in old : AtEnd(s) \/ Beyond(s)
             /\ Hits # {} => Min(Hits) \in Own \/ AtEnd(Min(Hits)) \/ Beyond(Min(Hits))
             /\ g.bsize = BBSIZE /\ g.ncg > 1 => Hits # {} /\ Min(Hits) \in Own
=============================================================================
