------------------------------- MODULE Ext2Fsck -------------------------------
(***************************************************************************)
(* fsck_ext2fs: setup and the five passes over a damaged file system, with *)
(* -p (preen), -y or -f -y, an interrupt between any two steps, and again  *)
(* on what a run has left.                                                 *)
(*                                                                         *)
(* A file system here is its inodes, each with at most one block, what the *)
(* blocks hold if they are read as directories ("." and ".." and some more *)
(* entries), the two bit maps with the counts that go with them, the clean *)
(* flag and the boot block.  Damage is a change of any field of it but the *)
(* rest of the superblock.  An entry has no name but whether it is         *)
(* lost+found or a second "..".  File types in entries, lengths that are   *)
(* not a multiple of a block and indirect blocks are left out.             *)
(***************************************************************************)
EXTENDS Integers, FiniteSets, FiniteSetsExt, Sequences, SequencesExt

CONSTANTS
  Modes,           \* subset of {"preen", "yes", "force"}: -p, -y, -f -y
  MaxIno,          \* maxino: inodes are 1..MaxIno
  MaxBlk,          \* maxfsblock - 1: blocks are 1..MaxBlk
  Slots,           \* entries that a directory block holds besides "." and ".."
  Trees,           \* the file systems before they were damaged
  MaxDamages,      \* bound: fields that are damaged
  MaxRuns,         \* bound: runs of fsck that end, for each number of damages
  MaxStops         \* bound: runs that are interrupted, for each number of damages

ASSUME FsckAssumption ==
  /\ Modes \subseteq {"preen", "yes", "force"}
  /\ MaxIno \in Nat /\ MaxIno > 1 /\ MaxBlk \in Nat /\ MaxBlk > 1
  /\ Slots \in Nat /\ MaxDamages \in Nat
  /\ \A n \in 0..MaxDamages : MaxRuns[n] \in Nat /\ MaxStops[n] \in Nat

ROOTINO == 1
Inos    == 1..MaxIno
Inos0   == 0..MaxIno
Meta    == 1                        \* a block of the superblock, maps and tables
Blks    == 1..MaxBlk
Bad     == MaxBlk + 1               \* a block number out of range
Room    == 1..Slots

Zino    == [mode |-> "free", nlink |-> 0, dtime |-> FALSE, size |-> 0, blk |-> 0,
            nblock |-> 0]
Dinodes == [mode : {"free", "dir", "reg", "odd"}, nlink : 0..65535,
            dtime : BOOLEAN, size : 0..1, blk : 0..Bad, nblock : 0..1]

U16(n)  == n % 65536
S16(n)  == IF n > 32767 THEN n - 65536 ELSE n

NoEnt   == [nm |-> "name", ino |-> 0]
Empty   == [ok |-> TRUE, dot |-> 0, dotdot |-> 0, e |-> [k \in Room |-> NoEnt]]
Garbage == [Empty EXCEPT !.ok = FALSE]
Dirblks == [ok : BOOLEAN, dot : Inos0, dotdot : Inos0,
            e : [Room -> [nm : {"name", "lost+found", ".."}, ino : Inos0]]]

\* boot: the boot block is as it was; ndirs: the sum of the groups' directories, which
\* stands for all their counts; fb, fi, clean: the superblock's free blocks and inodes and
\* its state.
Disks == [boot : BOOLEAN, ino : [Inos -> Dinodes], dir : [Blks -> Dirblks],
          bbm : SUBSET Blks, ibm : SUBSET Inos, ndirs : Nat, fb : Nat, fi : Nat,
          clean : BOOLEAN]

States == {"USTATE", "FSTATE", "FCLEAR", "DSTATE", "DFOUND", "DCLEAR"}

VARIABLES
  disk,      \* the file system on the disk
  w,         \* the file system in the buffers, and the tables of the run
  pc,        \* the pass
  at,        \* the inode, or the place in inpsort, that the pass is at
  mode,      \* -p, -y or -f -y
  damages,   \* fields damaged so far
  runs,      \* runs that have ended so far
  stops      \* runs interrupted so far

vars == <<disk, w, pc, at, mode, damages, runs, stops>>

(***************************************************************************)
(* The tables of a run.  ino, dir, bbm, ibm, ndirs, fb and fi: the         *)
(* buffers; sbd: sbdirty; st: statemap; ln: lncntp; bm: blockmap; dup:     *)
(* duplist, how often a block is in it; zln: the zero link counts; inp:    *)
(* inpsort; lf: lfdir; last: lastino; ret: what the last call returned;    *)
(* said: something was reported; out: how the program ended before its end.*)
(***************************************************************************)
NoRun == [out |-> "no run"]

Setup(d) ==
  [sbd |-> FALSE, ino |-> d.ino, dir |-> d.dir, bbm |-> d.bbm, ibm |-> d.ibm,
   ndirs |-> d.ndirs, fb |-> d.fb, fi |-> d.fi,
   st |-> [i \in Inos |-> "USTATE"], ln |-> [i \in Inos0 |-> 0], bm |-> {Meta},
   dup |-> [b \in Blks |-> 0], zln |-> {}, inp |-> <<>>, lf |-> 0, last |-> 0,
   rerun |-> FALSE, ret |-> 0, said |-> FALSE, out |-> "none"]

Ret(x, v)   == [x EXCEPT !.ret = v]
Out(x, how) == [x EXCEPT !.out = how]
Running(x)  == x.out = "none"

\* Mutation: with -p the answer is yes as well.
FatalYes(x) == [x EXCEPT !.said = TRUE]

\* pfatal() and reply(): with -p the program ends, with -y the answer is yes.
Fatal(x) == [x EXCEPT !.said = TRUE, !.out = IF mode = "preen" THEN "fatal" ELSE @]
FatalIf(x, cond) == IF cond THEN Fatal(x) ELSE x
\* pwarn(): what is wrong is put right, with -p too.
WarnIf(x, cond) == [x EXCEPT !.said = @ \/ cond]

Inrange(b) == b \in Blks                                             \* ! chkrange

\* cacheino() and getinoinfo(); a second one for an inode hides the first.  The hash is
\* taken modulo numdirs.
Cacheino(x, i) ==
  IF x.ndirs = 0 THEN Out(x, "crash")
  ELSE [x EXCEPT !.inp = Append(@, [i_number |-> i, i_parent |-> IF i = ROOTINO THEN i ELSE 0,
                                    i_dotdot |-> 0, i_isize |-> x.ino[i].size,
                                    blk |-> x.ino[i].blk,
                                    i_child |-> 0, i_sibling |-> 0, i_parentp |-> 0])]
Inoinfo(x, i) == LET ks == {k \in DOMAIN x.inp : x.inp[k].i_number = i} IN
                 IF ks = {} THEN 0 ELSE Max(ks)

(***************************************************************************)
(* Blocks and inodes.                                                      *)
(***************************************************************************)

\* Mutation: the block is free although another inode still claims it.
Pass4checkForgets(x, b) == IF Inrange(b) THEN [x EXCEPT !.bm = @ \ {b}] ELSE x

\* pass4check(): a block that is claimed once more stays in the map.
Pass4check(x, b) ==
  IF ~Inrange(b) \/ b \notin x.bm THEN x
  ELSE IF x.dup[b] > 0 THEN [x EXCEPT !.dup[b] = @ - 1]
  ELSE [x EXCEPT !.bm = @ \ {b}]

Freeino(x, i) ==
  LET y == IF x.ino[i].blk # 0 THEN Pass4check(x, x.ino[i].blk) ELSE x
  IN  [y EXCEPT !.ino[i] = Zino, !.st[i] = "USTATE"]

\* clri(), with -p or a yes.
Clri(x, i) == Freeino(WarnIf(x, TRUE), i)

\* allocblk(): the last block of the file system is not looked at.
Allocblk(x) == LET free == 1..(MaxBlk - 1) \ x.bm IN IF free = {} THEN 0 ELSE Min(free)

\* allocino() of a directory: the inode that it asks for, or the first unused one but
\* the last.  Without one, or without a block, ginode(0) ends the program.
Allocino(x, request) ==
  LET from == IF request = 0 THEN ROOTINO ELSE request
      ok   == {i \in from..(MaxIno - 1) : x.st[i] = "USTATE"}
      b    == Allocblk(x)
      i    == Min(ok) IN
  IF ok = {} \/ b = 0 THEN Out(x, "errexit")
  ELSE Ret([x EXCEPT !.bm = @ \cup {b}, !.st[i] = "DSTATE",
                     !.ino[i] = [@ EXCEPT !.mode = "dir", !.dtime = FALSE, !.size = 1,
                                          !.blk = b, !.nblock = 1]], i)

\* allocdir() with the inode i; its links are those that pass 4 will find right.
Newdir(x, i, parent) ==
  LET st == x.st[parent]
      y  == [x EXCEPT !.ino[i].nlink = 2,
                      !.dir[x.ino[i].blk] = [Empty EXCEPT !.dot = i, !.dotdot = parent]] IN
  IF i = ROOTINO THEN [Cacheino(y, i) EXCEPT !.ln[i] = 2]
  ELSE IF st \notin {"DSTATE", "DFOUND"} THEN Ret(Freeino(y, i), 0)
  ELSE [Cacheino(y, i) EXCEPT !.st[i] = st,
                              !.ln = IF st = "DSTATE"
                                     THEN [@ EXCEPT ![i] = 2, ![parent] = @ + 1] ELSE @,
                              !.ino[parent].nlink = @ + 1]
NewdirIn(x, parent) == IF Running(x) THEN Newdir(x, x.ret, parent) ELSE x
Allocdir(x, parent, request) == NewdirIn(Allocino(x, request), parent)

\* freedir(), of one that has another parent than itself.
Freedir(x, i, parent) == Freeino([x EXCEPT !.ino[parent].nlink = @ - 1], i)

(***************************************************************************)
(* Directories: dirscan() with mkentry(), chgino() and findino().          *)
(***************************************************************************)
Readable(x, d)  == x.ino[d].size = 1 /\ Inrange(x.ino[d].blk)
Content(x, d)   == x.dir[x.ino[d].blk]
SetDir(x, d, c) == [x EXCEPT !.dir[x.ino[d].blk] = c, !.sbd = TRUE]

\* mkentry(): the first place that is free, which for ".." may be its own.
Mkentry(c, nm, i) ==
  LET free == {k \in Room : c.e[k].ino = 0} IN
  IF nm = ".." /\ c.dotdot = 0 THEN {[c EXCEPT !.dotdot = i]}
  ELSE {[c EXCEPT !.e[k] = [nm |-> nm, ino |-> i]] : k \in {j \in free : j = Min(free)}}

\* expanddir() asks whether there is a block behind the last one, and there never is.
Expanddir(x) == Ret(x, 0)

Makeentry(x, d, i, nm) ==
  LET made == Mkentry(Content(x, d), nm, i) IN
  IF d \notin 1..(MaxIno - 1) \/ i \notin 1..(MaxIno - 1) \/ ~Readable(x, d) THEN Ret(x, 0)
  ELSE IF made = {} THEN Expanddir(x)
  ELSE Ret(SetDir(x, d, CHOOSE c \in made : TRUE), 1)

\* chgino() of the entry "..", and changeino().
Chgino(c, i) == [c EXCEPT !.dotdot = i]
Changedotdot(x, d, i) ==
  IF ~Readable(x, d) \/ Content(x, d).dotdot = 0 THEN Ret(x, 0)
  ELSE Ret(SetDir(x, d, Chgino(Content(x, d), i)), 1)

Lostfound(x) ==
  IF ~Readable(x, ROOTINO) THEN {}
  ELSE {k \in Room : Content(x, ROOTINO).e[k].nm = "lost+found" /\ Content(x, ROOTINO).e[k].ino # 0}

\* linkup(), as far as it looks for lost+found and makes it.
EnteredLf(x, i) == IF x.ret = 1 THEN [x EXCEPT !.lf = i] ELSE Freedir(x, i, ROOTINO)
EnterLf(x) == IF ~Running(x) \/ x.ret = 0 THEN x
              ELSE EnteredLf(Makeentry(x, ROOTINO, x.ret, "lost+found"), x.ret)
FindLf(x) ==
  IF x.lf # 0 THEN x
  ELSE IF Lostfound(x) # {}
       THEN [x EXCEPT !.lf = Content(x, ROOTINO).e[Min(Lostfound(x))].ino]
  ELSE EnterLf(Allocdir(x, ROOTINO, 0))

\* linkup() when it has a directory lost+found.
LinkInto(x, i) ==
  LET f == Makeentry(x, x.lf, i, "name")
      c == Changedotdot(f, i, f.lf)
      g == IF c.ret = 1 THEN c ELSE Makeentry(f, i, f.lf, "..") IN
  IF x.st[x.lf] # "DFOUND" THEN Ret(Fatal(x), 0)
  ELSE IF f.ret = 0 THEN Ret(Fatal(f), 0)
  ELSE IF x.ino[i].mode # "dir" THEN Ret([f EXCEPT !.ln[i] = @ - 1], 1)
  ELSE Ret([g EXCEPT !.ino[f.lf].nlink = @ + 1,
                     !.ln = [@ EXCEPT ![i] = @ - 1, ![f.lf] = @ + 1]], 1)

\* "lost+found IS NOT A DIRECTORY": another one takes its name, and its links are
\* adjusted as those of an inode with one link less.
ClriUnlinked(x, i) == IF ~Running(x) \/ x.ret = 1 THEN x ELSE Clri(x, i)
AdjustOld(x, old, n) ==
  IF x.ino[old].nlink = n THEN ClriUnlinked(LinkInto(x, old), old)
  ELSE [x EXCEPT !.ino[old].nlink = U16(@ - n)]
NewLf(x, old, k, n) ==
  IF ~Running(x) THEN x
  ELSE IF x.ret = 0 THEN [x EXCEPT !.lf = 0]
  ELSE [AdjustOld([x EXCEPT !.dir[x.ino[ROOTINO].blk].e[k].ino = x.ret, !.sbd = TRUE,
                            !.lf = x.ret], old, n) EXCEPT !.ln[old] = 0]
ReplaceLf(x) ==
  NewLf(Allocdir(Fatal(x), ROOTINO, 0), x.lf,
        Min({j \in Lostfound(x) : Content(x, ROOTINO).e[j].ino = x.lf}), x.ln[x.lf] + 1)

\* linkup(): an orphan gets an entry in lost+found.
LfIsDir(x) == IF Running(x) /\ x.lf # 0 /\ x.ino[x.lf].mode # "dir" THEN ReplaceLf(x) ELSE x
LinkIntoLf(x, i) == IF ~Running(x) THEN x
                    ELSE IF x.lf = 0 THEN Ret(Fatal(x), 0) ELSE LinkInto(x, i)
Linkup(x, i) ==
  IF mode = "preen" /\ x.ino[i].size = 0 THEN Ret(WarnIf(x, TRUE), 0)
  ELSE LinkIntoLf(LfIsDir(FindLf(WarnIf(x, TRUE))), i)

(***************************************************************************)
(* Pass 1: checkinode() with pass1check(), pass 1b.                        *)
(***************************************************************************)
Deleted(n) == n.mode = "free" \/ (n.dtime /\ n.nlink = 0)
Clearing(s) == CASE s = "FSTATE" -> "FCLEAR" [] s = "DSTATE" -> "DCLEAR" [] OTHER -> s

Pass1check(x, i, b) ==
  IF ~Inrange(b) THEN Fatal([x EXCEPT !.st[i] = Clearing(@)])
  ELSE IF b \notin x.bm THEN [x EXCEPT !.bm = @ \cup {b}]
  ELSE Fatal([x EXCEPT !.st[i] = Clearing(@), !.dup[b] = @ + 1])

Checkinode(x, i) ==
  LET n   == x.ino[i]
      dir == n.mode = "dir"
      y   == WarnIf([x EXCEPT !.last = i, !.ino[i].dtime = FALSE], n.dtime)
      z   == [y EXCEPT !.ln[i] = S16(n.nlink),
                       !.zln = IF n.nlink = 0 THEN @ \cup {i} ELSE @,
                       !.st[i] = IF ~dir THEN "FSTATE"
                                 ELSE IF n.size = 0 THEN "DCLEAR" ELSE "DSTATE"]
      c   == IF dir THEN Cacheino(z, i) ELSE z
      b   == IF n.blk = 0 THEN c ELSE Pass1check(c, i, n.blk)
      nb  == IF n.blk = 0 THEN 0 ELSE 1 IN
  IF ~Running(x) THEN x
  ELSE IF Deleted(n)
       THEN IF n.mode = "free" /\ (n.blk # 0 \/ n.size # 0)
            THEN Fatal([x EXCEPT !.ino[i] = Zino]) ELSE x
  ELSE IF n.mode = "odd" \/ (n.size = 0 /\ n.blk # 0)
       THEN Fatal([y EXCEPT !.ino[i] = Zino])                        \* UNKNOWN FILE TYPE
  ELSE WarnIf([b EXCEPT !.ino[i].nblock = nb], n.nblock # nb)

\* The first inode that claims a block of duplist; the last inode is not looked at.
Pass1bcheck(x) ==
  LET dups     == {b \in Blks : x.dup[b] > 0}
      users(b) == {i \in 1..(MaxIno - 1) : x.st[i] # "USTATE" /\ x.ino[i].blk = b}
      first    == {Min(users(b)) : b \in {c \in dups : users(c) # {}}} IN
  FatalIf([x EXCEPT !.st = [i \in Inos |-> IF i \in first THEN Clearing(@[i]) ELSE @[i]]],
          dups # {})

(***************************************************************************)
(* Pass 2: the root, pass2check() for every entry of every directory, and  *)
(* the values of "..".                                                     *)
(***************************************************************************)
Rootcheck(x) ==
  CASE x.st[ROOTINO] = "DSTATE" -> x
    [] x.st[ROOTINO] = "USTATE" -> Allocdir(Fatal(x), ROOTINO, ROOTINO)
    [] OTHER                    -> Allocdir(Freeino(Fatal(x), ROOTINO), ROOTINO, ROOTINO)

\* qsort() with blksort(): an empty directory has no first block, and what stands there
\* is any number.
Sorted(s) == \A j, k \in DOMAIN s : j < k /\ s[j].i_isize # 0 /\ s[k].i_isize # 0
                                       => s[j].blk <= s[k].blk
Permuted(s) == {[k \in DOMAIN s |-> s[f[k]]] : f \in {g \in [DOMAIN s -> DOMAIN s] :
                                                       Cardinality({g[k] : k \in DOMAIN s}) = Len(s)}}

Counted(x, i) == IF x.st[i] \in {"DSTATE", "DFOUND", "FSTATE"}
                 THEN [x EXCEPT !.ln[i] = @ - 1] ELSE x

\* Mutation: the inode number in "." is not compared.
DotcheckName(x, d, b) ==
  IF x.dir[b].ok THEN Counted(x, d)
  ELSE Fatal([x EXCEPT !.dir[b] = [Empty EXCEPT !.dot = d], !.sbd = TRUE, !.ln[d] = @ - 1])

\* "." and "..", for the block b of the directory d.  A block that is no directory is
\* emptied, and then "." is counted whatever the state is.
Dotcheck(x, d, b) ==
  LET c == x.dir[b]
      y == FatalIf([x EXCEPT !.dir[b].dot = d, !.sbd = @ \/ c.dot # d], c.dot # d) IN
  IF c.ok THEN Counted(y, d)
  ELSE Fatal([x EXCEPT !.dir[b] = [Empty EXCEPT !.dot = d], !.sbd = TRUE, !.ln[d] = @ - 1])

Dotdotcheck(x, d, b) ==
  LET k      == Inoinfo(x, d)
      parent == x.inp[k].i_parent
      dd     == x.dir[b].dotdot IN
  IF dd # 0 THEN Counted([x EXCEPT !.inp[k].i_dotdot = dd], dd)
  ELSE IF parent = 0 THEN x
  ELSE Fatal([x EXCEPT !.inp[k].i_dotdot = parent, !.dir[b].dotdot = parent, !.sbd = TRUE,
                       !.ln[parent] = @ - 1])

Entrycheck(x, d, b, s) ==
  LET e == x.dir[b].e[s]
      i == e.ino
      k == Inoinfo(x, i)
      removed == [x EXCEPT !.dir[b].e[s] = NoEnt, !.sbd = TRUE]
      kept    == [x EXCEPT !.ln[i] = @ - 1] IN
  IF i = 0 THEN x
  ELSE IF e.nm = ".." THEN Fatal(removed)                            \* EXTRA '..' ENTRY
  ELSE CASE x.st[i] \in {"USTATE", "FCLEAR"} -> Fatal(removed)
         [] x.st[i] = "DCLEAR" -> WarnIf(removed, mode # "preen")
         [] x.st[i] = "FSTATE" -> kept
         [] OTHER -> IF x.inp[k].i_parent # 0 /\ mode # "preen" THEN WarnIf(removed, TRUE)
                     ELSE WarnIf([kept EXCEPT !.inp[k].i_parent = d], x.inp[k].i_parent # 0)

Dircheck(x, k) ==
  LET p  == x.inp[k]
      d  == p.i_number
      y  == Dotdotcheck(Dotcheck(x, d, p.blk), d, p.blk) IN
  IF ~Running(x) \/ p.i_isize = 0 THEN x
  ELSE IF p.blk = 0 THEN Fatal([x EXCEPT !.ino[d].size = 0, !.rerun = TRUE])
  ELSE IF ~Inrange(p.blk) THEN x
  ELSE FoldLeft(LAMBDA a, s : Entrycheck(a, d, p.blk, s), y, [s \in Room |-> s])

\* Mutation: ".." is counted as if it had been changed, and is not.
ParentcheckKeeps(x, k) ==
  LET p == x.inp[k] IN
  IF p.i_parent = 0 \/ p.i_isize = 0 \/ p.i_dotdot \in {0, p.i_parent} THEN x
  ELSE Fatal([x EXCEPT !.ln = [@ EXCEPT ![p.i_parent] = @ - 1, ![p.i_dotdot] = @ + 1]])

Parentcheck(x, k) ==
  LET p == x.inp[k]
      y == [x EXCEPT !.inp[k].i_dotdot = p.i_parent, !.ln[p.i_parent] = @ - 1] IN
  IF p.i_parent = 0 \/ p.i_isize = 0 \/ p.i_dotdot = p.i_parent THEN x
  ELSE IF p.i_dotdot = 0 THEN Fatal(Makeentry(y, p.i_number, p.i_parent, ".."))
  ELSE Fatal(Changedotdot([y EXCEPT !.ln[p.i_dotdot] = @ + 1], p.i_number, p.i_parent))

(***************************************************************************)
(* propagate(): the lists of children are linked again in every call, and  *)
(* then walked; a list that leads back to itself has no end.               *)
(***************************************************************************)
Linkchild(x, k) ==
  LET p == x.inp[k]
      q == Inoinfo(x, p.i_parent)
      y == [x EXCEPT !.inp[k].i_parentp = q, !.inp[k].i_sibling = x.inp[q].i_child] IN
  IF p.i_parent = 0 \/ p.i_number = ROOTINO THEN x
  ELSE IF q = 0 THEN Out(x, "errexit")
  ELSE [y EXCEPT !.inp[q].i_child = k]

RECURSIVE Walk(_, _, _)
\* Mutation: the children of a directory that has been found are walked again.
WalkAgain(x, k, fuel) ==
  LET y == [x EXCEPT !.st[x.inp[k].i_number] = "DFOUND"]
      p == x.inp[k] IN
  IF k = 0 THEN x
  ELSE IF fuel = 0 THEN Out(x, "hang")
  ELSE Walk(y, IF p.i_child # 0 THEN p.i_child
               ELSE IF p.i_sibling # 0 THEN p.i_sibling ELSE p.i_parentp, fuel - 1)

Walk(x, k, fuel) ==
  LET y == [x EXCEPT !.st[x.inp[k].i_number] = "DFOUND"]
      p == x.inp[k] IN
  IF k = 0 THEN x
  ELSE IF fuel = 0 THEN Out(x, "hang")
  ELSE Walk(y, IF p.i_child # 0 /\ y.st[y.inp[p.i_child].i_number] = "DSTATE" THEN p.i_child
               ELSE IF p.i_sibling # 0 THEN p.i_sibling ELSE p.i_parentp, fuel - 1)

Propagate(x) ==
  LET y == FoldLeft(Linkchild, x, [k \in DOMAIN x.inp |-> k]) IN
  IF ~Running(y) THEN y ELSE Walk(y, Inoinfo(y, ROOTINO), 4 * Len(x.inp) + 4)

(***************************************************************************)
(* Passes 3, 4 and 5.                                                      *)
(***************************************************************************)
RECURSIVE Climb(_, _, _)
Climb(x, k, loopcnt) ==
  LET p == x.inp[k] IN
  IF p.i_parent = 0 \/ loopcnt > x.ndirs THEN k
  ELSE IF x.st[p.i_parent] # "DSTATE" THEN k
  ELSE Climb(x, Inoinfo(x, p.i_parent), loopcnt + 1)

\* What linkup() returns is not looked at.
Reconnected(x, j) ==
  IF ~Running(x) THEN x
  ELSE Propagate([x EXCEPT !.inp[j].i_parent = x.lf, !.inp[j].i_dotdot = x.lf,
                           !.ln[x.lf] = @ - 1, !.st[x.inp[j].i_number] = "DFOUND"])
Reconnect(x, k) ==
  LET i == x.inp[k].i_number
      j == Climb(x, k, 0) IN
  IF i = ROOTINO \/ x.st[i] = "DCLEAR" \/ (x.inp[k].i_parent # 0 /\ x.st[i] # "DSTATE") THEN x
  ELSE Reconnected(Linkup(x, x.inp[j].i_number), j)

Adjust(x, i, lcnt) ==
  IF x.ino[i].nlink # lcnt
  THEN FatalIf(WarnIf([x EXCEPT !.ino[i].nlink = U16(@ - lcnt)], TRUE), lcnt < 0)
  ELSE ClriUnlinked(Linkup(x, i), i)

Refcheck(x, i) ==
  CASE x.st[i] \in {"FSTATE", "DFOUND"} ->
         IF x.ln[i] # 0 THEN Adjust(x, i, x.ln[i])
         ELSE IF i \in x.zln THEN Clri([x EXCEPT !.zln = @ \ {i}], i) ELSE x
    [] x.st[i] \in {"DSTATE", "DCLEAR", "FCLEAR"} -> Clri(x, i)
    [] OTHER -> x

Used(x) == {i \in Inos : x.st[i] # "USTATE"}
Summary(x) ==
  LET nd == Cardinality({i \in Inos : x.st[i] \in {"DSTATE", "DCLEAR", "DFOUND"}})
      nb == Cardinality(Blks \ x.bm)
      ni == Cardinality(Inos \ Used(x)) IN
  WarnIf([x EXCEPT !.bbm = x.bm, !.ibm = Used(x), !.ndirs = nd, !.fb = nb, !.fi = ni,
                   !.sbd = @ \/ nd # x.ndirs \/ nb # x.fb \/ ni # x.fi],
         x.bbm # x.bm \/ x.ibm # Used(x) \/ nd # x.ndirs \/ nb # x.fb \/ ni # x.fi)

\* flush() of the superblock's buffer and, after it, the descriptors.  The buffer is taken
\* to belong at super / DEV_BSIZE, which is 0.
Flush(d) == [d EXCEPT !.boot = FALSE, !.ndirs = w.ndirs]

\* ckfini(): only without -p is the superblock then written to its own place.
Ckfini(markclean) ==
  LET mark == markclean /\ ~disk.clean
      bufs == [disk EXCEPT !.ino = w.ino, !.dir = w.dir, !.bbm = w.bbm, !.ibm = w.ibm]
      d    == IF w.sbd THEN Flush(bufs) ELSE bufs IN
  IF mode = "preen" THEN IF mark THEN Flush(d) ELSE d
  ELSE [d EXCEPT !.ndirs = w.ndirs, !.fb = w.fb, !.fi = w.fi, !.clean = @ \/ mark]

(***************************************************************************)
(* Actions.                                                                *)
(***************************************************************************)
Init ==
  /\ disk \in Trees
  /\ w = NoRun /\ pc = "idle" /\ at = 0 /\ mode = "none"
  /\ damages = 0 /\ runs = 0 /\ stops = 0

\* A field of the disk has another value than it should.
DamagedInode(d) ==
  {[d EXCEPT !.ino[i].mode = m]   : i \in Inos, m \in {"free", "dir", "reg", "odd"}}
    \cup {[d EXCEPT !.ino[i].nlink = n]  : i \in Inos, n \in 0..3}
    \cup {[d EXCEPT !.ino[i].dtime = ~@] : i \in Inos}
    \cup {[d EXCEPT !.ino[i].size = 1 - @] : i \in Inos}
    \cup {[d EXCEPT !.ino[i].nblock = 1 - @] : i \in Inos}
    \cup {[d EXCEPT !.ino[i].blk = b] : i \in Inos, b \in 0..Bad}
DamagedDir(d) ==
  LET used == {d.ino[i].blk : i \in {j \in Inos : d.ino[j].mode = "dir"}} \cap Blks IN
  {[d EXCEPT !.dir[b] = Garbage] : b \in used}
    \cup {[d EXCEPT !.dir[b].dot = i] : b \in used, i \in Inos0}
    \cup {[d EXCEPT !.dir[b].dotdot = i] : b \in used, i \in Inos0}
    \cup {[d EXCEPT !.dir[b].e[k] = [@ EXCEPT !.ino = i]] : b \in used, k \in Room, i \in Inos0}
DamagedMaps(d) ==
  {[d EXCEPT !.bbm = SymDiff(@, {b})] : b \in Blks}
    \cup {[d EXCEPT !.ibm = SymDiff(@, {i})] : i \in Inos}
    \cup {[d EXCEPT !.ndirs = n] : n \in 0..2}
    \cup {[d EXCEPT !.fb = @ + 1], [d EXCEPT !.fi = @ + 1], [d EXCEPT !.clean = ~@]}

Damage ==
  /\ pc = "idle" /\ runs = 0 /\ stops = 0 /\ damages < MaxDamages
  /\ \E d \in DamagedInode(disk) \cup DamagedDir(disk) \cup DamagedMaps(disk) :
       d # disk /\ disk' = d
  /\ damages' = damages + 1
  /\ UNCHANGED <<w, pc, at, mode, runs, stops>>

\* setup(): a clean file system is not looked at unless -f is given.
Start ==
  /\ pc = "idle" /\ runs < MaxRuns[damages]
  /\ mode' \in {m \in Modes : m = "force" \/ ~disk.clean}
  /\ w' = Setup(disk) /\ pc' = "pass1" /\ at' = 1
  /\ UNCHANGED <<disk, damages, runs, stops>>

\* The pass goes on with x, to its next item or to the next pass; or the program ends.
Go(x, nextpc, nextat) ==
  /\ w' = x
  /\ pc' = (IF Running(x) THEN nextpc ELSE "stopped") /\ at' = nextat
  /\ UNCHANGED <<disk, mode, damages, runs, stops>>

Items(s) == [k \in DOMAIN s |-> k]

Pass1 ==
  /\ pc = "pass1"
  /\ LET x == FoldLeft(Checkinode, w, [i \in Inos |-> i]) IN
     Go(x, IF \E b \in Blks : x.dup[b] > 0 THEN "pass1b" ELSE "root", 0)

Pass1b == pc = "pass1b" /\ Go(Pass1bcheck(w), "root", 0)

Pass2root ==
  /\ pc = "root"
  /\ LET x == Rootcheck(w) IN
     \E s \in Permuted(x.inp) : Sorted(s) /\ Go([x EXCEPT !.inp = s], "pass2", 1)

Pass2 ==
  /\ pc = "pass2"
  /\ Go(Dircheck(w, at), IF at = Len(w.inp) THEN "dotdot" ELSE "pass2", at + 1)

Pass2dotdot ==
  /\ pc = "dotdot"
  /\ LET x == FoldLeft(Parentcheck, w, Items(w.inp)) IN
     Go(IF Running(x) THEN Propagate(x) ELSE x, "pass3", Len(w.inp))

Pass3 ==
  /\ pc = "pass3"
  /\ Go(Reconnect(w, at), IF at = 1 THEN "pass4" ELSE "pass3", IF at = 1 THEN ROOTINO ELSE at - 1)

Pass4 ==
  /\ pc = "pass4"
  /\ Go(Refcheck(w, at), IF at >= w.last THEN "pass5" ELSE "pass4", at + 1)

Pass5 == pc = "pass5" /\ Go(Summary(w), "fini", 0)

Fini ==
  /\ pc = "fini"
  /\ disk' = Ckfini(TRUE) /\ runs' = runs + 1
  /\ pc' = "idle" /\ w' = NoRun
  /\ UNCHANGED <<at, mode, damages, stops>>

\* catch(): SIGINT.
Interrupt ==
  /\ pc \notin {"idle", "stopped"} /\ stops < MaxStops[damages]
  /\ disk' = Ckfini(FALSE) /\ stops' = stops + 1
  /\ pc' = "idle" /\ w' = NoRun
  /\ UNCHANGED <<at, mode, damages, runs>>

Next ==
  \/ Damage \/ Start \/ Pass1 \/ Pass1b \/ Pass2root \/ Pass2 \/ Pass2dotdot
  \/ Pass3 \/ Pass4 \/ Pass5 \/ Fini \/ Interrupt

Spec == Init /\ [][Next]_vars

(***************************************************************************)
(* What a file system should be.                                           *)
(***************************************************************************)
Alloc(d) == {i \in Inos : ~Deleted(d.ino[i])}
Dirs(d)  == {i \in Alloc(d) : d.ino[i].mode = "dir"}
Block(d, i) == d.dir[d.ino[i].blk]
Readdirs(d) == {i \in Dirs(d) : d.ino[i].size = 1 /\ Inrange(d.ino[i].blk)}
\* The directories and places that name i.
Names(d, i) == {p \in Readdirs(d) \X Room : Block(d, p[1]).e[p[2]].ino = i}

RECURSIVE Reach(_, _)
Reach(d, found) ==
  LET more == {i \in Alloc(d) \ found : \E p \in Names(d, i) : p[1] \in found} IN
  IF more = {} THEN found ELSE Reach(d, found \cup more)
Reachable(d) == IF ROOTINO \in Dirs(d) THEN Reach(d, {ROOTINO}) ELSE {}

\* Every block has one owner at most, and the maps and totals say what is in use.
BlocksExact(d) ==
  /\ \A i \in Alloc(d) : d.ino[i].blk \in {0} \cup (Blks \ {Meta})
  /\ \A i, j \in Alloc(d) : d.ino[i].blk = d.ino[j].blk /\ d.ino[i].blk # 0 => i = j
  /\ d.bbm = {Meta} \cup ({d.ino[i].blk : i \in Alloc(d)} \ {0})
  /\ d.ibm = Alloc(d)
  /\ d.ndirs = Cardinality(Dirs(d))

TotalsExact(d) == d.fb = Cardinality(Blks \ d.bbm) /\ d.fi = Cardinality(Inos \ d.ibm)

InodesExact(d) ==
  /\ \A i \in Inos : LET n == d.ino[i] IN
       /\ n.mode = "free" => n.blk = 0 /\ n.size = 0
       /\ ~Deleted(n) => n.mode # "odd" /\ ~n.dtime /\ (n.size = 0 => n.blk = 0)
                          /\ n.nblock = IF n.blk = 0 THEN 0 ELSE 1
  /\ ROOTINO \in Dirs(d)
  /\ Dirs(d) = Readdirs(d)

TreeExact(d) ==
  /\ \A i \in Dirs(d) : Block(d, i).ok /\ Block(d, i).dot = i
       /\ \A k \in Room : Block(d, i).e[k].ino # 0 =>
            Block(d, i).e[k].nm # ".." /\ Block(d, i).e[k].ino \in Alloc(d)
  /\ Block(d, ROOTINO).dotdot = ROOTINO /\ Names(d, ROOTINO) = {}
  /\ \A i \in Dirs(d) \ {ROOTINO} :
       \E p \in Names(d, i) : Names(d, i) = {p} /\ Block(d, i).dotdot = p[1]
  /\ Alloc(d) = Reachable(d)

LinksExact(d) ==
  \A i \in Alloc(d) :
    d.ino[i].nlink = Cardinality(Names(d, i)) + Cardinality({j \in Dirs(d) : Block(d, j).dot = i})
                       + Cardinality({j \in Dirs(d) : Block(d, j).dotdot = i})

Consistent(d) == /\ InodesExact(d) /\ BlocksExact(d) /\ TotalsExact(d)
                 /\ TreeExact(d) /\ LinksExact(d)

(***************************************************************************)
(* Properties.                                                             *)
(***************************************************************************)
\* The types of the file system on disk and in the buffers and of the tables: a link count
\* fits its 16 bits, and no block or inode out of range gets into a map.
TypeOK ==
  /\ disk \in Disks
  /\ w # NoRun => /\ w.ino \in [Inos -> Dinodes] /\ w.dir \in [Blks -> Dirblks]
                  /\ w.st \in [Inos -> States] /\ w.bm \subseteq Blks

\* propagate() starts over from the root for every orphan, on lists of children that it
\* links anew each time and never empties; all the same its walk comes to an end, and types hold.
WalkEnds == TypeOK /\ w.out # "hang"

Completes == pc = "fini" /\ pc' = "idle" /\ stops' = stops

\* A run that comes to its end leaves every block with one owner and bit maps and group
\* counters that say what is in use, whatever was damaged: the block map of pass 1, with
\* what passes 1b to 4 take out of it and put in, is right when pass 5 writes it.
BlocksRepaired == [][Completes => BlocksExact(disk')]_vars

\* fsck says that nothing is wrong exactly if nothing is: what the five passes look at
\* together is all that makes a file system consistent, and they raise no false alarm.
QuietIffConsistent == [][Completes => (~w.said <=> Consistent(disk))]_vars

\* Whichever single field is damaged, three runs with -f -y make the file system
\* consistent again; one is not always enough, since a repair of a later pass can undo
\* what an earlier one relied on.
OneDamageRepaired == runs = MaxRuns[damages] /\ damages <= 1 /\ stops = 0 /\ mode # "preen"
                       => Consistent(disk)

\* With -p, which asks nobody, no file that has data and can be reached from the root is
\* freed or loses its block, also when the run is interrupted or gives up.
Files(d) == {i \in Reachable(d) : d.ino[i].mode = "reg" /\ d.ino[i].size = 1}
PreenKeepsFiles ==
  [][disk' # disk /\ mode = "preen" => \A i \in Files(disk) :
       i \in Alloc(disk') /\ disk'.ino[i].blk = disk.ino[i].blk]_vars

\* "Orphaned files and directories (allocated but unreferenced) are reconnected by placing
\* them in the lost+found directory": a directory that could be read and not be reached can
\* be reached after the run, if root and lost+found are sound.
Orphans(d) == {i \in Readdirs(d) \ Reachable(d) : Block(d, i).ok}
LfSound(d) == /\ ROOTINO \in Readdirs(d) /\ Block(d, ROOTINO).ok
              /\ \E k \in Room : LET e == Block(d, ROOTINO).e[k] IN
                   /\ e.nm = "lost+found" /\ e.ino \in Readdirs(d)
                   /\ Block(d, e.ino).ok /\ \A j \in Room : Block(d, e.ino).e[j].ino = 0
OrphansReconnected ==
  [][Completes /\ LfSound(disk) => Orphans(disk) \subseteq Reachable(disk')]_vars
=============================================================================
