--------------------------- MODULE Ext2TreeProofs ---------------------------
(***************************************************************************)
(* The directories of Ext2Vnops are a tree: every one that has a name is   *)
(* below the root, for any number of inodes and names and however often    *)
(* directories are moved into each other.                                  *)
(*                                                                         *)
(* Above(d), what ext2_checkpath() walks through, is a recursive function; *)
(* AboveFacts says what it computes: the least set with d in it that ".."  *)
(* does not lead out of.  From there on the argument is about sets.  That  *)
(* no directories form a loop is that a set of them out of which ".."      *)
(* does not lead has the root in it (Loopless), and a rename cannot make   *)
(* a loop because the directory moved is not in the set that the check     *)
(* went through (Apart).                                                   *)
(***************************************************************************)
EXTENDS Ext2VnopsProofs, BoundedInduction

(***************************************************************************)
(* Above.                                                                  *)
(***************************************************************************)

\* ".." does not lead out of S.
Closed(S) == \A x \in S : dotdot[x] \in S \cup {NoIno}

\* A step up from a set of directories.
StepUp(S) == S \cup ({dotdot[e] : e \in S} \ {NoIno})

\* The function that Above is defined by meets its equation.
LEMMA AboveDef ==
  ASSUME TypeOK, NEW d \in Inos
  PROVE  \E u : /\ u[0] = {d} /\ \A k \in 1..Cardinality(Inos) : u[k] = StepUp(u[k - 1])
                /\ Above(d) = u[Cardinality(Inos)]
<1> DEFINE N == Cardinality(Inos)
           F == [S \in SUBSET Inos |-> StepUp(S)]
           Eq(u) == u = [k \in 0..N |-> IF k = 0 THEN {d}
                                        ELSE u[k - 1] \cup ({dotdot[e] : e \in u[k - 1]} \ {NoIno})]
<1>1. N \in Nat
  BY VnopsAssumption, FS_CardinalityType
<1>2. F \in [SUBSET Inos -> SUBSET Inos]
  BY DEF StepUp, TypeOK
<1>3. \E u : Eq(u)
  <2> HIDE DEF N
  <2>1. PICK u \in [0..N -> SUBSET Inos] : u[0] = {d} /\ \A k \in 1..N : u[k] = F[u[k - 1]]
    <3> DEFINE X == SUBSET Inos
               a == {d}
    <3>1. a \in X /\ F \in [X -> X]
      BY <1>2
    <3> HIDE DEF F, X, a
    <3>2. \E u : Iterate(u, X, F, a, N)
      BY <1>1, <3>1, Iterates
    <3>3. QED BY <3>2 DEF X, a, Iterate
  <2>2. ASSUME NEW k \in 1..N
        PROVE  u[k] = u[k - 1] \cup ({dotdot[e] : e \in u[k - 1]} \ {NoIno})
    <3>1. u[k - 1] \in SUBSET Inos
      BY <1>1, <2>1
    <3>2. F[u[k - 1]] = StepUp(u[k - 1])
      BY <3>1
    <3>3. QED BY <2>1, <3>2 DEF StepUp
  <2>3. Eq(u)
    BY <2>1, <2>2, <1>1
  <2>4. QED BY <2>3
<1> DEFINE w == CHOOSE u : Eq(u)
<1>4. Eq(w)
  BY <1>3
<1>5. Above(d) = w[N]
  BY DEF Above
<1> HIDE DEF N, w
<1>6. w[0] = {d} /\ \A k \in 1..N : w[k] = StepUp(w[k - 1])
  BY <1>1, <1>4 DEF StepUp
<1>7. QED BY <1>5, <1>6 DEF N

\* Above(d) is the least set with d in it out of which ".." does not lead: each step adds a
\* directory or has come to the end, and there are no more steps to come than inodes.
LEMMA AboveFacts ==
  ASSUME TypeOK, NEW d \in Inos
  PROVE  /\ d \in Above(d) /\ Above(d) \subseteq Inos /\ Closed(Above(d))
         /\ \A S : d \in S /\ Closed(S) => Above(d) \subseteq S
<1> DEFINE N == Cardinality(Inos)
<1>1. N \in Nat
  BY VnopsAssumption, FS_CardinalityType
<1>2. PICK u : /\ u[0] = {d} /\ \A k \in 1..N : u[k] = StepUp(u[k - 1])
               /\ Above(d) = u[N]
  BY AboveDef
<1> DEFINE P(k) == /\ d \in u[k] /\ u[k] \subseteq Inos
                   /\ Closed(u[k]) \/ Cardinality(u[k]) > k
                   /\ \A S : d \in S /\ Closed(S) => u[k] \subseteq S
           T == {k \in 0..N : P(k)}
<1> HIDE DEF N
<1>3. P(0)
  <2>1. Cardinality({d}) = 1
    BY FS_Singleton
  <2>2. Cardinality(u[0]) > 0
    BY <1>2, <2>1
  <2>3. QED BY <1>2, <2>2
<1>4. ASSUME NEW k \in 1..N, P(k - 1) PROVE P(k)
  <2> DEFINE U == u[k - 1]
             V == u[k]
  <2>0. V = StepUp(U)
    BY <1>2
  <2>1. d \in V /\ V \subseteq Inos /\ U \subseteq V
    BY <1>4, <2>0 DEF StepUp, TypeOK
  <2>2. ASSUME NEW S, d \in S, Closed(S) PROVE V \subseteq S
    <3>1. U \subseteq S
      BY <1>4, <2>2
    <3>2. QED BY <2>0, <2>2, <3>1 DEF StepUp, Closed
  <2>3. CASE Closed(U)
    <3>1. V = U
      BY <2>0, <2>3 DEF StepUp, Closed
    <3>2. QED BY <2>1, <2>2, <2>3, <3>1
  <2>4. CASE ~Closed(U)
    <3>1. U # V
      BY <2>0, <2>4 DEF StepUp, Closed
    <3>2. IsFiniteSet(V) /\ IsFiniteSet(U)
      BY <2>1, VnopsAssumption, FS_Subset
    <3>3. Cardinality(U) < Cardinality(V)
      BY <2>1, <3>1, <3>2, FS_Subset, FS_CardinalityType
    <3>4. Cardinality(U) > k - 1
      BY <1>4, <2>4
    <3>5. Cardinality(U) \in Nat /\ Cardinality(V) \in Nat
      BY <3>2, FS_CardinalityType
    <3>6. Cardinality(V) > k
      <4> DEFINE p == Cardinality(U)
                 q == Cardinality(V)
      <4> HIDE DEF p, q
      <4>1. p \in Nat /\ q \in Nat /\ p < q /\ p > k - 1
        BY <3>3, <3>4, <3>5 DEF p, q
      <4>2. q > k
        BY <1>1, <4>1
      <4>3. QED BY <4>2 DEF q
    <3>7. QED BY <2>1, <2>2, <3>6
  <2>5. QED BY <2>3, <2>4
<1>5. P(N)
  <2> HIDE DEF P
  <2>1. 0 \in T
    BY <1>1, <1>3
  <2>2. \A k \in 1..N : k - 1 \in T => k \in T
    BY <1>1, <1>4
  <2> HIDE DEF T
  <2>3. 0..N \subseteq T
    BY <1>1, <2>1, <2>2, InductTo
  <2>4. QED BY <1>1, <2>3 DEF T
<1>6. Closed(u[N])
  <2>1. Cardinality(u[N]) <= N
    BY <1>5, VnopsAssumption, FS_Subset DEF N
  <2>2. IsFiniteSet(u[N])
    BY <1>5, VnopsAssumption, FS_Subset
  <2>3. Cardinality(u[N]) \in Nat
    BY <2>2, FS_CardinalityType
  <2>4. QED BY <1>1, <1>5, <2>1, <2>3
<1>7. QED BY <1>2, <1>5, <1>6

(***************************************************************************)
(* The invariant.                                                          *)
(***************************************************************************)

\* Directories out of which ".." does not lead have the root among them: there is no loop.
Loopless == \A S \in SUBSET Inos :
              S # {} /\ (\A x \in S : Alive(x) /\ dotdot[x] \in S) => Root \in S

\* A directory has a "..", but for one that is being made, and it names a directory.
Rooted == \A x \in Inos : Alive(x) => dotdot[x] \in Inos \/ (call.op = "mkdir" /\ call.ip = x)
UpDir  == \A x \in Inos : Alive(x) /\ dotdot[x] # NoIno => core[dotdot[x]].mode = "dir"

\* What ext2_checkpath() has seen and ext2_rename() relies on: the directory that is moved is
\* not above the one it is moved into.
Moving == /\ call.op = "rename" /\ Doingdirectory /\ Newparent
          /\ call.pc \in {"target", "enter", "oldparent", "dotdot"}
Apart  == Moving => \E U \in SUBSET Inos : call.td \in U /\ call.ip \notin U /\ Closed(U)

UpInv == ~stray => Loopless /\ Rooted /\ UpDir /\ Apart

\* The directory that ".." names is not removed.
LEMMA ParentAlive ==
  ASSUME TypeOK, TreeInv, UpDir, NEW x \in Inos, Alive(x), dotdot[x] # NoIno
  PROVE  dotdot[x] \in Inos /\ Alive(dotdot[x])
<1> DEFINE p == dotdot[x]
<1>1. p \in Inos /\ core[p].mode = "dir"
  BY DEF TypeOK, UpDir
<1>2. CASE x = Root
  BY <1>2 DEF TreeInv, RootInv, Alive
<1>3. CASE x # Root
  <2>1. Child(x, p)
    BY <1>3 DEF Child
  <2>2. x \in Children(p)
    BY <2>1, RefSets
  <2>3. Counted(p)
    BY <1>1 DEF TreeInv
  <2>4. core[p].nlink > 0
    BY <2>2, <2>3 DEF Counted
  <2>5. QED BY <1>1, <2>4 DEF Alive
<1>4. QED BY <1>2, <1>3

\* A step that gives no directory another "..", and takes none from one that stays, makes no
\* loop.
LEMMA QuietTree ==
  ASSUME TypeOK, TypeOK', TreeInv, Loopless, Rooted, UpDir,
         \A x \in Inos : Alive(x)' => Alive(x) /\ dotdot'[x] = dotdot[x],
         \A x \in Inos : Alive(x) => core'[x].mode = "dir",
         \A x \in Inos : Alive(x)' /\ call.op = "mkdir" /\ call.ip = x =>
                           dotdot[x] # NoIno \/ (call'.op = "mkdir" /\ call'.ip = x)
  PROVE  Loopless' /\ Rooted' /\ UpDir'
<1>1. Loopless'
  <2> SUFFICES ASSUME NEW S \in SUBSET Inos, S # {}, \A x \in S : Alive(x)' /\ dotdot'[x] \in S
               PROVE  Root \in S
    BY DEF Loopless
  <2>1. \A x \in S : Alive(x) /\ dotdot[x] \in S
    OBVIOUS
  <2>2. QED BY <2>1 DEF Loopless
<1>2. Rooted'
  <2> SUFFICES ASSUME NEW x \in Inos, Alive(x)'
               PROVE  dotdot'[x] \in Inos \/ (call'.op = "mkdir" /\ call'.ip = x)
    BY DEF Rooted
  <2>1. Alive(x) /\ dotdot'[x] = dotdot[x] /\ dotdot[x] \in Inos \cup {NoIno}
    BY DEF TypeOK
  <2>2. QED BY <2>1 DEF Rooted
<1>3. UpDir'
  <2> SUFFICES ASSUME NEW x \in Inos, Alive(x)', dotdot'[x] # NoIno
               PROVE  core'[dotdot'[x]].mode = "dir"
    BY DEF UpDir
  <2>1. Alive(x) /\ dotdot'[x] = dotdot[x]
    OBVIOUS
  <2>2. dotdot[x] \in Inos /\ Alive(dotdot[x])
    BY <2>1, ParentAlive
  <2>3. QED BY <2>1, <2>2
<1>4. QED BY <1>1, <1>2, <1>3

\* What the check has seen stays so as long as no ".." changes, but for those that go.
LEMMA ApartSame ==
  ASSUME TypeOK, Apart, Moving' => Moving /\ call'.td = call.td /\ call'.ip = call.ip,
         \A x \in Inos : dotdot'[x] \in {dotdot[x], NoIno}
  PROVE  Apart'
<1> SUFFICES ASSUME Moving'
             PROVE  \E U \in SUBSET Inos : call'.td \in U /\ call'.ip \notin U /\ Closed(U)'
  BY DEF Apart
<1>1. PICK U \in SUBSET Inos : call.td \in U /\ call.ip \notin U /\ Closed(U)
  BY DEF Apart
<1>2. Closed(U)'
  BY <1>1 DEF Closed
<1>3. QED BY <1>1, <1>2

\* The steps that leave ".." alone.
LEMMA SameUps ==
  ASSUME TypeOK, TypeOK', IInv, UpInv, ~stray, dotdot' = dotdot,
         \A x \in Inos : core'[x].mode = core[x].mode,
         \A x \in Inos : core[x].mode = "dir" /\ core'[x].nlink > 0 => core[x].nlink > 0,
         call.op = "mkdir" => \/ call'.op = "mkdir" /\ call'.ip = call.ip
                              \/ dotdot[call.ip] # NoIno \/ core'[call.ip].nlink <= 0,
         Moving' => Moving /\ call'.td = call.td /\ call'.ip = call.ip
  PROVE  UpInv'
<1>1. TreeInv /\ Loopless /\ Rooted /\ UpDir /\ Apart
  BY DEF IInv, UpInv
<1>2. \A x \in Inos : Alive(x)' => Alive(x) /\ dotdot'[x] = dotdot[x]
  BY DEF Alive
<1>3. \A x \in Inos : Alive(x) => core'[x].mode = "dir"
  BY DEF Alive
<1>4. \A x \in Inos : Alive(x)' /\ call.op = "mkdir" /\ call.ip = x =>
                       dotdot[x] # NoIno \/ (call'.op = "mkdir" /\ call'.ip = x)
  BY DEF Alive, TypeOK, Inode
<1>5. Loopless' /\ Rooted' /\ UpDir'
  BY <1>1, <1>2, <1>3, <1>4, QuietTree
<1>6. Apart'
  BY <1>1, ApartSame
<1>7. QED BY <1>5, <1>6 DEF UpInv

(***************************************************************************)
(* The steps.                                                              *)
(***************************************************************************)

\* What every step of this section starts from; a tree with a stray entry is not followed.
Before == TypeOK /\ TypeOK' /\ IInv /\ UpInv /\ ~stray /\ TreeInv

\* A count that is lowered brings no directory back.
LEMMA Lowered ==
  ASSUME core \in [Inos -> Inode], NEW i \in Inos, core' = Nlink(core, i, -1)
  PROVE  /\ \A x \in Inos : core'[x].mode = core[x].mode
         /\ \A x \in Inos : core'[x].nlink > 0 => core[x].nlink > 0
<1>1. \A x \in Inos : core'[x].mode = core[x].mode /\ (x # i => core'[x].nlink = core[x].nlink)
  BY NlinkFacts
<1>2. core'[i].nlink = core[i].nlink - 1 /\ core[i].nlink \in Int
  <2>1. core'[i].nlink = core[i].nlink + (-1)
    BY NlinkFacts
  <2>2. core[i].nlink \in Int
    BY DEF Inode
  <2>3. QED BY <2>1, <2>2
<1>3. core'[i].nlink > 0 => core[i].nlink > 0
  BY <1>2
<1>4. QED BY <1>1, <1>3

\* ext2_makeinode() and ext2_mkdir() on their way to the entry.
LEMMA MakeinodeInitUps == ASSUME Before, MakeinodeInit PROVE UpInv'
<1>1. /\ call.op = "makeinode" /\ (Goto("enter") \/ Goto("bad")) /\ call \in Calls
      /\ UNCHANGED <<dotdot, core>>
  BY DEF MakeinodeInit, tree, Before, TypeOK
<1>2. call'.op = "makeinode"
  BY <1>1, GotoFields DEF CallPcs
<1>3. ~Moving'
  BY <1>2 DEF Moving
<1>4. QED BY <1>1, <1>3, SameUps DEF Before

LEMMA MkdirInitUps == ASSUME Before, MkdirInit PROVE UpInv'
<1>1. /\ call.op = "mkdir" /\ Goto("parent") /\ call \in Calls
      /\ UNCHANGED <<dotdot, core>>
  BY DEF MkdirInit, tree, Before, TypeOK
<1>2. call'.op = "mkdir" /\ call'.ip = call.ip
  BY <1>1, GotoFields DEF CallPcs
<1>3. ~Moving'
  BY <1>2 DEF Moving
<1>4. QED BY <1>1, <1>2, <1>3, SameUps DEF Before

LEMMA MkdirParentUps == ASSUME Before, MkdirParent PROVE UpInv'
<1>1. /\ call.op = "mkdir" /\ (Goto("fill") \/ Goto("bad")) /\ call \in Calls /\ call.d \in Inos
      /\ UNCHANGED dotdot /\ core' = Nlink(core, call.d, 1) /\ core[call.d].nlink > 0
      /\ core \in [Inos -> Inode]
  BY DEF MkdirParent, tree, Before, TypeOK, Calls, TreeInv, LiveInv
<1>2. call'.op = "mkdir" /\ call'.ip = call.ip
  BY <1>1, GotoFields DEF CallPcs
<1>3. ~Moving'
  BY <1>2 DEF Moving
<1>4. \A x \in Inos : core'[x].mode = core[x].mode /\ (x # call.d => core'[x].nlink = core[x].nlink)
  BY <1>1, NlinkFacts
<1>5. QED BY <1>1, <1>2, <1>3, <1>4, SameUps DEF Before

\* An ended call moves nothing, and has left no directory without "..".
LEMMA ReturnUps ==
  ASSUME Before, Return, dotdot' = dotdot,
         \A x \in Inos : core'[x].mode = core[x].mode,
         \A x \in Inos : core[x].mode = "dir" /\ core'[x].nlink > 0 => core[x].nlink > 0,
         call.op = "mkdir" => call.pc = "enter" \/ core'[call.ip].nlink <= 0
  PROVE  UpInv'
<1>1. call'.op = "none"
  BY ReturnInv
<1>2. ~Moving'
  BY <1>1 DEF Moving
<1>3. call.op = "mkdir" => dotdot[call.ip] # NoIno \/ core'[call.ip].nlink <= 0
  <2>1. call.op = "mkdir" /\ call.pc = "enter" => dotdot[call.ip] = call.d /\ call.d # NoIno
    BY VnopsAssumption DEF Before, IInv, MakeInv, TypeOK, Calls
  <2>2. QED BY <2>1
<1>4. QED BY <1>2, <1>3, SameUps DEF Before

LEMMA MadeUps == ASSUME Before, Create \/ Mknod \/ Symlink PROVE UpInv'
<1>1. Return /\ UNCHANGED <<dotdot, core>> /\ call.op = "makeinode"
  BY DEF Create, Mknod, Symlink, Made, tree
<1>2. QED BY <1>1, ReturnUps

LEMMA BadUps == ASSUME Before, Bad PROVE UpInv'
<1>1. Return /\ UNCHANGED dotdot /\ core' = Zeroed(core, call.ip) /\ core \in [Inos -> Inode]
      /\ call.ip \in Inos /\ \A x \in Inos : core[x].nlink \in Int
  BY DEF Bad, tree, Zeroed, Before, TypeOK, IInv, CallInv, Inode
<1>2. \A x \in Inos : core'[x].mode = core[x].mode /\ (x # call.ip => core'[x].nlink = core[x].nlink)
  BY <1>1, ZeroedFacts
<1>3. core'[call.ip].nlink = 0
  BY <1>1, ZeroedFacts
<1>4. QED BY <1>1, <1>2, <1>3, ReturnUps

\* The name is entered, or that fails and the counts go back.
LEMMA EnterUps == ASSUME Before, Enter, ~stray' PROVE UpInv'
<1>1. /\ call.op \in {"makeinode", "mkdir", "link"} /\ call.pc = "enter" /\ call \in Calls
      /\ UNCHANGED dotdot /\ core \in [Inos -> Inode] /\ call.d \in Inos /\ call.ip \in Inos
      /\ \A x \in Inos : core[x].nlink \in Int
  BY DEF Enter, Direnter, Before, TypeOK, Calls, IInv, CallInv, Inode
<1>2. /\ \A x \in Inos : core'[x].mode = core[x].mode
      /\ \A x \in Inos : core'[x].nlink > 0 => core[x].nlink > 0
  BY <1>1, Lowered DEF Enter, EnterUndo
<1>3. \A x \in Inos : core[x].mode = "dir" /\ core'[x].nlink > 0 => core[x].nlink > 0
  BY <1>2
<1>4. CASE Return
  BY <1>1, <1>2, <1>3, <1>4, ReturnUps
<1>5. CASE Goto("made") \/ Goto("bad")
  <2>1. call'.op = call.op /\ call'.ip = call.ip
    BY <1>1, <1>5, GotoFields DEF CallPcs
  <2>2. ~Moving'
    BY <1>1, <2>1 DEF Moving
  <2>3. QED BY <1>1, <1>2, <1>3, <2>1, <2>2, SameUps DEF Before
<1>6. QED BY <1>4, <1>5 DEF Enter

\* The calls that begin, and change counts alone.
LEMMA LinkUps ==
  ASSUME Before, NEW i \in Inos, NEW d \in Inos, NEW n \in Names, Link(i, d, n)
  PROVE  UpInv'
<1>1. /\ Idle /\ core[i].mode = "file" /\ UNCHANGED dotdot /\ core \in [Inos -> Inode]
      /\ core' = Nlink(core, i, 1) \/ core' = core
      /\ call' = call \/ call' = [NoCall EXCEPT !.op = "link", !.pc = "enter", !.d = d, !.n = n, !.ip = i]
  BY DEF Link, tree, Before, TypeOK
<1>2. call.op = "none"
  BY <1>1, IdleFacts DEF Before
<1>3. call'.op \in {"none", "link"}
  BY <1>1, <1>2 DEF NoCall
<1>4. ~Moving'
  BY <1>3 DEF Moving
<1>5. \A x \in Inos : core'[x].mode = core[x].mode /\ (x # i => core'[x].nlink = core[x].nlink)
  BY <1>1, NlinkFacts
<1>6. QED BY <1>1, <1>2, <1>4, <1>5, SameUps DEF Before

LEMMA RemoveUps ==
  ASSUME Before, NEW d \in Inos, NEW n \in Names, Remove(d, n)
  PROVE  UpInv'
<1>1. /\ Idle /\ ent[d][n] \in Inos /\ UNCHANGED <<dotdot, call>> /\ core \in [Inos -> Inode]
      /\ core' = Nlink(core, ent[d][n], -1) \/ core' = core
  BY DEF Remove, Dirremove, Before, TypeOK
<1>2. call.op = "none"
  BY <1>1, IdleFacts DEF Before
<1>4. ~Moving'
  BY <1>1, <1>2 DEF Moving
<1>5. /\ \A x \in Inos : core'[x].mode = core[x].mode
      /\ \A x \in Inos : core'[x].nlink > 0 => core[x].nlink > 0
  BY <1>1, Lowered
<1>6. QED BY <1>1, <1>2, <1>4, <1>5, SameUps DEF Before

LEMMA RenameUps ==
  ASSUME Before, NEW fd \in Inos, NEW fn \in Names, NEW td \in Inos, NEW tn \in Names,
         Rename(fd, fn, td, tn)
  PROVE  UpInv'
<1> DEFINE i == ent[fd][fn]
           b == core[i].mode = "dir"
<1>1. /\ Idle /\ i # NoIno /\ UNCHANGED dotdot /\ core \in [Inos -> Inode]
      /\ core' = Flagged(core, i, 1, b) /\ b \in BOOLEAN
      /\ call'.pc \in {"checkpath", "bad"}
  BY DEF Rename, tree, Before, TypeOK, Flagged, NoCall
<1>2. call.op = "none"
  BY <1>1, IdleFacts DEF Before
<1>3. i \in Inos /\ core[i].nlink > 0
  BY <1>1, NamedLive DEF Before, TreeInv, IInv
<1>4. ~Moving'
  BY <1>1 DEF Moving
<1>5. \A x \in Inos : core'[x].mode = core[x].mode /\ (x # i => core'[x].nlink = core[x].nlink)
  <2> HIDE DEF i, b
  <2>1. QED BY <1>1, <1>3, FlaggedFacts
<1>6. \A x \in Inos : core[x].mode = "dir" /\ core'[x].nlink > 0 => core[x].nlink > 0
  BY <1>3, <1>5
<1>7. QED BY <1>1, <1>2, <1>4, <1>5, <1>6, SameUps DEF Before

\* What a rename is about stays the same to its end.
LEMMA RenameGoes ==
  ASSUME Before, call.op = "rename", NEW p \in CallPcs, Goto(p), dotdot' = dotdot,
         p \in {"target", "enter", "oldparent", "dotdot"} =>
           call.pc \in {"target", "enter", "oldparent", "dotdot"},
         \A x \in Inos : core'[x].mode = core[x].mode,
         \A x \in Inos : core[x].mode = "dir" /\ core'[x].nlink > 0 => core[x].nlink > 0
  PROVE  UpInv'
<1>1. /\ call'.pc = p /\ call'.op = call.op /\ call'.d = call.d /\ call'.ip = call.ip
      /\ call'.td = call.td
  BY GotoFields DEF Before, TypeOK
<1>2. call.ip \in Inos
  BY DEF Before, IInv, CallInv, TypeOK
<1>3. Moving' => Moving
  BY <1>1, <1>2 DEF Moving, Doingdirectory, Newparent, IsDir
<1>4. QED BY <1>1, <1>3, SameUps DEF Before

LEMMA RenameTargetUps == ASSUME Before, RenameTarget PROVE UpInv'
<1>1. /\ call.op = "rename" /\ call.pc = "target" /\ UNCHANGED dotdot /\ core \in [Inos -> Inode]
      /\ core' = Nlink(core, call.td, 1) \/ core' = core
      /\ Goto("enter") \/ Goto("bad")
      /\ call.td \in Inos /\ core[call.td].nlink > 0
  BY DEF RenameTarget, tree, Before, TypeOK, Calls, TreeInv, LiveInv
<1>2. \A x \in Inos : core'[x].mode = core[x].mode /\ (x # call.td => core'[x].nlink = core[x].nlink)
  BY <1>1, NlinkFacts
<1>3. \A x \in Inos : core[x].mode = "dir" /\ core'[x].nlink > 0 => core[x].nlink > 0
  BY <1>1, <1>2
<1>4. QED BY <1>1, <1>2, <1>3, RenameGoes DEF CallPcs

LEMMA RenameEnterUps == ASSUME Before, RenameEnter, ~stray' PROVE UpInv'
<1>1. /\ call.op = "rename" /\ call.pc = "enter" /\ UNCHANGED dotdot /\ core \in [Inos -> Inode]
      /\ core' = Nlink(core, call.td, -1) \/ core' = core
      /\ Goto("oldparent") \/ Goto("bad")
      /\ call.td \in Inos
  BY DEF RenameEnter, Direnter, Before, TypeOK, Calls
<1>2. /\ \A x \in Inos : core'[x].mode = core[x].mode
      /\ \A x \in Inos : core'[x].nlink > 0 => core[x].nlink > 0
  BY <1>1, Lowered
<1>3. QED BY <1>1, <1>2, RenameGoes DEF CallPcs

LEMMA RenameRefuseUps == ASSUME Before, RenameRefuse PROVE UpInv'
<1>1. /\ call.op = "rename" /\ UNCHANGED <<dotdot, core>> /\ Goto("bad")
  BY DEF RenameRefuse, tree
<1>2. QED BY <1>1, RenameGoes DEF CallPcs

LEMMA RenameOldparentUps == ASSUME Before, RenameOldparent PROVE UpInv'
<1>1. /\ call.op = "rename" /\ call.pc = "oldparent" /\ UNCHANGED dotdot /\ core \in [Inos -> Inode]
      /\ core' = Nlink(core, call.d, -1) \/ core' = core
      /\ Goto("dotdot") \/ Goto("unlink")
      /\ call.d \in Inos
  BY DEF RenameOldparent, tree, Before, TypeOK, Calls
<1>2. /\ \A x \in Inos : core'[x].mode = core[x].mode
      /\ \A x \in Inos : core'[x].nlink > 0 => core[x].nlink > 0
  BY <1>1, Lowered
<1>3. QED BY <1>1, <1>2, RenameGoes DEF CallPcs

\* The counts at the end of a rename.
LEMMA Ended ==
  ASSUME core \in [Inos -> Inode], NEW i \in Inos,
         \/ core' = Flagged(core, i, -1, FALSE)
         \/ core' = Nlink(Cleared(core, i), i, -1) \/ core' = Cleared(core, i)
  PROVE  /\ \A x \in Inos : core'[x].mode = core[x].mode
         /\ \A x \in Inos : core'[x].nlink > 0 => core[x].nlink > 0
<1> DEFINE c == Cleared(core, i)
           f == FALSE
<1>1. /\ c \in [Inos -> Inode]
      /\ \A x \in Inos : c[x].mode = core[x].mode /\ c[x].nlink = core[x].nlink
  BY ClearedFacts
<1>2. \A x \in Inos : core[x].nlink \in Int
  BY DEF Inode
<1>3. CASE core' = c
  BY <1>1, <1>3
<1>4. CASE core' = Nlink(c, i, -1)
  <2> HIDE DEF c
  <2>1. /\ \A x \in Inos : core'[x].mode = c[x].mode
        /\ \A x \in Inos : x # i => core'[x].nlink = c[x].nlink
        /\ core'[i].nlink = c[i].nlink + (-1)
    BY <1>1, <1>4, NlinkFacts
  <2>2. core'[i].nlink > 0 => core[i].nlink > 0
    BY <1>1, <1>2, <2>1
  <2>3. QED BY <1>1, <2>1, <2>2
<1>5. CASE core' = Flagged(core, i, -1, f)
  <2>0. f \in BOOLEAN
    OBVIOUS
  <2> HIDE DEF f
  <2>1. /\ \A x \in Inos : core'[x].mode = core[x].mode
        /\ \A x \in Inos : x # i => core'[x].nlink = core[x].nlink
        /\ core'[i].nlink = core[i].nlink + (-1)
    BY <1>5, <2>0, FlaggedFacts
  <2>2. core'[i].nlink > 0 => core[i].nlink > 0
    BY <1>2, <2>1
  <2>3. QED BY <2>1, <2>2
<1>6. QED BY <1>3, <1>4, <1>5

LEMMA RenameUnlinkUps == ASSUME Before, RenameUnlink PROVE UpInv'
<1>1. /\ call.op = "rename" /\ UNCHANGED dotdot /\ Return /\ core \in [Inos -> Inode]
      /\ core' = Nlink(Cleared(core, call.ip), call.ip, -1) \/ core' = Cleared(core, call.ip)
      /\ call.ip \in Inos
  BY DEF RenameUnlink, Before, TypeOK, Cleared, IInv, CallInv
<1>2. /\ \A x \in Inos : core'[x].mode = core[x].mode
      /\ \A x \in Inos : core'[x].nlink > 0 => core[x].nlink > 0
  BY <1>1, Ended
<1>3. QED BY <1>1, <1>2, ReturnUps

LEMMA RenameBadUps == ASSUME Before, RenameBad PROVE UpInv'
<1>1. /\ call.op = "rename" /\ UNCHANGED dotdot /\ Return /\ core \in [Inos -> Inode]
      /\ core' = Flagged(core, call.ip, -1, FALSE)
      /\ call.ip \in Inos
  BY DEF RenameBad, Before, TypeOK, Flagged, IInv, CallInv, tree
<1>2. /\ \A x \in Inos : core'[x].mode = core[x].mode
      /\ \A x \in Inos : core'[x].nlink > 0 => core[x].nlink > 0
  BY <1>1, Ended
<1>3. QED BY <1>1, <1>2, ReturnUps

\* Nothing but the disk changes.
LEMMA StillUps == ASSUME Before, UNCHANGED <<dotdot, core, call>> PROVE UpInv'
<1>1. Moving' => Moving
  BY DEF Moving, Doingdirectory, Newparent, IsDir
<1>2. QED BY <1>1, SameUps DEF Before

\* ext2_checkpath() has gone from the new parent to the root without meeting the directory
\* that is to be moved.
LEMMA RenameCheckpathUps == ASSUME Before, RenameCheckpath PROVE UpInv'
<1>1. PICK p \in {"target", "bad"} :
        /\ Goto(p)
        /\ p = "target" /\ Doingdirectory /\ Newparent => Checkpath(call.ip, call.td) = "ok"
  BY DEF RenameCheckpath
<1>2. /\ call.op = "rename" /\ UNCHANGED <<dotdot, core>> /\ call \in Calls
      /\ call.ip \in Inos /\ call.td \in Inos /\ TypeOK
      /\ Loopless /\ Rooted /\ UpDir /\ dotdot[Root] = Root
  BY DEF RenameCheckpath, tree, Before, TypeOK, UpInv, IInv, CallInv, TreeInv, RootInv
<1>3. CASE p = "bad"
  BY <1>1, <1>2, <1>3, RenameGoes DEF CallPcs
<1>4. CASE p = "target"
  <2>1. /\ call'.pc = p /\ call'.op = call.op /\ call'.d = call.d /\ call'.ip = call.ip
        /\ call'.td = call.td
    BY <1>1, <1>2, <1>4, GotoFields DEF CallPcs
  <2>2. Moving' => Doingdirectory /\ Newparent
    BY <1>2, <2>1 DEF Moving, Doingdirectory, Newparent, IsDir
  <2>3. ASSUME Moving' PROVE \E U \in SUBSET Inos : call.td \in U /\ call.ip \notin U /\ Closed(U)
    <3>1. Checkpath(call.ip, call.td) = "ok"
      BY <1>1, <1>4, <2>2, <2>3
    <3>2. call.ip # call.td /\ (call.td = Root \/ call.ip \notin Above(call.td))
      BY <3>1 DEF Checkpath
    <3>3. CASE call.td = Root
      <4> DEFINE U == {Root}
      <4>1. U \in SUBSET Inos /\ call.td \in U /\ call.ip \notin U /\ Closed(U)
        BY <1>2, <3>2, <3>3, VnopsAssumption DEF Closed
      <4>2. QED BY <4>1
    <3>4. CASE call.ip \notin Above(call.td)
      BY <1>2, <3>4, AboveFacts
    <3>5. QED BY <3>2, <3>3, <3>4
  <2>4. Apart'
    BY <1>2, <2>1, <2>3 DEF Apart, Closed
  <2>5. Loopless' /\ Rooted' /\ UpDir'
    BY <1>2, <2>1 DEF Loopless, Rooted, UpDir, Alive
  <2>6. QED BY <2>4, <2>5 DEF UpInv
<1>5. QED BY <1>3, <1>4

\* A new directory has no "..", so that it closes no loop, and none leads to it.
LEMMA MakeinodeUps ==
  ASSUME Before, NEW op \in {"makeinode", "mkdir"}, NEW d \in Inos, NEW n \in Names,
         Makeinode(op, d, n)
  PROVE  UpInv'
<1> DEFINE r == IF op = "mkdir" THEN [mode |-> "dir", nlink |-> 2, rename |-> FALSE]
                ELSE [mode |-> "file", nlink |-> 1, rename |-> FALSE]
<1>1. PICK i \in Inos \ used :
        /\ used' = used \cup {i} /\ core' = [core EXCEPT ![i] = r]
        /\ call' = [NoCall EXCEPT !.op = op, !.pc = "init", !.d = d, !.n = n, !.ip = i]
  BY ZenonT(60) DEF Makeinode
<1>2. /\ Idle /\ UNCHANGED dotdot /\ Loopless /\ Rooted /\ UpDir /\ TreeInv /\ TypeOK
      /\ core \in [Inos -> Inode] /\ core[i].mode = "free" /\ dotdot[i] = NoIno
  BY DEF Makeinode, tree, Before, UpInv, TypeOK, IInv, FreeInv
<1>3. call.op = "none"
  BY <1>2, IdleFacts DEF Before
<1>4. call'.op = op /\ call'.ip = i
  BY <1>1 DEF NoCall
<1>5. (op = "mkdir" => Alive(i)') /\ ((op # "mkdir") => ~Alive(i)')
  BY <1>1, <1>2 DEF Alive
<1>6. \A x \in Inos : x # i => core'[x] = core[x] /\ (Alive(x)' <=> Alive(x))
  BY <1>1, <1>2 DEF Alive
<1>7. Loopless'
  <2> SUFFICES ASSUME NEW S \in SUBSET Inos, S # {}, \A x \in S : Alive(x)' /\ dotdot'[x] \in S
               PROVE  Root \in S
    BY DEF Loopless
  <2>1. i \notin S
    BY <1>2, VnopsAssumption
  <2>2. \A x \in S : Alive(x) /\ dotdot[x] \in S
    BY <1>2, <1>6, <2>1
  <2>3. QED BY <1>2, <2>2 DEF Loopless
<1>8. Rooted'
  <2> SUFFICES ASSUME NEW x \in Inos, Alive(x)'
               PROVE  dotdot'[x] \in Inos \/ (call'.op = "mkdir" /\ call'.ip = x)
    BY DEF Rooted
  <2>1. CASE x = i
    BY <1>4, <1>5, <2>1
  <2>2. CASE x # i
    BY <1>2, <1>3, <1>6, <2>2 DEF Rooted
  <2>3. QED BY <2>1, <2>2
<1>9. UpDir'
  <2> SUFFICES ASSUME NEW x \in Inos, Alive(x)', dotdot'[x] # NoIno
               PROVE  core'[dotdot'[x]].mode = "dir"
    BY DEF UpDir
  <2>1. Alive(x) /\ dotdot[x] # NoIno
    BY <1>2, <1>6
  <2>2. dotdot[x] \in Inos /\ Alive(dotdot[x])
    BY <1>2, <2>1, ParentAlive
  <2>3. QED BY <1>2, <1>6, <2>2 DEF Alive
<1>10. Apart'
  BY <1>4 DEF Apart, Moving
<1>11. QED BY <1>7, <1>8, <1>9, <1>10 DEF UpInv

\* The new directory gets its "..": none leads to it yet.
LEMMA MkdirFillUps == ASSUME Before, MkdirFill PROVE UpInv'
<1>1. PICK t \in Inos, d \in Inos : t = call.ip /\ d = call.d
  BY DEF Before, IInv, CallInv, MkdirFill, TypeOK, Calls
<1>2. /\ call.op = "mkdir" /\ call.pc = "fill" /\ call \in Calls /\ core \in [Inos -> Inode]
      /\ core[t].mode = "dir" /\ core[t].nlink = 2 /\ t # d /\ core[d].mode = "dir"
      /\ Loopless /\ Rooted /\ UpDir /\ TreeInv /\ TypeOK /\ dotdot \in [Inos -> Inos \cup {NoIno}]
      /\ Goto("enter") \/ Goto("bad")
  BY <1>1 DEF MkdirFill, Before, IInv, CallInv, MakeInv, TypeOK, UpInv
<1>3. call'.op = "mkdir" /\ call'.ip = t
  BY <1>1, <1>2, GotoFields DEF CallPcs
<1>4. ~Moving' /\ Apart'
  BY <1>3 DEF Apart, Moving
<1>5. CASE core' = Nlink(core, d, -1) /\ UNCHANGED dotdot
  <2>1. /\ \A x \in Inos : core'[x].mode = core[x].mode
        /\ \A x \in Inos : core'[x].nlink > 0 => core[x].nlink > 0
    BY <1>2, <1>5, Lowered
  <2>2. QED BY <1>1, <1>2, <1>3, <1>4, <1>5, <2>1, SameUps DEF Before
<1>6. CASE dotdot' = [dotdot EXCEPT ![t] = d] /\ UNCHANGED core
  <2>1. \A x \in Inos : ~Child(x, t)
    <3>1. Owed(t) = 1 /\ Dot(t) = 1
      BY <1>1, <1>2 DEF Owed, NameOwed, UpOwed, DownOwed, One, Dot
    <3>2. Children(t) = {}
      BY <1>2, <3>1, Unnamed DEF TreeInv
    <3>3. QED BY <3>2, RefSets
  <2>2. dotdot'[t] = d /\ \A x \in Inos : x # t => dotdot'[x] = dotdot[x]
    BY <1>2, <1>6
  <2>3. \A x \in Inos : Alive(x)' <=> Alive(x)
    BY <1>6 DEF Alive
  <2>4. Loopless'
    <3> SUFFICES ASSUME NEW S \in SUBSET Inos, S # {}, Root \notin S,
                        \A x \in S : Alive(x)' /\ dotdot'[x] \in S
                 PROVE  FALSE
      BY DEF Loopless
    <3> DEFINE T == S \ {t}
    <3>1. T # {} /\ T \in SUBSET Inos
      BY <1>2, <2>2
    <3>2. ASSUME NEW x \in T PROVE Alive(x) /\ dotdot[x] \in T
      <4>1. Alive(x) /\ dotdot[x] \in S /\ x # Root
        BY <2>2, <2>3
      <4>2. dotdot[x] # t
        BY <2>1, <4>1 DEF Child
      <4>3. QED BY <4>1, <4>2
    <3>3. QED BY <1>2, <3>1, <3>2 DEF Loopless
  <2>5. Rooted'
    BY <1>1, <1>2, <1>3, <2>2, <2>3 DEF Rooted
  <2>6. UpDir'
    BY <1>2, <1>6, <2>2, <2>3 DEF UpDir
  <2>7. QED BY <1>4, <2>4, <2>5, <2>6 DEF UpInv
<1>7. QED BY <1>1, <1>5, <1>6 DEF MkdirFill, tree

\* A directory that is removed loses its "..".
LEMMA Pruned ==
  ASSUME Before, NEW i \in Inos, dotdot' = [dotdot EXCEPT ![i] = NoIno], ~Alive(i)',
         \A x \in Inos : x # i => core'[x].mode = core[x].mode,
         \A x \in Inos : x # i /\ core'[x].nlink > 0 => core[x].nlink > 0,
         Alive(i) => core'[i].mode = "dir",
         call.op = "mkdir" => call'.op = "mkdir" /\ call'.ip = call.ip,
         Moving' => Moving /\ call'.td = call.td /\ call'.ip = call.ip
  PROVE  UpInv'
<1>1. /\ TypeOK /\ TypeOK' /\ TreeInv /\ Loopless /\ Rooted /\ UpDir /\ Apart
      /\ dotdot \in [Inos -> Inos \cup {NoIno}]
  BY DEF Before, UpInv, TypeOK
<1>2. \A x \in Inos : dotdot'[x] \in {dotdot[x], NoIno} /\ (x # i => dotdot'[x] = dotdot[x])
  BY <1>1
<1>3. \A x \in Inos : Alive(x)' => Alive(x) /\ dotdot'[x] = dotdot[x]
  BY <1>2 DEF Alive
<1>4. \A x \in Inos : Alive(x) => core'[x].mode = "dir"
  BY DEF Alive
<1>5. Loopless' /\ Rooted' /\ UpDir'
  BY <1>1, <1>3, <1>4, QuietTree
<1>6. Apart'
  BY <1>1, <1>2, ApartSame
<1>7. QED BY <1>5, <1>6 DEF UpInv

\* Counts that are lowered one after the other.
LEMMA LoweredTwice ==
  ASSUME core \in [Inos -> Inode], NEW a \in Inos, NEW i \in Inos, NEW k \in {1, 2},
         NEW c \in {core, Nlink(core, a, -1)}, NEW e, e = Nlink(c, i, -k)
  PROVE  /\ \A x \in Inos : e[x].mode = core[x].mode
         /\ \A x \in Inos : e[x].nlink > 0 => core[x].nlink > 0
         /\ core[i].nlink <= k => e[i].nlink <= 0
<1>1. \A x \in Inos : core[x].nlink \in Int
  BY DEF Inode
<1>2. /\ c \in [Inos -> Inode] /\ \A x \in Inos : c[x].mode = core[x].mode
      /\ \A x \in Inos : c[x].nlink \in Int
      /\ \A x \in Inos : c[x].nlink <= core[x].nlink
  <2>1. CASE c = core
    BY <1>1, <2>1
  <2>2. CASE c = Nlink(core, a, -1)
    <3>1. /\ c \in [Inos -> Inode] /\ \A x \in Inos : c[x].mode = core[x].mode
          /\ \A x \in Inos : x # a => c[x].nlink = core[x].nlink
          /\ c[a].nlink = core[a].nlink + (-1)
      BY <2>2, NlinkFacts
    <3>2. \A x \in Inos : c[x].nlink \in Int /\ c[x].nlink <= core[x].nlink
      <4> TAKE x \in Inos
      <4>1. CASE x = a
        BY <1>1, <3>1, <4>1
      <4>2. CASE x # a
        BY <1>1, <3>1, <4>2
      <4>3. QED BY <4>1, <4>2
    <3>3. QED BY <3>1, <3>2
  <2>3. QED BY <2>1, <2>2
<1>3. /\ \A x \in Inos : e[x].mode = c[x].mode
      /\ \A x \in Inos : x # i => e[x].nlink = c[x].nlink
      /\ e[i].nlink = c[i].nlink + (-k)
  BY <1>2, NlinkFacts
<1>4. e[i].nlink <= c[i].nlink - 1 /\ e[i].nlink = c[i].nlink - k /\ c[i].nlink <= core[i].nlink
      /\ c[i].nlink \in Int /\ core[i].nlink \in Int
  BY <1>1, <1>2, <1>3
<1>5. (e[i].nlink > 0 => core[i].nlink > 0) /\ (core[i].nlink <= k => e[i].nlink <= 0)
  BY <1>4
<1>6. \A x \in Inos : x # i /\ e[x].nlink > 0 => core[x].nlink > 0
  BY <1>1, <1>2, <1>3
<1>7. QED BY <1>2, <1>3, <1>5, <1>6

\* ext2_rmdir() truncates the directory, and with it its "..".
LEMMA RmdirUps ==
  ASSUME Before, NEW d \in Inos, NEW n \in Names, Rmdir(d, n)
  PROVE  UpInv'
<1>1. PICK i \in Inos : i = ent[d][n]
  BY DEF Before, TypeOK, Rmdir, IsDir
<1>2. /\ Idle /\ core[i].mode = "dir" /\ core[i].nlink = 2 /\ core \in [Inos -> Inode]
      /\ core' = Nlink(Nlink(core, d, -1), i, -2) \/ (core' = core /\ ent' = ent)
      /\ dotdot' = IF ent' # ent THEN [dotdot EXCEPT ![i] = NoIno] ELSE dotdot
      /\ UNCHANGED call
  BY <1>1 DEF Rmdir, Dirremove, Before, TypeOK, IsDir
<1>3. call.op = "none"
  BY <1>2, IdleFacts DEF Before
<1>4. ~Moving'
  BY <1>2, <1>3 DEF Moving
<1>5. /\ \A x \in Inos : core'[x].mode = core[x].mode
      /\ \A x \in Inos : core'[x].nlink > 0 => core[x].nlink > 0
      /\ ent' # ent => core'[i].nlink <= 0
  <2>1. CASE core' = core /\ ent' = ent
    BY <2>1
  <2>2. CASE core' = Nlink(Nlink(core, d, -1), i, -2)
    <3> DEFINE c == Nlink(core, d, -1)
    <3>1. c \in {core, Nlink(core, d, -1)} /\ core' = Nlink(c, i, -2)
      BY <2>2
    <3> HIDE DEF c
    <3>2. /\ \A x \in Inos : core'[x].mode = core[x].mode
          /\ \A x \in Inos : core'[x].nlink > 0 => core[x].nlink > 0
          /\ core[i].nlink <= 2 => core'[i].nlink <= 0
      BY <1>2, <3>1, LoweredTwice
    <3>3. QED BY <1>2, <3>2
  <2>3. QED BY <1>2, <2>1, <2>2
<1>6. CASE ent' # ent
  <2>1. core'[i].nlink \in Int
    BY DEF Before, TypeOK, Inode
  <2>2. ~Alive(i)'
    BY <1>5, <1>6, <2>1 DEF Alive
  <2>3. QED BY <1>2, <1>3, <1>4, <1>5, <1>6, <2>2, Pruned
<1>7. CASE ent' = ent
  BY <1>2, <1>3, <1>4, <1>5, <1>7, SameUps DEF Before
<1>8. QED BY <1>6, <1>7

\* The target of a rename is squashed.
LEMMA RenameRewriteUps == ASSUME Before, RenameRewrite PROVE UpInv'
<1>1. PICK t \in Inos, td \in Inos, x \in Inos :
        t = call.ip /\ td = call.td /\ x = call.xp
  BY DEF Before, IInv, CallInv, RenameRewrite, TypeOK, Calls
<1>2. /\ call.op = "rename" /\ call.pc = "target" /\ call \in Calls /\ core \in [Inos -> Inode]
      /\ Doingdirectory => core[x].nlink <= 2
      /\ \/ UNCHANGED <<core, dotdot>> /\ Goto("bad")
         \/ /\ core' = RewriteCounts /\ (Goto("panic") \/ Goto("oldparent"))
            /\ dotdot' = IF Doingdirectory THEN [dotdot EXCEPT ![x] = NoIno] ELSE dotdot
  BY <1>1 DEF RenameRewrite, Compatible, Before, TypeOK, tree, IsDir
<1>3. CASE UNCHANGED <<core, dotdot>> /\ Goto("bad")
  BY <1>2, <1>3, RenameGoes DEF CallPcs
<1>4. CASE /\ core' = RewriteCounts /\ (Goto("panic") \/ Goto("oldparent"))
           /\ dotdot' = IF Doingdirectory THEN [dotdot EXCEPT ![x] = NoIno] ELSE dotdot
  <2> DEFINE c == IF Doingdirectory /\ ~Newparent THEN Nlink(core, td, -1) ELSE core
             k == IF Doingdirectory THEN 2 ELSE 1
  <2>1. c \in {core, Nlink(core, td, -1)} /\ k \in {1, 2}
    OBVIOUS
  <2>2. core' = Nlink(c, x, -k)
    BY <1>1, <1>4 DEF RewriteCounts
  <2>3. Doingdirectory => k = 2
    OBVIOUS
  <2> HIDE DEF c, k
  <2>4. /\ \A y \in Inos : core'[y].mode = core[y].mode
        /\ \A y \in Inos : core'[y].nlink > 0 => core[y].nlink > 0
        /\ core[x].nlink <= k => core'[x].nlink <= 0
    BY <1>2, <2>1, <2>2, LoweredTwice
  <2>5. CASE ~Doingdirectory
    BY <1>2, <1>4, <2>4, <2>5, RenameGoes DEF CallPcs
  <2>6. CASE Doingdirectory
    <3>1. core'[x].nlink \in Int /\ core'[x].nlink <= 0
      BY <1>2, <2>3, <2>4, <2>6 DEF Before, TypeOK, Inode
    <3>2. ~Alive(x)'
      BY <3>1 DEF Alive
    <3>3. /\ call'.op = call.op /\ call'.d = call.d /\ call'.ip = call.ip /\ call'.td = call.td
      BY <1>2, <1>4, GotoFields DEF CallPcs
    <3>4. Moving' => Moving
      BY <1>1, <1>2, <2>4, <3>3 DEF Moving, Doingdirectory, Newparent, IsDir
    <3>5. Alive(x) => core'[x].mode = "dir"
      BY <2>4 DEF Alive
    <3>6. QED BY <1>2, <1>4, <2>4, <2>6, <3>2, <3>3, <3>4, <3>5, Pruned
  <2>7. QED BY <2>5, <2>6
<1>5. QED BY <1>2, <1>3, <1>4

\* ext2_inactive() frees what has no link.
LEMMA InactiveUps ==
  ASSUME Before, NEW i \in Inos, Inactive(i)
  PROVE  UpInv'
<1>1. /\ core[i].nlink <= 0 /\ core' = [core EXCEPT ![i] = Freed] /\ UNCHANGED call
      /\ dotdot' = [dotdot EXCEPT ![i] = NoIno] /\ core \in [Inos -> Inode] /\ i # call.ip
      /\ core[i].nlink \in Int
  BY DEF Inactive, Before, TypeOK, Inode
<1>2. ~Alive(i) /\ ~Alive(i)'
  BY <1>1 DEF Alive, Freed
<1>3. \A x \in Inos : x # i => core'[x] = core[x]
  BY <1>1
<1>4. Moving' => Moving
  <2>1. call.op = "rename" => call.ip \in Inos
    BY DEF Before, IInv, CallInv, TypeOK
  <2>2. QED BY <1>1, <1>3, <2>1 DEF Moving, Doingdirectory, Newparent, IsDir
<1>5. QED BY <1>1, <1>2, <1>3, <1>4, Pruned

\* The moved directory gets its new "..": the way up from there does not come back to it.
LEMMA RenameDotdotUps == ASSUME Before, RenameDotdot, ~stray' PROVE UpInv'
<1>1. PICK t \in Inos, td \in Inos : t = call.ip /\ td = call.td
  BY DEF Before, IInv, CallInv, RenameDotdot, TypeOK, Calls
<1>2. /\ call.op = "rename" /\ call.pc = "dotdot" /\ call \in Calls /\ Doingdirectory /\ Newparent
      /\ Loopless /\ Rooted /\ UpDir /\ Apart /\ TypeOK /\ UNCHANGED core
      /\ dotdot \in [Inos -> Inos \cup {NoIno}] /\ core[td].mode = "dir"
      /\ \/ dotdot' = [dotdot EXCEPT ![t] = td] /\ Goto("unlink")
         \/ UNCHANGED dotdot /\ Goto("panic")
  BY <1>1 DEF RenameDotdot, Before, IInv, CallInv, RenameInv, TypeOK, UpInv
<1>3. CASE UNCHANGED dotdot /\ Goto("panic")
  BY <1>2, <1>3, RenameGoes DEF CallPcs
<1>4. CASE dotdot' = [dotdot EXCEPT ![t] = td] /\ Goto("unlink")
  <2>1. PICK U \in SUBSET Inos : td \in U /\ t \notin U /\ Closed(U)
    BY <1>1, <1>2 DEF Apart, Moving
  <2>2. dotdot'[t] = td /\ \A x \in Inos : x # t => dotdot'[x] = dotdot[x]
    BY <1>2, <1>4
  <2>3. \A x \in Inos : Alive(x)' <=> Alive(x)
    BY <1>2 DEF Alive
  <2>4. call'.pc = "unlink" /\ call'.op = "rename"
    BY <1>2, <1>4, GotoFields DEF CallPcs
  <2>5. Loopless'
    <3> SUFFICES ASSUME NEW S \in SUBSET Inos, S # {}, \A x \in S : Alive(x)' /\ dotdot'[x] \in S
                 PROVE  Root \in S
      BY DEF Loopless
    <3>1. CASE t \notin S
      <4>1. \A x \in S : Alive(x) /\ dotdot[x] \in S
        BY <2>2, <2>3, <3>1
      <4>2. QED BY <1>2, <4>1 DEF Loopless
    <3>2. CASE t \in S
      <4> DEFINE T == S \cap U
      <4>1. td \in T /\ T \in SUBSET Inos
        BY <2>1, <2>2, <3>2
      <4>2. ASSUME NEW x \in T PROVE Alive(x) /\ dotdot[x] \in T
        <5>1. Alive(x) /\ dotdot[x] \in S /\ dotdot[x] \in Inos
          BY <2>1, <2>2, <2>3
        <5>2. QED BY <2>1, <5>1, VnopsAssumption DEF Closed
      <4>3. Root \in T
        BY <1>2, <4>1, <4>2 DEF Loopless
      <4>4. QED BY <4>3
    <3>3. QED BY <3>1, <3>2
  <2>6. Rooted'
    BY <1>2, <2>2, <2>3 DEF Rooted
  <2>7. UpDir'
    BY <1>2, <2>2, <2>3 DEF UpDir
  <2>8. Apart'
    BY <2>4 DEF Apart, Moving
  <2>9. QED BY <2>5, <2>6, <2>7, <2>8 DEF UpInv
<1>5. QED BY <1>2, <1>3, <1>4

(***************************************************************************)
(* The theorems.                                                           *)
(***************************************************************************)

\* A new file system: the root is its own parent.
LEMMA InitUps == Init => UpInv
<1> SUFFICES ASSUME Init PROVE Loopless /\ Rooted /\ UpDir /\ Apart
  BY DEF UpInv
<1>1. dotdot[Root] = Root /\ core[Root].mode = "dir"
  BY VnopsAssumption DEF Init
<1>2. \A x \in Inos : Alive(x) => x = Root
  BY DEF Init, Alive, Freed
<1>3. Loopless
  BY <1>2 DEF Loopless
<1>4. Rooted /\ UpDir
  BY <1>1, <1>2, VnopsAssumption DEF Rooted, UpDir
<1>5. Apart
  BY NoCallFacts DEF Init, Apart, Moving
<1>6. QED BY <1>3, <1>4, <1>5

\* A tree with a wrong entry stays one.
LEMMA StrayStays ==
  ASSUME TypeOK, IInv, [Next]_vars, ~stray'
  PROVE  ~stray
<1> SUFFICES ASSUME stray PROVE FALSE
  OBVIOUS
<1>1. ~Idle
  BY DEF Idle
<1>2. ASSUME RenameUnlink PROVE FALSE
  <2>1. Doingdirectory /\ call.op = "rename"
    BY <1>2 DEF RenameUnlink, IInv, RenameInv
  <2>2. QED BY <1>2, <2>1 DEF RenameUnlink
<1>3. ASSUME NewName \/ RenameStep PROVE FALSE
  BY <1>2, <1>3 DEF NewName, RenameStep, MakeinodeInit, MkdirInit, MkdirParent, MkdirFill, Enter,
     Direnter, Bad, Create, Mknod, Symlink, RenameCheckpath, RenameTarget, RenameEnter, RenameRefuse,
     RenameRewrite, RenameOldparent, RenameDotdot, RenameBad
<1>4. ASSUME NEW d \in Inos, NEW n \in Names, NEW i \in Inos, NEW tn \in Names
      PROVE  /\ \A op : ~Makeinode(op, d, n)
             /\ ~Link(i, d, n) /\ ~Remove(d, n) /\ ~Rmdir(d, n) /\ ~Rename(d, n, i, tn)
  <2>1. ASSUME NEW op, Makeinode(op, d, n) PROVE FALSE
    BY <1>1, <2>1 DEF Makeinode
  <2>2. ASSUME Link(i, d, n) \/ Remove(d, n) PROVE FALSE
    BY <1>1, <2>2 DEF Link, Remove
  <2>3. ASSUME Rmdir(d, n) \/ Rename(d, n, i, tn) PROVE FALSE
    BY <1>1, <2>3 DEF Rmdir, Rename
  <2>4. QED BY <2>1, <2>2, <2>3
<1>5. ASSUME NEW i \in Inos PROVE ~Inactive(i) /\ ~Fsync(i)
  BY DEF Inactive, Fsync, Flush
<1>6. ASSUME UNCHANGED vars PROVE FALSE
  <2>1. stray' = stray
    BY <1>6 DEF vars
  <2>2. QED BY <2>1
<1>7. QED BY <1>3, <1>4, <1>5, <1>6 DEF Next, Stopped

\* No step makes a loop.
LEMMA NextUps == TypeOK /\ IInv /\ UpInv /\ [Next]_vars => UpInv'
<1> SUFFICES ASSUME TypeOK, IInv, UpInv, [Next]_vars, ~stray' PROVE UpInv'
  BY DEF UpInv
<1>1. Before
  BY NextInv, StrayStays DEF Before, IInv
<1>2. CASE \E d \in Inos, n \in Names :
             \/ \E op \in {"makeinode", "mkdir"} : Makeinode(op, d, n)
             \/ \E i \in Inos : Link(i, d, n)
             \/ Remove(d, n)
             \/ Rmdir(d, n)
             \/ \E td \in Inos, tn \in Names : Rename(d, n, td, tn)
  BY <1>1, <1>2, MakeinodeUps, LinkUps, RemoveUps, RmdirUps, RenameUps
<1>3. CASE NewName
  BY <1>1, <1>3, MakeinodeInitUps, MkdirInitUps, MkdirParentUps, MkdirFillUps, EnterUps, BadUps,
     MadeUps DEF NewName
<1>4. CASE RenameStep
  BY <1>1, <1>4, RenameCheckpathUps, RenameTargetUps, RenameEnterUps, RenameRefuseUps,
     RenameRewriteUps, RenameOldparentUps, RenameDotdotUps, RenameUnlinkUps, RenameBadUps
     DEF RenameStep
<1>5. ASSUME NEW i \in Inos, Fsync(i) PROVE UpInv'
  <2>1. UNCHANGED <<dotdot, core, call>>
    BY <1>5 DEF Fsync, Flush, tree
  <2>2. QED BY <1>1, <2>1, StillUps
<1>6. CASE UNCHANGED vars
  BY <1>1, <1>6, StillUps DEF vars
<1>7. QED BY <1>1, <1>2, <1>3, <1>4, <1>5, <1>6, InactiveUps DEF Next, Stopped

\* At every step of every call, also of a rename between ext2_checkpath() and the new "..",
\* the directories form no loop.
THEOREM UpInvariant == Spec => [](TypeOK /\ IInv /\ UpInv)
<1>1. Init => TypeOK /\ IInv /\ UpInv
  BY InitInv, InitUps
<1>2. TypeOK /\ IInv /\ UpInv /\ [Next]_vars => (TypeOK /\ IInv /\ UpInv)'
  BY NextInv, NextUps
<1>3. QED BY <1>1, <1>2, PTL DEF Spec

\* However often ext2_rename() moves directories into each other, between the calls each of
\* them that has a name is below the root, in the directory that its ".." names, unless a
\* rename has left a wrong entry (`stray`).
THEOREM DirectoriesAreATree == Spec => []Tree
<1>1. ASSUME TypeOK, IInv, UpInv PROVE Tree
  <2> SUFFICES ASSUME Idle, NEW i \in used \ {Root}, IsDir(i), NamesOf(i) # {}
               PROVE  Root \in Above(i) /\ \E n \in Names : ent[dotdot[i]][n] = i
    BY <1>1 DEF Tree
  <2>1. /\ ~stray /\ TreeInv /\ FreeInv /\ call.op = "none" /\ i \in Inos
        /\ Loopless /\ Rooted /\ UpDir /\ \A j, a, m : ~Away(j, a, m)
    BY <1>1, IdleFacts DEF UpInv, TypeOK, IInv
  <2>2. PICK a \in Inos, n \in Names : ent[a][n] = i
    <3>1. PICK e \in Inos \X Names : ent[e[1]][e[2]] = i
      BY DEF NamesOf
    <3>2. e[1] \in Inos /\ e[2] \in Names
      BY <3>1
    <3>3. QED BY <3>1, <3>2
  <2>3. core[i].nlink > 0 /\ i # NoIno
    BY <1>1, <2>1, <2>2, NamedLive, VnopsAssumption DEF TreeInv
  <2>4. dotdot[i] = a
    BY <2>1, <2>2 DEF TreeInv, Home
  <2>5. Alive(i)
    BY <2>3 DEF Alive, IsDir
  <2> DEFINE L == {x \in Inos : Alive(x)}
             A == Above(i)
  <2>6. \A x \in L : dotdot[x] \in L
    <3> TAKE x \in L
    <3>1. dotdot[x] \in Inos
      BY <2>1 DEF Rooted
    <3>2. dotdot[x] # NoIno
      BY <3>1, VnopsAssumption
    <3>3. dotdot[x] \in Inos /\ Alive(dotdot[x])
      BY <1>1, <2>1, <3>2, ParentAlive
    <3>4. QED BY <3>3
  <2>7. i \in A /\ A \subseteq Inos /\ Closed(A) /\ A \subseteq L
    <3>1. i \in L /\ Closed(L)
      BY <2>1, <2>5, <2>6 DEF Closed
    <3> HIDE DEF L
    <3>2. QED BY <1>1, <2>1, <3>1, AboveFacts
  <2>8. \A x \in A : Alive(x) /\ dotdot[x] \in A
    <3> HIDE DEF A
    <3>1. \A x \in A : dotdot[x] \in A \cup {NoIno} /\ dotdot[x] \in Inos
      BY <2>6, <2>7 DEF Closed
    <3>2. QED BY <2>7, <3>1, VnopsAssumption
  <2>9. Root \in A
    <3> HIDE DEF A
    <3>1. QED BY <2>1, <2>7, <2>8 DEF Loopless
  <2>10. QED BY <2>2, <2>4, <2>9
<1>2. QED BY <1>1, UpInvariant, PTL

=============================================================================
