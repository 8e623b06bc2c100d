--------------------------- MODULE Ext2VnopsProofs ---------------------------
(***************************************************************************)
(* Proofs about Ext2Vnops, for any number of inodes and names and any      *)
(* number of failing writes.                                               *)
(*                                                                         *)
(* The link counts are right between the calls because each call keeps an  *)
(* account: while it runs, an inode's count is the number of references to *)
(* it plus what the call owes it (Owed), the name that it has counted and  *)
(* not entered yet, or the ".." that it has counted, or no longer counts,  *)
(* and not written yet.  That account (Counted) is the inductive           *)
(* invariant; from it follows that no inode with a name has count zero,    *)
(* and from that what the disk may hold when the machine stops.  The       *)
(* account is not kept any more once `stray` is set; what a rename within  *)
(* one directory does when it removes another file's entry is outside of   *)
(* these theorems, as it is a defect of the code.                          *)
(***************************************************************************)
EXTENDS Ext2Vnops, FiniteSetTheorems, TLAPS

(***************************************************************************)
(* The invariant.                                                          *)
(***************************************************************************)

\* One if p.
One(p) == IF p THEN 1 ELSE 0

\* What the running call has counted and not done yet, or done and not counted.
NameOwed(i) ==
  /\ i = call.ip
  /\ \/ call.op \in {"mkdir", "link"}
     \/ call.op = "makeinode" /\ call.pc # "made"
     \/ call.op = "rename" /\ call.pc \in {"checkpath", "target", "enter", "bad"}
UpOwed(i) ==
  \/ call.op = "mkdir" /\ call.pc = "fill" /\ i = call.d
  \/ /\ call.op = "rename" /\ call.pc \in {"enter", "oldparent", "dotdot", "panic"}
     /\ Doingdirectory /\ Newparent /\ i = call.td
DownOwed(i) ==
  \/ call.op = "mkdir" /\ call.pc = "bad" /\ dotdot[call.ip] = call.d /\ i = call.d
  \/ call.op = "rename" /\ call.pc \in {"dotdot", "panic"} /\ i = call.d
Owed(i) == One(NameOwed(i)) + One(UpOwed(i)) - One(DownOwed(i))

\* The account of an inode: exact as long as nothing has failed, and never short.  One whose
\* count is zero is not referred to.
Slack(i) == core[i].nlink - Refs(i) - Owed(i)
Counted(i) ==
  IF core[i].nlink = 0
  THEN NamesOf(i) = {} /\ Children(i) = {} /\ ent[i] = NoEntries
  ELSE core[i].nlink > 0 /\ Slack(i) >= 0 /\ (faults = 0 => Slack(i) = 0)

\* Where a running call is, and what its arguments still are.
CallInv ==
  /\ call.op = "none" <=> call.pc = "idle"
  /\ call.op \notin {"remove", "rmdir"}
  /\ call.op = "makeinode" => call.pc \in {"init", "enter", "made", "bad"}
  /\ call.op = "mkdir" => call.pc \in {"init", "parent", "fill", "enter", "bad"}
  /\ call.op = "link" => call.pc = "enter"
  /\ call.op = "rename" => call.pc \in {"checkpath", "target", "enter", "bad", "oldparent",
                                        "dotdot", "unlink", "panic"}
  /\ call.op # "none" =>
       /\ call.ip \in used /\ call.d \in used /\ call.td \in used
       /\ core[call.d].mode = "dir" /\ core[call.td].mode = "dir"
MakeInv ==
  /\ call.op = "makeinode" => /\ core[call.ip].mode = "file"
                              /\ call.pc # "made" => core[call.ip].nlink = 1
  /\ call.op = "mkdir" => /\ core[call.ip].mode = "dir" /\ core[call.ip].nlink = 2
                          /\ call.ip # call.d /\ call.ip # Root /\ ent[call.ip] = NoEntries
                          /\ dotdot[call.ip] \in {NoIno, call.d}
                          /\ call.pc = "enter" => dotdot[call.ip] = call.d
                          /\ call.pc \in {"init", "parent", "fill"} => dotdot[call.ip] = NoIno
  /\ call.op = "link" => core[call.ip].mode = "file" /\ core[call.ip].nlink > 1
  /\ call.op \in {"makeinode", "mkdir", "link"} /\ call.pc \notin {"made", "bad"} =>
       ent[call.d][call.n] = NoIno
RenameInv ==
  call.op = "rename" =>
    /\ ent[call.d][call.n] = call.ip /\ call.xp # call.ip
    /\ <<call.d, call.n>> # <<call.td, call.tn>>
    /\ Doingdirectory => call.ip # call.d
    /\ call.pc \in {"checkpath", "target", "enter"} => ent[call.td][call.tn] = call.xp
    /\ call.pc = "enter" => call.xp = NoIno
    /\ call.pc \in {"oldparent", "dotdot", "unlink", "panic"} => ent[call.td][call.tn] = call.ip
    /\ call.pc \in {"target", "enter", "oldparent", "dotdot", "panic"} /\ Doingdirectory /\ Newparent =>
         call.ip # call.td /\ (ftype \/ call.td = Root)
    /\ call.pc \in {"dotdot", "panic"} => Doingdirectory /\ Newparent
    /\ call.pc = "panic" => ~ftype
    /\ stray => call.pc = "bad" \/ (call.pc = "unlink" /\ Doingdirectory)

\* What is free holds nothing, and only directories have entries.
FreeInv ==
  \A i \in Inos : /\ i \notin used => core[i].mode = "free" /\ core[i].nlink = 0
                                      /\ dotdot[i] = NoIno
                  /\ core[i].mode # "dir" => ent[i] = NoEntries

\* A directory is in the one that its ".." names, but for a rename on its way.
Away(i, a, m) ==
  /\ call.op = "rename" /\ i = call.ip
  /\ \/ call.pc \in {"oldparent", "dotdot", "panic"} /\ a = call.td /\ m = call.tn
     \/ call.pc = "unlink" /\ a = call.d /\ m = call.n
Home == \A a \in Inos, m \in Names :
          IsDir(ent[a][m]) => dotdot[ent[a][m]] = a \/ Away(ent[a][m], a, m)
\* It has no other name.
Once == \A a, b \in Inos, m, k \in Names :
          IsDir(ent[a][m]) /\ ent[b][k] = ent[a][m] =>
            (a = b /\ m = k) \/ Away(ent[a][m], a, m) \/ Away(ent[a][m], b, k)
RootInv ==
  /\ core[Root].mode = "dir" /\ core[Root].nlink > 0 /\ dotdot[Root] = Root
  /\ \A a \in Inos, m \in Names : ent[a][m] # Root
  /\ \A i \in Inos : dotdot[i] = i => i = Root

\* What has a name, or is about to get one, has been written.
Written(i) == disk[i].mode = core[i].mode /\ disk[i].nlink > 0
DiskInv ==
  /\ \A a \in Inos, m \in Names : ent[a][m] # NoIno => Written(ent[a][m])
  /\ call.op \in {"makeinode", "link"} /\ call.pc = "enter" => Written(call.ip)
  /\ call.op = "mkdir" /\ call.pc \in {"parent", "fill", "enter"} => Written(call.ip)

\* The directories of a running call are not removed under it.
LiveInv == call.op # "none" => core[call.d].nlink > 0 /\ core[call.td].nlink > 0

TreeInv == Home /\ Once /\ RootInv /\ LiveInv /\ DiskInv /\ \A i \in Inos : Counted(i)
IInv    == CallInv /\ MakeInv /\ RenameInv /\ FreeInv /\ (~stray => TreeInv)

(***************************************************************************)
(* Facts about the helper operators.                                       *)
(***************************************************************************)

\* The places in a call.
CallPcs == {"idle", "init", "parent", "fill", "enter", "made", "bad", "checkpath", "target",
            "rewrite", "oldparent", "dotdot", "unlink", "panic"}

\* No call: its arguments name the root and nothing.
LEMMA NoCallFacts ==
  /\ NoCall \in Calls /\ NoCall.op = "none" /\ NoCall.pc = "idle" /\ NoCall.ip = NoIno
  /\ NoCall.d = Root /\ NoCall.td = Root /\ NoCall.xp = NoIno
<1>1. PICK n \in Names : n = CHOOSE m \in Names : TRUE
  BY VnopsAssumption
<1>2. QED BY <1>1, VnopsAssumption DEF NoCall, Calls

\* Going on to another place keeps the arguments.
LEMMA GotoFields ==
  ASSUME call \in Calls, NEW p \in CallPcs, Goto(p)
  PROVE  /\ call' \in Calls /\ call'.pc = p /\ call'.op = call.op
         /\ call'.d = call.d /\ call'.n = call.n /\ call'.ip = call.ip
         /\ call'.td = call.td /\ call'.tn = call.tn /\ call'.xp = call.xp
BY DEF Goto, Calls, CallPcs

\* A count that is raised or lowered leaves everything else as it is.
LEMMA NlinkFacts ==
  ASSUME NEW c \in [Inos -> Inode], NEW i \in Inos, NEW k \in Int
  PROVE  /\ Nlink(c, i, k) \in [Inos -> Inode]
         /\ \A j \in Inos : /\ Nlink(c, i, k)[j].mode = c[j].mode
                            /\ Nlink(c, i, k)[j].rename = c[j].rename
                            /\ j # i => Nlink(c, i, k)[j].nlink = c[j].nlink
         /\ Nlink(c, i, k)[i].nlink = c[i].nlink + k
<1> DEFINE r == [c[i] EXCEPT !.nlink = @ + k]
<1>1. Nlink(c, i, k) = [c EXCEPT ![i] = r]
  BY DEF Nlink
<1>2. c[i] \in Inode
  OBVIOUS
<1>3. r \in Inode /\ r.mode = c[i].mode /\ r.rename = c[i].rename /\ r.nlink = c[i].nlink + k
  BY <1>2 DEF Inode
<1> HIDE DEF r
<1>4. QED BY <1>1, <1>3

\* IN_RENAME is cleared in one inode.
Cleared(c, i) == [c EXCEPT ![i].rename = FALSE]
LEMMA ClearedFacts ==
  ASSUME NEW c \in [Inos -> Inode], NEW i \in Inos
  PROVE  /\ Cleared(c, i) \in [Inos -> Inode]
         /\ \A j \in Inos : /\ Cleared(c, i)[j].mode = c[j].mode
                            /\ Cleared(c, i)[j].nlink = c[j].nlink
                            /\ j # i => Cleared(c, i)[j].rename = c[j].rename
         /\ Cleared(c, i)[i].rename = FALSE
<1> DEFINE b == FALSE
           r == [c[i] EXCEPT !.rename = b]
<1>1. Cleared(c, i) = [c EXCEPT ![i] = r] /\ b \in BOOLEAN
  BY DEF Cleared
<1> HIDE DEF b
<1>2. c[i] \in Inode
  OBVIOUS
<1>3. r \in Inode /\ r.mode = c[i].mode /\ r.rename = b /\ r.nlink = c[i].nlink
  BY <1>1, <1>2 DEF Inode
<1> HIDE DEF r
<1>4. /\ Cleared(c, i) \in [Inos -> Inode]
      /\ \A j \in Inos : /\ Cleared(c, i)[j].mode = c[j].mode
                         /\ Cleared(c, i)[j].nlink = c[j].nlink
                         /\ j # i => Cleared(c, i)[j].rename = c[j].rename
      /\ Cleared(c, i)[i].rename = b
  BY <1>1, <1>3
<1>5. QED BY <1>4 DEF b

\* A count is lowered or raised and IN_RENAME set or cleared.
Flagged(c, i, k, b) == [Nlink(c, i, k) EXCEPT ![i].rename = b]
LEMMA FlaggedFacts ==
  ASSUME NEW c \in [Inos -> Inode], NEW i \in Inos, NEW k \in Int, NEW b \in BOOLEAN
  PROVE  LET e == Flagged(c, i, k, b) IN
         /\ e \in [Inos -> Inode]
         /\ \A j \in Inos : /\ e[j].mode = c[j].mode
                            /\ j # i => e[j].nlink = c[j].nlink /\ e[j].rename = c[j].rename
         /\ e[i].nlink = c[i].nlink + k /\ e[i].rename = b
<1> DEFINE e == Flagged(c, i, k, b)
<1> DEFINE h == Nlink(c, i, k)
<1>1. /\ h \in [Inos -> Inode]
      /\ \A j \in Inos : /\ h[j].mode = c[j].mode /\ h[j].rename = c[j].rename
                         /\ j # i => h[j].nlink = c[j].nlink
      /\ h[i].nlink = c[i].nlink + k
  BY NlinkFacts
<1>2. e = [h EXCEPT ![i].rename = b]
  BY DEF Flagged
<1>3. h \in [Inos -> Inode]
  BY <1>1
<1> HIDE DEF h, e
<1>4. /\ e \in [Inos -> Inode]
      /\ \A j \in Inos : /\ e[j].mode = h[j].mode /\ e[j].nlink = h[j].nlink
                         /\ j # i => e[j].rename = h[j].rename
      /\ e[i].rename = b
  <2> DEFINE r == [h[i] EXCEPT !.rename = b]
  <2>1. e = [h EXCEPT ![i] = r]
    BY <1>2
  <2>2. h[i] \in Inode
    BY <1>3
  <2>3. r \in Inode /\ r.mode = h[i].mode /\ r.rename = b /\ r.nlink = h[i].nlink
    BY <2>2 DEF Inode
  <2> HIDE DEF r
  <2>4. QED BY <1>3, <2>1, <2>3
<1>5. QED BY <1>1, <1>4 DEF e

\* What ext2_i2ei() copies.
LEMMA I2eiFacts ==
  ASSUME NEW ip \in Inode
  PROVE  I2ei(ip) \in Dinode /\ I2ei(ip).mode = ip.mode /\ I2ei(ip).nlink = ip.nlink
BY DEF I2ei, Inode, Dinode

\* A fault counts up to its bound.
LEMMA FaultFacts ==
  ASSUME faults \in 0..MaxFaults, Fault \/ NoFault
  PROVE  /\ faults' \in 0..MaxFaults /\ faults' >= faults
         /\ Fault => faults' # 0
BY VnopsAssumption DEF Fault, NoFault

(***************************************************************************)
(* References.                                                             *)
(***************************************************************************)

Dot(i) == IF core[i].mode = "dir" THEN 1 ELSE 0
Alive(x) == core[x].mode = "dir" /\ core[x].nlink > 0
Child(x, i) == x # Root /\ Alive(x) /\ dotdot[x] = i

\* The sets that Refs counts are finite, and what is in them.
LEMMA RefSets ==
  ASSUME NEW i
  PROVE  /\ IsFiniteSet(NamesOf(i)) /\ IsFiniteSet(Children(i))
         /\ \A a \in Inos, m \in Names : <<a, m>> \in NamesOf(i) <=> ent[a][m] = i
         /\ \A x \in Inos : x \in Children(i) <=> Child(x, i)
         /\ NamesOf(i) \subseteq Inos \X Names /\ Children(i) \subseteq Inos
<1>1. NamesOf(i) \subseteq Inos \X Names /\ Children(i) \subseteq Inos
  BY DEF NamesOf, Children
<1>2. IsFiniteSet(Inos \X Names) /\ IsFiniteSet(Inos)
  BY VnopsAssumption, FS_Product
<1>3. IsFiniteSet(NamesOf(i)) /\ IsFiniteSet(Children(i))
  BY <1>1, <1>2, FS_Subset
<1>4. \A a \in Inos, m \in Names : <<a, m>> \in NamesOf(i) <=> ent[a][m] = i
  BY DEF NamesOf
<1>5. \A x \in Inos : x \in Children(i) <=> Child(x, i)
  BY DEF Children, Child, Alive
<1>6. QED BY <1>1, <1>3, <1>4, <1>5

\* One is zero or one, and its truth can be read off.
LEMMA OneFacts == \A p \in BOOLEAN : One(p) \in {0, 1} /\ (One(p) = 1 <=> p)
BY DEF One

\* Two sets that differ in x at most differ in size by x at most.
LEMMA OneApart ==
  ASSUME NEW S, NEW T, NEW x, IsFiniteSet(S), S \ {x} = T \ {x}
  PROVE  /\ Cardinality(S) \in Int /\ Cardinality(T) \in Int
         /\ Cardinality(T) - One(x \in T) = Cardinality(S) - One(x \in S)
<1>1. IsFiniteSet(S \ {x}) /\ Cardinality(S \ {x}) = Cardinality(S) - One(x \in S)
  BY FS_RemoveElement, FS_CardinalityType DEF One
<1>2. IsFiniteSet(T)
  <2>1. CASE x \in T
    <3>1. T = (S \ {x}) \cup {x}
      BY <2>1
    <3>2. QED BY <1>1, <3>1, FS_AddElement
  <2>2. CASE x \notin T
    <3>1. T = S \ {x}
      BY <2>2
    <3>2. QED BY <1>1, <3>1
  <2>3. QED BY <2>1, <2>2
<1>3. Cardinality(T \ {x}) = Cardinality(T) - One(x \in T)
  BY <1>2, FS_RemoveElement, FS_CardinalityType DEF One
<1>4. Cardinality(S) \in Int /\ Cardinality(T) \in Int
  BY <1>2, FS_CardinalityType
<1>5. QED BY <1>1, <1>3, <1>4

\* A finite set has at least one element for x in it, and no other if it has no more.
LEMMA AtLeastOne ==
  ASSUME NEW S, NEW x, IsFiniteSet(S)
  PROVE  /\ Cardinality(S) \in Nat /\ Cardinality(S) >= One(x \in S)
         /\ Cardinality(S) = One(x \in S) => S \subseteq {x}
<1>1. IsFiniteSet(S \ {x}) /\ Cardinality(S \ {x}) = Cardinality(S) - One(x \in S)
  BY FS_RemoveElement, FS_CardinalityType DEF One
<1>2. Cardinality(S \ {x}) \in Nat /\ Cardinality(S) \in Nat
  BY <1>1, FS_CardinalityType
<1>3. Cardinality(S \ {x}) = 0 => S \ {x} = {}
  BY <1>1, FS_EmptySet
<1>4. One(x \in S) \in Int
  BY DEF One
<1>5. QED BY <1>1, <1>2, <1>3, <1>4

\* References to i, but for those that one name e and one directory x may make.
LEMMA RefsLow ==
  ASSUME NEW i, NEW e, NEW x
  PROVE  /\ Refs(i) \in Int
         /\ Refs(i) >= One(e \in NamesOf(i)) + One(x \in Children(i)) + Dot(i) + One(i = Root)
         /\ Refs(i) = One(e \in NamesOf(i)) + One(x \in Children(i)) + Dot(i) + One(i = Root)
              => NamesOf(i) \subseteq {e} /\ Children(i) \subseteq {x}
<1> DEFINE N == Cardinality(NamesOf(i))
           C == Cardinality(Children(i))
           p == One(e \in NamesOf(i))
           q == One(x \in Children(i))
           r == One(i = Root)
           o == Dot(i)
<1>1. /\ N \in Nat /\ N >= p /\ (N = p => NamesOf(i) \subseteq {e})
      /\ C \in Nat /\ C >= q /\ (C = q => Children(i) \subseteq {x})
  BY RefSets, AtLeastOne
<1>2. p \in Int /\ q \in Int /\ r \in Int /\ o \in Int
  BY DEF One, Dot
<1>3. Refs(i) = N + C + o + r
  BY DEF Refs, Dot, One
<1> HIDE DEF N, C, p, q, r, o
<1>4. /\ Refs(i) \in Int /\ Refs(i) >= p + q + o + r
      /\ Refs(i) = p + q + o + r => N = p /\ C = q
  BY <1>1, <1>2, <1>3
<1>5. QED BY <1>1, <1>4 DEF p, q, r, o

\* A step that touches no name but e and no ".." but that of x.
LEMMA RefsStep ==
  ASSUME NEW i, NEW e, NEW x,
         NamesOf(i)' \ {e} = NamesOf(i) \ {e}, Children(i)' \ {x} = Children(i) \ {x}
  PROVE  /\ Refs(i) \in Int /\ Refs(i)' \in Int
         /\ Refs(i)' - Refs(i) =
              (One(e \in NamesOf(i)') - One(e \in NamesOf(i)))
              + (One(x \in Children(i)') - One(x \in Children(i))) + (Dot(i)' - Dot(i))
<1> DEFINE N == Cardinality(NamesOf(i))
           C == Cardinality(Children(i))
           M == Cardinality(NamesOf(i)')
           D == Cardinality(Children(i)')
           p == One(e \in NamesOf(i))
           q == One(x \in Children(i))
           s == One(e \in NamesOf(i)')
           t == One(x \in Children(i)')
           r == One(i = Root)
           o == Dot(i)
           u == Dot(i)'
<1>1. /\ N \in Int /\ M \in Int /\ M - s = N - p
      /\ C \in Int /\ D \in Int /\ D - t = C - q
  BY RefSets, OneApart
<1>2. /\ p \in Int /\ q \in Int /\ s \in Int /\ t \in Int /\ r \in Int /\ o \in Int /\ u \in Int
  BY DEF One, Dot
<1>3. Refs(i) = N + C + o + r /\ Refs(i)' = M + D + u + r
  BY DEF Refs, Dot, One
<1> HIDE DEF N, C, M, D, p, q, s, t, r, o, u
<1>4. /\ Refs(i) \in Int /\ Refs(i)' \in Int
      /\ Refs(i)' - Refs(i) = (s - p) + (t - q) + (u - o)
  BY <1>1, <1>2, <1>3
<1>5. QED BY <1>4 DEF p, q, s, t, o, u

\* What a step changes at most: the name m in a, and what makes x a child of a directory.
Touches(a, m, x) ==
  /\ \A b \in Inos, k \in Names : b # a \/ k # m => ent'[b][k] = ent[b][k]
  /\ \A y \in Inos : y # x => dotdot'[y] = dotdot[y] /\ (Alive(y)' <=> Alive(y))

\* Such a step changes what Refs counts in these two places only.
LEMMA TouchedSets ==
  ASSUME NEW i, NEW a \in Inos, NEW m \in Names, NEW x \in Inos, Touches(a, m, x)
  PROVE  /\ NamesOf(i)' \ {<<a, m>>} = NamesOf(i) \ {<<a, m>>}
         /\ Children(i)' \ {x} = Children(i) \ {x}
         /\ <<a, m>> \in NamesOf(i) <=> ent[a][m] = i
         /\ <<a, m>> \in NamesOf(i)' <=> ent'[a][m] = i
         /\ x \in Children(i) <=> Child(x, i)
         /\ x \in Children(i)' <=> Child(x, i)'
<1>1. ASSUME NEW e \in Inos \X Names, e # <<a, m>>
      PROVE  e \in NamesOf(i)' <=> e \in NamesOf(i)
  <2>1. e = <<e[1], e[2]>> /\ e[1] \in Inos /\ e[2] \in Names
    OBVIOUS
  <2>2. e[1] # a \/ e[2] # m
    BY <1>1, <2>1
  <2>3. QED BY <2>1, <2>2 DEF NamesOf, Touches
<1>2. NamesOf(i) \subseteq Inos \X Names /\ NamesOf(i)' \subseteq Inos \X Names
  BY DEF NamesOf
<1>3. NamesOf(i)' \ {<<a, m>>} = NamesOf(i) \ {<<a, m>>}
  BY <1>1, <1>2
<1>4. Children(i)' \ {x} = Children(i) \ {x}
  BY DEF Children, Touches, Alive
<1>5. /\ <<a, m>> \in NamesOf(i) <=> ent[a][m] = i
      /\ <<a, m>> \in NamesOf(i)' <=> ent'[a][m] = i
  BY DEF NamesOf
<1>6. /\ x \in Children(i) <=> Child(x, i)
      /\ x \in Children(i)' <=> Child(x, i)'
  BY DEF Children, Child, Alive
<1>7. QED BY <1>3, <1>4, <1>5, <1>6

\* What a call owes is a number.
LEMMA OwedType == \A i : Owed(i) \in Int /\ Owed(i)' \in Int
BY DEF Owed, One

\* The change of references to i, and of what is owed to it, in a step.
Change(a, m, x, i) ==
  (One(ent'[a][m] = i) - One(ent[a][m] = i)) + (One(Child(x, i)') - One(Child(x, i)))
  + (Dot(i)' - Dot(i)) + (Owed(i)' - Owed(i))

\* An account is kept by a step that adds to the count what it adds in references and debts.
LEMMA CountedStep ==
  ASSUME TypeOK, TypeOK', NEW i \in Inos, Counted(i), NEW a \in Inos, NEW m \in Names,
         NEW x \in Inos, Touches(a, m, x), faults' >= faults,
         core[i].nlink > 0, core'[i].nlink > 0,
         core'[i].nlink - core[i].nlink >= Change(a, m, x, i),
         faults' = 0 => core'[i].nlink - core[i].nlink = Change(a, m, x, i)
  PROVE  Counted(i)'
<1> DEFINE l == core[i].nlink
           k == core'[i].nlink
           R == Refs(i)
           Q == Refs(i)'
           O == Owed(i)
           P == Owed(i)'
           c == Change(a, m, x, i)
<1>1. l \in Int /\ k \in Int /\ faults \in Nat /\ faults' \in Nat
  BY VnopsAssumption DEF TypeOK, Inode
<1>2. O \in Int /\ P \in Int
  BY OwedType
<1>3. R \in Int /\ Q \in Int /\ c = (Q - R) + (P - O)
  <2>1. /\ One(<<a, m>> \in NamesOf(i)) = One(ent[a][m] = i)
        /\ One(<<a, m>> \in NamesOf(i)') = One(ent'[a][m] = i)
        /\ One(x \in Children(i)) = One(Child(x, i))
        /\ One(x \in Children(i)') = One(Child(x, i)')
    BY TouchedSets DEF One
  <2>2. /\ R \in Int /\ Q \in Int
        /\ Q - R =
              (One(<<a, m>> \in NamesOf(i)') - One(<<a, m>> \in NamesOf(i)))
              + (One(x \in Children(i)') - One(x \in Children(i))) + (Dot(i)' - Dot(i))
    BY TouchedSets, RefsStep
  <2>3. Q - R = (One(ent'[a][m] = i) - One(ent[a][m] = i))
                + (One(Child(x, i)') - One(Child(x, i))) + (Dot(i)' - Dot(i))
    BY <2>1, <2>2
  <2>4. c = (One(ent'[a][m] = i) - One(ent[a][m] = i))
            + (One(Child(x, i)') - One(Child(x, i))) + (Dot(i)' - Dot(i)) + (P - O)
    BY DEF Change
  <2>5. QED BY <2>2, <2>3, <2>4
<1>4. l > 0 /\ k > 0 /\ k - l >= c /\ (faults' = 0 => k - l = c)
  OBVIOUS
<1>5. l - R - O >= 0 /\ (faults = 0 => l - R - O = 0)
  BY <1>1, <1>4 DEF Counted, Slack
<1> HIDE DEF l, k, R, Q, O, P, c
<1>6. k - Q - P >= 0 /\ (faults' = 0 => k - Q - P = 0)
  BY <1>1, <1>2, <1>3, <1>4, <1>5
<1>7. k # 0 /\ k > 0
  BY <1>1, <1>4
<1>8. QED BY <1>6, <1>7 DEF Counted, Slack, k, Q, P

\* What is not referred to stays so if the step does not refer to it.
LEMMA CountedDead ==
  ASSUME NEW i \in Inos, Counted(i), NEW a \in Inos, NEW m \in Names, NEW x \in Inos,
         Touches(a, m, x), core[i].nlink = 0, core'[i].nlink = 0,
         ent'[a][m] # i, ~Child(x, i)', ent'[i] = NoEntries
  PROVE  Counted(i)'
<1>1. NamesOf(i) = {} /\ Children(i) = {}
  BY DEF Counted
<1>2. /\ NamesOf(i)' \ {<<a, m>>} = NamesOf(i) \ {<<a, m>>} /\ <<a, m>> \notin NamesOf(i)'
      /\ Children(i)' \ {x} = Children(i) \ {x} /\ x \notin Children(i)'
  BY TouchedSets
<1>3. NamesOf(i)' = {} /\ Children(i)' = {}
  BY <1>1, <1>2
<1>4. QED BY <1>3 DEF Counted

\* A count that is not zero covers what refers to the inode, a name and a child among it; one
\* that covers no more says that there is no other name and no other child.
LEMMA CountBounds ==
  ASSUME TypeOK, NEW i \in Inos, Counted(i), core[i].nlink # 0,
         NEW a \in Inos, NEW m \in Names, NEW x \in Inos
  PROVE  LET low == One(ent[a][m] = i) + One(Child(x, i)) + Dot(i) + One(i = Root) + Owed(i)
         IN  /\ core[i].nlink >= low
             /\ core[i].nlink <= low => NamesOf(i) \subseteq {<<a, m>>} /\ Children(i) \subseteq {x}
<1> DEFINE l == core[i].nlink
           R == Refs(i)
           O == Owed(i)
           p == One(ent[a][m] = i)
           q == One(Child(x, i))
           o == Dot(i)
           r == One(i = Root)
<1>1. p = One(<<a, m>> \in NamesOf(i)) /\ q = One(x \in Children(i))
  BY RefSets DEF One
<1>2. /\ R \in Int /\ R >= p + q + o + r
      /\ R = p + q + o + r => NamesOf(i) \subseteq {<<a, m>>} /\ Children(i) \subseteq {x}
  BY <1>1, RefsLow
<1>3. l \in Int /\ O \in Int /\ p \in Int /\ q \in Int /\ o \in Int /\ r \in Int
  BY OwedType DEF TypeOK, Inode, One, Dot
<1>4. l - R - O >= 0
  BY DEF Counted, Slack
<1> DEFINE s == p + q + o + r
<1> HIDE DEF l, R, O, p, q, o, r
<1>5. s \in Int
  BY <1>3
<1>6. R \in Int /\ R >= s
  BY <1>2
<1> HIDE DEF s
<1>7. l >= s + O /\ (l <= s + O => R = s)
  BY <1>3, <1>4, <1>5, <1>6
<1>8. QED BY <1>2, <1>7 DEF s, l, O, p, q, o, r

(***************************************************************************)
(* Types.                                                                  *)
(***************************************************************************)

\* The types of everything but IN_RENAME.
Types ==
  /\ ftype \in Ftypes
  /\ ent \in [Inos -> [Names -> Inos \cup {NoIno}]]
  /\ dotdot \in [Inos -> Inos \cup {NoIno}]
  /\ core \in [Inos -> Inode] /\ disk \in [Inos -> Dinode]
  /\ used \subseteq Inos /\ stray \in BOOLEAN
  /\ call \in Calls /\ faults \in 0..MaxFaults

\* Writing an inode keeps the types.
LEMMA UpdateTypes ==
  ASSUME Types, NEW c \in [Inos -> Inode], NEW i \in Inos, Updated(c, i) \/ UpdateFails
  PROVE  /\ disk' \in [Inos -> Dinode] /\ faults' \in 0..MaxFaults /\ faults' >= faults
         /\ Updated(c, i) => /\ faults' = faults
                             /\ disk'[i].mode = c[i].mode /\ disk'[i].nlink = c[i].nlink
         /\ UpdateFails => faults' # 0 /\ disk' = disk
         /\ \A j \in Inos :
              \/ disk'[j] = disk[j]
              \/ j = i /\ disk'[j].mode = c[i].mode /\ disk'[j].nlink = c[i].nlink
<1>1. c[i] \in Inode
  OBVIOUS
<1>2. I2ei(c[i]) \in Dinode /\ I2ei(c[i]).mode = c[i].mode /\ I2ei(c[i]).nlink = c[i].nlink
  BY <1>1, I2eiFacts
<1>3. CASE Updated(c, i)
  BY <1>2, <1>3, VnopsAssumption DEF Updated, NoFault, UpdateFails, Fault, Types
<1>4. CASE UpdateFails
  <2>1. faults' = faults + 1 /\ faults < MaxFaults /\ disk' = disk
    BY <1>4 DEF UpdateFails, Fault
  <2>2. faults' # faults
    BY <2>1, VnopsAssumption DEF Types
  <2>3. QED BY <1>4, <2>1, <2>2, VnopsAssumption DEF Updated, NoFault, Types
<1>5. QED BY <1>3, <1>4

\* A changed entry keeps the types.
Entry(a, m, i) == [ent EXCEPT ![a][m] = i]
LEMMA EntryTypes ==
  ASSUME Types, NEW a \in Inos, NEW m \in Names, NEW i \in Inos \cup {NoIno},
         ent' = Entry(a, m, i)
  PROVE  /\ ent' \in [Inos -> [Names -> Inos \cup {NoIno}]]
         /\ ent'[a][m] = i
         /\ \A b \in Inos, k \in Names : b # a \/ k # m => ent'[b][k] = ent[b][k]
         /\ \A b \in Inos : b # a => ent'[b] = ent[b]
<1> DEFINE r == [ent[a] EXCEPT ![m] = i]
<1>1. ent' = [ent EXCEPT ![a] = r]
  BY DEF Entry
<1>2. ent[a] \in [Names -> Inos \cup {NoIno}] /\ ent \in [Inos -> [Names -> Inos \cup {NoIno}]]
  BY DEF Types
<1>3. r \in [Names -> Inos \cup {NoIno}] /\ r[m] = i /\ \A k \in Names : k # m => r[k] = ent[a][k]
  BY <1>2
<1> HIDE DEF r
<1>4. QED BY <1>1, <1>2, <1>3

\* What has a name is allocated and has a count.
LEMMA NamedLive ==
  ASSUME TypeOK, FreeInv, \A i \in Inos : Counted(i), NEW a \in Inos, NEW m \in Names,
         ent[a][m] # NoIno
  PROVE  /\ ent[a][m] \in Inos /\ ent[a][m] \in used
         /\ core[ent[a][m]].nlink > 0
<1> DEFINE i == ent[a][m]
<1>1. i \in Inos
  BY DEF TypeOK
<1>2. <<a, m>> \in NamesOf(i)
  BY RefSets
<1>3. core[i].nlink # 0
  BY <1>1, <1>2 DEF Counted
<1>4. core[i].nlink > 0
  BY <1>1, <1>3 DEF Counted
<1>5. QED BY <1>1, <1>3, <1>4 DEF FreeInv

\* A directory has one name after a step that enters none but the one that is away.
LEMMA OnceStep ==
  ASSUME Once,
         \A a \in Inos, m \in Names :
           IsDir(ent[a][m])' =>
             \/ Away(ent[a][m], a, m)'
             \/ ent'[a][m] = ent[a][m] /\ IsDir(ent[a][m]) /\ ~Away(ent[a][m], a, m)
  PROVE  Once'
<1> SUFFICES ASSUME NEW a \in Inos, NEW m \in Names, NEW b \in Inos, NEW k \in Names,
                    IsDir(ent[a][m])', ent'[b][k] = ent'[a][m],
                    ~Away(ent[a][m], a, m)', ~Away(ent[a][m], b, k)'
             PROVE  a = b /\ m = k
  BY DEF Once
<1>1. IsDir(ent[b][k])' /\ ~Away(ent[b][k], b, k)'
  BY DEF IsDir, Away
<1>2. /\ ent'[a][m] = ent[a][m] /\ IsDir(ent[a][m]) /\ ~Away(ent[a][m], a, m)
      /\ ent'[b][k] = ent[b][k] /\ ~Away(ent[b][k], b, k)
  BY <1>1
<1>3. ent[b][k] = ent[a][m]
  BY <1>2
<1>4. ~Away(ent[a][m], b, k)
  BY <1>2, <1>3
<1>5. QED BY <1>2, <1>3, <1>4 DEF Once

\* A step that changes no name, no ".." and no inode, and no debt.
LEMMA SameTree ==
  ASSUME TypeOK, TypeOK', FreeInv, TreeInv, UNCHANGED <<ent, dotdot, core, used>>,
         faults' >= faults, \A i \in Inos : Owed(i)' = Owed(i),
         \A i, a, m : Away(i, a, m) => Away(i, a, m)',
         call'.op # "none" => call'.op = call.op /\ call'.d = call.d /\ call'.td = call.td
  PROVE  Home' /\ Once' /\ RootInv' /\ LiveInv' /\ \A i \in Inos : Counted(i)'
<1>0. LiveInv'
  BY DEF LiveInv, TreeInv
<1>1. Home'
  BY DEF Home, TreeInv, IsDir
<1>2. RootInv'
  BY DEF RootInv, TreeInv
<1>3. ASSUME NEW i \in Inos PROVE Counted(i)'
  <2>1. Counted(i)
    BY DEF TreeInv
  <2>2. NamesOf(i)' = NamesOf(i) /\ Children(i)' = Children(i) /\ Refs(i)' = Refs(i)
    BY DEF NamesOf, Children, Refs
  <2>3. Slack(i)' = Slack(i)
    BY <2>2 DEF Slack
  <2>4. faults' = 0 => faults = 0
    BY DEF TypeOK
  <2>5. QED BY <2>1, <2>2, <2>3, <2>4 DEF Counted
<1>4. Once'
  <2>1. \A a \in Inos, m \in Names : IsDir(ent[a][m])' => IsDir(ent[a][m])
    BY DEF IsDir
  <2>2. QED BY <2>1, OnceStep DEF TreeInv
<1>5. QED BY <1>0, <1>1, <1>2, <1>3, <1>4

\* What was written stays written if the inode is written only when it has a count.
LEMMA StaysWritten ==
  ASSUME NEW i, Written(i), core'[i].mode = core[i].mode,
         \/ disk'[i] = disk[i]
         \/ disk'[i].mode = core'[i].mode /\ disk'[i].nlink > 0
  PROVE  Written(i)'
BY DEF Written

\* No name is entered and every named inode stays written.
LEMMA SameNamesWritten ==
  ASSUME TypeOK, DiskInv, NEW a \in Inos, NEW m \in Names, ent'[a][m] # NoIno,
         ent'[a][m] = ent[a][m],
         \A i \in Inos : Written(i) /\ (\E b \in Inos, k \in Names : ent[b][k] = i) => Written(i)'
  PROVE  Written(ent[a][m])'
<1>1. ent[a][m] \in Inos
  BY DEF TypeOK
<1>2. Written(ent[a][m])
  BY DEF DiskInv
<1>3. QED BY <1>1, <1>2

(***************************************************************************)
(* The steps that change neither the tree nor an inode.                    *)
(***************************************************************************)

\* Such a step keeps the types, what is free, and the accounts if it changes no debt.
LEMMA PcStep ==
  ASSUME TypeOK, IInv, call' \in Calls,
         call.op = "rename" => call'.op = "rename" /\ call'.ip = call.ip,
         call'.op # "none" => call'.op = call.op /\ call'.d = call.d /\ call'.td = call.td,
         UNCHANGED <<ftype, tree, core, used>>, disk' \in [Inos -> Dinode], faults' \in 0..MaxFaults, faults' >= faults,
         stray' \in BOOLEAN
  PROVE  /\ TypeOK' /\ FreeInv'
         /\ ~stray /\ (\A i \in Inos : Owed(i)' = Owed(i))
              /\ (\A i, a, m : Away(i, a, m) => Away(i, a, m)') =>
                Home' /\ Once' /\ RootInv' /\ LiveInv' /\ \A i \in Inos : Counted(i)'
<1>1. TypeOK'
  BY DEF TypeOK, tree
<1>2. FreeInv'
  BY DEF FreeInv, IInv, tree
<1>3. ASSUME ~stray, \A i \in Inos : Owed(i)' = Owed(i),
             \A i, a, m : Away(i, a, m) => Away(i, a, m)'
      PROVE  Home' /\ Once' /\ RootInv' /\ LiveInv' /\ \A i \in Inos : Counted(i)'
  <2>1. FreeInv /\ TreeInv /\ UNCHANGED <<ent, dotdot, core, used>>
    BY <1>3 DEF IInv, tree
  <2>2. QED BY <1>1, <1>3, <2>1, SameTree
<1>4. QED BY <1>1, <1>2, <1>3

\* Nothing is owed when no call runs.
LEMMA ReturnInv ==
  ASSUME Return
  PROVE  /\ CallInv' /\ MakeInv' /\ RenameInv' /\ call' \in Calls
         /\ call'.op = "none" /\ call'.pc = "idle"
         /\ \A i \in Inos : Owed(i)' = 0
         /\ \A i, a, m : ~Away(i, a, m)'
<1>1. call' \in Calls /\ call'.op = "none" /\ call'.pc = "idle"
  BY NoCallFacts DEF Return
<1>2. CallInv' /\ MakeInv' /\ RenameInv'
  BY <1>1 DEF CallInv, MakeInv, RenameInv
<1>3. \A i \in Inos : Owed(i)' = 0
  BY <1>1 DEF Owed, NameOwed, UpOwed, DownOwed, One
<1>4. \A i, a, m : ~Away(i, a, m)'
  BY <1>1 DEF Away
<1>5. QED BY <1>1, <1>2, <1>3, <1>4

\* ext2_makeinode() has written the inode, or not.
LEMMA MakeinodeInitInv == TypeOK /\ IInv /\ MakeinodeInit => TypeOK' /\ IInv'
<1> SUFFICES ASSUME TypeOK, IInv, MakeinodeInit PROVE TypeOK' /\ IInv'
  OBVIOUS
<1>0. /\ call \in Calls /\ core \in [Inos -> Inode] /\ Types
      /\ CallInv /\ MakeInv /\ RenameInv /\ FreeInv
  BY DEF TypeOK, IInv, Types
<1>1. /\ call.op = "makeinode" /\ call.pc = "init" /\ call.ip \in Inos
      /\ UNCHANGED <<ftype, ent, dotdot, core, used, stray>>
      /\ core[call.ip].nlink = 1 /\ core[call.ip].mode = "file"
  BY <1>0 DEF MakeinodeInit, tree, CallInv, MakeInv, TypeOK
<1>2. PICK p \in {"enter", "bad"} :
        /\ Goto(p)
        /\ p = "enter" => Updated(core, call.ip)
        /\ Updated(core, call.ip) \/ UpdateFails
  BY DEF MakeinodeInit
<1>3. /\ call' \in Calls /\ call'.pc = p /\ call'.op = call.op
      /\ call'.d = call.d /\ call'.n = call.n /\ call'.ip = call.ip
      /\ call'.td = call.td /\ call'.tn = call.tn /\ call'.xp = call.xp
  BY <1>0, <1>2, GotoFields DEF CallPcs
<1>4. /\ disk' \in [Inos -> Dinode] /\ faults' \in 0..MaxFaults /\ faults' >= faults
      /\ \A j \in Inos : \/ disk'[j] = disk[j]
                         \/ j = call.ip /\ disk'[j].mode = "file" /\ disk'[j].nlink = 1
      /\ p = "enter" => disk'[call.ip].mode = "file" /\ disk'[call.ip].nlink = 1
  BY <1>0, <1>1, <1>2, UpdateTypes
<1>5. TypeOK' /\ FreeInv'
  BY <1>1, <1>3, <1>4, PcStep DEF tree, TypeOK
<1>6. CallInv'
  BY <1>0, <1>1, <1>3 DEF CallInv
<1>7. MakeInv' /\ RenameInv'
  BY <1>0, <1>1, <1>3 DEF MakeInv, RenameInv
<1>8. ASSUME ~stray' PROVE TreeInv'
  <2>1. ~stray /\ TreeInv
    BY <1>1, <1>8 DEF IInv
  <2>2. \A i \in Inos : Owed(i)' = Owed(i)
    BY <1>1, <1>3 DEF Owed, NameOwed, UpOwed, DownOwed
  <2>3. \A i, a, m : Away(i, a, m) => Away(i, a, m)'
    BY <1>1 DEF Away
  <2>4. Home' /\ Once' /\ RootInv' /\ LiveInv' /\ \A i \in Inos : Counted(i)'
    BY <1>1, <1>3, <1>4, <2>1, <2>2, <2>3, PcStep DEF tree, TypeOK
  <2>5. DiskInv'
    <3>1. \A i \in Inos : Written(i) => Written(i)'
      BY <1>1, <1>4 DEF Written
    <3>2. \A a \in Inos, m \in Names : ent'[a][m] # NoIno => Written(ent[a][m])'
      BY <1>1, <2>1, <3>1, SameNamesWritten DEF TreeInv
    <3>3. p = "enter" => Written(call.ip)'
      BY <1>1, <1>3, <1>4 DEF Written
    <3>4. QED BY <1>1, <1>3, <3>2, <3>3 DEF DiskInv
  <2>6. QED BY <2>4, <2>5 DEF TreeInv
<1>9. QED BY <1>5, <1>6, <1>7, <1>8 DEF IInv

\* ext2_mkdir() has written the inode, or is to leave an entry of one that is not written.
LEMMA MkdirInitInv == TypeOK /\ IInv /\ MkdirInit => TypeOK' /\ IInv'
<1> SUFFICES ASSUME TypeOK, IInv, MkdirInit PROVE TypeOK' /\ IInv'
  OBVIOUS
<1>0. /\ call \in Calls /\ core \in [Inos -> Inode] /\ Types
      /\ CallInv /\ MakeInv /\ RenameInv /\ FreeInv
  BY DEF TypeOK, IInv, Types
<1>1. /\ call.op = "mkdir" /\ call.pc = "init" /\ call.ip \in Inos
      /\ UNCHANGED <<ftype, ent, dotdot, core, used>>
      /\ core[call.ip].nlink = 2 /\ core[call.ip].mode = "dir"
  BY <1>0 DEF MkdirInit, tree, CallInv, MakeInv, TypeOK
<1>2. /\ Updated(core, call.ip) \/ UpdateFails
      /\ stray' = stray \/ stray' = TRUE
      /\ ~stray' => ~stray /\ Updated(core, call.ip)
      /\ Goto("parent")
  BY DEF MkdirInit, TypeOK
<1>3. /\ call' \in Calls /\ call'.pc = "parent" /\ call'.op = call.op
      /\ call'.d = call.d /\ call'.n = call.n /\ call'.ip = call.ip
      /\ call'.td = call.td /\ call'.tn = call.tn /\ call'.xp = call.xp
  BY <1>0, <1>2, GotoFields DEF CallPcs
<1>4. /\ disk' \in [Inos -> Dinode] /\ faults' \in 0..MaxFaults /\ faults' >= faults
      /\ \A j \in Inos : \/ disk'[j] = disk[j]
                         \/ j = call.ip /\ disk'[j].mode = "dir" /\ disk'[j].nlink = 2
      /\ ~stray' => disk'[call.ip].mode = "dir" /\ disk'[call.ip].nlink = 2
  BY <1>0, <1>1, <1>2, UpdateTypes
<1>5. TypeOK' /\ FreeInv'
  BY <1>1, <1>2, <1>3, <1>4, PcStep DEF tree, TypeOK
<1>6. CallInv'
  BY <1>0, <1>1, <1>3 DEF CallInv
<1>7. MakeInv' /\ RenameInv'
  BY <1>0, <1>1, <1>3 DEF MakeInv, RenameInv
<1>8. ASSUME ~stray' PROVE TreeInv'
  <2>1. ~stray /\ TreeInv
    BY <1>2, <1>8 DEF IInv
  <2>2. \A i \in Inos : Owed(i)' = Owed(i)
    BY <1>1, <1>3 DEF Owed, NameOwed, UpOwed, DownOwed
  <2>3. \A i, a, m : Away(i, a, m) => Away(i, a, m)'
    BY <1>1 DEF Away
  <2>4. Home' /\ Once' /\ RootInv' /\ LiveInv' /\ \A i \in Inos : Counted(i)'
    BY <1>1, <1>2, <1>3, <1>4, <2>1, <2>2, <2>3, PcStep DEF tree, TypeOK
  <2>5. DiskInv'
    <3>1. \A i \in Inos : Written(i) => Written(i)'
      BY <1>1, <1>4 DEF Written
    <3>2. \A a \in Inos, m \in Names : ent'[a][m] # NoIno => Written(ent[a][m])'
      BY <1>1, <2>1, <3>1, SameNamesWritten DEF TreeInv
    <3>3. Written(call.ip)'
      BY <1>1, <1>3, <1>4, <1>8 DEF Written
    <3>4. QED BY <1>1, <1>3, <3>2, <3>3 DEF DiskInv
  <2>6. QED BY <2>4, <2>5 DEF TreeInv
<1>9. QED BY <1>5, <1>6, <1>7, <1>8 DEF IInv

\* The ends of ext2_create(), ext2_mknod() and ext2_symlink().
LEMMA MadeInv == TypeOK /\ IInv /\ (Create \/ Mknod \/ Symlink) => TypeOK' /\ IInv'
<1> SUFFICES ASSUME TypeOK, IInv, Create \/ Mknod \/ Symlink PROVE TypeOK' /\ IInv'
  OBVIOUS
<1>0. /\ call \in Calls /\ core \in [Inos -> Inode] /\ Types
      /\ CallInv /\ MakeInv /\ RenameInv /\ FreeInv
  BY DEF TypeOK, IInv, Types
<1>1. /\ call.op = "makeinode" /\ call.pc = "made" /\ call.ip \in Inos /\ Return
      /\ UNCHANGED <<ftype, ent, dotdot, core, used, stray>>
      /\ core[call.ip].mode = "file"
  BY <1>0 DEF Create, Mknod, Symlink, Made, tree, CallInv, MakeInv, TypeOK
<1>2. \/ UNCHANGED disk /\ (Fault \/ NoFault)
      \/ Updated(core, call.ip) \/ UpdateFails
  BY DEF Create, Mknod, Symlink, NoFault
<1>3. call' \in Calls /\ call'.op = "none" /\ CallInv' /\ MakeInv' /\ RenameInv'
  BY <1>1, ReturnInv
<1>4. /\ disk' \in [Inos -> Dinode] /\ faults' \in 0..MaxFaults /\ faults' >= faults
      /\ \A j \in Inos : \/ disk'[j] = disk[j]
                         \/ /\ j = call.ip
                            /\ disk'[j].mode = core[j].mode /\ disk'[j].nlink = core[j].nlink
  <2>1. CASE UNCHANGED disk /\ (Fault \/ NoFault)
    BY <1>0, <2>1, FaultFacts DEF Types
  <2>2. CASE Updated(core, call.ip) \/ UpdateFails
    BY <1>0, <1>1, <2>2, UpdateTypes
  <2>3. QED BY <1>2, <2>1, <2>2
<1>5. TypeOK' /\ FreeInv'
  BY <1>1, <1>3, <1>4, PcStep DEF tree, TypeOK
<1>6. ASSUME ~stray' PROVE TreeInv'
  <2>1. ~stray /\ TreeInv
    BY <1>1, <1>6 DEF IInv
  <2>2. \A i \in Inos : Owed(i)' = Owed(i)
    <3>1. \A i \in Inos : Owed(i) = 0
      BY <1>1 DEF Owed, NameOwed, UpOwed, DownOwed, One
    <3>2. QED BY <1>1, <3>1, ReturnInv
  <2>3. \A i, a, m : Away(i, a, m) => Away(i, a, m)'
    BY <1>1 DEF Away
  <2>4. Home' /\ Once' /\ RootInv' /\ LiveInv' /\ \A i \in Inos : Counted(i)'
    BY <1>1, <1>3, <1>4, <2>1, <2>2, <2>3, PcStep DEF tree, TypeOK
  <2>5. DiskInv'
    <3>1. ASSUME NEW i \in Inos, Written(i), NEW b \in Inos, NEW k \in Names, ent[b][k] = i
          PROVE  Written(i)'
      <4>1. core[i].nlink > 0
        BY <1>0, <2>1, <3>1, NamedLive, VnopsAssumption DEF TreeInv
      <4>2. QED BY <1>1, <1>4, <3>1, <4>1 DEF Written
    <3>2. \A a \in Inos, m \in Names : ent'[a][m] # NoIno => Written(ent[a][m])'
      BY <1>1, <2>1, <3>1, SameNamesWritten DEF TreeInv
    <3>3. QED BY <1>3, <3>2 DEF DiskInv
  <2>6. QED BY <2>4, <2>5 DEF TreeInv
<1>7. QED BY <1>3, <1>5, <1>6 DEF IInv

\* An inode is written by ext2_sync() or ext2_fsync(), or that fails.
LEMMA FsyncInv ==
  ASSUME TypeOK, IInv, NEW i \in Inos, Fsync(i)
  PROVE  TypeOK' /\ IInv'
<1>0. /\ call \in Calls /\ core \in [Inos -> Inode] /\ Types
      /\ CallInv /\ MakeInv /\ RenameInv /\ FreeInv
  BY DEF TypeOK, IInv, Types
<1>1. /\ UNCHANGED <<ftype, ent, dotdot, core, used, call, stray>>
      /\ Updated(core, i) \/ UpdateFails
  BY DEF Fsync, Flush, Updated, NoFault, tree
<1>2. /\ disk' \in [Inos -> Dinode] /\ faults' \in 0..MaxFaults /\ faults' >= faults
      /\ \A j \in Inos : \/ disk'[j] = disk[j]
                         \/ disk'[j].mode = core[j].mode /\ disk'[j].nlink = core[j].nlink
  BY <1>0, <1>1, UpdateTypes
<1>3. TypeOK' /\ FreeInv'
  BY <1>0, <1>1, <1>2, PcStep DEF tree, TypeOK
<1>4. CallInv' /\ MakeInv'
  BY <1>0, <1>1 DEF CallInv, MakeInv
<1>5. RenameInv'
  BY <1>0, <1>1 DEF RenameInv, Doingdirectory, Newparent, IsDir
<1>6. ASSUME ~stray' PROVE TreeInv'
  <2>1. ~stray /\ TreeInv
    BY <1>1, <1>6 DEF IInv
  <2>2. \A j \in Inos : Owed(j)' = Owed(j)
    BY <1>1 DEF Owed, NameOwed, UpOwed, DownOwed, Doingdirectory, Newparent, IsDir
  <2>3. \A j, a, m : Away(j, a, m) => Away(j, a, m)'
    BY <1>1 DEF Away
  <2>4. Home' /\ Once' /\ RootInv' /\ LiveInv' /\ \A j \in Inos : Counted(j)'
    BY <1>0, <1>1, <1>2, <2>1, <2>2, <2>3, PcStep DEF tree, TypeOK
  <2>5. DiskInv'
    <3>1. ASSUME NEW j \in Inos, Written(j), core[j].nlink > 0
          PROVE  Written(j)'
      BY <1>1, <1>2, <3>1 DEF Written
    <3>2. ASSUME NEW a \in Inos, NEW m \in Names, ent'[a][m] # NoIno
          PROVE  Written(ent[a][m])'
      <4>1. ent[a][m] \in Inos /\ core[ent[a][m]].nlink > 0
        BY <1>0, <1>1, <2>1, <3>2, NamedLive DEF TreeInv
      <4>2. Written(ent[a][m])
        BY <1>1, <2>1, <3>2 DEF TreeInv, DiskInv
      <4>3. QED BY <1>1, <3>1, <4>1, <4>2
    <3>3. ASSUME call.op \in {"makeinode", "link"} /\ call.pc = "enter"
          PROVE  Written(call.ip)'
      <4>1. call.ip \in Inos /\ Written(call.ip)
        BY <1>0, <2>1, <3>3 DEF TreeInv, DiskInv, CallInv, TypeOK
      <4>2. core[call.ip].nlink \in Int
        BY <1>0, <4>1 DEF Inode
      <4>3. core[call.ip].nlink = 1 \/ core[call.ip].nlink > 1
        BY <1>0, <3>3 DEF MakeInv
      <4>4. core[call.ip].nlink > 0
        BY <4>2, <4>3
      <4>5. QED BY <1>1, <3>1, <4>1, <4>4
    <3>4. ASSUME call.op = "mkdir" /\ call.pc \in {"parent", "fill", "enter"}
          PROVE  Written(call.ip)'
      <4>1. call.ip \in Inos /\ Written(call.ip) /\ core[call.ip].nlink = 2
        BY <1>0, <2>1, <3>4 DEF TreeInv, DiskInv, CallInv, MakeInv, TypeOK
      <4>2. QED BY <1>1, <3>1, <4>1
    <3>5. QED BY <1>1, <3>2, <3>3, <3>4 DEF DiskInv
  <2>6. QED BY <2>4, <2>5 DEF TreeInv
<1>7. QED BY <1>3, <1>4, <1>5, <1>6 DEF IInv

\* A rename goes on, or gives up, before it has changed anything but the source's count.
LEMMA RenamePcInv ==
  ASSUME TypeOK, IInv, call.op = "rename", call.pc \in {"checkpath", "target"},
         NEW p \in {"target", "enter", "bad"}, Goto(p),
         p = "target" /\ Doingdirectory /\ Newparent =>
           call.ip # call.td /\ (ftype \/ call.td = Root),
         p = "enter" => call.pc = "target" /\ call.xp = NoIno /\ ~(Doingdirectory /\ Newparent),
         UNCHANGED <<ftype, tree, core, disk, used, stray>>,
         faults' \in 0..MaxFaults, faults' >= faults
  PROVE  TypeOK' /\ IInv'
<1>0. /\ call \in Calls /\ core \in [Inos -> Inode] /\ Types
      /\ CallInv /\ MakeInv /\ RenameInv /\ FreeInv
  BY DEF TypeOK, IInv, Types
<1>1. UNCHANGED <<ftype, ent, dotdot, core, disk, used, stray>> /\ ~stray /\ TreeInv
  BY <1>0 DEF tree, RenameInv, IInv
<1>3. /\ call' \in Calls /\ call'.pc = p /\ call'.op = call.op
      /\ call'.d = call.d /\ call'.n = call.n /\ call'.ip = call.ip
      /\ call'.td = call.td /\ call'.tn = call.tn /\ call'.xp = call.xp
  BY <1>0, GotoFields DEF CallPcs
<1>4. (Doingdirectory' <=> Doingdirectory) /\ (Newparent' <=> Newparent)
  BY <1>1, <1>3 DEF Doingdirectory, Newparent, IsDir
<1>5. TypeOK' /\ FreeInv'
  BY <1>1, <1>3, PcStep DEF tree, TypeOK
<1>6. CallInv' /\ MakeInv'
  BY <1>0, <1>1, <1>3 DEF CallInv, MakeInv
<1>7. RenameInv'
  BY <1>0, <1>1, <1>3, <1>4 DEF RenameInv
<1>8. \A i \in Inos : Owed(i)' = Owed(i)
  <2>1. \A i : NameOwed(i)' <=> NameOwed(i)
    BY <1>3 DEF NameOwed
  <2>2. \A i : ~UpOwed(i)' /\ ~UpOwed(i)
    BY <1>3, <1>4 DEF UpOwed
  <2>3. \A i : ~DownOwed(i)' /\ ~DownOwed(i)
    BY <1>3 DEF DownOwed
  <2>4. QED BY <2>1, <2>2, <2>3 DEF Owed, One
<1>9. \A i, a, m : Away(i, a, m) => Away(i, a, m)'
  BY DEF Away
<1>10. Home' /\ Once' /\ RootInv' /\ LiveInv' /\ \A i \in Inos : Counted(i)'
  BY <1>1, <1>3, <1>8, <1>9, PcStep DEF tree, TypeOK
<1>11. DiskInv'
  BY <1>1, <1>3 DEF TreeInv, DiskInv, Written
<1>12. QED BY <1>5, <1>6, <1>7, <1>10, <1>11 DEF IInv, TreeInv

\* ext2_rename() has looked whether the new parent is below the source.
LEMMA RenameCheckpathInv == TypeOK /\ IInv /\ RenameCheckpath => TypeOK' /\ IInv'
<1> SUFFICES ASSUME TypeOK, IInv, RenameCheckpath PROVE TypeOK' /\ IInv'
  OBVIOUS
<1>1. PICK p \in {"target", "bad"} :
        /\ Goto(p) /\ (Fault \/ NoFault)
        /\ p = "target" /\ Doingdirectory /\ Newparent => Checkpath(call.ip, call.td) = "ok"
  BY DEF RenameCheckpath
<1>2. p = "target" /\ Doingdirectory /\ Newparent =>
        call.ip # call.td /\ (ftype \/ call.td = Root)
  BY <1>1 DEF Checkpath
<1>3. faults' \in 0..MaxFaults /\ faults' >= faults
  BY <1>1, FaultFacts DEF TypeOK
<1>4. /\ call.op = "rename" /\ call.pc = "checkpath"
      /\ UNCHANGED <<ftype, tree, core, disk, used, stray>>
  BY DEF RenameCheckpath
<1>5. QED BY <1>1, <1>2, <1>3, <1>4, RenamePcInv

\* The target is not one that may be replaced.
LEMMA RenameRefuseInv == TypeOK /\ IInv /\ RenameRefuse => TypeOK' /\ IInv'
<1> SUFFICES ASSUME TypeOK, IInv, RenameRefuse PROVE TypeOK' /\ IInv'
  OBVIOUS
<1>1. /\ call.op = "rename" /\ call.pc = "target" /\ Goto("bad")
      /\ UNCHANGED <<ftype, tree, core, disk, used, faults, stray>>
  BY DEF RenameRefuse
<1>2. faults' \in 0..MaxFaults /\ faults' >= faults
  BY <1>1, VnopsAssumption DEF TypeOK
<1>3. QED BY <1>1, <1>2, RenamePcInv

(***************************************************************************)
(* The steps that change counts and no entry.                              *)
(***************************************************************************)

\* What one inode's count changes by is what is owed to it.
LEMMA SameRefs ==
  ASSUME TypeOK, TypeOK', NEW i \in Inos, Counted(i), UNCHANGED <<ent, dotdot>>,
         \A j \in Inos : /\ core'[j].mode = core[j].mode
                         /\ core'[j].nlink > 0 <=> core[j].nlink > 0,
         faults' >= faults,
         core'[i].nlink - core[i].nlink >= Owed(i)' - Owed(i) \/ core[i].nlink = 0,
         faults' = 0 => core'[i].nlink - core[i].nlink = Owed(i)' - Owed(i) \/ core[i].nlink = 0,
         core[i].nlink = 0 => core'[i].nlink = 0
  PROVE  Counted(i)'
<1>1. NamesOf(i)' = NamesOf(i) /\ Children(i)' = Children(i) /\ Refs(i)' = Refs(i)
  BY DEF NamesOf, Children, Refs
<1>2. CASE core[i].nlink = 0
  BY <1>1, <1>2 DEF Counted
<1>3. CASE core[i].nlink # 0
  <2> DEFINE l == core[i].nlink
             k == core'[i].nlink
             R == Refs(i)
             O == Owed(i)
             P == Owed(i)'
  <2>1. l \in Int /\ k \in Int /\ faults \in Nat /\ faults' \in Nat
    BY VnopsAssumption DEF TypeOK, Inode
  <2>2. O \in Int /\ P \in Int
    BY OwedType
  <2>3. R \in Int
    BY RefsLow
  <2>4. l > 0 /\ l - R - O >= 0 /\ (faults = 0 => l - R - O = 0)
    BY <1>3 DEF Counted, Slack
  <2>5. k > 0
    BY <2>4
  <2>6. k - l >= P - O /\ (faults' = 0 => k - l = P - O)
    BY <1>3
  <2> HIDE DEF l, k, R, O, P
  <2>7. k - R - P >= 0 /\ (faults' = 0 => k - R - P = 0)
    BY <2>1, <2>2, <2>3, <2>4, <2>6
  <2>8. k # 0
    BY <2>1, <2>5
  <2>9. QED BY <1>1, <2>5, <2>7, <2>8 DEF Counted, Slack, k, R, P
<1>4. QED BY <1>2, <1>3

\* The tree is kept by a step that changes the count of one inode by what it comes to owe it.
LEMMA CountStep ==
  ASSUME TypeOK, TypeOK', TreeInv, UNCHANGED <<ent, dotdot>>, NEW t \in Inos,
         \A j \in Inos : /\ core'[j].mode = core[j].mode
                         /\ j # t => core'[j].nlink = core[j].nlink /\ Owed(j)' = Owed(j),
         core[t].nlink > 0, core'[t].nlink > 0, faults' >= faults,
         core'[t].nlink - core[t].nlink >= Owed(t)' - Owed(t),
         faults' = 0 => core'[t].nlink - core[t].nlink = Owed(t)' - Owed(t),
         \A i \in Inos, a \in Inos, m \in Names :
           Away(i, a, m) /\ IsDir(i) => dotdot[i] = a \/ Away(i, a, m)',
         Once' \/ \A i, a, m : Away(i, a, m) => Away(i, a, m)',
         call'.op # "none" => core[call'.d].nlink > 0 /\ core[call'.td].nlink > 0
  PROVE  Home' /\ Once' /\ RootInv' /\ LiveInv' /\ \A i \in Inos : Counted(i)'
<1>1. Home'
  <2>1. \A a \in Inos, m \in Names : IsDir(ent[a][m])' <=> IsDir(ent[a][m])
    BY DEF IsDir, TypeOK
  <2>2. \A a \in Inos, m \in Names : IsDir(ent[a][m]) => ent[a][m] \in Inos
    BY DEF IsDir, TypeOK
  <2>3. QED BY <2>1, <2>2 DEF Home, TreeInv
<1>2. \A j \in Inos : core'[j].nlink > 0 <=> core[j].nlink > 0
  OBVIOUS
<1>3. RootInv'
  BY <1>2, VnopsAssumption DEF RootInv, TreeInv
<1>4. LiveInv'
  BY <1>2 DEF LiveInv, TypeOK, Calls
<1>5. ASSUME NEW i \in Inos PROVE Counted(i)'
  <2>1. Counted(i)
    BY DEF TreeInv
  <2>2. CASE i = t
    BY <1>2, <2>1, <2>2, SameRefs
  <2>3. CASE i # t
    <3>1. core'[i].nlink - core[i].nlink = 0 /\ Owed(i)' - Owed(i) = 0
      BY <2>3, OwedType DEF TypeOK, Inode
    <3>2. QED BY <1>2, <2>1, <2>3, <3>1, SameRefs
  <2>4. QED BY <2>2, <2>3
<1>6. Once'
  <2>1. CASE \A i, a, m : Away(i, a, m) => Away(i, a, m)'
    <3>1. \A a \in Inos, m \in Names : IsDir(ent[a][m])' => IsDir(ent[a][m])
      BY DEF IsDir, TypeOK
    <3>2. QED BY <2>1, <3>1, OnceStep DEF TreeInv
  <2>2. QED BY <2>1
<1>7. QED BY <1>1, <1>3, <1>4, <1>5, <1>6

\* What is on the disk, over a step that enters no name.
LEMMA CountDisk ==
  ASSUME TypeOK, TreeInv, ent' = ent,
         \A j \in Inos : core'[j].mode = core[j].mode,
         \A j \in Inos : \/ disk'[j] = disk[j]
                         \/ disk'[j].mode = core'[j].mode /\ disk'[j].nlink > 0,
         \/ call'.op \notin {"makeinode", "mkdir", "link"}
         \/ call'.op = "link" /\ Written(call.ip)'
         \/ call'.pc = "bad"
         \/ /\ call'.op = "mkdir" /\ call'.ip = call.ip /\ call.ip \in Inos
            /\ call.op = "mkdir" /\ call.pc = "parent"
  PROVE  DiskInv'
<1>1. \A j \in Inos : Written(j) => Written(j)'
  BY DEF Written
<1>2. \A a \in Inos, m \in Names : ent'[a][m] # NoIno => Written(ent[a][m])'
  BY <1>1, SameNamesWritten DEF TreeInv
<1>3. ASSUME call'.op = "mkdir", call'.pc # "bad" PROVE Written(call.ip)'
  <2>1. call'.ip = call.ip /\ call.ip \in Inos /\ Written(call.ip)
    BY <1>3 DEF TreeInv, DiskInv
  <2>2. QED BY <1>1, <2>1
<1>4. QED BY <1>2, <1>3 DEF DiskInv

\* ext2_mkdir() has counted the new directory's "..".
LEMMA MkdirParentInv == TypeOK /\ IInv /\ MkdirParent => TypeOK' /\ IInv'
<1> SUFFICES ASSUME TypeOK, IInv, MkdirParent PROVE TypeOK' /\ IInv'
  OBVIOUS
<1>0. /\ call \in Calls /\ core \in [Inos -> Inode] /\ Types
      /\ CallInv /\ MakeInv /\ RenameInv /\ FreeInv
  BY DEF TypeOK, IInv, Types
<1>1. /\ call.op = "mkdir" /\ call.pc = "parent" /\ call.ip \in Inos /\ call.d \in Inos
      /\ UNCHANGED <<ftype, ent, dotdot, used, stray>> /\ core' = Nlink(core, call.d, 1)
      /\ core[call.ip].nlink = 2 /\ core[call.ip].mode = "dir" /\ call.ip # call.d
      /\ dotdot[call.ip] = NoIno /\ core[call.d].mode = "dir"
  BY <1>0 DEF MkdirParent, tree, CallInv, MakeInv, TypeOK
<1>2. PICK p \in {"fill", "bad"} :
        /\ Goto(p)
        /\ Updated(Nlink(core, call.d, 1), call.d) \/ UpdateFails
        /\ p = "bad" => UpdateFails
  BY DEF MkdirParent
<1>3. /\ call' \in Calls /\ call'.pc = p /\ call'.op = call.op
      /\ call'.d = call.d /\ call'.n = call.n /\ call'.ip = call.ip
      /\ call'.td = call.td /\ call'.tn = call.tn /\ call'.xp = call.xp
  BY <1>0, <1>2, GotoFields DEF CallPcs
<1>4. /\ core' \in [Inos -> Inode]
      /\ \A j \in Inos : /\ core'[j].mode = core[j].mode /\ core'[j].rename = core[j].rename
                         /\ j # call.d => core'[j].nlink = core[j].nlink
      /\ core'[call.d].nlink = core[call.d].nlink + 1
  BY <1>0, <1>1, NlinkFacts
<1>5. /\ disk' \in [Inos -> Dinode] /\ faults' \in 0..MaxFaults /\ faults' >= faults
      /\ p = "bad" => faults' # 0
      /\ \A j \in Inos :
              \/ disk'[j] = disk[j]
              \/ j = call.d /\ disk'[j].mode = core'[j].mode /\ disk'[j].nlink = core'[j].nlink
  <2>1. core' \in [Inos -> Inode] /\ (Updated(core', call.d) \/ UpdateFails)
    BY <1>1, <1>2, <1>4
  <2>2. QED BY <1>0, <1>1, <1>2, <2>1, UpdateTypes
<1>6. TypeOK'
  BY <1>0, <1>1, <1>3, <1>4, <1>5 DEF TypeOK
<1>7. FreeInv'
  BY <1>0, <1>1, <1>4 DEF FreeInv, CallInv
<1>8. CallInv'
  BY <1>0, <1>1, <1>3, <1>4 DEF CallInv, TypeOK
<1>9. MakeInv' /\ RenameInv'
  BY <1>0, <1>1, <1>3, <1>4 DEF MakeInv, RenameInv
<1>10. ASSUME ~stray' PROVE TreeInv'
  <2>1. ~stray /\ TreeInv
    BY <1>1, <1>10 DEF IInv
  <2>2. core[call.d].nlink \in Int /\ core[call.d].nlink > 0 /\ core[call.td].nlink > 0
    BY <1>0, <1>1, <2>1 DEF TreeInv, LiveInv, Inode
  <2>3. \A i \in Inos : /\ Owed(i) = One(i = call.ip)
                        /\ Owed(i)' = One(i = call.ip) + (IF p = "fill" /\ i = call.d THEN 1 ELSE 0)
    BY <1>1, <1>2, <1>3, VnopsAssumption DEF Owed, NameOwed, UpOwed, DownOwed, One
  <2>4. /\ \A i \in Inos : i # call.d => Owed(i)' = Owed(i)
        /\ Owed(call.d)' - Owed(call.d) = IF p = "fill" THEN 1 ELSE 0
    BY <1>1, <1>3, <2>3 DEF One
  <2>5. core'[call.d].nlink - core[call.d].nlink = 1 /\ core'[call.d].nlink > 0
    BY <1>4, <2>2
  <2>6. \A i, a, m : Away(i, a, m) => Away(i, a, m)'
    BY <1>1 DEF Away
  <2>7. Home' /\ Once' /\ RootInv' /\ LiveInv' /\ \A i \in Inos : Counted(i)'
    BY <1>1, <1>2, <1>3, <1>4, <1>5, <1>6, <2>1, <2>2, <2>4, <2>5, <2>6, CountStep
  <2>8. \A j \in Inos : \/ disk'[j] = disk[j]
                        \/ disk'[j].mode = core'[j].mode /\ disk'[j].nlink > 0
    BY <1>5, <2>5
  <2>9. DiskInv'
    BY <1>1, <1>3, <1>4, <2>1, <2>8, CountDisk
  <2>10. QED BY <2>7, <2>9 DEF TreeInv
<1>11. QED BY <1>6, <1>7, <1>8, <1>9, <1>10 DEF IInv

\* The new parent of a directory counts its "..", or there is no target to make room for.
LEMMA RenameTargetInv == TypeOK /\ IInv /\ RenameTarget => TypeOK' /\ IInv'
<1> SUFFICES ASSUME TypeOK, IInv, RenameTarget PROVE TypeOK' /\ IInv'
  OBVIOUS
<1>0. /\ call \in Calls /\ core \in [Inos -> Inode] /\ Types
      /\ CallInv /\ MakeInv /\ RenameInv /\ FreeInv
  BY DEF TypeOK, IInv, Types
<1>1. /\ call.op = "rename" /\ call.pc = "target" /\ call.xp = NoIno
      /\ call.td \in Inos /\ call.d \in Inos
      /\ UNCHANGED <<ftype, tree, used, stray>> /\ UNCHANGED <<ent, dotdot>> /\ ~stray /\ TreeInv
  BY <1>0 DEF RenameTarget, tree, Calls, RenameInv, IInv
<1>2. CASE UNCHANGED <<core, disk>> /\ NoFault
  <2>1. PICK p \in {"enter", "bad"} : Goto(p) /\ (p = "enter" => ~(Doingdirectory /\ Newparent))
    <3>1. CASE \/ ~(Doingdirectory /\ Newparent) /\ Goto("enter")
               \/ Goto("bad")
      BY <3>1
    <3>2. CASE core' = Nlink(core, call.td, 1)
      <4>1. core'[call.td].nlink = core[call.td].nlink + 1 /\ core[call.td].nlink \in Int
        BY <1>0, <1>1, <3>2, NlinkFacts DEF Inode
      <4>2. QED BY <1>2, <4>1
    <3>3. QED BY <3>1, <3>2 DEF RenameTarget
  <2>2. faults' \in 0..MaxFaults /\ faults' >= faults
    BY <1>2, FaultFacts DEF TypeOK
  <2>3. QED BY <1>1, <1>2, <2>1, <2>2, RenamePcInv
<1>3. CASE /\ Doingdirectory /\ Newparent /\ core' = Nlink(core, call.td, 1)
           /\ \/ Updated(Nlink(core, call.td, 1), call.td) /\ Goto("enter")
              \/ UpdateFails /\ Goto("bad")
  <2>2. PICK p \in {"enter", "bad"} :
          /\ Goto(p) /\ (p = "bad" => UpdateFails)
          /\ Updated(Nlink(core, call.td, 1), call.td) \/ UpdateFails
    BY <1>3
  <2>3. /\ call' \in Calls /\ call'.pc = p /\ call'.op = call.op
        /\ call'.d = call.d /\ call'.n = call.n /\ call'.ip = call.ip
        /\ call'.td = call.td /\ call'.tn = call.tn /\ call'.xp = call.xp
    BY <1>0, <2>2, GotoFields DEF CallPcs
  <2>4. /\ core' \in [Inos -> Inode]
        /\ \A j \in Inos : /\ core'[j].mode = core[j].mode /\ core'[j].rename = core[j].rename
                           /\ j # call.td => core'[j].nlink = core[j].nlink
        /\ core'[call.td].nlink = core[call.td].nlink + 1
    BY <1>0, <1>1, <1>3, NlinkFacts
  <2>5. /\ disk' \in [Inos -> Dinode] /\ faults' \in 0..MaxFaults /\ faults' >= faults
        /\ p = "bad" => faults' # 0
        /\ \A j \in Inos :
              \/ disk'[j] = disk[j]
              \/ j = call.td /\ disk'[j].mode = core'[j].mode /\ disk'[j].nlink = core'[j].nlink
    <3>1. core' \in [Inos -> Inode] /\ (Updated(core', call.td) \/ UpdateFails)
      BY <1>3, <2>2, <2>4
    <3>2. QED BY <1>0, <1>1, <2>2, <3>1, UpdateTypes
  <2>6. TypeOK'
    BY <1>0, <1>1, <2>3, <2>4, <2>5 DEF TypeOK
  <2>7. FreeInv'
    BY <1>0, <1>1, <2>4 DEF FreeInv, CallInv
  <2>8. CallInv' /\ MakeInv'
    BY <1>0, <1>1, <2>3, <2>4 DEF CallInv, MakeInv, TypeOK
  <2>9. (Doingdirectory' <=> Doingdirectory) /\ (Newparent' <=> Newparent) /\ call.ip \in Inos
    BY <1>0, <1>1, <2>3, <2>4 DEF Doingdirectory, Newparent, IsDir, Calls, CallInv, TypeOK
  <2>10. RenameInv'
    BY <1>0, <1>1, <2>3, <2>9 DEF RenameInv
  <2>11. core[call.td].nlink \in Int /\ core[call.d].nlink > 0 /\ core[call.td].nlink > 0
    BY <1>0, <1>1 DEF TreeInv, LiveInv, Inode
  <2>12. \A i \in Inos : /\ Owed(i) = One(i = call.ip)
                         /\ Owed(i)' = One(i = call.ip)
                                       + (IF p = "enter" /\ i = call.td THEN 1 ELSE 0)
    BY <1>1, <1>3, <2>2, <2>3, <2>9 DEF Owed, NameOwed, UpOwed, DownOwed, One
  <2>13. /\ \A i \in Inos : i # call.td => Owed(i)' = Owed(i)
         /\ Owed(call.td)' - Owed(call.td) = IF p = "enter" THEN 1 ELSE 0
    BY <1>1, <2>3, <2>12 DEF One
  <2>14. core'[call.td].nlink - core[call.td].nlink = 1 /\ core'[call.td].nlink > 0
    BY <2>4, <2>11
  <2>15. \A i, a, m : Away(i, a, m) => Away(i, a, m)'
    BY <1>1 DEF Away
  <2>16. Home' /\ Once' /\ RootInv' /\ LiveInv' /\ \A i \in Inos : Counted(i)'
    BY <1>1, <2>2, <2>3, <2>4, <2>5, <2>6, <2>11, <2>13, <2>14, <2>15, CountStep
  <2>17. \A j \in Inos : \/ disk'[j] = disk[j]
                         \/ disk'[j].mode = core'[j].mode /\ disk'[j].nlink > 0
    BY <2>5, <2>14
  <2>18. DiskInv'
    BY <1>1, <2>3, <2>4, <2>17, CountDisk
  <2>19. QED BY <2>6, <2>7, <2>8, <2>10, <2>16, <2>18 DEF IInv, TreeInv
<1>4. QED BY <1>2, <1>3 DEF RenameTarget, NoFault

\* ext2_rename() gives up: the source loses its extra link.
LEMMA RenameBadInv == TypeOK /\ IInv /\ RenameBad => TypeOK' /\ IInv'
<1> SUFFICES ASSUME TypeOK, IInv, RenameBad PROVE TypeOK' /\ IInv'
  OBVIOUS
<1>0. /\ call \in Calls /\ core \in [Inos -> Inode] /\ Types
      /\ CallInv /\ MakeInv /\ RenameInv /\ FreeInv
  BY DEF TypeOK, IInv, Types
<1>1. /\ call.op = "rename" /\ call.pc = "bad" /\ call.ip \in Inos /\ call.d \in Inos
      /\ call.n \in Names /\ ent[call.d][call.n] = call.ip /\ Return
      /\ UNCHANGED <<ftype, ent, dotdot, disk, used, faults, stray>>
      /\ core' = [Nlink(core, call.ip, -1) EXCEPT ![call.ip].rename = FALSE]
  BY <1>0 DEF RenameBad, tree, CallInv, RenameInv, TypeOK, Calls
<1>2. CallInv' /\ MakeInv' /\ RenameInv' /\ call' \in Calls /\ call'.op = "none"
  BY <1>1, ReturnInv
<1>4. /\ core' \in [Inos -> Inode]
      /\ \A j \in Inos : /\ core'[j].mode = core[j].mode
                         /\ j # call.ip => core'[j].nlink = core[j].nlink
                                           /\ core'[j].rename = core[j].rename
      /\ core'[call.ip].nlink = core[call.ip].nlink + (-1) /\ core'[call.ip].rename = FALSE
  <2> DEFINE b == FALSE
  <2>1. core' = Flagged(core, call.ip, -1, b) /\ b \in BOOLEAN
    BY <1>1 DEF Flagged
  <2> HIDE DEF b
  <2>2. /\ core' \in [Inos -> Inode]
        /\ \A j \in Inos : /\ core'[j].mode = core[j].mode
                           /\ j # call.ip => core'[j].nlink = core[j].nlink
                                             /\ core'[j].rename = core[j].rename
        /\ core'[call.ip].nlink = core[call.ip].nlink + (-1) /\ core'[call.ip].rename = b
    <3>1. core \in [Inos -> Inode] /\ call.ip \in Inos
      BY <1>0, <1>1
    <3>2. QED BY <2>1, <3>1, FlaggedFacts
  <2>3. QED BY <2>2 DEF b
<1>5. TypeOK'
  BY <1>0, <1>1, <1>2, <1>4 DEF TypeOK
<1>6. FreeInv'
  BY <1>0, <1>1, <1>4, ZenonT(60) DEF FreeInv, CallInv
<1>7. ASSUME ~stray' PROVE TreeInv'
  <2>1. ~stray /\ TreeInv
    BY <1>1, <1>7 DEF IInv
  <2>2. \A i \in Inos : Owed(i) = One(i = call.ip)
    BY <1>1, <1>2 DEF Owed, NameOwed, UpOwed, DownOwed, One
  <2>3. \A i \in Inos : Owed(i)' = 0
    BY <1>1, ReturnInv
  <2>4. core[call.ip].nlink \in Int /\ core[call.ip].nlink > 0
    BY <1>0, <1>1, <2>1, NamedLive, VnopsAssumption DEF TreeInv, Inode
  <2>5. core[call.ip].nlink >= 2
    <3>1. core[call.ip].nlink >= One(ent[call.d][call.n] = call.ip) + One(Child(call.ip, call.ip))
                                 + Dot(call.ip) + One(call.ip = Root) + Owed(call.ip)
      BY <1>1, <2>1, <2>4, CountBounds DEF TreeInv
    <3>2. One(ent[call.d][call.n] = call.ip) = 1 /\ Owed(call.ip) = 1
      BY <1>1, <2>2 DEF One
    <3>3. /\ One(Child(call.ip, call.ip)) \in {0, 1} /\ Dot(call.ip) \in {0, 1}
          /\ One(call.ip = Root) \in {0, 1}
      BY DEF One, Dot
    <3>4. QED BY <2>4, <3>1, <3>2, <3>3
  <2>6. /\ core'[call.ip].nlink > 0 /\ core'[call.ip].nlink - core[call.ip].nlink = -1
    BY <1>4, <2>4, <2>5
  <2>7. PICK t \in Inos : t = call.ip
    BY <1>1
  <2>8. Home' /\ Once' /\ RootInv' /\ LiveInv' /\ \A i \in Inos : Counted(i)'
    <3>1. \A i, a, m : ~Away(i, a, m)
      BY <1>1 DEF Away
    <3>2. faults' >= faults
      BY <1>1, VnopsAssumption DEF TypeOK
    <3>3. /\ core'[t].nlink > 0 /\ core'[t].nlink - core[t].nlink = -1 /\ core[t].nlink > 0
          /\ Owed(t)' - Owed(t) = -1
      BY <2>2, <2>3, <2>4, <2>6, <2>7 DEF One
    <3>4. \A j \in Inos : /\ core'[j].mode = core[j].mode
                          /\ j # t => core'[j].nlink = core[j].nlink /\ Owed(j)' = Owed(j)
      BY <1>4, <2>2, <2>3, <2>7 DEF One
    <3>5. QED BY <1>1, <1>2, <1>5, <2>1, <3>1, <3>2, <3>3, <3>4, CountStep
  <2>9. DiskInv'
    BY <1>1, <1>2, <1>4, <2>1, CountDisk
  <2>10. QED BY <2>8, <2>9 DEF TreeInv
<1>8. QED BY <1>2, <1>5, <1>6, <1>7 DEF IInv

\* The old parent of a directory no longer counts its "..", or the parents are the same.
LEMMA RenameOldparentInv == TypeOK /\ IInv /\ RenameOldparent => TypeOK' /\ IInv'
<1> SUFFICES ASSUME TypeOK, IInv, RenameOldparent PROVE TypeOK' /\ IInv'
  OBVIOUS
<1>0. /\ call \in Calls /\ core \in [Inos -> Inode] /\ Types
      /\ CallInv /\ MakeInv /\ RenameInv /\ FreeInv
  BY DEF TypeOK, IInv, Types
<1>1. /\ call.op = "rename" /\ call.pc = "oldparent" /\ call.td \in Inos /\ call.d \in Inos
      /\ call.n \in Names /\ call.tn \in Names
      /\ UNCHANGED <<ftype, ent, dotdot, disk, used, faults, stray>> /\ ~stray /\ TreeInv
  BY <1>0 DEF RenameOldparent, tree, Calls, RenameInv, IInv
<1>2. /\ call.ip \in Inos /\ ent[call.d][call.n] = call.ip /\ ent[call.td][call.tn] = call.ip
      /\ call.d # call.td \/ call.n # call.tn
      /\ Doingdirectory => call.ip # call.d
  BY <1>0, <1>1 DEF RenameInv, CallInv, TypeOK
<1>3. Doingdirectory => dotdot[call.ip] = call.d
  BY <1>1, <1>2 DEF TreeInv, Home, Away, Doingdirectory
<1>4. PICK p \in {"dotdot", "unlink"} :
        /\ Goto(p)
        /\ p = "dotdot" => Doingdirectory /\ Newparent /\ core' = Nlink(core, call.d, -1)
        /\ p = "unlink" => ~(Doingdirectory /\ Newparent) /\ core' = core
  BY DEF RenameOldparent
<1>5. /\ call' \in Calls /\ call'.pc = p /\ call'.op = call.op
      /\ call'.d = call.d /\ call'.n = call.n /\ call'.ip = call.ip
      /\ call'.td = call.td /\ call'.tn = call.tn /\ call'.xp = call.xp
  BY <1>0, <1>4, GotoFields DEF CallPcs
<1>6. /\ core' \in [Inos -> Inode]
      /\ \A j \in Inos : /\ core'[j].mode = core[j].mode /\ core'[j].rename = core[j].rename
                         /\ j # call.d => core'[j].nlink = core[j].nlink
      /\ core[call.d].nlink \in Int
      /\ core'[call.d].nlink = core[call.d].nlink + (IF p = "dotdot" THEN -1 ELSE 0)
  <2>1. core[call.d].nlink \in Int
    BY <1>0, <1>1 DEF Inode
  <2>2. CASE p = "dotdot"
    BY <1>0, <1>1, <1>4, <2>1, <2>2, NlinkFacts
  <2>3. CASE p = "unlink"
    BY <1>0, <1>1, <1>4, <2>1, <2>3
  <2>4. QED BY <2>2, <2>3
<1>7. TypeOK'
  BY <1>0, <1>1, <1>5, <1>6 DEF TypeOK
<1>8. FreeInv'
  BY <1>0, <1>1, <1>6 DEF FreeInv, CallInv
<1>9. CallInv' /\ MakeInv'
  BY <1>0, <1>1, <1>5, <1>6 DEF CallInv, MakeInv, TypeOK
<1>10. (Doingdirectory' <=> Doingdirectory) /\ (Newparent' <=> Newparent)
  BY <1>2, <1>5, <1>6 DEF Doingdirectory, Newparent, IsDir
<1>11. RenameInv'
  BY <1>0, <1>1, <1>4, <1>5, <1>10 DEF RenameInv
<1>12. \A i \in Inos :
         /\ Owed(i) = IF p = "dotdot" /\ i = call.td THEN 1 ELSE 0
         /\ Owed(i)' = (IF p = "dotdot" /\ i = call.td THEN 1 ELSE 0)
                       - (IF p = "dotdot" /\ i = call.d THEN 1 ELSE 0)
  BY <1>1, <1>4, <1>5, <1>10 DEF Owed, NameOwed, UpOwed, DownOwed, One
<1>13. core[call.d].nlink > 0 /\ core[call.td].nlink > 0
  BY <1>1 DEF TreeInv, LiveInv
<1>14. core'[call.d].nlink > 0
  <2>1. CASE p = "unlink"
    BY <1>4, <1>13, <2>1
  <2>2. CASE p = "dotdot"
    <3>1. core[call.d].nlink >= One(ent[call.d][call.n] = call.d) + One(Child(call.ip, call.d))
                                + Dot(call.d) + One(call.d = Root) + Owed(call.d)
      BY <1>1, <1>2, <1>13, CountBounds DEF TreeInv
    <3>2. One(Child(call.ip, call.d)) = 1
      <4>1. call.ip # Root
        BY <1>1, <1>2 DEF TreeInv, RootInv
      <4>2. core[call.ip].nlink > 0
        BY <1>0, <1>1, <1>2, NamedLive, VnopsAssumption DEF TreeInv
      <4>3. QED BY <1>3, <1>4, <2>2, <4>1, <4>2 DEF Child, Alive, Doingdirectory, IsDir, One
    <3>3. Dot(call.d) = 1 /\ Owed(call.d) = 0
      BY <1>0, <1>1, <1>4, <1>12, <2>2 DEF CallInv, Dot, Newparent
    <3>4. One(ent[call.d][call.n] = call.d) \in {0, 1} /\ One(call.d = Root) \in {0, 1}
      BY DEF One
    <3>5. core[call.d].nlink >= 2
      BY <1>6, <3>1, <3>2, <3>3, <3>4
    <3>6. QED BY <1>6, <2>2, <3>5
  <2>3. QED BY <2>1, <2>2
<1>15. \A i \in Inos, a \in Inos, m \in Names :
         Away(i, a, m) /\ IsDir(i) => dotdot[i] = a \/ Away(i, a, m)'
  <2>1. CASE p = "unlink"
    BY <1>1, <1>3, <1>4, <2>1 DEF Away, Doingdirectory, Newparent
  <2>2. CASE p = "dotdot"
    BY <1>1, <1>5, <2>2 DEF Away
  <2>3. QED BY <2>1, <2>2
<1>20. Once'
  <2>1. ASSUME NEW a \in Inos, NEW m \in Names, IsDir(ent[a][m])', ~Away(ent[a][m], a, m)'
        PROVE  IsDir(ent[a][m]) /\ (Away(ent[a][m], a, m) => p = "unlink")
    BY <1>1, <1>5, <1>6, <2>1 DEF IsDir, Away, TypeOK
  <2>2. CASE p = "dotdot"
    BY <1>1, <2>1, <2>2, OnceStep DEF TreeInv
  <2>3. CASE p = "unlink"
    <3>1. \A a \in Inos, m \in Names : IsDir(ent[a][m])' => IsDir(ent[a][m])
      BY <1>1, <1>6 DEF IsDir, TypeOK
    <3>2. \A a \in Inos, m \in Names :
            IsDir(ent[a][m]) /\ ent[a][m] = call.ip =>
              (a = call.d /\ m = call.n) \/ (a = call.td /\ m = call.tn)
      BY <1>1, <1>2 DEF TreeInv, Once, Away
    <3>3. QED BY <1>1, <1>2, <1>5, <2>3, <3>1, <3>2 DEF TreeInv, Once, Away
  <2>4. QED BY <2>2, <2>3
<1>16. Home' /\ Once' /\ RootInv' /\ LiveInv' /\ \A i \in Inos : Counted(i)'
  <2>1. faults' >= faults
    BY <1>1, VnopsAssumption DEF TypeOK
  <2>2. core'[call.d].nlink - core[call.d].nlink = IF p = "dotdot" THEN -1 ELSE 0
    BY <1>6
  <2>3. Owed(call.d)' - Owed(call.d) = IF p = "dotdot" THEN -1 ELSE 0
    BY <1>1, <1>5, <1>12
  <2>4. \A i \in Inos : i # call.d => Owed(i)' = Owed(i)
    BY <1>12
  <2>5. core'[call.d].nlink - core[call.d].nlink >= Owed(call.d)' - Owed(call.d)
    BY <2>2, <2>3
  <2>6. QED BY <1>1, <1>20, <1>5, <1>6, <1>7, <1>13, <1>14, <1>15, <2>1, <2>2, <2>3, <2>4, <2>5, CountStep
<1>17. DiskInv'
  BY <1>1, <1>5, <1>6, CountDisk
<1>18. QED BY <1>7, <1>8, <1>9, <1>11, <1>16, <1>17 DEF IInv, TreeInv

\* When no call runs nothing is owed, and the directory that one begins in is not removed.
LEMMA IdleFacts ==
  ASSUME TypeOK, IInv, Idle
  PROVE  /\ ~stray /\ TreeInv /\ call.op = "none" /\ Types
         /\ \A i \in Inos : Owed(i) = 0 /\ core[i].nlink \in Int /\ core[i].rename = FALSE
         /\ \A i, a, m : ~Away(i, a, m)
         /\ \A d \in Inos : Live(d) => d \in used /\ core[d].mode = "dir" /\ core[d].nlink > 0
<1>1. ~stray /\ TreeInv /\ call.op = "none" /\ call.pc = "idle" /\ Types
  BY DEF Idle, IInv, CallInv, TypeOK, Types
<1>2. \A i \in Inos : Owed(i) = 0
  BY <1>1 DEF Owed, NameOwed, UpOwed, DownOwed, One
<1>3. \A i, a, m : ~Away(i, a, m)
  BY <1>1 DEF Away
<1>4. \A i \in Inos : core[i].nlink \in Int
  BY DEF TypeOK, Inode
<1>5. \A i \in Inos : core[i].rename = FALSE
  BY <1>1 DEF TypeOK, Inode
<1>6. \A d \in Inos : Live(d) => d \in used /\ core[d].mode = "dir" /\ core[d].nlink > 0
  BY <1>1 DEF Live, IsDir, TreeInv, Counted
<1>7. QED BY <1>1, <1>2, <1>3, <1>4, <1>5, <1>6

\* ext2_link() has raised the count, or could not write the inode.
LEMMA LinkInv ==
  ASSUME TypeOK, IInv, NEW i \in Inos, NEW d \in Inos, NEW n \in Names, Link(i, d, n)
  PROVE  TypeOK' /\ IInv'
<1>0. /\ call \in Calls /\ core \in [Inos -> Inode] /\ Types
      /\ CallInv /\ MakeInv /\ RenameInv /\ FreeInv
  BY DEF TypeOK, IInv, Types
<1>1. /\ Idle /\ Live(d) /\ ent[d][n] = NoIno /\ i \in used /\ core[i].mode = "file"
      /\ core[i].nlink \in 1..(LinkMax - 1)
      /\ UNCHANGED <<ftype, tree, used, stray>> /\ UNCHANGED <<ent, dotdot>>
  BY DEF Link, tree
<1>2. /\ ~stray /\ TreeInv /\ call.op = "none"
      /\ \A j \in Inos : Owed(j) = 0 /\ core[j].nlink \in Int /\ core[j].rename = FALSE
      /\ \A j, a, m : ~Away(j, a, m)
      /\ d \in used /\ core[d].mode = "dir" /\ core[d].nlink > 0 /\ core[i].nlink > 0
  <2>1. core[i].nlink > 0
    BY <1>1, VnopsAssumption
  <2>2. QED BY <1>1, <2>1, IdleFacts
<1>3. CASE UpdateFails /\ UNCHANGED <<core, call>>
  <2>1. disk' = disk /\ faults' \in 0..MaxFaults /\ faults' >= faults
    BY <1>3, FaultFacts DEF UpdateFails, TypeOK
  <2>2. \A j \in Inos : Owed(j)' = Owed(j)
    BY <1>1, <1>3 DEF Owed, NameOwed, UpOwed, DownOwed, Doingdirectory, Newparent, IsDir
  <2>3. \A j, a, m : Away(j, a, m) => Away(j, a, m)'
    BY <1>2
  <2>4. TypeOK' /\ FreeInv' /\ Home' /\ Once' /\ RootInv' /\ LiveInv' /\ \A j \in Inos : Counted(j)'
    BY <1>0, <1>1, <1>2, <1>3, <2>1, <2>2, <2>3, PcStep DEF TypeOK
  <2>5. CallInv' /\ MakeInv' /\ RenameInv'
    BY <1>0, <1>1, <1>2, <1>3 DEF CallInv, MakeInv, RenameInv
  <2>6. DiskInv'
    BY <1>1, <1>2, <1>3, <2>1 DEF TreeInv, DiskInv, Written
  <2>7. QED BY <2>4, <2>5, <2>6 DEF IInv, TreeInv
<1>4. CASE /\ core' = Nlink(core, i, 1) /\ Updated(Nlink(core, i, 1), i)
           /\ call' = [NoCall EXCEPT !.op = "link", !.pc = "enter", !.d = d, !.n = n, !.ip = i]
  <2>1. /\ call' \in Calls /\ call'.op = "link" /\ call'.pc = "enter"
        /\ call'.d = d /\ call'.n = n /\ call'.ip = i /\ call'.td = Root
    BY <1>4, NoCallFacts, VnopsAssumption DEF Calls
  <2>2. /\ core' \in [Inos -> Inode]
        /\ \A j \in Inos : /\ core'[j].mode = core[j].mode /\ core'[j].rename = core[j].rename
                           /\ j # i => core'[j].nlink = core[j].nlink
        /\ core'[i].nlink = core[i].nlink + 1
    BY <1>0, <1>4, NlinkFacts
  <2>3. /\ disk' \in [Inos -> Dinode] /\ faults' \in 0..MaxFaults /\ faults' >= faults
        /\ disk'[i].mode = core'[i].mode /\ disk'[i].nlink = core'[i].nlink
        /\ \A j \in Inos :
              \/ disk'[j] = disk[j]
              \/ j = i /\ disk'[j].mode = core'[j].mode /\ disk'[j].nlink = core'[j].nlink
    <3>1. core' \in [Inos -> Inode] /\ Updated(core', i)
      BY <1>4, <2>2
    <3>2. QED BY <1>0, <3>1, UpdateTypes
  <2>4. TypeOK'
    BY <1>0, <1>1, <1>2, <2>1, <2>2, <2>3 DEF TypeOK
  <2>5. FreeInv'
    BY <1>0, <1>1, <2>2 DEF FreeInv
  <2>6. Root \in Inos /\ core[Root].mode = "dir" /\ core[Root].nlink > 0 /\ Root \in used
    BY <1>0, <1>2, VnopsAssumption DEF TreeInv, RootInv, FreeInv
  <2>7. CallInv'
    BY <1>1, <1>2, <2>1, <2>2, <2>6 DEF CallInv
  <2>8. MakeInv' /\ RenameInv'
    <3>1. core'[i].nlink > 1
      BY <1>2, <2>2
    <3>2. QED BY <1>1, <2>1, <2>2, <3>1 DEF MakeInv, RenameInv
  <2>9. \A j \in Inos : Owed(j)' = One(j = i)
    BY <2>1 DEF Owed, NameOwed, UpOwed, DownOwed, One
  <2>10. /\ core'[i].nlink > 0 /\ core'[i].nlink - core[i].nlink = 1
         /\ Owed(i)' - Owed(i) = 1 /\ \A j \in Inos : j # i => Owed(j)' = Owed(j)
    BY <1>2, <2>2, <2>9 DEF One
  <2>11. Home' /\ Once' /\ RootInv' /\ LiveInv' /\ \A j \in Inos : Counted(j)'
    BY <1>1, <1>2, <2>1, <2>2, <2>3, <2>4, <2>6, <2>10, CountStep
  <2>12. \A j \in Inos : \/ disk'[j] = disk[j]
                         \/ disk'[j].mode = core'[j].mode /\ disk'[j].nlink > 0
    BY <2>3, <2>10
  <2>13. DiskInv'
    <3>1. Written(call.ip)'
      BY <2>1, <2>3, <2>10 DEF Written
    <3>2. QED BY <1>1, <1>2, <2>1, <2>2, <2>12, <3>1, CountDisk
  <2>14. QED BY <2>4, <2>5, <2>7, <2>8, <2>11, <2>13 DEF IInv, TreeInv
<1>5. QED BY <1>3, <1>4 DEF Link

\* ext2_rename() has raised the source's count, and has written it or not.
LEMMA RenameBegins ==
  ASSUME TypeOK, IInv, NEW fd \in Inos, NEW fn \in Names, NEW td \in Inos, NEW tn \in Names,
         Rename(fd, fn, td, tn)
  PROVE  TypeOK' /\ IInv'
<1> DEFINE i == ent[fd][fn]
           b == core[i].mode = "dir"
<1>0. /\ call \in Calls /\ core \in [Inos -> Inode] /\ Types
      /\ CallInv /\ MakeInv /\ RenameInv /\ FreeInv
  BY DEF TypeOK, IInv, Types
<1>1. /\ Idle /\ Live(fd) /\ Live(td) /\ i # NoIno /\ i # ent[td][tn]
      /\ core[i].mode = "dir" => i # fd
      /\ UNCHANGED <<ftype, ent, dotdot, used, stray>>
  BY DEF Rename, tree
<1>2. /\ ~stray /\ TreeInv /\ call.op = "none"
      /\ \A j \in Inos : Owed(j) = 0 /\ core[j].nlink \in Int /\ core[j].rename = FALSE
      /\ \A j, a, m : ~Away(j, a, m)
      /\ fd \in used /\ core[fd].mode = "dir" /\ core[fd].nlink > 0
      /\ td \in used /\ core[td].mode = "dir" /\ core[td].nlink > 0
  BY <1>1, IdleFacts
<1>3. i \in Inos /\ i \in used /\ core[i].nlink > 0 /\ ent[td][tn] \in Inos \cup {NoIno}
  BY <1>0, <1>1, <1>2, NamedLive DEF TreeInv, TypeOK
<1>4. core' = Flagged(core, i, 1, b) /\ b \in BOOLEAN
  BY DEF Rename, Flagged
<1>5. PICK p \in {"checkpath", "bad"} :
        /\ call' = [[NoCall EXCEPT !.op = "rename", !.d = fd, !.n = fn, !.td = td, !.tn = tn,
                              !.ip = i, !.xp = ent[td][tn]] EXCEPT !.pc = p]
        /\ Updated(core', i) \/ UpdateFails
  BY DEF Rename
<1>6. /\ call' \in Calls /\ call'.op = "rename" /\ call'.pc = p /\ call'.d = fd /\ call'.n = fn
      /\ call'.td = td /\ call'.tn = tn /\ call'.ip = i /\ call'.xp = ent[td][tn]
  <2> DEFINE k == [NoCall EXCEPT !.op = "rename", !.d = fd, !.n = fn, !.td = td, !.tn = tn,
                              !.ip = i, !.xp = ent[td][tn]]
  <2> HIDE DEF i
  <2>1. /\ k \in Calls /\ k.op = "rename" /\ k.d = fd /\ k.n = fn
        /\ k.td = td /\ k.tn = tn /\ k.ip = i /\ k.xp = ent[td][tn]
    BY <1>3, NoCallFacts DEF Calls
  <2>2. call' = [k EXCEPT !.pc = p]
    BY <1>5
  <2> HIDE DEF k
  <2>3. QED BY <2>1, <2>2 DEF Calls
<1> HIDE DEF i, b
<1>7. /\ core' \in [Inos -> Inode]
      /\ \A j \in Inos : /\ core'[j].mode = core[j].mode
                         /\ j # i => core'[j].nlink = core[j].nlink
                                     /\ core'[j].rename = core[j].rename
      /\ core'[i].nlink = core[i].nlink + 1
  BY <1>0, <1>3, <1>4, FlaggedFacts
<1>8. /\ disk' \in [Inos -> Dinode] /\ faults' \in 0..MaxFaults /\ faults' >= faults
      /\ \A j \in Inos :
            \/ disk'[j] = disk[j]
            \/ j = i /\ disk'[j].mode = core'[j].mode /\ disk'[j].nlink = core'[j].nlink
  BY <1>0, <1>3, <1>5, <1>7, UpdateTypes
<1>9. TypeOK'
  <2>1. \A j \in Inos : core'[j].rename => j = i
    BY <1>2, <1>7
  <2>2. QED BY <1>0, <1>1, <1>6, <1>7, <1>8, <2>1 DEF TypeOK
<1>10. FreeInv'
  BY <1>0, <1>1, <1>3, <1>7 DEF FreeInv
<1>11. CallInv' /\ MakeInv'
  BY <1>1, <1>2, <1>3, <1>6, <1>7 DEF CallInv, MakeInv
<1>12. RenameInv'
  <2>1. Doingdirectory' => i # fd
    BY <1>1, <1>3, <1>6, <1>7 DEF Doingdirectory, IsDir, i
  <2>2. ent[fd][fn] = i
    BY DEF i
  <2>3. <<fd, fn>> # <<td, tn>>
    BY <1>1, <2>2
  <2>4. QED BY <1>1, <1>2, <1>6, <2>1, <2>2, <2>3 DEF RenameInv
<1>13. \A j \in Inos : Owed(j)' = One(j = i)
  BY <1>6 DEF Owed, NameOwed, UpOwed, DownOwed, One
<1>14. PICK t \in Inos : t = i
  BY <1>3
<1>15. /\ core'[t].nlink > 0 /\ core'[t].nlink - core[t].nlink = 1 /\ core[t].nlink > 0
       /\ Owed(t)' - Owed(t) = 1 /\ \A j \in Inos : j # t => Owed(j)' = Owed(j)
  BY <1>2, <1>3, <1>7, <1>13, <1>14 DEF One
<1>16. Home' /\ Once' /\ RootInv' /\ LiveInv' /\ \A j \in Inos : Counted(j)'
  BY <1>1, <1>2, <1>6, <1>7, <1>8, <1>9, <1>14, <1>15, CountStep
<1>17. \A j \in Inos : \/ disk'[j] = disk[j]
                       \/ disk'[j].mode = core'[j].mode /\ disk'[j].nlink > 0
  BY <1>8, <1>14, <1>15
<1>18. DiskInv'
  BY <1>1, <1>2, <1>6, <1>7, <1>17, CountDisk
<1>19. QED BY <1>9, <1>10, <1>11, <1>12, <1>16, <1>18 DEF IInv, TreeInv

(***************************************************************************)
(* The steps that change entries.                                          *)
(***************************************************************************)

\* Every account is kept by a step that touches one name and one ".." and accounts for it.
LEMMA TreeStep ==
  ASSUME TypeOK, TypeOK', \A i \in Inos : Counted(i), faults' >= faults,
         NEW a \in Inos, NEW m \in Names, NEW x \in Inos, Touches(a, m, x),
         \A i \in Inos :
           \/ /\ core[i].nlink > 0 /\ core'[i].nlink > 0
              /\ core'[i].nlink - core[i].nlink >= Change(a, m, x, i)
              /\ faults' = 0 => core'[i].nlink - core[i].nlink = Change(a, m, x, i)
           \/ /\ core[i].nlink = 0 /\ core'[i].nlink = 0
              /\ ent'[a][m] # i /\ ~Child(x, i)' /\ ent'[i] = NoEntries
           \/ Counted(i)'
  PROVE  \A i \in Inos : Counted(i)'
<1> SUFFICES ASSUME NEW i \in Inos PROVE Counted(i)'
  OBVIOUS
<1>1. CASE /\ core[i].nlink > 0 /\ core'[i].nlink > 0
           /\ core'[i].nlink - core[i].nlink >= Change(a, m, x, i)
           /\ faults' = 0 => core'[i].nlink - core[i].nlink = Change(a, m, x, i)
  BY <1>1, CountedStep
<1>2. CASE /\ core[i].nlink = 0 /\ core'[i].nlink = 0
           /\ ent'[a][m] # i /\ ~Child(x, i)' /\ ent'[i] = NoEntries
  BY <1>2, CountedDead
<1>3. QED BY <1>1, <1>2

\* Without names and children an inode has its "." at most.
LEMMA RefsNone ==
  ASSUME NEW i \in Inos, i # Root, NamesOf(i)' = {}, Children(i)' = {}
  PROVE  Refs(i)' = Dot(i)'
<1>1. Cardinality(NamesOf(i)') = 0 /\ Cardinality(Children(i)') = 0
  BY FS_EmptySet
<1>2. Dot(i)' \in Int
  BY DEF Dot
<1>3. Refs(i)' = Cardinality(NamesOf(i)') + Cardinality(Children(i)') + Dot(i)' + 0
  BY DEF Refs, Dot
<1>4. QED BY <1>1, <1>2, <1>3

\* An inode whose count covers its "." and a name that is owed to it has no name and no child.
LEMMA Unnamed ==
  ASSUME TypeOK, NEW i \in Inos, Counted(i), core[i].nlink # 0,
         core[i].nlink <= Dot(i) + Owed(i)
  PROVE  NamesOf(i) = {} /\ Children(i) = {}
<1>1. core[i].nlink \in Int /\ Dot(i) \in Int /\ Owed(i) \in Int
  BY OwedType DEF TypeOK, Inode, Dot
<1>2. ASSUME NEW a \in Inos, NEW m \in Names, NEW x \in Inos
      PROVE  ent[a][m] # i /\ ~Child(x, i)
  <2>1. core[i].nlink >= One(ent[a][m] = i) + One(Child(x, i)) + Dot(i) + One(i = Root) + Owed(i)
    BY CountBounds
  <2>2. /\ One(ent[a][m] = i) \in {0, 1} /\ One(Child(x, i)) \in {0, 1} /\ One(i = Root) \in {0, 1}
        /\ ent[a][m] = i => One(ent[a][m] = i) = 1
        /\ Child(x, i) => One(Child(x, i)) = 1
    BY DEF One
  <2>3. One(ent[a][m] = i) = 0 /\ One(Child(x, i)) = 0
    BY <1>1, <2>1, <2>2
  <2>4. QED BY <2>2, <2>3
<1>3. \E a \in Inos, m \in Names : TRUE
  BY VnopsAssumption
<1>4. NamesOf(i) = {}
  <2>1. \A e \in Inos \X Names : e[1] \in Inos /\ e[2] \in Names
    OBVIOUS
  <2>2. QED BY <1>2, <2>1 DEF NamesOf
<1>5. Children(i) = {}
  <2>1. \A x \in Inos : ~Child(x, i)
    BY <1>2, <1>3
  <2>2. QED BY <2>1, RefSets
<1>6. QED BY <1>4, <1>5

\* A new inode: ext2_valloc().
LEMMA MakeinodeInv ==
  ASSUME TypeOK, IInv, NEW op \in {"makeinode", "mkdir"}, NEW d \in Inos, NEW n \in Names,
         Makeinode(op, d, n)
  PROVE  TypeOK' /\ IInv'
<1> DEFINE r == IF op = "mkdir" THEN [mode |-> "dir", nlink |-> 2, rename |-> FALSE]
                ELSE [mode |-> "file", nlink |-> 1, rename |-> FALSE]
<1>0. /\ call \in Calls /\ core \in [Inos -> Inode] /\ Types
      /\ CallInv /\ MakeInv /\ RenameInv /\ FreeInv
  BY DEF TypeOK, IInv, Types
<1>1. PICK i \in Inos \ used :
        /\ used' = used \cup {i} /\ core' = [core EXCEPT ![i] = r]
        /\ call' = [NoCall EXCEPT !.op = op, !.pc = "init", !.d = d, !.n = n, !.ip = i]
  BY DEF Makeinode
<1>2. /\ Idle /\ Live(d) /\ ent[d][n] = NoIno
      /\ UNCHANGED <<ftype, ent, dotdot, disk, faults, stray>>
  BY DEF Makeinode, tree
<1>3. /\ ~stray /\ TreeInv /\ call.op = "none"
      /\ \A j \in Inos : Owed(j) = 0 /\ core[j].nlink \in Int /\ core[j].rename = FALSE
      /\ \A j, a, m : ~Away(j, a, m)
      /\ d \in used /\ core[d].mode = "dir" /\ core[d].nlink > 0
  BY <1>2, IdleFacts
<1>4. /\ r \in Inode /\ r.rename = FALSE
      /\ op = "mkdir" => r.mode = "dir" /\ r.nlink = 2
      /\ op = "makeinode" => r.mode = "file" /\ r.nlink = 1
  BY DEF Inode
<1> HIDE DEF r
<1>5. /\ core' \in [Inos -> Inode] /\ core'[i] = r
      /\ \A j \in Inos : j # i => core'[j] = core[j]
  BY <1>0, <1>1, <1>4
<1>6. /\ call' \in Calls /\ call'.op = op /\ call'.pc = "init"
      /\ call'.d = d /\ call'.n = n /\ call'.ip = i /\ call'.td = Root
  BY <1>1, NoCallFacts, VnopsAssumption DEF Calls
<1>7. /\ core[i].mode = "free" /\ core[i].nlink = 0 /\ dotdot[i] = NoIno /\ ent[i] = NoEntries
      /\ NamesOf(i) = {} /\ Children(i) = {} /\ i # d
  BY <1>0, <1>1, <1>3 DEF FreeInv, TreeInv, Counted
<1>8. /\ Root \in Inos /\ core[Root].mode = "dir" /\ core[Root].nlink > 0 /\ Root \in used
      /\ i # Root
  BY <1>0, <1>3, <1>7, VnopsAssumption DEF TreeInv, RootInv, FreeInv
<1>9. TypeOK'
  BY <1>0, <1>1, <1>2, <1>3, <1>4, <1>5, <1>6 DEF TypeOK
<1>10. FreeInv'
  BY <1>0, <1>1, <1>2, <1>5, <1>7 DEF FreeInv
<1>11. CallInv'
  BY <1>1, <1>3, <1>5, <1>6, <1>7, <1>8 DEF CallInv
<1>12. MakeInv' /\ RenameInv'
  BY <1>2, <1>4, <1>5, <1>6, <1>7, <1>8 DEF MakeInv, RenameInv
<1>13. \A a \in Inos, m \in Names : ent[a][m] # i
  BY <1>7, RefSets
<1>14. Home'
  <2>1. \A a \in Inos, m \in Names : IsDir(ent[a][m])' => IsDir(ent[a][m])
    BY <1>2, <1>5, <1>13 DEF IsDir, TypeOK
  <2>2. QED BY <1>2, <1>3, <2>1 DEF Home, TreeInv
<1>15. RootInv' /\ LiveInv'
  BY <1>2, <1>3, <1>5, <1>6, <1>7, <1>8 DEF RootInv, LiveInv, TreeInv
<1>16. DiskInv'
  BY <1>2, <1>3, <1>5, <1>6, <1>13 DEF DiskInv, TreeInv, Written, TypeOK
<1>17. \A j \in Inos : Owed(j)' = One(j = i)
  BY <1>6 DEF Owed, NameOwed, UpOwed, DownOwed, One
<1>18. Counted(i)'
  <2>1. NamesOf(i)' = {}
    BY <1>2, <1>7 DEF NamesOf
  <2>2. Children(i)' = {}
    BY <1>2, <1>5, <1>7, VnopsAssumption DEF Children
  <2>3. Refs(i)' = Dot(i)'
    BY <1>8, <2>1, <2>2, RefsNone
  <2>4. Owed(i)' = 1
    BY <1>17 DEF One
  <2>5. core'[i].nlink = Dot(i)' + 1 /\ Dot(i)' \in {0, 1}
    BY <1>4, <1>5 DEF Dot
  <2>6. core'[i].nlink > 0 /\ core'[i].nlink # 0
    BY <2>5
  <2>7. Slack(i)' = core'[i].nlink - Dot(i)' - 1
    BY <2>3, <2>4 DEF Slack
  <2>8. Slack(i)' = 0
    BY <2>5, <2>7
  <2>9. QED BY <2>6, <2>8 DEF Counted
<1>19. Touches(d, n, i)
  BY <1>2, <1>5 DEF Touches, Alive
<1>20. \A j \in Inos : Counted(j)'
  <2>1. ASSUME NEW j \in Inos, j # i, core[j].nlink # 0
        PROVE  /\ core[j].nlink > 0 /\ core'[j].nlink > 0
               /\ core'[j].nlink - core[j].nlink = 0 /\ Change(d, n, i, j) = 0
    <3>1. core[j].nlink > 0 /\ core'[j].nlink = core[j].nlink /\ core[j].nlink \in Int
      BY <1>3, <1>5, <2>1 DEF TreeInv, Counted
    <3>2. ~Child(i, j)' /\ ~Child(i, j)
      BY <1>2, <1>7, <2>1, VnopsAssumption DEF Child
    <3>3. Owed(j)' = 0 /\ Owed(j) = 0
      BY <1>3, <1>17, <2>1 DEF One
    <3>4. Dot(j)' = Dot(j) /\ Dot(j) \in Int
      BY <1>5, <2>1 DEF Dot
    <3>5. One(ent'[d][n] = j) = One(ent[d][n] = j) /\ One(ent[d][n] = j) \in Int
      BY <1>2 DEF One
    <3>6. One(Child(i, j)') = 0 /\ One(Child(i, j)) = 0
      BY <3>2 DEF One
    <3>7. Change(d, n, i, j) = 0
      BY <3>3, <3>4, <3>5, <3>6 DEF Change
    <3>8. QED BY <3>1, <3>7
  <2>2. ASSUME NEW j \in Inos, j # i, core[j].nlink = 0
        PROVE  /\ core'[j].nlink = 0 /\ ent'[d][n] # j /\ ~Child(i, j)' /\ ent'[j] = NoEntries
    BY <1>2, <1>3, <1>5, <1>7, <2>2, VnopsAssumption DEF Child, TreeInv, Counted
  <2>3. faults' >= faults
    BY <1>2, VnopsAssumption DEF TypeOK
  <2>4. ASSUME NEW j \in Inos
        PROVE
           \/ /\ core[j].nlink > 0 /\ core'[j].nlink > 0
              /\ core'[j].nlink - core[j].nlink >= Change(d, n, i, j)
              /\ faults' = 0 => core'[j].nlink - core[j].nlink = Change(d, n, i, j)
           \/ /\ core[j].nlink = 0 /\ core'[j].nlink = 0
              /\ ent'[d][n] # j /\ ~Child(i, j)' /\ ent'[j] = NoEntries
           \/ Counted(j)'
    <3>1. CASE j = i
      BY <1>18, <3>1
    <3>2. CASE j # i /\ core[j].nlink # 0
      BY <2>1, <3>2
    <3>3. CASE j # i /\ core[j].nlink = 0
      BY <2>2, <3>3
    <3>4. QED BY <3>1, <3>2, <3>3
  <2>5. QED BY <1>3, <1>9, <1>19, <2>3, <2>4, TreeStep DEF TreeInv
<1>21. Once'
  <2>1. \A a \in Inos, m \in Names : IsDir(ent[a][m])' => IsDir(ent[a][m])
    BY <1>2, <1>5, <1>13 DEF IsDir, TypeOK
  <2>2. QED BY <1>2, <1>3, <2>1, OnceStep DEF TreeInv
<1>22. QED BY <1>9, <1>10, <1>11, <1>12, <1>14, <1>15, <1>16, <1>20, <1>21 DEF IInv, TreeInv

\* The block with "." and ".." is written: the parent's debt is paid.
LEMMA MkdirFilled ==
  ASSUME TypeOK, IInv, call.op = "mkdir", call.pc = "fill", Goto("enter"), NoFault,
         dotdot' = [dotdot EXCEPT ![call.ip] = call.d],
         ent' = [ent EXCEPT ![call.ip] = NoEntries],
         UNCHANGED <<ftype, core, disk, used, stray>>
  PROVE  TypeOK' /\ IInv'
<1>0. /\ call \in Calls /\ core \in [Inos -> Inode] /\ Types
      /\ CallInv /\ MakeInv /\ RenameInv /\ FreeInv
  BY DEF TypeOK, IInv, Types
<1>1. /\ call.ip \in Inos /\ call.d \in Inos /\ call.n \in Names /\ call.ip \in used
      /\ core[call.ip].nlink = 2 /\ core[call.ip].mode = "dir" /\ call.ip # call.d
      /\ call.ip # Root /\ dotdot[call.ip] = NoIno /\ core[call.d].mode = "dir"
      /\ ent[call.ip] = NoEntries /\ ent[call.d][call.n] = NoIno
  BY <1>0 DEF CallInv, MakeInv, TypeOK, Calls
<1>2. ent' = ent
  BY <1>0, <1>1 DEF Types
<1>3. /\ call' \in Calls /\ call'.pc = "enter" /\ call'.op = call.op
      /\ call'.d = call.d /\ call'.n = call.n /\ call'.ip = call.ip
      /\ call'.td = call.td /\ call'.tn = call.tn /\ call'.xp = call.xp
  BY <1>0, GotoFields DEF CallPcs
<1>4. /\ dotdot' \in [Inos -> Inos \cup {NoIno}] /\ dotdot'[call.ip] = call.d
      /\ \A j \in Inos : j # call.ip => dotdot'[j] = dotdot[j]
  BY <1>0, <1>1 DEF Types
<1>5. faults' \in 0..MaxFaults /\ faults' >= faults
  BY FaultFacts DEF TypeOK
<1>6. TypeOK'
  BY <1>0, <1>2, <1>3, <1>4, <1>5 DEF TypeOK
<1>7. FreeInv'
  BY <1>0, <1>1, <1>2, <1>4 DEF FreeInv
<1>8. CallInv' /\ MakeInv' /\ RenameInv'
  BY <1>0, <1>1, <1>2, <1>3, <1>4 DEF CallInv, MakeInv, RenameInv
<1>9. ASSUME ~stray' PROVE TreeInv'
  <2>1. TreeInv
    BY <1>9 DEF IInv
  <2>2. ASSUME NEW a \in Inos, NEW m \in Names PROVE ent[a][m] # call.ip
    BY <1>1, <2>1, VnopsAssumption DEF TreeInv, Home, Away, IsDir
  <2>3. Home'
    <3>1. \A a \in Inos, m \in Names : IsDir(ent[a][m])' => IsDir(ent[a][m]) /\ ent[a][m] \in Inos
      BY <1>2 DEF IsDir, TypeOK
    <3>2. \A i, a, m : ~Away(i, a, m)
      BY DEF Away
    <3>3. QED BY <1>2, <1>4, <2>1, <2>2, <3>1, <3>2 DEF Home, TreeInv
  <2>4. RootInv' /\ LiveInv'
    BY <1>1, <1>2, <1>3, <1>4, <2>1 DEF RootInv, LiveInv, TreeInv
  <2>5. DiskInv'
    BY <1>2, <1>3, <2>1 DEF DiskInv, TreeInv, Written
  <2>6. Touches(call.d, call.n, call.ip)
    BY <1>2, <1>4 DEF Touches, Alive
  <2>7. \A j \in Inos : /\ Owed(j) = One(j = call.ip) + One(j = call.d)
                        /\ Owed(j)' = One(j = call.ip)
    BY <1>3 DEF Owed, NameOwed, UpOwed, DownOwed, One
  <2>8. \A j \in Inos : One(Child(call.ip, j)') = One(j = call.d) /\ One(Child(call.ip, j)) = 0
    BY <1>1, <1>3, <1>4, VnopsAssumption DEF Child, Alive, One
  <2>9. ASSUME NEW j \in Inos
        PROVE
           \/ /\ core[j].nlink > 0 /\ core'[j].nlink > 0
              /\ core'[j].nlink - core[j].nlink = 0 /\ Change(call.d, call.n, call.ip, j) = 0
           \/ /\ core[j].nlink = 0 /\ core'[j].nlink = 0
              /\ ent'[call.d][call.n] # j /\ ~Child(call.ip, j)' /\ ent'[j] = NoEntries
    <3>1. CASE core[j].nlink = 0
      <4>1. j # call.d
        BY <2>1, <3>1 DEF TreeInv, LiveInv
      <4>2. QED BY <1>1, <1>2, <1>3, <1>4, <2>1, <3>1, <4>1, VnopsAssumption DEF Child, TreeInv, Counted
    <3>2. CASE core[j].nlink # 0
      <4>1. core[j].nlink > 0 /\ core'[j].nlink - core[j].nlink = 0
        BY <1>0, <2>1, <3>2 DEF TreeInv, Counted, Inode
      <4>2. Dot(j)' = Dot(j) /\ Dot(j) \in Int
        BY DEF Dot
      <4>3. /\ One(ent'[call.d][call.n] = j) = One(ent[call.d][call.n] = j)
            /\ One(ent[call.d][call.n] = j) \in Int
        BY <1>2 DEF One
      <4>4. One(j = call.ip) \in Int /\ One(j = call.d) \in Int
        BY DEF One
      <4>5. Owed(j)' - Owed(j) = 0 - One(j = call.d)
        BY <2>7, <4>4
      <4>6. Change(call.d, call.n, call.ip, j) = 0
        BY <2>8, <4>2, <4>3, <4>4, <4>5 DEF Change
      <4>7. QED BY <4>1, <4>6
    <3>3. QED BY <3>1, <3>2
  <2>10. \A j \in Inos : Counted(j)'
    BY <1>1, <1>3, <1>5, <1>6, <2>1, <2>6, <2>9, TreeStep DEF TreeInv
  <2>11. Once'
    <3>1. \A a \in Inos, m \in Names : IsDir(ent[a][m])' => IsDir(ent[a][m])
      BY <1>2 DEF IsDir
    <3>2. \A i, a, m : ~Away(i, a, m)
      BY DEF Away
    <3>3. QED BY <1>2, <2>1, <3>1, <3>2, OnceStep DEF TreeInv
  <2>12. QED BY <2>3, <2>4, <2>5, <2>10, <2>11 DEF TreeInv
<1>10. QED BY <1>6, <1>7, <1>8, <1>9 DEF IInv

\* The block cannot be allocated or written: the parent's count goes back.
LEMMA MkdirFillFails ==
  ASSUME TypeOK, IInv, call.op = "mkdir", call.pc = "fill", Goto("bad"), Fault,
         core' = Nlink(core, call.d, -1), UNCHANGED <<ftype, tree, disk, used, stray>>
  PROVE  TypeOK' /\ IInv'
<1>0. /\ call \in Calls /\ core \in [Inos -> Inode] /\ Types
      /\ CallInv /\ MakeInv /\ RenameInv /\ FreeInv
  BY DEF TypeOK, IInv, Types
<1>1. /\ call.ip \in Inos /\ call.d \in Inos /\ call.n \in Names
      /\ call.ip # call.d /\ dotdot[call.ip] = NoIno /\ core[call.d].mode = "dir"
      /\ UNCHANGED <<ent, dotdot>>
  BY <1>0 DEF CallInv, MakeInv, TypeOK, Calls, tree
<1>2. /\ call' \in Calls /\ call'.pc = "bad" /\ call'.op = call.op
      /\ call'.d = call.d /\ call'.n = call.n /\ call'.ip = call.ip
      /\ call'.td = call.td /\ call'.tn = call.tn /\ call'.xp = call.xp
  BY <1>0, GotoFields DEF CallPcs
<1>3. /\ core' \in [Inos -> Inode]
      /\ \A j \in Inos : /\ core'[j].mode = core[j].mode /\ core'[j].rename = core[j].rename
                         /\ j # call.d => core'[j].nlink = core[j].nlink
      /\ core'[call.d].nlink = core[call.d].nlink + (-1) /\ core[call.d].nlink \in Int
  <2>1. core[call.d].nlink \in Int
    BY <1>0, <1>1 DEF Inode
  <2>2. QED BY <1>0, <1>1, <2>1, NlinkFacts
<1>4. faults' \in 0..MaxFaults /\ faults' >= faults
  BY FaultFacts DEF TypeOK
<1>5. TypeOK'
  BY <1>0, <1>1, <1>2, <1>3, <1>4 DEF TypeOK
<1>6. FreeInv'
  BY <1>0, <1>1, <1>3 DEF FreeInv, CallInv
<1>7. CallInv' /\ MakeInv' /\ RenameInv'
  BY <1>0, <1>1, <1>2, <1>3 DEF CallInv, MakeInv, RenameInv, TypeOK
<1>8. ASSUME ~stray' PROVE TreeInv'
  <2>1. TreeInv /\ core[call.d].nlink > 0 /\ core[call.td].nlink > 0
    BY <1>8 DEF IInv, TreeInv, LiveInv
  <2>2. \A j \in Inos : /\ Owed(j) = One(j = call.ip) + One(j = call.d)
                        /\ Owed(j)' = One(j = call.ip)
    BY <1>1, <1>2, VnopsAssumption DEF Owed, NameOwed, UpOwed, DownOwed, One
  <2>3. core'[call.d].nlink > 0
    <3>1. core[call.d].nlink >= One(ent[call.d][call.n] = call.d) + One(Child(call.ip, call.d))
                                + Dot(call.d) + One(call.d = Root) + Owed(call.d)
      BY <1>1, <2>1, CountBounds DEF TreeInv
    <3>2. Dot(call.d) = 1 /\ Owed(call.d) = 1
      BY <1>1, <2>2 DEF Dot, One
    <3>3. /\ One(ent[call.d][call.n] = call.d) \in {0, 1} /\ One(call.d = Root) \in {0, 1}
          /\ One(Child(call.ip, call.d)) \in {0, 1}
      BY DEF One
    <3>4. core[call.d].nlink >= 2
      BY <1>3, <3>1, <3>2, <3>3
    <3>5. QED BY <1>3, <3>4
  <2>4. /\ core'[call.d].nlink - core[call.d].nlink = -1
        /\ Owed(call.d)' - Owed(call.d) = -1
        /\ \A j \in Inos : j # call.d => Owed(j)' = Owed(j)
    BY <1>1, <1>2, <1>3, <2>2 DEF One
  <2>5. \A i, a, m : ~Away(i, a, m)
    BY DEF Away
  <2>6. Home' /\ Once' /\ RootInv' /\ LiveInv' /\ \A j \in Inos : Counted(j)'
    BY <1>1, <1>2, <1>3, <1>4, <1>5, <2>1, <2>3, <2>4, <2>5, CountStep
  <2>7. DiskInv'
    BY <1>1, <1>2, <1>3, <2>1, CountDisk
  <2>8. QED BY <2>6, <2>7 DEF TreeInv
<1>9. QED BY <1>5, <1>6, <1>7, <1>8 DEF IInv

\* ext2_mkdir() has filled the new directory, or not.
LEMMA MkdirFillInv == TypeOK /\ IInv /\ MkdirFill => TypeOK' /\ IInv'
BY MkdirFilled, MkdirFillFails DEF MkdirFill

\* The name is entered: the debt to the inode is paid.
LEMMA Entered ==
  ASSUME TypeOK, IInv, call.op \in {"makeinode", "mkdir", "link"}, call.pc = "enter",
         ent' = [ent EXCEPT ![call.d][call.n] = call.ip], NoFault,
         IF call.op = "makeinode" THEN Goto("made") ELSE Return,
         UNCHANGED <<ftype, dotdot, core, disk, used, stray>>
  PROVE  TypeOK' /\ IInv'
<1>0. /\ call \in Calls /\ core \in [Inos -> Inode] /\ Types
      /\ CallInv /\ MakeInv /\ RenameInv /\ FreeInv
  BY DEF TypeOK, IInv, Types
<1>1. PICK t \in Inos, d \in Inos, n \in Names : t = call.ip /\ d = call.d /\ n = call.n
  BY <1>0 DEF CallInv, TypeOK, Calls
<1>2. /\ ent[d][n] = NoIno /\ core[d].mode = "dir" /\ t \in used /\ d \in used
      /\ call.op = "mkdir" => dotdot[t] = d /\ t # Root /\ t # d
      /\ core[t].mode = IF call.op = "mkdir" THEN "dir" ELSE "file"
      /\ core[t].nlink > 0
  <2>1. core[t].nlink > 0
    <3>1. core[t].nlink \in Int
      BY <1>0 DEF Inode
    <3>2. core[t].nlink = 1 \/ core[t].nlink = 2 \/ core[t].nlink > 1
      BY <1>0, <1>1 DEF MakeInv
    <3>3. QED BY <3>1, <3>2
  <2>2. QED BY <1>0, <1>1, <2>1 DEF MakeInv, CallInv
<1>3. /\ ent' \in [Inos -> [Names -> Inos \cup {NoIno}]] /\ ent'[d][n] = t
      /\ \A b \in Inos, k \in Names : b # d \/ k # n => ent'[b][k] = ent[b][k]
      /\ \A b \in Inos : b # d => ent'[b] = ent[b]
  <2>1. ent' = Entry(d, n, t)
    BY <1>1 DEF Entry
  <2>2. QED BY <1>0, <2>1, EntryTypes
<1>4. /\ call' \in Calls
      /\ \/ call'.op = "makeinode" /\ call'.pc = "made" /\ call.op = "makeinode"
            /\ call'.d = call.d /\ call'.td = call.td /\ call'.ip = call.ip
         \/ call'.op = "none" /\ call'.pc = "idle"
  <2>1. CASE call.op = "makeinode"
    <3>1. Goto("made")
      BY <2>1
    <3>2. QED BY <1>0, <2>1, <3>1, GotoFields DEF CallPcs
  <2>2. CASE call.op # "makeinode"
    <3>1. Return
      BY <2>2
    <3>2. QED BY <3>1, ReturnInv
  <2>3. QED BY <2>1, <2>2
<1>5. faults' \in 0..MaxFaults /\ faults' >= faults
  BY FaultFacts DEF TypeOK
<1>6. TypeOK'
  BY <1>0, <1>3, <1>4, <1>5 DEF TypeOK
<1>7. FreeInv'
  BY <1>0, <1>2, <1>3 DEF FreeInv
<1>8. CallInv' /\ MakeInv' /\ RenameInv'
  BY <1>0, <1>1, <1>2, <1>4 DEF CallInv, MakeInv, RenameInv
<1>9. ASSUME ~stray' PROVE TreeInv'
  <2>1. TreeInv
    BY <1>9 DEF IInv
  <2>2. Home'
    <3>1. \A i, a, m : ~Away(i, a, m)
      BY DEF Away
    <3>2. ASSUME NEW a \in Inos, NEW m \in Names, IsDir(ent[a][m])'
          PROVE  dotdot'[ent'[a][m]] = a
      <4>1. CASE a = d /\ m = n
        BY <1>2, <1>3, <3>2, <4>1 DEF IsDir
      <4>2. CASE a # d \/ m # n
        BY <1>3, <2>1, <3>1, <3>2, <4>2 DEF IsDir, TreeInv, Home
      <4>3. QED BY <4>1, <4>2
    <3>3. QED BY <3>2 DEF Home
  <2>3. RootInv'
    <3>1. t # Root
      BY <1>2, <2>1 DEF TreeInv, RootInv
    <3>2. \A a \in Inos, m \in Names : ent'[a][m] # Root
      BY <1>3, <2>1, <3>1 DEF TreeInv, RootInv
    <3>3. QED BY <2>1, <3>2 DEF TreeInv, RootInv
  <2>4. LiveInv'
    BY <1>4, <2>1 DEF LiveInv, TreeInv
  <2>5. DiskInv'
    <3>1. Written(t)
      BY <1>1, <2>1 DEF TreeInv, DiskInv
    <3>2. \A i : Written(i)' <=> Written(i)
      BY DEF Written
    <3>3. ASSUME NEW a \in Inos, NEW m \in Names, ent'[a][m] # NoIno
          PROVE  Written(ent[a][m])'
      <4>1. CASE a = d /\ m = n
        BY <1>3, <3>1, <4>1 DEF Written
      <4>2. CASE a # d \/ m # n
        BY <1>3, <2>1, <3>3, <4>2 DEF TreeInv, DiskInv, Written
      <4>3. QED BY <4>1, <4>2
    <3>4. QED BY <1>4, <3>3 DEF DiskInv
  <2>6. Touches(d, n, d)
    BY <1>3 DEF Touches, Alive
  <2>7. \A j \in Inos : Owed(j) = One(j = t) /\ Owed(j)' = 0
    BY <1>1, <1>4 DEF Owed, NameOwed, UpOwed, DownOwed, One
  <2>8. ASSUME NEW j \in Inos
        PROVE
           \/ /\ core[j].nlink > 0 /\ core'[j].nlink > 0
              /\ core'[j].nlink - core[j].nlink = 0 /\ Change(d, n, d, j) = 0
           \/ /\ core[j].nlink = 0 /\ core'[j].nlink = 0
              /\ ent'[d][n] # j /\ ~Child(d, j)' /\ ent'[j] = NoEntries
    <3>1. CASE core[j].nlink = 0
      <4>1. j # d /\ j # t /\ ent[j] = NoEntries /\ Children(j) = {}
        BY <1>1, <1>2, <2>1, <3>1 DEF TreeInv, LiveInv, Counted
      <4>2. ~Child(d, j)
        BY <4>1, RefSets
      <4>3. QED BY <1>3, <3>1, <4>1, <4>2 DEF Child, Alive
    <3>2. CASE core[j].nlink # 0
      <4>1. core[j].nlink > 0 /\ core'[j].nlink - core[j].nlink = 0
        BY <1>0, <2>1, <3>2 DEF TreeInv, Counted, Inode
      <4>2. Dot(j)' = Dot(j) /\ Dot(j) \in Int
        BY DEF Dot
      <4>3. One(ent'[d][n] = j) = One(j = t) /\ One(ent[d][n] = j) = 0
        BY <1>2, <1>3, VnopsAssumption DEF One
      <4>4. One(j = t) \in Int
        BY DEF One
      <4>5. Owed(j)' - Owed(j) = 0 - One(j = t)
        BY <2>7, <4>4
      <4>6. One(Child(d, j)') = One(Child(d, j)) /\ One(Child(d, j)) \in Int
        BY DEF Child, Alive, One
      <4>7. Change(d, n, d, j) = 0
        BY <4>2, <4>3, <4>4, <4>5, <4>6 DEF Change
      <4>8. QED BY <4>1, <4>7
    <3>3. QED BY <3>1, <3>2
  <2>9. \A j \in Inos : Counted(j)'
    BY <1>5, <1>6, <2>1, <2>6, <2>8, TreeStep DEF TreeInv
  <2>10. Once'
    <3>1. \A i, a, m : ~Away(i, a, m)
      BY DEF Away
    <3>2. ASSUME NEW a \in Inos, NEW m \in Names, IsDir(ent[a][m])', a # d \/ m # n
          PROVE  ent'[a][m] = ent[a][m] /\ IsDir(ent[a][m])
      BY <1>3, <3>2 DEF IsDir
    <3>3. ASSUME call.op = "mkdir", NEW a \in Inos, NEW m \in Names PROVE ent[a][m] # t
      <4>1. core[t].nlink = 2 /\ Dot(t) = 1 /\ Owed(t) = 1 /\ Counted(t)
        BY <1>0, <1>1, <1>2, <2>1, <2>7, <3>3 DEF MakeInv, Dot, One, TreeInv
      <4>2. core[t].nlink # 0 /\ core[t].nlink <= Dot(t) + Owed(t)
        BY <4>1
      <4>3. NamesOf(t) = {}
        BY <4>1, <4>2, Unnamed
      <4>4. QED BY <4>3, RefSets
    <3>4. ASSUME NEW a \in Inos, NEW m \in Names, NEW b \in Inos, NEW k \in Names,
                 IsDir(ent[a][m])', ent'[b][k] = ent'[a][m], a # d \/ m # n
          PROVE  a = b /\ m = k
      <4>1. ent'[a][m] = ent[a][m] /\ IsDir(ent[a][m])
        BY <3>2, <3>4
      <4>2. b # d \/ k # n
        BY <1>2, <1>3, <3>3, <3>4, <4>1 DEF IsDir
      <4>3. ent[b][k] = ent[a][m]
        BY <1>3, <3>4, <4>1, <4>2
      <4>4. QED BY <2>1, <3>1, <4>1, <4>3 DEF TreeInv, Once
    <3>5. ASSUME NEW a \in Inos, NEW m \in Names, NEW b \in Inos, NEW k \in Names,
                 IsDir(ent[a][m])', ent'[b][k] = ent'[a][m], a = d /\ m = n
          PROVE  a = b /\ m = k
      BY <1>2, <1>3, <3>3, <3>5 DEF IsDir
    <3>6. QED BY <3>4, <3>5 DEF Once
  <2>11. QED BY <2>2, <2>3, <2>4, <2>5, <2>9, <2>10 DEF TreeInv
<1>10. QED BY <1>6, <1>7, <1>8, <1>9 DEF IInv

\* The name is not entered, or is although ext2_direnter() failed: the counts go back.
LEMMA EnterFails ==
  ASSUME TypeOK, IInv, call.op \in {"makeinode", "mkdir", "link"}, call.pc = "enter",
         Direnter(call.d, call.n, call.ip, FALSE), core' = EnterUndo,
         IF call.op = "link" THEN Return ELSE Goto("bad"),
         UNCHANGED <<ftype, disk, used>>
  PROVE  TypeOK' /\ IInv'
<1>0. /\ call \in Calls /\ core \in [Inos -> Inode] /\ Types
      /\ CallInv /\ MakeInv /\ RenameInv /\ FreeInv
  BY DEF TypeOK, IInv, Types
<1>1. PICK t \in Inos, d \in Inos, n \in Names : t = call.ip /\ d = call.d /\ n = call.n
  BY <1>0 DEF CallInv, TypeOK, Calls
<1>2. /\ ent[d][n] = NoIno /\ core[d].mode = "dir" /\ t \in used /\ d \in used
      /\ call.op = "makeinode" => core[t].nlink = 1
      /\ call.op = "mkdir" => dotdot[t] = d /\ t # Root /\ t # d /\ core[t].nlink = 2
      /\ call.op = "link" => core[t].nlink > 1
      /\ core[t].mode = IF call.op = "mkdir" THEN "dir" ELSE "file"
  BY <1>0, <1>1 DEF MakeInv, CallInv
<1>3. /\ dotdot' = dotdot /\ Fault
      /\ \/ ent' = ent /\ stray' = stray
         \/ ent' = Entry(d, n, t) /\ stray' = TRUE
  BY <1>1 DEF Direnter, Entry
<1>4. /\ ent' \in [Inos -> [Names -> Inos \cup {NoIno}]]
      /\ \A b \in Inos : b # d => ent'[b] = ent[b]
  <2>1. CASE ent' = ent
    BY <1>0, <2>1 DEF Types
  <2>2. CASE ent' = Entry(d, n, t)
    BY <1>0, <2>2, EntryTypes
  <2>3. QED BY <1>3, <2>1, <2>2
<1>5. /\ call' \in Calls
      /\ \/ /\ call'.op = call.op /\ call'.pc = "bad" /\ call.op # "link"
            /\ call'.d = call.d /\ call'.td = call.td /\ call'.ip = call.ip
         \/ call'.op = "none" /\ call'.pc = "idle" /\ call.op = "link"
  <2>1. CASE call.op # "link"
    <3>1. Goto("bad")
      BY <2>1
    <3>2. QED BY <1>0, <2>1, <3>1, GotoFields DEF CallPcs
  <2>2. CASE call.op = "link"
    <3>1. Return
      BY <2>2
    <3>2. QED BY <2>2, <3>1, ReturnInv
  <2>3. QED BY <2>1, <2>2
<1>6. faults' \in 0..MaxFaults /\ faults' >= faults
  BY <1>3, FaultFacts DEF TypeOK
<1>7. PICK u \in {d, t}, k \in {0, -1} :
        /\ core' \in [Inos -> Inode]
        /\ \A j \in Inos : /\ core'[j].mode = core[j].mode /\ core'[j].rename = core[j].rename
                           /\ j # u => core'[j].nlink = core[j].nlink
        /\ core'[u].nlink = core[u].nlink + k /\ core[u].nlink \in Int
        /\ call.op = "makeinode" => k = 0 /\ u = d
        /\ call.op = "mkdir" => k = -1 /\ u = d
        /\ call.op = "link" => k = -1 /\ u = t
  <2>1. core[d].nlink \in Int /\ core[t].nlink \in Int
    BY <1>0 DEF Inode
  <2>2. CASE call.op = "makeinode"
    <3>1. core' = core
      BY <2>2 DEF EnterUndo
    <3>2. core'[d].nlink = core[d].nlink + 0
      BY <2>1, <3>1
    <3>3. QED BY <1>0, <2>1, <2>2, <3>1, <3>2
  <2>3. CASE call.op = "mkdir"
    <3>1. core' = Nlink(core, d, -1)
      BY <1>1, <2>3 DEF EnterUndo
    <3>2. /\ core' \in [Inos -> Inode]
          /\ \A j \in Inos : /\ core'[j].mode = core[j].mode /\ core'[j].rename = core[j].rename
                             /\ j # d => core'[j].nlink = core[j].nlink
          /\ core'[d].nlink = core[d].nlink + (-1)
      BY <1>0, <3>1, NlinkFacts
    <3>3. QED BY <2>1, <2>3, <3>2
  <2>4. CASE call.op = "link"
    <3>1. core' = Nlink(core, t, -1)
      BY <1>1, <2>4 DEF EnterUndo
    <3>2. /\ core' \in [Inos -> Inode]
          /\ \A j \in Inos : /\ core'[j].mode = core[j].mode /\ core'[j].rename = core[j].rename
                             /\ j # t => core'[j].nlink = core[j].nlink
          /\ core'[t].nlink = core[t].nlink + (-1)
      BY <1>0, <3>1, NlinkFacts
    <3>3. QED BY <2>1, <2>4, <3>2
  <2>5. QED BY <2>2, <2>3, <2>4
<1>8. TypeOK'
  BY <1>0, <1>3, <1>4, <1>5, <1>6, <1>7 DEF TypeOK
<1>9. FreeInv'
  <2>1. \A j \in Inos : j \notin used => core'[j].nlink = core[j].nlink
    BY <1>2, <1>7
  <2>2. QED BY <1>0, <1>2, <1>3, <1>4, <1>7, <2>1 DEF FreeInv
<1>10. CallInv' /\ RenameInv'
  BY <1>0, <1>1, <1>2, <1>5, <1>7 DEF CallInv, RenameInv, TypeOK
<1>11. MakeInv'
  <2>1. CASE call.op = "makeinode"
    <3>1. core'[t].nlink = 1
      <4>1. CASE t = d
        BY <1>2, <2>1, <4>1
      <4>2. CASE t # d
        BY <1>2, <1>7, <2>1, <4>2
      <4>3. QED BY <4>1, <4>2
    <3>2. QED BY <1>1, <1>2, <1>5, <1>7, <2>1, <3>1 DEF MakeInv
  <2>2. CASE call.op = "mkdir"
    BY <1>0, <1>1, <1>2, <1>3, <1>4, <1>5, <1>7, <2>2 DEF MakeInv
  <2>3. CASE call.op = "link"
    BY <1>5, <2>3 DEF MakeInv
  <2>4. QED BY <2>1, <2>2, <2>3
<1>12. ASSUME ~stray' PROVE TreeInv'
  <2>1. TreeInv /\ ent' = ent
    BY <1>3, <1>12 DEF IInv
  <2>2. core[d].nlink > 0 /\ core[call.td].nlink > 0 /\ core[t].nlink \in Int
    BY <1>0, <1>1, <2>1 DEF TreeInv, LiveInv, Inode
  <2>3. \A j \in Inos :
          /\ Owed(j) = One(j = t)
          /\ Owed(j)' = (IF call.op = "link" THEN 0 ELSE One(j = t))
                        - (IF call.op = "mkdir" /\ j = d THEN 1 ELSE 0)
    <3>1. CASE call.op = "link"
      BY <1>1, <1>5, <3>1 DEF Owed, NameOwed, UpOwed, DownOwed, One
    <3>2. CASE call.op = "mkdir"
      BY <1>1, <1>2, <1>3, <1>5, <3>2 DEF Owed, NameOwed, UpOwed, DownOwed, One
    <3>3. CASE call.op = "makeinode"
      BY <1>1, <1>5, <3>3 DEF Owed, NameOwed, UpOwed, DownOwed, One
    <3>4. QED BY <3>1, <3>2, <3>3
  <2>4. core[u].nlink > 0 /\ core'[u].nlink > 0
    <3>1. CASE call.op = "link"
      <4>1. core[t].nlink > 1 /\ core'[t].nlink = core[t].nlink + (-1)
        BY <1>2, <1>7, <3>1
      <4>2. core[t].nlink > 0 /\ core'[t].nlink > 0
        BY <2>2, <4>1
      <4>3. QED BY <1>7, <3>1, <4>2
    <3>2. CASE call.op = "makeinode"
      BY <1>7, <2>2, <3>2
    <3>3. CASE call.op = "mkdir"
      <4>1. core[d].nlink >= One(ent[d][n] = d) + One(Child(t, d))
                                + Dot(d) + One(d = Root) + Owed(d)
        BY <2>1, <2>2, CountBounds DEF TreeInv
      <4>2. Dot(d) = 1 /\ Owed(d) = 0 /\ One(Child(t, d)) = 1
        BY <1>2, <2>2, <2>3, <3>3 DEF Dot, One, Child, Alive
      <4>3. One(ent[d][n] = d) \in {0, 1} /\ One(d = Root) \in {0, 1}
        BY DEF One
      <4>4. core[d].nlink \in Int
        BY <1>0 DEF Inode
      <4>5. core[d].nlink >= 2
        BY <4>1, <4>2, <4>3, <4>4
      <4>6. core'[d].nlink = core[d].nlink + (-1)
        BY <1>7, <3>3
      <4>7. core[d].nlink > 0 /\ core'[d].nlink > 0
        BY <4>4, <4>5, <4>6
      <4>8. QED BY <1>7, <3>3, <4>7
    <3>4. QED BY <3>1, <3>2, <3>3
  <2>5. core'[u].nlink - core[u].nlink = k
    BY <1>7
  <2>6. Owed(u)' - Owed(u) = k /\ \A j \in Inos : j # u => Owed(j)' = Owed(j)
    BY <1>2, <1>7, <2>3 DEF One
  <2>7. \A i, a, m : ~Away(i, a, m)
    BY DEF Away
  <2>8. Home' /\ Once' /\ RootInv' /\ LiveInv' /\ \A j \in Inos : Counted(j)'
    <3>1. core'[u].nlink - core[u].nlink >= Owed(u)' - Owed(u)
      BY <2>5, <2>6
    <3>2. QED BY <1>1, <1>3, <1>5, <1>6, <1>7, <1>8, <2>1, <2>2, <2>4, <2>5, <2>6, <2>7, <3>1, CountStep
  <2>9. DiskInv'
    BY <1>5, <1>7, <2>1, CountDisk
  <2>10. QED BY <2>8, <2>9 DEF TreeInv
<1>13. QED BY <1>8, <1>9, <1>10, <1>11, <1>12 DEF IInv

\* ext2_direnter() for a new name.
LEMMA EnterInv == TypeOK /\ IInv /\ Enter => TypeOK' /\ IInv'
<1> SUFFICES ASSUME TypeOK, IInv, Enter PROVE TypeOK' /\ IInv'
  OBVIOUS
<1>1. CASE /\ Direnter(call.d, call.n, call.ip, TRUE)
           /\ IF call.op = "makeinode" THEN Goto("made") ELSE Return
           /\ UNCHANGED core
  BY <1>1, Entered DEF Enter, Direnter
<1>2. CASE /\ Direnter(call.d, call.n, call.ip, FALSE)
           /\ core' = EnterUndo
           /\ IF call.op = "link" THEN Return ELSE Goto("bad")
  BY <1>2, EnterFails DEF Enter
<1>3. QED BY <1>1, <1>2 DEF Enter

\* A count that is set to zero.
Zeroed(c, i) == [c EXCEPT ![i].nlink = 0]
LEMMA ZeroedFacts ==
  ASSUME NEW c \in [Inos -> Inode], NEW i \in Inos
  PROVE  /\ Zeroed(c, i) \in [Inos -> Inode]
         /\ \A j \in Inos : /\ Zeroed(c, i)[j].mode = c[j].mode
                            /\ Zeroed(c, i)[j].rename = c[j].rename
                            /\ j # i => Zeroed(c, i)[j].nlink = c[j].nlink
         /\ Zeroed(c, i)[i].nlink = 0
<1> DEFINE r == [c[i] EXCEPT !.nlink = 0]
<1>1. Zeroed(c, i) = [c EXCEPT ![i] = r]
  BY DEF Zeroed
<1>2. c[i] \in Inode
  OBVIOUS
<1>3. r \in Inode /\ r.mode = c[i].mode /\ r.rename = c[i].rename /\ r.nlink = 0
  BY <1>2 DEF Inode
<1> HIDE DEF r
<1>4. QED BY <1>1, <1>3

\* ext2_makeinode() or ext2_mkdir() gives the new inode up.
LEMMA BadInv == TypeOK /\ IInv /\ Bad => TypeOK' /\ IInv'
<1> SUFFICES ASSUME TypeOK, IInv, Bad PROVE TypeOK' /\ IInv'
  OBVIOUS
<1>0. /\ call \in Calls /\ core \in [Inos -> Inode] /\ Types
      /\ CallInv /\ MakeInv /\ RenameInv /\ FreeInv
  BY DEF TypeOK, IInv, Types
<1>1. PICK t \in Inos, d \in Inos, n \in Names : t = call.ip /\ d = call.d /\ n = call.n
  BY <1>0 DEF Bad, CallInv, TypeOK, Calls
<1>2. /\ call.op \in {"makeinode", "mkdir"} /\ call.pc = "bad" /\ Return
      /\ UNCHANGED <<ftype, ent, dotdot, disk, used, faults, stray>>
      /\ core' = Zeroed(core, t)
  BY <1>1 DEF Bad, tree, Zeroed
<1>3. /\ core[t].nlink = IF call.op = "mkdir" THEN 2 ELSE 1
      /\ core[t].mode = IF call.op = "mkdir" THEN "dir" ELSE "file"
      /\ call.op = "mkdir" => t # Root /\ t # d /\ dotdot[t] \in {NoIno, d}
      /\ ent[t] = NoEntries /\ t \in used
  BY <1>0, <1>1, <1>2 DEF MakeInv, CallInv, FreeInv
<1>4. CallInv' /\ MakeInv' /\ RenameInv' /\ call' \in Calls /\ call'.op = "none"
  BY <1>2, ReturnInv
<1>5. /\ core' \in [Inos -> Inode]
      /\ \A j \in Inos : /\ core'[j].mode = core[j].mode /\ core'[j].rename = core[j].rename
                         /\ j # t => core'[j].nlink = core[j].nlink
      /\ core'[t].nlink = 0
  BY <1>0, <1>2, ZeroedFacts
<1>6. TypeOK'
  BY <1>0, <1>2, <1>4, <1>5 DEF TypeOK
<1>7. FreeInv'
  BY <1>0, <1>2, <1>3, <1>5 DEF FreeInv
<1>8. ASSUME ~stray' PROVE TreeInv'
  <2>1. TreeInv
    BY <1>2, <1>8 DEF IInv
  <2>2. t # Root
    BY <1>2, <1>3, <2>1 DEF TreeInv, RootInv
  <2>3. Home' /\ RootInv'
    <3>1. \A a \in Inos, m \in Names : IsDir(ent[a][m])' => IsDir(ent[a][m])
      BY <1>2, <1>5 DEF IsDir, TypeOK
    <3>2. \A i, a, m : ~Away(i, a, m)
      BY <1>2 DEF Away
    <3>3. QED BY <1>2, <1>5, <2>1, <2>2, <3>1, <3>2, VnopsAssumption DEF Home, RootInv, TreeInv
  <2>4. LiveInv' /\ DiskInv'
    BY <1>2, <1>4, <1>5, <2>1, CountDisk DEF LiveInv
  <2>5. \A j \in Inos :
          /\ Owed(j) = One(j = t) - (IF call.op = "mkdir" /\ dotdot[t] = d /\ j = d THEN 1 ELSE 0)
          /\ Owed(j)' = 0
    <3>1. \A j \in Inos : Owed(j)' = 0
      BY <1>2, ReturnInv
    <3>2. \A j \in Inos :
            Owed(j) = One(j = t) - (IF call.op = "mkdir" /\ dotdot[t] = d /\ j = d THEN 1 ELSE 0)
      BY <1>1, <1>2 DEF Owed, NameOwed, UpOwed, DownOwed, One
    <3>3. QED BY <3>1, <3>2
  <2>6. NamesOf(t) = {} /\ Children(t) = {}
    <3>1. Owed(t) = 1 /\ Dot(t) = IF call.op = "mkdir" THEN 1 ELSE 0
      BY <1>3, <2>5 DEF One, Dot
    <3>2. Counted(t) /\ core[t].nlink # 0 /\ core[t].nlink <= Dot(t) + Owed(t)
      BY <1>2, <1>3, <2>1, <3>1 DEF TreeInv
    <3>3. QED BY <3>2, Unnamed
  <2>7. Touches(d, n, t)
    BY <1>2, <1>5 DEF Touches, Alive
  <2>8. Counted(t)'
    <3>1. NamesOf(t)' = {}
      BY <1>2, <2>6 DEF NamesOf
    <3>2. Children(t)' = {}
      BY <1>2, <1>5, <2>6 DEF Children
    <3>3. QED BY <1>2, <1>3, <1>5, <3>1, <3>2 DEF Counted
  <2>9. ASSUME NEW j \in Inos, j # t
        PROVE
           \/ /\ core[j].nlink > 0 /\ core'[j].nlink > 0
              /\ core'[j].nlink - core[j].nlink = 0 /\ Change(d, n, t, j) = 0
           \/ /\ core[j].nlink = 0 /\ core'[j].nlink = 0
              /\ ent'[d][n] # j /\ ~Child(t, j)' /\ ent'[j] = NoEntries
    <3>1. ~Child(t, j)'
      BY <1>5 DEF Child, Alive
    <3>2. CASE core[j].nlink = 0
      <4>1. NamesOf(j) = {} /\ ent[j] = NoEntries
        BY <2>1, <3>2 DEF TreeInv, Counted
      <4>2. ent[d][n] # j
        BY <4>1, RefSets
      <4>3. QED BY <1>2, <1>5, <2>9, <3>1, <3>2, <4>1, <4>2
    <3>3. CASE core[j].nlink # 0
      <4>1. core[j].nlink > 0 /\ core'[j].nlink - core[j].nlink = 0 /\ core'[j].nlink > 0
        BY <1>0, <1>5, <2>1, <2>9, <3>3 DEF TreeInv, Counted, Inode
      <4>2. Dot(j)' = Dot(j) /\ Dot(j) \in Int
        BY <1>5 DEF Dot
      <4>3. One(ent'[d][n] = j) = One(ent[d][n] = j) /\ One(ent[d][n] = j) \in Int
        BY <1>2 DEF One
      <4>4. One(Child(t, j)') = 0
        BY <3>1 DEF One
      <4>5. One(Child(t, j)) = IF call.op = "mkdir" /\ dotdot[t] = d /\ j = d THEN 1 ELSE 0
        BY <1>2, <1>3, <2>2, VnopsAssumption DEF Child, Alive, One
      <4>6. Owed(j)' - Owed(j) = IF call.op = "mkdir" /\ dotdot[t] = d /\ j = d THEN 1 ELSE 0
        BY <2>5, <2>9 DEF One
      <4>7. Change(d, n, t, j) = 0
        BY <4>2, <4>3, <4>4, <4>5, <4>6 DEF Change
      <4>8. QED BY <4>1, <4>7
    <3>4. QED BY <3>2, <3>3
  <2>10. \A j \in Inos : Counted(j)'
    <3>1. faults' >= faults
      BY <1>2, VnopsAssumption DEF TypeOK
    <3>2. QED BY <1>6, <2>1, <2>7, <2>8, <2>9, <3>1, TreeStep DEF TreeInv
  <2>11. Once'
    <3>1. \A a \in Inos, m \in Names : IsDir(ent[a][m])' => IsDir(ent[a][m])
      BY <1>2, <1>5 DEF IsDir, TypeOK
    <3>2. \A i, a, m : ~Away(i, a, m)
      BY <1>2 DEF Away
    <3>3. QED BY <1>2, <2>1, <3>1, <3>2, OnceStep DEF TreeInv
  <2>12. QED BY <2>3, <2>4, <2>10, <2>11 DEF TreeInv
<1>9. QED BY <1>4, <1>6, <1>7, <1>8 DEF IInv

\* Nothing happens, but that a write may fail.
LEMMA NothingInv ==
  ASSUME TypeOK, IInv, UNCHANGED <<ftype, ent, dotdot, core, disk, used, call, stray>>,
         Fault \/ NoFault
  PROVE  TypeOK' /\ IInv'
<1>0. /\ call \in Calls /\ core \in [Inos -> Inode] /\ Types
      /\ CallInv /\ MakeInv /\ RenameInv /\ FreeInv
  BY DEF TypeOK, IInv, Types
<1>1. disk' = disk /\ faults' \in 0..MaxFaults /\ faults' >= faults
  BY FaultFacts DEF TypeOK
<1>2. \A j \in Inos : Owed(j)' = Owed(j)
  BY DEF Owed, NameOwed, UpOwed, DownOwed, Doingdirectory, Newparent, IsDir
<1>3. \A j, a, m : Away(j, a, m) => Away(j, a, m)'
  BY DEF Away
<1>4. TypeOK' /\ FreeInv' /\ (~stray => Home' /\ Once' /\ RootInv' /\ LiveInv' /\ \A j \in Inos : Counted(j)')
  BY <1>0, <1>1, <1>2, <1>3, PcStep DEF TypeOK, tree
<1>5. CallInv' /\ MakeInv'
  BY <1>0 DEF CallInv, MakeInv
<1>6. RenameInv'
  BY <1>0 DEF RenameInv, Doingdirectory, Newparent, IsDir
<1>7. ~stray => DiskInv'
  BY DEF IInv, TreeInv, DiskInv, Written
<1>8. QED BY <1>4, <1>5, <1>6, <1>7 DEF IInv, TreeInv

\* ext2_remove(): the entry goes and the count with it.
LEMMA RemoveInv ==
  ASSUME TypeOK, IInv, NEW d \in Inos, NEW n \in Names, Remove(d, n)
  PROVE  TypeOK' /\ IInv'
<1>0. /\ call \in Calls /\ core \in [Inos -> Inode] /\ Types
      /\ CallInv /\ MakeInv /\ RenameInv /\ FreeInv
  BY DEF TypeOK, IInv, Types
<1>1. /\ Idle /\ Live(d) /\ ent[d][n] # NoIno /\ ~IsDir(ent[d][n])
      /\ UNCHANGED <<ftype, dotdot, disk, used, call, stray>>
      /\ \/ ent' = Entry(d, n, NoIno) /\ core' = Nlink(core, ent[d][n], -1) /\ NoFault
         \/ Fault /\ UNCHANGED <<ent, core>>
  BY DEF Remove, Dirremove, Entry
<1>2. /\ ~stray /\ TreeInv /\ call.op = "none"
      /\ \A j \in Inos : Owed(j) = 0 /\ core[j].nlink \in Int /\ core[j].rename = FALSE
      /\ \A j, a, m : ~Away(j, a, m)
      /\ d \in used /\ core[d].mode = "dir" /\ core[d].nlink > 0
  BY <1>1, IdleFacts
<1>3. PICK t \in Inos : /\ t = ent[d][n] /\ core[t].mode # "dir" /\ t # d /\ t # Root
                        /\ core[t].nlink > 0 /\ t \in used /\ ent[t] = NoEntries
  BY <1>0, <1>1, <1>2, NamedLive DEF TreeInv, RootInv, IsDir, FreeInv
<1>4. CASE Fault /\ UNCHANGED <<ent, core>>
  BY <1>1, <1>4, NothingInv
<1>5. CASE ent' = Entry(d, n, NoIno) /\ core' = Nlink(core, ent[d][n], -1) /\ NoFault
  <2>1. /\ ent' \in [Inos -> [Names -> Inos \cup {NoIno}]] /\ ent'[d][n] = NoIno
        /\ \A b \in Inos, k \in Names : b # d \/ k # n => ent'[b][k] = ent[b][k]
        /\ \A b \in Inos : b # d => ent'[b] = ent[b]
    BY <1>0, <1>5, EntryTypes
  <2>2. /\ core' \in [Inos -> Inode]
        /\ \A j \in Inos : /\ core'[j].mode = core[j].mode /\ core'[j].rename = core[j].rename
                           /\ j # t => core'[j].nlink = core[j].nlink
        /\ core'[t].nlink = core[t].nlink + (-1)
    <3>1. core' = Nlink(core, t, -1)
      BY <1>3, <1>5
    <3>2. QED BY <1>0, <3>1, NlinkFacts
  <2>3. faults' \in 0..MaxFaults /\ faults' >= faults
    BY <1>5, FaultFacts DEF TypeOK
  <2>4. TypeOK'
    BY <1>0, <1>1, <2>1, <2>2, <2>3 DEF TypeOK
  <2>5. FreeInv'
    BY <1>0, <1>1, <1>2, <1>3, <2>1, <2>2 DEF FreeInv
  <2>6. CallInv' /\ MakeInv' /\ RenameInv'
    BY <1>0, <1>1, <1>2 DEF CallInv, MakeInv, RenameInv
  <2>7. Home'
    <3>1. ASSUME NEW a \in Inos, NEW m \in Names, IsDir(ent[a][m])'
          PROVE  dotdot'[ent'[a][m]] = a
      <4>1. a # d \/ m # n
        BY <2>1, <3>1 DEF IsDir
      <4>2. ent'[a][m] = ent[a][m] /\ IsDir(ent[a][m])
        BY <2>1, <2>2, <3>1, <4>1 DEF IsDir, TypeOK
      <4>3. QED BY <1>1, <1>2, <4>2 DEF TreeInv, Home
    <3>2. QED BY <3>1 DEF Home
  <2>8. RootInv'
    <3>1. \A a \in Inos, m \in Names : ent'[a][m] # Root
      BY <1>2, <2>1, VnopsAssumption DEF TreeInv, RootInv
    <3>2. QED BY <1>1, <1>2, <1>3, <2>2, <3>1, VnopsAssumption DEF TreeInv, RootInv
  <2>9. LiveInv' /\ DiskInv'
    <3>1. ASSUME NEW a \in Inos, NEW m \in Names, ent'[a][m] # NoIno
          PROVE  Written(ent[a][m])'
      <4>1. ent'[a][m] = ent[a][m] /\ ent[a][m] \in Inos
        BY <2>1, <3>1 DEF TypeOK
      <4>2. QED BY <1>1, <1>2, <2>2, <3>1, <4>1 DEF TreeInv, DiskInv, Written
    <3>2. QED BY <1>1, <1>2, <3>1 DEF LiveInv, DiskInv
  <2>10. Touches(d, n, d)
    BY <1>1, <1>3, <2>1, <2>2 DEF Touches, Alive
  <2>11. \A j \in Inos : Owed(j)' = 0
    BY <1>1, <1>2 DEF Owed, NameOwed, UpOwed, DownOwed, One, CallInv
  <2>12. \A j \in Inos : One(Child(d, j)') = One(Child(d, j)) /\ One(Child(d, j)) \in {0, 1}
    BY <1>1, <1>3, <2>2 DEF Child, Alive, One
  <2>13. \A j \in Inos : Change(d, n, d, j) = 0 - One(j = t)
    <3>1. ASSUME NEW j \in Inos PROVE Change(d, n, d, j) = 0 - One(j = t)
      <4>1. Dot(j)' = Dot(j) /\ Dot(j) \in Int
        BY <2>2 DEF Dot
      <4>2. One(ent'[d][n] = j) = 0 /\ One(ent[d][n] = j) = One(j = t) /\ One(j = t) \in Int
        BY <1>3, <2>1, VnopsAssumption DEF One
      <4>3. Owed(j)' - Owed(j) = 0
        BY <1>2, <2>11
      <4>4. One(Child(d, j)') = One(Child(d, j)) /\ One(Child(d, j)) \in Int
        BY <2>12
      <4>5. QED BY <4>1, <4>2, <4>3, <4>4 DEF Change
    <3>2. QED BY <3>1
  <2>14. ASSUME NEW j \in Inos, j # t
         PROVE
           \/ /\ core[j].nlink > 0 /\ core'[j].nlink > 0
              /\ core'[j].nlink - core[j].nlink = 0 /\ Change(d, n, d, j) = 0
           \/ /\ core[j].nlink = 0 /\ core'[j].nlink = 0
              /\ ent'[d][n] # j /\ ~Child(d, j)' /\ ent'[j] = NoEntries
    <3>1. CASE core[j].nlink = 0
      <4>1. j # d /\ ent[j] = NoEntries /\ Children(j) = {}
        BY <1>2, <3>1 DEF TreeInv, Counted
      <4>2. ~Child(d, j)
        BY <4>1, RefSets
      <4>3. ~Child(d, j)'
        BY <1>1, <1>3, <2>2, <4>2 DEF Child, Alive
      <4>4. QED BY <2>1, <2>2, <2>14, <3>1, <4>1, <4>3, VnopsAssumption
    <3>2. CASE core[j].nlink # 0
      <4>1. core[j].nlink > 0 /\ core'[j].nlink - core[j].nlink = 0 /\ core'[j].nlink > 0
        BY <1>2, <2>2, <2>14, <3>2 DEF TreeInv, Counted
      <4>2. Change(d, n, d, j) = 0
        BY <2>13, <2>14 DEF One
      <4>3. QED BY <4>1, <4>2
    <3>3. QED BY <3>1, <3>2
  <2>15. \/ core'[t].nlink > 0 /\ core'[t].nlink - core[t].nlink = Change(d, n, d, t)
         \/ Counted(t)'
    <3>1. CASE core[t].nlink > 1
      <4>1. Change(d, n, d, t) = -1
        BY <2>13 DEF One
      <4>2. QED BY <1>2, <2>2, <3>1, <4>1
    <3>2. CASE ~(core[t].nlink > 1)
      <4>1. core[t].nlink = 1 /\ core'[t].nlink = 0
        BY <1>2, <1>3, <2>2, <3>2
      <4>2. ASSUME NEW x \in Inos PROVE NamesOf(t) \subseteq {<<d, n>>} /\ ~Child(x, t)
        <5>1. LET low == One(ent[d][n] = t) + One(Child(x, t)) + Dot(t) + One(t = Root) + Owed(t)
              IN  /\ core[t].nlink >= low
                  /\ core[t].nlink <= low => NamesOf(t) \subseteq {<<d, n>>}
          BY <1>2, <4>1, CountBounds DEF TreeInv
        <5>2. /\ One(ent[d][n] = t) = 1 /\ Dot(t) = 0 /\ One(t = Root) = 0 /\ Owed(t) = 0
              /\ One(Child(x, t)) \in {0, 1} /\ (Child(x, t) => One(Child(x, t)) = 1)
          BY <1>2, <1>3 DEF One, Dot
        <5>3. One(Child(x, t)) = 0
          BY <4>1, <5>1, <5>2
        <5>4. QED BY <4>1, <5>1, <5>2, <5>3
      <4>3. NamesOf(t)' = {}
        <5>1. /\ NamesOf(t)' \ {<<d, n>>} = NamesOf(t) \ {<<d, n>>}
              /\ <<d, n>> \in NamesOf(t)' <=> ent'[d][n] = t
          BY <2>10, TouchedSets
        <5>2. QED BY <2>1, <4>2, <5>1, VnopsAssumption
      <4>4. Children(t)' = {}
        BY <1>1, <1>3, <2>2, <4>2 DEF Children, Child, Alive
      <4>5. QED BY <1>3, <2>1, <4>1, <4>3, <4>4 DEF Counted
    <3>3. QED BY <3>1, <3>2
  <2>16. \A j \in Inos : Counted(j)'
    <3>1. core'[t].nlink - core[t].nlink = Change(d, n, d, t) =>
            core'[t].nlink - core[t].nlink >= Change(d, n, d, t)
      BY <1>2, <2>2
    <3>2. QED BY <1>2, <1>3, <2>3, <2>4, <2>10, <2>14, <2>15, <3>1, TreeStep DEF TreeInv
  <2>17. Once'
    <3>1. ASSUME NEW a \in Inos, NEW m \in Names, IsDir(ent[a][m])'
          PROVE  ent'[a][m] = ent[a][m] /\ IsDir(ent[a][m])
      <4>1. a # d \/ m # n
        BY <2>1, <3>1 DEF IsDir
      <4>2. QED BY <2>1, <2>2, <3>1, <4>1 DEF IsDir, TypeOK
    <3>2. QED BY <1>2, <3>1, OnceStep DEF TreeInv
  <2>18. QED BY <2>4, <2>5, <2>6, <2>7, <2>8, <2>9, <2>16, <2>17 DEF IInv, TreeInv
<1>6. QED BY <1>1, <1>4, <1>5

\* ext2_rmdir(): the entry goes, the directory's two links, and the parent's for its "..".
LEMMA RmdirInv ==
  ASSUME TypeOK, IInv, NEW d \in Inos, NEW n \in Names, Rmdir(d, n)
  PROVE  TypeOK' /\ IInv'
<1>0. /\ call \in Calls /\ core \in [Inos -> Inode] /\ Types
      /\ CallInv /\ MakeInv /\ RenameInv /\ FreeInv
  BY DEF TypeOK, IInv, Types
<1>1. /\ Idle /\ Live(d) /\ IsDir(ent[d][n]) /\ ent[d][n] # d
      /\ core[ent[d][n]].nlink = 2 /\ ent[ent[d][n]] = NoEntries
      /\ dotdot' = IF ent' # ent THEN [dotdot EXCEPT ![ent[d][n]] = NoIno] ELSE dotdot
      /\ UNCHANGED <<ftype, disk, used, call, stray>>
      /\ \/ /\ ent' = Entry(d, n, NoIno) /\ NoFault
            /\ core' = Nlink(Nlink(core, d, -1), ent[d][n], -2)
         \/ Fault /\ UNCHANGED <<ent, core>>
  BY DEF Rmdir, Dirempty, Dirremove, Entry
<1>2. /\ ~stray /\ TreeInv /\ call.op = "none"
      /\ \A j \in Inos : Owed(j) = 0 /\ core[j].nlink \in Int /\ core[j].rename = FALSE
      /\ \A j, a, m : ~Away(j, a, m)
      /\ d \in used /\ core[d].mode = "dir" /\ core[d].nlink > 0
  BY <1>1, IdleFacts
<1>3. PICK t \in Inos : /\ t = ent[d][n] /\ core[t].mode = "dir" /\ t # d /\ t # Root
                        /\ core[t].nlink = 2 /\ t \in used /\ ent[t] = NoEntries
                        /\ dotdot[t] = d
  BY <1>0, <1>1, <1>2, NamedLive DEF TreeInv, RootInv, Home, IsDir
<1>4. CASE Fault /\ UNCHANGED <<ent, core>>
  BY <1>1, <1>4, NothingInv
<1>5. CASE /\ ent' = Entry(d, n, NoIno) /\ NoFault
           /\ core' = Nlink(Nlink(core, d, -1), ent[d][n], -2)
  <2>1. /\ ent' \in [Inos -> [Names -> Inos \cup {NoIno}]] /\ ent'[d][n] = NoIno
        /\ \A b \in Inos, k \in Names : b # d \/ k # n => ent'[b][k] = ent[b][k]
        /\ \A b \in Inos : b # d => ent'[b] = ent[b]
    BY <1>0, <1>5, EntryTypes
  <2>2. /\ core' \in [Inos -> Inode]
        /\ \A j \in Inos : /\ core'[j].mode = core[j].mode /\ core'[j].rename = core[j].rename
                           /\ j # t /\ j # d => core'[j].nlink = core[j].nlink
        /\ core'[t].nlink = 0 /\ core'[d].nlink = core[d].nlink + (-1)
    <3> DEFINE c == Nlink(core, d, -1)
    <3>1. /\ c \in [Inos -> Inode]
          /\ \A j \in Inos : /\ c[j].mode = core[j].mode /\ c[j].rename = core[j].rename
                             /\ j # d => c[j].nlink = core[j].nlink
          /\ c[d].nlink = core[d].nlink + (-1)
      BY <1>0, NlinkFacts
    <3>2. core' = Nlink(c, t, -2)
      BY <1>3, <1>5
    <3> HIDE DEF c
    <3>3. /\ core' \in [Inos -> Inode]
          /\ \A j \in Inos : /\ core'[j].mode = c[j].mode /\ core'[j].rename = c[j].rename
                             /\ j # t => core'[j].nlink = c[j].nlink
          /\ core'[t].nlink = c[t].nlink + (-2)
      BY <3>1, <3>2, NlinkFacts
    <3>4. core'[t].nlink = 0
      BY <1>3, <3>1, <3>3
    <3>5. QED BY <1>3, <3>1, <3>3, <3>4
  <2>3. /\ dotdot' \in [Inos -> Inos \cup {NoIno}] /\ dotdot'[t] = NoIno
        /\ \A j \in Inos : j # t => dotdot'[j] = dotdot[j]
    <3>1. ent' # ent
      BY <1>3, <2>1, VnopsAssumption
    <3>2. dotdot' = [dotdot EXCEPT ![t] = NoIno]
      BY <1>1, <1>3, <3>1
    <3>3. QED BY <1>0, <3>2 DEF Types
  <2>4. faults' \in 0..MaxFaults /\ faults' >= faults
    BY <1>5, FaultFacts DEF TypeOK
  <2>5. TypeOK'
    BY <1>0, <1>1, <2>1, <2>2, <2>3, <2>4 DEF TypeOK
  <2>6. FreeInv'
    BY <1>0, <1>1, <1>2, <1>3, <2>1, <2>2, <2>3, SMTT(30) DEF FreeInv
  <2>7. CallInv' /\ MakeInv' /\ RenameInv'
    BY <1>0, <1>1, <1>2 DEF CallInv, MakeInv, RenameInv
  <2>8. core'[d].nlink > 0
    <3>1. core[d].nlink >= One(ent[d][n] = d) + One(Child(t, d)) + Dot(d) + One(d = Root) + Owed(d)
      BY <1>2, CountBounds DEF TreeInv
    <3>2. One(Child(t, d)) = 1 /\ Dot(d) = 1 /\ Owed(d) = 0
      BY <1>2, <1>3 DEF Child, Alive, Dot, One
    <3>3. One(ent[d][n] = d) \in {0, 1} /\ One(d = Root) \in {0, 1}
      BY DEF One
    <3>4. core[d].nlink >= 2
      BY <1>2, <3>1, <3>2, <3>3
    <3>5. QED BY <1>2, <2>2, <3>4
  <2>9. ASSUME NEW x \in Inos PROVE NamesOf(t) \subseteq {<<d, n>>} /\ ~Child(x, t)
    <3>1. LET low == One(ent[d][n] = t) + One(Child(x, t)) + Dot(t) + One(t = Root) + Owed(t)
          IN  /\ core[t].nlink >= low
              /\ core[t].nlink <= low => NamesOf(t) \subseteq {<<d, n>>}
      BY <1>2, <1>3, CountBounds DEF TreeInv
    <3>2. /\ One(ent[d][n] = t) = 1 /\ Dot(t) = 1 /\ One(t = Root) = 0 /\ Owed(t) = 0
          /\ One(Child(x, t)) \in {0, 1} /\ (Child(x, t) => One(Child(x, t)) = 1)
      BY <1>2, <1>3 DEF One, Dot
    <3>3. One(Child(x, t)) = 0
      BY <1>3, <3>1, <3>2
    <3>4. QED BY <1>3, <3>1, <3>2, <3>3
  <2>10. ASSUME NEW a \in Inos, NEW m \in Names, ent[a][m] = t PROVE a = d /\ m = n
    <3>1. <<a, m>> \in NamesOf(t)
      BY <2>10, RefSets
    <3>2. QED BY <2>9, <3>1
  <2>11. Home'
    <3>1. ASSUME NEW a \in Inos, NEW m \in Names, IsDir(ent[a][m])'
          PROVE  dotdot'[ent'[a][m]] = a
      <4>1. a # d \/ m # n
        BY <2>1, <3>1 DEF IsDir
      <4>2. ent'[a][m] = ent[a][m] /\ IsDir(ent[a][m]) /\ ent[a][m] \in Inos /\ ent[a][m] # t
        BY <2>1, <2>2, <2>10, <3>1, <4>1 DEF IsDir, TypeOK
      <4>3. QED BY <1>2, <2>3, <4>2 DEF TreeInv, Home
    <3>2. QED BY <3>1 DEF Home
  <2>12. RootInv'
    <3>1. \A a \in Inos, m \in Names : ent'[a][m] # Root
      BY <1>2, <2>1, VnopsAssumption DEF TreeInv, RootInv
    <3>2. core'[Root].mode = "dir" /\ core'[Root].nlink > 0 /\ dotdot'[Root] = Root
      BY <1>2, <1>3, <2>2, <2>3, <2>8, VnopsAssumption DEF TreeInv, RootInv
    <3>3. \A i \in Inos : dotdot'[i] = i => i = Root
      BY <1>2, <2>3, VnopsAssumption DEF TreeInv, RootInv
    <3>4. QED BY <3>1, <3>2, <3>3 DEF RootInv
  <2>13. LiveInv' /\ DiskInv'
    <3>1. ASSUME NEW a \in Inos, NEW m \in Names, ent'[a][m] # NoIno
          PROVE  Written(ent[a][m])'
      <4>1. ent'[a][m] = ent[a][m] /\ ent[a][m] \in Inos
        BY <2>1, <3>1 DEF TypeOK
      <4>2. QED BY <1>1, <1>2, <2>2, <3>1, <4>1 DEF TreeInv, DiskInv, Written
    <3>2. QED BY <1>1, <1>2, <3>1 DEF LiveInv, DiskInv
  <2>14. Touches(d, n, t)
    BY <1>2, <2>1, <2>2, <2>3, <2>8 DEF Touches, Alive
  <2>15. \A j \in Inos : Owed(j)' = 0
    BY <1>1, <1>2 DEF Owed, NameOwed, UpOwed, DownOwed, One, CallInv
  <2>16. Counted(t)'
    <3>1. NamesOf(t)' = {}
      <4>1. /\ NamesOf(t)' \ {<<d, n>>} = NamesOf(t) \ {<<d, n>>}
            /\ <<d, n>> \in NamesOf(t)' <=> ent'[d][n] = t
        BY <2>14, TouchedSets
      <4>2. QED BY <2>1, <2>9, <4>1, VnopsAssumption
    <3>2. Children(t)' = {}
      <4>1. \A x \in Inos : ~Child(x, t)
        BY <2>9
      <4>2. \A x \in Inos : ~Child(x, t)'
        BY <2>2, <2>14, <4>1 DEF Touches, Child, Alive
      <4>3. QED BY <4>2 DEF Children, Child, Alive
    <3>3. QED BY <1>3, <2>1, <2>2, <3>1, <3>2 DEF Counted
  <2>17. \A j \in Inos : j # t => Change(d, n, t, j) = 0 - One(j = d)
    <3>1. ASSUME NEW j \in Inos, j # t PROVE Change(d, n, t, j) = 0 - One(j = d)
      <4>1. Dot(j)' = Dot(j) /\ Dot(j) \in Int
        BY <2>2 DEF Dot
      <4>2. One(ent'[d][n] = j) = 0 /\ One(ent[d][n] = j) = 0 /\ One(j = d) \in Int
        BY <1>3, <2>1, <3>1, VnopsAssumption DEF One
      <4>3. Owed(j)' - Owed(j) = 0
        BY <1>2, <2>15
      <4>4. One(Child(t, j)') = 0 /\ One(Child(t, j)) = One(j = d)
        BY <1>3, <2>2 DEF Child, Alive, One
      <4>5. QED BY <4>1, <4>2, <4>3, <4>4 DEF Change
    <3>2. QED BY <3>1
  <2>18. ASSUME NEW j \in Inos, j # t
         PROVE
           \/ /\ core[j].nlink > 0 /\ core'[j].nlink > 0
              /\ core'[j].nlink - core[j].nlink = Change(d, n, t, j)
              /\ core'[j].nlink - core[j].nlink >= Change(d, n, t, j)
           \/ /\ core[j].nlink = 0 /\ core'[j].nlink = 0
              /\ ent'[d][n] # j /\ ~Child(t, j)' /\ ent'[j] = NoEntries
    <3>1. CASE core[j].nlink = 0
      <4>1. j # d /\ ent[j] = NoEntries
        BY <1>2, <3>1 DEF TreeInv, Counted
      <4>2. ~Child(t, j)'
        BY <2>2 DEF Child, Alive
      <4>3. QED BY <2>1, <2>2, <2>18, <3>1, <4>1, <4>2, VnopsAssumption
    <3>2. CASE core[j].nlink # 0 /\ j # d
      <4>1. core[j].nlink > 0 /\ core'[j].nlink - core[j].nlink = 0 /\ core'[j].nlink > 0
        BY <1>2, <2>2, <2>18, <3>2 DEF TreeInv, Counted
      <4>2. Change(d, n, t, j) = 0
        BY <2>17, <2>18, <3>2 DEF One
      <4>3. QED BY <4>1, <4>2
    <3>3. CASE j = d
      <4>1. Change(d, n, t, j) = -1
        BY <2>17, <2>18, <3>3 DEF One
      <4>2. core'[j].nlink - core[j].nlink = -1
        BY <1>2, <2>2, <3>3
      <4>3. QED BY <1>2, <2>8, <3>3, <4>1, <4>2
    <3>4. QED BY <3>1, <3>2, <3>3
  <2>19. \A j \in Inos : Counted(j)'
    BY <1>2, <2>4, <2>5, <2>14, <2>16, <2>18, TreeStep DEF TreeInv
  <2>20. Once'
    <3>1. ASSUME NEW a \in Inos, NEW m \in Names, IsDir(ent[a][m])'
          PROVE  ent'[a][m] = ent[a][m] /\ IsDir(ent[a][m])
      <4>1. a # d \/ m # n
        BY <2>1, <3>1 DEF IsDir
      <4>2. QED BY <2>1, <2>2, <3>1, <4>1 DEF IsDir, TypeOK
    <3>2. QED BY <1>2, <3>1, OnceStep DEF TreeInv
  <2>21. QED BY <2>5, <2>6, <2>7, <2>11, <2>12, <2>13, <2>19, <2>20 DEF IInv, TreeInv
<1>6. QED BY <1>1, <1>4, <1>5

\* The source has its second name: what was owed to it is paid.
LEMMA RenameEntered ==
  ASSUME TypeOK, IInv, call.op = "rename", call.pc = "enter",
         ent' = [ent EXCEPT ![call.td][call.tn] = call.ip], NoFault, Goto("oldparent"),
         UNCHANGED <<ftype, dotdot, core, disk, used, stray>>
  PROVE  TypeOK' /\ IInv'
<1>0. /\ call \in Calls /\ core \in [Inos -> Inode] /\ Types
      /\ CallInv /\ MakeInv /\ RenameInv /\ FreeInv
  BY DEF TypeOK, IInv, Types
<1>1. PICK t \in Inos, d \in Inos, n \in Names, td \in Inos, tn \in Names :
        t = call.ip /\ d = call.d /\ n = call.n /\ td = call.td /\ tn = call.tn
  BY <1>0 DEF CallInv, TypeOK, Calls
<1>2. /\ ent[td][tn] = NoIno /\ ent[d][n] = t /\ (d # td \/ n # tn) /\ ~stray /\ TreeInv
      /\ core[td].mode = "dir" /\ td \in used
  BY <1>0, <1>1 DEF RenameInv, CallInv, IInv
<1>3. /\ ent' \in [Inos -> [Names -> Inos \cup {NoIno}]] /\ ent'[td][tn] = t
      /\ \A b \in Inos, k \in Names : b # td \/ k # tn => ent'[b][k] = ent[b][k]
      /\ \A b \in Inos : b # td => ent'[b] = ent[b]
  <2>1. ent' = Entry(td, tn, t)
    BY <1>1 DEF Entry
  <2>2. QED BY <1>0, <2>1, EntryTypes
<1>4. /\ call' \in Calls /\ call'.pc = "oldparent" /\ call'.op = call.op
      /\ call'.d = call.d /\ call'.n = call.n /\ call'.ip = call.ip
      /\ call'.td = call.td /\ call'.tn = call.tn /\ call'.xp = call.xp
  BY <1>0, GotoFields DEF CallPcs
<1>5. faults' \in 0..MaxFaults /\ faults' >= faults
  BY FaultFacts DEF TypeOK
<1>6. TypeOK'
  BY <1>0, <1>3, <1>4, <1>5 DEF TypeOK
<1>7. FreeInv'
  BY <1>0, <1>2, <1>3 DEF FreeInv
<1>8. CallInv' /\ MakeInv'
  BY <1>0, <1>4 DEF CallInv, MakeInv
<1>9. (Doingdirectory' <=> Doingdirectory) /\ (Newparent' <=> Newparent)
  BY <1>4 DEF Doingdirectory, Newparent, IsDir
<1>10. RenameInv'
  BY <1>0, <1>1, <1>2, <1>3, <1>4, <1>9 DEF RenameInv
<1>11. t # Root /\ core[t].nlink > 0 /\ Written(t) /\ core[td].nlink > 0
  BY <1>0, <1>1, <1>2, NamedLive, VnopsAssumption DEF TreeInv, RootInv, DiskInv, LiveInv
<1>12. Home'
  <2>1. \A i, a, m : ~Away(i, a, m)
    BY DEF Away
  <2>2. ASSUME NEW a \in Inos, NEW m \in Names, IsDir(ent[a][m])'
        PROVE  dotdot'[ent'[a][m]] = a \/ Away(ent[a][m], a, m)'
    <3>1. CASE a = td /\ m = tn
      BY <1>1, <1>3, <1>4, <3>1 DEF Away
    <3>2. CASE a # td \/ m # tn
      BY <1>2, <1>3, <2>1, <2>2, <3>2 DEF IsDir, TreeInv, Home
    <3>3. QED BY <3>1, <3>2
  <2>3. QED BY <2>2 DEF Home
<1>13. RootInv'
  <2>1. \A a \in Inos, m \in Names : ent'[a][m] # Root
    BY <1>2, <1>3, <1>11 DEF TreeInv, RootInv
  <2>2. QED BY <1>2, <2>1 DEF TreeInv, RootInv
<1>14. LiveInv'
  BY <1>2, <1>4 DEF LiveInv, TreeInv
<1>15. DiskInv'
  <2>1. ASSUME NEW a \in Inos, NEW m \in Names, ent'[a][m] # NoIno
        PROVE  Written(ent[a][m])'
    <3>1. CASE a = td /\ m = tn
      BY <1>3, <1>11, <3>1 DEF Written
    <3>2. CASE a # td \/ m # tn
      BY <1>2, <1>3, <2>1, <3>2 DEF TreeInv, DiskInv, Written
    <3>3. QED BY <3>1, <3>2
  <2>2. QED BY <1>4, <2>1 DEF DiskInv
<1>16. Touches(td, tn, td)
  BY <1>3 DEF Touches, Alive
<1>17. \A j \in Inos : /\ Owed(j) = One(j = t) + One(Doingdirectory /\ Newparent /\ j = td)
                       /\ Owed(j)' = One(Doingdirectory /\ Newparent /\ j = td)
  <2>1. \A j \in Inos : (NameOwed(j) <=> j = t) /\ ~NameOwed(j)' /\ ~DownOwed(j) /\ ~DownOwed(j)'
    BY <1>1, <1>4 DEF NameOwed, DownOwed
  <2>2. \A j \in Inos : /\ UpOwed(j) <=> Doingdirectory /\ Newparent /\ j = td
                        /\ UpOwed(j)' <=> Doingdirectory /\ Newparent /\ j = td
    BY <1>1, <1>4, <1>9 DEF UpOwed
  <2>3. QED BY <2>1, <2>2 DEF Owed, One
<1>18. ASSUME NEW j \in Inos
       PROVE
         \/ /\ core[j].nlink > 0 /\ core'[j].nlink > 0
            /\ core'[j].nlink - core[j].nlink = 0 /\ Change(td, tn, td, j) = 0
         \/ /\ core[j].nlink = 0 /\ core'[j].nlink = 0
            /\ ent'[td][tn] # j /\ ~Child(td, j)' /\ ent'[j] = NoEntries
  <2>1. CASE core[j].nlink = 0
    <3>1. j # td /\ j # t /\ ent[j] = NoEntries /\ Children(j) = {}
      BY <1>2, <1>11, <2>1 DEF TreeInv, Counted
    <3>2. ~Child(td, j)
      BY <3>1, RefSets
    <3>3. QED BY <1>3, <2>1, <3>1, <3>2 DEF Child, Alive
  <2>2. CASE core[j].nlink # 0
    <3>1. core[j].nlink > 0 /\ core'[j].nlink - core[j].nlink = 0
      BY <1>0, <1>2, <2>2 DEF TreeInv, Counted, Inode
    <3>2. Dot(j)' = Dot(j) /\ Dot(j) \in Int
      BY DEF Dot
    <3>3. One(ent'[td][tn] = j) = One(j = t) /\ One(ent[td][tn] = j) = 0
      BY <1>2, <1>3, VnopsAssumption DEF One
    <3>4. One(j = t) \in Int /\ One(Doingdirectory /\ Newparent /\ j = td) \in Int
      BY DEF One
    <3>5. Owed(j)' - Owed(j) = 0 - One(j = t)
      BY <1>17, <3>4
    <3>6. One(Child(td, j)') = One(Child(td, j)) /\ One(Child(td, j)) \in Int
      BY DEF Child, Alive, One
    <3>7. Change(td, tn, td, j) = 0
      BY <3>2, <3>3, <3>4, <3>5, <3>6 DEF Change
    <3>8. QED BY <3>1, <3>7
  <2>3. QED BY <2>1, <2>2
<1>19. \A j \in Inos : Counted(j)'
  BY <1>2, <1>5, <1>6, <1>16, <1>18, TreeStep DEF TreeInv
<1>20. Once'
  <2>1. \A i, a, m : ~Away(i, a, m)
    BY DEF Away
  <2>2. ASSUME NEW a \in Inos, NEW m \in Names, IsDir(ent[a][m])'
        PROVE  (ent'[a][m] = ent[a][m] /\ IsDir(ent[a][m])) \/ Away(ent[a][m], a, m)'
    <3>1. CASE a = td /\ m = tn
      BY <1>1, <1>3, <1>4, <3>1 DEF Away
    <3>2. CASE a # td \/ m # tn
      BY <1>3, <2>2, <3>2 DEF IsDir
    <3>3. QED BY <3>1, <3>2
  <2>3. QED BY <1>2, <2>1, <2>2, OnceStep DEF TreeInv
<1>21. QED BY <1>6, <1>7, <1>8, <1>10, <1>12, <1>13, <1>14, <1>15, <1>19, <1>20 DEF IInv, TreeInv

\* The source has no second name, or has one although ext2_direnter() failed: the new
\* parent's count goes back.
LEMMA RenameEnterFails ==
  ASSUME TypeOK, IInv, call.op = "rename", call.pc = "enter",
         Direnter(call.td, call.tn, call.ip, FALSE), Goto("bad"), UNCHANGED <<ftype, used>>,
         core' = IF Doingdirectory /\ Newparent THEN Nlink(core, call.td, -1) ELSE core,
         disk' \in {disk, [disk EXCEPT ![call.td] =
                             IF core' = core THEN @ ELSE I2ei(core'[call.td])]}
  PROVE  TypeOK' /\ IInv'
<1>0. /\ call \in Calls /\ core \in [Inos -> Inode] /\ Types
      /\ CallInv /\ MakeInv /\ RenameInv /\ FreeInv
  BY DEF TypeOK, IInv, Types
<1>1. PICK t \in Inos, d \in Inos, n \in Names, td \in Inos, tn \in Names :
        t = call.ip /\ d = call.d /\ n = call.n /\ td = call.td /\ tn = call.tn
  BY <1>0 DEF CallInv, TypeOK, Calls
<1>2. /\ ent[d][n] = t /\ (d # td \/ n # tn) /\ ~stray /\ TreeInv
      /\ core[td].mode = "dir" /\ td \in used
      /\ Doingdirectory /\ Newparent => t # td
  BY <1>0, <1>1 DEF RenameInv, CallInv, IInv
<1>3. /\ dotdot' = dotdot /\ Fault
      /\ \/ ent' = ent /\ stray' = stray
         \/ ent' = Entry(td, tn, t) /\ stray' = TRUE
  BY <1>1 DEF Direnter, Entry
<1>4. /\ ent' \in [Inos -> [Names -> Inos \cup {NoIno}]] /\ ent'[d][n] = t
      /\ \A b \in Inos : b # td => ent'[b] = ent[b]
  <2>1. CASE ent' = ent
    BY <1>0, <1>2, <2>1 DEF Types
  <2>2. CASE ent' = Entry(td, tn, t)
    BY <1>0, <1>2, <2>2, EntryTypes
  <2>3. QED BY <1>3, <2>1, <2>2
<1>5. /\ call' \in Calls /\ call'.pc = "bad" /\ call'.op = call.op
      /\ call'.d = call.d /\ call'.n = call.n /\ call'.ip = call.ip
      /\ call'.td = call.td /\ call'.tn = call.tn /\ call'.xp = call.xp
  BY <1>0, GotoFields DEF CallPcs
<1>6. faults' \in 0..MaxFaults /\ faults' >= faults
  BY <1>3, FaultFacts DEF TypeOK
<1>7. PICK k \in {0, -1} :
        /\ core' \in [Inos -> Inode]
        /\ \A j \in Inos : /\ core'[j].mode = core[j].mode /\ core'[j].rename = core[j].rename
                           /\ j # td => core'[j].nlink = core[j].nlink
        /\ core'[td].nlink = core[td].nlink + k /\ core[td].nlink \in Int
        /\ k = IF Doingdirectory /\ Newparent THEN -1 ELSE 0
  <2>1. core[td].nlink \in Int
    BY <1>0 DEF Inode
  <2>2. CASE Doingdirectory /\ Newparent
    <3>1. core' = Nlink(core, td, -1)
      BY <1>1, <2>2
    <3>2. /\ core' \in [Inos -> Inode]
          /\ \A j \in Inos : /\ core'[j].mode = core[j].mode /\ core'[j].rename = core[j].rename
                             /\ j # td => core'[j].nlink = core[j].nlink
          /\ core'[td].nlink = core[td].nlink + (-1)
      BY <1>0, <3>1, NlinkFacts
    <3>3. QED BY <2>1, <2>2, <3>2
  <2>3. CASE ~(Doingdirectory /\ Newparent)
    <3>1. core' = core /\ core[td].nlink + 0 = core[td].nlink
      BY <2>1, <2>3
    <3>2. QED BY <1>0, <2>1, <2>3, <3>1
  <2>4. QED BY <2>2, <2>3
<1>8. /\ disk' \in [Inos -> Dinode]
      /\ \A j \in Inos :
            \/ disk'[j] = disk[j]
            \/ j = td /\ disk'[j].mode = core'[j].mode /\ disk'[j].nlink = core'[j].nlink
  <2>1. CASE disk' = disk
    BY <1>0, <2>1 DEF Types
  <2>2. CASE disk' = [disk EXCEPT ![td] = disk[td]]
    BY <1>0, <2>2 DEF Types
  <2>3. CASE disk' = [disk EXCEPT ![td] = I2ei(core'[td])]
    <3>1. core'[td] \in Inode
      BY <1>7
    <3>2. /\ I2ei(core'[td]) \in Dinode /\ I2ei(core'[td]).mode = core'[td].mode
          /\ I2ei(core'[td]).nlink = core'[td].nlink
      BY <3>1, I2eiFacts
    <3>3. QED BY <1>0, <2>3, <3>2 DEF Types
  <2>4. QED BY <1>1, <2>1, <2>2, <2>3
<1>9. TypeOK'
  BY <1>0, <1>3, <1>4, <1>5, <1>6, <1>7, <1>8 DEF TypeOK
<1>10. FreeInv'
  BY <1>0, <1>2, <1>3, <1>4, <1>7 DEF FreeInv
<1>11. CallInv' /\ MakeInv'
  BY <1>0, <1>1, <1>5, <1>7 DEF CallInv, MakeInv, TypeOK
<1>12. (Doingdirectory' <=> Doingdirectory) /\ (Newparent' <=> Newparent)
  BY <1>1, <1>5, <1>7 DEF Doingdirectory, Newparent, IsDir
<1>13. RenameInv'
  BY <1>0, <1>1, <1>2, <1>4, <1>5, <1>12 DEF RenameInv
<1>14. ASSUME ~stray' PROVE TreeInv'
  <2>1. ent' = ent
    BY <1>3, <1>14
  <2>2. core[d].nlink > 0 /\ core[td].nlink > 0
    BY <1>1, <1>2 DEF TreeInv, LiveInv
  <2>3. \A j \in Inos : /\ Owed(j) = One(j = t) + (IF j = td THEN 0 - k ELSE 0)
                        /\ Owed(j)' = One(j = t)
    <3>1. \A j \in Inos : /\ NameOwed(j) <=> j = t
                          /\ NameOwed(j)' <=> j = t
                          /\ ~DownOwed(j) /\ ~DownOwed(j)' /\ ~UpOwed(j)'
                          /\ UpOwed(j) <=> Doingdirectory /\ Newparent /\ j = td
      BY <1>1, <1>5 DEF NameOwed, DownOwed, UpOwed
    <3>2. QED BY <1>7, <3>1 DEF Owed, One
  <2>4. core'[td].nlink > 0
    <3>1. CASE k = 0
      BY <1>7, <2>2, <3>1
    <3>2. CASE k = -1
      <4>1. core[td].nlink >= One(ent[d][n] = td) + One(Child(td, td))
                                + Dot(td) + One(td = Root) + Owed(td)
        BY <1>2, <2>2, CountBounds DEF TreeInv
      <4>2. Dot(td) = 1 /\ Owed(td) = 1
        BY <1>2, <1>7, <2>3, <3>2 DEF Dot, One
      <4>3. One(ent[d][n] = td) \in {0, 1} /\ One(td = Root) \in {0, 1} /\ One(Child(td, td)) \in {0, 1}
        BY DEF One
      <4>4. core[td].nlink >= 2
        BY <1>7, <4>1, <4>2, <4>3
      <4>5. QED BY <1>7, <3>2, <4>4
    <3>3. QED BY <3>1, <3>2
  <2>5. core'[td].nlink - core[td].nlink = k
    BY <1>7
  <2>6. Owed(td)' - Owed(td) = k /\ \A j \in Inos : j # td => Owed(j)' = Owed(j)
    <3>1. One(td = t) \in Int
      BY DEF One
    <3>2. Owed(td)' - Owed(td) = k
      BY <1>7, <2>3, <3>1
    <3>3. \A j \in Inos : j # td => Owed(j)' = Owed(j)
      BY <2>3 DEF One
    <3>4. QED BY <3>2, <3>3
  <2>7. \A i, a, m : ~Away(i, a, m)
    BY DEF Away
  <2>8. Home' /\ Once' /\ RootInv' /\ LiveInv' /\ \A j \in Inos : Counted(j)'
    <3>1. core'[td].nlink - core[td].nlink >= Owed(td)' - Owed(td)
      BY <2>5, <2>6
    <3>2. QED BY <1>1, <1>2, <1>3, <1>5, <1>6, <1>7, <1>9, <2>1, <2>2, <2>4, <2>5, <2>6, <2>7, <3>1, CountStep
  <2>9. \A j \in Inos : \/ disk'[j] = disk[j]
                        \/ disk'[j].mode = core'[j].mode /\ disk'[j].nlink > 0
    BY <1>8, <2>4
  <2>10. DiskInv'
    BY <1>2, <1>5, <1>7, <2>1, <2>9, CountDisk
  <2>11. QED BY <2>8, <2>10 DEF TreeInv
<1>15. QED BY <1>9, <1>10, <1>11, <1>13, <1>14 DEF IInv

\* ext2_direnter() for a rename.
LEMMA RenameEnterInv == TypeOK /\ IInv /\ RenameEnter => TypeOK' /\ IInv'
<1> SUFFICES ASSUME TypeOK, IInv, RenameEnter PROVE TypeOK' /\ IInv'
  OBVIOUS
<1> DEFINE c == IF Doingdirectory /\ Newparent THEN Nlink(core, call.td, -1) ELSE core
<1>1. CASE /\ Direnter(call.td, call.tn, call.ip, TRUE)
           /\ Goto("oldparent")
           /\ UNCHANGED <<core, disk>>
  BY <1>1, RenameEntered DEF RenameEnter, Direnter
<1>2. CASE /\ Direnter(call.td, call.tn, call.ip, FALSE)
           /\ core' = c
           /\ disk' \in {disk, [disk EXCEPT ![call.td] = IF c = core THEN @ ELSE I2ei(c[call.td])]}
           /\ Goto("bad")
  <2>1. disk' \in {disk, [disk EXCEPT ![call.td] =
                             IF core' = core THEN @ ELSE I2ei(core'[call.td])]}
    BY <1>2
  <2>2. core' = IF Doingdirectory /\ Newparent THEN Nlink(core, call.td, -1) ELSE core
    BY <1>2
  <2>3. QED BY <1>2, <2>1, <2>2, RenameEnterFails DEF RenameEnter
<1>3. QED BY <1>1, <1>2 DEF RenameEnter

\* The target's entry names the source, which is a directory: the target loses its two links,
\* and the new parent the ".." of the target and owes or keeps that of the source.
LEMMA RewrittenDir ==
  ASSUME TypeOK, IInv, call.op = "rename", call.pc = "target", call.xp # NoIno, Compatible,
         Doingdirectory, NoFault, ent' = [ent EXCEPT ![call.td][call.tn] = call.ip],
         core' = RewriteCounts, dotdot' = [dotdot EXCEPT ![call.xp] = NoIno],
         Goto(IF RewriteCounts[call.xp].nlink # 0 THEN "panic" ELSE "oldparent"),
         UNCHANGED <<ftype, disk, used, stray>>
  PROVE  TypeOK' /\ IInv'
<1>0. /\ call \in Calls /\ core \in [Inos -> Inode] /\ Types
      /\ CallInv /\ MakeInv /\ RenameInv /\ FreeInv
  BY DEF TypeOK, IInv, Types
<1>1. PICK t \in Inos, d \in Inos, n \in Names, td \in Inos, tn \in Names, x \in Inos :
        /\ t = call.ip /\ d = call.d /\ n = call.n /\ td = call.td /\ tn = call.tn /\ x = call.xp
  BY <1>0 DEF CallInv, TypeOK, Calls
<1>2. /\ ent[td][tn] = x /\ ent[d][n] = t /\ (d # td \/ n # tn) /\ ~stray /\ TreeInv
      /\ core[td].mode = "dir" /\ td \in used /\ d \in used /\ x # t /\ t # td
      /\ core[t].mode = "dir"
  BY <1>0, <1>1 DEF RenameInv, CallInv, IInv, Doingdirectory, IsDir, Newparent
<1>3. /\ core[x].mode = "dir" /\ ent[x] = NoEntries /\ core[x].nlink <= 2 /\ core[x].nlink \in Int
  BY <1>0, <1>1 DEF Compatible, Dirempty, IsDir, Inode
<1>4. /\ x \in used /\ core[x].nlink > 0 /\ core[t].nlink > 0 /\ Written(t)
      /\ core[td].nlink > 0 /\ core[d].nlink > 0
  BY <1>0, <1>1, <1>2, NamedLive, VnopsAssumption DEF TreeInv, DiskInv, LiveInv
<1>5. \A i, a, m : ~Away(i, a, m)
  BY DEF Away
<1>6. /\ dotdot[x] = td /\ x # Root /\ t # Root /\ x # td /\ x # d
  <2>1. dotdot[x] = td
    BY <1>1, <1>2, <1>3, <1>5, VnopsAssumption DEF TreeInv, Home, IsDir
  <2>2. x # Root /\ t # Root
    BY <1>2 DEF TreeInv, RootInv
  <2>3. x # td
    BY <1>2, <2>1, <2>2 DEF TreeInv, RootInv
  <2>4. x # d
    BY <1>2, <1>3, VnopsAssumption DEF NoEntries
  <2>5. QED BY <2>1, <2>2, <2>3, <2>4
<1>7. \A j \in Inos : Owed(j) = One(j = t)
  BY <1>1 DEF Owed, NameOwed, UpOwed, DownOwed, One
<1>8. ASSUME NEW y \in Inos
      PROVE  core[x].nlink = 2 /\ NamesOf(x) \subseteq {<<td, tn>>} /\ ~Child(y, x)
  <2>1. LET low == One(ent[td][tn] = x) + One(Child(y, x)) + Dot(x) + One(x = Root) + Owed(x)
        IN  /\ core[x].nlink >= low
            /\ core[x].nlink <= low => NamesOf(x) \subseteq {<<td, tn>>}
    BY <1>2, <1>4, CountBounds DEF TreeInv
  <2>2. /\ One(ent[td][tn] = x) = 1 /\ Dot(x) = 1 /\ One(x = Root) = 0 /\ Owed(x) = 0
        /\ One(Child(y, x)) \in {0, 1} /\ (Child(y, x) => One(Child(y, x)) = 1)
    BY <1>2, <1>3, <1>6, <1>7 DEF One, Dot
  <2>3. One(Child(y, x)) = 0 /\ core[x].nlink = 2
    BY <1>3, <2>1, <2>2
  <2>4. QED BY <2>1, <2>2, <2>3
<1>9. PICK k \in {0, -1} :
        /\ core' \in [Inos -> Inode]
        /\ \A j \in Inos : /\ core'[j].mode = core[j].mode /\ core'[j].rename = core[j].rename
                           /\ j # td /\ j # x => core'[j].nlink = core[j].nlink
        /\ core'[td].nlink = core[td].nlink + k /\ core[td].nlink \in Int
        /\ core'[x].nlink = 0 /\ k = IF Newparent THEN 0 ELSE -1
  <2> DEFINE c == IF ~Newparent THEN Nlink(core, td, -1) ELSE core
             k == IF Newparent THEN 0 ELSE -1
  <2>1. /\ c \in [Inos -> Inode]
        /\ \A j \in Inos : /\ c[j].mode = core[j].mode /\ c[j].rename = core[j].rename
                           /\ j # td => c[j].nlink = core[j].nlink
        /\ c[td].nlink = core[td].nlink + k /\ core[td].nlink \in Int
    <3>1. core[td].nlink \in Int
      BY <1>0 DEF Inode
    <3>2. CASE Newparent
      <4>1. c = core /\ core[td].nlink + 0 = core[td].nlink /\ k = 0
        BY <3>1, <3>2
      <4>2. QED BY <1>0, <3>1, <4>1
    <3>3. CASE ~Newparent
      BY <1>0, <3>1, <3>3, NlinkFacts
    <3>4. QED BY <3>2, <3>3
  <2>2. core' = Nlink(c, x, -2)
    BY <1>1 DEF RewriteCounts
  <2>3. k \in {0, -1} /\ k = IF Newparent THEN 0 ELSE -1
    OBVIOUS
  <2> HIDE DEF c, k
  <2>4. /\ core' \in [Inos -> Inode]
        /\ \A j \in Inos : /\ core'[j].mode = c[j].mode /\ core'[j].rename = c[j].rename
                           /\ j # x => core'[j].nlink = c[j].nlink
        /\ core'[x].nlink = c[x].nlink + (-2)
    BY <2>1, <2>2, NlinkFacts
  <2>5. c[x].nlink = 2
    BY <1>6, <1>8, <2>1
  <2>6. core'[x].nlink = 0
    BY <2>4, <2>5
  <2>7. QED BY <1>6, <2>1, <2>3, <2>4, <2>6
<1>10. /\ call' \in Calls /\ call'.pc = "oldparent" /\ call'.op = call.op
       /\ call'.d = call.d /\ call'.n = call.n /\ call'.ip = call.ip
       /\ call'.td = call.td /\ call'.tn = call.tn /\ call'.xp = call.xp
  <2>1. RewriteCounts[call.xp].nlink = 0
    BY <1>1, <1>9
  <2>2. Goto("oldparent")
    BY <2>1
  <2>3. QED BY <1>0, <2>2, GotoFields DEF CallPcs
<1>11. /\ ent' \in [Inos -> [Names -> Inos \cup {NoIno}]] /\ ent'[td][tn] = t
       /\ \A b \in Inos, m \in Names : b # td \/ m # tn => ent'[b][m] = ent[b][m]
       /\ \A b \in Inos : b # td => ent'[b] = ent[b]
  <2>1. ent' = Entry(td, tn, t)
    BY <1>1 DEF Entry
  <2>2. QED BY <1>0, <2>1, EntryTypes
<1>12. /\ dotdot' \in [Inos -> Inos \cup {NoIno}] /\ dotdot'[x] = NoIno
       /\ \A j \in Inos : j # x => dotdot'[j] = dotdot[j]
  BY <1>0, <1>1 DEF Types
<1>13. faults' \in 0..MaxFaults /\ faults' >= faults
  BY FaultFacts DEF TypeOK
<1>14. TypeOK'
  BY <1>0, <1>9, <1>10, <1>11, <1>12, <1>13 DEF TypeOK
<1>15. FreeInv'
  BY <1>0, <1>2, <1>4, <1>9, <1>11, <1>12 DEF FreeInv
<1>16. CallInv' /\ MakeInv'
  BY <1>0, <1>1, <1>9, <1>10 DEF CallInv, MakeInv, TypeOK
<1>17. (Doingdirectory' <=> Doingdirectory) /\ (Newparent' <=> Newparent)
  BY <1>1, <1>9, <1>10 DEF Doingdirectory, Newparent, IsDir
<1>18. RenameInv'
  BY <1>0, <1>1, <1>2, <1>10, <1>11, <1>17 DEF RenameInv
<1>19. core'[td].nlink > 0
  <2>1. core[td].nlink >= One(ent[td][tn] = td) + One(Child(x, td)) + Dot(td) + One(td = Root) + Owed(td)
    BY <1>2, <1>4, CountBounds DEF TreeInv
  <2>2. One(Child(x, td)) = 1 /\ Dot(td) = 1 /\ Owed(td) = 0
    BY <1>2, <1>3, <1>4, <1>6, <1>7 DEF Child, Alive, Dot, One
  <2>3. One(ent[td][tn] = td) \in {0, 1} /\ One(td = Root) \in {0, 1}
    BY DEF One
  <2>4. core[td].nlink >= 2
    BY <1>9, <2>1, <2>2, <2>3
  <2>5. QED BY <1>9, <2>4
<1>20. ASSUME NEW a \in Inos, NEW m \in Names, ent[a][m] = x PROVE a = td /\ m = tn
  <2>1. <<a, m>> \in NamesOf(x)
    BY <1>20, RefSets
  <2>2. QED BY <1>8, <2>1
<1>21. Home'
  <2>1. ASSUME NEW a \in Inos, NEW m \in Names, IsDir(ent[a][m])'
        PROVE  dotdot'[ent'[a][m]] = a \/ Away(ent[a][m], a, m)'
    <3>1. CASE a = td /\ m = tn
      BY <1>1, <1>10, <1>11, <3>1 DEF Away
    <3>2. CASE a # td \/ m # tn
      <4>1. ent'[a][m] = ent[a][m] /\ IsDir(ent[a][m]) /\ ent[a][m] \in Inos /\ ent[a][m] # x
        BY <1>9, <1>11, <1>20, <2>1, <3>2 DEF IsDir, TypeOK
      <4>2. QED BY <1>2, <1>5, <1>12, <4>1 DEF TreeInv, Home
    <3>3. QED BY <3>1, <3>2
  <2>2. QED BY <2>1 DEF Home
<1>22. RootInv'
  <2>1. \A a \in Inos, m \in Names : ent'[a][m] # Root
    BY <1>2, <1>6, <1>11 DEF TreeInv, RootInv
  <2>2. core'[Root].mode = "dir" /\ core'[Root].nlink > 0 /\ dotdot'[Root] = Root
    BY <1>2, <1>6, <1>9, <1>12, <1>19, VnopsAssumption DEF TreeInv, RootInv
  <2>3. \A i \in Inos : dotdot'[i] = i => i = Root
    BY <1>2, <1>12, VnopsAssumption DEF TreeInv, RootInv
  <2>4. QED BY <2>1, <2>2, <2>3 DEF RootInv
<1>23. LiveInv'
  BY <1>1, <1>4, <1>6, <1>9, <1>10, <1>19 DEF LiveInv
<1>24. DiskInv'
  <2>1. ASSUME NEW a \in Inos, NEW m \in Names, ent'[a][m] # NoIno
        PROVE  Written(ent[a][m])'
    <3>1. CASE a = td /\ m = tn
      BY <1>4, <1>9, <1>11, <3>1 DEF Written
    <3>2. CASE a # td \/ m # tn
      <4>1. ent'[a][m] = ent[a][m] /\ ent[a][m] \in Inos
        BY <1>11, <2>1, <3>2 DEF TypeOK
      <4>2. QED BY <1>2, <1>9, <2>1, <4>1 DEF TreeInv, DiskInv, Written
    <3>3. QED BY <3>1, <3>2
  <2>2. QED BY <1>10, <2>1 DEF DiskInv
<1>25. Touches(td, tn, x)
  BY <1>4, <1>9, <1>11, <1>12, <1>19 DEF Touches, Alive
<1>26. \A j \in Inos : Owed(j)' = IF Newparent /\ j = td THEN 1 ELSE 0
  <2>1. \A j \in Inos : ~NameOwed(j)' /\ ~DownOwed(j)' /\ (UpOwed(j)' <=> Newparent /\ j = td)
    BY <1>1, <1>10, <1>17 DEF NameOwed, DownOwed, UpOwed
  <2>2. QED BY <2>1 DEF Owed, One
<1>27. Counted(x)'
  <2>1. NamesOf(x)' = {}
    <3>1. /\ NamesOf(x)' \ {<<td, tn>>} = NamesOf(x) \ {<<td, tn>>}
          /\ <<td, tn>> \in NamesOf(x)' <=> ent'[td][tn] = x
      BY <1>25, TouchedSets
    <3>2. QED BY <1>2, <1>8, <1>11, <3>1
  <2>2. Children(x)' = {}
    <3>1. \A y \in Inos : ~Child(y, x)
      BY <1>8
    <3>2. \A y \in Inos : ~Child(y, x)'
      BY <1>9, <1>25, <3>1 DEF Touches, Child, Alive
    <3>3. QED BY <3>2 DEF Children, Child, Alive
  <2>3. QED BY <1>3, <1>6, <1>9, <1>11, <2>1, <2>2 DEF Counted
<1>28. \A j \in Inos : j # x => Change(td, tn, x, j) = IF j = td THEN k ELSE 0
  <2>1. ASSUME NEW j \in Inos, j # x PROVE Change(td, tn, x, j) = IF j = td THEN k ELSE 0
    <3>1. Dot(j)' = Dot(j) /\ Dot(j) \in Int
      BY <1>9 DEF Dot
    <3>2. One(ent'[td][tn] = j) = One(j = t) /\ One(ent[td][tn] = j) = 0 /\ One(j = t) \in Int
      BY <1>2, <1>11, <2>1 DEF One
    <3>3. Owed(j)' - Owed(j) = (IF j = td THEN 1 + k ELSE 0) - One(j = t)
      BY <1>7, <1>9, <1>26, <3>2
    <3>4. One(Child(x, j)') = 0 /\ One(Child(x, j)) = IF j = td THEN 1 ELSE 0
      BY <1>3, <1>4, <1>6, <1>9 DEF Child, Alive, One
    <3>5. QED BY <1>9, <3>1, <3>2, <3>3, <3>4 DEF Change
  <2>2. QED BY <2>1
<1>29. ASSUME NEW j \in Inos, j # x
       PROVE
         \/ /\ core[j].nlink > 0 /\ core'[j].nlink > 0
            /\ core'[j].nlink - core[j].nlink = Change(td, tn, x, j)
            /\ core'[j].nlink - core[j].nlink >= Change(td, tn, x, j)
         \/ /\ core[j].nlink = 0 /\ core'[j].nlink = 0
            /\ ent'[td][tn] # j /\ ~Child(x, j)' /\ ent'[j] = NoEntries
  <2>1. CASE core[j].nlink = 0
    <3>1. j # td /\ j # t /\ ent[j] = NoEntries
      BY <1>2, <1>4, <2>1 DEF TreeInv, Counted
    <3>2. ~Child(x, j)'
      BY <1>9 DEF Child, Alive
    <3>3. QED BY <1>9, <1>11, <1>29, <2>1, <3>1, <3>2
  <2>2. CASE core[j].nlink # 0 /\ j # td
    <3>1. core[j].nlink > 0 /\ core'[j].nlink - core[j].nlink = 0 /\ core'[j].nlink > 0
      BY <1>0, <1>2, <1>9, <1>29, <2>2 DEF TreeInv, Counted, Inode
    <3>2. Change(td, tn, x, j) = 0
      BY <1>28, <1>29, <2>2
    <3>3. QED BY <3>1, <3>2
  <2>3. CASE j = td
    <3>1. Change(td, tn, x, j) = k
      BY <1>28, <1>29, <2>3
    <3>2. core'[j].nlink - core[j].nlink = k
      BY <1>9, <2>3
    <3>3. QED BY <1>4, <1>9, <1>19, <2>3, <3>1, <3>2
  <2>4. QED BY <2>1, <2>2, <2>3
<1>30. \A j \in Inos : Counted(j)'
  BY <1>2, <1>13, <1>14, <1>25, <1>27, <1>29, TreeStep DEF TreeInv
<1>31. Once'
  <2>1. ASSUME NEW a \in Inos, NEW m \in Names, IsDir(ent[a][m])'
        PROVE  (ent'[a][m] = ent[a][m] /\ IsDir(ent[a][m])) \/ Away(ent[a][m], a, m)'
    <3>1. CASE a = td /\ m = tn
      BY <1>1, <1>10, <1>11, <3>1 DEF Away
    <3>2. CASE a # td \/ m # tn
      BY <1>9, <1>11, <2>1, <3>2 DEF IsDir, TypeOK
    <3>3. QED BY <3>1, <3>2
  <2>2. QED BY <1>2, <1>5, <2>1, OnceStep DEF TreeInv
<1>32. QED BY <1>14, <1>15, <1>16, <1>18, <1>21, <1>22, <1>23, <1>24, <1>30, <1>31 DEF IInv, TreeInv

\* The target's entry names the source, and neither is a directory.
LEMMA RewrittenFile ==
  ASSUME TypeOK, IInv, call.op = "rename", call.pc = "target", call.xp # NoIno, Compatible,
         ~Doingdirectory, NoFault, ent' = [ent EXCEPT ![call.td][call.tn] = call.ip],
         core' = RewriteCounts, Goto("oldparent"),
         UNCHANGED <<ftype, dotdot, disk, used, stray>>
  PROVE  TypeOK' /\ IInv'
<1>0. /\ call \in Calls /\ core \in [Inos -> Inode] /\ Types
      /\ CallInv /\ MakeInv /\ RenameInv /\ FreeInv
  BY DEF TypeOK, IInv, Types
<1>1. PICK t \in Inos, d \in Inos, n \in Names, td \in Inos, tn \in Names, x \in Inos :
        /\ t = call.ip /\ d = call.d /\ n = call.n /\ td = call.td /\ tn = call.tn /\ x = call.xp
  BY <1>0 DEF CallInv, TypeOK, Calls
<1>2. /\ ent[td][tn] = x /\ ent[d][n] = t /\ (d # td \/ n # tn) /\ ~stray /\ TreeInv
      /\ core[td].mode = "dir" /\ core[d].mode = "dir" /\ td \in used /\ d \in used /\ x # t
      /\ core[t].mode # "dir"
  BY <1>0, <1>1, VnopsAssumption DEF RenameInv, CallInv, IInv, Doingdirectory, IsDir
<1>3. core[x].mode # "dir" /\ ent[x] = NoEntries /\ core[x].nlink \in Int /\ x # td /\ x # d
  BY <1>0, <1>1, <1>2 DEF Compatible, IsDir, Inode, FreeInv
<1>4. /\ x \in used /\ core[x].nlink > 0 /\ core[t].nlink > 0 /\ Written(t)
      /\ core[td].nlink > 0 /\ core[d].nlink > 0
  BY <1>0, <1>1, <1>2, NamedLive, VnopsAssumption DEF TreeInv, DiskInv, LiveInv
<1>5. \A i, a, m : ~Away(i, a, m)
  BY DEF Away
<1>6. x # Root /\ t # Root
  BY <1>2 DEF TreeInv, RootInv
<1>7. \A j \in Inos : Owed(j) = One(j = t)
  BY <1>1 DEF Owed, NameOwed, UpOwed, DownOwed, One
<1>8. /\ core' \in [Inos -> Inode]
      /\ \A j \in Inos : /\ core'[j].mode = core[j].mode /\ core'[j].rename = core[j].rename
                         /\ j # x => core'[j].nlink = core[j].nlink
      /\ core'[x].nlink = core[x].nlink + (-1)
  <2>1. core' = Nlink(core, x, -1)
    BY <1>1 DEF RewriteCounts
  <2>2. QED BY <1>0, <2>1, NlinkFacts
<1>9. /\ call' \in Calls /\ call'.pc = "oldparent" /\ call'.op = call.op
      /\ call'.d = call.d /\ call'.n = call.n /\ call'.ip = call.ip
      /\ call'.td = call.td /\ call'.tn = call.tn /\ call'.xp = call.xp
  BY <1>0, GotoFields DEF CallPcs
<1>10. /\ ent' \in [Inos -> [Names -> Inos \cup {NoIno}]] /\ ent'[td][tn] = t
       /\ \A b \in Inos, m \in Names : b # td \/ m # tn => ent'[b][m] = ent[b][m]
       /\ \A b \in Inos : b # td => ent'[b] = ent[b]
  <2>1. ent' = Entry(td, tn, t)
    BY <1>1 DEF Entry
  <2>2. QED BY <1>0, <2>1, EntryTypes
<1>11. faults' \in 0..MaxFaults /\ faults' >= faults
  BY FaultFacts DEF TypeOK
<1>12. TypeOK'
  BY <1>0, <1>8, <1>9, <1>10, <1>11 DEF TypeOK
<1>13. FreeInv'
  BY <1>0, <1>2, <1>4, <1>8, <1>10 DEF FreeInv
<1>14. CallInv' /\ MakeInv'
  BY <1>0, <1>1, <1>8, <1>9 DEF CallInv, MakeInv, TypeOK
<1>15. ~Doingdirectory' /\ (Newparent' <=> Newparent)
  BY <1>1, <1>2, <1>8, <1>9 DEF Doingdirectory, Newparent, IsDir
<1>16. RenameInv'
  BY <1>0, <1>1, <1>2, <1>9, <1>10, <1>15 DEF RenameInv
<1>17. Home'
  <2>1. ASSUME NEW a \in Inos, NEW m \in Names, IsDir(ent[a][m])'
        PROVE  dotdot'[ent'[a][m]] = a
    <3>1. a # td \/ m # tn
      BY <1>2, <1>8, <1>10, <2>1 DEF IsDir
    <3>2. ent'[a][m] = ent[a][m] /\ IsDir(ent[a][m])
      BY <1>8, <1>10, <2>1, <3>1 DEF IsDir, TypeOK
    <3>3. QED BY <1>2, <1>5, <3>2 DEF TreeInv, Home
  <2>2. QED BY <2>1 DEF Home
<1>18. RootInv'
  <2>1. \A a \in Inos, m \in Names : ent'[a][m] # Root
    BY <1>2, <1>6, <1>10 DEF TreeInv, RootInv
  <2>2. core'[Root].mode = "dir" /\ core'[Root].nlink > 0
    BY <1>2, <1>6, <1>8, VnopsAssumption DEF TreeInv, RootInv
  <2>3. QED BY <1>2, <2>1, <2>2 DEF TreeInv, RootInv
<1>19. LiveInv'
  BY <1>1, <1>3, <1>4, <1>8, <1>9 DEF LiveInv
<1>20. DiskInv'
  <2>1. ASSUME NEW a \in Inos, NEW m \in Names, ent'[a][m] # NoIno
        PROVE  Written(ent[a][m])'
    <3>1. CASE a = td /\ m = tn
      BY <1>4, <1>8, <1>10, <3>1 DEF Written
    <3>2. CASE a # td \/ m # tn
      <4>1. ent'[a][m] = ent[a][m] /\ ent[a][m] \in Inos
        BY <1>10, <2>1, <3>2 DEF TypeOK
      <4>2. QED BY <1>2, <1>8, <2>1, <4>1 DEF TreeInv, DiskInv, Written
    <3>3. QED BY <3>1, <3>2
  <2>2. QED BY <1>9, <2>1 DEF DiskInv
<1>21. Touches(td, tn, td)
  BY <1>3, <1>8, <1>10 DEF Touches, Alive
<1>22. \A j \in Inos : Owed(j)' = 0
  BY <1>9, <1>15 DEF Owed, NameOwed, DownOwed, UpOwed, One
<1>23. \A j \in Inos : Child(td, j)' <=> Child(td, j)
  BY <1>3, <1>8 DEF Child, Alive
<1>24. \A j \in Inos : Change(td, tn, td, j) = 0 - One(j = x)
  <2>1. ASSUME NEW j \in Inos PROVE Change(td, tn, td, j) = 0 - One(j = x)
    <3>1. Dot(j)' = Dot(j) /\ Dot(j) \in Int
      BY <1>8 DEF Dot
    <3>2. /\ One(ent'[td][tn] = j) = One(j = t) /\ One(ent[td][tn] = j) = One(j = x)
          /\ One(j = t) \in Int /\ One(j = x) \in Int
      BY <1>2, <1>10 DEF One
    <3>3. Owed(j)' - Owed(j) = 0 - One(j = t)
      BY <1>7, <1>22, <3>2
    <3>4. One(Child(td, j)') = One(Child(td, j)) /\ One(Child(td, j)) \in Int
      BY <1>23 DEF One
    <3>5. QED BY <3>1, <3>2, <3>3, <3>4 DEF Change
  <2>2. QED BY <2>1
<1>25. ASSUME NEW j \in Inos, j # x
       PROVE
         \/ /\ core[j].nlink > 0 /\ core'[j].nlink > 0
            /\ core'[j].nlink - core[j].nlink = 0 /\ Change(td, tn, td, j) = 0
         \/ /\ core[j].nlink = 0 /\ core'[j].nlink = 0
            /\ ent'[td][tn] # j /\ ~Child(td, j)' /\ ent'[j] = NoEntries
  <2>1. CASE core[j].nlink = 0
    <3>1. j # td /\ j # t /\ ent[j] = NoEntries /\ Children(j) = {}
      BY <1>2, <1>4, <2>1 DEF TreeInv, Counted
    <3>2. ~Child(td, j)'
      BY <1>23, <3>1, RefSets
    <3>3. QED BY <1>8, <1>10, <1>25, <2>1, <3>1, <3>2
  <2>2. CASE core[j].nlink # 0
    <3>1. core[j].nlink > 0 /\ core'[j].nlink - core[j].nlink = 0 /\ core'[j].nlink > 0
      BY <1>0, <1>2, <1>8, <1>25, <2>2 DEF TreeInv, Counted, Inode
    <3>2. Change(td, tn, td, j) = 0
      BY <1>24, <1>25 DEF One
    <3>3. QED BY <3>1, <3>2
  <2>3. QED BY <2>1, <2>2
<1>26. \/ core'[x].nlink > 0 /\ core'[x].nlink - core[x].nlink = Change(td, tn, td, x)
       \/ Counted(x)'
  <2>1. CASE core[x].nlink > 1
    <3>1. Change(td, tn, td, x) = -1
      BY <1>24 DEF One
    <3>2. QED BY <1>3, <1>8, <2>1, <3>1
  <2>2. CASE ~(core[x].nlink > 1)
    <3>1. core[x].nlink = 1 /\ core'[x].nlink = 0
      BY <1>3, <1>4, <1>8, <2>2
    <3>2. ASSUME NEW y \in Inos PROVE NamesOf(x) \subseteq {<<td, tn>>} /\ ~Child(y, x)
      <4>1. LET low == One(ent[td][tn] = x) + One(Child(y, x)) + Dot(x) + One(x = Root) + Owed(x)
            IN  /\ core[x].nlink >= low
                /\ core[x].nlink <= low => NamesOf(x) \subseteq {<<td, tn>>}
        BY <1>2, <3>1, CountBounds DEF TreeInv
      <4>2. /\ One(ent[td][tn] = x) = 1 /\ Dot(x) = 0 /\ One(x = Root) = 0 /\ Owed(x) = 0
            /\ One(Child(y, x)) \in {0, 1} /\ (Child(y, x) => One(Child(y, x)) = 1)
        BY <1>2, <1>3, <1>6, <1>7 DEF One, Dot
      <4>3. One(Child(y, x)) = 0
        BY <3>1, <4>1, <4>2
      <4>4. QED BY <3>1, <4>1, <4>2, <4>3
    <3>3. NamesOf(x)' = {}
      <4>1. /\ NamesOf(x)' \ {<<td, tn>>} = NamesOf(x) \ {<<td, tn>>}
            /\ <<td, tn>> \in NamesOf(x)' <=> ent'[td][tn] = x
        BY <1>21, TouchedSets
      <4>2. QED BY <1>2, <1>10, <3>2, <4>1
    <3>4. Children(x)' = {}
      BY <1>3, <1>8, <3>2 DEF Children, Child, Alive
    <3>5. QED BY <1>3, <1>10, <3>1, <3>3, <3>4 DEF Counted
  <2>3. QED BY <2>1, <2>2
<1>27. \A j \in Inos : Counted(j)'
  <2>1. core'[x].nlink - core[x].nlink = Change(td, tn, td, x) =>
          core'[x].nlink - core[x].nlink >= Change(td, tn, td, x)
    BY <1>3, <1>8
  <2>2. QED BY <1>2, <1>4, <1>11, <1>12, <1>21, <1>25, <1>26, <2>1, TreeStep DEF TreeInv
<1>28. Once'
  <2>1. ASSUME NEW a \in Inos, NEW m \in Names, IsDir(ent[a][m])'
        PROVE  ent'[a][m] = ent[a][m] /\ IsDir(ent[a][m])
    <3>1. a # td \/ m # tn
      BY <1>2, <1>8, <1>10, <2>1 DEF IsDir
    <3>2. QED BY <1>8, <1>10, <2>1, <3>1 DEF IsDir, TypeOK
  <2>2. QED BY <1>2, <1>5, <2>1, OnceStep DEF TreeInv
<1>29. QED BY <1>12, <1>13, <1>14, <1>16, <1>17, <1>18, <1>19, <1>20, <1>27, <1>28 DEF IInv, TreeInv

\* ext2_dirrewrite(), or it fails.
LEMMA RenameRewriteInv == TypeOK /\ IInv /\ RenameRewrite => TypeOK' /\ IInv'
<1> SUFFICES ASSUME TypeOK, IInv, RenameRewrite PROVE TypeOK' /\ IInv'
  OBVIOUS
<1>1. /\ call.op = "rename" /\ call.pc = "target" /\ call.xp # NoIno /\ Compatible
      /\ UNCHANGED <<ftype, disk, used, stray>>
  BY DEF RenameRewrite
<1>2. CASE Fault /\ Goto("bad") /\ UNCHANGED <<core, tree>>
  <2>1. faults' \in 0..MaxFaults /\ faults' >= faults
    BY <1>2, FaultFacts DEF TypeOK
  <2>2. QED BY <1>1, <1>2, <2>1, RenamePcInv
<1>3. CASE /\ NoFault
           /\ ent' = [ent EXCEPT ![call.td][call.tn] = call.ip]
           /\ core' = RewriteCounts
           /\ dotdot' = IF Doingdirectory THEN [dotdot EXCEPT ![call.xp] = NoIno] ELSE dotdot
           /\ Goto(IF Doingdirectory /\ RewriteCounts[call.xp].nlink # 0 THEN "panic"
                   ELSE "oldparent")
  <2>1. CASE Doingdirectory
    <3>1. /\ dotdot' = [dotdot EXCEPT ![call.xp] = NoIno]
          /\ Goto(IF RewriteCounts[call.xp].nlink # 0 THEN "panic" ELSE "oldparent")
      BY <1>3, <2>1
    <3>2. QED BY <1>1, <1>3, <2>1, <3>1, RewrittenDir
  <2>2. CASE ~Doingdirectory
    <3>1. dotdot' = dotdot /\ Goto("oldparent")
      BY <1>3, <2>2
    <3>2. QED BY <1>1, <1>3, <2>2, <3>1, RewrittenFile
  <2>3. QED BY <2>1, <2>2
<1>4. QED BY <1>2, <1>3 DEF RenameRewrite

\* The ".." of the source names the new parent: both parents' accounts are settled.
LEMMA DotdotWritten ==
  ASSUME TypeOK, IInv, call.op = "rename", call.pc = "dotdot", Goto("unlink"), NoFault,
         dotdot' = [dotdot EXCEPT ![call.ip] = call.td],
         UNCHANGED <<ftype, ent, core, disk, used, stray>>
  PROVE  TypeOK' /\ IInv'
<1>0. /\ call \in Calls /\ core \in [Inos -> Inode] /\ Types
      /\ CallInv /\ MakeInv /\ RenameInv /\ FreeInv
  BY DEF TypeOK, IInv, Types
<1>1. PICK t \in Inos, d \in Inos, n \in Names, td \in Inos, tn \in Names :
        t = call.ip /\ d = call.d /\ n = call.n /\ td = call.td /\ tn = call.tn
  BY <1>0 DEF CallInv, TypeOK, Calls
<1>2. /\ ent[td][tn] = t /\ ent[d][n] = t /\ d # td /\ ~stray /\ TreeInv /\ t \in used
      /\ t # td /\ t # d /\ core[t].mode = "dir" /\ Doingdirectory /\ Newparent
  BY <1>0, <1>1 DEF RenameInv, CallInv, IInv, Doingdirectory, Newparent, IsDir
<1>3. /\ call' \in Calls /\ call'.pc = "unlink" /\ call'.op = call.op
      /\ call'.d = call.d /\ call'.n = call.n /\ call'.ip = call.ip
      /\ call'.td = call.td /\ call'.tn = call.tn /\ call'.xp = call.xp
  BY <1>0, GotoFields DEF CallPcs
<1>4. /\ dotdot' \in [Inos -> Inos \cup {NoIno}] /\ dotdot'[t] = td
      /\ \A j \in Inos : j # t => dotdot'[j] = dotdot[j]
  BY <1>0, <1>1 DEF Types
<1>5. /\ t # Root /\ core[t].nlink > 0 /\ core[td].nlink > 0 /\ core[d].nlink > 0
  BY <1>0, <1>1, <1>2, NamedLive, VnopsAssumption DEF TreeInv, RootInv, LiveInv
<1>6. \A i, a, m : Away(i, a, m) <=> i = t /\ a = td /\ m = tn
  BY <1>1 DEF Away
<1>7. \A i, a, m : Away(i, a, m)' <=> i = t /\ a = d /\ m = n
  BY <1>1, <1>3 DEF Away
<1>8. dotdot[t] = d
  BY <1>2, <1>6, VnopsAssumption DEF TreeInv, Home, IsDir
<1>9. ASSUME NEW a \in Inos, NEW m \in Names, ent[a][m] = t
      PROVE  (a = d /\ m = n) \/ (a = td /\ m = tn)
  BY <1>2, <1>6, <1>9, VnopsAssumption DEF TreeInv, Once, IsDir
<1>10. faults' \in 0..MaxFaults /\ faults' >= faults
  BY FaultFacts DEF TypeOK
<1>11. TypeOK'
  BY <1>0, <1>3, <1>4, <1>10 DEF TypeOK
<1>12. FreeInv'
  BY <1>0, <1>2, <1>4 DEF FreeInv
<1>13. CallInv' /\ MakeInv'
  BY <1>0, <1>3 DEF CallInv, MakeInv
<1>14. (Doingdirectory' <=> Doingdirectory) /\ (Newparent' <=> Newparent)
  BY <1>3 DEF Doingdirectory, Newparent, IsDir
<1>15. RenameInv'
  BY <1>0, <1>1, <1>2, <1>3, <1>14 DEF RenameInv
<1>16. Home'
  <2>1. ASSUME NEW a \in Inos, NEW m \in Names, IsDir(ent[a][m])'
        PROVE  dotdot'[ent'[a][m]] = a \/ Away(ent[a][m], a, m)'
    <3>1. CASE ent[a][m] = t
      BY <1>4, <1>7, <1>9, <3>1
    <3>2. CASE ent[a][m] # t
      <4>1. IsDir(ent[a][m]) /\ ent[a][m] \in Inos /\ ~Away(ent[a][m], a, m)
        BY <1>6, <2>1, <3>2 DEF IsDir, TypeOK
      <4>2. QED BY <1>2, <1>4, <3>2, <4>1 DEF TreeInv, Home
    <3>3. QED BY <3>1, <3>2
  <2>2. QED BY <2>1 DEF Home
<1>17. Once'
  <2>1. ASSUME NEW a \in Inos, NEW m \in Names, NEW b \in Inos, NEW k \in Names,
               IsDir(ent[a][m])', ent'[b][k] = ent'[a][m]
        PROVE  (a = b /\ m = k) \/ Away(ent[a][m], a, m)' \/ Away(ent[a][m], b, k)'
    <3>1. CASE ent[a][m] = t
      BY <1>7, <1>9, <2>1, <3>1
    <3>2. CASE ent[a][m] # t
      BY <1>2, <1>6, <2>1, <3>2 DEF TreeInv, Once, IsDir
    <3>3. QED BY <3>1, <3>2
  <2>2. QED BY <2>1 DEF Once
<1>18. RootInv' /\ LiveInv'
  BY <1>2, <1>3, <1>4, <1>5, VnopsAssumption DEF TreeInv, RootInv, LiveInv
<1>19. DiskInv'
  BY <1>2, <1>3 DEF TreeInv, DiskInv, Written
<1>20. Touches(td, tn, t)
  BY <1>4 DEF Touches, Alive
<1>21. \A j \in Inos : Owed(j) = One(j = td) - One(j = d) /\ Owed(j)' = 0
  <2>1. \A j \in Inos : /\ ~NameOwed(j) /\ (UpOwed(j) <=> j = td) /\ (DownOwed(j) <=> j = d)
                        /\ ~NameOwed(j)' /\ ~UpOwed(j)' /\ ~DownOwed(j)'
    BY <1>1, <1>2, <1>3 DEF NameOwed, UpOwed, DownOwed
  <2>2. QED BY <2>1 DEF Owed, One
<1>22. \A j \in Inos : One(Child(t, j)) = One(j = d) /\ One(Child(t, j)') = One(j = td)
  BY <1>2, <1>4, <1>5, <1>8 DEF Child, Alive, One
<1>23. ASSUME NEW j \in Inos
       PROVE
         \/ /\ core[j].nlink > 0 /\ core'[j].nlink > 0
            /\ core'[j].nlink - core[j].nlink = 0 /\ Change(td, tn, t, j) = 0
         \/ /\ core[j].nlink = 0 /\ core'[j].nlink = 0
            /\ ent'[td][tn] # j /\ ~Child(t, j)' /\ ent'[j] = NoEntries
  <2>1. CASE core[j].nlink = 0
    <3>1. j # td /\ j # t /\ ent[j] = NoEntries
      BY <1>2, <1>5, <2>1 DEF TreeInv, Counted
    <3>2. QED BY <1>2, <1>4, <2>1, <3>1 DEF Child
  <2>2. CASE core[j].nlink # 0
    <3>1. core[j].nlink > 0 /\ core'[j].nlink - core[j].nlink = 0
      BY <1>0, <1>2, <2>2 DEF TreeInv, Counted, Inode
    <3>2. Dot(j)' = Dot(j) /\ Dot(j) \in Int
      BY DEF Dot
    <3>3. One(ent'[td][tn] = j) = One(ent[td][tn] = j) /\ One(ent[td][tn] = j) \in Int
      BY DEF One
    <3>4. One(j = td) \in Int /\ One(j = d) \in Int
      BY DEF One
    <3>5. Owed(j)' - Owed(j) = One(j = d) - One(j = td)
      BY <1>21, <3>4
    <3>6. Change(td, tn, t, j) = 0
      BY <1>22, <3>2, <3>3, <3>4, <3>5 DEF Change
    <3>7. QED BY <3>1, <3>6
  <2>3. QED BY <2>1, <2>2
<1>24. \A j \in Inos : Counted(j)'
  BY <1>2, <1>10, <1>11, <1>20, <1>23, TreeStep DEF TreeInv
<1>25. QED BY <1>11, <1>12, <1>13, <1>15, <1>16, <1>17, <1>18, <1>19, <1>24 DEF IInv, TreeInv

\* The ".." is not written: an error is lost and leaves a stray entry, or the machine panics.
LEMMA DotdotKept ==
  ASSUME TypeOK, IInv, call.op = "rename", call.pc = "dotdot",
         UNCHANGED <<ftype, ent, dotdot, core, disk, used>>,
         \/ Fault /\ stray' = TRUE /\ Goto("unlink")
         \/ ~ftype /\ NoFault /\ Goto("panic") /\ UNCHANGED stray
  PROVE  TypeOK' /\ IInv'
<1>0. /\ call \in Calls /\ core \in [Inos -> Inode] /\ Types
      /\ CallInv /\ MakeInv /\ RenameInv /\ FreeInv
  BY DEF TypeOK, IInv, Types
<1>1. PICK p \in {"unlink", "panic"} :
        /\ Goto(p) /\ (Fault \/ NoFault) /\ (p = "unlink" => stray' = TRUE)
        /\ p = "panic" => ~ftype /\ UNCHANGED stray
  OBVIOUS
<1>2. /\ call' \in Calls /\ call'.pc = p /\ call'.op = call.op
      /\ call'.d = call.d /\ call'.n = call.n /\ call'.ip = call.ip
      /\ call'.td = call.td /\ call'.tn = call.tn /\ call'.xp = call.xp
  BY <1>0, <1>1, GotoFields DEF CallPcs
<1>3. faults' \in 0..MaxFaults /\ faults' >= faults /\ stray' \in BOOLEAN
  BY <1>1, FaultFacts DEF TypeOK
<1>4. TypeOK' /\ FreeInv'
  BY <1>0, <1>2, <1>3, PcStep DEF Types, tree
<1>5. CallInv' /\ MakeInv'
  BY <1>0, <1>2 DEF CallInv, MakeInv
<1>6. (Doingdirectory' <=> Doingdirectory) /\ (Newparent' <=> Newparent)
  BY <1>2 DEF Doingdirectory, Newparent, IsDir
<1>7. RenameInv'
  BY <1>0, <1>1, <1>2, <1>6 DEF RenameInv
<1>8. ASSUME ~stray' PROVE TreeInv'
  <2>1. p = "panic" /\ ~stray /\ TreeInv
    BY <1>1, <1>8 DEF IInv
  <2>2. \A i \in Inos : Owed(i)' = Owed(i)
    <3>1. \A i : NameOwed(i)' <=> NameOwed(i)
      BY <1>2, <2>1 DEF NameOwed
    <3>2. \A i : UpOwed(i)' <=> UpOwed(i)
      BY <1>2, <1>6, <2>1 DEF UpOwed
    <3>3. \A i : DownOwed(i)' <=> DownOwed(i)
      BY <1>2, <2>1 DEF DownOwed
    <3>4. QED BY <3>1, <3>2, <3>3 DEF Owed, One
  <2>3. \A i, a, m : Away(i, a, m) => Away(i, a, m)'
    BY <1>2, <2>1 DEF Away
  <2>4. Home' /\ Once' /\ RootInv' /\ LiveInv' /\ \A i \in Inos : Counted(i)'
    BY <1>0, <1>2, <1>3, <2>1, <2>2, <2>3, PcStep DEF Types, tree
  <2>5. DiskInv'
    BY <1>2, <2>1 DEF TreeInv, DiskInv, Written
  <2>6. QED BY <2>4, <2>5 DEF TreeInv
<1>9. QED BY <1>4, <1>5, <1>7, <1>8 DEF IInv

\* ext2_rename() has rewritten the source's "..", or not.
LEMMA RenameDotdotInv == TypeOK /\ IInv /\ RenameDotdot => TypeOK' /\ IInv'
<1> SUFFICES ASSUME TypeOK, IInv, RenameDotdot PROVE TypeOK' /\ IInv'
  OBVIOUS
<1>1. CASE /\ NoFault /\ dotdot' = [dotdot EXCEPT ![call.ip] = call.td]
           /\ Goto("unlink") /\ UNCHANGED stray
  BY <1>1, DotdotWritten DEF RenameDotdot
<1>2. CASE \/ Fault /\ stray' = TRUE /\ Goto("unlink") /\ UNCHANGED dotdot
           \/ ~ftype /\ NoFault /\ Goto("panic") /\ UNCHANGED <<dotdot, stray>>
  BY <1>2, DotdotKept DEF RenameDotdot
<1>3. QED BY <1>1, <1>2 DEF RenameDotdot

\* One of the two names is removed, and with it the link that the rename had added.  Within
\* one directory that may be the new name: then the old one is in its directory already.
LEMMA Unlinked ==
  ASSUME TypeOK, IInv, call.op = "rename", call.pc = "unlink", NoFault, Return,
         NEW n \in Names, n = call.n \/ (~Newparent /\ n = call.tn),
         ent' = Entry(call.d, n, NoIno),
         core' = Nlink(Cleared(core, call.ip), call.ip, -1),
         UNCHANGED <<ftype, dotdot, disk, used, stray>>
  PROVE  TypeOK' /\ IInv'
<1>0. /\ call \in Calls /\ core \in [Inos -> Inode] /\ Types
      /\ CallInv /\ MakeInv /\ RenameInv /\ FreeInv
  BY DEF TypeOK, IInv, Types
<1>1. PICK t \in Inos, d \in Inos, td \in Inos, tn \in Names :
        /\ t = call.ip /\ d = call.d
        /\ IF n = call.n THEN td = call.td /\ tn = call.tn ELSE td = d /\ tn = call.n
  BY <1>0 DEF CallInv, TypeOK, Calls
<1>2. /\ ent[td][tn] = t /\ ent[d][n] = t /\ (d # td \/ n # tn) /\ t \in used
      /\ core[d].mode = "dir" /\ core[t].nlink \in Int
  BY <1>0, <1>1 DEF RenameInv, CallInv, Inode, Newparent
<1>3. CallInv' /\ MakeInv' /\ RenameInv' /\ call' \in Calls /\ call'.op = "none"
  BY ReturnInv
<1>4. /\ ent' \in [Inos -> [Names -> Inos \cup {NoIno}]] /\ ent'[d][n] = NoIno
      /\ \A b \in Inos, k \in Names : b # d \/ k # n => ent'[b][k] = ent[b][k]
      /\ \A b \in Inos : b # d => ent'[b] = ent[b]
  <2>1. ent' = Entry(d, n, NoIno)
    BY <1>1
  <2>2. QED BY <1>0, <2>1, EntryTypes
<1>5. /\ core' \in [Inos -> Inode]
      /\ \A j \in Inos : /\ core'[j].mode = core[j].mode
                         /\ j # t => core'[j].nlink = core[j].nlink
                                     /\ core'[j].rename = core[j].rename
      /\ core'[t].nlink = core[t].nlink + (-1) /\ core'[t].rename = FALSE
  <2> DEFINE c == Cleared(core, t)
  <2>1. /\ c \in [Inos -> Inode]
        /\ \A j \in Inos : /\ c[j].mode = core[j].mode /\ c[j].nlink = core[j].nlink
                           /\ j # t => c[j].rename = core[j].rename
        /\ c[t].rename = FALSE
    BY <1>0, ClearedFacts
  <2>2. core' = Nlink(c, t, -1)
    BY <1>1
  <2> HIDE DEF c
  <2>3. /\ core' \in [Inos -> Inode]
        /\ \A j \in Inos : /\ core'[j].mode = c[j].mode /\ core'[j].rename = c[j].rename
                           /\ j # t => core'[j].nlink = c[j].nlink
        /\ core'[t].nlink = c[t].nlink + (-1)
    BY <2>1, <2>2, NlinkFacts
  <2>4. QED BY <2>1, <2>3
<1>6. faults' \in 0..MaxFaults /\ faults' >= faults
  BY FaultFacts DEF TypeOK
<1>7. TypeOK'
  <2>1. \A j \in Inos : ~core'[j].rename
    BY <1>1, <1>5 DEF TypeOK
  <2>2. QED BY <1>0, <1>3, <1>4, <1>5, <1>6, <2>1 DEF TypeOK
<1>8. FreeInv'
  <2> SUFFICES ASSUME NEW i \in Inos
               PROVE  /\ i \notin used => /\ core'[i].mode = "free" /\ core'[i].nlink = 0
                                          /\ dotdot[i] = NoIno
                      /\ core'[i].mode # "dir" => ent'[i] = NoEntries
    BY <1>1 DEF FreeInv
  <2>1. /\ i \notin used => core[i].mode = "free" /\ core[i].nlink = 0 /\ dotdot[i] = NoIno
        /\ core[i].mode # "dir" => ent[i] = NoEntries
    BY <1>0 DEF FreeInv
  <2>2. core'[i].mode = core[i].mode /\ (i # t => core'[i].nlink = core[i].nlink)
    BY <1>5
  <2>3. i \notin used => i # t
    BY <1>2
  <2>4. core[i].mode # "dir" => i # d
    BY <1>2
  <2>5. i # d => ent'[i] = ent[i]
    BY <1>4
  <2>6. QED BY <2>1, <2>2, <2>3, <2>4, <2>5
<1>9. ASSUME ~stray' PROVE TreeInv'
  <2>1. TreeInv
    BY <1>9 DEF IInv
  <2>2. \A i, a, m : Away(i, a, m) <=> i = t /\ a = d /\ m = call.n
    BY <1>1 DEF Away
  <2>3. \A j \in Inos : Owed(j) = 0 /\ Owed(j)' = 0
    <3>1. \A j \in Inos : Owed(j) = 0
      BY DEF Owed, NameOwed, UpOwed, DownOwed, One
    <3>2. QED BY <3>1, ReturnInv
  <2>4. t # Root /\ core[t].nlink > 0
    BY <1>0, <1>2, <2>1, NamedLive, VnopsAssumption DEF TreeInv, RootInv
  <2>5. core'[t].nlink > 0
    <3>1. LET low == One(ent[d][n] = t) + One(Child(d, t)) + Dot(t) + One(t = Root) + Owed(t)
          IN  core[t].nlink <= low => NamesOf(t) \subseteq {<<d, n>>}
      BY <2>1, <2>4, CountBounds DEF TreeInv
    <3>2. <<td, tn>> \in NamesOf(t) /\ <<td, tn>> # <<d, n>>
      BY <1>2, RefSets
    <3>3. ~(core[t].nlink <= One(ent[d][n] = t) + One(Child(d, t)) + Dot(t) + One(t = Root) + Owed(t))
      BY <3>1, <3>2
    <3>4. /\ One(ent[d][n] = t) = 1 /\ One(Child(d, t)) \in {0, 1} /\ Dot(t) \in {0, 1}
          /\ One(t = Root) = 0 /\ Owed(t) = 0
      BY <1>2, <2>3, <2>4 DEF One, Dot
    <3>5. core[t].nlink > 1
      BY <1>2, <3>3, <3>4
    <3>6. QED BY <1>2, <1>5, <3>5
  <2>6. ASSUME NEW a \in Inos, NEW m \in Names, IsDir(ent[a][m])'
        PROVE  (a # d \/ m # n) /\ ent'[a][m] = ent[a][m] /\ IsDir(ent[a][m])
    <3>1. a # d \/ m # n
      BY <1>4, <2>6 DEF IsDir
    <3>2. QED BY <1>4, <1>5, <2>6, <3>1 DEF IsDir, TypeOK
  <2>7. Home'
    <3>1. ASSUME NEW a \in Inos, NEW m \in Names, IsDir(ent[a][m])' PROVE dotdot[ent[a][m]] = a
      <4>1. (a # d \/ m # n) /\ IsDir(ent[a][m])
        BY <2>6, <3>1
      <4>2. CASE ~Away(ent[a][m], a, m)
        BY <2>1, <4>1, <4>2 DEF TreeInv, Home
      <4>3. CASE Away(ent[a][m], a, m)
        <5>1. ent[a][m] = t /\ a = d /\ n # call.n
          BY <2>2, <4>1, <4>3
        <5>2. QED BY <1>2, <2>1, <2>2, <4>1, <5>1 DEF TreeInv, Home
      <4>4. QED BY <4>2, <4>3
    <3>2. QED BY <2>6, <3>1 DEF Home
  <2>8. Once'
    <3>1. CASE n = call.n
      BY <2>1, <2>2, <2>6, <3>1, OnceStep DEF TreeInv
    <3>2. CASE n # call.n
      <4>1. \A a \in Inos, m \in Names : IsDir(ent[a][m]) /\ ent[a][m] = t =>
              (a = d /\ m = n) \/ (a = d /\ m = call.n)
        BY <1>2, <2>1, <2>2, <3>2 DEF TreeInv, Once
      <4>2. SUFFICES ASSUME NEW a \in Inos, NEW m \in Names, NEW b \in Inos, NEW k \in Names,
                            IsDir(ent[a][m])', ent'[b][k] = ent'[a][m]
                     PROVE  a = b /\ m = k
        BY DEF Once
      <4>3. /\ (a # d \/ m # n) /\ ent'[a][m] = ent[a][m] /\ IsDir(ent[a][m])
            /\ (b # d \/ k # n) /\ ent[b][k] = ent[a][m]
        <5>1. IsDir(ent[b][k])'
          BY <4>2 DEF IsDir
        <5>2. QED BY <2>6, <4>2, <5>1
      <4>4. CASE ent[a][m] = t
        BY <4>1, <4>3, <4>4
      <4>5. CASE ent[a][m] # t
        BY <2>1, <2>2, <4>3, <4>5 DEF TreeInv, Once
      <4>6. QED BY <4>4, <4>5
    <3>3. QED BY <3>1, <3>2
  <2>9. RootInv'
    <3>1. \A a \in Inos, m \in Names : ent'[a][m] # Root
      BY <1>4, <2>1, VnopsAssumption DEF TreeInv, RootInv
    <3>2. core'[Root].mode = "dir" /\ core'[Root].nlink > 0
      BY <1>5, <2>1, <2>4, VnopsAssumption DEF TreeInv, RootInv
    <3>3. QED BY <2>1, <3>1, <3>2 DEF TreeInv, RootInv
  <2>10. LiveInv' /\ DiskInv'
    <3>1. ASSUME NEW a \in Inos, NEW m \in Names, ent'[a][m] # NoIno
          PROVE  Written(ent[a][m])'
      <4>1. ent'[a][m] = ent[a][m]
        BY <1>4, <3>1
      <4>2. ent[a][m] \in Inos \cup {NoIno}
        BY <1>0 DEF Types
      <4>3. QED BY <1>5, <2>1, <3>1, <4>1, <4>2 DEF TreeInv, DiskInv, Written
    <3>2. QED BY <1>3, <3>1 DEF LiveInv, DiskInv
  <2>11. Touches(d, n, d)
    BY <1>4, <1>5, <2>4, <2>5 DEF Touches, Alive
  <2>12. \A j \in Inos : Child(d, j)' <=> Child(d, j)
    BY <1>5, <2>4, <2>5 DEF Child, Alive
  <2>13. \A j \in Inos : Change(d, n, d, j) = 0 - One(j = t)
    <3>1. ASSUME NEW j \in Inos PROVE Change(d, n, d, j) = 0 - One(j = t)
      <4>1. Dot(j)' = Dot(j) /\ Dot(j) \in Int
        BY <1>5 DEF Dot
      <4>2. One(ent'[d][n] = j) = 0 /\ One(ent[d][n] = j) = One(j = t) /\ One(j = t) \in Int
        BY <1>2, <1>4, VnopsAssumption DEF One
      <4>3. Owed(j)' - Owed(j) = 0
        BY <2>3
      <4>4. One(Child(d, j)') = One(Child(d, j)) /\ One(Child(d, j)) \in Int
        BY <2>12 DEF One
      <4>5. QED BY <4>1, <4>2, <4>3, <4>4 DEF Change
    <3>2. QED BY <3>1
  <2>14. ASSUME NEW j \in Inos
         PROVE
           \/ /\ core[j].nlink > 0 /\ core'[j].nlink > 0
              /\ core'[j].nlink - core[j].nlink = Change(d, n, d, j)
              /\ core'[j].nlink - core[j].nlink >= Change(d, n, d, j)
           \/ /\ core[j].nlink = 0 /\ core'[j].nlink = 0
              /\ ent'[d][n] # j /\ ~Child(d, j)' /\ ent'[j] = NoEntries
    <3>1. CASE core[j].nlink = 0
      <4>1. j # t /\ ent[j] = NoEntries /\ Children(j) = {}
        BY <2>1, <2>4, <3>1 DEF TreeInv, Counted
      <4>2. j # d
        BY <1>2, <4>1, VnopsAssumption DEF NoEntries
      <4>3. ~Child(d, j)'
        BY <2>12, <4>1, RefSets
      <4>4. QED BY <1>4, <1>5, <3>1, <4>1, <4>2, <4>3, VnopsAssumption
    <3>2. CASE core[j].nlink # 0 /\ j # t
      <4>1. core[j].nlink > 0 /\ core'[j].nlink - core[j].nlink = 0 /\ core'[j].nlink > 0
        BY <1>0, <1>5, <2>1, <3>2 DEF TreeInv, Counted, Inode
      <4>2. Change(d, n, d, j) = 0
        BY <2>13, <3>2 DEF One
      <4>3. QED BY <4>1, <4>2
    <3>3. CASE j = t
      <4>1. Change(d, n, d, j) = -1
        BY <2>13, <3>3 DEF One
      <4>2. core'[j].nlink - core[j].nlink = -1
        BY <1>2, <1>5, <3>3
      <4>3. QED BY <2>4, <2>5, <3>3, <4>1, <4>2
    <3>4. QED BY <3>1, <3>2, <3>3
  <2>15. \A j \in Inos : Counted(j)'
    BY <1>6, <1>7, <2>1, <2>11, <2>14, TreeStep DEF TreeInv
  <2>16. QED BY <2>7, <2>8, <2>9, <2>10, <2>15 DEF TreeInv
<1>10. QED BY <1>3, <1>7, <1>8, <1>9 DEF IInv

\* Another entry goes, or none, with the link that the rename had added: what is left is not
\* followed.
LEMMA WrongUnlinked ==
  ASSUME TypeOK, IInv, call.op = "rename", call.pc = "unlink", NoFault, Return,
         NEW d \in Inos, NEW n \in Names, core[d].mode = "dir",
         ent' = ent \/ ent' = Entry(d, n, NoIno), stray' = TRUE,
         core' = Nlink(Cleared(core, call.ip), call.ip, -1),
         UNCHANGED <<ftype, dotdot, disk, used>>
  PROVE  TypeOK' /\ IInv'
<1>0. /\ call \in Calls /\ core \in [Inos -> Inode] /\ Types
      /\ CallInv /\ MakeInv /\ RenameInv /\ FreeInv
  BY DEF TypeOK, IInv, Types
<1>1. PICK t \in Inos : t = call.ip /\ t \in used
  BY <1>0 DEF CallInv, TypeOK
<1>2. CallInv' /\ MakeInv' /\ RenameInv' /\ call' \in Calls /\ call'.op = "none"
  BY ReturnInv
<1>3. /\ ent' \in [Inos -> [Names -> Inos \cup {NoIno}]]
      /\ \A b \in Inos : b # d => ent'[b] = ent[b]
  BY <1>0, EntryTypes DEF Types
<1>4. /\ core' \in [Inos -> Inode]
      /\ \A j \in Inos : /\ core'[j].mode = core[j].mode /\ ~core'[j].rename
                         /\ j # t => core'[j].nlink = core[j].nlink
  <2> DEFINE c == Cleared(core, t)
  <2>1. /\ c \in [Inos -> Inode]
        /\ \A j \in Inos : /\ c[j].mode = core[j].mode /\ c[j].nlink = core[j].nlink
                           /\ j # t => c[j].rename = core[j].rename
        /\ c[t].rename = FALSE
    BY <1>0, ClearedFacts
  <2>2. core' = Nlink(c, t, -1)
    BY <1>1
  <2> HIDE DEF c
  <2>3. /\ core' \in [Inos -> Inode]
        /\ \A j \in Inos : /\ core'[j].mode = c[j].mode /\ core'[j].rename = c[j].rename
                           /\ j # t => core'[j].nlink = c[j].nlink
    BY <2>1, <2>2, NlinkFacts
  <2>4. \A j \in Inos : ~c[j].rename
    BY <1>1, <2>1 DEF TypeOK
  <2>5. QED BY <2>1, <2>3, <2>4
<1>5. faults' \in 0..MaxFaults
  BY FaultFacts DEF TypeOK
<1>6. TypeOK'
  BY <1>0, <1>2, <1>3, <1>4, <1>5 DEF TypeOK
<1>7. FreeInv'
  BY <1>0, <1>1, <1>3, <1>4 DEF FreeInv
<1>8. QED BY <1>2, <1>6, <1>7 DEF IInv

\* The old name stays: both are counted, and a directory has one in the wrong place.
LEMMA UnlinkFails ==
  ASSUME TypeOK, IInv, call.op = "rename", call.pc = "unlink", Fault \/ NoFault, Return,
         core' = Cleared(core, call.ip), stray' = Doingdirectory,
         UNCHANGED <<ftype, ent, dotdot, disk, used>>
  PROVE  TypeOK' /\ IInv'
<1>0. /\ call \in Calls /\ core \in [Inos -> Inode] /\ Types
      /\ CallInv /\ MakeInv /\ RenameInv /\ FreeInv
  BY DEF TypeOK, IInv, Types
<1>1. PICK t \in Inos, d \in Inos, n \in Names :
        t = call.ip /\ d = call.d /\ n = call.n /\ ent[d][n] = t
  BY <1>0 DEF CallInv, RenameInv, TypeOK, Calls
<1>2. CallInv' /\ MakeInv' /\ RenameInv' /\ call' \in Calls /\ call'.op = "none"
  BY ReturnInv
<1>3. /\ core' \in [Inos -> Inode]
      /\ \A j \in Inos : /\ core'[j].mode = core[j].mode /\ core'[j].nlink = core[j].nlink
                         /\ j # t => core'[j].rename = core[j].rename
      /\ core'[t].rename = FALSE
  <2> DEFINE c == Cleared(core, t)
  <2>1. /\ c \in [Inos -> Inode]
        /\ \A j \in Inos : /\ c[j].mode = core[j].mode /\ c[j].nlink = core[j].nlink
                           /\ j # t => c[j].rename = core[j].rename
        /\ c[t].rename = FALSE
    BY <1>0, ClearedFacts
  <2>2. core' = c
    BY <1>1
  <2>3. QED BY <2>1, <2>2
<1>4. faults' \in 0..MaxFaults /\ faults' >= faults /\ stray' \in BOOLEAN
  BY FaultFacts DEF TypeOK, Doingdirectory, IsDir
<1>5. TypeOK'
  <2>1. \A j \in Inos : ~core'[j].rename
    BY <1>1, <1>3 DEF TypeOK
  <2>2. QED BY <1>0, <1>2, <1>3, <1>4, <2>1 DEF TypeOK
<1>6. FreeInv'
  BY <1>0, <1>3 DEF FreeInv
<1>7. ASSUME ~stray' PROVE TreeInv'
  <2>1. ~stray /\ TreeInv /\ ~Doingdirectory /\ ~IsDir(t)
    BY <1>0, <1>1, <1>7 DEF IInv, RenameInv, Doingdirectory
  <2>2. \A i, a, m : Away(i, a, m) => i = t
    BY <1>1 DEF Away
  <2>3. \A j \in Inos : Owed(j) = 0 /\ Owed(j)' = 0
    <3>1. \A j \in Inos : Owed(j) = 0
      BY DEF Owed, NameOwed, UpOwed, DownOwed, One
    <3>2. QED BY <3>1, ReturnInv
  <2>4. Once'
    <3>1. \A a \in Inos, m \in Names :
            IsDir(ent[a][m])' => IsDir(ent[a][m]) /\ ~Away(ent[a][m], a, m)
      BY <1>3, <2>1, <2>2 DEF IsDir, TypeOK
    <3>2. QED BY <2>1, <3>1, OnceStep DEF TreeInv
  <2>5. core[t].nlink > 0 /\ core[t].nlink \in Int
    BY <1>0, <1>1, <2>1, NamedLive, VnopsAssumption DEF TreeInv, Inode
  <2>6. Home' /\ Once' /\ RootInv' /\ LiveInv' /\ \A j \in Inos : Counted(j)'
    <3>1. /\ core'[t].nlink - core[t].nlink = 0 /\ Owed(t)' - Owed(t) = 0 /\ core'[t].nlink > 0
          /\ core'[t].nlink - core[t].nlink >= Owed(t)' - Owed(t)
      BY <1>3, <2>3, <2>5
    <3>2. QED BY <1>2, <1>3, <1>4, <1>5, <2>1, <2>2, <2>3, <2>4, <2>5, <3>1, CountStep
  <2>7. DiskInv'
    BY <1>2, <1>3, <2>1, CountDisk
  <2>8. QED BY <2>6, <2>7 DEF TreeInv
<1>8. QED BY <1>2, <1>5, <1>6, <1>7 DEF IInv

\* The end of ext2_rename().
LEMMA RenameUnlinkInv == TypeOK /\ IInv /\ RenameUnlink => TypeOK' /\ IInv'
<1> SUFFICES ASSUME TypeOK, IInv, RenameUnlink PROVE TypeOK' /\ IInv'
  OBVIOUS
<1>0. /\ call \in Calls /\ call.d \in Inos /\ core[call.d].mode = "dir"
      /\ call.op = "rename" /\ call.pc = "unlink" /\ Return
      /\ UNCHANGED <<ftype, dotdot, disk, used>>
  BY DEF RenameUnlink, TypeOK, IInv, CallInv, Calls
<1>1. CASE /\ NoFault /\ ent' \in Removals /\ stray' = (stray \/ ~(Moved \/ Undone))
           /\ core' = Nlink([core EXCEPT ![call.ip].rename = FALSE], call.ip, -1)
  <2>1. CASE Moved \/ Undone
    <3>1. PICK n \in Names : /\ n = call.n \/ (~Newparent /\ n = call.tn)
                            /\ ent' = Entry(call.d, n, NoIno)
      BY <1>0, <2>1 DEF Moved, Undone, Entry, Newparent, Calls
    <3>2. stray' = stray
      BY <1>1, <2>1 DEF TypeOK
    <3>3. QED BY <1>0, <1>1, <3>1, <3>2, Unlinked DEF Cleared
  <2>2. CASE ~(Moved \/ Undone)
    <3>1. PICK n \in Names : ent' = ent \/ ent' = Entry(call.d, n, NoIno)
      BY <1>0, <1>1, VnopsAssumption DEF Removals, Entry, Calls
    <3>2. stray' = TRUE
      BY <1>1, <2>2
    <3>3. QED BY <1>0, <1>1, <3>1, <3>2, WrongUnlinked DEF Cleared
  <2>3. QED BY <2>1, <2>2
<1>2. CASE /\ Fault \/ NoFault
           /\ UNCHANGED ent /\ stray' = Doingdirectory
           /\ core' = [core EXCEPT ![call.ip].rename = FALSE]
  BY <1>0, <1>2, UnlinkFails DEF Cleared
<1>3. QED BY <1>1, <1>2 DEF RenameUnlink

(***************************************************************************)
(* ext2_inactive().                                                        *)
(***************************************************************************)

\* An inode without links is freed: nothing refers to it.
LEMMA InactiveInv ==
  ASSUME TypeOK, IInv, NEW i \in Inos, Inactive(i)
  PROVE  TypeOK' /\ IInv'
<1>0. /\ call \in Calls /\ core \in [Inos -> Inode] /\ Types
      /\ CallInv /\ MakeInv /\ RenameInv /\ FreeInv
  BY DEF TypeOK, IInv, Types
<1>1. /\ i \in used /\ core[i].nlink <= 0 /\ used' = used \ {i}
      /\ i # call.d /\ i # call.td /\ i # call.ip
      /\ UNCHANGED <<ftype, call, faults, stray>>
  BY DEF Inactive
<1>2. /\ core' \in [Inos -> Inode] /\ core'[i].mode = "free" /\ core'[i].nlink = 0
      /\ core'[i].rename = FALSE /\ \A j \in Inos : j # i => core'[j] = core[j]
  <2>1. Freed \in Inode /\ Freed.mode = "free" /\ Freed.nlink = 0 /\ Freed.rename = FALSE
    BY DEF Freed, Inode
  <2>2. core' = [core EXCEPT ![i] = Freed]
    BY DEF Inactive
  <2>3. QED BY <1>0, <2>1, <2>2
<1>3. disk' \in [Inos -> Dinode] /\ \A j \in Inos : j # i => disk'[j] = disk[j]
  <2>1. I2ei(Freed) \in Dinode
    BY DEF I2ei, Freed, Dinode
  <2>2. disk' = [disk EXCEPT ![i] = I2ei(Freed)]
    BY DEF Inactive
  <2>3. QED BY <1>0, <2>1, <2>2 DEF Types
<1>4. /\ ent' \in [Inos -> [Names -> Inos \cup {NoIno}]] /\ ent'[i] = NoEntries
      /\ \A j \in Inos : j # i => ent'[j] = ent[j]
  <2>1. NoEntries \in [Names -> Inos \cup {NoIno}]
    BY DEF NoEntries
  <2>2. ent' = [ent EXCEPT ![i] = NoEntries]
    BY DEF Inactive
  <2>3. QED BY <1>0, <2>1, <2>2 DEF Types
<1>5. /\ dotdot' \in [Inos -> Inos \cup {NoIno}] /\ dotdot'[i] = NoIno
      /\ \A j \in Inos : j # i => dotdot'[j] = dotdot[j]
  BY <1>0 DEF Inactive, Types
<1>6. TypeOK'
  BY <1>1, <1>2, <1>3, <1>4, <1>5 DEF TypeOK
<1>7. FreeInv'
  BY <1>0, <1>1, <1>2, <1>4, <1>5 DEF FreeInv
<1>8. call.op # "none" => call.ip \in Inos /\ call.d \in Inos /\ call.td \in Inos
  BY <1>0 DEF CallInv, TypeOK
<1>9. CallInv' /\ MakeInv'
  BY <1>0, <1>1, <1>2, <1>4, <1>5, <1>8 DEF CallInv, MakeInv
<1>10. call.op # "none" => (Doingdirectory' <=> Doingdirectory) /\ (Newparent' <=> Newparent)
  BY <1>1, <1>2, <1>8 DEF Doingdirectory, Newparent, IsDir
<1>11. RenameInv'
  BY <1>0, <1>1, <1>4, <1>8, <1>10 DEF RenameInv
<1>12. ASSUME ~stray' PROVE TreeInv'
  <2>1. TreeInv /\ core[i].nlink \in Int
    BY <1>0, <1>1, <1>12 DEF IInv, Inode
  <2>2. core[i].nlink = 0 /\ NamesOf(i) = {} /\ Children(i) = {} /\ ent[i] = NoEntries
    <3>1. core[i].nlink = 0
      BY <1>1, <2>1 DEF TreeInv, Counted
    <3>2. QED BY <2>1, <3>1 DEF TreeInv, Counted
  <2>3. ent' = ent /\ i # Root
    <3>1. \A j \in Inos : ent'[j] = ent[j]
      BY <1>4, <2>2
    <3>2. QED BY <1>0, <1>4, <2>1, <2>2, <3>1 DEF Types, TreeInv, RootInv
  <2>4. \A a \in Inos, m \in Names : ent[a][m] # i
    BY <2>2, RefSets
  <2>5. ASSUME NEW a \in Inos, NEW m \in Names, IsDir(ent[a][m])'
        PROVE  /\ IsDir(ent[a][m]) /\ dotdot'[ent[a][m]] = dotdot[ent[a][m]]
    BY <1>2, <1>5, <2>3, <2>4, <2>5 DEF IsDir, TypeOK
  <2>6. \A j, a, m : Away(j, a, m)' <=> Away(j, a, m)
    BY <1>1 DEF Away
  <2>7. Home' /\ Once'
    <3>1. Home'
      BY <2>1, <2>3, <2>5, <2>6 DEF TreeInv, Home
    <3>2. Once'
      BY <2>1, <2>3, <2>5, <2>6, OnceStep DEF TreeInv
    <3>3. QED BY <3>1, <3>2
  <2>8. RootInv'
    BY <1>2, <1>5, <2>1, <2>3, VnopsAssumption DEF TreeInv, RootInv
  <2>9. LiveInv'
    BY <1>1, <1>2, <1>8, <2>1 DEF TreeInv, LiveInv
  <2>10. DiskInv'
    <3>1. \A j \in Inos : j # i => (Written(j)' <=> Written(j))
      BY <1>2, <1>3 DEF Written
    <3>2. ASSUME NEW a \in Inos, NEW m \in Names, ent'[a][m] # NoIno
          PROVE  Written(ent[a][m])'
      <4>1. ent'[a][m] = ent[a][m] /\ ent[a][m] \in Inos /\ ent[a][m] # i
        BY <2>3, <2>4, <3>2 DEF TypeOK
      <4>2. QED BY <2>1, <3>1, <3>2, <4>1 DEF TreeInv, DiskInv
    <3>3. ASSUME call.op # "none", Written(call.ip) PROVE Written(call.ip)'
      BY <1>1, <1>8, <3>1, <3>3
    <3>4. QED BY <1>1, <2>1, <3>2, <3>3 DEF TreeInv, DiskInv
  <2>11. \A j \in Inos : Owed(j)' = Owed(j)
    <3>1. CASE call.op = "none"
      BY <1>1, <3>1 DEF Owed, NameOwed, UpOwed, DownOwed, One
    <3>2. CASE call.op # "none"
      <4>1. dotdot'[call.ip] = dotdot[call.ip]
        BY <1>1, <1>5, <1>8, <3>2
      <4>2. \A j \in Inos : /\ NameOwed(j)' <=> NameOwed(j)
                            /\ UpOwed(j)' <=> UpOwed(j)
                            /\ DownOwed(j)' <=> DownOwed(j)
        BY <1>1, <1>10, <3>2, <4>1 DEF NameOwed, UpOwed, DownOwed
      <4>3. QED BY <4>2 DEF Owed, One
    <3>3. QED BY <3>1, <3>2
  <2>12. PICK m \in Names : TRUE
    BY VnopsAssumption
  <2>13. Touches(i, m, i)
    BY <1>2, <1>5, <2>3 DEF Touches, Alive
  <2>14. \A j \in Inos : ~Child(i, j) /\ ~Child(i, j)'
    BY <1>2, <2>2 DEF Child, Alive
  <2>15. ASSUME NEW j \in Inos
         PROVE
           \/ /\ core[j].nlink > 0 /\ core'[j].nlink > 0
              /\ core'[j].nlink - core[j].nlink = 0 /\ Change(i, m, i, j) = 0
           \/ /\ core[j].nlink = 0 /\ core'[j].nlink = 0
              /\ ent'[i][m] # j /\ ~Child(i, j)' /\ ent'[j] = NoEntries
    <3>1. ent'[i][m] # j
      BY <1>4, VnopsAssumption DEF NoEntries
    <3>2. CASE core[j].nlink = 0
      <4>1. ent[j] = NoEntries /\ core'[j].nlink = 0
        BY <1>2, <2>1, <3>2 DEF TreeInv, Counted
      <4>2. QED BY <2>3, <2>14, <3>1, <3>2, <4>1
    <3>3. CASE core[j].nlink # 0
      <4>1. /\ j # i /\ core[j].nlink > 0 /\ core'[j].nlink - core[j].nlink = 0
            /\ core'[j].nlink > 0
        BY <1>0, <1>2, <2>1, <2>2, <3>3 DEF TreeInv, Counted, Inode
      <4>2. Dot(j)' = Dot(j) /\ Dot(j) \in Int
        BY <1>2, <4>1 DEF Dot
      <4>3. One(ent'[i][m] = j) = One(ent[i][m] = j) /\ One(ent[i][m] = j) \in Int
        BY <2>3 DEF One
      <4>4. One(Child(i, j)') = 0 /\ One(Child(i, j)) = 0
        BY <2>14 DEF One
      <4>5. Owed(j)' - Owed(j) = 0
        BY <2>11, OwedType
      <4>6. Change(i, m, i, j) = 0
        BY <4>2, <4>3, <4>4, <4>5 DEF Change
      <4>7. QED BY <4>1, <4>6
    <3>4. QED BY <3>2, <3>3
  <2>16. \A j \in Inos : Counted(j)'
    <3>1. faults' >= faults
      BY <1>1, VnopsAssumption DEF TypeOK
    <3>2. QED BY <1>6, <2>1, <2>13, <2>15, <3>1, TreeStep DEF TreeInv
  <2>17. QED BY <2>7, <2>8, <2>9, <2>10, <2>16 DEF TreeInv
<1>13. QED BY <1>6, <1>7, <1>9, <1>11, <1>12 DEF IInv

(***************************************************************************)
(* The theorems.                                                           *)
(***************************************************************************)

\* newfs_ext2fs's file system: the root has its "." and "..", and nothing is owed.
LEMMA InitInv == Init => TypeOK /\ IInv
<1> SUFFICES ASSUME Init PROVE TypeOK /\ IInv
  OBVIOUS
<1>1. /\ ftype \in Ftypes /\ used = {Root} /\ faults = 0 /\ stray = FALSE /\ call = NoCall
      /\ \A i \in Inos : ent[i] = NoEntries
      /\ \A i \in Inos : dotdot[i] = IF i = Root THEN Root ELSE NoIno
  BY VnopsAssumption DEF Init
<1>2. NoEntries \in [Names -> Inos \cup {NoIno}] /\ \A m \in Names : NoEntries[m] = NoIno
  BY DEF NoEntries
<1>3. /\ core \in [Inos -> Inode]
      /\ \A i \in Inos : i # Root => core[i].mode = "free" /\ core[i].nlink = 0
      /\ core[Root].mode = "dir" /\ core[Root].nlink = 2
      /\ \A i \in Inos : core[i].rename = FALSE
  <2> DEFINE r == [mode |-> "dir", nlink |-> 2, rename |-> FALSE]
  <2>1. Freed \in Inode /\ Freed.mode = "free" /\ Freed.nlink = 0 /\ Freed.rename = FALSE
    BY DEF Freed, Inode
  <2>2. r \in Inode /\ r.mode = "dir" /\ r.nlink = 2 /\ r.rename = FALSE
    BY DEF Inode
  <2>3. core = [i \in Inos |-> IF i = Root THEN r ELSE Freed]
    BY DEF Init
  <2> HIDE DEF r
  <2>4. QED BY <2>1, <2>2, <2>3, VnopsAssumption
<1>4. disk \in [Inos -> Dinode]
  <2>1. \A i \in Inos : I2ei(core[i]) \in Dinode
    BY <1>3, I2eiFacts
  <2>2. QED BY <2>1 DEF Init
<1>5. /\ ent \in [Inos -> [Names -> Inos \cup {NoIno}]]
      /\ dotdot \in [Inos -> Inos \cup {NoIno}]
  BY <1>2, VnopsAssumption DEF Init
<1>6. call \in Calls /\ call.op = "none" /\ call.pc = "idle"
  BY <1>1, NoCallFacts
<1>7. TypeOK
  <2>1. used \subseteq Inos /\ faults \in 0..MaxFaults
    BY VnopsAssumption DEF Init
  <2>2. stray \in BOOLEAN
    BY <1>1
  <2>3. QED BY <1>1, <1>3, <1>4, <1>5, <1>6, <2>1, <2>2 DEF TypeOK
<1>8. CallInv /\ MakeInv /\ RenameInv
  BY <1>6 DEF CallInv, MakeInv, RenameInv
<1>9. FreeInv
  BY <1>1, <1>3 DEF FreeInv
<1>10. \A a \in Inos, m \in Names : ent[a][m] = NoIno
  BY <1>1, <1>2
<1>11. Home /\ Once /\ RootInv /\ LiveInv /\ DiskInv
  <2>1. Home /\ Once
    BY <1>10 DEF Home, Once, IsDir
  <2>2. RootInv
    BY <1>1, <1>3, <1>10, VnopsAssumption DEF RootInv
  <2>3. LiveInv /\ DiskInv
    BY <1>6, <1>10 DEF LiveInv, DiskInv
  <2>4. QED BY <2>1, <2>2, <2>3
<1>12. ASSUME NEW i \in Inos PROVE Counted(i)
  <2>1. NamesOf(i) = {} /\ Children(i) = {}
    <3>1. \A e \in Inos \X Names : e[1] \in Inos /\ e[2] \in Names
      OBVIOUS
    <3>2. NamesOf(i) = {}
      BY <1>10, <3>1, VnopsAssumption DEF NamesOf
    <3>3. Children(i) = {}
      BY <1>3 DEF Children
    <3>4. QED BY <3>2, <3>3
  <2>2. CASE i # Root
    BY <1>1, <1>3, <2>1, <2>2 DEF Counted
  <2>3. CASE i = Root
    <3>1. Cardinality(NamesOf(i)) = 0 /\ Cardinality(Children(i)) = 0
      BY <2>1, FS_EmptySet
    <3>2. Refs(i) = 2
      BY <1>3, <2>3, <3>1 DEF Refs
    <3>3. Owed(i) = 0
      BY <1>6 DEF Owed, NameOwed, UpOwed, DownOwed, One
    <3>4. Slack(i) = 0 /\ core[i].nlink = 2
      BY <1>3, <2>3, <3>2, <3>3 DEF Slack
    <3>5. QED BY <3>4 DEF Counted
  <2>4. QED BY <2>2, <2>3
<1>13. QED BY <1>7, <1>8, <1>9, <1>11, <1>12 DEF IInv, TreeInv

\* Every step keeps the accounts.
LEMMA NextInv == TypeOK /\ IInv /\ [Next]_vars => TypeOK' /\ IInv'
<1> SUFFICES ASSUME TypeOK, IInv, [Next]_vars PROVE TypeOK' /\ IInv'
  OBVIOUS
<1>1. CASE \E d \in Inos, n \in Names :
             \/ \E op \in {"makeinode", "mkdir"} : Makeinode(op, d, n)
             \/ \E i \in Inos : Link(i, d, n)
             \/ Remove(d, n)
             \/ Rmdir(d, n)
             \/ \E td \in Inos, tn \in Names : Rename(d, n, td, tn)
  BY <1>1, MakeinodeInv, LinkInv, RemoveInv, RmdirInv, RenameBegins
<1>2. CASE NewName
  BY <1>2, MakeinodeInitInv, MkdirInitInv, MkdirParentInv, MkdirFillInv, EnterInv, BadInv,
     MadeInv DEF NewName
<1>3. CASE RenameStep
  BY <1>3, RenameCheckpathInv, RenameTargetInv, RenameEnterInv, RenameRefuseInv,
     RenameRewriteInv, RenameOldparentInv, RenameDotdotInv, RenameUnlinkInv, RenameBadInv
     DEF RenameStep
<1>4. CASE \E i \in Inos : Inactive(i) \/ Fsync(i)
  BY <1>4, InactiveInv, FsyncInv
<1>5. CASE UNCHANGED vars
  BY <1>5, NothingInv DEF vars, tree, NoFault
<1>6. QED BY <1>1, <1>2, <1>3, <1>4, <1>5 DEF Next, Stopped

\* At every step of every call the types hold, the accounts are kept and the call's
\* arguments are what it has checked.
THEOREM VnopsInvariant == Spec => [](TypeOK /\ IInv)
<1>1. QED BY InitInv, NextInv, PTL DEF Spec

\* Between the calls of ext2_vnops.c the link count of every inode is the number of entries
\* that refer to it; after a failed write it may be more, and it is never less.  Excepted is
\* what `stray` marks, here and below: a write that was made and reported as failed, and a
\* rename within one directory that removed another entry than one of its own.
THEOREM LinksCounted == Spec => []LinkCounts
<1>1. ASSUME TypeOK, IInv PROVE LinkCounts
  <2> SUFFICES ASSUME Idle, NEW i \in used
               PROVE  /\ faults = 0 /\ core[i].nlink > 0 => core[i].nlink = Refs(i)
                      /\ core[i].nlink >= Refs(i) \/ NamesOf(i) = {}
    BY DEF LinkCounts
  <2>1. i \in Inos
    BY <1>1 DEF TypeOK
  <2>2. Counted(i) /\ Owed(i) = 0 /\ core[i].nlink \in Int
    BY <1>1, <2>1, IdleFacts DEF TreeInv
  <2>3. Refs(i) \in Int
    BY RefsLow
  <2>4. CASE core[i].nlink = 0
    BY <2>2, <2>4 DEF Counted
  <2>5. CASE core[i].nlink # 0
    <3> DEFINE l == core[i].nlink
               R == Refs(i)
    <3>1. l - R - 0 >= 0 /\ (faults = 0 => l - R - 0 = 0)
      BY <2>2, <2>5 DEF Counted, Slack
    <3>2. l \in Int /\ R \in Int
      BY <2>2, <2>3
    <3> HIDE DEF l, R
    <3>3. l >= R /\ (faults = 0 => l = R)
      BY <3>1, <3>2
    <3>4. QED BY <3>3 DEF l, R
  <2>6. QED BY <2>4, <2>5
<1>2. QED BY <1>1, VnopsInvariant, PTL

\* Whenever the machine stops, no name on the disk is that of an inode that is free or was
\* never written: ext2_update() comes before ext2_direnter(), ext2_dirremove() before
\* ext2_vfree(); up to the two cases that `stray` marks.
THEOREM NamesOnDisk == Spec => []DiskNamesInode
<1>1. ASSUME TypeOK, IInv PROVE DiskNamesInode
  <2> SUFFICES ASSUME ~stray, NEW d \in Inos, NEW n \in Names, ent[d][n] # NoIno
               PROVE  /\ ent[d][n] \in used /\ disk[ent[d][n]].mode = core[ent[d][n]].mode
                      /\ disk[ent[d][n]].nlink > 0
    BY DEF DiskNamesInode
  <2>1. TreeInv /\ FreeInv
    BY <1>1 DEF IInv
  <2>2. ent[d][n] \in used
    BY <1>1, <2>1, NamedLive DEF TreeInv
  <2>3. Written(ent[d][n])
    BY <2>1 DEF TreeInv, DiskInv
  <2>4. QED BY <2>2, <2>3 DEF Written
<1>2. QED BY <1>1, VnopsInvariant, PTL

\* Of the panics of ext2_rename(), "linked directory" is never reached, and "mangled dir"
\* only by a directory that is moved into the root of a volume without FTYPE, in a tree that is
\* not `stray`.
THEOREM PanicOnlyWithoutFtype == Spec => []NoPanic
<1>1. ASSUME TypeOK, IInv PROVE NoPanic
  <2> SUFFICES ASSUME call.pc = "panic"
               PROVE  ~ftype /\ Doingdirectory /\ Newparent /\ call.td = Root
    BY DEF NoPanic
  <2>1. call.op = "rename"
    BY <1>1 DEF IInv, CallInv, TypeOK, Calls
  <2>2. QED BY <1>1, <2>1 DEF IInv, RenameInv
<1>2. QED BY <1>1, VnopsInvariant, PTL

\* A directory with a name has it in the directory that its ".." names, and no other name,
\* whatever was renamed, within a directory too if the entry that goes is one of the file's.
Parented ==
  Idle => \A i \in Inos, a, b \in Inos, m, k \in Names :
            IsDir(i) /\ ent[a][m] = i /\ ent[b][k] = i => dotdot[i] = a /\ a = b /\ m = k
THEOREM OneParent == Spec => []Parented
<1>1. ASSUME TypeOK, IInv PROVE Parented
  <2> SUFFICES ASSUME Idle, NEW i \in Inos, NEW a \in Inos, NEW b \in Inos,
                      NEW m \in Names, NEW k \in Names,
                      IsDir(i), ent[a][m] = i, ent[b][k] = i
               PROVE  dotdot[i] = a /\ a = b /\ m = k
    BY DEF Parented
  <2>1. TreeInv /\ \A j, e, o : ~Away(j, e, o)
    BY <1>1, IdleFacts
  <2>2. QED BY <2>1 DEF TreeInv, Home, Once
<1>2. QED BY <1>1, VnopsInvariant, PTL

\* No step takes the last name of the file that is being renamed, nor empties the entry that
\* it is to get.
LEMMA StepKeepsName ==
  ASSUME TypeOK, IInv, [Next]_vars, call.op = "rename"
  PROVE  /\ \E d \in Inos, n \in Names : ent'[d][n] = call.ip
         /\ ent[call.td][call.tn] # NoIno /\ (Newparent \/ call.pc # "unlink") =>
              ent'[call.td][call.tn] # NoIno
<1>0. CallInv /\ RenameInv /\ call \in Calls /\ Types
  BY DEF IInv, TypeOK, Types
<1>1. PICK t \in Inos, d \in Inos, n \in Names, td \in Inos, tn \in Names :
        t = call.ip /\ d = call.d /\ n = call.n /\ td = call.td /\ tn = call.tn
  BY <1>0 DEF CallInv, TypeOK, Calls
<1>2. ent[d][n] = t /\ (d # td \/ n # tn) /\ ~Idle /\ t # NoIno
  BY <1>0, <1>1, VnopsAssumption DEF RenameInv, CallInv, Idle
<1>3. CASE ent'[d][n] = ent[d][n] /\ ent'[td][tn] \in {ent[td][tn], t}
  BY <1>1, <1>2, <1>3
<1>4. CASE UNCHANGED ent
  BY <1>3, <1>4
<1>5. CASE ent' = Entry(td, tn, t)
  <2>1. ent'[td][tn] = t /\ ent'[d][n] = ent[d][n]
    BY <1>0, <1>2, <1>5, EntryTypes
  <2>2. QED BY <1>3, <2>1
<1>6. CASE RenameStep
  <2>1. CASE RenameUnlink
    <3>1. CASE ent' = ent
      BY <1>4, <3>1
    <3>2. CASE ent' \in Removals
      <4>1. /\ ent[td][tn] = t /\ call.op = "rename" /\ call.pc = "unlink"
            /\ Newparent <=> d # td
        BY <1>0, <1>1, <2>1 DEF RenameUnlink, RenameInv, Newparent
      <4>2. CASE ent' = ent
        BY <1>4, <4>2
      <4>3. ASSUME NEW k \in Names, ent' = Entry(d, k, NoIno), Newparent => k = n
            PROVE  /\ ent'[d][n] = t \/ ent'[td][tn] = t
                   /\ Newparent => ent'[td][tn] = t
        BY <1>0, <1>2, <4>1, <4>3, EntryTypes
      <4>4. ASSUME ent' # ent
            PROVE  \E k \in Names : ent' = Entry(d, k, NoIno) /\ (Newparent => k = n)
        BY <1>1, <3>2, <4>4 DEF Removals, Entry
      <4>5. CASE ent' # ent
        <5>1. /\ ent'[d][n] = t \/ ent'[td][tn] = t
              /\ Newparent => ent'[td][tn] = t
          BY <4>3, <4>4, <4>5
        <5>2. \E a \in Inos, m \in Names : ent'[a][m] = t
          BY <5>1
        <5>3. QED BY <1>1, <1>2, <4>1, <5>1, <5>2
      <4>6. QED BY <4>2, <4>5
    <3>3. QED BY <2>1, <3>1, <3>2 DEF RenameUnlink
  <2>2. CASE RenameEnter
    BY <1>1, <1>4, <1>5, <2>2 DEF RenameEnter, Direnter, Entry
  <2>3. CASE RenameRewrite
    BY <1>1, <1>4, <1>5, <2>3 DEF RenameRewrite, tree, Entry
  <2>4. CASE RenameCheckpath \/ RenameTarget \/ RenameRefuse \/ RenameOldparent \/ RenameDotdot
             \/ RenameBad
    BY <1>4, <2>4 DEF RenameCheckpath, RenameTarget, RenameRefuse, RenameOldparent,
       RenameDotdot, RenameBad, tree
  <2>5. QED BY <1>6, <2>1, <2>2, <2>3, <2>4 DEF RenameStep
<1>7. CASE \E i \in Inos : Inactive(i)
  <2>1. PICK i \in Inos : Inactive(i)
    BY <1>7
  <2>2. i # d /\ i # td /\ ent' = [ent EXCEPT ![i] = NoEntries]
    BY <1>1, <2>1 DEF Inactive
  <2>3. ent'[d][n] = ent[d][n] /\ ent'[td][tn] = ent[td][tn]
    BY <1>0, <2>2 DEF Types
  <2>4. QED BY <1>3, <2>3
<1>8. CASE \E i \in Inos : Fsync(i)
  BY <1>4, <1>8 DEF Fsync, Flush, tree
<1>9. CASE UNCHANGED vars
  BY <1>4, <1>9 DEF vars, tree
<1>10. CASE \E a \in Inos, m \in Names :
             \/ \E op \in {"makeinode", "mkdir"} : Makeinode(op, a, m)
             \/ \E i \in Inos : Link(i, a, m)
             \/ Remove(a, m)
             \/ Rmdir(a, m)
             \/ \E b \in Inos, k \in Names : Rename(a, m, b, k)
  <2>1. ASSUME NEW a \in Inos, NEW m \in Names
        PROVE  /\ \A op \in {"makeinode", "mkdir"} : ~Makeinode(op, a, m)
               /\ \A i \in Inos : ~Link(i, a, m)
               /\ ~Remove(a, m) /\ ~Rmdir(a, m)
               /\ \A b \in Inos, k \in Names : ~Rename(a, m, b, k)
    <3>1. \A op \in {"makeinode", "mkdir"} : ~Makeinode(op, a, m)
      BY <1>2, Zenon DEF Makeinode
    <3>2. \A i \in Inos : ~Link(i, a, m)
      BY <1>2, Zenon DEF Link
    <3>3. ~Remove(a, m) /\ ~Rmdir(a, m)
      BY <1>2, Zenon DEF Remove, Rmdir
    <3>4. \A b \in Inos, k \in Names : ~Rename(a, m, b, k)
      BY <1>2, Zenon DEF Rename
    <3>5. QED BY <3>1, <3>2, <3>3, <3>4
  <2>2. QED BY <1>10, <2>1
<1>11. ~NewName
  BY DEF NewName, MakeinodeInit, MkdirInit, MkdirParent, MkdirFill, Enter, Bad, Create, Mknod,
     Symlink, Made
<1>12. QED BY <1>6, <1>7, <1>8, <1>9, <1>10, <1>11 DEF Next, Stopped

\* "Best we can do is always guarantee the target exists": through every failure and every
\* order of steps, and whatever entry the last step removes, a file has a name throughout its
\* rename; and a name that it is to replace stays, up to the last step of a rename within
\* one directory.
THEOREM AlwaysNamed == Spec => RenameKeepsName
<1>1. TypeOK /\ IInv /\ [Next]_vars =>
        [call.op = "rename" =>
           /\ \E d \in Inos, n \in Names : ent'[d][n] = call.ip
           /\ ent[call.td][call.tn] # NoIno /\ (Newparent \/ call.pc # "unlink") =>
                ent'[call.td][call.tn] # NoIno]_vars
  BY StepKeepsName
<1>2. QED BY <1>1, VnopsInvariant, PTL DEF Spec, RenameKeepsName
=============================================================================
