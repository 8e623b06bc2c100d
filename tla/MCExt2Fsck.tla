------------------------------ MODULE MCExt2Fsck ------------------------------
EXTENDS Ext2Fsck

\* 1 is the root, 2 lost+found, 3 a directory, 4 and 5 files, 4 with two names.
Dino(m, n, b) == [mode |-> m, nlink |-> n, dtime |-> FALSE, size |-> 1, blk |-> b, nblock |-> 1]
Ent(i) == [nm |-> "name", ino |-> i]
Es(a, b, c) == <<a, b, c>>
Lf == [nm |-> "lost+found", ino |-> 2]
Block1(i, dd, es) == [ok |-> TRUE, dot |-> i, dotdot |-> dd, e |-> es]

Flat ==
  [boot |-> TRUE,
   ino |-> <<Dino("dir", 4, 2), Dino("dir", 2, 3), Dino("dir", 2, 4), Dino("reg", 2, 5),
             Dino("reg", 1, 6), Zino>>,
   dir |-> <<Garbage, Block1(1, 1, Es(Lf, Ent(3), Ent(4))), Block1(2, 1, Es(NoEnt, NoEnt, NoEnt)),
             Block1(3, 1, Es(Ent(5), Ent(4), NoEnt)), Garbage, Garbage, Garbage, Garbage>>,
   bbm |-> 1..6, ibm |-> 1..5, ndirs |-> 3, fb |-> 2, fi |-> 1, clean |-> FALSE]

\* 5 is a directory in 3.
Deep ==
  [Flat EXCEPT !.ino[3].nlink = 3, !.ino[5] = Dino("dir", 2, 6),
               !.dir[6] = Block1(5, 3, Es(NoEnt, NoEnt, NoEnt)), !.ndirs = 4]
\* There is no lost+found.
NoLf ==
  [Flat EXCEPT !.ino[1].nlink = 3, !.ino[2] = Zino, !.dir[2].e[1] = NoEnt, !.dir[3] = Garbage,
               !.bbm = @ \ {3}, !.ibm = @ \ {2}, !.ndirs = 2, !.fb = 3, !.fi = 2]
MCTrees == {Deep, NoLf}

\* One damaged field: three runs and an interrupt; two: one run.
MCMaxRuns  == (0 :> 3) @@ (1 :> 3) @@ (2 :> 1)
MCMaxStops == (0 :> 1) @@ (1 :> 1) @@ (2 :> 0)

ASSUME TreesConsistent == \A t \in MCTrees : Consistent(t)
=============================================================================
