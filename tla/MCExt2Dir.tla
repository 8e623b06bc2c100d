------------------------------ MODULE MCExt2Dir ------------------------------
(***************************************************************************)
(* Blocks of five units, of which "." and ".." leave three in the first,   *)
(* and names of one, one, two and three: they do not fit into one block,   *)
(* so the directory grows and shrinks, and gaps have to be moved together, *)
(* between entries in use and behind an unused first one.                  *)
(***************************************************************************)
EXTENDS Ext2Dir

MCLen == [n \in AllNames |-> CASE n = "long"   -> 2
                               [] n = "longer" -> 3
                               [] OTHER        -> 1]

\* What is left of an entry that was removed is never read again, and what a lookup
\* left in the inode is read by the call that follows it only: states that differ
\* in no more than that are taken for one.
View == <<[o \in Starts |-> dir[o]], size, i_diroff, pc, loc, faults, torn,
          IF \E t \in Threads : pc[t] \in ChangePcs THEN hint ELSE <<>> >>
=============================================================================
