----------------------------- MODULE MCExt2Alloc -----------------------------
(***************************************************************************)
(* A small file system for TLC: three groups, so that all three loops of   *)
(* ext2_hashalloc run.  Group 0 has two free blocks, so that two threads   *)
(* can be after the same bit, and the only free inode is group 2's, so     *)
(* that searches have to move on; all else newfs has reserved.             *)
(***************************************************************************)
EXTENDS Ext2Alloc

MCReserved ==
  [c \in Cells |-> IF c \in {<<"block", 0>>, <<"inode", 2>>} THEN {} ELSE Bits(c)]
=============================================================================
