----------------------------- MODULE MCExt2File -----------------------------
(***************************************************************************)
(* A file with one direct and two indirect pointers on a small disk.       *)
(* Lengths end before, within and behind the blocks of each pointer.       *)
(***************************************************************************)
EXTENDS Ext2File

MCBlocks  == 1..5
MCLengths == {0, 1, 5, 8, 11}
=============================================================================
