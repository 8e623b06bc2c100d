---------------------------- MODULE MCExt2Vnops ----------------------------
(***************************************************************************)
(* A root directory and three more inodes, which may be exchanged.         *)
(***************************************************************************)
EXTENDS Ext2Vnops, TLC

CONSTANTS i1, i2, i3

MCInos   == {Root, i1, i2, i3}
Symmetry == Permutations({i1, i2, i3})
=============================================================================
