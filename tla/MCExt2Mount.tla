---------------------------- MODULE MCExt2Mount ----------------------------
(***************************************************************************)
(* Two groups, so that an error of the first descriptor's write can be     *)
(* covered up by the second, with one block each.                          *)
(***************************************************************************)
EXTENDS Ext2Mount
=============================================================================
