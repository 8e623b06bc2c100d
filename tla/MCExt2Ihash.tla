---------------------------- MODULE MCExt2Ihash ----------------------------
(***************************************************************************)
(* Two threads, two inodes and two vnodes, one of which is used a second   *)
(* time: enough for two threads to build the same inode at once, and for a *)
(* vnode to become another inode's between the walk of the chain and       *)
(* vnode_getwithvid().                                                     *)
(***************************************************************************)
EXTENDS Ext2Ihash, TLC

CONSTANTS v1, v2

MCMaxVid == v1 :> 1 @@ v2 :> 0
=============================================================================
