-------------------------- MODULE MCExt2IhashLive --------------------------
(***************************************************************************)
(* Two threads and two inodes compete for one vnode, which is recycled any *)
(* number of times under the walks of ext2_ihashget(): after the last of   *)
(* its identifiers it gets the first one again, as those of the kernel do  *)
(* that are of 32 bits.                                                    *)
(***************************************************************************)
EXTENDS Ext2Ihash

MCMaxVid == [v \in Vnodes |-> 1]

ReclaimLast(v) ==
  /\ vn[v].st = "term" /\ v \notin hashed /\ vn[v].id = MaxVid[v]
  /\ vn' = [vn EXCEPT ![v] = FreeVnode(0)]
  /\ ip' = [ip EXCEPT ![v] = NoInode]
  /\ UNCHANGED <<used, disk, hashed, pc, loc>>

MCNext == Next \/ \E v \in Vnodes : ReclaimLast(v)
MCSpec == Init /\ [][MCNext]_vars /\ Fairness
=============================================================================
