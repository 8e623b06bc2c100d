------------------------------- MODULE SlotPool -------------------------------
(***************************************************************************)
(* What the allocator promises the rest of the file system: a pool of      *)
(* slots (blocks, inodes), each free, held by a thread that is allocating  *)
(* or freeing it, or lent to a file.  A slot goes from one to the next and *)
(* back, one slot at a time; so it is lent to one file at a time, a slot   *)
(* in use is never taken, and none becomes free while a file has it.       *)
(***************************************************************************)
CONSTANT Pool
VARIABLE state     \* state[s]: "free", "held" or "lent"

Init == state = [s \in Pool |-> "free"]

Move(s, from, to) == /\ state[s] = from
                     /\ state' = [state EXCEPT ![s] = to]

Take(s)    == Move(s, "free", "held")   \* its bit is set in the bitmap
Lend(s)    == Move(s, "held", "lent")   \* the caller stores it in an inode
GiveUp(s)  == Move(s, "lent", "held")   \* the file drops its pointer
Release(s) == Move(s, "held", "free")   \* its bit is cleared

Next == \E s \in Pool : Take(s) \/ Lend(s) \/ GiveUp(s) \/ Release(s)

Spec == Init /\ [][Next]_state
=============================================================================
