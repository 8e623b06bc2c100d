---------------------------- MODULE MCAllocSearch ----------------------------
(***************************************************************************)
(* Bitmaps of three bytes, made of bytes whose runs of free bits lie at    *)
(* the low end, the high end, both, in the middle or nowhere, so that runs *)
(* of seven, eight and nine cross a byte boundary.  FirstDblock is 1, as   *)
(* with 1 KB blocks, so that the offset passed to dtogd() twice differs;   *)
(* the goals lie on both sides of every byte boundary, in group 1 (the one *)
(* searched) and in its neighbours.                                        *)
(***************************************************************************)
EXTENDS AllocSearch

MCBytes == {{}, 0..7, {0}, {7}, 0..3, 4..7, 1..6, {3, 4}}
MCGoals == {0, 1, 2, 9, 12, 20, 24} \cup {25 + b : b \in {0, 1, 7, 8, 15, 16, 17, 23, 24}}
=============================================================================
