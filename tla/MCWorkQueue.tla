---------------------------- MODULE MCWorkQueue ----------------------------
(* WorkQueue on small instances.                                           *)
EXTENDS WorkQueue, TLC

CONSTANTS i1, i2, i3, p1, p2

(* Items and pods are interchangeable in the runs that check safety only;  *)
(* the unparseable item is left out of the symmetry.                       *)
PodSymmetry == Permutations(Pods)
=============================================================================
