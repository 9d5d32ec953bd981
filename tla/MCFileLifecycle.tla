-------------------------- MODULE MCFileLifecycle --------------------------
(* FileLifecycle on small instances.                                       *)
EXTENDS FileLifecycle, TLC

CONSTANTS f1, r1, r2

(* Two deletions of the one file, which are interchangeable, or just one.  *)
SameTarget == r1 :> f1 @@ r2 :> f1
OneTarget  == r1 :> f1

RequestSymmetry == Permutations(Requests)
=============================================================================
