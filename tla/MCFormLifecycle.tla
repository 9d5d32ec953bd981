-------------------------- MODULE MCFormLifecycle --------------------------
(* FormLifecycle on small instances.                                       *)
EXTENDS FormLifecycle

CONSTANTS r1, r2, r3, lock1, lock2, delete1
=============================================================================
