----------------------------- MODULE MCGvmTask -----------------------------
(* GvmTask on small instances. *)
EXTENDS GvmTask, TLC

\* Names are interchangeable.
NameSymmetry == Permutations(Names)

=============================================================================
