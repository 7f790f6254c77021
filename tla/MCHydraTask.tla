---------------------------- MODULE MCHydraTask ----------------------------
(* HydraTask on small instances. *)
EXTENDS HydraTask, TLC

\* Names are interchangeable.
NameSymmetry == Permutations(HNames)

=============================================================================
