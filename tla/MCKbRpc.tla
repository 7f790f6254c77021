------------------------------- MODULE MCKbRpc -------------------------------
(* KbRpc on small instances. *)
EXTENDS KbRpc, TLC

\* Requests are interchangeable.
ReqSymmetry == Permutations(Reqs)

=============================================================================
