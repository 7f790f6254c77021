---------------------------- MODULE MCCheckQueue ----------------------------
(* CheckQueue on small instances. *)
EXTENDS CheckQueue

CONSTANT Small      \* tasks whose reports end with one result at most

MCSizes == [t \in Tasks |-> IF t \in Small THEN 0..1 ELSE 0..MaxResults]

=============================================================================
