----------------------------- MODULE MCDatabase -----------------------------
(* Instances of Database for TLC. *)
EXTENDS Database, TLC

Symmetry == Permutations(Queries)
AllCalls == CallNames
=============================================================================
