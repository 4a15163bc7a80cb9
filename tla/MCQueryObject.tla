---------------------------- MODULE MCQueryObject ----------------------------
(* An instance of QueryObject for TLC: one query, which one transaction may   *)
(* stage.                                                                     *)
EXTENDS QueryObject
=============================================================================
