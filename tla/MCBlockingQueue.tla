--------------------------- MODULE MCBlockingQueue ---------------------------
(* An instance of BlockingQueue for TLC: two threads that call, one that     *)
(* takes, as a database has, and one more.                                   *)
EXTENDS BlockingQueue
=============================================================================
