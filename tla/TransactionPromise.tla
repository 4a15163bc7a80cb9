------------------------- MODULE TransactionPromise -------------------------
(***************************************************************************)
(* What a Lua program may rely on when it runs transactions on a database: *)
(* the report it gets of each transaction is true, and remains true.       *)
(*                                                                         *)
(* Transactions are executed one after another.  An effect <<r, c>> is     *)
(* what child c of the r-th transaction changes in the database, once it   *)
(* is committed.                                                           *)
(***************************************************************************)
EXTENDS Naturals, Sequences

CONSTANT N                  \* children of a transaction

VARIABLES reports,          \* the reports of the transactions so far
          durable           \* the effects that are committed

Verdicts == {"success", "rolledBack", "aborted", "failed", "unknown"}

Effects(r) == {r} \X (1..N)

\* The verdicts that promise all of a transaction, and those that promise
\* none of it.  "unknown" promises nothing.
All  == {"success"}
None == {"rolledBack", "aborted", "failed"}

Init == reports = <<>> /\ durable = {}

\* The transaction not yet reported takes effect, in part if a child ends it.
TakeEffect ==
  /\ \E E \in SUBSET Effects(Len(reports) + 1) : durable' = durable \union E
  /\ UNCHANGED reports

Report(v) ==
  /\ v \in All => Effects(Len(reports) + 1) \subseteq durable
  /\ v \in None => Effects(Len(reports) + 1) \cap durable = {}
  /\ reports' = Append(reports, v)
  /\ UNCHANGED durable

Next == TakeEffect \/ \E v \in Verdicts : Report(v)

Spec == Init /\ [][Next]_<<reports, durable>>
=============================================================================
