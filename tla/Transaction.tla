----------------------------- MODULE Transaction -----------------------------
(***************************************************************************)
(* The execution of transactions (Transaction::executeStatement) on the    *)
(* session of one database, while the Lua thread asks to cancel them.      *)
(*                                                                         *)
(* Database.tla has an execution run as one statement; this module is what *)
(* happens inside that statement when the execution is a transaction: its  *)
(* BEGIN, its children in turn, its COMMIT or ROLLBACK, and the catch      *)
(* clauses that settle the results of the children and of the transaction. *)
(* The transaction is number 0, its children are 1..N.  Transactions are   *)
(* executed one after another ("round"), so that what one leaves behind in *)
(* the session, or in a cancel request on its way, meets the next.         *)
(***************************************************************************)
EXTENDS Naturals, Sequences

CONSTANTS N,        \* children of a transaction
          Rounds,   \* bound: transactions executed
          AfterEnd  \* session states after a child that ends the transaction:
                    \* "idle", and "open" when it chains another one

ASSUME NAssumption      == N \in Nat
ASSUME RoundsAssumption == Rounds \in Nat
ASSUME AfterEndAssumption == AfterEnd \subseteq {"idle", "open"}

Children == 1..N
Targets  == 0..N

VARIABLES
  (* The worker thread: *)
  pc,           \* where it is in executeStatement
  child,        \* the child it has in hand
  thrown,       \* the exception on its way up
  (* IQueryData, of the transaction and of its children: *)
  status,       \* m_status
  result,       \* m_resultStatus
  finished,     \* those whose finished flag is set
  cancelReq,    \* those whose cancellationRequested flag is set
  error,        \* the kind of m_errorText of the transaction
  (* ActiveQueryState: *)
  active,       \* activeData and activeConnection are set
  alias,        \* activeAliases
  (* The Lua thread: *)
  cancelling,   \* <<target, round>> while it is in PQcancel, else <<>>
  (* The PostgreSQL server: *)
  session,      \* PQtransactionStatus, or "lost"
  interrupt,    \* a cancel request reached the backend executing now
  work,         \* effects of the open transaction
  durable,      \* effects that were committed
  (* History: *)
  reports,      \* what was reported of the transactions before this one
  asked         \* Lua asked to cancel this one, or a child of it

dataVars   == <<status, result, finished, cancelReq, error>>
activeVars == <<active, alias>>
serverVars == <<session, interrupt, work, durable>>
luaVars    == <<cancelling, asked>>
vars == <<pc, child, thrown, dataVars, activeVars, serverVars, luaVars, reports>>

Statuses == {"NOT_RUNNING", "WAITING", "RUNNING", "COMPLETE", "ABORTED"}
Results  == {"NONE", "ERROR", "SUCCESS"}
Thrown   == {"none", "error", "cancelled", "lost"}

\* Where the backend executes a statement of the transaction.
Executing == {"begin", "exec", "commit", "rollback"}

PCs == Executing \union
  {"queued", "child", "check", "unalias", "caught", "settle", "unwind",
   "unwindChild", "unwindEnd", "unguard", "classify", "report"}

round      == Len(reports) + 1
Verdicts   == {"success", "rolledBack", "aborted", "failed", "unknown"}
AllEffects == (1..(Rounds + 1)) \X Children

TypeOK ==
  /\ pc \in PCs
  /\ child \in 1..(N + 1)
  /\ thrown \in Thrown
  /\ status \in [Targets -> Statuses] /\ result \in [Targets -> Results]
  /\ finished \subseteq Targets /\ cancelReq \subseteq Targets
  /\ error \in {"none", "unknown", "rolledBack"}
  /\ active \in BOOLEAN /\ alias \subseteq Children
  /\ cancelling = <<>> \/ cancelling \in Targets \X (1..(Rounds + 1))
  /\ session \in {"idle", "open", "failed", "lost"}
  /\ interrupt \in BOOLEAN
  /\ work \subseteq AllEffects /\ durable \subseteq AllEffects
  /\ reports \in Seq(Verdicts) /\ Len(reports) <= Rounds
  /\ asked \in BOOLEAN

\* A TransactionData, with the QueryData of its children, as start() leaves it.
FreshStatus == [t \in Targets |-> IF t = 0 THEN "WAITING" ELSE "NOT_RUNNING"]
FreshResult == [t \in Targets |-> "NONE"]

Init ==
  /\ pc = "queued" /\ child = 1 /\ thrown = "none"
  /\ status = FreshStatus /\ result = FreshResult
  /\ finished = {} /\ cancelReq = {} /\ error = "none"
  /\ active = FALSE /\ alias = {} /\ cancelling = <<>>
  /\ session = "idle" /\ interrupt = FALSE /\ work = {} /\ durable = {}
  /\ reports = <<>> /\ asked = FALSE

Goto(from, to) == pc = from /\ pc' = to

-----------------------------------------------------------------------------
(* Cancellation, on the Lua thread. *)

\* tx:abort() or child:abort(): ActiveQueryState::cancel up to the release of
\* its mutex.
RequestCancel(t) ==
  /\ cancelling = <<>>
  /\ status[t] = "RUNNING"
  /\ active
  /\ t = 0 \/ t \in alias
  /\ cancelReq' = cancelReq \union {t}
  /\ cancelling' = <<t, round>>
  /\ asked' = TRUE
  /\ UNCHANGED <<pc, child, thrown, status, result, finished, error, activeVars,
                 serverVars, reports>>

\* PQcancel reaches the backend, whatever it executes by now ...
CancelSent ==
  /\ cancelling # <<>>
  /\ interrupt' = (interrupt \/ pc \in Executing)
  /\ cancelling' = <<>>
  /\ UNCHANGED <<pc, child, thrown, dataVars, activeVars, session, work, durable,
                 asked, reports>>

\* ... or fails, and the flag of the execution it was for is taken back.
CancelFailed ==
  /\ cancelling # <<>>
  /\ cancelReq' = IF cancelling[2] = round THEN cancelReq \ {cancelling[1]}
                  ELSE cancelReq
  /\ cancelling' = <<>>
  /\ UNCHANGED <<pc, child, thrown, status, result, finished, error, activeVars,
                 serverVars, asked, reports>>

-----------------------------------------------------------------------------
(* run() and runQuery(), up to executeStatement. *)

\* A session that was lost is connected again, or is not.
Start ==
  /\ Goto("queued", "begin")
  /\ status' = [status EXCEPT ![0] = "RUNNING"]
  /\ session' = IF session = "lost" THEN "idle" ELSE session
  /\ active' = TRUE
  /\ UNCHANGED <<child, thrown, result, finished, cancelReq, error, alias,
                 interrupt, work, durable, luaVars, reports>>

OpenFails ==
  /\ session = "lost"
  /\ Goto("queued", "classify")
  /\ status' = [status EXCEPT ![0] = "RUNNING"]
  /\ thrown' = "lost"
  /\ UNCHANGED <<child, result, finished, cancelReq, error, activeVars,
                 serverVars, luaVars, reports>>

-----------------------------------------------------------------------------
(* executeStatement: the statements it sends, and how the server answers. *)

\* The server ends the statement it executes, in the session state s.
Answer(from, to, s) ==
  /\ Goto(from, to)
  /\ session' = s
  /\ interrupt' = FALSE
  /\ UNCHANGED <<status, result, finished, cancelReq, active, luaVars, reports>>

\* The exception a statement that failed with o is thrown as.
Throw(o) ==
  /\ o = "cancelled" => interrupt
  /\ thrown' = o
  /\ work' = {}

\* An error inside a transaction fails it; outside, it changes nothing.  One of
\* class 08 that the server reports is thrown as the loss of the connection is.
AfterError(o) ==
  {IF session \in {"idle", "lost"} THEN session ELSE "failed"}
  \union (IF o = "lost" THEN {"lost"} ELSE {})

BeginOk ==
  /\ session # "failed"
  /\ Answer("begin", "child", "open")
  /\ UNCHANGED <<child, thrown, error, alias, work, durable>>

BeginFails(o) ==
  /\ Throw(o)
  /\ \E s \in AfterError(o) : Answer("begin", "unwind", s)
  /\ UNCHANGED <<child, error, alias, durable>>

\* executeInTransaction: the next child ...
StartChild ==
  /\ child <= N
  /\ Goto("child", "exec")
  /\ status' = [status EXCEPT ![child] = "RUNNING"]
  /\ alias' = {child}
  /\ UNCHANGED <<child, thrown, result, finished, cancelReq, error, active,
                 serverVars, luaVars, reports>>

\* ... or COMMIT.
NoMoreChildren ==
  /\ child > N
  /\ Goto("child", "commit")
  /\ UNCHANGED <<child, thrown, dataVars, activeVars, serverVars, luaVars, reports>>

ChildOk ==
  /\ Answer("exec", "check", "open")
  /\ work' = work \union {<<round, child>>}
  /\ UNCHANGED <<child, thrown, error, alias, durable>>

\* SQL that the test of the leading keyword does not recognise ends the
\* transaction: it commits what went before, or does not; COMMIT AND CHAIN and
\* ROLLBACK AND CHAIN leave another one open.
ChildEndsIt ==
  /\ \E s \in AfterEnd : Answer("exec", "check", s)
  /\ durable' = durable \/ durable' = durable \union work
  /\ work' = {}
  /\ UNCHANGED <<child, thrown, error, alias>>

\* isTransactionControlSql: nothing is sent.
ChildRejected ==
  /\ Answer("exec", "unalias", session)
  /\ thrown' = "error"
  /\ UNCHANGED <<child, error, alias, work, durable>>

ChildFails(o) ==
  /\ Throw(o)
  /\ \E s \in AfterError(o) : Answer("exec", "unalias", s)
  /\ UNCHANGED <<child, error, alias, durable>>

\* COPY resets the connection, which rolls back.
ChildCopies ==
  /\ Throw("lost")
  /\ \E s \in {"idle", "lost"} : Answer("exec", "unalias", s)
  /\ UNCHANGED <<child, error, alias, durable>>

\* PQtransactionStatus after the child, and its alias is removed.
CheckStatus ==
  /\ IF session = "open"
     THEN Goto("check", "child") /\ child' = child + 1 /\ UNCHANGED <<thrown, error>>
     ELSE Goto("check", "caught") /\ thrown' = "error" /\ error' = "unknown"
          /\ UNCHANGED child
  /\ alias' = alias \ {child}
  /\ UNCHANGED <<status, result, finished, cancelReq, active, serverVars, luaVars, reports>>

Unalias ==
  /\ Goto("unalias", "caught")
  /\ alias' = alias \ {child}
  /\ UNCHANGED <<child, thrown, dataVars, active, serverVars, luaVars, reports>>

\* A connection lost before the end: "outcome unknown", for the children and
\* for the transaction.
OutcomeUnknown ==
  /\ result' = [t \in Targets |-> "ERROR"]
  /\ status' = [t \in Targets |-> IF t = 0 THEN status[0] ELSE "COMPLETE"]
  /\ finished' = finished \union Children
  /\ error' = "unknown"

\* The catch clauses around executeInTransaction.
CaughtLost ==
  /\ thrown = "lost"
  /\ Goto("caught", "unwind")
  /\ OutcomeUnknown
  /\ UNCHANGED <<child, thrown, cancelReq, activeVars, serverVars, luaVars, reports>>

CaughtOther(to) ==
  /\ thrown # "lost"
  /\ Goto("caught", to)
  /\ UNCHANGED <<child, thrown, dataVars, activeVars, serverVars, luaVars, reports>>
LeaveOpen == CaughtOther("unwind")     \* mutant: no ROLLBACK
RollBack  == CaughtOther("rollback")

RollbackOk ==
  /\ Answer("rollback", "unwind", IF session = "lost" THEN "lost" ELSE "idle")
  /\ work' = {}
  /\ UNCHANGED <<child, thrown, error, alias, durable>>

\* What ROLLBACK throws is swallowed.
RollbackFails(o) ==
  /\ o = "cancelled" => interrupt
  /\ \E s \in AfterError(o) : Answer("rollback", "unwind", s)
  /\ work' = {}
  /\ UNCHANGED <<child, thrown, error, alias, durable>>

CommitOk ==
  /\ Answer("commit", "settle", "idle")
  /\ durable' = durable \union work
  /\ work' = {}
  /\ UNCHANGED <<child, thrown, error, alias>>

\* A deferred constraint fails, or COMMIT is cancelled: the server rolls back.
CommitFails(o) ==
  /\ Throw(o)
  /\ Answer("commit", "unwind", "idle")
  /\ UNCHANGED <<child, error, alias, durable>>

\* The connection is lost during COMMIT, which the server carries out or not; or
\* a deferred trigger reports an error of class 08, and the server rolls back.
CommitLost ==
  /\ Goto("commit", "unwind")
  /\ OutcomeUnknown
  /\ \/ session' = "lost" /\ (durable' = durable \/ durable' = durable \union work)
     \/ session' = "idle" /\ durable' = durable
  /\ interrupt' = FALSE
  /\ Throw("lost")
  /\ UNCHANGED <<child, cancelReq, activeVars, luaVars, reports>>

-----------------------------------------------------------------------------
(* executeStatement and runQuery: the results. *)

\* COMMIT is done: every child has succeeded.
Settling(done) ==
  /\ Goto("settle", "unguard")
  /\ result' = [t \in Targets |-> "SUCCESS"]
  /\ status' = [t \in Targets |-> IF t = 0 THEN status[0] ELSE "COMPLETE"]
  /\ finished' = finished \union done
  /\ UNCHANGED <<child, thrown, cancelReq, error, activeVars, serverVars, luaVars, reports>>
SettleWaiting == Settling({})      \* mutant: the children are not finished
Settle        == Settling(Children)

\* The outer catch clause: a cancellation of a child is one of the whole.
Unwind ==
  /\ Goto("unwind", "unwindChild")
  /\ cancelReq' = cancelReq \union (IF cancelReq # {} THEN {0} ELSE {})
  /\ child' = 1
  /\ UNCHANGED <<thrown, status, result, finished, error, activeVars, serverVars,
                 luaVars, reports>>

\* Each child is settled by what the flag says when its turn comes.
UnwindChild ==
  /\ child <= N
  /\ Goto("unwindChild", "unwindChild")
  /\ LET r == IF 0 \in cancelReq THEN "NONE" ELSE "ERROR"
         s == IF 0 \in cancelReq THEN "ABORTED" ELSE "COMPLETE"
     IN IF 0 \in cancelReq \/ result[child] # "ERROR"
        THEN /\ result' = [result EXCEPT ![child] = r]
             /\ status' = [status EXCEPT ![child] = s]
        ELSE UNCHANGED <<result, status>>
  /\ finished' = finished \union {child}
  /\ child' = child + 1
  /\ UNCHANGED <<thrown, cancelReq, error, activeVars, serverVars, luaVars, reports>>

Ending(up) ==
  /\ child > N
  /\ Goto("unwindChild", "unguard")
  /\ thrown' = up
  /\ IF error # "unknown"
     THEN /\ result' = [result EXCEPT ![0] = "ERROR"]
          /\ error' = "rolledBack"
     ELSE UNCHANGED <<result, error>>
  /\ UNCHANGED <<child, status, finished, cancelReq, activeVars, serverVars, luaVars, reports>>
UnwindSwallows == Ending("none")    \* mutant: the exception is not thrown again
UnwindEnd      == Ending(thrown)

\* runQuery, when executeStatement returns; and ~Guard, when it throws too.
Succeed ==
  /\ thrown = "none"
  /\ Goto("unguard", "report")
  /\ active' = FALSE
  /\ alias' = {}
  /\ status' = [status EXCEPT ![0] = "COMPLETE"]
  /\ result' = [result EXCEPT ![0] = "SUCCESS"]
  /\ cancelReq' = cancelReq \ {0}
  /\ UNCHANGED <<child, thrown, finished, error, serverVars, luaVars, reports>>

Unguard ==
  /\ thrown # "none"
  /\ Goto("unguard", "classify")
  /\ active' = FALSE
  /\ alias' = {}
  /\ UNCHANGED <<child, thrown, dataVars, serverVars, luaVars, reports>>

\* The catch clauses of runQuery; after a lost connection, it may reconnect.
Classifying(requested) ==
  /\ Goto("classify", "report")
  /\ IF thrown = "cancelled" /\ requested
     THEN /\ status' = [status EXCEPT ![0] = "ABORTED"]
          /\ result' = [result EXCEPT ![0] = "NONE"]
          /\ UNCHANGED cancelReq
     ELSE /\ status' = [status EXCEPT ![0] = "COMPLETE"]
          /\ result' = [result EXCEPT ![0] = "ERROR"]
          /\ cancelReq' = cancelReq \ {0}
  /\ session' \in {session} \union (IF thrown = "lost" THEN {"idle", "lost"} ELSE {})
  /\ UNCHANGED <<child, thrown, finished, error, activeVars, interrupt, work,
                 durable, luaVars, reports>>
ClassifyAny == Classifying(TRUE)     \* mutant: any cancellation is an abort
Classify    == Classifying(0 \in cancelReq)

\* What the callback tells the Lua program.
VerdictRaw == result[0]     \* mutant: the result is reported, not the verdict
Verdict ==
  CASE status[0] = "ABORTED" -> "aborted"
    [] status[0] # "ABORTED" /\ result[0] = "SUCCESS" -> "success"
    [] status[0] # "ABORTED" /\ result[0] # "SUCCESS" /\ error = "none" -> "failed"
    [] OTHER -> error

\* The callback is delivered, and the next transaction is queued.
Report ==
  /\ Goto("report", "queued")
  /\ Len(reports) < Rounds
  /\ reports' = Append(reports, Verdict)
  /\ child' = 1
  /\ thrown' = "none"
  /\ status' = FreshStatus
  /\ result' = FreshResult
  /\ finished' = {}
  /\ cancelReq' = {}
  /\ error' = "none"
  /\ asked' = FALSE
  /\ UNCHANGED <<activeVars, serverVars, cancelling>>

-----------------------------------------------------------------------------
LuaStep == CancelSent \/ CancelFailed \/ \E t \in Targets : RequestCancel(t)

Statement ==
  \/ BeginOk \/ ChildOk \/ ChildEndsIt \/ ChildRejected \/ ChildCopies
  \/ RollbackOk \/ CommitOk \/ CommitLost
  \/ \E o \in {"error", "cancelled", "lost"} : BeginFails(o) \/ ChildFails(o)
  \/ \E o \in {"cancelled", "lost"} : RollbackFails(o)
  \/ \E o \in {"error", "cancelled"} : CommitFails(o)

Worker ==
  \/ Start \/ OpenFails \/ StartChild \/ NoMoreChildren \/ Statement
  \/ CheckStatus \/ Unalias \/ CaughtLost \/ RollBack
  \/ Settle \/ Unwind \/ UnwindChild \/ UnwindEnd \/ Succeed \/ Unguard \/ Classify \/ Report

Next == LuaStep \/ Worker

Spec == Init /\ [][Next]_vars

-----------------------------------------------------------------------------
(* What a program may rely on: the reports are true, and remain true. *)
Abstract == INSTANCE TransactionPromise
              WITH N <- N, reports <- reports, durable <- durable

\* Whatever was reported of a transaction is true when it is reported, and stays
\* so: a success is committed as a whole; nothing of a transaction reported
\* rolled back, aborted or failed takes effect, then or with a later transaction
\* (Transaction.cpp:18-85, 95-98).
ReportsAreTrue == Abstract!Spec

\* The children agree with their transaction on success: all of them have
\* succeeded when it has, and none when it has not (Transaction.cpp:56-61, 68-78).
ChildrenAgree ==
  pc = "report" => \A c \in Children : result[c] = "SUCCESS" <=> result[0] = "SUCCESS"

\* When a transaction is reported, nobody can be left waiting for a child of it:
\* each child that was started is finished, and has a result or was aborted
\* (Transaction.cpp:27-32, 45-50, 56-60, 68-78).
NoChildLeftWaiting ==
  pc = "report" => \A c \in Children : status[c] # "NOT_RUNNING" =>
    /\ c \in finished
    /\ status[c] = "ABORTED" \/ (status[c] = "COMPLETE" /\ result[c] # "NONE")

\* A transaction, or a child, is reported aborted only when Lua asked to cancel
\* this very transaction or a child of it (Transaction.cpp:63-71, Database.cpp:285).
AbortedOnlyIfAsked ==
  (\E t \in Targets : status[t] = "ABORTED") => asked

-----------------------------------------------------------------------------
(* What makes these inductive: where the worker is says what the transaction *)
(* in hand has done.                                                          *)

Own       == {round} \X Children
OfFirst(n) == {round} \X (1..n)
Untouched == durable \cap Own = {}

\* Steps at which executeStatement has not failed, and those at which an
\* exception is on its way.
Going == {"queued", "begin", "child", "exec", "check", "commit", "settle"}
Up    == {"unalias", "caught", "rollback", "unwind", "unwindChild", "classify"}

ChildInHand ==
  /\ pc \in {"queued", "begin"} => child = 1
  /\ pc \in {"exec", "check"} => child <= N
  /\ pc = "commit" => child = N + 1

ExceptionInFlight ==
  /\ pc \in Going => thrown = "none" /\ error = "none"
  /\ pc \in Up => thrown # "none"
  /\ pc = "unalias" => error = "none"
  /\ thrown = "cancelled" => error # "unknown"

\* The work of the open transaction is that of the children so far.
WorkInHand ==
  /\ durable \subseteq (1..round) \X Children
  /\ work \subseteq Own
  /\ pc \in {"child", "exec"} => work = OfFirst(child - 1)
  /\ pc = "check" => work = IF session = "open" THEN OfFirst(child) ELSE {}
  /\ pc = "commit" => work = Own
  /\ thrown = "lost" => work = {}
  /\ pc \notin {"child", "exec", "check", "commit", "unalias", "caught", "rollback"} =>
       work = {}

\* What has become of the transaction, as its report will have it.
FateKnown ==
  /\ pc \in Going \ {"check", "settle"} => Untouched
  /\ pc = "check" /\ session = "open" => Untouched
  /\ pc \in Up => Untouched \/ error = "unknown"
  /\ pc = "settle" => Own \subseteq durable
  /\ pc = "unguard" => IF thrown = "none" THEN Own \subseteq durable
                       ELSE Untouched \/ error = "unknown"
  /\ pc = "report" => IF result[0] = "SUCCESS" THEN Own \subseteq durable
                      ELSE Untouched \/ error = "unknown"
  /\ pc = "report" /\ status[0] = "ABORTED" => result[0] # "SUCCESS" /\ error # "unknown"

\* A child that was begun has been left with an outcome.
Settled(c) ==
  status[c] # "NOT_RUNNING" =>
    /\ c \in finished
    /\ status[c] = "ABORTED" \/ (status[c] = "COMPLETE" /\ result[c] # "NONE")

ChildrenSettled ==
  \A c \in Children :
    /\ pc \in {"queued", "begin"} => status[c] = "NOT_RUNNING"
    /\ pc \in Going \union {"unalias", "caught", "rollback"} => result[c] = "NONE"
    /\ pc \in {"unwind", "unwindChild"} =>
         result[c] # "SUCCESS" /\ (result[c] = "ERROR" => status[c] = "COMPLETE")
    /\ pc = "unwindChild" /\ c < child => Settled(c)
    /\ pc \in {"unguard", "classify", "report"} => Settled(c)
    /\ pc \in {"unguard", "classify"} => (result[c] = "SUCCESS" <=> thrown = "none")

CancelledOnlyIfAsked == cancelReq # {} => asked

IInv ==
  /\ TypeOK /\ ChildInHand /\ ExceptionInFlight
  /\ ChildrenSettled /\ ChildrenAgree
  /\ CancelledOnlyIfAsked /\ AbortedOnlyIfAsked
=============================================================================
