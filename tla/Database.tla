------------------------------ MODULE Database ------------------------------
(***************************************************************************)
(* The life of query executions in one Database object of gmsv_pg.         *)
(*                                                                         *)
(* Two threads share the object.  The Lua thread runs the game's Lua code, *)
(* the C++ functions that code calls, and the Think hook that delivers     *)
(* callbacks; the worker thread (connectRun, run) connects, executes the   *)
(* queued statements on the PostgreSQL server, and hands them back.  One   *)
(* element of Queries is one execution: the (IQuery, IQueryData) pair that *)
(* start() queues, be it a plain query, a prepared query or a transaction. *)
(*                                                                         *)
(* The Lua thread is a stack "todo" of the C++ steps it still has to take. *)
(* Lua code runs, and may call the API, when the stack is empty (the game  *)
(* itself) or topped by a "callback" (a callback the C++ code has called), *)
(* so that API calls, and the callbacks they deliver, nest as in the code. *)
(* A step is one access to state the other thread can change: an atomic    *)
(* load or store, or a section under one mutex.                            *)
(***************************************************************************)
EXTENDS Naturals, SequencesExt

CONSTANTS Queries,   \* the executions the Lua program may start
          NoData,    \* a null std::shared_ptr<IQueryData>
          Calls      \* the API calls the Lua program makes besides start,
                     \* connect and think

CallNames == {"abort", "abortAll", "disconnect", "wait", "swap", "destroy"}

ASSUME NoDataAssumption == NoData \notin Queries
ASSUME CallsAssumption  == Calls \subseteq CallNames

VARIABLES
  (* Per execution, IQueryData: *)
  status,         \* m_status
  resultStatus,   \* m_resultStatus
  finished,       \* the set of those whose finished flag is set
  cancelReq,      \* the set of those whose cancellationRequested flag is set
  (* QueryWorker: *)
  queue,          \* queryQueue
  closed,         \* queryQueue.closed
  finishedQ,      \* finishedQueries
  (* Database: *)
  connection,     \* startedConnecting, m_connectionDone and m_success
  canWait,        \* m_canWait
  shuttingDown,   \* m_shuttingDown
  inFlight,       \* m_inFlightData
  active,         \* m_activeQuery.activeData (non-null with its connection)
  (* The worker thread: *)
  wpc,            \* where it is
  wcur,           \* the execution in its hands
  doomed,         \* what completeQueuedWithErrorAndClose still has to fail
  outcome,        \* how the statement of wcur ended
  (* The Lua thread: *)
  todo,           \* the C++ steps it still has to take
  handle,         \* whether the execution was started, and its callback
                  \* references freed (finishLuaQueryData)
  destroyed,      \* the database object was destroyed by Lua
  (* The PostgreSQL server: *)
  interrupt,      \* a cancel request reached the backend executing now
  ran,            \* how the statement of an execution ended on the server
  (* History, for the properties only: *)
  asked,          \* executions Lua asked to abort
  heard           \* the callbacks delivered for an execution

dataVars   == <<status, resultStatus, finished, cancelReq>>
queueVars  == <<queue, closed, finishedQ>>
dbVars     == <<connection, canWait, shuttingDown, inFlight, active>>
handVars   == <<wcur, doomed, outcome>>
workVars   == <<wpc, handVars>>
refVars    == <<handle, destroyed>>
luaVars    == <<todo, refVars>>
serverVars == <<interrupt, ran>>
history    == <<asked, heard>>
luaSide    == <<luaVars, serverVars, history>>
allButTodo == <<dataVars, queueVars, dbVars, workVars, refVars, serverVars, history>>
allButPC   == <<dataVars, queueVars, dbVars, handVars, luaSide>>
vars       == <<allButTodo, todo>>

-----------------------------------------------------------------------------
(* Types. *)

Statuses       == {"NOT_RUNNING", "WAITING", "RUNNING", "COMPLETE", "ABORTED"}
ResultStatuses == {"NONE", "ERROR", "SUCCESS"}
Outcomes       == {"none", "ok", "error", "cancelled", "lost"}
Reports        == {"aborted"} \union ResultStatuses

WorkerPCs ==
  {"none", "connecting", "failing", "failClose", "doom",
   "take", "setInFlight", "check", "running", "open", "exec", "unguard",
   "classify", "settle", "complete", "put", "finish", "notify", "done"}

\* Where the worker has no execution in its hands.
EmptyHanded ==
  {"none", "connecting", "failing", "failClose", "doom", "take", "done"}

\* Steps of the Lua thread.  Those in Holding carry an execution whose
\* callback references the thread is about to use or free; those in WaitOps,
\* one that query:wait() waits for; those in AloneOps, none.
Holding  == {"deliver", "callback", "free"}
WaitOps  == {"wait", "cannotWait", "waitStore", "block", "fallAsleep", "sleep"}
AbortOps == {"abortStatus", "abortStore", "cancel", "pqcancel"}
AloneOps == {"inFlight", "active", "shutdown", "close", "join", "takeFree"}
Ops      == Holding \union WaitOps \union AbortOps \union AloneOps \union {"take"}
Items ==
  [op : Ops \ AloneOps, of : Queries]
    \union [op : AloneOps \union {"take"}, of : {NoData}]

TypeOK ==
  /\ status \in [Queries -> Statuses]
  /\ resultStatus \in [Queries -> ResultStatuses]
  /\ finished \subseteq Queries /\ cancelReq \subseteq Queries
  /\ queue \in Seq(Queries) /\ closed \in BOOLEAN /\ finishedQ \in Seq(Queries)
  /\ connection \in {"none", "connecting", "up", "failed"}
  /\ canWait \in BOOLEAN /\ shuttingDown \in BOOLEAN
  /\ inFlight \in Queries \union {NoData} /\ active \in Queries \union {NoData}
  /\ wpc \in WorkerPCs
  /\ wpc = "none" <=> connection = "none"
  /\ wcur \in IF wpc \in EmptyHanded THEN {NoData} ELSE Queries
  /\ doomed \in Seq(Queries)
  /\ outcome \in Outcomes
  /\ todo \in Seq(Items)
  /\ handle \in [Queries -> {"new", "live", "released", "refused"}]
  /\ destroyed \in BOOLEAN
  /\ interrupt \in BOOLEAN /\ ran \in [Queries -> Outcomes]
  /\ asked \subseteq Queries /\ heard \in [Queries -> Seq(Reports)]

Init ==
  /\ status = [q \in Queries |-> "NOT_RUNNING"]
  /\ resultStatus = [q \in Queries |-> "NONE"]
  /\ finished = {} /\ cancelReq = {}
  /\ queue = <<>> /\ closed = FALSE /\ finishedQ = <<>>
  /\ connection = "none" /\ canWait = FALSE /\ shuttingDown = FALSE
  /\ inFlight = NoData /\ active = NoData
  /\ wpc = "none" /\ wcur = NoData /\ doomed = <<>> /\ outcome = "none"
  /\ todo = <<>> /\ handle = [q \in Queries |-> "new"] /\ destroyed = FALSE
  /\ interrupt = FALSE /\ ran = [q \in Queries |-> "none"]
  /\ asked = {} /\ heard = [q \in Queries |-> <<>>]

-----------------------------------------------------------------------------
(* The Lua thread's stack. *)

Item(op, q)   == [op |-> op, of |-> q]
Step(op)      == <<Item(op, NoData)>>
ForAll(op, s) == [i \in DOMAIN s |-> Item(op, s[i])]

LuaRuns       == todo # <<>> => todo[1].op = "callback"
Call(items)   == LuaRuns /\ ~destroyed /\ todo' = items \o todo
At(op)        == todo # <<>> /\ todo[1].op = op
Then(items)   == todo' = items \o Tail(todo)

Live(q)       == handle[q] = "live"
Started       == {q \in Queries : Live(q)}

\* removeQueued: the pair leaves the queue, under the queue's mutex.
Removed(q) == \E i \in 1..Len(queue) : queue[i] = q /\ queue' = RemoveAt(queue, i)

\* setStatus on a set of executions.
WithStatus(Q, s) == [q \in Queries |-> IF q \in Q THEN s ELSE status[q]]

-----------------------------------------------------------------------------
(* Lua API calls.  Each is what the thread does before its first access to  *)
(* shared state that another step could follow.                             *)

\* query:start(), when the database still takes work (IQuery::start,
\* Database::enqueueQuery, QueryWorker::enqueue).
StartQueued(q) ==
  /\ LuaRuns /\ ~destroyed
  /\ handle[q] = "new"
  /\ ~shuttingDown /\ ~closed
  /\ status' = [status EXCEPT ![q] = "WAITING"]
  /\ queue' = Append(queue, q)
  /\ handle' = [handle EXCEPT ![q] = "live"]
  /\ UNCHANGED <<resultStatus, finished, cancelReq, closed, finishedQ, dbVars,
                 workVars, todo, destroyed, serverVars, history>>

\* query:start(), when it throws "Database is disconnected.".
StartRefused(q) ==
  /\ LuaRuns /\ ~destroyed
  /\ handle[q] = "new"
  /\ shuttingDown \/ closed
  /\ status' = [status EXCEPT ![q] = "ABORTED"]
  /\ finished' = finished \union {q}
  /\ handle' = [handle EXCEPT ![q] = "refused"]
  /\ UNCHANGED <<resultStatus, cancelReq, queueVars, dbVars, workVars, todo,
                 destroyed, serverVars, history>>

\* db:connect(), which throws when called again.
Connect ==
  /\ LuaRuns /\ ~destroyed
  /\ connection = "none"
  /\ connection' = "connecting"
  /\ canWait' = TRUE
  /\ wpc' = "connecting"
  /\ UNCHANGED <<dataVars, queueVars, shuttingDown, inFlight, active, handVars, luaSide>>

\* The Think hook, or db:wait() in a callback: takes what has finished.
Think ==
  /\ todo = <<>> \/ connection \in {"up", "failed"}
  /\ Call(ForAll("deliver", finishedQ))
  /\ finishedQ' = <<>>
  /\ UNCHANGED <<dataVars, queue, closed, dbVars, workVars, refVars, serverVars, history>>

\* query:abort() on an execution the worker has not taken.
AbortQueued(q) ==
  /\ "abort" \in Calls /\ Live(q)
  /\ Removed(q)
  /\ status' = [status EXCEPT ![q] = "ABORTED"]
  /\ finished' = finished \union {q}
  /\ asked' = asked \union {q}
  /\ Call(<<Item("deliver", q)>>)
  /\ UNCHANGED <<resultStatus, cancelReq, closed, finishedQ, dbVars, workVars,
                 refVars, serverVars, heard>>

\* query:abort() on one that is not in the queue.
AbortTaken(q) ==
  /\ "abort" \in Calls /\ Live(q)
  /\ ~Contains(queue, q)
  /\ asked' = asked \union {q}
  /\ Call(<<Item("abortStatus", q)>>)
  /\ UNCHANGED <<dataVars, queueVars, dbVars, workVars, refVars, serverVars, heard>>

\* Database::abortAllQueries up to QueryWorker::abortQueued; "op" is what
\* the caller then does with each pair it gets back, "rest" what follows.
ClearQueue(op, rest) ==
  /\ queue' = <<>>
  /\ status' = WithStatus(ToSet(queue), "ABORTED")
  /\ finished' = finished \union ToSet(queue)
  /\ asked' = asked \union Started
  /\ Call(Step("inFlight") \o Step("active") \o ForAll(op, queue) \o rest)
  /\ UNCHANGED <<resultStatus, cancelReq, closed, finishedQ, dbVars, workVars,
                 handle, serverVars, heard>>

\* db:abortAllQueries().
AbortAll ==
  /\ "abortAll" \in Calls
  /\ ClearQueue("deliver", <<>>)
  /\ UNCHANGED destroyed

\* db:disconnect(wait).
Disconnect(wait) ==
  /\ "disconnect" \in Calls
  /\ ClearQueue("deliver", Step("shutdown") \o
                           IF wait THEN Step("join") \o Step("take") ELSE <<>>)
  /\ UNCHANGED destroyed

\* The database object is collected by Lua, or the module is closed.
Destroy ==
  /\ "destroy" \in Calls /\ todo = <<>>
  /\ ClearQueue("free", Step("shutdown") \o Step("join") \o Step("takeFree"))
  /\ destroyed' = TRUE

\* query:wait(swap).
Wait(q) ==
  /\ "wait" \in Calls /\ Live(q)
  /\ Call(<<Item("wait", q), Item("take", q)>>)
  /\ \/ queue' = queue
     \/ /\ "swap" \in Calls
        /\ \E i \in 2..Len(queue) :
             /\ queue[i] = q
             /\ queue' = [queue EXCEPT ![1] = q, ![i] = queue[1]]
  /\ UNCHANGED <<dataVars, closed, finishedQ, dbVars, workVars, refVars, serverVars, history>>

-----------------------------------------------------------------------------
(* The steps API calls leave on the stack. *)

\* runCallback (or runAbortedCallback) calls the Lua function, if the
\* callback references are still there.
ReportRaw(q) == status[q]      \* mutant: the wrong one of the two fields
Report(q) == IF status[q] = "ABORTED" THEN "aborted" ELSE resultStatus[q]

Deliver ==
  /\ At("deliver")
  /\ LET q == todo[1].of IN
     IF Live(q)
     THEN /\ heard' = [heard EXCEPT ![q] = Append(@, Report(q))]
          /\ Then(<<Item("callback", q)>>)
     ELSE Then(<<>>) /\ UNCHANGED heard
  /\ UNCHANGED <<dataVars, queueVars, dbVars, workVars, refVars, serverVars, asked>>

\* The Lua callback returns (or onDestroyedByLua runs none): the
\* callback references are freed (finishLuaQueryData).
Release ==
  /\ At("callback") \/ At("free")
  /\ handle' = [handle EXCEPT ![todo[1].of] = "released"]
  /\ Then(<<>>)
  /\ UNCHANGED <<dataVars, queueVars, dbVars, workVars, destroyed, serverVars, history>>

\* Database::abortQuery reads the status of an execution that was not queued.
AbortStatus ==
  /\ At("abortStatus")
  /\ LET q == todo[1].of IN
     Then(CASE status[q] = "WAITING" -> <<Item("abortStore", q)>>
            [] status[q] = "RUNNING" -> <<Item("cancel", q)>>
            [] OTHER -> <<>>)
  /\ UNCHANGED allButTodo

\* ... and acts on the WAITING it has read.
AbortStore ==
  /\ At("abortStore")
  /\ status' = [status EXCEPT ![todo[1].of] = "ABORTED"]
  /\ Then(<<>>)
  /\ UNCHANGED <<resultStatus, finished, cancelReq, queueVars, dbVars,
                 workVars, refVars, serverVars, history>>

\* ActiveQueryState::cancel up to the release of its mutex.
RequestCancel(q) ==
  /\ IF q = active /\ q # NoData
     THEN /\ cancelReq' = cancelReq \union {q}
          /\ Then(<<Item("pqcancel", q)>>)
     ELSE Then(<<>>) /\ UNCHANGED cancelReq
  /\ UNCHANGED <<status, resultStatus, finished, queueVars, dbVars, workVars,
                 refVars, serverVars, history>>

Cancel       == At("cancel") /\ RequestCancel(todo[1].of)
CancelActive == At("active") /\ RequestCancel(active)

\* PQcancel: the server interrupts the statement the backend executes now,
\* if any; or the request cannot be sent, and the flag is taken back.
PQcancelSent ==
  /\ At("pqcancel")
  /\ interrupt' = (interrupt \/ wpc = "exec")
  /\ Then(<<>>)
  /\ UNCHANGED <<dataVars, queueVars, dbVars, workVars, refVars, ran, history>>

PQcancelFailed ==
  /\ At("pqcancel")
  /\ cancelReq' = cancelReq \ {todo[1].of}
  /\ Then(<<>>)
  /\ UNCHANGED <<status, resultStatus, finished, queueVars, dbVars, workVars,
                 refVars, serverVars, history>>

\* abortAllQueries and shutdown look at the execution in flight.
AbortInFlight ==
  /\ At("inFlight")
  /\ Then(IF inFlight # NoData /\ status[inFlight] = "WAITING"
          THEN <<Item("abortStore", inFlight)>> ELSE <<>>)
  /\ UNCHANGED allButTodo

\* Database::disconnect and shutdown: only the first has an effect.
Shutdown ==
  /\ At("shutdown")
  /\ IF connection = "none" \/ shuttingDown
     THEN Then(<<>>) /\ UNCHANGED <<shuttingDown, asked>>
     ELSE /\ shuttingDown' = TRUE
          /\ asked' = asked \union Started
          /\ Then(Step("active") \o Step("inFlight") \o Step("close"))
  /\ UNCHANGED <<dataVars, queueVars, connection, canWait, inFlight, active,
                 workVars, refVars, serverVars, heard>>

\* abortQueuedAndClose, and finish() for each pair it returns.
Closing(isClosed, handedBack) ==
  /\ At("close")
  /\ closed' = isClosed
  /\ queue' = <<>>
  /\ finishedQ' = finishedQ \o handedBack
  /\ status' = WithStatus(ToSet(queue), "ABORTED")
  /\ finished' = finished \union ToSet(queue)
  /\ Then(<<>>)
  /\ UNCHANGED <<resultStatus, cancelReq, dbVars, workVars, refVars, serverVars, history>>
CloseDropping == Closing(TRUE, <<>>)      \* mutant: no finish(pair)
CloseNot      == Closing(closed, queue)   \* mutant: clear, not closeAndClear
Close         == Closing(TRUE, queue)

\* m_thread.join(): blocks the Lua thread until the worker has returned.
Join ==
  /\ At("join")
  /\ connection = "none" \/ wpc = "done"
  /\ Then(<<>>)
  /\ UNCHANGED allButTodo

\* The think() that ends query:wait() and disconnect(true).
TakingFinished(left) ==
  /\ At("take")
  /\ finishedQ' = left
  /\ Then(ForAll("deliver", finishedQ))
  /\ UNCHANGED <<dataVars, queue, closed, dbVars, workVars, refVars, serverVars, history>>
TakeCopy     == TakingFinished(finishedQ)   \* mutant: take, but do not clear
TakeFinished == TakingFinished(<<>>)

\* onDestroyedByLua frees what is left, without callbacks.
TakingToFree(freed) ==
  /\ At("takeFree")
  /\ finishedQ' = <<>>
  /\ Then(ForAll("free", freed))
  /\ UNCHANGED <<dataVars, queue, closed, dbVars, workVars, refVars, serverVars, history>>
TakeAndDrop == TakingToFree(<<>>)           \* mutant: the references leak
TakeAndFree == TakingToFree(finishedQ)

\* Database::waitForQuery: done already, no worker to wait for, or block.
WaitingIf(hasWorker) ==
  /\ At("wait")
  /\ LET q == todo[1].of IN
     Then(CASE q \in finished -> <<>>
            [] q \notin finished /\ hasWorker -> <<Item("block", q)>>
            [] OTHER -> <<Item("cannotWait", q)>>)
  /\ UNCHANGED allButTodo
WaitNever == WaitingIf(FALSE)      \* mutant: m_canWait is not looked at
WaitEnter == WaitingIf(canWait)

\* The execution leaves the Lua thread's or the worker's hands as failed.
FailNow(q) ==
  /\ resultStatus' = [resultStatus EXCEPT ![q] = "ERROR"]
  /\ status' = [status EXCEPT ![q] = "COMPLETE"]
  /\ finishedQ' = Append(finishedQ, q)
  /\ finished' = finished \union {q}

\* completeQueuedWithError when the pair was queued, else the isFinished()
\* test of completeQueryWithError.
CannotWait ==
  /\ At("cannotWait")
  /\ LET q == todo[1].of IN
     \/ /\ status[q] = "WAITING" /\ Removed(q)
        /\ FailNow(q)
        /\ Then(<<>>)
     \/ /\ ~(status[q] = "WAITING" /\ Contains(queue, q))
        /\ Then(IF q \in finished THEN <<>> ELSE <<Item("waitStore", q)>>)
        /\ UNCHANGED <<resultStatus, status, queue, finishedQ, finished>>
  /\ UNCHANGED <<cancelReq, closed, dbVars, workVars, refVars, serverVars, history>>

\* ... and its stores.
WaitStore ==
  /\ At("waitStore")
  /\ FailNow(todo[1].of)
  /\ Then(<<>>)
  /\ UNCHANGED <<cancelReq, queue, closed, dbVars, workVars, refVars, serverVars, history>>

\* waitUntilFinished: the predicate is tested, and then the thread goes to sleep.
\* The mutex it holds in between is one setFinished does not take.
Block ==
  /\ At("block")
  /\ LET q == todo[1].of IN
     Then(IF q \in finished THEN <<>> ELSE <<Item("fallAsleep", q)>>)
  /\ UNCHANGED allButTodo

FallAsleep ==
  /\ At("fallAsleep")
  /\ Then(<<Item("sleep", todo[1].of)>>)
  /\ UNCHANGED allButTodo

\* A condition variable may wake up spuriously.
SpuriousWake ==
  /\ At("sleep")
  /\ Then(<<Item("block", todo[1].of)>>)
  /\ UNCHANGED allButTodo

-----------------------------------------------------------------------------
(* The worker thread: connectRun, then run. *)

Goto(from, to) == wpc = from /\ wpc' = to

ConnectSucceeds ==
  /\ Goto("connecting", "take")
  /\ connection' = "up"
  /\ UNCHANGED <<dataVars, queueVars, canWait, shuttingDown, inFlight, active,
                 handVars, luaSide>>

ConnectFails ==
  /\ Goto("connecting", "failing")
  /\ connection' = "failed"
  /\ UNCHANGED <<dataVars, queueVars, canWait, shuttingDown, inFlight, active,
                 handVars, luaSide>>

StopWaits ==
  /\ Goto("failing", "failClose")
  /\ canWait' = FALSE
  /\ UNCHANGED <<dataVars, queueVars, connection, shuttingDown, inFlight,
                 active, handVars, luaSide>>

\* completeQueuedWithErrorAndClose: closeAndClear, then each pair in turn.
FailClosing(isClosed) ==
  /\ Goto("failClose", "doom")
  /\ closed' = isClosed
  /\ queue' = <<>>
  /\ doomed' = queue
  /\ UNCHANGED <<dataVars, finishedQ, dbVars, wcur, outcome, luaSide>>
FailClear == FailClosing(closed)   \* mutant: clear, not closeAndClear
FailClose == FailClosing(TRUE)

Doom ==
  /\ doomed # <<>>
  /\ Goto("doom", "put")
  /\ wcur' = Head(doomed)
  /\ doomed' = Tail(doomed)
  /\ resultStatus' = [resultStatus EXCEPT ![Head(doomed)] = "ERROR"]
  /\ status' = [status EXCEPT ![Head(doomed)] = "COMPLETE"]
  /\ UNCHANGED <<finished, cancelReq, queueVars, dbVars, outcome, luaSide>>

DoomDone ==
  /\ doomed = <<>>
  /\ Goto("doom", "done")
  /\ UNCHANGED allButPC

\* takeNext returns a pair, or false once the queue is closed and empty.
TakeNext ==
  /\ queue # <<>>
  /\ Goto("take", "setInFlight")
  /\ wcur' = Head(queue)
  /\ queue' = Tail(queue)
  /\ UNCHANGED <<dataVars, closed, finishedQ, dbVars, doomed, outcome, luaSide>>

Exit ==
  /\ closed /\ queue = <<>>
  /\ Goto("take", "done")
  /\ canWait' = FALSE
  /\ UNCHANGED <<dataVars, queueVars, connection, shuttingDown, inFlight,
                 active, handVars, luaSide>>

SetInFlight ==
  /\ Goto("setInFlight", "check")
  /\ inFlight' = wcur
  /\ UNCHANGED <<dataVars, queueVars, connection, canWait, shuttingDown,
                 active, handVars, luaSide>>

\* The tests of run(): the one before m_queryMutex reads part of what the one
\* under it reads, and does the same.
Checking(toAbort) ==
  /\ wpc = "check"
  /\ IF shuttingDown \/ status[wcur] = "ABORTED"
     THEN /\ wpc' = toAbort
          /\ status' = [status EXCEPT ![wcur] = "ABORTED"]
     ELSE wpc' = "running" /\ UNCHANGED status
  /\ UNCHANGED <<resultStatus, finished, cancelReq, queueVars, dbVars, handVars, luaSide>>
CheckForgets == Checking("finish")   \* mutant: continue without finish(pair)
Check        == Checking("put")

SetRunning ==
  /\ Goto("running", "open")
  /\ status' = [status EXCEPT ![wcur] = "RUNNING"]
  /\ UNCHANGED <<resultStatus, finished, cancelReq, queueVars, dbVars, handVars, luaSide>>

\* The session is open, or attemptReconnect opens it: the guard publishes
\* the execution as active and the statement is sent ...
Execute ==
  /\ Goto("open", "exec")
  /\ active' = wcur
  /\ UNCHANGED <<dataVars, queueVars, connection, canWait, shuttingDown,
                 inFlight, handVars, luaSide>>

\* ... or there is no session, and PGConnectionException is thrown.
OpenFails ==
  /\ Goto("open", "classify")
  /\ outcome' = "lost"
  /\ UNCHANGED <<dataVars, queueVars, dbVars, wcur, doomed, luaSide>>

\* executeStatement returns, or throws what the server answered.
StatementOk ==
  /\ Goto("exec", "unguard")
  /\ outcome' = "ok"
  /\ ran' = [ran EXCEPT ![wcur] = "ok"]
  /\ interrupt' = FALSE
  /\ cancelReq' = cancelReq \ {wcur}
  /\ resultStatus' = [resultStatus EXCEPT ![wcur] = "SUCCESS"]
  /\ UNCHANGED <<status, finished, queueVars, dbVars, wcur, doomed, luaVars, history>>

StatementFails(o) ==
  /\ o = "cancelled" => interrupt
  /\ Goto("exec", "unguard")
  /\ outcome' = o
  /\ ran' = [ran EXCEPT ![wcur] = o]
  /\ interrupt' = FALSE
  /\ UNCHANGED <<dataVars, queueVars, dbVars, wcur, doomed, luaVars, history>>

Unguard ==
  /\ Goto("unguard", IF outcome = "ok" THEN "settle" ELSE "classify")
  /\ active' = NoData
  /\ UNCHANGED <<dataVars, queueVars, connection, canWait, shuttingDown,
                 inFlight, handVars, luaSide>>

\* The catch clauses of runQuery.
Classifying(requested, otherwise) ==
  /\ Goto("classify", "settle")
  /\ IF outcome = "cancelled" /\ requested
     THEN /\ status' = [status EXCEPT ![wcur] = "ABORTED"]
          /\ resultStatus' = [resultStatus EXCEPT ![wcur] = "NONE"]
          /\ UNCHANGED cancelReq
     ELSE /\ resultStatus' = [resultStatus EXCEPT ![wcur] = otherwise]
          /\ cancelReq' = cancelReq \ {wcur}
          /\ UNCHANGED status
  /\ UNCHANGED <<finished, queueVars, dbVars, handVars, luaSide>>
ClassifyAny   == Classifying(TRUE, "ERROR")               \* mutant: any cancellation
ClassifyNone  == Classifying(wcur \in cancelReq, "NONE")  \* mutant: no result stored
Classify      == Classifying(wcur \in cancelReq, "ERROR")

\* run() reads the status ...
Settling(done) ==
  /\ Goto("settle", IF status[wcur] = "ABORTED" THEN "put" ELSE "complete")
  /\ finished' = finished \union done
  /\ UNCHANGED <<status, resultStatus, cancelReq, queueVars, dbVars, handVars, luaSide>>
SettleFinishing == Settling({wcur})   \* mutant: setFinished before finish(pair)
Settle          == Settling({})

\* ... and stores COMPLETE if it was not ABORTED.
Complete ==
  /\ Goto("complete", "put")
  /\ status' = [status EXCEPT ![wcur] = "COMPLETE"]
  /\ UNCHANGED <<resultStatus, finished, cancelReq, queueVars, dbVars, handVars, luaSide>>

Put ==
  /\ Goto("put", "finish")
  /\ finishedQ' = Append(finishedQ, wcur)
  /\ UNCHANGED <<dataVars, queue, closed, dbVars, handVars, luaSide>>

\* setFinished: the store, then notify_all without the mutex; and
\* clearInFlight, which nobody can tell from the notify.
Finish ==
  /\ Goto("finish", "notify")
  /\ finished' = finished \union {wcur}
  /\ UNCHANGED <<status, resultStatus, cancelReq, queueVars, dbVars, handVars, luaSide>>

Notify ==
  /\ Goto("notify", IF connection = "failed" THEN "doom" ELSE "take")
  /\ inFlight' = NoData
  /\ wcur' = NoData
  /\ todo' = IF At("sleep") /\ todo[1].of = wcur
             THEN <<Item("block", wcur)>> \o Tail(todo) ELSE todo
  /\ UNCHANGED <<dataVars, queueVars, connection, canWait, shuttingDown,
                 active, doomed, outcome, refVars, serverVars, history>>

-----------------------------------------------------------------------------
LuaCall ==
  \/ \E q \in Queries : \/ StartQueued(q) \/ StartRefused(q)
                        \/ AbortQueued(q) \/ AbortTaken(q) \/ Wait(q)
  \/ Connect \/ Think \/ AbortAll \/ Destroy
  \/ \E wait \in BOOLEAN : Disconnect(wait)

LuaStep ==
  \/ Deliver \/ AbortStatus \/ AbortStore \/ Cancel \/ CancelActive
  \/ PQcancelSent \/ PQcancelFailed \/ AbortInFlight \/ Shutdown \/ Close \/ Join
  \/ TakeFinished \/ TakeAndFree \/ WaitEnter \/ CannotWait \/ WaitStore \/ Block
  \/ FallAsleep

WorkerStep ==
  \/ ConnectSucceeds \/ ConnectFails \/ StopWaits \/ FailClose \/ Doom \/ DoomDone
  \/ TakeNext \/ Exit \/ SetInFlight \/ Check \/ SetRunning \/ Execute \/ OpenFails
  \/ StatementOk \/ \E o \in {"error", "cancelled", "lost"} : StatementFails(o)
  \/ Unguard \/ Classify \/ Settle \/ Complete \/ Put \/ Finish \/ Notify

Next == LuaCall \/ LuaStep \/ Release \/ SpuriousWake \/ WorkerStep

Spec == Init /\ [][Next]_vars

\* The worker thread runs, and so does the Lua thread when C++ code has the
\* floor; every callback returns, though it may call the API first; and the
\* game's Think hook comes again and again, whatever Lua does in between.
Fairness ==
  /\ WF_vars(WorkerStep)
  /\ WF_vars(LuaStep)
  /\ SF_vars(Release)
  /\ SF_vars(todo = <<>> /\ Think)

FairSpec == Spec /\ Fairness

-----------------------------------------------------------------------------
(* Safety. *)

\* The stack s has a step of one of the kinds ops for q left.
Has(s, ops, q) == \E i \in 1..Len(s) : s[i].op \in ops /\ s[i].of = q

\* The Lua thread is about to use, or uses, the callback references of q.
Held(q) == Has(todo, Holding, q)

\* An execution that start() accepted and whose callback references are not
\* freed is always somewhere its callback can still come from: queued, in the
\* worker's hands, among those a failed connection fails, handed back, or with
\* the Lua thread.  Closing, clearing, aborting and failing races lose none
\* (BlockingQueue.h:73-83, QueryWorker.cpp, Database.cpp:310-341).
NeverLost ==
  \A q \in Queries : Live(q) =>
    \/ Contains(queue, q)
    \/ wcur = q
    \/ Contains(doomed, q)
    \/ Contains(finishedQ, q)
    \/ Held(q)

\* Once the worker thread is gone, everything that was accepted has been
\* handed back: a start() racing the end of the worker is refused, never queued
\* behind it (Database.cpp:42-49, 119-133, 222-248).
NothingStranded ==
  wpc = "done" =>
    \A q \in Queries : Live(q) => Contains(finishedQ, q) \/ Held(q)

\* query:wait() sees its own result: when the think() that ends it takes the
\* finished executions, the one waited for is among them, unless its callback
\* has been, or is being, run (LuaIQuery.cpp:26-41; the pair is put before the
\* flag is set, Database.cpp:337-338).
WaitSeesResult ==
  At("take") /\ todo[1].of # NoData =>
    LET q == todo[1].of IN Live(q) => Contains(finishedQ, q) \/ Held(q)

\* An execution gets one callback at most, however aborts, shutdown, waits and
\* nested think() calls interleave (Database.cpp:55-78, LuaDatabase.cpp:517-521).
\* A failed connection is the exception: waitForQuery and the failing worker may
\* both hand an execution back.
OneCallback ==
  connection # "failed" => \A q \in Queries : Len(heard[q]) <= 1

\* What a callback reports of the server is true: onSuccess means that the
\* statement completed, onError that it did not (Database.cpp:275-308).
ResultsAreTrue ==
  \A q \in Queries :
    /\ "SUCCESS" \in ToSet(heard[q]) => ran[q] = "ok"
    /\ "ERROR" \in ToSet(heard[q]) => ran[q] # "ok"

\* No execution is handed back as completed without a result: the case runCallback
\* marks "Should not happen" (LuaIQuery.cpp:187-188), in which Lua would hear
\* nothing at all.
NoneNeverDelivered == \A q \in Queries : "NONE" \notin ToSet(heard[q])

\* onAborted is delivered only for executions Lua asked to abort: another
\* execution's cancellation, or one that arrives late, is never taken for it
\* (Database.cpp:285, 295).
AbortedOnlyIfAsked ==
  \A q \in Queries : "aborted" \in ToSet(heard[q]) => q \in asked

\* After Lua destroyed the database object, no callback reference is left
\* (LuaDatabase.cpp:539-556).
NothingLeaks == destroyed /\ todo = <<>> => Started = {}

\* A statement never ends on the server after its execution was reported
\* finished, or a callback of it delivered: a wait() or an abort that gives an
\* execution up really took it from the worker.
NoLateStatement ==
  [][\A q \in Queries :
       ran'[q] # ran[q] => q \notin finished /\ heard[q] = <<>>]_vars

(* What makes NeverLost, NothingStranded and WaitSeesResult inductive. *)

\* Nobody has the execution.
Nowhere(q) ==
  /\ ~Contains(queue, q) /\ ~Contains(doomed, q) /\ ~Contains(finishedQ, q)
  /\ q \notin finished
  /\ wcur # q /\ inFlight # q /\ active # q
  /\ ~Has(todo, Ops, q)

\* An execution that was not started is in nobody's hands.
NewIsNowhere == \A q \in Queries : handle[q] = "new" => Nowhere(q)

\* The queue is closed, for good and empty, when the worker leaves it.
ClosedForGood ==
  /\ closed => queue = <<>>
  /\ wpc = "done" => closed
  /\ connection = "failed" /\ wpc \notin {"failing", "failClose"} => closed

\* Only a failed connection dooms executions, and none is left at the end.
DoomedOnlyByFailure ==
  /\ doomed # <<>> => wpc \in {"doom", "put", "finish", "notify"}
  /\ doomed # <<>> => connection = "failed"
  /\ wpc \in {"failing", "failClose", "doom"} => connection = "failed"

\* What is finished has been handed back: the flag is set after the pair is put.
HandedBack(q) == Live(q) => Contains(finishedQ, q) \/ Held(q)
FinishedIsHandedBack ==
  /\ \A q \in finished : HandedBack(q)
  /\ wpc \in {"finish", "notify"} => HandedBack(wcur)

\* The think() of a query:wait() comes up only once the wait is over.
TakeAfterWait ==
  \A q \in Queries : Has(todo, {"take"}, q) =>
    q \in finished \/ (todo[1].op \in WaitOps /\ todo[1].of = q)

IInv ==
  /\ TypeOK /\ NewIsNowhere /\ ClosedForGood /\ DoomedOnlyByFailure
  /\ NeverLost /\ FinishedIsHandedBack /\ TakeAfterWait

(* What makes the other safety properties inductive. *)

\* Where the worker has not handed wcur back yet.
InHand ==
  {"setInFlight", "check", "running", "open", "exec", "unguard", "classify",
   "settle", "complete", "put"}

\* With which connection the worker is where, and what it publishes.
WorkerPlace ==
  /\ wpc \in {"take"} \union (InHand \ {"put"}) => connection = "up"
  /\ wpc \in {"put", "finish", "notify"} => connection \in {"up", "failed"}
  /\ wpc = "connecting" => connection = "connecting"
  /\ ~canWait /\ connection # "failed" => wpc \in {"none", "done"}
  /\ inFlight \in {NoData, wcur}
  /\ active # NoData => active = wcur /\ wpc \in {"exec", "unguard"}

\* The stack s uses the callback references of an execution in one step only.
HeldOnce(s) ==
  \A i, j \in 1..Len(s) :
    s[i].op \in Holding /\ s[j].op \in Holding /\ s[i].of = s[j].of => i = j

\* The execution has not been handed back.
NotYet(q) == Live(q) /\ q \notin finished /\ ~Contains(finishedQ, q) /\ ~Held(q)

\* While the connection has not failed, an execution is in one place at a time:
\* the queue, the worker's hands, among the finished ones, or with the Lua thread.
OneHolder ==
  /\ IsInjective(queue) /\ IsInjective(finishedQ) /\ HeldOnce(todo)
  /\ wpc \in InHand => NotYet(wcur)
  /\ \A q \in Queries :
       /\ Contains(queue, q) => /\ NotYet(q) /\ wcur # q
                                /\ status[q] = "WAITING" /\ ~Has(todo, AbortOps, q)
       /\ Contains(finishedQ, q) => ~Held(q)
       /\ Contains(finishedQ, q) \/ Held(q) => q \in finished \/ (wcur = q /\ wpc = "finish")
       /\ heard[q] # <<>> => /\ Len(heard[q]) = 1 /\ handle[q] # "new"
                             /\ Live(q) => Has(todo, {"callback"}, q)

\* A wait gives an execution up only where there is no worker.
WaitsForWorker ==
  /\ At("cannotWait") => wpc \in {"none", "done"}
  /\ ~At("waitStore")

OneAtATime == connection # "failed" => OneHolder /\ WaitsForWorker

\* The steps of a wait are on top of the stack only, for an execution that was
\* started.
WaitsOnTop ==
  /\ \A i \in 2..Len(todo) : todo[i].op \notin WaitOps
  /\ \A op \in WaitOps : At(op) => Live(todo[1].of)

\* What has been handed back, or is about to be, has a result.
Settled(q) == status[q] = "ABORTED" \/ resultStatus[q] # "NONE"
ResultKnown ==
  /\ wpc \in {"settle", "put", "finish", "notify"} => Settled(wcur)
  /\ wpc = "complete" \/ (wpc = "unguard" /\ outcome = "ok") => resultStatus[wcur] # "NONE"
  /\ \A q \in Queries : Contains(finishedQ, q) \/ Held(q) => Settled(q)
  /\ NoneNeverDelivered

\* The result is what the server did, and what has not been executed has none.
ResultIsTrue ==
  /\ connection # "up" => \A q \in Queries : ran[q] = "none"
  /\ wpc \in {"setInFlight", "check", "running", "open", "exec"} => ran[wcur] = "none"
  /\ wpc = "unguard" => outcome = ran[wcur]
  /\ wpc = "classify" => ran[wcur] # "ok"
  /\ \A q \in Queries :
       /\ handle[q] = "new" \/ Contains(queue, q) => ran[q] = "none"
       /\ resultStatus[q] = "SUCCESS" => ran[q] = "ok"
       /\ resultStatus[q] = "ERROR" => ran[q] # "ok"
  /\ ResultsAreTrue

\* The steps that look at the execution in flight and at the active one stand on
\* top of the stack, so that no start() comes before them.
Looks == {"inFlight", "active"}
LooksFirst(s) ==
  \A i, j \in 1..Len(s) :
    s[i].op \in Looks /\ j < i => s[j].op \in Looks \union {"abortStore", "pqcancel"}

\* Whatever leads to ABORTED was asked for.
AbortWasAsked ==
  /\ LooksFirst(todo)
  /\ shuttingDown \/ (\E i \in 1..Len(todo) : todo[i].op \in Looks) => Started \subseteq asked
  /\ (\E i \in 1..Len(todo) : todo[i].op = "close") => shuttingDown
  /\ \A q \in Queries :
       /\ handle[q] = "new" => q \notin cancelReq
       /\ Live(q) /\ (status[q] = "ABORTED" \/ q \in cancelReq \/ Has(todo, AbortOps, q))
            => q \in asked
  /\ AbortedOnlyIfAsked

\* What is left to do once Lua has destroyed the database object: to take what has
\* finished when the worker has returned, and to free it.
LeavingOps == {"inFlight", "active", "abortStore", "pqcancel", "shutdown", "close", "join",
               "free"}
Freeing ==
  /\ \A i \in 1..Len(todo) : todo[i].op = "free"
  /\ finishedQ = <<>> /\ wpc \in {"none", "done"}
StillToTake ==
  /\ todo # <<>> /\ todo[Len(todo)].op = "takeFree"
  /\ \A i \in 1..Len(todo) - 1 : todo[i].op \in LeavingOps
  /\ wpc \in {"none", "done"} \/ \E i \in 1..Len(todo) : todo[i].op = "join"
Leaving == destroyed => queue = <<>> /\ (Freeing \/ StillToTake)

ReportInv ==
  /\ IInv /\ WorkerPlace /\ OneAtATime /\ WaitsOnTop /\ ResultKnown /\ ResultIsTrue
  /\ AbortWasAsked /\ Leaving

(* Liveness. *)

\* Once connect() was called, every accepted execution gets its callback (or is
\* freed with the database object): connection failures, aborts, shutdown and
\* destruction included.
EveryExecutionEnds ==
  \A q \in Queries : (Live(q) /\ connection # "none") ~> ~Live(q)

\* A shutdown ends the worker thread, so that disconnect(true) returns.
ShutdownEnds == shuttingDown ~> wpc = "done"

-----------------------------------------------------------------------------
(* What the repository's documents say, and the code does not do. *)

\* README.md, query:wait(): it blocks until the execution completes, and then
\* returns: whoever sleeps in it is woken up when it does.
WaitReturns == \A q \in Queries : (At("sleep") /\ todo[1].of = q) ~> ~At("sleep")

\* An execution reported aborted has not been carried out by the server:
\* a query that finishes before the cancellation keeps its actual result.
AbortedNotCompleted ==
  \A q \in Queries : "aborted" \in ToSet(heard[q]) => ran[q] # "ok"

=============================================================================
