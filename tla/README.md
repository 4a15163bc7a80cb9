# A TLA+ model of gmsv_pg

gmsv_pg is a Garry's Mod server module: Lua code queues SQL on `Database`
objects, one worker thread per database executes it on PostgreSQL through libpq,
and the results come back as callbacks on the game's main thread. These modules
model the life of a query execution, of a transaction, of the connection and of the
Lua objects, the queue under them, and what is sent and shown on the way. Paths
below are relative to `src/pg/src/`.

## The system

| component | state | operations | interacts with |
|---|---|---|---|
| `Database` (`postgres/Database.cpp`) | status, shutdown and connection flags, in-flight pair, `m_queryMutex`, `m_connectMutex` | connect, wait, disconnect/shutdown, ping, enqueue, abort, abortAll, waitForQuery; on the worker thread connectRun, run, runQuery, attemptReconnect | owns all that follows |
| `QueryWorker`, `BlockingQueue` | queued pairs and a closed flag; finished pairs | put, take, removeIf, swapToFrontIf, clear, closeAndClear | shared by both threads, one mutex per queue |
| `ActiveQueryState` | the execution the server runs now, its aliases (transaction children), the `PGconn` | guard, alias, cancel | cancel is called by the Lua thread while the worker blocks in libpq |
| `IQueryData` | status, result status, finished flag, cancellation flag, error | stores and loads by both threads; waitUntilFinished | shared with the query object and its callback |
| `ConnectionSession`, `ReconnectLog` | the `PGconn`; the reconnect events not told yet | connect, reset, ping; add, take | under `m_queryMutex`; a mutex of its own |
| `Transaction` | the children | BEGIN, children in turn, COMMIT or ROLLBACK, results | one statement of the worker's, from outside |
| `LuaDatabase`, `LuaIQuery`, `LuaTransaction` | the Lua references, whether a callback ran | the API functions, `think`, callbacks, collection | call `Database` on the Lua thread; run Lua code that calls back |
| `Query`, `PreparedQuery`, `LibpqExecutor` | SQL, parameters, result cursor, executions of one object | execute, drain results, setters, cursor | on the worker thread; on the Lua thread between executions |
| `ResultData`, `LuaQuery` | the rows of a result | conversion to Lua values | on the Lua thread, in a callback or after it |
| `ConnectionConfig` | host, user, ..., an option table or a raw string, the setters' values | buildConnectionString | read by the worker at each connect |
| `LuaObject`, `GMModule` | userdata and tables, `__weakDatabases`, references | object creation and destruction, `runAllThinkHooks`, `shutdownAll` | the interpreter's collector |

What is hard here: two threads that share status words without a lock; callbacks
that call the API, wait in it, and so run other callbacks inside themselves;
cancellations that arrive late; objects that Lua starts again while an earlier
execution is under way, or drops; a worker that fails to connect, loses the
connection or ends while Lua starts, waits and aborts; and a server whose answer
to COMMIT or ROLLBACK is lost. What makes each component correct:

- execution: every execution that `start()` accepts is handed back once, with a
  report that is true of the server, and nothing waits for ever;
- transaction: what is reported of it is true of the committed data, and of its
  children;
- connection: Lua hears once, and truly, how it began and that it ended, and of
  every reconnect in between; a database that has ended holds no session;
- queue: its methods are atomic, no wake-up is lost, and nothing is put behind a
  worker that has left;
- query object: its running data is what is under way, in whatever order its
  executions end, and a late handler serves one execution;
- statement: the server gets what was set at the start, and no transaction control
  from a child; Lua is shown what came back, in order;
- settings: libpq reads the values that were set, whatever characters they have;
- references: each is freed once, all are in the end, nothing in use is
  collected, and what is dropped is closed.

`PROJECT.json` lists every component with what is left out of it, and every
hazard at its line with the properties that watch it.

## The modules

**`Database.tla`** - one `Database` object and its query executions. An element of
`Queries` is one `(IQuery, IQueryData)` pair. The worker thread is a program
counter `wpc` over connectRun and run; each step is one access to state the Lua
thread can change: an atomic load or store, or a section under one mutex. The
Lua thread is a stack `todo` of the C++ steps it still has to take. Lua code has
the floor when the stack is empty or a `callback` is on top, and an API call
pushes its steps, so nesting is the code's own. `heard`, `asked` and `ran` are
history: the callbacks delivered, what Lua asked to abort, what the server did.

| actions | code |
|---|---|
| `StartQueued`, `StartRefused` | `IQuery::start`, `Database::enqueueQuery` |
| `AbortQueued`, `AbortTaken`, `AbortStatus`, `AbortStore`, `Cancel`, `PQcancelSent`, `PQcancelFailed` | `query:abort()`: `Database::abortQuery`, `ActiveQueryState::cancel` |
| `AbortAll`, `AbortInFlight`, `CancelActive` | `Database::abortAllQueries` |
| `Disconnect`, `Destroy`, `Shutdown`, `Close`, `Join`, `TakeAndFree` | `db:disconnect()`, `onDestroyedByLua`, `Database::shutdown` |
| `Wait`, `WaitEnter`, `CannotWait`, `WaitStore`, `Block`, `FallAsleep`, `SpuriousWake` | `query:wait()`: `waitForQuery`, `waitUntilFinished` |
| `Think`, `TakeFinished`, `Deliver`, `Release` | `LuaDatabase::think`, `LuaIQuery::runCallback`, `finishLuaQueryData` |
| `ConnectSucceeds`, `ConnectFails`, `StopWaits`, `FailClose`, `Doom`, `DoomDone` | `Database::connectRun` |
| `TakeNext` ... `Notify` | `Database::run`, `runQuery`, `setFinished` |

**`AtomicQueue.tla`**, **`BlockingQueue.tla`** - the queue. `BlockingQueue` is the class
with its mutex (a section is a step), the notification after the mutex is
released (`Notify`) and `take()` asleep on the condition variable, with spurious
wake-ups. `AtomicQueue` is what its users rely on: each method at once. It is
implemented by `BlockingQueue` with `queue` and `closed` mapped to themselves and
the program counter of the worker to `TakerState`. `Database.tla` is written on
such a queue: its steps on `queue` and `closed` are those of `AtomicQueue`.

**`Transaction.tla`** - `Transaction::executeStatement`: what happens inside
the one step `exec` of `Database.tla` when the execution is a transaction. Its
statements may succeed, fail, be cancelled or lose the connection; a child may
be rejected, reset the connection (COPY), or end the transaction with SQL the
keyword test does not recognise (`AfterEnd` says what it leaves). Cancellation of
the transaction or a child runs beside it, and a request on its way may meet the
next transaction. An error of class 08 that the server reports is thrown as the loss
of the connection is, and may leave the session open, in a failed transaction
(`AfterError`). **`TransactionPromise.tla`** is what Lua may rely on: a report
is true of the committed effects when it is made, and ever after. `Transaction`
implements it (`Abstract == INSTANCE TransactionPromise`, property `ReportsAreTrue`),
with `reports` and `durable` mapped to themselves.

**`Connection.tla`** - the connection: connectRun's stores one by one, the session
found open or lost by a statement, `attemptReconnect` by the worker or by
`db:ping()`, `db:wait()`, and the five callbacks of `LuaDatabase::think`, with the
table reference that guards them. That reference is freed after `onDisconnected`
has returned (`free` on the stack), so this callback may think, and be called, inside
itself. It abstracts executions to "a statement found the
session open or not"; `Database.tla` abstracts the session to "open or not" and
has the rest. They share no variables: the one models what the other leaves as
a choice.

**`QueryObject.tla`** - one query or transaction object over several executions:
`runningQueryData`, `callbackQueryData`, `hasBeenStarted`, the handlers taken at
`start()` or from the table, the queries staged in a transaction, and the
references of all these. Executions here go through the worker in single steps
(`Take`, `BeginChild`, `Finish`), which `Database` and `Transaction` take apart; the
Lua thread has a stack of steps, as in `Database`.

| actions | code |
|---|---|
| `Start`, `StartRefused` | `LuaIQuery::start`, `LuaTransaction::buildQueryData`, `IQuery::start` |
| `AddQuery`, `ClearQueries` | `LuaTransaction` |
| `Abort`, `Wait`, `Await`, `Disconnect`, `Shutdown` | `LuaIQuery`, `IQuery`, `LuaDatabase` `disconnect`, which runs the aborted callbacks and then calls `Database::shutdown` |
| `ThinkHook`, `Think`, `Report`, `Return`, `Clear`, `Release` | `LuaDatabase::think`, `LuaIQuery::runCallback`, `finishLuaQueryData`, `IQuery::finishQueryData` |

**`Statement.tla`** - `Query`, `PreparedQuery`, `LibpqExecutor`, and of `LuaQuery` and
`ResultData` what type a value becomes: the setters, the copy an execution is
built with, the keyword scan of a child, the message sent, the results kept of
the answer (`Execute`), and the cursor (`Callback`, `GetNextResults`). SQL is a
sequence of keywords and of the signs that open and close comments, end a line and
end a statement, with blanks between them, and a result the type of its only column.
`LeadingKeyword` scans such a text as `leadingSqlKeyword` does, `ServerStart` as the server does,
where comments nest and empty statements are skipped.

**`ConnectionConfig.tla`** - the three forms of `pg.connect()`, the setters, and
`buildConnectionString` down to its quoting (`OpenSession`), read back by libpq's
conninfo syntax, which is external: values are sequences of symbols, among them
the quote, the backslash, the blank and NUL. A keyword, a mode of SSL and a number
are one symbol each; the key of an option table is a keyword or unsafe, and a
table has a key once, as a Lua table does.

**`LuaObjects.tla`** - several databases and queries: what Lua holds, what C++ holds
references to, a collector that may take anything nothing holds, the think hook
over `__weakDatabases`, and `shutdownAll`. A query's execution is queued or
finished, a worker running or not, as `Database` and `Connection` say in full.

**`SequenceLemmas`**, **`DatabaseProofs`**, **`BlockingQueueProofs`**, **`TransactionProofs`**,
**`ConnectionProofs`**, **`QueryObjectProofs`**, **`StatementProofs`** and **`LuaObjectsProofs`** hold the
proofs. The `MC` modules give TLC its instances.

## The runs

| run | instance | result |
|---|---|---|
| `Database_safety` | 2 executions, every API call, symmetry | pass, 0.76 M states |
| `Database_liveness` | 2 executions, `disconnect` | pass, 0.18 M states |
| `Transaction_reports` | 2 children, 2 transactions in turn, `AfterEnd = {"idle"}` | pass, 0.28 M states |
| `Connection` | 1 statement, 1 failing ping, 1 nested goodbye, every API call | pass, 0.50 M states |
| `Blocking_queue` | 3 items, 2 calling threads and the worker | pass, 790 states |
| `Query_object` | a query and a transaction, 3 executions in all | pass, 1.45 M states |
| `Lua_side` | `Statement`: 4 texts, 7 answers, 2 changes of settings, 2 executions; every other text of up to 5 words and signs; `ConnectionConfig`: 3 texts for each value, tables of up to 2 options; `LuaObjects`: 2 databases, 2 queries, symmetry | pass, 1.43 M states |
| `Wait_returns`, `Aborted_not_completed` | 1 or 2 executions | violated |
| `Option_tables` | `ConnectionConfig` as in `Lua_side` | violated |
| `Child_control` | every text of up to 5 words and signs | violated |
| `Dropped_sessions` | 1 database, 1 query, fairness | violated |

`Lua_side` checks three modules that share no state with each other: `MCLuaSide` extends
them, and in each of its behaviours one takes its steps while the other two stay in their
initial states, so that its states are the sum of theirs. The texts that are there for
the two scans only are executed once, with the settings as they begin.

Executions (`Database_safety`): `NeverLost` and `NothingStranded` (an
accepted execution is always where its callback can still come from, and not
behind a worker that has ended), `WaitSeesResult` (a `query:wait()` ends in a
`think()` that finds its result), `OneCallback`, `ResultsAreTrue` and
`NoneNeverDelivered` (what callbacks report), `AbortedOnlyIfAsked`, `NothingLeaks`
(after collection), `NoLateStatement` (no statement ends on the server after its
execution was given up). Liveness: `EveryExecutionEnds`, `ShutdownEnds`.
Queue: `WakeUpIsDue`, `NothingLeftBehind`, `ImplementsAtomicQueue` (with its liveness).
Transactions: `ReportsAreTrue`, `ChildrenAgree`, `NoChildLeftWaiting`,
`AbortedOnlyIfAsked`. Connection: `ConnectedOnceAndTrue`, `GoodbyeOnce`,
`EventsAccountedFor`, `NothingLeftOpen`, `WaitEnds`, `GoodbyeArrives`.
Query objects: `RunningIsTrue`, `ChildrenAreRunning`, `NothingLeaks`, `LateHandlerOnce`.
Statements: `SentAsAsked`, `ScansAgree`, `ShownInOrder`, `ShownAsAsked`.
Settings: `SettingsArrive`. Objects: `NothingUsedIsGone`, `EveryReferenceFreed`. Each stands in its module with the code it is about.
`TypeOK` of `QueryObject` and `Connection`, `StatementTypeOK` and `ConfigTypeOK` are in no run,
and proved.

The bounds are enough for what they bound. Two executions let one be active
while the other is queued, aborted or waited for, and let a late cancellation hit
the wrong one; no action relates three. Two transactions show what one leaves to
the next; two children, a failure after a success and before a child not reached.
In `Connection`, one statement can meet an open, dead or absent session (a
ping makes it so first) and cause two reconnects; a bound on failing pings keeps
the log finite. A queue of three has a first, a last and one between, which the
swap and the removal tell apart. Three executions of two objects are a
transaction with its child and another execution before or after it. Two
executions of a statement have a change of settings between them; the answers
are no result, one, two and three, with an error at each place an error can
have. Five words are two comments, one in the other, and a keyword, or a comment, an
empty statement and a keyword. Each value of a connection string is absent, hard to quote, or refused.
Two databases let the think hook hold one that a callback of the other drops.
Nesting of calls is not bounded except where the code recurses without end: an
`onDisconnected` callback that calls `db:wait()` or `db:disconnect(true)` is run again
inside itself, as often as it does that; the model lets it do so `MaxNested` times, and
these goodbyes are the exception that `GoodbyeOnce` makes (`heard["nested"]`).
`CHECK_DEADLOCK FALSE`: a program may stop calling the API, and then nothing is
left to do.

Fairness: each thread takes its next step if it can (`WF` of the worker's and of
the Lua thread's C++ steps: the operating system runs both, and a waiter gets its
mutex); a callback returns (`SF`, since it may call the API first) and the game's
Think hook comes again (`SF`). In the queue, a notification that is due is sent and
a worker that is awake goes on (`WF`). A program that never calls `disconnect` is
allowed throughout; no fairness is assumed of API calls, of spurious wake-ups or of
any answer of the server, except that a statement ends. Liveness of executions is
checked with `disconnect` only: with `query:wait` it fails, which is the first finding
below. `Dropped_sessions` grants all that might help: the workers, the think hook and the
collector go on, the last also between two hooks (`Fairness` of `LuaObjects`), while a
connection need not end, and the program need not do anything. `std::mutex` promises no order; that a waiting worker is not starved by
a Lua program that pings in a loop is an assumption.

What the violated runs show (each property states what a document says):

1. `WaitReturns` - `setFinished` notifies without the mutex under which
   `waitUntilFinished` tests the flag: the wake-up can be lost and the game hangs.
2. `AbortedNotCompleted` - `abortQuery` stores ABORTED over an execution that went
   on to run after its WAITING was read: Lua hears `onAborted` of a statement that
   took effect.
3. `OptionTablesAreUsed` - `connect_timeout` of an option table is put before the
   default one, of which libpq takes the last.
4. `ControlRejected` - `;` or a nested comment before `COMMIT` makes the scan of a child
   stop early: it is sent, and ends the transaction. `ScansAgree` says that these are
   the only two ways.
5. `DroppedSessionsClose` - `connect()` references the table of the database until
   `onDisconnected` was told, so one that is connected, idle and dropped is never
   collected, and its session and worker stay until the module is closed.

What the properties leave room for, because the code does it: a `PQcancel` sent
after the mutex is released can hit the next query, which then fails with an
error; while a connect fails, `query:wait()` and the worker may both hand the same
execution back, and `OneCallback` excepts that; a failed ROLLBACK is swallowed and
the session stays in the transaction; with `AfterEnd = {"idle", "open"}` a child like
`;COMMIT AND CHAIN` makes `ReportsAreTrue` fail; `onConnected` can run before the
status is CONNECTED; a refused second `tx:start()` takes the children of the first
off the running data, so that their `isRunning()` is false while they execute
(`ChildrenAreRunning` excepts it, `again`, and says that nothing else does so); a
transaction whose error is reported may have been committed, when the answer to COMMIT
was lost or a child ended it, which only the text of the error tells (for "unknown" the
promise says nothing); a goodbye inside a goodbye is told once more (`GoodbyeOnce` excepts it); a
nested comment or an empty statement hides transaction control from the keyword scan
(`ScansAgree` excepts them, and the fourth finding shows it).

## What is proved

For every value of the constants:

**Executions** (`DatabaseProofs`, with `NoDataAssumption`: a null pointer is no
execution, and `CallsAssumption`): `Inductive: Spec => []IInv`, and from it
`TypeCorrect`, `NothingIsLost`, `NothingIsStranded` and `WaitSeesItsResult`. `IInv` is
`TypeOK` with six facts none of which is inductive by itself. `NeverLost`
needs `FinishedIsHandedBack`, since `waitForQuery` skips an execution whose
finished flag is set; that one needs the order "put the pair, then set the flag" of
`run()` and `NewIsNowhere`, as a step on an execution that was never started would
break it; `ClosedForGood` and `DoomedOnlyByFailure` say where a failing worker and
a shutdown leave the queue, and give `NothingStranded`; `TakeAfterWait` says that
the think() of a `query:wait()` surfaces only when the wait is over, and gives
`WaitSeesResult`. The proof has a lemma per part and a step per action; what
pushing and popping does to "the stack has a step for q" is in the `...Stack`
lemmas, and what Append, Tail, RemoveAt and the swap do to "contains" in
`SequenceLemmas`.

**Reports** (the second part of `DatabaseProofs`, with the same
assumptions): `ReportInductive: Spec => []ReportInv`, and from it `OneCallbackAtMost`,
`ReportsAreTrue`, `NoneIsNeverDelivered`, `AbortsWereAsked`, `NoReferenceLeaks` and the action
property `NoStatementIsLate`. `ReportInv` adds seven facts to `IInv`. `OneAtATime` is the heart:
while the connection has not failed, an execution is in the queue, in the worker's hands, among
the finished ones or with the Lua thread, in one of them and once; it is what makes one taker
out of `abortQueued`, `closeAndClear`, `takeNext` and the nested `think()`. It needs `WorkerPlace`
(with which connection the worker is where, and what it publishes as in flight and active) and
`WaitsOnTop` (the steps of a `query:wait()` are only on top of the stack), because a wait that gives
an execution up must find that no worker will take it. `ResultIsTrue` follows a statement's end from the
server to the stored result; it needs that what is queued was never executed, hence `OneAtATime`.
`ResultKnown` says that what is handed back has a result, also where a late `abortStore` changes the
status. `AbortWasAsked` follows each ABORTED and each cancellation flag back to a call: the
steps that look at the execution in flight stand on top of the stack (`LooksFirst`), so that
no `start()` comes between the call and the look. `Leaving` says what a destroyed object
still has to do, the join before the last take. `StackStep` says once what each step does to
the stack, and most lemmas go by its cases.

**Queue** (`BlockingQueueProofs`, any number of items and threads, one of which
takes): `TypeCorrect`, `NoLostWakeUp`, `WorkerLeavesNothing`, and
`QueueImplementsAtomicQueue`: every step is one of `AtomicQueue` or none. `WakeUpIsDue` is
inductive with the types, one of which says that an item is in the queue once;
the lemmas say that the methods keep it so.

**Transactions** (`TransactionProofs`, any number of children and of transactions
in turn): `TypeCorrect`, `ChildrenAgreeWithTransaction`, `NobodyWaitsForAChild`,
`AbortedWasAskedFor`, and `ReportsAreTrueUnlessChained`: the implementation of the promise,
if no child chains a transaction (`NoChaining`), without which it is false. The invariant
`IInv` says which child is in hand at each place of the code (`ChildInHand`), what an
exception has left behind (`ExceptionInFlight`), and that the children before the
failing one are settled (`ChildrenSettled`). For the promise, `WorkInHand` says that the open
transaction on the server has this transaction's work only, and `FateKnown` that what
was reported is decided: committed and so durable, or no longer in hand.

**Objects** (`LuaObjectsProofs`, any finite set of databases and queries):
`TypeCorrect`, `UsedObjectsStay` and `NoReferenceLeft`. `HeldIsLive`
and `QueryHoldsDatabase` say that each reference is to a live object and that a query
keeps its database and a worker its own; `Accounted` is the count of references
as the sum of what holds them, from which it follows that none is freed twice.

**Connection** (`ConnectionProofs`, any number of statements and pings, and any calls
from inside callbacks; the types alone need `BoundsAssumption`): `TypeCorrect`, `ToldOnceAndTruly`,
`GoodbyeComesOnce`, `NoSessionIsLeft` and `EventsAreAccountedFor`. `StackProper` says that a ping is
never called over, and that one that connects has found the database not shutting down; `Began` says where the worker is by what `connectRun` has
stored, `Ends` that there is no session from the disconnecting or the failed attempt
on, and `Told` what Lua has heard and may still hear: `GoodbyeOnce` alone does not say
that a table still to be released has had its goodbye (`Releasing`), whatever is
pushed on the stack before it is released (`ReleasingStays`). `GoodbyeComesOnce` has the exception of
`GoodbyeOnce`: the goodbyes an `onDisconnected` callback brings about inside itself are not
bounded by it, for any `MaxNested`.

`TypeCorrect` needs, of the bounds, that a statement the worker has in hand is one
of those counted (`WithinBounds`), and of the log what the events say.

For the events, `Released` says that there are some only of a
database that was connected, and that its table is released by a goodbye and by nothing
else; how many steps of the stack are events is followed through each push and pop by the
`Count...` lemmas.

**Settings** (second half of `ConnectionProofs`, any letters, any texts over the symbols, any
numbers and tables of any length, as `TextsAssumption`, `KeysAssumption` and `NumbersAssumption`
say: a number prints as a symbol libpq gives no meaning): `SettingsReachTheServer`.
The reader is a function of its state and one symbol; `ReadConcat` and `ReadFlattened` say that what it makes
of a text is what it makes of the parts one after another, so that each is looked at by itself:
`ReadQuoted`, inside quotes it comes back with the text that was quoted, whatever the characters but
NUL; `ReadBare`, without quotes with one symbol; `ReadKey` and `ReadBlank`. On these, `Contributes(part, V)`:
read between two entries, the part sets the keywords V has a value for and keeps the others. It
holds of each entry (`ContributesAdd`, `ContributesUnquoted`), of two parts in a row, where the later counts
(`ContributesConcat`), and of the table, whose keys are distinct (`ContributesTable`). `BuiltIsRead` adds the
four parts up to `Asked`; for that, `Shape` says that a positional object has no table and one made of
a table no fields, so that no keyword is there twice but `connect_timeout`. The inductive invariant
`ConfigInv` is the types, `Shape`, and that what libpq has read was made of the settings as they
still are, since a setter forgets what was read.

**Statements** (`StatementProofs`, any texts, answers and number of settings and executions that
`StatementAssumption` allows): `TypeCorrect`, `AskedIsSent`, `ResultsComeInOrder` and `ValuesAsAsked`. The invariant, `StatementInv`, is `StatementTypeOK` with two facts about each execution:
`Faithful`, it has a copy of the settings it was built with and what was sent for it, if
anything, is `Message` of that copy and was not refused; and `InOrder`, which ties the cursor,
the results, and the number and numbers of the rows shown. `ShownInOrder` is not inductive without the cursor:
that Lua was shown n rows does not say which one `getNextResults()` shows next. No action but its own
touches an execution (`OneStep`), so that each step is checked on one. What Max and Min of a set of indexes
are is in `SequenceLemmas`, from well-foundedness.

**Query objects** (`QueryObjectProofs`, any disjoint sets of queries and transactions, any
handlers and number of executions, as `ObjectsAssumption` says): `Invariance: Spec => []IInv`, and
from it `TypeCorrect`, `RunningStaysTrue`, `ChildrenStayRunning`, `NoReferenceLeaks` and
`LateHandlersServeOnce`. `IInv` adds five facts to the properties. `Placed`: an execution under way
is in the queue, with the worker, finished or about to be released, in one of them and once; so it
is released once, and what is released was under way. `Families`: a staged query belongs to one
transaction and is taken along by one execution of it, which is why a refused second `start()`
takes off only children of the first. `Entries`: running data has an execution of its own object
only, and once, so that one removal removes it. `Counted`: the references are those of the staged queries,
the executions under way and their handlers; `NothingLeaks` is the case where nothing is under
way. `OnlyTheFirst`: only the first execution of an object still looks for a handler when it
is reported. The proof counts how often a sequence has an element (the `Times...` lemmas). A
transaction takes its children off one after another, by the recursive function `DroppedAll`; that such
a function exists and what it keeps is shown by induction over the number of steps taken, stated for a
set instead of an operator (`InductionUpTo`, `IterationExists` in `SequenceLemmas`).

Every safety invariant and action property of the passing runs is proved but
`ScansAgree`, which compares two recursive scans of a text and is checked for short
texts only. Only model-checked, besides, is liveness, which needs fairness and ENABLED and is beyond the
prover: `EveryExecutionEnds`, `ShutdownEnds`, `WaitEnds`, `GoodbyeArrives` and the
liveness part of `ImplementsAtomicQueue`; and what the violated runs show.

## Not modelled

- PostgreSQL, libpq, the interpreter and the headers of `gmod-module-base` are
  external: they appear as the outcomes their calls may have, conninfo syntax and the
  collector's rules. Build scripts and vendored headers have no behaviour.
- `db:escape`, the server information and the character set: they change nothing
  the models keep. That the character set is lost at a reconnect is listed as a
  hazard; no document says what should happen.
- The text of a number, an error or a log line; affected rows; metatables,
  argument checks and module set-up.
- `onDisconnected` callbacks nested deeper than `MaxNested`; the memory an index near
  UINT_MAX would take.
- In `QueryObject`, the four callback fields stand as one; in `LuaObjects`, a query has
  one execution at a time, and transactions are queries.
