----------------------------- MODULE QueryObject -----------------------------
(***************************************************************************)
(* What a query or transaction object keeps besides the executions         *)
(* themselves: its running data, the data of its last callback, whether it *)
(* was started, the Lua references of its executions, and the queries      *)
(* staged in a transaction.  An object may be started, and staged, again   *)
(* while earlier executions of it are under way.                           *)
(*                                                                         *)
(* How one execution gets from the queue to its callback is Database.tla;  *)
(* here the worker takes, runs and hands back in single steps.  The four   *)
(* callback fields of an object are handled alike and stand as one,        *)
(* "handler".                                                              *)
(***************************************************************************)
EXTENDS Integers, FiniteSets, SequencesExt

CONSTANTS Queries, Transactions,
          Functions,     \* what a program may set as a handler
          MaxData        \* bound: execution data ever built

ASSUME ObjectsAssumption ==
  Queries \cap Transactions = {} /\ "none" \notin Functions /\ MaxData \in Nat

Objects == Queries \union Transactions

VARIABLES
  data,          \* every IQueryData built, in order: its number is its identity
  running,       \* runningQueryData of each object
  started,       \* hasBeenStarted
  callbackData,  \* callbackQueryData, 0 if none
  handler,       \* the callback field of the object's Lua table
  staged,        \* m_addedQueries
  refs,          \* Lua references created and not freed
  queue, active, finished, cancelled, closed,   \* the worker's side
  todo,          \* the steps the Lua thread still has to take
  again          \* history: transactions whose second start() was refused

worker   == <<queue, active, finished, cancelled, closed>>
object   == <<running, started, callbackData>>
vars     == <<data, object, handler, staged, refs, worker, todo, again>>

Numbers   == DOMAIN data
Of(d)     == data[d].of
Parts(d)  == data[d].parts

\* One IQueryData, and one step of the Lua thread.
Datum ==
  [of: Objects, phase: {"staged", "accepted", "released"}, first: BOOLEAN,
   fn: Functions \union {"none"}, parts: Seq(Nat), over: BOOLEAN,
   heard: Functions \union {"none"},
   status: {"NOT_RUNNING", "WAITING", "RUNNING", "COMPLETE", "ABORTED"}]
Frame ==
  [op: {"await", "think", "report", "aborted", "callback", "clear", "release", "shutdown"},
   data: Nat]
Bare == {"think", "shutdown"}     \* the steps for no one execution

TypeOK ==
  /\ data \in Seq(Datum)
  /\ \A d \in Numbers : Parts(d) \in Seq({c \in Numbers : Of(c) \in Queries})
  /\ running \in [Objects -> Seq(Numbers)]
  /\ started \in [Objects -> BOOLEAN]
  /\ callbackData \in [Objects -> Numbers \union {0}]
  /\ handler \in [Objects -> Functions \union {"none"}]
  /\ staged \in [Transactions -> Seq({d \in Numbers : Of(d) \in Queries})]
  /\ refs \in Nat
  /\ todo \in Seq(Frame)
  /\ \A i \in DOMAIN todo : todo[i].op \notin Bare => todo[i].data \in Numbers
  /\ \A i \in DOMAIN todo : todo[i].op = "clear" => Of(todo[i].data) \in Transactions
  /\ queue \in Seq(Numbers) /\ finished \in Seq(Numbers)
  /\ active \in Numbers \union {0}
  /\ {cancelled, closed} \subseteq BOOLEAN
  /\ again \subseteq Transactions

Init ==
  /\ data = <<>>
  /\ running = [o \in Objects |-> <<>>]
  /\ started = [o \in Objects |-> FALSE]
  /\ callbackData = [o \in Objects |-> 0]
  /\ handler = [o \in Objects |-> "none"]
  /\ staged = [t \in Transactions |-> <<>>]
  /\ refs = 0
  /\ queue = <<>> /\ active = 0 /\ finished = <<>>
  /\ cancelled = FALSE /\ closed = FALSE
  /\ todo = <<>>
  /\ again = {}

-----------------------------------------------------------------------------
(* Lua code has the floor between two frames, and in every callback. *)

LuaRuns    == todo # <<>> => Head(todo).op = "callback"
At(op)     == todo # <<>> /\ Head(todo).op = op
Step(op, d) == [op |-> op, data |-> d]
Then(s)    == todo' = s \o Tail(todo)
Call(s)    == LuaRuns /\ todo' = s \o todo

\* What of s is in D, in its order: a recursive function, as a proof cannot look
\* into SelectSeq.
Only(s, D) ==
  LET f[i \in 0..Len(s)] ==
        IF i = 0 THEN <<>> ELSE IF s[i] \in D THEN Append(f[i - 1], s[i]) ELSE f[i - 1]
  IN  f[Len(s)]

\* IQuery::addQueryData, for each of the data ds.
Added(run, ds) == [o \in Objects |-> run[o] \o Only(ds, {d \in Numbers : Of(d) = o})]
First(ds) == [d \in Numbers |->
  IF d \in Range(ds) /\ ~started[Of(d)] THEN [data[d] EXCEPT !.first = TRUE] ELSE data[d]]

\* IQuery::finishQueryData.
PopFront(run, d) ==            \* mutant: whatever is in front
  LET s == run[Of(d)] IN IF s = <<>> THEN run ELSE [run EXCEPT ![Of(d)] = Tail(s)]
Dropped(run, d) ==
  LET s == run[Of(d)] IN
  [run EXCEPT ![Of(d)] = IF s # <<>> /\ Head(s) = d THEN Tail(s)
                         ELSE Only(s, Numbers \ {d})]
DroppedAll(run, ds) ==
  LET f[i \in 0..Len(ds)] == IF i = 0 THEN run ELSE Dropped(f[i - 1], ds[i])
  IN  f[Len(ds)]

\* The references of an execution: its object's table, and its handler.
Held(fn) == IF fn = "none" THEN 1 ELSE 2

-----------------------------------------------------------------------------
(* The Lua program. *)

SetHandler(o, f) ==
  /\ LuaRuns
  /\ handler[o] # f
  /\ handler' = [handler EXCEPT ![o] = f]
  /\ UNCHANGED <<data, object, staged, refs, worker, todo, again>>

New(o, phase, first, fn, parts) ==
  [of |-> o, phase |-> phase, first |-> first, fn |-> fn, parts |-> parts, over |-> FALSE,
   heard |-> "none", status |-> IF phase = "staged" THEN "NOT_RUNNING" ELSE "WAITING"]

AddQuery(t, q) ==
  /\ LuaRuns
  /\ Len(data) < MaxData
  /\ data' = Append(data, New(q, "staged", FALSE, "none", <<>>))
  /\ staged' = [staged EXCEPT ![t] = Append(@, Len(data) + 1)]
  /\ refs' = refs + 1
  /\ UNCHANGED <<object, handler, worker, todo, again>>

\* clearAddedQueries.
Clearing(t, freed) ==
  /\ refs' = refs - freed
  /\ staged' = [staged EXCEPT ![t] = <<>>]
ClearedOnly(t) == Clearing(t, 0)           \* mutant: the references stay
Cleared(t)     == Clearing(t, Len(staged[t]))

ClearQueries(t) ==
  /\ LuaRuns
  /\ Cleared(t)
  /\ UNCHANGED <<data, object, handler, worker, todo, again>>

\* The children's data that start() of o adds to their objects.
Children(o) == IF o \in Transactions THEN staged[o] ELSE <<>>

OneShot(o) == o \in Transactions /\ started[o]    \* Transaction::validateStart

Starting(o, run, marks) ==
  LET ds == Children(o) IN
  /\ LuaRuns
  /\ Len(data) < MaxData
  /\ ~OneShot(o) /\ ~closed
  /\ data' = Append(First(ds), New(o, "accepted", ~started[o], handler[o], ds))
  /\ running' = [run EXCEPT ![o] = Append(@, Len(data) + 1)]
  /\ started' = [started EXCEPT ![o] = marks]
  /\ refs' = refs + Held(handler[o])
  /\ queue' = Append(queue, Len(data) + 1)
  /\ UNCHANGED <<callbackData, handler, staged, active, finished, cancelled, closed, todo,
                 again>>
StartAlone(o)    == Starting(o, running, TRUE)              \* mutant: no children
StartUnmarked(o) == Starting(o, Added(running, Children(o)), FALSE)   \* mutant
Start(o)         == Starting(o, Added(running, Children(o)), TRUE)

\* start() throws: what buildQueryData did to the children is undone by
\* finishLuaQueryData, which frees the new references too.
StartRefused(o) ==
  LET ds == Children(o) IN
  /\ LuaRuns
  /\ OneShot(o) \/ closed
  /\ data' = First(ds)
  /\ running' = DroppedAll(Added(running, ds), ds)
  /\ again' = IF OneShot(o) THEN again \union {o} ELSE again
  /\ UNCHANGED <<started, callbackData, handler, staged, refs, worker, todo>>

\* query:abort(): each running data in turn is taken from the queue, or its
\* cancellation is requested if the worker executes it, or its transaction.
InHand(d) == active # 0 /\ d \in {active} \union Range(Parts(active))

\* Each of ds is reported, and then released.
Completing(op, ds) ==
  [i \in 1..2 * Len(ds) |-> IF i % 2 = 1 THEN Step(op, ds[(i + 1) \div 2])
                                         ELSE Step("release", ds[i \div 2])]

AbortedData(ds) == [d \in Numbers |->
  IF d \in Range(ds) THEN [data[d] EXCEPT !.status = "ABORTED", !.over = TRUE] ELSE data[d]]

Abort(o) ==
  LET queued == Only(running[o], Range(queue)) IN
  /\ running[o] # <<>>
  /\ Call(Completing("aborted", queued))
  /\ data' = AbortedData(queued)
  /\ queue' = Only(queue, Numbers \ Range(queued))
  /\ cancelled' = (cancelled \/ \E d \in Range(running[o]) :
                                   InHand(d) /\ data[d].status = "RUNNING")
  /\ UNCHANGED <<object, handler, staged, refs, active, finished, closed, again>>

\* db:disconnect(): what is queued is aborted, and its callbacks run, before
\* shutdown() closes the queue.
Disconnect ==
  /\ Call(Completing("aborted", queue) \o <<Step("shutdown", 0)>>)
  /\ data' = AbortedData(queue)
  /\ queue' = <<>>
  /\ cancelled' = (active # 0)
  /\ UNCHANGED <<object, handler, staged, refs, active, finished, closed, again>>

\* query:wait(swapToFront) is for the data added last, and throws if that is
\* staged and not begun.
Wait(o, swap) ==
  /\ running[o] # <<>>
  /\ LET d == Last(running[o]) IN
     /\ data[d].status # "NOT_RUNNING"
     /\ Call(<<Step("await", d), Step("think", 0)>>)
     /\ queue' = IF swap /\ d \in Range(queue)
                 THEN LET i == CHOOSE i \in DOMAIN queue : queue[i] = d
                      IN  [queue EXCEPT ![1] = d, ![i] = queue[1]]
                 ELSE queue
  /\ UNCHANGED <<data, object, handler, staged, refs, active, finished, cancelled, closed,
                 again>>

\* shutdown(), which returns if there has been one: what those callbacks queued
\* is aborted too, and waits for think().
Shutdown ==
  /\ At("shutdown")
  /\ Then(<<>>)
  /\ \/ closed /\ UNCHANGED <<data, queue, finished, cancelled>>
     \/ /\ ~closed
        /\ data' = AbortedData(queue)
        /\ queue' = <<>>
        /\ finished' = finished \o queue
        /\ cancelled' = (active # 0)
  /\ closed' = TRUE
  /\ UNCHANGED <<object, handler, staged, refs, active, again>>

ThinkHook ==
  /\ todo = <<>> /\ finished # <<>>
  /\ todo' = <<Step("think", 0)>>
  /\ UNCHANGED <<data, object, handler, staged, refs, worker, again>>

-----------------------------------------------------------------------------
(* The steps of the Lua thread. *)

Await ==
  /\ At("await")
  /\ data[Head(todo).data].over
  /\ Then(<<>>)
  /\ UNCHANGED <<data, object, handler, staged, refs, worker, again>>

Think ==
  /\ At("think")
  /\ Then(Completing("report", finished))
  /\ finished' = <<>>
  /\ UNCHANGED <<data, object, handler, staged, refs, queue, active, cancelled, closed, again>>

\* pushCallbackReference: the function referenced at start(), else, of the
\* first data only, the one the table has now.
Handler(d) == IF data[d].fn # "none" \/ ~data[d].first THEN data[d].fn ELSE handler[Of(d)]

\* runCallback, and runAbortedCallback when query:abort() or db:disconnect()
\* calls it itself, which does not make d its object's callback data.
Report ==
  /\ At("report") \/ At("aborted")
  /\ LET d == Head(todo).data
         t == Of(d)
         mine == IF At("report") THEN {d} ELSE {} IN
     /\ callbackData' = [o \in Objects |->
          IF \E c \in mine \union Range(Parts(d)) : Of(c) = o
          THEN CHOOSE c \in mine \union Range(Parts(d)) :
                 /\ Of(c) = o
                 /\ \A i, j \in DOMAIN Parts(d) :     \* the last one set stays
                      Parts(d)[i] = c /\ Of(Parts(d)[j]) = o => j <= i
          ELSE callbackData[o]]
     /\ data' = [data EXCEPT ![d].heard = Handler(d)]
     /\ Then((IF Handler(d) = "none" THEN <<>> ELSE <<Step("callback", d)>>)
             \o (IF t \in Transactions THEN <<Step("clear", d)>> ELSE <<>>))
  /\ UNCHANGED <<running, started, handler, staged, refs, worker, again>>

Return ==
  /\ At("callback")
  /\ Then(<<>>)
  /\ UNCHANGED <<data, object, handler, staged, refs, worker, again>>

\* clearAddedQueriesFromCallbackTable.
Clear ==
  /\ At("clear")
  /\ Cleared(Of(Head(todo).data))
  /\ Then(<<>>)
  /\ UNCHANGED <<data, object, handler, worker, again>>

\* finishLuaQueryData.
Release ==
  /\ At("release")
  /\ LET d == Head(todo).data IN
     /\ running' = Dropped(DroppedAll(running, Parts(d)), d)
     /\ refs' = refs - Held(data[d].fn)
     /\ data' = [data EXCEPT ![d].phase = "released"]
  /\ Then(<<>>)
  /\ UNCHANGED <<started, callbackData, handler, staged, worker, again>>

-----------------------------------------------------------------------------
(* The worker. *)

Take ==
  /\ active = 0 /\ queue # <<>>
  /\ active' = Head(queue)
  /\ queue' = Tail(queue)
  /\ data' = [data EXCEPT ![Head(queue)].status = "RUNNING"]
  /\ UNCHANGED <<object, handler, staged, refs, finished, cancelled, closed, todo, again>>

BeginChild(c) ==
  /\ active # 0
  /\ c \in Range(Parts(active))
  /\ data[c].status = "NOT_RUNNING"
  /\ data' = [data EXCEPT ![c].status = "RUNNING"]
  /\ UNCHANGED <<object, handler, staged, refs, worker, todo, again>>

\* A transaction's children end with it.
Finish(status) ==
  /\ active # 0
  /\ status = "ABORTED" => cancelled
  /\ data' = [d \in Numbers |->
       IF InHand(d) THEN [data[d] EXCEPT !.status = status, !.over = TRUE] ELSE data[d]]
  /\ finished' = Append(finished, active)
  /\ active' = 0
  /\ cancelled' = FALSE
  /\ UNCHANGED <<object, handler, staged, refs, queue, closed, todo, again>>

-----------------------------------------------------------------------------
Next ==
  \/ \E o \in Objects :
       \/ \E f \in Functions : SetHandler(o, f)
       \/ Start(o) \/ StartRefused(o) \/ Abort(o)
       \/ \E swap \in BOOLEAN : Wait(o, swap)
  \/ \E t \in Transactions : ClearQueries(t) \/ \E q \in Queries : AddQuery(t, q)
  \/ Disconnect \/ Shutdown \/ ThinkHook
  \/ Await \/ Think \/ Report \/ Return \/ Clear \/ Release
  \/ Take \/ \E c \in Numbers : BeginChild(c)
  \/ \E s \in {"COMPLETE", "ABORTED"} : Finish(s)

Spec == Init /\ [][Next]_vars

-----------------------------------------------------------------------------
(* Properties. *)

UnderWay(d) == data[d].phase = "accepted"
Times(d, s) == Cardinality({i \in DOMAIN s : s[i] = d})

\* Out of whatever order the executions of an object end in, its running data is
\* what abort(), wait() and isRunning() have to go by: each execution of its own
\* that is not released is in it once, and every other entry is a child of a
\* transaction under way (IQuery.cpp:62).
RunningIsTrue ==
  \A o \in Objects :
    /\ \A d \in Numbers : Of(d) = o /\ UnderWay(d) => Times(d, running[o]) = 1
    /\ \A d \in Range(running[o]) :
         UnderWay(d) \/ \E t \in Numbers : UnderWay(t) /\ d \in Range(Parts(t))

\* The children of a transaction under way are in the running data of their
\* objects, unless a second start() of that transaction was refused
\* (LuaIQuery.cpp:13, IQuery.cpp:69).
ChildrenAreRunning ==
  \A t \in Numbers : UnderWay(t) /\ Of(t) \notin again =>
    \A i \in DOMAIN Parts(t) : Parts(t)[i] \in Range(running[Of(Parts(t)[i])])

\* When nothing is under way, the only references left are those of queries that
\* are staged now, one each (LuaIQuery.cpp:158, LuaTransaction.cpp:152).
StagedNow == {d \in Numbers : \E t \in Transactions : d \in Range(staged[t])}
NothingLeaks == (\A d \in Numbers : ~UnderWay(d)) => refs = Cardinality(StagedNow)

\* A function that is set after start() serves the first execution of its object
\* only, though earlier executions may end later (LuaObject.cpp:107,
\* IQuery.cpp:56).
LateHandlerOnce ==
  \A d, e \in Numbers :
    Of(d) = Of(e) /\ d < e /\ data[d].phase # "staged" /\ data[e].phase # "staged"
      => data[e].heard = data[e].fn \/ data[e].heard = "none"

-----------------------------------------------------------------------------
(* What makes these inductive. *)

\* An execution under way is in one place at a time: queued, with the worker,
\* finished, or about to be released by the Lua thread.  Any other is nowhere.
Places(d) ==
  Times(d, queue) + (IF active = d THEN 1 ELSE 0) + Times(d, finished)
  + Times(Step("release", d), todo)
Placed == \A d \in Numbers : Places(d) <= IF UnderWay(d) THEN 1 ELSE 0

\* A staged query belongs to one transaction, which is not started before it is
\* staged and takes it along once.
IsStaged(d) == data[d].phase = "staged"
Families ==
  /\ \A t \in Transactions : \A d \in Range(staged[t]) :
       /\ IsStaged(d) /\ Times(d, staged[t]) <= 1
       /\ \A u \in Transactions : d \in Range(staged[u]) => t = u
  /\ \A p \in Numbers : \A d \in Range(Parts(p)) :
       /\ IsStaged(d) /\ Times(d, Parts(p)) <= 1 /\ Of(p) \in Transactions
       /\ \A t \in Transactions : d \in Range(staged[t]) => t = Of(p)
       /\ \A r \in Numbers : d \in Range(Parts(r)) => r = p
  /\ \A d \in Numbers : IF IsStaged(d) THEN Of(d) \in Queries ELSE started[Of(d)]

\* No object has an execution of another one, or one twice.
Entries ==
  \A o \in Objects : \A d \in Range(running[o]) : Of(d) = o /\ Times(d, running[o]) <= 1

\* One reference for each staged query and each execution, and one for a handler.
HasHandler(d) == UnderWay(d) /\ data[d].fn # "none"
Counted ==
  refs = Cardinality(StagedNow) + Cardinality({d \in Numbers : UnderWay(d)})
         + Cardinality({d \in Numbers : HasHandler(d)})

\* Only the first execution of an object looks for a handler later.
OnlyTheFirst ==
  \A d, e \in Numbers :
    Of(d) = Of(e) /\ d < e /\ ~IsStaged(d) /\ ~IsStaged(e) => ~data[e].first

IInv ==
  /\ TypeOK /\ Placed /\ Families /\ Entries /\ RunningIsTrue /\ ChildrenAreRunning
  /\ Counted /\ OnlyTheFirst /\ LateHandlerOnce
=============================================================================
