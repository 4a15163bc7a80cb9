----------------------------- MODULE Connection -----------------------------
(***************************************************************************)
(* The connection of one Database object: how it is made, lost, made again *)
(* and closed by the worker thread (connectRun, attemptReconnect) and by   *)
(* db:ping() on the Lua thread, and the callbacks Lua hears of it.         *)
(*                                                                         *)
(* What the worker executes is modelled in Database.tla; here a statement  *)
(* only finds the session open or not, and may lose it.  The Lua thread is *)
(* a stack "todo" of the steps it still has to take, as in Database.tla.   *)
(***************************************************************************)
EXTENDS Naturals, SequencesExt

CONSTANTS MaxRuns,     \* bound: statements the worker takes
          MaxPings,    \* bound: pings that find the connection gone
          MaxNested,   \* bound: goodbyes said inside an onDisconnected callback,
                       \* which the code may say without end
          Calls        \* the API calls the Lua program makes besides
                       \* db:connect() and db:disconnect()

CallNames == {"wait", "ping", "setAutoReconnect", "disconnectTrue", "connectAgain"}

ASSUME BoundsAssumption == MaxRuns \in Nat /\ MaxPings \in Nat /\ MaxNested \in Nat
ASSUME CallsAssumption  == Calls \subseteq CallNames

VARIABLES
  (* Database: *)
  started,       \* startedConnecting
  done,          \* m_connectionDone
  success,       \* m_success
  dbStatus,      \* m_status
  shuttingDown,  \* m_shuttingDown
  disconnected,  \* disconnected
  auto,          \* shouldAutoReconnect
  closed,        \* the query queue is closed
  session,       \* m_session: no handle, CONNECTION_OK or CONNECTION_BAD
  log,           \* m_reconnectLog
  finished,      \* finished executions whose callback waits for think()
  (* The worker thread: *)
  pc,            \* where it is
  after,         \* where it goes on once the session is open again
  runs,          \* statements taken
  (* LuaDatabase, on the Lua thread: *)
  todo,          \* the steps it still has to take
  pinned,        \* m_tableReference is set
  ran,           \* m_dbCallbackRan
  (* History: *)
  attempt,       \* how the first connection attempt ended
  owed,          \* reconnect events that happened, not told or dropped yet
  dropped,       \* some were taken when no table reference was left
  refused,       \* a refused db:connect() pinned the table again
  pings,         \* pings that found the connection gone
  heard          \* how often each connection callback was run, those of
                 \* onDisconnected inside itself apart ("nested")

flagVars  == <<started, done, success, shuttingDown, disconnected, auto, closed>>
workVars  == <<pc, after, runs>>
luaVars   == <<todo, pinned, ran>>
countVars == <<owed, dropped>>
ghostVars == <<attempt, countVars, refused, pings, heard>>
vars == <<flagVars, dbStatus, session, log, finished, workVars, luaVars, ghostVars>>

DatabaseStatuses == {"CONNECTED", "CONNECTING", "NOT_CONNECTED", "CONNECTION_FAILED"}
Reconnects       == {"onReconnect", "onReconnectFailed"}
Callbacks        == {"onConnected", "onConnectionFailed", "onDisconnected", "nested"}

\* Where the worker holds m_connectMutex, and m_queryMutex.
Connecting    == {"storeSuccess", "storeDone", "storeStatus", "notify", "failClose"}
InStatement   == {"exec", "failed", "retry", "reconnecting", "log"}
WorkerPCs     == Connecting \union InStatement \union
                 {"none", "starting", "idle", "begin", "put", "reset",
                  "disconnecting", "lastStatus", "gone"}

\* Where the Lua thread holds m_queryMutex, in ping().
PingOps == {"pingRetry", "pingConnect", "pingLog"}
Ops     == PingOps \union Reconnects \union
           {"callback", "shutdown", "shutStatus", "close", "join", "await",
            "asleep", "ping", "connection", "takeEvents", "takeFinished", "complete",
            "bye", "free"}

TypeOK ==
  /\ {started, done, success, shuttingDown, disconnected, auto, closed} \subseteq BOOLEAN
  /\ dbStatus \in DatabaseStatuses
  /\ session \in {"none", "open", "dead"}
  /\ log \in Seq(Reconnects)
  /\ finished \in 0..MaxRuns /\ runs \in 0..MaxRuns
  /\ pc \in WorkerPCs /\ after \in {"exec", "put"}
  /\ todo \in Seq(Ops)
  /\ {pinned, ran, refused} \subseteq BOOLEAN
  /\ attempt \in {"none", "up", "down"}
  /\ owed \in Nat /\ Len(log) <= owed
  /\ dropped \in BOOLEAN /\ pings \in 0..MaxPings
  /\ heard \in [Callbacks -> Nat]

Init ==
  /\ started = FALSE /\ done = FALSE /\ success = TRUE /\ dbStatus = "NOT_CONNECTED"
  /\ shuttingDown = FALSE /\ disconnected = FALSE /\ auto = TRUE /\ closed = FALSE
  /\ session = "none" /\ log = <<>> /\ finished = 0
  /\ pc = "none" /\ after = "put" /\ runs = 0
  /\ todo = <<>> /\ pinned = FALSE /\ ran = FALSE
  /\ attempt = "none" /\ owed = 0 /\ dropped = FALSE /\ refused = FALSE
  /\ pings = 0 /\ heard = [c \in Callbacks |-> 0]

-----------------------------------------------------------------------------
(* The Lua thread's stack. *)

At(op)    == todo # <<>> /\ Head(todo) = op
Then(s)   == todo' = s \o Tail(todo)

\* The steps of LuaDatabase::think.
Think     == <<"connection", "takeEvents", "takeFinished", "bye">>

\* Lua code has the floor: the game, or a callback.
LuaRuns   == todo # <<>> => Head(todo) = "callback"
Call(s)   == LuaRuns /\ todo' = s \o todo

\* A callback runs whose table is still to be released after it: when the
\* database is disconnected, that is onDisconnected.
Releasing == Contains(todo, "free")

\* Bound: a call that thinks, inside onDisconnected, runs onDisconnected again.
MayThink  == Releasing => heard["nested"] < MaxNested

\* m_queryMutex is free for the other thread.
LuaInPing == todo # <<>> /\ Head(todo) \in PingOps

-----------------------------------------------------------------------------
(* API calls. *)

\* db:connect().
Connect ==
  /\ LuaRuns
  /\ ~started /\ dbStatus = "NOT_CONNECTED"
  /\ started' = TRUE
  /\ dbStatus' = "CONNECTING"
  /\ pinned' = TRUE
  /\ pc' = "starting"
  /\ UNCHANGED <<done, success, shuttingDown, disconnected, auto, closed, session, log,
                 finished, after, runs, todo, ran, ghostVars>>

\* db:connect(), when it throws "Database already connected.": after it has
\* referenced the table, if nothing referenced it any more.
ConnectRefused ==
  /\ "connectAgain" \in Calls
  /\ LuaRuns
  /\ started /\ ~pinned
  /\ pinned' = TRUE
  /\ refused' = TRUE
  /\ ~refused    \* bound: once
  /\ UNCHANGED <<flagVars, dbStatus, session, log, finished, workVars, todo, ran,
                 attempt, countVars, pings, heard>>

ThinkHook ==
  /\ todo = <<>>
  /\ todo' = Think
  /\ UNCHANGED <<flagVars, dbStatus, session, log, finished, workVars, pinned, ran, ghostVars>>

\* db:disconnect(wait); what it aborts is modelled in Database.tla.
Disconnect(wait) ==
  /\ wait => "disconnectTrue" \in Calls /\ MayThink
  /\ Call((IF started THEN <<"shutdown">> ELSE <<>>)
           \o (IF wait /\ started THEN <<"join">> ELSE <<>>)
           \o (IF wait THEN Think ELSE <<>>))
  /\ UNCHANGED <<flagVars, dbStatus, session, log, finished, workVars, pinned, ran, ghostVars>>

\* db:wait(), which throws before connect().
WaitConnected ==
  /\ "wait" \in Calls
  /\ started
  /\ MayThink
  /\ Call(<<"await">> \o Think)
  /\ UNCHANGED <<flagVars, dbStatus, session, log, finished, workVars, pinned, ran, ghostVars>>

Ping ==
  /\ "ping" \in Calls
  /\ Call(<<"ping">>)
  /\ UNCHANGED <<flagVars, dbStatus, session, log, finished, workVars, pinned, ran, ghostVars>>

SetAutoReconnect ==
  /\ "setAutoReconnect" \in Calls
  /\ LuaRuns
  /\ auto' = ~auto
  /\ UNCHANGED <<started, done, success, shuttingDown, disconnected, closed, dbStatus,
                 session, log, finished, workVars, luaVars, ghostVars>>

-----------------------------------------------------------------------------
(* shutdown(), join and db:wait(). *)

Shutdown ==
  /\ At("shutdown")
  /\ shuttingDown' = TRUE
  /\ Then(IF shuttingDown THEN <<>> ELSE <<"shutStatus", "close">>)
  /\ UNCHANGED <<started, done, success, disconnected, auto, closed, dbStatus, session,
                 log, finished, workVars, pinned, ran, ghostVars>>

ShutStatus ==
  /\ At("shutStatus")
  /\ dbStatus' = "NOT_CONNECTED"
  /\ Then(<<>>)
  /\ UNCHANGED <<flagVars, session, log, finished, workVars, pinned, ran, ghostVars>>

Close ==
  /\ At("close")
  /\ closed' = TRUE
  /\ Then(<<>>)
  /\ UNCHANGED <<started, done, success, shuttingDown, disconnected, auto, dbStatus,
                 session, log, finished, workVars, pinned, ran, ghostVars>>

Join ==
  /\ At("join")
  /\ pc = "gone"
  /\ Then(<<>>)
  /\ UNCHANGED <<flagVars, dbStatus, session, log, finished, workVars, pinned, ran, ghostVars>>

\* Database::wait(): under m_connectMutex, it returns or goes to sleep.
Await ==
  /\ At("await")
  /\ pc \notin Connecting
  /\ Then(IF done THEN <<>> ELSE <<"asleep">>)
  /\ UNCHANGED <<flagVars, dbStatus, session, log, finished, workVars, pinned, ran, ghostVars>>

-----------------------------------------------------------------------------
(* LuaDatabase::think. *)

\* onConnected, or onConnectionFailed and then the table is not referenced any
\* more.
TellingConnection(frees) ==
  /\ At("connection")
  /\ IF done /\ ~ran /\ pinned
     THEN /\ ran' = TRUE
          /\ heard' = [heard EXCEPT ![IF success THEN "onConnected"
                                      ELSE "onConnectionFailed"] = @ + 1]
          /\ Then(IF frees THEN <<"callback", "free">> ELSE <<"callback">>)
     ELSE Then(<<>>) /\ UNCHANGED <<ran, heard>>
  /\ UNCHANGED <<flagVars, dbStatus, session, log, finished, workVars, pinned, attempt,
                 countVars, refused, pings>>
TellAndFree        == TellingConnection(TRUE)   \* mutant: onConnected frees it too
ConnectionCallback == TellingConnection(~success)

TakeEvents ==
  /\ At("takeEvents")
  /\ log' = <<>>
  /\ Then(IF pinned THEN log ELSE <<>>)
  /\ owed' = IF pinned THEN owed ELSE owed - Len(log)
  /\ dropped' = (dropped \/ (~pinned /\ log # <<>>))
  /\ UNCHANGED <<flagVars, dbStatus, session, finished, workVars, pinned, ran, attempt,
                 refused, pings, heard>>

\* onReconnect or onReconnectFailed.
ReconnectCallback ==
  /\ todo # <<>> /\ Head(todo) \in Reconnects
  /\ owed' = owed - 1
  /\ Then(<<"callback">>)
  /\ UNCHANGED <<flagVars, dbStatus, session, log, finished, workVars, pinned, ran,
                 attempt, dropped, refused, pings, heard>>

TakeFinished ==
  /\ At("takeFinished")
  /\ Then([i \in 1..finished |-> "complete"])
  /\ finished' = 0
  /\ UNCHANGED <<flagVars, dbStatus, session, log, workVars, pinned, ran, ghostVars>>

\* The callback of a finished execution.
Complete ==
  /\ At("complete")
  /\ Then(<<"callback">>)
  /\ UNCHANGED <<flagVars, dbStatus, session, log, finished, workVars, pinned, ran, ghostVars>>

\* onDisconnected; then the table is not referenced any more.
Bye ==
  /\ At("bye")
  /\ IF disconnected /\ pinned
     THEN /\ heard' = [heard EXCEPT ![IF Releasing THEN "nested"
                                      ELSE "onDisconnected"] = @ + 1]
          /\ Then(<<"callback", "free">>)
     ELSE Then(<<>>) /\ UNCHANGED heard
  /\ UNCHANGED <<flagVars, dbStatus, session, log, finished, workVars, pinned, ran,
                 attempt, countVars, refused, pings>>

Freeing(keeps) ==
  /\ At("free")
  /\ pinned' = keeps
  /\ Then(<<>>)
  /\ UNCHANGED <<flagVars, dbStatus, session, log, finished, workVars, ran, ghostVars>>
FreeNot == Freeing(TRUE)     \* mutant: the reference is kept
Free    == Freeing(FALSE)

\* A callback returns.
Return ==
  /\ At("callback")
  /\ Then(<<>>)
  /\ UNCHANGED <<flagVars, dbStatus, session, log, finished, workVars, pinned, ran, ghostVars>>

-----------------------------------------------------------------------------
(* attemptReconnect, by either thread, which holds m_queryMutex. *)

\* It gives up if the database is shutting down.
NeverGivesUp == FALSE                    \* mutant: m_shuttingDown is not looked at
GivesUp      == shuttingDown

\* Else the old session goes ...
OldSessionGone == session' = "none" /\ dbStatus' = "NOT_CONNECTED"

\* ... and there is a new one, or none ...
Reconnected ==
  \/ session' = "open" /\ dbStatus' = "CONNECTED"
  \/ session' = "none" /\ dbStatus' = "CONNECTION_FAILED"

\* ... which is logged for Lua.
Log ==
  /\ log' = Append(log, IF session = "open" THEN "onReconnect" ELSE "onReconnectFailed")
  /\ owed' = owed + 1
  /\ UNCHANGED <<attempt, dropped, refused, pings, heard>>

(* Database::ping.  Pings do not fail while the worker holds m_queryMutex. *)

PingAnswered ==
  /\ At("ping")
  /\ pc \notin InStatement
  /\ session = "open"
  /\ Then(<<>>)
  /\ UNCHANGED <<flagVars, dbStatus, session, log, finished, workVars, pinned, ran, ghostVars>>

PingFails ==
  /\ At("ping")
  /\ pc \notin InStatement
  /\ session' \in (IF session = "open" THEN {"open", "dead"} ELSE {session})
  /\ IF dbStatus = "CONNECTED"
     THEN /\ pings < MaxPings
          /\ pings' = pings + 1
          /\ dbStatus' = "NOT_CONNECTED"
          /\ Then(IF auto THEN <<"pingRetry">> ELSE <<>>)
     ELSE Then(<<>>) /\ UNCHANGED <<dbStatus, pings>>
  /\ UNCHANGED <<flagVars, log, finished, workVars, pinned, ran, attempt, countVars,
                 refused, heard>>

PingRetry ==
  /\ At("pingRetry")
  /\ IF GivesUp
     THEN Then(<<>>) /\ UNCHANGED <<session, dbStatus>>
     ELSE Then(<<"pingConnect">>) /\ OldSessionGone
  /\ UNCHANGED <<flagVars, log, finished, workVars, pinned, ran, ghostVars>>

PingConnect ==
  /\ At("pingConnect")
  /\ Reconnected
  /\ Then(<<"pingLog">>)
  /\ UNCHANGED <<flagVars, log, finished, workVars, pinned, ran, ghostVars>>

PingLog ==
  /\ At("pingLog")
  /\ Log
  /\ Then(<<>>)
  /\ UNCHANGED <<flagVars, dbStatus, session, finished, workVars, pinned, ran>>

-----------------------------------------------------------------------------
(* The worker thread: connectRun. *)

WorkerAt(p) == pc = p
Goto(p)     == pc' = p /\ UNCHANGED <<after, runs>>

\* attemptConnection(), which waits for m_queryMutex.
AttemptConnection ==
  /\ WorkerAt("starting")
  /\ ~LuaInPing
  /\ \E up \in BOOLEAN :
       /\ session' = IF up THEN "open" ELSE "none"
       /\ attempt' = IF up THEN "up" ELSE "down"
  /\ Goto("storeSuccess")
  /\ UNCHANGED <<flagVars, dbStatus, log, finished, luaVars, countVars, refused, pings, heard>>

StoringSuccess(value) ==
  /\ WorkerAt("storeSuccess")
  /\ success' = value
  /\ Goto("storeDone")
  /\ UNCHANGED <<started, done, shuttingDown, disconnected, auto, closed, dbStatus,
                 session, log, finished, luaVars, ghostVars>>
StoreSuccessNot == StoringSuccess(success)   \* mutant: a failure is not stored
StoreSuccess    == StoringSuccess(attempt = "up")

StoreDone ==
  /\ WorkerAt("storeDone")
  /\ done' = TRUE
  /\ Goto("storeStatus")
  /\ UNCHANGED <<started, success, shuttingDown, disconnected, auto, closed, dbStatus,
                 session, log, finished, luaVars, ghostVars>>

StoreStatus ==
  /\ WorkerAt("storeStatus")
  /\ dbStatus' = IF attempt = "up" THEN "CONNECTED" ELSE "CONNECTION_FAILED"
  /\ Goto("notify")
  /\ UNCHANGED <<flagVars, session, log, finished, luaVars, ghostVars>>

Notifying(wakes) ==
  /\ WorkerAt("notify")
  /\ todo' = IF wakes /\ At("asleep") THEN <<"await">> \o Tail(todo) ELSE todo
  /\ Goto(IF attempt = "up" THEN "idle" ELSE "failClose")
  /\ UNCHANGED <<flagVars, dbStatus, session, log, finished, pinned, ran, ghostVars>>
NotifyNot == Notifying(FALSE)            \* mutant: nobody is notified
Notify    == Notifying(TRUE)

FailClose ==
  /\ WorkerAt("failClose")
  /\ closed' = TRUE
  /\ Goto("gone")
  /\ UNCHANGED <<started, done, success, shuttingDown, disconnected, auto, dbStatus,
                 session, log, finished, luaVars, ghostVars>>

-----------------------------------------------------------------------------
(* The worker thread: run and runQuery. *)

TakeNext ==
  /\ WorkerAt("idle")
  /\ \/ closed /\ Goto("reset")
     \/ /\ ~closed /\ runs < MaxRuns
        /\ runs' = runs + 1
        /\ pc' = "begin"
        /\ UNCHANGED after
  /\ UNCHANGED <<flagVars, dbStatus, session, log, finished, luaVars, ghostVars>>

\* m_queryMutex is taken; the statement finds a session, or tries to get one.
Begin ==
  /\ WorkerAt("begin")
  /\ ~LuaInPing
  /\ UNCHANGED runs
  /\ \/ shuttingDown /\ Goto("put")
     \/ ~shuttingDown /\ session = "open" /\ Goto("exec")
     \/ ~shuttingDown /\ session # "open" /\ auto /\ pc' = "retry" /\ after' = "exec"
     \/ ~shuttingDown /\ session # "open" /\ ~auto /\ Goto("failed")
  /\ UNCHANGED <<flagVars, dbStatus, session, log, finished, luaVars, ghostVars>>

\* It ends, with an error or without, or throws what isRetriableError lets
\* reconnect.  Either way the connection may be lost: COPY resets it, and a server
\* may report a connection exception on an open session.
Execute ==
  /\ WorkerAt("exec")
  /\ Goto("put") \/ Goto("failed")
  /\ session' \in {"open", "dead"}
  /\ UNCHANGED <<flagVars, dbStatus, log, finished, luaVars, ghostVars>>

\* The handler: one (more) attempt to reconnect; the statement has failed.
Failed ==
  /\ WorkerAt("failed")
  /\ pc' = IF auto THEN "retry" ELSE "put"
  /\ after' = "put"
  /\ UNCHANGED <<runs, flagVars, dbStatus, session, log, finished, luaVars, ghostVars>>

\* After attemptReconnect: without a session, runQuery throws to its handler.
Onward(up) == IF ~up /\ after = "exec" THEN "failed" ELSE after

Reconnect ==
  /\ WorkerAt("retry")
  /\ IF GivesUp
     THEN Goto(Onward(FALSE)) /\ UNCHANGED <<session, dbStatus>>
     ELSE Goto("reconnecting") /\ OldSessionGone
  /\ UNCHANGED <<flagVars, log, finished, luaVars, ghostVars>>

Reconnecting ==
  /\ WorkerAt("reconnecting")
  /\ Reconnected
  /\ Goto("log")
  /\ UNCHANGED <<flagVars, log, finished, luaVars, ghostVars>>

LogReconnect ==
  /\ WorkerAt("log")
  /\ Log
  /\ Goto(Onward(session = "open"))
  /\ UNCHANGED <<flagVars, dbStatus, session, finished, luaVars>>

\* The statement has finished: its callback waits for the Lua thread.
Put ==
  /\ WorkerAt("put")
  /\ finished' = finished + 1
  /\ Goto("idle")
  /\ UNCHANGED <<flagVars, dbStatus, session, log, luaVars, ghostVars>>

-----------------------------------------------------------------------------
(* The worker thread: the end of connectRun. *)

Reset ==
  /\ WorkerAt("reset")
  /\ ~LuaInPing
  /\ session' = "none"
  /\ Goto("disconnecting")
  /\ UNCHANGED <<flagVars, dbStatus, log, finished, luaVars, ghostVars>>

Disconnecting(value) ==
  /\ WorkerAt("disconnecting")
  /\ disconnected' = value
  /\ Goto("lastStatus")
  /\ UNCHANGED <<started, done, success, shuttingDown, auto, closed, dbStatus, session,
                 log, finished, luaVars, ghostVars>>
SetDisconnectedNot == Disconnecting(FALSE)   \* mutant: Lua is not told
SetDisconnected    == Disconnecting(TRUE)

LastStatus ==
  /\ WorkerAt("lastStatus")
  /\ dbStatus' = IF dbStatus = "CONNECTED" THEN "NOT_CONNECTED" ELSE dbStatus
  /\ Goto("gone")
  /\ UNCHANGED <<flagVars, session, log, finished, luaVars, ghostVars>>

-----------------------------------------------------------------------------
Worker ==
  \/ AttemptConnection \/ StoreSuccess \/ StoreDone \/ StoreStatus \/ Notify \/ FailClose
  \/ TakeNext \/ Begin \/ Execute \/ Failed \/ Reconnect \/ Reconnecting
  \/ LogReconnect \/ Put \/ Reset \/ SetDisconnected \/ LastStatus

\* What the Lua thread goes on with by itself.
LuaStep ==
  \/ Shutdown \/ ShutStatus \/ Close \/ Join \/ Await
  \/ ConnectionCallback \/ TakeEvents \/ ReconnectCallback \/ TakeFinished \/ Complete
  \/ Bye \/ Free
  \/ PingAnswered \/ PingFails \/ PingRetry \/ PingConnect \/ PingLog

\* What the Lua program does.
LuaCall ==
  \/ Connect \/ ConnectRefused \/ WaitConnected \/ Ping \/ SetAutoReconnect
  \/ \E wait \in BOOLEAN : Disconnect(wait)

Next == Worker \/ LuaStep \/ LuaCall \/ ThinkHook \/ Return

Spec == Init /\ [][Next]_vars

\* The threads run and get the mutexes they wait for; a callback returns, and
\* the game's Think hook comes again and again, whatever Lua does in between.
Fairness ==
  /\ WF_vars(Worker)
  /\ WF_vars(LuaStep)
  /\ SF_vars(Return)
  /\ SF_vars(ThinkHook)

FairSpec == Spec /\ Fairness

-----------------------------------------------------------------------------
(* Properties. *)

Heard(c) == heard[c] > 0

\* Lua hears once, and truly, how connect() ended, whatever think() is nested
\* in (LuaDatabase.cpp:466).
ConnectedOnceAndTrue ==
  /\ heard["onConnected"] + heard["onConnectionFailed"] <= 1
  /\ Heard("onConnected") => attempt = "up"
  /\ Heard("onConnectionFailed") => attempt = "down"

\* Lua hears once that the database was disconnected, for each time its table
\* was referenced, unless it asks for more: the table is released only after
\* the callback, so an onDisconnected callback in which db:wait() or
\* db:disconnect(true) thinks is run again inside itself ("nested"), as often as
\* it does that (LuaDatabase.cpp:523-535).
GoodbyeOnce ==
  heard["onDisconnected"] <= IF refused THEN 2 ELSE 1

\* Every reconnect event is in the log, about to be told, told, or came when
\* onDisconnected had released the table (LuaDatabase.cpp:497).
EventsAccountedFor ==
  /\ owed = Len(log) + Cardinality({i \in DOMAIN todo : todo[i] \in Reconnects})
  /\ dropped => Heard("onDisconnected")

\* Whatever shutdown(), ping() and reconnects stored in between, a database
\* whose worker thread has ended has no session and does not say that it is
\* connected or connecting (Database.cpp:240-247).
NothingLeftOpen ==
  pc = "gone" => session = "none" /\ dbStatus \notin {"CONNECTED", "CONNECTING"}

\* db:wait() returns (Database.cpp:107).
WaitEnds ==
  (At("await") \/ At("asleep")) ~> ~(At("await") \/ At("asleep"))

\* A database that was connected and is shut down says goodbye to Lua.
GoodbyeArrives ==
  shuttingDown /\ attempt = "up" ~> Heard("onDisconnected")

-----------------------------------------------------------------------------
(* What makes the safety of these inductive. *)

Typed ==
  /\ {started, done, success, shuttingDown, disconnected, closed} \subseteq BOOLEAN
  /\ {pinned, ran, refused} \subseteq BOOLEAN
  /\ dbStatus \in DatabaseStatuses /\ session \in {"none", "open", "dead"}
  /\ log \in Seq(Reconnects) /\ finished \in Nat
  /\ pc \in WorkerPCs /\ after \in {"exec", "put"}
  /\ attempt \in {"none", "up", "down"}
  /\ heard \in [Callbacks -> Nat]

\* A ping is not called over; one that connects has found the database not
\* shutting down, which only Lua changes.
StackProper ==
  /\ todo \in Seq(Ops)
  /\ todo # <<>> => \A op \in PingOps : ~Contains(Tail(todo), op)
  /\ Contains(todo, "shutStatus") \/ Contains(todo, "close") => shuttingDown
  /\ LuaInPing => attempt = "up"
  /\ At("pingConnect") \/ At("pingLog") => ~shuttingDown

\* Where the worker is, by what connectRun has stored.
Began ==
  /\ started <=> pc # "none"
  /\ attempt = "none" <=> pc \in {"none", "starting"}
  /\ done <=> pc \notin {"none", "starting", "storeSuccess", "storeDone"}
  /\ pc \notin {"none", "starting", "storeSuccess"} => success = (attempt = "up")
  /\ attempt = "down" => pc \in Connecting \union {"gone"}
  /\ pc = "failClose" => attempt = "down"

\* It ends by a shutdown or a failed connection, and from then on there is no
\* session.
Ends ==
  /\ closed \/ pc = "gone" => shuttingDown \/ (attempt = "down" /\ pc = "gone")
  /\ pc \in {"reset", "disconnecting", "lastStatus"} => shuttingDown
  /\ pc \in {"disconnecting", "lastStatus", "gone"} \/ attempt # "up" => session = "none"
  /\ dbStatus = "CONNECTED" => attempt = "up" /\ pc # "gone"
  /\ dbStatus = "CONNECTING" => pc \in {"starting", "storeSuccess", "storeDone", "storeStatus"}

\* What Lua was told, and when it may be told more.
Told ==
  /\ ran => done
  /\ ~ran => heard["onConnected"] = 0 /\ heard["onConnectionFailed"] = 0
  /\ ran /\ attempt = "up" => heard["onConnected"] = 1 /\ heard["onConnectionFailed"] = 0
  /\ ran /\ attempt = "down" => heard["onConnected"] = 0 /\ heard["onConnectionFailed"] = 1
  /\ disconnected => pc \in {"lastStatus", "gone"}
  /\ heard["onDisconnected"] > 0 => disconnected
  /\ GoodbyeOnce
  /\ pinned /\ ~Releasing => heard["onDisconnected"] <= IF refused THEN 1 ELSE 0

IInv == Typed /\ StackProper /\ Began /\ Ends /\ Told

\* There are events only once the database was connected, and then the table is
\* released, or soon will be, only when it has said goodbye.
Released ==
  /\ log # <<>> => attempt = "up"
  /\ started /\ ~pinned => attempt = "down" \/ Heard("onDisconnected")
  /\ Releasing => attempt = "down" \/ Heard("onDisconnected")

EventsInv == Released /\ EventsAccountedFor

\* A statement the worker has taken is counted, and has not finished yet.
WithinBounds ==
  /\ runs \in 0..MaxRuns /\ pings \in 0..MaxPings
  /\ finished + (IF pc \in InStatement \union {"begin", "put"} THEN 1 ELSE 0) <= runs
  /\ auto \in BOOLEAN /\ dropped \in BOOLEAN
=============================================================================
