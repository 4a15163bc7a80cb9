--------------------------- MODULE ConnectionProofs ---------------------------
(***************************************************************************)
(* Proofs about Connection: its safety, for any number of statements and   *)
(* pings, and whatever the program calls; and about the settings it is     *)
(* made with (ConnectionConfig), whatever texts they are.                  *)
(***************************************************************************)
EXTENDS Connection, ConnectionConfig, SequenceLemmas

-----------------------------------------------------------------------------
(* The Lua thread's stack. *)

USE DEF Releasing

\* Steps that may be called over, and do not shut down.
Plain(s) ==
  s \in Seq(Ops) /\ \A op \in PingOps \union {"shutStatus", "close"} : ~Contains(s, op)

LEMMA PlainSteps ==
  /\ Plain(<<>>)
  /\ \A op \in Ops \ (PingOps \union {"shutStatus", "close"}) : Plain(<<op>>)
<1> USE DEF Plain, Contains
<1>1. Plain(<<>>)
  OBVIOUS
<1>2. ASSUME NEW op \in Ops \ (PingOps \union {"shutStatus", "close"})
      PROVE  Plain(<<op>>)
  BY <1>2
<1> QED BY <1>1, <1>2

LEMMA PlainConcat ==
  ASSUME NEW s, NEW t, Plain(s), Plain(t)
  PROVE  Plain(s \o t)
BY ContainsConcat DEF Plain

\* What a step leaves on the stack.
LEMMA Popped ==
  ASSUME StackProper, todo # <<>>
  PROVE  /\ Tail(todo) \in Seq(Ops) /\ Head(todo) \in Ops
         /\ \A op : Contains(todo, op) <=> op = Head(todo) \/ Contains(Tail(todo), op)
         /\ \A op \in PingOps : ~Contains(Tail(todo), op)
         /\ Tail(todo) # <<>> =>
              /\ Head(Tail(todo)) \notin PingOps
              /\ \A op \in PingOps : ~Contains(Tail(Tail(todo)), op)
<1>1. /\ todo \in Seq(Ops) /\ Tail(todo) \in Seq(Ops) /\ Head(todo) \in Ops
      /\ \A op : Contains(todo, op) <=> op = Head(todo) \/ Contains(Tail(todo), op)
  BY ContainsTail DEF StackProper
<1>2. \A op \in PingOps : ~Contains(Tail(todo), op)
  BY DEF StackProper
<1>3. ASSUME Tail(todo) # <<>>
      PROVE  \A op : Contains(Tail(todo), op) <=>
               op = Head(Tail(todo)) \/ Contains(Tail(Tail(todo)), op)
  BY <1>1, <1>3, ContainsTail
<1> QED BY <1>1, <1>2, <1>3

\* What steps pushed in the place of the first one leave.
LEMMA Pushed ==
  ASSUME StackProper, todo # <<>>, NEW s \in Seq(Ops), s # <<>>, Then(s)
  PROVE  /\ todo' \in Seq(Ops) /\ todo' # <<>> /\ Head(todo') = Head(s)
         /\ Tail(todo') = Tail(s) \o Tail(todo) /\ Tail(s) \in Seq(Ops)
         /\ \A op : Contains(todo', op) <=> Contains(s, op) \/ Contains(Tail(todo), op)
         /\ \A op : Contains(Tail(todo'), op) <=> Contains(Tail(s), op) \/ Contains(Tail(todo), op)
<1> DEFINE t == Tail(todo)
<1>1. t \in Seq(Ops) /\ Tail(s) \in Seq(Ops) /\ todo' = s \o t
  BY Popped, ContainsTail DEF Then
<1>2. /\ todo' \in Seq(Ops)
      /\ \A op : Contains(todo', op) <=> Contains(s, op) \/ Contains(t, op)
      /\ \A op : Contains(Tail(s) \o t, op) <=> Contains(Tail(s), op) \/ Contains(t, op)
  BY <1>1, ContainsConcat
<1>3. Tail(todo') = Tail(s) \o t /\ Head(todo') = Head(s) /\ todo' # <<>>
  BY <1>1, ConcatHeadTail
<1> QED BY <1>1, <1>2, <1>3

LEMMA PlainStep ==
  ASSUME StackProper, todo # <<>>, NEW s, Plain(s), Then(s), shuttingDown => shuttingDown'
  PROVE  StackProper'
<1>1. s \in Seq(Ops) /\ \A op \in PingOps \union {"shutStatus", "close"} : ~Contains(s, op)
  BY DEF Plain
<1>2. CASE s = <<>>
  <2>1. todo' = Tail(todo)
    BY <1>2, Popped, ConcatEmptySeq DEF Then
  <2>2. /\ todo' \in Seq(Ops)
        /\ todo' # <<>> => Head(todo') \notin PingOps /\ \A op \in PingOps : ~Contains(Tail(todo'), op)
        /\ \A op : Contains(todo', op) => Contains(todo, op)
    BY <2>1, Popped
  <2> QED BY <2>2 DEF StackProper, At, LuaInPing, PingOps
<1>3. CASE s # <<>>
  <2>1. /\ todo' \in Seq(Ops) /\ Head(todo') = Head(s)
        /\ \A op : Contains(todo', op) <=> Contains(s, op) \/ Contains(Tail(todo), op)
        /\ \A op : Contains(Tail(todo'), op) <=> Contains(Tail(s), op) \/ Contains(Tail(todo), op)
    BY <1>1, <1>3, Pushed
  <2>2. \A op : Contains(s, op) <=> op = Head(s) \/ Contains(Tail(s), op)
    BY <1>1, <1>3, ContainsTail
  <2>3. Head(todo') \notin PingOps /\ \A op \in PingOps : ~Contains(Tail(todo'), op)
    BY <1>1, <2>1, <2>2, Popped
  <2>4. Contains(todo', "shutStatus") \/ Contains(todo', "close") => shuttingDown'
    BY <1>1, <2>1, Popped DEF StackProper
  <2> QED BY <2>1, <2>3, <2>4 DEF StackProper, At, LuaInPing, PingOps
<1> QED BY <1>2, <1>3

LEMMA CallStep ==
  ASSUME StackProper, NEW s, Plain(s), Call(s), shuttingDown' = shuttingDown
  PROVE  StackProper'
<1>1. s \in Seq(Ops) /\ \A op \in PingOps \union {"shutStatus", "close"} : ~Contains(s, op)
  BY DEF Plain
<1>2. todo \in Seq(Ops) /\ todo' = s \o todo
  BY DEF StackProper, Call
<1>3. \A op \in PingOps : ~Contains(todo, op)
  <2>1. CASE todo = <<>>
    BY <2>1, ContainsEmpty
  <2>2. CASE todo # <<>>
    BY <2>2, Popped DEF Call, LuaRuns, PingOps
  <2> QED BY <2>1, <2>2
<1>4. /\ todo' \in Seq(Ops)
      /\ \A op : Contains(todo', op) <=> Contains(s, op) \/ Contains(todo, op)
  BY <1>1, <1>2, ContainsConcat
<1>5. todo' # <<>> => /\ Head(todo') \notin PingOps
                      /\ \A op \in PingOps : ~Contains(Tail(todo'), op)
  BY <1>1, <1>3, <1>4, ContainsTail
<1>6. Contains(todo', "shutStatus") \/ Contains(todo', "close") => shuttingDown'
  BY <1>1, <1>4 DEF StackProper
<1> QED BY <1>4, <1>5, <1>6 DEF StackProper, At, LuaInPing, PingOps

\* A step of a ping, for another.
LEMMA PingStep ==
  ASSUME StackProper, todo # <<>>, NEW op \in PingOps, Then(<<op>>),
         shuttingDown' = shuttingDown, attempt' = "up",
         op \in {"pingConnect", "pingLog"} => ~shuttingDown
  PROVE  StackProper'
<1>1. <<op>> \in Seq(Ops) /\ <<op>> # <<>> /\ Head(<<op>>) = op /\ Tail(<<op>>) = <<>>
  BY DEF Ops
<1>2. /\ todo' \in Seq(Ops) /\ Head(todo') = op
      /\ \A e : Contains(todo', e) <=> Contains(<<op>>, e) \/ Contains(Tail(todo), e)
      /\ \A e : Contains(Tail(todo'), e) <=> Contains(<<>>, e) \/ Contains(Tail(todo), e)
  BY <1>1, Pushed
<1>3. \A e : Contains(<<op>>, e) <=> e = op
  BY DEF Contains
<1>4. \A e \in PingOps : ~Contains(Tail(todo'), e)
  BY <1>2, ContainsEmpty, Popped
<1>5. Contains(todo', "shutStatus") \/ Contains(todo', "close") => shuttingDown'
  BY <1>2, <1>3, Popped DEF StackProper, PingOps
<1> QED BY <1>2, <1>4, <1>5 DEF StackProper, At, LuaInPing, PingOps

LEMMA ThinkIsPlain == Plain(Think)
BY DEF Think, Plain, Contains, Ops, PingOps, Reconnects

LEMMA StackPreserved ==
  ASSUME Typed, StackProper, Ends, [Next]_vars
  PROVE  StackProper'
<1> USE DEF flagVars, workVars, luaVars, countVars, ghostVars
<1>p. \A op \in Ops \ (PingOps \union {"shutStatus", "close"}) : Plain(<<op>>)
  BY PlainSteps
<1>e. Plain(<<>>)
  BY PlainSteps
<1>o. {"callback", "asleep", "await", "complete", "free", "shutdown", "join", "ping"}
        \subseteq Ops \ (PingOps \union {"shutStatus", "close"})
      /\ Reconnects \subseteq Ops \ (PingOps \union {"shutStatus", "close"})
  BY DEF Ops, PingOps, Reconnects
<1>1. CASE UNCHANGED vars
  BY <1>1 DEF vars, StackProper, At, LuaInPing
<1>2. CASE \/ Connect \/ ConnectRefused \/ SetAutoReconnect
           \/ StoreSuccess \/ StoreDone \/ StoreStatus \/ FailClose
           \/ TakeNext \/ Begin \/ Execute \/ Failed \/ Reconnect \/ Reconnecting
           \/ LogReconnect \/ Put \/ Reset \/ SetDisconnected \/ LastStatus
  <2>1. UNCHANGED <<todo, shuttingDown, attempt>>
    BY <1>2 DEF Connect, ConnectRefused, SetAutoReconnect, StoreSuccess, StoringSuccess,
                StoreDone, StoreStatus, FailClose, TakeNext, Begin, Execute, Failed,
                Reconnect, Reconnecting, LogReconnect, Log, Put, Reset, SetDisconnected,
                Disconnecting, LastStatus
  <2> QED BY <2>1 DEF StackProper, At, LuaInPing
<1>3. CASE AttemptConnection
  BY <1>3 DEF AttemptConnection, StackProper, At, LuaInPing
<1>4. CASE Notify
  <2>1. CASE At("asleep")
    BY <1>4, <2>1, <1>p, <1>o, PlainStep DEF Notify, Notifying, Then, At
  <2>2. CASE ~At("asleep")
    BY <1>4, <2>2 DEF Notify, Notifying, StackProper, At, LuaInPing
  <2> QED BY <2>1, <2>2
<1>5. CASE ThinkHook
  <2>1. Think \in Seq(Ops) /\ todo' = Think \o todo /\ LuaRuns
    BY <1>5, ThinkIsPlain, ConcatEmptySeq DEF ThinkHook, Plain, LuaRuns
  <2> QED BY <1>5, <2>1, ThinkIsPlain, CallStep DEF ThinkHook, Call
<1>6. ASSUME NEW wait \in BOOLEAN, Disconnect(wait)
      PROVE  StackProper'
  <2> DEFINE a == IF started THEN <<"shutdown">> ELSE <<>>
             b == IF wait /\ started THEN <<"join">> ELSE <<>>
             c == IF wait THEN Think ELSE <<>>
  <2>1. Plain(a) /\ Plain(b) /\ Plain(c)
    BY <1>p, <1>e, <1>o, ThinkIsPlain
  <2>2. Call(a \o b \o c) /\ shuttingDown' = shuttingDown
    BY <1>6 DEF Disconnect
  <2> HIDE DEF a, b, c
  <2>3. Plain(a \o b \o c)
    BY <2>1, PlainConcat
  <2> QED BY <2>2, <2>3, CallStep
<1>7. CASE WaitConnected
  BY <1>7, <1>p, <1>o, ThinkIsPlain, PlainConcat, CallStep DEF WaitConnected
<1>8. CASE Ping
  BY <1>8, <1>p, <1>o, CallStep DEF Ping
<1>9. CASE Shutdown
  <2> DEFINE s == <<"shutStatus", "close">>
  <2>1. todo # <<>> /\ shuttingDown'
    BY <1>9 DEF Shutdown, At
  <2>2. CASE shuttingDown
    BY <1>9, <2>1, <2>2, <1>e, PlainStep DEF Shutdown
  <2>3. CASE ~shuttingDown
    <3>1. Then(s)
      BY <1>9, <2>3 DEF Shutdown
    <3>2. s \in Seq(Ops) /\ s # <<>> /\ Head(s) = "shutStatus" /\ Tail(s) = <<"close">>
      BY DEF Ops
    <3> HIDE DEF s
    <3>3. /\ todo' \in Seq(Ops) /\ Head(todo') = "shutStatus"
          /\ \A op : Contains(Tail(todo'), op) <=> Contains(<<"close">>, op) \/ Contains(Tail(todo), op)
      BY <2>1, <3>1, <3>2, Pushed
    <3>4. \A op \in PingOps : ~Contains(<<"close">>, op)
      BY DEF Contains, PingOps
    <3> QED BY <2>1, <3>3, <3>4, Popped DEF StackProper, At, LuaInPing, PingOps
  <2> QED BY <2>2, <2>3
<1>10. CASE \/ ShutStatus \/ Close \/ Join \/ Free \/ Return \/ PingAnswered \/ PingLog
  <2>1. todo # <<>> /\ Then(<<>>) /\ shuttingDown' = shuttingDown
    BY <1>10 DEF ShutStatus, Close, Join, Free, Freeing, Return, PingAnswered, PingLog, Log, At
  <2> QED BY <2>1, <1>e, PlainStep
<1>11. CASE Await \/ ReconnectCallback \/ Complete
  <2>1. PICK s \in {<<>>, <<"asleep">>, <<"callback">>} :
          todo # <<>> /\ Then(s) /\ shuttingDown' = shuttingDown
    BY <1>11 DEF Await, ReconnectCallback, Complete, At
  <2>2. Plain(s)
    BY <1>e, <1>p, <1>o
  <2> QED BY <2>1, <2>2, PlainStep
<1>12. CASE ConnectionCallback \/ Bye
  <2>1. PICK s \in {<<>>, <<"callback">>, <<"callback", "free">>} :
          todo # <<>> /\ Then(s) /\ shuttingDown' = shuttingDown
    BY <1>12 DEF ConnectionCallback, TellingConnection, Bye, At
  <2>2. Plain(<<"callback", "free">>)
    BY DEF Plain, Contains, Ops, PingOps
  <2>3. Plain(s)
    BY <1>e, <1>p, <1>o, <2>2
  <2> QED BY <2>1, <2>3, PlainStep
<1>13. CASE TakeEvents
  <2>1. todo # <<>> /\ Then(IF pinned THEN log ELSE <<>>) /\ shuttingDown' = shuttingDown
    BY <1>13 DEF TakeEvents, At
  <2>2. Plain(log)
    <3>1. log \in Seq(Reconnects) /\ \A op : Contains(log, op) => op \in Reconnects
      BY ElementOfSeq DEF Typed, Contains
    <3>2. log \in Seq(Ops)
      BY <3>1, <1>o, SeqMonotonic
    <3> QED BY <3>1, <3>2, <1>o DEF Plain
  <2> QED BY <2>1, <2>2, <1>e, PlainStep
<1>14. CASE TakeFinished
  <2> DEFINE s == [i \in 1..finished |-> "complete"]
  <2>1. todo # <<>> /\ Then(s) /\ shuttingDown' = shuttingDown
    BY <1>14 DEF TakeFinished, At
  <2>2. s \in Seq({"complete"})
    BY SeqDef DEF Typed
  <2> HIDE DEF s
  <2>3. \A op : Contains(s, op) => op = "complete"
    BY <2>2, ElementOfSeq DEF Contains
  <2>4. Plain(s)
    BY <2>2, <2>3, <1>o, SeqMonotonic DEF Plain
  <2> QED BY <2>1, <2>4, PlainStep
<1>15. CASE PingFails
  <2>1. todo # <<>> /\ shuttingDown' = shuttingDown /\ attempt' = attempt
    BY <1>15 DEF PingFails, At
  <2>2. Then(<<>>) \/ (dbStatus = "CONNECTED" /\ Then(<<"pingRetry">>))
    BY <1>15 DEF PingFails
  <2>3. CASE dbStatus = "CONNECTED" /\ Then(<<"pingRetry">>)
    BY <2>1, <2>3, PingStep DEF Ends, PingOps
  <2> QED BY <2>1, <2>2, <2>3, <1>e, PlainStep
<1>16. CASE PingRetry
  <2>1. todo # <<>> /\ shuttingDown' = shuttingDown /\ attempt' = "up"
    BY <1>16 DEF PingRetry, At, StackProper, LuaInPing, PingOps
  <2>2. Then(<<>>) \/ (~shuttingDown /\ Then(<<"pingConnect">>))
    BY <1>16 DEF PingRetry, GivesUp
  <2>3. CASE ~shuttingDown /\ Then(<<"pingConnect">>)
    BY <2>1, <2>3, PingStep DEF PingOps
  <2> QED BY <2>1, <2>2, <2>3, <1>e, PlainStep
<1>17. CASE PingConnect
  BY <1>17, PingStep DEF PingConnect, At, StackProper, LuaInPing, PingOps
<1> QED BY <1>1, <1>2, <1>3, <1>4, <1>5, <1>6, <1>7, <1>8, <1>9, <1>10, <1>11, <1>12,
           <1>13, <1>14, <1>15, <1>16, <1>17 DEF Next, Worker, LuaStep, LuaCall

-----------------------------------------------------------------------------
(* The rest of the state. *)

LEMMA TypedPreserved == ASSUME Typed, [Next]_vars PROVE Typed'
<1> USE DEF Typed, flagVars, workVars, luaVars, countVars, ghostVars
<1>1. CASE UNCHANGED vars
  BY <1>1 DEF vars
<1>2. CASE \/ Connect \/ ConnectRefused \/ WaitConnected \/ Ping \/ SetAutoReconnect
           \/ (\E wait \in BOOLEAN : Disconnect(wait)) \/ ThinkHook \/ Return
  BY <1>2 DEF Connect, ConnectRefused, WaitConnected, Ping, SetAutoReconnect, Disconnect,
              ThinkHook, Return, DatabaseStatuses, WorkerPCs
<1>3. CASE Shutdown \/ ShutStatus \/ Close \/ Join \/ Await
  BY <1>3 DEF Shutdown, ShutStatus, Close, Join, Await, DatabaseStatuses
<1>4. CASE ConnectionCallback \/ ReconnectCallback \/ TakeFinished \/ Complete \/ Bye \/ Free
  <2>1. heard' \in [Callbacks -> Nat]
    <3>1. heard' = heard \/ \E c \in Callbacks : heard' = [heard EXCEPT ![c] = @ + 1]
      BY <1>4 DEF ConnectionCallback, TellingConnection, ReconnectCallback, TakeFinished,
                  Complete, Bye, Free, Freeing, Callbacks
    <3> QED BY <3>1
  <2>2. finished' \in {finished, 0} /\ pinned' \in {pinned, FALSE} /\ ran' \in {ran, TRUE}
    BY <1>4 DEF ConnectionCallback, TellingConnection, ReconnectCallback, TakeFinished,
                Complete, Bye, Free, Freeing
  <2>3. UNCHANGED <<flagVars, refused, dbStatus, session, log, pc, after, attempt>>
    BY <1>4 DEF ConnectionCallback, TellingConnection, ReconnectCallback, TakeFinished,
                Complete, Bye, Free, Freeing
  <2>4. finished' \in Nat /\ {pinned', ran', refused'} \subseteq BOOLEAN
    <3>1. finished' \in Nat
      BY <2>2
    <3>2. {pinned, ran, refused, FALSE, TRUE} \subseteq BOOLEAN
      OBVIOUS
    <3> QED BY <2>2, <2>3, <3>1, <3>2, Zenon
  <2>5. {started, done, success, shuttingDown, disconnected, closed}' \subseteq BOOLEAN
    BY <2>3
  <2> QED BY <2>1, <2>3, <2>4, <2>5
<1>5. CASE TakeEvents
  BY <1>5, EmptySeq DEF TakeEvents
<1>6. CASE PingAnswered \/ PingFails \/ PingRetry \/ PingConnect
  BY <1>6 DEF PingAnswered, PingFails, PingRetry, PingConnect, OldSessionGone, Reconnected,
              DatabaseStatuses
<1>7. CASE PingLog \/ LogReconnect
  <2>1. log' \in Seq(Reconnects)
    BY <1>7, ContainsAppend DEF PingLog, LogReconnect, Log, Reconnects
  <2> QED BY <1>7, <2>1 DEF PingLog, LogReconnect, Log, Goto, Onward, WorkerPCs, InStatement
<1>8. CASE AttemptConnection \/ StoreSuccess \/ StoreDone \/ StoreStatus \/ Notify \/ FailClose
  BY <1>8 DEF AttemptConnection, StoreSuccess, StoringSuccess, StoreDone, StoreStatus, Notify,
              Notifying, FailClose, Goto, WorkerPCs, Connecting, DatabaseStatuses
<1>9. CASE TakeNext \/ Begin \/ Execute \/ Failed \/ Put
  BY <1>9 DEF TakeNext, Begin, Execute, Failed, Put, Goto, WorkerPCs, InStatement
<1>10. CASE Reconnect \/ Reconnecting
  BY <1>10 DEF Reconnect, Reconnecting, OldSessionGone, Reconnected, Goto, Onward,
               WorkerPCs, InStatement, DatabaseStatuses
<1>11. CASE Reset \/ SetDisconnected \/ LastStatus
  BY <1>11 DEF Reset, SetDisconnected, Disconnecting, LastStatus, Goto, WorkerPCs,
               DatabaseStatuses
<1> QED BY <1>1, <1>2, <1>3, <1>4, <1>5, <1>6, <1>7, <1>8, <1>9, <1>10, <1>11
        DEF Next, Worker, LuaStep, LuaCall

\* What only Lua does: the worker stays where it is.
LuaOnly ==
  \/ ConnectRefused \/ WaitConnected \/ Ping \/ SetAutoReconnect
  \/ (\E wait \in BOOLEAN : Disconnect(wait)) \/ ThinkHook \/ Return
  \/ Shutdown \/ ShutStatus \/ Close \/ Join \/ Await
  \/ ConnectionCallback \/ TakeEvents \/ ReconnectCallback \/ TakeFinished \/ Complete
  \/ Bye \/ Free
  \/ PingAnswered \/ PingFails \/ PingRetry \/ PingConnect \/ PingLog

LEMMA LuaLeavesWorker ==
  ASSUME LuaOnly
  PROVE  UNCHANGED <<started, done, success, disconnected, pc, attempt>>
BY DEF LuaOnly, ConnectRefused, WaitConnected, Ping, SetAutoReconnect, Disconnect, ThinkHook,
       Return, Shutdown, ShutStatus, Close, Join, Await, ConnectionCallback,
       TellingConnection, TakeEvents, ReconnectCallback, TakeFinished, Complete, Bye, Free,
       Freeing, PingAnswered, PingFails, PingRetry, PingConnect, PingLog, Log,
       flagVars, workVars, ghostVars, countVars

LEMMA StepsByThread ==
  [Next]_vars => UNCHANGED vars \/ LuaOnly \/ Connect \/ Worker
BY DEF Next, LuaOnly, LuaStep, LuaCall

LEMMA BeganPreserved ==
  ASSUME Typed, Began, Ends, [Next]_vars
  PROVE  Began'
<1> USE DEF Typed, Began, flagVars, workVars, luaVars, countVars, ghostVars
<1>1. CASE UNCHANGED vars
  BY <1>1 DEF vars
<1>2. CASE LuaOnly
  BY <1>2, LuaLeavesWorker
<1>3. CASE Connect
  BY <1>3 DEF Connect
<1>4. CASE AttemptConnection \/ StoreSuccess \/ StoreDone \/ StoreStatus \/ Notify \/ FailClose
  BY <1>4 DEF AttemptConnection, StoreSuccess, StoringSuccess, StoreDone, StoreStatus, Notify,
              Notifying, FailClose, Goto, Connecting, WorkerAt
<1>5. CASE TakeNext \/ Begin \/ Execute \/ Failed \/ Put
  BY <1>5 DEF TakeNext, Begin, Execute, Failed, Put, Goto, Connecting, WorkerAt
<1>6. CASE Reconnect \/ Reconnecting \/ LogReconnect
  BY <1>6 DEF Reconnect, Reconnecting, LogReconnect, Log, Goto, Onward, Connecting, WorkerAt
<1>7. CASE Reset \/ SetDisconnected \/ LastStatus
  BY <1>7 DEF Reset, SetDisconnected, Disconnecting, LastStatus, Goto, Connecting, WorkerAt
<1> QED BY <1>1, <1>2, <1>3, <1>4, <1>5, <1>6, <1>7, StepsByThread DEF Worker

\* The worker does nothing that a ping waits for, and ping nothing that it does.
LEMMA EndsPreserved ==
  ASSUME Typed, StackProper, Began, Ends, [Next]_vars
  PROVE  Ends'
<1> USE DEF Typed, Ends, flagVars, workVars, luaVars, countVars, ghostVars
<1>1. CASE UNCHANGED vars
  BY <1>1 DEF vars
<1>2. CASE \/ ConnectRefused \/ WaitConnected \/ Ping \/ SetAutoReconnect
           \/ (\E wait \in BOOLEAN : Disconnect(wait)) \/ ThinkHook \/ Return
           \/ Join \/ Await
           \/ ConnectionCallback \/ TakeEvents \/ ReconnectCallback \/ TakeFinished \/ Complete
           \/ Bye \/ Free \/ PingAnswered \/ PingLog
  <2>1. UNCHANGED <<closed, pc, shuttingDown, attempt, session, dbStatus>>
    BY <1>2 DEF ConnectRefused, WaitConnected, Ping, SetAutoReconnect, Disconnect, ThinkHook,
       Return, Join, Await, ConnectionCallback,
       TellingConnection, TakeEvents, ReconnectCallback, TakeFinished, Complete, Bye, Free,
       Freeing, PingAnswered, PingLog, Log
  <2> QED BY <2>1
<1>3. CASE Shutdown \/ ShutStatus
  BY <1>3 DEF Shutdown, ShutStatus
<1>4. CASE Close
  <2>1. shuttingDown
    BY <1>4, Popped DEF Close, At, StackProper
  <2> QED BY <1>4, <2>1 DEF Close
<1>5. CASE PingFails
  BY <1>5 DEF PingFails
<1>6. CASE PingRetry
  BY <1>6 DEF PingRetry, OldSessionGone, GivesUp
<1>7. CASE PingConnect
  <2>1. ~shuttingDown /\ attempt = "up" /\ UNCHANGED <<closed, pc, shuttingDown, attempt>>
    BY <1>7 DEF PingConnect, StackProper, LuaInPing, PingOps, At
  <2>2. session' \in {"open", "none"} /\ dbStatus' \in {"CONNECTED", "CONNECTION_FAILED"}
    BY <1>7 DEF PingConnect, Reconnected
  <2> QED BY <2>1, <2>2
<1>8. CASE Connect
  BY <1>8 DEF Connect, Began
<1>9. CASE AttemptConnection
  BY <1>9 DEF AttemptConnection, Began, Goto, WorkerAt
<1>10. CASE StoreSuccess \/ StoreDone \/ StoreStatus \/ Notify \/ FailClose
  BY <1>10 DEF StoreSuccess, StoringSuccess, StoreDone, StoreStatus, Notify,
               Notifying, FailClose, Began, Goto, Connecting, WorkerAt
<1>11. CASE TakeNext \/ Begin \/ Execute \/ Failed \/ Put
  BY <1>11 DEF TakeNext, Begin, Execute, Failed, Put, Began, Goto, Connecting, WorkerAt
<1>12. CASE Reconnect \/ Reconnecting \/ LogReconnect
  BY <1>12 DEF Reconnect, Reconnecting, LogReconnect, Log, OldSessionGone, Reconnected,
               Began, Goto, Onward, Connecting, WorkerAt
<1>13. CASE Reset \/ SetDisconnected \/ LastStatus
  BY <1>13 DEF Reset, SetDisconnected, Disconnecting, LastStatus, Began, Goto, Connecting,
               WorkerAt, DatabaseStatuses
<1> QED BY <1>1, <1>2, <1>3, <1>4, <1>5, <1>6, <1>7, <1>8, <1>9, <1>10, <1>11, <1>12, <1>13
        DEF Next, Worker, LuaStep, LuaCall

-----------------------------------------------------------------------------
(* What Lua is told. *)

\* A table that is to be released is released by Free only.
LEMMA ReleasingStays ==
  ASSUME Typed, StackProper, LuaOnly, ~Free, Releasing
  PROVE  Releasing'
<1>t. todo \in Seq(Ops) /\ todo # <<>>
  BY ContainsEmpty DEF StackProper
<1>p. Think \in Seq(Ops) /\ \A op \in Ops : <<op>> \in Seq(Ops)
  BY ThinkIsPlain DEF Plain
<1>c. \A s, t \in Seq(Ops) : s \o t \in Seq(Ops)
  BY ContainsConcat
<1>1. CASE ConnectRefused \/ SetAutoReconnect
  BY <1>1 DEF ConnectRefused, SetAutoReconnect, luaVars
<1>2. CASE WaitConnected \/ Ping \/ ThinkHook \/ \E wait \in BOOLEAN : Disconnect(wait)
  <2>1. \E s \in Seq(Ops) : todo' = s \o todo
    <3>1. CASE WaitConnected
      <4>1. <<"await">> \in Seq(Ops)
        BY <1>p DEF Ops
      <4> QED BY <1>p, <1>c, <3>1, <4>1 DEF WaitConnected, Call
    <3>2. CASE Ping
      BY <1>p, <3>2 DEF Ping, Call, Ops
    <3>3. CASE ThinkHook
      BY <1>t, <3>3 DEF ThinkHook
    <3>4. ASSUME NEW wait \in BOOLEAN, Disconnect(wait)
          PROVE  \E s \in Seq(Ops) : todo' = s \o todo
      <4> DEFINE a == IF started THEN <<"shutdown">> ELSE <<>>
                 b == IF wait /\ started THEN <<"join">> ELSE <<>>
                 c == IF wait THEN Think ELSE <<>>
      <4>1. a \in Seq(Ops) /\ b \in Seq(Ops) /\ c \in Seq(Ops)
        BY <1>p, EmptySeq DEF Ops
      <4>2. todo' = (a \o b \o c) \o todo
        BY <3>4 DEF Disconnect, Call
      <4> HIDE DEF a, b, c
      <4>3. a \o b \o c \in Seq(Ops)
        BY <1>c, <4>1
      <4> QED BY <4>2, <4>3
    <3> QED BY <1>2, <3>1, <3>2, <3>3, <3>4
  <2> QED BY <1>t, <2>1, ContainsConcat
<1>3. CASE \/ Shutdown \/ ShutStatus \/ Close \/ Join \/ Await \/ Complete \/ Return
           \/ ConnectionCallback \/ Bye \/ TakeEvents \/ ReconnectCallback \/ TakeFinished
           \/ PingAnswered \/ PingFails \/ PingRetry \/ PingConnect \/ PingLog
  <2>1. Head(todo) # "free"
    BY <1>3 DEF Shutdown, ShutStatus, Close, Join, Await, Complete, Return, ConnectionCallback,
       TellingConnection, Bye, TakeEvents, ReconnectCallback, TakeFinished, PingAnswered,
       PingFails, PingRetry, PingConnect, PingLog, At, Reconnects
  <2>2. \E s \in Seq(Ops) : Then(s)
    <3>1. CASE TakeEvents
      <4>1. log \in Seq(Ops) /\ <<>> \in Seq(Ops)
        BY SeqMonotonic, EmptySeq DEF Typed, Ops
      <4> QED BY <3>1, <4>1 DEF TakeEvents
    <3>2. CASE TakeFinished
      <4>1. [i \in 1..finished |-> "complete"] \in Seq({"complete"})
        BY SeqDef DEF Typed
      <4>2. [i \in 1..finished |-> "complete"] \in Seq(Ops)
        BY <4>1, SeqMonotonic DEF Ops
      <4> QED BY <3>2, <4>2 DEF TakeFinished
    <3>3. CASE Shutdown \/ ConnectionCallback \/ Bye
      <4>1. /\ <<>> \in Seq(Ops) /\ <<"shutStatus", "close">> \in Seq(Ops)
            /\ <<"callback">> \in Seq(Ops) /\ <<"callback", "free">> \in Seq(Ops)
        BY EmptySeq DEF Ops
      <4> QED BY <3>3, <4>1 DEF Shutdown, ConnectionCallback, TellingConnection, Bye
    <3>4. CASE Await \/ Complete \/ ReconnectCallback
      <4>1. <<>> \in Seq(Ops) /\ <<"asleep">> \in Seq(Ops) /\ <<"callback">> \in Seq(Ops)
        BY EmptySeq DEF Ops
      <4> QED BY <3>4, <4>1 DEF Await, Complete, ReconnectCallback
    <3>5. CASE \/ ShutStatus \/ Close \/ Join \/ Return
               \/ PingAnswered \/ PingFails \/ PingRetry \/ PingConnect \/ PingLog
      <4>1. <<>> \in Seq(Ops) /\ <<"pingRetry">> \in Seq(Ops)
            /\ <<"pingConnect">> \in Seq(Ops) /\ <<"pingLog">> \in Seq(Ops)
        BY EmptySeq DEF Ops, PingOps
      <4> QED BY <3>5, <4>1 DEF ShutStatus, Close, Join, Return, PingAnswered, PingFails,
                                PingRetry, PingConnect, PingLog
    <3> QED BY <1>3, <3>1, <3>2, <3>3, <3>4, <3>5
  <2>3. Contains(Tail(todo), "free")
    BY <1>t, <2>1, Popped
  <2> QED BY <1>t, <2>2, <2>3, Popped, ContainsConcat DEF Then
<1> QED BY <1>1, <1>2, <1>3 DEF LuaOnly

LEMMA ToldPreserved ==
  ASSUME Typed, StackProper, Began, Ends, Told, [Next]_vars
  PROVE  Told'
<1> USE DEF Typed, Told, GoodbyeOnce, flagVars, workVars, luaVars, countVars, ghostVars
<1>0. "onConnected" # "onConnectionFailed" /\ Callbacks = {"onConnected", "onConnectionFailed", "onDisconnected", "nested"}
  BY DEF Callbacks
\* The callbacks stay as they are, and so do those that may still come.
<1>s. ASSUME UNCHANGED <<ran, attempt, disconnected, heard, refused>>,
             done => done', disconnected => pc' \in {"lastStatus", "gone"},
             pinned' /\ ~Releasing' => pinned /\ ~Releasing
      PROVE  Told'
  BY <1>s
<1>1. CASE UNCHANGED vars
  BY <1>1 DEF vars, At
<1>2. CASE \/ WaitConnected \/ Ping \/ SetAutoReconnect
           \/ (\E wait \in BOOLEAN : Disconnect(wait)) \/ ThinkHook \/ Return
           \/ Shutdown \/ ShutStatus \/ Close \/ Join \/ Await
           \/ TakeEvents \/ ReconnectCallback \/ TakeFinished \/ Complete
           \/ PingAnswered \/ PingFails \/ PingRetry \/ PingConnect \/ PingLog
  <2>1. UNCHANGED <<ran, attempt, disconnected, heard, refused, done, pinned, pc>>
    BY <1>2 DEF WaitConnected, Ping, SetAutoReconnect, Disconnect, ThinkHook, Return, Shutdown,
       ShutStatus, Close, Join, Await, TakeEvents, ReconnectCallback, TakeFinished, Complete,
       PingAnswered, PingFails, PingRetry, PingConnect, PingLog, Log
  <2>2. ~Free \/ ~pinned'
    BY DEF Free, Freeing
  <2>3. Releasing => Releasing' \/ ~pinned'
    BY <1>2, <2>2, ReleasingStays DEF LuaOnly
  <2> QED BY <2>1, <2>3, <1>s
<1>3. CASE Connect
  <2>1. ~started /\ pc = "none" /\ ~ran /\ ~disconnected
    BY <1>3 DEF Connect, Began
  <2> QED BY <1>3, <2>1 DEF Connect, Callbacks
<1>4. CASE ConnectRefused
  <2>1. ~refused /\ refused' /\ UNCHANGED <<ran, attempt, disconnected, heard, done, pc>>
    BY <1>4 DEF ConnectRefused
  <2> QED BY <2>1, <1>0
<1>5. CASE Free
  <2>1. UNCHANGED <<ran, attempt, disconnected, heard, refused, done, pc>> /\ ~pinned'
    BY <1>5 DEF Free, Freeing
  <2> QED BY <2>1, <1>s
<1>6. CASE ConnectionCallback
  <2>1. At("connection") /\ UNCHANGED <<attempt, disconnected, refused, done, pinned, pc, success>>
    BY <1>6 DEF ConnectionCallback, TellingConnection
  <2>2. Releasing => Releasing'
    BY <1>6, <2>1, ReleasingStays DEF LuaOnly, Free, Freeing, At
  <2>3. CASE done /\ ~ran /\ pinned
    <3>1. success = (attempt = "up") /\ attempt \in {"up", "down"}
      BY <2>3 DEF Began
    <3>2. ran' /\ heard' = [heard EXCEPT ![IF success THEN "onConnected"
                                           ELSE "onConnectionFailed"] = @ + 1]
      BY <1>6, <2>3 DEF ConnectionCallback, TellingConnection
    <3>3. /\ heard'["onDisconnected"] = heard["onDisconnected"]
          /\ heard'["onConnected"] = IF attempt = "up" THEN 1 ELSE 0
          /\ heard'["onConnectionFailed"] = IF attempt = "up" THEN 0 ELSE 1
      <4>1. /\ heard \in [Callbacks -> Nat]
            /\ heard["onConnected"] = 0 /\ heard["onConnectionFailed"] = 0
        BY <2>3
      <4>2. CASE attempt = "up"
        <5>1. heard' = [heard EXCEPT !["onConnected"] = @ + 1]
          BY <3>1, <3>2, <4>2
        <5> QED BY <1>0, <4>1, <4>2, <5>1
      <4>3. CASE attempt = "down"
        <5>1. heard' = [heard EXCEPT !["onConnectionFailed"] = @ + 1]
          BY <3>1, <3>2, <4>3
        <5> QED BY <1>0, <4>1, <4>3, <5>1
      <4> QED BY <3>1, <4>2, <4>3
    <3> QED BY <2>1, <2>2, <2>3, <3>1, <3>2, <3>3
  <2>4. CASE ~(done /\ ~ran /\ pinned)
    <3>1. UNCHANGED <<ran, heard>>
      BY <1>6, <2>4 DEF ConnectionCallback, TellingConnection
    <3> QED BY <2>1, <2>2, <3>1, <1>s
  <2> QED BY <2>3, <2>4
<1>7. CASE Bye
  <2>1. At("bye") /\ UNCHANGED <<ran, attempt, disconnected, refused, done, pinned, pc>>
    BY <1>7 DEF Bye
  <2>2. Releasing => Releasing'
    BY <1>7, <2>1, ReleasingStays DEF LuaOnly, Free, Freeing, At
  <2>3. CASE disconnected /\ pinned
    <3>1. /\ heard' = [heard EXCEPT ![IF Releasing THEN "nested" ELSE "onDisconnected"] = @ + 1]
          /\ Then(<<"callback", "free">>)
      BY <1>7, <2>3 DEF Bye
    <3>2. Releasing'
      <4>1. <<"callback", "free">> \in Seq(Ops) /\ <<"callback", "free">> # <<>>
            /\ Contains(<<"callback", "free">>, "free") /\ todo # <<>>
        BY <2>1 DEF Ops, Contains, At
      <4> QED BY <3>1, <4>1, Pushed
    <3>3. /\ heard'["onConnected"] = heard["onConnected"]
          /\ heard'["onConnectionFailed"] = heard["onConnectionFailed"]
          /\ heard'["onDisconnected"] =
               IF Releasing THEN heard["onDisconnected"] ELSE heard["onDisconnected"] + 1
      <4>1. CASE Releasing
        <5>1. heard' = [heard EXCEPT !["nested"] = @ + 1]
          BY <3>1, <4>1
        <5> HIDE DEF Releasing
        <5> QED BY <1>0, <4>1, <5>1
      <4>2. CASE ~Releasing
        <5>1. heard' = [heard EXCEPT !["onDisconnected"] = @ + 1]
          BY <3>1, <4>2
        <5> HIDE DEF Releasing
        <5> QED BY <1>0, <4>2, <5>1
      <4> QED BY <4>1, <4>2
    <3>4. ~Releasing => heard["onDisconnected"] <= IF refused THEN 1 ELSE 0
      BY <2>3
    <3>5. heard["onDisconnected"] \in Nat
      BY <1>0
    <3> HIDE DEF Releasing
    <3> QED BY <2>1, <2>3, <3>2, <3>3, <3>4, <3>5
  <2>4. CASE ~(disconnected /\ pinned)
    <3>1. UNCHANGED heard
      BY <1>7, <2>4 DEF Bye
    <3> QED BY <2>1, <2>2, <3>1, <1>s
  <2> QED BY <2>3, <2>4
<1>8. CASE Worker
  <2>1. UNCHANGED <<ran, heard, refused, pinned>>
    BY <1>8 DEF Worker, AttemptConnection, StoreSuccess, StoringSuccess, StoreDone, StoreStatus,
       Notify, Notifying, FailClose, TakeNext, Begin, Execute, Failed, Reconnect, Reconnecting,
       LogReconnect, Log, Put, Reset, SetDisconnected, Disconnecting, LastStatus
  <2>2. Releasing => Releasing'
    <3>1. CASE Notify /\ At("asleep")
      <4>1. <<"await">> \in Seq(Ops) /\ <<"await">> # <<>>
        BY DEF Ops
      <4>2. todo # <<>> /\ Then(<<"await">>) /\ Head(todo) # "free"
        BY <3>1 DEF Notify, Notifying, Then, At
      <4> QED BY <4>1, <4>2, Pushed, Popped
    <3>2. CASE ~(Notify /\ At("asleep"))
      BY <1>8, <3>2 DEF Worker, AttemptConnection, StoreSuccess, StoringSuccess, StoreDone,
         StoreStatus, Notify, Notifying, FailClose, TakeNext, Begin, Execute, Failed,
         Reconnect, Reconnecting, LogReconnect, Log, Put, Reset, SetDisconnected,
         Disconnecting, LastStatus
    <3> QED BY <3>1, <3>2
  <2>3. ran => done'
    BY <1>8, BeganPreserved DEF Began, Worker, AttemptConnection, StoreSuccess, StoringSuccess,
       StoreDone, StoreStatus, Notify, Notifying, FailClose, TakeNext, Begin, Execute, Failed,
       Reconnect, Reconnecting, LogReconnect, Log, Put, Reset, SetDisconnected,
       Disconnecting, LastStatus
  <2>4. ran => attempt' = attempt
    BY <1>8 DEF Began, Worker, AttemptConnection, StoreSuccess, StoringSuccess,
       StoreDone, StoreStatus, Notify, Notifying, FailClose, TakeNext, Begin, Execute, Failed,
       Reconnect, Reconnecting, LogReconnect, Log, Put, Reset, SetDisconnected,
       Disconnecting, LastStatus, WorkerAt
  <2>5. (disconnected => disconnected') /\ (disconnected' => pc' \in {"lastStatus", "gone"})
    <3>1. CASE SetDisconnected \/ LastStatus
      BY <3>1 DEF SetDisconnected, Disconnecting, LastStatus, Goto, WorkerAt
    <3>2. CASE ~(SetDisconnected \/ LastStatus)
      <4>1. disconnected' = disconnected /\ pc \notin {"lastStatus", "gone"}
        BY <1>8, <3>2 DEF Worker, AttemptConnection, StoreSuccess, StoringSuccess,
           StoreDone, StoreStatus, Notify, Notifying, FailClose, TakeNext, Begin, Execute,
           Failed, Reconnect, Reconnecting, LogReconnect, Log, Put, Reset, WorkerAt
      <4> QED BY <4>1
    <3> QED BY <3>1, <3>2
  <2> QED BY <2>1, <2>2, <2>3, <2>4, <2>5
<1> QED BY <1>1, <1>2, <1>3, <1>4, <1>5, <1>6, <1>7, <1>8, StepsByThread DEF LuaOnly

-----------------------------------------------------------------------------
(* The invariant, and what it shows. *)

LEMMA InvariantInitially == Init => IInv
<1> SUFFICES ASSUME Init PROVE IInv
  OBVIOUS
<1> USE DEF Init
<1>1. Typed
  <2>1. log \in Seq(Reconnects)
    BY EmptySeq
  <2> QED BY <2>1 DEF Typed, DatabaseStatuses, WorkerPCs, Callbacks
<1>2. StackProper
  <2>1. todo \in Seq(Ops)
    BY EmptySeq
  <2> QED BY <2>1, ContainsEmpty DEF StackProper, At, LuaInPing
<1>3. Began /\ Ends
  BY DEF Began, Ends, Connecting
<1>4. Told
  BY DEF Told, GoodbyeOnce, Callbacks
<1> QED BY <1>1, <1>2, <1>3, <1>4 DEF IInv

LEMMA InvariantPreserved == IInv /\ [Next]_vars => IInv'
BY TypedPreserved, StackPreserved, BeganPreserved, EndsPreserved, ToldPreserved DEF IInv

LEMMA Inductive == Spec => []IInv
BY InvariantInitially, InvariantPreserved, PTL DEF Spec

\* Lua hears once, and truly, how connect() ended, though think() may run inside
\* the callback of another (LuaDatabase.cpp:466).
THEOREM ToldOnceAndTruly == Spec => []ConnectedOnceAndTrue
<1>1. IInv => ConnectedOnceAndTrue
  <2> SUFFICES ASSUME IInv PROVE ConnectedOnceAndTrue
    OBVIOUS
  <2>1. ran => attempt \in {"up", "down"}
    BY DEF IInv, Typed, Told, Began
  <2> QED BY <2>1 DEF IInv, Told, ConnectedOnceAndTrue, Heard
<1> QED BY <1>1, Inductive, PTL

\* Lua hears onDisconnected once for each time its table was referenced, but for
\* the goodbyes an onDisconnected callback that thinks is told inside itself
\* (LuaDatabase.cpp:523-535), of which there may be any number.
THEOREM GoodbyeComesOnce == Spec => []GoodbyeOnce
<1>1. IInv => GoodbyeOnce
  BY DEF IInv, Told
<1> QED BY <1>1, Inductive, PTL

\* A database whose worker has ended has no session and does not say that it is
\* connected, whatever a ping or a shutdown stored meanwhile (Database.cpp:240).
THEOREM NoSessionIsLeft == Spec => []NothingLeftOpen
<1>1. IInv => NothingLeftOpen
  BY DEF IInv, Ends, NothingLeftOpen
<1> QED BY <1>1, Inductive, PTL

-----------------------------------------------------------------------------
(* The reconnect events. *)

Tells(op) == IF op \in Reconnects THEN 1 ELSE 0
Waiting        == CountIn(todo, Reconnects)
Goodbye        == attempt = "down" \/ Heard("onDisconnected")

\* Steps that tell of no reconnect.
Quiet(s) == s \in Seq(Ops) /\ \A op \in Reconnects : ~Contains(s, op)

LEMMA CountTop ==
  ASSUME todo \in Seq(Ops), todo # <<>>
  PROVE  /\ Waiting = Tells(Head(todo)) + CountIn(Tail(todo), Reconnects)
         /\ CountIn(Tail(todo), Reconnects) \in Nat
<1>1. /\ Head(todo) \in Ops /\ Tail(todo) \in Seq(Ops)
      /\ <<Head(todo)>> \in Seq(Ops) /\ todo = <<Head(todo)>> \o Tail(todo)
  BY ContainsTail, ConcatHeadTail, HeadTailProperties, ConcatProperties
<1>2. CountIn(<<Head(todo)>>, Reconnects) = Tells(Head(todo))
  <2>1. \A op : Contains(<<Head(todo)>>, op) <=> op = Head(todo)
    BY DEF Contains
  <2>2. Len(<<Head(todo)>>) = 1
    OBVIOUS
  <2> QED BY <1>1, <2>1, <2>2, CountNoneAll DEF Tells
<1>3. CountIn(<<Head(todo)>> \o Tail(todo), Reconnects) =
        CountIn(<<Head(todo)>>, Reconnects) + CountIn(Tail(todo), Reconnects)
  BY <1>1, CountConcat
<1>4. CountIn(Tail(todo), Reconnects) \in Nat
  BY <1>1, CountNat
<1>5. Waiting = CountIn(<<Head(todo)>> \o Tail(todo), Reconnects)
  BY <1>1 DEF Waiting
<1> QED BY <1>2, <1>3, <1>4, <1>5

\* What a step in the place of the first leaves to tell.
LEMMA CountThen ==
  ASSUME todo \in Seq(Ops), todo # <<>>, NEW s \in Seq(Ops), Then(s)
  PROVE  /\ Waiting' = CountIn(s, Reconnects) + CountIn(Tail(todo), Reconnects)
         /\ \A op : Contains(todo', op) => Contains(s, op) \/ Contains(todo, op)
<1>1. Tail(todo) \in Seq(Ops) /\ \A op : Contains(Tail(todo), op) => Contains(todo, op)
  BY ContainsTail
<1>2. todo' = s \o Tail(todo)
  BY DEF Then
<1> QED BY <1>1, <1>2, CountConcat, ContainsConcat DEF Waiting

LEMMA QuietThen ==
  ASSUME todo \in Seq(Ops), todo # <<>>, Head(todo) \notin Reconnects,
         NEW s, Quiet(s), Then(s)
  PROVE  /\ Waiting' = Waiting
         /\ Contains(todo', "free") => Contains(s, "free") \/ Contains(todo, "free")
<1>1. s \in Seq(Ops) /\ CountIn(s, Reconnects) = 0
  BY CountNoneAll DEF Quiet
<1> QED BY <1>1, CountTop, CountThen DEF Tells

LEMMA QuietCall ==
  ASSUME todo \in Seq(Ops), NEW s, Quiet(s), Call(s)
  PROVE  /\ Waiting' = Waiting
         /\ Contains(todo', "free") => Contains(s, "free") \/ Contains(todo, "free")
<1>1. s \in Seq(Ops) /\ CountIn(s, Reconnects) = 0 /\ todo' = s \o todo
  BY CountNoneAll DEF Quiet, Call
<1>2. CountIn(todo, Reconnects) \in Nat
  BY CountNat
<1> QED BY <1>1, <1>2, CountConcat, ContainsConcat DEF Waiting

LEMMA QuietSteps ==
  /\ Quiet(<<>>) /\ ~Contains(<<>>, "free")
  /\ \A op \in Ops \ Reconnects : Quiet(<<op>>) /\ (Contains(<<op>>, "free") => op = "free")
  /\ Quiet(Think) /\ ~Contains(Think, "free")
<1> USE DEF Quiet, Contains
<1>1. Quiet(<<>>) /\ ~Contains(<<>>, "free")
  OBVIOUS
<1>2. ASSUME NEW op \in Ops \ Reconnects
      PROVE  Quiet(<<op>>) /\ (Contains(<<op>>, "free") => op = "free")
  BY <1>2
<1>3. Quiet(Think) /\ ~Contains(Think, "free")
  BY DEF Think, Ops, Reconnects, PingOps
<1> QED BY <1>1, <1>2, <1>3

LEMMA QuietConcat ==
  ASSUME NEW s, NEW t, Quiet(s), Quiet(t)
  PROVE  /\ Quiet(s \o t)
         /\ Contains(s \o t, "free") => Contains(s, "free") \/ Contains(t, "free")
BY ContainsConcat DEF Quiet

\* A step that happens to no event, and lets the table go only after a goodbye.
LEMMA EventsKept ==
  ASSUME EventsInv, UNCHANGED <<log, owed, dropped, started, attempt>>, Waiting' = Waiting,
         Goodbye => Goodbye', Heard("onDisconnected") => Heard("onDisconnected")',
         pinned => pinned' \/ Goodbye',
         Contains(todo', "free") => Contains(todo, "free") \/ Goodbye'
  PROVE  EventsInv'
<1>1. Released'
  BY DEF EventsInv, Released, Goodbye
<1>2. EventsAccountedFor'
  BY DEF EventsInv, EventsAccountedFor, Waiting, CountIn
<1> QED BY <1>1, <1>2 DEF EventsInv

\* The worker's steps, but for the one that reports an event.
LEMMA EventsOfWorker ==
  ASSUME IInv, EventsInv, Worker, ~LogReconnect
  PROVE  EventsInv'
<1> USE DEF flagVars, workVars, luaVars, countVars, ghostVars
<1>t. todo \in Seq(Ops)
  BY DEF IInv, StackProper
<1>1. CASE AttemptConnection
  <2>1. log = <<>> /\ attempt = "none"
    BY <1>1 DEF AttemptConnection, WorkerAt, IInv, Began, EventsInv, Released
  <2>2. /\ UNCHANGED <<log, owed, dropped, started, pinned, todo, heard>>
        /\ attempt' \in {"up", "down"}
    BY <1>1 DEF AttemptConnection
  <2>3. Released'
    BY <2>1, <2>2 DEF EventsInv, Released, Heard
  <2>4. EventsAccountedFor'
    BY <2>2 DEF EventsInv, EventsAccountedFor, Heard
  <2> QED BY <2>3, <2>4 DEF EventsInv
<1>2. CASE Notify
  <2>1. UNCHANGED <<log, owed, dropped, started, attempt, pinned, heard>>
    BY <1>2 DEF Notify, Notifying, Goto
  <2>2. /\ Waiting' = Waiting
        /\ Contains(todo', "free") => Contains(todo, "free")
    <3>1. CASE At("asleep")
      <4>1. Then(<<"await">>) /\ todo # <<>> /\ Head(todo) \notin Reconnects
        BY <1>2, <3>1 DEF Notify, Notifying, Then, At, Reconnects
      <4>2. Quiet(<<"await">>) /\ ~Contains(<<"await">>, "free")
        BY QuietSteps DEF Ops, Reconnects
      <4> QED BY <1>t, <4>1, <4>2, QuietThen
    <3>2. CASE ~At("asleep")
      BY <1>2, <3>2 DEF Notify, Notifying, Waiting
    <3> QED BY <3>1, <3>2
  <2> QED BY <2>1, <2>2, EventsKept DEF Goodbye, Heard
<1>3. CASE Worker /\ ~AttemptConnection /\ ~Notify
  <2>1. UNCHANGED <<log, owed, dropped, started, attempt, pinned, heard, todo>>
    BY <1>3 DEF Worker, StoreSuccess, StoringSuccess, StoreDone, StoreStatus, FailClose,
                TakeNext, Begin, Execute, Failed, Reconnect, Reconnecting, Put, Reset,
                SetDisconnected, Disconnecting, LastStatus, Goto
  <2> QED BY <2>1, EventsKept DEF Goodbye, Heard, Waiting
<1> QED BY <1>1, <1>2, <1>3

\* An event is reported, and logged.
LEMMA EventsLogged ==
  ASSUME IInv, EventsInv, LogReconnect \/ PingLog
  PROVE  EventsInv'
<1> USE DEF flagVars, workVars, luaVars, countVars, ghostVars
<1>1. /\ log \in Seq(Reconnects) /\ todo \in Seq(Ops)
      /\ Len(log) \in Nat /\ Waiting \in Nat
  BY CountNat, LenProperties DEF IInv, Typed, StackProper, Waiting
<1>2. /\ owed' = owed + 1 /\ UNCHANGED <<started, attempt, pinned, heard, dropped>>
      /\ \E e \in Reconnects : log' = Append(log, e)
  BY DEF LogReconnect, PingLog, Log, Reconnects
<1>3. Len(log') = Len(log) + 1
  BY <1>1, <1>2, AppendProperties
<1>4. Waiting' = Waiting /\ (Contains(todo', "free") => Contains(todo, "free"))
  <2>1. CASE LogReconnect
    BY <2>1 DEF LogReconnect, Waiting
  <2>2. CASE PingLog
    <3>1. Then(<<>>) /\ todo # <<>> /\ Head(todo) \notin Reconnects
      BY <2>2 DEF PingLog, At, Reconnects
    <3> QED BY <1>1, <3>1, QuietSteps, QuietThen
  <2> QED BY <2>1, <2>2
<1>5. attempt = "up"
  <2>1. CASE LogReconnect
    BY <2>1 DEF LogReconnect, WorkerAt, IInv, Typed, Began, Connecting
  <2>2. CASE PingLog
    BY <2>2 DEF PingLog, At, LuaInPing, PingOps, IInv, StackProper
  <2> QED BY <2>1, <2>2
<1>6. Released'
  BY <1>2, <1>4, <1>5 DEF EventsInv, Released, Heard
<1>7. owed = Len(log) + Waiting /\ (dropped => Heard("onDisconnected"))
  BY DEF EventsInv, EventsAccountedFor, Waiting, CountIn
<1>8. owed' = Len(log') + Waiting'
  BY <1>1, <1>2, <1>3, <1>4, <1>7
<1>9. EventsAccountedFor'
  BY <1>2, <1>7, <1>8 DEF EventsAccountedFor, Waiting, CountIn, Heard
<1> QED BY <1>6, <1>9 DEF EventsInv

\* The log is taken: to be told, or, when the table has gone, to be dropped.
LEMMA EventsTaken ==
  ASSUME IInv, EventsInv, TakeEvents
  PROVE  EventsInv'
<1> USE DEF flagVars, workVars, luaVars, countVars, ghostVars
<1>1. /\ log \in Seq(Reconnects) /\ todo \in Seq(Ops) /\ todo # <<>>
      /\ Len(log) \in Nat /\ Head(todo) \notin Reconnects
  BY LenProperties DEF IInv, Typed, StackProper, TakeEvents, At, Reconnects
<1>2. /\ UNCHANGED <<started, attempt, pinned, heard>>
      /\ log' = <<>> /\ Len(log') = 0
      /\ Then(IF pinned THEN log ELSE <<>>)
      /\ owed' = IF pinned THEN owed ELSE owed - Len(log)
      /\ dropped' => dropped \/ (~pinned /\ log # <<>>)
  BY DEF TakeEvents
<1>3. /\ owed = Len(log) + Waiting /\ Released /\ (dropped => Heard("onDisconnected"))
  BY DEF EventsInv, EventsAccountedFor, Waiting, CountIn
<1>4. /\ Waiting = CountIn(Tail(todo), Reconnects)
      /\ CountIn(Tail(todo), Reconnects) \in Nat
  BY <1>1, CountTop DEF Tells
<1>5. /\ log \in Seq(Ops) /\ CountIn(log, Reconnects) = Len(log) /\ ~Contains(log, "free")
  <2>1. \A op : Contains(log, op) => op \in Reconnects
    BY <1>1, ElementOfSeq DEF Contains
  <2>2. CountIn(log, Reconnects) = Len(log)
    BY <1>1, <2>1, CountNoneAll
  <2>3. log \in Seq(Ops)
    BY <1>1, SeqMonotonic DEF Ops
  <2> QED BY <2>1, <2>2, <2>3 DEF Reconnects
<1>6. /\ owed' = Waiting'
      /\ Contains(todo', "free") => Contains(todo, "free")
  <2>1. CASE pinned
    <3>1. Then(log) /\ owed' = owed
      BY <1>2, <2>1
    <3>2. /\ Waiting' = Len(log) + CountIn(Tail(todo), Reconnects)
          /\ Contains(todo', "free") => Contains(todo, "free")
      BY <1>1, <1>5, <3>1, CountThen
    <3> QED BY <1>1, <1>3, <1>4, <3>1, <3>2
  <2>2. CASE ~pinned
    <3>1. Then(<<>>) /\ owed' = owed - Len(log)
      BY <1>2, <2>2
    <3>2. Waiting' = Waiting /\ (Contains(todo', "free") => Contains(todo, "free"))
      BY <1>1, <3>1, QuietSteps, QuietThen
    <3> QED BY <1>1, <1>3, <1>4, <3>1, <3>2
  <2> QED BY <2>1, <2>2
<1>7. Released'
  BY <1>2, <1>3, <1>6 DEF Released, Heard
<1>8. dropped' => Heard("onDisconnected")'
  <2>1. log # <<>> /\ ~pinned => Heard("onDisconnected")
    BY <1>3 DEF Released, IInv, Began
  <2> QED BY <1>2, <1>3, <2>1 DEF Heard
<1>9. Waiting' \in Nat
  <2>1. todo' \in Seq(Ops)
    BY <1>1, <1>2, <1>5, ContainsConcat, ContainsTail DEF Then
  <2> QED BY <2>1, CountNat DEF Waiting
<1>10. owed' = Len(log') + Waiting'
  BY <1>2, <1>6, <1>9
<1>11. EventsAccountedFor'
  BY <1>8, <1>10 DEF EventsAccountedFor, Waiting, CountIn
<1> QED BY <1>7, <1>11 DEF EventsInv

\* One is told.
LEMMA EventsTold ==
  ASSUME IInv, EventsInv, ReconnectCallback
  PROVE  EventsInv'
<1> USE DEF flagVars, workVars, luaVars, countVars, ghostVars
<1>1. /\ todo \in Seq(Ops) /\ todo # <<>> /\ Head(todo) \in Reconnects
      /\ Then(<<"callback">>) /\ owed' = owed - 1
      /\ UNCHANGED <<started, attempt, pinned, heard, log, dropped>>
      /\ log \in Seq(Reconnects)
  BY DEF IInv, Typed, StackProper, ReconnectCallback
<1>2. /\ Quiet(<<"callback">>) /\ ~Contains(<<"callback">>, "free")
  BY QuietSteps DEF Ops, Reconnects
<1>3. <<"callback">> \in Seq(Ops) /\ CountIn(<<"callback">>, Reconnects) = 0
  BY <1>2, CountNoneAll DEF Quiet
<1>4. /\ Waiting = 1 + CountIn(Tail(todo), Reconnects)
      /\ CountIn(Tail(todo), Reconnects) \in Nat
  BY <1>1, CountTop DEF Tells
<1>5. /\ Waiting' = CountIn(Tail(todo), Reconnects)
      /\ Contains(todo', "free") => Contains(todo, "free")
  <2> DEFINE s == <<"callback">>
  <2>1. s \in Seq(Ops) /\ Then(s) /\ CountIn(s, Reconnects) = 0 /\ ~Contains(s, "free")
    BY <1>1, <1>2, <1>3
  <2> HIDE DEF s
  <2>2. /\ Waiting' = CountIn(s, Reconnects) + CountIn(Tail(todo), Reconnects)
        /\ \A op : Contains(todo', op) => Contains(s, op) \/ Contains(todo, op)
    BY <1>1, <2>1, CountThen
  <2> QED BY <1>4, <2>1, <2>2
<1>6. owed = Len(log) + Waiting /\ Released /\ (dropped => Heard("onDisconnected"))
  BY DEF EventsInv, EventsAccountedFor, Waiting, CountIn
<1>7. Released'
  BY <1>1, <1>5, <1>6 DEF Released, Heard
<1>8. owed' = Len(log') + Waiting'
  <2>1. PICK n \in Nat : n = Len(log) /\ n = Len(log')
    BY <1>1, LenProperties
  <2> QED BY <1>1, <1>4, <1>5, <1>6, <2>1
<1>9. EventsAccountedFor'
  BY <1>1, <1>6, <1>8 DEF EventsAccountedFor, Waiting, CountIn, Heard
<1> QED BY <1>7, <1>9 DEF EventsInv

\* What else Lua does happens to no event.
LEMMA EventsOfLua ==
  ASSUME IInv, EventsInv, LuaOnly \/ Connect,
         ~TakeEvents, ~ReconnectCallback, ~PingLog
  PROVE  EventsInv'
<1> USE DEF flagVars, workVars, luaVars, countVars, ghostVars
<1>t. /\ todo \in Seq(Ops) /\ heard \in [Callbacks -> Nat] /\ started \in BOOLEAN
      /\ "onDisconnected" \in Callbacks
  BY DEF IInv, StackProper, Typed, Callbacks
<1>q. /\ Quiet(<<>>) /\ ~Contains(<<>>, "free")
      /\ \A op \in Ops \ Reconnects : Quiet(<<op>>) /\ (Contains(<<op>>, "free") => op = "free")
      /\ Quiet(Think) /\ ~Contains(Think, "free")
  BY QuietSteps
<1>1. CASE Connect \/ ConnectRefused \/ SetAutoReconnect
  <2>1. /\ UNCHANGED <<log, owed, dropped, attempt, heard, todo>>
        /\ \/ pinned'
           \/ UNCHANGED <<started, pinned>>
    BY <1>1 DEF Connect, ConnectRefused, SetAutoReconnect
  <2>2. Released' /\ EventsAccountedFor'
    BY <2>1 DEF EventsInv, Released, EventsAccountedFor, Heard
  <2> QED BY <2>2 DEF EventsInv
<1>2. CASE WaitConnected \/ Ping \/ ThinkHook \/ \E wait \in BOOLEAN : Disconnect(wait)
  <2>1. UNCHANGED <<log, owed, dropped, started, attempt, pinned, heard>>
    BY <1>2 DEF WaitConnected, Ping, ThinkHook, Disconnect
  <2>2. \E s : Quiet(s) /\ ~Contains(s, "free") /\ Call(s)
    <3>1. CASE WaitConnected
      <4>1. Quiet(<<"await">>) /\ ~Contains(<<"await">>, "free")
        BY <1>q DEF Ops, Reconnects
      <4> QED BY <1>q, <3>1, <4>1, QuietConcat DEF WaitConnected
    <3>2. CASE Ping
      <4>1. Quiet(<<"ping">>) /\ ~Contains(<<"ping">>, "free")
        BY <1>q DEF Ops, Reconnects
      <4> QED BY <3>2, <4>1 DEF Ping
    <3>3. CASE ThinkHook
      <4>1. Think \in Seq(Ops) /\ todo' = Think \o todo /\ LuaRuns
        BY <3>3, ThinkIsPlain, ConcatEmptySeq DEF ThinkHook, Plain, LuaRuns
      <4> QED BY <1>q, <4>1 DEF Call
    <3>4. ASSUME NEW wait \in BOOLEAN, Disconnect(wait)
          PROVE  \E s : Quiet(s) /\ ~Contains(s, "free") /\ Call(s)
      <4> DEFINE a == IF started THEN <<"shutdown">> ELSE <<>>
                 b == IF wait /\ started THEN <<"join">> ELSE <<>>
                 c == IF wait THEN Think ELSE <<>>
                 Fine(s) == Quiet(s) /\ ~Contains(s, "free")
      <4>1. Fine(<<"shutdown">>) /\ Fine(<<"join">>)
        BY <1>q DEF Ops, Reconnects
      <4>2. Fine(a) /\ Fine(b) /\ Fine(c)
        BY <1>q, <4>1
      <4>3. Call(a \o b \o c)
        BY <3>4 DEF Disconnect
      <4> HIDE DEF a, b, c
      <4>4. Fine(a \o b \o c)
        BY <4>2, QuietConcat
      <4> QED BY <4>3, <4>4
    <3> QED BY <1>2, <3>1, <3>2, <3>3, <3>4
  <2>3. Waiting' = Waiting /\ (Contains(todo', "free") => Contains(todo, "free"))
    BY <1>t, <2>2, QuietCall
  <2> QED BY <2>1, <2>3, EventsKept DEF Goodbye, Heard
\* A step in the place of the first.
<1>s. ASSUME UNCHANGED <<log, owed, dropped, started, attempt>>,
             Goodbye => Goodbye', Heard("onDisconnected") => Heard("onDisconnected")',
             pinned => pinned' \/ Goodbye',
             todo # <<>>, Head(todo) \notin Reconnects,
             NEW s, Quiet(s), Then(s), Contains(s, "free") => Goodbye'
      PROVE  EventsInv'
  BY <1>s, <1>t, QuietThen, EventsKept
<1>3. CASE \/ Shutdown \/ ShutStatus \/ Close \/ Join \/ Await \/ Complete \/ Return
           \/ PingAnswered \/ PingFails \/ PingRetry \/ PingConnect
  <2>1. /\ UNCHANGED <<log, owed, dropped, started, attempt, pinned, heard>>
        /\ todo # <<>> /\ Head(todo) \notin Reconnects
    BY <1>3 DEF Shutdown, ShutStatus, Close, Join, Await, Complete, Return,
                PingAnswered, PingFails, PingRetry, PingConnect, At, Reconnects
  <2>2. Quiet(<<"shutStatus", "close">>) /\ ~Contains(<<"shutStatus", "close">>, "free")
    BY DEF Quiet, Contains, Ops, Reconnects
  <2>3. \A op \in {"asleep", "callback", "pingRetry", "pingConnect", "pingLog"} :
          Quiet(<<op>>) /\ ~Contains(<<op>>, "free")
    BY <1>q DEF Ops, PingOps, Reconnects
  <2>4. \E s : Quiet(s) /\ ~Contains(s, "free") /\ Then(s)
    <3>1. CASE Shutdown
      BY <1>q, <2>2, <3>1 DEF Shutdown
    <3>2. CASE ShutStatus \/ Close \/ Join \/ Return \/ PingAnswered
      BY <1>q, <3>2 DEF ShutStatus, Close, Join, Return, PingAnswered
    <3>3. CASE Await \/ Complete
      BY <1>q, <2>3, <3>3 DEF Await, Complete
    <3>4. CASE PingFails
      BY <1>q, <2>3, <3>4 DEF PingFails
    <3>5. CASE PingRetry \/ PingConnect
      BY <1>q, <2>3, <3>5 DEF PingRetry, PingConnect
    <3> QED BY <1>3, <3>1, <3>2, <3>3, <3>4, <3>5
  <2> QED BY <1>s, <2>1, <2>4 DEF Goodbye, Heard
<1>4. CASE TakeFinished
  <2> DEFINE s == [i \in 1..finished |-> "complete"]
  <2>1. /\ todo # <<>> /\ Then(s) /\ Head(todo) \notin Reconnects
        /\ UNCHANGED <<log, owed, dropped, started, attempt, pinned, heard>>
    BY <1>4 DEF TakeFinished, At, Reconnects
  <2>2. s \in Seq({"complete"})
    BY SeqDef DEF IInv, Typed
  <2> HIDE DEF s
  <2>3. \A op : Contains(s, op) => op = "complete"
    BY <2>2, ElementOfSeq DEF Contains
  <2>4. Quiet(s) /\ ~Contains(s, "free")
    <3>1. s \in Seq(Ops)
      BY <2>2, SeqMonotonic DEF Ops
    <3> QED BY <2>3, <3>1 DEF Quiet, Reconnects
  <2> QED BY <1>s, <2>1, <2>4 DEF Goodbye, Heard
<1>5. CASE ConnectionCallback
  <2>1. /\ UNCHANGED <<log, owed, dropped, started, attempt, pinned>>
        /\ heard'["onDisconnected"] = heard["onDisconnected"]
        /\ todo # <<>> /\ Head(todo) \notin Reconnects
    <3>1. heard'["onDisconnected"] = heard["onDisconnected"]
      BY <1>5, <1>t DEF ConnectionCallback, TellingConnection
    <3> QED BY <1>5, <3>1 DEF ConnectionCallback, TellingConnection, At, Reconnects
  <2>2. \/ Then(<<>>) \/ Then(<<"callback">>)
        \/ Then(<<"callback", "free">>) /\ ~success /\ done
    BY <1>5 DEF ConnectionCallback, TellingConnection
  <2>3. Quiet(<<"callback">>) /\ ~Contains(<<"callback">>, "free")
    BY <1>q DEF Ops, Reconnects
  <2>4. Quiet(<<"callback", "free">>)
    BY DEF Quiet, Contains, Ops, Reconnects
  <2>5. ~success /\ done => attempt = "down"
    BY DEF IInv, Began, Typed
  <2>6. \E s : Quiet(s) /\ Then(s) /\ (Contains(s, "free") => attempt = "down")
    BY <1>q, <2>2, <2>3, <2>4, <2>5
  <2> QED BY <1>s, <2>1, <2>6 DEF Goodbye, Heard
<1>6. CASE Bye
  <2>1. /\ UNCHANGED <<log, owed, dropped, started, attempt, pinned>>
        /\ todo # <<>> /\ Head(todo) \notin Reconnects
    BY <1>6 DEF Bye, At, Reconnects
  <2>2. \/ Then(<<>>) /\ UNCHANGED heard
        \/ /\ Then(<<"callback", "free">>)
           /\ heard' = [heard EXCEPT ![IF Releasing THEN "nested" ELSE "onDisconnected"] = @ + 1]
    BY <1>6, <1>t DEF Bye
  <2>3. Quiet(<<"callback", "free">>)
    BY DEF Quiet, Contains, Ops, Reconnects
  <2>4. heard["onDisconnected"] \in Nat
    BY <1>t
  <2>5. /\ Heard("onDisconnected") => Heard("onDisconnected")'
        /\ Then(<<>>) \/ (Then(<<"callback", "free">>) /\ Goodbye')
    <3>1. CASE UNCHANGED heard /\ Then(<<>>)
      BY <3>1 DEF Heard
    <3>2. CASE ~Releasing /\ ~(UNCHANGED heard /\ Then(<<>>))
      <4>1. /\ heard' = [heard EXCEPT !["onDisconnected"] = @ + 1]
            /\ Then(<<"callback", "free">>)
        BY <2>2, <3>2
      <4> QED BY <1>t, <2>4, <4>1 DEF Heard, Goodbye
    <3>3. CASE Releasing /\ ~(UNCHANGED heard /\ Then(<<>>))
      <4>1. /\ heard' = [heard EXCEPT !["nested"] = @ + 1]
            /\ Then(<<"callback", "free">>)
        BY <2>2, <3>3
      <4>2. heard'["onDisconnected"] = heard["onDisconnected"]
        BY <1>t, <4>1
      <4> QED BY <2>1, <3>3, <4>1, <4>2 DEF Heard, Goodbye, EventsInv, Released
    <3> QED BY <3>1, <3>2, <3>3
  <2>6. \E s : Quiet(s) /\ Then(s) /\ (Contains(s, "free") => Goodbye')
    BY <1>q, <2>3, <2>5
  <2> QED BY <1>s, <2>1, <2>5, <2>6 DEF Goodbye
<1>7. CASE Free
  <2>1. /\ UNCHANGED <<log, owed, dropped, started, attempt, heard>>
        /\ todo # <<>> /\ Head(todo) = "free" /\ Head(todo) \notin Reconnects
        /\ Then(<<>>)
    BY <1>7 DEF Free, Freeing, At, Reconnects
  <2>2. Contains(todo, "free")
    BY <1>t, <2>1, ContainsTail
  <2>3. Goodbye
    BY <2>2 DEF EventsInv, Released, Goodbye
  <2> QED BY <1>s, <1>q, <2>1, <2>3 DEF Goodbye, Heard
<1> QED BY <1>1, <1>2, <1>3, <1>4, <1>5, <1>6, <1>7 DEF LuaOnly

LEMMA EventsInvariant == Spec => []EventsInv
<1>1. Init => EventsInv
  <2> SUFFICES ASSUME Init PROVE EventsInv
    OBVIOUS
  <2>1. todo = <<>> /\ log = <<>> /\ owed = 0 /\ ~dropped /\ ~started
    BY DEF Init
  <2>2. CountIn(todo, Reconnects) = 0 /\ Len(log) = 0 /\ ~Contains(todo, "free")
    BY <2>1, EmptySeq, ContainsEmpty, CountNoneAll
  <2>3. Released
    BY <2>1, <2>2 DEF Released
  <2>4. EventsAccountedFor
    BY <2>1, <2>2 DEF EventsAccountedFor, CountIn
  <2> QED BY <2>3, <2>4 DEF EventsInv
<1>2. IInv /\ EventsInv /\ [Next]_vars => EventsInv'
  <2> SUFFICES ASSUME IInv, EventsInv, [Next]_vars PROVE EventsInv'
    OBVIOUS
  <2>1. CASE UNCHANGED vars
    BY <2>1 DEF vars, flagVars, workVars, luaVars, countVars, ghostVars, EventsInv, Released,
                EventsAccountedFor, Heard
  <2> QED BY <2>1, StepsByThread, EventsOfWorker, EventsLogged, EventsTaken, EventsTold,
             EventsOfLua
<1> QED BY <1>1, <1>2, Inductive, PTL DEF Spec

\* Every reconnect that happened is in the log, about to be told, told, or came
\* when onDisconnected had released the table (LuaDatabase.cpp:497).
THEOREM EventsAreAccountedFor == Spec => []EventsAccountedFor
<1>1. EventsInv => EventsAccountedFor
  BY DEF EventsInv
<1> QED BY <1>1, EventsInvariant, PTL

-----------------------------------------------------------------------------
(* The types, with their bounds. *)

LEMMA BoundsPreserved ==
  ASSUME Typed, WithinBounds, [Next]_vars
  PROVE  WithinBounds'
<1> USE BoundsAssumption DEF Typed, WithinBounds, flagVars, workVars, luaVars, countVars, ghostVars
<1>1. CASE UNCHANGED vars
  BY <1>1 DEF vars
<1>2. CASE \/ ConnectRefused \/ WaitConnected \/ Ping \/ SetAutoReconnect
           \/ (\E wait \in BOOLEAN : Disconnect(wait)) \/ ThinkHook \/ Return
  <2>1. UNCHANGED <<finished, workVars, dropped, pings>>
    BY <1>2 DEF ConnectRefused, WaitConnected, Ping, SetAutoReconnect, Disconnect, ThinkHook,
                Return
  <2>2. auto' = auto \/ auto' = ~auto
    BY <1>2 DEF ConnectRefused, WaitConnected, Ping, SetAutoReconnect, Disconnect, ThinkHook,
                Return
  <2> QED BY <2>1, <2>2
<1>3. CASE Connect \/ Shutdown \/ ShutStatus \/ Close \/ Join \/ Await
  BY <1>3 DEF Connect, Shutdown, ShutStatus, Close, Join, Await, InStatement
<1>4. CASE ConnectionCallback \/ ReconnectCallback \/ TakeFinished \/ Complete \/ Bye \/ Free
  BY <1>4 DEF ConnectionCallback, TellingConnection, ReconnectCallback, TakeFinished,
              Complete, Bye, Free, Freeing
<1>5. CASE TakeEvents
  BY <1>5 DEF TakeEvents
<1>6. CASE PingAnswered \/ PingFails \/ PingRetry \/ PingConnect \/ PingLog
  BY <1>6 DEF PingAnswered, PingFails, PingRetry, PingConnect, PingLog, Log
<1>7. CASE AttemptConnection \/ StoreSuccess \/ StoreDone \/ StoreStatus \/ Notify \/ FailClose
  BY <1>7 DEF AttemptConnection, StoreSuccess, StoringSuccess, StoreDone, StoreStatus, Notify,
              Notifying, FailClose, WorkerAt, Goto, InStatement
<1>8. CASE TakeNext \/ Begin \/ Execute \/ Failed \/ Put
  BY <1>8 DEF TakeNext, Begin, Execute, Failed, Put, WorkerAt, Goto, InStatement
<1>9. CASE Reconnect \/ Reconnecting \/ LogReconnect
  BY <1>9 DEF Reconnect, Reconnecting, LogReconnect, Log, WorkerAt, Goto, Onward, InStatement
<1>10. CASE Reset \/ SetDisconnected \/ LastStatus
  BY <1>10 DEF Reset, SetDisconnected, Disconnecting, LastStatus, WorkerAt, Goto, InStatement
<1> QED BY <1>1, <1>2, <1>3, <1>4, <1>5, <1>6, <1>7, <1>8, <1>9, <1>10
        DEF Next, Worker, LuaStep, LuaCall

\* Every variable of Connection has its type, and the counters their bounds: what
\* has finished was taken, and each event in the log is one that is owed to Lua.
THEOREM TypeCorrect == Spec => []TypeOK
<1>1. Init => WithinBounds
  <2> SUFFICES ASSUME Init PROVE WithinBounds
    OBVIOUS
  <2>1. finished = 0 /\ runs = 0 /\ pings = 0 /\ pc = "none"
    BY DEF Init
  <2>2. auto \in BOOLEAN /\ dropped \in BOOLEAN
    BY DEF Init
  <2> QED BY <2>1, <2>2, BoundsAssumption DEF WithinBounds, InStatement
<1>2. IInv /\ WithinBounds /\ [Next]_vars => WithinBounds'
  BY BoundsPreserved DEF IInv
<1>3. IInv /\ EventsInv /\ WithinBounds => TypeOK
  <2> SUFFICES ASSUME IInv, EventsInv, WithinBounds PROVE TypeOK
    OBVIOUS
  <2> USE DEF IInv, Typed, WithinBounds
  <2>1. todo \in Seq(Ops)
    BY DEF StackProper
  <2>2. finished \in 0..MaxRuns
    BY BoundsAssumption
  <2>3. owed \in Nat /\ Len(log) <= owed
    <3>1. CountIn(todo, Reconnects) \in Nat
      BY <2>1, CountNat
    <3>2. owed = Len(log) + CountIn(todo, Reconnects) /\ Len(log) \in Nat
      BY DEF EventsInv, EventsAccountedFor, CountIn
    <3> QED BY <3>1, <3>2
  <2>4. {started, done, success, shuttingDown, disconnected, auto, closed} \subseteq BOOLEAN
    OBVIOUS
  <2> QED BY <2>1, <2>2, <2>3, <2>4 DEF TypeOK
<1> QED BY <1>1, <1>2, <1>3, Inductive, EventsInvariant, PTL DEF Spec

-----------------------------------------------------------------------------
(* The settings: what libpq reads, symbol by symbol and part by part. *)

Keys     == Symbols \union {"none"}
Modes    == {"key", "=", "begin", "quoted", "escape", "bare", "end"}
ReadMaps == UNION {[D -> Seq(Symbols)] : D \in SUBSET Keys}
Readers  == [mode : Modes, key : Keys, value : Seq(Symbols), read : ReadMaps]

\* What has been read, once the value v of the keyword k has been.
Updated(m, k, v) == [l \in DOMAIN m \union {k} |-> IF l = k THEN v ELSE m[l]]

LEMMA UpdatedMap ==
  ASSUME NEW m \in ReadMaps, NEW k \in Keys, NEW v \in Seq(Symbols)
  PROVE  Updated(m, k, v) \in ReadMaps
<1>1. PICK D \in SUBSET Keys : m \in [D -> Seq(Symbols)]
  BY DEF ReadMaps
<1>2. Updated(m, k, v) \in [D \union {k} -> Seq(Symbols)]
  BY <1>1 DEF Updated
<1> QED BY <1>2 DEF ReadMaps

LEMMA NotReadIs == NotRead \in ReadMaps /\ DOMAIN NotRead = {}
<1>1. NotRead \in [{} -> Seq(Symbols)] /\ {} \in SUBSET Keys
  BY DEF NotRead
<1> QED BY <1>1 DEF ReadMaps, NotRead

LEMMA IdleReader ==
  ASSUME NEW m \in ReadMaps
  PROVE  /\ [Reading EXCEPT !.read = m] \in Readers
         /\ [Reading EXCEPT !.read = m].read = m
<1>1. <<>> \in Seq(Symbols)
  BY EmptySeq
<1>2. "key" \in Modes /\ "none" \in Keys
  BY DEF Modes, Keys
<1> QED BY <1>1, <1>2 DEF Reading, Readers

LEMMA ReadingIs == Reading \in Readers /\ Reading = [Reading EXCEPT !.read = NotRead]
<1>1. Reading = [Reading EXCEPT !.read = NotRead]
  BY DEF Reading
<1> QED BY <1>1, NotReadIs, IdleReader

LEMMA Read1Reader ==
  ASSUME NEW r \in Readers, NEW s \in Symbols
  PROVE  Read1(r, s) \in Readers
<1>1. /\ r.mode \in Modes /\ r.key \in Keys /\ r.value \in Seq(Symbols)
      /\ r.read \in ReadMaps
  BY DEF Readers
<1>2. Ended(r) \in Readers
  <2>1. Ended(r) = [Reading EXCEPT !.read = Updated(r.read, r.key, r.value)]
    BY DEF Ended, Updated
  <2> QED BY <1>1, <2>1, UpdatedMap, IdleReader
<1>3. Append(r.value, s) \in Seq(Symbols) /\ <<s>> \in Seq(Symbols)
  BY <1>1, AppendProperties, AppendIsConcat, EmptySeq
<1>4. \A x \in {"end", "=", "begin", "quoted", "escape", "bare"} : x \in Modes
  BY DEF Modes
<1>5. ASSUME NEW x \in Modes, NEW k \in Keys, NEW v \in Seq(Symbols)
      PROVE  /\ [r EXCEPT !.mode = x] \in Readers
             /\ [r EXCEPT !.mode = x, !.key = k] \in Readers
             /\ [r EXCEPT !.mode = x, !.value = v] \in Readers
             /\ [r EXCEPT !.value = v] \in Readers
  BY DEF Readers
<1>6. /\ \A x \in {"end", "=", "begin", "quoted", "escape"} : [r EXCEPT !.mode = x] \in Readers
      /\ [r EXCEPT !.mode = "=", !.key = s] \in Readers
      /\ [r EXCEPT !.mode = "bare", !.value = <<s>>] \in Readers
      /\ [r EXCEPT !.mode = "quoted", !.value = Append(@, s)] \in Readers
      /\ [r EXCEPT !.value = Append(@, s)] \in Readers
  BY <1>1, <1>3, <1>4, <1>5 DEF Keys
<1> QED BY <1>2, <1>6 DEF Read1

\* The readers met on the way through a text.
Follows(h, r, text) ==
  h[0] = r /\ \A i \in 1..Len(text) : h[i] = Read1(h[i - 1], text[i])

LEMMA FollowsOnce ==
  ASSUME NEW r, NEW text, Len(text) \in Nat,
         NEW h, Follows(h, r, text), NEW f, Follows(f, r, text)
  PROVE  f[Len(text)] = h[Len(text)]
<1> USE DEF Follows
<1> DEFINE n == Len(text)
           P == {i \in 0..n : f[i] = h[i]}
<1>1. 0 \in P
  OBVIOUS
<1>2. ASSUME NEW i \in 1..n, i - 1 \in P PROVE i \in P
  BY <1>2
<1> HIDE DEF P
<1>3. \A i \in 0..n : i \in P
  BY <1>1, <1>2, InductionUpTo
<1> QED BY <1>3 DEF P

LEMMA ReadAllPasses ==
  ASSUME NEW r \in Readers, NEW text \in Seq(Symbols)
  PROVE  \E h \in [0..Len(text) -> Readers] :
           Follows(h, r, text) /\ ReadAll(r, text) = h[Len(text)]
<1> DEFINE n == Len(text)
           g == [i \in 1..n |-> [q \in Readers |-> Read1(q, text[i])]]
           F(f) == f = [i \in 0..n |-> IF i = 0 THEN r ELSE Read1(f[i - 1], text[i])]
           f == CHOOSE f : F(f)
<1>1. n \in Nat /\ \A i \in 1..n : text[i] \in Symbols
  BY LenProperties, ElementOfSeq
<1>2. g \in [1..n -> [Readers -> Readers]]
  BY <1>1, Read1Reader
<1> HIDE DEF g, n
<1>3. PICK h : Iterates(h, Readers, r, n, g)
  BY <1>1, <1>2, IterationExists
<1>4. /\ h \in [0..n -> Readers] /\ h[0] = r
      /\ \A i \in 1..n : h[i] = Read1(h[i - 1], text[i])
  <2>1. h \in [0..n -> Readers] /\ h[0] = r /\ \A i \in 1..n : h[i] = g[i][h[i - 1]]
    BY <1>3 DEF Iterates
  <2>2. ASSUME NEW i \in 1..n PROVE g[i][h[i - 1]] = Read1(h[i - 1], text[i])
    <3>1. h[i - 1] \in Readers
      BY <1>1, <2>1
    <3> QED BY <3>1 DEF g
  <2> QED BY <2>1, <2>2
<1>5. F(h)
  <2>1. \A i \in 0..n : h[i] = IF i = 0 THEN r ELSE Read1(h[i - 1], text[i])
    BY <1>1, <1>4
  <2> QED BY <1>4, <2>1
<1>6. F(f)
  <2> HIDE DEF F
  <2> QED BY <1>5
<1>7. ReadAll(r, text) = f[n]
  BY DEF ReadAll, n
<1>8. f[0] = r /\ \A i \in 1..n : f[i] = Read1(f[i - 1], text[i])
  <2> HIDE DEF f
  <2>1. 0 \in 0..n /\ \A i \in 1..n : i \in 0..n /\ i # 0
    BY <1>1
  <2> QED BY <1>6, <2>1
<1> HIDE DEF f, F
<1>9. Follows(h, r, text) /\ Follows(f, r, text)
  BY <1>4, <1>8 DEF Follows, n
<1>10. f[n] = h[n]
  BY <1>1, <1>9, FollowsOnce DEF n
<1> QED BY <1>4, <1>7, <1>9, <1>10 DEF n

LEMMA ReadAllIs ==
  ASSUME NEW r \in Readers, NEW text \in Seq(Symbols)
  PROVE  /\ ReadAll(r, text) \in Readers
         /\ \A h : Follows(h, r, text) => ReadAll(r, text) = h[Len(text)]
<1>1. PICK f \in [0..Len(text) -> Readers] :
        Follows(f, r, text) /\ ReadAll(r, text) = f[Len(text)]
  BY ReadAllPasses
<1>2. Len(text) \in Nat
  BY LenProperties
<1>3. f[Len(text)] \in Readers
  BY <1>1, <1>2
<1> QED BY <1>1, <1>2, <1>3, FollowsOnce

LEMMA ReadNone ==
  ASSUME NEW r \in Readers PROVE ReadAll(r, <<>>) = r
<1> DEFINE h == [i \in 0..0 |-> r]
<1>1. <<>> \in Seq(Symbols) /\ Len(<<>>) = 0
  BY EmptySeq
<1>2. h[0] = r
  OBVIOUS
<1>3. Follows(h, r, <<>>)
  BY <1>1, <1>2 DEF Follows
<1> HIDE DEF h
<1>4. ReadAll(r, <<>>) = h[Len(<<>>)]
  <2> DEFINE t == <<>>
  <2>1. t \in Seq(Symbols) /\ Follows(h, r, t)
    BY <1>1, <1>3
  <2> HIDE DEF t
  <2>2. ReadAll(r, t) = h[Len(t)]
    BY <2>1, ReadAllIs
  <2> QED BY <2>2 DEF t
<1> QED BY <1>1, <1>2, <1>4

LEMMA ReadOne ==
  ASSUME NEW r \in Readers, NEW s \in Symbols PROVE ReadAll(r, <<s>>) = Read1(r, s)
<1> DEFINE t == <<s>>
           h == [i \in 0..1 |-> IF i = 0 THEN r ELSE Read1(r, s)]
<1>1. t \in Seq(Symbols) /\ Len(t) = 1 /\ t[1] = s
  OBVIOUS
<1>2. h[0] = r /\ h[1] = Read1(r, s)
  OBVIOUS
<1> HIDE DEF t, h
<1>3. Follows(h, r, t)
  BY <1>1, <1>2 DEF Follows
<1>4. ReadAll(r, t) = h[Len(t)]
  BY <1>1, <1>3, ReadAllIs
<1> QED BY <1>1, <1>2, <1>4 DEF t

\* A string is read part by part.
LEMMA ReadConcat ==
  ASSUME NEW r \in Readers, NEW s \in Seq(Symbols), NEW t \in Seq(Symbols)
  PROVE  s \o t \in Seq(Symbols) /\ ReadAll(r, s \o t) = ReadAll(ReadAll(r, s), t)
<1> DEFINE m == Len(s)
           n == Len(t)
           u == s \o t
           q == ReadAll(r, s)
<1>1. /\ u \in Seq(Symbols) /\ Len(u) = m + n /\ m \in Nat /\ n \in Nat
      /\ \A i \in 1..m + n : u[i] = IF i <= m THEN s[i] ELSE t[i - m]
  BY ConcatProperties, LenProperties
<1> HIDE DEF u, m, n, q
<1>2. PICK e \in [0..m -> Readers] : Follows(e, r, s) /\ q = e[m]
  BY ReadAllPasses DEF q, m
<1>3. q \in Readers
  BY ReadAllIs DEF q
<1>4. PICK f \in [0..n -> Readers] : Follows(f, q, t) /\ ReadAll(q, t) = f[n]
  BY <1>3, ReadAllPasses DEF n
<1> DEFINE h == [i \in 0..m + n |-> IF i <= m THEN e[i] ELSE f[i - m]]
<1>5. /\ e[0] = r /\ \A i \in 1..m : e[i] = Read1(e[i - 1], s[i])
      /\ f[0] = q /\ \A i \in 1..n : f[i] = Read1(f[i - 1], t[i])
  BY <1>2, <1>4 DEF Follows, m, n
<1>6. ASSUME NEW i \in 1..m + n PROVE h[i] = Read1(h[i - 1], u[i])
  <2>1. i - 1 \in 0..m + n
    BY <1>1
  <2>2. CASE i <= m
    <3>1. i \in 1..m /\ h[i] = e[i] /\ h[i - 1] = e[i - 1] /\ u[i] = s[i]
      BY <1>1, <2>1, <2>2
    <3> QED BY <1>5, <3>1
  <2>3. CASE i = m + 1
    <3>1. 1 \in 1..n /\ i - 1 = m /\ i - m = 1 /\ ~(i <= m)
      BY <1>1, <2>3
    <3>2. h[i] = f[1] /\ h[i - 1] = e[m] /\ u[i] = t[1]
      BY <1>1, <2>1, <3>1
    <3>3. f[1] = Read1(f[1 - 1], t[1]) /\ 1 - 1 = 0
      BY <1>5, <3>1
    <3> QED BY <1>2, <1>5, <3>2, <3>3
  <2>4. CASE i > m + 1
    <3> DEFINE j == i - m
    <3>1. /\ j \in 1..n /\ h[i] = f[j] /\ (i - 1) - m = j - 1 /\ h[i - 1] = f[j - 1]
          /\ u[i] = t[j]
      BY <1>1, <2>1, <2>4
    <3> QED BY <1>5, <3>1
  <2> QED BY <1>1, <2>2, <2>3, <2>4
<1>7. h[0] = r
  BY <1>1, <1>5
<1>8. h[m + n] = f[n]
  BY <1>1, <1>2, <1>5
<1> HIDE DEF h
<1>9. Follows(h, r, u)
  BY <1>1, <1>6, <1>7 DEF Follows
<1>10. ReadAll(r, u) = h[Len(u)]
  BY <1>1, <1>9, ReadAllIs
<1> QED BY <1>1, <1>4, <1>8, <1>10 DEF u, q

\* And so is one that FlattenSeq makes of parts.
LEMMA ReadFlattened ==
  ASSUME NEW r \in Readers, NEW p \in Seq(Seq(Symbols)), NEW c, c[0] = r,
         \A i \in 1..Len(p) : c[i] = ReadAll(c[i - 1], p[i])
  PROVE  FlattenSeq(p) \in Seq(Symbols) /\ ReadAll(r, FlattenSeq(p)) = c[Len(p)]
<1> DEFINE n == Len(p)
           T == Seq(Symbols)
<1>1. n \in Nat /\ \A i \in 1..n : p[i] \in T
  <2>1. p \in Seq(T)
    OBVIOUS
  <2> HIDE DEF T
  <2> QED BY <2>1, LenProperties, ElementOfSeq
<1>2. PICK h \in [0..n -> T] :
        /\ h[0] = <<>> /\ \A i \in 1..n : h[i] = h[i - 1] \o p[i]
        /\ FlattenSeq(p) = h[n]
  BY FlattenSteps
<1> DEFINE P == {i \in 0..n : ReadAll(r, h[i]) = c[i]}
<1> HIDE DEF n
<1>3. 0 \in P
  BY <1>1, <1>2, ReadNone
<1>4. ASSUME NEW i \in 1..n, i - 1 \in P PROVE i \in P
  <2>1. h[i - 1] \in T /\ p[i] \in T
    BY <1>1, <1>2
  <2>2. ReadAll(r, h[i - 1] \o p[i]) = ReadAll(ReadAll(r, h[i - 1]), p[i])
    BY <2>1, ReadConcat
  <2>3. c[i] = ReadAll(c[i - 1], p[i])
    BY DEF n
  <2>4. ReadAll(r, h[i - 1]) = c[i - 1]
    BY <1>4
  <2> HIDE DEF T
  <2>5. h[i] = h[i - 1] \o p[i]
    BY <1>2, Zenon
  <2>6. i \in 0..n
    BY <1>1
  <2>7. ReadAll(r, h[i]) = c[i]
    BY <2>2, <2>3, <2>4, <2>5, Zenon
  <2> QED BY <2>6, <2>7
<1> HIDE DEF P
<1>5. \A i \in 0..n : i \in P
  BY <1>1, <1>3, <1>4, InductionUpTo
<1>6. n \in P /\ n \in 0..n
  BY <1>1, <1>5
<1> QED BY <1>1, <1>2, <1>6 DEF P, n

-----------------------------------------------------------------------------
(* What a value in quotes, a value without and an entry are read as. *)

Texty       == Seq(Symbols \ {"NUL"})
Value(k, m) == [mode |-> "begin", key |-> k, value |-> <<>>, read |-> m]
Quoting(k, m, v) == [mode |-> "quoted", key |-> k, value |-> v, read |-> m]
Between(m)     == [Reading EXCEPT !.read = m]

LEMMA QuotingReader ==
  ASSUME NEW k \in Keys, NEW m \in ReadMaps, NEW v \in Seq(Symbols)
  PROVE  Quoting(k, m, v) \in Readers
BY DEF Quoting, Readers, Modes

LEMMA QuotedStep ==
  ASSUME NEW k \in Keys, NEW m \in ReadMaps, NEW v \in Seq(Symbols),
         NEW s \in Symbols \ {"NUL"}, NEW p,
         p = IF s \in {"\\", "'"} THEN <<"\\", s>> ELSE <<s>>
  PROVE  p \in Seq(Symbols) /\ Quoting(k, m, Append(v, s)) = ReadAll(Quoting(k, m, v), p)
<1> DEFINE T == Seq(Symbols)
           r == Quoting(k, m, v)
           c == Quoting(k, m, Append(v, s))
           b == <<s>>
<1>1. r \in Readers /\ b \in T
  BY QuotingReader
<1>2. CASE s \in {"\\", "'"}
  <2> DEFINE a == <<"\\">>
             e == [mode |-> "escape", key |-> k, value |-> v, read |-> m]
  <2>1. p = a \o b /\ a \in T /\ "\\" \in Symbols
    <3>1. "\\" \in Symbols
      BY DEF Symbols, Meaningful
    <3>2. a \in T
      BY <3>1
    <3>3. <<"\\", s>> = a \o b
      OBVIOUS
    <3> QED BY <1>2, <3>1, <3>2, <3>3
  <2>2. Read1(r, "\\") = e
    BY DEF Read1, Quoting
  <2>3. ReadAll(r, a) = e
    <3> HIDE DEF r, e
    <3> QED BY <1>1, <2>1, <2>2, ReadOne
  <2>4. e \in Readers
    BY DEF Readers, Modes
  <2>5. Read1(e, s) = c
    BY DEF Read1, Quoting
  <2> HIDE DEF a, b, c, e, r
  <2>6. ReadAll(e, b) = c
    BY <2>4, <2>5, ReadOne DEF b
  <2>7. a \o b \in T /\ ReadAll(r, a \o b) = ReadAll(ReadAll(r, a), b)
    BY <1>1, <2>1, ReadConcat
  <2> QED BY <2>1, <2>3, <2>6, <2>7 DEF c, r
<1>3. CASE s \notin {"\\", "'"}
  <2>1. Read1(r, s) = c
    BY <1>3 DEF Read1, Quoting
  <2> HIDE DEF r, c
  <2>2. ReadAll(r, b) = c
    BY <1>1, <2>1, ReadOne
  <2> QED BY <1>1, <1>3, <2>2 DEF r, c
<1> QED BY <1>2, <1>3

\* A quote and a backslash are read as they were meant, whatever the text.
LEMMA ReadQuoted ==
  ASSUME NEW k \in Keywords, NEW m \in ReadMaps, NEW text \in Texty
  PROVE  /\ Quoted(text) \in Seq(Symbols)
         /\ ReadAll(Value(k, m), Quoted(text)) = Between(Updated(m, k, text))
<1> DEFINE n == Len(text)
           S == Symbols \ {"NUL"}
           T == Seq(Symbols)
           p == [i \in DOMAIN text |->
                  IF text[i] \in {"\\", "'"} THEN <<"\\", text[i]>> ELSE <<text[i]>>]
           pre(i) == SubSeq(text, 1, i)
           c == [i \in 0..n |-> Quoting(k, m, pre(i))]
           q == <<"'">>
<1>1. n \in Nat /\ DOMAIN text = 1..n /\ \A i \in 1..n : text[i] \in S
  BY LenProperties, ElementOfSeq DEF Texty
<1>2. {"'", "\\"} \subseteq Symbols /\ k \in Keys
  BY DEF Symbols, Meaningful, Keys
<1>3. ASSUME NEW i \in 0..n
      PROVE  pre(i) \in T /\ c[i] \in Readers
  <2>1. pre(i) \in T
    <3>1. \A j \in 1..i : text[j] \in Symbols
      BY <1>1
    <3> QED BY <1>1, <3>1, SubSeqProperties
  <2> HIDE DEF pre
  <2> QED BY <1>2, <2>1, QuotingReader
<1>4. ASSUME NEW i \in 1..n PROVE p[i] \in T /\ c[i] = ReadAll(c[i - 1], p[i])
  <2> DEFINE s == text[i]
             v == pre(i - 1)
  <2>1. s \in S /\ i - 1 \in 0..n /\ i \in 0..n
    BY <1>1
  <2>2. v \in T
    BY <1>3, <2>1
  <2>3. pre(i) = Append(v, s)
    <3>1. pre(i) = pre(i - 1) \o <<text[i]>>
      <4>1. text \in T
        BY <1>1, LenProperties DEF Texty
      <4> QED BY <1>1, <4>1, SubSeqRecursiveSecond
    <3> HIDE DEF pre
    <3> QED BY <2>1, <2>2, <3>1, AppendIsConcat
  <2>4. c[i] = Quoting(k, m, pre(i)) /\ c[i - 1] = Quoting(k, m, v)
    <3> HIDE DEF pre
    <3> QED BY <2>1
  <2>5. p[i] = IF s \in {"\\", "'"} THEN <<"\\", s>> ELSE <<s>>
    BY <1>1
  <2> HIDE DEF c, p, pre, s, v
  <2> QED BY <1>2, <2>1, <2>2, <2>3, <2>4, <2>5, QuotedStep
<1>5. p \in Seq(T) /\ Len(p) = n
  <2>1. p \in [1..n -> T]
    BY <1>1, <1>4
  <2> QED BY <1>1, <2>1
<1>6. FlattenSeq(p) \in T /\ ReadAll(c[0], FlattenSeq(p)) = c[n]
  <2> HIDE DEF c, p
  <2>1. c[0] \in Readers /\ \A i \in 1..Len(p) : c[i] = ReadAll(c[i - 1], p[i])
    <3>1. 0 \in 0..n
      BY <1>1
    <3> QED BY <1>3, <1>4, <1>5, <3>1
  <2> QED BY <1>5, <2>1, ReadFlattened
<1>7. c[0] = Quoting(k, m, <<>>) /\ c[n] = Quoting(k, m, text)
  <2>1. pre(0) = <<>> /\ pre(n) = text
    BY <1>1, SubSeqEmpty, SubSeqFull DEF Texty
  <2> HIDE DEF pre
  <2> QED BY <1>1, <2>1
<1>8. c[0] \in Readers /\ c[n] \in Readers
  BY <1>1, <1>3
<1> DEFINE f == FlattenSeq(p)
<1>9. Quoted(text) = (q \o f) \o q
  BY DEF Quoted
<1>10. Value(k, m) \in Readers
  BY <1>2, EmptySeq DEF Value, Readers, Modes
<1>11. q \in T /\ ReadAll(Value(k, m), q) = c[0]
  <2>1. Read1(Value(k, m), "'") = c[0]
    BY <1>7 DEF Value, Read1, Quoting
  <2> QED BY <1>2, <1>10, <2>1, ReadOne
<1>12. ReadAll(c[n], q) = Between(Updated(m, k, text))
  <2> HIDE DEF c
  <2>1. Read1(c[n], "'") = Ended(c[n])
    BY <1>7 DEF Read1, Quoting
  <2>2. Ended(c[n]) = Between(Updated(m, k, text))
    BY <1>7 DEF Ended, Between, Updated, Quoting
  <2> QED BY <1>2, <1>8, <2>1, <2>2, ReadOne
<1> HIDE DEF c, p, f, q
<1>13. f \in T /\ ReadAll(c[0], f) = c[n]
  BY <1>6 DEF f
<1>14. q \o f \in T /\ ReadAll(Value(k, m), q \o f) = c[n]
  BY <1>10, <1>11, <1>13, ReadConcat
<1>15. (q \o f) \o q \in T
       /\ ReadAll(Value(k, m), (q \o f) \o q) = ReadAll(c[n], q)
  BY <1>10, <1>11, <1>14, ReadConcat
<1> QED BY <1>9, <1>12, <1>15

LEMMA SymbolsHave ==
  /\ Keywords \subseteq Symbols /\ Meaningful \subseteq Symbols /\ "=" \in Symbols
  /\ \A i \in DOMAIN SSLModes : SSLModes[i] \in Symbols \ Meaningful
<1>1. ASSUME NEW i \in DOMAIN SSLModes
      PROVE  SSLModes[i] \in Range(SSLModes) \ Meaningful
  <2>1. DOMAIN SSLModes = 1..5
    BY DEF SSLModes
  <2>2. i = 1 \/ i = 2 \/ i = 3 \/ i = 4 \/ i = 5
    BY <2>1
  <2>3. SSLModes[i] \in {"disable", "prefer", "require", "verify-ca", "verify-full"}
    BY <2>2 DEF SSLModes
  <2> QED BY <2>3 DEF Range, Meaningful
<1> QED BY <1>1 DEF Symbols

LEMMA OneSymbol == \A x \in Symbols : <<x>> \in Seq(Symbols)
<1> SUFFICES ASSUME NEW S, NEW x \in S PROVE <<x>> \in Seq(S)
  OBVIOUS
<1> QED OBVIOUS

LEMMA ReadKey ==
  ASSUME NEW k \in Keywords, NEW m \in ReadMaps
  PROVE  /\ Value(k, m) \in Readers /\ Between(m) \in Readers
         /\ <<k, "=">> \in Seq(Symbols)
         /\ ReadAll(Between(m), <<k, "=">>) = Value(k, m)
<1> DEFINE T == Seq(Symbols)
           a == <<k>>
           b == <<"=">>
           e == [mode |-> "=", key |-> k, value |-> <<>>, read |-> m]
           r == Between(m)
           v == Value(k, m)
<1>1. k \in Symbols /\ "=" \in Symbols /\ k \in Keys /\ k # " " /\ k # "NUL"
  <2>1. k # " " /\ k # "NUL"
    BY DEF Keywords
  <2> QED BY <2>1, SymbolsHave DEF Keys
<1>2. r \in Readers
  BY IdleReader DEF Between
<1>3. e \in Readers /\ v \in Readers
  BY <1>1, EmptySeq DEF Value, Readers, Modes
<1>4. Read1(r, k) = e
  BY <1>1 DEF Read1, Between, Reading
<1>5. Read1(e, "=") = v
  BY DEF Read1, Value
<1>6. a \in T /\ b \in T /\ <<k, "=">> = a \o b
  <2>1. a \in T /\ b \in T
    BY <1>1, OneSymbol, Zenon
  <2>2. <<k, "=">> = a \o b
    OBVIOUS
  <2> QED BY <2>1, <2>2
<1> HIDE DEF e, r, v
<1>7. ReadAll(r, a) = e /\ ReadAll(e, b) = v
  BY <1>1, <1>2, <1>3, <1>4, <1>5, ReadOne
<1> HIDE DEF a, b
<1>8. a \o b \in T /\ ReadAll(r, a \o b) = v
  BY <1>2, <1>6, <1>7, ReadConcat
<1> QED BY <1>2, <1>3, <1>6, <1>8 DEF r, v

LEMMA ReadBlank ==
  ASSUME NEW m \in ReadMaps
  PROVE  <<" ">> \in Seq(Symbols) /\ ReadAll(Between(m), <<" ">>) = Between(m)
<1>1. " " \in Symbols
  BY SymbolsHave DEF Meaningful
<1>2. Between(m) \in Readers
  BY IdleReader DEF Between
<1>3. Read1(Between(m), " ") = Between(m)
  BY DEF Read1, Between, Reading
<1>4. <<" ">> \in Seq(Symbols)
  BY <1>1, OneSymbol, Zenon
<1>5. ReadAll(Between(m), <<" ">>) = Read1(Between(m), " ")
  BY <1>1, <1>2, ReadOne
<1> QED BY <1>3, <1>4, <1>5

LEMMA ReadBare ==
  ASSUME NEW k \in Keywords, NEW m \in ReadMaps, NEW s \in Symbols \ Meaningful
  PROVE  /\ <<s>> \in Seq(Symbols)
         /\ ReadAll(ReadAll(Value(k, m), <<s>>), <<" ">>) = Between(Updated(m, k, <<s>>))
<1> DEFINE r == Value(k, m)
           v == <<s>>
           e == [mode |-> "bare", key |-> k, value |-> v, read |-> m]
<1>1. /\ s \in Symbols /\ s # "'" /\ s # "NUL" /\ " " \in Symbols /\ k \in Keys
      /\ v \in Seq(Symbols)
  <2>1. s \in Symbols /\ s # "'" /\ s # "NUL" /\ " " \in Symbols /\ k \in Keys
    BY SymbolsHave DEF Meaningful, Keys
  <2> QED BY <2>1, OneSymbol, Zenon
<1>2. r \in Readers
  BY ReadKey
<1> HIDE DEF v
<1>3. e \in Readers
  BY <1>1 DEF Readers, Modes
<1>4. Read1(r, s) = e
  BY <1>1 DEF Read1, Value, v
<1>5. Read1(e, " ") = Ended(e)
  BY DEF Read1
<1>6. Ended(e) = Between(Updated(m, k, v))
  BY DEF Ended, Between, Updated
<1> HIDE DEF e, r
<1>7. ReadAll(r, <<s>>) = e
  BY <1>1, <1>2, <1>4, ReadOne
<1>8. ReadAll(e, <<" ">>) = Ended(e)
  BY <1>1, <1>3, <1>5, ReadOne
<1> QED BY <1>1, <1>6, <1>7, <1>8 DEF r, v

-----------------------------------------------------------------------------
(* A part of the string contributes what its entries say: of what was read     *)
(* before, the values of other keywords stay.                                  *)

Clean(m) ==
  m \in ReadMaps /\ DOMAIN m \subseteq Keywords /\ \A k \in DOMAIN m : m[k] # Nothing
Has(m, k) == IF k \in DOMAIN m THEN m[k] ELSE Nothing
One(k, v) == [l \in Keywords |-> IF l = k THEN v ELSE Nothing]
Over(W, V) == [l \in Keywords |-> Or(W[l], V[l])]

Contributes(text, V) ==
  /\ text \in Seq(Symbols)
  /\ \A m \in ReadMaps : Clean(m) =>
       \E q \in ReadMaps : /\ Clean(q) /\ ReadAll(Between(m), text) = Between(q)
                           /\ \A l \in Keywords : Has(q, l) = Or(V[l], Has(m, l))

LEMMA ContributesNothing == Contributes(<<>>, [l \in Keywords |-> Nothing])
<1>1. <<>> \in Seq(Symbols)
  BY EmptySeq
<1>2. ASSUME NEW m \in ReadMaps, Clean(m)
      PROVE  ReadAll(Between(m), <<>>) = Between(m)
  BY IdleReader, ReadNone DEF Between
<1>3. \A x : Or(Nothing, x) = x
  BY DEF Or
<1> QED BY <1>1, <1>2, <1>3 DEF Contributes

LEMMA ContributesPut ==
  ASSUME NEW k \in Keywords, NEW v \in Seq(Symbols), v # Nothing,
         NEW text \in Seq(Symbols),
         \A m \in ReadMaps : ReadAll(Between(m), text) = Between(Updated(m, k, v))
  PROVE  Contributes(text, One(k, v))
<1> SUFFICES ASSUME NEW m \in ReadMaps, Clean(m)
             PROVE  \E q \in ReadMaps :
                      /\ Clean(q) /\ ReadAll(Between(m), text) = Between(q)
                      /\ \A l \in Keywords : Has(q, l) = Or(One(k, v)[l], Has(m, l))
  BY DEF Contributes
<1> DEFINE q == Updated(m, k, v)
<1>1. q \in ReadMaps
  BY UpdatedMap DEF Keys, Symbols
<1>2. /\ DOMAIN q = DOMAIN m \union {k}
      /\ \A l \in DOMAIN q : q[l] = IF l = k THEN v ELSE m[l]
  BY DEF Updated
<1> HIDE DEF q
<1>3. Clean(q)
  BY <1>1, <1>2 DEF Clean
<1>4. ASSUME NEW l \in Keywords PROVE Has(q, l) = Or(One(k, v)[l], Has(m, l))
  <2>1. One(k, v)[l] = IF l = k THEN v ELSE Nothing
    BY DEF One
  <2>2. CASE l = k
    BY <1>2, <2>1, <2>2 DEF Has, Or
  <2>3. CASE l # k
    BY <1>2, <2>1, <2>3 DEF Has, Or
  <2> QED BY <2>2, <2>3
<1> QED BY <1>1, <1>3, <1>4 DEF q

LEMMA ContributesConcat ==
  ASSUME NEW s, NEW V, Contributes(s, V), NEW t, NEW W, Contributes(t, W)
  PROVE  Contributes(s \o t, Over(W, V))
<1>1. s \in Seq(Symbols) /\ t \in Seq(Symbols)
  BY DEF Contributes
<1>2. s \o t \in Seq(Symbols)
  BY <1>1, ReadingIs, ReadConcat
<1>3. ASSUME NEW m \in ReadMaps, Clean(m)
      PROVE  \E q \in ReadMaps :
               /\ Clean(q) /\ ReadAll(Between(m), s \o t) = Between(q)
               /\ \A l \in Keywords : Has(q, l) = Or(Over(W, V)[l], Has(m, l))
  <2>1. PICK p \in ReadMaps : /\ Clean(p) /\ ReadAll(Between(m), s) = Between(p)
                              /\ \A l \in Keywords : Has(p, l) = Or(V[l], Has(m, l))
    BY <1>3 DEF Contributes
  <2>2. PICK q \in ReadMaps : /\ Clean(q) /\ ReadAll(Between(p), t) = Between(q)
                              /\ \A l \in Keywords : Has(q, l) = Or(W[l], Has(p, l))
    BY <2>1 DEF Contributes
  <2>3. Between(m) \in Readers
    BY IdleReader DEF Between
  <2>4. ReadAll(Between(m), s \o t) = Between(q)
    BY <1>1, <2>1, <2>2, <2>3, ReadConcat
  <2>5. ASSUME NEW l \in Keywords PROVE Has(q, l) = Or(Over(W, V)[l], Has(m, l))
    <3>1. Has(q, l) = Or(W[l], Or(V[l], Has(m, l)))
      BY <2>1, <2>2
    <3>2. Over(W, V)[l] = Or(W[l], V[l])
      BY DEF Over
    <3> QED BY <3>1, <3>2 DEF Or
  <2> QED BY <2>2, <2>4, <2>5
<1> QED BY <1>2, <1>3 DEF Contributes

LEMMA ContributesAdd ==
  ASSUME NEW k \in Keywords, NEW v \in Texty
  PROVE  Contributes(Add(k, v), One(k, v))
<1>1. CASE v = Nothing
  <2>1. Add(k, v) = <<>> /\ One(k, v) = [l \in Keywords |-> Nothing]
    BY <1>1 DEF Add, One
  <2> QED BY <2>1, ContributesNothing
<1>2. CASE v # Nothing
  <2> DEFINE a == <<k, "=">>
             b == Quoted(v)
             c == <<" ">>
             text == (a \o b) \o c
  <2>1. Add(k, v) = text
    BY <1>2 DEF Add
  <2>2. v \in Seq(Symbols)
    <3>1. \A i \in 1..Len(v) : v[i] \in Symbols
      BY ElementOfSeq DEF Texty
    <3> QED BY <3>1 DEF Texty
  <2>3. ASSUME NEW m \in ReadMaps
        PROVE  text \in Seq(Symbols) /\ ReadAll(Between(m), text) = Between(Updated(m, k, v))
    <3>1. /\ Between(m) \in Readers /\ a \in Seq(Symbols)
          /\ ReadAll(Between(m), a) = Value(k, m)
      BY ReadKey
    <3>2. b \in Seq(Symbols) /\ ReadAll(Value(k, m), b) = Between(Updated(m, k, v))
      BY ReadQuoted
    <3>3. Updated(m, k, v) \in ReadMaps
      BY <2>2, UpdatedMap, SymbolsHave DEF Keys
    <3>4. c \in Seq(Symbols) /\ ReadAll(Between(Updated(m, k, v)), c) = Between(Updated(m, k, v))
      BY <3>3, ReadBlank
    <3> HIDE DEF a, b, c
    <3>5. a \o b \in Seq(Symbols) /\ ReadAll(Between(m), a \o b) = Between(Updated(m, k, v))
      BY <3>1, <3>2, ReadConcat
    <3>6. (a \o b) \o c \in Seq(Symbols)
          /\ ReadAll(Between(m), (a \o b) \o c) = ReadAll(ReadAll(Between(m), a \o b), c)
      BY <3>1, <3>4, <3>5, ReadConcat
    <3> QED BY <3>4, <3>5, <3>6
  <2> HIDE DEF text
  <2>4. text \in Seq(Symbols)
    BY <2>3, NotReadIs
  <2> QED BY <1>2, <2>1, <2>2, <2>3, <2>4, ContributesPut
<1> QED BY <1>1, <1>2

LEMMA ContributesUnquoted ==
  ASSUME NEW k \in Keywords, NEW v,
         v = Nothing \/ \E s \in Symbols \ Meaningful : v = <<s>>
  PROVE  Contributes(Unquoted(k, v), One(k, v))
<1>1. CASE v = Nothing
  <2>1. Unquoted(k, v) = <<>> /\ One(k, v) = [l \in Keywords |-> Nothing]
    BY <1>1 DEF Unquoted, One
  <2> QED BY <2>1, ContributesNothing
<1>2. ASSUME NEW s \in Symbols \ Meaningful, v = <<s>>
      PROVE  Contributes(Unquoted(k, v), One(k, v))
  <2> DEFINE a == <<k, "=">>
             c == <<" ">>
             text == (a \o v) \o c
  <2>1. Unquoted(k, v) = text /\ v \in Seq(Symbols) /\ v # Nothing
    BY <1>2 DEF Unquoted, Nothing
  <2>2. ASSUME NEW m \in ReadMaps
        PROVE  text \in Seq(Symbols) /\ ReadAll(Between(m), text) = Between(Updated(m, k, v))
    <3>1. /\ Between(m) \in Readers /\ a \in Seq(Symbols) /\ Value(k, m) \in Readers
          /\ ReadAll(Between(m), a) = Value(k, m)
      BY ReadKey
    <3>2. ReadAll(ReadAll(Value(k, m), v), c) = Between(Updated(m, k, v))
      BY <1>2, ReadBare
    <3>3. c \in Seq(Symbols)
      BY ReadBlank
    <3> HIDE DEF a, c
    <3>4. a \o v \in Seq(Symbols) /\ ReadAll(Between(m), a \o v) = ReadAll(Value(k, m), v)
      BY <2>1, <3>1, ReadConcat
    <3>5. (a \o v) \o c \in Seq(Symbols)
          /\ ReadAll(Between(m), (a \o v) \o c) = ReadAll(ReadAll(Between(m), a \o v), c)
      BY <3>1, <3>3, <3>4, ReadConcat
    <3> QED BY <3>2, <3>4, <3>5
  <2> HIDE DEF text
  <2>3. text \in Seq(Symbols)
    BY <2>2, NotReadIs
  <2> QED BY <2>1, <2>2, <2>3, ContributesPut
<1> QED BY <1>1, <1>2

-----------------------------------------------------------------------------
(* The parts of the string buildConnectionString makes, and their sum. *)

LEMMA SendableIsTexty == ASSUME NEW v \in Sendable PROVE v \in Texty /\ v \in Seq(Symbols)
<1>1. v \in Seq(Symbols) /\ "NUL" \notin Range(v)
  BY TextsAssumption DEF Sendable
<1>2. Len(v) \in Nat /\ DOMAIN v = 1..Len(v) /\ v \in [1..Len(v) -> Symbols]
  BY <1>1, LenProperties
<1>3. \A i \in 1..Len(v) : v[i] \in Symbols \ {"NUL"}
  BY <1>1, <1>2 DEF Range
<1>4. v \in [1..Len(v) -> Symbols \ {"NUL"}]
  BY <1>2, <1>3
<1>5. v \in Seq(Symbols \ {"NUL"})
  <2> DEFINE S == Symbols \ {"NUL"}
             n == Len(v)
  <2>1. v \in [1..n -> S] /\ n \in Nat
    BY <1>2, <1>4
  <2> HIDE DEF S, n
  <2>2. v \in Seq(S)
    BY <2>1, SeqDef
  <2> QED BY <2>2 DEF S
<1> QED BY <1>1, <1>5 DEF Texty

LEMMA NumberIs ==
  ASSUME NEW n \in Numbers \union {0, 10}
  PROVE  Number(n) = Nothing \/ \E s \in Symbols \ Meaningful : Number(n) = <<s>>
BY NumbersAssumption DEF Number, Symbols

FromTableUpTo(n) ==
  [l \in Keywords |-> IF \E j \in 1..n : table[j].key = l THEN FromTable(l) ELSE Nothing]

LEMMA FromTableIs ==
  ASSUME ConfigTypeOK, Shape, NEW i \in 1..Len(table)
  PROVE  FromTable(table[i].key) = table[i].value
<1>1. DOMAIN table = 1..Len(table)
  BY LenProperties DEF ConfigTypeOK
<1> DEFINE K == [j \in DOMAIN table |-> table[j].key]
<1>2. IsInjective(K)
  BY DEF Shape
<1>3. ASSUME NEW j \in InTable(table[i].key) PROVE j = i
  <2>1. j \in DOMAIN table /\ i \in DOMAIN table /\ table[j].key = table[i].key
    BY <1>1 DEF InTable
  <2>2. K[j] = K[i] /\ DOMAIN K = DOMAIN table
    BY <2>1
  <2> HIDE DEF K
  <2> QED BY <1>2, <2>1, <2>2 DEF IsInjective
<1>4. i \in InTable(table[i].key)
  BY <1>1 DEF InTable
<1> QED BY <1>3, <1>4 DEF FromTable

LEMMA ContributesTable ==
  ASSUME ConfigTypeOK, Shape
  PROVE  Contributes(TablePart, [l \in Keywords |-> FromTable(l)])
<1> DEFINE n == Len(table)
           T == Seq(Symbols)
           p == [i \in DOMAIN table |-> Add(table[i].key, table[i].value)]
<1>1. /\ n \in Nat /\ DOMAIN table = 1..n
      /\ \A i \in 1..n : table[i].key \in Keywords /\ table[i].value \in Sendable
  <2>1. table \in Seq([key : Keywords, value : Sendable])
    BY DEF ConfigTypeOK
  <2>2. \A i \in 1..n : table[i] \in [key : Keywords, value : Sendable]
    BY <2>1, ElementOfSeq
  <2>3. n \in Nat /\ DOMAIN table = 1..n
    BY <2>1, LenProperties
  <2> QED BY <2>2, <2>3
<1>2. ASSUME NEW i \in 1..n
      PROVE  /\ p[i] = Add(table[i].key, table[i].value) /\ p[i] \in T
             /\ Contributes(p[i], One(table[i].key, table[i].value))
  <2>1. p[i] = Add(table[i].key, table[i].value)
    BY <1>1
  <2>2. Contributes(p[i], One(table[i].key, table[i].value))
    BY <1>1, <2>1, SendableIsTexty, ContributesAdd
  <2> QED BY <2>1, <2>2 DEF Contributes
<1>3. p \in Seq(T) /\ Len(p) = n
  <2>1. p \in [1..n -> T]
    BY <1>1, <1>2
  <2> HIDE DEF p, T
  <2>2. p \in Seq(T)
    BY <1>1, <2>1, SeqDef
  <2>3. Len(p) = n
    BY <1>1, <2>1, <2>2, LenProperties
  <2> QED BY <2>2, <2>3
<1> HIDE DEF p
<1>4. PICK h \in [0..n -> T] :
        /\ h[0] = <<>> /\ \A i \in 1..n : h[i] = h[i - 1] \o p[i]
        /\ FlattenSeq(p) = h[n]
  <2>1. \E h \in [0..Len(p) -> Seq(Symbols)] :
          /\ h[0] = <<>> /\ \A i \in 1..Len(p) : h[i] = h[i - 1] \o p[i]
          /\ FlattenSeq(p) = h[Len(p)]
    BY <1>3, FlattenSteps
  <2> HIDE DEF n
  <2> QED BY <1>3, <2>1, Zenon
<1> DEFINE P == {i \in 0..n : Contributes(h[i], FromTableUpTo(i))}
<1>5. 0 \in P
  <2>1. FromTableUpTo(0) = [l \in Keywords |-> Nothing]
    BY DEF FromTableUpTo
  <2> QED BY <1>1, <1>4, <2>1, ContributesNothing
<1>6. ASSUME NEW i \in 1..n, i - 1 \in P PROVE i \in P
  <2> DEFINE V == FromTableUpTo(i - 1)
             k == table[i].key
             v == table[i].value
  <2>1. Contributes(h[i - 1], V) /\ Contributes(p[i], One(k, v))
    BY <1>2, <1>6
  <2>2. Contributes(h[i - 1] \o p[i], Over(One(k, v), V))
    BY <2>1, ContributesConcat
  <2>3. Over(One(k, v), V) = FromTableUpTo(i)
    <3>1. ASSUME NEW l \in Keywords
          PROVE  Or(One(k, v)[l], V[l]) = FromTableUpTo(i)[l]
      <4>1. One(k, v)[l] = IF l = k THEN v ELSE Nothing
        BY DEF One
      <4>2. V[l] = IF \E j \in 1..i - 1 : table[j].key = l THEN FromTable(l) ELSE Nothing
        BY DEF FromTableUpTo
      <4>3. FromTableUpTo(i)[l] =
              IF \E j \in 1..i : table[j].key = l THEN FromTable(l) ELSE Nothing
        BY DEF FromTableUpTo
      <4>4. FromTable(k) = v
        BY FromTableIs
      <4> HIDE DEF V
      <4>5. CASE l = k
        <5>1. i \in 1..i /\ table[i].key = l
          BY <1>1, <4>5
        <5>2. FromTableUpTo(i)[l] = v
          BY <4>3, <4>4, <4>5, <5>1
        <5>3. V[l] = v \/ V[l] = Nothing
          BY <4>2, <4>4, <4>5
        <5> QED BY <4>1, <4>5, <5>2, <5>3 DEF Or
      <4>6. CASE l # k
        <5>1. (\E j \in 1..i : table[j].key = l) <=> \E j \in 1..i - 1 : table[j].key = l
          <6>1. \A j \in 1..i : j = i \/ j \in 1..i - 1
            BY <1>1
          <6>2. \A j \in 1..i - 1 : j \in 1..i
            BY <1>1
          <6> QED BY <4>6, <6>1, <6>2
        <5>2. Or(Nothing, V[l]) = V[l]
          BY DEF Or
        <5> QED BY <4>1, <4>2, <4>3, <4>6, <5>1, <5>2
      <4> QED BY <4>5, <4>6
    <3>2. FromTableUpTo(i) = [l \in Keywords |-> FromTableUpTo(i)[l]]
      BY DEF FromTableUpTo
    <3> HIDE DEF V, k, v
    <3> QED BY <3>1, <3>2 DEF Over
  <2>4. i \in 0..n
    BY <1>1
  <2> QED BY <1>4, <2>2, <2>3, <2>4
<1> HIDE DEF P
<1>7. n \in P
  <2>1. \A i \in 0..n : i \in P
    BY <1>1, <1>5, <1>6, InductionUpTo
  <2> QED BY <1>1, <2>1
<1>8. FromTableUpTo(n) = [l \in Keywords |-> FromTable(l)]
  <2>1. ASSUME NEW l \in Keywords, ~\E j \in 1..n : table[j].key = l
        PROVE  FromTable(l) = Nothing
    BY <1>1, <2>1 DEF FromTable, InTable
  <2> QED BY <2>1 DEF FromTableUpTo
<1>9. TablePart = FlattenSeq(p)
  BY DEF TablePart, p
<1> QED BY <1>4, <1>7, <1>8, <1>9 DEF P

LEMMA ContributesServer ==
  ASSUME ConfigTypeOK
  PROVE  Contributes(ServerPart,
           Over(One("port", Number(fields.port)), Over(One("dbname", fields.dbname),
             Over(One("password", fields.password), Over(One("user", fields.user),
               One("host", Or(fields.socket, fields.host)))))))
<1> DEFINE host == Or(fields.socket, fields.host)
           a == Add("host", host)
           b == Add("user", fields.user)
           c == Add("password", fields.password)
           d == Add("dbname", fields.dbname)
           e == Unquoted("port", Number(fields.port))
<1>1. /\ host \in Sendable /\ fields.user \in Sendable /\ fields.password \in Sendable
      /\ fields.dbname \in Sendable
  BY DEF ConfigTypeOK, Fields, Or
<1>2. {"host", "user", "password", "dbname", "port"} \subseteq Keywords
  BY DEF Keywords
<1>3. ServerPart = (((a \o b) \o c) \o d) \o e
  BY DEF ServerPart
<1>4. Contributes(a, One("host", host))
  BY <1>1, <1>2, SendableIsTexty, ContributesAdd
<1>5. Contributes(b, One("user", fields.user))
  BY <1>1, <1>2, SendableIsTexty, ContributesAdd
<1>6. Contributes(c, One("password", fields.password))
  BY <1>1, <1>2, SendableIsTexty, ContributesAdd
<1>7. Contributes(d, One("dbname", fields.dbname))
  BY <1>1, <1>2, SendableIsTexty, ContributesAdd
<1>8. Contributes(e, One("port", Number(fields.port)))
  <2>1. fields.port \in Numbers \union {0, 10}
    BY DEF ConfigTypeOK
  <2> QED BY <1>2, <2>1, NumberIs, ContributesUnquoted
<1> HIDE DEF host, a, b, c, d, e
<1>9. Contributes(a \o b, Over(One("user", fields.user), One("host", host)))
  BY <1>4, <1>5, ContributesConcat
<1>10. Contributes((a \o b) \o c, Over(One("password", fields.password),
         Over(One("user", fields.user), One("host", host))))
  BY <1>6, <1>9, ContributesConcat
<1>11. Contributes(((a \o b) \o c) \o d, Over(One("dbname", fields.dbname),
         Over(One("password", fields.password),
           Over(One("user", fields.user), One("host", host)))))
  BY <1>7, <1>10, ContributesConcat
<1>12. Contributes((((a \o b) \o c) \o d) \o e, Over(One("port", Number(fields.port)),
         Over(One("dbname", fields.dbname), Over(One("password", fields.password),
           Over(One("user", fields.user), One("host", host))))))
  BY <1>8, <1>11, ContributesConcat
<1> QED BY <1>3, <1>12 DEF host

LEMMA ContributesSSL ==
  ASSUME ConfigTypeOK
  PROVE  Contributes(SSLPart,
           Over(One("sslrootcert", ssl.sslrootcert), Over(One("sslcert", ssl.sslcert),
             Over(One("sslkey", ssl.sslkey), One("sslmode", Mode)))))
<1> DEFINE a == Unquoted("sslmode", Mode)
           b == Add("sslkey", ssl.sslkey)
           c == Add("sslcert", ssl.sslcert)
           d == Add("sslrootcert", ssl.sslrootcert)
<1>1. /\ ssl.sslkey \in Sendable /\ ssl.sslcert \in Sendable /\ ssl.sslrootcert \in Sendable
  BY DEF ConfigTypeOK, SSLFields
<1>2. {"sslmode", "sslkey", "sslcert", "sslrootcert"} \subseteq Keywords
  BY DEF Keywords
<1>3. Mode = Nothing \/ \E s \in Symbols \ Meaningful : Mode = <<s>>
  <2>1. sslMode = 0 \/ sslMode \in DOMAIN SSLModes
    BY DEF ConfigTypeOK, SSLModes
  <2> QED BY <2>1, SymbolsHave DEF Mode
<1>4. SSLPart = ((a \o b) \o c) \o d
  BY DEF SSLPart
<1>5. Contributes(a, One("sslmode", Mode))
  BY <1>2, <1>3, ContributesUnquoted
<1>6. Contributes(b, One("sslkey", ssl.sslkey))
  BY <1>1, <1>2, SendableIsTexty, ContributesAdd
<1>7. Contributes(c, One("sslcert", ssl.sslcert))
  BY <1>1, <1>2, SendableIsTexty, ContributesAdd
<1>8. Contributes(d, One("sslrootcert", ssl.sslrootcert))
  BY <1>1, <1>2, SendableIsTexty, ContributesAdd
<1> HIDE DEF a, b, c, d
<1>9. Contributes(a \o b, Over(One("sslkey", ssl.sslkey), One("sslmode", Mode)))
  BY <1>5, <1>6, ContributesConcat
<1>10. Contributes((a \o b) \o c, Over(One("sslcert", ssl.sslcert),
         Over(One("sslkey", ssl.sslkey), One("sslmode", Mode))))
  BY <1>7, <1>9, ContributesConcat
<1>11. Contributes(((a \o b) \o c) \o d, Over(One("sslrootcert", ssl.sslrootcert),
         Over(One("sslcert", ssl.sslcert),
           Over(One("sslkey", ssl.sslkey), One("sslmode", Mode)))))
  BY <1>8, <1>10, ContributesConcat
<1> QED BY <1>4, <1>11

-----------------------------------------------------------------------------
(* Together they say what was asked for: a positional object has no table,    *)
(* and one made of a table no fields.                                         *)

TimeLimitLast(k) == k = "connect_timeout" /\ InTable(k) # {}

LEMMA BuiltIsRead ==
  ASSUME ConfigTypeOK, Shape, Made
  PROVE  /\ Clean(Understood(BuildConnectionString))
         /\ \A k \in Keywords : ~TimeLimitLast(k) =>
              Has(Understood(BuildConnectionString), k) = Asked(k)
<1> DEFINE a == ServerPart
           b == TablePart
           c == TimeoutPart
           d == SSLPart
           A == Over(One("port", Number(fields.port)), Over(One("dbname", fields.dbname),
                  Over(One("password", fields.password), Over(One("user", fields.user),
                    One("host", Or(fields.socket, fields.host))))))
           B == [l \in Keywords |-> FromTable(l)]
           C == One("connect_timeout", Number(timeout))
           D == Over(One("sslrootcert", ssl.sslrootcert), Over(One("sslcert", ssl.sslcert),
                  Over(One("sslkey", ssl.sslkey), One("sslmode", Mode))))
           text == BuildConnectionString
           V == Over(D, Over(C, Over(B, A)))
<1>1. Contributes(a, A) /\ Contributes(b, B) /\ Contributes(d, D)
  BY ContributesServer, ContributesTable, ContributesSSL
<1>2. Contributes(c, C)
  <2>1. "connect_timeout" \in Keywords /\ timeout \in Numbers \union {0, 10}
    BY DEF Keywords, ConfigTypeOK
  <2> QED BY <2>1, NumberIs, ContributesUnquoted DEF TimeoutPart
<1>3. text = ((a \o b) \o c) \o d
  BY DEF BuildConnectionString
<1> HIDE DEF a, b, c, d, A, B, C, D
<1>4. Contributes(text, V)
  <2>1. Contributes(a \o b, Over(B, A))
    BY <1>1, ContributesConcat
  <2>2. Contributes((a \o b) \o c, Over(C, Over(B, A)))
    BY <1>2, <2>1, ContributesConcat
  <2>3. Contributes(((a \o b) \o c) \o d, V)
    BY <1>1, <2>2, ContributesConcat
  <2> QED BY <1>3, <2>3
<1> HIDE DEF text, V
<1>5. Clean(NotRead) /\ \A k : Has(NotRead, k) = Nothing
  BY NotReadIs DEF Clean, Has
<1>6. PICK q \in ReadMaps : /\ Clean(q) /\ ReadAll(Between(NotRead), text) = Between(q)
                            /\ \A l \in Keywords : Has(q, l) = Or(V[l], Has(NotRead, l))
  BY <1>4, <1>5, NotReadIs DEF Contributes
<1>7. Understood(text) = q
  <2>1. Between(NotRead) = Reading /\ Between(q).read = q
    BY ReadingIs, IdleReader DEF Between
  <2> QED BY <1>6, <2>1 DEF Understood
<1>8. \A l \in Keywords : Has(q, l) = V[l]
  BY <1>5, <1>6 DEF Or
<1>9. ASSUME NEW k \in Keywords
      PROVE  V[k] = Or(D[k], Or(C[k], Or(B[k], A[k])))
  BY DEF V, Over
<1>10. ASSUME NEW k \in Keywords
       PROVE  /\ A[k] = CASE k = "host" -> Or(fields.socket, fields.host)
                          [] k = "port" -> Number(fields.port)
                          [] k \in {"user", "password", "dbname"} -> fields[k]
                          [] OTHER -> Nothing
              /\ B[k] = FromTable(k)
              /\ C[k] = IF k = "connect_timeout" THEN Number(timeout) ELSE Nothing
              /\ D[k] = CASE k = "sslmode" -> Mode
                          [] k \in SSLFields -> ssl[k]
                          [] OTHER -> Nothing
  <2>1. \A x : Or(Nothing, x) = x /\ Or(x, Nothing) = x
    BY DEF Or
  <2>2. A[k] = CASE k = "host" -> Or(fields.socket, fields.host)
                 [] k = "port" -> Number(fields.port)
                 [] k \in {"user", "password", "dbname"} -> fields[k]
                 [] OTHER -> Nothing
    BY <2>1 DEF A, Over, One, Keywords
  <2>3. D[k] = CASE k = "sslmode" -> Mode
                 [] k \in SSLFields -> ssl[k]
                 [] OTHER -> Nothing
    BY <2>1 DEF D, Over, One, Keywords, SSLFields
  <2>4. B[k] = FromTable(k)
    BY DEF B
  <2>5. C[k] = IF k = "connect_timeout" THEN Number(timeout) ELSE Nothing
    BY DEF C, One
  <2> QED BY <2>2, <2>3, <2>4, <2>5
<1>11. ASSUME NEW k \in Keywords, ~TimeLimitLast(k)
       PROVE  V[k] = Asked(k)
  <2>1. A[k] = Nothing \/ FromTable(k) = Nothing
    <3>1. CASE form = "positional"
      <4>1. table = <<>>
        BY <3>1 DEF Shape
      <4>2. InTable(k) = {}
        BY <4>1 DEF InTable
      <4> QED BY <4>2 DEF FromTable
    <3>2. CASE form = "options"
      <4>1. fields.port = 0 /\ \A f \in Fields : fields[f] = Nothing
        BY <3>2 DEF Shape
      <4>2. Or(fields.socket, fields.host) = Nothing /\ Number(fields.port) = Nothing
        BY <4>1 DEF Fields, Or, Number
      <4>3. k \in {"user", "password", "dbname"} => fields[k] = Nothing
        BY <4>1 DEF Fields
      <4> QED BY <1>10, <4>2, <4>3
    <3> QED BY <3>1, <3>2 DEF Made
  <2>2. CASE k \in {"host", "port", "user", "password", "dbname"}
    <3>1. D[k] = Nothing /\ C[k] = Nothing
      BY <1>10, <2>2 DEF SSLFields
    <3>2. Asked(k) = Or(A[k], B[k])
      <4>1. CASE k = "host"
        <5>1. A[k] = Or(fields.socket, fields.host) /\ B[k] = FromTable(k)
          BY <1>10, <4>1
        <5>2. Asked(k) = Or(fields.socket, Or(fields.host, FromTable(k)))
          BY <4>1 DEF Asked, SSLFields
        <5> QED BY <5>1, <5>2 DEF Or
      <4>2. CASE k = "port"
        <5>1. A[k] = Number(fields.port) /\ B[k] = FromTable(k)
          BY <1>10, <4>2
        <5>2. Asked(k) = Or(Number(fields.port), FromTable(k))
          BY <4>2 DEF Asked, SSLFields
        <5> QED BY <5>1, <5>2
      <4>3. CASE k \in {"user", "password", "dbname"}
        <5>1. A[k] = fields[k] /\ B[k] = FromTable(k)
          BY <1>10, <4>3
        <5>2. Asked(k) = Or(fields[k], FromTable(k))
          BY <4>3 DEF Asked, SSLFields
        <5> QED BY <5>1, <5>2
      <4> QED BY <2>2, <4>1, <4>2, <4>3
    <3> QED BY <1>9, <1>10, <2>1, <3>1, <3>2 DEF Or
  <2>3. CASE k = "sslmode" \/ k \in SSLFields
    <3>1. A[k] = Nothing /\ C[k] = Nothing
      BY <1>10, <2>3 DEF SSLFields
    <3>2. Asked(k) = Or(D[k], B[k])
      BY <1>10, <2>3 DEF Asked, SSLFields
    <3> QED BY <1>9, <3>1, <3>2 DEF Or
  <2>4. CASE k = "connect_timeout"
    <3>1. A[k] = Nothing /\ D[k] = Nothing /\ C[k] = Number(timeout)
      BY <1>10, <2>4 DEF SSLFields
    <3>2. FromTable(k) = Nothing
      BY <1>11, <2>4 DEF TimeLimitLast, FromTable
    <3>3. timeout # 0
      BY DEF ConfigTypeOK
    <3>4. Number(timeout) # Nothing
      BY <3>3 DEF Number, Nothing
    <3>5. Asked(k) = Number(timeout)
      BY <2>4, <3>2 DEF Asked, Or, Shape, SSLFields
    <3> QED BY <1>9, <3>1, <3>4, <3>5 DEF Or
  <2> QED BY <2>2, <2>3, <2>4 DEF Keywords, SSLFields
<1> QED BY <1>6, <1>7, <1>8, <1>11 DEF text

LEMMA ConfigInitially == ConfigInit => ConfigInv
<1> SUFFICES ASSUME ConfigInit PROVE ConfigInv
  OBVIOUS
<1>1. Nothing \in Sendable
  <2>1. Range(<<>>) = {}
    BY EmptySeq, LenProperties DEF Range
  <2> QED BY <2>1, TextsAssumption DEF Sendable, Nothing
<1>2. /\ form = "none" /\ table = <<>> /\ raw = Nothing /\ timeout = 10 /\ sslMode = 0
      /\ limited = FALSE /\ read = NotRead
      /\ DOMAIN fields = Fields \union {"port"} /\ fields.port = 0
      /\ \A f \in Fields : fields[f] = Nothing
      /\ \A f \in SSLFields : ssl[f] = Nothing
  BY DEF ConfigInit, Fields
<1>3. <<>> \in Seq([key : Keywords, value : Sendable])
  BY EmptySeq
<1>4. ConfigTypeOK
  <2>1. 0 \in 0..Len(SSLModes)
    BY DEF SSLModes
  <2>2. /\ fields.port \in Numbers \union {0} /\ timeout \in (Numbers \union {10}) \ {0}
        /\ limited \in BOOLEAN /\ form \in {"none", "positional", "options", "raw"}
    <3>1. 10 \in (Numbers \union {10}) \ {0}
      OBVIOUS
    <3> QED BY <1>2, <3>1
  <2>3. /\ raw \in Sendable /\ \A f \in Fields : fields[f] \in Sendable
        /\ \A f \in SSLFields : ssl[f] \in Sendable
    BY <1>1, <1>2
  <2>4. table \in Seq([key : Keywords, value : Sendable])
    BY <1>2, <1>3
  <2> QED BY <1>2, <2>1, <2>2, <2>3, <2>4 DEF ConfigTypeOK
<1>5. IsInjective([i \in DOMAIN table |-> table[i].key])
  BY <1>2, EmptySeq, LenProperties DEF IsInjective
<1> QED BY <1>2, <1>4, <1>5 DEF ConfigInv, Shape, Made

LEMMA ConfigStep == ConfigInv /\ [ConfigNext]_configVars => ConfigInv'
<1> SUFFICES ASSUME ConfigInv, [ConfigNext]_configVars PROVE ConfigInv'
  OBVIOUS
<1> USE DEF ConfigInv
<1>s. ASSUME NEW text \in Texts, ~HasNul(text) PROVE text \in Sendable
  BY <1>s DEF HasNul, Sendable
<1>1. ASSUME NEW host \in Texts, NEW user \in Texts, NEW password \in Texts,
             NEW dbname \in Texts, NEW socket \in Texts, NEW port \in Numbers,
             Positional(host, user, password, dbname, port, socket)
      PROVE  ConfigInv'
  <2>1. /\ host \in Sendable /\ user \in Sendable /\ password \in Sendable
        /\ dbname \in Sendable /\ socket \in Sendable
    BY <1>1, <1>s DEF Positional
  <2>2. /\ form = "none" /\ form' = "positional"
        /\ UNCHANGED <<table, raw, timeout, sslMode, ssl, read, limited>>
    BY <1>1 DEF Positional, setters
  <2>3. /\ DOMAIN fields' = Fields \union {"port"} /\ fields'.port = port
        /\ \A f \in Fields : fields'[f] \in Sendable
    BY <1>1, <2>1 DEF Positional, Fields
  <2>4. ConfigTypeOK'
    BY <2>2, <2>3 DEF ConfigTypeOK, Sendable
  <2>5. table = <<>> /\ read = NotRead
    BY <2>2 DEF Shape
  <2>6. IsInjective([i \in DOMAIN table |-> table[i].key])'
    BY <2>2 DEF Shape
  <2> QED BY <2>2, <2>4, <2>5, <2>6 DEF Shape, Made
<1>2. ASSUME NEW text \in Texts, RawString(text) PROVE ConfigInv'
  <2>1. text \in Sendable
    BY <1>2, <1>s DEF RawString
  <2>2. /\ form = "none" /\ form' = "raw" /\ raw' = text
        /\ UNCHANGED <<fields, table, timeout, sslMode, ssl, read, limited>>
    BY <1>2 DEF RawString, setters
  <2>3. ConfigTypeOK'
    BY <2>1, <2>2 DEF ConfigTypeOK, Sendable
  <2>4. IsInjective([i \in DOMAIN table |-> table[i].key])'
    BY <2>2 DEF Shape
  <2> QED BY <2>2, <2>3, <2>4 DEF Shape, Made
<1>3. ASSUME NEW n \in 0..MaxEntries, NEW keys \in [1..n -> TableKeys],
             NEW values \in [1..n -> Texts], IsInjective(keys),
             OptionTable([i \in 1..n |-> [key |-> keys[i], value |-> values[i]]])
      PROVE  ConfigInv'
  <2> DEFINE e == [i \in 1..n |-> [key |-> keys[i], value |-> values[i]]]
             E == [key : Keywords, value : Sendable]
  <2>1. n \in Nat
    BY NumbersAssumption
  <2>2. /\ form = "none" /\ form' = "options" /\ table' = e
        /\ UNCHANGED <<fields, raw, timeout, sslMode, ssl, read, limited>>
        /\ \A i \in 1..n : Safe(keys[i]) /\ ~HasNul(values[i])
    BY <1>3 DEF OptionTable, setters
  <2>3. ASSUME NEW i \in 1..n PROVE e[i] \in E
    <3>1. keys[i] \in Keywords /\ values[i] \in Sendable
      BY <1>s, <2>2, KeysAssumption DEF Safe
    <3> QED BY <3>1
  <2>4. DOMAIN e = 1..n /\ \A i \in 1..n : e[i].key = keys[i]
    OBVIOUS
  <2>5. e \in Seq(E)
    <3>1. e \in [1..n -> E]
      BY <2>3
    <3> HIDE DEF e, E
    <3> QED BY <2>1, <3>1, SeqDef
  <2> HIDE DEF e
  <2>6. ConfigTypeOK'
    BY <2>2, <2>5 DEF ConfigTypeOK, Sendable
  <2>7. [i \in DOMAIN e |-> e[i].key] = keys
    BY <2>4
  <2>8. IsInjective([i \in DOMAIN table |-> table[i].key])'
    BY <1>3, <2>2, <2>7
  <2> QED BY <2>2, <2>6, <2>8 DEF Shape, Made
<1>4. ASSUME NEW n \in Numbers, SetConnectTimeout(n) PROVE ConfigInv'
  <2>1. /\ n # 0 /\ timeout' = n /\ limited' = TRUE /\ read' = NotRead
        /\ Made /\ UNCHANGED <<form, fields, table, raw, sslMode, ssl>>
    BY <1>4 DEF SetConnectTimeout
  <2>2. ConfigTypeOK'
    BY <2>1 DEF ConfigTypeOK, Sendable
  <2>3. IsInjective([i \in DOMAIN table |-> table[i].key])'
    BY <2>1 DEF Shape
  <2> QED BY <2>1, <2>2, <2>3 DEF Shape, Made
<1>5. ASSUME NEW m \in DOMAIN SSLModes, SetSSLMode(m) PROVE ConfigInv'
  <2>1. /\ sslMode' = m /\ read' = NotRead /\ m \in 0..Len(SSLModes)
        /\ Made /\ UNCHANGED <<form, fields, table, raw, timeout, ssl, limited>>
    BY <1>5 DEF SetSSLMode, SSLModes
  <2>2. ConfigTypeOK'
    BY <2>1 DEF ConfigTypeOK, Sendable
  <2>3. IsInjective([i \in DOMAIN table |-> table[i].key])'
    BY <2>1 DEF Shape
  <2> QED BY <2>1, <2>2, <2>3 DEF Shape, Made
<1>6. ASSUME NEW key \in Texts, NEW cert \in Texts, NEW ca \in Texts,
             SetSSLSettings(key, cert, ca)
      PROVE  ConfigInv'
  <2>1. key \in Sendable /\ cert \in Sendable /\ ca \in Sendable
    BY <1>6, <1>s DEF SetSSLSettings
  <2>2. /\ ssl' = [sslkey |-> key, sslcert |-> cert, sslrootcert |-> ca] /\ read' = NotRead
        /\ Made /\ UNCHANGED <<form, fields, table, raw, timeout, sslMode, limited>>
    BY <1>6 DEF SetSSLSettings
  <2>3. \A f \in SSLFields : ssl'[f] \in Sendable
    BY <2>1, <2>2 DEF SSLFields
  <2>4. ConfigTypeOK'
    BY <2>2, <2>3 DEF ConfigTypeOK, Sendable
  <2>5. IsInjective([i \in DOMAIN table |-> table[i].key])'
    BY <2>2 DEF Shape
  <2> QED BY <2>2, <2>4, <2>5 DEF Shape, Made
<1>7. CASE OpenSession
  <2>1. /\ form # "none" /\ read' = Understood(BuildConnectionString)
        /\ UNCHANGED <<form, fields, table, raw, timeout, sslMode, ssl, limited>>
    BY <1>7 DEF OpenSession, setters
  <2>2. ConfigTypeOK' /\ Shape'
    BY <2>1 DEF ConfigTypeOK, Sendable, Shape, Made
  <2>3. BuildConnectionString' = BuildConnectionString
    BY <2>1 DEF BuildConnectionString, Made, ServerPart, TablePart, TimeoutPart, SSLPart, Mode
  <2> QED BY <2>1, <2>2, <2>3
<1>8. CASE UNCHANGED configVars
  <2>1. UNCHANGED <<form, fields, table, raw, timeout, sslMode, ssl, read, limited>>
    BY <1>8 DEF configVars, setters
  <2>2. ConfigTypeOK' /\ Shape'
    BY <2>1 DEF ConfigTypeOK, Sendable, Shape, Made
  <2>3. BuildConnectionString' = BuildConnectionString
    BY <2>1 DEF BuildConnectionString, Made, ServerPart, TablePart, TimeoutPart, SSLPart, Mode
  <2> QED BY <2>1, <2>2, <2>3 DEF Made
<1> QED BY <1>1, <1>2, <1>3, <1>4, <1>5, <1>6, <1>7, <1>8 DEF ConfigNext

LEMMA ConfigInductive == ConfigSpec => []ConfigInv
BY ConfigInitially, ConfigStep, PTL DEF ConfigSpec

\* Whatever the characters of the values are, and however long the option table is,
\* libpq takes from the string buildConnectionString makes what was asked for.
THEOREM SettingsReachTheServer == ConfigSpec => []SettingsArrive
<1>1. ConfigInv => SettingsArrive
  <2> SUFFICES ASSUME ConfigInv, Made, read # NotRead
               PROVE  /\ DOMAIN read \subseteq Keywords
                      /\ \A k \in Keywords : ~TimeLimitLast(k) =>
                           IF Asked(k) = Nothing THEN k \notin DOMAIN read
                           ELSE k \in DOMAIN read /\ read[k] = Asked(k)
    BY DEF SettingsArrive, Arrives, TimeLimitLast
  <2>1. Clean(read) /\ \A k \in Keywords : ~TimeLimitLast(k) => Has(read, k) = Asked(k)
    BY BuiltIsRead DEF ConfigInv
  <2> QED BY <2>1 DEF Clean, Has
<1> QED BY <1>1, ConfigInductive, PTL
=============================================================================
