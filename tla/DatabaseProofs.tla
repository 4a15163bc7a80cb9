--------------------------- MODULE DatabaseProofs ---------------------------
(***************************************************************************)
(* Proofs about Database, for every set of executions and every set of     *)
(* API calls: first where an execution may be and that a wait sees its     *)
(* result, then what is reported to Lua: which callbacks are run,          *)
(* how often, and that what they say is true.                              *)
(***************************************************************************)
EXTENDS Database, SequenceLemmas

-----------------------------------------------------------------------------
(* The Lua thread's stack. *)

\* The items the actions push are items of the stack's type.
LEMMA ItemTyped ==
  /\ \A op \in Holding \union WaitOps \union AbortOps \union {"take"} :
       \A q \in Queries : Item(op, q) \in Items /\ <<Item(op, q)>> \in Seq(Items)
  /\ \A op \in AloneOps \union {"take"} : Step(op) \in Seq(Items)
BY DEF Item, Items, Step, Ops, Holding, WaitOps, AbortOps, AloneOps

\* What a stack item is, read back from its type.
LEMMA ItemParts ==
  ASSUME NEW item \in Items
  PROVE  /\ item.of \in Queries \union {NoData}
         /\ item.op \in Holding \union WaitOps \union AbortOps => item.of \in Queries
         /\ item.op \in AloneOps => item.of = NoData
BY DEF Items, Ops, Holding, WaitOps, AbortOps, AloneOps

\* A step replaces the top of the stack.
LEMMA ThenTyped ==
  ASSUME todo \in Seq(Items), todo # <<>>, NEW items \in Seq(Items), Then(items)
  PROVE  todo' \in Seq(Items)
BY ContainsTail, ConcatProperties DEF Then

\* A call puts its steps on top of the stack.
LEMMA CallTyped ==
  ASSUME todo \in Seq(Items), NEW items \in Seq(Items), Call(items)
  PROVE  todo' \in Seq(Items)
BY ConcatProperties DEF Call

\* The top of a stack that is not empty.
LEMMA TopTyped ==
  ASSUME todo \in Seq(Items), todo # <<>>
  PROVE  todo[1] \in Items
BY ContainsTail

\* One item of the same kind for each execution of a sequence.
LEMMA ForAllTyped ==
  ASSUME NEW op \in Holding, NEW s \in Seq(Queries)
  PROVE  ForAll(op, s) \in Seq(Items)
<1>1. /\ Len(s) \in Nat /\ DOMAIN s = 1..Len(s)
      /\ \A i \in 1..Len(s) : s[i] \in Queries
  BY LenProperties, ElementOfSeq
<1>2. \A i \in 1..Len(s) : Item(op, s[i]) \in Items
  BY <1>1, ItemTyped
<1>3. ForAll(op, s) \in [1..Len(s) -> Items]
  BY <1>1, <1>2 DEF ForAll
<1> QED BY <1>1, <1>3, SeqDef

\* What the step called op knows of the top of the stack.
LEMMA AtTyped ==
  ASSUME todo \in Seq(Items), NEW op, At(op)
  PROVE  /\ todo # <<>> /\ todo[1] \in Items
         /\ todo[1].of \in Queries \union {NoData}
         /\ op \in Holding \union WaitOps \union AbortOps => todo[1].of \in Queries
         /\ op \in AloneOps => todo[1].of = NoData
<1>1. todo # <<>> /\ todo[1].op = op
  BY DEF At
<1> QED BY <1>1, TopTyped, ItemParts

\* query:wait(swap) at most exchanges two elements of the queue.
LEMMA WaitQueue ==
  ASSUME queue \in Seq(Queries), NEW q \in Queries, Wait(q)
  PROVE  queue' \in Seq(Queries) /\ \A p : Contains(queue', p) <=> Contains(queue, p)
<1>1. CASE queue' = queue
  BY <1>1
<1>2. ASSUME NEW i \in 2..Len(queue), queue[i] = q,
             queue' = [queue EXCEPT ![1] = q, ![i] = queue[1]]
      PROVE  queue' \in Seq(Queries) /\ \A p : Contains(queue', p) <=> Contains(queue, p)
  <2>1. queue' = [queue EXCEPT ![1] = queue[i], ![i] = queue[1]]
    BY <1>2
  <2> QED BY <2>1, ContainsSwap
<1> QED BY <1>1, <1>2 DEF Wait

-----------------------------------------------------------------------------
(* Type correctness. *)

\* The initial state has the types.
LEMMA TypeInit == Init => TypeOK
<1> SUFFICES ASSUME Init
             PROVE  TypeOK
  OBVIOUS
<1>1. /\ queue \in Seq(Queries) /\ finishedQ \in Seq(Queries)
      /\ doomed \in Seq(Queries) /\ todo \in Seq(Items)
      /\ heard \in [Queries -> Seq(Reports)]
  BY EmptySeq DEF Init
<1>2. /\ status \in [Queries -> Statuses]
      /\ resultStatus \in [Queries -> ResultStatuses]
      /\ ran \in [Queries -> Outcomes]
      /\ handle \in [Queries -> {"new", "live", "released", "refused"}]
  BY DEF Init, Statuses, ResultStatuses, Outcomes
<1>3. /\ wpc \in WorkerPCs
      /\ wcur \in IF wpc \in EmptyHanded THEN {NoData} ELSE Queries
  BY DEF Init, WorkerPCs, EmptyHanded
<1> QED BY <1>1, <1>2, <1>3 DEF Init, TypeOK, Outcomes

\* Whatever a step pushes on the Lua thread's stack is an item: the actions
\* that change the stack, one by one.
LEMMA TodoTyped == TypeOK /\ [Next]_vars => todo' \in Seq(Items)
<1> SUFFICES ASSUME TypeOK, [Next]_vars
             PROVE  todo' \in Seq(Items)
  OBVIOUS
<1>0. /\ todo \in Seq(Items) /\ queue \in Seq(Queries)
      /\ finishedQ \in Seq(Queries) /\ <<>> \in Seq(Items)
  BY EmptySeq DEF TypeOK
<1>1. ASSUME NEW q \in Queries, AbortQueued(q) \/ AbortTaken(q)
      PROVE  todo' \in Seq(Items)
  BY <1>1, <1>0, CallTyped, ItemTyped DEF AbortQueued, AbortTaken, Holding, AbortOps
<1>2. ASSUME NEW q \in Queries, Wait(q)
      PROVE  todo' \in Seq(Items)
  <2>1. Item("wait", q) \in Items /\ Item("take", q) \in Items
    BY ItemTyped DEF WaitOps
  <2>2. <<Item("wait", q), Item("take", q)>> \in Seq(Items)
    BY <2>1
  <2> QED BY <1>2, <1>0, <2>2, CallTyped DEF Wait
<1>3. CASE Think
  BY <1>3, <1>0, CallTyped, ForAllTyped DEF Think, Holding
<1>4. ASSUME NEW op \in Holding, NEW rest \in Seq(Items), ClearQueue(op, rest)
      PROVE  todo' \in Seq(Items)
  <2>1. /\ Step("inFlight") \in Seq(Items) /\ Step("active") \in Seq(Items)
        /\ ForAll(op, queue) \in Seq(Items)
    BY <1>0, ItemTyped, ForAllTyped DEF AloneOps
  <2>2. Step("inFlight") \o Step("active") \o ForAll(op, queue) \o rest \in Seq(Items)
    BY <1>4, <2>1, ConcatProperties
  <2> QED BY <1>4, <1>0, <2>2, CallTyped DEF ClearQueue
<1>5. CASE AbortAll
  BY <1>5, <1>0, <1>4 DEF AbortAll, Holding
<1>6. CASE Destroy
  <2>1. Step("shutdown") \o Step("join") \o Step("takeFree") \in Seq(Items)
    BY ItemTyped, ConcatProperties DEF AloneOps
  <2> QED BY <1>6, <2>1, <1>4 DEF Destroy, Holding
<1>7. ASSUME NEW wait \in BOOLEAN, Disconnect(wait)
      PROVE  todo' \in Seq(Items)
  <2>1. Step("join") \o Step("take") \in Seq(Items) /\ Step("shutdown") \in Seq(Items)
    BY ItemTyped, ConcatProperties DEF AloneOps
  <2>2. Step("shutdown") \o (IF wait THEN Step("join") \o Step("take") ELSE <<>>)
          \in Seq(Items)
    BY <1>0, <2>1, ConcatProperties
  <2> QED BY <1>7, <2>2, <1>4 DEF Disconnect, Holding
<1>8. CASE Deliver
  <2>1. todo # <<>> /\ todo[1].of \in Queries
    BY <1>8, <1>0, AtTyped DEF Deliver, Holding
  <2>2. <<Item("callback", todo[1].of)>> \in Seq(Items)
    BY <2>1, ItemTyped DEF Holding
  <2> QED BY <1>8, <1>0, <2>1, <2>2, ThenTyped DEF Deliver
<1>9. CASE Release \/ AbortStore \/ PQcancelSent \/ PQcancelFailed \/ Join \/ WaitStore
  BY <1>9, <1>0, AtTyped, ThenTyped
     DEF Release, AbortStore, PQcancelSent, PQcancelFailed, Join, WaitStore
<1>10. CASE AbortStatus
  <2>1. todo # <<>> /\ todo[1].of \in Queries
    BY <1>10, <1>0, AtTyped DEF AbortStatus, AbortOps
  <2>2. /\ <<Item("abortStore", todo[1].of)>> \in Seq(Items)
        /\ <<Item("cancel", todo[1].of)>> \in Seq(Items)
    BY <2>1, ItemTyped DEF AbortOps
  <2> QED BY <1>10, <1>0, <2>1, <2>2, ThenTyped DEF AbortStatus
<1>11. ASSUME NEW q \in Queries \union {NoData}, todo # <<>>, RequestCancel(q)
      PROVE  todo' \in Seq(Items)
  <2>1. q # NoData => <<Item("pqcancel", q)>> \in Seq(Items)
    BY <1>11, ItemTyped DEF AbortOps
  <2> QED BY <1>11, <1>0, <2>1, ThenTyped DEF RequestCancel
<1>12. CASE Cancel \/ CancelActive
  <2>1. active \in Queries \union {NoData}
    BY DEF TypeOK
  <2> QED BY <1>12, <1>0, <1>11, <2>1, AtTyped DEF Cancel, CancelActive
<1>13. CASE AbortInFlight
  <2>1. inFlight # NoData => <<Item("abortStore", inFlight)>> \in Seq(Items)
    BY ItemTyped DEF TypeOK, AbortOps
  <2> QED BY <1>13, <1>0, <2>1, AtTyped, ThenTyped DEF AbortInFlight
<1>14. CASE Shutdown
  <2>1. Step("active") \o Step("inFlight") \o Step("close") \in Seq(Items)
    BY ItemTyped, ConcatProperties DEF AloneOps
  <2> QED BY <1>14, <1>0, <2>1, AtTyped, ThenTyped DEF Shutdown
<1>15. CASE Close
  BY <1>15, <1>0, AtTyped, ThenTyped DEF Close, Closing
<1>16. CASE TakeFinished \/ TakeAndFree
  <2>1. /\ ForAll("deliver", finishedQ) \in Seq(Items)
        /\ ForAll("free", finishedQ) \in Seq(Items)
    BY <1>0, ForAllTyped DEF Holding
  <2> QED BY <1>16, <1>0, <2>1, AtTyped, ThenTyped
          DEF TakeFinished, TakingFinished, TakeAndFree, TakingToFree
<1>17. CASE WaitEnter
  <2>1. todo # <<>> /\ todo[1].of \in Queries
    BY <1>17, <1>0, AtTyped DEF WaitEnter, WaitingIf, WaitOps
  <2>2. /\ <<Item("block", todo[1].of)>> \in Seq(Items)
        /\ <<Item("cannotWait", todo[1].of)>> \in Seq(Items)
    BY <2>1, ItemTyped DEF WaitOps
  <2>3. \E items \in {<<>>, <<Item("block", todo[1].of)>>,
                        <<Item("cannotWait", todo[1].of)>>} : Then(items)
    BY <1>17 DEF WaitEnter, WaitingIf
  <2> QED BY <1>0, <2>1, <2>2, <2>3, ThenTyped
<1>18. CASE CannotWait
  <2>1. todo # <<>> /\ todo[1].of \in Queries
    BY <1>18, <1>0, AtTyped DEF CannotWait, WaitOps
  <2>2. <<Item("waitStore", todo[1].of)>> \in Seq(Items)
    BY <2>1, ItemTyped DEF WaitOps
  <2> QED BY <1>18, <1>0, <2>1, <2>2, ThenTyped DEF CannotWait
<1>19. CASE Block
  <2>1. todo # <<>> /\ todo[1].of \in Queries
    BY <1>19, <1>0, AtTyped DEF Block, WaitOps
  <2>2. <<Item("fallAsleep", todo[1].of)>> \in Seq(Items)
    BY <2>1, ItemTyped DEF WaitOps
  <2> QED BY <1>19, <1>0, <2>1, <2>2, ThenTyped DEF Block
<1>20. CASE FallAsleep
  <2>1. todo # <<>> /\ todo[1].of \in Queries
    BY <1>20, <1>0, AtTyped DEF FallAsleep, WaitOps
  <2>2. <<Item("sleep", todo[1].of)>> \in Seq(Items)
    BY <2>1, ItemTyped DEF WaitOps
  <2> QED BY <1>20, <1>0, <2>1, <2>2, ThenTyped DEF FallAsleep
<1>21. CASE SpuriousWake
  <2>1. todo # <<>> /\ todo[1].of \in Queries
    BY <1>21, <1>0, AtTyped DEF SpuriousWake, WaitOps
  <2>2. <<Item("block", todo[1].of)>> \in Seq(Items)
    BY <2>1, ItemTyped DEF WaitOps
  <2> QED BY <1>21, <1>0, <2>1, <2>2, ThenTyped DEF SpuriousWake
<1>22. CASE Notify
  <2>1. CASE At("sleep") /\ todo[1].of = wcur
    <3>1. todo # <<>> /\ wcur \in Queries
      BY <1>0, <2>1, AtTyped DEF WaitOps
    <3>2. <<Item("block", wcur)>> \in Seq(Items) /\ Tail(todo) \in Seq(Items)
      BY <1>0, <3>1, ItemTyped, ContainsTail DEF WaitOps
    <3> QED BY <1>22, <2>1, <3>2, ConcatProperties DEF Notify
  <2>2. CASE ~(At("sleep") /\ todo[1].of = wcur)
    BY <1>22, <1>0, <2>2 DEF Notify
  <2> QED BY <2>1, <2>2
<1>23. ASSUME NEW q \in Queries, StartQueued(q) \/ StartRefused(q)
      PROVE  todo' \in Seq(Items)
  BY <1>23, <1>0 DEF StartQueued, StartRefused
<1>24. CASE Connect \/ UNCHANGED vars
  BY <1>24, <1>0 DEF Connect, vars, luaSide, luaVars
<1>25. CASE WorkerStep /\ ~Notify
  BY <1>25, <1>0 DEF WorkerStep, ConnectSucceeds, ConnectFails, StopWaits,
     FailClose, Doom, DoomDone, TakeNext, Exit, SetInFlight, Check,
     SetRunning, Execute, OpenFails, StatementOk, Unguard, Classify, Settle,
     Complete, Put, Finish,
       FailClosing, Checking, Classifying, Settling, StatementFails,
       allButPC, luaSide, luaVars
<1> QED BY <1>1, <1>2, <1>3, <1>4, <1>5, <1>6, <1>7, <1>8, <1>9, <1>10, <1>11,
           <1>12, <1>13, <1>14, <1>15, <1>16, <1>17, <1>18, <1>19, <1>20,
           <1>21, <1>22, <1>23, <1>24, <1>25 DEF Next, LuaCall, LuaStep

\* Every step keeps the types of all variables.
LEMMA TypeStep == TypeOK /\ [Next]_vars => TypeOK'
<1> SUFFICES ASSUME TypeOK, [Next]_vars
             PROVE  TypeOK'
  OBVIOUS
<1> USE DEF dataVars, queueVars, dbVars, handVars, workVars, refVars, luaVars,
            serverVars, history, luaSide, allButTodo, allButPC
<1>0. /\ todo' \in Seq(Items) /\ todo \in Seq(Items) /\ <<>> \in Seq(Queries)
      /\ queue \in Seq(Queries) /\ finishedQ \in Seq(Queries)
  BY TodoTyped, EmptySeq DEF TypeOK
<1>1. ASSUME NEW q \in Queries, StartQueued(q)
      PROVE  TypeOK'
  <2>1. queue' \in Seq(Queries)
    BY <1>1, <1>0, ContainsAppend DEF StartQueued
  <2> QED BY <1>1, <1>0, <2>1 DEF StartQueued, Statuses, TypeOK
<1>2. ASSUME NEW q \in Queries, StartRefused(q)
      PROVE  TypeOK'
  BY <1>2, <1>0 DEF StartRefused, Statuses, TypeOK
<1>3. ASSUME NEW q \in Queries, AbortQueued(q)
      PROVE  TypeOK'
  <2>1. queue' \in Seq(Queries)
    BY <1>3, <1>0, ContainsRemoveAt DEF AbortQueued, Removed
  <2> QED BY <1>3, <1>0, <2>1 DEF AbortQueued, Statuses, TypeOK
<1>4. ASSUME NEW q \in Queries, AbortTaken(q)
      PROVE  TypeOK'
  BY <1>4, <1>0 DEF AbortTaken, TypeOK
<1>5. ASSUME NEW q \in Queries, Wait(q)
      PROVE  TypeOK'
  <2>1. queue' \in Seq(Queries)
    BY <1>5, <1>0, WaitQueue
  <2> QED BY <1>5, <1>0, <2>1 DEF Wait, TypeOK
<1>6. CASE AbortAll
  <2>1. ToSet(queue) \subseteq Queries
    BY <1>0, ElementOfSeq, LenProperties DEF ToSet
  <2>2. WithStatus(ToSet(queue), "ABORTED") \in [Queries -> Statuses]
    BY DEF TypeOK, WithStatus, Statuses
  <2>3. Started \subseteq Queries
    BY DEF Started
  <2> QED BY <1>6, <1>0, <2>1, <2>2, <2>3 DEF AbortAll, ClearQueue, TypeOK
<1>7. CASE Destroy
  <2>1. ToSet(queue) \subseteq Queries
    BY <1>0, ElementOfSeq, LenProperties DEF ToSet
  <2>2. WithStatus(ToSet(queue), "ABORTED") \in [Queries -> Statuses]
    BY DEF TypeOK, WithStatus, Statuses
  <2>3. Started \subseteq Queries
    BY DEF Started
  <2> QED BY <1>7, <1>0, <2>1, <2>2, <2>3 DEF Destroy, ClearQueue, TypeOK
<1>8. ASSUME NEW wait \in BOOLEAN, Disconnect(wait)
      PROVE  TypeOK'
  <2>1. ToSet(queue) \subseteq Queries
    BY <1>0, ElementOfSeq, LenProperties DEF ToSet
  <2>2. WithStatus(ToSet(queue), "ABORTED") \in [Queries -> Statuses]
    BY DEF TypeOK, WithStatus, Statuses
  <2>3. Started \subseteq Queries
    BY DEF Started
  <2> QED BY <1>8, <1>0, <2>1, <2>2, <2>3 DEF Disconnect, ClearQueue, TypeOK
<1>9. CASE Connect
  <2>1. wpc' \in WorkerPCs /\ wpc' \in EmptyHanded /\ wcur = NoData
    BY <1>9 DEF Connect, TypeOK, WorkerPCs, EmptyHanded
  <2> QED BY <1>9, <1>0, <2>1 DEF Connect, TypeOK
<1>10. CASE Think
  BY <1>10, <1>0 DEF Think, TypeOK
<1>11. CASE Deliver
  <2>1. todo[1].of \in Queries
    BY <1>11, <1>0, AtTyped DEF Deliver, Holding
  <2>2. \A q \in Queries : Report(q) \in Reports
    BY DEF Report, Reports, TypeOK
  <2>3. \A q \in Queries : Append(heard[q], Report(q)) \in Seq(Reports)
    BY <2>2, ContainsAppend DEF TypeOK
  <2>4. heard' \in [Queries -> Seq(Reports)]
    BY <1>11, <2>1, <2>3 DEF Deliver, TypeOK
  <2> QED BY <1>11, <1>0, <2>1, <2>2, <2>3, <2>4 DEF Deliver, TypeOK
<1>12. CASE Release
  <2>1. todo[1].of \in Queries
    BY <1>12, <1>0, AtTyped DEF Release, Holding
  <2> QED BY <1>12, <1>0, <2>1 DEF Release, TypeOK
<1>13. CASE AbortStatus \/ AbortInFlight \/ Join \/ WaitEnter \/ Block \/ FallAsleep \/ SpuriousWake
  <2>1. UNCHANGED allButTodo
    BY <1>13 DEF AbortStatus, AbortInFlight, Join, WaitEnter, WaitingIf, Block,
             FallAsleep, SpuriousWake
  <2> QED BY <1>0, <2>1 DEF TypeOK
<1>14. CASE AbortStore
  <2>1. todo[1].of \in Queries
    BY <1>14, <1>0, AtTyped DEF AbortStore, AbortOps
  <2>2. status' \in [Queries -> Statuses]
    BY <1>14, <2>1 DEF AbortStore, TypeOK, Statuses
  <2> QED BY <1>14, <1>0, <2>1, <2>2 DEF AbortStore, TypeOK
<1>15. ASSUME NEW q \in Queries \union {NoData}, RequestCancel(q)
      PROVE  TypeOK'
  BY <1>15, <1>0 DEF RequestCancel, TypeOK
<1>16. CASE Cancel \/ CancelActive
  <2>1. active \in Queries \union {NoData}
    BY DEF TypeOK
  <2> QED BY <1>16, <1>0, <1>15, <2>1, AtTyped DEF Cancel, CancelActive
<1>17. CASE PQcancelSent
  BY <1>17, <1>0 DEF PQcancelSent, TypeOK
<1>18. CASE PQcancelFailed
  BY <1>18, <1>0 DEF PQcancelFailed, TypeOK
<1>19. CASE Shutdown
  <2>1. Started \subseteq Queries
    BY DEF Started
  <2> QED BY <1>19, <1>0, <2>1 DEF Shutdown, TypeOK
<1>20. CASE Close
  <2>1. ToSet(queue) \subseteq Queries
    BY <1>0, ElementOfSeq, LenProperties DEF ToSet
  <2>2. WithStatus(ToSet(queue), "ABORTED") \in [Queries -> Statuses]
    BY DEF TypeOK, WithStatus, Statuses
  <2>3. finishedQ' \in Seq(Queries)
    BY <1>20, <1>0, ConcatProperties DEF Close, Closing
  <2> QED BY <1>20, <1>0, <2>1, <2>2, <2>3 DEF Close, Closing, TypeOK
<1>21. CASE TakeFinished
  BY <1>21, <1>0 DEF TakeFinished, TakingFinished, TypeOK
<1>22. CASE TakeAndFree
  BY <1>22, <1>0 DEF TakeAndFree, TakingToFree, TypeOK
<1>23. CASE CannotWait
  <2>1. todo[1].of \in Queries
    BY <1>23, <1>0, AtTyped DEF CannotWait, WaitOps
  <2>2. FailNow(todo[1].of) => /\ resultStatus' \in [Queries -> ResultStatuses]
                              /\ status' \in [Queries -> Statuses]
                              /\ finishedQ' \in Seq(Queries)
                              /\ finished' \subseteq Queries
    BY <1>0, <2>1, ContainsAppend DEF FailNow, TypeOK, Statuses, ResultStatuses
  <2>3. queue' \in Seq(Queries)
    BY <1>23, <1>0, ContainsRemoveAt DEF CannotWait, Removed
  <2> QED BY <1>23, <1>0, <2>1, <2>2, <2>3 DEF CannotWait, TypeOK
<1>24. CASE WaitStore
  <2>1. todo[1].of \in Queries
    BY <1>24, <1>0, AtTyped DEF WaitStore, WaitOps
  <2>2. FailNow(todo[1].of) => /\ resultStatus' \in [Queries -> ResultStatuses]
                              /\ status' \in [Queries -> Statuses]
                              /\ finishedQ' \in Seq(Queries)
                              /\ finished' \subseteq Queries
    BY <1>0, <2>1, ContainsAppend DEF FailNow, TypeOK, Statuses, ResultStatuses
  <2> QED BY <1>24, <1>0, <2>1, <2>2 DEF WaitStore, TypeOK
<1>25. CASE ConnectSucceeds
  BY <1>25, <1>0 DEF ConnectSucceeds, WorkerPCs, EmptyHanded, Goto, TypeOK
<1>26. CASE ConnectFails
  BY <1>26, <1>0 DEF ConnectFails, WorkerPCs, EmptyHanded, Goto, TypeOK
<1>27. CASE StopWaits
  BY <1>27, <1>0 DEF StopWaits, WorkerPCs, EmptyHanded, Goto, TypeOK
<1>28. CASE FailClose
  BY <1>28, <1>0 DEF FailClose, WorkerPCs, EmptyHanded, Goto, FailClosing, TypeOK
<1>29. CASE Doom
  <2>1. Head(doomed) \in Queries /\ Tail(doomed) \in Seq(Queries)
    BY <1>29, ContainsTail DEF Doom, TypeOK
  <2>2. /\ status' \in [Queries -> Statuses]
        /\ resultStatus' \in [Queries -> ResultStatuses]
    BY <1>29, <2>1 DEF Doom, TypeOK, Statuses, ResultStatuses
  <2> QED BY <1>29, <1>0, <2>1, <2>2 DEF Doom, WorkerPCs, EmptyHanded, Goto, TypeOK
<1>30. CASE DoomDone
  BY <1>30, <1>0 DEF DoomDone, WorkerPCs, EmptyHanded, Goto, TypeOK
<1>31. CASE TakeNext
  <2>1. Head(queue) \in Queries /\ Tail(queue) \in Seq(Queries)
    BY <1>31, ContainsTail DEF TakeNext, TypeOK
  <2> QED BY <1>31, <1>0, <2>1 DEF TakeNext, WorkerPCs, EmptyHanded, Goto, TypeOK
<1>32. CASE Exit
  BY <1>32, <1>0 DEF Exit, WorkerPCs, EmptyHanded, Goto, TypeOK
<1>33. CASE SetInFlight
  BY <1>33, <1>0 DEF SetInFlight, WorkerPCs, EmptyHanded, Goto, TypeOK
<1>34. CASE Check
  <2>1. wcur \in Queries
    BY <1>34 DEF Check, Goto, TypeOK, EmptyHanded, Checking
  <2>2. status' \in [Queries -> Statuses]
    BY <1>34, <2>1 DEF Check, Checking, TypeOK, Statuses
  <2>3. wpc' \in WorkerPCs \ EmptyHanded
    BY <1>34 DEF Check, Checking, WorkerPCs, EmptyHanded
  <2>4. wpc # "none" /\ wpc' # "none"
    BY <1>34 DEF Check, Checking
  <2> QED BY <1>34, <1>0, <2>1, <2>2, <2>3, <2>4 DEF Check, Checking, TypeOK
<1>35. CASE SetRunning
  <2>1. wcur \in Queries
    BY <1>35 DEF SetRunning, Goto, TypeOK, EmptyHanded
  <2>2. status' \in [Queries -> Statuses]
    BY <1>35, <2>1 DEF SetRunning, TypeOK, Statuses
  <2> QED BY <1>35, <1>0, <2>1, <2>2 DEF SetRunning, WorkerPCs, EmptyHanded,
             Goto, TypeOK
<1>36. CASE Execute
  <2>1. wcur \in Queries
    BY <1>36 DEF Execute, Goto, TypeOK, EmptyHanded
  <2> QED BY <1>36, <1>0, <2>1 DEF Execute, WorkerPCs, EmptyHanded, Goto, TypeOK
<1>37. CASE OpenFails
  BY <1>37, <1>0 DEF OpenFails, WorkerPCs, EmptyHanded, Goto, Outcomes, TypeOK
<1>38. CASE StatementOk
  <2>1. wcur \in Queries
    BY <1>38 DEF StatementOk, Goto, TypeOK, EmptyHanded
  <2>2. ran' \in [Queries -> Outcomes] /\ outcome' \in Outcomes
    BY <1>38, <2>1 DEF StatementOk, TypeOK, Outcomes
  <2>3. resultStatus' \in [Queries -> ResultStatuses]
    BY <1>38, <2>1 DEF StatementOk, TypeOK, ResultStatuses
  <2> QED BY <1>38, <1>0, <2>1, <2>2, <2>3 DEF StatementOk, WorkerPCs,
             EmptyHanded, Goto, TypeOK
<1>39. ASSUME NEW o \in {"error", "cancelled", "lost"}, StatementFails(o)
      PROVE  TypeOK'
  <2>1. wcur \in Queries
    BY <1>39 DEF StatementFails, Goto, TypeOK, EmptyHanded
  <2>2. ran' \in [Queries -> Outcomes] /\ outcome' \in Outcomes
    BY <1>39, <2>1 DEF StatementFails, TypeOK, Outcomes
  <2> QED BY <1>39, <1>0, <2>1, <2>2 DEF StatementFails, WorkerPCs,
             EmptyHanded, Goto, TypeOK
<1>40. CASE Unguard
  <2>1. wcur \in Queries
    BY <1>40 DEF Unguard, Goto, TypeOK, EmptyHanded
  <2>2. wpc' \in WorkerPCs \ EmptyHanded /\ wpc # "none" /\ wpc' # "none"
    BY <1>40 DEF Unguard, Goto, WorkerPCs, EmptyHanded
  <2> QED BY <1>40, <1>0, <2>1, <2>2 DEF Unguard, TypeOK
<1>41. CASE Classify
  <2>1. wcur \in Queries
    BY <1>41 DEF Classify, Goto, TypeOK, EmptyHanded, Classifying
  <2>2. wpc' \in WorkerPCs \ EmptyHanded /\ wpc # "none" /\ wpc' # "none"
    BY <1>41 DEF Classify, Goto, WorkerPCs, EmptyHanded, Classifying
  <2>3. /\ status' \in [Queries -> Statuses]
        /\ resultStatus' \in [Queries -> ResultStatuses]
        /\ cancelReq' \subseteq Queries
    BY <1>41, <2>1 DEF Classify, Classifying, TypeOK, Statuses, ResultStatuses
  <2> QED BY <1>41, <1>0, <2>1, <2>2, <2>3 DEF Classify, Classifying, TypeOK
<1>42. CASE Settle
  <2>1. wcur \in Queries
    BY <1>42 DEF Settle, Goto, TypeOK, EmptyHanded, Settling
  <2>2. wpc' \in WorkerPCs \ EmptyHanded /\ wpc # "none" /\ wpc' # "none"
    BY <1>42 DEF Settle, Goto, WorkerPCs, EmptyHanded, Settling
  <2> QED BY <1>42, <1>0, <2>1, <2>2 DEF Settle, Settling, TypeOK
<1>43. CASE Complete
  <2>1. wcur \in Queries
    BY <1>43 DEF Complete, Goto, TypeOK, EmptyHanded
  <2>2. status' \in [Queries -> Statuses]
    BY <1>43, <2>1 DEF Complete, TypeOK, Statuses
  <2>3. wpc' \in WorkerPCs \ EmptyHanded /\ wpc # "none" /\ wpc' # "none"
    BY <1>43 DEF Complete, Goto, WorkerPCs, EmptyHanded
  <2> QED BY <1>43, <1>0, <2>1, <2>2, <2>3 DEF Complete, TypeOK
<1>44. CASE Put
  <2>1. wcur \in Queries
    BY <1>44 DEF Put, Goto, TypeOK, EmptyHanded
  <2>2. wpc' \in WorkerPCs \ EmptyHanded /\ wpc # "none" /\ wpc' # "none"
    BY <1>44 DEF Put, Goto, WorkerPCs, EmptyHanded
  <2>3. finishedQ' \in Seq(Queries)
    BY <1>44, <1>0, <2>1, ContainsAppend DEF Put
  <2> QED BY <1>44, <1>0, <2>1, <2>2, <2>3 DEF Put, TypeOK
<1>45. CASE Finish
  <2>1. wcur \in Queries
    BY <1>45 DEF Finish, Goto, TypeOK, EmptyHanded
  <2>2. wpc' \in WorkerPCs \ EmptyHanded /\ wpc # "none" /\ wpc' # "none"
    BY <1>45 DEF Finish, Goto, WorkerPCs, EmptyHanded
  <2> QED BY <1>45, <1>0, <2>1, <2>2 DEF Finish, TypeOK
<1>46. CASE Notify
  <2>1. wpc' \in WorkerPCs /\ wpc' \in EmptyHanded /\ wpc # "none" /\ wpc' # "none"
    BY <1>46 DEF Notify, Goto, WorkerPCs, EmptyHanded
  <2> QED BY <1>46, <1>0, <2>1 DEF Notify, TypeOK
<1>47. CASE UNCHANGED vars
  BY <1>47, <1>0 DEF vars, TypeOK
<1> QED BY <1>1, <1>2, <1>3, <1>4, <1>5, <1>6, <1>7, <1>8, <1>9, <1>10, <1>11,
          <1>12, <1>13, <1>14, <1>15, <1>16, <1>17, <1>18, <1>19, <1>20,
          <1>21, <1>22, <1>23, <1>24, <1>25, <1>26, <1>27, <1>28, <1>29,
          <1>30, <1>31, <1>32, <1>33, <1>34, <1>35, <1>36, <1>37, <1>38,
          <1>39, <1>40, <1>41, <1>42, <1>43, <1>44, <1>45, <1>46, <1>47
       DEF Next, LuaCall, LuaStep, WorkerStep

-----------------------------------------------------------------------------
(* Which steps are left on the stack. *)

\* A step is left when an item of its kind is on the stack.
LEMMA HasIsContains ==
  ASSUME NEW s \in Seq(Items), NEW ops, NEW q
  PROVE  Has(s, ops, q) <=>
           \E item \in Items : Contains(s, item) /\ item.op \in ops /\ item.of = q
BY ElementOfSeq, LenProperties DEF Has, Contains

\* What is left when steps are put before others.
LEMMA HasConcat ==
  ASSUME NEW s \in Seq(Items), NEW t \in Seq(Items), NEW ops, NEW q
  PROVE  Has(s \o t, ops, q) <=> Has(s, ops, q) \/ Has(t, ops, q)
<1>1. /\ s \o t \in Seq(Items)
      /\ \A item : Contains(s \o t, item) <=> Contains(s, item) \/ Contains(t, item)
  BY ContainsConcat
<1>2. Has(s \o t, ops, q) <=>
        \E item \in Items : Contains(s \o t, item) /\ item.op \in ops /\ item.of = q
  BY <1>1, HasIsContains
<1>3. Has(s, ops, q) <=> \E item \in Items : Contains(s, item) /\ item.op \in ops /\ item.of = q
  BY HasIsContains
<1>4. Has(t, ops, q) <=> \E item \in Items : Contains(t, item) /\ item.op \in ops /\ item.of = q
  BY HasIsContains
<1> QED BY <1>1, <1>2, <1>3, <1>4, Zenon

\* What is left when the top is taken away.
LEMMA HasTail ==
  ASSUME NEW s \in Seq(Items), s # <<>>, NEW ops, NEW q
  PROVE  Has(s, ops, q) <=> (s[1].op \in ops /\ s[1].of = q) \/ Has(Tail(s), ops, q)
<1>1. /\ Tail(s) \in Seq(Items) /\ s[1] \in Items
      /\ \A item : Contains(s, item) <=> item = s[1] \/ Contains(Tail(s), item)
  BY ContainsTail
<1>2. Has(s, ops, q) <=> \E item \in Items : Contains(s, item) /\ item.op \in ops /\ item.of = q
  BY HasIsContains
<1>3. Has(Tail(s), ops, q) <=>
        \E item \in Items : Contains(Tail(s), item) /\ item.op \in ops /\ item.of = q
  BY <1>1, HasIsContains
<1> QED BY <1>1, <1>2, <1>3, Zenon

\* A single step, and none.
LEMMA HasOne ==
  ASSUME NEW op, NEW p, NEW ops, NEW q
  PROVE  /\ Has(<<Item(op, p)>>, ops, q) <=> op \in ops /\ p = q
         /\ ~Has(<<>>, ops, q)
BY DEF Has, Item

\* A step of the same kind for each execution of a sequence.
LEMMA HasForAll ==
  ASSUME NEW op, NEW s \in Seq(Queries), NEW ops, NEW q
  PROVE  Has(ForAll(op, s), ops, q) <=> op \in ops /\ Contains(s, q)
<1> DEFINE S == {Item(op, p) : p \in Queries}
           all == ForAll(op, s)
<1>1. /\ Len(s) \in Nat /\ DOMAIN s = 1..Len(s)
      /\ \A i \in 1..Len(s) : s[i] \in Queries
  BY LenProperties, ElementOfSeq
<1>2. all \in [1..Len(s) -> S]
  BY <1>1 DEF ForAll
<1>3. all \in Seq(S)
  BY <1>1, <1>2, SeqDef
<1>4. Len(all) = Len(s)
  <2> HIDE DEF all, S
  <2> QED BY <1>1, <1>2, <1>3, LenProperties
<1>5. \A i \in 1..Len(s) : all[i].op = op /\ all[i].of = s[i]
  BY <1>1 DEF ForAll, Item
<1> HIDE DEF all
<1>6. Has(all, ops, q) <=> op \in ops /\ Contains(s, q)
  BY <1>4, <1>5 DEF Has, Contains
<1> QED BY <1>6 DEF all

\* What a step leaves on the stack ...
LEMMA HasThen ==
  ASSUME todo \in Seq(Items), todo # <<>>, NEW items \in Seq(Items), Then(items),
         NEW ops, NEW q
  PROVE  /\ Has(todo', ops, q) <=> Has(items, ops, q) \/ Has(Tail(todo), ops, q)
         /\ Has(todo, ops, q) <=>
              (todo[1].op \in ops /\ todo[1].of = q) \/ Has(Tail(todo), ops, q)
BY ContainsTail, HasConcat, HasTail DEF Then

\* ... and a call.
LEMMA HasCall ==
  ASSUME todo \in Seq(Items), NEW items \in Seq(Items), Call(items), NEW ops, NEW q
  PROVE  Has(todo', ops, q) <=> Has(items, ops, q) \/ Has(todo, ops, q)
BY HasConcat DEF Call

\* A step that pushes nothing.
LEMMA ThenNone ==
  ASSUME todo \in Seq(Items), todo # <<>>, Then(<<>>), NEW ops, NEW q
  PROVE  /\ todo' \in Seq(Items)
         /\ Has(todo', ops, q) <=> Has(Tail(todo), ops, q)
BY EmptySeq, ThenTyped, HasThen, HasOne

\* A step that pushes one.
LEMMA ThenOne ==
  ASSUME todo \in Seq(Items), todo # <<>>, NEW op, NEW p, Item(op, p) \in Items,
         Then(<<Item(op, p)>>), NEW ops, NEW q
  PROVE  /\ todo' \in Seq(Items) /\ todo' # <<>>
         /\ todo'[1].op = op /\ todo'[1].of = p
         /\ Has(todo', ops, q) <=> (op \in ops /\ p = q) \/ Has(Tail(todo), ops, q)
<1>1. <<Item(op, p)>> \in Seq(Items)
  OBVIOUS
<1>2. /\ todo' \in Seq(Items)
      /\ Has(todo', ops, q) <=> (op \in ops /\ p = q) \/ Has(Tail(todo), ops, q)
  BY <1>1, ThenTyped, HasThen, HasOne
<1>3. Tail(todo) \in Seq(Items) /\ todo' = <<Item(op, p)>> \o Tail(todo)
  BY ContainsTail DEF Then
<1>4. Len(todo') >= 1 /\ todo'[1] = Item(op, p)
  BY <1>1, <1>3, ConcatProperties, LenProperties
<1> QED BY <1>2, <1>4, EmptySeq DEF Item

\* Steps of the Lua thread that push nothing for an execution.
LEMMA PopStack ==
  ASSUME TypeOK, NEW ops, NEW q \in Queries,
         \/ Release \/ AbortStore \/ PQcancelSent \/ PQcancelFailed \/ Join
         \/ Close \/ WaitStore \/ Shutdown
  PROVE  todo # <<>> /\ (Has(todo', ops, q) <=> Has(Tail(todo), ops, q))
<1>0. todo \in Seq(Items) /\ NoData # q
  BY NoDataAssumption DEF TypeOK
<1>1. CASE \/ Release \/ AbortStore \/ PQcancelSent \/ PQcancelFailed \/ Join
           \/ Close \/ WaitStore
  BY <1>0, <1>1, ThenNone
     DEF Release, AbortStore, PQcancelSent, PQcancelFailed, Join, Close, Closing,
         WaitStore, At
<1>2. CASE Shutdown
  <2>1. todo # <<>>
    BY <1>2 DEF Shutdown, At
  <2>2. CASE Then(<<>>)
    BY <1>0, <2>1, <2>2, ThenNone
  <2>3. CASE Then(Step("active") \o Step("inFlight") \o Step("close"))
    <3>1. /\ Step("active") \in Seq(Items) /\ Step("inFlight") \in Seq(Items)
          /\ Step("close") \in Seq(Items)
          /\ Step("active") \o Step("inFlight") \in Seq(Items)
          /\ Step("active") \o Step("inFlight") \o Step("close") \in Seq(Items)
      BY ItemTyped, ConcatProperties DEF AloneOps
    <3>2. /\ ~Has(Step("active"), ops, q) /\ ~Has(Step("inFlight"), ops, q)
          /\ ~Has(Step("close"), ops, q)
      BY <1>0, HasOne DEF Step
    <3>3. ~Has(Step("active") \o Step("inFlight") \o Step("close"), ops, q)
      BY <3>1, <3>2, HasConcat
    <3> QED BY <1>0, <2>1, <2>3, <3>1, <3>3, HasThen
  <2> QED BY <1>2, <2>1, <2>2, <2>3 DEF Shutdown
<1> QED BY <1>1, <1>2

\* Deliver leaves the callback of an execution whose references are live.
LEMMA DeliverStack ==
  ASSUME TypeOK, NEW ops, NEW q \in Queries, Deliver
  PROVE  /\ todo # <<>> /\ todo[1].of \in Queries
         /\ Has(todo', ops, q) <=>
              \/ "callback" \in ops /\ Live(todo[1].of) /\ todo[1].of = q
              \/ Has(Tail(todo), ops, q)
<1>1. todo \in Seq(Items) /\ todo # <<>> /\ todo[1].of \in Queries
  BY AtTyped DEF TypeOK, Deliver, Holding
<1>2. Item("callback", todo[1].of) \in Items
  BY <1>1, ItemTyped DEF Holding
<1> QED BY <1>1, <1>2, ThenNone, ThenOne DEF Deliver

\* Steps of an abort: they push steps of the same abort.
LEMMA AbortStack ==
  ASSUME TypeOK, NEW ops, NEW q \in Queries, AbortStatus \/ Cancel
  PROVE  /\ todo # <<>> /\ todo[1].of \in Queries
         /\ Has(Tail(todo), ops, q) => Has(todo', ops, q)
         /\ Has(todo', ops, q) =>
              \/ todo[1].of = q /\ \E op \in AbortOps : op \in ops
              \/ Has(Tail(todo), ops, q)
<1>1. todo \in Seq(Items) /\ todo # <<>> /\ todo[1].of \in Queries
  BY AtTyped DEF TypeOK, AbortStatus, Cancel, AbortOps
<1>2. /\ Item("abortStore", todo[1].of) \in Items
      /\ Item("cancel", todo[1].of) \in Items
      /\ Item("pqcancel", todo[1].of) \in Items
  BY <1>1, ItemTyped DEF AbortOps
<1>3. \/ Then(<<>>) \/ Then(<<Item("abortStore", todo[1].of)>>)
      \/ Then(<<Item("cancel", todo[1].of)>>) \/ Then(<<Item("pqcancel", todo[1].of)>>)
  BY DEF AbortStatus, Cancel, RequestCancel
<1> QED BY <1>1, <1>2, <1>3, ThenNone, ThenOne DEF AbortOps

\* Steps that look at the active execution, or at the one in flight.
LEMMA CurrentStack ==
  ASSUME TypeOK, NEW ops, NEW q \in Queries, CancelActive \/ AbortInFlight
  PROVE  /\ todo # <<>>
         /\ Has(Tail(todo), ops, q) => Has(todo', ops, q)
         /\ Has(todo', ops, q) =>
              \/ (active = q \/ inFlight = q) /\ \E op \in AbortOps : op \in ops
              \/ Has(Tail(todo), ops, q)
<1>1. todo \in Seq(Items) /\ todo # <<>>
  BY DEF TypeOK, CancelActive, AbortInFlight, At
<1>2. /\ active # NoData => Item("pqcancel", active) \in Items
      /\ inFlight # NoData => Item("abortStore", inFlight) \in Items
  BY ItemTyped DEF TypeOK, AbortOps
<1>3. \/ Then(<<>>)
      \/ active # NoData /\ Then(<<Item("pqcancel", active)>>)
      \/ inFlight # NoData /\ Then(<<Item("abortStore", inFlight)>>)
  BY DEF CancelActive, AbortInFlight, RequestCancel
<1> QED BY <1>1, <1>2, <1>3, ThenNone, ThenOne DEF AbortOps

\* Steps of a wait: another step of the same wait, or the end of it, when the
\* execution is finished.
LEMMA WaitStack ==
  ASSUME TypeOK, NEW ops, NEW q \in Queries,
         WaitEnter \/ CannotWait \/ Block \/ FallAsleep \/ SpuriousWake
  PROVE  /\ todo # <<>> /\ todo[1].of \in Queries /\ todo[1].op \in WaitOps
         /\ Has(Tail(todo), ops, q) => Has(todo', ops, q)
         /\ Has(todo', ops, q) =>
              (todo[1].of = q /\ todo'[1].op \in ops) \/ Has(Tail(todo), ops, q)
         /\ \/ todo[1].of \in finished'
            \/ todo'[1].op \in WaitOps /\ todo'[1].of = todo[1].of
<1> DEFINE p == todo[1].of
<1>1. todo \in Seq(Items) /\ todo # <<>> /\ p \in Queries /\ todo[1].op \in WaitOps
  BY AtTyped DEF TypeOK, WaitEnter, WaitingIf, CannotWait, Block, FallAsleep,
                 SpuriousWake, WaitOps, At
<1>2. /\ Item("block", p) \in Items /\ Item("cannotWait", p) \in Items
      /\ Item("waitStore", p) \in Items /\ Item("fallAsleep", p) \in Items
      /\ Item("sleep", p) \in Items
  BY <1>1, ItemTyped DEF WaitOps
<1>3. \/ Then(<<>>) /\ p \in finished'
      \/ Then(<<Item("block", p)>>) \/ Then(<<Item("cannotWait", p)>>)
      \/ Then(<<Item("waitStore", p)>>) \/ Then(<<Item("fallAsleep", p)>>)
      \/ Then(<<Item("sleep", p)>>)
  BY <1>1 DEF WaitEnter, WaitingIf, CannotWait, FailNow, Block, FallAsleep,
              SpuriousWake, allButTodo, dataVars
<1> HIDE DEF p
<1>4. CASE Then(<<>>) /\ p \in finished'
  BY <1>1, <1>4, ThenNone DEF p
<1>5. ASSUME NEW op \in WaitOps, Item(op, p) \in Items, Then(<<Item(op, p)>>)
      PROVE  /\ todo'[1].op = op /\ todo'[1].of = p
             /\ Has(todo', ops, q) <=> (op \in ops /\ p = q) \/ Has(Tail(todo), ops, q)
  BY <1>1, <1>5, ThenOne
<1>6. CASE ~(Then(<<>>) /\ p \in finished')
  <2>1. /\ todo'[1].op \in WaitOps /\ todo'[1].of = p
        /\ Has(todo', ops, q) <=>
             (todo'[1].op \in ops /\ p = q) \/ Has(Tail(todo), ops, q)
    BY <1>2, <1>3, <1>5, <1>6 DEF WaitOps
  <2> QED BY <1>1, <2>1 DEF p
<1> QED BY <1>4, <1>6

\* What the calls push: the execution they are called on
LEMMA CallStack ==
  ASSUME TypeOK, NEW ops, NEW q \in Queries, NEW p \in Queries, NEW op \in Ops \ AloneOps,
         Call(<<Item(op, p)>>)
  PROVE  Has(todo', ops, q) <=> (op \in ops /\ p = q) \/ Has(todo, ops, q)
<1>1. <<Item(op, p)>> \in Seq(Items)
  BY ItemTyped DEF Ops, AloneOps
<1>2. Has(todo', ops, q) <=> Has(<<Item(op, p)>>, ops, q) \/ Has(todo, ops, q)
  BY <1>1, HasCall DEF TypeOK
<1> QED BY <1>2, HasOne

\* query:wait() pushes the wait, and the think() that ends it.
LEMMA WaitCallStack ==
  ASSUME TypeOK, NEW ops, NEW q \in Queries, NEW p \in Queries, Wait(p)
  PROVE  /\ Has(todo', ops, q) <=>
              \/ "wait" \in ops /\ p = q
              \/ "take" \in ops /\ p = q
              \/ Has(todo, ops, q)
         /\ todo'[1].op = "wait" /\ todo'[1].of = p
<1> DEFINE items == <<Item("wait", p), Item("take", p)>>
<1>1. todo \in Seq(Items) /\ Item("wait", p) \in Items /\ Item("take", p) \in Items
  BY ItemTyped DEF TypeOK, WaitOps
<1>2. items \in Seq(Items) /\ Len(items) = 2
  BY <1>1
<1>3. items[1] = Item("wait", p) /\ items[2] = Item("take", p)
  OBVIOUS
<1> HIDE DEF items
<1>4. Has(items, ops, q) <=> \/ "wait" \in ops /\ p = q
                             \/ "take" \in ops /\ p = q
  BY <1>2, <1>3 DEF Has, Item
<1>5. Call(items)
  BY DEF Wait, items
<1>6. todo'[1] = Item("wait", p)
  <2>1. /\ Len(todo) \in Nat
        /\ \A i \in 1..Len(items) + Len(todo) :
             (items \o todo)[i] = IF i <= Len(items) THEN items[i] ELSE todo[i - Len(items)]
    BY <1>1, <1>2, ConcatProperties, LenProperties
  <2>2. (items \o todo)[1] = items[1]
    BY <1>2, <2>1
  <2> QED BY <1>3, <1>5, <2>2 DEF Call
<1>7. Has(todo', ops, q) <=> Has(items, ops, q) \/ Has(todo, ops, q)
  BY <1>1, <1>2, <1>5, HasCall
<1>8. todo'[1].op = "wait" /\ todo'[1].of = p
  BY <1>6 DEF Item
<1> QED BY <1>4, <1>7, <1>8

\* What the steps that take the finished executions push.
LEMMA TakeStack ==
  ASSUME TypeOK, NEW ops, NEW q \in Queries
  PROVE  /\ Think => (Has(todo', ops, q) <=>
               ("deliver" \in ops /\ Contains(finishedQ, q)) \/ Has(todo, ops, q))
         /\ TakeFinished => todo # <<>> /\ (Has(todo', ops, q) <=>
               ("deliver" \in ops /\ Contains(finishedQ, q)) \/ Has(Tail(todo), ops, q))
         /\ TakeAndFree => todo # <<>> /\ (Has(todo', ops, q) <=>
               ("free" \in ops /\ Contains(finishedQ, q)) \/ Has(Tail(todo), ops, q))
<1>1. /\ todo \in Seq(Items) /\ finishedQ \in Seq(Queries)
      /\ ForAll("deliver", finishedQ) \in Seq(Items)
      /\ ForAll("free", finishedQ) \in Seq(Items)
  BY ForAllTyped DEF TypeOK, Holding
<1>2. /\ Has(ForAll("deliver", finishedQ), ops, q) <=>
           "deliver" \in ops /\ Contains(finishedQ, q)
      /\ Has(ForAll("free", finishedQ), ops, q) <=>
           "free" \in ops /\ Contains(finishedQ, q)
  BY <1>1, HasForAll
<1>3. ASSUME Think
      PROVE  Has(todo', ops, q) <=>
               ("deliver" \in ops /\ Contains(finishedQ, q)) \/ Has(todo, ops, q)
  BY <1>1, <1>2, <1>3, HasCall DEF Think
<1>4. ASSUME TakeFinished
      PROVE  todo # <<>> /\ (Has(todo', ops, q) <=>
               ("deliver" \in ops /\ Contains(finishedQ, q)) \/ Has(Tail(todo), ops, q))
  BY <1>1, <1>2, <1>4, HasThen DEF TakeFinished, TakingFinished, At
<1>5. ASSUME TakeAndFree
      PROVE  todo # <<>> /\ (Has(todo', ops, q) <=>
               ("free" \in ops /\ Contains(finishedQ, q)) \/ Has(Tail(todo), ops, q))
  BY <1>1, <1>2, <1>5, HasThen DEF TakeAndFree, TakingToFree, At
<1> QED BY <1>3, <1>4, <1>5

\* The calls that clear the queue push a delivery (or a release) for each
\* execution that was in it.
LEMMA ClearQueueStack ==
  ASSUME TypeOK, NEW ops, NEW q \in Queries, NEW op \in Holding,
         NEW rest \in Seq(Items), ~Has(rest, ops, q), ClearQueue(op, rest)
  PROVE  Has(todo', ops, q) <=> (op \in ops /\ Contains(queue, q)) \/ Has(todo, ops, q)
<1> DEFINE alone == Step("inFlight") \o Step("active")
           pushed == alone \o ForAll(op, queue)
<1>1. /\ todo \in Seq(Items) /\ queue \in Seq(Queries) /\ NoData # q
      /\ Step("inFlight") \in Seq(Items) /\ Step("active") \in Seq(Items)
      /\ ForAll(op, queue) \in Seq(Items)
  BY NoDataAssumption, ItemTyped, ForAllTyped DEF TypeOK, AloneOps
<1>2. alone \in Seq(Items) /\ pushed \in Seq(Items) /\ pushed \o rest \in Seq(Items)
  BY <1>1, ConcatProperties
<1>3. ~Has(alone, ops, q)
  <2>1. ~Has(Step("inFlight"), ops, q) /\ ~Has(Step("active"), ops, q)
    BY <1>1, HasOne DEF Step
  <2> QED BY <1>1, <2>1, HasConcat
<1>4. Has(ForAll(op, queue), ops, q) <=> op \in ops /\ Contains(queue, q)
  BY <1>1, HasForAll
<1>5. Call(pushed \o rest)
  BY DEF ClearQueue
<1> HIDE DEF alone
<1>6. Has(pushed, ops, q) <=> op \in ops /\ Contains(queue, q)
  BY <1>1, <1>2, <1>3, <1>4, HasConcat
<1> HIDE DEF pushed
<1>7. Has(pushed \o rest, ops, q) <=> op \in ops /\ Contains(queue, q)
  BY <1>2, <1>6, HasConcat
<1> QED BY <1>1, <1>2, <1>5, <1>7, HasCall

\* ... and nothing else but the steps of a shutdown, which are of no execution.
LEMMA ClearingStack ==
  ASSUME TypeOK, NEW ops, NEW q \in Queries
  PROVE  /\ AbortAll \/ (\E wait \in BOOLEAN : Disconnect(wait)) =>
              (Has(todo', ops, q) <=>
                 ("deliver" \in ops /\ Contains(queue, q)) \/ Has(todo, ops, q))
         /\ Destroy =>
              (Has(todo', ops, q) <=>
                 ("free" \in ops /\ Contains(queue, q)) \/ Has(todo, ops, q))
<1>1. /\ <<>> \in Seq(Items) /\ Step("shutdown") \in Seq(Items)
      /\ Step("join") \in Seq(Items) /\ Step("take") \in Seq(Items)
      /\ Step("takeFree") \in Seq(Items) /\ NoData # q
  BY EmptySeq, ItemTyped, NoDataAssumption DEF AloneOps
<1>2. /\ ~Has(<<>>, ops, q) /\ ~Has(Step("shutdown"), ops, q)
      /\ ~Has(Step("join"), ops, q) /\ ~Has(Step("take"), ops, q)
      /\ ~Has(Step("takeFree"), ops, q)
  BY <1>1, HasOne DEF Step
<1>3. ASSUME NEW s \in Seq(Items), NEW t \in Seq(Items), ~Has(s, ops, q), ~Has(t, ops, q)
      PROVE  s \o t \in Seq(Items) /\ ~Has(s \o t, ops, q)
  BY <1>3, ConcatProperties, HasConcat
<1>4. ASSUME AbortAll
      PROVE  Has(todo', ops, q) <=>
               ("deliver" \in ops /\ Contains(queue, q)) \/ Has(todo, ops, q)
  BY <1>1, <1>2, <1>4, ClearQueueStack DEF AbortAll, Holding
<1>5. ASSUME NEW wait \in BOOLEAN, Disconnect(wait)
      PROVE  Has(todo', ops, q) <=>
               ("deliver" \in ops /\ Contains(queue, q)) \/ Has(todo, ops, q)
  <2> DEFINE last == IF wait THEN Step("join") \o Step("take") ELSE <<>>
  <2>1. last \in Seq(Items) /\ ~Has(last, ops, q)
    BY <1>1, <1>2, <1>3
  <2>2. ClearQueue("deliver", Step("shutdown") \o last)
    BY <1>5 DEF Disconnect
  <2> HIDE DEF last
  <2>3. Step("shutdown") \o last \in Seq(Items) /\ ~Has(Step("shutdown") \o last, ops, q)
    BY <1>1, <1>2, <1>3, <2>1
  <2> QED BY <2>2, <2>3, ClearQueueStack DEF Holding
<1>6. ASSUME Destroy
      PROVE  Has(todo', ops, q) <=>
               ("free" \in ops /\ Contains(queue, q)) \/ Has(todo, ops, q)
  <2> DEFINE first == Step("shutdown") \o Step("join")
  <2>1. first \in Seq(Items) /\ ~Has(first, ops, q)
    BY <1>1, <1>2, <1>3
  <2>2. ClearQueue("free", first \o Step("takeFree"))
    BY <1>6 DEF Destroy
  <2> HIDE DEF first
  <2>3. first \o Step("takeFree") \in Seq(Items) /\ ~Has(first \o Step("takeFree"), ops, q)
    BY <1>1, <1>2, <1>3, <2>1
  <2> QED BY <2>2, <2>3, ClearQueueStack DEF Holding
<1> QED BY <1>4, <1>5, <1>6

\* setFinished at most wakes up the wait at the top of the stack.
LEMMA NotifyStack ==
  ASSUME TypeOK, NEW ops, NEW q \in Queries, Notify
  PROVE  \/ todo' = todo
         \/ /\ todo # <<>> /\ todo[1].op = "sleep" /\ todo[1].of = wcur
            /\ todo'[1].op = "block" /\ todo'[1].of = wcur
            /\ Has(todo', ops, q) <=> ("block" \in ops /\ wcur = q) \/ Has(Tail(todo), ops, q)
<1>1. CASE At("sleep") /\ todo[1].of = wcur
  <2>1. todo \in Seq(Items) /\ todo # <<>> /\ todo[1].op = "sleep" /\ wcur \in Queries
    BY <1>1, AtTyped DEF TypeOK, WaitOps, At
  <2>2. Item("block", wcur) \in Items /\ Then(<<Item("block", wcur)>>)
    BY <1>1, <2>1, ItemTyped DEF Notify, Then, WaitOps
  <2> QED BY <1>1, <2>1, <2>2, ThenOne
<1>2. CASE ~(At("sleep") /\ todo[1].of = wcur)
  BY <1>2 DEF Notify
<1> QED BY <1>1, <1>2

-----------------------------------------------------------------------------
(* The queue, once closed. *)

\* A closed queue stays closed and empty, and only a failed connection dooms.
LEMMA ClosedStep ==
  TypeOK /\ ClosedForGood /\ DoomedOnlyByFailure /\ [Next]_vars
    => ClosedForGood' /\ DoomedOnlyByFailure'
<1> SUFFICES ASSUME TypeOK, ClosedForGood, DoomedOnlyByFailure, [Next]_vars
             PROVE  ClosedForGood' /\ DoomedOnlyByFailure'
  OBVIOUS
<1> USE DEF ClosedForGood, DoomedOnlyByFailure, dataVars, queueVars,
            dbVars, handVars, workVars, refVars, luaVars,
            serverVars, history, luaSide, allButTodo, allButPC
<1>0. queue \in Seq(Queries) /\ doomed \in Seq(Queries) /\ Len(<<>>) = 0
  BY DEF TypeOK
<1>1. ASSUME NEW q \in Queries, StartQueued(q) \/ StartRefused(q) \/ AbortTaken(q)
      PROVE  ClosedForGood' /\ DoomedOnlyByFailure'
  BY <1>1 DEF StartQueued, StartRefused, AbortTaken
<1>2. ASSUME queue = <<>> => queue' = <<>>, closed' = closed,
             UNCHANGED <<connection, wpc, doomed>>
      PROVE  ClosedForGood' /\ DoomedOnlyByFailure'
  BY <1>2
<1>3. ASSUME NEW q \in Queries, AbortQueued(q) \/ Wait(q)
      PROVE  ClosedForGood' /\ DoomedOnlyByFailure'
  <2>1. queue = <<>> => queue' = <<>>
    BY <1>3, <1>0 DEF AbortQueued, Removed, Wait
  <2> QED BY <1>3, <1>2, <2>1 DEF AbortQueued, Wait
<1>4. CASE CannotWait
  <2>1. queue = <<>> => queue' = <<>>
    BY <1>4, <1>0 DEF CannotWait, Removed
  <2> QED BY <1>4, <1>2, <2>1 DEF CannotWait
<1>5. CASE AbortAll \/ Destroy \/ \E wait \in BOOLEAN : Disconnect(wait)
  BY <1>5 DEF AbortAll, Destroy, Disconnect, ClearQueue
<1>6. CASE Connect
  BY <1>6 DEF Connect, TypeOK, EmptyHanded
<1>7. CASE \/ Think \/ Deliver \/ Release \/ AbortStatus \/ AbortStore \/ Cancel
           \/ CancelActive \/ PQcancelSent \/ PQcancelFailed \/ AbortInFlight
           \/ Shutdown \/ Join \/ TakeFinished \/ TakeAndFree \/ WaitEnter
           \/ WaitStore \/ Block \/ FallAsleep \/ SpuriousWake \/ UNCHANGED vars
  <2>1. UNCHANGED <<queue, closed, connection, wpc, doomed>>
    BY <1>7 DEF Think, Deliver, Release, AbortStatus, AbortStore, Cancel,
       CancelActive,
             RequestCancel, PQcancelSent, PQcancelFailed, AbortInFlight, Shutdown,
             Join, TakeFinished, TakingFinished, TakeAndFree, TakingToFree,
             WaitEnter,
             WaitingIf, WaitStore, FailNow, Block, FallAsleep, SpuriousWake, vars
  <2> QED BY <2>1
<1>8. CASE Close
  BY <1>8 DEF Close, Closing
<1>9. CASE ConnectSucceeds
  BY <1>9, <1>0 DEF ConnectSucceeds, Goto, TypeOK
<1>10. CASE ConnectFails
  BY <1>10, <1>0 DEF ConnectFails, Goto, TypeOK
<1>11. CASE StopWaits
  BY <1>11, <1>0 DEF StopWaits, Goto, TypeOK
<1>12. CASE FailClose
  BY <1>12, <1>0 DEF FailClose, FailClosing, Goto, TypeOK
<1>13. CASE Doom
  BY <1>13, <1>0 DEF Doom, Goto, TypeOK
<1>14. CASE DoomDone
  BY <1>14, <1>0 DEF DoomDone, Goto, TypeOK
<1>15. CASE TakeNext
  BY <1>15, <1>0 DEF TakeNext, Goto, TypeOK
<1>16. CASE Exit
  BY <1>16, <1>0 DEF Exit, Goto, TypeOK
<1>17. CASE SetInFlight
  BY <1>17, <1>0 DEF SetInFlight, Goto, TypeOK
<1>18. CASE Check
  BY <1>18, <1>0 DEF Check, Checking, Goto, TypeOK
<1>19. CASE SetRunning
  BY <1>19, <1>0 DEF SetRunning, Goto, TypeOK
<1>20. CASE Execute
  BY <1>20, <1>0 DEF Execute, Goto, TypeOK
<1>21. CASE OpenFails
  BY <1>21, <1>0 DEF OpenFails, Goto, TypeOK
<1>22. CASE StatementOk
  BY <1>22, <1>0 DEF StatementOk, Goto, TypeOK
<1>23. CASE Unguard
  BY <1>23, <1>0 DEF Unguard, Goto, TypeOK
<1>24. CASE Classify
  BY <1>24, <1>0 DEF Classify, Classifying, Goto, TypeOK
<1>25. CASE Settle
  BY <1>25, <1>0 DEF Settle, Settling, Goto, TypeOK
<1>26. CASE Complete
  BY <1>26, <1>0 DEF Complete, Goto, TypeOK
<1>27. CASE Put
  BY <1>27, <1>0 DEF Put, Goto, TypeOK
<1>28. CASE Finish
  BY <1>28, <1>0 DEF Finish, Goto, TypeOK
<1>29. CASE Notify
  BY <1>29, <1>0 DEF Notify, Goto, TypeOK
<1>30. ASSUME NEW o \in {"error", "cancelled", "lost"}, StatementFails(o)
      PROVE  ClosedForGood' /\ DoomedOnlyByFailure'
  BY <1>30 DEF StatementFails, Goto
<1> HIDE DEF ClosedForGood, DoomedOnlyByFailure
<1> QED BY <1>1, <1>3, <1>4, <1>5, <1>6, <1>7, <1>8, <1>9, <1>10, <1>11,
          <1>12, <1>13, <1>14, <1>15, <1>16, <1>17, <1>18, <1>19, <1>20,
          <1>21, <1>22, <1>23, <1>24, <1>25, <1>26, <1>27, <1>28, <1>29, <1>30
       DEF Next, LuaCall, LuaStep, WorkerStep

-----------------------------------------------------------------------------
(* What was never started. *)

\* Only start() and the end of a callback change what a handle is.
LEMMA HandleStep ==
  ASSUME TypeOK, [Next]_vars, NEW q \in Queries
  PROVE  \/ handle'[q] = handle[q]
         \/ handle[q] = "new" /\ (StartQueued(q) \/ StartRefused(q))
         \/ handle'[q] = "released" /\ Release
<1> USE DEF dataVars, queueVars, dbVars, handVars, workVars, refVars, luaVars,
            serverVars, history, luaSide, allButTodo, allButPC
<1> DEFINE G == \/ handle'[q] = handle[q]
                \/ handle[q] = "new" /\ (StartQueued(q) \/ StartRefused(q))
                \/ handle'[q] = "released" /\ Release
<1>1. ASSUME UNCHANGED handle
      PROVE  G
  BY <1>1
<1>2. ASSUME NEW p \in Queries, StartQueued(p) \/ StartRefused(p)
      PROVE  G
  BY <1>2 DEF StartQueued, StartRefused, TypeOK
<1>3. CASE Release
  BY <1>3 DEF Release, TypeOK
<1>4. ASSUME NEW p \in Queries, AbortQueued(p) \/ AbortTaken(p) \/ Wait(p)
      PROVE  G
  BY <1>4 DEF AbortQueued, AbortTaken, Wait
<1>5. CASE \/ Connect \/ Think \/ AbortAll \/ Destroy
           \/ \E wait \in BOOLEAN : Disconnect(wait)
  BY <1>5 DEF Connect, Think, AbortAll, Destroy, Disconnect, ClearQueue
<1>6. CASE LuaStep \/ SpuriousWake \/ UNCHANGED vars
  <2>1. UNCHANGED handle
    BY <1>6 DEF LuaStep, Deliver, AbortStatus, AbortStore, Cancel, CancelActive,
             RequestCancel, PQcancelSent, PQcancelFailed, AbortInFlight, Shutdown,
             Close, Closing, Join, TakeFinished, TakingFinished, TakeAndFree,
             TakingToFree, WaitEnter, WaitingIf, CannotWait, WaitStore, Block,
             FallAsleep, SpuriousWake, vars
  <2> QED BY <2>1
<1>7. CASE WorkerStep
  <2>1. UNCHANGED handle
    BY <1>7 DEF WorkerStep, ConnectSucceeds, ConnectFails, StopWaits,
       FailClose, Doom, DoomDone, TakeNext,
             Exit, SetInFlight, Check, SetRunning, Execute, OpenFails,
             StatementOk, Unguard, Classify, Settle, Complete, Put, Finish,
             Notify,
             FailClosing, Checking, StatementFails, Classifying, Settling
  <2> QED BY <2>1
<1> QED BY <1>2, <1>3, <1>4, <1>5, <1>6, <1>7
       DEF Next, LuaCall

\* No step takes up an execution that was never started.
LEMMA NewStep == TypeOK /\ NewIsNowhere /\ [Next]_vars => NewIsNowhere'
<1> SUFFICES ASSUME TypeOK, NewIsNowhere, [Next]_vars,
                    NEW q \in Queries, handle'[q] = "new"
             PROVE  Nowhere(q)'
  BY DEF NewIsNowhere
<1> USE DEF Nowhere, dataVars, queueVars, dbVars, handVars, workVars,
            refVars, luaVars,
            serverVars, history, luaSide, allButTodo, allButPC
<1>a. handle[q] = "new"
  BY HandleStep DEF StartQueued, StartRefused, TypeOK
<1>b. Nowhere(q)
  BY <1>a DEF NewIsNowhere
<1>c. /\ queue \in Seq(Queries) /\ doomed \in Seq(Queries)
      /\ finishedQ \in Seq(Queries) /\ todo \in Seq(Items)
      /\ q # NoData /\ ~Contains(<<>>, q)
  BY ContainsEmpty, NoDataAssumption DEF TypeOK
<1>d. todo # <<>> => todo[1].of # q /\ ~Has(Tail(todo), Ops, q)
  BY <1>b, <1>c, TopTyped, HasTail DEF Items
<1>1. ASSUME NEW p \in Queries, StartQueued(p) \/ StartRefused(p)
      PROVE  Nowhere(q)'
  <2>1. p # q
    BY <1>1 DEF StartQueued, StartRefused, TypeOK
  <2>2. ~Contains(Append(queue, p), q)
    BY <1>b, <1>c, <2>1, ContainsAppend
  <2>3. CASE StartQueued(p)
    BY <1>b, <2>2, <2>3 DEF StartQueued
  <2>4. CASE StartRefused(p)
    BY <1>b, <2>1, <2>4 DEF StartRefused
  <2> QED BY <1>1, <2>3, <2>4
<1>2. ASSUME NEW p \in Queries, AbortQueued(p)
      PROVE  Nowhere(q)'
  <2>1. p # q /\ ~Contains(queue', q)
    BY <1>2, <1>a, <1>b, <1>c, ContainsRemoveAt DEF AbortQueued, Removed, Live
  <2>2. ~Has(todo', Ops, q)
    BY <1>2, <1>b, <2>1, CallStack DEF AbortQueued, Ops, Holding, AloneOps
  <2> QED BY <1>2, <1>b, <2>1, <2>2 DEF AbortQueued
<1>3. ASSUME NEW p \in Queries, AbortTaken(p)
      PROVE  Nowhere(q)'
  <2>1. p # q
    BY <1>3, <1>a DEF AbortTaken, Live
  <2>2. ~Has(todo', Ops, q)
    BY <1>3, <1>b, <2>1, CallStack DEF AbortTaken, Ops, AbortOps, AloneOps
  <2> QED BY <1>3, <1>b, <2>2 DEF AbortTaken
<1>4. ASSUME NEW p \in Queries, Wait(p)
      PROVE  Nowhere(q)'
  <2>1. p # q
    BY <1>4, <1>a DEF Wait, Live
  <2>2. ~Has(todo', Ops, q) /\ ~Contains(queue', q)
    BY <1>4, <1>b, <1>c, <2>1, WaitCallStack, WaitQueue
  <2> QED BY <1>4, <1>b, <2>2 DEF Wait
<1>5. CASE Connect \/ UNCHANGED vars
  BY <1>5, <1>b DEF Connect, vars
<1>6. CASE Think \/ TakeFinished \/ TakeAndFree
  <2>1. ~Has(todo', Ops, q)
    BY <1>6, <1>b, <1>d, TakeStack
  <2> QED BY <1>6, <1>b, <1>c, <2>1
          DEF Think, TakeFinished, TakingFinished, TakeAndFree, TakingToFree
<1>7. CASE AbortAll \/ Destroy \/ \E wait \in BOOLEAN : Disconnect(wait)
  <2>1. ~Has(todo', Ops, q)
    BY <1>7, <1>b, ClearingStack
  <2>2. q \notin ToSet(queue)
    BY <1>b, <1>c, ContainsToSet
  <2> QED BY <1>7, <1>b, <1>c, <2>1, <2>2 DEF AbortAll, Destroy, Disconnect,
             ClearQueue
<1>8. CASE \/ Release \/ AbortStore \/ PQcancelSent \/ PQcancelFailed \/ Join
           \/ Close \/ WaitStore \/ Shutdown
  <2>1. ~Has(todo', Ops, q) /\ todo[1].of # q
    BY <1>8, <1>d, PopStack
  <2>2. q \notin ToSet(queue)
    BY <1>b, <1>c, ContainsToSet
  <2>3. CASE \/ Release \/ AbortStore \/ PQcancelSent \/ PQcancelFailed \/ Join \/ Shutdown
    BY <1>b, <2>1, <2>3
       DEF Release, AbortStore, PQcancelSent, PQcancelFailed, Join, Shutdown
  <2>4. CASE Close
    BY <1>b, <1>c, <2>1, <2>2, <2>4, ContainsConcat DEF Close, Closing
  <2>5. CASE WaitStore
    <3>1. todo[1].of \in Queries
      BY <1>c, <2>5, AtTyped DEF WaitStore, WaitOps
    <3> QED BY <1>b, <1>c, <2>1, <2>5, <3>1, ContainsAppend DEF WaitStore, FailNow
  <2> QED BY <1>8, <2>3, <2>4, <2>5
<1>9. CASE Deliver
  BY <1>9, <1>b, <1>d, DeliverStack DEF Deliver
<1>10. CASE AbortStatus \/ Cancel
  BY <1>10, <1>b, <1>d, AbortStack DEF AbortStatus, Cancel, RequestCancel
<1>11. CASE CancelActive \/ AbortInFlight
  BY <1>11, <1>b, <1>d, CurrentStack DEF CancelActive, AbortInFlight, RequestCancel
<1>12. CASE WaitEnter \/ CannotWait \/ Block \/ FallAsleep \/ SpuriousWake
  <2>1. ~Has(todo', Ops, q) /\ todo[1].of # q /\ todo[1].of \in Queries
    BY <1>12, <1>d, WaitStack
  <2>2. CASE CannotWait
    <3>1. ~Contains(queue', q)
      BY <1>b, <1>c, <2>2, ContainsRemoveAt DEF CannotWait, Removed
    <3>2. ~Contains(Append(finishedQ, todo[1].of), q)
      BY <1>b, <1>c, <2>1, ContainsAppend
    <3> QED BY <1>b, <2>1, <2>2, <3>1, <3>2 DEF CannotWait, FailNow
  <2>3. CASE WaitEnter \/ Block \/ FallAsleep \/ SpuriousWake
    BY <1>b, <2>1, <2>3 DEF WaitEnter, WaitingIf, Block, FallAsleep, SpuriousWake
  <2> QED BY <1>12, <2>2, <2>3
<1>13. CASE FailClose
  BY <1>13, <1>b, <1>c DEF FailClose, FailClosing
<1>14. CASE Doom
  BY <1>14, <1>b, <1>c, ContainsTail DEF Doom
<1>15. CASE TakeNext
  BY <1>15, <1>b, <1>c, ContainsTail DEF TakeNext
<1>16. CASE Put
  <2>1. wcur \in Queries
    BY <1>16 DEF Put, Goto, TypeOK, EmptyHanded
  <2> QED BY <1>16, <1>b, <1>c, <2>1, ContainsAppend DEF Put
<1>17. CASE Notify
  <2>1. ~Has(todo', Ops, q)
    BY <1>17, <1>b, <1>d, NotifyStack
  <2> QED BY <1>17, <1>b, <1>c, <2>1 DEF Notify
<1>18. CASE \/ ConnectSucceeds \/ ConnectFails \/ StopWaits \/ DoomDone \/ Exit 
           \/ SetInFlight \/ Check \/ SetRunning \/ Execute \/ OpenFails 
           \/ StatementOk \/ Unguard \/ Classify \/ Settle \/ Complete 
           \/ Finish
  BY <1>18, <1>b, <1>c
     DEF ConnectSucceeds, ConnectFails, StopWaits, DoomDone, Exit,
         SetInFlight, Check,
         SetRunning, Execute, OpenFails, StatementOk, Unguard, Classify,
         Settle, Complete, Finish,
         Checking, Classifying, Settling
<1>19. ASSUME NEW o \in {"error", "cancelled", "lost"}, StatementFails(o)
      PROVE  Nowhere(q)'
  BY <1>19, <1>b DEF StatementFails
<1> HIDE DEF Nowhere
<1> QED BY <1>1, <1>2, <1>3, <1>4, <1>5, <1>6, <1>7, <1>8, <1>9, <1>10, <1>11,
          <1>12, <1>13, <1>14, <1>15, <1>16, <1>17, <1>18, <1>19
       DEF Next, LuaCall, LuaStep, WorkerStep

-----------------------------------------------------------------------------
(* What is handed back. *)

\* What is handed back stays so until its callback references are freed.
LEMMA HandedBackIsStable ==
  ASSUME TypeOK, [Next]_vars, NEW q \in Queries,
         Contains(finishedQ, q) \/ Held(q), Live(q)'
  PROVE  Contains(finishedQ', q) \/ Held(q)'
<1> USE DEF Held, dataVars, queueVars, dbVars, handVars, workVars, refVars, luaVars,
            serverVars, history, luaSide, allButTodo, allButPC
<1>a. todo \in Seq(Items) /\ finishedQ \in Seq(Queries)
  BY DEF TypeOK
<1>b. todo # <<>> => (Held(q) <=> \/ todo[1].op \in Holding /\ todo[1].of = q
                                 \/ Has(Tail(todo), Holding, q))
  BY <1>a, HasTail
<1>1. ASSUME UNCHANGED <<todo, finishedQ>>
      PROVE  Contains(finishedQ', q) \/ Held(q)'
  BY <1>1
<1>2. ASSUME NEW p \in Queries, \/ StartQueued(p) \/ StartRefused(p)
                                \/ AbortQueued(p) \/ AbortTaken(p) \/ Wait(p)
      PROVE  Contains(finishedQ', q) \/ Held(q)'
  <2>1. CASE StartQueued(p) \/ StartRefused(p)
    BY <2>1 DEF StartQueued, StartRefused
  <2>2. CASE AbortQueued(p)
    BY <2>2, CallStack DEF AbortQueued, Ops, Holding, AloneOps
  <2>3. CASE AbortTaken(p)
    BY <2>3, CallStack DEF AbortTaken, Ops, AbortOps, AloneOps
  <2>4. CASE Wait(p)
    <3>1. UNCHANGED finishedQ
      BY <2>4 DEF Wait
    <3> QED BY <2>4, <3>1, WaitCallStack
  <2> QED BY <1>2, <2>1, <2>2, <2>3, <2>4
<1>3. CASE Think \/ TakeFinished \/ TakeAndFree
  <2>1. CASE Think
    BY <2>1, TakeStack DEF Holding
  <2>2. CASE TakeFinished
    <3>1. todo[1].op = "take" /\ todo # <<>>
      BY <2>2 DEF TakeFinished, TakingFinished, At
    <3> QED BY <1>b, <2>2, <3>1, TakeStack DEF Holding
  <2>3. CASE TakeAndFree
    <3>1. todo[1].op = "takeFree" /\ todo # <<>>
      BY <2>3 DEF TakeAndFree, TakingToFree, At
    <3> QED BY <1>b, <2>3, <3>1, TakeStack DEF Holding
  <2> QED BY <1>3, <2>1, <2>2, <2>3
<1>4. CASE AbortAll \/ Destroy \/ \E wait \in BOOLEAN : Disconnect(wait)
  <2>1. UNCHANGED finishedQ
    BY <1>4 DEF AbortAll, Destroy, Disconnect, ClearQueue
  <2> QED BY <1>4, <2>1, ClearingStack
<1>5. CASE Release
  <2>1. todo[1].of # q
    BY <1>5 DEF Release, Live, TypeOK
  <2> QED BY <1>5, <1>b, <2>1, PopStack DEF Release
<1>6. CASE \/ AbortStore \/ PQcancelSent \/ PQcancelFailed \/ Join
           \/ Close \/ WaitStore \/ Shutdown
  <2>1. Held(q) => Held(q)'
    <3>1. todo[1].op \notin Holding
      BY <1>6 DEF AbortStore, PQcancelSent, PQcancelFailed, Join, Close, Closing,
               WaitStore, Shutdown, At, Holding
    <3> QED BY <1>6, <1>b, <3>1, PopStack
  <2>2. Contains(finishedQ, q) => Contains(finishedQ', q)
    <3>1. CASE Close
      BY <1>a, <3>1, ContainsConcat DEF Close, Closing, TypeOK
    <3>2. CASE WaitStore
      <4>1. todo[1].of \in Queries
        BY <1>a, <3>2, AtTyped DEF WaitStore, WaitOps
      <4> QED BY <1>a, <3>2, <4>1, ContainsAppend DEF WaitStore, FailNow
    <3>3. CASE \/ AbortStore \/ PQcancelSent \/ PQcancelFailed \/ Join \/ Shutdown
      BY <3>3 DEF AbortStore, PQcancelSent, PQcancelFailed, Join, Shutdown
    <3> QED BY <1>6, <3>1, <3>2, <3>3
  <2> HIDE DEF Held
  <2> QED BY <2>1, <2>2
<1>7. CASE Deliver
  <2>1. Live(q) /\ UNCHANGED finishedQ
    BY <1>7 DEF Deliver, Live
  <2> QED BY <1>7, <1>b, <2>1, DeliverStack DEF Holding
<1>8. CASE AbortStatus \/ Cancel \/ CancelActive \/ AbortInFlight
  <2>1. todo # <<>> /\ todo[1].op \notin Holding /\ UNCHANGED finishedQ
    BY <1>8 DEF AbortStatus, Cancel, CancelActive, RequestCancel,
       AbortInFlight, At, Holding
  <2> QED BY <1>8, <1>b, <2>1, AbortStack, CurrentStack
<1>9. CASE WaitEnter \/ CannotWait \/ Block \/ FallAsleep \/ SpuriousWake
  <2>1. /\ todo # <<>> /\ todo[1].op \notin Holding /\ todo[1].of \in Queries
        /\ Has(Tail(todo), Holding, q) => Has(todo', Holding, q)
    BY <1>9, WaitStack DEF WaitOps, Holding
  <2>2. finishedQ' = finishedQ \/ finishedQ' = Append(finishedQ, todo[1].of)
    BY <1>9 DEF WaitEnter, WaitingIf, CannotWait, FailNow, Block, FallAsleep,
       SpuriousWake
  <2>3. Contains(finishedQ, q) => Contains(finishedQ', q)
    <3>1. Contains(finishedQ, q) => Contains(Append(finishedQ, todo[1].of), q)
      BY <1>a, <2>1, ContainsAppend
    <3> QED BY <2>2, <3>1
  <2>4. Held(q) => Held(q)'
    BY <1>b, <2>1
  <2> HIDE DEF Held
  <2> QED BY <2>3, <2>4
<1>10. CASE Put
  <2>1. wcur \in Queries
    BY <1>10 DEF Put, Goto, TypeOK, EmptyHanded
  <2> QED BY <1>10, <1>a, <2>1, ContainsAppend DEF Put
<1>11. CASE Notify
  <2>1. UNCHANGED finishedQ
    BY <1>11 DEF Notify
  <2> QED BY <1>11, <1>b, <2>1, NotifyStack DEF Holding
<1>12. CASE WorkerStep /\ ~Put /\ ~Notify
  BY <1>12 DEF WorkerStep, ConnectSucceeds, ConnectFails, StopWaits,
     FailClose, Doom, DoomDone, TakeNext,
       Exit, SetInFlight, Check, SetRunning, Execute, OpenFails, StatementOk,
       Unguard, Classify, Settle, Complete, Finish,
       FailClosing, Checking, StatementFails, Classifying, Settling
<1>13. CASE Connect \/ UNCHANGED vars
  BY <1>13 DEF Connect, vars
<1> HIDE DEF Held
<1> QED BY <1>2, <1>3, <1>4, <1>5, <1>6, <1>7, <1>8, <1>9, <1>10, <1>11,
          <1>12, <1>13
       DEF Next, LuaCall, LuaStep

\* An execution that is live after a step was live before, or is started by it.
LEMMA LiveStep ==
  ASSUME TypeOK, [Next]_vars, NEW q \in Queries, Live(q)'
  PROVE  Live(q) \/ (handle[q] = "new" /\ StartQueued(q))
BY HandleStep DEF Live, StartRefused, TypeOK

\* Whoever newly finishes an execution has handed it back before.
LEMMA NewlyFinished ==
  ASSUME TypeOK, FinishedIsHandedBack, [Next]_vars,
         NEW q \in Queries, q \in finished' \ finished, Live(q), Live(q)'
  PROVE  Contains(finishedQ', q) \/ Held(q)'
<1> USE DEF dataVars, queueVars, dbVars, handVars, workVars, refVars, luaVars,
            serverVars, history, luaSide, allButTodo, allButPC
<1>a. /\ queue \in Seq(Queries) /\ finishedQ \in Seq(Queries) /\ todo \in Seq(Items)
      /\ q \in ToSet(queue) => Contains(queue, q)
  BY ContainsToSet DEF TypeOK
<1>b. q \notin finished /\ q \in finished'
  OBVIOUS
<1>1. ASSUME UNCHANGED finished
      PROVE  Contains(finishedQ', q) \/ Held(q)'
  BY <1>1, <1>b
<1>2. ASSUME NEW p \in Queries, \/ StartQueued(p) \/ StartRefused(p)
                                \/ AbortQueued(p) \/ AbortTaken(p) \/ Wait(p)
      PROVE  Contains(finishedQ', q) \/ Held(q)'
  <2>1. CASE StartRefused(p)
    BY <1>b, <2>1 DEF StartRefused, Live, TypeOK
  <2>2. CASE AbortQueued(p)
    BY <1>b, <2>2, CallStack DEF AbortQueued, Ops, Holding, AloneOps, Held
  <2>3. CASE StartQueued(p) \/ AbortTaken(p) \/ Wait(p)
    BY <1>b, <2>3 DEF StartQueued, AbortTaken, Wait
  <2> QED BY <1>2, <2>1, <2>2, <2>3
<1>3. CASE AbortAll \/ Destroy \/ \E wait \in BOOLEAN : Disconnect(wait)
  <2>1. Contains(queue, q)
    BY <1>3, <1>a, <1>b DEF AbortAll, Destroy, Disconnect, ClearQueue
  <2> QED BY <1>3, <2>1, ClearingStack DEF Holding, Held
<1>4. CASE Close
  BY <1>4, <1>a, <1>b, ContainsConcat DEF Close, Closing
<1>5. CASE CannotWait \/ WaitStore
  <2>1. /\ todo[1].of \in Queries
    BY <1>5, <1>a, AtTyped DEF CannotWait, WaitStore, WaitOps
  <2>2. finishedQ' = Append(finishedQ, todo[1].of) /\ q = todo[1].of
    BY <1>5, <1>b DEF CannotWait, WaitStore, FailNow
  <2> QED BY <1>a, <2>1, <2>2, ContainsAppend
<1>6. CASE Finish
  <2>1. q = wcur /\ wpc = "finish" /\ UNCHANGED <<finishedQ, todo>>
    BY <1>6, <1>b DEF Finish, Goto
  <2> QED BY <2>1 DEF FinishedIsHandedBack, HandedBack, Held
<1>7. CASE \/ Deliver \/ Release \/ AbortStatus \/ AbortStore \/ Cancel \/ CancelActive
           \/ PQcancelSent \/ PQcancelFailed \/ AbortInFlight \/ Shutdown \/ Join
           \/ TakeFinished \/ TakeAndFree \/ WaitEnter \/ Block \/ FallAsleep
           \/ SpuriousWake
  <2>1. UNCHANGED finished
    BY <1>7 DEF Deliver, Release, AbortStatus, AbortStore, Cancel, CancelActive,
             RequestCancel, PQcancelSent, PQcancelFailed, AbortInFlight, Shutdown,
             Join, TakeFinished, TakingFinished, TakeAndFree, TakingToFree,
             WaitEnter, WaitingIf, Block, FallAsleep, SpuriousWake
  <2> QED BY <1>b, <2>1
<1>8. CASE Connect \/ Think \/ UNCHANGED vars
  BY <1>8, <1>b DEF Connect, Think, vars
<1>9. CASE WorkerStep /\ ~Finish
  <2>1. UNCHANGED finished
    BY <1>9 DEF WorkerStep, ConnectSucceeds, ConnectFails, StopWaits,
       FailClose, Doom, DoomDone, TakeNext,
             Exit, SetInFlight, Check, SetRunning, Execute, OpenFails,
             StatementOk, Unguard, Classify, Settle, Complete, Put, Notify,
             FailClosing, Checking, StatementFails, Classifying, Settling
  <2> QED BY <1>b, <2>1
<1> QED BY <1>2, <1>3, <1>4, <1>5, <1>6, <1>7, <1>8, <1>9
       DEF Next, LuaCall, LuaStep

\* The worker sets finished only after it has put the pair, and so does everybody
\* else: FinishedIsHandedBack is kept.
LEMMA FinishedStep ==
  TypeOK /\ NewIsNowhere /\ FinishedIsHandedBack /\ [Next]_vars => FinishedIsHandedBack'
<1> SUFFICES ASSUME TypeOK, NewIsNowhere, FinishedIsHandedBack, [Next]_vars
             PROVE  FinishedIsHandedBack'
  OBVIOUS
<1> USE DEF dataVars, queueVars, dbVars, handVars, workVars, refVars, luaVars,
            serverVars, history, luaSide, allButTodo, allButPC
<1>1. ASSUME NEW q \in Queries, q \in finished', Live(q)'
      PROVE  Contains(finishedQ', q) \/ Held(q)'
  <2>1. Live(q)
    <3>1. CASE handle[q] = "new" /\ StartQueued(q)
      <4>1. q \notin finished /\ UNCHANGED finished
        BY <3>1 DEF NewIsNowhere, Nowhere, StartQueued
      <4> QED BY <1>1, <4>1
    <3> QED BY <1>1, <3>1, LiveStep
  <2>2. CASE q \in finished
    BY <1>1, <2>1, <2>2, HandedBackIsStable DEF FinishedIsHandedBack, HandedBack
  <2>3. CASE q \notin finished
    BY <1>1, <2>1, <2>3, NewlyFinished
  <2> QED BY <2>2, <2>3
<1>2. ASSUME wpc \in {"finish", "notify"}, UNCHANGED wcur, Live(wcur)'
      PROVE  Contains(finishedQ', wcur) \/ Held(wcur)'
  <2>1. wcur \in Queries
    BY <1>2 DEF TypeOK, EmptyHanded
  <2>2. Live(wcur)
    BY <1>2, <2>1, LiveStep DEF NewIsNowhere, Nowhere
  <2> QED BY <1>2, <2>1, <2>2, HandedBackIsStable DEF FinishedIsHandedBack,
             HandedBack
<1>3. ASSUME wpc' \in {"finish", "notify"}
      PROVE  \/ wpc \in {"finish", "notify"} /\ UNCHANGED wcur
             \/ Put
  <2>1. CASE LuaCall
    BY <1>3, <2>1 DEF LuaCall, StartQueued, StartRefused, AbortQueued,
       AbortTaken, Wait,
                   Connect, Think, AbortAll, Destroy, Disconnect, ClearQueue
  <2>2. CASE LuaStep \/ Release \/ SpuriousWake \/ UNCHANGED vars
    <3>1. UNCHANGED <<wpc, wcur>>
      BY <2>2 DEF LuaStep, Close, Closing, CannotWait, WaitStore, vars,
             Deliver, Release, AbortStatus, AbortStore, Cancel, CancelActive,
             RequestCancel, PQcancelSent, PQcancelFailed, AbortInFlight, Shutdown,
             Join, TakeFinished, TakingFinished, TakeAndFree, TakingToFree,
             WaitEnter, WaitingIf, Block, FallAsleep, SpuriousWake
    <3> QED BY <1>3, <3>1
  <2>3. CASE WorkerStep
    BY <1>3, <2>3
       DEF WorkerStep, ConnectSucceeds, ConnectFails, StopWaits, FailClose,
           Doom, DoomDone, TakeNext,
           Exit, SetInFlight, Check, SetRunning, Execute, OpenFails,
           StatementOk, Unguard, Classify, Settle, Complete, Put, Finish,
           Notify,
           FailClosing, Checking, StatementFails, Classifying, Settling, Goto
  <2> QED BY <2>1, <2>2, <2>3 DEF Next
<1>4. ASSUME Put
      PROVE  Contains(finishedQ', wcur) /\ UNCHANGED wcur
  <2>1. wcur \in Queries /\ finishedQ \in Seq(Queries)
    BY <1>4 DEF Put, Goto, TypeOK, EmptyHanded
  <2> QED BY <1>4, <2>1, ContainsAppend DEF Put
<1> QED BY <1>1, <1>2, <1>3, <1>4, TypeStep DEF FinishedIsHandedBack,
           HandedBack, TypeOK

-----------------------------------------------------------------------------
(* Nothing is lost. *)

\* What leaves the queue is in somebody's hands.
LEMMA QueuedStep ==
  ASSUME TypeOK, [Next]_vars, NEW q \in Queries, Contains(queue, q)
  PROVE  \/ Contains(queue', q) \/ wcur' = q \/ Contains(doomed', q)
         \/ Contains(finishedQ', q) \/ Held(q)'
<1> USE DEF dataVars, queueVars, dbVars, handVars, workVars, refVars, luaVars,
            serverVars, history, luaSide, allButTodo, allButPC
<1>a. /\ queue \in Seq(Queries) /\ finishedQ \in Seq(Queries) /\ todo \in Seq(Items)
  BY DEF TypeOK
<1>b. Contains(queue, q)
  OBVIOUS
<1>1. ASSUME UNCHANGED queue
      PROVE  \/ Contains(queue', q) \/ wcur' = q \/ Contains(doomed', q)
             \/ Contains(finishedQ', q) \/ Held(q)'
  BY <1>1
<1>2. ASSUME NEW p \in Queries, StartQueued(p)
      PROVE  Contains(queue', q)
  BY <1>2, <1>a, ContainsAppend DEF StartQueued
<1>3. ASSUME NEW p \in Queries, AbortQueued(p)
      PROVE  Contains(queue', q) \/ Held(q)'
  <2>1. Contains(queue', q) \/ p = q
    BY <1>3, <1>a, ContainsRemoveAt DEF AbortQueued, Removed
  <2>2. p = q => Has(todo', Holding, q)
    BY <1>3, CallStack DEF AbortQueued, Ops, Holding, AloneOps
  <2> QED BY <2>1, <2>2 DEF Held
<1>4. ASSUME NEW p \in Queries, Wait(p)
      PROVE  Contains(queue', q)
  BY <1>4, <1>a, WaitQueue
<1>5. ASSUME NEW p \in Queries, StartRefused(p) \/ AbortTaken(p)
      PROVE  Contains(queue', q)
  BY <1>5 DEF StartRefused, AbortTaken
<1>6. CASE AbortAll \/ Destroy \/ \E wait \in BOOLEAN : Disconnect(wait)
  BY <1>6, ClearingStack DEF Holding, Held
<1>7. CASE Close
  BY <1>7, <1>a, ContainsConcat DEF Close, Closing
<1>8. CASE CannotWait
  <2>1. CASE Removed(todo[1].of) /\ FailNow(todo[1].of)
    <3>1. todo[1].of \in Queries
      BY <1>8, <1>a, AtTyped DEF CannotWait, WaitOps
    <3>2. Contains(queue', q) \/ q = todo[1].of
      BY <1>a, <2>1, ContainsRemoveAt DEF Removed
    <3>3. Contains(finishedQ', todo[1].of)
      BY <1>a, <2>1, <3>1, ContainsAppend DEF FailNow
    <3> QED BY <3>2, <3>3
  <2>2. CASE UNCHANGED queue
    BY <2>2
  <2> QED BY <1>8, <2>1, <2>2 DEF CannotWait
<1>9. CASE FailClose
  BY <1>9 DEF FailClose, FailClosing
<1>10. CASE TakeNext
  BY <1>10, <1>a, ContainsTail DEF TakeNext
<1>11. CASE \/ Deliver \/ Release \/ AbortStatus \/ AbortStore \/ Cancel \/ CancelActive
           \/ PQcancelSent \/ PQcancelFailed \/ AbortInFlight \/ Shutdown \/ Join
           \/ TakeFinished \/ TakeAndFree \/ WaitEnter \/ Block \/ FallAsleep
           \/ SpuriousWake \/ WaitStore
  <2>1. UNCHANGED queue
    BY <1>11 DEF WaitStore, FailNow, Deliver, Release, AbortStatus,
       AbortStore, Cancel, CancelActive,
             RequestCancel, PQcancelSent, PQcancelFailed, AbortInFlight, Shutdown,
             Join, TakeFinished, TakingFinished, TakeAndFree, TakingToFree,
             WaitEnter, WaitingIf, Block, FallAsleep, SpuriousWake
  <2> QED BY <2>1
<1>12. CASE Connect \/ Think \/ UNCHANGED vars
  BY <1>12 DEF Connect, Think, vars
<1>13. CASE WorkerStep /\ ~FailClose /\ ~TakeNext
  <2>1. UNCHANGED queue
    BY <1>13 DEF WorkerStep, ConnectSucceeds, ConnectFails, StopWaits, Doom,
       DoomDone, Exit, SetInFlight,
             Check, SetRunning, Execute, OpenFails, StatementOk, Unguard,
             Classify, Settle, Complete, Put, Finish, Notify,
             Checking, StatementFails, Classifying, Settling
  <2> QED BY <2>1
<1> QED BY <1>2, <1>3, <1>4, <1>5, <1>6, <1>7, <1>8, <1>9, <1>10, <1>11,
          <1>12, <1>13
       DEF Next, LuaCall, LuaStep

\* What the worker has in its hands, it keeps until it has put it.
LEMMA WorkerStepKeeps ==
  ASSUME TypeOK, DoomedOnlyByFailure, FinishedIsHandedBack, [Next]_vars, NEW q \in Queries,
         Live(q), Live(q)'
  PROVE  /\ wcur = q => wcur' = q \/ Contains(finishedQ', q) \/ Held(q)'
         /\ Contains(doomed, q) => wcur' = q \/ Contains(doomed', q)
<1> USE DEF dataVars, queueVars, dbVars, handVars, workVars, refVars, luaVars,
            serverVars, history, luaSide, allButTodo, allButPC
<1>a. doomed \in Seq(Queries) /\ q # NoData /\ ~Contains(<<>>, q)
  BY NoDataAssumption, ContainsEmpty DEF TypeOK
<1>1. CASE UNCHANGED <<wcur, doomed>>
  BY <1>1
<1>2. CASE Doom \/ TakeNext
  <2>1. wcur # q
    BY <1>2, <1>a DEF Doom, TakeNext, Goto, TypeOK, EmptyHanded
  <2>2. Contains(doomed, q) => wcur' = q \/ Contains(doomed', q)
    BY <1>2, <1>a, ContainsTail DEF Doom, TakeNext
  <2> QED BY <2>1, <2>2
<1>3. CASE FailClose
  <2>1. doomed = <<>> /\ UNCHANGED wcur
    BY <1>3 DEF FailClose, FailClosing, Goto, DoomedOnlyByFailure
  <2> QED BY <1>a, <2>1
<1>4. CASE Notify
  <2>1. wcur = q => Contains(finishedQ, q) \/ Held(q)
    BY <1>4 DEF Notify, Goto, FinishedIsHandedBack, HandedBack
  <2>2. UNCHANGED doomed
    BY <1>4 DEF Notify
  <2> QED BY <2>1, <2>2, HandedBackIsStable
<1>5. CASE LuaCall
  <2>1. UNCHANGED <<wcur, doomed>>
    BY <1>5 DEF LuaCall, StartQueued, StartRefused, AbortQueued, AbortTaken, Wait,
                Connect, Think, AbortAll, Destroy, Disconnect, ClearQueue
  <2> QED BY <1>1, <2>1
<1>6. CASE LuaStep \/ Release \/ SpuriousWake \/ UNCHANGED vars
  <2>1. UNCHANGED <<wcur, doomed>>
    BY <1>6 DEF LuaStep, Close, Closing, CannotWait, WaitStore, FailNow, vars,
             Deliver, Release, AbortStatus, AbortStore, Cancel, CancelActive,
             RequestCancel, PQcancelSent, PQcancelFailed, AbortInFlight, Shutdown,
             Join, TakeFinished, TakingFinished, TakeAndFree, TakingToFree,
             WaitEnter, WaitingIf, Block, FallAsleep, SpuriousWake
  <2> QED BY <1>1, <2>1
<1>7. CASE WorkerStep /\ ~Doom /\ ~TakeNext /\ ~FailClose /\ ~Notify
  <2>1. UNCHANGED <<wcur, doomed>>
    BY <1>7
       DEF WorkerStep, ConnectSucceeds, ConnectFails, StopWaits, DoomDone,
           Exit, SetInFlight, Check,
           SetRunning, Execute, OpenFails, StatementOk, Unguard, Classify,
           Settle, Complete, Put, Finish,
           Checking, StatementFails, Classifying, Settling
  <2> QED BY <1>1, <2>1
<1> QED BY <1>2, <1>3, <1>4, <1>5, <1>6, <1>7 DEF Next

\* NeverLost is kept, from wherever the execution was.
LEMMA NeverLostStep ==
  TypeOK /\ DoomedOnlyByFailure /\ FinishedIsHandedBack /\ NeverLost /\ [Next]_vars
    => NeverLost'
<1> SUFFICES ASSUME TypeOK, DoomedOnlyByFailure, FinishedIsHandedBack, NeverLost,
                    [Next]_vars, NEW q \in Queries, Live(q)'
             PROVE  \/ Contains(queue', q) \/ wcur' = q \/ Contains(doomed', q)
                    \/ Contains(finishedQ', q) \/ Held(q)'
  BY DEF NeverLost
<1>1. CASE handle[q] = "new" /\ StartQueued(q)
  <2>1. Contains(queue', q)
    BY <1>1, ContainsAppend DEF StartQueued, TypeOK
  <2> QED BY <2>1
<1>2. CASE Live(q)
  <2>1. \/ Contains(queue, q) \/ wcur = q \/ Contains(doomed, q)
        \/ Contains(finishedQ, q) \/ Held(q)
    BY <1>2 DEF NeverLost
  <2>2. CASE Contains(queue, q)
    BY <2>2, QueuedStep
  <2>3. CASE wcur = q \/ Contains(doomed, q)
    BY <1>2, <2>3, WorkerStepKeeps
  <2>4. CASE Contains(finishedQ, q) \/ Held(q)
    BY <2>4, HandedBackIsStable
  <2> QED BY <2>1, <2>2, <2>3, <2>4
<1> QED BY <1>1, <1>2, LiveStep

-----------------------------------------------------------------------------
(* query:wait() and its think(). *)

\* What is finished stays finished.
LEMMA FinishedGrows == [Next]_vars => finished \subseteq finished'
<1> SUFFICES ASSUME [Next]_vars
             PROVE  finished \subseteq finished'
  OBVIOUS
<1> USE DEF dataVars, queueVars, dbVars, handVars, workVars, refVars, luaVars,
            serverVars, history, luaSide, allButTodo, allButPC
<1>1. CASE LuaCall
  BY <1>1 DEF LuaCall, StartQueued, StartRefused, AbortQueued, AbortTaken, Wait,
              Connect, Think, AbortAll, Destroy, Disconnect, ClearQueue
<1>2. CASE LuaStep \/ Release \/ SpuriousWake \/ UNCHANGED vars
  BY <1>2 DEF LuaStep, Close, Closing, CannotWait, WaitStore, FailNow, vars,
             Deliver, Release, AbortStatus, AbortStore, Cancel, CancelActive,
             RequestCancel, PQcancelSent, PQcancelFailed, AbortInFlight, Shutdown,
             Join, TakeFinished, TakingFinished, TakeAndFree, TakingToFree,
             WaitEnter, WaitingIf, Block, FallAsleep, SpuriousWake
<1>3. CASE WorkerStep
  BY <1>3
     DEF WorkerStep, ConnectSucceeds, ConnectFails, StopWaits, FailClose,
         Doom, DoomDone, TakeNext,
         Exit, SetInFlight, Check, SetRunning, Execute, OpenFails,
         StatementOk, Unguard, Classify, Settle, Complete, Put, Finish,
         Notify,
         FailClosing, Checking, StatementFails, Classifying, Settling
<1> QED BY <1>1, <1>2, <1>3 DEF Next

\* The think() of a wait stays below the wait until the execution is finished.
LEMMA TakeStep == TypeOK /\ TakeAfterWait /\ [Next]_vars => TakeAfterWait'
<1> SUFFICES ASSUME TypeOK, TakeAfterWait, [Next]_vars,
                    NEW q \in Queries, Has(todo', {"take"}, q)
             PROVE  q \in finished' \/ (todo'[1].op \in WaitOps /\ todo'[1].of = q)
  BY DEF TakeAfterWait
<1> USE DEF dataVars, queueVars, dbVars, handVars, workVars, refVars, luaVars,
            serverVars, history, luaSide, allButTodo, allButPC
<1>a. todo \in Seq(Items) /\ finished \subseteq finished'
  BY FinishedGrows DEF TypeOK
<1>b. Has(todo, {"take"}, q) => q \in finished' \/ (todo[1].op \in WaitOps /\ todo[1].of = q)
  BY <1>a DEF TakeAfterWait
<1>c. todo # <<>> /\ Has(Tail(todo), {"take"}, q) => Has(todo, {"take"}, q)
  BY <1>a, HasTail
<1>d. Has(todo', {"take"}, q)
  OBVIOUS
<1>1. CASE UNCHANGED todo
  BY <1>1, <1>b, <1>d
<1>2. ASSUME LuaRuns, Has(todo, {"take"}, q)
      PROVE  q \in finished'
  <2>1. todo # <<>>
    BY <1>2 DEF Has
  <2>2. todo[1].op \notin WaitOps
    BY <1>2, <2>1 DEF LuaRuns, WaitOps
  <2> QED BY <1>2, <1>b, <2>2
<1>3. ASSUME NEW p \in Queries, AbortQueued(p) \/ AbortTaken(p)
      PROVE  q \in finished'
  <2>1. Has(todo, {"take"}, q)
    BY <1>3, <1>d, CallStack DEF AbortQueued, AbortTaken, Ops, Holding,
       AbortOps, AloneOps
  <2> QED BY <1>3, <1>2, <2>1 DEF AbortQueued, AbortTaken, Call
<1>4. ASSUME NEW p \in Queries, Wait(p)
      PROVE  q \in finished' \/ (todo'[1].op \in WaitOps /\ todo'[1].of = q)
  <2>1. CASE p = q
    BY <1>4, <2>1, WaitCallStack DEF WaitOps
  <2>2. CASE p # q
    <3>1. Has(todo, {"take"}, q)
      BY <1>4, <1>d, <2>2, WaitCallStack
    <3> QED BY <1>4, <1>2, <3>1 DEF Wait, Call
  <2> QED BY <2>1, <2>2
<1>5. CASE Think \/ AbortAll \/ Destroy \/ \E wait \in BOOLEAN : Disconnect(wait)
  <2>1. Has(todo, {"take"}, q)
    BY <1>5, <1>d, TakeStack, ClearingStack
  <2>2. LuaRuns
    BY <1>5 DEF Think, AbortAll, Destroy, Disconnect, ClearQueue, Call
  <2> QED BY <1>2, <2>1, <2>2
<1>6. CASE WaitStore
  <2>1. Has(todo, {"take"}, q)
    BY <1>6, <1>c, <1>d, PopStack
  <2> QED BY <1>6, <1>b, <2>1 DEF WaitStore, FailNow
<1>7. CASE \/ Release \/ AbortStore \/ PQcancelSent \/ PQcancelFailed \/ Join
           \/ Close \/ Shutdown \/ Deliver \/ AbortStatus \/ Cancel
           \/ CancelActive \/ AbortInFlight \/ TakeFinished \/ TakeAndFree
  <2>1. todo # <<>> /\ todo[1].op \notin WaitOps
    BY <1>7 DEF Close, Closing, Deliver, Release, AbortStatus, AbortStore,
       Cancel, CancelActive,
             RequestCancel, PQcancelSent, PQcancelFailed, AbortInFlight, Shutdown,
             Join, TakeFinished, TakingFinished, TakeAndFree, TakingToFree,
             WaitEnter, WaitingIf, Block, FallAsleep, SpuriousWake, At, WaitOps
  <2>2. CASE \/ Release \/ AbortStore \/ PQcancelSent \/ PQcancelFailed \/ Join
             \/ Close \/ Shutdown
    BY <1>b, <1>c, <1>d, <2>1, <2>2, PopStack
  <2>3. CASE Deliver \/ TakeFinished \/ TakeAndFree
    BY <1>b, <1>c, <1>d, <2>1, <2>3, DeliverStack, TakeStack
  <2>4. CASE AbortStatus \/ Cancel
    <3>1. Has(Tail(todo), {"take"}, q)
      BY <1>d, <2>4, AbortStack DEF AbortOps
    <3> QED BY <1>b, <1>c, <2>1, <3>1
  <2>5. CASE CancelActive \/ AbortInFlight
    <3>1. Has(Tail(todo), {"take"}, q)
      BY <1>d, <2>5, CurrentStack DEF AbortOps
    <3> QED BY <1>b, <1>c, <2>1, <3>1
  <2> QED BY <1>7, <2>2, <2>3, <2>4, <2>5
<1>8. CASE WaitEnter \/ CannotWait \/ Block \/ FallAsleep \/ SpuriousWake
  <2>1. \/ todo[1].of \in finished'
        \/ todo'[1].op \in WaitOps /\ todo'[1].of = todo[1].of
    BY <1>8, WaitStack
  <2>2. Has(Tail(todo), {"take"}, q) \/ (todo[1].of = q /\ todo'[1].op = "take")
    BY <1>8, <1>d, WaitStack
  <2>3. todo # <<>>
    BY <1>8, WaitStack
  <2> QED BY <1>b, <1>c, <2>1, <2>2, <2>3 DEF WaitOps
<1>9. CASE Notify
  <2>1. \/ todo' = todo
        \/ /\ todo # <<>> /\ todo[1].of = wcur
           /\ todo'[1].op = "block" /\ todo'[1].of = wcur
           /\ Has(Tail(todo), {"take"}, q)
    BY <1>9, <1>d, NotifyStack
  <2> QED BY <1>b, <1>c, <1>d, <2>1 DEF WaitOps
<1>10. CASE Connect \/ (WorkerStep /\ ~Notify) \/ UNCHANGED vars
  <2>1. UNCHANGED todo
    BY <1>10 DEF Connect, vars, WorkerStep, ConnectSucceeds, ConnectFails,
       StopWaits, FailClose, Doom, DoomDone, TakeNext,
             Exit, SetInFlight, Check, SetRunning, Execute, OpenFails,
             StatementOk, Unguard, Classify, Settle, Complete, Put, Finish,
             FailClosing, Checking, StatementFails, Classifying, Settling
  <2> QED BY <1>b, <1>d, <2>1
<1>11. ASSUME NEW p \in Queries, StartQueued(p) \/ StartRefused(p)
      PROVE  UNCHANGED todo
  BY <1>11 DEF StartQueued, StartRefused
<1> QED BY <1>1, <1>3, <1>4, <1>5, <1>6, <1>7, <1>8, <1>9, <1>10, <1>11
       DEF Next, LuaCall, LuaStep

-----------------------------------------------------------------------------
(* The theorems. *)

\* The initial state satisfies the inductive invariant ...
LEMMA InductiveInit == Init => IInv
<1> SUFFICES ASSUME Init
             PROVE  IInv
  OBVIOUS
<1>1. TypeOK
  BY TypeInit
<1>2. \A q \in Queries : ~Contains(<<>>, q) /\ ~Has(<<>>, Ops, q) /\ q # NoData
                          /\ ~Has(<<>>, {"take"}, q)
  BY ContainsEmpty, HasOne, NoDataAssumption
<1>3. NewIsNowhere
  BY <1>2 DEF Init, NewIsNowhere, Nowhere
<1>4. ClosedForGood /\ DoomedOnlyByFailure
  BY DEF Init, ClosedForGood, DoomedOnlyByFailure
<1>5. NeverLost
  BY DEF Init, NeverLost, Live
<1>6. FinishedIsHandedBack
  BY DEF Init, FinishedIsHandedBack
<1>7. TakeAfterWait
  BY <1>2 DEF Init, TakeAfterWait
<1> QED BY <1>1, <1>3, <1>4, <1>5, <1>6, <1>7 DEF IInv

\* ... and every step keeps it.
LEMMA InductiveStep == IInv /\ [Next]_vars => IInv'
BY TypeStep, NewStep, ClosedStep, FinishedStep, NeverLostStep, TakeStep DEF IInv

\* The inductive invariant holds in every reachable state.
THEOREM Inductive == Spec => []IInv
<1>1. Init => IInv
  BY InductiveInit
<1>2. IInv /\ [Next]_vars => IInv'
  BY InductiveStep
<1> QED BY <1>1, <1>2, PTL DEF Spec

\* Every variable keeps its type, for every set of executions and of API calls.
THEOREM TypeCorrect == Spec => []TypeOK
<1>1. IInv => TypeOK
  BY DEF IInv
<1> QED BY <1>1, Inductive, PTL

\* No execution that start() accepted is lost before its callback references are
\* freed (BlockingQueue.h:73-83, QueryWorker.cpp, Database.cpp:310-341).
THEOREM NothingIsLost == Spec => []NeverLost
<1>1. IInv => NeverLost
  BY DEF IInv
<1> QED BY <1>1, Inductive, PTL

\* Nothing is left behind a worker thread that has returned
\* (Database.cpp:42-49, 119-133, 222-248).
THEOREM NothingIsStranded == Spec => []NothingStranded
<1>1. IInv => NothingStranded
  <2> SUFFICES ASSUME IInv, wpc = "done", NEW q \in Queries, Live(q)
               PROVE  Contains(finishedQ, q) \/ Held(q)
    BY DEF NothingStranded
  <2>1. ~Contains(queue, q)
    BY ContainsEmpty DEF IInv, ClosedForGood
  <2>2. wcur # q
    BY NoDataAssumption DEF IInv, TypeOK, EmptyHanded
  <2>3. ~Contains(doomed, q)
    BY ContainsEmpty DEF IInv, DoomedOnlyByFailure
  <2> QED BY <2>1, <2>2, <2>3 DEF IInv, NeverLost
<1> QED BY <1>1, Inductive, PTL

\* The think() that ends query:wait() finds the result it waited for
\* (LuaIQuery.cpp:26-41, Database.cpp:337-338).
THEOREM WaitSeesItsResult == Spec => []WaitSeesResult
<1>1. IInv => WaitSeesResult
  <2> SUFFICES ASSUME IInv, At("take"), todo[1].of # NoData, Live(todo[1].of)
               PROVE  Contains(finishedQ, todo[1].of) \/ Held(todo[1].of)
    BY DEF WaitSeesResult
  <2> DEFINE q == todo[1].of
  <2>1. todo \in Seq(Items) /\ todo # <<>> /\ todo[1].op = "take" /\ q \in Queries
    BY AtTyped DEF IInv, TypeOK, At
  <2>2. Has(todo, {"take"}, q)
    BY <2>1, HasTail
  <2>3. q \in finished
    BY <2>1, <2>2 DEF IInv, TakeAfterWait, WaitOps
  <2> QED BY <2>1, <2>3 DEF IInv, FinishedIsHandedBack, HandedBack
<1> QED BY <1>1, Inductive, PTL

-----------------------------------------------------------------------------
(* What a step does to the Lua thread's stack. *)

\* The steps of which one leaves another in its place.
Moves ==
  {<<"deliver", "callback">>, <<"abortStatus", "abortStore">>, <<"abortStatus", "cancel">>,
   <<"cancel", "pqcancel">>, <<"active", "pqcancel">>, <<"inFlight", "abortStore">>,
   <<"wait", "block">>, <<"wait", "cannotWait">>, <<"cannotWait", "waitStore">>,
   <<"block", "fallAsleep">>, <<"fallAsleep", "sleep">>, <<"sleep", "block">>}

Replaces(op, p) ==
  /\ todo # <<>> /\ Item(op, p) \in Items
  /\ Then(<<Item(op, p)>>)
  /\ <<todo[1].op, op>> \in Moves
  /\ p = todo[1].of \/ (todo[1].op \in Looks /\ p \in {active, inFlight})
  /\ op = "cannotWait" => ~canWait
  /\ op = "waitStore" => CannotWait /\ p \notin finished
                         /\ ~(status[p] = "WAITING" /\ Contains(queue, p))

\* A step whose end leaves nothing on the stack.
Pops ==
  /\ todo # <<>> /\ Then(<<>>)
  /\ todo[1].op \in {"callback", "free"} => Release

\* A step leaves the stack as it is, takes its top away, puts another step in its
\* place, or is one of those that put several steps on it.
LEMMA StackStep ==
  ASSUME TypeOK, [Next]_vars
  PROVE  \/ UNCHANGED todo
         \/ Pops
         \/ \E op \in Ops, p \in Queries : Replaces(op, p)
         \/ /\ Shutdown /\ shuttingDown' /\ asked' = asked \union Started
            /\ Then(Step("active") \o Step("inFlight") \o Step("close"))
         \/ TakeFinished \/ TakeAndFree
         \/ Think \/ AbortAll \/ Destroy \/ (\E wait \in BOOLEAN : Disconnect(wait))
         \/ \E q \in Queries : AbortQueued(q) \/ AbortTaken(q) \/ Wait(q)
<1> DEFINE One  == \E op \in Ops, p \in Queries : Replaces(op, p)
<1> USE DEF dataVars, queueVars, dbVars, handVars, workVars, refVars, luaVars,
            serverVars, history, luaSide, allButTodo, allButPC
<1>a. todo \in Seq(Items)
  BY DEF TypeOK
<1>b. ASSUME NEW op \in Holding \union WaitOps \union AbortOps, NEW p \in Queries, todo # <<>>,
             Then(<<Item(op, p)>>), <<todo[1].op, op>> \in Moves,
             p = todo[1].of \/ (todo[1].op \in Looks /\ p \in {active, inFlight}),
             op = "cannotWait" => ~canWait,
             op = "waitStore" => CannotWait /\ p \notin finished
                                 /\ ~(status[p] = "WAITING" /\ Contains(queue, p))
      PROVE  One
  <2>1. op \in Ops /\ Item(op, p) \in Items
    BY <1>b, ItemTyped DEF Ops
  <2> QED BY <1>b, <2>1 DEF Replaces
<1>c. ASSUME todo # <<>>, Then(<<>>), todo[1].op \notin {"callback", "free"}
      PROVE  Pops
  BY <1>c DEF Pops
<1> HIDE DEF One
<1>1. ASSUME Deliver
      PROVE  UNCHANGED todo \/ Pops \/ One
  <2>1. todo # <<>> /\ todo[1].op = "deliver" /\ todo[1].of \in Queries
    BY <1>1, <1>a, AtTyped DEF Deliver, Holding, At
  <2>2. <<todo[1].op, "callback">> \in Moves /\ "callback" \in Holding
    BY <2>1 DEF Moves, Holding
  <2>3. Then(<<>>) \/ Then(<<Item("callback", todo[1].of)>>)
    BY <1>1 DEF Deliver
  <2> QED BY <2>1, <2>2, <2>3, <1>b, <1>c
<1>2. ASSUME AbortStatus
      PROVE  UNCHANGED todo \/ Pops \/ One
  <2>1. todo # <<>> /\ todo[1].op = "abortStatus" /\ todo[1].of \in Queries
    BY <1>2, <1>a, AtTyped DEF AbortStatus, AbortOps, At
  <2>2. /\ <<todo[1].op, "abortStore">> \in Moves /\ <<todo[1].op, "cancel">> \in Moves
        /\ "abortStore" \in AbortOps /\ "cancel" \in AbortOps
    BY <2>1 DEF Moves, AbortOps
  <2>3. \/ Then(<<>>) \/ Then(<<Item("abortStore", todo[1].of)>>)
        \/ Then(<<Item("cancel", todo[1].of)>>)
    BY <1>2 DEF AbortStatus
  <2> QED BY <2>1, <2>2, <2>3, <1>b, <1>c
<1>3. ASSUME Cancel
      PROVE  UNCHANGED todo \/ Pops \/ One
  <2>1. todo # <<>> /\ todo[1].op = "cancel" /\ todo[1].of \in Queries
    BY <1>3, <1>a, AtTyped DEF Cancel, AbortOps, At
  <2>2. <<todo[1].op, "pqcancel">> \in Moves /\ "pqcancel" \in AbortOps
    BY <2>1 DEF Moves, AbortOps
  <2>3. Then(<<>>) \/ Then(<<Item("pqcancel", todo[1].of)>>)
    BY <1>3 DEF Cancel, RequestCancel
  <2> QED BY <2>1, <2>2, <2>3, <1>b, <1>c
<1>4. ASSUME CancelActive
      PROVE  UNCHANGED todo \/ Pops \/ One
  <2>1. todo # <<>> /\ todo[1].op = "active"
    BY <1>4 DEF CancelActive, At
  <2>2. <<todo[1].op, "pqcancel">> \in Moves /\ "pqcancel" \in AbortOps /\ todo[1].op \in Looks
    BY <2>1 DEF Moves, AbortOps, Looks
  <2>3. Then(<<>>) \/ (active \in Queries /\ Then(<<Item("pqcancel", active)>>))
    BY <1>4 DEF CancelActive, RequestCancel, TypeOK
  <2> QED BY <2>1, <2>2, <2>3, <1>b, <1>c
<1>5. ASSUME AbortInFlight
      PROVE  UNCHANGED todo \/ Pops \/ One
  <2>1. todo # <<>> /\ todo[1].op = "inFlight"
    BY <1>5 DEF AbortInFlight, At
  <2>2. <<todo[1].op, "abortStore">> \in Moves /\ "abortStore" \in AbortOps /\ todo[1].op \in Looks
    BY <2>1 DEF Moves, AbortOps, Looks
  <2>3. Then(<<>>) \/ (inFlight \in Queries /\ Then(<<Item("abortStore", inFlight)>>))
    BY <1>5 DEF AbortInFlight, TypeOK
  <2> QED BY <2>1, <2>2, <2>3, <1>b, <1>c
<1>6. ASSUME WaitEnter
      PROVE  UNCHANGED todo \/ Pops \/ One
  <2>1. todo # <<>> /\ todo[1].op = "wait" /\ todo[1].of \in Queries
    BY <1>6, <1>a, AtTyped DEF WaitEnter, WaitingIf, WaitOps, At
  <2>2. /\ <<todo[1].op, "block">> \in Moves /\ <<todo[1].op, "cannotWait">> \in Moves
        /\ "block" \in WaitOps /\ "cannotWait" \in WaitOps
    BY <2>1 DEF Moves, WaitOps
  <2>3. \/ Then(<<>>) \/ Then(<<Item("block", todo[1].of)>>)
        \/ Then(<<Item("cannotWait", todo[1].of)>>) /\ ~canWait
    BY <1>6 DEF WaitEnter, WaitingIf
  <2> QED BY <2>1, <2>2, <2>3, <1>b, <1>c
<1>7. ASSUME CannotWait
      PROVE  UNCHANGED todo \/ Pops \/ One
  <2>1. todo # <<>> /\ todo[1].op = "cannotWait" /\ todo[1].of \in Queries
    BY <1>7, <1>a, AtTyped DEF CannotWait, WaitOps, At
  <2>2. <<todo[1].op, "waitStore">> \in Moves /\ "waitStore" \in WaitOps
    BY <2>1 DEF Moves, WaitOps
  <2>3. \/ Then(<<>>)
        \/ /\ Then(<<Item("waitStore", todo[1].of)>>) /\ todo[1].of \notin finished
           /\ ~(status[todo[1].of] = "WAITING" /\ Contains(queue, todo[1].of))
    BY <1>7 DEF CannotWait
  <2> QED BY <1>7, <2>1, <2>2, <2>3, <1>b, <1>c
<1>8. ASSUME Block
      PROVE  UNCHANGED todo \/ Pops \/ One
  <2>1. todo # <<>> /\ todo[1].op = "block" /\ todo[1].of \in Queries
    BY <1>8, <1>a, AtTyped DEF Block, WaitOps, At
  <2>2. <<todo[1].op, "fallAsleep">> \in Moves /\ "fallAsleep" \in WaitOps
    BY <2>1 DEF Moves, WaitOps
  <2>3. Then(<<>>) \/ Then(<<Item("fallAsleep", todo[1].of)>>)
    BY <1>8 DEF Block
  <2> QED BY <2>1, <2>2, <2>3, <1>b, <1>c
<1>9. ASSUME FallAsleep
      PROVE  UNCHANGED todo \/ Pops \/ One
  <2>1. todo # <<>> /\ todo[1].op = "fallAsleep" /\ todo[1].of \in Queries
    BY <1>9, <1>a, AtTyped DEF FallAsleep, WaitOps, At
  <2>2. <<todo[1].op, "sleep">> \in Moves /\ "sleep" \in WaitOps
    BY <2>1 DEF Moves, WaitOps
  <2> QED BY <1>9, <2>1, <2>2, <1>b, <1>c DEF FallAsleep
<1>10. ASSUME SpuriousWake
      PROVE  UNCHANGED todo \/ Pops \/ One
  <2>1. todo # <<>> /\ todo[1].op = "sleep" /\ todo[1].of \in Queries
    BY <1>10, <1>a, AtTyped DEF SpuriousWake, WaitOps, At
  <2>2. <<todo[1].op, "block">> \in Moves /\ "block" \in WaitOps
    BY <2>1 DEF Moves, WaitOps
  <2> QED BY <1>10, <2>1, <2>2, <1>b, <1>c DEF SpuriousWake
<1>11. ASSUME Notify
      PROVE  UNCHANGED todo \/ Pops \/ One
  <2>1. CASE At("sleep") /\ todo[1].of = wcur
    <3>1. todo # <<>> /\ todo[1].op = "sleep" /\ todo[1].of \in Queries
      BY <2>1, <1>a, AtTyped DEF WaitOps, At
    <3>2. <<todo[1].op, "block">> \in Moves /\ "block" \in WaitOps
      BY <3>1 DEF Moves, WaitOps
    <3> QED BY <1>11, <2>1, <3>1, <3>2, <1>b, <1>c DEF Notify, Then
  <2>2. CASE ~(At("sleep") /\ todo[1].of = wcur)
    BY <1>11, <2>2 DEF Notify
  <2> QED BY <2>1, <2>2
<1>12. CASE \/ Release \/ AbortStore \/ PQcancelSent \/ PQcancelFailed \/ Join
            \/ Close \/ WaitStore
  BY <1>12, <1>c DEF Pops, Release, AbortStore, PQcancelSent, PQcancelFailed, Join, Close,
                     Closing, WaitStore, At
<1>13. CASE Shutdown
  BY <1>13, <1>c DEF Shutdown, At
<1>14. CASE Connect \/ (WorkerStep /\ ~Notify) \/ UNCHANGED vars
  BY <1>14 DEF Connect, vars, WorkerStep, ConnectSucceeds, ConnectFails, StopWaits,
     FailClose, Doom, DoomDone, TakeNext, Exit, SetInFlight, Check, SetRunning, Execute,
     OpenFails, StatementOk, Unguard, Classify, Settle, Complete, Put, Finish,
     FailClosing, Checking, StatementFails, Classifying, Settling
<1>15. ASSUME NEW q \in Queries, StartQueued(q) \/ StartRefused(q)
      PROVE  UNCHANGED todo
  BY <1>15 DEF StartQueued, StartRefused
<1> QED BY <1>1, <1>2, <1>3, <1>4, <1>5, <1>6, <1>7, <1>8, <1>9, <1>10, <1>11, <1>12, <1>13,
           <1>14, <1>15 DEF Next, LuaCall, LuaStep, One

-----------------------------------------------------------------------------
(* Where the worker is. *)

\* The Lua thread leaves the worker's state alone, but for connect() ...
LEMMA LuaLeavesWorker ==
  ASSUME (LuaCall /\ ~Connect) \/ LuaStep \/ Release \/ SpuriousWake \/ UNCHANGED vars
  PROVE  UNCHANGED <<connection, canWait, inFlight, active, wpc, wcur, doomed, outcome, ran>>
<1> USE DEF dataVars, queueVars, dbVars, handVars, workVars, refVars, luaVars,
            serverVars, history, luaSide, allButTodo, allButPC
<1>1. CASE LuaCall /\ ~Connect
  BY <1>1 DEF LuaCall, StartQueued, StartRefused, AbortQueued, AbortTaken, Wait,
              Think, AbortAll, Destroy, Disconnect, ClearQueue
<1>2. CASE LuaStep \/ Release \/ SpuriousWake \/ UNCHANGED vars
  BY <1>2 DEF LuaStep, Close, Closing, CannotWait, WaitStore, FailNow, vars,
             Deliver, Release, AbortStatus, AbortStore, Cancel, CancelActive,
             RequestCancel, PQcancelSent, PQcancelFailed, AbortInFlight, Shutdown,
             Join, TakeFinished, TakingFinished, TakeAndFree, TakingToFree,
             WaitEnter, WaitingIf, Block, FallAsleep, SpuriousWake
<1> QED BY <1>1, <1>2

\* ... and the worker leaves alone what is the Lua thread's, but for the wait it
\* wakes up.
LEMMA WorkerLeavesLua ==
  ASSUME WorkerStep
  PROVE  UNCHANGED <<handle, destroyed, shuttingDown, asked, heard>> /\ (~Notify => UNCHANGED todo)
BY DEF WorkerStep, ConnectSucceeds, ConnectFails, StopWaits, FailClose, Doom, DoomDone, TakeNext,
   Exit, SetInFlight, Check, SetRunning, Execute, OpenFails, StatementOk, Unguard, Classify,
   Settle, Complete, Put, Finish, Notify, FailClosing, Checking, StatementFails, Classifying,
   Settling, dataVars, queueVars, dbVars, handVars, workVars, refVars, luaVars, serverVars,
   history, luaSide, allButTodo, allButPC

\* The worker's place, its connection and what it publishes go together.
LEMMA WorkerPlaceStep ==
  ASSUME TypeOK, DoomedOnlyByFailure, WorkerPlace, [Next]_vars
  PROVE  WorkerPlace'
<1> USE DEF WorkerPlace, InHand, Goto, dataVars, queueVars, dbVars, handVars, workVars, refVars,
            luaVars, serverVars, history, luaSide, allButTodo, allButPC
<1>a. /\ wpc \in EmptyHanded => wcur = NoData
      /\ wpc \notin EmptyHanded => wcur \in Queries /\ wcur # NoData
      /\ connection \in {"none", "connecting", "up", "failed"}
      /\ wpc = "none" <=> connection = "none"
      /\ wpc \in {"failing", "failClose", "doom"} => connection = "failed"
  BY NoDataAssumption DEF TypeOK, DoomedOnlyByFailure
<1>1. CASE (LuaCall /\ ~Connect) \/ LuaStep \/ Release \/ SpuriousWake \/ UNCHANGED vars
  <2>1. UNCHANGED <<connection, canWait, inFlight, active, wpc, wcur>>
    BY <1>1, LuaLeavesWorker
  <2> QED BY <2>1
<1>2. CASE Connect
  BY <1>2, <1>a DEF Connect, EmptyHanded
<1>3. CASE ConnectSucceeds
  BY <1>3, <1>a DEF ConnectSucceeds, EmptyHanded
<1>4. CASE ConnectFails
  BY <1>4, <1>a DEF ConnectFails, EmptyHanded
<1>5. CASE StopWaits
  BY <1>5, <1>a DEF StopWaits, EmptyHanded
<1>6. CASE FailClose
  BY <1>6, <1>a DEF FailClose, FailClosing, EmptyHanded
<1>7. CASE Doom
  BY <1>7, <1>a DEF Doom, EmptyHanded
<1>8. CASE DoomDone
  BY <1>8, <1>a DEF DoomDone, EmptyHanded
<1>9. CASE TakeNext
  BY <1>9, <1>a DEF TakeNext, EmptyHanded
<1>10. CASE Exit
  BY <1>10, <1>a DEF Exit, EmptyHanded
<1>11. CASE SetInFlight
  BY <1>11, <1>a DEF SetInFlight, EmptyHanded
<1>12. CASE Check
  BY <1>12, <1>a DEF Check, Checking, EmptyHanded
<1>13. CASE SetRunning
  BY <1>13, <1>a DEF SetRunning, EmptyHanded
<1>14. CASE Execute
  BY <1>14, <1>a DEF Execute, EmptyHanded
<1>15. CASE OpenFails
  BY <1>15, <1>a DEF OpenFails, EmptyHanded
<1>16. CASE StatementOk \/ \E o \in {"error", "cancelled", "lost"} : StatementFails(o)
  <2>1. Goto("exec", "unguard") /\ UNCHANGED <<connection, canWait, inFlight, active, wcur>>
    BY <1>16 DEF StatementOk, StatementFails
  <2> QED BY <2>1, <1>a DEF EmptyHanded
<1>17. CASE Unguard
  BY <1>17, <1>a DEF Unguard, EmptyHanded
<1>18. CASE Classify
  BY <1>18, <1>a DEF Classify, Classifying, EmptyHanded
<1>19. CASE Settle
  BY <1>19, <1>a DEF Settle, Settling, EmptyHanded
<1>20. CASE Complete \/ Put \/ Finish
  BY <1>20, <1>a DEF Complete, Put, Finish, EmptyHanded
<1>21. CASE Notify
  BY <1>21, <1>a DEF Notify, EmptyHanded
<1> HIDE DEF WorkerPlace
<1> QED BY <1>1, <1>2, <1>3, <1>4, <1>5, <1>6, <1>7, <1>8, <1>9, <1>10, <1>11, <1>12, <1>13,
           <1>14, <1>15, <1>16, <1>17, <1>18, <1>19, <1>20, <1>21 DEF Next, WorkerStep

-----------------------------------------------------------------------------
(* What the worker reports is what the server did. *)

\* Only start() puts an execution in the queue.
LEMMA QueueShrinks ==
  ASSUME TypeOK, [Next]_vars, NEW q \in Queries, Contains(queue', q)
  PROVE  Contains(queue, q) \/ StartQueued(q)
<1> USE DEF dataVars, queueVars, dbVars, handVars, workVars, refVars, luaVars,
            serverVars, history, luaSide, allButTodo, allButPC
<1>a. queue \in Seq(Queries) /\ ~Contains(<<>>, q)
  BY ContainsEmpty DEF TypeOK
<1>b. Contains(queue', q)
  OBVIOUS
<1>1. ASSUME NEW p \in Queries, StartQueued(p)
      PROVE  Contains(queue, q) \/ StartQueued(q)
  <2>1. Contains(queue, q) \/ p = q
    BY <1>1, <1>a, <1>b, ContainsAppend DEF StartQueued
  <2> QED BY <1>1, <2>1
<1>2. ASSUME NEW p \in Queries, AbortQueued(p)
      PROVE  Contains(queue, q)
  BY <1>2, <1>a, <1>b, ContainsRemoveAt DEF AbortQueued, Removed
<1>3. ASSUME NEW p \in Queries, Wait(p)
      PROVE  Contains(queue, q)
  BY <1>3, <1>a, <1>b, WaitQueue
<1>4. ASSUME NEW p \in Queries, StartRefused(p) \/ AbortTaken(p)
      PROVE  Contains(queue, q)
  BY <1>4, <1>b DEF StartRefused, AbortTaken
<1>5. CASE \/ AbortAll \/ Destroy \/ (\E wait \in BOOLEAN : Disconnect(wait)) \/ Close
           \/ FailClose
  <2>1. queue' = <<>>
    BY <1>5 DEF AbortAll, Destroy, Disconnect, ClearQueue, Close, Closing, FailClose, FailClosing
  <2> QED BY <1>a, <1>b, <2>1
<1>6. CASE CannotWait
  <2>1. UNCHANGED queue \/ \E i \in 1..Len(queue) : queue' = RemoveAt(queue, i)
    BY <1>6 DEF CannotWait, Removed
  <2> QED BY <1>a, <1>b, <2>1, ContainsRemoveAt
<1>7. CASE TakeNext
  BY <1>7, <1>a, <1>b, ContainsTail DEF TakeNext
<1>8. CASE \/ Deliver \/ Release \/ AbortStatus \/ AbortStore \/ Cancel \/ CancelActive
           \/ PQcancelSent \/ PQcancelFailed \/ AbortInFlight \/ Shutdown \/ Join
           \/ TakeFinished \/ TakeAndFree \/ WaitEnter \/ Block \/ FallAsleep
           \/ SpuriousWake \/ WaitStore
  <2>1. UNCHANGED queue
    BY <1>8 DEF WaitStore, FailNow, Deliver, Release, AbortStatus,
       AbortStore, Cancel, CancelActive,
             RequestCancel, PQcancelSent, PQcancelFailed, AbortInFlight, Shutdown,
             Join, TakeFinished, TakingFinished, TakeAndFree, TakingToFree,
             WaitEnter, WaitingIf, Block, FallAsleep, SpuriousWake
  <2> QED BY <1>b, <2>1
<1>9. CASE Connect \/ Think \/ UNCHANGED vars
  BY <1>9, <1>b DEF Connect, Think, vars
<1>10. CASE WorkerStep /\ ~FailClose /\ ~TakeNext
  <2>1. UNCHANGED queue
    BY <1>10 DEF WorkerStep, ConnectSucceeds, ConnectFails, StopWaits, Doom,
       DoomDone, Exit, SetInFlight, Check, SetRunning, Execute, OpenFails, StatementOk, Unguard,
       Classify, Settle, Complete, Put, Finish, Notify, Checking, StatementFails, Classifying,
       Settling
  <2> QED BY <1>b, <2>1
<1> QED BY <1>1, <1>2, <1>3, <1>4, <1>5, <1>6, <1>7, <1>8, <1>9, <1>10
        DEF Next, LuaCall, LuaStep

\* Only Deliver runs a callback.
LEMMA OnlyDeliver ==
  ASSUME [Next]_vars
  PROVE  UNCHANGED heard \/ Deliver
<1> USE DEF dataVars, queueVars, dbVars, handVars, workVars, refVars, luaVars,
            serverVars, history, luaSide, allButTodo, allButPC
<1>1. CASE LuaCall
  BY <1>1 DEF LuaCall, StartQueued, StartRefused, AbortQueued, AbortTaken, Wait, Connect,
              Think, AbortAll, Destroy, Disconnect, ClearQueue
<1>2. CASE LuaStep \/ Release \/ SpuriousWake \/ UNCHANGED vars
  BY <1>2 DEF LuaStep, Close, Closing, CannotWait, WaitStore, FailNow, vars,
             Release, AbortStatus, AbortStore, Cancel, CancelActive,
             RequestCancel, PQcancelSent, PQcancelFailed, AbortInFlight, Shutdown,
             Join, TakeFinished, TakingFinished, TakeAndFree, TakingToFree,
             WaitEnter, WaitingIf, Block, FallAsleep, SpuriousWake
<1>3. CASE WorkerStep
  BY <1>3, WorkerLeavesLua
<1> QED BY <1>1, <1>2, <1>3 DEF Next

\* What is heard was heard, or is what Deliver reports now.
LEMMA HeardStep ==
  ASSUME TypeOK, [Next]_vars, NEW q \in Queries, NEW x, x \in ToSet(heard'[q])
  PROVE  \/ x \in ToSet(heard[q])
         \/ Deliver /\ todo[1].of = q /\ Live(q) /\ Held(q) /\ x = Report(q)
<1>a. todo \in Seq(Items) /\ x \in ToSet(heard'[q])
  BY DEF TypeOK
<1>1. CASE UNCHANGED heard
  BY <1>1
<1>2. CASE Deliver /\ ~UNCHANGED heard
  <2>1. /\ todo # <<>> /\ todo[1].op = "deliver" /\ todo[1].of \in Queries /\ Live(todo[1].of)
        /\ heard' = [heard EXCEPT ![todo[1].of] = Append(heard[todo[1].of], Report(todo[1].of))]
    BY <1>2, <1>a, AtTyped DEF Deliver, Holding, At
  <2>2. CASE todo[1].of # q
    <3>1. heard'[q] = heard[q]
      BY <2>1, <2>2 DEF TypeOK
    <3> QED BY <3>1
  <2>3. CASE todo[1].of = q
    <3>1. heard[q] \in Seq(Reports) /\ Report(q) \in Reports
      BY DEF TypeOK, Report, Reports
    <3>2. heard'[q] = Append(heard[q], Report(q))
      BY <2>1, <2>3 DEF TypeOK
    <3>3. x \in ToSet(heard[q]) \/ x = Report(q)
      <4> DEFINE h == heard[q]
                 r == Report(q)
      <4>1. h \in Seq(Reports) /\ r \in Reports /\ x \in ToSet(Append(h, r))
        BY <1>a, <3>1, <3>2
      <4> HIDE DEF h, r
      <4>2. /\ Append(h, r) \in Seq(Reports)
            /\ Contains(Append(h, r), x) <=> Contains(h, x) \/ x = r
        BY <4>1, ContainsAppend
      <4>3. x \in ToSet(h) \/ x = r
        BY <4>1, <4>2, ContainsToSet
      <4> QED BY <4>3 DEF h, r
    <3>4. Held(q)
      BY <1>a, <2>1, <2>3, HasTail DEF Held, Holding
    <3> QED BY <1>2, <2>1, <2>3, <3>3, <3>4
  <2> QED BY <2>2, <2>3
<1> QED BY <1>1, <1>2, OnlyDeliver

\* The Lua thread stores a result only for an execution that leaves the queue, or
\* when it waits where there is no worker.
LEMMA LuaResults ==
  ASSUME TypeOK, (LuaCall /\ ~Connect) \/ LuaStep \/ Release \/ SpuriousWake \/ UNCHANGED vars
  PROVE  \/ UNCHANGED resultStatus
         \/ /\ todo[1].of \in Queries
            /\ resultStatus' = [resultStatus EXCEPT ![todo[1].of] = "ERROR"]
            /\ (CannotWait /\ Contains(queue, todo[1].of)) \/ WaitStore
<1> USE DEF dataVars, queueVars, dbVars, handVars, workVars, refVars, luaVars,
            serverVars, history, luaSide, allButTodo, allButPC
<1>a. todo \in Seq(Items)
  BY DEF TypeOK
<1>1. CASE LuaCall /\ ~Connect
  BY <1>1 DEF LuaCall, StartQueued, StartRefused, AbortQueued, AbortTaken, Wait,
              Think, AbortAll, Destroy, Disconnect, ClearQueue
<1>2. CASE (LuaStep /\ ~CannotWait /\ ~WaitStore) \/ Release \/ SpuriousWake \/ UNCHANGED vars
  BY <1>2 DEF LuaStep, Close, Closing, vars,
             Deliver, Release, AbortStatus, AbortStore, Cancel, CancelActive,
             RequestCancel, PQcancelSent, PQcancelFailed, AbortInFlight, Shutdown,
             Join, TakeFinished, TakingFinished, TakeAndFree, TakingToFree,
             WaitEnter, WaitingIf, Block, FallAsleep, SpuriousWake
<1>3. CASE WaitStore
  <2>1. todo[1].of \in Queries
    BY <1>3, <1>a, AtTyped DEF WaitStore, WaitOps
  <2> QED BY <1>3, <2>1 DEF WaitStore, FailNow
<1>4. CASE CannotWait
  <2>1. todo[1].of \in Queries
    BY <1>4, <1>a, AtTyped DEF CannotWait, WaitOps
  <2>2. \/ UNCHANGED resultStatus
        \/ /\ Removed(todo[1].of)
           /\ resultStatus' = [resultStatus EXCEPT ![todo[1].of] = "ERROR"]
    BY <1>4 DEF CannotWait, FailNow
  <2> QED BY <1>4, <2>1, <2>2 DEF Removed, Contains
<1> QED BY <1>1, <1>2, <1>3, <1>4

\* What the worker has in its hands is not queued, and nothing was heard of it.
LEMMA NotHeardYet ==
  ASSUME TypeOK, NewIsNowhere, OneHolder, wpc \in InHand
  PROVE  /\ wcur \in Queries /\ handle[wcur] = "live"
         /\ ~Contains(queue, wcur) /\ ~Contains(finishedQ, wcur) /\ ~Held(wcur)
         /\ wcur \notin finished /\ heard[wcur] = <<>>
<1>1. wcur \in Queries
  BY DEF TypeOK, InHand, EmptyHanded
<1>2. NotYet(wcur)
  BY DEF OneHolder
<1>3. Has(todo, {"callback"}, wcur) => Held(wcur)
  BY DEF Has, Held, Holding
<1>4. ~Contains(queue, wcur) /\ (heard[wcur] # <<>> => Has(todo, {"callback"}, wcur))
  BY <1>1, <1>2 DEF OneHolder, NotYet
<1> QED BY <1>1, <1>2, <1>3, <1>4 DEF NotYet, Live

\* A stored result is what happened on the server, and so is a reported one.
LEMMA ResultTrueStep ==
  ASSUME IInv, WorkerPlace, OneAtATime, ResultIsTrue, [Next]_vars
  PROVE  ResultIsTrue'
<1> USE DEF dataVars, queueVars, dbVars, handVars, workVars, refVars, luaVars,
            serverVars, history, luaSide, allButTodo, allButPC
<1> DEFINE Known(q) == /\ resultStatus[q] = "SUCCESS" => ran[q] = "ok"
                       /\ resultStatus[q] = "ERROR" => ran[q] # "ok"
           Fresh(q) == handle[q] = "new" \/ Contains(queue, q) => ran[q] = "none"
           Told(q)  == /\ "SUCCESS" \in ToSet(heard[q]) => ran[q] = "ok"
                       /\ "ERROR" \in ToSet(heard[q]) => ran[q] # "ok"
           Placed   == /\ connection # "up" => \A q \in Queries : ran[q] = "none"
                       /\ wpc \in {"setInFlight", "check", "running", "open", "exec"}
                            => ran[wcur] = "none"
                       /\ wpc = "unguard" => outcome = ran[wcur]
                       /\ wpc = "classify" => ran[wcur] # "ok"
<1>a. TypeOK /\ NewIsNowhere /\ DoomedOnlyByFailure
  BY DEF IInv
<1>b. Placed /\ \A q \in Queries : Known(q) /\ Fresh(q) /\ Told(q)
  BY DEF ResultIsTrue, ResultsAreTrue
<1>c. Placed' /\ (\A q \in Queries : Known(q)' /\ Fresh(q)' /\ Told(q)') => ResultIsTrue'
  BY DEF ResultIsTrue, ResultsAreTrue
<1>d. ASSUME NEW q \in Queries, ran'[q] = ran[q]
      PROVE  Fresh(q)' /\ Told(q)'
  <2>1. Fresh(q)'
    <3>1. handle'[q] = "new" => handle[q] = "new"
      BY <1>a, HandleStep DEF StartQueued, StartRefused, TypeOK
    <3>2. Contains(queue', q) => Contains(queue, q) \/ handle[q] = "new"
      BY <1>a, QueueShrinks DEF StartQueued
    <3> QED BY <1>b, <1>d, <3>1, <3>2
  <2>2. /\ "SUCCESS" \in ToSet(heard'[q]) =>
             "SUCCESS" \in ToSet(heard[q]) \/ "SUCCESS" = Report(q)
        /\ "ERROR" \in ToSet(heard'[q]) =>
             "ERROR" \in ToSet(heard[q]) \/ "ERROR" = Report(q)
    BY <1>a, HeardStep
  <2>3. /\ "SUCCESS" = Report(q) => resultStatus[q] = "SUCCESS"
        /\ "ERROR" = Report(q) => resultStatus[q] = "ERROR"
    BY DEF Report
  <2>4. Told(q)'
    <3> HIDE DEF Fresh
    <3>1. Known(q) /\ Told(q)
      BY <1>b
    <3> QED BY <1>d, <2>2, <2>3, <3>1
  <2> QED BY <2>1, <2>4
<1> HIDE DEF Fresh, Told
<1>e. ASSUME UNCHANGED ran, Placed', \A q \in Queries : Known(q)'
      PROVE  ResultIsTrue'
  BY <1>c, <1>d, <1>e
<1>1. CASE (LuaCall /\ ~Connect) \/ LuaStep \/ Release \/ SpuriousWake \/ UNCHANGED vars
  <2>1. UNCHANGED <<connection, wpc, wcur, outcome, ran>>
    BY <1>1, LuaLeavesWorker
  <2>2. Placed'
    BY <1>b, <2>1
  <2>3. ASSUME NEW q \in Queries
        PROVE  Known(q)'
    <3>1. CASE UNCHANGED resultStatus
      BY <1>b, <2>1, <3>1
    <3>2. CASE /\ todo[1].of \in Queries
               /\ resultStatus' = [resultStatus EXCEPT ![todo[1].of] = "ERROR"]
               /\ (CannotWait /\ Contains(queue, todo[1].of)) \/ WaitStore
      <4>1. ran[todo[1].of] = "none"
        <5>1. WaitStore => connection = "failed"
          BY DEF WaitStore, OneAtATime, WaitsForWorker
        <5> QED BY <1>b, <3>2, <5>1 DEF Fresh
      <4>2. resultStatus \in [Queries -> ResultStatuses]
        BY <1>a DEF TypeOK
      <4> QED BY <1>b, <2>1, <3>2, <4>1, <4>2
    <3> QED BY <1>1, <1>a, <3>1, <3>2, LuaResults
  <2> QED BY <1>e, <2>1, <2>2, <2>3
<1>2. CASE Connect
  <2>1. connection = "none" /\ wpc' = "connecting" /\ connection' = "connecting"
        /\ UNCHANGED <<ran, resultStatus>>
    BY <1>2 DEF Connect
  <2> QED BY <1>b, <1>e, <2>1
<1>3. CASE \/ ConnectSucceeds \/ ConnectFails \/ StopWaits \/ FailClose \/ DoomDone \/ Exit
           \/ Notify
  <2>1. /\ UNCHANGED <<ran, resultStatus>>
        /\ connection' # "up" => connection # "up"
        /\ wpc' \in {"take", "failing", "failClose", "doom", "done"}
    BY <1>3 DEF ConnectSucceeds, ConnectFails, StopWaits, FailClose, FailClosing, DoomDone,
                Exit, Notify, Goto, WorkerPlace
  <2> QED BY <1>b, <1>e, <2>1
<1>4. CASE SetInFlight \/ Check \/ SetRunning \/ Execute \/ Settle \/ Complete \/ Put \/ Finish
  <2>1. /\ UNCHANGED <<ran, resultStatus, connection, wcur>>
        /\ \/ wpc' \in {"complete", "put", "finish", "notify"}
           \/ /\ wpc \in {"setInFlight", "check", "running", "open"}
              /\ wpc' \in {"check", "running", "open", "exec"}
    BY <1>4 DEF SetInFlight, Check, Checking, SetRunning, Execute, Settle, Settling, Complete,
                Put, Finish, Goto
  <2> QED BY <1>b, <1>e, <2>1
<1>5. CASE TakeNext
  <2>1. queue \in Seq(Queries) /\ queue # <<>>
    BY <1>5, <1>a DEF TakeNext, TypeOK
  <2>2. Contains(queue, wcur') /\ wcur' \in Queries
    BY <1>5, <2>1, ContainsTail DEF TakeNext
  <2>3. ran[wcur'] = "none"
    BY <1>b, <2>2 DEF Fresh
  <2>4. wpc' = "setInFlight" /\ UNCHANGED <<ran, resultStatus, connection>>
    BY <1>5 DEF TakeNext, Goto
  <2> QED BY <1>b, <1>e, <2>3, <2>4
<1>6. CASE Doom
  <2>1. connection = "failed" /\ doomed \in Seq(Queries) /\ doomed # <<>>
    BY <1>6, <1>a DEF Doom, DoomedOnlyByFailure, TypeOK
  <2>2. Head(doomed) \in Queries /\ \A q \in Queries : ran[q] = "none"
    BY <1>b, <2>1, ContainsTail
  <2>3. /\ wpc' = "put" /\ UNCHANGED <<ran, connection>>
        /\ resultStatus' = [resultStatus EXCEPT ![Head(doomed)] = "ERROR"]
    BY <1>6 DEF Doom, Goto
  <2>4. resultStatus \in [Queries -> ResultStatuses]
    BY <1>a DEF TypeOK
  <2>5. ASSUME NEW q \in Queries
        PROVE  Known(q)'
    <3>1. Known(q) /\ ran[q] = "none"
      BY <1>b, <2>2
    <3> QED BY <2>2, <2>3, <2>4, <3>1
  <2> QED BY <1>b, <1>e, <2>1, <2>2, <2>3, <2>5
<1>7. CASE OpenFails \/ Unguard
  <2>1. /\ UNCHANGED <<ran, resultStatus, connection, wcur>>
        /\ wpc' = "settle" \/ (wpc' = "classify" /\ wpc = "open")
             \/ (wpc' = "classify" /\ wpc = "unguard" /\ outcome # "ok")
    BY <1>7 DEF OpenFails, Unguard, Goto
  <2> QED BY <1>b, <1>e, <2>1
<1>8. CASE Classify
  <2>1. wpc = "classify" /\ wpc' = "settle" /\ UNCHANGED <<ran, connection>>
        /\ \/ resultStatus' = [resultStatus EXCEPT ![wcur] = "NONE"]
           \/ resultStatus' = [resultStatus EXCEPT ![wcur] = "ERROR"]
    BY <1>8 DEF Classify, Classifying, Goto
  <2>2. resultStatus \in [Queries -> ResultStatuses] /\ ran[wcur] # "ok" /\ wcur \in Queries
    BY <1>a, <1>b, <2>1 DEF TypeOK, EmptyHanded
  <2> QED BY <1>b, <1>e, <2>1, <2>2
<1>9. CASE StatementOk \/ \E o \in {"error", "cancelled", "lost"} : StatementFails(o)
  <2>1. /\ wpc = "exec" /\ wpc' = "unguard" /\ UNCHANGED <<wcur, connection, heard, handle, queue>>
        /\ \/ /\ outcome' = "ok" /\ ran' = [ran EXCEPT ![wcur] = "ok"]
              /\ resultStatus' = [resultStatus EXCEPT ![wcur] = "SUCCESS"]
           \/ /\ outcome' \in {"error", "cancelled", "lost"}
              /\ ran' = [ran EXCEPT ![wcur] = outcome']
              /\ UNCHANGED resultStatus
    BY <1>9 DEF StatementOk, StatementFails, Goto
  <2>2. /\ resultStatus \in [Queries -> ResultStatuses] /\ ran \in [Queries -> Outcomes]
        /\ connection = "up" /\ ran[wcur] = "none"
    BY <1>a, <1>b, <2>1 DEF TypeOK, WorkerPlace, InHand
  <2>3. OneHolder
    BY <2>2 DEF OneAtATime
  <2>4. /\ wcur \in Queries /\ handle[wcur] = "live" /\ ~Contains(queue, wcur)
        /\ heard[wcur] = <<>>
    BY <1>a, <2>1, <2>3, NotHeardYet DEF InHand
  <2>5. \A x : x \notin ToSet(heard[wcur])
    BY <2>4 DEF ToSet
  <2>6. Placed'
    BY <2>1, <2>2, <2>4
  <2>7. ASSUME NEW q \in Queries, q # wcur
        PROVE  Known(q)' /\ Fresh(q)' /\ Told(q)'
    <3>1. ran'[q] = ran[q] /\ resultStatus'[q] = resultStatus[q]
      BY <2>1, <2>2, <2>7
    <3> QED BY <1>b, <1>d, <3>1
  <2>8. Known(wcur)' /\ Fresh(wcur)' /\ Told(wcur)'
    <3>1. Known(wcur)'
      <4>1. Known(wcur)
        BY <1>b, <2>4
      <4> QED BY <2>1, <2>2, <2>4, <4>1
    <3>2. Fresh(wcur)' /\ Told(wcur)'
      BY <2>1, <2>4, <2>5 DEF Fresh, Told
    <3> QED BY <3>1, <3>2
  <2>9. UNCHANGED wcur
    BY <2>1
  <2>10. ASSUME NEW q \in Queries
         PROVE  Known(q)' /\ Fresh(q)' /\ Told(q)'
    <3> HIDE DEF Known
    <3> QED BY <2>7, <2>8, <2>9
  <2> QED BY <1>c, <2>6, <2>10
<1> HIDE DEF Placed, Known
<1> QED BY <1>1, <1>2, <1>3, <1>4, <1>5, <1>6, <1>7, <1>8, <1>9 DEF Next, WorkerStep

-----------------------------------------------------------------------------
(* What is handed back has a result. *)

\* Who newly hands an execution back: to the Lua thread at once ...
GivesToLua(q) ==
  /\ Contains(queue, q)
  /\ AbortQueued(q) \/ AbortAll \/ Destroy \/ \E wait \in BOOLEAN : Disconnect(wait)

\* ... or to the finished ones.
Puts(q) ==
  \/ Contains(queue, q) /\ Close
  \/ CannotWait /\ todo[1].of = q /\ status[q] = "WAITING" /\ Removed(q) /\ FailNow(q)
  \/ WaitStore /\ todo[1].of = q
  \/ Put /\ wcur = q

HandsBack(q) == GivesToLua(q) \/ Puts(q)

\* Nobody else does ...
LEMMA NewlyPut ==
  ASSUME TypeOK, [Next]_vars, NEW q \in Queries, Contains(finishedQ', q)
  PROVE  Contains(finishedQ, q) \/ Puts(q)
<1> USE DEF dataVars, queueVars, dbVars, handVars, workVars, refVars, luaVars,
            serverVars, history, luaSide, allButTodo, allButPC
<1>a. /\ todo \in Seq(Items) /\ finishedQ \in Seq(Queries) /\ queue \in Seq(Queries)
      /\ ~Contains(<<>>, q) /\ Contains(finishedQ', q)
  BY ContainsEmpty DEF TypeOK
<1>1. CASE LuaCall /\ ~Think
  <2>1. UNCHANGED finishedQ
    BY <1>1 DEF LuaCall, StartQueued, StartRefused, AbortQueued, AbortTaken, Wait,
                Connect, AbortAll, Destroy, Disconnect, ClearQueue
  <2> QED BY <1>a, <2>1
<1>2. CASE Think \/ TakeFinished \/ TakeAndFree
  <2>1. finishedQ' = <<>>
    BY <1>2 DEF Think, TakeFinished, TakingFinished, TakeAndFree, TakingToFree
  <2> QED BY <1>a, <2>1
<1>3. CASE Close
  BY <1>3, <1>a, ContainsConcat DEF Close, Closing, Puts
<1>4. CASE CannotWait \/ WaitStore
  <2>1. todo[1].of \in Queries
    BY <1>4, <1>a, AtTyped DEF CannotWait, WaitStore, WaitOps
  <2>2. \/ UNCHANGED finishedQ
        \/ /\ finishedQ' = Append(finishedQ, todo[1].of)
           /\ WaitStore \/ (CannotWait /\ status[todo[1].of] = "WAITING"
                            /\ Removed(todo[1].of) /\ FailNow(todo[1].of))
    BY <1>4 DEF CannotWait, WaitStore, FailNow
  <2>3. CASE UNCHANGED finishedQ
    BY <1>a, <2>3
  <2>4. CASE ~UNCHANGED finishedQ
    <3>1. Contains(finishedQ, q) \/ todo[1].of = q
      <4>1. Contains(Append(finishedQ, todo[1].of), q)
        BY <1>a, <2>2, <2>4
      <4> QED BY <1>a, <2>1, <4>1, ContainsAppend
    <3> QED BY <2>2, <2>4, <3>1 DEF Puts
  <2> QED BY <2>3, <2>4
<1>5. CASE (LuaStep /\ ~CannotWait /\ ~WaitStore /\ ~Close /\ ~TakeFinished /\ ~TakeAndFree)
           \/ Release \/ SpuriousWake \/ UNCHANGED vars
  <2>1. UNCHANGED finishedQ
    BY <1>5 DEF LuaStep, vars,
             Deliver, Release, AbortStatus, AbortStore, Cancel, CancelActive,
             RequestCancel, PQcancelSent, PQcancelFailed, AbortInFlight, Shutdown,
             Join, WaitEnter, WaitingIf, Block, FallAsleep, SpuriousWake
  <2> QED BY <1>a, <2>1
<1>6. CASE Put
  <2>1. wcur \in Queries
    BY <1>6 DEF Put, Goto, TypeOK, EmptyHanded
  <2>2. Contains(finishedQ, q) \/ wcur = q
    BY <1>6, <1>a, <2>1, ContainsAppend DEF Put
  <2> QED BY <1>6, <2>2 DEF Puts
<1>7. CASE WorkerStep /\ ~Put
  <2>1. UNCHANGED finishedQ
    BY <1>7 DEF WorkerStep, ConnectSucceeds, ConnectFails, StopWaits,
       FailClose, Doom, DoomDone, TakeNext,
       Exit, SetInFlight, Check, SetRunning, Execute, OpenFails, StatementOk,
       Unguard, Classify, Settle, Complete, Finish, Notify,
       FailClosing, Checking, StatementFails, Classifying, Settling
  <2> QED BY <1>a, <2>1
<1> QED BY <1>1, <1>2, <1>3, <1>4, <1>5, <1>6, <1>7 DEF Next

\* ... and the Lua thread takes all of the finished ones when it takes them.
LEMMA NewlyHeld ==
  ASSUME TypeOK, [Next]_vars, NEW q \in Queries, Held(q)'
  PROVE  \/ Held(q) \/ GivesToLua(q)
         \/ Contains(finishedQ, q) /\ finishedQ' = <<>>
<1> USE DEF Held, dataVars, queueVars, dbVars, handVars, workVars, refVars, luaVars,
            serverVars, history, luaSide, allButTodo, allButPC
<1> DEFINE P == \/ Has(todo, Holding, q) \/ GivesToLua(q)
                \/ Contains(finishedQ, q) /\ finishedQ' = <<>>
<1>a. todo \in Seq(Items)
  BY DEF TypeOK
<1>b. todo # <<>> => (Has(todo, Holding, q) <=>
                        (todo[1].op \in Holding /\ todo[1].of = q) \/ Has(Tail(todo), Holding, q))
  BY <1>a, HasTail
<1>c. Has(todo', Holding, q)
  BY DEF Held
<1> SUFFICES P
  OBVIOUS
<1>d. /\ "deliver" \in Holding /\ "callback" \in Holding /\ "free" \in Holding
      /\ \A op \in Holding : op \notin WaitOps /\ op \notin AbortOps /\ op # "take"
  BY DEF Holding, WaitOps, AbortOps
<1>1. CASE UNCHANGED todo
  BY <1>1, <1>c
<1>2. CASE Pops
  <2>1. todo # <<>> /\ Then(<<>>)
    BY <1>2 DEF Pops
  <2> QED BY <1>a, <1>b, <1>c, <2>1, ThenNone
<1>3. ASSUME NEW op \in Ops, NEW p \in Queries, Replaces(op, p)
      PROVE  P
  <2>1. todo # <<>> /\ Item(op, p) \in Items /\ Then(<<Item(op, p)>>)
    BY <1>3 DEF Replaces
  <2>2. op \in Holding => todo[1].op \in Holding /\ p = todo[1].of
    BY <1>3 DEF Replaces, Moves, Holding, Looks
  <2>3. (op \in Holding /\ p = q) \/ Has(Tail(todo), Holding, q)
    BY <1>a, <1>c, <2>1, ThenOne
  <2> QED BY <1>b, <2>1, <2>2, <2>3
<1>4. CASE Shutdown
  BY <1>4, <1>b, <1>c, PopStack
<1>5. CASE Think \/ TakeFinished \/ TakeAndFree
  <2>1. finishedQ' = <<>>
    BY <1>5 DEF Think, TakeFinished, TakingFinished, TakeAndFree, TakingToFree
  <2>2. Contains(finishedQ, q) \/ Has(todo, Holding, q)
    BY <1>5, <1>b, <1>c, TakeStack
  <2> QED BY <2>1, <2>2
<1>6. CASE AbortAll \/ Destroy \/ \E wait \in BOOLEAN : Disconnect(wait)
  <2>1. Contains(queue, q) \/ Has(todo, Holding, q)
    BY <1>6, <1>c, ClearingStack
  <2> QED BY <1>6, <2>1 DEF GivesToLua
<1>7. ASSUME NEW p \in Queries, AbortQueued(p)
      PROVE  P
  <2>1. Contains(queue, p)
    BY <1>7 DEF AbortQueued, Removed, Contains
  <2>2. p = q \/ Has(todo, Holding, q)
    BY <1>7, <1>c, CallStack DEF AbortQueued, Ops, Holding, AloneOps
  <2> QED BY <1>7, <2>1, <2>2 DEF GivesToLua
<1>8. ASSUME NEW p \in Queries, AbortTaken(p)
      PROVE  P
  BY <1>8, <1>c, <1>d, CallStack DEF AbortTaken, Ops, AbortOps, AloneOps
<1>9. ASSUME NEW p \in Queries, Wait(p)
      PROVE  P
  BY <1>9, <1>c, WaitCallStack DEF Holding
<1> HIDE DEF P
<1> QED BY <1>1, <1>2, <1>3, <1>4, <1>5, <1>6, <1>7, <1>8, <1>9, StackStep

LEMMA NewlyHandedBack ==
  ASSUME TypeOK, [Next]_vars, NEW q \in Queries, Contains(finishedQ', q) \/ Held(q)'
  PROVE  Contains(finishedQ, q) \/ Held(q) \/ HandsBack(q)
BY NewlyPut, NewlyHeld DEF HandsBack

\* Only start() and the worker, when it is about to execute it, take the outcome of
\* an execution back.
LEMMA SettledStays ==
  ASSUME TypeOK, [Next]_vars, NEW q \in Queries, Settled(q),
         wpc = "complete" => resultStatus[wcur] # "NONE"
  PROVE  Settled(q)' \/ StartQueued(q) \/ (SetRunning /\ q = wcur)
<1> USE DEF Settled, dataVars, queueVars, dbVars, handVars, workVars, refVars, luaVars,
            serverVars, history, luaSide, allButTodo, allButPC
<1>a. /\ todo \in Seq(Items) /\ status \in [Queries -> Statuses]
      /\ resultStatus \in [Queries -> ResultStatuses]
  BY DEF TypeOK
<1>1. ASSUME UNCHANGED resultStatus,
             \E Q \in SUBSET Queries : status' = WithStatus(Q, "ABORTED")
      PROVE  Settled(q)'
  BY <1>1 DEF WithStatus
<1>2. ASSUME UNCHANGED <<status, resultStatus>>
      PROVE  Settled(q)'
  BY <1>2
<1>3. ASSUME NEW p \in Queries, resultStatus' = [resultStatus EXCEPT ![p] = "ERROR"],
             UNCHANGED status \/ status' = [status EXCEPT ![p] = "COMPLETE"]
      PROVE  Settled(q)'
  BY <1>a, <1>3
<1>4. ASSUME NEW p \in Queries, UNCHANGED resultStatus, status' = [status EXCEPT ![p] = "ABORTED"]
      PROVE  Settled(q)'
  BY <1>a, <1>4
<1>5. ASSUME NEW p \in Queries, StartQueued(p)
      PROVE  Settled(q)' \/ StartQueued(q)
  BY <1>a, <1>5 DEF StartQueued
<1>6. ASSUME NEW p \in Queries, StartRefused(p) \/ AbortQueued(p)
      PROVE  Settled(q)'
  <2>1. UNCHANGED resultStatus /\ status' = [status EXCEPT ![p] = "ABORTED"]
    BY <1>6 DEF StartRefused, AbortQueued
  <2> QED BY <1>4, <2>1
<1>7. ASSUME NEW p \in Queries, AbortTaken(p) \/ Wait(p)
      PROVE  Settled(q)'
  BY <1>7 DEF AbortTaken, Wait
<1>8. CASE AbortAll \/ Destroy \/ (\E wait \in BOOLEAN : Disconnect(wait)) \/ Close
  <2>1. UNCHANGED resultStatus /\ status' = WithStatus(ToSet(queue), "ABORTED")
    BY <1>8 DEF AbortAll, Destroy, Disconnect, ClearQueue, Close, Closing
  <2>2. ToSet(queue) \in SUBSET Queries
    BY ContainsToSet DEF TypeOK
  <2> QED BY <1>1, <2>1, <2>2
<1>9. CASE AbortStore
  <2>1. todo[1].of \in Queries
    BY <1>9, <1>a, AtTyped DEF AbortStore, AbortOps
  <2>2. UNCHANGED resultStatus /\ status' = [status EXCEPT ![todo[1].of] = "ABORTED"]
    BY <1>9 DEF AbortStore
  <2> QED BY <1>4, <2>1, <2>2
<1>10. CASE CannotWait \/ WaitStore
  <2>1. todo[1].of \in Queries
    BY <1>10, <1>a, AtTyped DEF CannotWait, WaitStore, WaitOps
  <2>2. \/ UNCHANGED <<status, resultStatus>>
        \/ /\ resultStatus' = [resultStatus EXCEPT ![todo[1].of] = "ERROR"]
           /\ status' = [status EXCEPT ![todo[1].of] = "COMPLETE"]
    BY <1>10 DEF CannotWait, WaitStore, FailNow
  <2> QED BY <1>2, <1>3, <2>1, <2>2
<1>11. CASE (LuaStep /\ ~CannotWait /\ ~WaitStore /\ ~AbortStore /\ ~Close) \/ Release
            \/ SpuriousWake \/ UNCHANGED vars
  <2>1. UNCHANGED <<status, resultStatus>>
    BY <1>11 DEF LuaStep, vars,
             Deliver, Release, AbortStatus, Cancel, CancelActive,
             RequestCancel, PQcancelSent, PQcancelFailed, AbortInFlight, Shutdown,
             Join, TakeFinished, TakingFinished, TakeAndFree, TakingToFree,
             WaitEnter, WaitingIf, Block, FallAsleep, SpuriousWake
  <2> QED BY <1>2, <2>1
<1>12. CASE Connect \/ Think
  BY <1>12 DEF Connect, Think
<1>13. CASE Doom
  <2>1. Head(doomed) \in Queries
    BY <1>13, ContainsTail DEF Doom, TypeOK
  <2> QED BY <1>3, <1>13, <2>1 DEF Doom
<1>14. CASE Check \/ SetRunning \/ StatementOk \/ Classify \/ Complete
  <2>1. wcur \in Queries
    BY <1>14 DEF Check, Checking, SetRunning, StatementOk, Classify, Classifying, Complete,
                 Goto, TypeOK, EmptyHanded
  <2>2. CASE Check
    BY <1>2, <1>4, <2>1, <2>2 DEF Check, Checking
  <2>3. CASE SetRunning
    BY <1>a, <2>1, <2>3 DEF SetRunning
  <2>4. CASE StatementOk
    BY <1>a, <2>1, <2>4 DEF StatementOk
  <2>5. CASE Classify
    BY <1>a, <2>1, <2>5 DEF Classify, Classifying
  <2>6. CASE Complete
    BY <1>a, <2>1, <2>6 DEF Complete, Goto
  <2> QED BY <1>14, <2>2, <2>3, <2>4, <2>5, <2>6
<1>15. CASE WorkerStep /\ ~Doom /\ ~Check /\ ~SetRunning /\ ~StatementOk /\ ~Classify
            /\ ~Complete
  <2>1. UNCHANGED <<status, resultStatus>>
    BY <1>15 DEF WorkerStep, ConnectSucceeds, ConnectFails, StopWaits,
       FailClose, DoomDone, TakeNext, Exit, SetInFlight, Execute, OpenFails,
       Unguard, Settle, Put, Finish, Notify, FailClosing, StatementFails, Settling
  <2> QED BY <1>2, <2>1
<1> HIDE DEF Settled
<1> QED BY <1>5, <1>6, <1>7, <1>8, <1>9, <1>10, <1>11, <1>12, <1>13, <1>14, <1>15
        DEF Next, LuaCall

\* Whoever hands an execution back has given it a result, or aborted it.
LEMMA HandedBackSettled ==
  ASSUME TypeOK, ResultKnown, NEW q \in Queries, HandsBack(q)
  PROVE  Settled(q)'
<1> USE DEF Settled, dataVars, queueVars, dbVars, handVars, workVars, refVars, luaVars,
            serverVars, history, luaSide, allButTodo, allButPC
<1>a. /\ todo \in Seq(Items) /\ status \in [Queries -> Statuses]
      /\ resultStatus \in [Queries -> ResultStatuses]
      /\ Contains(queue, q) => q \in ToSet(queue)
  BY ContainsToSet DEF TypeOK
<1>1. CASE AbortQueued(q)
  BY <1>a, <1>1 DEF AbortQueued
<1>2. CASE /\ Contains(queue, q)
           /\ AbortAll \/ Destroy \/ (\E wait \in BOOLEAN : Disconnect(wait)) \/ Close
  <2>1. status' = WithStatus(ToSet(queue), "ABORTED")
    BY <1>2 DEF AbortAll, Destroy, Disconnect, ClearQueue, Close, Closing
  <2> QED BY <1>a, <1>2, <2>1 DEF WithStatus
<1>3. CASE (CannotWait /\ FailNow(q)) \/ (WaitStore /\ todo[1].of = q)
  BY <1>a, <1>3 DEF WaitStore, FailNow
<1>4. CASE Put /\ wcur = q
  BY <1>4 DEF Put, Goto, ResultKnown
<1> QED BY <1>1, <1>2, <1>3, <1>4 DEF HandsBack, GivesToLua, Puts

\* What is handed back keeps its result, and the worker settles what it hands back.
LEMMA ResultKnownStep ==
  ASSUME IInv, WorkerPlace, OneAtATime, ResultKnown, [Next]_vars
  PROVE  ResultKnown'
<1> USE DEF dataVars, queueVars, dbVars, handVars, workVars, refVars, luaVars,
            serverVars, history, luaSide, allButTodo, allButPC
<1> DEFINE SettledByWorker == wpc \in {"settle", "put", "finish", "notify"} => Settled(wcur)
           ResultOfWorker  == wpc = "complete" \/ (wpc = "unguard" /\ outcome = "ok")
                                => resultStatus[wcur] # "NONE"
<1>a. /\ TypeOK /\ NewIsNowhere /\ SettledByWorker /\ ResultOfWorker
      /\ status \in [Queries -> Statuses] /\ resultStatus \in [Queries -> ResultStatuses]
      /\ wpc \in InHand \union {"finish", "notify"} => wcur \in Queries
  BY DEF IInv, ResultKnown, TypeOK, EmptyHanded, InHand
<1>1. ASSUME NEW q \in Queries, Contains(finishedQ', q) \/ Held(q)'
      PROVE  Settled(q)'
  <2>1. CASE HandsBack(q)
    BY <2>1, <1>a, HandedBackSettled
  <2>2. CASE Contains(finishedQ, q) \/ Held(q)
    <3>1. Settled(q)
      BY <2>2 DEF ResultKnown
    <3>2. ~StartQueued(q)
      <4>1. StartQueued(q) => Nowhere(q)
        BY <1>a DEF StartQueued, NewIsNowhere
      <4>2. Held(q) => Has(todo, Ops, q)
        BY DEF Held, Has, Ops
      <4> QED BY <2>2, <4>1, <4>2 DEF Nowhere
    <3>3. ~(SetRunning /\ q = wcur)
      <4>1. SetRunning => wpc = "running" /\ connection = "up"
        BY DEF SetRunning, Goto, WorkerPlace, InHand
      <4>2. SetRunning => ~Contains(finishedQ, wcur) /\ ~Held(wcur)
        BY <1>a, <4>1, NotHeardYet DEF OneAtATime, InHand
      <4> QED BY <2>2, <4>2
    <3> QED BY <1>a, <3>1, <3>2, <3>3, SettledStays
  <2> QED BY <1>1, <1>a, <2>1, <2>2, NewlyHandedBack
<1>2. NoneNeverDelivered'
  <2> SUFFICES ASSUME NEW q \in Queries, "NONE" \in ToSet(heard'[q])
               PROVE  FALSE
    BY DEF NoneNeverDelivered
  <2>1. "NONE" \notin ToSet(heard[q])
    BY DEF ResultKnown, NoneNeverDelivered
  <2>2. Held(q) /\ "NONE" = Report(q)
    BY <1>a, <2>1, HeardStep
  <2>3. Settled(q)
    BY <2>2 DEF ResultKnown
  <2> QED BY <2>2, <2>3 DEF Report, Settled
<1>3. SettledByWorker' /\ ResultOfWorker'
  <2>1. CASE (LuaCall /\ ~Connect) \/ LuaStep \/ Release \/ SpuriousWake \/ UNCHANGED vars
    <3>1. UNCHANGED <<wpc, wcur, outcome>>
      BY <2>1, LuaLeavesWorker
    <3>2. ASSUME NEW q \in Queries, resultStatus[q] # "NONE"
          PROVE  resultStatus'[q] # "NONE"
      BY <1>a, <2>1, <3>2, LuaResults
    <3>3. SettledByWorker'
      <4> SUFFICES ASSUME wpc \in {"settle", "put", "finish", "notify"}
                   PROVE  Settled(wcur)'
        BY <3>1
      <4>1. wcur \in Queries /\ Settled(wcur) /\ wpc # "complete" /\ wpc # "running"
        BY <1>a DEF InHand
      <4>2. ~StartQueued(wcur)
        BY <1>a, <4>1 DEF StartQueued, NewIsNowhere, Nowhere
      <4>3. ASSUME NEW q \in Queries, q = wcur
            PROVE  Settled(q)'
        BY <1>a, <4>1, <4>2, <4>3, SettledStays DEF SetRunning, Goto
      <4> QED BY <3>1, <4>1, <4>3
    <3>4. ResultOfWorker'
      BY <1>a, <3>1, <3>2 DEF InHand
    <3> QED BY <3>3, <3>4
  <2>2. CASE Connect \/ ConnectSucceeds \/ ConnectFails \/ StopWaits \/ FailClose \/ DoomDone
             \/ Exit \/ Notify \/ TakeNext \/ SetInFlight \/ SetRunning \/ Execute
    <3>1. wpc' \in {"connecting", "take", "failing", "failClose", "doom", "done", "setInFlight",
                    "check", "open", "exec"}
      BY <2>2 DEF Connect, ConnectSucceeds, ConnectFails, StopWaits, FailClose, FailClosing,
         DoomDone, Exit, Notify, TakeNext, SetInFlight, SetRunning, Execute, Goto
    <3> QED BY <3>1
  <2>3. CASE Doom
    <3>1. Head(doomed) \in Queries
      BY <2>3, <1>a, ContainsTail DEF Doom, TypeOK
    <3> QED BY <1>a, <2>3, <3>1 DEF Doom, Goto, Settled
  <2>4. CASE Check
    BY <1>a, <2>4 DEF Check, Checking, Settled, InHand
  <2>5. CASE OpenFails
    BY <2>5 DEF OpenFails, Goto
  <2>6. CASE StatementOk
    BY <1>a, <2>6 DEF StatementOk, Goto, InHand
  <2>7. ASSUME NEW o \in {"error", "cancelled", "lost"}, StatementFails(o)
        PROVE  SettledByWorker' /\ ResultOfWorker'
    BY <2>7 DEF StatementFails, Goto
  <2>8. CASE Unguard
    BY <1>a, <2>8 DEF Unguard, Goto, Settled
  <2>9. CASE Classify
    BY <1>a, <2>9 DEF Classify, Classifying, Goto, Settled, InHand
  <2>10. CASE Settle
    BY <1>a, <2>10 DEF Settle, Settling, Goto, Settled
  <2>11. CASE Complete
    BY <1>a, <2>11 DEF Complete, Goto, Settled
  <2>12. CASE Put \/ Finish
    BY <1>a, <2>12 DEF Put, Finish, Goto, Settled
  <2> HIDE DEF SettledByWorker, ResultOfWorker
  <2> QED BY <2>1, <2>2, <2>3, <2>4, <2>5, <2>6, <2>7, <2>8, <2>9, <2>10, <2>11, <2>12
          DEF Next, WorkerStep
<1> QED BY <1>1, <1>2, <1>3 DEF ResultKnown

-----------------------------------------------------------------------------
(* The order of the steps on the stack. *)

\* The stack s has no step of the kinds ops.
Avoids(s, ops) == \A i \in 1..Len(s) : s[i].op \notin ops

\* In terms of the items it contains.
LEMMA AvoidsIsContains ==
  ASSUME NEW s \in Seq(Items), NEW ops
  PROVE  Avoids(s, ops) <=> \A item \in Items : Contains(s, item) => item.op \notin ops
BY ElementOfSeq, LenProperties DEF Avoids, Contains

\* Steps before others.
LEMMA AvoidsConcat ==
  ASSUME NEW s \in Seq(Items), NEW t \in Seq(Items), NEW ops
  PROVE  Avoids(s \o t, ops) <=> Avoids(s, ops) /\ Avoids(t, ops)
<1>1. /\ s \o t \in Seq(Items)
      /\ \A item : Contains(s \o t, item) <=> Contains(s, item) \/ Contains(t, item)
  BY ContainsConcat
<1>2. Avoids(s \o t, ops) <=> \A item \in Items : Contains(s \o t, item) => item.op \notin ops
  BY <1>1, AvoidsIsContains
<1>3. Avoids(s, ops) <=> \A item \in Items : Contains(s, item) => item.op \notin ops
  BY AvoidsIsContains
<1>4. Avoids(t, ops) <=> \A item \in Items : Contains(t, item) => item.op \notin ops
  BY AvoidsIsContains
<1> QED BY <1>1, <1>2, <1>3, <1>4, Zenon

\* The top and the rest.
LEMMA AvoidsTail ==
  ASSUME NEW s \in Seq(Items), s # <<>>, NEW ops
  PROVE  Avoids(s, ops) <=> s[1].op \notin ops /\ Avoids(Tail(s), ops)
<1>1. /\ Tail(s) \in Seq(Items) /\ s[1] \in Items
      /\ \A item : Contains(s, item) <=> item = s[1] \/ Contains(Tail(s), item)
  BY ContainsTail
<1>2. Avoids(s, ops) <=> \A item \in Items : Contains(s, item) => item.op \notin ops
  BY AvoidsIsContains
<1>3. Avoids(Tail(s), ops) <=>
        \A item \in Items : Contains(Tail(s), item) => item.op \notin ops
  BY <1>1, AvoidsIsContains
<1> QED BY <1>1, <1>2, <1>3, Zenon

\* One step, none, and one for each execution of a sequence.
LEMMA AvoidsOne ==
  ASSUME NEW op, NEW p, NEW ops
  PROVE  /\ Avoids(<<Item(op, p)>>, ops) <=> op \notin ops
         /\ Avoids(<<>>, ops)
BY DEF Avoids, Item

LEMMA AvoidsForAll ==
  ASSUME NEW op \in Holding, NEW s \in Seq(Queries), NEW ops, op \notin ops
  PROVE  ForAll(op, s) \in Seq(Items) /\ Avoids(ForAll(op, s), ops)
<1> DEFINE all == ForAll(op, s)
<1>1. all \in Seq(Items) /\ DOMAIN all = 1..Len(all) /\ DOMAIN all = DOMAIN s
  <2>1. ForAll(op, s) \in Seq(Items) /\ DOMAIN ForAll(op, s) = DOMAIN s
    BY ForAllTyped DEF ForAll
  <2> QED BY <2>1, LenProperties
<1> QED BY <1>1 DEF ForAll, Item, Avoids

\* What the steps of the calls push, when it is nothing for a wait or a look.
LEMMA PushAvoids ==
  ASSUME TypeOK, NEW ops
  PROVE  /\ \A q \in Queries : "wait" \notin ops /\ "take" \notin ops =>
              Avoids(<<Item("wait", q), Item("take", q)>>, ops)
         /\ \A op \in AloneOps \union {"take"} : op \notin ops =>
              Step(op) \in Seq(Items) /\ Avoids(Step(op), ops)
BY ItemTyped, AvoidsOne DEF Avoids, Item, Step

\* The calls that clear the queue push the two looks, then steps of the other kinds.
LEMMA ClearingShape ==
  ASSUME TypeOK, AbortAll \/ Destroy \/ \E wait \in BOOLEAN : Disconnect(wait)
  PROVE  \E op \in {"deliver", "free"}, items, rest, last \in Seq(Items) :
           /\ items = Step("inFlight") \o Step("active")
           /\ LuaRuns /\ todo' = items \o rest \o todo
           /\ Avoids(rest, WaitOps \union AbortOps \union Looks \union {"close"})
           /\ rest = ForAll(op, queue) \o last /\ Avoids(last, Holding)
<1> DEFINE looks == Step("inFlight") \o Step("active")
           low   == WaitOps \union AbortOps \union Looks \union {"close"}
           ops   == low \union Holding
           P     == \E op \in {"deliver", "free"}, items, rest, last \in Seq(Items) :
                      /\ items = looks /\ LuaRuns /\ todo' = items \o rest \o todo
                      /\ Avoids(rest, low)
                      /\ rest = ForAll(op, queue) \o last /\ Avoids(last, Holding)
<1>a. /\ todo \in Seq(Items) /\ queue \in Seq(Queries) /\ <<>> \in Seq(Items)
      /\ Step("inFlight") \in Seq(Items) /\ Step("active") \in Seq(Items)
  BY EmptySeq, ItemTyped DEF TypeOK, AloneOps
<1>b. looks \in Seq(Items)
  BY <1>a, ConcatProperties
<1>c. /\ "shutdown" \notin ops /\ "join" \notin ops /\ "take" \notin ops /\ "takeFree" \notin ops
      /\ "deliver" \notin low /\ "free" \notin low
      /\ "deliver" \in Holding /\ "free" \in Holding
  BY DEF WaitOps, AbortOps, Looks, Holding
<1>f. \A s : Avoids(s, ops) => Avoids(s, low) /\ Avoids(s, Holding)
  BY DEF Avoids
<1> HIDE DEF looks, low, ops, P
<1>d. /\ Step("shutdown") \in Seq(Items) /\ Avoids(Step("shutdown"), ops)
      /\ Step("join") \in Seq(Items) /\ Avoids(Step("join"), ops)
      /\ Step("take") \in Seq(Items) /\ Avoids(Step("take"), ops)
      /\ Step("takeFree") \in Seq(Items) /\ Avoids(Step("takeFree"), ops)
      /\ Avoids(<<>>, ops)
  BY <1>c, PushAvoids, AvoidsOne DEF AloneOps
<1>e. ASSUME NEW s \in Seq(Items), NEW t \in Seq(Items), Avoids(s, ops), Avoids(t, ops)
      PROVE  s \o t \in Seq(Items) /\ Avoids(s \o t, ops)
  BY <1>e, ConcatProperties, AvoidsConcat
<1>1. ASSUME NEW op \in {"deliver", "free"}, NEW last \in Seq(Items), Avoids(last, ops),
             ClearQueue(op, last)
      PROVE  P
  <2> DEFINE all == ForAll(op, queue)
  <2>1. all \in Seq(Items) /\ Avoids(all, low)
    BY <1>a, <1>c, AvoidsForAll
  <2>2. LuaRuns /\ todo' = (looks \o all \o last) \o todo
    BY <1>1 DEF ClearQueue, Call, looks
  <2> HIDE DEF all
  <2>3. all \o last \in Seq(Items) /\ Avoids(all \o last, low) /\ Avoids(last, Holding)
    BY <1>1, <1>f, <2>1, ConcatProperties, AvoidsConcat
  <2>4. looks \o all \o last = looks \o (all \o last)
    BY <1>1, <1>b, <2>1, ConcatAssociative
  <2> QED BY <1>1, <1>b, <2>2, <2>3, <2>4 DEF P, all
<1>2. ASSUME AbortAll
      PROVE  P
  BY <1>1, <1>2, <1>a, <1>d DEF AbortAll
<1>3. ASSUME Destroy
      PROVE  P
  <2> DEFINE first == Step("shutdown") \o Step("join")
  <2>1. first \in Seq(Items) /\ Avoids(first, ops)
    BY <1>d, <1>e
  <2>2. ClearQueue("free", first \o Step("takeFree"))
    BY <1>3 DEF Destroy
  <2> HIDE DEF first
  <2>3. first \o Step("takeFree") \in Seq(Items) /\ Avoids(first \o Step("takeFree"), ops)
    BY <1>d, <1>e, <2>1
  <2> QED BY <1>1, <2>2, <2>3
<1>4. ASSUME NEW wait \in BOOLEAN, Disconnect(wait)
      PROVE  P
  <2> DEFINE last == IF wait THEN Step("join") \o Step("take") ELSE <<>>
  <2>1. last \in Seq(Items) /\ Avoids(last, ops)
    BY <1>a, <1>d, <1>e
  <2>2. ClearQueue("deliver", Step("shutdown") \o last)
    BY <1>4 DEF Disconnect
  <2> HIDE DEF last
  <2>3. Step("shutdown") \o last \in Seq(Items) /\ Avoids(Step("shutdown") \o last, ops)
    BY <1>d, <1>e, <2>1
  <2> QED BY <1>1, <2>2, <2>3
<1>5. P
  BY <1>2, <1>3, <1>4
<1> QED BY <1>5 DEF looks, low, P

\* What is below the top of a stack.
LEMMA BelowTop ==
  ASSUME NEW s \in Seq(Items), NEW ops
  PROVE  (\A i \in 2..Len(s) : s[i].op \notin ops) <=> (s # <<>> => Avoids(Tail(s), ops))
<1>1. Len(s) \in Nat /\ (s = <<>> <=> Len(s) = 0)
  BY LenProperties, EmptySeq
<1>2. CASE s = <<>>
  BY <1>1, <1>2
<1>3. CASE s # <<>>
  <2>1. PICK n \in Nat : n = Len(s)
    BY <1>1
  <2>2. Len(Tail(s)) = n - 1 /\ \A i \in 1..n - 1 : Tail(s)[i] = s[i + 1]
    BY <1>3, <2>1, ContainsTail
  <2>3. ASSUME \A i \in 2..n : s[i].op \notin ops, NEW i \in 1..n - 1
        PROVE  Tail(s)[i].op \notin ops
    <3>1. i + 1 \in 2..n
      BY <2>1
    <3> QED BY <2>2, <2>3, <3>1
  <2>4. ASSUME \A i \in 1..n - 1 : Tail(s)[i].op \notin ops, NEW i \in 2..n
        PROVE  s[i].op \notin ops
    <3>1. i - 1 \in 1..n - 1 /\ (i - 1) + 1 = i
      BY <2>1
    <3>2. Tail(s)[i - 1] = s[i]
      BY <2>2, <3>1
    <3> QED BY <2>4, <3>1, <3>2
  <2> QED BY <1>3, <2>1, <2>2, <2>3, <2>4 DEF Avoids
<1> QED BY <1>2, <1>3

\* What is below the steps put on top of a stack.
LEMMA PushBelow ==
  ASSUME NEW s \in Seq(Items), NEW t \in Seq(Items), NEW ops,
         Avoids(t, ops), s # <<>>, Avoids(Tail(s), ops)
  PROVE  s \o t # <<>> /\ (s \o t)[1] = s[1] /\ Avoids(Tail(s \o t), ops)
<1>1. /\ s \o t # <<>> /\ Tail(s \o t) = Tail(s) \o t /\ Head(s \o t) = Head(s)
      /\ Tail(s) \in Seq(Items) /\ s \o t \in Seq(Items)
  BY ConcatHeadTail, ContainsTail, ConcatProperties
<1>2. Avoids(Tail(s) \o t, ops)
  BY <1>1, AvoidsConcat
<1>3. (s \o t)[1] = s[1]
  <2>1. Head(s \o t) = (s \o t)[1] /\ Head(s) = s[1]
    BY <1>1, ContainsTail
  <2> QED BY <1>1, <2>1
<1> QED BY <1>1, <1>2, <1>3

\* A step that puts no wait on top of the stack leaves none on it, or what there is.
LEMMA NewOnTop ==
  ASSUME TypeOK, WaitsOnTop, [Next]_vars
  PROVE  \/ UNCHANGED todo \/ Avoids(todo', WaitOps)
         \/ \E op \in Ops, p \in Queries : Replaces(op, p)
         \/ \E q \in Queries : Wait(q)
<1>a. /\ todo \in Seq(Items) /\ todo' \in Seq(Items)
      /\ todo # <<>> => Tail(todo) \in Seq(Items) /\ Avoids(Tail(todo), WaitOps)
  BY TodoTyped, BelowTop, ContainsTail DEF WaitsOnTop, TypeOK
<1>d. LuaRuns => Avoids(todo, WaitOps)
  <2>1. todo # <<>> /\ LuaRuns => todo[1].op \notin WaitOps
    BY DEF LuaRuns, WaitOps
  <2>2. todo = <<>> => Avoids(todo, WaitOps)
    BY AvoidsOne
  <2>3. todo # <<>> => (Avoids(todo, WaitOps) <=> todo[1].op \notin WaitOps
                                              /\ Avoids(Tail(todo), WaitOps))
    BY <1>a, AvoidsTail
  <2> QED BY <1>a, <2>1, <2>2, <2>3
<1>f. ASSUME NEW items \in Seq(Items), Avoids(items, WaitOps),
             (Then(items) /\ todo # <<>>) \/ Call(items)
      PROVE  Avoids(todo', WaitOps)
  <2>1. CASE Then(items) /\ todo # <<>>
    BY <1>a, <1>f, <2>1, AvoidsConcat DEF Then
  <2>2. CASE Call(items)
    BY <1>a, <1>d, <1>f, <2>2, AvoidsConcat DEF Call
  <2> QED BY <1>f, <2>1, <2>2
<1>g. "active" \notin WaitOps /\ "inFlight" \notin WaitOps /\ "close" \notin WaitOps
      /\ "deliver" \notin WaitOps /\ "free" \notin WaitOps /\ "take" \notin WaitOps
      /\ "abortStatus" \notin WaitOps
  BY DEF WaitOps
<1>2. ASSUME Pops
      PROVE  Avoids(todo', WaitOps)
  BY <1>2, <1>f, AvoidsOne, EmptySeq DEF Pops
<1>4. ASSUME Shutdown /\ Then(Step("active") \o Step("inFlight") \o Step("close"))
      PROVE  Avoids(todo', WaitOps)
  <2>1. /\ Step("active") \in Seq(Items) /\ Avoids(Step("active"), WaitOps)
        /\ Step("inFlight") \in Seq(Items) /\ Avoids(Step("inFlight"), WaitOps)
        /\ Step("close") \in Seq(Items) /\ Avoids(Step("close"), WaitOps)
    BY <1>g, PushAvoids DEF AloneOps
  <2>2. /\ Step("active") \o Step("inFlight") \in Seq(Items)
        /\ Avoids(Step("active") \o Step("inFlight"), WaitOps)
    BY <2>1, ConcatProperties, AvoidsConcat
  <2>3. /\ Step("active") \o Step("inFlight") \o Step("close") \in Seq(Items)
        /\ Avoids(Step("active") \o Step("inFlight") \o Step("close"), WaitOps)
    BY <2>1, <2>2, ConcatProperties, AvoidsConcat
  <2>4. todo # <<>>
    BY <1>4 DEF Shutdown, At
  <2> QED BY <1>4, <1>f, <2>3, <2>4
<1>5. ASSUME TakeFinished \/ TakeAndFree \/ Think
      PROVE  Avoids(todo', WaitOps)
  <2>1. /\ ForAll("deliver", finishedQ) \in Seq(Items)
        /\ Avoids(ForAll("deliver", finishedQ), WaitOps)
        /\ ForAll("free", finishedQ) \in Seq(Items)
        /\ Avoids(ForAll("free", finishedQ), WaitOps)
    BY <1>g, AvoidsForAll DEF TypeOK, Holding
  <2>2. \/ Call(ForAll("deliver", finishedQ))
        \/ todo # <<>> /\ Then(ForAll("deliver", finishedQ))
        \/ todo # <<>> /\ Then(ForAll("free", finishedQ))
    BY <1>5 DEF TakeFinished, TakingFinished, TakeAndFree, TakingToFree, Think, At
  <2> QED BY <1>f, <2>1, <2>2
<1>6. ASSUME AbortAll \/ Destroy \/ \E wait \in BOOLEAN : Disconnect(wait)
      PROVE  Avoids(todo', WaitOps)
  <2>1. PICK looks \in Seq(Items), rest \in Seq(Items) :
          /\ looks = Step("inFlight") \o Step("active")
          /\ LuaRuns /\ todo' = looks \o rest \o todo
          /\ Avoids(rest, WaitOps \union AbortOps \union Looks \union {"close"})
    BY <1>6, ClearingShape
  <2>2. Avoids(rest, WaitOps)
    BY <2>1 DEF Avoids
  <2>3. Avoids(looks, WaitOps)
    BY <1>g, <2>1, PushAvoids, AvoidsConcat DEF AloneOps
  <2>4. looks \o rest \in Seq(Items) /\ Avoids(looks \o rest, WaitOps)
    BY <2>2, <2>3, ConcatProperties, AvoidsConcat
  <2>5. Avoids(todo', WaitOps)
    BY <1>a, <1>d, <2>1, <2>4, AvoidsConcat
  <2> QED BY <2>5
<1>7. ASSUME NEW q \in Queries, AbortQueued(q) \/ AbortTaken(q)
      PROVE  Avoids(todo', WaitOps)
  <2>1. /\ <<Item("deliver", q)>> \in Seq(Items) /\ <<Item("abortStatus", q)>> \in Seq(Items)
        /\ Avoids(<<Item("deliver", q)>>, WaitOps) /\ Avoids(<<Item("abortStatus", q)>>, WaitOps)
    BY <1>g, ItemTyped, AvoidsOne DEF Holding, AbortOps
  <2> QED BY <1>7, <1>f, <2>1 DEF AbortQueued, AbortTaken
<1> QED BY <1>2, <1>4, <1>5, <1>6, <1>7, StackStep

\* Nothing is put on top of a wait, and only executions that were started are
\* waited for.
LEMMA WaitsOnTopStep ==
  ASSUME TypeOK, WaitsOnTop, [Next]_vars
  PROVE  WaitsOnTop'
<1> USE DEF dataVars, queueVars, dbVars, handVars, workVars, refVars, luaVars,
            serverVars, history, luaSide, allButTodo, allButPC
<1> DEFINE Below == todo # <<>> => Avoids(Tail(todo), WaitOps)
           First == \A op \in WaitOps : At(op) => Live(todo[1].of)
<1>a. /\ todo \in Seq(Items) /\ todo' \in Seq(Items) /\ Below /\ First
      /\ todo # <<>> => Tail(todo) \in Seq(Items) /\ Avoids(Tail(todo), WaitOps)
  BY TodoTyped, BelowTop, ContainsTail DEF WaitsOnTop, TypeOK
<1>b. Below' /\ First' => WaitsOnTop'
  BY <1>a, BelowTop DEF WaitsOnTop
<1>c. Avoids(todo', WaitOps) => Below' /\ First'
  <2>1. todo' # <<>> /\ Avoids(todo', WaitOps) => todo'[1].op \notin WaitOps
                                                /\ Avoids(Tail(todo'), WaitOps)
    BY <1>a, AvoidsTail
  <2> QED BY <2>1 DEF At
<1>d. LuaRuns => Avoids(todo, WaitOps)
  <2>1. todo # <<>> /\ LuaRuns => todo[1].op \notin WaitOps
    BY DEF LuaRuns, WaitOps
  <2>2. todo = <<>> => Avoids(todo, WaitOps)
    BY AvoidsOne
  <2>3. todo # <<>> => (Avoids(todo, WaitOps) <=> todo[1].op \notin WaitOps
                                              /\ Avoids(Tail(todo), WaitOps))
    BY <1>a, AvoidsTail
  <2> QED BY <1>a, <2>1, <2>2, <2>3
<1>e. ASSUME NEW op \in WaitOps, At(op)
      PROVE  handle'[todo[1].of] = "live"
  <2> DEFINE p == todo[1].of
  <2>1. p \in Queries /\ Live(p) /\ ~Release
    BY <1>e, <1>a, AtTyped DEF Release, At, WaitOps
  <2>2. handle'[p] = handle[p] \/ handle[p] = "new" \/ Release
    <3> HIDE DEF p
    <3> QED BY <2>1, HandleStep
  <2> QED BY <2>1, <2>2 DEF Live
<1>1. CASE UNCHANGED todo
  <2>1. First'
    BY <1>1, <1>e DEF At, Live
  <2> QED BY <1>a, <1>b, <1>1, <2>1
<1>2. ASSUME NEW op \in Ops, NEW p \in Queries, Replaces(op, p)
      PROVE  WaitsOnTop'
  <2> DEFINE s == <<Item(op, p)>>
  <2>1. s \in Seq(Items) /\ s # <<>> /\ s[1].op = op /\ s[1].of = p /\ Tail(s) = <<>>
    BY <1>2 DEF Replaces, Item
  <2>2. todo # <<>> /\ todo' = s \o Tail(todo)
    BY <1>2 DEF Replaces, Then
  <2>3. op \in WaitOps => todo[1].op \in WaitOps /\ p = todo[1].of
    BY <1>2 DEF Replaces, Moves, WaitOps, Looks
  <2> HIDE DEF s
  <2>4. todo' # <<>> /\ todo'[1] = s[1] /\ Avoids(Tail(todo'), WaitOps)
    <3>1. Avoids(Tail(s), WaitOps) /\ Tail(todo) \in Seq(Items) /\ Avoids(Tail(todo), WaitOps)
      BY <1>a, <2>1, <2>2, AvoidsOne
    <3> QED BY <2>1, <2>2, <3>1, PushBelow
  <2>5. op \in WaitOps => handle'[p] = "live"
    BY <2>2, <2>3, <1>e DEF At
  <2>6. First'
    BY <2>1, <2>4, <2>5 DEF At, Live
  <2> QED BY <1>b, <2>4, <2>6
<1>3. ASSUME NEW q \in Queries, Wait(q)
      PROVE  WaitsOnTop'
  <2> DEFINE s == <<Item("wait", q), Item("take", q)>>
  <2>1. Item("wait", q) \in Items /\ Item("take", q) \in Items
    BY ItemTyped DEF WaitOps
  <2>2. /\ s \in Seq(Items) /\ s # <<>> /\ s[1].of = q
        /\ Tail(s) = <<Item("take", q)>>
    BY <2>1 DEF Item
  <2>3. LuaRuns /\ todo' = s \o todo /\ Live(q)'
    BY <1>3 DEF Wait, Call, Live
  <2> HIDE DEF s
  <2>4. todo' # <<>> /\ todo'[1] = s[1] /\ Avoids(Tail(todo'), WaitOps)
    <3>1. Avoids(<<Item("take", q)>>, WaitOps) /\ Avoids(todo, WaitOps)
      <4>1. Avoids(<<Item("take", q)>>, WaitOps)
        BY AvoidsOne DEF WaitOps
      <4> QED BY <1>d, <2>3, <4>1
    <3> QED BY <1>a, <2>2, <2>3, <3>1, PushBelow
  <2>5. First'
    BY <2>2, <2>3, <2>4
  <2> QED BY <1>b, <2>4, <2>5
<1> QED BY <1>b, <1>c, <1>1, <1>2, <1>3, NewOnTop

\* The steps that may stand above a look.
Sweep == Looks \union {"abortStore", "pqcancel"}
Sweeps(s) == \A i \in 1..Len(s) : s[i].op \in Sweep

\* A stack without looks, and one step.
LEMMA LooksFirstNone ==
  /\ \A s : Avoids(s, Looks) => LooksFirst(s)
  /\ \A op, p : LooksFirst(<<Item(op, p)>>)
<1>1. ASSUME NEW s, Avoids(s, Looks)
      PROVE  LooksFirst(s)
  BY <1>1 DEF Avoids, LooksFirst
<1>2. ASSUME NEW op, NEW p
      PROVE  LooksFirst(<<Item(op, p)>>)
  BY DEF LooksFirst
<1> QED BY <1>1, <1>2

\* Steps put on a stack, when they keep the looks on top.
LEMMA LooksFirstConcat ==
  ASSUME NEW s \in Seq(Items), NEW t \in Seq(Items), LooksFirst(s), LooksFirst(t),
         Sweeps(s) \/ Avoids(t, Looks)
  PROVE  LooksFirst(s \o t)
<1> DEFINE u == s \o t
<1>1. PICK m \in Nat, n \in Nat : m = Len(s) /\ n = Len(t)
  BY LenProperties
<1>2. /\ u \in Seq(Items) /\ Len(u) = m + n
      /\ \A i \in 1..m + n : u[i] = IF i <= m THEN s[i] ELSE t[i - m]
  BY <1>1, ConcatProperties
<1>3. ASSUME NEW i \in 1..m + n, NEW j \in 1..m + n, u[i].op \in Looks, j < i
      PROVE  u[j].op \in Sweep
  <2>1. CASE i <= m
    <3>1. i \in 1..m /\ j \in 1..m /\ u[i] = s[i] /\ u[j] = s[j]
      BY <1>1, <1>2, <1>3, <2>1
    <3> QED BY <1>1, <1>3, <3>1 DEF LooksFirst, Sweep
  <2>2. CASE ~(i <= m)
    <3>1. i - m \in 1..n /\ u[i] = t[i - m]
      BY <1>1, <1>2, <2>2
    <3>2. Sweeps(s)
      BY <1>1, <1>3, <3>1 DEF Avoids
    <3>3. CASE j <= m
      <4>1. j \in 1..m /\ u[j] = s[j]
        BY <1>1, <1>2, <3>3
      <4> QED BY <1>1, <3>2, <4>1 DEF Sweeps
    <3>4. CASE ~(j <= m)
      <4>1. j - m \in 1..n /\ u[j] = t[j - m] /\ j - m < i - m
        BY <1>1, <1>2, <1>3, <2>2, <3>4
      <4> QED BY <1>1, <1>3, <3>1, <4>1 DEF LooksFirst, Sweep
    <3> QED BY <3>3, <3>4
  <2> QED BY <2>1, <2>2
<1> HIDE DEF u
<1>4. LooksFirst(u)
  BY <1>2, <1>3 DEF LooksFirst, Sweep
<1> QED BY <1>4 DEF u

\* What the top of a stack leaves.
LEMMA LooksFirstTail ==
  ASSUME NEW s \in Seq(Items), s # <<>>, LooksFirst(s)
  PROVE  /\ LooksFirst(Tail(s))
         /\ s[1].op \in Sweep \/ Avoids(Tail(s), Looks)
<1>1. PICK n \in Nat : n = Len(s)
  BY LenProperties
<1>2. Len(Tail(s)) = n - 1 /\ \A i \in 1..n - 1 : Tail(s)[i] = s[i + 1]
  BY <1>1, ContainsTail
<1>3. ASSUME NEW i \in 1..n - 1, NEW j \in 1..n - 1, Tail(s)[i].op \in Looks, j < i
      PROVE  Tail(s)[j].op \in Sweep
  <2>1. i + 1 \in 1..n /\ j + 1 \in 1..n /\ j + 1 < i + 1
    BY <1>1, <1>3
  <2> QED BY <1>1, <1>2, <1>3, <2>1 DEF LooksFirst, Sweep
<1>4. ASSUME NEW i \in 1..n - 1, Tail(s)[i].op \in Looks
      PROVE  s[1].op \in Sweep
  <2>1. i + 1 \in 1..n /\ 1 \in 1..n /\ 1 < i + 1
    BY <1>1
  <2> QED BY <1>1, <1>2, <1>4, <2>1 DEF LooksFirst, Sweep
<1> QED BY <1>2, <1>3, <1>4 DEF LooksFirst, Sweep, Avoids

\* Lua runs only when no look is left.
LEMMA NoLooksInLua ==
  ASSUME todo \in Seq(Items), LooksFirst(todo), LuaRuns \/ todo[1].op \notin Sweep, NEW ops,
         ops \subseteq Looks
  PROVE  Avoids(todo, ops)
<1>1. CASE todo = <<>>
  BY <1>1, AvoidsOne
<1>2. CASE todo # <<>>
  <2>1. todo[1].op \notin Sweep
    BY <1>2 DEF LuaRuns, Sweep, Looks
  <2>2. Avoids(Tail(todo), Looks)
    BY <1>2, <2>1, LooksFirstTail
  <2>3. Avoids(Tail(todo), ops) /\ todo[1].op \notin ops
    BY <2>1, <2>2 DEF Avoids, Sweep
  <2> QED BY <1>2, <2>3, AvoidsTail
<1> QED BY <1>1, <1>2

\* The looks stay on top, and come onto the stack, as a close does, with a clearing
\* of the queue or a shutdown.
LEMMA LooksStep ==
  ASSUME TypeOK, LooksFirst(todo), [Next]_vars
  PROVE  /\ LooksFirst(todo')
         /\ \/ Avoids(todo, Looks) => Avoids(todo', Looks)
            \/ asked' = asked \union Started
         /\ \/ Avoids(todo, {"close"}) => Avoids(todo', {"close"})
            \/ shuttingDown'
<1> USE DEF dataVars, queueVars, dbVars, handVars, workVars, refVars, luaVars,
            serverVars, history, luaSide, allButTodo, allButPC
<1> DEFINE Kept == /\ LooksFirst(todo')
                   /\ Avoids(todo, Looks) => Avoids(todo', Looks)
                   /\ Avoids(todo, {"close"}) => Avoids(todo', {"close"})
           Asked == LooksFirst(todo') /\ asked' = asked \union Started
           Goal == \/ Kept
                   \/ /\ Asked
                      /\ \/ Avoids(todo, {"close"}) => Avoids(todo', {"close"})
                         \/ shuttingDown'
<1>a. todo \in Seq(Items) /\ todo' \in Seq(Items)
  BY TodoTyped DEF TypeOK
<1>b. ASSUME todo # <<>>
      PROVE  /\ Tail(todo) \in Seq(Items) /\ LooksFirst(Tail(todo))
             /\ todo[1].op \in Sweep \/ Avoids(Tail(todo), Looks)
             /\ Avoids(todo, Looks) => Avoids(Tail(todo), Looks)
             /\ Avoids(todo, {"close"}) => Avoids(Tail(todo), {"close"})
  BY <1>a, <1>b, ContainsTail, LooksFirstTail, AvoidsTail
<1>c. ASSUME NEW items \in Seq(Items), NEW below \in Seq(Items), todo' = items \o below,
             LooksFirst(items), Avoids(items, {"close"}),
             Avoids(todo, {"close"}) => Avoids(below, {"close"}),
             Avoids(items, Looks) /\ Avoids(below, Looks)
      PROVE  Kept
  <2>1. LooksFirst(below)
    BY <1>c, LooksFirstNone
  <2>2. LooksFirst(items \o below) /\ Avoids(items \o below, Looks)
    BY <1>c, <2>1, LooksFirstConcat, AvoidsConcat
  <2>3. Avoids(below, {"close"}) => Avoids(items \o below, {"close"})
    BY <1>c, AvoidsConcat
  <2> QED BY <1>c, <2>2, <2>3
<1>d. ASSUME LuaRuns
      PROVE  Avoids(todo, Looks)
  BY <1>a, <1>d, NoLooksInLua
<1>e. /\ "close" \notin Looks /\ "deliver" \notin Looks /\ "free" \notin Looks
      /\ "wait" \notin Looks /\ "take" \notin Looks /\ "abortStatus" \notin Looks
      /\ {"close", "shutdown", "take", "takeFree"} \intersect Sweep = {}
      /\ "deliver" \in Holding /\ "free" \in Holding
  BY DEF Looks, Sweep, Holding
<1>f. /\ Step("active") \in Seq(Items) /\ Step("inFlight") \in Seq(Items)
      /\ Step("close") \in Seq(Items)
      /\ Step("active") \o Step("inFlight") \in Seq(Items)
      /\ LooksFirst(Step("active") \o Step("inFlight"))
      /\ LooksFirst(Step("close")) /\ Avoids(Step("close"), Looks)
      /\ Step("inFlight") \o Step("active") \in Seq(Items)
      /\ LooksFirst(Step("inFlight") \o Step("active"))
      /\ Avoids(Step("inFlight") \o Step("active"), {"close"})
  <2>1. /\ Step("active") \in Seq(Items) /\ Step("inFlight") \in Seq(Items)
        /\ Step("close") \in Seq(Items)
    BY ItemTyped DEF AloneOps
  <2>2. /\ Sweeps(Step("active")) /\ Sweeps(Step("inFlight"))
        /\ Avoids(Step("active"), {"close"}) /\ Avoids(Step("inFlight"), {"close"})
        /\ Avoids(Step("close"), Looks)
    BY <1>e, AvoidsOne DEF Sweeps, Sweep, Looks, Step, Item
  <2>3. /\ LooksFirst(Step("active")) /\ LooksFirst(Step("inFlight"))
        /\ LooksFirst(Step("close"))
    BY LooksFirstNone DEF Step
  <2> QED BY <2>1, <2>2, <2>3, ConcatProperties, AvoidsConcat, LooksFirstConcat
<1>1. ASSUME UNCHANGED todo
      PROVE  Kept
  BY <1>1
<1>2. ASSUME Pops
      PROVE  Kept
  <2>1. todo # <<>> /\ todo' = Tail(todo)
    BY <1>2, <1>b, EmptySeq, ConcatEmptySeq DEF Pops, Then
  <2> QED BY <1>b, <2>1
<1>3. ASSUME NEW op \in Ops, NEW p \in Queries, Replaces(op, p)
      PROVE  Kept
  <2> DEFINE s == <<Item(op, p)>>
  <2>1. /\ s \in Seq(Items) /\ LooksFirst(s) /\ todo # <<>> /\ todo' = s \o Tail(todo)
        /\ op \in Sweep => Sweeps(s)
        /\ op \notin Looks => Avoids(s, Looks)
        /\ op # "close" => Avoids(s, {"close"})
    BY <1>3, LooksFirstNone, AvoidsOne DEF Replaces, Then, Sweeps, Item
  <2>2. /\ op \notin Looks /\ op # "close"
        /\ todo[1].op \in Sweep => todo[1].op \in Looks /\ op \in Sweep
    BY <1>3 DEF Replaces, Moves, Looks, Sweep
  <2> HIDE DEF s
  <2>3. LooksFirst(s \o Tail(todo))
    BY <1>b, <2>1, <2>2, LooksFirstConcat
  <2>4. /\ Avoids(todo, Looks) => Avoids(s \o Tail(todo), Looks)
        /\ Avoids(todo, {"close"}) => Avoids(s \o Tail(todo), {"close"})
    BY <1>b, <2>1, <2>2, AvoidsConcat
  <2> QED BY <2>1, <2>3, <2>4
<1>4. ASSUME Shutdown, shuttingDown', asked' = asked \union Started,
             Then(Step("active") \o Step("inFlight") \o Step("close"))
      PROVE  Asked
  <2> DEFINE s == Step("active") \o Step("inFlight") \o Step("close")
  <2>1. s \in Seq(Items) /\ LooksFirst(s)
    BY <1>f, ConcatProperties, LooksFirstConcat
  <2>5. todo # <<>> /\ todo[1].op = "shutdown" /\ todo' = s \o Tail(todo)
    BY <1>4 DEF Shutdown, At, Then
  <2> HIDE DEF s
  <2>6. Avoids(Tail(todo), Looks)
    BY <1>b, <1>e, <2>5
  <2> QED BY <1>4, <1>b, <2>1, <2>5, <2>6, LooksFirstConcat
<1>5. ASSUME TakeFinished \/ TakeAndFree \/ Think
      PROVE  Kept
  <2>1. PICK op \in {"deliver", "free"} :
          \/ LuaRuns /\ todo' = ForAll(op, finishedQ) \o todo
          \/ /\ todo # <<>> /\ todo[1].op \notin Sweep
             /\ todo' = ForAll(op, finishedQ) \o Tail(todo)
    <3>1. CASE TakeFinished
      <4>1. todo' = ForAll("deliver", finishedQ) \o Tail(todo) /\ todo # <<>> /\ todo[1].op = "take"
        BY <3>1 DEF TakeFinished, TakingFinished, At, Then
      <4> QED BY <4>1, <1>e
    <3>2. CASE TakeAndFree
      <4>1. todo' = ForAll("free", finishedQ) \o Tail(todo) /\ todo # <<>> /\ todo[1].op = "takeFree"
        BY <3>2 DEF TakeAndFree, TakingToFree, At, Then
      <4> QED BY <4>1, <1>e
    <3>3. CASE Think
      <4>1. todo' = ForAll("deliver", finishedQ) \o todo /\ LuaRuns
        BY <3>3 DEF Think, Call
      <4> QED BY <4>1
    <3> QED BY <1>5, <3>1, <3>2, <3>3
  <2> DEFINE s == ForAll(op, finishedQ)
  <2>2. s \in Seq(Items) /\ Avoids(s, Looks) /\ Avoids(s, {"close"})
    <3>1. op \in Holding /\ op \notin Looks /\ op # "close" /\ finishedQ \in Seq(Queries)
      BY <1>e DEF TypeOK
    <3> QED BY <3>1, AvoidsForAll
  <2> HIDE DEF s
  <2>3. LooksFirst(s)
    BY <2>2, LooksFirstNone
  <2>4. ASSUME LuaRuns /\ todo' = s \o todo
        PROVE  Kept
    BY <1>a, <1>c, <1>d, <2>2, <2>3, <2>4
  <2>5. ASSUME todo # <<>> /\ todo[1].op \notin Sweep /\ todo' = s \o Tail(todo)
        PROVE  Kept
    BY <1>b, <1>c, <2>2, <2>3, <2>5
  <2> HIDE DEF Kept
  <2> QED BY <2>1, <2>4, <2>5 DEF s
<1>6. ASSUME AbortAll \/ Destroy \/ \E wait \in BOOLEAN : Disconnect(wait)
      PROVE  Goal
  <2>1. PICK looks \in Seq(Items), rest \in Seq(Items) :
          /\ looks = Step("inFlight") \o Step("active")
          /\ LuaRuns /\ todo' = looks \o rest \o todo
          /\ Avoids(rest, WaitOps \union AbortOps \union Looks \union {"close"})
    BY <1>6, ClearingShape
  <2>2. Avoids(rest, Looks) /\ Avoids(rest, {"close"})
    BY <2>1 DEF Avoids
  <2>4. LooksFirst(looks) /\ Avoids(looks, {"close"})
    BY <1>f, <2>1
  <2>5. looks \o rest \in Seq(Items) /\ LooksFirst(looks \o rest) /\ Avoids(looks \o rest, {"close"})
    BY <2>2, <2>4, ConcatProperties, AvoidsConcat, LooksFirstConcat, LooksFirstNone
  <2>6. LooksFirst(todo') /\ (Avoids(todo, {"close"}) => Avoids(todo', {"close"}))
    BY <1>a, <1>d, <2>1, <2>5, LooksFirstConcat, AvoidsConcat
  <2>7. asked' = asked \union Started
    BY <1>6 DEF AbortAll, Destroy, Disconnect, ClearQueue
  <2> QED BY <2>6, <2>7
<1>7. ASSUME NEW q \in Queries, AbortQueued(q) \/ AbortTaken(q) \/ Wait(q)
      PROVE  Kept
  <2>1. PICK s \in Seq(Items) :
          LuaRuns /\ todo' = s \o todo /\ Avoids(s, Looks) /\ Avoids(s, {"close"})
    <3>1. CASE AbortQueued(q) \/ AbortTaken(q)
      <4>1. PICK op \in {"deliver", "abortStatus"} : LuaRuns /\ todo' = <<Item(op, q)>> \o todo
        BY <1>7, <3>1 DEF AbortQueued, AbortTaken, Call
      <4>2. /\ <<Item(op, q)>> \in Seq(Items)
            /\ Avoids(<<Item(op, q)>>, Looks) /\ Avoids(<<Item(op, q)>>, {"close"})
        BY <1>e, ItemTyped, AvoidsOne DEF AbortOps
      <4> QED BY <4>1, <4>2
    <3>2. CASE Wait(q)
      <4>1. LuaRuns /\ todo' = <<Item("wait", q), Item("take", q)>> \o todo
        BY <1>7, <3>2 DEF Wait, Call
      <4>2. Item("wait", q) \in Items /\ Item("take", q) \in Items
        BY ItemTyped DEF WaitOps
      <4>3. /\ Avoids(<<Item("wait", q), Item("take", q)>>, Looks)
            /\ Avoids(<<Item("wait", q), Item("take", q)>>, {"close"})
        BY <1>e, PushAvoids
      <4>4. <<Item("wait", q), Item("take", q)>> \in Seq(Items)
        BY <4>2
      <4> QED BY <4>1, <4>3, <4>4
    <3> QED BY <1>7, <3>1, <3>2
  <2>2. LooksFirst(s)
    BY <2>1, LooksFirstNone
  <2> QED BY <1>a, <1>c, <1>d, <2>1, <2>2
<1>8. Kept \/ (Asked /\ shuttingDown') \/ Goal
  <2> HIDE DEF Kept, Asked, Goal
  <2> QED BY <1>1, <1>2, <1>3, <1>4, <1>5, <1>6, <1>7, StackStep
<1> QED BY <1>8

-----------------------------------------------------------------------------
(* Only what Lua asked to abort is reported aborted. *)

\* What was asked for stays so, and a shutdown asks for everything started.
LEMMA AskedStep ==
  ASSUME TypeOK, [Next]_vars
  PROVE  /\ asked \subseteq asked'
         /\ shuttingDown => shuttingDown'
         /\ shuttingDown' /\ ~shuttingDown => asked' = asked \union Started
<1> USE DEF dataVars, queueVars, dbVars, handVars, workVars, refVars, luaVars,
            serverVars, history, luaSide, allButTodo, allButPC
<1>1. CASE LuaCall
  <2>1. UNCHANGED shuttingDown
    BY <1>1 DEF LuaCall, StartQueued, StartRefused, AbortQueued, AbortTaken, Wait, Connect,
                Think, AbortAll, Destroy, Disconnect, ClearQueue
  <2>2. \/ UNCHANGED asked \/ asked' = asked \union Started
        \/ \E q \in Queries : asked' = asked \union {q}
    BY <1>1 DEF LuaCall, StartQueued, StartRefused, AbortQueued, AbortTaken, Wait, Connect,
                Think, AbortAll, Destroy, Disconnect, ClearQueue
  <2> QED BY <2>1, <2>2
<1>2. CASE (LuaStep /\ ~Shutdown) \/ Release \/ SpuriousWake \/ UNCHANGED vars
  BY <1>2 DEF LuaStep, Close, Closing, CannotWait, WaitStore, FailNow, vars, Deliver,
             Release, AbortStatus, AbortStore, Cancel, CancelActive,
             RequestCancel, PQcancelSent, PQcancelFailed, AbortInFlight,
             Join, TakeFinished, TakingFinished, TakeAndFree, TakingToFree,
             WaitEnter, WaitingIf, Block, FallAsleep, SpuriousWake
<1>3. CASE Shutdown
  BY <1>3 DEF Shutdown
<1>4. CASE WorkerStep
  BY <1>4, WorkerLeavesLua
<1> QED BY <1>1, <1>2, <1>3, <1>4 DEF Next

\* What makes an execution ABORTED.
LEMMA AbortedStep ==
  ASSUME TypeOK, [Next]_vars, NEW q \in Queries, status'[q] = "ABORTED"
  PROVE  \/ status[q] = "ABORTED"
         \/ handle[q] = "new"
         \/ AbortQueued(q)
         \/ asked' = asked \union Started
         \/ At("abortStore") /\ todo[1].of = q
         \/ At("close")
         \/ shuttingDown
         \/ wcur = q /\ q \in cancelReq
<1> USE DEF dataVars, queueVars, dbVars, handVars, workVars, refVars, luaVars,
            serverVars, history, luaSide, allButTodo, allButPC
<1>a. /\ status \in [Queries -> Statuses] /\ status'[q] = "ABORTED" /\ todo \in Seq(Items)
      /\ doomed \in Seq(Queries)
  BY DEF TypeOK
<1>b. ASSUME NEW p, NEW x, status' = [status EXCEPT ![p] = x], p # q \/ x # "ABORTED"
      PROVE  status[q] = "ABORTED"
  BY <1>a, <1>b
<1>1. ASSUME NEW p \in Queries, StartQueued(p) \/ StartRefused(p)
      PROVE  handle[q] = "new" \/ status[q] = "ABORTED"
  BY <1>1, <1>b DEF StartQueued, StartRefused
<1>2. ASSUME NEW p \in Queries, AbortQueued(p)
      PROVE  AbortQueued(q) \/ status[q] = "ABORTED"
  <2>1. p # q => status[q] = "ABORTED"
    BY <1>2, <1>b DEF AbortQueued
  <2> QED BY <1>2, <2>1
<1>3. CASE AbortAll \/ Destroy \/ \E wait \in BOOLEAN : Disconnect(wait)
  BY <1>3 DEF AbortAll, Destroy, Disconnect, ClearQueue
<1>4. ASSUME NEW p \in Queries, AbortTaken(p) \/ Wait(p)
      PROVE  status[q] = "ABORTED"
  BY <1>4, <1>a DEF AbortTaken, Wait
<1>5. CASE AbortStore
  BY <1>5, <1>b DEF AbortStore
<1>6. CASE Close
  BY <1>6 DEF Close, Closing
<1>7. CASE CannotWait \/ WaitStore
  <2>1. \/ UNCHANGED status
        \/ status' = [status EXCEPT ![todo[1].of] = "COMPLETE"]
    BY <1>7 DEF CannotWait, WaitStore, FailNow
  <2> QED BY <1>a, <1>b, <2>1
<1>8. CASE \/ Deliver \/ Release \/ AbortStatus \/ Cancel \/ CancelActive
           \/ PQcancelSent \/ PQcancelFailed \/ AbortInFlight \/ Shutdown \/ Join
           \/ TakeFinished \/ TakeAndFree \/ WaitEnter \/ Block \/ FallAsleep
           \/ SpuriousWake \/ Connect \/ Think \/ UNCHANGED vars
  <2>1. UNCHANGED status
    BY <1>8 DEF Deliver, Release, AbortStatus, Cancel, CancelActive,
             RequestCancel, PQcancelSent, PQcancelFailed, AbortInFlight, Shutdown,
             Join, TakeFinished, TakingFinished, TakeAndFree, TakingToFree,
             WaitEnter, WaitingIf, Block, FallAsleep, SpuriousWake, Connect, Think, vars
  <2> QED BY <1>a, <2>1
<1>9. CASE Check
  <2>1. \/ UNCHANGED status
        \/ /\ shuttingDown \/ status[wcur] = "ABORTED"
           /\ status' = [status EXCEPT ![wcur] = "ABORTED"]
    BY <1>9 DEF Check, Checking
  <2> QED BY <1>a, <1>b, <2>1
<1>10. CASE Classify
  <2>1. \/ UNCHANGED status
        \/ /\ wcur \in cancelReq
           /\ status' = [status EXCEPT ![wcur] = "ABORTED"]
    BY <1>10 DEF Classify, Classifying
  <2> QED BY <1>a, <1>b, <2>1
<1>11. CASE Doom \/ SetRunning \/ Complete
  <2>1. PICK x \in {"COMPLETE", "RUNNING"}, p \in {wcur, Head(doomed)} : status' = [status EXCEPT ![p] = x]
    BY <1>11 DEF Doom, SetRunning, Complete
  <2> QED BY <1>b, <2>1
<1>12. CASE WorkerStep /\ ~Check /\ ~Classify /\ ~Doom /\ ~SetRunning /\ ~Complete
  <2>1. UNCHANGED status
    BY <1>12 DEF WorkerStep, ConnectSucceeds, ConnectFails, StopWaits, FailClose, FailClosing,
       DoomDone, TakeNext, Exit, SetInFlight, Execute, OpenFails, StatementOk,
       Unguard, Settle, Put, Finish, Notify, StatementFails, Settling
  <2> QED BY <1>a, <2>1
<1> QED BY <1>1, <1>2, <1>3, <1>4, <1>5, <1>6, <1>7, <1>8, <1>9, <1>10, <1>11, <1>12
        DEF Next, LuaCall, LuaStep

\* Who requests a cancellation.
LEMMA CancelReqStep ==
  ASSUME TypeOK, [Next]_vars, NEW q \in Queries, q \in cancelReq'
  PROVE  \/ q \in cancelReq
         \/ At("cancel") /\ todo[1].of = q
         \/ At("active") /\ active = q
<1> USE DEF dataVars, queueVars, dbVars, handVars, workVars, refVars, luaVars,
            serverVars, history, luaSide, allButTodo, allButPC
<1>1. CASE LuaCall
  BY <1>1 DEF LuaCall, StartQueued, StartRefused, AbortQueued, AbortTaken, Wait, Connect,
              Think, AbortAll, Destroy, Disconnect, ClearQueue
<1>2. CASE (LuaStep /\ ~Cancel /\ ~CancelActive) \/ Release \/ SpuriousWake \/ UNCHANGED vars
  <2>1. cancelReq' \subseteq cancelReq
    BY <1>2 DEF LuaStep, Close, Closing, CannotWait, WaitStore, FailNow, vars, Deliver,
             Release, AbortStatus, AbortStore, PQcancelSent, PQcancelFailed, AbortInFlight,
             Join, TakeFinished, TakingFinished, TakeAndFree, TakingToFree, Shutdown,
             WaitEnter, WaitingIf, Block, FallAsleep, SpuriousWake
  <2> QED BY <2>1
<1>3. CASE Cancel \/ CancelActive
  BY <1>3 DEF Cancel, CancelActive, RequestCancel
<1>4. CASE WorkerStep
  <2>1. cancelReq' \subseteq cancelReq
    BY <1>4 DEF WorkerStep, ConnectSucceeds, ConnectFails, StopWaits, FailClose, FailClosing,
       DoomDone, TakeNext, Exit, SetInFlight, Execute, OpenFails, StatementOk, Check, Checking,
       Unguard, Settle, Put, Finish, Notify, StatementFails, Settling, Classify, Classifying,
       Doom, SetRunning, Complete
  <2> QED BY <2>1
<1> QED BY <1>1, <1>2, <1>3, <1>4 DEF Next

\* An execution gets a step of an abort from a step of an abort, from a look, or
\* from the call.
LEMMA AbortOpsStep ==
  ASSUME TypeOK, [Next]_vars, NEW q \in Queries, Has(todo', AbortOps, q)
  PROVE  \/ Has(todo, AbortOps, q)
         \/ todo # <<>> /\ todo[1].op \in Looks /\ q \in {active, inFlight}
         \/ AbortTaken(q)
<1> USE DEF dataVars, queueVars, dbVars, handVars, workVars, refVars, luaVars,
            serverVars, history, luaSide, allButTodo, allButPC
<1>a. todo \in Seq(Items) /\ Has(todo', AbortOps, q)
  BY DEF TypeOK
<1>b. /\ "deliver" \notin AbortOps /\ "free" \notin AbortOps /\ "wait" \notin AbortOps
      /\ "take" \notin AbortOps
  BY DEF AbortOps
<1>1. CASE UNCHANGED todo
  BY <1>1, <1>a
<1>2. CASE Pops
  <2>1. todo # <<>> /\ (Has(todo', AbortOps, q) <=> Has(Tail(todo), AbortOps, q))
    BY <1>2, <1>a, ThenNone DEF Pops
  <2> QED BY <1>a, <2>1, HasTail
<1>3. ASSUME NEW op \in Ops, NEW p \in Queries, Replaces(op, p)
      PROVE  \/ Has(todo, AbortOps, q)
             \/ todo # <<>> /\ todo[1].op \in Looks /\ q \in {active, inFlight}
  <2>1. /\ todo # <<>>
        /\ Has(todo', AbortOps, q) <=> (op \in AbortOps /\ p = q) \/ Has(Tail(todo), AbortOps, q)
    BY <1>3, <1>a, ThenOne DEF Replaces
  <2>2. op \in AbortOps => todo[1].op \in AbortOps \union Looks
    BY <1>3 DEF Replaces, Moves, AbortOps, Looks
  <2>3. p = todo[1].of \/ (todo[1].op \in Looks /\ p \in {active, inFlight})
    BY <1>3 DEF Replaces
  <2>4. todo[1].op \in Looks => todo[1].of \notin Queries
    BY <1>a, <2>1, TopTyped, ItemParts, NoDataAssumption DEF Looks, AloneOps
  <2>5. CASE p # q \/ op \notin AbortOps
    BY <1>a, <2>1, <2>5, HasTail
  <2>6. CASE p = q /\ op \in AbortOps
    <3>1. CASE todo[1].op \in Looks
      BY <2>1, <2>3, <2>4, <2>6, <3>1
    <3>2. CASE todo[1].op \in AbortOps /\ todo[1].op \notin Looks
      BY <1>a, <2>1, <2>3, <2>6, <3>2, HasTail
    <3> QED BY <2>2, <2>6, <3>1, <3>2
  <2> QED BY <2>5, <2>6
<1>4. CASE Shutdown
  <2>1. todo # <<>> /\ (Has(todo', AbortOps, q) <=> Has(Tail(todo), AbortOps, q))
    BY <1>4, PopStack
  <2> QED BY <1>a, <2>1, HasTail
<1>5. CASE TakeFinished \/ TakeAndFree \/ Think
  <2>1. \/ Has(todo, AbortOps, q)
        \/ todo # <<>> /\ Has(Tail(todo), AbortOps, q)
    BY <1>5, <1>a, <1>b, TakeStack
  <2> QED BY <1>a, <2>1, HasTail
<1>6. CASE AbortAll \/ Destroy \/ \E wait \in BOOLEAN : Disconnect(wait)
  BY <1>6, <1>a, <1>b, ClearingStack
<1>7. ASSUME NEW p \in Queries, AbortQueued(p) \/ AbortTaken(p) \/ Wait(p)
      PROVE  Has(todo, AbortOps, q) \/ AbortTaken(q)
  <2>1. CASE AbortQueued(p)
    <3>1. Call(<<Item("deliver", p)>>) /\ "deliver" \in Ops \ AloneOps
      BY <2>1 DEF AbortQueued, Ops, Holding, AloneOps
    <3> QED BY <1>a, <1>b, <3>1, CallStack
  <2>2. CASE AbortTaken(p)
    <3>1. Call(<<Item("abortStatus", p)>>) /\ "abortStatus" \in Ops \ AloneOps
      BY <2>2 DEF AbortTaken, Ops, AbortOps, AloneOps
    <3>2. p = q \/ Has(todo, AbortOps, q)
      BY <1>a, <1>b, <3>1, CallStack
    <3> QED BY <2>2, <3>2
  <2>3. CASE Wait(p)
    BY <1>a, <1>b, <2>3, WaitCallStack
  <2> QED BY <1>7, <2>1, <2>2, <2>3
<1> QED BY <1>1, <1>2, <1>3, <1>4, <1>5, <1>6, <1>7, StackStep

\* Whatever leads to ABORTED was asked for.
LEMMA AbortWasAskedStep ==
  ASSUME IInv, AbortWasAsked, [Next]_vars
  PROVE  AbortWasAsked'
<1> DEFINE Looking(s) == \E i \in 1..Len(s) : s[i].op \in Looks
           Closes(s) == \E i \in 1..Len(s) : s[i].op = "close"
<1>a. /\ TypeOK /\ NewIsNowhere /\ todo \in Seq(Items) /\ todo' \in Seq(Items)
      /\ LooksFirst(todo) /\ asked \subseteq asked' /\ asked \subseteq Queries
      /\ resultStatus \in [Queries -> ResultStatuses]
  BY TodoTyped, AskedStep DEF IInv, TypeOK, AbortWasAsked
<1>b. /\ \A s : Looking(s) <=> ~Avoids(s, Looks)
      /\ \A s : Closes(s) <=> ~Avoids(s, {"close"})
  BY DEF Avoids
<1>c. /\ shuttingDown \/ ~Avoids(todo, Looks) => Started \subseteq asked
      /\ ~Avoids(todo, {"close"}) => shuttingDown
  BY <1>b DEF AbortWasAsked
<1>d. ASSUME NEW op \in Looks, At(op)
      PROVE  Started \subseteq asked
  <2>1. ~Avoids(todo, Looks)
    BY <1>a, <1>d, AvoidsTail DEF At
  <2> QED BY <1>c, <2>1
<1>1. LooksFirst(todo')
  BY <1>a, LooksStep
<1>2. ASSUME NEW q \in Queries, Live(q)', shuttingDown' \/ ~Avoids(todo', Looks)
      PROVE  q \in asked'
  <2>1. CASE Live(q)
    <3>1. q \in Started
      BY <2>1 DEF Started
    <3> QED BY <1>2, <1>a, <1>c, <3>1, LooksStep, AskedStep
  <2>2. CASE handle[q] = "new" /\ StartQueued(q)
    <3>1. LuaRuns /\ ~shuttingDown /\ UNCHANGED <<todo, shuttingDown>>
      BY <2>2 DEF StartQueued, dbVars
    <3>2. Avoids(todo, Looks)
      BY <1>a, <3>1, NoLooksInLua
    <3> QED BY <1>2, <3>1, <3>2
  <2> QED BY <1>a, <1>2, <2>1, <2>2, LiveStep
<1>3. ~Avoids(todo', {"close"}) => shuttingDown'
  BY <1>a, <1>c, LooksStep, AskedStep
<1>4. ASSUME NEW q \in Queries, handle'[q] = "new"
      PROVE  q \notin cancelReq'
  <2>1. handle[q] = "new"
    BY <1>a, <1>4, HandleStep DEF StartQueued, StartRefused, TypeOK
  <2>2. q \notin cancelReq /\ active # q /\ ~Has(todo, Ops, q)
    BY <1>a, <2>1 DEF AbortWasAsked, NewIsNowhere, Nowhere
  <2>3. ~(At("cancel") /\ todo[1].of = q)
    BY <1>a, <2>2, HasTail DEF At, Ops, AbortOps
  <2> QED BY <1>a, <2>2, <2>3, CancelReqStep
<1>5. ASSUME NEW q \in Queries, Live(q)',
             status'[q] = "ABORTED" \/ q \in cancelReq' \/ Has(todo', AbortOps, q)
      PROVE  q \in asked'
  <2>1. CASE Live(q)
    <3>1. q \in Started /\ (Started \subseteq asked => q \in asked')
      BY <1>a, <2>1 DEF Started
    <3>2. status[q] = "ABORTED" \/ q \in cancelReq \/ Has(todo, AbortOps, q) => q \in asked'
      BY <1>a, <2>1 DEF AbortWasAsked
    <3>3. \A op \in AbortOps : At(op) /\ todo[1].of = q => Has(todo, AbortOps, q)
      BY <1>a, HasTail DEF At
    <3>4. status'[q] = "ABORTED" => q \in asked'
      <4>1. AbortQueued(q) => q \in asked'
        BY DEF AbortQueued
      <4>2. At("close") => shuttingDown
        BY <1>a, <1>c, AvoidsTail DEF At
      <4>3. "abortStore" \in AbortOps /\ handle[q] # "new"
        BY <2>1 DEF AbortOps, Live
      <4> QED BY <1>a, <1>c, <3>1, <3>2, <3>3, <4>1, <4>2, <4>3, AbortedStep
    <3>5. q \in cancelReq' => q \in asked'
      <4>1. "cancel" \in AbortOps /\ "active" \in Looks
        BY DEF AbortOps, Looks
      <4> QED BY <1>a, <1>d, <3>1, <3>2, <3>3, <4>1, CancelReqStep
    <3>6. Has(todo', AbortOps, q) => q \in asked'
      <4>1. todo # <<>> /\ todo[1].op \in Looks => Started \subseteq asked
        BY <1>d DEF At
      <4>2. AbortTaken(q) => q \in asked'
        BY DEF AbortTaken
      <4> QED BY <1>a, <3>1, <3>2, <4>1, <4>2, AbortOpsStep
    <3> QED BY <1>5, <3>4, <3>5, <3>6
  <2>2. CASE handle[q] = "new" /\ StartQueued(q)
    <3>1. status'[q] = "WAITING" /\ UNCHANGED <<todo, cancelReq>>
      BY <2>2, <1>a DEF StartQueued, TypeOK
    <3>2. q \notin cancelReq /\ ~Has(todo, Ops, q)
      BY <1>a, <2>2 DEF AbortWasAsked, NewIsNowhere, Nowhere
    <3>3. ~Has(todo', AbortOps, q)
      BY <3>1, <3>2 DEF Has, Ops
    <3> QED BY <1>5, <3>1, <3>2, <3>3
  <2> QED BY <1>a, <1>5, <2>1, <2>2, LiveStep
<1>6. ASSUME NEW q \in Queries, "aborted" \in ToSet(heard'[q])
      PROVE  q \in asked'
  <2>1. CASE "aborted" \in ToSet(heard[q])
    BY <1>a, <2>1 DEF AbortWasAsked, AbortedOnlyIfAsked
  <2>2. CASE Live(q) /\ "aborted" = Report(q)
    <3>1. status[q] = "ABORTED"
      BY <1>a, <2>2 DEF Report, ResultStatuses
    <3> QED BY <1>a, <2>2, <3>1 DEF AbortWasAsked
  <2> QED BY <1>a, <1>6, <2>1, <2>2, HeardStep
<1>7. Started' \subseteq Queries /\ \A q \in Started' : Live(q)'
  BY DEF Started
<1> QED BY <1>b, <1>1, <1>2, <1>3, <1>4, <1>5, <1>6, <1>7 DEF AbortWasAsked, AbortedOnlyIfAsked

-----------------------------------------------------------------------------
(* An execution is in one place at a time. *)

\* A stack that uses no callback references, or those of one step.
LEMMA HeldOnceNone ==
  /\ \A s : Avoids(s, Holding) => HeldOnce(s)
  /\ \A op, p : HeldOnce(<<Item(op, p)>>)
<1>1. ASSUME NEW s, Avoids(s, Holding)
      PROVE  HeldOnce(s)
  BY <1>1 DEF Avoids, HeldOnce
<1>2. ASSUME NEW op, NEW p
      PROVE  HeldOnce(<<Item(op, p)>>)
  BY DEF HeldOnce
<1> QED BY <1>1, <1>2

\* Steps before others, which use the references of other executions.
LEMMA HeldOnceConcat ==
  ASSUME NEW s \in Seq(Items), NEW t \in Seq(Items), HeldOnce(s), HeldOnce(t),
         \A q \in Queries : ~(Has(s, Holding, q) /\ Has(t, Holding, q))
  PROVE  HeldOnce(s \o t)
<1> DEFINE u == s \o t
<1>1. PICK m \in Nat, n \in Nat : m = Len(s) /\ n = Len(t)
  BY LenProperties
<1>2. /\ u \in Seq(Items) /\ Len(u) = m + n
      /\ \A i \in 1..m + n : u[i] = IF i <= m THEN s[i] ELSE t[i - m]
  BY <1>1, ConcatProperties
<1>3. ASSUME NEW i \in 1..m, NEW j \in 1..n, s[i].op \in Holding, t[j].op \in Holding,
             s[i].of = t[j].of
      PROVE  FALSE
  <2>1. s[i].of \in Queries
    BY <1>1, <1>3, ElementOfSeq, ItemParts
  <2>2. Has(s, Holding, s[i].of) /\ Has(t, Holding, s[i].of)
    BY <1>1, <1>3 DEF Has
  <2> QED BY <2>1, <2>2
<1>4. ASSUME NEW i \in 1..m + n, NEW j \in 1..m + n, u[i].op \in Holding, u[j].op \in Holding,
             u[i].of = u[j].of
      PROVE  i = j
  <2>1. \A k \in 1..m + n : \/ k \in 1..m /\ u[k] = s[k]
                            \/ k - m \in 1..n /\ u[k] = t[k - m]
    BY <1>1, <1>2
  <2>2. CASE i \in 1..m /\ u[i] = s[i] /\ j \in 1..m /\ u[j] = s[j]
    BY <1>1, <1>4, <2>2 DEF HeldOnce
  <2>3. CASE i - m \in 1..n /\ u[i] = t[i - m] /\ j - m \in 1..n /\ u[j] = t[j - m]
    <3>1. i - m = j - m
      BY <1>1, <1>4, <2>3 DEF HeldOnce
    <3> QED BY <1>1, <3>1
  <2>4. CASE i \in 1..m /\ u[i] = s[i] /\ j - m \in 1..n /\ u[j] = t[j - m]
    BY <1>3, <1>4, <2>4
  <2>5. CASE i - m \in 1..n /\ u[i] = t[i - m] /\ j \in 1..m /\ u[j] = s[j]
    BY <1>3, <1>4, <2>5
  <2> QED BY <2>1, <2>2, <2>3, <2>4, <2>5
<1> HIDE DEF u
<1>5. HeldOnce(u)
  BY <1>2, <1>4 DEF HeldOnce
<1> QED BY <1>5 DEF u

\* What the top of a stack leaves.
LEMMA HeldOnceTail ==
  ASSUME NEW s \in Seq(Items), s # <<>>, HeldOnce(s)
  PROVE  /\ HeldOnce(Tail(s))
         /\ s[1].op \in Holding => ~Has(Tail(s), Holding, s[1].of)
<1>1. PICK n \in Nat : n = Len(s)
  BY LenProperties
<1>2. n >= 1 /\ Len(Tail(s)) = n - 1 /\ \A i \in 1..n - 1 : Tail(s)[i] = s[i + 1]
  BY <1>1, ContainsTail
<1>3. ASSUME NEW i \in 1..n - 1, NEW j \in 1..n - 1, Tail(s)[i].op \in Holding,
             Tail(s)[j].op \in Holding, Tail(s)[i].of = Tail(s)[j].of
      PROVE  i = j
  <2>1. i + 1 \in 1..n /\ j + 1 \in 1..n
    BY <1>1
  <2>2. i + 1 = j + 1
    BY <1>1, <1>2, <1>3, <2>1 DEF HeldOnce
  <2> QED BY <2>2
<1>4. ASSUME NEW i \in 1..n - 1, Tail(s)[i].op \in Holding, s[1].op \in Holding,
             Tail(s)[i].of = s[1].of
      PROVE  FALSE
  <2>1. i + 1 \in 1..n /\ 1 \in 1..n
    BY <1>1, <1>2
  <2>2. i + 1 = 1
    BY <1>1, <1>2, <1>4, <2>1 DEF HeldOnce
  <2> QED BY <2>2
<1> QED BY <1>2, <1>3, <1>4 DEF HeldOnce, Has

\* One step for each execution of a sequence.
LEMMA HeldOnceForAll ==
  ASSUME NEW op, NEW s \in Seq(Queries), IsInjective(s)
  PROVE  HeldOnce(ForAll(op, s))
<1> DEFINE all == ForAll(op, s)
<1>1. DOMAIN all = DOMAIN s /\ DOMAIN s = 1..Len(s) /\ Len(s) \in Nat
  BY LenProperties DEF ForAll
<1>2. \A i \in 1..Len(s) : all[i].of = s[i]
  BY <1>1 DEF ForAll, Item
<1>3. Len(all) = Len(s)
  BY <1>1, LenProperties DEF ForAll
<1>4. ASSUME NEW i \in 1..Len(s), NEW j \in 1..Len(s), all[i].of = all[j].of
      PROVE  i = j
  <2>1. s[i] = s[j]
    BY <1>2, <1>4
  <2> QED BY <1>1, <2>1 DEF IsInjective
<1> QED BY <1>3, <1>4 DEF HeldOnce

\* A step of the Lua thread leaves a step on the stack, unless it is at its top.
LEMMA CallbackStays ==
  ASSUME TypeOK, [Next]_vars, NEW q \in Queries, Has(todo, {"callback"}, q), Live(q)'
  PROVE  Has(todo', {"callback"}, q)
<1> USE DEF dataVars, queueVars, dbVars, handVars, workVars, refVars, luaVars,
            serverVars, history, luaSide, allButTodo, allButPC
<1> DEFINE ops == {"callback"}
           P   == Has(todo', ops, q)
<1>a. todo \in Seq(Items) /\ Has(todo, ops, q)
  BY DEF TypeOK
<1>b. todo # <<>> => (Has(todo, ops, q) <=>
                        (todo[1].op \in ops /\ todo[1].of = q) \/ Has(Tail(todo), ops, q))
  BY <1>a, HasTail
<1> SUFFICES P
  OBVIOUS
<1>1. CASE UNCHANGED todo
  BY <1>1, <1>a
<1>2. CASE Pops
  <2>1. todo # <<>> /\ (Has(todo', ops, q) <=> Has(Tail(todo), ops, q))
    BY <1>2, <1>a, ThenNone DEF Pops
  <2>2. ~(todo[1].op \in ops /\ todo[1].of = q)
    BY <1>2, <1>a DEF Pops, Release, Live, TypeOK
  <2> QED BY <1>a, <1>b, <2>1, <2>2
<1>3. ASSUME NEW op \in Ops, NEW p \in Queries, Replaces(op, p)
      PROVE  P
  <2>1. todo # <<>> /\ (Has(Tail(todo), ops, q) => Has(todo', ops, q))
    BY <1>3, <1>a, ThenOne DEF Replaces
  <2>2. todo[1].op \notin ops
    BY <1>3 DEF Replaces, Moves
  <2> QED BY <1>a, <1>b, <2>1, <2>2
<1>4. CASE Shutdown
  <2>1. todo # <<>> /\ (Has(todo', ops, q) <=> Has(Tail(todo), ops, q))
    BY <1>4, PopStack
  <2>2. todo[1].op \notin ops
    BY <1>4 DEF Shutdown, At
  <2> QED BY <1>a, <1>b, <2>1, <2>2
<1>5. CASE TakeFinished \/ TakeAndFree \/ Think
  <2>1. TakeFinished \/ TakeAndFree => todo # <<>> /\ todo[1].op \notin ops
    BY DEF TakeFinished, TakingFinished, TakeAndFree, TakingToFree, At
  <2> QED BY <1>5, <1>a, <1>b, <2>1, TakeStack
<1>6. CASE AbortAll \/ Destroy \/ \E wait \in BOOLEAN : Disconnect(wait)
  BY <1>6, <1>a, ClearingStack
<1>7. ASSUME NEW p \in Queries, AbortQueued(p) \/ AbortTaken(p) \/ Wait(p)
      PROVE  P
  <2>1. CASE AbortQueued(p) \/ AbortTaken(p)
    <3>1. PICK op \in Ops \ AloneOps : Call(<<Item(op, p)>>)
      BY <2>1 DEF AbortQueued, AbortTaken, Ops, Holding, AbortOps, AloneOps
    <3> QED BY <1>a, <3>1, CallStack
  <2>2. CASE Wait(p)
    BY <1>a, <2>2, WaitCallStack
  <2> QED BY <1>7, <2>1, <2>2
<1> HIDE DEF P
<1> QED BY <1>1, <1>2, <1>3, <1>4, <1>5, <1>6, <1>7, StackStep

\* Who finishes an execution.
LEMMA FinishedBy ==
  ASSUME TypeOK, [Next]_vars, NEW q \in Queries, q \in finished'
  PROVE  q \in finished \/ handle[q] = "new" \/ HandsBack(q) \/ (Finish /\ wcur = q)
<1> USE DEF dataVars, queueVars, dbVars, handVars, workVars, refVars, luaVars,
            serverVars, history, luaSide, allButTodo, allButPC
<1>a. q \in finished' /\ (q \in ToSet(queue) => Contains(queue, q)) /\ todo \in Seq(Items)
  BY ContainsToSet DEF TypeOK
<1>1. ASSUME UNCHANGED finished
      PROVE  q \in finished
  BY <1>1, <1>a
<1>2. ASSUME NEW p \in Queries, \/ StartQueued(p) \/ StartRefused(p)
                                \/ AbortQueued(p) \/ AbortTaken(p) \/ Wait(p)
      PROVE  q \in finished \/ handle[q] = "new" \/ HandsBack(q)
  <2>1. CASE StartRefused(p)
    BY <1>a, <2>1 DEF StartRefused
  <2>2. CASE AbortQueued(p)
    <3>1. Contains(queue, p) /\ finished' = finished \union {p}
      BY <2>2 DEF AbortQueued, Removed, Contains
    <3> QED BY <1>a, <2>2, <3>1 DEF HandsBack, GivesToLua
  <2>3. CASE StartQueued(p) \/ AbortTaken(p) \/ Wait(p)
    BY <1>a, <2>3 DEF StartQueued, AbortTaken, Wait
  <2> QED BY <1>2, <2>1, <2>2, <2>3
<1>3. CASE AbortAll \/ Destroy \/ \E wait \in BOOLEAN : Disconnect(wait)
  <2>1. Contains(queue, q) \/ q \in finished
    BY <1>3, <1>a DEF AbortAll, Destroy, Disconnect, ClearQueue
  <2> QED BY <1>3, <2>1 DEF HandsBack, GivesToLua
<1>4. CASE Close
  BY <1>4, <1>a DEF Close, Closing, HandsBack, Puts
<1>5. CASE CannotWait \/ WaitStore
  <2>1. \/ UNCHANGED finished
        \/ /\ finished' = finished \union {todo[1].of}
           /\ WaitStore \/ (CannotWait /\ status[todo[1].of] = "WAITING"
                            /\ Removed(todo[1].of) /\ FailNow(todo[1].of))
    BY <1>5 DEF CannotWait, WaitStore, FailNow
  <2> QED BY <1>a, <2>1 DEF HandsBack, Puts
<1>6. CASE Finish
  BY <1>6, <1>a DEF Finish
<1>7. CASE \/ Deliver \/ Release \/ AbortStatus \/ AbortStore \/ Cancel \/ CancelActive
           \/ PQcancelSent \/ PQcancelFailed \/ AbortInFlight \/ Shutdown \/ Join
           \/ TakeFinished \/ TakeAndFree \/ WaitEnter \/ Block \/ FallAsleep
           \/ SpuriousWake \/ Connect \/ Think \/ UNCHANGED vars
  <2>1. UNCHANGED finished
    BY <1>7 DEF Deliver, Release, AbortStatus, AbortStore, Cancel, CancelActive,
             RequestCancel, PQcancelSent, PQcancelFailed, AbortInFlight, Shutdown,
             Join, TakeFinished, TakingFinished, TakeAndFree, TakingToFree,
             WaitEnter, WaitingIf, Block, FallAsleep, SpuriousWake, Connect, Think, vars
  <2> QED BY <1>1, <2>1
<1>8. CASE WorkerStep /\ ~Finish
  <2>1. UNCHANGED finished
    BY <1>8 DEF WorkerStep, ConnectSucceeds, ConnectFails, StopWaits,
       FailClose, Doom, DoomDone, TakeNext,
             Exit, SetInFlight, Check, SetRunning, Execute, OpenFails,
             StatementOk, Unguard, Classify, Settle, Complete, Put, Notify,
             FailClosing, Checking, StatementFails, Classifying, Settling
  <2> QED BY <1>1, <2>1
<1> QED BY <1>2, <1>3, <1>4, <1>5, <1>6, <1>7, <1>8 DEF Next, LuaCall, LuaStep

\* Who changes the status of an execution.
LEMMA StatusStep ==
  ASSUME TypeOK, [Next]_vars, NEW q \in Queries
  PROVE  \/ status'[q] = status[q]
         \/ handle[q] = "new" \/ HandsBack(q)
         \/ At("abortStore") /\ todo[1].of = q
         \/ wcur = q \/ Doom
<1> USE DEF dataVars, queueVars, dbVars, handVars, workVars, refVars, luaVars,
            serverVars, history, luaSide, allButTodo, allButPC
<1>a. /\ status \in [Queries -> Statuses] /\ (q \in ToSet(queue) => Contains(queue, q))
  BY ContainsToSet DEF TypeOK
<1>b. ASSUME NEW p, NEW x, status' = [status EXCEPT ![p] = x], p # q
      PROVE  status'[q] = status[q]
  BY <1>a, <1>b
<1>1. ASSUME NEW p \in Queries, StartQueued(p) \/ StartRefused(p)
      PROVE  handle[q] = "new" \/ status'[q] = status[q]
  BY <1>1, <1>b DEF StartQueued, StartRefused
<1>2. ASSUME NEW p \in Queries, AbortQueued(p)
      PROVE  HandsBack(q) \/ status'[q] = status[q]
  <2>1. Contains(queue, p)
    BY <1>2 DEF AbortQueued, Removed, Contains
  <2>2. p # q => status'[q] = status[q]
    BY <1>2, <1>b DEF AbortQueued
  <2> QED BY <1>2, <2>1, <2>2 DEF HandsBack, GivesToLua
<1>3. CASE AbortAll \/ Destroy \/ (\E wait \in BOOLEAN : Disconnect(wait)) \/ Close
  <2>1. status' = WithStatus(ToSet(queue), "ABORTED")
    BY <1>3 DEF AbortAll, Destroy, Disconnect, ClearQueue, Close, Closing
  <2>2. Contains(queue, q) \/ status'[q] = status[q]
    BY <1>a, <2>1 DEF WithStatus
  <2> QED BY <1>3, <2>2 DEF HandsBack, GivesToLua, Puts
<1>4. ASSUME NEW p \in Queries, AbortTaken(p) \/ Wait(p)
      PROVE  status'[q] = status[q]
  BY <1>4 DEF AbortTaken, Wait
<1>5. CASE AbortStore
  BY <1>5, <1>b DEF AbortStore
<1>6. CASE CannotWait \/ WaitStore
  <2>1. \/ UNCHANGED status
        \/ /\ status' = [status EXCEPT ![todo[1].of] = "COMPLETE"]
           /\ WaitStore \/ (CannotWait /\ status[todo[1].of] = "WAITING"
                            /\ Removed(todo[1].of) /\ FailNow(todo[1].of))
    BY <1>6 DEF CannotWait, WaitStore, FailNow
  <2> QED BY <1>b, <2>1 DEF HandsBack, Puts
<1>7. CASE \/ Deliver \/ Release \/ AbortStatus \/ Cancel \/ CancelActive
           \/ PQcancelSent \/ PQcancelFailed \/ AbortInFlight \/ Shutdown \/ Join
           \/ TakeFinished \/ TakeAndFree \/ WaitEnter \/ Block \/ FallAsleep
           \/ SpuriousWake \/ Connect \/ Think \/ UNCHANGED vars
  BY <1>7 DEF Deliver, Release, AbortStatus, Cancel, CancelActive,
             RequestCancel, PQcancelSent, PQcancelFailed, AbortInFlight, Shutdown,
             Join, TakeFinished, TakingFinished, TakeAndFree, TakingToFree,
             WaitEnter, WaitingIf, Block, FallAsleep, SpuriousWake, Connect, Think, vars
<1>8. CASE Check \/ Classify \/ SetRunning \/ Complete
  <2>1. UNCHANGED status \/ \E x : status' = [status EXCEPT ![wcur] = x]
    BY <1>8 DEF Check, Checking, Classify, Classifying, SetRunning, Complete
  <2> QED BY <1>b, <2>1
<1>9. CASE WorkerStep /\ ~Check /\ ~Classify /\ ~Doom /\ ~SetRunning /\ ~Complete
  <2>1. UNCHANGED status
    BY <1>9 DEF WorkerStep, ConnectSucceeds, ConnectFails, StopWaits, FailClose, FailClosing,
       DoomDone, TakeNext, Exit, SetInFlight, Execute, OpenFails, StatementOk,
       Unguard, Settle, Put, Finish, Notify, StatementFails, Settling
  <2> QED BY <2>1
<1> QED BY <1>1, <1>2, <1>3, <1>4, <1>5, <1>6, <1>7, <1>8, <1>9 DEF Next, LuaCall, LuaStep

\* How an execution comes into the worker's hands, and how long it stays there.
LEMMA WorkerHands ==
  ASSUME TypeOK, [Next]_vars
  PROVE  /\ wcur' \in Queries => UNCHANGED wcur \/ TakeNext \/ Doom
         /\ wpc' \in InHand =>
              TakeNext \/ Doom \/ (wpc \in InHand /\ UNCHANGED wcur /\ ~Put /\ ~Finish)
         /\ wpc \in {"none", "done"} => Connect \/ UNCHANGED wpc
         /\ wpc = "finish" => Finish \/ UNCHANGED <<wpc, wcur>>
<1> USE DEF InHand, Goto, dataVars, queueVars, dbVars, handVars, workVars, refVars,
            luaVars, serverVars, history, luaSide, allButTodo, allButPC
<1>1. CASE (LuaCall /\ ~Connect) \/ LuaStep \/ Release \/ SpuriousWake \/ UNCHANGED vars
  <2>1. UNCHANGED <<wpc, wcur>>
    BY <1>1, LuaLeavesWorker
  <2> QED BY <2>1 DEF Put, Finish
<1>2. CASE Connect
  <2>1. wpc = "none" /\ wpc' = "connecting" /\ UNCHANGED wcur
    BY <1>2 DEF Connect, TypeOK
  <2> QED BY <1>2, <2>1
<1>3. CASE Notify \/ Finish \/ Put
  BY <1>3, NoDataAssumption DEF Notify, Finish, Put
<1>4. CASE ConnectSucceeds \/ ConnectFails \/ StopWaits \/ FailClose \/ DoomDone \/ Exit
  BY <1>4 DEF ConnectSucceeds, ConnectFails, StopWaits, FailClose, FailClosing, DoomDone, Exit
<1>5. CASE SetInFlight \/ SetRunning \/ Execute \/ OpenFails \/ Check \/ Settle
  BY <1>5 DEF SetInFlight, SetRunning, Execute, OpenFails, Check, Checking, Settle, Settling,
              Put, Finish
<1>6. CASE StatementOk \/ \E o \in {"error", "cancelled", "lost"} : StatementFails(o)
  <2>1. wpc = "exec" /\ wpc' = "unguard" /\ UNCHANGED wcur
    BY <1>6 DEF StatementOk, StatementFails
  <2> QED BY <2>1 DEF Put, Finish
<1>7. CASE Unguard \/ Classify \/ Complete
  BY <1>7 DEF Unguard, Classify, Classifying, Complete, Put, Finish
<1>8. CASE TakeNext \/ Doom
  BY <1>8 DEF TakeNext, Doom
<1> HIDE DEF InHand, Goto
<1> QED BY <1>1, <1>2, <1>3, <1>4, <1>5, <1>6, <1>7, <1>8 DEF Next, WorkerStep

\* A connection that has failed does not come back.
LEMMA FailureStays ==
  ASSUME TypeOK, WorkerPlace, [Next]_vars, connection' # "failed"
  PROVE  connection # "failed"
<1> USE DEF dataVars, queueVars, dbVars, handVars, workVars, refVars,
            luaVars, serverVars, history, luaSide, allButTodo, allButPC
<1>1. CASE (LuaCall /\ ~Connect) \/ LuaStep \/ Release \/ SpuriousWake \/ UNCHANGED vars
  BY <1>1, LuaLeavesWorker
<1>2. CASE Connect
  BY <1>2 DEF Connect
<1>3. CASE ConnectSucceeds
  BY <1>3 DEF ConnectSucceeds, Goto, WorkerPlace
<1>4. CASE WorkerStep /\ ~ConnectSucceeds
  BY <1>4 DEF WorkerStep, ConnectFails, StopWaits, FailClose,
       FailClosing, DoomDone, TakeNext, Exit, SetInFlight, Execute, OpenFails, StatementOk,
       Unguard, Settle, Put, Finish, StatementFails, Settling, Check, Checking, Classify,
       Classifying, SetRunning, Complete, Notify, Doom
<1> QED BY <1>1, <1>2, <1>3, <1>4 DEF Next

\* What is handed back was queued, or is put by the worker; it leaves the queue, and
\* is finished by then, or by the worker's next step.
LEMMA HandsBackWhat ==
  ASSUME TypeOK, OneHolder, ~At("waitStore"), NEW q \in Queries, HandsBack(q)
  PROVE  /\ \/ Contains(queue, q) /\ ~Contains(queue', q) /\ q \in finished'
            \/ Put /\ wcur = q /\ wpc = "put" /\ wpc' = "finish" /\ wcur' = q
         /\ NotYet(q)
<1> USE DEF dataVars, queueVars, dbVars, handVars, workVars, refVars, luaVars,
            serverVars, history, luaSide, allButTodo, allButPC
<1>a. /\ queue \in Seq(Queries) /\ IsInjective(queue) /\ ~Contains(<<>>, q)
      /\ Contains(queue, q) => q \in ToSet(queue) /\ NotYet(q)
      /\ wpc \in InHand => NotYet(wcur)
  BY ContainsEmpty, ContainsToSet DEF TypeOK, OneHolder
<1>b. Removed(q) => Contains(queue, q) /\ ~Contains(queue', q)
  <2> SUFFICES ASSUME NEW i \in 1..Len(queue), queue[i] = q, queue' = RemoveAt(queue, i)
               PROVE  Contains(queue, q) /\ ~Contains(queue', q)
    BY DEF Removed
  <2>1. ~Contains(RemoveAt(queue, i), queue[i])
    BY <1>a, DistinctTakes
  <2> QED BY <2>1 DEF Contains
<1>1. CASE AbortQueued(q)
  BY <1>a, <1>b, <1>1 DEF AbortQueued
<1>2. CASE /\ Contains(queue, q)
           /\ AbortAll \/ Destroy \/ (\E wait \in BOOLEAN : Disconnect(wait)) \/ Close
  BY <1>a, <1>2 DEF AbortAll, Destroy, Disconnect, ClearQueue, Close, Closing
<1>3. CASE CannotWait /\ todo[1].of = q /\ status[q] = "WAITING" /\ Removed(q) /\ FailNow(q)
  BY <1>a, <1>b, <1>3 DEF FailNow
<1>4. CASE Put /\ wcur = q
  BY <1>a, <1>4 DEF Put, Goto, InHand
<1>5. ~WaitStore
  BY DEF WaitStore
<1> QED BY <1>1, <1>2, <1>3, <1>4, <1>5 DEF HandsBack, GivesToLua, Puts

\* No execution is queued twice ...
LEMMA QueueDistinct ==
  ASSUME TypeOK, NewIsNowhere, IsInjective(queue), [Next]_vars
  PROVE  IsInjective(queue')
<1> USE DEF dataVars, queueVars, dbVars, handVars, workVars, refVars, luaVars,
            serverVars, history, luaSide, allButTodo, allButPC
<1>a. queue \in Seq(Queries) /\ IsInjective(queue) /\ IsInjective(<<>>)
  BY DistinctEmpty DEF TypeOK
<1>b. ASSUME NEW i \in 1..Len(queue), queue' = RemoveAt(queue, i)
      PROVE  IsInjective(queue')
  BY <1>a, <1>b, DistinctRemoveAt
<1>1. ASSUME NEW p \in Queries, StartQueued(p)
      PROVE  IsInjective(queue')
  <2>1. queue' = Append(queue, p) /\ ~Contains(queue, p)
    BY <1>1 DEF StartQueued, NewIsNowhere, Nowhere
  <2>2. \A i \in DOMAIN queue : queue[i] # p
    BY <1>a, <2>1, LenProperties DEF Contains
  <2>3. IsInjective(Append(queue, p))
    BY <1>a, <2>2, DistinctAppend
  <2> QED BY <2>1, <2>3
<1>2. ASSUME NEW p \in Queries, AbortQueued(p)
      PROVE  IsInjective(queue')
  BY <1>2, <1>b DEF AbortQueued, Removed
<1>3. ASSUME NEW p \in Queries, Wait(p)
      PROVE  IsInjective(queue')
  <2>1. \/ queue' = queue
        \/ \E i \in 2..Len(queue) : /\ queue[i] = p
                                    /\ queue' = [queue EXCEPT ![1] = p, ![i] = queue[1]]
    BY <1>3 DEF Wait
  <2>2. ASSUME NEW i \in 2..Len(queue), queue[i] = p,
               queue' = [queue EXCEPT ![1] = p, ![i] = queue[1]]
        PROVE  IsInjective(queue')
    <3>1. IsInjective([queue EXCEPT ![1] = queue[i], ![i] = queue[1]])
      BY <1>a, DistinctSwap
    <3> QED BY <2>2, <3>1
  <2> QED BY <1>a, <2>1, <2>2
<1>4. ASSUME NEW p \in Queries, StartRefused(p) \/ AbortTaken(p)
      PROVE  IsInjective(queue')
  BY <1>4, <1>a DEF StartRefused, AbortTaken
<1>5. CASE \/ AbortAll \/ Destroy \/ (\E wait \in BOOLEAN : Disconnect(wait)) \/ Close
           \/ FailClose
  <2>1. queue' = <<>>
    BY <1>5 DEF AbortAll, Destroy, Disconnect, ClearQueue, Close, Closing, FailClose, FailClosing
  <2> QED BY <1>a, <2>1
<1>6. CASE CannotWait
  <2>1. UNCHANGED queue \/ \E i \in 1..Len(queue) : queue' = RemoveAt(queue, i)
    BY <1>6 DEF CannotWait, Removed
  <2> QED BY <1>a, <1>b, <2>1
<1>7. CASE TakeNext
  BY <1>7, <1>a, DistinctTail DEF TakeNext
<1>8. CASE \/ Deliver \/ Release \/ AbortStatus \/ AbortStore \/ Cancel \/ CancelActive
           \/ PQcancelSent \/ PQcancelFailed \/ AbortInFlight \/ Shutdown \/ Join
           \/ TakeFinished \/ TakeAndFree \/ WaitEnter \/ Block \/ FallAsleep
           \/ SpuriousWake \/ WaitStore
  <2>1. UNCHANGED queue
    BY <1>8 DEF WaitStore, FailNow, Deliver, Release, AbortStatus,
       AbortStore, Cancel, CancelActive,
             RequestCancel, PQcancelSent, PQcancelFailed, AbortInFlight, Shutdown,
             Join, TakeFinished, TakingFinished, TakeAndFree, TakingToFree,
             WaitEnter, WaitingIf, Block, FallAsleep, SpuriousWake
  <2> QED BY <1>a, <2>1
<1>9. CASE Connect \/ Think \/ UNCHANGED vars
  BY <1>9, <1>a DEF Connect, Think, vars
<1>10. CASE WorkerStep /\ ~FailClose /\ ~TakeNext
  <2>1. UNCHANGED queue
    BY <1>10 DEF WorkerStep, ConnectSucceeds, ConnectFails, StopWaits, Doom,
       DoomDone, Exit, SetInFlight, Check, SetRunning, Execute, OpenFails, StatementOk, Unguard,
       Classify, Settle, Complete, Put, Finish, Notify, Checking, StatementFails, Classifying,
       Settling
  <2> QED BY <1>a, <2>1
<1> QED BY <1>1, <1>2, <1>3, <1>4, <1>5, <1>6, <1>7, <1>8, <1>9, <1>10
        DEF Next, LuaCall, LuaStep

\* ... or handed back twice.
LEMMA FinishedDistinct ==
  ASSUME TypeOK, OneHolder, ~At("waitStore"), [Next]_vars
  PROVE  IsInjective(finishedQ')
<1> USE DEF dataVars, queueVars, dbVars, handVars, workVars, refVars, luaVars,
            serverVars, history, luaSide, allButTodo, allButPC
<1>a. /\ queue \in Seq(Queries) /\ IsInjective(queue)
      /\ finishedQ \in Seq(Queries) /\ IsInjective(finishedQ) /\ IsInjective(<<>>)
      /\ todo \in Seq(Items)
      /\ \A q \in Queries : Contains(queue, q) => ~Contains(finishedQ, q)
  BY DistinctEmpty DEF TypeOK, OneHolder, NotYet
<1>b. ASSUME NEW p \in Queries, ~Contains(finishedQ, p), finishedQ' = Append(finishedQ, p)
      PROVE  IsInjective(finishedQ')
  <2>1. \A i \in DOMAIN finishedQ : finishedQ[i] # p
    BY <1>a, <1>b, LenProperties DEF Contains
  <2>2. IsInjective(Append(finishedQ, p))
    BY <1>a, <2>1, DistinctAppend
  <2> QED BY <1>b, <2>2
<1>1. CASE LuaCall /\ ~Think
  <2>1. UNCHANGED finishedQ
    BY <1>1 DEF LuaCall, StartQueued, StartRefused, AbortQueued, AbortTaken, Wait,
                Connect, AbortAll, Destroy, Disconnect, ClearQueue
  <2> QED BY <1>a, <2>1
<1>2. CASE Think \/ TakeFinished \/ TakeAndFree
  <2>1. finishedQ' = <<>>
    BY <1>2 DEF Think, TakeFinished, TakingFinished, TakeAndFree, TakingToFree
  <2> QED BY <1>a, <2>1
<1>3. CASE Close
  <2>1. IsInjective(finishedQ \o queue)
    BY <1>a, DistinctConcat
  <2> QED BY <1>3, <2>1 DEF Close, Closing
<1>4. CASE CannotWait
  <2>1. todo[1].of \in Queries
    BY <1>4, <1>a, AtTyped DEF CannotWait, WaitOps
  <2>2. \/ UNCHANGED finishedQ
        \/ Removed(todo[1].of) /\ finishedQ' = Append(finishedQ, todo[1].of)
    BY <1>4 DEF CannotWait, FailNow
  <2> QED BY <1>a, <1>b, <2>1, <2>2 DEF Removed, Contains
<1>5. CASE (LuaStep /\ ~CannotWait /\ ~WaitStore /\ ~Close /\ ~TakeFinished /\ ~TakeAndFree)
           \/ Release \/ SpuriousWake \/ UNCHANGED vars
  <2>1. UNCHANGED finishedQ
    BY <1>5 DEF LuaStep, vars,
             Deliver, Release, AbortStatus, AbortStore, Cancel, CancelActive,
             RequestCancel, PQcancelSent, PQcancelFailed, AbortInFlight, Shutdown,
             Join, WaitEnter, WaitingIf, Block, FallAsleep, SpuriousWake
  <2> QED BY <1>a, <2>1
<1>6. CASE Put
  <2>1. wcur \in Queries /\ ~Contains(finishedQ, wcur) /\ finishedQ' = Append(finishedQ, wcur)
    BY <1>6 DEF Put, Goto, TypeOK, EmptyHanded, OneHolder, InHand, NotYet
  <2> QED BY <1>b, <2>1
<1>7. CASE WorkerStep /\ ~Put
  <2>1. UNCHANGED finishedQ
    BY <1>7 DEF WorkerStep, ConnectSucceeds, ConnectFails, StopWaits,
       FailClose, Doom, DoomDone, TakeNext,
       Exit, SetInFlight, Check, SetRunning, Execute, OpenFails, StatementOk,
       Unguard, Classify, Settle, Complete, Finish, Notify,
       FailClosing, Checking, StatementFails, Classifying, Settling
  <2> QED BY <1>a, <2>1
<1>8. ~WaitStore
  BY DEF WaitStore
<1> QED BY <1>1, <1>2, <1>3, <1>4, <1>5, <1>6, <1>7, <1>8 DEF Next

\* The Lua thread uses the references of an execution in one step only.
LEMMA HeldOnceStep ==
  ASSUME TypeOK, OneHolder, [Next]_vars
  PROVE  HeldOnce(todo')
<1> USE DEF dataVars, queueVars, dbVars, handVars, workVars, refVars, luaVars,
            serverVars, history, luaSide, allButTodo, allButPC
<1>a. /\ todo \in Seq(Items) /\ HeldOnce(todo)
      /\ queue \in Seq(Queries) /\ IsInjective(queue)
      /\ finishedQ \in Seq(Queries) /\ IsInjective(finishedQ)
      /\ \A q \in Queries : Contains(queue, q) \/ Contains(finishedQ, q)
                              => ~Has(todo, Holding, q)
  BY DEF TypeOK, OneHolder, NotYet, Held
<1>b. todo # <<>> => /\ Tail(todo) \in Seq(Items) /\ HeldOnce(Tail(todo))
                     /\ todo[1].op \in Holding => ~Has(Tail(todo), Holding, todo[1].of)
                     /\ \A q : Has(Tail(todo), Holding, q) => Has(todo, Holding, q)
  BY <1>a, ContainsTail, HeldOnceTail, HasTail
<1>c. \A s, q : Avoids(s, Holding) => ~Has(s, Holding, q)
  BY DEF Avoids, Has
<1>d. ASSUME NEW items \in Seq(Items), HeldOnce(items),
             \/ /\ todo' = items \o todo
                /\ \A q \in Queries : ~(Has(items, Holding, q) /\ Has(todo, Holding, q))
             \/ /\ todo # <<>> /\ todo' = items \o Tail(todo)
                /\ \A q \in Queries : ~(Has(items, Holding, q) /\ Has(Tail(todo), Holding, q))
      PROVE  HeldOnce(todo')
  <2>1. CASE todo' = items \o todo
             /\ \A q \in Queries : ~(Has(items, Holding, q) /\ Has(todo, Holding, q))
    <3>1. HeldOnce(items \o todo)
      BY <1>a, <1>d, <2>1, HeldOnceConcat
    <3> QED BY <2>1, <3>1
  <2>2. CASE /\ todo # <<>> /\ todo' = items \o Tail(todo)
             /\ \A q \in Queries : ~(Has(items, Holding, q) /\ Has(Tail(todo), Holding, q))
    <3>1. HeldOnce(items \o Tail(todo))
      BY <1>b, <1>d, <2>2, HeldOnceConcat
    <3> QED BY <2>2, <3>1
  <2> QED BY <1>d, <2>1, <2>2
<1>e. ASSUME NEW items \in Seq(Items), Avoids(items, Holding),
             todo' = items \o todo \/ (todo # <<>> /\ todo' = items \o Tail(todo))
      PROVE  HeldOnce(todo')
  BY <1>c, <1>d, <1>e, HeldOnceNone
<1>f. /\ "wait" \notin Holding /\ "take" \notin Holding /\ "abortStatus" \notin Holding
      /\ "close" \notin Holding /\ "inFlight" \notin Holding /\ "active" \notin Holding
      /\ "deliver" \in Holding /\ "free" \in Holding
  BY DEF Holding
<1>g. /\ Step("active") \in Seq(Items) /\ Avoids(Step("active"), Holding)
      /\ Step("inFlight") \in Seq(Items) /\ Avoids(Step("inFlight"), Holding)
      /\ Step("close") \in Seq(Items) /\ Avoids(Step("close"), Holding)
  BY <1>f, PushAvoids DEF AloneOps
<1>h. ASSUME NEW s \in Seq(Items), NEW t \in Seq(Items), Avoids(s, Holding), Avoids(t, Holding)
      PROVE  s \o t \in Seq(Items) /\ Avoids(s \o t, Holding)
  BY <1>h, ConcatProperties, AvoidsConcat
<1>1. CASE UNCHANGED todo
  BY <1>1, <1>a
<1>2. CASE Pops
  BY <1>2, <1>e, EmptySeq, AvoidsOne DEF Pops, Then
<1>3. ASSUME NEW op \in Ops, NEW p \in Queries, Replaces(op, p)
      PROVE  HeldOnce(todo')
  <2> DEFINE s == <<Item(op, p)>>
  <2>1. /\ s \in Seq(Items) /\ HeldOnce(s) /\ todo # <<>> /\ todo' = s \o Tail(todo)
        /\ \A q : Has(s, Holding, q) <=> op \in Holding /\ p = q
    BY <1>3, HeldOnceNone, HasOne DEF Replaces, Then
  <2>2. op \in Holding => todo[1].op \in Holding /\ p = todo[1].of
    BY <1>3 DEF Replaces, Moves, Holding, Looks
  <2> HIDE DEF s
  <2> QED BY <1>b, <1>d, <2>1, <2>2
<1>4. CASE Shutdown /\ Then(Step("active") \o Step("inFlight") \o Step("close"))
  <2> DEFINE s == Step("active") \o Step("inFlight") \o Step("close")
  <2>1. s \in Seq(Items) /\ Avoids(s, Holding)
    BY <1>g, <1>h
  <2>2. todo # <<>> /\ todo' = s \o Tail(todo)
    BY <1>4 DEF Shutdown, At, Then
  <2> HIDE DEF s
  <2> QED BY <1>e, <2>1, <2>2
<1>5. CASE TakeFinished \/ TakeAndFree \/ Think
  <2>1. PICK op \in Holding :
          \/ todo' = ForAll(op, finishedQ) \o todo
          \/ todo # <<>> /\ todo' = ForAll(op, finishedQ) \o Tail(todo)
    BY <1>5, <1>f DEF TakeFinished, TakingFinished, TakeAndFree, TakingToFree, Think, At, Then,
                      Call
  <2> DEFINE s == ForAll(op, finishedQ)
  <2>2. /\ s \in Seq(Items) /\ HeldOnce(s)
        /\ \A q : Has(s, Holding, q) <=> Contains(finishedQ, q)
    BY <1>a, ForAllTyped, HeldOnceForAll, HasForAll
  <2> HIDE DEF s
  <2>3. \A q \in Queries : /\ ~(Has(s, Holding, q) /\ Has(todo, Holding, q))
                           /\ todo # <<>> => ~(Has(s, Holding, q) /\ Has(Tail(todo), Holding, q))
    BY <1>a, <1>b, <2>2
  <2> QED BY <1>d, <2>1, <2>2, <2>3 DEF s
<1>6. CASE AbortAll \/ Destroy \/ \E wait \in BOOLEAN : Disconnect(wait)
  <2>1. PICK op \in {"deliver", "free"}, looks, rest, last \in Seq(Items) :
          /\ looks = Step("inFlight") \o Step("active")
          /\ LuaRuns /\ todo' = looks \o rest \o todo
          /\ rest = ForAll(op, queue) \o last /\ Avoids(last, Holding)
    BY <1>6, ClearingShape
  <2> DEFINE all == ForAll(op, queue)
  <2>2. /\ all \in Seq(Items) /\ HeldOnce(all) /\ op \in Holding
        /\ \A q : Has(all, Holding, q) <=> Contains(queue, q)
    BY <1>a, <1>f, ForAllTyped, HeldOnceForAll, HasForAll
  <2>3. Avoids(looks, Holding)
    BY <1>g, <1>h, <2>1
  <2>4. rest = all \o last
    BY <2>1
  <2> HIDE DEF all
  <2>5. HeldOnce(rest) /\ \A q : Has(rest, Holding, q) <=> Contains(queue, q)
    <3>1. HeldOnce(last) /\ \A q : ~Has(last, Holding, q)
      BY <1>c, <2>1, HeldOnceNone
    <3> QED BY <2>1, <2>2, <2>4, <3>1, HeldOnceConcat, HasConcat
  <2>6. /\ looks \o rest \in Seq(Items) /\ HeldOnce(looks \o rest)
        /\ \A q : Has(looks \o rest, Holding, q) <=> Contains(queue, q)
    <3>1. HeldOnce(looks) /\ \A q : ~Has(looks, Holding, q)
      BY <1>c, <2>3, HeldOnceNone
    <3>2. looks \o rest \in Seq(Items)
      BY <2>1, ConcatProperties
    <3>3. HeldOnce(looks \o rest)
      BY <2>1, <2>5, <3>1, HeldOnceConcat
    <3>4. \A q : Has(looks \o rest, Holding, q) <=> Has(looks, Holding, q) \/ Has(rest, Holding, q)
      BY <2>1, HasConcat
    <3> QED BY <2>5, <3>1, <3>2, <3>3, <3>4
  <2> DEFINE s == looks \o rest
  <2>7. todo' = s \o todo /\ s \in Seq(Items) /\ HeldOnce(s)
    BY <2>1, <2>6
  <2>8. \A q \in Queries : ~(Has(s, Holding, q) /\ Has(todo, Holding, q))
    BY <1>a, <2>6
  <2> HIDE DEF s
  <2> QED BY <1>d, <2>7, <2>8
<1>7. ASSUME NEW p \in Queries, AbortQueued(p)
      PROVE  HeldOnce(todo')
  <2> DEFINE s == <<Item("deliver", p)>>
  <2>1. /\ s \in Seq(Items) /\ HeldOnce(s) /\ todo' = s \o todo
        /\ \A q : Has(s, Holding, q) <=> p = q
    BY <1>7, <1>f, ItemTyped, HeldOnceNone, HasOne DEF AbortQueued, Call
  <2>2. ~Has(todo, Holding, p)
    BY <1>7, <1>a DEF AbortQueued, Removed, Contains
  <2> HIDE DEF s
  <2> QED BY <1>d, <2>1, <2>2
<1>8. ASSUME NEW p \in Queries, AbortTaken(p)
      PROVE  HeldOnce(todo')
  <2>1. /\ <<Item("abortStatus", p)>> \in Seq(Items) /\ Avoids(<<Item("abortStatus", p)>>, Holding)
    BY <1>f, ItemTyped, AvoidsOne DEF AbortOps
  <2>2. todo' = <<Item("abortStatus", p)>> \o todo
    BY <1>8 DEF AbortTaken, Call
  <2> QED BY <1>e, <2>1, <2>2
<1>9. ASSUME NEW p \in Queries, Wait(p)
      PROVE  HeldOnce(todo')
  <2> DEFINE s == <<Item("wait", p), Item("take", p)>>
  <2>1. Item("wait", p) \in Items /\ Item("take", p) \in Items
    BY ItemTyped DEF WaitOps
  <2>2. s \in Seq(Items) /\ Avoids(s, Holding)
    BY <1>f, <2>1, PushAvoids
  <2>3. todo' = s \o todo
    BY <1>9 DEF Wait, Call
  <2> HIDE DEF s
  <2> QED BY <1>e, <2>2, <2>3
<1> QED BY <1>1, <1>2, <1>3, <1>4, <1>5, <1>6, <1>7, <1>8, <1>9, StackStep

\* What nobody hands back has not been handed back.
LEMMA NotYetStays ==
  ASSUME TypeOK, [Next]_vars, NEW q \in Queries, NotYet(q), ~HandsBack(q), ~(Finish /\ wcur = q)
  PROVE  NotYet(q)'
<1>1. Live(q)'
  <2>1. Release => handle'[q] = handle[q]
    <3> SUFFICES ASSUME Release, todo[1].of = q
                 PROVE  FALSE
      BY DEF Release, TypeOK
    <3>1. todo \in Seq(Items) /\ todo # <<>> /\ todo[1].op \in Holding
      BY DEF Release, At, Holding, TypeOK
    <3>2. Held(q)
      BY <3>1, HasTail DEF Held
    <3> QED BY <3>2 DEF NotYet
  <2> QED BY <2>1, HandleStep DEF NotYet, Live
<1>2. q \notin finished'
  BY FinishedBy DEF NotYet, Live
<1>3. ~Contains(finishedQ', q) /\ ~Held(q)'
  BY NewlyHandedBack DEF NotYet
<1> QED BY <1>1, <1>2, <1>3 DEF NotYet

\* What is queued has not been handed back, is not in the worker's hands, and is not
\* being aborted.
LEMMA QueuedStays ==
  ASSUME IInv, WorkerPlace, OneHolder, ~At("waitStore"), connection # "failed", [Next]_vars,
         NEW q \in Queries, Contains(queue', q)
  PROVE  NotYet(q)' /\ wcur' # q /\ status'[q] = "WAITING" /\ ~Has(todo', AbortOps, q)
<1> USE DEF dataVars, queueVars, dbVars, handVars, workVars, refVars, luaVars,
            serverVars, history, luaSide, allButTodo, allButPC
<1>a. TypeOK /\ queue \in Seq(Queries) /\ todo \in Seq(Items) /\ Contains(queue', q) /\ ~Doom
  BY DEF IInv, TypeOK, DoomedOnlyByFailure, Doom, Goto
<1>1. CASE Contains(queue, q)
  <2>1. /\ NotYet(q) /\ wcur # q /\ status[q] = "WAITING" /\ ~Has(todo, AbortOps, q)
        /\ handle[q] # "new"
    BY <1>1 DEF OneHolder, NotYet, Live
  <2>2. ~HandsBack(q)
    BY <1>a, <2>1, HandsBackWhat
  <2>3. NotYet(q)'
    BY <1>a, <2>1, <2>2, NotYetStays
  <2>4. wcur' # q
    <3>1. ~(TakeNext /\ wcur' = q)
      <4> SUFFICES ASSUME TakeNext, Head(queue) = q
                   PROVE  FALSE
        BY DEF TakeNext
      <4>1. queue # <<>> /\ queue' = Tail(queue) /\ q = queue[1]
        BY <1>a, ContainsTail DEF TakeNext
      <4>2. ~Contains(Tail(queue), queue[1])
        BY <1>a, <4>1, DistinctTakes DEF OneHolder
      <4> QED BY <1>a, <4>1, <4>2
    <3> QED BY <1>a, <2>1, <3>1, WorkerHands
  <2>5. status'[q] = "WAITING"
    <3>1. ~(At("abortStore") /\ todo[1].of = q)
      BY <1>a, <2>1, HasTail DEF At, AbortOps
    <3> QED BY <1>a, <2>1, <2>2, <3>1, StatusStep
  <2>6. ~Has(todo', AbortOps, q)
    <3>1. q # active /\ q # inFlight
      BY <2>1, NoDataAssumption DEF WorkerPlace
    <3>2. ~AbortTaken(q)
      BY <1>1 DEF AbortTaken
    <3> QED BY <1>a, <2>1, <3>1, <3>2, AbortOpsStep
  <2> QED BY <2>3, <2>4, <2>5, <2>6
<1>2. CASE StartQueued(q)
  <2>1. /\ Nowhere(q) /\ handle'[q] = "live" /\ status'[q] = "WAITING"
        /\ UNCHANGED <<finished, finishedQ, todo, wcur>>
    BY <1>a, <1>2 DEF StartQueued, IInv, NewIsNowhere, TypeOK
  <2>2. ~Has(todo', Holding, q) /\ ~Has(todo', AbortOps, q)
    BY <2>1 DEF Nowhere, Has, Ops
  <2> QED BY <2>1, <2>2 DEF Nowhere, NotYet, Live, Held
<1> QED BY <1>a, <1>1, <1>2, QueueShrinks

\* What the worker has in its hands has not been handed back.
LEMMA InHandStays ==
  ASSUME IInv, OneHolder, ~At("waitStore"), connection # "failed", [Next]_vars, wpc' \in InHand
  PROVE  NotYet(wcur)'
<1> USE DEF dataVars, queueVars, dbVars, handVars, workVars, refVars, luaVars,
            serverVars, history, luaSide, allButTodo, allButPC
<1>a. TypeOK /\ queue \in Seq(Queries) /\ ~Doom
  BY DEF IInv, TypeOK, DoomedOnlyByFailure, Doom, Goto
<1>1. CASE TakeNext
  <2>1. /\ queue # <<>> /\ wcur' = queue[1]
        /\ UNCHANGED <<handle, finished, finishedQ, todo>>
    BY <1>1, <1>a, ContainsTail DEF TakeNext
  <2>2. queue[1] \in Queries /\ Contains(queue, queue[1])
    BY <1>a, <2>1, ContainsTail
  <2>3. NotYet(queue[1])
    BY <2>2 DEF OneHolder
  <2> QED BY <2>1, <2>3 DEF NotYet, Live, Held
<1>2. CASE wpc \in InHand /\ UNCHANGED wcur /\ ~Put /\ ~Finish
  <2> DEFINE q == wcur
  <2>1. q \in Queries /\ NotYet(q)
    BY <1>2, <1>a DEF OneHolder, TypeOK, EmptyHanded, InHand
  <2>2. ~Contains(queue, q)
    BY <2>1 DEF OneHolder
  <2> HIDE DEF q
  <2>3. NotYet(q)'
    BY <1>2, <1>a, <2>1, <2>2, HandsBackWhat, NotYetStays DEF q
  <2> QED BY <1>2, <2>3 DEF q
<1> QED BY <1>a, <1>1, <1>2, WorkerHands

\* What is handed back is with the finished ones or with the Lua thread, not both,
\* and is finished by then.
LEMMA HandedBackOnce ==
  ASSUME TypeOK, OneHolder, ~At("waitStore"), [Next]_vars, NEW q \in Queries
  PROVE  /\ Contains(finishedQ', q) => ~Held(q)'
         /\ Contains(finishedQ', q) \/ Held(q)' => q \in finished' \/ (wcur' = q /\ wpc' = "finish")
<1> USE DEF dataVars, queueVars, dbVars, handVars, workVars, refVars, luaVars,
            serverVars, history, luaSide, allButTodo, allButPC
<1>1. ASSUME Contains(finishedQ', q), Held(q)'
      PROVE  FALSE
  <2>1. finishedQ' # <<>>
    BY <1>1, ContainsEmpty
  <2>2. Held(q) \/ GivesToLua(q)
    BY <1>1, <2>1, NewlyHeld
  <2>3. Contains(finishedQ, q) \/ Puts(q)
    BY <1>1, NewlyPut
  <2>4. CASE Puts(q)
    <3>1. NotYet(q)
      BY <2>4, HandsBackWhat DEF HandsBack
    <3>2. GivesToLua(q) => UNCHANGED finishedQ
      BY DEF GivesToLua, AbortQueued, AbortAll, Destroy, Disconnect, ClearQueue
    <3> QED BY <1>1, <2>2, <3>1, <3>2 DEF NotYet
  <2>5. CASE Contains(finishedQ, q)
    <3>1. ~Held(q)
      BY <2>5 DEF OneHolder
    <3>2. GivesToLua(q) => NotYet(q)
      BY HandsBackWhat DEF HandsBack
    <3> QED BY <2>2, <2>5, <3>1, <3>2 DEF NotYet
  <2> QED BY <2>3, <2>4, <2>5
<1>2. ASSUME Contains(finishedQ', q) \/ Held(q)'
      PROVE  q \in finished' \/ (wcur' = q /\ wpc' = "finish")
  <2>1. CASE HandsBack(q)
    BY <2>1, HandsBackWhat
  <2>2. CASE Contains(finishedQ, q) \/ Held(q)
    <3>1. q \in finished \/ (wcur = q /\ wpc = "finish")
      BY <2>2 DEF OneHolder
    <3>2. Finish => wcur \in finished'
      BY DEF Finish
    <3> QED BY <3>1, <3>2, FinishedGrows, WorkerHands
  <2> QED BY <1>2, <2>1, <2>2, NewlyHandedBack
<1> QED BY <1>1, <1>2

\* One callback, and it is the last thing that happens to the references.
LEMMA HeardOnce ==
  ASSUME TypeOK, OneHolder, [Next]_vars, NEW q \in Queries, heard'[q] # <<>>
  PROVE  Len(heard'[q]) = 1 /\ handle'[q] # "new" /\ (Live(q)' => Has(todo', {"callback"}, q))
<1> USE DEF dataVars, queueVars, dbVars, handVars, workVars, refVars, luaVars,
            serverVars, history, luaSide, allButTodo, allButPC
<1>a. todo \in Seq(Items) /\ heard'[q] # <<>>
  BY DEF TypeOK
<1>1. CASE heard'[q] = heard[q]
  <2>1. /\ Len(heard'[q]) = 1 /\ handle[q] # "new"
        /\ Live(q) => Has(todo, {"callback"}, q)
    BY <1>1, <1>a DEF OneHolder
  <2>2. handle'[q] # "new"
    BY <2>1, HandleStep DEF TypeOK
  <2> QED BY <2>1, <2>2, LiveStep, CallbackStays
<1>2. CASE heard'[q] # heard[q]
  <2>1. Deliver
    BY <1>2, OnlyDeliver
  <2>2. /\ todo # <<>> /\ todo[1].op = "deliver" /\ todo[1].of = q /\ Live(q)
        /\ heard' = [heard EXCEPT ![q] = Append(heard[q], Report(q))]
        /\ Then(<<Item("callback", q)>>) /\ UNCHANGED handle
    BY <1>2, <2>1 DEF Deliver, At, TypeOK
  <2>3. heard[q] = <<>>
    <3> SUFFICES ASSUME heard[q] # <<>>
                 PROVE  FALSE
      OBVIOUS
    <3>1. Has(todo, {"callback"}, q)
      BY <2>2 DEF OneHolder
    <3>2. Has(Tail(todo), {"callback"}, q)
      BY <1>a, <2>2, <3>1, HasTail
    <3>3. Has(Tail(todo), Holding, q)
      BY <3>2 DEF Has, Holding
    <3>4. ~Has(Tail(todo), Holding, q)
      BY <1>a, <2>2, HeldOnceTail DEF OneHolder, Holding
    <3> QED BY <3>3, <3>4
  <2>4. heard'[q] = <<Report(q)>>
    BY <2>2, <2>3 DEF TypeOK
  <2>5. Has(todo', {"callback"}, q)
    <3>1. <<Item("callback", q)>> \in Seq(Items)
      BY ItemTyped DEF Holding
    <3>2. Has(<<Item("callback", q)>>, {"callback"}, q)
      BY HasOne
    <3> QED BY <1>a, <2>2, <3>1, <3>2, HasThen
  <2> QED BY <2>2, <2>4, <2>5 DEF Live
<1> QED BY <1>1, <1>2

\* A wait gives an execution up only where no worker will take it, and never one the
\* worker could have.
LEMMA WaitsForWorkerStep ==
  ASSUME IInv, WorkerPlace, OneHolder, WaitsForWorker, WaitsOnTop, connection # "failed", [Next]_vars
  PROVE  WaitsForWorker'
<1> USE DEF dataVars, queueVars, dbVars, handVars, workVars, refVars, luaVars,
            serverVars, history, luaSide, allButTodo, allButPC
<1>a. /\ TypeOK /\ todo \in Seq(Items) /\ todo' \in Seq(Items)
      /\ wpc \in {"none", "done"} => Connect \/ UNCHANGED wpc
  BY TodoTyped, WorkerHands DEF IInv, TypeOK
<1>1. CASE Connect
  <2>1. LuaRuns /\ UNCHANGED todo
    BY <1>1 DEF Connect
  <2> QED BY <2>1 DEF WaitsForWorker, LuaRuns, At
<1>2. CASE UNCHANGED todo /\ ~Connect
  <2>1. /\ At("cannotWait") => wpc \in {"none", "done"}
        /\ ~At("waitStore")
    BY DEF WaitsForWorker
  <2>2. At("cannotWait")' = At("cannotWait") /\ At("waitStore")' = At("waitStore")
    BY <1>2 DEF At
  <2> QED BY <1>2, <1>a, <2>1, <2>2 DEF WaitsForWorker
<1>3. CASE Avoids(todo', WaitOps)
  <2>1. todo' # <<>> => todo'[1].op \notin WaitOps
    BY <1>a, <1>3, AvoidsTail
  <2> QED BY <2>1 DEF WaitsForWorker, At, WaitOps
<1>4. ASSUME NEW q \in Queries, Wait(q)
      PROVE  WaitsForWorker'
  <2> DEFINE s == <<Item("wait", q), Item("take", q)>>
  <2>1. Item("wait", q) \in Items /\ Item("take", q) \in Items
    BY ItemTyped DEF WaitOps
  <2>2. s \in Seq(Items) /\ s # <<>> /\ s[1].op = "wait" /\ todo' = s \o todo
    BY <1>4, <2>1 DEF Wait, Call, Item
  <2> HIDE DEF s
  <2>3. todo'[1] = s[1]
    BY <1>a, <2>2, ConcatProperties
  <2> QED BY <2>2, <2>3 DEF WaitsForWorker, At
<1>5. ASSUME NEW op \in Ops, NEW p \in Queries, Replaces(op, p)
      PROVE  WaitsForWorker'
  <2>1. /\ todo # <<>> /\ todo' # <<>> /\ todo'[1].op = op
        /\ <<todo[1].op, op>> \in Moves
    BY <1>5, <1>a, ThenOne DEF Replaces
  <2>2. op = "cannotWait" => wpc' \in {"none", "done"}
    <3> SUFFICES ASSUME op = "cannotWait"
                 PROVE  wpc' \in {"none", "done"}
      OBVIOUS
    <3>1. wpc \in {"none", "done"}
      BY <1>5 DEF Replaces, WorkerPlace
    <3>2. todo[1].op = "wait"
      BY <2>1 DEF Moves
    <3>3. ~Connect
      BY <2>1, <3>2 DEF Connect, LuaRuns
    <3> QED BY <1>a, <3>1, <3>3
  <2>3. op # "waitStore"
    <3> SUFFICES ASSUME op = "waitStore"
                 PROVE  FALSE
      OBVIOUS
    <3>1. todo[1].op = "cannotWait" /\ wpc \in {"none", "done"}
      BY <2>1 DEF Moves, WaitsForWorker, At
    <3>2. p = todo[1].of /\ p \notin finished /\ ~(status[p] = "WAITING" /\ Contains(queue, p))
      BY <1>5, <3>1 DEF Replaces, Looks
    <3>3. p \in Queries /\ Live(p)
      BY <1>a, <2>1, <3>1, <3>2, AtTyped DEF WaitsOnTop, At, WaitOps
    <3>4. wcur # p /\ ~Contains(doomed, p)
      BY <1>a, <3>1, <3>3, NoDataAssumption, ContainsEmpty
         DEF TypeOK, EmptyHanded, IInv, DoomedOnlyByFailure
    <3>5. ~Contains(queue, p) /\ ~Contains(finishedQ, p) /\ ~Held(p)
      BY <3>1, <3>2, <3>3 DEF OneHolder
    <3> QED BY <3>3, <3>4, <3>5 DEF IInv, NeverLost
  <2> QED BY <2>1, <2>2, <2>3 DEF WaitsForWorker, At
<1> QED BY <1>a, <1>1, <1>2, <1>3, <1>4, <1>5, NewOnTop DEF IInv

LEMMA OneAtATimeStep ==
  ASSUME IInv, WorkerPlace, OneAtATime, WaitsOnTop, [Next]_vars
  PROVE  OneAtATime'
<1> SUFFICES ASSUME connection' # "failed"
             PROVE  OneHolder' /\ WaitsForWorker'
  BY DEF OneAtATime
<1>a. /\ TypeOK /\ NewIsNowhere /\ OneHolder /\ WaitsForWorker /\ ~At("waitStore")
      /\ connection # "failed"
  BY FailureStays DEF IInv, OneAtATime, WaitsForWorker
<1>1. IsInjective(queue') /\ IsInjective(finishedQ') /\ HeldOnce(todo')
  BY <1>a, QueueDistinct, FinishedDistinct, HeldOnceStep DEF OneHolder
<1>2. wpc' \in InHand => NotYet(wcur)'
  BY <1>a, InHandStays
<1>3. \A q \in Queries : Contains(queue', q) =>
        /\ NotYet(q)' /\ wcur' # q
        /\ status'[q] = "WAITING" /\ ~Has(todo', AbortOps, q)
  BY <1>a, QueuedStays
<1>4. \A q \in Queries :
        /\ Contains(finishedQ', q) => ~Held(q)'
        /\ Contains(finishedQ', q) \/ Held(q)'
             => q \in finished' \/ (wcur' = q /\ wpc' = "finish")
  BY <1>a, HandedBackOnce
<1>5. \A q \in Queries : heard'[q] # <<>> =>
        /\ Len(heard'[q]) = 1 /\ handle'[q] # "new"
        /\ Live(q)' => Has(todo', {"callback"}, q)
  BY <1>a, HeardOnce
<1>6. OneHolder'
  BY <1>1, <1>2, <1>3, <1>4, <1>5 DEF OneHolder
<1>7. WaitsForWorker'
  BY <1>a, WaitsForWorkerStep
<1> QED BY <1>6, <1>7

-----------------------------------------------------------------------------
(* What Lua's end leaves to do. *)

\* The stack s ends with the step that takes what has finished, below nothing but
\* steps of the destruction.
EndsInTake(s) ==
  /\ s # <<>> /\ s[Len(s)].op = "takeFree"
  /\ \A i \in 1..Len(s) - 1 : s[i].op \in LeavingOps

\* Its top, and what is below it.
LEMMA EndsInTakeTop ==
  ASSUME NEW s \in Seq(Items), EndsInTake(s)
  PROVE  IF s[1].op = "takeFree" THEN Tail(s) = <<>>
         ELSE s[1].op \in LeavingOps /\ EndsInTake(Tail(s))
<1>1. PICK n \in Nat : n = Len(s) /\ n >= 1
  BY ContainsTail DEF EndsInTake
<1>2. /\ Tail(s) \in Seq(Items) /\ Len(Tail(s)) = n - 1
      /\ \A i \in 1..n - 1 : Tail(s)[i] = s[i + 1]
  BY <1>1, ContainsTail DEF EndsInTake
<1>3. s[n].op = "takeFree" /\ \A i \in 1..n - 1 : s[i].op \in LeavingOps
  BY <1>1 DEF EndsInTake
<1>4. "takeFree" \notin LeavingOps
  BY DEF LeavingOps
<1>5. CASE s[1].op = "takeFree"
  <2>1. ~(1 \in 1..n - 1)
    BY <1>3, <1>4, <1>5
  <2>2. n - 1 = 0
    BY <1>1, <2>1
  <2> QED BY <1>2, <1>5, <2>2, EmptySeq
<1>6. CASE s[1].op # "takeFree"
  <2>1. n # 1
    BY <1>3, <1>6
  <2>2. 1 \in 1..n - 1 /\ n - 1 \in 1..n - 1 /\ (n - 1) + 1 = n
    BY <1>1, <2>1
  <2>3. s[1].op \in LeavingOps
    BY <1>3, <2>2
  <2>4. Tail(s) # <<>> /\ Tail(s)[n - 1].op = "takeFree"
    <3>1. Len(Tail(s)) # 0
      BY <1>2, <2>2
    <3>2. Tail(s)[n - 1] = s[n]
      BY <1>2, <2>2
    <3> QED BY <1>3, <3>1, <3>2, EmptySeq
  <2>5. ASSUME NEW i \in 1..(n - 1) - 1
        PROVE  Tail(s)[i].op \in LeavingOps
    <3>1. i \in 1..n - 1 /\ i + 1 \in 1..n - 1
      BY <1>1
    <3> QED BY <1>2, <1>3, <3>1
  <2> QED BY <1>2, <1>6, <2>3, <2>4, <2>5 DEF EndsInTake
<1> QED BY <1>5, <1>6

\* Steps of the destruction put on top of it.
LEMMA EndsInTakeConcat ==
  ASSUME NEW t \in Seq(Items), Avoids(t, Ops \ LeavingOps), NEW s \in Seq(Items), EndsInTake(s)
  PROVE  EndsInTake(t \o s)
<1> DEFINE u == t \o s
<1>1. PICK m \in Nat : m = Len(t)
  BY LenProperties
<1>2. PICK n \in Nat : n = Len(s) /\ n >= 1
  BY ContainsTail DEF EndsInTake
<1>3. /\ u \in Seq(Items) /\ Len(u) = m + n
      /\ \A i \in 1..m + n : u[i] = IF i <= m THEN t[i] ELSE s[i - m]
  BY <1>1, <1>2, ConcatProperties
<1>4. s[n].op = "takeFree" /\ \A i \in 1..n - 1 : s[i].op \in LeavingOps
  BY <1>2 DEF EndsInTake
<1>5. \A i \in 1..m : t[i].op \in LeavingOps
  <2>1. \A i \in 1..m : t[i] \in Items /\ t[i].op \notin Ops \ LeavingOps
    BY <1>1, ElementOfSeq DEF Avoids
  <2>2. \A item \in Items : item.op \in Ops
    BY DEF Items, Ops
  <2> QED BY <2>1, <2>2
<1> HIDE DEF u
<1>6. u[m + n].op = "takeFree" /\ u # <<>>
  <2>1. m + n \in 1..m + n /\ ~(m + n <= m) /\ (m + n) - m = n
    BY <1>2
  <2>2. u[m + n] = s[n]
    BY <1>3, <2>1
  <2>3. Len(u) # 0
    BY <1>2, <1>3
  <2> QED BY <1>3, <1>4, <2>2, <2>3, EmptySeq
<1>7. ASSUME NEW i \in 1..(m + n) - 1
      PROVE  u[i].op \in LeavingOps
  <2>1. CASE i <= m
    <3>1. i \in 1..m /\ i \in 1..m + n
      BY <1>2, <2>1
    <3> QED BY <1>3, <1>5, <2>1, <3>1
  <2>2. CASE ~(i <= m)
    <3>1. i \in 1..m + n /\ i - m \in 1..n - 1
      BY <1>2, <2>2
    <3> QED BY <1>3, <1>4, <2>2, <3>1
  <2> QED BY <2>1, <2>2
<1>8. EndsInTake(u)
  BY <1>3, <1>6, <1>7 DEF EndsInTake
<1> QED BY <1>8 DEF u

\* The database object is destroyed once, and no call is made on it afterwards.
LEMMA DestroyedBy ==
  ASSUME [Next]_vars
  PROVE  /\ destroyed' => destroyed \/ Destroy
         /\ destroyed => ~LuaCall /\ destroyed'
<1> USE DEF dataVars, queueVars, dbVars, handVars, workVars, refVars, luaVars,
            serverVars, history, luaSide, allButTodo, allButPC
<1>a. destroyed => ~LuaCall
  BY DEF LuaCall, StartQueued, StartRefused, AbortQueued, AbortTaken, Wait, Connect,
         Think, AbortAll, Destroy, Disconnect, ClearQueue, Call
<1>1. CASE LuaCall
  <2>1. Destroy \/ UNCHANGED destroyed
    BY <1>1 DEF LuaCall, StartQueued, StartRefused, AbortQueued, AbortTaken, Wait, Connect,
                Think, AbortAll, Disconnect
  <2> QED BY <1>1, <1>a, <2>1
<1>2. CASE LuaStep
  <2>1. UNCHANGED destroyed
    BY <1>2 DEF LuaStep, Close, Closing, CannotWait, WaitStore, FailNow,
             Deliver, AbortStatus, AbortStore, Cancel, CancelActive,
             RequestCancel, PQcancelSent, PQcancelFailed, AbortInFlight, Shutdown,
             Join, TakeFinished, TakingFinished, TakeAndFree, TakingToFree,
             WaitEnter, WaitingIf, Block, FallAsleep
  <2> QED BY <1>a, <2>1
<1>3. CASE Release \/ SpuriousWake \/ WorkerStep \/ UNCHANGED vars
  <2>1. UNCHANGED destroyed
    BY <1>3, WorkerLeavesLua DEF Release, SpuriousWake, vars
  <2> QED BY <1>a, <2>1
<1> QED BY <1>1, <1>2, <1>3 DEF Next

\* The only way past the join.
LEMMA PastJoin ==
  ASSUME TypeOK, [Next]_vars, todo # <<>>, todo[1].op = "join", ~UNCHANGED todo
  PROVE  wpc \in {"none", "done"}
<1> USE DEF dataVars, queueVars, dbVars, handVars, workVars, refVars, luaVars,
            serverVars, history, luaSide, allButTodo, allButPC
<1>a. ~LuaCall
  BY DEF LuaCall, StartQueued, StartRefused, AbortQueued, AbortTaken, Wait, Connect,
         Think, AbortAll, Destroy, Disconnect, ClearQueue, Call, LuaRuns
<1>1. CASE Join
  BY <1>1 DEF Join, TypeOK
<1>2. ~(LuaStep /\ ~Join) /\ ~Release /\ ~SpuriousWake
  BY DEF LuaStep, Close, Closing, CannotWait, WaitStore,
             Deliver, AbortStatus, AbortStore, Cancel, CancelActive,
             PQcancelSent, PQcancelFailed, AbortInFlight, Shutdown,
             TakeFinished, TakingFinished, TakeAndFree, TakingToFree,
             WaitEnter, WaitingIf, Block, FallAsleep, At, Release, SpuriousWake
<1>3. ~Notify \/ UNCHANGED todo
  BY DEF Notify, At
<1> QED BY <1>a, <1>1, <1>2, <1>3, WorkerLeavesLua DEF Next, vars

\* Once the database object is destroyed, its queue is and stays empty, and the worker is
\* joined before what it handed back is taken and freed.
LEMMA LeavingStep ==
  ASSUME TypeOK, Leaving, [Next]_vars
  PROVE  Leaving'
<1> USE DEF dataVars, queueVars, dbVars, handVars, workVars, refVars, luaVars,
            serverVars, history, luaSide, allButTodo, allButPC
<1> DEFINE Joined(s) == wpc \in {"none", "done"} \/ ~Avoids(s, {"join"})
           AllFree(s) == Avoids(s, Ops \ {"free"})
<1>a. /\ todo \in Seq(Items) /\ todo' \in Seq(Items) /\ TypeOK'
      /\ \A item \in Items : item.op \in Ops
  BY TodoTyped, TypeStep DEF TypeOK, Items, Ops
<1>b. /\ StillToTake <=> EndsInTake(todo) /\ Joined(todo)
      /\ StillToTake' <=> EndsInTake(todo') /\ Joined(todo)'
  BY DEF StillToTake, EndsInTake, Avoids
<1>c. ASSUME NEW s \in Seq(Items)
      PROVE  (\A i \in 1..Len(s) : s[i].op = "free") <=> AllFree(s)
  <2>1. \A i \in 1..Len(s) : s[i].op \in Ops
    BY <1>a, ElementOfSeq
  <2> QED BY <2>1 DEF Avoids, Ops, Holding
<1>d. /\ Freeing <=> AllFree(todo) /\ finishedQ = <<>> /\ wpc \in {"none", "done"}
      /\ Freeing' <=> AllFree(todo') /\ finishedQ' = <<>> /\ wpc' \in {"none", "done"}
  BY <1>a, <1>c DEF Freeing
<1> HIDE DEF Joined, AllFree
<1>1. CASE Destroy
  <2> DEFINE looks  == Step("inFlight") \o Step("active") \o ForAll("free", queue)
             last   == Step("shutdown") \o Step("join")
             ending == Step("takeFree")
             away   == Ops \ LeavingOps
  <2>1. /\ Step("inFlight") \in Seq(Items) /\ Avoids(Step("inFlight"), away)
        /\ Step("active") \in Seq(Items) /\ Avoids(Step("active"), away)
        /\ Step("shutdown") \in Seq(Items) /\ Avoids(Step("shutdown"), away)
        /\ Step("join") \in Seq(Items) /\ Avoids(Step("join"), away)
        /\ Step("takeFree") \in Seq(Items) /\ ~Avoids(Step("join"), {"join"})
        /\ ForAll("free", queue) \in Seq(Items) /\ Avoids(ForAll("free", queue), away)
    <3>1. /\ "inFlight" \notin away /\ "active" \notin away /\ "shutdown" \notin away
          /\ "join" \notin away /\ "free" \notin away /\ "free" \in Holding
      BY DEF LeavingOps, Holding
    <3>2. queue \in Seq(Queries)
      BY DEF TypeOK
    <3>3. ~Avoids(Step("join"), {"join"})
      BY AvoidsOne DEF Step
    <3> HIDE DEF away
    <3> QED BY <3>1, <3>2, <3>3, ItemTyped, AvoidsOne, AvoidsForAll DEF AloneOps, Step
  <2>2. /\ todo = <<>> /\ queue' = <<>>
        /\ todo' = (looks \o (last \o ending)) \o todo
    BY <1>1 DEF Destroy, ClearQueue, Call
  <2>3. ending # <<>> /\ EndsInTake(ending)
    BY DEF EndsInTake, Step, Item
  <2> HIDE DEF away
  <2>4. /\ last \in Seq(Items) /\ Avoids(last, away) /\ ~Avoids(last, {"join"})
        /\ looks \in Seq(Items) /\ Avoids(looks, away)
    <3>1. last \in Seq(Items) /\ Avoids(last, away) /\ ~Avoids(last, {"join"})
      BY <2>1, ConcatProperties, AvoidsConcat
    <3>2. /\ Step("inFlight") \o Step("active") \in Seq(Items)
          /\ Avoids(Step("inFlight") \o Step("active"), away)
      BY <2>1, ConcatProperties, AvoidsConcat
    <3>3. looks \in Seq(Items) /\ Avoids(looks, away)
      BY <2>1, <3>2, ConcatProperties, AvoidsConcat
    <3> QED BY <3>1, <3>3
  <2> HIDE DEF looks, last, ending
  <2>5. ending \in Seq(Items)
    BY <2>1 DEF ending
  <2>6. last \o ending \in Seq(Items) /\ EndsInTake(last \o ending)
    BY <2>3, <2>4, <2>5, ConcatProperties, EndsInTakeConcat DEF away
  <2>7. looks \o (last \o ending) \in Seq(Items) /\ EndsInTake(looks \o (last \o ending))
    BY <2>4, <2>6, ConcatProperties, EndsInTakeConcat DEF away
  <2>8. ~Avoids(looks \o (last \o ending), {"join"})
    BY <2>4, <2>5, <2>6, AvoidsConcat
  <2>9. todo' = looks \o (last \o ending)
    BY <2>2, <2>7, ConcatEmptySeq
  <2>10. StillToTake'
    BY <1>b, <2>7, <2>8, <2>9 DEF Joined
  <2> QED BY <2>2, <2>10 DEF Leaving
<1>2. CASE ~destroyed /\ ~Destroy
  BY <1>2, DestroyedBy DEF Leaving
<1>3. CASE destroyed
  <2>a. ~LuaCall /\ ~Connect /\ queue = <<>> /\ (Freeing \/ StillToTake)
    BY <1>3, DestroyedBy DEF Leaving, LuaCall
  <2>b. queue' = <<>>
    <3>1. queue' \in Seq(Queries)
      BY <1>a DEF TypeOK
    <3>2. ASSUME queue' # <<>>
          PROVE  FALSE
      <4>1. queue'[1] \in Queries /\ Contains(queue', queue'[1])
        BY <3>1, <3>2, ContainsTail
      <4>2. ~StartQueued(queue'[1])
        BY <2>a, <4>1 DEF LuaCall
      <4> QED BY <2>a, <4>1, <4>2, QueueShrinks, ContainsEmpty
    <3> QED BY <3>2
  <2>c. wpc \in {"none", "done"} => UNCHANGED wpc
    BY <2>a, WorkerHands
  <2>1. CASE Freeing
    <3>1. AllFree(todo) /\ finishedQ = <<>> /\ wpc \in {"none", "done"}
      BY <1>d, <2>1
    <3>2. todo # <<>> => todo[1].op = "free" /\ AllFree(Tail(todo))
      <4> SUFFICES ASSUME todo # <<>>
                   PROVE  todo[1].op = "free" /\ AllFree(Tail(todo))
        OBVIOUS
      <4>1. todo[1].op \notin Ops \ {"free"} /\ Avoids(Tail(todo), Ops \ {"free"})
        BY <1>a, <3>1, AvoidsTail DEF AllFree
      <4> QED BY <1>a, <4>1, TopTyped DEF AllFree
    <3>3. ~LuaStep /\ ~SpuriousWake /\ ~WorkerStep
      <4>1. ~LuaStep /\ ~SpuriousWake
        BY <3>2 DEF LuaStep, Close, Closing, CannotWait, WaitStore,
             Deliver, AbortStatus, AbortStore, Cancel, CancelActive, Join,
             PQcancelSent, PQcancelFailed, AbortInFlight, Shutdown,
             TakeFinished, TakingFinished, TakeAndFree, TakingToFree,
             WaitEnter, WaitingIf, Block, FallAsleep, At, SpuriousWake
      <4>2. ~WorkerStep
        BY <3>1 DEF WorkerStep, ConnectSucceeds, ConnectFails, StopWaits, FailClose, Doom,
             DoomDone, TakeNext, Exit, SetInFlight, Check, SetRunning, Execute, OpenFails,
             StatementOk, Unguard, Classify, Settle, Complete, Put, Finish, Notify,
             FailClosing, Checking, StatementFails, Classifying, Settling, Goto
      <4> QED BY <4>1, <4>2
    <3>4. CASE Release
      <4>1. todo # <<>> /\ UNCHANGED <<finishedQ, wpc>> /\ todo' = <<>> \o Tail(todo)
        BY <3>4 DEF Release, At, Then
      <4>2. todo' = Tail(todo)
        BY <1>a, <4>1, ContainsTail, ConcatEmptySeq
      <4> QED BY <1>d, <2>b, <3>1, <3>2, <4>1, <4>2 DEF Leaving
    <3>5. CASE UNCHANGED vars
      BY <1>d, <2>b, <3>1, <3>5 DEF Leaving, vars
    <3> QED BY <2>a, <3>3, <3>4, <3>5 DEF Next
  <2>2. CASE StillToTake
    <3>a. EndsInTake(todo) /\ Joined(todo) /\ todo # <<>>
      BY <1>b, <2>2 DEF EndsInTake
    <3>b. Tail(todo) \in Seq(Items)
      BY <1>a, <3>a, ContainsTail
    <3>1. CASE UNCHANGED todo
      <4>1. Joined(todo)'
        BY <2>c, <3>a, <3>1 DEF Joined, Avoids
      <4> QED BY <1>b, <2>b, <3>a, <3>1, <4>1 DEF Leaving
    <3>2. ASSUME todo[1].op = "takeFree", ~UNCHANGED todo
          PROVE  Leaving'
      <4>1. TakeAndFree
        <5>1. ~(LuaStep /\ ~TakeAndFree) /\ ~Release /\ ~SpuriousWake
          BY <3>2 DEF LuaStep, Close, Closing, CannotWait, WaitStore,
             Deliver, AbortStatus, AbortStore, Cancel, CancelActive, Join,
             PQcancelSent, PQcancelFailed, AbortInFlight, Shutdown,
             TakeFinished, TakingFinished, WaitEnter, WaitingIf, Block, FallAsleep, At,
             Release, SpuriousWake
        <5>2. ~Notify \/ UNCHANGED todo
          BY <3>2 DEF Notify, At
        <5> QED BY <2>a, <3>2, <5>1, <5>2, WorkerLeavesLua DEF Next, vars
      <4>2. Tail(todo) = <<>> /\ finishedQ' = <<>> /\ UNCHANGED wpc
            /\ todo' = ForAll("free", finishedQ) \o Tail(todo)
        BY <1>a, <3>a, <3>2, <4>1, EndsInTakeTop DEF TakeAndFree, TakingToFree, Then
      <4>3. ForAll("free", finishedQ) \in Seq(Items) /\ AllFree(ForAll("free", finishedQ))
        BY AvoidsForAll DEF TypeOK, Holding, AllFree
      <4>4. todo' = ForAll("free", finishedQ)
        BY <4>2, <4>3, ConcatEmptySeq
      <4>5. wpc \in {"none", "done"}
        <5>1. Avoids(todo, {"join"})
          <6>1. Avoids(Tail(todo), {"join"}) /\ todo[1].op \notin {"join"}
            BY <3>2, <4>2, AvoidsOne
          <6> QED BY <1>a, <3>a, <6>1, AvoidsTail
        <5> QED BY <3>a, <5>1 DEF Joined
      <4> QED BY <1>d, <2>b, <4>2, <4>3, <4>4, <4>5 DEF Leaving
    <3>3. ASSUME todo[1].op # "takeFree", ~UNCHANGED todo
          PROVE  Leaving'
      <4>a. todo[1].op \in LeavingOps /\ EndsInTake(Tail(todo))
        BY <1>a, <3>a, <3>3, EndsInTakeTop
      <4>b. Joined(Tail(todo))
        <5>1. todo[1].op # "join" => (Avoids(Tail(todo), {"join"}) => Avoids(todo, {"join"}))
          BY <1>a, <3>a, AvoidsTail
        <5>2. todo[1].op = "join" => wpc \in {"none", "done"}
          BY <3>a, <3>3, PastJoin
        <5> QED BY <3>a, <5>1, <5>2 DEF Joined
      <4>c. ASSUME NEW items \in Seq(Items), Avoids(items, Ops \ LeavingOps),
                   todo' = items \o Tail(todo)
            PROVE  Leaving'
        <5>1. EndsInTake(todo')
          BY <3>b, <4>a, <4>c, EndsInTakeConcat
        <5>2. Avoids(todo', {"join"}) => Avoids(Tail(todo), {"join"})
          BY <3>b, <4>c, AvoidsConcat
        <5>3. Joined(todo)'
          BY <2>c, <4>b, <5>2 DEF Joined, Avoids
        <5> QED BY <1>b, <2>b, <5>1, <5>3 DEF Leaving
      <4>1. CASE Pops
        BY <4>1, <4>c, AvoidsOne, EmptySeq DEF Pops, Then
      <4>2. ASSUME NEW op \in Ops, NEW p \in Queries, Replaces(op, p)
            PROVE  Leaving'
        <5>1. op \in {"abortStore", "pqcancel"}
          BY <4>2, <4>a DEF Replaces, Moves, LeavingOps
        <5>2. <<Item(op, p)>> \in Seq(Items) /\ Avoids(<<Item(op, p)>>, Ops \ LeavingOps)
          BY <4>2, <5>1, AvoidsOne DEF Replaces, LeavingOps
        <5> QED BY <4>2, <4>c, <5>2 DEF Replaces, Then
      <4>3. CASE Then(Step("active") \o Step("inFlight") \o Step("close"))
        <5> DEFINE away == Ops \ LeavingOps
        <5>1. "active" \notin away /\ "inFlight" \notin away /\ "close" \notin away
          BY DEF LeavingOps
        <5> HIDE DEF away
        <5>2. /\ Step("active") \in Seq(Items) /\ Avoids(Step("active"), away)
              /\ Step("inFlight") \in Seq(Items) /\ Avoids(Step("inFlight"), away)
              /\ Step("close") \in Seq(Items) /\ Avoids(Step("close"), away)
          BY <5>1, PushAvoids DEF AloneOps
        <5>3. /\ Step("active") \o Step("inFlight") \in Seq(Items)
              /\ Avoids(Step("active") \o Step("inFlight"), away)
          BY <5>2, ConcatProperties, AvoidsConcat
        <5>4. /\ Step("active") \o Step("inFlight") \o Step("close") \in Seq(Items)
              /\ Avoids(Step("active") \o Step("inFlight") \o Step("close"), away)
          BY <5>2, <5>3, ConcatProperties, AvoidsConcat
        <5> QED BY <4>3, <4>c, <5>4 DEF Then, away
      <4>4. ~TakeFinished /\ ~TakeAndFree
        BY <3>3, <4>a DEF TakeFinished, TakingFinished, TakeAndFree, TakingToFree, At,
                          LeavingOps
      <4> QED BY <2>a, <3>3, <4>1, <4>2, <4>3, <4>4, StackStep DEF LuaCall
    <3> QED BY <3>1, <3>2, <3>3
  <2> QED BY <2>a, <2>1, <2>2
<1> QED BY <1>1, <1>2, <1>3

\* How a statement ends is noted when it ends.
LEMMA RanOnlyInExec ==
  ASSUME [Next]_vars
  PROVE  StatementOk \/ (\E o \in {"error", "cancelled", "lost"} : StatementFails(o))
         \/ UNCHANGED ran
<1> USE DEF dataVars, queueVars, dbVars, handVars, workVars, refVars, luaVars,
            serverVars, history, luaSide, allButTodo, allButPC
<1>1. CASE (LuaCall /\ ~Connect) \/ LuaStep \/ Release \/ SpuriousWake \/ UNCHANGED vars
  BY <1>1, LuaLeavesWorker
<1>2. CASE Connect
  BY <1>2 DEF Connect
<1>3. CASE WorkerStep
  BY <1>3 DEF WorkerStep, ConnectSucceeds, ConnectFails, StopWaits, FailClose, Doom, DoomDone,
     TakeNext, Exit, SetInFlight, Check, SetRunning, Execute, OpenFails, Unguard, Classify,
     Settle, Complete, Put, Finish, Notify, FailClosing, Checking, Classifying, Settling
<1> QED BY <1>1, <1>2, <1>3 DEF Next

-----------------------------------------------------------------------------
(* The theorems. *)

\* In the initial states nothing was started, and nothing is left to do.
LEMMA ReportInit == Init => ReportInv
<1> SUFFICES ASSUME Init
             PROVE  ReportInv
  OBVIOUS
<1>1. IInv
  BY InductiveInit
<1>2. WorkerPlace
  BY DEF Init, WorkerPlace, InHand
<1>3. OneAtATime
  <2>1. /\ todo = <<>> /\ queue = <<>> /\ finishedQ = <<>> /\ wpc = "none"
        /\ \A q \in Queries : heard[q] = <<>>
    BY DEF Init
  <2>2. IsInjective(<<>>) /\ HeldOnce(<<>>)
    BY DistinctEmpty, HeldOnceNone, AvoidsOne, EmptySeq
  <2>3. \A q \in Queries : ~Held(q) /\ ~Contains(queue, q) /\ ~Contains(finishedQ, q)
    BY <2>1, ContainsEmpty DEF Held, Has
  <2>4. OneHolder
    BY <2>1, <2>2, <2>3 DEF OneHolder, InHand
  <2> QED BY <2>1, <2>4 DEF OneAtATime, WaitsForWorker, At
<1>4. WaitsOnTop
  BY DEF Init, WaitsOnTop, At
<1>5. ResultKnown
  <2>1. /\ todo = <<>> /\ finishedQ = <<>> /\ wpc = "none"
        /\ \A q \in Queries : heard[q] = <<>>
    BY DEF Init
  <2>2. \A q \in Queries : ~Held(q) /\ ~Contains(finishedQ, q)
    BY <2>1, ContainsEmpty DEF Held, Has
  <2> QED BY <2>1, <2>2 DEF ResultKnown, NoneNeverDelivered, ToSet
<1>6. ResultIsTrue
  BY DEF Init, ResultIsTrue, ResultsAreTrue, ToSet
<1>7. AbortWasAsked
  BY DEF Init, AbortWasAsked, AbortedOnlyIfAsked, ToSet, LooksFirst, Live, Started
<1>8. Leaving
  BY DEF Init, Leaving
<1> QED BY <1>1, <1>2, <1>3, <1>4, <1>5, <1>6, <1>7, <1>8 DEF ReportInv

\* Every step keeps every part.
LEMMA ReportStep == ReportInv /\ [Next]_vars => ReportInv'
BY InductiveStep, WorkerPlaceStep, OneAtATimeStep, WaitsOnTopStep, ResultKnownStep,
   ResultTrueStep, AbortWasAskedStep, LeavingStep DEF ReportInv, IInv

\* What makes the reports right holds in every reachable state: where the worker is and
\* with which connection, that an execution is in one place at a time, that what is
\* handed back has a result the server gave, that an abort was asked for, and what a
\* destroyed database object still does.
THEOREM ReportInductive == Spec => []ReportInv
<1>1. Init => ReportInv
  BY ReportInit
<1>2. ReportInv /\ [Next]_vars => ReportInv'
  BY ReportStep
<1> QED BY <1>1, <1>2, PTL DEF Spec

\* Unless the connection failed, Lua hears one callback of an execution at most:
\* abortQueued, closeAndClear, takeNext and the finished queue hand each pair on to one
\* taker (Database.cpp:55-78, LuaDatabase.cpp:517-521).
THEOREM OneCallbackAtMost == Spec => []OneCallback
<1>1. ReportInv => OneCallback
  <2> SUFFICES ASSUME TypeOK, OneHolder, NEW q \in Queries
               PROVE  Len(heard[q]) <= 1
    BY DEF ReportInv, IInv, OneAtATime, OneCallback
  <2>1. Len(<<>>) = 0
    OBVIOUS
  <2>2. PICK n : n = Len(heard[q])
    OBVIOUS
  <2>3. heard[q] = <<>> \/ n = 1
    BY <2>2 DEF OneHolder
  <2>4. n = 0 \/ n = 1
    BY <2>1, <2>2, <2>3
  <2>5. n <= 1
    BY <2>4
  <2> QED BY <2>2, <2>5
<1> QED BY <1>1, ReportInductive, PTL

\* onSuccess is delivered only for a statement the server completed, and onError only for
\* one it did not (Database.cpp:275-308).
THEOREM ReportsAreTrue == Spec => []ResultsAreTrue
<1>1. ReportInv => ResultsAreTrue
  BY DEF ReportInv, ResultIsTrue
<1> QED BY <1>1, ReportInductive, PTL

\* No execution is handed back as completed without a result, the case runCallback marks
\* "Should not happen" (LuaIQuery.cpp:187-188).
THEOREM NoneIsNeverDelivered == Spec => []NoneNeverDelivered
<1>1. ReportInv => NoneNeverDelivered
  BY DEF ReportInv, ResultKnown
<1> QED BY <1>1, ReportInductive, PTL

\* onAborted is delivered only for executions Lua asked to abort, by abort(),
\* abortAllQueries(), disconnect() or the end of the object (Database.cpp:285, 295).
THEOREM AbortsWereAsked == Spec => []AbortedOnlyIfAsked
<1>1. ReportInv => AbortedOnlyIfAsked
  BY DEF ReportInv, AbortWasAsked
<1> QED BY <1>1, ReportInductive, PTL

\* Once the destruction of the database object has run, no execution has callback
\* references left (LuaDatabase.cpp:539-556).
THEOREM NoReferenceLeaks == Spec => []NothingLeaks
<1>1. ReportInv => NothingLeaks
  <2> SUFFICES ASSUME ReportInv, destroyed, todo = <<>>, NEW q \in Queries, Live(q)
               PROVE  FALSE
    BY DEF NothingLeaks, Started
  <2>1. queue = <<>> /\ finishedQ = <<>> /\ wpc \in {"none", "done"}
    BY DEF ReportInv, Leaving, StillToTake, Freeing
  <2>2. ~Contains(queue, q) /\ ~Contains(finishedQ, q) /\ ~Held(q)
    BY <2>1, ContainsEmpty DEF Held, Has
  <2>3. doomed = <<>> /\ wcur = NoData
    BY <2>1 DEF ReportInv, IInv, DoomedOnlyByFailure, TypeOK, EmptyHanded
  <2>4. ~Contains(doomed, q) /\ wcur # q
    BY <2>3, ContainsEmpty, NoDataAssumption
  <2> QED BY <2>2, <2>4 DEF ReportInv, IInv, NeverLost
<1> QED BY <1>1, ReportInductive, PTL

\* A statement ends on the server only while its execution is the worker's: nobody has
\* reported it finished, or run a callback of it, before (Database.cpp:310-341).
THEOREM NoStatementIsLate == Spec => NoLateStatement
<1>1. ReportInv /\ [Next]_vars =>
        [\A q \in Queries : ran'[q] # ran[q] => q \notin finished /\ heard[q] = <<>>]_vars
  <2> SUFFICES ASSUME ReportInv, [Next]_vars, NEW q \in Queries, ran'[q] # ran[q]
               PROVE  q \notin finished /\ heard[q] = <<>>
    OBVIOUS
  <2>0. ran'[q] # ran[q]
    OBVIOUS
  <2>1. wpc = "exec" /\ wcur = q
    <3>1. StatementOk \/ (\E o \in {"error", "cancelled", "lost"} : StatementFails(o))
          \/ UNCHANGED ran
      BY RanOnlyInExec
    <3>2. CASE StatementOk \/ \E o \in {"error", "cancelled", "lost"} : StatementFails(o)
      <4>1. wpc = "exec" /\ \E o : ran' = [ran EXCEPT ![wcur] = o]
        BY <3>2 DEF StatementOk, StatementFails, Goto
      <4>2. ran \in [Queries -> Outcomes]
        BY DEF ReportInv, IInv, TypeOK
      <4> QED BY <2>0, <4>1, <4>2
    <3> QED BY <2>0, <3>1, <3>2
  <2>2. TypeOK /\ NewIsNowhere /\ OneHolder
    BY <2>1 DEF ReportInv, IInv, OneAtATime, WorkerPlace, InHand
  <2> QED BY <2>1, <2>2, NotHeardYet DEF InHand
<1> QED BY <1>1, ReportInductive, PTL DEF Spec, NoLateStatement
=============================================================================
