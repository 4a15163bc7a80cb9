------------------------- MODULE BlockingQueueProofs -------------------------
(***************************************************************************)
(* Proofs about BlockingQueue, for every set of items and every set of     *)
(* threads, one of which takes.                                            *)
(***************************************************************************)
EXTENDS BlockingQueue, SequenceLemmas

-----------------------------------------------------------------------------
(* What the actions do to the queue and to the threads. *)

\* The queue's methods keep its type.
LEMMA QueueTyped ==
  ASSUME TypeOK
  PROVE  /\ queue = <<>> \/ (Tail(queue) \in Seq(Items) /\ IsInjective(Tail(queue)))
         /\ \A x \in Items : ~Queued(x) =>
              /\ Append(queue, x) \in Seq(Items) /\ IsInjective(Append(queue, x))
         /\ \A i \in DOMAIN queue :
              /\ RemoveAt(queue, i) \in Seq(Items) /\ IsInjective(RemoveAt(queue, i))
              /\ i # 1 =>
                   LET t == [queue EXCEPT ![1] = queue[i], ![i] = queue[1]] IN
                   t \in Seq(Items) /\ IsInjective(t)
<1>1. /\ queue \in Seq(Items) /\ IsInjective(queue)
      /\ Len(queue) \in Nat /\ DOMAIN queue = 1..Len(queue)
  BY LenProperties DEF TypeOK
<1>2. queue = <<>> \/ (Tail(queue) \in Seq(Items) /\ IsInjective(Tail(queue)))
  BY <1>1, ContainsTail, DistinctTail
<1>3. ASSUME NEW x \in Items, ~Queued(x)
      PROVE  Append(queue, x) \in Seq(Items) /\ IsInjective(Append(queue, x))
  BY <1>1, <1>3, AppendProperties, DistinctAppend DEF Queued
<1>4. ASSUME NEW i \in DOMAIN queue
      PROVE  RemoveAt(queue, i) \in Seq(Items) /\ IsInjective(RemoveAt(queue, i))
  BY <1>1, RemoveAtProperties, DistinctRemoveAt
<1>5. ASSUME NEW i \in DOMAIN queue, i # 1
      PROVE  LET t == [queue EXCEPT ![1] = queue[i], ![i] = queue[1]] IN
             t \in Seq(Items) /\ IsInjective(t)
  <2>1. i \in 2..Len(queue)
    BY <1>1, <1>5
  <2> QED BY <1>1, <2>1, DistinctSwap
<1> QED BY <1>2, <1>3, <1>4, <1>5

\* A thread that goes somewhere.
LEMMA GotoTyped ==
  ASSUME TypeOK, NEW t \in Threads, NEW to \in PCs, Goto(t, to),
         to \in {"taking", "asleep", "done"} => t = Taker
  PROVE  /\ pc' \in [Threads -> PCs]
         /\ \A u \in Threads : pc'[u] = IF u = t THEN to ELSE pc[u]
         /\ \A u \in Threads : pc'[u] \in {"taking", "asleep", "done"} => u = Taker
BY DEF TypeOK, Goto

\* What a notification does.
LEMMA NotifyTyped ==
  ASSUME TypeOK, NEW t \in Threads, Notify(t)
  PROVE  /\ pc' \in [Threads -> PCs]
         /\ pc'[Taker] # "asleep"
         /\ \A u \in Threads : pc'[u] \in {"taking", "asleep", "done"} => u = Taker
         /\ t # Taker => pc'[Taker] = IF pc[Taker] = "asleep" THEN "taking" ELSE pc[Taker]
         /\ t = Taker => pc'[Taker] = "idle"
BY TakerAssumption DEF TypeOK, Notify, PCs

-----------------------------------------------------------------------------
(* The inductive invariant. *)

IInv == TypeOK /\ WakeUpIsDue /\ NothingLeftBehind

LEMMA InitEstablishes == Init => IInv
<1> SUFFICES ASSUME Init PROVE IInv
  OBVIOUS
<1>1. TypeOK
  BY DistinctEmpty, TakerAssumption DEF Init, TypeOK, PCs
<1>2. WakeUpIsDue /\ NothingLeftBehind
  BY TakerAssumption DEF Init, WakeUpIsDue, NothingLeftBehind
<1> QED BY <1>1, <1>2 DEF IInv

\* A put: the item, and a notification on its way.
LEMMA PutPreserves ==
  ASSUME IInv, NEW t \in Threads, NEW x \in Items, Put(t, x)
  PROVE  IInv'
<1>1. /\ TypeOK /\ ~closed /\ closed' = closed /\ pc[t] = "idle"
      /\ queue' = Append(queue, x) /\ Goto(t, "notifyOne") /\ ~Queued(x)
  BY DEF IInv, Put, Putting, Idle
<1>2. /\ pc' \in [Threads -> PCs]
      /\ \A u \in Threads : pc'[u] = IF u = t THEN "notifyOne" ELSE pc[u]
      /\ \A u \in Threads : pc'[u] \in {"taking", "asleep", "done"} => u = Taker
  BY <1>1, GotoTyped DEF PCs
<1>3. TypeOK'
  BY <1>1, <1>2, QueueTyped DEF TypeOK
<1>4. WakeUpIsDue'
  BY <1>2 DEF WakeUpIsDue
<1>5. NothingLeftBehind'
  BY <1>1, <1>2, TakerAssumption DEF IInv, NothingLeftBehind
<1> QED BY <1>3, <1>4, <1>5 DEF IInv

\* A method that rearranges the queue, or takes items away, and notifies nobody.
LEMMA RearrangingPreserves ==
  ASSUME IInv, closed' = closed, pc' = pc,
         queue' \in Seq(Items), IsInjective(queue'), queue = <<>> => queue' = <<>>
  PROVE  IInv'
<1>1. TypeOK'
  BY DEF IInv, TypeOK
<1>2. WakeUpIsDue' /\ NothingLeftBehind'
  BY DEF IInv, WakeUpIsDue, NothingLeftBehind
<1> QED BY <1>1, <1>2 DEF IInv

\* close() and closeAndClear(): closed, and a notification on its way.
LEMMA ClosingPreserves ==
  ASSUME IInv, NEW t \in Threads, Closing(t, "notifyAll"), queue' \in {queue, <<>>}
  PROVE  IInv'
<1>1. /\ TypeOK /\ closed' = TRUE /\ pc[t] = "idle" /\ Goto(t, "notifyAll")
  BY DEF IInv, Closing, Idle
<1>2. /\ pc' \in [Threads -> PCs]
      /\ \A u \in Threads : pc'[u] = IF u = t THEN "notifyAll" ELSE pc[u]
      /\ \A u \in Threads : pc'[u] \in {"taking", "asleep", "done"} => u = Taker
  BY <1>1, GotoTyped DEF PCs
<1>3. queue' \in Seq(Items) /\ IsInjective(queue')
  BY <1>1, DistinctEmpty DEF TypeOK
<1>4. TypeOK'
  BY <1>1, <1>2, <1>3 DEF TypeOK
<1>5. WakeUpIsDue'
  BY <1>2 DEF WakeUpIsDue
<1>6. NothingLeftBehind'
  BY <1>1, <1>2, TakerAssumption DEF IInv, NothingLeftBehind
<1> QED BY <1>4, <1>5, <1>6 DEF IInv

\* The notification arrives: the worker does not sleep after it.
LEMMA NotifyPreserves ==
  ASSUME IInv, NEW t \in Threads, Notify(t)
  PROVE  IInv'
<1>1. /\ TypeOK /\ queue' = queue /\ closed' = closed
  BY DEF IInv, Notify
<1>2. TypeOK'
  BY <1>1, NotifyTyped DEF TypeOK
<1>3. WakeUpIsDue' /\ NothingLeftBehind'
  BY <1>1, NotifyTyped DEF IInv, WakeUpIsDue, NothingLeftBehind
<1> QED BY <1>2, <1>3 DEF IInv

\* The steps of take().
LEMMA TakerPreserves ==
  ASSUME IInv, CallTake \/ Take \/ TakeEnds \/ FallAsleep \/ SpuriousWake
  PROVE  IInv'
<1> USE TakerAssumption
<1>1. TypeOK
  BY DEF IInv
<1>2. CASE CallTake
  <2>1. queue' = queue /\ closed' = closed /\ Goto(Taker, "taking")
    BY <1>2 DEF CallTake
  <2>2. /\ pc' \in [Threads -> PCs] /\ pc'[Taker] = "taking"
        /\ \A u \in Threads : pc'[u] \in {"taking", "asleep", "done"} => u = Taker
    BY <1>1, <2>1, GotoTyped DEF PCs
  <2> QED BY <1>1, <2>1, <2>2 DEF IInv, TypeOK, WakeUpIsDue, NothingLeftBehind
<1>3. CASE Take
  <2>1. queue # <<>> /\ queue' = Tail(queue) /\ closed' = closed /\ Goto(Taker, "idle")
    BY <1>3 DEF Take
  <2>2. /\ pc' \in [Threads -> PCs] /\ pc'[Taker] = "idle"
        /\ \A u \in Threads : pc'[u] \in {"taking", "asleep", "done"} => u = Taker
    BY <1>1, <2>1, GotoTyped DEF PCs
  <2>3. TypeOK'
    BY <1>1, <2>1, <2>2, QueueTyped DEF TypeOK
  <2> QED BY <2>2, <2>3 DEF IInv, WakeUpIsDue, NothingLeftBehind
<1>4. CASE TakeEnds
  <2>1. closed /\ queue = <<>> /\ queue' = queue /\ closed' = closed /\ Goto(Taker, "done")
    BY <1>4 DEF TakeEnds
  <2>2. /\ pc' \in [Threads -> PCs] /\ pc'[Taker] = "done"
        /\ \A u \in Threads : pc'[u] \in {"taking", "asleep", "done"} => u = Taker
    BY <1>1, <2>1, GotoTyped DEF PCs
  <2> QED BY <1>1, <2>1, <2>2 DEF IInv, TypeOK, WakeUpIsDue, NothingLeftBehind
<1>5. CASE FallAsleep
  <2>1. ~closed /\ queue = <<>> /\ queue' = queue /\ closed' = closed /\ Goto(Taker, "asleep")
    BY <1>5 DEF FallAsleep
  <2>2. /\ pc' \in [Threads -> PCs] /\ pc'[Taker] = "asleep"
        /\ \A u \in Threads : pc'[u] \in {"taking", "asleep", "done"} => u = Taker
    BY <1>1, <2>1, GotoTyped DEF PCs
  <2> QED BY <1>1, <2>1, <2>2 DEF IInv, TypeOK, WakeUpIsDue, NothingLeftBehind
<1>6. CASE SpuriousWake
  <2>1. queue' = queue /\ closed' = closed /\ Goto(Taker, "taking")
    BY <1>6 DEF SpuriousWake
  <2>2. /\ pc' \in [Threads -> PCs] /\ pc'[Taker] = "taking"
        /\ \A u \in Threads : pc'[u] \in {"taking", "asleep", "done"} => u = Taker
    BY <1>1, <2>1, GotoTyped DEF PCs
  <2> QED BY <1>1, <2>1, <2>2 DEF IInv, TypeOK, WakeUpIsDue, NothingLeftBehind
<1> QED BY <1>2, <1>3, <1>4, <1>5, <1>6

\* Every step preserves it.
LEMMA NextPreserves == IInv /\ [Next]_vars => IInv'
<1> SUFFICES ASSUME IInv, [Next]_vars PROVE IInv'
  OBVIOUS
<1>1. TypeOK
  BY DEF IInv
<1>2. ASSUME NEW t \in Threads, NEW x \in Items, Put(t, x)
      PROVE  IInv'
  BY <1>2, PutPreserves
<1>3. ASSUME NEW t \in Threads, NEW i \in DOMAIN queue, SwapToFrontIf(t, i)
      PROVE  IInv'
  <2>1. queue # <<>>
    BY <1>3
  <2> QED BY <1>1, <1>3, <2>1, QueueTyped, RearrangingPreserves
          DEF SwapToFrontIf, Swapping
<1>4. ASSUME NEW t \in Threads, NEW i \in DOMAIN queue, RemoveIf(t, i)
      PROVE  IInv'
  <2>1. queue # <<>>
    BY <1>4
  <2> QED BY <1>1, <1>4, <2>1, QueueTyped, RearrangingPreserves DEF RemoveIf
<1>5. ASSUME NEW t \in Threads, Clear(t)
      PROVE  IInv'
  BY <1>5, DistinctEmpty, RearrangingPreserves DEF Clear
<1>6. ASSUME NEW t \in Threads, Close(t) \/ CloseAndClear(t)
      PROVE  IInv'
  BY <1>6, ClosingPreserves DEF Close, CloseAndClear
<1>7. ASSUME NEW t \in Threads, Notify(t)
      PROVE  IInv'
  BY <1>7, NotifyPreserves
<1>8. CASE CallTake \/ Take \/ TakeEnds \/ FallAsleep \/ SpuriousWake
  BY <1>8, TakerPreserves
<1>9. ASSUME UNCHANGED vars
      PROVE  IInv'
  BY <1>1, <1>9, RearrangingPreserves DEF vars, TypeOK
<1>10. ASSUME NEW t \in Threads, PutRefused(t)
       PROVE  IInv'
  BY <1>9, <1>10 DEF PutRefused
<1> QED BY <1>2, <1>3, <1>4, <1>5, <1>6, <1>7, <1>8, <1>9, <1>10 DEF Next

LEMMA Inductive == Spec => []IInv
BY InitEstablishes, NextPreserves, PTL DEF Spec

-----------------------------------------------------------------------------
(* The theorems. *)

\* The queue holds no item twice, and only the worker is ever in take()
\* (BlockingQueue.h:15-66).
THEOREM TypeCorrect == Spec => []TypeOK
<1>1. IInv => TypeOK
  BY DEF IInv
<1> QED BY <1>1, Inductive, PTL

\* No wake-up is lost, although the notifications are sent without the mutex
\* (BlockingQueue.h:21, 57-64, 81, 90).
THEOREM NoLostWakeUp == Spec => []WakeUpIsDue
<1>1. IInv => WakeUpIsDue
  BY DEF IInv
<1> QED BY <1>1, Inductive, PTL

\* The worker leaves its loop only when nothing is queued, and nothing is put
\* after that (BlockingQueue.h:18, 60, Database.cpp run()).
THEOREM WorkerLeavesNothing == Spec => []NothingLeftBehind
<1>1. IInv => NothingLeftBehind
  BY DEF IInv
<1> QED BY <1>1, Inductive, PTL

-----------------------------------------------------------------------------
(* BlockingQueue implements AtomicQueue. *)

\* A thread that comes back, or goes to notify, does not move the worker.
LEMMA GotoKeepsTaker ==
  ASSUME TypeOK, TypeOK', NEW t \in Threads, NEW to \in {"idle", "notifyOne", "notifyAll"},
         Goto(t, to), pc[t] \in {"idle", "notifyOne", "notifyAll"}
  PROVE  TakerState' = TakerState
<1>1. pc'[Taker] = IF t = Taker THEN to ELSE pc[Taker]
  BY TakerAssumption DEF TypeOK, Goto
<1> QED BY <1>1 DEF TakerState

\* Only a notification moves another thread, out of its sleep.
LEMMA NotifyKeepsTaker ==
  ASSUME TypeOK, NEW t \in Threads, Notify(t)
  PROVE  TakerState' = TakerState
<1>1. pc[t] \in {"notifyOne", "notifyAll"}
  BY DEF Notify
<1>2. CASE t = Taker
  BY <1>1, <1>2, NotifyTyped DEF TakerState
<1>3. CASE t # Taker
  BY <1>3, NotifyTyped DEF TakerState
<1> QED BY <1>2, <1>3

\* A step of any thread but in take() is a method of AtomicQueue, or nothing.
LEMMA MethodsImplement ==
  ASSUME TypeOK, TypeOK', NEW t \in Threads,
         \/ \E x \in Items : Put(t, x)
         \/ \E i \in DOMAIN queue : SwapToFrontIf(t, i) \/ RemoveIf(t, i)
         \/ PutRefused(t) \/ Clear(t) \/ Close(t) \/ CloseAndClear(t) \/ Notify(t)
  PROVE  Abstract!Next \/ UNCHANGED <<queue, closed, TakerState>>
<1>1. ASSUME NEW x \in Items, Put(t, x)
      PROVE  Abstract!Put(x)
  <2>1. TakerState' = TakerState
    BY <1>1, GotoKeepsTaker DEF Put, Putting, Idle
  <2> QED BY <1>1, <2>1 DEF Put, Putting, Queued, Abstract!Put, Abstract!Queued
<1>2. ASSUME NEW i \in DOMAIN queue, SwapToFrontIf(t, i)
      PROVE  Abstract!SwapToFront(i)
  <2>1. TakerState' = TakerState
    BY <1>2 DEF SwapToFrontIf, Swapping, TakerState
  <2> QED BY <1>2, <2>1 DEF SwapToFrontIf, Swapping, Abstract!SwapToFront
<1>3. ASSUME NEW i \in DOMAIN queue, RemoveIf(t, i)
      PROVE  Abstract!RemoveItem(i)
  <2>1. TakerState' = TakerState
    BY <1>3 DEF RemoveIf, TakerState
  <2> QED BY <1>3, <2>1 DEF RemoveIf, RemoveAt, Abstract!RemoveItem, Abstract!RemoveAt
<1>4. CASE PutRefused(t)
  BY <1>4 DEF PutRefused, vars, TakerState
<1>5. CASE Clear(t)
  <2>1. TakerState' = TakerState
    BY <1>5 DEF Clear, TakerState
  <2>2. Abstract!Clear
    BY <1>5, <2>1 DEF Clear, Abstract!Clear
  <2> QED BY <2>2 DEF Abstract!Next
<1>6. CASE Close(t) \/ CloseAndClear(t)
  <2>1. TakerState' = TakerState
    BY <1>6, GotoKeepsTaker DEF Close, CloseAndClear, Closing, Idle
  <2>2. Abstract!Close \/ Abstract!CloseAndClear
    BY <1>6, <2>1 DEF Close, CloseAndClear, Closing, Abstract!Close, Abstract!CloseAndClear
  <2> QED BY <2>2 DEF Abstract!Next
<1>7. CASE Notify(t)
  <2>1. TakerState' = TakerState
    BY <1>7, NotifyKeepsTaker
  <2> QED BY <1>7, <2>1 DEF Notify
<1> QED BY <1>1, <1>2, <1>3, <1>4, <1>5, <1>6, <1>7 DEF Abstract!Next

\* The steps of take(): to go to sleep and to wake up are invisible.
LEMMA TakeImplements ==
  ASSUME TypeOK, TypeOK', CallTake \/ Take \/ TakeEnds \/ FallAsleep \/ SpuriousWake
  PROVE  Abstract!Next \/ UNCHANGED <<queue, closed, TakerState>>
<1> USE TakerAssumption
<1>1. CASE CallTake
  <2>1. pc[Taker] = "idle" /\ pc'[Taker] = "taking" /\ queue' = queue /\ closed' = closed
    BY <1>1 DEF CallTake, Idle, Goto, TypeOK
  <2>2. TakerState = "away" /\ TakerState' = "waiting"
    BY <2>1 DEF TakerState
  <2>3. Abstract!Call
    BY <2>1, <2>2 DEF Abstract!Call
  <2> QED BY <2>3 DEF Abstract!Next
<1>2. CASE Take
  <2>1. /\ pc[Taker] = "taking" /\ pc'[Taker] = "idle" /\ queue # <<>>
        /\ queue' = Tail(queue) /\ closed' = closed
    BY <1>2 DEF Take, Goto, TypeOK
  <2>2. TakerState = "waiting" /\ TakerState' = "away"
    BY <2>1 DEF TakerState
  <2>3. Abstract!Take
    BY <2>1, <2>2 DEF Abstract!Take
  <2> QED BY <2>3 DEF Abstract!Next
<1>3. CASE TakeEnds
  <2>1. /\ pc[Taker] = "taking" /\ pc'[Taker] = "done" /\ queue = <<>> /\ closed
        /\ queue' = queue /\ closed' = closed
    BY <1>3 DEF TakeEnds, Goto, TypeOK
  <2>2. TakerState = "waiting" /\ TakerState' = "done"
    BY <2>1 DEF TakerState
  <2>3. Abstract!End
    BY <2>1, <2>2 DEF Abstract!End
  <2> QED BY <2>3 DEF Abstract!Next
<1>4. CASE FallAsleep
  <2>1. /\ pc[Taker] = "taking" /\ pc'[Taker] = "asleep"
        /\ queue' = queue /\ closed' = closed
    BY <1>4 DEF FallAsleep, Goto, TypeOK
  <2> QED BY <2>1 DEF TakerState
<1>5. CASE SpuriousWake
  <2>1. /\ pc[Taker] = "asleep" /\ pc'[Taker] = "taking"
        /\ queue' = queue /\ closed' = closed
    BY <1>5 DEF SpuriousWake, Goto, TypeOK
  <2> QED BY <2>1 DEF TakerState
<1> QED BY <1>1, <1>2, <1>3, <1>4, <1>5

\* The queue with its mutex and its condition variable implements the queue
\* whose methods are atomic, on which Database is written (BlockingQueue.h:15-96).
THEOREM QueueImplementsAtomicQueue == Spec => ImplementsSteps
<1>1. Init => Abstract!Init
  BY TakerAssumption DEF Init, Abstract!Init, TakerState
<1>2. TypeOK /\ TypeOK' /\ [Next]_vars => [Abstract!Next]_(Abstract!vars)
  <2> SUFFICES ASSUME TypeOK, TypeOK', [Next]_vars
               PROVE  Abstract!Next \/ UNCHANGED <<queue, closed, TakerState>>
    BY DEF Abstract!vars
  <2>1. CASE UNCHANGED vars
    BY <2>1 DEF vars, TakerState
  <2>2. CASE Next
    BY <2>2, MethodsImplement, TakeImplements DEF Next
  <2> QED BY <2>1, <2>2
<1> QED BY <1>1, <1>2, TypeCorrect, PTL DEF Spec, ImplementsSteps, Abstract!Spec
=============================================================================
