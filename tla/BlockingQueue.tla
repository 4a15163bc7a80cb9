---------------------------- MODULE BlockingQueue ----------------------------
(***************************************************************************)
(* BlockingQueue<T>: the queue between the Lua thread and the worker       *)
(* thread, with its mutex and its condition variable.                      *)
(*                                                                         *)
(* A section under the mutex is one step.  put(), close() and              *)
(* closeAndClear() release the mutex before they notify, which is a step   *)
(* of its own; take() tests its condition and goes to sleep in one step,   *)
(* since wait() releases the mutex only when it is asleep, and may wake up *)
(* for no reason.                                                          *)
(***************************************************************************)
EXTENDS SequencesExt

CONSTANTS Items,     \* (query, data) pairs: each is in the queue at most once
          Threads,
          Taker      \* the worker: the only thread that calls take()

ASSUME TakerAssumption == Taker \in Threads

VARIABLES queue,     \* backingQueue
          closed,
          pc         \* where each thread is

vars == <<queue, closed, pc>>

\* "idle" is outside of the class, "done" the worker whose last take() has
\* returned false, and so has left its loop (Database::run).
PCs == {"idle", "notifyOne", "notifyAll", "taking", "asleep", "done"}

TypeOK ==
  /\ queue \in Seq(Items)
  /\ IsInjective(queue)
  /\ closed \in BOOLEAN
  /\ pc \in [Threads -> PCs]
  /\ \A t \in Threads : pc[t] \in {"taking", "asleep", "done"} => t = Taker

Init ==
  /\ queue = <<>>
  /\ closed = FALSE
  /\ pc = [t \in Threads |-> "idle"]

Queued(x) == \E i \in DOMAIN queue : queue[i] = x
Goto(t, to) == pc' = [pc EXCEPT ![t] = to]
Idle(t)     == pc[t] = "idle"

-----------------------------------------------------------------------------
(* Any thread. *)

Putting(t, x, next) ==
  /\ Idle(t)
  /\ ~closed
  /\ ~Queued(x)
  /\ queue' = Append(queue, x)
  /\ Goto(t, next)
  /\ UNCHANGED closed
PutSilent(t, x) == Putting(t, x, "idle")       \* mutant: nobody is notified
PutAnyway(t, x) ==                             \* mutant: closed is not tested
  /\ Idle(t)
  /\ ~Queued(x)
  /\ queue' = Append(queue, x)
  /\ Goto(t, "notifyOne")
  /\ UNCHANGED closed
Put(t, x) == Putting(t, x, "notifyOne")

\* The queue is closed: put() returns false.
PutRefused(t) == Idle(t) /\ closed /\ UNCHANGED vars

Swapping(t, i, back) ==
  /\ Idle(t)
  /\ i # 1
  /\ queue' = [queue EXCEPT ![1] = queue[i], ![i] = back]
  /\ UNCHANGED <<closed, pc>>
CopyToFrontIf(t, i) == Swapping(t, i, queue[i])    \* mutant: the first is lost
SwapToFrontIf(t, i) == Swapping(t, i, queue[1])

\* removeIf() and remove(), when an item is found: the order of the rest is kept.
RemoveIf(t, i) ==
  /\ Idle(t)
  /\ queue' = RemoveAt(queue, i)
  /\ UNCHANGED <<closed, pc>>

Clear(t) ==
  /\ Idle(t)
  /\ queue' = <<>>
  /\ UNCHANGED <<closed, pc>>

Closing(t, next) ==
  /\ Idle(t)
  /\ closed' = TRUE
  /\ Goto(t, next)
CloseSilent(t) == Closing(t, "idle") /\ UNCHANGED queue     \* mutant
Close(t)         == Closing(t, "notifyAll") /\ UNCHANGED queue
CloseAndClear(t) == Closing(t, "notifyAll") /\ queue' = <<>>

\* notify_one() and notify_all() wake the worker if it sleeps, and are lost if
\* it does not.
Notify(t) ==
  /\ pc[t] \in {"notifyOne", "notifyAll"}
  /\ pc' = [u \in Threads |-> IF u = t THEN "idle"
                              ELSE IF pc[u] = "asleep" THEN "taking" ELSE pc[u]]
  /\ UNCHANGED <<queue, closed>>

-----------------------------------------------------------------------------
(* The worker. *)

CallTake ==
  /\ Idle(Taker)
  /\ Goto(Taker, "taking")
  /\ UNCHANGED <<queue, closed>>

Take ==
  /\ pc[Taker] = "taking"
  /\ queue # <<>>
  /\ queue' = Tail(queue)
  /\ Goto(Taker, "idle")
  /\ UNCHANGED closed

TakeEnds ==
  /\ pc[Taker] = "taking"
  /\ closed /\ queue = <<>>
  /\ Goto(Taker, "done")
  /\ UNCHANGED <<queue, closed>>

FallAsleep ==
  /\ pc[Taker] = "taking"
  /\ ~closed /\ queue = <<>>
  /\ Goto(Taker, "asleep")
  /\ UNCHANGED <<queue, closed>>

SpuriousWake ==
  /\ pc[Taker] = "asleep"
  /\ Goto(Taker, "taking")
  /\ UNCHANGED <<queue, closed>>

-----------------------------------------------------------------------------
Next ==
  \/ \E t \in Threads :
       \/ \E x \in Items : Put(t, x)
       \/ \E i \in DOMAIN queue : SwapToFrontIf(t, i) \/ RemoveIf(t, i)
       \/ PutRefused(t) \/ Clear(t) \/ Close(t) \/ CloseAndClear(t) \/ Notify(t)
  \/ CallTake \/ Take \/ TakeEnds \/ FallAsleep \/ SpuriousWake

Spec == Init /\ [][Next]_vars

\* Both threads run: a notification that is due is sent, and a worker that is
\* awake goes on.  Nothing is assumed of spurious wake-ups.
Fairness ==
  /\ \A t \in Threads : WF_vars(Notify(t))
  /\ WF_vars(Take \/ TakeEnds \/ FallAsleep)

FairSpec == Spec /\ Fairness

-----------------------------------------------------------------------------
(* Properties. *)

\* A worker that sleeps while there is something to take, or nothing will ever
\* come, has a notification on its way (BlockingQueue.h:21, 81, 90).
WakeUpIsDue ==
  pc[Taker] = "asleep" /\ (queue # <<>> \/ closed) =>
    \E t \in Threads : pc[t] \in {"notifyOne", "notifyAll"}

\* A worker that has left its loop leaves nothing behind, and nothing can be
\* put after it (BlockingQueue.h:18, 60).
NothingLeftBehind == pc[Taker] = "done" => closed /\ queue = <<>>

\* The mutex and the condition variable are invisible: the two threads see a
\* queue whose methods are atomic and whose take() does not block while there is
\* something to take (BlockingQueue.h:15-96).
TakerState ==
  CASE pc[Taker] \in {"taking", "asleep"} -> "waiting"
    [] pc[Taker] = "done" -> "done"
    [] OTHER -> "away"

Abstract == INSTANCE AtomicQueue
              WITH Items <- Items, queue <- queue, closed <- closed, taker <- TakerState

ImplementsSteps == Abstract!Spec
ImplementsAtomicQueue == Abstract!FairSpec
=============================================================================
