----------------------------- MODULE AtomicQueue -----------------------------
(***************************************************************************)
(* What BlockingQueue promises to the two threads that share it: every     *)
(* method takes effect at once, and the one thread that takes is served as *)
(* long as there is something to take, or learns that the queue is closed. *)
(* Database.tla is written on this queue, BlockingQueue.tla implements it. *)
(***************************************************************************)
EXTENDS SequencesExt

CONSTANT Items

VARIABLES queue,   \* backingQueue
          closed,
          taker    \* the thread that takes: "away", "waiting" in take(), or
                   \* "done" when take() has returned false

vars == <<queue, closed, taker>>

Queued(x) == \E i \in DOMAIN queue : queue[i] = x

Init == queue = <<>> /\ closed = FALSE /\ taker = "away"

Put(x) ==
  /\ ~closed
  /\ ~Queued(x)
  /\ queue' = Append(queue, x)
  /\ UNCHANGED <<closed, taker>>

SwapToFront(i) ==
  /\ queue' = [queue EXCEPT ![1] = queue[i], ![i] = queue[1]]
  /\ UNCHANGED <<closed, taker>>

RemoveItem(i) ==
  /\ queue' = RemoveAt(queue, i)
  /\ UNCHANGED <<closed, taker>>

Clear == queue' = <<>> /\ UNCHANGED <<closed, taker>>

Close == closed' = TRUE /\ UNCHANGED <<queue, taker>>

CloseAndClear == closed' = TRUE /\ queue' = <<>> /\ UNCHANGED taker

Call == taker = "away" /\ taker' = "waiting" /\ UNCHANGED <<queue, closed>>

Take ==
  /\ taker = "waiting" /\ queue # <<>>
  /\ queue' = Tail(queue)
  /\ taker' = "away"
  /\ UNCHANGED closed

End ==
  /\ taker = "waiting" /\ closed /\ queue = <<>>
  /\ taker' = "done"
  /\ UNCHANGED <<queue, closed>>

Next ==
  \/ \E x \in Items : Put(x)
  \/ \E i \in DOMAIN queue : SwapToFront(i) \/ RemoveItem(i)
  \/ Clear \/ Close \/ CloseAndClear \/ Call \/ Take \/ End

\* A call of take() does not block while there is something to take.
Spec == Init /\ [][Next]_vars
FairSpec == Spec /\ WF_vars(Take \/ End)
=============================================================================
