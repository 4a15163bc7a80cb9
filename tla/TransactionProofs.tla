-------------------------- MODULE TransactionProofs --------------------------
(***************************************************************************)
(* Proofs about Transaction, for every number of children and of rounds.   *)
(***************************************************************************)
EXTENDS Transaction, SequenceTheorems, TLAPS

-----------------------------------------------------------------------------
(* Types. *)

LEMMA InitTyped == Init => TypeOK
<1> SUFFICES ASSUME Init PROVE TypeOK
  OBVIOUS
<1>1. reports \in Seq(Verdicts) /\ Len(reports) = 0
  BY EmptySeq DEF Init
<1>2. status \in [Targets -> Statuses] /\ result \in [Targets -> Results]
  BY DEF Init, FreshStatus, FreshResult, Statuses, Results
<1>3. pc \in PCs /\ thrown \in Thrown /\ child \in 1..(N + 1) /\ Len(reports) <= Rounds
  BY <1>1, NAssumption, RoundsAssumption DEF Init, PCs, Thrown
<1> QED BY <1>1, <1>2, <1>3 DEF Init, TypeOK

LEMMA LuaTyped ==
  ASSUME TypeOK, LuaStep PROVE TypeOK'
<1>1. round \in 1..(Rounds + 1)
  BY RoundsAssumption DEF TypeOK, round
<1>2. CASE CancelSent
  BY <1>2 DEF CancelSent, TypeOK, dataVars, activeVars
<1>3. CASE CancelFailed
  BY <1>3 DEF CancelFailed, TypeOK, activeVars, serverVars
<1>4. ASSUME NEW t \in Targets, RequestCancel(t)
      PROVE  TypeOK'
  BY <1>1, <1>4 DEF RequestCancel, TypeOK, activeVars, serverVars
<1> QED BY <1>2, <1>3, <1>4 DEF LuaStep

LEMMA StatementTyped ==
  ASSUME TypeOK, ChildInHand, Statement PROVE TypeOK'
<1>1. round \in 1..(Rounds + 1)
  BY RoundsAssumption DEF TypeOK, round
<1> USE NAssumption, RoundsAssumption, AfterEndAssumption
<1> USE DEF Answer, Goto, Throw, AfterError, OutcomeUnknown, TypeOK, PCs, Executing, Thrown, luaVars, activeVars
<1>2. CASE BeginOk \/ \E o \in {"error", "cancelled", "lost"} : BeginFails(o)
  BY <1>2 DEF BeginOk, BeginFails
<1>3. CASE ChildOk
  <2>1. <<round, child>> \in AllEffects
    BY <1>1, <1>3 DEF ChildOk, ChildInHand, AllEffects, Children
  <2> QED BY <1>3, <2>1 DEF ChildOk
<1>4. CASE ChildEndsIt
  BY <1>4 DEF ChildEndsIt
<1>5. CASE ChildRejected \/ ChildCopies \/ \E o \in {"error", "cancelled", "lost"} : ChildFails(o)
  BY <1>5 DEF ChildRejected, ChildCopies, ChildFails
<1>6. CASE RollbackOk \/ \E o \in {"cancelled", "lost"} : RollbackFails(o)
  <2>1. CASE RollbackOk
    BY <2>1 DEF RollbackOk
  <2>2. ASSUME NEW o \in {"cancelled", "lost"}, RollbackFails(o)
        PROVE  TypeOK'
    <3>1. \A s \in AfterError(o) : s \in {"idle", "open", "failed", "lost"}
      OBVIOUS
    <3> HIDE DEF AfterError
    <3> QED BY <2>2, <3>1 DEF RollbackFails
  <2> QED BY <1>6, <2>1, <2>2
<1>7. CASE CommitOk \/ \E o \in {"error", "cancelled"} : CommitFails(o)
  BY <1>7 DEF CommitOk, CommitFails
<1>8. CASE CommitLost
  <2>1. status' \in [Targets -> Statuses] /\ result' \in [Targets -> Results]
    BY <1>8 DEF CommitLost, Results, Statuses, Targets
  <2>2. finished' \subseteq Targets
    BY <1>8 DEF CommitLost, Children, Targets
  <2> QED BY <1>8, <2>1, <2>2 DEF CommitLost
<1> QED BY <1>2, <1>3, <1>4, <1>5, <1>6, <1>7, <1>8 DEF Statement

\* Where the worker goes, of the steps around the statements.
LEMMA WorkerTyped ==
  ASSUME TypeOK, ChildInHand, Worker PROVE TypeOK'
<1> USE NAssumption
<1> USE DEF Goto, TypeOK, PCs, Executing, dataVars, activeVars, serverVars, luaVars
<1>1. CASE Start \/ OpenFails
  BY <1>1 DEF Start, OpenFails, Statuses, Thrown, Targets
<1>2. CASE StartChild
  <2>1. child \in Children /\ Children \subseteq Targets
    BY <1>2 DEF StartChild, Children, Targets
  <2>2. status' \in [Targets -> Statuses] /\ alias' \subseteq Children
    BY <1>2, <2>1 DEF StartChild, Statuses
  <2> QED BY <1>2, <2>2 DEF StartChild
<1>3. CASE NoMoreChildren \/ Unalias \/ RollBack
  BY <1>3 DEF NoMoreChildren, Unalias, RollBack, CaughtOther
<1>4. CASE Statement
  BY <1>4, StatementTyped
<1>5. CASE CheckStatus
  BY <1>5 DEF CheckStatus, ChildInHand, Thrown
<1>6. CASE CaughtLost \/ Settle
  <2> 0 \in Targets /\ Children \subseteq Targets
    BY DEF Targets, Children
  <2>1. status' \in [Targets -> Statuses] /\ result' \in [Targets -> Results]
    BY <1>6 DEF CaughtLost, OutcomeUnknown, Settle, Settling, Results, Statuses
  <2>2. finished' \subseteq Targets
    BY <1>6 DEF CaughtLost, OutcomeUnknown, Settle, Settling
  <2>3. CASE CaughtLost
    BY <2>1, <2>2, <2>3 DEF CaughtLost, OutcomeUnknown
  <2>4. CASE Settle
    BY <2>1, <2>2, <2>4 DEF Settle, Settling
  <2> QED BY <1>6, <2>3, <2>4
<1>7. CASE Unwind
  BY <1>7 DEF Unwind, Targets
<1>8. CASE UnwindChild
  <2>1. status' \in [Targets -> Statuses] /\ result' \in [Targets -> Results]
    BY <1>8 DEF UnwindChild, Results, Statuses
  <2>2. finished' \subseteq Targets /\ child' \in 1..(N + 1)
    BY <1>8 DEF UnwindChild, Targets
  <2> QED BY <1>8, <2>1, <2>2 DEF UnwindChild
<1>9. CASE UnwindEnd
  BY <1>9 DEF UnwindEnd, Ending, Results
<1>10. CASE Succeed \/ Unguard
  BY <1>10 DEF Succeed, Unguard, Statuses, Results
<1>11. CASE Classify
  BY <1>11 DEF Classify, Classifying, Statuses, Results
<1>12. CASE Report
  <2>1. status' \in [Targets -> Statuses] /\ result' \in [Targets -> Results]
    BY <1>12 DEF Report, FreshStatus, FreshResult, Statuses, Results
  <2>2. Verdict \in Verdicts
    BY DEF Verdict, Verdicts
  <2>3. reports' \in Seq(Verdicts) /\ Len(reports') <= Rounds
    BY <1>12, <2>2, AppendProperties, RoundsAssumption, LenProperties DEF Report
  <2>4. child' \in 1..(N + 1) /\ pc' \in PCs /\ thrown' \in Thrown
    BY <1>12 DEF Report, Thrown
  <2> QED BY <1>12, <2>1, <2>3, <2>4 DEF Report
<1> QED BY <1>1, <1>2, <1>3, <1>4, <1>5, <1>6, <1>7, <1>8, <1>9, <1>10, <1>11, <1>12
        DEF Worker

LEMMA NextTyped ==
  ASSUME TypeOK, ChildInHand, [Next]_vars PROVE TypeOK'
<1>1. CASE UNCHANGED vars
  BY <1>1 DEF vars, dataVars, activeVars, serverVars, luaVars, TypeOK
<1> QED BY <1>1, LuaTyped, WorkerTyped DEF Next

-----------------------------------------------------------------------------
(* Where the worker is, the child it has in hand and the exception it carries. *)

LEMMA ControlOfStatement ==
  ASSUME TypeOK, ChildInHand, ExceptionInFlight, Statement
  PROVE  ChildInHand' /\ ExceptionInFlight'
<1> USE NAssumption
<1> USE DEF Answer, Goto, Throw, ChildInHand, ExceptionInFlight, Going, Up, luaVars
<1>1. child \in 1..(N + 1)
  BY DEF TypeOK
<1>2. CASE BeginOk \/ \E o \in {"error", "cancelled", "lost"} : BeginFails(o)
  BY <1>1, <1>2 DEF BeginOk, BeginFails
<1>3. CASE ChildOk \/ ChildEndsIt \/ ChildRejected
  BY <1>1, <1>3 DEF ChildOk, ChildEndsIt, ChildRejected
<1>4. CASE ChildCopies \/ \E o \in {"error", "cancelled", "lost"} : ChildFails(o)
  BY <1>1, <1>4 DEF ChildCopies, ChildFails
<1>5. CASE RollbackOk \/ \E o \in {"cancelled", "lost"} : RollbackFails(o)
  BY <1>1, <1>5 DEF RollbackOk, RollbackFails
<1>6. CASE CommitOk \/ \E o \in {"error", "cancelled"} : CommitFails(o)
  BY <1>1, <1>6 DEF CommitOk, CommitFails
<1>7. CASE CommitLost
  BY <1>1, <1>7 DEF CommitLost, OutcomeUnknown
<1> QED BY <1>2, <1>3, <1>4, <1>5, <1>6, <1>7 DEF Statement

LEMMA ControlPreserved ==
  ASSUME TypeOK, ChildInHand, ExceptionInFlight, [Next]_vars
  PROVE  ChildInHand' /\ ExceptionInFlight'
<1> USE NAssumption
<1> USE DEF Goto, ChildInHand, ExceptionInFlight, Going, Up,
            dataVars, activeVars, serverVars, luaVars
<1>1. child \in 1..(N + 1)
  BY DEF TypeOK
<1>2. CASE UNCHANGED vars \/ LuaStep
  BY <1>2 DEF vars, LuaStep, CancelSent, CancelFailed, RequestCancel
<1>3. CASE Start \/ OpenFails \/ StartChild \/ NoMoreChildren
  BY <1>1, <1>3 DEF Start, OpenFails, StartChild, NoMoreChildren
<1>4. CASE Statement
  BY <1>4, ControlOfStatement
<1>5. CASE CheckStatus \/ Unalias
  BY <1>1, <1>5 DEF CheckStatus, Unalias
<1>6. CASE CaughtLost \/ RollBack
  BY <1>6 DEF CaughtLost, OutcomeUnknown, RollBack, CaughtOther
<1>7. CASE Settle \/ Unwind \/ UnwindChild
  BY <1>7 DEF Settle, Settling, Unwind, UnwindChild
<1>8. CASE UnwindEnd \/ Succeed \/ Unguard
  BY <1>8 DEF UnwindEnd, Ending, Succeed, Unguard
<1>9. CASE Classify \/ Report
  BY <1>9 DEF Classify, Classifying, Report
<1> QED BY <1>2, <1>3, <1>4, <1>5, <1>6, <1>7, <1>8, <1>9 DEF Next, Worker

-----------------------------------------------------------------------------
(* Cancellation. *)

LEMMA AskedPreserved ==
  ASSUME TypeOK, CancelledOnlyIfAsked, AbortedOnlyIfAsked, [Next]_vars
  PROVE  CancelledOnlyIfAsked' /\ AbortedOnlyIfAsked'
<1> USE DEF TypeOK, CancelledOnlyIfAsked, AbortedOnlyIfAsked,
            dataVars, activeVars, serverVars, luaVars, Goto, Answer
<1>1. CASE UNCHANGED vars \/ LuaStep
  BY <1>1 DEF vars, LuaStep, CancelSent, CancelFailed, RequestCancel
<1>2. CASE Statement
  <2>1. CASE CommitLost
    BY <2>1 DEF CommitLost, OutcomeUnknown
  <2>2. CASE ~ CommitLost
    BY <1>2, <2>2 DEF Statement, BeginOk, BeginFails, ChildOk, ChildEndsIt, ChildRejected,
         ChildCopies, ChildFails, RollbackOk, RollbackFails, CommitOk, CommitFails
  <2> QED BY <2>1, <2>2
<1>3. CASE Start \/ OpenFails \/ StartChild \/ NoMoreChildren
  BY <1>3 DEF Start, OpenFails, StartChild, NoMoreChildren
<1>4. CASE CheckStatus \/ Unalias \/ RollBack
  BY <1>4 DEF CheckStatus, Unalias, RollBack, CaughtOther
<1>5. CASE CaughtLost \/ Settle
  BY <1>5 DEF CaughtLost, OutcomeUnknown, Settle, Settling
<1>6. CASE Unwind \/ UnwindEnd \/ Succeed \/ Unguard
  BY <1>6 DEF Unwind, UnwindEnd, Ending, Succeed, Unguard
<1>7. CASE UnwindChild
  BY <1>7 DEF UnwindChild
<1>8. CASE Classify
  BY <1>8 DEF Classify, Classifying
<1>9. CASE Report
  BY <1>9 DEF Report, FreshStatus
<1> QED BY <1>1, <1>2, <1>3, <1>4, <1>5, <1>6, <1>7, <1>8, <1>9 DEF Next, Worker

-----------------------------------------------------------------------------
(* The children: one lemma for the steps of the server, one for the others. *)

LEMMA SettledByStatement ==
  ASSUME TypeOK, ExceptionInFlight, ChildrenSettled, Statement,
         NEW c \in Children
  PROVE  /\ pc' \in {"queued", "begin"} => status'[c] = "NOT_RUNNING"
         /\ pc' \in Going \union {"unalias", "caught", "rollback"} => result'[c] = "NONE"
         /\ pc' \in {"unwind", "unwindChild"} =>
              result'[c] # "SUCCESS" /\ (result'[c] = "ERROR" => status'[c] = "COMPLETE")
         /\ pc' \notin {"unwindChild", "unguard", "classify", "report"}
<1> USE DEF Answer, Goto, Going
<1>1. CASE CommitLost
  <2>1. pc' = "unwind" /\ c \in Targets /\ c # 0
    BY <1>1 DEF CommitLost, Children, Targets
  <2>2. result'[c] = "ERROR" /\ status'[c] = "COMPLETE"
    BY <1>1, <2>1 DEF CommitLost, OutcomeUnknown
  <2> QED BY <2>1, <2>2
<1>2. CASE ~ CommitLost
  <2>1. status' = status /\ result' = result
    BY <1>2 DEF Statement, BeginOk, BeginFails, ChildOk, ChildEndsIt, ChildRejected,
         ChildCopies, ChildFails, RollbackOk, RollbackFails, CommitOk, CommitFails
  <2>2. /\ pc \in Going \union {"unalias", "caught", "rollback"}
        /\ pc' \in {"child", "check", "unalias", "settle", "unwind"}
    BY <1>2 DEF Statement, BeginOk, BeginFails, ChildOk, ChildEndsIt, ChildRejected,
         ChildCopies, ChildFails, RollbackOk, RollbackFails, CommitOk, CommitFails
  <2> QED BY <2>1, <2>2 DEF ChildrenSettled
<1> QED BY <1>1, <1>2

LEMMA ChildrenPreserved ==
  ASSUME TypeOK, ChildInHand, ExceptionInFlight, ChildrenSettled, ChildrenAgree, [Next]_vars
  PROVE  ChildrenSettled' /\ ChildrenAgree'
<1> USE DEF Goto, Going, Up, Settled, dataVars, activeVars, serverVars, luaVars
<1> Children \subseteq Targets /\ 0 \in Targets /\ 0 \notin Children
  BY NAssumption DEF Children, Targets
<1> /\ status \in [Targets -> Statuses] /\ result \in [Targets -> Results]
    /\ child \in 1..(N + 1)
  BY DEF TypeOK
<1>1. CASE UNCHANGED vars \/ LuaStep
  BY <1>1 DEF vars, LuaStep, CancelSent, CancelFailed, RequestCancel, ChildrenSettled, ChildrenAgree
<1>2. CASE Start \/ OpenFails \/ StartChild \/ NoMoreChildren
  BY <1>2 DEF Start, OpenFails, StartChild, NoMoreChildren, ChildrenSettled, ChildrenAgree
<1>3. CASE Statement
  BY <1>3, SettledByStatement DEF ChildrenSettled, ChildrenAgree
<1>4. CASE CheckStatus \/ Unalias \/ RollBack
  BY <1>4 DEF CheckStatus, Unalias, RollBack, CaughtOther, ChildrenSettled, ChildrenAgree
<1>5. CASE CaughtLost
  <2>1. pc' = "unwind" /\ \A c \in Children : result'[c] = "ERROR" /\ status'[c] = "COMPLETE"
    BY <1>5 DEF CaughtLost, OutcomeUnknown
  <2> QED BY <2>1 DEF ChildrenSettled, ChildrenAgree
<1>6. CASE Settle
  <2>1. \A c \in Children :
          result'[c] = "SUCCESS" /\ status'[c] = "COMPLETE" /\ c \in finished'
    BY <1>6 DEF Settle, Settling
  <2>2. pc' = "unguard" /\ thrown' = "none"
    BY <1>6 DEF Settle, Settling, ExceptionInFlight
  <2> QED BY <2>1, <2>2 DEF ChildrenSettled, ChildrenAgree
<1>7. CASE Unwind \/ UnwindChild
  <2>1. pc' = "unwindChild"
    BY <1>7 DEF Unwind, UnwindChild
  <2>2. ASSUME NEW c \in Children, Unwind
        PROVE  result'[c] = result[c] /\ status'[c] = status[c] /\ ~ (c < child')
    BY <2>2, NAssumption DEF Unwind, Children
  <2>3. ASSUME NEW c \in Children, UnwindChild, c # child
        PROVE  /\ result'[c] = result[c] /\ status'[c] = status[c]
               /\ c \in finished => c \in finished'
               /\ c < child' => c < child
    <3>1. child' = child + 1 /\ c \in Nat /\ child \in Nat
      BY <2>3, NAssumption DEF UnwindChild, Children
    <3> QED BY <2>3, <3>1 DEF UnwindChild
  <2>4. ASSUME NEW c \in Children, UnwindChild, c = child
        PROVE  /\ result'[c] # "SUCCESS"
               /\ result'[c] = "ERROR" => status'[c] = "COMPLETE"
               /\ Settled(c)'
    <3>1. c \in finished'
      BY <2>4 DEF UnwindChild
    <3>2. CASE 0 \in cancelReq
      BY <2>4, <3>1, <3>2 DEF UnwindChild
    <3>3. CASE 0 \notin cancelReq
      BY <2>4, <3>1, <3>3 DEF UnwindChild, ChildrenSettled
    <3> QED BY <3>2, <3>3
  <2>5. pc \in {"unwind", "unwindChild"} /\ (Unwind \/ pc = "unwindChild")
    BY <1>7 DEF Unwind, UnwindChild
  <2> HIDE DEF Settled
  <2>6. \A c \in Children :
          /\ result'[c] # "SUCCESS" /\ (result'[c] = "ERROR" => status'[c] = "COMPLETE")
          /\ c < child' => Settled(c)'
    <3> TAKE c \in Children
    <3>1. CASE Unwind
      BY <2>2, <2>5, <3>1 DEF ChildrenSettled
    <3>2. CASE UnwindChild /\ c # child
      BY <2>3, <2>5, <3>2 DEF ChildrenSettled, Settled, UnwindChild
    <3>3. CASE UnwindChild /\ c = child
      BY <2>4, <3>3
    <3> QED BY <1>7, <3>1, <3>2, <3>3
  <2> QED BY <2>1, <2>6 DEF ChildrenSettled, ChildrenAgree
<1>8. CASE UnwindEnd
  <2>1. pc = "unwindChild" /\ pc' = "unguard" /\ thrown' # "none"
    BY <1>8 DEF UnwindEnd, Ending, ExceptionInFlight
  <2>2. \A c \in Children : c < child
    BY <1>8, NAssumption DEF UnwindEnd, Ending, Children
  <2>3. \A c \in Children :
          result'[c] = result[c] /\ status'[c] = status[c] /\ finished' = finished
    BY <1>8 DEF UnwindEnd, Ending
  <2> QED BY <2>1, <2>2, <2>3 DEF ChildrenSettled, ChildrenAgree
<1>9. CASE Succeed
  BY <1>9 DEF Succeed, ChildrenSettled, ChildrenAgree
<1>10. CASE Unguard
  BY <1>10 DEF Unguard, ChildrenSettled, ChildrenAgree
<1>11. CASE Classify
  BY <1>11 DEF Classify, Classifying, ExceptionInFlight, ChildrenSettled, ChildrenAgree
<1>12. CASE Report
  BY <1>12 DEF Report, FreshStatus, FreshResult, ChildrenSettled, ChildrenAgree
<1> QED BY <1>1, <1>2, <1>3, <1>4, <1>5, <1>6, <1>7, <1>8, <1>9, <1>10, <1>11, <1>12
        DEF Next, Worker

-----------------------------------------------------------------------------
(* The invariant, and what follows from it. *)

LEMMA InvariantInitially == Init => IInv
<1> SUFFICES ASSUME Init PROVE IInv
  OBVIOUS
<1>1. TypeOK
  BY InitTyped
<1>2. \A c \in Children : status[c] = "NOT_RUNNING" /\ result[c] = "NONE"
  BY NAssumption DEF Init, FreshStatus, FreshResult, Children, Targets
<1>3. \A t \in Targets : status[t] # "ABORTED"
  BY DEF Init, FreshStatus
<1> QED BY <1>1, <1>2, <1>3 DEF Init, IInv, ChildInHand, ExceptionInFlight, Going, Up,
          ChildrenSettled, ChildrenAgree, Settled, CancelledOnlyIfAsked, AbortedOnlyIfAsked

LEMMA InvariantPreserved == IInv /\ [Next]_vars => IInv'
BY NextTyped, ControlPreserved, ChildrenPreserved, AskedPreserved DEF IInv

LEMMA Inductive == Spec => []IInv
BY InvariantInitially, InvariantPreserved, PTL DEF Spec

\* Every variable keeps its type (the fields of IQueryData and TransactionData).
THEOREM TypeCorrect == Spec => []TypeOK
<1>1. IInv => TypeOK
  BY DEF IInv
<1> QED BY <1>1, Inductive, PTL

\* The children have succeeded when their transaction has, and none of them when
\* it has not, however long the transaction and wherever it fails.
THEOREM ChildrenAgreeWithTransaction == Spec => []ChildrenAgree
<1>1. IInv => ChildrenAgree
  BY DEF IInv
<1> QED BY <1>1, Inductive, PTL

\* No child that was begun is left without an outcome when its transaction is
\* reported, whatever catch clause was taken on the way.
THEOREM NobodyWaitsForAChild == Spec => []NoChildLeftWaiting
<1>1. IInv => NoChildLeftWaiting
  BY DEF IInv, ChildrenSettled, Settled, NoChildLeftWaiting
<1> QED BY <1>1, Inductive, PTL

\* "Aborted" is the answer to a request of Lua's for this very transaction: none
\* that was made for an earlier one makes it.
THEOREM AbortedWasAskedFor == Spec => []AbortedOnlyIfAsked
<1>1. IInv => AbortedOnlyIfAsked
  BY DEF IInv
<1> QED BY <1>1, Inductive, PTL

-----------------------------------------------------------------------------
(* The promise: what is reported of a transaction is true.  It is for a      *)
(* program whose children do not chain transactions (AfterEnd).              *)

NoChaining == AfterEnd \subseteq {"idle"}

\* What the steps of one transaction leave alone.
LEMMA SameRound ==
  ASSUME reports' = reports
  PROVE  /\ round' = round /\ Own' = Own
         /\ \A n \in Int : OfFirst(n)' = OfFirst(n)
BY DEF round, Own, OfFirst

LEMMA SameFate ==
  ASSUME reports' = reports, durable' = durable PROVE Untouched' = Untouched
BY SameRound DEF Untouched

\* The work of the first children, one after another.
LEMMA WorkOfChildren ==
  /\ OfFirst(0) = {}
  /\ OfFirst(N) = Own
  /\ \A n \in Nat \ {0} : OfFirst(n) = OfFirst(n - 1) \union {<<round, n>>}
<1> USE NAssumption
<1>1. ASSUME NEW n \in Nat \ {0} PROVE 1..n = (1..(n - 1)) \union {n}
  OBVIOUS
<1> QED BY <1>1 DEF OfFirst, Own, Children

\* Committing the work of the transaction touches no other.
LEMMA CommitsItsOwn ==
  ASSUME TypeOK, WorkInHand
  PROVE  durable \union work \subseteq (1..round) \X Children
<1>1. round \in 1..round
  BY DEF TypeOK, round
<1> QED BY <1>1 DEF WorkInHand, Own

LEMMA WorkOfStatement ==
  ASSUME TypeOK, ChildInHand, ExceptionInFlight, WorkInHand, NoChaining, Statement
  PROVE  WorkInHand'
<1> USE DEF Answer, Goto, Throw
<1>1. reports' = reports /\ round' = round /\ Own' = Own
  BY SameRound DEF Statement, BeginOk, BeginFails, ChildOk, ChildEndsIt, ChildRejected,
     ChildCopies, ChildFails, RollbackOk, RollbackFails, CommitOk, CommitFails, CommitLost
<1>2. \A n \in Int : OfFirst(n)' = OfFirst(n)
  BY <1>1, SameRound
<1>3. durable \union work \subseteq (1..round) \X Children
  BY CommitsItsOwn
<1>4. child \in 1..(N + 1) /\ N \in Nat
  BY NAssumption DEF TypeOK
<1>5. CASE BeginOk
  <2>1. pc = "begin" /\ work = {} /\ child = 1
    BY <1>5 DEF BeginOk, WorkInHand, ChildInHand
  <2>2. work' = {} /\ child' = 1 /\ pc' = "child" /\ durable' = durable
    BY <1>5, <2>1 DEF BeginOk
  <2>3. OfFirst(child - 1)' = {}
    BY <1>2, <2>2, WorkOfChildren
  <2> QED BY <1>1, <1>3, <2>2, <2>3 DEF WorkInHand
<1>6. CASE ChildOk
  <2>1. pc = "exec" /\ work = OfFirst(child - 1) /\ child \in Nat \ {0} /\ child \in Children
    BY <1>4, <1>6 DEF ChildOk, WorkInHand, ChildInHand, Children
  <2>2. /\ work' = OfFirst(child) /\ child' = child /\ session' = "open" /\ pc' = "check"
        /\ durable' = durable
    BY <1>6, <2>1, WorkOfChildren DEF ChildOk
  <2>3. OfFirst(child) \subseteq Own
    BY <1>4, <2>1 DEF OfFirst, Own, Children
  <2>4. thrown' = "none"
    BY <1>6, <2>1 DEF ChildOk, ExceptionInFlight, Going
  <2>5. OfFirst(child)' = OfFirst(child)
    BY <1>1, <2>2 DEF OfFirst
  <2> QED BY <1>1, <1>3, <2>2, <2>3, <2>4, <2>5 DEF WorkInHand
<1>7. CASE ChildEndsIt
  <2>1. pc' = "check" /\ session' = "idle" /\ work' = {} /\ durable' \subseteq durable \union work
    BY <1>7 DEF ChildEndsIt, NoChaining
  <2> QED BY <1>1, <1>3, <2>1 DEF WorkInHand
<1>8. CASE ChildRejected
  <2>1. /\ pc' = "unalias" /\ thrown' = "error" /\ work' = work /\ durable' = durable
    BY <1>8 DEF ChildRejected
  <2>2. work \subseteq Own
    BY DEF WorkInHand
  <2> QED BY <1>1, <1>3, <2>1, <2>2 DEF WorkInHand
<1>9. CASE ~ (BeginOk \/ ChildOk \/ ChildEndsIt \/ ChildRejected)
  <2>1. /\ work' = {} /\ durable' \subseteq durable \union work
        /\ pc' \in {"unalias", "unwind", "settle"}
    BY <1>9 DEF Statement, BeginFails, ChildCopies, ChildFails, RollbackOk, RollbackFails,
         CommitOk, CommitFails, CommitLost
  <2> QED BY <1>1, <1>3, <2>1 DEF WorkInHand
<1> QED BY <1>5, <1>6, <1>7, <1>8, <1>9

LEMMA WorkPreserved ==
  ASSUME TypeOK, ChildInHand, ExceptionInFlight, WorkInHand, NoChaining, [Next]_vars
  PROVE  WorkInHand'
<1> USE DEF Goto, dataVars, activeVars, serverVars, luaVars
<1>1. CASE Statement
  BY <1>1, WorkOfStatement
<1>2. CASE Report
  <2>1. pc = "report" /\ pc' = "queued" /\ work' = {} /\ durable' = durable /\ thrown' = "none"
    BY <1>2 DEF Report, WorkInHand
  <2>2. round' = round + 1 /\ round \in Nat
    BY <1>2, AppendProperties, LenProperties DEF Report, round, TypeOK
  <2>3. durable' \subseteq (1..round') \X Children
    BY <2>1, <2>2 DEF WorkInHand
  <2> QED BY <2>1, <2>3 DEF WorkInHand
<1>3. CASE ~ Statement /\ ~ Report
  <2>1. reports' = reports /\ work' = work /\ durable' = durable
    BY <1>3 DEF Next, vars, LuaStep, Worker, CancelSent, CancelFailed, RequestCancel, Start,
         OpenFails, StartChild, NoMoreChildren, CheckStatus, Unalias, CaughtLost, RollBack,
         CaughtOther, OutcomeUnknown, Settle, Settling, Unwind, UnwindChild, UnwindEnd, Ending,
         Succeed, Unguard, Classify, Classifying
  <2>2. /\ round' = round /\ Own' = Own
        /\ \A n \in Int : OfFirst(n)' = OfFirst(n)
    BY <2>1, SameRound
  <2>3. durable' \subseteq (1..round') \X Children /\ work' \subseteq Own'
    BY <2>1, <2>2 DEF WorkInHand
  <2>4. child \in 1..(N + 1) /\ N \in Nat
    BY NAssumption DEF TypeOK
  <2>5. CASE UNCHANGED vars \/ LuaStep
    <3>1. pc' = pc /\ child' = child /\ session' = session /\ thrown' = thrown
      BY <2>5 DEF vars, LuaStep, CancelSent, CancelFailed, RequestCancel
    <3>2. \A n \in Int : n = child - 1 \/ n = child => OfFirst(n)' = OfFirst(n)
      BY <2>2
    <3> QED BY <2>1, <2>2, <2>3, <2>4, <3>1, <3>2 DEF WorkInHand, OfFirst
  <2>6. CASE StartChild
    <3>1. /\ pc = "child" /\ pc' = "exec" /\ child' = child /\ thrown' = thrown
          /\ work = OfFirst(child - 1)
      BY <2>6 DEF StartChild, WorkInHand
    <3>2. OfFirst(child - 1)' = OfFirst(child - 1)
      BY <2>2, <3>1 DEF OfFirst
    <3> QED BY <2>1, <2>3, <3>1, <3>2 DEF WorkInHand
  <2>7. CASE NoMoreChildren
    <3>1. /\ pc = "child" /\ pc' = "commit" /\ child - 1 = N /\ thrown' = thrown
          /\ work = OfFirst(child - 1)
      BY <2>4, <2>7 DEF NoMoreChildren, WorkInHand
    <3>2. work' = Own'
      BY <2>1, <2>2, <3>1, WorkOfChildren
    <3> QED BY <2>1, <2>3, <3>1, <3>2 DEF WorkInHand
  <2>8. CASE CheckStatus /\ session = "open"
    <3>1. /\ pc = "check" /\ pc' = "child" /\ child' = child + 1 /\ thrown' = thrown
          /\ work = OfFirst(child)
      BY <2>8 DEF CheckStatus, WorkInHand
    <3>2. child' - 1 = child
      BY <2>4, <3>1
    <3>3. OfFirst(child - 1)' = OfFirst(child)
      BY <2>2, <3>2 DEF OfFirst
    <3> QED BY <2>1, <2>3, <3>1, <3>3 DEF WorkInHand
  <2>9. CASE CheckStatus /\ session # "open"
    <3>1. pc' = "caught" /\ work = {}
      BY <2>9 DEF CheckStatus, WorkInHand
    <3> QED BY <2>1, <2>3, <3>1 DEF WorkInHand
  <2>10. CASE CaughtLost
    <3>1. pc' = "unwind" /\ work = {}
      BY <2>10 DEF CaughtLost, WorkInHand
    <3> QED BY <2>1, <2>3, <3>1 DEF WorkInHand
  <2>11. CASE Unalias \/ RollBack
    <3>1. pc' \in {"caught", "rollback"} /\ thrown' = thrown
      BY <2>11 DEF Unalias, RollBack, CaughtOther
    <3> QED BY <2>1, <2>3, <3>1 DEF WorkInHand
  <2>12. CASE \/ Start \/ OpenFails \/ Settle \/ Unwind \/ UnwindChild \/ UnwindEnd
              \/ Succeed \/ Unguard \/ Classify
    <3>1. /\ pc \in {"queued", "settle", "unwind", "unwindChild", "unguard", "classify"}
          /\ pc' \in {"begin", "unguard", "unwindChild", "classify", "report"}
      BY <2>12 DEF Start, OpenFails, Settle, Settling, Unwind, UnwindChild, UnwindEnd, Ending,
           Succeed, Unguard, Classify, Classifying
    <3>2. work = {}
      BY <3>1 DEF WorkInHand
    <3> QED BY <2>1, <2>3, <3>1, <3>2 DEF WorkInHand
  <2> QED BY <1>3, <2>5, <2>6, <2>7, <2>8, <2>9, <2>10, <2>11, <2>12 DEF Next, Worker
<1> QED BY <1>1, <1>2, <1>3

LEMMA FateOfStatement ==
  ASSUME TypeOK, WorkInHand, FateKnown, NoChaining, Statement
  PROVE  FateKnown'
<1> USE DEF Answer, Goto, Going, Up
<1>1. reports' = reports /\ Own' = Own
  BY SameRound DEF Statement, BeginOk, BeginFails, ChildOk, ChildEndsIt, ChildRejected,
     ChildCopies, ChildFails, RollbackOk, RollbackFails, CommitOk, CommitFails, CommitLost
<1>2. durable' = durable => Untouched' = Untouched
  BY <1>1, SameFate
<1>3. CASE BeginOk \/ ChildOk
  <2>1. pc \in {"begin", "exec"} /\ pc' \in {"child", "check"} /\ durable' = durable
    BY <1>3 DEF BeginOk, ChildOk
  <2> QED BY <1>2, <2>1 DEF FateKnown
<1>4. CASE ChildEndsIt
  <2>1. pc' = "check" /\ session' = "idle"
    BY <1>4 DEF ChildEndsIt, NoChaining
  <2> QED BY <2>1 DEF FateKnown
<1>5. CASE CommitOk
  <2>1. pc' = "settle" /\ Own' \subseteq durable'
    BY <1>1, <1>5 DEF CommitOk, WorkInHand
  <2> QED BY <2>1 DEF FateKnown
<1>6. CASE CommitLost
  <2>1. pc' = "unwind" /\ error' = "unknown"
    BY <1>6 DEF CommitLost, OutcomeUnknown
  <2> QED BY <2>1 DEF FateKnown
<1>7. CASE ~ (BeginOk \/ ChildOk \/ ChildEndsIt \/ CommitOk \/ CommitLost)
  <2>1. /\ pc \in {"begin", "exec", "commit", "rollback"} /\ pc' \in {"unalias", "unwind"}
        /\ durable' = durable /\ error' = error
    BY <1>7 DEF Statement, BeginFails, ChildRejected, ChildCopies, ChildFails, RollbackOk,
         RollbackFails, CommitFails
  <2> QED BY <1>2, <2>1 DEF FateKnown
<1> QED BY <1>3, <1>4, <1>5, <1>6, <1>7

LEMMA FatePreserved ==
  ASSUME TypeOK, ExceptionInFlight, WorkInHand, FateKnown, NoChaining, [Next]_vars
  PROVE  FateKnown'
<1> USE DEF Goto, Going, Up, dataVars, activeVars, serverVars, luaVars
<1>1. CASE Statement
  BY <1>1, FateOfStatement
<1>2. CASE Report
  <2>1. pc' = "queued" /\ durable' = durable
    BY <1>2 DEF Report
  <2>2. round' = round + 1 /\ round \in Nat
    BY <1>2, AppendProperties, LenProperties DEF Report, round, TypeOK
  <2>3. Untouched'
    BY <2>1, <2>2 DEF WorkInHand, Untouched, Own
  <2> QED BY <2>1, <2>3 DEF FateKnown
<1>3. CASE ~ Statement /\ ~ Report
  <2>1. reports' = reports /\ durable' = durable
    BY <1>3 DEF Next, vars, LuaStep, Worker, CancelSent, CancelFailed, RequestCancel, Start,
         OpenFails, StartChild, NoMoreChildren, CheckStatus, Unalias, CaughtLost, RollBack,
         CaughtOther, OutcomeUnknown, Settle, Settling, Unwind, UnwindChild, UnwindEnd, Ending,
         Succeed, Unguard, Classify, Classifying
  <2>2. Untouched' = Untouched /\ Own' = Own
    BY <2>1, SameRound, SameFate
  <2> 0 \in Targets /\ status \in [Targets -> Statuses] /\ result \in [Targets -> Results]
    BY NAssumption DEF TypeOK, Targets
  <2>3. CASE UNCHANGED vars \/ LuaStep
    BY <2>1, <2>2, <2>3 DEF vars, LuaStep, CancelSent, CancelFailed, RequestCancel, FateKnown
  <2>4. CASE Start \/ StartChild \/ NoMoreChildren
    BY <2>2, <2>4 DEF Start, StartChild, NoMoreChildren, FateKnown
  <2>5. CASE OpenFails
    BY <2>2, <2>5 DEF OpenFails, FateKnown
  <2>6. CASE CheckStatus \/ CaughtLost
    BY <2>2, <2>6 DEF CheckStatus, CaughtLost, OutcomeUnknown, FateKnown
  <2>7. CASE Unalias \/ RollBack \/ Unwind \/ UnwindChild
    <3>1. pc \in Up /\ pc' \in Up \ {"unalias"} /\ error' = error
      BY <2>7 DEF Unalias, RollBack, CaughtOther, Unwind, UnwindChild
    <3> QED BY <2>2, <3>1 DEF FateKnown
  <2>8. CASE Settle
    BY <2>1, <2>2, <2>8 DEF Settle, Settling, ExceptionInFlight, FateKnown
  <2>9. CASE UnwindEnd
    <3>1. /\ pc = "unwindChild" /\ pc' = "unguard" /\ thrown' # "none"
          /\ error' = "unknown" \/ error # "unknown"
      BY <2>9 DEF UnwindEnd, Ending, ExceptionInFlight
    <3> QED BY <2>2, <3>1 DEF FateKnown
  <2>10. CASE Succeed
    <3>1. Own' \subseteq durable'
      BY <2>1, <2>2, <2>10 DEF Succeed, FateKnown
    <3>2. pc' = "report" /\ result'[0] = "SUCCESS" /\ status'[0] = "COMPLETE"
      BY <2>10 DEF Succeed
    <3> QED BY <3>1, <3>2 DEF FateKnown
  <2>11. CASE Unguard
    <3>1. pc = "unguard" /\ pc' = "classify" /\ thrown # "none" /\ error' = error
      BY <2>11 DEF Unguard
    <3> QED BY <2>2, <3>1 DEF FateKnown
  <2>12. CASE Classify
    <3>1. pc = "classify" /\ pc' = "report" /\ error' = error /\ result'[0] # "SUCCESS"
      BY <2>12 DEF Classify, Classifying
    <3>2. status'[0] = "ABORTED" => error # "unknown"
      BY <2>12 DEF Classify, Classifying, ExceptionInFlight
    <3> QED BY <2>2, <3>1, <3>2 DEF FateKnown
  <2> QED BY <1>3, <2>3, <2>4, <2>5, <2>6, <2>7, <2>8, <2>9, <2>10, <2>11, <2>12
          DEF Next, Worker
<1> QED BY <1>1, <1>2, <1>3

\* The report of a transaction, given what has become of it.
LEMMA ReportIsTrue ==
  ASSUME TypeOK, WorkInHand, FateKnown, Report
  PROVE  \E v \in Abstract!Verdicts : Abstract!Report(v)
<1>1. pc = "report" /\ reports' = Append(reports, Verdict) /\ durable' = durable
  BY DEF Report, Goto, serverVars
<1>2. Abstract!Effects(Len(reports) + 1) = Own
  BY DEF Abstract!Effects, Own, round, Children
<1>3. Verdict \in Abstract!Verdicts
  BY DEF TypeOK, Verdict, Abstract!Verdicts
<1>4. Verdict = "success" => result[0] = "SUCCESS"
  BY DEF TypeOK, Verdict
<1>5. ASSUME Verdict \in {"rolledBack", "aborted", "failed"}
      PROVE  result[0] # "SUCCESS" /\ error # "unknown"
  BY <1>1, <1>5 DEF TypeOK, Verdict, FateKnown
<1>6. /\ Verdict \in Abstract!All => Own \subseteq durable
      /\ Verdict \in Abstract!None => Own \cap durable = {}
  BY <1>1, <1>4, <1>5 DEF FateKnown, Untouched, Abstract!All, Abstract!None
<1> QED BY <1>1, <1>2, <1>3, <1>6 DEF Abstract!Report

\* What any other step commits is of the transaction in hand.
LEMMA OnlyItsOwnEffects ==
  ASSUME TypeOK, WorkInHand, [Next]_vars, ~ Report
  PROVE  Abstract!TakeEffect
<1>1. reports' = reports /\ (durable' = durable \/ durable' = durable \union work)
  <2>1. CASE Statement
    BY <2>1 DEF Statement, BeginOk, BeginFails, ChildOk, ChildEndsIt, ChildRejected, ChildCopies,
       ChildFails, RollbackOk, RollbackFails, CommitOk, CommitFails, CommitLost, Answer
  <2>2. CASE ~ Statement
    BY <2>2 DEF Next, vars, serverVars, LuaStep, Worker, CancelSent, CancelFailed, RequestCancel,
       Start, OpenFails, StartChild, NoMoreChildren, CheckStatus, Unalias, CaughtLost, RollBack,
       CaughtOther, OutcomeUnknown, Settle, Settling, Unwind, UnwindChild, UnwindEnd, Ending,
       Succeed, Unguard, Classify, Classifying
  <2> QED BY <2>1, <2>2
<1>2. Abstract!Effects(Len(reports) + 1) = Own
  BY DEF Abstract!Effects, Own, round, Children
<1>3. PICK E \in SUBSET Own : durable' = durable \union E
  <2>1. durable \union {} = durable /\ {} \in SUBSET Own /\ work \in SUBSET Own
    BY DEF WorkInHand
  <2> QED BY <1>1, <2>1
<1> QED BY <1>1, <1>2, <1>3 DEF Abstract!TakeEffect

\* What is reported of every transaction is true, and stays true: whatever is
\* cancelled, refused or lost on the way, as long as no child chains a
\* transaction to its own.
THEOREM ReportsAreTrueUnlessChained ==
  ASSUME NoChaining PROVE Spec => ReportsAreTrue
<1> DEFINE Inv == IInv /\ WorkInHand /\ FateKnown
<1>1. Init => Inv
  <2> SUFFICES ASSUME Init PROVE Inv
    OBVIOUS
  <2>1. IInv
    BY InvariantInitially
  <2>2. work = {} /\ durable = {} /\ pc = "queued" /\ thrown = "none"
    BY DEF Init
  <2> QED BY <2>1, <2>2 DEF WorkInHand, FateKnown, Untouched
<1>2. Inv /\ [Next]_vars => Inv'
  BY InvariantPreserved, WorkPreserved, FatePreserved DEF IInv
<1>3. Init => Abstract!Init
  BY DEF Init, Abstract!Init
<1>4. Inv /\ [Next]_vars => [Abstract!Next]_<<reports, durable>>
  BY ReportIsTrue, OnlyItsOwnEffects DEF IInv, Abstract!Next
<1> QED BY <1>1, <1>2, <1>3, <1>4, PTL DEF Spec, ReportsAreTrue, Abstract!Spec
=============================================================================
