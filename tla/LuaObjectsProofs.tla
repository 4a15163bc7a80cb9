--------------------------- MODULE LuaObjectsProofs ---------------------------
(***************************************************************************)
(* Proofs about LuaObjects, for every finite set of databases and queries. *)
(***************************************************************************)
EXTENDS LuaObjects, FiniteSetTheorems, SequenceTheorems, TLAPS

-----------------------------------------------------------------------------
(* Types. *)

\* The list runAllThinkHooks makes of the live databases.
LEMMA ListOfLive ==
  ASSUME NEW S \in SUBSET Databases, NEW list \in SetToSeqs(S)
  PROVE  list \in Seq(Databases) /\ Len(list) \in Nat /\ Range(list) \subseteq S
<1>1. IsFiniteSet(S)
  BY ObjectsAssumption, FS_Subset DEF Objects
<1>2. Cardinality(S) \in Nat
  BY <1>1, FS_CardinalityType
<1>3. list \in [1..Cardinality(S) -> S]
  BY DEF SetToSeqs
<1>4. list \in Seq(S)
  BY <1>2, <1>3, SeqDef
<1> QED BY <1>3, <1>4, SeqMonotonic, LenProperties DEF Range

LEMMA InitTyped == Init => Typed
<1> SUFFICES ASSUME Init PROVE Typed
  OBVIOUS
<1>1. toThink \in Seq(Databases)
  BY EmptySeq DEF Init
<1> QED BY <1>1 DEF Init, Typed

LEMMA TypedPreserved == ASSUME Typed, [Next]_vars PROVE Typed'
<1> USE DEF Typed, life, hook
<1>1. CASE UNCHANGED vars
  BY <1>1 DEF vars
<1>2. ASSUME NEW d \in Databases, Create(d) \/ Connect(d) \/ End(d)
      PROVE  Typed'
  BY <1>2, ObjectsAssumption DEF Objects, Create, Connect, End
<1>3. ASSUME NEW d \in Databases, NEW q \in Queries, Query(d, q)
      PROVE  Typed'
  BY <1>3 DEF Objects, Query, MakingQuery
<1>4. ASSUME NEW d \in Databases, CollectDatabase(d)
      PROVE  Typed'
  BY <1>4 DEF Objects, CollectDatabase, Destroyed, DestroyingWith
<1>5. ASSUME NEW q \in Queries, Start(q) \/ Abort(q) \/ Complete(q) \/ RunCallback(q)
      PROVE  Typed'
  BY <1>5 DEF Start, Abort, Complete, RunCallback
<1>6. ASSUME NEW q \in Queries, CollectQuery(q)
      PROVE  Typed'
  BY <1>6 DEF Objects, CollectQuery
<1>7. ASSUME NEW o \in Objects, Drop(o)
      PROVE  Typed'
  BY <1>7 DEF Drop
<1>8. CASE CopyReferences
  <2>1. PICK list \in SetToSeqs({d \in Databases : Live(d)}) : toThink' = list
    BY <1>8 DEF CopyReferences
  <2>2. toThink' \in Seq(Databases)
    BY <2>1, ListOfLive
  <2> QED BY <1>8, <2>2 DEF CopyReferences
<1>9. CASE ThinkNext
  <2>1. Head(toThink) \in Databases /\ Tail(toThink) \in Seq(Databases)
    BY <1>9, HeadTailProperties DEF ThinkNext
  <2> QED BY <1>9, <2>1 DEF ThinkNext
<1>10. CASE Release \/ ThinkEnds
  BY <1>10 DEF Release, ThinkEnds, ThinkEnding
<1>11. CASE Close
  BY <1>11 DEF Close, Destroyed, DestroyingWith
<1> QED BY <1>1, <1>2, <1>3, <1>4, <1>5, <1>6, <1>7, <1>8, <1>9, <1>10, <1>11 DEF Next

-----------------------------------------------------------------------------
(* Who holds whom. *)

Holding == Typed /\ CallbackInThink /\ HeldIsLive /\ QueryHoldsDatabase

\* Lua code runs only while the module is open, and gets at live objects.
LEMMA LuaIsOpen ==
  ASSUME Holding
  PROVE  /\ LuaRuns \/ BetweenHooks => open
         /\ LuaRuns => \A o \in Objects : AtHand(o) => Live(o)
<1>1. LuaRuns \/ BetweenHooks => open
  BY DEF Holding, CallbackInThink, LuaRuns, BetweenHooks
<1>2. ASSUME LuaRuns, NEW o \in Objects, AtHand(o)
      PROVE  Live(o)
  <2>1. CASE o \in script
    BY <1>1, <1>2, <2>1 DEF Holding, HeldIsLive
  <2>2. CASE o = callback
    <3>1. o \in Queries /\ execution[o] = "finished"
      BY <2>2, ObjectsAssumption DEF Holding, Typed, CallbackInThink
    <3> QED BY <1>1, <1>2, <3>1 DEF Holding, HeldIsLive, InFlight, None
  <2> QED BY <1>2, <2>1, <2>2 DEF AtHand
<1> QED BY <1>1, <1>2

\* The collector takes a database that nothing is under way on.
LEMMA CollectedIsIdle ==
  ASSUME Holding, NEW d \in Databases, Collectable(d)
  PROVE  /\ d \notin pinned /\ thread[d] # "running"
         /\ open => d \notin script /\ d \notin Range(toThink) /\ d # thinking
         /\ \A q \in Of({d}) : ~InFlight(q) /\ (open => ~Live(q))
<1>1. d \notin pinned
  BY DEF Holding, CallbackInThink, Collectable, Held
<1>2. thread[d] # "running"
  BY <1>1 DEF Holding, QueryHoldsDatabase
<1>3. open => d \notin script /\ d \notin Range(toThink) /\ d # thinking
  BY DEF Collectable, Held, AtHand
<1>4. ASSUME NEW q \in Of({d})
      PROVE  ~InFlight(q) /\ (open => ~Live(q))
  <2>1. q \in Queries /\ parent[q] = d
    BY DEF Of
  <2>2. open => ~Live(q)
    BY <2>1 DEF Holding, QueryHoldsDatabase, Collectable, Held
  <2> QED BY <2>1, <2>2 DEF Holding, HeldIsLive, CallbackInThink
<1> QED BY <1>1, <1>2, <1>3, <1>4

\* What onDestroyedByLua does to a database that is idle.
LEMMA DestroyedIdle ==
  ASSUME Holding, refs \in Nat, NEW d \in Databases, Collectable(d), Destroyed({d})
  PROVE  execution' = execution /\ thread' = thread /\ pinned' = pinned /\ refs' = refs
<1>1. {q \in Of({d}) : InFlight(q)} = {} /\ pinned \cap {d} = {} /\ thread[d] # "running"
  BY CollectedIsIdle
<1>2. execution' = execution
  BY <1>1 DEF Destroyed, DestroyingWith, Holding, Typed
<1>3. thread' = thread
  BY <1>1 DEF Destroyed, DestroyingWith, Holding, Typed
<1>4. pinned' = pinned
  BY <1>1 DEF Destroyed
<1>5. Cardinality({}) = 0
  BY FS_EmptySet
<1>6. refs' = refs - Cardinality({q \in Of({d}) : InFlight(q)}) - Cardinality(pinned \cap {d})
  BY DEF Destroyed, DestroyingWith
<1>7. refs' = refs
  BY <1>1, <1>5, <1>6
<1> QED BY <1>2, <1>3, <1>4, <1>7

LEMMA HoldingPreserved ==
  ASSUME Holding, refs \in Nat, [Next]_vars
  PROVE  CallbackInThink' /\ HeldIsLive' /\ QueryHoldsDatabase'
<1> DEFINE Goal == CallbackInThink' /\ HeldIsLive' /\ QueryHoldsDatabase'
<1> USE ObjectsAssumption DEF Holding, Live, InFlight, life, hook, None
<1> Databases \subseteq Objects /\ Queries \subseteq Objects
  BY DEF Objects
<1>1. CASE UNCHANGED vars
  BY <1>1 DEF vars, Typed, CallbackInThink, HeldIsLive, QueryHoldsDatabase
<1>2. ASSUME NEW d \in Databases, Create(d)
      PROVE  Goal
  BY <1>2 DEF Create, Typed, CallbackInThink, HeldIsLive, QueryHoldsDatabase
<1>3. ASSUME NEW d \in Databases, Connect(d)
      PROVE  Goal
  <2>1. open /\ Live(d)
    BY <1>3, LuaIsOpen DEF Connect, HeldIsLive
  <2> QED BY <1>3, <2>1 DEF Connect, Typed, CallbackInThink, HeldIsLive, QueryHoldsDatabase
<1>4. ASSUME NEW d \in Databases, End(d)
      PROVE  Goal
  BY <1>4 DEF End, Typed, CallbackInThink, HeldIsLive, QueryHoldsDatabase
<1>5. ASSUME NEW d \in Databases, CollectDatabase(d)
      PROVE  Goal
  <2>1. execution' = execution /\ thread' = thread /\ pinned' = pinned
    BY <1>5, DestroyedIdle DEF CollectDatabase
  <2>2. /\ d \notin pinned
        /\ open => d \notin script /\ d \notin Range(toThink) /\ d # thinking
        /\ open => \A q \in Queries : parent[q] = d => ~Live(q)
    BY <1>5, CollectedIsIdle DEF CollectDatabase, Of
  <2>3. /\ object' = [object EXCEPT ![d] = "deleted"]
        /\ UNCHANGED <<script, parent, dbRef, told, hook, open>>
    BY <1>5 DEF CollectDatabase
  <2>4. CallbackInThink'
    BY <2>1, <2>3 DEF CallbackInThink
  <2>5. HeldIsLive'
    BY <2>1, <2>2, <2>3 DEF HeldIsLive, Typed
  <2>6. QueryHoldsDatabase'
    BY <2>1, <2>2, <2>3 DEF QueryHoldsDatabase, Typed
  <2> QED BY <2>4, <2>5, <2>6
<1>6. ASSUME NEW d \in Databases, NEW q \in Queries, Query(d, q)
      PROVE  Goal
  <2>1. open /\ Live(d) /\ d # q
    BY <1>6, LuaIsOpen DEF Query, MakingQuery, HeldIsLive
  <2>2. /\ object[q] = "new" /\ object' = [object EXCEPT ![q] = "live"]
        /\ script' = script \union {q} /\ parent' = [parent EXCEPT ![q] = d]
        /\ dbRef' = dbRef \union {q}
        /\ UNCHANGED <<pinned, execution, thread, told, hook, open>>
    BY <1>6 DEF Query, MakingQuery
  <2>3. CallbackInThink'
    BY <2>2 DEF CallbackInThink
  <2>4. HeldIsLive'
    BY <2>1, <2>2 DEF HeldIsLive, Typed
  <2>5. QueryHoldsDatabase'
    BY <2>1, <2>2 DEF QueryHoldsDatabase, Typed
  <2> QED BY <2>3, <2>4, <2>5
<1>7. ASSUME NEW q \in Queries, Start(q)
      PROVE  Goal
  <2>1. open /\ Live(q) /\ q # callback
    BY <1>7, LuaIsOpen DEF Start, CallbackInThink
  <2> QED BY <1>7, <2>1 DEF Start, Typed, CallbackInThink, HeldIsLive, QueryHoldsDatabase
<1>8. ASSUME NEW q \in Queries, Abort(q) \/ Complete(q)
      PROVE  Goal
  <2>1. q # callback
    BY <1>8 DEF Abort, Complete, CallbackInThink
  <2>2. /\ execution[q] = "queued" /\ execution' \in {[execution EXCEPT ![q] = None],
                                                      [execution EXCEPT ![q] = "finished"]}
        /\ UNCHANGED <<life, dbRef, pinned, thread, told, hook, open>>
    BY <1>8 DEF Abort, Complete
  <2> QED BY <2>1, <2>2 DEF Typed, CallbackInThink, HeldIsLive, QueryHoldsDatabase
<1>9. ASSUME NEW q \in Queries, RunCallback(q)
      PROVE  Goal
  <2>1. open /\ Live(q) /\ parent[q] = thinking
    BY <1>9 DEF RunCallback, CallbackInThink, HeldIsLive, Of
  <2>2. thinking # None
    BY <2>1 DEF QueryHoldsDatabase
  <2> QED BY <1>9, <2>2 DEF RunCallback, Typed, CallbackInThink, HeldIsLive, QueryHoldsDatabase
<1>10. ASSUME NEW q \in Queries, CollectQuery(q)
      PROVE  Goal
  <2>1. open => q \notin script /\ ~InFlight(q)
    BY <1>10 DEF CollectQuery, Collectable, Held, AtHand
  <2>2. /\ object' = [object EXCEPT ![q] = "deleted"] /\ dbRef' = dbRef \ {q}
        /\ UNCHANGED <<script, parent, pinned, execution, thread, told, hook, open>>
    BY <1>10 DEF CollectQuery
  <2>3. \A o \in Objects : Live(o)' <=> Live(o) /\ o # q
    BY <2>2 DEF Typed
  <2>4. CallbackInThink'
    BY <2>2 DEF CallbackInThink
  <2>5. \A d \in Databases : d # q
    OBVIOUS
  <2> HIDE DEF Live
  <2>6. HeldIsLive'
    BY <2>1, <2>2, <2>3, <2>5 DEF HeldIsLive, Typed, Range
  <2>7. QueryHoldsDatabase'
    BY <2>2, <2>3, <2>5 DEF QueryHoldsDatabase, Typed
  <2> QED BY <2>4, <2>6, <2>7
<1>11. ASSUME NEW o \in Objects, Drop(o)
      PROVE  Goal
  BY <1>11 DEF Drop, Typed, CallbackInThink, HeldIsLive, QueryHoldsDatabase
<1>12. CASE CopyReferences
  <2>1. open
    BY <1>12, LuaIsOpen DEF CopyReferences
  <2>2. PICK list \in SetToSeqs({d \in Databases : Live(d)}) : toThink' = list
    BY <1>12 DEF CopyReferences
  <2>3. Range(toThink') \subseteq {d \in Databases : Live(d)}
    BY <2>2, ListOfLive
  <2> QED BY <1>12, <2>1, <2>3
          DEF CopyReferences, CallbackInThink, HeldIsLive, QueryHoldsDatabase
<1>13. CASE ThinkNext
  <2>1. open
    BY <1>13 DEF ThinkNext, CallbackInThink
  <2>2. thinking' \in Range(toThink) /\ Range(toThink') \subseteq Range(toThink)
    <3>1. toThink \in Seq(Databases) /\ toThink # <<>>
      BY <1>13 DEF ThinkNext, Typed
    <3>2. Len(toThink) \in Nat \ {0} /\ DOMAIN toThink = 1..Len(toThink)
      BY <3>1, EmptySeq, LenProperties
    <3>3. thinking' = toThink[1] /\ toThink' = Tail(toThink)
      BY <1>13 DEF ThinkNext
    <3>4. /\ toThink' \in Seq(Databases) /\ Len(toThink') = Len(toThink) - 1
          /\ \A i \in 1..Len(toThink') : toThink'[i] = toThink[i + 1]
      BY <3>1, <3>3, HeadTailProperties
    <3>5. DOMAIN toThink' = 1..Len(toThink')
      BY <3>4, LenProperties
    <3> QED BY <3>2, <3>3, <3>4, <3>5 DEF Range
  <2>3. /\ pinned' \subseteq pinned /\ \A d \in pinned : thread[d] = "running" => d \in pinned'
        /\ UNCHANGED <<life, dbRef, execution, thread, callback, open>>
    BY <1>13 DEF ThinkNext
  <2>4. thinking' # None /\ thinking' \in Databases
    BY <2>2, RangeOfSeq DEF Typed
  <2>5. CallbackInThink'
    BY <2>1, <2>3, <2>4 DEF CallbackInThink
  <2>6. HeldIsLive'
    BY <2>1, <2>2, <2>3 DEF HeldIsLive
  <2>7. QueryHoldsDatabase'
    BY <2>3 DEF QueryHoldsDatabase
  <2> QED BY <2>5, <2>6, <2>7
<1>14. CASE Release
  BY <1>14 DEF Release, Typed, CallbackInThink, HeldIsLive, QueryHoldsDatabase
<1>15. CASE ThinkEnds
  BY <1>15 DEF ThinkEnds, ThinkEnding, Disconnected,
       Typed, CallbackInThink, HeldIsLive, QueryHoldsDatabase
<1>16. CASE Close
  <2> DEFINE ds == {d \in Databases : Live(d)}
  <2>1. open /\ thinking = None /\ toThink = <<>> /\ open' = FALSE
    BY <1>16 DEF Close, BetweenHooks
  <2>2. /\ execution' = [q \in Queries |-> IF q \in Of(ds) /\ InFlight(q) THEN None
                                           ELSE execution[q]]
        /\ pinned' = pinned \ ds
        /\ thread' = [d \in Databases |-> IF d \in ds /\ thread[d] = "running"
                                          THEN "gone" ELSE thread[d]]
        /\ UNCHANGED <<life, dbRef, told, hook>>
    BY <1>16 DEF Close, Destroyed, DestroyingWith
  <2>3. pinned' = {}
    BY <2>2 DEF Typed, HeldIsLive
  <2>4. \A q \in Queries : InFlight(q) => q \in Of(ds)
    BY <2>1 DEF Of, HeldIsLive, QueryHoldsDatabase
  <2>5. \A q \in Queries : execution'[q] = None
    BY <2>2, <2>4
  <2>6. \A d \in Databases : thread'[d] # "running"
    BY <2>2 DEF QueryHoldsDatabase, HeldIsLive
  <2> HIDE DEF ds
  <2>7. CallbackInThink'
    BY <2>1, <2>2, <2>3, <2>5 DEF CallbackInThink
  <2> QED BY <2>1, <2>2, <2>3, <2>6, <2>7 DEF HeldIsLive, QueryHoldsDatabase
<1> QED BY <1>1, <1>2, <1>3, <1>4, <1>5, <1>6, <1>7, <1>8, <1>9, <1>10, <1>11, <1>12,
           <1>13, <1>14, <1>15, <1>16 DEF Next

-----------------------------------------------------------------------------
(* How many references there are. *)

\* Freeing at most one of the references of a kind.
LEMMA FreeOne ==
  ASSUME NEW S, IsFiniteSet(S), NEW x, NEW T \in SUBSET (S \cap {x})
  PROVE  Cardinality(S \ T) = Cardinality(S) - Cardinality(T)
<1>1. CASE T = {}
  BY <1>1, FS_EmptySet, FS_CardinalityType
<1>2. CASE T = {x} /\ x \in S
  BY <1>2, FS_RemoveElement, FS_Singleton
<1> QED BY <1>1, <1>2

UnderWay == {q \in Queries : InFlight(q)}

LEMMA FiniteSets ==
  ASSUME Typed
  PROVE  /\ IsFiniteSet(dbRef) /\ IsFiniteSet(pinned) /\ IsFiniteSet(UnderWay)
         /\ Cardinality(dbRef) \in Nat /\ Cardinality(pinned) \in Nat
         /\ Cardinality(UnderWay) \in Nat /\ Len(toThink) \in Nat
<1>1. IsFiniteSet(dbRef) /\ IsFiniteSet(pinned) /\ IsFiniteSet(UnderWay)
  BY ObjectsAssumption, FS_Subset DEF Objects, Typed, UnderWay
<1> QED BY <1>1, FS_CardinalityType, LenProperties DEF Typed

LEMMA RefsNat == Typed /\ Accounted => refs \in Nat
<1> SUFFICES ASSUME Typed, Accounted PROVE refs \in Nat
  OBVIOUS
<1>1. refs = Cardinality(dbRef) + Cardinality(pinned) + Cardinality(UnderWay) + Len(toThink)
  BY DEF Accounted, UnderWay
<1> QED BY <1>1, FiniteSets

LEMMA OneLess ==
  ASSUME NEW a \in Nat, NEW b \in Nat, NEW c \in Nat, NEW l \in Nat, NEW n \in Nat
  PROVE  (a + b + c + l) - 1 - n = a + (b - n) + c + (l - 1)
OBVIOUS

\* What the steps do to the four kinds of reference, one kind at a time.
LEMMA AccountedPreserved ==
  ASSUME Holding, Accounted, refs \in Nat, [Next]_vars
  PROVE  Accounted'
<1> DEFINE Sum == Cardinality(dbRef) + Cardinality(pinned) + Cardinality(UnderWay) + Len(toThink)
<1> SUFFICES refs' = Sum'
  BY DEF Accounted, UnderWay
<1>a. refs = Sum
  BY DEF Accounted, UnderWay
<1>b. /\ IsFiniteSet(dbRef) /\ IsFiniteSet(pinned) /\ IsFiniteSet(UnderWay)
      /\ Cardinality(dbRef) \in Nat /\ Cardinality(pinned) \in Nat
      /\ Cardinality(UnderWay) \in Nat /\ Len(toThink) \in Nat
  BY FiniteSets DEF Holding
<1>c. Typed
  BY DEF Holding
<1>d. \A x : Cardinality({x}) = 1
  BY FS_Singleton
<1>e. Cardinality({}) = 0
  BY FS_EmptySet
<1> USE DEF life, hook
<1>1. CASE \/ UNCHANGED vars
           \/ \E d \in Databases : Create(d) \/ End(d)
           \/ \E o \in Objects : Drop(o)
           \/ \E q \in Queries : RunCallback(q)
  BY <1>1, <1>a DEF vars, Create, End, Drop, RunCallback, UnderWay, InFlight
<1>2. ASSUME NEW q \in Queries, Complete(q)
      PROVE  refs' = Sum'
  <2>1. UnderWay' = UnderWay
    BY <1>2, <1>c DEF Complete, UnderWay, InFlight, Typed, None
  <2> QED BY <1>2, <1>a, <2>1 DEF Complete
<1>3. ASSUME NEW d \in Databases, Connect(d)
      PROVE  refs' = Sum'
  <2>1. UnderWay' = UnderWay /\ pinned' = pinned \union {d}
        /\ refs' = refs + Cardinality({d} \ pinned) /\ UNCHANGED <<dbRef, toThink>>
    BY <1>3 DEF Connect, UnderWay, InFlight
  <2>2. Cardinality({d} \ pinned) = IF d \in pinned THEN 0 ELSE 1
    <3>1. {d} \ pinned = IF d \in pinned THEN {} ELSE {d}
      OBVIOUS
    <3> QED BY <3>1, <1>d, <1>e
  <2>3. Cardinality(pinned') = IF d \in pinned THEN Cardinality(pinned) ELSE Cardinality(pinned) + 1
    BY <1>b, <2>1, FS_AddElement
  <2> QED BY <1>a, <1>b, <2>1, <2>2, <2>3
<1>4. ASSUME NEW d \in Databases, NEW q \in Queries, Query(d, q)
      PROVE  refs' = Sum'
  <2>1. UnderWay' = UnderWay /\ dbRef' = dbRef \union {q} /\ refs' = refs + Cardinality({q})
        /\ UNCHANGED <<pinned, toThink>>
    BY <1>4 DEF Query, MakingQuery, UnderWay, InFlight
  <2>2. q \notin dbRef
    BY <1>4 DEF Query, MakingQuery, Holding, QueryHoldsDatabase, Live
  <2>3. Cardinality(dbRef') = Cardinality(dbRef) + 1
    BY <1>b, <2>1, <2>2, FS_AddElement
  <2>4. refs' = refs + 1
    BY <1>d, <2>1
  <2> QED BY <1>a, <1>b, <2>1, <2>3, <2>4
<1>5. ASSUME NEW q \in Queries, Start(q)
      PROVE  refs' = Sum'
  <2>1. UnderWay' = UnderWay \union {q} /\ q \notin UnderWay /\ refs' = refs + 1
        /\ UNCHANGED <<dbRef, pinned, toThink>>
    BY <1>5, <1>c DEF Start, UnderWay, InFlight, Typed, None
  <2>2. Cardinality(UnderWay') = Cardinality(UnderWay) + 1
    BY <1>b, <2>1, FS_AddElement
  <2> QED BY <1>a, <1>b, <2>1, <2>2
<1>6. ASSUME NEW q \in Queries, Abort(q)
      PROVE  refs' = Sum'
  <2>1. UnderWay' = UnderWay \ {q} /\ q \in UnderWay /\ refs' = refs - 1
        /\ UNCHANGED <<dbRef, pinned, toThink>>
    BY <1>6, <1>c DEF Abort, UnderWay, InFlight, Typed, None
  <2>2. Cardinality(UnderWay') = Cardinality(UnderWay) - 1
    BY <1>b, <2>1, FS_RemoveElement
  <2> QED BY <1>a, <1>b, <2>1, <2>2
<1>7. CASE Release
  <2>1. callback \in Queries /\ execution[callback] = "finished"
    BY <1>7, <1>c DEF Release, Typed, Holding, CallbackInThink
  <2>2. UnderWay' = UnderWay \ {callback} /\ callback \in UnderWay /\ refs' = refs - 1
        /\ UNCHANGED <<dbRef, pinned, toThink>>
    BY <1>7, <1>c, <2>1 DEF Release, UnderWay, InFlight, Typed, None
  <2>3. Cardinality(UnderWay') = Cardinality(UnderWay) - 1
    BY <1>b, <2>2, FS_RemoveElement
  <2> QED BY <1>a, <1>b, <2>2, <2>3
<1>8. ASSUME NEW q \in Queries, CollectQuery(q)
      PROVE  refs' = Sum'
  <2>1. UnderWay' = UnderWay /\ dbRef' = dbRef \ (dbRef \cap {q})
        /\ refs' = refs - Cardinality(dbRef \cap {q}) /\ UNCHANGED <<pinned, toThink>>
    BY <1>8 DEF CollectQuery, UnderWay, InFlight
  <2>2. Cardinality(dbRef') = Cardinality(dbRef) - Cardinality(dbRef \cap {q})
    BY <1>b, <2>1, FreeOne
  <2>3. Cardinality(dbRef \cap {q}) \in Nat
    BY <1>b, FS_Subset, FS_CardinalityType
  <2> QED BY <1>a, <1>b, <2>1, <2>2, <2>3
<1>9. CASE CopyReferences
  <2>1. PICK list \in SetToSeqs({d \in Databases : Live(d)}) :
           toThink' = list /\ refs' = refs + Len(list)
    BY <1>9 DEF CopyReferences
  <2>2. Len(list) \in Nat /\ Len(toThink) = 0
    BY <1>9, <2>1, ListOfLive, EmptySeq DEF CopyReferences, BetweenHooks
  <2>3. UnderWay' = UnderWay /\ UNCHANGED <<dbRef, pinned>>
    BY <1>9 DEF CopyReferences, UnderWay, InFlight
  <2> QED BY <1>a, <1>b, <2>1, <2>2, <2>3
<1>10. CASE ThinkNext
  <2> DEFINE d     == Head(toThink)
             freed == {d} \cap {f \in pinned \ told : thread[f] = "failed"}
  <2>1. Len(toThink') = Len(toThink) - 1
    BY <1>10, <1>c, HeadTailProperties DEF ThinkNext, Typed
  <2>2. UnderWay' = UnderWay /\ pinned' = pinned \ freed
        /\ refs' = refs - 1 - Cardinality(freed) /\ UNCHANGED dbRef
    BY <1>10 DEF ThinkNext, UnderWay, InFlight
  <2>3. Cardinality(pinned') = Cardinality(pinned) - Cardinality(freed)
    BY <1>b, <2>2, FreeOne
  <2>4. PICK a \in Nat, b \in Nat, c \in Nat, l \in Nat, n \in Nat :
          /\ a = Cardinality(dbRef) /\ b = Cardinality(pinned)
          /\ c = Cardinality(UnderWay) /\ l = Len(toThink) /\ n = Cardinality(freed)
    BY <1>b, FS_Subset, FS_CardinalityType
  <2>5. refs = a + b + c + l /\ refs' = refs - 1 - n
    BY <1>a, <2>2, <2>4
  <2>6. refs' = a + (b - n) + c + (l - 1)
    BY <2>5, OneLess
  <2>7. /\ Cardinality(dbRef') = a /\ Cardinality(pinned') = b - n
        /\ Cardinality(UnderWay') = c /\ Len(toThink') = l - 1
    BY <2>1, <2>2, <2>3, <2>4
  <2> QED BY <2>6, <2>7
<1>11. CASE ThinkEnds
  <2> DEFINE freed == {thinking} \cap pinned \cap Disconnected
  <2>1. UnderWay' = UnderWay /\ pinned' = pinned \ freed
        /\ refs' = refs - Cardinality(freed) /\ UNCHANGED <<dbRef, toThink>>
    BY <1>11 DEF ThinkEnds, ThinkEnding, UnderWay, InFlight
  <2>2. Cardinality(pinned') = Cardinality(pinned) - Cardinality(freed)
    BY <1>b, <2>1, FreeOne
  <2>3. Cardinality(freed) \in Nat
    BY <1>b, FS_Subset, FS_CardinalityType
  <2> QED BY <1>a, <1>b, <2>1, <2>2, <2>3
<1>12. ASSUME NEW d \in Databases, CollectDatabase(d)
      PROVE  refs' = Sum'
  <2>1. execution' = execution /\ pinned' = pinned /\ refs' = refs
    BY <1>12, DestroyedIdle DEF CollectDatabase
  <2> QED BY <1>12, <1>a, <2>1 DEF CollectDatabase, UnderWay, InFlight
<1>13. CASE Close
  <2> DEFINE ds == {d \in Databases : Live(d)}
             left == {q \in Of(ds) : InFlight(q)}
  <2>1. open /\ toThink = <<>> /\ UNCHANGED <<dbRef, toThink>>
    BY <1>13 DEF Close, BetweenHooks
  <2>2. left = UnderWay
    BY <2>1 DEF Of, UnderWay, Holding, HeldIsLive, QueryHoldsDatabase
  <2>3. pinned \cap ds = pinned /\ pinned \ ds = {}
    BY <1>c DEF Typed, Holding, HeldIsLive
  <2>4. /\ refs' = refs - Cardinality(left) - Cardinality(pinned \cap ds)
        /\ pinned' = pinned \ ds
        /\ execution' = [q \in Queries |-> IF q \in left THEN None ELSE execution[q]]
    BY <1>13 DEF Close, Destroyed, DestroyingWith
  <2>5. UnderWay' = {}
    BY <2>2, <2>4 DEF UnderWay, InFlight
  <2>6. pinned' = {} /\ refs' = refs - Cardinality(UnderWay) - Cardinality(pinned)
    BY <2>2, <2>3, <2>4
  <2> QED BY <1>a, <1>b, <1>e, <2>1, <2>5, <2>6
<1> HIDE DEF Sum
<1> QED BY  <1>1, <1>2, <1>3, <1>4, <1>5, <1>6, <1>7, <1>8, <1>9, <1>10, <1>11, <1>12, <1>13
        DEF Next

-----------------------------------------------------------------------------
(* The invariant, and what it shows. *)

LEMMA InvariantInitially == Init => IInv
<1> SUFFICES ASSUME Init PROVE IInv
  OBVIOUS
<1>1. Typed
  BY InitTyped
<1>2. Range(toThink) = {} /\ Len(toThink) = 0
  BY EmptySeq DEF Init, Range
<1>3. \A q \in Queries : ~InFlight(q)
  BY DEF Init, InFlight
<1>4. CallbackInThink
  BY <1>3 DEF Init, CallbackInThink
<1>5. HeldIsLive
  BY <1>2, <1>3 DEF Init, HeldIsLive
<1>6. QueryHoldsDatabase
  BY DEF Init, QueryHoldsDatabase, Live, Objects, None
<1>7. UnderWay = {} /\ Cardinality({}) = 0
  BY <1>3, FS_EmptySet DEF UnderWay
<1>8. Accounted
  <2>1. dbRef = {} /\ pinned = {} /\ refs = 0
    BY DEF Init
  <2>2. refs = Cardinality(dbRef) + Cardinality(pinned) + Cardinality(UnderWay) + Len(toThink)
    BY <1>2, <1>7, <2>1
  <2> QED BY <2>2 DEF Accounted, UnderWay
<1>9. refs \in Nat
  BY DEF Init
<1> QED BY <1>1, <1>4, <1>5, <1>6, <1>8, <1>9 DEF IInv, TypeOK

LEMMA InvariantPreserved == IInv /\ [Next]_vars => IInv'
<1> SUFFICES ASSUME IInv, [Next]_vars PROVE IInv'
  OBVIOUS
<1>1. Holding /\ Accounted /\ refs \in Nat
  BY DEF IInv, TypeOK, Holding
<1>2. Typed'
  BY <1>1, TypedPreserved DEF Holding
<1>3. CallbackInThink' /\ HeldIsLive' /\ QueryHoldsDatabase'
  BY <1>1, HoldingPreserved
<1>4. Accounted'
  BY <1>1, AccountedPreserved
<1>5. refs' \in Nat
  <2>1. (Typed /\ Accounted => refs \in Nat)'
    BY RefsNat, PTL
  <2> QED BY <1>2, <1>4, <2>1
<1> QED BY <1>2, <1>3, <1>4, <1>5 DEF IInv, TypeOK

LEMMA Inductive == Spec => []IInv
BY InvariantInitially, InvariantPreserved, PTL DEF Spec

\* The state of the objects stays of its type: no reference is freed that was
\* not created (LuaReferenceFree, wherever LuaDatabase and LuaIQuery call it).
THEOREM TypeCorrect == Spec => []TypeOK
<1>1. IInv => TypeOK
  BY DEF IInv
<1> QED BY <1>1, Inductive, PTL

\* While the module is open, the collector takes no database or query that the
\* think hook, a worker, a query or an execution will use (LuaDatabase.cpp:605,
\* 194; LuaIQuery.h:44).
THEOREM UsedObjectsStay == Spec => []NothingUsedIsGone
<1>1. IInv => NothingUsedIsGone
  BY DEF IInv, HeldIsLive, QueryHoldsDatabase, NothingUsedIsGone
<1> QED BY <1>1, Inductive, PTL

\* When the last object is gone, every reference is freed (LuaObject.cpp:137).
THEOREM NoReferenceLeft == Spec => []EveryReferenceFreed
<1>1. IInv => EveryReferenceFreed
  <2> SUFFICES ASSUME IInv, \A o \in Objects : ~Live(o)
               PROVE  refs = 0
    BY DEF EveryReferenceFreed
  <2>1. dbRef = {} /\ pinned = {}
    BY DEF IInv, TypeOK, Typed, QueryHoldsDatabase, HeldIsLive, Objects
  <2>2. UnderWay = {}
    BY DEF IInv, HeldIsLive, CallbackInThink, UnderWay, Objects
  <2>3. toThink = <<>>
    <3>1. CASE open
      <4>1. toThink \in Seq(Databases)
        BY DEF IInv, TypeOK, Typed
      <4>2. toThink # <<>> => Head(toThink) \in Range(toThink) /\ Head(toThink) \in Databases
        BY <4>1, EmptySeq, LenProperties, HeadTailProperties DEF Range
      <4> QED BY <3>1, <4>2 DEF IInv, HeldIsLive, Objects
    <3>2. CASE ~open
      BY <3>2 DEF IInv, CallbackInThink
    <3> QED BY <3>1, <3>2
  <2>4. Cardinality({}) = 0 /\ Len(toThink) = 0
    BY <2>3, FS_EmptySet, EmptySeq
  <2>5. refs = Cardinality(dbRef) + Cardinality(pinned) + Cardinality(UnderWay) + Len(toThink)
    BY DEF IInv, Accounted, UnderWay
  <2> QED BY <2>1, <2>2, <2>4, <2>5
<1> QED BY <1>1, Inductive, PTL
=============================================================================
