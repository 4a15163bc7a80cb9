------------------------------ MODULE LuaObjects ------------------------------
(***************************************************************************)
(* Who keeps whom alive: the Lua tables of databases and queries, the      *)
(* references the module holds to them, the garbage collector, the think   *)
(* hook over all databases, and the end of the module.                     *)
(*                                                                         *)
(* A query stands for a transaction too.  What happens to an execution in  *)
(* between is Database.tla, and to a connection, Connection.tla; think()   *)
(* is called by the hook only, and its connection callbacks, which the     *)
(* table on the stack outlives, are part of the steps around them.         *)
(***************************************************************************)
EXTENDS Integers, FiniteSets, SequencesExt

CONSTANTS Databases, Queries

Objects == Databases \union Queries
None    == "none"

ASSUME ObjectsAssumption ==
  IsFiniteSet(Objects) /\ Databases \cap Queries = {} /\ None \notin Objects

VARIABLES
  object,      \* each userdata: "new" (not made yet), "live" or "deleted"
  script,      \* objects the Lua program holds
  parent,      \* the database of each query
  dbRef,       \* queries whose m_databaseReference is set
  pinned,      \* databases whose m_tableReference is set
  execution,   \* of each query: None, "queued" or "finished"
  thread,      \* each worker: None, "running", "failed" (to connect) or "gone"
  told,        \* failed databases whose m_dbCallbackRan is set
  toThink,     \* databaseReferences of runAllThinkHooks, still to come
  thinking,    \* the database whose think() runs: its table is on the stack
  callback,    \* the query whose callback runs
  refs,        \* references created and not freed
  open         \* until GMOD_MODULE_CLOSE

life  == <<object, script, parent>>
hook  == <<toThink, thinking, callback>>
vars  == <<life, dbRef, pinned, refs, execution, thread, told, hook, open>>

Live(o)     == object[o] = "live"
InFlight(q) == execution[q] # None
Of(ds)      == {q \in Queries : parent[q] \in ds}

Typed ==
  /\ object \in [Objects -> {"new", "live", "deleted"}]
  /\ script \subseteq Objects
  /\ parent \in [Queries -> Databases \union {None}]
  /\ dbRef \subseteq Queries /\ pinned \subseteq Databases
  /\ execution \in [Queries -> {None, "queued", "finished"}]
  /\ thread \in [Databases -> {None, "running", "failed", "gone"}]
  /\ told \subseteq Databases
  /\ toThink \in Seq(Databases)
  /\ thinking \in Databases \union {None} /\ callback \in Queries \union {None}
  /\ open \in BOOLEAN

TypeOK == Typed /\ refs \in Nat

Init ==
  /\ object = [o \in Objects |-> "new"]
  /\ script = {}
  /\ parent = [q \in Queries |-> None]
  /\ dbRef = {} /\ pinned = {} /\ refs = 0
  /\ execution = [q \in Queries |-> None]
  /\ thread = [d \in Databases |-> None] /\ told = {}
  /\ toThink = <<>> /\ thinking = None /\ callback = None
  /\ open = TRUE

\* Lua code has the floor: the game between two hooks, or a callback.
BetweenHooks == open /\ thinking = None /\ toThink = <<>>
LuaRuns      == BetweenHooks \/ callback # None

\* Objects that Lua code can get at: an object passed to a callback, too.
AtHand(o) == o \in script \/ o = callback

-----------------------------------------------------------------------------
(* The Lua program. *)

\* pg.connect(...) makes the object, which enters __weakDatabases.
Create(d) ==
  /\ LuaRuns
  /\ object[d] = "new"
  /\ object' = [object EXCEPT ![d] = "live"]
  /\ script' = script \union {d}
  /\ UNCHANGED <<parent, dbRef, pinned, refs, execution, thread, told, hook, open>>

\* db:query, db:prepare, db:createTransaction: the query references its database.
MakingQuery(d, q, referencing) ==
  /\ LuaRuns
  /\ d \in script /\ object[q] = "new"
  /\ object' = [object EXCEPT ![q] = "live"]
  /\ script' = script \union {q}
  /\ parent' = [parent EXCEPT ![q] = d]
  /\ dbRef' = dbRef \union referencing
  /\ refs' = refs + Cardinality(referencing)
  /\ UNCHANGED <<pinned, execution, thread, told, hook, open>>
QueryUnreferenced(d, q) == MakingQuery(d, q, {})        \* mutant
Query(d, q)             == MakingQuery(d, q, {q})

Drop(o) ==
  /\ LuaRuns
  /\ o \in script
  /\ script' = script \ {o}
  /\ UNCHANGED <<object, parent, dbRef, pinned, refs, execution, thread, told, hook, open>>

\* db:connect() references the table, unless it is; it throws the second time.
Connect(d) ==
  /\ LuaRuns
  /\ d \in script
  /\ thread' = [thread EXCEPT ![d] = IF @ = None THEN "running" ELSE @]
  /\ pinned' = pinned \union {d}
  /\ refs' = refs + Cardinality({d} \ pinned)
  /\ UNCHANGED <<life, dbRef, execution, told, hook, open>>

\* query:start(): the execution references the query's table.
Start(q) ==
  /\ LuaRuns
  /\ AtHand(q) /\ ~InFlight(q)      \* bound: one execution of a query at a time
  /\ thread[parent[q]] \in {None, "running"}
  /\ execution' = [execution EXCEPT ![q] = "queued"]
  /\ refs' = refs + 1
  /\ UNCHANGED <<life, dbRef, pinned, thread, told, hook, open>>

\* query:abort(), or db:abortAllQueries(): its callbacks run at once.
Abort(q) ==
  /\ LuaRuns
  /\ (AtHand(q) \/ AtHand(parent[q])) /\ execution[q] = "queued"
  /\ execution' = [execution EXCEPT ![q] = None]
  /\ refs' = refs - 1
  /\ UNCHANGED <<life, dbRef, pinned, thread, told, hook, open>>

-----------------------------------------------------------------------------
(* The worker threads. *)

Complete(q) ==
  /\ execution[q] = "queued"
  /\ thread[parent[q]] = "running"
  /\ execution' = [execution EXCEPT ![q] = "finished"]
  /\ UNCHANGED <<life, dbRef, pinned, refs, thread, told, hook, open>>

\* The connection fails, or there has been one and it is disconnected: nothing
\* stays queued.
End(d) ==
  /\ thread[d] = "running"
  /\ \A q \in Of({d}) : execution[q] # "queued"
  /\ \E end \in {"failed", "gone"} : thread' = [thread EXCEPT ![d] = end]
  /\ UNCHANGED <<life, dbRef, pinned, refs, execution, told, hook, open>>

-----------------------------------------------------------------------------
(* runAllThinkHooks, and a database's think(). *)

\* The keys of __weakDatabases are referenced, in whatever order.
CopyReferences ==
  /\ BetweenHooks
  /\ \E list \in SetToSeqs({d \in Databases : Live(d)}) :
       toThink' = list /\ refs' = refs + Len(list)
  /\ UNCHANGED <<life, dbRef, pinned, execution, thread, told, thinking, callback, open>>

\* A database's reference is freed when its table is on the stack.  Its think()
\* first says, once, that the connection failed: that frees m_tableReference.
ThinkNext ==
  LET d     == Head(toThink)
      freed == {d} \cap {f \in pinned \ told : thread[f] = "failed"}
  IN  /\ thinking = None /\ toThink # <<>>
      /\ thinking' = d
      /\ toThink' = Tail(toThink)
      /\ told' = told \union freed
      /\ pinned' = pinned \ freed
      /\ refs' = refs - 1 - Cardinality(freed)
      /\ UNCHANGED <<life, dbRef, execution, thread, callback, open>>

\* A completion, in think(): its callback, after which its reference is freed.
RunCallback(q) ==
  /\ q \in Of({thinking}) /\ callback = None
  /\ execution[q] = "finished"
  /\ callback' = q
  /\ UNCHANGED <<life, dbRef, pinned, refs, execution, thread, told, toThink, thinking, open>>

Release ==
  /\ callback # None
  /\ execution' = [execution EXCEPT ![callback] = None]
  /\ refs' = refs - 1
  /\ callback' = None
  /\ UNCHANGED <<life, dbRef, pinned, thread, told, toThink, thinking, open>>

\* think() ends; if the database was disconnected, m_tableReference is freed.
ThinkEnding(freed) ==
  /\ thinking # None /\ callback = None
  /\ \A q \in Of({thinking}) : execution[q] # "finished"
  /\ pinned' = pinned \ freed
  /\ refs' = refs - Cardinality(freed)
  /\ thinking' = None
  /\ UNCHANGED <<life, dbRef, execution, thread, told, toThink, callback, open>>
Disconnected    == {d \in Databases : thread[d] = "gone"}
ThinkEndsFreed  == ThinkEnding({thinking} \cap Disconnected)   \* mutant: of one freed before
ThinkEnds       == ThinkEnding({thinking} \cap pinned \cap Disconnected)

-----------------------------------------------------------------------------
(* Garbage collection, and the end of the module. *)

\* What the collector finds an object held by, while there is a Lua state.
Held(o) ==
  \/ AtHand(o)
  \/ o \in pinned \union Range(toThink) \union {thinking}
  \/ o \in Queries /\ InFlight(o)
  \/ \E q \in dbRef : parent[q] = o

Collectable(o) == Live(o) /\ (open => ~Held(o))

CollectQuery(q) ==
  /\ Collectable(q)
  /\ object' = [object EXCEPT ![q] = "deleted"]
  /\ dbRef' = dbRef \ {q}
  /\ refs' = refs - Cardinality(dbRef \cap {q})
  /\ UNCHANGED <<script, parent, pinned, execution, thread, told, hook, open>>

\* onDestroyedByLua aborts, joins, and frees what is left, of databases ds.
DestroyingWith(ds, left) ==
  /\ execution' = [q \in Queries |-> IF q \in left THEN None ELSE execution[q]]
  /\ thread' = [d \in Databases |-> IF d \in ds /\ thread[d] = "running"
                                    THEN "gone" ELSE thread[d]]
  /\ refs' = refs - Cardinality(left) - Cardinality(pinned \cap ds)
DestroyedKeeping(ds) ==          \* mutant: m_tableReference is not reset
  /\ DestroyingWith(ds, {q \in Of(ds) : InFlight(q)})
  /\ pinned' = pinned
Destroyed(ds) ==
  /\ DestroyingWith(ds, {q \in Of(ds) : InFlight(q)})
  /\ pinned' = pinned \ ds

CollectDatabase(d) ==
  /\ Collectable(d)
  /\ Destroyed({d})
  /\ object' = [object EXCEPT ![d] = "deleted"]
  /\ UNCHANGED <<script, parent, dbRef, told, hook, open>>

\* GMOD_MODULE_CLOSE, by the game between two hooks: shutdownAll.  Then the Lua
\* state goes, and collects every object in whatever order.
Close ==
  /\ BetweenHooks
  /\ open' = FALSE
  /\ Destroyed({d \in Databases : Live(d)})
  /\ UNCHANGED <<life, dbRef, told, hook>>

-----------------------------------------------------------------------------
Next ==
  \/ \E d \in Databases :
       \/ Create(d) \/ Connect(d) \/ End(d) \/ CollectDatabase(d)
       \/ \E q \in Queries : Query(d, q)
  \/ \E q \in Queries :
       Start(q) \/ Abort(q) \/ Complete(q) \/ RunCallback(q) \/ CollectQuery(q)
  \/ \E o \in Objects : Drop(o)
  \/ CopyReferences \/ ThinkNext \/ Release \/ ThinkEnds
  \/ Close

Spec == Init /\ [][Next]_vars

\* The workers and the think hook go on, and the collector comes again and again,
\* between two hooks too; no connection need end, and no program do anything.
Fairness ==
  /\ \A q \in Queries :
       WF_vars(Complete(q)) /\ WF_vars(RunCallback(q)) /\ SF_vars(CollectQuery(q))
  /\ \A d \in Databases : SF_vars(CollectDatabase(d))
  /\ WF_vars(ThinkNext) /\ WF_vars(Release) /\ WF_vars(ThinkEnds)
  /\ SF_vars(CopyReferences)

FairSpec == Spec /\ Fairness

-----------------------------------------------------------------------------
(* Properties. *)

\* Nothing is collected that C++ code will use: the databases that
\* runAllThinkHooks has still to visit (LuaDatabase.cpp:605), and those that the
\* worker, a query or an execution needs (LuaIQuery.h:44, LuaDatabase.cpp:194).
NothingUsedIsGone ==
  open =>
    /\ \A d \in Range(toThink) \union ({thinking} \ {None}) : Live(d)
    /\ \A d \in Databases : thread[d] = "running" => Live(d)
    /\ \A q \in Queries :
         /\ Live(q) => Live(parent[q])
         /\ InFlight(q) => Live(q)

\* The session of a database that the program has dropped, with its queries, is
\* closed, by the collector at the latest (TESTS.md:2227-2229).  It is not: once
\* connect() has referenced the table, only the end of the connection releases it
\* (LuaDatabase.cpp:193-196, 466-536), so an idle session stays open, and its
\* worker runs, until the module is closed.
Dropped(d) ==
  /\ Live(d) /\ d \notin script
  /\ \A q \in Of({d}) : q \notin script /\ ~InFlight(q)

DroppedSessionsClose ==
  \A d \in Databases : Dropped(d) ~> thread[d] # "running"

\* When every object is gone, each reference that was created has been freed,
\* and none twice (LuaObject.cpp:137-145, LuaDatabase.cpp:539-556).
EveryReferenceFreed ==
  (\A o \in Objects : ~Live(o)) => refs = 0

-----------------------------------------------------------------------------
(* What makes these inductive. *)

\* A callback runs inside a think(), for an execution not yet released; and the
\* closing of the module leaves neither.
CallbackInThink ==
  /\ callback # None => thinking # None /\ execution[callback] = "finished"
  /\ ~open => /\ toThink = <<>> /\ thinking = None
              /\ pinned = {} /\ \A q \in Queries : ~InFlight(q)

\* What C++ holds a reference to, or Lua, is alive ...
HeldIsLive ==
  /\ \A d \in pinned : Live(d)
  /\ open => /\ \A o \in script : Live(o)
             /\ \A d \in Range(toThink) \union ({thinking} \ {None}) : Live(d)
             /\ \A q \in Queries : InFlight(q) => Live(q)

\* ... and a query holds its database, a worker its own.
QueryHoldsDatabase ==
  /\ \A q \in Queries : Live(q) <=> q \in dbRef
  /\ \A q \in dbRef : parent[q] \in Databases /\ (open => Live(parent[q]))
  /\ \A d \in Databases : thread[d] = "running" => d \in pinned

\* The references there are, by what holds them.
Accounted ==
  refs = Cardinality(dbRef) + Cardinality(pinned)
         + Cardinality({q \in Queries : InFlight(q)}) + Len(toThink)

IInv == TypeOK /\ CallbackInThink /\ HeldIsLive /\ QueryHoldsDatabase /\ Accounted
=============================================================================
