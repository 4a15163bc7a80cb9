------------------------------ MODULE MCLuaSide ------------------------------
(* The parts that share no state with each other or with the worker's, checked *)
(* by one run: in each behaviour one of them goes on while the other two stay  *)
(* where they begin.  What Statement does with a text that is there for the    *)
(* scans only, it does without settings and once.                              *)
EXTENDS MCStatement, MCConnectionConfig, MCLuaObjects

MCSqls == SomeSqls \union ShortSqls

ForScans  == sql \notin SomeSqls
SqlBegins == StatementInit /\ sql = <<"SELECT">> /\ ~prepared

LuaSideInit == StatementInit /\ ConfigInit /\ Init

LuaSideNext ==
  \/ /\ ConfigInit /\ Init
     /\ StatementNext
     /\ ForScans => /\ changes' = 0 /\ Len(execs') <= 1
                    /\ \A d \in DOMAIN execs' : execs'[d].results = <<>>
     /\ UNCHANGED <<configVars, vars>>
  \/ /\ SqlBegins /\ Init
     /\ ConfigNext
     /\ UNCHANGED <<statementVars, vars>>
  \/ /\ SqlBegins /\ ConfigInit
     /\ Next
     /\ UNCHANGED <<statementVars, configVars>>

LuaSideSpec == LuaSideInit /\ [][LuaSideNext]_<<statementVars, configVars, vars>>
=============================================================================
