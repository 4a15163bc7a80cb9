---------------------------- MODULE MCLuaObjects ----------------------------
(* Two databases and two queries, each of either database.                *)
EXTENDS LuaObjects, TLC
CONSTANTS d1, d2, q1, q2
MCDatabases == {d1, d2}
MCQueries   == {q1, q2}
OneDatabase == {d1}
OneQuery    == {q1}
Symmetry    == Permutations(MCDatabases) \union Permutations(MCQueries)
=============================================================================
