-------------------------- MODULE MCConnectionConfig --------------------------
(* An instance of ConnectionConfig for TLC: values with every character that *)
(* means something to libpq, and one it cannot take.                         *)
EXTENDS ConnectionConfig

SomeTexts == {<<>>, <<"\\", "'", " ", "host", "=", "x">>, <<"NUL">>}
=============================================================================
