----------------------------- MODULE MCStatement -----------------------------
(* Instances of Statement for TLC: the texts and answers that differ in what   *)
(* the code does with them, and all short texts for the two scans.             *)
EXTENDS Statement

SomeSqls == {<<"SELECT">>, <<"/*", "SELECT", "*/", "COMMIT">>, <<"SELECT", ";", "COMMIT">>,
             <<"SELECT", "NUL">>}
SomeAnswers == {<<>>, <<"int8">>, <<"error">>, <<"int4", "NULL">>, <<"bool", "copy">>,
                <<"text", "command", "error">>, <<"bytea", "command">>}

Words     == {"SELECT", "COMMIT", "--", "end of line", "/*", "*/", ";"}
ShortSqls == UNION {[1..n -> Words] : n \in 0..5} \union {<<c>> : c \in Control}
OneAnswer == {<<>>}
=============================================================================
