------------------------------ MODULE Statement ------------------------------
(***************************************************************************)
(* What one query object says to the server and shows to Lua: the settings *)
(* an execution is built with, the message that is sent for it, the        *)
(* results that come back, and the cursor Lua reads them by.               *)
(*                                                                         *)
(* SQL is a sequence of words and signs with blanks between them; a result *)
(* is the type of its only column.                                         *)
(* The worker executes while Lua changes the settings for later executions.*)
(***************************************************************************)
EXTENDS Naturals, FiniteSetsExt, SequencesExt

CONSTANTS Sqls,        \* the texts to try
          Answers,     \* the results a server may answer with, in order
          MaxChanges,  \* bound: calls that change a setting
          MaxExecs     \* bound: executions

Control == {"BEGIN", "START", "COMMIT", "END", "ROLLBACK", "ABORT"}
Tokens  == Control \union {"SELECT", "--", "end of line", "/*", "*/", ";", "NUL"}
Kinds  == {"bool", "int4", "int8", "bytea", "text", "NULL", "command"}

ASSUME StatementAssumption ==
  /\ Sqls \subseteq Seq(Tokens)
  /\ Answers \subseteq Seq(Kinds \union {"error", "copy"})
  /\ MaxChanges \in Nat /\ MaxExecs \in Nat

VARIABLES
  sql, prepared,   \* m_query, and whether it is a PreparedQuery
  settings,        \* m_parameters, m_options, the database's m_multiStatements
  changes,
  execs,           \* the IQueryData built
  callbackData,    \* callbackQueryData, 0 if none
  asked,           \* history: the settings in force when each was built
  sent,            \* history: what was sent for each
  shown            \* history: the results Lua has been shown of each, in order

statementVars == <<sql, prepared, settings, changes, execs, callbackData, asked, sent, shown>>

Indexes == 1..3
Values  == {"number", "text", "boolean", "null"}
Options == {"numeric", "named", "interpret"}
Settings ==
  [params: UNION {[D -> Values] : D \in SUBSET Indexes}, options: SUBSET Options,
   multi: BOOLEAN]

\* One IQueryData, one message and one result that Lua was shown.
Executions ==
  [params: UNION {[D -> Values] : D \in SUBSET Indexes}, options: SUBSET Options,
   multi: BOOLEAN, staged: BOOLEAN, state: {"built", "success", "error"}, told: BOOLEAN,
   results: Seq(Kinds), current: Nat]
Messages == [mode: {"none", "simple", "params"}, sql: Seq(Tokens), values: Seq(Values)]
Rows     ==
  [result: Nat, key: {"number", "name"},
   type: {"nil", "no rows", "string", "number", "boolean"}]

StatementTypeOK ==
  /\ sql \in Sqls /\ prepared \in BOOLEAN
  /\ settings \in Settings
  /\ execs \in Seq(Executions)
  /\ asked \in Seq(Settings) /\ sent \in Seq(Messages) /\ shown \in Seq(Seq(Rows))
  /\ Len(asked) = Len(execs) /\ Len(sent) = Len(execs) /\ Len(shown) = Len(execs)
  /\ callbackData \in DOMAIN execs \union {0}

StatementInit ==
  /\ sql \in Sqls
  /\ prepared \in BOOLEAN
  /\ settings = [params |-> <<>>, options |-> {"named", "interpret"}, multi |-> TRUE]
  /\ changes = 0
  /\ execs = <<>>
  /\ callbackData = 0
  /\ asked = <<>> /\ sent = <<>> /\ shown = <<>>

-----------------------------------------------------------------------------
(* Settings. *)

Set(s) ==
  /\ changes < MaxChanges
  /\ changes' = changes + 1
  /\ settings' = s
  /\ UNCHANGED <<sql, prepared, execs, callbackData, asked, sent, shown>>

WithParam(i, v) ==
  [settings EXCEPT !.params = [j \in DOMAIN @ \union {i} |-> IF j = i THEN v ELSE @[j]]]

SetNumber(i)  == prepared /\ Set(WithParam(i, "number"))
SetBoolean(i) == prepared /\ Set(WithParam(i, "boolean"))
SetNull(i)    == prepared /\ Set(WithParam(i, "null"))

\* A text with a NUL byte in it throws.
SetString(i, text) == prepared /\ text # "text NUL" /\ Set(WithParam(i, text))

ClearParameters == prepared /\ Set([settings EXCEPT !.params = <<>>])

SetOption(o, on) ==
  Set([settings EXCEPT !.options = IF on THEN @ \union {o} ELSE @ \ {o}])

SetMultiStatements(on) == Set([settings EXCEPT !.multi = on])

\* start(), or addQuery() of a transaction: settings are copied.  A prepared
\* query never takes several statements.
Build(staged) ==
  /\ Len(execs) < MaxExecs
  /\ execs' = Append(execs, [params |-> settings.params, options |-> settings.options,
                             multi |-> settings.multi /\ ~prepared, staged |-> staged,
                             state |-> "built", told |-> FALSE, results |-> <<>>,
                             current |-> 1])
  /\ asked' = Append(asked, settings)
  /\ sent' = Append(sent, [mode |-> "none", sql |-> <<>>, values |-> <<>>])
  /\ shown' = Append(shown, <<>>)
  /\ UNCHANGED <<sql, prepared, settings, changes, callbackData>>

-----------------------------------------------------------------------------
(* The worker executes. *)

\* What follows a comment opened at i, which may have no end.
After(text, i, end) == Min({j \in i + 1..Len(text) : text[j] = end} \union {Len(text)}) + 1

\* leadingSqlKeyword: blanks and comments are skipped, each comment up to the
\* first end there is.
ReadingWith(text, closed) ==
  LET from[i \in 1..Len(text) + 1] ==
        IF i > Len(text) THEN ""
        ELSE IF text[i] = "end of line" THEN from[i + 1]
        ELSE IF text[i] = "--" THEN from[After(text, i, "end of line")]
        ELSE IF text[i] = "/*" /\ closed THEN from[After(text, i, "*/")]
        ELSE text[i]
  IN  from[1]
LeadingKeywordOfLines(text) == ReadingWith(text, FALSE)   \* mutant: "--" only
LeadingKeyword(text)        == ReadingWith(text, TRUE)
IsTransactionControl        == LeadingKeyword(sql) \in Control

\* The server: comments nest, and empty statements are skipped.  Where the first
\* word is that it executes, or the end of the text.
ServerStart(text) ==
  LET from[i \in 1..Len(text) + 1, depth \in 0..Len(text)] ==
        IF i > Len(text) THEN i
        ELSE IF text[i] = "/*" THEN from[i + 1, depth + 1]
        ELSE IF depth > 0 THEN from[i + 1, IF text[i] = "*/" THEN depth - 1 ELSE depth]
        ELSE IF text[i] = "--" THEN from[After(text, i, "end of line"), 0]
        ELSE IF text[i] \in {"end of line", ";"} THEN from[i + 1, 0]
        ELSE i
  IN  from[1, 0]
ServerControls(text) ==
  ServerStart(text) \in DOMAIN text /\ text[ServerStart(text)] \in Control

\* SQL and texts are C strings, which end at a NUL.
Cut(text) == IF text = "text NUL" THEN "text" ELSE text
CutSql    == SubSeq(sql, 1, Min({i \in 1..Len(sql) : sql[i] = "NUL"} \union {Len(sql) + 1}) - 1)

\* The values at 1..max; what was not set is NULL.
MaxIndexWrong(params) == Cardinality(DOMAIN params)       \* mutant
MaxIndex(params) == Max(DOMAIN params \union {0})
Parameters(params) ==
  [i \in 1..MaxIndex(params) |-> IF i \in DOMAIN params THEN Cut(params[i]) ELSE "null"]

\* executeSimple, or executeParams.
Simple(e) == e.multi /\ ~e.staged
Message(e) ==
  [mode |-> IF Simple(e) THEN "simple" ELSE "params",
   sql |-> CutSql,
   values |-> IF prepared THEN Parameters(e.params) ELSE <<>>]

\* drainResults: the results before the first that fails are kept.
Failures == {"error", "copy"}
Kept(answer) ==
  LET ok == {n \in 0..Len(answer) : \A i \in 1..n : answer[i] \notin Failures}
  IN  SubSeq(answer, 1, Max(ok))

\* Text with a NUL byte is not sent, nor is transaction control by a child.
Refused(e) == "NUL" \in Range(sql) \/ (e.staged /\ IsTransactionControl)

\* A message without several statements has one answer.
Execute(d, answer) ==
  LET e == execs[d] IN
  /\ e.state = "built"
  /\ ~Refused(e)
  /\ Simple(e) \/ Len(answer) <= 1
  /\ sent' = [sent EXCEPT ![d] = Message(e)]
  /\ execs' = [execs EXCEPT ![d].results = Kept(answer),
                            ![d].state = IF Kept(answer) = answer THEN "success" ELSE "error"]
  /\ UNCHANGED <<sql, prepared, settings, changes, callbackData, asked, shown>>

ExecuteRefused(d) ==
  /\ execs[d].state = "built"
  /\ Refused(execs[d])
  /\ execs' = [execs EXCEPT ![d].state = "error"]
  /\ UNCHANGED <<sql, prepared, settings, changes, callbackData, asked, sent, shown>>

-----------------------------------------------------------------------------
(* Lua reads. *)

\* dataToLua: what a value becomes, and what it is filed under.
LuaType(kind, options) ==
  CASE kind = "NULL"                              -> "nil"
    [] kind = "command"                           -> "no rows"
    [] kind = "int4" /\ "interpret" \in options   -> "number"
    [] kind = "bool" /\ "interpret" \in options   -> "boolean"
    [] OTHER                                      -> "string"
LuaKey(options) ==
  IF "numeric" \in options \/ "named" \notin options THEN "number" ELSE "name"

OptionsNow(d) == settings.options            \* mutant: not those of the execution
OptionsOf(d)  == execs[d].options

Row(i, kind, options) ==
  [result |-> i, key |-> LuaKey(options), type |-> LuaType(kind, options)]
ShowFirst(d, i) ==           \* mutant: the cursor is not looked at
  shown' = [shown EXCEPT ![d] = Append(@, Row(1, execs[d].results[1], OptionsOf(d)))]
Show(d, i) ==
  shown' = [shown EXCEPT ![d] = Append(@, Row(i, execs[d].results[i], OptionsOf(d)))]

\* onData and onSuccess are given the first result, onError none.
Callback(d) ==
  /\ execs[d].state # "built" /\ ~execs[d].told
  /\ callbackData' = d
  /\ IF execs[d].state = "success" /\ execs[d].results # <<>>
     THEN Show(d, execs[d].current) ELSE UNCHANGED shown
  /\ execs' = [execs EXCEPT ![d].told = TRUE]
  /\ UNCHANGED <<sql, prepared, settings, changes, asked, sent>>

\* getNextResults, which hasMoreResults announces.
HasMore(e) == e.results # <<>> /\ e.current + 1 <= Len(e.results)

GetNextResults ==
  /\ callbackData # 0
  /\ HasMore(execs[callbackData])
  /\ Show(callbackData, execs[callbackData].current + 1)
  /\ execs' = [execs EXCEPT ![callbackData].current = @ + 1]
  /\ UNCHANGED <<sql, prepared, settings, changes, callbackData, asked, sent>>

-----------------------------------------------------------------------------
StatementNext ==
  \/ \E i \in Indexes :
       \/ SetNumber(i) \/ SetBoolean(i) \/ SetNull(i)
       \/ \E text \in {"text", "text NUL"} : SetString(i, text)
  \/ ClearParameters
  \/ \E on \in BOOLEAN : SetMultiStatements(on) \/ \E o \in Options : SetOption(o, on)
  \/ \E staged \in BOOLEAN : Build(staged)
  \/ \E d \in DOMAIN execs :
       \/ \E answer \in Answers : Execute(d, answer)
       \/ ExecuteRefused(d) \/ Callback(d)
  \/ GetNextResults

StatementSpec == StatementInit /\ [][StatementNext]_statementVars

-----------------------------------------------------------------------------
(* Properties. *)

WasSent(d) == sent[d].mode # "none"

\* The server gets the whole SQL and, of a prepared query, the values that were
\* set when it was started or staged, whatever was set since: each at its own
\* index, with NULL in the gaps (LibpqExecutor.cpp:14, PreparedQuery.cpp:95).
SentAsAsked ==
  \A d \in DOMAIN sent : WasSent(d) =>
    LET set == asked[d].params
        values == sent[d].values IN
    /\ sent[d].sql = sql
    /\ prepared => \A i \in Indexes :
         /\ i \in DOMAIN values <=> \E j \in DOMAIN set : i <= j
         /\ i \in DOMAIN values => values[i] = IF i \in DOMAIN set THEN set[i] ELSE "null"

\* Transaction control is rejected for child queries (README.md:494).  It is not
\* always: the code's scan takes the first end of nested comments for the last,
\* and stops at an empty statement (Query.cpp:10).
ControlRejected ==
  \A d \in DOMAIN sent : execs[d].staged /\ WasSent(d) => ~ServerControls(sent[d].sql)

\* Those are the only texts that the two scans disagree about: of any other, with
\* comments of both kinds, closed or not, before its first word, a child is refused
\* when the server would read transaction control, and then only (Query.cpp:10).
Misread ==
  \E j \in 1..ServerStart(sql) - 1 :
    \/ sql[j] = ";"
    \/ sql[j] = "/*" /\ \E i \in 1..j - 1 : sql[i] = "/*" /\ \A k \in i..j : sql[k] # "*/"

ScansAgree ==
  \A d \in DOMAIN execs :
    execs[d].staged /\ execs[d].state # "built" /\ "NUL" \notin Range(sql) /\ ~Misread =>
      (WasSent(d) <=> ~ServerControls(sql))

\* Lua is shown the results of an execution from the first on, none twice, none
\* left out and none that is not there (Query.cpp:101).
ShownInOrder ==
  \A d \in DOMAIN shown : \A n \in DOMAIN shown[d] :
    /\ n \in DOMAIN execs[d].results
    /\ execs[d].state = "success" => shown[d][n].result = n

\* Values are converted by the options that were set when the execution was
\* built; int8 never becomes a number, and only NULL becomes nil
\* (LuaQuery.cpp:32, README.md:506).
ShownAsAsked ==
  \A d \in DOMAIN shown : \A n \in DOMAIN shown[d] :
    LET row     == shown[d][n]
        options == asked[d].options
        kind    == execs[d].results[row.result] IN
    kind # "command" =>
      /\ row.key = "name" <=> ("named" \in options /\ "numeric" \notin options)
      /\ row.type = "nil" <=> kind = "NULL"
      /\ row.type = "number" <=> (kind = "int4" /\ "interpret" \in options)
      /\ row.type = "boolean" <=> (kind = "bool" /\ "interpret" \in options)

-----------------------------------------------------------------------------
(* What makes these inductive, for one execution e that was built with the *)
(* settings a, its message m and the rows Lua was shown.                   *)

\* It is built with a copy of the settings, and sent, if it is, with that copy.
Faithful(e, a, m) ==
  /\ e.params = a.params /\ e.options = a.options
  /\ m.mode # "none" => ~Refused(e) /\ m = Message(e)

\* The results come in order: with the callback comes the first, or, after an
\* error, none; and then one after the other.
First(e) == IF e.state = "success" THEN 0 ELSE 1
InOrder(e, rows) ==
  /\ e.current \in 1..Len(e.results) \/ (e.current = 1 /\ e.results = <<>>)
  /\ e.state = "built" => e.results = <<>> /\ ~e.told
  /\ ~e.told => e.current = 1
  /\ Len(rows) = IF e.told /\ e.results # <<>> THEN e.current - First(e) ELSE 0
  /\ \A n \in 1..Len(rows) :
       LET i == n + First(e) IN
       i \in 1..Len(e.results) /\ rows[n] = Row(i, e.results[i], e.options)

StatementInv ==
  /\ StatementTypeOK
  /\ \A d \in DOMAIN execs :
       Faithful(execs[d], asked[d], sent[d]) /\ InOrder(execs[d], shown[d])
  /\ callbackData # 0 => execs[callbackData].told
=============================================================================
