---------------------------- MODULE StatementProofs ----------------------------
(***************************************************************************)
(* Proofs about Statement: for all texts and answers, and for any number   *)
(* of settings and executions.                                             *)
(***************************************************************************)
EXTENDS Statement, SequenceLemmas

-----------------------------------------------------------------------------
(* The text. *)

LEMMA SqlTyped == StatementTypeOK => sql \in Seq(Tokens)
BY StatementAssumption DEF StatementTypeOK

\* A text without a NUL byte is sent as it is.
LEMMA WholeSql ==
  ASSUME sql \in Seq(Tokens), "NUL" \notin Range(sql)
  PROVE  CutSql = sql
<1> DEFINE ends == {i \in 1..Len(sql) : sql[i] = "NUL"} \union {Len(sql) + 1}
<1>1. DOMAIN sql = 1..Len(sql) /\ Len(sql) \in Nat
  BY LenProperties
<1>2. PICK n \in Nat : n = Len(sql)
  BY <1>1
<1>3. ends \in SUBSET Int /\ n + 1 \in ends /\ \A y \in ends : n + 1 <= y
  BY <1>1, <1>2 DEF Range
<1>4. CutSql = SubSeq(sql, 1, Min(ends) - 1)
  BY DEF CutSql
<1> HIDE DEF ends
<1>5. CutSql = SubSeq(sql, 1, n)
  <2>1. Min(ends) = n + 1 /\ n + 1 - 1 = n
    BY <1>3, MinIs
  <2>2. Min(ends) - 1 = n
    BY <2>1
  <2> QED BY <1>4, <2>2
<1>6. SubSeq(sql, 1, n) = sql
  <2>1. \A i \in 1..n : sql[i] \in Tokens
    BY <1>2, ElementOfSeq
  <2>2. /\ SubSeq(sql, 1, n) \in Seq(Tokens)
        /\ Len(SubSeq(sql, 1, n)) = IF 1 <= n THEN n - 1 + 1 ELSE 0
        /\ \A i \in 1..n - 1 + 1 : SubSeq(sql, 1, n)[i] = sql[1 + i - 1]
    BY <2>1, SubSeqProperties
  <2>3. Len(SubSeq(sql, 1, n)) = n /\ \A i \in 1..n : SubSeq(sql, 1, n)[i] = sql[i]
    BY <2>2
  <2> QED BY <1>2, <2>2, <2>3, SeqEqual
<1> QED BY <1>5, <1>6

-----------------------------------------------------------------------------
(* The parameters. *)

ParamSets == UNION {[D -> Values] : D \in SUBSET Indexes}

LEMMA ParamsTyped ==
  ASSUME NEW p \in ParamSets
  PROVE  DOMAIN p \subseteq Indexes /\ \A i \in DOMAIN p : p[i] \in Values
BY DEF ParamSets

LEMMA ParamsAre ==
  ASSUME NEW p, NEW D \in SUBSET Indexes, p \in [D -> Values]
  PROVE  p \in ParamSets
BY DEF ParamSets

\* As many values as the last index that was set.
LEMMA LastIndex ==
  ASSUME NEW p \in ParamSets
  PROVE  /\ MaxIndex(p) \in 0..3
         /\ \A i \in Indexes : i <= MaxIndex(p) <=> \E j \in DOMAIN p : i <= j
<1> DEFINE D == DOMAIN p
           S == D \union {0}
<1>1. D \subseteq 1..3
  BY ParamsTyped DEF Indexes
<1> HIDE DEF D
<1>2. S \in SUBSET (0..3) /\ S # {}
  BY <1>1
<1> HIDE DEF S
<1>3. Max(S) \in S /\ \A y \in S : y <= Max(S)
  <2>1. 3 \in Nat
    OBVIOUS
  <2> QED BY <1>2, <2>1, MaxOfBounded
<1>4. PICK m \in 0..3 : m = Max(S)
  BY <1>2, <1>3
<1>5. (m \in D \/ m = 0) /\ \A y \in D : y <= m
  BY <1>3, <1>4 DEF S
<1>6. \A i \in 1..3 : i <= m <=> \E j \in D : i <= j
  <2>1. ASSUME NEW i \in 1..3, i <= m
        PROVE  \E j \in D : i <= j
    BY <1>5, <2>1
  <2>2. ASSUME NEW i \in 1..3, NEW j \in D, i <= j
        PROVE  i <= m
    BY <1>1, <1>5, <2>2
  <2> QED BY <2>1, <2>2
<1>7. MaxIndex(p) = m
  BY <1>4 DEF MaxIndex, S, D
<1> QED BY <1>6, <1>7 DEF Indexes, D

\* Each value at its index, and NULL in the gaps.
LEMMA ParametersAre ==
  ASSUME NEW p \in ParamSets
  PROVE  /\ Parameters(p) \in Seq(Values)
         /\ \A i \in Indexes :
              /\ i \in DOMAIN Parameters(p) <=> \E j \in DOMAIN p : i <= j
              /\ i \in DOMAIN Parameters(p) =>
                   Parameters(p)[i] = IF i \in DOMAIN p THEN p[i] ELSE "null"
<1>1. PICK m \in 0..3 : m = MaxIndex(p)
  BY LastIndex
<1>2. \A i \in Indexes : i <= m <=> \E j \in DOMAIN p : i <= j
  BY <1>1, LastIndex
<1> DEFINE value(i) == IF i \in DOMAIN p THEN Cut(p[i]) ELSE "null"
           q == [i \in 1..m |-> value(i)]
<1>3. Parameters(p) = q
  BY <1>1 DEF Parameters
<1>4. \A i \in DOMAIN p : Cut(p[i]) = p[i] /\ p[i] \in Values
  BY ParamsTyped DEF Cut, Values
<1>5. \A i \in 1..m : value(i) \in Values
  BY <1>4 DEF Values
<1>6. \A i : value(i) = IF i \in DOMAIN p THEN p[i] ELSE "null"
  BY <1>4
<1> HIDE DEF value
<1>7. q \in Seq(Values)
  BY <1>5, SeqDef
<1>8. DOMAIN q = 1..m /\ \A i \in 1..m : q[i] = IF i \in DOMAIN p THEN p[i] ELSE "null"
  BY <1>6
<1> HIDE DEF q
<1>9. \A i \in Indexes : i \in 1..m <=> i <= m
  BY DEF Indexes
<1> QED BY <1>2, <1>3, <1>7, <1>8, <1>9

-----------------------------------------------------------------------------
(* The answer. *)

\* No result that fails is kept, nor any after it.
LEMMA KeptAre ==
  ASSUME NEW answer \in Answers
  PROVE  Kept(answer) \in Seq(Kinds)
<1> DEFINE ok == {n \in 0..Len(answer) : \A i \in 1..n : answer[i] \notin Failures}
<1>1. /\ answer \in Seq(Kinds \union Failures) /\ Len(answer) \in Nat
      /\ \A i \in 1..Len(answer) : answer[i] \in Kinds \union Failures
  BY StatementAssumption, LenProperties, ElementOfSeq DEF Failures
<1>2. ok \in SUBSET (0..Len(answer)) /\ ok # {}
  <2>1. 0 \in ok
    BY <1>1
  <2> QED BY <2>1
<1>3. Max(ok) \in ok
  <2> HIDE DEF ok
  <2> QED BY <1>1, <1>2, MaxOfBounded
<1>4. PICK k \in 0..Len(answer) :
        k = Max(ok) /\ \A i \in 1..k : answer[i] \notin Failures
  BY <1>3
<1>5. \A i \in 1..k : answer[i] \in Kinds
  BY <1>1, <1>4
<1>6. SubSeq(answer, 1, k) \in Seq(Kinds)
  BY <1>1, <1>5, SubSeqProperties
<1>7. Kept(answer) = SubSeq(answer, 1, k)
  BY <1>4 DEF Kept
<1> QED BY <1>6, <1>7
-----------------------------------------------------------------------------
(* The text and the kind of query stay, so what was faithful stays so. *)

LEMMA TextStays == [StatementNext]_statementVars => UNCHANGED <<sql, prepared>>
BY DEF StatementNext, statementVars, SetNumber, SetBoolean, SetNull, SetString, ClearParameters,
       SetMultiStatements, SetOption, Set, Build, Execute, ExecuteRefused, Callback,
       GetNextResults

LEMMA FaithfulStays ==
  ASSUME UNCHANGED <<sql, prepared>>, NEW e, NEW a, NEW m, Faithful(e, a, m)
  PROVE  Faithful(e, a, m)'
BY DEF Faithful, Message, CutSql, Simple, Refused, IsTransactionControl

-----------------------------------------------------------------------------
(* Types. *)

LEMMA EmptyParams == <<>> \in ParamSets
<1>1. <<>> \in Seq(Values) /\ DOMAIN <<>> = 1..0
  <2>1. <<>> \in Seq(Values) /\ Len(<<>>) = 0
    BY EmptySeq
  <2> QED BY <2>1, LenProperties
<1>2. <<>> \in [{} -> Values]
  <2>1. \E n \in Nat : <<>> \in [1..n -> Values]
    BY <1>1, SeqDef
  <2>2. DOMAIN <<>> = {}
    BY <1>1
  <2> QED BY <2>1, <2>2
<1> QED BY <1>2, ParamsAre

LEMMA SettingsPreserved ==
  ASSUME StatementTypeOK, [StatementNext]_statementVars
  PROVE  settings' \in Settings
<1> USE DEF StatementTypeOK
<1>1. /\ Settings = [params: ParamSets, options: SUBSET Options, multi: BOOLEAN]
      /\ settings.params \in ParamSets
  BY DEF Settings, ParamSets
<1>2. ASSUME NEW i \in Indexes, NEW v \in Values
      PROVE  WithParam(i, v) \in Settings
  <2> DEFINE p == settings.params
             q == [j \in DOMAIN p \union {i} |-> IF j = i THEN v ELSE p[j]]
  <2>1. DOMAIN p \subseteq Indexes /\ \A j \in DOMAIN p : p[j] \in Values
    BY <1>1, ParamsTyped
  <2>2. q \in [DOMAIN p \union {i} -> Values]
    BY <2>1
  <2>3. q \in ParamSets
    BY <2>1, <2>2, ParamsAre
  <2>4. WithParam(i, v) = [settings EXCEPT !.params = q]
    BY DEF WithParam
  <2> HIDE DEF q
  <2> QED BY <1>1, <2>3, <2>4
<1>3. CASE \E i \in Indexes :
             \/ SetNumber(i) \/ SetBoolean(i) \/ SetNull(i)
             \/ \E text \in {"text", "text NUL"} : SetString(i, text)
  <2>1. {"number", "text", "boolean", "null"} = Values
    BY DEF Values
  <2>2. \E i \in Indexes : \E v \in Values : settings' = WithParam(i, v)
    BY <1>3, <2>1 DEF SetNumber, SetBoolean, SetNull, SetString, Set
  <2> QED BY <1>2, <2>2
<1>4. CASE ClearParameters
  BY <1>1, <1>4, EmptyParams DEF ClearParameters, Set
<1>5. CASE \E on \in BOOLEAN : SetMultiStatements(on) \/ \E o \in Options : SetOption(o, on)
  <2>1. ASSUME NEW on \in BOOLEAN, SetMultiStatements(on)
        PROVE  settings' \in Settings
    BY <1>1, <2>1 DEF SetMultiStatements, Set
  <2>2. ASSUME NEW on \in BOOLEAN, NEW o \in Options, SetOption(o, on)
        PROVE  settings' \in Settings
    <3> DEFINE options == IF on THEN settings.options \union {o} ELSE settings.options \ {o}
    <3>1. options \in SUBSET Options
      BY <1>1
    <3>2. settings' = [settings EXCEPT !.options = options]
      BY <2>2 DEF SetOption, Set
    <3> HIDE DEF options
    <3> QED BY <1>1, <3>1, <3>2
  <2> QED BY <1>5, <2>1, <2>2
<1>6. CASE \/ UNCHANGED statementVars \/ (\E staged \in BOOLEAN : Build(staged))
           \/ (\E d \in DOMAIN execs :
                \/ \E answer \in Answers : Execute(d, answer)
                \/ ExecuteRefused(d) \/ Callback(d))
           \/ GetNextResults
  BY <1>6 DEF statementVars, Build, Execute, ExecuteRefused, Callback, GetNextResults
<1> QED BY <1>3, <1>4, <1>5, <1>6 DEF StatementNext

\* What is done to the lists of executions, messages and rows.
LEMMA Lists ==
  ASSUME StatementTypeOK
  PROVE  /\ Len(execs) \in Nat /\ DOMAIN execs = 1..Len(execs)
         /\ DOMAIN asked = DOMAIN execs /\ DOMAIN sent = DOMAIN execs /\ DOMAIN shown = DOMAIN execs
         /\ \A d \in DOMAIN execs :
              /\ execs[d] \in Executions /\ asked[d] \in Settings
              /\ sent[d] \in Messages /\ shown[d] \in Seq(Rows)
BY LenProperties, ElementOfSeq DEF StatementTypeOK

\* One item of a list replaced.
LEMMA Replaced ==
  ASSUME NEW S, NEW s \in Seq(S), NEW d \in DOMAIN s, NEW e \in S
  PROVE  /\ [s EXCEPT ![d] = e] \in Seq(S) /\ Len([s EXCEPT ![d] = e]) = Len(s)
         /\ \A c \in DOMAIN s : [s EXCEPT ![d] = e][c] = IF c = d THEN e ELSE s[c]
BY ExceptSeq, LenProperties

LEMMA MessageTyped ==
  ASSUME StatementTypeOK, NEW e \in Executions
  PROVE  Message(e) \in Messages
<1>1. e.params \in ParamSets
  BY DEF Executions, ParamSets
<1>2. Parameters(e.params) \in Seq(Values)
  BY <1>1, ParametersAre
<1>3. CutSql \in Seq(Tokens)
  <2> DEFINE ends == {i \in 1..Len(sql) : sql[i] = "NUL"} \union {Len(sql) + 1}
             S == {i \in 0..Len(sql) + 1 : \A y \in ends : i <= y}
  <2>1. /\ sql \in Seq(Tokens) /\ Len(sql) \in Nat
        /\ \A i \in 1..Len(sql) : sql[i] \in Tokens
    BY SqlTyped, LenProperties, ElementOfSeq
  <2>2. PICK n \in Nat : n = Len(sql)
    BY <2>1
  <2>3. Min(ends) \in ends
    <3>1. ends \in SUBSET Nat /\ ends # {}
      BY <2>1
    <3> HIDE DEF ends
    <3> QED BY <3>1, MinOfNaturals
  <2>4. PICK m \in 1..n + 1 : m = Min(ends)
    <3>1. ends \subseteq 1..n + 1
      BY <2>2
    <3> HIDE DEF ends
    <3> QED BY <2>3, <3>1
  <2>5. CutSql = SubSeq(sql, 1, m - 1)
    BY <2>4 DEF CutSql
  <2>6. \A i \in 1..m - 1 : sql[i] \in Tokens
    BY <2>1, <2>2
  <2> QED BY <2>1, <2>5, <2>6, SubSeqProperties
<1>4. (IF prepared THEN Parameters(e.params) ELSE <<>>) \in Seq(Values)
  BY <1>2, EmptySeq
<1> QED BY <1>3, <1>4 DEF Message, Messages

-----------------------------------------------------------------------------
(* Each step, on the execution it is about. *)

\* What holds of each execution.
Sound(d) == Faithful(execs[d], asked[d], sent[d]) /\ InOrder(execs[d], shown[d])

\* A new one, with the settings of now.
LEMMA BuildStep ==
  ASSUME StatementInv, NEW staged \in BOOLEAN, Build(staged)
  PROVE  StatementInv'
<1> DEFINE e == [params |-> settings.params, options |-> settings.options,
                 multi |-> settings.multi /\ ~prepared, staged |-> staged,
                 state |-> "built", told |-> FALSE, results |-> <<>>, current |-> 1]
           m == [mode |-> "none", sql |-> <<>>, values |-> <<>>]
<1>1. PICK n \in Nat : StatementTypeOK /\ n = Len(execs) /\ DOMAIN execs = 1..n
  BY Lists DEF StatementInv
<1>2. e \in Executions /\ m \in Messages /\ <<>> \in Seq(Rows)
  <2>1. <<>> \in Seq(Kinds) /\ <<>> \in Seq(Tokens) /\ <<>> \in Seq(Values) /\ <<>> \in Seq(Rows)
    BY EmptySeq
  <2>2. settings.multi \in BOOLEAN /\ prepared \in BOOLEAN
    BY <1>1 DEF StatementTypeOK, Settings
  <2>3. (settings.multi /\ ~prepared) \in BOOLEAN
    OBVIOUS
  <2> QED BY <1>1, <2>1, <2>3 DEF StatementTypeOK, Settings, Executions, Messages
<1>3. /\ execs' = Append(execs, e) /\ asked' = Append(asked, settings)
      /\ sent' = Append(sent, m) /\ shown' = Append(shown, <<>>)
      /\ UNCHANGED <<sql, prepared, settings, callbackData>>
  BY DEF Build
<1>4. /\ e.params = settings.params /\ e.options = settings.options /\ m.mode = "none"
      /\ InOrder(e, <<>>)
  <2>1. Len(<<>>) = 0
    BY EmptySeq
  <2> QED BY <2>1 DEF InOrder, First
<1> HIDE DEF e, m
<1>5. /\ execs' \in Seq(Executions) /\ Len(execs') = n + 1 /\ execs'[n + 1] = e
      /\ asked' \in Seq(Settings) /\ Len(asked') = n + 1 /\ asked'[n + 1] = settings
      /\ sent' \in Seq(Messages) /\ Len(sent') = n + 1 /\ sent'[n + 1] = m
      /\ shown' \in Seq(Seq(Rows)) /\ Len(shown') = n + 1 /\ shown'[n + 1] = <<>>
      /\ \A d \in 1..n : /\ execs'[d] = execs[d] /\ asked'[d] = asked[d]
                         /\ sent'[d] = sent[d] /\ shown'[d] = shown[d]
  BY <1>1, <1>2, <1>3, AppendProperties DEF StatementTypeOK
<1>6. DOMAIN execs' = 1..n + 1
  BY <1>5, LenProperties
<1>7. StatementTypeOK'
  BY <1>1, <1>3, <1>5, <1>6 DEF StatementTypeOK
<1>8. ASSUME NEW d \in 1..n
      PROVE  Sound(d)'
  <2>1. Faithful(execs[d], asked[d], sent[d]) /\ InOrder(execs[d], shown[d])
    BY <1>1 DEF StatementInv
  <2>2. Faithful(execs[d], asked[d], sent[d])'
    BY <1>3, <1>5, <2>1, FaithfulStays
  <2> QED BY <1>5, <2>1, <2>2 DEF Sound
<1>9. Sound(n + 1)'
  <2>1. Faithful(execs[n + 1], asked[n + 1], sent[n + 1])'
    BY <1>4, <1>5 DEF Faithful
  <2> QED BY <1>4, <1>5, <2>1 DEF Sound
<1>10. \A d \in DOMAIN execs' : Sound(d)'
  BY <1>1, <1>6, <1>8, <1>9
<1>11. callbackData' # 0 => execs'[callbackData'].told
  <2>1. callbackData # 0 => callbackData \in 1..n /\ execs[callbackData].told
    BY <1>1 DEF StatementInv, StatementTypeOK
  <2> QED BY <1>3, <1>5, <2>1
<1> QED BY <1>7, <1>10, <1>11 DEF StatementInv, Sound

\* A step that is about one execution: what it becomes, its message and its rows.
LEMMA OneStep ==
  ASSUME StatementInv, NEW d \in DOMAIN execs,
         NEW e \in Executions, NEW m \in Messages, NEW rows \in Seq(Rows),
         execs' = [execs EXCEPT ![d] = e],
         sent' = [sent EXCEPT ![d] = m],
         shown' = [shown EXCEPT ![d] = rows],
         UNCHANGED <<sql, prepared, settings, asked>>,
         Faithful(e, asked[d], m), InOrder(e, rows), execs[d].told => e.told,
         callbackData' = callbackData \/ (callbackData' = d /\ e.told)
  PROVE  StatementInv'
<1>1. StatementTypeOK /\ DOMAIN asked = DOMAIN execs /\ DOMAIN sent = DOMAIN execs
      /\ DOMAIN shown = DOMAIN execs
  BY Lists DEF StatementInv
<1>2. /\ execs' \in Seq(Executions) /\ Len(execs') = Len(execs)
      /\ \A c \in DOMAIN execs : execs'[c] = IF c = d THEN e ELSE execs[c]
  BY <1>1, Replaced DEF StatementTypeOK
<1>3. /\ sent' \in Seq(Messages) /\ Len(sent') = Len(sent)
      /\ \A c \in DOMAIN execs : sent'[c] = IF c = d THEN m ELSE sent[c]
  <2>1. sent \in Seq(Messages) /\ d \in DOMAIN sent
    BY <1>1 DEF StatementTypeOK
  <2>2. \A c \in DOMAIN sent : sent'[c] = IF c = d THEN m ELSE sent[c]
    BY <2>1, Replaced
  <2> QED BY <1>1, <2>1, <2>2, Replaced
<1>4. /\ shown' \in Seq(Seq(Rows)) /\ Len(shown') = Len(shown)
      /\ \A c \in DOMAIN execs : shown'[c] = IF c = d THEN rows ELSE shown[c]
  <2>1. shown \in Seq(Seq(Rows)) /\ d \in DOMAIN shown
    BY <1>1 DEF StatementTypeOK
  <2>2. \A c \in DOMAIN shown : shown'[c] = IF c = d THEN rows ELSE shown[c]
    BY <2>1, Replaced
  <2> QED BY <1>1, <2>1, <2>2, Replaced
<1>5. DOMAIN execs' = DOMAIN execs
  OBVIOUS
<1>6. StatementTypeOK'
  BY <1>1, <1>2, <1>3, <1>4, <1>5 DEF StatementTypeOK
<1>7. ASSUME NEW c \in DOMAIN execs
      PROVE  Sound(c)'
  <2>1. CASE c = d
    <3>1. Faithful(execs[c], asked[c], sent[c])'
      <4>1. Faithful(e, asked[d], m)'
        BY FaithfulStays
      <4> QED BY <1>2, <1>3, <2>1, <4>1
    <3> QED BY <1>2, <1>4, <2>1, <3>1 DEF Sound
  <2>2. CASE c # d
    <3>1. Faithful(execs[c], asked[c], sent[c]) /\ InOrder(execs[c], shown[c])
      BY DEF StatementInv
    <3>2. Faithful(execs[c], asked[c], sent[c])'
      BY <1>2, <1>3, <2>2, <3>1, FaithfulStays
    <3> QED BY <1>2, <1>4, <2>2, <3>1, <3>2 DEF Sound
  <2> QED BY <2>1, <2>2
<1>8. callbackData' # 0 => execs'[callbackData'].told
  <2>1. callbackData # 0 => callbackData \in DOMAIN execs /\ execs[callbackData].told
    BY <1>1 DEF StatementInv, StatementTypeOK
  <2> QED BY <1>2, <2>1
<1> QED BY <1>5, <1>6, <1>7, <1>8 DEF StatementInv, Sound

LEMMA Same ==
  ASSUME NEW S, NEW s \in Seq(S), NEW d \in DOMAIN s
  PROVE  s = [s EXCEPT ![d] = s[d]]
BY LenProperties

\* What an execution is, whose state and whose lists are as StatementInv says.
LEMMA Known ==
  ASSUME StatementInv, NEW d \in DOMAIN execs
  PROVE  /\ execs[d] \in Executions /\ sent[d] \in Messages /\ shown[d] \in Seq(Rows)
         /\ Faithful(execs[d], asked[d], sent[d]) /\ InOrder(execs[d], shown[d])
         /\ sent = [sent EXCEPT ![d] = sent[d]] /\ shown = [shown EXCEPT ![d] = shown[d]]
<1>1. StatementTypeOK
  BY DEF StatementInv
<1>2. d \in DOMAIN sent /\ d \in DOMAIN shown
  BY <1>1, Lists
<1>3. sent = [sent EXCEPT ![d] = sent[d]] /\ shown = [shown EXCEPT ![d] = shown[d]]
  BY <1>1, <1>2, Same DEF StatementTypeOK
<1> QED BY <1>1, <1>3, Lists DEF StatementInv

LEMMA ExecuteStep ==
  ASSUME StatementInv, NEW d \in DOMAIN execs, NEW answer \in Answers, Execute(d, answer)
  PROVE  StatementInv'
<1> DEFINE state == IF Kept(answer) = answer THEN "success" ELSE "error"
           e     == [execs[d] EXCEPT !.results = Kept(answer), !.state = state]
           m     == Message(execs[d])
<1>1. /\ execs[d] \in Executions /\ sent[d] \in Messages /\ shown[d] \in Seq(Rows)
      /\ Faithful(execs[d], asked[d], sent[d]) /\ InOrder(execs[d], shown[d])
      /\ shown = [shown EXCEPT ![d] = shown[d]]
  BY Known
<1>2. /\ execs[d].state = "built" /\ ~Refused(execs[d])
      /\ execs' = [execs EXCEPT ![d].results = Kept(answer), ![d].state = state]
      /\ sent' = [sent EXCEPT ![d] = m]
      /\ UNCHANGED <<sql, prepared, settings, callbackData, asked, shown>>
  BY DEF Execute
<1>3. execs' = [execs EXCEPT ![d] = e]
  BY <1>1, <1>2
<1>4. Kept(answer) \in Seq(Kinds) /\ state \in {"success", "error"} /\ m \in Messages
  BY <1>1, KeptAre, MessageTyped DEF StatementInv
<1> HIDE DEF state
<1>5. /\ e \in Executions /\ e.params = execs[d].params /\ e.options = execs[d].options
      /\ e.multi = execs[d].multi /\ e.staged = execs[d].staged /\ e.told = execs[d].told
      /\ e.current = execs[d].current /\ e.results = Kept(answer) /\ e.state = state
  BY <1>1, <1>4 DEF Executions
<1> HIDE DEF e
<1>6. Faithful(e, asked[d], m)
  <2>1. Message(e) = m
    BY <1>5 DEF Message, Simple
  <2>2. ~Refused(e)
    BY <1>2, <1>5 DEF Refused
  <2> QED BY <1>1, <1>5, <2>1, <2>2 DEF Faithful
<1>7. InOrder(e, shown[d])
  <2>1. execs[d].results = <<>> /\ execs[d].current = 1 /\ Len(shown[d]) = 0
    BY <1>1, <1>2 DEF InOrder, Executions
  <2>2. ~e.told
    BY <1>1, <1>2, <1>5, <2>1 DEF InOrder, Executions
  <2>3. e.current = 1 /\ (1 \in 1..Len(e.results) \/ e.results = <<>>)
    <3>1. Len(e.results) \in Nat /\ (Len(e.results) = 0 <=> e.results = <<>>)
      BY <1>4, <1>5, EmptySeq, LenProperties
    <3> QED BY <1>5, <2>1, <3>1
  <2> QED BY <1>4, <1>5, <2>1, <2>2, <2>3 DEF InOrder
<1>8. sent' = [sent EXCEPT ![d] = m] /\ shown' = [shown EXCEPT ![d] = shown[d]]
  BY <1>1, <1>2
<1> HIDE DEF m
<1> QED BY <1>1, <1>2, <1>3, <1>4, <1>5, <1>6, <1>7, <1>8, OneStep

LEMMA RefusedStep ==
  ASSUME StatementInv, NEW d \in DOMAIN execs, ExecuteRefused(d)
  PROVE  StatementInv'
<1> DEFINE e == [execs[d] EXCEPT !.state = "error"]
<1>1. /\ execs[d] \in Executions /\ sent[d] \in Messages /\ shown[d] \in Seq(Rows)
      /\ Faithful(execs[d], asked[d], sent[d]) /\ InOrder(execs[d], shown[d])
      /\ sent = [sent EXCEPT ![d] = sent[d]] /\ shown = [shown EXCEPT ![d] = shown[d]]
  BY Known
<1>2. /\ execs[d].state = "built" /\ Refused(execs[d])
      /\ execs' = [execs EXCEPT ![d].state = "error"]
      /\ UNCHANGED <<sql, prepared, settings, callbackData, asked, sent, shown>>
  BY DEF ExecuteRefused
<1>3. execs' = [execs EXCEPT ![d] = e]
  BY <1>1, <1>2
<1>4. /\ e \in Executions /\ e.params = execs[d].params /\ e.options = execs[d].options
      /\ e.multi = execs[d].multi /\ e.staged = execs[d].staged /\ e.told = execs[d].told
      /\ e.current = execs[d].current /\ e.results = execs[d].results /\ e.state = "error"
  BY <1>1 DEF Executions
<1> HIDE DEF e
<1>5. Faithful(e, asked[d], sent[d])
  <2>1. sent[d].mode = "none"
    BY <1>1, <1>2 DEF Faithful
  <2> QED BY <1>1, <1>4, <2>1 DEF Faithful
<1>6. InOrder(e, shown[d])
  BY <1>1, <1>2, <1>4 DEF InOrder
<1>7. sent' = [sent EXCEPT ![d] = sent[d]] /\ shown' = [shown EXCEPT ![d] = shown[d]]
  BY <1>1, <1>2
<1> QED BY <1>1, <1>2, <1>3, <1>4, <1>5, <1>6, <1>7, OneStep

LEMMA RowTyped ==
  ASSUME NEW i \in Nat, NEW kind, NEW options
  PROVE  Row(i, kind, options) \in Rows
<1>1. LuaKey(options) \in {"number", "name"}
  BY DEF LuaKey
<1>2. LuaType(kind, options) \in {"nil", "no rows", "string", "number", "boolean"}
  BY DEF LuaType
<1> QED BY <1>1, <1>2 DEF Row, Rows

\* With the callback of a success comes the first result.
LEMMA CallbackStep ==
  ASSUME StatementInv, NEW d \in DOMAIN execs, Callback(d)
  PROVE  StatementInv'
<1> DEFINE x    == execs[d]
           e    == [x EXCEPT !.told = TRUE]
           shows == x.state = "success" /\ x.results # <<>>
           rows == IF shows THEN Append(shown[d], Row(x.current, x.results[x.current], x.options))
                   ELSE shown[d]
<1>1. /\ x \in Executions /\ sent[d] \in Messages /\ shown[d] \in Seq(Rows)
      /\ Faithful(x, asked[d], sent[d]) /\ InOrder(x, shown[d])
      /\ sent = [sent EXCEPT ![d] = sent[d]] /\ shown = [shown EXCEPT ![d] = shown[d]]
  BY Known
<1>2. /\ x.state # "built" /\ ~x.told /\ callbackData' = d
      /\ execs' = [execs EXCEPT ![d].told = TRUE]
      /\ UNCHANGED <<sql, prepared, settings, asked, sent>>
  BY DEF Callback
<1>3. shown' = [shown EXCEPT ![d] = rows]
  <2>1. CASE shows
    BY <2>1 DEF Callback, Show, OptionsOf
  <2>2. CASE ~shows
    BY <1>1, <2>2 DEF Callback
  <2> QED BY <2>1, <2>2
<1>4. execs' = [execs EXCEPT ![d] = e]
  BY <1>1, <1>2
<1>5. /\ e \in Executions /\ e.params = x.params /\ e.options = x.options
      /\ e.multi = x.multi /\ e.staged = x.staged /\ e.told
      /\ e.current = x.current /\ e.results = x.results /\ e.state = x.state
  BY <1>1 DEF Executions
<1>6. /\ x.current = 1 /\ x.results \in Seq(Kinds) /\ Len(shown[d]) = 0
      /\ x.results # <<>> => 1 \in 1..Len(x.results)
  BY <1>1, <1>2 DEF InOrder, Executions
<1>7. /\ rows \in Seq(Rows)
      /\ Len(rows) = IF shows THEN 1 ELSE 0
      /\ shows => rows[1] = Row(1, x.results[1], x.options)
  <2>1. Row(1, x.results[1], x.options) \in Rows
    BY RowTyped
  <2> QED BY <1>1, <1>6, <2>1, AppendProperties
<1> HIDE DEF e
<1>8. Faithful(e, asked[d], sent[d])
  <2>1. Message(e) = Message(x) /\ (Refused(e) <=> Refused(x))
    BY <1>5 DEF Message, Simple, Refused
  <2> QED BY <1>1, <1>5, <2>1 DEF Faithful
<1>9. InOrder(e, rows)
  <2> HIDE DEF rows, x
  <2>1. CASE shows
    <3>1. First(e) = 0 /\ e.results # <<>> /\ Len(rows) = 1
      BY <1>5, <1>7, <2>1 DEF First
    <3> QED BY <1>2, <1>5, <1>6, <1>7, <2>1, <3>1 DEF InOrder
  <2>2. CASE ~shows
    <3>1. Len(rows) = 0 /\ (e.results # <<>> => First(e) = 1)
      BY <1>5, <1>7, <2>2 DEF First
    <3> QED BY <1>2, <1>5, <1>6, <2>2, <3>1 DEF InOrder
  <2> QED BY <2>1, <2>2
<1>10. sent' = [sent EXCEPT ![d] = sent[d]]
  BY <1>1, <1>2
<1> HIDE DEF rows
<1> QED BY <1>1, <1>2, <1>3, <1>4, <1>5, <1>7, <1>8, <1>9, <1>10, OneStep

\* Then comes the next, if there is one.
LEMMA NextResultsStep ==
  ASSUME StatementInv, GetNextResults
  PROVE  StatementInv'
<1> DEFINE d    == callbackData
           x    == execs[d]
           e    == [x EXCEPT !.current = @ + 1]
           row  == Row(x.current + 1, x.results[x.current + 1], x.options)
           rows == Append(shown[d], row)
<1>0. d \in DOMAIN execs /\ x.told
  BY DEF StatementInv, StatementTypeOK, GetNextResults
<1>1. /\ x \in Executions /\ sent[d] \in Messages /\ shown[d] \in Seq(Rows)
      /\ Faithful(x, asked[d], sent[d]) /\ InOrder(x, shown[d])
      /\ sent = [sent EXCEPT ![d] = sent[d]]
  BY <1>0, Known
<1>2. /\ HasMore(x) /\ shown' = [shown EXCEPT ![d] = rows]
      /\ execs' = [execs EXCEPT ![d].current = @ + 1]
      /\ UNCHANGED <<sql, prepared, settings, callbackData, asked, sent>>
  BY DEF GetNextResults, Show, OptionsOf
<1>3. execs' = [execs EXCEPT ![d] = e]
  BY <1>0, <1>1, <1>2
<1>4. PICK k \in Nat : k = x.current
  BY <1>1 DEF Executions
<1>5. /\ e \in Executions /\ e.params = x.params /\ e.options = x.options
      /\ e.multi = x.multi /\ e.staged = x.staged /\ e.told = x.told
      /\ e.current = k + 1 /\ e.results = x.results /\ e.state = x.state
  BY <1>1, <1>4 DEF Executions
<1>6. PICK l \in Nat : l = Len(x.results)
  BY <1>1, LenProperties DEF Executions
<1>7. /\ x.results # <<>> /\ k + 1 \in 1..l
      /\ x.state = "built" => x.results = <<>>
      /\ Len(shown[d]) = k - First(x)
      /\ \A n \in 1..Len(shown[d]) :
           n + First(x) \in 1..l
           /\ shown[d][n] = Row(n + First(x), x.results[n + First(x)], x.options)
  BY <1>0, <1>1, <1>2, <1>4, <1>6 DEF InOrder, HasMore
<1>8. First(x) \in {0, 1} /\ First(e) = First(x)
  BY <1>5 DEF First
<1>9. /\ rows \in Seq(Rows) /\ Len(rows) = Len(shown[d]) + 1
      /\ \A n \in 1..Len(shown[d]) : rows[n] = shown[d][n]
      /\ rows[Len(shown[d]) + 1] = Row(k + 1, x.results[k + 1], x.options)
  <2>1. row \in Rows
    <3>1. x.current + 1 \in Nat
      BY <1>4
    <3> HIDE DEF x
    <3> QED BY <3>1, RowTyped
  <2> HIDE DEF row
  <2>2. /\ rows \in Seq(Rows) /\ Len(rows) = Len(shown[d]) + 1
        /\ \A n \in 1..Len(shown[d]) : rows[n] = shown[d][n]
        /\ rows[Len(shown[d]) + 1] = row
    BY <1>1, <2>1, AppendProperties
  <2> QED BY <1>4, <2>2 DEF row
<1>10. PICK r \in Nat : r = Len(shown[d]) /\ r = k - First(x)
  BY <1>1, <1>7, LenProperties
<1> HIDE DEF e, rows, x
<1>11. Faithful(e, asked[d], sent[d])
  <2>1. Message(e) = Message(x) /\ (Refused(e) <=> Refused(x))
    BY <1>5 DEF Message, Simple, Refused
  <2> QED BY <1>1, <1>5, <2>1 DEF Faithful
<1>12. InOrder(e, rows)
  <2>1. Len(rows) = e.current - First(e)
    BY <1>5, <1>7, <1>8, <1>9, <1>10
  <2>2. ASSUME NEW n \in 1..Len(rows)
        PROVE  /\ n + First(e) \in 1..l
               /\ rows[n] = Row(n + First(e), e.results[n + First(e)], e.options)
    <3>1. CASE n <= r
      BY <1>5, <1>7, <1>8, <1>9, <1>10, <3>1
    <3>2. CASE ~(n <= r)
      <4>1. n = r + 1 /\ n + First(e) = k + 1
        BY <1>8, <1>9, <1>10, <3>2
      <4> QED BY <1>5, <1>7, <1>9, <1>10, <4>1
    <3> QED BY <3>1, <3>2
  <2> QED BY <1>0, <1>5, <1>6, <1>7, <2>1, <2>2 DEF InOrder
<1>13. sent' = [sent EXCEPT ![d] = sent[d]]
  BY <1>1, <1>2
<1> QED BY <1>0, <1>1, <1>2, <1>3, <1>5, <1>9, <1>11, <1>12, <1>13, OneStep DEF x

-----------------------------------------------------------------------------
(* The invariant, and what follows from it. *)

LEMMA InvariantInitially == StatementInit => StatementInv
<1> SUFFICES ASSUME StatementInit PROVE StatementInv
  OBVIOUS
<1>1. /\ \A S : <<>> \in Seq(S)
      /\ Len(<<>>) = 0 /\ DOMAIN <<>> = {}
  <2>1. \A S : <<>> \in Seq(S)
    BY EmptySeq
  <2>2. Len(<<>>) = 0 /\ DOMAIN <<>> = 1..Len(<<>>)
    BY <2>1, EmptySeq, LenProperties
  <2>3. DOMAIN <<>> = {}
    BY <2>2
  <2> QED BY <2>1, <2>2, <2>3
<1>2. settings \in Settings
  BY EmptyParams DEF StatementInit, Settings, ParamSets, Options
<1>3. StatementTypeOK
  BY <1>1, <1>2 DEF StatementInit, StatementTypeOK
<1> QED BY <1>1, <1>3 DEF StatementInit, StatementInv

\* What only changes the settings leaves every execution as it is.
LEMMA SettingsStep ==
  ASSUME StatementInv, [StatementNext]_statementVars,
         UNCHANGED <<sql, prepared, execs, callbackData, asked, sent, shown>>
  PROVE  StatementInv'
<1>1. StatementTypeOK'
  <2>1. StatementTypeOK
    BY DEF StatementInv
  <2>2. settings' \in Settings
    BY <2>1, SettingsPreserved
  <2> QED BY <2>1, <2>2 DEF StatementTypeOK
<1>2. ASSUME NEW d \in DOMAIN execs
      PROVE  Sound(d)'
  <2>1. Faithful(execs[d], asked[d], sent[d]) /\ InOrder(execs[d], shown[d])
    BY DEF StatementInv
  <2>2. Faithful(execs[d], asked[d], sent[d])'
    BY <2>1, FaithfulStays
  <2> QED BY <2>1, <2>2 DEF Sound
<1>3. (callbackData # 0 => execs[callbackData].told)'
  BY DEF StatementInv
<1> QED BY <1>1, <1>2, <1>3 DEF StatementInv, Sound

LEMMA InvariantPreserved == StatementInv /\ [StatementNext]_statementVars => StatementInv'
<1> SUFFICES ASSUME StatementInv, [StatementNext]_statementVars PROVE StatementInv'
  OBVIOUS
<1>1. CASE \/ UNCHANGED statementVars
           \/ (\E i \in Indexes :
                 \/ SetNumber(i) \/ SetBoolean(i) \/ SetNull(i)
                 \/ \E text \in {"text", "text NUL"} : SetString(i, text))
           \/ ClearParameters
           \/ \E on \in BOOLEAN : SetMultiStatements(on) \/ \E o \in Options : SetOption(o, on)
  <2>1. UNCHANGED <<sql, prepared, execs, callbackData, asked, sent, shown>>
    BY <1>1 DEF statementVars, SetNumber, SetBoolean, SetNull, SetString, ClearParameters,
                SetMultiStatements, SetOption, Set
  <2> QED BY <2>1, SettingsStep
<1>2. CASE \E staged \in BOOLEAN : Build(staged)
  BY <1>2, BuildStep
<1>3. CASE \E d \in DOMAIN execs :
             \/ \E answer \in Answers : Execute(d, answer)
             \/ ExecuteRefused(d) \/ Callback(d)
  BY <1>3, ExecuteStep, RefusedStep, CallbackStep
<1>4. CASE GetNextResults
  BY <1>4, NextResultsStep
<1> QED BY <1>1, <1>2, <1>3, <1>4 DEF StatementNext

LEMMA Inductive == StatementSpec => []StatementInv
BY InvariantInitially, InvariantPreserved, PTL DEF StatementSpec

\* The types of the state: a row shown to Lua is of a result there is, and the
\* callback data is an execution that was built.
THEOREM TypeCorrect == StatementSpec => []StatementTypeOK
<1>1. StatementInv => StatementTypeOK
  BY DEF StatementInv
<1> QED BY <1>1, Inductive, PTL

\* The server gets the whole text and the values that were set when the query was
\* started or staged, at their own indexes (PreparedQuery.cpp:95).
THEOREM AskedIsSent == StatementSpec => []SentAsAsked
<1>1. StatementInv => SentAsAsked
  <2> SUFFICES ASSUME StatementInv, NEW d \in DOMAIN sent, WasSent(d)
               PROVE  LET set == asked[d].params
                          values == sent[d].values IN
                      /\ sent[d].sql = sql
                      /\ prepared => \A i \in Indexes :
                           /\ i \in DOMAIN values <=> \E j \in DOMAIN set : i <= j
                           /\ i \in DOMAIN values =>
                                values[i] = IF i \in DOMAIN set THEN set[i] ELSE "null"
    BY DEF SentAsAsked
  <2>1. StatementTypeOK /\ d \in DOMAIN execs
    BY Lists DEF StatementInv
  <2>2. /\ execs[d].params = asked[d].params /\ asked[d] \in Settings
        /\ ~Refused(execs[d]) /\ sent[d] = Message(execs[d])
    BY <2>1, Lists DEF StatementInv, Faithful, WasSent
  <2>3. asked[d].params \in ParamSets
    BY <2>2 DEF Settings, ParamSets
  <2>4. sent[d].sql = sql
    <3>1. CutSql = sql
      BY <2>1, <2>2, SqlTyped, WholeSql DEF Refused
    <3> QED BY <2>2, <3>1 DEF Message
  <2>5. prepared => sent[d].values = Parameters(asked[d].params)
    BY <2>2 DEF Message
  <2> QED BY <2>3, <2>4, <2>5, ParametersAre
<1> QED BY <1>1, Inductive, PTL

\* Lua is shown the results from the first on, none twice and none left out
\* (Query.cpp:101).
THEOREM ResultsComeInOrder == StatementSpec => []ShownInOrder
<1>1. StatementInv => ShownInOrder
  <2> SUFFICES ASSUME StatementInv, NEW d \in DOMAIN shown, NEW n \in DOMAIN shown[d]
               PROVE  /\ n \in DOMAIN execs[d].results
                      /\ execs[d].state = "success" => shown[d][n].result = n
    BY DEF ShownInOrder
  <2>1. d \in DOMAIN execs
    BY Lists DEF StatementInv
  <2>2. /\ shown[d] \in Seq(Rows) /\ execs[d] \in Executions /\ InOrder(execs[d], shown[d])
    BY <2>1, Known
  <2>3. n \in 1..Len(shown[d]) /\ DOMAIN execs[d].results = 1..Len(execs[d].results)
        /\ Len(execs[d].results) \in Nat
    BY <2>2, LenProperties DEF Executions
  <2>4. /\ n + First(execs[d]) \in 1..Len(execs[d].results)
        /\ shown[d][n].result = n + First(execs[d])
    <3>1. PICK i : i = n + First(execs[d])
      OBVIOUS
    <3>2. /\ i \in 1..Len(execs[d].results)
          /\ shown[d][n] = Row(i, execs[d].results[i], execs[d].options)
      BY <2>2, <2>3, <3>1 DEF InOrder
    <3>3. shown[d][n].result = i
      BY <3>2 DEF Row
    <3> QED BY <3>1, <3>2, <3>3
  <2>5. First(execs[d]) \in {0, 1} /\ (execs[d].state = "success" => First(execs[d]) = 0)
    BY DEF First
  <2>6. n \in Nat /\ n >= 1
    BY <2>2, <2>3, LenProperties
  <2> QED BY <2>3, <2>4, <2>5, <2>6
<1> QED BY <1>1, Inductive, PTL

\* A value becomes what its type and the options of its execution make of it
\* (LuaQuery.cpp:32).
THEOREM ValuesAsAsked == StatementSpec => []ShownAsAsked
<1>1. StatementInv => ShownAsAsked
  <2> SUFFICES ASSUME StatementInv, NEW d \in DOMAIN shown, NEW n \in DOMAIN shown[d]
               PROVE  LET row     == shown[d][n]
                          options == asked[d].options
                          kind    == execs[d].results[row.result] IN
                      kind # "command" =>
                        /\ row.key = "name" <=> ("named" \in options /\ "numeric" \notin options)
                        /\ row.type = "nil" <=> kind = "NULL"
                        /\ row.type = "number" <=> (kind = "int4" /\ "interpret" \in options)
                        /\ row.type = "boolean" <=> (kind = "bool" /\ "interpret" \in options)
    BY DEF ShownAsAsked
  <2>1. d \in DOMAIN execs
    BY Lists DEF StatementInv
  <2>2. /\ shown[d] \in Seq(Rows) /\ InOrder(execs[d], shown[d])
        /\ execs[d].options = asked[d].options
    BY <2>1, Known DEF Faithful
  <2>3. n \in 1..Len(shown[d])
    BY <2>2, LenProperties
  <2>4. PICK i \in 1..Len(execs[d].results) :
          shown[d][n] = Row(i, execs[d].results[i], execs[d].options)
    BY <2>2, <2>3 DEF InOrder
  <2>5. shown[d][n] = [result |-> i, key |-> LuaKey(asked[d].options),
                       type |-> LuaType(execs[d].results[i], asked[d].options)]
    BY <2>2, <2>4 DEF Row
  <2>6. ASSUME NEW kind, NEW options, kind # "command"
        PROVE  /\ LuaKey(options) = "name" <=> ("named" \in options /\ "numeric" \notin options)
               /\ LuaType(kind, options) = "nil" <=> kind = "NULL"
               /\ LuaType(kind, options) = "number" <=> (kind = "int4" /\ "interpret" \in options)
               /\ LuaType(kind, options) = "boolean" <=> (kind = "bool" /\ "interpret" \in options)
    BY <2>6 DEF LuaKey, LuaType
  <2> QED BY <2>5, <2>6
<1> QED BY <1>1, Inductive, PTL

=============================================================================
