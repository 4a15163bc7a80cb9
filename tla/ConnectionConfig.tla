--------------------------- MODULE ConnectionConfig ---------------------------
(***************************************************************************)
(* The settings of a Database object, and the connection string that is    *)
(* made of them whenever the worker connects or connects again.            *)
(*                                                                         *)
(* A string is a sequence of symbols.  A keyword is one symbol, and so is  *)
(* a mode of SSL, a number, and every character that quoting is about;     *)
(* Letters are all others.                                                 *)
(***************************************************************************)
EXTENDS Naturals, SequencesExt

CONSTANTS Letters,     \* symbols that mean nothing to libpq, numbers among them
          Texts,       \* values a program may pass
          TableKeys,   \* keywords it may use in an option table
          Numbers,     \* numbers it may pass: a port, a time limit
          MaxEntries   \* bound: entries of an option table

Keywords == {"host", "user", "password", "dbname", "port", "connect_timeout", "sslmode",
             "sslkey", "sslcert", "sslrootcert"}

SSLModes   == <<"disable", "prefer", "require", "verify-ca", "verify-full">>
Meaningful == {"'", "\\", " ", "NUL"}
Symbols    == Keywords \union {"="} \union Range(SSLModes) \union Meaningful \union Letters

ASSUME TextsAssumption   == <<>> \in Texts /\ Texts \subseteq Seq(Symbols)
ASSUME KeysAssumption    == TableKeys \subseteq Keywords \union {"unsafe key"}
ASSUME NumbersAssumption == /\ Numbers \subseteq Nat /\ MaxEntries \in Nat
                            /\ \A n \in (Numbers \union {10}) \ {0} :
                                 ToString(n) \in Letters \ Meaningful

VARIABLES
  form,       \* how the object was made: "none" yet, "positional", "options", "raw"
  fields,     \* host, username, password, database, port, unixSocket
  table,      \* optionTable
  raw,        \* rawConnectionStringValue
  timeout, sslMode, ssl,    \* set by the setters
  read,       \* what libpq took from the string made of these settings, if any
  limited     \* history: setConnectTimeout was called

setters    == <<timeout, sslMode, ssl>>
configVars == <<form, fields, table, raw, setters, read, limited>>

Nothing  == <<>>
Number(n) == IF n = 0 THEN Nothing ELSE <<ToString(n)>>
Fields   == {"host", "user", "password", "dbname", "socket"}
SSLFields == {"sslkey", "sslcert", "sslrootcert"}

HasNul(text) == "NUL" \in Range(text)

NotRead == [k \in {} |-> Nothing]

ConfigInit ==
  /\ form = "none"
  /\ fields = [f \in Fields \union {"port"} |-> IF f = "port" THEN 0 ELSE Nothing]
  /\ table = <<>>
  /\ raw = Nothing
  /\ timeout = 10
  /\ sslMode = 0
  /\ ssl = [f \in SSLFields |-> Nothing]
  /\ read = NotRead
  /\ limited = FALSE

Sendable == {text \in Texts : "NUL" \notin Range(text)}

ConfigTypeOK ==
  /\ form \in {"none", "positional", "options", "raw"}
  /\ DOMAIN fields = Fields \union {"port"} /\ fields.port \in Numbers \union {0}
  /\ \A f \in Fields : fields[f] \in Sendable
  /\ table \in Seq([key : Keywords, value : Sendable])
  /\ raw \in Sendable
  /\ timeout \in (Numbers \union {10}) \ {0}
  /\ sslMode \in 0..Len(SSLModes)
  /\ \A f \in SSLFields : ssl[f] \in Sendable
  /\ limited \in BOOLEAN

-----------------------------------------------------------------------------
(* pg.connect(...), which throws if a text has a NUL byte in it. *)

Positional(host, user, password, dbname, port, socket) ==
  /\ form = "none"
  /\ \A text \in {host, user, password, dbname, socket} : ~HasNul(text)
  /\ form' = "positional"
  /\ fields' = [host |-> host, user |-> user, password |-> password, dbname |-> dbname,
                port |-> port, socket |-> socket]
  /\ UNCHANGED <<table, raw, setters, read, limited>>

RawString(text) ==
  /\ form = "none"
  /\ ~HasNul(text)
  /\ form' = "raw"
  /\ raw' = text
  /\ UNCHANGED <<fields, table, setters, read, limited>>

Safe(key) == key # "unsafe key"

\* A Lua table, in whatever order its keys are met: one with an unsafe key throws.
OptionTable(entries) ==
  /\ form = "none"
  /\ \A i \in DOMAIN entries : Safe(entries[i].key) /\ ~HasNul(entries[i].value)
  /\ form' = "options"
  /\ table' = entries
  /\ UNCHANGED <<fields, raw, setters, read, limited>>

Made == form \in {"positional", "options"}   \* the setters throw for a raw string

SetConnectTimeout(n) ==
  /\ Made
  /\ n # 0
  /\ timeout' = n
  /\ limited' = TRUE
  /\ read' = NotRead
  /\ UNCHANGED <<form, fields, table, raw, sslMode, ssl>>

SetSSLMode(m) ==
  /\ Made
  /\ sslMode' = m
  /\ read' = NotRead
  /\ UNCHANGED <<form, fields, table, raw, timeout, ssl, limited>>

\* A capath or a cipher throws; what is left out is no longer set.
SetSSLSettings(key, cert, ca) ==
  /\ Made
  /\ \A text \in {key, cert, ca} : ~HasNul(text)
  /\ ssl' = [sslkey |-> key, sslcert |-> cert, sslrootcert |-> ca]
  /\ read' = NotRead
  /\ UNCHANGED <<form, fields, table, raw, timeout, sslMode, limited>>

-----------------------------------------------------------------------------
(* buildConnectionString. *)

QuoteOnly(text) ==      \* mutant: the backslash is not escaped
  <<"'">> \o FlattenSeq([i \in DOMAIN text |->
     IF text[i] = "'" THEN <<"\\", text[i]>> ELSE <<text[i]>>]) \o <<"'">>
Quoted(text) ==
  <<"'">> \o FlattenSeq([i \in DOMAIN text |->
     IF text[i] \in {"\\", "'"} THEN <<"\\", text[i]>> ELSE <<text[i]>>]) \o <<"'">>

Add(key, text) == IF text = Nothing THEN <<>> ELSE <<key, "=">> \o Quoted(text) \o <<" ">>
Unquoted(key, text) == IF text = Nothing THEN <<>> ELSE <<key, "=">> \o text \o <<" ">>

Or(a, b) == IF a # Nothing THEN a ELSE b
ServerPart ==
  Add("host", Or(fields.socket, fields.host))
  \o Add("user", fields.user) \o Add("password", fields.password)
  \o Add("dbname", fields.dbname) \o Unquoted("port", Number(fields.port))
TablePart == FlattenSeq([i \in DOMAIN table |-> Add(table[i].key, table[i].value)])
TimeoutPart == Unquoted("connect_timeout", Number(timeout))
Mode == IF sslMode = 0 THEN Nothing ELSE <<SSLModes[sslMode]>>
SSLPart ==
  Unquoted("sslmode", Mode)
  \o Add("sslkey", ssl.sslkey) \o Add("sslcert", ssl.sslcert)
  \o Add("sslrootcert", ssl.sslrootcert)

BuildConnectionString ==
  IF Made THEN ServerPart \o TablePart \o TimeoutPart \o SSLPart ELSE raw

-----------------------------------------------------------------------------
(* libpq reads keyword=value pairs; a value in quotes ends at the first quote *)
(* no backslash stands before, and of two values of one keyword the last one  *)
(* counts.  The string is a C string: it ends at a NUL.                       *)

Reading == [mode |-> "key", key |-> "none", value |-> <<>>, read |-> NotRead]
Ended(r) == [Reading EXCEPT !.read =
  [k \in DOMAIN r.read \union {r.key} |-> IF k = r.key THEN r.value ELSE r.read[k]]]

Read1(r, s) ==
  IF r.mode = "end" \/ s = "NUL" THEN [r EXCEPT !.mode = "end"] ELSE
  CASE r.mode = "key" /\ s = " "       -> r
    [] r.mode = "key" /\ s # " "       -> [r EXCEPT !.mode = "=", !.key = s]
    [] r.mode = "="                    -> [r EXCEPT !.mode = "begin"]
    [] r.mode = "begin" /\ s = "'"     -> [r EXCEPT !.mode = "quoted"]
    [] r.mode = "begin" /\ s # "'"     -> [r EXCEPT !.mode = "bare", !.value = <<s>>]
    [] r.mode = "bare" /\ s = " "      -> Ended(r)
    [] r.mode = "quoted" /\ s = "'"    -> Ended(r)
    [] r.mode = "quoted" /\ s = "\\"   -> [r EXCEPT !.mode = "escape"]
    [] r.mode = "escape"               -> [r EXCEPT !.mode = "quoted", !.value = Append(@, s)]
    [] OTHER                           -> [r EXCEPT !.value = Append(@, s)]

ReadAll(r, text) ==
  LET f[i \in 0..Len(text)] == IF i = 0 THEN r ELSE Read1(f[i - 1], text[i])
  IN  f[Len(text)]

Understood(text) == ReadAll(Reading, text).read

\* ConnectionSession::connect, the first time or again.
OpenSession ==
  /\ form # "none"
  /\ read' = Understood(BuildConnectionString)
  /\ UNCHANGED <<form, fields, table, raw, setters, limited>>

ConfigNext ==
  \/ \E host, user, password, dbname, socket \in Texts, port \in Numbers :
       Positional(host, user, password, dbname, port, socket)
  \/ \E text \in Texts : RawString(text)
  \/ \E n \in 0..MaxEntries : \E keys \in [1..n -> TableKeys], values \in [1..n -> Texts] :
       IsInjective(keys) /\ OptionTable([i \in 1..n |-> [key |-> keys[i], value |-> values[i]]])
  \/ \E n \in Numbers : SetConnectTimeout(n)
  \/ \E m \in DOMAIN SSLModes : SetSSLMode(m)
  \/ \E key, cert, ca \in Texts : SetSSLSettings(key, cert, ca)
  \/ OpenSession

ConfigSpec == ConfigInit /\ [][ConfigNext]_configVars

-----------------------------------------------------------------------------
(* Properties. *)

\* What the program has asked for: a setter outweighs the option table.
InTable(k) == {i \in DOMAIN table : table[i].key = k}
FromTable(k) == IF InTable(k) = {} THEN Nothing ELSE table[CHOOSE i \in InTable(k) : TRUE].value

Asked(k) ==
  CASE k = "host"            -> Or(fields.socket, Or(fields.host, FromTable(k)))
    [] k = "port"            -> Or(Number(fields.port), FromTable(k))
    [] k \in {"user", "password", "dbname"} -> Or(fields[k], FromTable(k))
    [] k = "sslmode"         -> Or(Mode, FromTable(k))
    [] k \in SSLFields       -> Or(ssl[k], FromTable(k))
    [] k = "connect_timeout" -> IF limited THEN Number(timeout)
                                ELSE Or(FromTable(k), Number(10))

Arrives(keys) ==
  Made /\ read # NotRead =>
    /\ DOMAIN read \subseteq Keywords
    /\ \A k \in keys : IF Asked(k) = Nothing THEN k \notin DOMAIN read
                        ELSE k \in DOMAIN read /\ read[k] = Asked(k)

\* Whatever characters the values have, and in whatever order they were set, libpq
\* takes each of them, and nothing else, from the string it is given; only the
\* time limit of an option table is not looked at (ConnectionConfig.cpp:67, 107).
SettingsArrive ==
  Arrives(Keywords \ (IF InTable("connect_timeout") = {} THEN {} ELSE {"connect_timeout"}))

\* "Native libpq option tables are supported." (README.md:136): the options of a
\* table are used, connect_timeout too.
OptionTablesAreUsed == Arrives({"connect_timeout"})

-----------------------------------------------------------------------------
(* The inductive invariant behind SettingsArrive.  Each form of pg.connect()  *)
(* sets its own variables only, and what libpq has read was made of the       *)
(* settings as they still are.                                                *)

Shape ==
  /\ form # "positional" => fields.port = 0 /\ \A f \in Fields : fields[f] = Nothing
  /\ form # "options" => table = <<>>
  /\ IsInjective([i \in DOMAIN table |-> table[i].key])
  /\ ~limited => timeout = 10
  /\ form = "none" => read = NotRead

ConfigInv ==
  /\ ConfigTypeOK /\ Shape
  /\ Made /\ read # NotRead => read = Understood(BuildConnectionString)
=============================================================================
