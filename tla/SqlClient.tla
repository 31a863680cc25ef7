----------------------------- MODULE SqlClient -----------------------------
(***************************************************************************)
(* One call of Client.execute, over HTTP or over the Postgres protocol.    *)
(*                                                                         *)
(* Over HTTP its promise is a chain: the URL strategy, the fetch options,  *)
(* fetch, the status, the fields of the header, the body, the result.      *)
(* Each link can fail, and the caller's abort signal and a new credential  *)
(* can come between any two.  Over Postgres there is a connection, made    *)
(* when the client is, and a query sent on it.  Calls share nothing that   *)
(* they change, so one call has all the behaviour; how the results of      *)
(* several calls meet is the subject of UseSql.                            *)
(***************************************************************************)
EXTENDS Integers, SequencesExt, FiniteSets

CONSTANTS
    Columns,   \* the columns an arrow schema may hold, see Column
    MaxLines,  \* bound: the lines of a body
    Nothing    \* null, and a value that is missing

-----------------------------------------------------------------------------
\* The types Seafowl gives its columns, and what is no such type.
SeafowlArrowTypes ==
    {[name |-> n] : n \in {"utf8", "bool", "date", "timestamp"}}
        \cup [name : {"int"}, bitWidth : {16, 32, 64}]
        \cup [name : {"floatingpoint"}, precision : {"SINGLE", "DOUBLE"}]
ForeignArrowTypes == {[name |-> "int", bitWidth |-> 8], [name |-> "decimal"]}

\* A column of an arrow schema; nothing checks that a header's columns have a type.
Column(type, nullable) == [type |-> type, nullable |-> nullable]

ASSUME ColumnsAssumption ==
    \A column \in Columns :
        column.nullable \in BOOLEAN /\ column = Column(column.type, column.nullable)

\* Mutant: the cases of an int end before its widest width.
ArrowTypeWithoutBigint(type) ==
    CASE type.name = "int" /\ type.bitWidth = 16 -> "SMALLINT"
      [] type.name = "int" /\ type.bitWidth = 32 -> "INT"
      [] OTHER -> IF type.name \in {"bool", "int"} THEN "BOOLEAN" ELSE type.name

(***************************************************************************)
(* The cases of int and floatingpoint fall through for a width or a        *)
(* precision they do not list, all the way to the boolean.                 *)
(***************************************************************************)
seafowlArrowTypeToSQLType(type) ==
    CASE type.name = "utf8" -> "VARCHAR"
      [] type.name = "int" /\ type.bitWidth = 16 -> "SMALLINT"
      [] type.name = "int" /\ type.bitWidth = 32 -> "INT"
      [] type.name = "int" /\ type.bitWidth = 64 -> "BIGINT"
      [] type.name = "floatingpoint" /\ type.precision = "SINGLE" -> "FLOAT"
      [] type.name = "floatingpoint" /\ type.precision = "DOUBLE" -> "DOUBLE"
      [] type.name = "date" -> "DATE"
      [] type.name = "timestamp" -> "TIMESTAMP"
      [] OTHER -> IF type.name \in {"bool", "int", "floatingpoint"} THEN "BOOLEAN" ELSE Nothing

SqlTypes ==
    {"VARCHAR", "SMALLINT", "INT", "BIGINT", "FLOAT", "DOUBLE", "DATE", "TIMESTAMP", "BOOLEAN"}

\* The words of the type that is shown.
formatSqlType(sqlType, nullable) ==
    IF nullable THEN <<sqlType>> ELSE <<sqlType, "NOT NULL">>

Field == [columnID : Nat, format : Seq(SqlTypes \cup {"NOT NULL", Nothing})]

(***************************************************************************)
(* The Content-Type header of an answer: none, one whose arrow-schema is   *)
(* absent or not JSON, one that is JSON and no schema, or a schema with    *)
(* its columns, here numbered instead of named.                            *)
(***************************************************************************)
Headers ==
    [kind : {"none", "malformed", "no schema"}, columns : {<< >>}]
        \cup [kind : {"schema"}, columns : SeqOf(Columns, 2)]

\* What parses and is no schema is told from a schema without columns by nobody.
parseArrowFieldsFromResponseContentTypeHeader(header) ==
    IF header.kind \in {"none", "malformed"} THEN Nothing ELSE header.columns

\* Without a schema, or with one column that has no type, the list is empty.
parseFieldsFromResponseContentTypeHeader(header) ==
    LET arrowFields == parseArrowFieldsFromResponseContentTypeHeader(header)
    IN  IF arrowFields = Nothing \/ \E i \in DOMAIN arrowFields : arrowFields[i].type = Nothing
        THEN << >>
        ELSE [i \in DOMAIN arrowFields |->
                [columnID |-> i - 1,
                 format |-> formatSqlType(seafowlArrowTypeToSQLType(arrowFields[i].type),
                                          arrowFields[i].nullable)]]

skipParsingFieldsFromResponse == Nothing

\* The value of the key "fields" of a body, when it has one.
parseFieldsFromResponseBodyJSONFieldsKey(fields) == fields
skipParsingFieldsFromResponseBodyJSON == Nothing

-----------------------------------------------------------------------------
(***************************************************************************)
(* What each db gives its HTTP client, and what a caller's own strategies  *)
(* replace: the fields of the header may be parsed, left as they are sent, *)
(* skipped, or fail; those of the body read from its key, skipped or fail. *)
(* Fetch options may be the db's, have a signal of their own, or be null.  *)
(***************************************************************************)
SeafowlOptions ==
    [bodyMode |-> "jsonl", header |-> "sql", body |-> "skip", fetch |-> "default"]
SplitgraphOptions ==
    [bodyMode |-> "json", header |-> "skip", body |-> "key", fetch |-> "default"]
DbOptions == {SeafowlOptions, SplitgraphOptions}
HttpOptions ==
    DbOptions
        \cup {[options EXCEPT !.header = own] :
                  options \in DbOptions, own \in {"arrow", "skip", "failing"}}
        \cup {[options EXCEPT !.body = "failing"] : options \in DbOptions}
        \cup {[options EXCEPT !.fetch = own] :
                  options \in DbOptions, own \in {"own", "none"}}

parseFieldsFromResponse(options, header) ==
    CASE options.header = "sql" -> parseFieldsFromResponseContentTypeHeader(header)
      [] options.header = "arrow" -> parseArrowFieldsFromResponseContentTypeHeader(header)
      [] OTHER -> skipParsingFieldsFromResponse

parseFieldsFromResponseBodyJSON(options, fields) ==
    IF options.body = "key" THEN parseFieldsFromResponseBodyJSONFieldsKey(fields)
    ELSE skipParsingFieldsFromResponseBodyJSON

(***************************************************************************)
(* A client's credential, and what a request says of it: headers over HTTP *)
(* (an anonymous token is not sent), a user and a password over Postgres   *)
(* (it is).                                                                *)
(***************************************************************************)
Credentials == {"keypair", "token", "anonymous"}

makeAuthHeaders(credential) ==
    IF credential = "anonymous" THEN << >>
    ELSE IF credential = "token" THEN [Authorization |-> "token"]
    ELSE [apiKey |-> "key", apiSecret |-> "secret"]

makeAuthPgParams(credential) ==
    IF credential = "keypair" THEN [username |-> "key", password |-> "secret"]
    ELSE [username |-> credential, password |-> "ddn"]

-----------------------------------------------------------------------------
(***************************************************************************)
(* The body the server sends, line by line: a row, a blank line, text that *)
(* is not JSON, or a row with a column whose name every object inherits    *)
(* ("constructor"), which the reducer of observed fields trips over.  A    *)
(* body that is one document may also list its fields.                     *)
(***************************************************************************)
Lines == {"row", "blank", "garbage", "builtin"}

\* The rows of a body, blank lines left out.
RowsOf(lines) == SelectSeq(lines, LAMBDA line : line # "blank")

\* The fields that a body lists, if it does.
Listed == <<[columnID |-> 7, format |-> <<"VARCHAR">>]>>
Bodies == [lines : SeqOf(Lines, MaxLines), fields : {Nothing, Listed}]

VARIABLES
    call,         \* how the client was made and called, see Calls
    constructed,  \* the credential the client was made with
    credential,   \* the client's
    had,          \* the credentials the client had since execute was called
    pc,           \* "made", "called", "url", "fetching", "reading", "settled", "rejected"
    aborted,      \* "no", or whether the signal was aborted "before" or "after" the request
    listening,    \* "unsent", or whether fetch listens to the caller's signal
    request,      \* what the request said of the credential
    status,       \* of the HTTP response
    header,       \* of the HTTP response
    fields,       \* maybeFieldsFromResponse
    body,         \* of the response
    result        \* what the promise resolves to

client == <<call, constructed, credential, had>>
response == <<status, header, fields, body>>
vars == <<client, pc, aborted, listening, request, response, result>>

Calls ==
    [protocol : {"http"}, options : HttpOptions, rowMode : {"object", "array"},
     signalled : BOOLEAN]
    \cup [protocol : {"postgres"}, options : {<< >>}, rowMode : {"object", "array"},
          signalled : {FALSE}]

\* The error of the code has a type and perhaps a name; its cause is what happened.
Error(type, name, cause) ==
    [response |-> Nothing, error |-> [type |-> type, name |-> name, cause |-> cause]]
Response(rJson) == [response |-> rJson, error |-> Nothing]

\* The types of what a call returns.
FieldLists == {Nothing} \cup Seq(Field \cup Columns)
RowLists ==
    {Nothing} \cup SeqOf(Lines, MaxLines) \cup {RowsOf(lines) : lines \in SeqOf(Lines, MaxLines)}
Responses == [rows : RowLists, fields : FieldLists]
Errors ==
    [type : {"network", "unknown", "response-not-ok", Nothing},
     name : {"AbortError", "TypeError", Nothing},
     cause : {"abort", "network", "status", "format", "strategy", "postgres"}]

ASSUME SqlAssumption == MaxLines \in Nat /\ Nothing \notin Responses \cup Errors \cup Headers

Init ==
    /\ call \in Calls
    /\ constructed \in Credentials /\ credential = constructed /\ had = {}
    /\ pc = "made"
    /\ aborted = "no"
    /\ listening = "unsent" /\ request = Nothing
    /\ status = "none" /\ header = Nothing /\ fields = Nothing /\ body = Nothing
    /\ result = Nothing

-----------------------------------------------------------------------------
(***************************************************************************)
(* setCredential, once, before the call or in it: a client that has sent   *)
(* its request does not look at its credential again.                      *)
(***************************************************************************)
SetCredential(new) ==
    /\ new # credential
    /\ credential = constructed
    /\ \/ pc = "made" /\ UNCHANGED had
       \/ pc \in {"called", "url"} /\ had' = had \cup {new}
    /\ credential' = new
    /\ UNCHANGED <<call, constructed, pc, aborted, listening, request, response, result>>

\* The caller calls execute, perhaps with a signal that is aborted already.
Execute ==
    /\ pc = "made" /\ pc' = "called"
    /\ had' = {credential}
    /\ aborted' \in IF call.signalled THEN {"no", "before"} ELSE {"no"}
    /\ UNCHANGED <<call, constructed, credential, listening, request, response, result>>

\* The caller aborts during the call.
Abort ==
    /\ call.signalled /\ aborted = "no" /\ pc \in {"called", "url", "fetching", "reading"}
    /\ aborted' = IF pc \in {"called", "url"} THEN "before" ELSE "after"
    /\ UNCHANGED <<client, pc, listening, request, response, result>>

Over(protocol) == call.protocol = protocol

\* makeQueryURL: the URL is ready, or the strategy fails and so does execute.
OnQueryURL ==
    /\ Over("http") /\ pc = "called"
    /\ pc' \in {"url", "rejected"}
    /\ UNCHANGED <<client, aborted, listening, request, response, result>>

\* Mutant: the caller's signal is not given to fetch.
SendWithoutSignal ==
    /\ Over("http") /\ pc = "url"
    /\ IF call.options.fetch = "none" THEN pc' = "rejected" /\ UNCHANGED <<listening, request>>
       ELSE pc' = "fetching" /\ listening' = "no" /\ request' = makeAuthHeaders(credential)
    /\ UNCHANGED <<client, aborted, response, result>>

\* Mutant: the strategies close over the credential of the constructor.
SendAsConstructed ==
    /\ Over("http") /\ pc = "url"
    /\ IF call.options.fetch = "none" THEN pc' = "rejected" /\ UNCHANGED <<listening, request>>
       ELSE pc' = "fetching" /\ listening' = "no" /\ request' = makeAuthHeaders(constructed)
    /\ UNCHANGED <<client, aborted, response, result>>

(***************************************************************************)
(* makeFetchOptions, with the credential of this moment, and the call of   *)
(* fetch.  Without options execute throws; a signal of the strategies      *)
(* takes the place of the caller's.                                        *)
(***************************************************************************)
Send ==
    /\ Over("http") /\ pc = "url"
    /\ IF call.options.fetch = "none" THEN pc' = "rejected" /\ UNCHANGED <<listening, request>>
       ELSE /\ pc' = "fetching"
            /\ request' = makeAuthHeaders(credential)
            /\ listening' = IF call.signalled /\ call.options.fetch = "default" THEN "yes" ELSE "no"
    /\ UNCHANGED <<client, aborted, response, result>>

Interrupted == listening = "yes" /\ aborted # "no"

\* A fetch with a signal that is already aborted sends nothing.
Unsendable == Interrupted /\ aborted = "before"

Settle(outcome) == pc' = "settled" /\ result' = outcome

\* Mutant: what fetch rejects with is not caught.
OnFetchRejectedUncaught ==
    /\ Over("http") /\ pc = "fetching" /\ pc' = "rejected"
    /\ UNCHANGED <<client, aborted, listening, request, response, result>>

\* fetch rejects: the signal was aborted, or the network failed.
OnFetchRejected ==
    /\ Over("http") /\ pc = "fetching"
    /\ \/ Interrupted /\ Settle(Error("network", "AbortError", "abort"))
       \/ ~Unsendable /\ Settle(Error("network", "TypeError", "network"))
    /\ UNCHANGED <<client, aborted, listening, request, response>>

(***************************************************************************)
(* The response's status and headers arrive, perhaps just before an abort  *)
(* takes effect; a failure to parse the header is caught.                  *)
(***************************************************************************)
OnResponse ==
    /\ Over("http") /\ pc = "fetching" /\ ~Unsendable
    /\ \/ /\ status' = "error" /\ Settle(Error("unknown", Nothing, "status"))
          /\ UNCHANGED <<header, fields>>
       \/ /\ status' = "not ok" /\ Settle(Error("response-not-ok", Nothing, "status"))
          /\ UNCHANGED <<header, fields>>
       \/ /\ status' = "ok" /\ pc' = "reading" /\ UNCHANGED result
          /\ header' \in Headers
          /\ fields' = parseFieldsFromResponse(call.options, header')
    /\ UNCHANGED <<client, aborted, listening, request, body>>

\* Reading the body fails: aborted, or the connection is lost.
OnBodyRejected ==
    /\ Over("http") /\ pc = "reading"
    /\ \/ Interrupted /\ Settle(Error("unknown", Nothing, "abort"))
       \/ Settle(Error("unknown", Nothing, "network"))
    /\ UNCHANGED <<client, aborted, listening, request, response>>

-----------------------------------------------------------------------------
\* A line that does not parse, or that the reducer of observed fields rejects.
Unreadable(lines) == \E i \in DOMAIN lines : lines[i] \in {"garbage", "builtin"}

\* What the reducer makes of readable rows: the columns by name, with the types seen.
fieldsFromObservedFields(lines) ==
    [i \in 1..Cardinality(ToSet(RowsOf(lines))) |-> [columnID |-> "column", format |-> "number"]]

\* The observed fields are for a body without the key "fields"; every body has it.
WithFields(rJson, lines) ==
    IF call.rowMode = "array" \/ "fields" \in DOMAIN rJson THEN rJson
    ELSE [fields |-> fieldsFromObservedFields(lines)] @@ rJson

\* Mutant: lines that cannot be read are left out.
ReadJSONLinesSkipping(lines) ==
    Response([rows |-> SelectSeq(lines, LAMBDA line : line = "row"), fields |-> fields])

(***************************************************************************)
(* "jsonl": every line is a row.  One unreadable line makes the body null, *)
(* which the next link turns into a response without rows in array mode,   *)
(* and into a TypeError ("fields" in null) in object mode.                 *)
(***************************************************************************)
ReadJSONLines(lines) ==
    IF ~Unreadable(lines) THEN Response(WithFields([rows |-> RowsOf(lines), fields |-> fields], lines))
    ELSE IF call.rowMode = "array" THEN Response([rows |-> Nothing, fields |-> Nothing])
    ELSE Error("unknown", Nothing, "format")

(***************************************************************************)
(* "json": the body is one document.  Its rows are whatever it holds; its  *)
(* own fields come before those of the header.                             *)
(***************************************************************************)
ReadJSON(lines, listed) ==
    LET fieldsFromBody == parseFieldsFromResponseBodyJSON(call.options, listed)
    IN  IF \E i \in DOMAIN lines : lines[i] = "garbage" THEN Error("unknown", Nothing, "format")
        ELSE IF call.options.body = "failing" THEN Error("unknown", Nothing, "strategy")
        ELSE Response(WithFields(
                [rows |-> RowsOf(lines),
                 fields |-> IF fieldsFromBody # Nothing THEN fieldsFromBody ELSE fields], lines))

\* The body is there.
OnBody ==
    /\ Over("http") /\ pc = "reading"
    /\ body' \in {b \in Bodies : call.options.bodyMode = "jsonl" => b.fields = Nothing}
    /\ Settle(IF call.options.bodyMode = "jsonl" THEN ReadJSONLines(body'.lines)
              ELSE ReadJSON(body'.lines, body'.fields))
    /\ UNCHANGED <<client, aborted, listening, request, status, header, fields>>

-----------------------------------------------------------------------------
\* Postgres: the connection is made with the client, and connects when it is needed.
connectionOptions == makeAuthPgParams(constructed)

\* The query goes to the connection.
Query ==
    /\ Over("postgres") /\ pc = "called" /\ pc' = "fetching"
    /\ request' = connectionOptions
    /\ UNCHANGED <<client, aborted, listening, response, result>>

\* The rows, as objects or as arrays; the list of fields is always empty.
OnRows ==
    /\ Over("postgres") /\ pc = "fetching"
    /\ body' \in [lines : SeqOf({"row"}, MaxLines), fields : {Nothing}]
    /\ Settle(Response([rows |-> body'.lines, fields |-> << >>]))
    /\ UNCHANGED <<client, aborted, listening, request, status, header, fields>>

\* The query fails, or the connection does.
OnPostgresError ==
    /\ Over("postgres") /\ pc = "fetching"
    /\ Settle(Error(Nothing, Nothing, "postgres"))
    /\ UNCHANGED <<client, aborted, listening, request, response>>

Done == pc \in {"settled", "rejected"} /\ UNCHANGED vars

Next ==
    \/ Execute \/ Abort \/ (\E new \in Credentials : SetCredential(new))
    \/ OnQueryURL \/ Send
    \/ OnFetchRejected \/ OnResponse \/ OnBodyRejected \/ OnBody
    \/ Query \/ OnRows \/ OnPostgresError
    \/ Done

(***************************************************************************)
(* The event loop runs the continuations of promises that are settled, and *)
(* an aborted fetch or body does reject.  Nothing makes a server answer:   *)
(* execute has no timeout.                                                 *)
(***************************************************************************)
Fairness ==
    /\ WF_vars(OnQueryURL) /\ WF_vars(Send)
    /\ WF_vars(Interrupted /\ (OnFetchRejected \/ OnBodyRejected))

Spec == Init /\ [][Next]_vars /\ Fairness

-----------------------------------------------------------------------------
(* A response holds every row of the body of an ok answer, never some of   *)
(* them: an unreadable line costs the whole result.  In array mode over    *)
(* json lines the code then resolves to a response without rows and        *)
(* without an error, so that is the one exception.                         *)
ResponsesAreWhole ==
    (pc = "settled" /\ result.response # Nothing) =>
        /\ result.error = Nothing /\ (Over("http") => status = "ok")
        /\ \/ result.response.rows = IF Over("http") THEN RowsOf(body.lines) ELSE body.lines
           \/ /\ Over("http") /\ call.options.bodyMode = "jsonl" /\ call.rowMode = "array"
              /\ Unreadable(body.lines) /\ result.response.rows = Nothing

(* Callers handle errors as values (useSql has no catch): the promise of   *)
(* execute rejects only when a strategy failed and nothing was sent, and   *)
(* otherwise resolves to a response or an error, never to both or neither. *)
ErrorsAreValues ==
    /\ pc = "rejected" => request = Nothing
    /\ pc = "settled" => (result.response = Nothing) # (result.error = Nothing)

(* A request speaks for a credential the client had while execute ran,     *)
(* however early it was set and whatever replaces it meanwhile, never for  *)
(* an older one.  A Postgres client speaks for the credential it was made  *)
(* with: its connection does not hear of setCredential.                    *)
SpeaksForClient ==
    request # Nothing =>
        IF Over("http") THEN \E c \in had : request = makeAuthHeaders(c)
        ELSE request = makeAuthPgParams(constructed)

(* The fields of a Seafowl response number the columns of the schema in    *)
(* the header, one for one, and two columns are shown with the same type   *)
(* only if they have the same (types Seafowl does not have are shown as a  *)
(* BOOLEAN).  What the rows hold never shows in the fields: a response     *)
(* whose header and body list none has none.                               *)
FieldsTellColumns ==
    (pc = "settled" /\ result.response # Nothing /\ result.response.rows # Nothing
        /\ Over("http")) =>
        LET shown == result.response.fields
            columns == header.columns
        IN  /\ shown # Nothing => header.kind \in {"schema", "no schema"} \/ shown = << >>
                                    \/ shown = body.fields
            /\ (call.options.header = "sql" /\ shown # << >>) =>
                /\ Len(shown) = Len(columns)
                /\ \A i \in DOMAIN shown : shown[i].columnID = i - 1
                /\ \A i, j \in DOMAIN shown :
                     (columns[i] # columns[j] /\ {columns[i].type, columns[j].type} \subseteq SeafowlArrowTypes)
                        => shown[i].format # shown[j].format

(* An abort ends the call however slow the server is, provided the         *)
(* strategies set no signal of their own (execute attaches the caller's    *)
(* only then).                                                             *)
AbortEnds ==
    (aborted # "no" /\ call.options.fetch # "own") ~> (pc \in {"settled", "rejected"})

(* The inductive invariant behind the first three: nothing is sent before  *)
(* its time, a credential is one of those the client had, and a body is    *)
(* read only of an ok answer.                                              *)
TypeOK ==
    /\ call \in Calls
    /\ constructed \in Credentials /\ credential \in Credentials /\ had \subseteq Credentials
    /\ pc \in {"made", "called", "url", "fetching", "reading", "settled", "rejected"}
    /\ aborted \in {"no", "before", "after"} /\ listening \in {"unsent", "yes", "no"}
    /\ status \in {"none", "ok", "not ok", "error"}
    /\ header \in Headers \cup {Nothing} /\ fields \in FieldLists
    /\ body \in Bodies \cup {Nothing}
    /\ pc = "settled" =>
           result \in [response : {Nothing} \cup Responses, error : {Nothing} \cup Errors]
Unsent ==
    /\ pc \in {"made", "called", "url"} => request = Nothing
    /\ pc \in {"called", "url"} => credential \in had
    /\ pc = "reading" => Over("http") /\ status = "ok"
\* Until a body is there, the fields are those that the header gave.
FieldsParsed ==
    pc = "reading" => header \in Headers /\ fields = parseFieldsFromResponse(call.options, header)
IInv == TypeOK /\ Unsent /\ SpeaksForClient /\ ErrorsAreValues

(* "Error is caught and passed to the error property with .name=AbortError" *)
(* (core/seafowl.test.ts on the abort signal).  Violated: the name is      *)
(* copied only from what fetch rejects with; an abort while the body is    *)
(* read gives an error of unknown type without a name, because a           *)
(* DOMException cannot be spread.                                          *)
AbortIsNamed ==
    (pc = "settled" /\ result.error # Nothing)
        => (result.error.cause = "abort" => result.error.name = "AbortError")
=============================================================================
