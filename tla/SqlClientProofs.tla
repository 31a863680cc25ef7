-------------------------- MODULE SqlClientProofs --------------------------
(***************************************************************************)
(* Proofs about SqlClient, for any columns and any length of a body.       *)
(***************************************************************************)
EXTENDS SqlClient, SequenceTheorems, TLAPS

LEMMA SqlTypeOfArrow ==
    ASSUME NEW type PROVE seafowlArrowTypeToSQLType(type) \in SqlTypes \cup {Nothing}
BY DEF seafowlArrowTypeToSQLType, SqlTypes

LEMMA ShortSeqs ==
    ASSUME NEW S, NEW a \in S, NEW b \in S PROVE <<a>> \in Seq(S) /\ <<a, b>> \in Seq(S)
OBVIOUS

LEMMA HeaderColumns ==
    ASSUME NEW h \in Headers PROVE h.columns \in Seq(Columns)
<1>1. h.columns \in {<< >>} \cup SeqOf(Columns, 2)
  BY DEF Headers
<1>2. ASSUME NEW columns \in SeqOf(Columns, 2) PROVE columns \in Seq(Columns)
  <2>1. PICK m \in 0 .. 2 : columns \in [1 .. m -> Columns]
    BY DEF SeqOf
  <2>2. m \in Nat
    OBVIOUS
  <2> QED
    BY <2>1, <2>2, SeqDef
<1>3. << >> \in Seq(Columns)
  OBVIOUS
<1> QED
  BY <1>1, <1>2, <1>3

(* Whatever strategy a client has, the fields of a header are a list of    *)
(* fields or of columns, or null.                                          *)
LEMMA FieldsOfHeader ==
    ASSUME NEW options, NEW h \in Headers
    PROVE  parseFieldsFromResponse(options, h) \in FieldLists
<1>1. h.columns \in Seq(Columns)
  BY HeaderColumns
<1>2. parseArrowFieldsFromResponseContentTypeHeader(h) \in {Nothing} \cup Seq(Columns)
  BY <1>1 DEF parseArrowFieldsFromResponseContentTypeHeader
<1>3. Seq(Columns) \subseteq Seq(Field \cup Columns)
  OBVIOUS
<1>4. parseFieldsFromResponseContentTypeHeader(h) \in Seq(Field)
  <2> DEFINE list == parseArrowFieldsFromResponseContentTypeHeader(h)
             format(i) == formatSqlType(seafowlArrowTypeToSQLType(list[i].type), list[i].nullable)
  <2>1. << >> \in Seq(Field)
    OBVIOUS
  <2>2. ASSUME list # Nothing
        PROVE  [i \in DOMAIN list |-> [columnID |-> i - 1, format |-> format(i)]] \in Seq(Field)
    <3>1. list \in Seq(Columns)
      BY <1>2, <2>2
    <3>2. ASSUME NEW i \in DOMAIN list
          PROVE  [columnID |-> i - 1, format |-> format(i)] \in Field
      <4>1. i \in Nat /\ i - 1 \in Nat
        BY <3>1
      <4>2. seafowlArrowTypeToSQLType(list[i].type) \in SqlTypes \cup {"NOT NULL", Nothing}
        BY SqlTypeOfArrow
      <4>3. format(i) \in Seq(SqlTypes \cup {"NOT NULL", Nothing})
        BY <4>2, ShortSeqs DEF formatSqlType
      <4> QED
        BY <4>1, <4>3 DEF Field
    <3> HIDE DEF format
    <3> QED
      BY <3>1, <3>2
  <2> QED
    BY <2>1, <2>2 DEF parseFieldsFromResponseContentTypeHeader
<1>5. Seq(Field) \subseteq Seq(Field \cup Columns)
  OBVIOUS
<1> QED
  BY <1>2, <1>3, <1>4, <1>5
  DEF parseFieldsFromResponse, FieldLists, skipParsingFieldsFromResponse

(* Two types of Seafowl's are never shown as the same SQL type.            *)
LEMMA SqlTypesDiffer ==
    ASSUME NEW a \in SeafowlArrowTypes, NEW b \in SeafowlArrowTypes, a # b
    PROVE  seafowlArrowTypeToSQLType(a) # seafowlArrowTypeToSQLType(b)
<1>1. seafowlArrowTypeToSQLType([name |-> "utf8"]) = "VARCHAR"
  BY DEF seafowlArrowTypeToSQLType
<1>2. seafowlArrowTypeToSQLType([name |-> "bool"]) = "BOOLEAN"
  BY DEF seafowlArrowTypeToSQLType
<1>3. seafowlArrowTypeToSQLType([name |-> "date"]) = "DATE"
  BY DEF seafowlArrowTypeToSQLType
<1>4. seafowlArrowTypeToSQLType([name |-> "timestamp"]) = "TIMESTAMP"
  BY DEF seafowlArrowTypeToSQLType
<1>5. /\ seafowlArrowTypeToSQLType([name |-> "int", bitWidth |-> 16]) = "SMALLINT"
      /\ seafowlArrowTypeToSQLType([name |-> "int", bitWidth |-> 32]) = "INT"
      /\ seafowlArrowTypeToSQLType([name |-> "int", bitWidth |-> 64]) = "BIGINT"
  BY DEF seafowlArrowTypeToSQLType
<1>6. /\ seafowlArrowTypeToSQLType([name |-> "floatingpoint", precision |-> "SINGLE"]) = "FLOAT"
      /\ seafowlArrowTypeToSQLType([name |-> "floatingpoint", precision |-> "DOUBLE"]) = "DOUBLE"
  BY DEF seafowlArrowTypeToSQLType
<1>7. ASSUME NEW type \in SeafowlArrowTypes
      PROVE  type \in {[name |-> "utf8"], [name |-> "bool"], [name |-> "date"], [name |-> "timestamp"],
                       [name |-> "int", bitWidth |-> 16], [name |-> "int", bitWidth |-> 32],
                       [name |-> "int", bitWidth |-> 64],
                       [name |-> "floatingpoint", precision |-> "SINGLE"],
                       [name |-> "floatingpoint", precision |-> "DOUBLE"]}
  BY DEF SeafowlArrowTypes
<1> QED
  BY <1>1, <1>2, <1>3, <1>4, <1>5, <1>6, <1>7

LEMMA FormatsDiffer ==
    ASSUME NEW a, NEW b, NEW m \in BOOLEAN, NEW n \in BOOLEAN, a # b \/ m # n
    PROVE  formatSqlType(a, m) # formatSqlType(b, n)
BY DEF formatSqlType

(* What a result may show of the fields of a header h and of the key       *)
(* "fields" of a body: the two halves of FieldsTellColumns.                *)
FromSomewhere(shown, h, listed) ==
    shown # Nothing => h.kind \in {"schema", "no schema"} \/ shown = << >> \/ shown = listed
Numbered(shown, columns) ==
    shown # << >> =>
        /\ Len(shown) = Len(columns)
        /\ \A i \in DOMAIN shown : shown[i].columnID = i - 1
        /\ \A i, j \in DOMAIN shown :
             (columns[i] # columns[j] /\ {columns[i].type, columns[j].type} \subseteq SeafowlArrowTypes)
                => shown[i].format # shown[j].format

(* The fields that are parsed from a schema tell its columns apart.        *)
LEMMA SchemaNumbered ==
    ASSUME NEW h \in Headers
    PROVE  Numbered(parseFieldsFromResponseContentTypeHeader(h), h.columns)
<1> DEFINE shown == parseFieldsFromResponseContentTypeHeader(h)
           columns == h.columns
           format(i) == formatSqlType(seafowlArrowTypeToSQLType(columns[i].type), columns[i].nullable)
<1>1. columns \in Seq(Columns)
  BY HeaderColumns
<1>2. SUFFICES ASSUME shown # << >> PROVE Numbered(shown, columns)
  BY DEF Numbered
<1>3. shown = [i \in DOMAIN columns |-> [columnID |-> i - 1, format |-> format(i)]]
  BY <1>2 DEF parseFieldsFromResponseContentTypeHeader, parseArrowFieldsFromResponseContentTypeHeader
<1>4. ASSUME NEW i \in DOMAIN columns, NEW j \in DOMAIN columns, columns[i] # columns[j],
             columns[i].type \in SeafowlArrowTypes, columns[j].type \in SeafowlArrowTypes
      PROVE  format(i) # format(j)
  <2>1. columns[i] \in Columns /\ columns[j] \in Columns
    BY <1>1
  <2>2. /\ columns[i].nullable \in BOOLEAN /\ columns[j].nullable \in BOOLEAN
        /\ columns[i] = Column(columns[i].type, columns[i].nullable)
        /\ columns[j] = Column(columns[j].type, columns[j].nullable)
    BY <2>1, ColumnsAssumption
  <2>3. columns[i].type # columns[j].type \/ columns[i].nullable # columns[j].nullable
    BY <1>4, <2>2
  <2>4. \/ seafowlArrowTypeToSQLType(columns[i].type) # seafowlArrowTypeToSQLType(columns[j].type)
        \/ columns[i].nullable # columns[j].nullable
    BY <1>4, <2>3, SqlTypesDiffer
  <2> QED
    BY <2>2, <2>4, FormatsDiffer
<1>5. DOMAIN shown = DOMAIN columns /\ Len(shown) = Len(columns)
  <2> HIDE DEF shown, columns, format
  <2>1. DOMAIN shown = DOMAIN columns
    BY <1>3
  <2>2. DOMAIN shown = 1 .. Len(columns) /\ Len(columns) \in Nat
    BY <1>1, <2>1
  <2>3. shown \in Seq({[columnID |-> i - 1, format |-> format(i)] : i \in DOMAIN columns})
    BY <1>1, <1>3
  <2> QED
    BY <2>1, <2>2, <2>3
<1> HIDE DEF shown, columns, format
<1> QED
  BY <1>3, <1>4, <1>5 DEF Numbered

(* Only a client that reads json lines parses the fields of a header.      *)
LEMMA SqlOptions ==
    ASSUME NEW chosen \in HttpOptions, chosen.header = "sql"
    PROVE  chosen.bodyMode = "jsonl"
<1>1. \A options \in DbOptions :
          /\ DOMAIN options = {"bodyMode", "header", "body", "fetch"}
          /\ options.header = "sql" => options.bodyMode = "jsonl"
  BY DEF DbOptions, SeafowlOptions, SplitgraphOptions
<1>2. CASE chosen \in DbOptions
  BY <1>1, <1>2
<1>3. CASE chosen \in {[options EXCEPT !.header = own] :
                            options \in DbOptions, own \in {"arrow", "skip", "failing"}}
  <2>1. PICK options \in DbOptions, own \in {"arrow", "skip", "failing"} :
            chosen = [options EXCEPT !.header = own]
    BY <1>3
  <2> QED
    BY <1>1, <2>1
<1>4. CASE chosen \in {[options EXCEPT !.body = "failing"] : options \in DbOptions}
  <2>1. PICK options \in DbOptions : chosen = [options EXCEPT !.body = "failing"]
    BY <1>4
  <2> QED
    BY <1>1, <2>1
<1>5. CASE chosen \in {[options EXCEPT !.fetch = own] :
                            options \in DbOptions, own \in {"own", "none"}}
  <2>1. PICK options \in DbOptions, own \in {"own", "none"} :
            chosen = [options EXCEPT !.fetch = own]
    BY <1>5
  <2> QED
    BY <1>1, <2>1
<1> QED
  BY <1>2, <1>3, <1>4, <1>5 DEF HttpOptions

LEMMA HeaderFromSomewhere ==
    ASSUME NEW options, NEW h, NEW listed
    PROVE  FromSomewhere(parseFieldsFromResponse(options, h), h, listed)
           \/ h.kind \notin {"none", "malformed", "no schema", "schema"}
BY DEF FromSomewhere, parseFieldsFromResponse, skipParsingFieldsFromResponse,
       parseFieldsFromResponseContentTypeHeader, parseArrowFieldsFromResponseContentTypeHeader

(* What FieldsTellColumns asks of an outcome.                              *)
Tells(outcome, h, listed) ==
    (outcome.response # Nothing /\ outcome.response.rows # Nothing) =>
        /\ FromSomewhere(outcome.response.fields, h, listed)
        /\ call.options.header = "sql" => Numbered(outcome.response.fields, h.columns)

(* The two outcomes of a call.                                             *)
Outcomes == [response : {Nothing} \cup Responses, error : {Nothing} \cup Errors]

LEMMA ErrorIsOutcome ==
    ASSUME NEW type \in {"network", "unknown", "response-not-ok", Nothing},
           NEW name \in {"AbortError", "TypeError", Nothing},
           NEW cause \in {"abort", "network", "status", "format", "strategy", "postgres"}
    PROVE  /\ Error(type, name, cause) \in Outcomes
           /\ Error(type, name, cause).response = Nothing
           /\ Error(type, name, cause).error # Nothing
<1>1. [type |-> type, name |-> name, cause |-> cause] \in Errors
  BY DEF Errors
<1>2. Nothing \notin Errors
  BY SqlAssumption
<1> QED
  BY <1>1, <1>2 DEF Error, Outcomes

LEMMA ResponseIsOutcome ==
    ASSUME NEW rJson \in Responses
    PROVE  /\ Response(rJson) \in Outcomes
           /\ Response(rJson).response = rJson /\ rJson # Nothing
           /\ Response(rJson).error = Nothing
<1>1. Nothing \notin Responses
  BY SqlAssumption
<1> QED
  BY <1>1 DEF Response, Outcomes

(* Reading a body gives an outcome, with every row or an error, unless a   *)
(* line of json lines cannot be read in array mode.                        *)
Whole(outcome, lines) ==
    outcome.response # Nothing =>
        \/ outcome.response.rows = RowsOf(lines)
        \/ /\ call.options.bodyMode = "jsonl" /\ call.rowMode = "array"
           /\ Unreadable(lines) /\ outcome.response.rows = Nothing

Exclusive(outcome) == (outcome.response = Nothing) # (outcome.error = Nothing)

LEMMA OutcomeOfError ==
    ASSUME NEW type \in {"network", "unknown", "response-not-ok", Nothing},
           NEW name \in {"AbortError", "TypeError", Nothing},
           NEW cause \in {"abort", "network", "status", "format", "strategy", "postgres"}
    PROVE  /\ Error(type, name, cause) \in Outcomes /\ Exclusive(Error(type, name, cause))
           /\ Error(type, name, cause).response = Nothing
           /\ \A lines : Whole(Error(type, name, cause), lines)
           /\ \A h, listed : Tells(Error(type, name, cause), h, listed)
BY ErrorIsOutcome DEF Exclusive, Whole, Tells

LEMMA OutcomeOfResponse ==
    ASSUME NEW rows \in RowLists, NEW list \in FieldLists
    PROVE  LET rJson == [rows |-> rows, fields |-> list]
           IN  /\ Response(rJson) \in Outcomes /\ Exclusive(Response(rJson))
               /\ Response(rJson).response = rJson
               /\ Response(rJson).error = Nothing
<1>1. [rows |-> rows, fields |-> list] \in Responses
  BY DEF Responses
<1> QED
  BY <1>1, ResponseIsOutcome DEF Exclusive

LEMMA ReadingIsWhole ==
    ASSUME NEW lines \in SeqOf(Lines, MaxLines), NEW listed \in {Nothing, Listed}, fields \in FieldLists
    PROVE  /\ ReadJSONLines(lines) \in Outcomes /\ Exclusive(ReadJSONLines(lines))
           /\ ReadJSON(lines, listed) \in Outcomes /\ Exclusive(ReadJSON(lines, listed))
           /\ call.options.bodyMode = "jsonl" => Whole(ReadJSONLines(lines), lines)
           /\ Whole(ReadJSON(lines, listed), lines)
<1>1. RowsOf(lines) \in RowLists /\ Nothing \in RowLists
  BY DEF RowLists
<1>2. \A rows, list : WithFields([rows |-> rows, fields |-> list], lines)
                          = [rows |-> rows, fields |-> list]
  BY DEF WithFields
<1>3. Nothing \in FieldLists /\ Listed \in FieldLists
  <2>1. <<"VARCHAR">> \in Seq(SqlTypes \cup {"NOT NULL", Nothing})
    BY ShortSeqs DEF SqlTypes
  <2>2. [columnID |-> 7, format |-> <<"VARCHAR">>] \in Field \cup Columns
    BY <2>1 DEF Field
  <2>3. Listed \in Seq(Field \cup Columns)
    BY <2>2, ShortSeqs DEF Listed
  <2> QED
    BY <2>3 DEF FieldLists
<1>4. ReadJSONLines(lines) \in Outcomes /\ Exclusive(ReadJSONLines(lines))
        /\ (call.options.bodyMode = "jsonl" => Whole(ReadJSONLines(lines), lines))
  <2>1. CASE ~Unreadable(lines)
    <3>1. ReadJSONLines(lines) = Response([rows |-> RowsOf(lines), fields |-> fields])
      BY <2>1, <1>2 DEF ReadJSONLines
    <3> QED
      BY <3>1, <1>1, OutcomeOfResponse DEF Whole
  <2>2. CASE Unreadable(lines) /\ call.rowMode = "array"
    <3>1. ReadJSONLines(lines) = Response([rows |-> Nothing, fields |-> Nothing])
      BY <2>2 DEF ReadJSONLines
    <3>2. /\ ReadJSONLines(lines) \in Outcomes /\ Exclusive(ReadJSONLines(lines))
          /\ ReadJSONLines(lines).response = [rows |-> Nothing, fields |-> Nothing]
      BY <3>1, <1>1, <1>3, OutcomeOfResponse
    <3>3. call.options.bodyMode = "jsonl" => Whole(ReadJSONLines(lines), lines)
      BY <2>2, <3>2 DEF Whole
    <3> QED
      BY <3>2, <3>3
  <2>3. CASE Unreadable(lines) /\ call.rowMode # "array"
    <3>1. ReadJSONLines(lines) = Error("unknown", Nothing, "format")
      BY <2>3 DEF ReadJSONLines
    <3> QED
      BY <3>1, OutcomeOfError
  <2> QED
    BY <2>1, <2>2, <2>3
<1>5. ReadJSON(lines, listed) \in Outcomes /\ Exclusive(ReadJSON(lines, listed))
        /\ Whole(ReadJSON(lines, listed), lines)
  <2> DEFINE fieldsFromBody == parseFieldsFromResponseBodyJSON(call.options, listed)
             list == IF fieldsFromBody # Nothing THEN fieldsFromBody ELSE fields
  <2>1. list \in FieldLists
    BY <1>3 DEF parseFieldsFromResponseBodyJSON, parseFieldsFromResponseBodyJSONFieldsKey,
                skipParsingFieldsFromResponseBodyJSON
  <2>2. ReadJSON(lines, listed) \in {Error("unknown", Nothing, "format"),
                                     Error("unknown", Nothing, "strategy"),
                                     Response([rows |-> RowsOf(lines), fields |-> list])}
    BY <1>2 DEF ReadJSON
  <2> HIDE DEF list
  <2>3. CASE ReadJSON(lines, listed) = Response([rows |-> RowsOf(lines), fields |-> list])
    BY <2>1, <2>3, <1>1, OutcomeOfResponse DEF Whole
  <2>4. CASE ReadJSON(lines, listed) # Response([rows |-> RowsOf(lines), fields |-> list])
    BY <2>2, <2>4, OutcomeOfError
  <2> QED
    BY <2>3, <2>4
<1> QED
  BY <1>4, <1>5

(* Reading a body shows the fields of the header, or those it lists.       *)
LEMMA ReadingTells ==
    ASSUME call.options \in HttpOptions, header \in Headers,
           fields = parseFieldsFromResponse(call.options, header),
           NEW lines \in SeqOf(Lines, MaxLines), NEW listed \in {Nothing, Listed}
    PROVE  /\ call.options.bodyMode = "jsonl" => Tells(ReadJSONLines(lines), header, listed)
           /\ call.options.bodyMode # "jsonl" => Tells(ReadJSON(lines, listed), header, listed)
<1>1. FromSomewhere(fields, header, listed) /\ FromSomewhere(listed, header, listed)
  <2>1. header.kind \in {"none", "malformed", "no schema", "schema"}
    BY DEF Headers
  <2> QED
    BY <2>1, HeaderFromSomewhere DEF FromSomewhere
<1>2. call.options.header = "sql" => Numbered(fields, header.columns)
  BY SchemaNumbered DEF parseFieldsFromResponse
<1>3. \A rows, list : WithFields([rows |-> rows, fields |-> list], lines)
                          = [rows |-> rows, fields |-> list]
  BY DEF WithFields
<1>4. ASSUME NEW rows, NEW list, FromSomewhere(list, header, listed),
             call.options.header = "sql" => Numbered(list, header.columns)
      PROVE  Tells(Response([rows |-> rows, fields |-> list]), header, listed)
  BY <1>4 DEF Tells, Response
<1>5. Tells(ReadJSONLines(lines), header, listed)
  <2>1. CASE ~Unreadable(lines)
    <3>1. ReadJSONLines(lines) = Response([rows |-> RowsOf(lines), fields |-> fields])
      BY <2>1, <1>3 DEF ReadJSONLines
    <3> QED
      BY <3>1, <1>1, <1>2, <1>4
  <2>2. CASE Unreadable(lines) /\ call.rowMode = "array"
    <3>1. ReadJSONLines(lines) = Response([rows |-> Nothing, fields |-> Nothing])
      BY <2>2 DEF ReadJSONLines
    <3> QED
      BY <3>1 DEF Tells, Response
  <2>3. CASE Unreadable(lines) /\ call.rowMode # "array"
    <3>1. ReadJSONLines(lines) = Error("unknown", Nothing, "format")
      BY <2>3 DEF ReadJSONLines
    <3> QED
      BY <3>1, OutcomeOfError
  <2> QED
    BY <2>1, <2>2, <2>3
<1>6. ASSUME call.options.bodyMode # "jsonl"
      PROVE  Tells(ReadJSON(lines, listed), header, listed)
  <2> DEFINE fieldsFromBody == parseFieldsFromResponseBodyJSON(call.options, listed)
             list == IF fieldsFromBody # Nothing THEN fieldsFromBody ELSE fields
  <2>1. FromSomewhere(list, header, listed)
    BY <1>1 DEF parseFieldsFromResponseBodyJSON, parseFieldsFromResponseBodyJSONFieldsKey,
                skipParsingFieldsFromResponseBodyJSON
  <2>2. call.options.header # "sql"
    BY <1>6, SqlOptions
  <2>3. ReadJSON(lines, listed) \in {Error("unknown", Nothing, "format"),
                                     Error("unknown", Nothing, "strategy"),
                                     Response([rows |-> RowsOf(lines), fields |-> list])}
    BY <1>3 DEF ReadJSON
  <2> HIDE DEF list
  <2>4. Tells(Response([rows |-> RowsOf(lines), fields |-> list]), header, listed)
    BY <1>4, <2>1, <2>2
  <2> QED
    BY <2>3, <2>4, OutcomeOfError
<1> QED
  BY <1>5, <1>6

Inv == IInv /\ ResponsesAreWhole /\ FieldsParsed /\ FieldsTellColumns

LEMMA InitInv == Init => Inv
<1> SUFFICES ASSUME Init PROVE Inv
  OBVIOUS
<1>1. TypeOK
  BY DEF Init, TypeOK, FieldLists
<1>2. Unsent /\ SpeaksForClient /\ ErrorsAreValues /\ ResponsesAreWhole
  BY DEF Init, Unsent, SpeaksForClient, ErrorsAreValues, ResponsesAreWhole
<1>3. FieldsParsed /\ FieldsTellColumns
  BY DEF Init, FieldsParsed, FieldsTellColumns
<1> QED
  BY <1>1, <1>2, <1>3 DEF Inv, IInv

(* A step of a call that is not settled, and that it does not settle.      *)
LEMMA UnsettledStep ==
    ASSUME IInv, TypeOK', pc # "settled", pc' # "settled",
           UNCHANGED <<call, constructed>>,
           Unsent', FieldsParsed', pc' = "rejected" => request' = Nothing,
           request' # Nothing =>
              \/ request' = request /\ had \subseteq had'
              \/ IF Over("http") THEN \E c \in had' : request' = makeAuthHeaders(c)
                 ELSE request' = makeAuthPgParams(constructed)
    PROVE  Inv'
<1>1. SpeaksForClient'
  BY DEF IInv, SpeaksForClient, Over
<1>2. ErrorsAreValues' /\ ResponsesAreWhole' /\ FieldsTellColumns'
  BY DEF ErrorsAreValues, ResponsesAreWhole, FieldsTellColumns
<1> QED
  BY <1>1, <1>2 DEF Inv, IInv

(* A step that settles a call.                                             *)
LEMMA SettledStep ==
    ASSUME IInv, pc \in {"fetching", "reading"},
           NEW outcome \in Outcomes, Settle(outcome), Exclusive(outcome),
           UNCHANGED <<client, aborted, listening, request>>,
           status' \in {"none", "ok", "not ok", "error"},
           header' \in Headers \cup {Nothing}, fields' \in FieldLists,
           body' \in Bodies \cup {Nothing},
           Over("http") =>
               /\ outcome.response # Nothing => status' = "ok" /\ Whole(outcome, body'.lines)
               /\ Tells(outcome, header', body'.fields),
           ~Over("http") => (outcome.response # Nothing => outcome.response.rows = body'.lines)
    PROVE  Inv'
<1>1. pc' = "settled" /\ result' = outcome /\ UNCHANGED <<call, constructed, credential, had>>
  BY DEF Settle, client
<1>2. TypeOK'
  BY <1>1 DEF IInv, TypeOK, Outcomes
<1>3. Unsent'
  BY <1>1 DEF Unsent
<1>4. SpeaksForClient'
  BY <1>1 DEF IInv, SpeaksForClient, Over
<1>5. ErrorsAreValues'
  BY <1>1 DEF ErrorsAreValues, Exclusive
<1>6. ResponsesAreWhole'
  BY <1>1 DEF ResponsesAreWhole, Exclusive, Whole, Over
<1>7. FieldsParsed' /\ FieldsTellColumns'
  <2>1. FieldsParsed'
    BY <1>1 DEF FieldsParsed
  <2>2. FieldsTellColumns'
    BY <1>1 DEF FieldsTellColumns, Tells, FromSomewhere, Numbered, Over
  <2> QED
    BY <2>1, <2>2
<1> QED
  BY <1>2, <1>3, <1>4, <1>5, <1>6, <1>7 DEF Inv, IInv

(* A step that settles a call with an error.                               *)
LEMMA ErrorStep ==
    ASSUME IInv, pc \in {"fetching", "reading"},
           NEW outcome \in Outcomes, Settle(outcome), Exclusive(outcome), outcome.response = Nothing,
           UNCHANGED <<client, aborted, listening, request>>,
           status' \in {"none", "ok", "not ok", "error"}, UNCHANGED <<header, fields, body>>
    PROVE  Inv'
<1>1. /\ header' \in Headers \cup {Nothing} /\ fields' \in FieldLists
      /\ body' \in Bodies \cup {Nothing}
  BY DEF IInv, TypeOK
<1>2. Tells(outcome, header', body'.fields)
  BY DEF Tells
<1> QED
  BY <1>1, <1>2, SettledStep

LEMMA NextInv == Inv /\ [Next]_vars => Inv'
<1> SUFFICES ASSUME Inv, [Next]_vars PROVE Inv'
  OBVIOUS
<1>0. IInv /\ TypeOK /\ Unsent /\ FieldsParsed
  BY DEF Inv, IInv
<1>1. CASE Execute
  <2>1. TypeOK' /\ Unsent' /\ FieldsParsed'
    BY <1>0, <1>1 DEF Execute, TypeOK, Unsent, FieldsParsed, Over, response
  <2> QED
    BY <1>0, <1>1, <2>1, UnsettledStep DEF Execute, Unsent, response
<1>2. CASE Abort
  <2>1. TypeOK' /\ Unsent' /\ FieldsParsed'
    BY <1>0, <1>2 DEF Abort, TypeOK, Unsent, FieldsParsed, Over, response, client
  <2>2. pc \notin {"settled", "rejected"}
    BY <1>2 DEF Abort
  <2> QED
    BY <1>0, <1>2, <2>1, <2>2, UnsettledStep DEF Abort, response, client
<1>3. ASSUME NEW new \in Credentials, SetCredential(new) PROVE Inv'
  <2>1. TypeOK' /\ Unsent' /\ FieldsParsed'
    BY <1>0, <1>3 DEF SetCredential, TypeOK, Unsent, FieldsParsed, Over, response
  <2>2. had \subseteq had' /\ pc \in {"made", "called", "url"}
    BY <1>3 DEF SetCredential
  <2> QED
    BY <1>0, <1>3, <2>1, <2>2, UnsettledStep DEF SetCredential, Unsent, response
<1>4. CASE OnQueryURL
  <2>1. TypeOK' /\ Unsent' /\ FieldsParsed'
    BY <1>0, <1>4 DEF OnQueryURL, TypeOK, Unsent, FieldsParsed, Over, response, client
  <2> QED
    BY <1>0, <1>4, <2>1, UnsettledStep DEF OnQueryURL, Unsent, response, client
<1>5. CASE Send
  <2>1. TypeOK' /\ Unsent' /\ FieldsParsed'
    BY <1>0, <1>5 DEF Send, TypeOK, Unsent, FieldsParsed, Over, response, client
  <2>2. pc' = "rejected" => request' = Nothing
    BY <1>0, <1>5 DEF Send, Unsent
  <2>3. pc = "url" /\ pc' # "settled" /\ Over("http") /\ credential \in had
        /\ UNCHANGED <<call, constructed, credential, had>>
        /\ (request' = request \/ request' = makeAuthHeaders(credential))
    BY <1>0, <1>5 DEF Send, Unsent, client
  <2> QED
    BY <1>0, <2>1, <2>2, <2>3, UnsettledStep
<1>6. CASE Query
  <2>1. TypeOK' /\ Unsent' /\ FieldsParsed'
    BY <1>0, <1>6 DEF Query, TypeOK, Unsent, FieldsParsed, Over, response, client
  <2>2. ~Over("http")
    BY <1>6 DEF Query, Over
  <2> QED
    BY <1>0, <1>6, <2>1, <2>2, UnsettledStep DEF Query, connectionOptions, client
<1>7. CASE OnFetchRejected
  <2>1. PICK name \in {"AbortError", "TypeError"}, cause \in {"abort", "network"} :
            Settle(Error("network", name, cause))
    BY <1>7 DEF OnFetchRejected
  <2>2. pc = "fetching" /\ UNCHANGED <<client, aborted, listening, request, response>>
    BY <1>7 DEF OnFetchRejected
  <2>3. status' \in {"none", "ok", "not ok", "error"} /\ UNCHANGED <<header, fields, body>>
    BY <1>0, <2>2 DEF TypeOK, response
  <2> DEFINE outcome == Error("network", name, cause)
  <2>4. outcome \in Outcomes /\ Exclusive(outcome) /\ outcome.response = Nothing
    BY OutcomeOfError
  <2>5. Settle(outcome)
    BY <2>1
  <2> HIDE DEF outcome
  <2> QED
    BY <1>0, <2>2, <2>3, <2>4, <2>5, ErrorStep
<1>8. CASE OnBodyRejected
  <2>1. PICK cause \in {"abort", "network"} : Settle(Error("unknown", Nothing, cause))
    BY <1>8 DEF OnBodyRejected
  <2>2. pc = "reading" /\ UNCHANGED <<client, aborted, listening, request, response>>
    BY <1>8 DEF OnBodyRejected
  <2>3. status' \in {"none", "ok", "not ok", "error"} /\ UNCHANGED <<header, fields, body>>
    BY <1>0, <2>2 DEF TypeOK, response
  <2> DEFINE outcome == Error("unknown", Nothing, cause)
  <2>4. outcome \in Outcomes /\ Exclusive(outcome) /\ outcome.response = Nothing
    BY OutcomeOfError
  <2>5. Settle(outcome)
    BY <2>1
  <2> HIDE DEF outcome
  <2> QED
    BY <1>0, <2>2, <2>3, <2>4, <2>5, ErrorStep
<1>9. CASE OnPostgresError
  <2>1. pc = "fetching" /\ Settle(Error(Nothing, Nothing, "postgres"))
        /\ UNCHANGED <<client, aborted, listening, request, response>>
    BY <1>9 DEF OnPostgresError
  <2>2. status' \in {"none", "ok", "not ok", "error"} /\ UNCHANGED <<header, fields, body>>
    BY <1>0, <2>1 DEF TypeOK, response
  <2> DEFINE outcome == Error(Nothing, Nothing, "postgres")
  <2>3. outcome \in Outcomes /\ Exclusive(outcome) /\ outcome.response = Nothing
    BY OutcomeOfError
  <2>4. Settle(outcome)
    BY <2>1
  <2> HIDE DEF outcome
  <2> QED
    BY <1>0, <2>1, <2>2, <2>3, <2>4, ErrorStep
<1>10. CASE OnResponse
  <2>1. /\ pc = "fetching" /\ Over("http")
        /\ UNCHANGED <<client, aborted, listening, request, body>>
    BY <1>10 DEF OnResponse
  <2>2. CASE status' \in {"error", "not ok"}
    <3>1. PICK type \in {"unknown", "response-not-ok"} :
              Settle(Error(type, Nothing, "status")) /\ UNCHANGED <<header, fields>>
      BY <1>10, <2>2 DEF OnResponse
    <3> DEFINE outcome == Error(type, Nothing, "status")
    <3>2. outcome \in Outcomes /\ Exclusive(outcome) /\ outcome.response = Nothing
      BY OutcomeOfError
    <3>3. Settle(outcome)
      BY <3>1
    <3> HIDE DEF outcome
    <3> QED
      BY <1>0, <2>1, <2>2, <3>1, <3>2, <3>3, ErrorStep
  <2>3. CASE status' = "ok"
    <3>1. /\ pc' = "reading" /\ UNCHANGED result /\ header' \in Headers
          /\ fields' = parseFieldsFromResponse(call.options, header')
      BY <1>10, <2>3 DEF OnResponse
    <3>2. fields' \in FieldLists
      BY <3>1, FieldsOfHeader
    <3>3. TypeOK'
      BY <1>0, <2>1, <2>3, <3>1, <3>2 DEF TypeOK, client
    <3>4. Unsent' /\ FieldsParsed'
      BY <2>1, <2>3, <3>1 DEF Unsent, FieldsParsed, Over, client
    <3> QED
      BY <1>0, <2>1, <3>1, <3>3, <3>4, UnsettledStep DEF client
  <2> QED
    BY <1>10, <2>2, <2>3 DEF OnResponse
<1>11. CASE OnBody
  <2>1. /\ pc = "reading" /\ Over("http") /\ status = "ok"
        /\ body' \in Bodies
        /\ Settle(IF call.options.bodyMode = "jsonl" THEN ReadJSONLines(body'.lines)
                  ELSE ReadJSON(body'.lines, body'.fields))
        /\ header \in Headers /\ fields = parseFieldsFromResponse(call.options, header)
        /\ UNCHANGED <<client, aborted, listening, request, status, header, fields>>
    BY <1>0, <1>11 DEF OnBody, Unsent, FieldsParsed
  <2>2. /\ body'.lines \in SeqOf(Lines, MaxLines) /\ body'.fields \in {Nothing, Listed}
        /\ fields \in FieldLists /\ call.options \in HttpOptions
    BY <1>0, <2>1 DEF Bodies, TypeOK, Calls, Over
  <2>3. /\ status' \in {"none", "ok", "not ok", "error"} /\ status' = "ok"
        /\ header' = header /\ header' \in Headers \cup {Nothing}
        /\ fields' \in FieldLists /\ body' \in Bodies \cup {Nothing}
    BY <1>0, <2>1 DEF TypeOK
  <2>4. PICK outcome :
          /\ Settle(outcome) /\ outcome \in Outcomes /\ Exclusive(outcome)
          /\ Whole(outcome, body'.lines) /\ Tells(outcome, header, body'.fields)
    <3>1. CASE call.options.bodyMode = "jsonl"
      <4>1. Settle(ReadJSONLines(body'.lines))
        BY <2>1, <3>1
      <4> QED
        BY <2>1, <2>2, <3>1, <4>1, ReadingIsWhole, ReadingTells
    <3>2. CASE call.options.bodyMode # "jsonl"
      <4>1. Settle(ReadJSON(body'.lines, body'.fields))
        BY <2>1, <3>2
      <4> QED
        BY <2>1, <2>2, <3>2, <4>1, ReadingIsWhole, ReadingTells
    <3> QED
      BY <3>1, <3>2
  <2> QED
    BY <1>0, <2>1, <2>3, <2>4, SettledStep
<1>12. CASE OnRows
  <2>1. /\ pc = "fetching" /\ ~Over("http")
        /\ body' \in [lines : SeqOf({"row"}, MaxLines), fields : {Nothing}]
        /\ Settle(Response([rows |-> body'.lines, fields |-> << >>]))
        /\ UNCHANGED <<client, aborted, listening, request, status, header, fields>>
    BY <1>12 DEF OnRows, Over
  <2>2. body'.lines \in SeqOf(Lines, MaxLines) /\ body' \in Bodies
    <3>1. SeqOf({"row"}, MaxLines) \subseteq SeqOf(Lines, MaxLines)
      BY DEF SeqOf, Lines
    <3> QED
      BY <2>1, <3>1 DEF Bodies
  <2>3. body'.lines \in RowLists /\ << >> \in FieldLists
    BY <2>2 DEF RowLists, FieldLists
  <2> DEFINE outcome == Response([rows |-> body'.lines, fields |-> << >>])
  <2>4. /\ outcome \in Outcomes /\ Exclusive(outcome) /\ Settle(outcome)
        /\ outcome.response # Nothing => outcome.response.rows = body'.lines
    BY <2>1, <2>3, OutcomeOfResponse
  <2>5. /\ status' \in {"none", "ok", "not ok", "error"} /\ header' \in Headers \cup {Nothing}
        /\ fields' \in FieldLists /\ body' \in Bodies \cup {Nothing}
    BY <1>0, <2>1, <2>2 DEF TypeOK
  <2> HIDE DEF outcome
  <2> QED
    BY <1>0, <2>1, <2>4, <2>5, SettledStep
<1>13. CASE UNCHANGED vars
  <2>0. UNCHANGED <<call, constructed, credential, had, pc, aborted, listening, request,
                    status, header, fields, body, result>>
    BY <1>13 DEF vars, client, response
  <2>1. TypeOK' /\ Unsent' /\ FieldsParsed'
    <3>1. TypeOK'
      BY ZenonT(60), <1>0, <2>0 DEF TypeOK
    <3>2. Unsent' /\ FieldsParsed'
      BY <1>0, <2>0 DEF Unsent, FieldsParsed, Over
    <3> QED
      BY <3>1, <3>2
  <2>3. SpeaksForClient' /\ ErrorsAreValues'
    BY <1>0, <1>13 DEF vars, client, IInv, SpeaksForClient, ErrorsAreValues, Over
  <2>2. ResponsesAreWhole' /\ FieldsTellColumns'
    BY <1>13 DEF vars, client, response, Inv, ResponsesAreWhole, FieldsTellColumns, Over
  <2> QED
    BY <2>1, <2>2, <2>3 DEF Inv, IInv
<1> QED
  BY <1>1, <1>2, <1>3, <1>4, <1>5, <1>6, <1>7, <1>8, <1>9, <1>10, <1>11, <1>12, <1>13
  DEF Next, Done

LEMMA Invariant == Spec => []Inv
  BY InitInv, NextInv, PTL DEF Spec

(* The inductive invariant of a call, for any columns and lengths.         *)
THEOREM Inductive == Spec => []IInv
<1>1. Inv => IInv
  BY DEF Inv
<1> QED
  BY <1>1, Invariant, PTL

(* A call speaks for a credential its client had while execute ran, over   *)
(* Postgres for the one it was made with.                                  *)
THEOREM CallSpeaksForClient == Spec => []SpeaksForClient
<1>1. Inv => SpeaksForClient
  BY DEF Inv, IInv
<1> QED
  BY <1>1, Invariant, PTL

(* execute rejects only before it sends, and settles with a response or an *)
(* error, never with both or neither.                                      *)
THEOREM ExecuteSettlesWithValues == Spec => []ErrorsAreValues
<1>1. Inv => ErrorsAreValues
  BY DEF Inv, IInv
<1> QED
  BY <1>1, Invariant, PTL

(* A response holds every row of an ok answer's body, and over HTTP none   *)
(* in the one case the code allows.                                        *)
THEOREM WholeResponses == Spec => []ResponsesAreWhole
<1>1. Inv => ResponsesAreWhole
  BY DEF Inv
<1> QED
  BY <1>1, Invariant, PTL

(* The fields of a response number the columns of the schema, and columns  *)
(* of different Seafowl types, or that differ in being nullable, are shown *)
(* with different types, for any columns.                                  *)
THEOREM ColumnsTold == Spec => []FieldsTellColumns
<1>1. Inv => FieldsTellColumns
  BY DEF Inv
<1> QED
  BY <1>1, Invariant, PTL

(* The type invariant of a call.                                           *)
THEOREM TypeCorrect == Spec => []TypeOK
<1>1. Inv => TypeOK
  BY DEF Inv, IInv
<1> QED
  BY <1>1, Invariant, PTL
=============================================================================
