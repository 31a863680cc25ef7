------------------------ MODULE SeafowlContextProofs ------------------------
(***************************************************************************)
(* Proofs about SeafowlContext, for any calls, tables, secrets, queries    *)
(* and lists of plugins: its imports first, then its queries, with what    *)
(* they need of SeafowlQuery.                                              *)
(***************************************************************************)
EXTENDS SeafowlContext, WellFoundedInduction, SequenceTheorems, TLAPS

(* The part of the type invariant that the imports need.                   *)
CallFields == {"pc", "table", "query", "headers", "mountError", "error", "success", "answered"}
Shape ==
    /\ calls = [c \in Calls |-> calls[c]]
    /\ \A c \in Calls : calls[c] = [f \in CallFields |-> calls[c][f]]
    /\ staging \in [Tables -> Calls \cup {None}]
    /\ created \in [Calls -> Calls \cup {None}]
    /\ carried \in [Calls -> SUBSET (Secrets \cup {None})]
    /\ current \in Secrets \cup {None} /\ client \in Secrets \cup {None}
    /\ \A c \in Calls : calls[c].headers \in Secrets \cup {None}

Inv == Shape /\ IInv

LEMMA InitInv == Init => Inv
<1> SUFFICES ASSUME Init PROVE Inv
  OBVIOUS
<1>1. /\ calls = [c \in Calls |-> NoCall] /\ staging = [t \in Tables |-> None]
      /\ created = [c \in Calls |-> None] /\ carried = [c \in Calls |-> {}]
  BY DEF Init
<1>2. /\ NoCall = [f \in CallFields |-> NoCall[f]] /\ NoCall.pc = "idle"
      /\ NoCall.headers = None
  BY DEF NoCall, CallFields
<1>3. current \in Secrets \cup {None} /\ client \in Secrets \cup {None}
  <2>1. PICK opts \in ContextOptions : /\ current = SecretOf(DbCredential(opts))
                                       /\ client = SecretOf(ClientCredential(opts))
    BY DEF Init
  <2>2. \A cred \in CredentialOptions \cup Authenticated \cup {None} :
            SecretOf(cred) \in Secrets \cup {None}
    BY DEF SecretOf, CredentialOptions, Authenticated
  <2>3. /\ DbCredential(opts) \in CredentialOptions \cup Authenticated \cup {None}
        /\ ClientCredential(opts) \in CredentialOptions \cup Authenticated \cup {None}
    BY DEF ContextOptions, DbCredential, ClientCredential, Either
  <2> QED
    BY <2>1, <2>2, <2>3
<1>4. Shape
  BY <1>1, <1>2, <1>3 DEF Shape
<1>5. IInv
  BY <1>1, <1>2 DEF IInv, Staged, CreatedFromStaged, OwnsStagingUnlessTold, SilentAtFirst,
                    NoErrorIsLoaded, LoadsOwnFile, SpeaksForOne
<1> QED
  BY <1>4, <1>5 DEF Inv


(* A call that is idle begins: as a query, as an import, or at its end.    *)
LEMMA BeginStep ==
    ASSUME Inv, NEW c \in Calls, calls[c].pc = "idle",
           NEW record, calls' = [calls EXCEPT ![c] = record],
           record = [f \in CallFields |-> record[f]],
           record.pc \in {"querying", "mounting", "delegated", "threw", "returned"},
           record.pc = "returned" => record.error # None,
           record.pc = "mounting" => record.table \in Tables,
           record.headers \in Secrets \cup {None},
           UNCHANGED <<plugins, current, client, carried, service>>
    PROVE  Inv'
<1>1. /\ calls'[c] = record /\ calls' = [d \in Calls |-> calls'[d]]
      /\ \A d \in Calls : d # c => calls'[d] = calls[d]
  BY DEF Inv, Shape
<1>2. /\ UNCHANGED <<current, client, carried, staging, created, restarted>>
  BY DEF service
<1>3. Shape'
  BY <1>1, <1>2 DEF Inv, Shape
<1>4. /\ \A t \in Tables : staging[t] # c
      /\ created[c] = None /\ \A d \in Calls : created[d] # c
      /\ carried[c] = {}
  BY ContextAssumption DEF Inv, IInv, Staged, CreatedFromStaged, SilentAtFirst
<1>5. \A t \in Tables : staging[t] # None => staging[t] \in Calls
  BY DEF Inv, Shape
<1>6. \A d \in Calls : created[d] # None => created[d] \in Calls
  BY DEF Inv, Shape
<1>7. Staged' /\ CreatedFromStaged'
  BY <1>1, <1>2, <1>4, <1>5, <1>6 DEF Inv, IInv, Staged, CreatedFromStaged
<1>8. OwnsStagingUnlessTold' /\ SilentAtFirst'
  BY <1>1, <1>2, <1>4 DEF Inv, IInv, OwnsStagingUnlessTold, SilentAtFirst
<1>9. NoErrorIsLoaded' /\ LoadsOwnFile'
  BY <1>1, <1>2, <1>4, <1>6 DEF Inv, IInv, NoErrorIsLoaded, LoadsOwnFile
<1>10. SpeaksForOne'
  BY <1>1, <1>2, <1>4 DEF Inv, IInv, SpeaksForOne
<1> QED
  BY <1>3, <1>7, <1>8, <1>9, <1>10 DEF Inv, IInv

(* A call goes on: its table, its credential and what it created are as    *)
(* they were, and it is not idle.                                          *)
Continues(c, record) ==
    /\ calls' = [calls EXCEPT ![c] = record]
    /\ record = [f \in CallFields |-> record[f]]
    /\ record.table = calls[c].table /\ record.headers = calls[c].headers
    /\ calls[c].pc # "idle" /\ record.pc \notin {"idle", "querying"}

LEMMA ContinuesFacts ==
    ASSUME Inv, NEW c \in Calls, NEW record, Continues(c, record)
    PROVE  /\ calls'[c] = record /\ calls' = [d \in Calls |-> calls'[d]]
           /\ \A d \in Calls : d # c => calls'[d] = calls[d]
           /\ \A d \in Calls : calls'[d].table = calls[d].table
           /\ \A d \in Calls : calls'[d].headers = calls[d].headers
           /\ \A d \in Calls : calls[d].pc # "idle" => calls'[d].pc # "idle"
           /\ \A d \in Calls : calls'[d] = [f \in CallFields |-> calls'[d][f]]
<1>1. calls'[c] = record /\ calls' = [d \in Calls |-> calls'[d]]
  BY DEF Inv, Shape, Continues
<1>2. \A d \in Calls : d # c => calls'[d] = calls[d]
  BY DEF Inv, Shape, Continues
<1>3. \A d \in Calls : calls[d] = [f \in CallFields |-> calls[d][f]]
  BY DEF Inv, Shape
<1> QED
  BY <1>1, <1>2, <1>3 DEF Continues

(* The ranges of the tables.                                               *)
LEMMA Ranges ==
    ASSUME Inv
    PROVE  /\ \A t \in Tables : staging[t] \in Calls \cup {None}
           /\ \A d \in Calls : created[d] \in Calls \cup {None}
           /\ None \notin Calls /\ None # "error"
BY ContextAssumption DEF Inv, Shape

(* The answer to a query of the context's client.                          *)
LEMMA AnswerQueryStep == ASSUME Inv, NEW c \in Calls, AnswerQuery(c) PROVE Inv'
<1> DEFINE query    == calls[c].query
           url      == makeQueryURL(query)
           request  == makeFetchOptions(query, AuthHeaders(client))
           hits     == {entry \in cache : Cacheable(request.method, url) /\ entry.url = url}
           answered == IF hits = {} THEN request.text ELSE (CHOOSE entry \in hits : TRUE).text
           record   == [calls[c] EXCEPT !.pc = "answered", !.answered = answered]
<1>1. /\ calls[c].pc = "querying" /\ calls' = [calls EXCEPT ![c] = record]
      /\ carried' = [carried EXCEPT ![c] = @ \cup {request.headers}]
      /\ UNCHANGED <<plugins, current, client, staging, tables, created, restarted>>
  BY DEF AnswerQuery
<1>2. request.headers = client
  BY DEF makeFetchOptions, AuthHeaders
<1> HIDE DEF request, answered
<1>3. Continues(c, record) /\ record.pc = "answered"
  <2>1. calls[c] = [f \in CallFields |-> calls[c][f]]
    BY DEF Inv, Shape
  <2> QED
    BY <1>1, <2>1 DEF Continues, CallFields
<1> HIDE DEF record
<1>f. /\ calls'[c] = record /\ \A d \in Calls : d # c => calls'[d] = calls[d]
      /\ \A d \in Calls : calls'[d].table = calls[d].table
      /\ \A d \in Calls : calls'[d].headers = calls[d].headers
      /\ \A d \in Calls : calls[d].pc # "idle" => calls'[d].pc # "idle"
      /\ record.pc \notin {"idle", "querying"} /\ calls[c].pc # "idle"
      /\ record.table = calls[c].table /\ record.headers = calls[c].headers
  BY <1>3, ContinuesFacts DEF Continues
<1>4. carried[c] = {} /\ carried' = [carried EXCEPT ![c] = {client}]
  BY <1>1, <1>2 DEF Inv, IInv, SilentAtFirst, Shape
<1>5. Shape'
  <2>1. carried' \in [Calls -> SUBSET (Secrets \cup {None})]
    BY <1>4 DEF Inv, Shape
  <2>2. \A d \in Calls : calls'[d].headers \in Secrets \cup {None}
    BY <1>f DEF Inv, Shape
  <2> QED
    BY <2>1, <2>2, <1>1, <1>3, ContinuesFacts DEF Inv, Shape
<1>6. Staged' /\ CreatedFromStaged'
  BY <1>1, <1>3, <1>f, Ranges DEF Inv, IInv, Staged, CreatedFromStaged
<1>7. OwnsStagingUnlessTold' /\ SilentAtFirst'
  BY <1>1, <1>3, <1>4, <1>f, Ranges
  DEF Inv, IInv, OwnsStagingUnlessTold, SilentAtFirst
<1>8. NoErrorIsLoaded' /\ LoadsOwnFile'
  BY <1>1, <1>3, <1>f, Ranges DEF Inv, IInv, NoErrorIsLoaded, LoadsOwnFile
<1>9. SpeaksForOne'
  BY <1>1, <1>3, <1>4, <1>f, Ranges DEF Inv, IInv, SpeaksForOne, AuthHeaders
<1> QED
  BY <1>5, <1>6, <1>7, <1>8, <1>9 DEF Inv, IInv

(* The first statement: without an error the staging table is the call's.  *)
LEMMA MountStep == ASSUME Inv, NEW c \in Calls, Mount(c) PROVE Inv'
<1> DEFINE t == calls[c].table
<1>1. /\ calls[c].pc = "mounting"
      /\ carried' = [carried EXCEPT ![c] = @ \cup {calls[c].headers}]
      /\ UNCHANGED <<plugins, current, client, cache, tables, created, restarted>>
  BY DEF Mount
<1>2. PICK answer \in Errors :
          /\ calls' = [calls EXCEPT ![c].pc = "loading", ![c].mountError = answer]
          /\ \/ staging[t] = None /\ staging' = [staging EXCEPT ![t] = c]
             \/ answer = "error" /\ UNCHANGED staging
  BY DEF Mount
<1> DEFINE record == [calls[c] EXCEPT !.pc = "loading", !.mountError = answer]
<1>3. Continues(c, record) /\ record.pc = "loading" /\ record.mountError = answer
  <2>1. calls[c] = [f \in CallFields |-> calls[c][f]]
    BY DEF Inv, Shape
  <2>2. calls' = [calls EXCEPT ![c] = record]
    BY <1>2
  <2>3. record = [f \in CallFields |-> record[f]]
    BY <2>1 DEF CallFields
  <2> QED
    BY <1>1, <2>1, <2>2, <2>3 DEF Continues, CallFields
<1> HIDE DEF record
<1>f. /\ calls'[c] = record /\ \A d \in Calls : d # c => calls'[d] = calls[d]
      /\ \A d \in Calls : calls'[d].table = calls[d].table
      /\ \A d \in Calls : calls'[d].headers = calls[d].headers
      /\ \A d \in Calls : calls[d].pc # "idle" => calls'[d].pc # "idle"
      /\ record.pc \notin {"idle", "querying"} /\ calls[c].pc # "idle"
      /\ record.table = calls[c].table /\ record.headers = calls[c].headers
  BY <1>3, ContinuesFacts DEF Continues
<1>4. t \in Tables /\ calls[c].headers \in Secrets \cup {None}
  BY <1>1 DEF Inv, IInv, SilentAtFirst, Shape
<1>5. /\ staging' \in [Tables -> Calls \cup {None}]
      /\ \A u \in Tables : staging'[u] = staging[u] \/ (u = t /\ staging'[u] = c)
      /\ \A u \in Tables : staging[u] # None => staging'[u] = staging[u]
      /\ answer = None => staging'[t] = c
  BY ZenonT(60), <1>2, <1>4, ContextAssumption DEF Inv, Shape
<1>6. Shape'
  BY <1>1, <1>3, <1>4, <1>5, ContinuesFacts DEF Inv, Shape
<1>7. Staged'
  BY <1>1, <1>3, <1>5, <1>f, Ranges DEF Inv, IInv, Staged
<1>8. CreatedFromStaged'
  BY <1>1, <1>3, <1>f, Ranges DEF Inv, IInv, CreatedFromStaged
<1>9. OwnsStagingUnlessTold'
  <2>1. ASSUME NEW d \in Calls, d # c, calls'[d].pc = "loading", calls'[d].mountError = None,
               ~restarted'
        PROVE  staging'[calls'[d].table] = d
    <3>1. calls'[d] = calls[d] /\ calls[d].table \in Tables
      BY <2>1, <1>3, <1>f, Ranges DEF Inv, IInv, SilentAtFirst
    <3>2. staging[calls[d].table] = d /\ d # None
      BY <2>1, <3>1, <1>1, ContextAssumption DEF Inv, IInv, OwnsStagingUnlessTold
    <3> QED
      BY <3>1, <3>2, <1>5
  <2>2. calls'[c].mountError = None => staging'[calls'[c].table] = c
    BY <1>3, <1>5, <1>f, Ranges
  <2> QED
    BY <2>1, <2>2 DEF OwnsStagingUnlessTold
<1>10. SilentAtFirst'
  BY <1>1, <1>3, <1>4, <1>f, Ranges DEF Inv, IInv, SilentAtFirst
<1>11. NoErrorIsLoaded' /\ LoadsOwnFile'
  BY <1>1, <1>3, <1>f, Ranges DEF Inv, IInv, NoErrorIsLoaded, LoadsOwnFile
<1>12. SpeaksForOne'
  BY <1>1, <1>3, <1>f, Ranges DEF Inv, IInv, SpeaksForOne
<1> QED
  BY <1>6, <1>7, <1>8, <1>9, <1>10, <1>11, <1>12 DEF Inv, IInv

(* The second statement: without an error the table is created, from what  *)
(* the staging table holds.                                                *)
LEMMA LoadStep == ASSUME Inv, NEW c \in Calls, Load(c) PROVE Inv'
<1> DEFINE t == calls[c].table
<1>1. /\ calls[c].pc = "loading"
      /\ carried' = [carried EXCEPT ![c] = @ \cup {calls[c].headers}]
      /\ UNCHANGED <<plugins, current, client, cache, staging, restarted>>
  BY DEF Load, ClientHeaders
<1>2. PICK answer \in Errors :
          /\ calls' = [calls EXCEPT ![c].pc = "returned", ![c].error = answer,
                                   ![c].success = TRUE]
          /\ \/ staging[t] # None /\ created' = [created EXCEPT ![c] = staging[t]]
             \/ answer = "error" /\ UNCHANGED created
  BY DEF Load, Returned
<1> DEFINE record == [calls[c] EXCEPT !.pc = "returned", !.error = answer, !.success = TRUE]
<1>3. /\ Continues(c, record) /\ record.pc = "returned" /\ record.error = answer
      /\ record.mountError = calls[c].mountError
  <2>1. calls[c] = [f \in CallFields |-> calls[c][f]]
    BY DEF Inv, Shape
  <2>2. calls' = [calls EXCEPT ![c] = record]
    BY <1>2
  <2>3. record = [f \in CallFields |-> record[f]]
    BY <2>1 DEF CallFields
  <2> QED
    BY <1>1, <2>1, <2>2, <2>3 DEF Continues, CallFields
<1> HIDE DEF record
<1>f. /\ calls'[c] = record /\ \A d \in Calls : d # c => calls'[d] = calls[d]
      /\ \A d \in Calls : calls'[d].table = calls[d].table
      /\ \A d \in Calls : calls'[d].headers = calls[d].headers
      /\ \A d \in Calls : calls[d].pc # "idle" => calls'[d].pc # "idle"
      /\ record.pc \notin {"idle", "querying"} /\ calls[c].pc # "idle"
      /\ record.table = calls[c].table /\ record.headers = calls[c].headers
  BY <1>3, ContinuesFacts DEF Continues
<1>4. t \in Tables /\ calls[c].headers \in Secrets \cup {None}
  BY <1>1 DEF Inv, IInv, SilentAtFirst, Shape
<1>5. staging[t] # None => /\ staging[t] \in Calls /\ calls[staging[t]].pc # "idle"
                           /\ calls[staging[t]].table = t
  BY <1>4 DEF Inv, IInv, Staged, Shape
<1>6. /\ created' \in [Calls -> Calls \cup {None}]
      /\ \A d \in Calls : d # c => created'[d] = created[d]
      /\ created'[c] = created[c] \/ (created'[c] = staging[t] /\ staging[t] # None)
      /\ answer = None => created'[c] = staging[t] /\ staging[t] # None
  BY <1>2, <1>5, ContextAssumption DEF Inv, Shape
<1>7. Shape'
  BY <1>1, <1>3, <1>4, <1>6, ContinuesFacts DEF Inv, Shape
<1>8. Staged'
  BY <1>1, <1>3, <1>f, Ranges DEF Inv, IInv, Staged
<1>9. CreatedFromStaged'
  BY <1>1, <1>3, <1>5, <1>6, <1>f, Ranges DEF Inv, IInv, CreatedFromStaged
<1>10. OwnsStagingUnlessTold' /\ SilentAtFirst'
  BY <1>1, <1>3, <1>f, Ranges DEF Inv, IInv, OwnsStagingUnlessTold, SilentAtFirst
<1>11. NoErrorIsLoaded'
  BY <1>1, <1>3, <1>5, <1>6, <1>f, Ranges DEF Inv, IInv, NoErrorIsLoaded
<1>12. LoadsOwnFile'
  BY <1>1, <1>3, <1>6, <1>f, Ranges DEF Inv, IInv, LoadsOwnFile, OwnsStagingUnlessTold
<1>13. SpeaksForOne'
  BY <1>1, <1>3, <1>f, Ranges DEF Inv, IInv, SpeaksForOne
<1> QED
  BY <1>7, <1>8, <1>9, <1>10, <1>11, <1>12, <1>13 DEF Inv, IInv

LEMMA OnRejectedStep == ASSUME Inv, NEW c \in Calls, OnRejected(c) PROVE Inv'
<1> DEFINE record == [calls[c] EXCEPT !.pc = "threw"]
<1>1. /\ calls[c].pc \in {"mounting", "loading"}
      /\ calls' = [calls EXCEPT ![c] = record]
      /\ UNCHANGED <<plugins, current, client, carried, staging, created, restarted>>
  BY DEF OnRejected, service
<1>2. Continues(c, record) /\ record.pc = "threw"
  BY ZenonT(60), <1>1 DEF Inv, Shape, Continues, CallFields
<1> HIDE DEF record
<1>f. /\ calls'[c] = record /\ \A d \in Calls : d # c => calls'[d] = calls[d]
      /\ \A d \in Calls : calls'[d].table = calls[d].table
      /\ \A d \in Calls : calls'[d].headers = calls[d].headers
      /\ \A d \in Calls : calls[d].pc # "idle" => calls'[d].pc # "idle"
      /\ record.pc \notin {"idle", "querying"} /\ calls[c].pc # "idle"
      /\ record.table = calls[c].table /\ record.headers = calls[c].headers
  BY <1>2, ContinuesFacts DEF Continues
<1>3. Shape'
  BY <1>1, <1>2, ContinuesFacts DEF Inv, Shape
<1>4. Staged' /\ CreatedFromStaged'
  BY <1>1, <1>2, <1>f, Ranges DEF Inv, IInv, Staged, CreatedFromStaged
<1>5. OwnsStagingUnlessTold' /\ SilentAtFirst' /\ NoErrorIsLoaded' /\ LoadsOwnFile'
  BY <1>1, <1>2, <1>f, Ranges
  DEF Inv, IInv, OwnsStagingUnlessTold, SilentAtFirst, NoErrorIsLoaded, LoadsOwnFile
<1>6. SpeaksForOne'
  BY <1>1, <1>2, <1>f, Ranges DEF Inv, IInv, SpeaksForOne
<1> QED
  BY <1>3, <1>4, <1>5, <1>6 DEF Inv, IInv

(* A restart of Seafowl empties the staging tables and excuses the mounts. *)
LEMMA RestartStep == ASSUME Inv, Restart PROVE Inv'
<1>1. /\ staging' = [t \in Tables |-> None] /\ restarted'
      /\ UNCHANGED <<plugins, current, client, calls, created, carried>>
  BY DEF Restart
<1>2. Shape'
  BY <1>1 DEF Inv, Shape
<1>3. IInv'
  BY <1>1 DEF Inv, IInv, Staged, CreatedFromStaged, OwnsStagingUnlessTold, SilentAtFirst,
              NoErrorIsLoaded, LoadsOwnFile, SpeaksForOne, AuthHeaders
<1> QED
  BY <1>2, <1>3 DEF Inv

(* The steps that none of the properties look at.                          *)
LEMMA OtherStep ==
    ASSUME Inv, UNCHANGED <<client, calls, staging, created, carried, restarted>>,
           current' \in Secrets \cup {None}
    PROVE  Inv'
<1>1. Shape'
  BY DEF Inv, Shape
<1>2. IInv'
  BY DEF Inv, IInv, Staged, CreatedFromStaged, OwnsStagingUnlessTold, SilentAtFirst,
         NoErrorIsLoaded, LoadsOwnFile, SpeaksForOne, AuthHeaders
<1> QED
  BY <1>1, <1>2 DEF Inv

LEMMA NextInv == Inv /\ [Next]_vars => Inv'
<1> SUFFICES ASSUME Inv, [Next]_vars PROVE Inv'
  OBVIOUS
<1>0. \A c \in Calls : /\ calls[c] = [f \in CallFields |-> calls[c][f]]
                       /\ calls[c].headers \in Secrets \cup {None}
                       /\ current \in Secrets \cup {None}
  BY DEF Inv, Shape
<1>1. ASSUME NEW c \in Calls, NEW query \in Queries, ExecuteQuery(c, query) PROVE Inv'
  <2> DEFINE record == [calls[c] EXCEPT !.pc = "querying", !.query = query]
  <2>1. calls[c].pc = "idle" /\ calls' = [calls EXCEPT ![c] = record]
        /\ UNCHANGED <<plugins, current, client, carried, service>>
    BY <1>1 DEF ExecuteQuery
  <2>2. record = [f \in CallFields |-> record[f]] /\ record.pc = "querying"
        /\ record.headers \in Secrets \cup {None}
    BY <1>0 DEF CallFields
  <2> HIDE DEF record
  <2> QED
    BY <2>1, <2>2, BeginStep
<1>2. ASSUME NEW c \in Calls, NEW t \in Tables, ImportData(c, t) PROVE Inv'
  <2> DEFINE pc == CASE PluginToImport = "file"  -> "mounting"
                     [] PluginToImport \in {"other", "literal"} -> "delegated"
                     [] OTHER -> "threw"
             record == [calls[c] EXCEPT !.pc = pc, !.table = t, !.headers = current]
  <2>1. calls[c].pc = "idle" /\ calls' = [calls EXCEPT ![c] = record]
        /\ UNCHANGED <<plugins, current, client, carried, service>>
    BY <1>2 DEF ImportData, AuthHeaders
  <2>2. pc \in {"mounting", "delegated", "threw"}
    OBVIOUS
  <2> HIDE DEF pc
  <2>3. record = [f \in CallFields |-> record[f]] /\ record.pc = pc /\ record.table = t
        /\ record.headers \in Secrets \cup {None}
    BY <1>0 DEF CallFields
  <2> HIDE DEF record
  <2> QED
    BY <2>1, <2>2, <2>3, BeginStep
<1>3. ASSUME NEW c \in Calls, ExportData(c) PROVE Inv'
  <2> DEFINE record == [calls[c] EXCEPT !.pc = "returned", !.error = "error"]
  <2>1. calls[c].pc = "idle" /\ calls' = [calls EXCEPT ![c] = record]
        /\ UNCHANGED <<plugins, current, client, carried, service>>
    BY <1>3 DEF ExportData
  <2>2. record = [f \in CallFields |-> record[f]] /\ record.pc = "returned"
        /\ record.error = "error" /\ record.headers \in Secrets \cup {None}
    BY <1>0 DEF CallFields
  <2> HIDE DEF record
  <2> QED
    BY <2>1, <2>2, BeginStep, ContextAssumption
<1>4. ASSUME NEW secret \in Secrets, SetAuthenticatedCredential(secret) PROVE Inv'
  BY <1>4, OtherStep DEF SetAuthenticatedCredential, service
<1>5. ASSUME NEW t \in Tables, DropTable(t) PROVE Inv'
  BY <1>5, OtherStep DEF DropTable, Inv, Shape
<1>6. CASE Expire
  BY <1>6, OtherStep DEF Expire, Inv, Shape
<1>7. CASE UNCHANGED vars
  BY <1>7, OtherStep DEF vars, Inv, Shape
<1> QED
  BY <1>1, <1>2, <1>3, <1>4, <1>5, <1>6, <1>7, AnswerQueryStep, MountStep, LoadStep,
     OnRejectedStep, RestartStep DEF Next

(* The inductive invariant of the imports.                                 *)
THEOREM Inductive == Spec => []IInv
<1>1. Inv => IInv
  BY DEF Inv
<1> QED
  BY <1>1, InitInv, NextInv, PTL DEF Spec

(* An import without an error created its table from a file mounted for    *)
(* it, for any number of overlapping imports, lost answers and restarts.   *)
THEOREM NoErrorMeansLoaded == Spec => []NoErrorIsLoaded
<1>1. IInv => NoErrorIsLoaded
  BY DEF IInv
<1> QED
  BY <1>1, Inductive, PTL

(* With no error of either statement, and no restart, it is its own file.  *)
THEOREM OwnFileLoaded == Spec => []LoadsOwnFile
<1>1. IInv => LoadsOwnFile
  BY DEF IInv
<1> QED
  BY <1>1, Inductive, PTL

(* No call speaks for two accounts.                                        *)
THEOREM OneSecretPerCall == Spec => []SpeaksForOne
<1>1. IInv => SpeaksForOne
  BY DEF IInv
<1> QED
  BY <1>1, Inductive, PTL

-----------------------------------------------------------------------------
(* The order of the naturals is well-founded, as a relation.               *)
LEMMA NaturalsWellFounded ==
    \E R : IsWellFoundedOn(R, Nat) /\ (\A i, j \in Nat : i < j => <<i, j>> \in R)
<1>1. \A i, j \in Nat : i < j => <<i, j>> \in OpToRel(<, Nat)
  BY SMT DEF OpToRel
<1> QED
  BY <1>1, NatLessThanWellFounded, Zenon

(* Every set of naturals has a least element, and every one with a bound a *)
(* greatest, so Min and Max name what they should.                         *)
LEMMA LeastNatural ==
    ASSUME NEW S, S \subseteq Nat, S # {} PROVE \E n \in S : \A m \in S : n <= m
<1>1. PICK R : IsWellFoundedOn(R, Nat) /\ (\A i, j \in Nat : i < j => <<i, j>> \in R)
  BY NaturalsWellFounded, Zenon
<1>2. IsWellFoundedOn(R, Nat)
  BY <1>1
<1>3. \A i, j \in Nat : i < j => <<i, j>> \in R
  BY <1>1
<1>4. \E n \in S : \A m \in S : ~ (<<m, n>> \in R)
  BY <1>2, WFMin, Zenon
<1>5. PICK n \in S : \A m \in S : ~ (<<m, n>> \in R)
  BY <1>4
<1>6. \A m \in S : m \in Nat /\ n \in Nat /\ ~(m < n)
  BY <1>3, <1>5, Zenon
<1>7. \A m \in S : n <= m
  BY <1>6
<1> QED
  BY <1>5, <1>7

LEMMA MinOfNaturals ==
    ASSUME NEW S, S \subseteq Nat, S # {} PROVE Min(S) \in S /\ \A m \in S : Min(S) <= m
BY LeastNatural DEF Min

LEMMA MaxOfInterval ==
    ASSUME NEW top \in Nat, NEW S, S \subseteq 1 .. top, S # {}
    PROVE  Max(S) \in S /\ \A m \in S : m <= Max(S)
<1> DEFINE T == {top - m : m \in S}
<1>1. T \subseteq Nat /\ T # {}
  <2>1. \A m \in S : top - m \in Nat
    OBVIOUS
  <2>2. PICK m \in S : TRUE
    OBVIOUS
  <2>3. top - m \in T
    OBVIOUS
  <2> QED
    BY <2>1, <2>3
<1>2. PICK n \in T : \A m \in T : n <= m
  BY <1>1, LeastNatural
<1>3. PICK k \in S : n = top - k
  OBVIOUS
<1>4. \A m \in S : m <= k
  <2>1. ASSUME NEW m \in S PROVE m <= k
    <3>1. top - m \in T
      OBVIOUS
    <3>2. n <= top - m
      BY <1>2, <3>1
    <3> QED
      BY <1>3, <3>2
  <2> QED
    BY <2>1
<1> QED
  BY <1>4 DEF Max

(* The text without the blanks around it begins and ends with a token that *)
(* is none, and trimming it again changes nothing.                         *)
Trimmed(text) == text = << >> \/ (text[1] \notin Blanks /\ text[Len(text)] \notin Blanks)

LEMMA SolidTokens ==
    ASSUME NEW query \in Seq(Tokens)
    PROVE  LET solid == {i \in DOMAIN query : query[i] \notin Blanks}
           IN  /\ Len(query) \in Nat /\ solid \subseteq 1 .. Len(query)
               /\ solid # {} =>
                   /\ Min(solid) \in solid /\ \A i \in solid : Min(solid) <= i
                   /\ Max(solid) \in solid /\ \A i \in solid : i <= Max(solid)
<1> DEFINE solid == {i \in DOMAIN query : query[i] \notin Blanks}
<1>1. Len(query) \in Nat /\ DOMAIN query = 1 .. Len(query)
  BY LenProperties
<1>2. solid \subseteq 1 .. Len(query) /\ solid \subseteq Nat
  BY <1>1
<1> HIDE DEF solid
<1> QED
  BY <1>1, <1>2, MinOfNaturals, MaxOfInterval DEF solid

LEMMA TrimFacts ==
    ASSUME NEW query \in Seq(Tokens)
    PROVE  Trim(query) \in Seq(Tokens) /\ Trimmed(Trim(query))
<1> DEFINE solid == {i \in DOMAIN query : query[i] \notin Blanks}
           a == Min(solid)
           b == Max(solid)
<1>1. CASE solid = {}
  BY <1>1 DEF Trim, Trimmed
<1>2. CASE solid # {}
  <2>1. /\ Len(query) \in Nat /\ a \in 1 .. Len(query) /\ b \in 1 .. Len(query) /\ a <= b
        /\ query[a] \notin Blanks /\ query[b] \notin Blanks
    BY <1>2, SolidTokens
  <2>2. Trim(query) = SubSeq(query, a, b)
    BY <1>2 DEF Trim
  <2> HIDE DEF a, b
  <2>3. /\ SubSeq(query, a, b) \in Seq(Tokens) /\ Len(SubSeq(query, a, b)) = b - a + 1
        /\ SubSeq(query, a, b)[1] = query[a] /\ SubSeq(query, a, b)[b - a + 1] = query[b]
    BY <2>1, SubSeqProperties
  <2> QED
    BY <2>1, <2>2, <2>3 DEF Trimmed
<1> QED
  BY <1>1, <1>2

LEMMA TrimOfTrimmed ==
    ASSUME NEW query \in Seq(Tokens), Trimmed(query) PROVE Trim(query) = query
<1> DEFINE solid == {i \in DOMAIN query : query[i] \notin Blanks}
<1>0. Len(query) \in Nat /\ DOMAIN query = 1 .. Len(query)
  BY LenProperties
<1>1. CASE query = << >>
  BY <1>1 DEF Trim
<1>2. CASE query # << >>
  <2>1. Len(query) >= 1
    BY <1>2, <1>0, EmptySeq
  <2>2. 1 \in solid /\ Len(query) \in solid
    BY <1>0, <1>2, <2>1 DEF Trimmed
  <2>3. /\ Min(solid) \in solid /\ Min(solid) <= 1 /\ Max(solid) \in solid
        /\ Len(query) <= Max(solid) /\ solid \subseteq 1 .. Len(query)
    BY <2>2, SolidTokens
  <2>4. Min(solid) \in 1 .. Len(query) /\ Max(solid) \in 1 .. Len(query)
    BY <2>3, Zenon
  <2>5. Min(solid) = 1 /\ Max(solid) = Len(query)
    <3> HIDE DEF solid
    <3> QED
      BY <1>0, <2>3, <2>4
  <2>6. Trim(query) = SubSeq(query, 1, Len(query))
    BY <2>2, <2>5 DEF Trim
  <2> QED
    BY <2>6, SubSeqFull
<1> QED
  BY <1>1, <1>2

(* A text whose line ends are nothing but blanks to SQL.                   *)
Plain(text) == \A i \in DOMAIN text : ~Means(text, i)

(* A normalized text is the trimmed one, with blanks for its line ends.    *)
LEMMA Normalized ==
    ASSUME NEW query \in Seq(Tokens)
    PROVE  LET text == normalizeQueryForHTTPHeader(query)
           IN  /\ text \in Seq(Tokens) /\ Trim(text) = text
               /\ Plain(Trim(query)) => SameText(text, Trim(query))
               /\ guessMethodForQuery(text) = guessMethodForQuery(query)
               /\ normalizeQueryForHTTPHeader(text) = text
<1> DEFINE own  == Trim(query)
           text == [i \in DOMAIN own |-> IF own[i] = "newline" THEN " " ELSE own[i]]
<1>0. normalizeQueryForHTTPHeader(query) = text
  BY DEF normalizeQueryForHTTPHeader
<1>1. /\ own \in Seq(Tokens) /\ Trimmed(own) /\ Len(own) \in Nat
      /\ DOMAIN own = 1 .. Len(own) /\ \A i \in DOMAIN own : own[i] \in Tokens
  BY TrimFacts, LenProperties, ElementOfSeq
<1> HIDE DEF own
<1>2. /\ text \in Seq(Tokens) /\ Len(text) = Len(own) /\ DOMAIN text = DOMAIN own
  <2>1. \A i \in 1 .. Len(own) : text[i] \in Tokens
    BY <1>1 DEF Tokens, Blanks
  <2>2. DOMAIN text = 1 .. Len(own) /\ text = [i \in 1 .. Len(own) |-> text[i]]
    BY <1>1
  <2> HIDE DEF text
  <2>3. text \in [1 .. Len(own) -> Tokens]
    BY <2>1, <2>2
  <2> QED
    BY <1>1, <2>2, <2>3
<1>3. /\ \A i \in DOMAIN own : text[i] = own[i] \/ (own[i] = "newline" /\ text[i] = " ")
      /\ \A i \in DOMAIN own : text[i] # "newline"
  OBVIOUS
<1> HIDE DEF text
<1>4. Plain(own) => SameText(text, own)
  BY <1>2, <1>3 DEF Plain, SameText, Means, Blanks
<1>5. Trimmed(text)
  <2>1. CASE own = << >>
    BY <2>1, <1>1, <1>2, EmptySeq DEF Trimmed
  <2>2. CASE own # << >>
    <3>1. 1 \in DOMAIN own /\ Len(own) \in DOMAIN own
      BY <2>2, <1>1, EmptySeq
    <3> QED
      BY <2>2, <3>1, <1>1, <1>2, <1>3 DEF Trimmed, Blanks
  <2> QED
    BY <2>1, <2>2
<1>6. Trim(text) = text
  BY <1>2, <1>5, TrimOfTrimmed
<1>7. guessMethodForQuery(text) = guessMethodForQuery(query)
  <2>1. text = << >> <=> own = << >>
    BY <1>1, <1>2, EmptySeq
  <2>2. own # << >> => Head(text) = text[1] /\ Head(own) = own[1] /\ 1 \in DOMAIN own
    BY <1>1, <1>2, <2>1, EmptySeq
  <2>3. own # << >> => (Creates(Head(text)) <=> Creates(Head(own)))
                         /\ (Head(text) = "WITH" <=> Head(own) = "WITH")
    BY <1>3, <2>2 DEF Creates
  <2>4. (\E i \in DOMAIN text : Creates(text[i])) <=> \E i \in DOMAIN own : Creates(own[i])
    BY <1>2, <1>3 DEF Creates
  <2> QED
    BY <1>6, <2>1, <2>3, <2>4 DEF guessMethodForQuery, own
<1>8. normalizeQueryForHTTPHeader(text) = text
  <2>1. text = [i \in DOMAIN text |-> text[i]]
    BY <1>2
  <2>2. \A i \in DOMAIN text : text[i] # "newline"
    BY <1>2, <1>3
  <2> QED
    BY <1>6, <2>1, <2>2 DEF normalizeQueryForHTTPHeader
<1> QED
  BY <1>0, <1>2, <1>4, <1>6, <1>7, <1>8 DEF own

(* What is sent of a query: its normalized text if it reads, itself if it  *)
(* writes.  Either is the text of the query, if its line ends are blanks.  *)
LEMMA RequestText ==
    ASSUME NEW query \in Queries, NEW headers
    PROVE  LET text == makeFetchOptions(query, headers).text
           IN  /\ text \in Seq(Tokens)
               /\ Plain(Trim(query)) => SameText(Trim(text), Trim(query))
               /\ guessMethodForQuery(query) = "GET" => text = normalizeQueryForHTTPHeader(query)
<1>1. query \in Seq(Tokens)
  BY ContextAssumption
<1>2. SameText(Trim(query), Trim(query))
  BY DEF SameText
<1> QED
  BY <1>1, <1>2, Normalized DEF makeFetchOptions

(* The URL of a read names the text that is sent.                          *)
LEMMA URLNamesText ==
    ASSUME NEW query \in Queries, "fingerprint" \in DOMAIN makeQueryURL(query)
    PROVE  /\ guessMethodForQuery(query) = "GET"
           /\ makeQueryURL(query).fingerprint = [sha256 |-> normalizeQueryForHTTPHeader(query)]
BY DEF makeQueryURL, Fingerprint

(* A cached answer is the answer to what is sent.                          *)
LEMMA HitIsAnswer ==
    ASSUME CachedReads, NEW entry \in cache, NEW query \in Queries, NEW headers,
           Cacheable(makeFetchOptions(query, headers).method, makeQueryURL(query)),
           entry.url = makeQueryURL(query)
    PROVE  entry.text = makeFetchOptions(query, headers).text
<1>1. PICK cached \in Queries :
          /\ entry = [url |-> makeQueryURL(cached), text |-> normalizeQueryForHTTPHeader(cached)]
          /\ "fingerprint" \in DOMAIN entry.url
  BY DEF CachedReads
<1>2. "fingerprint" \in DOMAIN makeQueryURL(query)
  BY DEF Cacheable
<1>3. [sha256 |-> normalizeQueryForHTTPHeader(cached)]
          = [sha256 |-> normalizeQueryForHTTPHeader(query)]
  BY <1>1, <1>2, URLNamesText
<1>4. normalizeQueryForHTTPHeader(cached) = normalizeQueryForHTTPHeader(query)
  BY <1>3
<1> QED
  BY <1>1, <1>2, <1>4, URLNamesText, RequestText

(* What is cached under a fingerprint is the answer to that very text, and *)
(* the text is a read.                                                     *)
LEMMA CachedIsNamed == CachedReads => CachesWhatItNames
<1> SUFFICES ASSUME CachedReads, NEW entry \in cache
             PROVE  /\ entry.url.fingerprint = Fingerprint(entry.text)
                    /\ guessMethodForQuery(entry.text) = "GET"
  BY DEF CachesWhatItNames
<1>1. PICK query \in Queries :
          /\ guessMethodForQuery(query) = "GET"
          /\ entry = [url |-> makeQueryURL(query), text |-> normalizeQueryForHTTPHeader(query)]
          /\ "fingerprint" \in DOMAIN entry.url
  BY DEF CachedReads
<1>2. query \in Seq(Tokens)
  BY ContextAssumption
<1> QED
  BY <1>1, <1>2, URLNamesText, Normalized DEF Fingerprint

-----------------------------------------------------------------------------
(* A step of one call: its record keeps its type, and an answer is one to  *)
(* its query.                                                              *)
LEMMA CallStep ==
    ASSUME QInv, NEW c \in Calls, NEW record \in CallRecords,
           calls' = [calls EXCEPT ![c] = record],
           UNCHANGED <<plugins, current, client>>, CachedReads',
           staging' \in [Tables -> Calls \cup {None}], tables' \in [Tables -> Calls \cup {None}],
           created' \in [Calls -> Calls \cup {None}],
           carried' \in [Calls -> SUBSET (Secrets \cup {None})], restarted' \in BOOLEAN,
           record.pc = "querying" => record.query \in Queries,
           (record.pc = "answered" /\ Plain(Trim(record.query))) =>
               SameText(Trim(record.answered), Trim(record.query))
    PROVE  QInv'
<1>0. TypeOK /\ CachedReads /\ AsksQueries /\ AnswersTheQuery
  BY DEF QInv
<1>1. /\ calls' \in [Calls -> CallRecords] /\ calls'[c] = record
      /\ \A d \in Calls : d # c => calls'[d] = calls[d]
  BY <1>0 DEF TypeOK
<1>2. \A entry \in cache' : "fingerprint" \in DOMAIN entry.url
  BY DEF CachedReads
<1>3. TypeOK'
  BY <1>0, <1>1, <1>2 DEF TypeOK
<1>4. AsksQueries' /\ AnswersTheQuery'
  BY <1>0, <1>1 DEF AsksQueries, AnswersTheQuery, Plain
<1> QED
  BY <1>3, <1>4, <1>0 DEF QInv

(* A step that leaves the calls and the list of plugins as they are.       *)
LEMMA ServiceStep ==
    ASSUME QInv, UNCHANGED <<plugins, client, calls, created, carried>>,
           cache' \subseteq cache, current' \in Secrets \cup {None},
           staging' \in [Tables -> Calls \cup {None}], tables' \in [Tables -> Calls \cup {None}],
           restarted' \in BOOLEAN
    PROVE  QInv'
<1>0. TypeOK /\ CachedReads /\ AsksQueries /\ AnswersTheQuery
  BY DEF QInv
<1>1. TypeOK'
  BY <1>0 DEF TypeOK
<1>2. CachedReads'
  BY <1>0 DEF CachedReads
<1>3. AsksQueries' /\ AnswersTheQuery'
  BY <1>0 DEF AsksQueries, AnswersTheQuery
<1> QED
  BY <1>1, <1>2, <1>3 DEF QInv

LEMMA InitQInv == Init => QInv
<1> SUFFICES ASSUME Init PROVE QInv
  OBVIOUS
<1>1. NoCall \in CallRecords /\ NoCall.pc = "idle"
  <2>1. << >> \in Seq(Tokens)
    OBVIOUS
  <2> QED
    BY <2>1 DEF NoCall, CallRecords, Errors
<1>2. current \in Secrets \cup {None} /\ client \in Secrets \cup {None}
  BY InitInv DEF Inv, Shape
<1>3. TypeOK
  BY <1>1, <1>2 DEF Init, TypeOK
<1>4. CachedReads /\ AsksQueries /\ AnswersTheQuery
  BY <1>1 DEF Init, CachedReads, AsksQueries, AnswersTheQuery
<1> QED
  BY <1>3, <1>4 DEF QInv

(* The answer to a query: from the cache or from Seafowl, it is the same.  *)
LEMMA AnswerQueryQStep == ASSUME QInv, NEW c \in Calls, AnswerQuery(c) PROVE QInv'
<1> DEFINE query    == calls[c].query
           url      == makeQueryURL(query)
           request  == makeFetchOptions(query, AuthHeaders(client))
           hits     == {entry \in cache : Cacheable(request.method, url) /\ entry.url = url}
           answered == IF hits = {} THEN request.text ELSE (CHOOSE entry \in hits : TRUE).text
           record   == [calls[c] EXCEPT !.pc = "answered", !.answered = answered]
<1>0. TypeOK /\ CachedReads /\ calls[c] \in CallRecords
  BY DEF QInv, TypeOK
<1>1. /\ calls[c].pc = "querying" /\ calls' = [calls EXCEPT ![c] = record]
      /\ carried' = [carried EXCEPT ![c] = @ \cup {request.headers}]
      /\ cache' = IF Cacheable(request.method, url) /\ hits = {}
                  THEN cache \cup {[url |-> url, text |-> answered]} ELSE cache
      /\ UNCHANGED <<plugins, current, client, staging, tables, created, restarted>>
  BY DEF AnswerQuery
<1>2. query \in Queries
  BY <1>1 DEF QInv, AsksQueries
<1>3. /\ request.headers = client /\ request.text \in Seq(Tokens)
      /\ Plain(Trim(query)) => SameText(Trim(request.text), Trim(query))
  BY <1>2, RequestText DEF makeFetchOptions, AuthHeaders
<1>4. answered = request.text
  <2>1. \A entry \in hits : entry.text = request.text
    BY <1>0, <1>2, HitIsAnswer
  <2>2. hits # {} => (CHOOSE entry \in hits : TRUE) \in hits
    OBVIOUS
  <2> QED
    BY <2>1, <2>2
<1>5. CachedReads'
  <2>1. CASE cache' = cache
    BY <1>0, <2>1 DEF CachedReads
  <2>2. CASE cache' # cache
    <3>1. Cacheable(request.method, url) /\ cache' = cache \cup {[url |-> url, text |-> answered]}
      BY <1>1, <2>2
    <3>2. "fingerprint" \in DOMAIN url
      BY <3>1 DEF Cacheable
    <3>3. guessMethodForQuery(query) = "GET"
      BY <1>2, <3>2, URLNamesText
    <3>4. answered = normalizeQueryForHTTPHeader(query)
      BY <1>2, <1>4, <3>3, RequestText
    <3> HIDE DEF url, query, answered, hits, request
    <3>5. \A entry \in cache' : entry \in cache \/ entry = [url |-> url, text |-> answered]
      BY <3>1
    <3> USE DEF url
    <3> QED
      BY <1>0, <1>2, <3>2, <3>3, <3>4, <3>5 DEF CachedReads
  <2> QED
    BY <2>1, <2>2
<1>6. carried' \in [Calls -> SUBSET (Secrets \cup {None})]
  BY <1>0, <1>1, <1>3 DEF TypeOK
<1> HIDE DEF answered, hits, request, url
<1>7. /\ record \in CallRecords /\ record.pc = "answered" /\ record.answered = answered
      /\ record.query = query
  BY <1>0, <1>3, <1>4 DEF CallRecords
<1> HIDE DEF record
<1> QED
  BY <1>0, <1>1, <1>3, <1>4, <1>5, <1>6, <1>7, CallStep DEF TypeOK

(* The steps of an import; a statement is sent for a table that has a name.*)
LEMMA MountQStep == ASSUME Inv, QInv, NEW c \in Calls, Mount(c) PROVE QInv'
<1> DEFINE t == calls[c].table
<1>0. TypeOK /\ CachedReads /\ calls[c] \in CallRecords
  BY DEF QInv, TypeOK
<1>1. /\ calls[c].pc = "mounting"
      /\ carried' = [carried EXCEPT ![c] = @ \cup {calls[c].headers}]
      /\ UNCHANGED <<plugins, current, client, cache, tables, created, restarted>>
  BY DEF Mount
<1>2. PICK answer \in Errors :
          /\ calls' = [calls EXCEPT ![c].pc = "loading", ![c].mountError = answer]
          /\ staging' = [staging EXCEPT ![t] = c] \/ UNCHANGED staging
  BY DEF Mount
<1> DEFINE record == [calls[c] EXCEPT !.pc = "loading", !.mountError = answer]
<1>3. calls' = [calls EXCEPT ![c] = record]
  BY <1>2
<1>4. record \in CallRecords /\ record.pc = "loading"
  BY <1>0 DEF CallRecords
<1>5. /\ carried' \in [Calls -> SUBSET (Secrets \cup {None})]
      /\ staging' \in [Tables -> Calls \cup {None}]
  <2>1. calls[c].headers \in Secrets \cup {None}
    BY <1>0 DEF CallRecords
  <2> QED
    BY <1>0, <1>1, <1>2, <2>1 DEF TypeOK
<1>6. CachedReads'
  BY <1>0, <1>1 DEF CachedReads
<1> HIDE DEF record
<1> QED
  BY <1>0, <1>1, <1>3, <1>4, <1>5, <1>6, CallStep DEF TypeOK

LEMMA LoadQStep == ASSUME Inv, QInv, NEW c \in Calls, Load(c) PROVE QInv'
<1> DEFINE t == calls[c].table
<1>0. TypeOK /\ CachedReads /\ calls[c] \in CallRecords
  BY DEF QInv, TypeOK
<1>1. /\ calls[c].pc = "loading"
      /\ carried' = [carried EXCEPT ![c] = @ \cup {calls[c].headers}]
      /\ UNCHANGED <<plugins, current, client, cache, staging, restarted>>
  BY DEF Load, ClientHeaders
<1>2. PICK answer \in Errors :
          /\ calls' = [calls EXCEPT ![c].pc = "returned", ![c].error = answer,
                                   ![c].success = TRUE]
          /\ \/ /\ tables' = [tables EXCEPT ![t] = staging[t]]
                /\ created' = [created EXCEPT ![c] = staging[t]]
             \/ UNCHANGED <<tables, created>>
  BY DEF Load, Returned
<1> DEFINE record == [calls[c] EXCEPT !.pc = "returned", !.error = answer, !.success = TRUE]
<1>3. calls' = [calls EXCEPT ![c] = record]
  BY <1>2
<1>4. record \in CallRecords /\ record.pc = "returned"
  BY <1>0 DEF CallRecords
<1>5. /\ tables' \in [Tables -> Calls \cup {None}] /\ created' \in [Calls -> Calls \cup {None}]
  <2>1. t \in Tables
    BY <1>1 DEF Inv, IInv, SilentAtFirst
  <2>2. staging[t] \in Calls \cup {None}
    BY <1>0, <2>1 DEF TypeOK
  <2> QED
    BY <1>0, <1>2, <2>2 DEF TypeOK
<1>6. carried' \in [Calls -> SUBSET (Secrets \cup {None})]
  <2>1. calls[c].headers \in Secrets \cup {None}
    BY <1>0 DEF CallRecords
  <2> QED
    BY <1>0, <1>1, <2>1 DEF TypeOK
<1>7. CachedReads'
  BY <1>0, <1>1 DEF CachedReads
<1> HIDE DEF record
<1> QED
  BY <1>0, <1>1, <1>3, <1>4, <1>5, <1>6, <1>7, CallStep DEF TypeOK

LEMMA NextQInv == Inv /\ QInv /\ [Next]_vars => QInv'
<1> SUFFICES ASSUME Inv, QInv, [Next]_vars PROVE QInv'
  OBVIOUS
<1>0. TypeOK /\ CachedReads /\ \A c \in Calls : calls[c] \in CallRecords
  BY DEF QInv, TypeOK
<1>1. ASSUME NEW c \in Calls, NEW query \in Queries, ExecuteQuery(c, query) PROVE QInv'
  <2> DEFINE record == [calls[c] EXCEPT !.pc = "querying", !.query = query]
  <2>1. /\ calls' = [calls EXCEPT ![c] = record]
        /\ UNCHANGED <<plugins, current, client, carried, cache, staging, tables, created,
                       restarted>>
    BY <1>1 DEF ExecuteQuery, service
  <2>2. record \in CallRecords /\ record.pc = "querying" /\ record.query \in Queries
    BY <1>0 DEF CallRecords
  <2>3. CachedReads'
    BY <1>0, <2>1 DEF CachedReads
  <2> HIDE DEF record
  <2> QED
    BY <1>0, <2>1, <2>2, <2>3, CallStep DEF TypeOK
<1>2. ASSUME NEW c \in Calls, NEW t \in Tables, ImportData(c, t) PROVE QInv'
  <2> DEFINE pc == CASE PluginToImport = "file"  -> "mounting"
                     [] PluginToImport \in {"other", "literal"} -> "delegated"
                     [] OTHER -> "threw"
             record == [calls[c] EXCEPT !.pc = pc, !.table = t, !.headers = current]
  <2>1. /\ calls' = [calls EXCEPT ![c] = record]
        /\ UNCHANGED <<plugins, current, client, carried, cache, staging, tables, created,
                       restarted>>
    BY <1>2 DEF ImportData, AuthHeaders, service
  <2>3. pc \in {"mounting", "delegated", "threw"}
    OBVIOUS
  <2> HIDE DEF pc
  <2>4. record \in CallRecords /\ record.pc = pc
    BY ZenonT(60), <1>0, <2>3 DEF CallRecords, TypeOK
  <2>5. CachedReads'
    BY <1>0, <2>1 DEF CachedReads
  <2> HIDE DEF record
  <2> QED
    BY <1>0, <2>1, <2>3, <2>4, <2>5, CallStep DEF TypeOK
<1>3. ASSUME NEW c \in Calls, ExportData(c) \/ OnRejected(c) PROVE QInv'
  <2> DEFINE returned == [calls[c] EXCEPT !.pc = "returned", !.error = "error"]
             threw    == [calls[c] EXCEPT !.pc = "threw"]
  <2>1. /\ calls' = [calls EXCEPT ![c] = returned] \/ calls' = [calls EXCEPT ![c] = threw]
        /\ UNCHANGED <<plugins, current, client, carried, cache, staging, tables, created,
                       restarted>>
    BY <1>3 DEF ExportData, OnRejected, service
  <2>2. /\ returned \in CallRecords /\ returned.pc = "returned"
        /\ threw \in CallRecords /\ threw.pc = "threw"
    BY <1>0 DEF CallRecords, Errors
  <2>3. CachedReads'
    BY <1>0, <2>1 DEF CachedReads
  <2> HIDE DEF returned, threw
  <2> QED
    BY <1>0, <2>1, <2>2, <2>3, CallStep DEF TypeOK
<1>4. ASSUME NEW secret \in Secrets, SetAuthenticatedCredential(secret) PROVE QInv'
  BY <1>0, <1>4, ServiceStep DEF SetAuthenticatedCredential, service, TypeOK
<1>5. ASSUME NEW t \in Tables, DropTable(t) PROVE QInv'
  BY <1>0, <1>5, ServiceStep DEF DropTable, TypeOK
<1>6. CASE Restart
  BY <1>0, <1>6, ServiceStep DEF Restart, TypeOK
<1>7. CASE Expire
  BY <1>0, <1>7, ServiceStep DEF Expire, TypeOK
<1>8. CASE UNCHANGED vars
  BY <1>0, <1>8, ServiceStep DEF vars, TypeOK
<1> QED
  BY <1>1, <1>2, <1>3, <1>4, <1>5, <1>6, <1>7, <1>8, AnswerQueryQStep, MountQStep, LoadQStep
  DEF Next

LEMMA QueryInvariant == Spec => [](Inv /\ QInv)
  BY InitInv, NextInv, InitQInv, NextQInv, PTL DEF Spec

(* The types of a context's state, for any calls, queries and plugins.     *)
THEOREM TypeCorrect == Spec => []TypeOK
<1>1. QInv => TypeOK
  BY DEF QInv
<1> QED
  BY <1>1, QueryInvariant, PTL

(* A query is answered with the answer to its own text, whatever the cache *)
(* holds.                                                                  *)
THEOREM QueriesAnswered == Spec => []AnswersTheQuery
<1>1. QInv => AnswersTheQuery
  BY DEF QInv
<1> QED
  BY <1>1, QueryInvariant, PTL

(* The cache keeps answers to reads, each under the fingerprint of the     *)
(* text that was executed.                                                 *)
THEOREM CacheNamed == Spec => []CachesWhatItNames
<1>1. QInv => CachesWhatItNames
  BY CachedIsNamed DEF QInv
<1> QED
  BY <1>1, QueryInvariant, PTL
=============================================================================
