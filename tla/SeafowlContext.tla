--------------------------- MODULE SeafowlContext ---------------------------
(***************************************************************************)
(* A Seafowl data context at work: a DbSeafowl and the HTTP client it      *)
(* made, an HTTP cache, and Seafowl behind it.                             *)
(*                                                                         *)
(* client.execute sends a query as SeafowlQuery makes it.  db.importData   *)
(* looks for a plugin and hands it a client of its own, with the           *)
(* credential the db has at that moment; SeafowlImportFilePlugin sends two *)
(* statements through it, which take the same way as any query:            *)
(*                                                                         *)
(*   CREATE EXTERNAL TABLE dataxyz_<table> ... LOCATION '<url>'            *)
(*   CREATE TABLE <table> AS SELECT * FROM staging.dataxyz_<table>         *)
(*                                                                         *)
(* The second is sent whatever became of the first.  Calls overlap, also   *)
(* imports of one table; a statement may fail, or its answer get lost      *)
(* after it took effect; Seafowl forgets its staging tables when it        *)
(* restarts; and the application replaces the db's credential.             *)
(***************************************************************************)
EXTENDS SeafowlQuery

CONSTANTS
    Calls,        \* calls of execute, importData and exportData
    Tables,       \* names of tables
    Secrets,      \* secrets of Seafowl
    Queries,      \* the queries an application sends
    PluginLists,  \* the lists of plugins a db may be given
    None          \* null or undefined: no table, error, credential or header

(***************************************************************************)
(* Kinds of plugins: SeafowlImportFilePlugin; another class that imports;  *)
(* one without withOptions; one that only exports; and an object literal   *)
(* that imports, whose method is its own, not inherited.                   *)
(***************************************************************************)
Plugins == {"file", "other", "bare", "exporter", "literal"}

\* Each import has a file of its own, which the name of the call stands for.
ASSUME ContextAssumption ==
    /\ None \notin Calls \cup Secrets \cup {"error"}
    /\ Queries \subseteq Seq(Tokens) /\ PluginLists \subseteq Seq(Plugins)

VARIABLES
    plugins,    \* the list given to the db
    current,    \* the secret in this.authenticatedCredential of the db
    client,     \* the secret in the credential of the context's client
    calls,      \* calls[c]: its progress, its errors, its result
    cache,      \* URLs with a cached answer, and the text that was answered
    staging,    \* staging[t]: the file mounted as dataxyz_t
    tables,     \* tables[t]: the file whose rows table t holds
    created,    \* history: the file each call's second statement loaded
    carried,    \* history: the headers of the requests of each call
    restarted   \* history: whether Seafowl restarted

service == <<cache, staging, tables, created, restarted>>
vars == <<plugins, current, client, calls, cache, staging, tables, created, carried,
          restarted>>

Errors == {None, "error"}

CallRecords ==
    [pc : {"idle", "querying", "answered", "mounting", "loading", "delegated", "returned",
           "threw"},
     table : Tables \cup {None}, query : Queries \cup {<< >>}, headers : Secrets \cup {None},
     mountError : Errors, error : Errors, success : BOOLEAN, answered : Seq(Tokens)]

TypeOK ==
    /\ plugins \in PluginLists
    /\ current \in Secrets \cup {None} /\ client \in Secrets \cup {None}
    /\ calls \in [Calls -> CallRecords]
    /\ \A entry \in cache : "fingerprint" \in DOMAIN entry.url
    /\ staging \in [Tables -> Calls \cup {None}]
    /\ tables \in [Tables -> Calls \cup {None}]
    /\ created \in [Calls -> Calls \cup {None}]
    /\ carried \in [Calls -> SUBSET (Secrets \cup {None})]
    /\ restarted \in BOOLEAN

-----------------------------------------------------------------------------
(***************************************************************************)
(* What makeSeafowlHTTPContext may be given.  A credential of type         *)
(* AuthenticatedCredential says anonymous: false; one of CredentialOptions *)
(* may leave the property out, or be anonymous.                            *)
(***************************************************************************)
Authenticated == [secret : Secrets, anonymous : {"false"}]
CredentialOptions ==
    [secret : Secrets, anonymous : {"false", "absent"}] \cup
        {[secret |-> None, anonymous |-> "true"]}

ContextOptions ==
    [db : Authenticated \cup {None}, authenticated : Authenticated \cup {None},
     any : CredentialOptions \cup {None}, client : CredentialOptions \cup {None}]

Either(first, second) == IF first # None THEN first ELSE second

\* dbOpts.authenticatedCredential and clientOpts.credential.
DbCredential(opts) ==
    Either(opts.db, Either(opts.authenticated,
        IF opts.any # None /\ opts.any.anonymous # "absent" THEN opts.any ELSE None))
ClientCredential(opts) == Either(opts.client, Either(opts.authenticated, opts.any))

SecretOf(cred) == IF cred = None THEN None ELSE cred.secret

\* makeAuthHeaders: a bearer token, or nothing for an anonymous credential.
AuthHeaders(secret) == secret

NoCall == [pc |-> "idle", table |-> None, query |-> << >>, headers |-> None,
           mountError |-> None, error |-> None, success |-> FALSE, answered |-> << >>]

\* The constructor of the db throws for an anonymous credential.
Init ==
    /\ plugins \in PluginLists
    /\ \E opts \in ContextOptions :
           /\ DbCredential(opts) # None => DbCredential(opts).anonymous # "true"
           /\ current = SecretOf(DbCredential(opts))
           /\ client = SecretOf(ClientCredential(opts))
    /\ calls = [c \in Calls |-> NoCall]
    /\ cache = {}
    /\ staging = [t \in Tables |-> None]
    /\ tables = [t \in Tables |-> None]
    /\ created = [c \in Calls |-> None]
    /\ carried = [c \in Calls |-> {}]
    /\ restarted = FALSE

\* db.setAuthenticatedCredential(...)
SetAuthenticatedCredential(secret) ==
    /\ current' = secret
    /\ UNCHANGED <<plugins, client, calls, carried, service>>

-----------------------------------------------------------------------------
\* client.execute(query) is called, and makes the URL.
ExecuteQuery(c, query) ==
    /\ calls[c].pc = "idle"
    /\ calls' = [calls EXCEPT ![c].pc = "querying", ![c].query = query]
    /\ UNCHANGED <<plugins, current, client, carried, service>>

Cacheable(method, url) == method = "GET" /\ "fingerprint" \in DOMAIN url

\* The request goes out; the cache answers if it can, Seafowl otherwise.
AnswerQuery(c) ==
    LET query    == calls[c].query
        url      == makeQueryURL(query)
        request  == makeFetchOptions(query, AuthHeaders(client))
        hits     == {entry \in cache : Cacheable(request.method, url) /\ entry.url = url}
        answered == IF hits = {} THEN request.text ELSE (CHOOSE entry \in hits : TRUE).text
    IN  /\ calls[c].pc = "querying"
        /\ calls' = [calls EXCEPT ![c].pc = "answered", ![c].answered = answered]
        /\ carried' = [carried EXCEPT ![c] = @ \cup {request.headers}]
        /\ cache' = IF Cacheable(request.method, url) /\ hits = {}
                    THEN cache \cup {[url |-> url, text |-> answered]} ELSE cache
        /\ UNCHANGED <<plugins, current, client, staging, tables, created, restarted>>

\* The cache drops an answer.
Expire ==
    /\ \E entry \in cache : cache' = cache \ {entry}
    /\ UNCHANGED <<plugins, current, client, calls, staging, tables, created, carried,
                   restarted>>

-----------------------------------------------------------------------------
\* selectMatchingPlugins(plugin => "importData" in Object.getPrototypeOf(plugin))
selectMatchingPlugins == {i \in DOMAIN plugins : plugins[i] \in {"file", "other", "bare"}}

\* The plugin for db.importData: .pop() takes the last, whatever name was asked for.
PluginToImport ==
    IF selectMatchingPlugins = {} THEN "none" ELSE plugins[Max(selectMatchingPlugins)]

(***************************************************************************)
(* db.importData(name, ...): without a plugin, or one without withOptions, *)
(* it rejects.  Otherwise the plugin gets a client with the credential of  *)
(* the db.                                                                 *)
(***************************************************************************)
ImportData(c, t) ==
    /\ calls[c].pc = "idle"
    /\ calls' = [calls EXCEPT
           ![c].pc = CASE PluginToImport = "file"  -> "mounting"
                       [] PluginToImport \in {"other", "literal"} -> "delegated"
                       [] OTHER -> "threw",
           ![c].table = t, ![c].headers = AuthHeaders(current)]
    /\ UNCHANGED <<plugins, current, client, carried, service>>

\* db.exportData(...): Seafowl has no exports.
ExportData(c) ==
    /\ calls[c].pc = "idle"
    /\ calls' = [calls EXCEPT ![c].pc = "returned", ![c].error = "error"]
    /\ UNCHANGED <<plugins, current, client, carried, service>>

\* The texts of the two statements, as the template literals lay them out.
MountStatement == <<"newline", " ", "CREATE", " ", "created_at", "newline", " ">>
LoadStatement == <<"CREATE", " ", "created_at", " ", "SELECT">>

\* Seafowl executes statements that write only when they are posted.
Posted(statement) == makeFetchOptions(statement, None).method = "POST"

\* Mutant: the statement replaces a staging table of the same name.
MountReplacing(c) ==
    /\ calls[c].pc = "mounting"
    /\ staging' = [staging EXCEPT ![calls[c].table] = c]
    /\ calls' = [calls EXCEPT ![c].pc = "loading"]
    /\ carried' = [carried EXCEPT ![c] = @ \cup {calls[c].headers}]
    /\ UNCHANGED <<plugins, current, client, cache, tables, created, restarted>>

\* CREATE EXTERNAL TABLE fails if the staging table exists.
Mount(c) ==
    LET t == calls[c].table
    IN  /\ calls[c].pc = "mounting"
        /\ \E answer \in Errors :        \* an error may hide an effect
               /\ calls' = [calls EXCEPT ![c].pc = "loading", ![c].mountError = answer]
               /\ \/ /\ Posted(MountStatement) /\ staging[t] = None
                     /\ staging' = [staging EXCEPT ![t] = c]
                  \/ answer = "error" /\ UNCHANGED staging
        /\ carried' = [carried EXCEPT ![c] = @ \cup {calls[c].headers}]
        /\ UNCHANGED <<plugins, current, client, cache, tables, created, restarted>>

\* Mutant: the error of the second statement is not passed on.
ReturnedDropsError(c, answer) ==
    [calls EXCEPT ![c].pc = "returned", ![c].error = None, ![c].success = TRUE]

\* Mutant: success is taken from the second statement's response only.
ReturnedWithoutDefault(c, answer) ==
    [calls EXCEPT ![c].pc = "returned", ![c].error = answer,
                  ![c].success = IF answer = None THEN TRUE ELSE None]

\* { response: { success: true, ...response }, error, info: { mountError } }
Returned(c, answer) ==
    [calls EXCEPT ![c].pc = "returned", ![c].error = answer, ![c].success = TRUE]

\* Mutant: each statement goes out with the credential of the moment.
ClientHeadersOfMoment(c) == AuthHeaders(current)

\* The headers of the client that the plugin was given.
ClientHeaders(c) == calls[c].headers

\* CREATE TABLE AS needs the staging table, and fails if the table exists.
Load(c) ==
    LET t == calls[c].table
    IN  /\ calls[c].pc = "loading"
        /\ \E answer \in Errors :
               /\ calls' = Returned(c, answer)
               /\ \/ /\ Posted(LoadStatement) /\ staging[t] # None /\ tables[t] = None
                     /\ tables' = [tables EXCEPT ![t] = staging[t]]
                     /\ created' = [created EXCEPT ![c] = staging[t]]
                  \/ answer = "error" /\ UNCHANGED <<tables, created>>
        /\ carried' = [carried EXCEPT ![c] = @ \cup {ClientHeaders(c)}]
        /\ UNCHANGED <<plugins, current, client, cache, staging, restarted>>

\* The client's execute rejects before it sends a statement, and so does importData.
OnRejected(c) ==
    /\ calls[c].pc \in {"mounting", "loading"}
    /\ calls' = [calls EXCEPT ![c].pc = "threw"]
    /\ UNCHANGED <<plugins, current, client, carried, service>>

\* Seafowl restarts: the external tables are gone, the others are not.
Restart ==
    /\ staging' = [t \in Tables |-> None]
    /\ restarted' = TRUE
    /\ UNCHANGED <<plugins, current, client, calls, cache, tables, created, carried>>

\* Another client drops a table.
DropTable(t) ==
    /\ tables[t] # None
    /\ tables' = [tables EXCEPT ![t] = None]
    /\ UNCHANGED <<plugins, current, client, calls, cache, staging, created, carried,
                   restarted>>

Next ==
    \/ \E c \in Calls :
           \/ (\E query \in Queries : ExecuteQuery(c, query)) \/ AnswerQuery(c)
           \/ (\E t \in Tables : ImportData(c, t)) \/ ExportData(c)
           \/ Mount(c) \/ Load(c) \/ OnRejected(c)
    \/ \E secret \in Secrets : SetAuthenticatedCredential(secret)
    \/ \E t \in Tables : DropTable(t)
    \/ Restart \/ Expire

Spec == Init /\ [][Next]_vars

-----------------------------------------------------------------------------
\* Within a literal or an identifier that is quoted.
Quoted(text, i) == Cardinality({j \in 1 .. i - 1 : text[j] = "'"}) % 2 = 1

\* A line end that is more to SQL than a blank: quoted, or behind a line comment.
Means(text, i) ==
    /\ text[i] = "newline"
    /\ Quoted(text, i) \/ \E j \in 1 .. i - 1 : text[j] = "--" /\ ~Quoted(text, j)

\* Two texts that SQL reads alike: they differ in blanks that mean nothing more.
SameText(given, own) ==
    /\ Len(given) = Len(own)
    /\ \A i \in DOMAIN own :
           \/ given[i] = own[i]
           \/ {given[i], own[i]} \subseteq Blanks /\ ~Means(given, i) /\ ~Means(own, i)

(* The answer a query gets, from the cache or from Seafowl, is the answer  *)
(* to its own text as SQL reads it, whatever was asked and cached before:  *)
(* also to 'a b' where the same with a line end for the blank, which has   *)
(* the same fingerprint, was asked before.  Queries with a line end in     *)
(* quotes or behind a line comment are excepted themselves: the code       *)
(* executes another query, with a blank for it.                            *)
AnswersTheQuery ==
    \A c \in Calls :
        LET own == Trim(calls[c].query)
        IN  (calls[c].pc = "answered" /\ \A i \in DOMAIN own : ~Means(own, i)) =>
                SameText(Trim(calls[c].answered), own)

(* "if the normalized result is used to fingerprint a query, it should     *)
(* also be used to execute the query" (base-db.ts): what the cache keeps   *)
(* under a fingerprint is the answer to the very text that was             *)
(* fingerprinted, and never to a statement that writes, although method    *)
(* and URL are guessed apart.                                              *)
CachesWhatItNames ==
    \A entry \in cache :
        /\ entry.url.fingerprint = Fingerprint(entry.text)
        /\ guessMethodForQuery(entry.text) = "GET"

(* An import that reports no error did create its table, from a file that  *)
(* some import of the same table mounted.                                  *)
NoErrorIsLoaded ==
    \A c \in Calls :
        (calls[c].pc = "returned" /\ calls[c].error = None) =>
            created[c] # None /\ calls[created[c]].table = calls[c].table

(* If the first statement did not fail either, and Seafowl stayed up, the  *)
(* rows are those of the caller's own file, although imports of one table  *)
(* share the name of its staging table: the first to mount keeps it.  When *)
(* the mount failed the rows may be those of a file mounted earlier; only  *)
(* info.mountError tells.                                                  *)
LoadsOwnFile ==
    \A c \in Calls :
        (/\ calls[c].pc = "returned" /\ calls[c].error = None
         /\ calls[c].mountError = None /\ ~restarted) => created[c] = c

(* Both statements of an import carry the secret that the db had when      *)
(* importData was called, also when it is replaced between them, and the   *)
(* queries of the client that of the client: no call speaks for two        *)
(* accounts, and none borrows the other object's secret.                   *)
SpeaksForOne ==
    \A c \in Calls :
        carried[c] \subseteq {IF calls[c].pc = "answered" THEN AuthHeaders(client)
                              ELSE calls[c].headers}

(* The inductive invariant behind the three properties of imports: a       *)
(* staging table holds the file of a call that imports the table it is     *)
(* named after, a table is created from such a file, a call that mounted   *)
(* without an error owns the staging table as long as Seafowl is up, and   *)
(* nothing is sent before its call has its credential.                     *)
Staged ==
    \A t \in Tables : staging[t] # None =>
        calls[staging[t]].pc # "idle" /\ calls[staging[t]].table = t
CreatedFromStaged ==
    \A c \in Calls : created[c] # None =>
        /\ calls[c].pc # "idle" /\ calls[created[c]].pc # "idle"
        /\ calls[created[c]].table = calls[c].table
OwnsStagingUnlessTold ==
    \A c \in Calls :
        (calls[c].pc = "loading" /\ calls[c].mountError = None /\ ~restarted)
            => staging[calls[c].table] = c
SilentAtFirst ==
    \A c \in Calls :
        /\ calls[c].pc \in {"idle", "querying"} => carried[c] = {}
        /\ calls[c].pc \in {"mounting", "loading"} => calls[c].table \in Tables
IInv ==
    /\ Staged /\ CreatedFromStaged /\ OwnsStagingUnlessTold /\ SilentAtFirst
    /\ NoErrorIsLoaded /\ LoadsOwnFile /\ SpeaksForOne

(* The inductive invariant behind the properties of queries: what is       *)
(* cached is the answer to a normalized read, under its fingerprint.       *)
CachedReads ==
    \A entry \in cache : \E query \in Queries :
        /\ guessMethodForQuery(query) = "GET"
        /\ entry = [url  |-> makeQueryURL(query),
                    text |-> normalizeQueryForHTTPHeader(query)]
        /\ "fingerprint" \in DOMAIN entry.url
AsksQueries == \A c \in Calls : calls[c].pc = "querying" => calls[c].query \in Queries
QInv == TypeOK /\ CachedReads /\ AsksQueries /\ AnswersTheQuery

(* A test takes response.success for the sign that the file was imported   *)
(* (core/splitgraph-seafowl-sync.test.ts).  Violated: it is true whatever  *)
(* happened.                                                               *)
SuccessIsLoaded ==
    \A c \in Calls : calls[c].success => created[c] # None
=============================================================================
