# TLA+ specifications of madatdata

madatdata is a set of TypeScript packages through which an application queries,
imports into and exports from two SQL services, Splitgraph and Seafowl. Most of
its behaviour is asynchronous: promises, polling, answers that overtake each
other, credentials that change while requests are on their way. These modules
describe that behaviour, TLC checks them on small instances, and TLAPS proves
the most important properties for every instance.

All paths below are relative to `src/`; `P` stands for `packages`.

- [The system](#the-system)
- [Modules and code](#modules-and-code)
- [Runs](#runs)
- [Fairness](#fairness)
- [What is proved](#what-is-proved)
- [Where the code and its documents disagree](#where-the-code-and-its-documents-disagree)
- [What is not modelled](#what-is-not-modelled)
- [Plan](#plan)

## The system

An application makes a *data context*: a db object (`DbSplitgraph` or
`DbSeafowl`) and an HTTP client for SQL. The db holds credentials, plugins and
the strategies for its clients; a call of `importData` or `exportData` finds a
plugin, gives it the db's options and runs it; React components run queries
through the client of the context they are rendered in.

```
 React component --useSql--> client.execute --fetch--> Seafowl /q, Splitgraph SQL API
                                ^ strategies, credential       ^ HTTP cache (GET /q/<sha>.csv)
 application ------------------ db --fetchAccessToken--> auth service
                                | withOptions(headers of the moment)
                                v
                  import / export plugins --GraphQL, polling--> Splitgraph jobs
                                          --presigned URL-----> object storage
                                          --two statements----> Seafowl
```

| Component | State | Operations | Hard behaviour | What makes it correct |
|---|---|---|---|---|
| Splitgraph CSV import (`P/db-splitgraph/plugins/importers`) | the locals of each call: presigned URL, taskId, retry state | `importData`: presigned URL, upload, startLoad, poll, job log | calls poll one job list of the repository; any request may fail or lose its answer; the list is a window; polling is retried by a decorator | success means this call's data is loaded; uploads come before loads; one load per call; every call settles |
| Splitgraph export (`P/db-splitgraph/plugins/exporters`) | taskId, parsed output, retry state | `exportData`: startExport, poll | as above; success follows from the presence of a URL | success means this query was exported; one export per call; every call settles |
| Authentication (`P/db-splitgraph/db-splitgraph.ts`, `P/base-db`, `P/base-client/credential.ts`, `P/core/splitgraph.ts`) | the db's credential, that of the default plugins, that of each client | constructors, `setAuthenticatedCredential`, `fetchAccessToken`, `makeHTTPClient`, `setCredential`, headers of requests | `fetchAccessToken` overwrites what was set while it waited; three copies of the credential age apart | no anonymous credential in a db; only granted tokens; db and client each speak for the account they were given last |
| SQL over HTTP (`P/client-http`) | one promise chain per call; the client's credential | `execute`, `setCredential`, the strategies for URL, fetch options and fields | aborts at any link; errors become values; lines that cannot be read; strategies that fail or bring a signal of their own | no partial result; every failure after the request is a value; an abort ends the call; the fields are those of the schema |
| Seafowl queries (`P/db-seafowl/db-seafowl.ts`, `P/base-db/base-db.ts`) | none (a cache stands before the service) | method guess, URL, fingerprint, normalized text | cached answers; text and fingerprint computed apart; line ends rewritten also where they mean something | the answer belongs to the query; the fingerprint is that of the text sent |
| Seafowl import (`P/db-seafowl/plugins/importers`) | locals of each call; staging and ordinary tables of the service | `importData`: mount, load | the second statement follows a failed first; imports share a staging table; restarts; a credential replaced between the statements | no error means loaded; no error at all means own file; one secret per call |
| Plugin dispatch (`P/base-db/plugin-registry.ts`) | the list of plugins | `selectMatchingPlugins` | the name a caller passes is not looked at; methods of object literals are not found | no property: the code takes the last plugin with the method, disagreement 5 |
| `useSql` (`P/react/hooks.tsx`) | `{loading, response, error}` | render, effect, answer | late answers, stale clients, rejections, unmounting | shows the result of the current query when all is quiet; stops loading |
| Event target (`P/base-db/event-handler.ts`) | listeners of a DOM EventTarget, list of cleanups | `on`, its cleanup, the outer cleanup, `dispatch` | listeners that subscribe, clean up and dispatch inside a dispatch; one listener subscribed twice | every listener is reached by the outer cleanup; none runs after its cleanup |
| Data contexts and defaults (`P/core`, `P/base-client`) | none after construction | construction | order of precedence of options; whether the client follows the db | as for authentication: who each of the two speaks for is told by the options, and for the db by what it was given since |
| Postgres client (`P/client-postgres`) | a connection of the library | `execute` | the connection keeps the credential it was made with | errors are values |
| Sandbox (`P/tiny-react-sandbox`) | credential and config in localStorage, one copy per hook and tab; input and output panes | save, clear, load; keys, paste, submit, answer | copies that do not see each other; inputs that were never initialised; answers in any order | a key and a secret that no single click saved never meet; what is echoed is what is typed |
| `yeet`, `ast-parser`, scripts, test setup, code generation, examples | none to speak of | - | - | - |

The hazards of each component, at the line where they bite and with the
property that would catch them going wrong, are listed in `PROJECT.json`.

## Modules and code

One TLA+ action stands for one synchronous stretch of JavaScript, from one
`await` (or callback) to the next: nothing of the same JavaScript process can
come in between. What is outside of the repository (services, network, React,
the DOM, the retry library) is modelled from how the code uses it, and marked
`external` in the `map` of `PROJECT.json`, which gives the lines of every
definition.

**`Retry`** - the decorator `@Retryable` of `typescript-retry-decorator` with the
configuration both plugins give it (splitgraph-import-csv-plugin.ts:63-75): the
number of attempts computed from an hour, an exponential, capped pause. The
record of one decorated call has the attempts left, the next pause, and the sum
of the pauses as a history.

**`ImportCSV`** - `SplitgraphImportCSVPlugin.importData` and all it calls. `pc[c]`
is the `await` a call waits at, or how its promise settled:

| `pc` | code |
|---|---|
| `fileUploadDownloadUrls`, `uploadCSV`, `startLoad`, `ingestionJobStatus`, `jobLogs` | the request that is out |
| `backOff` | a pause of the decorator |
| `success`, `failure` | resolved with `response.success` true or false |
| `error` | resolved with an error before there was a task |
| `rejected` | the decorator gave up: `MaxAttemptsError` |

A request is *served* in one step (`Serve...`) and its answer consumed in
another (`On...`), with the service moving on in between; `FailRequest` loses
the request or replaces an answer already given, so that a load may be accepted
and the caller told of an error. The service keeps `store` (objects behind
presigned URLs) and `tasks` (loads it accepted, oldest first, listed or not yet
listed). `Nodes` is the window `first: 10` of the status query, `matchingJob`
the search for the taskId. `OtherLoad` is anybody else's load into the same
repository. If only the job log cannot be had, the outcome is `failure`
although the job succeeded (lines 445-455): the code does this, so `OnJobLog`
does. Statuses that mean the same to the code are one: FAILURE stands for every
final status but SUCCESS.

**`TransferContract`** - what a caller of `importData` or `exportData` may rely on,
without requests or polls: a call runs until it settles with one outcome; its
work is done at most once; success only after the work is done; a failed call
may still be followed by it. `ImportCSV` implements it under the mapping at its
end, where the work is the load of the call's data.

**`ExportQuery`** - `ExportQueryPlugin.exportData`, built the same way. The outcome
`threw` is a rejection by `exportData` itself: it reads `parsedOutput.url`
before it looks at the error `waitForTask` returned, so a failed status request,
a failed job and a job with another output all throw. It implements
`TransferContract` too: the work is the file of the call's own query, and a call
that threw is one that settled with an error.

**`SplitgraphAuth`** - a `DbSplitgraph`, its default plugins and one HTTP client.
`current`, `baked` and `client` are the three copies of the credential. A key,
its secret and their owner are one value; a token is an account and a number,
0 for one the application brought along. `Init` is every result of
`makeSplitgraphHTTPContext` (precedence of `db`, `authenticatedCredential`,
`credential`, `client`) and of `makeDb`. `PluginHeaders` composes the header
transformations in the order `withOptions` does. `sent` is the last request.
Histories say whom the application meant the db and the client to speak for:
`owner` changes when the db is given a credential, `clientOwner` when a client is
made or given one, to the db's account of that moment if the client has no
credential of its own. An exchange changes neither. `RequestsSpeakForGiven`
compares them with what the headers of a request say (`Speakers`).

**`SqlClient`** - one `Client.execute`. Over HTTP the links of the promise chain are
the values of `pc`: the URL strategy (`OnQueryURL`), fetch options and request
(`Send`), the status and the fields of the header (`OnResponse`), the body
(`OnBody`), each with its way to fail. `call` says how the client was made: with
the strategies of `DbSeafowl` (`SeafowlOptions`: JSON lines, fields from the
arrow schema in the Content-Type), of `DbSplitgraph` (`SplitgraphOptions`: one
JSON document, fields from its key), or with strategies of the caller's own in
their place (`HttpOptions`). A body is up to `MaxLines` lines, each of which
is a row, blank, not JSON, or a row with a column named like a property every
object inherits (`constructor`), which the reducer of observed fields trips over
(client-http.ts:57-90). `SetCredential` and `Abort` come between any two links.
Over Postgres there is `Query` and its answer; the credential is that of the
connection. Calls share nothing they change, so one call has all the behaviour.

**`SeafowlQuery`** - method, URL, headers and text of a query to Seafowl, as pure
operators over queries that are sequences of tokens, among them the mark of a
line comment and a quotation mark: a line end behind the one or between two of
the other means something to SQL (`Means`, in `SeafowlContext`), and the
normalization replaces it like any other. SHA-256 is taken to be injective. The
module has no state and is checked within `SeafowlContext`.

**`SeafowlContext`** - a context of `makeSeafowlHTTPContext` at work; it extends
`SeafowlQuery`. `current` and `client` are the secrets of the db and of the
context's client, for every combination of options (`ContextOptions`). A call is
a query (`ExecuteQuery`, `AnswerQuery`, answered by an HTTP cache that may keep
or drop any GET), an export (there is none: `ExportData`) or an import:
`ImportData` looks for the plugin (`PluginToImport`) and copies the credential,
`Mount` sends CREATE EXTERNAL TABLE, `Load` sends CREATE TABLE AS whatever became
of the first. Both take the way of any query, so whether they are posted depends
on `guessMethodForQuery` of the text as the template literals lay it out. Each
statement may fail, or take effect and lose its answer; `Restart` forgets the
staging tables; `DropTable` is another client. A file is represented by the call
that imports it.

**`UseSql`** - a component that uses the hook: renders with another query or data
context, effects, answers in any order, rejections, unmounting. `broken`: React
gives a component up whose number of hooks changed, which happens because the
hook returns before `useEffect` without a data context. `late` is a history: the
execution was answered after a newer one. An execution here is an `execute` of
`SqlClient` seen from outside: it resolves (to a response or an error, which
`ErrorsAreValues` says is all that can come once a request is out) or rejects.

**`EventTarget`** - `makeEventTarget` of event-handler.ts. Everything is
synchronous, but listeners run *inside* `dispatch`: `frames` is the stack of
dispatches, and the actions of an application are enabled outside of any
dispatch or while a listener runs. The order of the listeners of an event is
left open.

**`Sandbox`** - the pages of the sandbox: a widget over one entry of localStorage,
the client built from it, and the input and output panes, in several tabs.
`usePersistedCredential` with `AuthWidget` and `usePersistedConfig` with
`ConfigWidget` are the same code written twice over two entries; `page` says
which. `loaded` and `shown` are the two instances of the hook in a tab. The
history `kept` has the pairs of a key and a secret that were in the entry at the
start, or that one click saved. In the panes an input is the number of its
changes; the listeners of a key that goes down see the input as it was before the
key. `KeyDown` is any key, with Cmd held or not, whether it changes the input or
not; "letter" stands for all keys but Cmd and Enter. `use` bounds a behaviour to the
widgets or to the panes: what a widget does changes nothing the panes look at
before the next load, so the two are checked side by side and not multiplied.
`PaneTabs` bounds the panes to some tabs, since those of two tabs share nothing.

`MCImportCSV`, `MCSplitgraphAuth`, `MCSqlClient`, `MCSeafowlContext` and
`MCEventTarget` add symmetry sets or values for TLC; the other modules are
checked as they are. `ImportCSVProofs`, `ExportQueryProofs`,
`SplitgraphAuthProofs`, `SqlClientProofs`, `SeafowlContextProofs`, `UseSqlProofs`,
`EventTargetProofs` and `SandboxProofs` hold the proofs. An operator marked `Mutant:` is a wrong
variant of the definition after it; with it in place of that definition TLC must
find the property named in `PROJECT.json` violated. No specification uses it.

## Runs

Each passing run explores its whole state space.

| Run | Properties | Shows |
|---|---|---|
| `MCImportCSV` | `SuccessIsReal` `LoadsOwnUpload` `OneLoadPerCall` `VerdictIsOwnJobs` `PollBudget` `Settles` `KeepsContract` | concurrent imports, all failures, all interleavings; the refinement of `TransferContract` |
| `MCImportCSV_window` | `SafelyFindsJob` | violated: finding 1 |
| `ExportQuery` | `SuccessIsExported` `OneExportPerCall` `PollBudget` `KeepsContract` | concurrent exports; the refinement of `TransferContract`, whose fairness makes every export settle |
| `MCSplitgraphAuth` | `RequestsFollowCurrent` `RequestsSpeakForGiven` `HoldsGrantedTokens` `SpeaksForLastGiven` | who each request speaks for, with overlapping exchanges and replacements |
| `MCSplitgraphAuth_baked` | `HeadersFollowCredential` | violated: finding 2 |
| `MCSqlClient` | `ResponsesAreWhole` `ErrorsAreValues` `SpeaksForClient` `FieldsTellColumns` `AbortEnds` | every header, body, mode, strategy, failure and abort |
| `MCSqlClient_abort` | `AbortIsNamed` | violated: finding 3 |
| `MCSeafowlContext` | `TypeOK` `AnswersTheQuery` `CachesWhatItNames` `NoErrorIsLoaded` `LoadsOwnFile` `SpeaksForOne` | queries behind a cache and imports of the same and of different tables, with failures, restarts, new credentials and four lists of plugins |
| `MCSeafowlContext_success` | `SuccessIsLoaded` | violated: finding 4 |
| `UseSql` | `ShowsCurrentQuery` `LoadingUntilAnswer` `StopsLoading` | answers in any order over changing queries and contexts |
| `Sandbox` | `TypeOK` `PairsStayTogether` `WriterShowsEntry` `EchoesInput` `ShowsNewestAnswer` | two tabs that type, save, clear and load over one entry; panes typed and pasted into, submitted and answered in any order |
| `MCEventTarget` | `Reachable` `RunsSubscribed` `CleansUp` | nested dispatches and repeated subscriptions |

### Bounds

| Run | Bounds | Why they are enough |
|---|---|---|
| `MCImportCSV` | 2 calls, 1 object, 2 loads (of the calls or others), a window of 2, two attempts with a capped second pause | two calls can take each other's job or URL, or lose it to somebody else's load; one pause is enough to retry the wrong thing, two for the cap to matter. That several objects and loads add nothing is not argued but proved (below). The numbers of the code - 358 attempts, 500 ms doubling to 10 s - are evaluated by the assumption `AnHourOfPolling`: all pauses together are between 59 and 60 minutes |
| `MCImportCSV_window` | 1 call, window 10 as in the code, 11 loads | one more than the window |
| `ExportQuery` | 2 calls, 2 exports, three attempts | as for imports; each call starts at most one export |
| `MCSplitgraphAuth` | 2 accounts, 2 exchanges, 2 tokens per account | the races are between two exchanges, or one exchange and a replacement; a second account makes a wrong credential visible |
| `MCSqlClient` | bodies of up to 2 lines; schemas of up to 2 columns out of nine: types with and without a width, three widths of one type, a foreign type, none, and a column that may be null | one unreadable line beside a row decides; two columns are what `FieldsTellColumns` compares; the proofs are for columns of every type and any length of a body |
| `MCSqlClient_abort` | bodies of 1 line | the body does not matter to the name of the error |
| `MCSeafowlContext` | 3 calls, 2 tables, 2 secrets; 4 queries, 4 lists of plugins | one mounts, one finds its staging table, a third loads, or a query is cached, looked up and dropped beside an import. Two of the queries have one fingerprint and two meanings (a quoted line end and a quoted blank), one has a comment, one writes after WITH; the lists put a literal behind and before, a second importer and a plugin without options. That more calls, tables, queries and plugins add nothing is proved |
| `UseSql` | 2 queries, 2 contexts, 3 executions | two late answers over a newer one; back to an earlier query |
| `Sandbox` | 2 tabs, one with a bad URL; the panes of one tab, 3 changes and 3 submissions | two tabs can overwrite each other's entry, and read it before and after; three answers can come in any order; the panes of two tabs share nothing; more tabs, changes and submissions are the subject of the proofs |
| `MCEventTarget` | 2 events, 2 listeners, 3 subscriptions, 2 nested dispatches | a pair subscribed twice and another one, cleaned up in an inner dispatch; the general case is proved |

`SeafowlContext`, `SplitgraphAuth` and `SqlClient` need no bound on time: every
call goes through each of its points once. Symmetry is used for calls, tables,
secrets, accounts, events, listeners and subscriptions where no liveness
property is checked. `CHECK_DEADLOCK FALSE` stands only where the system may
really stop: when all calls have settled or the component is gone.

## Fairness

- *Plugins* (`ImportCSV`, `ExportQuery`): a continuation whose promise settled
  runs, and a timer fires, because the event loop runs them. Nothing makes an
  application call `importData`, so a call that has not begun has no fairness.
- *Services*: a request is answered or fails (`WF` of the disjunction). This is
  what `fetch` promises, if one takes the network stack's own timeout for
  granted; neither plugin has one. Nothing makes a job proceed: `Settles` and the fairness
  of `TransferContract` hold although jobs may never finish or never be listed, because attempts run out.
- *`SqlClient`*: continuations run, and a fetch or body whose signal was
  aborted does reject. No fairness makes a server answer: without an abort
  `execute` may wait forever, and no property says otherwise.
- *`UseSql`*: React runs the effects of a committed render; an execution
  settles, one way or the other.
- `SplitgraphAuth`, `SeafowlContext`, `Sandbox` and `EventTarget` have safety
  properties only and no fairness.

## What is proved

For all values of the constants that satisfy the assumptions in the modules, of
which none bounds the number of calls, objects, loads, executions, accounts,
tables, queries and their length, plugins, columns, tabs, events or listeners:

| Theorem | States |
|---|---|
| `ImportCSVProofs!SleepsAtMostTimeout` | a call within its attempts has paused at most `MAX_POLL_TIMEOUT`; the lemma `AttemptsFitTimeout` is the arithmetic of `Math.ceil` behind it |
| `ImportCSVProofs!TypeCorrect`, `SuccessCorrect`, `LoadsUploaded`, `StartsOneLoad`, `VerdictCorrect`, `PollsWithinBudget` | `TypeOK`, `SuccessIsReal`, `LoadsOwnUpload`, `OneLoadPerCall`, `VerdictIsOwnJobs`, `PollBudget` of imports |
| `ImportCSVProofs!ImplementsContract`, `ExportQueryProofs!ImplementsContract` | imports and exports implement the safety part of `TransferContract` |
| `ExportQueryProofs!TypeCorrect`, `SuccessCorrect`, `StartsOneExport`, `PollsWithinBudget` | the same of exports |
| `SplitgraphAuthProofs!TypeCorrect`, `PluginsFollowCurrent`, `OnlyForGiven`, `OnlyGrantedTokens`, `SpeaksForOwner` | `TypeOK`, `RequestsFollowCurrent`, `RequestsSpeakForGiven`, `HoldsGrantedTokens`, `SpeaksForLastGiven` |
| `SqlClientProofs!TypeCorrect`, `CallSpeaksForClient`, `ExecuteSettlesWithValues`, `WholeResponses`, `ColumnsTold` | `TypeOK`, `SpeaksForClient`, `ErrorsAreValues`, `ResponsesAreWhole`, `FieldsTellColumns` |
| `SeafowlContextProofs!NoErrorMeansLoaded`, `OwnFileLoaded`, `OneSecretPerCall` | `NoErrorIsLoaded`, `LoadsOwnFile`, `SpeaksForOne` |
| `SeafowlContextProofs!TypeCorrect`, `QueriesAnswered`, `CacheNamed` | `TypeOK`, `AnswersTheQuery`, `CachesWhatItNames` |
| `UseSqlProofs!TypeCorrect`, `CurrentQueryShown`, `LoadsUntilAnswer` | `TypeOK`, `ShowsCurrentQuery`, `LoadingUntilAnswer` |
| `EventTargetProofs!EveryListenerReachable`, `OnlySubscribedRun`, `CleanupIsComplete` | `Reachable`, `RunsSubscribed`, and the action property `CleansUp` |
| `SandboxProofs!TypeCorrect`, `SavedTogether`, `LastWriterShows`, `EchoKeepsUp`, `NewestAnswerShown` | `TypeOK`, `PairsStayTogether`, `WriterShowsEntry`, `EchoesInput`, `ShowsNewestAnswer` |

With these every invariant and every action property of the passing runs is a
theorem. Each of these modules also has a theorem `Inductive`, for its `IInv`.

**The invariant of imports.** `SuccessIsReal` is not inductive: a state where a
call holds another call's taskId satisfies it until that job succeeds. `IInv`
follows a taskId from where it is issued to where it is used:

1. `ReplyFits`, `UrlFits` - an answer is to the request that is out, and a url
   is the caller's own, or an object's.
2. `ObjectsExclusive` - a presigned URL is in one answer or held by one call, so
   nobody else writes to its object.
3. `UploadedFirst` - past the upload the object holds the caller's data.
4. `TasksFit` - a load belongs to a call that has asked for it, reads that
   call's url, and if it succeeded there was the call's data.
5. `TaskIsOwn`, `StatusIsOwn` - the taskId in an answer or in a local is the
   caller's own load, and a final status that was seen stays true.

Together with `OneLoadPerCall`, which needs 4 to exclude that a call asks twice,
these are preserved by each action (`IInvStep`: one step per action, under it
one per conjunct the action can disturb). `PollBudget` has an invariant of its
own, `Budgets`: pauses so far plus the attempts left, each at the longest pause,
fit the timeout.

**The invariant of exports** is the same argument without uploads: answers and
locals name the caller's own job (`ReplyFits`, `TaskIsOwn`), and only a job that
succeeded has a URL (`JobsFit`).

**The invariant of the event target**: `Reachable` (every attached pair has its
`remove()` in the list) is inductive only with `RunsAttached` beside it, which
carries the listeners of the dispatches in progress; `OnlySubscribedRun` and
`CleanupIsComplete` follow from the two.

**The refinements.** Under the mapping of `Contract` a call is idle,
running or settled, and its data is loaded once a load of its own succeeded.
`PluginKeepsContract` shows that each continuation begins the call, settles it or
is invisible, with success only after the load (`TaskIsOwn`, `StatusIsOwn`);
`AdvanceKeepsContract` that a job that succeeds is a first `Finish`: the call has
no other job (`OneLoadPerCall`), has begun (`TasksFit`) and cannot have reported
success already. For exports the lemmas have the same names and the argument is
the same, with `UrlMeansWritten` in the place of the status: what a call looks at
is the url of an output, and only the call's own finished job can have put one
into its answer.

**The invariant of authentication.** `SpeaksForLastGiven` speaks of the present
credential only; `OwnedUnlessLost` says of every exchange under way that it is of
a keypair of the owner, unless it was overtaken, and `Exchanges` that the token
in an answer belongs to the keypair that was posted. `HoldsGrantedTokens` needs
`Exchanges` too: a token is installed only from an answer that reported success.
For `RequestsSpeakForGiven` the client's credential is followed from where it is
given to where it is sent (`ClientIsGiven`): a client that is made without a
credential of its own gets the db's, which is the owner's by `OwnedUnlessLost`
(or, after a lost race, by definition of `DbOwner`); and whatever the
credential, the headers made of it name its account (`SpeakersOfCredential`).

**The invariant of a call of `execute`** is short (`Unsent`): before its request a
call has sent nothing and the client's credential is among those it had, and a
body is read only over HTTP and of an ok answer. Its type invariant carries the
result, so that `Nothing` is told from responses and errors. `ResponsesAreWhole`
then is about the one step that reads a body (`ReadingIsWhole`: every way through
`ReadJSONLines` and `ReadJSON`). For `FieldsTellColumns` the fields have to be
remembered from the header to the body (`FieldsParsed`), only clients of JSON
lines parse a header (`SqlOptions`), and two different types of Seafowl's have
different SQL types (`SqlTypesDiffer`), which the proof goes through one by one.

**The invariant of a Seafowl context** follows the staging table from one
statement to the other: what is staged under a name is the file of a call that
imports that table (`Staged`), what was created came from such a file
(`CreatedFromStaged`), and a call that mounted without an error owns its staging
table until Seafowl restarts (`OwnsStagingUnlessTold`) - which holds only because
a second CREATE EXTERNAL TABLE of the name fails. `SilentAtFirst` is for
`SpeaksForOne`.

**The invariant of its queries** is `QInv`. What is cached is the normalized text
of a read, under the URL its query gets (`CachedReads`). A hit is found by URL, so
the entry was made of a query with the same fingerprint, hence with the same
normalized text (`HitIsAnswer`). That the normalized text is the query's own as SQL
reads it, unless the query has a line end that `Means` something (`Plain`,
`Normalized`, `RequestText`), is a fact about `Trim`: a trimmed text begins and
ends with a token that is no blank (`TrimFacts`), so trimming it again changes
nothing (`TrimOfTrimmed`); and the normalization puts a blank for each line end
and leaves every quotation mark in its place. `Trim` is defined by the least and the
greatest position of such a token; that there is one is proved by a smallest
counterexample, with the well-foundedness of the naturals from the library
(`LeastNatural`).

**The invariant of the sandbox** adds one fact to its properties: an entry that a
widget wrote parses (`WrittenParses`), so that the writer shows it. That a key and
a secret which no single click saved never meet holds because a save assigns both
inputs to the entry, typed into or not: what the entry becomes is the pair that
was clicked (`MergedPair`), and that is in `kept` if it is complete; loads only
copy it (`ParsedPair`). The properties of the panes (`EchoesInput`,
`ShowsNewestAnswer`) are inductive together with the types.

**The invariant of `useSql`**: executions are numbered as the effects ran and the
last is of the committed query (`ExecutionsInOrder`), and without a late answer
no answered execution is newer than the one shown (`NewestIsShown`).

Every `IInv` is true of the instances TLC explores as well (adding it to the
`INVARIANTS` of a run checks it); the runs do not repeat it, nor a type invariant
that is a theorem, since the theorems hold of every instance.

**Model-checked only:** liveness (`Settles`, `AbortEnds`, `StopsLoading`, and the
fairness part of the two `KeepsContract`), which is out of the prover's reach like
`ENABLED`, induction over data and recursive operators. `SelectSeq` is recursive
underneath, so nothing is proved of which lines `RowsOf` keeps: a response is
proved to hold exactly `RowsOf` of its body.

**Assumptions:** `RetryAssumption` (the head start leaves room for one longest
pause; satisfied by the numbers of the code), `ImportAssumption` (the values
that stand for "none" are not calls or objects), `ContextAssumption` (queries are
sequences of tokens, lists of plugins sequences of plugins), `ColumnsAssumption` (a
column is a type and whether it may be null), `SandboxAssumption` (a text that
does not parse, and an entry that is missing, are no pair), and those of the other
modules, which only say that bounds are numbers and that "none" (`Undefined`,
`Nothing`, `None`) is none of the values it is told from. TLC evaluates all of
them.

## Where the code and its documents disagree

1. **The window of ten jobs** (`SafelyFindsJob`). The status query asks for the
   ten most recent jobs of the repository, "to safely find the one matching
   taskId" (splitgraph-import-csv-plugin.ts:271-273). With ten newer loads the
   job is not among them, although it runs or is done; polling goes on until the
   attempts are used up and `importData` rejects. `SuccessIsReal` and `Settles`
   hold nevertheless.
2. **The baked credential** (`HeadersFollowCredential`).
   `makeDefaultPluginList` captures the credential of the constructor, and the
   headers of the plugin win over those of the db, so imports and exports go on
   with the first credential after `setAuthenticatedCredential`. The comment at
   db-splitgraph.ts:116 wants them to follow. With plugins of the caller they do
   (`RequestsFollowCurrent`), which is what the test checks.
3. **The unnamed abort** (`AbortIsNamed`). An abort before the headers arrive is
   an error named `AbortError`, as core/seafowl.test.ts:99 says; one while the
   body is read loses its name and gets the type "unknown".
4. **Success of a Seafowl import** (`SuccessIsLoaded`). `response.success` is
   true on every path; the test in core/splitgraph-seafowl-sync.test.ts takes it
   for the outcome. `error` does tell (`NoErrorIsLoaded`).
5. **The name of a plugin** (no run: the name is a parameter the code never
   reads). The test of the registry describes a function "analogous to
   BaseDb.importData() or BaseDb.exportData()" that "takes a pluginName, finds a
   plugin with that pluginName" and the method
   (base-db/plugin-registry.test.ts:40-45), and says of `db.importData("csv",
   ...rest)` that `rest` is for the plugin that "also has the name of "csv""
   (244-247). Both dbs
   select by the method alone and take the last plugin that has it, whatever its
   name (db-seafowl.ts:301-303, db-splitgraph.ts:349-351); and since they look for
   the method in the prototype, they do not find a plugin that is an object
   literal, which the FIXME at 60-61 of the test would rather have handled
   "transparently to the caller". `PluginToImport` has it as the code does; no
   property claims more.

Behaviour that no document speaks of, and that the models have as it is: a late
answer overwrites a newer one in `useSql`; an exchange of a keypair overwrites a
credential set while it was under way (`SpeaksForLastGiven` names exactly this
exception); an array-mode query over JSON lines with one unreadable line
resolves to a response without rows and without an error; a line comment in a
read comments out the rest of the query, because line ends become blanks
(base-db.ts:226); for the same reason a line end within a quoted literal or
identifier is executed, fingerprinted and cached as a blank, so that a read of
'a(line end)b' is answered as one of 'a b' (`AnswersTheQuery` excepts a query with
such line ends, and no other: the reader of 'a b' is answered right, whatever
shares its fingerprint); a page over a stored URL that is none fails to render,
with the widget that could replace it; after a failed mount a Seafowl import may
load the file another import mounted.

## What is not modelled

- *The registry's `registerPlugins`, `unregisterPlugins`, `callFunction`*: no code of
  the packages calls them; the lists of `PluginLists` stand for what they make.
- *The readable stream of a result*: the code returns an empty one.
- *Hosts, database names, types*: constants. The types of the packages carry
  much of their design and have no behaviour.
- *Row data*: a row is a row. That a body's numbers and strings arrive as they
  were is the business of `JSON.parse`.
- *Pooling and sessions of the Postgres library*: external, one connection here.
- *yeet, ast-parser, scripts, examples, code generation, test setup*: development
  aids. The script that prefixes log lines is string handling; its
  handling of line ends has no reader in the packages.
- The schema name of a Seafowl import, which the code ignores by its own TODO.
- React's concurrent and strict modes: an effect runs once per commit.
- `DebugQueryAST` is the panes over a timer, and the pages with `useSql` are the
  component of `UseSql` with one query: they have no model of their own.

## Plan

Done, in this order: `Retry`, `ImportCSV` with its contract, `ExportQuery`,
their proofs; `SplitgraphAuth`; `UseSql`; `EventTarget` and its proofs; then
`SqlClient`, with the fields, the strategies, the credential and the Postgres
client; `SeafowlContext`, in which queries, plugin lookup and imports meet;
`Sandbox`; the proofs about authentication, `execute`, the Seafowl context and
`useSql`; the refinement of the contract by imports; then the proofs about
queries and the cache, about fields and rows, and about the sandbox; and the
refinement of `TransferContract` by exports.

What could follow: an abstract specification of `execute` that `SqlClient`
implements and `UseSql` uses, and one of the cache, a client that asks Seafowl
every time; and, when the code has them, a timeout of `execute` and the
cancellation of superseded queries in `useSql`, for which `AbortEnds` and
`ShowsCurrentQuery` are the places to start.
