----------------------------- MODULE ImportCSV -----------------------------
(***************************************************************************)
(* SplitgraphImportCSVPlugin.importData: concurrent calls that upload a    *)
(* CSV to a presigned URL, ask Splitgraph to load it, and poll the load's  *)
(* ingestion job until it is resolved.                                     *)
(*                                                                         *)
(* Every request is two steps of the world: the service handles it         *)
(* (Serve...) and the plugin continues after its `await' (On...).  In      *)
(* between the service moves on, and the request or its answer may be lost *)
(* (FailRequest).  The plugin keeps no state of its own between calls: the *)
(* per-call variables are the locals of the async functions.               *)
(***************************************************************************)
EXTENDS Retry, Sequences, FiniteSets

CONSTANTS Calls,     \* concurrent calls of importData, all to one repository
          Objects,   \* the objects presigned URLs can name
          WINDOW,    \* `first: 10' of the job status query
          MaxTasks,  \* bound: loads the service ever accepts
          NoUrl,     \* url: undefined
          Unissued,  \* an object no presigned URL has been handed out for
          NoData,    \* an object that was not uploaded yet
          Other      \* whoever else loads into the same repository

ASSUME ImportAssumption ==
  /\ WINDOW \in Nat \ {0}
  /\ MaxTasks \in Nat
  /\ Calls \cap Objects = {}
  /\ NoUrl \notin Calls \cup Objects
  /\ {Unissued, NoData, Other} \cap Calls = {}
  /\ Unissued # NoData

VARIABLES pc,     \* where the call awaits, or what its promise settled with
          url,    \* sourceOptions.url; during the upload, the presigned URL
          task,   \* taskId returned by startLoad, 0 before
          known,  \* jobStatusResponse.status of the poll that resolved the job
          retry,  \* the decorator's state for waitForTask
          reply,  \* what the outstanding request was answered with
          store,  \* service: the object storage behind presigned URLs
          tasks   \* service: the loads it accepted, oldest first

callVars == <<pc, url, task, known, retry, reply>>
serviceVars == <<store, tasks>>
vars == <<callVars, serviceVars>>

-----------------------------------------------------------------------------
(* Task statuses.  FAILURE stands for every final status but SUCCESS       *)
(* (REVOKED, LOST, TIMED_OUT); UNLISTED is a load the service accepted but *)
(* does not list among the repository's ingestion jobs yet.                *)

standbyStatuses == {"PENDING", "STARTED"}
FinalStatuses == {"SUCCESS", "FAILURE"}
TaskStatus == standbyStatuses \cup FinalStatuses

taskUnresolved(status) == status \in standbyStatuses

Requests == {"fileUploadDownloadUrls", "uploadCSV", "startLoad",
             "ingestionJobStatus", "jobLogs"}
Outcomes == {"success", "failure", "error", "rejected"}
Points == {"idle", "backOff"} \cup Requests \cup Outcomes

Task == [owner : Calls \cup {Other}, url : Calls \cup Objects \cup {NoUrl},
         status : TaskStatus \cup {"UNLISTED"}]

Reply == [kind : {"none", "error", "ok", "empty"}]
           \cup [kind : {"object"}, object : Objects]
           \cup [kind : {"task"}, task : Nat \ {0}]
           \cup [kind : {"status"}, status : TaskStatus]

Nothing == [kind |-> "none"]

-----------------------------------------------------------------------------
Init ==
  /\ pc = [c \in Calls |-> "idle"]
  /\ url = [c \in Calls |-> NoUrl]
  /\ task = [c \in Calls |-> 0]
  /\ known = [c \in Calls |-> "UNKNOWN"]
  /\ retry = [c \in Calls |-> FirstAttempt]
  /\ reply = [c \in Calls |-> Nothing]
  /\ store = [o \in Objects |-> Unissued]
  /\ tasks = << >>

\* The call leaves its await: it consumes the reply and goes to `point'.
Continue(c, point) ==
  /\ pc' = [pc EXCEPT ![c] = point]
  /\ reply' = [reply EXCEPT ![c] = Nothing]

Answered(c, request) == pc[c] = request /\ reply[c].kind # "none"
Awaiting(c, request) == pc[c] = request /\ reply[c].kind = "none"

-----------------------------------------------------------------------------
(* The plugin.                                                             *)

\* importData with CSV data: sourceOptions.data is truthy, so it is uploaded.
ImportFromData(c) ==
  /\ pc[c] = "idle"
  /\ Continue(c, "fileUploadDownloadUrls")
  /\ UNCHANGED <<url, task, known, retry, serviceVars>>

\* importData from a URL, or with data that is falsy ("" has no url to load).
ImportFromURL(c) ==
  /\ pc[c] = "idle"
  /\ \E given \in {c, NoUrl} : url' = [url EXCEPT ![c] = given]
  /\ Continue(c, "startLoad")
  /\ UNCHANGED <<task, known, retry, serviceVars>>

\* Mutant: does not wait for the upload before it starts the load.
OnPresignedURLUploadNotAwaited(c) ==
  /\ Answered(c, "fileUploadDownloadUrls")
  /\ \/ /\ reply[c].kind = "object"
        /\ url' = [url EXCEPT ![c] = reply[c].object]
        /\ Continue(c, "startLoad")
     \/ /\ reply[c].kind # "object"
        /\ Continue(c, "error")
        /\ UNCHANGED url
  /\ UNCHANGED <<task, known, retry, serviceVars>>

OnPresignedURL(c) ==
  /\ Answered(c, "fileUploadDownloadUrls")
  /\ \/ /\ reply[c].kind = "object"
        /\ url' = [url EXCEPT ![c] = reply[c].object]
        /\ Continue(c, "uploadCSV")
     \/ /\ reply[c].kind # "object"
        /\ Continue(c, "error")
        /\ UNCHANGED url
  /\ UNCHANGED <<task, known, retry, serviceVars>>

OnUploaded(c) ==
  /\ Answered(c, "uploadCSV")
  /\ Continue(c, IF reply[c].kind = "ok" THEN "startLoad" ELSE "error")
  /\ UNCHANGED <<url, task, known, retry, serviceVars>>

OnLoadStarted(c) ==
  /\ Answered(c, "startLoad")
  /\ \/ /\ reply[c].kind = "task"
        /\ task' = [task EXCEPT ![c] = reply[c].task]
        /\ Continue(c, "ingestionJobStatus")
     \/ /\ reply[c].kind # "task"
        /\ Continue(c, "error")
        /\ UNCHANGED task
  /\ UNCHANGED <<url, known, retry, serviceVars>>

\* Mutant: the attempts are never used up.
PollAgainForever(c) ==
  /\ retry' = [retry EXCEPT ![c] = IF Exhausted(@) THEN @ ELSE AfterPause(@)]
  /\ Continue(c, "backOff")

\* waitForTask throws { type: "retry" }: the decorator pauses or gives up.
PollAgain(c) ==
  \/ /\ Exhausted(retry[c])
     /\ Continue(c, "rejected")
     /\ UNCHANGED retry
  \/ /\ ~Exhausted(retry[c])
     /\ retry' = [retry EXCEPT ![c] = AfterPause(@)]
     /\ Continue(c, "backOff")

OnJobStatus(c) ==
  /\ Answered(c, "ingestionJobStatus")
  /\ \/ /\ reply[c].kind = "error"
        /\ Continue(c, "failure")
        /\ UNCHANGED <<known, retry>>
     \/ /\ \/ reply[c].kind = "empty"
           \/ reply[c].kind = "status" /\ taskUnresolved(reply[c].status)
        /\ PollAgain(c)
        /\ UNCHANGED known
     \/ /\ reply[c].kind = "status"
        /\ ~taskUnresolved(reply[c].status)
        /\ known' = [known EXCEPT ![c] = reply[c].status]
        /\ Continue(c, "jobLogs")
        /\ UNCHANGED retry
  /\ UNCHANGED <<url, task, serviceVars>>

\* Mutant: the decorator sits on the whole import instead of waitForTask.
WakeUpRestartsLoad(c) ==
  /\ pc[c] = "backOff"
  /\ Continue(c, "startLoad")
  /\ UNCHANGED <<url, task, known, retry, serviceVars>>

WakeUp(c) ==
  /\ pc[c] = "backOff"
  /\ Continue(c, "ingestionJobStatus")
  /\ UNCHANGED <<url, task, known, retry, serviceVars>>

\* Mutant: any resolved job with a log counts as a success.
OnJobLogAnyStatus(c) ==
  /\ Answered(c, "jobLogs")
  /\ Continue(c, IF reply[c].kind = "ok" THEN "success" ELSE "failure")
  /\ UNCHANGED <<url, task, known, retry, serviceVars>>

\* Without a job log waitForTask has no response, whatever the job's status was.
OnJobLog(c) ==
  /\ Answered(c, "jobLogs")
  /\ Continue(c, IF reply[c].kind = "ok" /\ known[c] = "SUCCESS"
                   THEN "success" ELSE "failure")
  /\ UNCHANGED <<url, task, known, retry, serviceVars>>

-----------------------------------------------------------------------------
(* Splitgraph and the network (external).                                  *)

Answer(c, r) ==
  /\ reply' = [reply EXCEPT ![c] = r]
  /\ UNCHANGED <<pc, url, task, known, retry>>

ServePresignedURL(c) ==
  /\ Awaiting(c, "fileUploadDownloadUrls")
  /\ \E o \in Objects :
       /\ store[o] = Unissued
       /\ store' = [store EXCEPT ![o] = NoData]
       /\ Answer(c, [kind |-> "object", object |-> o])
  /\ UNCHANGED tasks

ServeUpload(c) ==
  /\ Awaiting(c, "uploadCSV")
  /\ store' = [store EXCEPT ![url[c]] = c]
  /\ Answer(c, [kind |-> "ok"])
  /\ UNCHANGED tasks

ServeStartLoad(c) ==
  /\ Awaiting(c, "startLoad")
  /\ Len(tasks) < MaxTasks
  /\ tasks' = Append(tasks, [owner |-> c, url |-> url[c], status |-> "UNLISTED"])
  /\ Answer(c, [kind |-> "task", task |-> Len(tasks) + 1])
  /\ UNCHANGED store

Listed == {t \in DOMAIN tasks : tasks[t].status # "UNLISTED"}

\* The nodes of the answer: the `first' WINDOW of the repository's jobs.
Nodes == {t \in Listed : Cardinality({u \in Listed : u > t}) < WINDOW}

\* Mutant: takes the most recent job for the call's own.
matchingJobMostRecent(taskId) ==
  {t \in Nodes : \A u \in Nodes : u <= t}

\* nodes.find((node) => node.taskId === taskId)
matchingJob(taskId) == {t \in Nodes : t = taskId}

\* The service's answer, with the plugin's search through it.
ServeJobStatus(c) ==
  /\ Awaiting(c, "ingestionJobStatus")
  /\ \/ /\ matchingJob(task[c]) = {}
        /\ Answer(c, [kind |-> "empty"])
     \/ \E t \in matchingJob(task[c]) :
          Answer(c, [kind |-> "status", status |-> tasks[t].status])
  /\ UNCHANGED serviceVars

ServeJobLog(c) ==
  /\ Awaiting(c, "jobLogs")
  /\ \E k \in {"ok", "empty"} : Answer(c, [kind |-> k])
  /\ UNCHANGED serviceVars

\* The request fails on its way there, at the service, or on its way back.
FailRequest(c) ==
  /\ pc[c] \in Requests
  /\ reply[c].kind # "error"
  /\ Answer(c, [kind |-> "error"])
  /\ UNCHANGED serviceVars

\* Whose data a load from u reads.
Content(u) == IF u \in Objects THEN store[u] ELSE u

\* A load can only succeed when there is something at its URL.
AdvanceTask(t) ==
  /\ tasks[t].owner # Other
  /\ \E s \in TaskStatus :
       /\ \/ tasks[t].status = "UNLISTED" /\ s = "PENDING"
          \/ tasks[t].status = "PENDING" /\ s = "STARTED"
          \/ tasks[t].status = "STARTED" /\ s \in FinalStatuses
       /\ s = "SUCCESS" => Content(tasks[t].url) \in Calls
       /\ tasks' = [tasks EXCEPT ![t].status = s]
  /\ UNCHANGED <<callVars, store>>

\* Somebody else starts a load; only its place in the list of jobs matters.
OtherLoad ==
  /\ Len(tasks) < MaxTasks
  /\ tasks' = Append(tasks, [owner |-> Other, url |-> NoUrl, status |-> "PENDING"])
  /\ UNCHANGED <<callVars, store>>

-----------------------------------------------------------------------------
Plugin(c) ==
  \/ ImportFromData(c)
  \/ ImportFromURL(c)
  \/ OnPresignedURL(c)
  \/ OnUploaded(c)
  \/ OnLoadStarted(c)
  \/ OnJobStatus(c)
  \/ WakeUp(c)
  \/ OnJobLog(c)

Service(c) ==
  \/ ServePresignedURL(c)
  \/ ServeUpload(c)
  \/ ServeStartLoad(c)
  \/ ServeJobStatus(c)
  \/ ServeJobLog(c)
  \/ FailRequest(c)

Next ==
  \/ \E c \in Calls : Plugin(c) \/ Service(c)
  \/ \E t \in 1..Len(tasks) : AdvanceTask(t)
  \/ OtherLoad

\* The event loop resumes a settled await and fires timers, and every request
\* is answered or fails.  Nobody promises that a load ever finishes, nor that
\* a caller calls.
Fairness ==
  \A c \in Calls :
    /\ WF_vars(Service(c))
    /\ WF_vars(pc[c] # "idle" /\ Plugin(c))

Spec == Init /\ [][Next]_vars /\ Fairness

-----------------------------------------------------------------------------
TypeOK ==
  /\ pc \in [Calls -> Points]
  /\ url \in [Calls -> Calls \cup Objects \cup {NoUrl}]
  /\ task \in [Calls -> Nat]
  /\ known \in [Calls -> FinalStatuses \cup {"UNKNOWN"}]
  /\ retry \in [Calls -> RetryState]
  /\ reply \in [Calls -> Reply]
  /\ store \in [Objects -> Calls \cup {Unissued, NoData}]
  /\ tasks \in Seq(Task)

\* { success: true } is only ever returned when the service finished a load
\* that this very call started, and what that load read is what the caller
\* passed: its own CSV data, or the URL it named.
SuccessIsReal ==
  \A c \in Calls :
    pc[c] = "success" =>
      /\ task[c] \in DOMAIN tasks
      /\ tasks[task[c]].owner = c
      /\ tasks[task[c]].status = "SUCCESS"
      /\ Content(tasks[task[c]].url) = c

\* No load is started from an object that holds no data yet or another
\* call's data: startLoad waits for the upload to this call's own URL.
LoadsOwnUpload ==
  \A t \in DOMAIN tasks :
    tasks[t].url \in Objects => store[tasks[t].url] = tasks[t].owner

\* Polling, pauses and retries never start the same import twice.
OneLoadPerCall ==
  \A t, u \in DOMAIN tasks :
    t # u /\ tasks[t].owner = tasks[u].owner => tasks[t].owner = Other

\* The pauses between polls add up to no more than MAX_POLL_TIMEOUT.
PollBudget == \A c \in Calls : retry[c].slept <= MAX_POLL_TIMEOUT

\* The status a call acts on is its own job's and final: other loads into the
\* repository, however they interleave with the polls, do not stand in for it.
VerdictIsOwnJobs ==
  \A c \in Calls :
    known[c] # "UNKNOWN" =>
      tasks[task[c]].owner = c /\ tasks[task[c]].status = known[c]

\* Every call of importData settles: whatever the service does, the promise
\* does not hang as long as requests are answered or fail.
Settles == \A c \in Calls : pc[c] # "idle" ~> pc[c] \in Outcomes

\* "we fetch last 10 jobLogs to safely find the one matching taskId": a
\* status answer misses the call's job only while the job is not listed.
SafelyFindsJob ==
  [][\A c \in Calls :
       pc[c] = "ingestionJobStatus" /\ reply[c].kind = "none"
         /\ reply'[c].kind = "empty"
       => tasks[task[c]].status = "UNLISTED"]_vars

-----------------------------------------------------------------------------
(* The inductive invariant behind the properties above, in parts.          *)

\* Where a call is once its load was accepted.
Polling == {"ingestionJobStatus", "backOff", "jobLogs"}

\* A reply answers the request the call waits for.
ReplyFits ==
  \A c \in Calls :
    /\ reply[c].kind = "object" => pc[c] = "fileUploadDownloadUrls"
    /\ reply[c].kind = "task" => pc[c] = "startLoad"
    /\ reply[c].kind = "status" => pc[c] = "ingestionJobStatus"
    /\ pc[c] \in {"idle", "backOff"} \cup Outcomes => reply[c].kind = "none"

\* A call that did not get past its presigned URL has no url; later it has its
\* own presigned object, the URL it was given, or none.
UrlFits ==
  \A c \in Calls :
    /\ url[c] \in Objects \cup {c, NoUrl}
    /\ pc[c] \in {"idle", "fileUploadDownloadUrls"} => url[c] = NoUrl
    /\ pc[c] = "uploadCSV" => url[c] \in Objects

\* An object is handed out once: its presigned URL is in one answer or held by
\* one call, and nobody else writes to it.
ObjectsExclusive ==
  \A c \in Calls :
    /\ reply[c].kind = "object" =>
         /\ store[reply[c].object] = NoData
         /\ \A d \in Calls : /\ url[d] # reply[c].object
                             /\ d # c /\ reply[d].kind = "object"
                                  => reply[d].object # reply[c].object
    /\ url[c] \in Objects =>
         /\ store[url[c]] \in {NoData, c}
         /\ \A d \in Calls : url[d] = url[c] => d = c

\* What is loaded from an object was uploaded to it before.
UploadedFirst ==
  \A c \in Calls :
    url[c] \in Objects =>
      /\ pc[c] = "uploadCSV" /\ reply[c].kind = "ok" => store[url[c]] = c
      /\ pc[c] \in {"startLoad"} \cup Polling \cup {"success", "failure", "rejected"}
           => store[url[c]] = c

\* A load belongs to a call that has asked for it and reads that call's url.
TasksFit ==
  /\ \A t \in DOMAIN tasks : tasks[t].owner = Other => tasks[t].url = NoUrl
  /\ \A t \in DOMAIN tasks : \A c \in Calls :
       tasks[t].owner = c =>
         /\ tasks[t].url = url[c]
         /\ \/ pc[c] = "startLoad" /\ reply[c].kind # "none"
            \/ pc[c] \in Polling \cup Outcomes
         /\ url[c] \in Objects => store[url[c]] = c
         /\ tasks[t].status = "SUCCESS" => Content(url[c]) = c

\* The taskId a call was given, or is about to read, is its own load's.
TaskIsOwn ==
  \A c \in Calls :
    /\ reply[c].kind = "task" =>
         reply[c].task \in DOMAIN tasks /\ tasks[reply[c].task].owner = c
    /\ task[c] # 0 => task[c] \in DOMAIN tasks /\ tasks[task[c]].owner = c
    /\ pc[c] \in Polling \cup {"success"} => task[c] # 0

\* Final statuses are final, in an answer on its way and in the call's locals.
StatusIsOwn ==
  \A c \in Calls :
    /\ reply[c].kind = "status" /\ reply[c].status \in FinalStatuses
         => tasks[task[c]].status = reply[c].status
    /\ known[c] # "UNKNOWN" => task[c] # 0 /\ tasks[task[c]].status = known[c]
    /\ pc[c] = "success" => known[c] = "SUCCESS"

IInv ==
  /\ TypeOK
  /\ ReplyFits
  /\ UrlFits
  /\ ObjectsExclusive
  /\ UploadedFirst
  /\ TasksFit
  /\ OneLoadPerCall
  /\ TaskIsOwn
  /\ StatusIsOwn

-----------------------------------------------------------------------------
\* importData keeps the contract a caller sees: the mapping forgets where a
\* call waits, and its data counts as loaded once a load of it succeeded.
Contract == INSTANCE TransferContract WITH
  state <- [c \in Calls |-> IF pc[c] \in Outcomes \cup {"idle"} THEN pc[c] ELSE "running"],
  done <- [c \in Calls |-> \E t \in DOMAIN tasks :
               tasks[t].owner = c /\ tasks[t].status = "SUCCESS"]

KeepsContract == Contract!ContractSpec
=============================================================================
