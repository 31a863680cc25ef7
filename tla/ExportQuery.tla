---------------------------- MODULE ExportQuery ----------------------------
(***************************************************************************)
(* ExportQueryPlugin.exportData: concurrent calls that start an export job *)
(* for a query and poll the job by its id until it is resolved.  As in     *)
(* ImportCSV a request is handled by the service in one step and its       *)
(* answer consumed in another, and may be lost in between.                 *)
(***************************************************************************)
EXTENDS Retry, Sequences

CONSTANTS Calls,      \* concurrent calls of exportData, each with its own query
          MaxExports  \* bound: export jobs the service ever accepts

ASSUME ExportAssumption == MaxExports \in Nat

VARIABLES pc,      \* where the call awaits, or how its promise settled
          taskId,  \* exportQuery.id of the answer to startExport, 0 before
          output,  \* the `output' the resolved job had
          retry,   \* the decorator's state for waitForTask
          reply,   \* what the outstanding request was answered with
          jobs     \* service: the export jobs, addressed by their position

callVars == <<pc, taskId, output, retry, reply>>
vars == <<callVars, jobs>>

-----------------------------------------------------------------------------
standbyStatuses == {"PENDING", "STARTED"}
\* FAILURE stands for every final status but SUCCESS.
FinalStatuses == {"SUCCESS", "FAILURE"}
ExportTaskStatus == standbyStatuses \cup FinalStatuses

taskUnresolved(status) == status \in standbyStatuses

(* What the service may store as the output of a job: nothing, some JSON   *)
(* without a url, or the JSON that names the exported file.                *)
Outputs == {"null", "other", "url"}

Requests == {"exportQuery", "exportJobStatus"}
\* "threw" is a rejection by exportData itself, "rejected" by the decorator.
Outcomes == {"success", "error", "threw", "rejected"}
Points == {"idle", "backOff"} \cup Requests \cup Outcomes

Job == [query : Calls, status : ExportTaskStatus, output : Outputs]

Reply == [kind : {"none", "error", "empty"}]
           \cup [kind : {"export"}, id : Nat \ {0}]
           \cup [kind : {"job"}, status : ExportTaskStatus, output : Outputs]

Nothing == [kind |-> "none"]

Init ==
  /\ pc = [c \in Calls |-> "idle"]
  /\ taskId = [c \in Calls |-> 0]
  /\ output = [c \in Calls |-> "null"]
  /\ retry = [c \in Calls |-> FirstAttempt]
  /\ reply = [c \in Calls |-> Nothing]
  /\ jobs = << >>

Continue(c, point) ==
  /\ pc' = [pc EXCEPT ![c] = point]
  /\ reply' = [reply EXCEPT ![c] = Nothing]

Answered(c, request) == pc[c] = request /\ reply[c].kind # "none"
Awaiting(c, request) == pc[c] = request /\ reply[c].kind = "none"

-----------------------------------------------------------------------------
(* The plugin.                                                             *)

ExportData(c) ==
  /\ pc[c] = "idle"
  /\ Continue(c, "exportQuery")
  /\ UNCHANGED <<taskId, output, retry, jobs>>

\* An error, no response and an answer without an id end the call alike.
OnExportStarted(c) ==
  /\ Answered(c, "exportQuery")
  /\ \/ /\ reply[c].kind = "export"
        /\ taskId' = [taskId EXCEPT ![c] = reply[c].id]
        /\ Continue(c, "exportJobStatus")
     \/ /\ reply[c].kind # "export"
        /\ Continue(c, "error")
        /\ UNCHANGED taskId
  /\ UNCHANGED <<output, retry, jobs>>

\* Mutant: the attempts are never used up.
PollAgainForever(c) ==
  /\ retry' = [retry EXCEPT ![c] = IF Exhausted(@) THEN @ ELSE AfterPause(@)]
  /\ Continue(c, "backOff")

\* waitForTask throws { type: "retry" }: the decorator pauses or gives up.
PollAgain(c) ==
  \/ /\ Exhausted(retry[c])
     /\ Continue(c, "rejected")
     /\ UNCHANGED retry
  \/ /\ ~Exhausted(retry[c])
     /\ retry' = [retry EXCEPT ![c] = AfterPause(@)]
     /\ Continue(c, "backOff")

\* Mutant: resolved is taken for successful.
ConclusionIfResolved(out) == "success"

\* exportData reads parsedOutput.url of what waitForTask returned: without an
\* output object that is a TypeError, without a url in it the explicit throw.
Conclusion(out) == IF out = "url" THEN "success" ELSE "threw"

\* waitForTask returns a failed status request at once; its response is null,
\* so that exportData's `parsedOutput.url' throws before the error is returned.
OnJobStatus(c) ==
  /\ Answered(c, "exportJobStatus")
  /\ \/ /\ reply[c].kind = "error"
        /\ Continue(c, "threw")
        /\ UNCHANGED <<output, retry>>
     \/ /\ \/ reply[c].kind = "empty"
           \/ reply[c].kind = "job" /\ taskUnresolved(reply[c].status)
        /\ PollAgain(c)
        /\ UNCHANGED output
     \/ /\ reply[c].kind = "job"
        /\ ~taskUnresolved(reply[c].status)
        /\ output' = [output EXCEPT ![c] = reply[c].output]
        /\ Continue(c, Conclusion(reply[c].output))
        /\ UNCHANGED retry
  /\ UNCHANGED <<taskId, jobs>>

\* Mutant: the decorator sits on the whole export instead of waitForTask.
WakeUpRestartsExport(c) ==
  /\ pc[c] = "backOff"
  /\ Continue(c, "exportQuery")
  /\ UNCHANGED <<taskId, output, retry, jobs>>

WakeUp(c) ==
  /\ pc[c] = "backOff"
  /\ Continue(c, "exportJobStatus")
  /\ UNCHANGED <<taskId, output, retry, jobs>>

-----------------------------------------------------------------------------
(* Splitgraph and the network (external).                                  *)

Answer(c, r) ==
  /\ reply' = [reply EXCEPT ![c] = r]
  /\ UNCHANGED <<pc, taskId, output, retry>>

ServeExport(c) ==
  /\ Awaiting(c, "exportQuery")
  /\ \/ /\ Len(jobs) < MaxExports
        /\ jobs' = Append(jobs, [query |-> c, status |-> "PENDING", output |-> "null"])
        /\ Answer(c, [kind |-> "export", id |-> Len(jobs) + 1])
     \/ /\ Answer(c, [kind |-> "empty"])
        /\ UNCHANGED jobs

\* exportJobStatus(taskId: $taskId)
polledJob(id) == id

\* A job just accepted may not be known to the status resolver yet.
ServeJobStatus(c) ==
  /\ Awaiting(c, "exportJobStatus")
  /\ LET job == jobs[polledJob(taskId[c])] IN
       \/ Answer(c, [kind |-> "job", status |-> job.status, output |-> job.output])
       \/ job.status = "PENDING" /\ Answer(c, [kind |-> "empty"])
  /\ UNCHANGED jobs

FailRequest(c) ==
  /\ pc[c] \in Requests
  /\ reply[c].kind # "error"
  /\ Answer(c, [kind |-> "error"])
  /\ UNCHANGED jobs

\* Only an export that succeeded has a file to point to.
AdvanceJob(i) ==
  /\ \E s \in ExportTaskStatus, out \in Outputs :
       /\ \/ jobs[i].status = "PENDING" /\ s = "STARTED" /\ out = "null"
          \/ jobs[i].status = "STARTED" /\ s = "SUCCESS" /\ out = "url"
          \/ jobs[i].status = "STARTED" /\ s = "FAILURE" /\ out \in {"null", "other"}
       /\ jobs' = [jobs EXCEPT ![i].status = s, ![i].output = out]
  /\ UNCHANGED callVars

-----------------------------------------------------------------------------
Plugin(c) ==
  \/ ExportData(c)
  \/ OnExportStarted(c)
  \/ OnJobStatus(c)
  \/ WakeUp(c)

Service(c) ==
  \/ ServeExport(c)
  \/ ServeJobStatus(c)
  \/ FailRequest(c)

Next ==
  \/ \E c \in Calls : Plugin(c) \/ Service(c)
  \/ \E i \in DOMAIN jobs : AdvanceJob(i)

\* As for imports: awaits resume, timers fire, requests are answered or fail.
Fairness ==
  \A c \in Calls :
    /\ WF_vars(Service(c))
    /\ WF_vars(pc[c] # "idle" /\ Plugin(c))

Spec == Init /\ [][Next]_vars /\ Fairness

-----------------------------------------------------------------------------
TypeOK ==
  /\ pc \in [Calls -> Points]
  /\ taskId \in [Calls -> Nat]
  /\ output \in [Calls -> Outputs]
  /\ retry \in [Calls -> RetryState]
  /\ reply \in [Calls -> Reply]
  /\ jobs \in Seq(Job)

\* The response has `success: true' whenever exportData gets to its end: it
\* does so only if this call's own export of its own query succeeded.
SuccessIsExported ==
  \A c \in Calls :
    pc[c] = "success" =>
      /\ taskId[c] \in DOMAIN jobs
      /\ jobs[taskId[c]].query = c
      /\ jobs[taskId[c]].status = "SUCCESS"

\* A call never starts a second export, however often it polls.
OneExportPerCall ==
  \A i, j \in DOMAIN jobs : i # j => jobs[i].query # jobs[j].query

\* The pauses between polls add up to no more than MAX_POLL_TIMEOUT.
PollBudget == \A c \in Calls : retry[c].slept <= MAX_POLL_TIMEOUT

-----------------------------------------------------------------------------
(* The inductive invariant, in parts.                                      *)

Polling == {"exportJobStatus", "backOff"}

ReplyFits ==
  \A c \in Calls :
    /\ reply[c].kind = "export" =>
         /\ pc[c] = "exportQuery"
         /\ reply[c].id \in DOMAIN jobs
         /\ jobs[reply[c].id].query = c
    /\ reply[c].kind = "job" =>
         /\ pc[c] = "exportJobStatus"
         /\ reply[c].output = "url" => jobs[taskId[c]].status = "SUCCESS"

JobsFit ==
  /\ \A i \in DOMAIN jobs : \A c \in Calls :
       jobs[i].query = c =>
         \/ pc[c] = "exportQuery" /\ reply[c].kind # "none"
         \/ pc[c] \in Polling \cup Outcomes
  /\ \A i \in DOMAIN jobs : jobs[i].output = "url" => jobs[i].status = "SUCCESS"

TaskIsOwn ==
  \A c \in Calls :
    /\ taskId[c] # 0 => taskId[c] \in DOMAIN jobs /\ jobs[taskId[c]].query = c
    /\ pc[c] \in Polling \cup {"success"} => taskId[c] # 0
    /\ pc[c] = "success" => jobs[taskId[c]].status = "SUCCESS"

IInv == TypeOK /\ ReplyFits /\ JobsFit /\ OneExportPerCall /\ TaskIsOwn

-----------------------------------------------------------------------------
(* exportData keeps the contract importData keeps: a call settles, once,   *)
(* and with success only after an export of its own query wrote its file.  *)
(* A caller sees no difference between the ways a call may throw.          *)
Contract == INSTANCE TransferContract WITH
  state <- [c \in Calls |->
              IF pc[c] = "threw" THEN "error"
              ELSE IF pc[c] \in Outcomes \cup {"idle"} THEN pc[c] ELSE "running"],
  done <- [c \in Calls |-> \E i \in DOMAIN jobs :
             jobs[i].query = c /\ jobs[i].status = "SUCCESS"]

KeepsContract == Contract!ContractSpec
=============================================================================
