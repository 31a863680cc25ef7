------------------------- MODULE ExportQueryProofs -------------------------
(***************************************************************************)
(* For any number of concurrent exports: exportData's success is the       *)
(* success of the export it started itself, it starts one at most, and its *)
(* polls stay within their time.                                           *)
(***************************************************************************)
EXTENDS ExportQuery, SequenceTheorems, TLAPS

USE DEF Points, Requests, Outcomes, ExportTaskStatus, FinalStatuses, standbyStatuses, Outputs

\* The decorator's arithmetic, as for imports (see ImportCSVProofs).
LEMMA PausesStayWithinBudget ==
  /\ FirstAttempt \in RetryState /\ WithinBudget(FirstAttempt)
  /\ \A r \in RetryState : ~Exhausted(r) =>
       AfterPause(r) \in RetryState /\ (WithinBudget(r) => WithinBudget(AfterPause(r)))
  /\ \A r \in RetryState : WithinBudget(r) => r.slept <= MAX_POLL_TIMEOUT
<1> DEFINE a == MAX_POLL_TIMEOUT - HEAD_START + MAX_BACKOFF_INTERVAL - 1
<1>1. MAX_ATTEMPTS \in Nat /\ MAX_ATTEMPTS * MAX_BACKOFF_INTERVAL <= MAX_POLL_TIMEOUT
  <2>1. a \in Nat /\ a <= MAX_POLL_TIMEOUT
    BY RetryAssumption
  <2>2. \A n \in Nat, d \in Nat \ {0} : n \div d \in Nat /\ (n \div d) * d <= n
    BY Z3
  <2> QED
    BY <2>1, <2>2, RetryAssumption DEF MAX_ATTEMPTS
<1>2. ASSUME NEW r \in RetryState, ~Exhausted(r)
      PROVE  AfterPause(r) \in RetryState /\ (WithinBudget(r) => WithinBudget(AfterPause(r)))
  <2>1. AfterPause(r) \in RetryState
    BY <1>2, RetryAssumption DEF RetryState, Exhausted, AfterPause, NextBackOff
  <2>2. (r.left - 1) * MAX_BACKOFF_INTERVAL = r.left * MAX_BACKOFF_INTERVAL - MAX_BACKOFF_INTERVAL
    BY RetryAssumption DEF RetryState
  <2>3. WithinBudget(r) => WithinBudget(AfterPause(r))
    BY <1>1, <2>2, RetryAssumption DEF RetryState, WithinBudget, AfterPause
  <2> QED
    BY <2>1, <2>3
<1>3. ASSUME NEW r \in RetryState, WithinBudget(r) PROVE r.slept <= MAX_POLL_TIMEOUT
  <2>1. r.left * MAX_BACKOFF_INTERVAL \in Nat
    BY RetryAssumption DEF RetryState
  <2> QED
    BY <1>1, <1>3, <2>1, RetryAssumption DEF RetryState, WithinBudget
<1> QED
  BY <1>1, <1>2, <1>3, RetryAssumption DEF FirstAttempt, RetryState, WithinBudget

\* What a reply of each kind carries.
LEMMA ReplyShape ==
  ASSUME NEW r \in Reply
  PROVE  /\ r.kind = "export" => r.id \in Nat \ {0}
         /\ r.kind = "job" => r.status \in ExportTaskStatus /\ r.output \in Outputs
         /\ r.kind \in {"none", "error", "empty", "export", "job"}
BY DEF Reply

\* The replies the actions build.
LEMMA ReplyMade ==
  /\ Nothing \in Reply
  /\ \A k \in {"error", "empty"} : [kind |-> k] \in Reply
  /\ \A i \in Nat \ {0} : [kind |-> "export", id |-> i] \in Reply
  /\ \A s \in ExportTaskStatus, out \in Outputs :
       [kind |-> "job", status |-> s, output |-> out] \in Reply
BY DEF Reply, Nothing

\* A job that moves on stays the job of its query.
LEMMA AdvanceJobStep ==
  ASSUME TypeOK, NEW i \in DOMAIN jobs, AdvanceJob(i)
  PROVE  /\ jobs' \in Seq(Job)
         /\ DOMAIN jobs' = DOMAIN jobs
         /\ \A j \in DOMAIN jobs : j # i => jobs'[j] = jobs[j]
         /\ jobs'[i].query = jobs[i].query
         /\ jobs[i].status # "SUCCESS"
         /\ jobs'[i].output = "url" => jobs'[i].status = "SUCCESS"
<1>1. PICK s \in ExportTaskStatus, out \in Outputs :
        /\ jobs' = [jobs EXCEPT ![i].status = s, ![i].output = out]
        /\ jobs[i].status # "SUCCESS"
        /\ out = "url" => s = "SUCCESS"
  BY DEF AdvanceJob
<1> DEFINE moved == [jobs[i] EXCEPT !.status = s, !.output = out]
<1>2. jobs \in Seq(Job) /\ i \in 1..Len(jobs) /\ jobs[i] \in Job
  BY DEF TypeOK
<1>3. /\ moved \in Job
      /\ moved.query = jobs[i].query
      /\ moved.status = s
      /\ moved.output = out
  BY <1>1, <1>2 DEF Job
<1>4. jobs' = [jobs EXCEPT ![i] = moved]
  BY <1>1, <1>2 DEF Job
<1> HIDE DEF moved
<1>5. jobs' \in Seq(Job) /\ DOMAIN jobs' = DOMAIN jobs
  BY <1>2, <1>3, <1>4, ExceptSeq
<1>6. jobs'[i] = moved /\ \A j \in DOMAIN jobs : j # i => jobs'[j] = jobs[j]
  BY <1>2, <1>4
<1>7. QED
  BY <1>1, <1>3, <1>5, <1>6

\* An accepted export is appended behind the ones there are.
LEMMA AppendStep ==
  ASSUME TypeOK, NEW e \in Job, jobs' = Append(jobs, e)
  PROVE  /\ jobs' \in Seq(Job)
         /\ DOMAIN jobs' = DOMAIN jobs \cup {Len(jobs) + 1}
         /\ Len(jobs) + 1 \notin DOMAIN jobs
         /\ Len(jobs) + 1 \in Nat \ {0}
         /\ \A i \in DOMAIN jobs : jobs'[i] = jobs[i]
         /\ jobs'[Len(jobs) + 1] = e
<1>1. jobs \in Seq(Job)
  BY DEF TypeOK
<1>2. QED
  BY <1>1, AppendProperties

\* The service answers startExport: with a new job, or with nothing.
LEMMA ServeExportStep ==
  ASSUME TypeOK, NEW c \in Calls, ServeExport(c)
  PROVE  \/ \E e \in Job :
             /\ e.query = c /\ e.output = "null"
             /\ jobs' = Append(jobs, e)
             /\ Answer(c, [kind |-> "export", id |-> Len(jobs) + 1])
         \/ Answer(c, [kind |-> "empty"]) /\ UNCHANGED jobs
<1> DEFINE e == [query |-> c, status |-> "PENDING", output |-> "null"]
<1>1. e \in Job
  BY DEF Job
<1>2. QED
  BY <1>1 DEF ServeExport

\* A status answer is about the call's own job, as it is now.
LEMMA JobStatusReply ==
  ASSUME IInv, NEW c \in Calls, ServeJobStatus(c)
  PROVE  \E r \in Reply :
           /\ Answer(c, r)
           /\ r.kind \in {"empty", "job"}
           /\ r.kind = "job" /\ r.output = "url" => jobs[taskId[c]].status = "SUCCESS"
<1> DEFINE job == jobs[taskId[c]]
<1>1. taskId[c] \in DOMAIN jobs
  BY DEF ServeJobStatus, Awaiting, IInv, TaskIsOwn, Polling
<1>2. job \in Job
  BY <1>1 DEF IInv, TypeOK
<1>3. job.status \in ExportTaskStatus /\ job.output \in Outputs
  BY <1>2 DEF Job
<1>4. job.output = "url" => job.status = "SUCCESS"
  BY <1>1 DEF IInv, JobsFit
<1> DEFINE r == [kind |-> "job", status |-> job.status, output |-> job.output]
<1>5. r \in Reply /\ [kind |-> "empty"] \in Reply
  BY <1>3, ReplyMade
<1>6. Answer(c, r) \/ Answer(c, [kind |-> "empty"])
  BY DEF ServeJobStatus, polledJob
<1>7. CASE Answer(c, r)
  BY <1>4, <1>5, <1>7
<1>8. CASE Answer(c, [kind |-> "empty"])
  BY <1>5, <1>8
<1>9. QED
  BY <1>6, <1>7, <1>8

-----------------------------------------------------------------------------
LEMMA TypeStep == IInv /\ [Next]_vars => TypeOK'
<1> SUFFICES ASSUME IInv, [Next]_vars PROVE TypeOK'
  OBVIOUS
<1> USE DEF TypeOK, IInv
<1>1. ASSUME NEW c \in Calls, ExportData(c) PROVE TypeOK'
  BY <1>1, ReplyMade DEF ExportData, Continue
<1>2. ASSUME NEW c \in Calls, OnExportStarted(c) PROVE TypeOK'
  BY ZenonT(60), <1>2, ReplyMade, ReplyShape DEF OnExportStarted, Answered, Continue
<1>3. ASSUME NEW c \in Calls, OnJobStatus(c) PROVE TypeOK'
  <2>1. reply[c] \in Reply
    OBVIOUS
  <2>2. reply[c].kind = "job" => reply[c].output \in Outputs
    BY <2>1, ReplyShape
  <2>3. output' \in [Calls -> Outputs]
    BY <1>3, <2>2 DEF OnJobStatus
  <2>4. pc' \in [Calls -> Points] /\ reply' \in [Calls -> Reply]
    BY ZenonT(60), <1>3, ReplyMade DEF OnJobStatus, PollAgain, Continue, Conclusion
  <2>5. retry' \in [Calls -> RetryState]
    BY <1>3, PausesStayWithinBudget DEF OnJobStatus, PollAgain
  <2>6. QED
    BY <1>3, <2>3, <2>4, <2>5 DEF OnJobStatus
<1>4. ASSUME NEW c \in Calls, WakeUp(c) PROVE TypeOK'
  BY <1>4, ReplyMade DEF WakeUp, Continue
<1>5. ASSUME NEW c \in Calls, FailRequest(c) PROVE TypeOK'
  BY <1>5, ReplyMade DEF FailRequest, Answer
<1>6. ASSUME NEW c \in Calls, ServeExport(c) PROVE TypeOK'
  <2>1. CASE Answer(c, [kind |-> "empty"]) /\ UNCHANGED jobs
    BY <2>1, ReplyMade DEF Answer
  <2>2. ASSUME NEW e \in Job, jobs' = Append(jobs, e),
               Answer(c, [kind |-> "export", id |-> Len(jobs) + 1])
        PROVE  TypeOK'
    <3>1. jobs' \in Seq(Job) /\ Len(jobs) + 1 \in Nat \ {0}
      BY <2>2, AppendStep
    <3>2. [kind |-> "export", id |-> Len(jobs) + 1] \in Reply
      BY <3>1, ReplyMade
    <3>3. QED
      BY <2>2, <3>1, <3>2 DEF Answer
  <2>3. QED
    BY <1>6, <2>1, <2>2, ServeExportStep
<1>7. ASSUME NEW c \in Calls, ServeJobStatus(c) PROVE TypeOK'
  BY <1>7, JobStatusReply DEF ServeJobStatus, Answer
<1>8. ASSUME NEW i \in DOMAIN jobs, AdvanceJob(i) PROVE TypeOK'
  BY <1>8, AdvanceJobStep DEF AdvanceJob, callVars
<1>9. CASE UNCHANGED vars
  BY <1>9 DEF vars, callVars
<1>10. QED
  <2> HIDE DEF TypeOK, IInv
  <2> QED BY <1>1, <1>2, <1>3, <1>4, <1>5, <1>6, <1>7, <1>8, <1>9 DEF Next, Plugin, Service

LEMMA IInvStep == IInv /\ [Next]_vars => IInv'
<1> SUFFICES ASSUME IInv, [Next]_vars PROVE IInv'
  OBVIOUS
<1>0. TypeOK'
  BY TypeStep
<1> USE DEF TypeOK, IInv, Polling, Nothing
<1>1. ASSUME NEW c \in Calls, ExportData(c) PROVE IInv'
  <2>1. ReplyFits'
    BY <1>1, ReplyMade DEF ExportData, Continue, ReplyFits, JobsFit, OneExportPerCall, TaskIsOwn
  <2>2. JobsFit'
    BY <1>1, ReplyMade DEF ExportData, Continue, ReplyFits, JobsFit, OneExportPerCall, TaskIsOwn
  <2>3. OneExportPerCall'
    BY <1>1, ReplyMade DEF ExportData, Continue, ReplyFits, JobsFit, OneExportPerCall, TaskIsOwn
  <2>4. TaskIsOwn'
    BY <1>1, ReplyMade DEF ExportData, Continue, ReplyFits, JobsFit, OneExportPerCall, TaskIsOwn
  <2>5. QED
    BY <1>0, <2>1, <2>2, <2>3, <2>4
<1>2. ASSUME NEW c \in Calls, OnExportStarted(c) PROVE IInv'
  <2>1. /\ UNCHANGED jobs
        /\ pc[c] = "exportQuery" /\ reply[c].kind # "none"
        /\ reply' = [reply EXCEPT ![c] = [kind |-> "none"]]
        /\ \A d \in Calls : d # c => pc'[d] = pc[d] /\ taskId'[d] = taskId[d]
    BY <1>2 DEF OnExportStarted, Answered, Continue
  <2>2. \/ /\ pc'[c] = "exportJobStatus"
           /\ taskId'[c] \in DOMAIN jobs /\ taskId'[c] # 0
           /\ jobs[taskId'[c]].query = c
        \/ pc'[c] = "error" /\ taskId'[c] = taskId[c]
    <3>1. reply[c].kind = "export" => reply[c].id # 0
      <4>1. reply[c] \in Reply
        OBVIOUS
      <4>2. QED
        BY <4>1, ReplyShape
    <3>2. QED
      BY <1>2, <3>1 DEF OnExportStarted, Continue, ReplyFits
  <2>3. ReplyFits'
    BY <2>1 DEF ReplyFits
  <2>4. JobsFit'
    BY <2>1, <2>2 DEF JobsFit
  <2>5. OneExportPerCall'
    BY <2>1 DEF OneExportPerCall
  <2>6. TaskIsOwn'
    BY <2>1, <2>2 DEF TaskIsOwn
  <2>7. QED
    BY <1>0, <2>3, <2>4, <2>5, <2>6
<1>3. ASSUME NEW c \in Calls, OnJobStatus(c) PROVE IInv'
  <2>1. /\ UNCHANGED <<jobs, taskId>>
        /\ pc[c] = "exportJobStatus"
        /\ reply' = [reply EXCEPT ![c] = [kind |-> "none"]]
        /\ \A d \in Calls : d # c => pc'[d] = pc[d]
        /\ pc'[c] \in {"backOff"} \cup Outcomes
        /\ pc'[c] = "success" => reply[c].kind = "job" /\ reply[c].output = "url"
    BY <1>3 DEF OnJobStatus, PollAgain, Answered, Continue, Conclusion
  <2>2. ReplyFits'
    BY <2>1 DEF ReplyFits
  <2>3. JobsFit'
    BY <2>1 DEF JobsFit
  <2>4. OneExportPerCall'
    BY <2>1 DEF OneExportPerCall
  <2>5. TaskIsOwn'
    BY <2>1 DEF TaskIsOwn, ReplyFits
  <2>6. QED
    BY <1>0, <2>2, <2>3, <2>4, <2>5
<1>4. ASSUME NEW c \in Calls, WakeUp(c) PROVE IInv'
  <2>1. ReplyFits'
    BY <1>4, ReplyMade DEF WakeUp, Continue, ReplyFits, JobsFit, OneExportPerCall, TaskIsOwn
  <2>2. JobsFit'
    BY <1>4, ReplyMade DEF WakeUp, Continue, ReplyFits, JobsFit, OneExportPerCall, TaskIsOwn
  <2>3. OneExportPerCall'
    BY <1>4, ReplyMade DEF WakeUp, Continue, ReplyFits, JobsFit, OneExportPerCall, TaskIsOwn
  <2>4. TaskIsOwn'
    BY <1>4, ReplyMade DEF WakeUp, Continue, ReplyFits, JobsFit, OneExportPerCall, TaskIsOwn
  <2>5. QED
    BY <1>0, <2>1, <2>2, <2>3, <2>4
<1>5. ASSUME NEW c \in Calls, FailRequest(c) PROVE IInv'
  <2>1. ReplyFits'
    BY <1>5, ReplyMade DEF FailRequest, Answer, ReplyFits, JobsFit, OneExportPerCall, TaskIsOwn
  <2>2. JobsFit'
    BY <1>5, ReplyMade DEF FailRequest, Answer, ReplyFits, JobsFit, OneExportPerCall, TaskIsOwn
  <2>3. OneExportPerCall'
    BY <1>5, ReplyMade DEF FailRequest, Answer, ReplyFits, JobsFit, OneExportPerCall, TaskIsOwn
  <2>4. TaskIsOwn'
    BY <1>5, ReplyMade DEF FailRequest, Answer, ReplyFits, JobsFit, OneExportPerCall, TaskIsOwn
  <2>5. QED
    BY <1>0, <2>1, <2>2, <2>3, <2>4
<1>6. ASSUME NEW c \in Calls, ServeExport(c) PROVE IInv'
  <2>0. Awaiting(c, "exportQuery")
    BY <1>6 DEF ServeExport
  <2>1. CASE Answer(c, [kind |-> "empty"]) /\ UNCHANGED jobs
    <3>2. ReplyFits' /\ TaskIsOwn'
      BY <2>1 DEF Answer, ReplyFits, TaskIsOwn
    <3>3. JobsFit' /\ OneExportPerCall'
      BY <2>0, <2>1 DEF Awaiting, Answer, JobsFit, OneExportPerCall
    <3>4. QED
      BY <1>0, <3>2, <3>3
  <2>2. ASSUME NEW e \in Job, e.query = c, e.output = "null",
               jobs' = Append(jobs, e),
               Answer(c, [kind |-> "export", id |-> Len(jobs) + 1])
        PROVE  IInv'
    <3> DEFINE n == Len(jobs) + 1
    <3>1. /\ DOMAIN jobs' = DOMAIN jobs \cup {n}
          /\ n \notin DOMAIN jobs
          /\ \A i \in DOMAIN jobs : jobs'[i] = jobs[i]
          /\ jobs'[n] = e
      BY <2>2, AppendStep
    <3>2. /\ UNCHANGED <<pc, taskId>>
          /\ reply' = [reply EXCEPT ![c] = [kind |-> "export", id |-> n]]
          /\ pc[c] = "exportQuery" /\ reply[c].kind = "none"
      BY <2>0, <2>2 DEF Answer, Awaiting
    <3> HIDE DEF n
    <3>3. \A i \in DOMAIN jobs : jobs[i].query # c
      BY <3>2 DEF JobsFit
    <3>4. ReplyFits'
      BY <2>2, <3>1, <3>2 DEF ReplyFits, TaskIsOwn
    <3>5. JobsFit'
      BY <2>2, <3>1, <3>2, <3>3 DEF JobsFit
    <3>6. OneExportPerCall'
      BY <2>2, <3>1, <3>3 DEF OneExportPerCall
    <3>7. TaskIsOwn'
      BY <3>1, <3>2 DEF TaskIsOwn
    <3>8. QED
      BY <1>0, <3>4, <3>5, <3>6, <3>7
  <2>3. QED
    BY <1>6, <2>1, <2>2, ServeExportStep
<1>7. ASSUME NEW c \in Calls, ServeJobStatus(c) PROVE IInv'
  <2>1. PICK r \in Reply :
          /\ Answer(c, r)
          /\ r.kind \in {"empty", "job"}
          /\ r.kind = "job" /\ r.output = "url" => jobs[taskId[c]].status = "SUCCESS"
    BY <1>7, JobStatusReply
  <2>2. Awaiting(c, "exportJobStatus") /\ UNCHANGED jobs
    BY <1>7 DEF ServeJobStatus
  <2>3. ReplyFits'
    BY <2>1, <2>2 DEF Answer, Awaiting, ReplyFits
  <2>4. JobsFit'
    BY <2>1, <2>2 DEF Answer, Awaiting, JobsFit
  <2>5. OneExportPerCall'
    BY <2>2 DEF OneExportPerCall
  <2>6. TaskIsOwn'
    BY <2>1, <2>2 DEF Answer, TaskIsOwn
  <2>7. QED
    BY <1>0, <2>3, <2>4, <2>5, <2>6
<1>8. ASSUME NEW i \in DOMAIN jobs, AdvanceJob(i) PROVE IInv'
  <2>1. /\ DOMAIN jobs' = DOMAIN jobs
        /\ \A j \in DOMAIN jobs : j # i => jobs'[j] = jobs[j]
        /\ jobs'[i].query = jobs[i].query
        /\ jobs[i].status # "SUCCESS"
        /\ jobs'[i].output = "url" => jobs'[i].status = "SUCCESS"
    BY <1>8, AdvanceJobStep
  <2> HIDE DEF TypeOK
  <2>2. pc' = pc /\ reply' = reply /\ taskId' = taskId
    BY <1>8 DEF AdvanceJob, callVars
  <2>3. \A j \in DOMAIN jobs : jobs'[j].query = jobs[j].query
    BY <2>1
  <2>4. \A j \in DOMAIN jobs : jobs[j].status = "SUCCESS" => jobs'[j].status = "SUCCESS"
    BY <2>1
  <2>5. ReplyFits'
    <3>1. \A d \in Calls : pc[d] = "exportJobStatus" => taskId[d] \in DOMAIN jobs
      BY DEF TaskIsOwn
    <3>2. QED
      BY <2>1, <2>2, <2>3, <2>4, <3>1 DEF ReplyFits
  <2>6. JobsFit'
    <3>1. \A j \in DOMAIN jobs' : jobs'[j].output = "url" => jobs'[j].status = "SUCCESS"
      BY <2>1 DEF JobsFit
    <3>2. QED
      BY <2>1, <2>2, <2>3, <3>1 DEF JobsFit
  <2>7. OneExportPerCall'
    BY <2>1, <2>3 DEF OneExportPerCall
  <2>8. TaskIsOwn'
    BY <2>1, <2>2, <2>3, <2>4 DEF TaskIsOwn
  <2>9. QED
    BY <1>0, <2>5, <2>6, <2>7, <2>8
<1>9. CASE UNCHANGED vars
  BY <1>9 DEF vars, callVars, ReplyFits, JobsFit, OneExportPerCall, TaskIsOwn
<1>10. QED
  <2> HIDE DEF IInv, TypeOK
  <2> QED BY <1>1, <1>2, <1>3, <1>4, <1>5, <1>6, <1>7, <1>8, <1>9 DEF Next, Plugin, Service

\* Nothing has happened yet in the initial state.
LEMMA IInvInit == Init => IInv
<1> SUFFICES ASSUME Init PROVE IInv
  OBVIOUS
<1>1. TypeOK
  BY ReplyMade, PausesStayWithinBudget DEF Init, TypeOK
<1>2. QED
  BY <1>1
  DEF Init, IInv, Nothing, ReplyFits, JobsFit, OneExportPerCall, TaskIsOwn, Polling

\* The inductive invariant holds in every state of the specification.
THEOREM Inductive == Spec => []IInv
BY IInvInit, IInvStep, PTL DEF Spec

\* Every export waits at a request, pauses, or has settled, whatever the service does.
THEOREM TypeCorrect == Spec => []TypeOK
<1>1. IInv => TypeOK
  BY DEF IInv
<1>2. QED
  BY <1>1, Inductive, PTL

\* A response with success: true belongs to the caller's own finished export.
THEOREM SuccessCorrect == Spec => []SuccessIsExported
<1>1. IInv => SuccessIsExported
  BY DEF IInv, SuccessIsExported, TaskIsOwn
<1>2. QED
  BY <1>1, Inductive, PTL

\* No call starts its export twice.
THEOREM StartsOneExport == Spec => []OneExportPerCall
<1>1. IInv => OneExportPerCall
  BY DEF IInv
<1>2. QED
  BY <1>1, Inductive, PTL

-----------------------------------------------------------------------------
Budgets == \A c \in Calls : WithinBudget(retry[c])

\* Only a poll that is to be repeated uses up attempts.
LEMMA BudgetsStep == IInv /\ Budgets /\ [Next]_vars => Budgets'
<1> SUFFICES ASSUME IInv, Budgets, [Next]_vars PROVE Budgets'
  OBVIOUS
<1>1. retry \in [Calls -> RetryState]
  BY DEF IInv, TypeOK
<1>2. ASSUME NEW c \in Calls, PollAgain(c), ~Exhausted(retry[c]) PROVE Budgets'
  <2>1. retry' = [retry EXCEPT ![c] = AfterPause(retry[c])]
    BY <1>2 DEF PollAgain
  <2>2. WithinBudget(AfterPause(retry[c]))
    BY <1>1, <1>2, PausesStayWithinBudget DEF Budgets
  <2>3. QED
    BY <1>1, <2>1, <2>2 DEF Budgets
<1>3. ASSUME UNCHANGED retry PROVE Budgets'
  BY <1>3 DEF Budgets
<1>4. ASSUME NEW c \in Calls, Plugin(c) PROVE Budgets'
  BY <1>2, <1>3, <1>4 DEF Plugin, ExportData, OnExportStarted, OnJobStatus, PollAgain, WakeUp
<1>5. ASSUME NEW c \in Calls, Service(c) PROVE Budgets'
  BY <1>3, <1>5 DEF Service, ServeExport, ServeJobStatus, FailRequest, Answer
<1>6. QED
  BY <1>3, <1>4, <1>5 DEF Next, AdvanceJob, vars, callVars

\* No export sleeps longer than MAX_POLL_TIMEOUT altogether.
THEOREM PollsWithinBudget == Spec => []PollBudget
<1>1. Init => Budgets
  BY PausesStayWithinBudget DEF Init, Budgets
<1>2. IInv /\ Budgets => PollBudget
  BY PausesStayWithinBudget DEF IInv, TypeOK, Budgets, PollBudget
<1>3. QED
  BY <1>1, <1>2, BudgetsStep, Inductive, PTL DEF Spec

-----------------------------------------------------------------------------
(* The refinement of TransferContract, step by step.  Under the mapping of *)
(* Contract a call has a state and its file is written or not.             *)

CallState == [c \in Calls |->
                IF pc[c] = "threw" THEN "error"
                ELSE IF pc[c] \in Outcomes \cup {"idle"} THEN pc[c] ELSE "running"]
FileWritten == [c \in Calls |-> \E i \in DOMAIN jobs :
                  jobs[i].query = c /\ jobs[i].status = "SUCCESS"]
ContractStep == [Contract!ContractNext]_(Contract!contractVars)

\* Where no file is written and every call is as far as it was, the contract stutters.
LEMMA Stutters ==
  ASSUME CallState' = CallState, FileWritten' = FileWritten
  PROVE  ContractStep
BY DEF ContractStep, Contract!contractVars, CallState, FileWritten

\* A call that begins, waits for something else, or settles.
LEMMA CallContinues ==
  ASSUME TypeOK, NEW c \in Calls, pc[c] \notin Outcomes, NEW point \in Points \ {"idle"},
         pc' = [pc EXCEPT ![c] = point], UNCHANGED jobs,
         pc[c] = "idle" => point \notin Outcomes,
         point = "success" => FileWritten[c]
  PROVE  ContractStep
<1> DEFINE seen == IF point = "threw" THEN "error"
                   ELSE IF point \in Outcomes THEN point ELSE "running"
<1>1. FileWritten' = FileWritten
  BY DEF FileWritten
<1>2. pc \in [Calls -> Points]
  BY DEF TypeOK
<1>3. CallState' = [CallState EXCEPT ![c] = seen]
  BY <1>2 DEF CallState
<1>4. CallState[c] = IF pc[c] = "idle" THEN "idle" ELSE "running"
  BY DEF CallState
<1>5. CASE pc[c] = "idle"
  <2>1. Contract!Begin(c)
    BY <1>1, <1>3, <1>4, <1>5 DEF Contract!Begin, CallState, FileWritten
  <2>2. QED
    BY <2>1 DEF ContractStep, Contract!ContractNext
<1>6. CASE pc[c] # "idle" /\ point \notin Outcomes
  <2>1. CallState' = CallState
    BY <1>3, <1>4, <1>6 DEF CallState
  <2>2. QED
    BY <1>1, <2>1, Stutters
<1>7. CASE pc[c] # "idle" /\ point \in Outcomes
  <2>1. seen \in Contract!Outcome /\ (seen = "success" => FileWritten[c])
    BY <1>7 DEF Contract!Outcome
  <2> HIDE DEF seen
  <2>2. Contract!Settle(c)
    BY <1>1, <1>3, <1>4, <1>7, <2>1 DEF Contract!Settle, CallState, FileWritten
  <2>3. QED
    BY <2>2 DEF ContractStep, Contract!ContractNext
<1>8. QED
  BY <1>5, <1>6, <1>7

\* A url in an answer is that of the call's own file.
LEMMA UrlMeansWritten ==
  ASSUME IInv, NEW c \in Calls, reply[c].kind = "job", reply[c].output = "url"
  PROVE  FileWritten[c]
<1>1. pc[c] = "exportJobStatus" /\ jobs[taskId[c]].status = "SUCCESS"
  BY DEF IInv, ReplyFits
<1>2. taskId[c] \in DOMAIN jobs /\ jobs[taskId[c]].query = c
  BY <1>1 DEF IInv, TaskIsOwn, Polling
<1>3. QED
  BY <1>1, <1>2 DEF FileWritten

\* Each continuation begins the call, settles it, or is not seen by its caller.
LEMMA PluginKeepsContract ==
  ASSUME IInv, NEW c \in Calls, Plugin(c)
  PROVE  ContractStep
<1>1. TypeOK
  BY DEF IInv
<1>2. CASE ExportData(c)
  BY <1>1, <1>2, CallContinues DEF ExportData, Continue
<1>3. CASE OnExportStarted(c)
  BY <1>1, <1>3, CallContinues DEF OnExportStarted, Answered, Continue
<1>4. CASE OnJobStatus(c)
  <2>1. PICK point \in Points \ {"idle"} :
          /\ pc' = [pc EXCEPT ![c] = point]
          /\ point = "success" => reply[c].kind = "job" /\ reply[c].output = "url"
    BY <1>4 DEF OnJobStatus, PollAgain, Continue, Conclusion
  <2>2. pc[c] = "exportJobStatus" /\ UNCHANGED jobs
    BY <1>4 DEF OnJobStatus, Answered
  <2>3. QED
    BY <1>1, <2>1, <2>2, UrlMeansWritten, CallContinues
<1>5. CASE WakeUp(c)
  BY <1>1, <1>5, CallContinues DEF WakeUp, Continue
<1>6. QED
  BY <1>2, <1>3, <1>4, <1>5 DEF Plugin

\* What the service does for a request, the contract does not see: an export
\* that was accepted is not done.
LEMMA ServiceKeepsContract ==
  ASSUME IInv, NEW c \in Calls, Service(c)
  PROVE  ContractStep
<1>1. UNCHANGED pc
  BY DEF Service, ServeExport, ServeJobStatus, FailRequest, Answer
<1>2. CallState' = CallState
  BY <1>1 DEF CallState
<1>3. CASE UNCHANGED jobs
  BY <1>2, <1>3, Stutters DEF FileWritten
<1>4. ASSUME NEW e \in Job, e.status = "PENDING", jobs' = Append(jobs, e)
      PROVE  FileWritten' = FileWritten
  <2>1. /\ DOMAIN jobs' = DOMAIN jobs \cup {Len(jobs) + 1}
        /\ Len(jobs) + 1 \notin DOMAIN jobs
        /\ \A i \in DOMAIN jobs : jobs'[i] = jobs[i]
        /\ jobs'[Len(jobs) + 1] = e
    BY <1>4, AppendStep DEF IInv
  <2>2. ASSUME NEW d \in Calls
        PROVE  (\E i \in DOMAIN jobs' : jobs'[i].query = d /\ jobs'[i].status = "SUCCESS")
                 <=> (\E i \in DOMAIN jobs : jobs[i].query = d /\ jobs[i].status = "SUCCESS")
    BY <1>4, <2>1
  <2>3. QED
    BY <2>2 DEF FileWritten
<1>5. CASE ServeExport(c) /\ jobs' # jobs
  <2> DEFINE e == [query |-> c, status |-> "PENDING", output |-> "null"]
  <2>1. e \in Job /\ e.status = "PENDING"
    BY DEF Job
  <2>2. jobs' = Append(jobs, e)
    BY <1>5 DEF ServeExport
  <2> HIDE DEF e
  <2>3. QED
    BY <1>2, <1>4, <2>1, <2>2, Stutters
<1>6. QED
  BY <1>3, <1>5 DEF Service, ServeJobStatus, FailRequest

\* A job that succeeds writes the file of its call, which has not succeeded
\* yet and has no other job; any other move of a job is not visible.
LEMMA AdvanceKeepsContract ==
  ASSUME IInv, NEW i \in DOMAIN jobs, AdvanceJob(i)
  PROVE  ContractStep
<1> DEFINE c == jobs[i].query
<1>1. c \in Calls
  <2>1. jobs[i] \in Job
    BY DEF IInv, TypeOK
  <2>2. QED
    BY <2>1 DEF Job
<1>2. /\ DOMAIN jobs' = DOMAIN jobs
      /\ \A j \in DOMAIN jobs : j # i => jobs'[j] = jobs[j]
      /\ jobs'[i].query = c
      /\ jobs[i].status # "SUCCESS"
  BY AdvanceJobStep DEF IInv
<1>3. UNCHANGED <<pc, taskId>>
  BY DEF AdvanceJob, callVars
<1>4. \A j \in DOMAIN jobs : j # i => jobs[j].query # c
  BY DEF IInv, OneExportPerCall
<1>5. jobs[i].query = c
  OBVIOUS
<1> HIDE DEF c
<1>6. CallState' = CallState
  BY <1>3 DEF CallState
<1>7. \A d \in Calls : d # c => FileWritten'[d] = FileWritten[d]
  <2> SUFFICES ASSUME NEW d \in Calls, d # c
               PROVE  (\E j \in DOMAIN jobs' : jobs'[j].query = d /\ jobs'[j].status = "SUCCESS")
                 <=> (\E j \in DOMAIN jobs : jobs[j].query = d /\ jobs[j].status = "SUCCESS")
    BY DEF FileWritten
  <2>1. QED
    BY <1>2, <1>5
<1>8. FileWritten[c] = FALSE
  BY <1>1, <1>2, <1>4 DEF FileWritten
<1>9. CASE jobs'[i].status = "SUCCESS"
  <2>1. FileWritten'[c] = TRUE
    BY <1>1, <1>2, <1>9 DEF FileWritten
  <2>2. FileWritten' = [FileWritten EXCEPT ![c] = TRUE]
    BY <1>7, <2>1 DEF FileWritten
  <2>3. pc[c] # "idle"
    BY <1>1, <1>5 DEF IInv, JobsFit, Polling
  <2>4. pc[c] # "success"
    BY <1>1, <1>2, <1>4 DEF IInv, TaskIsOwn
  <2>5. CallState[c] \notin {"idle", "success"}
    BY <1>1, <2>3, <2>4 DEF CallState
  <2>6. PICK d \in Calls : d = c
    BY <1>1
  <2>7. Contract!Finish(d)
    BY <1>6, <1>8, <2>2, <2>5, <2>6 DEF Contract!Finish, CallState, FileWritten
  <2>8. QED
    BY <2>7 DEF ContractStep, Contract!ContractNext
<1>10. CASE jobs'[i].status # "SUCCESS"
  <2>1. FileWritten'[c] = FALSE
    BY <1>1, <1>2, <1>4, <1>10 DEF FileWritten
  <2>2. FileWritten' = FileWritten
    BY <1>7, <1>8, <2>1 DEF FileWritten
  <2>3. QED
    BY <1>6, <2>2, Stutters
<1>11. QED
  BY <1>9, <1>10

\* The safety part of the refinement, for any calls and exports: exportData
\* begins, finishes and settles as TransferContract lets it.
THEOREM ImplementsContract ==
  Spec => Contract!ContractInit /\ [][Contract!ContractNext]_(Contract!contractVars)
<1>1. Init => Contract!ContractInit
  BY DEF Init, Contract!ContractInit
<1>2. IInv /\ [Next]_vars => [Contract!ContractNext]_(Contract!contractVars)
  <2> SUFFICES ASSUME IInv, [Next]_vars PROVE ContractStep
    BY DEF ContractStep
  <2>1. ASSUME NEW c \in Calls, Plugin(c) \/ Service(c) PROVE ContractStep
    BY <2>1, PluginKeepsContract, ServiceKeepsContract
  <2>2. CASE UNCHANGED vars
    <3>1. CallState' = CallState /\ FileWritten' = FileWritten
      BY <2>2 DEF vars, callVars, CallState, FileWritten
    <3>2. QED
      BY <3>1, Stutters
  <2>3. QED
    BY <2>1, <2>2, AdvanceKeepsContract DEF Next
<1>3. QED
  BY <1>1, <1>2, Inductive, PTL DEF Spec
=============================================================================
