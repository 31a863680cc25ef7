-------------------------- MODULE ImportCSVProofs --------------------------
EXTENDS ImportCSV, SequenceTheorems, TLAPS

USE DEF Points, Requests, Outcomes, TaskStatus, FinalStatuses, standbyStatuses

\* Rounding the number of attempts up costs less than HEAD_START put aside.
LEMMA AttemptsFitTimeout ==
  /\ MAX_ATTEMPTS \in Nat
  /\ MAX_ATTEMPTS * MAX_BACKOFF_INTERVAL <= MAX_POLL_TIMEOUT
<1> DEFINE a == MAX_POLL_TIMEOUT - HEAD_START + MAX_BACKOFF_INTERVAL - 1
<1>1. a \in Nat /\ a <= MAX_POLL_TIMEOUT
  BY RetryAssumption
<1>2. ASSUME NEW n \in Nat, NEW d \in Nat \ {0}
      PROVE  n \div d \in Nat /\ (n \div d) * d <= n
  BY <1>2, Z3
<1>3. QED
  BY <1>1, <1>2, RetryAssumption DEF MAX_ATTEMPTS

\* The decorator's record keeps its type over an attempt that is not the last.
LEMMA AfterPauseType ==
  ASSUME NEW r \in RetryState, ~Exhausted(r)
  PROVE  AfterPause(r) \in RetryState
BY RetryAssumption DEF RetryState, Exhausted, AfterPause, NextBackOff

LEMMA FirstAttemptOK == FirstAttempt \in RetryState /\ WithinBudget(FirstAttempt)
BY AttemptsFitTimeout, RetryAssumption DEF FirstAttempt, RetryState, WithinBudget

\* A pause is paid for by the attempt it precedes.
LEMMA AfterPauseWithinBudget ==
  ASSUME NEW r \in RetryState, ~Exhausted(r), WithinBudget(r)
  PROVE  WithinBudget(AfterPause(r))
<1>1. /\ r.left \in Int /\ r.slept \in Int /\ r.wait \in Int
      /\ r.wait <= MAX_BACKOFF_INTERVAL
      /\ MAX_BACKOFF_INTERVAL \in Int
  BY RetryAssumption DEF RetryState
<1>2. (r.left - 1) * MAX_BACKOFF_INTERVAL
        = r.left * MAX_BACKOFF_INTERVAL - MAX_BACKOFF_INTERVAL
  BY <1>1
<1>3. QED
  BY <1>1, <1>2, AttemptsFitTimeout DEF WithinBudget, AfterPause

\* A call within its budget has slept at most MAX_POLL_TIMEOUT.
THEOREM SleepsAtMostTimeout ==
  ASSUME NEW r \in RetryState, WithinBudget(r)
  PROVE  r.slept <= MAX_POLL_TIMEOUT
<1>1. r.left \in Nat /\ r.slept \in Nat /\ MAX_BACKOFF_INTERVAL \in Nat
  BY RetryAssumption DEF RetryState
<1>2. r.left * MAX_BACKOFF_INTERVAL \in Nat
  BY <1>1
<1>3. QED
  BY <1>1, <1>2, AttemptsFitTimeout, RetryAssumption DEF WithinBudget

\* What a reply of each kind carries.
LEMMA ReplyShape ==
  ASSUME NEW r \in Reply
  PROVE  /\ r.kind = "object" => r.object \in Objects
         /\ r.kind = "task" => r.task \in Nat \ {0}
         /\ r.kind = "status" => r.status \in TaskStatus
         /\ r.kind \in {"none", "error", "ok", "empty", "object", "task", "status"}
BY DEF Reply

\* The replies the actions build.
LEMMA ReplyMade ==
  /\ Nothing \in Reply
  /\ \A k \in {"error", "ok", "empty"} : [kind |-> k] \in Reply
  /\ \A o \in Objects : [kind |-> "object", object |-> o] \in Reply
  /\ \A t \in Nat \ {0} : [kind |-> "task", task |-> t] \in Reply
  /\ \A s \in TaskStatus : [kind |-> "status", status |-> s] \in Reply
BY DEF Reply, Nothing

\* A job that moves on keeps its place, its owner and its url.
LEMMA AdvanceTaskStep ==
  ASSUME TypeOK, NEW t \in 1..Len(tasks), AdvanceTask(t)
  PROVE  /\ tasks' \in Seq(Task)
         /\ DOMAIN tasks' = DOMAIN tasks
         /\ \A u \in DOMAIN tasks : u # t => tasks'[u] = tasks[u]
         /\ tasks'[t].owner = tasks[t].owner
         /\ tasks'[t].url = tasks[t].url
         /\ tasks[t].status \notin FinalStatuses
         /\ tasks'[t].status = "SUCCESS" => Content(tasks[t].url) \in Calls
<1>1. PICK st \in TaskStatus :
        /\ tasks' = [tasks EXCEPT ![t].status = st]
        /\ st = "SUCCESS" => Content(tasks[t].url) \in Calls
        /\ tasks[t].status \notin FinalStatuses
  BY DEF AdvanceTask
<1> DEFINE moved == [tasks[t] EXCEPT !.status = st]
<1>2. tasks \in Seq(Task) /\ tasks[t] \in Task
  BY DEF TypeOK
<1>3. /\ moved \in Task
      /\ moved.owner = tasks[t].owner
      /\ moved.url = tasks[t].url
      /\ moved.status = st
  BY <1>1, <1>2 DEF Task
<1>4. tasks' = [tasks EXCEPT ![t] = moved]
  BY <1>1
<1> HIDE DEF moved
<1>5. tasks' \in Seq(Task) /\ DOMAIN tasks' = DOMAIN tasks
  BY <1>2, <1>3, <1>4, ExceptSeq
<1>6. tasks'[t] = moved /\ \A u \in DOMAIN tasks : u # t => tasks'[u] = tasks[u]
  BY <1>2, <1>4
<1>7. QED
  BY <1>1, <1>3, <1>5, <1>6

LEMMA TypeStep == TypeOK /\ [Next]_vars => TypeOK'
<1> SUFFICES ASSUME TypeOK, [Next]_vars PROVE TypeOK'
  OBVIOUS
<1> USE DEF TypeOK
<1>1. ASSUME NEW c \in Calls, ImportFromData(c) PROVE TypeOK'
  BY <1>1, ReplyMade DEF ImportFromData, Continue, serviceVars
<1>2. ASSUME NEW c \in Calls, ImportFromURL(c) PROVE TypeOK'
  BY <1>2, ReplyMade DEF ImportFromURL, Continue, serviceVars
<1>3. ASSUME NEW c \in Calls, OnPresignedURL(c) PROVE TypeOK'
  <2>1. CASE reply[c].kind = "object"
    <3>1. reply[c] \in Reply
      OBVIOUS
    <3>2. reply[c].object \in Objects
      BY <2>1, <3>1, ReplyShape
    <3>3. QED
      BY ZenonT(60), <1>3, <2>1, <3>2, ReplyMade DEF OnPresignedURL, Continue, serviceVars
  <2>2. CASE reply[c].kind # "object"
    BY ZenonT(60), <1>3, <2>2, ReplyMade DEF OnPresignedURL, Continue, serviceVars
  <2>3. QED
    BY <2>1, <2>2
<1>4. ASSUME NEW c \in Calls, OnUploaded(c) PROVE TypeOK'
  BY <1>4, ReplyMade, ReplyShape DEF OnUploaded, Answered, Continue, serviceVars
<1>5. ASSUME NEW c \in Calls, OnLoadStarted(c) PROVE TypeOK'
  <2>1. CASE reply[c].kind = "task"
    <3>1. reply[c] \in Reply
      OBVIOUS
    <3>2. reply[c].task \in Nat \ {0}
      BY <2>1, <3>1, ReplyShape
    <3>3. task' = [task EXCEPT ![c] = reply[c].task] /\ Continue(c, "ingestionJobStatus")
            /\ UNCHANGED <<url, known, retry, serviceVars>>
      BY <1>5, <2>1 DEF OnLoadStarted
    <3>4. task' \in [Calls -> Nat]
      BY <3>2, <3>3
    <3>5. pc' \in [Calls -> Points] /\ reply' \in [Calls -> Reply]
      BY <3>3, ReplyMade DEF Continue
    <3>6. QED
      BY <3>3, <3>4, <3>5 DEF serviceVars
  <2>2. CASE reply[c].kind # "task"
    BY ZenonT(60), <1>5, <2>2, ReplyMade DEF OnLoadStarted, Continue, serviceVars
  <2>3. QED
    BY <2>1, <2>2
<1>6. ASSUME NEW c \in Calls, OnJobStatus(c) PROVE TypeOK'
  <2>1. pc' \in [Calls -> Points] /\ reply' \in [Calls -> Reply]
    BY ZenonT(60), <1>6, ReplyMade DEF OnJobStatus, PollAgain, Continue
  <2>2. retry' \in [Calls -> RetryState]
    BY <1>6, AfterPauseType DEF OnJobStatus, PollAgain
  <2>3. known' \in [Calls -> FinalStatuses \cup {"UNKNOWN"}]
    <3>1. reply[c] \in Reply
      OBVIOUS
    <3>2. reply[c].kind = "status" /\ ~taskUnresolved(reply[c].status)
            => reply[c].status \in FinalStatuses
      BY <3>1, ReplyShape DEF taskUnresolved
    <3>3. QED
      BY <1>6, <3>2 DEF OnJobStatus
  <2>4. QED
    BY <1>6, <2>1, <2>2, <2>3 DEF OnJobStatus, serviceVars
<1>7. ASSUME NEW c \in Calls, WakeUp(c) PROVE TypeOK'
  BY <1>7, ReplyMade DEF WakeUp, Continue, serviceVars
<1>8. ASSUME NEW c \in Calls, OnJobLog(c) PROVE TypeOK'
  BY <1>8, ReplyMade, ReplyShape DEF OnJobLog, Answered, Continue, serviceVars
<1>9. ASSUME NEW c \in Calls, ServePresignedURL(c) PROVE TypeOK'
  BY <1>9, ReplyMade DEF ServePresignedURL, Awaiting, Answer
<1>10. ASSUME NEW c \in Calls, ServeUpload(c) PROVE TypeOK'
  BY <1>10, ReplyMade DEF ServeUpload, Awaiting, Answer
<1>11. ASSUME NEW c \in Calls, ServeStartLoad(c) PROVE TypeOK'
  BY <1>11, ReplyMade DEF ServeStartLoad, Awaiting, Answer, Task
<1>12. ASSUME NEW c \in Calls, ServeJobStatus(c) PROVE TypeOK'
  <2>1. ASSUME NEW t \in matchingJob(task[c]) PROVE tasks[t].status \in TaskStatus
    <3>1. t \in DOMAIN tasks /\ tasks[t].status # "UNLISTED"
      BY DEF matchingJob, Nodes, Listed
    <3>2. tasks[t] \in Task
      BY <3>1
    <3>3. QED
      BY <3>1, <3>2 DEF Task
  <2>2. ASSUME NEW t \in matchingJob(task[c])
        PROVE  [kind |-> "status", status |-> tasks[t].status] \in Reply
    BY <2>1, ReplyMade
  <2>3. [kind |-> "empty"] \in Reply
    BY ReplyMade
  <2>4. \E r \in Reply : Answer(c, r)
    BY <1>12, <2>2, <2>3 DEF ServeJobStatus
  <2>5. QED
    BY <1>12, <2>4 DEF ServeJobStatus, Answer, serviceVars
<1>13. ASSUME NEW c \in Calls, ServeJobLog(c) PROVE TypeOK'
  BY <1>13, ReplyMade DEF ServeJobLog, Awaiting, Answer, serviceVars
<1>14. ASSUME NEW c \in Calls, FailRequest(c) PROVE TypeOK'
  <2>1. [kind |-> "error"] \in Reply
    BY ReplyMade
  <2>2. QED
    BY <1>14, <2>1 DEF FailRequest, Answer, serviceVars
<1>15. ASSUME NEW t \in 1..Len(tasks), AdvanceTask(t) PROVE TypeOK'
  BY <1>15, AdvanceTaskStep DEF AdvanceTask, callVars
<1>16. ASSUME OtherLoad PROVE TypeOK'
  BY <1>16 DEF OtherLoad, callVars, Task
<1>17. CASE UNCHANGED vars
  BY <1>17 DEF vars, callVars, serviceVars
<1>18. QED
  <2> HIDE DEF TypeOK
  <2> QED BY <1>1, <1>2, <1>3, <1>4, <1>5, <1>6, <1>7, <1>8, <1>9, <1>10, <1>11, <1>12, <1>13, <1>14, <1>15, <1>16, <1>17 DEF Next, Plugin, Service

\* A load is appended behind the ones there are.
LEMMA AppendStep ==
  ASSUME TypeOK, NEW e \in Task, tasks' = Append(tasks, e)
  PROVE  /\ DOMAIN tasks' = DOMAIN tasks \cup {Len(tasks) + 1}
         /\ Len(tasks) + 1 \notin DOMAIN tasks
         /\ \A t \in DOMAIN tasks : tasks'[t] = tasks[t]
         /\ tasks'[Len(tasks) + 1] = e
<1>1. tasks \in Seq(Task)
  BY DEF TypeOK
<1>2. QED
  BY <1>1, AppendProperties

\* A status answer tells the status of the call's own, listed job.
LEMMA JobStatusReply ==
  ASSUME TypeOK, NEW c \in Calls, ServeJobStatus(c)
  PROVE  \E r \in Reply :
           /\ Answer(c, r)
           /\ r.kind \in {"empty", "status"}
           /\ r.kind = "status" => r.status = tasks[task[c]].status
<1>1. CASE Answer(c, [kind |-> "empty"])
  BY <1>1, ReplyMade
<1>2. ASSUME NEW t \in matchingJob(task[c]),
             Answer(c, [kind |-> "status", status |-> tasks[t].status])
      PROVE  \E r \in Reply :
               /\ Answer(c, r)
               /\ r.kind \in {"empty", "status"}
               /\ r.kind = "status" => r.status = tasks[task[c]].status
  <2>1. t = task[c] /\ t \in DOMAIN tasks /\ tasks[t].status # "UNLISTED"
    BY DEF matchingJob, Nodes, Listed
  <2>2. tasks[t] \in Task
    BY <2>1 DEF TypeOK
  <2>3. tasks[t].status \in TaskStatus
    BY <2>1, <2>2 DEF Task
  <2>4. [kind |-> "status", status |-> tasks[t].status] \in Reply
    BY <2>3, ReplyMade
  <2>5. QED
    BY <1>2, <2>1, <2>4
<1>3. QED
  BY <1>1, <1>2 DEF ServeJobStatus

\* Objects stay exclusive as long as no call gets hold of a new one.
LEMMA ObjectsKept ==
  ASSUME TypeOK, ObjectsExclusive, UNCHANGED store,
         \A d \in Calls : reply'[d].kind = "object" => reply'[d] = reply[d],
         \A d \in Calls : url'[d] \in Objects => url'[d] = url[d]
  PROVE  ObjectsExclusive'
<1>1. \A d \in Calls : reply[d] \in Reply
  BY DEF TypeOK
<1>2. \A d \in Calls : reply[d].kind = "object" => reply[d].object \in Objects
  BY <1>1, ReplyShape
<1>3. QED
  BY <1>2 DEF ObjectsExclusive

LEMMA IInvStep == IInv /\ [Next]_vars => IInv'
<1> SUFFICES ASSUME IInv, [Next]_vars PROVE IInv'
  OBVIOUS
<1>0. TypeOK'
  BY TypeStep DEF IInv
<1> USE DEF TypeOK, IInv, Polling, Nothing
<1>1. ASSUME NEW c \in Calls, ImportFromData(c) PROVE IInv'
  <2>1. ReplyFits'
    BY <1>1, ImportAssumption DEF ImportFromData, Continue, serviceVars, Content, ReplyFits, UrlFits, ObjectsExclusive, UploadedFirst, TasksFit, OneLoadPerCall, TaskIsOwn, StatusIsOwn
  <2>2. UrlFits'
    BY <1>1, ImportAssumption DEF ImportFromData, Continue, serviceVars, Content, ReplyFits, UrlFits, ObjectsExclusive, UploadedFirst, TasksFit, OneLoadPerCall, TaskIsOwn, StatusIsOwn
  <2>3. ObjectsExclusive'
    BY <1>1, ImportAssumption DEF ImportFromData, Continue, serviceVars, Content, ReplyFits, UrlFits, ObjectsExclusive, UploadedFirst, TasksFit, OneLoadPerCall, TaskIsOwn, StatusIsOwn
  <2>4. UploadedFirst'
    BY <1>1, ImportAssumption DEF ImportFromData, Continue, serviceVars, Content, ReplyFits, UrlFits, ObjectsExclusive, UploadedFirst, TasksFit, OneLoadPerCall, TaskIsOwn, StatusIsOwn
  <2>5. TasksFit'
    BY <1>1, ImportAssumption DEF ImportFromData, Continue, serviceVars, Content, ReplyFits, UrlFits, ObjectsExclusive, UploadedFirst, TasksFit, OneLoadPerCall, TaskIsOwn, StatusIsOwn
  <2>6. OneLoadPerCall'
    BY <1>1, ImportAssumption DEF ImportFromData, Continue, serviceVars, Content, ReplyFits, UrlFits, ObjectsExclusive, UploadedFirst, TasksFit, OneLoadPerCall, TaskIsOwn, StatusIsOwn
  <2>7. TaskIsOwn'
    BY <1>1, ImportAssumption DEF ImportFromData, Continue, serviceVars, Content, ReplyFits, UrlFits, ObjectsExclusive, UploadedFirst, TasksFit, OneLoadPerCall, TaskIsOwn, StatusIsOwn
  <2>8. StatusIsOwn'
    BY <1>1, ImportAssumption DEF ImportFromData, Continue, serviceVars, Content, ReplyFits, UrlFits, ObjectsExclusive, UploadedFirst, TasksFit, OneLoadPerCall, TaskIsOwn, StatusIsOwn
  <2>9. QED
    BY <1>0, <2>1, <2>2, <2>3, <2>4, <2>5, <2>6, <2>7, <2>8
<1>2. ASSUME NEW c \in Calls, ImportFromURL(c) PROVE IInv'
  <2>1. ReplyFits'
    BY <1>2, ImportAssumption DEF ImportFromURL, Continue, serviceVars, Content, ReplyFits, UrlFits, ObjectsExclusive, UploadedFirst, TasksFit, OneLoadPerCall, TaskIsOwn, StatusIsOwn
  <2>2. UrlFits'
    BY <1>2, ImportAssumption DEF ImportFromURL, Continue, serviceVars, Content, ReplyFits, UrlFits, ObjectsExclusive, UploadedFirst, TasksFit, OneLoadPerCall, TaskIsOwn, StatusIsOwn
  <2>3. ObjectsExclusive'
    <3>1. \A d \in Calls : reply'[d].kind = "object" => reply'[d] = reply[d]
      BY <1>2 DEF ImportFromURL, Continue
    <3>2. \A d \in Calls : url'[d] \in Objects => url'[d] = url[d]
      BY <1>2, ImportAssumption DEF ImportFromURL
    <3>3. QED
      BY <1>2, <3>1, <3>2, ObjectsKept DEF ImportFromURL, serviceVars
  <2>4. UploadedFirst'
    BY <1>2, ImportAssumption DEF ImportFromURL, Continue, serviceVars, Content, ReplyFits, UrlFits, ObjectsExclusive, UploadedFirst, TasksFit, OneLoadPerCall, TaskIsOwn, StatusIsOwn
  <2>5. TasksFit'
    BY <1>2, ImportAssumption DEF ImportFromURL, Continue, serviceVars, Content, ReplyFits, UrlFits, ObjectsExclusive, UploadedFirst, TasksFit, OneLoadPerCall, TaskIsOwn, StatusIsOwn
  <2>6. OneLoadPerCall'
    BY <1>2, ImportAssumption DEF ImportFromURL, Continue, serviceVars, Content, ReplyFits, UrlFits, ObjectsExclusive, UploadedFirst, TasksFit, OneLoadPerCall, TaskIsOwn, StatusIsOwn
  <2>7. TaskIsOwn'
    BY <1>2, ImportAssumption DEF ImportFromURL, Continue, serviceVars, Content, ReplyFits, UrlFits, ObjectsExclusive, UploadedFirst, TasksFit, OneLoadPerCall, TaskIsOwn, StatusIsOwn
  <2>8. StatusIsOwn'
    BY <1>2, ImportAssumption DEF ImportFromURL, Continue, serviceVars, Content, ReplyFits, UrlFits, ObjectsExclusive, UploadedFirst, TasksFit, OneLoadPerCall, TaskIsOwn, StatusIsOwn
  <2>9. QED
    BY <1>0, <2>1, <2>2, <2>3, <2>4, <2>5, <2>6, <2>7, <2>8
<1>3. ASSUME NEW c \in Calls, OnPresignedURL(c) PROVE IInv'
  <2>1. ReplyFits'
    BY <1>3, ImportAssumption, ReplyShape DEF OnPresignedURL, Answered, Continue, serviceVars, Content, ReplyFits, UrlFits, ObjectsExclusive, UploadedFirst, TasksFit, OneLoadPerCall, TaskIsOwn, StatusIsOwn
  <2>2. UrlFits'
    BY <1>3, ImportAssumption, ReplyShape DEF OnPresignedURL, Answered, Continue, serviceVars, Content, ReplyFits, UrlFits, ObjectsExclusive, UploadedFirst, TasksFit, OneLoadPerCall, TaskIsOwn, StatusIsOwn
  <2>3. ObjectsExclusive'
    <3>1. CASE reply[c].kind = "object"
      <4>1. reply[c] \in Reply
        OBVIOUS
      <4>2. PICK o \in Objects : o = reply[c].object
        BY <3>1, <4>1, ReplyShape
      <4>3. /\ store' = store
            /\ url' = [url EXCEPT ![c] = o]
            /\ reply' = [reply EXCEPT ![c] = [kind |-> "none"]]
        BY <1>3, <3>1, <4>2 DEF OnPresignedURL, Continue, serviceVars
      <4>4. /\ store[o] = NoData
            /\ \A d \in Calls : /\ url[d] # o
                                /\ d # c /\ reply[d].kind = "object"
                                     => reply[d].object # o
        BY <3>1, <4>2 DEF ObjectsExclusive
      <4>5. QED
        BY <4>3, <4>4 DEF ObjectsExclusive
    <3>2. CASE reply[c].kind # "object"
      BY <1>3, <3>2, ObjectsKept DEF OnPresignedURL, Continue, serviceVars
    <3>3. QED
      BY <3>1, <3>2
  <2>4. UploadedFirst'
    BY <1>3, ImportAssumption, ReplyShape DEF OnPresignedURL, Answered, Continue, serviceVars, Content, ReplyFits, UrlFits, ObjectsExclusive, UploadedFirst, TasksFit, OneLoadPerCall, TaskIsOwn, StatusIsOwn
  <2>5. TasksFit'
    BY <1>3, ImportAssumption, ReplyShape DEF OnPresignedURL, Answered, Continue, serviceVars, Content, ReplyFits, UrlFits, ObjectsExclusive, UploadedFirst, TasksFit, OneLoadPerCall, TaskIsOwn, StatusIsOwn
  <2>6. OneLoadPerCall'
    BY <1>3, ImportAssumption, ReplyShape DEF OnPresignedURL, Answered, Continue, serviceVars, Content, ReplyFits, UrlFits, ObjectsExclusive, UploadedFirst, TasksFit, OneLoadPerCall, TaskIsOwn, StatusIsOwn
  <2>7. TaskIsOwn'
    BY <1>3, ImportAssumption, ReplyShape DEF OnPresignedURL, Answered, Continue, serviceVars, Content, ReplyFits, UrlFits, ObjectsExclusive, UploadedFirst, TasksFit, OneLoadPerCall, TaskIsOwn, StatusIsOwn
  <2>8. StatusIsOwn'
    BY <1>3, ImportAssumption, ReplyShape DEF OnPresignedURL, Answered, Continue, serviceVars, Content, ReplyFits, UrlFits, ObjectsExclusive, UploadedFirst, TasksFit, OneLoadPerCall, TaskIsOwn, StatusIsOwn
  <2>9. QED
    BY <1>0, <2>1, <2>2, <2>3, <2>4, <2>5, <2>6, <2>7, <2>8
<1>4. ASSUME NEW c \in Calls, OnUploaded(c) PROVE IInv'
  <2>1. ReplyFits'
    BY <1>4, ImportAssumption, ReplyShape DEF OnUploaded, Answered, Continue, serviceVars, Content, ReplyFits, UrlFits, ObjectsExclusive, UploadedFirst, TasksFit, OneLoadPerCall, TaskIsOwn, StatusIsOwn
  <2>2. UrlFits'
    BY <1>4, ImportAssumption, ReplyShape DEF OnUploaded, Answered, Continue, serviceVars, Content, ReplyFits, UrlFits, ObjectsExclusive, UploadedFirst, TasksFit, OneLoadPerCall, TaskIsOwn, StatusIsOwn
  <2>3. ObjectsExclusive'
    BY <1>4, ImportAssumption, ReplyShape DEF OnUploaded, Answered, Continue, serviceVars, Content, ReplyFits, UrlFits, ObjectsExclusive, UploadedFirst, TasksFit, OneLoadPerCall, TaskIsOwn, StatusIsOwn
  <2>4. UploadedFirst'
    BY <1>4, ImportAssumption, ReplyShape DEF OnUploaded, Answered, Continue, serviceVars, Content, ReplyFits, UrlFits, ObjectsExclusive, UploadedFirst, TasksFit, OneLoadPerCall, TaskIsOwn, StatusIsOwn
  <2>5. TasksFit'
    BY <1>4, ImportAssumption, ReplyShape DEF OnUploaded, Answered, Continue, serviceVars, Content, ReplyFits, UrlFits, ObjectsExclusive, UploadedFirst, TasksFit, OneLoadPerCall, TaskIsOwn, StatusIsOwn
  <2>6. OneLoadPerCall'
    BY <1>4, ImportAssumption, ReplyShape DEF OnUploaded, Answered, Continue, serviceVars, Content, ReplyFits, UrlFits, ObjectsExclusive, UploadedFirst, TasksFit, OneLoadPerCall, TaskIsOwn, StatusIsOwn
  <2>7. TaskIsOwn'
    BY <1>4, ImportAssumption, ReplyShape DEF OnUploaded, Answered, Continue, serviceVars, Content, ReplyFits, UrlFits, ObjectsExclusive, UploadedFirst, TasksFit, OneLoadPerCall, TaskIsOwn, StatusIsOwn
  <2>8. StatusIsOwn'
    BY <1>4, ImportAssumption, ReplyShape DEF OnUploaded, Answered, Continue, serviceVars, Content, ReplyFits, UrlFits, ObjectsExclusive, UploadedFirst, TasksFit, OneLoadPerCall, TaskIsOwn, StatusIsOwn
  <2>9. QED
    BY <1>0, <2>1, <2>2, <2>3, <2>4, <2>5, <2>6, <2>7, <2>8
<1>5. ASSUME NEW c \in Calls, OnLoadStarted(c) PROVE IInv'
  <2>1. ReplyFits'
    BY <1>5, ImportAssumption, ReplyShape DEF OnLoadStarted, Answered, Continue, serviceVars, Content, ReplyFits, UrlFits, ObjectsExclusive, UploadedFirst, TasksFit, OneLoadPerCall, TaskIsOwn, StatusIsOwn
  <2>2. UrlFits'
    BY <1>5, ImportAssumption, ReplyShape DEF OnLoadStarted, Answered, Continue, serviceVars, Content, ReplyFits, UrlFits, ObjectsExclusive, UploadedFirst, TasksFit, OneLoadPerCall, TaskIsOwn, StatusIsOwn
  <2>3. ObjectsExclusive'
    <3>1. \A d \in Calls : reply'[d].kind = "object" => reply'[d] = reply[d]
      BY <1>5 DEF OnLoadStarted, Continue
    <3>2. QED
      BY <1>5, <3>1, ObjectsKept, ImportAssumption DEF OnLoadStarted, serviceVars
  <2>4. UploadedFirst'
    BY <1>5, ImportAssumption, ReplyShape DEF OnLoadStarted, Answered, Continue, serviceVars, Content, ReplyFits, UrlFits, ObjectsExclusive, UploadedFirst, TasksFit, OneLoadPerCall, TaskIsOwn, StatusIsOwn
  <2>5. TasksFit'
    BY <1>5, ImportAssumption, ReplyShape DEF OnLoadStarted, Answered, Continue, serviceVars, Content, ReplyFits, UrlFits, ObjectsExclusive, UploadedFirst, TasksFit, OneLoadPerCall, TaskIsOwn, StatusIsOwn
  <2>6. OneLoadPerCall'
    BY <1>5, ImportAssumption, ReplyShape DEF OnLoadStarted, Answered, Continue, serviceVars, Content, ReplyFits, UrlFits, ObjectsExclusive, UploadedFirst, TasksFit, OneLoadPerCall, TaskIsOwn, StatusIsOwn
  <2>7. TaskIsOwn'
    BY <1>5, ImportAssumption, ReplyShape DEF OnLoadStarted, Answered, Continue, serviceVars, Content, ReplyFits, UrlFits, ObjectsExclusive, UploadedFirst, TasksFit, OneLoadPerCall, TaskIsOwn, StatusIsOwn
  <2>8. StatusIsOwn'
    BY SMTT(30), <1>5, ImportAssumption, ReplyShape DEF OnLoadStarted, Answered, Continue, serviceVars, Content, ReplyFits, UrlFits, ObjectsExclusive, UploadedFirst, TasksFit, OneLoadPerCall, TaskIsOwn, StatusIsOwn
  <2>9. QED
    BY <1>0, <2>1, <2>2, <2>3, <2>4, <2>5, <2>6, <2>7, <2>8
<1>6. ASSUME NEW c \in Calls, OnJobStatus(c) PROVE IInv'
  <2>1. ReplyFits'
    <3>1. /\ reply' = [reply EXCEPT ![c] = [kind |-> "none"]]
          /\ \A d \in Calls : d # c => pc'[d] = pc[d]
      BY <1>6 DEF OnJobStatus, PollAgain, Continue
    <3>2. QED
      BY <3>1 DEF ReplyFits
  <2>2. UrlFits'
    BY <1>6, ImportAssumption, ReplyShape DEF OnJobStatus, PollAgain, Answered, Continue, serviceVars, taskUnresolved, Content, ReplyFits, UrlFits, ObjectsExclusive, UploadedFirst, TasksFit, OneLoadPerCall, TaskIsOwn, StatusIsOwn
  <2>3. ObjectsExclusive'
    <3>1. \A d \in Calls : reply'[d].kind = "object" => reply'[d] = reply[d]
      BY <1>6 DEF OnJobStatus, PollAgain, Continue
    <3>2. QED
      BY <1>6, <3>1, ObjectsKept, ImportAssumption DEF OnJobStatus, serviceVars
  <2>4. UploadedFirst'
    BY <1>6, ImportAssumption, ReplyShape DEF OnJobStatus, PollAgain, Answered, Continue, serviceVars, taskUnresolved, Content, ReplyFits, UrlFits, ObjectsExclusive, UploadedFirst, TasksFit, OneLoadPerCall, TaskIsOwn, StatusIsOwn
  <2>5. TasksFit'
    BY <1>6, ImportAssumption, ReplyShape DEF OnJobStatus, PollAgain, Answered, Continue, serviceVars, taskUnresolved, Content, ReplyFits, UrlFits, ObjectsExclusive, UploadedFirst, TasksFit, OneLoadPerCall, TaskIsOwn, StatusIsOwn
  <2>6. OneLoadPerCall'
    BY <1>6, ImportAssumption, ReplyShape DEF OnJobStatus, PollAgain, Answered, Continue, serviceVars, taskUnresolved, Content, ReplyFits, UrlFits, ObjectsExclusive, UploadedFirst, TasksFit, OneLoadPerCall, TaskIsOwn, StatusIsOwn
  <2>7. TaskIsOwn'
    BY <1>6, ImportAssumption, ReplyShape DEF OnJobStatus, PollAgain, Answered, Continue, serviceVars, taskUnresolved, Content, ReplyFits, UrlFits, ObjectsExclusive, UploadedFirst, TasksFit, OneLoadPerCall, TaskIsOwn, StatusIsOwn
  <2>8. StatusIsOwn'
    BY <1>6, ImportAssumption, ReplyShape DEF OnJobStatus, PollAgain, Answered, Continue, serviceVars, taskUnresolved, Content, ReplyFits, UrlFits, ObjectsExclusive, UploadedFirst, TasksFit, OneLoadPerCall, TaskIsOwn, StatusIsOwn
  <2>9. QED
    BY <1>0, <2>1, <2>2, <2>3, <2>4, <2>5, <2>6, <2>7, <2>8
<1>7. ASSUME NEW c \in Calls, WakeUp(c) PROVE IInv'
  <2>1. ReplyFits'
    BY <1>7, ImportAssumption DEF WakeUp, Continue, serviceVars, Content, ReplyFits, UrlFits, ObjectsExclusive, UploadedFirst, TasksFit, OneLoadPerCall, TaskIsOwn, StatusIsOwn
  <2>2. UrlFits'
    BY <1>7, ImportAssumption DEF WakeUp, Continue, serviceVars, Content, ReplyFits, UrlFits, ObjectsExclusive, UploadedFirst, TasksFit, OneLoadPerCall, TaskIsOwn, StatusIsOwn
  <2>3. ObjectsExclusive'
    BY <1>7, ImportAssumption DEF WakeUp, Continue, serviceVars, Content, ReplyFits, UrlFits, ObjectsExclusive, UploadedFirst, TasksFit, OneLoadPerCall, TaskIsOwn, StatusIsOwn
  <2>4. UploadedFirst'
    BY <1>7, ImportAssumption DEF WakeUp, Continue, serviceVars, Content, ReplyFits, UrlFits, ObjectsExclusive, UploadedFirst, TasksFit, OneLoadPerCall, TaskIsOwn, StatusIsOwn
  <2>5. TasksFit'
    BY <1>7, ImportAssumption DEF WakeUp, Continue, serviceVars, Content, ReplyFits, UrlFits, ObjectsExclusive, UploadedFirst, TasksFit, OneLoadPerCall, TaskIsOwn, StatusIsOwn
  <2>6. OneLoadPerCall'
    BY <1>7, ImportAssumption DEF WakeUp, Continue, serviceVars, Content, ReplyFits, UrlFits, ObjectsExclusive, UploadedFirst, TasksFit, OneLoadPerCall, TaskIsOwn, StatusIsOwn
  <2>7. TaskIsOwn'
    BY <1>7, ImportAssumption DEF WakeUp, Continue, serviceVars, Content, ReplyFits, UrlFits, ObjectsExclusive, UploadedFirst, TasksFit, OneLoadPerCall, TaskIsOwn, StatusIsOwn
  <2>8. StatusIsOwn'
    BY <1>7, ImportAssumption DEF WakeUp, Continue, serviceVars, Content, ReplyFits, UrlFits, ObjectsExclusive, UploadedFirst, TasksFit, OneLoadPerCall, TaskIsOwn, StatusIsOwn
  <2>9. QED
    BY <1>0, <2>1, <2>2, <2>3, <2>4, <2>5, <2>6, <2>7, <2>8
<1>8. ASSUME NEW c \in Calls, OnJobLog(c) PROVE IInv'
  <2>1. ReplyFits'
    BY <1>8, ImportAssumption, ReplyShape DEF OnJobLog, Answered, Continue, serviceVars, Content, ReplyFits, UrlFits, ObjectsExclusive, UploadedFirst, TasksFit, OneLoadPerCall, TaskIsOwn, StatusIsOwn
  <2>2. UrlFits'
    BY <1>8, ImportAssumption, ReplyShape DEF OnJobLog, Answered, Continue, serviceVars, Content, ReplyFits, UrlFits, ObjectsExclusive, UploadedFirst, TasksFit, OneLoadPerCall, TaskIsOwn, StatusIsOwn
  <2>3. ObjectsExclusive'
    BY <1>8, ImportAssumption, ReplyShape DEF OnJobLog, Answered, Continue, serviceVars, Content, ReplyFits, UrlFits, ObjectsExclusive, UploadedFirst, TasksFit, OneLoadPerCall, TaskIsOwn, StatusIsOwn
  <2>4. UploadedFirst'
    BY <1>8, ImportAssumption, ReplyShape DEF OnJobLog, Answered, Continue, serviceVars, Content, ReplyFits, UrlFits, ObjectsExclusive, UploadedFirst, TasksFit, OneLoadPerCall, TaskIsOwn, StatusIsOwn
  <2>5. TasksFit'
    BY <1>8, ImportAssumption, ReplyShape DEF OnJobLog, Answered, Continue, serviceVars, Content, ReplyFits, UrlFits, ObjectsExclusive, UploadedFirst, TasksFit, OneLoadPerCall, TaskIsOwn, StatusIsOwn
  <2>6. OneLoadPerCall'
    BY <1>8, ImportAssumption, ReplyShape DEF OnJobLog, Answered, Continue, serviceVars, Content, ReplyFits, UrlFits, ObjectsExclusive, UploadedFirst, TasksFit, OneLoadPerCall, TaskIsOwn, StatusIsOwn
  <2>7. TaskIsOwn'
    BY <1>8, ImportAssumption, ReplyShape DEF OnJobLog, Answered, Continue, serviceVars, Content, ReplyFits, UrlFits, ObjectsExclusive, UploadedFirst, TasksFit, OneLoadPerCall, TaskIsOwn, StatusIsOwn
  <2>8. StatusIsOwn'
    BY <1>8, ImportAssumption, ReplyShape DEF OnJobLog, Answered, Continue, serviceVars, Content, ReplyFits, UrlFits, ObjectsExclusive, UploadedFirst, TasksFit, OneLoadPerCall, TaskIsOwn, StatusIsOwn
  <2>9. QED
    BY <1>0, <2>1, <2>2, <2>3, <2>4, <2>5, <2>6, <2>7, <2>8
<1>9. ASSUME NEW c \in Calls, ServePresignedURL(c) PROVE IInv'
  <2>1. ReplyFits'
    BY <1>9, ImportAssumption DEF ServePresignedURL, Awaiting, Answer, Content, ReplyFits, UrlFits, ObjectsExclusive, UploadedFirst, TasksFit, OneLoadPerCall, TaskIsOwn, StatusIsOwn
  <2>2. UrlFits'
    BY <1>9, ImportAssumption DEF ServePresignedURL, Awaiting, Answer, Content, ReplyFits, UrlFits, ObjectsExclusive, UploadedFirst, TasksFit, OneLoadPerCall, TaskIsOwn, StatusIsOwn
  <2>3. ObjectsExclusive'
    BY <1>9, ImportAssumption DEF ServePresignedURL, Awaiting, Answer, Content, ReplyFits, UrlFits, ObjectsExclusive, UploadedFirst, TasksFit, OneLoadPerCall, TaskIsOwn, StatusIsOwn
  <2>4. UploadedFirst'
    BY <1>9, ImportAssumption DEF ServePresignedURL, Awaiting, Answer, Content, ReplyFits, UrlFits, ObjectsExclusive, UploadedFirst, TasksFit, OneLoadPerCall, TaskIsOwn, StatusIsOwn
  <2>5. TasksFit'
    BY <1>9, ImportAssumption DEF ServePresignedURL, Awaiting, Answer, Content, ReplyFits, UrlFits, ObjectsExclusive, UploadedFirst, TasksFit, OneLoadPerCall, TaskIsOwn, StatusIsOwn
  <2>6. OneLoadPerCall'
    BY <1>9, ImportAssumption DEF ServePresignedURL, Awaiting, Answer, Content, ReplyFits, UrlFits, ObjectsExclusive, UploadedFirst, TasksFit, OneLoadPerCall, TaskIsOwn, StatusIsOwn
  <2>7. TaskIsOwn'
    BY <1>9, ImportAssumption DEF ServePresignedURL, Awaiting, Answer, Content, ReplyFits, UrlFits, ObjectsExclusive, UploadedFirst, TasksFit, OneLoadPerCall, TaskIsOwn, StatusIsOwn
  <2>8. StatusIsOwn'
    BY <1>9, ImportAssumption DEF ServePresignedURL, Awaiting, Answer, Content, ReplyFits, UrlFits, ObjectsExclusive, UploadedFirst, TasksFit, OneLoadPerCall, TaskIsOwn, StatusIsOwn
  <2>9. QED
    BY <1>0, <2>1, <2>2, <2>3, <2>4, <2>5, <2>6, <2>7, <2>8
<1>10. ASSUME NEW c \in Calls, ServeUpload(c) PROVE IInv'
  <2>1. ReplyFits'
    BY <1>10, ImportAssumption DEF ServeUpload, Awaiting, Answer, Content, ReplyFits, UrlFits, ObjectsExclusive, UploadedFirst, TasksFit, OneLoadPerCall, TaskIsOwn, StatusIsOwn
  <2>2. UrlFits'
    BY <1>10, ImportAssumption DEF ServeUpload, Awaiting, Answer, Content, ReplyFits, UrlFits, ObjectsExclusive, UploadedFirst, TasksFit, OneLoadPerCall, TaskIsOwn, StatusIsOwn
  <2>3. ObjectsExclusive'
    BY <1>10, ImportAssumption DEF ServeUpload, Awaiting, Answer, Content, ReplyFits, UrlFits, ObjectsExclusive, UploadedFirst, TasksFit, OneLoadPerCall, TaskIsOwn, StatusIsOwn
  <2>4. UploadedFirst'
    BY <1>10, ImportAssumption DEF ServeUpload, Awaiting, Answer, Content, ReplyFits, UrlFits, ObjectsExclusive, UploadedFirst, TasksFit, OneLoadPerCall, TaskIsOwn, StatusIsOwn
  <2>5. TasksFit'
    BY <1>10, ImportAssumption DEF ServeUpload, Awaiting, Answer, Content, ReplyFits, UrlFits, ObjectsExclusive, UploadedFirst, TasksFit, OneLoadPerCall, TaskIsOwn, StatusIsOwn
  <2>6. OneLoadPerCall'
    BY <1>10, ImportAssumption DEF ServeUpload, Awaiting, Answer, Content, ReplyFits, UrlFits, ObjectsExclusive, UploadedFirst, TasksFit, OneLoadPerCall, TaskIsOwn, StatusIsOwn
  <2>7. TaskIsOwn'
    BY <1>10, ImportAssumption DEF ServeUpload, Awaiting, Answer, Content, ReplyFits, UrlFits, ObjectsExclusive, UploadedFirst, TasksFit, OneLoadPerCall, TaskIsOwn, StatusIsOwn
  <2>8. StatusIsOwn'
    BY <1>10, ImportAssumption DEF ServeUpload, Awaiting, Answer, Content, ReplyFits, UrlFits, ObjectsExclusive, UploadedFirst, TasksFit, OneLoadPerCall, TaskIsOwn, StatusIsOwn
  <2>9. QED
    BY <1>0, <2>1, <2>2, <2>3, <2>4, <2>5, <2>6, <2>7, <2>8
<1>11. ASSUME NEW c \in Calls, ServeStartLoad(c) PROVE IInv'
  <2>1. ReplyFits'
    BY <1>11, ImportAssumption DEF ServeStartLoad, Awaiting, Answer, Content, ReplyFits, UrlFits, ObjectsExclusive, UploadedFirst, TasksFit, OneLoadPerCall, TaskIsOwn, StatusIsOwn
  <2>2. UrlFits'
    BY <1>11, ImportAssumption DEF ServeStartLoad, Awaiting, Answer, Content, ReplyFits, UrlFits, ObjectsExclusive, UploadedFirst, TasksFit, OneLoadPerCall, TaskIsOwn, StatusIsOwn
  <2>3. ObjectsExclusive'
    BY <1>11, ImportAssumption DEF ServeStartLoad, Awaiting, Answer, Content, ReplyFits, UrlFits, ObjectsExclusive, UploadedFirst, TasksFit, OneLoadPerCall, TaskIsOwn, StatusIsOwn
  <2>4. UploadedFirst'
    BY <1>11, ImportAssumption DEF ServeStartLoad, Awaiting, Answer, Content, ReplyFits, UrlFits, ObjectsExclusive, UploadedFirst, TasksFit, OneLoadPerCall, TaskIsOwn, StatusIsOwn
  <2>5. TasksFit'
    <3>1. DEFINE e == [owner |-> c, url |-> url[c], status |-> "UNLISTED"]
    <3>2. e \in Task /\ tasks' = Append(tasks, e)
      BY <1>11 DEF ServeStartLoad, Task
    <3>3. \A t \in DOMAIN tasks : tasks[t].owner # c
      BY <1>11 DEF ServeStartLoad, Awaiting, TasksFit
    <3>4. /\ UNCHANGED <<pc, url, store>>
          /\ pc[c] = "startLoad" /\ reply'[c].kind = "task"
          /\ \A d \in Calls : d # c => reply'[d] = reply[d]
      BY <1>11 DEF ServeStartLoad, Awaiting, Answer
    <3>5. ASSUME NEW t \in DOMAIN tasks, NEW d \in Calls, tasks'[t].owner = d
          PROVE  /\ tasks'[t].url = url'[d]
                 /\ \/ pc'[d] = "startLoad" /\ reply'[d].kind # "none"
                    \/ pc'[d] \in Polling \cup Outcomes
                 /\ url'[d] \in Objects => store'[url'[d]] = d
                 /\ tasks'[t].status = "SUCCESS" => Content(url[d])' = d
      BY <3>2, <3>3, <3>4, <3>5, AppendStep DEF TasksFit, Content
    <3>6. url[c] \in Objects => store[url[c]] = c
      BY <3>4 DEF UploadedFirst
    <3>7. ASSUME NEW t \in DOMAIN tasks', tasks'[t].owner = Other
          PROVE  tasks'[t].url = NoUrl
      BY <3>2, <3>7, AppendStep, ImportAssumption DEF TasksFit
    <3>8. ASSUME NEW d \in Calls, e.owner = d
          PROVE  /\ e.url = url'[d]
                 /\ pc'[d] = "startLoad" /\ reply'[d].kind # "none"
                 /\ url'[d] \in Objects => store'[url'[d]] = d
                 /\ e.status # "SUCCESS"
      BY <3>4, <3>6, <3>8
    <3>9. DOMAIN tasks' = DOMAIN tasks \cup {Len(tasks) + 1} /\ tasks'[Len(tasks) + 1] = e
      BY <3>2, AppendStep
    <3> HIDE DEF e
    <3>10. QED
      BY <3>5, <3>7, <3>8, <3>9 DEF TasksFit, Content
  <2>6. OneLoadPerCall'
    <3>1. DEFINE e == [owner |-> c, url |-> url[c], status |-> "UNLISTED"]
    <3>2. e \in Task /\ tasks' = Append(tasks, e)
      BY <1>11 DEF ServeStartLoad, Task
    <3>3. \A t \in DOMAIN tasks : tasks[t].owner # c
      BY <1>11 DEF ServeStartLoad, Awaiting, TasksFit
    <3>4. QED
      BY <3>2, <3>3, AppendStep, ImportAssumption DEF OneLoadPerCall
  <2>7. TaskIsOwn'
    BY <1>11, ImportAssumption DEF ServeStartLoad, Awaiting, Answer, Content, ReplyFits, UrlFits, ObjectsExclusive, UploadedFirst, TasksFit, OneLoadPerCall, TaskIsOwn, StatusIsOwn
  <2>8. StatusIsOwn'
    BY <1>11, ImportAssumption DEF ServeStartLoad, Awaiting, Answer, Content, ReplyFits, UrlFits, ObjectsExclusive, UploadedFirst, TasksFit, OneLoadPerCall, TaskIsOwn, StatusIsOwn
  <2>9. QED
    BY <1>0, <2>1, <2>2, <2>3, <2>4, <2>5, <2>6, <2>7, <2>8
<1>12. ASSUME NEW c \in Calls, ServeJobStatus(c) PROVE IInv'
  <2>0. PICK r \in Reply :
          /\ Answer(c, r)
          /\ r.kind \in {"empty", "status"}
          /\ r.kind = "status" => r.status = tasks[task[c]].status
    BY <1>12, JobStatusReply
  <2> USE <2>0 DEF Answer, serviceVars
  <2>00. Awaiting(c, "ingestionJobStatus") /\ UNCHANGED serviceVars
    BY <1>12 DEF ServeJobStatus
  <2>1. ReplyFits'
    BY <2>00 DEF Awaiting, Content, ReplyFits, UrlFits, ObjectsExclusive, UploadedFirst, TasksFit, OneLoadPerCall, TaskIsOwn, StatusIsOwn
  <2>2. UrlFits'
    BY <2>00 DEF Awaiting, Content, ReplyFits, UrlFits, ObjectsExclusive, UploadedFirst, TasksFit, OneLoadPerCall, TaskIsOwn, StatusIsOwn
  <2>3. ObjectsExclusive'
    BY <2>00, ObjectsKept
  <2>4. UploadedFirst'
    BY <2>00 DEF Awaiting, Content, ReplyFits, UrlFits, ObjectsExclusive, UploadedFirst, TasksFit, OneLoadPerCall, TaskIsOwn, StatusIsOwn
  <2>5. TasksFit'
    BY <2>00 DEF Awaiting, Content, ReplyFits, UrlFits, ObjectsExclusive, UploadedFirst, TasksFit, OneLoadPerCall, TaskIsOwn, StatusIsOwn
  <2>6. OneLoadPerCall'
    BY <2>00 DEF Awaiting, Content, ReplyFits, UrlFits, ObjectsExclusive, UploadedFirst, TasksFit, OneLoadPerCall, TaskIsOwn, StatusIsOwn
  <2>7. TaskIsOwn'
    BY <2>00 DEF Awaiting, Content, ReplyFits, UrlFits, ObjectsExclusive, UploadedFirst, TasksFit, OneLoadPerCall, TaskIsOwn, StatusIsOwn
  <2>8. StatusIsOwn'
    BY <2>00 DEF Awaiting, Content, ReplyFits, UrlFits, ObjectsExclusive, UploadedFirst, TasksFit, OneLoadPerCall, TaskIsOwn, StatusIsOwn
  <2>9. QED
    BY <1>0, <2>1, <2>2, <2>3, <2>4, <2>5, <2>6, <2>7, <2>8
<1>13. ASSUME NEW c \in Calls, ServeJobLog(c) PROVE IInv'
  <2>1. ReplyFits'
    BY <1>13, ImportAssumption DEF ServeJobLog, Awaiting, Answer, serviceVars, Content, ReplyFits, UrlFits, ObjectsExclusive, UploadedFirst, TasksFit, OneLoadPerCall, TaskIsOwn, StatusIsOwn
  <2>2. UrlFits'
    BY <1>13, ImportAssumption DEF ServeJobLog, Awaiting, Answer, serviceVars, Content, ReplyFits, UrlFits, ObjectsExclusive, UploadedFirst, TasksFit, OneLoadPerCall, TaskIsOwn, StatusIsOwn
  <2>3. ObjectsExclusive'
    BY <1>13, ImportAssumption DEF ServeJobLog, Awaiting, Answer, serviceVars, Content, ReplyFits, UrlFits, ObjectsExclusive, UploadedFirst, TasksFit, OneLoadPerCall, TaskIsOwn, StatusIsOwn
  <2>4. UploadedFirst'
    BY <1>13, ImportAssumption DEF ServeJobLog, Awaiting, Answer, serviceVars, Content, ReplyFits, UrlFits, ObjectsExclusive, UploadedFirst, TasksFit, OneLoadPerCall, TaskIsOwn, StatusIsOwn
  <2>5. TasksFit'
    BY <1>13, ImportAssumption DEF ServeJobLog, Awaiting, Answer, serviceVars, Content, ReplyFits, UrlFits, ObjectsExclusive, UploadedFirst, TasksFit, OneLoadPerCall, TaskIsOwn, StatusIsOwn
  <2>6. OneLoadPerCall'
    BY <1>13, ImportAssumption DEF ServeJobLog, Awaiting, Answer, serviceVars, Content, ReplyFits, UrlFits, ObjectsExclusive, UploadedFirst, TasksFit, OneLoadPerCall, TaskIsOwn, StatusIsOwn
  <2>7. TaskIsOwn'
    BY <1>13, ImportAssumption DEF ServeJobLog, Awaiting, Answer, serviceVars, Content, ReplyFits, UrlFits, ObjectsExclusive, UploadedFirst, TasksFit, OneLoadPerCall, TaskIsOwn, StatusIsOwn
  <2>8. StatusIsOwn'
    BY <1>13, ImportAssumption DEF ServeJobLog, Awaiting, Answer, serviceVars, Content, ReplyFits, UrlFits, ObjectsExclusive, UploadedFirst, TasksFit, OneLoadPerCall, TaskIsOwn, StatusIsOwn
  <2>9. QED
    BY <1>0, <2>1, <2>2, <2>3, <2>4, <2>5, <2>6, <2>7, <2>8
<1>14. ASSUME NEW c \in Calls, FailRequest(c) PROVE IInv'
  <2>1. ReplyFits'
    BY <1>14, ImportAssumption DEF FailRequest, Answer, serviceVars, Content, ReplyFits, UrlFits, ObjectsExclusive, UploadedFirst, TasksFit, OneLoadPerCall, TaskIsOwn, StatusIsOwn
  <2>2. UrlFits'
    BY <1>14, ImportAssumption DEF FailRequest, Answer, serviceVars, Content, ReplyFits, UrlFits, ObjectsExclusive, UploadedFirst, TasksFit, OneLoadPerCall, TaskIsOwn, StatusIsOwn
  <2>3. ObjectsExclusive'
    BY <1>14, ImportAssumption DEF FailRequest, Answer, serviceVars, Content, ReplyFits, UrlFits, ObjectsExclusive, UploadedFirst, TasksFit, OneLoadPerCall, TaskIsOwn, StatusIsOwn
  <2>4. UploadedFirst'
    BY <1>14, ImportAssumption DEF FailRequest, Answer, serviceVars, Content, ReplyFits, UrlFits, ObjectsExclusive, UploadedFirst, TasksFit, OneLoadPerCall, TaskIsOwn, StatusIsOwn
  <2>5. TasksFit'
    BY <1>14, ImportAssumption DEF FailRequest, Answer, serviceVars, Content, ReplyFits, UrlFits, ObjectsExclusive, UploadedFirst, TasksFit, OneLoadPerCall, TaskIsOwn, StatusIsOwn
  <2>6. OneLoadPerCall'
    BY <1>14, ImportAssumption DEF FailRequest, Answer, serviceVars, Content, ReplyFits, UrlFits, ObjectsExclusive, UploadedFirst, TasksFit, OneLoadPerCall, TaskIsOwn, StatusIsOwn
  <2>7. TaskIsOwn'
    BY <1>14, ImportAssumption DEF FailRequest, Answer, serviceVars, Content, ReplyFits, UrlFits, ObjectsExclusive, UploadedFirst, TasksFit, OneLoadPerCall, TaskIsOwn, StatusIsOwn
  <2>8. StatusIsOwn'
    BY <1>14, ImportAssumption DEF FailRequest, Answer, serviceVars, Content, ReplyFits, UrlFits, ObjectsExclusive, UploadedFirst, TasksFit, OneLoadPerCall, TaskIsOwn, StatusIsOwn
  <2>9. QED
    BY <1>0, <2>1, <2>2, <2>3, <2>4, <2>5, <2>6, <2>7, <2>8
<1>15. ASSUME NEW t \in 1..Len(tasks), AdvanceTask(t) PROVE IInv'
  <2>1. ReplyFits'
    BY <1>15, AdvanceTaskStep, ImportAssumption DEF AdvanceTask, callVars, Content, ReplyFits, UrlFits, ObjectsExclusive, UploadedFirst, TasksFit, OneLoadPerCall, TaskIsOwn, StatusIsOwn
  <2>2. UrlFits'
    BY <1>15, AdvanceTaskStep, ImportAssumption DEF AdvanceTask, callVars, Content, ReplyFits, UrlFits, ObjectsExclusive, UploadedFirst, TasksFit, OneLoadPerCall, TaskIsOwn, StatusIsOwn
  <2>3. ObjectsExclusive'
    BY <1>15, AdvanceTaskStep, ImportAssumption DEF AdvanceTask, callVars, Content, ReplyFits, UrlFits, ObjectsExclusive, UploadedFirst, TasksFit, OneLoadPerCall, TaskIsOwn, StatusIsOwn
  <2>4. UploadedFirst'
    BY <1>15, AdvanceTaskStep, ImportAssumption DEF AdvanceTask, callVars, Content, ReplyFits, UrlFits, ObjectsExclusive, UploadedFirst, TasksFit, OneLoadPerCall, TaskIsOwn, StatusIsOwn
  <2>5. TasksFit'
    BY <1>15, AdvanceTaskStep, ImportAssumption DEF AdvanceTask, callVars, Content, ReplyFits, UrlFits, ObjectsExclusive, UploadedFirst, TasksFit, OneLoadPerCall, TaskIsOwn, StatusIsOwn
  <2>6. OneLoadPerCall'
    BY <1>15, AdvanceTaskStep, ImportAssumption DEF AdvanceTask, callVars, Content, ReplyFits, UrlFits, ObjectsExclusive, UploadedFirst, TasksFit, OneLoadPerCall, TaskIsOwn, StatusIsOwn
  <2>7. TaskIsOwn'
    BY <1>15, AdvanceTaskStep, ImportAssumption DEF AdvanceTask, callVars, Content, ReplyFits, UrlFits, ObjectsExclusive, UploadedFirst, TasksFit, OneLoadPerCall, TaskIsOwn, StatusIsOwn
  <2>8. StatusIsOwn'
    BY <1>15, AdvanceTaskStep, ImportAssumption DEF AdvanceTask, callVars, Content, ReplyFits, UrlFits, ObjectsExclusive, UploadedFirst, TasksFit, OneLoadPerCall, TaskIsOwn, StatusIsOwn
  <2>9. QED
    BY <1>0, <2>1, <2>2, <2>3, <2>4, <2>5, <2>6, <2>7, <2>8
<1>16. ASSUME OtherLoad PROVE IInv'
  <2>1. ReplyFits'
    BY <1>16, ImportAssumption DEF OtherLoad, callVars, Content, ReplyFits, UrlFits, ObjectsExclusive, UploadedFirst, TasksFit, OneLoadPerCall, TaskIsOwn, StatusIsOwn
  <2>2. UrlFits'
    BY <1>16, ImportAssumption DEF OtherLoad, callVars, Content, ReplyFits, UrlFits, ObjectsExclusive, UploadedFirst, TasksFit, OneLoadPerCall, TaskIsOwn, StatusIsOwn
  <2>3. ObjectsExclusive'
    BY <1>16, ImportAssumption DEF OtherLoad, callVars, Content, ReplyFits, UrlFits, ObjectsExclusive, UploadedFirst, TasksFit, OneLoadPerCall, TaskIsOwn, StatusIsOwn
  <2>4. UploadedFirst'
    BY <1>16, ImportAssumption DEF OtherLoad, callVars, Content, ReplyFits, UrlFits, ObjectsExclusive, UploadedFirst, TasksFit, OneLoadPerCall, TaskIsOwn, StatusIsOwn
  <2>5. TasksFit'
    BY SMTT(30), <1>16, ImportAssumption DEF OtherLoad, callVars, Content, ReplyFits, UrlFits, ObjectsExclusive, UploadedFirst, TasksFit, OneLoadPerCall, TaskIsOwn, StatusIsOwn
  <2>6. OneLoadPerCall'
    BY <1>16, ImportAssumption DEF OtherLoad, callVars, Content, ReplyFits, UrlFits, ObjectsExclusive, UploadedFirst, TasksFit, OneLoadPerCall, TaskIsOwn, StatusIsOwn
  <2>7. TaskIsOwn'
    BY <1>16, ImportAssumption DEF OtherLoad, callVars, Content, ReplyFits, UrlFits, ObjectsExclusive, UploadedFirst, TasksFit, OneLoadPerCall, TaskIsOwn, StatusIsOwn
  <2>8. StatusIsOwn'
    BY <1>16, ImportAssumption DEF OtherLoad, callVars, Content, ReplyFits, UrlFits, ObjectsExclusive, UploadedFirst, TasksFit, OneLoadPerCall, TaskIsOwn, StatusIsOwn
  <2>9. QED
    BY <1>0, <2>1, <2>2, <2>3, <2>4, <2>5, <2>6, <2>7, <2>8
<1>17. CASE UNCHANGED vars
  BY <1>17 DEF vars, callVars, serviceVars, ReplyFits, UrlFits, ObjectsExclusive, UploadedFirst, TasksFit, OneLoadPerCall, TaskIsOwn, StatusIsOwn, Content
<1>18. QED
  <2> HIDE DEF IInv, TypeOK
  <2> QED BY <1>1, <1>2, <1>3, <1>4, <1>5, <1>6, <1>7, <1>8, <1>9, <1>10, <1>11, <1>12, <1>13, <1>14, <1>15, <1>16, <1>17 DEF Next, Plugin, Service

\* Nothing has happened yet in the initial state.
LEMMA IInvInit == Init => IInv
<1> SUFFICES ASSUME Init PROVE IInv
  OBVIOUS
<1>1. TypeOK
  BY ReplyMade, FirstAttemptOK DEF Init, TypeOK
<1>2. QED
  BY <1>1, ImportAssumption
  DEF Init, IInv, Nothing, ReplyFits, UrlFits, ObjectsExclusive, UploadedFirst, TasksFit,
      OneLoadPerCall, TaskIsOwn, StatusIsOwn, Polling

\* The inductive invariant holds in every state of the specification.
THEOREM Inductive == Spec => []IInv
BY IInvInit, IInvStep, PTL DEF Spec

\* Type correctness.
THEOREM TypeCorrect == Spec => []TypeOK
<1>1. IInv => TypeOK
  BY DEF IInv
<1>2. QED
  BY <1>1, Inductive, PTL

\* For any number of concurrent calls: nothing is loaded from an object before
\* the upload to it, and nobody else's upload.
THEOREM LoadsUploaded == Spec => []LoadsOwnUpload
<1>1. IInv => LoadsOwnUpload
  <2> SUFFICES ASSUME IInv, NEW t \in DOMAIN tasks, tasks[t].url \in Objects
               PROVE  store[tasks[t].url] = tasks[t].owner
    BY DEF LoadsOwnUpload
  <2>1. tasks[t] \in Task
    BY DEF IInv, TypeOK
  <2>2. tasks[t].owner \in Calls
    BY <2>1, ImportAssumption DEF IInv, TasksFit, Task
  <2>3. QED
    BY <2>2 DEF IInv, TasksFit
<1>2. QED
  BY <1>1, Inductive, PTL

\* No call ever starts its load twice.
THEOREM StartsOneLoad == Spec => []OneLoadPerCall
<1>1. IInv => OneLoadPerCall
  BY DEF IInv
<1>2. QED
  BY <1>1, Inductive, PTL

\* The verdict a call acts on is its own job's.
THEOREM VerdictCorrect == Spec => []VerdictIsOwnJobs
<1>1. IInv => VerdictIsOwnJobs
  BY DEF IInv, VerdictIsOwnJobs, StatusIsOwn, TaskIsOwn
<1>2. QED
  BY <1>1, Inductive, PTL

\* A call that reports success has loaded its caller's data, for any number of
\* calls, other loads, lost answers and any retry configuration.
THEOREM SuccessCorrect == Spec => []SuccessIsReal
<1>1. IInv => SuccessIsReal
  <2> SUFFICES ASSUME IInv, NEW c \in Calls, pc[c] = "success"
               PROVE  /\ task[c] \in DOMAIN tasks
                      /\ tasks[task[c]].owner = c
                      /\ tasks[task[c]].status = "SUCCESS"
                      /\ Content(tasks[task[c]].url) = c
    BY DEF SuccessIsReal
  <2>1. task[c] \in DOMAIN tasks /\ tasks[task[c]].owner = c
    BY DEF IInv, TaskIsOwn
  <2>2. tasks[task[c]].status = "SUCCESS"
    BY DEF IInv, StatusIsOwn
  <2>3. Content(tasks[task[c]].url) = c
    BY <2>1, <2>2 DEF IInv, TasksFit
  <2>4. QED
    BY <2>1, <2>2, <2>3
<1>2. QED
  BY <1>1, Inductive, PTL

-----------------------------------------------------------------------------
(* The time a call may spend between its polls.                            *)

Budgets == \A c \in Calls : WithinBudget(retry[c])

\* Only a poll that is to be repeated uses up attempts.
LEMMA BudgetsStep == TypeOK /\ Budgets /\ [Next]_vars => Budgets'
<1> SUFFICES ASSUME TypeOK, Budgets, [Next]_vars PROVE Budgets'
  OBVIOUS
<1>1. \A c \in Calls : retry[c] \in RetryState
  BY DEF TypeOK
<1>2. ASSUME NEW c \in Calls, OnJobStatus(c), PollAgain(c), ~Exhausted(retry[c])
      PROVE  Budgets'
  <2>1. retry' = [retry EXCEPT ![c] = AfterPause(retry[c])]
    BY <1>2 DEF PollAgain
  <2>2. WithinBudget(AfterPause(retry[c]))
    BY <1>1, <1>2, AfterPauseWithinBudget DEF Budgets
  <2>3. QED
    BY <2>1, <2>2 DEF Budgets, TypeOK
<1>3. ASSUME UNCHANGED retry PROVE Budgets'
  BY <1>3 DEF Budgets
<1>4. ASSUME NEW c \in Calls, Plugin(c) PROVE Budgets'
  BY <1>2, <1>3, <1>4
  DEF Plugin, ImportFromData, ImportFromURL, OnPresignedURL, OnUploaded, OnLoadStarted,
      OnJobStatus, PollAgain, WakeUp, OnJobLog
<1>5. ASSUME NEW c \in Calls, Service(c) PROVE Budgets'
  BY <1>3, <1>5
  DEF Service, ServePresignedURL, ServeUpload, ServeStartLoad, ServeJobStatus, ServeJobLog,
      FailRequest, Answer
<1>6. QED
  BY <1>3, <1>4, <1>5 DEF Next, AdvanceTask, OtherLoad, vars, callVars

\* No import sleeps longer than MAX_POLL_TIMEOUT altogether.
THEOREM PollsWithinBudget == Spec => []PollBudget
<1>1. Init => Budgets
  BY FirstAttemptOK DEF Init, Budgets
<1>2. TypeOK /\ Budgets => PollBudget
  BY SleepsAtMostTimeout DEF TypeOK, Budgets, PollBudget
<1>3. QED
  BY <1>1, <1>2, BudgetsStep, TypeCorrect, PTL DEF Spec

-----------------------------------------------------------------------------
(* The refinement of TransferContract, step by step.  Under the mapping of *)
(* Contract a call has a state and its data is loaded or not.              *)

CallState == [c \in Calls |-> IF pc[c] \in Outcomes \cup {"idle"} THEN pc[c] ELSE "running"]
CallLoaded == [c \in Calls |-> \E t \in DOMAIN tasks :
                 tasks[t].owner = c /\ tasks[t].status = "SUCCESS"]
ContractStep == [Contract!ContractNext]_(Contract!contractVars)

\* Where nothing is loaded and every call is as far as it was, the contract stutters.
LEMMA Stutters ==
  ASSUME CallState' = CallState, CallLoaded' = CallLoaded
  PROVE  ContractStep
BY DEF ContractStep, Contract!contractVars, CallState, CallLoaded

\* A call that begins, waits for something else, or settles.
LEMMA CallContinues ==
  ASSUME TypeOK, NEW c \in Calls, pc[c] \notin Outcomes, NEW point \in Points \ {"idle"},
         pc' = [pc EXCEPT ![c] = point], UNCHANGED tasks,
         pc[c] = "idle" => point \notin Outcomes,
         point = "success" => CallLoaded[c]
  PROVE  ContractStep
<1>1. CallLoaded' = CallLoaded
  BY DEF CallLoaded
<1>2. pc \in [Calls -> Points]
  BY DEF TypeOK
<1>3. CallState' = [CallState EXCEPT ![c] = IF point \in Outcomes THEN point ELSE "running"]
  BY <1>2 DEF CallState
<1>4. CallState[c] = IF pc[c] = "idle" THEN "idle" ELSE "running"
  BY DEF CallState
<1>5. CASE pc[c] = "idle"
  <2>1. Contract!Begin(c)
    BY <1>1, <1>3, <1>4, <1>5 DEF Contract!Begin, CallState, CallLoaded
  <2>2. QED
    BY <2>1 DEF ContractStep, Contract!ContractNext
<1>6. CASE pc[c] # "idle" /\ point \notin Outcomes
  <2>1. CallState' = CallState
    BY <1>3, <1>4, <1>6 DEF CallState
  <2>2. QED
    BY <1>1, <2>1, Stutters
<1>7. CASE pc[c] # "idle" /\ point \in Outcomes
  <2>1. Contract!Settle(c)
    BY <1>1, <1>3, <1>4, <1>7
    DEF Contract!Settle, Contract!Outcome, CallState, CallLoaded
  <2>2. QED
    BY <2>1 DEF ContractStep, Contract!ContractNext
<1>8. QED
  BY <1>5, <1>6, <1>7

\* A call settles with success when its own job has succeeded: its data is loaded.
LEMMA SuccessFindsLoaded ==
  ASSUME IInv, NEW c \in Calls, pc[c] = "jobLogs", known[c] = "SUCCESS"
  PROVE  CallLoaded[c]
<1>1. task[c] \in DOMAIN tasks /\ tasks[task[c]].owner = c
  BY DEF IInv, TaskIsOwn, Polling
<1>2. tasks[task[c]].status = "SUCCESS"
  BY DEF IInv, StatusIsOwn
<1>3. QED
  BY <1>1, <1>2 DEF CallLoaded

LEMMA PluginKeepsContract ==
  ASSUME IInv, NEW c \in Calls, Plugin(c)
  PROVE  ContractStep
<1> USE DEF Continue, Answered, serviceVars
<1>1. TypeOK
  BY DEF IInv
<1>2. CASE ImportFromData(c)
  BY <1>1, <1>2, CallContinues DEF ImportFromData
<1>3. CASE ImportFromURL(c)
  BY <1>1, <1>3, CallContinues DEF ImportFromURL
<1>4. CASE OnPresignedURL(c)
  BY <1>1, <1>4, CallContinues DEF OnPresignedURL
<1>5. CASE OnUploaded(c)
  BY <1>1, <1>5, CallContinues DEF OnUploaded
<1>6. CASE OnLoadStarted(c)
  BY <1>1, <1>6, CallContinues DEF OnLoadStarted
<1>7. CASE OnJobStatus(c)
  BY <1>1, <1>7, CallContinues DEF OnJobStatus, PollAgain
<1>8. CASE WakeUp(c)
  BY <1>1, <1>8, CallContinues DEF WakeUp
<1>9. CASE OnJobLog(c)
  BY <1>1, <1>9, CallContinues, SuccessFindsLoaded DEF OnJobLog
<1>10. QED
  BY <1>2, <1>3, <1>4, <1>5, <1>6, <1>7, <1>8, <1>9 DEF Plugin

\* A load that was just accepted is not done, and loads nothing yet.
LEMMA AcceptedLoadKeepsContract ==
  ASSUME TypeOK, NEW load \in Task, load.status # "SUCCESS",
         tasks' = Append(tasks, load), UNCHANGED pc
  PROVE  ContractStep
<1>1. tasks \in Seq(Task)
  BY DEF TypeOK
<1>2. /\ DOMAIN tasks' = 1..Len(tasks) + 1 /\ DOMAIN tasks = 1..Len(tasks)
      /\ \A t \in DOMAIN tasks : tasks'[t] = tasks[t]
      /\ tasks'[Len(tasks) + 1] = load
  BY <1>1
<1>3. ASSUME NEW c \in Calls
      PROVE  (\E t \in DOMAIN tasks' : tasks'[t].owner = c /\ tasks'[t].status = "SUCCESS")
               <=> (\E t \in DOMAIN tasks : tasks[t].owner = c /\ tasks[t].status = "SUCCESS")
  BY <1>2
<1>4. CallLoaded' = CallLoaded /\ CallState' = CallState
  BY <1>3 DEF CallLoaded, CallState
<1>5. QED
  BY <1>4, Stutters

LEMMA ServiceKeepsContract ==
  ASSUME IInv, NEW c \in Calls, Service(c)
  PROVE  ContractStep
<1>1. TypeOK
  BY DEF IInv
<1>2. CASE ServeStartLoad(c)
  <2> DEFINE load == [owner |-> c, url |-> url[c], status |-> "UNLISTED"]
  <2>1. load \in Task /\ load.status # "SUCCESS"
    BY <1>1 DEF Task, TypeOK
  <2>2. tasks' = Append(tasks, load) /\ UNCHANGED pc
    BY <1>2 DEF ServeStartLoad, Answer
  <2> HIDE DEF load
  <2>3. QED
    BY <1>1, <2>1, <2>2, AcceptedLoadKeepsContract
<1>3. CASE UNCHANGED <<pc, tasks>>
  <2>1. CallState' = CallState /\ CallLoaded' = CallLoaded
    BY <1>3 DEF CallState, CallLoaded
  <2>2. QED
    BY <2>1, Stutters
<1>4. QED
  BY <1>2, <1>3
  DEF Service, ServePresignedURL, ServeUpload, ServeJobStatus, ServeJobLog, FailRequest,
      Answer, serviceVars

\* A job that succeeds loads the data of its call, which has not succeeded yet
\* and has no other job; any other move of a job is not visible.
LEMMA AdvanceKeepsContract ==
  ASSUME IInv, NEW t \in 1..Len(tasks), AdvanceTask(t)
  PROVE  ContractStep
<1>1. TypeOK
  BY DEF IInv
<1>2. t \in DOMAIN tasks /\ tasks[t] \in Task
  BY <1>1 DEF TypeOK
<1> DEFINE c == tasks[t].owner
<1>3. c \in Calls
  BY <1>2 DEF AdvanceTask, Task
<1>4. /\ DOMAIN tasks' = DOMAIN tasks
      /\ \A u \in DOMAIN tasks : u # t => tasks'[u] = tasks[u]
      /\ tasks'[t].owner = c
      /\ tasks[t].status # "SUCCESS"
  BY <1>1, AdvanceTaskStep
<1>5. UNCHANGED <<pc, task, known>>
  BY DEF AdvanceTask, callVars
<1>6. \A u \in DOMAIN tasks : u # t => tasks[u].owner # c
  BY <1>2, <1>3, ImportAssumption DEF IInv, OneLoadPerCall, AdvanceTask
<1> HIDE DEF c
<1>7. CallState' = CallState
  BY <1>5 DEF CallState
<1>8. \A d \in Calls : d # c => CallLoaded'[d] = CallLoaded[d]
  <2> SUFFICES ASSUME NEW d \in Calls, d # c
               PROVE  (\E u \in DOMAIN tasks' : tasks'[u].owner = d /\ tasks'[u].status = "SUCCESS")
                 <=> (\E u \in DOMAIN tasks : tasks[u].owner = d /\ tasks[u].status = "SUCCESS")
    BY DEF CallLoaded
  <2>1. tasks[t].owner # d /\ tasks'[t].owner # d
    BY <1>4 DEF c
  <2>2. QED
    BY <1>2, <1>4, <2>1
<1>9. CallLoaded[c] = FALSE
  BY <1>3, <1>4, <1>6 DEF CallLoaded
<1>10. CASE tasks'[t].status = "SUCCESS"
  <2>1. CallLoaded'[c] = TRUE
    BY <1>2, <1>3, <1>4, <1>10 DEF CallLoaded
  <2>2. CallLoaded' = [CallLoaded EXCEPT ![c] = TRUE]
    BY <1>8, <2>1 DEF CallLoaded
  <2>3. pc[c] # "idle"
    BY <1>2, <1>3 DEF IInv, TasksFit, Polling, c
  <2>4. pc[c] # "success"
    <3> SUFFICES ASSUME pc[c] = "success" PROVE FALSE
      OBVIOUS
    <3>1. task[c] \in DOMAIN tasks /\ tasks[task[c]].owner = c
      BY <1>3 DEF IInv, TaskIsOwn
    <3>2. tasks[task[c]].status = "SUCCESS"
      BY <1>3 DEF IInv, StatusIsOwn
    <3>3. QED
      BY <1>4, <1>6, <3>1, <3>2
  <2>5. PICK d \in Calls : d = c
    BY <1>3
  <2>6. Contract!Finish(d)
    BY <1>7, <1>9, <2>2, <2>3, <2>4, <2>5 DEF Contract!Finish, CallState, CallLoaded
  <2>7. QED
    BY <2>6 DEF ContractStep, Contract!ContractNext
<1>11. CASE tasks'[t].status # "SUCCESS"
  <2>1. CallLoaded'[c] = FALSE
    BY <1>3, <1>4, <1>6, <1>11 DEF CallLoaded
  <2>2. CallLoaded' = CallLoaded
    BY <1>8, <1>9, <2>1 DEF CallLoaded
  <2>3. QED
    BY <1>7, <2>2, Stutters
<1>12. QED
  BY <1>10, <1>11

\* Every step of an import is a step of the contract, or none that a caller sees.
LEMMA StepKeepsContract == IInv /\ [Next]_vars => ContractStep
<1> SUFFICES ASSUME IInv, [Next]_vars PROVE ContractStep
  OBVIOUS
<1>1. ASSUME NEW c \in Calls, Plugin(c) \/ Service(c) PROVE ContractStep
  BY <1>1, PluginKeepsContract, ServiceKeepsContract
<1>2. ASSUME NEW t \in 1..Len(tasks), AdvanceTask(t) PROVE ContractStep
  BY <1>2, AdvanceKeepsContract
<1>3. CASE OtherLoad
  <2> DEFINE load == [owner |-> Other, url |-> NoUrl, status |-> "PENDING"]
  <2>1. load \in Task /\ load.status # "SUCCESS"
    BY DEF Task
  <2>2. tasks' = Append(tasks, load) /\ UNCHANGED pc
    BY <1>3 DEF OtherLoad, callVars
  <2> HIDE DEF load
  <2>3. QED
    BY <2>1, <2>2, AcceptedLoadKeepsContract DEF IInv
<1>4. CASE UNCHANGED vars
  <2>1. CallState' = CallState /\ CallLoaded' = CallLoaded
    BY <1>4 DEF vars, callVars, serviceVars, CallState, CallLoaded
  <2>2. QED
    BY <2>1, Stutters
<1>5. QED
  BY <1>1, <1>2, <1>3, <1>4 DEF Next

\* The safety part of the refinement, for any calls, objects and loads:
\* importData begins, loads and settles as TransferContract lets it.
THEOREM ImplementsContract ==
  Spec => Contract!ContractInit /\ [][Contract!ContractNext]_(Contract!contractVars)
<1>1. Init => Contract!ContractInit
  BY DEF Init, Contract!ContractInit
<1>2. IInv /\ [Next]_vars => [Contract!ContractNext]_(Contract!contractVars)
  BY StepKeepsContract DEF ContractStep
<1>3. QED
  BY <1>1, <1>2, Inductive, PTL DEF Spec
=============================================================================
