---------------------------- MODULE UseSqlProofs ----------------------------
(***************************************************************************)
(* Proofs about UseSql, for any queries, data contexts and number of       *)
(* executions.                                                             *)
(***************************************************************************)
EXTENDS UseSql, TLAPS

Execution ==
    [query : Queries \cup {None}, context : Contexts \cup {None},
     pc : {"unused", "running", "answered", "rejected"}, late : BOOLEAN]

LEMMA InitIInv == Init => IInv
<1> SUFFICES ASSUME Init PROVE IInv
  OBVIOUS
<1>1. /\ mounted = FALSE /\ broken = FALSE /\ query \in Queries
      /\ context \in Contexts \cup {None} /\ committed = None /\ started = 0
      /\ state = [loading |-> TRUE, shown |-> 0]
      /\ executions = [i \in 1 .. MaxExecutions |-> NoExecution]
  BY DEF Init, Fresh
<1>2. NoExecution \in Execution /\ NoExecution.pc = "unused" /\ ~NoExecution.late
  BY DEF NoExecution, Execution
<1>3. TypeOK
  <2>1. executions \in [1 .. MaxExecutions -> Execution]
    BY <1>1, <1>2
  <2>2. 0 \in 0 .. MaxExecutions
    BY UseSqlAssumption
  <2>3. state \in [loading : BOOLEAN, shown : 0 .. MaxExecutions]
    BY <1>1, <2>2
  <2> QED
    BY <1>1, <2>1, <2>2, <2>3 DEF TypeOK, Execution
<1>4. LoadingUntilAnswer /\ ExecutionsInOrder /\ ShownIsAnswered /\ NewestIsShown
  BY <1>1, <1>2, UseSqlAssumption
  DEF LoadingUntilAnswer, ExecutionsInOrder, ShownIsAnswered, NewestIsShown
<1> QED
  BY <1>3, <1>4 DEF IInv

(* A step that leaves the executions and the state alone, and mounts the   *)
(* component only when nothing ran yet.                                    *)
LEMMA QuietStep ==
    ASSUME IInv, UNCHANGED <<committed, executions, started, state>>,
           mounted' => mounted \/ started = 0,
           mounted' \in BOOLEAN, broken' \in BOOLEAN, query' \in Queries,
           context' \in Contexts \cup {None}
    PROVE  IInv'
<1>1. TypeOK'
  BY DEF IInv, TypeOK
<1>2. ExecutionsInOrder' /\ ShownIsAnswered'
  BY DEF IInv, ExecutionsInOrder, ShownIsAnswered
<1>3. started = 0 => \A i \in 1 .. MaxExecutions : executions[i].pc = "unused"
  BY DEF IInv, ExecutionsInOrder, TypeOK
<1>4. LoadingUntilAnswer' /\ NewestIsShown'
  BY <1>3 DEF IInv, LoadingUntilAnswer, NewestIsShown, TypeOK
<1> QED
  BY <1>1, <1>2, <1>4 DEF IInv

(* The effect: a new execution, of the query that is now committed.        *)
LEMMA EffectStep == ASSUME IInv, RunEffect PROVE IInv'
<1> DEFINE new == [query |-> query, context |-> context, pc |-> "running", late |-> FALSE]
           n == started + 1
<1>1. /\ mounted /\ context # None /\ started < MaxExecutions
      /\ committed' = query /\ started' = n
      /\ executions' = [executions EXCEPT ![n] = new]
      /\ UNCHANGED <<mounted, query, context, state, broken>>
  BY DEF RunEffect
<1>2. new \in Execution /\ new.pc = "running" /\ new.query = query /\ ~new.late
  BY DEF IInv, TypeOK, Execution
<1> HIDE DEF new
<1>3. /\ started \in 0 .. MaxExecutions /\ n \in 1 .. MaxExecutions /\ n # 0
      /\ executions \in [1 .. MaxExecutions -> Execution]
      /\ state \in [loading : BOOLEAN, shown : 0 .. MaxExecutions]
  BY <1>1, UseSqlAssumption DEF IInv, TypeOK, Execution
<1>4. /\ executions' \in [1 .. MaxExecutions -> Execution]
      /\ executions'[n] = new
      /\ \A i \in 1 .. MaxExecutions : i # n => executions'[i] = executions[i]
  BY <1>1, <1>2, <1>3
<1>5. TypeOK'
  BY <1>1, <1>3, <1>4 DEF IInv, TypeOK, Execution
<1>6. executions[n].pc = "unused"
  BY <1>3 DEF IInv, ExecutionsInOrder
<1>7. ExecutionsInOrder'
  <2>1. \A i \in 1 .. MaxExecutions : (executions[i].pc = "unused") <=> (i > started)
    BY DEF IInv, ExecutionsInOrder
  <2>2. \A i \in 1 .. MaxExecutions : (executions'[i].pc = "unused") <=> (i > n)
    BY <2>1, <1>2, <1>3, <1>4
  <2>3. \A i \in 1 .. MaxExecutions : executions'[i].late => executions'[i].pc = "answered"
    BY <1>2, <1>4 DEF IInv, ExecutionsInOrder
  <2> QED
    BY <2>2, <2>3, <1>1, <1>2, <1>3, <1>4 DEF ExecutionsInOrder
<1>8. ShownIsAnswered'
  <2>1. state.shown # 0 => state.shown # n /\ state.shown \in 1 .. MaxExecutions
    BY <1>3, <1>6 DEF IInv, ShownIsAnswered
  <2> QED
    BY <2>1, <1>1, <1>4 DEF IInv, ShownIsAnswered
<1>9. NewestIsShown'
  <2>1. ~executions[n].late
    BY <1>3, <1>6 DEF IInv, ExecutionsInOrder
  <2>2. ASSUME \A i \in 1 .. MaxExecutions : ~executions'[i].late
        PROVE  \A i \in 1 .. MaxExecutions : ~executions[i].late
    BY <2>1, <2>2, <1>3, <1>4
  <2>3. \A i \in 1 .. MaxExecutions :
            executions'[i].pc = "answered" => executions[i].pc = "answered"
    BY <1>2, <1>4
  <2> QED
    BY <2>2, <2>3, <1>1 DEF IInv, NewestIsShown
<1>10. LoadingUntilAnswer'
  BY <1>1, <1>2, <1>3, <1>4 DEF IInv, LoadingUntilAnswer
<1> QED
  BY <1>5, <1>7, <1>8, <1>9, <1>10 DEF IInv

(* An answer or a rejection of execution i, which was running.             *)
LEMMA SettledStep ==
    ASSUME IInv, NEW i \in 1 .. MaxExecutions, OnAnswer(i) \/ OnRejected(i) PROVE IInv'
<1>1. /\ executions[i].pc = "running"
      /\ UNCHANGED <<mounted, query, context, committed, started, broken>>
  BY DEF OnAnswer, OnRejected
<1>2. /\ executions \in [1 .. MaxExecutions -> Execution]
      /\ state \in [loading : BOOLEAN, shown : 0 .. MaxExecutions]
      /\ started \in 0 .. MaxExecutions /\ i \in 1 .. started /\ MaxExecutions \in Nat
  BY <1>1, UseSqlAssumption DEF IInv, TypeOK, Execution, ExecutionsInOrder
<1>3. state.shown # i
  BY <1>1, <1>2 DEF IInv, ShownIsAnswered
<1>4. CASE OnRejected(i)
  <2>1. executions' = [executions EXCEPT ![i].pc = "rejected"] /\ state' = state
    BY <1>4 DEF OnRejected
  <2>2. /\ executions' \in [1 .. MaxExecutions -> Execution]
        /\ executions'[i].pc = "rejected" /\ executions'[i].late = executions[i].late
        /\ executions'[i].query = executions[i].query
        /\ \A j \in 1 .. MaxExecutions : j # i => executions'[j] = executions[j]
    BY <2>1, <1>2 DEF Execution
  <2>3. TypeOK'
    BY <2>1, <2>2, <1>1 DEF IInv, TypeOK, Execution
  <2>4. ExecutionsInOrder'
    BY <2>2, <1>1, <1>2 DEF IInv, ExecutionsInOrder
  <2>5. ShownIsAnswered' /\ NewestIsShown' /\ LoadingUntilAnswer'
    BY <2>1, <2>2, <1>1, <1>2, <1>3
    DEF IInv, ShownIsAnswered, NewestIsShown, LoadingUntilAnswer
  <2> QED
    BY <2>3, <2>4, <2>5 DEF IInv
<1>5. CASE OnAnswer(i)
  <2>1. /\ executions' = [executions EXCEPT ![i].pc = "answered", ![i].late = Overtaken(i)]
        /\ state' = IF mounted THEN [loading |-> FALSE, shown |-> i] ELSE state
        /\ Overtaken(i) \in BOOLEAN
    BY <1>5 DEF OnAnswer, Overtaken
  <2>2. /\ executions' \in [1 .. MaxExecutions -> Execution]
        /\ executions'[i].pc = "answered" /\ executions'[i].late = Overtaken(i)
        /\ executions'[i].query = executions[i].query
        /\ \A j \in 1 .. MaxExecutions : j # i => executions'[j] = executions[j]
    BY ZenonT(60), <2>1, <1>2 DEF Execution
  <2>3. state' \in [loading : BOOLEAN, shown : 0 .. MaxExecutions]
    BY <2>1, <1>2
  <2>4. TypeOK'
    BY <2>2, <2>3, <1>1 DEF IInv, TypeOK, Execution
  <2>5. ExecutionsInOrder'
    BY <2>2, <1>1, <1>2 DEF IInv, ExecutionsInOrder
  <2>6. ShownIsAnswered'
    <3>1. CASE mounted
      BY <3>1, <2>1, <2>2 DEF ShownIsAnswered
    <3>2. CASE ~mounted
      BY <3>2, <2>1, <2>2, <1>2, <1>3 DEF IInv, ShownIsAnswered
    <3> QED
      BY <3>1, <3>2
  <2>7. NewestIsShown'
    <3>1. (\A j \in 1 .. MaxExecutions : executions[j].pc = "answered" => j <= i) \/ Overtaken(i)
      BY <1>2 DEF IInv, ExecutionsInOrder, Overtaken
    <3> QED
      BY <3>1, <2>1, <2>2, <1>1, <1>2 DEF NewestIsShown
  <2>8. LoadingUntilAnswer'
    BY <2>1, <2>2, <1>1, <1>2 DEF IInv, LoadingUntilAnswer
  <2> QED
    BY <2>4, <2>5, <2>6, <2>7, <2>8 DEF IInv
<1> QED
  BY <1>4, <1>5

LEMMA NextIInv == IInv /\ [Next]_vars => IInv'
<1> SUFFICES ASSUME IInv, [Next]_vars PROVE IInv'
  OBVIOUS
<1> USE DEF IInv, TypeOK
<1>1. CASE Mount
  BY <1>1, QuietStep DEF Mount
<1>2. CASE Unmount
  BY <1>2, QuietStep DEF Unmount
<1>3. ASSUME NEW q \in Queries, ChangeQuery(q) PROVE IInv'
  BY <1>3, QuietStep DEF ChangeQuery
<1>4. ASSUME NEW ctx \in Contexts \cup {None}, ChangeContext(ctx) PROVE IInv'
  <2>1. broken' \in BOOLEAN /\ context' \in Contexts \cup {None}
    BY <1>4 DEF ChangeContext
  <2> QED
    BY <1>4, <2>1, QuietStep DEF ChangeContext
<1>5. CASE UNCHANGED vars
  BY <1>5, QuietStep DEF vars
<1> QED
  BY <1>1, <1>2, <1>3, <1>4, <1>5, EffectStep, SettledStep DEF Next

(* The inductive invariant of the hook, for any number of executions.      *)
THEOREM Inductive == Spec => []IInv
  BY InitIInv, NextIInv, PTL DEF Spec

(* The state of the hook is a loading flag and one execution's result.     *)
THEOREM TypeCorrect == Spec => []TypeOK
<1>1. IInv => TypeOK
  BY DEF IInv
<1> QED
  BY <1>1, Inductive, PTL

(* loading and a result exclude each other, and no mounted component is    *)
(* left loading by an answer, whichever effects and answers come first.    *)
THEOREM LoadsUntilAnswer == Spec => []LoadingUntilAnswer
<1>1. IInv => LoadingUntilAnswer
  BY DEF IInv
<1> QED
  BY <1>1, Inductive, PTL

(* With all executions over, none late, and the newest answered, the       *)
(* component shows the result of its current query.                        *)
THEOREM CurrentQueryShown == Spec => []ShowsCurrentQuery
<1>1. IInv => ShowsCurrentQuery
  <2> SUFFICES ASSUME IInv, Quiet, executions[started].pc = "answered",
                      \A i \in 1 .. started : ~executions[i].late
               PROVE  ~state.loading /\ executions[state.shown].query = query
    BY DEF ShowsCurrentQuery
  <2>1. /\ mounted /\ committed = query /\ query \in Queries
        /\ started \in 0 .. MaxExecutions /\ state.shown \in 0 .. MaxExecutions
        /\ MaxExecutions \in Nat
    BY UseSqlAssumption DEF IInv, TypeOK, Quiet
  <2>2. started \in 1 .. MaxExecutions /\ committed = executions[started].query
    BY <2>1, UseSqlAssumption DEF IInv, ExecutionsInOrder
  <2>3. started <= state.shown
    <3>1. \A i \in 1 .. MaxExecutions : ~executions[i].late
      BY <2>1 DEF IInv, ExecutionsInOrder
    <3> QED
      BY <3>1, <2>1, <2>2 DEF IInv, NewestIsShown
  <2>4. state.shown <= started
    BY <2>1, <2>2, <2>3 DEF IInv, ShownIsAnswered, ExecutionsInOrder
  <2>5. state.shown = started
    BY <2>1, <2>3, <2>4
  <2> QED
    BY <2>1, <2>2, <2>5 DEF IInv, LoadingUntilAnswer
<1> QED
  BY <1>1, Inductive, PTL
=============================================================================
