------------------------------- MODULE UseSql -------------------------------
(***************************************************************************)
(* The React hook useSql(query, { rowMode }).                              *)
(*                                                                         *)
(* A component keeps one state { loading, response, error }.  Each time    *)
(* its query or row mode changes an effect runs client.execute, and each   *)
(* answer is stored in the state when it comes: nothing cancels or ignores *)
(* the answers of earlier effects, nothing resets the state when the query *)
(* changes, and a promise that rejects is not caught.  An execution stands *)
(* for the query, row mode and client it was started with.                 *)
(***************************************************************************)
EXTENDS Naturals, FiniteSets

CONSTANTS
    Queries,         \* pairs of a query and a row mode
    Contexts,        \* data contexts that SqlProvider may be given
    MaxExecutions,   \* bound: how often the effect runs
    None             \* null

ASSUME UseSqlAssumption == MaxExecutions \in Nat /\ None \notin Queries \cup Contexts

VARIABLES
    mounted,      \* whether the component is on the page
    query,        \* what the component passed to the hook in its last render
    context,      \* the data context in its last render, or None
    committed,    \* the query of the effect that ran last (its dependencies), or None
    executions,   \* executions[i]: the i-th call of execute
    started,      \* how many there are
    state,        \* { loading, and the execution whose result is shown, 0 at first }
    broken        \* React gave the component up: its number of hooks changed

vars == <<mounted, query, context, committed, executions, started, state, broken>>

NoExecution == [query |-> None, context |-> None, pc |-> "unused", late |-> FALSE]
Fresh == [loading |-> TRUE, shown |-> 0]

Init ==
    /\ mounted = FALSE /\ broken = FALSE
    /\ query \in Queries
    /\ context \in Contexts \cup {None}
    /\ committed = None
    /\ executions = [i \in 1 .. MaxExecutions |-> NoExecution]
    /\ started = 0
    /\ state = Fresh

\* The component appears.
Mount ==
    /\ ~mounted /\ started = 0
    /\ mounted' = TRUE
    /\ UNCHANGED <<query, context, committed, executions, started, state, broken>>

\* It goes away: later answers change nothing.
Unmount ==
    /\ mounted
    /\ mounted' = FALSE
    /\ UNCHANGED <<query, context, committed, executions, started, state, broken>>

\* Its parent renders it with another query.
ChangeQuery(q) ==
    /\ mounted /\ ~broken /\ q # query
    /\ committed = query \/ context = None     \* effects of the last render ran
    /\ query' = q
    /\ UNCHANGED <<mounted, context, committed, executions, started, state, broken>>

(***************************************************************************)
(* SqlProvider is given another data context, or leaves.  Without one the  *)
(* hook returns before useEffect, and React throws when a later render     *)
(* calls another number of hooks than the one before.                      *)
(***************************************************************************)
ChangeContext(ctx) ==
    /\ mounted /\ ~broken /\ ctx # context
    /\ committed = query \/ context = None
    /\ context' = ctx
    /\ broken' = ((ctx = None) # (context = None))
    /\ UNCHANGED <<mounted, query, committed, executions, started, state>>

\* Mutant: the effect closes over the query of the effect before.
RunEffectStale ==
    /\ mounted /\ ~broken /\ context # None /\ committed # query
    /\ started < MaxExecutions
    /\ committed' = query
    /\ started' = started + 1
    /\ executions' = [executions EXCEPT
           ![started + 1] = [query |-> IF committed = None THEN query ELSE committed,
                             context |-> context, pc |-> "running", late |-> FALSE]]
    /\ UNCHANGED <<mounted, query, context, state, broken>>

(***************************************************************************)
(* React runs the effect of a render whose query or row mode differ from   *)
(* those of the last effect (the client is not one of the dependencies).   *)
(***************************************************************************)
RunEffect ==
    /\ mounted /\ ~broken /\ context # None /\ committed # query
    /\ started < MaxExecutions
    /\ committed' = query
    /\ started' = started + 1
    /\ executions' = [executions EXCEPT
           ![started + 1] = [query |-> query, context |-> context, pc |-> "running",
                             late |-> FALSE]]
    /\ UNCHANGED <<mounted, query, context, state, broken>>

\* An answer is late when a later execution was answered before it.
Overtaken(i) == \E j \in i + 1 .. started : executions[j].pc = "answered"

\* Mutant: loading is left as it is.
OnAnswerStillLoading(i) ==
    /\ executions[i].pc = "running"
    /\ executions' = [executions EXCEPT ![i].pc = "answered", ![i].late = Overtaken(i)]
    /\ state' = IF mounted THEN [state EXCEPT !.shown = i] ELSE state
    /\ UNCHANGED <<mounted, query, context, committed, started, broken>>

\* execute resolves, to a response or to an error: the hook stores it.
OnAnswer(i) ==
    /\ executions[i].pc = "running"
    /\ executions' = [executions EXCEPT ![i].pc = "answered", ![i].late = Overtaken(i)]
    /\ state' = IF mounted THEN [loading |-> FALSE, shown |-> i] ELSE state
    /\ UNCHANGED <<mounted, query, context, committed, started, broken>>

\* execute rejects: nobody catches it, and the state stays.
OnRejected(i) ==
    /\ executions[i].pc = "running"
    /\ executions' = [executions EXCEPT ![i].pc = "rejected"]
    /\ UNCHANGED <<mounted, query, context, committed, started, state, broken>>

Next ==
    \/ Mount \/ Unmount
    \/ \E q \in Queries : ChangeQuery(q)
    \/ \E ctx \in Contexts \cup {None} : ChangeContext(ctx)
    \/ RunEffect
    \/ \E i \in 1 .. MaxExecutions : OnAnswer(i) \/ OnRejected(i)

(***************************************************************************)
(* React runs the effects of a render; execute settles, with a server that *)
(* answers.                                                                *)
(***************************************************************************)
Fairness ==
    /\ WF_vars(RunEffect)
    /\ \A i \in 1 .. MaxExecutions : WF_vars(OnAnswer(i) \/ OnRejected(i))

Spec == Init /\ [][Next]_vars /\ Fairness

-----------------------------------------------------------------------------
TypeOK ==
    /\ mounted \in BOOLEAN /\ broken \in BOOLEAN
    /\ query \in Queries /\ context \in Contexts \cup {None}
    /\ committed \in Queries \cup {None}
    /\ executions \in [1 .. MaxExecutions ->
           [query : Queries \cup {None}, context : Contexts \cup {None},
            pc : {"unused", "running", "answered", "rejected"}, late : BOOLEAN]]
    /\ started \in 0 .. MaxExecutions
    /\ state \in [loading : BOOLEAN, shown : 0 .. MaxExecutions]

\* No execution is running, and the effect of the last render ran.
Quiet ==
    /\ mounted /\ ~broken /\ context # None /\ committed = query
    /\ \A i \in 1 .. started : executions[i].pc # "running"

(* When all executions are over the component shows the result of its      *)
(* current query, with loading false: unless an answer came late (after    *)
(* that of a newer query, which it then overwrote) or the newest execution *)
(* was rejected.                                                           *)
ShowsCurrentQuery ==
    (Quiet /\ executions[started].pc = "answered"
           /\ \A i \in 1 .. started : ~executions[i].late)
        => ~state.loading /\ executions[state.shown].query = query

(* A component is never left loading once any of its executions was        *)
(* answered while it was on the page, and never shows a result while it    *)
(* says that it is loading.                                                *)
LoadingUntilAnswer ==
    /\ state.loading <=> state.shown = 0
    /\ mounted => ((\E i \in 1 .. started : executions[i].pc = "answered") => ~state.loading)

(* The inductive invariant behind both: executions are numbered as the     *)
(* effects ran, the last one is of the committed query, what is shown was  *)
(* answered, and nothing newer was unless an answer came late.             *)
ExecutionsInOrder ==
    /\ \A i \in 1 .. MaxExecutions :
           /\ executions[i].pc = "unused" <=> i > started
           /\ executions[i].late => executions[i].pc = "answered"
    /\ committed = IF started = 0 THEN None ELSE executions[started].query
ShownIsAnswered ==
    state.shown # 0 => executions[state.shown].pc = "answered"
NewestIsShown ==
    (mounted /\ \A i \in 1 .. MaxExecutions : ~executions[i].late) =>
        \A i \in 1 .. MaxExecutions : executions[i].pc = "answered" => i <= state.shown
IInv ==
    TypeOK /\ LoadingUntilAnswer /\ ExecutionsInOrder /\ ShownIsAnswered /\ NewestIsShown

(* The component gets a result: if it stays on the page with a data        *)
(* context, and no execution is rejected, it stops loading.                *)
StopsLoading ==
    <>[](mounted /\ ~broken /\ context # None
           /\ \A i \in 1 .. MaxExecutions : executions[i].pc # "rejected") => <>~state.loading
=============================================================================
