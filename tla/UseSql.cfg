SPECIFICATION Spec
CONSTANTS
    Queries = {q1, q2}
    Contexts = {ctx1, ctx2}
    MaxExecutions = 3
    None = None
CHECK_DEADLOCK FALSE
INVARIANTS
    ShowsCurrentQuery
    LoadingUntilAnswer
PROPERTY
    StopsLoading
