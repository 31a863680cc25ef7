SPECIFICATION Spec
CONSTANTS
    Events = {e1, e2}
    Listeners = {l1, l2}
    Subscriptions = {s1, s2, s3}
    MaxDepth = 2
    None = None
SYMMETRY Symmetry
INVARIANTS
    Reachable
    RunsSubscribed
PROPERTY
    CleansUp
