SPECIFICATION Spec
CONSTANTS
    Calls = {c1, c2}
    Tables = {t1, t2}
    Secrets = {s1}
    Queries <- MCQueries
    PluginLists <- MCPluginLists
    None = None
SYMMETRY Symmetry
INVARIANT
    SuccessIsLoaded
