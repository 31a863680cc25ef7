SPECIFICATION Spec
CONSTANTS
    Calls = {c1, c2, c3}
    Tables = {t1, t2}
    Secrets = {s1, s2}
    Queries <- MCQueries
    PluginLists <- MCPluginLists
    None = None
SYMMETRY Symmetry
INVARIANTS
    TypeOK
    AnswersTheQuery
    CachesWhatItNames
    NoErrorIsLoaded
    LoadsOwnFile
    SpeaksForOne
