SPECIFICATION Spec
CONSTANTS
    Tabs = {t1, t2}
    BadURLs = {t2}
    Uses = {"widgets", "panes"}
    PaneTabs = {t1}
    MaxChanges = 3
    MaxSubmits = 3
    Garbage = Garbage
    Nothing = Nothing
INVARIANTS
    TypeOK
    PairsStayTogether
    WriterShowsEntry
    EchoesInput
    ShowsNewestAnswer
