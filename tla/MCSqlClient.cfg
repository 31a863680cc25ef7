SPECIFICATION Spec
CONSTANTS
    Columns <- MCColumns
    MaxLines = 2
    Nothing = Nothing
INVARIANTS
    ResponsesAreWhole
    ErrorsAreValues
    SpeaksForClient
    FieldsTellColumns
PROPERTY
    AbortEnds
