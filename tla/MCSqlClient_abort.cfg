SPECIFICATION Spec
CONSTANTS
    Columns <- MCColumns
    MaxLines = 1
    Nothing = Nothing
INVARIANT
    AbortIsNamed
