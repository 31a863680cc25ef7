SPECIFICATION Spec
CONSTANTS
    Accounts = {alice, bob}
    Calls = {c1, c2}
    MaxTokens = 2
    Undefined = Undefined
SYMMETRY Symmetry
INVARIANTS
    RequestsFollowCurrent
    RequestsSpeakForGiven
    HoldsGrantedTokens
    SpeaksForLastGiven
