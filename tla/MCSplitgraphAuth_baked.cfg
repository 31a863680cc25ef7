SPECIFICATION Spec
CONSTANTS
    Accounts = {alice, bob}
    Calls = {c1}
    MaxTokens = 1
    Undefined = Undefined
INVARIANT
    HeadersFollowCredential
