\* Two wallet accounts and a Google user in one tab.
SPECIFICATION AuthSpec
CONSTANTS
    a1 = a1
    a2 = a2
    Addr = {a1, a2}
    Google = Google
    None = None
    MaxMoves = 5
\* MaxMoves bounds what the user does.
CHECK_DEADLOCK FALSE
INVARIANTS
    AuthTypeOK
    SessionMatches
    SignedOutStays
    OneLogin
PROPERTIES
    AccountSignedIn
