\* Detect against its comment.
SPECIFICATION SetupSpec
CONSTANTS
    Codes = {c1}
    Passwords = {p1}
    None = None
    Given <- MCGiven
    Views <- MCViews
CHECK_DEADLOCK FALSE
INVARIANT DetectsFirstMatch
