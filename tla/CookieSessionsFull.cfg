\* The smallest table that overflows.
SPECIFICATION Spec
CONSTANTS
    Users = {ann, bob}
    SessionIds = {s1, s2, s3, s4}
    MaxSessions = 2
    MaxClock = 2
    NoUser = NoUser
    Raw = Raw
INVARIANT CookieRecognised
