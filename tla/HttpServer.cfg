\* Two users, two logins, a table of one place, one plain file name and one that is not.
SPECIFICATION ServerSpec
CONSTANTS
    Users = {ann, bob}
    SessionIds = {s1, s2}
    MaxSessions = 1
    MaxClock = 1
    Names = {f, q}
    Plain = {f}
    MaxRows = 2
    Handles = {h1, h2}
    NoUser = NoUser
    Raw = Raw
    NoCookie = NoCookie
    NoRequest = NoRequest
    Null = Null
    Unset = Unset
SYMMETRY Alike
INVARIANTS ServerTypeOK AnsweredAsIssued PointersLive
    ConnectionsReturned RowsOnce AnswersAreOwn
PROPERTIES AnsweredUnlessMissing  SessionsAreEarned KnownCookiesAreSafe
