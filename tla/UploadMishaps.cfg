\* Two connections of one user; everything may go wrong.
SPECIFICATION FairSpec
CONSTANTS
    Conns = {c1, c2}
    Users = {ann}
    Files = {f}
    Plain = {f}
    MaxRows = 1
    MaxBlocks = 1
    Mishaps = {"leave", "noparts", "pipeline", "nosession", "noboundary",
               "open", "write", "db", "kill"}
    NoUser = NoUser
    NoFile = NoFile
    NoWriter = NoWriter
    Absent = Absent
INVARIANTS WriterMatchesPart RowsHaveFiles
PROPERTIES StoredAsSent WritersReleased
