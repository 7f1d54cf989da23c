\* One connection after another; everything may go wrong.
SPECIFICATION Spec
CONSTANTS
    Conns = {c1}
    Users = {ann, bob}
    Files = {f, q}
    Plain = {f}
    MaxRows = 2
    MaxBlocks = 2
    Mishaps = {"leave", "noparts", "pipeline", "nosession", "noboundary",
               "open", "write", "db", "kill"}
    NoUser = NoUser
    NoFile = NoFile
    NoWriter = NoWriter
    Absent = Absent
INVARIANTS TypeOK FilesAndRowsOfTheirSender
