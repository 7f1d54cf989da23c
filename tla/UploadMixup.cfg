\* Two well-behaved users upload at the same time.
SPECIFICATION Spec
CONSTANTS
    Conns = {c1, c2}
    Users = {ann, bob}
    Files = {f}
    Plain = {f}
    MaxRows = 1
    MaxBlocks = 1
    Mishaps = {}
    NoUser = NoUser
    NoFile = NoFile
    NoWriter = NoWriter
    Absent = Absent
INVARIANT FilesAndRowsOfTheirSender
