\* fopen may fail.
SPECIFICATION Spec
CONSTANTS
    Conns = {c1}
    Users = {ann}
    Files = {f}
    Plain = {f}
    MaxRows = 1
    MaxBlocks = 1
    Mishaps = {"open"}
    NoUser = NoUser
    NoFile = NoFile
    NoWriter = NoWriter
    Absent = Absent
INVARIANT StaysUp
