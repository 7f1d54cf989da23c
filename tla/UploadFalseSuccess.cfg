\* fwrite and the flush of fclose may fall short, and the peer may leave.
SPECIFICATION FairSpec
CONSTANTS
    Conns = {c1}
    Users = {ann}
    Files = {f}
    Plain = {f}
    MaxRows = 1
    MaxBlocks = 1
    Mishaps = {"write", "leave"}
    NoUser = NoUser
    NoFile = NoFile
    NoWriter = NoWriter
    Absent = Absent
PROPERTY OnlyWholePartsSucceed
