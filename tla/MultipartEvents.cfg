\* Two connections; every way a peer can misbehave.
SPECIFICATION Spec
CONSTANTS
    Conns = {c1, c2}
    Users = {ann}
    Files = {f}
    MaxBlocks = 1
    Mishaps = {"leave", "noparts", "pipeline", "nosession", "noboundary"}
    NoUser = NoUser
    NoFile = NoFile
INVARIANT NothingHalfTold
PROPERTY InOrder
