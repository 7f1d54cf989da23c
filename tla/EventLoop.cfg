SPECIFICATION FairSpec
CONSTANTS
    Conns = {c1, c2}
    Listener = listener
    NoConn = null
    NoFd = invalid
    FdLimit = 3
    FdSetSize = 2
    MaxHeld = 1
INVARIANTS
    TypeOK
    FlagsAreOwn
    RoundSound
    FdsAccounted
PROPERTIES
    RoundsGoOn
    
    ClosingCloses
    PeersAreAccepted
