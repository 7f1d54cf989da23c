\* The same; a head is cut between its lines.
SPECIFICATION BytesMCSpec
CONSTANTS
    Chars <- TheChars
    Boundary <- TheBoundary
    Bodies <- SomeBodies
    Pieces <- SomePieces
    Size <- TheSize
    Streams <- SomeStreams
    MaxPings = 1
    XorOf <- TheXor
    Octets = {"x", "y", "junk"}
    Junk = "junk"
    Pushed <- SomePushed
    MaxSize = 4
    Headroom = 1
    MaxHeaders = 2
    MaxRaw = 6
    MaxValue = 3
    DstLen = 3
    FileSizes = {0, 3, 12}
INVARIANT DataIsOfTheMessage
CHECK_DEADLOCK FALSE
