SPECIFICATION Spec
CONSTANTS
    Jobs = {"request", "message", "response", "header", "chunked", "url", "path", "types", "quoted", "ip4", "ip6", "port", "argv"}
    MaxPieces <- PieceBounds
    ChunkBits = 8
    MaxExt = 1
    Nprocs = 2
    Values = {"", "x", "0", "1"}
INVARIANTS
    LineExact
    RequestRead
    ChunksUnsplit
    ReadBack
    UrlPartsFit
    PathUnescaped
    ContentTypesExact
    QuotedTextKept
    AddrRoundTrip
    ListenExact
    OptionsRead
PROPERTY LineStable
CHECK_DEADLOCK FALSE
