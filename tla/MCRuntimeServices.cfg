SPECIFICATION Spec
CONSTANTS
    Parts = {"ge", "files", "movie", "atrac", "heap"}
    CallsOf <- MCCalls
    Threads = {t1, t2}
    Programs <- MCPrograms
    Starts = {0}
    Stalls = {99, 3, 8}
    NoStall = 99
    Depth = 2
    MaxWords = 12
    CallbackIds = {0, 1}
    MaxLists = 2
    Paths <- MCPaths
    Lengths <- MCLengths
    Entries = 1
    SectorSize = 2
    Limit = 6
    ReadSizes = {1, 3}
    Offsets <- MCOffsets
    MaxFiles = 2
    Movie <- MCMovie
    Packets = 3
    PacketSize = 2
    FrameSize = 3
    MaxUnits = 1
    MaxEngines = 1
    Decoders = {0}
    RiffFiles <- MCFiles
    BufferSizes = {4, 10}
    Offset = 2
    Align = 2
    FrameSamples = 3
    Delay = 1
    LoopCounts <- MCLoopCounts
    AddSizes = {1, 4}
    Word = 64
    MemoryBase = 8
    UserStart = 2
    ImageStart = 10
    ImageSize = 11
    StackTop = 22
    Coarse = 4
    Fine = 2
    MinStack = 3
    TlsSize = 2
    CallbackStack = 4
    Sizes = {0, 5}
    StackSizes = {5}
    Counts = {2}
    MaxObjects = 3
SYMMETRY Symmetry
INVARIANTS
    GeSound
    FilesSound
    MoviePiecesKept
    AtracPlaysOn
PROPERTIES
    HeapSound
CHECK_DEADLOCK FALSE
