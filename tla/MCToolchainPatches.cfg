SPECIFICATION Spec
CONSTANTS
    Parts = {"patches"}
    Images <- MCImages
    Regs = {2, 3, 31}
    RA = 31
    V0 = 2
    HookValues = {0, 1}
    Odd = 61
    Fault = 62
    Return = 63
    Sentinel = 60
    ShardSize = 8
    MaxBlocks = 4
    MaxDepth = 7
    ByteBits = 2
    Values = {0, 3, 6, 127, 128, 255}
    MemorySize = 8
    Encodings <- MCEncodings
    FloatOp <- MCFloatOp
    Matrices = {0}
    Operations <- MCOperations
    Prefixes <- MCPrefixes
    Host1 <- MCHost1
    Host2 <- MCHost2
    GuestByteBits = 4
    GuestBase = 2184
    UserBase = 64
    UserEnd = 128
    InfoSize = 4
    GpField = 4
    NoInfo = NoInfo
    Elfs <- MCElfs
    SegmentNumbers = {0, 1, 2, 3, 5}
    Lines <- MCLines
    MaxLines = 3
    SectorSize = 2
    Discs <- MCDiscs
    Upper <- MCUpper
    DirByte = 99
    Magic = 77
    Candidates <- MCCandidates
    CnfPath <- MCCnfPath
    CnfTarget <- MCCnfTarget
    Replacements <- MCReplacements
    MaxReplacements = 2
    MaxPatches = 2
    Bodies <- MCBodies
    SP = 29
    Saved = 16
    LinkRegs = {25, 31}
    Home = 50
    Native = 51
    Back = 52
    Stub0 = 60
    Error = 99
    StackWords = 24
    ContextWords = 6
    PadWords = 3
    Garbage = 98
    Undefined = 97
    MaxReturns = 1
    GprCount = 4
    FprCount = 1
    Regions <- MCRegions
    Width = 4
    Null = Null
    Arguments <- MCArguments
    MaxArguments = 5
    StackTop = 12
    TreeList <- MCTrees
    Starts = {"clone", "export"}
    EditKinds = {"new"}
    MaxEdits = 2
    MaxCalls = 4
    MaxFaults = 2
    Functions = {20, 24}
    Symbols <- MCSymbols
    Ghidra <- MCGhidra
    Targets <- MCTargets
    AddressSpace = 64
    Alias = 32
    FixedFrom = 16
    MemoryBase = 16
    MappedBytes = 12
    Globals <- MCGlobals
    Bytes = {0, 1, 2}
    MaxNodes = 2
    MaxScopes = 6
    MaxSets = 2
    NoPatch = NoPatch
    BlockSize = 8
    LengthSize = 2
    ByteValues = {0, 1, 128}
    Mark = 128
    MaxPieces = 3
    PieceSizes = {1, 5, 6, 7, 8, 17}
    Hosts <- MCHosts
    Names <- MCNames
    WellKnown <- MCWellKnown
    InputSize = 4
    NoPlace = NoPlace
INVARIANT OriginalBypasses
CHECK_DEADLOCK FALSE
