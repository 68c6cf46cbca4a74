SPECIFICATION Spec
CONSTANTS
    Parts = {"windows", "macos", "saves", "frames", "controls", "drawing"}
    None = None
    Items = 2
    OskKeys <- MCOskKeys
    Limit = 2
    MaxDialogs = 2
    Pressable <- MCPressable
    MaxInputs = 2
    MaxPosted = 3
    Strays = FALSE
    Absent = Absent
    MaxSaves = 3
    Payloads <- MCPayloads
    MaxStoreFaults = 2
    Nothing = Nothing
    Addresses = {"A", "B"}
    VramStart = "A"
    Shapes <- MCShapes
    Pictures = {0, 1}
    TextureLimit = 1
    MaxBatches = 2
    MaxPresents = 2
    Keys = {"cross", "analogLeft"}
    PadStates <- MCPadStates
    Cycles = {5554, 5555}
    Modes = {1, 2}
    Thresholds <- MCThresholds
    Axes <- MCAxes
    MaxKeyEvents = 4
    MaxSamples = 3
    Subjects <- MCSubjects
    DisplayWidth = 8
    DisplayHeight = 5
    MaxSide = 16
    Registers <- MCRegisters
    BlendLimit = 2
    MaxUses = 4
INVARIANTS
    DialogsSound
    
    FramesSound
    ControlsSound
    DrawingSound
CHECK_DEADLOCK FALSE
