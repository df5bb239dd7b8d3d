SPECIFICATION Spec
CONSTANTS
    Entries = 4
    Top = 3
    MemMap <- MCMemMap
    PmmEntry = 1
    PmmFrames <- MCPmmFrames
    HhdmOffset = 128
    KernelVirt = 240
    KernelPhys = 22
    Devices = {40}
    DeviceTypes = {"None", "WriteThrough"}
    LastPage = 34
    Pick <- MCPick
CHECK_DEADLOCK FALSE
INVARIANTS
    FramesPartitioned
    LiveStaysMapped
    
    NoStaleTranslation
    
