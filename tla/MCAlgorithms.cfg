SPECIFICATION Spec
CONSTANTS
    MaxDepth = 2
    I64 <- ScaledI64
    U64 <- ScaledU64
CHECK_DEADLOCK FALSE
PROPERTIES
    
    EventsArrive
    JsonFaithful
    FormatsFaithful
    SettingsMean
    
