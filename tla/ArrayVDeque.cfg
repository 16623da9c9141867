SPECIFICATION Spec
CONSTANTS
    a = a
    b = b
    Garbage = Garbage
    Val <- MCVal
    Strings <- MCWholeStrings
    Step = 2
    MaxSlots = 3
    Configs <- MCSafeConfigs
INVARIANTS
    TypeOK
    WindowsOK
PROPERTY IsDeque
CHECK_DEADLOCK FALSE
