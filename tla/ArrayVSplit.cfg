SPECIFICATION Spec
CONSTANTS
    a = a
    b = b
    Garbage = Garbage
    Val <- MCVal
    Strings <- MCStrings
    Step = 2
    MaxSlots = 3
    Configs <- MCSafeConfigs
PROPERTY IsDeque
CHECK_DEADLOCK FALSE
