SPECIFICATION Spec
CONSTANTS
    a = a
    b = b
    Garbage = Garbage
    Val <- MCVal
    Strings <- MCWholeStrings
    Step = 2
    MaxSlots = 3
    Configs <- MCSafeConfigs
PROPERTY PrintShowsElements
CHECK_DEADLOCK FALSE
