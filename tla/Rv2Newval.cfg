CONSTANTS
    n1 = n1
    n2 = n2
    k1 = k1
    null = null
    txt = txt
    Worker = {w1, w2}
    Node = {n1, n2}
    Key = {k1}
    Servers <- MCServersTwo
    Hash <- MCHashTwo
    Text = {null, txt}
    None = None
    Empty = Empty
    Garbage = Garbage
    Default = null
    Requests <- MCIncrements
    Losses <- MCNoLosses
    AllocFails = FALSE
    PushFails = FALSE
    Evicts = FALSE
    IntMod = 8
    MaxCount = 4
SPECIFICATION Spec
PROPERTY NewvalIsNewValue
