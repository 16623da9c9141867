CONSTANTS
    n1 = n1
    n2 = n2
    k1 = k1
    null = null
    txt = txt
    Worker = {w1, w2}
    Node = {n1, n2}
    Key = {k1}
    Servers <- MCServersTwo
    Hash <- MCHashTwo
    Text = {null, txt}
    None = None
    Empty = Empty
    Garbage = Garbage
    Default = 1
    Requests <- MCIncrements
    Losses <- MCAllLosses
    AllocFails = FALSE
    PushFails = FALSE
    Evicts = FALSE
    IntMod = 16
    MaxCount = 3
SPECIFICATION Spec
SYMMETRY MCSymmetry
INVARIANT TicketsIncrease
INVARIANT AckedIncrementsKept
