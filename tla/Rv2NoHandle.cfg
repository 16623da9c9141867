CONSTANTS
    n1 = n1
    n2 = n2
    k1 = k1
    null = null
    txt = txt
    Worker = {w1, w2}
    Node = {n1}
    Key = {k1}
    Servers <- MCServers
    Hash <- MCHash
    Text = {null, txt}
    None = None
    Empty = Empty
    Garbage = Garbage
    Default = null
    Requests <- MCFewSets
    Losses <- MCAllLosses
    AllocFails = TRUE
    PushFails = TRUE
    Evicts = TRUE
    IntMod = 16
    MaxCount = 2
SPECIFICATION Spec
INVARIANT SuccessMeansStored
