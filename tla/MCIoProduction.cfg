SPECIFICATION ProdSpec
CONSTANTS
    e1 = e1
    e2 = e2
    i1 = i1
    i2 = i2
    l1 = l1
    Conns <- MCConns
    Triads = {t1, t2, t3}
    Addrs = {a1}
    None = None
    Kind <- MCKind
    OutputOf <- MCOutputOf
    InputOf <- MCInputOf
    ConfigOf <- MCConfigOf
    IdSpace = 3
    OriginatorIds = {0}
    MaxIds = 6
    MaxSeq = 2
CHECK_DEADLOCK FALSE
SYMMETRY Symmetry
INVARIANTS
    OnePidPerInput
    CloseKeepsSequence
    IdsRepeatAfterTurn
    ExclusiveOutputs
