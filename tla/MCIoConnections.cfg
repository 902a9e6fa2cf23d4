SPECIFICATION Spec
CONSTANTS
    Owners = {e1, e2, e3}
    Inputs = {i1, i2}
    Listeners = {l1, l2, l3}
    Others = {e3, l3}
    Conns = {e1, e2, e3, i1, i2, l1, l2, l3}
    Triads = {t1, t2, t3, t4}
    Addrs = {a1, a2}
    None = None
    Kind <- MCKind
    OutputOf <- MCOutputOf
    InputOf <- MCInputOf
    ConfigOf <- MCConfigOf
SYMMETRY Symmetry
INVARIANTS
    ListedIffEstablished
    OneControlMaster
    ListenersHaveMaster
    SocketsBalanced
    UniqueTriads
    ScansFindOne
PROPERTIES
    LoopsSkipNobody
    ListenerClosesWithInput
    ProducerMovesLegally
    ImplementsOwnership
