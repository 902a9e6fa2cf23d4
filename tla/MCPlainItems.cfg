SPECIFICATION Spec
CONSTANTS
    c1 = c1
    c2 = c2
    c3 = c3
    out = out
    hb = hb
    cfg = cfg
    Conns = {c1, c2, c3}
    Class <- MCClass
    Sequenced <- MCPlain
    Fixed <- MCFixed
    Headered <- MCHeadered
    Output <- MCOutput
    Config <- MCConfig
    ConfigData <- MCConfigData
    Assemblies = {out, cfg}
    Words = 2
    WordsOf <- MCWordsOf
    RunOf <- MCRunOf
    Edits <- MCEdits
    Mod32 = 6
    Mod16 = 6
    Base32 = 3
    Bases16 <- MCBases16
    MaxSent <- MCMaxSent
    MaxFlight = 2
    Span = 2
    MaxIds = 2
CHECK_DEADLOCK FALSE
INVARIANTS
    PlainItemsConsumed
