SPECIFICATION TrueSpec
CONSTANTS
    a = a
    b = b
    t = t
    l = l
    Conns = {a, t, l}
    Pool = 2
    Triggered = {t}
    Rate <- MCRate
    Multiplier <- MCMultiplier
    Inhibit <- MCInhibit
    Initial = 9
    Tick = 2
    MaxLag = 3
    Word = 40
    Start = {30}
    MaxBacklog = 2
    MaxTime = 11
CHECK_DEADLOCK FALSE
INVARIANTS
    ClosedInTurn
    ProductionOnSchedule
PROPERTIES
    NeverEarly
