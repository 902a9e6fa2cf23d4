SPECIFICATION TrueSpec
CONSTANTS
    a = a
    b = b
    t = t
    l = l
    Conns = {b}
    Pool = 2
    Triggered = {b}
    Rate <- MCRate
    Multiplier <- MCMultiplier
    Inhibit <- MCInhibit
    Initial = 10
    Tick = 2
    MaxLag = 1
    Word = 40
    Start = {30}
    MaxBacklog = 2
    MaxTime = 12
CHECK_DEADLOCK FALSE
INVARIANTS
    InhibitKept
