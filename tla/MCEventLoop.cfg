SPECIFICATION FairLoopSpec
CONSTANTS
    Users = {u1, u2}
    BindAddrs = {io}
    Groups = {g1}
    GroupBase = io
    MaxFd = 4
    PerRef = 1
    Backlog = 2
    None = None
    Listeners <- MCListeners
CHECK_DEADLOCK FALSE
INVARIANTS
    CountsBalanced
    HeldAreWatched
    HighestCovers
    OnlyTcpRead
PROPERTIES
    WaitingAreServed
