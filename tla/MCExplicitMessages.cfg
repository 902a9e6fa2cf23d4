SPECIFICATION Spec
CONSTANTS
    s1 = s1
    s2 = s2
    None = None
    Sockets = {s1, s2}
    Hosts = {9}
    Handles = {1, 2}
    Conns = {7}
    TcpMessages <- MCTcpMessages
    UdpMessages <- MCUdpMessages
    Header = 2
    Capacity = 3
    Longest = 5
    MessageBuffer = 4
    FrameRoom = 3
    Default = 1
    Minimum = 1
    FirstAttributes <- MCFirstAttributes
    MaxAsks = 3
CONSTRAINT Apart
PROPERTIES
    OnlySessionsWrite
    EveryRequestAnswered
    DelayedInTime
