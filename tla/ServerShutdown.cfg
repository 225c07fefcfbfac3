SPECIFICATION FairSpec
CONSTANTS
    c1 = c1
    c2 = c2
    p1 = p1
    p2 = p2
    NoConn = NoConn
    Conns <- OneConn
    Publishers <- OnePublisher
    Buffer = 1
    MaxVersion = 1
CHECK_DEADLOCK FALSE
PROPERTIES
    ShutdownCompletes
