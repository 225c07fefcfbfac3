SPECIFICATION FairSpec
CONSTANTS
    c1 = c1
    c2 = c2
    p1 = p1
    p2 = p2
    NoConn = NoConn
    Conns <- OneConn
    Publishers <- TwoPublishers
    Buffer = 1
    MaxVersion = 2
CHECK_DEADLOCK FALSE
INVARIANTS
    TypeOK
    ClientSeesLatest
    AnswersReachClients
PROPERTIES
    GoneClientsLeaveNothing
    OnlyLateConnsDelayShutdown
    PublishersNeverStall
