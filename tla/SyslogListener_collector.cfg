\* CHECK_DEADLOCK is off because nothing happens after the program has quit.
SPECIFICATION FairSpec
CONSTANTS
    Projects = {p1, p2}
    Clients = {c1, c2}
    Udp = Udp
    Streams <- MCStreams
    MaxMessageBytes = 1
    MaxTcpClients = 1
    MaxDatagrams = 1
    MaxCalls = 2
    MaxFailures = 1
INVARIANTS
    SyslogTypeOK
    NothingLostQuietly
    ShownAfterStored
    FollowsUnlessTroubled
PROPERTY RowsShown
CHECK_DEADLOCK FALSE
