\* CHECK_DEADLOCK is off because nothing happens after the program has quit.
SPECIFICATION FairSpec
CONSTANTS
    Hosts = {h1}
    NoSession = NoSession
    MaxSessions = 2
    MaxCalls = 3
INVARIANTS
    TerminalTypeOK
    NoOrphan
    StopOnlyAsked
    ShownIsState
PROPERTIES
    CloseEnds
    RestartServed
CHECK_DEADLOCK FALSE
