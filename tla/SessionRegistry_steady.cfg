\* No session is closed: open and execute only.
SPECIFICATION Spec
CONSTANTS
    Hosts = {h1, h2}
    Threads = {t1, t2}
    NoThread = NoThread
    Kinds = {"open", "execute"}
    MaxEntries = 2
    MaxConnectors = 3
    MaxCalls = 2
INVARIANT SoleOwner
PROPERTY ImplementsHostSessions
