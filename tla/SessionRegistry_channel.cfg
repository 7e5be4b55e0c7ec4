SPECIFICATION Spec
CONSTANTS
    Hosts = {h1}
    Threads = {t1, t2, t3}
    NoThread = NoThread
    Kinds = {"open", "close", "execute"}
    MaxEntries = 4
    MaxConnectors = 2
    MaxCalls = 1
SYMMETRY ThreadSymmetry
INVARIANT ChannelSerialized
