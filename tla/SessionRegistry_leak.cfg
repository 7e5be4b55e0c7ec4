SPECIFICATION Spec
CONSTANTS
    Hosts = {h1}
    Threads = {t1, t2}
    NoThread = NoThread
    Kinds = {"open", "close"}
    MaxEntries = 4
    MaxConnectors = 2
    MaxCalls = 2
SYMMETRY ThreadSymmetry
INVARIANT SoleOwner
