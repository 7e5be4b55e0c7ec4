\* Two threads mix every method on one host.  No symmetry: CallsReturn is
\* temporal.
SPECIFICATION FairSpec
CONSTANTS
    Hosts = {h1}
    Threads = {t1, t2}
    NoThread = NoThread
    Kinds = {"open", "close", "close_all", "execute"}
    MaxEntries = 4
    MaxConnectors = 2
    MaxCalls = 2
INVARIANTS
    TypeOK
    EntryMutex
    LockOrder
    NewestRegistered
    StateHonest
PROPERTIES
    ChannelPinned
    CallsReturn
