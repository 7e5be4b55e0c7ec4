\* The properties are not temporal, and hosts and options are interchangeable.
\* CHECK_DEADLOCK is off because nothing happens once the bounds are reached.
SPECIFICATION Spec
CONSTANTS
    Hosts = {h1, h2}
    Plain = {"helper"}
    Options = {dns, lease}
    NoRow = NoRow
    NoPool = NoPool
    Free = Free
    MaxRows = 3
    MaxEdits = 3
    MaxCalls = 2
    MaxConcurrent = 1
SYMMETRY MCSymmetry
INVARIANTS
    PushTypeOK
    SynchronizedIsTrue
PROPERTY PendingKept
CHECK_DEADLOCK FALSE
