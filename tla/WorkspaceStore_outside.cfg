SPECIFICATION Spec
CONSTANTS
    AutomaticLimit = 1
    NoFile = NoFile
    Fragment = Fragment
    FailAt = {}
    MaxWrites = 2
    MaxSnapshots = 2
    MaxFailures = 1
    MaxSessions = 2
PROPERTY OutsideRefused
CHECK_DEADLOCK FALSE
