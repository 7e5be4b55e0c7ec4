SPECIFICATION Spec
CONSTANTS
    AutomaticLimit = 1
    NoFile = NoFile
    Fragment = Fragment
    FailAt = {"index"}
    MaxWrites = 2
    MaxSnapshots = 2
    MaxFailures = 1
    MaxSessions = 2
INVARIANT PackageOpens
CHECK_DEADLOCK FALSE
