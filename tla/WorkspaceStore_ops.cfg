\* Every step may fail, once; edits, outside replacements and a restart.
SPECIFICATION Spec
CONSTANTS
    AutomaticLimit = 1
    NoFile = NoFile
    Fragment = Fragment
    FailAt = {"stage", "commit", "rmtree", "index", "restore", "write", "verify",
              "replace", "finish"}
    MaxWrites = 2
    MaxSnapshots = 2
    MaxFailures = 1
    MaxSessions = 2
INVARIANTS
    StoreTypeOK
    TargetWhole
    OpensUnlessFailed
    SkipIsSafe
    SafetyPoint
PROPERTIES
    RecoveryKept
    RollbackAllOrNothing
    
CHECK_DEADLOCK FALSE
