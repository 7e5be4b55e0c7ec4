\* CHECK_DEADLOCK is off because the program ends when the user quits.
SPECIFICATION FairSpec
CONSTANTS
    NoRequest = NoRequest
    MaxEdits = 2
    MaxRequests = 2
    MaxFailures = 1
    MaxProjects = 2
INVARIANTS
    SaveTypeOK
    SavedShownIsSaved
    OperationKeepsProject
PROPERTIES
    CloseKeepsEdits
    
    CloseServed
CHECK_DEADLOCK FALSE
