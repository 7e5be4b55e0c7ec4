\* CHECK_DEADLOCK is off because nothing happens once the bounds are reached.
SPECIFICATION Spec
CONSTANTS
    Servers = {s1, s2}
    NoServer = NoServer
    NoOp = NoOp
    Dirs = {home, sub}
    Home = home
    Names = {1, 2}
    Contents <- MCContents
    MaxCalls = 3
    MaxTransfers = 1
    MaxFailures = 1
INVARIANTS
    SftpTypeOK
    PanesAreTrue
PROPERTY ActsOnNamed
SYMMETRY ServerSymmetry
CHECK_DEADLOCK FALSE
