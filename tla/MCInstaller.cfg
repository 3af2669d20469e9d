SPECIFICATION FairSpec
CONSTANTS
    i1 = i1
    i2 = i2
    i3 = i3
    d1 = d1
    d2 = d2
    Cache = Cache
    Installs = {i1, i2, i3}
    DirOf <- TwoDirs
    ProcessOf <- OwnPids
    Mortal = {i1, i3}
INVARIANTS
    NeverTruncated
    OkMeansUsable
PROPERTIES
    NoTempLeft
    UndisturbedSucceeds
CHECK_DEADLOCK FALSE
