CONSTANTS
    t1 = t1
    t2 = t2
    Threads <- MCThreads
    MaxSetups = 2
    RefusalReasons = {"ConnConnectionRefused"}
    EndReasons = {"ConnStreamClosed"}
SPECIFICATION FairSpec
CHECK_DEADLOCK FALSE
INVARIANT TypeOK
INVARIANT FlagHasAStream
INVARIANT CurrentStreamServed
PROPERTY FlagFallsAfterStream
PROPERTY OpenConnectionReturns
