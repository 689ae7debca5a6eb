CONSTANTS
    ann = ann
    bea = bea
    r1 = r1
    r2 = r2
    Senders <- MCOneSender
    Resources <- MCResources
    MaxSetups = 2
    MaxSessions = 3
SYMMETRY Symmetry
SPECIFICATION Spec
CHECK_DEADLOCK FALSE
INVARIANT TypeOK
INVARIANT NothingLost
INVARIANT NoDoubleFree
INVARIANT NoUseAfterFree
INVARIANT SessionNotDangling
INVARIANT LiveSessionsHooked
INVARIANT OneSessionPerListener
