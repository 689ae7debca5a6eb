CONSTANTS
    ann = ann
    bea = bea
    r1 = r1
    r2 = r2
    Senders <- MCSenders
    Resources <- MCResources
    MaxSetups = 2
    MaxSessions = 3
SPECIFICATION Spec
CHECK_DEADLOCK FALSE
INVARIANT OneSession
