CONSTANTS
    annHome = annHome
    annWork = annWork
    beaHome = beaHome
    ann = ann
    bea = bea
    r1 = r1
    JIDs = {annHome, annWork, beaHome}
    Resources = {r1}
    Usernames = {ann, bea}
    UserOf <- MCUserOf
    PresenceTypes = {0, 5, 7, 8}
    NoPeer = NoPeer
SPECIFICATION Spec
CHECK_DEADLOCK FALSE
INVARIANT PresenceHasAPeer
