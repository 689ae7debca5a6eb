CONSTANTS
    t1 = t1
    t2 = t2
    alice = alice
    bob = bob
    secret = secret
    Threads <- MCThreads
    MaxSetups = 2
    RefusalReasons = {"ConnConnectionRefused"}
    EndReasons = {"ConnNoError", "ConnStreamClosed"}
    Users = {alice, bob}
    NoThread = NoThread
    NoAccount = NoAccount
    PasswordOf <- MCPasswordOf
SPECIFICATION FairClientSpec
CHECK_DEADLOCK FALSE
INVARIANT SharingIsFatal
INVARIANT NeverSentInTheClear
INVARIANT DestroyedWithoutThread
INVARIANT DestroyedMembersAreFatal
PROPERTY DestructorIsSilent
PROPERTY FailureIsFatal
PROPERTY SecondConnectIsFatal
