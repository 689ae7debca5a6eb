CONSTANTS
    t1 = t1
    t2 = t2
    alice = alice
    ann = ann
    Threads <- MCThreads
    MaxSetups = 2
    RefusalReasons = {"ConnConnectionRefused"}
    EndReasons = {"ConnNoError", "ConnStreamClosed"}
    Users = {alice}
    NoThread = NoThread
    NoAccount = NoAccount
    PasswordOf <- MCPasswordOf
    Contacts = {ann}
SPECIFICATION SystemSpec
CHECK_DEADLOCK FALSE
INVARIANT CallbacksExclusive
INVARIANT IteratorsValid
INVARIANT PeersOfThisConnection
INVARIANT NoSessionLeaks
INVARIANT SignalledWhileConnected
PROPERTY ImplementsLifecycle
