CONSTANTS
    n1 = n1
    n2 = n2
    n3 = n3
    n4 = n4
    Nodes <- MCNodes
    NoNode = NoNode
    Width = 8
    Bases <- MCBases
    Classes <- MCClasses
    MaxExtensions = 3
SPECIFICATION InlineSpec
CHECK_DEADLOCK FALSE
INVARIANT UndefinedIsSelfInflicted
INVARIANT OncePerRegistration
INVARIANT NobodyForgotten
INVARIANT ClearedForGood
INVARIANT ReadsBack
INVARIANT CopiesAreDefined
INVARIANT ObjectsAreOwned
INVARIANT CopiesAreComplete
