CONSTANTS
    n1 = n1
    n2 = n2
    n3 = n3
    n4 = n4
    Nodes <- MCNodes
    NoNode = NoNode
    Width = 8
    Bases <- MCBases
    Classes <- MCClasses
    MaxExtensions = 0
SPECIFICATION InlineSpec
CHECK_DEADLOCK FALSE
INVARIANT ReadsBackInEveryBase
