CONSTANTS
    Node = {"x", "y", "z"}
    Block = {1, 2, 3, 4, 5, 6, 7}
    Prev <- ChainPrev
    Num <- ChainNum
    Lib <- ChainLib
    Rank <- ChainNum
    Genesis = 1
    NoBlock = 0
    NoNode = NoNode
    Gone = Gone
    Old <- Earlier
    Span = 2
    Nets <- PassingNets
SPECIFICATION FairSpec
INVARIANT
    CatchupSound
PROPERTY
    Synchronizes
CHECK_DEADLOCK FALSE
