CONSTANTS
    Node = {"x", "y", "z"}
    Block = {1, 2, 3, 4, 5, 6, 7, 8}
    Prev <- ChainPrev
    Num <- ChainNum
    Lib <- ChainLib
    Rank <- ChainNum
    Genesis = 1
    NoBlock = 0
    NoNode = NoNode
    Gone = Gone
    Old <- Earlier
    Span = 2
    Nets <- LateNoticeNets
SPECIFICATION FairSpec
PROPERTY CatchesUp
CHECK_DEADLOCK FALSE
