CONSTANTS
    MaxDepth = 3
    LibMayFall = FALSE
    MaxLib = 2
    MaxIndex = 4
    Worlds <- TieWorlds
    BadDigits = {4}
    MaxSnapshots = 0
    NoBlock = NoBlock
    Genesis <- MCGenesis
    Block <- MCBlock
    Prev <- MCPrev
    Num <- MCNum
    Lib <- MCLib
    Rank <- MCRank
    Bad <- MCBad
SPECIFICATION SnapshotsSpec
INVARIANT InitConsistent
CHECK_DEADLOCK FALSE
