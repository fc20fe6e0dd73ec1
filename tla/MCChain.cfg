CONSTANTS
    MaxDepth = 3
    LibMayFall = FALSE
    MaxLib = 3
    MaxIndex = 4
    Worlds <- PassingWorlds
    BadDigits = {4}
    MaxSnapshots = 1
    NoBlock = NoBlock
    Genesis <- MCGenesis
    Block <- MCBlock
    Prev <- MCPrev
    Num <- MCNum
    Lib <- MCLib
    Rank <- MCRank
    Bad <- MCBad
SPECIFICATION FairSnapshotsSpec
INVARIANTS
    StateConsistent
    DiskConsistent
    HeadIsBestKnown
PROPERTIES
    GoodKept
    LedgerSpec
    HandlersReturn
CHECK_DEADLOCK FALSE
