SPECIFICATION StorageSpec
CONSTANTS
 NoBlock = NoBlock
 MaxDepth = 0
 LibMayFall = TRUE
 MaxLib = 2
 MaxIndex = 4
 Block <- MCBlock
 Genesis <- MCGenesis
 Prev <- MCPrev
 Num <- MCNum
 Lib <- MCLib
 Rank <- MCRank
 Chains = {"a", "b"}
 MaxBlock = 2
 Size <- MCSize
 Usages <- BackupUsages
 MaxCrashes = 0
 Owners = {"o", "q"}
 Names = {"x", "y"}
 Tables = {"t", "u"}
 Keys = {1}
 MaxId = 0
 Geneses = {"g", "h"}
 DefaultGenesis = "g"
 Adjusted <- MCAdjusted
 Options <- NoOptions
 MaxBlocks = 0
 Unset = "none"
INVARIANT BackupReplaced
CHECK_DEADLOCK FALSE
