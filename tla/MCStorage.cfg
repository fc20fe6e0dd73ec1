SPECIFICATION StorageSpec
CONSTANTS
 NoBlock = NoBlock
 MaxDepth = 3
 LibMayFall = TRUE
 MaxLib = 2
 MaxIndex = 4
 Block <- MCBlock
 Genesis <- MCGenesis
 Prev <- MCPrev
 Num <- MCNum
 Lib <- MCLib
 Rank <- MCRank
 Chains = {"a", "b"}
 MaxBlock = 4
 Size <- MCSize
 Usages <- MCUsages
 MaxCrashes = 3
 Owners = {"o", "q"}
 Names = {"x", "y"}
 Tables = {"t", "u"}
 Keys = {1}
 MaxId = 2
 Geneses = {"g", "h"}
 DefaultGenesis = "g"
 Adjusted <- MCAdjusted
 Options <- MCOptions
 MaxBlocks = 2
 Unset = "none"
INVARIANTS HeadIsBest BlockLogSurvives SnapshotRestores
PROPERTIES StepsKeepBest FileRestores RestartsOnOneChain
CHECK_DEADLOCK FALSE
