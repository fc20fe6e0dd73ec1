SPECIFICATION ExecutionSpec
CONSTANTS
 SignedTrxs <- MCTrxs
 Metas = {m1, m2}
 PoolThreads = {p}
 CacheSize = 1
 Account = {"a", "b"}
 Resource = {"cpu", "net"}
 Precision = 3
 Window <- MCWindow
 Periods <- MCWindow
 MaxChoices <- MCMaxChoices
 MaxTrxUsage <- MCMaxTrx
 Multiplier = 3
 TargetPercent = 50
 ContractRate <- MCContract
 ExpandRate <- MCExpand
 Greylist = {"a"}
 Usages <- MCUsages
 Limits <- MCLimits
 RamUses = {1}
 MaxSlot = 3
 Newcomers = {"a"}
 PermNames = {"p", "q"}
 LinkTypes = {"", "t"}
 Hashes = {"h", "g"}
 Sizes = {1}
 MaxPermId = 7
 PermActors <- MCPermActors
 Authorities <- MCAuthorities
 KeySets <- MCKeySets
 DeclaredAuths <- MCDeclared
 Grants <- MCGrants
 Delays = {0, 2}
 DepthLimits = {2, 4}
 MaxDelay = 2
 Actors = {"a", "b"}
 Nobody = "nobody"
 Payloads <- MCPayloads
 TreeWorlds <- MCTreeWorlds
 MaxOrdinal = 4
 MaxInlineDepth = 1
 MaxLeaves = 40
 Codenames = {"p", "r", "n"}
 Needs <- MCNeeds
 Unlocks <- MCUnlocks
 Directories <- MCDirectories
 Populate = TRUE
 Gate = "p"
 MaxHeight = 3
 MaxActivations = 2
 Builtins = {"u"}
 Abis <- MCAbis
 Inputs <- MCInputs
 Byte = {0, 1, 2}
 MaxBytes = 5
 MaxDepth = 9
INVARIANTS  LimitsHold AuthorityHolds ReceiptsHold FeaturesAgree ConversionsInverse
CHECK_DEADLOCK FALSE
