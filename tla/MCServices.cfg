SPECIFICATION ServicesSpec
CONSTANTS
 Request = {"s", "a", "m", "t", "x", "u", "o"}
 ValidateHost = TRUE
 DefaultPort = 1
 ValidHosts <- MCValidHosts
 Host <- MCHost
 Resources <- MCResources
 Body <- MCBody
 Json <- MCJson
 Reports = 2
 Threads = 2
 MaxBytes = 2
 Process = {"p", "q"}
 MaxSockets = 4
 Feeds <- MCFeeds
 Trx <- MCTrx
 MongoSettings <- MCMongoSettings
 MaxQueue = 1
 CacheSize = 1
 Failures = 1
 Prev <- MCPrev
 Num <- MCNum
 Size <- MCSize
 MaxCrashes = 2
 Paths <- MCPaths
 StreamRequests <- MCStreamRequests
 MaxConnects = 2
 MaxAsked = 1
 Tables = {"code", "account_metadata", "contract_table", "contract_row", "resource_limits_state", "protocol_state"}
 DeltaKeys = {"k1"}
 MaxIds = 2
 MaxBlocks = 2
 Peers = {"p"}
 Visitors = {"v1", "v2"}
 Hosts = {"h1"}
 MaxClients = 2
 MaxNodesPerHost = 1
 MaxWrites = 1
 Groups <- MCGroups
 NodeA = "A"
 NodeB = "B"
 PeerSettings <- MCPeerSettings
 Skews <- MCSkews
 MaxTime = 6
 MaxLosses = 1
 FloodNodes = {"a", "b", "c"}
 Links <- MCLinks
 Trxs = {"t"}
 ExpiresAt <- MCExpires
 MaxTrouble = 1
 SoftNames = {"a"}
 HsmName = "hsm"
 EnclaveName = "se"
 SoftKeys = {"k1"}
 HsmKeys = {"h"}
 EnclaveKeys = {"e"}
 Setups <- MCSetups
 Timeout = 1
 MaxPasswords = 1
 Accounts = {"a", "b", "eosio"}
 System = "eosio"
 Keys = {"k", "l"}
 Transactions <- MCTransactions
 Filters <- MCFilters
 MaxRecorded = 2
 MaxInBlock = 2
 Queries <- MCQueries
 Entries <- MCEntries
 DigitNames = {3}
 MaxChanges = 1
 PushClients = {c, d}
 PushLists <- MCPushLists
 PushTraces <- MCPushTraces
 MaxAtOnce = 2
 LaunchSettings <- MCLaunchSettings
 GenSetups <- MCGenSetups
 GenRequests <- MCGenRequests
 MaxHead = 2
 MaxTicks = 2
INVARIANTS OneResponse BytesAccounted ServiceReachable   PeersMeet  ApiAnswers 
CHECK_DEADLOCK FALSE
