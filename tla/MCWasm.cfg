SPECIFICATION WasmRunSpec
CONSTANTS
 WasmTypes = {"i32", "i64"}
 WasmFunctions <- MCFunctions
 MaxNesting = 2
 MaxOperands = 2
 WordBits = 4
 InjModules <- MCInjModules
 FloatOps <- MCFloatOps
 MaxBody = 2
 MaxPages = 2
 Contents <- MCContents
 Intrinsics <- MCIntrinsics
 MaxElements = 3
 MaxLocals = 2
 MaxTable = 2
 MaxMemory = 1
 MaxData = 2
 MaxGlobals = 1
 MaxNested = 3
 Codes = {"x", "y"}
 InitialPages <- MCPages
 PageLimit = 3
 MaxBlock = 2
 NoCode = NoCode
 Words = 32
 MemorySize = 6
 Byte = {0, 1}
 Wide = 2
 Calls <- MCCalls
 Actions <- MCActions
 ActiveProducers <- MCProducers
 MaxMessage = 2
 Transaction <- MCTransaction
 ReservedCode = 2
 ContractsConsole = FALSE
 MaxProducers = 1
 MaxInlineSize = 2
 EmptyScheduleAllowed = FALSE
 ExpBits = 4
 ManBits = 2
 IntBits = 4
 WideBits = 6
 WideInts <- MCWideInts
 Thrown = Thrown
 LexTexts <- MCTexts
 RegexpTokens <- MCRegexps
 LiteralTokens <- MCLiterals
 Contracts = {"a", "b"}
 TableNames = {"t"}
 BadKey = BadKey
 DbWorlds <- MCDbWorlds
 MaxObjects = 2
INVARIANTS ContractCompiled  TablesHold
CHECK_DEADLOCK FALSE
