------------------------------- MODULE MCWasm -------------------------------
(* What happens to a contract's code: text and module are read, validated,    *)
(* instrumented, compiled and run, and stores rows in its tables, each        *)
(* component on a small instance.                                             *)
EXTENDS Integers, Sequences, FiniteSets, MCComponents

CONSTANTS WasmTypes, WasmFunctions, MaxNesting, MaxOperands, WordBits,
          InjModules, FloatOps, MaxBody, MaxPages,
          Contents, Intrinsics, MaxElements, MaxLocals, MaxTable, MaxMemory, MaxData,
          MaxGlobals, MaxNested,
          Codes, InitialPages, PageLimit, MaxBlock, NoCode,
          Words, MemorySize, Byte, Wide, Calls, Actions, ActiveProducers, MaxMessage,
          Transaction, ReservedCode, ContractsConsole, MaxProducers, MaxInlineSize,
          EmptyScheduleAllowed,
          ExpBits, ManBits, IntBits, WideBits, WideInts, Thrown,
          LexTexts, RegexpTokens, LiteralTokens,
          Contracts, TableNames, BadKey, DbWorlds, MaxObjects

WC == INSTANCE WasmCompiler WITH
        valid <- v1, emit <- v2, word <- v3,
        inj <- v1, source <- v2,
        mod <- v1, stage <- v2,
        machine <- v1, text <- v2, pos <- v3, tokens <- v4, lineStarts <- v5, lexed <- v6
WR == INSTANCE WasmRuntime WITH
        history <- v1, base <- v2, pending <- v3, cache <- v4, objects <- v5, globals <- v6,
        pageMemory <- v7, running <- v8, failed <- v9,
        memory <- v1, chain <- v2, status <- v3, action <- v4, edge <- v5,
        alu <- v1
TB == INSTANCE ContractTables WITH dbWorld <- v1, tables <- v2, saved <- v3, call <- v4

WasmRunInit ==
  \/ component = "code"       /\ WC!WasmInit /\ Off4
  \/ component = "injection"  /\ WC!InjInit  /\ Off3
  \/ component = "module"     /\ WC!WmInit   /\ Off3
  \/ component = "instances"  /\ WR!WiInit   /\ Off10
  \/ component = "host"       /\ WR!WhInit   /\ Off6
  \/ component = "float"      /\ WR!FpInit   /\ Off2
  \/ component = "lexer"      /\ WC!LexInit  /\ Off7
  \/ component = "tables"     /\ TB!CtInit   /\ Off5

WasmRunNext ==
  \/ component = "code"       /\ WC!WasmNext /\ Stay4
  \/ component = "injection"  /\ WC!InjNext  /\ Stay3
  \/ component = "module"     /\ WC!WmNext   /\ Stay3
  \/ component = "instances"  /\ WR!WiNext   /\ Stay10
  \/ component = "host"       /\ WR!WhNext   /\ Stay6
  \/ component = "float"      /\ WR!FpNext   /\ Stay2
  \/ component = "lexer"      /\ WC!LexNext  /\ Stay7
  \/ component = "tables"     /\ TB!CtNext   /\ Stay5

WasmRunSpec == WasmRunInit /\ [][WasmRunNext]_shared

-----------------------------------------------------------------------------
(* The instances.                                                             *)
MCFunctions == {[parameters |-> <<"i64">>, ret |-> "none"]}

\* Injection: one operator each of the shapes of Float.h, modules with and without a
\* start function (-1), with the type of an operator declared first, last or not at all.
MCFloatOps == {[op |-> "f32_add", routine |-> "f32_add", type |-> "ff_f", converts |-> FALSE],
               [op |-> "f32_abs", routine |-> "f32_abs", type |-> "f_f", converts |-> FALSE],
               [op |-> "i32_f32", routine |-> "i32_f32", type |-> "i_f", converts |-> TRUE]}
InjModule(imports, defs, start, types, table) ==
  [imports |-> imports, defs |-> defs, types |-> types, exports |-> <<imports + defs - 1>>,
   start |-> start, table |-> table, pages |-> 3, globals |-> 1]
MCInjModules == {InjModule(0, 2, 0, <<"none">>, <<0, 1>>),
                 InjModule(2, 1, -1, <<"ff_f", "none">>, <<1, 2>>),
                 InjModule(1, 2, -1, <<"ff_f">>, <<0>>)}

\* Modules: contents on both sides of every limit and of every index; -1 is no maximum.
I32(v) == [op |-> "const", type |-> "i32", value |-> v]
Imported(name, type) == [kind |-> "function", name |-> name, type |-> type]
Exported(name, kind, index) == [name |-> name, kind |-> kind, index |-> index]
Locals(num, type) == [num |-> num, type |-> type]
Body(sets, ops) == [sets |-> sets, ops |-> ops, sound |-> TRUE]
MCContents ==
  [id \in 0..11 |->
    CASE id = 0 -> {}
      [] id = 1 -> {<<"apply", "none">>, <<"apply">>}
      [] id = 2 -> {<<Imported("h", 1)>>,
                    <<Imported("h", 1), [kind |-> "global", type |-> "i32", mutable |-> FALSE]>>}
      [] id = 3 -> {<<0>>, <<0, 1>>}
      [] id = 4 -> {<<[min |-> 1, max |-> -1]>>, <<[min |-> 2, max |-> 2]>>}
      [] id = 5 -> {<<[min |-> 1, max |-> -1]>>}
      [] id = 6 -> {<<[type |-> "i32", mutable |-> TRUE, init |-> I32(0)]>>,
                    <<[type |-> "i32", mutable |-> FALSE,
                       init |-> [op |-> "get", index |-> 0, value |-> 0]]>>}
      [] id = 7 -> {<<Exported("apply", "function", 0)>>,
                    <<Exported("apply", "function", 1), Exported("t", "global", 0)>>}
      [] id = 8 -> {0, 2}
      [] id = 9 -> {<<[table |-> 0, base |-> I32(b), indices |-> <<f>>]>> : b \in {0, 1}, f \in {0, 2}}
      [] id = 10 -> {<<Body(<<Locals(1, "i32")>>, <<"far", "end">>)>>,
                     <<Body(<<Locals(1, "i32")>>, <<"block", "else", "end", "end">>)>>,
                     <<Body(<<Locals(1, "i32"), Locals(0, "i64"), Locals(1, "i32")>>, <<"end">>),
                       Body(<<>>, <<"block", "block", "end", "end", "end">>)>>}
      [] id = 11 -> {<<[memory |-> 0, base |-> I32(b), cells |-> 1]>> : b \in {0, 1}}]
MCIntrinsics == {[name |-> "h", type |-> "none"]}

MCPages == [c \in Codes |-> IF c = "x" THEN 1 ELSE 2]
MCWideInts == -32..31

\* Host calls: pointers and lengths at the edges of a memory of 6 bytes and of the words
\* (31 is -1), for every function of the API.
Value(x) == [value |-> x]
Ptr(p) == [ptr |-> p]
Span(p, l) == [ptr |-> p, length |-> l]
Ptrs == {0, 5, 6, 31}
Lens == {0, 1, 2, 31}
HostCalls(names, arguments) == {[name |-> f, args |-> a] : f \in names, a \in arguments}
MCCalls ==
  UNION {
    HostCalls({"memcpy", "memmove", "memcmp"},
              {<<[ptr |-> p, other |-> q, length |-> l]>> : p \in Ptrs, q \in {0, 5, 31}, l \in Lens}),
    HostCalls({"memset"}, {<<[ptr |-> p, value |-> b, length |-> l]>> : p \in Ptrs, b \in Byte, l \in Lens}),
    HostCalls({"sha256", "assert_sha256"}, {<<Span(p, l), Ptr(q)>> : p \in {0, 1}, q \in Ptrs, l \in {0, 2}}),
    HostCalls({"recover_key", "assert_recover_key"},
              {<<Ptr(q), Span(p, l), Span(s, 2)>> : q \in {1, 5}, p \in {2, 3}, s \in {0, 2}, l \in {0, 2}}),
    HostCalls({"get_resource_limits"},
              {<<Value(1), Ptr(p), Ptr(q), Ptr(s)>> : p \in {1, 2, 5}, q \in {2, 3}, s \in {0, 3}}),
    HostCalls({"read_action_data", "read_transaction", "get_active_producers", "prints_l"},
              {<<Span(p, l)>> : p \in Ptrs, l \in Lens}),
    HostCalls({"set_proposed_producers", "get_blockchain_parameters_packed",
               "set_blockchain_parameters_packed", "send_inline"},
              {<<Span(p, l)>> : p \in {0, 5, 6}, l \in {0, 1, 31}}),
    HostCalls({"get_context_free_data"}, {<<Value(0), Span(p, l)>> : p \in {0, 1, 6}, l \in Lens}),
    HostCalls({"check_transaction_authorization"},
              {<<Span(0, l), Span(p, 1), Span(5, 0)>> : p \in {0, 1, 6}, l \in {0, 1}}),
    HostCalls({"eosio_assert_code", "set_privileged"}, {<<Value(1), Value(0)>>}),
    HostCalls({"eosio_assert_code"}, {<<Value(0), Value(b)>> : b \in {0, 3}}),
    HostCalls({"is_privileged", "eosio_exit", "printi", "get_account_creation_time"},
              {<<Value(b)>> : b \in {0, 1}}),
    HostCalls({"eosio_assert"}, {<<Value(b), Ptr(p)>> : b \in {0, 1}, p \in Ptrs}),
    HostCalls({"prints", "printi128"}, {<<Ptr(p)>> : p \in Ptrs}),
    HostCalls({"eosio_assert_message"}, {<<Value(b), Span(p, l)>> : b \in {0, 1}, p \in {0, 6}, l \in {0, 3, 31}}),
    HostCalls({"abort", "transaction_size", "action_data_size"}, {<<>>})}
MCActions == {[contextFree |-> FALSE, receiver |-> 1, data |-> <<1, 0, 1>>],
              [contextFree |-> TRUE, receiver |-> 1, data |-> <<1, 1>>]}
MCProducers == <<1>>
MCTransaction == <<1, 1>>

\* Texts: every short text over the characters, and longer ones with literals, numbers
\* and delimited comments.
Char(c) == <<"set", {c}>>
Op(o) == <<o, {}>>
MCRegexps ==
  <<[type |-> "int", regexp |-> <<Char("+"), Op("?"), Char("1"), Op("+"), Op("("), Char("_"), Char("1"),
                                  Op("+"), Op(")"), Op("*")>>],
    [type |-> "float", regexp |-> <<Char("+"), Op("?"), Char("1"), Op("+"), Char("."), Op("("), Char("1"),
                                    Op("+"), Op(")"), Op("*")>>],
    [type |-> "name", regexp |-> <<Char("$"), <<"set", {"a", "1", "$", "="}>>, Op("+")>>]>>
Literal(type, chars, separator) == [type |-> type, literal |-> chars, separator |-> separator]
MCLiterals == <<Literal("(", <<"(">>, TRUE), Literal(")", <<")">>, TRUE), Literal("=", <<"=">>, TRUE),
                Literal("a", <<"a">>, FALSE), Literal("aa", <<"a", "a">>, FALSE),
                Literal("a_1", <<"a", "_", "1">>, FALSE)>>
MCTexts ==
  {t \o <<"nl">> : t \in
     UNION {[1..n -> {"a", "1", "_", ".", "$", "=", "(", ";", ")", "nl"}] : n \in 0..3}
       \cup [1..4 -> {"1", "a", "_", "=", "$"}]
       \cup {<<"(", ";">> \o t : t \in [1..4 -> {"(", ";", ")", "nl"}]}}

\* Rows of one table, with and without a secondary index and the restriction on who pays.
DbWorld(restrict, kv, idx, sizes) ==
  [code |-> "a", privileged |-> {}, restrict |-> restrict, notify |-> FALSE, auths |-> {"b"},
   keys |-> [kv |-> kv, idx |-> idx], values |-> [kv |-> sizes, idx |-> {0, BadKey}]]
MCDbWorlds == {DbWorld(FALSE, {0}, {}, {0, 1}), DbWorld(TRUE, {0}, {0}, {0})}

-----------------------------------------------------------------------------
(* Safety.                                                                    *)

\* From the text or the bytes to code that runs, nothing is lost or changed: the tokens
\* are the longest matches of the text, the code emitted is the code validated, unreachable
\* code skipped included, the injected module calls what the author's module called and
\* counts every instruction, and an accepted module can be instantiated and run.
ContractCompiled ==
  /\ component = "lexer"     => WC!LexesTokens
  /\ component = "code"      => WC!CompiledAsValidated
  /\ component = "injection" => WC!InjectionSound
  /\ component = "module"    => WC!InstanceSound

\* An action's code starts from the memory, globals and code of its own contract however
\* instances are cached and reused; what it does through the host API stays inside its
\* memory and is the same on both runtimes, short of the very top of the memory; and the
\* injected floating point routines round as their definitions say and convert to the
\* truncated integer or throw.
ContractRuns ==
  /\ component = "instances" => WR!FreshStart
  /\ component = "host"      => WR!HostCallsSound
  /\ component = "float"     => WR!RoundingExact /\ WR!ConversionsExact

\* Payers are billed for exactly the rows and tables that exist after any calls of the
\* database API, and an iterator a contract holds names the row it was made for, or a row
\* that is gone, never another.
TablesHold == component = "tables" => TB!StorageBilled /\ TB!IteratorsHold
=============================================================================
