----------------------------- MODULE MCExecution -----------------------------
(* What executing transactions rests on, each component on a small instance:  *)
(* signing keys, authority, resource limits, actions and their receipts,      *)
(* protocol features and the ABI.  While another component is checked no      *)
(* transaction arrives.                                                       *)
EXTENDS SignedTransactions, Integers, FiniteSets, MCComponents

CONSTANTS Account, Resource, Precision, Window, Periods, MaxChoices, MaxTrxUsage, Multiplier,
          TargetPercent, ContractRate, ExpandRate, Greylist, Usages, Limits, RamUses, MaxSlot,
          Newcomers, PermNames, LinkTypes, Hashes, Sizes, MaxPermId, PermActors,
          Authorities, KeySets, DeclaredAuths, Grants, Delays, DepthLimits, MaxDelay,
          Actors, Nobody, Payloads, TreeWorlds, MaxOrdinal, MaxInlineDepth, MaxLeaves,
          Codenames, Needs, Unlocks, Directories, Populate, Gate, MaxHeight, MaxActivations,
          Builtins, Abis, Inputs, Byte, MaxBytes, MaxDepth

RL == INSTANCE ResourceLimits WITH
        usage <- v1, weight <- v2, pending_weight <- v3, total <- v4, ram_usage <- v5,
        block_usage <- v6, average <- v7, virtual <- v8, max <- v9, slot <- v10, billing <- v11
AZ == INSTANCE Authorization WITH
        accounts <- v1, perms <- v2, links <- v3, code <- v4, abi <- v5, refs <- v6, ram <- v7,
        next_id <- v8, features <- v9, actors <- v10,
        auths <- v1, asked <- v2, declared <- v3, granted <- v4, delay <- v5, limit <- v6,
        required <- v7, verdict <- v8, Actors <- PermActors
AR == INSTANCE ActionReceipts WITH
        treeWorld <- v1, traces <- v2, frames <- v3, originals <- v4, executed <- v5, trxStatus <- v6,
        nodeCount <- v1, activeNodes <- v2, leaves <- v3
PF == INSTANCE ProtocolFeatures WITH
        directory <- v1, known <- v2, up <- v3, headers <- v4, states <- v5, lib <- v6,
        pending <- v7, manager <- v8
AB == INSTANCE AbiSerializer WITH
        abi <- v1, stage <- v2, type <- v3, bytes <- v4, value <- v5, left <- v6, result <- v7

ExecutionInit ==
  /\ SignedInit
  /\ \/ component = "keys"        /\ v1 = 0 /\ Off2
     \/ component = "limits"      /\ RL!RlInit     /\ Off12
     \/ component = "permissions" /\ AZ!PmInit     /\ Off11
     \/ component = "authority"   /\ AZ!AcInit     /\ Off9
     \/ component = "actions"     /\ AR!TreeInit   /\ Off7
     \/ component = "merkle"      /\ AR!MerkleInit /\ Off4
     \/ component = "features"    /\ PF!PfInit     /\ Off9
     \/ component = "abi"         /\ AB!AbiInit    /\ Off8

ExecutionNext ==
  \/ component = "keys" /\ SignedNext /\ UNCHANGED shared
  \/ /\ \/ component = "limits"      /\ RL!RlNext     /\ Stay12
        \/ component = "permissions" /\ AZ!PmNext     /\ Stay11
        \/ component = "authority"   /\ AZ!AcNext     /\ Stay9
        \/ component = "actions"     /\ AR!TreeNext   /\ Stay7
        \/ component = "merkle"      /\ AR!MerkleNext /\ Stay4
        \/ component = "features"    /\ PF!PfNext     /\ Stay9
        \/ component = "abi"         /\ AB!AbiNext    /\ Stay8
     /\ UNCHANGED signedVars

ExecutionSpec == ExecutionInit /\ [][ExecutionNext]_<<shared, signedVars>>

-----------------------------------------------------------------------------
(* The instances.                                                             *)

\* Two signatures of one transaction, one of them met in another transaction with
\* context-free data, and a large transaction signed twice with one key.
Sig(key, id, cfd) == [key |-> key, over |-> <<id, cfd>>]
MCTrxs ==
  {[id |-> "t", cfd |-> "none", big |-> FALSE, sigs |-> <<Sig("a", "t", "none"), Sig("b", "t", "none")>>],
   [id |-> "u", cfd |-> "d", big |-> FALSE, sigs |-> <<Sig("a", "t", "none"), Sig("b", "u", "d")>>],
   [id |-> "v", cfd |-> "none", big |-> TRUE, sigs |-> <<Sig("a", "v", "none"), Sig("a", "v", "none")>>]}

\* Windows, limits and rates so small that averages decay to nothing, limits are reached and
\* both the largest and the smallest elastic limit occur.
Each(n) == [r \in Resource |-> n]
MCMaxChoices == Each({2})
MCUsages == Each({1})
MCWindow == Each(2)
MCMaxTrx == Each(3)
MCContract == <<1, 2>>
MCExpand == <<3, 2>>
MCRam == {-1, 1}
MCLimits == {[cpu |-> 1, net |-> 1, ram |-> 1], [cpu |-> -1, net |-> 4, ram |-> 0]}

MCPermActors == {[manage |-> {"a"}, deploy |-> {}], [manage |-> {}, deploy |-> {"eosio", "a"}]}

\* Three permissions whose authorities name each other in every way.
Level(a) == <<a, "active">>
Levels == {Level("a"), Level("b"), Level("c")}
KeyF(k, w) == [kind |-> "key", of |-> k, weight |-> w]
LevelF(a, w) == [kind |-> "account", of |-> Level(a), weight |-> w]
WaitF(n, w) == [kind |-> "wait", of |-> n, weight |-> w]
Authority(t, fs) == [threshold |-> t, factors |-> fs]
AuthoritiesOf(other) ==
  {Authority(1, {f}) : f \in {KeyF("k1", 1), KeyF("k2", 1), LevelF(other, 1), LevelF("c", 2)}}
    \cup {Authority(2, {f, g}) : f \in {KeyF("k1", 1), LevelF(other, 1)}, g \in {KeyF("k2", 1), LevelF("c", 1)}}
MCAuthorities ==
  {[l \in Levels |-> IF l[1] = "a" THEN x ELSE IF l[1] = "b" THEN y ELSE z] :
     x \in AuthoritiesOf("b") \cup {Authority(1, {WaitF(3, 1)}), Authority(2, {WaitF(1, 1), KeyF("k1", 1)})},
     y \in AuthoritiesOf("a"),
     z \in {Authority(1, {KeyF("k1", 1)}), Authority(2, {KeyF("k1", 1), LevelF("a", 1)}),
            Authority(1, {LevelF("b", 1)})}}
MCKeySets == {{"k1"}, {"k1", "k2"}}
MCDeclared == {<<Level("a")>>, <<Level("a"), Level("b")>>}
MCGrants == {{}, {<<"b", "">>}}

Action(a, auths) == [account |-> a, auths |-> auths]
MCPayloads == {[cfas |-> <<Action("b", {})>>, acts |-> <<Action("a", {"b"})>>],
               [cfas |-> <<>>, acts |-> <<Action("a", {"a"}), Action("b", {})>>]}
TreeWorld(producing, restrict) ==
  [producing |-> producing, skipAuth |-> FALSE, restrict |-> restrict, privileged |-> {},
   blocked |-> {}, grants |-> {<<"a", "b">>}]
MCTreeWorlds == {TreeWorld(TRUE, FALSE), TreeWorld(FALSE, TRUE), TreeWorld(TRUE, TRUE)}

MCNeeds == [p |-> {}, r |-> {}, n |-> {"r"}]
MCUnlocks == [p |-> {"preactivate_feature"}, r |-> {}, n |-> {"get_sender"}]
Feature(deps, enabled, preactivation, earliest) ==
  [deps |-> deps, enabled |-> enabled, preactivation |-> preactivation, earliest |-> earliest]
MCDirectories == {<<>>,
                  [r |-> Feature({}, TRUE, FALSE, 2), n |-> Feature({<<"r", {}>>}, TRUE, TRUE, 0)],
                  [n |-> Feature({<<"r", {}>>}, TRUE, TRUE, 0)],
                  [r |-> Feature({}, FALSE, TRUE, 0)]}

\* ABIs with extensions in nested and base structures, typedefs, variants, optionals and
\* recursion; and ABIs that are refused: a cycle of bases, a typedef of a variant and an
\* unknown type.
Def(name, type) == [name |-> name, type |-> type]
Struct(name, base, fields) == [name |-> name, base |-> base, fields |-> fields]
Variant(name, types) == [name |-> name, types |-> types]
Abi(types, structs, variants, actions) ==
  [types |-> types, structs |-> structs, variants |-> variants, actions |-> actions]
U == <<"u">>
MCAbis == {
  Abi(<<Def(<<"T">>, <<"P">>)>>,
      <<Struct(<<"P">>, <<>>, <<Def("a", U), Def("x", <<"u", "$">>), Def("y", <<"u", "$">>)>>),
        Struct(<<"Q">>, <<"T">>, <<Def("b", U)>>),
        Struct(<<"R">>, <<>>, <<Def("p", <<"T">>), Def("q", <<"T", "$">>)>>),
        Struct(<<"L">>, <<>>, <<Def("l", <<"P", "[]">>)>>)>>,
      <<Variant(<<"V">>, <<U, <<"P">>>>)>>,
      <<Def("1", <<"Q">>), Def("2", <<"R">>), Def("3", <<"V">>), Def("4", <<"L">>), Def("5", <<"T">>)>>),
  Abi(<<Def(<<"B">>, U), Def(<<"A">>, <<"B", "[]">>)>>,
      <<Struct(<<"E">>, <<>>, <<>>),
        Struct(<<"N">>, <<>>, <<Def("v", <<"u", "?">>), Def("kids", <<"N", "[]">>)>>),
        Struct(<<"O">>, <<>>, <<Def("o", <<"B", "?">>), Def("a", <<"A">>)>>),
        Struct(<<"D">>, <<>>, <<Def("e", <<"E", "$">>)>>)>>,
      <<>>,
      <<Def("1", <<"N">>), Def("2", <<"O">>), Def("3", <<"D">>), Def("4", <<"A", "[]">>),
        Def("5", <<"u", "[]">>)>>),
  Abi(<<>>, <<Struct(<<"P">>, <<"Q">>, <<>>), Struct(<<"Q">>, <<"P">>, <<>>)>>, <<>>, <<Def("1", <<"P">>)>>),
  Abi(<<Def(<<"T">>, <<"V">>)>>, <<>>, <<Variant(<<"V">>, <<U>>)>>, <<Def("1", <<"T">>)>>),
  Abi(<<>>, <<Struct(<<"P">>, <<>>, <<Def("a", <<"u", "[]", "?">>)>>)>>, <<>>, <<Def("1", <<"P">>)>>)}

JsonList(items) == [k |-> "list", items |-> items]
JsonObject(fields) == [k |-> "obj", fields |-> fields]
Zero == [k |-> "num", n |-> 0]
A0 == JsonObject([a |-> Zero])
AX == JsonObject([a |-> Zero, x |-> Zero])
AXY == JsonObject([a |-> Zero, x |-> Zero, y |-> Zero])
Leaf == JsonObject([v |-> [k |-> "null"], kids |-> JsonList(<<>>)])
Node(kid) == JsonObject([v |-> Zero, kids |-> JsonList(<<kid>>)])
Json(type, values) == {[type |-> <<type>>, value |-> v] : v \in values}
MCInputs ==
  UNION {
    Json("T", {A0, AX, JsonObject([a |-> Zero, y |-> Zero]), JsonList(<<Zero>>), JsonList(<<Zero, Zero, Zero>>)}),
    Json("R", {JsonObject([p |-> v]) : v \in {A0, AXY}} \cup {JsonObject([p |-> AXY, q |-> v]) : v \in {A0, AX}}),
    Json("Q", {JsonObject([a |-> Zero, b |-> Zero]), JsonObject([a |-> Zero, x |-> Zero, y |-> Zero, b |-> Zero])}),
    Json("V", {JsonList(<<[k |-> "str", str |-> <<"P">>], A0>>)}),
    Json("L", {JsonObject([l |-> JsonList(<<A0>>)]), JsonList(<<JsonList(<<A0, AX>>)>>)}),
    Json("N", {Leaf, Node(Leaf), Node(Node(Leaf)), Node(Node(Node(Leaf)))}),
    Json("D", {JsonObject([e |-> JsonObject(<<>>)]), JsonObject(<<>>)})}

-----------------------------------------------------------------------------
(* Safety.                                                                    *)

\* Billing that resource_limits.cpp says should never fail does not, whatever limits,
\* windows and block sizes are set; a block produced within a producer's view of the limits
\* is within a validator's; and totals are the sums of the accounts' weights after every
\* block, whatever was set, unset or set twice in it.
LimitsHold == component = "limits" => RL!BillingNeverFails /\ RL!ValidatorsAgree /\ RL!TotalsMatch

\* Permissions of an account form one tree under its owner permission and it is billed for
\* exactly what it stores, code shared between accounts included; and a transaction passes
\* the check of its authorizations only if its keys, waits and grants satisfy them.
AuthorityHolds ==
  /\ component = "permissions" => AZ!PermissionTree /\ AZ!StorageAccounted
  /\ component = "authority"   => AZ!VerdictJust

\* The receipts of a transaction are those of the actions that ran, in the order and with
\* the parents that its trace shows, although the trace grows while an action refers into
\* it, and a validator accepts the inline actions a producer accepted; and the incremental
\* Merkle tree over them has the root of the tree built from all its leaves.
ReceiptsHold ==
  /\ component = "actions" => AR!ReceiptsFollowTrace /\ AR!ActionAlive /\ AR!ValidatorsAllow
  /\ component = "merkle"  => AR!RootsAgree

\* The features active in the chain state, those the manager answers for and those in the
\* headers of the current branch are the same after activations, aborted and popped blocks
\* and restarts.
FeaturesAgree == component = "features" => PF!FeaturesAgree

\* A value that an ABI packs unpacks to itself and bytes that it unpacks pack to themselves.
ConversionsInverse == component = "abi" => AB!ConversionsInverse
=============================================================================
