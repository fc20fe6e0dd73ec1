------------------------------ MODULE MCServices ------------------------------
(* The plugins and programs around the chain, each on a small instance.  While *)
(* another component is checked the HTTP server has no requests and no unix    *)
(* socket.                                                                     *)
EXTENDS HttpServer, Sequences, SequencesExt, MCComponents

CONSTANTS Feeds, Trx, MongoSettings, MaxQueue, CacheSize, Failures,
          Prev, Num, Size, MaxCrashes, Paths, StreamRequests, MaxConnects, MaxAsked,
          Tables, DeltaKeys, MaxIds, MaxBlocks,
          Peers, Visitors, Hosts, MaxClients, MaxNodesPerHost, MaxWrites, Groups,
          NodeA, NodeB, PeerSettings, Skews, MaxTime, MaxLosses,
          FloodNodes, Links, Trxs, ExpiresAt, MaxTrouble,
          SoftNames, HsmName, EnclaveName, SoftKeys, HsmKeys, EnclaveKeys, Setups, Timeout, MaxPasswords,
          Accounts, System, Keys, Transactions, Filters, MaxRecorded, MaxInBlock,
          Queries, Entries, DigitNames, MaxChanges,
          PushClients, PushLists, PushTraces, MaxAtOnce,
          LaunchSettings, GenSetups, GenRequests, MaxHead, MaxTicks

MG == INSTANCE MongoDb WITH
        setting <- v1, feed <- v2, pos <- v3, queued <- v4, taken <- v5, sizes <- v6,
        start_block_reached <- v7, done <- v8, main <- v9, consumer <- v10, db <- v11,
        abi_cache <- v12, failures <- v13, quit <- v14, Settings <- MongoSettings
SH == INSTANCE StateHistory WITH
        head <- v1, log <- v2, log_disk <- v3, log_torn <- v4, index <- v5, index_disk <- v6,
        index_torn <- v7, begin_block <- v8, end_block <- v9, writing <- v10, opened <- v11,
        crashes <- v12,
        chain <- v1, lib <- v2, stopping <- v3, session <- v4, got <- v5, unacked <- v6,
        connects <- v7, lib_told <- v8,
        table <- v1, rows <- v2, undo <- v3, ids <- v4, past <- v5, replica <- v6, fresh <- v7,
        Requests <- StreamRequests, Keys <- DeltaKeys
NP == INSTANCE NetPeers WITH
        conn <- v1, num_clients <- v2, stopped <- v3, group <- v4,
        ends <- v1, sentOn <- v2, clock <- v3, skew <- v4, setting <- v5, losses <- v6,
        node <- v1, peer <- v2, sending <- v3, now <- v4, breaks <- v5, refusals <- v6,
        MaxQueue <- MaxWrites
WA == INSTANCE Wallet WITH
        hardware <- v1, up <- v2, wallets <- v3, files <- v4, device <- v5, idle <- v6,
        timer <- v7, given <- v8, acked <- v9, used <- v10
HI == INSTANCE History WITH
        filter <- v1, db <- v2, sessions <- v3, building <- v4, chain <- v5, MaxBlocks <- MaxRecorded
CA == INSTANCE ChainApi WITH
        entries <- v1, rows <- v2, query <- v3, got <- v4, stage <- v5, kept <- v6, broken <- v7,
        changes <- v8, calls <- v1, exited <- v2
TN == INSTANCE TestNetwork WITH
        opts <- v1, net <- v2, todo <- v3, force <- v4, running <- v5, disk <- v6, lastRun <- v7,
        saved <- v8, runs <- v9, forced <- v10,
        setup <- v1, head <- v2, chain <- v3, generating <- v4, batch <- v5, prefix <- v6,
        nonce <- v7, ioc <- v8, worker <- v9, main <- v10, jobs <- v11, flight <- v12,
        answers <- v13, ticks <- v14, twice <- v15, undefined <- v16,
        Settings <- LaunchSettings, Setups <- GenSetups, Requests <- GenRequests

ServicesInit ==
  /\ HttpInit /\ UnixInit
  /\ \/ component \in {"http", "unix"} /\ v1 = 0 /\ Off2
     \/ component = "mongo"        /\ MG!MgInit      /\ Off15
     \/ component = "log"          /\ SH!ShInit      /\ Off13
     \/ component = "session"      /\ SH!ShsInit     /\ Off9
     \/ component = "deltas"       /\ SH!ShdInit     /\ Off8
     \/ component = "connections"  /\ NP!NcInit      /\ Off5
     \/ component = "handshake"    /\ NP!NhInit      /\ Off7
     \/ component = "flooding"     /\ NP!NtInit      /\ Off7
     \/ component = "wallet"       /\ WA!WalletInit  /\ Off11
     \/ component = "history"      /\ HI!HistoryInit /\ Off6
     \/ component = "queries"      /\ CA!CqInit      /\ Off9
     \/ component = "pushes"       /\ CA!PushInit    /\ Off3
     \/ component = "launcher"     /\ TN!LaunchInit  /\ Off11
     \/ component = "generator"    /\ TN!GenInit
  /\ component # "http" => max_bytes_in_flight = MaxBytes

ServicesNext ==
  \/ component = "http" /\ HttpNext /\ UNCHANGED <<shared, unixVars>>
  \/ component = "unix" /\ UnixNext /\ UNCHANGED <<shared, httpVars>>
  \/ /\ \/ component = "mongo"        /\ MG!MgNext      /\ Stay15
        \/ component = "log"          /\ SH!ShNext      /\ Stay13
        \/ component = "session"      /\ SH!ShsNext     /\ Stay9
        \/ component = "deltas"       /\ SH!ShdNext     /\ Stay8
        \/ component = "connections"  /\ NP!NcNext      /\ Stay5
        \/ component = "handshake"    /\ NP!NhNext      /\ Stay7
        \/ component = "flooding"     /\ NP!NtNext      /\ Stay7
        \/ component = "wallet"       /\ WA!WalletNext  /\ Stay11
        \/ component = "history"      /\ HI!HistoryNext /\ Stay6
        \/ component = "queries"      /\ CA!CqNext      /\ Stay9
        \/ component = "pushes"       /\ CA!PushNext    /\ Stay3
        \/ component = "launcher"     /\ TN!LaunchNext  /\ Stay11
        \/ component = "generator"    /\ TN!GenNext     /\ Stay17
     /\ UNCHANGED <<httpVars, unixVars>>

ServicesSpec == ServicesInit /\ [][ServicesNext]_<<shared, httpVars, unixVars>>

-----------------------------------------------------------------------------
(* The instances.                                                             *)

\* One request of each kind, one with the wrong port, one without a port.
MCHost == [r \in Request |-> IF r = "x" THEN <<"h", 2>> ELSE IF r = "u" THEN <<"h", 0>> ELSE <<"h", 1>>]
MCValidHosts == {<<"h", 1>>}
MCResources == [s |-> "sync", a |-> "async", m |-> "many", t |-> "throws", x |-> "sync", u |-> "unknown",
                o |-> "options"]
MCBody == [r \in Request |-> IF r = "t" THEN 2 ELSE 1]
MCJson == [r \in Request |-> IF r = "a" THEN 1 ELSE 2]

\* A chain with and without a fork whose transactions set and replace ABIs and keys.
SystemAct(name, target, abi, keys) ==
  [receiver |-> "eosio", account |-> "eosio", name |-> name, actors |-> {"x"}, target |-> target,
   abi |-> abi, keys |-> keys]
PlainAct(receiver, account) ==
  [receiver |-> receiver, account |-> account, name |-> "act", actors |-> {"x"}, target |-> "",
   abi |-> "", keys |-> {}]
Executed(acts) == [actions |-> acts, executed |-> TRUE, complete |-> TRUE]
MCTrx ==
  [t1 |-> Executed(<<SystemAct("newaccount", "c", "", {"k"}), SystemAct("setabi", "c", "v1", {})>>),
   t2 |-> Executed(<<PlainAct("c", "c"), SystemAct("updateauth", "c", "", {"l"})>>),
   t3 |-> Executed(<<SystemAct("setabi", "c", "v2", {}), PlainAct("d", "c")>>),
   t4 |-> Executed(<<SystemAct("setabi", "d", "v1", {}), PlainAct("d", "d"),
                     SystemAct("deleteauth", "c", "", {})>>)]
Block(num, id, trxs) == [num |-> num, id |-> id, trxs |-> trxs]
Emit(queue, item) == [queue |-> queue, item |-> item]
Applied(block, trxs) ==
  FlattenSeq([i \in 1..Len(trxs) |-> <<Emit("trx", trxs[i]), Emit("trace", trxs[i])>>])
    \o <<Emit("block", block)>>
Final(block) == <<Emit("irreversible", block)>>
B1 == Block(1, "1a", {"t1"})
B2 == Block(2, "2a", {"t2"})
C2 == Block(2, "2b", {"t3", "t4"})
MCFeeds ==
  {Applied(B1, <<"t1">>) \o Applied(B2, <<"t2">>) \o Final(B1) \o Applied(C2, <<"t3", "t4">>) \o Final(C2),
   Applied(B1, <<"t1">>) \o Final(B1) \o Applied(C2, <<"t3">>) \o Applied(B2, <<"t2">>) \o Final(B2)}
StoreAll == [start |-> 0, blocks |-> TRUE, states |-> TRUE, transactions |-> TRUE, ttraces |-> TRUE,
             atraces |-> TRUE, producer |-> FALSE, bynum |-> FALSE, star |-> TRUE, on |-> {}, out |-> {}]
MCMongoSettings ==
  {StoreAll, [StoreAll EXCEPT !.bynum = TRUE, !.states = FALSE],
   [StoreAll EXCEPT !.start = 1, !.blocks = FALSE, !.star = FALSE,
                    !.on = {[receiver |-> "c", action |-> "", actor |-> ""]}]}

\* Three branches; requests that start before, at and after what the node has.
MCPaths == {<<"b1", "b2", "b3">>, <<"b1", "c2", "c3", "c4">>, <<"b1", "b2", "d3", "d4">>}
Stream(start, end, credits, irreversible) ==
  [start |-> start, end |-> end, credits |-> credits, irreversible_only |-> irreversible]
MCStreamRequests == {Stream(1, 9, 1, FALSE), Stream(3, 9, 2, FALSE), Stream(1, 3, 2, FALSE), Stream(2, 9, 2, TRUE)}
MCPrev == [b2 |-> "root", b3 |-> "b2", b4 |-> "b3", c3 |-> "b2", c4 |-> "c3", c2 |-> "root"]
MCNum == [b2 |-> 2, b3 |-> 3, b4 |-> 4, c3 |-> 3, c4 |-> 4, c2 |-> 2]
MCSize == [b2 |-> 2, b3 |-> 1, b4 |-> 2, c3 |-> 2, c4 |-> 1, c2 |-> 1]

MCGroups == {{"p"}, {"v1", "v2"}}
Agreeable == [valid |-> TRUE, same_chain |-> TRUE, same_version |-> TRUE, version_match |-> FALSE,
              forked |-> FALSE, allowed |-> {"any"}, key_known |-> FALSE, recent |-> TRUE,
              signature |-> "none"]
Producers == [Agreeable EXCEPT !.allowed = {"producers"}, !.key_known = TRUE]
MCPeerSettings ==
  {[A |-> Agreeable, B |-> Agreeable],
   [A |-> Agreeable, B |-> [Agreeable EXCEPT !.forked = TRUE]],
   [A |-> [Agreeable EXCEPT !.valid = FALSE], B |-> Agreeable],
   [A |-> Producers, B |-> Agreeable],
   [A |-> [Producers EXCEPT !.signature = "good"], B |-> Agreeable],
   [A |-> [Agreeable EXCEPT !.same_version = FALSE, !.version_match = TRUE],
    B |-> [Agreeable EXCEPT !.same_chain = FALSE]]}
MCSkews == {[A |-> 0, B |-> 0], [A |-> 0, B |-> 3]}
MCLinks == {<<"a", "b">>, <<"b", "c">>}
MCExpires == [t \in Trxs |-> 1]

MCSetups == {{"hsm"}, {"se"}}

\* Transactions that create an account, change and delete its permissions, and plain ones.
Auth(keys, accounts) == [keys |-> keys, accounts |-> accounts]
Recorded(id, acts) == [id |-> id, actions |-> acts, recorded |-> TRUE]
PlainTrace(receiver, name, actors) ==
  [receiver |-> receiver, name |-> name, actors |-> actors, receipt |-> TRUE,
   data |-> [account |-> receiver, permissions |-> <<>>]]
SystemTrace(name, permissions) ==
  [receiver |-> "eosio", name |-> name, actors |-> {"a"}, receipt |-> TRUE,
   data |-> [account |-> "a", permissions |-> permissions]]
MCTransactions ==
  {Recorded(1, <<SystemTrace("newaccount", [owner |-> Auth({"k"}, <<>>), active |-> Auth({"k"}, <<"b">>)])>>),
   Recorded(2, <<SystemTrace("updateauth", [active |-> Auth({}, <<"b", "b">>)]), PlainTrace("b", "x", {"a"})>>),
   Recorded(3, <<PlainTrace("a", "x", {"a", "b"}), [PlainTrace("b", "x", {"a"}) EXCEPT !.receipt = FALSE],
                 PlainTrace("b", "y", {"b"})>>),
   Recorded(4, <<SystemTrace("updateauth", [p |-> Auth({"k", "l"}, <<"b">>)])>>),
   Recorded(5, <<SystemTrace("deleteauth", [p |-> Auth({}, <<>>)])>>),
   [Recorded(6, <<PlainTrace("a", "x", {"b"})>>) EXCEPT !.recorded = FALSE],
   Recorded(7, <<SystemTrace("updateauth", [active |-> Auth({"l"}, <<>>)])>>)}
MCFilters == {[bypass |-> TRUE, on |-> {}, out |-> {}],
              [bypass |-> TRUE, on |-> {}, out |-> {<<"a", "", "b">>}],
              [bypass |-> FALSE, on |-> {<<"a", "x", "b">>, <<"b", "y", "">>}, out |-> {}]}

\* Every kind of query with bounds below, inside and above what is stored.
Query(kind, lower, upper, limit, reverse, table, since, position) ==
  [kind |-> kind, lower |-> lower, upper |-> upper, limit |-> limit, reverse |-> reverse,
   table |-> table, since |-> since, position |-> position]
MCQueries ==
  UNION {
    {Query("rows", l, u, n, r, 0, 0, 1) : l \in {0, 2}, u \in {0, 1, 2}, n \in {0, 1, 2}, r \in BOOLEAN},
    {Query("seckey", l, u, 1, r, 0, 0, p) : l \in {0, 2}, u \in {0, 1}, r \in BOOLEAN, p \in {1, 2, 3}},
    {Query("scopes", l, u, n, r, t, 0, 1) : l \in {0, 3}, u \in {0, 3}, n \in {1, 2}, r \in BOOLEAN, t \in {0, 1}},
    {Query("producers", l, 0, n, FALSE, 0, 0, 1) : l \in {0, 2}, n \in {1, 2}},
    {Query("scheduled", l, 0, n, FALSE, 0, s, 1) : l \in {0, 2}, n \in {1, 2}, s \in {0, 2}},
    {Query("balance", l, 0, 0, FALSE, 0, 0, 1) : l \in {0, 2}}}
MCEntries == [rows |-> (1..3) \X {0}, seckey |-> (1..2) \X (1..2), scopes |-> (2..4) \X (1..2),
              producers |-> (1..2) \X (1..3), scheduled |-> (1..2) \X (1..3), balance |-> (1..2) \X {0}]

Traced(ancestor, sequence, failed) == [ancestor |-> ancestor, sequence |-> sequence, failed |-> failed]
MCPushTraces ==
  {<<Traced(0, 1, FALSE)>>,
   <<Traced(0, 1, FALSE), Traced(1, 3, FALSE), Traced(1, 2, FALSE), Traced(3, 4, FALSE)>>,
   <<Traced(0, 1, FALSE), Traced(0, 2, FALSE), Traced(2, 0, TRUE), Traced(2, 0, FALSE), Traced(1, 3, FALSE)>>}
MCPushLists == {<<>>, <<"t">>, <<"u", "t">>, <<"t", "u", "v">>}

\* Networks of up to four nodes in every shape, one of seven, and ones on two servers.
Launch(nodes, pnodes, producers, unstarted, shape, servers, times) ==
  [runs |-> times, nodes |-> nodes, pnodes |-> pnodes, producers |-> producers, unstarted |-> unstarted,
   shape |-> shape, servers |-> servers]
Server(instances, bios, producer) == [instances |-> instances, bios |-> bios, producer |-> producer]
MCLaunchSettings ==
  UNION {
    {Launch(n, p, k, u, s, <<>>, 1) : n \in 1..4, p \in 1..3, k \in 1..3, u \in 0..1, s \in {"ring", "mesh", "star"}},
    {Launch(7, 2, 3, 1, s, <<>>, 1) : s \in {"ring", "mesh", "star"}},
    {Launch(1, 1, 3, u, s, <<Server(2, b, TRUE), Server(2, ~b, FALSE)>>, 1) :
       b \in BOOLEAN, u \in 0..1, s \in {"ring", "mesh"}},
    {Launch(2, 1, 1, 1, "ring", <<>>, 3)}}

Generator(plugin, prefix, threads, lag) == [plugin |-> plugin, prefix |-> prefix, threads |-> threads, lag |-> lag]
MCGenSetups == {Generator("txn_test_gen", "txn.test.", 1, 0), Generator("txn_test_gen", "x", 2, 1),
                Generator("vkt_txn_test_gen", "x", 1, 1)}
MCGenRequests == {[period |-> 20, batch |-> 2]}

-----------------------------------------------------------------------------
(* Safety.                                                                    *)

\* What is recorded of the chain follows it, forks undone: MongoDB holds everything final once
\* the consumer thread has caught up, and no ABI that was replaced is used; the state history
\* log opens after any crash with every entry readable, and they are one chain; a client that
\* follows the stream has the node's chain, and tables built from its deltas the node's rows;
\* and the account history answers what the filtered traces say.
ChainRecorded ==
  /\ component = "mongo"   => MG!IrreversibleStored /\ MG!CacheCoherent
  /\ component = "log"     => SH!EntriesReadable /\ SH!LogIsChain
  /\ component = "session" => SH!ClientHasChain /\ SH!ClientCaughtUp
  /\ component = "deltas"  => SH!ReplicaFollows
  /\ component = "history" => HI!HistoryFollowsChain

\* The number of clients is that of the open connections that others opened, through
\* failed, refused and simultaneous ones.
ClientsCounted == component = "connections" => NP!ClientsCounted

\* Two nodes that connect to each other keep one connection, and a transaction reaches
\* every connected node that has no reason to refuse it.
PeersMeet ==
  /\ component = "handshake" => NP!OneKept
  /\ component = "flooding"  => NP!Flooded

\* A wallet gives a key or signs only while it is unlocked, with the password it was created
\* with, and keeps every key it has confirmed.
WalletPromise == component = "wallet" => WA!WalletPromise

\* The pages of a query are together every entry between its bounds, once and in order, and a
\* list of pushed transactions is answered once, with the result of each.
ApiAnswers ==
  /\ component = "queries" => CA!PagesComplete
  /\ component = "pushes"  => CA!PushesAnswered

\* The network that the launcher writes down is the one that was asked for, and the
\* generator's threads have ended when its accounts and timer are used again.
TestNetworkSound ==
  /\ component = "launcher"  => TN!NetworkSound
  /\ component = "generator" => TN!GenerationSound
=============================================================================
