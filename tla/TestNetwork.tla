----------------------------- MODULE TestNetwork -----------------------------
(* Tools for test networks in two parts, each a specification of its own: the *)
(* launcher (Launch) and the plugin that generates transactions (Gen).        *)
EXTENDS Integers, Sequences, FiniteSets, SequencesExt, Naturals

-----------------------------------------------------------------------------
(***************************************************************************)
(* eosio-launcher: it turns a few numbers (nodes, producing nodes,         *)
(* producers, nodes to leave unstarted, a shape) into a network of nodes   *)
(* with ports, producers and peers, writes their configurations, starts    *)
(* the processes one after the other and remembers them in last_run.json   *)
(* for a later invocation to kill.                                         *)
(*                                                                         *)
(* A node is named by its number, the boot node by Bios.  Where the code   *)
(* calls exit the invocation ends there, whatever it has started so far.   *)
(***************************************************************************)

CONSTANTS
    Settings    \* command lines: [nodes, pnodes, producers, unstarted, shape, servers],
                \* with a bound `runs' on the invocations of the launcher

Bios == 100
BaseP2pPort == 9876

VARIABLES
    opts,       \* the command line's description of the network
    net,        \* the generated network, a record; Unbuilt before generate
    todo,       \* nodes the current invocation has still to launch
    force,      \* whether it runs with --force
    running,    \* processes: [node, pid]
    disk,       \* per node: [config, data, pid], its directories and pid file
    lastRun,    \* node_rt_info the current invocation has gathered
    saved,      \* last_run.json
    runs,
    forced      \* ghost: --force was ever given

launchVars == <<opts, net, todo, force, running, disk, lastRun, saved, runs, forced>>

-----------------------------------------------------------------------------
(* How many nodes, and on which hosts.                                     *)

Instances(servers) == FoldLeft(LAMBDA n, s : n + s.instances, 0, servers)

LoadServers(o) ==
    IF o.servers = <<>>
    THEN [prod |-> o.pnodes + 1, total |-> o.nodes + 1]
    ELSE [prod |-> Instances(SelectSeq(o.servers, LAMBDA s : s.producer)),
          total |-> Instances(o.servers)]

(* The --nodes that a --pnodes exceeds is raised to it.                    *)
InitializeUnchecked(o) ==
    LET c == LoadServers(o)
        prod == IF c.prod > o.producers + 1 THEN o.producers ELSE c.prod
    IN [prod |-> prod, total |-> IF prod > c.total THEN prod + o.unstarted ELSE c.total,
        refused |-> prod < 2]
Initialize(o) ==
    LET c == LoadServers(o)
        prod == IF c.prod > o.producers + 1 THEN o.producers ELSE c.prod
    IN [prod |-> prod,
        total |-> IF prod > c.total THEN prod + o.unstarted ELSE c.total,
        refused |-> \/ prod <= c.total /\ c.total < prod + o.unstarted
                    \/ prod < 2]

(* Ports count up from the host's base; the boot node has its own.         *)
SetHost(host, k, bios) ==
    [host |-> host, p2p |-> IF bios THEN BaseP2pPort - 100 ELSE BaseP2pPort + k]

(* The boot node comes first on one machine, else where has_bios puts it:  *)
(* the first instance of that server.                                      *)
HostOf(servers, i) ==
    CHOOSE h \in DOMAIN servers :
        /\ Instances(SubSeq(servers, 1, h - 1)) <= i
        /\ i < Instances(SubSeq(servers, 1, h))

IsBios(o, i) ==
    IF o.servers = <<>> THEN i = 0
    ELSE LET h == HostOf(o.servers, i) IN
         o.servers[h].bios /\ i = Instances(SubSeq(o.servers, 1, h - 1))

AssignName(o, i) ==
    IF IsBios(o, i) THEN Bios ELSE Cardinality({j \in 0..(i - 1) : ~IsBios(o, j)})

DefineNetwork(o, total) ==
    [i \in 0..(total - 1) |->
        LET host == IF o.servers = <<>> THEN 1 ELSE HostOf(o.servers, i)
            before == {j \in 0..(i - 1) : ~IsBios(o, j) /\
                          (o.servers = <<>> \/ HostOf(o.servers, j) = host)}
        IN [name |-> AssignName(o, i)] @@ SetHost(host, Cardinality(before), IsBios(o, i))]

(* The producers are dealt out to the first nodes in order; the last nodes *)
(* are the ones not started.                                               *)
BindNodes(o, c) ==
    LET nodes == c.prod - 1
        perNode == o.producers \div nodes
        extra == o.producers % nodes
        first(i) == i * perNode + (IF i < extra THEN i ELSE extra)
    IN [i \in 0..(c.total - 2) |->
          [producers |-> IF i < nodes THEN first(i)..(first(i + 1) - 1) ELSE {},
           dontStart |-> i >= c.total - o.unstarted - 1]]

-----------------------------------------------------------------------------
(* The shapes.  `aliases' gives the name at each index.                    *)

StartNdx(aliases) == IF aliases[0] = Bios THEN 1 ELSE 0

RECURSIVE NextNdx(_, _)
NextNdx(aliases, i) ==
    LET total == Cardinality(DOMAIN aliases) IN
    IF i + 1 = total THEN [ndx |-> StartNdx(aliases), loop |-> TRUE]
    ELSE IF aliases[i + 1] = Bios THEN NextNdx(aliases, i + 1)
    ELSE [ndx |-> i + 1, loop |-> FALSE]

RECURSIVE SkipFrom(_, _, _, _)
SkipFrom(aliases, from, i, attempts) ==
    IF attempts > 0 /\ (aliases[i] = Bios \/ i = from)
    THEN SkipFrom(aliases, from, NextNdx(aliases, i).ndx, attempts - 1)
    ELSE i
SkipNdx(aliases, from, offset) ==
    LET total == Cardinality(DOMAIN aliases) IN
    IF total > 2 THEN SkipFrom(aliases, from, (from + offset) % total, total - 2)
    ELSE (from + offset) % total

(* The non-boot indices in the order the loops visit them.                 *)
Visited(aliases) ==
    SelectSeq([k \in 1..Cardinality(DOMAIN aliases) |-> k - 1], LAMBDA i : aliases[i] # Bios)

NoPeers(aliases) == [n \in {aliases[i] : i \in DOMAIN aliases} |-> <<>>]

MakeRing(aliases) ==
    IF Len(Visited(aliases)) < 2 THEN NoPeers(aliases)
    ELSE FoldLeft(LAMBDA peers, i :
                    [peers EXCEPT ![aliases[i]] = Append(@, aliases[NextNdx(aliases, i).ndx])],
                  NoPeers(aliases), Visited(aliases))

MakeMesh(aliases) ==
    LET others == [j \in 1..(Len(Visited(aliases)) - 1) |-> j] IN
    FoldLeft(LAMBDA peers, i :
               [peers EXCEPT ![aliases[i]] =
                   @ \o [k \in DOMAIN others |-> aliases[SkipNdx(aliases, i, others[k])]]],
             NoPeers(aliases), Visited(aliases))

(* make_star looks for the next peer through a reference into `aliases',   *)
(* so moving on to another name writes it over the one it stood on.  The   *)
(* search that has been around twice without an end has none.              *)
RECURSIVE NewPeer(_, _, _, _, _, _)
NewPeer(aliases, have, i, slot, ndx, steps) ==
    IF aliases[slot] \notin have THEN [aliases |-> aliases, ndx |-> ndx, hangs |-> FALSE]
    ELSE IF steps = 0 THEN [aliases |-> aliases, ndx |-> ndx, hangs |-> TRUE]
    ELSE LET n == NextNdx(aliases, ndx).ndx
             next == IF n = i THEN NextNdx(aliases, n).ndx ELSE n
         IN NewPeer([aliases EXCEPT ![slot] = aliases[next]], have, i, slot, next, steps - 1)

StarGap(nodes, links) ==
    LET from == IF nodes > 6 THEN 3 ELSE (nodes - links) \div 2 + 1
    IN CHOOSE g \in from..(nodes + 1) :
          nodes % g # 0 /\ \A h \in from..(g - 1) : nodes % h = 0

StarLinks(nodes) ==
    IF nodes > 12 THEN 2 + (CHOOSE r \in 1..nodes : r * r <= nodes /\ nodes < (r + 1) * (r + 1))
    ELSE 3

StarLink(s, i, l, gap) ==
    IF s.hangs THEN s
    ELSE LET from == SkipNdx(s.aliases, s.ndx, l * gap)
             have == {s.peers[s.current][k] : k \in DOMAIN s.peers[s.current]}
             found == NewPeer(s.aliases, have, i, from, from, 2 * Cardinality(DOMAIN s.aliases))
         IN [s EXCEPT !.aliases = found.aliases, !.ndx = found.ndx, !.hangs = found.hangs,
                      !.peers[s.current] = Append(@, found.aliases[from])]

StarNode(s, i, links, gap) ==
    FoldLeft(LAMBDA t, l : StarLink(t, i, l, gap),
             [s EXCEPT !.ndx = i, !.current = s.aliases[i]],
             [l \in 1..links |-> l])

MakeStar(aliases) ==
    LET nodes == Len(Visited(aliases))
        links == StarLinks(nodes)
        s == FoldLeft(LAMBDA t, i : StarNode(t, i, links, StarGap(nodes, links)),
                      [aliases |-> aliases, peers |-> NoPeers(aliases), ndx |-> 0,
                       current |-> Bios, hangs |-> FALSE],
                      Visited(aliases))
    IN [peers |-> s.peers, hangs |-> s.hangs]

Shaped(shape, aliases) ==
    CASE shape = "star" /\ Len(Visited(aliases)) >= 4 -> MakeStar(aliases)
      [] shape = "mesh" -> [peers |-> MakeMesh(aliases), hangs |-> FALSE]
      [] OTHER -> [peers |-> MakeRing(aliases), hangs |-> FALSE]

(* Everyone but the boot node is configured to dial it too.                *)
WriteConfig(o, c) ==
    LET where == DefineNetwork(o, c.total)
        aliases == [i \in DOMAIN where |-> where[i].name]
        shaped == Shaped(o.shape, aliases)
        bound == BindNodes(o, c)
    IN [order |-> [k \in 1..c.total |-> aliases[k - 1]],
        hangs |-> shaped.hangs,
        at |-> [n \in {aliases[i] : i \in DOMAIN aliases} |->
                  LET w == where[CHOOSE i \in DOMAIN where : where[i].name = n]
                  IN [host |-> w.host, p2p |-> w.p2p]],
        dials |-> [n \in {aliases[i] : i \in DOMAIN aliases} |->
                     (IF n = Bios THEN <<>> ELSE <<Bios>>) \o shaped.peers[n]],
        node |-> bound]

-----------------------------------------------------------------------------
(* Starting and killing the nodes.                                         *)

Unbuilt == [order |-> <<>>, hangs |-> FALSE, at |-> <<>>, dials |-> <<>>, node |-> <<>>]
Nothing == [config |-> FALSE, data |-> FALSE, pid |-> 0]
Names == 0..20 \cup {Bios}
Handled == {0, Bios}    \* the nodes named to the launcher, or that exit

LaunchInit ==
    /\ opts \in Settings
    /\ net = Unbuilt /\ todo = <<>> /\ force = FALSE
    /\ running = {} /\ lastRun = {} /\ saved = {}
    /\ disk = [n \in Names |-> Nothing]
    /\ runs = 0 /\ forced = FALSE

DontStart(n) == n # Bios /\ net.node[n].dontStart

Generate(f) ==
    /\ todo = <<>> /\ runs < opts.runs
    /\ \E c \in {Initialize(opts)} :
        /\ ~c.refused
        /\ net' = WriteConfig(opts, c)
        /\ todo' = IF net'.hangs THEN <<>> ELSE net'.order
    /\ force' = f /\ forced' = (forced \/ f)
    /\ lastRun' = {} /\ runs' = runs + 1
    /\ UNCHANGED <<opts, running, disk, saved>>

(* --launch <name>: that node only.                                        *)
GenerateNamed(f, n) ==
    /\ todo = <<>> /\ runs < opts.runs
    /\ \E c \in {Initialize(opts)} :
        /\ ~c.refused
        /\ net' = WriteConfig(opts, c)
        /\ ~net'.hangs /\ n \in DOMAIN net'.at
    /\ todo' = <<n>>
    /\ force' = f /\ forced' = (forced \/ f)
    /\ lastRun' = {} /\ runs' = runs + 1
    /\ UNCHANGED <<opts, running, disk, saved>>

(* deploy_config_files refuses a directory in use unless told to force.    *)
DeployConfigFiles(n) == force \/ (~disk[n].config /\ ~disk[n].data)

NewPid == CHOOSE p \in 1..20 : \A r \in running : r.pid # p /\ \A m \in Names : disk[m].pid # p

(* A server is reached by ssh, any command of which may fail; and a node   *)
(* there cannot be left unstarted.                                         *)
Remote == opts.servers # <<>>

LaunchRefused ==
    /\ todo # <<>>
    /\ Remote \/ ~DeployConfigFiles(Head(todo))
    /\ todo' = <<>>
    /\ UNCHANGED <<opts, net, force, running, disk, lastRun, saved, runs, forced>>

Launch ==
    /\ todo # <<>> /\ DeployConfigFiles(Head(todo))
    /\ ~(Remote /\ DontStart(Head(todo)))
    /\ LET n == Head(todo) IN
       /\ IF DontStart(n)
          THEN /\ disk' = [disk EXCEPT ![n].config = TRUE, ![n].data = FALSE]
               /\ UNCHANGED running
          ELSE /\ running' = running \cup {[node |-> n, pid |-> NewPid]}
               /\ disk' = [disk EXCEPT ![n] = [config |-> TRUE, data |-> TRUE, pid |-> NewPid]]
       /\ lastRun' = lastRun \cup {n}
       /\ saved' = IF Len(todo) = 1 THEN lastRun' ELSE saved
    /\ todo' = Tail(todo)
    /\ UNCHANGED <<opts, net, force, runs, forced>>

(* --kill: the pid file of every node in last_run.json.                    *)
Kill ==
    /\ todo = <<>> /\ runs < opts.runs /\ saved # {}
    /\ running' = {r \in running : \A n \in saved : disk[n].pid # r.pid}
    /\ runs' = runs + 1
    /\ UNCHANGED <<opts, net, todo, force, disk, lastRun, saved, forced>>

(* --bounce and --down act on a node through its own scripts, which the    *)
(* launcher waits for: the process ends and, bounced, another takes over.  *)
DoCommand(n, restart) ==
    /\ todo = <<>> /\ runs < opts.runs /\ n \in DOMAIN net.at
    /\ running' = {r \in running : r.pid # disk[n].pid}
                  \cup (IF restart THEN {[node |-> n, pid |-> NewPid]} ELSE {})
    /\ disk' = [disk EXCEPT ![n].pid = IF restart THEN NewPid ELSE @]
    /\ runs' = runs + 1
    /\ UNCHANGED <<opts, net, todo, force, lastRun, saved, forced>>
Bounce(n) == DoCommand(n, TRUE)
Down(n) == DoCommand(n, FALSE)

(* A node exits by itself.                                                 *)
Exits(r) ==
    /\ running' = running \ {r}
    /\ UNCHANGED <<opts, net, todo, force, disk, lastRun, saved, runs, forced>>

LaunchNext ==
    \/ \E f \in BOOLEAN : Generate(f)
    \/ \E f \in BOOLEAN, n \in Handled : GenerateNamed(f, n)
    \/ LaunchRefused \/ Launch \/ Kill
    \/ \E n \in Handled : disk[n].config /\ (Bounce(n) \/ Down(n))
    \/ \E r \in {q \in running : q.node \in Handled} : Exits(r)

LaunchSpec == LaunchInit /\ [][LaunchNext]_launchVars

-----------------------------------------------------------------------------
Linked(a, b) ==
    \/ b \in {net.dials[a][k] : k \in DOMAIN net.dials[a]}
    \/ a \in {net.dials[b][k] : k \in DOMAIN net.dials[b]}

RECURSIVE Reached(_)
Reached(s) ==
    LET more == {n \in DOMAIN net.at \ {Bios} : n \notin s /\ \E m \in s : Linked(m, n)}
    IN IF more = {} THEN s ELSE Reached(s \cup more)

(* What the options promise of a generated network.  Every producer is     *)
(* configured on one node, and that node is one of those started; no two   *)
(* nodes of a host share a port; a ring or a mesh holds together when the  *)
(* boot node is gone, and a mesh links every two nodes.  And no process    *)
(* is started in the directories of another that is still running, unless  *)
(* --force was given: deploy_config_files refuses them.                    *)
NetworkSound ==
    /\ net # Unbuilt =>
        /\ \A p \in 0..(opts.producers - 1) :
              Cardinality({i \in DOMAIN net.node : p \in net.node[i].producers}) = 1
        /\ \A i \in DOMAIN net.node : net.node[i].producers # {} => ~net.node[i].dontStart
        /\ \A a, b \in DOMAIN net.at : a # b => net.at[a] # net.at[b]
        /\ opts.shape # "star" => Reached({0}) = DOMAIN net.at \ {Bios}
        /\ opts.shape = "mesh" =>
              \A a, b \in DOMAIN net.at \ {Bios} : a # b => Linked(a, b)
    /\ forced \/ \A r, q \in running : r.node = q.node => r = q

(* After --kill no process started by an earlier invocation is running.    *)
KillReachesAll == [][Kill => running' = {}]_launchVars

-----------------------------------------------------------------------------
(***************************************************************************)
(* The two transaction generators, txn_test_gen_plugin and its copy        *)
(* vkt_txn_test_gen_plugin.  An HTTP call creates three accounts and a     *)
(* token; another starts a pool of threads that, at every tick of a timer, *)
(* sign a batch of transfers and post it to the application's thread,      *)
(* which hands them to the chain.  A failure, or a third call, stops the   *)
(* pool.                                                                   *)
(*                                                                         *)
(* `nonce_prefix' and `nonce' are plain integers that the threads of the   *)
(* pool increment without a lock, so reading and writing them are separate *)
(* steps.  `undefined' is raised where the program's behaviour is: two     *)
(* threads joining one pool, or a pool destroyed under a thread that has   *)
(* yet to leave it.                                                        *)
(***************************************************************************)

CONSTANTS
    Setups,     \* settings: [plugin, prefix, threads, lag]
    Requests,   \* arguments of start_generation: [period, batch]
    MaxHead,    \* blocks the chain reaches
    MaxTicks    \* times the timer is armed, over all generations

VARIABLES
    setup,      \* the plugin running and its options
    head,       \* number of the chain's head block
    chain,      \* [accounts, funded, seen] in the state database
    generating,
    batch,      \* pairs of transfers in a batch
    prefix,     \* nonce_prefix
    nonce,      \* the static nonce of send_transaction
    ioc,        \* the pool's io_context: [queue, timer, stopped]
    worker,     \* what each thread of the pool is doing
    main,       \* the application's thread: free, or inside stop_generation
    jobs,       \* handlers posted to the application's thread
    flight,     \* transactions accept_transaction has not answered for
    answers,    \* responses given to create_test_accounts
    ticks,
    twice,      \* ghost: two equal transfers were signed
    undefined

genVars == <<setup, head, chain, generating, batch, prefix, nonce, ioc, worker,
             main, jobs, flight, answers, ticks, twice, undefined>>
gen == <<generating, batch, prefix, nonce, ioc, ticks>>

GenThreads == 1..setup.threads
Idle == [stage |-> "idle", p |-> 0, n |-> 0, trxs |-> <<>>]
NoPool == [queue |-> <<>>, timer |-> FALSE, stopped |-> TRUE]

AccountA == <<setup.prefix, "a">>
AccountB == <<setup.prefix, "b">>
AccountT == <<setup.prefix, "t">>

-----------------------------------------------------------------------------
(* The chain, as seen through accept_transaction.                          *)

CreateTransaction(names) == [kind |-> "accounts", names |-> names]
TokenTransaction(holders) == [kind |-> "token", names |-> holders]

Succeeds(t) ==
    CASE t.kind = "accounts" -> t.names \cap chain.accounts = {}
      [] t.kind = "token" ->
            /\ AccountT \in chain.accounts /\ t.names \subseteq chain.accounts
            /\ chain.funded = {}
      [] t.kind = "transfer" ->
            /\ {t.from, t.to} \subseteq chain.accounts
            /\ t.from \in chain.funded
            /\ t \notin chain.seen

Applied(t) ==
    CASE t.kind = "accounts" -> [chain EXCEPT !.accounts = @ \cup t.names]
      [] t.kind = "token" -> [chain EXCEPT !.funded = @ \cup t.names]
      [] t.kind = "transfer" -> [chain EXCEPT !.seen = @ \cup {t}]

-----------------------------------------------------------------------------
GenInit ==
    /\ setup \in Setups
    /\ head = 1
    /\ chain = [accounts |-> {}, funded |-> {}, seen |-> {}]
    /\ generating = FALSE /\ batch = 0 /\ prefix = 0 /\ nonce = 0
    /\ ioc = NoPool
    /\ worker = [w \in GenThreads |-> Idle]
    /\ main = "free" /\ jobs = <<>> /\ flight = <<>>
    /\ answers = 0 /\ ticks = 0
    /\ twice = FALSE /\ undefined = FALSE

Block ==
    /\ head < MaxHead
    /\ head' = head + 1
    /\ UNCHANGED <<setup, chain, gen, worker, main, jobs, flight, answers, twice, undefined>>

Post(trxs, from) == jobs' = Append(jobs, [trxs |-> trxs, from |-> from])

CreateTestAccounts ==
    /\ setup.plugin = "txn_test_gen"
    /\ Post(<<CreateTransaction({AccountA, AccountB, AccountT}),
              TokenTransaction({AccountA, AccountB})>>, "create")

(* The copy names accounts A and B in local variables that hide its        *)
(* members, whatever the prefix; T is still the member.                    *)
VktA == <<"txn.test.", "a">>
VktB == <<"txn.test.", "b">>
VktCreateTestAccounts ==
    /\ setup.plugin = "vkt_txn_test_gen"
    /\ Post(<<CreateTransaction({VktA, VktB, AccountT}),
              TokenTransaction({VktA, VktB})>>, "create")

(* One call, until it has created the accounts or was answered.  The       *)
(* creator's key may fail to parse, which is answered at once.             *)
Create ==
    /\ main = "free" /\ answers = 0 /\ \A i \in DOMAIN jobs : jobs[i].from # "create"
    /\ chain.accounts = {} /\ \A i \in DOMAIN flight : flight[i].from # "create"
    /\ \/ answers' = 0 /\ (CreateTestAccounts \/ VktCreateTestAccounts)
       \/ answers' = 1 /\ UNCHANGED jobs
    /\ UNCHANGED <<setup, head, chain, gen, worker, main, flight, twice, undefined>>

(* push_next_transaction hands over every transaction of the batch; the    *)
(* answers come later and in any order.                                    *)
PushNextTransaction ==
    /\ main = "free" /\ jobs # <<>>
    /\ flight' = flight \o [i \in 1..Len(Head(jobs).trxs) |->
                                [trx |-> Head(jobs).trxs[i], from |-> Head(jobs).from]]
    /\ jobs' = Tail(jobs)
    /\ UNCHANGED <<setup, head, chain, gen, worker, main, answers, twice, undefined>>

StartGeneration(r) ==
    /\ main = "free" /\ ~generating /\ ticks < MaxTicks
    /\ r.period \in 1..2500 /\ r.batch \in 1..250 /\ r.batch % 2 = 0
    /\ generating' = TRUE /\ batch' = r.batch \div 2 /\ prefix' = 0
    /\ ioc' = [queue |-> <<"arm">>, timer |-> FALSE, stopped |-> FALSE]
    /\ undefined' = (\E w \in GenThreads : worker[w].stage # "idle")
    /\ ticks' = ticks + 1
    /\ UNCHANGED <<setup, head, chain, nonce, worker, main, jobs, flight, answers, twice>>

(* stop_generation cancels the timer, then clears `running' and stops the  *)
(* io_context, then joins the threads: all but the one it runs on, if any. *)
StopBegins == ioc' = [ioc EXCEPT !.timer = FALSE]
StopEnds ==
    /\ generating' = FALSE
    /\ ioc' = [ioc EXCEPT !.stopped = TRUE]
JoinedAtOnce(others) == TRUE
Joined(others) == \A w \in others : worker[w].stage \in {"idle", "leaving"}

CallStop ==
    /\ main = "free" /\ generating
    /\ StopBegins /\ main' = "stopping"
    /\ UNCHANGED <<setup, head, chain, generating, batch, prefix, nonce, worker, jobs,
                   flight, answers, ticks, twice, undefined>>

MainStops ==
    /\ main = "stopping"
    /\ StopEnds /\ main' = "joining"
    /\ undefined' = (\E w \in GenThreads : worker[w].stage = "joining")
    /\ UNCHANGED <<setup, head, chain, batch, prefix, nonce, worker, jobs, flight,
                   answers, ticks, twice>>

MainJoins ==
    /\ main = "joining" /\ Joined(GenThreads)
    /\ main' = "free"
    /\ UNCHANGED <<setup, head, chain, gen, worker, jobs, flight, answers, twice, undefined>>

(* The callback of accept_transaction: a failed account creation answers   *)
(* the call, the first time; a failed transfer stops the generation.       *)
Answer(i) ==
    /\ main = "free" /\ i \in DOMAIN flight
    /\ flight' = SubSeq(flight, 1, i - 1) \o SubSeq(flight, i + 1, Len(flight))
    /\ IF Succeeds(flight[i].trx)
       THEN chain' = Applied(flight[i].trx) /\ UNCHANGED <<answers, ioc, main>>
       ELSE /\ UNCHANGED chain
            /\ answers' = IF flight[i].from = "create" THEN 1 ELSE answers
            /\ IF flight[i].from = "generator" /\ generating
               THEN StopBegins /\ main' = "stopping"
               ELSE UNCHANGED <<ioc, main>>
    /\ UNCHANGED <<setup, head, generating, batch, prefix, nonce, worker, jobs, ticks,
                   twice, undefined>>

-----------------------------------------------------------------------------
(* The threads of the pool.                                                *)

ArmTimer(queue) == [ioc EXCEPT !.queue = Append(queue, "send"), !.timer = TRUE]

TimerFires ==
    /\ ioc.timer /\ ~ioc.stopped /\ ticks < MaxTicks
    /\ ioc' = [ioc EXCEPT !.timer = FALSE, !.queue = Append(@, "tick")]
    /\ ticks' = ticks + 1
    /\ UNCHANGED <<setup, head, chain, generating, batch, prefix, nonce, worker, main, jobs,
                   flight, answers, twice, undefined>>

TakeHandler(w) ==
    /\ worker[w].stage = "idle" /\ ~ioc.stopped /\ ioc.queue # <<>>
    /\ LET handler == Head(ioc.queue)  rest == Tail(ioc.queue) IN
       /\ ioc' = IF handler = "arm" \/ (handler = "tick" /\ generating)
                 THEN ArmTimer(rest) ELSE [ioc EXCEPT !.queue = rest]
       /\ worker' = IF handler = "send"
                    THEN [worker EXCEPT ![w] = [Idle EXCEPT !.stage = "prefix", !.p = prefix]]
                    ELSE worker
    /\ UNCHANGED <<setup, head, chain, generating, batch, prefix, nonce, main, jobs, flight,
                   answers, ticks, twice, undefined>>

(* No block has number 0: a head not past the lag ends the attempt.        *)
ReferenceBlock == IF head <= setup.lag THEN 0 ELSE head - setup.lag

SendBegins(w) ==
    /\ worker[w].stage = "prefix"
    /\ prefix' = worker[w].p + 1
    /\ worker' = [worker EXCEPT ![w].stage = IF ReferenceBlock = 0 THEN "failed" ELSE "read"]
    /\ UNCHANGED <<setup, head, chain, generating, batch, nonce, ioc, main, jobs, flight,
                   answers, ticks, twice, undefined>>

ReadNonce(w) ==
    /\ worker[w].stage = "read"
    /\ worker' = [worker EXCEPT ![w].stage = "sign", ![w].n = nonce]
    /\ UNCHANGED <<setup, head, chain, gen, main, jobs, flight, answers, twice, undefined>>

Transfer(k, p, n) ==
    [kind |-> "transfer",
     from |-> IF k % 2 = 1 THEN AccountA ELSE AccountB,
     to |-> IF k % 2 = 1 THEN AccountB ELSE AccountA,
     nonce |-> <<p, n>>, reference |-> ReferenceBlock, expires |-> head + 30]

Signed == UNION {{worker[w].trxs[i] : i \in DOMAIN worker[w].trxs} : w \in GenThreads}
          \cup UNION {{jobs[j].trxs[i] : i \in DOMAIN jobs[j].trxs} : j \in DOMAIN jobs}
          \cup {flight[i].trx : i \in DOMAIN flight} \cup chain.seen

Sign(w) ==
    /\ worker[w].stage = "sign"
    /\ \E t \in {Transfer(Len(worker[w].trxs) + 1, worker[w].p, worker[w].n)} :
        /\ twice' = (twice \/ t \in Signed)
        /\ worker' = [worker EXCEPT
              ![w].trxs = Append(@, t),
              ![w].stage = IF Len(worker[w].trxs) + 1 = 2 * batch THEN "push" ELSE "read"]
    /\ nonce' = worker[w].n + 1
    /\ UNCHANGED <<setup, head, chain, generating, batch, prefix, ioc, main, jobs, flight,
                   answers, ticks, undefined>>

SendEnds(w) ==
    /\ worker[w].stage \in {"push", "leaving"}
    /\ Post(worker[w].trxs, "generator")
    /\ worker' = [worker EXCEPT ![w] = Idle]
    /\ UNCHANGED <<setup, head, chain, gen, main, flight, answers, twice, undefined>>

(* A failed send stops the generation from the pool's own thread, and      *)
(* still posts what it signed.                                             *)
SendFails(w) ==
    /\ worker[w].stage = "failed"
    /\ IF generating
       THEN StopBegins /\ worker' = [worker EXCEPT ![w].stage = "stopping"]
       ELSE UNCHANGED ioc /\ worker' = [worker EXCEPT ![w].stage = "push"]
    /\ UNCHANGED <<setup, head, chain, generating, batch, prefix, nonce, main, jobs, flight,
                   answers, ticks, twice, undefined>>

WorkerStops(w) ==
    /\ worker[w].stage = "stopping"
    /\ StopEnds
    /\ worker' = [worker EXCEPT ![w].stage = "joining"]
    /\ undefined' = (main = "joining" \/ \E v \in GenThreads : worker[v].stage = "joining")
    /\ UNCHANGED <<setup, head, chain, batch, prefix, nonce, main, jobs, flight, answers,
                   ticks, twice>>

WorkerJoins(w) ==
    /\ worker[w].stage = "joining" /\ Joined(GenThreads \ {w})
    /\ worker' = [worker EXCEPT ![w].stage = "leaving"]
    /\ UNCHANGED <<setup, head, chain, gen, main, jobs, flight, answers, twice, undefined>>

GenNext ==
    /\ ~undefined
    /\ \/ Block \/ Create \/ PushNextTransaction
       \/ \E r \in Requests : StartGeneration(r)
       \/ CallStop \/ MainStops \/ MainJoins
       \/ \E i \in DOMAIN flight : Answer(i)
       \/ TimerFires
       \/ \E w \in GenThreads :
            \/ TakeHandler(w) \/ SendBegins(w) \/ ReadNonce(w) \/ Sign(w) \/ SendEnds(w)
            \/ SendFails(w) \/ WorkerStops(w) \/ WorkerJoins(w)

GenSpec == GenInit /\ [][GenNext]_genVars

-----------------------------------------------------------------------------
(* While no generation runs and no call to stop_generation is under way,   *)
(* no thread of a pool is signing transfers: stop_generation returns only  *)
(* when every thread has left its handler, so nothing is signed after it.  *)
(* And with one thread the nonces keep all the transfers ever signed       *)
(* apart, restarts included, so that none is refused as a duplicate.       *)
GenerationSound ==
    undefined \/
    /\ (~generating /\ main = "free" /\ \A w \in GenThreads : worker[w].stage # "joining")
          => \A w \in GenThreads : worker[w].stage \in {"idle", "leaving"}
    /\ setup.threads = 1 => ~twice

(* The accounts that create_test_accounts made are those the generation    *)
(* uses: once the token is handed out, A and B hold some of it, whatever   *)
(* the prefix.                                                             *)
PrefixUsed == chain.funded # {} => {AccountA, AccountB} \subseteq chain.funded
=============================================================================
