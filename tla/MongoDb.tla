------------------------------- MODULE MongoDb -------------------------------
(***************************************************************************)
(* mongo_db_plugin: the controller's signals are queued on the main        *)
(* thread and written to the database by a consumer thread, which takes    *)
(* all four queues at once and works through them in a fixed order.        *)
(*                                                                         *)
(* The database is a record of collections.  A transaction is a sequence   *)
(* of actions; JSON, BSON and the documents' other fields are left out.    *)
(***************************************************************************)
EXTENDS Integers, Sequences, FiniteSets, SequencesExt

CONSTANTS
    Feeds,        \* what the chain may emit: a set of sequences of signals
    Trx,          \* [transaction -> [actions: sequence of actions, executed, complete: BOOLEAN]]
    Settings,     \* set of records of the plugin's options
    MaxQueue,     \* mongodb-queue-size
    CacheSize,    \* mongodb-abi-cache-size
    Failures      \* bound on database operations that fail

Queues == {"trace", "trx", "block", "irreversible"}
Eosio == "eosio"

VARIABLES
    setting,      \* the node's options
    feed, pos,    \* the signals of the chain, and how many it has emitted
    queued,       \* [Queues -> Seq]: the queues, behind mtx
    taken,        \* [Queues -> Seq]: the *_process_queues
    sizes,        \* something was taken in this round
    start_block_reached,
    done,
    main,         \* main thread: "running", "sleeping", "disconnected", "notified", "joined"
    consumer,     \* consumer thread: "check", "empty", "waiting", "process", "finished"
    db,           \* the collections
    abi_cache,    \* sequence of <<account, abi>>, the least recently accessed first
    failures,     \* operations that have failed
    quit          \* app().quit() was called

mgVars == <<setting, feed, pos, queued, taken, sizes, start_block_reached, done, main, consumer,
            db, abi_cache, failures, quit>>

EmptyQueues == [q \in Queues |-> <<>>]

\* plugin_initialize
Configured == setting \in Settings /\ start_block_reached = (setting.start = 0)

MgInit ==
    /\ Configured
    /\ feed \in Feeds /\ pos = 0
    /\ queued = EmptyQueues /\ taken = EmptyQueues /\ sizes = FALSE
    /\ done = FALSE /\ main = "running" /\ consumer = "check"
    /\ db = [blocks |-> {}, states |-> {}, trans |-> {}, ttraces |-> {}, atraces |-> {},
             abi |-> [a \in {Eosio} |-> "none"], keys |-> {}]
    /\ abi_cache = <<>> /\ failures = 0 /\ quit = FALSE
--------------------------------------------------------------------------------
(* The handlers of the signals, on the main thread *)

\* Traces of a block that is not complete have no producer_block_id.
Wanted(s) ==
    CASE s.queue = "trx"          -> setting.transactions
      [] s.queue = "trace"        -> setting.producer \/ Trx[s.item].complete
      [] s.queue = "block"        -> setting.blocks \/ setting.states
      [] s.queue = "irreversible" -> setting.blocks \/ setting.states \/ setting.transactions

\* The consumer holds mtx from its check of the queues until it waits.
LockFree == consumer # "empty"
Notified(c) == IF c = "waiting" THEN "check" ELSE c

Append1(s) == queued' = [queued EXCEPT ![s.queue] = Append(@, s.item)]

\* A signal; queue() sleeps once, without the lock, when its queue is too long.
Signal ==
    /\ main = "running" /\ pos < Len(feed) /\ LockFree /\ ~quit
    /\ LET s == feed[pos + 1] IN
        /\ start_block_reached' = (start_block_reached \/ (s.queue = "block" /\ s.item.num >= setting.start))
        /\ IF Wanted(s) /\ Len(queued[s.queue]) > MaxQueue
           THEN main' = "sleeping" /\ UNCHANGED <<pos, queued>>
           ELSE /\ pos' = pos + 1
                /\ IF Wanted(s) THEN Append1(s) ELSE UNCHANGED queued
                /\ UNCHANGED main
        /\ consumer' = IF Wanted(s) THEN Notified(consumer) ELSE consumer
    /\ UNCHANGED <<setting, feed, taken, sizes, done, db, abi_cache, failures, quit>>

Wake ==
    /\ main = "sleeping" /\ LockFree
    /\ main' = "running"
    /\ pos' = pos + 1
    /\ Append1(feed[pos + 1])
    /\ consumer' = Notified(consumer)
    /\ UNCHANGED <<setting, feed, taken, sizes, start_block_reached, done, db, abi_cache, failures, quit>>

\* plugin_shutdown disconnects the signals; the destructor sets done, without
\* the lock, notifies and joins.
Disconnect ==
    /\ main = "running" /\ (quit \/ pos = Len(feed))
    /\ main' = "disconnected" /\ done' = TRUE
    /\ UNCHANGED <<setting, feed, pos, queued, taken, sizes, start_block_reached, consumer, db, abi_cache, failures, quit>>

NotifyDone ==
    /\ main = "disconnected"
    /\ main' = "notified"
    /\ consumer' = Notified(consumer)
    /\ UNCHANGED <<setting, feed, pos, queued, taken, sizes, start_block_reached, done, db, abi_cache, failures, quit>>

Join ==
    /\ main = "notified" /\ consumer = "finished"
    /\ main' = "joined"
    /\ UNCHANGED <<setting, feed, pos, queued, taken, sizes, start_block_reached, done, consumer, db, abi_cache, failures, quit>>

--------------------------------------------------------------------------------
(* consume_blocks *)

CheckQueues ==
    /\ consumer = "check" /\ main # "joined"
    /\ IF queued = EmptyQueues /\ ~done
       THEN consumer' = "empty" /\ UNCHANGED <<queued, taken, sizes>>
       ELSE /\ consumer' = "process"
            /\ taken' = queued /\ queued' = EmptyQueues
            /\ sizes' = (queued # EmptyQueues)
    /\ UNCHANGED <<setting, feed, pos, start_block_reached, done, main, db, abi_cache, failures, quit>>

\* condition.wait releases mtx.
Wait ==
    /\ consumer = "empty"
    /\ consumer' = "waiting"
    /\ UNCHANGED <<setting, feed, pos, queued, taken, sizes, start_block_reached, done, main, db, abi_cache, failures, quit>>

RoundEndsEarly(sz, isDone) == IF isDone THEN "finished" ELSE "check"

RoundEnds(sz, isDone) == IF ~sz /\ isDone THEN "finished" ELSE "check"
EndRound ==
    /\ consumer = "process" /\ taken = EmptyQueues
    /\ consumer' = RoundEnds(sizes, done)
    /\ UNCHANGED <<setting, feed, pos, queued, taken, sizes, start_block_reached, done, main, db, abi_cache, failures, quit>>
--------------------------------------------------------------------------------
(* What goes into the database *)

\* filter_entry::match; "" is a blank.
Match(f, a, actor) == /\ f.receiver \in {"", a.receiver}
                      /\ f.action \in {"", a.name}
                      /\ f.actor \in {"", actor}
MatchesAny(filters, a) == \E f \in filters : \E actor \in {""} \cup a.actors : Match(f, a, actor)

FilterInclude(a) == /\ setting.star \/ MatchesAny(setting.on, a)
                    /\ ~MatchesAny(setting.out, a)

\* The actions of a transaction are filtered by the contract, not the receiver.
FilterIncludeTrx(t) ==
    \/ setting.star /\ setting.out = {}
    \/ \E a \in Range(Trx[t].actions) : FilterInclude([a EXCEPT !.receiver = a.account])

\* get_abi_serializer: the cache after a look-up of n, and purge_abi_cache.
Cached(cache, n) == SelectSeq(cache, LAMBDA e : e[1] = n)
Erase(cache, n) == SelectSeq(cache, LAMBDA e : e[1] # n)
LookUp(d, cache, n) ==
    IF Cached(cache, n) # <<>> THEN Erase(cache, n) \o Cached(cache, n)
    ELSE IF n \notin DOMAIN d.abi \/ d.abi[n] = "none" THEN cache
    ELSE Append(IF Len(cache) < CacheSize THEN cache ELSE Tail(cache), <<n, d.abi[n]>>)

WithAccount(abi, n) == IF n \in DOMAIN abi THEN abi ELSE [a \in DOMAIN abi \cup {n} |-> IF a = n THEN "none" ELSE abi[a]]

\* add_pub_keys and add_account_control, remove_pub_keys and remove_account_control
Controls(n, perm, keys) == {n} \X {perm} \X keys
Uncontrolled(keys, n, perm) == {k \in keys : k[1] # n \/ k[2] # perm}

\* update_account: the collections, and the accounts whose cached ABI is dropped.
UpdateAccount(d, a) ==
    CASE a.name = "newaccount" -> [d EXCEPT !.abi = WithAccount(@, a.target),
                                            !.keys = @ \cup Controls(a.target, "owner", a.keys)
                                                       \cup Controls(a.target, "active", a.keys)]
      [] a.name = "updateauth" -> [d EXCEPT !.keys = Uncontrolled(@, a.target, "active")
                                                       \cup Controls(a.target, "active", a.keys)]
      [] a.name = "deleteauth" -> [d EXCEPT !.keys = Uncontrolled(@, a.target, "active")]
      [] a.name = "setabi"     -> [d EXCEPT !.abi = [WithAccount(@, a.target) EXCEPT ![a.target] = a.abi]]
      [] OTHER -> d
InvalidatedNever(a) == ""

Invalidated(a) == IF a.name = "setabi" THEN a.target ELSE ""

--------------------------------------------------------------------------------
(* The consumer's work on one entry; a failed operation ends the node, or,   *)
(* a logic_error, is only logged.                                            *)

\* add_action_trace: the account is updated first, whether or not it is stored.
AddActionTrace(st, t, a, fails) ==
    LET system == Trx[t].executed /\ a.receiver = Eosio /\ a.account = Eosio
        cache == IF system THEN Erase(st.cache, Invalidated(a)) ELSE st.cache
        d == IF system /\ "accounts" \notin fails THEN UpdateAccount(st.db, a) ELSE st.db
        filtered == (setting.atraces \/ setting.ttraces) /\ start_block_reached /\ FilterInclude(a)
        stores == setting.atraces /\ filtered
    IN [db |-> d,
        cache |-> IF stores THEN LookUp(d, cache, a.account) ELSE cache,
        added |-> IF stores THEN st.added \cup {a.name} ELSE st.added,
        write |-> st.write \/ filtered]

RECURSIVE AddActionTraces(_, _, _, _)
AddActionTraces(st, t, actions, fails) ==
    IF actions = <<>> THEN st
    ELSE AddActionTraces(AddActionTrace(st, t, Head(actions), fails), t, Tail(actions), fails)

ProcessTrace(t, fails) ==
    LET st == AddActionTraces([db |-> db, cache |-> abi_cache, added |-> {}, write |-> FALSE], t, Trx[t].actions, fails)
    IN [db |-> [st.db EXCEPT !.ttraces = IF setting.ttraces /\ st.write /\ "ttraces" \notin fails THEN @ \cup {t} ELSE @,
                             !.atraces = IF st.added # {} /\ "atraces" \notin fails THEN @ \cup {<<t, n>> : n \in st.added} ELSE @],
        cache |-> st.cache]

ProcessTrx(t, fails) ==
    [db |-> IF ~start_block_reached \/ ~FilterIncludeTrx(t) \/ "trans" \in fails \/ \E d \in db.trans : d.id = t THEN db
            ELSE [db EXCEPT !.trans = @ \cup {[id |-> t, irreversible |-> "no"]}],
     cache |-> abi_cache]

\* update_one with upsert, by number or by id; a document keeps its other fields.
Upsert(docs, b) ==
    LET old == {d \in docs : IF setting.bynum THEN d.num = b.num ELSE d.id = b.id}
    IN (docs \ old) \cup {[num |-> b.num, id |-> b.id, irreversible |-> \E d \in old : d.irreversible]}

StoreBlock(d, b, fails) ==
    [d EXCEPT !.states = IF setting.states /\ "states" \notin fails THEN Upsert(@, b) ELSE @,
              !.blocks = IF setting.blocks /\ "blocks" \notin fails THEN Upsert(@, b) ELSE @]

ProcessBlock(b, fails) ==
    [db |-> IF start_block_reached THEN StoreBlock(db, b, fails) ELSE db, cache |-> abi_cache]

Find(docs, b) == {d \in docs : d.id = b.id}
Mark(docs, b) == (docs \ Find(docs, b)) \cup {[d EXCEPT !.irreversible = TRUE] : d \in Find(docs, b)}

\* Each collection is searched for the block, which is stored when missing.
MarkBlocks(d, b, fails) ==
    LET stored == IF Find(d.blocks, b) = {} THEN StoreBlock(d, b, fails) ELSE d
    IN IF setting.blocks THEN [stored EXCEPT !.blocks = Mark(@, b)] ELSE d
MarkStates(d, b, fails) ==
    LET stored == IF Find(d.states, b) = {} THEN StoreBlock(d, b, fails) ELSE d
    IN IF setting.states THEN [stored EXCEPT !.states = Mark(@, b)] ELSE d
MarkTrans(d, b, fails) ==
    IF ~setting.transactions \/ "trans" \in fails THEN d
    ELSE [d EXCEPT !.trans = {IF e.id \in b.trxs /\ FilterIncludeTrx(e.id) THEN [e EXCEPT !.irreversible = b.id] ELSE e : e \in @}]

ProcessIrreversible(b, fails) ==
    LET d1 == MarkBlocks(db, b, fails)
        d2 == MarkStates(d1, b, fails)
        gone == \/ setting.blocks /\ Find(d1.blocks, b) = {}
                \/ setting.states /\ Find(d2.states, b) = {}
    IN [db |-> IF ~start_block_reached THEN db
               ELSE IF setting.blocks /\ Find(d1.blocks, b) = {} THEN d1
               ELSE IF gone THEN d2 ELSE MarkTrans(d2, b, fails),
        cache |-> abi_cache]

Operations == [trace |-> {"accounts", "ttraces", "atraces"}, trx |-> {"trans"},
               block |-> {"states", "blocks"}, irreversible |-> {"states", "blocks", "trans"}]

BeforeWrong(q) == CASE q = "irreversible" -> {} [] q = "trace" -> {"irreversible"}
                    [] q = "trx" -> {"trace", "irreversible"} [] q = "block" -> {"trace", "trx", "irreversible"}

\* traces, transactions, blocks, irreversible blocks
Before(q) == CASE q = "trace" -> {} [] q = "trx" -> {"trace"} [] q = "block" -> {"trace", "trx"}
               [] q = "irreversible" -> {"trace", "trx", "block"}
ProcessOne(q) ==
    /\ consumer = "process" /\ taken[q] # <<>>
    /\ \A earlier \in Before(q) : taken[earlier] = <<>>
    /\ \E fails \in SUBSET Operations[q] :
        /\ failures + Cardinality(fails) <= Failures
        /\ failures' = failures + Cardinality(fails)
        /\ \E logged \in BOOLEAN : quit' = (quit \/ (fails # {} /\ ~logged))
        /\ \E r \in {CASE q = "trace" -> ProcessTrace(Head(taken[q]), fails)
                       [] q = "trx" -> ProcessTrx(Head(taken[q]), fails)
                       [] q = "block" -> ProcessBlock(Head(taken[q]), fails)
                       [] q = "irreversible" -> ProcessIrreversible(Head(taken[q]), fails)} :
            db' = r.db /\ abi_cache' = r.cache
    /\ taken' = [taken EXCEPT ![q] = Tail(@)]
    /\ UNCHANGED <<setting, feed, pos, queued, sizes, start_block_reached, done, main, consumer>>

MgNext ==
    \/ Signal \/ Wake \/ Disconnect \/ NotifyDone \/ Join
    \/ CheckQueues \/ Wait \/ EndRound
    \/ \E q \in Queues : ProcessOne(q)

MgSpec == MgInit /\ [][MgNext]_mgVars
MgFairSpec == MgSpec /\ WF_mgVars(MgNext)
--------------------------------------------------------------------------------
Settled == consumer = "finished" \/ (consumer = "waiting" /\ queued = EmptyQueues)
Emitted(q) == {feed[i].item : i \in {j \in 1..pos : feed[j].queue = q}}

(* With a database that works, what the consumer has been given is written:  *)
(* every irreversible block after the start block is stored and marked, and  *)
(* its transactions with it, through forks, full queues and the end of the   *)
(* node; update_one on a transaction that is not there yet would be lost.    *)
IrreversibleStored ==
    Settled /\ failures = 0 =>
        \A b \in Emitted("irreversible") : b.num > setting.start =>
            /\ setting.blocks => [num |-> b.num, id |-> b.id, irreversible |-> TRUE] \in db.blocks
            /\ setting.states => [num |-> b.num, id |-> b.id, irreversible |-> TRUE] \in db.states
            /\ setting.transactions => \A t \in b.trxs :
                FilterIncludeTrx(t) => [id |-> t, irreversible |-> b.id] \in db.trans

(* The serializer cached for an account is that of the ABI in the database,  *)
(* also when a setabi could not be written, and the cache keeps its size.    *)
CacheCoherent ==
    /\ Len(abi_cache) <= CacheSize
    /\ \A i \in 1..Len(abi_cache) : db.abi[abi_cache[i][1]] = abi_cache[i][2]

(* "mongo_db_plugin shutdown in process please be patient this can take a    *)
(* few minutes" (~mongo_db_plugin_impl): the node that asked the consumer to *)
(* end joins it.                                                             *)
ShutdownEnds == (main = "notified") ~> (main = "joined")
===============================================================================
