----------------------------- MODULE Transactions -----------------------------
(***************************************************************************)
(* Where the transactions of one node are: the key recovery threads and    *)
(* the queue of the producer plugin, the pending block of the controller,  *)
(* its unapplied transactions, and the blocks of the chain.                *)
(*                                                                         *)
(* Everything but key recovery runs on the main thread, so start_block and *)
(* push_block, which take several steps here, are not interleaved with     *)
(* anything else: stage says which of them is running, if any.             *)
(***************************************************************************)
EXTENDS TransactionEffects

CONSTANTS
    Arrival,     \* deliveries of input transactions by peers or clients
    TrxOf,       \* [Arrival -> Input]
    Worlds,      \* settings of a node and its contracts: see Init
    MaxTime,     \* bound on block times
    MaxBlocks,   \* bound on the length of the chain, genesis included
    None

ASSUME TrxOfAssumption == TrxOf \in [Arrival -> Input]
ASSUME WorldsAssumption ==
    \A w \in Worlds : /\ w.speculative \in BOOLEAN /\ w.producers \in BOOLEAN
                       /\ w.replace_deferred \in BOOLEAN /\ w.activates \in BOOLEAN
                       /\ w.effects \subseteq Effects /\ w.fork \in Nat

VARIABLES
    world,       \* the settings: never changes
    clock,       \* latest time a block was started with
    chain,       \* blocks [time, receipts, metas, db] up to the head
    pending,     \* controller_impl::pending, or NoPending
    unapplied,   \* controller_impl::unapplied_transactions
    recovering,  \* arrivals whose keys the thread pool is recovering
    incoming,    \* _pending_incoming_transactions
    answers,     \* [Arrival -> Nat]: calls of next
    persistent,  \* ids in _persistent_transactions
    blacklisted, \* ids in _blacklisted_transactions
    producing,   \* _pending_block_mode = producing
    weight,      \* _incoming_trx_weight, for an _incoming_defer_ratio of 1
    stage,       \* what the main thread is in the middle of
    local,       \* the locals of start_block or maybe_switch_forks
    accepted,    \* history: transactions a client was told are applied
    failed       \* history: transactions that failed when executed again

node == <<recovering, incoming, answers, persistent, accepted>>
block == <<clock, chain>>
vars == <<world, clock, chain, pending, unapplied, recovering, incoming, answers, persistent,
          blacklisted, producing, weight, stage, local, accepted, failed>>

HeadBlock == chain[Len(chain)]
Speculative == world.speculative
Idle == stage = "idle"
NoLocal == [todo |-> {}, current |-> None, quota |-> 0, exhausted |-> FALSE, left |-> <<>>, more |-> 0]

Init ==
    /\ world \in Worlds
    /\ clock = 1
    /\ chain = <<[time |-> 1, receipts |-> <<>>, metas |-> {},
                  db |-> [GenesisDb EXCEPT !.replace_deferred = world.replace_deferred]]>>
    /\ pending = NoPending
    /\ unapplied = {} /\ persistent = {} /\ blacklisted = {}
    /\ recovering = {} /\ incoming = <<>> /\ answers = [a \in Arrival |-> 0]
    /\ producing = FALSE /\ weight = 0
    /\ stage = "idle" /\ local = NoLocal
    /\ accepted = {} /\ failed = {}
--------------------------------------------------------------------------------
(* Pushing an input transaction *)

\* controller_impl::abort_block, as the value of unapplied_transactions after it
Aborted ==
    IF Speculative /\ pending # NoPending THEN unapplied \cup pending.metas ELSE unapplied

\* unapplied_transactions after push_transaction has ended with e
Unapplied(t, e) ==
    IF e = "none" \/ ~FailureIsSubjective(e) THEN unapplied \ {t} ELSE unapplied

\* The failure_is_subjective of the producer plugin
WorthRetrying(e, deadline_is_subjective) ==
    e = "block_full" \/ (e = "deadline" /\ deadline_is_subjective)

\* push_transaction on the pending block; a failure that erases a transaction
\* which had been applied before is remembered.
Push(t, r) ==
    /\ pending' = r.pending
    /\ unapplied' = Unapplied(t, r.except)
    /\ failed' = IF r.except = "none" THEN failed ELSE failed \cup (unapplied \ unapplied')

Outcomes(t) == PushTransaction(pending, t, world.effects, Speculative)

\* Mutant: a transaction that did not fit is answered as well as queued.
ProcessAnswersRetries(a, queue) ==
    LET t == TrxOf[a]
    IN  \/ /\ pending = NoPending
           /\ incoming' = Append(queue, a)
           /\ UNCHANGED <<pending, unapplied, answers, persistent, accepted, failed>>
        \/ /\ pending # NoPending
           /\ \E r \in Outcomes(t) :
                 /\ Push(t, r)
                 /\ incoming' = IF WorthRetrying(r.except, producing) THEN Append(queue, a) ELSE queue
                 /\ answers' = [answers EXCEPT ![a] = @ + 1]
                 /\ UNCHANGED <<persistent, accepted>>

\* process_incoming_transaction_async on the arrival a: what is left of the
\* queue is queue, to whose back a goes when no block is being built or when it
\* does not fit; otherwise it is answered.
Process(a, queue) ==
    LET t == TrxOf[a]
    IN  \/ /\ pending = NoPending
           /\ incoming' = Append(queue, a)
           /\ UNCHANGED <<pending, unapplied, answers, persistent, accepted, failed>>
        \/ /\ pending # NoPending
           /\ Expire[t] < pending.time \/ t \in pending.db.recorded
           /\ incoming' = queue
           /\ answers' = [answers EXCEPT ![a] = @ + 1]
           /\ UNCHANGED <<pending, unapplied, persistent, accepted, failed>>
        \/ /\ pending # NoPending
           /\ Expire[t] >= pending.time /\ t \notin pending.db.recorded
           /\ \E r \in Outcomes(t), deadline_is_subjective \in {producing, FALSE} :
                 /\ Push(t, r)
                 /\ IF WorthRetrying(r.except, deadline_is_subjective)
                    THEN /\ incoming' = Append(queue, a)
                         /\ UNCHANGED <<answers, persistent, accepted>>
                    ELSE /\ incoming' = queue
                         /\ answers' = [answers EXCEPT ![a] = @ + 1]
                         /\ IF r.except = "none"
                            THEN /\ persistent' = IF a \in world.persist
                                                  THEN persistent \cup {t} ELSE persistent
                                 /\ accepted' = accepted \cup {t}
                            ELSE UNCHANGED <<persistent, accepted>>

\* on_incoming_transaction_async: the keys are recovered on the thread pool.
OnIncomingTransaction(a) ==
    /\ Idle
    /\ a \in world.arrivals \ recovering /\ answers[a] = 0
    /\ \A i \in DOMAIN incoming : incoming[i] # a
    /\ recovering' = recovering \cup {a}
    /\ UNCHANGED <<world, clock, chain, pending, unapplied, incoming, answers, persistent,
                   blacklisted, producing, weight, stage, local, accepted, failed>>

\* The task posted to the main thread once the keys are recovered
KeysRecovered(a) ==
    /\ Idle
    /\ a \in recovering
    /\ recovering' = recovering \ {a}
    /\ Process(a, incoming)
    /\ UNCHANGED <<world, block, blacklisted, producing, weight, stage, local>>

\* Taking the front of the queue within start_block
ProcessFront ==
    /\ local.quota > 0 /\ incoming # <<>>
    /\ Process(incoming[1], Tail(incoming))
--------------------------------------------------------------------------------
(* producer_plugin_impl::start_block *)

\* Whether the block signals the activation of replace_deferred
MayActivate(b) == world.activates /\ ~b.db.replace_deferred

\* start_block when it does not get as far as a new block, and
\* maybe_produce_block when the block cannot be completed: the pending block is
\* gone.
StartBlockFails ==
    /\ Idle /\ pending # NoPending
    /\ pending' = NoPending
    /\ unapplied' = Aborted
    /\ UNCHANGED <<world, block, node, blacklisted, producing, weight, stage, local, failed>>

\* start_block up to its transactions: abort the pending block, start one on the
\* head, forget the persisted transactions that have expired, and decide whether
\* the unapplied transactions are of any use.
StartPendingBlock(time, produce) ==
    /\ Idle
    /\ time \in {clock, clock + 1} /\ time > HeadBlock.time /\ time <= MaxTime
    /\ Len(chain) < MaxBlocks
    /\ produce => world.producers
    /\ \E activate \in {MayActivate(HeadBlock) /\ produce, FALSE} :
          pending' = StartBlock(HeadBlock.db, time, TRUE, Speculative, activate)
    /\ persistent' = {t \in persistent : Expire[t] > time}
    /\ unapplied' = IF world.producers \/ persistent' # {} THEN Aborted ELSE {}
    /\ producing' = produce
    /\ clock' = time
    /\ stage' = "unapplied"
    /\ local' = [NoLocal EXCEPT !.todo = unapplied', !.quota = Len(incoming)]
    /\ UNCHANGED <<world, chain, recovering, incoming, answers, blacklisted, weight, accepted, failed>>

\* One transaction of the loop over the unapplied transactions
ApplyUnapplied(t) ==
    /\ stage = "unapplied"
    /\ t \in local.todo
    /\ LET expired == Expire[t] < pending.time
           persisted == ~expired /\ t \in persistent
           drop == expired \/ (~persisted /\ ~world.producers)
           visited == [local EXCEPT !.todo = @ \ {t}]
       IN  \/ /\ drop
              /\ unapplied' = unapplied \ {t}
              /\ local' = visited
              /\ UNCHANGED <<pending, failed, stage>>
           \/ /\ ~drop /\ ~persisted /\ ~producing
              /\ local' = visited
              /\ UNCHANGED <<pending, unapplied, failed, stage>>
           \/ /\ ~drop /\ (persisted \/ producing)
              /\ \E r \in Outcomes(t), deadline_is_subjective \in {producing, FALSE} :
                    /\ pending' = r.pending
                    /\ IF WorthRetrying(r.except, deadline_is_subjective)
                       THEN /\ local' = [local EXCEPT !.exhausted = TRUE]
                            /\ stage' = "scheduled"
                            /\ UNCHANGED <<unapplied, failed>>
                       ELSE /\ unapplied' = unapplied \ {t}
                            /\ failed' = IF r.except = "none" THEN failed ELSE failed \cup {t}
                            /\ local' = visited
                            /\ UNCHANGED stage
    /\ UNCHANGED <<world, block, node, blacklisted, producing, weight>>

\* The end of that loop: all visited, or the deadline has passed.  What is
\* blacklisted expires by the wall clock, so it may be forgotten here.
UnappliedDone ==
    /\ stage = "unapplied"
    /\ local' = [local EXCEPT !.todo = {}, !.exhausted = @ \/ local.todo # {}]
    /\ stage' = "scheduled"
    /\ blacklisted' \in IF producing THEN {blacklisted, {}} ELSE {blacklisted}
    /\ UNCHANGED <<world, block, node, pending, unapplied, producing, weight, failed>>

\* The scheduled transactions that the loop over the by_delay index stops at
Ready ==
    {g \in pending.db.generated : /\ g.delay_until <= pending.time
                                  /\ g.published < pending.time
                                  /\ g.id \notin blacklisted}

Earliest(gs) == {g \in gs : \A h \in gs : g.delay_until <= h.delay_until}

\* The loop picks the next scheduled transaction.
PickScheduled ==
    /\ stage = "scheduled" /\ producing /\ local.current = None
    /\ \E g \in Earliest(Ready) : local' = [local EXCEPT !.current = g.id]
    /\ UNCHANGED <<world, block, node, pending, unapplied, blacklisted, producing, weight, stage, failed>>

\* Before it is pushed, incoming transactions get their share of the block.
InterleaveIncoming ==
    /\ stage = "scheduled" /\ local.current # None
    /\ weight >= 1
    /\ ProcessFront
    /\ local' = [local EXCEPT !.quota = @ - 1]
    /\ weight' = weight - 1
    /\ UNCHANGED <<world, block, recovering, blacklisted, producing, stage>>

\* push_scheduled_transaction(trx_id): it may be gone, cancelled by an incoming
\* transaction.  One that fails for this node only is blacklisted.
PushScheduled ==
    /\ stage = "scheduled" /\ local.current # None
    /\ ~(weight >= 1 /\ local.quota > 0 /\ incoming # <<>>)
    /\ weight' = IF local.quota = 0 THEN 0 ELSE weight + 1
    /\ LET found == {g \in pending.db.generated : g.id = local.current}
       IN  \/ /\ found = {}
              /\ local' = [local EXCEPT !.current = None]
              /\ UNCHANGED <<pending, blacklisted>>
           \/ \E g \in found, deadline_is_subjective \in BOOLEAN :
                 \E r \in PushScheduledTransaction(pending, g, world.effects) :
                    /\ ~WorthRetrying(r.except, deadline_is_subjective)
                    /\ pending' = r.pending
                    /\ local' = [local EXCEPT !.current = None]
                    /\ blacklisted' = IF r.except = "none" THEN blacklisted
                                      ELSE blacklisted \cup {g.id}
    /\ UNCHANGED <<world, block, node, unapplied, producing, stage, failed>>

\* The loop ends: nothing is ready, a transaction did not fit, or it is late.
ScheduledDone ==
    /\ stage = "scheduled"
    /\ \E late \in BOOLEAN :
          /\ late => producing /\ (local.current # None \/ Ready # {})
          /\ ~late => local.current = None /\ (~producing \/ Ready = {})
          /\ local' = [local EXCEPT !.current = None, !.exhausted = @ \/ late]
    /\ stage' = "incoming"
    /\ UNCHANGED <<world, block, node, pending, unapplied, blacklisted, producing, weight, failed>>

\* One turn of the loop over the queue; the weight is reset before it.
ApplyIncoming ==
    /\ stage = "incoming" /\ ~local.exhausted
    /\ ProcessFront
    /\ local' = [local EXCEPT !.quota = @ - 1]
    /\ weight' = 0
    /\ UNCHANGED <<world, block, recovering, blacklisted, producing, stage>>

\* start_block returns: exhausted, or succeeded.
StartBlockReturns ==
    /\ stage = "incoming"
    /\ weight' \in IF local.exhausted THEN {weight} ELSE {0, weight}
    /\ stage' = "idle"
    /\ local' = NoLocal
    /\ UNCHANGED <<world, block, node, pending, unapplied, blacklisted, producing, failed>>
--------------------------------------------------------------------------------
(* Blocks *)

\* maybe_produce_block: finalize, sign and commit the pending block.
ProduceBlock ==
    /\ Idle /\ pending # NoPending /\ producing
    /\ chain' = Append(chain, Committed(pending))
    /\ pending' = NoPending
    /\ UNCHANGED <<world, clock, unapplied, node, blacklisted, producing, weight, stage, local, failed>>

\* Mutant: the transactions of the blocks of the fork that is left are lost.
PopDrops(n) ==
    /\ chain' = SubSeq(chain, 1, Len(chain) - n)
    /\ unapplied' = Aborted

\* pop_block, n times, after abort_block
PopBlocks(n) ==
    /\ chain' = SubSeq(chain, 1, Len(chain) - n)
    /\ unapplied' = IF Speculative
                    THEN Aborted \cup MetasOf(SubSeq(chain, Len(chain) - n + 1, Len(chain)))
                    ELSE Aborted

\* on_incoming_block and maybe_switch_forks: the pending block is aborted, n
\* blocks are popped and n + 1 blocks of the other fork are to be applied.
OnIncomingBlock(n) ==
    /\ Idle
    /\ n < Len(chain) /\ Len(chain) < MaxBlocks
    /\ PopBlocks(n)
    /\ pending' = NoPending
    /\ local' = [NoLocal EXCEPT !.left = SubSeq(chain, Len(chain) - n + 1, Len(chain)),
                                !.more = n + 1]
    /\ stage' = "applying"
    /\ UNCHANGED <<world, clock, node, blacklisted, producing, weight, failed>>

\* apply_block: its start_block
BeginApply(time) ==
    /\ stage = "applying" /\ pending = NoPending
    /\ time > HeadBlock.time /\ time <= clock + 1 /\ time <= MaxTime
    /\ \E activate \in {MayActivate(HeadBlock), FALSE} :
          pending' = StartBlock(HeadBlock.db, time, FALSE, Speculative, activate)
    /\ UNCHANGED <<world, block, unapplied, node, blacklisted, producing, weight, stage, local, failed>>

\* apply_block: a receipt of an input transaction
ApplyInput(t) ==
    /\ stage = "applying" /\ pending # NoPending
    /\ \E r \in Outcomes(t) : r.except = "none" /\ Push(t, r)
    /\ UNCHANGED <<world, block, node, blacklisted, producing, weight, stage, local>>

\* apply_block: a receipt of a scheduled transaction; only hard_fail may come
\* with an exception, and it adds a receipt like the others.
ApplyScheduled ==
    /\ stage = "applying" /\ pending # NoPending
    /\ \E g \in pending.db.generated :
          /\ g.delay_until <= pending.time
          /\ \E r \in PushScheduledTransaction(pending, g, world.effects) :
                /\ Len(r.pending.receipts) = Len(pending.receipts) + 1
                /\ pending' = r.pending
    /\ UNCHANGED <<world, block, unapplied, node, blacklisted, producing, weight, stage, local, failed>>

\* apply_block: the block is as the producer says, and is committed.
ApplyDone ==
    /\ stage = "applying" /\ pending # NoPending
    /\ chain' = Append(chain, Committed(pending))
    /\ pending' = NoPending
    /\ IF local.more > 1
       THEN local' = [local EXCEPT !.more = @ - 1] /\ UNCHANGED stage
       ELSE local' = NoLocal /\ stage' = "idle"
    /\ UNCHANGED <<world, clock, unapplied, node, blacklisted, producing, weight, failed>>

\* apply_block throws, at a transaction that fails where its receipt says it
\* does not or elsewhere: abort_block, then maybe_switch_forks pops what it has
\* applied and applies the blocks it had left.
ApplyThrows ==
    /\ stage = "applying" /\ pending # NoPending
    /\ LET applied == Len(local.left) + 1 - local.more
           base == SubSeq(chain, 1, Len(chain) - applied)
           new == SubSeq(chain, Len(chain) - applied + 1, Len(chain))
       IN  \E culprit \in SUBSET (unapplied \ pending.metas) :
              /\ Cardinality(culprit) <= 1
              /\ failed' = failed \cup culprit
              /\ chain' = base \o local.left
              /\ unapplied' = IF Speculative
                              THEN ((unapplied \ culprit) \cup pending.metas \cup MetasOf(new))
                                      \ MetasOf(local.left)
                              ELSE unapplied
    /\ pending' = NoPending
    /\ stage' = "idle"
    /\ local' = NoLocal
    /\ UNCHANGED <<world, clock, node, blacklisted, producing, weight>>

Next ==
    \/ \E a \in Arrival : OnIncomingTransaction(a) \/ KeysRecovered(a)
    \/ \E time \in 1..MaxTime : \/ \E produce \in BOOLEAN : StartPendingBlock(time, produce)
                                \/ BeginApply(time)
    \/ \E t \in Input : ApplyUnapplied(t) \/ ApplyInput(t)
    \/ StartBlockFails \/ UnappliedDone
    \/ PickScheduled \/ InterleaveIncoming \/ PushScheduled \/ ScheduledDone
    \/ ApplyIncoming \/ StartBlockReturns
    \/ ProduceBlock
    \/ \E n \in 0..world.fork : OnIncomingBlock(n)
    \/ ApplyScheduled \/ ApplyDone \/ ApplyThrows

Spec == Init /\ [][Next]_vars
--------------------------------------------------------------------------------
(* Properties *)

\* The receipts of the block at height i, the pending block coming last
ReceiptsAt(i) == IF i <= Len(chain) THEN chain[i].receipts ELSE pending.receipts

\* Along any one chain an input transaction is applied once, and a scheduled
\* transaction is retired once, whatever the order of blocks, forks, retries and
\* deliveries: the deduplication list is cleared no earlier than validate_expiration
\* stops admitting, and a generated transaction goes with its receipt.
OncePerChain ==
    \A i, j \in 1..Len(chain) + 1 :
        \A k \in DOMAIN ReceiptsAt(i), l \in DOMAIN ReceiptsAt(j) :
            SameTransaction(ReceiptsAt(i)[k], ReceiptsAt(j)[l]) => i = j /\ k = l

\* Each delivery of a transaction that the node has received is in exactly one
\* place: its keys are being recovered, it is in the queue once, or its
\* callback has been called, once (process_incoming_transaction_async).
AnsweredOnce ==
    \A a \in Arrival :
        LET queued == Cardinality({i \in DOMAIN incoming : incoming[i] = a})
        IN  (IF a \in recovering THEN 1 ELSE 0) + queued + answers[a] <= 1

\* A node that may produce keeps every transaction it has accepted, unexpired,
\* in its chain, in the pending block or among the unapplied transactions, and
\* in one of them only, until it fails on another attempt: through aborted
\* blocks, forks that are left, and forks that turn out to be invalid.
AcceptedKept ==
    LET applied == MetasOf(chain) \cup pending.metas
    IN  /\ unapplied \cap applied = {}
        /\ Speculative /\ world.producers =>
              \A t \in accepted \ failed : clock <= Expire[t] => t \in applied \cup unapplied

\* The databases of the chain and of the pending block
Databases ==
    {chain[i].db : i \in DOMAIN chain} \cup {pending.db}

\* The RAM an account is billed for generated transactions is that of the ones
\* there are, and what replacements have left to be corrected: so the activation
\* of replace_deferred never has to give back more than an account is using.
RamMatches ==
    \A db \in Databases, a \in Payer :
        db.ram[a] = Cardinality({g \in db.generated : g.payer = a}) + db.correction[a]
=============================================================================
