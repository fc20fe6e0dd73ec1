--------------------------- MODULE TransactionsProofs ---------------------------
(***************************************************************************)
(* Transactions are answered once, applied and retired once along a chain, *)
(* kept until they fail or expire, and their RAM is accounted for: for     *)
(* every set of transactions, deliveries and contracts.                    *)
(***************************************************************************)
EXTENDS Transactions, TransactionChains

-----------------------------------------------------------------------------
(* The invariant *)

\* What is left while another fork is applied, and the locals of the handlers
ForkOK == stage = "applying" => CanGoBack(chain, local.left, local.more)

LocalOK(l) == IsRecord(l, {"todo", "current", "quota", "exhausted", "left", "more"})

\* The chain and the block on it
ChainInv ==
    /\ world \in Worlds /\ clock \in Nat
    /\ LocalOK(local)
    /\ ChainOK(chain)
    /\ PendingOK(chain, pending)
    /\ stage \in {"unapplied", "scheduled", "incoming"} => pending # NoPending
    /\ stage = "unapplied" => pending.time = clock
    /\ ForkOK

\* A transaction is in one place.  Where the node may produce, one that it has
\* accepted is lost only if it fails, or expires.
KeptInv ==
    /\ unapplied \subseteq Input /\ accepted \subseteq Input
    /\ ~Speculative => unapplied = {}
    /\ AcceptedKept

\* A delivery is in one place.
QueueOK(rec, queue, ans) ==
    /\ rec \subseteq Arrival /\ queue \in Seq(Arrival) /\ ans \in [Arrival -> {0, 1}]
    /\ \A i, j \in 1..Len(queue) : queue[i] = queue[j] => i = j
    /\ \A i \in 1..Len(queue) : queue[i] \notin rec /\ ans[queue[i]] = 0
    /\ \A a \in rec : ans[a] = 0
QueueInv == QueueOK(recovering, incoming, answers)

AllInv == ChainInv /\ KeptInv /\ QueueInv

-----------------------------------------------------------------------------
(* The steps *)

\* A pending block is not NoPending.
LEMMA IsBlock ==
    ASSUME NEW c, NEW p, NextOK(c, p)
    PROVE  p # NoPending
BY DEF NextOK, BlockOK, NoPending

\* push_transaction on the pending block of a chain
LEMMA OutcomeOK ==
    ASSUME NEW c, ChainOK(c), NEW p, PendingOK(c, p), p # NoPending, NEW t \in Input,
           NEW effects \in SUBSET Effects, NEW speculative \in BOOLEAN,
           NEW r \in PushTransaction(p, t, effects, speculative)
    PROVE  \/ r.pending = p /\ (r.except = "none" => ~speculative)
           \/ /\ r.except = "none" /\ t \notin MetasOf(c)
              /\ PendingOK(c, r.pending) /\ r.pending # NoPending
              /\ r.pending.time = p.time /\ r.pending.metas = p.metas \cup {t}
<1>. DEFINE I == InputsTo(c, Len(c))
            R == RetiredTo(c, Len(c))
<1>1. IsPending(p) /\ BlockOK(p, I, R) /\ \A i \in 1..Len(c) : c[i].time < p.time
  BY DEF PendingOK, NextOK
<1>2. I \subseteq Input /\ MetasOf(c) = I
  BY ChainFacts
<1>. HIDE DEF I, R
<1>3. \/ r.pending = p /\ (r.except = "none" => p.incomplete /\ ~speculative)
      \/ /\ r.except = "none" /\ t \notin I \cup p.metas
         /\ IsPending(r.pending) /\ BlockOK(r.pending, I, R)
         /\ r.pending.time = p.time /\ r.pending.incomplete = p.incomplete
         /\ r.pending.metas = p.metas \cup {t}
  BY <1>1, <1>2, PushOK
<1>4. ASSUME NEW q, IsPending(q), BlockOK(q, I, R), q.time = p.time
      PROVE  PendingOK(c, q) /\ q # NoPending
  <2>1. NextOK(c, q)
    BY <1>1, <1>4 DEF NextOK, I, R
  <2>. QED BY <1>4, <2>1, IsBlock DEF PendingOK
<1>. QED BY <1>2, <1>3, <1>4

\* push_scheduled_transaction on the pending block of a chain
LEMMA ScheduledOutcomeOK ==
    ASSUME NEW c, ChainOK(c), NEW p, PendingOK(c, p), p # NoPending,
           NEW g \in p.db.generated, NEW effects \in SUBSET Effects,
           NEW r \in PushScheduledTransaction(p, g, effects)
    PROVE  /\ PendingOK(c, r.pending) /\ r.pending # NoPending
           /\ r.pending.time = p.time /\ r.pending.metas = p.metas
<1>. DEFINE I == InputsTo(c, Len(c))
            R == RetiredTo(c, Len(c))
<1>1. IsPending(p) /\ BlockOK(p, I, R) /\ \A i \in 1..Len(c) : c[i].time < p.time
  BY DEF PendingOK, NextOK
<1>2. I \subseteq Input
  BY ChainFacts
<1>. HIDE DEF I, R
<1>3. \/ r.pending = p
      \/ /\ IsPending(r.pending) /\ BlockOK(r.pending, I, R)
         /\ r.pending.time = p.time /\ r.pending.incomplete = p.incomplete
         /\ r.pending.metas = p.metas
  BY <1>1, <1>2, PushScheduledOK
<1>4. ASSUME NEW q, IsPending(q), BlockOK(q, I, R), q.time = p.time
      PROVE  PendingOK(c, q) /\ q # NoPending
  <2>1. NextOK(c, q)
    BY <1>1, <1>4 DEF NextOK, I, R
  <2>. QED BY <1>4, <2>1, IsBlock DEF PendingOK
<1>. QED BY <1>3, <1>4

\* The transactions of the pending block are in no block of the chain.
LEMMA PendingMetas ==
    ASSUME NEW c, ChainOK(c), NEW p, PendingOK(c, p)
    PROVE  p.metas \subseteq Input /\ p.metas \cap MetasOf(c) = {}
<1>1. MetasOf(c) = InputsTo(c, Len(c))
  BY ChainFacts
<1>2. CASE p = NoPending
  BY <1>2 DEF NoPending
<1>3. CASE NextOK(c, p)
  BY <1>1, <1>3 DEF NextOK, BlockOK
<1>. QED BY <1>2, <1>3 DEF PendingOK


\* A step that leaves the chain alone
LEMMA SameChain ==
    ASSUME ChainInv, chain' = chain, world' = world, clock' \in Nat, LocalOK(local'),
           PendingOK(chain, pending'),
           pending' # NoPending \/ stage' \in {"idle", "applying"},
           stage' = "unapplied" => pending'.time = clock',
           stage' # "applying" \/ (stage' = stage /\ local' = local)
    PROVE  ChainInv'
<1>1. ForkOK'
  BY DEF ChainInv, ForkOK
<1>. QED BY <1>1 DEF ChainInv

\* Steps that do not move transactions keep KeptInv.
LEMMA SameKept ==
    ASSUME KeptInv, chain' = chain, pending'.metas = pending.metas,
           UNCHANGED <<world, clock, unapplied, accepted, failed>>
    PROVE  KeptInv'
BY DEF KeptInv, AcceptedKept, Speculative

\* Steps that leave the deliveries where they are keep QueueInv.
LEMMA SameQueue ==
    ASSUME QueueInv, UNCHANGED <<recovering, incoming, answers>>
    PROVE  QueueInv'
BY DEF QueueInv

\* A delivery that is nowhere else goes to the back of the queue, or is answered.
LEMMA QueueMoves ==
    ASSUME NEW rec, NEW queue, NEW ans, QueueOK(rec, queue, ans),
           NEW a \in Arrival, a \notin rec, ans[a] = 0, \A i \in 1..Len(queue) : queue[i] # a
    PROVE  /\ QueueOK(rec, Append(queue, a), ans)
           /\ QueueOK(rec, queue, [ans EXCEPT ![a] = @ + 1])
<1>1. queue \in Seq(Arrival) /\ Len(queue) \in Nat
  BY DEF QueueOK
<1>2. /\ Append(queue, a) \in Seq(Arrival) /\ Len(Append(queue, a)) = Len(queue) + 1
      /\ \A i \in 1..(Len(queue) + 1) :
            \/ i \in 1..Len(queue) /\ Append(queue, a)[i] = queue[i]
            \/ i = Len(queue) + 1 /\ Append(queue, a)[i] = a
  BY <1>1
<1>3. QueueOK(rec, Append(queue, a), ans)
  BY <1>2 DEF QueueOK
<1>. DEFINE more == [ans EXCEPT ![a] = @ + 1]
<1>4. more \in [Arrival -> {0, 1}] /\ \A b \in Arrival : b # a => more[b] = ans[b]
  BY DEF QueueOK
<1>. HIDE DEF more
<1>5. \A i \in 1..Len(queue) : queue[i] \in Arrival
  BY <1>1
<1>6. QueueOK(rec, queue, more)
  BY <1>4, <1>5 DEF QueueOK
<1>. QED BY <1>3, <1>6 DEF more

\* push_transaction, as this node calls it
LEMMA OutcomeNow ==
    ASSUME AllInv, pending # NoPending, NEW t \in Input, NEW r \in Outcomes(t)
    PROVE  \/ r.pending = pending /\ (r.except = "none" => ~Speculative)
           \/ /\ r.except = "none" /\ t \notin MetasOf(chain)
              /\ PendingOK(chain, r.pending) /\ r.pending # NoPending
              /\ r.pending.time = pending.time /\ r.pending.metas = pending.metas \cup {t}
<1>1. /\ ChainOK(chain) /\ PendingOK(chain, pending) /\ world \in Worlds
      /\ world.effects \in SUBSET Effects /\ Speculative \in BOOLEAN
  BY WorldsAssumption DEF AllInv, ChainInv, Speculative
<1>2. r \in PushTransaction(pending, t, world.effects, Speculative)
  BY DEF Outcomes
<1>3. ASSUME NEW effects \in SUBSET Effects, NEW s \in BOOLEAN,
             r \in PushTransaction(pending, t, effects, s)
      PROVE  \/ r.pending = pending /\ (r.except = "none" => ~s)
             \/ /\ r.except = "none" /\ t \notin MetasOf(chain)
                /\ PendingOK(chain, r.pending) /\ r.pending # NoPending
                /\ r.pending.time = pending.time /\ r.pending.metas = pending.metas \cup {t}
  BY <1>1, <1>3, OutcomeOK
<1>. QED BY <1>1, <1>2, <1>3, ZenonT(30)

\* push_scheduled_transaction, as this node calls it
LEMMA ScheduledNow ==
    ASSUME AllInv, pending # NoPending, NEW g \in pending.db.generated,
           NEW r \in PushScheduledTransaction(pending, g, world.effects)
    PROVE  /\ PendingOK(chain, r.pending) /\ r.pending # NoPending
           /\ r.pending.time = pending.time /\ r.pending.metas = pending.metas
<1>1. /\ ChainOK(chain) /\ PendingOK(chain, pending)
      /\ world.effects \in SUBSET Effects
  BY WorldsAssumption DEF AllInv, ChainInv
<1>. QED BY <1>1, ScheduledOutcomeOK

\* push_transaction, and telling a client: an accepted transaction is in the block.
LEMMA PushStep ==
    ASSUME AllInv, pending # NoPending, NEW t \in Input, NEW r \in Outcomes(t), Push(t, r),
           UNCHANGED <<chain, world, clock>>,
           accepted' = accepted \/ (r.except = "none" /\ accepted' = accepted \cup {t})
    PROVE  /\ PendingOK(chain, pending') /\ pending' # NoPending /\ pending'.time = pending.time
           /\ KeptInv'
<1>1. ChainOK(chain) /\ PendingOK(chain, pending)
  BY DEF AllInv, ChainInv
<1>2. \/ r.pending = pending /\ (r.except = "none" => ~Speculative)
      \/ /\ r.except = "none" /\ t \notin MetasOf(chain)
         /\ PendingOK(chain, r.pending) /\ r.pending # NoPending
         /\ r.pending.time = pending.time /\ r.pending.metas = pending.metas \cup {t}
  BY OutcomeNow
<1>3. /\ pending' = r.pending
      /\ unapplied' = unapplied \/ unapplied' = unapplied \ {t}
      /\ r.except = "none" => unapplied' = unapplied \ {t} /\ failed' = failed
      /\ r.except # "none" => failed' = failed \cup (unapplied \ unapplied')
  BY DEF Push, Unapplied
<1>4. PendingOK(chain, pending') /\ pending' # NoPending /\ pending'.time = pending.time
  BY <1>1, <1>2, <1>3
<1>5. /\ unapplied' \subseteq unapplied /\ unapplied \subseteq Input /\ accepted \subseteq Input
      /\ ~Speculative => unapplied = {}
      /\ AcceptedKept
  BY <1>3 DEF AllInv, KeptInv
<1>6. AcceptedKept'
  <2>1. CASE r.pending = pending /\ (r.except = "none" => ~Speculative)
    BY <1>3, <1>5, <2>1 DEF AcceptedKept, Speculative
  <2>2. CASE r.except = "none" /\ r.pending.metas = pending.metas \cup {t} /\ t \notin MetasOf(chain)
    BY <1>3, <1>5, <2>2 DEF AcceptedKept, Speculative
  <2>. QED BY <1>2, <2>1, <2>2
<1>7. KeptInv'
  BY <1>5, <1>6 DEF KeptInv, Speculative
<1>. QED BY <1>4, <1>7

\* process_incoming_transaction_async
LEMMA ProcessStep ==
    ASSUME AllInv, NEW a \in Arrival, NEW queue, Process(a, queue), UNCHANGED <<chain, world, clock>>,
           QueueOK(recovering', queue, answers), a \notin recovering', answers[a] = 0,
           \A i \in 1..Len(queue) : queue[i] # a
    PROVE  /\ PendingOK(chain, pending') /\ (pending = NoPending <=> pending' = NoPending)
           /\ KeptInv' /\ QueueInv'
<1>. DEFINE t == TrxOf[a]
<1>1. t \in Input
  BY TrxOfAssumption
<1>2. QueueOK(recovering', Append(queue, a), answers)
  BY QueueMoves, ZenonT(30)
<1>3. QueueOK(recovering', queue, [answers EXCEPT ![a] = @ + 1])
  BY QueueMoves
<1>4. PendingOK(chain, pending) /\ KeptInv
  BY DEF AllInv, ChainInv
<1>5. QueueInv'
  <2>1. \/ incoming' = Append(queue, a) /\ answers' = answers
        \/ incoming' = queue /\ answers' = [answers EXCEPT ![a] = @ + 1]
    BY ZenonT(30) DEF Process
  <2>. QED BY <1>2, <1>3, <2>1, ZenonT(30) DEF QueueInv
<1>6. CASE UNCHANGED <<pending, unapplied, accepted, failed>>
  BY <1>4, <1>5, <1>6, SameKept
<1>7. CASE /\ pending # NoPending
           /\ \E r \in Outcomes(t) :
                 /\ Push(t, r)
                 /\ accepted' = accepted \/ (r.except = "none" /\ accepted' = accepted \cup {t})
  <2>1. PICK r \in Outcomes(t) :
            /\ Push(t, r)
            /\ accepted' = accepted \/ (r.except = "none" /\ accepted' = accepted \cup {t})
    BY <1>7
  <2>2. PendingOK(chain, pending') /\ pending' # NoPending /\ KeptInv'
    BY <1>1, <1>7, <2>1, PushStep
  <2>. QED BY <1>5, <1>7, <2>2
<1>. QED BY <1>6, <1>7, ZenonT(30) DEF Process


-----------------------------------------------------------------------------

\* A node starts with the genesis block and no transactions.
LEMMA InitOK ==
    ASSUME FiniteFacts, Init
    PROVE  AllInv
<1>. DEFINE db == [GenesisDb EXCEPT !.replace_deferred = world.replace_deferred]
            b == chain[1]
<1>1. /\ IsSequence(chain) /\ Len(chain) = 1
      /\ b = [time |-> 1, receipts |-> <<>>, metas |-> {}, db |-> db]
  <2>1. chain \in Seq({b}) /\ Len(chain) = 1
        /\ b = [time |-> 1, receipts |-> <<>>, metas |-> {}, db |-> db]
    BY DEF Init
  <2>. QED BY <2>1, Sequenced
<1>2. DbOK(db) /\ db.generated = {}
  <2>1. /\ IsRecord(db, {"recorded", "generated", "ram", "correction", "replace_deferred"})
        /\ db.recorded = {} /\ db.generated = {}
        /\ db.ram = [a \in Payer |-> 0] /\ db.correction = [a \in Payer |-> 0]
    BY DEF GenesisDb, IsRecord
  <2>. HIDE DEF db
  <2>2. IsFiniteSet({}) /\ Cardinality({}) = 0
    BY DEF FiniteFacts
  <2>3. \A a \in Payer : PaidBy(db.generated, a) = {}
    BY <2>1 DEF PaidBy
  <2>. QED BY <2>1, <2>2, <2>3 DEF DbOK
<1>. HIDE DEF db
<1>3. RetiredIn(<<>>) = {} /\ InputsIn(<<>>) = {} /\ ReceiptsOK(<<>>)
  BY DEF RetiredIn, InputsIn, ReceiptsOK
<1>4. BlockOK(b, {}, {})
  BY <1>1, <1>2, <1>3 DEF BlockOK, OriginsOK
<1>5. InputsTo(chain, 0) = {} /\ RetiredTo(chain, 0) = {}
  BY DEF InputsTo, RetiredTo
<1>6. ChainOK(chain)
  <2>1. \A j \in 1..Len(chain) : j = 1 /\ j - 1 = 0
    BY <1>1
  <2>2. \A j \in 1..Len(chain) : BlockOK(chain[j], InputsTo(chain, j - 1), RetiredTo(chain, j - 1))
    BY <1>4, <1>5, <2>1, ZenonT(30)
  <2>. QED BY <1>1, <2>1, <2>2 DEF ChainOK
<1>7. LocalOK(local)
  BY ZenonT(30) DEF Init, NoLocal, LocalOK, IsRecord
<1>8. ChainInv
  BY <1>6, <1>7 DEF Init, ChainInv, PendingOK, ForkOK
<1>9. KeptInv
  BY DEF Init, KeptInv, AcceptedKept
<1>10. QueueInv
  BY DEF Init, QueueInv, QueueOK
<1>. QED BY <1>8, <1>9, <1>10 DEF AllInv

\* on_incoming_transaction_async, and the task posted once the keys are recovered
LEMMA ReceiveSteps ==
    ASSUME AllInv, NEW a \in Arrival, OnIncomingTransaction(a) \/ KeysRecovered(a)
    PROVE  AllInv'
<1>. USE DEF AllInv
<1>1. CASE OnIncomingTransaction(a)
  <2>1. ChainInv'
    BY <1>1, SameChain DEF OnIncomingTransaction, ChainInv, Idle
  <2>2. KeptInv'
    BY <1>1, SameKept DEF OnIncomingTransaction
  <2>3. QueueInv'
    <3>1. /\ a \notin recovering /\ answers[a] = 0 /\ recovering' = recovering \cup {a}
          /\ incoming' = incoming /\ answers' = answers
          /\ \A i \in DOMAIN incoming : incoming[i] # a
      BY <1>1 DEF OnIncomingTransaction
    <3>2. DOMAIN incoming = 1..Len(incoming)
      BY DEF QueueInv, QueueOK
    <3>. QED BY <3>1, <3>2 DEF QueueInv, QueueOK
  <2>. QED BY <2>1, <2>2, <2>3
<1>2. CASE KeysRecovered(a)
  <2>1. /\ Idle /\ a \in recovering /\ recovering' = recovering \ {a} /\ Process(a, incoming)
        /\ UNCHANGED <<world, clock, chain, stage, local>>
    BY <1>2 DEF KeysRecovered, block
  <2>2. /\ QueueOK(recovering', incoming, answers) /\ answers[a] = 0
        /\ \A i \in 1..Len(incoming) : incoming[i] # a
    BY <2>1 DEF QueueInv, QueueOK
  <2>3. /\ PendingOK(chain, pending') /\ KeptInv' /\ QueueInv'
    BY <2>1, <2>2, ProcessStep, ZenonT(30)
  <2>4. ChainInv'
    BY <2>1, <2>3, SameChain DEF ChainInv, Idle
  <2>. QED BY <2>3, <2>4
<1>. QED BY <1>1, <1>2

\* A turn of start_block on the front of the queue
LEMMA FrontStep ==
    ASSUME AllInv, ProcessFront, UNCHANGED <<world, clock, chain, recovering>>
    PROVE  /\ PendingOK(chain, pending') /\ (pending = NoPending <=> pending' = NoPending)
           /\ KeptInv' /\ QueueInv'
<1>. DEFINE a == incoming[1]
            queue == Tail(incoming)
<1>1. incoming \in Seq(Arrival) /\ incoming # <<>>
  BY DEF AllInv, QueueInv, QueueOK, ProcessFront
<1>2. /\ Len(incoming) \in Nat \ {0} /\ a \in Arrival
      /\ queue \in Seq(Arrival) /\ Len(queue) = Len(incoming) - 1
      /\ \A i \in 1..Len(queue) : i + 1 \in 1..Len(incoming) /\ queue[i] = incoming[i + 1]
  BY <1>1
<1>3. 1 \in 1..Len(incoming)
  BY <1>2
<1>. HIDE DEF queue
<1>4. \A i \in 1..Len(queue) : queue[i] # a
  BY <1>2, <1>3 DEF AllInv, QueueInv, QueueOK
<1>5. /\ QueueOK(recovering', queue, answers) /\ a \notin recovering' /\ answers[a] = 0
  <2>1. QueueOK(recovering, incoming, answers)
    BY ZenonT(30) DEF AllInv, QueueInv
  <2>2. \A i, j \in 1..Len(queue) : queue[i] = queue[j] => i = j
    <3>1. \A i, j \in 1..Len(incoming) : incoming[i] = incoming[j] => i = j
      BY <2>1, ZenonT(30) DEF QueueOK
    <3>2. \A i, j \in 1..Len(queue) : i + 1 = j + 1 => i = j
      BY <1>2
    <3>. QED BY <1>2, <3>1, <3>2, ZenonT(30)
  <2>3. \A i \in 1..Len(queue) : queue[i] \notin recovering /\ answers[queue[i]] = 0
    <3>1. \A i \in 1..Len(incoming) : incoming[i] \notin recovering /\ answers[incoming[i]] = 0
      BY <2>1, ZenonT(30) DEF QueueOK
    <3>. SUFFICES ASSUME NEW i \in 1..Len(queue)
                  PROVE  queue[i] \notin recovering /\ answers[queue[i]] = 0
      BY ZenonT(30)
    <3>2. i + 1 \in 1..Len(incoming) /\ queue[i] = incoming[i + 1]
      BY <1>2
    <3>. QED BY <3>1, <3>2, ZenonT(30)
  <2>4. a \notin recovering /\ answers[a] = 0
    BY <1>3, <2>1, ZenonT(30) DEF QueueOK
  <2>. QED BY <1>2, <2>1, <2>2, <2>3, <2>4, ZenonT(30) DEF QueueOK
<1>6. Process(a, queue)
  BY DEF ProcessFront, queue
<1>. QED BY <1>2, <1>4, <1>5, <1>6, ProcessStep


\* What abort_block leaves among the unapplied transactions
LEMMA AbortedOK ==
    ASSUME AllInv
    PROVE  /\ Aborted \subseteq Input /\ Aborted \cap MetasOf(chain) = {}
           /\ Speculative => Aborted = unapplied \cup pending.metas
           /\ ~Speculative => Aborted = {}
<1>1. pending.metas \subseteq Input /\ pending.metas \cap MetasOf(chain) = {}
  BY PendingMetas DEF AllInv, ChainInv
<1>2. pending = NoPending => pending.metas = {}
  BY DEF NoPending
<1>. QED BY <1>1, <1>2 DEF AllInv, KeptInv, AcceptedKept, Aborted

\* start_block on the head of the chain
LEMMA StartNow ==
    ASSUME AllInv, NEW time \in Nat, time > HeadBlock.time, NEW p,
           Started(HeadBlock.db, time, p)
    PROVE  IsPending(p) /\ NextOK(chain, p) /\ p.metas = {} /\ p.time = time
<1>1. ChainOK(chain)
  BY DEF AllInv, ChainInv
<1>2. chain[Len(chain)].time \in Nat
  BY <1>1, HeadTime
<1>3. chain[Len(chain)].time < time
  BY <1>2 DEF HeadBlock
<1>. QED BY <1>1, <1>3, StartOK DEF HeadBlock

\* start_block up to its transactions, or not as far as that
LEMMA StartSteps ==
    ASSUME AllInv,
           \/ StartBlockFails
           \/ \E time \in 1..MaxTime, produce \in BOOLEAN : StartPendingBlock(time, produce)
    PROVE  AllInv'
<1>1. CASE StartBlockFails
  <2>1. /\ Idle /\ pending' = NoPending /\ unapplied' = Aborted
        /\ UNCHANGED <<world, clock, chain, recovering, incoming, answers, accepted, stage,
                       local, failed>>
    BY <1>1 DEF StartBlockFails, block, node
  <2>2. ChainInv'
    BY <2>1, SameChain DEF AllInv, ChainInv, PendingOK, Idle
  <2>3. pending'.metas = {}
    BY <2>1 DEF NoPending
  <2>4. AcceptedKept'
    BY <2>1, <2>3, AbortedOK DEF AllInv, KeptInv, AcceptedKept, Speculative
  <2>5. KeptInv'
    BY <2>1, <2>4, AbortedOK DEF AllInv, KeptInv, Speculative
  <2>. QED BY <2>1, <2>2, <2>5, SameQueue DEF AllInv
<1>2. ASSUME NEW time \in 1..MaxTime, NEW produce \in BOOLEAN, StartPendingBlock(time, produce)
      PROVE  AllInv'
  <2>1. /\ time \in {clock, clock + 1} /\ time > HeadBlock.time
        /\ unapplied' = Aborted \/ (~world.producers /\ unapplied' = {})
        /\ clock' = time /\ stage' = "unapplied"
        /\ local' = [NoLocal EXCEPT !.todo = unapplied', !.quota = Len(incoming)]
        /\ UNCHANGED <<world, chain, recovering, incoming, answers, accepted, failed>>
    BY <1>2 DEF StartPendingBlock
  <2>2. Started(HeadBlock.db, time, pending')
    <3>1. Speculative \in BOOLEAN
      BY WorldsAssumption DEF AllInv, ChainInv, Speculative
    <3>. QED BY <1>2, <3>1, ZenonT(30) DEF StartPendingBlock, MayActivate, Started
  <2>3. time \in Nat /\ clock \in Nat
    BY <2>1 DEF AllInv, ChainInv
  <2>4. IsPending(pending') /\ NextOK(chain, pending') /\ pending'.metas = {} /\ pending'.time = time
    BY <2>1, <2>2, <2>3, StartNow
  <2>5. PendingOK(chain, pending') /\ pending' # NoPending
    BY <2>4, IsBlock DEF PendingOK
  <2>6. LocalOK(local')
    BY <2>1, ZenonT(30) DEF NoLocal, LocalOK, IsRecord
  <2>7. ChainInv'
    BY <2>1, <2>3, <2>4, <2>5, <2>6, SameChain DEF AllInv
  <2>8. AcceptedKept'
    <3>1. \A t \in Input : clock' <= Expire[t] => clock <= Expire[t]
      BY <2>1, <2>3, TimesAssumption
    <3>2. accepted \subseteq Input
      BY DEF AllInv, KeptInv
    <3>3. unapplied' \cap MetasOf(chain) = {}
      BY <2>1, AbortedOK
    <3>. QED BY <2>1, <2>4, <3>1, <3>2, <3>3, AbortedOK DEF AllInv, KeptInv, AcceptedKept, Speculative
  <2>9. KeptInv'
    BY <2>1, <2>8, AbortedOK DEF AllInv, KeptInv, Speculative
  <2>. QED BY <2>1, <2>7, <2>9, SameQueue DEF AllInv
<1>. QED BY <1>1, <1>2

\* One transaction of the loop over the unapplied transactions
LEMMA UnappliedStep ==
    ASSUME AllInv, NEW t \in Input, ApplyUnapplied(t)
    PROVE  AllInv'
<1>. DEFINE visited == [local EXCEPT !.todo = @ \ {t}]
            stopped == [local EXCEPT !.exhausted = TRUE]
<1>1. /\ stage = "unapplied" /\ pending # NoPending /\ PendingOK(chain, pending)
      /\ pending.time = clock /\ clock \in Nat /\ KeptInv
  BY DEF AllInv, ChainInv, ApplyUnapplied
<1>2. UNCHANGED <<world, clock, chain, recovering, incoming, answers, accepted>>
  BY DEF ApplyUnapplied, block, node
<1>3. LocalOK(visited) /\ LocalOK(stopped)
  BY ZenonT(30) DEF AllInv, ChainInv, LocalOK, IsRecord
<1>4. /\ local' = visited \/ local' = stopped
      /\ stage' = "unapplied" \/ stage' = "scheduled"
      /\ \/ /\ Expire[t] < clock \/ ~world.producers
            /\ unapplied' = unapplied \ {t} /\ pending' = pending /\ failed' = failed
         \/ UNCHANGED <<pending, unapplied, failed>>
         \/ \E r \in Outcomes(t) :
               /\ pending' = r.pending
               /\ \/ r.except # "none" /\ UNCHANGED <<unapplied, failed>>
                  \/ r.except # "none" /\ unapplied' = unapplied \ {t} /\ failed' = failed \cup {t}
                  \/ r.except = "none" /\ unapplied' = unapplied \ {t} /\ failed' = failed
  <2>1. \A e : WorthRetrying(e, TRUE) \/ WorthRetrying(e, FALSE) => e # "none"
    BY DEF WorthRetrying
  <2>. QED BY <1>1, <2>1 DEF ApplyUnapplied, WorthRetrying
<1>. HIDE DEF visited, stopped
<1>5. CASE /\ Expire[t] < clock \/ ~world.producers
           /\ unapplied' = unapplied \ {t} /\ pending' = pending /\ failed' = failed
  <2>1. Expire[t] < clock => ~(clock <= Expire[t])
    BY <1>1, TimesAssumption
  <2>2. KeptInv'
    BY <1>1, <1>2, <1>5, <2>1 DEF KeptInv, AcceptedKept, Speculative
  <2>3. ChainInv'
    BY <1>1, <1>2, <1>3, <1>4, <1>5, SameChain DEF AllInv
  <2>. QED BY <1>2, <2>2, <2>3, SameQueue DEF AllInv
<1>6. CASE UNCHANGED <<pending, unapplied, failed>>
  <2>1. KeptInv'
    BY <1>1, <1>2, <1>6, SameKept, ZenonT(30)
  <2>2. ChainInv'
    BY <1>1, <1>2, <1>3, <1>4, <1>6, SameChain DEF AllInv
  <2>. QED BY <1>2, <2>1, <2>2, SameQueue DEF AllInv
<1>7. ASSUME NEW r \in Outcomes(t), pending' = r.pending,
             \/ r.except # "none" /\ UNCHANGED <<unapplied, failed>>
             \/ r.except # "none" /\ unapplied' = unapplied \ {t} /\ failed' = failed \cup {t}
             \/ r.except = "none" /\ unapplied' = unapplied \ {t} /\ failed' = failed
      PROVE  AllInv'
  <2>1. \/ r.pending = pending /\ (r.except = "none" => ~Speculative)
        \/ /\ r.except = "none" /\ t \notin MetasOf(chain)
           /\ PendingOK(chain, r.pending) /\ r.pending # NoPending
           /\ r.pending.time = pending.time /\ r.pending.metas = pending.metas \cup {t}
    BY <1>1, OutcomeNow
  <2>2. PendingOK(chain, pending') /\ pending' # NoPending /\ pending'.time = clock
    BY <1>1, <1>7, <2>1, ZenonT(30)
  <2>3. ChainInv'
    BY <1>1, <1>2, <1>3, <1>4, <2>2, SameChain, ZenonT(30) DEF AllInv
  <2>4. AcceptedKept'
    <3>1. CASE r.pending = pending /\ (r.except = "none" => ~Speculative)
      BY <1>1, <1>2, <1>7, <3>1, ZenonT(30) DEF KeptInv, AcceptedKept, Speculative
    <3>2. CASE r.except = "none" /\ t \notin MetasOf(chain) /\ r.pending.metas = pending.metas \cup {t}
      BY <1>1, <1>2, <1>7, <3>2 DEF KeptInv, AcceptedKept, Speculative
    <3>. QED BY <2>1, <3>1, <3>2, ZenonT(30)
  <2>5. KeptInv'
    BY <1>1, <1>2, <1>7, <2>4 DEF KeptInv, Speculative
  <2>. QED BY <1>2, <2>3, <2>5, SameQueue, ZenonT(30) DEF AllInv
<1>. QED BY <1>4, <1>5, <1>6, <1>7


\* The rest of start_block
LEMMA LoopSteps ==
    ASSUME AllInv,
           \/ UnappliedDone \/ PickScheduled \/ InterleaveIncoming \/ PushScheduled
           \/ ScheduledDone \/ ApplyIncoming \/ StartBlockReturns
    PROVE  AllInv'
<1>0. /\ PendingOK(chain, pending) /\ clock \in Nat /\ KeptInv /\ LocalOK(local) /\ ChainInv /\ QueueInv
      /\ stage \in {"unapplied", "scheduled", "incoming"} => pending # NoPending
  BY DEF AllInv, ChainInv
<1>1. ASSUME UNCHANGED <<world, clock, chain, pending, unapplied, recovering, incoming, answers,
                         accepted, failed>>,
             stage' \in {"scheduled", "incoming", "idle"}, pending # NoPending, LocalOK(local')
      PROVE  AllInv'
  <2>1. ChainInv'
    BY <1>0, <1>1, SameChain
  <2>2. KeptInv'
    BY <1>0, <1>1, SameKept
  <2>. QED BY <1>0, <1>1, <2>1, <2>2, SameQueue DEF AllInv
<1>2. CASE UnappliedDone
  BY <1>0, <1>1, <1>2, ZenonT(30) DEF UnappliedDone, block, node, LocalOK, IsRecord
<1>3. CASE PickScheduled
  BY <1>0, <1>1, <1>3 DEF PickScheduled, block, node, LocalOK, IsRecord
<1>4. CASE ScheduledDone
  BY <1>0, <1>1, <1>4, ZenonT(30) DEF ScheduledDone, block, node, LocalOK, IsRecord
<1>5. CASE StartBlockReturns
  BY <1>0, <1>1, <1>5, ZenonT(30) DEF StartBlockReturns, block, node, LocalOK, IsRecord, NoLocal
<1>6. CASE InterleaveIncoming \/ ApplyIncoming
  <2>1. /\ ProcessFront /\ UNCHANGED <<world, clock, chain, recovering, stage>>
        /\ stage \in {"scheduled", "incoming"} /\ local' = [local EXCEPT !.quota = @ - 1]
    BY <1>6 DEF InterleaveIncoming, ApplyIncoming, block
  <2>2. LocalOK(local')
    BY <1>0, <2>1 DEF LocalOK, IsRecord
  <2>3. PendingOK(chain, pending') /\ pending' # NoPending /\ KeptInv' /\ QueueInv'
    BY <1>0, <2>1, FrontStep
  <2>4. ChainInv'
    BY <1>0, <2>1, <2>2, <2>3, SameChain
  <2>. QED BY <2>3, <2>4 DEF AllInv
<1>7. CASE PushScheduled
  <2>1. /\ stage = "scheduled" /\ pending # NoPending
        /\ UNCHANGED <<world, clock, chain, unapplied, recovering, incoming, answers, accepted,
                       stage, failed>>
        /\ local' = [local EXCEPT !.current = None]
    BY <1>0, <1>7 DEF PushScheduled, block, node
  <2>2. LocalOK(local')
    BY <1>0, <2>1 DEF LocalOK, IsRecord
  <2>3. \/ pending' = pending
        \/ \E g \in pending.db.generated :
              \E r \in PushScheduledTransaction(pending, g, world.effects) : pending' = r.pending
    BY <1>7 DEF PushScheduled
  <2>4. PendingOK(chain, pending') /\ pending' # NoPending /\ pending'.metas = pending.metas
    BY <1>0, <2>1, <2>3, ScheduledNow
  <2>5. ChainInv'
    BY <1>0, <2>1, <2>2, <2>4, SameChain
  <2>6. KeptInv'
    BY <1>0, <2>1, <2>4, SameKept
  <2>. QED BY <1>0, <2>1, <2>5, <2>6, SameQueue DEF AllInv
<1>. QED BY <1>2, <1>3, <1>4, <1>5, <1>6, <1>7

\* apply_block, up to the end of its transactions
LEMMA ApplySteps ==
    ASSUME AllInv,
           \/ \E time \in 1..MaxTime : BeginApply(time)
           \/ \E t \in Input : ApplyInput(t)
           \/ ApplyScheduled
    PROVE  AllInv'
<1>0. /\ PendingOK(chain, pending) /\ clock \in Nat /\ KeptInv /\ LocalOK(local) /\ ChainInv /\ QueueInv
  BY ZenonT(30) DEF AllInv, ChainInv
<1>1. /\ stage = "applying"
      /\ UNCHANGED <<world, clock, chain, stage, local, recovering, incoming, answers, accepted>>
  BY ZenonT(30) DEF BeginApply, ApplyInput, ApplyScheduled, block, node
<1>2. ASSUME PendingOK(chain, pending'), KeptInv' PROVE AllInv'
  <2>1. ChainInv'
    BY <1>0, <1>1, <1>2, SameChain
  <2>. QED BY <1>0, <1>1, <1>2, <2>1, SameQueue DEF AllInv
<1>3. ASSUME NEW time \in 1..MaxTime, BeginApply(time) PROVE AllInv'
  <2>1. pending = NoPending /\ time > HeadBlock.time /\ UNCHANGED <<unapplied, failed>>
    BY <1>3 DEF BeginApply
  <2>2. Started(HeadBlock.db, time, pending')
    <3>1. Speculative \in BOOLEAN
      BY WorldsAssumption DEF AllInv, ChainInv, Speculative
    <3>. QED BY <1>3, <3>1, ZenonT(30) DEF BeginApply, MayActivate, Started
  <2>3. IsPending(pending') /\ NextOK(chain, pending') /\ pending'.metas = {}
    BY <2>1, <2>2, StartNow
  <2>4. pending.metas = {}
    BY <2>1 DEF NoPending
  <2>5. KeptInv'
    BY <1>0, <1>1, <2>1, <2>3, <2>4, SameKept
  <2>. QED BY <1>2, <2>3, <2>5 DEF PendingOK
<1>4. ASSUME NEW t \in Input, ApplyInput(t) PROVE AllInv'
  <2>1. PICK r \in Outcomes(t) : Push(t, r)
    BY <1>4 DEF ApplyInput
  <2>2. pending # NoPending
    BY <1>4 DEF ApplyInput
  <2>3. PendingOK(chain, pending') /\ KeptInv'
    BY <1>1, <2>1, <2>2, PushStep
  <2>. QED BY <1>2, <2>3
<1>5. CASE ApplyScheduled
  <2>1. /\ pending # NoPending /\ UNCHANGED <<unapplied, failed>>
        /\ \E g \in pending.db.generated :
              \E r \in PushScheduledTransaction(pending, g, world.effects) : pending' = r.pending
    BY <1>5, ZenonT(30) DEF ApplyScheduled
  <2>2. PendingOK(chain, pending') /\ pending'.metas = pending.metas
    BY <1>0, <2>1, ScheduledNow
  <2>3. KeptInv'
    BY <1>0, <1>1, <2>1, <2>2, SameKept
  <2>. QED BY <1>2, <2>2, <2>3, ZenonT(30)
<1>. QED BY <1>3, <1>4, <1>5


\* commit_block, of a block that has been produced or of one that has been applied
LEMMA CommitSteps ==
    ASSUME AllInv, ProduceBlock \/ ApplyDone
    PROVE  AllInv'
<1>0. /\ ChainOK(chain) /\ PendingOK(chain, pending) /\ clock \in Nat /\ KeptInv /\ LocalOK(local)
      /\ ForkOK /\ QueueInv /\ world \in Worlds
  BY DEF AllInv, ChainInv
<1>1. /\ pending # NoPending /\ chain' = Append(chain, Committed(pending)) /\ pending' = NoPending
      /\ UNCHANGED <<world, clock, unapplied, recovering, incoming, answers, accepted, failed>>
  BY DEF ProduceBlock, ApplyDone, node
<1>2. /\ ChainOK(chain') /\ Len(chain') = Len(chain) + 1
      /\ \A i \in 1..Len(chain) : chain'[i] = chain[i]
      /\ MetasOf(chain') = MetasOf(chain) \cup pending.metas
  <2>1. NextOK(chain, pending)
    BY <1>0, <1>1 DEF PendingOK
  <2>2. \A d : d = Append(chain, Committed(pending)) =>
                 /\ ChainOK(d) /\ Len(d) = Len(chain) + 1
                 /\ \A i \in 1..Len(chain) : d[i] = chain[i]
                 /\ MetasOf(d) = MetasOf(chain) \cup pending.metas
    BY <1>0, <2>1, AppendOK, ZenonT(30)
  <2>. QED BY <1>1, <2>2, ZenonT(30)
<1>3. KeptInv'
  <2>1. pending'.metas = {}
    BY <1>1 DEF NoPending
  <2>. QED BY <1>0, <1>1, <1>2, <2>1 DEF KeptInv, AcceptedKept, Speculative
<1>4. stage' = "idle" \/ stage' = "applying"
  BY DEF ProduceBlock, ApplyDone, Idle
<1>5. LocalOK(local')
  BY <1>0 DEF ProduceBlock, ApplyDone, LocalOK, IsRecord, NoLocal
<1>6. ForkOK'
  <2>1. CASE stage' # "applying"
    BY <2>1 DEF ForkOK
  <2>2. CASE /\ stage = "applying" /\ local.more > 1 /\ local' = [local EXCEPT !.more = @ - 1]
    <3>1. local'.left = local.left /\ local'.more = local.more - 1
      BY <1>0, <2>2 DEF LocalOK, IsRecord
    <3>2. CanGoBack(chain, local.left, local.more)
      BY <1>0, <2>2 DEF ForkOK
    <3>3. CanGoBack(chain', local.left, local.more - 1)
      BY <1>0, <1>2, <2>2, <3>2, GoesBackFurther, ZenonT(30)
    <3>. QED BY <3>1, <3>3 DEF ForkOK
  <2>. QED BY <2>1, <2>2 DEF ProduceBlock, ApplyDone, Idle
<1>7. ChainInv'
  BY <1>0, <1>1, <1>2, <1>4, <1>5, <1>6 DEF ChainInv, PendingOK
<1>. QED BY <1>0, <1>1, <1>3, <1>7, SameQueue DEF AllInv

\* maybe_switch_forks: blocks are popped.
LEMMA PopStep ==
    ASSUME AllInv, NEW n \in Nat, OnIncomingBlock(n)
    PROVE  AllInv'
<1>. DEFINE left == SubSeq(chain, Len(chain) - n + 1, Len(chain))
<1>0. /\ ChainOK(chain) /\ clock \in Nat /\ KeptInv /\ QueueInv /\ world \in Worlds
      /\ Len(chain) \in Nat
  BY ChainFacts DEF AllInv, ChainInv
<1>1. /\ n < Len(chain) /\ chain' = SubSeq(chain, 1, Len(chain) - n) /\ pending' = NoPending
      /\ stage' = "applying" /\ local' = [NoLocal EXCEPT !.left = left, !.more = n + 1]
      /\ UNCHANGED <<world, clock, recovering, incoming, answers, accepted, failed>>
      /\ Speculative => unapplied' = Aborted \cup MetasOf(left)
      /\ ~Speculative => unapplied' = Aborted
  BY DEF OnIncomingBlock, PopBlocks, node
<1>. HIDE DEF left
<1>2. /\ ChainOK(chain') /\ IsSequence(chain') /\ Len(chain') = Len(chain) - n
      /\ IsSequence(left) /\ Len(left) = n /\ chain' \o left = chain
      /\ MetasOf(chain) = MetasOf(chain') \cup MetasOf(left)
      /\ MetasOf(chain') \cap MetasOf(left) = {}
  <2>1. Popped(chain, n, chain', left)
    BY <1>1 DEF Popped, left
  <2>2. ChainOK(chain) /\ n < Len(chain)
    BY <1>0, <1>1
  <2>. QED BY <2>1, <2>2, PoppedOK
<1>3. LocalOK(local') /\ local'.left = left /\ local'.more = n + 1
  BY <1>1, ZenonT(30) DEF LocalOK, IsRecord, NoLocal
<1>4. ForkOK'
  <2>1. Len(left) + 1 - (n + 1) = 0 /\ n + 1 \in 1..(Len(left) + 1) /\ 0 < Len(chain')
        /\ Len(chain') - 0 = Len(chain')
    BY <1>0, <1>1, <1>2
  <2>2. SubSeq(chain', 1, Len(chain')) = chain'
    BY <1>2, WholeSequence
  <2>3. ChainOK(SubSeq(chain', 1, Len(chain') - 0) \o left)
    BY <1>0, <1>2, <2>1, <2>2, ZenonT(30)
  <2>. QED BY <1>2, <1>3, <2>1, <2>3 DEF ForkOK, CanGoBack, Applied
<1>5. ChainInv'
  BY <1>0, <1>1, <1>2, <1>3, <1>4 DEF ChainInv, PendingOK
<1>6. MetasOf(chain) \subseteq Input
  BY <1>0, ChainFacts
<1>7. pending'.metas = {}
  BY <1>1 DEF NoPending
<1>8. unapplied' \subseteq Input /\ (~Speculative => unapplied' = {})
  BY <1>1, <1>2, <1>6, AbortedOK
<1>9. AcceptedKept'
  <2>1. unapplied' \cap MetasOf(chain') = {}
    BY <1>1, <1>2, AbortedOK
  <2>2. Speculative => MetasOf(chain) \cup pending.metas \cup unapplied
                         \subseteq MetasOf(chain') \cup unapplied'
    BY <1>1, <1>2, AbortedOK
  <2>. QED BY <1>0, <1>1, <1>7, <2>1, <2>2, ZenonT(30) DEF KeptInv, AcceptedKept, Speculative
<1>10. KeptInv'
  BY <1>0, <1>1, <1>8, <1>9, ZenonT(30) DEF KeptInv, Speculative
<1>. QED BY <1>0, <1>1, <1>5, <1>10, SameQueue DEF AllInv


\* apply_block throws: maybe_switch_forks goes back to the blocks it had left.
LEMMA GoBackStep ==
    ASSUME AllInv, ApplyThrows
    PROVE  AllInv'
<1>. DEFINE n == Applied(local.left, local.more)
            base == SubSeq(chain, 1, Len(chain) - n)
            new == SubSeq(chain, Len(chain) - n + 1, Len(chain))
<1>0. /\ ChainOK(chain) /\ PendingOK(chain, pending) /\ clock \in Nat /\ KeptInv /\ QueueInv
      /\ world \in Worlds /\ CanGoBack(chain, local.left, local.more)
  BY ZenonT(30) DEF AllInv, ChainInv, ForkOK, ApplyThrows
<1>1. PICK culprit \in SUBSET (unapplied \ pending.metas) :
          /\ failed' = failed \cup culprit
          /\ chain' = base \o local.left
          /\ unapplied' = IF Speculative
                          THEN ((unapplied \ culprit) \cup pending.metas \cup MetasOf(new))
                                  \ MetasOf(local.left)
                          ELSE unapplied
  BY ZenonT(30) DEF ApplyThrows, Applied
<1>2. /\ pending' = NoPending /\ stage' = "idle" /\ local' = NoLocal
      /\ UNCHANGED <<world, clock, recovering, incoming, answers, accepted>>
  BY DEF ApplyThrows, node
<1>3. n \in Nat /\ n < Len(chain)
  <2>1. Len(local.left) \in Nat /\ Len(chain) \in Nat
    BY <1>0, SequenceFacts, ChainFacts DEF CanGoBack
  <2>. QED BY <1>0, <2>1 DEF CanGoBack, Applied
<1>4. Popped(chain, n, base, new)
  BY ZenonT(30) DEF Popped
<1>. HIDE DEF base, new
<1>5. /\ IsSequence(base) /\ MetasOf(chain) = MetasOf(base) \cup MetasOf(new)
      /\ MetasOf(base) \cap MetasOf(new) = {}
  BY <1>0, <1>3, <1>4, PoppedOK
<1>6. IsSequence(local.left) /\ ChainOK(base \o local.left)
  BY <1>0, ZenonT(30) DEF CanGoBack, base
<1>7. /\ MetasOf(base \o local.left) = MetasOf(base) \cup MetasOf(local.left)
      /\ MetasOf(base) \cap MetasOf(local.left) = {}
  BY <1>5, <1>6, PartsOK, ZenonT(30)
<1>8. pending.metas \subseteq Input /\ pending.metas \cap MetasOf(chain) = {}
      /\ MetasOf(chain) \subseteq Input
  BY <1>0, PendingMetas, ChainFacts
<1>9. ChainInv'
  <2>1. LocalOK(NoLocal)
    BY ZenonT(30) DEF LocalOK, IsRecord, NoLocal
  <2>. QED BY <1>0, <1>1, <1>2, <1>6, <2>1, ZenonT(30) DEF ChainInv, PendingOK, ForkOK
<1>10. pending'.metas = {}
  BY <1>2 DEF NoPending
<1>11. /\ unapplied \cap (MetasOf(chain) \cup pending.metas) = {} /\ unapplied \subseteq Input
       /\ ~Speculative => unapplied = {}
  BY <1>0 DEF KeptInv, AcceptedKept
<1>12. /\ unapplied' \cap MetasOf(base \o local.left) = {} /\ unapplied' \subseteq Input
       /\ ~Speculative => unapplied' = {}
  <2>1. CASE Speculative
    BY <1>1, <1>5, <1>7, <1>8, <1>11, <2>1, ZenonT(30)
  <2>2. CASE ~Speculative
    BY <1>1, <1>11, <2>2, ZenonT(30)
  <2>. QED BY <2>1, <2>2, ZenonT(30)
<1>13. Speculative => MetasOf(chain) \cup pending.metas \cup unapplied
                        \subseteq MetasOf(base \o local.left) \cup unapplied' \cup culprit
  BY <1>1, <1>5, <1>7, ZenonT(30)
<1>14. AcceptedKept'
  BY <1>0, <1>1, <1>2, <1>10, <1>12, <1>13, ZenonT(30) DEF KeptInv, AcceptedKept, Speculative
<1>15. KeptInv'
  BY <1>0, <1>2, <1>12, <1>14, ZenonT(30) DEF KeptInv, Speculative
<1>. QED BY <1>0, <1>2, <1>9, <1>15, SameQueue, ZenonT(30) DEF AllInv

-----------------------------------------------------------------------------
(* The theorems *)

\* Every step keeps the invariant.
LEMMA StepOK ==
    ASSUME AllInv, [Next]_vars
    PROVE  AllInv'
<1>1. CASE UNCHANGED vars
  <2>1. ChainInv'
    BY <1>1 DEF AllInv, ChainInv, ForkOK, vars
  <2>2. KeptInv'
    BY <1>1, SameKept DEF AllInv, vars
  <2>. QED BY <1>1, <2>1, <2>2, SameQueue, ZenonT(30) DEF AllInv, vars
<1>2. CASE Next
  <2>1. CASE \E a \in Arrival : OnIncomingTransaction(a) \/ KeysRecovered(a)
    BY <2>1, ReceiveSteps
  <2>2. CASE StartBlockFails \/ \E time \in 1..MaxTime, produce \in BOOLEAN : StartPendingBlock(time, produce)
    BY <2>2, StartSteps
  <2>3. CASE \E t \in Input : ApplyUnapplied(t)
    BY <2>3, UnappliedStep
  <2>4. CASE \/ UnappliedDone \/ PickScheduled \/ InterleaveIncoming \/ PushScheduled
             \/ ScheduledDone \/ ApplyIncoming \/ StartBlockReturns
    BY <2>4, LoopSteps
  <2>5. CASE \/ \E time \in 1..MaxTime : BeginApply(time)
             \/ \E t \in Input : ApplyInput(t)
             \/ ApplyScheduled
    BY <2>5, ApplySteps
  <2>6. CASE ProduceBlock \/ ApplyDone
    BY <2>6, CommitSteps
  <2>7. CASE \E n \in 0..world.fork : OnIncomingBlock(n)
    <3>1. world.fork \in Nat
      BY WorldsAssumption DEF AllInv, ChainInv
    <3>2. \A n \in 0..world.fork : n \in Nat
      BY <3>1
    <3>. QED BY <2>7, <3>2, PopStep
  <2>8. CASE ApplyThrows
    BY <2>8, GoBackStep
  <2>. QED BY <1>2, <2>1, <2>2, <2>3, <2>4, <2>5, <2>6, <2>7, <2>8, ZenonT(30) DEF Next
<1>. QED BY <1>1, <1>2


\* Blocks that are right for their places, the pending one included, share no transaction.
LEMMA OnceFollows ==
    ASSUME ChainInv
    PROVE  OncePerChain
<1>0. ChainOK(chain) /\ PendingOK(chain, pending) /\ Len(chain) \in Nat
  BY ChainFacts, ZenonT(30) DEF ChainInv
<1>1. CASE pending = NoPending
  <2>1. \A i \in 1..Len(chain) + 1 :
            \/ i \in 1..Len(chain) /\ ReceiptsAt(i) = chain[i].receipts
            \/ DOMAIN ReceiptsAt(i) = {}
    BY <1>0, <1>1 DEF ReceiptsAt, NoPending
  <2>. QED BY <1>0, <2>1, OnceOnChain, ZenonT(30) DEF OncePerChain
<1>2. CASE NextOK(chain, pending)
  <2>. DEFINE d == Append(chain, Committed(pending))
  <2>1. /\ ChainOK(d) /\ Len(d) = Len(chain) + 1
        /\ \A i \in 1..Len(chain) : d[i] = chain[i]
    BY <1>0, <1>2, AppendOK, ZenonT(30)
  <2>2. d[Len(chain) + 1].receipts = pending.receipts
    <3>. DEFINE S == {chain[i] : i \in 1..Len(chain)}
    <3>1. chain \in Seq(S)
      BY <1>0 DEF ChainOK, IsSequence
    <3>. HIDE DEF S
    <3>2. d[Len(chain) + 1] = Committed(pending)
      BY <3>1
    <3>. QED BY <3>2 DEF Committed
  <2>. HIDE DEF d
  <2>3. \A i \in 1..Len(chain) + 1 : i \in 1..Len(d) /\ ReceiptsAt(i) = d[i].receipts
    BY <1>0, <2>1, <2>2 DEF ReceiptsAt
  <2>. QED BY <2>1, <2>3, OnceOnChain DEF OncePerChain
<1>. QED BY <1>0, <1>1, <1>2 DEF PendingOK

\* Deliveries in at most one place are counted once at most.
LEMMA AnsweredFollows ==
    ASSUME FiniteFacts, QueueInv
    PROVE  AnsweredOnce
<1>. SUFFICES ASSUME NEW a \in Arrival
              PROVE  (IF a \in recovering THEN 1 ELSE 0)
                       + Cardinality({i \in DOMAIN incoming : incoming[i] = a}) + answers[a] <= 1
  BY DEF AnsweredOnce
<1>. DEFINE places == {i \in DOMAIN incoming : incoming[i] = a}
<1>1. DOMAIN incoming = 1..Len(incoming) /\ answers[a] \in {0, 1}
  BY DEF QueueInv, QueueOK
<1>2. CASE places = {}
  <2>1. Cardinality(places) = 0
    BY <1>2, Zenon DEF FiniteFacts
  <2>2. a \in recovering => answers[a] = 0
    BY DEF QueueInv, QueueOK
  <2>. HIDE DEF places
  <2>3. (IF a \in recovering THEN 1 ELSE 0) + Cardinality(places) + answers[a] <= 1
    BY <1>1, <2>1, <2>2
  <2>. QED BY <2>3 DEF places
<1>3. CASE places # {}
  <2>1. PICK i \in places : TRUE
    BY <1>3
  <2>2. places = {i} /\ a \notin recovering /\ answers[a] = 0
    BY <1>1 DEF QueueInv, QueueOK
  <2>3. Cardinality(places) = 1
    BY <2>2, ZenonT(30) DEF FiniteFacts
  <2>. HIDE DEF places
  <2>4. (IF a \in recovering THEN 1 ELSE 0) + Cardinality(places) + answers[a] <= 1
    BY <2>2, <2>3
  <2>. QED BY <2>4 DEF places
<1>. QED BY <1>2, <1>3

\* The databases of all blocks are right.
LEMMA RamFollows ==
    ASSUME FiniteFacts, ChainInv
    PROVE  RamMatches
<1>1. \A i \in DOMAIN chain : DbOK(chain[i].db)
  BY ChainFacts, ZenonT(30) DEF ChainInv, ChainOK, BlockOK
<1>2. DbOK(pending.db)
  <2>1. CASE pending = NoPending
    <3>1. pending.db = GenesisDb
      BY <2>1 DEF NoPending
    <3>. QED BY <3>1, GenesisOK
  <2>2. CASE NextOK(chain, pending)
    BY <2>2, ZenonT(30) DEF NextOK, BlockOK
  <2>. QED BY <2>1, <2>2 DEF ChainInv, PendingOK
<1>3. \A db \in Databases : DbOK(db)
  BY <1>1, <1>2, ZenonT(30) DEF Databases
<1>. QED BY <1>3 DEF RamMatches, DbOK, PaidBy

-----------------------------------------------------------------------------
INSTANCE FiniteSetTheorems

\* The library's theorems on finite sets
LEMMA FiniteFactsHold == FiniteFacts
<1>1. IsFiniteSet({}) /\ Cardinality({}) = 0
  BY FS_EmptySet
<1>2. \A x : Cardinality({x}) = 1
  BY FS_Singleton, ZenonT(30)
<1>3. \A G : IsFiniteSet(G) => Cardinality(G) \in Nat
  BY FS_CardinalityType
<1>4. \A G : IsFiniteSet(G) => \A H \in SUBSET G : IsFiniteSet(H)
  BY FS_Subset
<1>5. \A G, H, g : IsFiniteSet(G) /\ H = G \cup {g} => IsFiniteSet(H)
  BY FS_AddElement
<1>6. \A G, H, g : IsFiniteSet(G) /\ g \notin G /\ H = G \cup {g}
                   => Cardinality(H) = Cardinality(G) + 1
  BY FS_AddElement
<1>. QED BY <1>1, <1>2, <1>3, <1>4, <1>5, <1>6, ZenonT(30) DEF FiniteFacts

\* The invariant from which the theorems below follow
LEMMA Invariant == Spec => []AllInv
<1>1. Init => AllInv
  BY InitOK, FiniteFactsHold
<1>2. AllInv /\ [Next]_vars => AllInv'
  BY StepOK
<1>. QED BY <1>1, <1>2, PTL DEF Spec

\* push_transaction, push_scheduled_transaction, start_block, apply_block and
\* maybe_switch_forks: along a chain, however often it is left, rebuilt or gone back to,
\* no input transaction is applied twice and no scheduled transaction retired twice, for
\* any transactions, delays, expirations and contracts.
THEOREM AppliedOnce == Spec => []OncePerChain
<1>1. AllInv => OncePerChain
  BY OnceFollows, ZenonT(30) DEF AllInv
<1>. QED BY <1>1, Invariant, PTL

\* process_incoming_transaction_async calls next once for a delivery at most, and keeps
\* one that it has not answered in one place, for any number of deliveries of any
\* transactions.
THEOREM DeliveriesAnsweredOnce == Spec => []AnsweredOnce
<1>1. AllInv => AnsweredOnce
  BY AnsweredFollows, FiniteFactsHold, ZenonT(30) DEF AllInv
<1>. QED BY <1>1, Invariant, PTL

\* abort_block, pop_block and maybe_switch_forks between them lose no transaction that a
\* client was told is applied, and apply_block leaves none among the unapplied that is
\* in a block again, for any depth of forks.
THEOREM AcceptedNotLost == Spec => []AcceptedKept
<1>1. AllInv => AcceptedKept
  BY ZenonT(30) DEF AllInv, KeptInv
<1>. QED BY <1>1, Invariant, PTL

\* schedule_deferred_transaction, cancel_deferred_transaction, remove_scheduled_transaction
\* and the activation of replace_deferred keep the RAM of every account exact, for any
\* accounts and contracts.
THEOREM RamExact == Spec => []RamMatches
<1>1. AllInv => RamMatches
  BY RamFollows, FiniteFactsHold DEF AllInv
<1>. QED BY <1>1, Invariant, PTL
================================================================================
