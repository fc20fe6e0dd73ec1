-------------------------- MODULE TransactionEffects --------------------------
(***************************************************************************)
(* What one transaction does to the pending block and to the database:     *)
(* controller_impl::push_transaction and push_scheduled_transaction with   *)
(* the transaction_context and apply_context below them.                   *)
(*                                                                         *)
(* The database keeps the ids of the input transactions that have not      *)
(* expired (transaction_object), the generated (deferred or delayed)       *)
(* transactions (generated_transaction_object), and the RAM that the       *)
(* payers of the latter are billed, in units of one object.  A contract is *)
(* any choice of an effect; running out of time or space, failing and      *)
(* being refused are choices too.                                          *)
(***************************************************************************)
EXTENDS Naturals, Sequences, FiniteSets

CONSTANTS
    Input,       \* ids of input transactions: sequences of length 1
    Expire,      \* [Input -> time]: transaction_header::expiration
    Delay,       \* [Input -> time]: delay_sec, 0 for none
    Sid,         \* sender ids that contracts use, also sequences of length 1
    Payer,       \* accounts that pay for deferred transactions
    FirstAuth,   \* [Input -> Payer]: first authorizer of a transaction
    Window       \* deferred_trx_expiration_window

ASSUME TimesAssumption ==
    Expire \in [Input -> Nat] /\ Delay \in [Input -> Nat] /\ Window \in Nat
ASSUME PayerAssumption == FirstAuth \in [Input -> Payer]
ASSUME IdAssumption == \A x \in Input \cup Sid : x = <<x[1]>>

\* Exceptions, by how the controller and the producer plugin tell them apart:
\* any objective failure, tx_cpu_usage_exceeded, the block's CPU or NET limit,
\* deadline_exception, and what only this node objects to (white and black
\* lists, greylists, subjective_block_production_exception).
Exceptions == {"objective", "tx_cpu", "block_full", "deadline", "local"}

\* controller_impl::failure_is_subjective
FailureIsSubjective(e) == e \in {"block_full", "deadline", "local"}

\* controller_impl::scheduled_failure_is_subjective
ScheduledFailureIsSubjective(e) == e = "tx_cpu" \/ FailureIsSubjective(e)

\* What a contract may do to the generated transactions when an action runs.
Effects ==
    [do : {"nothing", "fail"}]
      \cup [do : {"defer"}, sid : Sid, payer : Payer, delay : {0, 1}, replace : BOOLEAN]
      \cup [do : {"cancel"}, sid : Sid]

\* generated_transaction_object.  An input transaction that is delayed has no
\* sender and is its own sender id.
Generated(id, sid, sent, payer, time, delay) ==
    [id |-> id, sid |-> sid, sent |-> sent, payer |-> payer, published |-> time,
     delay_until |-> time + delay, expiration |-> time + delay + Window]

Store(db, g) == [db EXCEPT !.generated = @ \cup {g}, !.ram[g.payer] = @ + 1]

\* controller_impl::remove_scheduled_transaction
RemoveScheduled(db, g) == [db EXCEPT !.generated = @ \ {g}, !.ram[g.payer] = @ - 1]

BySenderId(db, sid) == {g \in db.generated : g.sent /\ g.sid = sid}

Ok(db) == [except |-> "none", db |-> db]
Thrown(e, db) == [except |-> e, db |-> db]

\* Mutant: the RAM of the replaced transaction is never given back.
ReplaceKeepsRam(db, g, old) ==
    LET id == IF db.replace_deferred THEN g.id ELSE old.id
    IN  Store([db EXCEPT !.generated = @ \ {old}], [g EXCEPT !.id = id])

\* The replacement of a deferred transaction: before the protocol feature the
\* new object keeps the old id, and the RAM of the old one is only noted down.
Replace(db, g, old) ==
    IF db.replace_deferred
    THEN Store(RemoveScheduled(db, old), g)
    ELSE Store([db EXCEPT !.generated = @ \ {old}, !.correction[old.payer] = @ + 1],
               [g EXCEPT !.id = old.id])

\* apply_context::schedule_deferred_transaction by the contract that runs in
\* the transaction called id; what it generates has an id of its own.
ScheduleDeferred(db, id, effect, time, incomplete) ==
    LET g == Generated(id \o effect.sid, effect.sid, TRUE, effect.payer, time, effect.delay)
        same == BySenderId(db, effect.sid)
    IN  IF same = {} THEN Ok(Store(db, g))
        ELSE IF ~effect.replace THEN Thrown("objective", db)
        ELSE IF ~db.replace_deferred /\ incomplete THEN Thrown("local", db)
        ELSE Ok(Replace(db, g, CHOOSE old \in same : TRUE))

\* apply_context::cancel_deferred_transaction
CancelDeferred(db, sid) ==
    LET same == BySenderId(db, sid)
    IN  IF same = {} THEN db ELSE RemoveScheduled(db, CHOOSE g \in same : TRUE)

\* Executing the actions of a transaction.
Exec(db, id, effect, time, incomplete) ==
    CASE effect.do = "nothing" -> Ok(db)
      [] effect.do = "fail" -> Thrown("objective", db)
      [] effect.do = "cancel" -> Ok(CancelDeferred(db, effect.sid))
      [] effect.do = "defer" -> ScheduleDeferred(db, id, effect, time, incomplete)

\* transaction_context::schedule_transaction, for an input transaction with a delay
ScheduleTransaction(db, t, time) ==
    Store(db, Generated(t, t, FALSE, FirstAuth[t], time, Delay[t]))

\* push_receipt, and the transaction's metadata for an input transaction
Receive(p, kind, id, db) ==
    [p EXCEPT !.receipts = Append(@, <<kind, id>>), !.db = db,
              !.metas = IF kind = "input" THEN @ \cup {id} ELSE @]

Result(e, p) == [except |-> e, pending |-> p]

\* controller::validate_expiration and transaction_context::record_transaction
Admits(db, t, time) == Expire[t] >= time /\ t \notin db.recorded

\* controller_impl::push_transaction on an input transaction: every way it may
\* end.  Nothing is left of a transaction that throws; nothing is left of one
\* that succeeds either, in a speculative block of a node in head mode.
PushTransaction(p, t, effects, speculative) ==
    IF ~Admits(p.db, t, p.time) THEN {Result("objective", p)}
    ELSE LET recorded == [p.db EXCEPT !.recorded = @ \cup {t}]
             ends == IF Delay[t] > 0
                     THEN {Ok(ScheduleTransaction(recorded, t, p.time))}
                     ELSE {Exec(recorded, t, f, p.time, p.incomplete) : f \in effects}
             cut == IF p.incomplete THEN Exceptions ELSE {"objective"}
         IN  {Result("none", IF p.incomplete /\ ~speculative THEN p
                             ELSE Receive(p, "input", t, r.db)) :
                  r \in {r \in ends : r.except = "none"}}
             \cup {Result(e, p) : e \in cut \cup ({r.except : r \in ends} \ {"none"})}

\* The ways a scheduled transaction, or the onerror action that follows its
\* failure, may run.
Attempts(db, g, p, effects) ==
    {Exec(db, g.id, f, p.time, p.incomplete) : f \in effects}
      \cup (IF p.incomplete THEN {Thrown(e, db) : e \in Exceptions} ELSE {})

\* push_scheduled_transaction when the transaction has thrown e and onerror, if
\* there was one to run, has failed as well: undone if the failure is
\* subjective, retired otherwise.
ScheduledFails(p, g, e) ==
    LET subjective == IF p.incomplete THEN ScheduledFailureIsSubjective(e)
                      ELSE FailureIsSubjective(e)
    IN  Result(e, IF subjective THEN p
                  ELSE Receive(p, "hard_fail", g.id, RemoveScheduled(p.db, g)))

\* controller_impl::apply_onerror succeeds: a soft failure.
SoftFails(p, g, succeeded) ==
    {Result("none", Receive(p, "soft_fail", g.id, r.db)) : r \in succeeded}

\* controller_impl::push_scheduled_transaction, once it is ready: it is removed
\* first, then it expires, executes, fails softly or fails.  The sender, if there
\* is one, gets to handle a failure that is not subjective.
PushScheduledTransaction(p, g, effects) ==
    LET removed == RemoveScheduled(p.db, g)
        tried == Attempts(removed, g, p, effects)
        succeeded == {r \in tried : r.except = "none"}
        threw == {r.except : r \in tried} \ {"none"}
        handled == {e \in threw : g.sent /\ ~FailureIsSubjective(e)}
    IN  IF g.expiration < p.time
        THEN {Result("none", Receive(p, "expired", g.id, removed))}
        ELSE {Result("none", Receive(p, "executed", g.id, r.db)) : r \in succeeded}
             \cup (IF handled = {} THEN {} ELSE SoftFails(p, g, succeeded))
             \cup {ScheduledFails(p, g, e) : e \in threw}

\* Mutant: a transaction is forgotten in the block of its expiration.
ClearExpiredEarly(db, time) ==
    [db EXCEPT !.recorded = {t \in @ : time < Expire[t]}]

\* controller_impl::clear_expired_input_transactions
ClearExpiredInputTransactions(db, time) ==
    [db EXCEPT !.recorded = {t \in @ : time <= Expire[t]}]

\* on_activation<replace_deferred>: the noted RAM is given back.
OnActivationReplaceDeferred(db) ==
    [db EXCEPT !.replace_deferred = TRUE,
               !.ram = [a \in Payer |-> IF db.correction[a] > @[a] THEN 0
                                        ELSE @[a] - db.correction[a]],
               !.correction = [a \in Payer |-> 0]]

\* The part of controller_impl::start_block that concerns transactions; it
\* changes nothing for a speculative block of a node in head mode.
StartBlock(db, time, incomplete, speculative, activate) ==
    LET d == IF activate THEN OnActivationReplaceDeferred(db) ELSE db
    IN  [time |-> time, incomplete |-> incomplete, receipts |-> <<>>, metas |-> {},
         db |-> IF incomplete /\ ~speculative THEN db
                ELSE ClearExpiredInputTransactions(d, time)]

GenesisDb ==
    [recorded |-> {}, generated |-> {}, ram |-> [a \in Payer |-> 0],
     correction |-> [a \in Payer |-> 0], replace_deferred |-> FALSE]

\* No block is being built.
NoPending ==
    [time |-> 0, incomplete |-> FALSE, receipts |-> <<>>, metas |-> {}, db |-> GenesisDb]

\* commit_block, as what a block is on the chain
Committed(p) == [time |-> p.time, receipts |-> p.receipts, metas |-> p.metas, db |-> p.db]

\* The input transactions that some blocks apply
MetasOf(blocks) == UNION {blocks[i].metas : i \in DOMAIN blocks}

\* Input transactions and scheduled transactions have receipts of their own.
SameTransaction(r, s) == r[2] = s[2] /\ (r[1] = "input" <=> s[1] = "input")
===============================================================================
