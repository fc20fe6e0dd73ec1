------------------------------ MODULE History ------------------------------
(***************************************************************************)
(* history_plugin: which actions, keys and controlling accounts it records *)
(* when the controller signals an applied transaction, and what its        *)
(* queries answer.  Its objects live in the chain's own database, so that  *)
(* aborting or popping a block takes them back.  The handler runs inside   *)
(* the signal: an exception it throws is logged by controller_impl::emit   *)
(* and what it had recorded until then stays.                              *)
(*                                                                         *)
(* A transaction is [id, actions, recorded]: `recorded` when its receipt   *)
(* is executed or soft_fail.  An action trace is [receiver, name, actors,  *)
(* receipt, data]; data is [account, permissions] for newaccount,          *)
(* updateauth and deleteauth of the system contract, permissions being the *)
(* authorities it sets: [keys, accounts] with accounts a sequence, one     *)
(* element per permission level.                                           *)
(***************************************************************************)
EXTENDS Integers, FiniteSets, Sequences, SequencesExt

CONSTANTS
  Accounts, System, Keys,
  Transactions,  \* the transactions that may be applied
  Filters,       \* settings: [bypass, on, out], on and out sets of filter entries
  MaxBlocks,     \* bound on the height of the chain
  MaxInBlock     \* bound on the transactions of a block

VARIABLES
  filter,   \* the setting of the node
  db,       \* the plugin's tables: [actions, byAccount, keys, controls], and the
            \* chain's global sequence `next`
  sessions, \* the undo sessions: the tables and the ghosts when a block started
  building, \* whether a block is being built
  chain     \* ghost: [blocks, complete], the transactions of each block with
            \* the sequence of their first action, and whether no handler threw

historyVars == <<filter, db, sessions, building, chain>>

Blank == ""          \* a blank part of a filter entry

Entry(receiver, action, actor) == <<receiver, action, actor>>

\* The entries that speak of an action whatever its actors, and of one actor.
Unsigned(act) == {Entry(act.receiver, Blank, Blank), Entry(act.receiver, act.name, Blank)}
SignedBy(act, actor) == {Entry(act.receiver, Blank, actor), Entry(act.receiver, act.name, actor)}

Mentioned(act, entries) ==
  (Unsigned(act) \cup UNION {SignedBy(act, a) : a \in act.actors}) \cap entries # {}

\* history_plugin_impl::filter
PassesFilter(act) ==
  /\ filter.bypass \/ Mentioned(act, filter.on)
  /\ ~Mentioned(act, filter.out)

\* account_set
AccountSet(act) ==
  {act.receiver} \cup
  {a \in act.actors :
     /\ filter.bypass \/ (Unsigned(act) \cup SignedBy(act, a)) \cap filter.on # {}
     /\ (Unsigned(act) \cup SignedBy(act, a)) \cap filter.out = {}}

\* record_account_action: the number after the account's last one.
RecordAccountActionGlobal(d, account, seq) ==
  [d EXCEPT !.byAccount[account] = Append(@, [seq |-> seq, num |-> seq])]
RecordAccountAction(d, account, seq) ==
  [d EXCEPT !.byAccount[account] =
     Append(@, [seq |-> seq, num |-> IF @ = <<>> THEN 0 ELSE Last(@).num + 1])]

RECURSIVE RecordAccounts(_, _, _)
RecordAccounts(d, accounts, seq) ==
  IF accounts = {} THEN d
  ELSE LET a == CHOOSE x \in accounts : TRUE
       IN  RecordAccounts(RecordAccountAction(d, a, seq), accounts \ {a}, seq)

\* remove: both tables' rows of a permission.
RemoveAuth(d, account, permission) ==
  [d EXCEPT !.keys = {k \in @ : <<k.account, k.permission>> # <<account, permission>>},
            !.controls = {c \in @ : <<c.account, c.permission>> # <<account, permission>>}]

AddKeys(d, account, permission, keys) ==
  [d EXCEPT !.keys = @ \cup {[account |-> account, permission |-> permission, key |-> k] : k \in keys}]

\* add for the controlling accounts: by_controlled_authority is unique in
\* (controlled account, permission, controlling account), and creating a
\* second such row throws.
RECURSIVE AddControls(_, _, _, _)
AddControls(d, account, permission, accounts) ==
  IF accounts = <<>> \/ d.thrown THEN d
  ELSE LET c == [account |-> account, permission |-> permission, by |-> Head(accounts)]
       IN  IF c \in d.controls THEN [d EXCEPT !.thrown = TRUE]
           ELSE AddControls([d EXCEPT !.controls = @ \cup {c}], account, permission, Tail(accounts))

AddAuth(d, account, permission, auth) ==
  AddControls(AddKeys(d, account, permission, auth.keys), account, permission, auth.accounts)

\* on_system_action
OnSystemAction(d, act) ==
  LET who == act.data.account
      auths == act.data.permissions
  IN  CASE act.name = "newaccount" ->
             LET owner == AddAuth(d, who, "owner", auths["owner"])
             IN  IF owner.thrown THEN owner ELSE AddAuth(owner, who, "active", auths["active"])
        [] act.name = "updateauth" ->
             LET p == CHOOSE x \in DOMAIN auths : TRUE
             IN  AddAuth(RemoveAuth(d, who, p), who, p, auths[p])
        [] act.name = "deleteauth" ->
             LET p == CHOOSE x \in DOMAIN auths : TRUE IN RemoveAuth(d, who, p)
        [] OTHER -> d

\* on_action_trace
OnActionTrace(d, act, seq, id) ==
  LET tracked ==
        IF PassesFilter(act)
        THEN RecordAccounts([d EXCEPT !.actions = @ \cup
                               {[seq |-> seq, block |-> Len(chain.blocks), trx |-> id]}],
                            AccountSet(act), seq)
        ELSE d
  IN  IF act.receiver = System THEN OnSystemAction(tracked, act) ELSE tracked

\* on_applied_transaction: the loop over the traces, left by an exception.
RECURSIVE OnTraces(_, _, _)
OnTraces(d, acts, id) ==
  IF acts = <<>> THEN d
  ELSE LET act == Head(acts)
           seen == IF ~act.receipt \/ d.thrown THEN d ELSE OnActionTrace(d, act, d.next, id)
       IN  OnTraces([seen EXCEPT !.next = @ + (IF act.receipt THEN 1 ELSE 0)], Tail(acts), id)

OnAppliedTransaction(d, t) ==
  IF ~t.recorded THEN d ELSE [OnTraces(d, t.actions, t.id) EXCEPT !.thrown = FALSE]

Throws(d, t) == t.recorded /\ OnTraces(d, t.actions, t.id).thrown

-----------------------------------------------------------------------------
(* The chain the plugin follows. *)

\* The executed actions of the current chain, in order, with their block.
Traced(x, block) ==
  LET ran == SelectSeq(x.trx.actions, LAMBDA a : a.receipt)
  IN  IF ~x.trx.recorded THEN <<>>
      ELSE [i \in 1 .. Len(ran) |->
              [act |-> ran[i], seq |-> x.first + i - 1, block |-> block, trx |-> x.trx.id]]

Executed ==
  FlattenSeq([b \in 1 .. Len(chain.blocks) |->
    FlattenSeq([i \in 1 .. Len(chain.blocks[b]) |-> Traced(chain.blocks[b][i], b)])])

\* The authorities of the chain's permissions after a sequence of actions.
RECURSIVE Auths(_)
Auths(acts) ==
  IF acts = <<>> THEN [p \in {} |-> {}]
  ELSE LET before == Auths(Front(acts))
           act == Last(acts).act
           names == {<<act.data.account, p>> : p \in DOMAIN act.data.permissions}
       IN  IF act.receiver # System THEN before
           ELSE IF act.name \in {"newaccount", "updateauth"}
           THEN [x \in DOMAIN before \cup names |->
                   IF x \in names THEN act.data.permissions[x[2]] ELSE before[x]]
           ELSE IF act.name = "deleteauth" THEN [x \in DOMAIN before \ names |-> before[x]]
           ELSE before

\* What the system contract lets through: a new account once, and changes of
\* the permissions of an account that exists.
Allowed(t) ==
  LET auths == Auths(Executed)
  IN  \A act \in Range(t.actions) :
        /\ act.name = "newaccount" => <<act.data.account, "owner">> \notin DOMAIN auths
        /\ act.name = "updateauth" => <<act.data.account, "owner">> \in DOMAIN auths
        /\ act.name = "deleteauth" =>
             \A p \in DOMAIN act.data.permissions : <<act.data.account, p>> \in DOMAIN auths

-----------------------------------------------------------------------------
(* The controller: blocks are started, filled, committed, aborted, popped. *)

StartBlock ==
  /\ ~building /\ Len(chain.blocks) < MaxBlocks
  /\ building' = TRUE
  /\ sessions' = Append(sessions, [db |-> db, chain |-> chain])
  /\ chain' = [chain EXCEPT !.blocks = Append(@, <<>>)]
  /\ UNCHANGED <<filter, db>>

ApplyTransaction ==
  /\ building /\ Len(Last(chain.blocks)) < MaxInBlock
  /\ \E t \in Transactions :
       /\ \A b \in Range(chain.blocks) : \A x \in Range(b) : x.trx.id # t.id
       /\ Allowed(t)
       /\ db' = OnAppliedTransaction(db, t)
       /\ chain' = [blocks |-> [chain.blocks EXCEPT ![Len(chain.blocks)] =
                                  Append(@, [trx |-> t, first |-> db.next])],
                    complete |-> chain.complete /\ ~Throws(db, t)]
  /\ UNCHANGED <<filter, sessions, building>>

CommitBlock ==
  /\ building /\ building' = FALSE
  /\ UNCHANGED <<filter, db, sessions, chain>>

\* abort_block and pop_block: the session of the block is undone.
UndoBlock ==
  /\ sessions # <<>>
  /\ db' = Last(sessions).db
  /\ chain' = Last(sessions).chain
  /\ sessions' = Front(sessions)
  /\ building' = FALSE
  /\ UNCHANGED filter

Irreversible ==
  /\ ~building /\ sessions # <<>>
  /\ sessions' = Tail(sessions)
  /\ UNCHANGED <<filter, db, building, chain>>

HistoryInit ==
  /\ filter \in Filters
  /\ db = [actions |-> {}, byAccount |-> [a \in Accounts |-> <<>>], keys |-> {},
           controls |-> {}, next |-> 1, thrown |-> FALSE]
  /\ sessions = <<>> /\ building = FALSE
  /\ chain = [blocks |-> <<>>, complete |-> TRUE]

HistoryNext == StartBlock \/ ApplyTransaction \/ CommitBlock \/ UndoBlock \/ Irreversible

HistorySpec == HistoryInit /\ [][HistoryNext]_historyVars

-----------------------------------------------------------------------------
(* The queries. *)

LastNum(account) ==
  IF db.byAccount[account] = <<>> THEN -1 ELSE Last(db.byAccount[account]).num

\* get_actions: pos -1 is the end; the range is closed at both ends.  (An
\* answer cut short after 100 ms says so and is left out.)
GetActions(account, pos, offset) ==
  LET from  == IF pos = -1 /\ LastNum(account) >= 0 THEN LastNum(account) + 1
               ELSE IF pos = -1 THEN 268435455 ELSE pos
      start == IF offset > 0 THEN from ELSE from + offset
      end   == IF offset > 0 THEN from + offset ELSE from
  IN  SelectSeq(db.byAccount[account], LAMBDA r : start <= r.num /\ r.num <= end)

\* get_transaction by an id or by enough of it to name one transaction: the block of the recorded actions, or the
\* block of the hint when it holds the transaction; 0 when not found.
GetTransaction(id, hint) ==
  IF \E a \in db.actions : a.trx = id
  THEN (CHOOSE a \in db.actions : a.trx = id).block
  ELSE IF /\ hint \in 1 .. Len(chain.blocks) - (IF building THEN 1 ELSE 0)
          /\ \E x \in Range(chain.blocks[hint]) : x.trx.id = id
       THEN hint ELSE 0

GetKeyAccounts(key) == {k.account : k \in {x \in db.keys : x.key = key}}
GetControlledAccounts(by) == {c.account : c \in {x \in db.controls : x.by = by}}

-----------------------------------------------------------------------------
\* The option texts: an entry matches an action of its receiver, its action
\* unless blank and one of its actors unless blank.
Matches(e, act) ==
  e[1] = act.receiver /\ e[2] \in {Blank, act.name} /\ (e[3] = Blank \/ e[3] \in act.actors)

Tracked(act, account) ==
  /\ \A e \in filter.out : ~Matches(e, act)
  /\ \/ /\ account = act.receiver
        /\ filter.bypass \/ \E e \in filter.on : Matches(e, act)
     \/ /\ account \in act.actors
        /\ filter.bypass \/ \E e \in filter.on : Matches(e, act) /\ e[3] \in {Blank, account}

(***************************************************************************)
(* The history is the history of the current chain, across aborted and     *)
(* popped blocks, as long as no handler threw: every account has exactly   *)
(* the executed actions the filters track for it, in order and numbered    *)
(* from 0 without a gap (the last n are what get_actions returns for       *)
(* offset -n); get_transaction finds the block the transaction is in; and  *)
(* the accounts a key or an account is said to control are those whose     *)
(* authorities name it now.                                                *)
(***************************************************************************)
HistoryFollowsChain ==
  chain.complete =>
  LET run == Executed
      auths == Auths(run)
  IN  /\ \A a \in Accounts :
           LET mine == SelectSeq(run, LAMBDA x : Tracked(x.act, a))
           IN  /\ db.byAccount[a] =
                    [i \in 1 .. Len(mine) |-> [seq |-> mine[i].seq, num |-> i - 1]]
               /\ \A n \in 1 .. Len(mine) :
                    GetActions(a, -1, -n) =
                      SubSeq(db.byAccount[a], Len(mine) - n + 1, Len(mine))
               /\ \A i \in 1 .. Len(mine) : GetTransaction(mine[i].trx, 0) = mine[i].block
      /\ \A k \in Keys :
           GetKeyAccounts(k) = {p[1] : p \in {x \in DOMAIN auths : k \in auths[x].keys}}
      /\ \A a \in Accounts :
           GetControlledAccounts(a) =
             {p[1] : p \in {x \in DOMAIN auths : a \in Range(auths[x].accounts)}}

\* "An action will be included in the account's history if any of the
\* following: receiver, any account named in auth list" (the plugin's
\* description): with no filter, every executed action of the chain is in the
\* history of its receiver and of its actors.
ActionsIncluded ==
  filter.bypass /\ filter.out = {} =>
    \A x \in Range(Executed) : \A a \in {x.act.receiver} \cup x.act.actors :
      \E r \in Range(db.byAccount[a]) : r.seq = x.seq

\* get_actions_params::offset: "negative numbers return [pos-offset,pos),
\* positive numbers return [pos,pos+offset)".
PageAsDocumented ==
  \A a \in Accounts : \A pos \in 0 .. 2 : \A offset \in 1 .. 2 :
    \A r \in Range(GetActions(a, pos, offset)) : pos <= r.num /\ r.num < pos + offset
=============================================================================
