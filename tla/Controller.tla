------------------------------- MODULE Controller -------------------------------
(***************************************************************************)
(* The controller (libraries/chain/controller.cpp): how one node turns the *)
(* blocks it receives or produces into a chain state, a store of           *)
(* reversible blocks and an append-only log of irreversible ones.          *)
(*                                                                         *)
(* All of it runs on one thread, so a handler is never interleaved with    *)
(* another.  It is nevertheless split into one action per block it pops,   *)
(* applies or logs, in the order of the code, because the process may die  *)
(* between any two of them.  pc says where the handler stands; while it    *)
(* is not "idle" only the next step of that handler, or a crash, is        *)
(* enabled.  pc in Failures means that the code has thrown from an         *)
(* assertion that it relies on to hold; the model stops there.             *)
(*                                                                         *)
(* What a transaction does to the state is left out: executing block b     *)
(* takes the state of Prev[b] to the state of b, or fails if b is in Bad.  *)
(* The block log begins with the genesis block and is never empty: a node  *)
(* that starts from a snapshot, or finds its log empty, is in the module   *)
(* ChainStartup.  No handler of a signal makes emit throw.                 *)
(***************************************************************************)
EXTENDS ForkDatabase, Sequences

CONSTANTS
    Bad,           \* blocks that do not execute (apply_block throws)
    Worlds         \* the surroundings in which a node is looked at

ASSUME BadAssumption == Bad \subseteq Block \ {Genesis}

\* A world: what may befall the node (see the actions that mention Events), the
\* read modes it may be started in, two bounds, how many blocks the fork database
\* may hold at once and how often the node may be started again, and whether the
\* main thread is known to go on, which only liveness asks.
ASSUME WorldsAssumption ==
    Worlds \subseteq
        [events : SUBSET {"bad", "shutdown", "crash", "replay", "quit", "append",
                          "snapshot"},
         modes : (SUBSET {"head", "irreversible"}) \ {{}},
         room : Nat,
         starts : Nat,
         fair : BOOLEAN]

VARIABLES
    head,          \* controller_impl::head
    states,        \* chainbase: <<committed state, one per undo session...>>,
                   \* each named by the block whose execution it is the result of
    reversible,    \* the reversible block database
    blog,          \* the block log
    pending,       \* whether there is a pending block, with its undo session
    mode,          \* read_mode; "head" stands for head, read-only, speculative
    pc,            \* the point the running handler has reached
    ret,           \* where the caller of maybe_switch_forks goes on
    target,        \* new_head, fork_head or bsp: the block the handler works on
    first, second, \* the two results of fetch_branch_from
    starts,        \* how often the node has been started again
    world          \* the world of this behaviour, which never changes

dbVars == <<states, reversible, blog>>
runVars == <<ret, target, first, second>>
vars == <<fdbVars, head, dbVars, pending, mode, pc, runVars, starts, world>>

Events == world.events
Modes == world.modes
HasRoom == Cardinality(index) < world.room
MayStart == starts < world.starts

Failures == {"assert_revision", "assert_commit", "assert_reversal", "assert_root",
             "assert_prune", "assert_init", "assert_replay", "assert_reapply"}
Running == pc \notin {"down", "wiped"} \cup Failures
Logging == {"log", "logging", "append", "drop"}

-----------------------------------------------------------------------------
(* chainbase, as the controller uses it. *)

Revision == Num[states[1]] + Len(states) - 1

\* database::undo: without an undo session it does nothing.
Undone(s) == IF Len(s) > 1 THEN SubSeq(s, 1, Len(s) - 1) ELSE s

\* database::undo, until the revision is not above n.
UndoneTo(s, n) ==
    LET k == n - Num[s[1]] + 1
    IN  SubSeq(s, 1, IF k < Len(s) THEN k ELSE Len(s))

\* database::commit( n ): the sessions up to revision n can no longer be undone.
Committed(s, n) == SubSeq(s, n - Num[s[1]] + 1, Len(s))

LogHead == blog[Len(blog)]

-----------------------------------------------------------------------------

\* Mutant of Stores: a block that is applied again is not stored again.
StoresOnce == mode # "irreversible" /\ ret # "replay" /\ pc # "reapply"

\* commit_block puts the block in the reversible database unless it came from
\* there, or the mode is irreversible.
Stores == mode # "irreversible" /\ ret # "replay"

\* apply_block with status validated or complete gets past start_block's
\* revision check, executes, and commit_block( false ) finds no block stored
\* under that number.
CanApply(b) ==
    /\ b \notin Bad
    /\ Revision = Num[head]
    /\ Stores => \A r \in reversible : Num[r] # Num[b]

\* Mutant of ApplyBlock: the session of the block is not pushed.
ApplyBlockUndone(b) ==
    /\ states' = states
    /\ reversible' = IF Stores THEN reversible \cup {b} ELSE reversible

\* The effect of apply_block that stays.
ApplyBlock(b) ==
    /\ states' = Append(states, b)
    /\ reversible' = IF Stores THEN reversible \cup {b} ELSE reversible

\* Mutant of PopBlock: the head is not moved.
PopBlockKeepsHead ==
    /\ Prev[head] \in index \cup {root}
    /\ reversible' = {r \in reversible : Num[r] # Num[head]}
    /\ head' = head
    /\ states' = Undone(states)

\* Mutant of PopBlock: the session of the block stays on the stack.
PopBlockKeepsSession ==
    /\ Prev[head] \in index \cup {root}
    /\ reversible' = {r \in reversible : Num[r] # Num[head]}
    /\ head' = Prev[head]
    /\ states' = states

\* pop_block
PopBlock ==
    /\ Prev[head] \in index \cup {root}
    /\ reversible' = {r \in reversible : Num[r] # Num[head]}
    /\ head' = Prev[head]
    /\ states' = Undone(states)

\* mark_valid, which does nothing to a block that is flagged already.
MarkValidOnce(b) ==
    IF b \in validated THEN UNCHANGED fdbVars ELSE MarkValid(b)

\* A handler that throws: back to the main loop, or, while the node is
\* starting, out of the process.
Thrown == IF ret = "idle" THEN "idle" ELSE "down"

-----------------------------------------------------------------------------
(* Receiving a block. *)

\* push_block, up to the decision what to do with the block: it is added to the
\* fork database, and the best block known there is the one to move to.
PushBlock(b) ==
    /\ pc = "idle" /\ ~pending
    /\ b \in Bad => "bad" \in Events
    /\ HasRoom /\ Add(b, FALSE)
    /\ target' \in PendingHead'
    /\ pc' = IF mode = "irreversible" THEN "log" ELSE "switch"
    /\ UNCHANGED <<head, dbVars, pending, mode, ret, first, second, starts, world>>

\* maybe_switch_forks: extend the head, leave it for another branch, or nothing.
SwitchForks ==
    /\ pc = "switch"
    /\ first' = IF Prev[target] = head THEN {target}
                ELSE Branch(target, index) \ Branch(head, index)
    /\ second' = IF Prev[target] = head THEN {}
                 ELSE Branch(head, index) \ Branch(target, index)
    /\ pc' = CASE target = head       -> ret
               [] Prev[target] = head -> "extend"
               [] OTHER               -> IF second' = {} THEN "apply" ELSE "pop"
    /\ UNCHANGED <<fdbVars, head, dbVars, pending, mode, ret, target, starts, world>>

\* One block of the old branch is popped.
PopOld ==
    /\ pc = "pop"
    /\ PopBlock
    /\ pc' = IF head' \in second THEN "pop" ELSE "apply"
    /\ UNCHANGED <<fdbVars, blog, pending, mode, runVars, starts, world>>

\* One block of the new branch is applied and marked valid; after the last one
\* log_irreversible is called, on the fork database's head.
ApplyNew ==
    /\ pc \in {"extend", "apply"}
    /\ \E b \in first :
         /\ Prev[b] = head
         /\ CanApply(b)
         /\ ApplyBlock(b)
         /\ MarkValidOnce(b)
         /\ head' = b
         /\ pc' = IF b = target THEN "log" ELSE pc
         /\ target' = IF b = target THEN fork_head' ELSE target
    /\ UNCHANGED <<blog, pending, mode, ret, first, second, starts, world>>

\* Mutant of ApplyNewThrows: the whole new branch is removed.
ApplyNewThrowsRemovesAll ==
    /\ pc \in {"extend", "apply"}
    /\ \E b \in first : Prev[b] = head /\ ~CanApply(b)
    /\ \E b \in first : Prev[b] \notin first /\ Remove(b)
    /\ pc' = CASE pc = "extend"  -> Thrown
               [] head \in first -> "revert"
               [] OTHER          -> IF second = {} THEN "assert_reversal" ELSE "reapply"
    /\ UNCHANGED <<head, dbVars, pending, mode, runVars, starts, world>>

\* A block of the new branch throws: it is removed together with what is built
\* on it, and the handler throws if it was extending the head, and otherwise
\* restores the old branch.  Having none to restore is undefined behaviour:
\* branches.second.back() is then taken of an empty vector.
ApplyNewThrows ==
    /\ pc \in {"extend", "apply"}
    /\ \E b \in first :
         /\ Prev[b] = head
         /\ ~CanApply(b)
         /\ Remove(b)
    /\ pc' = CASE pc = "extend"  -> Thrown
               [] head \in first -> "revert"
               [] OTHER          -> IF second = {} THEN "assert_reversal" ELSE "reapply"
    /\ UNCHANGED <<head, dbVars, pending, mode, runVars, starts, world>>

\* One block of the new branch is popped again.
PopNew ==
    /\ pc = "revert"
    /\ PopBlock
    /\ pc' = IF head' \in first THEN "revert"
             ELSE IF second = {} THEN "assert_reversal" ELSE "reapply"
    /\ UNCHANGED <<fdbVars, blog, pending, mode, runVars, starts, world>>

\* One block of the old branch is applied again; it executed before, so it has
\* to execute now.
ReapplyOld ==
    /\ pc = "reapply"
    /\ \E b \in second :
         /\ Prev[b] = head
         /\ IF CanApply(b)
            THEN /\ ApplyBlock(b)
                 /\ head' = b
                 /\ pc' = IF \E c \in second : Prev[c] = b THEN "reapply" ELSE Thrown
            ELSE pc' = "assert_reapply" /\ UNCHANGED <<states, reversible, head>>
    /\ UNCHANGED <<fdbVars, blog, pending, mode, runVars, starts, world>>

-----------------------------------------------------------------------------
(* Producing a block. *)

\* start_block, on behalf of the producer or to execute transactions
\* speculatively.
StartBlock ==
    /\ pc = "idle" /\ ~pending /\ mode # "irreversible"
    /\ pending' = TRUE
    /\ pc' = IF Revision = Num[head] THEN "idle" ELSE "assert_revision"
    /\ UNCHANGED <<fdbVars, head, dbVars, mode, runVars, starts, world>>

\* abort_block
AbortBlock ==
    /\ pc = "idle" /\ pending
    /\ pending' = FALSE
    /\ UNCHANGED <<fdbVars, head, dbVars, mode, pc, runVars, starts, world>>

\* finalize_block, sign_block and the beginning of commit_block( true ): the
\* finished block b enters the fork database unvalidated.
CommitBlock(b) ==
    /\ pc = "idle" /\ pending
    /\ b \notin Bad /\ Prev[b] = head
    /\ HasRoom /\ Add(b, FALSE)
    /\ target' = b
    /\ pc' = "commit"
    /\ UNCHANGED <<head, dbVars, pending, mode, ret, first, second, starts, world>>

\* commit_block( true ): the block is validated, and has to become the head.
CommitHead ==
    /\ pc = "commit"
    /\ MarkValidOnce(target)
    /\ head' = fork_head'
    /\ IF head' = target /\ \A r \in reversible : Num[r] # Num[target]
       THEN /\ reversible' = reversible \cup {target}
            /\ pc' = "log"
       ELSE /\ reversible' = reversible
            /\ pc' = "assert_commit"
    /\ UNCHANGED <<states, blog, pending, mode, runVars, starts, world>>

-----------------------------------------------------------------------------
(* log_irreversible *)

\* When log_irreversible has returned, commit_block keeps the session of the
\* block it produced; push_block and replay have none pending.
LogReturns ==
    /\ pc' = ret
    /\ pending' = FALSE
    /\ states' = IF pending THEN Append(states, target) ELSE states

\* The root has to be the last block of the log; nothing more is done if the
\* target (the head, or the pending head in irreversible mode) makes no further
\* block irreversible.
LogStart ==
    /\ pc = "log"
    /\ IF root # LogHead
       THEN pc' = "assert_root" /\ UNCHANGED <<pending, states>>
       ELSE IF Lib[target] > Num[LogHead]
            THEN pc' = "logging" /\ UNCHANGED <<pending, states>>
            ELSE LogReturns
    /\ UNCHANGED <<fdbVars, head, reversible, blog, mode, runVars, starts, world>>

\* Mutant of NextLogged: the block that made it irreversible.
NextLoggedTarget == {target}

\* The block of the target's branch that is next in the log.
NextLogged == {b \in Branch(target, index) : Num[b] = Num[LogHead] + 1}

\* The undo stack s when the logged block b has been committed.
CommitLogged(s, b) == Committed(s, Num[b])

\* Mutant of DroppedNext: the loop does not stop at the block that was logged.
DroppedNextAny ==
    {r \in reversible : \A q \in reversible : Num[r] =< Num[q]}

\* The reversible block that is removed next when the last block has been logged.
DroppedNext ==
    {r \in reversible : /\ Num[r] =< Num[LogHead]
                        /\ \A q \in reversible : Num[r] =< Num[q]}

\* The next block to be logged is committed in chainbase; root_id is then its id.
\* In irreversible mode it is only now executed.
LogCommit ==
    /\ pc = "logging"
    /\ Lib[target] > Num[LogHead]
    /\ \E b \in NextLogged :
         IF mode = "irreversible"
         THEN /\ CanApply(b)
              /\ MarkValidOnce(b)
              /\ head' = b
              /\ states' = CommitLogged(Append(states, b), b)
         ELSE /\ UNCHANGED <<fdbVars, head>>
              /\ states' = CommitLogged(states, b)
    /\ pc' = "append"
    /\ UNCHANGED <<reversible, blog, pending, mode, runVars, starts, world>>

\* blog.append of that block.
LogAppend ==
    /\ pc = "append"
    /\ \E b \in NextLogged : blog' = Append(blog, b)
    /\ pc' = "drop"
    /\ UNCHANGED <<fdbVars, head, states, reversible, pending, mode, runVars, starts, world>>

\* The reversible blocks up to the one logged are removed one by one, the lowest
\* first; then comes the next block.
LogDrop ==
    /\ pc = "drop"
    /\ reversible' = reversible \ DroppedNext
    /\ pc' = IF DroppedNext = {} THEN "logging" ELSE "drop"
    /\ UNCHANGED <<fdbVars, head, states, blog, pending, mode, runVars, starts, world>>

\* fork_db.advance_root( root_id ), after the last block: it must not be
\* refused half way (see ForkDatabase).
LogAdvance ==
    /\ pc = "logging"
    /\ Lib[target] =< Num[LogHead]
    /\ IF fork_head \notin PrunedBy(LogHead)
       THEN AdvanceRoot(LogHead) /\ LogReturns
       ELSE pc' = "assert_prune" /\ UNCHANGED <<fdbVars, pending, states>>
    /\ UNCHANGED <<head, reversible, blog, mode, runVars, starts, world>>

\* In irreversible mode the next block does not execute: the root is advanced
\* over the blocks that were logged, and the exception goes on.
LogApplyThrows ==
    /\ pc = "logging" /\ mode = "irreversible"
    /\ Lib[target] > Num[LogHead]
    /\ \E b \in NextLogged : ~CanApply(b)
    /\ IF root # LogHead THEN AdvanceRoot(LogHead) ELSE UNCHANGED fdbVars
    /\ pc' = Thrown
    /\ UNCHANGED <<head, dbVars, pending, mode, runVars, starts, world>>

\* mark_valid followed by advance_root.
MarkAndAdvance(r) ==
    /\ \E best \in BestOf(index \cap (validated \cup {r})) :
           fork_head' = IF first_preferred(best, fork_head) THEN best ELSE fork_head
    /\ fork_head' \notin PrunedBy(r)
    /\ index' = (index \ {r}) \ PrunedBy(r)
    /\ validated' = (validated \cup {r}) \cap (index' \cup {r})
    /\ root' = r

\* blog.append throws (an I/O error): root_id has already been set to the block
\* that is not in the log, and the root is advanced to it.  If commit_block is
\* the caller it then aborts the block.
LogAppendThrows ==
    /\ pc = "append" /\ "append" \in Events
    /\ \E b \in NextLogged : AdvanceRoot(b)
    /\ pending' = FALSE
    /\ pc' = Thrown
    /\ UNCHANGED <<head, dbVars, mode, runVars, starts, world>>

-----------------------------------------------------------------------------
(* Shutdown, crash and startup. *)

\* The controller is destroyed in an orderly way: a pending block is aborted,
\* chainbase keeps its undo sessions and the fork database is written (module
\* ForkDatabaseFile).  While the node starts, shutdown() is asked before the
\* best branch is applied.
Shutdown ==
    /\ pc \in {"idle", "best"} /\ "shutdown" \in Events
    /\ pc' = "down"
    /\ pending' = FALSE
    /\ UNCHANGED <<fdbVars, head, dbVars, mode, runVars, starts, world>>

\* Chainbase without a state.
Wiped == /\ head' = Genesis
         /\ states' = <<Genesis>>
         /\ pc' = "wiped"

\* --replay-blockchain: only the chainbase files of the state are deleted.
ReplayRequest ==
    /\ pc = "down" /\ "replay" \in Events /\ MayStart
    /\ Wiped
    /\ UNCHANGED <<fdbVars, reversible, blog, pending, mode, runVars, starts, world>>

\* recover_reversible_blocks: the blocks before the first gap.
Recovered(R) ==
    {r \in R : \A q \in R : Num[q] < Num[r] =>
                   \E p \in R : Num[p] = Num[q] + 1}

\* The process dies.  The fork database was in memory only and the state is
\* dirty, so the node is started with --replay-blockchain and
\* --fix-reversible-blocks.
Crash ==
    /\ Running
    /\ "crash" \in Events /\ MayStart
    /\ Wiped
    /\ Reset(Genesis)
    /\ reversible' = Recovered(reversible)
    /\ pending' = FALSE
    /\ UNCHANGED <<blog, mode, runVars, starts, world>>

\* last_block_num of init: the highest block stored in the log or in R.
LastStored(R) ==
    LET stored == {Num[LogHead]} \cup {Num[r] : r \in R}
    IN  CHOOSE n \in stored : \A m \in stored : m =< n

\* The assertions of init, for the head h, the undo stack as found, the stored
\* reversible blocks R and the pending head p.  (That Num[states[1]] is at most
\* Num[h] is what lets the loop around db.undo() end.)
StartAssertions(m, h, R, p) ==
    /\ pc = "down" => Num[root] =< Num[LogHead]
    /\ Num[states[1]] =< Num[h] /\ Num[h] =< Revision
    /\ m # "irreversible" =>
         /\ R # {} => \E r \in R : Num[r] = Num[LogHead] + 1
         /\ Num[h] =< LastStored(R)
         /\ R # {} /\ Num[LogHead] < Num[p] =>
              \E r \in R :
                 IF Num[p] =< LastStored(R)
                 THEN r = p
                 ELSE Num[r] = LastStored(R) /\ r \in Branch(p, index)

\* init, up to the replay.
Start(m) ==
    /\ pc \in {"down", "wiped"} /\ MayStart
    /\ starts' = starts + 1
    /\ mode' = m
    /\ IF m = "irreversible" /\ fork_head # root
       THEN RollbackHeadToRoot ELSE UNCHANGED fdbVars
    /\ head' = IF pc = "wiped" THEN Genesis ELSE fork_head'
    /\ reversible' = IF m = "irreversible" THEN {}
                     ELSE {r \in reversible : Num[r] > Num[LogHead]}
    /\ states' = UndoneTo(states, Num[head'])
    /\ pc' = IF \A p \in PendingHead' : StartAssertions(m, head', reversible', p)
             THEN CASE Num[LogHead] > Num[head']              -> "replay_log"
                    [] Num[LogHead] =< Num[head']
                       /\ LastStored(reversible') > Num[head'] -> "replay_rev"
                    [] OTHER                                  -> "best"
             ELSE "assert_init"
    /\ ret' = "replay"
    /\ UNCHANGED <<blog, pending, target, first, second, world>>

\* Mutant of ReplayLogged: the block below the head is read.
ReplayLoggedBelow ==
    /\ pc = "replay_log"
    /\ Num[head] < Num[LogHead]
    /\ head' = Prev[head]
    /\ states' = <<head'>>
    /\ UNCHANGED <<fdbVars, reversible, blog, pending, mode, pc, runVars, starts, world>>

\* replay_push_block( irreversible ), without an undo session.
ReplayLogged ==
    /\ pc = "replay_log"
    /\ Num[head] < Num[LogHead]
    /\ head' = blog[Num[head] + 1 - Num[blog[1]] + 1]
    /\ states' = <<head'>>
    /\ UNCHANGED <<fdbVars, reversible, blog, pending, mode, pc, runVars, starts, world>>

\* The fork database is brought to the last block replayed from the log.
SyncForkDatabase ==
    IF Num[head] < Num[root] \/ \E p \in PendingHead : Num[p] < Num[head]
    THEN Reset(head)
    ELSE IF Num[head] = Num[root]
         THEN UNCHANGED fdbVars
         ELSE \E p \in PendingHead : \E r \in Branch(p, index) :
                  Num[r] = Num[head] /\ MarkAndAdvance(r)

\* replay, when the log is exhausted or a shutdown has been requested.
ReplayLogEnds(quit) ==
    /\ pc \in {"replay_log", "replay_rev"}
    /\ IF quit THEN "quit" \in Events ELSE Num[head] >= Num[LogHead]
    /\ IF pc = "replay_log" THEN SyncForkDatabase ELSE UNCHANGED fdbVars
    /\ pc' = IF quit THEN "down" ELSE "replay"
    /\ UNCHANGED <<head, dbVars, pending, mode, runVars, starts, world>>

\* replay_push_block( validated ) of the next reversible block: it is added to
\* the fork database unless it is there, and executed on top of the head.
ReplayReversible ==
    /\ pc = "replay"
    /\ \E b \in reversible :
         /\ Num[b] = Num[head] + 1
         /\ IF Prev[b] = head
            THEN /\ IF b \in index THEN UNCHANGED fdbVars ELSE Add(b, FALSE)
                 /\ target' = b
                 /\ pc' = "switch"
            ELSE UNCHANGED <<fdbVars, target>> /\ pc' = "assert_replay"
    /\ UNCHANGED <<head, dbVars, pending, mode, ret, first, second, starts, world>>

ReplayEnds ==
    /\ pc = "replay"
    /\ \A r \in reversible : Num[r] # Num[head] + 1
    /\ pc' = "best"
    /\ UNCHANGED <<fdbVars, head, dbVars, pending, mode, runVars, starts, world>>

\* The end of init: after a change from irreversible mode the branches that the
\* fork database holds are tried, best first, until its head is its best block.
ApplyBest ==
    /\ pc \in {"best", "best_loop"}
    /\ \E p \in PendingHead :
         IF \/ p = fork_head
            \/ pc = "best" /\ (mode = "irreversible" \/ fork_head # root)
         THEN pc' = "idle" /\ ret' = "idle" /\ target' = target
         ELSE pc' = "switch" /\ ret' = "best_loop" /\ target' = p
    /\ UNCHANGED <<fdbVars, head, dbVars, pending, mode, first, second, starts, world>>

-----------------------------------------------------------------------------

\* A node on a new chain: the state and the fork database are those of the
\* genesis block, which is also the first block of the log.
ControllerInit ==
    /\ world \in Worlds
    /\ Init
    /\ head = Genesis
    /\ states = <<Genesis>> /\ reversible = {} /\ blog = <<Genesis>>
    /\ pending = FALSE
    /\ mode \in Modes
    /\ pc = "idle" /\ ret = "idle"
    /\ target = Genesis /\ first = {} /\ second = {}
    /\ starts = 0

\* The steps of a handler that has begun.
Step ==
    \/ SwitchForks
    \/ PopOld
    \/ ApplyNew
    \/ ApplyNewThrows
    \/ PopNew
    \/ ReapplyOld
    \/ CommitHead
    \/ LogStart
    \/ LogCommit
    \/ LogAppend
    \/ LogDrop
    \/ LogAdvance
    \/ LogApplyThrows
    \/ ReplayLogged
    \/ ReplayLogEnds(FALSE)
    \/ ReplayReversible
    \/ ReplayEnds
    \/ ApplyBest

ControllerNext ==
    \/ Step
    \/ LogAppendThrows
    \/ \E b \in Block : PushBlock(b)
    \/ StartBlock
    \/ AbortBlock
    \/ \E b \in Block : CommitBlock(b)
    \/ Shutdown
    \/ ReplayLogEnds(TRUE)
    \/ ReplayRequest
    \/ Crash
    \/ \E m \in Modes : Start(m)

-----------------------------------------------------------------------------

\* The block log can be written.  Where it can not, an append that fails leaves
\* the root ahead of the log ("assert_root") and the node can not go on, so that
\* only what is on disk counts.
LogWorks == "append" \notin Events

\* The chain state is being rebuilt from the block log.
Replaying == pc = "replay_log"

ControllerTypeOK ==
    /\ TypeOK
    /\ head \in Block /\ target \in Block
    /\ states \in Seq(Block) /\ blog \in Seq(Block)
    /\ reversible \subseteq Block
    /\ pending \in BOOLEAN
    /\ mode \in Modes
    /\ pc \in {"idle", "switch", "extend", "pop", "apply", "revert", "reapply",
               "commit", "log", "logging", "append", "drop", "down", "wiped", "replay_log",
               "replay_rev", "replay", "best", "best_loop"} \cup Failures
    /\ ret \in {"idle", "replay", "best_loop"}
    /\ first \subseteq Block /\ second \subseteq Block
    /\ starts \in 0..world.starts
    /\ world \in Worlds

\* No assertion that the controller relies on ever throws, in any order of
\* received and produced blocks, failing forks, crashes and restarts that a world
\* admits (see MCController for the combinations the runs leave out): "db
\* revision is not on par with head block", "committed block did not become the
\* new head in fork database", "fork database root does not match block log
\* head", the two "loss of sync between fork_db and chainbase", the head inside
\* a pruned branch in advance_root, and the consistency checks of init.
AssertionsHold == LogWorks => pc \notin Failures

\* At every point, also half way through a fork switch, the undo stack holds
\* exactly the states of the blocks from the last irreversible one to the head,
\* so that popping a block gives the state of its predecessor.  Only while a
\* block of this node's own is being committed is its session still pending, and
\* only while a block is appended to the log is the stack one block ahead of it.
StateMatchesHead ==
    LogWorks /\ Running /\ ~Replaying =>
        /\ IF pc = "append" THEN states[1] \in NextLogged ELSE states[1] = LogHead
        /\ \A i \in 2..Len(states) : Prev[states[i]] = states[i - 1]
        /\ states[Len(states)] =
               IF pending /\ pc \in Logging THEN Prev[head] ELSE head

\* No assertion throws and the undo stack follows the head (AssertionsHold and
\* StateMatchesHead), in types.
StateConsistent == ControllerTypeOK /\ AssertionsHold /\ StateMatchesHead

\* What is on disk always suffices to get back to the head: the log followed by
\* the reversible blocks above it is a chain without gaps, whenever the process
\* dies.
DiskHoldsChain ==
    LET above == {r \in reversible : Num[r] > Num[LogHead]}
    IN  /\ \A r \in above : Prev[r] \in above \cup {LogHead}
        /\ \A r, q \in above : Num[r] = Num[q] => r = q

\* That chain ends in the head when no handler is running.
DiskHoldsHead ==
    LogWorks /\ pc = "idle" =>
        /\ head \in reversible \cup {LogHead}
        /\ \A r \in reversible : Num[r] =< Num[head]

\* What is on disk leads to the head (DiskHoldsChain and DiskHoldsHead).
DiskConsistent == DiskHoldsChain /\ DiskHoldsHead

\* When no handler is running no block that the node knows is preferred to the
\* head: a fork switch that fails, and an exception in a handler, leave it on the
\* best block that has not failed.  (In irreversible mode the head is the last
\* irreversible block instead.)
HeadIsBestKnown ==
    LogWorks /\ pc = "idle" =>
        IF mode = "irreversible"
        THEN head = LogHead /\ fork_head = head
        ELSE \A b \in index : ~first_preferred(b, head)

\* A block leaves the fork database only because it, or one it is built on, does
\* not execute, because another block of its height has become irreversible, or
\* because the process has died: in particular an aborted fork switch does not
\* drop the blocks of either branch that are good.
GoodBlocksStay ==
    [][LogWorks => \A b \in index \ index' :
          \/ \E a \in Branch(b, index) : a \in Bad
          \/ root' # root
          \/ pc' = "wiped"]_vars

\* Every handler, and every startup, comes to an end if the main thread goes on.
HandlersReturn ==
    (world.fair /\ LogWorks /\ pc \notin {"idle", "down", "wiped"}) ~>
        (pc \in {"idle", "down", "wiped"})

\* The log as an append-only ledger of executable blocks, each built on the
\* last (module IrreversibleLedger).
Ledger == INSTANCE IrreversibleLedger WITH ledger <- blog
LedgerSpec == Ledger!Spec

\* init: what the node finds when it starts is consistent ("fork database head is
\* inconsistent with state", "mismatch in block id of pending head block ... in
\* reversible blocks database").
InitConsistent == pc # "assert_init"

-----------------------------------------------------------------------------
(***************************************************************************)
(* Snapshots taken while the node runs (producer_plugin::create_snapshot,  *)
(* pending_snapshot, on_irreversible_block), on top of the controller.     *)
(* A snapshot of the head block is written at once and kept aside until a  *)
(* block of its height becomes irreversible; then it gets its final name   *)
(* if its block is still in the chain, and is discarded if it is not.      *)
(***************************************************************************)

CONSTANT MaxSnapshots   \* bound: how many snapshots are ever taken

VARIABLES
    waiting,     \* _pending_snapshot_index: the blocks that have been written
    final,       \* the blocks whose snapshot has its final name
    discarded    \* history: the blocks whose snapshot was thrown away

snapshotVars == <<waiting, final, discarded>>

\* Mutant of InChain: the fork database only.
InChainForkDatabase(b) == b \in index

\* controller::fetch_block_by_id: any block of the fork database, or the block
\* of that number in the block log.  (A block in the reversible database is in
\* the fork database too.)
InChain(b) == b \in index \/ \E i \in DOMAIN blog : blog[i] = b

\* The block for which log_irreversible emits irreversible_block in this step:
\* before it is appended, and before the fork database's root moves.
Emitted == {b \in NextLogged : pc = "logging" /\ pc' = "append"}

\* on_irreversible_block: the pending snapshots up to that height are
\* finalized.  A process that ends forgets them.
SnapshotsFollow ==
    LET due == {p \in waiting : \E b \in Emitted : Num[p] =< Num[b]}
    IN  /\ waiting' = IF pc' \in {"down", "wiped"} THEN {} ELSE waiting \ due
        /\ final' = final \cup {p \in due : InChain(p)}
        /\ discarded' = discarded \cup {p \in due : ~InChain(p)}

\* create_snapshot: aborts a pending block; in irreversible mode the snapshot
\* is final at once.  A second request for the same block joins the first.
CreateSnapshot ==
    /\ pc = "idle" /\ "snapshot" \in Events
    /\ head \notin final
    /\ Cardinality(waiting \cup final \cup discarded) < MaxSnapshots
    /\ IF mode = "irreversible"
       THEN final' = final \cup {head} /\ waiting' = waiting
       ELSE waiting' = waiting \cup {head} /\ final' = final
    /\ pending' = (pending /\ mode # "irreversible" /\ head \in waiting)
    /\ UNCHANGED <<fdbVars, head, dbVars, mode, pc, runVars, starts, world,
                   discarded>>

SnapshotsInit ==
    /\ ControllerInit
    /\ waiting = {}
    /\ final = {}
    /\ discarded = {}

SnapshotsNext == CreateSnapshot \/ (ControllerNext /\ SnapshotsFollow)

SnapshotsSpec == SnapshotsInit /\ [][SnapshotsNext]_<<vars, snapshotVars>>

\* In a fair world a handler that has begun goes on: it has the main thread to itself.
FairSnapshotsSpec == SnapshotsSpec /\ WF_vars(world.fair /\ Step)

-----------------------------------------------------------------------------

\* A snapshot whose block becomes irreversible is never thrown away as forked
\* out of the chain.
GoodSnapshotsKept == \A i \in DOMAIN blog : blog[i] \notin discarded

\* Good blocks stay in the fork database and good snapshots are not thrown away
\* (GoodBlocksStay and GoodSnapshotsKept).
GoodKept == GoodBlocksStay /\ []GoodSnapshotsKept
================================================================================
