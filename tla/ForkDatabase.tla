------------------------------ MODULE ForkDatabase ------------------------------
(***************************************************************************)
(* fork_database (libraries/chain/fork_database.cpp): the tree of blocks   *)
(* that are not yet irreversible.  It is only ever entered from the main   *)
(* thread, so each member function is one atomic action.  A call that      *)
(* throws before it has changed anything is a step that does not happen.   *)
(* The one call that can throw half way is advance_root, when the head     *)
(* does not descend from the new root; AdvanceRoot has that as a guard,    *)
(* and module Controller shows that its caller always meets it.            *)
(*                                                                         *)
(* Close and open are in module ForkDatabaseFile.                          *)
(***************************************************************************)
EXTENDS BlockTree

CONSTANT MaxIndex   \* bound: the most blocks the index may hold at once

ASSUME MaxIndexAssumption == MaxIndex \in Nat

VARIABLES
    index,       \* the blocks in the multi-index
    validated,   \* the blocks of index \cup {root} whose validated flag is set
    root,        \* the last irreversible block; never in the index
    fork_head    \* fork_database::head

fdbVars == <<index, validated, root, fork_head>>

-----------------------------------------------------------------------------

\* Mutant of Add: the block that is added becomes the head at once.
AddTakesNewest(n, asValid) ==
    /\ n \notin index
    /\ Prev[n] \in index \cup {root}
    /\ index' = index \cup {n}
    /\ validated' = IF asValid THEN validated \cup {n} ELSE validated
    /\ fork_head' = n
    /\ root' = root

\* add: the block must link to the root or to a block of the index, and a
\* duplicate is refused.  The head is then set to the first element of
\* by_lib_block_num if that element is validated, with no comparison against
\* the present head.  asValid is the flag the block state arrives with: FALSE
\* from every caller in a running node, also for a block the node has built
\* itself; TRUE only for a flagged block that open reads back from the file.
Add(n, asValid) ==
    /\ n \notin index
    /\ Prev[n] \in index \cup {root}
    /\ index' = index \cup {n}
    /\ validated' = IF asValid THEN validated \cup {n} ELSE validated
    /\ LET best == BestOf(index' \cap validated')
       IN  IF index' \cap validated' = {}
           THEN fork_head' = fork_head
           ELSE fork_head' \in best
    /\ root' = root

\* Mutant of MarkValid: the head follows the block that was just validated.
MarkValidTakesHead(b) ==
    /\ b \in index \ validated
    /\ validated' = validated \cup {b}
    /\ fork_head' = b
    /\ UNCHANGED <<index, root>>

\* mark_valid: returns at once if the flag is set; otherwise sets it and moves
\* the head only to a strictly preferred block.
MarkValid(b) ==
    /\ b \in index \ validated
    /\ validated' = validated \cup {b}
    /\ \E best \in BestOf(index \cap validated') :
           fork_head' = IF first_preferred(best, fork_head) THEN best ELSE fork_head
    /\ UNCHANGED <<index, root>>

\* Mutant of Remove: only the block itself is erased.
RemoveOnlyBlock(id) ==
    /\ fork_head # id
    /\ index' = index \ {id}
    /\ validated' = validated \ {id}
    /\ UNCHANGED <<root, fork_head>>

\* remove: drops id and everything built on it, and throws, before anything is
\* erased, if the head is among them.
Remove(id) ==
    LET gone == Descendants(id, index)
    IN  /\ fork_head \notin gone
        /\ index' = index \ gone
        /\ validated' = validated \ gone
        /\ UNCHANGED <<root, fork_head>>

\* The blocks advance_root( id ) erases by calling remove on each ancestor of
\* id, the root last: all that is still reachable from the root once id has
\* been erased on its own.
PrunedBy(id) == Descendants(root, index \ {id})

\* Mutant of AdvanceRoot: the new root is erased with remove, so that the
\* blocks built on it go too.
AdvanceRootRemovesAll(id) ==
    /\ id \in index \cap validated
    /\ fork_head \notin PrunedBy(id)
    /\ index' = index \ Descendants(root, index)
    /\ validated' = {id}
    /\ root' = id
    /\ fork_head' = id

\* advance_root: id must be in the index and validated.  Everything that does
\* not descend from id goes, and id becomes the root.
AdvanceRoot(id) ==
    /\ id \in index \cap validated
    /\ fork_head \notin PrunedBy(id)
    /\ index' = (index \ {id}) \ PrunedBy(id)
    /\ validated' = validated \cap (index' \cup {id})
    /\ root' = id
    /\ fork_head' = fork_head

\* rollback_head_to_root
RollbackHeadToRoot ==
    /\ validated' = {root}
    /\ fork_head' = root
    /\ UNCHANGED <<index, root>>

\* Mutant of Reset: starts from the header's predecessor.
ResetToPrevious(b) ==
    /\ index' = {}
    /\ validated' = {Prev[b]}
    /\ root' = Prev[b]
    /\ fork_head' = Prev[b]

\* reset
Reset(b) ==
    /\ index' = {}
    /\ validated' = {b}
    /\ root' = b
    /\ fork_head' = b

\* Mutant of PendingHead: the validated head.
PendingHeadValidated == {fork_head}

\* pending_head: the best block that is not validated if it is strictly
\* preferred to the head, otherwise the head.  (A singleton.)
PendingHead ==
    IF index \subseteq validated
    THEN {fork_head}
    ELSE {IF first_preferred(b, fork_head) THEN b ELSE fork_head :
              b \in BestOf(index \ validated)}

-----------------------------------------------------------------------------

Init == /\ index = {}
        /\ validated = {Genesis}
        /\ root = Genesis
        /\ fork_head = Genesis

\* reset is called on a running database only by a replay that has left the
\* block range it covers.
ResetOnReplay(b) ==
    /\ \/ \E p \in PendingHead : Num[b] > Num[p]
       \/ Num[b] < Num[root]
    /\ Reset(b)

\* The bound: the code's index grows without limit between two irreversible
\* blocks.
Room == Cardinality(index) < MaxIndex

Next ==
    \/ \E b \in Block : Room /\ Add(b, FALSE)
    \/ \E b \in Block : MarkValid(b)
    \/ \E b \in index : Remove(b)
    \/ \E b \in Block : AdvanceRoot(b)
    \/ RollbackHeadToRoot
    \/ \E b \in Block : ResetOnReplay(b)

Spec == Init /\ [][Next]_fdbVars

-----------------------------------------------------------------------------

TypeOK == /\ index \subseteq Block
          /\ validated \subseteq Block
          /\ root \in Block
          /\ fork_head \in Block

\* Every block hangs, through blocks of the index, from the root: remove and
\* advance_root leave no orphans behind ("invariant violation: orphaned branch
\* was present in forked database" can never be thrown), the root is not in
\* the index, and flags are kept for present blocks only.
Rooted == /\ root \notin index
          /\ \A b \in index : Prev[b] \in index \cup {root}
          /\ validated \subseteq index \cup {root}
          /\ root \in validated

\* The head is the root or a validated block that is present, and no validated
\* block is strictly preferred to it: what open asserts of a loaded file
\* ("head not set to best available option available").
HeadIsBest == /\ fork_head \in validated
              /\ \A b \in index \cap validated : ~first_preferred(b, fork_head)

\* A root advance keeps exactly the blocks that descend from the new root, and
\* the new root descends from the old one: no live fork is lost with the
\* pruned ones, and none of the pruned ones stays.
AdvanceKeepsDescendants ==
    [][\A b \in index : AdvanceRoot(b) =>
          /\ root' \in index \cap validated
          /\ index' = Descendants(root', index) \ {root'}]_fdbVars

\* A head that is a block of the index is left for a less preferred one by a
\* rollback or a reset alone, which go to the root: receiving, validating,
\* discarding or finalizing blocks never does it, although add sets the head
\* without comparing.  A head that is the root is outside the order add takes its
\* first element of, and any validated block replaces it.
HeadNeverWorsens ==
    [][first_preferred(fork_head, fork_head') /\ fork_head \in index =>
          fork_head' = root']_fdbVars

\* No step of the fork database but a rollback or a reset leaves a head of the index
\* for a less preferred block, and a root advance keeps exactly the descendants of the new root
\* (HeadNeverWorsens and AdvanceKeepsDescendants).
StepsKeepBest == HeadNeverWorsens /\ AdvanceKeepsDescendants
================================================================================
