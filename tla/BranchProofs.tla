------------------------------ MODULE BranchProofs ------------------------------
(***************************************************************************)
(* The block log as a ledger, for every tree of blocks, every set of       *)
(* blocks that do not execute and every world: the invariant, and the      *)
(* handlers that add blocks, switch between branches and produce.          *)
(* ControllerProofs goes on from here to the theorem.                      *)
(*                                                                         *)
(* log_irreversible appends, without looking at their ids, the blocks of   *)
(* the head's branch that follow the log's last block in number, so that   *)
(* the theorem rests on where the handlers leave the head, the flags and   *)
(* the root: that is ControllerInv.                                        *)
(***************************************************************************)
EXTENDS Controller, ForkDatabaseProofs

\* The blocks of the log.
Logged == {blog[i] : i \in 1..Len(blog)}

\* The log is numbered without gaps from the genesis block on, and holds only
\* blocks that execute.
LogRight ==
    /\ blog \in Seq(Block) /\ Len(blog) >= 1 /\ blog[1] = Genesis
    /\ \A i \in 1..Len(blog) : Num[blog[i]] = Num[Genesis] + i - 1 /\ blog[i] \notin Bad

\* Blocks flagged valid execute, and all they are built on is flagged too.
ValidRight ==
    /\ validated \cap Bad = {}
    /\ \A b \in validated \ {root} : Prev[b] \in validated

\* The head is flagged valid unless it is not built on the root at all, as while the
\* log is replayed or when the root has been advanced past it; it is always in the
\* fork database when it is about to be popped.
HeadRight ==
    /\ head \in Block
    /\ IF pc = "replay_log" THEN head \in Logged
       ELSE head \in Descendants(root, Block) => head \in validated
    /\ pc \in {"pop", "revert"} => head \in validated

\* What a handler has set aside for its later steps: the block it moves to is in the
\* fork database; the branch it leaves is flagged valid and survives the removal of
\* any block of the new one; a block this node has produced executes.
HandlerRight ==
    /\ ret \in {"idle", "replay", "best_loop"}
    /\ pc \in {"switch", "log", "logging", "append", "drop"} => target \in index \cup {root}
    /\ pc \in {"extend", "pop", "apply"} =>
           /\ first \subseteq index \cup {root}
           /\ \A b \in first : Descendants(b, index) \cap second = {}
    /\ pc \in {"extend", "pop", "apply", "revert", "reapply"} => second \subseteq validated
    /\ pc = "commit" => target \in index \ Bad /\ Prev[target] = head

\* While blocks are logged the last of them is on the target's branch, and a block
\* that is about to be appended has been flagged.
LoggingRight ==
    /\ pc \in {"log", "logging", "append", "drop"} /\ mode # "irreversible" =>
           target \in validated
    /\ pc \in {"logging", "append", "drop"} =>
           LogHead \in validated \cap (Branch(target, index) \cup {root})
    /\ pc = "append" => NextLogged \subseteq validated

\* The root is a block of the log or ahead of it.  Outside log_irreversible it is
\* behind the log's last block only where the fork database has nothing else, which
\* is how a process that has died finds it.
RootRight ==
    /\ root \in Logged \/ Num[root] > Num[LogHead]
    /\ pc \in {"down", "wiped", "replay_log"} /\ Num[root] < Num[LogHead] => index = {}
    /\ pc \notin {"logging", "append", "drop", "down", "wiped", "replay_log"} \cup Failures =>
           Num[root] >= Num[LogHead]

ControllerInv ==
    /\ FdbInv /\ LogRight /\ ValidRight /\ HeadRight
    /\ HandlerRight /\ LoggingRight /\ RootRight

-----------------------------------------------------------------------------
(* The operations of the fork database, as the controller uses them. *)

\* What the lemmas below preserve.
FlagsInv == FdbInv /\ ValidRight

\* A block that is added arrives without a flag, and nothing else changes.
LEMMA AddKeepsFlags ==
    ASSUME FlagsInv, NEW n \in Block, Add(n, FALSE)
    PROVE  FlagsInv' /\ index' = index \cup {n} /\ validated' = validated /\ root' = root
<1>1. FdbInv'
  BY AddSafe, ZenonT(30) DEF FlagsInv
<1>2. index' = index \cup {n} /\ validated' = validated /\ root' = root
  BY DEF Add
<1>. QED BY <1>1, <1>2 DEF FlagsInv, ValidRight

\* A block that executes may be flagged once its predecessor is.
LEMMA MarkKeepsFlags ==
    ASSUME FlagsInv, NEW b \in index \cup {root}, b \notin Bad,
           b \in index => Prev[b] \in validated,
           MarkValidOnce(b)
    PROVE  /\ FlagsInv' /\ b \in validated' /\ validated \subseteq validated'
           /\ index' = index /\ root' = root
<1>1. CASE b \in validated
  <2>1. UNCHANGED fdbVars
    BY <1>1 DEF MarkValidOnce
  <2>. QED BY <1>1, <2>1 DEF fdbVars, FlagsInv, ValidRight, FdbInv, TypeOK, Rooted,
                             HeadIsBest, first_preferred
<1>2. CASE b \notin validated
  <2>1. MarkValid(b) /\ b \in Block /\ b \in index
    BY <1>2 DEF MarkValidOnce, MarkValid, FlagsInv, FdbInv, TypeOK
  <2>2. FdbInv'
    BY <2>1, MarkValidSafe DEF FlagsInv
  <2>3. validated' = validated \cup {b} /\ index' = index /\ root' = root
    BY <2>1 DEF MarkValid
  <2>4. ValidRight'
    BY <2>1, <2>3 DEF FlagsInv, ValidRight
  <2>. QED BY <2>2, <2>3, <2>4 DEF FlagsInv
<1>. QED BY <1>1, <1>2

\* remove is refused for the root, and takes no flagged predecessor from a block that
\* stays.
LEMMA RemoveKeepsFlags ==
    ASSUME FlagsInv, NEW b \in index \cup {root}, Remove(b)
    PROVE  /\ FlagsInv' /\ b \in index
           /\ index' = index \ Descendants(b, index)
           /\ validated' = validated \ Descendants(b, index)
           /\ root' = root
<1>1. /\ index' = index \ Descendants(b, index)
      /\ validated' = validated \ Descendants(b, index)
      /\ root' = root /\ fork_head \notin Descendants(b, index)
  BY DEF Remove
<1>2. b # root
  <2>1. index \cup {root} \subseteq Descendants(root, index)
    BY AllDescend DEF FlagsInv, FdbInv, TypeOK, Rooted
  <2>. QED BY <1>1, <2>1 DEF FlagsInv, FdbInv, Rooted, HeadIsBest
<1>3. b \in index
  BY <1>2
<1>4. FdbInv'
  BY <1>3, RemoveSafe DEF FlagsInv
<1>5. ClosedIn(Descendants(b, index), index)
  BY DescendantsClosed
<1>6. ValidRight'
  BY <1>1, <1>5 DEF FlagsInv, ValidRight, FdbInv, Rooted, ClosedIn
<1>. QED BY <1>1, <1>3, <1>4, <1>6 DEF FlagsInv

\* advance_root keeps the flags of what stays; a head that is flagged if it is built
\* on the old root is flagged if it is built on the new one.
LEMMA AdvanceKeepsFlags ==
    ASSUME FlagsInv, NEW id \in Block, AdvanceRoot(id)
    PROVE  /\ FlagsInv' /\ root' = id /\ id \in index /\ index' \subseteq index
           /\ \A h : (h \in Descendants(root, Block) => h \in validated)
                        => (h \in Descendants(id, Block) => h \in validated')
<1>. USE DEF FlagsInv
<1>1. FdbInv'
  BY AdvanceRootSafe
<1>2. /\ id \in index \cap validated
      /\ index' = (index \ {id}) \ PrunedBy(id)
      /\ validated' = validated \cap (index' \cup {id})
      /\ root' = id
  BY DEF AdvanceRoot
<1>3. ValidRight'
  <2>1. validated' \cap Bad = {}
    BY <1>2 DEF ValidRight
  <2>2. ASSUME NEW b \in validated' \ {root'} PROVE Prev[b] \in validated'
    <3>1. b \in index' /\ Prev[b] \in index' \cup {id}
      BY <1>1, <1>2, <2>2 DEF FdbInv, Rooted
    <3>2. b \in validated \ {root}
      BY <1>2, <2>2, <3>1 DEF FdbInv, Rooted
    <3>. QED BY <1>2, <3>1, <3>2 DEF ValidRight
  <2>. QED BY <2>1, <2>2 DEF ValidRight
<1>4. ASSUME NEW h \in Descendants(id, Block), h \in Descendants(root, Block) => h \in validated
      PROVE  h \in validated'
  <2>1. /\ index \subseteq Block /\ root \in Block /\ \A b \in index : Prev[b] \in index \cup {root}
        /\ validated \subseteq index \cup {root} /\ id \in index
    BY <1>2 DEF FdbInv, TypeOK, Rooted
  <2>2. id \in Descendants(root, Block)
    BY <2>1, AllDescend
  <2>3. h \in validated
    BY <1>4, <2>2, DescendantsTransitive
  <2>4. h # root
    <3>1. Num[root] < Num[id] /\ Num[root] \in Nat /\ Num[id] \in Nat
      BY <2>1, AboveRoot, FieldAssumption
    <3>2. h = id \/ Num[h] > Num[id]
      BY <1>4, DescendantsAbove
    <3>. QED BY <3>1, <3>2
  <2>5. h \in Descendants(id, index)
    BY <1>4, <2>1, <2>3, <2>4, DescendantsInside
  <2>6. Descendants(id, index) \ {id} = (index \ {id}) \ PrunedBy(id)
    BY <2>1, PrunedOrKept
  <2>. QED BY <1>2, <2>3, <2>5, <2>6
<1>. QED BY <1>1, <1>2, <1>3, <1>4

\* The same for a block that is flagged only now.
LEMMA MarkAdvanceKeepsFlags ==
    ASSUME FlagsInv, NEW r \in index, r \notin Bad, MarkAndAdvance(r)
    PROVE  FlagsInv' /\ root' = r /\ r \in validated' /\ index' \subseteq index
<1>. DEFINE V == validated \cup {r}
            gone == PrunedBy(r)
<1>1. PICK best \in BestOf(index \cap V) :
          fork_head' = IF first_preferred(best, fork_head) THEN best ELSE fork_head
  BY DEF MarkAndAdvance
<1>2. /\ fork_head' \notin gone
      /\ index' = (index \ {r}) \ gone
      /\ validated' = V \cap (index' \cup {r})
      /\ root' = r
  BY DEF MarkAndAdvance
<1>3. root \in gone /\ gone \subseteq (index \ {r}) \cup {root} /\ ClosedIn(gone, index \ {r})
  BY DescendantsClosed DEF PrunedBy
<1>4. /\ index \subseteq Block /\ V \subseteq Block /\ root \in Block /\ fork_head \in Block
      /\ root \notin index /\ V \subseteq index \cup {root} /\ fork_head \in V
      /\ \A b \in index : Prev[b] \in index \cup {root}
      /\ \A b \in index \cap validated : ~first_preferred(b, fork_head)
  BY DEF FlagsInv, FdbInv, TypeOK, Rooted, HeadIsBest
<1>5. best \in index \cap V /\ \A b \in index \cap V : ~first_preferred(b, best)
  BY <1>4, BestIsBest
<1>. HIDE DEF gone
<1>6. TypeOK'
  BY <1>1, <1>2, <1>4, <1>5 DEF TypeOK
<1>7. Rooted'
  BY <1>2, <1>3, <1>4 DEF Rooted, ClosedIn
<1>8. fork_head' \in validated'
  BY <1>1, <1>2, <1>3, <1>4, <1>5
<1>9. ASSUME NEW b \in index' \cap validated' PROVE ~first_preferred(b, fork_head')
  <2>1. {best, b, fork_head} \subseteq Block /\ b \in index \cap V
    BY <1>2, <1>4, <1>5
  <2>2. ~first_preferred(b, best)
    BY <1>5, <2>1
  <2>. QED BY <1>1, <2>1, <2>2, FieldAssumption DEF first_preferred
<1>10. HeadIsBest'
  BY <1>8, <1>9 DEF HeadIsBest, first_preferred
<1>11. ValidRight'
  <2>1. validated' \cap Bad = {}
    BY <1>2 DEF FlagsInv, ValidRight
  <2>2. ASSUME NEW b \in validated' \ {root'} PROVE Prev[b] \in validated'
    <3>1. b \in index' /\ Prev[b] \in index' \cup {r}
      BY <1>2, <1>7, <2>2 DEF Rooted
    <3>2. b \in validated \ {root}
      BY <1>2, <1>4, <2>2, <3>1
    <3>. QED BY <1>2, <3>1, <3>2 DEF FlagsInv, ValidRight
  <2>. QED BY <2>1, <2>2 DEF ValidRight
<1>. QED BY <1>2, <1>6, <1>7, <1>10, <1>11 DEF FlagsInv, FdbInv

\* A reset leaves a block that executes, flagged and alone.
LEMMA ResetKeepsFlags ==
    ASSUME NEW b \in Block, b \notin Bad, Reset(b)
    PROVE  FlagsInv' /\ index' = {} /\ validated' = {b} /\ root' = b
BY DEF Reset, FlagsInv, ValidRight, FdbInv, TypeOK, Rooted, HeadIsBest

\* A rollback leaves only the root flagged.
LEMMA RollbackKeepsFlags ==
    ASSUME FlagsInv, RollbackHeadToRoot
    PROVE  FlagsInv' /\ index' = index /\ validated' = {root} /\ root' = root
BY DEF RollbackHeadToRoot, FlagsInv, ValidRight, FdbInv, TypeOK, Rooted, HeadIsBest,
       first_preferred

-----------------------------------------------------------------------------
(* Where the head is. *)

\* The parts of ControllerInv that a step which leaves the fork database, the head,
\* the log and the mode alone can not disturb.
LEMMA StillRight ==
    ASSUME ControllerInv, UNCHANGED <<fdbVars, blog>>
    PROVE  FlagsInv' /\ LogRight' /\ Logged' = Logged /\ LogHead' = LogHead
BY DEF ControllerInv, FlagsInv, FdbInv, TypeOK, Rooted, HeadIsBest, first_preferred, fdbVars,
       LogRight, ValidRight, Logged, LogHead

\* Every block the fork database holds is built on its root, so that a head it holds
\* is flagged.
LEMMA HeadFlagged ==
    ASSUME ControllerInv, pc # "replay_log", head \in index \cup {root}
    PROVE  head \in validated
<1>1. index \cup {root} \subseteq Descendants(root, Block)
  BY AllDescend DEF ControllerInv, FdbInv, TypeOK, Rooted
<1>. QED BY <1>1 DEF ControllerInv, HeadRight

\* The genesis block is built on no block but itself.
LEMMA GenesisAlone ==
    ASSUME NEW r \in Block, Genesis \in Descendants(r, Block)
    PROVE  Genesis = r
<1>. SUFFICES ASSUME Genesis # r PROVE FALSE
  OBVIOUS
<1>1. Prev[Genesis] \in Descendants(r, Block)
  BY DescendantsPrev
<1>2. Descendants(r, Block) \subseteq Block
  BY DescendantsClosed
<1>. QED BY <1>1, <1>2, GenesisAssumption

\* The branch of a flagged block is flagged.
LEMMA BranchFlagged ==
    ASSUME FlagsInv, NEW t \in validated
    PROVE  Branch(t, index) \subseteq validated
BY BranchInside DEF FlagsInv, FdbInv, Rooted, ValidRight

\* The blocks of the log have different numbers, the last one the highest.
LEMMA LogNumbers ==
    ASSUME LogRight
    PROVE  /\ Logged \subseteq Block /\ LogHead \in Logged /\ Genesis \in Logged
           /\ Logged \cap Bad = {}
           /\ \A a \in Logged : Num[a] =< Num[LogHead]
           /\ \A a, b \in Logged : Num[a] = Num[b] => a = b
<1>1. Len(blog) \in Nat /\ Num[Genesis] \in Nat
  BY GenesisAssumption, FieldAssumption DEF LogRight
<1>2. \A i \in 1..Len(blog) : blog[i] \in Block
  BY DEF LogRight
<1>3. 1 \in 1..Len(blog) /\ Len(blog) \in 1..Len(blog)
  BY <1>1 DEF LogRight
<1>4. /\ Logged \subseteq Block /\ LogHead \in Logged /\ Genesis \in Logged
      /\ Logged \cap Bad = {}
  BY <1>2, <1>3 DEF LogRight, Logged, LogHead
<1>5. ASSUME NEW a \in Logged PROVE Num[a] =< Num[LogHead]
  <2>1. PICK i \in 1..Len(blog) : a = blog[i]
    BY DEF Logged
  <2>2. Num[a] = Num[Genesis] + i - 1 /\ Num[LogHead] = Num[Genesis] + Len(blog) - 1
    BY <1>3, <2>1 DEF LogRight, LogHead
  <2>. QED BY <1>1, <2>2
<1>6. ASSUME NEW a \in Logged, NEW b \in Logged, Num[a] = Num[b] PROVE a = b
  <2>1. PICK i \in 1..Len(blog) : a = blog[i]
    BY DEF Logged
  <2>2. PICK j \in 1..Len(blog) : b = blog[j]
    BY DEF Logged
  <2>3. Num[a] = Num[Genesis] + i - 1 /\ Num[b] = Num[Genesis] + j - 1
    BY <2>1, <2>2 DEF LogRight
  <2>4. Num[Genesis] + i - 1 = Num[Genesis] + j - 1
    BY <1>6, <2>3, ZenonT(30)
  <2>5. i = j
    BY <1>1, <2>4
  <2>. QED BY <2>1, <2>2, <2>5
<1>. QED BY <1>4, <1>5, <1>6

-----------------------------------------------------------------------------
(* The steps of the controller. *)

\* push_block
LEMMA PushBlockRight ==
    ASSUME ControllerInv, NEW b \in Block, PushBlock(b)
    PROVE  ControllerInv'
<1>1. /\ FlagsInv' /\ index' = index \cup {b} /\ validated' = validated /\ root' = root
  BY AddKeepsFlags, ZenonT(30) DEF PushBlock, ControllerInv, FlagsInv
<1>2. /\ pc = "idle" /\ blog' = blog /\ head' = head /\ mode' = mode /\ ret' = ret
      /\ pc' = IF mode = "irreversible" THEN "log" ELSE "switch"
  BY DEF PushBlock, dbVars
<1>3. LogRight' /\ Logged' = Logged /\ LogHead' = LogHead
  BY <1>2 DEF ControllerInv, LogRight, Logged, LogHead
<1>4. HeadRight'
  BY <1>1, <1>2 DEF ControllerInv, HeadRight
<1>5. target' \in index' \cup {root'}
  <2>1. fork_head' \in index' \cup {root'}
    BY <1>1 DEF FlagsInv, FdbInv, Rooted, HeadIsBest
  <2>2. BestOf(index' \ validated') \subseteq index'
    BY DEF BestOf
  <2>. QED BY <2>1, <2>2 DEF PushBlock, PendingHead
<1>6. HandlerRight'
  BY <1>2, <1>5 DEF ControllerInv, HandlerRight
<1>7. LoggingRight'
  BY <1>2 DEF LoggingRight
<1>8. RootRight'
  BY <1>1, <1>2, <1>3 DEF ControllerInv, RootRight, Failures
<1>. QED BY <1>1, <1>3, <1>4, <1>6, <1>7, <1>8 DEF ControllerInv, FlagsInv

\* maybe_switch_forks
LEMMA SwitchForksRight ==
    ASSUME ControllerInv, SwitchForks
    PROVE  ControllerInv'
<1>1. /\ pc = "switch" /\ blog' = blog /\ head' = head /\ mode' = mode /\ ret' = ret
      /\ target' = target /\ UNCHANGED fdbVars
      /\ pc' \in {ret, "extend", "apply", "pop"}
      /\ ret \in {"idle", "replay", "best_loop"}
      /\ target \in index \cup {root}
  BY DEF SwitchForks, dbVars, ControllerInv, HandlerRight
<1>2. index' = index /\ validated' = validated /\ root' = root
  BY <1>1 DEF fdbVars
<1>3. FlagsInv' /\ LogRight' /\ Logged' = Logged /\ LogHead' = LogHead
  BY <1>1, StillRight
<1>4. second' \subseteq validated
  <2>1. CASE Prev[target] = head
    BY <2>1 DEF SwitchForks
  <2>2. CASE Prev[target] # head /\ head \in index
    <3>1. head \in validated
      BY <1>1, <2>2, HeadFlagged
    <3>2. Branch(head, index) \subseteq validated
      BY <3>1, BranchFlagged DEF ControllerInv, FlagsInv
    <3>. QED BY <2>2, <3>2 DEF SwitchForks
  <2>3. CASE Prev[target] # head /\ head \notin index
    <3>1. Branch(head, index) = {}
      BY <2>3, DescendantsClosed DEF Branch
    <3>. QED BY <2>3, <3>1 DEF SwitchForks
  <2>. QED BY <2>1, <2>2, <2>3
<1>5. HeadRight'
  <2>1. ASSUME pc' = "pop" PROVE head \in validated
    <3>1. second' # {} /\ Prev[target] # head
      BY <1>1, <2>1 DEF SwitchForks
    <3>2. PICK a \in index : head \in Descendants(a, index)
      BY <3>1 DEF SwitchForks, Branch
    <3>3. head \in index
      BY <3>2, DescendantsClosed
    <3>. QED BY <1>1, <3>3, HeadFlagged
  <2>. QED BY <1>1, <1>2, <2>1 DEF ControllerInv, HeadRight
<1>6. first' \subseteq index \cup {root}
  BY <1>1 DEF SwitchForks, Branch
<1>7. ASSUME NEW b \in first' PROVE Descendants(b, index) \cap second' = {}
  <2>1. CASE Prev[target] = head
    BY <2>1 DEF SwitchForks
  <2>2. CASE Prev[target] # head
    <3>1. b \in index /\ b \notin Branch(head, index)
      BY <1>7, <2>2 DEF SwitchForks, Branch
    <3>2. ASSUME NEW s \in second', s \in Descendants(b, index) PROVE FALSE
      <4>1. head \in Descendants(s, index)
        BY <2>2, <3>2 DEF SwitchForks, Branch
      <4>2. head \in Descendants(b, index)
        BY <3>2, <4>1, DescendantsTransitive
      <4>. QED BY <3>1, <4>2 DEF Branch
    <3>. QED BY <3>2
  <2>. QED BY <2>1, <2>2
<1>8. HandlerRight'
  BY <1>1, <1>2, <1>4, <1>6, <1>7 DEF HandlerRight
<1>9. LoggingRight'
  BY <1>1 DEF LoggingRight
<1>10. RootRight'
  BY <1>1, <1>2, <1>3 DEF ControllerInv, RootRight, Failures
<1>. QED BY <1>3, <1>5, <1>8, <1>9, <1>10 DEF ControllerInv, FlagsInv

\* pop_block gives a head that is flagged: it is the predecessor of a flagged block
\* that is not the root.
LEMMA PopBlockFlagged ==
    ASSUME ControllerInv, pc \in {"pop", "revert"}, PopBlock
    PROVE  head' \in validated /\ head' \in Block
<1>1. /\ head \in validated /\ head' = Prev[head] /\ head' \in index \cup {root}
      /\ index \subseteq Block /\ root \in Block
      /\ \A b \in index : Prev[b] \in index \cup {root}
  BY DEF ControllerInv, HeadRight, PopBlock, FdbInv, TypeOK, Rooted
<1>2. head # root
  <2>1. \A b \in index : Num[root] < Num[b]
    BY <1>1, AboveRoot
  <2>2. ASSUME head = root PROVE FALSE
    <3>1. Prev[root] \in Block /\ Prev[root] \in index \cup {root}
      BY <1>1, <2>2
    <3>2. Num[root] = Num[Prev[root]] + 1 /\ Num[Prev[root]] \in Nat
      BY <1>1, <3>1, NumberOfNext, ZenonT(30)
    <3>. QED BY <2>1, <3>1, <3>2
  <2>. QED BY <2>2
<1>. QED BY <1>1, <1>2 DEF ControllerInv, ValidRight

\* One block of the old branch is popped.
LEMMA PopOldRight ==
    ASSUME ControllerInv, PopOld
    PROVE  ControllerInv'
<1>1. /\ pc = "pop" /\ UNCHANGED <<fdbVars, blog, mode, runVars>> /\ PopBlock
      /\ pc' \in {"pop", "apply"}
  BY DEF PopOld
<1>2. index' = index /\ validated' = validated /\ root' = root
      /\ ret' = ret /\ first' = first /\ second' = second
  BY <1>1 DEF fdbVars, runVars
<1>3. FlagsInv' /\ LogRight' /\ Logged' = Logged /\ LogHead' = LogHead
  BY <1>1, StillRight
<1>4. HeadRight'
  BY <1>1, <1>2, PopBlockFlagged DEF HeadRight
<1>5. HandlerRight'
  BY <1>1, <1>2 DEF ControllerInv, HandlerRight
<1>6. LoggingRight'
  BY <1>1 DEF LoggingRight
<1>7. RootRight'
  BY <1>1, <1>2, <1>3, ZenonT(30) DEF ControllerInv, RootRight, Failures
<1>. QED BY <1>3, <1>4, <1>5, <1>6, <1>7 DEF ControllerInv, FlagsInv

\* One block of the new branch is popped again.
LEMMA PopNewRight ==
    ASSUME ControllerInv, PopNew
    PROVE  ControllerInv'
<1>1. /\ pc = "revert" /\ UNCHANGED <<fdbVars, blog, mode, runVars>> /\ PopBlock
      /\ pc' \in {"revert", "assert_reversal", "reapply"}
  BY DEF PopNew
<1>2. index' = index /\ validated' = validated /\ root' = root
      /\ ret' = ret /\ first' = first /\ second' = second
  BY <1>1 DEF fdbVars, runVars
<1>3. FlagsInv' /\ LogRight' /\ Logged' = Logged /\ LogHead' = LogHead
  BY <1>1, StillRight
<1>4. HeadRight'
  BY <1>1, <1>2, PopBlockFlagged DEF HeadRight
<1>5. HandlerRight'
  BY <1>1, <1>2 DEF ControllerInv, HandlerRight
<1>6. LoggingRight'
  BY <1>1 DEF LoggingRight
<1>7. RootRight'
  BY <1>1, <1>2, <1>3 DEF ControllerInv, RootRight, Failures
<1>. QED BY <1>3, <1>4, <1>5, <1>6, <1>7 DEF ControllerInv, FlagsInv

\* One block of the new branch is applied: it is flagged, as the head it is built on
\* was.
LEMMA ApplyNewRight ==
    ASSUME ControllerInv, ApplyNew
    PROVE  ControllerInv'
<1>1. PICK b \in first :
         /\ Prev[b] = head
         /\ CanApply(b)
         /\ MarkValidOnce(b)
         /\ head' = b
         /\ pc' = IF b = target THEN "log" ELSE pc
         /\ target' = IF b = target THEN fork_head' ELSE target
  BY DEF ApplyNew
<1>2. /\ pc \in {"extend", "apply"}
      /\ UNCHANGED <<blog, mode, ret, first, second>>
      /\ first \subseteq index \cup {root}
  BY DEF ApplyNew, ControllerInv, HandlerRight
<1>3. b \notin Bad /\ b \in index \cup {root}
  BY <1>1, <1>2, ZenonT(30) DEF CanApply
<1>4. ASSUME b \in index PROVE Prev[b] \in validated
  <2>1. head \in index \cup {root}
    BY <1>1, <1>4 DEF ControllerInv, FdbInv, Rooted
  <2>. QED BY <1>1, <1>2, <2>1, HeadFlagged
<1>5. /\ FlagsInv' /\ b \in validated' /\ validated \subseteq validated'
      /\ index' = index /\ root' = root
  BY <1>1, <1>3, <1>4, MarkKeepsFlags DEF ControllerInv, FlagsInv
<1>6. LogRight' /\ Logged' = Logged /\ LogHead' = LogHead
  BY <1>2 DEF ControllerInv, LogRight, Logged, LogHead
<1>7. HeadRight'
  BY <1>1, <1>2, <1>5 DEF HeadRight, FlagsInv, FdbInv, TypeOK
<1>8. fork_head' \in validated' /\ validated' \subseteq index' \cup {root'}
  BY <1>5 DEF FlagsInv, FdbInv, Rooted, HeadIsBest
<1>9. HandlerRight'
  BY <1>1, <1>2, <1>5, <1>8 DEF ControllerInv, HandlerRight
<1>10. LoggingRight'
  BY <1>1, <1>2, <1>8, ZenonT(30) DEF LoggingRight
<1>11. RootRight'
  BY <1>1, <1>2, <1>5, <1>6 DEF ControllerInv, RootRight, Failures
<1>. QED BY <1>5, <1>6, <1>7, <1>9, <1>10, <1>11 DEF ControllerInv, FlagsInv

\* A block of the new branch throws: what is removed is above the head, and nothing of
\* the branch to restore.
LEMMA ApplyNewThrowsRight ==
    ASSUME ControllerInv, ApplyNewThrows
    PROVE  ControllerInv'
<1>1. PICK b \in first : Prev[b] = head /\ Remove(b)
  BY DEF ApplyNewThrows
<1>2. /\ pc \in {"extend", "apply"}
      /\ UNCHANGED <<head, blog, mode, ret, target, first, second>>
      /\ pc' \in {"idle", "down", "revert", "assert_reversal", "reapply"}
      /\ first \subseteq index \cup {root}
      /\ Descendants(b, index) \cap second = {} /\ second \subseteq validated
  BY <1>1 DEF ApplyNewThrows, dbVars, runVars, Thrown, ControllerInv, HandlerRight
<1>3. /\ FlagsInv' /\ b \in index
      /\ index' = index \ Descendants(b, index)
      /\ validated' = validated \ Descendants(b, index)
      /\ root' = root
  <2>1. FlagsInv
    BY DEF ControllerInv, FlagsInv
  <2>2. b \in index \cup {root} /\ Remove(b)
    BY <1>1, <1>2
  <2>. QED BY <2>1, <2>2, RemoveKeepsFlags
<1>4. LogRight' /\ Logged' = Logged /\ LogHead' = LogHead
  BY <1>2 DEF ControllerInv, LogRight, Logged, LogHead
<1>5. head \in index \cup {root}
  BY <1>1, <1>3 DEF ControllerInv, FdbInv, Rooted
<1>6. head \in validated'
  <2>1. head \in validated
    BY <1>2, <1>5, HeadFlagged
  <2>2. head \notin Descendants(b, index)
    <3>1. b \in Block /\ head \in Block /\ index \subseteq Block
      BY <1>3 DEF ControllerInv, FdbInv, TypeOK, HeadRight
    <3>2. Num[b] = Num[head] + 1 /\ Num[head] \in Nat
      BY <1>1, <3>1, NumberOfNext
    <3>. QED BY <3>1, <3>2, DescendantsAbove
  <2>. QED BY <1>3, <2>1, <2>2
<1>7. HeadRight'
  BY <1>2, <1>6 DEF ControllerInv, HeadRight
<1>8. HandlerRight'
  BY <1>2, <1>3 DEF ControllerInv, HandlerRight
<1>9. LoggingRight'
  BY <1>2 DEF LoggingRight
<1>10. RootRight'
  <2>1. /\ root \in Logged \/ Num[root] > Num[LogHead]
        /\ Num[root] >= Num[LogHead]
    BY <1>2, ZenonT(30) DEF ControllerInv, RootRight, Failures
  <2>2. Num[root] \in Nat /\ Num[LogHead] \in Nat
    <3>1. root \in Block /\ LogHead \in Block
      BY LogNumbers, ZenonT(30) DEF ControllerInv, FdbInv, TypeOK
    <3>. QED BY <3>1, FieldAssumption
  <2>3. ~(Num[root] < Num[LogHead])
    BY <2>1, <2>2
  <2>. QED BY <1>2, <1>3, <1>4, <2>1, <2>3, ZenonT(30) DEF RootRight, Failures
<1>. QED BY <1>3, <1>4, <1>7, <1>8, <1>9, <1>10 DEF ControllerInv, FlagsInv

\* One block of the old branch is applied again: it is still flagged.
LEMMA ReapplyOldRight ==
    ASSUME ControllerInv, ReapplyOld
    PROVE  ControllerInv'
<1>1. /\ pc = "reapply" /\ UNCHANGED <<fdbVars, blog, mode, runVars>>
      /\ pc' \in {"reapply", "idle", "down", "assert_reapply"}
      /\ head' \in second \cup {head}
  BY DEF ReapplyOld, Thrown
<1>2. index' = index /\ validated' = validated /\ root' = root
      /\ ret' = ret /\ first' = first /\ second' = second
  BY <1>1 DEF fdbVars, runVars
<1>3. FlagsInv' /\ LogRight' /\ Logged' = Logged /\ LogHead' = LogHead
  BY <1>1, StillRight
<1>4. HeadRight'
  BY <1>1, <1>2 DEF ControllerInv, HeadRight, HandlerRight, FdbInv, TypeOK
<1>5. HandlerRight'
  BY <1>1, <1>2 DEF ControllerInv, HandlerRight
<1>6. LoggingRight'
  BY <1>1 DEF LoggingRight
<1>7. RootRight'
  BY <1>1, <1>2, <1>3, FieldAssumption, LogNumbers DEF ControllerInv, RootRight, Failures, FdbInv, TypeOK
<1>. QED BY <1>3, <1>4, <1>5, <1>6, <1>7 DEF ControllerInv, FlagsInv

\* start_block, abort_block, shutdown and the end of a replay move nothing but pc.
LEMMA IdleRight ==
    ASSUME ControllerInv, StartBlock \/ AbortBlock \/ Shutdown \/ ReplayEnds
    PROVE  ControllerInv'
<1>1. /\ pc \in {"idle", "best", "replay"}
      /\ pc' \in {"idle", "best", "down", "assert_revision"}
      /\ UNCHANGED <<fdbVars, head, blog, mode, runVars>>
  BY DEF StartBlock, AbortBlock, Shutdown, ReplayEnds, dbVars
<1>2. index' = index /\ validated' = validated /\ root' = root /\ ret' = ret
  BY <1>1 DEF fdbVars, runVars
<1>3. FlagsInv' /\ LogRight' /\ Logged' = Logged /\ LogHead' = LogHead
  BY <1>1, StillRight
<1>4. HeadRight'
  BY <1>1, <1>2, ZenonT(30) DEF ControllerInv, HeadRight
<1>5. HandlerRight' /\ LoggingRight'
  BY <1>1, <1>2 DEF ControllerInv, HandlerRight, LoggingRight
<1>6. RootRight'
  BY <1>1, <1>2, <1>3, FieldAssumption, LogNumbers DEF ControllerInv, RootRight, Failures, FdbInv, TypeOK
<1>. QED BY <1>3, <1>4, <1>5, <1>6 DEF ControllerInv, FlagsInv

\* commit_block( true ), up to the fork database.
LEMMA CommitBlockRight ==
    ASSUME ControllerInv, NEW b \in Block, CommitBlock(b)
    PROVE  ControllerInv'
<1>1. /\ FlagsInv' /\ index' = index \cup {b} /\ validated' = validated /\ root' = root
  BY AddKeepsFlags, ZenonT(30) DEF CommitBlock, ControllerInv, FlagsInv
<1>2. /\ pc = "idle" /\ pc' = "commit" /\ target' = b /\ b \notin Bad /\ Prev[b] = head
      /\ UNCHANGED <<head, blog, mode, ret>>
  BY ZenonT(30) DEF CommitBlock, dbVars
<1>3. LogRight' /\ Logged' = Logged /\ LogHead' = LogHead
  BY <1>2, ZenonT(30) DEF ControllerInv, LogRight, Logged, LogHead
<1>4. HeadRight'
  BY <1>1, <1>2, ZenonT(30) DEF ControllerInv, HeadRight
<1>5. HandlerRight' /\ LoggingRight'
  BY <1>1, <1>2 DEF ControllerInv, HandlerRight, LoggingRight
<1>6. RootRight'
  BY <1>1, <1>2, <1>3 DEF ControllerInv, RootRight, Failures
<1>. QED BY <1>1, <1>3, <1>4, <1>5, <1>6 DEF ControllerInv, FlagsInv

\* commit_block( true ), from there on.
LEMMA CommitHeadRight ==
    ASSUME ControllerInv, CommitHead
    PROVE  ControllerInv'
<1>1. /\ pc = "commit" /\ MarkValidOnce(target) /\ head' = fork_head'
      /\ pc' \in {"log", "assert_commit"} /\ UNCHANGED <<blog, mode, ret, target>>
      /\ target \in index \ Bad /\ Prev[target] = head
  BY DEF CommitHead, runVars, ControllerInv, HandlerRight
<1>2. Prev[target] \in validated
  <2>1. head \in index \cup {root}
    BY <1>1 DEF ControllerInv, FdbInv, Rooted
  <2>. QED BY <1>1, <2>1, HeadFlagged
<1>3. /\ FlagsInv' /\ target \in validated' /\ index' = index /\ root' = root
  BY <1>1, <1>2, MarkKeepsFlags, ZenonT(30) DEF ControllerInv, FlagsInv
<1>4. LogRight' /\ Logged' = Logged /\ LogHead' = LogHead
  BY <1>1 DEF ControllerInv, LogRight, Logged, LogHead
<1>5. HeadRight'
  BY <1>1, <1>3, ZenonT(30) DEF HeadRight, FlagsInv, FdbInv, TypeOK, HeadIsBest
<1>6. HandlerRight' /\ LoggingRight'
  BY <1>1, <1>3 DEF ControllerInv, HandlerRight, LoggingRight
<1>7. RootRight'
  BY <1>1, <1>3, <1>4, ZenonT(30) DEF ControllerInv, RootRight, Failures
<1>. QED BY <1>3, <1>4, <1>5, <1>6, <1>7, ZenonT(30) DEF ControllerInv, FlagsInv

=================================================================================
