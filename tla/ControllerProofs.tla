---------------------------- MODULE ControllerProofs ----------------------------
(***************************************************************************)
(* The block log as a ledger, continued from BranchProofs: the handlers    *)
(* that append to the log, die, or start from what they find on disk, and  *)
(* the theorem.  Whatever is received, produced, popped, replayed or lost  *)
(* in a crash, what the controller appends to the block log executes and   *)
(* is built on the block before it.                                        *)
(***************************************************************************)
EXTENDS BranchProofs

\* log_irreversible, up to its loop: it goes on only from a root that is the log's last
\* block.
LEMMA LogStartRight ==
    ASSUME ControllerInv, LogStart
    PROVE  ControllerInv'
<1>1. /\ pc = "log" /\ UNCHANGED <<fdbVars, head, blog, mode, runVars>>
      /\ pc' \in {"assert_root", "logging", ret}
      /\ pc' = "logging" => root = LogHead
      /\ ret \in {"idle", "replay", "best_loop"}
  BY DEF LogStart, LogReturns, ControllerInv, HandlerRight
<1>2. index' = index /\ validated' = validated /\ root' = root /\ ret' = ret /\ target' = target
  BY <1>1 DEF fdbVars, runVars
<1>3. FlagsInv' /\ LogRight' /\ Logged' = Logged /\ LogHead' = LogHead
  BY <1>1, StillRight
<1>4. HeadRight'
  BY <1>1, <1>2 DEF ControllerInv, HeadRight
<1>5. HandlerRight'
  BY <1>1, <1>2 DEF ControllerInv, HandlerRight
<1>6. LoggingRight'
  <2>1. root \in validated
    BY DEF ControllerInv, FdbInv, Rooted
  <2>. QED BY <1>1, <1>2, <1>3, <2>1 DEF ControllerInv, LoggingRight
<1>7. RootRight'
  BY <1>1, <1>2, <1>3, ZenonT(30) DEF ControllerInv, RootRight, Failures
<1>. QED BY <1>3, <1>4, <1>5, <1>6, <1>7 DEF ControllerInv, FlagsInv

\* The block that follows the log's last one in number, on a branch that holds that
\* one, is built on it; it executes, unless it has not been executed yet.
LEMMA NextIsBuilt ==
    ASSUME ControllerInv, pc \in {"logging", "append", "drop"}, NEW b \in NextLogged
    PROVE  /\ b \in index /\ b \in Branch(target, index) /\ b \in Block
           /\ Prev[b] = LogHead
           /\ Num[b] = Num[LogHead] + 1 /\ Num[LogHead] \in Nat
           /\ LogHead \in validated /\ LogHead \in Block
           /\ mode # "irreversible" => b \in validated
<1>1. /\ index \subseteq Block /\ root \in Block /\ root \notin index
      /\ \A a \in index : Prev[a] \in index \cup {root}
      /\ LogHead \in validated /\ LogHead \in Branch(target, index) \cup {root}
      /\ mode # "irreversible" => target \in validated
      /\ validated \subseteq Block
  BY DEF ControllerInv, FdbInv, TypeOK, Rooted, LoggingRight
<1>2. b \in Branch(target, index) /\ Num[b] = Num[LogHead] + 1 /\ b \in index
  BY DEF NextLogged, Branch
<1>3. b \in Block /\ LogHead \in Block /\ Num[LogHead] \in Nat
  BY <1>1, <1>2, FieldAssumption
<1>4. Prev[b] \in Branch(target, index) \cup {root} /\ Prev[b] \in index \cup {root}
  BY <1>1, <1>2, BranchPrev, ZenonT(30)
<1>5. Num[Prev[b]] = Num[LogHead]
  <2>1. Prev[b] \in Block
    BY <1>1, <1>4
  <2>. QED BY <1>2, <1>3, <2>1, NumberOfNext
<1>6. \A a \in index : Num[root] < Num[a] /\ Num[root] \in Nat /\ Num[a] \in Nat
  BY <1>1, AboveRoot, FieldAssumption
<1>7. Prev[b] = LogHead
  <2>1. CASE LogHead = root
    BY <1>4, <1>5, <1>6, <2>1
  <2>2. CASE LogHead \in Branch(target, index)
    <3>1. LogHead \in index
      BY <2>2 DEF Branch
    <3>2. Prev[b] # root
      BY <1>5, <1>6, <3>1
    <3>3. Prev[b] \in Branch(target, index)
      BY <1>4, <3>2
    <3>. QED BY <1>1, <1>5, <2>2, <3>3, BranchUnique
  <2>. QED BY <1>1, <2>1, <2>2
<1>8. ASSUME mode # "irreversible" PROVE b \in validated
  BY <1>1, <1>2, <1>8, BranchFlagged DEF ControllerInv, FlagsInv
<1>. QED BY <1>1, <1>2, <1>3, <1>7, <1>8

\* A block built on the log's last one, that executes, may be appended.
LEMMA AppendRight ==
    ASSUME LogRight, NEW b \in Block, b \notin Bad, Num[b] = Num[LogHead] + 1,
           blog' = Append(blog, b)
    PROVE  LogRight' /\ LogHead' = b /\ Logged \subseteq Logged'
<1>a. Len(blog) \in Nat /\ Num[Genesis] \in Nat
  BY GenesisAssumption, FieldAssumption DEF LogRight
<1>b. 1 \in 1..Len(blog) /\ Len(blog) \in 1..Len(blog)
  BY <1>a DEF LogRight
<1>1. /\ blog \in Seq(Block) /\ Len(blog) \in Nat /\ Len(blog) >= 1 /\ blog[1] = Genesis
      /\ Num[Genesis] \in Nat /\ Num[LogHead] = Num[Genesis] + Len(blog) - 1
      /\ \A i \in 1..Len(blog) : Num[blog[i]] = Num[Genesis] + i - 1 /\ blog[i] \notin Bad
  BY <1>a, <1>b DEF LogRight, LogHead
<1>2. /\ blog' \in Seq(Block) /\ Len(blog') = Len(blog) + 1 /\ blog'[Len(blog) + 1] = b
      /\ \A i \in 1..Len(blog) : blog'[i] = blog[i]
  BY <1>1
<1>3. LogHead' = b
  BY <1>2 DEF LogHead
<1>4. ASSUME NEW i \in 1..Len(blog')
      PROVE  Num[blog'[i]] = Num[Genesis] + i - 1 /\ blog'[i] \notin Bad
  <2>1. CASE i = Len(blog) + 1
    BY <1>1, <1>2, <2>1
  <2>2. CASE i # Len(blog) + 1
    <3>1. i \in 1..Len(blog)
      BY <1>1, <1>2, <2>2
    <3>. QED BY <1>1, <1>2, <3>1
  <2>. QED BY <2>1, <2>2
<1>5. LogRight'
  BY <1>1, <1>2, <1>4 DEF LogRight
<1>6. Logged \subseteq Logged'
  <2>1. 1..Len(blog) \subseteq 1..Len(blog')
    BY <1>1, <1>2
  <2>. QED BY <1>2, <2>1 DEF Logged
<1>. QED BY <1>3, <1>5, <1>6

\* While blocks are logged the root is one of the log's.
LEMMA LoggingRoot ==
    ASSUME ControllerInv, pc \in {"logging", "append", "drop"}
    PROVE  root \in Logged
<1>1. LogHead \in index \cup {root}
  BY DEF ControllerInv, LoggingRight, Branch
<1>2. \A a \in index : Num[root] < Num[a] /\ Num[root] \in Nat /\ Num[a] \in Nat
  BY AboveRoot, FieldAssumption DEF ControllerInv, FdbInv, TypeOK, Rooted
<1>3. Num[root] \in Nat
  BY FieldAssumption DEF ControllerInv, FdbInv, TypeOK
<1>4. ~(Num[root] > Num[LogHead])
  BY <1>1, <1>2, <1>3
<1>. QED BY <1>4 DEF ControllerInv, RootRight

\* The next block is committed, and in irreversible mode executed and flagged.
LEMMA LogCommitRight ==
    ASSUME ControllerInv, LogCommit
    PROVE  ControllerInv'
<1>1. PICK b \in NextLogged :
         IF mode = "irreversible"
         THEN CanApply(b) /\ MarkValidOnce(b) /\ head' = b
         ELSE UNCHANGED <<fdbVars, head>>
  BY DEF LogCommit
<1>2. pc = "logging" /\ pc' = "append" /\ UNCHANGED <<blog, mode, ret, target>>
  BY DEF LogCommit, runVars
<1>3. /\ b \in index /\ b \in Branch(target, index) /\ b \in Block
      /\ Prev[b] = LogHead /\ LogHead \in validated
      /\ mode # "irreversible" => b \in validated
  BY <1>2, NextIsBuilt
<1>4. b \notin Bad
  BY <1>1, <1>3 DEF CanApply, ControllerInv, ValidRight
<1>5. /\ FlagsInv' /\ b \in validated' /\ validated \subseteq validated'
      /\ index' = index /\ root' = root
  <2>1. CASE mode = "irreversible"
    BY <1>1, <1>3, <1>4, <2>1, MarkKeepsFlags, ZenonT(30) DEF ControllerInv, FlagsInv
  <2>2. CASE mode # "irreversible"
    <3>1. UNCHANGED fdbVars
      BY <1>1, <2>2, ZenonT(30)
    <3>. QED BY <1>3, <2>2, <3>1
             DEF ControllerInv, FlagsInv, FdbInv, TypeOK, Rooted, HeadIsBest, first_preferred,
                 fdbVars, ValidRight
  <2>. QED BY <2>1, <2>2, ZenonT(30)
<1>6. LogRight' /\ Logged' = Logged /\ LogHead' = LogHead
  BY <1>2 DEF ControllerInv, LogRight, Logged, LogHead
<1>7. HeadRight'
  BY <1>1, <1>2, <1>3, <1>5 DEF ControllerInv, HeadRight
<1>8. HandlerRight'
  BY <1>2, <1>5 DEF ControllerInv, HandlerRight
<1>9. LoggingRight'
  <2>1. NextLogged' = NextLogged
    BY <1>2, <1>5, <1>6 DEF NextLogged, Branch
  <2>2. ASSUME NEW a \in NextLogged PROVE a = b
    <3>1. a \in Branch(target, index) /\ b \in Branch(target, index) /\ Num[a] = Num[b]
      BY <1>2, NextIsBuilt
    <3>. QED BY <3>1, BranchUnique DEF ControllerInv, FdbInv, TypeOK, Rooted
  <2>3. NextLogged' \subseteq validated'
    BY <1>5, <2>1, <2>2
  <2>. QED BY <1>2, <1>5, <1>6, <2>3 DEF ControllerInv, LoggingRight
<1>10. RootRight'
  BY <1>2, <1>5, <1>6, LoggingRoot, ZenonT(30) DEF RootRight
<1>. QED BY <1>5, <1>6, <1>7, <1>8, <1>9, <1>10, ZenonT(30) DEF ControllerInv, FlagsInv

\* The block that was committed is appended: it extends the ledger.
LEMMA LogAppendRight ==
    ASSUME ControllerInv, LogAppend
    PROVE  ControllerInv' /\ \E b \in Block : Ledger!Extend(b)
<1>1. PICK b \in NextLogged : blog' = Append(blog, b)
  BY DEF LogAppend
<1>2. /\ pc = "append" /\ pc' = "drop" /\ UNCHANGED <<head, mode, ret, target>>
      /\ index' = index /\ validated' = validated /\ root' = root /\ UNCHANGED fdbVars
  BY DEF LogAppend, runVars, fdbVars
<1>3. /\ b \in index /\ b \in Branch(target, index) /\ b \in Block
      /\ Prev[b] = LogHead /\ Num[b] = Num[LogHead] + 1
  BY <1>2, NextIsBuilt
<1>4. b \in validated
  BY <1>2, ZenonT(30) DEF ControllerInv, LoggingRight
<1>5. b \notin Bad
  BY <1>4 DEF ControllerInv, ValidRight
<1>6. LogRight' /\ LogHead' = b /\ Logged \subseteq Logged'
  BY <1>1, <1>3, <1>5, AppendRight, ZenonT(30) DEF ControllerInv
<1>7. FdbInv' /\ ValidRight'
  BY <1>2 DEF ControllerInv, FdbInv, TypeOK, Rooted, HeadIsBest, first_preferred, fdbVars, ValidRight
<1>8. HeadRight'
  BY <1>2 DEF ControllerInv, HeadRight
<1>9. HandlerRight'
  BY <1>2 DEF ControllerInv, HandlerRight
<1>10. LoggingRight'
  BY <1>2, <1>3, <1>4, <1>6 DEF ControllerInv, LoggingRight
<1>11. RootRight'
  BY <1>2, <1>6, LoggingRoot, ZenonT(30) DEF RootRight
<1>12. Ledger!Extend(b)
  BY <1>1, <1>3, <1>5 DEF Ledger!Extend, LogHead
<1>. QED BY <1>3, <1>6, <1>7, <1>8, <1>9, <1>10, <1>11, <1>12, ZenonT(30) DEF ControllerInv

\* Removing reversible blocks touches neither the log nor the fork database.
LEMMA LogDropRight ==
    ASSUME ControllerInv, LogDrop
    PROVE  ControllerInv'
<1>1. /\ pc = "drop" /\ pc' \in {"logging", "drop"}
      /\ UNCHANGED <<fdbVars, head, blog, mode, ret, target>>
      /\ index' = index /\ validated' = validated /\ root' = root
  BY DEF LogDrop, runVars, fdbVars
<1>2. FlagsInv' /\ LogRight' /\ Logged' = Logged /\ LogHead' = LogHead
  BY <1>1, StillRight
<1>3. HeadRight' /\ HandlerRight'
  BY <1>1, <1>2 DEF ControllerInv, HeadRight, HandlerRight
<1>4. LoggingRight'
  BY <1>1, <1>2 DEF ControllerInv, LoggingRight
<1>5. RootRight'
  BY <1>1, <1>2, ZenonT(30) DEF ControllerInv, RootRight, Failures
<1>. QED BY <1>2, <1>3, <1>4, <1>5 DEF ControllerInv, FlagsInv

\* The root follows the log, when its last block or an exception has been reached.
LEMMA LogEndRight ==
    ASSUME ControllerInv, LogAdvance \/ LogApplyThrows
    PROVE  ControllerInv'
<1>1. /\ pc = "logging" /\ UNCHANGED <<head, blog, mode, ret, target>>
      /\ \/ AdvanceRoot(LogHead) /\ pc' \in {ret, "idle", "down"}
         \/ UNCHANGED fdbVars /\ pc' = "assert_prune"
         \/ UNCHANGED fdbVars /\ root = LogHead /\ pc' \in {"idle", "down"}
      /\ ret \in {"idle", "replay", "best_loop"}
  BY ZenonT(30) DEF LogAdvance, LogApplyThrows, LogReturns, Thrown, dbVars, runVars, ControllerInv, HandlerRight
<1>2. LogRight' /\ Logged' = Logged /\ LogHead' = LogHead
  BY <1>1 DEF ControllerInv, LogRight, Logged, LogHead
<1>3. /\ LogHead \in Logged /\ LogHead \in Block /\ Num[LogHead] \in Nat
      /\ LogHead \notin Bad
  BY LogNumbers, FieldAssumption, ZenonT(30) DEF ControllerInv
<1>4. HandlerRight' /\ LoggingRight'
  BY <1>1 DEF ControllerInv, HandlerRight, LoggingRight
<1>5. CASE AdvanceRoot(LogHead) /\ pc' \in {ret, "idle", "down"}
  <2>1. /\ FlagsInv' /\ root' = LogHead
        /\ (head \in Descendants(root, Block) => head \in validated)
              => (head \in Descendants(LogHead, Block) => head \in validated')
    BY <1>3, <1>5, AdvanceKeepsFlags DEF ControllerInv, FlagsInv
  <2>2. HeadRight'
    BY <1>1, <1>5, <2>1, ZenonT(30) DEF ControllerInv, HeadRight
  <2>3. RootRight'
    BY <1>1, <1>2, <1>3, <1>5, <2>1 DEF RootRight
  <2>. QED BY <1>2, <1>4, <2>1, <2>2, <2>3 DEF ControllerInv, FlagsInv
<1>6. CASE UNCHANGED fdbVars /\ pc' \in {"assert_prune", "idle", "down"}
           /\ (pc' # "assert_prune" => root = LogHead)
  <2>1. index' = index /\ validated' = validated /\ root' = root
    BY <1>6 DEF fdbVars
  <2>2. FlagsInv'
    BY <1>1, <1>6, StillRight
  <2>3. HeadRight'
    BY <1>1, <1>6, <2>1 DEF ControllerInv, HeadRight
  <2>4. RootRight'
    BY <1>1, <1>2, <1>3, <1>6, <2>1 DEF ControllerInv, RootRight, Failures
  <2>. QED BY <1>2, <1>4, <2>2, <2>3, <2>4 DEF ControllerInv, FlagsInv
<1>. QED BY <1>1, <1>5, <1>6, ZenonT(30)

\* A failing append leaves the root ahead of the log.
LEMMA LogAppendThrowsRight ==
    ASSUME ControllerInv, LogAppendThrows
    PROVE  ControllerInv'
<1>1. PICK b \in NextLogged : AdvanceRoot(b)
  BY DEF LogAppendThrows
<1>2. /\ pc = "append" /\ UNCHANGED <<head, blog, mode, ret, target>> /\ pc' \in {"idle", "down"}
  BY DEF LogAppendThrows, Thrown, runVars, dbVars
<1>3. LogRight' /\ Logged' = Logged /\ LogHead' = LogHead
  BY <1>2 DEF ControllerInv, LogRight, Logged, LogHead
<1>4. b \in index /\ b \in Block /\ Num[b] = Num[LogHead] + 1 /\ Num[LogHead] \in Nat
  BY <1>2, NextIsBuilt
<1>5. HandlerRight' /\ LoggingRight'
  BY <1>2 DEF ControllerInv, HandlerRight, LoggingRight
<1>6. FlagsInv' /\ root' = b /\ HeadRight'
  <2>1. /\ FlagsInv' /\ root' = b
        /\ (head \in Descendants(root, Block) => head \in validated)
              => (head \in Descendants(b, Block) => head \in validated')
    BY <1>1, <1>4, AdvanceKeepsFlags DEF ControllerInv, FlagsInv
  <2>. QED BY <1>2, <2>1 DEF ControllerInv, HeadRight
<1>7. RootRight'
  BY <1>2, <1>3, <1>4, <1>6 DEF RootRight
<1>. QED BY <1>3, <1>5, <1>6, <1>7 DEF ControllerInv, FlagsInv

\* A crash leaves the genesis block, and the log.
LEMMA CrashRight ==
    ASSUME ControllerInv, Crash
    PROVE  ControllerInv'
<1>1. /\ head' = Genesis /\ pc' = "wiped" /\ UNCHANGED <<blog, mode, ret, target>>
      /\ Reset(Genesis)
  BY DEF Crash, Wiped, runVars
<1>2. Genesis \in Block /\ Genesis \notin Bad
  BY GenesisAssumption, BadAssumption
<1>3. FlagsInv' /\ index' = {} /\ validated' = {Genesis} /\ root' = Genesis
  BY <1>1, <1>2, ResetKeepsFlags, ZenonT(30)
<1>4. LogRight' /\ Logged' = Logged /\ LogHead' = LogHead /\ Genesis \in Logged
  BY <1>1, LogNumbers, SMTT(30) DEF ControllerInv, LogRight, Logged, LogHead
<1>5. HeadRight' /\ HandlerRight' /\ LoggingRight' /\ RootRight'
  BY <1>1, <1>2, <1>3, <1>4 DEF ControllerInv, HeadRight, HandlerRight, LoggingRight, RootRight
<1>. QED BY <1>3, <1>4, <1>5 DEF ControllerInv, FlagsInv

\* A replay of the log starts from the genesis block.
LEMMA ReplayRequestRight ==
    ASSUME ControllerInv, ReplayRequest
    PROVE  ControllerInv'
<1>1. /\ pc = "down" /\ head' = Genesis /\ pc' = "wiped" /\ UNCHANGED <<blog, mode, ret, target>>
      /\ UNCHANGED fdbVars
  BY DEF ReplayRequest, Wiped, runVars
<1>2. index' = index /\ validated' = validated /\ root' = root
  BY <1>1 DEF fdbVars
<1>3. FlagsInv' /\ LogRight' /\ Logged' = Logged /\ LogHead' = LogHead
  BY <1>1, StillRight
<1>4. Genesis \in Descendants(root, Block) => Genesis \in validated
  BY GenesisAlone, ZenonT(30) DEF ControllerInv, FdbInv, TypeOK, Rooted
<1>5. HeadRight' /\ HandlerRight' /\ LoggingRight' /\ RootRight'
  BY <1>1, <1>2, <1>3, <1>4, GenesisAssumption, ZenonT(30)
     DEF ControllerInv, HeadRight, HandlerRight, LoggingRight, RootRight
<1>. QED BY <1>3, <1>5 DEF ControllerInv, FlagsInv

\* init: a fork database whose root is behind the log holds nothing else, so that the
\* log is replayed.
LEMMA StartRight ==
    ASSUME ControllerInv, NEW m, Start(m)
    PROVE  ControllerInv'
<1>1. /\ pc \in {"down", "wiped"} /\ blog' = blog /\ ret' = "replay"
      /\ head' = IF pc = "wiped" THEN Genesis ELSE fork_head'
  BY DEF Start
<1>2. FlagsInv' /\ index' = index /\ root' = root
  <2>1. CASE RollbackHeadToRoot
    BY <2>1, RollbackKeepsFlags DEF ControllerInv, FlagsInv
  <2>2. CASE UNCHANGED fdbVars
    BY <1>1, <2>2, StillRight, ZenonT(30) DEF fdbVars
  <2>. QED BY <2>1, <2>2 DEF Start
<1>3. LogRight' /\ Logged' = Logged /\ LogHead' = LogHead /\ Genesis \in Logged
  BY <1>1, LogNumbers DEF ControllerInv, LogRight, Logged, LogHead
<1>4. /\ root \in Block /\ index \subseteq Block /\ fork_head' \in Block
      /\ fork_head' \in validated' /\ fork_head' \in index \cup {root} /\ root \in validated'
  BY <1>2 DEF FlagsInv, FdbInv, TypeOK, Rooted, HeadIsBest
<1>5. /\ Num[root] \in Nat /\ Num[fork_head'] \in Nat /\ Num[LogHead] \in Nat
      /\ Num[Genesis] \in Nat /\ Num[Genesis] =< Num[root]
  BY <1>4, LogNumbers, GenesisAssumption, GenesisLowest, FieldAssumption DEF ControllerInv
<1>a. Num[head'] \in Nat
  BY <1>1, <1>5
<1>b. /\ pc' \in {"replay_log", "replay_rev", "best", "assert_init"}
      /\ pc' = "replay_log" => Num[LogHead] > Num[head']
      /\ pc' \in {"replay_rev", "best"} => ~(Num[LogHead] > Num[head'])
  <2>. DEFINE up == Num[LogHead] > Num[head']
              down == Num[LogHead] =< Num[head']
              more == LastStored(reversible') > Num[head']
              ok == \A p \in PendingHead' : StartAssertions(m, head', reversible', p)
  <2>1. pc' = IF ok THEN CASE up -> "replay_log" [] down /\ more -> "replay_rev" [] OTHER -> "best"
              ELSE "assert_init"
    BY DEF Start
  <2>2. down <=> ~up
    BY <1>5, <1>a
  <2>. HIDE DEF up, down, more, ok
  <2>3. /\ pc' \in {"replay_log", "replay_rev", "best", "assert_init"}
        /\ pc' = "replay_log" => up
        /\ pc' \in {"replay_rev", "best"} => ~up
    BY <2>1, <2>2
  <2>. QED BY <2>3 DEF up
<1>6. head' \in Descendants(root, Block) => head' \in validated'
  BY <1>1, <1>4, GenesisAlone, ZenonT(30)
<1>7. Num[root] =< Num[fork_head']
  BY <1>4, <1>5, AboveRoot DEF ControllerInv, FdbInv, Rooted
<1>8. ASSUME Num[root] < Num[LogHead]
      PROVE  index = {} /\ fork_head' = root /\ root \in Logged /\ Num[LogHead] > Num[head']
  <2>1. index = {} /\ fork_head' = root
    BY <1>1, <1>4, <1>8 DEF ControllerInv, RootRight
  <2>2. root \in Logged
    BY <1>5, <1>8 DEF ControllerInv, RootRight
  <2>3. head' = root \/ head' = Genesis
    BY <1>1, <2>1
  <2>4. Num[head'] =< Num[root] /\ Num[head'] \in Nat
    BY <1>5, <2>3
  <2>. QED BY <1>5, <1>8, <2>1, <2>2, <2>4
<1>9. ASSUME pc' = "replay_log" PROVE head' \in Logged
  <2>1. CASE head' = Genesis
    BY <1>3, <2>1
  <2>2. CASE head' = fork_head'
    <3>1. Num[root] < Num[LogHead]
      BY <1>1, <1>5, <1>7, <1>9, <1>b, <2>2
    <3>. QED BY <1>8, <2>2, <3>1
  <2>. QED BY <1>1, <2>1, <2>2
<1>10. HeadRight'
  BY <1>1, <1>2, <1>3, <1>4, <1>6, <1>9, <1>b, GenesisAssumption, ZenonT(30) DEF HeadRight
<1>11. HandlerRight' /\ LoggingRight'
  BY <1>1, <1>b, ZenonT(30) DEF HandlerRight, LoggingRight
<1>12. RootRight'
  <2>1. pc' \in {"replay_rev", "best"} => ~(Num[root] < Num[LogHead])
    BY <1>8, <1>b
  <2>. QED BY <1>1, <1>2, <1>3, <1>5, <1>8, <1>b, <2>1 DEF ControllerInv, RootRight, Failures
<1>. QED BY <1>2, <1>3, <1>10, <1>11, <1>12 DEF ControllerInv, FlagsInv

\* A block of the log is replayed.
LEMMA ReplayLoggedRight ==
    ASSUME ControllerInv, ReplayLogged
    PROVE  ControllerInv'
<1>1. /\ pc = "replay_log" /\ UNCHANGED <<fdbVars, blog, mode, pc, ret, target>>
      /\ Num[head] < Num[LogHead] /\ head' = blog[Num[head] + 1 - Num[blog[1]] + 1]
      /\ head \in Logged
  BY ZenonT(30) DEF ReplayLogged, runVars, ControllerInv, HeadRight
<1>2. index' = index /\ validated' = validated /\ root' = root
  BY <1>1, ZenonT(30) DEF fdbVars
<1>3. FlagsInv' /\ LogRight' /\ Logged' = Logged /\ LogHead' = LogHead
  BY <1>1, StillRight, ZenonT(30)
<1>4. PICK i \in 1..Len(blog) : head = blog[i]
  BY <1>1, ZenonT(30) DEF Logged
<1>5. /\ Len(blog) \in Nat /\ Num[Genesis] \in Nat /\ blog[1] = Genesis
      /\ Num[head] = Num[Genesis] + i - 1
  BY <1>4, GenesisAssumption, FieldAssumption DEF ControllerInv, LogRight
<1>6. Len(blog) \in 1..Len(blog)
  BY <1>4, <1>5
<1>7. Num[LogHead] = Num[Genesis] + Len(blog) - 1
  BY <1>6 DEF ControllerInv, LogRight, LogHead
<1>8. i + 1 \in 1..Len(blog) /\ Num[head] + 1 - Num[Genesis] + 1 = i + 1
  BY <1>1, <1>5, <1>7
<1>9. head' = blog[i + 1]
  BY <1>1, <1>5, <1>8, ZenonT(30)
<1>10. head' \in Logged /\ head' \in Block
  <2>1. head' \in Logged
    BY <1>8, <1>9 DEF Logged
  <2>. QED BY <2>1, LogNumbers DEF ControllerInv
<1>11. HeadRight' /\ HandlerRight' /\ LoggingRight' /\ RootRight'
  BY <1>1, <1>2, <1>3, <1>10
     DEF ControllerInv, HeadRight, HandlerRight, LoggingRight, RootRight, Failures
<1>. QED BY <1>3, <1>11, SMTT(30) DEF ControllerInv, FlagsInv

\* The blocks pending_head may return.
LEMMA PendingHeadPresent ==
    ASSUME FdbInv
    PROVE  PendingHead \subseteq index \cup {root}
<1>1. fork_head \in index \cup {root}
  BY DEF FdbInv, Rooted, HeadIsBest
<1>2. BestOf(index \ validated) \subseteq index
  BY DEF BestOf
<1>. QED BY <1>1, <1>2 DEF PendingHead

\* The replay of the log ends on a block that the fork database is then reset to, or
\* has as its root: a root behind the log is the only block of the fork database, so
\* that replay never marks a block of a pending branch as irreversible.
LEMMA ReplayLogEndsRight ==
    ASSUME ControllerInv, NEW quit \in BOOLEAN, ReplayLogEnds(quit)
    PROVE  ControllerInv'
<1>1. /\ UNCHANGED <<head, blog, mode, ret, target>>
      /\ pc' \in {"down", "replay"}
      /\ pc' = "replay" => Num[head] >= Num[LogHead]
  BY DEF ReplayLogEnds, dbVars, runVars
<1>2. LogRight' /\ Logged' = Logged /\ LogHead' = LogHead
  BY <1>1, ZenonT(30) DEF ControllerInv, LogRight, Logged, LogHead
<1>3. HandlerRight' /\ LoggingRight'
  BY <1>1 DEF ControllerInv, HandlerRight, LoggingRight
<1>4. /\ head \in Block /\ root \in Block
      /\ Num[root] \in Nat /\ Num[head] \in Nat /\ Num[LogHead] \in Nat
  BY LogNumbers, FieldAssumption DEF ControllerInv, HeadRight, FdbInv, TypeOK
<1>5. CASE pc = "replay_rev"
  <2>1. UNCHANGED fdbVars
    BY <1>5 DEF ReplayLogEnds
  <2>2. index' = index /\ validated' = validated /\ root' = root
    BY <2>1 DEF fdbVars
  <2>3. FlagsInv'
    BY <1>1, <2>1, StillRight
  <2>4. HeadRight'
    BY <1>1, <1>5, <2>2 DEF ControllerInv, HeadRight
  <2>5. RootRight'
    <3>1. Num[root] >= Num[LogHead] /\ (root \in Logged \/ Num[root] > Num[LogHead])
      BY <1>5 DEF ControllerInv, RootRight, Failures
    <3>2. Logged' = Logged /\ LogHead' = LogHead /\ root' = root
      BY <1>2, <2>2
    <3>. QED BY <1>4, <3>1, <3>2 DEF RootRight
  <2>. QED BY <1>2, <1>3, <2>3, <2>4, <2>5 DEF ControllerInv, FlagsInv
<1>6. CASE pc = "replay_log"
  <2>1. SyncForkDatabase /\ head \in Logged /\ head \notin Bad /\ Num[head] =< Num[LogHead]
    BY <1>6, LogNumbers, ZenonT(30) DEF ReplayLogEnds, ControllerInv, HeadRight
  <2>2. CASE Reset(head)
    <3>1. FlagsInv' /\ index' = {} /\ validated' = {head} /\ root' = head
      BY <1>4, <2>1, <2>2, ResetKeepsFlags, ZenonT(30)
    <3>2. HeadRight' /\ RootRight'
      BY <1>1, <1>2, <1>4, <2>1, <3>1, ZenonT(30) DEF HeadRight, RootRight
    <3>. QED BY <1>2, <1>3, <3>1, <3>2 DEF ControllerInv, FlagsInv
  <2>3. CASE ~(Num[head] < Num[root]) /\ Num[head] = Num[root] /\ UNCHANGED fdbVars
    <3>1. index' = index /\ validated' = validated /\ root' = root
      BY <2>3 DEF fdbVars
    <3>2. FlagsInv'
      BY <1>1, <2>3, StillRight
    <3>3. root \in Logged
      BY <1>4, <2>1, <2>3 DEF ControllerInv, RootRight
    <3>4. head = root
      BY <2>1, <2>3, <3>3, LogNumbers, ZenonT(30) DEF ControllerInv
    <3>5. HeadRight'
      BY <1>1, <1>4, <3>1, <3>4, ZenonT(30) DEF ControllerInv, HeadRight, FdbInv, Rooted
    <3>6. RootRight'
      BY <1>1, <1>2, <1>4, <1>6, <2>3, <3>1, <3>3, ZenonT(30) DEF ControllerInv, RootRight
    <3>. QED BY <1>2, <1>3, <3>2, <3>5, <3>6 DEF ControllerInv, FlagsInv
  <2>4. CASE ~(Num[head] < Num[root]) /\ Num[head] # Num[root] /\ index # {}
    <3>1. Num[root] < Num[LogHead]
      BY <1>4, <2>1, <2>4
    <3>. QED BY <1>6, <2>4, <3>1, ZenonT(30) DEF ControllerInv, RootRight
  <2>. QED BY <2>1, <2>2, <2>3, <2>4, SMTT(30) DEF SyncForkDatabase, Branch
<1>. QED BY <1>5, <1>6 DEF ReplayLogEnds

\* A reversible block is replayed.
LEMMA ReplayReversibleRight ==
    ASSUME ControllerInv, reversible \subseteq Block, ReplayReversible
    PROVE  ControllerInv'
<1>1. PICK b \in reversible :
         IF Prev[b] = head
         THEN /\ IF b \in index THEN UNCHANGED fdbVars ELSE Add(b, FALSE)
              /\ target' = b
              /\ pc' = "switch"
         ELSE UNCHANGED <<fdbVars, target>> /\ pc' = "assert_replay"
  BY ZenonT(30) DEF ReplayReversible
<1>2. pc = "replay" /\ UNCHANGED <<head, blog, mode, ret>>
  BY ZenonT(30) DEF ReplayReversible, dbVars
<1>3. LogRight' /\ Logged' = Logged /\ LogHead' = LogHead
  BY <1>2 DEF ControllerInv, LogRight, Logged, LogHead
<1>4. FlagsInv' /\ index' \in {index, index \cup {b}} /\ validated' = validated /\ root' = root
  <2>1. CASE UNCHANGED fdbVars
    BY <1>2, <2>1, StillRight DEF fdbVars
  <2>2. CASE Add(b, FALSE)
    BY <2>2, AddKeepsFlags, ZenonT(30) DEF ControllerInv, FlagsInv
  <2>. QED BY <1>1, <2>1, <2>2, ZenonT(30)
<1>5. pc' = "switch" => target' \in index'
  BY <1>1 DEF Add, fdbVars
<1>6. pc' \in {"switch", "assert_replay"}
  BY <1>1, ZenonT(30)
<1>7. HeadRight' /\ HandlerRight' /\ LoggingRight' /\ RootRight'
  BY <1>2, <1>3, <1>4, <1>5, <1>6, ZenonT(30)
     DEF ControllerInv, HeadRight, HandlerRight, LoggingRight, RootRight, Failures
<1>. QED BY <1>3, <1>4, <1>7, ZenonT(30) DEF ControllerInv, FlagsInv

\* The end of init.
LEMMA ApplyBestRight ==
    ASSUME ControllerInv, ApplyBest
    PROVE  ControllerInv'
<1>1. /\ pc \in {"best", "best_loop"} /\ UNCHANGED <<fdbVars, head, blog, mode>>
      /\ \/ pc' = "idle" /\ ret' = "idle"
         \/ pc' = "switch" /\ ret' = "best_loop" /\ target' \in PendingHead
  BY DEF ApplyBest, dbVars
<1>2. index' = index /\ validated' = validated /\ root' = root
  BY <1>1 DEF fdbVars
<1>3. FlagsInv' /\ LogRight' /\ Logged' = Logged /\ LogHead' = LogHead
  BY <1>1, StillRight
<1>4. PendingHead \subseteq index \cup {root}
  BY PendingHeadPresent, ZenonT(30) DEF ControllerInv
<1>5. HeadRight' /\ HandlerRight' /\ LoggingRight' /\ RootRight'
  BY <1>1, <1>2, <1>3, <1>4, ZenonT(30)
     DEF ControllerInv, HeadRight, HandlerRight, LoggingRight, RootRight, Failures
<1>. QED BY <1>3, <1>5 DEF ControllerInv, FlagsInv

-----------------------------------------------------------------------------
(* The block log is a ledger. *)

StoredRight == reversible \subseteq Block

LedgerInv == ControllerInv /\ StoredRight

\* A new chain.
LEMMA ControllerInitial == ControllerInit => LedgerInv
<1>. SUFFICES ASSUME ControllerInit PROVE LedgerInv
  OBVIOUS
<1>1. /\ Init /\ head = Genesis /\ blog = <<Genesis>> /\ pc = "idle" /\ ret = "idle"
      /\ reversible = {}
  BY DEF ControllerInit
<1>2. Genesis \in Block /\ Genesis \notin Bad /\ Num[Genesis] \in Nat
  BY GenesisAssumption, BadAssumption, FieldAssumption
<1>3. FdbInv /\ validated = {Genesis} /\ root = Genesis
  BY <1>1, FdbInitial, ZenonT(30) DEF Init
<1>4. LogRight /\ Logged = {Genesis} /\ LogHead = Genesis
  <2>1. blog \in Seq(Block) /\ Len(blog) = 1 /\ blog[1] = Genesis
    BY <1>1, <1>2
  <2>2. \A i \in 1..Len(blog) : i = 1
    BY <2>1
  <2>3. 1 \in 1..Len(blog)
    BY <2>1
  <2>. QED BY <1>2, <2>1, <2>2, <2>3 DEF LogRight, Logged, LogHead
<1>5. ValidRight /\ HeadRight /\ HandlerRight /\ LoggingRight
  BY <1>1, <1>2, <1>3 DEF ValidRight, HeadRight, HandlerRight, LoggingRight
<1>6. RootRight
  BY <1>1, <1>2, <1>3, <1>4 DEF RootRight
<1>. QED BY <1>1, <1>3, <1>4, <1>5, <1>6 DEF LedgerInv, ControllerInv, StoredRight

\* The reversible database stores blocks of the handler's branches only.
LEMMA StoredStep ==
    ASSUME LedgerInv, ControllerNext
    PROVE  StoredRight'
<1>. USE DEF LedgerInv, StoredRight
<1>1. index \cup {root} \cup validated \subseteq Block
  BY DEF ControllerInv, FdbInv, TypeOK
<1>2. CASE ApplyNew
  <2>1. PICK b \in first : ApplyBlock(b)
    BY <1>2 DEF ApplyNew
  <2>2. b \in Block
    BY <1>1, <1>2 DEF ApplyNew, ControllerInv, HandlerRight
  <2>. QED BY <2>1, <2>2 DEF ApplyBlock
<1>3. CASE ReapplyOld
  <2>1. PICK b \in second : ApplyBlock(b) \/ reversible' = reversible
    BY <1>3, ZenonT(30) DEF ReapplyOld
  <2>2. b \in Block
    BY <1>1, <1>3 DEF ReapplyOld, ControllerInv, HandlerRight
  <2>. QED BY <2>1, <2>2, SMTT(30) DEF ApplyBlock
<1>4. CASE CommitHead
  <2>1. target \in Block
    BY <1>1, <1>4, ZenonT(30) DEF CommitHead, ControllerInv, HandlerRight
  <2>. QED BY <1>4, <2>1 DEF CommitHead
<1>5. CASE PopOld \/ PopNew
  BY <1>5 DEF PopOld, PopNew, PopBlock
<1>6. CASE LogDrop
  BY <1>6 DEF LogDrop
<1>7. CASE Crash \/ \E m \in Modes : Start(m)
  BY <1>7 DEF Crash, Recovered, Start
<1>8. CASE UNCHANGED reversible
  BY <1>8
<1>9. CASE SwitchForks \/ ApplyNewThrows \/ LogStart \/ LogCommit \/ LogAppend
           \/ LogAdvance \/ LogApplyThrows \/ ReplayLogged \/ ReplayReversible \/ ReplayEnds \/ ApplyBest
  BY <1>8, <1>9, ZenonT(30) DEF SwitchForks, ApplyNewThrows, LogStart, LogCommit, LogAppend, LogAdvance, LogApplyThrows,
     ReplayLogged, ReplayReversible, ReplayEnds, ApplyBest, dbVars
<1>10. CASE \/ \E quit \in BOOLEAN : ReplayLogEnds(quit)
            \/ \E b \in Block : PushBlock(b) \/ CommitBlock(b)
            \/ LogAppendThrows \/ StartBlock \/ AbortBlock \/ Shutdown \/ ReplayRequest
  BY <1>8, <1>10, ZenonT(30) DEF ReplayLogEnds, PushBlock, CommitBlock, LogAppendThrows, StartBlock,
     AbortBlock, Shutdown, ReplayRequest, dbVars
<1>. QED BY <1>2, <1>3, <1>4, <1>5, <1>6, <1>7, <1>9, <1>10, ZenonT(30) DEF ControllerNext, Step

\* Whether a block is pending says nothing about the log.
LEMMA NothingMoves ==
    ASSUME LedgerInv,
           UNCHANGED <<fdbVars, blog, head, mode, pc, ret, target, first, second, reversible>>
    PROVE  LedgerInv' /\ blog' = blog
<1>1. index' = index /\ validated' = validated /\ root' = root
  BY DEF fdbVars
<1>2. FlagsInv' /\ LogRight' /\ Logged' = Logged /\ LogHead' = LogHead
  BY StillRight, ZenonT(30) DEF LedgerInv
<1>3. HeadRight' /\ HandlerRight' /\ StoredRight'
  BY <1>1, <1>2 DEF LedgerInv, ControllerInv, HeadRight, HandlerRight, StoredRight
<1>4. NextLogged' = NextLogged
  BY <1>1, <1>2 DEF NextLogged, Branch
<1>5. LoggingRight'
  BY <1>1, <1>2, <1>4 DEF LedgerInv, ControllerInv, LoggingRight
<1>6. RootRight'
  BY <1>1, <1>2 DEF LedgerInv, ControllerInv, RootRight, Failures
<1>. QED BY <1>2, <1>3, <1>5, <1>6 DEF LedgerInv, ControllerInv, FlagsInv

\* Every step keeps the invariant, and extends the log by the next block or leaves it.
LEMMA ControllerStep ==
    ASSUME LedgerInv, [ControllerNext]_vars
    PROVE  LedgerInv' /\ [Ledger!Next]_blog
<1>1. CASE UNCHANGED vars
  BY <1>1, NothingMoves DEF vars, dbVars, runVars
<1>2. CASE LogAppend
  <2>1. ControllerInv' /\ \E b \in Block : Ledger!Extend(b)
    BY <1>2, LogAppendRight DEF LedgerInv
  <2>2. StoredRight'
    BY <1>2, StoredStep DEF ControllerNext, Step
  <2>. QED BY <2>1, <2>2 DEF LedgerInv, Ledger!Next
<1>3. CASE SwitchForks \/ PopOld \/ ApplyNew \/ ApplyNewThrows \/ PopNew \/ ReapplyOld
           \/ CommitHead \/ LogStart \/ LogCommit \/ LogDrop \/ LogAdvance \/ LogApplyThrows
           \/ ReplayLogged \/ ReplayReversible \/ ReplayEnds \/ ApplyBest
  <2>1. ControllerInv'
    BY <1>3, SwitchForksRight, PopOldRight, ApplyNewRight, ApplyNewThrowsRight, PopNewRight,
       ReapplyOldRight, CommitHeadRight, LogStartRight, LogCommitRight, LogDropRight, LogEndRight, ReplayLoggedRight,
       ReplayReversibleRight, IdleRight, ApplyBestRight, ZenonT(30) DEF LedgerInv, StoredRight
  <2>2. StoredRight'
    BY <1>3, StoredStep, ZenonT(30) DEF ControllerNext, Step
  <2>3. blog' = blog
    BY <1>3, ZenonT(30) DEF SwitchForks, PopOld, ApplyNew, ApplyNewThrows, PopNew, ReapplyOld, CommitHead,
       LogStart, LogCommit, LogDrop, LogAdvance, LogApplyThrows, ReplayLogged, ReplayReversible,
       ReplayEnds, ApplyBest, dbVars
  <2>. QED BY <2>1, <2>2, <2>3 DEF LedgerInv
<1>4. CASE \/ \E quit \in BOOLEAN : ReplayLogEnds(quit)
           \/ \E b \in Block : PushBlock(b) \/ CommitBlock(b)
           \/ \E m \in Modes : Start(m)
           \/ LogAppendThrows \/ StartBlock \/ AbortBlock \/ Shutdown \/ ReplayRequest
           \/ Crash
  <2>1. ControllerInv'
    BY <1>4, ReplayLogEndsRight, PushBlockRight, CommitBlockRight, StartRight,
       LogAppendThrowsRight, IdleRight, ReplayRequestRight, CrashRight, ZenonT(30) DEF LedgerInv
  <2>2. StoredRight'
    <3>1. ControllerNext \/ \E quit \in BOOLEAN : ReplayLogEnds(quit)
      BY <1>4, ZenonT(30) DEF ControllerNext
    <3>2. ASSUME NEW quit \in BOOLEAN, ReplayLogEnds(quit) PROVE UNCHANGED reversible
      BY <3>2 DEF ReplayLogEnds, dbVars
    <3>. QED BY <3>1, <3>2, StoredStep DEF LedgerInv, StoredRight
  <2>3. blog' = blog
    BY <1>4, ZenonT(30) DEF ReplayLogEnds, PushBlock, CommitBlock, Start, LogAppendThrows, StartBlock,
       AbortBlock, Shutdown, ReplayRequest, Crash, dbVars
  <2>. QED BY <2>1, <2>2, <2>3 DEF LedgerInv
<1>. QED BY <1>1, <1>2, <1>3, <1>4, ZenonT(30) DEF ControllerNext, Step

\* The block log of a node refines an append-only ledger of blocks that execute, each
\* built on the last: for every tree of blocks, however blocks are received and
\* produced, through fork switches that fail half way, log appends that fail, crashes
\* anywhere in a handler, restarts, changes of the read mode and snapshots,
\* log_irreversible never appends a block that is not built on the last one or does not
\* execute.
THEOREM ControllerKeepsLedger == SnapshotsSpec => LedgerSpec
<1>1. LedgerInv /\ [SnapshotsNext]_<<vars, snapshotVars>> => LedgerInv' /\ [Ledger!Next]_blog
  <2>. SUFFICES ASSUME LedgerInv, [SnapshotsNext]_<<vars, snapshotVars>>
                PROVE  LedgerInv' /\ [Ledger!Next]_blog
    OBVIOUS
  <2>1. CASE [ControllerNext]_vars
    BY <2>1, ControllerStep
  <2>2. CASE CreateSnapshot
    BY <2>2, NothingMoves DEF CreateSnapshot, dbVars, runVars
  <2>. QED BY <2>1, <2>2 DEF SnapshotsNext
<1>2. SnapshotsInit => LedgerInv /\ Ledger!Init
  BY ControllerInitial DEF SnapshotsInit, ControllerInit, Ledger!Init
<1>. QED BY <1>1, <1>2, PTL DEF SnapshotsSpec, LedgerSpec, Ledger!Spec
================================================================================
