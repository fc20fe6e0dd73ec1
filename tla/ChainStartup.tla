---------------------------- MODULE ChainStartup ----------------------------
(***************************************************************************)
(* What nodeos does with its data directories between the command line and *)
(* a running chain: chain_plugin::plugin_initialize (the maintenance       *)
(* options in their order, the choice of the genesis state), the           *)
(* construction of the controller, controller_impl::init, plugin_shutdown, *)
(* and kills at every one of those points.                                 *)
(*                                                                         *)
(* A chain is its genesis and a number of blocks: forks are the subject of *)
(* the Controller module, the bytes of the block log that of BlockLog.     *)
(***************************************************************************)
EXTENDS Integers, Sequences, FiniteSets

CONSTANTS
  Geneses,        \* genesis states a file can hold
  DefaultGenesis, \* genesis_state()
  Adjusted,       \* Adjusted[g]: g with --genesis-timestamp
  Options,        \* command lines: [flags, genesis, truncate]
  MaxBlocks,
  Unset           \* no genesis

VARIABLES
  disk,    \* the files
  snap,    \* the snapshot file
  pc,      \* "down", "built" (plugin_initialize returned) or "up"
  conf     \* chain_config: the genesis, and whether a snapshot is loaded

startVars == <<disk, snap, pc, conf>>

(***************************************************************************)
(* The files.  "set" says that the block log's header has been written;    *)
(* "last" < "first" is a log without blocks.  "dirty" is the flag a        *)
(* memory-mapped database carries while a process has it open.             *)
(***************************************************************************)

NoLog == [there |-> FALSE, set |-> FALSE, genesis |-> Unset, first |-> 1, last |-> 0]

NoState == [there |-> FALSE, dirty |-> FALSE, genesis |-> Unset, head |-> 0]

NoFork == [there |-> FALSE, root |-> 0, head |-> 0]

NoBlocks == [there |-> FALSE, dirty |-> FALSE, genesis |-> Unset, lo |-> 1, hi |-> 0]

NoConfig == [snapshot |-> FALSE, genesis |-> Unset]

NoSnapshot == [there |-> FALSE, genesis |-> Unset, head |-> 0]

\* The blocks some file still holds.  "saved" are those of the backup directories.
LogBlocks(log) == {<<log.genesis, n>> : n \in log.first .. log.last}

\* The reversible blocks lo to hi.
Blocks(rev, lo, hi) ==
  IF lo <= hi THEN [rev EXCEPT !.lo = lo, !.hi = hi] ELSE [rev EXCEPT !.lo = 1, !.hi = 0, !.genesis = Unset]

RevBlocks(rev) == {<<rev.genesis, n>> : n \in rev.lo .. rev.hi}

Held(d) == LogBlocks(d.log) \cup RevBlocks(d.rev) \cup d.saved

HasHead(log) == log.set /\ log.first <= log.last

\* The command-line options of chain_plugin that concern the files.
CommandLines ==
  [flags : SUBSET {"delete", "backup", "hard", "replay", "fix", "import", "export", "extract", "snapshot", "timestamp"},
   genesis : Geneses \cup {Unset}, truncate : 0 .. MaxBlocks]

(***************************************************************************)
(* The maintenance options.  Each yields the successive contents of the    *)
(* disk, so that a kill can fall between them, and how it ends: "go" on,   *)
(* "exit" as intended, or "fail" with an exception.                        *)
(***************************************************************************)

Ends(steps, how) == [steps |-> steps, how |-> how]

ClearDirectoryContents(d) == [d EXCEPT !.state = NoState, !.fork = NoFork]

ClearChainbaseFiles(d) == [d EXCEPT !.state = NoState]

DeleteAllBlocks(d) ==
  LET cleared == ClearDirectoryContents(d)
  IN Ends(<<cleared, [cleared EXCEPT !.log = NoLog, !.rev = NoBlocks]>>, "go")

FixReversibleInPlace(d, t, how) ==
  IF ~d.rev.there THEN Ends(<<>>, "fail")
  ELSE Ends(<<[d EXCEPT !.rev = NoBlocks], [d EXCEPT !.rev = [@ EXCEPT !.dirty = FALSE]]>>, how)

\* recover_reversible_blocks in place.
FixReversibleBlocks(d, t, how) ==
  LET rev == d.rev
      cut == IF t > 0 /\ t < rev.hi THEN t ELSE rev.hi
      moved == [d EXCEPT !.rev = NoBlocks, !.saved = @ \cup RevBlocks(rev)]
      new == Blocks([rev EXCEPT !.dirty = FALSE], rev.lo, cut)
  IN IF ~rev.there THEN Ends(<<>>, "fail")
     ELSE IF ~rev.dirty /\ (t = 0 \/ (rev.lo <= rev.hi /\ rev.hi <= t)) THEN Ends(<<>>, how)
     ELSE Ends(<<moved, [moved EXCEPT !.rev = new]>>, how)

\* Hard replay: the state goes first, then the blocks directory is moved to a
\* backup, the log rebuilt from it, and the reversible blocks rebuilt or copied.
HardReplay(d, o) ==
  LET c     == ClearDirectoryContents(d)
      moved == [c EXCEPT !.log = NoLog, !.rev = NoBlocks, !.saved = Held(c)]
      empty == [moved EXCEPT !.log = [NoLog EXCEPT !.there = TRUE]]
      log   == [d.log EXCEPT !.last = IF o.truncate > 0 /\ o.truncate < @ THEN o.truncate ELSE @]
      built == [moved EXCEPT !.log = log]
      new   == Blocks([d.rev EXCEPT !.dirty = FALSE], d.rev.lo,
                      IF o.truncate > 0 /\ o.truncate < d.rev.hi THEN o.truncate ELSE d.rev.hi)
  IN CASE ~d.log.there -> Ends(<<c>>, "fail")
       [] d.log.there /\ ~d.log.set -> Ends(<<c, moved, empty>>, "fail")
       [] d.log.set /\ d.rev.there -> Ends(<<c, moved, empty, built, [built EXCEPT !.rev = new]>>, "go")
       [] d.log.set /\ ~d.rev.there ->
            Ends(<<c, moved, empty, built>>, IF "fix" \in o.flags THEN "fail" ELSE "go")

ReplayBlockchain(d, o) ==
  LET c == ClearChainbaseFiles(d)
  IN IF "fix" \notin o.flags THEN Ends(<<c>>, "go")
     ELSE LET x == FixReversibleBlocks(c, 0, "go") IN Ends(<<c>> \o x.steps, x.how)

\* The reversible blocks are removed before the file is looked at; a file that
\* is not there, or ends in the middle of a block, imports what it has.
ImportReversibleBlocks(d) ==
  LET gone == [d EXCEPT !.rev = NoBlocks]
      new  == [there |-> TRUE, dirty |-> FALSE, genesis |-> d.portable.genesis,
               lo |-> d.portable.lo, hi |-> d.portable.hi]
  IN Ends(<<gone, [gone EXCEPT !.rev = new]>>, "exit")

ExportReversibleBlocks(d) ==
  IF ~d.rev.there THEN Ends(<<>>, "fail")
  ELSE Ends(<<[d EXCEPT !.portable = [genesis |-> d.rev.genesis, lo |-> d.rev.lo, hi |-> d.rev.hi]]>>, "exit")

BackupBlocksLog(d) == Ends(<<>>, IF d.log.there THEN "go" ELSE "fail")

ExtractGenesis(d) == Ends(<<>>, IF d.log.there /\ ~d.log.set THEN "fail" ELSE "exit")

\* The order in which plugin_initialize looks at the options.
Maintenance(d, o) ==
  CASE "extract" \in o.flags -> ExtractGenesis(d)
    [] "extract" \notin o.flags /\ "export" \in o.flags -> ExportReversibleBlocks(d)
    [] OTHER ->
       IF "delete" \in o.flags THEN DeleteAllBlocks(d)
       ELSE IF "backup" \in o.flags THEN BackupBlocksLog(d)
       ELSE IF "hard" \in o.flags THEN HardReplay(d, o)
       ELSE IF "replay" \in o.flags THEN ReplayBlockchain(d, o)
       ELSE IF "fix" \in o.flags THEN FixReversibleBlocks(d, o.truncate, "exit")
       ELSE IF o.truncate > 0 THEN Ends(<<>>, "go")
       ELSE IF "import" \in o.flags THEN ImportReversibleBlocks(d)
       ELSE Ends(<<>>, "go")

After(d, x) == IF x.steps = <<>> THEN d ELSE x.steps[Len(x.steps)]

(***************************************************************************)
(* The genesis state.                                                      *)
(***************************************************************************)

\* With a snapshot it is the snapshot's, and must be that of the log.
GenesisFromSnapshot(d, o) ==
  /\ snap.there
  /\ "timestamp" \notin o.flags
  /\ o.genesis \in {Unset, snap.genesis}
  /\ ~d.state.there
  /\ d.log.there => d.log.set /\ d.log.genesis = snap.genesis

\* Otherwise that of the log, of the file, or the default one.
Chosen(d, o) ==
  LET g == IF o.genesis # Unset THEN o.genesis
           ELSE IF d.log.there THEN d.log.genesis ELSE DefaultGenesis
  IN IF "timestamp" \in o.flags THEN Adjusted[g] ELSE g

GenesisFromLogUnchecked(d, o) == d.log.there => d.log.set

GenesisFromLog(d, o) ==
  d.log.there => d.log.set /\ Chosen(d, o) = d.log.genesis

GenesisAgrees(d, o) ==
  IF "snapshot" \in o.flags THEN GenesisFromSnapshot(d, o) ELSE GenesisFromLog(d, o)

(***************************************************************************)
(* The controller.  Its members open the state, the reversible blocks, the *)
(* log and the fork database in turn; what the earlier ones created stays  *)
(* when a later one throws.                                                *)
(***************************************************************************)

StateOpened(d) == [d EXCEPT !.state = [@ EXCEPT !.there = TRUE]]

Opens(d) == ~d.state.dirty /\ ~d.rev.dirty

OpenFails(d) == IF d.state.dirty THEN d ELSE StateOpened(d)

\* fork_database::open reads the file and removes it; here it stays in "fork"
\* without being on disk.
Opened(d) ==
  [d EXCEPT !.state = [@ EXCEPT !.there = TRUE, !.dirty = TRUE],
            !.rev = [@ EXCEPT !.there = TRUE, !.dirty = TRUE],
            !.log = [@ EXCEPT !.there = TRUE],
            !.fork = [@ EXCEPT !.there = FALSE]]

\* The destructors: the databases are flushed, the fork database is written.
Closed(d) ==
  [d EXCEPT !.state = [@ EXCEPT !.dirty = FALSE], !.rev = [@ EXCEPT !.dirty = FALSE],
            !.fork = [@ EXCEPT !.there = d.fork.root > 0]]

ResetLog(d, g, first, last) ==
  [d EXCEPT !.log = [there |-> TRUE, set |-> TRUE, genesis |-> g, first |-> first, last |-> last]]

Failed(d) == [ok |-> FALSE, disk |-> d]

\* The first half of init: the state, the head and the log.
FromSnapshot(d) ==
  LET loaded == [d EXCEPT !.state = [@ EXCEPT !.genesis = snap.genesis, !.head = snap.head],
                          !.fork = [@ EXCEPT !.root = snap.head, !.head = snap.head]]
  IN IF HasHead(d.log)
     THEN IF d.log.first <= snap.head + 1 /\ snap.head <= d.log.last
          THEN [ok |-> TRUE, disk |-> loaded, lib |-> d.log.last]
          ELSE Failed(d)
     ELSE [ok |-> TRUE, disk |-> ResetLog(loaded, conf.genesis, snap.head + 1, snap.head), lib |-> snap.head]

FromGenesis(d) ==
  LET fresh == [d EXCEPT !.state = [@ EXCEPT !.genesis = conf.genesis, !.head = 1],
                         !.fork = IF @.root = 0 THEN [@ EXCEPT !.root = 1, !.head = 1] ELSE @]
  IN CASE d.state.head >= 1 -> Failed(d)
       [] d.state.head < 1 /\ HasHead(d.log) ->
            IF d.log.first = 1 THEN [ok |-> TRUE, disk |-> fresh, lib |-> d.log.last] ELSE Failed(fresh)
       [] OTHER -> [ok |-> TRUE, disk |-> ResetLog(fresh, conf.genesis, 1, 1), lib |-> 1]

FromState(d) ==
  IF HasHead(d.log)
  THEN IF d.log.first <= d.fork.root /\ d.fork.root <= d.log.last
       THEN [ok |-> TRUE, disk |-> d, lib |-> d.log.last] ELSE Failed(d)
  ELSE [ok |-> TRUE, lib |-> d.fork.root,
        disk |-> IF d.log.first # d.fork.root + 1 THEN ResetLog(d, conf.genesis, d.fork.root + 1, d.fork.root) ELSE d]

\* The head after the first half: the fork database's when the state was kept.
HeadOf(d, kept) == IF kept THEN d.fork.head ELSE d.state.head

\* The second half: the state is undone to the head, the reversible blocks up
\* to the last irreversible one are dropped, and the blocks beyond the head are
\* replayed, those of the log first.  Reversible blocks of another chain do not
\* link.
Replay(x, kept) ==
  LET d    == x.disk
      head == HeadOf(d, kept)
      lo   == IF d.rev.lo <= d.rev.hi /\ d.rev.lo <= x.lib THEN x.lib + 1 ELSE d.rev.lo
      rev  == Blocks(d.rev, lo, d.rev.hi)
      last == IF rev.lo <= rev.hi THEN rev.hi ELSE x.lib
      root == IF x.lib > head THEN x.lib ELSE d.fork.root
  IN IF \/ d.state.head < head
        \/ rev.lo <= rev.hi /\ rev.lo # x.lib + 1
        \/ head > last
     THEN Failed([d EXCEPT !.rev = rev])
     ELSE IF rev.lo <= rev.hi /\ rev.genesis # d.state.genesis
     THEN Failed([d EXCEPT !.rev = rev, !.state = [@ EXCEPT !.head = IF x.lib > head THEN x.lib ELSE head],
                           !.fork = [@ EXCEPT !.root = root, !.head = IF x.lib > head THEN x.lib ELSE head]])
     ELSE [ok |-> TRUE,
           disk |-> [d EXCEPT !.rev = rev, !.state = [@ EXCEPT !.head = IF last > head THEN last ELSE head],
                              !.fork = [@ EXCEPT !.root = root, !.head = IF last > head THEN last ELSE @]]]

Start(d) ==
  LET kept == ~conf.snapshot /\ d.state.head >= 1 /\ d.fork.root > 0
      x    == IF conf.snapshot THEN FromSnapshot(d)
              ELSE IF kept THEN FromState(d) ELSE FromGenesis(d)
  IN IF x.ok THEN Replay(x, kept) ELSE x

(***************************************************************************)
(* The actions.                                                            *)
(***************************************************************************)

\* A fork database that was not on disk is gone when the next process opens it.
OnDisk(d) == [d EXCEPT !.fork = IF @.there THEN @ ELSE NoFork]

Initialize(o) ==
  /\ pc = "down"
  /\ \E x \in {Maintenance(disk, o)} : \E d \in {After(disk, x)} :
       LET goes == x.how = "go" /\ GenesisAgrees(d, o)
       IN /\ disk' = IF goes /\ Opens(d) THEN Opened(d) ELSE IF goes THEN OpenFails(d) ELSE d
          /\ pc' = IF goes /\ Opens(d) THEN "built" ELSE "down"
          /\ conf' = IF goes /\ Opens(d)
                     THEN [snapshot |-> "snapshot" \in o.flags,
                           genesis |-> IF "snapshot" \in o.flags THEN snap.genesis ELSE Chosen(d, o)]
                     ELSE NoConfig
  /\ UNCHANGED snap

\* A kill while an option is carried out.
KilledInMaintenance(o) ==
  /\ pc = "down"
  /\ LET x == Maintenance(disk, o)
     IN \E i \in 1 .. Len(x.steps) - 1 : disk' = x.steps[i]
  /\ UNCHANGED <<snap, pc, conf>>

PluginStartup ==
  /\ pc = "built"
  /\ \E x \in {Start(disk)} :
       /\ disk' = IF x.ok THEN x.disk ELSE Closed(x.disk)
       /\ pc' = IF x.ok THEN "up" ELSE "down"
       /\ conf' = IF x.ok THEN conf ELSE NoConfig
  /\ UNCHANGED snap

\* A block is produced or received that builds on the head, which must be the
\* fork database's; the log follows some blocks behind.
Extend ==
  /\ pc = "up" /\ disk.state.head < MaxBlocks /\ disk.fork.head = disk.state.head
  /\ LET n == disk.state.head + 1
     IN disk' = [disk EXCEPT !.state = [@ EXCEPT !.head = n], !.fork = [@ EXCEPT !.head = n],
                             !.rev = [@ EXCEPT !.genesis = conf.genesis, !.hi = n,
                                               !.lo = IF @ > disk.rev.hi THEN n ELSE @]]
  /\ UNCHANGED <<snap, pc, conf>>

LogIrreversible ==
  /\ pc = "up" /\ disk.fork.root < disk.state.head
  /\ LET n == disk.fork.root + 1
     IN disk' = [disk EXCEPT !.log = [@ EXCEPT !.last = n], !.fork = [@ EXCEPT !.root = n],
                             !.rev = Blocks(@, n + 1, @.hi)]
  /\ UNCHANGED <<snap, pc, conf>>

\* A snapshot that producer_plugin has promoted: its block is irreversible.
TakeSnapshot ==
  /\ pc = "up"
  /\ snap' = [there |-> TRUE, genesis |-> conf.genesis, head |-> disk.fork.root]
  /\ UNCHANGED <<disk, pc, conf>>

PluginShutdown ==
  /\ pc = "up"
  /\ disk' = Closed(disk) /\ pc' = "down" /\ conf' = NoConfig
  /\ UNCHANGED snap

Kill ==
  /\ pc # "down"
  /\ disk' = OnDisk(disk) /\ pc' = "down" /\ conf' = NoConfig
  /\ UNCHANGED snap

StartInit ==
  /\ disk = [log |-> NoLog, state |-> NoState, fork |-> NoFork, rev |-> NoBlocks,
             portable |-> [genesis |-> Unset, lo |-> 1, hi |-> 0], saved |-> {}]
  /\ snap = NoSnapshot
  /\ pc = "down"
  /\ conf = NoConfig

StartNext ==
  \/ \E o \in Options \cap CommandLines : Initialize(o) \/ KilledInMaintenance(o)
  \/ PluginStartup
  \/ Extend \/ LogIrreversible \/ TakeSnapshot
  \/ PluginShutdown
  \/ Kill

StartSpec == StartInit /\ [][StartNext]_startVars

(***************************************************************************)
(* Properties.                                                             *)
(***************************************************************************)

(***************************************************************************)
(* The root of the fork database is never beyond the blocks the node has   *)
(* locally as irreversible.  controller.cpp:581: "Furthermore,             *)
(* fork_db.root()->block_num <= lib_num."                                  *)
(***************************************************************************)
RootInLog == pc = "up" => disk.fork.root <= disk.log.last

(***************************************************************************)
(* Whatever options were given and wherever earlier runs were killed, a    *)
(* node that is up has one chain in all its files: the state, the log and  *)
(* the reversible blocks have the genesis it runs with, and the blocks of  *)
(* the log and of the reversible database meet and end at the head         *)
(* (plugin_initialize's genesis checks, controller_impl::init).  A node    *)
(* that RootInLog is not true of is left aside.                            *)
(***************************************************************************)
OneChain ==
  pc = "up" /\ RootInLog =>
    /\ disk.log.genesis = conf.genesis /\ disk.state.genesis = conf.genesis
    /\ RevBlocks(disk.rev) = {<<conf.genesis, n>> : n \in disk.fork.root + 1 .. disk.state.head}
    /\ disk.fork.root = (IF HasHead(disk.log) THEN disk.log.last ELSE disk.log.first - 1)

\* Options that keep the blocks.
Keeps(o) == o.flags \cap {"delete", "import", "extract", "export"} = {} /\ o.truncate = 0

\* The options bring the node up, with every block of the log.
BringsUp(o) ==
  LET x == Maintenance(disk, o)
      d == After(disk, x)
  IN /\ x.how = "go" /\ GenesisAgrees(d, o) /\ Opens(d)
     /\ \/ "snapshot" \in o.flags /\ HasHead(d.log) /\ snap.head + 1 >= d.log.first /\ snap.head <= d.log.last
        \/ "snapshot" \notin o.flags /\ d.state.head < 1 /\ HasHead(d.log) /\ d.log.first = 1
        \/ "snapshot" \notin o.flags /\ d.state.head >= 1 /\ d.fork.there

(***************************************************************************)
(* A node whose log holds a chain from its first block, or from a          *)
(* snapshot that is at hand, and whose reversible blocks continue it, can  *)
(* be brought up again by options that delete nothing, whatever was        *)
(* killed, and in whatever order the options were tried before             *)
(* (plugin_initialize).                                                    *)
(***************************************************************************)
CanRestart ==
  pc = "down" /\ HasHead(disk.log) /\
    (disk.rev.lo <= disk.rev.hi => disk.rev.genesis = disk.log.genesis /\ disk.rev.lo <= disk.log.last + 1) /\
    (disk.log.first = 1 \/ (snap.there /\ snap.genesis = disk.log.genesis
                              /\ snap.head + 1 >= disk.log.first /\ snap.head <= disk.log.last))
    => \E o \in Options : Keeps(o) /\ BringsUp(o)

(***************************************************************************)
(* A node comes up on one chain only, and can always be brought up again   *)
(* on the chain its log holds (OneChain and CanRestart).                   *)
(***************************************************************************)
RestartsOnOneChain == OneChain /\ CanRestart

KeepsBlocks ==
  \/ \A b \in Held(disk) : b[1] = disk.log.genesis /\ b[2] >= disk.log.first => b \in Held(disk')
  \/ \E o \in Options : /\ {"delete", "import"} \cap o.flags # {}
                        /\ Initialize(o) \/ KilledInMaintenance(o)

(***************************************************************************)
(* Only --delete-all-blocks and --import-reversible-blocks lose blocks: no *)
(* failed start, no kill in the middle of a repair and no other option     *)
(* leaves a block of the chain, from the log's first one on, in none of    *)
(* the log, the reversible database and the backups (plugin_initialize,    *)
(* recover_reversible_blocks, controller_impl::init).                      *)
(***************************************************************************)
NoneLost == [][KeepsBlocks]_startVars
================================================================================
