------------------------------- MODULE MCStorage -------------------------------
(* What a node keeps in memory and in files between blocks and between runs,   *)
(* each part on a small instance: the fork database over the trees of          *)
(* MCBlockTree, the block log, snapshots, and the start of a node over all of   *)
(* its files.  While another component is checked the fork database is empty.   *)
EXTENDS ForkDatabaseFile, MCBlockTree, MCComponents

CONSTANTS Chains, MaxBlock, Size, Usages, MaxCrashes,
          Owners, Names, Tables, Keys, MaxId,
          Geneses, DefaultGenesis, Adjusted, Options, MaxBlocks, Unset

BL == INSTANCE BlockLog WITH
        log <- v1, index <- v2, buf <- v3, ibuf <- v4, pc <- v5, head <- v6, first <- v7,
        chain <- v8, backup <- v9, crashes <- v10, survived <- v11, options <- v12
SN == INSTANCE Snapshot WITH
        db <- v1, format <- v2, file <- v3, todo <- v4, stage <- v5, source <- v6
CS == INSTANCE ChainStartup WITH disk <- v1, snap <- v2, pc <- v3, conf <- v4

StorageInit ==
  /\ FileInit
  /\ \/ component = "fork_database" /\ v1 = 0 /\ Off2
     \/ component = "block_log" /\ BL!Init      /\ Off13
     \/ component = "snapshot"  /\ SN!SnInit    /\ Off7
     \/ component = "start"     /\ CS!StartInit /\ Off5

StorageNext ==
  \/ component = "fork_database" /\ FileNext /\ UNCHANGED shared
  \/ /\ \/ component = "block_log" /\ BL!Next      /\ Stay13
        \/ component = "snapshot"  /\ SN!SnNext    /\ Stay7
        \/ component = "start"     /\ CS!StartNext /\ Stay5
     /\ UNCHANGED fileVars

StorageSpec == StorageInit /\ [][StorageNext]_<<shared, fileVars>>

-----------------------------------------------------------------------------
(* The instances.                                                             *)

\* Every other block of the log is twice as long.
MCSize == [b \in [num : 1..MaxBlock, chain : Chains] |-> 1 + (b.num % 2)]
MCUsages ==
  {{"crash", "snapshot", "repair", "delete"}, {"crash", "backup", "repair"},
   {"backup", "delete", "other"}}
BackupUsages == {{"backup", "delete", "other"}}

\* Command lines with at most one option, and those whose options interact.
CommandLine(flags, genesis, truncate) == [flags |-> flags, genesis |-> genesis, truncate |-> truncate]
OneFlag == {{}, {"delete"}, {"backup"}, {"hard"}, {"replay"}, {"fix"}, {"import"}, {"export"}, {"extract"},
            {"snapshot"}, {"timestamp"}}
MCOptions ==
  UNION {{CommandLine(f, "none", 0) : f \in OneFlag},
         {CommandLine(f, "h", 0) : f \in {{}, {"snapshot"}}},
         {CommandLine({"snapshot", f}, "none", 0) : f \in {"delete", "hard", "replay", "timestamp"}},
         {CommandLine(f, "none", 2) : f \in {{}, {"hard"}, {"fix"}}},
         {CommandLine(f, "none", 0) : f \in {{"replay", "fix"}, {"hard", "fix"}, {"replay", "fix", "snapshot"}}}}
NoOptions == {CommandLine({}, "none", 0)}
MCAdjusted == [g |-> "h", h |-> "g", none |-> "none"]

-----------------------------------------------------------------------------
(* Safety.                                                                    *)

\* Whatever crashes leave of the block log and its index, an open log is readable by number
\* and ready for the next block, no block that survived is lost, a repaired log opens, and
\* a backup that holds no block of another chain is a prefix of the log.
BlockLogSurvives ==
  component = "block_log" =>
    /\ BL!ReadableByNumber /\ BL!SurvivorsKept /\ BL!RepairedOpens
    /\ BL!IndexFollowsLog /\ BL!BackupIsPrefix

\* After a backup run the backup is a prefix of the log, whatever chain it was of: "check the
\* backup_block.log last id ,if not same copy the blocks.log as well" (see BlockLog).
BackupReplaced == component = "block_log" => BL!BackupFollowsLog

\* A node that starts from a snapshot has the state the snapshot was taken of; a snapshot
\* whose writer finished is never refused, and one whose writer died is loaded only if every
\* section had been ended.
SnapshotRestores == component = "snapshot" => SN!SnapshotRestores

\* Whatever sequence of command lines and kills a node goes through, its files are of one
\* chain and it can be started again; and no command line loses blocks unless it asks for that.
RestartsOnOneChain ==
  /\ [](component = "start" => CS!RestartsOnOneChain)
  /\ [][component = "start" => CS!KeepsBlocks]_shared
================================================================================
