-------------------------------- MODULE BlockLog --------------------------------
(***************************************************************************)
(* block_log (libraries/chain/block_log.cpp): the file blocks.log of the   *)
(* irreversible blocks and its index blocks.index, written through two     *)
(* buffered streams, and what start-up makes of the files a crash left.    *)
(*                                                                         *)
(* A file is a sequence of cells and a file position is a place in it.     *)
(* blocks.log is a header cell (version, first_block_num, genesis), the    *)
(* totem, and for each block Size[b] data cells and a position cell.       *)
(* Streams reach the disk cell by cell (Spill), so that a crash finds any  *)
(* prefix there.  The index has one cell per block.                        *)
(***************************************************************************)
EXTENDS Integers, SequencesExt

CONSTANTS
    Chains,     \* the chains the blocks may belong to
    MaxBlock,   \* bound: the highest block number
    Size,       \* [LoggedBlock -> positive]: how many cells a packed block takes
    Usages,     \* the ways the log is used: each a set of start-up options
                \* ("repair", "backup", "delete") and of what may happen
                \* ("crash", "other" where the blocks synced after a deletion
                \* may be of another chain, and "snapshot" where a chain may
                \* start with any block)
    MaxCrashes  \* bound: the number of crashes

LoggedBlock == [num : 1..MaxBlock, chain : Chains]

None == [num |-> 0, chain |-> "none"]

VARIABLES
    log,        \* the cells of blocks.log on disk
    index,      \* the cells of blocks.index on disk
    buf,        \* what block_stream has not written yet
    ibuf,       \* what index_stream has not written yet
    pc,         \* what the node is doing
    head,       \* block_log_impl::head
    first,      \* block_log_impl::first_block_num
    chain,      \* the chain this node is on
    backup,     \* the cells of blocks_backup.log, if any
    crashes,    \* how many crashes there have been
    survived,   \* history: how many blocks the last crash left complete
    options     \* the usage of this behaviour, which never changes

files == <<log, index>>
streams == <<buf, ibuf>>
memory == <<head, first>>
vars == <<log, index, buf, ibuf, pc, head, first, chain, backup, crashes,
          survived, options>>

-----------------------------------------------------------------------------

HeaderCell(v, n) == [kind |-> "header", version |-> v, num |-> n]
Totem == [kind |-> "totem"]
PosCell(p) == [kind |-> "pos", pos |-> p]

Packed(b) == [i \in 1..Size[b] |-> [kind |-> "data", block |-> b, part |-> i]]

\* A block unpacks at position p of a file when all of its cells are there.
Unpacks(file, p, b) ==
    /\ p + Size[b] - 1 <= Len(file)
    /\ \A i \in 1..Size[b] :
           file[p + i - 1] = [kind |-> "data", block |-> b, part |-> i]

BlocksAt(file, p) == IF p < 1 THEN {} ELSE {b \in LoggedBlock : Unpacks(file, p, b)}

\* The end of the record of block b at p: its data and its position.
AfterRecord(p, b) == p + Size[b] + 1

\* The linear scan of construct_index and repair_log: the records from p on
\* that are complete, as <<position, block>> pairs.
RECURSIVE Records(_, _)
Records(file, p) ==
    IF \E b \in BlocksAt(file, p) :
           /\ AfterRecord(p, b) - 1 <= Len(file)
           /\ file[AfterRecord(p, b) - 1] = PosCell(p)
    THEN LET b == CHOOSE c \in BlocksAt(file, p) : TRUE
         IN  <<<<p, b>>>> \o Records(file, AfterRecord(p, b))
    ELSE <<>>

RecordsOf(file) ==
    IF Len(file) < 2 \/ file[2] # Totem THEN <<>> ELSE Records(file, 3)

BlocksOf(file) == [i \in DOMAIN RecordsOf(file) |-> RecordsOf(file)[i][2]]

\* The cells of a sequence of blocks written from position p on.
RECURSIVE Written(_, _)
Written(bs, p) ==
    IF bs = <<>> THEN <<>>
    ELSE Packed(Head(bs)) \o <<PosCell(p)>>
             \o Written(Tail(bs), AfterRecord(p, Head(bs)))

IndexView == index \o ibuf

-----------------------------------------------------------------------------
(***************************************************************************)
(* Reading.                                                                *)
(***************************************************************************)

\* read_head: the block whose position is in the last cell, none if that cell
\* is the totem; it throws if the last cell is neither.
HeadReadable(file) ==
    \/ Last(file) = Totem
    \/ /\ Last(file).kind = "pos"
       /\ BlocksAt(file, Last(file).pos) # {}

ReadHead(file) ==
    IF Last(file) = Totem THEN None
    ELSE CHOOSE b \in BlocksAt(file, Last(file).pos) : TRUE

\* read_block_by_num, through get_block_pos.
ReadBlockByNum(n) ==
    IF head = None \/ n > head.num \/ n < first THEN {None}
    ELSE BlocksAt(log \o buf, IndexView[n - first + 1])

\* Mutant of NeedsIndex: an index that is ahead of the log is left as it is.
NeedsIndexIfBehind ==
    \/ index = <<>>
    \/ Last(log) = Totem
    \/ Last(log).pos > Last(index)

\* The comparison of the last positions of the two files in open.  The totem
\* is the largest position there is.
NeedsIndex ==
    \/ index = <<>>
    \/ Last(log) = Totem
    \/ Last(log).pos # Last(index)

\* construct_index: removes the index and writes it again from a linear scan;
\* the words stay in the stream until the next append or seek.
ConstructIndex ==
    /\ index' = <<>>
    /\ ibuf' = [i \in DOMAIN RecordsOf(log) |-> RecordsOf(log)[i][1]]

\* open throws: the log was not set up properly, or its last cell leads to no
\* block.
OpenThrows ==
    /\ log # <<>>
    /\ \/ log[1].version = 0
       \/ Len(log) = 1
       \/ ~HeadReadable(log)

\* The node opens the log first thing, or after the start-up options that
\* repair or copy it.
Starting == {"down", "repaired", "backed_up"}

OpenFails ==
    /\ pc \in Starting
    /\ OpenThrows
    /\ pc' = "corrupt"
    /\ UNCHANGED <<files, streams, memory, chain, backup, crashes, survived, options>>

\* open of a log that is new: a left-over index is deleted.
OpenNew ==
    /\ pc \in Starting
    /\ log = <<>>
    /\ index' = <<>>
    /\ head' = None
    /\ first' = 0
    /\ pc' = "new"
    /\ UNCHANGED <<log, buf, ibuf, chain, backup, crashes, survived, options>>

OpenExisting ==
    /\ pc \in Starting
    /\ log # <<>>
    /\ ~OpenThrows
    /\ head' = ReadHead(log)
    /\ first' = log[1].num
    /\ IF NeedsIndex THEN ConstructIndex ELSE UNCHANGED <<index, ibuf>>
    /\ pc' = "ready"
    /\ UNCHANGED <<log, buf, chain, backup, crashes, survived, options>>

-----------------------------------------------------------------------------
(***************************************************************************)
(* Writing.                                                                *)
(***************************************************************************)

\* The next write goes to the end of what the stream has been given.
EndPos == Len(log) + Len(buf) + 1

\* "Append to index file occuring at wrong position."
IndexPositionRight(b) == Len(IndexView) = b.num - first

\* append up to the call of flush: the seek to the end writes out what the
\* index stream still holds.
AppendBlock(b) ==
    /\ pc = "ready"
    /\ b.chain = chain
    /\ b.num = IF head = None THEN first ELSE head.num + 1
    /\ IF IndexPositionRight(b)
       THEN /\ buf' = Packed(b) \o <<PosCell(EndPos)>>
            /\ index' = IndexView
            /\ ibuf' = <<EndPos>>
            /\ head' = b
            /\ pc' = "append"
       ELSE /\ pc' = "append_fail"
            /\ UNCHANGED <<buf, index, ibuf, head>>
    /\ UNCHANGED <<log, first, chain, backup, crashes, survived, options>>

\* The block stream writes a cell to the disk, because it is full or flushed.
Spill ==
    /\ buf # <<>>
    /\ log' = Append(log, Head(buf))
    /\ buf' = Tail(buf)
    /\ UNCHANGED <<index, ibuf, pc, memory, chain, backup, crashes, survived, options>>

\* An index stream that construct_index has filled writes some of it.
SpillIndex ==
    /\ pc = "ready"
    /\ ibuf # <<>>
    /\ index' = Append(index, Head(ibuf))
    /\ ibuf' = Tail(ibuf)
    /\ UNCHANGED <<log, buf, pc, memory, chain, backup, crashes, survived, options>>

\* Mutant of FlushIndex: the two streams are flushed in either order.
FlushIndexFirst ==
    /\ index' = IndexView
    /\ ibuf' = <<>>

\* The second half of flush, once the block stream is on disk.
FlushIndex ==
    /\ buf = <<>>
    /\ index' = IndexView
    /\ ibuf' = <<>>

AppendReturns ==
    /\ pc = "append"
    /\ FlushIndex
    /\ pc' = "ready"
    /\ UNCHANGED <<log, buf, memory, chain, backup, crashes, survived, options>>

\* reset up to the flush of what it has written under version 0, with the
\* genesis block or, after a snapshot, with none.
Reset(n, withBlock) ==
    /\ \/ pc = "new"
       \/ pc = "ready" /\ head = None /\ first # n
    /\ LET b == [num |-> n, chain |-> chain]
       IN  /\ buf' = <<HeaderCell(0, n), Totem>>
                        \o (IF withBlock THEN Packed(b) \o <<PosCell(3)>> ELSE <<>>)
           /\ ibuf' = IF withBlock THEN <<3>> ELSE <<>>
           /\ head' = IF withBlock THEN b ELSE None
    /\ log' = <<>>
    /\ index' = <<>>
    /\ first' = n
    /\ survived' = 0
    /\ pc' = "reset"
    /\ UNCHANGED <<chain, backup, crashes, options>>

\* The rest of reset: the index is flushed and the header gets its version.
ResetReturns ==
    /\ pc = "reset"
    /\ FlushIndex
    /\ log' = [log EXCEPT ![1].version = 2]
    /\ pc' = "ready"
    /\ UNCHANGED <<buf, memory, chain, backup, crashes, survived, options>>

\* The destructor flushes and closes both streams.
Close ==
    /\ pc = "ready"
    /\ FlushIndex
    /\ pc' = "down"
    /\ UNCHANGED <<log, buf, memory, chain, backup, crashes, survived, options>>

-----------------------------------------------------------------------------
(***************************************************************************)
(* Crashes and the start-up options.                                       *)
(***************************************************************************)

Complete(file) ==
    IF file = <<>> \/ file[1].version = 0 THEN 0 ELSE Len(RecordsOf(file))

\* A crash loses what the streams hold.  Nothing is ever synced, so if the
\* machine goes down with the process the end of either file is lost as well.
Crash ==
    /\ "crash" \in options
    /\ pc \notin {"down", "corrupt"}
    /\ crashes < MaxCrashes
    /\ crashes' = crashes + 1
    /\ \E n \in 0..Len(log), k \in 0..Len(index) :
           /\ log' = SubSeq(log, 1, n)
           /\ index' = SubSeq(index, 1, k)
           /\ survived' = Complete(SubSeq(log, 1, n))
    /\ buf' = <<>>
    /\ ibuf' = <<>>
    /\ pc' = "down"
    /\ UNCHANGED <<memory, chain, backup, options>>

\* Mutant of Truncated: stops before the block.
TruncatedBefore(bs, t) ==
    IF \E i \in DOMAIN bs : bs[i].num = t
    THEN SelectSeq(bs, LAMBDA b : b.num < t) ELSE bs

\* truncate_at_block stops the copy after that block.
Truncated(bs, t) ==
    IF \E i \in DOMAIN bs : bs[i].num = t
    THEN SelectSeq(bs, LAMBDA b : b.num <= t) ELSE bs

\* Mutant of Recovered: the blocks are copied up to the end of the file.
RecoveredWhole(t) == log

\* What repair_log writes to the new file: the header, and every block that can
\* be read and is followed by its own position.
Recovered(t) == SubSeq(log, 1, 2) \o Written(Truncated(BlocksOf(log), t), 3)

\* repair_log: the whole directory, the index with it, is moved away first.  If
\* the header is not complete it then throws and leaves a log with no more than
\* the header.
RepairLog(t) ==
    /\ "repair" \in options
    /\ pc \in {"down", "corrupt"}
    /\ log # <<>>
    /\ index' = <<>>
    /\ IF log[1].version = 0 \/ Len(log) = 1
       THEN /\ log' = IF log[1].version = 0 THEN <<>> ELSE log
            /\ buf' = <<>>
            /\ survived' = 0
            /\ pc' = "down"
       ELSE /\ log' = <<>>
            /\ buf' = Recovered(t)
            /\ survived' = IF t \in log[1].num..(log[1].num + survived - 1)
                           THEN t + 1 - log[1].num ELSE survived
            /\ pc' = "repair"
    /\ UNCHANGED <<ibuf, memory, chain, backup, crashes, options>>

RepairReturns ==
    /\ pc = "repair"
    /\ buf = <<>>
    /\ pc' = "repaired"
    /\ UNCHANGED <<files, streams, memory, chain, backup, crashes, survived, options>>

\* --delete-all-blocks; what is synced next may be another chain.
DeleteAllBlocks ==
    /\ "delete" \in options
    /\ pc \in {"down", "corrupt"}
    /\ log' = <<>>
    /\ index' = <<>>
    /\ chain' \in IF "other" \in options THEN Chains ELSE {chain}
    /\ survived' = 0
    /\ pc' = "down"
    /\ UNCHANGED <<streams, memory, backup, crashes, options>>

\* Mutant of Increment: starts at the last block of the backup, not after it.
IncrementFromLast == SubSeq(log, Last(backup).pos, Len(log))

\* The records of the log that lie behind the end of the backup.
Increment ==
    LET p == Len(backup) + 1
    IN  Written([i \in DOMAIN Records(log, p) |-> Records(log, p)[i][2]], p)

\* backup_log: copies the log if there is no backup or the backup is not
\* shorter; otherwise compares the number of the block at the backup's last
\* position in both files, and appends the increment if it is the same.  If it
\* is not, it copies the log over the existing file, which fc::copy may refuse.
\* A backup that does not end in a block's position is left as it is: the
\* seek or the read fails on both streams without an exception.
BackupLog ==
    /\ "backup" \in options
    /\ pc = "down"
    /\ log # <<>>
    /\ IF Len(backup) = 0 \/ Len(backup) >= Len(log) THEN backup' = log
       ELSE IF Last(backup).kind # "pos" THEN backup' = backup
       ELSE LET p == Last(backup).pos
                same == \E b \in BlocksAt(backup, p), c \in BlocksAt(log, p) :
                            b.num = c.num
            IN  \/ /\ same \/ BlocksAt(log, p) = {}
                   /\ backup' = backup \o Increment
                \/ /\ ~same
                   /\ backup' \in {backup, log}
    /\ pc' = "backed_up"
    /\ UNCHANGED <<files, streams, memory, chain, crashes, survived, options>>

-----------------------------------------------------------------------------

Init ==
    /\ log = <<>>
    /\ index = <<>>
    /\ buf = <<>>
    /\ ibuf = <<>>
    /\ pc = "down"
    /\ head = None
    /\ first = 0
    /\ chain = CHOOSE c \in Chains : TRUE
    /\ backup = <<>>
    /\ crashes = 0
    /\ survived = 0
    /\ options \in Usages

Next ==
    \/ OpenFails
    \/ OpenNew
    \/ OpenExisting
    \/ Reset(1, TRUE)
    \/ "snapshot" \in options /\ \E n \in 1..MaxBlock : Reset(n, FALSE)
    \/ ResetReturns
    \/ \E b \in LoggedBlock : AppendBlock(b)
    \/ AppendReturns
    \/ Spill
    \/ SpillIndex
    \/ Close
    \/ Crash
    \/ \E t \in 0..MaxBlock : RepairLog(t)
    \/ RepairReturns
    \/ DeleteAllBlocks
    \/ BackupLog

Spec == Init /\ [][Next]_vars

-----------------------------------------------------------------------------

\* Whenever the log is open, every block from first_block_num to the head can
\* be read by its number and is the block of that number, and the block the
\* node appends next goes to the right place of the index: whatever crashes
\* have left of the two files, "Wrong block was read from block log" and
\* "Append to index file occuring at wrong position" are never thrown.
ReadableByNumber ==
    /\ pc # "append_fail"
    /\ pc \in {"ready", "append"} =>
           /\ Len(IndexView) = IF head = None THEN 0 ELSE head.num + 1 - first
           /\ head # None =>
                 \A n \in first..head.num :
                     ReadBlockByNum(n) = {[num |-> n, chain |-> chain]}

\* An open log has every block that the last crash had left complete in the
\* file, unless truncate_at_block cut it: neither open nor repair_log loses a
\* block that is there.  A process that dies while repair_log writes the new file
\* counts as a crash of its own: what it had not copied is in the directory that was
\* moved away, which is not part of the log any more.
SurvivorsKept ==
    pc \in {"ready", "append"} /\ survived > 0 =>
        /\ head # None
        /\ head.num + 1 - first >= survived

\* What repair_log has written can be opened.
RepairedOpens == pc = "repaired" => ~OpenThrows

\* Until a crash has cut the files, whatever the streams have written so far, the
\* index on disk is never ahead of the log: flush writes the block before its
\* position, so that open finds the end of the index in the log.
IndexFollowsLog ==
    crashes = 0 => \A i \in DOMAIN index : BlocksAt(log, index[i]) # {}

\* After a backup run the backup holds, behind its header, what the log begins
\* with and nothing else: a backup that ends in another block than the log has
\* there is replaced, as the comment in backup_log has it ("check the
\* backup_block.log last id ,if not same copy the blocks.log as well").
BackupFollowsLog == pc = "backed_up" => IsPrefix(Tail(backup), Tail(log))

\* The same of a backup that holds no block of another chain than the log: the log
\* may have been truncated, repaired or synced anew since the last backup run.  The
\* comparison is one of block numbers, so that a backup of another chain is not
\* replaced but continued.
BackupIsPrefix ==
    (\A i \in DOMAIN backup : backup[i].kind = "data" => backup[i].block.chain = chain) =>
        BackupFollowsLog
================================================================================
