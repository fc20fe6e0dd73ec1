----------------------------- MODULE StateHistory -----------------------------
(* state_history_plugin in three parts, each a specification of its own: the  *)
(* log files (ShInit, ShNext), a client's session (ShsInit, ShsNext) and the  *)
(* deltas of the tables (ShdInit, ShdNext).                                   *)
EXTENDS Integers, Sequences, FiniteSets, SequencesExt, Functions, TLC

-----------------------------------------------------------------------------
(***************************************************************************)
(* state_history_log: an append-only log with one entry per block and an   *)
(* index of the entries' positions, written as the controller accepts      *)
(* blocks, cut back when the chain switches forks or is replayed, and      *)
(* repaired when it is opened after a crash.                               *)
(*                                                                         *)
(* A file is the sequence of what was written to it, of which a prefix is  *)
(* on disk: the rest is in a stream's buffer.  A crash keeps the prefix,   *)
(* some of what follows, and perhaps part of one more item.  The payload   *)
(* of a chain state entry is the whole state or the changes of one block.  *)
(***************************************************************************)

CONSTANTS
    Prev,         \* [block -> block it builds on]; "root" is block 1, which is in no log
    Num,          \* [block -> its number]
    Size,         \* [block -> size of its entry]
    MaxCrashes

Blocks == DOMAIN Prev

VARIABLES
    head,         \* head of the chain, "root" when a replay begins
    log, log_disk,     \* entries [block, full], and how many of them are on disk
    log_torn,          \* the file ends with part of an entry
    index, index_disk, \* positions
    index_torn,
    begin_block, end_block,
    writing,      \* the entry write_entry is writing, between the two truncations
    opened,       \* "open", "closed", "corrupt"
    crashes

shVars == <<head, log, log_disk, log_torn, index, index_disk, index_torn,
            begin_block, end_block, writing, opened, crashes>>

None == [block |-> "root", full |-> FALSE]

ShInit ==
    /\ head = "root"
    /\ log = <<>> /\ log_disk = 0 /\ log_torn = FALSE
    /\ index = <<>> /\ index_disk = 0 /\ index_torn = FALSE
    /\ begin_block = 0 /\ end_block = 0
    /\ writing = None /\ opened = "open" /\ crashes = 0
--------------------------------------------------------------------------------
(* Positions and entries *)

\* Position of the i-th entry.
Position(entries, i) == FoldSeq(LAMBDA e, n : n + Size[e.block], 0, SubSeq(entries, 1, i - 1))
Positions(entries) == [i \in 1..Len(entries) |-> Position(entries, i)]

\* get_pos, get_entry: what is read at the position the index gives.
EntryOf(n) ==
    LET pos == index[n - begin_block + 1]
        at == {i \in 1..Len(log) : Position(log, i) = pos}
    IN IF at = {} THEN None ELSE log[CHOOSE i \in at : TRUE]

--------------------------------------------------------------------------------
(* write_entry *)

Fresh == begin_block = end_block

ContinuesAlways(b) == TRUE

\* "missed a block", "missed a fork change": the entry is refused.
Continues(b) ==
    /\ Fresh \/ Num[b] <= end_block
    /\ ~Fresh /\ Num[b] > begin_block =>
        Prev[b] = IF Num[b] = end_block THEN log[Len(log)].block ELSE EntryOf(Num[b] - 1).block

Append1Entry(e, entries, idx, first) ==
    /\ log' = Append(entries, e)
    /\ index' = Append(idx, Position(Append(entries, e), Len(entries) + 1))
    /\ begin_block' = IF first = 0 THEN Num[e.block] ELSE first
    /\ end_block' = Num[e.block] + 1

\* on_accepted_block: the block builds on a block of the current chain; the
\* chain state is placed whole in an entry when the log is empty before it.
OnChain(b) == LET RECURSIVE Up(_) Up(x) == IF x = "root" THEN {x} ELSE {x} \cup Up(Prev[x]) IN b \in Up(head)

AcceptBlock(b) ==
    /\ opened = "open" /\ writing = None
    /\ OnChain(Prev[b]) /\ head # b
    /\ head' = b
    /\ IF ~Continues(b)
       THEN UNCHANGED <<log, log_disk, index, begin_block, end_block, writing>>
       ELSE IF Num[b] >= end_block
       THEN /\ Append1Entry([block |-> b, full |-> Fresh], log, index, begin_block)
            /\ UNCHANGED <<log_disk, writing>>
       ELSE \* truncate: both files are flushed, and the log is cut first
            /\ writing' = [block |-> b, full |-> Fresh]
            /\ log' = SubSeq(log, 1, IF Num[b] <= begin_block THEN 0 ELSE Num[b] - begin_block)
            /\ log_disk' = Len(log')
            /\ UNCHANGED <<index, begin_block, end_block>>
    /\ index_disk' = IF writing' # None THEN Len(index) ELSE index_disk
    /\ UNCHANGED <<log_torn, index_torn, opened, crashes>>

IndexKept(b) == IF Num[b] <= begin_block THEN <<>> ELSE SubSeq(index, 1, Num[b] - begin_block)

FinishWrite ==
    /\ writing # None /\ opened = "open"
    /\ Append1Entry(writing, log, IndexKept(writing.block), IF Num[writing.block] <= begin_block THEN 0 ELSE begin_block)
    /\ index_disk' = Len(IndexKept(writing.block))
    /\ writing' = None
    /\ UNCHANGED <<head, log_disk, log_torn, index_torn, opened, crashes>>

--------------------------------------------------------------------------------
(* Crash and restart *)

Close ==
    /\ opened = "open" /\ writing = None
    /\ opened' = "closed"
    /\ log_disk' = Len(log) /\ index_disk' = Len(index)
    /\ UNCHANGED <<head, log, log_torn, index, index_torn, begin_block, end_block, writing, crashes>>

Crash ==
    /\ opened = "open" /\ crashes < MaxCrashes
    /\ crashes' = crashes + 1
    /\ opened' = "closed"
    /\ \E n \in log_disk..Len(log), k \in index_disk..Len(index) :
        /\ log' = SubSeq(log, 1, n) /\ log_disk' = n
        /\ index' = SubSeq(index, 1, k) /\ index_disk' = k
        /\ log_torn' \in IF n < Len(log) THEN BOOLEAN ELSE {FALSE}
        /\ index_torn' \in IF k < Len(index) THEN BOOLEAN ELSE {FALSE}
    /\ writing' = None
    /\ UNCHANGED <<head, begin_block, end_block>>

IndexUsableLonger(count) == Len(index) >= count /\ ~index_torn

IndexUsable(count) == Len(index) = count /\ ~index_torn
\* open_log, with recover_blocks, and open_index; a file with part of its
\* first entry and nothing else is refused.  The chain goes on from its head,
\* or is replayed.
Open ==
    /\ opened = "closed"
    /\ head' \in {head, "root"}
    /\ IF log = <<>> /\ log_torn
       THEN opened' = "corrupt" /\ UNCHANGED <<log_torn, index, index_torn, begin_block, end_block>>
       ELSE /\ opened' = "open"
            /\ log_torn' = FALSE /\ index_torn' = FALSE
            /\ begin_block' = IF log = <<>> THEN 0 ELSE Num[log[1].block]
            /\ end_block' = IF log = <<>> THEN 0 ELSE Num[log[Len(log)].block] + 1
            /\ index' = IF IndexUsable(end_block' - begin_block') THEN index ELSE Positions(log)
    /\ index_disk' = IF index' = index THEN index_disk ELSE 0
    /\ UNCHANGED <<log, log_disk, writing, crashes>>

ShNext ==
    \/ \E b \in Blocks : AcceptBlock(b)
    \/ FinishWrite \/ Close \/ Crash \/ Open

ShSpec == ShInit /\ [][ShNext]_shVars
--------------------------------------------------------------------------------
(* While the log is open every block it says it has is read back through the *)
(* index, whatever fork switches, replays and crashes came before: open_index*)
(* only looks at the size of the index.                                      *)
EntriesReadable ==
    opened = "open" /\ writing = None =>
        \A n \in begin_block..(end_block - 1) : n > 0 => EntryOf(n).block # "root" /\ Num[EntryOf(n).block] = n

(* The entries are one chain of blocks: an entry follows that of the block   *)
(* it builds on.                                                             *)
LogIsChain == \A i \in 2..Len(log) : Prev[log[i].block] = log[i - 1].block

(* "Placing initial state in block" (store_chain_state): who reads the log   *)
(* from its beginning finds the whole state there.                           *)
StartsWithState == log # <<>> => log[1].full

-----------------------------------------------------------------------------
(***************************************************************************)
(* state_history_plugin's sessions: a client asks for a range of blocks    *)
(* and is sent one result after the other, as far as its acknowledgements  *)
(* allow, while the chain grows and switches forks.  A session shares      *)
(* nothing with another, so there is one.  Results written to the socket   *)
(* reach the client in order.                                              *)
(***************************************************************************)

CONSTANTS
    Paths,        \* chains, each a sequence of block ids from block 1
    Requests,     \* [start, end, credits, irreversible_only] a client may send
    MaxConnects,  \* bound on the client's connections
    MaxAsked      \* bound on the status requests of one connection

VARIABLES
    chain,        \* ids of the blocks up to the head
    lib,          \* last irreversible block number
    stopping,
    session,      \* the session of the client's connection, or Closed
    got,          \* blocks the client has, by number
    unacked,      \* results received and not acknowledged
    connects,
    lib_told      \* lib when the last block was accepted

shsVars == <<chain, lib, stopping, session, got, unacked, connects, lib_told>>

NoRequest == [start |-> 0, end |-> 0, credits |-> 0, irreversible_only |-> FALSE]
Closed == [open |-> FALSE, accepted |-> FALSE, send_queue |-> <<>>, sending |-> FALSE, request |-> NoRequest,
           need_to_send_update |-> FALSE, asked |-> 0]

ShsInit ==
    /\ chain \in {SubSeq(p, 1, 1) : p \in Paths} /\ lib = 1 /\ lib_told = 1
    /\ stopping = FALSE
    /\ session = Closed /\ got = <<>> /\ unacked = 0 /\ connects = 0
--------------------------------------------------------------------------------
(* Sending *)

\* send: one write at a time.
Send(s, m) == [s EXCEPT !.send_queue = Append(@, m), !.sending = TRUE]

More(r, current) == r.start <= current /\ r.start < r.end

\* send_update: a result when nothing waits to be written and the client has
\* room for one; get_block_id of a block of the chain.
SendUpdate(s, changed, blocks, irreversible) ==
    LET r == s.request
        need == s.need_to_send_update \/ changed
        current == IF r.irreversible_only THEN irreversible ELSE Len(blocks)
        next == [r EXCEPT !.start = IF More(r, current) THEN @ + 1 ELSE @, !.credits = @ - 1]
        result == [kind |-> "blocks",
                   this |-> IF More(r, current) THEN r.start ELSE 0,
                   id |-> IF More(r, current) THEN blocks[r.start] ELSE "none"]
    IN IF s.send_queue # <<>> \/ ~need \/ r = NoRequest \/ r.credits = 0
       THEN [s EXCEPT !.need_to_send_update = need]
       ELSE [Send(s, result) EXCEPT !.request = next, !.need_to_send_update = More(next, current)]

--------------------------------------------------------------------------------
(* The connection *)

\* do_accept, start: the description of the results is sent first.
Connect ==
    /\ ~session.open /\ ~stopping /\ connects < MaxConnects
    /\ connects' = connects + 1
    /\ session' = [Closed EXCEPT !.open = TRUE]
    /\ unacked' = 0
    /\ UNCHANGED <<chain, lib, stopping, got, lib_told>>

HandshakeDone ==
    /\ session.open /\ ~session.accepted /\ ~stopping
    /\ session' = Send([session EXCEPT !.accepted = TRUE], [kind |-> "abi"])
    /\ UNCHANGED <<chain, lib, stopping, got, unacked, connects, lib_told>>

GetStatus ==
    /\ session.accepted /\ ~stopping /\ session.asked < MaxAsked
    /\ session' = Send([session EXCEPT !.asked = @ + 1], [kind |-> "status"])
    /\ UNCHANGED <<chain, lib, stopping, got, unacked, connects, lib_told>>

\* The request's have_positions are the blocks the client has: the first that
\* is not one of the chain is where the results begin.
Diverging(start) == {n \in 1..Len(got) : n < start /\ (n > Len(chain) \/ got[n] # chain[n])}

StartFromAsked(start) == start
StartFrom(start) == IF Diverging(start) = {} THEN start
                    ELSE CHOOSE n \in Diverging(start) : \A k \in Diverging(start) : n <= k

\* A client asks for blocks once in a connection, from no further than what
\* follows those it has.
GetBlocks(r) ==
    /\ session.accepted /\ ~stopping /\ session.request = NoRequest
    /\ r.start <= Len(got) + 1
    /\ session' = SendUpdate([session EXCEPT !.request = [r EXCEPT !.start = StartFrom(r.start)]],
                             TRUE, chain, lib)
    /\ UNCHANGED <<chain, lib, stopping, got, unacked, connects, lib_told>>

GetBlocksAck ==
    /\ session.accepted /\ ~stopping /\ unacked > 0
    /\ unacked' = 0
    /\ session' = IF session.request = NoRequest THEN session
                  ELSE SendUpdate([session EXCEPT !.request.credits = @ + unacked], FALSE, chain, lib)
    /\ UNCHANGED <<chain, lib, stopping, got, connects, lib_told>>

Receive(m) ==
    /\ got' = IF m.kind = "blocks" /\ m.this > 0 THEN Append(SubSeq(got, 1, m.this - 1), m.id) ELSE got
    /\ unacked' = IF m.kind = "blocks" THEN unacked + 1 ELSE unacked

WrittenStops(s) == [s EXCEPT !.send_queue = Tail(@), !.sending = Len(s.send_queue) > 1]

\* The end of a write: the next result, or a new one.
Written(s) ==
    LET rest == [s EXCEPT !.send_queue = Tail(@), !.sending = FALSE]
    IN IF rest.send_queue = <<>> THEN SendUpdate(rest, FALSE, chain, lib)
       ELSE [rest EXCEPT !.sending = TRUE]

WriteDone ==
    /\ session.sending /\ ~stopping
    /\ Receive(Head(session.send_queue))
    /\ session' = Written(session)
    /\ UNCHANGED <<chain, lib, stopping, connects, lib_told>>

\* on_fail, close; what the socket had not written is lost.
Fail ==
    /\ session.open /\ ~stopping
    /\ session' = Closed
    /\ UNCHANGED <<chain, lib, stopping, got, unacked, connects, lib_told>>

--------------------------------------------------------------------------------
(* The chain *)

LoweredNever(s, num) == s

Lowered(s, num) ==
    IF s.request # NoRequest /\ num < s.request.start THEN [s EXCEPT !.request.start = num] ELSE s

\* on_accepted_block: the chain is path up to the block.
Accepted(s, path, num) == SendUpdate(Lowered(s, num), TRUE, SubSeq(path, 1, num), lib)

CommonLength(path) ==
    LET same == {n \in 0..Len(chain) : n <= Len(path) /\ SubSeq(path, 1, n) = SubSeq(chain, 1, n)}
    IN CHOOSE n \in same : \A k \in same : k <= n

\* push_block: the blocks after the last common one are applied in turn; a
\* chain replaces a shorter one and never an irreversible block.
PushBlock(path, num) ==
    /\ ~stopping
    /\ num \in (Len(chain) + 1)..Len(path)
    /\ CommonLength(path) >= lib
    /\ CommonLength(path) = Len(chain) => num = Len(chain) + 1
    /\ chain' = SubSeq(path, 1, num)
    /\ session' = IF session.open
                  THEN FoldLeft(LAMBDA s, n : Accepted(s, path, n), session,
                                [i \in 1..(num - CommonLength(path)) |-> CommonLength(path) + i])
                  ELSE session
    /\ lib_told' = lib
    /\ UNCHANGED <<lib, stopping, got, unacked, connects>>

\* log_irreversible, after the block was accepted.
LogIrreversible ==
    /\ ~stopping /\ lib < Len(chain)
    /\ lib' \in (lib + 1)..Len(chain)
    /\ UNCHANGED <<chain, stopping, session, got, unacked, connects, lib_told>>

SessionsStop ==
    /\ ~stopping /\ stopping' = TRUE
    /\ session' = Closed
    /\ UNCHANGED <<chain, lib, got, unacked, connects, lib_told>>

ShsNext ==
    \/ Connect \/ HandshakeDone \/ GetStatus \/ GetBlocksAck \/ WriteDone \/ Fail
    \/ \E r \in Requests : GetBlocks(r)
    \/ \E path \in Paths : \E num \in 1..Len(path) : PushBlock(path, num)
    \/ LogIrreversible \/ SessionsStop

ShsSpec == ShsInit /\ [][ShsNext]_shsVars
--------------------------------------------------------------------------------
(* What a client has is always a chain some node had: after a fork switch the *)
(* results go back to the first replaced block before they go on, in whatever *)
(* order writes, acknowledgements, reconnections and blocks come.             *)
ClientHasChain == \E p \in Paths : Len(got) <= Len(p) /\ got = SubSeq(p, 1, Len(got))

(* A session with nothing to write and room for a result has sent every block *)
(* of the chain the request asks for; the irreversible ones it was told of    *)
(* with the last accepted block.                                              *)
ClientCaughtUp ==
    session.request # NoRequest /\ session.send_queue = <<>> /\ session.request.credits > 0 =>
        LET r == session.request
            last == IF r.irreversible_only THEN lib_told ELSE Len(chain)
        IN \A n \in 1..last : n < r.end => n <= Len(got) /\ got[n] = chain[n]

-----------------------------------------------------------------------------
(***************************************************************************)
(* state_history_plugin's chain state entries: the rows of the tables when *)
(* the log is empty, and otherwise what the database's undo record says    *)
(* the block changed.  A reader keeps the serialized rows by their key and *)
(* applies entry after entry, going back when the chain switches forks.    *)
(*                                                                         *)
(* A row is an object id, a key and the values of the fields that may      *)
(* change.  The tables are independent of each other: there is one.        *)
(***************************************************************************)

CONSTANTS
    Tables,       \* the names of the tables to consider
    Keys,
    MaxIds,       \* bound on the objects ever created
    MaxBlocks     \* bound on the blocks of the chain

\* The changing fields of the rows that operator<< writes ...
SerializedAccounts == [account |-> {"abi"},
                       account_metadata |-> {"privileged", "last_code_update", "code_hash"},
                       code |-> {},
                       contract_table |-> {"payer"},
                       contract_row |-> {"payer", "value"},
                       contract_index |-> {"payer", "secondary_key"}]

SerializedChain == [global_property |-> {"proposed_schedule", "configuration"},
                    generated_transaction |-> {"trx"},
                    protocol_state |-> {"activated"},
                    permission |-> {"last_updated", "auth"},
                    permission_link |-> {"required_permission"}]

SerializedLimits == [resource_limits |-> {"weights"},
                     resource_usage |-> {"usage"},
                     resource_limits_state |-> {"averages", "totals", "virtual_limits"},
                     resource_limits_config |-> {"parameters"}]

Serialized == SerializedAccounts @@ SerializedChain @@ SerializedLimits

\* ... and those it does not.
Hidden == [account_metadata |-> {"sequences"},
           code |-> {"code_ref_count"},
           contract_table |-> {"count"},
           protocol_state |-> {"preactivated"},
           resource_limits_state |-> {"pending_usage"}]

FieldsOf(t) == Serialized[t] \cup IF t \in DOMAIN Hidden THEN Hidden[t] ELSE {}

\* The fields include_delta compares; the tables without one of their own are
\* included whatever changed.
Compared == [account_metadata |-> {"privileged", "last_code_update", "code_hash"},
             code |-> {},
             contract_table |-> {"payer"},
             protocol_state |-> {"activated"},
             resource_limits |-> {"weights"},
             resource_limits_state |-> {"averages", "totals", "virtual_limits"}]

VARIABLES
    table,        \* the table
    rows,         \* the database: [id -> [key, fields]]
    undo,         \* the block's undo record: old_values, removed_values, new_ids
    ids,          \* objects created
    past,         \* of each block of the chain: the rows and the reader's rows after it
    replica,      \* the reader: [key -> serialized fields]
    fresh         \* no entry has been written

shdVars == <<table, rows, undo, ids, past, replica, fresh>>

Nothing == [old_values |-> <<>>, removed_values |-> <<>>, new_ids |-> {}]
Without(f, i) == Restrict(f, DOMAIN f \ {i})
With(f, i, v) == [k \in DOMAIN f \cup {i} |-> IF k = i THEN v ELSE f[k]]

Pack(row) == Restrict(row.fields, Serialized[table])
View(r) == [k \in {r[i].key : i \in DOMAIN r} |-> Pack(r[CHOOSE i \in DOMAIN r : r[i].key = k])]

ShdInit ==
    /\ table \in Tables
    /\ rows = <<>> /\ undo = Nothing /\ ids = 0
    /\ past = <<>> /\ replica = <<>> /\ fresh = TRUE
--------------------------------------------------------------------------------
(* The database within a block *)

CreateRow(k) ==
    /\ ids < MaxIds /\ k \notin {rows[i].key : i \in DOMAIN rows}
    /\ ids' = ids + 1
    /\ rows' = With(rows, ids', [key |-> k, fields |-> [f \in FieldsOf(table) |-> 0]])
    /\ undo' = [undo EXCEPT !.new_ids = @ \cup {ids'}]
    /\ UNCHANGED <<table, past, replica, fresh>>

ModifyRow(i, f) ==
    /\ rows' = [rows EXCEPT ![i].fields[f] = 1 - @]
    /\ undo' = IF i \in undo.new_ids \/ i \in DOMAIN undo.old_values THEN undo
               ELSE [undo EXCEPT !.old_values = With(@, i, rows[i])]
    /\ UNCHANGED <<table, ids, past, replica, fresh>>

RemoveRow(i) ==
    /\ rows' = Without(rows, i)
    /\ undo' = IF i \in undo.new_ids THEN [undo EXCEPT !.new_ids = @ \ {i}]
               ELSE IF i \in DOMAIN undo.old_values
               THEN [undo EXCEPT !.old_values = Without(@, i),
                                 !.removed_values = With(@, i, undo.old_values[i])]
               ELSE [undo EXCEPT !.removed_values = With(@, i, rows[i])]
    /\ UNCHANGED <<table, ids, past, replica, fresh>>

--------------------------------------------------------------------------------
(* store_chain_state *)

IncludeDelta(old, row) ==
    table \in DOMAIN Compared => \E f \in Compared[table] : old.fields[f] # row.fields[f]

Present(r) == [present |-> TRUE, key |-> r.key, data |-> Pack(r)]
Absent(r) == [present |-> FALSE, key |-> r.key, data |-> Pack(r)]
RowsOf(S, f(_)) == SetToSeq({f(i) : i \in S})

DeltaNewFirst ==
    LET new(i) == Present(rows[i])
        gone(i) == Absent(undo.removed_values[i])
        changed == {i \in DOMAIN undo.old_values : IncludeDelta(undo.old_values[i], rows[i])}
    IN IF fresh THEN RowsOf(DOMAIN rows, new)
       ELSE RowsOf(changed, new) \o RowsOf(undo.new_ids, new) \o RowsOf(DOMAIN undo.removed_values, gone)

\* process_table: the changed rows, the removed ones, then the new ones.
Delta ==
    LET new(i) == Present(rows[i])
        gone(i) == Absent(undo.removed_values[i])
        changed == {i \in DOMAIN undo.old_values : IncludeDelta(undo.old_values[i], rows[i])}
    IN IF fresh THEN RowsOf(DOMAIN rows, new)
       ELSE RowsOf(changed, new) \o RowsOf(DOMAIN undo.removed_values, gone) \o RowsOf(undo.new_ids, new)

ApplyDelta(r, d) == IF d.present THEN With(r, d.key, d.data) ELSE Without(r, d.key)

StoreChainState ==
    /\ Len(past) < MaxBlocks
    /\ replica' = FoldLeft(ApplyDelta, replica, Delta)
    /\ past' = Append(past, [rows |-> rows, replica |-> replica'])
    /\ undo' = Nothing
    /\ fresh' = FALSE
    /\ UNCHANGED <<table, rows, ids>>

\* abort_block, and pop_block of the last block: the rows go back, and the
\* reader goes back when the entries of another fork arrive.
Rewind(n) ==
    /\ n \in 1..Len(past)
    /\ past' = SubSeq(past, 1, n)
    /\ rows' = past[n].rows /\ replica' = past[n].replica
    /\ undo' = Nothing
    /\ UNCHANGED <<table, ids, fresh>>

ShdNext ==
    \/ \E k \in Keys : CreateRow(k)
    \/ \E i \in DOMAIN rows : \E f \in FieldsOf(table) : ModifyRow(i, f)
    \/ \E i \in DOMAIN rows : RemoveRow(i)
    \/ StoreChainState
    \/ \E n \in 1..MaxBlocks : Rewind(n)

ShdSpec == ShdInit /\ [][ShdNext]_shdVars
--------------------------------------------------------------------------------
(* After every block the reader has the rows of the database, as they are    *)
(* serialized: what include_delta leaves out is not serialized, and a row    *)
(* removed and created again under its key in one block is there.            *)
ReplicaFollows == undo = Nothing /\ past # <<>> => replica = View(past[Len(past)].rows)
=============================================================================
