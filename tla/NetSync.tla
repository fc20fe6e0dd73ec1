------------------------------- MODULE NetSync -------------------------------
(***************************************************************************)
(* Block synchronization between nodes: sync_manager, the block half of    *)
(* dispatch_manager, and the connections they drive (net_plugin.cpp).      *)
(*                                                                         *)
(* Every handler of a node runs on its main thread, so it is one step; it  *)
(* changes the sync manager and any of the node's connections, but reaches *)
(* another node only through what is written to a socket.  A handler is an *)
(* operator from the node's state N (a record) to the set of states it may *)
(* leave: more than one, because the connections are scanned in the order  *)
(* of their addresses in memory.                                           *)
(*                                                                         *)
(* All nodes run this code on one chain and accept each other, so that no  *)
(* go_away is ever sent (the module NetPeers has those); transactions,     *)
(* clock messages and the limit on the bytes in a write queue are left     *)
(* out.  A node's applied head stands for  *)
(* the fork database's pending head, as it is when every block that        *)
(* arrives is valid.  A block of the chain is known by its id, and its     *)
(* number is part of that, so a message carries the id alone.              *)
(***************************************************************************)
EXTENDS BlockTree, Sequences, SequencesExt

CONSTANTS
    Node,
    NoNode,     \* the source when there is none
    Gone,       \* a source whose connection object has been dropped
    Old,        \* Old[m]: stands for an earlier connection object for peer m
    Span,       \* sync-fetch-span
    Nets        \* the networks a run looks at: see NetTypeOK

ASSUME NetAssumption ==
    /\ Span \in Nat \ {0}
    /\ Node \subseteq DOMAIN Old
    /\ ({NoNode, Gone} \cup {Old[m] : m \in Node}) \cap Node = {}

VARIABLES
    net,        \* the network that is run, chosen at the start
    node,       \* node[n]: the state of node n
    wire,       \* wire[m][n]: what m has written to n and n has not read yet
    made,       \* the blocks that have been produced
    left        \* the disturbances that may still happen, by kind

netVars == <<net, node, wire, made, left>>

Ancestors[b \in Block] ==
    IF b = Genesis THEN {b} ELSE {b} \cup Ancestors[Prev[b]]

\* The block numbered num on the branch that ends in h, if there is one.
OnBranch(h, num) ==
    IF \E b \in Ancestors[h] : Num[b] = num
    THEN CHOOSE b \in Ancestors[h] : Num[b] = num
    ELSE NoBlock

-----------------------------------------------------------------------------
\* The chain under the plugin (controller)

\* last_irreversible_block_num: the number of the fork database's root.
LibNum(N) == IF Lib[N.head] > Num[Genesis] THEN Lib[N.head] ELSE Num[Genesis]

\* What fetch_block_by_id finds: the applied branch, and the blocks of the fork
\* database, which all descend from its root.
Pruned(N) ==
    [N EXCEPT !.blocks = {b \in @ : \/ b \in Ancestors[N.head]
                                    \/ OnBranch(b, LibNum(N)) = OnBranch(N.head, LibNum(N))}]

\* create_block_state_future finds the previous block in the fork database.
Linkable(N, b) == Prev[b] \in N.blocks /\ Num[Prev[b]] >= LibNum(N)

-----------------------------------------------------------------------------
\* connection

NoRequest == [last |-> 0, end |-> 0]

\* connection::connection( socket_ptr )
Fresh == [listed |-> TRUE, open |-> TRUE, connecting |-> TRUE, syncing |-> FALSE,
          sent |-> FALSE, lib |-> 0, libId |-> 0, fork |-> NoBlock,
          requested |-> NoRequest, timer |-> FALSE, timedOut |-> FALSE,
          queue |-> <<>>, syncQueue |-> <<>>, out |-> <<>>, writing |-> "no",
          has |-> {}]

\* connection::connection( endpoint ), and a peer this node has no connection
\* object for.
Idle(isListed) == [Fresh EXCEPT !.listed = isListed, !.open = FALSE, !.connecting = FALSE]

connections(N) == {c \in DOMAIN N.conn : N.conn[c].listed}
current(N, c) == /\ c \in connections(N)
                 /\ N.conn[c].open
                 /\ ~N.conn[c].connecting
                 /\ ~N.conn[c].syncing

\* flush_queues: what is being written is not taken back.
flush_queues(N, c) == [N EXCEPT !.conn[c].queue = <<>>, !.conn[c].syncQueue = <<>>]

\* queued_buffer::ready_to_send
ready_to_send(k) == k.out = <<>> /\ (k.queue # <<>> \/ k.syncQueue # <<>>)

\* do_queue_write on an open socket: all of the sync queue, or if that is empty
\* all of the other one, goes to async_write.
StartWrite(N, c) ==
    IF ~ready_to_send(N.conn[c])
    THEN N
    ELSE IF N.conn[c].syncQueue # <<>>
         THEN [N EXCEPT !.conn[c].out = N.conn[c].syncQueue,
                        !.conn[c].syncQueue = <<>>, !.conn[c].writing = "data"]
         ELSE [N EXCEPT !.conn[c].out = N.conn[c].queue,
                        !.conn[c].queue = <<>>, !.conn[c].writing = "data"]

\* enqueue, on an open socket.
Send(N, c, msg) == StartWrite([N EXCEPT !.conn[c].queue = Append(@, msg)], c)

cancel_wait(N, c) == [N EXCEPT !.conn[c].timer = FALSE]
sync_wait(N, c) == [N EXCEPT !.conn[c].timer = TRUE]

\* handshake_initializer::populate.  Of the generation, only whether it is the
\* first is ever looked at.
Handshake(N, c) ==
    [type |-> "handshake", first |-> ~N.conn[c].sent,
     lib |-> LibNum(N), head |-> N.head]

-----------------------------------------------------------------------------
\* sync_manager, up to closing a connection

\* The peers request_next_chunk may settle on as its source: the one it was
\* given; otherwise the next current one round the ring of connections, with
\* the previous source last; otherwise the previous source stays.
Sources(N, c) ==
    LET previous == IF N.source \in connections(N) THEN N.source ELSE NoNode
        others   == {d \in connections(N) \ {previous} : current(N, d)}
    IN  CASE current(N, c) -> {c}
          [] ~current(N, c) /\ connections(N) = {} -> {NoNode}
          [] ~current(N, c) /\ Cardinality(connections(N)) = 1 ->
                 IF N.source = NoNode THEN connections(N) ELSE {N.source}
          [] OTHER -> IF others = {} THEN {previous} ELSE others

\* The end of the range that is asked for next.
ChunkEnd(N) ==
    IF N.next_expected + Span - 1 > N.known_lib
    THEN N.known_lib
    ELSE N.next_expected + Span - 1

\* Mutant of request_next_chunk: the request goes out and no timer is set.
RequestUnwatched(N, c) ==
    IF Num[N.head] < N.last_requested /\ current(N, N.source)
    THEN {N}
    ELSE {IF ~current(N, s)
          THEN [N EXCEPT !.source = s, !.known_lib = LibNum(N),
                         !.last_requested = 0, !.stage = "in_sync"]
          ELSE IF N.last_requested # N.known_lib /\ ChunkEnd(N) >= N.next_expected
          THEN Send([N EXCEPT !.source = s, !.last_requested = ChunkEnd(N)], s,
                    [type |-> "sync_request", start |-> N.next_expected,
                     end |-> ChunkEnd(N)])
          ELSE [N EXCEPT !.source = s] : s \in Sources(N, c)}

\* request_next_chunk: ignored while the last range is still coming; otherwise
\* the next range is asked for, or the sync is given up for want of a source.
request_next_chunk(N, c) ==
    IF Num[N.head] < N.last_requested /\ current(N, N.source)
    THEN {N}
    ELSE {IF ~current(N, s)
          THEN [N EXCEPT !.source = s, !.known_lib = LibNum(N),
                         !.last_requested = 0, !.stage = "in_sync"]
          ELSE IF N.last_requested # N.known_lib /\ ChunkEnd(N) >= N.next_expected
          THEN sync_wait(Send([N EXCEPT !.source = s, !.last_requested = ChunkEnd(N)], s,
                              [type |-> "sync_request", start |-> N.next_expected,
                               end |-> ChunkEnd(N)]), s)
          ELSE [N EXCEPT !.source = s] : s \in Sources(N, c)}

reset_lib_num(N, c) ==
    LET source == IF N.stage = "in_sync" THEN NoNode ELSE N.source
    IN  IF current(N, c)
        THEN {[N EXCEPT !.source = source,
                        !.known_lib = IF N.conn[c].lib > @ THEN N.conn[c].lib ELSE @]}
        ELSE IF c = source
        THEN request_next_chunk([N EXCEPT !.last_requested = 0], NoNode)
        ELSE {[N EXCEPT !.source = source]}

\* net_plugin_impl::close and connection::close.  Neither the head that was to
\* be fetched from this peer nor a write in progress is forgotten.
close(N, c) ==
    {cancel_wait(N1, c) :
        N1 \in reset_lib_num(
                   [N EXCEPT !.conn[c] =
                       [Idle(@.listed) EXCEPT !.fork = N.conn[c].fork,
                                              !.timer = N.conn[c].timer,
                                              !.timedOut = N.conn[c].timedOut,
                                              !.out = N.conn[c].out,
                                              !.writing = N.conn[c].writing]], c)}

-----------------------------------------------------------------------------
\* The rest of connection

\* do_queue_write: finding the socket closed, it closes the connection.
do_queue_write(N, c) ==
    IF N.conn[c].open \/ ~ready_to_send(N.conn[c])
    THEN {StartWrite(N, c)}
    ELSE close(N, c)

enqueue(N, c, msg) == do_queue_write([N EXCEPT !.conn[c].queue = Append(@, msg)], c)

send_handshake(N, c) == enqueue([N EXCEPT !.conn[c].sent = TRUE], c, Handshake(N, c))

\* cancel_sync( benign_other )
cancel_sync(N, c) ==
    enqueue(flush_queues(cancel_wait(N, c), c), c,
            [type |-> "sync_request", start |-> 0, end |-> 0])

\* Mutant of enqueue_sync_block: a request is not over at its last block.
EnqueueWithoutEnd(N, c) ==
    LET r == N.conn[c].requested
        b == OnBranch(N.head, r.last + 1)
        rest == [r EXCEPT !.last = @ + 1]
    IN  IF r = NoRequest
        THEN {N}
        ELSE IF b = NoBlock
        THEN {[N EXCEPT !.conn[c].requested = rest]}
        ELSE do_queue_write(
                 [N EXCEPT !.conn[c].requested = rest,
                           !.conn[c].syncQueue = Append(@, [type |-> "block", block |-> b])],
                 c)

\* enqueue_sync_block: the next block the peer has asked for.  A number this
\* node has no block for is passed over, and nothing more is queued until some
\* other write ends.
enqueue_sync_block(N, c) ==
    LET r   == N.conn[c].requested
        num == r.last + 1
        b   == OnBranch(N.head, num)
        rest == IF num = r.end THEN NoRequest ELSE [r EXCEPT !.last = num]
    IN  IF r = NoRequest
        THEN {N}
        ELSE IF b = NoBlock
        THEN {[N EXCEPT !.conn[c].requested = rest]}
        ELSE do_queue_write(
                 [N EXCEPT !.conn[c].requested = rest,
                           !.conn[c].syncQueue = Append(@, [type |-> "block", block |-> b])],
                 c)

\* blk_send_branch: from above the peer's irreversible block to the head.
blk_send_branch(N, c) ==
    LET r     == N.conn[c].requested
        first == IF r # NoRequest /\ r.last < N.conn[c].libId THEN r.last ELSE N.conn[c].libId
        end   == IF r # NoRequest /\ r.end > Num[N.head] THEN r.end ELSE Num[N.head]
    IN  {[N1 EXCEPT !.conn[c].syncing = FALSE] :
            N1 \in enqueue_sync_block(
                       [N EXCEPT !.conn[c].requested = [last |-> first, end |-> end]], c)}

-----------------------------------------------------------------------------
\* The rest of sync_manager

\* send_handshakes: to every current connection.
send_handshakes(N) ==
    [N EXCEPT !.conn =
        [c \in DOMAIN N.conn |->
            IF current(N, c)
            THEN Send([N EXCEPT !.conn[c].sent = TRUE], c, Handshake(N, c)).conn[c]
            ELSE N.conn[c]]]

\* Mutant of start_sync: begins one block too high.
StartTooHigh(N, c, target) ==
    LET known == IF target > N.known_lib THEN target ELSE N.known_lib
        N1    == [N EXCEPT !.known_lib = known]
    IN  IF N.last_requested >= known /\ Num[N.head] >= N.last_requested
        THEN {N1}
        ELSE request_next_chunk(
                 IF N.stage = "in_sync"
                 THEN [N1 EXCEPT !.stage = "lib_catchup", !.next_expected = LibNum(N) + 2]
                 ELSE N1, c)

\* start_sync, with sync_required as its condition.
start_sync(N, c, target) ==
    LET known == IF target > N.known_lib THEN target ELSE N.known_lib
        N1    == [N EXCEPT !.known_lib = known]
    IN  IF N.last_requested >= known /\ Num[N.head] >= N.last_requested
        THEN {N1}
        ELSE request_next_chunk(
                 IF N.stage = "in_sync"
                 THEN [N1 EXCEPT !.stage = "lib_catchup", !.next_expected = LibNum(N) + 1]
                 ELSE N1, c)

reassign_fetch(N, c) ==
    IF c # N.source
    THEN {N}
    ELSE UNION {request_next_chunk([N1 EXCEPT !.last_requested = 0], NoNode) :
                   N1 \in cancel_sync(N, c)}

\* verify_catchup: asks c for the branch that ends in id, unless some other
\* connection, or this one, is already down to fetch it or a longer one.
verify_catchup(N, c, id) ==
    LET onItsWay == \E d \in connections(N) :
                       /\ N.conn[d].fork # NoBlock
                       /\ N.conn[d].fork = id \/ Num[N.conn[d].fork] > Num[id]
    IN  IF onItsWay
        THEN enqueue([N EXCEPT !.conn[c].fork = NoBlock], c,
                     [type |-> "request", mode |-> "none"])
        ELSE IF N.stage = "lib_catchup"
        THEN {[N EXCEPT !.conn[c].fork = id]}
        ELSE enqueue([N EXCEPT !.conn[c].fork = id, !.stage = "head_catchup"], c,
                     [type |-> "request", mode |-> "catch_up"])

\* recv_handshake: the five states of its comment, 0 to 4.
recv_handshake(N, c, msg) ==
    UNION {LET N2 == [N1 EXCEPT !.conn[c].syncing = FALSE]
           IN  CASE N.head = msg.head ->
                        enqueue(N2, c, [type |-> "notice", mode |-> "none"])
                 [] N.head # msg.head /\ Num[N.head] < msg.lib -> {N2}
                 [] N.head # msg.head /\ LibNum(N) > Num[msg.head] ->
                        {[N3 EXCEPT !.conn[c].syncing = TRUE] :
                            N3 \in enqueue(N2, c, [type |-> "notice", mode |-> "last_irr_catch_up",
                                                   lib |-> LibNum(N)])}
                 [] /\ Num[N.head] >= msg.lib
                    /\ LibNum(N) =< Num[msg.head]
                    /\ Num[N.head] < Num[msg.head] -> verify_catchup(N2, c, msg.head)
                 [] OTHER ->
                        {[N3 EXCEPT !.conn[c].syncing = TRUE] :
                            N3 \in enqueue(N2, c, [type |-> "notice", mode |-> "catch_up",
                                                   head |-> N.head])}
           : N1 \in reset_lib_num(N, c)}

recv_notice(N, c, msg) ==
    CASE msg.mode = "none" -> {N}
      [] msg.mode = "catch_up" -> verify_catchup(N, c, msg.head)
      [] msg.mode = "last_irr_catch_up" ->
             UNION {start_sync(N1, c, msg.lib) :
                       N1 \in reset_lib_num([N EXCEPT !.conn[c].lib = msg.lib], c)}

\* rejected_block: out of sync, the connection goes; in sync, nothing happens.
rejected_block(N, c) ==
    IF N.stage = "in_sync"
    THEN {N}
    ELSE {send_handshakes([N1 EXCEPT !.stage = "in_sync"]) :
             N1 \in close([N EXCEPT !.last_requested = 0, !.source = NoNode], c)}

\* Mutant of RecvLibBlock: no handshake when the irreversible part is there.
RecvLibSilently(N, c, b) ==
    LET N1 == [N EXCEPT !.next_expected = Num[b] + 1]
    IN  CASE Num[b] # N.next_expected -> close(N, c)
          [] Num[b] = N.next_expected /\ Num[b] = N.known_lib ->
                 {[N1 EXCEPT !.stage = "in_sync"]}
          [] Num[b] = N.next_expected /\ Num[b] # N.known_lib /\ Num[b] = N.last_requested ->
                 request_next_chunk(N1, NoNode)
          [] OTHER -> {sync_wait(N1, c)}

\* recv_block while in lib_catchup.
RecvLibBlock(N, c, b) ==
    LET N1 == [N EXCEPT !.next_expected = Num[b] + 1]
    IN  CASE Num[b] # N.next_expected -> close(N, c)
          [] Num[b] = N.next_expected /\ Num[b] = N.known_lib ->
                 {send_handshakes([N1 EXCEPT !.stage = "in_sync"])}
          [] Num[b] = N.next_expected /\ Num[b] # N.known_lib /\ Num[b] = N.last_requested ->
                 request_next_chunk(N1, NoNode)
          [] OTHER -> {sync_wait(N1, c)}

\* recv_block while in head_catchup.  Every connection whose head is reached
\* clears the head of the connection the block came from, not its own; if the
\* latter waits for another block itself, it counts as waiting only when it is
\* met before the first of those.
RecvHeadBlock(N, c, b) ==
    LET waiting == {d \in connections(N) : N.conn[d].fork # NoBlock}
        reached == {d \in waiting : N.conn[d].fork = b \/ Num[N.conn[d].fork] < Num[b]}
        N1      == [N EXCEPT !.source = NoNode,
                             !.conn[c].fork = IF reached # {} THEN NoBlock ELSE @]
    IN  {IF still = {}
         THEN send_handshakes([N1 EXCEPT !.stage = "in_sync"])
         ELSE N1 : still \in {waiting \ reached}
                              \cup {waiting \ (reached \cup {c}) : d \in reached}}

recv_block(N, c, b) ==
    CASE N.stage = "in_sync" -> {N}
      [] N.stage = "lib_catchup" -> RecvLibBlock(N, c, b)
      [] N.stage = "head_catchup" -> RecvHeadBlock(N, c, b)

-----------------------------------------------------------------------------
\* dispatch_manager

\* bcast_block.  blk_state holds one block of each number, and its insertion is
\* not checked: a second block of a number is sent but not remembered.
bcast_block(N, b) ==
    LET skips == {c \in connections(N) : <<b, c>> \in N.received}
        sends(c) == /\ current(N, c)
                    /\ c \notin skips
                    /\ N.conn[c].lib < Num[b]
                    /\ b \notin N.conn[c].has
        has(c) == IF \E a \in N.conn[c].has : Num[a] = Num[b]
                  THEN N.conn[c].has
                  ELSE N.conn[c].has \cup {b}
    IN  [N EXCEPT !.received = {r \in @ : r[1] # b},
                  !.conn = [c \in DOMAIN N.conn |->
                               IF sends(c)
                               THEN Send([N EXCEPT !.conn[c].has = has(c)], c,
                                         [type |-> "block", block |-> b]).conn[c]
                               ELSE N.conn[c]]]

\* The blocks that become part of the applied branch when b is accepted, in the
\* order in which accepted_block is signaled for them.
NewlyApplied(N, b) ==
    IF first_preferred(b, N.head)
    THEN SetToSortSeq(Ancestors[b] \ Ancestors[N.head], LAMBDA x, y : Num[x] < Num[y])
    ELSE <<>>

\* The controller takes a block that links: the head moves to it if it is
\* preferred, and what that applies is broadcast.
accept_block(N, b) ==
    Pruned([FoldLeft(bcast_block, N, NewlyApplied(N, b)) EXCEPT
               !.blocks = @ \cup {b},
               !.head = IF first_preferred(b, @) THEN b ELSE @])

-----------------------------------------------------------------------------
\* net_plugin_impl::handle_message

HandleHandshake(N, c, msg) ==
    UNION {recv_handshake([N1 EXCEPT !.conn[c].lib = msg.lib, !.conn[c].libId = msg.lib], c, msg) :
              N1 \in LET N0 == [N EXCEPT !.conn[c].connecting = FALSE]
                     IN  IF msg.first /\ ~N.conn[c].sent THEN send_handshake(N0, c) ELSE {N0}}

HandleNotice(N, c, msg) == recv_notice([N EXCEPT !.conn[c].connecting = FALSE], c, msg)

HandleRequest(N, c, msg) ==
    IF msg.mode = "catch_up"
    THEN blk_send_branch(N, c)
    ELSE {[N EXCEPT !.conn[c].syncing = FALSE]}

\* Mutant of HandleSyncRequest: the first block of the range is left out.
HandleSyncRequestLate(N, c, msg) ==
    IF msg.end = 0
    THEN {flush_queues([N EXCEPT !.conn[c].requested = NoRequest], c)}
    ELSE enqueue_sync_block(
             [N EXCEPT !.conn[c].requested = [last |-> msg.start, end |-> msg.end]], c)

HandleSyncRequest(N, c, msg) ==
    IF msg.end = 0
    THEN {flush_queues([N EXCEPT !.conn[c].requested = NoRequest], c)}
    ELSE enqueue_sync_block(
             [N EXCEPT !.conn[c].requested = [last |-> msg.start - 1, end |-> msg.end]], c)

\* A block, from process_next_message on.
HandleBlock(N, c, b) ==
    IF b \in N.blocks
    THEN recv_block(N, c, b)
    ELSE LET N1 == [cancel_wait(N, c) EXCEPT !.received = @ \cup {<<b, c>>}]
         IN  IF Linkable(N, b)
             THEN UNION {recv_block(N2, c, b) : N2 \in {accept_block(N1, b)}}
             ELSE {[N2 EXCEPT !.received = {r \in @ : r[1] # b}] : N2 \in rejected_block(N1, c)}

Handle(N, c, msg) ==
    CASE msg.type = "handshake" -> HandleHandshake(N, c, msg)
      [] msg.type = "notice" -> HandleNotice(N, c, msg)
      [] msg.type = "request" -> HandleRequest(N, c, msg)
      [] msg.type = "sync_request" -> HandleSyncRequest(N, c, msg)
      [] msg.type = "block" -> HandleBlock(N, c, msg.block)

-----------------------------------------------------------------------------

Links == net.links \cup {<<l[2], l[1]>> : l \in net.links}

\* The connection objects of n: one for each peer, and one for an earlier session
\* with a peer that connects to n.
Objects(n) == {l[2] : l \in {l \in Links : l[1] = n}}
                 \cup {Old[l[1]] : l \in {l \in net.links : l[2] = n}}

\* n has closed its connection with m and is still going through what the last
\* read from it has brought.
InBuffer(n, m) == ~node[n].conn[m].open /\ wire[m][n] # <<>>

\* The main thread of n is free for a handler about its connection with m.
Free(n, m) == \A d \in (DOMAIN node[n].conn \cap Node) \ {m} : ~InBuffer(n, d)

\* A message is read and handled.  When that closes the connection, what the
\* same read has brought is still handled, and the rest is lost: the read has
\* brought any number of the messages that had arrived.
Deliver(m, n) ==
    /\ wire[m][n] # <<>>
    /\ Free(n, m)
    /\ \E N \in Handle(node[n], m, Head(wire[m][n])) :
          /\ node' = [node EXCEPT ![n] = N]
          /\ \E buffered \in IF node[n].conn[m].open /\ ~N.conn[m].open
                             THEN Prefixes(Tail(wire[m][n]))
                             ELSE {Tail(wire[m][n])} :
                wire' = [wire EXCEPT ![m][n] = buffered]
    /\ UNCHANGED <<net, made, left>>

\* async_write hands the data over, on a thread of its own.  The socket may have
\* been closed after the data was taken.
Transmit(n, m) ==
    /\ node[n].conn[m].writing = "data"
    /\ wire' = [wire EXCEPT ![n][m] = IF node[m].conn[n].open
                                      THEN @ \o node[n].conn[m].out ELSE @]
    /\ node' = [node EXCEPT ![n].conn[m].writing = "done"]
    /\ UNCHANGED <<net, made, left>>

\* The handler that async_write posts to the main thread, when all went well: the
\* next block of a requested range goes first.  The peer may have answered.
WriteEnds(n, m) ==
    LET N0 == [node[n] EXCEPT !.conn[m].out = <<>>, !.conn[m].writing = "no"]
    IN  /\ node[n].conn[m].writing = "done"
        /\ Free(n, NoNode)
        /\ \E N1 \in enqueue_sync_block(N0, m) : \E N2 \in do_queue_write(N1, m) :
              node' = [node EXCEPT ![n] = N2]
        /\ UNCHANGED <<net, wire, made, left>>

\* A disturbance: one end was closed before async_write was done, which ends with
\* an error when part of the data has gone.  The connection is closed, perhaps
\* once more; the out queue stays.
WriteFails(n, m) ==
    /\ left.cuts > 0
    /\ node[n].conn[m].writing = "data"
    /\ ~node[n].conn[m].open \/ ~node[m].conn[n].open
    /\ Free(n, NoNode)
    /\ \E sent \in Prefixes(node[n].conn[m].out) :
          wire' = [wire EXCEPT ![n][m] = IF node[m].conn[n].open THEN @ \o sent ELSE @]
    /\ \E N \in close([node[n] EXCEPT !.conn[m].writing = "no"], m) :
          node' = [node EXCEPT ![n] = N]
    /\ left' = [left EXCEPT !.cuts = @ - 1]
    /\ UNCHANGED <<net, made>>

\* The read fails, because the peer has closed its end and all it wrote before
\* has arrived.
ReadFails(n, m) ==
    /\ node[n].conn[m].open
    /\ ~node[m].conn[n].open /\ node[m].conn[n].writing # "data"
    /\ wire[m][n] = <<>>
    /\ Free(n, m)
    /\ \E N \in close(node[n], m) : node' = [node EXCEPT ![n] = N]
    /\ UNCHANGED <<net, wire, made, left>>

\* A disturbance: the network drops the session between two writes, and n is
\* the first to see it.
Breaks(n, m) ==
    /\ left.breaks > 0
    /\ node[n].conn[m].open /\ node[n].conn[m].writing # "data"
    /\ node[m].conn[n].open /\ node[m].conn[n].writing # "data"
    /\ Free(n, m)
    /\ \E N \in close(node[n], m) : node' = [node EXCEPT ![n] = N]
    /\ wire' = [wire EXCEPT ![n][m] = <<>>, ![m][n] = <<>>]
    /\ left' = [left EXCEPT !.breaks = @ - 1]
    /\ UNCHANGED <<net, made>>

\* connection_monitor of a node that was connected to: it drops the closed
\* object c, which is the last one or an earlier one for its peer.
Forget(n, c) ==
    /\ <<n, c>> \notin net.links
    /\ node[n].conn[c].listed
    /\ ~node[n].conn[c].open
    /\ Free(n, NoNode)
    /\ node' = [node EXCEPT ![n].conn[c] = Idle(FALSE),
                            ![n].received = {r \in @ : r[2] # c},
                            ![n].source = IF @ = c THEN Gone ELSE @]
    /\ UNCHANGED <<net, wire, made, left>>

\* start_listen_loop: a new object for peer m.  A closed one that the monitor has
\* not met stays among the connections.
Accepted(N, m) ==
    IF N.conn[m].listed
    THEN [N EXCEPT !.conn[Old[m]] = N.conn[m], !.conn[m] = Fresh,
                   !.received = {<<r[1], IF r[2] = m THEN Old[m] ELSE r[2]>> : r \in @},
                   !.source = IF @ = m THEN Old[m] ELSE @]
    ELSE [N EXCEPT !.conn[m] = Fresh]

\* connection_monitor of the node that connects: connect, start_session and
\* send_handshake; on the other side, start_listen_loop accepts.  By then the
\* handlers of the session before have run, and one earlier object at most is
\* still there.
Connect(n, m) ==
    /\ <<n, m>> \in net.links
    /\ \A l \in {<<n, m>>, <<m, n>>} : LET k == node[l[1]].conn[l[2]] IN
          ~k.open /\ k.writing = "no" /\ ~k.timedOut /\ wire[l[1]][l[2]] = <<>>
    /\ ~node[m].conn[Old[n]].listed
    /\ Free(n, NoNode) /\ Free(m, NoNode)
    /\ \E N \in send_handshake([node[n] EXCEPT !.conn[m].open = TRUE,
                                               !.conn[m].connecting = TRUE], m) :
          node' = [node EXCEPT ![n] = N, ![m] = Accepted(@, n)]
    /\ UNCHANGED <<net, wire, made, left>>

\* Nothing is on its way between n and m.
Silent(n, m) ==
    /\ wire[n][m] = <<>> /\ wire[m][n] = <<>>
    /\ node[n].conn[m].writing = "no" /\ node[m].conn[n].writing = "no"

\* The response timer of the connection expires: when no answer can come any
\* more, or as a disturbance before a slow one does.  Its handler is then in
\* the main thread's queue, where cancel_wait no longer reaches it.
Expires(n, m, early) ==
    /\ node[n].conn[m].timer
    /\ IF early THEN left.slow > 0 ELSE Silent(n, m)
    /\ node' = [node EXCEPT ![n].conn[m].timer = FALSE, ![n].conn[m].timedOut = TRUE]
    /\ left' = IF early THEN [left EXCEPT !.slow = @ - 1] ELSE left
    /\ UNCHANGED <<net, wire, made>>

\* sync_timeout
sync_timeout(n, m) ==
    /\ node[n].conn[m].timedOut
    /\ Free(n, NoNode)
    /\ \E N \in reassign_fetch([node[n] EXCEPT !.conn[m].timedOut = FALSE], m) :
          node' = [node EXCEPT ![n] = N]
    /\ UNCHANGED <<net, wire, made, left>>

Settled == /\ \A l \in Links : Silent(l[1], l[2])
           /\ \A l \in Links : ~node[l[1]].conn[l[2]].timer /\ ~node[l[1]].conn[l[2]].timedOut
           /\ \A l \in Links : node[l[1]].conn[l[2]].open

\* A node produces a block: the first ones at any time, the last ones when the
\* network has come to rest.
Produce(n, b) ==
    /\ n \in net.producers
    /\ b \notin made
    /\ Prev[b] = node[n].head
    /\ Num[b] =< net.anytime \/ Settled
    /\ Free(n, NoNode)
    /\ node' = [node EXCEPT ![n] = accept_block(@, b)]
    /\ made' = made \cup {b}
    /\ UNCHANGED <<net, wire, left>>

-----------------------------------------------------------------------------

Init ==
    /\ net \in Nets
    /\ node = [n \in Node |->
                 [head |-> net.head[n], blocks |-> Ancestors[net.head[n]],
                  stage |-> "in_sync", known_lib |-> 0, last_requested |-> 0,
                  next_expected |-> 1, source |-> NoNode, received |-> {},
                  conn |-> [c \in Objects(n) |-> Idle(<<n, c>> \in net.links)]]]
    /\ wire = [n \in Node |-> [m \in Node |-> <<>>]]
    /\ made = UNION {Ancestors[net.head[n]] : n \in Node}
    /\ left = net.left

\* A bound: the stages of a write in net.prompt are over before anything else
\* happens.  Where the main thread is not free, its handlers come first.
Prompt == \A l \in Links : node[l[1]].conn[l[2]].writing \in net.prompt =>
                               ~Free(l[1], NoNode)

Step ==
    \/ \E l \in Links : Deliver(l[2], l[1])
    \/ \E l \in Links : WriteFails(l[1], l[2])
    \/ \E l \in Links : ReadFails(l[1], l[2])
    \/ \E l \in Links : Breaks(l[1], l[2])
    \/ \E n \in Node : \E c \in Objects(n) : Forget(n, c)
    \/ \E l \in Links : Connect(l[1], l[2])
    \/ \E l \in Links : \E early \in BOOLEAN : Expires(l[1], l[2], early)
    \/ \E l \in Links : sync_timeout(l[1], l[2])
    \/ \E n \in Node : \E b \in Block : Produce(n, b)

Next ==
    \/ \E l \in Links : Transmit(l[1], l[2])
    \/ \E l \in Links : WriteEnds(l[1], l[2])
    \/ Prompt /\ Step

Spec == Init /\ [][Next]_netVars

\* What a node does of itself it does some time: the operating system delivers
\* and writes, closed sessions are noticed, timers expire, and the monitor of
\* the connections runs again and again.  Producers go on producing, at the
\* latest when the network is at rest.  Disturbances need not happen.
FairSpec ==
    /\ Spec
    /\ \A n \in Node : \A m \in Node \ {n} :
          /\ WF_netVars(<<n, m>> \in Links /\ Deliver(m, n))
          /\ WF_netVars(<<n, m>> \in Links /\ Transmit(n, m))
          /\ WF_netVars(<<n, m>> \in Links /\ WriteEnds(n, m))
          /\ WF_netVars(<<n, m>> \in Links /\ ReadFails(n, m))
          /\ \A c \in {m, Old[m]} : WF_netVars(c \in Objects(n) /\ Forget(n, c))
          /\ WF_netVars(<<n, m>> \in Links /\ Connect(n, m))
          /\ WF_netVars(<<n, m>> \in Links /\ Expires(n, m, FALSE))
          /\ WF_netVars(<<n, m>> \in Links /\ sync_timeout(n, m))
    /\ WF_netVars(Settled /\ \E n \in Node : \E b \in Block : Produce(n, b))

-----------------------------------------------------------------------------

\* Types.  A range that a peer has asked for and that is not finished has a
\* block to come: peer_requested is reset with its last block.
NetTypeOK ==
    /\ net.links \subseteq Node \X Node
    /\ net.head \in [Node -> Block]
    /\ net.producers \subseteq Node
    /\ made \subseteq Block
    /\ left \in [{"slow", "breaks", "cuts"} -> Nat]
    /\ \A n \in Node :
          LET N == node[n]
          IN  /\ N.head \in N.blocks /\ N.blocks \subseteq made
              /\ N.stage \in {"in_sync", "lib_catchup", "head_catchup"}
              /\ {N.known_lib, N.last_requested, N.next_expected} \subseteq Nat
              /\ N.source \in DOMAIN N.conn \cup {NoNode, Gone}
              /\ \A c \in DOMAIN N.conn :
                    /\ N.conn[c].fork \in Block \cup {NoBlock}
                    /\ N.conn[c].requested = NoRequest
                          \/ N.conn[c].requested.last < N.conn[c].requested.end

\* While a node catches up with the irreversible blocks, it has all blocks below
\* the one it expects next: recv_block counts by number alone and never lets a
\* gap behind it, whatever was cancelled, repeated or asked of another peer.
NoGapBelowExpected ==
    \A n \in Node :
       node[n].stage = "lib_catchup" => node[n].next_expected =< Num[node[n].head] + 1

\* A node that has asked for irreversible blocks and lacks some of them waits for
\* an open connection whose timer is set, or has expired and is about to be
\* handled, so that a source that falls silent is noticed: each handler of the
\* model that cancels the timer meanwhile (for a block, a closed connection or a
\* timeout) sets one again or gives the catch-up up.  A node that a late notice
\* has made wait for nothing (Stalled) has asked for no block and is not meant.
CatchupIsWatched ==
    \A n \in Node :
       LET N == node[n]
       IN  N.stage = "lib_catchup" /\ N.next_expected =< N.last_requested =>
              /\ N.source \in connections(N)
              /\ N.conn[N.source].open
              /\ N.conn[N.source].timer \/ N.conn[N.source].timedOut

\* A node that catches up with the irreversible blocks has no gap behind it and is woken if
\* the source of the range it has asked for falls silent (NetTypeOK, NoGapBelowExpected and CatchupIsWatched).
CatchupSound == NetTypeOK /\ NoGapBelowExpected /\ CatchupIsWatched

\* In a network that is not disturbed nobody closes a connection: the blocks a
\* peer streams, those it broadcasts meanwhile and those asked for twice never
\* look to recv_block like ones out of order, or to the chain like unlinkable
\* ones while out of sync.
UndisturbedStayConnected ==
    [][(\A k \in DOMAIN net.left : net.left[k] = 0) =>
          \A l \in Links : node[l[1]].conn[l[2]].open => node'[l[1]].conn[l[2]].open]_netVars

\* Neighbours have equally good heads.
Level == \A l \in Links : ~first_preferred(node[l[1]].head, node[l[2]].head)

\* Neighbours end with equally good heads, although sessions break, as long as no
\* write fails half way and no timer expires before a slow answer: what the test
\* of a node that starts behind its producer expects ("the node is allowed to
\* catch up to the producing node", tests/nodeos_startup_catchup.py).
CatchesUp == net.left.cuts = 0 /\ net.left.slow = 0 => <>[]Level

\* Node n is in lib_catchup and has all the blocks it knows to be irreversible,
\* so that start_sync has asked for none: a notice has come after the blocks.
Stalled(n) == node[n].stage = "lib_catchup" /\ node[n].next_expected > node[n].known_lib

\* Unless a late notice stalls a node, neighbours end with equally good heads in
\* spite of broken sessions (CatchesUp).
CatchesUpUnlessStalled == [](\A n \in Node : ~Stalled(n)) => CatchesUp

\* Neighbours come to equally good heads unless a late notice stalls one, and undisturbed
\* ones without closing a connection (CatchesUpUnlessStalled and UndisturbedStayConnected).
Synchronizes == UndisturbedStayConnected /\ CatchesUpUnlessStalled
-----------------------------------------------------------------------------
(***************************************************************************)
(* The instances of the runs: one chain of blocks, each of which makes the *)
(* block two below it irreversible, and up to three nodes that start on    *)
(* different blocks.                                                       *)
(***************************************************************************)

ChainPrev == [k \in Block |-> k - 1]
ChainLib == [k \in Block |-> IF k > 3 THEN k - 2 ELSE 0]
ChainNum == [k \in Block |-> k]

Earlier == ("x" :> "x0") @@ ("y" :> "y0") @@ ("z" :> "z0")
Heads(i, j, k) == ("x" :> i) @@ ("y" :> j) @@ ("z" :> k)
Pair == {<<"x", "y">>}
Line == {<<"x", "y">>, <<"y", "z">>}
Star == {<<"x", "y">>, <<"x", "z">>}
Net(links, prompt, heads, makers, anytime, slow, breaks, cuts) ==
    [links |-> links, head |-> heads, producers |-> makers, anytime |-> anytime,
     prompt |-> prompt, left |-> [slow |-> slow, breaks |-> breaks, cuts |-> cuts]]

\* Not among the networks that are to catch up are those with an early timeout,
\* whose handler may flush a handshake that waits behind a write, and those of
\* three nodes with a break, after which the fork_head that close keeps may make
\* verify_catchup take a branch for being on its way: a node then stays behind
\* with nothing on its way to it.
PassingNets ==
    {\* far behind, while blocks are produced
     Net(Pair, {}, Heads(1, 6, 1), {"y"}, 7, 0, 0, 0),
     \* far behind, and the session breaks
     Net(Pair, {}, Heads(1, 6, 1), {"y"}, 6, 0, 1, 0),
     \* far behind: a break and an early timeout
     Net(Pair, {}, Heads(1, 6, 1), {"y"}, 6, 1, 1, 0),
     \* two producers: the session breaks
     Net(Pair, {}, Heads(5, 6, 1), {"x", "y"}, 7, 0, 1, 0),
     \* and a write fails
     Net(Pair, {}, Heads(5, 6, 1), {"x", "y"}, 6, 0, 1, 1),
     \* the node in the middle is ahead; the producer is behind it
     Net(Line, {"done"}, Heads(4, 6, 1), {"x"}, 6, 0, 0, 0),
     \* both peers of a node are ahead of it
     Net(Star, {"data", "done"}, Heads(1, 4, 4), {}, 4, 0, 0, 0),
     \* one of them is as far behind as the node: an early timeout
     Net(Star, {"data", "done"}, Heads(1, 4, 1), {"y"}, 4, 1, 0, 0)}
LateNoticeNets == {Net(Pair, {}, Heads(4, 6, 1), {"y"}, 7, 0, 0, 0)}
================================================================================
