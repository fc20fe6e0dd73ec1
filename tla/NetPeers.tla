------------------------------- MODULE NetPeers -------------------------------
(* What net_plugin does apart from synchronisation, in three parts, each a    *)
(* specification of its own: connections and their limits (Nc), the handshake *)
(* of two nodes that connect to each other (Nh), and the transactions a node  *)
(* passes on (Nt).                                                            *)
EXTENDS Integers, FiniteSets, Sequences, SequencesExt

-----------------------------------------------------------------------------
(***************************************************************************)
(* The life of a node's connections (net_plugin.cpp): made to the peers it *)
(* is told of, or accepted from visitors; read and written by one          *)
(* asynchronous operation each; closed by errors, by go_away messages and  *)
(* by full queues; made again by the connection monitor.  The peers and    *)
(* the network are what they may be: a connection attempt, a read and a    *)
(* write may fail at any time.                                             *)
(*                                                                         *)
(* A message is one unit of a write queue.  Every step runs on the main    *)
(* thread; the completion of an operation is a step of its own.            *)
(***************************************************************************)

CONSTANTS
    Peers,            \* hosts a connection is made to
    Visitors,         \* connection objects for accepted sockets
    Hosts,            \* where visitors come from
    MaxClients,       \* max-clients, 0 for no limit
    MaxNodesPerHost,  \* p2p-max-nodes-per-host
    MaxQueue,         \* def_max_write_queue_size
    Groups            \* sets of connections: a behaviour uses those of one

Conns == Peers \cup Visitors

VARIABLES
    conn,         \* the connections
    num_clients,
    stopped,
    group

ncVars == <<conn, num_clients, stopped, group>>

Unlisted ==
    [listed |-> FALSE, open |-> FALSE, connecting |-> FALSE, no_retry |-> FALSE, host |-> "none",
     queue |-> 0, out |-> 0, writing |-> FALSE, leaving |-> "no",
     reading |-> FALSE, delayed |-> FALSE, resolving |-> FALSE]

NcInit ==
    /\ conn = [c \in Conns |-> Unlisted]
    /\ num_clients = 0
    /\ stopped = FALSE
    /\ group \in Groups

\* A step that takes connection c to the record r and leaves n clients.
Become(c, r, n) == conn' = [conn EXCEPT ![c] = r] /\ num_clients' = n

\* close, connection::close: what is being written and read ends with an error
\* of its own, and the messages handed to the socket stay where they are.
Closing(r) == [r EXCEPT !.open = FALSE, !.connecting = FALSE, !.queue = 0,
                        !.leaving = IF @ = "queued" THEN "no" ELSE @]
ClientsAfterCloseKept(c, n) == n

ClientsAfterClose(c, n) == IF c \in Visitors /\ conn[c].open /\ n > 0 THEN n - 1 ELSE n
--------------------------------------------------------------------------------
(* Writing *)

\* do_queue_write on an open socket.
StartWriting(r) ==
    IF r.queue = 0 \/ r.out > 0 THEN r
    ELSE [r EXCEPT !.out = r.queue, !.queue = 0, !.writing = TRUE,
                   !.leaving = IF @ = "queued" THEN "out" ELSE @]

\* queue_write of one message: the connection is given up when its queue is full.
QueueWrite(c, r, n) ==
    LET added == [r EXCEPT !.queue = @ + 1]
    IN IF added.queue > 2 * MaxQueue THEN Become(c, Closing(added), ClientsAfterClose(c, n))
       ELSE IF added.out > 0 THEN Become(c, added, n)
       ELSE IF ~added.open THEN Become(c, Closing(added), ClientsAfterClose(c, n))
       ELSE Become(c, StartWriting(added), n)

\* A handler sends a message, a block or a transaction; the ticker's time message.
Enqueue(c) ==
    /\ ~stopped /\ conn[c].listed /\ conn[c].open
    /\ QueueWrite(c, conn[c], num_clients)
    /\ UNCHANGED <<stopped, group>>

\* A go_away is sent: the connection is closed when it has been written.
GoAway(c, never_again) ==
    /\ ~stopped /\ conn[c].listed /\ conn[c].open /\ conn[c].leaving = "no"
    /\ QueueWrite(c, [conn[c] EXCEPT !.leaving = "queued", !.no_retry = @ \/ never_again], num_clients)
    /\ UNCHANGED <<stopped, group>>

\* The completion of async_write.
Written(c) ==
    /\ conn[c].writing /\ conn[c].open
    /\ LET r == [conn[c] EXCEPT !.writing = FALSE, !.out = 0, !.leaving = IF @ = "out" THEN "no" ELSE @]
       IN IF conn[c].leaving = "out" THEN Become(c, Closing(r), ClientsAfterClose(c, num_clients))
          ELSE Become(c, StartWriting(r), num_clients)
    /\ UNCHANGED <<stopped, group>>

WriteFails(c) ==
    /\ conn[c].writing
    /\ Become(c, Closing([conn[c] EXCEPT !.writing = FALSE, !.leaving = "no"]), ClientsAfterClose(c, num_clients))
    /\ UNCHANGED <<stopped, group>>

--------------------------------------------------------------------------------
(* Reading *)

\* start_read_message: not while the write queue is long.
StartReading(r) ==
    IF r.queue > MaxQueue THEN [r EXCEPT !.delayed = TRUE] ELSE [r EXCEPT !.reading = TRUE]

\* A handshake or a notice ends the state "connecting"; a go_away closes and is
\* not forgotten.
ReadMessage(c, msg) ==
    /\ ~stopped /\ conn[c].reading /\ conn[c].open
    /\ IF msg = "go_away"
       THEN Become(c, Closing([conn[c] EXCEPT !.reading = FALSE, !.no_retry = TRUE]), ClientsAfterClose(c, num_clients))
       ELSE Become(c, StartReading([conn[c] EXCEPT !.reading = FALSE, !.connecting = FALSE]), num_clients)
    /\ UNCHANGED <<stopped, group>>

\* A read that fails closes the connection; one that ends after the connection
\* was closed is ignored.
ReadFails(c) ==
    /\ conn[c].reading
    /\ LET r == [conn[c] EXCEPT !.reading = FALSE]
       IN IF r.open THEN Become(c, Closing(r), ClientsAfterClose(c, num_clients)) ELSE Become(c, r, num_clients)
    /\ UNCHANGED <<stopped, group>>

\* The delay ends, or was cancelled.
DelayOver(c) ==
    /\ conn[c].delayed
    /\ Become(c, StartReading([conn[c] EXCEPT !.delayed = FALSE]), num_clients)
    /\ UNCHANGED <<stopped, group>>

--------------------------------------------------------------------------------
(* Connecting *)

\* net_plugin::connect, for the peers of the configuration and from the API.
AddPeer(c) ==
    /\ ~stopped /\ c \in Peers /\ conn[c] = Unlisted
    /\ Become(c, [Unlisted EXCEPT !.listed = TRUE, !.resolving = TRUE], num_clients)
    /\ UNCHANGED <<stopped, group>>

\* The resolver's answer.
Resolved(c, found) ==
    /\ conn[c].resolving
    /\ Become(c, [conn[c] EXCEPT !.resolving = FALSE, !.connecting = found /\ ~conn[c].no_retry], num_clients)
    /\ UNCHANGED <<stopped, group>>

\* The completion of async_connect: the session starts and a handshake is sent.
Connected(c) ==
    /\ ~stopped /\ c \in Peers /\ conn[c].connecting /\ ~conn[c].open
    /\ QueueWrite(c, StartReading([conn[c] EXCEPT !.open = TRUE]), num_clients)
    /\ UNCHANGED <<stopped, group>>

ConnectFails(c) ==
    /\ c \in Peers /\ conn[c].connecting /\ ~conn[c].open
    /\ Become(c, Closing(conn[c]), num_clients)
    /\ UNCHANGED <<stopped, group>>

\* start_listen_loop.
OpenVisitors == {v \in Visitors : conn[v].listed /\ conn[v].open}
FromHost(h) == {v \in OpenVisitors : conn[v].host = h}

Accept(v, h) ==
    /\ ~stopped /\ v \in Visitors /\ conn[v] = Unlisted
    /\ Cardinality(FromHost(h)) < MaxNodesPerHost
    /\ MaxClients = 0 \/ Cardinality(OpenVisitors) < MaxClients
    /\ Become(v, StartReading([Unlisted EXCEPT !.listed = TRUE, !.open = TRUE, !.connecting = TRUE, !.host = h]),
              Cardinality(OpenVisitors) + 1)
    /\ UNCHANGED <<stopped, group>>

\* connection_monitor: a peer's connection is made again, a visitor's object is
\* dropped (its pending operations with it).
Monitor ==
    /\ ~stopped
    /\ \E c \in Conns : conn[c].listed /\ ~conn[c].open /\ ~conn[c].connecting /\ (c \in Visitors \/ ~conn[c].resolving)
    /\ conn' = [c \in Conns |->
                    IF ~conn[c].listed \/ conn[c].open \/ conn[c].connecting THEN conn[c]
                    ELSE IF c \in Visitors THEN Unlisted
                    ELSE [conn[c] EXCEPT !.resolving = ~conn[c].no_retry]]
    /\ UNCHANGED <<num_clients, stopped, group>>

\* net_plugin::disconnect.
RemovePeer(c) ==
    /\ ~stopped /\ c \in Peers /\ conn[c].listed
    /\ Become(c, Unlisted, num_clients)
    /\ UNCHANGED <<stopped, group>>

NcShutdown ==
    /\ ~stopped /\ stopped' = TRUE
    /\ conn' = [c \in Conns |-> Unlisted]
    /\ num_clients' = num_clients - Cardinality(OpenVisitors)
    /\ UNCHANGED group

NcNext ==
    \/ \E c \in group :
        \/ Enqueue(c) \/ (\E again \in BOOLEAN : GoAway(c, again)) \/ Written(c) \/ WriteFails(c)
        \/ (\E msg \in {"handshake", "go_away"} : ReadMessage(c, msg)) \/ ReadFails(c) \/ DelayOver(c)
        \/ AddPeer(c) \/ (\E found \in BOOLEAN : Resolved(c, found)) \/ Connected(c) \/ ConnectFails(c)
        \/ (\E h \in Hosts : Accept(c, h)) \/ RemovePeer(c)
    \/ Monitor \/ NcShutdown

NcSpec == NcInit /\ [][NcNext]_ncVars
--------------------------------------------------------------------------------
(* num_clients counts the visitors, which are never more than max-clients,  *)
(* and from one host never more than p2p-max-nodes-per-host: every way to    *)
(* close a connection gives its place back once.                             *)
ClientsCounted ==
    /\ num_clients = Cardinality(OpenVisitors)
    /\ MaxClients > 0 => num_clients <= MaxClients
    /\ \A h \in Hosts : Cardinality(FromHost(h)) <= MaxNodesPerHost

(* queued_buffer::ready_to_send: "if out_queue is not empty then async_write *)
(* is in progress", on a connection that is open.                            *)
OutMeansWriting == \A c \in Conns : conn[c].open /\ conn[c].out > 0 => conn[c].writing

-----------------------------------------------------------------------------
(***************************************************************************)
(* Two nodes that each connect to the other (net_plugin.cpp): handshakes   *)
(* cross on two connections, each node checks what the other says of       *)
(* itself, and one of two connections between the same nodes is given up.  *)
(*                                                                         *)
(* A connection is named after the node that made it.  Handshakes carry    *)
(* the sender's clock; what a node's other checks come to is fixed by the  *)
(* settings of a behaviour.                                                *)
(***************************************************************************)

CONSTANTS
    NodeA, NodeB,
    Skews,        \* clock differences to consider
    PeerSettings, \* what a node's checks are given: see Authenticated
    MaxTime,      \* bound on the handshakes sent
    MaxLosses     \* bound on the connections lost

Nodes == {NodeA, NodeB}
Other(n) == IF n = NodeA THEN NodeB ELSE NodeA

VARIABLES
    ends,         \* ends[c][n]: node n's end of the connection made by c
    sentOn,       \* sentOn[c][n]: what n has sent on it and the other has not read
    clock, skew, setting,
    losses

nhVars == <<ends, sentOn, clock, skew, setting, losses>>

Down == [open |-> FALSE, connecting |-> FALSE, count |-> 0, sent |-> 0, recv |-> 0, leaving |-> "no", no_retry |-> FALSE]
Drop(e) == [Down EXCEPT !.no_retry = e.no_retry]

NhInit ==
    /\ ends = [c \in Nodes |-> [n \in Nodes |-> Down]]
    /\ sentOn = [c \in Nodes |-> [n \in Nodes |-> <<>>]]
    /\ clock = 1 /\ skew \in Skews
    /\ setting \in PeerSettings
    /\ losses = 0
--------------------------------------------------------------------------------
(* The checks of a handshake *)

\* authenticate_peer, of the node's allowed-connection modes and of what the
\* handshake says: whether its key is known, its time recent, its signature
\* absent, unrecoverable, of another key, or good.
Authenticated(s) ==
    LET checked == s.allowed \cap {"producers", "specified"} # {}
    IN /\ s.allowed # {}
       /\ \/ s.allowed = {"any"}
          \/ /\ checked => s.key_known
             /\ s.recent
             /\ CASE s.signature = "none" -> ~checked
                  [] s.signature = "bad" -> FALSE
                  [] s.signature = "other_key" -> ~checked
                  [] OTHER -> TRUE

\* The reasons to refuse a first handshake that is not a duplicate's.
Refused(s) ==
    \/ ~s.same_chain
    \/ ~s.same_version /\ s.version_match
    \/ ~Authenticated(s)
    \/ s.forked

--------------------------------------------------------------------------------
(* Messages *)

\* send_handshake.
Hello(n, e) == [kind |-> "handshake", first |-> e.count = 0, time |-> clock + skew[n]]
Greeted(n, e) == [e EXCEPT !.count = 1, !.sent = clock + skew[n]]

SendOn(c, n, m) == sentOn' = [sentOn EXCEPT ![c][n] = Append(@, m), ![c][Other(n)] = Tail(@)]
ReadOn(c, n) == sentOn' = [sentOn EXCEPT ![c][Other(n)] = Tail(@)]

\* The connection is made, and its maker sends a handshake.
MakeConnection(n) ==
    /\ \A m \in Nodes : ~ends[n][m].open
    /\ ~ends[n][n].no_retry
    /\ clock < MaxTime
    /\ ends' = [ends EXCEPT ![n] = [m \in Nodes |->
                    IF m = n THEN Greeted(n, [Drop(ends[n][n]) EXCEPT !.open = TRUE, !.connecting = TRUE])
                    ELSE [Down EXCEPT !.open = TRUE, !.connecting = TRUE]]]
    /\ sentOn' = [sentOn EXCEPT ![n] = [m \in Nodes |-> IF m = n THEN <<Hello(n, Down)>> ELSE <<>>]]
    /\ clock' = clock + 1
    /\ UNCHANGED <<skew, setting, losses>>

\* sync_manager::send_handshakes.
Current(c, n) == ends[c][n].open /\ ~ends[c][n].connecting /\ ends[c][n].count > 0

SendHandshakes(n) ==
    /\ clock < MaxTime
    /\ \E c \in Nodes : Current(c, n)
    /\ ends' = [c \in Nodes |-> [ends[c] EXCEPT ![n] = IF Current(c, n) THEN Greeted(n, @) ELSE @]]
    /\ sentOn' = [c \in Nodes |-> [sentOn[c] EXCEPT ![n] = IF Current(c, n) THEN Append(@, Hello(n, ends[c][n])) ELSE @]]
    /\ clock' = clock + 1
    /\ UNCHANGED <<skew, setting, losses>>

DuplicateAlways(c, n, time) == ends[Other(c)][n].open /\ ends[Other(c)][n].recv # 0

\* The other connection is with the same node, and is kept by the sum of the
\* times of the handshakes exchanged on each.
Duplicate(c, n, time) ==
    LET e == ends[c][n]
        check == ends[Other(c)][n]
    IN /\ n # c \/ e.recv = 0
       /\ check.open /\ ~check.connecting /\ check.recv # 0
       /\ time + e.sent > check.sent + check.recv

ReceiveHandshake(c, n) ==
    /\ sentOn[c][Other(n)] # <<>> /\ ends[c][n].open
    /\ Head(sentOn[c][Other(n)]).kind = "handshake"
    /\ LET m == Head(sentOn[c][Other(n)])
           e == [ends[c][n] EXCEPT !.connecting = FALSE]
           leave(reason) == /\ ends' = [ends EXCEPT ![c][n] = [e EXCEPT !.leaving = reason,
                                                                     !.no_retry = @ \/ reason = "duplicate"]]
                            /\ SendOn(c, n, [kind |-> "go_away", reason |-> reason])
                            /\ UNCHANGED clock
       IN CASE ~setting[n].valid ->
                  /\ ends' = [ends EXCEPT ![c][n].leaving = "refused"]
                  /\ SendOn(c, n, [kind |-> "go_away", reason |-> "refused"])
                  /\ UNCHANGED clock
            [] setting[n].valid /\ m.first /\ Duplicate(c, n, m.time) -> leave("duplicate")
            [] setting[n].valid /\ m.first /\ ~Duplicate(c, n, m.time) /\ Refused(setting[n]) -> leave("refused")
            [] setting[n].valid /\ m.first /\ ~Duplicate(c, n, m.time) /\ ~Refused(setting[n]) /\ e.count = 0 ->
                  /\ clock < MaxTime
                  /\ ends' = [ends EXCEPT ![c][n] = [Greeted(n, e) EXCEPT !.recv = m.time]]
                  /\ SendOn(c, n, Hello(n, e))
                  /\ clock' = clock + 1
            [] OTHER -> /\ ends' = [ends EXCEPT ![c][n] = [e EXCEPT !.recv = m.time]]
                        /\ ReadOn(c, n)
                        /\ UNCHANGED clock
    /\ UNCHANGED <<skew, setting, losses>>

--------------------------------------------------------------------------------
(* The end of a connection *)

\* A go_away is read: the connection is not made again.
ReceiveGoAway(c, n) ==
    /\ sentOn[c][Other(n)] # <<>> /\ ends[c][n].open
    /\ Head(sentOn[c][Other(n)]).kind = "go_away"
    /\ ends' = [ends EXCEPT ![c][n] = [Drop(@) EXCEPT !.no_retry = TRUE]]
    /\ sentOn' = [sentOn EXCEPT ![c][n] = <<>>, ![c][Other(n)] = <<>>]
    /\ UNCHANGED <<clock, skew, setting, losses>>

\* The go_away has been written.
LeaveAfterSend(c, n) ==
    /\ ends[c][n].open /\ ends[c][n].leaving # "no"
    /\ ends' = [ends EXCEPT ![c][n] = Drop(@)]
    /\ UNCHANGED <<sentOn, clock, skew, setting, losses>>

\* The other end is closed and nothing is left to read.
ReadEnds(c, n) ==
    /\ ends[c][n].open /\ ~ends[c][Other(n)].open /\ sentOn[c][Other(n)] = <<>>
    /\ ends' = [ends EXCEPT ![c][n] = Drop(@)]
    /\ sentOn' = [sentOn EXCEPT ![c][n] = <<>>]
    /\ UNCHANGED <<clock, skew, setting, losses>>

LoseConnection(c) ==
    /\ losses < MaxLosses /\ ends[c][c].open
    /\ losses' = losses + 1
    /\ ends' = [ends EXCEPT ![c] = [n \in Nodes |-> Drop(ends[c][n])]]
    /\ sentOn' = [sentOn EXCEPT ![c] = [n \in Nodes |-> <<>>]]
    /\ UNCHANGED <<clock, skew, setting>>

NhNext ==
    \/ \E n \in Nodes : MakeConnection(n) \/ SendHandshakes(n) \/ LoseConnection(n)
    \/ \E c, n \in Nodes : \/ ReceiveHandshake(c, n) \/ ReceiveGoAway(c, n)
                           \/ LeaveAfterSend(c, n) \/ ReadEnds(c, n)

NhSpec == NhInit /\ [][NhNext]_nhVars
--------------------------------------------------------------------------------
LeftAsDuplicate(c) == \E n \in Nodes :
    \/ ends[c][n].leaving = "duplicate"
    \/ \E i \in 1..Len(sentOn[c][n]) : sentOn[c][n][i] = [kind |-> "go_away", reason |-> "duplicate"]

(* "we need to avoid the case where they would both tell a different          *)
(* connection to go away": whatever the clocks, the order of the messages and *)
(* the handshakes repeated, one of the two connections is kept, as long as    *)
(* neither is lost.                                                           *)
OneKept == losses = 0 => ~(LeftAsDuplicate(NodeA) /\ LeftAsDuplicate(NodeB))

-----------------------------------------------------------------------------
(***************************************************************************)
(* The flooding of transactions between nodes with the same head           *)
(* (dispatch_manager and the message handlers of net_plugin.cpp): what was *)
(* received from whom, what each peer is known to have, what is kept to be *)
(* sent to a peer that asks after a handshake.                             *)
(*                                                                         *)
(* The chain (accept_transaction) takes a transaction once, unless it has  *)
(* expired or the node refuses it for reasons of its own.  Its answer goes *)
(* to the caller at once and to the transaction_ack channel in a later     *)
(* step.                                                                   *)
(***************************************************************************)

CONSTANTS
    FloodNodes,
    Links,        \* pairs of nodes: <<who connects, to whom>>
    Trxs,
    ExpiresAt,    \* ExpiresAt[t]: when t expires
    MaxTrouble    \* bound on the connections that break, the transactions a node
                  \* refuses by itself and the time that passes, together

VARIABLES
    node,    \* node[n]: local_txns, received_transactions, what the chain has,
             \* the transactions at the chain, the acknowledgements to come
    peer,    \* peer[n][m]: n's end of the connection with m
    sending, \* sending[n][m]: the messages from n that m has not read
    now, breaks, refusals

ntVars == <<node, peer, sending, now, breaks, refusals>>

Neighbours(n) == {m \in FloodNodes : <<n, m>> \in Links \/ <<m, n>> \in Links}
Unconnected == [open |-> FALSE, connected |-> FALSE, greeted |-> FALSE, trx_state |-> {}]

NtInit ==
    /\ node = [n \in FloodNodes |-> [local_txns |-> {}, received |-> {}, known |-> {}, refused |-> {},
                                     waiting |-> <<>>, acks |-> <<>>]]
    /\ peer = [n \in FloodNodes |-> [m \in FloodNodes |-> Unconnected]]
    /\ sending = [n \in FloodNodes |-> [m \in FloodNodes |-> <<>>]]
    /\ now = 0 /\ breaks = 0 /\ refusals = 0

Trouble == now + breaks + refusals < MaxTrouble
Expired(t) == ExpiresAt[t] <= now
--------------------------------------------------------------------------------
(* dispatch_manager *)

SkipsNone(n, t) == {}

\* The connections t came from.
Skips(n, t) == {r[2] : r \in {r \in node[n].received : r[1] = t}}

Forgotten(n, t) == {r \in node[n].received : r[1] # t}

\* bcast_transaction, to the current connections that neither sent t nor were
\* sent it; node n is otherwise taken to be N.
Broadcast(n, t, N) ==
    LET new == t \notin node[n].local_txns
        to == {m \in Neighbours(n) : /\ peer[n][m].connected /\ t \notin peer[n][m].trx_state
                                     /\ m \notin Skips(n, t)}
    IN /\ node' = [node EXCEPT ![n] = [N EXCEPT !.received = Forgotten(n, t),
                                                !.local_txns = IF new THEN @ \cup {t} ELSE @]]
       /\ peer' = IF ~new THEN peer
                  ELSE [peer EXCEPT ![n] = [m \in FloodNodes |->
                            IF m \in to THEN [peer[n][m] EXCEPT !.trx_state = @ \cup {t}] ELSE peer[n][m]]]
       /\ sending' = IF ~new THEN sending
                     ELSE [sending EXCEPT ![n] = [m \in FloodNodes |->
                            IF m \in to THEN Append(sending[n][m], [kind |-> "trx", trx |-> t]) ELSE sending[n][m]]]

\* rejected_transaction.
Reject(n, t, N) ==
    /\ node' = [node EXCEPT ![n] = [N EXCEPT !.received = Forgotten(n, t)]]
    /\ UNCHANGED <<peer, sending>>

--------------------------------------------------------------------------------
(* The chain *)

\* A client of node n pushes t.
Submit(n, t) ==
    /\ \A m \in FloodNodes : t \notin node[m].known /\ t \notin node[m].refused /\ t \notin Range(node[m].waiting)
    /\ node[n].acks = <<>>
    /\ node' = [node EXCEPT ![n].waiting = Append(@, t)]
    /\ UNCHANGED <<peer, sending, now, breaks, refusals>>

\* accept_transaction answers: an exception for a transaction that is expired,
\* known or refused, and then the handler forgets it; else it is broadcast.
Answer(n, refuse) ==
    /\ node[n].waiting # <<>>
    /\ LET t == Head(node[n].waiting)
           N == [node[n] EXCEPT !.waiting = Tail(@)]
       IN \/ /\ ~refuse /\ ~Expired(t) /\ t \notin node[n].known
             /\ Broadcast(n, t, [N EXCEPT !.known = @ \cup {t}, !.acks = Append(@, [trx |-> t, good |-> TRUE])])
             /\ UNCHANGED refusals
          \/ /\ ~refuse /\ (Expired(t) \/ t \in node[n].known)
             /\ Reject(n, t, [N EXCEPT !.acks = Append(@, [trx |-> t, good |-> FALSE])])
             /\ UNCHANGED refusals
          \/ /\ refuse /\ Trouble /\ t \notin node[n].known
             /\ Reject(n, t, [N EXCEPT !.acks = Append(@, [trx |-> t, good |-> FALSE]), !.refused = @ \cup {t}])
             /\ refusals' = refusals + 1
    /\ UNCHANGED <<now, breaks>>

\* transaction_ack.
Ack(n) ==
    /\ node[n].acks # <<>>
    /\ LET a == Head(node[n].acks)
           N == [node[n] EXCEPT !.acks = Tail(@)]
       IN IF a.good THEN Broadcast(n, a.trx, N) ELSE Reject(n, a.trx, N)
    /\ UNCHANGED <<now, breaks, refusals>>

--------------------------------------------------------------------------------
(* Messages *)

\* handle_message of a packed_transaction from m.
ReceiveTransaction(n, m, msg) ==
    /\ node' = IF msg.trx \in node[n].local_txns THEN node
               ELSE [node EXCEPT ![n].received = @ \cup {<<msg.trx, m>>}, ![n].waiting = Append(@, msg.trx)]
    /\ sending' = [sending EXCEPT ![m][n] = Tail(@)]
    /\ UNCHANGED peer

\* A handshake with the same head: the first is answered, and the peer is told
\* how many transactions are kept.
ReceiveGreeting(n, m) ==
    LET note == [kind |-> "notice", pending |-> Cardinality(node[n].local_txns)]
        answer == IF peer[n][m].greeted THEN <<>> ELSE <<[kind |-> "handshake"]>>
    IN /\ peer' = [peer EXCEPT ![n][m].connected = TRUE, ![n][m].greeted = TRUE]
       /\ sending' = [sending EXCEPT ![m][n] = Tail(@), ![n][m] = @ \o answer \o <<note>>]
       /\ UNCHANGED node

ReceiveNoticeSilently(n, m, msg) ==
    /\ peer' = [peer EXCEPT ![n][m].connected = TRUE]
    /\ sending' = [sending EXCEPT ![m][n] = Tail(@)]
    /\ UNCHANGED node

\* A catch_up notice: all that is not kept here is asked for.
ReceiveNotice(n, m, msg) ==
    LET request == [kind |-> "request", ids |-> node[n].local_txns]
    IN /\ peer' = [peer EXCEPT ![n][m].connected = TRUE]
       /\ sending' = [sending EXCEPT ![m][n] = Tail(@),
                                     ![n][m] = IF msg.pending > 0 THEN Append(@, request) ELSE @]
       /\ UNCHANGED node

\* txn_send_pending, after expire_local_txns.
Kept(n) == {t \in node[n].local_txns : ~Expired(t)}

ReceiveRequest(n, m, msg) ==
    LET trxs == SetToSeq(Kept(n) \ msg.ids)
    IN /\ node' = [node EXCEPT ![n].local_txns = Kept(n)]
       /\ sending' = [sending EXCEPT ![m][n] = Tail(@),
                                     ![n][m] = @ \o [i \in 1..Len(trxs) |-> [kind |-> "trx", trx |-> trxs[i]]]]
       /\ UNCHANGED peer

Receive(n, m) ==
    /\ sending[m][n] # <<>>
    /\ LET msg == Head(sending[m][n])
       IN CASE msg.kind = "trx" -> ReceiveTransaction(n, m, msg)
            [] msg.kind = "handshake" -> ReceiveGreeting(n, m)
            [] msg.kind = "notice" -> ReceiveNotice(n, m, msg)
            [] msg.kind = "request" -> ReceiveRequest(n, m, msg)
    /\ UNCHANGED <<now, breaks, refusals>>

--------------------------------------------------------------------------------
(* Connections and time *)

\* The connector's handshake is on its way.
OpenLink(n, m) ==
    /\ <<n, m>> \in Links /\ ~peer[n][m].open
    /\ peer' = [peer EXCEPT ![n][m] = [Unconnected EXCEPT !.open = TRUE, !.greeted = TRUE],
                            ![m][n] = [Unconnected EXCEPT !.open = TRUE]]
    /\ sending' = [sending EXCEPT ![n][m] = <<[kind |-> "handshake"]>>]
    /\ UNCHANGED <<node, now, breaks, refusals>>

\* Both ends close; what was on its way is lost, and what came from the
\* connection keeps its place in received_transactions.
BreakLink(n, m) ==
    /\ <<n, m>> \in Links /\ peer[n][m].open /\ Trouble
    /\ breaks' = breaks + 1
    /\ peer' = [peer EXCEPT ![n][m] = Unconnected, ![m][n] = Unconnected]
    /\ sending' = [sending EXCEPT ![n][m] = <<>>, ![m][n] = <<>>]
    /\ UNCHANGED <<node, now, refusals>>

\* expire_txns, by the node's timer.
ExpireTxns(n) ==
    /\ \/ Kept(n) # node[n].local_txns
       \/ \E m \in FloodNodes : \E t \in peer[n][m].trx_state : Expired(t)
    /\ node' = [node EXCEPT ![n].local_txns = Kept(n)]
    /\ peer' = [peer EXCEPT ![n] = [m \in FloodNodes |->
                    [peer[n][m] EXCEPT !.trx_state = {t \in @ : ~Expired(t)}]]]
    /\ UNCHANGED <<sending, now, breaks, refusals>>

TimePasses ==
    /\ Trouble
    /\ now' = now + 1
    /\ UNCHANGED <<node, peer, sending, breaks, refusals>>

NtNext ==
    \/ \E n \in FloodNodes :
        \/ \E t \in Trxs : Submit(n, t)
        \/ \E refuse \in BOOLEAN : Answer(n, refuse)
        \/ Ack(n) \/ ExpireTxns(n)
        \/ \E m \in Neighbours(n) : Receive(n, m) \/ OpenLink(n, m) \/ BreakLink(n, m)
    \/ TimePasses

NtSpec == NtInit /\ [][NtNext]_ntVars
--------------------------------------------------------------------------------
Quiet == \A n \in FloodNodes :
    /\ node[n].waiting = <<>> /\ node[n].acks = <<>>
    /\ \A m \in FloodNodes : sending[n][m] = <<>>
    /\ \A m \in Neighbours(n) : peer[n][m].connected

(* Once every message is read and every connection is up, a transaction that *)
(* a node keeps is kept by each of its neighbours that did not refuse it,    *)
(* whatever connections broke meanwhile: what was lost with a connection is  *)
(* asked for after the next handshake.                                       *)
Flooded ==
    Quiet => \A n \in FloodNodes : \A t \in node[n].local_txns : \A m \in Neighbours(n) :
                 ~Expired(t) => t \in node[m].local_txns \cup node[m].refused
=============================================================================
