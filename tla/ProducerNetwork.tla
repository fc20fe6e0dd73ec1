--------------------------- MODULE ProducerNetwork ---------------------------
(* Block headers: how the state of one block follows from the previous one's; *)
(* and the network of producers that builds on it.                            *)
EXTENDS Integers, Sequences, Functions, FiniteSets, FiniteSetsExt

-----------------------------------------------------------------------------
(***************************************************************************)
(* block_header_state (libraries/chain/block_header_state.cpp): the pure   *)
(* computation of one header state from its predecessor.  It decides who   *)
(* may produce a block, what the block confirms, which block has become    *)
(* irreversible (DPOS), and when a producer schedule takes effect.         *)
(*                                                                         *)
(* A timestamp is its slot number.  The block id, the block merkle tree    *)
(* and the signing keys carry no information that these rules look at and  *)
(* are left out.  proposed_schedule (with 0 for no proposal) is the field  *)
(* of global_property_object in the state after this block.                *)
(***************************************************************************)

CONSTANTS
    Repetitions,   \* config::producer_repetitions
    SystemAccount, \* config::system_account_name
    NoCall,        \* a block that proposes no schedule
    MaxTracked     \* config::maximum_tracked_dpos_confirmations

ASSUME HeaderAssumption == Repetitions \in Nat \ {0} /\ MaxTracked \in Nat \ {0}

\* config::max_producers: the intrinsic set_proposed_producers refuses more.
MaxProducers == 125

\* A map with one entry set.
Put(f, key, value) == [k \in DOMAIN f \cup {key} |-> IF k = key THEN value ELSE f[k]]

\* global_property_object without a proposed schedule.
NoProposal == [num |-> 0, version |-> 0, producers |-> <<>>]

\* get_scheduled_producer
ScheduledProducer(s, slot) ==
    LET producers == s.active_schedule.producers
    IN  producers[1 + (slot % (Len(producers) * Repetitions)) \div Repetitions]

\* The position, from the low end and counted from 0, of the number that two
\* thirds of n numbers are not below.
ThirdOf(n) == (n - 1) \div 3

\* calc_dpos_last_irreversible: the number found one third into the sorted
\* list of what the producers last implied to be irreversible, with the
\* producer of the next block counted as implying the present proposal.
CalcDposLastIrreversible(s, producer) ==
    LET implied == [p \in DOMAIN s.implied_irb |->
                       IF p = producer THEN s.dpos_proposed ELSE s.implied_irb[p]]
        Below(v) == Cardinality({p \in DOMAIN implied : implied[p] < v})
        UpTo(v) == Cardinality({p \in DOMAIN implied : implied[p] =< v})
        index == ThirdOf(Cardinality(DOMAIN implied))
    IN  IF DOMAIN implied = {} THEN 0
        ELSE CHOOSE v \in Range(implied) : Below(v) =< index /\ index < UpTo(v)

\* The assertions of next( when, confirm ).  (The default timestamp, which
\* stands for the next slot, is never passed.)
NextAllowed(s, when, confirm) ==
    LET producer == ScheduledProducer(s, when)
    IN  /\ when > s.timestamp
        /\ producer \in DOMAIN s.last_produced =>
               s.last_produced[producer] < s.block_num + 1 - confirm

\* Mutant of RequiredConfs: more than a third instead of two thirds.
RequiredThird(s) == Len(s.active_schedule.producers) \div 3 + 1

RequiredConfs(s) == (Len(s.active_schedule.producers) * 2) \div 3 + 1

\* The confirmations each tracked block still needs, the new block last, when
\* the table has been shifted to make room.
Tracked(s) ==
    Append(IF Len(s.confirm_count) < MaxTracked THEN s.confirm_count
                                                ELSE Tail(s.confirm_count),
           RequiredConfs(s))

\* The new block confirms itself and the confirm blocks before it, from the
\* newest to the oldest.  The first of them that needs no more becomes the
\* proposed irreversible block; it and all older ones are no longer tracked.
Confirm(s, confirm) ==
    LET table == Tracked(s)
        size == Len(table)
        reached == Max({1, size - confirm})..size
        done == {i \in reached : table[i] = 1}
    IN  IF done = {}
        THEN [count |-> [i \in 1..size |-> IF i \in reached THEN table[i] - 1 ELSE table[i]],
              proposed |-> s.dpos_proposed]
        ELSE [count |-> [i \in 1..(size - Max(done)) |-> table[Max(done) + i] - 1],
              proposed |-> s.block_num + 1 - (size - Max(done))]

\* A pending schedule takes effect with the block that makes the block it was
\* announced in irreversible.
IsPromoted(s, irreversible) ==
    /\ s.pending_schedule.producers # <<>>
    /\ irreversible >= s.pending_schedule.lib

\* What is kept about each producer of a schedule that takes effect: what was
\* known, or a default for a producer that is new.
Carried(known, producers, default) ==
    [p \in Range(producers) |-> IF p \in DOMAIN known THEN known[p] ELSE default]

\* next( when, confirm ): the pending header state.  producer_to_last_produced
\* gets an entry for the producer of this block even if the schedule that
\* takes effect does not contain it; producer_to_last_implied_irb does not.
NextHeader(s, when, confirm) ==
    LET producer == ScheduledProducer(s, when)
        confirmation == Confirm(s, confirm)
        irreversible == CalcDposLastIrreversible(s, producer)
        promoted == IsPromoted(s, irreversible)
        active == IF promoted THEN [version |-> s.pending_schedule.version,
                                    producers |-> s.pending_schedule.producers]
                              ELSE s.active_schedule
        last == IF promoted THEN Carried(s.last_produced, active.producers, irreversible)
                            ELSE s.last_produced
        implied == IF promoted THEN Carried(s.implied_irb, active.producers, irreversible)
                               ELSE s.implied_irb
    IN  [block_num |-> s.block_num + 1,
         timestamp |-> when,
         producer |-> producer,
         confirmed |-> confirm,
         dpos_proposed |-> confirmation.proposed,
         dpos_irreversible |-> irreversible,
         confirm_count |-> confirmation.count,
         active_schedule |-> active,
         last_produced |-> Put(last, producer, s.block_num + 1),
         implied_irb |-> IF promoted /\ producer \notin Range(active.producers)
                         THEN implied
                         ELSE Put(implied, producer, s.dpos_proposed),
         prev_active_version |-> s.active_schedule.version,
         prev_pending |-> s.pending_schedule,
         was_pending_promoted |-> promoted,
         proposed_schedule |-> s.proposed_schedule]

\* The schedule that start_block announces in the header: a proposal whose
\* block is irreversible, if no other announced schedule is waiting.
AnnouncesProposal(p) ==
    /\ p.proposed_schedule.num \in 1..p.dpos_irreversible
    /\ p.prev_pending.producers = <<>>

\* The assertions on the version of an announced schedule, in start_block and
\* in _finish_next, and the other two of _finish_next about it.
AnnouncementAllowed(p) ==
    /\ p.proposed_schedule.version = p.prev_active_version + 1
    /\ p.proposed_schedule.version = p.active_schedule.version + 1
    /\ ~p.was_pending_promoted
    /\ p.prev_pending.producers = <<>>

\* start_block's changes to global_property_object.
StartState(p) ==
    IF AnnouncesProposal(p) THEN [p EXCEPT !.proposed_schedule = NoProposal] ELSE p

\* _finish_next: the pending schedule after the block.
FinishNext(p) ==
    IF AnnouncesProposal(p)
    THEN [lib |-> p.block_num, version |-> p.proposed_schedule.version,
          producers |-> p.proposed_schedule.producers]
    ELSE IF p.was_pending_promoted THEN [p.prev_pending EXCEPT !.producers = <<>>]
                                   ELSE p.prev_pending

\* What controller::pending_producers returns while the block is being built.
PendingWhileBuilding(p) ==
    IF AnnouncesProposal(p) THEN FinishNext(p) ELSE p.prev_pending

\* Mutant of Followed: an announced schedule is not taken into account.
FollowedActive(p) == p.active_schedule

\* set_proposed_producers, called by a transaction of the block: the schedule
\* it follows, and the proposal it leaves.  A call that returns -1 changes
\* nothing.
Followed(p) ==
    IF PendingWhileBuilding(p).producers = <<>> THEN p.active_schedule
                                                ELSE PendingWhileBuilding(p)

Proposes(p, producers) ==
    LET proposed == StartState(p).proposed_schedule
    IN  /\ proposed.num # 0 => proposed.num = p.block_num /\ proposed.producers # producers
        /\ producers # Followed(p).producers

SetProposedProducers(p, producers) ==
    [num |-> p.block_num, version |-> Followed(p).version + 1, producers |-> producers]

\* The header state of the complete block that has pending header state p:
\* start_block, at most one call that proposes a schedule (NoCall for none),
\* finalize_block.
NextBlock(p, call) ==
    [block_num |-> p.block_num,
     timestamp |-> p.timestamp,
     producer |-> p.producer,
     confirmed |-> p.confirmed,
     dpos_proposed |-> p.dpos_proposed,
     dpos_irreversible |-> p.dpos_irreversible,
     confirm_count |-> p.confirm_count,
     active_schedule |-> p.active_schedule,
     last_produced |-> p.last_produced,
     implied_irb |-> p.implied_irb,
     pending_schedule |-> FinishNext(p),
     proposed_schedule |->
         IF call # NoCall /\ Proposes(p, call) THEN SetProposedProducers(p, call)
                                               ELSE StartState(p).proposed_schedule]

\* The header state of the genesis block: its only producer is the system
\* account, whose schedule is both active and pending.
GenesisState ==
    [block_num |-> 1,
     timestamp |-> 0,
     producer |-> SystemAccount,
     confirmed |-> 1,
     dpos_proposed |-> 0,
     dpos_irreversible |-> 0,
     confirm_count |-> <<>>,
     active_schedule |-> [version |-> 0, producers |-> <<SystemAccount>>],
     last_produced |-> <<>>,
     implied_irb |-> <<>>,
     pending_schedule |-> [lib |-> 0, version |-> 0, producers |-> <<SystemAccount>>],
     proposed_schedule |-> NoProposal]

\* first_preferred of fork_database.cpp on header states.
Preferred(a, b) ==
    \/ a.dpos_irreversible > b.dpos_irreversible
    \/ a.dpos_irreversible = b.dpos_irreversible /\ a.block_num > b.block_num

-----------------------------------------------------------------------------
(***************************************************************************)
(* Nodes that produce blocks on the branch they prefer (producer_plugin)   *)
(* and exchange them in any order and with any delay.  The rules that keep *)
(* a producer from confirming two branches, its watermarks, are here; the  *)
(* header arithmetic is in the first part.                                 *)
(*                                                                         *)
(* A block is known by its id: the sequence of (slot, confirmed, proposal) *)
(* of the headers on the way to it from the genesis block.  A node's fork  *)
(* database is represented by its head alone: module ForkDatabase shows    *)
(* that the head only ever moves to a strictly preferred block, and a      *)
(* block can be linked only if it descends from the node's root.           *)
(***************************************************************************)

CONSTANTS
    Networks,      \* the networks that are looked at
    ConfirmRange   \* 2^16: the values of blocks_to_confirm

\* The producer lists that a network proposes.
Proposable(net) ==
    (net.schedules \cup {net.first[i][2] : i \in 1..Len(net.first)}) \ {NoCall}

\* They are neither empty nor too long.
ASSUME NetworkAssumption ==
    /\ ConfirmRange \in Nat \ {0}
    /\ \A net \in Networks :
           /\ IsFiniteSet(DOMAIN net.produces)
           /\ Len(net.first) \in Nat
           /\ \A list \in Proposable(net) :
                  DOMAIN list = 1..Len(list) /\ Len(list) \in 1..MaxProducers

VARIABLES
    network,     \* the network of this behaviour, which never changes
    tree,        \* id -> header state, for every block that was ever produced
    head,        \* head[n]: the id of the controller's head block
    memory,      \* memory[n]: what node n's producer plugin remembers
    now,         \* the slot for which a block may be produced at present
    restarts     \* how many restarts have happened

vars == <<network, tree, head, memory, now, restarts>>

\* What makes a network: its nodes, the producer names each is configured with,
\* the producer lists that transactions propose, the slots and proposals of the
\* chain every node starts with, and two bounds: the last slot and how often
\* nodes restart.
Node == DOMAIN network.produces
Produces == network.produces
Schedules == network.schedules
FirstBlocks == network.first
MaxSlot == network.slots
MaxRestarts == network.restarts

-----------------------------------------------------------------------------

\* The id of the block numbered num on the branch that ends with id.
AncestorAt(id, num) == SubSeq(id, 1, num - 1)

\* The block a is b or one of its predecessors.
OnBranchOf(a, b) == Len(a) =< Len(b) /\ SubSeq(b, 1, Len(a)) = a

\* The last block that a node whose head is id has made irreversible.
RootOf(id) == AncestorAt(id, Max({1, tree[id].dpos_irreversible}))

\* The memory of a producer plugin that starts at the given slot:
\* _producer_watermarks (0 for a producer without an entry),
\* _last_signed_block_num, _last_signed_block_time and _start_time.
Fresh(n, slot) ==
    [watermark |-> [p \in Produces[n] |-> 0], num |-> 0, time |-> 0, start |-> slot]

\* The producers of the node that become active with the block after s.
Installed(n, s) ==
    LET next == NextHeader(s, s.timestamp + 1, 0)
    IN  IF next.active_schedule.version = s.active_schedule.version THEN {}
        ELSE (Produces[n] \cap Range(next.active_schedule.producers))
                \ Range(s.active_schedule.producers)

\* The producers of the node that sign a confirmation of block s.
Confirming(n, s) ==
    (Produces[n] \cap Range(s.active_schedule.producers)) \ {s.producer}

\* on_block: the node's memory m after block s has been accepted.
OnBlock(n, m, s) ==
    IF s.timestamp =< m.time \/ s.timestamp =< m.start \/ s.block_num =< m.num
    THEN m
    ELSE [watermark |-> [p \in Produces[n] |->
                            IF p \in Installed(n, s) THEN s.block_num ELSE m.watermark[p]],
          num |-> IF Confirming(n, s) # {} THEN s.block_num ELSE m.num,
          time |-> IF Confirming(n, s) # {} THEN s.timestamp ELSE m.time,
          start |-> m.start]

\* The memory after several blocks have been accepted, one after the other.
OnBlocks(n, m, blocks) ==
    LET after[i \in 0..Len(blocks)] ==
            IF i = 0 THEN m ELSE OnBlock(n, after[i - 1], blocks[i])
    IN  after[Len(blocks)]

\* start_block's conditions for producing: the slot is ours and the watermark
\* does not exclude us.
MayProduce(n) ==
    LET h == tree[head[n]]
        producer == ScheduledProducer(h, now)
    IN  /\ now > h.timestamp
        /\ producer \in Produces[n]
        /\ memory[n].watermark[producer] < h.block_num + 1

\* start_block's choice of blocks_to_confirm on head state h.  The distance is
\* cast to 16 bits before it is compared with their maximum, so it wraps.
BlocksToConfirm(h, watermark) ==
    IF watermark # 0 /\ watermark < h.block_num
    THEN (h.block_num - watermark) % ConfirmRange ELSE 0

\* The pending header state of the block that node n would produce now.
Pending(n) ==
    LET h == tree[head[n]]
        producer == ScheduledProducer(h, now)
    IN  NextHeader(h, now, BlocksToConfirm(h, memory[n].watermark[producer]))

\* produce_block's last step.
SetWatermark(m, s) == [m EXCEPT !.watermark[s.producer] = s.block_num]

\* produce_block: the block is built on the head, committed, announced to
\* on_block and then sets the watermark.  start_block throws if the header is
\* not allowed, and commit_block unless the block becomes the head of the fork
\* database.
ProduceBlock(n, call) ==
    /\ MayProduce(n)
    /\ \E p \in {Pending(n)} : \E s \in {NextBlock(p, call)} :
           LET id == Append(head[n], <<now, s.confirmed, call>>)
           IN  /\ call = NoCall \/ Proposes(p, call)
               /\ AnnouncesProposal(p) => AnnouncementAllowed(p)
               /\ NextAllowed(tree[head[n]], now, s.confirmed)
               /\ Preferred(s, tree[head[n]])
               /\ tree' = Put(tree, id, s)
               /\ head' = [head EXCEPT ![n] = id]
               /\ memory' = [memory EXCEPT ![n] = SetWatermark(OnBlock(n, @, s), s)]
    /\ UNCHANGED <<network, now, restarts>>

\* A node has received a branch it prefers and switches to it: its blocks are
\* applied, and announced to on_block, from the fork on.
Receive(n, id) ==
    LET common == Max({i \in 0..Len(id) : OnBranchOf(SubSeq(id, 1, i), head[n])})
        applied == [i \in 1..(Len(id) - common) |-> tree[SubSeq(id, 1, common + i)]]
    IN  /\ Preferred(tree[id], tree[head[n]])
        /\ OnBranchOf(RootOf(head[n]), id)
        /\ head' = [head EXCEPT ![n] = id]
        /\ memory' = [memory EXCEPT ![n] = OnBlocks(n, @, applied)]
        /\ UNCHANGED <<network, tree, now, restarts>>

\* Time passes.
Tick ==
    /\ now < MaxSlot
    /\ now' = now + 1
    /\ UNCHANGED <<network, tree, head, memory, restarts>>

\* A node stops or dies and starts again: the chain is kept, the memory of
\* the producer plugin is not.
Restart(n) ==
    /\ restarts < MaxRestarts
    /\ restarts' = restarts + 1
    /\ memory' = [memory EXCEPT ![n] = Fresh(n, now)]
    /\ UNCHANGED <<network, tree, head, now>>

-----------------------------------------------------------------------------

\* The chain starts with the blocks of FirstBlocks, which all nodes, running,
\* receive in turn.
Begun == Cardinality(DOMAIN tree) > Len(FirstBlocks)

FirstBlock(id, slot, call) ==
    LET producer == ScheduledProducer(tree[id], slot)
        makers == {n \in Node : producer \in Produces[n]}
        watermark == Max({0} \cup {memory[n].watermark[producer] : n \in makers})
    IN  \E p \in {NextHeader(tree[id], slot, BlocksToConfirm(tree[id], watermark))} :
        \E s \in {NextBlock(p, call)} :
            LET next == Append(id, <<slot, s.confirmed, call>>)
            IN  /\ tree' = Put(tree, next, s)
                /\ head' = [n \in Node |-> next]
                /\ memory' = [n \in Node |->
                                 IF n \in makers THEN SetWatermark(OnBlock(n, memory[n], s), s)
                                                 ELSE OnBlock(n, memory[n], s)]
                /\ now' = slot
                /\ UNCHANGED <<network, restarts>>

Init ==
    /\ network \in Networks
    /\ tree = [id \in {<<>>} |-> GenesisState]
    /\ head = [n \in Node |-> <<>>]
    /\ memory = [n \in Node |-> Fresh(n, 0)]
    /\ now = 0
    /\ restarts = 0

Next ==
    \/ /\ ~Begun
       /\ LET first == FirstBlocks[Cardinality(DOMAIN tree)]
          IN  \E id \in Range(head) : FirstBlock(id, first[1], first[2])
    \/ Begun /\ \E n \in Node, call \in Schedules \cup {NoCall} : ProduceBlock(n, call)
    \/ Begun /\ \E n \in Node, id \in DOMAIN tree : Receive(n, id)
    \/ Begun /\ Tick
    \/ Begun /\ \E n \in Node : Restart(n)

Spec == Init /\ [][Next]_vars

-----------------------------------------------------------------------------
(***************************************************************************)
(* A block is the head of its producer in the state after it is produced,  *)
(* so what holds of every head in every state holds of every block.        *)
(***************************************************************************)

\* The counters of a header state stay in range: a block is irreversible only
\* below the block that says so, and no confirmation counter, an unsigned byte
\* that each confirmation decrements, is ever left at zero.
CountersInRange ==
    \A id \in Range(head) :
        LET s == tree[id]
        IN  /\ s.dpos_irreversible =< s.dpos_proposed /\ s.dpos_irreversible < s.block_num
            /\ s.dpos_proposed =< s.block_num
            /\ Len(s.confirm_count) =< MaxTracked
            /\ \A i \in DOMAIN s.confirm_count : s.confirm_count[i] \in 1..255

\* No two blocks, on whatever branches, propose different blocks to be made
\* irreversible: of the two that they propose one descends from the other.  A
\* block makes irreversible only what it or a predecessor proposed, so no two
\* nodes ever hold different blocks to be irreversible.
BranchesAgree ==
    \A x \in Range(head), y \in DOMAIN tree :
        LET a == AncestorAt(x, tree[x].dpos_proposed)
            b == AncestorAt(y, tree[y].dpos_proposed)
        IN  OnBranchOf(a, b) \/ OnBranchOf(b, a)

\* The numbers of the blocks that a block confirms, itself included.
ConfirmedBy(s) == (s.block_num - s.confirmed)..s.block_num

\* No producer ever confirms two different blocks with the same number, on
\* whatever branches its blocks are ("make sure we don't double sign").  The
\* watermarks that ensure it are in memory, so a restart takes the promise away.
ConfirmOnce ==
    restarts = 0 => \A a \in Range(head), b \in DOMAIN tree :
        tree[a].producer = tree[b].producer /\ a # b /\ a # <<>> /\ b # <<>> =>
            \A num \in ConfirmedBy(tree[a]) \cap ConfirmedBy(tree[b]) :
                AncestorAt(a, num) = AncestorAt(b, num)

\* Producers do not contradict themselves or each other (BranchesAgree and ConfirmOnce).
ProducersAgree == BranchesAgree /\ ConfirmOnce

\* A schedule that start_block takes from the state and announces always has
\* the version that start_block and _finish_next assert, so a chain can not
\* come to a block after which no block can be started.
AnnouncementsValid ==
    \A id \in Range(head) :
        \A next \in {NextHeader(tree[id], tree[id].timestamp + 1, 0)} :
            AnnouncesProposal(next) => AnnouncementAllowed(next)

\* The counters of every block stay in range and every block can be followed by another
\* (CountersInRange and AnnouncementsValid).
HeadersSound == CountersInRange /\ AnnouncementsValid
================================================================================
