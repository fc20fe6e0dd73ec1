--------------------------- MODULE MCProducerNetwork ---------------------------
(***************************************************************************)
(* The producers, as a network that grows a tree of blocks and as the loop *)
(* of one node that decides when to build a block.  The two are separate   *)
(* models: while the loop is checked the network stays at its beginning.   *)
(*                                                                         *)
(* Networks of the producers a, b, c and d.  The first blocks are those of *)
(* a chain whose system account proposes a schedule in block 2; block 3    *)
(* announces it and block 4 makes it active.                               *)
(***************************************************************************)
EXTENDS ProducerNetwork, MCComponents, TLC

CONSTANT LoopSettings

\* Slots 2 and 3 of every six are those of b, the producer of the node.  Blocks go
\* out one tick before their slot, the last of a round two.
Loop == INSTANCE ProductionLoop WITH
          Interval <- 3, MinSleep <- 2, HeadAge <- 7, Future <- 4,
          Offset <- [last \in BOOLEAN |-> IF last THEN 0 - 2 ELSE 0 - 1],
          Repetitions <- 2, Schedule <- <<"a", "b", "c">>,
          Ours <- {"b"}, Keyless <- {}, Settings <- LoopSettings,
          setting <- v1, now <- v2, head <- v3, lib <- v4, pend <- v5, mode <- v6,
          timer <- v7, queue <- v8, enabled <- v9, paused <- v10, maxAge <- v11,
          watermark <- v12, toActivate <- v13, signaled <- v14, active <- v15, pc <- v16

Install(producers) == <<<<1, producers>>, <<2, NoCall>>, <<3, NoCall>>>>

\* Nodes with one producer of their own name each.
OneEach(nodes) == [n \in nodes |-> {n}]

Network(produces, schedules, first, slots, r) ==
    [produces |-> produces, schedules |-> schedules, first |-> first,
     slots |-> slots, restarts |-> r]

\* Three producers on as many nodes.
Three == Network(OneEach({"a", "b", "c"}), {}, Install(<<"a", "b", "c">>), 10, 0)
\* Two, one of which restarts once.
Restarting == Network(OneEach({"a", "b"}), {}, Install(<<"a", "b">>), 10, 1)
\* Two, whose schedule is turned round or shrinks.
Changing ==
    Network(OneEach({"a", "b"}), {<<"b", "a">>, <<"a">>}, Install(<<"a", "b">>), 10, 0)
\* One node that produces for everybody, from the genesis block on.
FromGenesis ==
    Network("x" :> {"eosio", "a", "b"}, {<<"a">>, <<"a", "b">>}, <<>>, 8, 0)

\* A network in which no time passes.
Still == Network("x" :> {"eosio"}, {}, <<>>, 0, 0)

PassingNetworks == {Three, Restarting, Changing, FromGenesis, Still}
StillNetworks == {Still}

\* All the slots of a round, with an age limit and failing signatures.
RoundSetting == [ages |-> {0 - 1, 6}, features |-> {}, signingFails |-> TRUE,
                 maxNow |-> 14, maxNum |-> 3]
\* Features are scheduled, up to the first slot of b.
FeatureSetting == [ages |-> {0 - 1}, features |-> {"f", "g"},
                   signingFails |-> TRUE, maxNow |-> 8, maxNum |-> 2]
PassingSettings == {RoundSetting, FeatureSetting}
FeatureSettings == {FeatureSetting}

-----------------------------------------------------------------------------

ProducersInit ==
    /\ Init
    /\ \/ component = "network" /\ v1 = 0 /\ Off2
       \/ component = "loop" /\ network = Still /\ Loop!Init

\* The network may stop, when time does; the loop may not.
ProducersNext ==
    \/ component = "network" /\ (Next \/ UNCHANGED vars) /\ UNCHANGED shared
    \/ component = "loop" /\ Loop!Next /\ UNCHANGED component /\ UNCHANGED vars

ProducersSpec == ProducersInit /\ [][ProducersNext]_<<vars, shared>>

-----------------------------------------------------------------------------

\* An idle node whose turn it is builds its block, for a slot after the head's, with
\* at most one timer that still counts, and the slots it waits for are the right ones
\* (see ProductionLoop).
LoopSound == component = "loop" => Loop!LoopSound

\* Handlers ship the block they were set for and keep the scheduled features unless a
\* signature fails (see ProductionLoop).
HandlersSound == [][component = "loop" => Loop!HandlersSound]_shared

\* A feature that was scheduled for activation stays scheduled until it is active or
\* another call replaces the list, as start_block's comment says of every pending block
\* that is aborted (see ProductionLoop).
FeaturesKept == [][component = "loop" => Loop!KeepsFeatures]_shared
================================================================================
