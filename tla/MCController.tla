------------------------------ MODULE MCController ------------------------------
(***************************************************************************)
(* The controller and the snapshots taken of it, over the trees of         *)
(* MCBlockTree, and the worlds of its runs.                                *)
(***************************************************************************)
EXTENDS MCBlockTree, Controller

CONSTANT BadDigits

\* A block does not execute if the last digit of its number is a bad one.
BadTable == {b \in BlockTable : b % MCBase \in BadDigits}
MCBad == BadTable

World(e, m, blocks, restarts) ==
    [events |-> e, modes |-> m, room |-> blocks, starts |-> restarts, fair |-> FALSE]
FairWorld(e, m, blocks, restarts) ==
    [World(e, m, blocks, restarts) EXCEPT !.fair = TRUE]

\* The process dies at any step and is replayed, the replay being interrupted
\* or not.
CrashWorld == World({"bad", "crash", "quit"}, {"head"}, 4, 2)
\* Orderly restarts that change the read mode, or ask for a replay while the
\* fork database is kept.
ModesWorld == World({"shutdown", "replay"}, {"head", "irreversible"}, 3, 2)
\* Irreversible mode only, with everything that may happen there.
IrreversibleWorld ==
    World({"bad", "shutdown", "crash", "replay", "quit"}, {"irreversible"}, 4, 2)
\* The block log throws.
AppendWorld == World({"append", "crash"}, {"head", "irreversible"}, 3, 2)
SnapshotWorld == World({"append", "snapshot"}, {"head", "irreversible"}, 4, 0)

\* Smaller worlds in which handlers are followed to their end.
FairWorlds ==
    {FairWorld({"bad", "crash", "quit"}, {"head"}, 3, 1),
     FairWorld({"bad", "append"}, {"head", "irreversible"}, 3, 0),
     FairWorld({"bad"}, {"irreversible"}, 4, 0),
     FairWorld({"shutdown", "replay"}, {"head", "irreversible"}, 2, 1)}

\* Left out: blocks that fail together with orderly restarts in other modes than
\* irreversible mode (see TieWorlds, where init then throws), and snapshots together
\* with restarts.
PassingWorlds ==
    {CrashWorld, ModesWorld, IrreversibleWorld, AppendWorld, SnapshotWorld} \cup FairWorlds
TieWorlds == {World({"bad", "shutdown"}, {"head"}, 3, 1)}
================================================================================
