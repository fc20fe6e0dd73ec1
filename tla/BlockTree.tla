------------------------------- MODULE BlockTree -------------------------------
(***************************************************************************)
(* The blocks a node may ever see, as a fixed tree.  A block is known by   *)
(* its id alone; the four header fields that the fork database and the     *)
(* controller look at are constant functions of the id:                    *)
(*                                                                         *)
(*   Prev[b]  header.previous                                              *)
(*   Num[b]   block_num                                                    *)
(*   Lib[b]   dpos_irreversible_blocknum, computed by block_header_state   *)
(*   Rank[b]  the 256-bit id read as a number (sha256_less compares it)    *)
(*                                                                         *)
(* Everything else in a block is data that none of this code branches on.  *)
(***************************************************************************)
EXTENDS Naturals, FiniteSets

CONSTANTS Block, Genesis, NoBlock, Prev, Num, Lib, Rank

\* The genesis block's header.previous is the id of no block.
ASSUME GenesisAssumption ==
    Genesis \in Block /\ NoBlock \notin Block /\ Prev[Genesis] = NoBlock

ASSUME FieldAssumption ==
    /\ Prev \in [Block -> Block \cup {NoBlock}]
    /\ \A b \in Block \ {Genesis} : Prev[b] \in Block
    /\ Num \in [Block -> Nat]
    /\ Lib \in [Block -> Nat]
    /\ Rank \in [Block -> Nat]

\* block_header_state::next numbers a block one above its predecessor.
ASSUME NumAssumption ==
    \A b \in Block \ {Genesis} : Num[b] = Num[Prev[b]] + 1

\* A block's DPOS irreversible number is the number of a block below it.  It may
\* fall below its predecessor's where another schedule takes effect: the producers
\* that stay keep what they last implied (calc_dpos_last_irreversible).
ASSUME LibAssumption ==
    \A b \in Block \ {Genesis} : Lib[b] < Num[b]

\* Ids are hashes: no two blocks have the same one.
ASSUME RankAssumption ==
    \A a, b \in Block : Rank[a] = Rank[b] => a = b

\* bool first_preferred( lhs, rhs ): lexicographic on (lib, block number).
first_preferred(a, b) ==
    \/ Lib[a] > Lib[b]
    \/ Lib[a] = Lib[b] /\ Num[a] > Num[b]

\* One block sorts before another among blocks with the same validated flag:
\* the composite key of by_lib_block_num, with the smaller id breaking ties.
SortsBefore(a, b) ==
    \/ first_preferred(a, b)
    \/ Lib[a] = Lib[b] /\ Num[a] = Num[b] /\ Rank[a] < Rank[b]

\* The first elements of S in by_lib_block_num order: a singleton, for S # {}.
BestOf(S) == {a \in S : \A b \in S \ {a} : SortsBefore(a, b)}

\* Among the blocks of I no irreversible number falls from a block to the next.
RisesIn(I) == \A b \in I : Prev[b] \in I => Lib[Prev[b]] =< Lib[b]

\* S contains every block of I that is built on a block of S.
ClosedIn(S, I) == \A b \in I : Prev[b] \in S => b \in S

\* id together with all blocks of I that descend from it within I: the least
\* set that holds id and is closed.  It is the remove_queue of
\* fork_database::remove when its loop ends.
Descendants(id, I) ==
    {b \in I \cup {id} :
        \A S \in SUBSET (I \cup {id}) : id \in S /\ ClosedIn(S, I) => b \in S}

\* The blocks of I met when one follows header.previous from b until it leaves
\* I: fork_database::fetch_branch.
Branch(b, I) == {a \in I : b \in Descendants(a, I)}
================================================================================
