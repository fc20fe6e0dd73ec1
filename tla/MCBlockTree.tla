------------------------------ MODULE MCBlockTree ------------------------------
(***************************************************************************)
(* The block universe of the model-checking runs: the complete tree of     *)
(* MaxDepth levels over the genesis block in which every block has, for    *)
(* each irreversible number in 1..MaxLib that is below the child's number  *)
(* and, unless LibMayFall, not below its own, two children.                *)
(* A block is a number whose digits in base MCBase are the path to it.     *)
(***************************************************************************)
EXTENDS BlockTree

CONSTANTS MaxDepth, MaxLib, LibMayFall

MCBase == 2 * MaxLib + 1
MCGenesis == 0

\* The irreversible number that a last digit d > 0 stands for.
DigitLib(d) == 1 + (d - 1) \div 2

MCLibOf(b) == IF b = 0 THEN 0 ELSE DigitLib(b % MCBase)

MCLevel[d \in 0..MaxDepth] ==
    IF d = 0 THEN {MCGenesis}
    ELSE {b * MCBase + c : b \in MCLevel[d - 1], c \in 1..(2 * MaxLib)}

\* Every block on the path has an irreversible number that is below its own number,
\* d - k + 2 for the k-th from the end, and not below its predecessor's unless it
\* may fall.
BlockTable ==
    UNION {{b \in MCLevel[d] :
               \A k \in 1..d :
                  LET a == b \div MCBase^(k - 1)
                  IN  /\ MCLibOf(a) =< d - k + 1
                      /\ LibMayFall \/ MCLibOf(a \div MCBase) =< MCLibOf(a)} :
           d \in 0..MaxDepth}
PrevTable == [b \in BlockTable |-> IF b = 0 THEN NoBlock ELSE b \div MCBase]
NumTable == [b \in BlockTable |-> 1 + (CHOOSE d \in 0..MaxDepth : b \in MCLevel[d])]
LibTable == [b \in BlockTable |-> MCLibOf(b)]

\* Ids are hashes: an order with no relation to the shape of the tree.  2503 is
\* a prime above every block number of the runs.
RankTable == [b \in BlockTable |-> (b * 1009) % 2503]

\* TLC evaluates the tables once; these are what the cfg files refer to.
MCBlock == BlockTable
MCPrev == PrevTable
MCNum == NumTable
MCLib == LibTable
MCRank == RankTable
================================================================================
