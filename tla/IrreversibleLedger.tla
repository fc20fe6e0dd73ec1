--------------------------- MODULE IrreversibleLedger ---------------------------
(***************************************************************************)
(* What a node promises about irreversible blocks: they form one chain     *)
(* from the genesis block, every block of it executes, and the chain is    *)
(* only ever extended.  Neither a fork switch nor a crash, a restart or a  *)
(* change of the read mode takes a block back or replaces one.             *)
(***************************************************************************)
EXTENDS Naturals, Sequences

CONSTANTS Block, Genesis, Prev, Bad

VARIABLE ledger

Init == ledger = <<Genesis>>

Extend(b) ==
    /\ Prev[b] = ledger[Len(ledger)]
    /\ b \notin Bad
    /\ ledger' = Append(ledger, b)

Next == \E b \in Block : Extend(b)

Spec == Init /\ [][Next]_ledger
================================================================================
