--------------------------- MODULE TransactionLog ---------------------------
(***************************************************************************)
(* What processing transactions promises: blocks grow on blocks, and a     *)
(* transaction enters a block only if neither the block nor one below it   *)
(* holds it already.                                                       *)
(***************************************************************************)
EXTENDS Naturals, FiniteSets

CONSTANTS Txs, Slots, NoSlot

VARIABLE log       \* for each block, its parent and its transactions

\* The blocks of the chain that ends in the block.
Chain[slot \in DOMAIN log] ==
    {slot} \cup IF log[slot].parent = NoSlot THEN {} ELSE Chain[log[slot].parent]

ProcessedOn(slot) == UNION {log[s].txs : s \in Chain[slot]}

Init == log = [s \in {0} |-> [parent |-> NoSlot, txs |-> {}]]

NewBlock(slot, parent, txs) ==
    /\ slot \notin DOMAIN log
    /\ parent \in DOMAIN log
    /\ parent < slot
    /\ txs \cap ProcessedOn(parent) = {}
    /\ log' = [s \in DOMAIN log \cup {slot} |->
                  IF s = slot THEN [parent |-> parent, txs |-> txs] ELSE log[s]]

Process(slot, txs) ==
    /\ slot \in DOMAIN log
    /\ txs \cap ProcessedOn(slot) = {}
    /\ log' = [log EXCEPT ![slot].txs = @ \cup txs]

Next ==
    \E slot \in Slots, txs \in SUBSET Txs :
        \/ \E parent \in Slots : NewBlock(slot, parent, txs)
        \/ Process(slot, txs)

Spec == Init /\ [][Next]_log
=============================================================================
