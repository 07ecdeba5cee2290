------------------------------- MODULE MCTower ------------------------------
(***************************************************************************)
(* Model of Tower for TLC: any tree of a few blocks.                        *)
(***************************************************************************)
EXTENDS Tower

AnyTree == [s \in Slots |-> 0 .. (s - 1)]
=============================================================================
