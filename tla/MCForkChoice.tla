---------------------------- MODULE MCForkChoice ----------------------------
(***************************************************************************)
(* Model of HeaviestSubtreeForkChoice for TLC: two voters whose stakes       *)
(* change places at the second epoch.                                       *)
(***************************************************************************)
EXTENDS HeaviestSubtreeForkChoice

CONSTANTS a, b

TwoVoters == {a, b}

Swapped ==
    [e \in 0 .. (MaxSlot \div SLOTS_PER_EPOCH) |->
        [v \in TwoVoters |-> IF (v = a) = (e = 0) THEN 2 ELSE 1]]
=============================================================================
