--------------------------- MODULE MCTowerRestart ---------------------------
(***************************************************************************)
(* Two instances of Tower for TLC.  The module's own restarts the validator *)
(* over any tree of five blocks; Loss also loses blocks and outruns the     *)
(* slot history.  part, chosen at the start, says which one moves; the      *)
(* other stays in its initial state.                                        *)
(***************************************************************************)
EXTENDS MCTower

VARIABLES
    part,
    blocks, complete, marked, saved, voted, forks, step, next_root, promises

lossVars == <<blocks, complete, marked, saved, voted, forks, step, next_root, promises>>

LossTree == [s \in 0 .. 4 |-> 0 .. (s - 1)]

Loss == INSTANCE Tower WITH
    SLOT_HISTORY_ENTRIES <- 3, MaxSlot <- 4, Parents <- LossTree, LedgerLoss <- TRUE,
    ancestors <- blocks, full <- complete, rooted <- marked, disk <- saved, tower <- voted,
    bank_forks <- forks, pc <- step, new_root <- next_root, promise <- promises

MCInit == part \in {"restart", "loss"} /\ Init /\ Loss!Init

MCNext ==
    /\ UNCHANGED part
    /\ \/ part = "restart" /\ Next /\ UNCHANGED lossVars
       \/ part = "loss" /\ Loss!Next /\ UNCHANGED vars

MCSpec == MCInit /\ [][MCNext]_<<part, vars, lossVars>>
-----------------------------------------------------------------------------
(* The properties of the module's own instance have their own names.          *)

\* What does not depend on the ledger: also when blocks are lost or the slot
\* history is outrun, so that votes are stray or the tower is newer than the
\* ledger, the towers are chains, the last vote has a bank and no vote breaks a
\* promise.
KeptDespiteLoss ==
    /\ [](Loss!TypeOK /\ Loss!TowerIsChain /\ Loss!LastVoteHasBank)
    /\ [][Loss!VoteKeepsPromises]_lossVars
=============================================================================
