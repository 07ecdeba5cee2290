----------------------------- MODULE MCServices -----------------------------
(***************************************************************************)
(* For TLC, side by side: the stake accounts of the bank (the module's own  *)
(* instance) and three threads that run beside the replay stage, the        *)
(* leader's PoH recorder, the commitment service and the tracker of the     *)
(* optimistically confirmed bank.  part, chosen at the start, says which    *)
(* one moves; the others stay in their initial states.                      *)
(***************************************************************************)
EXTENDS MCStakes

CONSTANT v0

VARIABLES
    part,
    poh, frozen, parent, loop, tpu_has_bank, last_reset, starting,
    vote_states, root, last_vote, switched, channel, working, cache,
    banks, tracker_root, replay, confirmed, notifications, confirmed_bank, pending

stakesVars == vars
pohVars == <<poh, frozen, parent, loop, tpu_has_bank, last_reset, starting>>
commitmentVars == <<vote_states, root, last_vote, switched, channel, working, cache>>
trackerVars ==
    <<banks, tracker_root, replay, confirmed, notifications, confirmed_bank, pending>>

\* Slots of two ticks; this validator leads two in a row, others the last.
Poh == INSTANCE PohRecorder WITH
    ticks_per_slot <- 2, LeaderSlots <- {1, 2}, MaxSlot <- 3, MaxRecords <- 1, NoSlot <- -1

\* 0 - 1 - 2 - 3 - 4, and a fork from 0 late enough to vote on after 4.
VotedParent == (1 :> 0) @@ (2 :> 1) @@ (3 :> 2) @@ (4 :> 3) @@ (7 :> 0)

\* v0 does not vote; only v1 and v2 together are over the threshold of 2.
VoterStakes == (v0 :> 77) @@ (v1 :> 1) @@ (v2 :> 2)

Commitments == INSTANCE Commitment WITH
    MAX_LOCKOUT_HISTORY <- 2, Parent <- VotedParent, Stakes <- VoterStakes,
    Landing <- {{v1}, {v1, v2}}, accounts <- vote_states

\* 0 - 2 - 3, and the fork 0 - 1.
Tracker == INSTANCE OptimisticallyConfirmedBankTracker WITH
    Parent <- <<0, 0, 2>>, root <- tracker_root

MCInit ==
    /\ part \in {"stakes", "poh", "commitment", "tracker"}
    /\ part # "stakes" => scenario = Warmup
    /\ Init /\ Poh!Init /\ Commitments!Init /\ Tracker!Init

\* The steps of each part that are bound to happen: the tick producer and the
\* replay loop go on, the commitment service and the tracker keep receiving, and
\* replay finishes a notification it has begun.
Ticking == part = "poh" /\ Poh!Tick /\ UNCHANGED <<part, stakesVars, commitmentVars, trackerVars>>
Replaying == part = "poh" /\ Poh!Replay /\ UNCHANGED <<part, stakesVars, commitmentVars, trackerVars>>
Committing ==
    /\ part = "commitment"
    /\ Commitments!Receive \/ Commitments!Aggregate
    /\ UNCHANGED <<part, stakesVars, pohVars, trackerVars>>
Tracking == part = "tracker" /\ Tracker!Track /\ UNCHANGED <<part, stakesVars, pohVars, commitmentVars>>
Notifying ==
    /\ part = "tracker"
    /\ Tracker!NotifyFrozen \/ Tracker!NotifyRoot
    /\ UNCHANGED <<part, stakesVars, pohVars, commitmentVars>>

MCNext ==
    /\ UNCHANGED part
    /\ \/ part = "stakes" /\ Next /\ UNCHANGED <<pohVars, commitmentVars, trackerVars>>
       \/ part = "poh" /\ Poh!Next /\ UNCHANGED <<stakesVars, commitmentVars, trackerVars>>
       \/ part = "commitment" /\ Commitments!Next /\ UNCHANGED <<stakesVars, pohVars, trackerVars>>
       \/ part = "tracker" /\ Tracker!Next /\ UNCHANGED <<stakesVars, pohVars, commitmentVars>>

allVars == <<part, stakesVars, pohVars, commitmentVars, trackerVars>>

\* Weak fairness for each of them; one formula serves several parts, because
\* part never changes.
MCFairness ==
    /\ WF_allVars(Ticking \/ Committing \/ Tracking)
    /\ WF_allVars(Replaying \/ Notifying)

MCSpec == MCInit /\ [][MCNext]_allVars /\ MCFairness
-----------------------------------------------------------------------------
(* The properties of the parts; those of the stakes have their own names.     *)

\* What the recorder sends for a block is what verify_ticks asks of it: ticks and
\* transaction entries in order, each tick once, no more ticks than the slot has
\* and no entry behind the last, although ticks are cached before there is a
\* bank.  And the assertions of maybe_start_leader hold although the lock is
\* released before the start: no bank is being recorded, the parent is frozen.
RecorderSound ==
    part = "poh" =>
        /\ Poh!TypeOK
        /\ Poh!EntriesInOrder /\ Poh!BlockVerifies /\ Poh!TicksKept
        /\ Poh!StartsOnFrozen

\* A frozen block gets no entry any more.
FrozenBlockFixed == [][Poh!FrozenBlockKept]_pohVars

\* Again and again, every bank handed to the recorder is completed and frozen,
\* unless the recorder has been reset to another block.
BankFinishes == []<>(part = "poh" => Poh!BanksFinished)

\* What RPC serves is so.  Each account counts for an ancestor at one level, and
\* exactly when it has rooted the ancestor or voted on it or above, although
\* aggregate_commitment_for_vote_account carries one index from the root to the
\* votes; the levels max, single and recent are nested as long as replay has
\* stayed on one fork; and no slot is served as optimistically confirmed that is
\* neither confirmed nor rooted.
ServedExact ==
    /\ part = "commitment" =>
          Commitments!TypeOK /\ Commitments!CountedOnce /\ Commitments!LevelsNested
    /\ part = "tracker" => Tracker!TypeOK /\ Tracker!ServedIsConfirmed

\* The root, the confirmed root and the optimistically confirmed bank that RPC
\* serves never move back.
ServedMonotone ==
    [][/\ cache'.root >= cache.root
       /\ cache'.highest_confirmed_root >= cache.highest_confirmed_root
       /\ confirmed_bank' >= confirmed_bank]_<<commitmentVars, trackerVars>>

\* The services catch up.  Again and again the cache is as new as the bank replay
\* voted on last, although the service drops the messages it is too late for;
\* and no frozen bank of a confirmed slot is above the optimistically confirmed
\* bank, whatever order freezing, confirmation and roots are notified in.
ServicesCatchUp ==
    /\ []<>(cache.bank.slot >= last_vote)
    /\ []<>(\A s \in banks \cap confirmed : confirmed_bank >= s)
=============================================================================
