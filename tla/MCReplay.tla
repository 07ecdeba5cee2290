------------------------------ MODULE MCReplay ------------------------------
(***************************************************************************)
(* What the replay stage works with, side by side for TLC: the slot history *)
(* (the module's own instance), the tower, the blockstore, the progress map *)
(* and the vote listener.  part, chosen at the start, says which one moves; *)
(* the others stay in their initial states.                                 *)
(***************************************************************************)
EXTENDS SlotHistory, TLC

CONSTANTS v0, v1, v2, v3, v4, n2, h, h2

VARIABLES
    part,
    ancestors, full, rooted, disk, tower, bank_forks, pc, new_root, promise,
    metas, data, orphans, last_root, last_purge_slot, signal, completed, reported, purging,
    parent, root, progress, known,
    listener_root, blockstore_roots, replay, listener, slot_vote_trackers, epochs,
    unchecked_slots, confirmations, seen, alarms, taken

historyVars == vars
towerVars == <<ancestors, full, rooted, disk, tower, bank_forks, pc, new_root, promise>>
ledgerVars ==
    <<metas, data, orphans, last_root, last_purge_slot, signal, completed, reported, purging>>
progressVars == <<parent, root, progress, known>>
listenerVars ==
    <<listener_root, blockstore_roots, replay, listener, slot_vote_trackers, epochs,
      unchecked_slots, confirmations, seen, alarms, taken>>

\* A ring of four bits that wraps three times.
FewSlots == 0 .. 12

\* One fork of the slots up to 3, and another from slot 7 on: long enough for
\* the lockouts above a root to run out.
TwoForks ==
    [s \in 0 .. 9 |->
        CASE s \in {1, 2, 3} -> {s - 1}
          [] s = 7 -> {0, 1, 3}
          [] s \in {8, 9} -> {s - 1}
          [] OTHER -> {}]

Roots == INSTANCE Tower WITH
    MAX_LOCKOUT_HISTORY <- 2, SLOT_HISTORY_ENTRIES <- 12, MaxSlot <- 9,
    Parents <- TwoForks, LedgerLoss <- FALSE

NoSlot == -1

\* A block of three shreds in two data sets, and two forks on it.
BlockParent == (0 :> 0) @@ (1 :> 0) @@ (2 :> 1) @@ (3 :> 2) @@ (4 :> 1)
BlockLastIndex == (0 :> 0) @@ (1 :> 2) @@ (2 :> 1) @@ (3 :> 0) @@ (4 :> 0)
BlockDataEnds == [s \in 0 .. 4 |-> IF s = 1 THEN {0} ELSE {}]

Ledger == INSTANCE Blockstore WITH
    Parent <- BlockParent, LastIndex <- BlockLastIndex, DataEnds <- BlockDataEnds,
    max_ledger_shreds <- 5, purge_interval <- 0, MaxBatch <- 2

\* This validator is v1, never above a third; v4 is not heard of.  Each leader slot
\* is of another epoch.  In the first two v1, v2 and v3 together pass a third, in
\* the last v1 and v2 do.  The node n2 is not known in the first, is that of v2 in
\* the second and that of v3 in the last.
VoterStakes ==
    [e \in 0 .. 2 |-> (v1 :> 1) @@ (v2 :> IF e = 2 THEN 2 ELSE 1) @@ (v3 :> 1) @@ (v4 :> 3)]
VoterNodes == (0 :> <<>>) @@ (1 :> (n2 :> {v2})) @@ (2 :> (n2 :> {v3}))

Propagation == INSTANCE ProgressMap WITH
    EpochStakes <- VoterStakes, NodeVoteAccounts <- VoterNodes, SlotsPerEpoch <- 2,
    MyVote <- v1, LeaderSlots <- {1, 3, 4}, Batches <- {{}, {v2}, {v3}}, MaxSlot <- 4

\* 0 - 1 - 3 - 4 - 5, and the fork 0 - 2.  v0 holds most of the stake and does not
\* vote.  In the first epoch v1 alone is over the threshold of 3, later v1 and v2
\* are, while v1 and v3 only meet it.  v1 votes for two blocks of slot 1.
ListenerParent == <<0, 0, 1, 3, 4>>
ListenerStakes ==
    [e \in 0 .. 3 |-> IF e = 0 THEN (v0 :> 115) @@ (v1 :> 4) @@ (v2 :> 1) @@ (v3 :> 0)
                      ELSE (v0 :> 125) @@ (v1 :> 2) @@ (v2 :> 2) @@ (v3 :> 1)]
ListenerVoters == [e \in 0 .. 3 |-> (v0 :> v0) @@ (v1 :> v1) @@ (v2 :> v2) @@ (v3 :> v3)]

Vote(p, slots, hash, gossip) ==
    [pubkey |-> p, slots |-> slots, hash |-> hash, signer |-> p, gossip |-> gossip]

ListenerVotes ==
    {Vote(v1, <<1>>, h, FALSE), Vote(v1, <<1>>, h2, FALSE),
     Vote(v1, <<1, 3>>, h, TRUE), Vote(v1, <<1, 3>>, h, FALSE),
     Vote(v2, <<3>>, h, TRUE), Vote(v3, <<3>>, h, FALSE)}

Votes == INSTANCE VoteListener WITH
    Stakes <- ListenerStakes, AuthorizedVoters <- ListenerVoters, SlotsPerEpoch <- 2,
    Parent <- ListenerParent, Votes <- ListenerVotes, OwnHash <- h,
    root <- listener_root, reported <- alarms

MCInit ==
    /\ part \in {"history", "tower", "ledger", "propagation", "votes"}
    /\ Init /\ Roots!Init /\ Ledger!Init /\ Propagation!Init /\ Votes!Init

MCNext ==
    /\ UNCHANGED part
    /\ \/ /\ part = "history" /\ Next
          /\ UNCHANGED <<towerVars, ledgerVars, progressVars, listenerVars>>
       \/ /\ part = "tower" /\ Roots!Next
          /\ UNCHANGED <<historyVars, ledgerVars, progressVars, listenerVars>>
       \/ /\ part = "ledger" /\ Ledger!Next
          /\ UNCHANGED <<historyVars, towerVars, progressVars, listenerVars>>
       \/ /\ part = "propagation" /\ Propagation!Next
          /\ UNCHANGED <<historyVars, towerVars, ledgerVars, listenerVars>>
       \/ /\ part = "votes" /\ Votes!Next
          /\ UNCHANGED <<historyVars, towerVars, ledgerVars, progressVars>>

MCSpec ==
    MCInit /\ [][MCNext]_<<part, historyVars, towerVars, ledgerVars, progressVars, listenerVars>>
-----------------------------------------------------------------------------
(* The properties of the parts; those of the slot history have their own      *)
(* names.                                                                     *)

\* The root a vote would set is an ancestor of every frozen bank, as is_locked_out
\* asserts for each of them in each turn of the replay loop; the blockstore's roots
\* are one chain; and at start-up the root of the saved tower is on it, so
\* reconcile_blockstore_roots_with_tower does not panic.
RootsSafe == part = "tower" => Roots!RootsSafe

\* A SlotMeta says exactly which shreds are there.  next_slots lists each slot
\* that builds on a slot once, the slots without a parent are the orphans, and a
\* slot counts as connected exactly when its parent is connected and full,
\* whichever was completed last and in whatever order a batch was walked.  A
\* slot, and each set of data, is announced once, when it becomes complete.
LedgerExact ==
    part = "ledger" =>
        /\ Ledger!TypeOK
        /\ Ledger!ChainExact /\ Ledger!ConnectedExact
        /\ Ledger!CompletedOnce /\ Ledger!DataSetsOnce

\* Replay is never left asleep: what gives it more shreds to play, in a slot
\* inserted into or in one that is connected by it, leaves a signal pending.
NoSignalLost == [][Ledger!SignalKept]_ledgerVars

\* The cleanup never drops a shred of the root or of a slot above it, although
\* it works on slots it chose earlier.
KeptAboveRoot == [][Ledger!RootedShredsKept]_ledgerVars

\* A leader slot has propagated only when it, or a leader block above it, is held
\* by more than a third of the stake of its epoch; and it has whenever one is
\* without the votes of accounts that a leader slot in between has by a node.  The
\* two differ only where the epochs of the leader slots know other vote accounts
\* for a node: nothing else that the walk skips or stops at is lost.  The previous leader slot of every bank is in the map, as
\* update_fork_propagated_threshold_from_votes expects.
PropagatedExactly ==
    part = "propagation" =>
        /\ Propagation!TypeOK /\ Propagation!PropagatedExactly
        /\ Propagation!LeaderChainKnown

\* core/src/replay_stage.rs:1767 of the votes a leader slot has already: "safe to
\* drop because they don't to be ported back any further because earlier parents
\* must have: 1) Also recorded these pubkeys already, or 2) Already reached the
\* propagation threshold".
DroppedVotesRecorded == part = "propagation" => Propagation!DroppedVotesRecorded

\* VoteStakeTracker reports a slot and hash once, and exactly when voters with
\* more than VOTE_THRESHOLD_SIZE of the stake of its epoch have it as their last
\* vote, in whatever order and however often gossip and replay bring the votes.
\* The gossip-only stake counts each voter once, and every voter of a tracked
\* slot reaches replay.
TrackersExact ==
    part = "votes" =>
        /\ Votes!TypeOK /\ Votes!ConfirmedExactly
        /\ Votes!GossipStakeExact /\ Votes!NoUpdateLost

\* A confirmed slot is reported as not rooted once a root that is on another fork
\* has passed it and been processed, and none is forgotten between two turns.  A
\* block of a slot of the root's own fork is reported only if it is not the block
\* this validator has there (below the root such a block is not looked for).  The
\* trackers of the slots about to be verified are still there, as the comment in
\* process_votes_loop says.
AlarmsExact ==
    part = "votes" =>
        Votes!NoFalseAlarm /\ Votes!ViolationsReported /\ Votes!TrackersAvailable
=============================================================================
