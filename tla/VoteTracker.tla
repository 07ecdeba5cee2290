---------------------------- MODULE VoteTracker ----------------------------
(***************************************************************************)
(* Who voted for which slot.  The tracker of a slot holds                  *)
(*   voted              the voters, each with whether its vote was seen in  *)
(*                      gossip                                             *)
(*   optimistic         for each hash the voters whose last vote it is, and *)
(*                      their stake                                        *)
(*   updates            the voters replay has not taken yet                *)
(*   gossip_only_stake  the stake of the votes seen in gossip              *)
(* Order in updates does not matter: they are a set.                       *)
(***************************************************************************)
EXTENDS Integers, FiniteSets, Sequences, FiniteSetsExt, Functions, SequencesExt, TLC

CONSTANTS
    Stakes,              \* for each epoch, the stake of each vote account
    AuthorizedVoters,    \* for each epoch, the authorized voter of each vote account
    SlotsPerEpoch

get_epoch(slot) == slot \div SlotsPerEpoch

\* The last epoch whose stakes a bank knows.
get_leader_schedule_epoch(slot) == get_epoch(slot) + 1

has_stakes(root, slot) == get_epoch(slot) <= get_leader_schedule_epoch(root)

stake_of(epoch, pubkeys) ==
    LET known == pubkeys \cap DOMAIN Stakes[epoch]
    IN  FoldSet(LAMBDA p, sum : Stakes[epoch][p] + sum, 0, known)

total_stake(epoch) == stake_of(epoch, DOMAIN Stakes[epoch])

\* VOTE_THRESHOLD_SIZE is 1/40 in this code, whatever the name says.
supermajority_stake(epoch) == total_stake(epoch) \div 40

NewSlotTracker ==
    [voted |-> <<>>, optimistic |-> <<>>, updates |-> {}, gossip_only_stake |-> 0]

slot_tracker(trackers, slot) ==
    IF slot \in DOMAIN trackers THEN trackers[slot] ELSE NewSlotTracker

with_tracker(trackers, slot, tracker) == (slot :> tracker) @@ trackers

\* Fault form: the threshold counts as crossed when it is only met.
crosses_or_meets(old, new, epoch) ==
    old <= supermajority_stake(epoch) /\ supermajority_stake(epoch) <= new

crosses_supermajority(old, new, epoch) ==
    old <= supermajority_stake(epoch) /\ supermajority_stake(epoch) < new

\* track_optimistic_confirmation_vote and VoteStakeTracker::add_vote_pubkey.
track_optimistic(trackers, slot, hash, pubkey) ==
    LET tracker == slot_tracker(trackers, slot)
        old     == IF hash \in DOMAIN tracker.optimistic THEN tracker.optimistic[hash]
                   ELSE [voted |-> {}, stake |-> 0]
        is_new  == pubkey \notin old.voted
        stake   == old.stake + stake_of(get_epoch(slot), {pubkey})
        new     == IF is_new THEN [voted |-> old.voted \cup {pubkey}, stake |-> stake] ELSE old
    IN  [trackers |-> with_tracker(trackers, slot,
             [tracker EXCEPT !.optimistic = (hash :> new) @@ @]),
         is_new |-> is_new,
         is_confirmed |-> is_new /\ crosses_supermajority(old.stake, stake, get_epoch(slot))]

\* A vote joins the votes of the turn, as seen in gossip or only in replay.
add_to_diff(diff, slots, vote) ==
    [s \in DOMAIN diff \cup slots |->
        LET before == IF s \in DOMAIN diff THEN diff[s] ELSE <<>>
            seen   == vote.pubkey \in DOMAIN before /\ before[vote.pubkey]
        IN  IF s \notin slots THEN before
            ELSE [p \in DOMAIN before \cup {vote.pubkey} |->
                     IF p = vote.pubkey THEN seen \/ vote.gossip ELSE before[p]]]

\* track_new_votes_and_notify_confirmations: the last slot of the vote first; a
\* vote known from replay ends there, otherwise all slots above the root with
\* known stakes join the diff.
track_new_vote(turn, vote, root) ==
    LET slots == {s \in Range(vote.slots) : s > root /\ has_stakes(root, s)}
        last  == Last(vote.slots)
        r     == track_optimistic(turn.trackers, last, vote.hash, vote.pubkey)
    IN  IF last \notin slots
        THEN [turn EXCEPT !.diff = add_to_diff(@, slots, vote)]
        ELSE [trackers  |-> r.trackers,
              diff      |-> IF ~r.is_new /\ ~vote.gossip THEN turn.diff
                            ELSE add_to_diff(turn.diff, slots, vote),
              confirmed |-> IF r.is_confirmed THEN Append(turn.confirmed, <<last, vote.hash>>)
                            ELSE turn.confirmed]

\* Gossip votes must be signed by the authorized voter of the epoch of the last
\* slot; votes from replay were checked when they were executed.
filter_gossip_votes(epochs, vote) ==
    LET epoch == get_epoch(Last(vote.slots))
    IN  /\ epoch \in epochs
        /\ vote.pubkey \in DOMAIN AuthorizedVoters[epoch]
        /\ vote.signer = AuthorizedVoters[epoch][vote.pubkey]

\* The voters not seen yet, or seen in gossip for the first time.
newly_voted(tracker, votes) ==
    {p \in DOMAIN votes : p \notin DOMAIN tracker.voted \/ (votes[p] /\ ~tracker.voted[p])}

updates_with(updates, new) == updates \cup new

\* The votes of the turn enter the tracker of their slot.
with_votes(tracker, slot, votes) ==
    LET new == newly_voted(tracker, votes)
    IN  [tracker EXCEPT
            !.voted = [p \in DOMAIN @ \cup new |-> IF p \in new THEN votes[p] ELSE @[p]],
            !.updates = updates_with(@, new),
            !.gossip_only_stake =
                @ + stake_of(get_epoch(slot), {p \in new : votes[p]})]

\* filter_and_confirm_with_new_votes, gossip votes before replayed ones.
confirm_with_new_votes(trackers, votes, root, epochs) ==
    LET valid == SelectSeq(votes, LAMBDA v : v.gossip => filter_gossip_votes(epochs, v))
        turn  == FoldLeft(LAMBDA t, v : track_new_vote(t, v, root),
                          [trackers |-> trackers, diff |-> <<>>, confirmed |-> <<>>], valid)
    IN  [trackers  |-> [s \in DOMAIN turn.trackers \cup DOMAIN turn.diff |->
                           LET t == slot_tracker(turn.trackers, s)
                           IN  IF s \in DOMAIN turn.diff THEN with_votes(t, s, turn.diff[s]) ELSE t],
         confirmed |-> turn.confirmed]

\* purge_stale_state drops the trackers below the root.
purged_trackers(trackers, root) ==
    Restrict(trackers, {s \in DOMAIN trackers : s >= root})

\* The epochs with authorized voters after a new root: progress_leader_schedule_epoch
\* adds those up to the root's, purge_stale_state drops those before the root.
tracked_epochs(epochs, root) ==
    {e \in epochs \cup 0 .. get_leader_schedule_epoch(root) : e >= get_epoch(root)}
=============================================================================
