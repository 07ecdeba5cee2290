---------------------------- MODULE VoteListener ----------------------------
(***************************************************************************)
(* The thread that counts votes from gossip and replay, announces the slots *)
(* they confirm, and checks those slots when a root passes them, while     *)
(* replay sets roots and takes the voters it has not seen.                 *)
(***************************************************************************)
EXTENDS VoteTracker

CONSTANTS
    Parent,        \* the blocks, each with its parent; 0 is the start
    Votes,         \* the votes that may arrive
    OwnHash        \* the hash of the blocks this validator replays

VARIABLES
    root,
    blockstore_roots,
    replay,             \* replay thread: the root it is about to set, or 0
    listener,           \* listener thread: the step and the root bank it read
    slot_vote_trackers,
    epochs,             \* epochs with authorized voters
    unchecked_slots,    \* the verifier's confirmed slots above the root
    confirmations,      \* history: how often each slot and hash was confirmed
    seen,               \* history: the last slots of the votes counted
    reported,           \* history: confirmed slots reported as not rooted
    taken               \* history: the voters replay took for each slot

vars == <<root, blockstore_roots, replay, listener, slot_vote_trackers, epochs,
          unchecked_slots, confirmations, seen, reported, taken>>

replayVars == <<root, blockstore_roots, replay>>
listenerVars == <<listener, epochs, unchecked_slots, confirmations, seen, reported>>

Blocks == DOMAIN Parent
AllSlots == Blocks \cup {0}

Ancestors[slot \in AllSlots] ==
    {slot} \cup IF slot = 0 THEN {} ELSE Ancestors[Parent[slot]]

Init ==
    /\ root = 0
    /\ blockstore_roots = {0}
    /\ replay = 0
    /\ listener = [pc |-> "start", root |-> 0]
    /\ slot_vote_trackers = <<>>
    /\ epochs = tracked_epochs({}, 0)
    /\ unchecked_slots = {}
    /\ confirmations = [p \in {} |-> 0]
    /\ seen = {}
    /\ reported = {}
    /\ taken = [s \in Blocks |-> {}]

(***************************************************************************)
(* Replay                                                                  *)
(***************************************************************************)

\* handle_votable_bank marks the roots in the blockstore before bank_forks.
SetBlockstoreRoots(slot) ==
    /\ replay = 0
    /\ slot > root
    /\ root \in Ancestors[slot]
    /\ blockstore_roots' = blockstore_roots \cup {s \in Ancestors[slot] : s >= root}
    /\ replay' = slot
    /\ UNCHANGED <<root, slot_vote_trackers, taken>>
    /\ UNCHANGED listenerVars

SetRoot ==
    /\ replay # 0
    /\ root' = replay
    /\ replay' = 0
    /\ UNCHANGED <<blockstore_roots, slot_vote_trackers, taken>>
    /\ UNCHANGED listenerVars

\* update_propagation_status takes the updates of the slot's tracker.
TakeUpdates(slot) ==
    /\ replay = 0
    /\ slot \in DOMAIN slot_vote_trackers
    /\ slot_vote_trackers[slot].updates # {}
    /\ taken' = [taken EXCEPT ![slot] = @ \cup slot_vote_trackers[slot].updates]
    /\ slot_vote_trackers' = [slot_vote_trackers EXCEPT ![slot].updates = {}]
    /\ UNCHANGED replayVars
    /\ UNCHANGED listenerVars

(***************************************************************************)
(* Listener                                                                *)
(***************************************************************************)

\* verify_for_unrooted_optimistic_slots looks at the confirmed slots up to the root.
checked(root_bank) == {p \in unchecked_slots : p[1] <= root_bank}

\* Fault form: the ancestors of the root bank are taken to hold every root.
is_unrooted_by_ancestors(pair, root_bank) ==
    \/ pair[1] = root_bank /\ pair[2] # OwnHash
    \/ pair[1] \notin {s \in Ancestors[root_bank] : s >= Parent[root_bank]}

\* The ancestors of a bank reach down to the root of its creation, which may be
\* its parent; below it the blockstore's roots decide.
is_unrooted(pair, root_bank) ==
    \/ pair[1] = root_bank /\ pair[2] # OwnHash
    \/ /\ pair[1] \notin {s \in Ancestors[root_bank] : s >= Parent[root_bank]}
       /\ pair[1] \notin blockstore_roots

\* A turn of process_votes_loop reads the root bank.
StartTurn ==
    /\ listener.pc = "start"
    /\ listener' = [pc |-> "listen", root |-> root]
    /\ UNCHANGED <<slot_vote_trackers, taken, epochs, unchecked_slots,
                   confirmations, seen, reported>>
    /\ UNCHANGED replayVars

\* Every so often the turn verifies the confirmed slots, then purges.
ProcessRoot ==
    /\ listener.pc = "listen"
    /\ listener' = [listener EXCEPT !.pc = "processed"]
    /\ reported' = reported \cup
           {p \in checked(listener.root) : is_unrooted(p, listener.root)}
    /\ unchecked_slots' = unchecked_slots \ checked(listener.root)
    /\ slot_vote_trackers' = purged_trackers(slot_vote_trackers, listener.root)
    /\ epochs' = tracked_epochs(epochs, listener.root)
    /\ UNCHANGED <<taken, confirmations, seen>>
    /\ UNCHANGED replayVars

\* The last slots of the votes that count in this turn.
counted(votes) ==
    {<<v.pubkey, Last(v.slots), v.hash>> : v \in
        {w \in Range(votes) : /\ w.gossip => filter_gossip_votes(epochs, w)
                              /\ Last(w.slots) > listener.root
                              /\ has_stakes(listener.root, Last(w.slots))}}

\* listen_and_confirm_votes, then add_new_optimistic_confirmed_slots.
Listen(votes) ==
    /\ listener.pc \in {"listen", "processed"}
    /\ listener' = [pc |-> "start", root |-> 0]
    /\ \E r \in {confirm_with_new_votes(slot_vote_trackers, votes, listener.root, epochs)} :
          LET new == Range(r.confirmed)
          IN  /\ slot_vote_trackers' = r.trackers
              /\ unchecked_slots' = unchecked_slots \cup new
              /\ confirmations' = [p \in DOMAIN confirmations \cup new |->
                     (IF p \in DOMAIN confirmations THEN confirmations[p] ELSE 0)
                     + Cardinality({i \in 1 .. Len(r.confirmed) : r.confirmed[i] = p})]
    /\ seen' = seen \cup counted(votes)
    /\ UNCHANGED <<epochs, reported, taken>>
    /\ UNCHANGED replayVars

\* Bound: a turn takes at most one vote from each channel; none, when it times out.
Batches ==
    LET From(gossip) == {<<>>} \cup {<<v>> : v \in {w \in Votes : w.gossip = gossip}}
    IN  {g \o r : g \in From(TRUE), r \in From(FALSE)}

Next ==
    \/ \E slot \in Blocks : SetBlockstoreRoots(slot) \/ TakeUpdates(slot)
    \/ SetRoot
    \/ StartTurn \/ ProcessRoot
    \/ \E votes \in Batches : Listen(votes)

Spec == Init /\ [][Next]_vars

(***************************************************************************)
(* Properties                                                              *)
(***************************************************************************)

TypeOK ==
    /\ root \in AllSlots /\ replay \in AllSlots
    /\ blockstore_roots \subseteq AllSlots
    /\ listener.pc \in {"start", "listen", "processed"}
    /\ \A s \in DOMAIN slot_vote_trackers :
          /\ s \in Blocks
          /\ slot_vote_trackers[s].gossip_only_stake
                \in 0 .. stake_of(get_epoch(s), DOMAIN slot_vote_trackers[s].voted)
    /\ epochs \subseteq DOMAIN Stakes

\* The stake of the voters whose last vote for the slot has the hash.
VotedStake(s, h) ==
    stake_of(get_epoch(s), {p \in DOMAIN Stakes[get_epoch(s)] : <<p, s, h>> \in seen})

\* VoteStakeTracker reports a slot and hash once, and exactly when voters with
\* more than VOTE_THRESHOLD_SIZE of the stake of its epoch have it as their last
\* vote, in whatever order and however often gossip and replay bring the votes.
ConfirmedExactly ==
    \A s \in Blocks, h \in {v.hash : v \in Votes} :
        LET times == IF <<s, h>> \in DOMAIN confirmations THEN confirmations[<<s, h>>] ELSE 0
        IN  times = IF 40 * VotedStake(s, h) > total_stake(get_epoch(s)) THEN 1 ELSE 0

\* The documentation's definition of optimistic confirmation, and the comment on
\* VoteStakeTracker::add_vote_pubkey: more than two thirds of the stake has voted.
ConfirmedBySupermajority ==
    \A p \in DOMAIN confirmations :
        3 * VotedStake(p[1], p[2]) > 2 * total_stake(get_epoch(p[1]))

\* The gossip-only stake of a slot counts each voter seen in gossip once
\* (the comment in filter_and_confirm_with_new_votes on incrementing it).
GossipStakeExact ==
    \A s \in DOMAIN slot_vote_trackers :
        LET t == slot_vote_trackers[s]
        IN  t.gossip_only_stake = stake_of(get_epoch(s), {p \in DOMAIN t.voted : t.voted[p]})

\* Every voter of a tracked slot reaches replay: it is in the updates or was taken.
NoUpdateLost ==
    \A s \in DOMAIN slot_vote_trackers :
        DOMAIN slot_vote_trackers[s].voted \subseteq slot_vote_trackers[s].updates \cup taken[s]

\* A confirmed block is reported as not rooted only if the root has passed its
\* slot on another fork, or if it is another block of a slot of the root's fork.
NoFalseAlarm ==
    \A p \in reported :
        p[1] <= root /\ (p[1] \notin Ancestors[root] \/ p[2] # OwnHash)

\* A confirmed slot that the root has left on another fork is reported once it
\* is checked, and none is forgotten between two turns.  Below the root it is the
\* slot alone that counts: another block of a rooted slot is reported only when
\* it is checked while the slot is the root.
ViolationsReported ==
    \A p \in DOMAIN confirmations :
        \/ p \in unchecked_slots
        \/ p \in reported
        \/ p[1] \in Ancestors[root]

\* The comment in process_votes_loop: the trackers of the slots about to be
\* verified are still there.
TrackersAvailable ==
    \A p \in unchecked_slots : p[1] \in DOMAIN slot_vote_trackers
=============================================================================
