---------------------------- MODULE ProgressMap ----------------------------
(***************************************************************************)
(* How far the blocks this validator leads have propagated.  Each leader   *)
(* block counts the validators known to have it, from votes and from the   *)
(* slots nodes advertise; the validators known for a block count for the   *)
(* leader blocks below it.  The validator leads again only on a block      *)
(* whose last leader block has propagated.                                 *)
(***************************************************************************)
EXTENDS Integers, FiniteSets, FiniteSetsExt, Sequences, SequencesExt, Functions

CONSTANTS
    EpochStakes,      \* for each epoch, the stake of each vote account
    NodeVoteAccounts, \* for each epoch, the vote accounts of each node it knows
    SlotsPerEpoch,
    MyVote,           \* this validator's vote account
    LeaderSlots,      \* the slots it leads
    Batches,          \* bound: the sets of votes the tracker hands over at once
    MaxSlot,          \* bound
    NoSlot

VARIABLES
    parent,      \* history: the blocks ever replayed, each with its parent
    root,
    progress,    \* the propagated stats of each bank of bank_forks
    known        \* history: the votes and the nodes reported, each with the leader
                 \* slot the walk began at

vars == <<parent, root, progress, known>>

Voters == DOMAIN EpochStakes[0]
Nodes == UNION {DOMAIN NodeVoteAccounts[e] : e \in DOMAIN NodeVoteAccounts}
Slots == 0 .. MaxSlot

epoch_stake(slot, pubkeys) ==
    FoldSet(LAMBDA p, sum : EpochStakes[slot \div SlotsPerEpoch][p] + sum, 0, pubkeys)

\* Bank::epoch_vote_accounts_for_node_id of the nodes the slot's epoch knows.
epoch_vote_accounts_for_node_id(slot) == NodeVoteAccounts[slot \div SlotsPerEpoch]

total_epoch_stake(slot) == epoch_stake(slot, Voters)

\* SUPERMINORITY_THRESHOLD is a third.
over_threshold(slot, stake) ==
    total_epoch_stake(slot) = 0 \/ 3 * stake > total_epoch_stake(slot)

\* ForkProgress::new_from_bank.
new_from_bank(slot, prev_leader_slot) ==
    IF slot \in LeaderSlots
    THEN [prev_leader_slot |-> prev_leader_slot, is_leader_slot |-> TRUE,
          propagated_validators |-> {MyVote},
          propagated_validators_stake |-> epoch_stake(slot, {MyVote}),
          propagated_node_ids |-> {},
          is_propagated |-> over_threshold(slot, epoch_stake(slot, {MyVote}))]
    ELSE [prev_leader_slot |-> prev_leader_slot, is_leader_slot |-> FALSE,
          propagated_validators |-> {}, propagated_validators_stake |-> 0,
          propagated_node_ids |-> {}, is_propagated |-> FALSE]

get_latest_leader_slot(map, slot) ==
    IF map[slot].is_leader_slot THEN slot ELSE map[slot].prev_leader_slot

\* A leader slot that has left the map is rooted.
is_propagated(map, slot) ==
    LET leader == get_latest_leader_slot(map, slot)
    IN  leader \in DOMAIN map => map[leader].is_propagated

get_bank_prev_leader_slot(map, slot) ==
    IF slot \in DOMAIN map THEN get_latest_leader_slot(map, slot) ELSE NoSlot

\* The leader slots from this one down to the root.
leader_slots(map, tip) ==
    LET chain[slot \in DOMAIN map \cup {NoSlot}] ==
            IF slot = NoSlot THEN <<>>
            ELSE IF slot < root THEN <<>>
            ELSE <<slot>> \o (IF map[slot].prev_leader_slot \in DOMAIN map
                              THEN chain[map[slot].prev_leader_slot] ELSE <<>>)
    IN  IF get_latest_leader_slot(map, tip) \in DOMAIN map
        THEN chain[get_latest_leader_slot(map, tip)] ELSE <<>>

add_vote_pubkeys(stats, slot, pubkeys) ==
    [stats EXCEPT
        !.propagated_validators = @ \cup pubkeys,
        !.propagated_validators_stake =
            @ + epoch_stake(slot, pubkeys \ stats.propagated_validators)]

\* add_node_pubkey: the vote accounts the leader bank's epoch has for a node not
\* recorded yet; a node that epoch does not know adds nothing.
add_node_pubkeys(stats, slot, nodes) ==
    LET node_vote_accounts == epoch_vote_accounts_for_node_id(slot)
        new == (nodes \ stats.propagated_node_ids) \cap DOMAIN node_vote_accounts
    IN  [add_vote_pubkeys(stats, slot, UNION {node_vote_accounts[n] : n \in new}) EXCEPT
            !.propagated_node_ids = @ \cup new]

\* Fault form: validators the leader slot has had before go on to earlier ones, and
\* new ones do not.
ported_known(validators, recorded) == validators \cap recorded

\* Validators a leader slot knows already are not carried to earlier leader slots.
ported(validators, recorded) == validators \ recorded

\* update_slot_propagated_threshold_from_votes for the next leader slot.
update_slot_propagated_threshold(state, slot) ==
    LET stats  == state.map[slot]
        voted  == add_vote_pubkeys(stats, slot, state.voted)
        filled == add_node_pubkeys(voted, slot, state.nodes)
        over   == over_threshold(slot, filled.propagated_validators_stake)
    IN  IF \/ state.done
           \/ stats.is_propagated
           \/ state.voted = {} /\ state.nodes = {} /\ ~state.reached
        THEN [state EXCEPT !.done = TRUE]
        ELSE IF state.reached
        THEN [state EXCEPT !.map[slot].is_propagated = TRUE]
        ELSE [state EXCEPT
                !.map[slot] = [filled EXCEPT !.is_propagated = over],
                !.voted = ported(@, stats.propagated_validators),
                !.nodes = ported(@, stats.propagated_node_ids),
                !.reached = over]

update_fork_propagated_threshold(map, tip, voted, nodes) ==
    FoldLeft(update_slot_propagated_threshold,
             [map |-> map, voted |-> voted, nodes |-> nodes, reached |-> FALSE, done |-> FALSE],
             leader_slots(map, tip)).map

Init ==
    /\ parent = (0 :> NoSlot)
    /\ root = 0
    /\ progress = (0 :> new_from_bank(0, NoSlot))
    /\ known = [votes |-> {}, nodes |-> {}]

insert(slot, parent_slot) ==
    /\ parent' = (slot :> parent_slot) @@ parent
    /\ progress' = (slot :> new_from_bank(slot, get_bank_prev_leader_slot(progress, parent_slot)))
                   @@ progress
    /\ UNCHANGED <<root, known>>

\* A block of another leader is replayed.
Replay(slot, parent_slot) ==
    /\ slot \notin DOMAIN parent \cup LeaderSlots
    /\ parent_slot \in DOMAIN progress
    /\ parent_slot < slot
    /\ insert(slot, parent_slot)

check_propagation_for_start_leader(slot, parent_slot) ==
    \/ progress[parent_slot].is_leader_slot /\ parent_slot = slot - 1
    \/ is_propagated(progress, parent_slot)

\* maybe_start_leader.  Where the check fails it only asks for a retransmission.
StartLeader(slot, parent_slot) ==
    /\ slot \in LeaderSlots \ DOMAIN parent
    /\ parent_slot \in DOMAIN progress
    /\ parent_slot < slot
    /\ check_propagation_for_start_leader(slot, parent_slot) = TRUE
    /\ insert(slot, parent_slot)

\* update_propagation_status with the votes of the slot taken from the tracker
\* and the nodes that advertise it.  generate_new_bank_forks reports the leader of
\* a block built on the slot in the same way, without votes.
Update(slot, voted, nodes) ==
    /\ slot \in DOMAIN progress
    /\ ~is_propagated(progress, slot)
    /\ progress' = update_fork_propagated_threshold(progress, slot, voted, nodes)
    /\ \E leader \in {get_latest_leader_slot(progress, slot)} :
          known' = [votes |-> known.votes \cup ({leader} \X voted),
                    nodes |-> known.nodes \cup ({leader} \X nodes)]
    /\ UNCHANGED <<parent, root>>

Ancestors[slot \in DOMAIN parent] ==
    {slot} \cup IF parent[slot] = NoSlot THEN {} ELSE Ancestors[parent[slot]]

\* handle_new_root keeps what bank_forks keeps.
retained(slot) == {s \in DOMAIN progress : slot \in Ancestors[s]}

SetRoot(slot) ==
    /\ slot \in DOMAIN progress
    /\ slot > root
    /\ root' = slot
    /\ progress' = Restrict(progress, retained(slot))
    /\ UNCHANGED <<parent, known>>

Next ==
    \/ \E slot \in Slots, parent_slot \in DOMAIN progress :
          Replay(slot, parent_slot) \/ StartLeader(slot, parent_slot)
    \/ \E slot \in DOMAIN progress, voted \in Batches,
          nodes \in SUBSET Nodes : Update(slot, voted, nodes)
    \/ \E slot \in DOMAIN progress : SetRoot(slot)

Spec == Init /\ [][Next]_vars

TypeOK ==
    /\ root \in DOMAIN progress
    /\ DOMAIN progress \subseteq DOMAIN parent
    /\ \A s \in DOMAIN progress :
          /\ progress[s].prev_leader_slot \in Slots \cup {NoSlot}
          /\ progress[s].propagated_validators \subseteq Voters
          /\ progress[s].propagated_validators_stake \in 0 .. total_epoch_stake(s)

\* The expect and the assertion of update_fork_propagated_threshold_from_votes:
\* the previous leader slot of every bank, unless below the root, is in the map
\* and a leader slot of the bank's own fork.
LeaderChainKnown ==
    \A s \in DOMAIN progress :
        LET l == progress[s].prev_leader_slot
        IN  l = NoSlot \/ (l < root) \/
            (l \in DOMAIN progress /\ progress[l].is_leader_slot /\ l \in Ancestors[s])

\* The comment in update_slot_propagated_threshold_from_votes on the votes it
\* does not carry on: the earlier leader slots have recorded them as well, or have
\* reached the threshold.
DroppedVotesRecorded ==
    \A report \in known.votes :
        \A l \in Ancestors[report[1]] \cap DOMAIN progress :
            progress[l].is_leader_slot =>
                progress[l].is_propagated \/ report[2] \in progress[l].propagated_validators

\* The slots at or above a slot.
Above(slot) == {s \in DOMAIN parent : slot \in Ancestors[s]}

\* The vote accounts that count for a leader slot by the nodes reported at it or
\* above, as its epoch knows them.
NodeHolders(slot) ==
    LET node_vote_accounts == epoch_vote_accounts_for_node_id(slot)
    IN  UNION {node_vote_accounts[n] : n \in
            {m \in DOMAIN node_vote_accounts : \E s \in Above(slot) : <<s, m>> \in known.nodes}}

\* All that may count for a leader slot: also the accounts that voted at it or
\* above, and this validator's.
Holders(slot) ==
    {MyVote} \cup NodeHolders(slot)
    \cup {v \in Voters : \E s \in Above(slot) : <<s, v>> \in known.votes}

\* Those whose vote is sure to get there: no leader slot in between has the
\* account by one of its nodes.
SureHolders(slot) ==
    {MyVote} \cup NodeHolders(slot)
    \cup {v \in Voters : \E s \in Above(slot) :
            /\ <<s, v>> \in known.votes
            /\ \A d \in LeaderSlots \cap Above(slot) \cap Ancestors[s] :
                  d = slot \/ v \notin NodeHolders(d)}

\* A leader slot has propagated only when it, or a leader block above it, is held
\* by more than a third of the stake of its epoch; and it has propagated whenever
\* one is without the votes of accounts that a leader slot in between has by a
\* node.  The two are the same when the epochs of the fork's leader slots know the
\* same vote accounts for each node.
PropagatedExactly ==
    \A l \in DOMAIN progress : progress[l].is_leader_slot =>
        LET leaders == LeaderSlots \cap Above(l)
        IN  /\ progress[l].is_propagated =>
                  \E d \in leaders : over_threshold(d, epoch_stake(d, Holders(d)))
            /\ (\E d \in leaders : over_threshold(d, epoch_stake(d, SureHolders(d)))) =>
                  progress[l].is_propagated
=============================================================================
