------------------------------ MODULE ForkInfos -----------------------------
(***************************************************************************)
(* The data structure of core/src/heaviest_subtree_fork_choice.rs: a tree   *)
(* of slots in which every slot keeps the stake that voted for exactly it,  *)
(* the stake that voted for its subtree, and the best slot of its subtree.  *)
(* All three are maintained incrementally; what they should be is defined   *)
(* at the end, from the tree and the latest votes alone.                    *)
(***************************************************************************)
EXTENDS Integers, FiniteSetsExt, SequencesExt

CONSTANTS
    Voters,             \* vote accounts
    SLOTS_PER_EPOCH,
    EpochStake,         \* EpochStake[epoch][pubkey]
    MaxSlot             \* bound: slots of the tree

Slots == 0 .. MaxSlot

NoSlot == -1

ASSUME ForkInfosAssumption ==
    /\ SLOTS_PER_EPOCH \in Nat \ {0}
    /\ MaxSlot \in Nat
    /\ EpochStake \in [0 .. (MaxSlot \div SLOTS_PER_EPOCH) -> [Voters -> Nat]]

stake_at(pubkey, slot) == EpochStake[slot \div SLOTS_PER_EPOCH][pubkey]

\* A tree of one slot.  Slot 0 in latest_votes stands for no vote: a vote for
\* slot 0 is never newer than the one before.
Leaf(slot, parent) ==
    [stake_voted_at |-> 0, stake_voted_subtree |-> 0, best_slot |-> slot,
     parent |-> parent, children |-> {}]

new(root) ==
    [fork_infos   |-> [s \in {root} |-> Leaf(root, NoSlot)],
     latest_votes |-> [v \in Voters |-> 0],
     root         |-> root]

nodes(tree) == DOMAIN tree.fork_infos

ascending(tree) == SelectSeq([i \in 1 .. MaxSlot + 1 |-> i - 1], LAMBDA s : s \in nodes(tree))

\* AncestorIterator: the ancestors of slot that are in the tree.
ancestors(tree, slot) ==
    LET up[s \in Slots \cup {NoSlot}] ==
            IF s \notin nodes(tree) THEN {}
            ELSE LET p == tree.fork_infos[s].parent
                 IN  IF p = NoSlot THEN {} ELSE {p} \cup up[p]
    IN  up[slot]

subtree(tree, slot) == {s \in nodes(tree) : s = slot \/ slot \in ancestors(tree, s)}

weight(infos, slot) == infos[slot].stake_voted_subtree

\* Heavier, or as heavy and of an earlier slot.
is_better(infos, a, b) ==
    \/ weight(infos, a) > weight(infos, b)
    \/ weight(infos, a) = weight(infos, b) /\ a < b
-----------------------------------------------------------------------------
(* Adding a leaf *)

\* Fault form: among siblings of the same weight the newest is the best.
is_best_child_if_newest(infos, slot) ==
    infos[slot].parent = NoSlot \/
        \A c \in infos[infos[slot].parent].children :
            c = slot \/ weight(infos, slot) >= weight(infos, c)

is_best_child(infos, slot) ==
    infos[slot].parent = NoSlot \/
        \A c \in infos[infos[slot].parent].children : ~ is_better(infos, c, slot)

\* The leaf becomes the best slot of its parent, and of every ancestor up to
\* the first that had another best slot than the parent.
propagate_new_leaf(tree, slot, parent) ==
    LET infos == tree.fork_infos
        best  == infos[parent].best_slot
        chain == ancestors(tree, slot)
        agree == {a \in chain : \A b \in chain : b >= a => infos[b].best_slot = best}
    IN  IF is_best_child(infos, slot)
        THEN [tree EXCEPT !.fork_infos =
                [s \in DOMAIN infos |->
                    IF s \in agree THEN [infos[s] EXCEPT !.best_slot = slot] ELSE infos[s]]]
        ELSE tree

add_new_leaf_slot(tree, slot, parent) ==
    LET infos == tree.fork_infos
        with_child ==
            [s \in DOMAIN infos \cup {slot} |->
                CASE s = parent -> [infos[s] EXCEPT !.children = @ \cup {slot}]
                  [] s = slot -> IF s \in DOMAIN infos
                                 THEN [infos[s] EXCEPT !.parent = parent]
                                 ELSE Leaf(slot, parent)
                  [] OTHER -> infos[s]]
    IN  propagate_new_leaf([tree EXCEPT !.fork_infos = with_child], slot, parent)
-----------------------------------------------------------------------------
(* Moving votes *)

\* Stake and best slot of a slot, from those of its children.
aggregate_slot(info, slot, infos) ==
    LET best == CHOOSE c \in info.children :
                    \A d \in info.children : ~ is_better(infos, d, c)
    IN  [info EXCEPT
            !.stake_voted_subtree =
                info.stake_voted_at + MapThenSumSet(LAMBDA c : weight(infos, c), info.children),
            !.best_slot = IF info.children = {} THEN slot ELSE infos[best].best_slot]

is_newer(tree, pubkey, slot) == slot > tree.latest_votes[pubkey]

\* generate_update_operations: the voters that move, and the slots above the
\* stake they take and bring.
moved(tree, votes) == {v \in DOMAIN votes : is_newer(tree, v, votes[v])}

taken(tree, votes, slot) ==
    MapThenSumSet(LAMBDA v : stake_at(v, slot),
                  {v \in moved(tree, votes) : slot # 0 /\ tree.latest_votes[v] = slot})

brought(tree, votes, slot) ==
    MapThenSumSet(LAMBDA v : stake_at(v, slot),
                  {v \in moved(tree, votes) : votes[v] = slot})

\* Fault form: only the ancestors of the new votes are updated.
aggregated_for_new(tree, votes) ==
    UNION {ancestors(tree, votes[v]) : v \in moved(tree, votes)}

aggregated(tree, votes) ==
    UNION {ancestors(tree, votes[v]) \cup ancestors(tree, tree.latest_votes[v]) :
              v \in moved(tree, votes)}

\* process_update_operations: from the greatest slot down, so that the children
\* of a slot have been updated before it is aggregated.
add_votes(tree, votes) ==
    LET change(s) == brought(tree, votes, s) - taken(tree, votes, s)
        changed(s) == [tree.fork_infos[s] EXCEPT !.stake_voted_at = @ + change(s),
                                                 !.stake_voted_subtree = @ + change(s)]
        aggregate == aggregated(tree, votes)
        updated(infos, s) ==
            (s :> IF s \in aggregate THEN aggregate_slot(changed(s), s, infos)
                  ELSE changed(s)) @@ infos
    IN  [tree EXCEPT
            !.fork_infos   = FoldLeft(updated, <<>>, Reverse(ascending(tree))),
            !.latest_votes = [v \in Voters |-> IF v \in moved(tree, votes) THEN votes[v] ELSE @[v]]]
-----------------------------------------------------------------------------
(* Moving the root *)

\* Everything reachable from the root but not from new_root goes; the votes for
\* it stay in latest_votes.
set_root(tree, new_root) ==
    LET kept == subtree(tree, new_root)
    IN  [tree EXCEPT
            !.root = new_root,
            !.fork_infos = [s \in kept |->
                IF s = new_root THEN [tree.fork_infos[s] EXCEPT !.parent = NoSlot]
                ELSE tree.fork_infos[s]]]

\* The stake and the best slot of the subtree are those of the old root.
add_root_parent(tree, root_parent) ==
    LET info == tree.fork_infos[tree.root]
    IN  [tree EXCEPT
            !.root = root_parent,
            !.fork_infos =
                (root_parent :>
                    [stake_voted_at |-> 0, stake_voted_subtree |-> info.stake_voted_subtree,
                     best_slot |-> info.best_slot, parent |-> NoSlot, children |-> {tree.root}])
                @@ [@ EXCEPT ![tree.root].parent = root_parent]]

\* The voters whose latest vote in the other tree is taken over.
newer_votes(tree, other) ==
    {v \in Voters : tree.latest_votes[v] # 0 /\ other.latest_votes[v] > tree.latest_votes[v]}

merge(tree, other, merge_leaf) ==
    LET parent(s) == IF s = other.root THEN merge_leaf ELSE other.fork_infos[s].parent
        joined == FoldLeft(LAMBDA t, s : add_new_leaf_slot(t, s, parent(s)),
                           tree, ascending(other))
    IN  add_votes(joined, [v \in newer_votes(tree, other) |-> other.latest_votes[v]])
-----------------------------------------------------------------------------
(* What the incremental data should be *)

voted_at(tree, slot) ==
    MapThenSumSet(LAMBDA v : stake_at(v, slot),
                  {v \in Voters : slot # 0 /\ tree.latest_votes[v] = slot})

voted_subtree(tree, slot) ==
    MapThenSumSet(LAMBDA s : tree.fork_infos[s].stake_voted_at, subtree(tree, slot))

\* From slot down, always to the heaviest child, the earliest on a tie.
heaviest_leaf(tree, slot) ==
    LET beats(a, b) == \/ voted_subtree(tree, a) > voted_subtree(tree, b)
                       \/ voted_subtree(tree, a) = voted_subtree(tree, b) /\ a < b
        down[k \in 0 .. MaxSlot] ==
            LET s == MaxSlot - k
                children == {c \in nodes(tree) : tree.fork_infos[c].parent = s}
            IN  IF children = {} THEN s
                ELSE down[MaxSlot - (CHOOSE c \in children :
                                        \A d \in children : d = c \/ beats(c, d))]
    IN  down[MaxSlot - slot]
=============================================================================
