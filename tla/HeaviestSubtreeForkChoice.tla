--------------------- MODULE HeaviestSubtreeForkChoice ----------------------
(***************************************************************************)
(* The two users of the fork choice tree.  The replay stage adds a leaf when *)
(* it freezes a bank, the votes it finds in a bank, and moves the root; the *)
(* repair service (core/src/repair_weight.rs) also keeps trees of orphans,  *)
(* grows them downwards and merges them into the tree they chain to.        *)
(***************************************************************************)
EXTENDS ForkInfos

VARIABLES
    service,    \* which of the two this is, "replay" or "repair"
    tree,       \* the tree at the root
    orphan,     \* repair: a tree that is not yet connected, or NoTree
    seen        \* history: the slots that have been in a tree

vars == <<service, tree, orphan, seen>>

NoTree == [root |-> NoSlot]

trees == {t \in {tree, orphan} : t # NoTree}

Info == [stake_voted_at : Int, stake_voted_subtree : Int, best_slot : Slots,
         parent : Slots \cup {NoSlot}, children : SUBSET Slots]

\* Stakes are never negative (they are u64), and parent and children agree.
TypeOK ==
    /\ service \in {"replay", "repair"}
    /\ seen \subseteq Slots
    /\ \A t \in trees :
        /\ t.latest_votes \in [Voters -> Slots]
        /\ t.root \in nodes(t)
        /\ nodes(t) \subseteq seen
        /\ \A s \in nodes(t) :
              /\ t.fork_infos[s] \in Info
              /\ t.fork_infos[s].stake_voted_at >= 0
              /\ t.fork_infos[s].parent = NoSlot <=> s = t.root
              /\ t.fork_infos[s].children = {c \in nodes(t) : t.fork_infos[c].parent = s}

Init ==
    /\ service \in {"replay", "repair"}
    /\ tree = new(0)
    /\ orphan = NoTree
    /\ seen = {0}

\* A block above parent that no tree has had: a slot has one block, and a
\* block off the root is not replayed again.
see(slot, parent) ==
    /\ slot > parent /\ slot \notin seen
    /\ seen' = seen \cup {slot}

\* replay_active_banks freezes a bank.
AddLeaf(slot, parent) ==
    /\ parent \in nodes(tree) /\ see(slot, parent)
    /\ tree' = add_new_leaf_slot(tree, slot, parent)
    /\ UNCHANGED <<service, orphan>>

\* The last vote of every voter that has landed in bank.
landed_votes(bank) == [Voters -> ancestors(tree, bank) \cup 0 .. (tree.root - 1) \cup {0}]

compute_bank_stats(bank) ==
    /\ service = "replay"
    /\ bank \in nodes(tree)
    /\ \E votes \in landed_votes(bank) : tree' = add_votes(tree, votes)
    /\ UNCHANGED <<service, orphan, seen>>

\* Trees that start before a new root are dropped.
kept_orphan(new_root) == IF orphan.root < new_root THEN NoTree ELSE orphan

SetRoot(new_root) ==
    /\ new_root \in nodes(tree) \ {tree.root}
    /\ tree' = set_root(tree, new_root)
    /\ orphan' = kept_orphan(new_root)
    /\ UNCHANGED <<service, seen>>

\* RepairWeight::set_root when the new root is in an orphan tree, or in none.
SetRootToOrphan(new_root) ==
    /\ orphan # NoTree
    /\ new_root \in nodes(orphan)
    /\ tree' = set_root(orphan, new_root)
    /\ orphan' = NoTree
    /\ UNCHANGED <<service, seen>>

SetMissingRoot(new_root) ==
    /\ service = "repair"
    /\ see(new_root, tree.root)
    /\ tree' = new(new_root)
    /\ orphan' = kept_orphan(new_root)
    /\ UNCHANGED service

\* RepairWeight::add_votes: votes for slots of a tree.
RepairVotes(t) == {add_votes(t, votes) : votes \in [Voters -> nodes(t)]}

AddVotesToTree ==
    /\ service = "repair"
    /\ tree' \in RepairVotes(tree)
    /\ UNCHANGED <<service, orphan, seen>>

AddVotesToOrphan ==
    /\ orphan # NoTree
    /\ orphan' \in RepairVotes(orphan)
    /\ UNCHANGED <<service, tree, seen>>

insert_new_tree(slot) ==
    /\ service = "repair"
    /\ orphan = NoTree /\ see(slot, tree.root)
    /\ orphan' = new(slot)
    /\ UNCHANGED <<service, tree>>

AddLeafToOrphan(slot, parent) ==
    /\ orphan # NoTree
    /\ parent \in nodes(orphan) /\ see(slot, parent)
    /\ orphan' = add_new_leaf_slot(orphan, slot, parent)
    /\ UNCHANGED <<service, tree>>

AddRootParent(slot) ==
    /\ orphan # NoTree
    /\ slot < orphan.root /\ see(slot, tree.root)
    /\ orphan' = add_root_parent(orphan, slot)
    /\ UNCHANGED <<service, tree>>

merge_trees(merge_leaf) ==
    /\ orphan # NoTree
    /\ merge_leaf \in nodes(tree) /\ merge_leaf < orphan.root
    /\ tree' = merge(tree, orphan, merge_leaf)
    /\ orphan' = NoTree
    /\ UNCHANGED <<service, seen>>

Next ==
    \/ \E slot, parent \in Slots : AddLeaf(slot, parent)
    \/ \E bank \in Slots : compute_bank_stats(bank)
    \/ \E new_root \in Slots : SetRoot(new_root)
    \/ \E new_root \in Slots : SetRootToOrphan(new_root)
    \/ \E new_root \in Slots : SetMissingRoot(new_root)
    \/ AddVotesToTree
    \/ AddVotesToOrphan
    \/ \E slot \in Slots : insert_new_tree(slot)
    \/ \E slot, parent \in Slots : AddLeafToOrphan(slot, parent)
    \/ \E slot \in Slots : AddRootParent(slot)
    \/ \E merge_leaf \in Slots : merge_trees(merge_leaf)

Spec == Init /\ [][Next]_vars
-----------------------------------------------------------------------------
(* Properties. *)

\* stake_voted_at, added to and taken from as votes move between forks and
\* epochs, is the stake of the voters whose latest vote is the slot;
\* stake_voted_subtree, updated only along the forks that a batch of votes
\* touches, is the stake of the whole subtree.
StakesExact ==
    /\ TypeOK
    /\ \A t \in trees : \A s \in nodes(t) :
          /\ t.fork_infos[s].stake_voted_at = voted_at(t, s)
          /\ t.fork_infos[s].stake_voted_subtree = voted_subtree(t, s)

\* best_slot, updated by leaves and votes in any order, is where the walk to
\* the heaviest child, the earliest on a tie, ends: fork choice depends on the
\* tree and the votes, not on their history.
BestSlotIsHeaviest ==
    \A t \in trees : \A s \in nodes(t) : t.fork_infos[s].best_slot = heaviest_leaf(t, s)

\* The comment in merge: "Add all the latest votes from `other` that are newer
\* than the ones in the current tree".  It speaks of the step that merges the
\* orphan tree, not of the other ways an orphan tree goes away.
MergeTakesNewerVotes ==
    [][\A merge_leaf \in Slots : merge_trees(merge_leaf) =>
          \A v \in Voters : tree'.latest_votes[v] >= orphan.latest_votes[v]]_vars
=============================================================================
