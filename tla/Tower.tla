-------------------------------- MODULE Tower -------------------------------
(***************************************************************************)
(* One validator's tower (core/src/consensus.rs) with the parts of its      *)
(* replay stage that vote (core/src/replay_stage.rs, handle_votable_bank)   *)
(* and of its start-up (core/src/validator.rs, ledger's load_frozen_forks). *)
(* Blocks of a growing tree are replayed into bank_forks; the heaviest bank *)
(* is voted on when the tower allows it; the tower file, the blockstore's   *)
(* roots and the vote that leaves the node are three effects a crash can    *)
(* fall between.  A slot has at most one block.                             *)
(***************************************************************************)
EXTENDS Lockouts, FiniteSetsExt

CONSTANTS
    SLOT_HISTORY_ENTRIES,   \* MAX_ENTRIES of slot_history.rs, 2^20 in the code
    MaxSlot,                \* bound: slots of the block tree
    Parents,                \* bound: the parents a block of each slot may have
    LedgerLoss              \* may a crash of the machine lose blocks?

ASSUME TowerAssumption ==
    /\ SLOT_HISTORY_ENTRIES \in Nat \ {0}
    /\ MaxSlot \in Nat
    /\ Parents \in [0 .. MaxSlot -> SUBSET (0 .. MaxSlot)]
    /\ LedgerLoss \in BOOLEAN

VARIABLES
    ancestors,  \* the block tree: proper ancestors of every block received
    full,       \* blockstore: the blocks whose data is complete
    rooted,     \* blockstore: the slots marked as roots
    disk,       \* the saved tower, or NoTower
    tower,      \* the tower in memory
    bank_forks, \* root, banks, and those of the banks that are frozen
    pc,         \* what the validator is doing
    new_root,   \* handle_votable_bank: the root of the vote, or NoSlot
    promise     \* history: last slot for which each slot voted on is locked,
                \* as far as votes have left the node

vars == <<ancestors, full, rooted, disk, tower, bank_forks, pc, new_root, promise>>

Slots == 0 .. MaxSlot

\* A rooted slot is never given up.
Forever == MaxSlot + 2 ^ (MAX_LOCKOUT_HISTORY + 1)

NoTower == [votes |-> <<>>, root |-> NoSlot, last_vote |-> NoSlot, stray |-> NoSlot]

NoForks == [root |-> NoSlot, banks |-> {}, frozen |-> {}]

stack(t) == [votes |-> t.votes, root |-> t.root]

voted_slots(t) == {t.votes[i].slot : i \in 1 .. Len(t.votes)}

\* slot and everything it builds on
lineage(slot) == ancestors[slot] \cup {slot}

\* BankForks::ancestors
bank_ancestors(slot) == {a \in ancestors[slot] : a >= bank_forks.root}
-----------------------------------------------------------------------------
(* Tower: what may be voted on. *)

is_recent(slot) == tower.votes = <<>> \/ slot > last_voted_slot(tower.votes)

\* The stack as it would be with a vote on slot.
simulated(slot) == process_slot(stack(tower), slot)

\* Votes of the simulated stack that slot does not build on.
conflicts(slot) ==
    {v \in voted_slots(simulated(slot)) : v # slot /\ v \notin bank_ancestors(slot)}

\* Fault form: only old slots are refused.
is_locked_out_if_old(slot) == ~ is_recent(slot)

is_locked_out(slot) == ~ is_recent(slot) \/ conflicts(slot) # {}

\* The assertion at the end of is_locked_out.
root_is_ancestor(slot) ==
    LET root == simulated(slot).root
    IN  slot = root \/ root \in bank_ancestors(slot)

is_stray_last_vote == tower.last_vote # NoSlot /\ tower.stray = tower.last_vote

\* Ancestors of the last vote; a stray one may have no bank.
last_vote_ancestors ==
    IF tower.last_vote \in bank_forks.banks THEN bank_ancestors(tower.last_vote) ELSE {}

\* make_check_switch_threshold_decision: no proof is needed on the fork of the
\* last vote; an ancestor of a stray last vote suspends voting; whether the
\* stake locked out on other forks makes a proof is left open.
may_switch_to(slot) ==
    \/ tower.last_vote = NoSlot
    \/ tower.last_vote \in bank_ancestors(slot) \cup {slot}
    \/ slot \notin last_vote_ancestors

\* The fork choice: some frozen bank without a frozen child.
heaviest_banks ==
    {h \in bank_forks.frozen : \A b \in bank_forks.frozen : h \notin ancestors[b]}

\* Vote recorded in the tower.
record_bank_vote(slot) ==
    [votes |-> simulated(slot).votes, root |-> simulated(slot).root,
     last_vote |-> slot, stray |-> tower.stray]
-----------------------------------------------------------------------------
(* Tower: what a restored tower keeps. *)

\* The slot history of a root bank: the slots found, and the newest.
slot_history(root) == [found |-> lineage(root), newest |-> root]

\* SlotHistory::add of a slot newer than the rest.
history_add(hist, slot) == [found |-> hist.found \cup {slot}, newest |-> slot]

check(hist, slot) ==
    IF slot > hist.newest THEN "Future"
    ELSE IF slot < hist.newest + 1 - SLOT_HISTORY_ENTRIES THEN "TooOld"
    ELSE IF slot \in hist.found THEN "Found" ELSE "NotFound"

slots_in_tower(t) == voted_slots(t) \cup {t.root}

\* Newest slot of the tower that the history has.
anchors(t, hist) == {s \in slots_in_tower(t) : check(hist, s) = "Found"}

\* FatallyInconsistent: nothing to anchor on, or an older slot that is missing,
\* in the future, or known although a newer one is too old.
is_inconsistent(t, hist) ==
    \/ anchors(t, hist) = {}
    \/ \E s \in slots_in_tower(t) :
          s < Max(anchors(t, hist)) /\ check(hist, s) = "NotFound"
    \/ \E s, u \in slots_in_tower(t) :
          s < u /\ \/ check(hist, s) = "Future" /\ check(hist, u) # "Future"
                   \/ check(hist, s) # "TooOld" /\ check(hist, u) = "TooOld"

\* Votes up to the newest one that the history has; 0 if it only has the root.
anchored_votes(t, hist) ==
    Max({0} \cup {i \in 1 .. Len(t.votes) : check(hist, t.votes[i].slot) = "Found"})

\* Fault form: a restored last vote is not known to be stray.
adjust_without_stray(t, hist, root) ==
    LET retained == SubSeq(t.votes, anchored_votes(t, hist) + 1, Len(t.votes))
    IN  [votes |-> retained, root |-> root, last_vote |-> last_voted_slot(retained),
         stray |-> NoSlot]

\* Only the votes above the anchor stay; none is left, or the last is stray.
adjust_lockouts_with_slot_history(t, hist, root) ==
    LET retained == SubSeq(t.votes, anchored_votes(t, hist) + 1, Len(t.votes))
        last     == last_voted_slot(retained)
    IN  [votes |-> retained, root |-> root, last_vote |-> last, stray |-> last]

\* A tower newer than the ledger is anchored on its own root, and keeps it.
adjusted_history(t, replayed_root) ==
    IF t.root <= replayed_root THEN slot_history(replayed_root)
    ELSE history_add(slot_history(replayed_root), t.root)

adjust_fails(t, replayed_root) ==
    \/ /\ t.root <= replayed_root
       /\ check(slot_history(replayed_root), t.last_vote) = "TooOld"
    \/ is_inconsistent(t, adjusted_history(t, replayed_root))

adjust_lockouts_after_replay(t, replayed_root) ==
    adjust_lockouts_with_slot_history(t, adjusted_history(t, replayed_root),
                                      Max({t.root, replayed_root}))

\* Fault form: the tower's root is not written to the blockstore.
reconcile_nothing(t) == {}

\* The blockstore roots missing below the root of the saved tower.
reconcile_blockstore_roots_with_tower(t) ==
    {a \in lineage(t.root) : a > Max(rooted)}
-----------------------------------------------------------------------------
TypeOK ==
    /\ DOMAIN ancestors \subseteq Slots
    /\ \A s \in DOMAIN ancestors : ancestors[s] \subseteq DOMAIN ancestors
    /\ full \subseteq DOMAIN ancestors
    /\ rooted \subseteq DOMAIN ancestors
    /\ \A t \in {disk, tower} :
          /\ t.votes \in Seq(Lockout)
          /\ {t.root, t.last_vote, t.stray} \subseteq Slots \cup {NoSlot}
          /\ t.last_vote = last_voted_slot(t.votes)
    /\ bank_forks.root \in bank_forks.frozen \cup {NoSlot}
    /\ bank_forks.frozen \subseteq bank_forks.banks
    /\ bank_forks.banks \subseteq DOMAIN ancestors
    /\ pc \in {"replay", "saved", "rooted", "down", "aborted"}
    /\ new_root \in Slots \cup {NoSlot}
    /\ promise \in [Slots -> 0 .. Forever]

\* Tower::new_from_bankforks of a validator that has not voted
fresh_tower(root) == [NoTower EXCEPT !.root = root]

Init ==
    /\ ancestors = [s \in {0} |-> {}]
    /\ full = {0}
    /\ rooted = {0}
    /\ disk = NoTower
    /\ tower = fresh_tower(0)
    /\ bank_forks = [root |-> 0, banks |-> {0}, frozen |-> {0}]
    /\ pc = "replay"
    /\ new_root = NoSlot
    /\ promise = [s \in Slots |-> 0]

\* The first shreds of a block arrive, in any order of slots.
ReceiveBlock(slot, parent) ==
    /\ pc = "replay"
    /\ slot \notin DOMAIN ancestors
    /\ parent \in Parents[slot] \cap DOMAIN ancestors /\ parent < slot
    /\ ancestors' = [s \in DOMAIN ancestors \cup {slot} |->
                        IF s = slot THEN lineage(parent) ELSE ancestors[s]]
    /\ UNCHANGED <<full, rooted, disk, tower, bank_forks, pc, new_root, promise>>

\* Blocks known to the blockstore that build directly on a frozen bank.
next_slots ==
    {s \in DOMAIN ancestors :
        ancestors[s] # {} /\ Max(ancestors[s]) \in bank_forks.frozen}

generate_new_bank_forks ==
    /\ pc = "replay"
    /\ bank_forks' = [bank_forks EXCEPT !.banks = @ \cup next_slots]
    /\ UNCHANGED <<ancestors, full, rooted, disk, tower, pc, new_root, promise>>

\* The last entries of a bank have arrived and are replayed; it is frozen.
replay_active_bank(slot) ==
    /\ pc = "replay"
    /\ slot \in bank_forks.banks \ bank_forks.frozen
    /\ full' = full \cup {slot}
    /\ bank_forks' = [bank_forks EXCEPT !.frozen = @ \cup {slot}]
    /\ UNCHANGED <<ancestors, rooted, disk, tower, pc, new_root, promise>>

\* Fault form: votes are recorded and sent before they are saved.
vote_unsaved(slot) ==
    /\ pc = "replay"
    /\ slot \in heaviest_banks
    /\ may_switch_to(slot)
    /\ ~ is_locked_out(slot)
    /\ root_is_ancestor(slot)
    /\ tower' = record_bank_vote(slot)
    /\ disk' = [(IF tower.votes = <<>> THEN tower' ELSE tower) EXCEPT !.stray = NoSlot]
    /\ new_root' = IF tower'.root # tower.root THEN tower'.root ELSE NoSlot
    /\ pc' = "saved"
    /\ UNCHANGED <<ancestors, full, rooted, bank_forks, promise>>

\* handle_votable_bank up to and including Tower::save, for the heaviest bank
\* when select_vote_and_reset_forks lets it be voted on; whether the bank is
\* propagated and passes the stake thresholds is left open.
vote_and_save(slot) ==
    /\ pc = "replay"
    /\ slot \in heaviest_banks
    /\ may_switch_to(slot)
    /\ ~ is_locked_out(slot)
    /\ root_is_ancestor(slot)
    /\ tower' = record_bank_vote(slot)
    /\ disk' = [tower' EXCEPT !.stray = NoSlot]
    /\ new_root' = IF tower'.root # tower.root THEN tower'.root ELSE NoSlot
    /\ pc' = "saved"
    /\ UNCHANGED <<ancestors, full, rooted, bank_forks, promise>>

\* BankForks::prune_non_root
descends(banks, root) == {b \in banks : root \in lineage(b)}

set_root(root) ==
    [root   |-> root,
     banks  |-> descends(bank_forks.banks, root),
     frozen |-> descends(bank_forks.frozen, root)]

\* A new root: the blockstore's roots, then bank_forks (whose loss in a crash
\* makes the two one step).  parents() ends at the root squashed last.
handle_new_root ==
    /\ pc = "saved" /\ new_root # NoSlot
    /\ rooted' = rooted \cup {a \in lineage(new_root) : a >= bank_forks.root}
    /\ bank_forks' = set_root(new_root)
    /\ pc' = "rooted"
    /\ UNCHANGED <<ancestors, full, disk, tower, new_root, promise>>

\* What a vote that leaves the node promises: its lockouts, and its root for ever.
promised(s) ==
    Max({promise[s]}
        \cup {expiration_slot(tower.votes[i]) :
                i \in {j \in 1 .. Len(tower.votes) : tower.votes[j].slot = s}}
        \cup {Forever : r \in {tower.root} \cap {s}})

\* push_vote ends the handler; without a usable authorized voter nothing is sent.
push_vote(sent) ==
    /\ pc = IF new_root = NoSlot THEN "saved" ELSE "rooted"
    /\ promise' = IF sent THEN [s \in Slots |-> promised(s)] ELSE promise
    /\ pc' = "replay"
    /\ new_root' = NoSlot
    /\ UNCHANGED <<ancestors, full, rooted, disk, tower, bank_forks>>

\* The process dies between any two steps; a crash of the machine may also
\* leave blocks incomplete (but not the genesis block).
crash(lost) ==
    /\ pc \in {"replay", "saved", "rooted"}
    /\ lost # {} => LedgerLoss
    /\ full' = full \ lost
    /\ tower' = NoTower
    /\ bank_forks' = NoForks
    /\ pc' = "down"
    /\ new_root' = NoSlot
    /\ UNCHANGED <<ancestors, rooted, disk, promise>>

\* Blocks that load_frozen_forks replays.
replayable == {s \in full : lineage(s) \subseteq full}

\* The roots load_frozen_forks may end at: the last of the blockstore's roots,
\* or, once it has reached all of these, a later one that the vote accounts of
\* a replayed bank above it name.
replayed_roots(roots) ==
    LET last == Max(roots \cap replayable)
    IN  {last} \cup {r \in replayable :
                        /\ last = Max(roots)
                        /\ last \in ancestors[r]
                        /\ \E b \in replayable : r \in ancestors[b]}

replayed_forks(root) ==
    [root |-> root, banks |-> descends(replayable, root), frozen |-> descends(replayable, root)]

\* With require_tower set, a tower that cannot be restored stops a validator
\* whose votes are on the ledger; the votes of this one are taken to be.
post_process_restored_tower(root) ==
    IF disk # NoTower /\ adjust_fails(disk, root)
    THEN /\ pc' = "aborted"
         /\ UNCHANGED <<tower, bank_forks>>
    ELSE /\ pc' = "replay"
         /\ bank_forks' = replayed_forks(root)
         /\ tower' = IF disk = NoTower THEN fresh_tower(root)
                     ELSE adjust_lockouts_after_replay(disk, root)

\* The blockstore's roots catch up with the tower, then the ledger is replayed.
new_banks_from_ledger ==
    /\ pc = "down"
    /\ rooted' = rooted \cup (IF disk = NoTower THEN {}
                              ELSE reconcile_blockstore_roots_with_tower(disk))
    /\ \E root \in replayed_roots(rooted') : post_process_restored_tower(root)
    /\ UNCHANGED <<ancestors, full, disk, new_root, promise>>

Next ==
    \/ \E slot, parent \in Slots : ReceiveBlock(slot, parent)
    \/ generate_new_bank_forks
    \/ \E slot \in Slots : replay_active_bank(slot)
    \/ \E slot \in Slots : vote_and_save(slot)
    \/ handle_new_root
    \/ \E sent \in BOOLEAN : push_vote(sent)
    \/ \E lost \in SUBSET (full \ {0}) : crash(lost)
    \/ new_banks_from_ledger

Spec == Init /\ [][Next]_vars
-----------------------------------------------------------------------------
(* Properties. *)

VoteKeepsPromises ==
    pc = "replay" /\ pc' = "saved" =>
        LET s == tower'.last_vote
        IN  \A p \in DOMAIN promise :
               promise[p] > 0 => /\ p <= s
                                 /\ promise[p] >= s => p \in lineage(s)

\* A vote never breaks a promise made by an earlier one, whatever crashes and
\* restarts lie between: the slot voted on is not older than a slot voted on
\* before, and builds on every such slot that is still locked and on every root.
LockoutsKept == [][VoteKeepsPromises]_vars

\* The tower is one chain: every vote builds on the votes below it, also on
\* those restored from the tower file (adjust_lockouts_with_slot_history); the
\* saved votes build on the saved root, which may be voted for itself, so that
\* the assertion on the order of slots_in_tower holds.
TowerIsChain ==
    /\ \A t \in {disk, tower} :
          \A p, q \in voted_slots(t) : p < q => p \in ancestors[q]
    /\ disk # NoTower => \A v \in voted_slots(disk) : disk.root \in lineage(v)

\* The assertion of is_locked_out, made for every frozen bank in each turn of
\* the replay loop: the root a vote would set is an ancestor of the bank.
RootAssertionHolds ==
    pc = "replay" =>
        \A b \in bank_forks.frozen : ~ is_locked_out(b) => root_is_ancestor(b)

\* make_check_switch_threshold_decision does not panic: the last vote has a
\* bank, and no heaviest bank is an ancestor of it, unless it is stray.
LastVoteHasBank ==
    pc = "replay" /\ tower.last_vote # NoSlot /\ ~ is_stray_last_vote =>
        /\ tower.last_vote \in bank_forks.banks
        /\ heaviest_banks \cap last_vote_ancestors = {}

\* At start-up the blockstore's last root and the root of the saved tower are
\* on one chain, so reconcile_blockstore_roots_with_tower does not panic.
RootsReconcile ==
    disk # NoTower =>
        \/ Max(rooted) \in lineage(disk.root)
        \/ disk.root \in ancestors[Max(rooted)]

\* Unless blocks were lost, a restart never finds a tower it cannot restore,
\* nor one that is newer than the ledger.
RestoreSucceeds ==
    /\ pc # "aborted"
    /\ pc = "replay" => tower.root <= bank_forks.root

\* The blockstore's roots are one chain.
RootsAreChain == \A p, q \in rooted : p < q => p \in ancestors[q]

\* What depends on the roots: the assertion of is_locked_out, the blockstore's
\* chain of roots, and its reconciliation with the saved tower.
RootsSafe == RootAssertionHolds /\ RootsAreChain /\ RootsReconcile

\* The comment on the last assertion of make_check_switch_threshold_decision:
\* no fork tip it counts the locked-out stake of is an ancestor of the last
\* vote, "as they all have a descendant, namely the `last_vote` itself".
switch_candidates ==
    {c \in heaviest_banks :
        /\ c # tower.last_vote /\ tower.last_vote \notin bank_ancestors(c)
        /\ c > tower.root}

needs_switch_proof(slot) ==
    /\ tower.last_vote # NoSlot
    /\ tower.last_vote \notin bank_ancestors(slot) \cup {slot}
    /\ slot \notin last_vote_ancestors

CandidatesAreNotAncestors ==
    pc = "replay" =>
        \A h \in heaviest_banks :
            needs_switch_proof(h) => switch_candidates \cap last_vote_ancestors = {}
=============================================================================
