----------------------- MODULE TowerRestartProofs -----------------------
(***************************************************************************)
(* A validator that loses no block starts again where it was: the roots of  *)
(* the tower, of the blockstore and of the bank forks are on one chain, the *)
(* saved tower can be restored, and the assertion of is_locked_out holds.   *)
(***************************************************************************)
EXTENDS TowerProofs

(* The inductive invariant, on top of that of the tower. *)

\* The roots, in the blockstore and of the saved tower, are on one complete chain.
OneChain ==
    \E tip \in DOMAIN ancestors :
        /\ lineage(tip) \subseteq full
        /\ rooted \subseteq lineage(tip)
        /\ disk # NoTower => disk.root \in lineage(tip)

\* The bank forks have everything up to their root, which no vote is older than.
\* The tower has the same root, or a newer one that is about to be set.
ForksComplete ==
    pc \in Up =>
        /\ bank_forks.frozen \subseteq full
        /\ lineage(bank_forks.root) \subseteq full
        /\ rooted \subseteq lineage(bank_forks.root)
        /\ voted_slots(tower) \cap ancestors[bank_forks.root] = {}
        /\ IF pc = "saved" /\ new_root # NoSlot
           THEN \A v \in voted_slots(tower) : v > new_root
           ELSE tower.root = bank_forks.root
        /\ pc = "replay" /\ disk # NoTower => disk.root \in lineage(bank_forks.root)

\* A block is further above the saved root than the slot history reaches back.
Outrun == \E b \in DOMAIN ancestors : disk.root + SLOT_HISTORY_ENTRIES <= b

AbortedIfOutrun == pc = "aborted" => Outrun

LInv == ~ LedgerLoss => OneChain /\ ForksComplete /\ AbortedIfOutrun
-----------------------------------------------------------------------------
(* Lineages. *)

\* Everything a frozen bank builds on is complete.
LEMMA FrozenComplete ==
    ASSUME IInv, ForksComplete, pc \in Up, NEW b \in bank_forks.frozen
    PROVE  /\ b \in DOMAIN ancestors
           /\ bank_forks.root \in lineage(b)
           /\ lineage(b) \subseteq full
<1>1. b \in DOMAIN ancestors /\ b \in bank_forks.banks /\ bank_forks.root \in lineage(b)
  BY ForksTyped DEF IInv, ForksInv
<1>2. ASSUME NEW a \in lineage(b)
      PROVE  a \in full
  <2>1. a \in Nat /\ bank_forks.root \in Nat
    BY <1>1, <1>2, LineageTransitive DEF IInv
  <2>2. CASE a = b
    BY <2>2 DEF ForksComplete
  <2>3. CASE a # b /\ a >= bank_forks.root
    BY <1>1, <1>2, <2>3 DEF IInv, ForksInv, ForksComplete, lineage
  <2>4. CASE a < bank_forks.root
    <3>1. a \in lineage(bank_forks.root)
      BY <1>1, <1>2, <2>1, <2>4, LineageLinear DEF IInv
    <3> QED
      BY <3>1 DEF ForksComplete
  <2> QED
    BY <2>1, <2>2, <2>3, <2>4
<1> QED
  BY <1>1, <1>2

\* A tree that only grows, and blocks that are only completed, keep the chain.
LEMMA OneChainKept ==
    ASSUME OneChain, TreeKept, full \subseteq full', UNCHANGED <<rooted, disk>>
    PROVE  OneChain'
<1>1. PICK tip \in DOMAIN ancestors :
        /\ lineage(tip) \subseteq full
        /\ rooted \subseteq lineage(tip)
        /\ disk # NoTower => disk.root \in lineage(tip)
  BY DEF OneChain
<1>2. tip \in DOMAIN ancestors' /\ lineage(tip)' = lineage(tip)
  BY LineageKept DEF TreeKept
<1> QED
  BY <1>1, <1>2 DEF OneChain

\* Blocks of one chain: the older is an ancestor of the newer.
LEMMA ChainOrdered ==
    ASSUME Tree, NEW tip \in DOMAIN ancestors, NEW p \in lineage(tip), NEW q \in lineage(tip)
    PROVE  /\ p \in Nat /\ q \in Nat
           /\ p < q => p \in ancestors[q]
           /\ p <= q => p \in lineage(q)
<1>1. p \in Nat /\ q \in Nat
  BY LineageTransitive
<1>2. p <= q => p \in lineage(q)
  BY LineageLinear
<1> QED
  BY <1>1, <1>2 DEF lineage

LEMMA InitLInv ==
    ASSUME Init
    PROVE  LInv
<1>1. lineage(0) = {0} /\ 0 \in DOMAIN ancestors
  BY DEF Init, lineage
<1>2. voted_slots(tower) = {} /\ tower.root = 0
  BY FreshTower DEF Init, SlotOption
<1>3. OneChain
  BY <1>1 DEF OneChain, Init
<1>4. ForksComplete
  BY <1>1, <1>2 DEF ForksComplete, Init
<1> QED
  BY <1>3, <1>4 DEF LInv, AbortedIfOutrun, Init

LEMMA ReceiveBlockLInv ==
    ASSUME IInv, LInv, NEW slot \in Slots, NEW parent \in Slots, ReceiveBlock(slot, parent)
    PROVE  LInv'
<1> SUFFICES ASSUME ~ LedgerLoss
             PROVE  OneChain' /\ ForksComplete' /\ AbortedIfOutrun'
  BY DEF LInv
<1>1. TreeKept
  BY TreeGrows DEF IInv, ReceiveBlock, TreeKept
<1>2. bank_forks.root \in DOMAIN ancestors
  BY ForksTyped DEF IInv, ForksInv, ReceiveBlock, Up
<1>3. lineage(bank_forks.root)' = lineage(bank_forks.root)
      /\ ancestors'[bank_forks.root] = ancestors[bank_forks.root]
  BY <1>1, <1>2, LineageKept DEF TreeKept, ReceiveBlock
<1>4. OneChain'
  BY <1>1, OneChainKept DEF LInv, ReceiveBlock
<1>5. ForksComplete'
  BY <1>3 DEF LInv, ForksComplete, ReceiveBlock, voted_slots
<1> QED
  BY <1>4, <1>5 DEF AbortedIfOutrun, ReceiveBlock

LEMMA generate_new_bank_forksLInv ==
    ASSUME IInv, LInv, generate_new_bank_forks
    PROVE  LInv'
<1> SUFFICES ASSUME ~ LedgerLoss
             PROVE  OneChain' /\ ForksComplete' /\ AbortedIfOutrun'
  BY DEF LInv
<1>1. TreeKept
  BY DEF generate_new_bank_forks, TreeKept
<1>2. bank_forks'.root = bank_forks.root /\ bank_forks'.frozen = bank_forks.frozen
  BY ForksTyped DEF generate_new_bank_forks
<1>3. OneChain'
  BY <1>1, OneChainKept DEF LInv, generate_new_bank_forks
<1>4. ForksComplete'
  BY <1>2 DEF LInv, ForksComplete, generate_new_bank_forks, voted_slots, lineage
<1> QED
  BY <1>3, <1>4 DEF AbortedIfOutrun, generate_new_bank_forks

LEMMA replay_active_bankLInv ==
    ASSUME IInv, LInv, NEW slot \in Slots, replay_active_bank(slot)
    PROVE  LInv'
<1> SUFFICES ASSUME ~ LedgerLoss
             PROVE  OneChain' /\ ForksComplete' /\ AbortedIfOutrun'
  BY DEF LInv
<1>1. TreeKept
  BY DEF replay_active_bank, TreeKept
<1>2. bank_forks'.root = bank_forks.root /\ bank_forks'.frozen = bank_forks.frozen \cup {slot}
  BY ForksTyped DEF replay_active_bank
<1>3. OneChain'
  BY <1>1, OneChainKept DEF LInv, replay_active_bank
<1>4. ForksComplete'
  BY <1>2 DEF LInv, ForksComplete, replay_active_bank, voted_slots, lineage
<1> QED
  BY <1>3, <1>4 DEF AbortedIfOutrun, replay_active_bank

LEMMA crashLInv ==
    ASSUME IInv, LInv, NEW lost \in SUBSET (full \ {0}), crash(lost)
    PROVE  LInv'
<1> SUFFICES ASSUME ~ LedgerLoss
             PROVE  OneChain' /\ ForksComplete' /\ AbortedIfOutrun'
  BY DEF LInv
<1>1. TreeKept /\ full' = full
  BY DEF crash, TreeKept
<1>2. OneChain'
  BY <1>1, OneChainKept DEF LInv, crash
<1>3. ForksComplete'
  BY DEF ForksComplete, crash, Up
<1> QED
  BY <1>2, <1>3 DEF AbortedIfOutrun, crash

\* handle_new_root sets a root that is on the chain of all the roots before it.
LEMMA handle_new_rootLInv ==
    ASSUME IInv, LInv, handle_new_root
    PROVE  LInv'
<1> SUFFICES ASSUME ~ LedgerLoss
             PROVE  OneChain' /\ ForksComplete' /\ AbortedIfOutrun'
  BY DEF LInv
<1> DEFINE last == tower.last_vote
<1>1. /\ pc = "saved" /\ pc \in Up /\ new_root # NoSlot
      /\ last \in bank_forks.frozen
      /\ new_root = tower.root /\ new_root \in lineage(last) /\ new_root >= bank_forks.root
      /\ disk.root = tower.root
  BY DEF IInv, TowerInv, handle_new_root, Up, VotesInv, TowerRecord
<1>2. last \in DOMAIN ancestors /\ bank_forks.root \in lineage(last) /\ lineage(last) \subseteq full
  BY <1>1, FrozenComplete DEF LInv
<1> HIDE DEF last
<1>3. /\ new_root \in DOMAIN ancestors /\ new_root \in Nat
      /\ lineage(new_root) \subseteq lineage(last)
      /\ bank_forks.root \in Nat
      /\ bank_forks.root \in lineage(new_root)
  BY <1>1, <1>2, LineageTransitive, LineageLinear DEF IInv
<1>4. lineage(bank_forks.root) \subseteq lineage(new_root)
  BY <1>3, LineageTransitive DEF IInv
<1>5. rooted' \subseteq lineage(new_root)
  BY <1>1, <1>4 DEF LInv, ForksComplete, handle_new_root
<1>6. UNCHANGED <<ancestors, full, disk, tower, new_root>> /\ pc' = "rooted"
  BY DEF handle_new_root
<1>7. OneChain'
  <2>1. new_root \in lineage(new_root)
    BY DEF lineage
  <2> QED
    BY <1>1, <1>2, <1>3, <1>5, <1>6, <2>1, SMTT(60) DEF OneChain, lineage
<1>8. ForksComplete'
  <2>1. bank_forks'.root = new_root /\ bank_forks'.frozen \subseteq bank_forks.frozen
    BY DEF handle_new_root, set_root, descends
  <2>2. \A v \in voted_slots(tower) : v > new_root
    BY <1>1 DEF LInv, ForksComplete
  <2>3. voted_slots(tower) \cap ancestors[new_root] = {}
    <3>1. \A a \in ancestors[new_root] : a \in Nat /\ a <= new_root
      BY <1>3, LineageTransitive DEF IInv, lineage
    <3>2. voted_slots(tower) \subseteq Nat
      BY ForksTyped DEF IInv, VotesInv
    <3> QED
      BY <1>3, <2>2, <3>1, <3>2, SMTT(60)
  <2>4. lineage(new_root) \subseteq full
    BY <1>2, <1>3
  <2>5. bank_forks.frozen \subseteq full
    BY <1>1 DEF LInv, ForksComplete
  <2> QED
    BY <1>1, <1>5, <1>6, <2>1, <2>3, <2>4, <2>5, SMTT(60) DEF ForksComplete, voted_slots, lineage
<1> QED
  BY <1>7, <1>8 DEF AbortedIfOutrun, handle_new_root

LEMMA push_voteLInv ==
    ASSUME IInv, LInv, NEW sent \in BOOLEAN, push_vote(sent)
    PROVE  LInv'
<1> SUFFICES ASSUME ~ LedgerLoss
             PROVE  OneChain' /\ ForksComplete' /\ AbortedIfOutrun'
  BY DEF LInv
<1>1. /\ UNCHANGED <<ancestors, full, rooted, disk, tower, bank_forks>>
      /\ pc' = "replay" /\ pc \in {"saved", "rooted"} /\ pc \in Up
      /\ pc = "saved" => new_root = NoSlot
  BY DEF push_vote, Up
<1>2. OneChain'
  BY <1>1 DEF LInv, OneChain, lineage
<1>3. disk.root = tower.root /\ tower.root = bank_forks.root
  BY <1>1 DEF IInv, TowerInv, VotesInv, TowerRecord, LInv, ForksComplete
<1>4. disk.root \in lineage(bank_forks.root)
  BY <1>3 DEF lineage
<1>5. ForksComplete'
  BY <1>1, <1>3, <1>4, SMTT(60) DEF LInv, ForksComplete, voted_slots, lineage
<1> QED
  BY <1>2, <1>5 DEF AbortedIfOutrun, push_vote

\* A vote that pops the root of a full stack: the votes left are newer than the
\* new root, and in a stack of two or more the vote above it is still there.
LEMMA RootPopped ==
    ASSUME NEW votes \in Seq(Lockout), NEW root, NEW slot \in Nat,
           SlotsIncrease(votes), ~ is_ignored(votes, slot)
    PROVE  LET new == process_slot([votes |-> votes, root |-> root], slot)
           IN  \/ new.root = root
               \/ /\ 1 \in 1 .. Len(votes) /\ new.root = votes[1].slot
                  /\ \A i \in 1 .. Len(new.votes) : new.votes[i].slot > new.root
                  /\ MAX_LOCKOUT_HISTORY > 1 =>
                        /\ 2 \in 1 .. Len(votes)
                        /\ \E i \in 1 .. Len(new.votes) : new.votes[i].slot = votes[2].slot
<1> DEFINE live == pop_expired_votes(votes, slot)
           h == Len(live)
           popped == h = MAX_LOCKOUT_HISTORY
           pushed == Append(Tail(live), NewLockout(slot))
           dbl == double_lockouts(pushed)
           new == process_slot([votes |-> votes, root |-> root], slot)
<1>1. CASE ~ popped
  BY <1>1 DEF process_slot
<1>2. CASE popped
  <2>1. new.votes = dbl /\ new.root = live[1].slot
    BY <1>2 DEF process_slot
  <2> HIDE DEF new
  <2>2. /\ Len(votes) \in Nat
        /\ \A i \in 1 .. Len(votes) : votes[i] \in Lockout /\ votes[i].slot \in Nat
    BY VotesTyped
  <2>3. /\ live \in Seq(Lockout) /\ h \in Nat /\ h <= Len(votes)
        /\ \A i \in 1 .. h : live[i] = votes[i]
    BY PopExpiredPrefix
  <2>4. MAX_LOCKOUT_HISTORY \in Nat \ {0} /\ h >= 1
    BY <1>2, <2>3, MaxLockoutHistoryAssumption
  <2> HIDE DEF live, h
  <2>5. /\ Tail(live) \in Seq(Lockout) /\ Len(Tail(live)) = h - 1
        /\ \A i \in 1 .. h - 1 : Tail(live)[i] = votes[i + 1]
    BY <2>3, <2>4 DEF h
  <2>6. /\ pushed \in Seq(Lockout) /\ Len(pushed) = h
        /\ \A i \in 1 .. h - 1 : pushed[i] = votes[i + 1]
        /\ pushed[h].slot = slot
    <3> DEFINE t == Tail(live)
    <3> HIDE DEF t
    <3>1. t \in Seq(Lockout) /\ Len(t) = h - 1 /\ \A i \in 1 .. h - 1 : t[i] = votes[i + 1]
      BY <2>5 DEF t
    <3> DEFINE v == NewLockout(slot)
    <3>2. v \in Lockout /\ v.slot = slot
      BY DEF NewLockout, Lockout
    <3>3. pushed = Append(t, v)
      BY DEF t
    <3> HIDE DEF v, pushed
    <3>4. /\ pushed \in Seq(Lockout) /\ Len(pushed) = h
          /\ pushed[h] = v
          /\ \A i \in 1 .. h - 1 : pushed[i] = t[i]
      BY <2>3, <2>4, <3>1, <3>2, <3>3, SMTT(60)
    <3> QED
      BY <3>1, <3>2, <3>4
  <2> HIDE DEF pushed
  <2>7. Len(dbl) = h /\ \A i \in 1 .. h : dbl[i].slot = pushed[i].slot
    BY <2>6, DoubleKeeps
  <2> HIDE DEF dbl
  <2>8. 1 \in 1 .. Len(votes) /\ new.root = votes[1].slot /\ new.root \in Nat
    BY <2>1, <2>2, <2>3, <2>4
  <2>9. votes[1].slot < slot
    <3>1. votes # <<>> /\ votes[Len(votes)].slot \in Nat /\ votes[Len(votes)].slot < slot
      BY <2>2, <2>8 DEF is_ignored, last_voted_slot
    <3>2. 1 = Len(votes) \/ votes[1].slot < votes[Len(votes)].slot
      <4> DEFINE n == Len(votes)
      <4>1. n \in Nat /\ n >= 1
        BY <2>2, <2>3, <2>4
      <4> HIDE DEF n
      <4>2. n \in 1 .. n /\ 1 \in 1 .. n /\ (1 = n \/ 1 < n)
        BY <4>1
      <4> QED
        BY <4>2 DEF SlotsIncrease, n
    <3> QED
      BY <2>2, <2>8, <3>1, <3>2
  <2>10. ASSUME NEW i \in 1 .. h
         PROVE  dbl[i].slot > votes[1].slot
    <3>1. CASE i = h
      BY <2>4, <2>6, <2>7, <2>8, <2>9, <3>1, SMTT(60)
    <3>2. CASE i \in 1 .. h - 1
      <4>1. i + 1 \in 1 .. Len(votes) /\ 1 < i + 1
        BY <2>2, <2>3, <3>2
      <4>2. votes[1].slot < votes[i + 1].slot
        BY <2>8, <4>1 DEF SlotsIncrease
      <4>3. dbl[i].slot = votes[i + 1].slot
        BY <2>6, <2>7, <3>2
      <4> QED
        BY <2>2, <2>8, <4>1, <4>2, <4>3, SMTT(60)
    <3> QED
      BY <2>3, <2>4, <3>1, <3>2
  <2>11. ASSUME MAX_LOCKOUT_HISTORY > 1
         PROVE  /\ 2 \in 1 .. Len(votes)
                /\ \E i \in 1 .. h : dbl[i].slot = votes[2].slot
    <3>1. h >= 2 /\ 1 \in 1 .. h - 1 /\ 1 \in 1 .. h /\ 2 \in 1 .. Len(votes)
      BY <1>2, <2>2, <2>3, <2>4, <2>11, SMTT(60)
    <3>2. dbl[1].slot = votes[2].slot
      BY <2>6, <2>7, <3>1
    <3> QED
      BY <3>1, <3>2
  <2>12. \A i \in 1 .. Len(new.votes) : new.votes[i].slot > new.root
    BY <2>1, <2>7, <2>8, <2>10
  <2>13. MAX_LOCKOUT_HISTORY > 1 =>
            /\ 2 \in 1 .. Len(votes)
            /\ \E i \in 1 .. Len(new.votes) : new.votes[i].slot = votes[2].slot
    BY <2>1, <2>7, <2>11
  <2> QED
    BY <2>8, <2>12, <2>13, ZenonT(40) DEF new
<1> QED
  BY <1>1, <1>2

\* The same of the tower.
LEMMA SimulatedRoot ==
    ASSUME VotesInv(tower), NEW slot \in Nat, is_recent(slot)
    PROVE  LET new == simulated(slot)
               votes == tower.votes
           IN  \/ new.root = tower.root
               \/ /\ 1 \in 1 .. Len(votes) /\ new.root = votes[1].slot
                  /\ \A i \in 1 .. Len(new.votes) : new.votes[i].slot > new.root
                  /\ MAX_LOCKOUT_HISTORY > 1 =>
                        /\ 2 \in 1 .. Len(votes)
                        /\ \E i \in 1 .. Len(new.votes) : new.votes[i].slot = votes[2].slot
<1> DEFINE votes == tower.votes
<1>1. votes \in Seq(Lockout) /\ SlotsIncrease(votes)
  BY DEF VotesInv, TowerRecord
<1>2. votes # <<>> => last_voted_slot(votes) \in Nat
  BY <1>1, VotesTyped DEF last_voted_slot
<1>3. ~ is_ignored(votes, slot)
  BY <1>2 DEF is_recent, is_ignored
<1> DEFINE new == process_slot([votes |-> votes, root |-> tower.root], slot)
<1>4. \/ new.root = tower.root
      \/ /\ 1 \in 1 .. Len(votes) /\ new.root = votes[1].slot
         /\ \A i \in 1 .. Len(new.votes) : new.votes[i].slot > new.root
         /\ MAX_LOCKOUT_HISTORY > 1 =>
               /\ 2 \in 1 .. Len(votes)
               /\ \E i \in 1 .. Len(new.votes) : new.votes[i].slot = votes[2].slot
  <2> HIDE DEF votes
  <2> QED
    BY <1>1, <1>3, RootPopped, ZenonT(40)
<1>5. simulated(slot) = new
  BY DEF simulated, stack
<1> HIDE DEF new
<1> QED
  BY <1>4, <1>5

\* vote_and_save: the root of the tower moves along the chain of the bank voted on.
LEMMA vote_and_saveLInv ==
    ASSUME IInv, LInv, NEW slot \in Slots, vote_and_save(slot)
    PROVE  LInv'
<1> SUFFICES ASSUME ~ LedgerLoss
             PROVE  OneChain' /\ ForksComplete' /\ AbortedIfOutrun'
  BY DEF LInv
<1> DEFINE new == simulated(slot)
<1>1. pc = "replay" /\ pc \in Up /\ slot \in bank_forks.frozen /\ slot \in Nat /\ is_recent(slot)
  BY TowerAssumption DEF vote_and_save, heaviest_banks, is_locked_out, Up, Slots
<1>2. slot \in DOMAIN ancestors /\ bank_forks.root \in lineage(slot) /\ lineage(slot) \subseteq full
  BY <1>1, FrozenComplete DEF LInv
<1>3. new.root \in lineage(slot) /\ bank_forks.root \in lineage(new.root)
  BY VotedOn
<1>4. \/ new.root = tower.root
      \/ \A i \in 1 .. Len(new.votes) : new.votes[i].slot > new.root
  BY <1>1, SimulatedRoot DEF IInv
<1>5. \A i \in 1 .. Len(new.votes) :
         \/ new.votes[i].slot = slot
         \/ \E j \in 1 .. Len(tower.votes) : new.votes[i].slot = tower.votes[j].slot
  BY <1>1, SimulatedKeeps DEF IInv
<1> HIDE DEF new
<1>6. /\ UNCHANGED <<ancestors, full, rooted, bank_forks>>
      /\ pc' = "saved"
      /\ tower'.votes = new.votes /\ tower'.root = new.root
      /\ disk'.root = new.root
      /\ new_root' = IF new.root # tower.root THEN new.root ELSE NoSlot
  BY DEF vote_and_save, record_bank_vote, new
<1>7. voted_slots(tower)' \subseteq voted_slots(tower) \cup {slot}
  BY <1>5, <1>6 DEF voted_slots
<1>8. OneChain'
  <2>1. lineage(bank_forks.root) \subseteq lineage(slot)
    BY <1>2, LineageTransitive DEF IInv
  <2>2. rooted \subseteq lineage(slot)
    BY <1>1, <2>1 DEF LInv, ForksComplete
  <2> QED
    BY <1>2, <1>3, <1>6, <2>2, SMTT(60) DEF OneChain, lineage
<1>9. ForksComplete'
  <2>1. slot \notin ancestors[bank_forks.root]
    <3>1. bank_forks.root \in DOMAIN ancestors /\ bank_forks.root \in Nat /\ bank_forks.root <= slot
      BY <1>2, LineageTransitive DEF IInv
    <3>2. \A a \in ancestors[bank_forks.root] : a < bank_forks.root
      BY <3>1 DEF IInv, Tree
    <3> QED
      BY <1>1, <3>1, <3>2
  <2>2. voted_slots(tower)' \cap ancestors[bank_forks.root] = {}
    BY <1>1, <1>7, <2>1 DEF LInv, ForksComplete
  <2>3. tower.root = bank_forks.root
    BY <1>1 DEF LInv, ForksComplete
  <2>4. new.root # tower.root => \A v \in voted_slots(tower)' : v > new.root
    BY <1>4, <1>6 DEF voted_slots
  <2>5. new.root # NoSlot
    BY <1>2, <1>3, LineageTransitive, SMTT(60) DEF IInv, NoSlot
  <2> QED
    BY <1>1, <1>6, <2>2, <2>3, <2>4, <2>5, SMTT(60) DEF LInv, ForksComplete, lineage
<1> QED
  BY <1>8, <1>9 DEF AbortedIfOutrun, vote_and_save

-----------------------------------------------------------------------------
(* The restart. *)

\* The blockstore's roots after reconcile_blockstore_roots_with_tower.
marked_roots ==
    rooted \cup (IF disk = NoTower THEN {} ELSE reconcile_blockstore_roots_with_tower(disk))

\* load_frozen_forks ends at a root that builds on all the roots there were.
LEMMA RestartRoot ==
    ASSUME IInv, OneChain, NEW root \in replayed_roots(marked_roots)
    PROVE  /\ root \in replayable /\ root \in DOMAIN ancestors
           /\ lineage(root) \subseteq full
           /\ marked_roots \subseteq lineage(root)
           /\ disk # NoTower => disk.root \in lineage(root)
<1>1. PICK tip \in DOMAIN ancestors :
        /\ lineage(tip) \subseteq full
        /\ rooted \subseteq lineage(tip)
        /\ disk # NoTower => disk.root \in lineage(tip)
  BY DEF OneChain
<1>2. /\ tip \in Nat /\ lineage(tip) \subseteq DOMAIN ancestors
      /\ \A s \in lineage(tip) : s \in Nat /\ s <= tip /\ lineage(s) \subseteq lineage(tip)
  <2>1. tip \in lineage(tip) /\ Tree
    BY DEF IInv, lineage
  <2> QED
    BY <2>1, LineageTransitive
<1>3. 0 \in rooted /\ 0 \in marked_roots
  BY DEF IInv, LedgerInv, marked_roots
<1>4. marked_roots \subseteq lineage(tip)
  BY <1>1, <1>2 DEF marked_roots, reconcile_blockstore_roots_with_tower
<1>5. marked_roots \subseteq replayable
  BY <1>1, <1>2, <1>4 DEF replayable
<1> DEFINE last == Max(marked_roots)
<1>6. last \in marked_roots /\ \A s \in marked_roots : s <= last
  <2>1. marked_roots \in SUBSET Nat /\ marked_roots # {} /\ \A s \in marked_roots : s <= tip
    BY <1>2, <1>3, <1>4
  <2> QED
    BY <1>2, <2>1, GreatestNat, ZenonT(40)
<1>7. Max(rooted) \in rooted
  <2>1. rooted \in SUBSET Nat /\ rooted # {} /\ \A s \in rooted : s <= tip
    BY <1>1, <1>2, <1>3
  <2> QED
    BY <1>2, <2>1, GreatestNat, ZenonT(40)
<1>8. last = Max(marked_roots \cap replayable)
  <2>1. marked_roots \cap replayable = marked_roots
    BY <1>5
  <2> QED
    BY <2>1
<1> HIDE DEF last
<1>9. last \in lineage(tip) /\ marked_roots \subseteq lineage(last)
  BY <1>1, <1>4, <1>6, ChainOrdered, SMTT(60) DEF IInv
<1>10. disk # NoTower => disk.root \in lineage(last)
  <2> SUFFICES ASSUME disk # NoTower
               PROVE  disk.root \in lineage(last)
    OBVIOUS
  <2>1. disk.root \in lineage(tip) /\ disk.root \in Nat /\ Max(rooted) \in Nat /\ last \in Nat
    BY <1>1, <1>2, <1>7, <1>9
  <2>2. disk.root <= last
    <3>1. CASE disk.root > Max(rooted)
      <4>1. disk.root \in marked_roots
        BY <3>1 DEF marked_roots, reconcile_blockstore_roots_with_tower, lineage
      <4> QED
        BY <1>6, <4>1
    <3>2. CASE disk.root <= Max(rooted)
      <4>1. Max(rooted) \in marked_roots
        BY <1>7 DEF marked_roots
      <4>2. Max(rooted) <= last
        BY <1>6, <4>1
      <4> QED
        BY <2>1, <3>2, <4>2
    <3> QED
      BY <2>1, <3>1, <3>2
  <2> QED
    BY <1>1, <1>9, <2>1, <2>2, ChainOrdered, SMTT(60) DEF IInv
<1>11. root \in replayable /\ last \in lineage(root)
  <2>1. last \in replayable
    BY <1>5, <1>6
  <2>2. root = last \/ (root \in replayable /\ last \in ancestors[root])
    BY <1>8 DEF replayed_roots
  <2> QED
    BY <2>1, <2>2 DEF lineage
<1>12. root \in DOMAIN ancestors /\ lineage(root) \subseteq full
  BY <1>11 DEF IInv, LedgerInv, replayable
<1>13. lineage(last) \subseteq lineage(root)
  BY <1>11, <1>12, LineageTransitive DEF IInv
<1> QED
  BY <1>9, <1>10, <1>11, <1>12, <1>13, SMTT(60)

\* A tower restored on a root that builds on its own takes over that root, and
\* keeps only votes that are not below it.
LEMMA RestoredTower ==
    ASSUME IInv, disk # NoTower, NEW root \in DOMAIN ancestors,
           disk.root \in lineage(root), ~ adjust_fails(disk, root)
    PROVE  LET new == adjust_lockouts_after_replay(disk, root)
           IN  /\ new.root = root
               /\ voted_slots(new) \cap ancestors[root] = {}
<1> DEFINE new == adjust_lockouts_after_replay(disk, root)
           hist == slot_history(root)
           k == anchored_votes(disk, hist)
           votes == disk.votes
<1>1. /\ root \in Nat /\ disk.root \in Nat /\ disk.root <= root
      /\ SLOT_HISTORY_ENTRIES \in Nat
  BY LineageTransitive, TowerAssumption DEF IInv
<1>2. adjusted_history(disk, root) = hist
  BY <1>1 DEF adjusted_history
<1>3. /\ new.votes = SubSeq(votes, k + 1, Len(votes))
      /\ new.root = root \/ new.root = disk.root
      /\ new.root >= root
  <2> HIDE DEF hist
  <2> QED
    BY <1>2, AdjustedTower, SMTT(60)
<1>4. new.root = root
  BY <1>1, <1>3, SMTT(60)
<1>5. votes \in Seq(Lockout) /\ SlotsIncrease(votes) /\ BuildsOnRoot(disk)
      /\ voted_slots(disk) \subseteq DOMAIN ancestors
  BY DEF IInv, VotesInv, TowerRecord, DiskInv
<1>6. /\ Len(votes) \in Nat
      /\ \A i \in 1 .. Len(votes) : votes[i].slot \in Nat
  BY <1>5, VotesTyped
<1>7. hist.found = lineage(root) /\ hist.newest = root
  BY DEF slot_history
<1> HIDE DEF hist, votes, new
<1>8. /\ k \in 0 .. Len(votes)
      /\ k # 0 => check(hist, votes[k].slot) = "Found"
      /\ \A i \in k + 1 .. Len(votes) : check(hist, votes[i].slot) # "Found"
  BY <1>5, AnchoredVotes DEF votes
<1> HIDE DEF k
<1>9. \E u \in slots_in_tower(disk) : check(hist, u) = "Found"
  BY <1>2 DEF adjust_fails, is_inconsistent, anchors
<1>10. ASSUME NEW i \in k + 1 .. Len(votes)
       PROVE  votes[i].slot \notin ancestors[root]
  <2> DEFINE v == votes[i].slot
  <2>1. i \in 1 .. Len(votes) /\ k < i /\ v \in Nat /\ check(hist, v) # "Found"
    BY <1>6, <1>8, SMTT(60)
  <2>2. v \in voted_slots(disk)
    BY <2>1 DEF voted_slots, votes
  <2>3. \E u \in Nat : u <= v /\ check(hist, u) = "Found"
    <3>1. CASE k # 0
      <4>1. k \in 1 .. Len(votes)
        BY <1>6, <1>8, <3>1, SMTT(60)
      <4>2. votes[k].slot < v /\ votes[k].slot \in Nat
        BY <1>5, <1>6, <2>1, <4>1, SMTT(60) DEF SlotsIncrease
      <4> QED
        BY <1>8, <2>1, <3>1, <4>2, SMTT(60)
    <3>2. CASE k = 0
      <4>1. PICK u \in slots_in_tower(disk) : check(hist, u) = "Found"
        BY <1>9
      <4>2. u \notin voted_slots(disk)
        BY <1>6, <1>8, <3>2, <4>1, SMTT(60) DEF voted_slots, votes
      <4>3. u = disk.root
        BY <4>1, <4>2 DEF slots_in_tower
      <4>4. disk.root \in lineage(v) /\ v \in DOMAIN ancestors
        BY <1>5, <2>2 DEF BuildsOnRoot
      <4>5. disk.root <= v
        BY <4>4, LineageTransitive DEF IInv
      <4> QED
        BY <1>1, <4>1, <4>3, <4>5, SMTT(60)
    <3> QED
      BY <3>1, <3>2
  <2> HIDE DEF v
  <2>4. PICK u \in Nat : u <= v /\ check(hist, u) = "Found"
    BY <2>3
  <2>5. ~ (u < root + 1 - SLOT_HISTORY_ENTRIES)
    BY <1>7, <2>4 DEF check
  <2>6. ~ (v < root + 1 - SLOT_HISTORY_ENTRIES)
    BY <1>1, <2>1, <2>4, <2>5, SMTT(60)
  <2>7. ASSUME v \in ancestors[root]
        PROVE  FALSE
    <3>1. v \in lineage(root) /\ v <= root
      BY <2>7, LineageTransitive DEF IInv, lineage
    <3>2. ~ (v > root)
      BY <1>1, <2>1, <3>1
    <3> QED
      BY <1>7, <2>1, <2>6, <3>1, <3>2, SMTT(60) DEF check
  <2> QED
    BY <2>7 DEF v
<1>11. ASSUME NEW w \in voted_slots(new)
       PROVE  w \notin ancestors[root]
  <2>1. /\ Len(new.votes) = Len(votes) - k
        /\ \A i \in 1 .. Len(votes) - k : i + k \in 1 .. Len(votes) /\ new.votes[i] = votes[i + k]
    BY <1>3, <1>5, <1>8, Suffix, SMTT(60)
  <2>2. PICK i \in 1 .. Len(new.votes) : w = new.votes[i].slot
    BY DEF voted_slots
  <2>3. i \in 1 .. Len(votes) - k /\ w = votes[i + k].slot
    BY <2>1, <2>2
  <2>4. i + k \in k + 1 .. Len(votes)
    BY <1>6, <1>8, <2>3
  <2> QED
    BY <1>10, <2>3, <2>4, ZenonT(40)
<1> QED
  BY <1>4, <1>11 DEF new

\* In a history that reaches back to its root, a saved tower whose root is on the
\* replayed chain is consistent.
LEMMA RestoreConsistent ==
    ASSUME IInv, disk # NoTower, NEW root \in DOMAIN ancestors,
           disk.root \in lineage(root), disk.root + SLOT_HISTORY_ENTRIES > root
    PROVE  ~ adjust_fails(disk, root)
<1> DEFINE hist == slot_history(root)
<1>1. /\ root \in Nat /\ disk.root \in Nat /\ disk.root <= root
      /\ SLOT_HISTORY_ENTRIES \in Nat
  BY LineageTransitive, TowerAssumption DEF IInv
<1>2. adjusted_history(disk, root) = hist
  BY <1>1 DEF adjusted_history
<1>3. /\ voted_slots(disk) \subseteq DOMAIN ancestors /\ DOMAIN ancestors \subseteq Nat
      /\ \A p, q \in voted_slots(disk) : p < q => p \in ancestors[q]
      /\ disk.root \in DOMAIN ancestors /\ BuildsOnRoot(disk)
      /\ disk.last_vote \in voted_slots(disk)
  <2>1. disk.votes \in Seq(Lockout) /\ disk.votes # <<>>
        /\ disk.last_vote = last_voted_slot(disk.votes)
    BY DEF IInv, VotesInv, TowerRecord, DiskInv
  <2>2. disk.last_vote \in voted_slots(disk)
    BY <2>1, VotesTyped DEF last_voted_slot, voted_slots
  <2> QED
    BY <2>2, ForksTyped DEF IInv, VotesInv, DiskInv
<1>4. ASSUME NEW s \in slots_in_tower(disk)
      PROVE  s \in DOMAIN ancestors /\ s \in Nat /\ disk.root <= s
  <2>1. CASE s = disk.root
    BY <1>1, <1>3, <2>1, SMTT(60)
  <2>2. CASE s \in voted_slots(disk)
    BY <1>3, <2>2, LineageTransitive DEF IInv, BuildsOnRoot
  <2> QED
    BY <2>1, <2>2 DEF slots_in_tower
<1>5. ASSUME NEW s \in slots_in_tower(disk)
      PROVE  check(hist, s) = IF s > root THEN "Future"
                              ELSE IF s \in lineage(root) THEN "Found" ELSE "NotFound"
  <2>1. ~ (s < root + 1 - SLOT_HISTORY_ENTRIES)
    BY <1>1, <1>4
  <2> QED
    BY <2>1 DEF check, slot_history
<1>6. \A s, u \in slots_in_tower(disk) : s < u => s \in lineage(u)
  <2> SUFFICES ASSUME NEW s \in slots_in_tower(disk), NEW u \in slots_in_tower(disk), s < u
               PROVE  s \in lineage(u)
    OBVIOUS
  <2>1. CASE u \in voted_slots(disk)
    BY <1>3, <2>1 DEF slots_in_tower, BuildsOnRoot, lineage
  <2>2. CASE u = disk.root
    BY <1>1, <1>4, <2>2, SMTT(60)
  <2> QED
    BY <2>1, <2>2 DEF slots_in_tower
<1> HIDE DEF hist
<1>7. check(hist, disk.last_vote) # "TooOld"
  BY <1>3, <1>5 DEF slots_in_tower
<1>8. disk.root \in slots_in_tower(disk) /\ anchors(disk, hist) # {}
  BY <1>1, <1>5 DEF anchors, slots_in_tower
<1>9. Max(anchors(disk, hist)) \in anchors(disk, hist)
  <2>1. anchors(disk, hist) \in SUBSET Nat /\ \A s \in anchors(disk, hist) : s <= root
    BY <1>1, <1>4, <1>5 DEF anchors
  <2> QED
    BY <1>1, <1>8, <2>1, GreatestNat, ZenonT(40)
<1>10. ASSUME NEW s \in slots_in_tower(disk), s < Max(anchors(disk, hist))
       PROVE  check(hist, s) # "NotFound"
  <2> DEFINE u == Max(anchors(disk, hist))
  <2>1. u \in slots_in_tower(disk) /\ check(hist, u) = "Found" /\ s < u
    BY <1>9, <1>10 DEF anchors
  <2> HIDE DEF u
  <2>2. u \in lineage(root) /\ s \in lineage(u)
    BY <1>5, <1>6, <2>1
  <2>3. s \in lineage(root)
    BY <2>2, LineageTransitive DEF IInv
  <2> QED
    BY <1>5, <2>3
<1>11. ASSUME NEW s \in slots_in_tower(disk), NEW u \in slots_in_tower(disk), s < u
       PROVE  /\ ~ (check(hist, s) = "Future" /\ check(hist, u) # "Future")
              /\ check(hist, u) # "TooOld"
  <2>1. s \in Nat /\ u \in Nat
    BY <1>4
  <2>2. check(hist, s) = "Future" => s > root
    BY <1>5
  <2>3. s > root => u > root
    BY <1>1, <1>11, <2>1, SMTT(60)
  <2>4. (u > root => check(hist, u) = "Future") /\ check(hist, u) # "TooOld"
    BY <1>5
  <2> QED
    BY <2>2, <2>3, <2>4
<1>12. ~ is_inconsistent(disk, hist)
  BY <1>8, <1>10, <1>11, ZenonT(40) DEF is_inconsistent
<1> QED
  BY <1>2, <1>7, <1>12 DEF adjust_fails, hist

\* new_banks_from_ledger: the roots come back to one chain, and only a tower that
\* the ledger has outrun is refused.
LEMMA new_banks_from_ledgerLInv ==
    ASSUME IInv, LInv, new_banks_from_ledger
    PROVE  LInv'
<1> SUFFICES ASSUME ~ LedgerLoss
             PROVE  OneChain' /\ ForksComplete' /\ AbortedIfOutrun'
  BY DEF LInv
<1>1. UNCHANGED <<ancestors, full, disk>> /\ rooted' = marked_roots
  BY DEF new_banks_from_ledger, marked_roots
<1>2. PICK root \in replayed_roots(marked_roots) : post_process_restored_tower(root)
  <2>1. \E root \in replayed_roots(rooted') : post_process_restored_tower(root)
    BY DEF new_banks_from_ledger
  <2> QED
    BY <1>1, <2>1
<1>3. OneChain
  BY DEF LInv
<1>4. /\ root \in replayable /\ root \in DOMAIN ancestors
      /\ lineage(root) \subseteq full
      /\ marked_roots \subseteq lineage(root)
      /\ disk # NoTower => disk.root \in lineage(root)
  BY <1>2, <1>3, RestartRoot, SMTT(60)
<1>5. OneChain'
  BY <1>1, <1>4 DEF OneChain, lineage
<1>6. CASE disk # NoTower /\ adjust_fails(disk, root)
  <2>1. pc' = "aborted"
    BY <1>2, <1>6 DEF post_process_restored_tower
  <2>2. ~ (disk.root + SLOT_HISTORY_ENTRIES > root)
    BY <1>4, <1>6, RestoreConsistent, SMTT(60)
  <2>3. disk.root \in Nat /\ root \in Nat /\ SLOT_HISTORY_ENTRIES \in Nat
    BY <1>4, <1>6, LineageTransitive, TowerAssumption, SMTT(60) DEF IInv
  <2>4. disk.root + SLOT_HISTORY_ENTRIES <= root
    BY <2>2, <2>3
  <2>5. AbortedIfOutrun'
    BY <1>1, <1>4, <2>4, SMTT(60) DEF AbortedIfOutrun, Outrun
  <2> QED
    BY <1>5, <2>1, <2>5 DEF ForksComplete, Up
<1>7. CASE ~ (disk # NoTower /\ adjust_fails(disk, root))
  <2>1. /\ pc' = "replay"
        /\ bank_forks' = replayed_forks(root)
        /\ tower' = IF disk = NoTower THEN fresh_tower(root)
                    ELSE adjust_lockouts_after_replay(disk, root)
    BY <1>2, <1>7 DEF post_process_restored_tower
  <2>2. bank_forks'.root = root /\ bank_forks'.frozen \subseteq full
    BY <2>1 DEF replayed_forks, descends, replayable
  <2>3. tower'.root = root /\ voted_slots(tower') \cap ancestors[root] = {}
    <3>1. CASE disk = NoTower
      <4>1. root \in SlotOption
        BY <1>4, ForksTyped, ZenonT(40) DEF SlotOption
      <4> QED
        BY <2>1, <3>1, <4>1, FreshTower, SMTT(60)
    <3>2. CASE disk # NoTower
      BY <1>4, <1>7, <2>1, <3>2, RestoredTower, SMTT(60)
    <3> QED
      BY <3>1, <3>2, ZenonT(40)
  <2>4. voted_slots(tower)' = voted_slots(tower')
    BY DEF voted_slots
  <2>5. ForksComplete'
    BY <1>1, <1>4, <2>1, <2>2, <2>3, <2>4, SMTT(60) DEF ForksComplete, lineage
  <2> QED
    BY <1>5, <2>1, <2>5 DEF AbortedIfOutrun
<1> QED
  BY <1>6, <1>7

\* Every step keeps the invariant.
LEMMA NextLInv ==
    ASSUME IInv, LInv, [Next]_vars
    PROVE  LInv'
<1>1. ASSUME NEW slot \in Slots, NEW parent \in Slots, ReceiveBlock(slot, parent)
      PROVE  LInv'
  BY <1>1, ReceiveBlockLInv
<1>2. CASE generate_new_bank_forks
  BY <1>2, generate_new_bank_forksLInv
<1>3. ASSUME NEW slot \in Slots, replay_active_bank(slot)
      PROVE  LInv'
  BY <1>3, replay_active_bankLInv
<1>4. ASSUME NEW slot \in Slots, vote_and_save(slot)
      PROVE  LInv'
  BY <1>4, vote_and_saveLInv, SMTT(60)
<1>5. CASE handle_new_root
  BY <1>5, handle_new_rootLInv
<1>6. ASSUME NEW sent \in BOOLEAN, push_vote(sent)
      PROVE  LInv'
  BY <1>6, push_voteLInv
<1>7. ASSUME NEW lost \in SUBSET (full \ {0}), crash(lost)
      PROVE  LInv'
  BY <1>7, crashLInv, SMTT(60)
<1>8. CASE new_banks_from_ledger
  BY <1>8, new_banks_from_ledgerLInv
<1>9. CASE UNCHANGED vars
  <2>1. UNCHANGED <<ancestors, full, rooted, disk, tower, bank_forks, pc, new_root>>
    BY <1>9 DEF vars
  <2>2. OneChain' <=> OneChain
    BY <2>1 DEF OneChain, lineage
  <2>3. ForksComplete' <=> ForksComplete
    BY <2>1 DEF ForksComplete, voted_slots, lineage
  <2>4. AbortedIfOutrun' <=> AbortedIfOutrun
    BY <2>1 DEF AbortedIfOutrun, Outrun
  <2> QED
    BY <2>2, <2>3, <2>4 DEF LInv
<1> QED
  BY <1>1, <1>2, <1>3, <1>4, <1>5, <1>6, <1>7, <1>8, <1>9, SMTT(60) DEF Next

\* Both invariants hold always.
LEMMA LosslessInductive ==
    Spec => [](IInv /\ LInv)
<1>1. Init => LInv
  BY InitLInv
<1>2. IInv /\ LInv /\ [Next]_vars => LInv'
  BY NextLInv, ZenonT(40)
<1> QED
  BY <1>1, <1>2, Inductive, PTL DEF Spec
-----------------------------------------------------------------------------
(* The theorems. *)

\* When a vote may be made on a frozen bank, the root it would set is an ancestor
\* of the bank.
LEMMA RootAssertion ==
    ASSUME IInv, LInv, ~ LedgerLoss, MAX_LOCKOUT_HISTORY > 1
    PROVE  RootAssertionHolds
<1> SUFFICES ASSUME pc = "replay", NEW b \in bank_forks.frozen, ~ is_locked_out(b)
             PROVE  root_is_ancestor(b)
  BY DEF RootAssertionHolds
<1> DEFINE new == simulated(b)
           votes == tower.votes
<1>1. /\ b \in DOMAIN ancestors /\ b \in Nat
      /\ bank_forks.root \in lineage(b) /\ bank_forks.root \in Nat
  BY FrozenComplete, LineageTransitive, ZenonT(40) DEF LInv, IInv, Up
<1>2. is_recent(b) /\ conflicts(b) = {}
  BY DEF is_locked_out
<1>3. \/ new.root = tower.root
      \/ /\ 1 \in 1 .. Len(votes) /\ new.root = votes[1].slot
         /\ 2 \in 1 .. Len(votes)
         /\ \E i \in 1 .. Len(new.votes) : new.votes[i].slot = votes[2].slot
  BY <1>1, <1>2, SimulatedRoot, SMTT(60) DEF IInv
<1> HIDE DEF new
<1>4. CASE new.root = tower.root
  <2>1. new.root = bank_forks.root
    BY <1>4 DEF LInv, ForksComplete, Up
  <2>2. bank_forks.root = b \/ bank_forks.root \in ancestors[b]
    BY <1>1, SMTT(60) DEF lineage
  <2> QED
    BY <1>1, <2>1, <2>2, SMTT(60) DEF root_is_ancestor, bank_ancestors, new
<1>5. CASE /\ 1 \in 1 .. Len(votes) /\ new.root = votes[1].slot
           /\ 2 \in 1 .. Len(votes)
           /\ \E i \in 1 .. Len(new.votes) : new.votes[i].slot = votes[2].slot
  <2> DEFINE v == votes[1].slot
             w == votes[2].slot
  <2>1. v \in voted_slots(tower) /\ w \in voted_slots(tower) /\ v < w
    BY <1>5 DEF voted_slots, IInv, VotesInv, SlotsIncrease
  <2>2. w \in voted_slots(new)
    BY <1>5 DEF voted_slots
  <2> HIDE DEF v, w
  <2>3. w = b \/ w \in ancestors[b]
    BY <1>2, <2>2, SMTT(60) DEF conflicts, bank_ancestors, new
  <2>4. v \in ancestors[w]
    BY <2>1, SMTT(60) DEF IInv, VotesInv
  <2>5. v \in ancestors[b]
    BY <1>1, <2>3, <2>4, SMTT(60) DEF IInv, Tree
  <2>6. v \in lineage(b) /\ v \in Nat
    BY <1>1, <2>5, LineageTransitive, SMTT(60) DEF IInv, lineage
  <2>7. v >= bank_forks.root
    <3>1. CASE v < bank_forks.root
      <4>1. v \in ancestors[bank_forks.root]
        BY <1>1, <2>6, <3>1, ChainOrdered, SMTT(60) DEF IInv
      <4> QED
        BY <2>1, <4>1 DEF LInv, ForksComplete, Up
    <3> QED
      BY <1>1, <2>6, <3>1, SMTT(60)
  <2> QED
    BY <1>5, <2>5, <2>7, SMTT(60) DEF root_is_ancestor, bank_ancestors, new, v
<1> QED
  BY <1>3, <1>4, <1>5, SMTT(60)

\* The blockstore's roots are one chain, and the saved root is on it.
LEMMA RootsOnChain ==
    ASSUME IInv, OneChain
    PROVE  RootsAreChain /\ RootsReconcile
<1>1. PICK tip \in DOMAIN ancestors :
        /\ rooted \subseteq lineage(tip)
        /\ disk # NoTower => disk.root \in lineage(tip)
  BY DEF OneChain
<1>2. Tree
  BY DEF IInv
<1>3. RootsAreChain
  BY <1>1, <1>2, ChainOrdered DEF RootsAreChain
<1>4. Max(rooted) \in rooted
  <2>1. tip \in Nat /\ \A s \in lineage(tip) : s \in Nat /\ s <= tip
    <3>1. tip \in lineage(tip)
      BY DEF lineage
    <3> QED
      BY <1>2, <3>1, LineageTransitive, SMTT(60)
  <2>2. rooted \in SUBSET Nat /\ rooted # {} /\ \A s \in rooted : s <= tip
    BY <1>1, <2>1 DEF IInv, LedgerInv
  <2> QED
    BY <2>1, <2>2, GreatestNat, ZenonT(40)
<1>5. RootsReconcile
  <2> SUFFICES ASSUME disk # NoTower
               PROVE  Max(rooted) \in lineage(disk.root) \/ disk.root \in ancestors[Max(rooted)]
    BY DEF RootsReconcile
  <2>1. Max(rooted) \in lineage(tip) /\ disk.root \in lineage(tip)
    BY <1>1, <1>4
  <2>2. /\ Max(rooted) \in Nat /\ disk.root \in Nat
        /\ Max(rooted) <= disk.root => Max(rooted) \in lineage(disk.root)
        /\ disk.root < Max(rooted) => disk.root \in ancestors[Max(rooted)]
    BY <1>2, <2>1, ChainOrdered
  <2> QED
    BY <2>2
<1> QED
  BY <1>3, <1>5

\* Unless blocks were lost, the assertion of is_locked_out holds for every frozen
\* bank that may be voted on, the roots marked in the blockstore are one chain, and
\* reconcile_blockstore_roots_with_tower finds the root of the saved tower on it:
\* for every tree, and every depth of the stack above 1 (31 in the code).
THEOREM RootsAlwaysSafe ==
    Spec => [](~ LedgerLoss /\ MAX_LOCKOUT_HISTORY > 1 => RootsSafe)
<1>1. IInv /\ LInv => (~ LedgerLoss /\ MAX_LOCKOUT_HISTORY > 1 => RootsSafe)
  BY RootAssertion, RootsOnChain DEF LInv, RootsSafe
<1> QED
  BY <1>1, LosslessInductive, PTL

\* Unless blocks were lost or the ledger has outrun the slot history, the saved
\* tower is restored at every restart (adjust_lockouts_after_replay returns no
\* error); and a tower is never newer than the ledger it is restored on.
THEOREM RestartsSucceed ==
    Spec => [](~ LedgerLoss =>
                  /\ ~ Outrun => RestoreSucceeds
                  /\ pc = "replay" => tower.root = bank_forks.root)
<1>1. ASSUME IInv, LInv, ~ LedgerLoss
      PROVE  /\ ~ Outrun => RestoreSucceeds
             /\ pc = "replay" => tower.root = bank_forks.root
  <2>1. pc = "replay" => tower.root = bank_forks.root
    BY <1>1 DEF LInv, ForksComplete, Up
  <2>2. bank_forks.root \in Int
    BY <1>1, ForksTyped
  <2>3. ~ Outrun => pc # "aborted"
    BY <1>1 DEF LInv, AbortedIfOutrun
  <2> QED
    BY <2>1, <2>2, <2>3, SMTT(60) DEF RestoreSucceeds
<1> DEFINE Restored == ~ LedgerLoss => /\ ~ Outrun => RestoreSucceeds
                                       /\ pc = "replay" => tower.root = bank_forks.root
<1>2. IInv /\ LInv => Restored
  BY <1>1
<1> HIDE DEF Restored
<1>3. Spec => []Restored
  BY <1>2, LosslessInductive, PTL
<1> QED
  BY <1>3 DEF Restored
=============================================================================
