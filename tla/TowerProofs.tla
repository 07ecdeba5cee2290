----------------------------- MODULE TowerProofs ----------------------------
(***************************************************************************)
(* The tower keeps its promises, for every block tree, every depth of the   *)
(* vote stack and every size of the slot history, whatever crashes lie      *)
(* between its steps and whatever blocks they lose.                         *)
(***************************************************************************)
EXTENDS Tower, LockoutsProofs, FiniteSetTheorems

(* The inductive invariant. *)

Up == {"replay", "saved", "rooted"}

\* Ancestors form a tree: an ancestor is older, its own ancestors are ancestors,
\* and of two ancestors of a block the older is an ancestor of the newer.
Tree ==
    /\ DOMAIN ancestors \subseteq Slots
    /\ 0 \in DOMAIN ancestors /\ ancestors[0] = {}
    /\ \A s \in DOMAIN ancestors : \A a \in ancestors[s] :
          /\ a \in DOMAIN ancestors /\ a < s
          /\ ancestors[a] \subseteq ancestors[s]
          /\ \A b \in ancestors[s] : b < a => b \in ancestors[a]

LedgerInv ==
    /\ full \subseteq DOMAIN ancestors /\ 0 \in full
    /\ rooted \subseteq DOMAIN ancestors /\ 0 \in rooted

\* Every bank builds on the root, through frozen banks only.
ForksInv ==
    /\ bank_forks \in [root : Int, banks : SUBSET DOMAIN ancestors,
                       frozen : SUBSET DOMAIN ancestors]
    /\ pc \in Up =>
          /\ bank_forks.frozen \subseteq bank_forks.banks
          /\ bank_forks.root \in bank_forks.frozen
          /\ \A b \in bank_forks.banks :
                /\ bank_forks.root \in lineage(b)
                /\ \A a \in ancestors[b] : a >= bank_forks.root => a \in bank_forks.frozen

TowerRecord ==
    [votes : Seq(Lockout), root : SlotOption, last_vote : SlotOption, stray : SlotOption]

\* The votes of a tower are blocks of one chain, in order.
VotesInv(t) ==
    /\ t \in TowerRecord
    /\ SlotsIncrease(t.votes)
    /\ t.last_vote = last_voted_slot(t.votes)
    /\ voted_slots(t) \subseteq DOMAIN ancestors
    /\ \A p, q \in voted_slots(t) : p < q => p \in ancestors[q]

BuildsOnRoot(t) == \A v \in voted_slots(t) : t.root \in lineage(v)

DiskInv ==
    disk # NoTower =>
        /\ disk.votes # <<>>
        /\ disk.root \in DOMAIN ancestors
        /\ BuildsOnRoot(disk)

\* A tower has a root below its votes, or, when some of its votes are stray, one
\* the bank forks have reached.  A new vote is on a frozen bank and on disk.
TowerInv ==
    /\ pc \in Up =>
          /\ tower.root \in DOMAIN ancestors
          /\ BuildsOnRoot(tower) \/ tower.root \in lineage(bank_forks.root)
          /\ tower.last_vote # NoSlot /\ tower.last_vote # tower.stray =>
                tower.last_vote \in bank_forks.frozen
    /\ pc \in {"saved", "rooted"} =>
          /\ disk = [tower EXCEPT !.stray = NoSlot]
          /\ tower.votes # <<>>
          /\ tower.last_vote \in bank_forks.frozen
    /\ new_root # NoSlot =>
          /\ pc \in {"saved", "rooted"} /\ new_root = tower.root
          /\ pc = "saved" => /\ new_root \in lineage(tower.last_vote)
                             /\ new_root >= bank_forks.root

\* A promise is kept by a vote on the stack that is locked at least as long, or
\* by the root, or has run out when the last vote was made.
Keeps(t, p) ==
    \/ \E i \in 1 .. Len(t.votes) :
          t.votes[i].slot = p /\ expiration_slot(t.votes[i]) >= promise[p]
    \/ p \in lineage(t.root)

DiskKeeps ==
    \A p \in Slots : promise[p] > 0 =>
        /\ disk # NoTower
        /\ p <= disk.last_vote
        /\ Keeps(disk, p) \/ promise[p] < disk.last_vote

\* Slots that whatever is voted on next will not be older than.
reached == {tower.last_vote, tower.root, bank_forks.root}

TowerKeeps ==
    pc = "replay" =>
        \A p \in Slots : promise[p] > 0 =>
            /\ \E r \in reached : p <= r
            /\ \/ Keeps(tower, p)
               \/ p \in lineage(bank_forks.root)
               \/ \E r \in reached : promise[p] < r

IInv ==
    /\ Tree /\ LedgerInv /\ ForksInv
    /\ VotesInv(disk) /\ VotesInv(tower) /\ DiskInv /\ TowerInv
    /\ pc \in Up \cup {"down", "aborted"}
    /\ new_root \in SlotOption
    /\ promise \in [Slots -> Nat]
    /\ DiskKeeps /\ TowerKeeps
-----------------------------------------------------------------------------
(* The tree. *)

\* Lineages are transitive, and consist of blocks no newer than their tip.
LEMMA LineageTransitive ==
    ASSUME Tree, NEW s \in DOMAIN ancestors, NEW a \in lineage(s)
    PROVE  /\ s \in Slots /\ s \in Nat
           /\ a \in DOMAIN ancestors /\ a \in Slots /\ a \in Nat /\ a <= s
           /\ a = s \/ a < s
           /\ lineage(a) \subseteq lineage(s)
<1>1. s \in Nat /\ DOMAIN ancestors \subseteq Slots /\ \A x \in Slots : x \in Nat
  BY TowerAssumption DEF Tree, Slots
<1>2. CASE a = s
  BY <1>1, <1>2
<1>3. CASE a \in ancestors[s]
  <2>1. a \in DOMAIN ancestors /\ a < s /\ ancestors[a] \subseteq ancestors[s]
    BY <1>3 DEF Tree
  <2> QED
    BY <2>1, <1>1, <1>3 DEF lineage
<1> QED
  BY <1>2, <1>3 DEF lineage

\* Of two blocks in a lineage, the newer one builds on the older.
LEMMA LineageLinear ==
    ASSUME Tree, NEW s \in DOMAIN ancestors, NEW a \in lineage(s), NEW b \in lineage(s),
           b <= a
    PROVE  b \in lineage(a)
<1>1. a \in Nat /\ b \in Nat /\ a <= s /\ b <= s /\ s \in Nat
  BY LineageTransitive
<1>2. CASE a = s
  BY <1>2
<1>3. CASE a \in ancestors[s] /\ b \in ancestors[s]
  BY <1>1, <1>3 DEF Tree, lineage
<1>4. CASE a # s /\ b = s
  BY <1>1, <1>4
<1> QED
  BY <1>2, <1>3, <1>4 DEF lineage
-----------------------------------------------------------------------------
(* The stack. *)

\* One more confirmation never shortens a lockout.
LEMMA LockoutGrows ==
    ASSUME NEW n \in Nat
    PROVE  2 ^ n \in Nat /\ 2 ^ n <= 2 ^ (n + 1)
<1>1. \A k \in Nat : IsFiniteSet(1 .. k) /\ Cardinality(1 .. k) = k
  BY FS_Interval
<1>2. \A k \in Nat : /\ IsFiniteSet(SUBSET (1 .. k))
                     /\ Cardinality(SUBSET (1 .. k)) = 2 ^ k
  BY <1>1, FS_SUBSET, ZenonT(40)
<1>3. SUBSET (1 .. n) \subseteq SUBSET (1 .. n + 1)
  OBVIOUS
<1>4. n + 1 \in Nat
  OBVIOUS
<1>5. /\ Cardinality(SUBSET (1 .. n)) \in Nat
      /\ Cardinality(SUBSET (1 .. n)) <= Cardinality(SUBSET (1 .. n + 1))
  BY <1>2, <1>3, <1>4, FS_Subset, FS_CardinalityType, ZenonT(40)
<1> QED
  BY <1>2, <1>4, <1>5, ZenonT(40)

\* double_lockouts keeps every slot and shortens no lockout.
LEMMA DoubleKeeps ==
    ASSUME NEW votes \in Seq(Lockout)
    PROVE  LET new == double_lockouts(votes)
           IN  /\ new \in Seq(Lockout) /\ Len(new) = Len(votes)
               /\ \A i \in 1 .. Len(votes) :
                     /\ new[i].slot = votes[i].slot
                     /\ expiration_slot(new[i]) \in Nat
                     /\ expiration_slot(votes[i]) \in Nat
                     /\ expiration_slot(new[i]) >= expiration_slot(votes[i])
<1> DEFINE new == double_lockouts(votes)
           more(v) == [v EXCEPT !.confirmation_count = @ + 1]
<1>1. Len(votes) \in Nat /\ \A i \in 1 .. Len(votes) : votes[i] \in Lockout
  BY VotesTyped
<1>2. \A v \in Lockout : more(v) \in Lockout
  BY IncrementType
<1> HIDE DEF more
<1>3. /\ new \in Seq(Lockout) /\ Len(new) = Len(votes)
      /\ \A i \in 1 .. Len(votes) : new[i] = votes[i] \/ new[i] = more(votes[i])
  <2>1. new = [i \in 1 .. Len(votes) |->
                  IF Len(votes) > (i - 1) + votes[i].confirmation_count
                  THEN more(votes[i]) ELSE votes[i]]
    BY DEF double_lockouts, more
  <2> QED
    BY <1>1, <1>2, <2>1
<1>4. \A v \in Lockout : /\ expiration_slot(v) \in Nat
                         /\ more(v).slot = v.slot
                         /\ expiration_slot(more(v)) >= expiration_slot(v)
  <2> SUFFICES ASSUME NEW v \in Lockout
               PROVE  /\ expiration_slot(v) \in Nat
                      /\ more(v).slot = v.slot
                      /\ expiration_slot(more(v)) >= expiration_slot(v)
    OBVIOUS
  <2>1. v.slot \in Nat /\ v.confirmation_count \in Nat
    BY DEF Lockout
  <2>2. more(v).slot = v.slot /\ more(v).confirmation_count = v.confirmation_count + 1
    BY IncrementType DEF more
  <2>3. \A n \in Nat : n + 1 \in Nat /\ 2 ^ n \in Nat /\ 2 ^ (n + 1) \in Nat /\ 2 ^ n <= 2 ^ (n + 1)
    BY LockoutGrows
  <2> QED
    BY <2>1, <2>2, <2>3 DEF expiration_slot, lockout, INITIAL_LOCKOUT
<1> HIDE DEF new
<1>5. \A i \in 1 .. Len(votes) :
         /\ new[i].slot = votes[i].slot
         /\ expiration_slot(new[i]) \in Nat
         /\ expiration_slot(votes[i]) \in Nat
         /\ expiration_slot(new[i]) >= expiration_slot(votes[i])
  <2> SUFFICES ASSUME NEW i \in 1 .. Len(votes)
               PROVE  /\ new[i].slot = votes[i].slot
                      /\ expiration_slot(new[i]) \in Nat
                      /\ expiration_slot(votes[i]) \in Nat
                      /\ expiration_slot(new[i]) >= expiration_slot(votes[i])
    OBVIOUS
  <2>1. votes[i] \in Lockout /\ more(votes[i]) \in Lockout
    BY <1>1, <1>2
  <2>2. /\ expiration_slot(votes[i]) \in Nat /\ expiration_slot(more(votes[i])) \in Nat
        /\ more(votes[i]).slot = votes[i].slot
        /\ expiration_slot(more(votes[i])) >= expiration_slot(votes[i])
    BY <2>1, <1>4
  <2>3. CASE new[i] = votes[i]
    BY <2>2, <2>3
  <2>4. CASE new[i] = more(votes[i])
    BY <2>2, <2>4
  <2> QED
    BY <2>3, <2>4, <1>3
<1> QED
  BY <1>3, <1>5 DEF new

\* process_slot on any stack in order, whatever its root: votes are added only for
\* slot, the root moves only to the oldest vote, and a vote leaves the stack only
\* when its lockout has run out or it becomes the root.
LEMMA ProcessSlotKeeps ==
    ASSUME NEW votes \in Seq(Lockout), NEW root, NEW slot \in Nat,
           SlotsIncrease(votes), ~ is_ignored(votes, slot)
    PROVE  LET new == process_slot([votes |-> votes, root |-> root], slot)
           IN  /\ new.votes \in Seq(Lockout) /\ new.votes # <<>>
               /\ SlotsIncrease(new.votes)
               /\ last_voted_slot(new.votes) = slot
               /\ \A i \in 1 .. Len(new.votes) :
                     \/ new.votes[i].slot = slot
                     \/ \E j \in 1 .. Len(votes) : new.votes[i].slot = votes[j].slot
               /\ \/ new.root = root
                  \/ votes # <<>> /\ new.root = votes[1].slot
               /\ \A j \in 1 .. Len(votes) :
                     \/ expiration_slot(votes[j]) < slot
                     \/ new.root = votes[j].slot
                     \/ \E i \in 1 .. Len(new.votes) :
                           /\ new.votes[i].slot = votes[j].slot
                           /\ expiration_slot(new.votes[i]) >= expiration_slot(votes[j])
<1> DEFINE live == pop_expired_votes(votes, slot)
           h == LiveHeight(votes, slot)
           popped == Len(live) = MAX_LOCKOUT_HISTORY
           kept == IF popped THEN Tail(live) ELSE live
           pushed == Append(kept, NewLockout(slot))
           dbl == double_lockouts(pushed)
           o == IF popped THEN 1 ELSE 0
           m == h - o
           r == IF popped THEN live[1].slot ELSE root
<1>1. process_slot([votes |-> votes, root |-> root], slot) = [votes |-> dbl, root |-> r]
  BY DEF process_slot
<1>2. /\ Len(votes) \in Nat
      /\ \A i \in 1 .. Len(votes) : votes[i] \in Lockout /\ votes[i].slot \in Nat
  BY VotesTyped
<1>3. /\ h \in 0 .. Len(votes) /\ h \in Nat
      /\ \A i \in (h + 1) .. Len(votes) : is_expired(votes[i], slot)
  BY LiveHeightExists
<1>4. /\ live \in Seq(Lockout) /\ Len(live) = h
      /\ \A i \in 1 .. h : live[i] = votes[i]
  BY <1>3 DEF pop_expired_votes
<1>5. MAX_LOCKOUT_HISTORY \in Nat \ {0} /\ (popped => h >= 1) /\ o \in {0, 1} /\ m \in Nat
  BY <1>3, <1>4, MaxLockoutHistoryAssumption
<1> HIDE DEF h, live
<1>6. kept \in Seq(Lockout) /\ Len(kept) = m /\ \A i \in 1 .. m : kept[i] = votes[i + o]
  BY <1>3, <1>4, <1>5
<1> HIDE DEF kept
<1>7. /\ pushed \in Seq(Lockout) /\ Len(pushed) = m + 1
      /\ \A i \in 1 .. m : pushed[i] = votes[i + o]
      /\ pushed[m + 1] = NewLockout(slot) /\ pushed[m + 1].slot = slot
  BY <1>5, <1>6 DEF NewLockout, Lockout
<1> HIDE DEF pushed
<1>8. /\ dbl \in Seq(Lockout) /\ Len(dbl) = m + 1
      /\ \A i \in 1 .. m + 1 :
            /\ dbl[i].slot = pushed[i].slot
            /\ expiration_slot(dbl[i]) >= expiration_slot(pushed[i])
  BY <1>7, DoubleKeeps
<1> HIDE DEF dbl
<1>9. \A i \in 1 .. m : i + o \in 1 .. Len(votes) /\ dbl[i].slot = votes[i + o].slot
  <2>1. m + o = h
    BY <1>3, <1>5
  <2> HIDE DEF m, o
  <2>2. \A i \in 1 .. m : i + o \in 1 .. Len(votes) /\ i \in 1 .. m + 1
    BY <2>1, <1>2, <1>3, <1>5
  <2> QED
    BY <2>2, <1>7, <1>8
<1>10. dbl[m + 1].slot = slot
  BY <1>5, <1>7, <1>8, SMTT(60)
<1>11. \A j \in 1 .. Len(votes) : votes[j].slot < slot
  <2> SUFFICES ASSUME NEW j \in 1 .. Len(votes)
               PROVE  votes[j].slot < slot
    OBVIOUS
  <2>1. votes # <<>> /\ votes[Len(votes)].slot \in Nat /\ votes[Len(votes)].slot < slot
    BY <1>2 DEF is_ignored, last_voted_slot
  <2>2. j = Len(votes) \/ votes[j].slot < votes[Len(votes)].slot
    BY <1>2 DEF SlotsIncrease
  <2> QED
    BY <2>1, <2>2, <1>2
<1>12. SlotsIncrease(dbl)
  <2> SUFFICES ASSUME NEW i \in 1 .. m + 1, NEW j \in 1 .. m + 1, i < j
               PROVE  dbl[i].slot < dbl[j].slot
    BY <1>8 DEF SlotsIncrease
  <2>1. i \in 1 .. m
    BY <1>5
  <2>2. CASE j = m + 1
    BY <2>1, <2>2, <1>9, <1>10, <1>11, SMTT(60)
  <2>3. CASE j \in 1 .. m
    <3>1. i + o < j + o
      BY <1>5
    <3> QED
      BY <3>1, <2>1, <2>3, <1>9 DEF SlotsIncrease
  <2> QED
    BY <2>2, <2>3, <1>5
<1>13. dbl # <<>> /\ last_voted_slot(dbl) = slot
  BY <1>5, <1>8, <1>10 DEF last_voted_slot
<1>14. \A i \in 1 .. m + 1 :
          dbl[i].slot = slot \/ \E j \in 1 .. Len(votes) : dbl[i].slot = votes[j].slot
  <2> SUFFICES ASSUME NEW i \in 1 .. m + 1, i # m + 1
               PROVE  \E j \in 1 .. Len(votes) : dbl[i].slot = votes[j].slot
    BY <1>10
  <2>1. i \in 1 .. m
    BY <1>5
  <2> QED
    BY <2>1, <1>9
<1>15. r = root \/ (votes # <<>> /\ r = votes[1].slot)
  BY <1>3, <1>4, <1>5
<1>16. ASSUME NEW j \in 1 .. Len(votes)
       PROVE  \/ expiration_slot(votes[j]) < slot
              \/ r = votes[j].slot
              \/ \E i \in 1 .. m + 1 :
                    /\ dbl[i].slot = votes[j].slot
                    /\ expiration_slot(dbl[i]) >= expiration_slot(votes[j])
  <2>1. CASE j > h
    BY <2>1, <1>2, <1>3 DEF is_expired
  <2>2. CASE j <= o
    BY <2>2, <1>3, <1>4, <1>5
  <2>3. CASE j <= h /\ j > o
    <3>1. j - o \in 1 .. m /\ j - o \in 1 .. m + 1 /\ (j - o) + o = j
      BY <2>3, <1>3, <1>5
    <3> DEFINE i == j - o
    <3>2. i \in 1 .. m /\ i \in 1 .. m + 1 /\ i + o = j
      BY <3>1
    <3> HIDE DEF i
    <3>3. pushed[i] = votes[j]
      BY <3>2, <1>7
    <3>4. dbl[i].slot = votes[j].slot /\ expiration_slot(dbl[i]) >= expiration_slot(votes[j])
      BY <3>2, <3>3, <1>8
    <3> QED
      BY <3>2, <3>4
  <2> QED
    BY <2>1, <2>2, <2>3, <1>3, <1>5
<1> HIDE DEF r, m, o, popped
<1> DEFINE new == process_slot([votes |-> votes, root |-> root], slot)
<1>17. new.votes = dbl /\ new.root = r
  BY <1>1
<1> HIDE DEF new
<1>18. \A j \in 1 .. Len(votes) :
          \/ expiration_slot(votes[j]) < slot
          \/ new.root = votes[j].slot
          \/ \E i \in 1 .. Len(new.votes) :
                /\ new.votes[i].slot = votes[j].slot
                /\ expiration_slot(new.votes[i]) >= expiration_slot(votes[j])
  BY <1>8, <1>16, <1>17
<1>19. \A i \in 1 .. Len(new.votes) :
          \/ new.votes[i].slot = slot
          \/ \E j \in 1 .. Len(votes) : new.votes[i].slot = votes[j].slot
  BY <1>8, <1>14, <1>17
<1>20. /\ new.votes \in Seq(Lockout) /\ new.votes # <<>> /\ SlotsIncrease(new.votes)
       /\ last_voted_slot(new.votes) = slot
       /\ new.root = root \/ (votes # <<>> /\ new.root = votes[1].slot)
  BY <1>8, <1>12, <1>13, <1>15, <1>17
<1> QED
  BY <1>18, <1>19, <1>20, ZenonT(40) DEF new
-----------------------------------------------------------------------------
(* Each step preserves the invariant. *)

\* A tower that has not voted.
LEMMA FreshTower ==
    ASSUME NEW root \in SlotOption
    PROVE  /\ NoTower \in TowerRecord /\ fresh_tower(root) \in TowerRecord
           /\ fresh_tower(root).votes = <<>> /\ fresh_tower(root).root = root
           /\ fresh_tower(root).last_vote = NoSlot
           /\ VotesInv(NoTower) /\ VotesInv(fresh_tower(root))
           /\ voted_slots(fresh_tower(root)) = {}
<1>1. NoSlot \in SlotOption /\ <<>> \in Seq(Lockout)
  BY DEF SlotOption
<1>2. fresh_tower(root)
         = [votes |-> <<>>, root |-> root, last_vote |-> NoSlot, stray |-> NoSlot]
  BY DEF fresh_tower, NoTower
<1>3. NoTower \in TowerRecord /\ fresh_tower(root) \in TowerRecord
  BY <1>1, <1>2 DEF NoTower, TowerRecord
<1>4. voted_slots(NoTower) = {} /\ voted_slots(fresh_tower(root)) = {}
  BY <1>2 DEF voted_slots, NoTower
<1>5. VotesInv(NoTower)
  BY <1>3, <1>4 DEF VotesInv, NoTower, SlotsIncrease, last_voted_slot
<1>6. VotesInv(fresh_tower(root))
  BY <1>2, <1>3, <1>4 DEF VotesInv, SlotsIncrease, last_voted_slot
<1> QED
  BY <1>2, <1>3, <1>4, <1>5, <1>6

\* The invariant holds at the start.
LEMMA InitIInv ==
    ASSUME Init
    PROVE  IInv
<1>0. 0 \in Slots /\ 0 \in Nat
  BY TowerAssumption DEF Slots
<1>1. ancestors = [x \in {0} |-> {}]
  BY DEF Init
<1>2. Tree /\ LedgerInv
  BY <1>0, <1>1 DEF Init, Tree, LedgerInv
<1>3. ForksInv
  BY <1>0, <1>1 DEF Init, ForksInv, lineage, Up
<1>4. 0 \in SlotOption
  BY <1>0 DEF SlotOption
<1>6. VotesInv(disk)
  BY <1>4, FreshTower DEF Init
<1>7. VotesInv(tower) /\ voted_slots(tower) = {} /\ tower.root = 0 /\ tower.last_vote = NoSlot
  BY <1>4, FreshTower DEF Init
<1>8. DiskInv
  BY DEF Init, DiskInv
<1>9. TowerInv
  BY <1>0, <1>1, <1>7 DEF Init, TowerInv, BuildsOnRoot, Up
<1>10. promise \in [Slots -> Nat] /\ \A p \in Slots : ~ (promise[p] > 0)
  BY DEF Init
<1>11. DiskKeeps /\ TowerKeeps
  BY <1>10 DEF DiskKeeps, TowerKeeps
<1> QED
  BY <1>2, <1>3, <1>6, <1>7, <1>8, <1>9, <1>10, <1>11 DEF Init, IInv, Up, SlotOption

\* A new block leaves the lineages of the other blocks alone.
LEMMA TreeGrows ==
    ASSUME Tree, NEW slot \in Slots, NEW parent \in DOMAIN ancestors,
           slot \notin DOMAIN ancestors, parent < slot,
           ancestors' = [s \in DOMAIN ancestors \cup {slot} |->
                            IF s = slot THEN lineage(parent) ELSE ancestors[s]]
    PROVE  /\ Tree'
           /\ DOMAIN ancestors \subseteq DOMAIN ancestors'
           /\ \A s \in DOMAIN ancestors :
                 ancestors'[s] = ancestors[s] /\ lineage(s)' = lineage(s)
<1>1. /\ DOMAIN ancestors' = DOMAIN ancestors \cup {slot}
      /\ \A s \in DOMAIN ancestors : ancestors'[s] = ancestors[s]
      /\ ancestors'[slot] = lineage(parent)
  OBVIOUS
<1>2. \A s \in DOMAIN ancestors : lineage(s)' = lineage(s)
  BY <1>1 DEF lineage
<1>3. slot \in Nat /\ slot # 0 /\ parent \in Nat
  BY TowerAssumption DEF Tree, Slots
<1>4. \A a \in lineage(parent) : /\ a \in DOMAIN ancestors /\ a < slot
                                 /\ ancestors[a] \subseteq lineage(parent)
  <2> SUFFICES ASSUME NEW a \in lineage(parent)
               PROVE  a \in DOMAIN ancestors /\ a < slot /\ ancestors[a] \subseteq lineage(parent)
    OBVIOUS
  <2>1. a \in DOMAIN ancestors /\ a \in Nat /\ a <= parent /\ lineage(a) \subseteq lineage(parent)
    BY LineageTransitive
  <2> QED
    BY <2>1, <1>3 DEF lineage
<1>5. \A a, b \in lineage(parent) : b < a => b \in ancestors[a]
  <2> SUFFICES ASSUME NEW a \in lineage(parent), NEW b \in lineage(parent), b < a
               PROVE  b \in ancestors[a]
    OBVIOUS
  <2>1. a \in Nat /\ b \in Nat
    BY LineageTransitive
  <2>2. b \in lineage(a)
    BY <2>1, LineageLinear
  <2> QED
    BY <2>1, <2>2 DEF lineage
<1>6. Tree'
  <2>1. DOMAIN ancestors' \subseteq Slots /\ 0 \in DOMAIN ancestors' /\ ancestors'[0] = {}
    BY <1>1, <1>3 DEF Tree
  <2>2. ASSUME NEW s \in DOMAIN ancestors', NEW a \in ancestors'[s]
        PROVE  /\ a \in DOMAIN ancestors' /\ a < s
               /\ ancestors'[a] \subseteq ancestors'[s]
               /\ \A b \in ancestors'[s] : b < a => b \in ancestors'[a]
    <3>1. CASE s = slot
      <4>1. a \in lineage(parent)
        BY <3>1, <1>1
      <4> QED
        BY <4>1, <3>1, <1>1, <1>4, <1>5
    <3>2. CASE s \in DOMAIN ancestors
      <4>1. a \in ancestors[s]
        BY <3>2, <1>1
      <4>2. a \in DOMAIN ancestors /\ a < s /\ ancestors[a] \subseteq ancestors[s]
            /\ \A b \in ancestors[s] : b < a => b \in ancestors[a]
        BY <4>1, <3>2 DEF Tree
      <4> QED
        BY <4>2, <3>2, <1>1
    <3> QED
      BY <3>1, <3>2, <1>1
  <2> QED
    BY <2>1, <2>2, ZenonT(40) DEF Tree
<1> QED
  BY <1>1, <1>2, <1>6

\* The tree so far stays as it is.
TreeKept ==
    \A s \in DOMAIN ancestors : s \in DOMAIN ancestors' /\ ancestors'[s] = ancestors[s]

\* Nor do lineages change, then.
LEMMA LineageKept ==
    ASSUME TreeKept
    PROVE  \A s \in DOMAIN ancestors : lineage(s)' = lineage(s)
  BY DEF TreeKept, lineage

\* The saved tower is left alone.
LEMMA DiskFrame ==
    ASSUME IInv, TreeKept, disk' = disk
    PROVE  /\ VotesInv(disk)' /\ DiskInv'
           /\ promise' = promise => DiskKeeps'
<1> DEFINE D == DOMAIN ancestors
<1>1. voted_slots(disk)' = voted_slots(disk)
  BY DEF voted_slots
<1>2. voted_slots(disk) \subseteq D
  BY DEF IInv, VotesInv
<1>3. \A s \in D : s \in DOMAIN ancestors' /\ ancestors'[s] = ancestors[s]
  BY DEF TreeKept
<1>4. \A s \in D : lineage(s)' = lineage(s)
  BY LineageKept
<1>5. VotesInv(disk)'
  BY <1>1, <1>2, <1>3 DEF IInv, VotesInv
<1>6. DiskInv'
  BY <1>1, <1>2, <1>3, <1>4 DEF IInv, DiskInv, BuildsOnRoot
<1>7. ASSUME promise' = promise
      PROVE  DiskKeeps'
  <2> SUFFICES ASSUME NEW p \in Slots, promise[p] > 0
               PROVE  /\ disk # NoTower /\ p <= disk.last_vote
                      /\ Keeps(disk, p)' \/ promise[p] < disk.last_vote
    BY <1>7 DEF DiskKeeps
  <2>1. /\ disk # NoTower /\ p <= disk.last_vote
        /\ Keeps(disk, p) \/ promise[p] < disk.last_vote
    BY DEF IInv, DiskKeeps
  <2>2. disk.root \in D
    BY <2>1 DEF IInv, DiskInv
  <2>3. Keeps(disk, p) => Keeps(disk, p)'
    BY <1>4, <1>7, <2>2 DEF Keeps
  <2> QED
    BY <2>1, <2>3
<1> QED
  BY <1>5, <1>6, <1>7

\* While replay goes on, nothing but the tree and the banks above the root change.
LEMMA ReplayFrame ==
    ASSUME IInv, pc = "replay", TreeKept,
           UNCHANGED <<disk, tower, pc, new_root, promise>>,
           bank_forks'.root = bank_forks.root,
           bank_forks.frozen \subseteq bank_forks'.frozen,
           Tree', LedgerInv', ForksInv'
    PROVE  IInv'
<1> DEFINE D == DOMAIN ancestors
<1>1. voted_slots(tower)' = voted_slots(tower)
  BY DEF voted_slots
<1>2. voted_slots(tower) \subseteq D /\ tower.root \in D
  BY DEF IInv, VotesInv, TowerInv, Up
<1>3. \A s \in D : s \in DOMAIN ancestors' /\ ancestors'[s] = ancestors[s]
  BY DEF TreeKept
<1>4. \A s \in D : lineage(s)' = lineage(s)
  BY LineageKept
<1>5. VotesInv(tower)'
  BY <1>1, <1>2, <1>3 DEF IInv, VotesInv
<1>6. bank_forks.root \in D
  BY DEF IInv, ForksInv, Up
<1>7. TowerInv'
  <2>1. BuildsOnRoot(tower) => BuildsOnRoot(tower)'
    BY <1>1, <1>2, <1>4 DEF BuildsOnRoot
  <2>2. tower.root \in lineage(bank_forks.root) => (tower.root \in lineage(bank_forks.root))'
    BY <1>4, <1>6
  <2> QED
    BY <1>2, <1>3, <2>1, <2>2 DEF IInv, TowerInv, Up
<1>8. TowerKeeps'
  <2> SUFFICES ASSUME NEW p \in Slots, promise[p] > 0
               PROVE  /\ \E r \in reached' : p <= r
                      /\ \/ Keeps(tower, p)'
                         \/ (p \in lineage(bank_forks.root))'
                         \/ \E r \in reached' : promise[p] < r
    BY DEF TowerKeeps
  <2>1. reached' = reached
    BY DEF reached
  <2>2. Keeps(tower, p) => Keeps(tower, p)'
    BY <1>2, <1>4 DEF Keeps
  <2>3. p \in lineage(bank_forks.root) => (p \in lineage(bank_forks.root))'
    BY <1>4, <1>6
  <2> QED
    BY <2>1, <2>2, <2>3 DEF IInv, TowerKeeps
<1> QED
  BY <1>5, <1>7, <1>8, DiskFrame DEF IInv

\* A new block is a leaf of the tree.
LEMMA ReceiveBlockIInv ==
    ASSUME IInv, NEW slot \in Slots, NEW parent \in Slots, ReceiveBlock(slot, parent)
    PROVE  IInv'
<1>1. /\ Tree' /\ DOMAIN ancestors \subseteq DOMAIN ancestors'
      /\ \A s \in DOMAIN ancestors :
            ancestors'[s] = ancestors[s] /\ lineage(s)' = lineage(s)
  BY TreeGrows DEF ReceiveBlock, IInv
<1>2. TreeKept
  BY <1>1 DEF TreeKept
<1>3. LedgerInv'
  BY <1>1 DEF ReceiveBlock, IInv, LedgerInv
<1>4. ForksInv'
  <2>1. bank_forks' = bank_forks /\ pc' = pc
    BY DEF ReceiveBlock
  <2>2. bank_forks \in [root : Int, banks : SUBSET DOMAIN ancestors,
                        frozen : SUBSET DOMAIN ancestors]
    BY DEF IInv, ForksInv
  <2>3. /\ bank_forks.banks \subseteq DOMAIN ancestors
        /\ bank_forks' \in [root : Int, banks : SUBSET DOMAIN ancestors',
                            frozen : SUBSET DOMAIN ancestors']
    BY <1>1, <2>1, <2>2
  <2> QED
    BY <1>1, <2>1, <2>3 DEF IInv, ForksInv
<1> QED
  BY <1>1, <1>2, <1>3, <1>4, ReplayFrame DEF ReceiveBlock

\* The parts of bank_forks.
LEMMA ForksTyped ==
    ASSUME IInv
    PROVE  /\ bank_forks.root \in Int
           /\ bank_forks.banks \subseteq DOMAIN ancestors
           /\ bank_forks.frozen \subseteq DOMAIN ancestors
           /\ bank_forks = [root |-> bank_forks.root, banks |-> bank_forks.banks,
                            frozen |-> bank_forks.frozen]
           /\ DOMAIN ancestors \subseteq Nat
  BY TowerAssumption DEF IInv, ForksInv, Tree, Slots

\* A new bank has a frozen parent.
LEMMA generate_new_bank_forksIInv ==
    ASSUME IInv, generate_new_bank_forks
    PROVE  IInv'
<1> DEFINE f == bank_forks
           new == f.banks \cup next_slots
<1>0. /\ pc = "replay" /\ f' = [f EXCEPT !.banks = new]
      /\ UNCHANGED <<ancestors, full, rooted, disk, tower, pc, new_root, promise>>
  BY DEF generate_new_bank_forks
<1>1. /\ f.root \in Int /\ f.banks \subseteq DOMAIN ancestors
      /\ f.frozen \subseteq DOMAIN ancestors /\ DOMAIN ancestors \subseteq Nat
      /\ f = [root |-> f.root, banks |-> f.banks, frozen |-> f.frozen]
  BY ForksTyped
<1>2. new \subseteq DOMAIN ancestors
  BY <1>1 DEF next_slots
<1>3. f' = [root |-> f.root, banks |-> new, frozen |-> f.frozen]
  BY <1>0, <1>1
<1>4. /\ f.frozen \subseteq f.banks /\ f.root \in f.frozen
      /\ \A b \in f.banks : /\ f.root \in lineage(b)
                            /\ \A a \in ancestors[b] : a >= f.root => a \in f.frozen
  BY <1>0 DEF IInv, ForksInv, Up
<1>5. ASSUME NEW b \in next_slots
      PROVE  /\ f.root \in lineage(b)
             /\ \A a \in ancestors[b] : a >= f.root => a \in f.frozen
  <2> DEFINE m == Max(ancestors[b])
  <2>1. b \in DOMAIN ancestors /\ ancestors[b] # {} /\ m \in f.frozen
    BY DEF next_slots
  <2>2. b \in Nat /\ ancestors[b] \in SUBSET Nat /\ \A a \in ancestors[b] : a <= b
    BY <1>1, <2>1 DEF IInv, Tree
  <2>3. m \in ancestors[b] /\ \A a \in ancestors[b] : a <= m
    BY <2>1, <2>2, GreatestNat, ZenonT(40)
  <2> HIDE DEF m
  <2>4. f.root \in lineage(m) /\ \A a \in ancestors[m] : a >= f.root => a \in f.frozen
    BY <1>4, <2>1
  <2>5. m \in lineage(b) /\ lineage(m) \subseteq lineage(b)
    BY <2>1, <2>3, LineageTransitive DEF lineage, IInv
  <2>6. \A a \in ancestors[b] : a = m \/ a \in ancestors[m]
    BY <2>1, <2>2, <2>3 DEF IInv, Tree
  <2> QED
    BY <2>1, <2>4, <2>5, <2>6
<1>6. \A s : lineage(s)' = lineage(s)
  BY <1>0 DEF lineage
<1> HIDE DEF new
<1>7. ForksInv'
  <2>1. f' \in [root : Int, banks : SUBSET DOMAIN ancestors, frozen : SUBSET DOMAIN ancestors]
    BY <1>1, <1>2, <1>3
  <2>2. f'.root = f.root /\ f'.banks = new /\ f'.frozen = f.frozen
    BY <1>3
  <2>3. \A b \in new : /\ f.root \in lineage(b)
                       /\ \A a \in ancestors[b] : a >= f.root => a \in f.frozen
    BY <1>4, <1>5 DEF new
  <2>4. f.frozen \subseteq new /\ f.root \in f.frozen
    BY <1>4 DEF new
  <2> QED
    BY <1>0, <1>6, <2>1, <2>2, <2>3, <2>4 DEF ForksInv
<1>8. Tree' /\ LedgerInv' /\ TreeKept
  BY <1>0 DEF IInv, Tree, LedgerInv, TreeKept
<1>9. f'.root = f.root /\ f.frozen \subseteq f'.frozen
  BY <1>3
<1> QED
  BY <1>0, <1>7, <1>8, <1>9, ReplayFrame

\* A bank freezes above frozen banks.
LEMMA replay_active_bankIInv ==
    ASSUME IInv, NEW slot \in Slots, replay_active_bank(slot)
    PROVE  IInv'
<1> DEFINE f == bank_forks
<1>0. /\ pc = "replay" /\ slot \in f.banks /\ full' = full \cup {slot}
      /\ f' = [f EXCEPT !.frozen = f.frozen \cup {slot}]
      /\ UNCHANGED <<ancestors, rooted, disk, tower, pc, new_root, promise>>
  BY DEF replay_active_bank
<1>1. /\ f.root \in Int /\ f.banks \subseteq DOMAIN ancestors
      /\ f.frozen \subseteq DOMAIN ancestors
      /\ f = [root |-> f.root, banks |-> f.banks, frozen |-> f.frozen]
  BY ForksTyped
<1>2. f' = [root |-> f.root, banks |-> f.banks, frozen |-> f.frozen \cup {slot}]
  BY <1>0, <1>1
<1>3. \A s : lineage(s)' = lineage(s)
  BY <1>0 DEF lineage
<1>4. f'.root = f.root /\ f'.banks = f.banks /\ f'.frozen = f.frozen \cup {slot}
  BY <1>2
<1>5. ForksInv'
  <2>1. f' \in [root : Int, banks : SUBSET DOMAIN ancestors, frozen : SUBSET DOMAIN ancestors]
    BY <1>0, <1>1, <1>2
  <2> QED
    BY <1>0, <1>3, <1>4, <2>1 DEF IInv, ForksInv, Up
<1>6. Tree' /\ LedgerInv' /\ TreeKept
  BY <1>0, <1>1 DEF IInv, Tree, LedgerInv, TreeKept
<1> QED
  BY <1>0, <1>4, <1>5, <1>6, ReplayFrame

\* A crash leaves what is on disk, and that keeps every promise made.
LEMMA crashIInv ==
    ASSUME IInv, NEW lost \in SUBSET (full \ {0}), crash(lost)
    PROVE  IInv'
<1>0. /\ full' = full \ lost /\ tower' = NoTower /\ bank_forks' = NoForks
      /\ pc' = "down" /\ new_root' = NoSlot
      /\ UNCHANGED <<ancestors, rooted, disk, promise>>
  BY DEF crash
<1>1. Tree' /\ LedgerInv' /\ TreeKept
  BY <1>0 DEF IInv, Tree, LedgerInv, TreeKept
<1>2. ForksInv' /\ TowerInv' /\ TowerKeeps'
  BY <1>0 DEF ForksInv, TowerInv, TowerKeeps, NoForks, NoSlot, Up
<1>3. VotesInv(tower)'
  <2>1. NoTower \in TowerRecord /\ VotesInv(NoTower)
    BY FreshTower DEF SlotOption
  <2> QED
    BY <1>0, <2>1 DEF VotesInv, voted_slots
<1> QED
  BY <1>0, <1>1, <1>2, <1>3, DiskFrame DEF IInv, SlotOption, Up

\* The bank of the last vote is above the new root, so it is not pruned.
LEMMA handle_new_rootIInv ==
    ASSUME IInv, handle_new_root
    PROVE  IInv'
<1> DEFINE f == bank_forks
           r == new_root
<1>0. /\ pc = "saved" /\ r # NoSlot /\ f' = set_root(r) /\ pc' = "rooted"
      /\ rooted' = rooted \cup {a \in lineage(r) : a >= f.root}
      /\ UNCHANGED <<ancestors, full, disk, tower, new_root, promise>>
  BY DEF handle_new_root
<1>1. /\ f.root \in Int /\ f.banks \subseteq DOMAIN ancestors
      /\ f.frozen \subseteq DOMAIN ancestors /\ DOMAIN ancestors \subseteq Nat
  BY ForksTyped
<1>2. /\ f.frozen \subseteq f.banks /\ f.root \in f.frozen
      /\ \A b \in f.banks : \A a \in ancestors[b] : a >= f.root => a \in f.frozen
  BY <1>0 DEF IInv, ForksInv, Up
<1>3. /\ r = tower.root /\ r \in DOMAIN ancestors /\ r \in lineage(tower.last_vote) /\ r >= f.root
      /\ tower.last_vote \in f.frozen
  BY <1>0 DEF IInv, TowerInv, Up
<1>4. r \in f.frozen
  BY <1>2, <1>3 DEF lineage
<1>5. /\ f'.root = r /\ f'.banks = {b \in f.banks : r \in lineage(b)}
      /\ f'.frozen = {b \in f.frozen : r \in lineage(b)}
      /\ f' = [root |-> f'.root, banks |-> f'.banks, frozen |-> f'.frozen]
  BY <1>0 DEF set_root, descends
<1>6. \A s : lineage(s)' = lineage(s)
  BY <1>0 DEF lineage
<1>7. Tree' /\ TreeKept
  BY <1>0 DEF IInv, Tree, TreeKept
<1>8. LedgerInv'
  <2>1. lineage(r) \subseteq DOMAIN ancestors
    BY <1>3, LineageTransitive DEF IInv
  <2> QED
    BY <1>0, <2>1 DEF IInv, LedgerInv
<1>9. ForksInv'
  <2>1. r \in lineage(r) /\ r \in Int
    BY <1>1, <1>3 DEF lineage
  <2>2. f'.banks \subseteq f.banks /\ f'.frozen \subseteq f.frozen
    BY <1>5
  <2>3. f' \in [root : Int, banks : SUBSET DOMAIN ancestors, frozen : SUBSET DOMAIN ancestors]
    BY <1>1, <1>5, <2>1, <2>2
  <2>4. f'.frozen \subseteq f'.banks /\ r \in f'.frozen
    BY <1>2, <1>4, <1>5, <2>1
  <2>5. ASSUME NEW b \in f'.banks
        PROVE  r \in lineage(b) /\ \A a \in ancestors[b] : a >= r => a \in f'.frozen
    <3>1. b \in f.banks /\ r \in lineage(b) /\ b \in DOMAIN ancestors
      BY <1>1, <1>5
    <3>2. ASSUME NEW a \in ancestors[b], a >= r
          PROVE  a \in f'.frozen
      <4>1. a \in lineage(b)
        BY DEF lineage
      <4>2. a \in Nat
        BY <3>1, <4>1, LineageTransitive DEF IInv
      <4>3. a \in f.frozen
        BY <1>1, <1>2, <1>3, <2>1, <3>1, <3>2, <4>2, SMTT(60)
      <4>4. r \in lineage(a)
        BY <2>1, <3>1, <3>2, <4>1, <4>2, LineageLinear, SMTT(60) DEF IInv
      <4> QED
        BY <1>5, <4>3, <4>4
    <3> QED
      BY <3>1, <3>2
  <2> QED
    BY <1>0, <1>5, <1>6, <2>3, <2>4, <2>5, SMTT(60) DEF ForksInv
<1>10. VotesInv(tower)'
  BY <1>0 DEF IInv, VotesInv, voted_slots
<1>11. TowerInv'
  <2>1. tower.last_vote \in f'.frozen
    BY <1>3, <1>5
  <2>2. (tower.root \in lineage(bank_forks.root))'
    BY <1>0, <1>3, <1>5 DEF lineage
  <2>3. disk = [tower EXCEPT !.stray = NoSlot] /\ tower.votes # <<>>
    BY <1>0 DEF IInv, TowerInv
  <2> QED
    BY <1>0, <1>3, <2>1, <2>2, <2>3 DEF TowerInv
<1>12. TowerKeeps'
  BY <1>0 DEF TowerKeeps
<1> QED
  BY <1>0, <1>7, <1>8, <1>9, <1>10, <1>11, <1>12, DiskFrame, SMTT(60) DEF IInv, Up

\* What a vote that leaves the node promises is what was promised before, or the
\* lockout of a vote on the stack, or the root for ever.
LEMMA PromisedIsOne ==
    ASSUME VotesInv(tower), NEW s \in Slots, promise[s] \in Nat
    PROVE  /\ promised(s) \in Nat
           /\ \/ promised(s) = promise[s]
              \/ \E i \in 1 .. Len(tower.votes) :
                    tower.votes[i].slot = s /\ promised(s) = expiration_slot(tower.votes[i])
              \/ tower.root = s
<1> DEFINE votes == tower.votes
           I == {j \in 1 .. Len(votes) : votes[j].slot = s}
           E == {expiration_slot(votes[i]) : i \in I}
           F == {Forever : x \in {tower.root} \cap {s}}
           T == {promise[s]} \cup E \cup F
<1>1. votes \in Seq(Lockout) /\ SlotsIncrease(votes)
  BY DEF VotesInv, TowerRecord
<1>2. Forever \in Nat
  <2>1. MAX_LOCKOUT_HISTORY + 1 \in Nat /\ MaxSlot \in Nat
    BY MaxLockoutHistoryAssumption, TowerAssumption
  <2>2. 2 ^ (MAX_LOCKOUT_HISTORY + 1) \in Nat
    BY <2>1, LockoutGrows
  <2> QED
    BY <2>1, <2>2 DEF Forever
<1>3. \A i \in 1 .. Len(votes) : expiration_slot(votes[i]) \in Nat
  BY <1>1, DoubleKeeps, ZenonT(40)
<1>4. \A i, j \in I : i = j
  <2>1. \A i \in 1 .. Len(votes) : votes[i].slot \in Nat /\ i \in Nat
    BY <1>1, VotesTyped, SMTT(60)
  <2> QED
    BY <1>1, <2>1 DEF SlotsIncrease
<1>5. T \in SUBSET Nat /\ T # {} /\ promised(s) = Max(T)
  <2>1. E \in SUBSET Nat /\ F \in SUBSET Nat
    BY <1>2, <1>3, ZenonT(40)
  <2> QED
    BY <2>1 DEF promised
<1>6. \E b \in Nat : \A x \in T : x <= b
  <2>1. CASE I = {}
    <3>1. \A x \in T : x = promise[s] \/ x = Forever
      BY <2>1
    <3> HIDE DEF T
    <3>2. promise[s] + Forever \in Nat /\ \A x \in T : x <= promise[s] + Forever
      BY <3>1, <1>2
    <3> QED
      BY <3>2
  <2>2. CASE I # {}
    <3>1. PICK i \in I : TRUE
      BY <2>2
    <3>2. expiration_slot(votes[i]) \in Nat
      BY <1>3
    <3>3. \A x \in T : x = promise[s] \/ x = Forever \/ x = expiration_slot(votes[i])
      BY <3>1, <1>4
    <3> DEFINE b == promise[s] + Forever + expiration_slot(votes[i])
    <3> HIDE DEF T
    <3>4. b \in Nat /\ \A x \in T : x <= b
      BY <3>2, <3>3, <1>2, SMTT(60)
    <3> QED
      BY <3>4
  <2> QED
    BY <2>1, <2>2
<1> HIDE DEF T
<1>7. promised(s) \in T
  BY <1>5, <1>6, GreatestNat, ZenonT(40)
<1> QED
  BY <1>5, <1>7, ZenonT(40) DEF T

\* What is promised is what the saved tower keeps.
LEMMA push_voteIInv ==
    ASSUME IInv, NEW sent \in BOOLEAN, push_vote(sent)
    PROVE  IInv'
<1>0. /\ pc \in {"saved", "rooted"} /\ pc' = "replay" /\ new_root' = NoSlot
      /\ promise' = IF sent THEN [s \in Slots |-> promised(s)] ELSE promise
      /\ UNCHANGED <<ancestors, full, rooted, disk, tower, bank_forks>>
  BY DEF push_vote
<1>1. /\ disk = [tower EXCEPT !.stray = NoSlot] /\ tower.votes # <<>>
      /\ tower.last_vote \in bank_forks.frozen
  BY <1>0 DEF IInv, TowerInv
<1>2. /\ tower \in TowerRecord /\ tower.votes \in Seq(Lockout) /\ SlotsIncrease(tower.votes)
      /\ tower.last_vote = last_voted_slot(tower.votes)
  BY DEF IInv, VotesInv, TowerRecord
<1>3. /\ disk.votes = tower.votes /\ disk.root = tower.root /\ disk.last_vote = tower.last_vote
  BY <1>1, <1>2 DEF TowerRecord
<1>4. disk # NoTower
  BY <1>1, <1>3 DEF NoTower
<1>5. \A s : lineage(s)' = lineage(s)
  BY <1>0 DEF lineage
<1>6. Tree' /\ LedgerInv' /\ TreeKept
  BY <1>0 DEF IInv, Tree, LedgerInv, TreeKept
<1>7. ForksInv'
  BY <1>0, <1>5 DEF IInv, ForksInv, Up
<1>8. VotesInv(tower)'
  BY <1>0 DEF IInv, VotesInv, voted_slots
<1>9. TowerInv'
  <2>1. BuildsOnRoot(tower) => BuildsOnRoot(tower)'
    BY <1>0, <1>5 DEF BuildsOnRoot, voted_slots
  <2>2. tower.root \in DOMAIN ancestors
        /\ (BuildsOnRoot(tower) \/ tower.root \in lineage(bank_forks.root))
    BY <1>0 DEF IInv, TowerInv, Up
  <2> QED
    BY <1>0, <1>1, <1>5, <2>1, <2>2, ZenonT(40) DEF TowerInv
<1>10. promise' \in [Slots -> Nat]
       /\ \A p \in Slots : \/ promise'[p] = promise[p]
                           \/ \E i \in 1 .. Len(tower.votes) :
                                 /\ tower.votes[i].slot = p
                                 /\ promise'[p] = expiration_slot(tower.votes[i])
                           \/ tower.root = p
  <2>1. promise \in [Slots -> Nat] /\ VotesInv(tower)
    BY DEF IInv
  <2>2. CASE ~ sent
    BY <2>1, <2>2, <1>0
  <2>3. CASE sent
    <3>1. promise' = [s \in Slots |-> promised(s)]
      BY <2>3, <1>0
    <3>2. \A s \in Slots :
             /\ promised(s) \in Nat
             /\ \/ promised(s) = promise[s]
                \/ \E i \in 1 .. Len(tower.votes) :
                      tower.votes[i].slot = s /\ promised(s) = expiration_slot(tower.votes[i])
                \/ tower.root = s
      BY <2>1, PromisedIsOne
    <3> QED
      BY <3>1, <3>2
  <2> QED
    BY <2>2, <2>3
<1>11. ASSUME NEW p \in Slots, promise'[p] > 0
       PROVE  p <= tower.last_vote /\ (Keeps(tower, p)' \/ promise'[p] < tower.last_vote)
  <2>1. \A i \in 1 .. Len(tower.votes) :
           /\ tower.votes[i].slot <= tower.last_vote
           /\ expiration_slot(tower.votes[i]) \in Nat
    <3>1. \A i \in 1 .. Len(tower.votes) : tower.votes[i].slot \in Nat
      BY <1>2, VotesTyped
    <3>2. \A i \in 1 .. Len(tower.votes) : expiration_slot(tower.votes[i]) \in Nat
      BY <1>2, DoubleKeeps, ZenonT(40)
    <3> QED
      BY <1>1, <1>2, <3>1, <3>2, SMTT(60) DEF last_voted_slot, SlotsIncrease
  <2>2. CASE promise'[p] = promise[p]
    <3>1. p <= disk.last_vote /\ (Keeps(disk, p) \/ promise[p] < disk.last_vote)
      BY <1>11, <2>2 DEF IInv, DiskKeeps
    <3> QED
      BY <3>1, <2>2, <1>0, <1>3, <1>5 DEF Keeps
  <2>3. CASE \E i \in 1 .. Len(tower.votes) :
                /\ tower.votes[i].slot = p /\ promise'[p] = expiration_slot(tower.votes[i])
    <3>1. PICK i \in 1 .. Len(tower.votes) :
                /\ tower.votes[i].slot = p /\ promise'[p] = expiration_slot(tower.votes[i])
      BY <2>3
    <3> QED
      BY <3>1, <2>1, <1>0 DEF Keeps
  <2>4. CASE tower.root = p
    <3>1. Keeps(tower, p)'
      BY <2>4, <1>0 DEF Keeps, lineage
    <3>2. Len(tower.votes) \in 1 .. Len(tower.votes)
      BY <1>1, <1>2, VotesTyped
    <3>3. tower.last_vote \in voted_slots(disk)
      BY <1>1, <1>2, <1>3, <3>2, SMTT(60) DEF voted_slots, last_voted_slot
    <3>4. tower.root \in lineage(tower.last_vote) /\ tower.last_vote \in DOMAIN ancestors
      BY <1>3, <1>4, <3>3 DEF IInv, DiskInv, BuildsOnRoot, VotesInv
    <3> QED
      BY <3>1, <3>4, <2>4, LineageTransitive DEF IInv
  <2> QED
    BY <2>2, <2>3, <2>4, <1>10
<1>12. DiskKeeps'
  <2>1. \A p \in Slots : Keeps(tower, p)' => Keeps(disk, p)'
    BY <1>0, <1>3 DEF Keeps
  <2> QED
    BY <1>0, <1>3, <1>4, <1>11, <2>1, SMTT(60) DEF DiskKeeps
<1>13. TowerKeeps'
  <2>1. tower.last_vote \in reached'
    BY <1>0, ZenonT(40) DEF reached
  <2> QED
    BY <1>0, <1>11, <2>1 DEF TowerKeeps
<1> QED
  BY <1>0, <1>6, <1>7, <1>8, <1>9, <1>10, <1>12, <1>13, DiskFrame, SMTT(60) DEF IInv, SlotOption, Up

\* The stack as it would be with a vote on slot.
LEMMA SimulatedKeeps ==
    ASSUME VotesInv(tower), NEW slot \in Nat, is_recent(slot)
    PROVE  LET new == simulated(slot)
               votes == tower.votes
           IN  /\ votes \in Seq(Lockout) /\ SlotsIncrease(votes)
               /\ new.votes \in Seq(Lockout) /\ new.votes # <<>>
               /\ SlotsIncrease(new.votes)
               /\ last_voted_slot(new.votes) = slot
               /\ \A i \in 1 .. Len(new.votes) :
                     \/ new.votes[i].slot = slot
                     \/ \E j \in 1 .. Len(votes) : new.votes[i].slot = votes[j].slot
               /\ \/ new.root = tower.root
                  \/ votes # <<>> /\ new.root = votes[1].slot
               /\ \A j \in 1 .. Len(votes) :
                     \/ expiration_slot(votes[j]) < slot
                     \/ new.root = votes[j].slot
                     \/ \E i \in 1 .. Len(new.votes) :
                           /\ new.votes[i].slot = votes[j].slot
                           /\ expiration_slot(new.votes[i]) >= expiration_slot(votes[j])
<1> DEFINE votes == tower.votes
<1>1. votes \in Seq(Lockout) /\ SlotsIncrease(votes)
  BY DEF VotesInv, TowerRecord
<1>2. votes # <<>> => last_voted_slot(votes) \in Nat
  BY <1>1, VotesTyped DEF last_voted_slot
<1>3. ~ is_ignored(votes, slot)
  BY <1>2 DEF is_recent, is_ignored
<1> DEFINE new == process_slot([votes |-> votes, root |-> tower.root], slot)
<1>4. /\ new.votes \in Seq(Lockout) /\ new.votes # <<>>
      /\ SlotsIncrease(new.votes)
      /\ last_voted_slot(new.votes) = slot
      /\ \A i \in 1 .. Len(new.votes) :
            \/ new.votes[i].slot = slot
            \/ \E j \in 1 .. Len(votes) : new.votes[i].slot = votes[j].slot
      /\ \/ new.root = tower.root
         \/ votes # <<>> /\ new.root = votes[1].slot
      /\ \A j \in 1 .. Len(votes) :
            \/ expiration_slot(votes[j]) < slot
            \/ new.root = votes[j].slot
            \/ \E i \in 1 .. Len(new.votes) :
                  /\ new.votes[i].slot = votes[j].slot
                  /\ expiration_slot(new.votes[i]) >= expiration_slot(votes[j])
  <2> HIDE DEF votes
  <2> QED
    BY <1>1, <1>3, ProcessSlotKeeps, ZenonT(40)
<1>5. simulated(slot) = new
  BY DEF simulated, stack
<1> HIDE DEF new
<1> QED
  BY <1>1, <1>4, <1>5, SMTT(60)

\* What a vote makes of the tower: its votes and its root are ancestors of the
\* bank voted on, none older than the root of the bank forks, and build on both
\* the root of the bank forks and the root of the tower.
LEMMA VotedOn ==
    ASSUME IInv, NEW slot \in Slots, vote_and_save(slot)
    PROVE  LET new == simulated(slot)
           IN  /\ slot \in DOMAIN ancestors /\ bank_forks.root \in lineage(slot)
               /\ new.root \in lineage(slot) /\ new.root >= bank_forks.root
               /\ bank_forks.root \in lineage(new.root) /\ tower.root \in lineage(new.root)
               /\ \A i \in 1 .. Len(new.votes) :
                     /\ new.votes[i].slot \in lineage(slot)
                     /\ new.root \in lineage(new.votes[i].slot)
<1> DEFINE votes == tower.votes
           R == bank_forks.root
           new == simulated(slot)
<1>1. /\ slot \in bank_forks.frozen /\ is_recent(slot) /\ conflicts(slot) = {}
      /\ slot = new.root \/ new.root \in bank_ancestors(slot)
      /\ pc = "replay"
  BY DEF vote_and_save, heaviest_banks, is_locked_out, root_is_ancestor
<1>2. /\ slot \in DOMAIN ancestors /\ R \in lineage(slot) /\ R \in DOMAIN ancestors
  BY <1>1, SMTT(60) DEF IInv, ForksInv, Up
<1>3. /\ votes \in Seq(Lockout) /\ SlotsIncrease(votes)
      /\ slot \in Nat /\ \A v \in voted_slots(tower) : v \in DOMAIN ancestors
  BY TowerAssumption DEF IInv, VotesInv, TowerRecord, Slots
<1>4. /\ \A i \in 1 .. Len(new.votes) :
            \/ new.votes[i].slot = slot
            \/ \E j \in 1 .. Len(votes) : new.votes[i].slot = votes[j].slot
      /\ new.root = tower.root \/ (votes # <<>> /\ new.root = votes[1].slot)
  BY <1>1, <1>3, SimulatedKeeps, ZenonT(40) DEF IInv
<1> HIDE DEF new
<1>5. R \in Nat /\ R <= slot /\ slot \in lineage(slot)
  BY <1>2, LineageTransitive DEF IInv, lineage
<1>6. \A i \in 1 .. Len(new.votes) : new.votes[i].slot \in lineage(slot) /\ new.votes[i].slot >= R
  <2> SUFFICES ASSUME NEW i \in 1 .. Len(new.votes)
               PROVE  new.votes[i].slot \in lineage(slot) /\ new.votes[i].slot >= R
    OBVIOUS
  <2>1. new.votes[i].slot \in voted_slots(new)
    BY DEF voted_slots
  <2>2. new.votes[i].slot = slot \/ new.votes[i].slot \in bank_ancestors(slot)
    BY <1>1, <2>1 DEF conflicts, new
  <2> QED
    BY <2>2, <1>3, <1>5 DEF bank_ancestors, lineage
<1>7. new.root \in lineage(slot) /\ new.root >= R
  BY <1>1, <1>3, <1>5 DEF bank_ancestors, lineage
<1>8. \A v \in lineage(slot) : v >= R => R \in lineage(v)
  <2> SUFFICES ASSUME NEW v \in lineage(slot), v >= R
               PROVE  R \in lineage(v)
    OBVIOUS
  <2>1. v \in Nat
    BY <1>2, LineageTransitive DEF IInv
  <2> QED
    BY <1>2, <1>5, <2>1, LineageLinear DEF IInv
<1>9. \A v \in DOMAIN ancestors : \A a \in lineage(v) : lineage(a) \subseteq lineage(v)
  BY LineageTransitive DEF IInv
<1>10. BuildsOnRoot(tower) \/ tower.root \in lineage(R)
  BY <1>1 DEF IInv, TowerInv, Up
<1>11. tower.root \in lineage(new.root)
  <2>1. CASE new.root = tower.root
    BY <2>1 DEF lineage
  <2>2. CASE votes # <<>> /\ new.root = votes[1].slot
    <3>1. 1 \in 1 .. Len(votes)
      BY <1>3, <2>2
    <3>2. new.root \in voted_slots(tower) /\ new.root \in DOMAIN ancestors
      BY <1>3, <2>2, <3>1 DEF voted_slots
    <3>3. BuildsOnRoot(tower) => tower.root \in lineage(new.root)
      BY <3>2 DEF BuildsOnRoot
    <3>4. R \in lineage(new.root) /\ lineage(R) \subseteq lineage(new.root)
      BY <1>7, <1>8, <1>9, <3>2, SMTT(60)
    <3> QED
      BY <1>10, <3>3, <3>4
  <2> QED
    BY <1>4, <2>1, <2>2
<1>12. ASSUME NEW i \in 1 .. Len(new.votes)
       PROVE  new.root \in lineage(new.votes[i].slot)
  <2> DEFINE v == new.votes[i].slot
  <2>1. CASE v = slot
    BY <1>7, <2>1
  <2>2. CASE \E j \in 1 .. Len(votes) : v = votes[j].slot
    <3>1. PICK j \in 1 .. Len(votes) : v = votes[j].slot
      BY <2>2
    <3>2. v \in voted_slots(tower) /\ v \in DOMAIN ancestors
      BY <3>1, <1>3 DEF voted_slots
    <3>3. v \in lineage(slot) /\ v >= R
      BY <1>6
    <3>4. CASE new.root = tower.root
      <4>1. R \in lineage(v) /\ lineage(R) \subseteq lineage(v)
        BY <1>8, <1>9, <3>2, <3>3, SMTT(60)
      <4> QED
        BY <1>10, <3>2, <3>4, <4>1, SMTT(60) DEF BuildsOnRoot
    <3>5. CASE votes # <<>> /\ new.root = votes[1].slot
      <4>1. 1 \in 1 .. Len(votes) /\ (j = 1 \/ 1 < j)
        BY <1>3, <3>5
      <4>2. CASE j = 1
        BY <3>1, <3>5, <4>2, SMTT(60) DEF lineage
      <4>3. CASE 1 < j
        <5>1. votes[1].slot < votes[j].slot
          BY <4>1, <4>3, <1>3, ZenonT(40) DEF SlotsIncrease
        <5>2. votes[1].slot \in voted_slots(tower) /\ votes[j].slot \in voted_slots(tower)
          BY <4>1, SMTT(60) DEF voted_slots
        <5>3. votes[1].slot \in ancestors[votes[j].slot]
          BY <5>1, <5>2 DEF IInv, VotesInv
        <5> QED
          BY <3>1, <3>5, <5>3 DEF lineage
      <4> QED
        BY <4>1, <4>2, <4>3
    <3> QED
      BY <1>4, <3>4, <3>5
  <2> QED
    BY <1>4, <2>1, <2>2
<1>13. R \in lineage(new.root)
  BY <1>7, <1>8
<1> QED
  BY <1>2, <1>6, <1>7, <1>11, <1>12, <1>13, SMTT(60) DEF new

\* A vote is on a block that builds on every slot still locked, and the tower is
\* saved before anything is promised for it.
LEMMA vote_and_saveIInv ==
    ASSUME IInv, NEW slot \in Slots, vote_and_save(slot)
    PROVE  IInv'
<1> DEFINE votes == tower.votes
           R == bank_forks.root
           new == simulated(slot)
<1>0. /\ pc = "replay" /\ pc' = "saved"
      /\ tower' = [votes |-> new.votes, root |-> new.root,
                   last_vote |-> slot, stray |-> tower.stray]
      /\ disk' = [tower' EXCEPT !.stray = NoSlot]
      /\ new_root' = IF tower'.root # tower.root THEN tower'.root ELSE NoSlot
      /\ UNCHANGED <<ancestors, full, rooted, bank_forks, promise>>
  BY DEF vote_and_save, record_bank_vote
<1>1. /\ slot \in bank_forks.frozen /\ is_recent(slot)
  BY ZenonT(40) DEF vote_and_save, heaviest_banks, is_locked_out
<1>2. /\ slot \in DOMAIN ancestors /\ R \in lineage(slot)
      /\ new.root \in lineage(slot) /\ new.root >= R
      /\ R \in lineage(new.root) /\ tower.root \in lineage(new.root)
      /\ \A i \in 1 .. Len(new.votes) : /\ new.votes[i].slot \in lineage(slot)
                                        /\ new.root \in lineage(new.votes[i].slot)
  BY VotedOn
<1>3. /\ votes \in Seq(Lockout) /\ SlotsIncrease(votes) /\ slot \in Nat
      /\ tower \in TowerRecord /\ tower.last_vote = last_voted_slot(votes)
      /\ votes # <<>> => last_voted_slot(votes) \in Nat
  <2>1. /\ votes \in Seq(Lockout) /\ SlotsIncrease(votes)
        /\ tower \in TowerRecord /\ tower.last_vote = last_voted_slot(votes)
    BY DEF IInv, VotesInv, TowerRecord
  <2>2. slot \in Nat
    BY TowerAssumption DEF Slots
  <2>3. votes # <<>> => last_voted_slot(votes) \in Nat
    BY <2>1, VotesTyped DEF last_voted_slot
  <2> QED
    BY <2>1, <2>2, <2>3, SMTT(60)
<1>4. /\ new.votes \in Seq(Lockout) /\ new.votes # <<>> /\ SlotsIncrease(new.votes)
      /\ last_voted_slot(new.votes) = slot
      /\ \A j \in 1 .. Len(votes) :
            \/ expiration_slot(votes[j]) < slot
            \/ new.root = votes[j].slot
            \/ \E i \in 1 .. Len(new.votes) :
                  /\ new.votes[i].slot = votes[j].slot
                  /\ expiration_slot(new.votes[i]) >= expiration_slot(votes[j])
  BY <1>1, <1>3, SimulatedKeeps, ZenonT(40) DEF IInv
<1> HIDE DEF new
<1>5. \A v \in lineage(slot) :
         v \in DOMAIN ancestors /\ v \in Nat /\ v <= slot /\ lineage(v) \subseteq lineage(slot)
  BY <1>2, LineageTransitive, SMTT(60) DEF IInv
<1>6. lineage(R) \subseteq lineage(new.root) /\ lineage(tower.root) \subseteq lineage(new.root)
  BY <1>2, <1>5, LineageTransitive DEF IInv
<1>7. tower' \in TowerRecord /\ disk' \in TowerRecord
  <2>1. new.root \in SlotOption /\ slot \in SlotOption /\ tower.stray \in SlotOption
        /\ NoSlot \in SlotOption
    BY <1>2, <1>3, <1>5 DEF SlotOption, TowerRecord
  <2>2. tower' \in TowerRecord
    BY <1>0, <1>4, <2>1 DEF TowerRecord
  <2> QED
    BY <1>0, <2>1, <2>2, SMTT(60) DEF TowerRecord
<1>8. /\ tower'.votes = new.votes /\ tower'.root = new.root /\ tower'.last_vote = slot
      /\ disk'.votes = new.votes /\ disk'.root = new.root /\ disk'.last_vote = slot
  BY <1>0
<1>9. \A s : lineage(s)' = lineage(s)
  BY <1>0 DEF lineage
<1> DEFINE V == {new.votes[i].slot : i \in 1 .. Len(new.votes)}
<1>10. voted_slots(tower)' = V /\ voted_slots(disk)' = V
  BY <1>8, ZenonT(40) DEF voted_slots
<1>11. /\ V \subseteq DOMAIN ancestors /\ \A v \in V : new.root \in lineage(v)
       /\ \A p, q \in V : p < q => p \in ancestors[q]
  <2>1. \A v \in V : v \in lineage(slot) /\ new.root \in lineage(v)
    BY <1>2
  <2>2. ASSUME NEW p \in V, NEW q \in V, p < q
        PROVE  p \in ancestors[q]
    <3>1. p \in Nat /\ q \in Nat
      BY <1>5, <2>1, ZenonT(40)
    <3>2. p \in lineage(q)
      BY <1>2, <2>1, <2>2, <3>1, LineageLinear, SMTT(60) DEF IInv
    <3> QED
      BY <2>2, <3>1, <3>2 DEF lineage
  <2> QED
    BY <1>5, <2>1, <2>2, SMTT(60)
<1> HIDE DEF V
<1>12. VotesInv(tower)' /\ VotesInv(disk)'
  BY <1>0, <1>4, <1>7, <1>8, <1>10, <1>11, ZenonT(40) DEF VotesInv
<1>13. BuildsOnRoot(tower)' /\ BuildsOnRoot(disk)' /\ new.root \in DOMAIN ancestors
  BY <1>2, <1>5, <1>8, <1>9, <1>10, <1>11, SMTT(60) DEF BuildsOnRoot
<1>14. DiskInv'
  BY <1>0, <1>4, <1>8, <1>13, ZenonT(40) DEF DiskInv
<1>15. TowerInv'
  BY <1>0, <1>1, <1>2, <1>4, <1>8, <1>9, <1>13, SMTT(60) DEF TowerInv, Up
<1>16. Tree' /\ LedgerInv'
  BY <1>0 DEF IInv, Tree, LedgerInv
<1>17. ForksInv'
  BY <1>0, <1>9 DEF IInv, ForksInv, Up
<1>18. new_root' \in SlotOption /\ TowerKeeps'
  BY <1>0, <1>5, <1>8, <1>13, <1>2, SMTT(60) DEF TowerKeeps, SlotOption
<1>19. DiskKeeps'
  <2> SUFFICES ASSUME NEW p \in Slots, promise[p] > 0
               PROVE  /\ disk' # NoTower /\ p <= slot
                      /\ Keeps(disk, p)' \/ promise[p] < slot
    BY <1>0, <1>8, SMTT(60) DEF DiskKeeps
  <2>0. promise[p] \in Nat /\ p \in Nat
    BY TowerAssumption DEF IInv, Slots
  <2>1. /\ \E r \in reached : p <= r
        /\ \/ Keeps(tower, p)
           \/ p \in lineage(R)
           \/ \E r \in reached : promise[p] < r
    BY <1>0, ZenonT(40) DEF IInv, TowerKeeps
  <2>2. \A r \in reached : r \in Int /\ r <= slot
    <3>1. tower.last_vote \in Int /\ tower.last_vote <= slot
      BY <1>1, <1>3, SMTT(60) DEF is_recent, last_voted_slot, NoSlot
    <3>2. tower.root \in lineage(slot)
      BY <1>2, <1>5, SMTT(60)
    <3> QED
      BY <1>2, <1>5, <3>1, <3>2, SMTT(60) DEF reached
  <2>3. disk' # NoTower
    BY <1>4, <1>8, SMTT(60) DEF NoTower
  <2>4. p <= slot
    BY <1>3, <2>0, <2>1, <2>2, SMTT(60)
  <2>5. p \in lineage(new.root) => Keeps(disk, p)'
    BY <1>8, <1>9, ZenonT(40) DEF Keeps
  <2>6. CASE Keeps(tower, p)
    <3>1. CASE p \in lineage(tower.root)
      BY <1>6, <2>3, <2>4, <2>5, <3>1, SMTT(60)
    <3>2. CASE \E j \in 1 .. Len(votes) :
                  votes[j].slot = p /\ expiration_slot(votes[j]) >= promise[p]
      <4>1. PICK j \in 1 .. Len(votes) :
                  votes[j].slot = p /\ expiration_slot(votes[j]) >= promise[p]
        BY <3>2, ZenonT(40)
      <4>2. expiration_slot(votes[j]) \in Nat
        BY <1>3, DoubleKeeps, ZenonT(40)
      <4>3. CASE expiration_slot(votes[j]) < slot
        BY <1>3, <2>0, <2>3, <2>4, <4>1, <4>2, <4>3, SMTT(60)
      <4>4. CASE new.root = votes[j].slot
        BY <2>3, <2>4, <2>5, <4>1, <4>4, SMTT(60) DEF lineage
      <4>5. CASE \E i \in 1 .. Len(new.votes) :
                    /\ new.votes[i].slot = votes[j].slot
                    /\ expiration_slot(new.votes[i]) >= expiration_slot(votes[j])
        <5>1. PICK i \in 1 .. Len(new.votes) :
                    /\ new.votes[i].slot = p
                    /\ expiration_slot(new.votes[i]) >= expiration_slot(votes[j])
          BY <4>1, <4>5, ZenonT(40)
        <5>2. expiration_slot(new.votes[i]) \in Nat
          BY <1>4, DoubleKeeps, ZenonT(40)
        <5>3. expiration_slot(new.votes[i]) >= promise[p]
          BY <2>0, <4>1, <4>2, <5>1, <5>2, SMTT(60)
        <5>4. Keeps(disk, p)'
          BY <1>0, <1>8, <5>1, <5>3, SMTT(60) DEF Keeps
        <5> QED
          BY <2>3, <2>4, <5>4, ZenonT(40)
      <4> QED
        BY <1>4, <4>3, <4>4, <4>5, SMTT(60)
    <3> QED
      BY <2>3, <2>4, <2>6, <3>1, <3>2, SMTT(60) DEF Keeps
  <2>7. CASE p \in lineage(R)
    BY <1>6, <2>3, <2>4, <2>5, <2>7, SMTT(60)
  <2>8. CASE \E r \in reached : promise[p] < r
    BY <1>3, <2>0, <2>2, <2>3, <2>4, <2>8, SMTT(60)
  <2> QED
    BY <2>1, <2>6, <2>7, <2>8, SMTT(60)
<1> QED
  BY <1>0, <1>12, <1>14, <1>15, <1>16, <1>17, <1>18, <1>19, SMTT(60) DEF IInv, Up

\* A replayed root is a block all of whose ancestors are complete.
LEMMA ReplayedRoot ==
    ASSUME Tree, LedgerInv, NEW roots \in SUBSET DOMAIN ancestors, 0 \in roots,
           NEW root \in replayed_roots(roots)
    PROVE  root \in replayable
<1> DEFINE T == roots \cap replayable
<1>1. 0 \in T
  BY DEF LedgerInv, replayable, Tree, lineage
<1>2. T \in SUBSET Nat /\ MaxSlot \in Nat /\ \A x \in T : x <= MaxSlot
  BY TowerAssumption DEF Tree, Slots
<1>3. Max(T) \in T
  BY <1>1, <1>2, GreatestNat, ZenonT(40)
<1> QED
  BY <1>3 DEF replayed_roots

\* The position that adjust_lockouts_with_slot_history cuts the votes at.
LEMMA AnchoredVotes ==
    ASSUME NEW t, NEW hist, t.votes \in Seq(Lockout)
    PROVE  LET k == anchored_votes(t, hist)
           IN  /\ k \in 0 .. Len(t.votes)
               /\ k # 0 => check(hist, t.votes[k].slot) = "Found"
               /\ \A i \in k + 1 .. Len(t.votes) : check(hist, t.votes[i].slot) # "Found"
<1> DEFINE n == Len(t.votes)
           T == {0} \cup {i \in 1 .. n : check(hist, t.votes[i].slot) = "Found"}
           k == anchored_votes(t, hist)
<1>1. n \in Nat /\ T \in SUBSET Nat /\ T # {} /\ \A x \in T : x <= n
  OBVIOUS
<1>2. k = Max(T)
  BY DEF anchored_votes
<1>3. k \in T /\ \A y \in T : y <= k
  BY <1>1, <1>2, GreatestNat, ZenonT(40)
<1> HIDE DEF k
<1>4. \A i \in k + 1 .. n : check(hist, t.votes[i].slot) # "Found"
  <2> SUFFICES ASSUME NEW i \in k + 1 .. n, check(hist, t.votes[i].slot) = "Found"
               PROVE  FALSE
    OBVIOUS
  <2>1. i \in T /\ i > k
    BY <1>1, <1>3
  <2> QED
    BY <1>1, <1>3, <2>1
<1> QED
  BY <1>1, <1>3, <1>4 DEF k

\* What has been found in a slot history belongs to it.
LEMMA FoundSlot ==
    ASSUME NEW hist, NEW s, check(hist, s) = "Found"
    PROVE  s \in hist.found
  BY ZenonT(40) DEF check

\* The adjusted tower: its root is the replayed root or, when that is older, the
\* saved root; it builds on the saved root, and on every vote that was dropped.
LEMMA AdjustedTower ==
    ASSUME IInv, disk # NoTower, NEW root \in DOMAIN ancestors, ~ adjust_fails(disk, root)
    PROVE  LET new == adjust_lockouts_after_replay(disk, root)
               k == anchored_votes(disk, adjusted_history(disk, root))
           IN  /\ new = [votes |-> SubSeq(disk.votes, k + 1, Len(disk.votes)),
                         root |-> new.root,
                         last_vote |-> last_voted_slot(new.votes),
                         stray |-> last_voted_slot(new.votes)]
               /\ k \in 0 .. Len(disk.votes)
               /\ new.root = root \/ new.root = disk.root
               /\ new.root >= root
               /\ disk.root \in lineage(new.root)
               /\ \A i \in 1 .. k : disk.votes[i].slot \in lineage(new.root)
<1> DEFINE votes == disk.votes
           hist == adjusted_history(disk, root)
           k == anchored_votes(disk, hist)
           r == Max({disk.root, root})
<1>1. /\ votes \in Seq(Lockout) /\ SlotsIncrease(votes) /\ disk.root \in DOMAIN ancestors
      /\ voted_slots(disk) \subseteq DOMAIN ancestors
      /\ \A v \in voted_slots(disk) : disk.root \in lineage(v)
  BY DEF IInv, VotesInv, TowerRecord, DiskInv, BuildsOnRoot
<1>2. adjust_lockouts_after_replay(disk, root)
         = [votes |-> SubSeq(votes, k + 1, Len(votes)), root |-> r,
            last_vote |-> last_voted_slot(SubSeq(votes, k + 1, Len(votes))),
            stray |-> last_voted_slot(SubSeq(votes, k + 1, Len(votes)))]
  BY SMTT(60) DEF adjust_lockouts_after_replay, adjust_lockouts_with_slot_history
<1>3. DOMAIN ancestors \subseteq Nat /\ root \in Nat /\ disk.root \in Nat
  BY <1>1, TowerAssumption DEF IInv, Tree, Slots
<1>4. (disk.root <= root => r = root) /\ (disk.root > root => r = disk.root)
  BY <1>3, SMTT(60) DEF Max
<1>5. /\ k \in 0 .. Len(votes)
      /\ k # 0 => check(hist, votes[k].slot) = "Found"
      /\ \A i \in k + 1 .. Len(votes) : check(hist, votes[i].slot) # "Found"
  BY <1>1, AnchoredVotes, SMTT(60)
<1>6. /\ disk.root <= root => hist.found = lineage(root)
      /\ disk.root > root => hist.found = lineage(root) \cup {disk.root}
  BY <1>3 DEF adjusted_history, slot_history, history_add
<1>7. \E s \in slots_in_tower(disk) : check(hist, s) = "Found"
  BY DEF adjust_fails, is_inconsistent, anchors
<1> HIDE DEF hist, k, r
<1>8. CASE k = 0
  <2>1. check(hist, disk.root) = "Found"
    BY <1>5, <1>7, <1>8, SMTT(60) DEF slots_in_tower, voted_slots
  <2>2. disk.root \in hist.found
    BY <2>1, FoundSlot
  <2>3. disk.root \in lineage(r)
    BY <1>3, <1>4, <1>6, <2>2, SMTT(60) DEF lineage
  <2> QED
    BY <1>2, <1>3, <1>4, <1>5, <1>8, <2>3, SMTT(60) DEF hist, k
<1>9. CASE k # 0
  <2> DEFINE v == votes[k].slot
  <2>1. k \in 1 .. Len(votes)
    BY <1>1, <1>5, <1>9, SMTT(60)
  <2>2. v \in voted_slots(disk) /\ v \in DOMAIN ancestors /\ v \in hist.found
    BY <1>1, <1>5, <1>9, <2>1, FoundSlot, SMTT(60) DEF voted_slots
  <2>3. disk.root \in lineage(v) /\ disk.root <= v
    BY <1>1, <2>2, LineageTransitive DEF IInv
  <2>4. v \in lineage(r) /\ r \in DOMAIN ancestors
    <3>1. CASE disk.root <= root
      BY <3>1, <1>4, <1>6, <2>2, ZenonT(40)
    <3>2. CASE disk.root > root
      <4>1. \A a \in lineage(root) : a \in Nat /\ a <= root
        BY LineageTransitive, ZenonT(40) DEF IInv
      <4>2. v = disk.root
        BY <1>3, <1>6, <2>2, <2>3, <3>2, <4>1, SMTT(60)
      <4> QED
        BY <1>1, <1>4, <3>2, <4>2, SMTT(60) DEF lineage
    <3> QED
      BY <1>3, <3>1, <3>2, SMTT(60)
  <2>5. lineage(v) \subseteq lineage(r)
    BY <2>4, LineageTransitive DEF IInv
  <2>6. \A i \in 1 .. k : votes[i].slot \in lineage(v)
    <3> SUFFICES ASSUME NEW i \in 1 .. k
                 PROVE  votes[i].slot \in lineage(v)
      OBVIOUS
    <3>1. i \in 1 .. Len(votes) /\ (i = k \/ i < k)
      BY <1>1, <1>5
    <3>2. CASE i = k
      BY <3>2, SMTT(60) DEF lineage
    <3>3. CASE i < k
      <4>1. votes[i].slot < v
        BY <1>1, <2>1, <3>1, <3>3, ZenonT(40) DEF SlotsIncrease
      <4>2. votes[i].slot \in voted_slots(disk)
        BY <3>1, SMTT(60) DEF voted_slots
      <4>3. votes[i].slot \in ancestors[v]
        BY <2>2, <4>1, <4>2 DEF IInv, VotesInv
      <4> QED
        BY <4>3 DEF lineage
    <3> QED
      BY <3>1, <3>2, <3>3, SMTT(60)
  <2> QED
    BY <1>2, <1>3, <1>4, <1>5, <2>3, <2>5, <2>6, SMTT(60) DEF hist, k
<1> QED
  BY <1>8, <1>9, SMTT(60)

\* The votes above a position.
LEMMA Suffix ==
    ASSUME NEW votes \in Seq(Lockout), NEW k \in 0 .. Len(votes)
    PROVE  LET s == SubSeq(votes, k + 1, Len(votes))
           IN  /\ s \in Seq(Lockout) /\ Len(s) = Len(votes) - k
               /\ \A i \in 1 .. Len(votes) - k : i + k \in 1 .. Len(votes) /\ s[i] = votes[i + k]
<1> DEFINE n == Len(votes)
           s == SubSeq(votes, k + 1, n)
<1>1. n \in Nat /\ k \in Nat /\ k <= n /\ \A i \in 1 .. n : votes[i] \in Lockout
  OBVIOUS
<1>2. Len(s) = n - k
  BY <1>1
<1>3. \A i \in 1 .. n - k : i + k \in 1 .. n /\ s[i] = votes[i + k]
  BY <1>1
<1>4. s \in Seq(Lockout)
  BY <1>1
<1> QED
  BY <1>2, <1>3, <1>4

\* The bank forks that load_frozen_forks leaves.
LEMMA ReplayedForks ==
    ASSUME Tree, LedgerInv, NEW root \in replayable
    PROVE  LET f == replayed_forks(root)
           IN  /\ f \in [root : Int, banks : SUBSET DOMAIN ancestors,
                         frozen : SUBSET DOMAIN ancestors]
               /\ f.root = root /\ f.root \in f.frozen /\ f.frozen = f.banks
               /\ \A b \in f.banks :
                     /\ root \in lineage(b)
                     /\ \A a \in ancestors[b] : a >= root => a \in f.frozen
<1> DEFINE B == {b \in replayable : root \in lineage(b)}
<1>1. /\ replayed_forks(root) = [root |-> root, banks |-> B, frozen |-> B]
  BY DEF replayed_forks, descends
<1>2. replayable \subseteq DOMAIN ancestors /\ root \in Nat
  BY TowerAssumption DEF replayable, LedgerInv, Tree, Slots
<1>3. root \in B
  BY DEF lineage
<1>4. ASSUME NEW b \in B, NEW a \in ancestors[b], a >= root
      PROVE  a \in B
  <2>1. b \in DOMAIN ancestors /\ root \in lineage(b) /\ lineage(b) \subseteq full
    BY <1>2 DEF replayable
  <2>2. a \in lineage(b)
    BY DEF lineage
  <2>3. a \in Nat /\ lineage(a) \subseteq lineage(b)
    BY <2>1, <2>2, LineageTransitive
  <2>4. root \in lineage(a)
    BY <1>2, <1>4, <2>1, <2>2, <2>3, LineageLinear, SMTT(60)
  <2> QED
    BY <2>1, <2>2, <2>3, <2>4, SMTT(60) DEF replayable
<1> HIDE DEF B
<1>5. B \subseteq DOMAIN ancestors /\ \A b \in B : root \in lineage(b)
  BY <1>2, ZenonT(40) DEF B
<1> DEFINE f == replayed_forks(root)
<1>6. /\ f.root = root /\ f.banks = B /\ f.frozen = B
      /\ f \in [root : Int, banks : SUBSET DOMAIN ancestors, frozen : SUBSET DOMAIN ancestors]
  BY <1>1, <1>2, <1>5
<1> HIDE DEF f
<1>7. \A b \in f.banks : /\ root \in lineage(b)
                         /\ \A a \in ancestors[b] : a >= root => a \in f.frozen
  BY <1>4, <1>5, <1>6
<1>8. f.root = root /\ f.root \in f.frozen /\ f.frozen = f.banks
  BY <1>3, <1>6
<1> QED
  BY <1>6, <1>7, <1>8, ZenonT(40) DEF f

\* The restored tower, or the root it is anchored on, keeps what the saved one did.
LEMMA new_banks_from_ledgerIInv ==
    ASSUME IInv, new_banks_from_ledger
    PROVE  IInv'
<1>1. /\ pc = "down" /\ new_root = NoSlot
      /\ UNCHANGED <<ancestors, full, disk, new_root, promise>>
  BY DEF new_banks_from_ledger, IInv, TowerInv
<1>2. rooted' \subseteq DOMAIN ancestors /\ 0 \in rooted'
  <2>1. disk # NoTower => lineage(disk.root) \subseteq DOMAIN ancestors
    BY LineageTransitive DEF IInv, DiskInv
  <2> QED
    BY <2>1 DEF new_banks_from_ledger, IInv, LedgerInv, reconcile_blockstore_roots_with_tower
<1>3. PICK root \in replayed_roots(rooted') : post_process_restored_tower(root)
  BY DEF new_banks_from_ledger
<1>4. root \in replayable /\ root \in DOMAIN ancestors
  BY <1>2, ReplayedRoot, SMTT(60) DEF IInv, replayable, LedgerInv
<1>5. Tree' /\ LedgerInv' /\ TreeKept
  BY <1>1, <1>2 DEF IInv, Tree, LedgerInv, TreeKept
<1>6. \A s : lineage(s)' = lineage(s)
  BY <1>1 DEF lineage
<1>7. VotesInv(disk)' /\ DiskInv' /\ DiskKeeps'
  BY <1>1, <1>5, DiskFrame, SMTT(60)
<1>8. CASE disk # NoTower /\ adjust_fails(disk, root)
  <2>1. pc' = "aborted" /\ tower' = tower /\ bank_forks' = bank_forks
    BY <1>3, <1>8, SMTT(60) DEF post_process_restored_tower
  <2>2. VotesInv(tower)'
    BY <1>1, <2>1 DEF IInv, VotesInv, voted_slots
  <2>3. ForksInv' /\ TowerInv' /\ TowerKeeps'
    BY <1>1, <2>1 DEF IInv, ForksInv, TowerInv, TowerKeeps, Up
  <2> QED
    BY <1>1, <1>5, <1>7, <2>1, <2>2, <2>3, SMTT(60) DEF IInv, Up
<1>9. CASE ~ (disk # NoTower /\ adjust_fails(disk, root))
  <2>1. /\ pc' = "replay" /\ bank_forks' = replayed_forks(root)
        /\ tower' = IF disk = NoTower THEN fresh_tower(root)
                    ELSE adjust_lockouts_after_replay(disk, root)
    BY <1>3, <1>9 DEF post_process_restored_tower
  <2>2. bank_forks'.root = root
    BY <2>1, ZenonT(40) DEF replayed_forks
  <2>3. ForksInv'
    <3> DEFINE g == bank_forks'
    <3>1. /\ g \in [root : Int, banks : SUBSET DOMAIN ancestors, frozen : SUBSET DOMAIN ancestors]
          /\ g.root = root /\ g.root \in g.frozen /\ g.frozen = g.banks
          /\ \A b \in g.banks : /\ root \in lineage(b)
                                /\ \A a \in ancestors[b] : a >= root => a \in g.frozen
      BY <1>4, <2>1, ReplayedForks, ZenonT(40) DEF IInv
    <3> HIDE DEF g
    <3> QED
      BY <1>1, <1>6, <2>1, <3>1, ZenonT(40) DEF ForksInv, g
  <2>4. root \in Nat /\ root \in SlotOption
    BY <1>4, TowerAssumption, SMTT(60) DEF IInv, Tree, Slots, SlotOption
  <2>5. CASE disk = NoTower
    <3>1. /\ VotesInv(fresh_tower(root)) /\ tower' = fresh_tower(root)
          /\ tower'.root = root /\ tower'.last_vote = NoSlot /\ voted_slots(tower') = {}
      BY <2>1, <2>4, <2>5, FreshTower, ZenonT(40)
    <3>2. VotesInv(tower)' /\ voted_slots(tower)' = {}
      BY <1>1, <3>1, ZenonT(40) DEF VotesInv, voted_slots
    <3>3. TowerInv'
      BY <1>1, <1>4, <2>1, <3>1, <3>2, SMTT(60) DEF TowerInv, BuildsOnRoot, Up
    <3>4. TowerKeeps'
      BY <1>1, <2>5 DEF IInv, DiskKeeps, TowerKeeps
    <3> QED
      BY <1>1, <1>5, <1>7, <2>1, <2>3, <3>2, <3>3, <3>4, ZenonT(40) DEF IInv, Up
  <2>6. CASE disk # NoTower
    <3> DEFINE votes == disk.votes
               k == anchored_votes(disk, adjusted_history(disk, root))
               n == Len(votes)
               t == tower'
    <3>1. t = adjust_lockouts_after_replay(disk, root) /\ ~ adjust_fails(disk, root)
      BY <1>9, <2>1, <2>6, ZenonT(40)
    <3>2. /\ t = [votes |-> SubSeq(votes, k + 1, n), root |-> t.root,
                  last_vote |-> last_voted_slot(t.votes), stray |-> last_voted_slot(t.votes)]
          /\ k \in 0 .. n
          /\ t.root = root \/ t.root = disk.root
          /\ t.root >= root
          /\ disk.root \in lineage(t.root)
          /\ \A i \in 1 .. k : votes[i].slot \in lineage(t.root)
      BY <1>4, <2>6, <3>1, AdjustedTower, ZenonT(40)
    <3>3. /\ votes \in Seq(Lockout) /\ SlotsIncrease(votes) /\ votes # <<>>
          /\ disk.last_vote = last_voted_slot(votes)
          /\ voted_slots(disk) \subseteq DOMAIN ancestors /\ disk.root \in DOMAIN ancestors
          /\ \A v \in voted_slots(disk) : disk.root \in lineage(v)
          /\ \A p, q \in voted_slots(disk) : p < q => p \in ancestors[q]
      BY <2>6, ZenonT(40) DEF IInv, VotesInv, TowerRecord, DiskInv, BuildsOnRoot
    <3>4. t.root \in DOMAIN ancestors /\ t.root \in Nat
      BY <1>4, <3>2, <3>3, TowerAssumption, SMTT(60) DEF IInv, Tree, Slots
    <3> HIDE DEF k, t
    <3>5. /\ t.votes \in Seq(Lockout) /\ Len(t.votes) = n - k /\ n \in Nat
          /\ \A i \in 1 .. n - k : i + k \in 1 .. n /\ t.votes[i] = votes[i + k]
      <4>1. t.votes = SubSeq(votes, k + 1, n)
        BY <3>2
      <4>2. n \in Nat
        BY <3>3
      <4> QED
        BY <3>2, <3>3, <4>1, <4>2, Suffix, ZenonT(40)
    <3>6. SlotsIncrease(t.votes)
      <4> SUFFICES ASSUME NEW i \in 1 .. n - k, NEW j \in 1 .. n - k, i < j
                   PROVE  t.votes[i].slot < t.votes[j].slot
        BY <3>5 DEF SlotsIncrease
      <4>1. i + k \in 1 .. n /\ j + k \in 1 .. n /\ i + k < j + k
        BY <3>2, <3>5
      <4> QED
        BY <3>3, <3>5, <4>1, ZenonT(40) DEF SlotsIncrease
    <3>7. voted_slots(t) \subseteq voted_slots(disk)
      BY <3>5 DEF voted_slots
    <3>8. /\ t.last_vote = last_voted_slot(t.votes) /\ t.stray = t.last_vote
      BY <3>2
    <3>9. /\ k < n => t.last_vote = disk.last_vote
          /\ k = n => t.last_vote = NoSlot
      <4>1. CASE k < n
        <5>1. n - k \in 1 .. n - k /\ (n - k) + k = n /\ t.votes # <<>>
          BY <3>2, <3>5, <4>1, SMTT(60)
        <5>2. t.votes[n - k] = votes[n]
          BY <3>5, <5>1
        <5> QED
          BY <3>2, <3>3, <3>5, <3>8, <4>1, <5>1, <5>2, SMTT(60) DEF last_voted_slot
      <4>2. CASE k = n
        BY <3>5, <3>8, <4>2, SMTT(60) DEF last_voted_slot
      <4> QED
        BY <3>2, <4>1, <4>2, ZenonT(40)
    <3>10. disk.last_vote \in Nat /\ t.last_vote \in SlotOption /\ n \in 1 .. n
           /\ disk.last_vote = votes[n].slot
      <4>1. n \in 1 .. n /\ votes[n].slot \in Nat
        BY <3>3, VotesTyped, ZenonT(40)
      <4> QED
        BY <3>2, <3>3, <3>5, <3>9, <4>1, SMTT(60) DEF last_voted_slot, SlotOption
    <3>11. t \in TowerRecord
      <4>1. t = [votes |-> t.votes, root |-> t.root, last_vote |-> t.last_vote, stray |-> t.stray]
        BY <3>2
      <4> QED
        BY <3>4, <3>5, <3>8, <3>10, <4>1, SMTT(60) DEF TowerRecord, SlotOption
    <3>12. voted_slots(tower)' = voted_slots(t)
      BY ZenonT(40) DEF voted_slots, t
    <3>13. VotesInv(tower)'
      BY <1>1, <3>3, <3>6, <3>7, <3>8, <3>11, <3>12, SMTT(60) DEF VotesInv, t
    <3>14. TowerInv'
      <4>1. t.root = root => (tower.root \in lineage(bank_forks.root))'
        BY <2>2, ZenonT(40) DEF lineage, t
      <4>2. t.root = disk.root => BuildsOnRoot(tower)'
        BY <1>6, <3>3, <3>7, <3>12, SMTT(60) DEF BuildsOnRoot, t
      <4> QED
        BY <1>1, <2>1, <3>2, <3>4, <3>8, <4>1, <4>2, SMTT(60) DEF TowerInv, Up, t
    <3>15. TowerKeeps'
      <4> SUFFICES ASSUME NEW p \in Slots, promise[p] > 0
                   PROVE  /\ \E r \in reached' : p <= r
                          /\ Keeps(tower, p)' \/ \E r \in reached' : promise[p] < r
        BY <1>1 DEF TowerKeeps
      <4>0. p \in Nat /\ promise[p] \in Nat
        BY TowerAssumption DEF IInv, Slots
      <4>1. p <= disk.last_vote /\ (Keeps(disk, p) \/ promise[p] < disk.last_vote)
        BY DEF IInv, DiskKeeps
      <4>2. t.last_vote \in reached' /\ t.root \in reached'
        BY DEF reached, t
      <4>3. PICK r \in reached' : r \in Nat /\ disk.last_vote <= r
        <5>1. CASE k < n
          BY <3>9, <3>10, <4>2, <5>1, SMTT(60)
        <5>2. CASE k = n
          <6>1. disk.last_vote \in lineage(t.root)
            BY <3>2, <3>10, <5>2, ZenonT(40)
          <6>2. disk.last_vote <= t.root
            BY <3>4, <6>1, LineageTransitive, ZenonT(40) DEF IInv
          <6> QED
            BY <3>4, <4>2, <6>2, ZenonT(40)
        <5> QED
          BY <3>2, <3>5, <5>1, <5>2, SMTT(60)
      <4>4. lineage(disk.root) \subseteq lineage(t.root)
        BY <3>2, <3>4, LineageTransitive, ZenonT(40) DEF IInv
      <4>5. p \in lineage(t.root) => Keeps(tower, p)'
        BY <1>6, ZenonT(40) DEF Keeps, t
      <4>6. Keeps(disk, p) => Keeps(tower, p)'
        <5>1. CASE p \in lineage(disk.root)
          BY <4>4, <4>5, <5>1, ZenonT(40)
        <5>2. CASE \E i \in 1 .. n :
                      votes[i].slot = p /\ expiration_slot(votes[i]) >= promise[p]
          <6>1. PICK i \in 1 .. n :
                      votes[i].slot = p /\ expiration_slot(votes[i]) >= promise[p]
            BY <5>2, ZenonT(40)
          <6>2. CASE i <= k
            <7>1. i \in 1 .. k
              BY <6>2, <3>2, <3>5, SMTT(60)
            <7> QED
              BY <3>2, <4>5, <6>1, <7>1, ZenonT(40)
          <6>3. CASE i > k
            <7>1. i - k \in 1 .. n - k /\ (i - k) + k = i
              BY <3>2, <3>5, <6>3, SMTT(60)
            <7>2. t.votes[i - k] = votes[i] /\ i - k \in 1 .. Len(t.votes)
              BY <3>5, <7>1, ZenonT(40)
            <7> QED
              BY <1>1, <6>1, <7>2, ZenonT(40) DEF Keeps, t
          <6> QED
            BY <3>2, <3>5, <6>2, <6>3, SMTT(60)
        <5> QED
          BY <5>1, <5>2, ZenonT(40) DEF Keeps
      <4> QED
        BY <3>10, <4>0, <4>1, <4>3, <4>6, SMTT(60)
    <3> QED
      BY <1>1, <1>5, <1>7, <2>1, <2>3, <3>13, <3>14, <3>15, SMTT(60) DEF IInv, Up
  <2> QED
    BY <2>5, <2>6
<1> QED
  BY <1>8, <1>9

\* Every step keeps the invariant.
LEMMA NextIInv ==
    ASSUME IInv, [Next]_vars
    PROVE  IInv'
<1>1. ASSUME NEW slot \in Slots, NEW parent \in Slots, ReceiveBlock(slot, parent)
      PROVE  IInv'
  BY <1>1, ReceiveBlockIInv
<1>2. CASE generate_new_bank_forks
  BY <1>2, generate_new_bank_forksIInv
<1>3. ASSUME NEW slot \in Slots, replay_active_bank(slot)
      PROVE  IInv'
  BY <1>3, replay_active_bankIInv
<1>4. ASSUME NEW slot \in Slots, vote_and_save(slot)
      PROVE  IInv'
  BY <1>4, vote_and_saveIInv
<1>5. CASE handle_new_root
  BY <1>5, handle_new_rootIInv
<1>6. ASSUME NEW sent \in BOOLEAN, push_vote(sent)
      PROVE  IInv'
  BY <1>6, push_voteIInv
<1>7. ASSUME NEW lost \in SUBSET (full \ {0}), crash(lost)
      PROVE  IInv'
  BY <1>7, crashIInv, ZenonT(40)
<1>8. CASE new_banks_from_ledger
  BY <1>8, new_banks_from_ledgerIInv
<1>9. CASE UNCHANGED vars
  <2>1. UNCHANGED <<ancestors, full, rooted, disk, tower, bank_forks, pc, new_root, promise>>
    BY <1>9, ZenonT(40) DEF vars
  <2>2. Tree' /\ LedgerInv' /\ TreeKept
    BY <2>1 DEF IInv, Tree, LedgerInv, TreeKept
  <2>3. ForksInv'
    BY <2>1, SMTT(60) DEF IInv, ForksInv, lineage
  <2>4. VotesInv(tower)'
    BY <2>1 DEF IInv, VotesInv, voted_slots
  <2>5. TowerInv'
    BY <2>1, SMTT(60) DEF IInv, TowerInv, BuildsOnRoot, voted_slots, lineage
  <2>6. TowerKeeps'
    BY <2>1 DEF IInv, TowerKeeps, Keeps, reached, lineage
  <2> QED
    BY <2>1, <2>2, <2>3, <2>4, <2>5, <2>6, DiskFrame, SMTT(60) DEF IInv
<1> QED
  BY <1>1, <1>2, <1>3, <1>4, <1>5, <1>6, <1>7, <1>8, <1>9, SMTT(60) DEF Next

\* The invariant holds always.
LEMMA Inductive ==
    Spec => []IInv
<1>1. Init => IInv
  BY InitIInv
<1>2. IInv /\ [Next]_vars => IInv'
  BY NextIInv
<1> QED
  BY <1>1, <1>2, PTL DEF Spec
-----------------------------------------------------------------------------
(* The theorems. *)

\* In every tower, in memory or saved, every vote builds on the votes below it, and
\* the saved votes on the saved root (record_bank_vote,
\* adjust_lockouts_with_slot_history), whatever the tree and the blocks lost.
THEOREM TowersAreChains ==
    Spec => []TowerIsChain
<1>1. IInv => TowerIsChain
  BY ZenonT(40) DEF IInv, VotesInv, DiskInv, BuildsOnRoot, TowerIsChain
<1> QED
  BY <1>1, Inductive, PTL

\* make_check_switch_threshold_decision finds the bank of the last vote, and never
\* the last vote behind the heaviest bank, unless the vote is a stray one.
THEOREM LastVoteBankKnown ==
    Spec => []LastVoteHasBank
<1>1. IInv => LastVoteHasBank
  <2> SUFFICES ASSUME IInv, pc = "replay", tower.last_vote # NoSlot, ~ is_stray_last_vote
               PROVE  /\ tower.last_vote \in bank_forks.banks
                      /\ heaviest_banks \cap last_vote_ancestors = {}
    BY DEF LastVoteHasBank
  <2>1. tower.last_vote \in bank_forks.frozen /\ tower.last_vote \in bank_forks.banks
    BY DEF is_stray_last_vote, IInv, TowerInv, ForksInv, Up
  <2>2. \A h \in heaviest_banks : h \notin ancestors[tower.last_vote]
    BY <2>1 DEF heaviest_banks
  <2> QED
    BY <2>1, <2>2 DEF last_vote_ancestors, bank_ancestors
<1> QED
  BY <1>1, Inductive, PTL

\* The slot voted on builds on what is promised for as long as that slot.
LEMMA VoteStep ==
    ASSUME IInv, IInv', Next
    PROVE  VoteKeepsPromises
<1> SUFFICES ASSUME pc = "replay", pc' = "saved"
             PROVE  \A p \in DOMAIN promise :
                       promise[p] > 0 =>
                           /\ p <= tower'.last_vote
                           /\ promise[p] >= tower'.last_vote =>
                                 p \in lineage(tower'.last_vote)
  BY DEF VoteKeepsPromises
<1>1. PICK slot \in Slots : vote_and_save(slot)
  <2>1. ~ generate_new_bank_forks /\ ~ handle_new_root /\ ~ new_banks_from_ledger
    BY DEF generate_new_bank_forks, handle_new_root, new_banks_from_ledger
  <2>2. \A slot, parent \in Slots : ~ ReceiveBlock(slot, parent)
    BY DEF ReceiveBlock
  <2>3. \A slot \in Slots : ~ replay_active_bank(slot)
    BY DEF replay_active_bank
  <2>4. \A sent \in BOOLEAN : ~ push_vote(sent)
    BY DEF push_vote
  <2>5. \A lost \in SUBSET (full \ {0}) : ~ crash(lost)
    BY DEF crash
  <2> QED
    BY <2>1, <2>2, <2>3, <2>4, <2>5, ZenonT(40) DEF Next
<1>2. /\ tower'.last_vote = slot /\ promise' = promise /\ ancestors' = ancestors
      /\ disk' = [tower' EXCEPT !.stray = NoSlot]
  BY <1>1 DEF vote_and_save, record_bank_vote
<1>3. /\ disk'.votes = tower'.votes /\ disk'.root = tower'.root /\ disk'.last_vote = slot
      /\ tower'.votes = simulated(slot).votes /\ tower'.root = simulated(slot).root
  BY <1>1, <1>2, ZenonT(40) DEF vote_and_save, record_bank_vote
<1>4. /\ slot \in DOMAIN ancestors /\ tower'.root \in lineage(slot)
      /\ \A i \in 1 .. Len(tower'.votes) : tower'.votes[i].slot \in lineage(slot)
  BY <1>1, <1>3, VotedOn, SMTT(60)
<1>5. lineage(tower'.root) \subseteq lineage(slot) /\ slot \in Nat
  BY <1>4, LineageTransitive DEF IInv
<1>6. DOMAIN promise = Slots /\ \A p \in Slots : promise[p] \in Nat
  BY DEF IInv
<1> SUFFICES ASSUME NEW p \in Slots, promise[p] > 0
             PROVE  p <= slot /\ (promise[p] >= slot => p \in lineage(slot))
  BY <1>2, <1>6
<1>7. p <= slot /\ (Keeps(disk, p)' \/ promise[p] < slot)
  BY <1>2, <1>3 DEF IInv, DiskKeeps
<1>8. Keeps(disk, p)' => p \in lineage(slot)
  BY <1>2, <1>3, <1>4, <1>5 DEF Keeps, lineage
<1> QED
  BY <1>5, <1>6, <1>7, <1>8, SMTT(60)

\* No vote breaks a promise that an earlier vote of this validator made, although
\* the process may die between Tower::save, the marking of roots and push_vote,
\* and the machine may lose blocks: handle_votable_bank saves the tower before the
\* vote leaves the node, and adjust_lockouts_after_replay forgets only what the
\* replayed root or the tower's own root keeps.
THEOREM PromisesKept ==
    Spec => LockoutsKept
<1>1. IInv /\ IInv' /\ [Next]_vars => [VoteKeepsPromises]_vars
  BY VoteStep
<1> QED
  BY <1>1, Inductive, PTL DEF Spec, LockoutsKept
=============================================================================
