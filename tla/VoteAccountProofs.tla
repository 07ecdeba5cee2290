------------------------- MODULE VoteAccountProofs --------------------------
(***************************************************************************)
(* What the vote account records is right, for every value of the           *)
(* constants: votes and root are banks of the fork, credits and prior       *)
(* voters chain from epoch to epoch, nothing moves back, and the voter of a *)
(* scheduled epoch is fixed.                                                *)
(***************************************************************************)
EXTENDS VoteStateProofs, FiniteSetTheorems

-----------------------------------------------------------------------------
(* The strengthening.  The stored account is what a vote instruction leaves  *)
(* in its working copy, so the copy must satisfy the same facts, and relate  *)
(* to the account it was made from.                                          *)

\* The bank, its ancestors and the slot hashes that name some of them.
SlotsSound ==
    /\ IsFiniteSet(chain)
    /\ slot \in chain
    /\ \A c \in chain : c <= slot
    /\ \A j \in 1 .. Len(slot_hashes) : slot_hashes[j] \in chain \ {slot}

CreditsInv(ec) ==
    /\ CreditsChained(ec)
    /\ ec # <<>> => ec[Len(ec)].epoch <= epoch

\* What a vote changes.
RecordsInv(a) ==
    /\ OnFork(a)
    /\ CreditsInv(a.epoch_credits)
    /\ CreditsBacked(a)

\* What a change of voter changes: no entry is for an epoch after the one that
\* the next change is for, and the last change is still in the map unless its
\* epoch has passed.
VotersInv(a) ==
    /\ \A e \in DOMAIN a.voters : e <= leader_schedule_epoch + 1
    /\ PriorVotersAdjacent(a.prior_voters)
    /\ a.prior_voters # <<>> =>
          /\ last_switch_epoch(a.prior_voters) <= leader_schedule_epoch + 1
          /\ \/ last_switch_epoch(a.prior_voters) < epoch
             \/ last_switch_epoch(a.prior_voters) \in DOMAIN a.voters

\* The records of one account are not behind those of another.
NotBehind(a, b) ==
    /\ a.root >= b.root
    /\ last_voted_slot(a.votes) >= last_voted_slot(b.votes)
    /\ Credits(a) >= Credits(b)

\* The vote in progress: its new slots are banks of the fork, those processed are
\* no newer than the last vote of the copy.
TxInv ==
    tx.active =>
        /\ RecordsInv(tx.work)
        /\ NotBehind(tx.work, account)
        /\ tx.work.voters = get_and_update_authorized_voter(account.voters, epoch)
        /\ tx.work.prior_voters = account.prior_voters
        /\ ~ is_uninitialized(account)
        /\ \A i \in 1 .. Len(tx.vote.slots) :
              \/ tx.vote.slots[i] <= last_voted_slot(account.votes)
              \/ tx.vote.slots[i] \in chain \ {slot}
        /\ \A i \in 1 .. tx.next - 1 : tx.vote.slots[i] <= last_voted_slot(tx.work.votes)

AInv ==
    /\ IInv
    /\ SlotsSound
    /\ RecordsInv(account)
    /\ VotersInv(account)
    /\ TxInv

-----------------------------------------------------------------------------
(* What one process_slot does to the root and to the credits. *)

\* A vote popped from a full stack is newer than the root it replaces.
LEMMA RootPopped ==
    ASSUME NEW st \in Stack, NEW s \in Nat, WellFormedStack(st)
    PROVE  /\ pops_root(st.votes, s) => process_slot(st, s).root > st.root
           /\ ~ pops_root(st.votes, s) => process_slot(st, s).root = st.root
<1> DEFINE live == pop_expired_votes(st.votes, s)
<1>1. st.votes \in Seq(Lockout) /\ st.root \in SlotOption
  BY DEF Stack
<1>2. /\ live \in Seq(Lockout) /\ Len(live) <= Len(st.votes)
      /\ \A i \in 1 .. Len(live) : live[i] = st.votes[i]
  BY <1>1, PopExpiredPrefix
<1>3. /\ pops_root(st.votes, s) =>
            process_slot(st, s).root = live[1].slot /\ Len(live) = MAX_LOCKOUT_HISTORY
      /\ ~ pops_root(st.votes, s) => process_slot(st, s).root = st.root
  BY DEF pops_root, process_slot
<1> HIDE DEF live
<1>4. Len(live) = MAX_LOCKOUT_HISTORY => live[1].slot > st.root
  <2> SUFFICES ASSUME Len(live) = MAX_LOCKOUT_HISTORY PROVE live[1].slot > st.root
    OBVIOUS
  <2>1. 1 \in 1 .. Len(live) /\ 1 \in 1 .. Len(st.votes)
    BY <1>1, <1>2, MaxLockoutHistoryAssumption
  <2>2. live[1].slot = st.votes[1].slot /\ st.votes[1].slot \in Nat
    BY <1>1, <1>2, <2>1, VotesTyped
  <2> QED
    BY <1>1, <2>1, <2>2 DEF WellFormedStack, RootBelowVotes, SlotOption, NoSlot
<1> QED
  BY <1>3, <1>4

\* One credit more changes nothing but the credits of the newest entry.
LEMMA PaidFields ==
    ASSUME NEW d \in Seq(CreditsEntry), d # <<>>
    PROVE  LET paid == [d EXCEPT ![Len(d)].credits = @ + 1]
           IN  /\ paid \in Seq(CreditsEntry) /\ Len(paid) = Len(d)
               /\ \A k \in 1 .. Len(d) - 1 : paid[k] = d[k]
               /\ paid[Len(d)].credits = d[Len(d)].credits + 1
               /\ paid[Len(d)].prev_credits = d[Len(d)].prev_credits
               /\ paid[Len(d)].epoch = d[Len(d)].epoch
<1> DEFINE last == d[Len(d)]
           more == [last EXCEPT !.credits = @ + 1]
           paid == [d EXCEPT ![Len(d)] = more]
<1>1. Len(d) \in 1 .. Len(d) /\ last \in CreditsEntry
  OBVIOUS
<1>2. /\ more.credits = last.credits + 1 /\ more.prev_credits = last.prev_credits
      /\ more.epoch = last.epoch
  BY <1>1 DEF CreditsEntry
<1>3. [d EXCEPT ![Len(d)].credits = @ + 1] = paid
  BY <1>1
<1> HIDE DEF more
<1>4. /\ \A k \in 1 .. Len(d) - 1 : paid[k] = d[k]
      /\ paid[Len(d)] = more
  BY <1>1
<1>5. paid \in Seq(CreditsEntry) /\ Len(paid) = Len(d)
  BY <1>3, PayType
<1> QED
  BY <1>2, <1>3, <1>4, <1>5

\* The entries before the newest one are chained, and it starts where they end.
OpenChain(d) ==
    /\ Len(d) <= MAX_EPOCH_CREDITS_HISTORY
    /\ \A k \in 1 .. Len(d) - 1 : d[k].credits > d[k].prev_credits
    /\ \A k \in 1 .. Len(d) - 1 : /\ d[k].epoch < d[k + 1].epoch
                                  /\ d[k].credits = d[k + 1].prev_credits
    /\ d[Len(d)].credits >= d[Len(d)].prev_credits

LEMMA PayChained ==
    ASSUME NEW d \in Seq(CreditsEntry), d # <<>>, OpenChain(d)
    PROVE  CreditsChained([d EXCEPT ![Len(d)].credits = @ + 1])
<1> DEFINE paid == [d EXCEPT ![Len(d)].credits = @ + 1]
           n == Len(d)
<1>1. /\ Len(paid) = n
      /\ \A k \in 1 .. n - 1 : paid[k] = d[k]
      /\ paid[n].credits = d[n].credits + 1
      /\ paid[n].prev_credits = d[n].prev_credits
      /\ paid[n].epoch = d[n].epoch
  BY PaidFields
<1>2. n \in Nat \ {0} /\ \A k \in 1 .. n : d[k] \in CreditsEntry
  OBVIOUS
<1>3. \A k \in 1 .. n : d[k].credits \in Nat /\ d[k].prev_credits \in Nat /\ d[k].epoch \in Nat
  BY <1>2 DEF CreditsEntry
<1> HIDE DEF paid, n
<1>4. n \in 1 .. n
  BY <1>2
<1>5. \A k \in 1 .. n : paid[k].credits > paid[k].prev_credits
  <2> TAKE k \in 1 .. n
  <2>1. CASE k = n
    BY <1>1, <1>2, <1>3, <1>4, <2>1 DEF OpenChain, n
  <2>2. CASE k # n
    <3>1. k \in 1 .. n - 1
      BY <1>2, <2>2
    <3> QED
      BY <1>1, <3>1 DEF OpenChain, n
  <2> QED
    BY <2>1, <2>2
<1>6. \A k \in 1 .. n - 1 : /\ paid[k].epoch < paid[k + 1].epoch
                            /\ paid[k].credits = paid[k + 1].prev_credits
  <2> TAKE k \in 1 .. n - 1
  <2>1. paid[k] = d[k] /\ d[k].epoch < d[k + 1].epoch /\ d[k].credits = d[k + 1].prev_credits
    BY <1>1 DEF OpenChain, n
  <2>2. paid[k + 1].epoch = d[k + 1].epoch /\ paid[k + 1].prev_credits = d[k + 1].prev_credits
    <3>1. k + 1 = n \/ k + 1 \in 1 .. n - 1
      BY <1>2, SMTT(60)
    <3> QED
      BY <1>1, <3>1
  <2> QED
    BY <2>1, <2>2
<1> QED
  BY <1>1, <1>5, <1>6 DEF CreditsChained, OpenChain, paid, n

LatestCredits(ec) == IF ec = <<>> THEN 0 ELSE ec[Len(ec)].credits

\* increment_credits: one credit more, for the current epoch, and the chain of
\* entries goes on; an entry without credits is never met.
LEMMA CreditsStep ==
    ASSUME NEW c \in Seq(CreditsEntry), slot \in Nat, CreditsInv(c)
    PROVE  /\ CreditsInv(increment_credits(c))
           /\ LatestCredits(increment_credits(c)) = LatestCredits(c) + 1
<1> DEFINE last    == c[Len(c)]
           n       == Len(c)
           opened  == [epoch |-> epoch, credits |-> last.credits, prev_credits |-> last.credits]
           first   == [epoch |-> epoch, credits |-> 0, prev_credits |-> 0]
           entered == IF last.credits # last.prev_credits
                      THEN enter_epoch(c, last)
                      ELSE [c EXCEPT ![Len(c)].epoch = epoch]
           current == IF c = <<>>
                      THEN <<first>>
                      ELSE IF last.epoch = epoch THEN c
                      ELSE IF Len(entered) > MAX_EPOCH_CREDITS_HISTORY THEN Tail(entered)
                      ELSE entered
<1>1. epoch \in Nat /\ MAX_EPOCH_CREDITS_HISTORY \in Nat \ {0}
  BY EpochType, VoteStateAssumption
<1>2. increment_credits(c) = [current EXCEPT ![Len(current)].credits = @ + 1]
  BY DEF increment_credits
<1>3. /\ n \in Nat /\ \A k \in 1 .. n : c[k] \in CreditsEntry
      /\ c # <<>> => n \in 1 .. n
  OBVIOUS
<1>4. \A e \in CreditsEntry : e.credits \in Nat /\ e.prev_credits \in Nat /\ e.epoch \in Nat
  BY DEF CreditsEntry
<1>5. SUFFICES /\ current \in Seq(CreditsEntry) /\ current # <<>> /\ OpenChain(current)
               /\ current[Len(current)].epoch = epoch
               /\ current[Len(current)].credits = LatestCredits(c)
  <2> HIDE DEF current
  <2> DEFINE paid == [current EXCEPT ![Len(current)].credits = @ + 1]
  <2>1. CreditsChained(paid)
    BY <1>5, PayChained
  <2>2. /\ Len(paid) = Len(current) /\ paid \in Seq(CreditsEntry)
        /\ paid[Len(current)].credits = current[Len(current)].credits + 1
        /\ paid[Len(current)].epoch = current[Len(current)].epoch
    BY <1>5, PaidFields
  <2> HIDE DEF paid
  <2>3. paid # <<>>
    BY <1>5, <2>2
  <2>4. CreditsInv(paid)
    BY <1>1, <1>5, <2>1, <2>2 DEF CreditsInv
  <2>5. LatestCredits(paid) = LatestCredits(c) + 1
    BY <1>5, <2>2, <2>3 DEF LatestCredits
  <2> QED
    BY <1>2, <2>4, <2>5 DEF paid
<1>6. CASE c = <<>>
  <2>1. first \in CreditsEntry
    BY <1>1 DEF CreditsEntry
  <2>2. current = <<first>>
    BY <1>6
  <2> HIDE DEF current
  <2>3. current \in Seq(CreditsEntry) /\ Len(current) = 1 /\ current # <<>> /\ current[1] = first
    BY <2>1, <2>2
  <2>4. first.credits = 0 /\ first.prev_credits = 0 /\ first.epoch = epoch
    OBVIOUS
  <2> HIDE DEF first
  <2> QED
    BY <1>1, <1>6, <2>3, <2>4 DEF OpenChain, LatestCredits
<1>7. CASE c # <<>> /\ last.epoch = epoch
  <2>1. current = c
    BY <1>7
  <2>2. OpenChain(c)
    BY <1>3, <1>4, <1>7 DEF CreditsInv, CreditsChained, OpenChain
  <2> QED
    BY <1>7, <2>1, <2>2 DEF LatestCredits
<1>8. CASE c # <<>> /\ last.epoch # epoch
  <2> DEFINE d == Append(c, opened)
  <2>1. last.credits > last.prev_credits /\ last.epoch < epoch
    <3>1. last \in CreditsEntry
      BY <1>3, <1>8
    <3> QED
      BY <1>1, <1>3, <1>4, <1>8, <3>1 DEF CreditsInv, CreditsChained
  <2>2. entered = d
    BY <1>3, <1>4, <1>8, <2>1 DEF enter_epoch
  <2>3. opened \in CreditsEntry
    BY <1>1, <1>3, <1>4, <1>8 DEF CreditsEntry
  <2>4. /\ opened.epoch = epoch /\ opened.credits = last.credits
        /\ opened.prev_credits = last.credits
    OBVIOUS
  <2> HIDE DEF opened
  <2>5. /\ d \in Seq(CreditsEntry) /\ Len(d) = n + 1
        /\ \A k \in 1 .. n : d[k] = c[k]
        /\ d[n + 1] = opened
    BY <2>3
  <2>6. \A k \in 1 .. n : d[k].credits > d[k].prev_credits
    BY <2>5 DEF CreditsInv, CreditsChained
  <2>7. \A k \in 1 .. n : d[k].epoch < d[k + 1].epoch /\ d[k].credits = d[k + 1].prev_credits
    <3> TAKE k \in 1 .. n
    <3>1. CASE k = n
      BY <1>3, <2>1, <2>4, <2>5, <3>1, SMTT(60)
    <3>2. CASE k # n
      <4>1. k \in 1 .. n - 1 /\ k + 1 \in 1 .. n
        BY <1>3, <3>2
      <4> QED
        BY <2>5, <4>1 DEF CreditsInv, CreditsChained
    <3> QED
      BY <3>1, <3>2
  <2>8. d[n + 1].credits >= d[n + 1].prev_credits
    BY <1>3, <1>4, <1>8, <2>4, <2>5
  <2>9. n <= MAX_EPOCH_CREDITS_HISTORY
    BY DEF CreditsInv, CreditsChained
  <2>10. current = IF n + 1 > MAX_EPOCH_CREDITS_HISTORY THEN Tail(d) ELSE d
    BY <1>8, <2>2, <2>5, ZenonT(40)
  <2> HIDE DEF current, d, entered
  <2>11. CASE n + 1 <= MAX_EPOCH_CREDITS_HISTORY
    <3>1. current = d /\ d # <<>>
      BY <1>1, <1>3, <2>5, <2>10, <2>11
    <3>2. OpenChain(d)
      BY <1>1, <1>3, <2>5, <2>6, <2>7, <2>8, <2>11, SMTT(60) DEF OpenChain
    <3> QED
      BY <1>8, <2>4, <2>5, <3>1, <3>2 DEF LatestCredits
  <2>12. CASE n + 1 > MAX_EPOCH_CREDITS_HISTORY
    <3>1. current = Tail(d) /\ d # <<>>
      BY <1>1, <1>3, <2>5, <2>10, <2>12
    <3>2. /\ current \in Seq(CreditsEntry) /\ Len(current) = n
          /\ \A k \in 1 .. n : current[k] = d[k + 1]
      BY <1>3, <2>5, <3>1
    <3>3. n # 0 /\ n \in 1 .. n /\ current # <<>> /\ current[n] = opened
      BY <1>3, <1>8, <2>5, <3>2
    <3>4. \A k \in 1 .. n - 1 : k + 1 \in 1 .. n /\ k \in 1 .. n
      BY <1>3
    <3>5. OpenChain(current)
      BY <1>1, <1>3, <2>5, <2>6, <2>7, <2>8, <2>9, <3>2, <3>3, <3>4, ZenonT(40) DEF OpenChain
    <3> QED
      BY <1>8, <2>4, <3>2, <3>3, <3>5 DEF LatestCredits
  <2> QED
    BY <1>1, <1>3, <2>11, <2>12
<1> QED
  BY <1>6, <1>7, <1>8, ZenonT(40)

\* The last vote is a slot, or none.
LEMMA LastVotedType ==
    ASSUME NEW votes \in Seq(Lockout)
    PROVE  /\ last_voted_slot(votes) \in Int
           /\ votes # <<>> => last_voted_slot(votes) \in Nat
           /\ votes = <<>> => last_voted_slot(votes) = -1
<1>1. votes # <<>> => Len(votes) \in 1 .. Len(votes) /\ votes[Len(votes)].slot \in Nat
  BY VotesTyped
<1> QED
  BY <1>1 DEF last_voted_slot, NoSlot

BanksUpTo(r) == {s \in chain : s <= r}

\* How many banks of the fork are no newer than a slot.
LEMMA BankCount ==
    ASSUME IsFiniteSet(chain), chain \subseteq Nat, NEW r \in Int, NEW q \in Int, r <= q
    PROVE  /\ Cardinality(BanksUpTo(r)) \in Nat
           /\ Cardinality(BanksUpTo(q)) \in Nat
           /\ Cardinality(BanksUpTo(r)) <= Cardinality(BanksUpTo(q))
           /\ r < q /\ q \in chain => Cardinality(BanksUpTo(r)) + 1 <= Cardinality(BanksUpTo(q))
<1> DEFINE R == BanksUpTo(r)
           Q == BanksUpTo(q)
<1>1. R \subseteq Q /\ Q \subseteq chain
  <2>1. \A c \in chain : c <= r => c <= q
    <3> TAKE c \in chain
    <3>1. c \in Int
      OBVIOUS
    <3> QED
      BY <3>1
  <2> QED
    BY <2>1, ZenonT(40) DEF BanksUpTo
<1>2. r < q /\ q \in chain => q \in Q /\ q \notin R
  BY DEF BanksUpTo
<1> HIDE DEF R, Q
<1>3. IsFiniteSet(Q)
  BY <1>1, FS_Subset, ZenonT(40)
<1>4. IsFiniteSet(R) /\ Cardinality(R) <= Cardinality(Q)
  BY <1>1, <1>3, FS_Subset, ZenonT(40)
<1>5. Cardinality(R) \in Nat /\ Cardinality(Q) \in Nat
  BY <1>3, <1>4, FS_CardinalityType
<1>6. r < q /\ q \in chain => Cardinality(R) # Cardinality(Q)
  BY <1>1, <1>2, <1>3, FS_Subset, ZenonT(40)
<1> QED
  BY <1>4, <1>5, <1>6 DEF R, Q

\* One iteration of VoteState::process_vote, on a slot already voted on or a bank
\* of the fork.
LEMMA RecordSlotInv ==
    ASSUME NEW a, IsVoteState(a), WellFormedStack(StackOf(a)), slot \in Nat,
           chain \subseteq Nat, SlotsSound, RecordsInv(a), NEW s \in Nat,
           s <= last_voted_slot(a.votes) \/ s \in chain \ {slot}
    PROVE  LET new == record_slot(a, s)
           IN  /\ RecordsInv(new)
               /\ NotBehind(new, a)
               /\ s <= last_voted_slot(new.votes)
               /\ last_voted_slot(new.votes) \in Int
               /\ new.voters = a.voters /\ new.prior_voters = a.prior_voters
<1> DEFINE old  == StackOf(a)
           st   == process_slot(old, s)
           paid == IF pops_root(a.votes, s) THEN increment_credits(a.epoch_credits)
                   ELSE a.epoch_credits
           new  == record_slot(a, s)
<1>1. old \in Stack /\ a.votes \in Seq(Lockout) /\ a.root \in SlotOption
  BY DEF StackOf, Stack, IsVoteState
<1>2. old.votes = a.votes /\ old.root = a.root /\ WellFormedStack(old)
  BY DEF StackOf
<1> HIDE DEF old
<1>3. /\ st \in Stack /\ st.root >= a.root /\ st.votes # <<>>
      /\ last_voted_slot(st.votes) >= last_voted_slot(a.votes)
      /\ last_voted_slot(st.votes) >= s
      /\ st.root # a.root => \E j \in 1 .. Len(a.votes) : st.root = a.votes[j].slot
      /\ \A i \in 1 .. Len(st.votes) :
            \/ st.votes[i].slot = s
            \/ \E j \in 1 .. Len(a.votes) : st.votes[i].slot = a.votes[j].slot
  BY <1>1, <1>2, ProcessSlotWellFormed, SMTT(60)
<1>4. /\ pops_root(a.votes, s) => st.root > a.root
      /\ ~ pops_root(a.votes, s) => st.root = a.root
  BY <1>1, <1>2, RootPopped
<1>5. is_ignored(a.votes, s) => st.votes = a.votes
  BY <1>2 DEF process_slot
<1>6. new = [a EXCEPT !.votes = st.votes, !.root = st.root, !.epoch_credits = paid]
  BY DEF record_slot, StackOf, old
<1> HIDE DEF st, paid, new
<1>7. /\ new.votes = st.votes /\ new.root = st.root /\ new.epoch_credits = paid
      /\ new.voters = a.voters /\ new.prior_voters = a.prior_voters
      /\ new.last_timestamp = a.last_timestamp
  BY <1>6 DEF IsVoteState, DefaultState
<1>8. /\ st.votes \in Seq(Lockout) /\ st.root \in SlotOption
      /\ last_voted_slot(a.votes) \in Int /\ last_voted_slot(st.votes) \in Int
      /\ a.votes = <<>> => last_voted_slot(a.votes) = -1
  BY <1>1, <1>3, LastVotedType DEF Stack
<1>9. OnFork(new)
  <2>1. \A j \in 1 .. Len(a.votes) : a.votes[j].slot \in chain \ {slot}
    BY DEF RecordsInv, OnFork
  <2>2. new.root # NoSlot => new.root \in chain
    BY <1>3, <1>7, <2>1 DEF RecordsInv, OnFork
  <2>3. \A i \in 1 .. Len(new.votes) : new.votes[i].slot \in chain \ {slot}
    <3>1. CASE is_ignored(a.votes, s)
      BY <1>5, <1>7, <2>1, <3>1, ZenonT(40)
    <3>2. CASE ~ is_ignored(a.votes, s)
      <4>1. s \in chain \ {slot}
        BY <1>8, <3>2 DEF is_ignored
      <4> QED
        BY <1>3, <1>7, <2>1, <4>1, SMTT(60)
    <3> QED
      BY <3>1, <3>2
  <2>4. new.last_timestamp.slot = 0 \/ new.last_timestamp.slot <= last_voted_slot(new.votes)
    <3>1. a.last_timestamp.slot \in Nat
      BY DEF IsVoteState
    <3> QED
      BY <1>3, <1>7, <1>8, <3>1, SMTT(60) DEF RecordsInv, OnFork
  <2> QED
    BY <2>2, <2>3, <2>4 DEF OnFork
<1>10. a.epoch_credits \in Seq(CreditsEntry) /\ CreditsInv(a.epoch_credits)
  BY DEF IsVoteState, RecordsInv
<1>11. /\ CreditsInv(paid)
       /\ pops_root(a.votes, s) => LatestCredits(paid) = LatestCredits(a.epoch_credits) + 1
       /\ ~ pops_root(a.votes, s) => LatestCredits(paid) = LatestCredits(a.epoch_credits)
  BY <1>10, CreditsStep DEF paid
<1>12. Credits(new) = LatestCredits(paid) /\ Credits(a) = LatestCredits(a.epoch_credits)
  BY <1>7 DEF Credits, LatestCredits
<1>13. Credits(a) \in Nat
  <2>1. \A e \in CreditsEntry : e.credits \in Nat
    BY DEF CreditsEntry
  <2>2. a.epoch_credits # <<>> => a.epoch_credits[Len(a.epoch_credits)] \in CreditsEntry
    BY <1>10
  <2> QED
    BY <2>1, <2>2 DEF Credits
<1>14. CreditsBacked(new)
  <2>1. a.root \in Int /\ st.root \in Int
    BY <1>1, <1>8 DEF SlotOption, NoSlot
  <2>2. st.root # a.root => st.root \in chain
    BY <1>3 DEF RecordsInv, OnFork
  <2>3. Credits(a) <= Cardinality(BanksUpTo(a.root))
    BY DEF RecordsInv, CreditsBacked, BanksUpTo
  <2>4. /\ Cardinality(BanksUpTo(a.root)) \in Nat
        /\ Cardinality(BanksUpTo(st.root)) \in Nat
        /\ st.root > a.root =>
              Cardinality(BanksUpTo(a.root)) + 1 <= Cardinality(BanksUpTo(st.root))
    <3>1. IsFiniteSet(chain) /\ a.root <= st.root
      BY <1>3, <2>1 DEF SlotsSound
    <3>2. st.root > a.root => a.root < st.root /\ st.root \in chain
      BY <2>1, <2>2
    <3> QED
      BY <2>1, <3>1, <3>2, BankCount
  <2>5. Credits(new) <= Cardinality(BanksUpTo(st.root))
    BY <1>4, <1>11, <1>12, <1>13, <2>3, <2>4, SMTT(60)
  <2> QED
    BY <1>7, <2>5 DEF CreditsBacked, BanksUpTo
<1>15. NotBehind(new, a)
  BY <1>3, <1>7, <1>11, <1>12, <1>13 DEF NotBehind
<1> QED
  BY <1>3, <1>7, <1>8, <1>9, <1>11, <1>14, <1>15, SMTT(60) DEF RecordsInv, new

-----------------------------------------------------------------------------
(* What the changes of the map of voters leave alone. *)

\* Caching the voter of an epoch and purging the earlier entries changes no later
\* look-up.
LEMMA UpdateLookup ==
    ASSUME NEW voters, VoterMap(voters), NEW e \in Nat, known_voter(voters, e),
           NEW f \in Nat, e <= f
    PROVE  get_authorized_voter(get_and_update_authorized_voter(voters, e), f)
               = get_authorized_voter(voters, f)
<1> DEFINE new == get_and_update_authorized_voter(voters, e)
           A == {d \in DOMAIN voters : d <= e}
           B == {d \in DOMAIN voters : d <= f}
           C == {d \in DOMAIN new : d <= f}
<1>1. /\ DOMAIN new = {e} \cup {d \in DOMAIN voters : d >= e}
      /\ \A d \in DOMAIN new : new[d] = IF d = e THEN voters[Max(A)] ELSE voters[d]
  BY DEF get_and_update_authorized_voter, get_authorized_voter
<1>2. VoterMap(new) /\ known_voter(new, e)
  BY UpdateKeepsMap
<1>3. known_voter(voters, f) /\ known_voter(new, f)
  BY <1>2 DEF known_voter, VoterMap
<1>4. Max(A) \in DOMAIN voters /\ Max(A) <= e /\ \A d \in DOMAIN voters : d <= e => d <= Max(A)
  BY LookupFinds
<1>5. Max(B) \in DOMAIN voters /\ Max(B) <= f /\ \A d \in DOMAIN voters : d <= f => d <= Max(B)
  BY <1>3, LookupFinds
<1>6. Max(C) \in DOMAIN new /\ Max(C) <= f /\ \A d \in DOMAIN new : d <= f => d <= Max(C)
  BY <1>2, <1>3, LookupFinds
<1>7. /\ get_authorized_voter(new, f) = new[Max(C)]
      /\ get_authorized_voter(voters, f) = voters[Max(B)]
  BY DEF get_authorized_voter
<1>8. DOMAIN voters \subseteq Nat /\ DOMAIN new \subseteq Nat
  BY <1>2 DEF VoterMap
<1> HIDE DEF new, A, B, C
<1>9. Max(A) \in Nat /\ Max(B) \in Nat /\ Max(C) \in Nat
  BY <1>4, <1>5, <1>6, <1>8
<1>10. CASE Max(B) > e
  <2>1. Max(B) \in DOMAIN new /\ Max(B) <= Max(C)
    BY <1>1, <1>5, <1>6, <1>9, <1>10, SMTT(60)
  <2>2. Max(C) # e /\ Max(C) \in DOMAIN voters
    BY <1>1, <1>6, <1>9, <1>10, <2>1, SMTT(60)
  <2>3. Max(C) = Max(B)
    BY <1>5, <1>6, <1>9, <2>1, <2>2, SMTT(60)
  <2> QED
    BY <1>1, <1>6, <1>7, <2>2, <2>3, ZenonT(40) DEF new
<1>11. CASE Max(B) <= e
  <2>1. Max(B) = Max(A)
    BY <1>4, <1>5, <1>9, <1>11
  <2>2. Max(C) = e
    <3>1. e \in DOMAIN new /\ e <= Max(C)
      BY <1>1, <1>6
    <3>2. Max(C) # e => Max(C) \in DOMAIN voters /\ Max(C) <= Max(B)
      BY <1>1, <1>5, <1>6
    <3> QED
      BY <1>9, <1>11, <3>1, <3>2
  <2> QED
    BY <1>1, <1>6, <1>7, <2>1, <2>2 DEF new
<1>12. Max(B) > e \/ Max(B) <= e
  BY <1>9
<1> QED
  BY <1>10, <1>11, <1>12 DEF new

\* An entry for a later epoch changes no look-up before it.
LEMMA InsertLookup ==
    ASSUME NEW voters, VoterMap(voters), NEW target \in Nat, NEW key,
           NEW f \in Nat, f < target, known_voter(voters, f)
    PROVE  get_authorized_voter(insert(voters, target, key), f) = get_authorized_voter(voters, f)
<1> DEFINE new == insert(voters, target, key)
           B == {d \in DOMAIN voters : d <= f}
<1>1. /\ DOMAIN new = DOMAIN voters \cup {target}
      /\ \A d \in DOMAIN new : new[d] = IF d = target THEN key ELSE voters[d]
  BY DEF insert
<1>2. Max(B) \in DOMAIN voters /\ Max(B) <= f
  BY LookupFinds
<1>3. DOMAIN voters \subseteq Nat
  BY DEF VoterMap
<1> HIDE DEF new
<1>4. {d \in DOMAIN new : d <= f} = B
  BY <1>1, <1>3
<1> HIDE DEF B
<1>5. Max(B) # target /\ Max(B) \in DOMAIN new
  BY <1>1, <1>2, <1>3
<1>6. get_authorized_voter(new, f) = new[Max(B)]
  BY <1>4 DEF get_authorized_voter
<1>7. get_authorized_voter(voters, f) = voters[Max(B)]
  BY DEF get_authorized_voter, B
<1> QED
  BY <1>1, <1>5, <1>6, <1>7 DEF new

\* CircBuf::append of a range that starts where the last one ends.
LEMMA AppendPriorAdjacent ==
    ASSUME NEW buf \in Seq(PriorVoter), PriorVotersAdjacent(buf), NEW item \in PriorVoter,
           item.from < item.until, item.from = last_switch_epoch(buf)
    PROVE  LET new == append_prior(buf, item)
           IN  /\ PriorVotersAdjacent(new)
               /\ new # <<>>
               /\ last_switch_epoch(new) = item.until
<1> DEFINE base == IF Len(buf) = MAX_ITEMS THEN Tail(buf) ELSE buf
           new == Append(base, item)
           n == Len(base)
<1>1. MAX_ITEMS \in Nat \ {0} /\ Len(buf) \in Nat
  BY VoteStateAssumption
<1>2. base \in Seq(PriorVoter) /\ PriorVotersAdjacent(base)
      /\ (base # <<>> => base[n].until = item.from)
  <2>1. CASE Len(buf) = MAX_ITEMS
    <3>1. base = Tail(buf) /\ buf # <<>>
      BY <1>1, <2>1
    <3> HIDE DEF base
    <3>2. /\ base \in Seq(PriorVoter) /\ n = Len(buf) - 1
          /\ \A k \in 1 .. n : base[k] = buf[k + 1]
      BY <3>1
    <3>3. \A k \in 1 .. n : base[k].from < base[k].until
      <4> TAKE k \in 1 .. n
      <4>1. k + 1 \in 1 .. Len(buf)
        BY <1>1, <3>2
      <4> QED
        BY <3>2, <4>1, ZenonT(40) DEF PriorVotersAdjacent
    <3>4. \A k \in 1 .. n - 1 : base[k].until = base[k + 1].from
      <4> TAKE k \in 1 .. n - 1
      <4>1. k + 1 \in 1 .. Len(buf) - 1 /\ k \in 1 .. n /\ k + 1 \in 1 .. n
        BY <1>1, <3>2
      <4> QED
        BY <3>2, <4>1, ZenonT(40) DEF PriorVotersAdjacent
    <3>5. base # <<>> => n \in 1 .. n /\ base[n] = buf[Len(buf)]
      BY <1>1, <3>2
    <3> QED
      BY <3>1, <3>2, <3>3, <3>4, <3>5 DEF PriorVotersAdjacent, last_switch_epoch
  <2>2. CASE Len(buf) # MAX_ITEMS
    BY <2>2 DEF last_switch_epoch
  <2> QED
    BY <2>1, <2>2
<1> HIDE DEF base
<1>3. /\ new \in Seq(PriorVoter) /\ Len(new) = n + 1 /\ n \in Nat
      /\ \A k \in 1 .. n : new[k] = base[k]
      /\ new[n + 1] = item
  BY <1>2
<1>4. \A k \in 1 .. n + 1 : new[k].from < new[k].until
  <2> TAKE k \in 1 .. n + 1
  <2>1. k = n + 1 \/ k \in 1 .. n
    BY <1>3
  <2> QED
    BY <1>2, <1>3, <2>1 DEF PriorVotersAdjacent
<1>5. \A k \in 1 .. n : new[k].until = new[k + 1].from
  <2> TAKE k \in 1 .. n
  <2>1. CASE k = n
    <3>1. base # <<>>
      BY <1>2, <1>3, SMTT(60)
    <3> QED
      BY <1>2, <1>3, <2>1, <3>1
  <2>2. CASE k # n
    <3>1. k \in 1 .. n - 1 /\ k + 1 \in 1 .. n
      BY <1>3, <2>2
    <3> QED
      BY <1>2, <1>3, <3>1 DEF PriorVotersAdjacent
  <2> QED
    BY <2>1, <2>2
<1>6. append_prior(buf, item) = new
  BY DEF append_prior, base
<1> HIDE DEF new
<1>7. PriorVotersAdjacent(new)
  BY <1>3, <1>4, <1>5, SMTT(60) DEF PriorVotersAdjacent
<1>8. new # <<>> /\ last_switch_epoch(new) = item.until
  BY <1>3 DEF last_switch_epoch
<1> QED
  BY <1>6, <1>7, <1>8

-----------------------------------------------------------------------------
(* The steps.  Each keeps the invariant, moves no record back, and changes no *)
(* voter of a scheduled epoch.                                                *)

LEMMA RecordTypes ==
    ASSUME NEW a, IsVoteState(a)
    PROVE  a.root \in Int /\ last_voted_slot(a.votes) \in Int /\ Credits(a) \in Nat
<1>1. a.root \in Int /\ a.votes \in Seq(Lockout) /\ a.epoch_credits \in Seq(CreditsEntry)
  BY DEF IsVoteState, SlotOption, NoSlot
<1>2. \A e \in CreditsEntry : e.credits \in Nat
  BY DEF CreditsEntry
<1>3. a.epoch_credits # <<>> => a.epoch_credits[Len(a.epoch_credits)] \in CreditsEntry
  BY <1>1
<1> QED
  BY <1>1, <1>2, <1>3, LastVotedType, SMTT(60) DEF Credits

LEMMA DefaultSound ==
    ASSUME slot \in Nat, chain \subseteq Nat, SlotsSound,
           NEW a, a.votes = <<>>, a.root = NoSlot, a.epoch_credits = <<>>,
           a.last_timestamp = [slot |-> 0, timestamp |-> 0]
    PROVE  RecordsInv(a)
<1>1. OnFork(a)
  BY DEF OnFork
<1>2. CreditsInv(a.epoch_credits)
  BY VoteStateAssumption DEF CreditsInv, CreditsChained
<1>3. CreditsBacked(a)
  <2>1. Cardinality(BanksUpTo(NoSlot)) \in Nat
    BY BankCount, SMTT(60) DEF SlotsSound, NoSlot
  <2> QED
    BY <2>1 DEF CreditsBacked, Credits, BanksUpTo
<1> QED
  BY <1>1, <1>2, <1>3 DEF RecordsInv

\* The facts a step that changes only the account must show.
LEMMA AccountStepSound ==
    ASSUME AInv, IInv', tx' = NoTx, UNCHANGED <<slot, chain, slot_hashes>>,
           RecordsInv(account'), VotersInv(account')
    PROVE  AInv'
<1>1. SlotsSound'
  BY DEF AInv, SlotsSound
<1>2. RecordsInv(account)'
  BY DEF RecordsInv, OnFork, CreditsInv, CreditsChained, CreditsBacked, Credits, epoch
<1>3. VotersInv(account)'
  BY DEF VotersInv, PriorVotersAdjacent, epoch, leader_schedule_epoch
<1>4. TxInv'
  BY DEF TxInv, NoTx
<1> QED
  BY <1>1, <1>2, <1>3, <1>4 DEF AInv

\* The steps that leave the account as it is.
LEMMA AccountKept ==
    ASSUME AInv, account' = account
    PROVE  AccountMonotoneStep /\ VoterFixedStep
<1>1. /\ account.root \in Int /\ last_voted_slot(account.votes) \in Int
      /\ Credits(account) \in Nat
  BY RecordTypes DEF AInv, IInv, TypeOK
<1>2. AccountMonotoneStep
  BY <1>1 DEF AccountMonotoneStep
<1>3. VoterFixedStep
  BY DEF VoterFixedStep
<1> QED
  BY <1>2, <1>3, SMTT(60)

LEMMA NewBankSound ==
    ASSUME AInv, NEW s \in 1 .. MaxSlot, NewBank(s)
    PROVE  AInv' /\ AccountMonotoneStep /\ VoterFixedStep
<1>1. IInv'
  BY NewBankIInv DEF AInv
<1>2. /\ slot \in Nat /\ slot' \in Nat /\ slot < slot' /\ slot' = s
      /\ chain \subseteq Nat /\ chain' = chain \cup {s} /\ account' = account
      /\ tx = NoTx /\ tx' = NoTx
  BY VoteStateAssumption DEF AInv, IInv, TypeOK, NewBank
<1>3. epoch \in Nat /\ epoch' \in Nat /\ epoch <= epoch'
  BY <1>2, DivMonotone, VoteStateAssumption DEF epoch
<1>4. /\ leader_schedule_epoch \in Nat /\ leader_schedule_epoch' \in Nat
      /\ leader_schedule_epoch <= leader_schedule_epoch'
  <2>1. /\ slot + LEADER_SCHEDULE_SLOT_OFFSET \in Nat
        /\ slot' + LEADER_SCHEDULE_SLOT_OFFSET \in Nat
        /\ slot + LEADER_SCHEDULE_SLOT_OFFSET <= slot' + LEADER_SCHEDULE_SLOT_OFFSET
    BY <1>2, VoteStateAssumption
  <2> QED
    BY <2>1, DivMonotone, VoteStateAssumption DEF leader_schedule_epoch
<1>5. \A c \in chain : c \in Nat /\ c <= slot /\ c # s
  BY <1>2 DEF AInv, SlotsSound
<1>6. SlotsSound'
  <2>1. IsFiniteSet(chain')
    BY <1>2, FS_AddElement DEF AInv, SlotsSound
  <2>2. slot' \in chain' /\ \A c \in chain' : c <= slot'
    BY <1>2, <1>5
  <2>3. \A j \in 1 .. Len(slot_hashes') : slot_hashes'[j] \in chain' \ {slot'}
    <3> DEFINE n == Len(slot_hashes)
               m == Min({n + 1, MAX_SLOT_HASHES})
               all == <<slot>> \o slot_hashes
    <3>1. slot_hashes \in Seq(Nat) /\ n \in Nat /\ MAX_SLOT_HASHES \in Nat
      BY VoteStateAssumption DEF AInv, IInv, TypeOK
    <3>2. /\ all \in Seq(Nat) /\ Len(all) = n + 1 /\ all[1] = slot
          /\ \A j \in 2 .. n + 1 : all[j] = slot_hashes[j - 1]
      BY <1>2, <3>1
    <3> HIDE DEF n, all
    <3>3. m \in Nat /\ m <= n + 1
      <4>1. \E x \in {n + 1, MAX_SLOT_HASHES} : \A y \in {n + 1, MAX_SLOT_HASHES} : x <= y
        BY <3>1
      <4>2. m \in {n + 1, MAX_SLOT_HASHES} /\ \A y \in {n + 1, MAX_SLOT_HASHES} : m <= y
        BY <4>1, ZenonT(40) DEF Min
      <4> QED
        BY <3>1, <4>2
    <3>4. slot_hashes' = SubSeq(all, 1, m)
      BY DEF NewBank, slot_hashes_add, all, m, n
    <3> HIDE DEF m
    <3>5. Len(slot_hashes') = m /\ \A j \in 1 .. m : slot_hashes'[j] = all[j]
      BY <3>1, <3>2, <3>3, <3>4
    <3>6. slot \in chain /\ \A j \in 1 .. n : slot_hashes[j] \in chain
      BY DEF AInv, SlotsSound, n
    <3>7. \A j \in 1 .. n + 1 : all[j] \in chain
      <4> TAKE j \in 1 .. n + 1
      <4>1. j = 1 \/ (j \in 2 .. n + 1 /\ j - 1 \in 1 .. n)
        BY <3>1
      <4> QED
        BY <3>2, <3>6, <4>1, ZenonT(40)
    <3>8. \A j \in 1 .. m : j \in 1 .. n + 1
      BY <3>1, <3>3
    <3> QED
      BY <1>2, <1>5, <3>5, <3>7, <3>8, SMTT(60)
  <2> QED
    BY <2>1, <2>2, <2>3 DEF SlotsSound
<1>7. RecordsInv(account)'
  <2>1. OnFork(account)'
    <3>1. OnFork(account)
      BY DEF AInv, RecordsInv
    <3> QED
      BY <1>2, <1>5, <3>1 DEF OnFork
  <2>2. CreditsInv(account.epoch_credits)'
    <3> DEFINE ec == account.epoch_credits
    <3>1. CreditsInv(ec) /\ ec \in Seq(CreditsEntry)
      BY DEF AInv, RecordsInv, IInv, TypeOK, IsVoteState
    <3> HIDE DEF ec
    <3>2. ec # <<>> => ec[Len(ec)].epoch \in Nat
      <4>1. ec # <<>> => ec[Len(ec)] \in CreditsEntry
        BY <3>1
      <4>2. \A e \in CreditsEntry : e.epoch \in Nat
        BY DEF CreditsEntry
      <4> QED
        BY <4>1, <4>2
    <3>3. ec # <<>> => ec[Len(ec)].epoch <= epoch'
      BY <1>3, <3>1, <3>2 DEF CreditsInv
    <3>4. account'.epoch_credits = ec
      BY <1>2 DEF ec
    <3> QED
      BY <3>1, <3>3, <3>4, SMTT(60) DEF CreditsInv, CreditsChained
  <2>3. CreditsBacked(account)'
    <3> DEFINE R == BanksUpTo(account.root)
               Q == {c \in chain' : c <= account.root}
    <3>1. Credits(account) <= Cardinality(R)
      BY DEF AInv, RecordsInv, CreditsBacked, BanksUpTo
    <3>2. account.root \in Int /\ Credits(account) \in Nat
      BY RecordTypes DEF AInv, IInv, TypeOK
    <3>3. IsFiniteSet(chain') /\ IsFiniteSet(chain)
      BY <1>6 DEF AInv, SlotsSound
    <3>4. R \subseteq Q /\ Q \subseteq chain' /\ R \subseteq chain
      BY <1>2 DEF BanksUpTo
    <3> HIDE DEF R, Q
    <3>5. IsFiniteSet(Q)
      BY <3>3, <3>4, FS_Subset
    <3>6. IsFiniteSet(R) /\ Cardinality(R) <= Cardinality(Q)
      BY <3>4, <3>5, FS_Subset
    <3>7. Cardinality(R) \in Nat /\ Cardinality(Q) \in Nat
      BY <3>5, <3>6, FS_CardinalityType
    <3>8. Credits(account) <= Cardinality(Q)
      BY <3>1, <3>2, <3>6, <3>7, SMTT(60)
    <3> QED
      BY <1>2, <3>8 DEF CreditsBacked, Credits, Q
  <2> QED
    BY <2>1, <2>2, <2>3 DEF RecordsInv
<1>8. VotersInv(account)'
  <2>1. VotersInv(account) /\ DOMAIN account.voters \subseteq Nat
    BY DEF AInv, IInv, TypeOK, IsVoteState
  <2>2. \A e \in DOMAIN account.voters : e <= leader_schedule_epoch' + 1
    BY <1>4, <2>1 DEF VotersInv
  <2>3. account.prior_voters # <<>> => last_switch_epoch(account.prior_voters) \in Nat
    <3>1. account.prior_voters \in Seq(PriorVoter)
      BY DEF AInv, IInv, TypeOK, IsVoteState, PriorVoter
    <3>2. \A v \in PriorVoter : v.until \in Nat
      BY DEF PriorVoter
    <3> QED
      BY <3>1, <3>2, SMTT(60) DEF last_switch_epoch
  <2> QED
    BY <1>2, <1>3, <1>4, <2>1, <2>2, <2>3, SMTT(60)
       DEF VotersInv, PriorVotersAdjacent, last_switch_epoch
<1>9. TxInv'
  BY <1>2 DEF TxInv, NoTx
<1> QED
  BY <1>1, <1>2, <1>6, <1>7, <1>8, <1>9, AccountKept, SMTT(60) DEF AInv

LEMMA InitializeAccountSound ==
    ASSUME AInv, NEW node \in Pubkeys, NEW voter \in Pubkeys, NEW withdrawer \in Pubkeys,
           NEW commission \in Commissions, NEW lamports \in 0 .. MaxLamports, NEW signers,
           InitializeAccount(node, voter, withdrawer, commission, lamports, signers)
    PROVE  AInv' /\ AccountMonotoneStep /\ VoterFixedStep
<1>1. IInv'
  BY InitializeAccountIInv DEF AInv
<1>2. slot \in Nat /\ chain \subseteq Nat /\ SlotsSound
  BY DEF AInv, IInv, TypeOK
<1>3. epoch \in Nat /\ leader_schedule_epoch \in Nat /\ epoch <= leader_schedule_epoch
  BY <1>2, EpochType
<1>4. /\ account'.votes = <<>> /\ account'.root = NoSlot /\ account'.epoch_credits = <<>>
      /\ account'.last_timestamp = [slot |-> 0, timestamp |-> 0]
      /\ account'.prior_voters = <<>>
      /\ DOMAIN account'.voters = {epoch}
  BY DEF InitializeAccount, DefaultState
<1>5. RecordsInv(account')
  BY <1>2, <1>4, DefaultSound, SMTT(60)
<1>6. VotersInv(account')
  BY <1>3, <1>4 DEF VotersInv, PriorVotersAdjacent
<1>7. AInv'
  BY <1>1, <1>5, <1>6, AccountStepSound DEF InitializeAccount
<1>8. ~ SameAccount
  BY DEF SameAccount, InitializeAccount
<1> QED
  BY <1>7, <1>8 DEF AccountMonotoneStep, VoterFixedStep

LEMMA RecordsSame ==
    ASSUME NEW a, NEW b, RecordsInv(a), b.votes = a.votes, b.root = a.root,
           b.epoch_credits = a.epoch_credits, b.last_timestamp = a.last_timestamp
    PROVE  RecordsInv(b)
  BY DEF RecordsInv, OnFork, CreditsInv, CreditsBacked, Credits

LEMMA AuthorizeVoterSound ==
    ASSUME AInv, NEW key \in Pubkeys, NEW signers, AuthorizeVoter(key, signers)
    PROVE  AInv' /\ AccountMonotoneStep /\ VoterFixedStep
<1> DEFINE target == leader_schedule_epoch + 1
           voters == get_and_update_authorized_voter(account.voters, epoch)
           latest == voters[Max(DOMAIN voters)]
           prior  == account.prior_voters
           left   == [key |-> latest, from |-> last_switch_epoch(prior), until |-> target]
<1>1. IInv'
  BY AuthorizeVoterIInv, SMTT(60) DEF AInv
<1>2. /\ slot \in Nat /\ IsVoteState(account) /\ VoterMap(account.voters)
      /\ known_voter(account.voters, epoch) /\ VotersInv(account) /\ RecordsInv(account)
  BY DEF AInv, IInv, TypeOK, VoterKnown, AuthorizeVoter
<1>3. /\ epoch \in Nat /\ leader_schedule_epoch \in Nat /\ epoch <= leader_schedule_epoch
      /\ target \in Nat /\ epoch < target
  BY <1>2, EpochType
<1>4. VoterMap(voters) /\ epoch \in DOMAIN voters
  BY <1>2, <1>3, UpdateKeepsMap
<1>5. DOMAIN voters = {epoch} \cup {d \in DOMAIN account.voters : d >= epoch}
  BY DEF get_and_update_authorized_voter
<1>6. target \notin DOMAIN voters /\ account' = set_new_authorized_voter(account, key, target)
  BY DEF AuthorizeVoter
<1>7. account' = [account EXCEPT
          !.voters = insert(voters, target, key),
          !.prior_voters = IF latest = key THEN prior ELSE append_prior(prior, left)]
  BY <1>6, ZenonT(40) DEF set_new_authorized_voter
<1>8. latest \in Pubkeys
  <2> HIDE DEF voters
  <2>1. PICK b \in Nat : \A e \in DOMAIN voters : e <= b
    BY <1>4 DEF VoterMap
  <2>2. Max(DOMAIN voters) \in DOMAIN voters
    BY <1>4, <2>1, GreatestNat, ZenonT(40) DEF VoterMap
  <2> QED
    BY <1>4, <2>2 DEF VoterMap
<1> HIDE DEF latest, voters, left
<1>9. /\ account'.voters = insert(voters, target, key)
      /\ account'.prior_voters = IF latest = key THEN prior ELSE append_prior(prior, left)
      /\ account'.votes = account.votes /\ account'.root = account.root
      /\ account'.epoch_credits = account.epoch_credits
      /\ account'.last_timestamp = account.last_timestamp
  BY <1>2, <1>7 DEF IsVoteState, DefaultState
<1>10. RecordsInv(account')
  BY <1>2, <1>9, RecordsSame
<1>11. prior \in Seq(PriorVoter) /\ last_switch_epoch(prior) \in Nat
  <2>1. prior \in Seq(PriorVoter)
    BY <1>2 DEF IsVoteState, PriorVoter
  <2>2. \A v \in PriorVoter : v.until \in Nat
    BY DEF PriorVoter
  <2>3. prior # <<>> => prior[Len(prior)] \in PriorVoter
    BY <2>1
  <2> QED
    BY <2>1, <2>2, <2>3, SMTT(60) DEF last_switch_epoch
<1>12. last_switch_epoch(prior) < target
  <2>1. CASE prior = <<>>
    BY <1>3, <2>1, SMTT(60) DEF last_switch_epoch
  <2>2. CASE prior # <<>>
    <3>1. /\ last_switch_epoch(prior) <= target
          /\ \/ last_switch_epoch(prior) < epoch
             \/ last_switch_epoch(prior) \in DOMAIN account.voters
      BY <1>2, <2>2 DEF VotersInv
    <3> QED
      BY <1>3, <1>5, <1>6, <1>11, <3>1, SMTT(60)
  <2> QED
    BY <2>1, <2>2
<1>13. DOMAIN account'.voters = DOMAIN voters \cup {target}
  BY <1>9 DEF insert
<1>14. VotersInv(account')
  <2>1. \A e \in DOMAIN account'.voters : e <= target
    BY <1>2, <1>3, <1>5, <1>13, SMTT(60) DEF VotersInv
  <2>2. CASE latest = key
    <3>1. account'.prior_voters = prior
      BY <1>9, <2>2, ZenonT(40)
    <3>2. prior # <<>> => \/ last_switch_epoch(prior) < epoch
                          \/ last_switch_epoch(prior) \in DOMAIN account'.voters
      BY <1>2, <1>3, <1>5, <1>11, <1>13, SMTT(60) DEF VotersInv
    <3> QED
      BY <1>2, <2>1, <3>1, <3>2, ZenonT(40) DEF VotersInv
  <2>3. CASE latest # key
    <3>1. account'.prior_voters = append_prior(prior, left)
      BY <1>9, <2>3
    <3>2. left.from = last_switch_epoch(prior) /\ left.until = target /\ left \in PriorVoter
      BY <1>3, <1>8, <1>11, SMTT(60) DEF left, PriorVoter
    <3>3. PriorVotersAdjacent(prior)
      BY <1>2 DEF VotersInv
    <3>4. /\ PriorVotersAdjacent(account'.prior_voters)
          /\ last_switch_epoch(account'.prior_voters) = target
      BY <1>11, <1>12, <3>1, <3>2, <3>3, AppendPriorAdjacent, SMTT(60)
    <3> QED
      BY <1>3, <1>13, <2>1, <3>4, ZenonT(40) DEF VotersInv
  <2> QED
    BY <2>2, <2>3
<1>15. AInv'
  BY <1>1, <1>10, <1>14, AccountStepSound, SMTT(60) DEF AuthorizeVoter
<1>16. AccountMonotoneStep
  <2>1. /\ account.root \in Int /\ last_voted_slot(account.votes) \in Int
        /\ Credits(account) \in Nat
    BY <1>2, RecordTypes, SMTT(60)
  <2> QED
    BY <1>9, <2>1 DEF AccountMonotoneStep, Credits
<1>17. VoterFixedStep
  <2>1. epoch' = epoch
    BY DEF AuthorizeVoter, epoch
  <2> SUFFICES ASSUME NEW e \in epoch .. leader_schedule_epoch
               PROVE  get_authorized_voter(account'.voters, e)
                         = get_authorized_voter(account.voters, e)
    BY <2>1 DEF VoterFixedStep
  <2>2. e \in Nat /\ epoch <= e /\ e < target
    BY <1>3
  <2>3. known_voter(voters, e)
    BY <1>4, <2>2 DEF known_voter
  <2>4. get_authorized_voter(insert(voters, target, key), e) = get_authorized_voter(voters, e)
    BY <1>3, <1>4, <2>2, <2>3, InsertLookup, SMTT(60)
  <2>5. get_authorized_voter(voters, e) = get_authorized_voter(account.voters, e)
    BY <1>2, <1>3, <2>2, UpdateLookup, ZenonT(40) DEF voters
  <2> QED
    BY <1>9, <2>4, <2>5, SMTT(60)
<1> QED
  BY <1>15, <1>16, <1>17

\* The instructions that change one plain field of the account.
LEMMA FieldsSound ==
    ASSUME AInv, NEW signers, NEW key \in Pubkeys,
           \/ AuthorizeWithdrawer(key, signers)
           \/ UpdateValidatorIdentity(key, signers)
           \/ \E c \in Commissions : UpdateCommission(c, signers)
           \/ \E l \in 0 .. MaxLamports, to_self \in BOOLEAN :
                 Withdraw(l, to_self, signers) /\ l # account.lamports
    PROVE  AInv' /\ AccountMonotoneStep /\ VoterFixedStep
<1>1. IInv'
  BY FieldsIInv DEF AInv
<1>2. /\ tx' = NoTx /\ UNCHANGED <<slot, chain, slot_hashes>>
      /\ \/ account' = [account EXCEPT !.withdrawer = key]
         \/ account' = [account EXCEPT !.node = key]
         \/ \E c \in Commissions : account' = [account EXCEPT !.commission = c]
         \/ \E l \in 0 .. MaxLamports :
               account' = [account EXCEPT !.lamports = account.lamports - l]
  BY PartialWithdrawal
     DEF AInv, AuthorizeWithdrawer, UpdateValidatorIdentity, UpdateCommission, Withdraw
<1>3. IsVoteState(account) /\ RecordsInv(account) /\ VotersInv(account)
  BY DEF AInv, IInv, TypeOK
<1>4. /\ account'.votes = account.votes /\ account'.root = account.root
      /\ account'.voters = account.voters
      /\ account'.prior_voters = account.prior_voters
      /\ account'.epoch_credits = account.epoch_credits
      /\ account'.last_timestamp = account.last_timestamp
  BY <1>2, <1>3 DEF IsVoteState, DefaultState
<1>5. RecordsInv(account')
  BY <1>3, <1>4, RecordsSame, SMTT(60)
<1>6. VotersInv(account')
  BY <1>3, <1>4 DEF VotersInv
<1>7. AInv'
  BY <1>1, <1>2, <1>5, <1>6, AccountStepSound, SMTT(60)
<1>8. AccountMonotoneStep
  <2>1. /\ account.root \in Int /\ last_voted_slot(account.votes) \in Int
        /\ Credits(account) \in Nat
    BY <1>3, RecordTypes
  <2> QED
    BY <1>4, <2>1, SMTT(60) DEF AccountMonotoneStep, Credits
<1> QED
  BY <1>4, <1>7, <1>8, SMTT(60) DEF VoterFixedStep

\* A withdrawal of the whole balance.
LEMMA DeinitializeSound ==
    ASSUME AInv, NEW signers, NEW l \in 0 .. MaxLamports, NEW to_self \in BOOLEAN,
           Withdraw(l, to_self, signers), l = account.lamports
    PROVE  AInv' /\ AccountMonotoneStep /\ VoterFixedStep
<1>1. IInv'
  BY DeinitializeIInv DEF AInv
<1>2. /\ account'.votes = <<>> /\ account'.root = NoSlot /\ account'.epoch_credits = <<>>
      /\ account'.last_timestamp = [slot |-> 0, timestamp |-> 0]
      /\ account'.prior_voters = <<>> /\ DOMAIN account'.voters = {}
  <2>1. PICK left \in Nat : account' = [DefaultState EXCEPT !.lamports = left]
    BY FullWithdrawal DEF AInv
  <2> QED
    BY <2>1 DEF DefaultState, EmptyVoters
<1>3. slot \in Nat /\ chain \subseteq Nat /\ SlotsSound
  BY DEF AInv, IInv, TypeOK
<1>4. RecordsInv(account')
  BY <1>2, <1>3, DefaultSound, SMTT(60)
<1>5. VotersInv(account')
  BY <1>2 DEF VotersInv, PriorVotersAdjacent
<1>6. AInv'
  BY <1>1, <1>4, <1>5, AccountStepSound, SMTT(60) DEF Withdraw
<1>7. ~ SameAccount
  BY <1>2, ZenonT(40) DEF SameAccount, is_uninitialized
<1> QED
  BY <1>6, <1>7 DEF AccountMonotoneStep, VoterFixedStep

\* The facts a step of a vote instruction must show.
LEMMA VoteStepSound ==
    ASSUME AInv, IInv', UNCHANGED <<slot, chain, slot_hashes, account>>,
           tx'.active = TRUE,
           RecordsInv(tx'.work),
           NotBehind(tx'.work, account),
           tx'.work.voters = get_and_update_authorized_voter(account.voters, epoch),
           tx'.work.prior_voters = account.prior_voters,
           ~ is_uninitialized(account),
           \A i \in 1 .. Len(tx'.vote.slots) :
              \/ tx'.vote.slots[i] <= last_voted_slot(account.votes)
              \/ tx'.vote.slots[i] \in chain \ {slot},
           \A i \in 1 .. tx'.next - 1 : tx'.vote.slots[i] <= last_voted_slot(tx'.work.votes)
    PROVE  AInv' /\ AccountMonotoneStep /\ VoterFixedStep
<1>1. SlotsSound'
  BY ZenonT(40) DEF AInv, SlotsSound
<1>2. RecordsInv(account)'
  BY ZenonT(40) DEF AInv, RecordsInv, OnFork, CreditsInv, CreditsChained, CreditsBacked,
     Credits, epoch
<1>3. VotersInv(account)'
  BY ZenonT(40) DEF AInv, VotersInv, PriorVotersAdjacent, epoch, leader_schedule_epoch
<1>4. RecordsInv(tx.work)'
  BY ZenonT(40) DEF RecordsInv, OnFork, CreditsInv, CreditsChained, CreditsBacked, Credits, epoch
<1>5. NotBehind(tx.work, account)'
  BY ZenonT(40) DEF NotBehind, Credits
<1>6. TxInv'
  BY <1>4, <1>5, ZenonT(40) DEF TxInv, epoch
<1> QED
  BY <1>1, <1>2, <1>3, <1>6, AccountKept, SMTT(60) DEF AInv

LEMMA BeginVoteSound ==
    ASSUME AInv, NEW vote \in Votes, NEW signers, BeginVote(vote, signers)
    PROVE  AInv' /\ AccountMonotoneStep /\ VoterFixedStep
<1> DEFINE voters == get_and_update_authorized_voter(account.voters, epoch)
           work == [account EXCEPT !.voters = voters]
<1>1. IInv'
  BY BeginVoteIInv, ZenonT(40) DEF AInv
<1>2. IsVoteState(account) /\ RecordsInv(account) /\ SlotsSound
  BY DEF AInv, IInv, TypeOK
<1>3. /\ tx' = [active |-> TRUE, vote |-> vote, work |-> work, next |-> 1]
      /\ UNCHANGED <<slot, chain, slot_hashes, account>>
      /\ ~ is_uninitialized(account)
      /\ check_slots_are_valid(account.votes, vote)
  BY DEF BeginVote
<1> HIDE DEF voters
<1>4. /\ work.voters = voters /\ work.votes = account.votes /\ work.root = account.root
      /\ work.prior_voters = account.prior_voters
      /\ work.epoch_credits = account.epoch_credits
      /\ work.last_timestamp = account.last_timestamp
  BY <1>2 DEF IsVoteState, DefaultState
<1> HIDE DEF work
<1>5. tx'.active = TRUE /\ tx'.work = work /\ tx'.vote = vote /\ tx'.next = 1
  BY <1>3
<1>6. RecordsInv(work)
  BY <1>2, <1>4, RecordsSame, SMTT(60)
<1>7. NotBehind(work, account)
  <2>1. /\ account.root \in Int /\ last_voted_slot(account.votes) \in Int
        /\ Credits(account) \in Nat
    BY <1>2, RecordTypes, ZenonT(40)
  <2> QED
    BY <1>4, <2>1 DEF NotBehind, Credits
<1>8. \A i \in 1 .. Len(vote.slots) :
          \/ vote.slots[i] <= last_voted_slot(account.votes)
          \/ vote.slots[i] \in chain \ {slot}
  <2> TAKE i \in 1 .. Len(vote.slots)
  <2>1. vote.slots[i] \in Int
    <3>1. tx'.vote.slots \in Seq(Nat)
      BY <1>1, <1>5 DEF IInv, TypeOK
    <3> QED
      BY <1>5, <3>1, SMTT(60)
  <2>2. last_voted_slot(account.votes) \in Int
    BY <1>2, RecordTypes, ZenonT(40)
  <2>3. CASE vote.slots[i] > last_voted_slot(account.votes)
    <3>1. InSlotHashes(vote.slots[i])
      BY <1>3, <2>3 DEF check_slots_are_valid, NewSlots
    <3> QED
      BY <1>2, <3>1, SMTT(60) DEF InSlotHashes, SlotsSound
  <2> QED
    BY <2>1, <2>2, <2>3, SMTT(60)
<1>9. \A i \in 1 .. 1 - 1 : vote.slots[i] <= last_voted_slot(work.votes)
  OBVIOUS
<1> QED
  BY <1>1, <1>3, <1>4, <1>5, <1>6, <1>7, <1>8, <1>9, VoteStepSound, SMTT(60) DEF voters

LEMMA ProcessSlotSound ==
    ASSUME AInv, ProcessSlot
    PROVE  AInv' /\ AccountMonotoneStep /\ VoterFixedStep
<1> DEFINE s == tx.vote.slots[tx.next]
           work == record_slot(tx.work, s)
<1>1. IInv'
  BY ProcessSlotIInv DEF AInv
<1>2. /\ tx.active /\ DOMAIN tx = {"active", "vote", "work", "next"}
      /\ tx.vote.slots \in Seq(Nat) /\ tx.next \in 1 .. Len(tx.vote.slots)
      /\ IsVoteState(tx.work) /\ WellFormedStack(StackOf(tx.work))
      /\ slot \in Nat /\ chain \subseteq Nat /\ IsVoteState(account)
      /\ SlotsSound
  BY DEF AInv, IInv, TypeOK, StackInv, TxShape, NoTx, Panicked, ProcessSlot
<1>3. /\ RecordsInv(tx.work) /\ NotBehind(tx.work, account)
      /\ tx.work.voters = get_and_update_authorized_voter(account.voters, epoch)
      /\ tx.work.prior_voters = account.prior_voters
      /\ ~ is_uninitialized(account)
      /\ \A i \in 1 .. Len(tx.vote.slots) :
            \/ tx.vote.slots[i] <= last_voted_slot(account.votes)
            \/ tx.vote.slots[i] \in chain \ {slot}
      /\ \A i \in 1 .. tx.next - 1 : tx.vote.slots[i] <= last_voted_slot(tx.work.votes)
  BY <1>2, ZenonT(40) DEF AInv, TxInv
<1>4. s \in Nat
  BY <1>2
<1>5. /\ account.root \in Int /\ last_voted_slot(account.votes) \in Int /\ Credits(account) \in Nat
      /\ tx.work.root \in Int /\ last_voted_slot(tx.work.votes) \in Int
      /\ Credits(tx.work) \in Nat
  BY <1>2, RecordTypes, ZenonT(40)
<1>6. s <= last_voted_slot(tx.work.votes) \/ s \in chain \ {slot}
  BY <1>2, <1>3, <1>4, <1>5, SMTT(60) DEF NotBehind
<1>7. tx' = [tx EXCEPT !.work = work, !.next = @ + 1]
      /\ UNCHANGED <<slot, chain, slot_hashes, account>>
  BY DEF ProcessSlot
<1> HIDE DEF s
<1>8. /\ RecordsInv(work) /\ NotBehind(work, tx.work)
      /\ s <= last_voted_slot(work.votes) /\ last_voted_slot(work.votes) \in Int
      /\ work.voters = tx.work.voters /\ work.prior_voters = tx.work.prior_voters
  BY <1>2, <1>3, <1>4, <1>6, RecordSlotInv, ZenonT(40)
<1>9. IsVoteState(work)
  BY <1>2, <1>4, RecordSlotType
<1> HIDE DEF work
<1>10. tx'.active = TRUE /\ tx'.vote = tx.vote /\ tx'.work = work /\ tx'.next = tx.next + 1
  <2>1. tx.active = TRUE
    BY <1>2, SMTT(60) DEF AInv, IInv, TypeOK
  <2> QED
    BY <1>2, <1>7, <2>1, ZenonT(40)
<1>11. NotBehind(work, account)
  <2>1. work.root \in Int /\ Credits(work) \in Nat
    BY <1>9, RecordTypes
  <2> QED
    BY <1>3, <1>5, <1>8, <2>1, SMTT(60) DEF NotBehind
<1>12. \A i \in 1 .. tx'.next - 1 : tx.vote.slots[i] <= last_voted_slot(work.votes)
  <2> TAKE i \in 1 .. tx'.next - 1
  <2>1. i \in 1 .. tx.next - 1 \/ i = tx.next
    BY <1>2, <1>10
  <2>2. i \in 1 .. Len(tx.vote.slots) /\ tx.vote.slots[i] \in Nat
    BY <1>2, <2>1, SMTT(60)
  <2>3. CASE i = tx.next
    BY <1>8, <2>3, ZenonT(40) DEF s
  <2>4. CASE i \in 1 .. tx.next - 1
    BY <1>3, <1>5, <1>8, <2>2, <2>4, SMTT(60) DEF NotBehind
  <2> QED
    BY <2>1, <2>3, <2>4, SMTT(60)
<1> QED
  BY <1>1, <1>3, <1>7, <1>8, <1>10, <1>11, <1>12, VoteStepSound, ZenonT(40)

LEMMA EndVoteSound ==
    ASSUME AInv, EndVote
    PROVE  AInv' /\ AccountMonotoneStep /\ VoterFixedStep
<1> DEFINE ts == tx.vote.timestamp
           last == newest_slot(tx.vote.slots)
           stamp == [slot |-> last, timestamp |-> ts]
           dated == [tx.work EXCEPT !.last_timestamp = stamp]
           work == tx.work
<1>1. IInv'
  BY EndVoteIInv DEF AInv
<1>2. /\ tx.active
      /\ tx.vote.slots \in Seq(Nat) /\ tx.vote.slots # <<>>
      /\ \A i \in 1 .. Len(tx.vote.slots) : tx.vote.slots[i] <= MaxSlot
      /\ tx.next = Len(tx.vote.slots) + 1
      /\ IsVoteState(work) /\ IsVoteState(account) /\ slot \in Nat
      /\ VoterMap(account.voters)
      /\ RecordsInv(account) /\ VotersInv(account)
  BY SMTT(60) DEF AInv, IInv, TypeOK, TxShape, NoTx, Panicked, EndVote
<1>3. /\ RecordsInv(work) /\ NotBehind(work, account)
      /\ work.voters = get_and_update_authorized_voter(account.voters, epoch)
      /\ work.prior_voters = account.prior_voters
      /\ ~ is_uninitialized(account)
      /\ \A i \in 1 .. Len(tx.vote.slots) : tx.vote.slots[i] <= last_voted_slot(work.votes)
  <2>1. tx.active /\ tx.next - 1 = Len(tx.vote.slots)
    BY <1>2
  <2>2. /\ RecordsInv(work) /\ NotBehind(work, account)
        /\ work.voters = get_and_update_authorized_voter(account.voters, epoch)
        /\ work.prior_voters = account.prior_voters
        /\ ~ is_uninitialized(account)
        /\ \A i \in 1 .. tx.next - 1 : tx.vote.slots[i] <= last_voted_slot(work.votes)
    BY <2>1, ZenonT(40) DEF AInv, TxInv
  <2> QED
    BY <2>1, <2>2, ZenonT(40)
<1>4. known_voter(account.voters, epoch)
  BY <1>3, ZenonT(40) DEF AInv, IInv, VoterKnown
<1>5. epoch \in Nat /\ leader_schedule_epoch \in Nat /\ epoch <= leader_schedule_epoch
  BY <1>2, EpochType
<1>6. last <= last_voted_slot(work.votes)
  <2> DEFINE T == {tx.vote.slots[i] : i \in 1 .. Len(tx.vote.slots)}
  <2>1. T \in SUBSET Nat /\ \A x \in T : x <= MaxSlot /\ x <= last_voted_slot(work.votes)
    BY <1>2, <1>3, SMTT(60)
  <2>2. T # {}
    <3>1. 1 \in 1 .. Len(tx.vote.slots)
      BY <1>2
    <3> QED
      BY <3>1, ZenonT(40)
  <2> HIDE DEF T
  <2>3. Max(T) \in T
    BY <2>1, <2>2, GreatestNat, VoteStateAssumption, ZenonT(40)
  <2> QED
    BY <2>1, <2>3, ZenonT(40) DEF T, newest_slot
<1>7. /\ tx' = NoTx /\ UNCHANGED <<slot, chain, slot_hashes>>
      /\ account' = work \/ account' = dated \/ account' = account
  BY DEF EndVote
<1>8. CASE account' = account
  <2>1. RecordsInv(account') /\ VotersInv(account')
    BY <1>2, <1>8
  <2> QED
    BY <1>1, <1>7, <1>8, <2>1, AccountStepSound, AccountKept, SMTT(60)
<1>9. CASE account' = work \/ account' = dated
  <2> HIDE DEF stamp, last, ts
  <2>1. stamp.slot = last
    BY ZenonT(40) DEF stamp
  <2>2. /\ account'.votes = work.votes /\ account'.root = work.root
        /\ account'.voters = work.voters /\ account'.prior_voters = work.prior_voters
        /\ account'.epoch_credits = work.epoch_credits
        /\ account'.last_timestamp = work.last_timestamp \/ account'.last_timestamp = stamp
    BY <1>2, <1>9, ZenonT(40) DEF IsVoteState, DefaultState
  <2> HIDE DEF work, dated
  <2>3. RecordsInv(account')
    BY <1>3, <1>6, <2>1, <2>2, SMTT(60) DEF RecordsInv, OnFork, CreditsBacked, Credits
  <2>4. DOMAIN work.voters = {epoch} \cup {d \in DOMAIN account.voters : d >= epoch}
    BY <1>3, ZenonT(40) DEF get_and_update_authorized_voter
  <2>5. VotersInv(account')
    <3>1. \A e \in DOMAIN account'.voters : e <= leader_schedule_epoch + 1
      BY <1>2, <1>5, <2>2, <2>4, SMTT(60) DEF VotersInv
    <3>2. account.prior_voters # <<>> => last_switch_epoch(account.prior_voters) \in Nat
      <4>1. account.prior_voters \in Seq(PriorVoter)
        BY <1>2 DEF IsVoteState, PriorVoter
      <4>2. \A v \in PriorVoter : v.until \in Nat
        BY DEF PriorVoter
      <4> QED
        BY <4>1, <4>2, SMTT(60) DEF last_switch_epoch
    <3> QED
      BY <1>2, <1>3, <1>5, <2>2, <2>4, <3>1, <3>2, SMTT(60) DEF VotersInv
  <2>6. AInv'
    BY <1>1, <1>7, <2>3, <2>5, AccountStepSound, SMTT(60)
  <2>7. AccountMonotoneStep
    BY <1>3, <2>2, ZenonT(40) DEF AccountMonotoneStep, NotBehind, Credits
  <2>8. VoterFixedStep
    <3>1. epoch' = epoch
      BY <1>7 DEF epoch
    <3> SUFFICES ASSUME NEW e \in epoch .. leader_schedule_epoch
                 PROVE  get_authorized_voter(account'.voters, e)
                           = get_authorized_voter(account.voters, e)
      BY <3>1 DEF VoterFixedStep
    <3>2. e \in Nat /\ epoch <= e
      BY <1>5
    <3> QED
      BY <1>2, <1>3, <1>4, <1>5, <2>2, <3>2, UpdateLookup, SMTT(60)
  <2> QED
    BY <2>6, <2>7, <2>8
<1> QED
  BY <1>7, <1>8, <1>9, SMTT(60)

LEMMA InitAInv ==
    Init => AInv
<1> SUFFICES ASSUME Init PROVE AInv
  OBVIOUS
<1>1. IInv
  BY InitIInv
<1>2. slot = 0 /\ chain = {0} /\ slot_hashes = <<>> /\ account = DefaultState /\ tx = NoTx
  BY DEF Init
<1>3. SlotsSound
  <2>1. IsFiniteSet(chain)
    BY <1>2, FS_Singleton, ZenonT(40)
  <2>2. slot \in chain /\ (\A c \in chain : c <= slot) /\ Len(slot_hashes) = 0
    BY <1>2
  <2> QED
    BY <2>1, <2>2 DEF SlotsSound
<1>4. /\ account.votes = <<>> /\ account.root = NoSlot /\ account.epoch_credits = <<>>
      /\ account.last_timestamp = [slot |-> 0, timestamp |-> 0]
      /\ account.prior_voters = <<>> /\ DOMAIN account.voters = {}
  BY <1>2 DEF DefaultState, EmptyVoters
<1>5. RecordsInv(account)
  BY <1>2, <1>3, <1>4, DefaultSound, SMTT(60)
<1>6. VotersInv(account)
  BY <1>4 DEF VotersInv, PriorVotersAdjacent
<1>7. TxInv
  BY <1>2 DEF TxInv, NoTx
<1> QED
  BY <1>1, <1>3, <1>5, <1>6, <1>7, SMTT(60) DEF AInv

LEMMA NextAInv ==
    AInv /\ [Next]_vars => AInv' /\ AccountMonotoneStep /\ VoterFixedStep
<1> SUFFICES ASSUME AInv, [Next]_vars PROVE AInv' /\ AccountMonotoneStep /\ VoterFixedStep
  OBVIOUS
<1>1. ASSUME NEW s \in 1 .. MaxSlot, NewBank(s)
      PROVE  AInv' /\ AccountMonotoneStep /\ VoterFixedStep
  BY <1>1, NewBankSound
<1>2. CASE Administer
  <2>1. PICK signers \in SUBSET Pubkeys, key \in Pubkeys :
           \/ AuthorizeVoter(key, signers)
           \/ AuthorizeWithdrawer(key, signers)
           \/ UpdateValidatorIdentity(key, signers)
           \/ \E c \in Commissions : UpdateCommission(c, signers)
           \/ \E l \in 0 .. MaxLamports, to_self \in BOOLEAN : Withdraw(l, to_self, signers)
           \/ \E v, w \in Pubkeys, c \in Commissions, l \in 0 .. MaxLamports :
                 InitializeAccount(key, v, w, c, l, signers)
    BY <1>2, ZenonT(40) DEF Administer
  <2>2. CASE AuthorizeVoter(key, signers)
    BY <2>2, AuthorizeVoterSound
  <2>3. CASE AuthorizeWithdrawer(key, signers) \/ UpdateValidatorIdentity(key, signers)
    BY <2>3, FieldsSound
  <2>4. CASE \E c \in Commissions : UpdateCommission(c, signers)
    BY <2>4, FieldsSound
  <2>5. ASSUME NEW l \in 0 .. MaxLamports, NEW to_self \in BOOLEAN,
               Withdraw(l, to_self, signers)
        PROVE  AInv' /\ AccountMonotoneStep /\ VoterFixedStep
    BY <2>5, FieldsSound, DeinitializeSound
  <2>6. CASE \E v, w \in Pubkeys, c \in Commissions, l \in 0 .. MaxLamports :
                 InitializeAccount(key, v, w, c, l, signers)
    BY <2>6, InitializeAccountSound
  <2> QED
    BY <2>1, <2>2, <2>3, <2>4, <2>5, <2>6, SMTT(60)
<1>3. ASSUME NEW vote \in Votes, NEW signers \in SUBSET Pubkeys, BeginVote(vote, signers)
      PROVE  AInv' /\ AccountMonotoneStep /\ VoterFixedStep
  BY <1>3, BeginVoteSound
<1>4. CASE ProcessSlot
  BY <1>4, ProcessSlotSound
<1>5. CASE EndVote
  BY <1>5, EndVoteSound
<1>6. CASE UnknownVoterPanics \/ UNCHANGED vars
  <2>1. IInv'
    BY NextIInv, ZenonT(40) DEF AInv
  <2>2. UNCHANGED <<slot, chain, slot_hashes, account>> /\ tx' \in {tx, Panicked}
    BY <1>6 DEF UnknownVoterPanics, vars
  <2>3. TxInv'
    <3>1. CASE tx' = Panicked
      BY <3>1 DEF TxInv, Panicked
    <3>2. CASE tx' = tx
      BY <2>2, <3>2, ZenonT(40)
         DEF AInv, TxInv, NotBehind, RecordsInv, OnFork, CreditsInv, CreditsChained,
         CreditsBacked, Credits, epoch
    <3> QED
      BY <2>2, <3>1, <3>2
  <2>4. AInv'
    BY <2>1, <2>2, <2>3, ZenonT(40)
       DEF AInv, SlotsSound, RecordsInv, OnFork, CreditsInv, CreditsChained,
       CreditsBacked, Credits, VotersInv, PriorVotersAdjacent, epoch, leader_schedule_epoch
  <2> QED
    BY <2>2, <2>4, AccountKept
<1> QED
  BY <1>1, <1>2, <1>3, <1>4, <1>5, <1>6, SMTT(60) DEF Next

LEMMA AccountInductive ==
    Spec => []AInv
<1>1. AInv /\ [Next]_vars => AInv'
  BY NextAInv
<1> QED
  BY <1>1, InitAInv, PTL DEF Spec

-----------------------------------------------------------------------------
(* The theorems. *)

\* check_slots_are_valid and process_slot record votes and roots for banks of this
\* fork only, whatever the length of the slot hashes, and process_timestamp keeps
\* no time ahead of the last vote.
THEOREM VotesAreOnFork ==
    Spec => []RecordedOnFork
<1>1. AInv => RecordedOnFork
  BY DEF AInv, RecordsInv, RecordedOnFork
<1> QED
  BY <1>1, AccountInductive, PTL

\* increment_credits chains its entries and pays for no bank twice; the assertion
\* of set_new_authorized_voter holds for every history of changes of the voter,
\* and the ranges of prior voters follow each other.
THEOREM EpochRecordsSound ==
    Spec => []EpochRecordsChained
<1>1. AInv => TargetIsLatest
  <2> SUFFICES ASSUME AInv PROVE TargetIsLatest
    BY ZenonT(40)
  <2> DEFINE voters == get_and_update_authorized_voter(account.voters, epoch)
             target == leader_schedule_epoch + 1
  <2>1. slot \in Nat /\ DOMAIN account.voters \subseteq Nat
    BY ZenonT(40) DEF AInv, IInv, TypeOK, IsVoteState
  <2>2. epoch \in Nat /\ leader_schedule_epoch \in Nat /\ epoch <= leader_schedule_epoch
    BY <2>1, EpochType
  <2>3. DOMAIN voters = {epoch} \cup {d \in DOMAIN account.voters : d >= epoch}
    BY DEF get_and_update_authorized_voter
  <2>4. \A e \in DOMAIN account.voters : e <= target
    BY DEF AInv, VotersInv
  <2> HIDE DEF voters
  <2>5. target \notin DOMAIN voters => \A e \in DOMAIN voters : e < target
    BY <2>1, <2>2, <2>3, <2>4, SMTT(60)
  <2> QED
    BY <2>5 DEF TargetIsLatest, voters
<1>2. AInv => EpochRecordsChained
  BY <1>1 DEF AInv, RecordsInv, CreditsInv, VotersInv, EpochRecordsChained
<1> QED
  BY <1>2, AccountInductive, PTL

\* The root, the last vote and the credits of an account never move back.
THEOREM AccountNeverBehind ==
    Spec => AccountMonotone
<1>1. AInv /\ [Next]_vars => [AccountMonotoneStep]_vars
  BY NextAInv
<1> QED
  BY <1>1, AccountInductive, PTL DEF Spec, AccountMonotone

\* No instruction changes the voter of an epoch whose leader schedule is known.
THEOREM ScheduledVoterFixed ==
    Spec => VoterFixed
<1>1. AInv /\ [Next]_vars => [VoterFixedStep]_vars
  BY NextAInv
<1> QED
  BY <1>1, AccountInductive, PTL DEF Spec, VoterFixed
=============================================================================
