-------------------------- MODULE VoteStateProofs ---------------------------
(***************************************************************************)
(* The vote program keeps the type of its account, a well-formed vote       *)
(* stack and a known voter for the current epoch, for every value of the    *)
(* constants.                                                               *)
(***************************************************************************)
EXTENDS VoteState, LockoutsProofs

\* Division by the length of an epoch is monotone: the clock's epoch, and the
\* leader schedule's, never go back.
LEMMA DivMonotone ==
    ASSUME NEW a \in Nat, NEW b \in Nat, NEW n \in Nat \ {0}, a <= b
    PROVE  a \div n \in Nat /\ b \div n \in Nat /\ a \div n <= b \div n
<1>1. a \div n \in Int /\ b \div n \in Int
  OBVIOUS
<1>2. /\ n * (a \div n) <= a /\ a < n * (a \div n) + n
      /\ n * (b \div n) <= b /\ b < n * (b \div n) + n
  OBVIOUS
<1> DEFINE p == a \div n
           q == b \div n
<1> HIDE DEF p, q
<1>3. n * p <= a /\ a < n * p + n /\ n * q <= b /\ b < n * q + n /\ p \in Int /\ q \in Int
  BY <1>1, <1>2 DEF p, q
<1>4. n * p < n * (q + 1)
  BY <1>3
<1>5. p < q + 1
  BY <1>3, <1>4
<1>6. 0 < n * (p + 1)
  BY <1>3
<1>7. 0 < p + 1
  BY <1>3, <1>6
<1> QED
  BY <1>3, <1>5, <1>7 DEF p, q

-----------------------------------------------------------------------------
(* The map of authorized voters. *)

\* A map from finitely many epochs to keys, as AuthorizedVoters holds it.
VoterMap(voters) ==
    /\ DOMAIN voters \subseteq Nat
    /\ \A e \in DOMAIN voters : voters[e] \in Pubkeys
    /\ \E b \in Nat : \A e \in DOMAIN voters : e <= b

\* The look-up of an epoch that has an entry at or before it finds the latest.
LEMMA LookupFinds ==
    ASSUME NEW voters, VoterMap(voters), NEW e \in Nat, known_voter(voters, e)
    PROVE  /\ get_authorized_voter(voters, e) \in Pubkeys
           /\ Max({d \in DOMAIN voters : d <= e}) \in DOMAIN voters
           /\ Max({d \in DOMAIN voters : d <= e}) <= e
           /\ \A d \in DOMAIN voters : d <= e => d <= Max({c \in DOMAIN voters : c <= e})
<1> DEFINE T == {d \in DOMAIN voters : d <= e}
<1>1. T \in SUBSET Nat /\ T # {} /\ \A x \in T : x <= e
  BY DEF VoterMap, known_voter
<1> HIDE DEF T
<1>2. Max(T) \in T /\ \A y \in T : y <= Max(T)
  BY <1>1, GreatestNat, ZenonT(40)
<1> QED
  BY <1>2 DEF T, get_authorized_voter, VoterMap

\* get_and_update_authorized_voter: the current epoch gets an entry, later
\* entries stay, and nothing but a purge of earlier epochs is lost.
LEMMA UpdateKeepsMap ==
    ASSUME NEW voters, VoterMap(voters), NEW e \in Nat, known_voter(voters, e)
    PROVE  LET new == get_and_update_authorized_voter(voters, e)
           IN  /\ VoterMap(new)
               /\ e \in DOMAIN new
               /\ known_voter(new, e)
               /\ DOMAIN new # {}
<1> DEFINE new == get_and_update_authorized_voter(voters, e)
<1>1. DOMAIN new = {e} \cup {d \in DOMAIN voters : d >= e}
  BY DEF get_and_update_authorized_voter
<1>2. \A d \in DOMAIN new : new[d] = IF d = e THEN get_authorized_voter(voters, e) ELSE voters[d]
  BY DEF get_and_update_authorized_voter
<1> HIDE DEF new
<1>3. \A d \in DOMAIN new : new[d] \in Pubkeys
  BY <1>1, <1>2, LookupFinds, ZenonT(40) DEF VoterMap
<1>4. \E b \in Nat : \A d \in DOMAIN new : d <= b
  <2>1. PICK b \in Nat : \A d \in DOMAIN voters : d <= b
    BY DEF VoterMap
  <2>2. e + b \in Nat /\ \A d \in DOMAIN new : d <= e + b
    BY <2>1, <1>1 DEF VoterMap
  <2> QED
    BY <2>2
<1>5. VoterMap(new)
  BY <1>1, <1>3, <1>4 DEF VoterMap
<1>6. known_voter(new, e)
  BY <1>1 DEF known_voter
<1> QED
  BY <1>1, <1>5, <1>6 DEF new

\* AuthorizedVoters::insert
LEMMA InsertKeepsMap ==
    ASSUME NEW voters, VoterMap(voters), NEW target \in Nat, NEW key \in Pubkeys
    PROVE  /\ VoterMap(insert(voters, target, key))
           /\ DOMAIN insert(voters, target, key) = DOMAIN voters \cup {target}
<1> DEFINE new == insert(voters, target, key)
<1>1. DOMAIN new = DOMAIN voters \cup {target}
  BY DEF insert
<1>2. \A d \in DOMAIN new : new[d] = IF d = target THEN key ELSE voters[d]
  BY DEF insert
<1> HIDE DEF new
<1>3. \E b \in Nat : \A d \in DOMAIN new : d <= b
  <2>1. PICK b \in Nat : \A d \in DOMAIN voters : d <= b
    BY DEF VoterMap
  <2>2. target + b \in Nat /\ \A d \in DOMAIN new : d <= target + b
    BY <2>1, <1>1 DEF VoterMap
  <2> QED
    BY <2>2
<1>4. VoterMap(new)
  BY <1>1, <1>2, <1>3 DEF VoterMap
<1> QED
  BY <1>1, <1>4 DEF new

-----------------------------------------------------------------------------
(* The operations on the account keep its type. *)

\* A credit more for an entry.
LEMMA PaidEntryType ==
    ASSUME NEW e \in CreditsEntry
    PROVE  [e EXCEPT !.credits = @ + 1] \in CreditsEntry
<1>1. /\ e.epoch \in Nat /\ e.credits + 1 \in Nat /\ e.prev_credits \in Nat
      /\ [e EXCEPT !.credits = @ + 1]
            = [epoch |-> e.epoch, credits |-> e.credits + 1, prev_credits |-> e.prev_credits]
  BY DEF CreditsEntry
<1> QED
  BY <1>1 DEF CreditsEntry

\* A credit more for the newest entry.
LEMMA PayType ==
    ASSUME NEW c \in Seq(CreditsEntry), c # <<>>
    PROVE  /\ [c EXCEPT ![Len(c)].credits = @ + 1] \in Seq(CreditsEntry)
           /\ Len([c EXCEPT ![Len(c)].credits = @ + 1]) = Len(c)
<1> DEFINE last == c[Len(c)]
           paid == [last EXCEPT !.credits = @ + 1]
<1>1. Len(c) \in 1 .. Len(c) /\ last \in CreditsEntry
  OBVIOUS
<1>3. paid \in CreditsEntry
  BY <1>1, PaidEntryType
<1> HIDE DEF last, paid
<1>4. [c EXCEPT ![Len(c)] = paid] \in Seq(CreditsEntry)
  BY <1>1, <1>3, ExceptSeq
<1> QED
  BY <1>1, <1>4 DEF last, paid

\* The clock's epochs are naturals.
LEMMA EpochType ==
    ASSUME slot \in Nat
    PROVE  epoch \in Nat /\ leader_schedule_epoch \in Nat /\ epoch <= leader_schedule_epoch
<1>1. slot + LEADER_SCHEDULE_SLOT_OFFSET \in Nat /\ slot <= slot + LEADER_SCHEDULE_SLOT_OFFSET
  BY VoteStateAssumption
<1> QED
  BY <1>1, DivMonotone, VoteStateAssumption DEF epoch, leader_schedule_epoch

\* increment_credits
LEMMA CreditsType ==
    ASSUME NEW c \in Seq(CreditsEntry), slot \in Nat
    PROVE  increment_credits(c) \in Seq(CreditsEntry)
<1> DEFINE last    == c[Len(c)]
           entered == IF last.credits # last.prev_credits
                      THEN enter_epoch(c, last)
                      ELSE [c EXCEPT ![Len(c)].epoch = epoch]
           current == IF c = <<>>
                      THEN <<[epoch |-> epoch, credits |-> 0, prev_credits |-> 0]>>
                      ELSE IF last.epoch = epoch THEN c
                      ELSE IF Len(entered) > MAX_EPOCH_CREDITS_HISTORY THEN Tail(entered)
                      ELSE entered
<1>1. epoch \in Nat
  BY EpochType, SMTT(60)
<1>2. CASE c = <<>>
  <2>1. current \in Seq(CreditsEntry) /\ current # <<>>
    BY <1>1, <1>2, SMTT(60) DEF CreditsEntry
  <2> QED
    BY <2>1, PayType, ZenonT(40) DEF increment_credits
<1>3. CASE c # <<>>
  <2>1. Len(c) \in 1 .. Len(c) /\ last \in CreditsEntry /\ last.credits \in Nat
    <3>1. Len(c) \in 1 .. Len(c) /\ last \in CreditsEntry
      BY <1>3
    <3>2. \A e \in CreditsEntry : e.credits \in Nat
      BY DEF CreditsEntry
    <3> QED
      BY <3>1, <3>2
  <2>2. enter_epoch(c, last) \in Seq(CreditsEntry) /\ Len(enter_epoch(c, last)) = Len(c) + 1
    <3>1. [epoch |-> epoch, credits |-> last.credits, prev_credits |-> last.credits] \in CreditsEntry
      BY <1>1, <2>1 DEF CreditsEntry
    <3> QED
      BY <3>1 DEF enter_epoch
  <2>3. [c EXCEPT ![Len(c)].epoch = epoch] \in Seq(CreditsEntry)
    <3>1. [last EXCEPT !.epoch = epoch] \in CreditsEntry
      BY <1>1, <2>1, ZenonT(40) DEF CreditsEntry
    <3> HIDE DEF last
    <3>2. [c EXCEPT ![Len(c)] = [last EXCEPT !.epoch = epoch]] \in Seq(CreditsEntry)
      BY <2>1, <3>1, ExceptSeq
    <3> QED
      BY <2>1, <3>2 DEF last
  <2>4. Len([c EXCEPT ![Len(c)].epoch = epoch]) = Len(c)
    OBVIOUS
  <2>5. entered \in Seq(CreditsEntry) /\ Len(entered) >= 1
    BY <2>1, <2>2, <2>3, <2>4
  <2> HIDE DEF entered, last
  <2>6. Len(entered) > MAX_EPOCH_CREDITS_HISTORY =>
            Tail(entered) \in Seq(CreditsEntry) /\ Tail(entered) # <<>>
    BY <2>5, VoteStateAssumption
  <2>7. current \in Seq(CreditsEntry) /\ current # <<>>
    BY <1>3, <2>5, <2>6
  <2> HIDE DEF current
  <2>8. [current EXCEPT ![Len(current)].credits = @ + 1] \in Seq(CreditsEntry)
    BY <2>7, PayType
  <2> QED
    BY <2>8, ZenonT(40) DEF increment_credits, current, entered, last
<1> QED
  BY <1>2, <1>3

\* CircBuf::append
LEMMA AppendPriorType ==
    ASSUME NEW S, NEW buf \in Seq(S), NEW item \in S
    PROVE  append_prior(buf, item) \in Seq(S)
<1>1. CASE Len(buf) = MAX_ITEMS
  <2>1. buf # <<>>
    BY <1>1, VoteStateAssumption
  <2>2. Tail(buf) \in Seq(S)
    BY <2>1
  <2> QED
    BY <2>2, <1>1 DEF append_prior
<1>2. CASE Len(buf) # MAX_ITEMS
  BY <1>2 DEF append_prior
<1> QED
  BY <1>1, <1>2

PriorVoter == [key : Pubkeys, from : Nat, until : Nat]

\* set_new_authorized_voter
LEMMA SetVoterType ==
    ASSUME NEW a, IsVoteState(a), VoterMap(a.voters), slot \in Nat,
           known_voter(a.voters, epoch),
           NEW key \in Pubkeys, NEW target \in Nat
    PROVE  LET new == set_new_authorized_voter(a, key, target)
           IN  /\ IsVoteState(new)
               /\ VoterMap(new.voters)
               /\ known_voter(new.voters, epoch)
               /\ new.votes = a.votes /\ new.root = a.root
<1> DEFINE voters == get_and_update_authorized_voter(a.voters, epoch)
           latest == voters[Max(DOMAIN voters)]
           since  == last_switch_epoch(a.prior_voters)
           left   == [key |-> latest, from |-> since, until |-> target]
           prior  == IF latest = key THEN a.prior_voters
                     ELSE append_prior(a.prior_voters, left)
           new    == set_new_authorized_voter(a, key, target)
<1>1. epoch \in Nat
  BY EpochType
<1>2. VoterMap(voters) /\ epoch \in DOMAIN voters
  BY <1>1, UpdateKeepsMap
<1> HIDE DEF voters
<1>3. latest \in Pubkeys
  <2>1. PICK b \in Nat : \A e \in DOMAIN voters : e <= b
    BY <1>2 DEF VoterMap
  <2>2. Max(DOMAIN voters) \in DOMAIN voters
    BY <1>2, <2>1, GreatestNat, ZenonT(40) DEF VoterMap
  <2> QED
    BY <1>2, <2>2 DEF VoterMap
<1>4. since \in Nat
  <2>1. a.prior_voters \in Seq(PriorVoter)
    BY DEF IsVoteState, PriorVoter
  <2>2. \A v \in PriorVoter : v.until \in Nat
    BY DEF PriorVoter
  <2>3. a.prior_voters # <<>> => a.prior_voters[Len(a.prior_voters)] \in PriorVoter
    BY <2>1
  <2> QED
    BY <2>2, <2>3 DEF last_switch_epoch
<1> HIDE DEF latest, since
<1>5. prior \in Seq(PriorVoter)
  <2>1. left \in PriorVoter
    BY <1>3, <1>4 DEF PriorVoter
  <2>2. a.prior_voters \in Seq(PriorVoter)
    BY DEF IsVoteState, PriorVoter
  <2> QED
    BY <2>1, <2>2, AppendPriorType
<1>6. VoterMap(insert(voters, target, key)) /\ epoch \in DOMAIN insert(voters, target, key)
  <2>1. /\ VoterMap(insert(voters, target, key))
        /\ DOMAIN insert(voters, target, key) = DOMAIN voters \cup {target}
    BY <1>2, InsertKeepsMap, ZenonT(40)
  <2> QED
    BY <1>2, <2>1, ZenonT(40)
<1>7. new = [a EXCEPT !.voters = insert(voters, target, key), !.prior_voters = prior]
  BY ZenonT(40) DEF set_new_authorized_voter, voters, latest, since, left, prior
<1> HIDE DEF prior, new
<1>8. /\ new.voters = insert(voters, target, key) /\ new.prior_voters = prior
      /\ DOMAIN new = DOMAIN a
      /\ new.node = a.node /\ new.withdrawer = a.withdrawer
      /\ new.commission = a.commission /\ new.votes = a.votes /\ new.root = a.root
      /\ new.epoch_credits = a.epoch_credits
      /\ new.last_timestamp = a.last_timestamp /\ new.lamports = a.lamports
  BY <1>7 DEF IsVoteState, DefaultState
<1>9. known_voter(new.voters, epoch)
  BY <1>1, <1>6, <1>8 DEF known_voter
<1>10. IsVoteState(new)
  <2>1. DOMAIN new.voters \subseteq Nat /\ \A e \in DOMAIN new.voters : new.voters[e] \in Pubkeys
    BY <1>6, <1>8 DEF VoterMap
  <2>2. new.prior_voters \in Seq([key : Pubkeys, from : Nat, until : Nat])
    BY <1>5, <1>8 DEF PriorVoter
  <2> QED
    BY <1>8, <2>1, <2>2 DEF IsVoteState
<1> QED
  BY <1>6, <1>8, <1>9, <1>10 DEF new

\* One iteration of VoteState::process_vote.
LEMMA RecordSlotType ==
    ASSUME NEW a, IsVoteState(a), WellFormedStack(StackOf(a)),
           slot \in Nat, NEW s \in Nat
    PROVE  /\ IsVoteState(record_slot(a, s))
           /\ WellFormedStack(StackOf(record_slot(a, s)))
           /\ record_slot(a, s).voters = a.voters
<1> DEFINE st  == process_slot(StackOf(a), s)
           paid == IF pops_root(a.votes, s) THEN increment_credits(a.epoch_credits)
                   ELSE a.epoch_credits
           new == record_slot(a, s)
<1>1. StackOf(a) \in Stack
  BY DEF StackOf, Stack, IsVoteState
<1>2. st \in Stack /\ WellFormedStack(st)
  BY <1>1, ProcessSlotWellFormed
<1>3. paid \in Seq(CreditsEntry)
  BY CreditsType DEF IsVoteState
<1>4. new = [a EXCEPT !.votes = st.votes, !.root = st.root, !.epoch_credits = paid]
  BY DEF record_slot, StackOf
<1> HIDE DEF st, paid, new
<1>5. /\ new.votes = st.votes /\ new.root = st.root /\ new.epoch_credits = paid
      /\ DOMAIN new = DOMAIN a
      /\ new.node = a.node /\ new.withdrawer = a.withdrawer
      /\ new.commission = a.commission /\ new.voters = a.voters
      /\ new.prior_voters = a.prior_voters
      /\ new.last_timestamp = a.last_timestamp /\ new.lamports = a.lamports
  BY <1>4 DEF IsVoteState, DefaultState
<1>6. st.votes \in Seq(Lockout) /\ st.root \in SlotOption /\ StackOf(new) = st
  BY <1>2, <1>5 DEF Stack, StackOf
<1>7. IsVoteState(new)
  BY <1>3, <1>5, <1>6 DEF IsVoteState
<1> QED
  BY <1>2, <1>5, <1>6, <1>7 DEF new

-----------------------------------------------------------------------------
(* The inductive invariant.  A look-up in the map of voters has a value only *)
(* when an entry is old enough, so the type of the account needs VoterKnown; *)
(* the working copy of a vote needs both, and the stack.                     *)

TxShape ==
    \/ tx \in {NoTx, Panicked}
    \/ /\ DOMAIN tx = {"active", "vote", "work", "next"}
       /\ tx.active = TRUE
       /\ tx.vote.slots # <<>>
       /\ \A i \in 1 .. Len(tx.vote.slots) : tx.vote.slots[i] <= MaxSlot
       /\ VoterMap(tx.work.voters)
       /\ known_voter(tx.work.voters, epoch)

IInv ==
    /\ TypeOK
    /\ StackInv
    /\ VoterKnown
    /\ VoterMap(account.voters)
    /\ TxShape

LEMMA InitIInv ==
    Init => IInv
<1> SUFFICES ASSUME Init PROVE IInv
  OBVIOUS
<1>1. IsVoteState(DefaultState)
  BY DEF IsVoteState, DefaultState, EmptyVoters, SlotOption, NoSlot, Keys
<1>2. VoterMap(DefaultState.voters) /\ is_uninitialized(DefaultState)
  BY DEF VoterMap, DefaultState, EmptyVoters, is_uninitialized
<1>3. WellFormedStack(StackOf(DefaultState))
  BY MaxLockoutHistoryAssumption DEF WellFormedStack, StackOf, DefaultState, SlotsIncrease,
     CountsCoverDepth, CountsDecrease, RootBelowVotes
<1>4. TypeOK
  BY <1>1, VoteStateAssumption DEF Init, TypeOK, NoTx
<1>5. StackInv
  BY <1>3 DEF Init, StackInv, NoTx
<1> QED
  BY <1>2, <1>4, <1>5 DEF Init, IInv, VoterKnown, TxShape, NoTx, Panicked

\* The facts a step that leaves the clock and the transaction alone must show.
LEMMA AccountStep ==
    ASSUME IInv, tx = NoTx, tx' = NoTx, UNCHANGED <<slot, chain, slot_hashes>>,
           IsVoteState(account'), VoterMap(account'.voters),
           WellFormedStack(StackOf(account')),
           is_uninitialized(account') \/ known_voter(account'.voters, epoch)
    PROVE  IInv'
<1>1. TypeOK'
  BY DEF IInv, TypeOK, NoTx
<1>2. StackInv'
  BY DEF StackInv, NoTx
<1>3. VoterKnown'
  BY DEF VoterKnown, epoch, NoTx, Panicked
<1> QED
  BY <1>1, <1>2, <1>3 DEF IInv, TxShape

LEMMA NewBankIInv ==
    ASSUME IInv, NEW s \in 1 .. MaxSlot, NewBank(s)
    PROVE  IInv'
<1>1. slot \in Nat /\ slot' \in Nat /\ slot <= slot'
  BY VoteStateAssumption DEF IInv, TypeOK, NewBank
<1>2. epoch \in Nat /\ epoch' \in Nat /\ epoch <= epoch'
  BY <1>1, DivMonotone, VoteStateAssumption, ZenonT(40) DEF epoch
<1>3. VoterKnown'
  BY <1>2 DEF IInv, VoterKnown, known_voter, NewBank, VoterMap, is_uninitialized
<1>4. slot_hashes' \in Seq(Nat) /\ Len(slot_hashes') <= MAX_SLOT_HASHES
  <2> DEFINE n == Len(slot_hashes)
             m == Min({n + 1, MAX_SLOT_HASHES})
             all == <<slot>> \o slot_hashes
  <2>1. slot_hashes \in Seq(Nat) /\ n \in Nat /\ MAX_SLOT_HASHES \in Nat
    BY VoteStateAssumption DEF IInv, TypeOK
  <2>2. all \in Seq(Nat) /\ Len(all) = n + 1
    BY <1>1, <2>1
  <2> HIDE DEF n, all
  <2>3. m \in Nat /\ m <= n + 1 /\ m <= MAX_SLOT_HASHES
    <3>1. \E x \in {n + 1, MAX_SLOT_HASHES} : \A y \in {n + 1, MAX_SLOT_HASHES} : x <= y
      BY <2>1
    <3>2. m \in {n + 1, MAX_SLOT_HASHES} /\ \A y \in {n + 1, MAX_SLOT_HASHES} : m <= y
      BY <3>1, ZenonT(40) DEF Min
    <3> QED
      BY <2>1, <3>2
  <2> HIDE DEF m
  <2>4. SubSeq(all, 1, m) \in Seq(Nat) /\ Len(SubSeq(all, 1, m)) = m
    BY <2>1, <2>2, <2>3
  <2> QED
    BY <2>3, <2>4, ZenonT(40) DEF NewBank, slot_hashes_add, m, n, all
<1>5. TypeOK'
  BY <1>1, <1>4, VoteStateAssumption DEF IInv, TypeOK, NewBank, NoTx
<1>6. StackInv'
  BY DEF IInv, StackInv, NewBank
<1> QED
  BY <1>3, <1>5, <1>6 DEF IInv, TxShape, NewBank

LEMMA InitializeAccountIInv ==
    ASSUME IInv, NEW node \in Pubkeys, NEW voter \in Pubkeys, NEW withdrawer \in Pubkeys,
           NEW commission \in Commissions, NEW lamports \in 0 .. MaxLamports, NEW signers,
           InitializeAccount(node, voter, withdrawer, commission, lamports, signers)
    PROVE  IInv'
<1>1. epoch \in Nat
  BY EpochType DEF IInv, TypeOK
<1> DEFINE vs == [e \in {epoch} |-> voter]
<1>2. DOMAIN vs = {epoch} /\ vs[epoch] = voter
  OBVIOUS
<1> HIDE DEF vs
<1>3. VoterMap(vs) /\ known_voter(vs, epoch)
  BY <1>1, <1>2 DEF VoterMap, known_voter
<1>4. account' = [DefaultState EXCEPT !.node = node, !.withdrawer = withdrawer,
                     !.commission = commission, !.lamports = lamports, !.voters = vs]
  BY DEF InitializeAccount, vs
<1>5. /\ DOMAIN account' = DOMAIN DefaultState
      /\ account'.node = node /\ account'.withdrawer = withdrawer
      /\ account'.commission = commission /\ account'.lamports = lamports
      /\ account'.voters = vs /\ account'.votes = <<>> /\ account'.root = NoSlot
      /\ account'.prior_voters = <<>> /\ account'.epoch_credits = <<>>
      /\ account'.last_timestamp = [slot |-> 0, timestamp |-> 0]
  BY <1>4 DEF DefaultState
<1>6. IsVoteState(account')
  BY <1>3, <1>5, VoteStateAssumption DEF IsVoteState, VoterMap, Keys, SlotOption, NoSlot
<1>7. WellFormedStack(StackOf(account'))
  BY <1>5, MaxLockoutHistoryAssumption DEF WellFormedStack, StackOf, SlotsIncrease,
     CountsCoverDepth, CountsDecrease, RootBelowVotes
<1> QED
  BY <1>3, <1>5, <1>6, <1>7, AccountStep DEF InitializeAccount

LEMMA AuthorizeVoterIInv ==
    ASSUME IInv, NEW key \in Pubkeys, NEW signers, AuthorizeVoter(key, signers)
    PROVE  IInv'
<1> DEFINE target == leader_schedule_epoch + 1
<1>1. slot \in Nat /\ target \in Nat
  BY EpochType DEF IInv, TypeOK
<1>2. IsVoteState(account) /\ VoterMap(account.voters) /\ known_voter(account.voters, epoch)
  BY DEF IInv, TypeOK, VoterKnown, AuthorizeVoter
<1>3. account' = set_new_authorized_voter(account, key, target)
  BY DEF AuthorizeVoter
<1> HIDE DEF target
<1>4. /\ IsVoteState(account') /\ VoterMap(account'.voters)
      /\ known_voter(account'.voters, epoch)
      /\ account'.votes = account.votes /\ account'.root = account.root
  BY <1>1, <1>2, <1>3, SetVoterType
<1>5. WellFormedStack(StackOf(account'))
  BY <1>4 DEF StackOf, IInv, StackInv
<1> QED
  BY <1>4, <1>5, AccountStep DEF AuthorizeVoter

\* What a withdrawal of a part of the balance leaves, to the account itself (m is 0)
\* or to another ...
LEMMA PartialWithdrawal ==
    ASSUME IInv, NEW signers, NEW l \in 0 .. MaxLamports, NEW to_self \in BOOLEAN,
           Withdraw(l, to_self, signers), l # account.lamports
    PROVE  \E m \in 0 .. MaxLamports :
              /\ account' = [account EXCEPT !.lamports = account.lamports - m]
              /\ m <= account.lamports
<1>1. l <= account.lamports /\ account.lamports \in Nat /\ MaxLamports \in Nat
  BY VoteStateAssumption DEF Withdraw, IInv, TypeOK, IsVoteState
<1>2. CASE to_self
  <2>1. account' = [account EXCEPT !.lamports = account.lamports - 0]
    BY <1>2 DEF Withdraw
  <2> QED
    BY <1>1, <2>1
<1>3. CASE ~ to_self
  <2>1. account' = [account EXCEPT !.lamports = account.lamports - l]
    BY <1>3 DEF Withdraw
  <2> QED
    BY <1>1, <2>1
<1> QED
  BY <1>2, <1>3

\* ... and one of the whole balance.
LEMMA FullWithdrawal ==
    ASSUME IInv, NEW signers, NEW l \in 0 .. MaxLamports, NEW to_self \in BOOLEAN,
           Withdraw(l, to_self, signers), l = account.lamports
    PROVE  \E left \in Nat : account' = [DefaultState EXCEPT !.lamports = left]
<1>1. account.lamports \in Nat
  BY DEF IInv, TypeOK, IsVoteState
<1>2. account.lamports - 0 = account.lamports /\ account.lamports - l = 0
  BY <1>1
<1>3. account' = [DefaultState EXCEPT !.lamports =
                     account.lamports - (IF to_self THEN 0 ELSE l)]
  BY DEF Withdraw
<1> QED
  BY <1>1, <1>2, <1>3

\* The instructions that change one plain field of the account.
LEMMA FieldsIInv ==
    ASSUME IInv, NEW signers, NEW key \in Pubkeys,
           \/ AuthorizeWithdrawer(key, signers)
           \/ UpdateValidatorIdentity(key, signers)
           \/ \E c \in Commissions : UpdateCommission(c, signers)
           \/ \E l \in 0 .. MaxLamports, to_self \in BOOLEAN :
                 Withdraw(l, to_self, signers) /\ l # account.lamports
    PROVE  IInv'
<1>1. /\ tx = NoTx /\ tx' = NoTx /\ UNCHANGED <<slot, chain, slot_hashes>>
      /\ \/ account' = [account EXCEPT !.withdrawer = key]
         \/ account' = [account EXCEPT !.node = key]
         \/ \E c \in Commissions : account' = [account EXCEPT !.commission = c]
         \/ \E l \in 0 .. MaxLamports :
               /\ account' = [account EXCEPT !.lamports = account.lamports - l]
               /\ l <= account.lamports
  BY PartialWithdrawal DEF AuthorizeWithdrawer, UpdateValidatorIdentity, UpdateCommission, Withdraw
<1>2. IsVoteState(account) /\ VoterMap(account.voters) /\ WellFormedStack(StackOf(account))
  BY DEF IInv, TypeOK, StackInv
<1>3. /\ DOMAIN account' = DOMAIN DefaultState
      /\ account'.votes = account.votes /\ account'.root = account.root
      /\ account'.voters = account.voters
      /\ account'.prior_voters = account.prior_voters
      /\ account'.epoch_credits = account.epoch_credits
      /\ account'.last_timestamp = account.last_timestamp
      /\ account'.node \in {account.node, key}
      /\ account'.withdrawer \in {account.withdrawer, key}
      /\ account'.commission \in Commissions \cup {account.commission}
      /\ \/ account'.lamports = account.lamports
         \/ \E l \in 0 .. MaxLamports :
               account'.lamports = account.lamports - l /\ l <= account.lamports
  BY <1>1, <1>2 DEF IsVoteState, DefaultState
<1>4. account'.lamports \in Nat
  BY <1>2, <1>3, VoteStateAssumption, SMTT(60) DEF IsVoteState
<1>5. IsVoteState(account')
  <2>1. account'.node \in Keys /\ account'.withdrawer \in Keys
    BY <1>2, <1>3, SMTT(60) DEF IsVoteState, Keys
  <2>2. account'.commission \in 0 .. 255
    BY <1>2, <1>3, VoteStateAssumption, ZenonT(40) DEF IsVoteState
  <2> QED
    BY <1>2, <1>3, <1>4, <2>1, <2>2, SMTT(60) DEF IsVoteState
<1>6. WellFormedStack(StackOf(account'))
  BY <1>2, <1>3 DEF StackOf
<1>7. is_uninitialized(account') \/ known_voter(account'.voters, epoch)
  <2>1. is_uninitialized(account) \/ known_voter(account.voters, epoch)
    BY DEF IInv, VoterKnown
  <2> QED
    BY <1>3, <2>1 DEF is_uninitialized
<1> QED
  BY <1>1, <1>2, <1>3, <1>5, <1>6, <1>7, AccountStep

\* A withdrawal of the whole balance, which the account itself may receive.
LEMMA DeinitializeIInv ==
    ASSUME IInv, NEW signers, NEW l \in 0 .. MaxLamports, NEW to_self \in BOOLEAN,
           Withdraw(l, to_self, signers), l = account.lamports
    PROVE  IInv'
<1>1. PICK left \in Nat : account' = [DefaultState EXCEPT !.lamports = left]
  BY FullWithdrawal
<1>2. /\ DOMAIN account' = DOMAIN DefaultState
      /\ account'.node = NoKey /\ account'.withdrawer = NoKey /\ account'.commission = 0
      /\ account'.votes = <<>> /\ account'.root = NoSlot /\ account'.voters = EmptyVoters
      /\ account'.prior_voters = <<>> /\ account'.epoch_credits = <<>>
      /\ account'.last_timestamp = [slot |-> 0, timestamp |-> 0] /\ account'.lamports = left
  BY <1>1 DEF DefaultState
<1>3. VoterMap(EmptyVoters) /\ is_uninitialized(account')
  BY <1>2 DEF VoterMap, EmptyVoters, is_uninitialized
<1>4. IsVoteState(account')
  BY <1>2 DEF IsVoteState, EmptyVoters, SlotOption, NoSlot, Keys
<1>5. WellFormedStack(StackOf(account'))
  BY <1>2, MaxLockoutHistoryAssumption DEF WellFormedStack, StackOf, SlotsIncrease,
     CountsCoverDepth, CountsDecrease, RootBelowVotes
<1> QED
  BY <1>2, <1>3, <1>4, <1>5, AccountStep DEF Withdraw

\* The failed expect changes nothing else.  It needs an account without a voter for
\* the epoch, and only an account without a state is one.
LEMMA UnknownVoterPanicsIInv ==
    ASSUME IInv, UnknownVoterPanics
    PROVE  IInv'
<1>1. /\ UNCHANGED <<slot, chain, slot_hashes, account>> /\ tx' = Panicked
      /\ is_uninitialized(account)
  BY DEF UnknownVoterPanics, IInv, VoterKnown
<1>2. TypeOK'
  BY <1>1 DEF IInv, TypeOK, Panicked
<1>3. StackInv'
  BY <1>1 DEF IInv, StackInv, Panicked
<1>4. VoterKnown'
  BY <1>1 DEF VoterKnown, is_uninitialized
<1> QED
  BY <1>1, <1>2, <1>3, <1>4 DEF IInv, TxShape

LEMMA BeginVoteIInv ==
    ASSUME IInv, NEW vote \in Votes, NEW signers, BeginVote(vote, signers)
    PROVE  IInv'
<1> DEFINE voters == get_and_update_authorized_voter(account.voters, epoch)
           work == [account EXCEPT !.voters = voters]
<1>1. /\ IsVoteState(account) /\ VoterMap(account.voters) /\ slot \in Nat
      /\ known_voter(account.voters, epoch) /\ WellFormedStack(StackOf(account))
  BY DEF IInv, TypeOK, VoterKnown, BeginVote, StackInv
<1>2. VoterMap(voters) /\ known_voter(voters, epoch)
  BY <1>1, UpdateKeepsMap, EpochType
<1>3. tx' = [active |-> TRUE, vote |-> vote, work |-> work, next |-> 1]
  BY DEF BeginVote
<1> HIDE DEF voters
<1>4. /\ DOMAIN work = DOMAIN DefaultState /\ work.voters = voters
      /\ work.votes = account.votes /\ work.root = account.root
      /\ work.node = account.node /\ work.withdrawer = account.withdrawer
      /\ work.commission = account.commission
      /\ work.prior_voters = account.prior_voters
      /\ work.epoch_credits = account.epoch_credits
      /\ work.last_timestamp = account.last_timestamp /\ work.lamports = account.lamports
  BY <1>1, SMTT(60) DEF IsVoteState, DefaultState
<1> HIDE DEF work
<1>5. IsVoteState(work) /\ WellFormedStack(StackOf(work))
  BY <1>1, <1>2, <1>4 DEF IsVoteState, StackOf, VoterMap
<1>6. /\ vote.slots \in Seq(Nat) /\ vote.slots # <<>>
      /\ \A i \in 1 .. Len(vote.slots) : vote.slots[i] <= MaxSlot
      /\ vote.timestamp \in Nat \cup {NoTimestamp}
  <2>1. vote.slots \in UNION {[1 .. n -> 0 .. MaxSlot] : n \in 1 .. MaxVoteSlots}
    BY DEF Votes, VoteSlots
  <2>2. PICK n \in 1 .. MaxVoteSlots : vote.slots \in [1 .. n -> 0 .. MaxSlot]
    BY <2>1
  <2>3. n \in Nat /\ MaxSlot \in Nat
    BY VoteStateAssumption
  <2>4. vote.slots \in Seq(Nat) /\ Len(vote.slots) = n
    BY <2>2, <2>3
  <2>5. vote.timestamp \in Nat \cup {NoTimestamp}
    BY VoteStateAssumption, ZenonT(40) DEF Votes, VoteSlots
  <2> QED
    BY <2>2, <2>3, <2>4, <2>5 DEF BeginVote
<1>7. TypeOK'
  <2>1. UNCHANGED <<slot, chain, slot_hashes, account>>
    BY DEF BeginVote
  <2>2. tx'.active = TRUE /\ tx'.work = work /\ tx'.next = 1 /\ tx'.vote = vote
    BY <1>3
  <2>3. 1 \in 1 .. Len(vote.slots) + 1
    BY <1>6
  <2> QED
    BY <1>5, <1>6, <2>1, <2>2, <2>3, ZenonT(40) DEF IInv, TypeOK
<1>8. StackInv'
  BY <1>1, <1>3, <1>5 DEF StackInv, BeginVote
<1>9. TxShape'
  BY <1>2, <1>3, <1>4, <1>6 DEF TxShape, BeginVote, epoch
<1> QED
  BY <1>3, <1>7, <1>8, <1>9 DEF IInv, BeginVote, VoterKnown, epoch, Panicked

LEMMA ProcessSlotIInv ==
    ASSUME IInv, ProcessSlot
    PROVE  IInv'
<1> DEFINE s == tx.vote.slots[tx.next]
           work == record_slot(tx.work, s)
<1>1. /\ tx.active /\ DOMAIN tx = {"active", "vote", "work", "next"}
      /\ tx.vote.slots \in Seq(Nat) /\ tx.vote.slots # <<>>
      /\ \A i \in 1 .. Len(tx.vote.slots) : tx.vote.slots[i] <= MaxSlot
      /\ VoterMap(tx.work.voters) /\ known_voter(tx.work.voters, epoch)
      /\ tx.next \in 1 .. Len(tx.vote.slots) + 1 /\ tx.next <= Len(tx.vote.slots)
      /\ IsVoteState(tx.work) /\ WellFormedStack(StackOf(tx.work)) /\ slot \in Nat
      /\ tx.vote.timestamp \in Nat \cup {NoTimestamp}
  BY DEF IInv, TypeOK, StackInv, TxShape, NoTx, Panicked, ProcessSlot
<1>2. s \in Nat /\ tx.next + 1 \in 1 .. Len(tx.vote.slots) + 1
  BY <1>1
<1> HIDE DEF s
<1>3. IsVoteState(work) /\ WellFormedStack(StackOf(work)) /\ work.voters = tx.work.voters
  BY <1>1, <1>2, RecordSlotType, ZenonT(40)
<1>4. tx' = [tx EXCEPT !.work = work, !.next = @ + 1]
  BY DEF ProcessSlot, s
<1> HIDE DEF work
<1>5. /\ DOMAIN tx' = {"active", "vote", "work", "next"}
      /\ tx'.active = TRUE /\ tx'.vote = tx.vote /\ tx'.work = work /\ tx'.next = tx.next + 1
  <2>1. tx.active = TRUE
    BY <1>1 DEF IInv, TypeOK
  <2> QED
    BY <1>1, <1>4, <2>1
<1>6. UNCHANGED <<slot, chain, slot_hashes, account>>
  BY DEF ProcessSlot
<1>7. TypeOK'
  BY <1>1, <1>2, <1>3, <1>5, <1>6, ZenonT(40) DEF IInv, TypeOK
<1>8. StackInv'
  BY <1>3, <1>5, <1>6 DEF IInv, StackInv
<1>9. TxShape'
  BY <1>1, <1>3, <1>5, <1>6 DEF TxShape, epoch
<1> QED
  BY <1>5, <1>6, <1>7, <1>8, <1>9 DEF IInv, VoterKnown, epoch, Panicked

LEMMA EndVoteIInv ==
    ASSUME IInv, EndVote
    PROVE  IInv'
<1> DEFINE ts == tx.vote.timestamp
           last == newest_slot(tx.vote.slots)
<1>1. /\ tx.vote.slots \in Seq(Nat) /\ tx.vote.slots # <<>>
      /\ \A i \in 1 .. Len(tx.vote.slots) : tx.vote.slots[i] <= MaxSlot
      /\ VoterMap(tx.work.voters) /\ known_voter(tx.work.voters, epoch)
      /\ IsVoteState(tx.work) /\ WellFormedStack(StackOf(tx.work))
      /\ IsVoteState(account) /\ WellFormedStack(StackOf(account)) /\ VoterMap(account.voters)
      /\ ts \in Nat \cup {NoTimestamp}
  BY DEF IInv, TypeOK, StackInv, TxShape, NoTx, Panicked, EndVote
<1>2. last \in Nat
  <2> DEFINE T == {tx.vote.slots[i] : i \in 1 .. Len(tx.vote.slots)}
  <2>1. T \in SUBSET Nat /\ \A x \in T : x <= MaxSlot
    BY <1>1
  <2>2. T # {}
    <3>1. 1 \in 1 .. Len(tx.vote.slots)
      BY <1>1
    <3> QED
      BY <3>1, ZenonT(40)
  <2> HIDE DEF T
  <2>3. Max(T) \in Nat
    BY <2>1, <2>2, GreatestNat, VoteStateAssumption, ZenonT(40)
  <2> QED
    BY <2>3 DEF T, newest_slot
<1> HIDE DEF last, ts
<1> DEFINE stamp == [slot |-> last, timestamp |-> ts]
           dated == [tx.work EXCEPT !.last_timestamp = stamp]
<1>3. ts # NoTimestamp => stamp \in [slot : Nat, timestamp : Nat]
  BY <1>1, <1>2
<1> HIDE DEF stamp
<1>4. /\ DOMAIN dated = DOMAIN DefaultState /\ dated.voters = tx.work.voters
      /\ dated.votes = tx.work.votes /\ dated.root = tx.work.root
      /\ dated.node = tx.work.node /\ dated.withdrawer = tx.work.withdrawer
      /\ dated.commission = tx.work.commission
      /\ dated.prior_voters = tx.work.prior_voters
      /\ dated.epoch_credits = tx.work.epoch_credits
      /\ dated.last_timestamp = stamp /\ dated.lamports = tx.work.lamports
  BY <1>1 DEF IsVoteState, DefaultState
<1>5. /\ tx' = NoTx /\ UNCHANGED <<slot, chain, slot_hashes>>
      /\ \/ account' = tx.work
         \/ account' = dated /\ ts # NoTimestamp
         \/ account' = account
  BY SMTT(60) DEF EndVote, ts, last, stamp
<1> HIDE DEF dated
<1>6. ts # NoTimestamp => IsVoteState(dated) /\ WellFormedStack(StackOf(dated))
  BY <1>1, <1>3, <1>4, ZenonT(40) DEF IsVoteState, StackOf
<1>7. /\ IsVoteState(account') /\ WellFormedStack(StackOf(account'))
      /\ VoterMap(account'.voters)
      /\ is_uninitialized(account') \/ known_voter(account'.voters, epoch)
  <2>1. CASE account' = tx.work
    BY <1>1, <2>1, SMTT(60)
  <2>2. CASE account' = dated /\ ts # NoTimestamp
    BY <1>1, <1>4, <1>6, <2>2, SMTT(60)
  <2>3. CASE account' = account
    <3>1. is_uninitialized(account) \/ known_voter(account.voters, epoch)
      BY SMTT(60) DEF IInv, VoterKnown
    <3> QED
      BY <1>1, <2>3, <3>1 DEF is_uninitialized
  <2> QED
    BY <1>5, <2>1, <2>2, <2>3
<1>8. TypeOK'
  BY <1>5, <1>7 DEF IInv, TypeOK, NoTx
<1>9. StackInv'
  BY <1>5, <1>7 DEF StackInv, NoTx
<1>10. VoterKnown'
  BY <1>5, <1>7 DEF VoterKnown, epoch, NoTx, Panicked
<1> QED
  BY <1>5, <1>7, <1>8, <1>9, <1>10 DEF IInv, TxShape

LEMMA NextIInv ==
    IInv /\ [Next]_vars => IInv'
<1> SUFFICES ASSUME IInv, [Next]_vars PROVE IInv'
  OBVIOUS
<1>1. ASSUME NEW s \in 1 .. MaxSlot, NewBank(s) PROVE IInv'
  BY <1>1, NewBankIInv
<1>2. CASE Administer
  <2>1. PICK signers \in SUBSET Pubkeys, key \in Pubkeys :
           \/ AuthorizeVoter(key, signers)
           \/ AuthorizeWithdrawer(key, signers)
           \/ UpdateValidatorIdentity(key, signers)
           \/ \E c \in Commissions : UpdateCommission(c, signers)
           \/ \E l \in 0 .. MaxLamports, to_self \in BOOLEAN : Withdraw(l, to_self, signers)
           \/ \E v, w \in Pubkeys, c \in Commissions, l \in 0 .. MaxLamports :
                 InitializeAccount(key, v, w, c, l, signers)
    BY <1>2, ZenonT(40) DEF Administer
  <2>2. CASE AuthorizeVoter(key, signers)
    BY <2>2, AuthorizeVoterIInv
  <2>3. CASE AuthorizeWithdrawer(key, signers) \/ UpdateValidatorIdentity(key, signers)
    BY <2>3, FieldsIInv
  <2>4. CASE \E c \in Commissions : UpdateCommission(c, signers)
    BY <2>4, FieldsIInv
  <2>5. ASSUME NEW l \in 0 .. MaxLamports, NEW to_self \in BOOLEAN,
               Withdraw(l, to_self, signers)
        PROVE  IInv'
    BY <2>5, FieldsIInv, DeinitializeIInv
  <2>6. CASE \E v, w \in Pubkeys, c \in Commissions, l \in 0 .. MaxLamports :
                 InitializeAccount(key, v, w, c, l, signers)
    BY <2>6, InitializeAccountIInv
  <2> QED
    BY <2>1, <2>2, <2>3, <2>4, <2>5, <2>6
<1>3. ASSUME NEW vote \in Votes, NEW signers \in SUBSET Pubkeys, BeginVote(vote, signers)
      PROVE  IInv'
  BY <1>3, BeginVoteIInv
<1>4. CASE ProcessSlot
  BY <1>4, ProcessSlotIInv
<1>5. CASE EndVote
  BY <1>5, EndVoteIInv, SMTT(60)
<1>6. CASE UnknownVoterPanics
  BY <1>6, UnknownVoterPanicsIInv
<1>7. CASE UNCHANGED vars
  BY <1>7 DEF vars, IInv, TypeOK, StackInv, VoterKnown, TxShape, epoch
<1> QED
  BY <1>1, <1>2, <1>3, <1>4, <1>5, <1>6, <1>7 DEF Next

LEMMA Inductive ==
    Spec => []IInv
<1> QED
  BY InitIInv, NextIInv, PTL DEF Spec

\* The type of the account, of the working copy and of the sysvars (the structs
\* of vote_state/mod.rs) holds in every reachable state.
THEOREM TypeCorrect ==
    Spec => []TypeOK
<1>1. IInv => TypeOK
  BY DEF IInv
<1> QED
  BY <1>1, Inductive, PTL

\* process_slot, pop_expired_votes and double_lockouts keep the vote stack well
\* formed, in the account and in the copy that a vote instruction is changing.
THEOREM StackSafe ==
    Spec => []StackInv
<1>1. IInv => StackInv
  BY DEF IInv
<1> QED
  BY <1>1, Inductive, PTL

\* The clock only moves forward and no change of voter, purge, vote or withdrawal
\* takes the voter of the current epoch from an account that has a state: the expect
\* calls on get_and_update_authorized_voter, which the model lets fail wherever the
\* voter is unknown, fail only on an account that a withdrawal to itself has left
\* with lamports and no state.
THEOREM VoterAlwaysKnown ==
    Spec => []VoterKnown
<1>1. IInv => VoterKnown
  BY DEF IInv
<1> QED
  BY <1>1, Inductive, PTL
=============================================================================
