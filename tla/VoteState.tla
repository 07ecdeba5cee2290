----------------------------- MODULE VoteState ------------------------------
(***************************************************************************)
(* The vote program's account, programs/vote/src/vote_state/mod.rs and      *)
(* authorized_voters.rs, as the banks of one fork see it.  The clock and    *)
(* the slot hashes of the current bank are the sysvars the program reads;   *)
(* every instruction of the program is an action.  A vote instruction works *)
(* on a copy of the account (tx.work), one process_slot at a time, and      *)
(* stores the copy at its end; no other instruction runs in between.        *)
(* An instruction that returns an error changes nothing and is not a step.  *)
(* A transaction has one instruction: an account left without lamports is   *)
(* gone, with its data, before the next instruction runs.                   *)
(***************************************************************************)
EXTENDS Lockouts, FiniteSetsExt

CONSTANTS
    Pubkeys,                    \* keys of nodes, voters and withdrawers
    NoKey,                      \* Pubkey::default(), which signs nothing
    Commissions,                \* commission values, a subset of u8
    Timestamps,                 \* unix timestamps a vote may carry
    SLOTS_PER_EPOCH,
    LEADER_SCHEDULE_SLOT_OFFSET,
    MAX_EPOCH_CREDITS_HISTORY,  \* 64 in the code
    MAX_ITEMS,                  \* 32 in the code: prior voters remembered
    MAX_SLOT_HASHES,            \* 512 in the code (slot_hashes::MAX_ENTRIES)
    RENT_EXEMPT,                \* lamports that make the account rent exempt
    MaxSlot,                    \* bound: slots of the fork
    MaxVoteSlots,               \* bound: slots named in one vote
    MaxLamports                 \* bound: lamports the account is created with

ASSUME VoteStateAssumption ==
    /\ NoKey \notin Pubkeys
    /\ SLOTS_PER_EPOCH \in Nat \ {0}
    /\ LEADER_SCHEDULE_SLOT_OFFSET \in Nat
    /\ MAX_EPOCH_CREDITS_HISTORY \in Nat \ {0}
    /\ MAX_ITEMS \in Nat \ {0}
    /\ MAX_SLOT_HASHES \in Nat \ {0}
    /\ RENT_EXEMPT \in Nat \ {0}
    /\ MaxSlot \in Nat
    /\ MaxVoteSlots \in Nat
    /\ MaxLamports \in Nat
    /\ Timestamps \subseteq Nat
    /\ Commissions \subseteq 0 .. 255

VARIABLES
    slot,           \* clock.slot of the bank that runs the instructions
    chain,          \* slots of this fork that have a bank, slot included
    slot_hashes,    \* ancestors of the bank, newest first; the hash of a
                    \* slot's bank is identified with the slot
    account,        \* the stored VoteState, and the account's lamports
    tx              \* the vote instruction in progress, NoTx or Panicked

vars == <<slot, chain, slot_hashes, account, tx>>

NoTx == [active |-> FALSE]

\* An expect of the program has failed: the thread that ran it is gone.
Panicked == [active |-> FALSE, panicked |-> TRUE]

NoTimestamp == -1

epoch == slot \div SLOTS_PER_EPOCH
leader_schedule_epoch == (slot + LEADER_SCHEDULE_SLOT_OFFSET) \div SLOTS_PER_EPOCH

EmptyVoters == [e \in {} |-> NoKey]

DefaultState ==
    [node |-> NoKey, withdrawer |-> NoKey, commission |-> 0,
     votes |-> <<>>, root |-> NoSlot, voters |-> EmptyVoters,
     prior_voters |-> <<>>, epoch_credits |-> <<>>,
     last_timestamp |-> [slot |-> 0, timestamp |-> 0], lamports |-> 0]

is_uninitialized(a) == DOMAIN a.voters = {}
-----------------------------------------------------------------------------
(* AuthorizedVoters: a finite map from epochs to voters. *)

\* The voter of an epoch without an entry is that of the latest entry before
\* it; there is none when every entry is later.
known_voter(voters, e) == \E d \in DOMAIN voters : d <= e

get_authorized_voter(voters, e) == voters[Max({d \in DOMAIN voters : d <= e})]

\* Cache the voter of epoch e, then purge the entries of earlier epochs.
get_and_update_authorized_voter(voters, e) ==
    [d \in {e} \cup {d \in DOMAIN voters : d >= e} |->
        IF d = e THEN get_authorized_voter(voters, e) ELSE voters[d]]

\* Epoch of the last change of voter.
last_switch_epoch(buf) == IF buf = <<>> THEN 0 ELSE buf[Len(buf)].until

\* Fault forms of the insertion: it takes effect at once, it replaces the map.
insert_at_once(voters, target, key) ==
    [d \in DOMAIN voters \cup {target} |-> key]

insert_replacing(voters, target, key) == [d \in {target} |-> key]

\* AuthorizedVoters::insert
insert(voters, target, key) ==
    [d \in DOMAIN voters \cup {target} |-> IF d = target THEN key ELSE voters[d]]

\* CircBuf::append, keeping the newest MAX_ITEMS entries in order.
append_prior(buf, item) ==
    Append(IF Len(buf) = MAX_ITEMS THEN Tail(buf) ELSE buf, item)

\* The account after a new voter is set for target; voters has been updated
\* for the current epoch and holds no entry for target.
set_new_authorized_voter(a, key, target) ==
    LET voters == get_and_update_authorized_voter(a.voters, epoch)
        latest == voters[Max(DOMAIN voters)]
        left   == [key |-> latest, from |-> last_switch_epoch(a.prior_voters),
                   until |-> target]
    IN  [a EXCEPT !.voters = insert(voters, target, key),
                  !.prior_voters = IF latest = key THEN @
                                   ELSE append_prior(@, left)]
-----------------------------------------------------------------------------
(* Votes. *)

\* The positions of the slots that are newer than the last vote.
NewSlots(votes, slots) == {i \in 1 .. Len(slots) : slots[i] > last_voted_slot(votes)}

InSlotHashes(s) == \E j \in 1 .. Len(slot_hashes) : slot_hashes[j] = s

\* Fault forms: slots are not looked up; the end of the walk is not checked.
check_order_only(votes, vote) ==
    LET new == NewSlots(votes, vote.slots)
    IN  /\ new # {}
        /\ \A i, j \in new : i < j => vote.slots[i] < vote.slots[j]
        /\ vote.hash = vote.slots[Max(new)]

check_without_end(votes, vote) ==
    LET new == NewSlots(votes, vote.slots)
    IN  /\ new # {}
        /\ \A i \in new : InSlotHashes(vote.slots[i])
        /\ \A i, j \in new : i < j => vote.slots[i] < vote.slots[j]
        /\ vote.hash = vote.slots[Max(new)]

\* The walk over the vote's slots and, from the oldest, over the slot hashes:
\* slots already voted on are skipped, the others must be found in order.  The
\* walk ends when it has consumed the newest slot hash, so that a slot left in
\* the vote after that one fails, even one already voted on.
check_slots_are_valid(votes, vote) ==
    LET new  == NewSlots(votes, vote.slots)
        last == vote.slots[Max(new)]
    IN  /\ new # {}
        /\ \A i \in new : InSlotHashes(vote.slots[i])
        /\ \A i, j \in new : i < j => vote.slots[i] < vote.slots[j]
        /\ last = slot_hashes[1] => Max(new) = Len(vote.slots)
        /\ vote.hash = last

enter_epoch(credits, last) ==
    Append(credits, [epoch |-> epoch, credits |-> last.credits,
                     prev_credits |-> last.credits])

\* One more credit for this epoch; a new epoch starts a new entry.
increment_credits(credits) ==
    LET last    == credits[Len(credits)]
        entered == IF last.credits # last.prev_credits
                   THEN enter_epoch(credits, last)
                   ELSE [credits EXCEPT ![Len(credits)].epoch = epoch]
        current == IF credits = <<>>
                   THEN <<[epoch |-> epoch, credits |-> 0, prev_credits |-> 0]>>
                   ELSE IF last.epoch = epoch THEN credits
                   ELSE IF Len(entered) > MAX_EPOCH_CREDITS_HISTORY THEN Tail(entered)
                   ELSE entered
    IN  [current EXCEPT ![Len(current)].credits = @ + 1]

\* Fault form: the entry of the epoch is opened before a credit is earned.
record_slot_opens_entry(a, s) ==
    LET st == process_slot([votes |-> a.votes, root |-> a.root], s)
        opened == IF a.epoch_credits = <<>>
                  THEN <<[epoch |-> epoch, credits |-> 0, prev_credits |-> 0]>>
                  ELSE a.epoch_credits
    IN  [a EXCEPT !.votes = st.votes,
                  !.root = st.root,
                  !.epoch_credits = IF pops_root(a.votes, s)
                                    THEN increment_credits(opened) ELSE opened]

record_slot(a, s) ==
    LET st == process_slot([votes |-> a.votes, root |-> a.root], s)
    IN  [a EXCEPT !.votes = st.votes,
                  !.root = st.root,
                  !.epoch_credits = IF pops_root(a.votes, s)
                                    THEN increment_credits(@) ELSE @]

\* Fault form: the time is taken for the slot of the clock.
newest_slot_of_clock(slots) == slot

newest_slot(slots) == Max({slots[i] : i \in 1 .. Len(slots)})

\* process_timestamp accepts ts for slot s.
timestamp_ok(last, s, ts) ==
    /\ s >= last.slot
    /\ ts >= last.timestamp
    /\ s = last.slot /\ last.slot # 0 => ts = last.timestamp
-----------------------------------------------------------------------------
(* The instructions.  A key signs when it is in signers. *)

\* Fault form: the slot hashes are not truncated.
slot_hashes_unbounded(hashes, s) == <<s>> \o hashes

\* SlotHashes::add of a bank newer than all others.
slot_hashes_add(hashes, s) ==
    SubSeq(<<s>> \o hashes, 1, Min({Len(hashes) + 1, MAX_SLOT_HASHES}))

Init ==
    /\ slot = 0
    /\ chain = {0}
    /\ slot_hashes = <<>>
    /\ account = DefaultState
    /\ tx = NoTx

\* Bank::new_from_parent: a child bank at a later slot, some slots skipped.
NewBank(s) ==
    /\ tx = NoTx
    /\ s > slot
    /\ slot' = s
    /\ chain' = chain \cup {s}
    /\ slot_hashes' = slot_hashes_add(slot_hashes, slot)
    /\ UNCHANGED <<account, tx>>

\* An account that is new, or one without a state that has kept its lamports.
InitializeAccount(node, voter, withdrawer, commission, lamports, signers) ==
    /\ tx = NoTx
    /\ is_uninitialized(account)
    /\ lamports >= Max({RENT_EXEMPT, account.lamports})
    /\ node \in signers
    /\ account' = [DefaultState EXCEPT
                      !.node = node, !.withdrawer = withdrawer,
                      !.commission = commission, !.lamports = lamports,
                      !.voters = [e \in {epoch} |-> voter]]
    /\ UNCHANGED <<slot, chain, slot_hashes, tx>>

\* The voter of the epoch is looked up before the signers are.
AuthorizeVoter(key, signers) ==
    LET voters == get_and_update_authorized_voter(account.voters, epoch)
        target == leader_schedule_epoch + 1
    IN  /\ tx = NoTx
        /\ known_voter(account.voters, epoch)
        /\ voters[epoch] \in signers
        /\ target \notin DOMAIN voters      \* else TooSoonToReauthorize
        /\ account' = set_new_authorized_voter(account, key, target)
        /\ UNCHANGED <<slot, chain, slot_hashes, tx>>

\* The expect on get_and_update_authorized_voter, in an authorization of a voter or
\* in a vote: a vote on an account without a state has returned before it.  (The
\* zeroed data of an account never initialized reads as an old version whose voter
\* is the default key: an error, no panic.  Such an account counts as none here.)
UnknownVoterPanics ==
    /\ tx = NoTx
    /\ account.lamports > 0
    /\ ~ known_voter(account.voters, epoch)
    /\ tx' = Panicked
    /\ UNCHANGED <<slot, chain, slot_hashes, account>>

AuthorizeWithdrawer(key, signers) ==
    /\ tx = NoTx
    /\ account.withdrawer \in signers
    /\ account' = [account EXCEPT !.withdrawer = key]
    /\ UNCHANGED <<slot, chain, slot_hashes, tx>>

\* Fault form: the account is set up anew for the new identity.
UpdateIdentityAnew(node, signers) ==
    /\ tx = NoTx
    /\ account.withdrawer \in signers
    /\ node \in signers
    /\ account' = [DefaultState EXCEPT
                      !.node = node, !.withdrawer = account.withdrawer,
                      !.commission = account.commission, !.lamports = account.lamports,
                      !.voters = account.voters]
    /\ UNCHANGED <<slot, chain, slot_hashes, tx>>

UpdateValidatorIdentity(node, signers) ==
    /\ tx = NoTx
    /\ account.withdrawer \in signers
    /\ node \in signers
    /\ account' = [account EXCEPT !.node = node]
    /\ UNCHANGED <<slot, chain, slot_hashes, tx>>

UpdateCommission(commission, signers) ==
    /\ tx = NoTx
    /\ account.withdrawer \in signers
    /\ account' = [account EXCEPT !.commission = commission]
    /\ UNCHANGED <<slot, chain, slot_hashes, tx>>

\* Taking the whole balance deinitializes the account, and empties it unless the
\* lamports go to the account itself.
Withdraw(lamports, to_self, signers) ==
    /\ tx = NoTx
    /\ account.withdrawer \in signers
    /\ lamports <= account.lamports
    /\ account' = [(IF lamports = account.lamports THEN DefaultState ELSE account) EXCEPT
                      !.lamports = account.lamports - (IF to_self THEN 0 ELSE lamports)]
    /\ UNCHANGED <<slot, chain, slot_hashes, tx>>

\* process_vote up to its loop over the vote's slots.  Whether the program's
\* filter on the voter and the last bank hash lets the vote through depends on
\* hash characters: the filter rejects or not, and a rejected vote is no step.
BeginVote(vote, signers) ==
    LET work == [account EXCEPT !.voters =
                    get_and_update_authorized_voter(@, epoch)]
    IN  /\ tx = NoTx
        /\ ~ is_uninitialized(account)
        /\ known_voter(account.voters, epoch)
        /\ slot_hashes # <<>>               \* the filter reads slot_hashes[0]
        /\ work.voters[epoch] \in signers
        /\ vote.slots # <<>>                \* else EmptySlots
        /\ check_slots_are_valid(account.votes, vote)
        /\ tx' = [active |-> TRUE, vote |-> vote, work |-> work, next |-> 1]
        /\ UNCHANGED <<slot, chain, slot_hashes, account>>

ProcessSlot ==
    /\ tx.active
    /\ tx.next <= Len(tx.vote.slots)
    /\ tx' = [tx EXCEPT !.work = record_slot(@, tx.vote.slots[tx.next]),
                        !.next = @ + 1]
    /\ UNCHANGED <<slot, chain, slot_hashes, account>>

\* The timestamp, then the store; a timestamp too old drops the whole vote.
EndVote ==
    LET ts   == tx.vote.timestamp
        last == newest_slot(tx.vote.slots)
    IN  /\ tx.active
        /\ tx.next > Len(tx.vote.slots)
        /\ \/ /\ ts = NoTimestamp
              /\ account' = tx.work
           \/ /\ ts # NoTimestamp
              /\ timestamp_ok(account.last_timestamp, last, ts)
              /\ account' = [tx.work EXCEPT
                                !.last_timestamp = [slot |-> last, timestamp |-> ts]]
           \/ /\ ts # NoTimestamp
              /\ ~ timestamp_ok(account.last_timestamp, last, ts)
              /\ account' = account
        /\ tx' = NoTx
        /\ UNCHANGED <<slot, chain, slot_hashes>>

VoteSlots == UNION {[1 .. n -> 0 .. MaxSlot] : n \in 1 .. MaxVoteSlots}

Votes ==
    [slots : VoteSlots, hash : 0 .. MaxSlot, timestamp : Timestamps \cup {NoTimestamp}]

Administer ==
    /\ tx = NoTx
    /\ \E signers \in SUBSET Pubkeys, key \in Pubkeys :
          \/ AuthorizeVoter(key, signers)
          \/ AuthorizeWithdrawer(key, signers)
          \/ UpdateValidatorIdentity(key, signers)
          \/ \E c \in Commissions : UpdateCommission(c, signers)
          \/ \E l \in 0 .. MaxLamports, to_self \in BOOLEAN : Withdraw(l, to_self, signers)
          \/ \E v, w \in Pubkeys, c \in Commissions, l \in 0 .. MaxLamports :
                InitializeAccount(key, v, w, c, l, signers)

Next ==
    \/ \E s \in 1 .. MaxSlot : NewBank(s)
    \/ Administer
    \/ UnknownVoterPanics
    \/ /\ tx = NoTx
       /\ \E vote \in Votes, signers \in SUBSET Pubkeys : BeginVote(vote, signers)
    \/ ProcessSlot
    \/ EndVote

Spec == Init /\ [][Next]_vars
-----------------------------------------------------------------------------
(* Properties. *)

Keys == Pubkeys \cup {NoKey}

CreditsEntry == [epoch : Nat, credits : Nat, prev_credits : Nat]

IsVoteState(a) ==
    /\ DOMAIN a = DOMAIN DefaultState
    /\ a.node \in Keys
    /\ a.withdrawer \in Keys
    /\ a.commission \in 0 .. 255
    /\ a.votes \in Seq(Lockout)
    /\ a.root \in SlotOption
    /\ DOMAIN a.voters \subseteq Nat
    /\ \A e \in DOMAIN a.voters : a.voters[e] \in Pubkeys
    /\ a.prior_voters \in Seq([key : Pubkeys, from : Nat, until : Nat])
    /\ a.epoch_credits \in Seq(CreditsEntry)
    /\ a.last_timestamp \in [slot : Nat, timestamp : Nat]
    /\ a.lamports \in Nat

\* The shape of the bank's sysvars, of the stored account and of the working
\* copy of a vote instruction (struct VoteState, mod.rs).
TypeOK ==
    /\ slot \in Nat
    /\ chain \subseteq Nat
    /\ slot_hashes \in Seq(Nat)
    /\ Len(slot_hashes) <= MAX_SLOT_HASHES
    /\ IsVoteState(account)
    /\ tx.active \in BOOLEAN
    /\ tx.active => /\ IsVoteState(tx.work)
                    /\ tx.next \in 1 .. Len(tx.vote.slots) + 1
                    /\ tx.vote.slots \in Seq(Nat)
                    /\ tx.vote.timestamp \in Nat \cup {NoTimestamp}

StackOf(a) == [votes |-> a.votes, root |-> a.root]

\* The vote stack of the account, and of the copy a vote instruction is
\* changing, stays ordered by slot above its root, no deeper than
\* MAX_LOCKOUT_HISTORY, and every vote is locked for longer than the votes
\* above it (process_slot, pop_expired_votes and double_lockouts together).
StackInv ==
    /\ WellFormedStack(StackOf(account))
    /\ tx.active => WellFormedStack(StackOf(tx.work))

OnFork(a) ==
    /\ a.root # NoSlot => a.root \in chain
    /\ \A i \in 1 .. Len(a.votes) : a.votes[i].slot \in chain \ {slot}
    /\ a.last_timestamp.slot = 0 \/ a.last_timestamp.slot <= last_voted_slot(a.votes)

\* Every vote in the stack, and the root, is for a bank of this fork: the slot
\* hashes check lets no other slot through, although the slot hashes forget
\* old banks and a vote may repeat slots already voted on.  No timestamp is
\* recorded for a slot newer than the last vote.
RecordedOnFork == OnFork(account)

Credits(a) ==
    IF a.epoch_credits = <<>> THEN 0 ELSE a.epoch_credits[Len(a.epoch_credits)].credits

\* increment_credits: the entries are in epoch order, each starts from the
\* credits the one before ends with, and each epoch entered has earned some (so
\* the branch that moves an entry without credits to the new epoch is dead).
CreditsChained(ec) ==
    /\ Len(ec) <= MAX_EPOCH_CREDITS_HISTORY
    /\ \A k \in 1 .. Len(ec) : ec[k].credits > ec[k].prev_credits
    /\ \A k \in 1 .. Len(ec) - 1 : /\ ec[k].epoch < ec[k + 1].epoch
                                   /\ ec[k].credits = ec[k + 1].prev_credits

\* No bank is credited twice: process_slot pays one credit for each vote that
\* becomes the root, so the credits never exceed the banks up to the root.
CreditsBacked(a) == Credits(a) <= Cardinality({s \in chain : s <= a.root})

\* The assertion of set_new_authorized_voter: an epoch that is not yet in the
\* map and is the target of a change comes after every epoch in the map.
TargetIsLatest ==
    LET voters == get_and_update_authorized_voter(account.voters, epoch)
        target == leader_schedule_epoch + 1
    IN  ~ is_uninitialized(account) /\ target \notin DOMAIN voters
            => \A e \in DOMAIN voters : e < target

\* prior_voters: the ranges of the voters that were replaced follow each other
\* without a gap or an overlap, up to the epoch of the last change.
PriorVotersAdjacent(pv) ==
    /\ \A k \in 1 .. Len(pv) : pv[k].from < pv[k].until
    /\ \A k \in 1 .. Len(pv) - 1 : pv[k].until = pv[k + 1].from

\* What the account keeps by epoch hangs together: credits go on from one epoch
\* to the next and no bank is credited twice (increment_credits); a change of
\* voter comes after all known ones, as set_new_authorized_voter asserts, and the
\* ranges of prior voters follow each other without a gap.
EpochRecordsChained ==
    /\ CreditsChained(account.epoch_credits)
    /\ CreditsBacked(account)
    /\ TargetIsLatest
    /\ PriorVotersAdjacent(account.prior_voters)

\* The clock only moves forward and no purge empties the map, so the voter of the
\* current epoch is known on every account that has a state: the expect calls on
\* get_and_update_authorized_voter can fail only on an account that a withdrawal
\* to itself has left with lamports and no state.
VoterKnown ==
    /\ is_uninitialized(account) \/ known_voter(account.voters, epoch)
    /\ tx = Panicked => is_uninitialized(account)

SameAccount == ~ is_uninitialized(account) /\ ~ is_uninitialized(account')

VoterFixedStep ==
    SameAccount =>
        \A e \in epoch' .. leader_schedule_epoch :
            get_authorized_voter(account'.voters, e) = get_authorized_voter(account.voters, e)

\* The voter of an epoch whose leader schedule is already known never changes:
\* Authorize takes effect after leader_schedule_epoch, and caching and purging
\* entries loses nothing (set_new_authorized_voter).
VoterFixed == [][VoterFixedStep]_vars

AccountMonotoneStep ==
    SameAccount =>
        /\ account'.root >= account.root
        /\ last_voted_slot(account'.votes) >= last_voted_slot(account.votes)
        /\ Credits(account') >= Credits(account)

\* Over the life of an account the root, the last vote and the credits never go
\* back (process_slot).
AccountMonotone == [][AccountMonotoneStep]_vars
-----------------------------------------------------------------------------
(* What the documents say of the program, and it does not do. *)

\* docs/src/implemented-proposals/tower-bft.md, Algorithm: a vote that has
\* expired when a later one is applied is popped with all the votes above it.
ExpiredVotesPopped ==
    [][\A i \in 1 .. Len(account.votes) :
          is_expired(account.votes[i], last_voted_slot(account'.votes)) =>
              \A j \in 1 .. Len(account'.votes) :
                  account'.votes[j].slot # account.votes[i].slot]_vars
=============================================================================
