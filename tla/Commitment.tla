----------------------------- MODULE Commitment -----------------------------
(***************************************************************************)
(* How deeply the cluster is committed to each block, as RPC reports it.   *)
(* Replay sends each bank it votes on to a service that aggregates the     *)
(* bank's vote accounts over its ancestors and replaces the cache.         *)
(***************************************************************************)
EXTENDS Lockouts, FiniteSets, FiniteSetsExt, Functions

CONSTANTS
    Parent,     \* the blocks, each with its parent; 0 is the start
    Stakes,     \* the stake of each vote account
    Landing     \* bound: the sets of accounts whose votes land in one block

VARIABLES
    accounts,       \* the vote accounts of each frozen bank of bank_forks
    root,           \* the root of bank_forks
    last_vote,      \* the slot replay voted on last
    switched,       \* history: replay has voted on another fork
    channel,        \* banks and roots on their way to the service
    working,        \* the one the service works on, or none
    cache           \* BlockCommitmentCache, with the bank it was computed from

vars == <<accounts, root, last_vote, switched, channel, working, cache>>

Blocks == DOMAIN Parent

Ancestors[slot \in Blocks \cup {0}] ==
    {slot} \cup IF slot = 0 THEN {} ELSE Ancestors[Parent[slot]]

VoteAccounts == DOMAIN Stakes
stake_of(voters) == FoldSet(LAMBDA v, sum : Stakes[v] + sum, 0, voters)
total_stake == stake_of(VoteAccounts)

\* VOTE_THRESHOLD_SIZE is 1/40.
over_threshold(stake) == 40 * stake > total_stake

EmptyStack == [votes |-> <<>>, root |-> NoSlot]
FirstBank == [slot |-> 0, accounts |-> [v \in VoteAccounts |-> EmptyStack]]
Nothing == [bank |-> FirstBank, root |-> NoSlot]

Init ==
    /\ accounts = [b \in {0} |-> FirstBank.accounts]
    /\ root = 0
    /\ last_vote = 0
    /\ switched = FALSE
    /\ channel = <<>>
    /\ working = Nothing
    /\ cache = [bank |-> FirstBank, root |-> 0, highest_confirmed_slot |-> 0,
                highest_confirmed_root |-> 0, levels |-> [s \in {} |-> {}]]

\* A block carries votes for its parent.
Freeze(slot, voters) ==
    /\ slot \notin DOMAIN accounts
    /\ Parent[slot] \in DOMAIN accounts
    /\ accounts' = [b \in DOMAIN accounts \cup {slot} |->
           IF b # slot THEN accounts[b]
           ELSE [v \in VoteAccounts |->
                    IF v \in voters THEN process_slot(accounts[Parent[slot]][v], Parent[slot])
                    ELSE accounts[Parent[slot]][v]]]
    /\ UNCHANGED <<root, last_vote, switched, channel, working, cache>>

kept(slot) == {b \in DOMAIN accounts : slot \in Ancestors[b]}

\* handle_votable_bank.  On another fork at least the lockout of the last vote has
\* run out.  The vote may bring a new root, which a full stack of votes stands on;
\* the bank goes to the service with the root that is then set.
Vote(slot, new_root) ==
    /\ slot \in DOMAIN accounts
    /\ slot > last_vote
    /\ last_vote \notin Ancestors[slot] => is_expired(NewLockout(last_vote), slot)
    /\ new_root \in {root} \cup
           {r \in Ancestors[slot] :
               r > root /\ Cardinality({s \in Ancestors[slot] : s > r}) >= MAX_LOCKOUT_HISTORY}
    /\ root' = new_root
    /\ accounts' = Restrict(accounts, kept(new_root))
    /\ last_vote' = slot
    /\ switched' = (switched \/ last_vote \notin Ancestors[slot])
    /\ channel' = Append(channel, [bank |-> [slot |-> slot, accounts |-> accounts[slot]],
                                   root |-> new_root])
    /\ UNCHANGED <<working, cache>>

\* run drains the channel and keeps the newest.
drained(messages) == messages[Len(messages)]

Receive ==
    /\ working = Nothing
    /\ channel # <<>>
    /\ working' = drained(channel)
    /\ channel' = <<>>
    /\ UNCHANGED <<accounts, root, last_vote, switched, cache>>

\* status_cache_ancestors, read when the service gets to the bank: roots may be
\* above it by then.
status_cache_ancestors(slot) == Ancestors[slot] \cup Ancestors[root]

\* Fault form: the votes start again from the first ancestor.
votes_start_first(stack, ancestors) == Min(ancestors)

\* Where the walk over the votes starts: at the first ancestor above the root, or
\* at the first one where there is no root or no ancestor is above it.
votes_start(stack, ancestors) ==
    LET above == {a \in ancestors : a > stack.root}
    IN  Min(IF above = {} THEN ancestors ELSE above)

\* The levels at which an account counts for an ancestor: rooted (one above the
\* confirmation counts), and the count of its first vote not below the ancestor.
levels_of(stack, ancestors, a) ==
    (IF a <= stack.root THEN {MAX_LOCKOUT_HISTORY + 1} ELSE {})
    \cup
    LET reaching == {i \in 1 .. Len(stack.votes) : stack.votes[i].slot >= a}
    IN  IF a >= votes_start(stack, ancestors) /\ reaching # {}
        THEN {stack.votes[Min(reaching)].confirmation_count} ELSE {}

\* aggregate_commitment: who counts for each ancestor, and at which level.
aggregate_commitment(stacks, ancestors) ==
    [a \in ancestors |-> UNION {{v} \X levels_of(stacks[v], ancestors, a) : v \in VoteAccounts}]

committed_stake(levels, slot) ==
    FoldSet(LAMBDA p, sum : Stakes[p[1]] + sum, 0, levels[slot])

get_highest_confirmed_root(stacks) ==
    Max({0} \cup {r \in Blocks :
            /\ \E v \in VoteAccounts : stacks[v].root = r
            /\ over_threshold(stake_of({v \in VoteAccounts : stacks[v].root >= r}))})

calculate_highest_confirmed_slot(levels, from, slot) ==
    Max({from} \cup {s \in (from .. slot - 1) \cap DOMAIN levels :
                        over_threshold(committed_stake(levels, s))})

\* Fault form: the new confirmed root replaces the old one.
merged_root_new(new, old) == new

merged_root(new, old) == Max({new, old})

\* update_commitment_cache.
Aggregate ==
    /\ working # Nothing
    /\ \E levels \in {aggregate_commitment(working.bank.accounts,
                                            status_cache_ancestors(working.bank.slot))} :
          cache' = [bank |-> working.bank, root |-> working.root, levels |-> levels,
             highest_confirmed_slot |->
                 calculate_highest_confirmed_slot(levels, working.root, working.bank.slot),
             highest_confirmed_root |->
                 merged_root(get_highest_confirmed_root(working.bank.accounts),
                             cache.highest_confirmed_root)]
    /\ working' = Nothing
    /\ UNCHANGED <<accounts, root, last_vote, switched, channel>>

Next ==
    \/ \E slot \in Blocks, voters \in Landing : Freeze(slot, voters)
    \/ \E slot \in Blocks, new_root \in Blocks \cup {0} : Vote(slot, new_root)
    \/ Receive \/ Aggregate

\* The service's thread keeps running: its loop ends only at exit.
Fairness == WF_vars(Receive \/ Aggregate)

Spec == Init /\ [][Next]_vars /\ Fairness

TypeOK ==
    /\ root \in DOMAIN accounts /\ DOMAIN accounts \subseteq Blocks \cup {0}
    /\ \A i \in 1 .. Len(channel) : channel[i].root < channel[i].bank.slot
    /\ cache.root <= cache.bank.slot

\* aggregate_commitment_for_vote_account carries one index from the root to the
\* votes: each account counts for an ancestor at one level, and exactly when it
\* has rooted the ancestor or voted on it or above.
CountedOnce ==
    \A a \in DOMAIN cache.levels, v \in VoteAccounts :
        LET stack == cache.bank.accounts[v]
            at    == {p \in cache.levels[a] : p[1] = v}
        IN  Cardinality(at) = IF a <= stack.root \/ a <= last_voted_slot(stack.votes) THEN 1 ELSE 0

\* The levels RPC serves are nested, as long as replay has stayed on one fork: what
\* it calls max is not above what it calls single, nor that above recent, although
\* each is computed in its own way and the first is kept from older banks.
LevelsNested ==
    switched \/
    /\ cache.highest_confirmed_root <= cache.highest_confirmed_slot
    /\ cache.root <= cache.highest_confirmed_slot
    /\ cache.highest_confirmed_slot <= cache.bank.slot
=============================================================================
