------------------------------- MODULE Stakes -------------------------------
(***************************************************************************)
(* Stake accounts over epochs: the stake program's instructions, the cache *)
(* of delegations and of the stake of every vote account that a bank keeps *)
(* in step with them (runtime/src/stakes.rs), and what the first bank of   *)
(* an epoch does: it closes the stake history's entry of the last epoch,   *)
(* refreshes the cache and pays the rewards of the credits the voters have *)
(* earned (runtime/src/bank.rs).                                           *)
(*                                                                         *)
(* A transaction is one instruction; the accounts it names are stored into *)
(* the cache when it succeeds.  Every epoch has a bank.                    *)
(***************************************************************************)
EXTENDS StakeState, Sequences, Functions, TLC

CONSTANTS
    Accounts,           \* addresses of stake accounts
    InitialReserve,     \* the reserve of an account of StakeState's size
    Voters,             \* vote accounts
    Commission,         \* the percentage each of them takes
    ValidatorRewards,   \* lamports an epoch pays at most
    Scenarios           \* what a behaviour starts from and may do: its accounts
                        \* and wallet, and the bounds on its inputs (accounts
                        \* named and the rent each must hold for its size,
                        \* deposits and amounts, withdrawals to the account itself,
                        \* keys, lockups, voters chosen, that earn or that close,
                        \* epochs and credits)

VARIABLES
    accounts,           \* the stake accounts
    wallet,             \* lamports of other accounts
    vote_lamports,      \* lamports paid to each voter
    epoch_credits,      \* per voter, <<[epoch, credits, prev_credits], ...>>
    epoch,              \* of the current bank
    history,            \* its stake history
    vote_accounts,      \* Stakes.vote_accounts: stake of the voters cached
    stake_delegations,  \* Stakes.stake_delegations
    scenario,           \* the one of Scenarios taken
    signed,             \* history: custodians that signed the last transaction
    redeemed            \* history: the last credit of each voter that the stake
                        \* of each account was rewarded for

vars == <<accounts, wallet, vote_lamports, epoch_credits, epoch, history,
          vote_accounts, stake_delegations, scenario, signed, redeemed>>

SumOver(S, Op(_)) == FoldSet(LAMBDA x, n : Op(x) + n, 0, S)

(***************************************************************************)
(* The cache.                                                              *)
(***************************************************************************)

\* Stakes::calculate_stake.
calculate_stake(delegations, voter, e, h) ==
    SumOver({a \in DOMAIN delegations : delegations[a].voter = voter},
            LAMBDA a : effective_stake(delegations[a], e, h))

\* The stake an account counts for, by voter; a removed account counts nothing.
account_stake(account, e, h) ==
    IF ~IsStake(account) THEN <<>>
    ELSE account.state.delegation.voter :>
            (IF account.lamports # 0
             THEN effective_stake(account.state.delegation, e, h) ELSE 0)

\* Fault form: the stake of the last version is not taken off.
adjusted_up(voters, old, new) ==
    [v \in DOMAIN voters |->
        voters[v] + (IF old # new /\ v \in DOMAIN new THEN new[v] ELSE 0)]

\* The adjustment of the cached stakes from an old to a new version.
adjusted(voters, old, new) ==
    [v \in DOMAIN voters |->
        voters[v] - (IF v \in DOMAIN old THEN old[v] ELSE 0)
                  + (IF v \in DOMAIN new THEN new[v] ELSE 0)]

\* Stakes::store of a stake account, into [voters, delegations].
store(cache, a, account, e, h) ==
    LET old == IF a \in DOMAIN cache.delegations
               THEN cache.delegations[a].voter :> effective_stake(cache.delegations[a], e, h)
               ELSE <<>>
    IN  [voters |-> adjusted(cache.voters, old, account_stake(account, e, h)),
         delegations |->
            IF account.lamports = 0
            THEN [x \in DOMAIN cache.delegations \ {a} |-> cache.delegations[x]]
            ELSE IF IsStake(account)
            THEN (a :> account.state.delegation) @@ cache.delegations
            ELSE cache.delegations]

\* Bank::update_cached_accounts: the accounts of a transaction, one by one.
stored(cache, new, touched, e, h) ==
    FoldSet(LAMBDA a, c : store(c, a, new[a], e, h), cache, touched)

(***************************************************************************)
(* Transactions.                                                           *)
(***************************************************************************)

Custodians == {lockup.custodian : lockup \in scenario.lockups}

credits(v) ==
    IF epoch_credits[v] = <<>> THEN 0 ELSE epoch_credits[v][Len(epoch_credits[v])].credits

\* What a transaction that writes these accounts leaves.
Commit(new, touched, signers) ==
    LET cache == stored([voters |-> vote_accounts, delegations |-> stake_delegations],
                        new, touched, epoch, history)
    IN  /\ accounts' = new
        /\ vote_accounts' = cache.voters
        /\ stake_delegations' = cache.delegations
        /\ signed' = signers \cap Custodians
        /\ UNCHANGED <<vote_lamports, epoch_credits, epoch, history, scenario>>

\* Lamports are transferred to a stake account.
Fund(a, lamports) ==
    /\ lamports <= wallet
    /\ wallet' = wallet - lamports
    /\ Commit([accounts EXCEPT ![a].lamports = @ + lamports], {a}, {})
    /\ UNCHANGED redeemed

Initialize(a, key, lockup) ==
    /\ accounts[a].state = Uninitialized
    /\ scenario.reserve[a] = InitialReserve
    /\ scenario.reserve[a] < accounts[a].lamports
    /\ Commit([accounts EXCEPT ![a].state = Initialized(
                  [rent_exempt_reserve |-> scenario.reserve[a], staker |-> key,
                   withdrawer |-> key, lockup |-> lockup])], {a}, {})
    /\ UNCHANGED <<wallet, redeemed>>

AuthorizeStaker(a, key, signers) ==
    /\ HasMeta(accounts[a])
    /\ {accounts[a].state.meta.staker, accounts[a].state.meta.withdrawer} \cap signers # {}
    /\ Commit([accounts EXCEPT ![a].state.meta.staker = key], {a}, signers)
    /\ UNCHANGED <<wallet, redeemed>>

AuthorizeWithdrawer(a, key, signers) ==
    /\ HasMeta(accounts[a])
    /\ accounts[a].state.meta.withdrawer \in signers
    /\ Commit([accounts EXCEPT ![a].state.meta.withdrawer = key], {a}, signers)
    /\ UNCHANGED <<wallet, redeemed>>

SetLockup(a, lockup, signers) ==
    /\ HasMeta(accounts[a])
    /\ accounts[a].state.meta.lockup.custodian \in signers
    /\ Commit([accounts EXCEPT ![a].state.meta.lockup = lockup], {a}, signers)
    /\ UNCHANGED <<wallet, redeemed>>

Delegate(a, v, signers) ==
    /\ v \in DOMAIN vote_accounts
    /\ can_delegate(accounts[a], epoch, history, signers)
    /\ Commit([accounts EXCEPT ![a] = delegated(@, v, credits(v), epoch)], {a}, signers)
    /\ UNCHANGED <<wallet, redeemed>>

Deactivate(a, signers) ==
    /\ IsStake(accounts[a])
    /\ accounts[a].state.meta.staker \in signers
    /\ accounts[a].state.delegation.deactivation_epoch = EPOCH_MAX
    /\ Commit([accounts EXCEPT ![a].state.delegation.deactivation_epoch = epoch], {a}, signers)
    /\ UNCHANGED <<wallet, redeemed>>

Split(a, b, lamports, signers) ==
    /\ a # b
    /\ can_split(accounts[a], accounts[b], a \in signers, lamports, scenario.reserve[b], signers)
    /\ Commit([accounts EXCEPT ![a] = split_source(@, lamports),
                               ![b] = split_target(accounts[a], @, lamports, scenario.reserve[b])],
              {a, b}, signers)
    /\ redeemed' = [redeemed EXCEPT ![b] = redeemed[a]]
    /\ UNCHANGED wallet

Merge(a, source, signers) ==
    /\ a # source
    /\ can_merge(accounts[a], accounts[source], epoch, history, signers)
    /\ Commit([accounts EXCEPT ![a] = merged(@, accounts[source], epoch, history),
                               ![source] = [lamports |-> 0, state |-> Uninitialized]],
              {a, source}, signers)
    /\ redeemed' = [redeemed EXCEPT ![a] =
                        IF merge_kind(accounts[a], epoch, history) = "Inactive" THEN @
                        ELSE [v \in Voters |-> Max({@[v], redeemed[source][v]})],
                                    ![source] = [v \in Voters |-> 0]]
    /\ UNCHANGED wallet

\* The lamports go to another account or back to the account itself, which a
\* full withdrawal deinitializes all the same.
Withdraw(a, lamports, to_self, signers) ==
    LET returned == IF to_self THEN lamports ELSE 0
    IN  /\ can_withdraw(accounts[a], a \in signers, lamports, epoch, history, signers)
        /\ Commit([accounts EXCEPT ![a] = [debited(@, lamports) EXCEPT !.lamports = @ + returned]],
                  {a}, signers)
        /\ wallet' = wallet + lamports - returned
        /\ UNCHANGED redeemed

(***************************************************************************)
(* Vote accounts: created, closed, and earning credits.                    *)
(***************************************************************************)

\* A vote account is stored for the first time.
OpenVote(v) ==
    /\ v \notin DOMAIN vote_accounts
    /\ vote_accounts' = (v :> calculate_stake(stake_delegations, v, epoch, history)) @@ vote_accounts
    /\ signed' = {}
    /\ UNCHANGED <<accounts, wallet, vote_lamports, epoch_credits, epoch, history,
                   stake_delegations, scenario, redeemed>>

\* All of its lamports are withdrawn; its credits are gone with it.
CloseVote(v) ==
    /\ v \in DOMAIN vote_accounts \cap scenario.closers
    /\ vote_accounts' = [x \in DOMAIN vote_accounts \ {v} |-> vote_accounts[x]]
    /\ wallet' = wallet + vote_lamports[v]
    /\ vote_lamports' = [vote_lamports EXCEPT ![v] = 0]
    /\ epoch_credits' = [epoch_credits EXCEPT ![v] = <<>>]
    /\ redeemed' = [a \in Accounts |-> [redeemed[a] EXCEPT ![v] = 0]]
    /\ signed' = {}
    /\ UNCHANGED <<accounts, epoch, history, stake_delegations, scenario>>

\* VoteState::increment_credits.
Earn(v) ==
    /\ v \in DOMAIN vote_accounts \cap scenario.earners
    /\ credits(v) < scenario.max_credits
    /\ epoch_credits' = [epoch_credits EXCEPT ![v] =
          IF @ # <<>> /\ @[Len(@)].epoch = epoch
          THEN [@ EXCEPT ![Len(@)].credits = credits(v) + 1]
          ELSE Append(@, [epoch |-> epoch, credits |-> credits(v) + 1,
                          prev_credits |-> credits(v)])]
    /\ signed' = {}
    /\ UNCHANGED <<accounts, wallet, vote_lamports, epoch, history, vote_accounts,
                   stake_delegations, scenario, redeemed>>

(***************************************************************************)
(* The first bank of an epoch.                                             *)
(***************************************************************************)

\* Stake::calculate_points_and_credits.
calculate_points_and_credits(state, v, h) ==
    LET ec == epoch_credits[v]
        observed == state.credits_observed
        seen(i) == Max({observed} \cup {ec[j].credits : j \in 1 .. i})
        earned(i) == IF observed < ec[i].prev_credits THEN ec[i].credits - ec[i].prev_credits
                     ELSE IF observed < ec[i].credits THEN ec[i].credits - seen(i - 1)
                     ELSE 0
    IN  IF credits(v) <= observed THEN [points |-> 0, credits |-> observed]
        ELSE [points |-> SumOver(DOMAIN ec,
                 LAMBDA i : effective_stake(state.delegation, ec[i].epoch, h) * earned(i)),
              credits |-> seen(Len(ec))]

\* Stake::calculate_rewards and VoteState::commission_split; <<>> for no payout.
calculate_rewards(state, v, points, h) ==
    LET p == calculate_points_and_credits(state, v, h)
        rewards == (p.points * ValidatorRewards) \div points
        voter == (rewards * Commission[v]) \div 100
        staker == (rewards * (100 - Commission[v])) \div 100
        is_split == Commission[v] \notin {0, 100}
    IN  IF ValidatorRewards = 0 THEN [staker |-> 0, voter |-> 0, credits |-> p.credits]
        ELSE IF rewards = 0 \/ (is_split /\ 0 \in {voter, staker}) THEN <<>>
        ELSE [staker |-> staker, voter |-> voter, credits |-> p.credits]

\* Bank::stake_delegation_accounts: the delegations whose two accounts exist.
delegation_accounts ==
    {a \in DOMAIN stake_delegations :
        /\ accounts[a].lamports # 0
        /\ IsStake(accounts[a])
        /\ stake_delegations[a].voter \in DOMAIN vote_accounts}

\* Bank::pay_validator_rewards: what each account that is paid redeems.
payouts(h) ==
    LET voter(a) == stake_delegations[a].voter
        points == SumOver(delegation_accounts, LAMBDA a :
                     calculate_points_and_credits(accounts[a].state, voter(a), h).points)
        payout == [a \in delegation_accounts |->
                     calculate_rewards(accounts[a].state, voter(a), points, h)]
    IN  IF points = 0 THEN <<>>
        ELSE Restrict(payout, {a \in delegation_accounts : payout[a] # <<>>})

\* Stake::redeem_rewards.
rewarded(account, payout) ==
    [account EXCEPT !.lamports = @ + payout.staker,
                    !.state.delegation.stake = @ + payout.staker,
                    !.state.credits_observed = payout.credits]

\* Stakes::clone_with_epoch: the entry of the epoch that ends.
closing_entry ==
    LET of(a) == stake_activating_and_deactivating(stake_delegations[a], epoch, history)
    IN  [effective |-> SumOver(DOMAIN stake_delegations, LAMBDA a : of(a).effective),
         activating |-> SumOver(DOMAIN stake_delegations, LAMBDA a : of(a).activating),
         deactivating |-> SumOver(DOMAIN stake_delegations, LAMBDA a : of(a).deactivating)]

\* The voters' stakes in the epoch that begins.
refreshed(h) ==
    [v \in DOMAIN vote_accounts |-> calculate_stake(stake_delegations, v, epoch + 1, h)]

NewEpoch ==
    /\ epoch < scenario.max_epoch
    /\ epoch' = epoch + 1
    /\ \E h \in {history_add(history, epoch, closing_entry)} : \E paid \in {payouts(h)} :
          LET new == [a \in Accounts |->
                        IF a \in DOMAIN paid THEN rewarded(accounts[a], paid[a]) ELSE accounts[a]]
              cache == stored([voters |-> refreshed(h), delegations |-> stake_delegations],
                              new, DOMAIN paid, epoch + 1, h)
              of(v) == {a \in DOMAIN paid : stake_delegations[a].voter = v}
          IN  /\ history' = h
              /\ accounts' = new
              /\ vote_lamports' = [v \in Voters |->
                    vote_lamports[v] + SumOver(of(v), LAMBDA a : paid[a].voter)]
              /\ vote_accounts' = cache.voters
              /\ stake_delegations' = cache.delegations
              /\ redeemed' = [a \in Accounts |-> [v \in Voters |->
                    IF a \in of(v) THEN paid[a].credits ELSE redeemed[a][v]]]
    /\ signed' = {}
    /\ UNCHANGED <<wallet, epoch_credits, scenario>>

Signers(a) == SUBSET scenario.keys \cup {{a}}

\* The genesis accounts, stored into an empty cache in epoch 0.
Init ==
    /\ scenario \in Scenarios
    /\ accounts = scenario.accounts
    /\ wallet = scenario.wallet
    /\ vote_lamports = [v \in Voters |-> 0]
    /\ epoch_credits = [v \in Voters |-> <<>>]
    /\ epoch = 0
    /\ history = <<>>
    /\ \E cache \in {stored([voters |-> [v \in Voters |-> 0], delegations |-> <<>>],
                            scenario.accounts, Accounts, 0, <<>>)} :
          /\ vote_accounts = cache.voters
          /\ stake_delegations = cache.delegations
    /\ signed = {}
    /\ redeemed = [a \in Accounts |-> [v \in Voters |-> 0]]

Next ==
    \/ \E a \in scenario.named :
          \/ \E lamports \in scenario.deposits : Fund(a, lamports)
          \/ \E key \in scenario.keys, lockup \in scenario.lockups : Initialize(a, key, lockup)
          \/ \E signers \in Signers(a) :
                \/ \E key \in scenario.keys : AuthorizeStaker(a, key, signers)
                \/ \E key \in scenario.keys : AuthorizeWithdrawer(a, key, signers)
                \/ \E lockup \in scenario.lockups : SetLockup(a, lockup, signers)
                \/ \E v \in scenario.voters : Delegate(a, v, signers)
                \/ Deactivate(a, signers)
                \/ \E b \in scenario.named, lamports \in scenario.amounts \cup {accounts[a].lamports} :
                      Split(a, b, lamports, signers)
                \/ \E b \in scenario.named : Merge(a, b, signers)
                \/ \E lamports \in scenario.amounts \cup {accounts[a].lamports}, to_self \in scenario.to_self :
                      Withdraw(a, lamports, to_self, signers)
    \/ \E v \in Voters : OpenVote(v) \/ CloseVote(v) \/ Earn(v)
    \/ NewEpoch

Spec == Init /\ [][Next]_vars

(***************************************************************************)
(* Properties.                                                             *)
(***************************************************************************)

\* Amounts are never negative (an unsigned subtraction would panic or wrap),
\* and only accounts with a balance have a state.
TypeOK ==
    /\ \A a \in Accounts :
          /\ accounts[a].lamports >= 0
          /\ accounts[a].lamports = 0 => accounts[a].state = Uninitialized
          /\ IsStake(accounts[a]) => accounts[a].state.delegation.stake >= 0
    /\ \A v \in DOMAIN vote_accounts : vote_accounts[v] >= 0
    /\ DOMAIN history = 0 .. epoch - 1

TotalLamports ==
    wallet + SumOver(Accounts, LAMBDA a : accounts[a].lamports)
           + SumOver(Voters, LAMBDA v : vote_lamports[v])

\* docs/src/cluster/stake-delegation-and-rewards.md:67 of the stake: "the staked
\* amount (subject to warmup and cooldown) for generating rewards, always less
\* than or equal to Account::lamports".
EffectiveWithinLamports ==
    \A a \in Accounts : IsStake(accounts[a]) =>
        effective_stake(accounts[a].state.delegation, epoch, history) <= accounts[a].lamports

EffectiveStake ==
    SumOver({a \in Accounts : IsStake(accounts[a])},
            LAMBDA a : effective_stake(accounts[a].state.delegation, epoch, history))

\* Stakes::store only ever adjusts by differences, and keeps the delegation of an
\* account that is deinitialized but not emptied.  Still the stake of every vote
\* account the cache holds is that of the stake accounts delegated to it: each of
\* them is cached as it is, and a delegation left behind counts for nothing, in
\* the voters' stakes as in the next entry of the stake history.
CacheExact ==
    /\ \A a \in Accounts : IsStake(accounts[a]) =>
          a \in DOMAIN stake_delegations /\ stake_delegations[a] = accounts[a].state.delegation
    /\ \A a \in DOMAIN stake_delegations : ~IsStake(accounts[a]) =>
          /\ accounts[a].lamports # 0
          /\ stake_activating_and_deactivating(stake_delegations[a], epoch, history)
                = [effective |-> 0, activating |-> 0, deactivating |-> 0]
    /\ \A v \in DOMAIN vote_accounts :
          vote_accounts[v] = SumOver(
              {a \in Accounts : IsStake(accounts[a]) /\ accounts[a].state.delegation.voter = v},
              LAMBDA a : effective_stake(accounts[a].state.delegation, epoch, history))

\* No instruction activates stake at once: splits and merges leave the
\* effective stake of the cluster as it is, but for the lamport an epoch's
\* share is rounded up to.
NoMagicActivation ==
    [][epoch' = epoch /\ accounts' # accounts => EffectiveStake' <= EffectiveStake + epoch]_accounts

LockedLamports(lockup) ==
    SumOver({a \in Accounts : HasMeta(accounts[a]) /\ accounts[a].state.meta.lockup = lockup},
            LAMBDA a : accounts[a].lamports)

\* Transactions move lamports and make none; an epoch adds at most the rewards
\* it has to give, as Bank::update_rewards asserts.  As long as a lockup is in
\* force, the lamports under it stay under it unless its custodian signs, through
\* splits and merges as well.
LamportsKept ==
    [][/\ \E made \in {TotalLamports' - TotalLamports} :
             made \in 0 .. (IF epoch' = epoch THEN 0 ELSE ValidatorRewards)
       /\ \A lockup \in scenario.lockups :
             lockup.epoch > epoch' /\ lockup.custodian \notin signed' =>
                LockedLamports(lockup)' >= LockedLamports(lockup)]_vars

\* Whatever is split, merged, withdrawn, redelegated and rewarded, stake that
\* is not being deactivated is covered by the account's lamports beyond its rent
\* exempt reserve; a credit is redeemed once, as no stake is in an account that
\* has yet to observe a credit the stake was rewarded for; and the cluster's
\* effective stake grows by a quarter an epoch at most, besides rewards and
\* rounding.
StakeBacked ==
    /\ TypeOK
    /\ \A a \in Accounts : IsStake(accounts[a]) =>
          LET s == accounts[a].state
          IN  /\ epoch < s.delegation.deactivation_epoch =>
                    s.delegation.stake + s.meta.rent_exempt_reserve <= accounts[a].lamports
              /\ redeemed[a][s.delegation.voter] <= s.credits_observed
    /\ \A e \in DOMAIN history : e + 1 \in DOMAIN history =>
          history[e + 1].effective <= history[e].effective
              + history[e].effective \div WARMUP_COOLDOWN_DIVISOR
              + ValidatorRewards + Cardinality(Accounts)
=============================================================================
