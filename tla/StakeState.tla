----------------------------- MODULE StakeState -----------------------------
(***************************************************************************)
(* The stake program's account states and what its instructions make of    *)
(* them (programs/stake/src/stake_state.rs).  An account is                *)
(* [lamports, state]; a state is Uninitialized, [kind |-> "Initialized",   *)
(* meta] or [kind |-> "Stake", meta, delegation, credits_observed].        *)
(*                                                                         *)
(* Every operation has an operator for the condition under which it        *)
(* succeeds and one for the account, or the pair of accounts, it leaves;   *)
(* module Stakes makes actions of them.                                    *)
(***************************************************************************)
EXTENDS Delegation

Uninitialized == [kind |-> "Uninitialized"]

Initialized(meta) == [kind |-> "Initialized", meta |-> meta]

Staked(meta, delegation, credits_observed) ==
    [kind |-> "Stake", meta |-> meta, delegation |-> delegation,
     credits_observed |-> credits_observed]

HasMeta(account) == account.state.kind \in {"Initialized", "Stake"}

IsStake(account) == account.state.kind = "Stake"

saturating_sub(a, b) == IF a > b THEN a - b ELSE 0

\* Lockup::is_in_force.  The time stamp of a lockup is left out: it and the
\* epoch are compared with the clock in the same way.
is_in_force(lockup, epoch, signers) ==
    /\ lockup.custodian \notin signers
    /\ lockup.epoch > epoch

\* Stake::new and Stake::redelegate.
delegated(account, voter, credits, epoch) ==
    LET meta == account.state.meta
    IN  [account EXCEPT !.state = Staked(meta,
            [voter |-> voter,
             stake |-> saturating_sub(account.lamports, meta.rent_exempt_reserve),
             activation_epoch |-> epoch,
             deactivation_epoch |-> EPOCH_MAX],
            credits)]

can_delegate(account, epoch, history, signers) ==
    /\ HasMeta(account)
    /\ account.state.meta.staker \in signers
    /\ IsStake(account) => effective_stake(account.state.delegation, epoch, history) = 0

\* Fault form: only what is effective in this epoch is kept back.
withdraw_reserve_effective(account, epoch, history) ==
    LET staked == IF IsStake(account)
                  THEN effective_stake(account.state.delegation, epoch, history) ELSE 0
    IN  [reserve |-> staked + (IF HasMeta(account)
                               THEN account.state.meta.rent_exempt_reserve ELSE 0),
         is_staked |-> staked # 0]

\* The lamports a withdrawal must leave, and whether some are at stake.
withdraw_reserve(account, epoch, history) ==
    IF IsStake(account)
    THEN LET d == account.state.delegation
             staked == IF epoch >= d.deactivation_epoch
                       THEN effective_stake(d, epoch, history)
                       ELSE d.stake
         IN  [reserve |-> staked + account.state.meta.rent_exempt_reserve,
              is_staked |-> staked # 0]
    ELSE IF HasMeta(account)
    THEN [reserve |-> account.state.meta.rent_exempt_reserve, is_staked |-> FALSE]
    ELSE [reserve |-> 0, is_staked |-> FALSE]

\* StakeAccount::withdraw, for a signer that holds the right authority.
can_withdraw(account, own_key_signed, lamports, epoch, history, signers) ==
    LET kept == withdraw_reserve(account, epoch, history)
    IN  /\ IF HasMeta(account)
           THEN /\ account.state.meta.withdrawer \in signers
                /\ ~is_in_force(account.state.meta.lockup, epoch, signers)
           ELSE own_key_signed
        /\ lamports <= account.lamports
        /\ \/ lamports + kept.reserve <= account.lamports
           \/ lamports = account.lamports /\ ~kept.is_staked

\* An account that loses lamports; one that loses all is deinitialized.
debited(account, lamports) ==
    [lamports |-> account.lamports - lamports,
     state |-> IF lamports = account.lamports THEN Uninitialized ELSE account.state]

\* The rent the split account needs beyond the balance it has.
split_shortfall(split, split_reserve) == saturating_sub(split_reserve, split.lamports)

\* StakeAccount::split up to its last error, split_reserve being what
\* calculate_split_rent_exempt_reserve finds for the split account's size.
can_split(account, split, own_key_signed, lamports, split_reserve, signers) ==
    LET full == lamports = account.lamports
        shortfall == split_shortfall(split, split_reserve)
    IN  /\ split.state.kind = "Uninitialized"
        /\ lamports <= account.lamports
        /\ IF HasMeta(account)
           THEN /\ account.state.meta.staker \in signers
                /\ IF IsStake(account)
                   THEN /\ lamports >= shortfall
                        /\ full => lamports >= split_reserve
                   ELSE lamports >= split_reserve
                /\ ~full => /\ lamports + account.state.meta.rent_exempt_reserve
                                  < account.lamports
                            /\ lamports > shortfall
                /\ IsStake(account) =>
                      (IF full THEN saturating_sub(lamports, account.state.meta.rent_exempt_reserve)
                       ELSE lamports) <= account.state.delegation.stake
           ELSE own_key_signed

\* The stake of the split account.
split_stake_amount(account, split, lamports, split_reserve) ==
    IF lamports = account.lamports
    THEN Min({lamports - split_reserve,
              saturating_sub(lamports, account.state.meta.rent_exempt_reserve)})
    ELSE lamports - split_shortfall(split, split_reserve)

\* What a split leaves of the account ...
split_source(account, lamports) ==
    debited(IF IsStake(account)
            THEN [account EXCEPT !.state.delegation.stake =
                     IF lamports = account.lamports
                     THEN @ - saturating_sub(lamports, account.state.meta.rent_exempt_reserve)
                     ELSE @ - lamports]
            ELSE account, lamports)

\* Fault form: the split account is free of the lockup.
split_target_unlocked(account, split, lamports, split_reserve) ==
    [lamports |-> split.lamports + lamports,
     state |-> IF ~HasMeta(account) THEN split.state
               ELSE [account.state EXCEPT !.meta.lockup.epoch = 0]]

\* ... and of the account it splits into.
split_target(account, split, lamports, split_reserve) ==
    [lamports |-> split.lamports + lamports,
     state |-> IF ~HasMeta(account) THEN split.state
               ELSE LET moved == [account.state EXCEPT !.meta.rent_exempt_reserve = split_reserve]
                    IN  IF IsStake(account)
                        THEN [moved EXCEPT !.delegation.stake =
                                 split_stake_amount(account, split, lamports, split_reserve)]
                        ELSE moved]

\* MergeKind::get_if_mergeable.
merge_kind(account, epoch, history) ==
    IF account.state.kind = "Initialized" THEN "Inactive"
    ELSE IF ~IsStake(account) THEN "Error"
    ELSE LET s == stake_activating_and_deactivating(account.state.delegation, epoch, history)
         IN  IF s.effective = 0
             THEN IF s.activating = 0 /\ s.deactivating = 0 THEN "Inactive"
                  ELSE "ActivationEpoch"
             ELSE IF s.activating = 0 /\ s.deactivating = 0 THEN "FullyActive"
             ELSE "Error"

\* MergeKind::active_stakes_can_merge.
active_stakes_can_merge(into, source) ==
    /\ into.delegation.voter = source.delegation.voter
    /\ into.delegation.deactivation_epoch = EPOCH_MAX
    /\ source.delegation.deactivation_epoch = EPOCH_MAX
    /\ into.credits_observed = source.credits_observed

\* StakeAccount::merge and MergeKind::merge, of two accounts.
can_merge(account, source, epoch, history, signers) ==
    LET kind == merge_kind(account, epoch, history)
        source_kind == merge_kind(source, epoch, history)
    IN  /\ "Error" \notin {kind, source_kind}
        /\ account.state.meta.staker \in signers
        /\ \A f \in {"staker", "withdrawer", "lockup"} :
              account.state.meta[f] = source.state.meta[f]
        /\ ("Inactive" \notin {kind, source_kind}) =>
              active_stakes_can_merge(account.state, source.state)
        /\ <<kind, source_kind>> \in {<<"Inactive", "Inactive">>,
                                      <<"Inactive", "ActivationEpoch">>,
                                      <<"ActivationEpoch", "Inactive">>,
                                      <<"ActivationEpoch", "ActivationEpoch">>,
                                      <<"FullyActive", "FullyActive">>}

\* Fault form: all of the source's lamports become stake.
merged_stake_all(kind, source_kind, source) == source.lamports

\* What a merge adds to the stake of the account merged into.
merged_stake(kind, source_kind, source) ==
    CASE kind = "Inactive" -> 0
      [] kind = "ActivationEpoch" /\ source_kind = "Inactive" -> source.lamports
      [] kind = "ActivationEpoch" /\ source_kind = "ActivationEpoch" ->
            source.state.meta.rent_exempt_reserve + source.state.delegation.stake
      [] OTHER -> source.state.delegation.stake

merged(account, source, epoch, history) ==
    LET kind == merge_kind(account, epoch, history)
        source_kind == merge_kind(source, epoch, history)
        credited == [account EXCEPT !.lamports = @ + source.lamports]
    IN  IF kind = "Inactive" THEN credited
        ELSE [credited EXCEPT !.state.delegation.stake =
                 @ + merged_stake(kind, source_kind, source)]
=============================================================================
