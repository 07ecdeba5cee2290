----------------------------- MODULE Delegation -----------------------------
(***************************************************************************)
(* How much of a delegated stake is effective, activating or deactivating  *)
(* in an epoch (programs/stake/src/stake_state.rs).  A delegation warms up *)
(* and cools down with the whole cluster: in every epoch it takes its      *)
(* share of a quarter of the effective stake the stake history records.    *)
(*                                                                         *)
(* A history is a function from epochs to [effective, activating,          *)
(* deactivating].  The products and quotients the code forms in floating   *)
(* point and truncates are exact here, and truncated alike.  The stake     *)
(* program is version 2 (fix_stake_deactivate).                            *)
(***************************************************************************)
EXTENDS Integers, FiniteSetsExt

CONSTANTS
    EPOCH_MAX,      \* std::u64::MAX: never deactivated, or a bootstrap stake
    MAX_ENTRIES     \* epochs a stake history keeps

\* config::DEFAULT_WARMUP_COOLDOWN_RATE, 0.25, as its denominator.
WARMUP_COOLDOWN_DIVISOR == 4

\* The part of a cluster's change of stake that mine, out of its total, takes.
portion(mine, total, effective) ==
    Max({1, (mine * effective) \div (total * WARMUP_COOLDOWN_DIVISOR)})

RECURSIVE warming_up(_, _, _, _, _)
\* The loop of stake_and_activating: what is effective after epoch prev.
warming_up(d, target_epoch, history, prev, current) ==
    IF history[prev].activating = 0
    THEN current
    ELSE LET next == current + portion(d.stake - current, history[prev].activating,
                                       history[prev].effective)
             epoch == prev + 1
         IN  IF next >= d.stake THEN d.stake
             ELSE IF \/ epoch >= target_epoch
                     \/ epoch >= d.deactivation_epoch
                     \/ epoch \notin DOMAIN history
                  THEN next
                  ELSE warming_up(d, target_epoch, history, epoch, next)

RECURSIVE cooling_down(_, _, _, _)
\* The loop of stake_activating_and_deactivating: what is still effective.
cooling_down(target_epoch, history, prev, current) ==
    IF history[prev].deactivating = 0
    THEN current
    ELSE LET gone == portion(current, history[prev].deactivating, history[prev].effective)
             next == Max({0, current - gone})
             epoch == prev + 1
         IN  IF next = 0 \/ epoch >= target_epoch \/ epoch \notin DOMAIN history
             THEN next
             ELSE cooling_down(target_epoch, history, epoch, next)

stake_and_activating(d, target_epoch, history) ==
    IF d.activation_epoch = EPOCH_MAX THEN <<d.stake, 0>>
    ELSE IF d.activation_epoch = d.deactivation_epoch THEN <<0, 0>>
    ELSE IF target_epoch = d.activation_epoch THEN <<0, d.stake>>
    ELSE IF target_epoch < d.activation_epoch THEN <<0, 0>>
    ELSE IF d.activation_epoch \in DOMAIN history
    THEN LET current == warming_up(d, target_epoch, history, d.activation_epoch, 0)
         IN  <<current, d.stake - current>>
    ELSE <<d.stake, 0>>

stake_activating_and_deactivating(d, target_epoch, history) ==
    LET ea == stake_and_activating(d, target_epoch, history)
    IN  IF target_epoch < d.deactivation_epoch
        THEN [effective |-> ea[1], activating |-> ea[2], deactivating |-> 0]
        ELSE IF target_epoch = d.deactivation_epoch
        THEN [effective |-> ea[1], activating |-> 0, deactivating |-> Min({ea[1], d.stake})]
        ELSE LET current == IF d.deactivation_epoch \in DOMAIN history
                            THEN cooling_down(target_epoch, history, d.deactivation_epoch, ea[1])
                            ELSE 0
             IN  [effective |-> current, activating |-> 0, deactivating |-> current]

effective_stake(d, epoch, history) ==
    stake_activating_and_deactivating(d, epoch, history).effective

\* StakeHistory::add: the newest entries are kept.
history_add(history, epoch, entry) ==
    [e \in {x \in DOMAIN history \cup {epoch} : x + MAX_ENTRIES > epoch} |->
        IF e = epoch THEN entry ELSE history[e]]
=============================================================================
