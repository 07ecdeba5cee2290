------------------------------ MODULE MCStakes ------------------------------
EXTENDS Stakes

CONSTANTS g, a1, a2, v1, v2, k, c, boot

Closed == [lamports |-> 0, state |-> Uninitialized]

Lockup(e) == [epoch |-> e, custodian |-> c]

\* A stake of the genesis block in the hands of a key; g is in nobody's.
GenesisStake(stake, key) ==
    [lamports |-> 10 + stake,
     state |-> Staked([rent_exempt_reserve |-> 10, staker |-> key, withdrawer |-> key,
                       lockup |-> Lockup(0)],
                      [voter |-> v1, stake |-> stake, activation_epoch |-> EPOCH_MAX,
                       deactivation_epoch |-> EPOCH_MAX], 0)]

\* A stake of 210 warms up in two epochs beside g; it is split and merged,
\* delegated to a voter that closes its account, and withdrawn to itself.
Warmup ==
    [accounts |-> (g :> GenesisStake(400, boot)) @@ (a1 :> Closed) @@ (a2 :> Closed),
     reserve |-> (a1 :> 10) @@ (a2 :> 20), wallet |-> 220,
     named |-> {a1, a2}, deposits |-> {220}, amounts |-> {110}, to_self |-> BOOLEAN,
     voters |-> {v1, v2}, keys |-> {k}, lockups |-> {Lockup(0)},
     earners |-> {}, closers |-> {v2}, max_epoch |-> 2, max_credits |-> 0]

\* Next to it a stake that is there from the beginning and too small to be paid.
SmallStake ==
    [Warmup EXCEPT !.accounts[a1] = GenesisStake(20, k), !.reserve[a2] = 10, !.wallet = 110,
                   !.deposits = {110}, !.voters = {v1}, !.closers = {}, !.to_self = {FALSE},
                   !.earners = {v1}, !.max_credits = 1]

\* Lockups and a custodian, within an epoch and after it.
Locked ==
    [Warmup EXCEPT !.keys = {k, c}, !.lockups = {Lockup(0), Lockup(1)}, !.reserve[a2] = 10,
                   !.voters = {v1}, !.closers = {}, !.to_self = {FALSE}, !.max_epoch = 1]

\* A stake of 400 is deactivated when a quarter of it is effective.
Cooldown ==
    [Warmup EXCEPT !.wallet = 410, !.deposits = {410}, !.amounts = {80, 300},
                   !.to_self = {FALSE}, !.closers = {}]

MCCommission == (v1 :> 50) @@ (v2 :> 0)
MCScenarios == {Warmup, SmallStake, Locked}
CooldownOnly == {Cooldown}
=============================================================================
