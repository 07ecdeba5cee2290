# Formal models of the validator

TLA+ models, TLC checks and TLAPS proofs of the parts of this validator in which
correctness depends on the order of events: voting and lockouts, the tower and
its recovery after a crash, fork choice, optimistic confirmation and commitment,
the leader's recorder, the processing of transactions, the ledger's slots, and
stakes. Definitions keep the names of the functions they translate; `PROJECT.json`
maps each to its lines, and lists the runs, the hazards and the parts not modelled.

## The system

A validator receives blocks of a growing tree (one slot, at most one block),
replays each into a *bank*, chooses the heaviest fork, and votes on its tip.
A vote locks its slot: the validator may not vote for another fork until the
lockout, doubled by every vote on top, has run out. The vote that finds 31 others
on the stack makes the oldest the *root*, which is final.

| Part | Module | What makes it hard |
|---|---|---|
| Vote program | `Lockouts`, `VoteState` | expiry from the top only, epochs skipped, a walk with two indices |
| Tower, bank forks, start-up | `Tower` | crashes between saving the tower, marking roots and sending the vote; a tower newer or older than the ledger |
| Slot history sysvar | `SlotHistory` | jumps and wrapping |
| Fork choice, repair weight | `ForkInfos`, `HeaviestSubtreeForkChoice` | incremental updates along single forks; orphan trees connected after votes have arrived |
| Vote listener | `VoteTracker`, `VoteListener` | two sources of votes, a root read some time ago, trackers purged by another thread |
| Confirmed bank | `OptimisticallyConfirmedBankTracker` | confirmation, freezing and roots notified in any order |
| Commitment | `Commitment` | aggregated in a thread of its own from banks that wait in a channel |
| Progress map | `ProgressMap` | propagation inherited along leader slots, across epochs |
| PoH recorder | `PohRecorder` | ticks cached before the bank is there; the lock released between two looks |
| Blockstore, cleanup | `Blockstore` | shreds in any order, slots chained before their parents, one signal for many updates |
| Account locks, blockhash queue, status cache | `AccountLocks`, `BlockhashQueue`, `StatusCache` | two limits that must agree, a cache that forgets |
| Bank, banking threads, snapshots | `TransactionProcessing`, `TransactionLog` | load, record, commit and freeze interleave; a restart knows only what the snapshot carries |
| Stake program, stakes cache, rewards | `Delegation`, `StakeState`, `Stakes` | a cache kept by differences, warmup shared with the cluster |

## Modules

`Lockouts`, `ForkInfos`, `VoteTracker`, `AccountLocks`, `BlockhashQueue`,
`StatusCache`, `Delegation` and `StakeState` are operators on values; the others
are state machines built from them. `MC...` modules give TLC its instances,
`...Proofs` modules hold the theorems.

Operators whose comment says *Fault form* are plausible mistakes in the code.
Putting one in the place of the definition that follows it makes TLC report the
property named in `PROJECT.json`: every property is known to be able to fail.

**VoteState.** `slot`, `chain` and `slot_hashes` are what the bank of one fork gives
the program; the hash of a bank is identified with its slot. `account` is the
stored account, `tx` the vote in progress: a vote is `BeginVote`, one `ProcessSlot`
per slot, `EndVote`, with nothing in between. Every other instruction is one
action. An instruction that fails has no effect and is no step. A withdrawal of
everything to the account itself clears the state and keeps the lamports; a voter is
then missing, and `UnknownVoterPanics` is the `expect` that fails. The filter on
voter and hash characters in `process_vote` and `push_vote` depends on hash text,
so a vote may be rejected or not.

**Tower.** `ancestors` is the tree of blocks received, `full` and `rooted` are the
blockstore, `disk` the tower file. `tower`, `bank_forks`, `pc` and `new_root`
are lost in a crash. `promise` is a history variable: for each slot ever voted
on, the last slot for which votes that *left the node* keep it locked, or for
ever once it is a root. The handler of a vote is three steps because a crash can
fall between its three durable effects: `vote_and_save`, `handle_new_root`,
`push_vote`. `handle_new_root` joins the blockstore's roots and the in-memory
`BankForks::set_root`, as a crash between the two loses the second anyway.
Left open, as a free choice: the stake thresholds, the switch proof and the
propagation check (any heaviest bank may pass), which frozen tip is the heaviest,
whether a vote is sent (no authorized voter, an invalid filter), and which root above
the blockstore's the vote accounts name at start-up. The properties hold
whatever these decide. Assumed: `require_tower` is set, and when the tower cannot
be restored the votes of this validator are found on the ledger; the rename of
the tower file is durable (the code does not sync, and says so); no hard fork.
`highest_confirmed_root` keeps more banks in memory than the model when pruning.

**HeaviestSubtreeForkChoice.** `service` says which user of the tree this is, the
replay stage or the repair service. `tree` is the tree at the root, `orphan` one
unconnected tree of the repair service, `seen` a history variable that keeps a
slot from coming back with another parent. Slot 0 in `latest_votes` stands for no
vote. `ForkInfos` ends with what stakes and best slots should be, defined from
the tree and the latest votes alone.

**VoteListener** runs the turns of `process_votes_loop` (read the root bank;
every so often verify confirmed slots and purge; receive and count votes) against a replay thread that first marks a root, then
sets it, and takes the voters it has not seen. Whether a confirmed slot was passed
over is asked by slot; its hash only matters while the slot is the root itself. **OptimisticallyConfirmedBankTracker**
and **Commitment** each have a channel between replay and a service thread.
A block of `Commitment` carries votes for its parent.

**ProgressMap** has an action each for a replayed block, the start of a leader block
(`maybe_start_leader` with its propagation check), a report of voters and nodes that
have a slot, and a new root. A node stands for the vote accounts that the epoch of each
leader slot has for it, so one report may count for different voters at two leader
slots, and a vote is carried down only past slots that do not have it yet.
`PropagatedExactly` therefore gives two bounds, which meet when the epochs agree on
the nodes.

**PohRecorder** has the tick producer, the banking threads and the steps of the
replay loop that touch the recorder (freeze, reset, look, start), each taking the
lock anew. The hash chain is abstract.

**Blockstore** inserts batches of shreds of several slots, in an order the code's
hash maps leave open; the cleanup first chooses slots and drops them later.

**TransactionProcessing.** A banking thread locks a batch, loads and executes it,
records it in PoH with the freeze lock held, commits, and unlocks. Beside the
threads run PoH, the freezing of banks, blocks of other leaders (one step each, on a
bank of their own and so without locks), `set_root` with its snapshot, and restarts.
A snapshot request becomes an archive only at a multiple of `SnapshotInterval`, itself
a multiple of `AccountsHashInterval` (`IntervalAssumption`, which the validator
checks at start-up), and may be lost before. Assumed: the bank PoH has descends from a
new root, as replay resets PoH to the heaviest fork in every pass but votes before it
does. The value of an account is the set of transactions
whose effect it has, so that an update lost is visible. `TransactionLog` is the
abstract specification: a transaction enters a block only if the chain below does
not hold it. `ProcessedOnce` says that the blocks implement it, with the
refinement mapping `log` from blocks, their parents and their transactions.

**Stakes** has one action per instruction of the stake program, and `NewEpoch` for
what the first bank of an epoch does: history, cache, rewards. A withdrawal may go to
the account itself, which then loses its state and keeps its lamports; the cache keeps
its old delegation, which counts for nothing (`CacheExact`). Quotients the
code forms in floating point are exact and truncated alike.

## Runs

Several runs put independent components, or several instances of one, side by
side: the variable `part`, chosen in the initial state and then fixed, says which
one moves. A property of a part then begins with `part = ... =>`, and the others
stay in their initial state.

| Run | What it asks | Bounds |
|---|---|---|
| `vote_account` | Are stack, root, credits and voters consistent? Does the declarative slot check equal the code's loop? | own instance: two keys, epochs of two slots, 5 slots; `Deep`: stack of 3, votes of two slots, epochs of one slot, 6 slots; `Timed`: timestamps, 4 slots, the check compared on all votes of up to three slots |
| `tower` | Do crashes anywhere break a lockout, a root or a restore? And when blocks are lost, or the tower is too old? | own instance: every tree of the slots 0 to 5, stack of 2; `Loss`: every tree of 0 to 4, history of 3 slots |
| `replay` | Slot history; roots when lockouts run out; slot metadata, signals and cleanup; propagation; votes counted | ring of 4 up to slot 12; two forks up to slot 9; five blocks of up to three shreds in batches of two; five slots in three epochs, leader slots 1, 3, 4, one node with other vote accounts in each epoch; six votes of three voters, one slot with two hashes |
| `fork_choice_trees` | Are the incremental stakes and best slots right, with orphan trees too? | every tree of slots 0 to 5, two voters, epochs of 3 slots |
| `transactions` | Is an update lost, a transaction processed twice, a signature forgotten too early? | three transactions on three accounts, two threads, slots 0 to 3, one of them led, intervals of 2 |
| `services` | Stakes over epochs; the recorder; commitment; confirmed bank; do the services catch up? | three scenarios of two accounts over up to two epochs; four slots of two ticks, two of them led; six blocks with a fork, stack of 2; four blocks with a fork |

Runs expected to fail, each a disagreement between the code and its own text:

| Run | What it shows |
|---|---|
| `vote_expired` | An expired vote below a live one is not popped, though `tower-bft.md` says it is, with all above it. |
| `tower_candidates` | After a loss of blocks the last assertion of the switch check can fail: the bank of the stray last vote exists again but is not frozen, so its frozen parent is counted as a fork tip. |
| `fork_choice_merge` | Merging an orphan tree loses the votes of voters without a vote in the tree merged into. |
| `replay_ported` | A vote that a leader slot has through a node is not carried to an earlier leader slot whose epoch has other accounts for that node, though the comment says it must have it. |
| `vote_listener_threshold` | `VOTE_THRESHOLD_SIZE` is 1/40 here, so a slot is optimistically confirmed far below the supermajority that comments and documents speak of. |
| `stakes_cooldown` | Splitting a stake in cooldown after a withdrawal leaves an effective stake above the balance, which the documents exclude. |

Noticed beside them, without a run: the comment on `update_validator_identity`
(`programs/vote/src/vote_state/mod.rs:601`) asks for the voter's signature where
the code verifies the withdrawer's and the new node's;
`docs/src/cluster/stake-delegation-and-rewards.md:197` subjects a change of
authority to the lockup, which the code does not check; `SWITCH_FORK_THRESHOLD`
(`core/src/consensus.rs:76`) is 0.005, whatever
`local-cluster/tests/local_cluster.rs:535` expects of it.

**Why the bounds are enough.** The vote stack is 2 or 3 deep in place of 31, so that it
fills, roots and wraps within the slots at hand; depth only enters through
comparisons with `Len(votes)`, and the proofs cover every depth. Epochs of 1 or
2 slots make votes cross them, also skipping some. Trees of 5 blocks contain
every shape of two forks with a vote, a conflicting vote and a root below both;
the two forks of `replay` go up to slot 9 for a lockout of 4 to run out.
Two voters whose stakes swap in the second epoch make ties, overtaking and
differing stakes. In `transactions`, `MAX_PROCESSING_AGE = MAX_CACHE_ENTRIES = 1` is
tighter than the code's 150 and 300, so that the cache forgets as early as it ever
may, and the blockhash queue of 2 still holds a hash that is too old; `MayFail`, `ForeignTxs` and `LeaderSlots` limit which transactions fail, come from
other leaders, and which slots are led. Batches there have one transaction.
Stakes near thresholds make a vote meet, and another cross, each of them. Keys of
`VoteState` and banking threads are interchangeable, and declared symmetric. Only the
liveness properties of `services` need its fairness, and that run has no symmetry.
Deadlock is not checked: every bounded run ends when the slots are used up.

**Fairness** is assumed in `services` only, and is weak: the tick producer ticks,
the replay loop takes its next step, the commitment service and the tracker of the
confirmed bank keep receiving, and replay finishes a notification it has begun. Each
is a thread with a loop that ends at exit only and that waits on nothing but its
own channel or the recorder's lock, which is never held across a wait. Nothing
is assumed of banking threads, of votes, or of other validators.

## Proofs

All theorems hold for every value of the constants that satisfies the named
assumptions (`MaxLockoutHistoryAssumption`, `VoteStateAssumption`,
`SlotHistoryAssumption`, `TowerAssumption`), which only say that limits are positive
numbers and sets have their types. (`AgeAssumption` and `IntervalAssumption` of
`TransactionProcessing` are used by no proof.) `MaxSlot` and the like are arbitrary there.

**`LockoutsProofs`.** `ProcessSlotWellFormed`: for every depth, `process_slot` keeps a
well-formed stack well formed: slots increase, confirmation counts strictly
decrease and cover the votes above, the root is below all votes. The decrease of
counts is the strengthening: it makes the vote on top of an equal sum the only one
that doubles. The pops are handled by the least height whose votes above have all
expired, which exists by well-foundedness (`LeastNat`, `GreatestNat`).

**`VoteStateProofs`.** `TypeCorrect`, `StackSafe` and `VoterAlwaysKnown`: an account with a
state has a voter for the current epoch, so an `expect` of the program fails only on an
account left without one. The inductive
invariant `IInv` joins the three with the shape of the working copy and of the voter
map, since none is inductive alone: a look-up in the map of voters has a type only
if the epoch is known, and the stored account is the working copy when a vote ends.

**`VoteAccountProofs`**, over many instructions and banks:

* `VotesAreOnFork`: votes and root are banks of this fork;
* `EpochRecordsSound`: credits and prior voters chain from epoch to epoch, and no bank
  is credited twice;
* `AccountNeverBehind`: root, last vote and credits never go back;
* `ScheduledVoterFixed`: the voter of an epoch whose schedule is known never changes.

`AInv` adds to `IInv` that slot hashes name banks of the fork, that the working copy
is not behind the account it was made from and has the same facts, and that no
voter entry is later than the target of the next change. That credits are
backed by banks rests on the root: each credit comes with a newer root on the fork.

**`SlotHistoryProofs`.** `HistoryExact`: for every ring size and every increasing
sequence of slots, `check` is exact in its window. The invariant says that bit and
history agree for each slot of the window; that two slots closer than the ring's size
have different bits is the lemma `WindowInjective`.

**`TowerProofs`**, for every block tree, stack depth and history size, with crashes
between any two steps, and *whether or not blocks are lost*:

* `PromisesKept`: no vote breaks a lockout, or leaves a root, that a vote which left
  the node has promised;
* `TowersAreChains`: the votes in memory and on disk are a chain of the tree, and the
  saved ones build on the saved root;
* `LastVoteBankKnown`: the look-ups of the switch check do not panic.

`PromisesKept` speaks of a vote and of promises made before any number of crashes,
so the invariant `IInv` carries each promise through every state: it is kept by
the *saved* tower (`DiskKeeps`), by a vote on the stack locked at least as long, by
the root, or it has run out at the last vote; and, while replay runs, by
the tower in memory or the root of the bank forks (`TowerKeeps`), with a last
vote, root or bank root that no later vote will be older than. A restart drops
the votes that the slot history of the replayed root holds, and the hard step is that
each of them is an ancestor of that root, so that every later vote builds on it. The invariant
also needs that banks build on the root through frozen banks only (`ForksInv`), that a
new vote is on disk before it is sent (`TowerInv`), and that ancestors form a tree.

**`TowerRestartProofs`**, when no blocks are lost (`~ LedgerLoss`; `Tower_candidates.cfg` and
`KeptDespiteLoss` show what remains otherwise):

* `RootsAlwaysSafe`: the root a vote would set is an ancestor of the bank (the assertion
  of `is_locked_out`), the blockstore's roots are one chain, and the saved root
  is on it. It needs a stack of two votes or more: with one, a vote roots the
  vote before it at once, on whatever fork that was, and the assertion can fail. The
  code's 31 is far from that;
* `RestartsSucceed`: the saved tower is restored at every restart, unless a block is
  further above the saved root than the slot history reaches (`Outrun`: 2^20 slots in
  the code), and tower and bank forks agree on the root whenever replay votes.

`LInv` adds to `IInv` that the marked roots and the saved root are on one chain of
complete blocks (`OneChain`), that the bank forks have everything up to their root,
which is that of the tower or the one before it (`ForksComplete`), and why a
start-up was given up (`AbortedIfOutrun`). A crash between saving the tower and
marking the roots leaves them apart, which is why a chain, and not an equation,
relates the two roots.

`IInv` and `LInv` were checked with TLC, on trees of four blocks with stacks of one
and two votes, before they were proved.

### Only model-checked

* Liveness (`BankFinishes`, `ServicesCatchUp`): fairness and enabledness are out of
  the prover's reach.
* `WalkAgrees`, the fork choice (`StakesExact`, `BestSlotIsHeaviest`) and everything about
  stakes: what a recursive definition or a fold computes for every input needs
  induction over data; `Delegation` also uses recursive operators.
* `Blockstore`, `VoteListener`, `Commitment`, `ProgressMap`: their properties compare a state
  with sums or folds over sets of votes, shreds and accounts, for the same reason.
* `PohRecorder`, `OptimisticallyConfirmedBankTracker` and `TransactionProcessing` with its
  refinement have no proofs yet.
* `KeptDespiteLoss` and `LongRunsSound` repeat proved properties on further instances; they also
  guard the model against a change that the proofs would only notice later.

## Not modelled

The accounts database (the models use what it promises: a bank sees the accounts of
its ancestors and its own), gossip, shreds and erasure codes, the window, repair,
retransmit and broadcast services, RPC, other on-chain programs, clients and tools:
data, or input and output around the parts above. Serialisation, signatures, hashes,
metrics, rent, fees and durable nonces are left out of the parts modelled.
`PROJECT.json` gives the extent of every part, and the reason for each one left out.
