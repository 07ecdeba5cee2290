----------------------- MODULE TransactionProcessing -----------------------
(***************************************************************************)
(* Transactions enter banks: batches of the banking threads in the bank the *)
(* validator leads, and replayed blocks of other leaders.  Composes the    *)
(* account locks and blockhash queue of each bank with the status cache all *)
(* banks share, the freezing of banks, new roots, snapshots and restarts.  *)
(*                                                                         *)
(* A transaction carries a recent blockhash; durable nonces are left out.  *)
(* The value of an account is the set of transactions whose effect it has. *)
(***************************************************************************)
EXTENDS Integers, FiniteSets, Sequences, SequencesExt, FiniteSetsExt

CONSTANTS
    Txs, Accounts, Threads,
    Blockhash,                     \* of a transaction, the slot of its blockhash
    Writes, Reads,                 \* of a transaction, its accounts by lock type
    Payer,                         \* of a transaction, the account that pays
    LeaderSlots,                   \* the slots this validator leads
    MAX_PROCESSING_AGE, MAX_RECENT_BLOCKHASHES, MAX_CACHE_ENTRIES,
    AccountsHashInterval,          \* accounts_hash_interval_slots
    SnapshotInterval,              \* snapshot_interval_slots
    MaxSlot, MaxBatch,             \* bounds
    MayFail,                       \* bound: the transactions whose execution may fail
    ForeignTxs,                    \* bound: the transactions of other leaders' blocks
    NoSlot

VARIABLES
    banks,         \* banks by slot, also pruned ones a thread still holds
    forks,         \* the slots of bank_forks
    root,
    status_cache,
    working,       \* the bank PoH records into
    threads,       \* the banking threads
    block,         \* the blockstore: blocks produced or accepted
    snapshot,      \* the last snapshot archived
    last_accounts_hash_slot

vars == <<banks, forks, root, status_cache, working, threads, block, snapshot,
          last_accounts_hash_slot>>

INSTANCE BlockhashQueue
INSTANCE StatusCache
INSTANCE AccountLocks

ASSUME AgeAssumption ==
    /\ MAX_PROCESSING_AGE \in Nat
    /\ MAX_CACHE_ENTRIES \in Nat \ {0}
    /\ MAX_PROCESSING_AGE <= MAX_CACHE_ENTRIES
    /\ MAX_PROCESSING_AGE <= MAX_RECENT_BLOCKHASHES

\* is_snapshot_config_invalid, checked when the validator starts.
ASSUME IntervalAssumption ==
    /\ AccountsHashInterval \in Nat \ {0}
    /\ SnapshotInterval \in Nat \ {0}
    /\ SnapshotInterval % AccountsHashInterval = 0

Slots == 0 .. MaxSlot

Idle == [pc |-> "idle"]

(***************************************************************************)
(* Banks                                                                   *)
(***************************************************************************)

\* The slots of the parents of a bank, newest first, down to the last squashed.
parents[slot \in DOMAIN banks] ==
    LET p == banks[slot].parent
    IN  IF p = NoSlot THEN <<>> ELSE <<p>> \o parents[p]

new_from_parent(slot, parent) ==
    [parent |-> parent,
     ancestors |-> {slot, parent} \cup Range(parents[parent]),
     height |-> banks[parent].height + 1,
     queue |-> banks[parent].queue,
     state |-> "open",
     locks |-> NoLocks,
     accounts |-> banks[parent].accounts]

\* register_tick of the last tick of the slot.
register_last_tick(bank, slot) ==
    [bank EXCEPT !.queue = register_hash(@, slot), !.state = "complete"]

\* The checks before a transaction is loaded: check_age, then check_signatures.
check_transaction(bank, tx) ==
    /\ check_hash_age(bank.queue, Blockhash[tx], MAX_PROCESSING_AGE)
    /\ ~get_signature_status(status_cache, tx, Blockhash[tx], bank.ancestors)

\* commit_transactions stores the accounts written by a transaction that
\* succeeds, as computed from the accounts loaded; from one that fails only the
\* fee is withdrawn.
stored(accounts, loaded, outcome) ==
    [a \in Accounts |->
        LET writers == {tx \in DOMAIN outcome : outcome[tx] = "ok" /\ a \in Writes[tx]}
            payers  == {tx \in DOMAIN outcome : outcome[tx] = "failed" /\ a = Payer[tx]}
        IN  (IF writers = {} THEN accounts[a] ELSE loaded[a] \cup writers) \cup payers]

update_transaction_statuses(sc, slot, txs) ==
    FoldSet(LAMBDA tx, acc : insert_with_slice(acc, Blockhash[tx], tx, slot), sc, txs)

Outcomes(txs) ==
    {o \in [txs -> {"ok", "failed"}] : \A tx \in txs \ MayFail : o[tx] = "ok"}

Init ==
    LET genesis == [parent |-> NoSlot, ancestors |-> {0}, height |-> 0,
                    queue |-> genesis_hash(0), state |-> "frozen", locks |-> NoLocks,
                    accounts |-> [a \in Accounts |-> {}]]
    IN  /\ banks = [s \in {0} |-> genesis]
        /\ forks = {0}
        /\ root = 0
        /\ status_cache = Default
        /\ working = NoSlot
        /\ threads = [t \in Threads |-> Idle]
        /\ block = [s \in {0} |-> [parent |-> NoSlot, outcome |-> <<>>, full |-> TRUE]]
        /\ snapshot = [root |-> 0, bank |-> genesis, deltas |-> {}]
        /\ last_accounts_hash_slot = 0

(***************************************************************************)
(* The leader's bank                                                       *)
(***************************************************************************)

\* The validator leads a slot on a frozen bank; PoH gets the new bank.
StartLeader(slot, parent) ==
    /\ working = NoSlot
    /\ slot \in LeaderSlots \ DOMAIN block
    /\ parent \in forks
    /\ banks[parent].state = "frozen"
    /\ parent < slot
    /\ banks' = (slot :> new_from_parent(slot, parent)) @@ banks
    /\ block' = (slot :> [parent |-> parent, outcome |-> <<>>, full |-> FALSE]) @@ block
    /\ forks' = forks \cup {slot}
    /\ working' = slot
    /\ UNCHANGED <<root, status_cache, threads, snapshot, last_accounts_hash_slot>>

\* PoH reaches the last tick of the bank, and drops the bank.
LastTick ==
    /\ working # NoSlot
    /\ banks' = [banks EXCEPT ![working] = register_last_tick(@, working)]
    /\ block' = [block EXCEPT ![working].full = TRUE]
    /\ working' = NoSlot
    /\ UNCHANGED <<forks, root, status_cache, threads, snapshot, last_accounts_hash_slot>>

\* Replay resets PoH to another fork: the bank is left unfinished.
ResetPoh ==
    /\ working # NoSlot
    /\ working' = NoSlot
    /\ UNCHANGED <<banks, forks, root, status_cache, threads, block, snapshot,
                   last_accounts_hash_slot>>

\* Fault form: freeze does not wait for the threads that hold the freeze lock.
freeze_lock_ignored(slot) == TRUE

\* The write lock on the bank's hash is free: no thread is between record and
\* the end of its commit.
freeze_lock_free(slot) ==
    \A t \in Threads : ~(threads[t].pc = "recorded" /\ threads[t].slot = slot)

Freeze(slot) ==
    /\ banks[slot].state = "complete"
    /\ freeze_lock_free(slot)
    /\ banks' = [banks EXCEPT ![slot].state = "frozen"]
    /\ UNCHANGED <<forks, root, status_cache, working, threads, block, snapshot,
                   last_accounts_hash_slot>>

(***************************************************************************)
(* A banking thread                                                        *)
(***************************************************************************)

Batches == UNION {[1 .. n -> Txs] : n \in 1 .. MaxBatch}

\* process_and_record_transactions takes the bank PoH has at the time.
PrepareBatch(t, batch) ==
    LET locking == lock_accounts(banks[working].locks, batch)
    IN  /\ threads[t].pc = "idle"
        /\ working # NoSlot
        /\ banks' = [banks EXCEPT ![working].locks = locking.locks]
        /\ threads' = [threads EXCEPT ![t] =
               [pc |-> "locked", slot |-> working, batch |-> batch,
                results |-> locking.results]]
        /\ UNCHANGED <<forks, root, status_cache, working, block, snapshot,
                       last_accounts_hash_slot>>

\* load_and_execute_transactions: the transactions that got their locks and pass
\* the checks are loaded and executed; the others are not committed.
LoadAndExecute(t) ==
    LET th      == threads[t]
        checked == {tx \in Txs : /\ \E i \in th.results : th.batch[i] = tx
                                 /\ check_transaction(banks[th.slot], tx)}
    IN  /\ th.pc = "locked"
        /\ \E outcome \in Outcomes(checked) :
              threads' = [threads EXCEPT ![t] =
                  [pc |-> "executed", slot |-> th.slot, batch |-> th.batch,
                   results |-> th.results, outcome |-> outcome,
                   loaded |-> Restrict(banks[th.slot].accounts,
                                       UNION {Writes[tx] \cup Reads[tx] : tx \in checked})]]
        /\ UNCHANGED <<banks, forks, root, status_cache, working, block, snapshot,
                       last_accounts_hash_slot>>

\* The batch is dropped, which unlocks it.
unlocked(t) ==
    [banks EXCEPT ![threads[t].slot].locks =
        unlock_accounts(@, threads[t].batch, threads[t].results)]

\* With the freeze lock held the transactions are recorded.
Record(t) ==
    LET th == threads[t]
    IN  /\ th.pc = "executed"
        /\ th.outcome # <<>>
        /\ working = th.slot
        /\ threads' = [threads EXCEPT ![t].pc = "recorded"]
        /\ block' = [block EXCEPT ![th.slot].outcome = th.outcome @@ @]
        /\ UNCHANGED <<banks, forks, root, status_cache, working, snapshot,
                       last_accounts_hash_slot>>

\* Nothing to record, or PoH has left the slot (MaxHeightReached).
RecordNothing(t) ==
    /\ threads[t].pc = "executed"
    /\ threads[t].outcome = <<>> \/ working # threads[t].slot
    /\ banks' = unlocked(t)
    /\ threads' = [threads EXCEPT ![t] = Idle]
    /\ UNCHANGED <<forks, root, status_cache, working, block, snapshot,
                   last_accounts_hash_slot>>

\* commit_transactions; then the freeze lock and the batch are dropped.
Commit(t) ==
    LET th == threads[t]
    IN  /\ th.pc = "recorded"
        /\ banks' = [unlocked(t) EXCEPT ![th.slot].accounts =
                        stored(@, th.loaded, th.outcome)]
        /\ status_cache' = update_transaction_statuses(status_cache, th.slot, DOMAIN th.outcome)
        /\ threads' = [threads EXCEPT ![t] = Idle]
        /\ UNCHANGED <<forks, root, working, block, snapshot, last_accounts_hash_slot>>

(***************************************************************************)
(* Replay                                                                  *)
(***************************************************************************)

\* A block is replayed, and accepted if every transaction passes the checks.
Replay(slot, parent, outcome) ==
    LET bank == new_from_parent(slot, parent)
    IN  /\ parent \in forks
        /\ parent < slot
        /\ banks[parent].state = "frozen"
        /\ \A tx \in DOMAIN outcome : check_transaction(bank, tx)
        /\ banks' = (slot :> [register_last_tick(bank, slot) EXCEPT
                                 !.accounts = stored(@, @, outcome),
                                 !.state = "frozen"]) @@ banks
        /\ block' = (slot :> [parent |-> parent, outcome |-> outcome, full |-> TRUE]) @@ block
        /\ status_cache' = update_transaction_statuses(status_cache, slot, DOMAIN outcome)
        /\ forks' = forks \cup {slot}
        /\ UNCHANGED <<root, working, threads, snapshot, last_accounts_hash_slot>>

\* A block of another leader.
ReplayForeign(slot, parent) ==
    /\ slot \notin DOMAIN block \cup LeaderSlots
    /\ \E txs \in SUBSET ForeignTxs : \E outcome \in Outcomes(txs) :
          Replay(slot, parent, outcome)

\* A block of the blockstore, after a restart.
ReplayStored(slot) ==
    /\ slot \notin forks
    /\ block[slot].full
    /\ Replay(slot, block[slot].parent, block[slot].outcome)

(***************************************************************************)
(* Roots, snapshots, restarts                                              *)
(***************************************************************************)

\* squash adds the bank and its parents as roots, newest first.
squash(sc, slot) == FoldLeft(add_root, sc, <<slot>> \o parents[slot])

\* Fault form: a snapshot saves the signatures of banks that are not rooted.
saved_deltas_of_all(sc) == slot_deltas_of(sc, DOMAIN sc.slot_deltas \cup sc.roots)

saved_deltas(sc) == slot_deltas_of(sc, sc.roots)

\* prune_non_root keeps the root and what descends from it; the ancestors it
\* keeps for the highest confirmed root are read only.
kept(new_root) ==
    {s \in DOMAIN banks : s = new_root \/ new_root \in Range(parents[s])}

\* The snapshots a request may leave in the archive: the accounts hash verifier
\* keeps only the packages at a snapshot interval, and the validator may stop, or
\* skip the request for a newer one, before the package is archived.
archived(new_root, deltas) ==
    {snapshot} \cup
        IF banks[new_root].height % SnapshotInterval # 0 THEN {}
        ELSE {[root |-> new_root, deltas |-> deltas,
               bank |-> [banks[new_root] EXCEPT !.parent = NoSlot]]}

\* BankForks::set_root: the newest bank of the new roots at an interval of the
\* accounts hash is squashed and a snapshot of the root requested, then the root
\* bank is squashed and the other forks are pruned.  Replay votes, and so sets
\* the root, before it resets PoH, so the bank PoH has is that of an earlier
\* reset.  It is assumed to descend from the new root: PoH is reset to the heaviest
\* fork in every pass, and the new root lies a full tower of votes below the vote.
SetRoot(new_root) ==
    LET path   == <<new_root>> \o parents[new_root]
        due    == {s \in Range(path) : /\ banks[s].height % AccountsHashInterval = 0
                                       /\ s > last_accounts_hash_slot}
        hashed == squash(status_cache, Max(due))
        held   == {threads[t].slot : t \in {u \in Threads : threads[u].pc # "idle"}}
    IN  /\ new_root \in forks
        /\ root \in Range(parents[new_root])
        /\ banks[new_root].state = "frozen"
        /\ working # NoSlot => new_root \in Range(parents[working])
        /\ root' = new_root
        /\ forks' = forks \cap kept(new_root)
        /\ banks' = Restrict([banks EXCEPT ![new_root].parent = NoSlot],
                             kept(new_root) \cup held \cup UNION {Range(parents[s]) : s \in held})
        /\ IF due = {}
           THEN /\ status_cache' = squash(status_cache, new_root)
                /\ UNCHANGED <<snapshot, last_accounts_hash_slot>>
           ELSE /\ status_cache' = FoldLeft(add_root, hashed,
                       SelectSeq(path, LAMBDA s : s >= Max(due)))
                /\ snapshot' \in archived(new_root, saved_deltas(hashed))
                /\ last_accounts_hash_slot' = Max(due)
        /\ UNCHANGED <<working, threads, block>>

\* The validator stops and starts from its last snapshot.
Restart ==
    /\ banks' = (snapshot.root :> snapshot.bank)
    /\ forks' = {snapshot.root}
    /\ root' = snapshot.root
    /\ status_cache' = append(Default, snapshot.deltas)
    /\ working' = NoSlot
    /\ threads' = [t \in Threads |-> Idle]
    /\ last_accounts_hash_slot' = snapshot.root
    /\ UNCHANGED <<block, snapshot>>

Next ==
    \/ \E slot \in Slots, parent \in forks : StartLeader(slot, parent)
    \/ LastTick
    \/ ResetPoh
    \/ \E slot \in forks : Freeze(slot)
    \/ \E t \in Threads, batch \in Batches : PrepareBatch(t, batch)
    \/ \E t \in Threads : LoadAndExecute(t) \/ Record(t) \/ RecordNothing(t) \/ Commit(t)
    \/ \E slot \in Slots, parent \in forks : ReplayForeign(slot, parent)
    \/ \E slot \in DOMAIN block : ReplayStored(slot)
    \/ \E new_root \in forks : SetRoot(new_root)
    \/ Restart

Spec == Init /\ [][Next]_vars

(***************************************************************************)
(* Properties                                                              *)
(***************************************************************************)

TypeOK ==
    /\ forks \subseteq DOMAIN banks
    /\ DOMAIN banks \subseteq Slots
    /\ root \in forks
    /\ working \in DOMAIN banks \cup {NoSlot}
    /\ \A s \in DOMAIN banks :
          /\ banks[s].state \in {"open", "complete", "frozen"}
          /\ banks[s].locks.account_locks \subseteq Accounts
          /\ DOMAIN banks[s].locks.readonly_locks \subseteq Accounts
          /\ banks[s].accounts \in [Accounts -> SUBSET Txs]
          /\ banks[s].parent \in Slots \cup {NoSlot}
    /\ \A t \in Threads : threads[t].pc \in {"idle", "locked", "executed", "recorded"}

\* The blocks of the chain that ends in the slot, and their transactions.
BlockChain[slot \in DOMAIN block] ==
    {slot} \cup IF block[slot].parent = NoSlot THEN {} ELSE BlockChain[block[slot].parent]

CommittedOn(slot) == UNION {DOMAIN block[s].outcome : s \in BlockChain[slot]}

\* Batches that share an account do not interleave: between load and commit of a
\* transaction no other thread changes an account it reads or writes, and once no
\* commit is under way an account holds the effect of exactly the transactions
\* recorded on its chain that changed it (lock_accounts, commit_transactions).
NoLostUpdate ==
    /\ \A t \in Threads :
          threads[t].pc \in {"executed", "recorded"} =>
              \A tx \in DOMAIN threads[t].outcome : \A a \in Writes[tx] \cup Reads[tx] :
                  threads[t].loaded[a] = banks[threads[t].slot].accounts[a]
    /\ \A s \in DOMAIN banks : freeze_lock_free(s) =>
          \A a \in Accounts : banks[s].accounts[a] =
              UNION {{tx \in DOMAIN block[b].outcome :
                         IF block[b].outcome[tx] = "ok" THEN a \in Writes[tx] ELSE a = Payer[tx]}
                     : b \in BlockChain[s]}

\* The assertion of commit_transactions, and the comment in freeze: whoever has
\* recorded transactions commits them before the bank is frozen.  Nor does
\* clear_slot_signatures panic: each signature in slot_deltas is in the cache,
\* as purge_roots, insert and append keep the two in step.
NoPanic ==
    /\ TypeOK
    /\ \A t \in Threads :
          threads[t].pc = "recorded" => banks[threads[t].slot].state # "frozen"
    /\ \A s \in DOMAIN status_cache.slot_deltas :
          \A d \in status_cache.slot_deltas[s] :
              /\ d[1] \in DOMAIN status_cache.cache
              /\ <<d[2], s>> \in status_cache.cache[d[1]].sigs

\* get_signature_status answers for a bank as its ledger does, for every
\* transaction young enough to be processed, also after purges and restarts.
StatusExact ==
    \A s \in forks, tx \in Txs :
        /\ freeze_lock_free(s)
        /\ check_hash_age(banks[s].queue, Blockhash[tx], MAX_PROCESSING_AGE)
        => (get_signature_status(status_cache, tx, Blockhash[tx], banks[s].ancestors)
            <=> tx \in CommittedOn(s))

\* A block that was accepted or produced is accepted again when it is replayed
\* after a restart.
ReplayAgrees ==
    \A s \in DOMAIN block \ forks :
        LET p == block[s].parent
        IN  (p \in forks /\ p # NoSlot /\ block[s].full /\ banks[p].state = "frozen") =>
                \A tx \in DOMAIN block[s].outcome : check_transaction(new_from_parent(s, p), tx)

\* The blocks implement the log: no transaction is processed twice on a chain.
Log == INSTANCE TransactionLog
    WITH log <- [s \in DOMAIN block |->
                    [parent |-> block[s].parent, txs |-> DOMAIN block[s].outcome]]

ProcessedOnce == Log!Spec
=============================================================================
