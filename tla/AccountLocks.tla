---------------------------- MODULE AccountLocks ----------------------------
(***************************************************************************)
(* The account locks of a bank: the accounts locked for writing, and for   *)
(* every account that was ever locked for reading the number of readers.   *)
(***************************************************************************)
EXTENDS Naturals, Sequences, Functions, SequencesExt

CONSTANTS Writes,   \* of a transaction, the accounts it may write
          Reads     \* the accounts it only reads

NoLocks == [account_locks |-> {}, readonly_locks |-> <<>>]

is_locked_readonly(locks, key) ==
    key \in DOMAIN locks.readonly_locks /\ locks.readonly_locks[key] > 0

account_in_use(locks, tx) ==
    \/ \E key \in Writes[tx] : key \in locks.account_locks \/ is_locked_readonly(locks, key)
    \/ \E key \in Reads[tx] : key \in locks.account_locks

\* lock_readonly counts a reader of a known account, insert_readonly the first.
locked(locks, tx) ==
    LET known == DOMAIN locks.readonly_locks
    IN  [account_locks  |-> locks.account_locks \cup Writes[tx],
         readonly_locks |-> [key \in known \cup Reads[tx] |->
             IF key \notin Reads[tx] THEN locks.readonly_locks[key]
             ELSE IF key \in known THEN locks.readonly_locks[key] + 1 ELSE 1]]

\* The transactions of a batch in order; results holds the indices locked, the
\* others fail with AccountInUse.
lock_account(state, tx) ==
    IF account_in_use(state.locks, tx)
    THEN [state EXCEPT !.index = @ + 1]
    ELSE [locks   |-> locked(state.locks, tx),
          results |-> state.results \cup {state.index},
          index   |-> state.index + 1]

lock_accounts(locks, batch) ==
    FoldLeft(lock_account, [locks |-> locks, results |-> {}, index |-> 1], batch)

\* Fault form: a transaction that did not get its locks releases them too.
unlock_account_always(locks, batch, results, i) ==
    LET tx == batch[i]
    IN  [account_locks  |-> locks.account_locks \ Writes[tx],
         readonly_locks |-> [key \in DOMAIN locks.readonly_locks |->
             IF key \in Reads[tx] /\ locks.readonly_locks[key] > 0
             THEN locks.readonly_locks[key] - 1 ELSE locks.readonly_locks[key]]]

unlock_account(locks, batch, results, i) ==
    LET tx == batch[i]
    IN  IF i \notin results THEN locks
        ELSE [account_locks  |-> locks.account_locks \ Writes[tx],
              readonly_locks |-> [key \in DOMAIN locks.readonly_locks |->
                  IF key \in Reads[tx] THEN locks.readonly_locks[key] - 1
                  ELSE locks.readonly_locks[key]]]

unlock_accounts(locks, batch, results) ==
    FoldLeft(LAMBDA l, i : unlock_account(l, batch, results, i),
             locks, [i \in 1 .. Len(batch) |-> i])
=============================================================================
