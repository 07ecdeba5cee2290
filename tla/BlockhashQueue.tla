--------------------------- MODULE BlockhashQueue ---------------------------
(***************************************************************************)
(* The recent blockhashes of a bank: each with the height at which it was  *)
(* registered.  A blockhash is identified with the slot whose last tick    *)
(* registers it.                                                           *)
(***************************************************************************)
EXTENDS Naturals, FiniteSets

CONSTANT MAX_RECENT_BLOCKHASHES

genesis_hash(hash) == [hash_height |-> 0, ages |-> [h \in {hash} |-> 0]]

get_hash_age(queue, hash) == queue.hash_height - queue.ages[hash]

\* Fault form: a hash is accepted as long as it is in the queue.
check_hash_known(queue, hash, max_age) == hash \in DOMAIN queue.ages

\* Some(true) in the code; an unknown hash and an old one fail alike.
check_hash_age(queue, hash, max_age) ==
    /\ hash \in DOMAIN queue.ages
    /\ get_hash_age(queue, hash) <= max_age

\* The clean up happens before the insertion, and only when the queue is full.
register_hash(queue, hash) ==
    LET height == queue.hash_height + 1
        full   == Cardinality(DOMAIN queue.ages) >= MAX_RECENT_BLOCKHASHES
        kept   == {h \in DOMAIN queue.ages :
                      full => height - queue.ages[h] <= MAX_RECENT_BLOCKHASHES}
    IN  [hash_height |-> height,
         ages |-> [h \in kept \cup {hash} |->
                      IF h = hash THEN height ELSE queue.ages[h]]]
=============================================================================
