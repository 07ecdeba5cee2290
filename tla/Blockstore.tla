----------------------------- MODULE Blockstore -----------------------------
(***************************************************************************)
(* The ledger's store of received blocks: shreds arrive in any order and   *)
(* in batches that mix slots; the metadata of each slot follows what of it *)
(* is there, which slots build on it and whether it connects to the start. *)
(* Replay is woken up by a signal and finds new blocks through next_slots. *)
(* A cleanup thread drops old slots.  Each slot has one block here, of     *)
(* data shreds: a shred recovered from coding shreds is inserted like any  *)
(* other.                                                                  *)
(***************************************************************************)
EXTENDS Integers, Sequences, SequencesExt, FiniteSets, FiniteSetsExt, Functions, Bags

CONSTANTS
    Parent,            \* the parent of each block, 0 for slot 0
    LastIndex,         \* the index of the last shred of each block
    DataEnds,          \* the indexes of shreds that complete a set of data
    max_ledger_shreds, \* holds the root's block and the next one
    purge_interval,
    MaxBatch,          \* bound: the shreds inserted at once
    NoSlot             \* u64::MAX as a parent or an index

VARIABLES
    metas,             \* the SlotMeta of each slot
    data,              \* the indexes of the shreds of each slot
    orphans,           \* the Orphans column
    last_root,
    last_purge_slot,
    signal,            \* the one-place channel to replay
    completed,         \* history: how often each slot was announced as completed
    reported,          \* history: the completed data sets reported, a bag
    purging            \* the slots about to be dropped, or <<>>

vars == <<metas, data, orphans, last_root, last_purge_slot, signal, completed, reported, purging>>

Slots == DOMAIN LastIndex
Indexes(slot) == 0 .. LastIndex[slot]
Shreds == UNION {{[slot |-> s, index |-> i] : i \in Indexes(s)} : s \in Slots}

new_slot_meta(slot, parent) ==
    [parent_slot |-> parent, next_slots |-> <<>>, consumed |-> 0, received |-> 0,
     last_index |-> NoSlot, is_connected |-> slot = 0, completed_data_indexes |-> {}]

is_full(meta) == meta.last_index # NoSlot /\ meta.consumed = meta.last_index + 1
is_orphan(meta) == meta.parent_slot = NoSlot

\* get_slot_meta_entry: an orphan learns its parent from its first shred.
slot_meta_entry(m, slot) ==
    IF slot \notin DOMAIN m THEN new_slot_meta(slot, Parent[slot])
    ELSE IF is_orphan(m[slot]) THEN [m[slot] EXCEPT !.parent_slot = Parent[slot]]
    ELSE m[slot]

is_data_shred_present(meta, present, shred) ==
    shred.index < meta.consumed \/ shred.index \in present

verify_shred_slots(slot, parent_slot) ==
    \/ slot = 0 /\ last_root = 0 /\ parent_slot = 0
    \/ parent_slot < slot /\ parent_slot >= last_root

should_insert_data_shred(meta, shred) ==
    /\ meta.last_index # NoSlot => shred.index < meta.last_index
    /\ shred.index = LastIndex[shred.slot] => shred.index >= meta.received
    /\ verify_shred_slots(shred.slot, meta.parent_slot)

\* The first index from this one on that is not present.
first_missing(present, from) ==
    Min({i \in from .. from + Cardinality(present) : i \notin present})

\* update_completed_data_indexes: the data sets around the new shred that have
\* become complete, as pairs of their first and last index.
completed_ranges(ends, is_end, index, present) ==
    LET below == {e \in ends : e < index}
        above == {e \in ends : e > index}
        start == IF below = {} THEN 0 ELSE Max(below) + 1
        cuts  == (IF is_end THEN {index} ELSE {}) \cup (IF above = {} THEN {} ELSE {Min(above)})
        first == {<<start, e>> : e \in IF cuts = {} THEN {} ELSE {Min(cuts)}}
        rest  == IF Cardinality(cuts) = 2 THEN {<<index + 1, Max(cuts)>>} ELSE {}
    IN  {r \in first \cup rest : r[1] .. r[2] \subseteq present}

update_slot_meta(meta, shred, is_end, new_consumed) ==
    [meta EXCEPT
        !.consumed = new_consumed,
        !.received = Max({@, shred.index + 1}),
        !.last_index =
            IF @ = NoSlot /\ shred.index = LastIndex[shred.slot] THEN shred.index ELSE @,
        !.completed_data_indexes = @ \cup IF is_end THEN {shred.index} ELSE {}]

\* The working set after the shred, and the data sets it completes.
insert_data_shred(w, meta, shred) ==
    LET slot    == shred.slot
        present == w.data[slot] \cup {shred.index}
        is_end  == shred.index = LastIndex[slot] \/ shred.index \in DataEnds[slot]
        new_consumed == IF meta.consumed = shred.index
                        THEN first_missing(present, shred.index) ELSE meta.consumed
    IN  [w EXCEPT
            !.metas = (slot :> update_slot_meta(meta, shred, is_end, new_consumed)) @@ @,
            !.data[slot] = present,
            !.inserted = @ \cup {slot},
            !.reported = @ (+) SetToBag({<<slot, r>> :
                r \in completed_ranges(meta.completed_data_indexes, is_end, shred.index, present)})]

check_insert_data_shred(w, shred) ==
    LET meta == slot_meta_entry(w.metas, shred.slot)
    IN  IF \/ is_data_shred_present(meta, w.data[shred.slot], shred)
           \/ ~ should_insert_data_shred(meta, shred)
        THEN w
        ELSE insert_data_shred(w, meta, shred)

\* chain_new_slot_to_prev_slot; a parent not heard of yet is entered as an orphan.
chained(w, slot) ==
    LET prev_slot == w.metas[slot].parent_slot
        prev      == IF prev_slot \in DOMAIN w.metas THEN w.metas[prev_slot]
                     ELSE new_slot_meta(prev_slot, NoSlot)
    IN  [w EXCEPT
            !.metas = (prev_slot :> [prev EXCEPT !.next_slots = Append(@, slot)])
                      @@ (slot :> [@[slot] EXCEPT !.is_connected = prev.is_connected /\ is_full(prev)])
                      @@ @,
            !.orphans = IF is_orphan(prev) THEN @ \cup {prev_slot} ELSE @]

\* Fault form: only the slots that build on this one directly.
reached_next(m, slot) == {slot} \cup Range(m[slot].next_slots)

\* traverse_children_mut from this slot through the full ones.
reached(m, slot) ==
    LET reach[n \in 0 .. Cardinality(DOMAIN m)] ==
            IF n = 0 THEN {slot}
            ELSE reach[n - 1] \cup
                 UNION {Range(m[s].next_slots) : s \in {t \in reach[n - 1] : is_full(m[t])}}
    IN  reach[Cardinality(DOMAIN m)]

is_newly_completed_slot(m, slot) ==
    is_full(m[slot]) /\ (slot \in DOMAIN metas => m[slot].consumed # metas[slot].consumed)

handle_chaining_for_slot(w, slot) ==
    LET was_orphan == slot \in DOMAIN metas /\ is_orphan(metas[slot])
        linked == IF slot # 0 /\ (slot \notin DOMAIN metas \/ was_orphan) THEN chained(w, slot) ELSE w
        known  == IF was_orphan THEN [linked EXCEPT !.orphans = @ \ {slot}] ELSE linked
    IN  IF is_newly_completed_slot(known.metas, slot) /\ known.metas[slot].is_connected
        THEN [known EXCEPT !.metas =
                 [s \in reached(@, slot) |-> [@[s] EXCEPT !.is_connected = TRUE]] @@ @]
        ELSE known

\* Fault form: a new slot gives no signal.
slot_known_has_updates(m, slot) ==
    m[slot].is_connected /\ slot \in DOMAIN metas /\ metas[slot].consumed # m[slot].consumed

slot_has_updates(m, slot) ==
    /\ m[slot].is_connected
    /\ IF slot \in DOMAIN metas THEN metas[slot].consumed # m[slot].consumed ELSE m[slot].consumed # 0

Init ==
    /\ metas = [s \in {0} |-> [new_slot_meta(0, 0) EXCEPT
            !.consumed = LastIndex[0] + 1, !.received = LastIndex[0] + 1,
            !.last_index = LastIndex[0], !.completed_data_indexes = DataEnds[0] \cup {LastIndex[0]}]]
    /\ data = [s \in Slots |-> IF s = 0 THEN Indexes(0) ELSE {}]
    /\ orphans = {}
    /\ last_root = 0
    /\ last_purge_slot = 0
    /\ signal = FALSE
    /\ completed = [s \in Slots |-> IF s = 0 THEN 1 ELSE 0]
    /\ reported = EmptyBag
    /\ purging = <<>>

\* insert_shreds_handle_duplicate.  The working set is walked in the order of a
\* hash map; everything is written in one batch.
InsertShreds(shreds, order) ==
    \E w1 \in {FoldLeft(check_insert_data_shred,
                 [metas |-> metas, data |-> data, orphans |-> orphans,
                  inserted |-> {}, reported |-> reported], shreds)} :
    \E w \in {FoldLeft(handle_chaining_for_slot, w1,
                       SelectSeq(order, LAMBDA s : s \in w1.inserted))} :
        /\ metas' = w.metas
        /\ data' = w.data
        /\ orphans' = w.orphans
        /\ reported' = w.reported
        /\ signal' = (signal \/ \E s \in w.inserted : slot_has_updates(w.metas, s))
        /\ completed' = [s \in Slots |->
              IF s \in w.inserted /\ is_newly_completed_slot(w.metas, s)
              THEN completed[s] + 1 ELSE completed[s]]
        /\ UNCHANGED <<last_root, last_purge_slot, purging>>

\* Replay takes the signal before it looks at the slots.
TakeSignal ==
    /\ signal
    /\ signal' = FALSE
    /\ UNCHANGED <<metas, data, orphans, last_root, last_purge_slot, completed, reported, purging>>

Ancestors[slot \in Slots] == IF slot = 0 THEN {} ELSE {Parent[slot]} \cup Ancestors[Parent[slot]]

\* Blockstore::set_roots: replay roots a block that it has replayed.
SetRoots(slot) ==
    /\ slot \in DOMAIN metas
    /\ last_root \in Ancestors[slot]
    /\ metas[slot].is_connected /\ is_full(metas[slot])
    /\ last_root' = slot
    /\ UNCHANGED <<metas, data, orphans, last_purge_slot, signal, completed, reported, purging>>

\* Fault form: goes on past the root.
total_slots_all == SetToSortSeq(DOMAIN metas, LAMBDA s, t : s > t)

\* find_slots_to_clean: the slots up to the root, and one above it, newest first,
\* and the last of them to be dropped.
total_slots ==
    SetToSortSeq({s \in DOMAIN metas : \A t \in DOMAIN metas : t > last_root => s <= t},
                 LAMBDA s, t : s > t)

num_shreds(slots) == FoldLeft(LAMBDA sum, s : sum + metas[s].received, 0, slots)

lowest_cleanup_slot ==
    LET over == {i \in DOMAIN total_slots : num_shreds(SubSeq(total_slots, 1, i)) > max_ledger_shreds}
    IN  IF over = {} THEN Last(total_slots) ELSE total_slots[Min(over)]

\* cleanup_ledger decides which slots to drop ...
CleanupLedger ==
    /\ purging = <<>>
    /\ last_root - last_purge_slot > purge_interval
    /\ last_purge_slot' = last_root
    /\ purging' = IF num_shreds(total_slots) < max_ledger_shreds THEN <<>>
                  ELSE <<Last(total_slots), lowest_cleanup_slot>>
    /\ UNCHANGED <<metas, data, orphans, last_root, signal, completed, reported>>

\* ... and its thread drops them, without the lock of insert_shreds.
PurgeSlots ==
    /\ purging # <<>>
    /\ LET purged == purging[1] .. purging[2]
       IN  /\ metas' = Restrict(metas, DOMAIN metas \ purged)
           /\ data' = [s \in Slots |-> IF s \in purged THEN {} ELSE data[s]]
           /\ orphans' = orphans \ purged
    /\ purging' = <<>>
    /\ UNCHANGED <<last_root, last_purge_slot, signal, completed, reported>>

Next ==
    \/ \E n \in 1 .. MaxBatch : \E shreds \in [1 .. n -> Shreds] :
          \E order \in SetToSeqs({shreds[i].slot : i \in 1 .. n}) :
              InsertShreds(shreds, order)
    \/ TakeSignal
    \/ \E slot \in Slots : SetRoots(slot)
    \/ CleanupLedger
    \/ PurgeSlots

Spec == Init /\ [][Next]_vars

-----------------------------------------------------------------------------

Ends(slot) == DataEnds[slot] \cup {LastIndex[slot]}

\* The metadata of a slot says exactly which of its shreds are there: how many
\* from the first on without a hole, the highest, the last one and the ends of
\* data sets, whatever the order they came in.
TypeOK ==
    /\ signal \in BOOLEAN
    /\ last_root \in DOMAIN metas
    /\ \A s \in DOMAIN metas :
          /\ 0 .. metas[s].consumed - 1 \subseteq data[s] /\ metas[s].consumed \notin data[s]
          /\ metas[s].received = IF data[s] = {} THEN 0 ELSE Max(data[s]) + 1
          /\ metas[s].last_index = IF LastIndex[s] \in data[s] THEN LastIndex[s] ELSE NoSlot
          /\ metas[s].completed_data_indexes = data[s] \cap Ends(s)

\* Replay finds every block through its parent: next_slots lists each slot that
\* builds on a slot exactly once, and the slots without a parent are the orphans
\* that repair asks for.
ChainExact ==
    /\ orphans = {s \in DOMAIN metas : is_orphan(metas[s])}
    /\ \A p \in DOMAIN metas :
          /\ Range(metas[p].next_slots) = {s \in DOMAIN metas \ {0} : metas[s].parent_slot = p}
          /\ Cardinality(Range(metas[p].next_slots)) = Len(metas[p].next_slots)
    /\ \A s \in DOMAIN metas : ~ is_orphan(metas[s]) =>
          metas[s].parent_slot \in DOMAIN metas \/ metas[s].parent_slot < last_root

\* A slot counts as connected exactly when its parent is connected and full,
\* whichever of the two was completed last and in whatever order a batch that
\* has both was walked.
ConnectedExact ==
    \A s \in DOMAIN metas :
        IF metas[s].parent_slot \in DOMAIN metas /\ s # 0
        THEN LET p == metas[metas[s].parent_slot]
             IN  metas[s].is_connected <=> p.is_connected /\ is_full(p)
        ELSE is_orphan(metas[s]) => ~ metas[s].is_connected

\* A slot is announced as completed once, when its last missing shred comes.
CompletedOnce ==
    \A s \in DOMAIN metas : completed[s] = IF is_full(metas[s]) THEN 1 ELSE 0

\* Each set of data is reported once, when all its shreds and the end of the set
\* before it are there.
DataSetsOnce ==
    \A s \in DOMAIN metas \ {0} :
        LET starts == {0} \cup {e + 1 : e \in Ends(s) \cap data[s]}
            sets   == {<<b, e>> \in starts \X Ends(s) :
                          b <= e /\ b .. e \subseteq data[s] /\ \A f \in Ends(s) : f < b \/ f >= e}
        IN  /\ {x \in BagToSet(reported) : x[1] = s} = {<<s, r>> : r \in sets}
            /\ \A r \in sets : CopiesIn(<<s, r>>, reported) = 1

\* The consecutive shreds replay can get at in a slot.
playable(m, s) == IF s \in DOMAIN m /\ m[s].is_connected THEN m[s].consumed ELSE 0

\* Replay is never left asleep: what gives it more shreds to play, in a slot
\* inserted into or in one that is connected by it, leaves a signal pending.
SignalKept == \A s \in Slots : playable(metas', s) > playable(metas, s) => signal'

\* The cleanup never drops a shred of the root or of a slot above it, although
\* it works on slots it chose earlier.
RootedShredsKept == \A s \in Slots : s >= last_root => data[s] \subseteq data'[s]
=============================================================================
