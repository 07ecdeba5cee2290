---------------------------- MODULE PohRecorder ----------------------------
(***************************************************************************)
(* The proof-of-history recorder of a leader: the tick producer, the       *)
(* banking threads and the replay stage share it behind a lock.  Ticks are *)
(* cached until a bank of this validator is there to receive them; the     *)
(* bank gets the ticks after its parent's last one up to its own last one, *)
(* with the recorded transactions in between.  The replay stage freezes    *)
(* complete banks, resets the recorder to another block and starts the     *)
(* banks this validator leads, taking the lock anew for each step.         *)
(***************************************************************************)
EXTENDS Integers, Sequences, SequencesExt, FiniteSets, FiniteSetsExt

CONSTANTS
    ticks_per_slot,
    LeaderSlots,     \* the slots this validator leads
    MaxSlot,         \* bound: the last slot of the confirmed leader schedule
    MaxRecords,      \* bound: the transaction entries of a slot
    NoSlot

GRACE_TICKS_FACTOR == 2
MAX_GRACE_SLOTS == 2
NUM_CONSECUTIVE_LEADER_SLOTS == 4

VARIABLES
    poh,          \* the recorder, and the entries it has sent for each slot
    frozen,       \* the frozen banks of bank_forks
    parent,       \* the banks this validator started, each with its parent
    loop,         \* the step of the replay loop
    tpu_has_bank, \* local to the replay loop
    last_reset,   \* local: the bank the recorder was last reset to
    starting      \* local: the slot and the parent of the bank to start

vars == <<poh, frozen, parent, loop, tpu_has_bank, last_reset, starting>>

Slots == 0 .. MaxSlot
None == [slot |-> NoSlot, min |-> 0, max |-> 0]

\* LeaderScheduleCache::next_leader_slot: the first slot to lead after `current`
\* and the last one of its run, without those that have received shreds.
next_leader_slot(current, received) ==
    LET mine == {s \in LeaderSlots \ received : s > current}
        first == Min(mine)
        run == {s \in mine : first .. s \subseteq LeaderSlots}
        far == {s \in run : s > first /\ s - first + 1 >= GRACE_TICKS_FACTOR * MAX_GRACE_SLOTS}
    IN  IF mine = {} THEN <<>>
        ELSE <<first, IF far = {} THEN Max(run) ELSE Min(far)>>

\* compute_leader_slot_tick_heights; would_be_leader's last tick is left out.
with_leader_slot(p, next) ==
    IF next = <<>>
    THEN [p EXCEPT !.leader_first_tick_height = 0,
                   !.grace_ticks = Min({ticks_per_slot * MAX_GRACE_SLOTS,
                       (ticks_per_slot * NUM_CONSECUTIVE_LEADER_SLOTS) \div GRACE_TICKS_FACTOR})]
    ELSE LET num_slots == next[2] - next[1] + 1
             grace_ticks == Min({ticks_per_slot * MAX_GRACE_SLOTS,
                                 (ticks_per_slot * num_slots) \div GRACE_TICKS_FACTOR})
         IN  [p EXCEPT !.leader_first_tick_height = next[1] * ticks_per_slot + 1 + grace_ticks,
                       !.grace_ticks = grace_ticks]

clear_bank(p, received) ==
    IF p.working_bank = None THEN p
    ELSE with_leader_slot([p EXCEPT !.working_bank = None],
                          next_leader_slot(p.working_bank.slot, received))

reset(p, start_slot, next, received) ==
    with_leader_slot(
        [clear_bank(p, received) EXCEPT
            !.tick_cache = <<>>,
            !.start_slot = start_slot,
            !.tick_height = (start_slot + 1) * ticks_per_slot,
            !.start_tick_height = (start_slot + 1) * ticks_per_slot + 1],
        next)

tick_entry(height) == [tick |-> TRUE, height |-> height]
record_entry(height) == [tick |-> FALSE, height |-> height]

\* The cached ticks that belong to the working bank.
ready(p) == SelectSeq(p.tick_cache, LAMBDA h : h <= p.working_bank.max)

min_height_reached(p, tick) ==
    IF tick THEN p.tick_height > p.working_bank.min ELSE p.tick_height >= p.working_bank.min

\* Fault form: the ticks sent stay in the cache.
send_ready_undrained(p) ==
    [p EXCEPT !.entries[p.working_bank.slot] = @ \o [i \in 1 .. Len(ready(p)) |-> tick_entry(ready(p)[i])]]

\* The ticks are registered with the bank and sent; the channel is open.
send_ready(p) ==
    [p EXCEPT !.entries[p.working_bank.slot] = @ \o [i \in 1 .. Len(ready(p)) |-> tick_entry(ready(p)[i])],
              !.tick_cache = SubSeq(@, Len(ready(p)) + 1, Len(@))]

flush_cache(p, tick, received) ==
    IF p.working_bank = None \/ ~ min_height_reached(p, tick) THEN p
    ELSE IF p.tick_height >= p.working_bank.max
         THEN LET working_slot == p.working_bank.max \div ticks_per_slot - 1
              IN  clear_bank([send_ready(p) EXCEPT
                                 !.start_slot = working_slot,
                                 !.start_tick_height = working_slot * ticks_per_slot + 1],
                             received)
         ELSE send_ready(p)

\* PohRecorder::tick, when the hash chain is at a tick.
tick(p, received) ==
    LET ticked == [p EXCEPT !.tick_height = @ + 1]
    IN  IF p.leader_first_tick_height = 0 THEN ticked
        ELSE flush_cache([ticked EXCEPT !.tick_cache = Append(@, ticked.tick_height)], TRUE, received)

set_bank(p, slot, parent_slot, received) ==
    flush_cache([p EXCEPT !.working_bank = [slot |-> slot,
                                            min |-> (parent_slot + 1) * ticks_per_slot,
                                            max |-> (slot + 1) * ticks_per_slot]],
                FALSE, received)

\* PohRecorder::record.  When the next hash must be a tick, the recorder ticks
\* and tries again; the bank may be complete by then.
record(p, slot, needs_tick, received) ==
    LET flushed == flush_cache(p, FALSE, received)
        ticked == IF needs_tick /\ flushed.working_bank.slot = slot
                  THEN flush_cache(tick(flushed, received), FALSE, received)
                  ELSE flushed
    IN  IF ticked.working_bank.slot = slot /\ min_height_reached(ticked, FALSE)
        THEN [ticked EXCEPT !.entries[slot] = Append(@, record_entry(ticked.tick_height))]
        ELSE ticked

\* is_same_fork_as_previous_leader and prev_slot_was_mine.
no_grace_needed(p) ==
    LET current_slot == p.tick_height \div ticks_per_slot
    IN  \/ current_slot - 1 \in LeaderSlots
        \/ p.start_slot \notin current_slot - NUM_CONSECUTIVE_LEADER_SLOTS .. current_slot - 1

reached_leader_tick(p) ==
    LET target == p.leader_first_tick_height - 1
    IN  \/ p.tick_height >= target
        \/ p.start_tick_height + p.grace_ticks = p.leader_first_tick_height
        \/ p.tick_height >= target - p.grace_ticks /\ no_grace_needed(p)

reached_leader_slot(p) == p.leader_first_tick_height # 0 /\ reached_leader_tick(p)

poh_slot(p) == p.tick_height \div ticks_per_slot

\* Bank::tick_height and Bank::is_complete, for a bank this validator leads.
bank_tick_height(slot) ==
    (parent[slot] + 1) * ticks_per_slot
        + Len(SelectSeq(poh.entries[slot], LAMBDA e : e.tick))

\* Fault form: complete one tick early.
is_complete_early(slot) == bank_tick_height(slot) + 1 >= (slot + 1) * ticks_per_slot

is_complete(slot) == bank_tick_height(slot) = (slot + 1) * ticks_per_slot

\* The broadcast stage stores the shreds of a slot some time after its entries.
Received == SUBSET {s \in LeaderSlots : poh.entries[s] # <<>>}

Init ==
    /\ poh = with_leader_slot(
                [tick_height |-> ticks_per_slot, tick_cache |-> <<>>, working_bank |-> None,
                 start_slot |-> 0, start_tick_height |-> ticks_per_slot + 1,
                 leader_first_tick_height |-> 0, grace_ticks |-> 0,
                 entries |-> [s \in LeaderSlots |-> <<>>]],
                next_leader_slot(0, {}))
    /\ frozen = {0}
    /\ parent = [s \in {} |-> 0]
    /\ loop = "poll"
    /\ tpu_has_bank = FALSE
    /\ last_reset = 0
    /\ starting = <<>>

\* The tick producer.
Tick ==
    /\ poh.tick_height < (MaxSlot + 1) * ticks_per_slot
    /\ \E received \in Received : poh' = tick(poh, received)
    /\ UNCHANGED <<frozen, parent, loop, tpu_has_bank, last_reset, starting>>

\* A banking thread records transactions of the bank it processed them in.
Record ==
    /\ \E slot \in DOMAIN parent, needs_tick \in BOOLEAN, received \in Received :
        /\ Len(SelectSeq(poh.entries[slot], LAMBDA e : ~ e.tick)) < MaxRecords
        /\ needs_tick => poh.tick_height < (MaxSlot + 1) * ticks_per_slot
        /\ poh' = record(poh, slot, needs_tick, received)
    /\ UNCHANGED <<frozen, parent, loop, tpu_has_bank, last_reset, starting>>

\* The replay loop notes whether a bank is being recorded ...
Poll ==
    /\ loop = "poll"
    /\ loop' = "replay"
    /\ tpu_has_bank' = (poh.working_bank # None)
    /\ UNCHANGED <<poh, frozen, parent, last_reset, starting>>

\* Fault form: the banks this validator leads are left to the recorder.
ReplayOthers ==
    /\ loop = "replay"
    /\ loop' = "reset"
    /\ \E replayed \in {{}} \cup {{s} : s \in Slots \ LeaderSlots} : frozen' = frozen \cup replayed
    /\ UNCHANGED <<poh, parent, tpu_has_bank, last_reset, starting>>

\* ... freezes the banks that are complete, its own and those it has replayed ...
ReplayActiveBanks ==
    /\ loop = "replay"
    /\ loop' = "reset"
    /\ \E replayed \in {{}} \cup {{s} : s \in Slots \ LeaderSlots} :
          frozen' = frozen \cup {s \in DOMAIN parent : is_complete(s)} \cup replayed
    /\ UNCHANGED <<poh, parent, tpu_has_bank, last_reset, starting>>

\* ... resets the recorder when fork choice names another bank ...
ResetPohRecorder ==
    /\ loop = "reset"
    /\ loop' = "start"
    /\ \/ /\ \E bank \in frozen \ {last_reset}, received \in Received :
                /\ poh' = reset(poh, bank, next_leader_slot(bank, received), received)
                /\ last_reset' = bank
          /\ tpu_has_bank' = FALSE
       \/ UNCHANGED <<poh, last_reset, tpu_has_bank>>
    /\ UNCHANGED <<frozen, parent, starting>>

\* ... and starts the next bank to lead: it looks whether the slot is reached,
\* may skip it as the last leader block has not propagated ...
MaybeStartLeader ==
    /\ loop = "start"
    /\ \/ /\ ~ tpu_has_bank
          /\ reached_leader_slot(poh)
          /\ poh_slot(poh) \in LeaderSlots \ DOMAIN parent
          /\ starting' = <<poh_slot(poh), poh.start_slot>>
          /\ loop' = "set"
       \/ UNCHANGED starting /\ loop' = "poll"
    /\ UNCHANGED <<poh, frozen, parent, tpu_has_bank, last_reset>>

\* ... and hands the new bank to the recorder, which has ticked meanwhile.
SetBank ==
    /\ loop = "set"
    /\ loop' = "poll"
    /\ parent' = [s \in DOMAIN parent \cup {starting[1]} |->
                     IF s = starting[1] THEN starting[2] ELSE parent[s]]
    /\ \E received \in Received : poh' = set_bank(poh, starting[1], starting[2], received)
    /\ starting' = <<>>
    /\ UNCHANGED <<frozen, tpu_has_bank, last_reset>>

Replay == Poll \/ ReplayActiveBanks \/ ResetPohRecorder \/ MaybeStartLeader \/ SetBank

Next == Tick \/ Record \/ Replay

Fairness == WF_vars(Tick) /\ WF_vars(Replay)

Spec == Init /\ [][Next]_vars /\ Fairness

-----------------------------------------------------------------------------

Entries == [tick : BOOLEAN, height : 0 .. (MaxSlot + 1) * ticks_per_slot]

\* The cache holds consecutive ticks; until no slot to lead is in sight, they
\* end at the recorder's height.
TypeOK ==
    /\ poh.tick_height \in 0 .. (MaxSlot + 1) * ticks_per_slot
    /\ poh.leader_first_tick_height # 0 =>
          \A i \in DOMAIN poh.tick_cache :
              poh.tick_cache[i] = poh.tick_height - Len(poh.tick_cache) + i
    /\ poh.start_slot \in Slots
    /\ \A s \in LeaderSlots : poh.entries[s] \in Seq(Entries)
    /\ frozen \subseteq Slots
    /\ DOMAIN parent \subseteq LeaderSlots
    /\ \A s \in DOMAIN parent : parent[s] < s

\* The entries sent for a block are in order: its ticks are those after its
\* parent's last one, each once, and a transaction entry stands between the
\* tick it was stamped with and the next one (record and flush_cache).
EntriesInOrder ==
    \A s \in DOMAIN parent :
        \A i \in DOMAIN poh.entries[s] :
            LET before == IF i = 1 THEN (parent[s] + 1) * ticks_per_slot
                                   ELSE poh.entries[s][i - 1].height
            IN  poh.entries[s][i].height = IF poh.entries[s][i].tick THEN before + 1 ELSE before

\* What verify_ticks asks of a leader's block holds of every block sent: never
\* more ticks than the slot has, and no entry behind the last tick.
BlockVerifies ==
    \A s \in DOMAIN parent :
        /\ bank_tick_height(s) <= (s + 1) * ticks_per_slot
        /\ is_complete(s) => Last(poh.entries[s]).tick
        /\ poh.working_bank.slot = s => ~ is_complete(s)

\* The assertions of maybe_start_leader hold although the lock is released
\* between the look at the recorder and the start: no bank is being recorded,
\* and the parent of the bank to start is frozen.
StartsOnFrozen ==
    /\ loop = "start" /\ ~ tpu_has_bank => poh.working_bank = None
    /\ starting # <<>> => /\ poh.working_bank = None
                          /\ starting[2] \in frozen
                          /\ starting[2] = poh.start_slot

\* Every tick since the block the recorder builds on is at hand when a slot to
\* lead is reached: cached, or sent to the bank being recorded.
TicksKept ==
    poh.leader_first_tick_height # 0 =>
        LET received_by_bank == IF poh.working_bank = None
                                THEN (poh.start_slot + 1) * ticks_per_slot
                                ELSE bank_tick_height(poh.working_bank.slot)
        IN  received_by_bank + Len(poh.tick_cache) = poh.tick_height

\* A frozen block gets no entry any more.
FrozenBlockKept == \A s \in frozen \cap LeaderSlots : poh'.entries[s] = poh.entries[s]

\* Every bank handed to the recorder is completed and frozen, unless the recorder
\* has been reset to another block.
BanksFinished ==
    \A s \in DOMAIN parent : s \in frozen \/ (poh.working_bank.slot # s /\ ~ is_complete(s))
=============================================================================
