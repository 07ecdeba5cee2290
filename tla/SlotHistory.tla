----------------------------- MODULE SlotHistory ----------------------------
(***************************************************************************)
(* sdk/program/src/slot_history.rs: the sysvar that tells which of the last *)
(* MAX_ENTRIES slots have a block on this fork, as a ring of bits.  Every   *)
(* bank adds its slot when it is frozen; slots without a block are skipped. *)
(***************************************************************************)
EXTENDS Integers

CONSTANTS
    MAX_ENTRIES,    \* 2 ^ 20 in the code
    AddedSlots      \* the slots a block may have

ASSUME SlotHistoryAssumption ==
    /\ MAX_ENTRIES \in Nat \ {0}
    /\ AddedSlots \subseteq Nat

VARIABLES
    bits,           \* the ring
    next_slot,      \* one above the newest slot
    added           \* history: every slot ever added

vars == <<bits, next_slot, added>>

Ring == 0 .. (MAX_ENTRIES - 1)

index(slot) == slot % MAX_ENTRIES

\* No slot newer than the history has been added.
TypeOK ==
    /\ bits \in [Ring -> BOOLEAN]
    /\ next_slot \in Nat \ {0}
    /\ added \subseteq 0 .. (next_slot - 1)

\* SlotHistory::default
Init ==
    /\ bits = [i \in Ring |-> i = 0]
    /\ next_slot = 1
    /\ added = {0}

\* The whole ring has been skipped.
wraps(slot) == slot > next_slot /\ slot - next_slot >= MAX_ENTRIES

\* Fault form: the slot before the new one is not cleared.
skipped_but_last(slot) == {index(s) : s \in next_slot .. (slot - 2)}

skipped(slot) == {index(s) : s \in next_slot .. (slot - 1)}

after(slot) == slot + 1

\* A bank is newer than its ancestors, so slot is newer than the history.
add(slot) ==
    /\ slot >= next_slot
    /\ bits' = [i \in Ring |->
                   \/ i = index(slot)
                   \/ bits[i] /\ ~ wraps(slot) /\ i \notin skipped(slot)]
    /\ next_slot' = after(slot)
    /\ added' = added \cup {slot}

Next == \E slot \in AddedSlots : add(slot)

Spec == Init /\ [][Next]_vars
-----------------------------------------------------------------------------
newest == next_slot - 1

oldest == IF next_slot > MAX_ENTRIES THEN next_slot - MAX_ENTRIES ELSE 0

check(slot) ==
    IF slot > newest THEN "Future"
    ELSE IF slot < oldest THEN "TooOld"
    ELSE IF bits[index(slot)] THEN "Found" ELSE "NotFound"

\* check tells exactly which of the last MAX_ENTRIES slots were added, however
\* far the history jumped and however often the ring has wrapped; a restored
\* tower is anchored on these answers (adjust_lockouts_with_slot_history).
CheckIsExact ==
    \A slot \in oldest .. newest : check(slot) = IF slot \in added THEN "Found" ELSE "NotFound"
=============================================================================
