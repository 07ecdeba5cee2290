----------------- MODULE OptimisticallyConfirmedBankTracker -----------------
(***************************************************************************)
(* The bank that RPC serves as optimistically confirmed.  The listener     *)
(* notifies of confirmed slots, replay of frozen banks and of roots; the   *)
(* three come in one channel but in any order, and bank_forks moves on     *)
(* while a notification waits.                                             *)
(***************************************************************************)
EXTENDS Integers, FiniteSets, FiniteSetsExt, Sequences

CONSTANT Parent    \* the blocks, each with its parent; 0 is the start

VARIABLES
    banks,              \* the frozen banks of bank_forks
    root,
    replay,             \* replay thread: the step it is in and its slot
    confirmed,          \* the slots the listener has confirmed
    notifications,      \* the channel
    confirmed_bank,     \* the slot of the optimistically confirmed bank
    pending             \* confirmed slots whose banks are not frozen yet

vars == <<banks, root, replay, confirmed, notifications, confirmed_bank, pending>>

replayVars == <<banks, root, replay, confirmed>>
trackerVars == <<confirmed_bank, pending>>

Blocks == DOMAIN Parent
AllSlots == Blocks \cup {0}

Ancestors[slot \in AllSlots] ==
    {slot} \cup IF slot = 0 THEN {} ELSE Ancestors[Parent[slot]]

Init ==
    /\ banks = {0}
    /\ root = 0
    /\ replay = [pc |-> "idle", slot |-> 0]
    /\ confirmed = {}
    /\ notifications = <<>>
    /\ confirmed_bank = 0
    /\ pending = {}

\* The listener confirms each slot once, above a root it read some time ago.
Confirm(slot) ==
    /\ slot \notin confirmed
    /\ confirmed' = confirmed \cup {slot}
    /\ notifications' = Append(notifications, [kind |-> "OptimisticallyConfirmed", slot |-> slot])
    /\ UNCHANGED <<banks, root, replay>>
    /\ UNCHANGED trackerVars

(***************************************************************************)
(* Replay                                                                  *)
(***************************************************************************)

Freeze(slot) ==
    /\ replay.pc = "idle"
    /\ slot \notin banks
    /\ Parent[slot] \in banks
    /\ banks' = banks \cup {slot}
    /\ replay' = [pc |-> "frozen", slot |-> slot]
    /\ UNCHANGED <<root, confirmed, notifications>>
    /\ UNCHANGED trackerVars

\* Sends the notification of the bank just frozen, or of the new root.
Notify(pc, kind) ==
    /\ replay.pc = pc
    /\ notifications' = Append(notifications, [kind |-> kind, slot |-> replay.slot])
    /\ replay' = [pc |-> "idle", slot |-> 0]
    /\ UNCHANGED <<banks, root, confirmed>>
    /\ UNCHANGED trackerVars

NotifyFrozen == Notify("frozen", "Frozen")
NotifyRoot == Notify("rooted", "Root")

kept(slot) == {s \in banks : slot \in Ancestors[s]}

SetRoot(slot) ==
    /\ replay.pc = "idle"
    /\ slot \in banks
    /\ slot > root
    /\ root' = slot
    /\ banks' = kept(slot)
    /\ replay' = [pc |-> "rooted", slot |-> slot]
    /\ UNCHANGED <<confirmed, notifications>>
    /\ UNCHANGED trackerVars

(***************************************************************************)
(* Tracker                                                                 *)
(***************************************************************************)

Received == Head(notifications)

\* Fault form: a confirmation that comes before its bank is dropped.
pending_never(slot) == {}

pending_slot(slot) == IF slot > root THEN {slot} ELSE {}

\* One step: the first read lock on bank_forks is held to the end of the if-let,
\* so the root is that of the same bank_forks; a freeze takes no such lock, and a
\* bank frozen meanwhile is notified after the slot is pending.
ReceiveConfirmed ==
    /\ notifications # <<>>
    /\ Received.kind = "OptimisticallyConfirmed"
    /\ notifications' = Tail(notifications)
    /\ IF Received.slot \in banks
       THEN /\ confirmed_bank' = Max({confirmed_bank, Received.slot})
            /\ UNCHANGED pending
       ELSE /\ pending' = pending \cup pending_slot(Received.slot)
            /\ UNCHANGED confirmed_bank
    /\ UNCHANGED replayVars

bank_after_frozen(slot) ==
    IF slot \in pending THEN Max({confirmed_bank, slot}) ELSE confirmed_bank

ReceiveFrozen ==
    /\ notifications # <<>>
    /\ Received.kind = "Frozen"
    /\ notifications' = Tail(notifications)
    /\ confirmed_bank' = bank_after_frozen(Received.slot)
    /\ pending' = pending \ {Received.slot}
    /\ UNCHANGED replayVars

bank_after_root(slot) == Max({confirmed_bank, slot})

ReceiveRoot ==
    /\ notifications # <<>>
    /\ Received.kind = "Root"
    /\ notifications' = Tail(notifications)
    /\ confirmed_bank' = bank_after_root(Received.slot)
    /\ pending' = {s \in pending : s > Received.slot}
    /\ UNCHANGED replayVars

Track == ReceiveConfirmed \/ ReceiveFrozen \/ ReceiveRoot

Next ==
    \/ \E slot \in Blocks : Confirm(slot) \/ Freeze(slot) \/ SetRoot(slot)
    \/ NotifyFrozen \/ NotifyRoot
    \/ ReceiveConfirmed \/ ReceiveFrozen \/ ReceiveRoot

\* Replay finishes a step it has begun, and the tracker's thread keeps receiving.
Fairness == WF_vars(NotifyFrozen \/ NotifyRoot) /\ WF_vars(Track)

Spec == Init /\ [][Next]_vars /\ Fairness

(***************************************************************************)
(* Properties                                                              *)
(***************************************************************************)

TypeOK ==
    /\ banks \subseteq AllSlots /\ root \in banks
    /\ replay.pc \in {"idle", "frozen", "rooted"}
    /\ confirmed_bank \in AllSlots
    /\ pending \subseteq Blocks

\* RPC never serves a slot as optimistically confirmed that is neither confirmed
\* nor rooted.
ServedIsConfirmed == confirmed_bank \in confirmed \cup Ancestors[root]
=============================================================================
