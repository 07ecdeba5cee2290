------------------------------ MODULE Lockouts ------------------------------
(***************************************************************************)
(* The vote stack shared by the on-chain vote account and the validator's  *)
(* tower: programs/vote/src/vote_state/mod.rs, struct Lockout and the       *)
(* VoteState methods that push a vote, pop expired votes and double the     *)
(* lockouts of the votes below.  A stack is a sequence of lockouts, oldest  *)
(* vote first; a full stack pops its oldest vote, which becomes the root.   *)
(***************************************************************************)
EXTENDS Integers, Sequences

CONSTANT MAX_LOCKOUT_HISTORY    \* 31 in the code: votes kept in the stack

ASSUME MaxLockoutHistoryAssumption == MAX_LOCKOUT_HISTORY \in Nat \ {0}

INITIAL_LOCKOUT == 2

\* Option<Slot>::None
NoSlot == -1

SlotOption == Nat \cup {NoSlot}

Lockout == [slot : Nat, confirmation_count : Nat]

NewLockout(slot) == [slot |-> slot, confirmation_count |-> 1]

\* Number of slots for which a vote is locked, and the last of these slots.
lockout(v) == INITIAL_LOCKOUT ^ v.confirmation_count

expiration_slot(v) == v.slot + lockout(v)

is_expired(v, slot) == expiration_slot(v) < slot

last_voted_slot(votes) ==
    IF votes = <<>> THEN NoSlot ELSE votes[Len(votes)].slot

-----------------------------------------------------------------------------
\* How much of the stack the pop loop of pop_expired_votes keeps: it stops at
\* the first vote, from the top, that has not expired.
LiveHeight(votes, slot) ==
    CHOOSE k \in 0 .. Len(votes) :
        /\ k = 0 \/ ~ is_expired(votes[k], slot)
        /\ \A i \in (k + 1) .. Len(votes) : is_expired(votes[i], slot)

pop_expired_votes(votes, slot) == SubSeq(votes, 1, LiveHeight(votes, slot))

\* Fault form: the doubling comparison is off by one.
double_lockouts_off_by_one(votes) ==
    [i \in 1 .. Len(votes) |->
        IF Len(votes) >= (i - 1) + votes[i].confirmation_count
        THEN [votes[i] EXCEPT !.confirmation_count = @ + 1]
        ELSE votes[i]]

\* A vote's lockout doubles once more votes stand on it than it has ever had.
double_lockouts(votes) ==
    [i \in 1 .. Len(votes) |->
        IF Len(votes) > (i - 1) + votes[i].confirmation_count
        THEN [votes[i] EXCEPT !.confirmation_count = @ + 1]
        ELSE votes[i]]

\* The part of VoteState that process_slot changes, apart from the credits.
Stack == [votes : Seq(Lockout), root : SlotOption]

\* A slot no newer than the last vote is ignored.
is_ignored(votes, slot) == votes # <<>> /\ slot <= last_voted_slot(votes)

\* Does recording slot pop the oldest vote of a full stack?
pops_root(votes, slot) ==
    /\ ~ is_ignored(votes, slot)
    /\ Len(pop_expired_votes(votes, slot)) = MAX_LOCKOUT_HISTORY

process_slot(st, slot) ==
    LET live == pop_expired_votes(st.votes, slot)
        full == Len(live) = MAX_LOCKOUT_HISTORY
        kept == IF full THEN Tail(live) ELSE live
    IN  IF is_ignored(st.votes, slot) THEN st
        ELSE [votes |-> double_lockouts(Append(kept, NewLockout(slot))),
              root  |-> IF full THEN live[1].slot ELSE st.root]

-----------------------------------------------------------------------------
(* What the stack operations preserve. *)

\* Votes are in the order of their slots.
SlotsIncrease(votes) ==
    \A i, j \in 1 .. Len(votes) : i < j => votes[i].slot < votes[j].slot

\* A vote has been confirmed by every vote above it, is locked for longer than
\* these, and never has a lockout above 2 ^ MAX_LOCKOUT_HISTORY.
CountsCoverDepth(votes) ==
    \A i \in 1 .. Len(votes) :
        /\ votes[i].confirmation_count >= Len(votes) - i + 1
        /\ votes[i].confirmation_count <= MAX_LOCKOUT_HISTORY

CountsDecrease(votes) ==
    \A i, j \in 1 .. Len(votes) :
        i < j => votes[i].confirmation_count > votes[j].confirmation_count

\* The root is older than every vote, and a stack that has a root has a vote.
RootBelowVotes(st) ==
    /\ \A i \in 1 .. Len(st.votes) : st.root < st.votes[i].slot
    /\ st.votes = <<>> => st.root = NoSlot

WellFormedStack(st) ==
    /\ Len(st.votes) <= MAX_LOCKOUT_HISTORY
    /\ SlotsIncrease(st.votes)
    /\ CountsCoverDepth(st.votes)
    /\ CountsDecrease(st.votes)
    /\ RootBelowVotes(st)
=============================================================================
