---------------------------- MODULE MCVoteState -----------------------------
(***************************************************************************)
(* Three instances of VoteState for TLC.  The module's own variables are    *)
(* those of the instance the configuration describes: two keys and epochs   *)
(* of two slots.  The instances Deep and Timed share a second set.  part,   *)
(* chosen at the start, says which instance moves: the others stay in their *)
(* initial states.                                                          *)
(***************************************************************************)
EXTENDS VoteState, TLC

CONSTANTS k1, k2

VARIABLES part, slot2, chain2, slot_hashes2, account2, tx2

\* One key, epochs of one slot; a deeper stack, and votes of two slots.
Deep == INSTANCE VoteState WITH
    slot <- slot2, chain <- chain2, slot_hashes <- slot_hashes2,
    account <- account2, tx <- tx2,
    MAX_LOCKOUT_HISTORY <- 3, Pubkeys <- {k1}, Timestamps <- {},
    SLOTS_PER_EPOCH <- 1, LEADER_SCHEDULE_SLOT_OFFSET <- 1, MAX_SLOT_HASHES <- 4,
    MaxSlot <- 6, MaxVoteSlots <- 2, MaxLamports <- 1

\* One key and one epoch; votes of two slots, with timestamps.
Timed == INSTANCE VoteState WITH
    slot <- slot2, chain <- chain2, slot_hashes <- slot_hashes2,
    account <- account2, tx <- tx2,
    MAX_LOCKOUT_HISTORY <- 2, Pubkeys <- {k1}, Timestamps <- {0, 1},
    SLOTS_PER_EPOCH <- 4, LEADER_SCHEDULE_SLOT_OFFSET <- 4, MAX_SLOT_HASHES <- 2,
    MaxSlot <- 4, MaxVoteSlots <- 2, MaxLamports <- 2

vars2 == <<slot2, chain2, slot_hashes2, account2, tx2>>

MCInit ==
    /\ part \in {"authority", "lockouts", "votes"}
    /\ Init
    /\ Deep!Init

MCNext ==
    /\ UNCHANGED part
    /\ \/ part = "authority" /\ Next /\ UNCHANGED vars2
       \/ part = "lockouts" /\ Deep!Next /\ UNCHANGED vars
       \/ part = "votes" /\ Timed!Next /\ UNCHANGED vars

MCSpec == MCInit /\ [][MCNext]_<<part, vars, vars2>>

\* Keys are interchangeable: no definition of VoteState names one.
KeySymmetry == Permutations({k1, k2})
-----------------------------------------------------------------------------
\* The stack, the fork and the records by epoch once more, with a stack that
\* becomes full while lockouts run out, votes of several slots that repeat old
\* ones, and timestamps, which are never ahead of the last vote.
LongRunsSound ==
    /\ part = "lockouts" =>
          Deep!StackInv /\ Deep!RecordedOnFork /\ Deep!EpochRecordsChained
    /\ part = "votes" => Timed!TypeOK /\ Timed!RecordedOnFork
-----------------------------------------------------------------------------
(* The loop of check_slots_are_valid as the code runs it, for reference: i   *)
(* counts the vote's slots passed, j the slot hashes not yet passed.         *)

Walk(votes, slots) ==
    LET n == Len(slots)
        m == Len(slot_hashes2)
        walk[i \in 0 .. n, j \in 0 .. m] ==
            IF i = n \/ j = 0 THEN <<i, j>>
            ELSE IF slots[i + 1] <= last_voted_slot(votes) THEN walk[i + 1, j]
            ELSE IF slots[i + 1] # slot_hashes2[j] THEN walk[i, j - 1]
            ELSE walk[i + 1, j - 1]
    IN  walk[0, m]

UpToThreeSlots == UNION {[1 .. n -> 0 .. 4] : n \in 1 .. 3}

\* The declarative check_slots_are_valid accepts exactly the votes that the
\* code's loop and its three error returns let through.
WalkAgrees ==
    part = "votes" /\ tx2 = NoTx =>
        \A slots \in UpToThreeSlots : \A w \in {Walk(account2.votes, slots)}, hash \in 0 .. 4 :
            LET ok == /\ w[2] # Len(slot_hashes2)
                      /\ w[1] = Len(slots)
                      /\ slot_hashes2[w[2] + 1] = hash
            IN  Timed!check_slots_are_valid(account2.votes, [slots |-> slots, hash |-> hash])
                    <=> ok
=============================================================================
