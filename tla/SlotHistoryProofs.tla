-------------------------- MODULE SlotHistoryProofs -------------------------
(***************************************************************************)
(* The ring of SlotHistory answers exactly, for every MAX_ENTRIES and every *)
(* sequence of slots.                                                       *)
(***************************************************************************)
EXTENDS SlotHistory, TLAPS

\* Two slots less than a ring apart have different bits.
LEMMA WindowInjective ==
    ASSUME NEW n \in Nat \ {0}, NEW a \in Nat, NEW b \in Nat, a < b, b - a < n
    PROVE  a % n # b % n
<1> DEFINE p == a \div n
           q == b \div n
<1>1. /\ p \in Int /\ q \in Int
      /\ a = n * p + (a % n) /\ b = n * q + (b % n)
      OBVIOUS
<1>2. SUFFICES ASSUME a % n = b % n PROVE FALSE
      OBVIOUS
<1>3. b - a = n * (q - p)
      BY <1>1, <1>2
<1> DEFINE k == q - p
<1>4. k \in Int /\ 0 < n * k /\ n * k < n
      BY <1>1, <1>3
<1> HIDE DEF p, q, k
<1>5. CASE k <= 0
      BY <1>4, <1>5, SMTT(30)
<1>6. CASE k >= 1
      BY <1>4, <1>6, SMTT(30)
<1> QED
      BY <1>4, <1>5, <1>6

\* Every slot has a bit of the ring.
LEMMA IndexInRing == ASSUME NEW slot \in Nat PROVE index(slot) \in Ring
BY SlotHistoryAssumption DEF index, Ring

\* The inductive invariant: in the window the ring and the history agree.
IInv ==
    /\ TypeOK
    /\ \A s \in oldest .. newest : bits[index(s)] <=> s \in added

LEMMA InitIInv == Init => IInv
<1> SUFFICES ASSUME Init PROVE IInv
    OBVIOUS
<1>1. TypeOK
      BY SlotHistoryAssumption DEF Init, TypeOK, Ring
<1>2. \A s \in oldest .. newest : s = 0
      BY SlotHistoryAssumption DEF Init, oldest, newest
<1>3. index(0) = 0 /\ 0 \in Ring
      BY SlotHistoryAssumption DEF index, Ring
<1>4. bits[index(0)] /\ 0 \in added
      BY <1>3 DEF Init
<1> QED
    BY <1>1, <1>2, <1>4 DEF IInv

LEMMA AddIInv == ASSUME NEW slot \in AddedSlots, IInv, add(slot) PROVE IInv'
<1> USE SlotHistoryAssumption
<1>1. slot \in Nat /\ next_slot \in Nat \ {0} /\ slot >= next_slot
      /\ next_slot' = slot + 1 /\ added' = added \cup {slot}
      BY DEF IInv, TypeOK, add, after
<1>2. TypeOK'
  <2>1. bits' \in [Ring -> BOOLEAN]
        BY DEF add
  <2>2. added' \subseteq 0 .. slot
        BY <1>1 DEF IInv, TypeOK
  <2> QED
      BY <1>1, <2>1, <2>2 DEF TypeOK
<1>3. ASSUME NEW s \in (oldest .. newest)'
      PROVE  bits'[index(s)] <=> s \in added'
  <2>1. s \in Nat /\ s <= slot /\ slot - s < MAX_ENTRIES
        BY <1>1, <1>3 DEF oldest, newest
  <2>2. index(s) \in Ring
        BY <2>1, IndexInRing
  <2>3. bits'[index(s)] <=> \/ index(s) = index(slot)
                            \/ /\ bits[index(s)]
                               /\ ~ wraps(slot)
                               /\ index(s) \notin skipped(slot)
        BY <2>2 DEF add
  <2>4. \A t \in Nat : s < t /\ t <= slot => index(s) # index(t)
    <3> SUFFICES ASSUME NEW t \in Nat, s < t, t <= slot PROVE index(s) # index(t)
        OBVIOUS
    <3>1. t - s < MAX_ENTRIES
          BY <1>1, <2>1
    <3> QED
        BY <2>1, <3>1, WindowInjective DEF index
  <2>5. CASE s = slot
        BY <1>1, <2>3, <2>5
  <2>6. CASE s < slot /\ s >= next_slot
    <3>1. index(s) # index(slot)
          BY <1>1, <2>4, <2>6
    <3>2. index(s) \in skipped(slot)
          BY <1>1, <2>1, <2>6 DEF skipped
    <3>3. s \notin added'
          BY <1>1, <2>6 DEF IInv, TypeOK
    <3> QED
        BY <2>3, <3>1, <3>2, <3>3
  <2>7. CASE s < next_slot
    <3>1. index(s) # index(slot)
          BY <1>1, <2>1, <2>4, <2>7
    <3>2. ~ wraps(slot)
          BY <1>1, <2>1, <2>7 DEF wraps
    <3>3. index(s) \notin skipped(slot)
      <4> SUFFICES ASSUME NEW t \in next_slot .. (slot - 1), index(s) = index(t) PROVE FALSE
          BY DEF skipped
      <4>1. t \in Nat /\ s < t /\ t <= slot
            BY <1>1, <2>1, <2>7
      <4> QED
          BY <2>4, <4>1
    <3>4. s \in oldest .. newest
          BY <1>1, <2>1, <2>7 DEF oldest, newest
    <3>5. s \in added' <=> s \in added
          BY <1>1, <2>7
    <3>6. bits[index(s)] <=> s \in added
          BY <3>4 DEF IInv
    <3> QED
        BY <2>3, <3>1, <3>2, <3>3, <3>5, <3>6
  <2> QED
      BY <1>1, <2>1, <2>5, <2>6, <2>7
<1> QED
    BY <1>2, <1>3 DEF IInv

LEMMA NextIInv == IInv /\ [Next]_vars => IInv'
<1> SUFFICES ASSUME IInv, [Next]_vars PROVE IInv'
    OBVIOUS
<1>1. CASE Next
      BY <1>1, AddIInv DEF Next
<1>2. CASE UNCHANGED vars
      BY <1>2 DEF vars, IInv, TypeOK, oldest, newest
<1> QED
    BY <1>1, <1>2

LEMMA IInvExact == IInv => CheckIsExact
<1> SUFFICES ASSUME IInv, NEW slot \in oldest .. newest
             PROVE  check(slot) = IF slot \in added THEN "Found" ELSE "NotFound"
    BY DEF CheckIsExact
<1>1. ~ (slot > newest) /\ ~ (slot < oldest)
      BY SlotHistoryAssumption DEF IInv, TypeOK, oldest, newest
<1>2. bits[index(slot)] <=> slot \in added
      BY DEF IInv
<1> QED
    BY <1>1, <1>2 DEF check

\* The history keeps its type, and nothing newer than it has been added.
THEOREM TypeCorrect == Spec => []TypeOK
<1>1. IInv => TypeOK
      BY DEF IInv
<1> QED
    BY InitIInv, NextIInv, <1>1, PTL DEF Spec

\* SlotHistory::check is exact on the last MAX_ENTRIES slots after any sequence
\* of SlotHistory::add.
THEOREM HistoryExact == Spec => []CheckIsExact
BY InitIInv, NextIInv, IInvExact, PTL DEF Spec
=============================================================================
