--------------------------- MODULE LockoutsProofs ---------------------------
(***************************************************************************)
(* The stack operations keep a well-formed stack well formed, for every     *)
(* MAX_LOCKOUT_HISTORY and every stack.                                     *)
(***************************************************************************)
EXTENDS Lockouts, FiniteSetsExt, SequenceTheorems, WellFoundedInduction, TLAPS

\* A non-empty set of naturals has a least element.
LEMMA LeastNat ==
    ASSUME NEW T \in SUBSET Nat, T # {}
    PROVE  \E x \in T : \A y \in T : x <= y
<1>1. \E x \in T : \A y \in T : ~ (<<y, x>> \in OpToRel(<, Nat))
  BY NatLessThanWellFounded, WFMin, Zenon
<1>2. PICK x \in T : \A y \in T : ~ (<<y, x>> \in OpToRel(<, Nat))
  BY <1>1
<1>3. \A y \in T : ~ (y < x)
  BY <1>2 DEF OpToRel
<1> QED
  BY <1>3

\* A bounded, non-empty set of naturals has a greatest element, which Max picks.
LEMMA GreatestNat ==
    ASSUME NEW T \in SUBSET Nat, T # {}, NEW b \in Nat, \A x \in T : x <= b
    PROVE  Max(T) \in T /\ \A y \in T : y <= Max(T)
<1> DEFINE U == {b - x : x \in T}
<1>1. U \in SUBSET Nat /\ U # {}
  OBVIOUS
<1>2. \A x \in T : b - x \in U
  OBVIOUS
<1>3. PICK u \in U : \A y \in U : u <= y
  BY <1>1, LeastNat
<1>4. PICK x \in T : u = b - x
  BY <1>3
<1> HIDE DEF U
<1>5. \A y \in T : x >= y
  BY <1>2, <1>3, <1>4
<1>6. Max(T) \in T /\ \A y \in T : Max(T) >= y
  BY <1>5, Zenon DEF Max
<1> QED
  BY <1>6

\* The elements of a vote stack are lockouts.
LEMMA VotesTyped ==
    ASSUME NEW votes \in Seq(Lockout)
    PROVE  /\ Len(votes) \in Nat
           /\ votes # <<>> => Len(votes) \in 1 .. Len(votes)
           /\ \A i \in 1 .. Len(votes) : /\ votes # <<>>
                                         /\ votes[i] \in Lockout
                                         /\ votes[i].slot \in Nat
                                         /\ votes[i].confirmation_count \in Nat
<1>1. \A v \in Lockout : v.slot \in Nat /\ v.confirmation_count \in Nat
  BY DEF Lockout
<1>2. \A i \in 1 .. Len(votes) : votes[i] \in Lockout
  OBVIOUS
<1>3. Len(votes) \in Nat /\ (votes # <<>> => Len(votes) \in 1 .. Len(votes))
  OBVIOUS
<1>4. \A i \in 1 .. Len(votes) : votes # <<>>
  OBVIOUS
<1> QED
  BY <1>1, <1>2, <1>3, <1>4

\* The pop loop of pop_expired_votes stops: some height satisfies its exit
\* condition, and LiveHeight is such a height.
LEMMA LiveHeightExists ==
    ASSUME NEW votes \in Seq(Lockout), NEW slot \in Nat
    PROVE  /\ LiveHeight(votes, slot) \in 0 .. Len(votes)
           /\ \A i \in (LiveHeight(votes, slot) + 1) .. Len(votes) :
                  is_expired(votes[i], slot)
           /\ LiveHeight(votes, slot) # 0 =>
                  ~ is_expired(votes[LiveHeight(votes, slot)], slot)
<1> DEFINE T == {k \in 0 .. Len(votes) :
                    \A i \in (k + 1) .. Len(votes) : is_expired(votes[i], slot)}
<1>1. Len(votes) \in T /\ T \in SUBSET Nat
  OBVIOUS
<1>2. \A k \in T : k # 0 /\ is_expired(votes[k], slot) => k - 1 \in T
  OBVIOUS
<1> HIDE DEF T
<1>3. PICK k \in T : \A y \in T : k <= y
  BY <1>1, LeastNat
<1>4. \E h \in 0 .. Len(votes) :
          /\ h = 0 \/ ~ is_expired(votes[h], slot)
          /\ \A i \in (h + 1) .. Len(votes) : is_expired(votes[i], slot)
  <2>1. k \in Nat /\ k - 1 \notin T
    BY <1>1, <1>3
  <2> QED
    BY <1>2, <1>3, <2>1 DEF T
<1> QED
  BY <1>4, Zenon DEF LiveHeight

\* What is left of a stack after pop_expired_votes is a prefix of it.
LEMMA PopExpiredPrefix ==
    ASSUME NEW votes \in Seq(Lockout), NEW slot \in Nat
    PROVE  /\ pop_expired_votes(votes, slot) \in Seq(Lockout)
           /\ Len(pop_expired_votes(votes, slot)) <= Len(votes)
           /\ \A i \in 1 .. Len(pop_expired_votes(votes, slot)) :
                  pop_expired_votes(votes, slot)[i] = votes[i]
<1> DEFINE h == LiveHeight(votes, slot)
<1>1. h \in 0 .. Len(votes)
  BY LiveHeightExists
<1> HIDE DEF h
<1>2. /\ SubSeq(votes, 1, h) \in Seq(Lockout)
      /\ Len(SubSeq(votes, 1, h)) = h
      /\ \A i \in 1 .. h : SubSeq(votes, 1, h)[i] = votes[i]
  BY <1>1
<1> QED
  BY <1>1, <1>2 DEF pop_expired_votes, h

\* One step of the doubling keeps the slot and adds one confirmation.
LEMMA IncrementType ==
    ASSUME NEW v \in Lockout
    PROVE  /\ [v EXCEPT !.confirmation_count = @ + 1] \in Lockout
           /\ [v EXCEPT !.confirmation_count = @ + 1].slot = v.slot
           /\ [v EXCEPT !.confirmation_count = @ + 1].confirmation_count
                 = v.confirmation_count + 1
<1>1. v.slot \in Nat /\ v.confirmation_count \in Nat
  BY DEF Lockout
<1>2. [v EXCEPT !.confirmation_count = @ + 1]
        = [slot |-> v.slot, confirmation_count |-> v.confirmation_count + 1]
  BY DEF Lockout
<1>3. v.confirmation_count + 1 \in Nat
  BY <1>1
<1> QED
  BY <1>1, <1>2, <1>3 DEF Lockout

\* A vote pushed on a stack that has room, and the doubling that follows.
LEMMA PushWellFormed ==
    ASSUME NEW kept \in Seq(Lockout), NEW slot \in Nat,
           Len(kept) < MAX_LOCKOUT_HISTORY,
           SlotsIncrease(kept), CountsCoverDepth(kept), CountsDecrease(kept),
           \A i \in 1 .. Len(kept) : kept[i].slot < slot
    PROVE  LET new == double_lockouts(Append(kept, NewLockout(slot)))
           IN  /\ new \in Seq(Lockout)
               /\ Len(new) = Len(kept) + 1
               /\ SlotsIncrease(new) /\ CountsCoverDepth(new) /\ CountsDecrease(new)
               /\ \A i \in 1 .. Len(kept) : new[i].slot = kept[i].slot
               /\ new[Len(new)].slot = slot
<1> DEFINE pushed == Append(kept, NewLockout(slot))
           new == double_lockouts(pushed)
           m == Len(kept)
<1>0. m \in Nat /\ MAX_LOCKOUT_HISTORY \in Nat
  BY MaxLockoutHistoryAssumption
<1>1. /\ pushed \in Seq(Lockout)
      /\ Len(pushed) = m + 1
      /\ \A i \in 1 .. m : pushed[i] = kept[i]
      /\ pushed[m + 1] = NewLockout(slot)
  BY DEF NewLockout, Lockout
<1> HIDE DEF pushed, m
<1>2. \A i \in 1 .. m + 1 : pushed[i] \in Lockout
  BY <1>0, <1>1
<1> DEFINE doubles(i) == m + 1 > (i - 1) + pushed[i].confirmation_count
<1>3. /\ new \in Seq(Lockout)
      /\ Len(new) = m + 1
      /\ \A i \in 1 .. m + 1 :
            new[i] = IF doubles(i)
                     THEN [pushed[i] EXCEPT !.confirmation_count = @ + 1]
                     ELSE pushed[i]
  <2>2. \A i \in 1 .. m + 1 :
            (IF doubles(i) THEN [pushed[i] EXCEPT !.confirmation_count = @ + 1]
             ELSE pushed[i]) \in Lockout
    BY <1>2, IncrementType
  <2> QED
    BY <1>0, <1>1, <2>2 DEF double_lockouts
<1> HIDE DEF new
<1>4. \A i \in 1 .. m + 1 : new[i].slot = pushed[i].slot
  BY <1>2, <1>3, IncrementType
<1>5. \A i \in 1 .. m + 1 :
         /\ pushed[i].confirmation_count \in Nat
         /\ new[i].confirmation_count \in Nat
         /\ doubles(i) => new[i].confirmation_count = pushed[i].confirmation_count + 1
         /\ ~ doubles(i) => new[i].confirmation_count = pushed[i].confirmation_count
  <2>1. \A v \in Lockout : v.confirmation_count \in Nat
    BY DEF Lockout
  <2>2. \A i \in 1 .. m + 1 : new[i] \in Lockout
    BY <1>0, <1>3
  <2> QED
    BY <1>2, <1>3, <2>1, <2>2, IncrementType
<1>6. pushed[m + 1].slot = slot /\ pushed[m + 1].confirmation_count = 1
  BY <1>1 DEF NewLockout
<1>7. \A i \in 1 .. m :
         /\ pushed[i].confirmation_count >= m - i + 1
         /\ pushed[i].confirmation_count <= MAX_LOCKOUT_HISTORY
  BY <1>1 DEF CountsCoverDepth, m
<1>8. \A i, j \in 1 .. m : i < j =>
         /\ pushed[i].slot < pushed[j].slot
         /\ pushed[i].confirmation_count > pushed[j].confirmation_count
  BY <1>1 DEF SlotsIncrease, CountsDecrease, m
<1>9. SlotsIncrease(new)
  <2> SUFFICES ASSUME NEW i \in 1 .. m + 1, NEW j \in 1 .. m + 1, i < j
               PROVE  new[i].slot < new[j].slot
    BY <1>3 DEF SlotsIncrease
  <2>1. i \in 1 .. m
    BY <1>0
  <2>2. CASE j = m + 1
    BY <2>1, <2>2, <1>0, <1>1, <1>4, <1>6 DEF m
  <2>3. CASE j \in 1 .. m
    BY <2>1, <2>3, <1>0, <1>4, <1>8
  <2> QED
    BY <2>2, <2>3, <1>0
<1>10. CountsCoverDepth(new)
  <2> SUFFICES ASSUME NEW i \in 1 .. m + 1
               PROVE  /\ new[i].confirmation_count >= (m + 1) - i + 1
                      /\ new[i].confirmation_count <= MAX_LOCKOUT_HISTORY
    BY <1>3 DEF CountsCoverDepth
  <2>1. m < MAX_LOCKOUT_HISTORY
    BY DEF m
  <2> QED
    <3>1. CASE i = m + 1
      BY <3>1, <2>1, <1>0, <1>5, <1>6
    <3>2. CASE i \in 1 .. m
      <4> DEFINE c == pushed[i].confirmation_count
                 d == new[i].confirmation_count
      <4>1. /\ c \in Nat /\ d \in Nat /\ c >= m - i + 1 /\ c <= MAX_LOCKOUT_HISTORY
            /\ m + 1 > (i - 1) + c => d = c + 1
            /\ ~ (m + 1 > (i - 1) + c) => d = c
        BY <3>2, <1>0, <1>5, <1>7
      <4> HIDE DEF c, d
      <4>2. d >= (m + 1) - i + 1 /\ d <= MAX_LOCKOUT_HISTORY
        BY <4>1, <3>2, <2>1, <1>0
      <4> QED
        BY <4>2 DEF d
    <3> QED
      BY <3>1, <3>2, <1>0
<1>11. CountsDecrease(new)
  <2> SUFFICES ASSUME NEW i \in 1 .. m + 1, NEW j \in 1 .. m + 1, i < j
               PROVE  new[i].confirmation_count > new[j].confirmation_count
    BY <1>3 DEF CountsDecrease
  <2>1. i \in 1 .. m
    BY <1>0
  <2>2. CASE j = m + 1
    <3>0. ~ doubles(m + 1)
      BY <1>0, <1>6
    <3>1. new[j].confirmation_count = 1
      BY <3>0, <2>2, <1>5, <1>6
    <3>2. new[i].confirmation_count \in Nat /\ new[i].confirmation_count >= (m + 1) - i + 1
      BY <1>3, <1>5, <1>10 DEF CountsCoverDepth
    <3> QED
      BY <3>1, <3>2, <2>1, <1>0
  <2>3. CASE j \in 1 .. m
    <3> DEFINE c(k) == pushed[k].confirmation_count
               d(k) == new[k].confirmation_count
    <3>1. \A k \in {i, j} :
             /\ c(k) \in Nat /\ d(k) \in Nat /\ c(k) >= m - k + 1
             /\ m + 1 > (k - 1) + c(k) => d(k) = c(k) + 1
             /\ ~ (m + 1 > (k - 1) + c(k)) => d(k) = c(k)
      BY <2>1, <2>3, <1>0, <1>5, <1>7
    <3>2. c(i) > c(j)
      BY <2>1, <2>3, <1>8
    <3> HIDE DEF c, d
    <3>3. d(i) > d(j)
      BY <3>1, <3>2, <2>1, <2>3, <1>0
    <3> QED
      BY <3>3 DEF d
  <2> QED
    BY <2>2, <2>3, <1>0
<1> QED
  <2>1. \A i \in 1 .. m : new[i].slot = kept[i].slot
    BY <1>0, <1>1, <1>4
  <2>2. new[m + 1].slot = slot
    BY <1>0, <1>4, <1>6
  <2> QED
    BY <2>1, <2>2, <1>3, <1>9, <1>10, <1>11 DEF new, pushed, m

\* pop_expired_votes, then pop_front on a full stack: a suffix of a prefix of a
\* well-formed stack, with room for one more vote.
LEMMA KeptWellFormed ==
    ASSUME NEW st \in Stack, NEW slot \in Nat, WellFormedStack(st)
    PROVE  LET live == pop_expired_votes(st.votes, slot)
               kept == IF Len(live) = MAX_LOCKOUT_HISTORY THEN Tail(live) ELSE live
               root == IF Len(live) = MAX_LOCKOUT_HISTORY THEN live[1].slot ELSE st.root
           IN  /\ kept \in Seq(Lockout)
               /\ Len(kept) < MAX_LOCKOUT_HISTORY
               /\ SlotsIncrease(kept) /\ CountsCoverDepth(kept) /\ CountsDecrease(kept)
               /\ \A i \in 1 .. Len(kept) : root < kept[i].slot
               /\ \A i \in 1 .. Len(kept) : \E j \in 1 .. Len(st.votes) : kept[i] = st.votes[j]
               /\ root \in SlotOption
               /\ root >= st.root
               /\ root # st.root => \E j \in 1 .. Len(st.votes) : root = st.votes[j].slot
<1> DEFINE votes == st.votes
           n == Len(votes)
           live == pop_expired_votes(votes, slot)
           h == Len(live)
<1>0. votes \in Seq(Lockout) /\ n \in Nat /\ st.root \in SlotOption /\ st.root \in Int
  BY DEF Stack, SlotOption, NoSlot
<1>1. live \in Seq(Lockout) /\ h \in Nat /\ h <= n /\ \A i \in 1 .. h : live[i] = votes[i]
  BY <1>0, PopExpiredPrefix
<1>2. MAX_LOCKOUT_HISTORY \in Nat \ {0} /\ n <= MAX_LOCKOUT_HISTORY
  BY MaxLockoutHistoryAssumption DEF WellFormedStack
<1>3. \A i \in 1 .. n : /\ votes[i].slot \in Nat
                        /\ votes[i].confirmation_count \in Nat
                        /\ votes[i].confirmation_count >= n - i + 1
                        /\ votes[i].confirmation_count <= MAX_LOCKOUT_HISTORY
                        /\ st.root < votes[i].slot
  BY <1>0, VotesTyped DEF WellFormedStack, CountsCoverDepth, RootBelowVotes
<1>4. \A i, j \in 1 .. n : i < j => /\ votes[i].slot < votes[j].slot
                                    /\ votes[i].confirmation_count > votes[j].confirmation_count
  BY DEF WellFormedStack, SlotsIncrease, CountsDecrease
<1> HIDE DEF votes, n, live, h
<1>5. CASE h # MAX_LOCKOUT_HISTORY
  <2>1. h < MAX_LOCKOUT_HISTORY
    BY <1>0, <1>1, <1>2, <1>5
  <2>2. SlotsIncrease(live)
    BY <1>0, <1>1, <1>4 DEF SlotsIncrease, h
  <2>3. CountsDecrease(live)
    BY <1>0, <1>1, <1>4 DEF CountsDecrease, h
  <2>4. CountsCoverDepth(live)
    <3> SUFFICES ASSUME NEW i \in 1 .. h
                 PROVE  /\ live[i].confirmation_count >= h - i + 1
                        /\ live[i].confirmation_count <= MAX_LOCKOUT_HISTORY
      BY DEF CountsCoverDepth, h
    <3>1. i \in 1 .. n /\ live[i] = votes[i]
      BY <1>0, <1>1
    <3> QED
      BY <3>1, <1>0, <1>1, <1>3
  <2>5. \A i \in 1 .. h : st.root < live[i].slot
    BY <1>0, <1>1, <1>3
  <2>6. \A i \in 1 .. h : \E j \in 1 .. n : live[i] = votes[j]
    BY <1>0, <1>1
  <2> QED
    BY <1>0, <1>1, <1>5, <2>1, <2>2, <2>3, <2>4, <2>5, <2>6 DEF live, votes, h, n
<1>6. CASE h = MAX_LOCKOUT_HISTORY
  <2> DEFINE tail == Tail(live)
  <2>1. h = n /\ n >= 1
    BY <1>0, <1>1, <1>2, <1>6
  <2>2. tail \in Seq(Lockout) /\ Len(tail) = n - 1 /\ \A i \in 1 .. n - 1 : tail[i] = live[i + 1]
    BY <1>1, <2>1 DEF h
  <2> HIDE DEF tail
  <2>3. \A i \in 1 .. n - 1 : i + 1 \in 1 .. n /\ tail[i] = votes[i + 1]
    BY <1>0, <1>1, <2>1, <2>2
  <2>4. SlotsIncrease(tail)
    <3> SUFFICES ASSUME NEW i \in 1 .. n - 1, NEW j \in 1 .. n - 1, i < j
                 PROVE  tail[i].slot < tail[j].slot
      BY <2>2 DEF SlotsIncrease
    <3>1. i + 1 < j + 1
      BY <1>0
    <3> QED
      BY <2>3, <1>4, <3>1
  <2>5. CountsDecrease(tail)
    <3> SUFFICES ASSUME NEW i \in 1 .. n - 1, NEW j \in 1 .. n - 1, i < j
                 PROVE  tail[i].confirmation_count > tail[j].confirmation_count
      BY <2>2 DEF CountsDecrease
    <3>1. i + 1 < j + 1
      BY <1>0
    <3> QED
      BY <2>3, <1>4, <3>1
  <2>6. CountsCoverDepth(tail)
    <3> SUFFICES ASSUME NEW i \in 1 .. n - 1
                 PROVE  /\ tail[i].confirmation_count >= (n - 1) - i + 1
                        /\ tail[i].confirmation_count <= MAX_LOCKOUT_HISTORY
      BY <2>2 DEF CountsCoverDepth
    <3> DEFINE c == votes[i + 1].confirmation_count
    <3>1. c \in Nat /\ c >= n - (i + 1) + 1 /\ c <= MAX_LOCKOUT_HISTORY
      BY <2>3, <1>3
    <3> HIDE DEF c
    <3>2. c >= (n - 1) - i + 1
      BY <3>1, <1>0
    <3> QED
      BY <3>1, <3>2, <2>3 DEF c
  <2>7. \A i \in 1 .. n - 1 : live[1].slot < tail[i].slot
    <3>1. \A i \in 1 .. n - 1 : votes[1].slot < votes[i + 1].slot
      BY <2>1, <2>3, <1>0, <1>4
    <3> QED
      BY <3>1, <2>1, <2>3, <1>0, <1>1
  <2>8. /\ live[1].slot \in Nat /\ live[1].slot > st.root
        /\ 1 \in 1 .. n /\ live[1].slot = votes[1].slot
    BY <2>1, <1>0, <1>1, <1>3
  <2>9. n - 1 < MAX_LOCKOUT_HISTORY
    BY <2>1, <1>0, <1>6
  <2> QED
    BY <1>0, <1>6, <2>2, <2>3, <2>4, <2>5, <2>6, <2>7, <2>8, <2>9
    DEF live, votes, h, n, tail, SlotOption
<1> QED
  BY <1>5, <1>6

\* process_slot: the stack stays well formed, the root and the last vote never
\* go back, a new root was a vote of the stack, and every vote of the new
\* stack is for the new slot or one of the old votes.
LEMMA ProcessSlotWellFormed ==
    ASSUME NEW st \in Stack, NEW slot \in Nat, WellFormedStack(st)
    PROVE  LET new == process_slot(st, slot)
           IN  /\ new \in Stack
               /\ WellFormedStack(new)
               /\ new.root >= st.root
               /\ new.votes # <<>>
               /\ last_voted_slot(new.votes) >= last_voted_slot(st.votes)
               /\ last_voted_slot(new.votes) >= slot
               /\ new.root # st.root => \E j \in 1 .. Len(st.votes) : new.root = st.votes[j].slot
               /\ \A i \in 1 .. Len(new.votes) :
                     \/ new.votes[i].slot = slot
                     \/ \E j \in 1 .. Len(st.votes) : new.votes[i].slot = st.votes[j].slot
<1> DEFINE last == last_voted_slot(st.votes)
<1>0. /\ st.votes \in Seq(Lockout) /\ st.root \in SlotOption /\ st.root \in Int
      /\ st.votes # <<>> => /\ last = st.votes[Len(st.votes)].slot
                             /\ Len(st.votes) \in 1 .. Len(st.votes)
                             /\ last \in Nat
      /\ st.votes = <<>> => last = -1
  <2>1. st.votes \in Seq(Lockout) /\ st.root \in SlotOption /\ st.root \in Int
    BY DEF Stack, SlotOption, NoSlot
  <2>2. ASSUME st.votes # <<>>
        PROVE  Len(st.votes) \in 1 .. Len(st.votes) /\ st.votes[Len(st.votes)].slot \in Nat
    BY <2>1, <2>2, VotesTyped
  <2> QED
    BY <2>1, <2>2 DEF last_voted_slot, NoSlot
<1>1. CASE is_ignored(st.votes, slot)
  <2>1. process_slot(st, slot) = st
    BY <1>1 DEF process_slot
  <2> QED
    BY <2>1, <1>0, <1>1 DEF is_ignored
<1>2. CASE ~ is_ignored(st.votes, slot)
  <2> DEFINE live == pop_expired_votes(st.votes, slot)
             kept == IF Len(live) = MAX_LOCKOUT_HISTORY THEN Tail(live) ELSE live
             root == IF Len(live) = MAX_LOCKOUT_HISTORY THEN live[1].slot ELSE st.root
             votes == double_lockouts(Append(kept, NewLockout(slot)))
  <2>1. process_slot(st, slot) = [votes |-> votes, root |-> root]
    BY <1>2 DEF process_slot
  <2>2. /\ kept \in Seq(Lockout)
        /\ Len(kept) < MAX_LOCKOUT_HISTORY
        /\ SlotsIncrease(kept) /\ CountsCoverDepth(kept) /\ CountsDecrease(kept)
        /\ \A i \in 1 .. Len(kept) : root < kept[i].slot
        /\ \A i \in 1 .. Len(kept) : \E j \in 1 .. Len(st.votes) : kept[i] = st.votes[j]
        /\ root \in SlotOption
        /\ root >= st.root
        /\ root # st.root => \E j \in 1 .. Len(st.votes) : root = st.votes[j].slot
    BY KeptWellFormed
  <2> HIDE DEF live, kept, root
  <2>3. last < slot
    BY <1>0, <1>2 DEF is_ignored
  <2>4. \A j \in 1 .. Len(st.votes) : st.votes[j].slot \in Nat /\ st.votes[j].slot <= last
    <3> SUFFICES ASSUME NEW j \in 1 .. Len(st.votes)
                 PROVE  st.votes[j].slot \in Nat /\ st.votes[j].slot <= last
      OBVIOUS
    <3>1. st.votes # <<>> /\ st.votes[j].slot \in Nat
      BY <1>0, VotesTyped
    <3>2. j = Len(st.votes) \/ j < Len(st.votes)
      BY <1>0
    <3> QED
      BY <3>1, <3>2, <1>0 DEF WellFormedStack, SlotsIncrease
  <2>5. \A i \in 1 .. Len(kept) : kept[i].slot < slot
    <3>1. last \in Int
      BY <1>0
    <3>2. \A j \in 1 .. Len(st.votes) : st.votes[j].slot < slot
      BY <3>1, <2>3, <2>4
    <3> QED
      BY <3>2, <2>2
  <2>6. /\ votes \in Seq(Lockout)
        /\ Len(votes) = Len(kept) + 1
        /\ SlotsIncrease(votes) /\ CountsCoverDepth(votes) /\ CountsDecrease(votes)
        /\ \A i \in 1 .. Len(kept) : votes[i].slot = kept[i].slot
        /\ votes[Len(votes)].slot = slot
    BY <2>2, <2>5, PushWellFormed
  <2> HIDE DEF votes
  <2>7. /\ Len(kept) \in Nat /\ Len(votes) <= MAX_LOCKOUT_HISTORY /\ votes # <<>>
        /\ \A i \in 1 .. Len(votes) : i = Len(votes) \/ i \in 1 .. Len(kept)
    BY <2>2, <2>6, MaxLockoutHistoryAssumption
  <2>8. root < slot
    <3>1. CASE root # st.root
      BY <3>1, <2>2, <2>3, <2>4, <1>0
    <3>2. CASE root = st.root /\ st.votes # <<>>
      <4>1. st.root < last
        BY <3>2, <1>0 DEF WellFormedStack, RootBelowVotes
      <4> QED
        BY <4>1, <3>2, <2>3, <1>0
    <3>3. CASE root = st.root /\ st.votes = <<>>
      BY <3>3, <1>0 DEF WellFormedStack, RootBelowVotes, NoSlot
    <3> QED
      BY <3>1, <3>2, <3>3
  <2>9. \A i \in 1 .. Len(votes) : root < votes[i].slot
    BY <2>2, <2>6, <2>7, <2>8
  <2>10. WellFormedStack([votes |-> votes, root |-> root])
    BY <2>6, <2>7, <2>9 DEF WellFormedStack, RootBelowVotes
  <2>11. [votes |-> votes, root |-> root] \in Stack
    BY <2>2, <2>6 DEF Stack
  <2>12. last_voted_slot(votes) = slot
    BY <2>6, <2>7 DEF last_voted_slot
  <2>13. \A i \in 1 .. Len(votes) :
            \/ votes[i].slot = slot
            \/ \E j \in 1 .. Len(st.votes) : votes[i].slot = st.votes[j].slot
    BY <2>2, <2>6, <2>7
  <2> QED
    BY <1>0, <2>1, <2>2, <2>3, <2>7, <2>10, <2>11, <2>12, <2>13
<1> QED
  BY <1>1, <1>2
=============================================================================
