---------------------------- MODULE StatusCache ----------------------------
(***************************************************************************)
(* The signatures of the transactions processed in the last banks, shared  *)
(* by all banks.  A signature stands for its slice: slices do not collide. *)
(*   cache        for each blockhash the highest slot that used it and the *)
(*                pairs of signature and slot                              *)
(*   slot_deltas  for each slot the pairs of blockhash and signature, which *)
(*                snapshots save                                           *)
(***************************************************************************)
EXTENDS Naturals, FiniteSets, FiniteSetsExt, Functions, SequencesExt

CONSTANT MAX_CACHE_ENTRIES

Default == [cache |-> <<>>, roots |-> {0}, slot_deltas |-> <<>>]

\* The slot in which the signature was processed, seen from these ancestors.
get_signature_status(sc, sig, blockhash, ancestors) ==
    /\ blockhash \in DOMAIN sc.cache
    /\ \E slot \in ancestors \cup sc.roots : <<sig, slot>> \in sc.cache[blockhash].sigs

insert_with_slice(sc, blockhash, sig, slot) ==
    LET old   == IF blockhash \in DOMAIN sc.cache THEN sc.cache[blockhash]
                 ELSE [fork |-> slot, sigs |-> {}]
        entry == [fork |-> Max({slot, old.fork}), sigs |-> old.sigs \cup {<<sig, slot>>}]
        delta == IF slot \in DOMAIN sc.slot_deltas THEN sc.slot_deltas[slot] ELSE {}
    IN  [sc EXCEPT
            !.cache = [b \in DOMAIN @ \cup {blockhash} |-> IF b = blockhash THEN entry ELSE @[b]],
            !.slot_deltas = [s \in DOMAIN @ \cup {slot} |->
                                IF s = slot THEN delta \cup {<<blockhash, sig>>} ELSE @[s]]]

\* Fault form: signatures of the slot after the purged root go with it.
purge_roots_and_next(sc) ==
    LET min == Min(sc.roots)
    IN  IF Cardinality(sc.roots) <= MAX_CACHE_ENTRIES THEN sc
        ELSE [cache |-> Restrict(sc.cache, {b \in DOMAIN sc.cache : sc.cache[b].fork > min + 1}),
              roots |-> sc.roots \ {min},
              slot_deltas |-> Restrict(sc.slot_deltas, {s \in DOMAIN sc.slot_deltas : s > min + 1})]

purge_roots(sc) ==
    LET min == Min(sc.roots)
    IN  IF Cardinality(sc.roots) <= MAX_CACHE_ENTRIES THEN sc
        ELSE [cache |-> Restrict(sc.cache, {b \in DOMAIN sc.cache : sc.cache[b].fork > min}),
              roots |-> sc.roots \ {min},
              slot_deltas |-> Restrict(sc.slot_deltas, {s \in DOMAIN sc.slot_deltas : s > min})]

add_root(sc, slot) == purge_roots([sc EXCEPT !.roots = @ \cup {slot}])

\* The deltas of the slots, each with the roots it is among.
slot_deltas_of(sc, slots) ==
    {[slot |-> s, root |-> s \in sc.roots,
      sigs |-> IF s \in DOMAIN sc.slot_deltas THEN sc.slot_deltas[s] ELSE {}] : s \in slots}

\* The deltas of a slot are inserted, then it becomes a root, in slot order.
append_delta(sc, delta) ==
    LET with == FoldSet(LAMBDA p, acc : insert_with_slice(acc, p[1], p[2], delta.slot),
                        sc, delta.sigs)
    IN  IF delta.root THEN add_root(with, delta.slot) ELSE with

append(sc, deltas) ==
    FoldLeft(append_delta, sc, SetToSortSeq(deltas, LAMBDA d, e : d.slot < e.slot))
=============================================================================
