----------------------------- MODULE HeldVectors -----------------------------
(* `Patched<T>`, crates/gnr8-sdk/src/protocol/mod.rs: a vector described by its difference from the *)
(* one the peer already holds. An element is a record with a field `id`, by which it is looked up.   *)
EXTENDS Integers, Sequences, FiniteSets

Fresh == 0                        \* the slot of an element that travels with the patch

Smallest(S) == CHOOSE n \in S : \A m \in S : n <= m
Places(slots) == {i \in DOMAIN slots : slots[i] = Fresh}
(* How many fresh elements the slots up to i take. *)
Rank(slots, i) == Cardinality({j \in Places(slots) : j <= i})
(* How many of the slots up to i name the position q. *)
Uses(slots, q, i) == Cardinality({j \in DOMAIN slots : slots[j] = q /\ j <= i})

(* The positions at which `held` has an equal element of the same identity. *)
Candidates(element, held) ==
    {q \in DOMAIN held : held[q].id = element.id /\ held[q] = element}

Slots(next, held) ==
    [i \in DOMAIN next |->
        LET found == Candidates(next[i], held) IN IF found = {} THEN Fresh ELSE Smallest(found)]

(* `Patched::of`. The fresh elements ride along in the order in which the slots take them. *)
Of(next, held) ==
    LET slots == Slots(next, held) IN
    [slots |-> slots,
     fresh |-> [k \in 1..Cardinality(Places(slots)) |->
                    next[CHOOSE i \in Places(slots) : Rank(slots, i) = k]]]

(* What a receiver needs of a patch: positions it holds, and enough fresh elements. *)
Fits(patch, held) ==
    /\ \A i \in DOMAIN patch.slots : patch.slots[i] # Fresh => patch.slots[i] \in DOMAIN held
    /\ Cardinality(Places(patch.slots)) <= Len(patch.fresh)

(* `Patched::resolve`, for a patch that fits; of any other it makes a protocol error. *)
Resolve(patch, held) ==
    [i \in DOMAIN patch.slots |-> IF patch.slots[i] = Fresh
                                  THEN patch.fresh[Rank(patch.slots, i)]
                                  ELSE held[patch.slots[i]]]

(* Mutant of LastUse: moved at the first slot that names it. *)
FirstUse(slots, i) == Uses(slots, slots[i], i) = 1

(* `Patched::resolve_taking` rebuilds the same vector, but moves an element out of `held` at the last *)
(* slot that names it: it needs that no later slot names it.                                         *)
LastUse(slots, i) == Uses(slots, slots[i], i) = Uses(slots, slots[i], Len(slots))
Moved(slots, i) == \E j \in 1..(i - 1) : slots[j] = slots[i] /\ LastUse(slots, j)
CanTake(patch, held) ==
    /\ Fits(patch, held)
    /\ \A i \in DOMAIN patch.slots : patch.slots[i] # Fresh => ~Moved(patch.slots, i)
=============================================================================
