----------------------------- MODULE GroupBalance -----------------------------
(***************************************************************************)
(* How a consumer group spreads the partitions of a topic over its         *)
(* members (balanced_member_indices): a partition stays with the member    *)
(* that has it or is to have it, as far as the fair share allows, and the  *)
(* others go to the least loaded members.  "desired" is the sequence of    *)
(* partitions, each with its member or Unassigned; "ids" the members in    *)
(* slot order, never empty.                                                *)
(***************************************************************************)
EXTENDS Integers, Sequences, FiniteSets, SequencesExt, FiniteSetsExt

CONSTANT None

\* The owner of a partition nobody has.
Unassigned == <<None, 0>>

Count(desired, id) == Cardinality({i \in DOMAIN desired : desired[i] = id})

\* A plausible slip: the remainder goes to the first members.
remainder_to_first(desired, ids) ==
    [i \in DOMAIN ids |-> (Len(desired) \div Len(ids))
                          + (IF i <= Len(desired) % Len(ids) THEN 1 ELSE 0)]

\* The fair share; the remainder goes to the most loaded members.
Capacities(desired, ids) ==
    LET Load(i) == Count(desired, ids[i])
        Rank(i) == Cardinality({j \in DOMAIN ids :
                       Load(j) > Load(i) \/ (Load(j) = Load(i) /\ j < i)})
    IN [i \in DOMAIN ids |-> (Len(desired) \div Len(ids))
                             + (IF Rank(i) < Len(desired) % Len(ids) THEN 1 ELSE 0)]

\* A member above its capacity loses its last partitions.
Stripped(desired, ids, cap) ==
    [i \in DOMAIN desired |->
        IF \E j \in DOMAIN ids : ids[j] = desired[i]
                                 /\ Count(SubSeq(desired, 1, i), ids[j]) > cap[j]
        THEN Unassigned ELSE desired[i]]

\* Each free partition goes to the least loaded member with room.
Filled(desired, ids, cap) ==
    LET Room(d) == {j \in DOMAIN ids : Count(d, ids[j]) < cap[j]}
        Least(d) == CHOOSE j \in Room(d) : \A k \in Room(d) :
                        \/ Count(d, ids[j]) < Count(d, ids[k])
                        \/ (Count(d, ids[j]) = Count(d, ids[k]) /\ j <= k)
        Take(d, i) == IF d[i] = Unassigned /\ Room(d) # {}
                      THEN [d EXCEPT ![i] = ids[Least(d)]] ELSE d
    IN FoldLeft(Take, desired, [i \in DOMAIN desired |-> i])

Rebalanced(desired, ids) ==
    LET cap == Capacities(desired, ids)
    IN Filled(Stripped(desired, ids, cap), ids, cap)

\* What is asked of the result: every partition has a member, and no member
\* has two more than another.
Balanced(ids, target) ==
    /\ \A i \in DOMAIN target : \E j \in DOMAIN ids : target[i] = ids[j]
    /\ \A i, j \in DOMAIN ids : Count(target, ids[i]) <= Count(target, ids[j]) + 1
==============================================================================
