------------------------- MODULE ConsumerGroupProofs -------------------------
(***************************************************************************)
(* The decisions of a consumer group and what its partitions installed     *)
(* never part, for any number of clients, partitions and ops: installs do  *)
(* not conflict, a settled row names what the partition holds, and a drain *)
(* is skipped only when the old owner is gone.                             *)
(*                                                                         *)
(* The invariant compares a row of the assignments with three histories:   *)
(* what was published, installed and completed for its incarnation.  How   *)
(* members are balanced does not matter to it; that a rebalance hands a    *)
(* partition to a member or to nobody does, and so does that one op may    *)
(* rebalance several times before it is published.                         *)
(***************************************************************************)
EXTENDS ConsumerGroup, FiniteSetTheorems, WellFoundedInduction, TLAPS

-----------------------------------------------------------------------------
(* The invariant *)

Pending == [owner : Owner, metadata_op : Nat, skip_drain : BOOLEAN]
RowRecord == [incarnation : Nat, owner : Owner \cup {None}, pending : Pending \cup {None}]
Install == [partition : Nat, incarnation : Nat, owner : Owner, metadata_op : Nat]

\* The installations of a partition incarnation among those of S.
At(S, p, incarnation) == {i \in S : i.partition = p /\ i.incarnation = incarnation}

\* The owner a completed installation leaves.
OwnerOf(i) == IF is_unassigned(i.owner) THEN None ELSE i.owner
LastOwner(S, owner) == \E i \in S : /\ \A j \in S : j.owner.generation <= i.owner.generation
                                    /\ owner = OwnerOf(i)

\* An open handover is the newest decision.
Opened(p, row, o) == row.pending # None =>
    /\ row.pending.owner.generation = row.pending.metadata_op /\ row.pending.metadata_op <= o
    /\ \A j \in At(published, p, row.incarnation) :
          \/ j.owner.generation < row.pending.metadata_op
          \/ j.owner = row.pending.owner /\ j.metadata_op = row.pending.metadata_op
    /\ \A j \in At(active, p, row.incarnation) : j.owner.generation < row.pending.metadata_op

\* Without one, the last decision is installed.
Settled(p, row) == row.pending = None =>
    \/ At(published, p, row.incarnation) = {} /\ row.owner = None
    \/ \E i \in At(installed, p, row.incarnation) :
          /\ \A j \in At(published, p, row.incarnation) : j.owner.generation <= i.owner.generation
          /\ row.owner = OwnerOf(i)

\* The owner is the one of the last completion.
Owns(p, row) ==
    \/ At(active, p, row.incarnation) = {} /\ row.owner = None
    \/ LastOwner(At(active, p, row.incarnation), row.owner)

RowOk(p, row, o) == row \in RowRecord /\ Opened(p, row, o) /\ Settled(p, row) /\ Owns(p, row)

\* The rows a rebalance of the partitions ps finds; a partition without one
\* was never decided on.
RowsFit(as, ps, o) ==
    /\ as = [p \in DOMAIN as |-> as[p]]
    /\ \A p \in DOMAIN as : RowOk(p, as[p], o)
    /\ \A i \in DOMAIN ps :
          IF ps[i].id \in DOMAIN as THEN as[ps[i].id].incarnation = ps[i].revision
          ELSE At(published, ps[i].id, ps[i].revision) = {}

\* The rows it leaves are of those partitions only.
RowsOk(as, ps, o) == RowsFit(as, ps, o) /\ \A p \in DOMAIN as : \E i \in DOMAIN ps : ps[i].id = p

MemberIds(ms) == {Identity(ms[k]) : k \in DOMAIN ms}
IsMember(m) == /\ m = [client |-> m.client, session |-> m.session, partitions |-> m.partitions,
                       pending |-> m.pending]
               /\ m.client \in Clients /\ m.session \in Nat
MembersOk(ms) == /\ DOMAIN ms \subseteq Nat /\ IsFiniteSet(DOMAIN ms)
                 /\ ms = [k \in DOMAIN ms |-> ms[k]]
                 /\ \A k \in DOMAIN ms : IsMember(ms[k])

\* A handover skips the drain exactly when its owner is no member.
Drains(ms, as) == \A p \in DOMAIN as : as[p].pending # None =>
    as[p].pending.skip_drain = (as[p].owner = None \/ Identity(as[p].owner) \notin MemberIds(ms))

\* The lists of the members are those a rebuild gives.
Rebuilt(ms, as) == ms = rebuild_member_assignments(ms, as)

GroupOk(ms, as, ps, o) == MembersOk(ms) /\ RowsOk(as, ps, o) /\ Drains(ms, as) /\ Rebuilt(ms, as)

PartitionRecord == [id : Nat, revision : Nat]
PartitionsOk(ps, o) ==
    /\ ps \in Seq(PartitionRecord)
    /\ \A i \in DOMAIN ps : ps[i].id = i - 1 /\ ps[i].revision <= o

Histories ==
    /\ published \subseteq Install /\ installed \subseteq published /\ active \subseteq installed
    /\ \A i \in published : /\ i.owner.generation = i.metadata_op
                            /\ i.metadata_op <= op /\ i.incarnation <= op

\* The inductive invariant.
IInv ==
    /\ op \in Nat /\ session \in [Clients -> Nat]
    /\ PartitionsOk(partitions, op) /\ Histories /\ InstallsNeverConflict
    /\ GroupOk(members, assignments, partitions, op)
    /\ pending_revocations = index_pending_revocations(assignments)

-----------------------------------------------------------------------------
(* Numbers in order *)

\* Every nonempty set of numbers has a least element.
LEMMA LeastNat == ASSUME NEW S, S \subseteq Nat, S # {} PROVE \E x \in S : \A y \in S : x <= y
<1>1. PICK R : R = {ss \in Nat \X Nat : ss[1] < ss[2]}
  OBVIOUS
<1>2. IsWellFoundedOn(R, Nat)
  BY <1>1, NatLessThanWellFounded, Zenon DEF OpToRel
<1>3. PICK x \in S : \A y \in S : ~ (<<y, x>> \in R)
  BY <1>2, WFMin
<1>4. ASSUME NEW y \in S PROVE x <= y
  <2>1. <<y, x>> \in Nat \X Nat /\ <<y, x>>[1] = y /\ <<y, x>>[2] = x
    OBVIOUS
  <2>2. ~(y < x)
    BY <1>1, <1>3, <2>1
  <2> QED BY <2>2
<1> QED BY <1>4

Increasing(f) == \A i, j \in DOMAIN f : i < j => f[i] < f[j]
Sortings(S, n) == {f \in [1..n -> S] : Increasing(f)}

\* The numbers of a finite set can be put in order.
LEMMA HasSorting ==
  ASSUME NEW S, S \subseteq Nat, IsFiniteSet(S) PROVE Sortings(S, Cardinality(S)) # {}
<1> DEFINE Bad == {n \in Nat : \E T \in SUBSET Nat :
                     IsFiniteSet(T) /\ Cardinality(T) = n /\ Sortings(T, n) = {}}
<1>1. SUFFICES ASSUME Sortings(S, Cardinality(S)) = {} PROVE FALSE
  OBVIOUS
<1>2. Cardinality(S) \in Bad
  BY <1>1, FS_CardinalityType
<1>3. PICK n \in Bad : \A m \in Bad : n <= m
  <2> HIDE DEF Bad
  <2>1. Bad \subseteq Nat
    BY DEF Bad
  <2> QED BY <1>2, <2>1, LeastNat
<1>4. PICK T \in SUBSET Nat : IsFiniteSet(T) /\ Cardinality(T) = n /\ Sortings(T, n) = {}
  OBVIOUS
<1>5. CASE T = {}
  <2>1. n = 0
    BY <1>4, <1>5, FS_EmptySet
  <2>2. [i \in 1..0 |-> 0] \in [1..0 -> T]
    OBVIOUS
  <2>3. [i \in 1..0 |-> 0] \in Sortings(T, 0)
    BY <2>2 DEF Sortings, Increasing
  <2> QED BY <1>4, <2>1, <2>3
<1>6. CASE T # {}
  <2>1. PICK x \in T : \A y \in T : x <= y
    BY <1>6, LeastNat
  <2>2. IsFiniteSet(T \ {x}) /\ Cardinality(T \ {x}) = n - 1 /\ n \in Nat /\ n - 1 \in Nat
    <3>1. IsFiniteSet(T \ {x}) /\ Cardinality(T \ {x}) = n - 1 /\ n \in Nat
      BY <1>4, FS_RemoveElement, FS_CardinalityType
    <3>2. Cardinality(T \ {x}) \in Nat
      BY <3>1, FS_CardinalityType
    <3> QED BY <3>1, <3>2
  <2>3. n - 1 \notin Bad
    <3> HIDE DEF Bad
    <3> QED BY <1>3, <2>2
  <2>4. PICK g \in Sortings(T \ {x}, n - 1) : TRUE
    BY <2>2, <2>3
  <2>5. g \in [1..(n - 1) -> T \ {x}] /\ Increasing(g)
    BY <2>4 DEF Sortings
  <2>6. PICK f : f = [i \in 1..n |-> IF i = 1 THEN x ELSE g[i - 1]]
    OBVIOUS
  <2>7. f \in [1..n -> T]
    BY <2>2, <2>5, <2>6
  <2>8. ASSUME NEW i \in 1..n, NEW j \in 1..n, i < j PROVE f[i] < f[j]
    <3>1. j - 1 \in 1..(n - 1) /\ j # 1 /\ f[j] = g[j - 1] /\ g[j - 1] \in T \ {x}
      BY <2>2, <2>5, <2>6, <2>8
    <3>2. CASE i = 1
      <4>1. f[i] = x /\ x \in Nat /\ g[j - 1] \in Nat /\ x <= g[j - 1] /\ g[j - 1] # x
        BY <2>1, <2>6, <3>1, <3>2
      <4> QED BY <3>1, <4>1
    <3>3. CASE i # 1
      <4>1. i - 1 \in 1..(n - 1) /\ f[i] = g[i - 1] /\ i - 1 < j - 1
        BY <2>2, <2>5, <2>6, <2>8, <3>3
      <4> QED BY <2>5, <3>1, <4>1 DEF Increasing
    <3> QED BY <3>2, <3>3
  <2> QED BY <1>4, <2>7, <2>8 DEF Sortings, Increasing
<1> QED BY <1>5, <1>6

\* Ascending lists exactly the numbers of its argument.
LEMMA AscendingLists ==
  ASSUME NEW S, S \subseteq Nat, IsFiniteSet(S)
  PROVE  /\ Ascending(S) \in [1..Cardinality(S) -> S]
         /\ \A x \in S : \E i \in 1..Cardinality(S) : Ascending(S)[i] = x
<1> DEFINE n == Cardinality(S)
<1>1. n \in Nat
  BY FS_CardinalityType
<1>2. \E f \in [1..n -> S] : \A i, j \in DOMAIN f : i < j => f[i] < f[j]
  BY HasSorting DEF Sortings, Increasing
<1>3. Ascending(S) \in [1..n -> S] /\ Increasing(Ascending(S))
  BY <1>2 DEF Ascending, Increasing
<1>4. PICK f : f = Ascending(S)
  OBVIOUS
<1>5. f \in Injection(1..n, S)
  <2>1. ASSUME NEW i \in 1..n, NEW j \in 1..n, f[i] = f[j] PROVE i = j
    <3>1. f[i] \in Nat /\ f[j] \in Nat /\ (i < j => f[i] < f[j]) /\ (j < i => f[j] < f[i])
      BY <1>3, <1>4 DEF Increasing
    <3> QED BY <1>1, <2>1, <3>1
  <2> QED BY <1>3, <1>4, <2>1 DEF Injection, IsInjective
<1>6. Cardinality(1..n) = n
  BY <1>1, FS_Interval
<1>7. f \in Surjection(1..n, S)
  BY <1>5, <1>6, FS_Injection
<1> QED BY <1>3, <1>4, <1>7 DEF Surjection

\* A list of exactly the numbers of S, in order.
Lists(f, n, S) == /\ f \in [1..n -> S] /\ Increasing(f)
                  /\ \A x \in S : \E i \in 1..n : f[i] = x

\* There is one such list only.
LEMMA ListsOnce ==
  ASSUME NEW S, S \subseteq Nat, NEW n \in Nat, NEW f, Lists(f, n, S), NEW g, Lists(g, n, S)
  PROVE  f = g
<1> DEFINE Bad == {i \in 1..n : f[i] # g[i]}
<1>1. SUFFICES ASSUME Bad # {} PROVE FALSE
  BY DEF Lists
<1>2. PICK i \in Bad : \A j \in Bad : i <= j
  <2> HIDE DEF Bad
  <2>1. Bad \subseteq Nat
    BY DEF Bad
  <2> QED BY <1>1, <2>1, LeastNat
<1>3. i \in 1..n /\ f[i] # g[i]
  OBVIOUS
<1>4. \A j \in 1..n : j < i => f[j] = g[j]
  BY <1>2
<1> HIDE DEF Bad
<1>5. \A j \in 1..n : f[j] \in Nat /\ g[j] \in Nat /\ f[j] \in S /\ g[j] \in S
  BY DEF Lists
<1>6. DOMAIN f = 1..n /\ DOMAIN g = 1..n
  BY DEF Lists
<1>7. CASE f[i] < g[i]
  <2>1. PICK j \in 1..n : g[j] = f[i]
    BY <1>3, <1>5 DEF Lists
  <2>2. CASE j < i
    <3>1. f[j] = f[i] /\ f[j] < f[i]
      BY <1>3, <1>4, <1>6, <2>1, <2>2 DEF Lists, Increasing
    <3> QED BY <1>3, <1>5, <3>1
  <2>3. CASE i < j
    <3>1. g[i] < g[j]
      BY <1>3, <1>6, <2>3 DEF Lists, Increasing
    <3> QED BY <1>3, <1>5, <1>7, <2>1, <3>1
  <2>4. CASE i = j
    BY <1>3, <2>1, <2>4
  <2> QED BY <1>3, <2>2, <2>3, <2>4
<1>8. CASE g[i] < f[i]
  <2>1. PICK j \in 1..n : f[j] = g[i]
    BY <1>3, <1>5 DEF Lists
  <2>2. CASE j < i
    <3>1. g[j] = g[i] /\ g[j] < g[i]
      BY <1>3, <1>4, <1>6, <2>1, <2>2 DEF Lists, Increasing
    <3> QED BY <1>3, <1>5, <3>1
  <2>3. CASE i < j
    <3>1. f[i] < f[j]
      BY <1>3, <1>6, <2>3 DEF Lists, Increasing
    <3> QED BY <1>3, <1>5, <1>8, <2>1, <3>1
  <2>4. CASE i = j
    BY <1>3, <2>1, <2>4
  <2> QED BY <1>3, <2>2, <2>3, <2>4
<1> QED BY <1>3, <1>5, <1>7, <1>8

\* Ascending gives it.
LEMMA AscendingIs ==
  ASSUME NEW S, S \subseteq Nat, IsFiniteSet(S)
  PROVE  Lists(Ascending(S), Cardinality(S), S) /\ Cardinality(S) \in Nat
<1> DEFINE n == Cardinality(S)
<1>1. \E f \in [1..n -> S] : \A i, j \in DOMAIN f : i < j => f[i] < f[j]
  BY HasSorting DEF Sortings, Increasing
<1>2. Ascending(S) \in [1..n -> S] /\ Increasing(Ascending(S))
  BY <1>1 DEF Ascending, Increasing
<1> QED BY <1>2, AscendingLists, FS_CardinalityType DEF Lists

\* No number is listed twice.
LEMMA ListsEach ==
  ASSUME NEW S, S \subseteq Nat, NEW n \in Nat, NEW f, Lists(f, n, S)
  PROVE  \A i, j \in 1..n : f[i] = f[j] => i = j
<1> TAKE i, j \in 1..n
<1>1. f[i] \in Nat /\ f[j] \in Nat /\ (i < j => f[i] < f[j]) /\ (j < i => f[j] < f[i])
  BY DEF Lists, Increasing
<1> QED BY <1>1

\* A list of S in order is what Ascending makes of S.
LEMMA ListedIs ==
  ASSUME NEW S, S \subseteq Nat, NEW n \in Nat, NEW f, Lists(f, n, S)
  PROVE  IsFiniteSet(S) /\ Cardinality(S) = n /\ f = Ascending(S)
<1>1. f \in Bijection(1..n, S)
  <2>1. f \in [1..n -> S]
    BY DEF Lists
  <2>2. IsInjective(f)
    <3>1. \A i, j \in 1..n : f[i] = f[j] => i = j
      BY ListsEach
    <3> QED BY <2>1, <3>1 DEF IsInjective
  <2>3. \A t \in S : \E s \in 1..n : f[s] = t
    BY DEF Lists
  <2> QED BY <2>1, <2>2, <2>3 DEF Bijection, Injection, Surjection
<1>2. IsFiniteSet(1..n) /\ Cardinality(1..n) = n
  BY FS_Interval
<1>3. ExistsBijection(1..n, S)
  BY <1>1 DEF ExistsBijection
<1>4. IsFiniteSet(S) /\ Cardinality(S) = n
  BY <1>2, <1>3, FS_Bijection
<1>5. Lists(Ascending(S), n, S)
  BY <1>4, AscendingIs
<1> QED BY <1>4, <1>5, ListsOnce

\* Retaining what is not p.
LEMMA DropIs ==
  ASSUME NEW S, S \subseteq Nat, IsFiniteSet(S), NEW p
  PROVE  Drop(Ascending(S), p) = Ascending(S \ {p})
<1>1. PICK f, n : f = Ascending(S) /\ n = Cardinality(S) /\ n \in Nat /\ Lists(f, n, S)
  BY AscendingIs
<1>2. PICK I : I = {i \in DOMAIN f : f[i] # p}
  OBVIOUS
<1>3. DOMAIN f = 1..n /\ I \subseteq 1..n /\ I \subseteq Nat
  BY <1>1, <1>2 DEF Lists
<1>4. IsFiniteSet(I)
  <2>1. IsFiniteSet(1..n)
    BY <1>1, FS_Interval
  <2> QED BY <1>3, <2>1, FS_Subset
<1>5. PICK g, m : g = Ascending(I) /\ m \in Nat /\ Lists(g, m, I)
  BY <1>3, <1>4, AscendingIs
<1>6. PICK h : h = [i \in 1..m |-> f[g[i]]]
  OBVIOUS
<1>7. Drop(f, p) = h
  <2>1. DOMAIN g = 1..m
    BY <1>5 DEF Lists
  <2> QED BY <1>2, <1>5, <1>6, <2>1 DEF Drop
<1>8. Lists(h, m, S \ {p})
  <2>1. \A i \in 1..m : g[i] \in I /\ g[i] \in 1..n /\ h[i] = f[g[i]]
    BY <1>3, <1>5, <1>6 DEF Lists
  <2>2. h \in [1..m -> S \ {p}]
    <3>1. \A i \in 1..n : f[i] \in S
      BY <1>1 DEF Lists
    <3>2. \A i \in 1..m : h[i] \in S \ {p}
      BY <1>2, <2>1, <3>1
    <3> QED BY <1>6, <3>2
  <2>3. ASSUME NEW i \in 1..m, NEW j \in 1..m, i < j PROVE h[i] < h[j]
    <3>1. g[i] < g[j]
      BY <1>5, <2>3 DEF Lists, Increasing
    <3>2. f[g[i]] < f[g[j]]
      BY <1>1, <1>3, <2>1, <3>1 DEF Lists, Increasing
    <3> QED BY <2>1, <3>2
  <2>4. ASSUME NEW x \in S \ {p} PROVE \E i \in 1..m : h[i] = x
    <3>1. PICK k \in 1..n : f[k] = x
      BY <1>1 DEF Lists
    <3>2. k \in I
      BY <1>2, <1>3, <3>1
    <3>3. PICK i \in 1..m : g[i] = k
      BY <1>5, <3>2 DEF Lists
    <3> QED BY <2>1, <3>1, <3>3
  <2> QED BY <1>6, <2>2, <2>3, <2>4 DEF Lists, Increasing
<1>9. h = Ascending(S \ {p})
  BY <1>5, <1>8, ListedIs
<1> QED BY <1>1, <1>7, <1>9

\* Appending p and sorting.
LEMMA SortedIs ==
  ASSUME NEW S, S \subseteq Nat, IsFiniteSet(S), NEW p \in Nat, p \notin S
  PROVE  Sorted(Append(Ascending(S), p)) = Ascending(S \cup {p})
<1>1. PICK f, n : f = Ascending(S) /\ n = Cardinality(S) /\ n \in Nat /\ Lists(f, n, S)
  BY AscendingIs
<1>2. PICK U, t, m : U = S \cup {p} /\ t = Ascending(U) /\ m = Cardinality(U) /\ m \in Nat
                     /\ Lists(t, m, U) /\ U \subseteq Nat
  <2>1. IsFiniteSet(S \cup {p})
    BY FS_AddElement
  <2>2. S \cup {p} \subseteq Nat
    OBVIOUS
  <2> QED BY <2>1, <2>2, AscendingIs
<1>3. m = n + 1
  BY <1>1, <1>2, FS_AddElement
<1>4. PICK seq : seq = Append(f, p)
  OBVIOUS
<1>5. /\ seq \in [1..m -> U] /\ \A x \in U : \E i \in 1..m : seq[i] = x
      /\ \A i, j \in 1..m : seq[i] = seq[j] => i = j
  <2>1. f \in Seq(U) /\ Len(f) = n /\ p \in U
    BY <1>1, <1>2 DEF Lists
  <2>2. seq \in Seq(U) /\ Len(seq) = n + 1 /\ seq[n + 1] = p /\ \A i \in 1..n : seq[i] = f[i]
    BY <1>4, <2>1
  <2>3. seq \in [1..m -> U]
    BY <1>3, <2>2
  <2>4. \A i \in 1..n : f[i] \in S
    BY <1>1 DEF Lists
  <2>5. ASSUME NEW x \in U PROVE \E i \in 1..m : seq[i] = x
    <3>1. CASE x = p
      <4>1. m \in 1..m /\ seq[m] = x
        BY <1>1, <1>3, <2>2, <3>1
      <4> QED BY <4>1
    <3>2. CASE x \in S
      <4>1. PICK i \in 1..n : f[i] = x
        BY <1>1, <3>2 DEF Lists
      <4>2. i \in 1..m /\ seq[i] = x
        BY <1>1, <1>3, <2>2, <4>1
      <4> QED BY <4>2
    <3> QED BY <1>2, <3>1, <3>2
  <2>6. ASSUME NEW i \in 1..m, NEW j \in 1..m, seq[i] = seq[j] PROVE i = j
    <3>1. \A k \in 1..m : k \in 1..n \/ k = n + 1
      BY <1>1, <1>3
    <3>2. CASE i \in 1..n /\ j \in 1..n
      <4>1. \A k, l \in 1..n : f[k] = f[l] => k = l
        <5>1. n \in Nat /\ Lists(f, n, S) /\ S \subseteq Nat
          BY <1>1
        <5> QED BY <5>1, ListsEach, Zenon
      <4> QED BY <2>2, <2>6, <3>2, <4>1
    <3>3. CASE i = n + 1 /\ j \in 1..n
      BY <2>2, <2>4, <2>6, <3>3
    <3>4. CASE j = n + 1 /\ i \in 1..n
      BY <2>2, <2>4, <2>6, <3>4
    <3> QED BY <3>1, <3>2, <3>3, <3>4
  <2> QED BY <2>3, <2>5, <2>6
<1>6. DOMAIN seq = 1..m
  BY <1>5
<1> DEFINE Orders(o) == IsInjective(o) /\ \A i, j \in DOMAIN o : i < j => seq[o[i]] <= seq[o[j]]
<1>7. \E o \in [1..m -> 1..m] : Orders(o)
  <2>1. \A i \in 1..m : t[i] \in U
    BY <1>2 DEF Lists
  <2>2. PICK o : o = [i \in 1..m |-> CHOOSE k \in 1..m : seq[k] = t[i]]
    OBVIOUS
  <2>3. ASSUME NEW i \in 1..m PROVE o[i] \in 1..m /\ seq[o[i]] = t[i]
    <3>1. \E k \in 1..m : seq[k] = t[i]
      BY <1>5, <2>1
    <3> QED BY <2>2, <3>1
  <2>4. o \in [1..m -> 1..m] /\ DOMAIN o = 1..m
    BY <2>2, <2>3
  <2>5. IsInjective(o)
    <3>1. ASSUME NEW i \in 1..m, NEW j \in 1..m, o[i] = o[j] PROVE i = j
      <4>1. t[i] = t[j]
        BY <2>3, <3>1
      <4>2. \A k, l \in 1..m : t[k] = t[l] => k = l
        <5>1. m \in Nat /\ Lists(t, m, U) /\ U \subseteq Nat
          BY <1>2
        <5> QED BY <5>1, ListsEach, Zenon
      <4> QED BY <4>1, <4>2
    <3> QED BY <2>4, <3>1 DEF IsInjective
  <2>6. ASSUME NEW i \in 1..m, NEW j \in 1..m, i < j PROVE seq[o[i]] <= seq[o[j]]
    <3>1. t[i] < t[j] /\ t[i] \in Nat /\ t[j] \in Nat
      BY <1>2, <2>1, <2>6 DEF Lists, Increasing
    <3> QED BY <2>3, <3>1
  <2> QED BY <2>4, <2>5, <2>6
<1>8. PICK order : order = CHOOSE o \in [1..m -> 1..m] : Orders(o)
  OBVIOUS
<1>9. order \in [1..m -> 1..m] /\ Orders(order)
  <2> HIDE DEF Orders
  <2> QED BY <1>7, <1>8
<1>10. PICK h : h = [i \in 1..m |-> seq[order[i]]]
  OBVIOUS
<1>11. Sorted(seq) = h
  BY <1>6, <1>8, <1>10 DEF Sorted
<1>12. Lists(h, m, U)
  <2>1. \A i \in 1..m : order[i] \in 1..m /\ h[i] = seq[order[i]] /\ h[i] \in U /\ h[i] \in Nat
    BY <1>2, <1>5, <1>9, <1>10
  <2>2. h \in [1..m -> U]
    BY <1>10, <2>1
  <2>3. ASSUME NEW i \in 1..m, NEW j \in 1..m, i < j PROVE h[i] < h[j]
    <3>1. seq[order[i]] <= seq[order[j]] /\ order[i] # order[j]
      BY <1>9, <2>3 DEF IsInjective
    <3>2. h[i] # h[j]
      BY <1>5, <2>1, <3>1
    <3> QED BY <2>1, <3>1, <3>2
  <2>4. order \in Surjection(1..m, 1..m)
    <3>1. IsFiniteSet(1..m)
      BY <1>2, FS_Interval
    <3>2. order \in Injection(1..m, 1..m)
      BY <1>9 DEF Injection
    <3> QED BY <3>1, <3>2, FS_Injection
  <2>5. ASSUME NEW x \in U PROVE \E i \in 1..m : h[i] = x
    <3>1. PICK k \in 1..m : seq[k] = x
      BY <1>5
    <3>2. PICK i \in 1..m : order[i] = k
      BY <2>4 DEF Surjection
    <3> QED BY <2>1, <3>1, <3>2
  <2> QED BY <1>10, <2>2, <2>3, <2>5 DEF Lists, Increasing
<1>13. h = t
  BY <1>2, <1>12, ListsOnce
<1> QED BY <1>1, <1>2, <1>4, <1>11, <1>13

-----------------------------------------------------------------------------
(* Filling the free partitions *)

\* Identities of members, and nobody.
Ident == (Clients \cup {None}) \X Nat

Room(d, ids, cap) == {j \in DOMAIN ids : Count(d, ids[j]) < cap[j]}
Least(d, ids, cap) == CHOOSE j \in Room(d, ids, cap) : \A k \in Room(d, ids, cap) :
                        \/ Count(d, ids[j]) < Count(d, ids[k])
                        \/ (Count(d, ids[j]) = Count(d, ids[k]) /\ j <= k)
Taken(d, i, ids, cap) == IF d[i] = Unassigned /\ Room(d, ids, cap) # {}
                         THEN [d EXCEPT ![i] = ids[Least(d, ids, cap)]] ELSE d
Fills(it, d, seq, ids, cap) ==
    it = [s \in SUBSET (DOMAIN seq) |-> IF s = {} THEN d
             ELSE Taken(it[s \ {Max(s)}], seq[Max(s)], ids, cap)]

\* Filling is this fold over the sets of partition indices.
LEMMA FilledIs == ASSUME NEW d, NEW ids, NEW cap PROVE
   LET seq == [i \in DOMAIN d |-> i]
   IN Filled(d, ids, cap) = (CHOOSE it : Fills(it, d, seq, ids, cap))[DOMAIN seq]
BY DEF Filled, FoldLeft, MapThenFoldSet, Fills, Taken, Room, Least

\* The greatest number of a set that holds n and nothing above it.
LEMMA MaxOf == ASSUME NEW n \in Nat, NEW s \in SUBSET (1..n), n \in s PROVE Max(s) = n
<1>1. \A y \in s : n >= y
  OBVIOUS
<1>2. \E x \in s : \A y \in s : x >= y
  BY <1>1
<1>3. Max(s) \in s /\ \A y \in s : Max(s) >= y
  BY <1>2 DEF Max
<1>4. Max(s) \in 1..n /\ n >= Max(s) /\ Max(s) >= n
  BY <1>1, <1>3
<1> QED BY <1>4

\* The same of any nonempty set of numbers up to n.
LEMMA MaxIn == ASSUME NEW n \in Nat, NEW s \in SUBSET (1..n), s # {} PROVE Max(s) \in s
<1> DEFINE Down == {n - x : x \in s}
<1>1. Down \subseteq Nat /\ Down # {}
  <2>1. PICK x \in s : TRUE
    OBVIOUS
  <2>2. n - x \in Down
    BY <2>1
  <2>3. Down \subseteq Nat
    OBVIOUS
  <2> QED BY <2>2, <2>3
<1>2. PICK m \in Down : \A y \in Down : m <= y
  <2> HIDE DEF Down
  <2> QED BY <1>1, LeastNat
<1>3. PICK x \in s : m = n - x
  OBVIOUS
<1>4. \A y \in s : x >= y
  <2> TAKE y \in s
  <2>1. n - y \in Down /\ n - x <= n - y
    BY <1>2, <1>3
  <2> QED BY <2>1
<1> QED BY <1>4 DEF Max

FillsUpTo(it, d, n, ids, cap) ==
    it = [s \in SUBSET (1..n) |-> IF s = {} THEN d
             ELSE Taken(it[s \ {Max(s)}], Max(s), ids, cap)]

\* The fold is defined.
LEMMA FillsExist ==
  ASSUME NEW d, NEW ids, NEW cap, NEW n \in Nat PROVE \E it : FillsUpTo(it, d, n, ids, cap)
<1> DEFINE Bad == {m \in Nat : \A it : ~FillsUpTo(it, d, m, ids, cap)}
<1>1. SUFFICES ASSUME n \in Bad PROVE FALSE
  OBVIOUS
<1>2. PICK m \in Bad : \A k \in Bad : m <= k
  <2> HIDE DEF Bad
  <2>1. Bad \subseteq Nat
    BY DEF Bad
  <2> QED BY <1>1, <2>1, LeastNat
<1>3. m \in Nat /\ \A it : ~FillsUpTo(it, d, m, ids, cap)
  OBVIOUS
<1>4. CASE m = 0
  <2>1. PICK it : it = [s \in SUBSET (1..0) |-> d]
    OBVIOUS
  <2>2. \A s \in SUBSET (1..0) : s = {}
    OBVIOUS
  <2>3. FillsUpTo(it, d, 0, ids, cap)
    BY <2>1, <2>2 DEF FillsUpTo
  <2> QED BY <1>3, <1>4, <2>3
<1>5. CASE m # 0
  <2>1. m - 1 \in Nat /\ m - 1 \notin Bad
    <3> HIDE DEF Bad
    <3> QED BY <1>2, <1>3, <1>5
  <2>2. PICK h : FillsUpTo(h, d, m - 1, ids, cap)
    BY <2>1
  <2>3. PICK it : it = [s \in SUBSET (1..m) |->
                          IF m \in s THEN Taken(h[s \ {m}], m, ids, cap) ELSE h[s]]
    OBVIOUS
  <2>4. ASSUME NEW s \in SUBSET (1..m)
        PROVE  it[s] = IF s = {} THEN d ELSE Taken(it[s \ {Max(s)}], Max(s), ids, cap)
    <3>1. CASE m \in s
      <4>1. Max(s) = m
        BY <1>3, <3>1, MaxOf
      <4>2. s \ {m} \in SUBSET (1..m) /\ m \notin s \ {m}
        OBVIOUS
      <4>3. it[s \ {m}] = h[s \ {m}]
        BY <2>3, <4>2
      <4> QED BY <2>3, <3>1, <4>1, <4>3
    <3>2. CASE m \notin s
      <4>1. s \in SUBSET (1..(m - 1))
        BY <1>3, <3>2
      <4>2. h[s] = IF s = {} THEN d ELSE Taken(h[s \ {Max(s)}], Max(s), ids, cap)
        BY <2>2, <4>1 DEF FillsUpTo
      <4>3. s \ {Max(s)} \in SUBSET (1..m) /\ m \notin s \ {Max(s)}
        BY <3>2
      <4>4. it[s] = h[s] /\ it[s \ {Max(s)}] = h[s \ {Max(s)}]
        BY <2>3, <3>2, <4>3
      <4> QED BY <4>2, <4>4
    <3> QED BY <3>1, <3>2
  <2>5. it = [s \in SUBSET (1..m) |-> it[s]]
    BY <2>3
  <2>6. FillsUpTo(it, d, m, ids, cap)
    BY <2>4, <2>5 DEF FillsUpTo
  <2> QED BY <1>3, <2>6
<1> QED BY <1>4, <1>5

\* A partition is given to one of the members.
LEMMA TakenType ==
  ASSUME NEW n \in Nat, NEW m \in Nat, NEW d \in [1..n -> Ident], NEW ids \in [1..m -> Ident],
         NEW cap, NEW i \in 1..n
  PROVE  Taken(d, i, ids, cap) \in [1..n -> Ident]
<1> DEFINE room == Room(d, ids, cap)
<1>1. SUFFICES ASSUME room # {} PROVE Least(d, ids, cap) \in room
  <2>1. room \subseteq 1..m
    BY DEF Room
  <2> QED BY <2>1 DEF Taken
<1>2. room \subseteq 1..m
  BY DEF Room
<1>3. \A id : Count(d, id) \in Nat
  <2> TAKE id
  <2>1. {k \in DOMAIN d : d[k] = id} \in SUBSET (1..n) /\ IsFiniteSet(1..n)
    BY FS_Interval
  <2>2. IsFiniteSet({k \in DOMAIN d : d[k] = id})
    BY <2>1, FS_Subset
  <2> QED BY <2>2, FS_CardinalityType DEF Count
<1>4. PICK c : c = [j \in 1..m |-> Count(d, ids[j])]
  OBVIOUS
<1>5. c \in [1..m -> Nat]
  BY <1>3, <1>4
<1>6. PICK j0 \in room : \A k \in room : c[j0] <= c[k]
  <2> HIDE DEF room
  <2>1. PICK v \in {c[k] : k \in room} : \A w \in {c[k] : k \in room} : v <= w
    <3>1. {c[k] : k \in room} \subseteq Nat /\ {c[k] : k \in room} # {}
      BY <1>1, <1>2, <1>5
    <3> QED BY <3>1, LeastNat
  <2> QED BY <2>1
<1>7. PICK j \in {k \in room : c[k] = c[j0]} : \A l \in {k \in room : c[k] = c[j0]} : j <= l
  <2> HIDE DEF room
  <2>1. {k \in room : c[k] = c[j0]} \subseteq Nat /\ {k \in room : c[k] = c[j0]} # {}
    <3>1. j0 \in {k \in room : c[k] = c[j0]}
      BY <1>6
    <3>2. room \subseteq Nat
      BY <1>2
    <3> QED BY <3>1, <3>2
  <2> QED BY <2>1, LeastNat
<1>8. \A k \in room : c[j] < c[k] \/ (c[j] = c[k] /\ j <= k)
  <2> HIDE DEF room
  <2> QED BY <1>2, <1>5, <1>6, <1>7
<1>9. j \in room /\ \A k \in room : \/ Count(d, ids[j]) < Count(d, ids[k])
                                    \/ (Count(d, ids[j]) = Count(d, ids[k]) /\ j <= k)
  <2> HIDE DEF room
  <2> QED BY <1>2, <1>4, <1>7, <1>8
<1> QED BY <1>9 DEF Least

\* Filling gives every partition to a member or to nobody.
LEMMA FilledType ==
  ASSUME NEW n \in Nat, NEW m \in Nat, NEW d \in [1..n -> Ident], NEW ids \in [1..m -> Ident],
         NEW cap
  PROVE  Filled(d, ids, cap) \in [1..n -> Ident]
<1> DEFINE D == [1..n -> Ident]
<1>1. PICK seq : seq = [i \in DOMAIN d |-> i]
  OBVIOUS
<1>2. seq = [i \in 1..n |-> i] /\ DOMAIN seq = 1..n
  BY <1>1
<1>3. \A it : Fills(it, d, seq, ids, cap) <=> FillsUpTo(it, d, n, ids, cap)
  <2> TAKE it
  <2>1. \A s \in SUBSET (1..n) : s # {} => seq[Max(s)] = Max(s)
    BY <1>2, MaxIn
  <2>2. [s \in SUBSET (DOMAIN seq) |-> IF s = {} THEN d
             ELSE Taken(it[s \ {Max(s)}], seq[Max(s)], ids, cap)]
        = [s \in SUBSET (1..n) |-> IF s = {} THEN d
             ELSE Taken(it[s \ {Max(s)}], Max(s), ids, cap)]
    BY <1>2, <2>1
  <2> QED BY <2>2 DEF Fills, FillsUpTo
<1>4. PICK it : it = CHOOSE x : Fills(x, d, seq, ids, cap)
  OBVIOUS
<1>5. FillsUpTo(it, d, n, ids, cap)
  <2>1. \E x : Fills(x, d, seq, ids, cap)
    BY <1>3, FillsExist
  <2>2. Fills(it, d, seq, ids, cap)
    BY <1>4, <2>1
  <2> QED BY <1>3, <2>2
<1>6. Filled(d, ids, cap) = it[1..n]
  BY <1>1, <1>2, <1>4, FilledIs
<1> DEFINE Bad == {k \in 0..n : it[1..k] \notin D}
<1>7. Bad = {}
  <2>1. SUFFICES ASSUME Bad # {} PROVE FALSE
    OBVIOUS
  <2>2. PICK k \in Bad : \A l \in Bad : k <= l
    <3> HIDE DEF Bad
    <3>1. Bad \subseteq Nat
      BY DEF Bad
    <3> QED BY <2>1, <3>1, LeastNat
  <2>3. 1..k \in SUBSET (1..n)
    OBVIOUS
  <2>4. it[1..k] = IF 1..k = {} THEN d
                   ELSE Taken(it[(1..k) \ {Max(1..k)}], Max(1..k), ids, cap)
    BY <1>5, <2>3 DEF FillsUpTo
  <2>5. CASE k = 0
    BY <2>4, <2>5
  <2>6. CASE k # 0
    <3>1. k \in Nat /\ k \in 1..k /\ k \in 1..n
      BY <2>6
    <3>2. Max(1..k) = k
      BY <3>1, MaxOf
    <3>3. (1..k) \ {k} = 1..(k - 1)
      BY <3>1
    <3>4. k - 1 \notin Bad
      <4> HIDE DEF Bad
      <4> QED BY <2>2, <3>1
    <3>5. it[1..(k - 1)] \in D
      BY <3>1, <3>4
    <3>6. it[1..k] = Taken(it[1..(k - 1)], k, ids, cap)
      BY <2>4, <3>1, <3>2, <3>3
    <3> QED BY <3>1, <3>5, <3>6, TakenType
  <2> QED BY <2>5, <2>6
<1> QED BY <1>6, <1>7

-----------------------------------------------------------------------------
(* Members *)

\* The list of identities names the members, and nobody else.
LEMMA IdentitiesType ==
  ASSUME NEW ms, MembersOk(ms)
  PROVE  /\ \E n \in Nat : Identities(ms) \in [1..n -> Ident]
         /\ \A id : (\E i \in DOMAIN Identities(ms) : Identities(ms)[i] = id)
                    <=> id \in MemberIds(ms)
<1> DEFINE n == Cardinality(DOMAIN ms)
<1>1. n \in Nat
  BY FS_CardinalityType DEF MembersOk
<1>2. PICK slots : slots = Slots(ms)
  OBVIOUS
<1>3. slots \in [1..n -> DOMAIN ms] /\ \A x \in DOMAIN ms : \E i \in 1..n : slots[i] = x
  BY <1>2, AscendingLists DEF MembersOk, Slots
<1>4. Identities(ms) = [i \in 1..n |-> Identity(ms[slots[i]])]
  BY <1>2, <1>3 DEF Identities
<1>5. \A k \in DOMAIN ms : Identity(ms[k]) \in Ident
  BY DEF MembersOk, IsMember, Identity, Ident
<1>6. Identities(ms) \in [1..n -> Ident]
  BY <1>3, <1>4, <1>5
<1>7. ASSUME NEW id
      PROVE  (\E i \in DOMAIN Identities(ms) : Identities(ms)[i] = id) <=> id \in MemberIds(ms)
  <2>1. ASSUME NEW i \in 1..n, Identities(ms)[i] = id PROVE id \in MemberIds(ms)
    BY <1>3, <1>4, <2>1 DEF MemberIds
  <2>2. ASSUME id \in MemberIds(ms) PROVE \E i \in 1..n : Identities(ms)[i] = id
    <3>1. PICK k \in DOMAIN ms : id = Identity(ms[k])
      BY <2>2 DEF MemberIds
    <3>2. PICK i \in 1..n : slots[i] = k
      BY <1>3
    <3> QED BY <1>4, <3>1, <3>2
  <2> QED BY <1>4, <2>1, <2>2
<1> QED BY <1>1, <1>6, <1>7

\* A new member gets a slot.
LEMMA VacantKeyType == ASSUME NEW ms, MembersOk(ms) PROVE vacant_key(ms) \in Nat
<1> DEFINE n == Cardinality(DOMAIN ms)
           free == (0..n) \ DOMAIN ms
<1>1. n \in Nat /\ IsFiniteSet(DOMAIN ms)
  BY FS_CardinalityType DEF MembersOk
<1>2. Cardinality(0..n) = n + 1
  BY <1>1, FS_Interval
<1>3. ~(0..n \subseteq DOMAIN ms)
  BY <1>1, <1>2, FS_Subset
<1>4. free \subseteq Nat /\ free # {}
  BY <1>3
<1>5. \E x \in free : \A y \in free : x =< y
  <2> HIDE DEF free
  <2> QED BY <1>4, LeastNat
<1>6. Min(free) \in free
  <2> HIDE DEF free
  <2> QED BY <1>5 DEF Min
<1> QED BY <1>6 DEF vacant_key

-----------------------------------------------------------------------------
(* Who shall own a partition *)

\* A row has or is to have a member or nobody.
LEMMA TargetType == ASSUME NEW row \in RowRecord PROVE Target(row) \in Ident
<1>1. \A w \in Owner : Identity(w) \in Ident
  BY DEF Owner, Identity, Ident
<1>2. Unassigned \in Ident
  BY DEF Unassigned, Ident
<1>3. row.pending # None => row.pending.owner \in Owner
  BY DEF RowRecord, Pending
<1>4. row.owner # None => row.owner \in Owner
  BY DEF RowRecord
<1> QED BY <1>1, <1>2, <1>3, <1>4 DEF Target

\* The same of what the balance asks for.
LEMMA BalancedType ==
  ASSUME NEW n \in Nat, NEW m \in Nat, NEW ids \in [1..m -> Ident], NEW as, NEW ps,
         DOMAIN ps = 1..n, \A i \in 1..n : Row(as, ps[i]) \in RowRecord
  PROVE  balanced_members(as, ps, ids) \in [1..n -> Ident]
<1> DEFINE Kept(p) == IF \E i \in DOMAIN ids : ids[i] = Target(Row(as, p))
                      THEN Target(Row(as, p)) ELSE Unassigned
<1>1. PICK kept : kept = [i \in DOMAIN ps |-> Kept(ps[i])]
  OBVIOUS
<1>2. Unassigned \in Ident
  BY DEF Unassigned, Ident
<1>3. kept \in [1..n -> Ident]
  BY <1>1, <1>2, TargetType
<1>4. balanced_members(as, ps, ids) = IF ids = <<>> \/ kept = <<>> THEN kept
                                      ELSE Rebalanced(kept, ids)
  BY <1>1 DEF balanced_members
<1>5. PICK cap : cap = Capacities(kept, ids)
  OBVIOUS
<1>6. PICK stripped : stripped = Stripped(kept, ids, cap)
  OBVIOUS
<1>7. stripped \in [1..n -> Ident]
  BY <1>2, <1>3, <1>6 DEF Stripped
<1>8. Rebalanced(kept, ids) = Filled(stripped, ids, cap)
  BY <1>5, <1>6 DEF Rebalanced
<1>9. Rebalanced(kept, ids) \in [1..n -> Ident]
  BY <1>7, <1>8, FilledType
<1> QED BY <1>3, <1>4, <1>9

-----------------------------------------------------------------------------
(* A decision for one partition *)

\* None is no record of this module.
LEMMA NoneIsNoRecord ==
  /\ None \notin Clients /\ None \notin Owner /\ None \notin Pending /\ None \notin Install
BY GroupAssumption DEF Pending, Install

\* What one op makes of a row keeps its owner and its place in the histories,
\* although the op may decide more than once: whatever is published was
\* decided by an earlier op.
LEMMA SuccessorKeeps ==
  ASSUME Histories, op \in Nat, NEW p, NEW row, RowOk(p, row, op + 1), NEW id \in Ident, NEW ids
  PROVE  LET next == successor(row, id, ids, op + 1)
         IN /\ RowOk(p, next, op + 1)
            /\ next.incarnation = row.incarnation /\ next.owner = row.owner
            /\ next.pending # None => next.pending.skip_drain = owner_left(row, ids)
<1> DEFINE o == op + 1
<1>1. PICK next : next = successor(row, id, ids, o)
  OBVIOUS
<1>2. row \in RowRecord /\ Opened(p, row, o) /\ Settled(p, row) /\ Owns(p, row)
  BY DEF RowOk
<1>3. row = [incarnation |-> row.incarnation, owner |-> row.owner, pending |-> row.pending]
      /\ row.incarnation \in Nat /\ row.owner \in Owner \cup {None}
      /\ row.pending \in Pending \cup {None}
  BY <1>2 DEF RowRecord
<1>4. PICK left \in BOOLEAN : left = owner_left(row, ids)
  BY DEF owner_left
<1>5. CASE IsPending(row, id)
  <2>1. row.pending \in Pending /\ row.pending # None
    BY <1>3, <1>5 DEF IsPending
  <2>2. PICK q : q = [owner |-> row.pending.owner, metadata_op |-> row.pending.metadata_op,
                      skip_drain |-> left]
    OBVIOUS
  <2>3. q \in Pending
    BY <2>1, <2>2 DEF Pending
  <2>4. row.pending = [owner |-> row.pending.owner, metadata_op |-> row.pending.metadata_op,
                       skip_drain |-> row.pending.skip_drain]
    BY <2>1 DEF Pending
  <2>5. next = [row EXCEPT !.pending.skip_drain = left]
    BY <1>1, <1>4, <1>5 DEF successor
  <2>6. next = [incarnation |-> row.incarnation, owner |-> row.owner, pending |-> q]
    BY <1>3, <2>2, <2>4, <2>5
  <2>7. next \in RowRecord
    BY <1>3, <2>3, <2>6 DEF RowRecord
  <2>8. Opened(p, next, o)
    BY <1>2, <2>1, <2>2, <2>6 DEF Opened
  <2>9. Settled(p, next) /\ Owns(p, next)
    BY <1>2, <2>3, <2>6, NoneIsNoRecord DEF Settled, Owns
  <2> QED BY <1>1, <1>4, <2>2, <2>6, <2>7, <2>8, <2>9 DEF RowOk
<1>6. CASE ~IsPending(row, id) /\ row.pending = None /\ IsOwner(row, id)
  BY <1>1, <1>2, <1>6 DEF successor, RowOk
<1>7. CASE ~IsPending(row, id) /\ ~(row.pending = None /\ IsOwner(row, id))
  <2>1. PICK w : w = [client |-> id[1], session |-> id[2], generation |-> o]
    OBVIOUS
  <2>2. w \in Owner
    BY <2>1 DEF Owner, Ident
  <2>3. PICK q : q = [owner |-> w, metadata_op |-> o, skip_drain |-> left]
    OBVIOUS
  <2>4. q \in Pending /\ q # None
    BY <2>2, <2>3, NoneIsNoRecord DEF Pending
  <2>5. next = [row EXCEPT !.pending = q]
    BY <1>1, <1>4, <1>7, <2>1, <2>3 DEF successor, HandedTo
  <2>6. next = [incarnation |-> row.incarnation, owner |-> row.owner, pending |-> q]
    BY <1>3, <2>5
  <2>7. next \in RowRecord
    BY <1>3, <2>4, <2>6 DEF RowRecord
  <2>8. \A j \in published : j.owner.generation < o
    BY DEF Histories, Install
  <2>9. Opened(p, next, o)
    <3>1. \A j \in At(published, p, row.incarnation) \cup At(active, p, row.incarnation) :
             j \in published
      BY DEF At, Histories
    <3>2. next.pending = q /\ next.incarnation = row.incarnation /\ q.metadata_op = o
          /\ q.owner.generation = o
      BY <2>1, <2>3, <2>6
    <3> QED BY <2>8, <3>1, <3>2 DEF Opened
  <2>10. Settled(p, next) /\ Owns(p, next)
    BY <1>2, <2>4, <2>6 DEF Settled, Owns
  <2> QED BY <1>1, <1>4, <2>3, <2>6, <2>7, <2>9, <2>10 DEF RowOk
<1> QED BY <1>5, <1>6, <1>7

\* A row is found as it is, or it is fresh and nothing was published for it.
LEMMA RowFits ==
  ASSUME Histories, NEW o \in Nat, NEW as, NEW ps, PartitionsOk(ps, o), RowsFit(as, ps, o),
         NEW i \in DOMAIN ps
  PROVE  RowOk(ps[i].id, Row(as, ps[i]), o) /\ Row(as, ps[i]) \in RowRecord
<1>1. ps[i].revision \in Nat
  <2>1. ps \in Seq(PartitionRecord)
    BY DEF PartitionsOk
  <2>3. ps[i] \in PartitionRecord
    BY <2>1
  <2> QED BY <2>3 DEF PartitionRecord
<1>2. CASE ps[i].id \in DOMAIN as
  <2>1. as[ps[i].id].incarnation = ps[i].revision /\ RowOk(ps[i].id, as[ps[i].id], o)
    BY <1>2 DEF RowsFit
  <2> QED BY <1>2, <2>1 DEF Row, RowOk
<1>3. CASE ps[i].id \notin DOMAIN as
  <2>1. PICK row : row = [incarnation |-> ps[i].revision, owner |-> None, pending |-> None]
    OBVIOUS
  <2>2. Row(as, ps[i]) = row
    BY <1>3, <2>1 DEF Row
  <2>3. row \in RowRecord
    BY <1>1, <2>1 DEF RowRecord
  <2>4. At(published, ps[i].id, ps[i].revision) = {}
    BY <1>3 DEF RowsFit
  <2>5. At(active, ps[i].id, ps[i].revision) = {}
    BY <2>4 DEF At, Histories
  <2>6. Opened(ps[i].id, row, o) /\ Settled(ps[i].id, row) /\ Owns(ps[i].id, row)
    BY <2>1, <2>4, <2>5 DEF Opened, Settled, Owns
  <2> QED BY <2>1, <2>2, <2>3, <2>6 DEF RowOk
<1> QED BY <1>2, <1>3

\* The lists a rebuild gives the members do not touch who they are.
LEMMA RebuildKeeps ==
  ASSUME NEW ms, MembersOk(ms), NEW as
  PROVE  /\ MembersOk(rebuild_member_assignments(ms, as))
         /\ MemberIds(rebuild_member_assignments(ms, as)) = MemberIds(ms)
<1>1. PICK next : next = rebuild_member_assignments(ms, as)
  OBVIOUS
<1>2. DOMAIN next = DOMAIN ms /\ next = [k \in DOMAIN next |-> next[k]]
  BY <1>1 DEF rebuild_member_assignments
<1>3. ASSUME NEW k \in DOMAIN ms PROVE IsMember(next[k]) /\ Identity(next[k]) = Identity(ms[k])
  <2>1. IsMember(ms[k])
    BY DEF MembersOk
  <2>2. PICK a, b : next[k] = [ms[k] EXCEPT !.partitions = a, !.pending = b]
    BY <1>1 DEF rebuild_member_assignments
  <2>3. next[k] = [client |-> ms[k].client, session |-> ms[k].session, partitions |-> a,
                   pending |-> b]
    BY <2>1, <2>2 DEF IsMember
  <2> QED BY <2>1, <2>3 DEF IsMember, Identity
<1> QED BY <1>1, <1>2, <1>3 DEF MembersOk, MemberIds

MarkedIn(as, m) == {q \in Owned(as, m) : as[q].pending # None}

MemberRebuilt(m, as) == /\ m.partitions = Ascending(Owned(as, m))
                        /\ m.pending = Ascending(MarkedIn(as, m))

\* Member by member.
LEMMA RebuiltEach ==
  ASSUME NEW ms, MembersOk(ms), NEW as
  PROVE  Rebuilt(ms, as) <=> \A k \in DOMAIN ms : MemberRebuilt(ms[k], as)
<1>1. PICK next : next = rebuild_member_assignments(ms, as)
  OBVIOUS
<1>2. DOMAIN next = DOMAIN ms /\ next = [k \in DOMAIN ms |-> next[k]]
  BY <1>1 DEF rebuild_member_assignments
<1>3. ASSUME NEW k \in DOMAIN ms
      PROVE  next[k] = ms[k] <=> /\ ms[k].partitions = Ascending(Owned(as, ms[k]))
                                 /\ ms[k].pending = Ascending(MarkedIn(as, ms[k]))
  <2>1. PICK m : m = ms[k] /\ IsMember(m)
    BY DEF MembersOk
  <2>2. PICK a, b : a = Ascending(Owned(as, m)) /\ b = Ascending(MarkedIn(as, m))
    OBVIOUS
  <2>3. next[k] = [m EXCEPT !.partitions = a, !.pending = b]
    BY <1>1, <2>1, <2>2 DEF rebuild_member_assignments, MarkedIn
  <2>4. next[k] = [client |-> m.client, session |-> m.session, partitions |-> a, pending |-> b]
    BY <2>1, <2>3 DEF IsMember
  <2>5. m = [client |-> m.client, session |-> m.session, partitions |-> m.partitions,
             pending |-> m.pending]
    BY <2>1 DEF IsMember
  <2>6. PICK x, y : x = m.partitions /\ y = m.pending
    OBVIOUS
  <2>7. next[k] = m <=> x = a /\ y = b
    <3>1. m = [client |-> m.client, session |-> m.session, partitions |-> x, pending |-> y]
      BY <2>5, <2>6
    <3>2. next[k] = m => next[k].partitions = x /\ next[k].pending = y
      BY <2>6
    <3>3. next[k].partitions = a /\ next[k].pending = b
      BY <2>4
    <3> QED BY <2>4, <3>1, <3>2, <3>3
  <2> QED BY <2>1, <2>2, <2>6, <2>7
<1>4. ms = [k \in DOMAIN ms |-> ms[k]]
  BY DEF MembersOk
<1>5. Rebuilt(ms, as) <=> \A k \in DOMAIN ms : next[k] = ms[k]
  BY <1>1, <1>2, <1>4 DEF Rebuilt
<1> QED BY <1>3, <1>5 DEF MemberRebuilt

\* A rebuild is one.
LEMMA RebuildRebuilds ==
  ASSUME NEW ms, MembersOk(ms), NEW as PROVE Rebuilt(rebuild_member_assignments(ms, as), as)
<1>1. PICK next : next = rebuild_member_assignments(ms, as)
  OBVIOUS
<1>2. DOMAIN next = DOMAIN ms
  BY <1>1 DEF rebuild_member_assignments
<1>3. MembersOk(next)
  BY <1>1, RebuildKeeps
<1>4. ASSUME NEW k \in DOMAIN next
      PROVE  /\ next[k].partitions = Ascending(Owned(as, next[k]))
             /\ next[k].pending = Ascending(MarkedIn(as, next[k]))
  <2>1. PICK m : m = ms[k] /\ IsMember(m)
    BY <1>2 DEF MembersOk
  <2>2. PICK a, b : a = Ascending(Owned(as, m)) /\ b = Ascending(MarkedIn(as, m))
    OBVIOUS
  <2>3. next[k] = [m EXCEPT !.partitions = a, !.pending = b]
    BY <1>1, <1>2, <2>1, <2>2 DEF rebuild_member_assignments, MarkedIn
  <2>4. next[k] = [client |-> m.client, session |-> m.session, partitions |-> a, pending |-> b]
    BY <2>1, <2>3 DEF IsMember
  <2>5. Identity(next[k]) = Identity(m) /\ next[k].partitions = a /\ next[k].pending = b
    BY <2>4 DEF Identity
  <2>6. Owned(as, next[k]) = Owned(as, m)
    BY <2>5 DEF Owned
  <2> QED BY <2>2, <2>5, <2>6 DEF MarkedIn
<1> QED BY <1>1, <1>3, <1>4, RebuiltEach DEF MemberRebuilt

-----------------------------------------------------------------------------
(* A rebalance *)

\* Whatever the balance asks for, the group stays in order with itself and
\* with the histories.
LEMMA RebalanceKeeps ==
  ASSUME Histories, op \in Nat, NEW ms, NEW as, NEW ps,
         MembersOk(ms), PartitionsOk(ps, op + 1), RowsFit(as, ps, op + 1)
  PROVE  LET g == rebalance_members(ms, as, ps, op + 1)
         IN GroupOk(g.members, g.assignments, ps, op + 1)
<1> DEFINE o == op + 1
<1>1. PICK g : g = rebalance_members(ms, as, ps, o)
  OBVIOUS
<1>2. CASE DOMAIN ms = {} /\ DOMAIN as = {}
  <2>1. g = [members |-> ms, assignments |-> as]
    BY <1>1, <1>2 DEF rebalance_members
  <2>2. g.members = ms /\ g.assignments = as
    BY <2>1
  <2>3. Rebuilt(ms, as)
    BY <1>2, RebuiltEach
  <2> QED BY <1>1, <1>2, <2>2, <2>3 DEF GroupOk, RowsOk, Drains
<1>3. CASE ~(DOMAIN ms = {} /\ DOMAIN as = {})
  <2>1. PICK ids : ids = Identities(ms)
    OBVIOUS
  <2>2. PICK desired : desired = balanced_members(as, ps, ids)
    OBVIOUS
  <2> DEFINE At0(id) == CHOOSE i \in DOMAIN ps : ps[i].id = id
             Keys == {ps[i].id : i \in DOMAIN ps}
             raw == [id \in Keys |-> LET i == CHOOSE i \in DOMAIN ps : ps[i].id = id
                                     IN successor(Row(as, ps[i]),
                                                  balanced_members(as, ps, Identities(ms))[i],
                                                  Identities(ms), o)]
  <2>3. PICK rows : rows = raw
    OBVIOUS
  <2>3a. \A id \in Keys : rows[id] = successor(Row(as, ps[At0(id)]), desired[At0(id)], ids, o)
    BY <2>1, <2>2, <2>3
  <2>3b. DOMAIN rows = Keys /\ rows = [p \in Keys |-> rows[p]]
    <3>1. DOMAIN raw = Keys
      OBVIOUS
    <3>2. raw = [p \in Keys |-> raw[p]]
      <4> HIDE DEF Keys
      <4> QED OBVIOUS
    <3> HIDE DEF raw
    <3> QED BY <2>3, <3>1, <3>2
  <2>4. g = [members |-> rebuild_member_assignments(ms, rows), assignments |-> rows]
    <3>1. g = [members |-> rebuild_member_assignments(ms, raw), assignments |-> raw]
      BY <1>1, <1>3 DEF rebalance_members
    <3> HIDE DEF raw
    <3> QED BY <2>3, <3>1
  <2> HIDE DEF raw
  <2>5. g.members = rebuild_member_assignments(ms, rows) /\ g.assignments = rows
    BY <2>4
  <2>6. PICK m \in Nat : ids \in [1..m -> Ident]
    BY <2>1, IdentitiesType
  <2>7. PICK n \in Nat : DOMAIN ps = 1..n
    BY DEF PartitionsOk
  <2>8. \A i \in DOMAIN ps : /\ RowOk(ps[i].id, Row(as, ps[i]), o) /\ Row(as, ps[i]) \in RowRecord
                             /\ Row(as, ps[i]).incarnation = ps[i].revision
    <3>1. PICK o1 \in Nat : o1 = o
      OBVIOUS
    <3>2. PartitionsOk(ps, o1) /\ RowsFit(as, ps, o1)
      BY <3>1
    <3>3. ASSUME NEW i \in DOMAIN ps
          PROVE  /\ RowOk(ps[i].id, Row(as, ps[i]), o1)
                 /\ Row(as, ps[i]) \in RowRecord
                 /\ Row(as, ps[i]).incarnation = ps[i].revision
      <4>1. o1 \in Nat
        BY <3>1
      <4>2. RowOk(ps[i].id, Row(as, ps[i]), o1)
        BY <3>2, <4>1, RowFits, Zenon
      <4>3. Row(as, ps[i]) \in RowRecord
        BY <3>2, <4>1, RowFits, Zenon
      <4>4. Row(as, ps[i]).incarnation = ps[i].revision
        BY DEF Row
      <4> QED BY <4>2, <4>3, <4>4
    <3> QED BY <3>1, <3>3
  <2>9. desired \in [1..n -> Ident]
    BY <2>2, <2>6, <2>7, <2>8, BalancedType
  <2>10. ASSUME NEW i \in DOMAIN ps
         PROVE  LET row == Row(as, ps[i])
                    next == rows[ps[i].id]
                IN /\ ps[i].id \in DOMAIN rows
                   /\ RowOk(ps[i].id, next, o) /\ next.incarnation = ps[i].revision
                   /\ next.owner = row.owner
                   /\ next.pending # None => next.pending.skip_drain = owner_left(row, ids)
    <3>1. PICK j : j = At0(ps[i].id)
      OBVIOUS
    <3>2. j \in DOMAIN ps /\ ps[j].id = ps[i].id
      BY <3>1
    <3>3. j = i
      BY <2>7, <3>2 DEF PartitionsOk
    <3>4. ps[i].id \in Keys /\ rows[ps[i].id] = successor(Row(as, ps[i]), desired[i], ids, o)
      BY <2>3a, <3>1, <3>3
    <3>5. desired[i] \in Ident
      BY <2>7, <2>9
    <3>6. PICK row : row = Row(as, ps[i])
      OBVIOUS
    <3>7. RowOk(ps[i].id, row, o) /\ row.incarnation = ps[i].revision
      BY <2>8, <3>6
    <3>8. LET next == successor(row, desired[i], ids, o)
          IN /\ RowOk(ps[i].id, next, o)
             /\ next.incarnation = row.incarnation /\ next.owner = row.owner
             /\ next.pending # None => next.pending.skip_drain = owner_left(row, ids)
      BY <3>5, <3>7, SuccessorKeeps
    <3> QED BY <2>3b, <3>4, <3>6, <3>7, <3>8
  <2>11. \A p \in DOMAIN rows : \E i \in DOMAIN ps : ps[i].id = p
    BY <2>3b
  <2>12. RowsOk(rows, ps, o)
    <3>1. rows = [p \in DOMAIN rows |-> rows[p]]
      BY <2>3b
    <3>2. \A p \in DOMAIN rows : RowOk(p, rows[p], o)
      BY <2>10, <2>11
    <3> QED BY <2>10, <2>11, <3>1, <3>2 DEF RowsOk, RowsFit
  <2>13. MembersOk(g.members) /\ MemberIds(g.members) = MemberIds(ms)
    BY <2>5, RebuildKeeps
  <2>14. Drains(g.members, rows)
    <3>1. SUFFICES ASSUME NEW p \in DOMAIN rows, rows[p].pending # None
                   PROVE  rows[p].pending.skip_drain
                          = (rows[p].owner = None \/ Identity(rows[p].owner) \notin MemberIds(ms))
      BY <2>13 DEF Drains
    <3>2. PICK i \in DOMAIN ps : ps[i].id = p
      BY <2>11
    <3>3. PICK row : row = Row(as, ps[i])
      OBVIOUS
    <3>4. rows[p].owner = row.owner /\ rows[p].pending.skip_drain = owner_left(row, ids)
      BY <2>10, <3>1, <3>2, <3>3
    <3>5. \A id : (\E k \in DOMAIN ids : ids[k] = id) <=> id \in MemberIds(ms)
      BY <2>1, IdentitiesType
    <3> QED BY <3>4, <3>5 DEF owner_left
  <2>15. Rebuilt(g.members, rows)
    BY <2>5, RebuildRebuilds
  <2> QED BY <1>1, <2>5, <2>12, <2>13, <2>14, <2>15 DEF GroupOk
<1> QED BY <1>2, <1>3

-----------------------------------------------------------------------------
(* Publishing *)

OpenIn(as) == {q \in DOMAIN as : as[q].pending # None}
InstallOf(as, q) == [partition |-> q, incarnation |-> as[q].incarnation,
                     owner |-> as[q].pending.owner, metadata_op |-> as[q].pending.metadata_op]
Offered(as) == {InstallOf(as, q) : q \in OpenIn(as)}

\* What the readers of an index may install are the open handovers.
LEMMA OfferedIs ==
  ASSUME NEW as PROVE {Installation(t) : t \in index_pending_revocations(as)} = Offered(as)
<1> DEFINE T(q) == [partition |-> q, incarnation |-> as[q].incarnation,
                    owner |-> as[q].pending.owner, metadata_op |-> as[q].pending.metadata_op,
                    skip_drain |-> as[q].pending.skip_drain]
<1>1. \A q : Installation(T(q)) = InstallOf(as, q)
  BY DEF Installation, InstallOf
<1>2. index_pending_revocations(as) = {T(q) : q \in OpenIn(as)}
  BY DEF index_pending_revocations, OpenIn
<1> HIDE DEF T
<1> QED BY <1>1, <1>2 DEF Offered

\* Each is an installation at the generation of its op.
LEMMA OfferedType ==
  ASSUME NEW o \in Nat, NEW as, NEW ps, PartitionsOk(ps, o), RowsOk(as, ps, o), NEW q \in OpenIn(as)
  PROVE  /\ InstallOf(as, q) \in Install
         /\ as[q].pending.owner.generation = as[q].pending.metadata_op
         /\ as[q].pending.metadata_op <= o /\ as[q].incarnation <= o
<1>1. q \in DOMAIN as /\ as[q].pending # None
  BY DEF OpenIn
<1>2. RowOk(q, as[q], o)
  BY <1>1 DEF RowsOk, RowsFit
<1>3. as[q].pending \in Pending /\ as[q].incarnation \in Nat
  BY <1>1, <1>2 DEF RowOk, RowRecord
<1>4. PICK i \in DOMAIN ps : ps[i].id = q
  BY <1>1 DEF RowsOk
<1>5. ps[i] \in PartitionRecord /\ ps[i].revision <= o
  <2>1. ps \in Seq(PartitionRecord)
    BY DEF PartitionsOk
  <2> QED BY <2>1 DEF PartitionsOk
<1>6. as[q].incarnation = ps[i].revision
  BY <1>1, <1>4 DEF RowsOk, RowsFit
<1>7. InstallOf(as, q) \in Install
  BY <1>3, <1>4, <1>5 DEF InstallOf, Install, Pending, PartitionRecord
<1>8. as[q].pending.owner.generation = as[q].pending.metadata_op /\ as[q].pending.metadata_op <= o
  BY <1>1, <1>2 DEF RowOk, Opened
<1> QED BY <1>5, <1>6, <1>7, <1>8

\* Publishing the open handovers of a group keeps its rows in order with the
\* histories.
LEMMA PublishKeepsRows ==
  ASSUME NEW o \in Nat, NEW as, NEW ps, RowsOk(as, ps, o),
         published' = published \cup Offered(as), UNCHANGED <<installed, active>>
  PROVE  RowsOk(as, ps, o)'
<1>1. ASSUME NEW p \in DOMAIN as, NEW j \in At(published', p, as[p].incarnation),
             j \notin At(published, p, as[p].incarnation)
      PROVE  as[p].pending # None /\ j.owner = as[p].pending.owner
             /\ j.metadata_op = as[p].pending.metadata_op
  <2>1. j \in Offered(as) /\ j.partition = p
    BY <1>1 DEF At
  <2>2. PICK q \in OpenIn(as) : j = InstallOf(as, q)
    BY <2>1 DEF Offered
  <2>3. j.partition = q /\ j.owner = as[q].pending.owner /\ j.metadata_op = as[q].pending.metadata_op
    BY <2>2 DEF InstallOf
  <2> QED BY <2>1, <2>2, <2>3 DEF OpenIn
<1>2. ASSUME NEW p \in DOMAIN as PROVE RowOk(p, as[p], o)'
  <2>1. PICK row : row = as[p]
    OBVIOUS
  <2>2. row \in RowRecord /\ Opened(p, row, o) /\ Settled(p, row) /\ Owns(p, row)
    BY <2>1 DEF RowsOk, RowsFit, RowOk
  <2>3. Opened(p, row, o)'
    <3>1. SUFFICES ASSUME row.pending # None, NEW j \in At(published', p, row.incarnation)
                   PROVE  \/ j.owner.generation < row.pending.metadata_op
                          \/ j.owner = row.pending.owner /\ j.metadata_op = row.pending.metadata_op
      BY <2>2 DEF Opened, At
    <3> QED BY <1>1, <2>1, <2>2, <3>1 DEF Opened
  <2>4. Settled(p, row)'
    <3>1. SUFFICES ASSUME row.pending = None PROVE Settled(p, row)'
      BY DEF Settled
    <3>2. At(published', p, row.incarnation) = At(published, p, row.incarnation)
      <4>1. \A j \in At(published', p, row.incarnation) : j \in At(published, p, row.incarnation)
        BY <1>1, <2>1, <3>1
      <4>2. At(published, p, row.incarnation) \subseteq At(published', p, row.incarnation)
        BY DEF At
      <4> QED BY <4>1, <4>2
    <3>3. At(installed', p, row.incarnation) = At(installed, p, row.incarnation)
      OBVIOUS
    <3> QED BY <2>2, <3>2, <3>3 DEF Settled
  <2>5. Owns(p, row)'
    BY <2>2 DEF Owns
  <2> QED BY <2>1, <2>2, <2>3, <2>4, <2>5 DEF RowOk
<1>3. ASSUME NEW i \in DOMAIN ps, ps[i].id \notin DOMAIN as
      PROVE  At(published', ps[i].id, ps[i].revision) = {}
  <2>1. At(published, ps[i].id, ps[i].revision) = {}
    BY <1>3 DEF RowsOk, RowsFit
  <2>2. SUFFICES ASSUME NEW j \in At(published', ps[i].id, ps[i].revision) PROVE FALSE
    OBVIOUS
  <2>3. j \in Offered(as) /\ j.partition = ps[i].id
    BY <2>1, <2>2 DEF At
  <2>4. PICK q \in OpenIn(as) : j = InstallOf(as, q)
    BY <2>3 DEF Offered
  <2>5. j.partition = q /\ q \in DOMAIN as
    BY <2>4 DEF InstallOf, OpenIn
  <2> QED BY <1>3, <2>3, <2>5
<1>4. /\ as = [p \in DOMAIN as |-> as[p]]
      /\ \A p \in DOMAIN as : \E i \in DOMAIN ps : ps[i].id = p
      /\ \A i \in DOMAIN ps : ps[i].id \in DOMAIN as => as[ps[i].id].incarnation = ps[i].revision
  BY DEF RowsOk, RowsFit
<1> QED BY <1>2, <1>3, <1>4 DEF RowsOk, RowsFit

\* A later op does not disturb the rows.
LEMMA RowsLater ==
  ASSUME op \in Nat, NEW as, NEW ps, RowsOk(as, ps, op) PROVE RowsOk(as, ps, op + 1)
<1>1. ASSUME NEW p \in DOMAIN as PROVE RowOk(p, as[p], op + 1)
  <2>1. PICK row : row = as[p]
    OBVIOUS
  <2>2. RowOk(p, row, op)
    BY <2>1 DEF RowsOk, RowsFit
  <2>3. row.pending # None => row.pending.metadata_op \in Nat
    BY <2>2 DEF RowOk, RowRecord, Pending
  <2>4. Opened(p, row, op + 1)
    BY <2>2, <2>3 DEF RowOk, Opened
  <2> QED BY <2>1, <2>2, <2>4 DEF RowOk
<1> QED BY <1>1 DEF RowsOk, RowsFit

\* The group of the next state.
LEMMA GroupLater ==
  ASSUME NEW ms, NEW as, ms = members', as = assignments', MembersOk(ms), Drains(ms, as),
         Rebuilt(ms, as), (RowsOk(assignments, partitions, op))'
  PROVE  GroupOk(members, assignments, partitions, op)'
<1>1. (Rebuilt(members, assignments))'
  BY DEF Rebuilt
<1> QED BY <1>1 DEF GroupOk, MembersOk, Drains, MemberIds

\* What an op that decides publishes keeps the invariant.
LEMMA PublishKeeps ==
  ASSUME IInv, op' = op + 1, session' \in [Clients -> Nat], PartitionsOk(partitions', op + 1),
         GroupOk(members', assignments', partitions', op + 1),
         published' = published \cup Offered(assignments'),
         pending_revocations' = index_pending_revocations(assignments'),
         UNCHANGED <<installed, active>>
  PROVE  IInv'
<1>1. PICK as, ps, ms : as = assignments' /\ ps = partitions' /\ ms = members'
  OBVIOUS
<1>2. PICK o \in Nat : o = op + 1
  BY DEF IInv
<1>3. PartitionsOk(ps, o) /\ MembersOk(ms) /\ RowsOk(as, ps, o) /\ Drains(ms, as) /\ Rebuilt(ms, as)
  BY <1>1, <1>2 DEF GroupOk
<1>4. published' = published \cup Offered(as)
  BY <1>1
<1>5. RowsOk(as, ps, o)'
  BY <1>2, <1>3, <1>4, PublishKeepsRows
<1>6. \A q \in OpenIn(as) : /\ InstallOf(as, q) \in Install
                            /\ as[q].pending.owner.generation = as[q].pending.metadata_op
                            /\ as[q].pending.metadata_op <= o /\ as[q].incarnation <= o
  BY <1>2, <1>3, OfferedType
<1>7. Histories'
  <2>1. \A i \in published : /\ i \in Install /\ i.owner.generation = i.metadata_op
                             /\ i.metadata_op <= o /\ i.incarnation <= o
    BY <1>2 DEF IInv, Histories, Install
  <2>2. \A i \in Offered(as) : /\ i \in Install /\ i.owner.generation = i.metadata_op
                               /\ i.metadata_op <= o /\ i.incarnation <= o
    <3> TAKE i \in Offered(as)
    <3>1. PICK q \in OpenIn(as) : i = InstallOf(as, q)
      BY DEF Offered
    <3>2. i.owner = as[q].pending.owner /\ i.metadata_op = as[q].pending.metadata_op
          /\ i.incarnation = as[q].incarnation
      BY <3>1 DEF InstallOf
    <3> QED BY <1>6, <3>1, <3>2
  <2>3. \A i \in published' : /\ i \in Install /\ i.owner.generation = i.metadata_op
                              /\ i.metadata_op <= o /\ i.incarnation <= o
    BY <1>4, <2>1, <2>2
  <2>4. installed \subseteq published /\ active \subseteq installed
    BY DEF IInv, Histories
  <2> QED BY <1>2, <1>4, <2>3, <2>4 DEF Histories
<1>8. InstallsNeverConflict'
  <2>1. ASSUME NEW q \in OpenIn(as), NEW j \in published', j.partition = q,
               j.incarnation = as[q].incarnation,
               j.owner.generation = as[q].pending.owner.generation
        PROVE  j = InstallOf(as, q)
    <3>1. j \in Install
      BY <1>7 DEF Histories
    <3>2. q \in DOMAIN as /\ as[q].pending # None
      BY DEF OpenIn
    <3>3. CASE j \in published
      <4>1. j \in At(published, q, as[q].incarnation)
        BY <2>1, <3>3 DEF At
      <4>2. \/ j.owner.generation < as[q].pending.metadata_op
            \/ j.owner = as[q].pending.owner /\ j.metadata_op = as[q].pending.metadata_op
        BY <1>3, <3>2, <4>1 DEF RowsOk, RowsFit, RowOk, Opened
      <4>3. j.owner.generation = as[q].pending.metadata_op /\ j.owner.generation \in Nat
        BY <1>6, <2>1, <3>1 DEF Install, Owner
      <4>4. j.owner = as[q].pending.owner /\ j.metadata_op = as[q].pending.metadata_op
        <5>1. PICK x \in Nat : x = j.owner.generation
          BY <4>3
        <5>2. as[q].pending.metadata_op = x
          BY <4>3, <5>1, Zenon
        <5>3. ~(x < x)
          OBVIOUS
        <5> QED BY <4>2, <5>1, <5>2, <5>3
      <4> QED BY <2>1, <3>1, <4>4 DEF Install, InstallOf
    <3>4. CASE j \in Offered(as)
      <4>1. PICK r \in OpenIn(as) : j = InstallOf(as, r)
        BY <3>4 DEF Offered
      <4>2. r = q
        BY <2>1, <4>1 DEF InstallOf
      <4> QED BY <4>1, <4>2
    <3> QED BY <1>4, <3>3, <3>4
  <2>2. ASSUME NEW i \in published', NEW j \in published', i.partition = j.partition,
               i.incarnation = j.incarnation, i.owner.generation = j.owner.generation
        PROVE  i = j
    <3>1. CASE i \in published /\ j \in published
      BY <2>2, <3>1 DEF IInv, InstallsNeverConflict
    <3>2. CASE i \in Offered(as)
      <4>1. PICK q \in OpenIn(as) : i = InstallOf(as, q)
        BY <3>2 DEF Offered
      <4>2. i.partition = q /\ i.incarnation = as[q].incarnation
            /\ i.owner.generation = as[q].pending.owner.generation
        BY <4>1 DEF InstallOf
      <4> QED BY <2>1, <2>2, <4>1, <4>2
    <3>3. CASE j \in Offered(as)
      <4>1. PICK q \in OpenIn(as) : j = InstallOf(as, q)
        BY <3>3 DEF Offered
      <4>2. j.partition = q /\ j.incarnation = as[q].incarnation
            /\ j.owner.generation = as[q].pending.owner.generation
        BY <4>1 DEF InstallOf
      <4> QED BY <2>1, <2>2, <4>1, <4>2
    <3> QED BY <1>4, <3>1, <3>2, <3>3
  <2> QED BY <2>2 DEF InstallsNeverConflict
<1>9. GroupOk(members, assignments, partitions, op)'
  <2>1. (RowsOk(assignments, partitions, op))'
    <3>1. ASSUME NEW p \in DOMAIN as PROVE (RowOk(p, assignments[p], op))'
      <4>1. PICK row : row = as[p] /\ row = (assignments[p])'
        BY <1>1
      <4>2. RowOk(p, row, o)'
        BY <1>5, <4>1 DEF RowsOk, RowsFit
      <4> QED BY <1>2, <4>1, <4>2 DEF RowOk, Opened, Settled, Owns
    <3> QED BY <1>1, <1>5, <3>1 DEF RowsOk, RowsFit
  <2> QED BY <1>1, <1>3, <2>1, GroupLater
<1>10. PartitionsOk(partitions, op)'
  BY <1>1, <1>2, <1>3 DEF PartitionsOk
<1> QED BY <1>2, <1>7, <1>8, <1>9, <1>10 DEF IInv, index_pending_revocations

-----------------------------------------------------------------------------
(* The ops that rebalance once *)

\* The members after one of them got a new session.
LEMMA RefreshedMembers ==
  ASSUME NEW ms, MembersOk(ms), NEW c, NEW s \in Nat
  PROVE  MembersOk([k \in DOMAIN ms |-> IF ms[k].client = c THEN [ms[k] EXCEPT !.session = s]
                                        ELSE ms[k]])
<1>1. PICK next : next = [k \in DOMAIN ms |-> IF ms[k].client = c
                             THEN [ms[k] EXCEPT !.session = s] ELSE ms[k]]
  OBVIOUS
<1>2. ASSUME NEW k \in DOMAIN ms PROVE IsMember(next[k])
  <2>1. IsMember(ms[k])
    BY DEF MembersOk
  <2>2. CASE ms[k].client = c
    <3>1. next[k] = [client |-> ms[k].client, session |-> s, partitions |-> ms[k].partitions,
                     pending |-> ms[k].pending]
      BY <1>1, <2>1, <2>2 DEF IsMember
    <3> QED BY <2>1, <3>1 DEF IsMember
  <2> QED BY <1>1, <2>1, <2>2
<1>3. DOMAIN next = DOMAIN ms /\ next = [k \in DOMAIN next |-> next[k]]
  BY <1>1
<1> QED BY <1>1, <1>2, <1>3 DEF MembersOk

\* The members that stay.
LEMMA RemainingMembers == ASSUME NEW ms, MembersOk(ms), NEW c PROVE MembersOk(Without(ms, c))
<1>1. PICK next : next = Without(ms, c)
  OBVIOUS
<1>2. DOMAIN next \in SUBSET (DOMAIN ms) /\ \A k \in DOMAIN next : next[k] = ms[k]
  BY <1>1 DEF Without
<1>3. next = [k \in DOMAIN next |-> next[k]]
  BY <1>1 DEF Without
<1>4. IsFiniteSet(DOMAIN next)
  BY <1>2, FS_Subset DEF MembersOk
<1> QED BY <1>1, <1>2, <1>3, <1>4 DEF MembersOk

\* The members and the one that joins.
LEMMA JoinedMembers ==
  ASSUME NEW ms, MembersOk(ms), NEW c \in Clients, NEW s \in Nat
  PROVE  MembersOk(WithMember(ms, c, s))
<1>1. PICK next : next = WithMember(ms, c, s)
  OBVIOUS
<1>2. PICK v \in Nat : v = vacant_key(ms)
  BY VacantKeyType
<1>3. PICK m : m = [client |-> c, session |-> s, partitions |-> <<>>, pending |-> <<>>]
  OBVIOUS
<1>4. IsMember(m)
  BY <1>3 DEF IsMember
<1>5. next = [k \in DOMAIN ms \cup {v} |-> IF k \in DOMAIN ms THEN ms[k] ELSE m]
  BY <1>1, <1>2, <1>3 DEF WithMember
<1>6. IsFiniteSet(DOMAIN ms \cup {v})
  BY FS_AddElement DEF MembersOk
<1>7. DOMAIN next = DOMAIN ms \cup {v} /\ next = [k \in DOMAIN next |-> next[k]]
      /\ \A k \in DOMAIN next : next[k] = IF k \in DOMAIN ms THEN ms[k] ELSE m
  BY <1>5
<1> QED BY <1>1, <1>4, <1>6, <1>7 DEF MembersOk

\* An op that rebalances the group as it is keeps the invariant.
LEMMA BecomesKeeps ==
  ASSUME IInv, op' = op + 1, session' \in [Clients -> Nat], UNCHANGED <<installed, active>>,
         NEW ms, MembersOk(ms), NEW ps, ps = partitions', PartitionsOk(ps, op + 1),
         RowsFit(assignments, ps, op + 1),
         Becomes(rebalance_members(ms, assignments, ps, op + 1))
  PROVE  IInv'
<1>1. PICK g : g = rebalance_members(ms, assignments, ps, op + 1)
  OBVIOUS
<1>2. /\ members' = g.members /\ assignments' = g.assignments
      /\ pending_revocations' = index_pending_revocations(g.assignments)
      /\ published' = published \cup
             {Installation(t) : t \in index_pending_revocations(g.assignments)}
  BY <1>1 DEF Becomes
<1>3. published' = published \cup Offered(assignments')
  BY <1>2, OfferedIs
<1>4. GroupOk(g.members, g.assignments, ps, op + 1)
  BY <1>1, RebalanceKeeps DEF IInv
<1>5. GroupOk(members', assignments', partitions', op + 1)
  BY <1>2, <1>4
<1>6. pending_revocations' = index_pending_revocations(assignments') 
  BY <1>2
<1>7. PartitionsOk(partitions', op + 1)
  OBVIOUS
<1> QED BY <1>3, <1>5, <1>6, <1>7, PublishKeeps

\* The rows and the partitions of the last op fit the next one.
LEMMA StillFits ==
  ASSUME IInv PROVE RowsFit(assignments, partitions, op + 1) /\ PartitionsOk(partitions, op + 1)
<1>1. RowsOk(assignments, partitions, op + 1)
  BY RowsLater DEF IInv, GroupOk
<1>2. PartitionsOk(partitions, op + 1)
  <2>1. PartitionsOk(partitions, op) /\ op \in Nat
    BY DEF IInv
  <2>2. partitions \in Seq(PartitionRecord)
    BY <2>1 DEF PartitionsOk
  <2>3. \A i \in DOMAIN partitions : partitions[i] \in PartitionRecord
    BY <2>2
  <2>4. \A i \in DOMAIN partitions : partitions[i].revision \in Nat
    BY <2>3 DEF PartitionRecord
  <2> QED BY <2>1, <2>4 DEF PartitionsOk
<1> QED BY <1>1, <1>2 DEF RowsOk

\* An op that does not concern the group keeps the invariant.
LEMMA LaterKeeps ==
  ASSUME IInv, op' = op + 1, session' \in [Clients -> Nat],
         UNCHANGED <<partitions, group, published, installed, active>>
  PROVE  IInv'
<1>1. RowsOk(assignments, partitions, op + 1) /\ PartitionsOk(partitions, op + 1)
  BY StillFits, RowsLater DEF IInv, GroupOk
<1>2. (RowsOk(assignments, partitions, op))'
  <2>1. ASSUME NEW p \in DOMAIN assignments PROVE (RowOk(p, assignments[p], op))'
    <3>1. RowOk(p, assignments[p], op + 1)
      BY <1>1 DEF RowsOk, RowsFit
    <3> QED BY <3>1 DEF RowOk, Opened, Settled, Owns, group
  <2> QED BY <1>1, <2>1 DEF RowsOk, RowsFit, group
<1>3. GroupOk(members, assignments, partitions, op)'
  <2>1. PICK ms, as : ms = members /\ as = assignments /\ ms = members' /\ as = assignments'
    BY DEF group
  <2>2. MembersOk(ms) /\ Drains(ms, as) /\ Rebuilt(ms, as)
    BY <2>1 DEF IInv, GroupOk
  <2> QED BY <1>2, <2>1, <2>2, GroupLater
<1>4. PartitionsOk(partitions, op)'
  BY <1>1 DEF PartitionsOk
<1>5. Histories' /\ InstallsNeverConflict'
  <2>1. \A i \in published : i.metadata_op \in Nat /\ i.incarnation \in Nat
    BY DEF IInv, Histories, Install
  <2> QED BY <2>1 DEF IInv, Histories, InstallsNeverConflict
<1>6. pending_revocations' = index_pending_revocations(assignments)'
  BY DEF IInv, group, index_pending_revocations
<1> QED BY <1>3, <1>4, <1>5, <1>6 DEF IInv

\* A Register.
LEMMA RegisterKeeps == ASSUME IInv, NEW c \in Clients, Register(c) PROVE IInv'
<1>1. op' = op + 1 /\ UNCHANGED <<partitions, installed, active>> /\ op \in Nat
  BY DEF Register, Commits, IInv
<1>2. session' \in [Clients -> Nat]
  BY <1>1 DEF Register, IInv
<1>3. CASE SlotOf(members, c) = {}
  BY <1>1, <1>2, <1>3, LaterKeeps DEF Register
<1>4. CASE SlotOf(members, c) # {}
  <2>1. PICK ms : ms = [k \in DOMAIN members |-> IF members[k].client = c
                    THEN [members[k] EXCEPT !.session = op'] ELSE members[k]]
    OBVIOUS
  <2>2. PICK s \in Nat : s = op'
    BY <1>1
  <2>3. MembersOk(ms)
    BY <2>1, <2>2, RefreshedMembers DEF IInv, GroupOk
  <2>4. Becomes(rebalance_members(ms, assignments, partitions, op'))
    BY <1>4, <2>1 DEF Register
  <2>5. PICK ps : ps = partitions
    OBVIOUS
  <2>6. Becomes(rebalance_members(ms, assignments, ps, op + 1)) /\ ps = partitions'
    BY <1>1, <2>4, <2>5 DEF Becomes
  <2> QED BY <1>1, <1>2, <2>3, <2>5, <2>6, StillFits, BecomesKeeps
<1> QED BY <1>3, <1>4

\* A Join.
LEMMA JoinKeeps == ASSUME IInv, NEW c \in Clients, Join(c) PROVE IInv'
<1>1. op' = op + 1 /\ UNCHANGED <<session, partitions, installed, active>> /\ op \in Nat
      /\ session \in [Clients -> Nat] /\ session' \in [Clients -> Nat]
  BY DEF Join, Commits, IInv
<1>2. PICK ms : ms = WithMember(members, c, session[c])
  OBVIOUS
<1>3. MembersOk(ms)
  BY <1>1, <1>2, JoinedMembers DEF IInv, GroupOk
<1>4. PICK ps : ps = partitions
  OBVIOUS
<1>5. Becomes(rebalance_members(ms, assignments, ps, op + 1)) /\ ps = partitions'
  BY <1>1, <1>2, <1>4 DEF Join, Becomes
<1> QED BY <1>1, <1>3, <1>4, <1>5, StillFits, BecomesKeeps

\* A Leave.
LEMMA LeaveKeeps == ASSUME IInv, NEW c \in Clients, Leave(c) PROVE IInv'
<1>1. op' = op + 1 /\ UNCHANGED <<session, partitions, installed, active>> /\ op \in Nat
      /\ session \in [Clients -> Nat] /\ session' \in [Clients -> Nat]
  BY DEF Leave, Commits, IInv
<1>2. PICK ms : ms = Without(members, c)
  OBVIOUS
<1>3. MembersOk(ms)
  BY <1>2, RemainingMembers DEF IInv, GroupOk
<1>4. PICK ps : ps = partitions
  OBVIOUS
<1>5. Becomes(rebalance_members(ms, assignments, ps, op + 1)) /\ ps = partitions'
  BY <1>1, <1>2, <1>4 DEF Leave, Becomes
<1> QED BY <1>1, <1>3, <1>4, <1>5, StillFits, BecomesKeeps

\* A new partition has a number nobody uses and a revision nobody decided on.
LEMMA CreatePartitionsKeeps == ASSUME IInv, CreatePartitions PROVE IInv'
<1>1. op' = op + 1 /\ UNCHANGED <<session, installed, active>> /\ op \in Nat
      /\ session' \in [Clients -> Nat]
  BY DEF CreatePartitions, Commits, IInv
<1>2. PICK n \in Nat : n = Len(partitions)
  BY DEF IInv, PartitionsOk
<1>3. partitions \in Seq(PartitionRecord) /\ DOMAIN partitions = 1..n
      /\ \A i \in 1..n : partitions[i].id = i - 1 /\ partitions[i].revision <= op
  BY <1>2 DEF IInv, PartitionsOk
<1>4. (IF partitions = <<>> THEN 0 ELSE Last(partitions).id + 1) = n
  <2>1. CASE partitions = <<>>
    BY <1>2, <2>1
  <2>2. CASE partitions # <<>>
    <3>1. n \in 1..n
      BY <1>2, <1>3, <2>2
    <3>2. Last(partitions) = partitions[n]
      BY <1>2 DEF Last
    <3>3. partitions[n].id = n - 1
      BY <1>3, <3>1
    <3> QED BY <2>2, <3>2, <3>3
  <2> QED BY <2>1, <2>2
<1>5. PICK ps : ps = partitions'
  OBVIOUS
<1>6. ps = Append(partitions, [id |-> n, revision |-> op + 1])
  BY <1>1, <1>4, <1>5 DEF CreatePartitions
<1>7. /\ ps \in Seq(PartitionRecord) /\ DOMAIN ps = 1..(n + 1)
      /\ ps[n + 1] = [id |-> n, revision |-> op + 1]
      /\ \A i \in 1..n : ps[i] = partitions[i]
  <2>1. [id |-> n, revision |-> op + 1] \in PartitionRecord
    BY <1>1 DEF PartitionRecord
  <2>2. PICK r \in PartitionRecord : r = [id |-> n, revision |-> op + 1]
    BY <2>1
  <2>3. ps = Append(partitions, r)
    BY <1>6, <2>2
  <2>4. /\ ps \in Seq(PartitionRecord) /\ DOMAIN ps = 1..(n + 1) /\ ps[n + 1] = r
        /\ \A i \in 1..n : ps[i] = partitions[i]
    BY <1>2, <1>3, <2>3
  <2> QED BY <2>2, <2>4
<1>8. \A i \in 1..n : partitions[i].revision \in Nat
  <2>1. \A i \in 1..n : partitions[i] \in PartitionRecord
    BY <1>3
  <2> QED BY <2>1 DEF PartitionRecord
<1>9. PartitionsOk(ps, op + 1)
  <2>1. ASSUME NEW i \in DOMAIN ps PROVE ps[i].id = i - 1 /\ ps[i].revision <= op + 1
    <3>1. CASE i = n + 1
      BY <1>1, <1>7, <3>1
    <3>2. CASE i \in 1..n
      BY <1>1, <1>3, <1>7, <1>8, <3>2
    <3> QED BY <1>7, <3>1, <3>2
  <2> QED BY <1>7, <2>1 DEF PartitionsOk
<1>10. RowsFit(assignments, ps, op + 1)
  <2>1. RowsFit(assignments, partitions, op + 1)
    BY StillFits
  <2>2. n \notin DOMAIN assignments
    <3>1. \A p \in DOMAIN assignments : \E i \in 1..n : p = i - 1
      BY <1>3 DEF IInv, GroupOk, RowsOk
    <3> QED BY <3>1
  <2>3. At(published, n, op + 1) = {}
    BY <1>1 DEF At, IInv, Histories, Install
  <2>4. ASSUME NEW i \in DOMAIN ps
        PROVE  IF ps[i].id \in DOMAIN assignments
               THEN assignments[ps[i].id].incarnation = ps[i].revision
               ELSE At(published, ps[i].id, ps[i].revision) = {}
    <3>1. CASE i = n + 1
      BY <1>7, <2>2, <2>3, <3>1
    <3>2. CASE i \in 1..n
      <4>1. ps[i] = partitions[i] /\ i \in DOMAIN partitions
        BY <1>3, <1>7, <3>2
      <4> QED BY <2>1, <4>1 DEF RowsFit
    <3> QED BY <1>7, <3>1, <3>2
  <2> QED BY <2>1, <2>4 DEF RowsFit
<1>11. PICK ms : ms = members
  OBVIOUS
<1>12. Becomes(rebalance_members(ms, assignments, ps, op + 1))
  BY <1>1, <1>5, <1>11 DEF CreatePartitions, Becomes
<1>13. MembersOk(ms)
  BY <1>11 DEF IInv, GroupOk
<1> QED BY <1>1, <1>5, <1>9, <1>10, <1>12, <1>13, BecomesKeeps

\* The last partition goes, and its row with it.
LEMMA DeletePartitionsKeeps == ASSUME IInv, DeletePartitions PROVE IInv'
<1>1. op' = op + 1 /\ UNCHANGED <<session, installed, active>> /\ op \in Nat
      /\ session' \in [Clients -> Nat]
  BY DEF DeletePartitions, Commits, IInv
<1>2. PICK ps : ps = partitions'
  OBVIOUS
<1>3. partitions \in Seq(PartitionRecord) /\ partitions # <<>>
  BY DEF DeletePartitions, IInv, PartitionsOk
<1>4. ps = SubSeq(partitions, 1, Len(partitions) - 1)
  BY <1>2 DEF DeletePartitions, Front
<1>5. /\ ps \in Seq(PartitionRecord)
      /\ \A i \in DOMAIN ps : i \in DOMAIN partitions /\ ps[i] = partitions[i]
  BY <1>3, <1>4
<1>6. PartitionsOk(ps, op + 1)
  BY <1>5, StillFits DEF PartitionsOk
<1>7. RowsFit(assignments, ps, op + 1)
  BY <1>5, StillFits DEF RowsFit
<1>8. PICK ms : ms = members
  OBVIOUS
<1>9. Becomes(rebalance_members(ms, assignments, ps, op + 1))
  BY <1>1, <1>2, <1>8 DEF DeletePartitions, Becomes
<1>10. MembersOk(ms)
  BY <1>8 DEF IInv, GroupOk
<1> QED BY <1>1, <1>2, <1>6, <1>7, <1>9, <1>10, BecomesKeeps

-----------------------------------------------------------------------------
(* The removals of one op *)

RemovedFrom(gs, c, ps, o) ==
    LET g == Last(gs)
    IN IF SlotOf(g.members, c) = {} THEN gs
       ELSE Append(gs, rebalance_members(Without(g.members, c), g.assignments, ps, o))
Start == <<[members |-> members, assignments |-> assignments]>>
Removes(it, base, order, n, ps, o) ==
    it = [s \in SUBSET (1..n) |-> IF s = {} THEN base
             ELSE RemovedFrom(it[s \ {Max(s)}], order[Max(s)], ps, o)]

\* The removals are this fold.
LEMMA RemovalsIs ==
  ASSUME NEW order, NEW o, NEW n, DOMAIN order = 1..n
  PROVE  Removals(order, o) = (CHOOSE it : Removes(it, Start, order, n, partitions, o))[1..n]
BY DEF Removals, FoldLeft, MapThenFoldSet, Removes, RemovedFrom, Start

\* The fold is defined.
LEMMA RemovesExist ==
  ASSUME NEW base, NEW order, NEW ps, NEW o, NEW n \in Nat
  PROVE  \E it : Removes(it, base, order, n, ps, o)
<1> DEFINE Bad == {m \in Nat : \A it : ~Removes(it, base, order, m, ps, o)}
<1>1. SUFFICES ASSUME n \in Bad PROVE FALSE
  OBVIOUS
<1>2. PICK m \in Bad : \A k \in Bad : m <= k
  <2> HIDE DEF Bad
  <2>1. Bad \subseteq Nat
    BY DEF Bad
  <2> QED BY <1>1, <2>1, LeastNat
<1>3. m \in Nat /\ \A it : ~Removes(it, base, order, m, ps, o)
  OBVIOUS
<1>4. CASE m = 0
  <2>1. PICK it : it = [s \in SUBSET (1..0) |-> base]
    OBVIOUS
  <2>2. \A s \in SUBSET (1..0) : s = {}
    OBVIOUS
  <2>3. Removes(it, base, order, 0, ps, o)
    BY <2>1, <2>2 DEF Removes
  <2> QED BY <1>3, <1>4, <2>3
<1>5. CASE m # 0
  <2>1. m - 1 \in Nat /\ m - 1 \notin Bad
    <3> HIDE DEF Bad
    <3> QED BY <1>2, <1>3, <1>5
  <2>2. PICK h : Removes(h, base, order, m - 1, ps, o)
    BY <2>1
  <2>3. PICK it : it = [s \in SUBSET (1..m) |->
                          IF m \in s THEN RemovedFrom(h[s \ {m}], order[m], ps, o) ELSE h[s]]
    OBVIOUS
  <2>4. ASSUME NEW s \in SUBSET (1..m)
        PROVE  it[s] = IF s = {} THEN base
                       ELSE RemovedFrom(it[s \ {Max(s)}], order[Max(s)], ps, o)
    <3>1. CASE m \in s
      <4>1. Max(s) = m
        BY <1>3, <3>1, MaxOf
      <4>2. s \ {m} \in SUBSET (1..m) /\ m \notin s \ {m}
        OBVIOUS
      <4>3. it[s \ {m}] = h[s \ {m}]
        BY <2>3, <4>2
      <4> QED BY <2>3, <3>1, <4>1, <4>3
    <3>2. CASE m \notin s
      <4>1. s \in SUBSET (1..(m - 1))
        BY <1>3, <3>2
      <4>2. h[s] = IF s = {} THEN base
                   ELSE RemovedFrom(h[s \ {Max(s)}], order[Max(s)], ps, o)
        BY <2>2, <4>1 DEF Removes
      <4>3. s \ {Max(s)} \in SUBSET (1..m) /\ m \notin s \ {Max(s)}
        BY <3>2
      <4>4. it[s] = h[s] /\ it[s \ {Max(s)}] = h[s \ {Max(s)}]
        BY <2>3, <3>2, <4>3
      <4> QED BY <4>2, <4>4
    <3> QED BY <3>1, <3>2
  <2>5. it = [s \in SUBSET (1..m) |-> it[s]]
    BY <2>3
  <2>6. Removes(it, base, order, m, ps, o)
    BY <2>4, <2>5 DEF Removes
  <2> QED BY <1>3, <2>6
<1> QED BY <1>4, <1>5

\* The groups of one op so far: the last is in order, and it is the group the
\* op found as long as nobody was removed.
GroupsOk(gs) ==
    /\ \E T : gs \in Seq(T)
    /\ gs # <<>>
    /\ GroupOk(Last(gs).members, Last(gs).assignments, partitions, op + 1)
    /\ Len(gs) = 1 => Last(gs) = Last(Start)

\* One removal keeps them so.
LEMMA RemovedKeeps ==
  ASSUME IInv, NEW gs, GroupsOk(gs), NEW c
  PROVE  GroupsOk(RemovedFrom(gs, c, partitions, op + 1))
<1>1. PICK T : gs \in Seq(T)
  BY DEF GroupsOk
<1>2. PICK g : g = Last(gs)
  OBVIOUS
<1>3. CASE SlotOf(g.members, c) = {}
  BY <1>2, <1>3 DEF RemovedFrom
<1>4. CASE SlotOf(g.members, c) # {}
  <2>1. PICK h : h = rebalance_members(Without(g.members, c), g.assignments, partitions, op + 1)
    OBVIOUS
  <2>2. RemovedFrom(gs, c, partitions, op + 1) = Append(gs, h)
    BY <1>2, <1>4, <2>1 DEF RemovedFrom
  <2>3. MembersOk(g.members) /\ RowsFit(g.assignments, partitions, op + 1)
    BY <1>2 DEF GroupsOk, GroupOk, RowsOk
  <2>4. MembersOk(Without(g.members, c))
    BY <2>3, RemainingMembers
  <2>5. GroupOk(h.members, h.assignments, partitions, op + 1)
    BY <2>1, <2>3, <2>4, StillFits, RebalanceKeeps DEF IInv
  <2>6. PICK U : U = T \cup {h}
    OBVIOUS
  <2>7. gs \in Seq(U) /\ h \in U
    BY <1>1, <2>6
  <2>8. PICK next : next = Append(gs, h)
    OBVIOUS
  <2>9. next \in Seq(U) /\ Len(next) = Len(gs) + 1 /\ next[Len(next)] = h /\ Len(gs) \in Nat
    BY <2>7, <2>8
  <2>10. Len(gs) # 0
    BY <2>7 DEF GroupsOk
  <2>11. Last(next) = h /\ next # <<>> /\ Len(next) # 1
    BY <2>9, <2>10 DEF Last
  <2> QED BY <2>2, <2>5, <2>8, <2>9, <2>11 DEF GroupsOk
<1> QED BY <1>3, <1>4

\* And so do all of them.
LEMMA RemovalsKeep ==
  ASSUME IInv, NEW n \in Nat, NEW order, DOMAIN order = 1..n
  PROVE  GroupsOk(Removals(order, op + 1))
<1>1. PICK it : it = CHOOSE x : Removes(x, Start, order, n, partitions, op + 1)
  OBVIOUS
<1>2. Removes(it, Start, order, n, partitions, op + 1)
  BY <1>1, RemovesExist
<1>3. Removals(order, op + 1) = it[1..n]
  BY <1>1, RemovalsIs
<1>4. GroupsOk(Start)
  <2>1. PICK g : g = [members |-> members, assignments |-> assignments]
    OBVIOUS
  <2>2. Start = <<g>> /\ g.members = members /\ g.assignments = assignments
    BY <2>1 DEF Start
  <2>3. <<g>> \in Seq({g}) /\ <<g>> # <<>> /\ Last(<<g>>) = g
    BY DEF Last
  <2>4. GroupOk(members, assignments, partitions, op + 1)
    BY RowsLater DEF IInv, GroupOk
  <2> QED BY <2>2, <2>3, <2>4 DEF GroupsOk
<1> DEFINE Bad == {k \in 0..n : ~GroupsOk(it[1..k])}
<1>5. Bad = {}
  <2>1. SUFFICES ASSUME Bad # {} PROVE FALSE
    OBVIOUS
  <2>2. PICK k \in Bad : \A l \in Bad : k <= l
    <3> HIDE DEF Bad
    <3>1. Bad \subseteq Nat
      BY DEF Bad
    <3> QED BY <2>1, <3>1, LeastNat
  <2>3. 1..k \in SUBSET (1..n) /\ ~GroupsOk(it[1..k])
    OBVIOUS
  <2>4. it[1..k] = IF 1..k = {} THEN Start
                   ELSE RemovedFrom(it[(1..k) \ {Max(1..k)}], order[Max(1..k)], partitions, op + 1)
    BY <1>2, <2>3 DEF Removes
  <2>5. CASE k = 0
    <3>1. 1..k = {}
      BY <2>5
    <3> QED BY <1>4, <2>3, <2>4, <3>1
  <2>6. CASE k # 0
    <3>1. k \in Nat /\ k \in 1..k /\ k \in 1..n
      BY <2>6
    <3>2. Max(1..k) = k
      BY <3>1, MaxOf
    <3>3. (1..k) \ {k} = 1..(k - 1)
      BY <3>1
    <3>4. k - 1 \notin Bad
      <4> HIDE DEF Bad
      <4> QED BY <2>2, <3>1
    <3>5. GroupsOk(it[1..(k - 1)])
      BY <3>1, <3>4
    <3>6. it[1..k] = RemovedFrom(it[1..(k - 1)], order[k], partitions, op + 1)
      BY <2>4, <3>1, <3>2, <3>3
    <3> QED BY <2>3, <3>5, <3>6, RemovedKeeps
  <2> QED BY <2>5, <2>6
<1>6. GroupsOk(it[1..n])
  BY <1>5
<1> QED BY <1>3, <1>6

\* A logout, an expiry or a revocation.
LEMMA RemoveMembersKeeps ==
  ASSUME IInv, NEW s \in SUBSET Clients, NEW order \in SetToSeqs(s),
         remove_consumer_group_members(order)
  PROVE  IInv'
<1>1. op' = op + 1 /\ UNCHANGED <<partitions, installed, active>> /\ op \in Nat
  BY DEF remove_consumer_group_members, Commits, IInv
<1>2. session' \in [Clients -> Nat]
  BY DEF remove_consumer_group_members, IInv
<1>3. PICK n \in Nat : DOMAIN order = 1..n
  <2>1. IsFiniteSet(s)
    BY GroupAssumption, FS_Subset
  <2>2. Cardinality(s) \in Nat
    BY <2>1, FS_CardinalityType
  <2> QED BY <2>2 DEF SetToSeqs
<1>4. PICK gs : gs = Removals(order, op + 1)
  OBVIOUS
<1>5. GroupsOk(gs)
  BY <1>3, <1>4, RemovalsKeep
<1>6. PICK g : g = Last(gs)
  OBVIOUS
<1>7. /\ members' = g.members /\ assignments' = g.assignments
      /\ pending_revocations' = IF Len(gs) = 1 THEN pending_revocations
                                ELSE index_pending_revocations(g.assignments)
      /\ published' = published \cup
             {Installation(t) : t \in index_pending_revocations(g.assignments)}
  <2>1. Removals(order, op') = gs
    BY <1>1, <1>4
  <2>2. PublishedOf(gs) = {g}
    BY <1>6 DEF PublishedOf
  <2>3. UNION {{Installation(t) : t \in index_pending_revocations(x.assignments)} : x \in {g}}
        = {Installation(t) : t \in index_pending_revocations(g.assignments)}
    OBVIOUS
  <2> QED BY <1>6, <2>1, <2>2, <2>3 DEF remove_consumer_group_members
<1>8. pending_revocations' = index_pending_revocations(assignments')
  <2>1. CASE Len(gs) = 1
    <3>1. g = [members |-> members, assignments |-> assignments]
      BY <1>5, <1>6, <2>1 DEF GroupsOk, Start, Last
    <3>2. g.assignments = assignments
      BY <3>1
    <3>3. pending_revocations = index_pending_revocations(assignments)
      BY DEF IInv
    <3> QED BY <1>7, <2>1, <3>2, <3>3
  <2>2. CASE Len(gs) # 1
    BY <1>7, <2>2
  <2> QED BY <2>1, <2>2
<1>9. published' = published \cup Offered(assignments')
  BY <1>7, OfferedIs
<1>10. GroupOk(members', assignments', partitions', op + 1)
  BY <1>1, <1>5, <1>6, <1>7 DEF GroupsOk
<1>11. PartitionsOk(partitions', op + 1)
  BY <1>1, StillFits
<1> QED BY <1>1, <1>2, <1>8, <1>9, <1>10, <1>11, PublishKeeps

-----------------------------------------------------------------------------
(* Installing and completing *)

\* An installation changes what the partition holds, never a row.
LEMMA InstallKeeps == ASSUME IInv, NEW i \in published, install_owner(i) PROVE IInv'
<1>1. installed' = installed \cup {i}
      /\ UNCHANGED <<op, session, partitions, group, published, active>>
  BY DEF install_owner
<1>2. Histories' /\ InstallsNeverConflict'
  BY <1>1 DEF IInv, Histories, InstallsNeverConflict
<1>3. ASSUME NEW p \in DOMAIN assignments PROVE (RowOk(p, assignments[p], op))'
  <2>1. PICK row : row = assignments[p]
    OBVIOUS
  <2>2. row \in RowRecord /\ Opened(p, row, op) /\ Settled(p, row) /\ Owns(p, row)
    BY <2>1 DEF IInv, GroupOk, RowsOk, RowsFit, RowOk
  <2>3. At(installed, p, row.incarnation) \subseteq At(installed', p, row.incarnation)
    BY <1>1 DEF At
  <2>4. Settled(p, row)'
    BY <1>1, <2>2, <2>3 DEF Settled
  <2>5. Opened(p, row, op)' /\ Owns(p, row)'
    BY <1>1, <2>2 DEF Opened, Owns
  <2> QED BY <1>1, <2>1, <2>2, <2>4, <2>5 DEF RowOk, Opened, Settled, Owns, group
<1>4. (RowsOk(assignments, partitions, op))'
  BY <1>1, <1>3 DEF IInv, GroupOk, RowsOk, RowsFit, group
<1>5. GroupOk(members, assignments, partitions, op)'
  <2>1. PICK ms, as : ms = members /\ as = assignments /\ ms = members' /\ as = assignments'
    BY <1>1 DEF group
  <2>2. MembersOk(ms) /\ Drains(ms, as) /\ Rebuilt(ms, as)
    BY <2>1 DEF IInv, GroupOk
  <2> QED BY <1>4, <2>1, <2>2, GroupLater
<1>6. PartitionsOk(partitions, op)'
  BY <1>1 DEF IInv, PartitionsOk
<1> QED BY <1>1, <1>2, <1>5, <1>6 DEF IInv, group, index_pending_revocations

\* Who a member is survives a handover.
LEMMA HandedOverMembers ==
  ASSUME NEW ms, MembersOk(ms), NEW p, NEW previous, NEW new
  PROVE  LET next == [k \in DOMAIN ms |-> handed_over(ms[k], p, previous, new)]
         IN MembersOk(next) /\ MemberIds(next) = MemberIds(ms)
<1>1. PICK next : next = [k \in DOMAIN ms |-> handed_over(ms[k], p, previous, new)]
  OBVIOUS
<1>2. DOMAIN next = DOMAIN ms /\ next = [k \in DOMAIN next |-> next[k]]
  BY <1>1
<1>3. ASSUME NEW k \in DOMAIN ms PROVE IsMember(next[k]) /\ Identity(next[k]) = Identity(ms[k])
  <2>1. IsMember(ms[k])
    BY DEF MembersOk
  <2>2. PICK a, b : next[k] = [ms[k] EXCEPT !.partitions = a, !.pending = b]
    BY <1>1 DEF handed_over
  <2>3. next[k] = [client |-> ms[k].client, session |-> ms[k].session, partitions |-> a,
                   pending |-> b]
    BY <2>1, <2>2 DEF IsMember
  <2> QED BY <2>1, <2>3 DEF IsMember, Identity
<1> QED BY <1>1, <1>2, <1>3 DEF MembersOk, MemberIds

\* Rows of which the handover of partition p to owner w is completed.
Completed(as, p, w, as2) ==
    /\ DOMAIN as2 = DOMAIN as /\ p \in DOMAIN as
    /\ as2[p].owner = w /\ as2[p].pending = None
    /\ \A q \in DOMAIN as : q # p => as2[q] = as[q]

\* A member m of rebuilt lists, and the member m2 the completion makes of it.
Patched(as, p, new, as2, m, m2) ==
    /\ DOMAIN as \subseteq Nat /\ IsFiniteSet(DOMAIN as) /\ new \in Owner
    /\ Completed(as, p, IF is_unassigned(new) THEN None ELSE new, as2)
    /\ IsMember(m) /\ m2 = handed_over(m, p, as[p].owner, new)
    /\ MemberRebuilt(m, as)

\* What completing a handover patches in the lists of a member is what a
\* rebuild would change.
LEMMA HandedOverLists ==
  ASSUME NEW as, NEW p, NEW new, NEW as2, NEW m, NEW m2, Patched(as, p, new, as2, m, m2)
  PROVE  MemberRebuilt(m2, as2)
<1>0. /\ DOMAIN as \subseteq Nat /\ IsFiniteSet(DOMAIN as) /\ new \in Owner
      /\ Completed(as, p, IF is_unassigned(new) THEN None ELSE new, as2)
      /\ IsMember(m) /\ m2 = handed_over(m, p, as[p].owner, new)
      /\ m.partitions = Ascending(Owned(as, m)) /\ m.pending = Ascending(MarkedIn(as, m))
  BY DEF Patched, MemberRebuilt
<1> USE <1>0
<1>1. PICK O, M : O = Owned(as, m) /\ M = MarkedIn(as, m)
  OBVIOUS
<1>2. O \subseteq Nat /\ M \subseteq Nat /\ IsFiniteSet(O) /\ IsFiniteSet(M) /\ p \in Nat
  <2>1. O \in SUBSET (DOMAIN as) /\ M \in SUBSET (DOMAIN as)
    BY <1>1 DEF Owned, MarkedIn
  <2>2. IsFiniteSet(O) /\ IsFiniteSet(M)
    BY <2>1, FS_Subset
  <2> QED BY <2>1, <2>2 DEF Completed
<1>3. PICK gives, takes : /\ gives = (as[p].owner # None /\ Identity(as[p].owner) = Identity(m))
                          /\ takes = (Identity(new) = Identity(m))
                          /\ gives \in BOOLEAN /\ takes \in BOOLEAN
  OBVIOUS
<1>4. PICK kept, a, b : /\ kept = IF gives THEN Drop(m.partitions, p) ELSE m.partitions
                        /\ a = IF takes THEN Sorted(Append(kept, p)) ELSE kept
                        /\ b = IF gives THEN Drop(m.pending, p) ELSE m.pending
  OBVIOUS
<1>5. m2 = [client |-> m.client, session |-> m.session, partitions |-> a, pending |-> b]
  <2>1. m2 = [m EXCEPT !.partitions = a, !.pending = b]
    BY <1>3, <1>4 DEF handed_over
  <2> QED BY <2>1 DEF IsMember
<1>6. Identity(m2) = Identity(m) /\ m2.partitions = a /\ m2.pending = b
  BY <1>5 DEF Identity
<1>7. gives <=> p \in O
  BY <1>1, <1>3 DEF Owned, Completed
<1>8. kept = Ascending(O \ {p}) /\ b = Ascending(M \ {p})
  <2>1. Drop(m.partitions, p) = Ascending(O \ {p}) /\ Drop(m.pending, p) = Ascending(M \ {p})
    BY <1>1, <1>2, DropIs
  <2>2. CASE gives
    BY <1>4, <2>1, <2>2
  <2>3. CASE ~gives
    <3>1. O \ {p} = O /\ M \ {p} = M
      BY <1>1, <1>7, <2>3 DEF MarkedIn
    <3> QED BY <1>1, <1>4, <2>3, <3>1
  <2> QED BY <1>3, <2>2, <2>3
<1>9. PICK N : N = Owned(as2, m2)
  OBVIOUS
<1>10. N = IF takes THEN (O \ {p}) \cup {p} ELSE O \ {p}
  <2>1. ASSUME NEW q, q # p PROVE q \in N <=> q \in O \ {p}
    BY <1>1, <1>6, <1>9, <2>1 DEF Owned, Completed
  <2>2. p \in N <=> takes
    <3>1. p \in N <=> as2[p].owner # None /\ Identity(as2[p].owner) = Identity(m)
      BY <1>6, <1>9 DEF Owned, Completed
    <3>2. CASE is_unassigned(new)
      <4>1. Identity(new) = <<None, 0>>
        BY <3>2 DEF is_unassigned, Unassigned
      <4>2. m.client # None
        BY GroupAssumption DEF IsMember
      <4>3. ~takes
        BY <1>3, <4>1, <4>2 DEF Identity
      <4> QED BY <3>1, <3>2, <4>3 DEF Completed
    <3>3. CASE ~is_unassigned(new)
      <4>1. as2[p].owner = new
        BY <3>3 DEF Completed
      <4>2. new # None
        BY GroupAssumption
      <4> QED BY <1>3, <3>1, <4>1, <4>2
    <3> QED BY <3>2, <3>3
  <2> QED BY <1>3, <2>1, <2>2
<1>11. a = Ascending(N)
  <2>1. CASE takes
    <3>1. PICK S : S = O \ {p} /\ S \subseteq Nat /\ IsFiniteSet(S) /\ p \notin S
      <4>1. O \ {p} \in SUBSET O
        OBVIOUS
      <4>2. IsFiniteSet(O \ {p})
        BY <1>2, <4>1, FS_Subset
      <4> QED BY <1>2, <4>2
    <3>2. Sorted(Append(Ascending(S), p)) = Ascending(S \cup {p})
      BY <1>2, <3>1, SortedIs
    <3> QED BY <1>4, <1>8, <1>10, <2>1, <3>1, <3>2
  <2>2. CASE ~takes
    BY <1>4, <1>8, <1>10, <2>2
  <2> QED BY <1>3, <2>1, <2>2
<1>12. MarkedIn(as2, m2) = M \ {p}
  <2>1. p \notin MarkedIn(as2, m2)
    BY DEF MarkedIn, Completed
  <2>2. ASSUME NEW q, q # p PROVE q \in MarkedIn(as2, m2) <=> q \in M \ {p}
    <3>1. q \in N <=> q \in O
      BY <1>10, <2>2
    <3>2. q \in O => as2[q] = as[q]
      BY <1>1, <2>2 DEF Owned, Completed
    <3> QED BY <1>1, <1>9, <2>2, <3>1, <3>2 DEF MarkedIn
  <2> QED BY <2>1, <2>2
<1> QED BY <1>6, <1>8, <1>9, <1>11, <1>12 DEF MemberRebuilt

\* Evidence of the pending installation settles its row.
LEMMA CompleteKeeps == ASSUME IInv, NEW i \in installed, complete_revocation(i) PROVE IInv'
<1>1. PICK p, row : p = i.partition /\ row = assignments[p]
  OBVIOUS
<1>2. /\ p \in DOMAIN assignments /\ row.pending # None /\ row.incarnation = i.incarnation
      /\ row.pending.owner = i.owner /\ row.pending.metadata_op = i.metadata_op
      /\ op' = op + 1 /\ op \in Nat /\ active' = active \cup {i}
      /\ UNCHANGED <<session, partitions, published, installed>>
  BY <1>1 DEF complete_revocation, Commits, IInv
<1>3. PICK next : next = [incarnation |-> row.incarnation, owner |-> OwnerOf(i), pending |-> None]
  OBVIOUS
<1>3a. next.incarnation = row.incarnation /\ next.pending = None
  BY <1>3
<1>4. RowsOk(assignments, partitions, op + 1) /\ PartitionsOk(partitions, op + 1)
  BY StillFits, RowsLater DEF IInv, GroupOk
<1>5. row \in RowRecord /\ Opened(p, row, op + 1)
  BY <1>1, <1>2, <1>4 DEF RowsOk, RowsFit, RowOk
<1>6. i \in Install /\ i \in published
  BY DEF IInv, Histories
<1>7. assignments' = [assignments EXCEPT ![p] = next]
  <2>1. row = [incarnation |-> row.incarnation, owner |-> row.owner, pending |-> row.pending]
    BY <1>5 DEF RowRecord
  <2>2. PICK w : w = OwnerOf(i)
    OBVIOUS
  <2>3. [row EXCEPT !.owner = w, !.pending = None] = next
    <3>1. PICK a, b, c : row = [incarnation |-> a, owner |-> b, pending |-> c]
      BY <2>1
    <3>2. [row EXCEPT !.owner = w, !.pending = None]
          = [incarnation |-> a, owner |-> w, pending |-> None]
      <4>1. PICK x : x = [row EXCEPT !.owner = w, !.pending = None]
        OBVIOUS
      <4>2. x = [incarnation |-> a, owner |-> w, pending |-> None]
        BY <3>1, <4>1
      <4> QED BY <4>1, <4>2
    <3>3. row.incarnation = a
      BY <3>1
    <3> QED BY <1>3, <2>2, <3>2, <3>3
  <2>4. assignments' = [assignments EXCEPT ![p] = [row EXCEPT !.owner = w, !.pending = None]]
    BY <1>1, <2>2 DEF complete_revocation, OwnerOf
  <2> QED BY <2>3, <2>4
<1>8. PICK as : as = assignments'
  OBVIOUS
<1>9. /\ DOMAIN as = DOMAIN assignments /\ as[p] = next
      /\ \A q \in DOMAIN assignments : q # p => as[q] = assignments[q]
      /\ as = [q \in DOMAIN as |-> as[q]]
  BY <1>2, <1>7, <1>8
<1>10. PICK o \in Nat : o = op + 1 /\ o = op'
  BY <1>2
<1>11. RowOk(p, next, o)'
  <2>1. next \in RowRecord /\ next.pending = None /\ next.incarnation = row.incarnation
        /\ next.owner = OwnerOf(i)
    <3>1. OwnerOf(i) \in Owner \cup {None}
      BY <1>6 DEF OwnerOf, Install
    <3>2. row.incarnation \in Nat
      BY <1>5 DEF RowRecord
    <3> QED BY <1>3, <3>1, <3>2 DEF RowRecord
  <2>2. row.pending.metadata_op = i.owner.generation /\ i.owner.generation \in Nat
    BY <1>2, <1>5, <1>6 DEF Opened, Install, Owner
  <2>3. \A j \in published : j.owner.generation \in Nat
    BY DEF IInv, Histories, Install, Owner
  <2>4. \A j \in At(published, p, row.incarnation) : j.owner.generation <= i.owner.generation
    <3> TAKE j \in At(published, p, row.incarnation)
    <3>1. \/ j.owner.generation < row.pending.metadata_op
          \/ j.owner = row.pending.owner /\ j.metadata_op = row.pending.metadata_op
      BY <1>2, <1>5 DEF Opened
    <3>2. PICK x \in Nat, y \in Nat : x = j.owner.generation /\ y = i.owner.generation
      BY <2>2, <2>3 DEF At
    <3>3. CASE j.owner = row.pending.owner
      <4>1. x = y
        BY <1>2, <3>2, <3>3
      <4> QED BY <3>2, <4>1
    <3>4. CASE j.owner.generation < row.pending.metadata_op
      <4>1. x < y
        BY <2>2, <3>2, <3>4
      <4> QED BY <3>2, <4>1
    <3> QED BY <3>1, <3>3, <3>4
  <2>5. i \in At(installed', p, row.incarnation) /\ i \in At(active', p, row.incarnation)
    BY <1>1, <1>2 DEF At
  <2>6. Settled(p, next)'
    BY <1>2, <2>1, <2>4, <2>5 DEF Settled
  <2>7. Opened(p, next, o)'
    BY <2>1 DEF Opened
  <2>8. \A j \in At(active', p, row.incarnation) : j.owner.generation <= i.owner.generation
    <3>1. active' \subseteq published
      BY <1>2, <1>6 DEF IInv, Histories
    <3> QED BY <2>4, <3>1 DEF At
  <2>9. Owns(p, next)'
    BY <2>1, <2>5, <2>8 DEF Owns, LastOwner
  <2> QED BY <2>1, <2>6, <2>7, <2>9 DEF RowOk
<1>12. ASSUME NEW q \in DOMAIN assignments, q # p PROVE RowOk(q, as[q], o)'
  <2>1. PICK r : r = as[q] /\ r = assignments[q]
    BY <1>9, <1>12
  <2>2. RowOk(q, r, o)
    BY <1>4, <1>10, <2>1 DEF RowsOk, RowsFit
  <2>3. At(active', q, r.incarnation) = At(active, q, r.incarnation)
    BY <1>1, <1>2, <1>12 DEF At
  <2>4. RowOk(q, r, o)'
    BY <1>2, <2>2, <2>3 DEF RowOk, Opened, Settled, Owns
  <2> QED BY <2>1, <2>4
<1>13. (RowsOk(assignments, partitions, op))'
  <2>1. ASSUME NEW q \in DOMAIN as PROVE (RowOk(q, assignments[q], op))'
    <3>1. PICK r : r = as[q] /\ r = (assignments[q])'
      BY <1>8
    <3>2. RowOk(q, r, o)'
      BY <1>9, <1>11, <1>12, <3>1
    <3> QED BY <1>10, <3>1, <3>2 DEF RowOk, Opened, Settled, Owns
  <2>2. \A k \in DOMAIN partitions :
           IF partitions[k].id \in DOMAIN as THEN as[partitions[k].id].incarnation = partitions[k].revision
           ELSE At(published, partitions[k].id, partitions[k].revision) = {}
    <3> TAKE k \in DOMAIN partitions
    <3>1. as[p].incarnation = assignments[p].incarnation
      BY <1>1, <1>3, <1>9
    <3> QED BY <1>4, <1>9, <3>1 DEF RowsOk, RowsFit
  <2>3. \A q \in DOMAIN as : \E k \in DOMAIN partitions : partitions[k].id = q
    BY <1>4, <1>9 DEF RowsOk
  <2> QED BY <1>2, <1>8, <1>9, <2>1, <2>2, <2>3 DEF RowsOk, RowsFit
<1>14. PICK ms : ms = members'
  OBVIOUS
<1>15. MembersOk(ms) /\ MemberIds(ms) = MemberIds(members)
  <2>1. ms = [k \in DOMAIN members |-> handed_over(members[k], p, row.owner, i.owner)]
    BY <1>1, <1>14 DEF complete_revocation
  <2> QED BY <2>1, HandedOverMembers DEF IInv, GroupOk
<1>16. Drains(ms, as)
  <2>1. SUFFICES ASSUME NEW q \in DOMAIN as, as[q].pending # None
                 PROVE  as[q].pending.skip_drain
                        = (as[q].owner = None \/ Identity(as[q].owner) \notin MemberIds(members))
    BY <1>15 DEF Drains
  <2>2. q # p
    BY <1>3a, <1>9, <2>1
  <2>3. q \in DOMAIN assignments /\ as[q] = assignments[q]
    BY <1>9, <2>2
  <2> QED BY <2>1, <2>3 DEF IInv, GroupOk, Drains
<1>16a. Rebuilt(ms, as)
  <2>1. ms = [k \in DOMAIN members |-> handed_over(members[k], p, row.owner, i.owner)]
    BY <1>1, <1>14 DEF complete_revocation
  <2>2. DOMAIN assignments \subseteq Nat /\ IsFiniteSet(DOMAIN assignments)
    <3>1. PICK n \in Nat : DOMAIN partitions = 1..n
      BY <1>4 DEF PartitionsOk
    <3>2. \A q \in DOMAIN assignments : q \in 0..n
      <4> TAKE q \in DOMAIN assignments
      <4>1. PICK k \in 1..n : q = k - 1
        BY <1>4, <3>1 DEF RowsOk, PartitionsOk
      <4> QED BY <4>1
    <3>3. IsFiniteSet(0..n)
      BY FS_Interval
    <3>4. DOMAIN assignments \in SUBSET (0..n)
      BY <3>2
    <3> QED BY <3>3, <3>4, FS_Subset
  <2>3. i.owner \in Owner
    BY <1>6 DEF Install
  <2>4. Completed(assignments, p, IF is_unassigned(i.owner) THEN None ELSE i.owner, as)
    <3>1. next.owner = OwnerOf(i)
      BY <1>3
    <3> QED BY <1>2, <1>3a, <1>9, <3>1 DEF Completed, OwnerOf
  <2>5. ASSUME NEW k \in DOMAIN ms PROVE MemberRebuilt(ms[k], as)
    <3>1. PICK m : m = members[k]
      OBVIOUS
    <3>2. k \in DOMAIN members /\ ms[k] = handed_over(m, p, assignments[p].owner, i.owner)
      BY <1>1, <2>1, <3>1
    <3>3. IsMember(m)
      BY <3>1, <3>2 DEF IInv, GroupOk, MembersOk
    <3>4. MemberRebuilt(m, assignments)
      <4>1. MembersOk(members) /\ Rebuilt(members, assignments)
        BY DEF IInv, GroupOk
      <4> QED BY <3>1, <3>2, <4>1, RebuiltEach
    <3>5. PICK m2 : m2 = ms[k]
      OBVIOUS
    <3>6. PICK as1, new : as1 = assignments /\ new = i.owner
      OBVIOUS
    <3>7. m2 = handed_over(m, p, as1[p].owner, new)
      BY <3>2, <3>5, <3>6
    <3>8. Patched(as1, p, new, as, m, m2)
      BY <2>2, <2>3, <2>4, <3>3, <3>4, <3>6, <3>7 DEF Patched
    <3>9. MemberRebuilt(m2, as)
      BY <3>8, HandedOverLists
    <3> QED BY <3>5, <3>9
  <2> QED BY <1>15, <2>5, RebuiltEach
<1>17. GroupOk(members, assignments, partitions, op)'
  BY <1>8, <1>13, <1>14, <1>15, <1>16, <1>16a, GroupLater
<1>18. PartitionsOk(partitions, op)'
  BY <1>2, <1>4 DEF PartitionsOk
<1>19. Histories' /\ InstallsNeverConflict'
  <2>1. \A j \in published : j.metadata_op \in Nat /\ j.incarnation \in Nat
    BY DEF IInv, Histories, Install
  <2> QED BY <1>2, <2>1 DEF IInv, Histories, InstallsNeverConflict
<1>20. pending_revocations' = index_pending_revocations(as)
  <2>1. pending_revocations' = {t \in index_pending_revocations(assignments) : t.partition # p}
    BY <1>1 DEF complete_revocation, IInv
  <2> DEFINE T(s, q) == [partition |-> q, incarnation |-> s[q].incarnation,
                 owner |-> s[q].pending.owner, metadata_op |-> s[q].pending.metadata_op,
                 skip_drain |-> s[q].pending.skip_drain]
  <2>2. \A s, q : T(s, q).partition = q
    OBVIOUS
  <2>3. \A s : index_pending_revocations(s) = {T(s, q) : q \in OpenIn(s)}
    BY DEF index_pending_revocations, OpenIn
  <2>4. OpenIn(as) = OpenIn(assignments) \ {p}
    <3>1. p \notin OpenIn(as)
      BY <1>3a, <1>9 DEF OpenIn
    <3>2. \A q : q # p => (q \in OpenIn(as) <=> q \in OpenIn(assignments))
      BY <1>9 DEF OpenIn
    <3> QED BY <3>1, <3>2
  <2>5. \A q \in OpenIn(as) : T(as, q) = T(assignments, q)
    BY <1>9, <2>4 DEF OpenIn
  <2> HIDE DEF T
  <2>6. ASSUME NEW t PROVE t \in pending_revocations' <=> t \in index_pending_revocations(as)
    <3>1. t \in pending_revocations' <=> \E q \in OpenIn(assignments) : t = T(assignments, q) /\ q # p
      BY <2>1, <2>2, <2>3
    <3>2. t \in index_pending_revocations(as) <=> \E q \in OpenIn(as) : t = T(as, q)
      BY <2>3
    <3> QED BY <2>4, <2>5, <3>1, <3>2
  <2> QED BY <2>6
<1>21. session' \in [Clients -> Nat] /\ op' \in Nat
  BY <1>2 DEF IInv
<1>22. pending_revocations' = index_pending_revocations(assignments)'
  BY <1>8, <1>20 DEF index_pending_revocations
<1> QED BY <1>17, <1>18, <1>19, <1>21, <1>22 DEF IInv

-----------------------------------------------------------------------------
(* The theorems *)

\* A group nobody joined.
LEMMA InitHolds == Init => IInv
<1> SUFFICES ASSUME Init PROVE IInv
  OBVIOUS
<1>2. op \in Nat
  BY GroupAssumption, FS_CardinalityType DEF Init
<1>3. session \in [Clients -> Nat]
  BY <1>2 DEF Init
<1>4. PICK n \in 1..MaxPartitions : partitions = [i \in 1..n |-> [id |-> i - 1, revision |-> 0]]
  BY DEF Init
<1>5. PartitionsOk(partitions, op)
  <2>1. n \in Nat
    OBVIOUS
  <2>2. \A i \in 1..n : [id |-> i - 1, revision |-> 0] \in PartitionRecord
    BY <2>1 DEF PartitionRecord
  <2>3. partitions \in [1..n -> PartitionRecord]
    BY <1>4, <2>2
  <2>4. partitions \in Seq(PartitionRecord) /\ DOMAIN partitions = 1..n
    BY <2>1, <2>3
  <2>5. ASSUME NEW i \in 1..n PROVE partitions[i].id = i - 1 /\ partitions[i].revision <= op
    <3>1. partitions[i] = [id |-> i - 1, revision |-> 0]
      BY <1>4
    <3> QED BY <1>2, <3>1
  <2> QED BY <2>4, <2>5 DEF PartitionsOk
<1>6. Histories /\ InstallsNeverConflict
  BY DEF Init, Histories, InstallsNeverConflict
<1>7. DOMAIN members = {} /\ DOMAIN assignments = {}
      /\ members = [k \in DOMAIN members |-> members[k]]
      /\ assignments = [k \in DOMAIN assignments |-> assignments[k]]
  BY DEF Init
<1>8. MembersOk(members)
  BY <1>7, FS_EmptySet DEF MembersOk
<1>9. RowsOk(assignments, partitions, op)
  <2>1. \A p, r : At(published, p, r) = {}
    BY DEF Init, At
  <2> QED BY <1>7, <2>1 DEF RowsOk, RowsFit
<1>10. GroupOk(members, assignments, partitions, op)
  BY <1>7, <1>8, <1>9, RebuiltEach DEF GroupOk, Drains
<1>11. pending_revocations = index_pending_revocations(assignments)
  <2>1. index_pending_revocations(assignments) = {}
    BY <1>7 DEF index_pending_revocations
  <2> QED BY <2>1 DEF Init
<1> QED BY <1>2, <1>3, <1>5, <1>6, <1>10, <1>11 DEF IInv

\* A step that changes nothing.
LEMMA StutterKeeps == ASSUME IInv, UNCHANGED vars PROVE IInv'
<1>1. UNCHANGED <<op, session, partitions, members, assignments, pending_revocations,
                  published, installed, active>>
  BY DEF vars, group
<1>2. (RowsOk(assignments, partitions, op))'
  <2>1. ASSUME NEW p \in DOMAIN assignments PROVE (RowOk(p, assignments[p], op))'
    <3>1. RowOk(p, assignments[p], op)
      BY DEF IInv, GroupOk, RowsOk, RowsFit
    <3> QED BY <1>1, <3>1 DEF RowOk, Opened, Settled, Owns
  <2> QED BY <1>1, <2>1 DEF IInv, GroupOk, RowsOk, RowsFit
<1>3. GroupOk(members, assignments, partitions, op)'
  <2>1. PICK ms, as : ms = members /\ as = assignments /\ ms = members' /\ as = assignments'
    BY <1>1
  <2>2. MembersOk(ms) /\ Drains(ms, as) /\ Rebuilt(ms, as)
    BY <2>1 DEF IInv, GroupOk
  <2> QED BY <1>2, <2>1, <2>2, GroupLater
<1>4. Histories' /\ InstallsNeverConflict' /\ PartitionsOk(partitions, op)'
  BY <1>1 DEF IInv, Histories, InstallsNeverConflict, PartitionsOk
<1> QED BY <1>1, <1>3, <1>4 DEF IInv, index_pending_revocations

\* Every state of the group, whatever ops, installations and late evidence
\* led to it, satisfies the invariant.
THEOREM InductiveInvariant == Spec => []IInv
<1>1. IInv /\ [Next]_vars => IInv'
  <2> SUFFICES ASSUME IInv, [Next]_vars PROVE IInv'
    OBVIOUS
  <2>1. ASSUME NEW c \in Clients, Register(c) PROVE IInv'
    BY <2>1, RegisterKeeps
  <2>2. ASSUME NEW c \in Clients, Join(c) PROVE IInv'
    BY <2>2, JoinKeeps
  <2>3. ASSUME NEW c \in Clients, Leave(c) PROVE IInv'
    BY <2>3, LeaveKeeps
  <2>4. ASSUME NEW s \in SUBSET Clients \ {{}}, NEW order \in SetToSeqs(s),
               remove_consumer_group_members(order)
        PROVE  IInv'
    BY <2>4, RemoveMembersKeeps
  <2>5. ASSUME CreatePartitions PROVE IInv'
    BY <2>5, CreatePartitionsKeeps
  <2>6. ASSUME DeletePartitions PROVE IInv'
    BY <2>6, DeletePartitionsKeeps
  <2>7. ASSUME NEW i \in published, install_owner(i) PROVE IInv'
    BY <2>7, InstallKeeps
  <2>8. ASSUME NEW i \in installed, complete_revocation(i) PROVE IInv'
    BY <2>8, CompleteKeeps
  <2>9. CASE UNCHANGED vars
    BY <2>9, StutterKeeps
  <2> QED BY <2>1, <2>2, <2>3, <2>4, <2>5, <2>6, <2>7, <2>8, <2>9 DEF Next
<1> QED BY <1>1, InitHolds, PTL DEF Spec

\* The lists complete_revocation patches entry by entry, and the index of open
\* transitions, are at any time what rebuild_member_assignments and
\* index_pending_revocations would make of the assignments: for any number of
\* clients, partitions and ops, a replica that restores from a snapshot serves
\* the same group as one that did not.
THEOREM CachesAreRebuilt == Spec => []CachesAgree
<1>1. IInv => CachesAgree
  BY DEF IInv, GroupOk, Rebuilt, CachesAgree
<1> QED BY <1>1, InductiveInvariant, PTL

\* No two installations that rebalance_members ever made visible for one
\* partition incarnation at one generation differ, although the removals of
\* one op decide several times at the same generation: a partition never
\* meets a second owner at the generation it holds.
THEOREM OneInstallPerGeneration == Spec => []InstallsNeverConflict
<1>1. IInv => InstallsNeverConflict
  BY DEF IInv
<1> QED BY <1>1, InductiveInvariant, PTL

\* The installation a partition holds is the one at the highest generation.
LEMMA HeldIs ==
  ASSUME IInv, NEW p, NEW inc, NEW i \in At(installed, p, inc),
         \A j \in At(installed, p, inc) : j.owner.generation <= i.owner.generation
  PROVE  Held(p, inc) = i
<1> DEFINE here == {x \in installed : x.partition = p /\ x.incarnation = inc}
<1>1. here = At(installed, p, inc)
  BY DEF At
<1>2. PICK h : h = CHOOSE x \in here : \A j \in here : j.owner.generation <= x.owner.generation
  OBVIOUS
<1>3. h \in here /\ \A j \in here : j.owner.generation <= h.owner.generation
  <2> HIDE DEF here
  <2> QED BY <1>1, <1>2
<1>4. h \in published /\ i \in published /\ h.partition = i.partition
      /\ h.incarnation = i.incarnation
  BY <1>1, <1>3 DEF IInv, Histories, At
<1>5. h.owner.generation <= i.owner.generation /\ i.owner.generation <= h.owner.generation
  BY <1>1, <1>3
<1>6. h.owner.generation \in Nat /\ i.owner.generation \in Nat
  BY <1>4 DEF IInv, Histories, Install, Owner
<1>7. h.owner.generation = i.owner.generation
  BY <1>5, <1>6
<1>8. h = i
  BY <1>4, <1>7 DEF IInv, InstallsNeverConflict
<1>9. Held(p, inc) = h
  <2>1. here # {}
    BY <1>1
  <2>2. Held(p, inc) = IF here = {} THEN None
          ELSE CHOOSE x \in here : \A j \in here : j.owner.generation <= x.owner.generation
    BY DEF Held
  <2> HIDE DEF here
  <2> QED BY <1>2, <2>1, <2>2
<1> QED BY <1>8, <1>9

\* Without one it holds nothing.
LEMMA HoldsNothing ==
  ASSUME NEW p, NEW inc, At(installed, p, inc) = {} PROVE Held(p, inc) = None
BY DEF Held, At

\* Generations are bounded, so one of several installations is the last.
LEMMA HoldsLast ==
  ASSUME IInv, NEW p, NEW inc, At(installed, p, inc) # {}
  PROVE  /\ Held(p, inc) \in At(installed, p, inc)
         /\ \A j \in At(installed, p, inc) :
                j.owner.generation <= Held(p, inc).owner.generation
<1>1. PICK here : here = At(installed, p, inc)
  OBVIOUS
<1>2. \A j \in here : j.owner.generation \in Nat /\ j.owner.generation <= op
  <2>1. \A j \in here : j \in published
    BY <1>1 DEF IInv, Histories, At
  <2> QED BY <2>1 DEF IInv, Histories, Install, Owner
<1>3. PICK age : age = [j \in here |-> op - j.owner.generation]
  OBVIOUS
<1>4. \A j \in here : age[j] \in Nat
  BY <1>2, <1>3 DEF IInv
<1>5. PICK v \in {age[j] : j \in here} : \A w \in {age[j] : j \in here} : v <= w
  <2>1. {age[j] : j \in here} \subseteq Nat
    BY <1>4
  <2>2. {age[j] : j \in here} # {}
    BY <1>1
  <2> QED BY <2>1, <2>2, LeastNat
<1>6. PICK i \in here : v = age[i]
  BY <1>5
<1>7. ASSUME NEW j \in here PROVE j.owner.generation <= i.owner.generation
  <2>1. age[i] <= age[j]
    BY <1>5, <1>6
  <2>2. PICK x \in Nat, y \in Nat : x = j.owner.generation /\ y = i.owner.generation
    BY <1>2
  <2>3. op - y <= op - x /\ op \in Nat
    BY <1>3, <2>1, <2>2 DEF IInv
  <2>4. x <= y
    BY <2>3
  <2> QED BY <2>2, <2>4
<1>8. Held(p, inc) = i
  BY <1>1, <1>7, HeldIs
<1> QED BY <1>1, <1>7, <1>8

\* Where no handover is open, the row names the owner the partition holds:
\* complete_revocation takes evidence of the pending successor only, and a
\* decision that goes back to an earlier owner is a new generation, so no
\* superseded installation outlives what the metadata shows.
THEOREM SettledOwnersAgree == Spec => []SettledAgrees
<1>1. ASSUME IInv PROVE SettledAgrees
  <2>1. SUFFICES ASSUME NEW p \in DOMAIN assignments, NEW row, row = assignments[p],
                        NEW held, held = Held(p, row.incarnation), row.pending = None
                 PROVE  IF row.owner = None THEN held = None \/ is_unassigned(held.owner)
                        ELSE held # None /\ held.owner = row.owner
    BY DEF SettledAgrees
  <2>2. Settled(p, row)
    BY <1>1, <2>1 DEF IInv, GroupOk, RowsOk, RowsFit, RowOk
  <2>3. installed \subseteq published /\ published \subseteq Install
    BY <1>1 DEF IInv, Histories
  <2>4. CASE At(published, p, row.incarnation) = {} /\ row.owner = None
    <3>1. At(installed, p, row.incarnation) = {}
      BY <2>3, <2>4 DEF At
    <3> QED BY <2>1, <2>4, <3>1, HoldsNothing
  <2>5. ASSUME NEW i \in At(installed, p, row.incarnation),
               \A j \in At(published, p, row.incarnation) :
                   j.owner.generation <= i.owner.generation,
               row.owner = OwnerOf(i)
        PROVE  IF row.owner = None THEN held = None \/ is_unassigned(held.owner)
               ELSE held # None /\ held.owner = row.owner
    <3>1. \A j \in At(installed, p, row.incarnation) : j.owner.generation <= i.owner.generation
      BY <2>3, <2>5 DEF At
    <3>2. held = i
      BY <1>1, <2>1, <3>1, HeldIs
    <3>3. i \in Install /\ i.owner \in Owner
      BY <2>3 DEF At, Install
    <3>4. i # None /\ i.owner # None
      BY <3>3, NoneIsNoRecord
    <3> QED BY <2>5, <3>2, <3>4 DEF OwnerOf
  <2> QED BY <2>1, <2>2, <2>4, <2>5 DEF Settled
<1> QED BY <1>1, InductiveInvariant, PTL

\* A handover skips the drain only when nobody may still commit what it
\* polled: whenever the membership changes, successor decides skip_drain anew
\* for a kept handover, so it never says that a member is gone which joined
\* again, nor that one is there which left.
THEOREM SkippedDrainsAreSafe == Spec => []SkipDrainIsSafe
<1>1. ASSUME IInv PROVE SkipDrainIsSafe
  <2>1. SUFFICES ASSUME NEW t \in pending_revocations, t.skip_drain,
                        NEW held, held = Held(t.partition, t.incarnation), held \in active,
                        NEW k \in DOMAIN members
                 PROVE  Identity(held.owner) # Identity(members[k])
    BY DEF SkipDrainIsSafe
  <2>2. PICK p \in OpenIn(assignments) :
           t = [partition |-> p, incarnation |-> assignments[p].incarnation,
                owner |-> assignments[p].pending.owner,
                metadata_op |-> assignments[p].pending.metadata_op,
                skip_drain |-> assignments[p].pending.skip_drain]
    BY <1>1, <2>1 DEF IInv, index_pending_revocations, OpenIn
  <2>3. PICK row : row = assignments[p]
    OBVIOUS
  <2>4. t.partition = p /\ t.incarnation = row.incarnation /\ row.pending.skip_drain
    BY <2>1, <2>2, <2>3
  <2>5. row.pending # None /\ p \in DOMAIN assignments
    BY <2>3 DEF OpenIn
  <2>6. Owns(p, row) /\ row \in RowRecord
    BY <1>1, <2>3, <2>5 DEF IInv, GroupOk, RowsOk, RowsFit, RowOk
  <2>7. row.owner = None \/ Identity(row.owner) \notin MemberIds(members)
    BY <1>1, <2>3, <2>4, <2>5 DEF IInv, GroupOk, Drains
  <2>8. active \subseteq installed /\ installed \subseteq published /\ published \subseteq Install
    BY <1>1 DEF IInv, Histories
  <2>9. Identity(members[k]) \in MemberIds(members) /\ members[k].client \in Clients
    BY <1>1, <2>1 DEF MemberIds, IInv, GroupOk, MembersOk, IsMember
  <2>10. held # None
    BY <2>1, <2>8, NoneIsNoRecord
  <2>11. At(installed, p, row.incarnation) # {}
    BY <2>1, <2>4, <2>10, HoldsNothing
  <2>12. /\ held \in At(installed, p, row.incarnation)
         /\ \A j \in At(installed, p, row.incarnation) :
               j.owner.generation <= held.owner.generation
    BY <1>1, <2>1, <2>4, <2>11, HoldsLast
  <2>13. held \in At(active, p, row.incarnation)
    BY <2>1, <2>12 DEF At
  <2>14. PICK i \in At(active, p, row.incarnation) :
            /\ \A j \in At(active, p, row.incarnation) : j.owner.generation <= i.owner.generation
            /\ row.owner = OwnerOf(i)
    BY <2>6, <2>13 DEF Owns, LastOwner
  <2>15. i = held
    <3>1. i \in At(installed, p, row.incarnation) /\ i \in published /\ held \in published
          /\ i.partition = held.partition /\ i.incarnation = held.incarnation
      BY <2>8, <2>12, <2>14 DEF At
    <3>2. PICK x \in Nat, y \in Nat : x = i.owner.generation /\ y = held.owner.generation
      BY <2>8, <3>1 DEF Install, Owner
    <3>3. x <= y /\ y <= x
      BY <2>12, <2>13, <2>14, <3>1, <3>2
    <3>4. i.owner.generation = held.owner.generation
      BY <3>2, <3>3
    <3> QED BY <1>1, <3>1, <3>4 DEF IInv, InstallsNeverConflict
  <2>16. held.owner \in Owner
    BY <2>1, <2>8 DEF Install
  <2>17. CASE is_unassigned(held.owner)
    BY <2>9, <2>17, NoneIsNoRecord DEF is_unassigned, Identity, Unassigned
  <2>18. CASE ~is_unassigned(held.owner)
    <3>1. row.owner = held.owner /\ row.owner # None
      BY <2>14, <2>15, <2>16, <2>18, NoneIsNoRecord DEF OwnerOf
    <3> QED BY <2>7, <2>9, <3>1
  <2> QED BY <2>17, <2>18
<1> QED BY <1>1, InductiveInvariant, PTL
=============================================================================
