-------------------------- MODULE OwnerInstallProofs --------------------------
(***************************************************************************)
(* The owners of a partition, for any replicas, groups, decisions and      *)
(* bounds.  The latch of the primary names an install that is still on its *)
(* way, after every mix of scans, truncations, repairs, promotions and     *)
(* commits; and while no install is ordered twice, barrier and latch cover *)
(* every unapplied install, so that each committed store meets the owner   *)
(* it carries.                                                             *)
(*                                                                         *)
(* Two facts about the quorum sizes come first.  They are what makes the   *)
(* log of this model, and of the other models of a group's clients, the    *)
(* one log of its VSR group: what a commit quorum holds, a view-change     *)
(* quorum finds, and a nack quorum cannot deny.                            *)
(***************************************************************************)
EXTENDS OwnerInstall, FiniteSetTheorems, WellFoundedInduction, TLAPS

------------------------------------------------------------------------------
(* The quorums behind the log *)

\* Every size lies between one and the whole group, and the sizes that must
\* overlap add up to more than it.
LEMMA QuorumSizes ==
    ASSUME NEW n \in Nat \ {0}
    PROVE  /\ quorum_replication(n) \in 1..n
           /\ quorum_view_change(n) \in 1..n
           /\ quorum_nack_prepare(n) \in 1..n
           /\ max_faulty(n) \in 0..(n - 1)
           /\ quorum_replication(n) + quorum_view_change(n) > n
           /\ quorum_replication(n) + quorum_nack_prepare(n) > n
<1>1. CASE n = 1
  BY <1>1, SMT DEF quorum_replication, quorum_view_change, quorum_nack_prepare,
                   max_faulty, QUORUM_REPLICATION_MAX
<1>2. CASE n = 2
  BY <1>2, SMT DEF quorum_replication, quorum_view_change, quorum_nack_prepare,
                   max_faulty, QUORUM_REPLICATION_MAX
<1>3. CASE n > 2
  BY <1>3, SMT DEF quorum_replication, quorum_view_change, quorum_nack_prepare,
                   max_faulty, QUORUM_REPLICATION_MAX
<1> QED BY <1>1, <1>2, <1>3

\* Whoever collects a view-change quorum of DoViewChanges hears from a replica
\* that acked each committed op: the sender set of merge_dvc_quorum meets the
\* ack set that ack_quorum_reached counted.
THEOREM ViewChangeMeetsCommit ==
    ASSUME NEW Peers, IsFiniteSet(Peers), Peers # {},
           NEW Acks \in SUBSET Peers, NEW Dvcs \in SUBSET Peers,
           Cardinality(Acks) >= quorum_replication(Cardinality(Peers)),
           Cardinality(Dvcs) >= quorum_view_change(Cardinality(Peers))
    PROVE  Acks \cap Dvcs # {}
<1> DEFINE n == Cardinality(Peers)
<1>1. n \in Nat \ {0}
  BY FS_CardinalityType, FS_EmptySet
<1>2. Cardinality(Acks) \in Nat /\ Cardinality(Dvcs) \in Nat
  BY FS_Subset, FS_CardinalityType
<1>3. quorum_replication(n) + quorum_view_change(n) > n
      /\ quorum_replication(n) \in Nat /\ quorum_view_change(n) \in Nat
  BY <1>1, QuorumSizes
<1>4. Cardinality(Acks) + Cardinality(Dvcs) > n
  BY <1>1, <1>2, <1>3
<1> QED BY <1>4, FS_MajoritiesIntersect

\* The replicas that nack an op and the replicas that acked it share a member
\* once the nacks reach their quorum, so an op that merge_dvc_quorum declares
\* dead can have no commit quorum, as long as no replica both acks and nacks it.
THEOREM NackQuorumPrecludesCommit ==
    ASSUME NEW Peers, IsFiniteSet(Peers), Peers # {},
           NEW Acks \in SUBSET Peers, NEW Nacks \in SUBSET Peers,
           Acks \cap Nacks = {},
           Cardinality(Nacks) >= quorum_nack_prepare(Cardinality(Peers))
    PROVE  Cardinality(Acks) < quorum_replication(Cardinality(Peers))
<1> DEFINE n == Cardinality(Peers)
<1>1. n \in Nat \ {0}
  BY FS_CardinalityType, FS_EmptySet
<1>2. Cardinality(Acks) \in Nat /\ Cardinality(Nacks) \in Nat
  BY FS_Subset, FS_CardinalityType
<1>3. quorum_replication(n) + quorum_nack_prepare(n) > n
      /\ quorum_replication(n) \in Nat /\ quorum_nack_prepare(n) \in Nat
  BY <1>1, QuorumSizes
<1>4. ~(Cardinality(Acks) + Cardinality(Nacks) > n)
  BY FS_MajoritiesIntersect
<1> QED BY <1>1, <1>2, <1>3, <1>4

------------------------------------------------------------------------------
(* The invariant *)

Operation == [kind : {"install", "store"}, group : Groups, generation : Nat \ {0}]
Latch == [group : Groups, generation : Nat] \cup {None}
Scan == [latch : Latch, barrier : Nat, observed : BOOLEAN,
         truncated : BOOLEAN, needs : BOOLEAN, uncertain : BOOLEAN]

Types ==
    /\ log \in Seq(Operation) /\ queue \in Seq(Operation)
    /\ primary \in Replicas /\ walking \in BOOLEAN /\ commit \in Nat
    /\ applied \in [Replicas -> Nat] /\ sequence \in [Replicas -> Nat]
    /\ holds \in [Replicas -> SUBSET (1..Len(log))]
    /\ owners \in [Replicas -> [Groups -> Nat]]
    /\ scan \in Scan

\* The ops of the primary on their way: queued, or journaled and not applied.
Queued == {queue[i] : i \in DOMAIN queue}
Journaled == {log[o] : o \in {x \in holds[primary] : applied[primary] < x}}
Ahead == Queued \cup Journaled

\* The install a latch stands for.
Installing(l) == Op("install", l.group, l.generation)

\* The latch a later scan may still take over names an install that the primary
\* itself queued or journaled; what a scan starts from anew does not matter.
LatchHeld ==
    scan.observed /\ ~scan.truncated /\ scan.latch # None => Installing(scan.latch) \in Ahead

\* A quorum holds the first k ops of the log.
Kept(h, k) == Commits({q \in Replicas : 1..k \subseteq h[q]})

\* What is committed, applied or being applied is held by a quorum, so no view
\* change cuts it: the primary applies nothing beyond the head of its log, and
\* what it appends next is unapplied.
Safe ==
    /\ Kept(holds, commit)
    /\ \A r \in Replicas : Kept(holds, applied[r])
    /\ walking => Kept(holds, applied[primary] + 1)

IInv == Types /\ Safe /\ LatchHeld

------------------------------------------------------------------------------
(* Numbers *)

\* Every nonempty set of numbers has a least one.
LEMMA LeastNat == ASSUME NEW S, S \subseteq Nat, S # {} PROVE \E x \in S : \A y \in S : x <= y
<1>1. PICK R : R = {ss \in Nat \X Nat : ss[1] < ss[2]}
  OBVIOUS
<1>2. IsWellFoundedOn(R, Nat)
  BY <1>1, NatLessThanWellFounded, Zenon DEF OpToRel
<1>3. PICK x \in S : \A y \in S : ~ (<<y, x>> \in R)
  BY <1>2, WFMin
<1>4. ASSUME NEW y \in S PROVE x <= y
  <2>1. <<y, x>> \in Nat \X Nat /\ <<y, x>>[1] = y /\ <<y, x>>[2] = x
    OBVIOUS
  <2>2. ~(y < x)
    BY <1>1, <1>3, <2>1
  <2> QED BY <2>2
<1> QED BY <1>4

\* A nonempty set of numbers up to n has a greatest one.
LEMMA MaxIn == ASSUME NEW n \in Nat, NEW s \in SUBSET (0..n), s # {} PROVE Max(s) \in s
<1> DEFINE Down == {n - x : x \in s}
<1>1. Down \subseteq Nat /\ Down # {}
  <2>1. PICK x \in s : TRUE
    OBVIOUS
  <2>2. n - x \in Down
    BY <2>1
  <2>3. Down \subseteq Nat
    OBVIOUS
  <2> QED BY <2>2, <2>3
<1>2. PICK m \in Down : \A y \in Down : m <= y
  <2> HIDE DEF Down
  <2> QED BY <1>1, LeastNat
<1>3. PICK x \in s : m = n - x
  OBVIOUS
<1>4. \A y \in s : x >= y
  <2> TAKE y \in s
  <2>1. n - y \in Down /\ n - x <= n - y
    BY <1>2, <1>3
  <2> QED BY <2>1
<1> QED BY <1>4 DEF Max

\* The greater and the lesser of two numbers are numbers.
LEMMA OneOfTwo ==
    ASSUME NEW a \in Nat, NEW b \in Nat
    PROVE  Max({a, b}) \in Nat /\ Min({a, b}) \in Nat
<1>1. \E x \in {a, b} : \A y \in {a, b} : x >= y
  OBVIOUS
<1>2. \E x \in {a, b} : \A y \in {a, b} : x <= y
  OBVIOUS
<1> QED BY <1>1, <1>2 DEF Max, Min

\* The head a view change decides is the length of a prefix that its quorum
\* holds, so it lies within the log.
LEMMA FrontierWithin ==
    ASSUME NEW n \in Nat, NEW h \in SUBSET (1..n)
    PROVE  Frontier(h) \in 0..n /\ 1..Frontier(h) \subseteq h /\ Frontier(h) + 1 \notin h
<1> DEFINE Holes == {x \in Nat : x + 1 \notin h}
<1>1. n \in Holes
  OBVIOUS
<1>2. PICK x \in Holes : \A y \in Holes : x <= y
  <2>1. Holes \subseteq Nat /\ Holes # {}
    BY <1>1
  <2> HIDE DEF Holes
  <2> QED BY <2>1, LeastNat
<1>3. 1..x \subseteq h
  <2> SUFFICES ASSUME NEW y \in 1..x, y \notin h PROVE FALSE
    OBVIOUS
  <2>1. y - 1 \in Nat /\ (y - 1) + 1 = y /\ y - 1 < x
    OBVIOUS
  <2>2. y - 1 \in Holes
    BY <2>1
  <2> QED BY <1>2, <2>1, <2>2
<1>4. IsFiniteSet(h) /\ Cardinality(h) \in Nat
  <2>1. IsFiniteSet(1..n)
    BY FS_Interval
  <2>2. IsFiniteSet(h)
    BY <2>1, FS_Subset
  <2> QED BY <2>2, FS_CardinalityType
<1>5. x <= Cardinality(h)
  <2>1. Cardinality(1..x) = x
    BY FS_Interval
  <2> QED BY <1>3, <1>4, <2>1, FS_Subset
<1>6. \E k \in 0..Cardinality(h) : 1..k \subseteq h /\ k + 1 \notin h
  BY <1>2, <1>3, <1>4, <1>5
<1>7. Frontier(h) \in 0..Cardinality(h) /\ 1..Frontier(h) \subseteq h /\ Frontier(h) + 1 \notin h
  BY <1>6 DEF Frontier
<1>8. Cardinality(h) \in Nat
  BY <1>4
<1> QED
  <2>1. CASE Frontier(h) = 0
    BY <1>7, <2>1
  <2>2. CASE Frontier(h) # 0
    <3>1. Frontier(h) \in 1..Frontier(h)
      BY <1>7, <1>8, <2>2
    <3> QED BY <1>7, <3>1
  <2> QED BY <2>1, <2>2

------------------------------------------------------------------------------
(* What a quorum holds *)

\* A larger set than a commit quorum is one, and it is not empty.
LEMMA QuorumGrows ==
    ASSUME NEW S \in SUBSET Replicas, NEW T \in SUBSET Replicas, S \subseteq T, Commits(S)
    PROVE  Commits(T) /\ S # {}
<1>1. IsFiniteSet(T) /\ IsFiniteSet(Replicas)
  BY SizesAssumption, FS_Subset
<1>2. Cardinality(S) <= Cardinality(T) /\ Cardinality(S) \in Nat /\ Cardinality(T) \in Nat
      /\ Cardinality(Replicas) \in Nat
  BY <1>1, FS_Subset, FS_CardinalityType
<1>3. Cardinality(Replicas) # 0
  BY <1>1, FS_EmptySet, SizesAssumption
<1>4. quorum_replication(Cardinality(Replicas)) \in 1..Cardinality(Replicas)
  BY <1>2, <1>3, QuorumSizes
<1>5. Commits(T) /\ Cardinality(S) # 0
  BY <1>2, <1>4 DEF Commits
<1> QED BY <1>5, FS_EmptySet

\* A prefix stays held while journals grow, and so does a shorter one.
LEMMA KeptGrows ==
    ASSUME NEW g, NEW h, \A q \in Replicas : g[q] \subseteq h[q],
           NEW j \in Nat, NEW k \in Nat, j <= k, Kept(g, k)
    PROVE  Kept(h, j)
<1> DEFINE S == {q \in Replicas : 1..k \subseteq g[q]}
           T == {q \in Replicas : 1..j \subseteq h[q]}
<1>1. S \subseteq T /\ S \in SUBSET Replicas /\ T \in SUBSET Replicas
  <2>1. 1..j \subseteq 1..k
    OBVIOUS
  <2> QED BY <2>1
<1>2. Commits(S)
  BY DEF Kept
<1> HIDE DEF S, T
<1>3. Commits(T)
  BY <1>1, <1>2, QuorumGrows
<1> QED BY <1>3 DEF Kept, T

\* A prefix that is held lies within the log.
LEMMA KeptWithin ==
    ASSUME NEW n \in Nat, NEW h \in [Replicas -> SUBSET (1..n)], NEW k \in Nat, Kept(h, k)
    PROVE  k <= n
<1> DEFINE S == {q \in Replicas : 1..k \subseteq h[q]}
<1>1. Commits(S) /\ S \in SUBSET Replicas
  BY DEF Kept
<1>2. PICK q \in S : TRUE
  <2> HIDE DEF S
  <2> QED BY <1>1, QuorumGrows
<1>3. 1..k \subseteq 1..n
  BY <1>2
<1> QED BY <1>3

\* What a commit quorum holds is within the head that a merge decides, and held
\* by as many after the cut: nobody who holds an op denies it.
LEMMA KeptSurvives ==
    ASSUME NEW n \in Nat, NEW h \in [Replicas -> SUBSET (1..n)], NEW k \in Nat, Kept(h, k),
           NEW Q \in SUBSET Replicas, NEW head \in 0..n,
           DeniesOp({r \in Q : head + 1 \notin h[r]}),
           NEW cut, cut = [r \in Replicas |-> h[r] \cap 1..head]
    PROVE  k <= head /\ Kept(cut, k)
<1> DEFINE S == {q \in Replicas : 1..k \subseteq h[q]}
           N == {r \in Q : head + 1 \notin h[r]}
<1>1. head \in Nat
  OBVIOUS
<1>2. Commits(S) /\ S \in SUBSET Replicas
  BY DEF Kept
<1>3. k <= head
  <2> SUFFICES ASSUME head + 1 <= k PROVE FALSE
    BY <1>1
  <2>1. head + 1 \in 1..k
    BY <1>1
  <2>2. S \cap N = {} /\ N \in SUBSET Replicas
    BY <2>1
  <2>3. Cardinality(N) >= quorum_nack_prepare(Cardinality(Replicas))
    BY DEF DeniesOp
  <2> HIDE DEF S, N
  <2>4. Cardinality(S) < quorum_replication(Cardinality(Replicas))
    BY <1>2, <2>2, <2>3, SizesAssumption, NackQuorumPrecludesCommit
  <2>5. Cardinality(S) \in Nat /\ quorum_replication(Cardinality(Replicas)) \in Nat
    <3>1. Cardinality(Replicas) \in Nat \ {0}
      BY SizesAssumption, FS_CardinalityType, FS_EmptySet
    <3>2. Cardinality(S) \in Nat
      BY <1>2, SizesAssumption, FS_Subset, FS_CardinalityType
    <3> QED BY <3>1, <3>2, QuorumSizes
  <2> QED BY <1>2, <2>4, <2>5 DEF Commits
<1>4. Kept(cut, k)
  <2>1. S \subseteq {q1 \in Replicas : 1..k \subseteq cut[q1]}
    <3> SUFFICES ASSUME NEW q1 \in S PROVE 1..k \subseteq cut[q1]
      BY <1>2
    <3>1. 1..k \subseteq h[q1] /\ 1..k \subseteq 1..head /\ cut[q1] = h[q1] \cap 1..head
      BY <1>1, <1>3
    <3> QED BY <3>1
  <2> HIDE DEF S
  <2> QED BY <1>2, <2>1, QuorumGrows DEF Kept
<1> QED BY <1>3, <1>4

\* Nothing becomes unsafe while journals grow and nothing is applied.
LEMMA SafeGrows ==
    ASSUME IInv, Types', \A q \in Replicas : holds[q] \subseteq holds'[q],
           commit' = commit, applied' = applied, walking' = walking, primary' = primary
    PROVE  Safe'
<1>1. commit \in Nat /\ \A r \in Replicas : applied[r] \in Nat
  BY DEF IInv, Types
<1>2. Kept(holds', commit)
  BY <1>1, KeptGrows DEF IInv, Safe
<1>3. ASSUME NEW r \in Replicas PROVE Kept(holds', applied[r])
  BY <1>1, KeptGrows DEF IInv, Safe
<1>4. ASSUME walking PROVE Kept(holds', applied[primary] + 1)
  <2>1. applied[primary] + 1 \in Nat
    BY DEF IInv, Types
  <2>2. PICK k \in Nat : k = applied[primary] + 1
    BY <2>1
  <2>3. Kept(holds, k) /\ k <= k
    BY <1>4, <2>2 DEF IInv, Safe
  <2> QED BY <2>2, <2>3, KeptGrows
<1> QED BY <1>2, <1>3, <1>4 DEF Safe, Kept, Commits

------------------------------------------------------------------------------
(* The scan *)

\* A scan reports a latch that is held: an unapplied install of the journal, or
\* the latch it took over.
LEMMA RescanHolds ==
    ASSUME IInv, NEW last
    PROVE  LET s == rescanned(last)
           IN s \in Scan /\ s.observed /\ ~s.truncated
              /\ (s.latch # None => Installing(s.latch) \in Ahead)
<1> DEFINE found == {o \in Installs : o <= last}
           s == rescanned(last)
<1>1. /\ s.latch = IF found # {} THEN Installation(log[Max(found)])
                   ELSE IF scan.observed /\ ~scan.truncated THEN scan.latch ELSE None
      /\ s.barrier = IF found = {} THEN 0 ELSE Max(found)
      /\ s.observed = TRUE /\ s.truncated = FALSE
  BY DEF rescanned
<1>2. holds[primary] \subseteq 1..Len(log) /\ Len(log) \in Nat /\ scan.latch \in Latch
  BY DEF IInv, Types, Scan
<1>3. found \subseteq 1..Len(log)
  BY <1>2 DEF Installs
<1>4. ASSUME found # {}
      PROVE  /\ Max(found) \in holds[primary] /\ applied[primary] < Max(found)
             /\ Max(found) \in Nat
             /\ log[Max(found)] \in Operation /\ log[Max(found)].kind = "install"
  <2>1. Max(found) \in found
    <3> HIDE DEF found
    <3>1. found \in SUBSET (0..Len(log))
      BY <1>2, <1>3
    <3> QED BY <1>2, <1>4, <3>1, MaxIn
  <2>2. log \in Seq(Operation)
    BY DEF IInv, Types
  <2>3. Max(found) \in Installs /\ Max(found) \in 1..Len(log)
    BY <1>3, <2>1
  <2> HIDE DEF found
  <2>4. Max(found) \in holds[primary] /\ applied[primary] < Max(found)
        /\ log[Max(found)].kind = "install"
    BY <2>3 DEF Installs
  <2> QED BY <2>2, <2>3, <2>4
<1>5. ASSUME found # {}
      PROVE  /\ Installing(Installation(log[Max(found)])) = log[Max(found)]
             /\ log[Max(found)] \in Ahead
             /\ Installation(log[Max(found)]) \in Latch
  <2>1. PICK o : o = log[Max(found)]
    OBVIOUS
  <2>2. o \in Operation /\ o.kind = "install"
    BY <1>4, <1>5, <2>1
  <2>3. Installing(Installation(o)) = o /\ Installation(o) \in Latch
    BY <2>2 DEF Installing, Installation, Op, Operation, Latch
  <2>4. log[Max(found)] \in Journaled
    <3> HIDE DEF found
    <3> QED BY <1>4, <1>5 DEF Journaled
  <2> QED BY <2>1, <2>3, <2>4 DEF Ahead
<1>6. s.latch \in Latch /\ s.barrier \in Nat
  <2> HIDE DEF found, s
  <2> QED BY <1>1, <1>2, <1>4, <1>5 DEF Latch
<1>7. s \in Scan
  <2>1. s = [latch |-> s.latch, barrier |-> s.barrier, observed |-> TRUE,
             truncated |-> FALSE, needs |-> FALSE,
             uncertain |-> (commit + 1)..last \ holds[primary] # {}]
    BY DEF rescanned
  <2>2. PICK unsure : unsure = ((commit + 1)..last \ holds[primary] # {})
    OBVIOUS
  <2>3. unsure \in BOOLEAN
    BY <2>2
  <2> HIDE DEF s
  <2>4. PICK latch \in Latch, barrier \in Nat : latch = s.latch /\ barrier = s.barrier
    BY <1>6
  <2>5. s = [latch |-> latch, barrier |-> barrier, observed |-> TRUE,
             truncated |-> FALSE, needs |-> FALSE, uncertain |-> unsure]
    BY <2>1, <2>2, <2>4, Zenon
  <2>6. [latch |-> latch, barrier |-> barrier, observed |-> TRUE,
         truncated |-> FALSE, needs |-> FALSE, uncertain |-> unsure] \in Scan
    BY <2>3 DEF Scan
  <2> QED BY <2>5, <2>6, Zenon
<1>8. ASSUME s.latch # None PROVE Installing(s.latch) \in Ahead
  <2> HIDE DEF found, s
  <2>1. CASE found # {}
    BY <1>1, <1>5, <2>1
  <2>2. CASE found = {}
    <3>1. scan.observed /\ ~scan.truncated /\ s.latch = scan.latch
      BY <1>1, <1>8, <2>2
    <3> QED BY <1>8, <3>1 DEF IInv, LatchHeld
  <2> QED BY <2>1, <2>2
<1> QED BY <1>1, <1>7, <1>8

\* The same of what a handler knows, whether it scanned or not.
LEMMA ScannedHolds ==
    ASSUME IInv, NEW tick
    PROVE  LET s == scanned(tick)
           IN s \in Scan /\ s.observed /\ ~s.truncated
              /\ (s.latch # None => Installing(s.latch) \in Ahead)
<1>1. CASE scanned(tick) = rescanned(Last_op)
  BY <1>1, RescanHolds
<1>2. CASE scanned(tick) # rescanned(Last_op)
  <2>1. scanned(tick) = scan /\ scan.observed /\ ~scan.truncated
    BY <1>2 DEF scanned
  <2> QED BY <2>1 DEF IInv, Types, LatchHeld
<1> QED BY <1>1, <1>2

------------------------------------------------------------------------------
(* Steps that only add to what is on its way *)

\* What a scan left stays held while nothing leaves the queue or the journal.
LEMMA HeldStays ==
    ASSUME NEW s, s = scan \/ (\E tick : s = scanned(tick)) \/ (\E last : s = rescanned(last)),
           IInv, Ahead \subseteq Ahead',
           scan'.latch = s.latch, scan'.observed = s.observed,
           scan'.truncated \in BOOLEAN, s.truncated => scan'.truncated
    PROVE  LatchHeld'
<1>1. s.observed /\ ~s.truncated /\ s.latch # None => Installing(s.latch) \in Ahead
  <2>1. CASE s = scan
    BY <2>1 DEF IInv, LatchHeld
  <2>2. CASE \E tick : s = scanned(tick)
    BY <2>2, ScannedHolds
  <2>3. CASE \E last : s = rescanned(last)
    BY <2>3, RescanHolds
  <2> QED BY <2>1, <2>2, <2>3
<1>2. scan'.observed /\ ~scan'.truncated /\ scan'.latch # None => Installing(scan'.latch) \in Ahead'
  BY <1>1
<1> QED BY <1>2 DEF LatchHeld, Installing, None, Op

\* Nothing leaves while the queue and the primary's journal only grow.
LEMMA AheadGrows ==
    ASSUME primary' = primary, applied'[primary] = applied[primary],
           holds[primary] \subseteq holds'[primary],
           \A o \in holds[primary] : log'[o] = log[o],
           Queued \subseteq Queued'
    PROVE  Ahead \subseteq Ahead'
<1>1. Journaled \subseteq Journaled'
  BY DEF Journaled
<1> QED BY <1>1 DEF Ahead

\* A scan changes nothing but what the primary knows.
LEMMA ResynchronizeKeeps ==
    ASSUME IInv, NEW tick, resynchronize(tick) PROVE IInv'
<1>1. scan' = scanned(tick) /\ scan' \in Scan
  BY ScannedHolds DEF resynchronize
<1>2. UNCHANGED <<log, commit, primary, queue, holds, sequence, applied, walking, owners>>
  BY DEF resynchronize, consensus, journals, tables
<1>3. Types'
  BY <1>1, <1>2 DEF IInv, Types
<1>4. Ahead \subseteq Ahead'
  BY <1>2 DEF Ahead, Queued, Journaled
<1>5. LatchHeld'
  BY <1>1, <1>3, <1>4, HeldStays DEF Types, Scan
<1>6. Safe'
  BY <1>2, <1>3, SafeGrows
<1> QED BY <1>3, <1>5, <1>6 DEF IInv

\* A backup journals; the primary's own journal is left alone.
LEMMA ReplicateKeeps ==
    ASSUME IInv, NEW r \in Replicas, on_replicate(r) PROVE IInv'
<1>1. /\ r # primary /\ sequence[r] < Len(log) /\ sequence[r] \in Nat
      /\ holds' = [holds EXCEPT ![r] = @ \cup {sequence[r] + 1}]
      /\ sequence' = [sequence EXCEPT ![r] = @ + 1]
      /\ UNCHANGED <<log, commit, primary, queue, applied, walking, owners, scan>>
  BY DEF on_replicate, consensus, tables, IInv, Types
<1>2. Types'
  <2>1. sequence[r] + 1 \in 1..Len(log)
    BY <1>1 DEF IInv, Types
  <2>2. holds' \in [Replicas -> SUBSET (1..Len(log))] /\ sequence' \in [Replicas -> Nat]
    BY <1>1, <2>1 DEF IInv, Types
  <2> QED BY <1>1, <2>2 DEF IInv, Types
<1>3. holds'[primary] = holds[primary]
  BY <1>1 DEF IInv, Types
<1>4. Ahead \subseteq Ahead'
  BY <1>1, <1>3 DEF Ahead, Queued, Journaled
<1>5. LatchHeld'
  BY <1>1, <1>2, <1>4, HeldStays DEF Types, Scan
<1>6. Safe'
  <2>1. \A q \in Replicas : holds[q] \subseteq holds'[q]
    BY <1>1 DEF IInv, Types
  <2> QED BY <1>1, <1>2, <2>1, SafeGrows
<1> QED BY <1>2, <1>5, <1>6 DEF IInv

\* A repaired op adds to a journal, and has the primary scan again.
LEMMA RepairKeeps ==
    ASSUME IInv, NEW r \in Replicas, NEW o \in (1..Len(log)) \ holds[r],
           apply_repaired_prepare(r, o)
    PROVE  IInv'
<1>1. /\ holds' = [holds EXCEPT ![r] = @ \cup {o}]
      /\ sequence' = [sequence EXCEPT ![r] = Max({@, Frontier(holds'[r])})]
      /\ scan' = IF r = primary THEN [scan EXCEPT !.needs = TRUE] ELSE scan
      /\ UNCHANGED <<log, commit, primary, queue, applied, walking, owners>>
  BY DEF apply_repaired_prepare, consensus, tables
<1>2. holds' \in [Replicas -> SUBSET (1..Len(log))] /\ Len(log) \in Nat
  BY <1>1 DEF IInv, Types
<1>3. Frontier(holds'[r]) \in Nat
  <2>1. holds'[r] \in SUBSET (1..Len(log))
    BY <1>2
  <2> QED BY <1>2, <2>1, FrontierWithin
<1>4. Max({sequence[r], Frontier(holds'[r])}) \in Nat
  BY <1>3, OneOfTwo DEF IInv, Types
<1>5. sequence' \in [Replicas -> Nat]
  BY <1>1, <1>4 DEF IInv, Types
<1>6. scan' \in Scan /\ scan'.latch = scan.latch /\ scan'.observed = scan.observed
      /\ scan'.truncated = scan.truncated
  BY <1>1 DEF IInv, Types, Scan
<1>7. Types'
  BY <1>1, <1>2, <1>5, <1>6 DEF IInv, Types
<1>8. Ahead \subseteq Ahead'
  <2>1. holds[primary] \subseteq holds'[primary]
    BY <1>1 DEF IInv, Types
  <2> QED BY <1>1, <2>1 DEF Ahead, Queued, Journaled
<1>9. LatchHeld'
  BY <1>6, <1>8, HeldStays DEF Scan
<1>10. Safe'
  <2>1. \A q \in Replicas : holds[q] \subseteq holds'[q]
    BY <1>1 DEF IInv, Types
  <2> QED BY <1>1, <1>7, <2>1, SafeGrows
<1> QED BY <1>7, <1>9, <1>10 DEF IInv

\* The commit point moves to what a quorum holds; no scan looks at it for the
\* latch.
LEMMA CommitKeeps == ASSUME IInv, advance_commit_max PROVE IInv'
<1>1. UNCHANGED <<log, primary, queue, holds, sequence, applied, walking, owners, scan>>
  BY DEF advance_commit_max, journals, tables
<1>2. /\ commit' = commit + 1 /\ commit \in Nat
      /\ Commits({r \in Replicas : commit < Frontier(holds[r])})
  BY DEF advance_commit_max, IInv, Types
<1>3. Types'
  BY <1>1, <1>2 DEF IInv, Types
<1>4. Kept(holds, commit + 1)
  <2>1. ASSUME NEW r \in Replicas, commit < Frontier(holds[r])
        PROVE  1..(commit + 1) \subseteq holds[r]
    <3>1. holds[r] \in SUBSET (1..Len(log)) /\ Len(log) \in Nat
      BY DEF IInv, Types
    <3>2. Frontier(holds[r]) \in Nat /\ 1..Frontier(holds[r]) \subseteq holds[r]
      BY <3>1, FrontierWithin
    <3>3. 1..(commit + 1) \subseteq 1..Frontier(holds[r])
      BY <1>2, <2>1, <3>2
    <3> QED BY <3>2, <3>3
  <2> DEFINE S == {r \in Replicas : commit < Frontier(holds[r])}
             T == {r \in Replicas : 1..(commit + 1) \subseteq holds[r]}
  <2>2. S \subseteq T /\ S \in SUBSET Replicas /\ T \in SUBSET Replicas /\ Commits(S)
    BY <1>2, <2>1
  <2> HIDE DEF S, T
  <2>3. Commits(T)
    BY <2>2, QuorumGrows
  <2> QED BY <2>3 DEF Kept, T
<1>5. Safe'
  BY <1>1, <1>2, <1>4 DEF IInv, Safe, Kept, Commits
<1>6. LatchHeld'
  BY <1>1 DEF IInv, LatchHeld, Ahead, Queued, Journaled
<1> QED BY <1>3, <1>5, <1>6 DEF IInv

\* The elect starts its view, and a tick may scan the whole log once more.
LEMMA StartKeeps == ASSUME IInv, NEW tick, start_pending_view(tick) PROVE IInv'
<1>1. /\ sequence' = [r \in Replicas |-> Len(log)] /\ scan' = repeated(tick)
      /\ UNCHANGED <<log, commit, primary, queue, holds, applied, walking, owners>>
  BY DEF start_pending_view, tables
<1>2. scan' = scan \/ scan' = rescanned(Len(log))
  BY <1>1 DEF repeated
<1>3. scan' \in Scan
  BY <1>2, RescanHolds DEF IInv, Types
<1>4. Types'
  BY <1>1, <1>3 DEF IInv, Types
<1>5. Ahead \subseteq Ahead'
  BY <1>1 DEF Ahead, Queued, Journaled
<1>6. LatchHeld'
  BY <1>2, <1>3, <1>5, HeldStays DEF Scan
<1>7. Safe'
  BY <1>1, <1>4, SafeGrows
<1> QED BY <1>4, <1>6, <1>7 DEF IInv

------------------------------------------------------------------------------
(* Admission and promotion *)

\* An install stands for the latch it sets.
LEMMA InstallingBack ==
    ASSUME NEW o \in Operation, o.kind = "install"
    PROVE  Installing(Installation(o)) = o /\ Installation(o) \in Latch
BY DEF Installing, Installation, Op, Operation, Latch

\* A prepare joins the log and the primary's journal, above all it applied.
LEMMA PreparedAdds ==
    ASSUME IInv, NEW o \in Operation, Prepared(o), applied' = applied
    PROVE  /\ log' \in Seq(Operation) /\ primary' = primary /\ commit' = commit
           /\ o \in Journaled' /\ Journaled \subseteq Journaled'
           /\ holds' \in [Replicas -> SUBSET (1..Len(log'))] /\ sequence' \in [Replicas -> Nat]
           /\ \A q \in Replicas : holds[q] \subseteq holds'[q]
<1>1. /\ log \in Seq(Operation) /\ Len(log) \in Nat /\ primary \in Replicas
      /\ holds \in [Replicas -> SUBSET (1..Len(log))] /\ sequence \in [Replicas -> Nat]
      /\ applied[primary] \in Nat
      /\ log' = Append(log, o)
      /\ holds' = [holds EXCEPT ![primary] = @ \cup {Len(log) + 1}]
      /\ sequence' = [sequence EXCEPT ![primary] = Len(log) + 1]
      /\ primary' = primary /\ commit' = commit
  BY DEF IInv, Types, Prepared
<1>2. log' \in Seq(Operation) /\ Len(log') = Len(log) + 1 /\ log'[Len(log) + 1] = o
      /\ \A x \in 1..Len(log) : log'[x] = log[x]
  BY <1>1
<1>3. holds' \in [Replicas -> SUBSET (1..Len(log'))] /\ sequence' \in [Replicas -> Nat]
  BY <1>1, <1>2
<1>4. Len(log) + 1 \in holds'[primary] /\ \A q \in Replicas : holds[q] \subseteq holds'[q]
  BY <1>1
<1>5. \A x \in holds[primary] : log'[x] = log[x]
  BY <1>1, <1>2
<1>6. applied[primary] <= Len(log)
  BY <1>1, KeptWithin DEF IInv, Safe
<1>7. o \in Journaled'
  BY <1>1, <1>2, <1>4, <1>6 DEF Journaled
<1>8. Journaled \subseteq Journaled'
  BY <1>1, <1>4, <1>5 DEF Journaled
<1> QED BY <1>1, <1>2, <1>3, <1>4, <1>7, <1>8

\* An admitted op is queued or prepared; an install sets the latch.
LEMMA AdmitKeeps ==
    ASSUME IInv, NEW o \in Operation, Admit(o, scanned(FALSE)) PROVE IInv'
<1> DEFINE s == scanned(FALSE)
<1>1. /\ scan' = IF o.kind = "install" THEN [s EXCEPT !.latch = Installation(o)] ELSE s
      /\ UNCHANGED <<applied, walking, owners>>
      /\ \/ queue' = Append(queue, o) /\ UNCHANGED <<log, commit, primary, holds, sequence>>
         \/ Prepared(o) /\ UNCHANGED queue
  BY DEF Admit, tables, consensus, journals
<1>2. s \in Scan /\ s.observed /\ ~s.truncated
      /\ (s.latch # None => Installing(s.latch) \in Ahead)
  BY ScannedHolds
<1> HIDE DEF s
<1>3. scan' \in Scan
  BY <1>1, <1>2, InstallingBack DEF Scan
<1>4. /\ Types' /\ Ahead \subseteq Ahead' /\ o \in Ahead'
      /\ \A q \in Replicas : holds[q] \subseteq holds'[q]
      /\ commit' = commit /\ primary' = primary
  <2>1. CASE queue' = Append(queue, o) /\ UNCHANGED <<log, commit, primary, holds, sequence>>
    <3>1. queue \in Seq(Operation) /\ queue' \in Seq(Operation)
      BY <2>1 DEF IInv, Types
    <3>2. Queued \subseteq Queued' /\ o \in Queued'
      BY <2>1, <3>1 DEF Queued
    <3>3. Types'
      BY <1>1, <1>3, <2>1, <3>1 DEF IInv, Types
    <3>4. Journaled' = Journaled
      BY <1>1, <2>1 DEF Journaled
    <3> QED BY <2>1, <3>2, <3>3, <3>4 DEF Ahead
  <2>2. CASE Prepared(o) /\ UNCHANGED queue
    <3>1. /\ log' \in Seq(Operation) /\ primary' = primary /\ commit' = commit
          /\ o \in Journaled' /\ Journaled \subseteq Journaled'
          /\ holds' \in [Replicas -> SUBSET (1..Len(log'))] /\ sequence' \in [Replicas -> Nat]
          /\ \A q \in Replicas : holds[q] \subseteq holds'[q]
      BY <1>1, <2>2, PreparedAdds
    <3>2. Types'
      BY <1>1, <1>3, <2>2, <3>1 DEF IInv, Types
    <3>3. Queued' = Queued
      BY <2>2 DEF Queued
    <3> QED BY <3>1, <3>2, <3>3 DEF Ahead
  <2> QED BY <1>1, <2>1, <2>2
<1>5. Safe'
  BY <1>1, <1>4, SafeGrows
<1>6. LatchHeld'
  <2>1. CASE o.kind = "install"
    <3>1. scan'.latch = Installation(o)
      BY <1>1, <1>2, <2>1 DEF Scan
    <3>2. Installing(scan'.latch) \in Ahead'
      BY <1>4, <2>1, <3>1, InstallingBack
    <3> QED BY <3>2 DEF LatchHeld, Installing, None, Op
  <2>2. CASE o.kind # "install"
    BY <1>1, <1>2, <1>4, <2>2 DEF LatchHeld, Installing, None, Op
  <2> QED BY <2>1, <2>2
<1> QED BY <1>4, <1>5, <1>6 DEF IInv

\* The three kinds of request.
LEMMA RequestKeeps == ASSUME IInv, on_request PROVE IInv'
<1>1. PICK g \in Groups : \/ \E n \in Generations(g) : install_owner(g, n)
                          \/ \E n \in DOMAIN Decisions : store_offset(g, n)
                          \/ complete_poll(g)
  BY DEF on_request
<1>2. ASSUME NEW n \in Generations(g), install_owner(g, n) PROVE IInv'
  <2>1. Op("install", g, n) \in Operation
    BY <1>2, SizesAssumption DEF Generations, Op, Operation
  <2> QED BY <1>2, <2>1, AdmitKeeps DEF install_owner
<1>3. ASSUME NEW n \in DOMAIN Decisions, store_offset(g, n) PROVE IInv'
  <2>1. Op("store", g, n) \in Operation
    BY <1>3, SizesAssumption DEF Op, Operation
  <2> QED BY <1>3, <2>1, AdmitKeeps DEF store_offset
<1>4. ASSUME complete_poll(g) PROVE IInv'
  <2>1. owners[primary][g] \in Nat \ {0}
    BY <1>4 DEF IInv, Types, complete_poll
  <2>2. Op("store", g, owners[primary][g]) \in Operation
    BY <2>1 DEF Op, Operation
  <2> QED BY <1>4, <2>2, AdmitKeeps DEF complete_poll
<1> QED BY <1>1, <1>2, <1>3, <1>4

\* The head of the queue leaves it: a store perhaps for good, an install only
\* for the log, with the latch.
LEMMA DrainKeeps == ASSUME IInv, drain_request_queue_into_prepares PROVE IInv'
<1> DEFINE s == scanned(FALSE)
           o == Head(queue)
           freed == IF o.kind = "install" /\ s.latch = Installation(o)
                    THEN [s EXCEPT !.latch = None] ELSE s
<1>1. /\ queue # <<>> /\ queue' = Tail(queue)
      /\ UNCHANGED <<applied, walking, owners>>
      /\ \/ /\ o.kind = "store" /\ scan' = freed
            /\ UNCHANGED <<log, commit, primary, holds, sequence>>
         \/ /\ Prepared(o)
            /\ scan' = IF o.kind = "install" THEN [freed EXCEPT !.latch = Installation(o)]
                       ELSE freed
  BY DEF drain_request_queue_into_prepares, tables, consensus, journals
<1>2. s \in Scan /\ s.observed /\ ~s.truncated
      /\ (s.latch # None => Installing(s.latch) \in Ahead)
  BY ScannedHolds
<1>3. queue \in Seq(Operation) /\ o \in Operation /\ queue' \in Seq(Operation)
  BY <1>1 DEF IInv, Types
<1>4. Queued \subseteq Queued' \cup {o}
  <2> SUFFICES ASSUME NEW i \in DOMAIN queue, i # 1 PROVE queue[i] \in Queued'
    BY <1>3 DEF Queued
  <2>1. i - 1 \in DOMAIN queue' /\ queue'[i - 1] = queue[i]
    BY <1>1, <1>3
  <2> QED BY <2>1 DEF Queued
<1> HIDE DEF s, o
<1>5. freed \in Scan /\ freed.observed /\ ~freed.truncated
      /\ (o.kind # "install" => freed = s)
  BY <1>2 DEF Scan, Latch
<1> HIDE DEF freed
<1>6. /\ log' \in Seq(Operation) /\ primary' = primary /\ commit' = commit
      /\ Journaled \subseteq Journaled' /\ (o.kind = "install" => o \in Journaled')
      /\ holds' \in [Replicas -> SUBSET (1..Len(log'))] /\ sequence' \in [Replicas -> Nat]
      /\ \A q \in Replicas : holds[q] \subseteq holds'[q]
  <2>1. CASE o.kind = "store" /\ UNCHANGED <<log, commit, primary, holds, sequence>>
    BY <1>1, <2>1 DEF IInv, Types, Journaled
  <2>2. CASE Prepared(o)
    BY <1>1, <1>3, <2>2, PreparedAdds
  <2> QED BY <1>1, <2>1, <2>2
<1>7. scan' \in Scan /\ scan'.observed /\ ~scan'.truncated
      /\ scan'.latch = IF o.kind = "install" THEN Installation(o) ELSE s.latch
  <2>1. CASE o.kind = "install"
    <3>1. scan' = [freed EXCEPT !.latch = Installation(o)] /\ Installation(o) \in Latch
      BY <1>1, <1>3, <2>1, InstallingBack
    <3> QED BY <1>5, <2>1, <3>1 DEF Scan
  <2>2. CASE o.kind # "install"
    BY <1>1, <1>2, <1>5, <2>2
  <2> QED BY <2>1, <2>2
<1>8. Types'
  BY <1>1, <1>3, <1>6, <1>7 DEF IInv, Types
<1>9. Safe'
  BY <1>1, <1>6, <1>8, SafeGrows
<1>10. LatchHeld'
  <2>1. CASE o.kind = "install"
    <3>1. Installing(scan'.latch) \in Ahead'
      BY <1>3, <1>6, <1>7, <2>1, InstallingBack DEF Ahead
    <3> QED BY <3>1 DEF LatchHeld, Installing, None, Op
  <2>2. CASE o.kind # "install"
    <3>1. ASSUME s.latch # None PROVE Installing(s.latch) \in Ahead'
      <4>1. Installing(s.latch) # o
        BY <2>2 DEF Installing, Op
      <4> QED BY <1>2, <1>4, <1>6, <3>1, <4>1 DEF Ahead
    <3> QED BY <1>7, <2>2, <3>1 DEF LatchHeld, Installing, None, Op
  <2> QED BY <2>1, <2>2
<1> QED BY <1>8, <1>9, <1>10 DEF IInv

------------------------------------------------------------------------------
(* Application *)

\* The rows of an op change; for the primary its commit_min comes later.
LEMMA ApplyKeeps == ASSUME IInv, NEW r \in Replicas, commit_journal(r) PROVE IInv'
<1> DEFINE o == log[applied[r] + 1]
<1>1. /\ (r = primary => ~walking) /\ applied[r] < commit /\ applied[r] + 1 \in holds[r]
      /\ walking' = (walking \/ r = primary)
      /\ applied' = IF r = primary THEN applied ELSE [applied EXCEPT ![r] = @ + 1]
      /\ \/ owners' = [owners EXCEPT ![r][o.group] = Max({@, o.generation})]
         \/ owners' = owners
      /\ scan' = IF r = primary THEN scanned(FALSE) ELSE scan
      /\ UNCHANGED <<log, commit, primary, queue, holds, sequence>>
  BY DEF commit_journal, committed_held, consensus, journals
<1>2. /\ applied \in [Replicas -> Nat] /\ commit \in Nat /\ primary \in Replicas
      /\ walking \in BOOLEAN /\ owners \in [Replicas -> [Groups -> Nat]]
  BY DEF IInv, Types
<1>3. o \in Operation
  BY <1>1 DEF IInv, Types
<1> HIDE DEF o
<1>4. owners' \in [Replicas -> [Groups -> Nat]]
  <2>1. o.group \in Groups /\ o.generation \in Nat
    BY <1>3 DEF Operation
  <2>2. owners[r] \in [Groups -> Nat] /\ owners[r][o.group] \in Nat
    BY <1>2, <2>1
  <2>3. Max({owners[r][o.group], o.generation}) \in Nat
    BY <2>1, <2>2, OneOfTwo
  <2>4. PICK m \in Nat : m = Max({owners[r][o.group], o.generation})
    BY <2>3
  <2>5. owners' = owners \/ owners' = [owners EXCEPT ![r] = [owners[r] EXCEPT ![o.group] = m]]
    BY <1>1, <2>4
  <2>6. [owners[r] EXCEPT ![o.group] = m] \in [Groups -> Nat]
    BY <2>2
  <2> QED BY <1>2, <2>5, <2>6
<1>5. scan' \in Scan
  BY <1>1, ScannedHolds DEF IInv, Types
<1>6. applied' \in [Replicas -> Nat] /\ walking' \in BOOLEAN
  BY <1>1, <1>2
<1>7. Types'
  BY <1>1, <1>4, <1>5, <1>6 DEF IInv, Types
<1>8. Kept(holds, applied[r] + 1)
  <2>1. applied[r] + 1 \in Nat /\ applied[r] + 1 <= commit
    BY <1>1, <1>2
  <2> QED BY <1>2, <2>1, KeptGrows DEF IInv, Safe
<1>9. Safe'
  <2>1. Kept(holds, commit) /\ \A q \in Replicas : Kept(holds, applied[q])
    BY DEF IInv, Safe
  <2>2. ASSUME NEW q \in Replicas PROVE Kept(holds, applied'[q])
    <3>1. applied'[q] = applied[q] \/ (q = r /\ applied'[q] = applied[r] + 1)
      BY <1>1, <1>2
    <3> QED BY <1>8, <2>1, <3>1
  <2>3. ASSUME walking' PROVE Kept(holds, applied'[primary] + 1)
    <3>1. applied'[primary] = applied[primary]
      BY <1>1, <1>2
    <3>2. CASE r = primary
      BY <1>8, <3>1, <3>2
    <3>3. CASE r # primary
      BY <1>1, <2>3, <3>1, <3>3 DEF IInv, Safe
    <3> QED BY <3>2, <3>3
  <2> QED BY <1>1, <2>1, <2>2, <2>3 DEF Safe, Kept, Commits
<1>10. Ahead \subseteq Ahead'
  <2>1. applied'[primary] = applied[primary]
    BY <1>1, <1>2
  <2> QED BY <1>1, <2>1 DEF Ahead, Queued, Journaled
<1>11. LatchHeld'
  <2>1. CASE r = primary
    BY <1>1, <1>5, <1>10, <2>1, HeldStays DEF Scan
  <2>2. CASE r # primary
    BY <1>1, <1>5, <1>10, <2>2, HeldStays DEF Scan
  <2> QED BY <2>1, <2>2
<1> QED BY <1>7, <1>9, <1>11 DEF IInv

\* Once commit_min passes an op, the latch that names it goes; any other latch
\* names another op.
LEMMA PublishKeeps == ASSUME IInv, publish_pending_commit PROVE IInv'
<1> DEFINE k == applied[primary] + 1
<1>1. /\ walking /\ walking' = FALSE
      /\ applied' = [applied EXCEPT ![primary] = @ + 1]
      /\ scan' = released(k)
      /\ UNCHANGED <<log, commit, primary, queue, holds, sequence, owners>>
  BY DEF publish_pending_commit, consensus, journals
<1>2. /\ applied \in [Replicas -> Nat] /\ primary \in Replicas /\ scan \in Scan
      /\ holds[primary] \subseteq 1..Len(log) /\ log \in Seq(Operation) /\ k \in Nat
  BY DEF IInv, Types
<1>3. applied' \in [Replicas -> Nat] /\ applied'[primary] = k
      /\ \A q \in Replicas : q # primary => applied'[q] = applied[q]
  BY <1>1, <1>2
<1>4. scan' \in Scan /\ scan'.observed = scan.observed /\ scan'.truncated = scan.truncated
      /\ scan'.latch = (IF Names(k) THEN None ELSE scan.latch)
  BY <1>1, <1>2 DEF released, Scan, Latch
<1>5. Types'
  BY <1>1, <1>3, <1>4 DEF IInv, Types
<1>6. Safe'
  <2>1. Kept(holds, commit) /\ Kept(holds, k) /\ \A q \in Replicas : Kept(holds, applied[q])
    BY <1>1 DEF IInv, Safe
  <2>2. \A q \in Replicas : Kept(holds, applied'[q])
    BY <1>3, <2>1
  <2> QED BY <1>1, <2>1, <2>2 DEF Safe, Kept, Commits
<1>7. LatchHeld'
  <2> SUFFICES ASSUME scan'.observed, ~scan'.truncated, scan'.latch # None
               PROVE  Installing(scan'.latch) \in Ahead'
    BY DEF LatchHeld, Installing, None, Op
  <2>1. ~Names(k) /\ scan'.latch = scan.latch
    BY <1>4
  <2>2. Installing(scan.latch) \in Ahead
    BY <1>4, <2>1 DEF IInv, LatchHeld
  <2>3. CASE Installing(scan.latch) \in Queued
    BY <1>1, <2>1, <2>3 DEF Ahead, Queued
  <2>4. CASE Installing(scan.latch) \in Journaled
    <3>1. PICK x \in holds[primary] : applied[primary] < x /\ log[x] = Installing(scan.latch)
      BY <2>4 DEF Journaled
    <3>2. x # k
      <4> SUFFICES ASSUME x = k PROVE FALSE
        OBVIOUS
      <4>1. scan.latch \in [group : Groups, generation : Nat]
        BY <1>2, <2>1 DEF Scan, Latch
      <4>2. log[k].kind = "install" /\ Installation(log[k]) = scan.latch
        BY <3>1, <4>1 DEF Installing, Installation, Op
      <4> QED BY <2>1, <4>2 DEF Names
    <3>3. x \in Nat /\ k < x
      BY <1>2, <3>1, <3>2
    <3>4. Installing(scan.latch) \in Journaled'
      BY <1>1, <1>3, <3>1, <3>3 DEF Journaled
    <3> QED BY <2>1, <3>4 DEF Ahead
  <2> QED BY <2>2, <2>3, <2>4 DEF Ahead
<1> QED BY <1>5, <1>6, <1>7 DEF IInv

------------------------------------------------------------------------------
(* View changes *)

\* The scan starts over, and the deposed primary finishes the op it applies.
LEMMA ViewChangeKeeps ==
    ASSUME IInv, NEW p \in Replicas, start_view_change(p) PROVE IInv'
<1>1. /\ primary' = p /\ queue' = <<>> /\ scan' = Unscanned
      /\ walking' = (walking /\ p = primary)
      /\ applied' = IF walking /\ p # primary THEN [applied EXCEPT ![primary] = @ + 1]
                    ELSE applied
      /\ UNCHANGED <<log, commit, holds, sequence, owners>>
  BY DEF start_view_change, journals
<1>2. applied \in [Replicas -> Nat] /\ primary \in Replicas /\ walking \in BOOLEAN
  BY DEF IInv, Types
<1>3. scan' \in Scan /\ ~scan'.observed
  BY <1>1 DEF Unscanned, Scan, Latch
<1>4. applied' \in [Replicas -> Nat] /\ queue' \in Seq(Operation) /\ walking' \in BOOLEAN
  BY <1>1, <1>2
<1>5. Types'
  BY <1>1, <1>3, <1>4 DEF IInv, Types
<1>6. Safe'
  <2>1. ASSUME NEW q \in Replicas PROVE Kept(holds, applied'[q])
    <3>1. CASE walking /\ q = primary /\ applied'[q] = applied[primary] + 1
      BY <3>1 DEF IInv, Safe
    <3>2. CASE applied'[q] = applied[q]
      BY <3>2 DEF IInv, Safe
    <3> QED BY <1>1, <1>2, <3>1, <3>2
  <2>2. ASSUME walking' PROVE Kept(holds, applied'[primary'] + 1)
    BY <1>1, <2>2 DEF IInv, Safe
  <2>3. Kept(holds, commit)
    BY DEF IInv, Safe
  <2> QED BY <1>1, <2>1, <2>2, <2>3 DEF Safe, Kept, Commits
<1>7. LatchHeld'
  BY <1>3 DEF LatchHeld
<1> QED BY <1>5, <1>6, <1>7 DEF IInv

\* The merge cuts the log above what is safe.  The scan is marked unless the
\* cut left the primary's journal alone, and with it the install of the latch.
LEMMA MergeKeeps ==
    ASSUME IInv, NEW Q \in SUBSET Replicas, NEW head \in 0..Len(log),
           complete_view_change_as_primary(Q, head)
    PROVE  IInv'
<1> DEFINE cut == [r \in Replicas |-> holds[r] \cap 1..head]
           tops == {applied[r] : r \in Q}
<1>1. /\ primary \in Q /\ DeniesOp({r \in Q : head + 1 \notin holds[r]})
      /\ log' = SubSeq(log, 1, head) /\ holds' = cut
      /\ sequence' = [r \in Replicas |-> Min({sequence[r], head})]
      /\ commit' \in Max(tops)..commit
      /\ scan' = IF holds'[primary] = holds[primary] THEN scan
                 ELSE [scan EXCEPT !.truncated = TRUE, !.needs = TRUE]
      /\ UNCHANGED <<primary, queue, applied, walking, owners>>
  BY DEF complete_view_change_as_primary, tables
<1>2. /\ holds \in [Replicas -> SUBSET (1..Len(log))] /\ Len(log) \in Nat /\ primary \in Replicas
      /\ log \in Seq(Operation) /\ applied \in [Replicas -> Nat] /\ commit \in Nat
      /\ sequence \in [Replicas -> Nat] /\ scan \in Scan
  BY DEF IInv, Types
<1>3. ASSUME NEW k \in Nat, Kept(holds, k) PROVE k <= head /\ Kept(cut, k)
  BY <1>1, <1>2, <1>3, KeptSurvives
<1>4. head \in 0..Len(log)
  OBVIOUS
<1>5. commit' \in Nat /\ commit' <= commit
  <2>1. tops \in SUBSET (0..Len(log)) /\ tops # {}
    <3>1. \A r \in Replicas : applied[r] <= Len(log)
      BY <1>2, KeptWithin DEF IInv, Safe
    <3> QED BY <1>1, <1>2, <3>1
  <2> HIDE DEF tops
  <2>2. Max(tops) \in tops
    BY <1>2, <2>1, MaxIn
  <2> QED BY <1>1, <1>2, <2>1, <2>2
<1>6. \A r \in Replicas : Min({sequence[r], head}) \in Nat
  <2> TAKE r \in Replicas
  <2>1. sequence[r] \in Nat /\ head \in Nat
    BY <1>2, <1>4
  <2> QED BY <2>1, OneOfTwo
<1> HIDE DEF tops
<1>7. log' \in Seq(Operation) /\ Len(log') = head /\ \A x \in 1..head : log'[x] = log[x]
  BY <1>1, <1>2, <1>4
<1>8. holds' \in [Replicas -> SUBSET (1..Len(log'))] /\ sequence' \in [Replicas -> Nat]
  BY <1>1, <1>6, <1>7
<1>9. scan' \in Scan /\ scan'.latch = scan.latch /\ scan'.observed = scan.observed
      /\ (holds'[primary] = holds[primary] \/ scan'.truncated)
      /\ (holds'[primary] = holds[primary] => scan' = scan)
  BY <1>1, <1>2 DEF Scan
<1>10. Types'
  BY <1>1, <1>5, <1>7, <1>8, <1>9 DEF IInv, Types
<1>11. Safe'
  <2> HIDE DEF cut
  <2>1. Kept(cut, commit')
    <3>1. Kept(cut, commit)
      BY <1>2, <1>3 DEF IInv, Safe
    <3> QED BY <1>2, <1>5, <3>1, KeptGrows
  <2>2. ASSUME NEW r \in Replicas PROVE Kept(cut, applied[r])
    BY <1>2, <1>3 DEF IInv, Safe
  <2>3. ASSUME walking PROVE Kept(cut, applied[primary] + 1)
    <3>1. applied[primary] + 1 \in Nat
      BY <1>2
    <3> QED BY <1>3, <2>3, <3>1 DEF IInv, Safe
  <2> QED BY <1>1, <2>1, <2>2, <2>3 DEF Safe, Kept, Commits
<1>12. LatchHeld'
  <2>1. CASE holds'[primary] = holds[primary]
    <3>1. \A x \in holds[primary] : log'[x] = log[x]
      <4>1. holds[primary] \subseteq 1..head
        BY <1>1, <1>2, <2>1
      <4> QED BY <1>7, <4>1
    <3>2. Ahead \subseteq Ahead'
      <4>1. Queued' = Queued /\ holds[primary] \subseteq holds'[primary]
        BY <1>1, <2>1 DEF Queued
      <4> QED BY <1>1, <3>1, <4>1, AheadGrows
    <3> QED BY <1>2, <1>9, <2>1, <3>2, HeldStays DEF Scan
  <2>2. CASE holds'[primary] # holds[primary]
    BY <1>9, <2>2 DEF LatchHeld
  <2> QED BY <2>1, <2>2
<1> QED BY <1>10, <1>11, <1>12 DEF IInv

------------------------------------------------------------------------------
(* The theorem *)

\* The first state holds the invariant: nothing is in the log.
LEMMA InitHolds == ASSUME Init PROVE IInv
<1>1. /\ log = <<>> /\ queue = <<>> /\ commit = 0 /\ primary \in Replicas /\ walking = FALSE
      /\ holds = [r \in Replicas |-> {}] /\ sequence = [r \in Replicas |-> 0]
      /\ applied = [r \in Replicas |-> 0]
      /\ scan = [Unscanned EXCEPT !.observed = TRUE]
  BY DEF Init
<1>2. owners \in [Replicas -> [Groups -> Nat]]
  <2>1. PICK g : owners = [r \in Replicas |-> [h \in Groups |-> IF h = g THEN 1 ELSE 0]]
    BY DEF Init
  <2> QED BY <2>1
<1>3. scan \in Scan /\ scan.latch = None
  BY <1>1 DEF Unscanned, Scan, Latch
<1>4. Types
  <2>1. log \in Seq(Operation) /\ queue \in Seq(Operation) /\ Len(log) = 0
    BY <1>1
  <2>2. holds \in [Replicas -> SUBSET (1..Len(log))]
    BY <1>1, <2>1
  <2>3. applied \in [Replicas -> Nat] /\ sequence \in [Replicas -> Nat]
    BY <1>1
  <2> QED BY <1>1, <1>2, <1>3, <2>1, <2>2, <2>3 DEF Types
<1>5. Kept(holds, 0)
  <2>1. {q \in Replicas : 1..0 \subseteq holds[q]} = Replicas
    BY <1>1
  <2>2. Cardinality(Replicas) \in Nat \ {0}
    BY <1>1, SizesAssumption, FS_CardinalityType, FS_EmptySet
  <2>3. quorum_replication(Cardinality(Replicas)) \in 1..Cardinality(Replicas)
    BY <2>2, QuorumSizes
  <2> QED BY <2>1, <2>2, <2>3 DEF Kept, Commits
<1>6. Safe
  BY <1>1, <1>5 DEF Safe
<1> QED BY <1>3, <1>4, <1>6 DEF IInv, LatchHeld

\* Every step keeps the invariant.
LEMMA NextKeeps == ASSUME IInv, [Next]_vars PROVE IInv'
<1>1. ASSUME NEW tick, resynchronize(tick) PROVE IInv'
  BY <1>1, ResynchronizeKeeps
<1>2. ASSUME NEW r \in Replicas, on_replicate(r) \/ commit_journal(r) \/ start_view_change(r)
      PROVE  IInv'
  BY <1>2, ReplicateKeeps, ApplyKeeps, ViewChangeKeeps
<1>3. ASSUME NEW r \in Replicas, NEW o \in (1..Len(log)) \ holds[r], apply_repaired_prepare(r, o)
      PROVE  IInv'
  BY <1>3, RepairKeeps
<1>4. ASSUME NEW Q \in SUBSET Replicas, NEW head \in 0..Len(log),
             complete_view_change_as_primary(Q, head)
      PROVE  IInv'
  BY <1>4, MergeKeeps
<1>5. ASSUME NEW tick, start_pending_view(tick) PROVE IInv'
  BY <1>5, StartKeeps
<1>6. ASSUME UNCHANGED vars PROVE IInv'
  <2>1. UNCHANGED <<log, commit, primary, queue, holds, sequence, applied, walking, owners, scan>>
    BY <1>6 DEF vars, consensus, journals, tables
  <2>2. Types' /\ LatchHeld'
    BY <2>1 DEF IInv, Types, LatchHeld, Ahead, Queued, Journaled
  <2>3. Safe'
    BY <2>1, <2>2, SafeGrows
  <2> QED BY <2>2, <2>3 DEF IInv
<1> QED BY <1>1, <1>2, <1>3, <1>4, <1>5, <1>6, RequestKeeps, DrainKeeps, PublishKeeps, CommitKeeps
        DEF Next

\* The invariant of the latch.
THEOREM LatchInvariant == Spec => []IInv
<1>1. Init => IInv
  BY InitHolds
<1>2. IInv /\ [Next]_vars => IInv'
  BY NextKeeps
<1> QED BY <1>1, <1>2, PTL DEF Spec

\* The latch of a primary names an install in its queue or unapplied in its log,
\* through queues, view changes, truncations, repairs and commits: no latch is
\* left behind to refuse every later install (pending_owner_install).
THEOREM LatchStaysLive == Spec => []LatchIsLive
<1>1. IInv => LatchIsLive
  <2> SUFFICES ASSUME IInv, scanned(FALSE).latch # None
               PROVE  Installing(scanned(FALSE).latch) \in
                         {queue[i] : i \in DOMAIN queue}
                         \cup {log[o] : o \in (applied[primary] + 1)..Len(log)}
    BY DEF LatchIsLive, Installing
  <2>1. Installing(scanned(FALSE).latch) \in Ahead
    BY ScannedHolds
  <2>2. Journaled \subseteq {log[o] : o \in (applied[primary] + 1)..Len(log)}
    <3> SUFFICES ASSUME NEW x \in holds[primary], applied[primary] < x
                 PROVE  x \in (applied[primary] + 1)..Len(log)
      BY DEF Journaled
    <3> QED BY DEF IInv, Types
  <2> QED BY <2>1, <2>2 DEF Ahead, Queued
<1> QED BY <1>1, LatchInvariant, PTL

------------------------------------------------------------------------------
(* What a store needs to be applied *)

\* The generation a group starts with, and the ops a replica applied: those of
\* the primary run one ahead of its commit_min while it walks.
First(g) == IF g = Decisions[1] THEN 1 ELSE 0
Done(r) == IF walking /\ r = primary THEN applied[r] + 1 ELSE applied[r]

\* The generations of group g up to op p, and the one a replica there holds.
Installed(L, g, p) ==
    {First(g)}
    \cup {L[i].generation : i \in {j \in 1..p : L[j].kind = "install" /\ L[j].group = g}}
Latest(n, S) == n \in S /\ \A m \in S : m <= n

\* No install stands twice in the first p ops.
Once(L, p) == \A i, j \in 1..p : L[i] = L[j] /\ L[i].kind = "install" => i = j

\* The log and what is queued behind it.
Line == log \o queue

\* A scan with nothing new to look for.
Current(s) == s.observed /\ ~s.truncated /\ ~s.needs

\* Every replica holds the owners of the ops it applied.
Rows == \A r \in Replicas, g \in Groups : Latest(owners[r][g], Installed(log, g, Done(r)))

\* A store in the log carries the owner that the installs before it leave.
StoresFit ==
    \A p \in 1..Len(log) :
        log[p].kind = "store" /\ Once(log, p) =>
            Latest(log[p].generation, Installed(log, log[p].group, p))

\* A queued store has no unapplied install of its group ahead of it.
StoresWait ==
    \A p \in (Len(log) + 1)..Len(Line) :
        Line[p].kind = "store" /\ Once(Line, p) =>
            \A j \in (Done(primary) + 1)..(p - 1) :
                ~(Line[j].kind = "install" /\ Line[j].group = Line[p].group)

\* The sequencer covers every run of ops a replica holds from the first on, and
\* in a view that has started every op; its primary holds the whole log.
Sequenced ==
    /\ \A r \in Replicas : \A k \in Nat : 1..k \subseteq holds[r] => k <= sequence[r]
    /\ status = "normal" =>
          /\ \A r \in Replicas : holds[r] \subseteq 1..sequence[r]
          /\ 1..Len(log) \subseteq holds[primary]

\* A primary that has scanned since its view started is certain, and it queues
\* only then.
Settled ==
    /\ status = "normal" /\ scan.observed /\ ~scan.truncated => ~scan.uncertain
    /\ queue # <<>> => status = "normal" /\ Current(scan)

\* Barrier and latch of s cover every unapplied install of the primary.
Covers(s) ==
    Once(Line, Len(Line)) =>
        \A j \in (Done(primary) + 1)..Len(Line) :
            Line[j].kind = "install" =>
                (j <= Len(log) /\ j <= s.barrier) \/ s.latch = Installation(Line[j])

\* Before the view starts the barrier covers what the primary holds.
Scouts(s) ==
    \A o \in Installs : o <= Last_op => o <= s.barrier

Covered ==
    Current(scan) => IF status = "normal" THEN Covers(scan) ELSE Scouts(scan)

\* A store that failed stands behind two copies of an install, for good.
Excused == failed => \E p \in Nat : Kept(holds, p) /\ ~Once(log, p)

Fits == Rows /\ StoresFit /\ StoresWait /\ Sequenced /\ Settled /\ Covered /\ Excused

\* What is said of the first p ops depends on them alone.
LEMMA SamePrefix ==
    ASSUME NEW L, NEW M, NEW p \in Nat, \A i \in 1..p : L[i] = M[i]
    PROVE  (Once(L, p) <=> Once(M, p)) /\ \A g : Installed(L, g, p) = Installed(M, g, p)
<1>1. Once(L, p) <=> Once(M, p)
  BY DEF Once
<1>2. ASSUME NEW g PROVE Installed(L, g, p) = Installed(M, g, p)
  BY DEF Installed
<1> QED BY <1>1, <1>2

\* Fewer ops hold no more copies.
LEMMA OnceBelow ==
    ASSUME NEW L, NEW p \in Nat, NEW q \in Nat, q <= p, Once(L, p) PROVE Once(L, q)
BY DEF Once

\* Ops that install nothing for a group leave its generations alone.
LEMMA NoneBetween ==
    ASSUME NEW L, NEW g, NEW a \in Nat, NEW p \in Nat, a <= p,
           \A j \in (a + 1)..p : ~(L[j].kind = "install" /\ L[j].group = g)
    PROVE  Installed(L, g, p) = Installed(L, g, a)
<1>1. \A j \in 1..p : L[j].kind = "install" /\ L[j].group = g => j \in 1..a
  <2> TAKE j \in 1..p
  <2>1. j \in 1..a \/ j \in (a + 1)..p
    OBVIOUS
  <2> QED BY <2>1
<1>2. {j \in 1..p : L[j].kind = "install" /\ L[j].group = g}
      = {j \in 1..a : L[j].kind = "install" /\ L[j].group = g}
  BY <1>1
<1> QED BY <1>2 DEF Installed

\* There is one latest generation.
LEMMA OneLatest ==
    ASSUME NEW S \in SUBSET Nat, NEW m, NEW n, Latest(m, S), Latest(n, S) PROVE m = n
<1>1. m \in Nat /\ n \in Nat /\ m <= n /\ n <= m
  BY DEF Latest
<1> QED BY <1>1

\* The greater of two numbers is one of them.
LEMMA Greater ==
    ASSUME NEW a \in Nat, NEW b \in Nat
    PROVE  Max({a, b}) \in {a, b} /\ a <= Max({a, b}) /\ b <= Max({a, b})
<1>1. \E x \in {a, b} : \A y \in {a, b} : x >= y
  OBVIOUS
<1>2. Max({a, b}) \in {a, b} /\ \A y \in {a, b} : Max({a, b}) >= y
  BY <1>1 DEF Max
<1> QED BY <1>2

\* The lesser of two numbers is one of them.
LEMMA Lesser ==
    ASSUME NEW a \in Nat, NEW b \in Nat
    PROVE  Min({a, b}) \in {a, b} /\ Min({a, b}) <= a /\ Min({a, b}) <= b
<1>1. \E x \in {a, b} : \A y \in {a, b} : x <= y
  OBVIOUS
<1>2. Min({a, b}) \in {a, b} /\ \A y \in {a, b} : Min({a, b}) <= y
  BY <1>1 DEF Min
<1> QED BY <1>2

\* No member of a bounded set of numbers is above its greatest.
LEMMA MaxAbove ==
    ASSUME NEW n \in Nat, NEW s \in SUBSET (0..n), NEW x \in s
    PROVE  Max(s) \in s /\ x <= Max(s)
<1>1. Max(s) \in s
  BY MaxIn
<1>2. \E y \in s : \A z \in s : y >= z
  <2> DEFINE Down == {n - y : y \in s}
  <2>1. Down \subseteq Nat /\ n - x \in Down
    OBVIOUS
  <2>2. PICK m \in Down : \A y \in Down : m <= y
    <3> HIDE DEF Down
    <3> QED BY <2>1, LeastNat
  <2>3. PICK y \in s : m = n - y
    OBVIOUS
  <2>4. \A z \in s : y >= z
    <3> TAKE z \in s
    <3>1. n - z \in Down /\ n - y <= n - z
      BY <2>2, <2>3
    <3> QED BY <3>1
  <2> QED BY <2>4
<1>3. \A z \in s : Max(s) >= z
  BY <1>2 DEF Max
<1> QED BY <1>1, <1>3

\* An install raises the owner of its group to its generation, if that is later.
LEMMA InstallAdds ==
    ASSUME NEW L, NEW g, NEW p \in Nat, NEW m,
           Installed(L, g, p) \subseteq Nat, Latest(m, Installed(L, g, p)),
           L[p + 1].kind = "install", L[p + 1].group = g, L[p + 1].generation \in Nat
    PROVE  Latest(Max({m, L[p + 1].generation}), Installed(L, g, p + 1))
<1> DEFINE n == L[p + 1].generation
<1>1. m \in Nat /\ n \in Nat
  BY DEF Latest
<1>2. Installed(L, g, p + 1) = Installed(L, g, p) \cup {n}
  <2>1. {j \in 1..(p + 1) : L[j].kind = "install" /\ L[j].group = g}
        = {j \in 1..p : L[j].kind = "install" /\ L[j].group = g} \cup {p + 1}
    OBVIOUS
  <2> QED BY <2>1 DEF Installed
<1> HIDE DEF n
<1>3. Max({m, n}) \in {m, n} /\ m <= Max({m, n}) /\ n <= Max({m, n})
  BY <1>1, Greater
<1>4. PICK x : x = Max({m, n})
  OBVIOUS
<1>5. Latest(x, Installed(L, g, p) \cup {n})
  BY <1>1, <1>3, <1>4 DEF Latest
<1> QED BY <1>2, <1>4, <1>5 DEF n

\* What a replica applied lies within the log, and a quorum holds it.
LEMMA DoneKept ==
    ASSUME IInv, NEW r \in Replicas
    PROVE  /\ Done(r) \in Nat /\ applied[r] <= Done(r) /\ Done(r) <= Len(log)
           /\ Kept(holds, Done(r))
<1>1. applied[r] \in Nat /\ Len(log) \in Nat /\ holds \in [Replicas -> SUBSET (1..Len(log))]
  BY DEF IInv, Types
<1>2. Done(r) \in Nat /\ applied[r] <= Done(r)
  BY <1>1 DEF Done
<1>3. Kept(holds, Done(r))
  BY DEF IInv, Safe, Done
<1> QED BY <1>1, <1>2, <1>3, KeptWithin

\* The log comes first in the line.
LEMMA LineIs ==
    ASSUME IInv
    PROVE  /\ Line \in Seq(Operation) /\ Len(Line) = Len(log) + Len(queue)
           /\ Len(log) \in Nat /\ Len(queue) \in Nat
           /\ \A j \in 1..Len(log) : Line[j] = log[j]
           /\ \A i \in 1..Len(queue) : Line[Len(log) + i] = queue[i]
<1>1. log \in Seq(Operation) /\ queue \in Seq(Operation)
  BY DEF IInv, Types
<1> QED BY <1>1 DEF Line

\* Generations in the log are numbers.
LEMMA InstalledNat ==
    ASSUME IInv, NEW g, NEW p \in 0..Len(log) PROVE Installed(log, g, p) \in SUBSET Nat
<1>1. ASSUME NEW i \in 1..p PROVE log[i].generation \in Nat
  <2>1. log \in Seq(Operation) /\ i \in 1..Len(log)
    BY DEF IInv, Types
  <2>2. log[i] \in Operation
    BY <2>1
  <2> QED BY <2>2 DEF Operation
<1>2. First(g) \in Nat
  BY DEF First
<1> QED BY <1>1, <1>2 DEF Installed

\* A scan that sees the whole log ends at its head.
LEMMA WholeLog ==
    ASSUME IInv, Sequenced, 1..Len(log) \subseteq holds[primary] PROVE Last_op = Len(log)
<1>1. Len(log) \in Nat /\ holds[primary] \subseteq 1..Len(log) /\ sequence[primary] \in Nat
      /\ primary \in Replicas
  BY DEF IInv, Types
<1>2. Len(log) <= sequence[primary]
  BY <1>1 DEF Sequenced
<1>3. holds[primary] \cup {0} = 0..Len(log)
  BY <1>1
<1>4. Max(0..Len(log)) = Len(log)
  <2>1. PICK n, S : n \in Nat /\ n = Len(log) /\ S = 0..n
    BY <1>1
  <2>2. S \in SUBSET (0..n) /\ n \in S
    BY <2>1
  <2>3. Max(S) \in S /\ n <= Max(S)
    BY <2>1, <2>2, MaxAbove
  <2>4. Max(S) = n
    BY <2>1, <2>3
  <2> QED BY <2>1, <2>4
<1>5. Min({sequence[primary], Len(log)}) = Len(log)
  <2>1. Min({sequence[primary], Len(log)}) \in {sequence[primary], Len(log)}
        /\ Min({sequence[primary], Len(log)}) <= Len(log)
    BY <1>1, Lesser
  <2> QED BY <1>1, <1>2, <2>1
<1> QED BY <1>3, <1>4, <1>5 DEF Last_op

\* A new scan puts the barrier on the last install it sees.
LEMMA RescanCovers ==
    ASSUME IInv, NEW last
    PROVE  /\ Current(rescanned(last))
           /\ \A o \in Installs : o <= last => o <= rescanned(last).barrier
           /\ (last \in Nat /\ 1..last \subseteq holds[primary] => ~rescanned(last).uncertain)
<1> DEFINE found == {o \in Installs : o <= last}
<1>1. /\ rescanned(last).barrier = IF found = {} THEN 0 ELSE Max(found)
      /\ rescanned(last).observed = TRUE /\ rescanned(last).truncated = FALSE
      /\ rescanned(last).needs = FALSE
      /\ rescanned(last).uncertain = ((commit + 1)..last \ holds[primary] # {})
  BY DEF rescanned
<1>2. found \in SUBSET (0..Len(log)) /\ Len(log) \in Nat /\ commit \in Nat
  BY DEF IInv, Types, Installs
<1>3. ASSUME NEW o \in Installs, o <= last PROVE o <= rescanned(last).barrier
  <2>1. o \in found
    BY <1>3
  <2> HIDE DEF found
  <2> QED BY <1>1, <1>2, <2>1, MaxAbove
<1>4. ASSUME last \in Nat, 1..last \subseteq holds[primary] PROVE ~rescanned(last).uncertain
  <2>1. (commit + 1)..last \subseteq 1..last
    BY <1>2, <1>4
  <2> QED BY <1>1, <1>4, <2>1
<1> QED BY <1>1, <1>3, <1>4 DEF Current

\* In a view that has started, what a handler knows is certain and covers every
\* unapplied install.
LEMMA FreshScan ==
    ASSUME IInv, Fits, status = "normal", NEW tick
    PROVE  LET s == scanned(tick) IN Current(s) /\ ~s.uncertain /\ Covers(s)
<1>1. /\ 1..Len(log) \subseteq holds[primary] /\ Last_op = Len(log) /\ Len(log) \in Nat
      /\ primary \in Replicas
  BY WholeLog DEF Fits, Sequenced, IInv, Types
<1>2. CASE Current(scan)
  <2>1. ~scan.uncertain /\ scanned(tick) = scan
    BY <1>2 DEF Fits, Settled, Current, scanned
  <2> QED BY <1>2, <2>1 DEF Fits, Covered
<1>3. CASE ~Current(scan)
  <2>1. scanned(tick) = rescanned(Len(log))
    BY <1>1, <1>3 DEF Fits, Settled, Current, scanned
  <2>2. queue = <<>>
    BY <1>3 DEF Fits, Settled
  <2>3. Current(rescanned(Len(log))) /\ ~rescanned(Len(log)).uncertain
    BY <1>1, RescanCovers
  <2>4. Covers(rescanned(Len(log)))
    <3>1. SUFFICES ASSUME NEW j \in (Done(primary) + 1)..Len(Line), Line[j].kind = "install"
                   PROVE  j <= Len(log) /\ j <= rescanned(Len(log)).barrier
      BY DEF Covers
    <3>2. Len(Line) = Len(log) /\ j \in 1..Len(log) /\ applied[primary] < j
      BY <1>1, <2>2, DoneKept, LineIs DEF IInv, Types
    <3>3. log[j] = Line[j]
      BY <3>2, LineIs
    <3>4. j \in Installs /\ j <= Len(log)
      BY <1>1, <3>1, <3>2, <3>3 DEF Installs
    <3> QED BY <3>2, <3>4, RescanCovers
  <2> QED BY <2>1, <2>3, <2>4
<1> QED BY <1>2, <1>3

\* Before that, what a handler knows covers what the primary holds, unless an
\* op was repaired since an uncertain scan.
LEMMA ScoutScan ==
    ASSUME IInv, Fits, status # "normal", NEW tick, Current(scanned(tick))
    PROVE  Scouts(scanned(tick))
<1>1. CASE scanned(tick) = rescanned(Last_op)
  BY <1>1, RescanCovers DEF Scouts
<1>2. CASE scanned(tick) # rescanned(Last_op)
  <2>1. scanned(tick) = scan
    BY <1>2 DEF scanned
  <2> QED BY <2>1 DEF Fits, Covered
<1> QED BY <1>1, <1>2

\* Rows stay those of the applied ops while neither changes.
LEMMA RowsStay ==
    ASSUME IInv, Fits, owners' = owners,
           \A r \in Replicas : Done(r)' = Done(r) /\ \A i \in 1..Done(r) : log'[i] = log[i]
    PROVE  Rows'
<1> SUFFICES ASSUME NEW r \in Replicas, NEW g \in Groups
             PROVE  Latest(owners'[r][g], Installed(log', g, Done(r)'))
  BY DEF Rows, Latest, Installed, First
<1>1. Done(r) \in Nat
  BY DoneKept
<1>2. Installed(log', g, Done(r)) = Installed(log, g, Done(r))
  BY <1>1, SamePrefix
<1> QED BY <1>2 DEF Fits, Rows

\* Stores that fit still do when the log is cut.
LEMMA StoresStay ==
    ASSUME IInv, Fits, Len(log') \in Nat, Len(log') <= Len(log),
           \A i \in 1..Len(log') : log'[i] = log[i]
    PROVE  StoresFit'
<1> SUFFICES ASSUME NEW p \in 1..Len(log'), log'[p].kind = "store", Once(log', p)
             PROVE  Latest(log'[p].generation, Installed(log', log'[p].group, p))
  BY DEF StoresFit, Latest, Installed, First, Once
<1>1. Len(log) \in Nat /\ p \in Nat /\ p \in 1..Len(log) /\ \A i \in 1..p : log'[i] = log[i]
  BY DEF IInv, Types
<1>2. Once(log, p) /\ Installed(log', log[p].group, p) = Installed(log, log[p].group, p)
  BY <1>1, SamePrefix
<1>3. log'[p] = log[p]
  BY <1>1
<1> QED BY <1>1, <1>2, <1>3 DEF Fits, StoresFit

\* The excuse of a failed store is committed.
LEMMA ExcusedStays ==
    ASSUME IInv, Fits, failed' = failed,
           \A p \in Nat : Kept(holds, p) => Kept(holds', p) /\ \A i \in 1..p : log'[i] = log[i]
    PROVE  Excused'
<1> SUFFICES ASSUME failed PROVE \E p \in Nat : Kept(holds', p) /\ ~Once(log', p)
  BY DEF Excused, Kept, Commits, Once
<1>1. PICK p \in Nat : Kept(holds, p) /\ ~Once(log, p)
  BY DEF Fits, Excused
<1>2. ~Once(log', p) /\ Kept(holds', p)
  BY <1>1, SamePrefix
<1> QED BY <1>2

\* What is said of the line stays true while ops are applied.
LEMMA LineStays ==
    ASSUME IInv, Fits, UNCHANGED <<log, queue, primary>>,
           Done(primary)' \in Nat, Done(primary) <= Done(primary)', NEW s
    PROVE  /\ StoresWait'
           /\ (Covers(s) /\ scan'.barrier = s.barrier /\ scan'.latch = s.latch) => Covers(scan)'
<1>1. Line' = Line /\ Len(log') = Len(log) /\ Len(log) \in Nat /\ Len(Line) \in Nat
      /\ primary \in Replicas
  BY LineIs DEF Line, IInv, Types
<1>2. Done(primary) \in Nat
  BY <1>1, DoneKept
<1>3. \A n \in Nat : (Done(primary)' + 1)..n \subseteq (Done(primary) + 1)..n
  BY <1>2
<1>4. StoresWait'
  <2> SUFFICES ASSUME NEW p \in (Len(log) + 1)..Len(Line), Line[p].kind = "store", Once(Line, p),
                      NEW j \in (Done(primary)' + 1)..(p - 1)
               PROVE  ~(Line[j].kind = "install" /\ Line[j].group = Line[p].group)
    BY <1>1 DEF StoresWait, Once
  <2>1. p - 1 \in Nat
    BY <1>1
  <2>2. j \in (Done(primary) + 1)..(p - 1)
    BY <1>3, <2>1
  <2> QED BY <2>2 DEF Fits, StoresWait
<1>5. ASSUME Covers(s), scan'.barrier = s.barrier, scan'.latch = s.latch PROVE Covers(scan)'
  <2> SUFFICES ASSUME Once(Line, Len(Line)),
                      NEW j \in (Done(primary)' + 1)..Len(Line), Line[j].kind = "install"
               PROVE  (j <= Len(log) /\ j <= s.barrier) \/ s.latch = Installation(Line[j])
    BY <1>1, <1>5 DEF Covers, Once, Installation
  <2>1. j \in (Done(primary) + 1)..Len(Line)
    BY <1>1, <1>3
  <2> QED BY <1>5, <2>1 DEF Covers
<1> QED BY <1>4, <1>5

\* What stays true when only the scan changes, or the commit point.
LEMMA QuietFits ==
    ASSUME IInv, Fits,
           UNCHANGED <<log, queue, primary, status, holds, sequence, applied, walking, owners, failed>>,
           scan' = scan \/ \E tick : scan' = scanned(tick)
    PROVE  Fits'
<1>1. \A r \in Replicas : Done(r)' = Done(r)
  BY DEF Done
<1>2. primary \in Replicas /\ Done(primary)' = Done(primary) /\ Done(primary) \in Nat
  BY DoneKept DEF IInv, Types, Done
<1>3. Rows' /\ StoresFit' /\ Excused'
  <2>1. Rows'
    BY <1>1, RowsStay
  <2>2. Len(log') \in Nat /\ Len(log') <= Len(log)
    BY DEF IInv, Types
  <2>3. StoresFit'
    BY <2>2, StoresStay
  <2>4. Excused'
    BY ExcusedStays
  <2> QED BY <2>1, <2>3, <2>4
<1>4. StoresWait'
  BY <1>2, LineStays
<1>5. Sequenced'
  BY DEF Fits, Sequenced
<1>6. Settled'
  <2>1. CASE scan' = scan
    BY <2>1 DEF Fits, Settled, Current
  <2>2. CASE status = "normal" /\ \E tick : scan' = scanned(tick)
    BY <2>2, FreshScan DEF Settled, Current
  <2>3. CASE status # "normal"
    BY <2>3 DEF Fits, Settled
  <2> QED BY <2>1, <2>2, <2>3
<1>7. Covered'
  <2>1. CASE scan' = scan /\ status = "normal"
    BY <1>2, <2>1, LineStays DEF Fits, Covered, Current
  <2>2. CASE scan' = scan /\ status # "normal"
    BY <2>2 DEF Fits, Covered, Current, Scouts, Installs, Last_op
  <2>3. CASE status = "normal" /\ \E tick : scan' = scanned(tick)
    <3>1. PICK tick : scan' = scanned(tick)
      BY <2>3
    <3>2. Covers(scanned(tick))
      BY <2>3, FreshScan
    <3>3. Covers(scan)'
      BY <1>2, <3>1, <3>2, LineStays
    <3> QED BY <2>3, <3>3 DEF Covered
  <2>4. CASE status # "normal" /\ \E tick : scan' = scanned(tick)
    <3>1. PICK tick : scan' = scanned(tick)
      BY <2>4
    <3>2. ASSUME Current(scan') PROVE Scouts(scan')
      BY <2>4, <3>1, <3>2, ScoutScan
    <3>3. Current(scan)' => Scouts(scan)'
      BY <3>2 DEF Current, Scouts, Installs, Last_op
    <3> QED BY <2>4, <3>3 DEF Covered
  <2> QED BY <2>1, <2>2, <2>3, <2>4
<1> QED BY <1>3, <1>4, <1>5, <1>6, <1>7 DEF Fits

\* A backup journals the next op.
LEMMA ReplicateFits == ASSUME IInv, Fits, NEW r \in Replicas, on_replicate(r) PROVE Fits'
<1>1. /\ status = "normal" /\ r # primary /\ sequence[r] < Len(log) /\ sequence[r] \in Nat
      /\ holds' = [holds EXCEPT ![r] = @ \cup {sequence[r] + 1}]
      /\ sequence' = [sequence EXCEPT ![r] = @ + 1]
      /\ UNCHANGED <<log, primary, status, queue, applied, walking, owners, scan, failed>>
  BY DEF on_replicate, consensus, tables, IInv, Types
<1>2. /\ primary \in Replicas /\ holds \in [Replicas -> SUBSET (1..Len(log))]
      /\ sequence \in [Replicas -> Nat] /\ Len(log) \in Nat
  BY DEF IInv, Types
<1>3. Done(primary)' = Done(primary) /\ Done(primary) \in Nat
      /\ \A q \in Replicas : Done(q)' = Done(q)
  BY <1>1, <1>2, DoneKept DEF Done
<1>4. Rows' /\ StoresFit'
  <2>1. Rows'
    BY <1>1, <1>3, RowsStay
  <2>2. StoresFit'
    BY <1>1, <1>2, StoresStay
  <2> QED BY <2>1, <2>2
<1>5. Excused'
  <2>1. \A q \in Replicas : holds[q] \subseteq holds'[q]
    BY <1>1, <1>2
  <2>2. ASSUME NEW p \in Nat, Kept(holds, p) PROVE Kept(holds', p)
    BY <2>1, <2>2, KeptGrows
  <2> QED BY <1>1, <2>2, ExcusedStays
<1>6. StoresWait'
  BY <1>1, <1>3, LineStays
<1>7. Sequenced'
  <2>1. \A q \in Replicas : holds[q] \subseteq 1..sequence[q]
    BY <1>1 DEF Fits, Sequenced
  <2>2. ASSUME NEW q \in Replicas PROVE holds'[q] \subseteq 1..sequence'[q]
    BY <1>1, <1>2, <2>1
  <2>3. ASSUME NEW q \in Replicas, NEW k \in Nat, 1..k \subseteq holds'[q] PROVE k <= sequence'[q]
    <3>1. sequence'[q] \in Nat /\ 1..k \subseteq 1..sequence'[q]
      BY <1>1, <1>2, <2>2, <2>3
    <3> QED BY <3>1
  <2>4. 1..Len(log') \subseteq holds'[primary']
    BY <1>1, <1>2 DEF Fits, Sequenced
  <2> QED BY <2>2, <2>3, <2>4 DEF Sequenced
<1>8. Settled'
  BY <1>1 DEF Fits, Settled, Current
<1>9. Covered'
  BY <1>1, <1>3, LineStays DEF Fits, Covered, Current
<1> QED BY <1>4, <1>5, <1>6, <1>7, <1>8, <1>9 DEF Fits

\* A repair has the primary scan again; in a view that has started it has no
\* hole left.
LEMMA RepairFits ==
    ASSUME IInv, Fits, NEW r \in Replicas, NEW o \in (1..Len(log)) \ holds[r],
           apply_repaired_prepare(r, o)
    PROVE  Fits'
<1>1. /\ o <= sequence[r] \/ (status = "elect" /\ r = primary)
      /\ holds' = [holds EXCEPT ![r] = @ \cup {o}]
      /\ sequence' = [sequence EXCEPT ![r] = Max({@, Frontier(holds'[r])})]
      /\ scan' = IF r = primary THEN [scan EXCEPT !.needs = TRUE] ELSE scan
      /\ UNCHANGED <<log, primary, status, queue, applied, walking, owners, failed>>
  BY DEF apply_repaired_prepare, consensus, tables
<1>2. /\ primary \in Replicas /\ holds \in [Replicas -> SUBSET (1..Len(log))]
      /\ sequence \in [Replicas -> Nat] /\ Len(log) \in Nat /\ scan \in Scan
  BY DEF IInv, Types
<1>3. Done(primary)' = Done(primary) /\ Done(primary) \in Nat
      /\ \A q \in Replicas : Done(q)' = Done(q)
  BY <1>1, <1>2, DoneKept DEF Done
<1>4. Rows' /\ StoresFit'
  <2>1. Rows'
    BY <1>1, <1>3, RowsStay
  <2>2. StoresFit'
    BY <1>1, <1>2, StoresStay
  <2> QED BY <2>1, <2>2
<1>5. Excused'
  <2>1. \A q \in Replicas : holds[q] \subseteq holds'[q]
    BY <1>1, <1>2
  <2>2. ASSUME NEW p \in Nat, Kept(holds, p) PROVE Kept(holds', p)
    BY <2>1, <2>2, KeptGrows
  <2> QED BY <1>1, <2>2, ExcusedStays
<1>6. StoresWait'
  BY <1>1, <1>3, LineStays
<1>7. ASSUME status = "normal" PROVE r # primary
  BY <1>7 DEF Fits, Sequenced
<1>8. holds'[r] \in SUBSET (1..Len(log)) /\ Frontier(holds'[r]) \in Nat
      /\ Frontier(holds'[r]) + 1 \notin holds'[r]
  <2>1. holds'[r] \in SUBSET (1..Len(log))
    BY <1>1, <1>2
  <2> QED BY <1>2, <2>1, FrontierWithin
<1>9. /\ sequence'[r] \in Nat /\ sequence[r] <= sequence'[r] /\ Frontier(holds'[r]) <= sequence'[r]
      /\ \A q \in Replicas : q # r => sequence'[q] = sequence[q] /\ holds'[q] = holds[q]
  <2>1. PICK a \in Nat, b \in Nat : a = sequence[r] /\ b = Frontier(holds'[r])
    BY <1>2, <1>8
  <2>2. sequence'[r] = Max({a, b})
    BY <1>1, <1>2, <2>1
  <2>3. Max({a, b}) \in Nat /\ a <= Max({a, b}) /\ b <= Max({a, b})
    BY Greater, OneOfTwo
  <2> QED BY <1>1, <1>2, <2>1, <2>2, <2>3
<1>10. Sequenced'
  <2>1. ASSUME NEW q \in Replicas, NEW k \in Nat, 1..k \subseteq holds'[q] PROVE k <= sequence'[q]
    <3>1. CASE q # r
      BY <1>9, <2>1, <3>1 DEF Fits, Sequenced
    <3>2. CASE q = r
      <4>1. ~(Frontier(holds'[r]) < k)
        <5> SUFFICES ASSUME Frontier(holds'[r]) + 1 \in 1..k PROVE FALSE
          BY <1>8
        <5> QED BY <1>8, <2>1, <3>2
      <4> QED BY <1>8, <1>9, <3>2, <4>1
    <3> QED BY <3>1, <3>2
  <2>2. ASSUME status = "normal", NEW q \in Replicas PROVE holds'[q] \subseteq 1..sequence'[q]
    <3>1. holds[q] \subseteq 1..sequence[q] /\ sequence[q] \in Nat /\ o \in Nat /\ 1 <= o
      BY <1>2, <2>2 DEF Fits, Sequenced
    <3>2. CASE q # r
      BY <1>9, <3>1, <3>2
    <3>3. CASE q = r
      <4>1. holds'[q] = holds[q] \cup {o} /\ o <= sequence[q]
        BY <1>1, <1>2, <2>2, <3>3
      <4> QED BY <1>9, <3>1, <3>3, <4>1
    <3> QED BY <3>2, <3>3
  <2>3. ASSUME status = "normal" PROVE 1..Len(log') \subseteq holds'[primary']
    BY <1>1, <1>7, <1>9, <2>3, <1>2 DEF Fits, Sequenced
  <2> QED BY <1>1, <2>1, <2>2, <2>3 DEF Sequenced
<1>11. r = primary => scan'.needs
  BY <1>1, <1>2 DEF Scan
<1>12. Settled'
  <2>1. CASE r = primary
    <3>1. status # "normal" /\ queue = <<>>
      BY <1>7, <2>1 DEF Fits, Settled
    <3> QED BY <1>1, <3>1 DEF Settled
  <2>2. CASE r # primary
    BY <1>1, <2>2 DEF Fits, Settled, Current
  <2> QED BY <2>1, <2>2
<1>13. Covered'
  <2>1. CASE r = primary
    BY <1>11, <2>1 DEF Covered, Current
  <2>2. CASE r # primary /\ status = "normal"
    BY <1>1, <1>3, <2>2, LineStays DEF Fits, Covered, Current
  <2>3. CASE r # primary /\ status # "normal"
    <3>1. holds'[primary] = holds[primary] /\ sequence'[primary] = sequence[primary]
      BY <1>2, <1>9, <2>3
    <3> QED BY <1>1, <2>3, <3>1 DEF Fits, Covered, Current, Scouts, Installs, Last_op
  <2> QED BY <2>1, <2>2, <2>3
<1> QED BY <1>4, <1>5, <1>6, <1>10, <1>12, <1>13 DEF Fits

\* A replica applies an op.  A store meets the owner it carries, unless copies
\* of an install stand before it.
LEMMA ApplyFits == ASSUME IInv, Fits, NEW r \in Replicas, commit_journal(r) PROVE Fits'
<1> DEFINE p == applied[r]
           o == log[p + 1]
<1>1. /\ (r = primary => ~walking) /\ ~failed /\ p < commit /\ p + 1 \in holds[r]
      /\ walking' = (walking \/ r = primary)
      /\ applied' = IF r = primary THEN applied ELSE [applied EXCEPT ![r] = @ + 1]
      /\ \/ /\ o.kind = "install" /\ failed' = failed
            /\ owners' = [owners EXCEPT ![r][o.group] = Max({@, o.generation})]
         \/ /\ o.kind # "install" /\ failed' = (owners[r][o.group] # o.generation)
            /\ owners' = owners
      /\ scan' = IF r = primary THEN scanned(FALSE) ELSE scan
      /\ UNCHANGED <<log, commit, primary, status, queue, holds, sequence>>
  BY DEF commit_journal, committed_held, consensus, journals
<1>2. /\ applied \in [Replicas -> Nat] /\ commit \in Nat /\ primary \in Replicas
      /\ walking \in BOOLEAN /\ owners \in [Replicas -> [Groups -> Nat]]
      /\ holds \in [Replicas -> SUBSET (1..Len(log))] /\ Len(log) \in Nat
      /\ log \in Seq(Operation)
  BY DEF IInv, Types
<1>3. p \in Nat /\ p + 1 \in 1..Len(log) /\ p \in 0..Len(log) /\ p + 1 \in 0..Len(log)
  BY <1>1, <1>2
<1>4. o \in Operation
  BY <1>2, <1>3
<1>5. o.kind \in {"install", "store"} /\ o.group \in Groups /\ o.generation \in Nat
  BY <1>4 DEF Operation
<1>6. Done(r) = p /\ Done(r)' = p + 1 /\ \A q \in Replicas \ {r} : Done(q)' = Done(q)
  BY <1>1, <1>2 DEF Done
<1>7. Done(primary)' \in Nat /\ Done(primary) <= Done(primary)'
      /\ applied'[primary] = applied[primary]
  <2>1. Done(primary) \in Nat
    BY <1>2, DoneKept
  <2>2. CASE r = primary
    BY <1>1, <1>2, <1>3, <2>2 DEF Done
  <2>3. CASE r # primary
    BY <1>1, <1>2, <2>1, <2>3 DEF Done
  <2> QED BY <2>2, <2>3
<1> HIDE DEF o, p
<1>8. ASSUME NEW g \in Groups, o.kind # "install" \/ o.group # g
      PROVE  Installed(log, g, p + 1) = Installed(log, g, p)
  <2>1. \A j \in (p + 1)..(p + 1) : ~(log[j].kind = "install" /\ log[j].group = g)
    BY <1>3, <1>8 DEF o
  <2> QED BY <1>3, <2>1, NoneBetween
<1>9. \A g \in Groups : Latest(owners[r][g], Installed(log, g, p))
  BY <1>6 DEF Fits, Rows
<1>10. Rows'
  <2> SUFFICES ASSUME NEW q \in Replicas, NEW g \in Groups
               PROVE  Latest(owners'[q][g], Installed(log, g, Done(q)'))
    BY <1>1 DEF Rows, Latest, Installed, First
  <2>1. CASE q # r
    <3>1. owners'[q] = owners[q] /\ Done(q)' = Done(q)
      BY <1>1, <1>2, <1>6, <2>1
    <3> QED BY <3>1 DEF Fits, Rows
  <2>2. CASE q = r /\ (o.kind # "install" \/ o.group # g)
    <3>1. owners'[r][g] = owners[r][g]
      BY <1>1, <1>2, <1>5, <2>2
    <3> QED BY <1>6, <1>8, <1>9, <2>2, <3>1
  <2>3. CASE q = r /\ o.kind = "install" /\ o.group = g
    <3>1. owners'[r][g] = Max({owners[r][g], o.generation})
      BY <1>1, <1>2, <1>5, <2>3
    <3>2. Installed(log, g, p) \subseteq Nat
      BY <1>3, InstalledNat
    <3>3. Latest(Max({owners[r][g], log[p + 1].generation}), Installed(log, g, p + 1))
      BY <1>3, <1>5, <1>9, <2>3, <3>2, InstallAdds DEF o
    <3> QED BY <1>6, <2>3, <3>1, <3>3 DEF o
  <2> QED BY <2>1, <2>2, <2>3
<1>11. StoresFit'
  BY <1>1, <1>2, StoresStay
<1>12. Excused'
  <2> SUFFICES ASSUME failed' PROVE \E x \in Nat : Kept(holds, x) /\ ~Once(log, x)
    BY <1>1 DEF Excused, Kept, Commits, Once
  <2>1. o.kind = "store" /\ owners[r][o.group] # o.generation
    BY <1>1, <1>5
  <2>2. Kept(holds, p + 1)
    <3>1. p + 1 \in Nat /\ p + 1 <= commit
      BY <1>1, <1>2, <1>3
    <3> QED BY <1>2, <3>1, KeptGrows DEF IInv, Safe
  <2>3. ASSUME Once(log, p + 1) PROVE FALSE
    <3>1. Latest(o.generation, Installed(log, o.group, p + 1))
      BY <1>3, <2>1, <2>3 DEF Fits, StoresFit, o
    <3>2. Latest(o.generation, Installed(log, o.group, p))
      BY <1>5, <1>8, <2>1, <3>1
    <3>3. Installed(log, o.group, p) \in SUBSET Nat
      BY <1>3, InstalledNat
    <3> QED BY <1>5, <1>9, <2>1, <3>2, <3>3, OneLatest
  <2>4. p + 1 \in Nat
    BY <1>3
  <2> QED BY <2>2, <2>3, <2>4
<1>13. StoresWait'
  BY <1>1, <1>7, LineStays
<1>14. Sequenced'
  BY <1>1 DEF Fits, Sequenced
<1>15. Settled'
  <2>1. CASE scan' = scan
    BY <1>1, <2>1 DEF Fits, Settled, Current
  <2>2. CASE status = "normal" /\ scan' = scanned(FALSE)
    BY <1>1, <2>2, FreshScan DEF Settled, Current
  <2>3. CASE status # "normal"
    BY <1>1, <2>3 DEF Fits, Settled
  <2> QED BY <1>1, <2>1, <2>2, <2>3
<1>16. Covered'
  <2>1. CASE status = "normal" /\ Current(scan')
    <3>1. Covers(scan')
      BY <1>1, <2>1, FreshScan DEF Fits, Covered
    <3>2. Covers(scan)'
      BY <1>1, <1>7, <3>1, LineStays
    <3> QED BY <1>1, <2>1, <3>2 DEF Covered
  <2>2. CASE status # "normal" /\ Current(scan')
    <3>1. Scouts(scan')
      BY <1>1, <2>2, ScoutScan DEF Fits, Covered
    <3>2. Scouts(scan)'
      BY <1>1, <1>7, <3>1 DEF Scouts, Installs, Last_op
    <3> QED BY <1>1, <2>2, <3>2 DEF Covered
  <2>3. CASE ~Current(scan')
    BY <2>3 DEF Covered, Current
  <2> QED BY <2>1, <2>2, <2>3
<1> QED BY <1>10, <1>11, <1>12, <1>13, <1>14, <1>15, <1>16 DEF Fits

\* Publishing an install releases the latch that names it; without copies it
\* names no other.
LEMMA PublishFits == ASSUME IInv, Fits, publish_pending_commit PROVE Fits'
<1> DEFINE k == applied[primary] + 1
<1>1. /\ walking /\ walking' = FALSE
      /\ applied' = [applied EXCEPT ![primary] = @ + 1]
      /\ scan' = IF Names(k) THEN [scan EXCEPT !.latch = None] ELSE scan
      /\ UNCHANGED <<log, commit, primary, status, queue, holds, sequence, owners, failed>>
  BY DEF publish_pending_commit, consensus, journals, released
<1>2. /\ applied \in [Replicas -> Nat] /\ primary \in Replicas /\ scan \in Scan
      /\ Len(log) \in Nat /\ log \in Seq(Operation) /\ queue \in Seq(Operation)
  BY DEF IInv, Types
<1>3. /\ \A q \in Replicas : Done(q)' = Done(q)
      /\ Done(primary) = k /\ Done(primary)' = k /\ k \in Nat /\ k \in 1..Len(log)
  <2>1. Done(primary) = k /\ k \in Nat /\ k <= Len(log)
    BY <1>1, <1>2, DoneKept DEF Done
  <2>2. \A q \in Replicas : Done(q)' = Done(q)
    BY <1>1, <1>2 DEF Done
  <2>3. Done(primary)' = k
    BY <1>1, <1>2 DEF Done
  <2> QED BY <1>2, <2>1, <2>2, <2>3
<1> HIDE DEF k
<1>4. /\ scan'.barrier = scan.barrier /\ scan'.uncertain = scan.uncertain
      /\ scan'.observed = scan.observed /\ scan'.truncated = scan.truncated
      /\ scan'.needs = scan.needs
      /\ scan'.latch = IF Names(k) THEN None ELSE scan.latch
  BY <1>1, <1>2 DEF Scan
<1>5. Rows' /\ StoresFit' /\ Excused'
  <2>1. Rows'
    BY <1>1, <1>3, RowsStay
  <2>2. StoresFit'
    BY <1>1, <1>2, StoresStay
  <2>3. Excused'
    BY <1>1, ExcusedStays
  <2> QED BY <2>1, <2>2, <2>3
<1>6. StoresWait'
  BY <1>1, <1>3, LineStays
<1>7. Sequenced'
  BY <1>1 DEF Fits, Sequenced
<1>8. Settled'
  BY <1>1, <1>4 DEF Fits, Settled, Current
<1>9. Covered'
  <2>1. CASE status = "normal" /\ Current(scan)
    <3>1. Covers(scan)
      BY <2>1 DEF Fits, Covered
    <3>2. CASE ~Names(k)
      BY <1>1, <1>3, <1>4, <2>1, <3>1, <3>2, LineStays DEF Covered
    <3>3. CASE Names(k)
      <4>1. SUFFICES ASSUME Once(Line, Len(Line)), NEW j \in (k + 1)..Len(Line),
                            Line[j].kind = "install"
                     PROVE  j <= Len(log) /\ j <= scan.barrier
        <5>1. Line' = Line
          BY <1>1 DEF Line
        <5> QED BY <1>1, <1>3, <1>4, <2>1, <5>1 DEF Covered, Covers, Once
      <4>2. (j <= Len(log) /\ j <= scan.barrier) \/ scan.latch = Installation(Line[j])
        BY <1>3, <3>1, <4>1 DEF Covers
      <4>3. ASSUME scan.latch = Installation(Line[j]) PROVE FALSE
        <5>1. log[k].kind = "install" /\ Installation(log[k]) = Installation(Line[j])
          BY <3>3, <4>3 DEF Names
        <5>2. Line[k] = log[k] /\ Line \in Seq(Operation) /\ Len(Line) \in Nat
              /\ Len(log) <= Len(Line)
          BY <1>3, LineIs
        <5>3. k \in 1..Len(Line) /\ j \in 1..Len(Line) /\ k # j
          BY <1>3, <5>2
        <5>4. Line[k] \in Operation /\ Line[j] \in Operation
          BY <5>2, <5>3
        <5>5. Line[k] = Line[j]
          <6>1. Installing(Installation(Line[k])) = Line[k]
                /\ Installing(Installation(Line[j])) = Line[j]
            BY <4>1, <5>1, <5>2, <5>4, InstallingBack
          <6> QED BY <5>1, <5>2, <6>1
        <5> QED BY <4>1, <5>3, <5>5 DEF Once
      <4> QED BY <4>2, <4>3
    <3> QED BY <3>2, <3>3
  <2>2. CASE status # "normal" /\ Current(scan)
    <3>1. Scouts(scan)
      BY <2>2 DEF Fits, Covered
    <3>2. Installs' \subseteq Installs /\ Last_op' = Last_op
      BY <1>1, <1>2 DEF Installs, Last_op, IInv, Types
    <3>3. Scouts(scan)'
      BY <1>4, <3>1, <3>2 DEF Scouts
    <3> QED BY <1>1, <2>2, <3>3 DEF Covered
  <2>3. CASE ~Current(scan)
    BY <1>4, <2>3 DEF Covered, Current
  <2> QED BY <2>1, <2>2, <2>3
<1> QED BY <1>5, <1>6, <1>7, <1>8, <1>9 DEF Fits

\* The queue goes and the scan starts over.
LEMMA ViewChangeFits ==
    ASSUME IInv, IInv', Fits, NEW np \in Replicas, start_view_change(np) PROVE Fits'
<1>1. /\ primary' = np /\ queue' = <<>> /\ scan' = Unscanned /\ status' = "view_change"
      /\ walking' = (walking /\ np = primary)
      /\ applied' = IF walking /\ np # primary THEN [applied EXCEPT ![primary] = @ + 1]
                    ELSE applied
      /\ UNCHANGED <<log, holds, sequence, owners, failed>>
  BY DEF start_view_change, journals
<1>2. applied \in [Replicas -> Nat] /\ primary \in Replicas /\ walking \in BOOLEAN
      /\ Len(log) \in Nat /\ log \in Seq(Operation)
  BY DEF IInv, Types
<1>3. \A q \in Replicas : Done(q)' = Done(q)
  <2> TAKE q \in Replicas
  <2>1. CASE walking /\ np # primary
    BY <1>1, <1>2, <2>1 DEF Done
  <2>2. CASE ~(walking /\ np # primary)
    BY <1>1, <1>2, <2>2 DEF Done
  <2> QED BY <2>1, <2>2
<1>4. Rows' /\ StoresFit' /\ Excused'
  <2>1. Rows'
    BY <1>1, <1>3, RowsStay
  <2>2. StoresFit'
    BY <1>1, <1>2, StoresStay
  <2>3. Excused'
    BY <1>1, ExcusedStays
  <2> QED BY <2>1, <2>2, <2>3
<1>5. StoresWait'
  <2>1. Len(Line') = Len(log') /\ Len(log') \in Nat
    BY <1>1, <1>2 DEF Line
  <2> QED BY <2>1 DEF StoresWait
<1>6. Sequenced'
  BY <1>1 DEF Fits, Sequenced
<1>7. ~scan'.observed
  BY <1>1 DEF Unscanned
<1> QED BY <1>1, <1>4, <1>5, <1>6, <1>7 DEF Fits, Settled, Covered, Current

\* The merge cuts nothing that was applied, and marks the scan unless the cut
\* left the journal of the primary alone.
LEMMA MergeFits ==
    ASSUME IInv, IInv', Fits, NEW Q \in SUBSET Replicas, NEW head \in 0..Len(log),
           complete_view_change_as_primary(Q, head)
    PROVE  Fits'
<1> DEFINE cut == [r \in Replicas |-> holds[r] \cap 1..head]
<1>1. /\ status = "view_change" /\ status' = "elect"
      /\ DeniesOp({r \in Q : head + 1 \notin holds[r]})
      /\ log' = SubSeq(log, 1, head) /\ holds' = cut
      /\ sequence' = [r \in Replicas |-> Min({sequence[r], head})]
      /\ scan' = IF holds'[primary] = holds[primary] THEN scan
                 ELSE [scan EXCEPT !.truncated = TRUE, !.needs = TRUE]
      /\ UNCHANGED <<primary, queue, applied, walking, owners, failed>>
  BY DEF complete_view_change_as_primary, tables
<1>2. /\ holds \in [Replicas -> SUBSET (1..Len(log))] /\ Len(log) \in Nat /\ primary \in Replicas
      /\ log \in Seq(Operation) /\ sequence \in [Replicas -> Nat] /\ scan \in Scan
  BY DEF IInv, Types
<1>3. ASSUME NEW k \in Nat, Kept(holds, k) PROVE k <= head /\ Kept(cut, k)
  BY <1>1, <1>2, <1>3, KeptSurvives
<1>4. Len(log') = head /\ head \in Nat /\ \A i \in 1..head : log'[i] = log[i]
  BY <1>1, <1>2
<1>5. Rows' /\ StoresFit' /\ Excused'
  <2>1. \A q \in Replicas : Done(q)' = Done(q) /\ \A i \in 1..Done(q) : log'[i] = log[i]
    <3> TAKE q \in Replicas
    <3>1. Done(q) \in Nat /\ Done(q) <= head
      BY <1>3, DoneKept
    <3>2. Done(q)' = Done(q)
      BY <1>1 DEF Done
    <3> QED BY <1>4, <3>1, <3>2
  <2>2. Rows'
    BY <1>1, <2>1, RowsStay
  <2>3. StoresFit'
    BY <1>4, StoresStay
  <2>4. \A p \in Nat : Kept(holds, p) => Kept(holds', p) /\ \A i \in 1..p : log'[i] = log[i]
    <3> SUFFICES ASSUME NEW p \in Nat, Kept(holds, p)
                 PROVE  Kept(holds', p) /\ \A i \in 1..p : log'[i] = log[i]
      OBVIOUS
    <3>1. p <= head /\ Kept(cut, p)
      BY <1>3
    <3> QED BY <1>1, <1>4, <3>1
  <2>5. Excused'
    BY <1>1, <2>4, ExcusedStays
  <2> QED BY <2>2, <2>3, <2>5
<1>6. queue = <<>> /\ Len(Line') = Len(log')
  BY <1>1, <1>4 DEF Fits, Settled, Line
<1>7. StoresWait'
  BY <1>4, <1>6 DEF StoresWait
<1>8. \A r \in Replicas : Min({sequence[r], head}) \in {sequence[r], head}
         /\ Min({sequence[r], head}) <= sequence[r] /\ Min({sequence[r], head}) <= head
  <2> TAKE r \in Replicas
  <2>1. sequence[r] \in Nat /\ head \in Nat
    BY <1>2
  <2> QED BY <2>1, Lesser
<1>9. Sequenced'
  <2> SUFFICES ASSUME NEW r \in Replicas, NEW k \in Nat, 1..k \subseteq holds'[r]
               PROVE  k <= sequence'[r]
    BY <1>1 DEF Sequenced
  <2>1. 1..k \subseteq holds[r] /\ 1..k \subseteq 1..head
    BY <1>1
  <2>2. k <= sequence[r] /\ k <= head
    <3>1. k <= sequence[r]
      BY <1>2, <2>1 DEF Fits, Sequenced
    <3>2. k <= head
      BY <1>4, <2>1
    <3> QED BY <3>1, <3>2
  <2>3. PICK m : m = Min({sequence[r], head})
    OBVIOUS
  <2>4. m \in {sequence[r], head} /\ sequence'[r] = m
    BY <1>1, <1>8, <2>3
  <2> QED BY <2>2, <2>4
<1>10. Settled'
  BY <1>1, <1>6 DEF Settled
<1>11. Covered'
  <2>1. SUFFICES ASSUME Current(scan') PROVE Scouts(scan)'
    BY <1>1 DEF Covered, Current
  <2>2. holds'[primary] = holds[primary] /\ scan' = scan
    BY <1>1, <1>2, <2>1 DEF Current, Scan
  <2>3. Scouts(scan)
    BY <1>1, <2>1, <2>2 DEF Fits, Covered
  <2>4. holds[primary] \subseteq 1..head
    BY <1>1, <1>2, <2>2
  <2>5. Installs' = Installs
    BY <1>1, <1>4, <2>2, <2>4 DEF Installs
  <2> DEFINE top == Max(holds[primary] \cup {0})
  <2>6. top \in Nat
    <3>1. PICK S : S = holds[primary] \cup {0}
      OBVIOUS
    <3>2. S \in SUBSET (0..Len(log)) /\ 0 \in S
      BY <1>2, <3>1
    <3>3. Max(S) \in S
      BY <1>2, <3>2, MaxAbove
    <3> QED BY <1>2, <3>1, <3>2, <3>3
  <2>7. Last_op = Min({sequence[primary], top})
    BY DEF Last_op
  <2>8. Last_op' = Min({Min({sequence[primary], head}), top})
    BY <1>1, <1>2, <2>2 DEF Last_op
  <2> HIDE DEF top
  <2>9. ASSUME NEW o \in Nat, o <= Last_op' PROVE o <= Last_op
    <3>1. PICK m : m = Min({sequence[primary], head})
      OBVIOUS
    <3>2. m \in Nat /\ m <= sequence[primary] /\ sequence[primary] \in Nat
      BY <1>2, <1>4, <1>8, <3>1
    <3>3. Min({m, top}) \in {m, top} /\ Min({m, top}) <= m /\ Min({m, top}) <= top
      BY <2>6, <3>2, Lesser
    <3>4. PICK x, y : x = Min({m, top}) /\ y = Min({sequence[primary], top})
      OBVIOUS
    <3>5. y \in {sequence[primary], top}
      BY <2>6, <3>2, <3>4, Lesser
    <3>6. o <= x /\ x \in {m, top} /\ x <= m /\ x <= top
      BY <2>8, <2>9, <3>1, <3>3, <3>4
    <3>7. o <= sequence[primary] /\ o <= top
      BY <2>6, <3>2, <3>6
    <3> QED BY <2>7, <3>4, <3>5, <3>7
  <2>10. ASSUME NEW o \in Installs, o <= Last_op' PROVE o <= scan.barrier
    <3>1. o \in Nat
      BY <1>2 DEF Installs
    <3> QED BY <2>3, <2>9, <2>10, <3>1 DEF Scouts
  <2> QED BY <2>2, <2>5, <2>10 DEF Scouts
<1> QED BY <1>5, <1>7, <1>9, <1>10, <1>11 DEF Fits

\* The elect holds the whole log when its view starts, and knows it: it scans on
\* the tick that starts the view, or at the next handler.
LEMMA StartFits ==
    ASSUME IInv, IInv', Fits, NEW tick, start_pending_view(tick), tick \/ scan.truncated,
           tick \in BOOLEAN
    PROVE  Fits'
<1>1. /\ status = "elect" /\ status' = "normal" /\ 1..Len(log) \subseteq holds[primary]
      /\ sequence' = [r \in Replicas |-> Len(log)]
      /\ scan' = IF tick /\ scan.uncertain THEN rescanned(Len(log)) ELSE scan
      /\ UNCHANGED <<log, primary, queue, holds, applied, walking, owners, failed>>
  BY DEF start_pending_view, tables, repeated
<1>2. /\ holds \in [Replicas -> SUBSET (1..Len(log))] /\ Len(log) \in Nat /\ primary \in Replicas
      /\ queue = <<>> /\ Last_op = Len(log)
  BY <1>1, WholeLog DEF IInv, Types, Fits, Settled
<1>3. \A r \in Replicas : Done(r)' = Done(r)
  BY <1>1 DEF Done
<1>4. Rows' /\ StoresFit' /\ Excused'
  <2>1. Rows'
    BY <1>1, <1>3, RowsStay
  <2>2. StoresFit'
    BY <1>1, <1>2, StoresStay
  <2>3. Excused'
    BY <1>1, ExcusedStays
  <2> QED BY <2>1, <2>2, <2>3
<1>5. Line' = Line /\ Len(Line) = Len(log) /\ \A j \in 1..Len(log) : Line[j] = log[j]
  <2>1. Len(queue) = 0
    BY <1>2
  <2> QED BY <1>1, <1>2, <2>1, LineIs DEF Line
<1>6. StoresWait'
  BY <1>1, <1>2, <1>5 DEF StoresWait
<1>7. Sequenced'
  <2>1. ASSUME NEW r \in Replicas PROVE holds'[r] \subseteq 1..sequence'[r]
    BY <1>1, <1>2
  <2>2. ASSUME NEW r \in Replicas, NEW k \in Nat, 1..k \subseteq holds'[r] PROVE k <= sequence'[r]
    <3>1. 1..k \subseteq 1..Len(log) /\ sequence'[r] = Len(log)
      BY <1>1, <1>2, <2>2
    <3> QED BY <1>2, <3>1
  <2> QED BY <1>1, <2>1, <2>2 DEF Sequenced
<1>8. Settled'
  <2>1. CASE tick /\ scan.uncertain
    BY <1>1, <1>2, <2>1, RescanCovers DEF Settled
  <2>2. CASE ~(tick /\ scan.uncertain)
    BY <1>1, <1>2, <2>2 DEF Settled
  <2> QED BY <2>1, <2>2
<1>9. Covered'
  <2>1. SUFFICES ASSUME Current(scan') PROVE Covers(scan)'
    BY <1>1 DEF Covered, Current
  <2>2. Scouts(scan')
    <3>1. CASE tick /\ scan.uncertain
      BY <1>1, <1>2, <3>1, RescanCovers DEF Scouts
    <3>2. CASE ~(tick /\ scan.uncertain)
      BY <1>1, <2>1, <3>2 DEF Fits, Covered
    <3> QED BY <3>1, <3>2
  <2>3. SUFFICES ASSUME NEW j \in (Done(primary) + 1)..Len(log), log[j].kind = "install"
                 PROVE  j <= scan'.barrier
    <3>1. \A j \in (Done(primary) + 1)..Len(log) : j \in 1..Len(log)
      BY <1>2, DoneKept
    <3> QED BY <1>1, <1>2, <1>3, <1>5, <3>1 DEF Covers
  <2>4. j \in 1..Len(log) /\ applied[primary] < j
    BY <1>2, DoneKept DEF IInv, Types
  <2>5. j \in Installs /\ j <= Last_op
    BY <1>1, <1>2, <2>3, <2>4 DEF Installs
  <2> QED BY <2>2, <2>5 DEF Scouts
<1> QED BY <1>4, <1>6, <1>7, <1>8, <1>9 DEF Fits

\* A store joins a log in which no unapplied install of its group stands before
\* it, and carries the owner that the primary holds.
LEMMA AppendFits ==
    ASSUME IInv, Fits, NEW o \in Operation, log' = Append(log, o),
           o.kind = "store" /\ Once(log', Len(log) + 1) =>
              /\ o.generation = owners[primary][o.group]
              /\ \A j \in (Done(primary) + 1)..Len(log) :
                    ~(log[j].kind = "install" /\ log[j].group = o.group)
    PROVE  StoresFit'
<1> DEFINE n == Len(log) + 1
           d == Done(primary)
<1>1. /\ log \in Seq(Operation) /\ Len(log) \in Nat /\ n \in Nat /\ primary \in Replicas
      /\ o.group \in Groups
  BY DEF IInv, Types, Operation
<1>2. Len(log') = n /\ log'[n] = o /\ \A i \in 1..Len(log) : log'[i] = log[i]
  BY <1>1
<1>3. d \in Nat /\ d <= Len(log)
  BY <1>1, DoneKept
<1> HIDE DEF d
<1>4. ASSUME NEW p \in 1..n, log'[p].kind = "store", Once(log', p)
      PROVE  Latest(log'[p].generation, Installed(log', log'[p].group, p))
  <2>1. CASE p \in 1..Len(log)
    <3>1. p \in Nat /\ (\A i \in 1..p : log'[i] = log[i]) /\ log'[p] = log[p]
      BY <1>1, <1>2, <2>1
    <3>2. (Once(log', p) <=> Once(log, p))
          /\ \A g : Installed(log', g, p) = Installed(log, g, p)
      BY <3>1, SamePrefix
    <3>3. Latest(log[p].generation, Installed(log, log[p].group, p))
      BY <1>4, <2>1, <3>1, <3>2 DEF Fits, StoresFit
    <3> QED BY <3>1, <3>2, <3>3
  <2>2. CASE p = n
    <3>1. o.kind = "store" /\ log'[p] = o /\ Once(log', n)
      BY <1>2, <1>4, <2>2
    <3>2. o.generation = owners[primary][o.group]
          /\ \A j \in (d + 1)..Len(log) : ~(log[j].kind = "install" /\ log[j].group = o.group)
      BY <3>1 DEF d
    <3>3. ASSUME NEW j \in (d + 1)..n PROVE ~(log'[j].kind = "install" /\ log'[j].group = o.group)
      <4>1. CASE j = n
        BY <1>2, <3>1, <4>1
      <4>2. CASE j # n
        <5>1. j \in (d + 1)..Len(log) /\ log'[j] = log[j]
          BY <1>1, <1>2, <1>3, <4>2
        <5> QED BY <3>2, <5>1
      <4> QED BY <4>1, <4>2
    <3>4. Installed(log', o.group, n) = Installed(log', o.group, d)
      <4>1. d <= n
        BY <1>1, <1>3
      <4> HIDE DEF n
      <4> QED BY <1>1, <1>3, <3>3, <4>1, NoneBetween
    <3>5. Installed(log', o.group, d) = Installed(log, o.group, d)
      <4>1. \A i \in 1..d : log'[i] = log[i]
        BY <1>1, <1>2, <1>3
      <4> QED BY <1>3, <4>1, SamePrefix
    <3>6. Latest(owners[primary][o.group], Installed(log, o.group, d))
      BY <1>1 DEF Fits, Rows, d
    <3> QED BY <2>2, <3>1, <3>2, <3>4, <3>5, <3>6
  <2> QED BY <1>1, <2>1, <2>2
<1> QED BY <1>2, <1>4 DEF StoresFit, Latest, Installed, First, Once

\* What a prepare leaves as it is.
LEMMA PreparedFits ==
    ASSUME IInv, Fits, status = "normal", NEW o \in Operation, Prepared(o),
           UNCHANGED <<applied, walking, owners, failed>>
    PROVE  Rows' /\ Sequenced' /\ Excused'
<1>1. /\ log \in Seq(Operation) /\ Len(log) \in Nat /\ primary \in Replicas
      /\ holds \in [Replicas -> SUBSET (1..Len(log))] /\ sequence \in [Replicas -> Nat]
      /\ log' = Append(log, o)
      /\ holds' = [holds EXCEPT ![primary] = @ \cup {Len(log) + 1}]
      /\ sequence' = [sequence EXCEPT ![primary] = Len(log) + 1]
      /\ primary' = primary /\ status' = status
  BY DEF IInv, Types, Prepared
<1>2. Len(log') = Len(log) + 1 /\ \A i \in 1..Len(log) : log'[i] = log[i]
  BY <1>1
<1>3. Rows'
  <2>1. \A r \in Replicas : Done(r)' = Done(r) /\ \A i \in 1..Done(r) : log'[i] = log[i]
    <3> TAKE r \in Replicas
    <3>1. Done(r) \in Nat /\ Done(r) <= Len(log)
      BY DoneKept
    <3>2. Done(r)' = Done(r)
      BY <1>1 DEF Done
    <3> QED BY <1>1, <1>2, <3>1, <3>2
  <2> QED BY <2>1, RowsStay
<1>4. Sequenced'
  <2>1. (\A r \in Replicas : holds[r] \subseteq 1..sequence[r]) /\ 1..Len(log) \subseteq holds[primary]
    BY DEF Fits, Sequenced
  <2>2. ASSUME NEW r \in Replicas PROVE holds'[r] \subseteq 1..sequence'[r]
    BY <1>1, <2>1
  <2>3. ASSUME NEW r \in Replicas, NEW k \in Nat, 1..k \subseteq holds'[r] PROVE k <= sequence'[r]
    <3>1. sequence'[r] \in Nat /\ 1..k \subseteq 1..sequence'[r]
      BY <1>1, <2>2, <2>3
    <3> QED BY <3>1
  <2>4. 1..Len(log') \subseteq holds'[primary']
    BY <1>1, <1>2, <2>1
  <2> QED BY <2>2, <2>3, <2>4 DEF Sequenced
<1>5. Excused'
  <2>1. \A q \in Replicas : holds[q] \subseteq holds'[q]
    BY <1>1
  <2>2. ASSUME NEW p \in Nat, Kept(holds, p)
        PROVE  Kept(holds', p) /\ \A i \in 1..p : log'[i] = log[i]
    <3>1. Kept(holds', p)
      BY <2>1, <2>2, KeptGrows
    <3>2. p <= Len(log)
      BY <1>1, <2>2, KeptWithin
    <3> QED BY <1>1, <1>2, <3>1, <3>2
  <2> QED BY <2>2, ExcusedStays
<1> QED BY <1>3, <1>4, <1>5

\* A request joins the line.  An install finds no other uncovered; a store finds
\* no unapplied install of its group.
LEMMA AdmitFits ==
    ASSUME IInv, IInv', Fits, status = "normal", NEW o \in Operation, Admit(o, scanned(FALSE)),
           o.kind = "install" => scanned(FALSE).latch = None,
           o.kind = "store" => /\ ~install_pending(o.group, scanned(FALSE))
                               /\ o.generation = owners[primary][o.group]
    PROVE  Fits'
<1> DEFINE s == scanned(FALSE)
           d == Done(primary)
           n == Len(Line) + 1
<1>1. /\ scan' = IF o.kind = "install" THEN [s EXCEPT !.latch = Installation(o)] ELSE s
      /\ UNCHANGED <<applied, walking, owners, failed>>
      /\ \/ /\ queue' = Append(queue, o)
            /\ UNCHANGED <<log, commit, primary, status, holds, sequence>>
         \/ Prepared(o) /\ queue = <<>> /\ queue' = <<>>
  BY DEF Admit, tables, consensus, journals
<1>2. s \in Scan /\ Current(s) /\ ~s.uncertain /\ Covers(s)
  BY ScannedHolds, FreshScan
<1>3. /\ o.kind = "store" => s.latch.group # o.group /\ ~(applied[primary] < s.barrier)
      /\ o.kind = "install" => s.latch = None
  BY DEF install_pending
<1> HIDE DEF s
<1>4. /\ log \in Seq(Operation) /\ queue \in Seq(Operation) /\ primary \in Replicas
      /\ applied[primary] \in Nat /\ o.kind \in {"install", "store"} /\ s.barrier \in Nat
  BY <1>2 DEF IInv, Types, Operation, Scan
<1>5. /\ Line \in Seq(Operation) /\ Len(Line) = Len(log) + Len(queue) /\ Len(log) \in Nat
      /\ Len(queue) \in Nat /\ Len(Line) \in Nat /\ n \in Nat
      /\ \A j \in 1..Len(log) : Line[j] = log[j]
      /\ \A i \in 1..Len(queue) : Line[Len(log) + i] = queue[i]
  BY LineIs
<1>6. d \in Nat /\ applied[primary] <= d /\ d <= Len(log) /\ Done(primary)' = d
  BY <1>1, <1>4, DoneKept DEF Done, Prepared
<1>7. /\ primary' = primary /\ status' = status
      /\ Len(Line') = n /\ Line'[n] = o /\ \A j \in 1..Len(Line) : Line'[j] = Line[j]
      /\ Len(log') = Len(log) \/ (Len(log') = n /\ log' = Append(log, o) /\ Line' = log')
      /\ Len(log) <= Len(log') /\ Len(log') \in Nat
  <2>1. CASE queue' = Append(queue, o) /\ UNCHANGED <<log, primary, status>>
    <3>1. Line' = log \o Append(queue, o) /\ Line = log \o queue
      BY <2>1 DEF Line
    <3>2. /\ Len(log \o Append(queue, o)) = n /\ (log \o Append(queue, o))[n] = o
          /\ \A j \in 1..Len(Line) : (log \o Append(queue, o))[j] = (log \o queue)[j]
      BY <1>4, <1>5
    <3> QED BY <1>5, <2>1, <3>1, <3>2
  <2>2. CASE Prepared(o) /\ queue = <<>> /\ queue' = <<>>
    <3>1. log' = Append(log, o) /\ primary' = primary /\ status' = status
      BY <2>2 DEF Prepared
    <3>2. Line' = Append(log, o) /\ Line = log
      BY <1>4, <2>2, <3>1 DEF Line
    <3> QED BY <1>4, <1>5, <3>1, <3>2
  <2> QED BY <1>1, <2>1, <2>2
<1> HIDE DEF n, d
<1>8. ASSUME NEW p \in 1..n, Once(Line', p), NEW q \in Nat, q <= p, q <= Len(Line) PROVE Once(Line, q)
  <2>1. Once(Line', q)
    BY <1>5, <1>8, OnceBelow
  <2>2. \A j \in 1..q : Line'[j] = Line[j]
    BY <1>5, <1>7, <1>8
  <2> QED BY <1>8, <2>1, <2>2, SamePrefix
<1>9. ASSUME o.kind = "store", Once(Line, Len(Line)), NEW j \in (d + 1)..Len(Line),
             Line[j].kind = "install"
      PROVE  Line[j].group # o.group
  <2>1. (j <= Len(log) /\ j <= s.barrier) \/ s.latch = Installation(Line[j])
    BY <1>2, <1>9 DEF Covers, d
  <2>2. ~(j <= s.barrier)
    BY <1>3, <1>4, <1>6, <1>9
  <2>3. s.latch.group = Line[j].group
    BY <2>1, <2>2 DEF Installation
  <2> QED BY <1>3, <1>9, <2>3
<1>10. /\ Current(scan') /\ ~scan'.uncertain /\ scan'.barrier = s.barrier
       /\ scan'.latch = IF o.kind = "install" THEN Installation(o) ELSE s.latch
  BY <1>1, <1>2 DEF Scan, Current
<1>11. Rows' /\ Sequenced' /\ Excused' /\ StoresFit'
  <2>1. CASE queue' = Append(queue, o) /\ UNCHANGED <<log, commit, primary, status, holds, sequence>>
    <3>1. Rows'
      BY <1>1, <2>1, RowsStay DEF Done
    <3>2. Sequenced'
      BY <2>1 DEF Fits, Sequenced
    <3>3. Excused'
      BY <1>1, <2>1, ExcusedStays
    <3>4. StoresFit'
      BY <1>5, <2>1, StoresStay
    <3> QED BY <3>1, <3>2, <3>3, <3>4
  <2>2. CASE Prepared(o) /\ queue = <<>> /\ queue' = <<>>
    <3>1. Rows' /\ Sequenced' /\ Excused'
      BY <1>1, <2>2, PreparedFits
    <3>2. log' = Append(log, o) /\ Line = log /\ Line' = log'
      BY <1>4, <2>2 DEF Line, Prepared
    <3>3. n = Len(log) + 1
      BY <3>2 DEF n
    <3>4. ASSUME o.kind = "store", Once(log', Len(log) + 1)
          PROVE  /\ o.generation = owners[primary][o.group]
                 /\ \A j \in (Done(primary) + 1)..Len(log) :
                       ~(log[j].kind = "install" /\ log[j].group = o.group)
      <4>1. Once(Line, Len(Line))
        BY <1>5, <1>8, <3>2, <3>3, <3>4
      <4> QED BY <1>9, <3>2, <3>4, <4>1 DEF d
    <3>5. StoresFit'
      BY <3>2, <3>4, AppendFits
    <3> QED BY <3>1, <3>5
  <2> QED BY <1>1, <2>1, <2>2
<1>12. StoresWait'
  <2> SUFFICES ASSUME NEW p \in (Len(log') + 1)..n, Line'[p].kind = "store", Once(Line', p),
                      NEW j \in (d + 1)..(p - 1)
               PROVE  ~(Line'[j].kind = "install" /\ Line'[j].group = Line'[p].group)
    BY <1>6, <1>7 DEF StoresWait, Once
  <2>1. Len(log') = Len(log) /\ p \in 1..n /\ j \in (d + 1)..Len(Line) /\ j \in 1..Len(Line)
        /\ p - 1 \in Nat /\ p - 1 <= Len(Line)
    BY <1>5, <1>6, <1>7 DEF n
  <2>2. Line'[j] = Line[j]
    BY <1>7, <2>1
  <2>3. CASE p = n
    <3>1. Once(Line, Len(Line)) /\ o.kind = "store" /\ Line'[p] = o
      BY <1>5, <1>7, <1>8, <2>1, <2>3 DEF n
    <3> QED BY <1>9, <2>1, <2>2, <3>1
  <2>4. CASE p # n
    <3>1. p \in (Len(log) + 1)..Len(Line) /\ p \in 1..Len(Line) /\ p \in Nat /\ p <= Len(Line)
      BY <1>5, <2>1, <2>4 DEF n
    <3>2. Once(Line, p) /\ Line'[p] = Line[p]
      BY <1>7, <1>8, <2>1, <3>1
    <3> QED BY <2>1, <2>2, <3>1, <3>2 DEF Fits, StoresWait, d
  <2> QED BY <2>3, <2>4
<1>13. Covers(scan)'
  <2> SUFFICES ASSUME Once(Line', n), NEW j \in (d + 1)..n, Line'[j].kind = "install"
               PROVE  (j <= Len(log') /\ j <= scan'.barrier) \/ scan'.latch = Installation(Line'[j])
    BY <1>6, <1>7 DEF Covers, Once, Installation
  <2>1. CASE j = n
    BY <1>7, <1>10, <2>1
  <2>2. CASE j # n
    <3>1. j \in (d + 1)..Len(Line) /\ j \in 1..Len(Line) /\ n \in 1..n /\ Len(Line) <= n
      <4>1. n = Len(Line) + 1 /\ d \in Nat /\ Len(Line) \in Nat
        BY <1>5, <1>6 DEF n
      <4> QED BY <2>2, <4>1
    <3>2. Once(Line, Len(Line)) /\ Line'[j] = Line[j]
      BY <1>5, <1>7, <1>8, <3>1
    <3>3. (j <= Len(log) /\ j <= s.barrier) \/ s.latch = Installation(Line[j])
      BY <1>2, <3>1, <3>2 DEF Covers, d
    <3>4. Line[j] \in Operation
      BY <1>5, <3>1
    <3>5. Installation(Line[j]) # None
      BY <3>4 DEF Installation, None, Operation
    <3>6. CASE o.kind = "install"
      <4>1. s.latch = None
        BY <1>3, <3>6
      <4> QED BY <1>5, <1>7, <1>10, <3>1, <3>3, <3>5, <4>1
    <3>7. CASE o.kind # "install"
      <4>1. scan'.latch = s.latch
        BY <1>10, <3>7
      <4> QED BY <1>5, <1>7, <1>10, <3>1, <3>2, <3>3, <4>1
    <3> QED BY <3>6, <3>7
  <2> QED BY <2>1, <2>2
<1>14. Settled' /\ Covered'
  BY <1>7, <1>10, <1>13 DEF Settled, Covered, Current
<1> QED BY <1>11, <1>12, <1>14 DEF Fits

\* The head of the queue moves into the log: the line stays as it is.  A store
\* still matches, and the latch already names an install.
LEMMA PromoteFits ==
    ASSUME IInv, IInv', Fits, status = "normal", queue # <<>>, queue' = Tail(queue),
           UNCHANGED <<applied, walking, owners, failed>>,
           NEW o, o = Head(queue), Prepared(o),
           o.kind = "store" => matches_consumer_owner(o.group, o.generation),
           NEW s, s = scanned(FALSE), scan' \in Scan, Current(scan'), ~scan'.uncertain,
           scan'.barrier = s.barrier,
           scan'.latch = IF o.kind = "install" THEN Installation(o) ELSE s.latch
    PROVE  Fits'
<1> DEFINE d == Done(primary)
           n == Len(log) + 1
<1>1. /\ log \in Seq(Operation) /\ queue \in Seq(Operation) /\ primary \in Replicas
      /\ log' = Append(log, o) /\ primary' = primary /\ status' = status
  BY DEF IInv, Types, Prepared
<1>2. Current(s) /\ Covers(s)
  BY FreshScan
<1>3. /\ Line \in Seq(Operation) /\ Len(Line) = Len(log) + Len(queue) /\ Len(log) \in Nat
      /\ Len(queue) \in Nat /\ Len(Line) \in Nat /\ n \in Nat /\ n \in 1..Len(Line)
      /\ \A j \in 1..Len(log) : Line[j] = log[j]
      /\ \A i \in 1..Len(queue) : Line[Len(log) + i] = queue[i]
  <2>1. Len(queue) # 0
    BY <1>1
  <2> QED BY <2>1, LineIs
<1>4. d \in Nat /\ d <= Len(log) /\ Done(primary)' = d
  BY <1>1, DoneKept DEF Done
<1>5. Line[n] = o /\ o \in Operation
  <2>1. 1 \in 1..Len(queue) /\ queue[1] = o /\ o \in Operation
    BY <1>1
  <2> QED BY <1>3, <2>1
<1>6. Len(log') = n /\ Len(Line') = Len(Line) /\ \A j \in 1..Len(Line) : Line'[j] = Line[j]
  <2>1. Line' = Append(log, o) \o Tail(queue) /\ Line = log \o queue
    BY <1>1 DEF Line
  <2>2. Len(Append(log, o) \o Tail(queue)) = Len(log \o queue)
    BY <1>1
  <2>3. ASSUME NEW j \in 1..Len(log \o queue)
        PROVE  (Append(log, o) \o Tail(queue))[j] = (log \o queue)[j]
    <3>1. CASE j <= Len(log)
      BY <1>1, <3>1
    <3>2. CASE j = Len(log) + 1
      BY <1>1, <3>2
    <3>3. CASE j > Len(log) + 1
      BY <1>1, <3>3
    <3> QED BY <1>3, <3>1, <3>2, <3>3
  <2> QED BY <1>1, <1>3, <2>1, <2>2, <2>3
<1> HIDE DEF d, n
<1>7. ASSUME NEW p \in 0..Len(Line) PROVE Once(Line', p) <=> Once(Line, p)
  <2>1. p \in Nat /\ \A j \in 1..p : Line'[j] = Line[j]
    BY <1>3, <1>6
  <2> QED BY <2>1, SamePrefix
<1>8. Rows' /\ Sequenced' /\ Excused'
  BY <1>5, PreparedFits
<1>9. StoresFit'
  <2>1. ASSUME o.kind = "store", Once(log', Len(log) + 1)
        PROVE  /\ o.generation = owners[primary][o.group]
               /\ \A j \in (Done(primary) + 1)..Len(log) :
                     ~(log[j].kind = "install" /\ log[j].group = o.group)
    <3>1. o.generation = owners[primary][o.group]
      BY <2>1 DEF matches_consumer_owner
    <3>2. Once(Line, n)
      <4>1. \A i \in 1..n : log'[i] = Line[i]
        BY <1>1, <1>3, <1>5 DEF n
      <4> QED BY <1>3, <2>1, <4>1, SamePrefix DEF n
    <3>3. n \in (Len(log) + 1)..Len(Line) /\ n - 1 = Len(log)
      BY <1>3 DEF n
    <3>4. \A j \in (d + 1)..Len(log) :
             ~(Line[j].kind = "install" /\ Line[j].group = o.group)
      BY <1>5, <2>1, <3>2, <3>3 DEF Fits, StoresWait, d
    <3>5. \A j \in (d + 1)..Len(log) : Line[j] = log[j]
      BY <1>3, <1>4
    <3> QED BY <3>1, <3>4, <3>5 DEF d
  <2> QED BY <1>1, <1>5, <2>1, AppendFits
<1>10. StoresWait'
  <2> SUFFICES ASSUME NEW p \in (Len(log') + 1)..Len(Line), Line'[p].kind = "store",
                      Once(Line', p), NEW j \in (d + 1)..(p - 1)
               PROVE  ~(Line'[j].kind = "install" /\ Line'[j].group = Line'[p].group)
    BY <1>4, <1>6 DEF StoresWait, Once
  <2>1. /\ p \in (Len(log) + 1)..Len(Line) /\ p \in 0..Len(Line) /\ p \in 1..Len(Line)
        /\ j \in 1..Len(Line)
    BY <1>3, <1>4, <1>6 DEF n
  <2>2. Once(Line, p) /\ Line'[p] = Line[p] /\ Line'[j] = Line[j]
    BY <1>6, <1>7, <2>1
  <2> QED BY <2>1, <2>2 DEF Fits, StoresWait, d
<1>11. Covers(scan)'
  <2> SUFFICES ASSUME Once(Line', Len(Line)), NEW j \in (d + 1)..Len(Line),
                      Line'[j].kind = "install"
               PROVE  (j <= Len(log') /\ j <= scan'.barrier) \/ scan'.latch = Installation(Line'[j])
    BY <1>4, <1>6 DEF Covers, Once, Installation
  <2>1. Once(Line, Len(Line)) /\ Line'[j] = Line[j] /\ j \in 1..Len(Line)
    <3>1. Len(Line) \in 0..Len(Line) /\ j \in 1..Len(Line)
      BY <1>3, <1>4
    <3> QED BY <1>6, <1>7, <3>1
  <2>2. (j <= Len(log) /\ j <= s.barrier) \/ s.latch = Installation(Line[j])
    BY <1>2, <2>1 DEF Covers, d
  <2>3. j <= Len(log) => j <= Len(log')
    BY <1>3, <1>6, <2>1 DEF n
  <2>4. CASE o.kind = "install"
    <3>1. s.latch = Installation(o)
      <4>1. n \in (d + 1)..Len(Line) /\ ~(n <= Len(log))
        BY <1>3, <1>4 DEF n
      <4> QED BY <1>2, <1>5, <2>1, <2>4, <4>1 DEF Covers, d
    <3> QED BY <2>1, <2>2, <2>3, <2>4, <3>1
  <2>5. CASE o.kind # "install"
    BY <2>1, <2>2, <2>3, <2>5
  <2> QED BY <2>4, <2>5
<1>12. Settled' /\ Covered'
  BY <1>1, <1>11 DEF Settled, Covered, Current
<1> QED BY <1>8, <1>9, <1>10, <1>12 DEF Fits

\* A store that no longer matches leaves the queue; what stood behind it moves up.
LEMMA DropFits ==
    ASSUME IInv, IInv', Fits, status = "normal", queue # <<>>, queue' = Tail(queue),
           UNCHANGED <<log, primary, status, holds, sequence, applied, walking, owners, failed>>,
           Head(queue).kind = "store", scan' = scanned(FALSE)
    PROVE  Fits'
<1> DEFINE d == Done(primary)
           n == Len(log) + 1
<1>1. log \in Seq(Operation) /\ queue \in Seq(Operation) /\ primary \in Replicas
  BY DEF IInv, Types
<1>2. Current(scan') /\ ~scan'.uncertain /\ Covers(scan')
  BY FreshScan
<1>3. /\ Line \in Seq(Operation) /\ Len(Line) = Len(log) + Len(queue) /\ Len(log) \in Nat
      /\ Len(queue) \in Nat /\ Len(Line) \in Nat /\ n \in Nat /\ n \in 1..Len(Line)
      /\ \A i \in 1..Len(queue) : Line[Len(log) + i] = queue[i]
  BY <1>1, LineIs
<1>4. d \in Nat /\ d <= Len(log) /\ Done(primary)' = d /\ \A r \in Replicas : Done(r)' = Done(r)
  BY <1>1, DoneKept DEF Done
<1>5. Line[n].kind = "store"
  <2>1. 1 \in 1..Len(queue) /\ queue[1] = Head(queue)
    BY <1>1
  <2> QED BY <1>3, <2>1
<1>6. /\ Len(Line') = Len(Line) - 1
      /\ \A j \in 1..Len(log) : Line'[j] = Line[j]
      /\ \A j \in n..(Len(Line) - 1) : Line'[j] = Line[j + 1]
  <2>1. Line' = log \o Tail(queue) /\ Line = log \o queue
    BY DEF Line
  <2>2. Len(log \o Tail(queue)) = Len(log \o queue) - 1
    BY <1>1
  <2>3. ASSUME NEW j \in 1..Len(log) PROVE (log \o Tail(queue))[j] = (log \o queue)[j]
    BY <1>1, <2>3
  <2>4. ASSUME NEW j \in n..(Len(log \o queue) - 1)
        PROVE  (log \o Tail(queue))[j] = (log \o queue)[j + 1]
    BY <1>1, <2>4
  <2> QED BY <2>1, <2>2, <2>3, <2>4
<1>7. n = Len(log) + 1
  OBVIOUS
<1> HIDE DEF d, n
<1>8. ASSUME NEW p \in Len(log)..Len(Line'), Once(Line', p) PROVE Once(Line, p + 1)
  <2> SUFFICES ASSUME NEW i \in 1..(p + 1), NEW j \in 1..(p + 1), Line[i] = Line[j],
                      Line[i].kind = "install"
               PROVE  i = j
    BY DEF Once
  <2> DEFINE Down(x) == IF x <= Len(log) THEN x ELSE x - 1
  <2>1. i # n /\ j # n
    BY <1>5
  <2>2. ASSUME NEW x \in 1..(p + 1), x # n PROVE Down(x) \in 1..p /\ Line'[Down(x)] = Line[x]
    <3>1. CASE x <= Len(log)
      BY <1>3, <1>6, <1>8, <3>1
    <3>2. CASE ~(x <= Len(log))
      <4>1. x - 1 \in n..(Len(Line) - 1) /\ (x - 1) + 1 = x /\ x - 1 \in 1..p
        BY <1>3, <1>6, <1>7, <1>8, <2>2, <3>2
      <4>2. Line'[x - 1] = Line[(x - 1) + 1]
        BY <1>6, <4>1
      <4> QED BY <3>2, <4>1, <4>2
    <3> QED BY <3>1, <3>2
  <2>3. Down(i) = Down(j)
    <3>1. /\ Down(i) \in 1..p /\ Line'[Down(i)] = Line[i]
          /\ Down(j) \in 1..p /\ Line'[Down(j)] = Line[j]
      BY <2>1, <2>2
    <3> HIDE DEF Down
    <3> QED BY <1>8, <3>1 DEF Once
  <2> QED BY <1>3, <1>7, <2>1, <2>3
<1>9. Rows' /\ StoresFit' /\ Excused' /\ Sequenced'
  <2>1. Rows'
    BY <1>4, RowsStay
  <2>2. StoresFit'
    BY <1>3, StoresStay
  <2>3. Excused'
    BY ExcusedStays
  <2>4. Sequenced'
    BY DEF Fits, Sequenced
  <2> QED BY <2>1, <2>2, <2>3, <2>4
<1>10. StoresWait'
  <2> SUFFICES ASSUME NEW p \in (Len(log) + 1)..Len(Line'), Line'[p].kind = "store",
                      Once(Line', p), NEW j \in (d + 1)..(p - 1)
               PROVE  ~(Line'[j].kind = "install" /\ Line'[j].group = Line'[p].group)
    BY <1>4 DEF StoresWait, Once
  <2>1. /\ p \in n..(Len(Line) - 1) /\ p + 1 \in (Len(log) + 1)..Len(Line)
        /\ p \in Len(log)..Len(Line')
    BY <1>3, <1>6, <1>7
  <2>2. Line'[p] = Line[p + 1] /\ Once(Line, p + 1)
    BY <1>6, <1>8, <2>1
  <2>3. \A k \in (d + 1)..((p + 1) - 1) :
           ~(Line[k].kind = "install" /\ Line[k].group = Line[p + 1].group)
    BY <2>1, <2>2 DEF Fits, StoresWait, d
  <2>4. CASE j <= Len(log)
    <3>1. j \in 1..Len(log) /\ j \in (d + 1)..((p + 1) - 1)
      BY <1>3, <1>4, <1>6, <2>4
    <3> QED BY <1>6, <2>2, <2>3, <3>1
  <2>5. CASE ~(j <= Len(log))
    <3>1. j \in n..(Len(Line) - 1) /\ j + 1 \in (d + 1)..((p + 1) - 1)
      BY <1>3, <1>4, <1>6, <1>7, <2>5
    <3> QED BY <1>6, <2>2, <2>3, <3>1
  <2> QED BY <2>4, <2>5
<1>11. Covers(scan)'
  <2> SUFFICES ASSUME Once(Line', Len(Line')), NEW j \in (d + 1)..Len(Line'),
                      Line'[j].kind = "install"
               PROVE  (j <= Len(log) /\ j <= scan'.barrier) \/ scan'.latch = Installation(Line'[j])
    BY <1>4 DEF Covers, Once, Installation
  <2>1. Once(Line, Len(Line))
    <3>1. Len(Line') \in Len(log)..Len(Line') /\ Len(Line') + 1 = Len(Line)
      BY <1>3, <1>6
    <3> QED BY <1>8, <3>1
  <2>2. CASE j <= Len(log)
    <3>1. j \in 1..Len(log) /\ j \in (d + 1)..Len(Line)
      BY <1>3, <1>4, <2>2
    <3> QED BY <1>2, <1>6, <2>1, <3>1 DEF Covers, d
  <2>3. CASE ~(j <= Len(log))
    <3>1. j \in n..(Len(Line) - 1) /\ j + 1 \in (d + 1)..Len(Line) /\ ~(j + 1 <= Len(log))
      BY <1>3, <1>4, <1>6, <1>7, <2>3
    <3>2. Line'[j] = Line[j + 1]
      BY <1>6, <3>1
    <3> QED BY <1>2, <2>1, <3>1, <3>2 DEF Covers, d
  <2> QED BY <2>2, <2>3
<1>12. Settled' /\ Covered'
  BY <1>2, <1>11 DEF Settled, Covered, Current
<1> QED BY <1>9, <1>10, <1>12 DEF Fits

\* Either way the head of the queue leaves it.
LEMMA DrainFits == ASSUME IInv, IInv', Fits, drain_request_queue_into_prepares PROVE Fits'
<1> DEFINE s == scanned(FALSE)
           o == Head(queue)
           freed == IF o.kind = "install" /\ s.latch = Installation(o)
                    THEN [s EXCEPT !.latch = None] ELSE s
<1>1. /\ status = "normal" /\ queue # <<>> /\ queue' = Tail(queue)
      /\ UNCHANGED <<applied, walking, owners, failed>>
      /\ \/ /\ o.kind = "store" /\ scan' = freed
            /\ UNCHANGED <<log, primary, status, holds, sequence>>
         \/ /\ o.kind = "store" => matches_consumer_owner(o.group, o.generation)
            /\ Prepared(o)
            /\ scan' = IF o.kind = "install" THEN [freed EXCEPT !.latch = Installation(o)]
                       ELSE freed
  BY DEF drain_request_queue_into_prepares, tables, consensus, journals
<1>2. s \in Scan /\ Current(s) /\ ~s.uncertain
  BY <1>1, ScannedHolds, FreshScan
<1>3. /\ freed.barrier = s.barrier /\ Current(freed) /\ ~freed.uncertain /\ freed \in Scan
      /\ (o.kind # "install" => freed = s)
  <2> HIDE DEF s, o
  <2> QED BY <1>2 DEF Scan, Current, Latch
<1>4. o \in Operation
  BY <1>1 DEF IInv, Types
<1>5. CASE o.kind = "store" /\ scan' = freed /\ UNCHANGED <<log, primary, status, holds, sequence>>
  <2>1. scan' = scanned(FALSE)
    BY <1>3, <1>5
  <2> QED BY <1>1, <1>5, <2>1, DropFits
<1>6. CASE /\ o.kind = "store" => matches_consumer_owner(o.group, o.generation)
           /\ Prepared(o)
           /\ scan' = IF o.kind = "install" THEN [freed EXCEPT !.latch = Installation(o)]
                      ELSE freed
  <2>1. /\ scan' \in Scan /\ Current(scan') /\ ~scan'.uncertain /\ scan'.barrier = s.barrier
        /\ scan'.latch = IF o.kind = "install" THEN Installation(o) ELSE s.latch
    <3>1. o.kind = "install" => Installation(o) \in Latch
      BY <1>4, InstallingBack
    <3> HIDE DEF s, o, freed
    <3> QED BY <1>3, <1>6, <3>1 DEF Scan, Current
  <2> HIDE DEF freed
  <2> QED BY <1>1, <1>6, <2>1, PromoteFits
<1> QED BY <1>1, <1>5, <1>6

\* The three kinds of request meet what AdmitFits asks of them.
LEMMA RequestFits == ASSUME IInv, IInv', Fits, on_request PROVE Fits'
<1>1. PICK g \in Groups : \/ \E n \in Generations(g) : install_owner(g, n)
                          \/ \E n \in DOMAIN Decisions : store_offset(g, n)
                          \/ complete_poll(g)
  BY DEF on_request
<1>2. ASSUME NEW n \in Generations(g), install_owner(g, n) PROVE Fits'
  <2>1. Op("install", g, n) \in Operation /\ Op("install", g, n).kind = "install"
    BY <1>2, SizesAssumption DEF Generations, Op, Operation
  <2>2. status = "normal" /\ scanned(FALSE).latch = None
        /\ Admit(Op("install", g, n), scanned(FALSE))
    BY <1>2 DEF install_owner
  <2> QED BY <2>1, <2>2, AdmitFits
<1>3. ASSUME NEW n, n \in Nat \ {0}, status = "normal", n = owners[primary][g],
             ~install_pending(g, scanned(FALSE)), Admit(Op("store", g, n), scanned(FALSE))
      PROVE  Fits'
  <2>1. /\ Op("store", g, n) \in Operation /\ Op("store", g, n).kind = "store"
        /\ Op("store", g, n).group = g /\ Op("store", g, n).generation = n
    BY <1>3 DEF Op, Operation
  <2> QED BY <1>3, <2>1, AdmitFits
<1>4. ASSUME NEW n \in DOMAIN Decisions, store_offset(g, n) PROVE Fits'
  <2>1. n \in Nat \ {0}
    BY SizesAssumption
  <2> QED BY <1>3, <1>4, <2>1 DEF store_offset, matches_consumer_owner
<1>5. ASSUME complete_poll(g) PROVE Fits'
  <2>1. owners[primary][g] \in Nat \ {0}
    BY <1>5 DEF IInv, Types, complete_poll
  <2> QED BY <1>3, <1>5, <2>1 DEF complete_poll
<1> QED BY <1>1, <1>2, <1>4, <1>5

\* In the first state nothing is installed but the first decision.
LEMMA InitFits == ASSUME Init PROVE Fits
<1>1. /\ log = <<>> /\ queue = <<>> /\ primary \in Replicas /\ walking = FALSE
      /\ status = "normal" /\ failed = FALSE
      /\ holds = [r \in Replicas |-> {}] /\ sequence = [r \in Replicas |-> 0]
      /\ applied = [r \in Replicas |-> 0]
      /\ owners = [r \in Replicas |-> [h \in Groups |-> IF h = Decisions[1] THEN 1 ELSE 0]]
      /\ scan = [Unscanned EXCEPT !.observed = TRUE]
  BY DEF Init
<1>2. Len(log) = 0 /\ Line = <<>> /\ Len(Line) = 0
  BY <1>1 DEF Line
<1>3. Rows
  <2> SUFFICES ASSUME NEW r \in Replicas, NEW g \in Groups
               PROVE  Latest(owners[r][g], Installed(log, g, Done(r)))
    BY DEF Rows
  <2>1. Done(r) = 0 /\ owners[r][g] = First(g) /\ First(g) \in Nat
    BY <1>1 DEF Done, First
  <2>2. Installed(log, g, 0) = {First(g)}
    BY DEF Installed
  <2> QED BY <2>1, <2>2 DEF Latest
<1>4. StoresFit /\ StoresWait
  BY <1>2 DEF StoresFit, StoresWait
<1>5. Sequenced
  <2>1. ASSUME NEW r \in Replicas, NEW k \in Nat, 1..k \subseteq holds[r] PROVE k <= sequence[r]
    <3>1. 1..k \subseteq {} /\ sequence[r] = 0
      BY <1>1, <2>1
    <3> QED BY <3>1
  <2> QED BY <1>1, <1>2, <2>1 DEF Sequenced
<1>6. ~scan.uncertain /\ Settled
  BY <1>1 DEF Settled, Unscanned
<1>7. Covered
  <2>1. Done(primary) = 0
    BY <1>1 DEF Done
  <2> QED BY <1>1, <1>2, <2>1 DEF Covered, Covers
<1> QED BY <1>1, <1>3, <1>4, <1>5, <1>6, <1>7 DEF Fits, Excused

\* Every step keeps the owners and the stores in line.
LEMMA NextFits == ASSUME IInv, IInv', Fits, [Next]_vars PROVE Fits'
<1>1. ASSUME NEW tick, resynchronize(tick) PROVE Fits'
  <2>1. scan' = scanned(tick) /\ UNCHANGED <<log, queue, primary, status, holds, sequence, applied,
                                            walking, owners, failed>>
    BY <1>1 DEF resynchronize, consensus, journals, tables
  <2> QED BY <2>1, QuietFits
<1>2. ASSUME advance_commit_max \/ UNCHANGED vars PROVE Fits'
  <2>1. UNCHANGED <<log, queue, primary, status, holds, sequence, applied, walking, owners, failed,
                    scan>>
    BY <1>2 DEF advance_commit_max, vars, consensus, journals, tables
  <2> QED BY <2>1, QuietFits
<1>3. ASSUME NEW r \in Replicas, on_replicate(r) \/ commit_journal(r) \/ start_view_change(r)
      PROVE  Fits'
  BY <1>3, ReplicateFits, ApplyFits, ViewChangeFits
<1>4. ASSUME NEW r \in Replicas, NEW o \in (1..Len(log)) \ holds[r], apply_repaired_prepare(r, o)
      PROVE  Fits'
  BY <1>4, RepairFits
<1>5. ASSUME NEW Q \in SUBSET Replicas, NEW head \in 0..Len(log),
             complete_view_change_as_primary(Q, head)
      PROVE  Fits'
  BY <1>5, MergeFits
<1>6. ASSUME start_pending_view(TRUE) \/ (scan.truncated /\ start_pending_view(FALSE)) PROVE Fits'
  BY <1>6, StartFits
<1> QED BY <1>1, <1>2, <1>3, <1>4, <1>5, <1>6, RequestFits, DrainFits, PublishFits DEF Next

\* Rows, stores, barrier and latch stay in line with the log.
THEOREM OwnersInvariant == Spec => []Fits
<1>1. Init => Fits
  BY InitFits
<1>2. IInv /\ IInv' /\ Fits /\ [Next]_vars => Fits'
  BY NextFits
<1> QED BY <1>1, <1>2, LatchInvariant, PTL DEF Spec

\* No committed op fails to apply as long as no install is ordered twice: the
\* store that plan_committed_offset meets carries the owner the replica holds,
\* for any replicas, groups, decisions, queues, view changes, truncations and
\* repairs.
THEOREM StoresApply == Spec => []CommittedOpsApply
<1>1. IInv /\ Fits => CommittedOpsApply
  <2> SUFFICES ASSUME IInv, Fits, failed, InstallsOnce PROVE FALSE
    BY DEF CommittedOpsApply
  <2>1. PICK p \in Nat : Kept(holds, p) /\ ~Once(log, p)
    BY DEF Fits, Excused
  <2>2. p <= Len(log)
    BY <2>1, KeptWithin DEF IInv, Types
  <2>3. /\ Line \in Seq(Operation) /\ Len(Line) \in Nat /\ Len(log) \in Nat /\ p <= Len(Line)
        /\ \A j \in 1..p : Line[j] = log[j]
    BY <2>2, LineIs
  <2>4. Once(Line, Len(Line))
    BY <2>3 DEF InstallsOnce, Once, Line
  <2>5. Once(log, p)
    BY <2>3, <2>4, OnceBelow, SamePrefix
  <2> QED BY <2>1, <2>5
<1> QED BY <1>1, LatchInvariant, OwnersInvariant, PTL
==============================================================================
