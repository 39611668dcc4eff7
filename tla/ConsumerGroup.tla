---------------------------- MODULE ConsumerGroup ----------------------------
(***************************************************************************)
(* A consumer group in the replicated metadata: who is a member, and which *)
(* member owns which partition.                                            *)
(*                                                                         *)
(* A change of the membership or of the partitions only chooses            *)
(* successors.  The owner of a partition changes when the partition proves *)
(* that it committed the installation of exactly the pending successor;    *)
(* until then the old owner keeps the commit fence and stops polling.      *)
(* Between the decision and the proof further ops may decide otherwise.    *)
(*                                                                         *)
(* The partitions are abstract here (OwnerInstall models one): any         *)
(* transition that a reader of the published metadata ever saw may be      *)
(* installed at any time, at most once and at rising generations, and the  *)
(* evidence of any installation may reach the metadata at any later time.  *)
(* Deadlines of a handover are left out: installing may happen at any      *)
(* time, so a timeout is always among the possibilities.                   *)
(***************************************************************************)
EXTENDS GroupBalance, TLC

CONSTANTS
    Clients,
    MaxPartitions, MaxOp          \* bounds of the model

\* Who may own a partition; without a client it is the unassigned owner.
Owner == [client : Clients \cup {None}, session : Nat, generation : Nat]

\* None stands for an empty Option, and is no value that an Option can hold.
ASSUME GroupAssumption ==
    /\ IsFiniteSet(Clients) /\ {MaxPartitions, MaxOp} \subseteq Nat
    /\ None \notin Clients \cup Owner
    /\ None \notin [owner : Owner, metadata_op : Nat, skip_drain : BOOLEAN]
    /\ None \notin [partition : Nat, incarnation : Nat, owner : Owner, metadata_op : Nat]

VARIABLES
    op,           \* the last committed metadata op
    session,      \* the open session of each client, 0 without one
    partitions,   \* of the topic: id and created_revision, in order
    members,      \* slot -> client, session and two derived lists
    assignments,  \* partition id -> incarnation, owner, pending
    pending_revocations,  \* index of the open transitions
    published,    \* every transition a reader of the metadata may have seen
    installed,    \* every installation some partition committed
    active        \* installations that became the owner in the metadata

group == <<members, assignments, pending_revocations>>
vars == <<op, session, partitions, group, published, installed, active>>

------------------------------------------------------------------------------
\* Members and owners.

\* The numbers of a set, in order.
Ascending(S) ==
    CHOOSE f \in [1..Cardinality(S) -> S] : \A i, j \in DOMAIN f : i < j => f[i] < f[j]

Slots(ms) == Ascending(DOMAIN ms)

Identity(m) == <<m.client, m.session>>

\* The members a partition may be given to, in slot order.
Identities(ms) == LET slots == Slots(ms) IN [i \in DOMAIN slots |-> Identity(ms[slots[i]])]

vacant_key(ms) == Min((0..Cardinality(DOMAIN ms)) \ DOMAIN ms)

SlotOf(ms, c) == {k \in DOMAIN ms : ms[k].client = c}

is_unassigned(owner) == Identity(owner) = Unassigned

------------------------------------------------------------------------------
\* What a partition has or is to have (GroupBalance spreads the rest).

Row(as, p) == IF p.id \in DOMAIN as /\ as[p.id].incarnation = p.revision
              THEN as[p.id]
              ELSE [incarnation |-> p.revision, owner |-> None, pending |-> None]

\* The owner a partition has or is to have.
Target(row) == IF row.pending # None THEN Identity(row.pending.owner)
               ELSE IF row.owner # None THEN Identity(row.owner) ELSE Unassigned

balanced_members(as, ps, ids) ==
    LET Kept(p) == IF \E i \in DOMAIN ids : ids[i] = Target(Row(as, p))
                   THEN Target(Row(as, p)) ELSE Unassigned
        kept == [i \in DOMAIN ps |-> Kept(ps[i])]
    IN IF ids = <<>> \/ kept = <<>> THEN kept
       ELSE Rebalanced(kept, ids)

------------------------------------------------------------------------------
\* Rebalancing.

\* Only an owner that is a member can still commit what it polled.
owner_left(row, ids) ==
    row.owner = None \/ ~\E i \in DOMAIN ids : ids[i] = Identity(row.owner)

HandedTo(row, id, ids, o) == [row EXCEPT !.pending =
    [owner |-> [client |-> id[1], session |-> id[2], generation |-> o],
     metadata_op |-> o, skip_drain |-> owner_left(row, ids)]]

IsPending(row, id) == row.pending # None /\ Identity(row.pending.owner) = id

IsOwner(row, id) == IF row.owner = None THEN id = Unassigned ELSE Identity(row.owner) = id

\* A plausible slip: a handover is dropped when its partition goes back.
successor_cancels(row, id, ids, o) ==
    IF IsPending(row, id) THEN [row EXCEPT !.pending.skip_drain = owner_left(row, ids)]
    ELSE IF IsOwner(row, id) THEN [row EXCEPT !.pending = None]
    ELSE HandedTo(row, id, ids, o)

\* A plausible slip: a kept handover keeps its drain decision.
successor_keeps_drain(row, id, ids, o) ==
    IF IsPending(row, id) \/ (row.pending = None /\ IsOwner(row, id)) THEN row
    ELSE HandedTo(row, id, ids, o)

\* What op o makes of a partition that member id shall own.
successor(row, id, ids, o) ==
    IF IsPending(row, id) THEN [row EXCEPT !.pending.skip_drain = owner_left(row, ids)]
    ELSE IF row.pending = None /\ IsOwner(row, id) THEN row
    ELSE HandedTo(row, id, ids, o)

Owned(as, m) == {p \in DOMAIN as : as[p].owner # None /\ Identity(as[p].owner) = Identity(m)}

rebuild_member_assignments(ms, as) ==
    [k \in DOMAIN ms |-> [ms[k] EXCEPT
        !.partitions = Ascending(Owned(as, ms[k])),
        !.pending = Ascending({p \in Owned(as, ms[k]) : as[p].pending # None})]]

rebalance_members(ms, as, ps, o) ==
    LET ids == Identities(ms)
        desired == balanced_members(as, ps, ids)
        rows == [id \in {ps[i].id : i \in DOMAIN ps} |->
                    LET i == CHOOSE i \in DOMAIN ps : ps[i].id = id
                    IN successor(Row(as, ps[i]), desired[i], ids, o)]
    IN IF DOMAIN ms = {} /\ DOMAIN as = {} THEN [members |-> ms, assignments |-> as]
       ELSE [members |-> rebuild_member_assignments(ms, rows), assignments |-> rows]

\* The open transitions of a group, as readers see them.
index_pending_revocations(as) ==
    {[partition |-> p, incarnation |-> as[p].incarnation, owner |-> as[p].pending.owner,
      metadata_op |-> as[p].pending.metadata_op, skip_drain |-> as[p].pending.skip_drain] :
        p \in {q \in DOMAIN as : as[q].pending # None}}

Installation(t) == [partition |-> t.partition, incarnation |-> t.incarnation,
                    owner |-> t.owner, metadata_op |-> t.metadata_op]

\* The group after a rebalance, and what its readers see of it.
Becomes(next) ==
    \E g \in {next} :
        /\ members' = g.members
        /\ assignments' = g.assignments
        /\ pending_revocations' = index_pending_revocations(g.assignments)
        /\ published' = published \cup
               {Installation(t) : t \in index_pending_revocations(g.assignments)}

Commits == op < MaxOp /\ op' = op + 1

------------------------------------------------------------------------------
\* Metadata ops.

\* A group nobody joined yet, in a topic with some partitions, while every
\* client has a session.
Init ==
    /\ op = Cardinality(Clients)
    /\ session \in {s \in [Clients -> 1..op] : IsInjective(s)}
    /\ \E n \in 1..MaxPartitions : partitions = [i \in 1..n |-> [id |-> i - 1, revision |-> 0]]
    /\ members = <<>> /\ assignments = <<>> /\ pending_revocations = {}
    /\ published = {} /\ installed = {} /\ active = {}

\* A Register opens a session and refreshes the client's membership.
Register(c) ==
    /\ Commits
    /\ session' = [session EXCEPT ![c] = op']
    /\ IF SlotOf(members, c) = {} THEN UNCHANGED <<group, published>>
       ELSE Becomes(rebalance_members(
                [k \in DOMAIN members |-> IF members[k].client = c
                    THEN [members[k] EXCEPT !.session = op'] ELSE members[k]],
                assignments, partitions, op'))
    /\ UNCHANGED <<partitions, installed, active>>

\* The members with a new one in the first free slot.
WithMember(ms, c, s) ==
    [k \in DOMAIN ms \cup {vacant_key(ms)} |-> IF k \in DOMAIN ms THEN ms[k]
        ELSE [client |-> c, session |-> s, partitions |-> <<>>, pending |-> <<>>]]

\* A join of a member changes nothing: Register gave it the current session.
Join(c) ==
    /\ session[c] # 0 /\ SlotOf(members, c) = {}
    /\ Commits
    /\ Becomes(rebalance_members(WithMember(members, c, session[c]), assignments, partitions, op'))
    /\ UNCHANGED <<session, partitions, installed, active>>

Without(ms, c) == [k \in DOMAIN ms \ SlotOf(ms, c) |-> ms[k]]

Leave(c) ==
    /\ SlotOf(members, c) # {}
    /\ Commits
    /\ Becomes(rebalance_members(Without(members, c), assignments, partitions, op'))
    /\ UNCHANGED <<session, partitions, installed, active>>

\* The groups after each of the removals of one op.
Removals(order, o) ==
    LET Removed(gs, c) ==
            LET g == Last(gs)
            IN IF SlotOf(g.members, c) = {} THEN gs
               ELSE Append(gs, rebalance_members(Without(g.members, c), g.assignments,
                                                 partitions, o))
    IN FoldLeft(Removed, <<[members |-> members, assignments |-> assignments]>>, order)

\* A plausible slip: one publish for every removal.
PublishedEach(gs) == {gs[i] : i \in DOMAIN gs}

\* The removals of one op are published together.
PublishedOf(gs) == {Last(gs)}

\* A logout, an expiry or a revocation ends sessions and memberships.
remove_consumer_group_members(order) ==
    /\ Commits
    /\ \A i \in DOMAIN order : session[order[i]] # 0
    /\ session' = [c \in Clients |-> IF \E i \in DOMAIN order : order[i] = c
                                     THEN 0 ELSE session[c]]
    /\ \E gs \in {Removals(order, op')} :
        /\ members' = Last(gs).members
        /\ assignments' = Last(gs).assignments
        /\ pending_revocations' = IF Len(gs) = 1 THEN pending_revocations
                                  ELSE index_pending_revocations(Last(gs).assignments)
        /\ published' = published \cup UNION
               {{Installation(t) : t \in index_pending_revocations(g.assignments)} :
                   g \in PublishedOf(gs)}
    /\ UNCHANGED <<partitions, installed, active>>

CreatePartitions ==
    /\ Len(partitions) < MaxPartitions
    /\ Commits
    /\ partitions' = Append(partitions,
           [id |-> IF partitions = <<>> THEN 0 ELSE Last(partitions).id + 1, revision |-> op'])
    /\ Becomes(rebalance_members(members, assignments, partitions', op'))
    /\ UNCHANGED <<session, installed, active>>

DeletePartitions ==
    /\ partitions # <<>>
    /\ Commits
    /\ partitions' = Front(partitions)
    /\ Becomes(rebalance_members(members, assignments, partitions', op'))
    /\ UNCHANGED <<session, installed, active>>

\* A partition commits an installation that some reader asked for.
install_owner(i) ==
    /\ \A j \in installed : <<j.partition, j.incarnation>> = <<i.partition, i.incarnation>>
                            => j.owner.generation < i.owner.generation
    /\ installed' = installed \cup {i}
    /\ UNCHANGED <<op, session, partitions, group, published, active>>

\* A list without p, and a list in order.
Drop(seq, p) == LET kept == Ascending({i \in DOMAIN seq : seq[i] # p})
                IN [i \in DOMAIN kept |-> seq[kept[i]]]

Sorted(seq) ==
    LET order == CHOOSE o \in [DOMAIN seq -> DOMAIN seq] :
                     IsInjective(o) /\ \A i, j \in DOMAIN o : i < j => seq[o[i]] <= seq[o[j]]
    IN [i \in DOMAIN seq |-> seq[order[i]]]

\* A plausible slip: the old owner keeps the partition marked as revoked.
handed_over_keeps_mark(m, p, previous, next) ==
    LET gives == previous # None /\ Identity(previous) = Identity(m)
        kept == IF gives THEN Drop(m.partitions, p) ELSE m.partitions
    IN [m EXCEPT !.partitions = IF Identity(next) = Identity(m)
                                THEN Sorted(Append(kept, p)) ELSE kept]

\* The two lists of a member after partition p went from previous to next.
handed_over(m, p, previous, next) ==
    LET gives == previous # None /\ Identity(previous) = Identity(m)
        kept == IF gives THEN Drop(m.partitions, p) ELSE m.partitions
    IN [m EXCEPT !.partitions = IF Identity(next) = Identity(m)
                                THEN Sorted(Append(kept, p)) ELSE kept,
                 !.pending = IF gives THEN Drop(@, p) ELSE @]

\* Evidence of a committed installation; anything but the pending one is void.
complete_revocation(i) ==
    /\ i.partition \in DOMAIN assignments
    /\ LET row == assignments[i.partition]
       IN /\ row.pending # None /\ row.incarnation = i.incarnation
          /\ row.pending.owner = i.owner /\ row.pending.metadata_op = i.metadata_op
          /\ members' = [k \in DOMAIN members |->
                            handed_over(members[k], i.partition, row.owner, i.owner)]
          /\ assignments' = [assignments EXCEPT ![i.partition] =
                 [row EXCEPT !.owner = IF is_unassigned(i.owner) THEN None ELSE i.owner,
                             !.pending = None]]
    /\ Commits
    /\ pending_revocations' = {t \in pending_revocations : t.partition # i.partition}
    /\ active' = active \cup {i}
    /\ UNCHANGED <<session, partitions, published, installed>>

Next ==
    \/ \E c \in Clients : Register(c) \/ Join(c) \/ Leave(c)
    \/ \E s \in SUBSET Clients \ {{}} : \E order \in SetToSeqs(s) :
           remove_consumer_group_members(order)
    \/ CreatePartitions \/ DeletePartitions
    \/ \E i \in published : install_owner(i)
    \/ \E i \in installed : complete_revocation(i)

Spec == Init /\ [][Next]_vars

------------------------------------------------------------------------------
\* Properties.

Owners == [client : Clients \cup {None}, session : 0..MaxOp, generation : 1..MaxOp]

Ids == 0..(MaxPartitions - 1)

Installations == [partition : Ids, incarnation : 0..MaxOp, owner : Owners, metadata_op : 1..MaxOp]

\* Every variable keeps its type: slots are reused, so no slot is above the
\* number of clients, and the owner of a row is never the unassigned one.
TypeOK ==
    /\ op \in 0..MaxOp /\ session \in [Clients -> 0..MaxOp]
    /\ partitions \in BoundedSeq([id : Ids, revision : 0..MaxOp], MaxPartitions)
    /\ DOMAIN members \subseteq 0..(Cardinality(Clients) - 1)
    /\ \A k \in DOMAIN members : members[k].client \in Clients /\ members[k].session \in 1..MaxOp
    /\ DOMAIN assignments \subseteq {partitions[i].id : i \in DOMAIN partitions}
    /\ \A p \in DOMAIN assignments : LET row == assignments[p] IN
          /\ row.owner = None \/ (row.owner \in Owners /\ ~is_unassigned(row.owner))
          /\ row.pending = None \/ row.pending.owner \in Owners
    /\ published \cup installed \cup active \subseteq Installations

\* The lists each member keeps and the index of open transitions, which a
\* completed handover patches one entry at a time, are always what a rebuild
\* from the assignments (a restore from a snapshot) would give: no member
\* polls a partition it lost, none is kept from one it has, and a replica
\* that restarted answers like one that did not.
CachesAgree ==
    /\ members = rebuild_member_assignments(members, assignments)
    /\ pending_revocations = index_pending_revocations(assignments)

\* The installation a partition holds: the last one it committed.
Held(p, incarnation) ==
    LET here == {i \in installed : i.partition = p /\ i.incarnation = incarnation}
    IN IF here = {} THEN None
       ELSE CHOOSE i \in here : \A j \in here : j.owner.generation <= i.owner.generation

\* Where no handover is open, the metadata and the partition name the same
\* owner, at the same generation.  Otherwise the metadata would send a member
\* to a partition that fences it off, and nothing would be left to repair it:
\* a superseded successor may have been installed long before the metadata
\* learns of it.
SettledAgrees ==
    \A p \in DOMAIN assignments :
        LET row == assignments[p]
            held == Held(p, row.incarnation)
        IN row.pending = None =>
              IF row.owner = None THEN held = None \/ is_unassigned(held.owner)
              ELSE held # None /\ held.owner = row.owner

\* Two installations of one partition incarnation at one generation are the
\* same.  A partition refuses another owner at the generation it holds, and
\* fails for good when it meets one in its log, so a reader must never see an
\* intermediate decision of an op.
InstallsNeverConflict ==
    \A i, j \in published :
        (/\ i.partition = j.partition /\ i.incarnation = j.incarnation
         /\ i.owner.generation = j.owner.generation) => i = j

\* A handover that need not wait for the drain takes the partition from no
\* member that may have polled it: the owner the partition holds was never
\* made the owner in the metadata, or its session is no longer a member.
SkipDrainIsSafe ==
    \A t \in pending_revocations :
        LET held == Held(t.partition, t.incarnation)
        IN (t.skip_drain /\ held # None /\ held \in active) =>
              \A k \in DOMAIN members : Identity(held.owner) # Identity(members[k])

Targets(as, ps) == [i \in DOMAIN ps |-> Target(Row(as, ps[i]))]

\* Once every open handover completes, each partition has an owner that is a
\* member, no member has two partitions more than another, and no partition
\* moves that need not: no balanced assignment to the members that are left
\* differs from what was decided before in fewer partitions, whatever was
\* decided, installed and superseded.  (Several removals of one op are several
\* rebalances.)
RebalanceIsMinimal == [][
    LET ids == Identities(members')
        before == Targets(assignments, partitions')
        after == Targets(assignments', partitions')
        Moved(target) == Cardinality({i \in DOMAIN before : before[i] # target[i]})
    IN IF ids = <<>> THEN \A i \in DOMAIN after : after[i] = Unassigned
       ELSE /\ Balanced(ids, after)
            /\ Cardinality(DOMAIN members \ DOMAIN members') <= 1 =>
                  \A other \in [DOMAIN before -> {ids[i] : i \in DOMAIN ids}] :
                      Balanced(ids, other) => Moved(after) <= Moved(other)
    ]_vars

Symmetry == Permutations(Clients)
==============================================================================
