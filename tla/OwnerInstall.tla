----------------------------- MODULE OwnerInstall -----------------------------
(***************************************************************************)
(* The consumer group owners of one partition, in the partition's log.     *)
(*                                                                         *)
(* The metadata (ConsumerGroup) decides successors.  The primary of the    *)
(* partition orders an install op for each, and an offset store carries    *)
(* the generation of the owner it is for.  A store that commits behind the *)
(* install of another owner does not match at apply, and a committed op    *)
(* that cannot be applied stops every replica.  So the primary holds       *)
(* stores of a group back while an install is on its way: a latch names    *)
(* the last install it admitted, and a barrier the last unapplied one a    *)
(* scan of the log found after a view change.  The scan is lazy: handlers  *)
(* call it, and a flag or the view tells it whether there is anything new. *)
(*                                                                         *)
(* The log is the one the partition's VSR group agrees on (see Vsr); a     *)
(* replica holds some of its ops, and a view change keeps what a quorum    *)
(* holds.  A new primary first repairs what it lacks of it.  Ops other     *)
(* than installs and stores meet none of the fences and are left out.      *)
(***************************************************************************)
EXTENDS Integers, Sequences, FiniteSets, TLC, SequencesExt, FiniteSetsExt, Quorums

CONSTANTS
    Replicas, Groups,
    Decisions,                    \* of the metadata: the group of each generation
    PIPELINE_MAX, QUEUE_MAX,
    MaxOp, MaxViews   \* bounds of the model

ASSUME SizesAssumption ==
    /\ IsFiniteSet(Replicas) /\ Replicas # {}
    /\ PIPELINE_MAX \in Nat \ {0} /\ QUEUE_MAX \in Nat
    /\ Decisions \in Seq(Groups) /\ Decisions # <<>>

VARIABLES
    log, commit, view, status, primary,
    floor,                        \* ops the primary's pipeline does not hold
    queue,
    holds, sequence,              \* of each replica: its journal and sequencer
    applied, walking,             \* commit_min; the primary applied an op beyond it
    owners, durable,              \* installed generations, groups with an offset
    scan,                         \* of the primary: latch, barrier and what the scan keeps
    failed                        \* a committed op could not be applied

consensus == <<log, commit, view, status, primary, floor>>
journals == <<holds, sequence>>
tables == <<applied, walking, owners, durable, failed>>
vars == <<consensus, queue, journals, tables, scan>>

None == [group |-> 0, generation |-> 0]

Op(kind, g, n) == [kind |-> kind, group |-> g, generation |-> n]

Installation(o) == [group |-> o.group, generation |-> o.generation]

Commits(S) == Cardinality(S) >= quorum_replication(Cardinality(Replicas))
StartsView(S) == Cardinality(S) >= quorum_view_change(Cardinality(Replicas))
DeniesOp(S) == Cardinality(S) >= quorum_nack_prepare(Cardinality(Replicas))

------------------------------------------------------------------------------
\* The scan: resynchronize_consumer_offset_reservations.

\* The scan starts over when the view changes, so only that of the replica
\* that leads the view, or is about to, is followed.
Unscanned == [latch |-> None, barrier |-> 0, observed |-> FALSE,
              truncated |-> FALSE, needs |-> FALSE, uncertain |-> FALSE]

Last_op == Min({sequence[primary], Max(holds[primary] \cup {0})})

Installs == {o \in holds[primary] : applied[primary] < o /\ log[o].kind = "install"}

\* A plausible slip: a truncation does not reset the latch.
rescanned_keeps_latch(last) ==
    LET found == {o \in Installs : o <= last}
    IN [latch |-> IF found # {} THEN Installation(log[Max(found)])
                  ELSE IF scan.observed THEN scan.latch ELSE None,
        barrier |-> IF found = {} THEN 0 ELSE Max(found),
        observed |-> TRUE, truncated |-> FALSE, needs |-> FALSE,
        uncertain |-> (commit + 1)..last \ holds[primary] # {}]

\* The scan itself, up to op last.
rescanned(last) ==
    LET found == {o \in Installs : o <= last}
    IN [latch |-> IF found # {} THEN Installation(log[Max(found)])
                  ELSE IF scan.observed /\ ~scan.truncated THEN scan.latch ELSE None,
        barrier |-> IF found = {} THEN 0 ELSE Max(found),
        observed |-> TRUE, truncated |-> FALSE, needs |-> FALSE,
        uncertain |-> (commit + 1)..last \ holds[primary] # {}]

\* What a handler knows of the installs in the log.  In an unchanged view an
\* uncertain scan is repeated by the tick alone.
scanned(tick) ==
    LET same == scan.observed /\ ~scan.truncated
    IN IF same /\ (IF scan.uncertain THEN ~tick ELSE ~scan.needs) THEN scan
       ELSE rescanned(Last_op)

\* Another handler runs, or the tick.
resynchronize(tick) ==
    /\ scanned(tick) # scan
    /\ scan' = scanned(tick)
    /\ UNCHANGED <<consensus, queue, journals, tables>>

------------------------------------------------------------------------------
\* Requests at the primary.

\* The first decision is installed, and its owner has stored an offset.
Init ==
    LET g == Decisions[1]
    IN
    /\ log = <<>> /\ commit = 0 /\ view = 0 /\ status = "normal"
    /\ primary \in Replicas /\ floor = 0 /\ queue = <<>>
    /\ holds = [r \in Replicas |-> {}] /\ sequence = [r \in Replicas |-> 0]
    /\ applied = [r \in Replicas |-> 0] /\ walking = FALSE
    /\ owners = [r \in Replicas |-> [h \in Groups |-> IF h = g THEN 1 ELSE 0]]
    /\ durable = [r \in Replicas |-> {g}]
    /\ scan = [Unscanned EXCEPT !.observed = TRUE]
    /\ failed = FALSE

\* The decisions on group g that are still to be installed.
Generations(g) == {n \in 2..Len(Decisions) : Decisions[n] = g}

committed_history_pending == applied[primary] < Min({commit, floor})

pipeline_is_full == Len(log) - Max({applied[primary], floor}) >= PIPELINE_MAX

Prepared(o) ==
    /\ log' = Append(log, o)
    /\ holds' = [holds EXCEPT ![primary] = @ \cup {Len(log) + 1}]
    /\ sequence' = [sequence EXCEPT ![primary] = Len(log) + 1]
    /\ UNCHANGED <<commit, view, status, primary, floor>>

\* Queue or pipeline an admitted request; s is what the handler's scan left.
Admit(o, s) ==
    /\ IF pipeline_is_full \/ queue # <<>>
       THEN /\ Len(queue) < QUEUE_MAX
            /\ queue' = Append(queue, o)
            /\ UNCHANGED <<consensus, journals>>
       ELSE Prepared(o) /\ UNCHANGED queue
    /\ scan' = IF o.kind = "install" THEN [s EXCEPT !.latch = Installation(o)] ELSE s
    /\ UNCHANGED <<tables>>

\* Offsets of a group wait for its install, and after a view change for all.
install_pending(g, s) == s.latch.group = g \/ applied[primary] < s.barrier

matches_consumer_owner(g, n) == owners[primary][g] = n /\ n # 0

\* An install for any decision that a reconciler may have seen.
install_owner(g, n) ==
    LET s == scanned(FALSE) IN
    /\ status = "normal" /\ ~committed_history_pending
    /\ Len(log) + Len(queue) < MaxOp
    /\ s.latch = None
    /\ Admit(Op("install", g, n), s)

\* A store under generation n, or one that takes the installed generation
\* because it was decided no later than the metadata its writer had seen.
store_offset(g, n) ==
    LET s == scanned(FALSE) IN
    /\ status = "normal" /\ ~committed_history_pending
    /\ Len(log) + Len(queue) < MaxOp
    /\ ~install_pending(g, s)
    /\ matches_consumer_owner(g, n)
    /\ s.uncertain => g \in durable[primary]
    /\ Admit(Op("store", g, n), s)

\* A finished group read commits its offset; it skips the request handler.
complete_poll(g) ==
    LET s == scanned(FALSE) IN
    /\ status = "normal" /\ Len(log) + Len(queue) < MaxOp
    /\ owners[primary][g] # 0
    /\ ~install_pending(g, s)
    /\ s.uncertain => g \in durable[primary]
    /\ Admit(Op("store", g, owners[primary][g]), s)

\* The head of the queue gets a slot; its owner is checked again.
drain_request_queue_into_prepares ==
    LET s == scanned(FALSE)
        o == Head(queue)
        freed == IF o.kind = "install" /\ s.latch = Installation(o)
                 THEN [s EXCEPT !.latch = None] ELSE s
    IN
    /\ status = "normal" /\ queue # <<>> /\ ~pipeline_is_full
    /\ queue' = Tail(queue)
    /\ IF o.kind = "store" /\ ~matches_consumer_owner(o.group, o.generation)
       THEN /\ scan' = freed
            /\ UNCHANGED <<consensus, journals>>
       ELSE /\ Prepared(o)
            /\ scan' = IF o.kind = "install" THEN [freed EXCEPT !.latch = Installation(o)] ELSE freed
    /\ UNCHANGED <<tables>>

------------------------------------------------------------------------------
\* The log.

\* A backup journals the next prepare.
on_replicate(r) ==
    /\ status = "normal" /\ r # primary /\ sequence[r] < Len(log)
    /\ holds' = [holds EXCEPT ![r] = @ \cup {sequence[r] + 1}]
    /\ sequence' = [sequence EXCEPT ![r] = @ + 1]
    /\ UNCHANGED <<consensus, queue, tables, scan>>

Frontier(h) == CHOOSE n \in 0..Cardinality(h) : 1..n \subseteq h /\ n + 1 \notin h

\* A repair frame fills a hole of the journal.
apply_repaired_prepare(r, o) ==
    /\ o <= sequence[r] \/ (status = "elect" /\ r = primary)
    /\ holds' = [holds EXCEPT ![r] = @ \cup {o}]
    /\ sequence' = [sequence EXCEPT ![r] = Max({@, Frontier(holds'[r])})]
    /\ scan' = IF r = primary THEN [scan EXCEPT !.needs = TRUE] ELSE scan
    /\ UNCHANGED <<consensus, queue, tables>>

advance_commit_max ==
    /\ status = "normal" /\ commit < Len(log)
    /\ Commits({r \in Replicas : commit < Frontier(holds[r])})
    /\ commit' = commit + 1
    /\ UNCHANGED <<log, view, status, primary, floor, queue, journals, tables, scan>>

\* The walk over the journal stops at a hole.
committed_held(r) == applied[r] < commit /\ applied[r] + 1 \in holds[r]

\* Apply the next committed op; the rows change before commit_min does, which
\* only a primary's handlers can tell.
commit_journal(r) ==
    LET o == log[applied[r] + 1]
        g == o.group
    IN
    /\ (r = primary => ~walking) /\ ~failed /\ committed_held(r)
    /\ walking' = (walking \/ r = primary)
    /\ applied' = IF r = primary THEN applied ELSE [applied EXCEPT ![r] = @ + 1]
    /\ IF o.kind = "install"
       THEN /\ owners' = [owners EXCEPT ![r][g] = Max({@, o.generation})]
            /\ UNCHANGED <<durable, failed>>
       ELSE /\ failed' = (owners[r][g] # o.generation)
            /\ durable' = [durable EXCEPT ![r] = @ \cup {g}]
            /\ UNCHANGED owners
    /\ scan' = IF r = primary THEN scanned(FALSE) ELSE scan
    /\ UNCHANGED <<consensus, queue, journals>>

Names(o) == log[o].kind = "install" /\ scan.latch = Installation(log[o])

\* The latch goes once commit_min passes the install it names.
released(o) == IF Names(o) THEN [scan EXCEPT !.latch = None] ELSE scan

publish_pending_commit ==
    /\ walking /\ ~failed
    /\ walking' = FALSE
    /\ applied' = [applied EXCEPT ![primary] = @ + 1]
    /\ scan' = released(applied[primary] + 1)
    /\ UNCHANGED <<consensus, queue, journals, owners, durable, failed>>

------------------------------------------------------------------------------
\* View changes.

start_view_change(p) ==
    /\ view < MaxViews /\ ~failed
    /\ view' = view + 1 /\ status' = "view_change" /\ primary' = p
    /\ queue' = <<>> /\ scan' = Unscanned
    /\ walking' = (walking /\ p = primary)
    /\ applied' = IF walking /\ p # primary THEN [applied EXCEPT ![primary] = @ + 1] ELSE applied
    /\ UNCHANGED <<log, commit, floor, journals, owners, durable, failed>>

\* The voters Q decide the log.  The merge walks up from the commit point as
\* long as a voter offers the op, and ends where enough of them nack the next
\* one.  Only a voter that lacks an op nacks it, and it may abstain.  What is cut
\* from a journal is cut now; the others learn the head when the view starts.
complete_view_change_as_primary(Q, head) ==
    /\ status = "view_change" /\ StartsView(Q) /\ primary \in Q
    /\ 1..head \subseteq UNION {holds[r] : r \in Q}
    /\ DeniesOp({r \in Q : head + 1 \notin holds[r]})
    /\ status' = "elect"
    /\ log' = SubSeq(log, 1, head)
    /\ holds' = [r \in Replicas |-> holds[r] \cap 1..head]
    /\ sequence' = [r \in Replicas |-> Min({sequence[r], head})]
    /\ commit' \in Max({applied[r] : r \in Q})..commit
    /\ scan' = IF holds'[primary] = holds[primary] THEN scan
               ELSE [scan EXCEPT !.truncated = TRUE, !.needs = TRUE]
    /\ UNCHANGED <<view, primary, floor, queue, tables>>

\* A plausible slip: the tick repeats the scan before it starts the view.
repeated_early(tick) == scan

\* The rest of the tick that started the view.
repeated(tick) == IF tick /\ scan.uncertain THEN rescanned(Len(log)) ELSE scan

\* The elect starts the view on a tick, or as soon as its journal was cut.
start_pending_view(tick) ==
    /\ status = "elect" /\ 1..Len(log) \subseteq holds[primary]
    /\ status' = "normal"
    /\ sequence' = [r \in Replicas |-> Len(log)]
    /\ floor' = Max({applied[primary], commit})
    /\ scan' = repeated(tick)
    /\ UNCHANGED <<log, commit, view, primary, queue, holds, tables>>

------------------------------------------------------------------------------

on_request ==
    \E g \in Groups :
        \/ \E n \in Generations(g) : install_owner(g, n)
        \/ \E n \in DOMAIN Decisions : store_offset(g, n)
        \/ complete_poll(g)

Next ==
    \/ resynchronize(FALSE) \/ (scan.uncertain /\ resynchronize(TRUE))
    \/ on_request \/ drain_request_queue_into_prepares \/ publish_pending_commit
    \/ advance_commit_max
    \/ \E r \in Replicas :
           \/ on_replicate(r) \/ commit_journal(r)
           \/ \E o \in (1..Len(log)) \ holds[r] : apply_repaired_prepare(r, o)
           \/ start_view_change(r)
    \/ \E Q \in SUBSET Replicas, head \in 0..Len(log) : complete_view_change_as_primary(Q, head)
    \/ start_pending_view(TRUE) \/ (scan.truncated /\ start_pending_view(FALSE))

Spec == Init /\ [][Next]_vars

------------------------------------------------------------------------------
\* Properties.

Symmetry == Permutations(Replicas)

Ops == [kind : {"install", "store"}, group : Groups, generation : DOMAIN Decisions]

\* Every variable keeps its type; a replica applies only what it holds, and
\* the sequencer of a replica never passes the log.
TypeOK ==
    /\ Range(log) \cup Range(queue) \subseteq Ops
    /\ commit \in 0..Len(log) /\ Len(queue) <= QUEUE_MAX
    /\ \A r \in Replicas :
          /\ holds[r] \subseteq 1..Len(log) /\ 1..applied[r] \subseteq holds[r]
          /\ sequence[r] \in 0..Len(log)
          /\ owners[r] \in [Groups -> 0..Len(Decisions)] /\ durable[r] \subseteq Groups

\* No install is ordered twice.  The latch keeps an install from a primary that
\* knows of it; a reconciler that asks again after a view change, before the new
\* primary has repaired the first copy, or after it was applied, gets a second.
InstallsOnce ==
    LET s == log \o queue
    IN \A i, j \in DOMAIN s : s[i] = s[j] /\ s[i].kind = "install" => i = j

\* No committed op fails to apply as long as no install is ordered twice: a
\* store admitted under one owner never commits behind the install of another,
\* through queues, views, repairs and truncations.  A mismatch at apply
\* (plan_committed_offset) is fatal, and on every replica.  The condition is
\* needed: with copies, publishing one releases the latch that stands for the
\* other, and an older install may follow a newer one.
CommittedOpsApply == InstallsOnce => ~failed

\* The latch of a primary that scanned its log names an install that is still
\* on its way, in the queue or unapplied in the log.  One left behind would
\* refuse every later install as superseded, for ever.
LatchIsLive ==
    LET s == scanned(FALSE)
        ahead == {queue[i] : i \in DOMAIN queue}
                 \cup {log[o] : o \in (applied[primary] + 1)..Len(log)}
    IN (status = "normal" /\ s.latch # None) =>
          Op("install", s.latch.group, s.latch.generation) \in ahead
==============================================================================
