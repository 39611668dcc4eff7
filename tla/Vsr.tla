------------------------------- MODULE Vsr -------------------------------
(***************************************************************************)
(* The metadata group of a cluster: normal operation, view changes and     *)
(* journal repair.  Each action is one message handler or timer of one     *)
(* replica, run to its end; the awaits inside a handler are the subject of *)
(* PrimaryPipeline.                                                        *)
(*                                                                         *)
(* `msgs` holds every message sent that some replica may still read, and a *)
(* handler does not consume what it reads: messages are lost, delayed,     *)
(* duplicated and reordered.  A timer that repeats a message changes       *)
(* nothing and is not an action.                                           *)
(* A header's checksum is the number of the mint that produced it; it does *)
(* not cover the view, which a retransmit restamps.                        *)
(***************************************************************************)
EXTENDS ViewLog

CONSTANTS
    replica_count,
    prepare_queue_max,      \* prepares in flight at one primary
    prepare_queue_ceiling,  \* PREPARE_QUEUE_CEILING, the deepest pipeline of any peer
    MaxView,                \* bound: highest view
    MaxOps,                 \* bound: highest op
    MaxMints,               \* bound: prepares minted by all primaries
    MaxRepairs              \* bound: repair replies in flight

ASSUME VsrAssumption ==
    /\ replica_count \in Nat \ {0}
    /\ prepare_queue_max \in Nat \ {0}
    /\ prepare_queue_ceiling \in Nat /\ prepare_queue_ceiling >= prepare_queue_max
    /\ MaxView \in Nat /\ MaxOps \in Nat /\ MaxMints \in Nat /\ MaxRepairs \in Nat

VARIABLES
    node,     \* the state of each replica
    msgs,     \* messages sent
    minted    \* prepares minted so far

vars == <<node, msgs, minted>>

Replicas == 0..(replica_count - 1)
Ops == 1..MaxOps
Unbounded == MaxOps + 1   \* u64::MAX of view_log_unproven_through

primary_index(view) == view % replica_count

-----------------------------------------------------------------------------
(* Messages *)

StartViewChange(v, from) == [type |-> "StartViewChange", view |-> v, from |-> from]
DoViewChange(v, dvc) == [type |-> "DoViewChange", view |-> v, dvc |-> dvc]
StartView(v, op, commit, headers) ==
    [type |-> "StartView", view |-> v, op |-> op, commit |-> commit, headers |-> headers]
Prepare(h) == [type |-> "Prepare", view |-> h.view, hdr |-> h]
PrepareOk(v, from, h) ==
    [type |-> "PrepareOk", view |-> v, from |-> from, op |-> h.op, checksum |-> h.checksum]
Commit(v, commit) == [type |-> "Commit", view |-> v, commit |-> commit]
RepairPrepare(to, h) == [type |-> "RepairPrepare", to |-> to, hdr |-> h]

Sent(type) == {m \in msgs : m.type = type}

\* Whether replica r may still act on a message: its view is not behind the
\* replica's, a vote has not been counted or superseded, an ack or a commit
\* point not been seen.
ReadableBy(m, r, n) ==
    CASE m.type = "Prepare" \/ m.type = "StartView" ->
            n.view < m.view \/ (n.view = m.view /\ r # primary_index(m.view))
      [] m.type = "RepairPrepare" -> r = m.to /\ m.hdr.op > Len(n.applied)
      [] m.type = "PrepareOk" ->
            /\ r = primary_index(m.view) /\ n.view = m.view
            /\ m.op > Len(n.applied) /\ m.from \notin n.acks[m.op]
      [] m.type = "Commit" -> n.view <= m.view /\ n.commit_max < m.commit
      [] m.type = "StartViewChange" ->
            n.view < m.view \/ (n.view = m.view /\ n.status = "ViewChange" /\ ~n.sent_dvc)
      [] m.type = "DoViewChange" ->
            n.view < m.view \/ (n.view = m.view /\ r = primary_index(m.view) /\ ~n.dvc_quorum)

\* Handlers are operators on the record n of their replica: what they make of
\* it, and what they send.
Becomes(r, n, sends) ==
    LET nodes == [node EXCEPT ![r] = n]
    IN  /\ node' = nodes
        /\ msgs' = {m \in msgs \cup sends : \E s \in Replicas : ReadableBy(m, s, nodes[s])}

-----------------------------------------------------------------------------
(* Reads of a replica's state *)

commit_min(n) == Len(n.applied)
dvc_commit(n) == Min({n.commit_max, n.sequencer})
is_primary(r, n) == primary_index(n.view) = r
is_normal(n) == n.status = "Normal"
is_primary_elect(n) == n.dvc_quorum /\ n.pending # NoLog

\* view_log_repair_op, 0 for none.
view_log_repair_op(n) ==
    IF n.unproven /\ n.missing > commit_min(n) THEN n.missing ELSE 0

view_log_entry_proven(n, op) == ~n.unproven \/ op <= commit_min(n) \/ op > n.through

view_log_head(n) == IF n.pending # NoLog THEN n.pending.op_head ELSE n.sequencer

view_log_proof_covers(n, op) ==
    ~view_log_entry_proven(n, op) /\ op <= view_log_head(n)

\* Highest view whose log this replica can claim to hold.
log_view_claim(n) == Max({n.certificate.view, n.adopted.view})

\* adopted_view_headers: what a settled view decided, never the replica's own
\* parked merge.
adopted_view_headers(r, n) ==
    IF n.pending # NoLog /\ ~is_primary(r, n) THEN n.pending.headers
    ELSE IF n.unproven THEN n.adopted.headers ELSE <<>>

\* refresh_metadata_dvc_suffix.
local_dvc_suffix(r, n) ==
    build_dvc_suffix(dvc_commit(n), n.sequencer, n.journal, adopted_view_headers(r, n),
        {op \in Ops : op > commit_min(n) /\ n.unproven /\ op <= n.through})

\* The DoViewChange of a replica: the suffix was snapshot before the handler ran.
own_dvc(r, n) ==
    [replica |-> r, log_view |-> log_view_claim(n), op |-> n.sequencer,
     commit |-> dvc_commit(n), untrusted |-> FALSE, suffix |-> local_dvc_suffix(r, n)]

\* An unsolicited or requested announcement of the primary's settled log.
own_start_view(r, n) ==
    StartView(n.view, n.sequencer, dvc_commit(n), suffix_headers(local_dvc_suffix(r, n)))

-----------------------------------------------------------------------------
(* Changes of a replica's state *)

\* Mutant: the commit point follows whatever message came last.
set_commit_max(n, commit) == [n EXCEPT !.commit_max = commit]

advance_commit_max(n, commit) == [n EXCEPT !.commit_max = Max({@, commit})]

\* The journal walk applies held ops up to the commit point, in order, once the
\* log is proven.
commit_journal(n) ==
    LET reach == {k \in commit_min(n)..n.commit_max :
                     \A op \in (commit_min(n) + 1)..k : Held(n.journal, op)}
    IN  IF n.unproven \/ n.commit_max <= commit_min(n) THEN n
        ELSE [n EXCEPT !.applied = [op \in 1..Max(reach) |->
                 IF op <= Len(@) THEN @[op] ELSE n.journal[op].checksum]]

certify_view_log(n, head) ==
    [n EXCEPT !.certificate = [view |-> n.log_view, op |-> head.op, checksum |-> head.checksum]]

extend_history_certificate(n, h) ==
    IF n.certificate.view = n.log_view /\ n.certificate.op < h.op
       /\ is_normal(n) /\ ~n.unproven
    THEN certify_view_log(n, h) ELSE n

\* metadata_wal_head: the highest held op below `from`.
wal_head(n, from) ==
    LET At(op) == [op |-> op, checksum |-> IF op = 0 THEN 0 ELSE n.journal[op].checksum]
    IN  At(Max({0} \cup {o \in Ops : o < from /\ Held(n.journal, o)}))

\* lower_metadata_certificate_below, then the removal of the entries.
remove_entries(n, ops) ==
    LET Below(head) == [view |-> n.certificate.view, op |-> head.op, checksum |-> head.checksum]
    IN  [n EXCEPT !.certificate = IF @.op < Min(ops) THEN @ ELSE Below(wal_head(n, Min(ops))),
                  !.journal = [op \in Ops |-> IF op \in ops THEN dvc_blank(op) ELSE @[op]]]

append(n, h) == extend_history_certificate([n EXCEPT !.journal[h.op] = h], h)

fence_view_log(n, op, through) ==
    [n EXCEPT !.unproven = TRUE, !.through = through, !.missing = op]

\* The proof of the replica's journal against the log of its view.
own_proof(n) ==
    view_log_proof(commit_min(n), n.pending.headers, view_log_head(n), n.journal)

\* settle_view_log_proof, or the fence at the op the proof waits for.
settle(n, proof) ==
    LET settled == [n EXCEPT !.unproven = FALSE, !.through = Unbounded, !.missing = 0]
    IN  IF proof.kind # "Proven" THEN fence_view_log(n, proof.first, proof.last)
        ELSE IF is_normal(n) THEN certify_view_log(settled, wal_head(n, MaxOps + 1))
        ELSE settled

\* Mutant: nothing is cut or removed, only missing ops are asked for.
reconcile_only_fences(n) ==
    LET Lenient(proof) == IF proof.kind = "Missing" THEN proof
                          ELSE ProofResult("Proven", 0, 0)
    IN  IF ~n.unproven THEN n ELSE settle(n, Lenient(own_proof(n)))

\* reconcile_metadata_view_log: cut what stands above the view's head, remove
\* divergent entries until the proof settles or names a missing op.
reconcile(n) ==
    LET above == Max({view_log_head(n), commit_min(n)}) + 1
        Rewrite(m, proof) ==
            IF proof.kind = "Divergent"
            THEN remove_entries(fence_view_log(m, proof.last, proof.last),
                                proof.first..proof.last)
            ELSE m
        RewriteOnce(m) == Rewrite(m, own_proof(m))
        rewrite[k \in 0..MaxOps] ==
            IF k > 0 THEN RewriteOnce(rewrite[k - 1])
            ELSE IF view_log_repair_op(n) = 0 /\ last_op(n.journal) >= above
            THEN remove_entries(n, above..MaxOps)
            ELSE n
        Settle(m) == settle(m, own_proof(m))
    IN  IF n.unproven THEN Settle(rewrite[MaxOps]) ELSE n

\* The prepare queue outlives this in the code, unread until it is cleared.
reset_view_change_state(n) ==
    [n EXCEPT !.svc = {}, !.dvc = {}, !.dvc_quorum = FALSE, !.sent_dvc = FALSE,
              !.pending = NoLog, !.acks = [op \in Ops |-> {}]]

enter_view_change(r, n, v) ==
    [reset_view_change_state(n) EXCEPT !.view = v, !.status = "ViewChange", !.svc = {r}]

\* Mutant: a held prepare is acked before the view's log is proven.
send_prepare_ok_unproven(r, n, h) ==
    IF /\ is_normal(n)
       /\ Held(n.journal, h.op) /\ n.journal[h.op].checksum = h.checksum
       /\ h.op <= n.sequencer
    THEN {PrepareOk(n.view, r, h)} ELSE {}

\* send_prepare_ok, with the plane's check that the entry is in the journal.
send_prepare_ok(r, n, h) ==
    IF /\ is_normal(n) /\ ~n.unproven /\ n.certificate.view = n.log_view
       /\ Held(n.journal, h.op) /\ n.journal[h.op].checksum = h.checksum
       /\ h.op <= n.sequencer
    THEN {PrepareOk(n.view, r, h)} ELSE {}

-----------------------------------------------------------------------------
NoAdopted == [view |-> -1, headers |-> <<>>]

Init ==
    /\ node = [r \in Replicas |->
          [status |-> "Normal", view |-> 0, log_view |-> 0, sequencer |-> 0,
           last_checksum |-> 0, commit_max |-> 0, applied |-> <<>>,
           svc |-> {}, dvc |-> {}, sent_dvc |-> FALSE, dvc_quorum |-> FALSE,
           pending |-> NoLog, unproven |-> FALSE, through |-> Unbounded, missing |-> 0,
           certificate |-> [view |-> 0, op |-> 0, checksum |-> 0],
           adopted |-> NoAdopted, acks |-> [op \in Ops |-> {}],
           journal |-> [op \in Ops |-> dvc_blank(op)]]]
    /\ msgs = {}
    /\ minted = 0

-----------------------------------------------------------------------------
(* Normal operation *)

\* Mutant: a minted prepare is not remembered as the parent of the next.
on_request_keeps_parent(r) ==
    LET n == node[r]
        h == [op |-> n.sequencer + 1, checksum |-> minted + 1, parent |-> n.last_checksum,
              view |-> n.view, commit |-> n.commit_max]
    IN  /\ minted < MaxMints /\ n.sequencer < MaxOps
        /\ is_normal(n) /\ is_primary(r, n)
        /\ commit_min(n) = n.commit_max
        /\ n.sequencer - n.commit_max < prepare_queue_max
        /\ minted' = h.checksum
        /\ Becomes(r, append([n EXCEPT !.sequencer = h.op, !.acks[h.op] = {r}], h),
                   {Prepare(h)})

\* on_request: a caught-up primary with a free prepare slot mints, journals and
\* acks the next op.
on_request(r) ==
    LET n == node[r]
        h == [op |-> n.sequencer + 1, checksum |-> minted + 1, parent |-> n.last_checksum,
              view |-> n.view, commit |-> n.commit_max]
    IN  /\ minted < MaxMints
        /\ n.sequencer < MaxOps
        /\ is_normal(n) /\ is_primary(r, n)
        /\ commit_min(n) = n.commit_max
        /\ n.sequencer - n.commit_max < prepare_queue_max
        /\ minted' = h.checksum
        /\ Becomes(r, append([n EXCEPT !.sequencer = h.op, !.last_checksum = h.checksum,
                                       !.acks[h.op] = {r}], h),
                   {Prepare(h)})

\* panic_if_hash_chain_would_break_in_same_view.
hash_chain_would_break(n, h) ==
    LET previous == n.journal[h.op - 1]
    IN  /\ h.op > 1 /\ Held(n.journal, h.op - 1)
        /\ previous.view = h.view /\ previous.checksum # h.parent

\* Whether on_replicate of a backup gets to append the prepare.
admits_prepare(r, n, h) ==
    /\ is_normal(n) /\ n.view = h.view /\ ~is_primary(r, n)
    /\ h.op > commit_min(n)
    /\ ~Held(n.journal, h.op)
    /\ h.op = last_op(n.journal) + 1

\* on_replicate of a backup.  An op it has applied or holds is acked again; the
\* next op of the journal is appended; any other is dropped.
on_replicate(r, h) ==
    LET n == advance_commit_max(node[r], h.commit)
        appended == [append(n, h) EXCEPT !.sequencer = h.op, !.last_checksum = h.checksum]
    IN  /\ is_normal(n) /\ n.view = h.view /\ ~is_primary(r, n)
        /\ IF admits_prepare(r, n, h)
           THEN /\ ~hash_chain_would_break(n, h)
                /\ Becomes(r, commit_journal(appended), send_prepare_ok(r, appended, h))
           ELSE Becomes(r, n, send_prepare_ok(r, n, h))
        /\ UNCHANGED minted

\* on_ack of the primary: the commit point walks up while the next op has its
\* quorum; committed prepares are popped and applied.
on_ack(r, m) ==
    LET n == node[r]
        acks == [n.acks EXCEPT ![m.op] = @ \cup {m.from}]
        Quorum(op) == Cardinality(acks[op]) >= quorum_replication(replica_count)
        commit == Max({k \in n.commit_max..MaxOps :
                          \A op \in (n.commit_max + 1)..k : Quorum(op)})
        done == commit_journal([n EXCEPT !.commit_max = commit, !.acks = acks])
    IN  /\ is_normal(n) /\ is_primary(r, n) /\ m.view = n.view
        /\ n.acks[m.op] # {} /\ m.from \notin n.acks[m.op]
        /\ n.journal[m.op].checksum = m.checksum
        /\ Becomes(r, [done EXCEPT !.acks = [op \in Ops |->
                          IF op <= commit_min(done) THEN {} ELSE @[op]]],
                   IF commit_min(done) > commit_min(n)
                   THEN {Commit(n.view, commit_min(done))} ELSE {})
        /\ UNCHANGED minted

\* handle_commit of a backup: the heartbeat's commit point, then the walk.
handle_commit(r, m) ==
    LET n == node[r]
    IN  /\ is_normal(n) /\ ~is_primary(r, n) /\ m.view = n.view
        /\ m.commit > n.commit_max
        /\ Becomes(r, commit_journal(advance_commit_max(n, m.commit)), {})
        /\ UNCHANGED minted

\* The walk of the tick and of RepairDone.
resume_commit_journal(r) ==
    /\ commit_journal(node[r]) # node[r]
    /\ is_normal(node[r])
    /\ Becomes(r, commit_journal(node[r]), {})
    /\ UNCHANGED minted

-----------------------------------------------------------------------------
(* View change *)

\* start_election: a backup that misses the heartbeat, a view change that
\* timed out, or a probe nobody answered.
start_election(r) ==
    LET n == node[r]
    IN  /\ n.view < MaxView
        /\ is_normal(n) => ~is_primary(r, n)
        /\ Becomes(r, enter_view_change(r, n, n.view + 1), {StartViewChange(n.view + 1, r)})
        /\ UNCHANGED minted

\* begin_view_probe: a view above this one has started, and its primary's
\* heartbeat was dropped here (observed_newer_view), so the replica waits for a
\* StartView instead of electing.
begin_view_probe(r) ==
    LET n == node[r]
    IN  /\ is_normal(n)
        /\ \E s \in Replicas : node[s].log_view > n.view
        /\ Becomes(r, [n EXCEPT !.status = "Recovering"], {})
        /\ UNCHANGED minted

\* complete_view_change_as_primary: merge, and park the log the merge decided.
\* The DVCs are not read again.
complete_view_change_as_primary(n) ==
    LET Park(merged) ==
            IF \/ merged.kind # "Ready"
               \/ merged.log.op_head - merged.log.commit_max > prepare_queue_max
            THEN n
            ELSE [advance_commit_max(n, merged.log.commit_max) EXCEPT
                     !.dvc_quorum = TRUE, !.dvc = {}, !.pending = merged.log,
                     !.unproven = TRUE, !.through = Unbounded, !.missing = 0]
    IN  IF n.dvc_quorum \/ Cardinality(n.dvc) < quorum_view_change(replica_count) THEN n
        ELSE Park(merge_view_change(n.dvc, replica_count, prepare_queue_ceiling))

\* The replica in the view of a message: it enters that view if it is newer.
in_view_of(r, n, m) == IF m.view > n.view THEN enter_view_change(r, n, m.view) ELSE n
joins(r, n, m) == IF m.view > n.view THEN {StartViewChange(m.view, r)} ELSE {}

\* Counted while the replica has not voted.  (A Normal replica of the view counts
\* it too, and its DoViewChange reaches a primary that has decided the log.)
handle_start_view_change(r, m) ==
    LET old == node[r]
        Voted(n, own) == [n EXCEPT !.sent_dvc = TRUE, !.svc = {},
                             !.dvc = IF is_primary(r, n) THEN dvc_record(@, own) ELSE @]
        Heard(n, own) ==
            IF n.sent_dvc \/ Cardinality(n.svc \ {r}) < max_faulty(replica_count)
            THEN Becomes(r, n, joins(r, old, m))
            ELSE Becomes(r, IF is_primary(r, n)
                            THEN complete_view_change_as_primary(Voted(n, own))
                            ELSE Voted(n, own),
                         joins(r, old, m) \cup {DoViewChange(m.view, own)})
    IN  /\ old.status # "Recovering" /\ m.view >= old.view /\ m.from # r
        /\ \/ m.view > old.view
           \/ old.status = "ViewChange" /\ ~old.sent_dvc /\ m.from \notin old.svc
        /\ Heard([in_view_of(r, old, m) EXCEPT !.svc = @ \cup {m.from}], own_dvc(r, old))
        /\ UNCHANGED minted

handle_do_view_change(r, m) ==
    LET old == node[r]
        Own(n) == IF n.sent_dvc THEN n
                  ELSE [n EXCEPT !.sent_dvc = TRUE, !.dvc = dvc_record(@, own_dvc(r, old))]
        Accepted(n) == [n EXCEPT !.dvc = dvc_record(@, m.dvc)]
        Collects(n) == is_primary(r, n) /\ n.status = "ViewChange" /\ ~n.dvc_quorum
        Receive(n) == IF Collects(n) THEN complete_view_change_as_primary(Accepted(Own(n)))
                      ELSE n
    IN  /\ old.status # "Recovering" /\ m.view >= old.view /\ m.dvc.replica # r
        /\ dvc_suffix_decodes(m.dvc.op, suffix_headers(m.dvc.suffix))
        /\ m.view > old.view \/ (Collects(old) /\ dvc_accepts(old.dvc, m.dvc))
        /\ Becomes(r, Receive(in_view_of(r, old, m)), joins(r, old, m))
        /\ UNCHANGED minted

\* start_pending_view and the actions its caller dispatches: the merged log is
\* installed and announced, the walk catches up and the pipeline is rebuilt from
\* the journal, whose prepares the prepare timer sends again under this view.
start_pending_view(r, n) ==
    LET log == n.pending
        rebuild == (Max({commit_min(n), log.commit_max}) + 1)..log.op_head
        checksum == IF log.headers = <<>> THEN 0 ELSE log.headers[1].checksum
        started == [n EXCEPT !.pending = NoLog, !.adopted = NoAdopted, !.dvc = {},
                             !.status = "Normal", !.sequencer = log.op_head,
                             !.last_checksum = IF log.headers = <<>> THEN @ ELSE checksum,
                             !.log_view = n.view,
                             !.acks = [op \in Ops |-> IF op \in rebuild THEN {r} ELSE {}]]
        Announce(ready) ==
            Becomes(r, ready,
                {StartView(n.view, log.op_head, log.commit_max, log.headers),
                 Commit(n.view, commit_min(ready))}
                \cup {Prepare([n.journal[op] EXCEPT !.view = n.view]) : op \in rebuild})
    IN  Announce(commit_journal(
            certify_view_log(started, [op |-> log.op_head, checksum |-> checksum])))

\* advance_pending_metadata_view, the tick of a primary-elect: reconcile the
\* journal with the merged log, and start the view once every op is covered.
advance_pending_metadata_view(r) ==
    LET Reconciled(n) ==
            IF ~n.unproven /\ first_op_not_covered(n.pending, commit_min(n), n.journal) = 0
            THEN start_pending_view(r, n)
            ELSE n # node[r] /\ Becomes(r, n, {})
    IN  /\ is_primary_elect(node[r])
        /\ Reconciled(reconcile(node[r]))
        /\ UNCHANGED minted

-----------------------------------------------------------------------------
(* StartView *)

\* The view names a different prepare at an op this replica applied.
contradicts_applied_log(n, headers) ==
    \E i \in 1..Len(headers) :
        /\ IsValid(headers[i])
        /\ headers[i].op <= commit_min(n)
        /\ Held(n.journal, headers[i].op)
        /\ n.journal[headers[i].op].checksum # headers[i].checksum

\* try_handle_start_view on the replica's record.
adopt_start_view(n, m) ==
    LET fresh == ~n.unproven /\ is_normal(n) /\ n.log_view = m.view
        log == [op_head |-> m.op, commit_max |-> m.commit, headers |-> m.headers,
                elsewhere |-> {}]
    IN  [reset_view_change_state(advance_commit_max(n, m.commit)) EXCEPT
            !.view = m.view, !.log_view = m.view, !.status = "Normal",
            !.unproven = ~fresh, !.through = Unbounded, !.missing = 0,
            !.pending = IF m.headers = <<>> /\ fresh THEN NoLog ELSE log,
            !.adopted = [view |-> m.view, headers |-> m.headers],
            !.sequencer = m.op]

\* on_start_view: adopt, reconcile, ack what is held, walk.  An unproven log
\* stops after the reconciliation.
on_start_view(r, m) ==
    LET n == node[r]
        same_log == is_normal(n) /\ ~n.unproven /\ m.view = n.log_view /\ m.op <= n.sequencer
        Oks(own) == UNION {send_prepare_ok(r, own, own.journal[op]) :
                              op \in {o \in (m.commit + 1)..m.op : Held(own.journal, o)}}
        Adopted(own) == IF own.unproven THEN Becomes(r, own, {})
                        ELSE Becomes(r, commit_journal(own), Oks(own))
    IN  /\ r # primary_index(m.view)
        /\ m.view >= n.view
        /\ IF same_log
           THEN /\ m.commit > n.commit_max
                /\ Becomes(r, commit_journal(advance_commit_max(n, m.commit)), {})
           ELSE /\ m.op >= n.commit_max
                /\ dvc_suffix_decodes(m.op, m.headers)
                /\ ~contradicts_applied_log(n, m.headers)
                /\ Adopted(reconcile(adopt_start_view(n, m)))
        /\ UNCHANGED minted

\* The settled primary announces its log again: to a probe
\* (handle_request_start_view), and when the heartbeat of an older view's
\* primary reaches it (RespondStartView of handle_commit).  These arrive at
\* once; the StartView that opened the view is the one that may arrive late.
announce_view(p, r) ==
    LET n == node[p]
    IN  /\ is_normal(n) /\ is_primary(p, n) /\ n.log_view = n.view
        /\ n.view = 0 =>
              \/ node[r].status = "Recovering"
              \/ node[r].status = "ViewChange" /\ ~is_primary(r, node[r])
        /\ on_start_view(r, own_start_view(p, n))

-----------------------------------------------------------------------------
(* Repair *)

\* The op a replica would ask a peer for, and up to where (0 for none):
\* maybe_request_metadata_repair, and the repair of a primary-elect.
repair_window(n) ==
    LET gap == view_log_repair_op(n)
        uncovered == first_op_not_covered(n.pending, commit_min(n), n.journal)
    IN  IF is_primary_elect(n)
        THEN [from |-> IF gap # 0 THEN gap
                       ELSE IF n.unproven THEN 0 ELSE uncovered,
              to |-> n.pending.op_head]
        ELSE IF ~is_normal(n) \/ (n.unproven /\ gap = 0) THEN [from |-> 0, to |-> 0]
        ELSE IF n.unproven
        THEN [from |-> gap, to |-> Max({n.sequencer, n.pending.op_head, gap})]
        ELSE IF commit_min(n) < n.commit_max
        THEN [from |-> commit_min(n) + 1, to |-> n.commit_max]
        ELSE [from |-> 0, to |-> 0]

\* on_request_prepares of `peer`: the run of proven entries that starts at the
\* first one it holds, up to repair_serve_ceiling.
on_request_prepares(peer, r) ==
    LET n == node[peer]
        window == repair_window(node[r])
        suffix_allowed == node[r].view = n.view /\ (is_normal(n) \/ is_primary(r, n))
        ceiling == Min({window.to,
                        IF suffix_allowed THEN Max({n.commit_max, n.sequencer})
                        ELSE commit_min(n)})
        held == {op \in window.from..ceiling : Held(n.journal, op)}
        served == {op \in held : \A o \in Min(held)..op :
                                    o \in held /\ view_log_entry_proven(n, o)}
        replies == {RepairPrepare(r, n.journal[op]) : op \in served}
    IN  /\ window.from # 0
        /\ n.status # "Recovering"
        /\ view_log_entry_proven(n, window.from)
        /\ held # {} /\ ~(replies \subseteq msgs)
        /\ Cardinality(Sent("RepairPrepare") \cup replies) <= MaxRepairs
        /\ Becomes(peer, n, replies)
        /\ UNCHANGED minted

\* note_repaired_view_header: a proven body names the head the view left blank.
note_repaired_view_header(n, h, evidence) ==
    IF /\ evidence = "Proven" /\ n.pending # NoLog /\ n.pending.op_head = h.op
       /\ n.pending.headers = <<>> \/ ~IsValid(n.pending.headers[1])
    THEN [n EXCEPT !.pending.headers = IF @ = <<>> THEN <<h>> ELSE [@ EXCEPT ![1] = h]]
    ELSE n

\* repaired_frontier_update: the contiguous head above the sequencer.
repaired_frontier(n) ==
    LET head == Max({k \in n.sequencer..MaxOps :
                        \A op \in (n.sequencer + 1)..k : Held(n.journal, op)})
    IN  IF Held(n.journal, head)
        THEN [n EXCEPT !.sequencer = head, !.last_checksum = n.journal[head].checksum]
        ELSE n

\* on_repair_prepare.  A slot that is held stays as it is; the proof goes on when
\* the op is the one it waits for.
on_repair_prepare(r, h) ==
    LET n == node[r]
        Agrees(named) == IsValid(named) => named.checksum = h.checksum
        Admits(evidence) == \/ evidence = "Proven"
                            \/ evidence = "Unproven" /\ view_log_proof_covers(n, h.op)
        Ingested(evidence) ==
            IF Held(n.journal, h.op) THEN note_repaired_view_header(n, h, evidence)
            ELSE repaired_frontier(note_repaired_view_header(append(n, h), h, evidence))
        Close(m) == IF view_log_repair_op(n) \in {0, h.op} THEN reconcile(m) ELSE m
        Receive(evidence) ==
            /\ Admits(evidence)
            /\ Becomes(r, Close(Ingested(evidence)), {})
    IN  /\ repair_op_in_scope(n.pending, is_primary_elect(n), commit_min(n), h.op)
        /\ Agrees(log_header_at(n.pending, h.op))
        /\ Receive(repaired_prepare_evidence(h, n.view, n.pending, n.journal,
                       {op \in Ops : view_log_entry_proven(n, op)}))
        /\ UNCHANGED minted

-----------------------------------------------------------------------------
Next ==
    \/ \E r \in Replicas :
          \/ on_request(r)
          \/ resume_commit_journal(r)
          \/ start_election(r)
          \/ begin_view_probe(r)
          \/ advance_pending_metadata_view(r)
          \/ \E p \in Replicas \ {r} : announce_view(p, r) \/ on_request_prepares(p, r)
    \/ \E m \in Sent("Prepare"), r \in Replicas : on_replicate(r, m.hdr)
    \/ \E m \in Sent("PrepareOk"), r \in Replicas : on_ack(r, m)
    \/ \E m \in Sent("Commit"), r \in Replicas : handle_commit(r, m)
    \/ \E m \in Sent("StartViewChange"), r \in Replicas : handle_start_view_change(r, m)
    \/ \E m \in Sent("DoViewChange"), r \in Replicas : handle_do_view_change(r, m)
    \/ \E m \in Sent("StartView"), r \in Replicas : on_start_view(r, m)
    \/ \E m \in Sent("RepairPrepare") : on_repair_prepare(m.to, m.hdr)

Spec == Init /\ [][Next]_vars

-----------------------------------------------------------------------------
(* Properties *)

\* Two replicas never apply different prepares at one op, through any view
\* change and repair: what one state machine executed, every one executes.
AppliedLogsAgree ==
    \A r \in Replicas : \A s \in 0..(r - 1) :
        \A op \in 1..Min({commit_min(node[r]), commit_min(node[s])}) :
            node[r].applied[op] = node[s].applied[op]

\* A primary that has started its view holds every op that any replica applied
\* in that view or an earlier one: the merge keeps committed ops, and repair
\* fills the holes before start_pending_view, not after.
CommittedSurvivesViewChange ==
    \A p, s \in Replicas :
        is_normal(node[p]) /\ is_primary(p, node[p]) /\ node[s].log_view <= node[p].view =>
            \A op \in 1..commit_min(node[s]) :
                node[p].journal[op].checksum = node[s].applied[op]

\* A StartView that opens a view ahead of a replica covers what that replica
\* knows to be committed and names no other prepare at an op it applied: neither
\* refusal of try_handle_start_view is ever met by a newer view.
StartViewCoversCommitted ==
    \A m \in Sent("StartView"), r \in Replicas :
        m.view > node[r].view =>
            m.op >= node[r].commit_max /\ ~contradicts_applied_log(node[r], m.headers)

\* Replicas that have proven the log of one view agree on every op they both
\* hold: reconciliation leaves no relic of an older view behind.
ProvenLogsAgree ==
    \A r \in Replicas : \A s \in 0..(r - 1) :
        /\ is_normal(node[r]) /\ ~node[r].unproven
        /\ is_normal(node[s]) /\ ~node[s].unproven
        /\ node[r].log_view = node[s].log_view
        => \A op \in Ops :
              Held(node[r].journal, op) /\ Held(node[s].journal, op)
                  => node[r].journal[op].checksum = node[s].journal[op].checksum

\* A replica whose ack the primary counts still holds that very prepare while it
\* has not moved to a later view, and its history certificate covers the op.
AckedIsCertified ==
    \A p \in Replicas :
        is_normal(node[p]) /\ is_primary(p, node[p]) =>
            \A op \in Ops : \A s \in node[p].acks[op] :
                node[s].log_view = node[p].view =>
                    /\ node[s].journal[op].checksum = node[p].journal[op].checksum
                    /\ node[s].certificate.view = node[s].log_view
                    /\ node[s].certificate.op >= op

\* No prepare a backup is about to append breaks the hash chain with the entry
\* below it: panic_if_hash_chain_would_break_in_same_view is unreachable.
HashChainHolds ==
    \A m \in Sent("Prepare"), r \in Replicas :
        admits_prepare(r, node[r], m.hdr) => ~hash_chain_would_break(node[r], m.hdr)

\* The votes a candidate has collected never make the merge give up: some log is
\* decided, or a further vote can decide it.
MergeIsDecidable ==
    \A r \in Replicas :
        node[r].dvc # {} =>
            merge_view_change(node[r].dvc, replica_count, prepare_queue_ceiling).kind
                # "Deadlocked"

\* No step takes back a view, a commit point or an applied op, and none rewrites
\* or removes the journal entry of an applied op.
NothingAppliedIsRewritten ==
    [][\A r \in Replicas :
          LET m == node[r]
              n == node'[r]
          IN  /\ n.view >= m.view /\ n.log_view >= m.log_view
              /\ n.commit_max >= m.commit_max
              /\ commit_min(n) >= commit_min(m)
              /\ \A op \in 1..commit_min(m) :
                    n.applied[op] = m.applied[op] /\ n.journal[op] = m.journal[op]]_vars
=============================================================================
