--------------------------- MODULE PrimaryPipeline ---------------------------
(***************************************************************************)
(* The prepare pipeline of the metadata primary for the life of one view,  *)
(* from the rebuild that opens the view to the view change that ends it.   *)
(*                                                                         *)
(* Everything runs on one single-threaded shard, but in many tasks: the    *)
(* message pump, the tick, and one detached task per in-process submit.    *)
(* Every `.await` is a point where another task runs, so each action below *)
(* is the code between two awaits of one task:                             *)
(*   - on_replicate: wait for journal_gate, checkpoint, append, chain      *)
(*     forward, self-ack (variable `tasks`, one record per prepare);       *)
(*   - commit_committable_prefix: peek, await the journal read, revalidate,*)
(*     pop and apply, drain the request queue (variable `driver`);         *)
(*   - commit_journal: the walk over committed ops below the pipeline.     *)
(* A prepare's checksum is the number of the mint that produced it.        *)
(***************************************************************************)
EXTENDS Integers, Sequences, FiniteSets

CONSTANTS
    Replicas,           \* replica ids of the group
    Self,               \* the primary of the view
    Clients,            \* client ids; at most one request in flight each
    NoClient,           \* the client of a prepare inherited from the old view
    Drivers,            \* tasks that can drive the commit loop
    Pump,               \* the driver that is the shard's message pump and tick
    quorum_replication, \* acks that commit a prepare
    PREPARE_QUEUE_MAX,
    REQUEST_QUEUE_MAX,
    MaxInherited,       \* bound: ops in the log the view starts from
    MaxPrepares         \* bound: prepares minted over the whole behaviour

ASSUME PipelineAssumption ==
    /\ Self \in Replicas
    /\ Pump \in Drivers
    /\ NoClient \notin Clients
    /\ IsFiniteSet(Replicas)
    /\ quorum_replication \in 1..Cardinality(Replicas)
    /\ PREPARE_QUEUE_MAX \in Nat \ {0}
    /\ REQUEST_QUEUE_MAX \in Nat \ {0}
    /\ MaxInherited \in 0..PREPARE_QUEUE_MAX
    /\ MaxPrepares \in Nat

VARIABLES
    status,            \* "Normal" while primary, "ViewChange" once superseded
    recovery_barrier,  \* op recovered at boot; admission waits for its commit
    sequencer,         \* last op minted
    last_checksum,     \* last_prepare_checksum, the parent of the next prepare
    minted,            \* prepares minted so far
    prepare_queue,     \* sequence of PipelineEntry
    request_queue,     \* sequence of clients waiting for a prepare slot
    journal,           \* set of headers appended to the WAL
    gate,              \* checksum of the task that holds journal_gate, 0 if free
    tasks,             \* on_replicate calls in progress
    loopback,          \* self-acks not yet handed to on_ack
    commit_min,
    commit_max,
    applied,           \* checksums applied to the state machine, by op
    driver,            \* what each commit driver is doing
    fatal              \* the process exited on an unreconcilable rollback

vars == <<status, recovery_barrier, sequencer, last_checksum, minted,
          prepare_queue, request_queue, journal, gate, tasks, loopback,
          commit_min, commit_max, applied, driver, fatal>>

queues == <<prepare_queue, request_queue>>
frontier == <<sequencer, last_checksum, minted>>
commits == <<commit_min, commit_max, applied>>

Header == [op : Nat, checksum : Nat, parent : Nat, client : Clients \cup {NoClient}]
PipelineEntry == [hdr : Header, acks : SUBSET Replicas, quorum : BOOLEAN]
Task == [hdr : Header, stage : {"gate", "checkpoint", "append", "replicate"},
         is_backup : BOOLEAN]
NoHeader == [op |-> 0, checksum |-> 0, parent |-> 0, client |-> NoClient]
DriverState == [mode : {"idle", "commit", "walk", "drain"}, hdr : Header]
Idle == [mode |-> "idle", hdr |-> NoHeader]

TypeOK ==
    /\ status \in {"Normal", "ViewChange"}
    /\ recovery_barrier \in Nat
    /\ sequencer \in Nat
    /\ last_checksum \in Nat
    /\ minted \in Nat
    /\ prepare_queue \in Seq(PipelineEntry)
    /\ request_queue \in Seq(Clients)
    /\ journal \in SUBSET Header
    /\ gate \in Nat
    /\ tasks \in SUBSET Task
    /\ loopback \in SUBSET Header
    /\ commit_min \in Nat
    /\ commit_max \in Nat
    /\ applied \in Seq(Nat)
    /\ driver \in [Drivers -> DriverState]
    /\ fatal \in BOOLEAN

-----------------------------------------------------------------------------
(* Reads of the state *)

is_primary == status = "Normal"

Journaled(op) == \E h \in journal : h.op = op

journal_head ==
    IF journal = {} THEN 0
    ELSE CHOOSE op \in {h.op : h \in journal} : \A h \in journal : h.op <= op

prepare_queue_full == Len(prepare_queue) >= PREPARE_QUEUE_MAX

\* LocalPipeline::pending_request, has_message_from_client.
has_message_from_client(c) ==
    \/ \E i \in 1..Len(prepare_queue) : prepare_queue[i].hdr.client = c
    \/ \E i \in 1..Len(request_queue) : request_queue[i] = c

is_caught_up_primary ==
    /\ is_primary
    /\ commit_max >= recovery_barrier
    /\ commit_min = commit_max

\* Where the commit loop goes from a pipeline and commit frontier: the head it
\* reads from the journal next, or on to draining the request queue.
peek_committable_head(queue, min, max) ==
    IF queue # <<>> /\ queue[1].hdr.op <= max /\ queue[1].hdr.op = min + 1
    THEN [mode |-> "commit", hdr |-> queue[1].hdr]
    ELSE [mode |-> "drain", hdr |-> NoHeader]

\* Mutant: the walk applies the op the pipeline holds.
walk_past_pipeline_head(queue, min, max) ==
    IF min < max /\ Journaled(min + 1)
    THEN [mode |-> "walk", hdr |-> CHOOSE h \in journal : h.op = min + 1]
    ELSE Idle

\* Where commit_journal goes: the next op's journal entry, unless the pipeline
\* owns that op or the journal has a hole there.
walk_from(queue, min, max) ==
    IF /\ min < max
       /\ ~(queue # <<>> /\ queue[1].hdr.op = min + 1)
       /\ Journaled(min + 1)
    THEN [mode |-> "walk", hdr |-> CHOOSE h \in journal : h.op = min + 1]
    ELSE Idle

-----------------------------------------------------------------------------
(* The view opens on an inherited log: start_pending_view made this replica *)
(* a Normal primary and RebuildPipeline pushed what is above the commit     *)
(* point.                                                                   *)

Inherited(i) == [op |-> i, checksum |-> i, parent |-> i - 1, client |-> NoClient]

rebuild_pipeline_entries(max, head) ==
    [i \in 1..(head - max) |->
        [hdr |-> Inherited(max + i), acks |-> {Self}, quorum |-> FALSE]]

InitFrom(head, max, recovery, min) ==
    /\ status = "Normal"
    /\ recovery_barrier = recovery
    /\ sequencer = head
    /\ last_checksum = head
    /\ minted = head
    /\ prepare_queue = rebuild_pipeline_entries(max, head)
    /\ request_queue = <<>>
    /\ journal = {Inherited(i) : i \in 1..head}
    /\ gate = 0
    /\ tasks = {}
    /\ loopback = {}
    /\ commit_min = min
    /\ commit_max = max
    /\ applied = [i \in 1..min |-> i]
    /\ driver = [d \in Drivers |-> Idle]
    /\ fatal = FALSE

Init ==
    \E head \in 0..MaxInherited :
    \E max, recovery \in 0..head : \E min \in 0..max :
        InitFrom(head, max, recovery, min)

-----------------------------------------------------------------------------
(* Admission *)

\* Mutant: the sequencer is advanced and the prepare replicated, never pipelined.
advance_without_push(c) ==
    LET h == [op |-> sequencer + 1, checksum |-> minted + 1,
              parent |-> last_checksum, client |-> c]
    IN  /\ minted < MaxPrepares
        /\ sequencer' = h.op
        /\ last_checksum' = h.checksum
        /\ minted' = h.checksum
        /\ tasks' = tasks \cup {[hdr |-> h, stage |-> "gate", is_backup |-> FALSE]}
        /\ UNCHANGED prepare_queue

\* prepare_request and push_prepare_entry: mint the next op, pipeline it,
\* advance the sequencer, and start on_replicate for it.
push_prepare_entry(c) ==
    LET h == [op |-> sequencer + 1, checksum |-> minted + 1,
              parent |-> last_checksum, client |-> c]
    IN  /\ minted < MaxPrepares
        /\ prepare_queue' = Append(prepare_queue,
                                   [hdr |-> h, acks |-> {}, quorum |-> FALSE])
        /\ sequencer' = h.op
        /\ last_checksum' = h.checksum
        /\ minted' = h.checksum
        /\ tasks' = tasks \cup {[hdr |-> h, stage |-> "gate", is_backup |-> FALSE]}

push_request(c) ==
    /\ Len(request_queue) < REQUEST_QUEUE_MAX
    /\ request_queue' = Append(request_queue, c)

\* on_request and submit_request_in_process: request_preflight (nothing of
\* this client in flight, catch-up gate), then the pipeline, or the request
\* queue when every prepare slot is taken.
on_request(c) ==
    /\ ~fatal
    /\ is_caught_up_primary
    /\ ~has_message_from_client(c)
    /\ \/ /\ ~prepare_queue_full
          /\ push_prepare_entry(c)
          /\ UNCHANGED request_queue
       \/ /\ prepare_queue_full
          /\ push_request(c)
          /\ UNCHANGED <<prepare_queue, frontier, tasks>>
    /\ UNCHANGED <<status, recovery_barrier, journal, gate, loopback, commits,
                   driver, fatal>>

\* submit_register_in_process absorbs a register into the request queue while
\* the catch-up gate is closed, where on_request turns the client away.
submit_register_in_process(c) ==
    /\ ~fatal
    /\ is_primary
    /\ ~has_message_from_client(c)
    /\ ~is_caught_up_primary
    /\ push_request(c)
    /\ UNCHANGED <<status, recovery_barrier, prepare_queue, frontier, journal,
                   gate, tasks, loopback, commits, driver, fatal>>

-----------------------------------------------------------------------------
(* on_replicate of a prepare this replica minted *)

Advance(t, stage) == (tasks \ {t}) \cup {[t EXCEPT !.stage = stage]}

\* LocalGate wakes every waiter and the first one polled wins: no queue order.
acquire_gate(t) ==
    /\ ~fatal
    /\ t.stage = "gate"
    /\ gate = 0
    /\ gate' = t.hdr.checksum
    /\ tasks' = Advance(t, "checkpoint")
    /\ UNCHANGED <<status, recovery_barrier, frontier, queues, journal,
                   loopback, commits, driver, fatal>>

\* After the checkpoint the role is read again: a task overtaken by a view
\* change continues as a backup, which drops a prepare that leaves a gap and
\* one whose superblock write fails.
begin_append(t) ==
    /\ ~fatal
    /\ t.stage = "checkpoint"
    /\ \/ /\ is_primary \/ t.hdr.op = journal_head + 1
          /\ tasks' = (tasks \ {t}) \cup
                {[hdr |-> t.hdr, stage |-> "append", is_backup |-> ~is_primary]}
          /\ UNCHANGED gate
       \/ /\ ~is_primary
          /\ tasks' = tasks \ {t}
          /\ gate' = 0
    /\ UNCHANGED <<status, recovery_barrier, frontier, queues, journal,
                   loopback, commits, driver, fatal>>

append_ok(t) ==
    /\ ~fatal
    /\ t.stage = "append"
    /\ ~Journaled(t.hdr.op)
    /\ journal' = journal \cup {t.hdr}
    /\ gate' = 0
    /\ tasks' = Advance(t, "replicate")
    /\ UNCHANGED <<status, recovery_barrier, frontier, queues, loopback,
                   commits, driver, fatal>>

\* Mutants: a rollback that hands back one op too many, one that keeps the
\* dead prepare as the parent of the next, one that drops the oldest entry.
Unwind(h, queue, op, checksum) ==
    IF /\ is_primary /\ sequencer = h.op
       /\ prepare_queue # <<>> /\ prepare_queue[Len(prepare_queue)].hdr = h
    THEN /\ prepare_queue' = queue
         /\ sequencer' = op
         /\ last_checksum' = checksum
         /\ UNCHANGED fatal
    ELSE UNCHANGED <<prepare_queue, sequencer, last_checksum, fatal>>
rollback_two_ops(h) ==
    Unwind(h, SubSeq(prepare_queue, 1, Len(prepare_queue) - 1), h.op - 2, h.parent)
rollback_keeps_parent(h) ==
    Unwind(h, SubSeq(prepare_queue, 1, Len(prepare_queue) - 1), h.op - 1, h.checksum)
rollback_drops_head(h) ==
    Unwind(h, Tail(prepare_queue), h.op - 1, h.parent)

\* rollback_pipelined_prepare on the four states it can find.
rollback_pipelined_prepare(h) ==
    \/ /\ ~is_primary                                   \* NotPreAdvanced
       /\ UNCHANGED <<prepare_queue, sequencer, last_checksum, fatal>>
    \/ /\ is_primary
       /\ sequencer = h.op                              \* Unwound
       /\ prepare_queue # <<>>
       /\ prepare_queue[Len(prepare_queue)].hdr = h
       /\ prepare_queue' = SubSeq(prepare_queue, 1, Len(prepare_queue) - 1)
       /\ sequencer' = h.op - 1
       /\ last_checksum' = h.parent
       /\ UNCHANGED fatal
    \/ /\ is_primary                                    \* Overtaken, TailMismatch
       /\ \/ sequencer # h.op
          \/ prepare_queue = <<>>
          \/ prepare_queue[Len(prepare_queue)].hdr # h
       /\ fatal' = TRUE
       /\ UNCHANGED <<prepare_queue, sequencer, last_checksum>>

append_failed(t) ==
    /\ ~fatal
    /\ t.stage = "append"
    /\ gate' = 0
    /\ tasks' = tasks \ {t}
    /\ rollback_pipelined_prepare(t.hdr)
    /\ UNCHANGED <<status, recovery_barrier, minted, request_queue, journal,
                   loopback, commits, driver>>

\* The chain forward returned. A task that continued as a backup moves the
\* sequencer; the self-ack is queued unless the superblock write failed or the
\* replica left Normal; a follower walks its journal.
finish_replicate(t, d) ==
    /\ ~fatal
    /\ t.stage = "replicate"
    /\ tasks' = tasks \ {t}
    /\ IF t.is_backup
       THEN sequencer' = t.hdr.op /\ last_checksum' = t.hdr.checksum
       ELSE UNCHANGED <<sequencer, last_checksum>>
    /\ \/ is_primary /\ t.hdr.op <= sequencer' /\ loopback' = loopback \cup {t.hdr}
       \/ UNCHANGED loopback
    /\ IF is_primary
       THEN UNCHANGED driver
       ELSE /\ driver[d] = Idle
            /\ driver' = [driver EXCEPT ![d] =
                            walk_from(prepare_queue, commit_min, commit_max)]
    /\ UNCHANGED <<status, recovery_barrier, minted, queues, journal, gate,
                   commits, fatal>>

-----------------------------------------------------------------------------
(* Acks *)

\* handle_prepare_ok on one entry.
add_ack(e, r) ==
    LET acks == e.acks \cup {r}
    IN  [hdr |-> e.hdr, acks |-> acks,
         quorum |-> e.quorum \/ Cardinality(acks) >= quorum_replication]

\* Mutant: the newest entry with a quorum commits everything before it.
quorum_frontier_with_gaps(queue, max) ==
    CHOOSE new \in max..(max + Len(queue)) :
        \A i \in 1..Len(queue) : queue[i].quorum => queue[i].hdr.op <= new

\* ack_quorum_reached: the commit point walks up while each next entry of the
\* pipeline has its quorum.
quorum_frontier(queue, max) ==
    LET HasQuorum(op) ==
            \E i \in 1..Len(queue) : queue[i].hdr.op = op /\ queue[i].quorum
    IN  max + Cardinality({k \in 1..Len(queue) :
                              \A op \in (max + 1)..(max + k) : HasQuorum(op)})

\* ack_preflight and the checks of handle_prepare_ok.
accepts_ack(r, h) ==
    /\ is_primary
    /\ \E i \in 1..Len(prepare_queue) :
          prepare_queue[i].hdr = h /\ r \notin prepare_queue[i].acks

\* on_ack for a prepare the pipeline holds; the caller is an idle driver, and
\* it enters the commit loop when the commit point moved.
on_ack(d, r, h) ==
    /\ accepts_ack(r, h)
    /\ \E i \in 1..Len(prepare_queue) :
          LET e == prepare_queue[i]
              queue == [prepare_queue EXCEPT ![i] = add_ack(e, r)]
              new_commit == IF queue[i].quorum /\ ~e.quorum
                            THEN quorum_frontier(queue, commit_max)
                            ELSE commit_max
          IN  /\ e.hdr = h
              /\ prepare_queue' = queue
              /\ commit_max' = new_commit
              /\ driver' = IF new_commit > commit_max
                           THEN [driver EXCEPT ![d] =
                                   peek_committable_head(queue, commit_min, new_commit)]
                           ELSE driver

\* A backup acks a prepare it received by the chain or by retransmission, both
\* of which read the primary's journal; acks repeat and arrive late.
backup_ack(r, h) ==
    /\ ~fatal
    /\ driver[Pump] = Idle
    /\ r # Self
    /\ on_ack(Pump, r, h)
    /\ UNCHANGED <<status, recovery_barrier, frontier, request_queue, journal,
                   gate, tasks, loopback, commit_min, applied, fatal>>

\* The pump, or a submit task after its own on_replicate, drains the loopback;
\* a self-ack on_ack has no use for is dropped.
drain_loopback(d, h) ==
    /\ ~fatal
    /\ driver[d] = Idle
    /\ loopback' = loopback \ {h}
    /\ \/ on_ack(d, Self, h)
       \/ /\ ~accepts_ack(Self, h)
          /\ UNCHANGED <<prepare_queue, commit_max, driver>>
    /\ UNCHANGED <<status, recovery_barrier, frontier, request_queue, journal,
                   gate, tasks, commit_min, applied, fatal>>

\* repair_primary_self_acks, one header of its pass: the tick re-acks a
\* pending prepare that is in the journal and lacks the primary's own ack.
repair_primary_self_acks(h) ==
    /\ ~fatal
    /\ driver[Pump] = Idle
    /\ is_primary
    /\ loopback = {}
    /\ commit_max < h.op /\ h.op <= sequencer
    /\ \E i \in 1..Len(prepare_queue) :
          prepare_queue[i].hdr.op = h.op /\ Self \notin prepare_queue[i].acks
    /\ loopback' = {h}
    /\ UNCHANGED <<status, recovery_barrier, frontier, queues, journal, gate,
                   tasks, commits, driver, fatal>>

-----------------------------------------------------------------------------
(* The commit loop *)

\* The journal read returned. The driver owns the commit only if its header is
\* still at the head; it then pops, applies and advances without yielding.
commit_head(d) ==
    LET h == driver[d].hdr
        head_is_ours == prepare_queue # <<>> /\ prepare_queue[1].hdr = h
        queue == IF head_is_ours THEN Tail(prepare_queue) ELSE prepare_queue
        min == IF head_is_ours THEN h.op ELSE commit_min
    IN  /\ ~fatal
        /\ driver[d].mode = "commit"
        /\ prepare_queue' = queue
        /\ commit_min' = min
        /\ applied' = IF head_is_ours THEN Append(applied, h.checksum) ELSE applied
        /\ driver' = [driver EXCEPT ![d] =
                        peek_committable_head(queue, min, commit_max)]
        /\ UNCHANGED <<status, recovery_barrier, frontier, request_queue, journal,
                       gate, tasks, loopback, commit_max, fatal>>

\* drain_request_queue_into_prepares up to its next await: stop, promote the
\* front request, or, while the catch-up gate is closed, refuse every queued
\* request in one go (a refusal does not yield).  The other half of the
\* preflight cannot refuse: a queued client has nothing else in flight.  At
\* the bound MaxPrepares the refusal stands in for the promotion.
drain_request_queue(d) ==
    /\ ~fatal
    /\ driver[d].mode = "drain"
    /\ IF prepare_queue_full \/ request_queue = <<>>
       THEN /\ driver' = [driver EXCEPT ![d] = Idle]
            /\ UNCHANGED <<queues, frontier, tasks>>
       ELSE IF is_caught_up_primary /\ minted < MaxPrepares
       THEN /\ push_prepare_entry(Head(request_queue))
            /\ request_queue' = Tail(request_queue)
            /\ UNCHANGED driver
       ELSE /\ request_queue' = <<>>
            /\ driver' = [driver EXCEPT ![d] = Idle]
            /\ UNCHANGED <<prepare_queue, frontier, tasks>>
    /\ UNCHANGED <<status, recovery_barrier, journal, gate, loopback, commits, fatal>>

\* A driver other than the pump is dropped at an await of the loop.
cancel_driver(d) ==
    /\ ~fatal
    /\ d # Pump
    /\ driver[d].mode \in {"commit", "drain"}
    /\ driver' = [driver EXCEPT ![d] = Idle]
    /\ UNCHANGED <<status, recovery_barrier, frontier, queues, journal, gate,
                   tasks, loopback, commits, fatal>>

\* Mutant: the tick looks at the request queue only.
resume_queued_requests_only ==
    /\ ~fatal
    /\ driver[Pump] = Idle
    /\ is_primary
    /\ request_queue # <<>> /\ ~prepare_queue_full
    /\ driver' = [driver EXCEPT ![Pump] =
                    peek_committable_head(prepare_queue, commit_min, commit_max)]
    /\ UNCHANGED <<status, recovery_barrier, frontier, queues, journal, gate,
                   tasks, loopback, commits, fatal>>

\* The tick picks up commits and queued requests no driver is left for.
resume_stranded_commits ==
    /\ ~fatal
    /\ driver[Pump] = Idle
    /\ is_primary
    /\ \/ commit_min < commit_max
       \/ request_queue # <<>> /\ ~prepare_queue_full
    /\ driver' = [driver EXCEPT ![Pump] =
                    peek_committable_head(prepare_queue, commit_min, commit_max)]
    /\ UNCHANGED <<status, recovery_barrier, frontier, queues, journal, gate,
                   tasks, loopback, commits, fatal>>

\* commit_journal from the pump (view start, or the tick's stalled-walk scan).
commit_journal ==
    /\ ~fatal
    /\ driver[Pump] = Idle
    /\ is_primary
    /\ walk_from(prepare_queue, commit_min, commit_max) # Idle
    /\ driver' = [driver EXCEPT ![Pump] =
                    walk_from(prepare_queue, commit_min, commit_max)]
    /\ UNCHANGED <<status, recovery_barrier, frontier, queues, journal, gate,
                   tasks, loopback, commits, fatal>>

\* The body read returned: apply, advance commit_min, look at the next op.
walk_apply(d) ==
    /\ ~fatal
    /\ driver[d].mode = "walk"
    /\ applied' = Append(applied, driver[d].hdr.checksum)
    /\ commit_min' = driver[d].hdr.op
    /\ driver' = [driver EXCEPT ![d] = walk_from(prepare_queue, driver[d].hdr.op, commit_max)]
    /\ UNCHANGED <<status, recovery_barrier, frontier, queues, journal, gate,
                   tasks, loopback, commit_max, fatal>>

\* enter_view_change at a higher view: reset_view_change_state empties the
\* request queue and the loopback; the prepare queue survives.
enter_view_change ==
    /\ ~fatal
    /\ driver[Pump] = Idle
    /\ Replicas # {Self}
    /\ is_primary
    /\ status' = "ViewChange"
    /\ request_queue' = <<>>
    /\ loopback' = {}
    /\ UNCHANGED <<recovery_barrier, frontier, prepare_queue, journal, gate,
                   tasks, commits, driver, fatal>>

-----------------------------------------------------------------------------
Next ==
    \/ \E c \in Clients : on_request(c) \/ submit_register_in_process(c)
    \/ \E t \in tasks : acquire_gate(t) \/ begin_append(t) \/ append_ok(t)
                        \/ append_failed(t)
    \/ \E t \in tasks, d \in Drivers : finish_replicate(t, d)
    \/ \E r \in Replicas, h \in journal : backup_ack(r, h)
    \/ \E d \in Drivers, h \in loopback : drain_loopback(d, h)
    \/ \E h \in journal : repair_primary_self_acks(h)
    \/ \E d \in Drivers : commit_head(d) \/ drain_request_queue(d)
                          \/ cancel_driver(d) \/ walk_apply(d)
    \/ resume_stranded_commits
    \/ commit_journal
    \/ enter_view_change

Spec == Init /\ [][Next]_vars

(***************************************************************************)
(* The shard runs every task that is ready, and the pump alternates        *)
(* between its inbox and the tick: what an idle pump could do again and    *)
(* again it does in the end.  Backups ack in the end because the prepare   *)
(* timer retransmits until they do.  Nothing forces clients to send,       *)
(* appends to fail, or the view to end.                                    *)
(***************************************************************************)
Fairness ==
    /\ WF_vars(\E t \in tasks : acquire_gate(t) \/ begin_append(t)
                                \/ append_ok(t) \/ append_failed(t))
    /\ WF_vars(\E t \in tasks, d \in Drivers : finish_replicate(t, d))
    /\ \A d \in Drivers :
          WF_vars(commit_head(d) \/ drain_request_queue(d) \/ walk_apply(d))
    /\ SF_vars(\E r \in Replicas, h \in journal : backup_ack(r, h))
    /\ SF_vars(\E h \in loopback : drain_loopback(Pump, h))
    /\ SF_vars(\E h \in journal : repair_primary_self_acks(h))
    /\ SF_vars(resume_stranded_commits)
    /\ SF_vars(commit_journal)

FairSpec == Spec /\ Fairness

-----------------------------------------------------------------------------
(* Properties *)

\* The pipeline is a run of consecutive ops, each prepare naming the one
\* before it as its parent, and it ends at the sequencer: pushes, rollbacks
\* across an await and pops never leave a hole (the asserts of push and
\* verify).  Holds while the replica is the view's primary.
PipelineIsChain ==
    LET n == Len(prepare_queue)
    IN  /\ n <= PREPARE_QUEUE_MAX
        /\ \A i \in 1..(n - 1) :
              /\ prepare_queue[i + 1].hdr.op = prepare_queue[i].hdr.op + 1
              /\ prepare_queue[i + 1].hdr.parent = prepare_queue[i].hdr.checksum
        /\ is_primary /\ n > 0 =>
              /\ prepare_queue[n].hdr.op = sequencer
              /\ prepare_queue[n].hdr.checksum = last_checksum

\* Every committed op that is not applied yet is in the journal, and either in
\* the pipeline or below its head, where the journal walk reaches it: the panic
\* of commit_committable_prefix on a missing body is unreachable, and no commit
\* is stranded where neither driver looks.
CommittedIsReachable ==
    \A op \in (commit_min + 1)..commit_max :
        /\ Journaled(op)
        /\ \/ prepare_queue = <<>>
           \/ prepare_queue[1].hdr.op > op
           \/ \E i \in 1..Len(prepare_queue) :
                 prepare_queue[i].hdr.op = op /\ prepare_queue[i].hdr \in journal

\* Whoever is about to apply an op, in the commit loop or in the journal walk,
\* is about to apply commit_min + 1: the assert of advance_commit_min ("commit_min
\* must advance sequentially") holds however the drivers interleave.
AdvanceIsSequential ==
    \A d \in Drivers :
        \/ driver[d].mode = "walk"
        \/ /\ driver[d].mode = "commit"
           /\ prepare_queue # <<>>
           /\ prepare_queue[1].hdr = driver[d].hdr
        => driver[d].hdr.op = commit_min + 1

\* When an append fails and the sequencer still stands at its op, the pipeline
\* tail is that prepare: rollback_pipelined_prepare never finds a TailMismatch.
RollbackFindsItsTail ==
    \A t \in tasks :
        is_primary /\ t.stage = "append" /\ sequencer = t.hdr.op =>
            /\ prepare_queue # <<>>
            /\ prepare_queue[Len(prepare_queue)].hdr = t.hdr

\* A prepare leaves the pipeline only by being applied or, unacked by anyone
\* and absent from the journal, by a rollback.
LeavesAppliedOrUnacked ==
    [][\A i \in 1..Len(prepare_queue) :
          LET e == prepare_queue[i]
          IN  \/ \E j \in 1..Len(prepare_queue') : prepare_queue'[j].hdr = e.hdr
              \/ e.hdr.op <= commit_min' /\ applied'[e.hdr.op] = e.hdr.checksum
              \/ e.acks = {} /\ e.hdr \notin journal']_vars

\* Under the scheduling of Fairness, every prepare that enters the pipeline
\* leaves it, unless the view ends or the process exits: nothing is stranded by
\* a dropped driver, a withheld self-ack or a walk parked below the pipeline.
\* At most MaxPrepares enter, so that is to say that the pipeline empties again
\* and again.
EveryPrepareSettles == []<>(prepare_queue = <<>> \/ ~is_primary \/ fatal)
=============================================================================
