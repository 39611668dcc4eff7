# TLA+ specifications of the iggy server core

iggy is a message streaming server. Its replicated core is a Rust implementation
of Viewstamped Replication that runs one consensus group for the cluster's
metadata and one for every partition. These modules model that core: what one
primary does between the awaits of its handlers, what a group of replicas does
across messages, view changes and repair, what is left on disk after a crash, and
the protocols that run on top of the two logs: client sessions and retries, and the
handover of partitions between the members of a consumer group. TLC checks them on
small instances; TLAPS proves what is stated for every instance.

## 1. The system and what is hard about it

Paths are relative to the repository. The server is thread-per-core: each shard is
a single-threaded async executor with its own message pump, and shards share
nothing. "Concurrency" below therefore means tasks of one shard that interleave at
`.await` points, and replicas that exchange messages.

| Component | State | Operations | Hard behaviour | What makes it correct |
|---|---|---|---|---|
| VSR engine `core/consensus/src/impls.rs`, `plane_helpers.rs` | view, log_view, status, sequencer, commit_min, commit_max, vote sets, pending and adopted view log, proof fence, history certificate | handlers of Prepare, PrepareOk, Commit, StartViewChange, DoViewChange, StartView, probes; timers | reordered, late and repeated messages over several views; a log adopted before its bodies are there | replicas apply the same log; a committed op survives every view change; acks only for what is proven and held |
| Vote suffix and merge `dvc_merge.rs`, `view_change_quorum.rs` | none (pure) | decode, record, merge | headers, nacks, blanks and silence of several log views at one op | nothing committed is cut; the merge decides whenever it safely can |
| Metadata plane `core/metadata/src/impls/metadata.rs` | journal gate, pipeline, request queue, loopback | on_request, in-process submits, on_replicate, on_ack, commit loop, journal walk, self-ack repair | several commit drivers, tasks overtaken by a view change, failed appends, dropped futures | ops applied once and in order; the pipeline stays a chain; no prepare is stranded |
| Shard pump `core/shard/src/lib.rs` | repair sessions, ticks | StartView adoption, reconciliation, repair request, service and ingest, tick | repair served from a log about to be replaced | proven logs agree; repair never plants a dead entry |
| Client table `core/consensus/src/client_table.rs`, metadata plane | sessions, watermarks, reply ring, ends of sessions | register, check_request, commit_reply, logout, revocation, expiry, finalization, snapshot | admission against a table that changes before the op applies; view change to a lagging primary; restore | at-most-once execution, ended sessions act no more, same table on every replica |
| Partition receipts `core/partitions/src/iggy_partition.rs`, `core/server/src/liveness.rs` | 128-bit committed window per client, session frontier | admission, queue, commit_request, retire_session, install_watermarks, retirement reports | a stale write that waits in a queue over the retirement of its session; two logs (metadata, partition) out of step | at-most-once across both logs; a new session meets no old receipt; every ended session is finalized |
| Prepare journal `core/journal/src/prepare_journal.rs` | slot ring, WAL file, write offset, rewrite in flight | append, sync, drain, remove_range, open | crash between two writes, torn tail, ring wrap, failed write or sync | what was appended is found again; what was removed stays removed; a boot accepts what a crash leaves |
| Superblock `core/journal/src/superblock.rs` and checkpoint `core/metadata/src/impls/metadata.rs`, `recovery.rs` | two slots; snapshot, pairing, drained prefix | write, open; checkpoint, recover | dropped and failed writes, late renames; a crash between snapshot, superblock and drain | the view never goes back; each op is in the snapshot or in the WAL |
| Partition log `core/partitions` | journal, segments, indexes, offsets, commit point | append, flush, rotate, poll, store offset, recover, state transfer | flush and poll racing the commit point; crash between segment and index | offsets dense and stable; polls see only committed messages |
| Consumer groups `core/metadata/src/stm/consumer_group.rs`, `stream.rs` | members, assignments, pending revocations | join, leave, session end, partitions created and deleted, rebalance, complete_revocation | decisions superseded while a partition still installs an earlier one | metadata and partition agree on the owner; drains are skipped only when safe; balanced with the fewest moves |
| Owner installation `core/partitions/src/iggy_partition.rs` | latch, barrier, installed owners | install op, offset store, group read, scan of the log | stores and installs in flight across queues, view changes, truncation and repair | no committed op fails to apply; the latch is released |
| Partition reconciler, coordinator, primary rebalance | desired and actual partitions | reconcile, place, move primaries | metadata and partition plane out of step | converges |
| Message bus, timers | connections, queues; tick counters | send, receive; fire | loss, duplication, reordering; premature firing | assumed by the models, not verified |
| Front ends, SDKs, connectors, gateways, CLI, web UI | sessions, buffers | requests and formats | I/O | not modelled |

The interactions modelled: a client request reaches `on_request` of the metadata
plane, is minted and pipelined by the engine, journaled and forwarded by
`on_replicate`, acked through the loopback and by backups, committed by whichever
task drives `commit_committable_prefix`, and applied. A silent primary makes
backups send StartViewChange and DoViewChange; the candidate merges the votes,
parks the log, repairs and reconciles its journal (shard), starts the view and
announces it; backups adopt it, prove their journal against it, and repair what is
missing. Each replica journals prepares in the WAL, records its view in the
superblock before it acts in it, and checkpoints into a snapshot before it drains the
WAL. The metadata log opens and ends sessions and decides owners of partitions; the
partition logs learn of both by ordered ops (retire_session, install owner), and the
proof that they committed comes back as a metadata op. PROJECT.json lists the hazards of this code line by line.

## 2. The modules

| Module | Models | Kind |
|---|---|---|
| `Quorums` | the quorum sizes | operators |
| `DvcMerge` | the suffix of a DoViewChange, `dvc_record`, `merge_dvc_quorum`, `merge_view_change` | operators |
| `ViewLog` | `view_log_proof`, `build_dvc_suffix`, repair scope, coverage and evidence | operators |
| `Vsr` | a metadata group: normal operation, view changes, StartView adoption, repair | specification |
| `VsrFive` | `Vsr` with five replicas, along one schedule | specification |
| `PrimaryPipeline` | one metadata primary over one view, one action per stretch of code between awaits | specification |
| `PrimaryHandover` | `PrimaryPipeline` followed by the adoption of the next view as a backup | specification |
| `DurableRegister` | what consensus relies on of the superblock | abstract specification |
| `Superblock` | the ping-pong superblock store; implements `DurableRegister` | specification |
| `PrepareJournal` | the metadata WAL and its boot scan | specification |
| `MetadataCheckpoint` | snapshot, superblock pairing, drain and recovery of one replica | specification |
| `ClientTable` | the client table of the metadata plane on a group of replicas | specification |
| `PartitionSessions` | receipts and session retirement of a partition, composed with the metadata's sessions | specification |
| `GroupBalance` | the balancing of partitions over members | operators |
| `ConsumerGroup` | a consumer group in the metadata, against partitions that install late | specification |
| `OwnerInstall`, `OwnerInstallMC` | owner installs and offset fences in a partition's log; its instance | specification |
| `PrimaryPipelineProofs`, `MetadataCheckpointProofs`, `SuperblockProofs`, `PrepareJournalProofs`, `ClientTableProofs`, `PartitionSessionsProofs`, `ConsumerGroupProofs`, `OwnerInstallProofs` | theorems (section 5) | proofs |

How they fit: `MetadataCheckpoint` uses of the superblock what `DurableRegister`
states; `ClientTable`, `PartitionSessions` and `OwnerInstall` use of consensus what
`Vsr` shows for three replicas (one log, cut at a view change only above the
commit point, replicas that apply a prefix) and what section 4 finds broken for
five; `ConsumerGroup` leaves the partition open (any published decision may be
installed at any time) and `OwnerInstall` the decisions (any may arrive).

### PrimaryPipeline

Each variable is a field of the consensus or of the metadata plane (`sequencer`,
`last_checksum`, `prepare_queue`, `request_queue`, `loopback`, `commit_min`,
`commit_max`, `gate`), or says where a task stands. `tasks` has one record per
`on_replicate` in progress, with the stage it awaits in: the gate, the checkpoint,
the append, the chain forward. `driver` says for the pump and for a detached submit
task whether it is in the commit loop (with the head it read before its await), in
the journal walk, or draining the request queue. A header is its op, checksum,
parent and client; the checksum is the number of the mint, so two prepares of one
op differ. `applied` records what was executed.

`append_failed` is the failed write and the rollback it triggers, in one step,
because the code does not yield between them; `commit_head` pops, applies and peeks
again for the same reason. `cancel_driver` is the drop of a detached task at an
await. `backup_ack` lets any backup ack any journaled prepare at any time, which
covers every delay and repetition. Left out: checkpoint contents, replies, session
checks of the client table (`request_preflight` is reduced to "nothing in flight
for this client" and the catch-up gate), metrics.

### Vsr

`node[r]` is a record with the fields of `VsrConsensus` that matter (view, log_view,
status, sequencer, commit_max, votes, pending and adopted log, the proof fence
`unproven`/`through`/`missing`, the certificate), the journal as a function from ops
to headers, and `applied`. Handlers are operators on that record. `msgs` only grows,
except that a message no replica can act on any more is dropped, so messages may be
lost, delayed, repeated and reordered. Timers are not counted: a timeout may fire
whenever its handler is enabled. A checksum is the number of the mint; `view` is
outside it because a retransmit restamps the view.

Deliberate abstractions:

- A handler is atomic. What happens at its awaits is the subject of PrimaryPipeline.
- Replicas do not restart, and there is no snapshot. What a crash leaves on one
  replica is the subject of Superblock, PrepareJournal and MetadataCheckpoint; the
  Recovering status, untrusted logs, incarnations and state transfer are not
  modelled (section 6).
- A repair session that could be open is open: RepairPrepare has neither sender
  nor nonce, so the code cannot tell either.
- The StartView that opens a view may be late; repeated announcements (answers to
  a probe and to the heartbeat of an older primary) are delivered at once.
- Votes are emptied once counted, and the prepare queue's acks when the view ends,
  because nothing reads them afterwards.
- `begin_view_probe` is enabled when some replica has started a view above this
  one, which is when a dropped heartbeat can have shown it.

Five replicas cannot be searched freely. `VsrFive` takes the steps of `Vsr` in four
phases, in each of which only some replicas act (the others are cut off, or slow), in any
order within a phase: its behaviours are behaviours of `Vsr`, and a violation found along
them is one of `Vsr`.

### Superblock and DurableRegister

`file` and `survives` are the two slots as a reader sees them and as a crash may
leave them: a rename is visible at once and durable when the directory was synced.
`store` is the open `PingPongSuperblock` (next sequence, next slot, degraded).
`begin_write`, `rename` and `sync_directory` are the stretches of a write between its
awaits; `write_fails` is an I/O error at any of them, `drop_write` the drop of the
future, after which the kernel may still execute the rename (`late_rename`) until the
cleanup that the next write waits for. `decay` is bit rot of a slot while the node is
down. The payload is the number of the write, so that "older" has a meaning.
`DurableRegister` says what view changes need: a value that was acknowledged, or that
a boot was given, is never followed by an older one, crashes never make the register
unreadable, and decay is noticed.

### PrepareJournal

The WAL is a sequence of cells, one per entry, torn or whole, synced or not; `index`
is the slot ring. An append reserves its place, writes and syncs in three steps.
`drain`, `remove_range` and `truncate_from` copy the live entries to a new file, rename
it and rebuild the index. `open` is the boot scan with its rules for torn tails, interior
damage and breaks of the parent chain; whether the header of a torn cell can be read
decides how much behind it refuses the file.

The callers are there as far as they decide what is appended: two histories that part at
op `Fork`, the second adopted with a later view, repairs in any order, checkpoints. Both
`on_replicate` and repair append to the adopted log while superseded entries are still
held below; the pump removes those afterwards, a run of them (`remove_range`, which keeps
the adopted entries above it) or all above the adopted head (`truncate_from`).

Who overlaps with whom depends on the role. On a backup everything that changes the
journal runs in the pump, one after the other: at most one append is in flight and none
beside a rewrite. On a primary the append section runs in submit tasks, which the journal
gate keeps apart. Only on a replica deposed from a view it led (`LedFirstView` and the
later view adopted, the complement of `Serial`) does an append of a submit task meet the
repairs and removals of the pump, which do not take the gate; there several appends are
in flight, also across a rewrite. The properties are stated for `Serial`; observation 4
is about the other case. Entry sizes, and so scans that hit the middle of an entry, are
abstracted.

### MetadataCheckpoint

One replica: the holder of the journal gate takes a checkpoint (snapshot, superblock,
drain) before it appends when the ring runs low, while a view change writes the same
superblock under its own lock. `snaps` and `superblocks` are the contents a crash may
leave. Every step can fail, and what failed may have reached the disk. `recover` is
`verify_checkpoint_pairing` and the replay. Every snapshot carries its own time, so
two snapshots of one op have different checksums. A primary takes no prepare while `Queue`
journaled ops wait to be applied, because its pipeline is full; a backup journals what it
is sent, however far it lags, until the ring is full and the append is refused. `lagged`
remembers that this bound was passed, and `RoomToAppend` is about replicas that never did.
The skip of a checkpoint while the client table of a state transfer is ahead
(`client_table_frontier`) is left out with state transfer.

### ClientTable

One log with a commit point, and replicas that apply it at their own pace. The submit
actions are the admission paths of the metadata plane on the primary, against its own
table; the commit actions are the apply path with `commit_reply`, the end of sessions
by logout, by a change of the user and by expiry, finalization, and the fatal outcomes
of the commit loop. `start_view` cuts the log above the commit point and moves the
primary, perhaps to a replica that lags (the catch-up gate). `checkpoint` and `restart`
are the snapshot of the table and its restore. A bind verifier is part of the user.

### PartitionSessions

The metadata group's sessions (open, ended, finalized) beside one partition's log. A
write of any session a client ever had may arrive at any time, with any metadata op at
which the session was active as its watermark. `on_write` and `retire_session` are the
admission of the primary, the queue re-checks what it promotes, `publish_pending_commit`
applies receipts, barriers and owner installs, `publish_installed_state` is the table
part of a state transfer, `report` and `submit_session_finalization` the retirement
protocol of `liveness.rs`. The window is the set of distances below the watermark,
shifted as the 128-bit word is. The retirement catalog and the history fence are left
out: a report comes from a node that holds the partition.

### GroupBalance and ConsumerGroup

`GroupBalance` is `balanced_members`: the fair share, the remainder to the most loaded,
stripping and filling. `ConsumerGroup` is the group in the state machine: `members` and
`assignments` as in the code, with the two caches (a member's lists and the index of
pending revocations) that completions patch in place. A decision becomes visible when
the op is published; a partition may install any published decision, once and at rising
generations, at any time, and the evidence may arrive at any later time. Creating and
deleting the group and the deadlines of a handover are left out; since an install may
happen at any time, what a deadline would force is among the behaviours.

### OwnerInstall

One partition's log with installs and offset stores. `scan` is what
`resynchronize_consumer_offset_reservations` keeps on the primary (latch, barrier, what
it observed, whether to repeat). Handlers call it, the tick repeats it when it was
uncertain. Journals have holes that repair fills. A view change is decided by a
view-change quorum of voters: the log ends where a nack quorum of them lacks the next op,
be it held by another voter, the elect included, and every op below is held by a voter
(the sizes are those of `Quorums`). The elect starts the view on a tick or when its
journal was cut. Apply and
`commit_min` are two steps, because a handler can run between them. Message ops meet
none of these fences and are left out.

In all of these the handlers of a shard run one at a time: the shard's pump serialises
them, and what happens between their awaits is modelled where it matters (Superblock,
PrepareJournal, MetadataCheckpoint, the commit of OwnerInstall).

## 3. The runs

| Run | Instance | Checks |
|---|---|---|
| `primary_pipeline` | 3 replicas, quorum 2, 2 clients, pipeline 2, request queue 1, up to 2 inherited and 3 prepares in total; 184,000 states | types; the pipeline is a chain ending at the sequencer; every committed op is reachable by a driver; the next apply is commit_min + 1; a rollback finds its own tail; a prepare leaves only applied, or unacked; every prepare settles, under `Fairness` |
| `primary_handover` | as above, then the adoption of the next view | expected violation of `AdvanceIsSequential` (section 4) |
| `vsr_log` | 3 replicas, 2 ops, views 0 and 1; 256,000 states | applied logs agree; a new view's StartView covers what any replica knows committed; proven logs agree; acked is held and certified; the hash-chain panic is unreachable |
| `vsr_views` | 3 replicas, 1 op minted twice, views 0 to 2; 228,000 states | committed ops are in every later primary's journal; the merge never deadlocks; views, commit points and applied entries never go back |
| `vsr_five` | 5 replicas, 4 ops, views 0 to 2, one schedule | expected violation of `CommittedSurvivesViewChange` (section 4) |
| `superblock` | 5 writes, 3 crashes, 1 decay; 2,700 states | implements `DurableRegister` |
| `prepare_journal` | a backup (`LedFirstView = FALSE`), 3 slots, 5 ops, histories part at op 3, 1 crash, 2 failed writes, 1 failed sync; 814,000 states | the index reads back (false on a deposed primary, observation 4); a boot accepts what a crash leaves, unless a sync failed (observation 2) or the adopted log was appended to behind superseded entries (observation 9); acknowledged appends survive; removed entries stay removed |
| `metadata_checkpoint` | 8 slots, margin 2, queue 2, 11 ops, 2 views, 2 failures, 2 crashes, any lag; 11.6 million states | recovery accepts; every op in snapshot or WAL; no view acted in is forgotten; room to append on a replica that keeps up, as a primary must |
| `client_table` | 2 replicas, 3 clients for 2 entries, ring 2, 2 requests each, 4 ops, 1 view change, 1 restart; 1.0 million states | no committed op is fatal; at most once; ended sessions act no more; tables agree and restore |
| `partition_sessions` | 2 replicas, quorum 2, 1 client with up to 2 sessions, window 2, 3 request ids, 3 writes, 5 ops, 4 metadata ops, 1 view change, 1 owner install; 212,000 states | at most once; receipts are retained; the window is exact; a new session meets no receipt of an old one; every ended session is finalized, under `Fairness` |
| `consumer_group` | 2 clients, 2 partitions, 7 metadata ops; 615,000 states | caches equal a rebuild; a settled row names what the partition holds; installations never conflict; a skipped drain is safe; rebalances are balanced and minimal |
| `owner_install` | 3 replicas, 2 groups, 3 ops, 2 view changes; 2.9 million states | committed ops apply as long as no install is ordered twice (observation 8); the latch is live |

Why the bounds suffice for what is claimed: three prepares with a pipeline of two
are enough for a full pipeline, a queued request, a rollback below a sibling and
two drivers at one head; two replicas above the ack quorum of three replicas make
stale and repeated acks happen. In Vsr two ops give a committed and an uncommitted
one across the view change; two mints at one op in two views give the conflicting
headers the merge is about, and a third view lets a log superseded twice come back.
At most two repair replies are in flight at once (MaxRepairs), enough for a stale one
beside a fresh one. Three replicas do not stand for five: there one vote can complete a
nack quorum with two silent ones, which is what `vsr_five` shows.
Five ops over three slots wrap the ring and leave a removed run below live entries;
eleven ops over eight slots take two checkpoints; a window of two bits is left by
three ids; a client table smaller than the number of clients fills; a commit, an install and a
store are the three ops a misplaced fence needs, and the second view change lets a
truncated install come back. `partition_sessions` is small, with one client, because its
safety properties are proved for every number of clients, entries and replicas; the run is
for the liveness of retirement, and shows which slips break the others.

Deadlock is not checked: every behaviour is bounded (MaxPrepares, MaxOp, MaxView and
the like) and may stop there, and a process that met a fatal error has stopped.

Fairness of `primary_pipeline`: weak fairness for the steps of a task that is ready,
because the shard's executor polls every ready task; strong fairness for what the pump
does when it is idle (loopback, tick), because the pump returns to both again and again
between other work; strong fairness for backup acks, because the prepare timer
retransmits until they arrive. Clients, failures and view changes are not forced.
Fairness of `partition_sessions`: weak fairness for draining the queue, committing
and applying (the pump and the prepare timer), and for retiring, reporting and
finalizing (the liveness tick repeats each until it is done). Both properties say that
the pipeline, or the set of ended sessions, is empty again and again; since the bounds
let only finitely many prepares or sessions in, that is to say that each one leaves.

Every property of a passing run has a mutant in PROJECT.json: a plausible bug in a
mapped definition for which TLC finds the property violated. `TypeOK` of the modules
other than PrimaryPipeline documents their variables; it is no property of a run.

## 4. Findings and observations

`primary_handover`: `commit_journal` does not look at `commit_min` again after it has
read a body. After a superseded primary adopts the next view, the pump's walk and the
walk at the end of an overtaken submit task can be at the same op, and the second to
resume applies it again and trips the assert of `advance_commit_min`.
`primary_pipeline` shows that this cannot happen while the replica is primary.

`vsr_five`: a committed op is lost. `metadata.rs:2112`: a backup's `on_replicate` sets the
sequencer to the op it appended, also when the head of the view it adopted is above it.
`build_dvc_suffix` (`shard/src/lib.rs:12608`) raises the suffix of its vote to that head.
Peers drop such a vote at decode; the elect records its own without decoding it, under the
op of its sequencer (`impls.rs:3815`, `:4010`). `tally_op` then reads each slot at an op too
low: headers the elect has only learnt stand at ops it journaled and acked, and count as
nacks of them. In the run, replica 0 commits op 1 with the acks of 1 and 2; 1, 3 and 4
change to view 1 and keep ops 1 to 4; 2 adopts view 1 and appends op 2; 2, 3 and 4 change to
view 2, where the misread vote of 2 and the empty logs of 3 and 4 are a nack quorum for
every op, and the view starts with an empty log. `NackQuorumPrecludesCommit` (section 5)
does not apply, because a replica acks and nacks one op, which its hypothesis excludes.
With `op` of `own_dvc` raised to the adopted head as the suffix is, the property holds along
the same schedule. With three replicas one such vote stalls the view change and loses
nothing, which is why `vsr_log` and `vsr_views` pass.

Observations made with other instances or with a condition of a property removed. They
are not runs; each can be repeated with the change given.

1. `metadata.rs:2112`, at a peer: the vote of a backup below the adopted head does not
   decode, so the peer drops it and a vote is missing until the replica catches up. In
   `vsr_log`, as an invariant:
   `dvc_suffix_decodes(own_dvc(r, node[r]).op, suffix_headers(own_dvc(r, node[r]).suffix))`
   for every r.
2. `prepare_journal.rs:273`. An append whose sync failed leaves its bytes, and the next
   append goes behind them. After a crash the first copy may be torn while the second is
   whole, and the scan refuses the file although nothing that was acknowledged is
   damaged (any byte behind it refuses the file where the first copy's header can be
   read). In `prepare_journal`, drop `sync_errors = 0` from `RebootIsAccepted`.
3. `prepare_journal.rs:691`. Bytes of a failed sync that belong to the superseded
   history, followed by an out-of-order repair of the next op of the adopted one, are a
   break of the parent chain at the tail. The scan then cuts off the repaired entry,
   which was synced and acknowledged. In `prepare_journal`, drop the condition on
   `sync_errors` and `view` from `CompletedSurvive`.
4. `shard/src/lib.rs:6169`. Repair appends without the journal gate, so after a handover
   it can overlap a drain of a submit task of the deposed primary. In `prepare_journal`,
   `LedFirstView = TRUE` violates `IndexReadsBack` without `Serial`.
5. `metadata.rs:4442`. A checkpoint that failed after its snapshot became durable is
   taken again at the same op with another checksum; a crash before the superblock is
   written then leaves a pair that recovery refuses. In `metadata_checkpoint`, drop
   `streak = 0` from `RecoveryAccepts`.
6. `iggy_partition.rs:1014` with `:1263`. An owner install raises
   `required_metadata_frontier`, by which a retirement report is judged, although it
   retires no session: a report can precede the barrier. In `partition_sessions`, drop
   the condition on installs from `SuccessorIsNotFenced`.
7. `core/server/src/consumer_group/liveness.rs:414`. When more sessions end at one
   metadata op than a barrier holds, the first barrier raises the frontier for all of
   them, and two backups can prove the second session retired while a write of it waits
   behind that barrier. In `partition_sessions` with three replicas, `Clients = {1, 2}`,
   `Capacity = 2`, `MaxRequest = 1`, `MaxWrites = 2`, `MaxOp = 2`, `MaxMeta = 6`,
   `MaxViews = 0`, `MaxInstalls = 0` and the specification `Spec` this violates
   `SuccessorIsNotFenced`. `SuccessorUnlessSplit` shows that it holds
   when no op ends more sessions than a barrier holds.
8. `iggy_partition.rs:8156`. A promotion from the queue sets `pending_owner_install`
   whatever the latch names. When a new primary inherits several copies of one install
   (a reconciler's submission waited), publishing one copy releases the latch while the next
   is unapplied; a further copy can then be queued, the latch be released again and another
   install be admitted behind the queued copy. Promoting the copy puts the latch back on it,
   nothing covers the later install, and a store of its group admitted then fails at apply
   on every replica. It takes more than 40 steps, `PIPELINE_MAX = 2`, `QUEUE_MAX = 2`,
   `MaxOp = 7` and one view change, and violates `~failed`. Hence the condition
   `InstallsOnce` of `CommittedOpsApply`; `StoresApply` (section 5) shows that copies of an
   install are the only way to it.
9. `metadata.rs:2062` and `shard/src/lib.rs:6169`. A backup that adopted a log appends to it
   while superseded entries are still held below; they are removed only afterwards
   (`shard/src/lib.rs:6201`, `:12861`), and not at all when that fails. A crash in between
   leaves a superseded entry followed by one of the adopted log that does not chain to it.
   With nothing behind it the scan (`prepare_journal.rs:691`) cuts the second off, although
   its append returned; with a further entry behind it, it refuses the file. No I/O call has
   to fail.
   What is cut off was not acknowledged, since a replica with an unproven log sends no
   PrepareOk. In `prepare_journal`, drop `~Mixed` from `RebootIsAccepted`, or write
   `~Divergent(x.e)` for `x.e.op < Fork \/ ~Superseding` in `CompletedSurvive`, also with
   `MaxErrors = 0` and `MaxSyncErrors = 0`.
10. `core/consensus/src/metadata_helpers.rs:80`. The comment of `request_preflight` says that
   watermarks do not survive recovery from a snapshot, so that a caught-up primary is no
   authority for "agreement with its peers' tables", and that "Closing that needs the table in
   the snapshot". The checkpoint has the table now (`core/metadata/src/impls/recovery.rs:686`),
   so the comment is out of date, and `TablesAgree`, which says the opposite, holds of the
   code as it is. One case is left, which the second comment names and the model does not
   have: a checkpoint written before the table was folded in carries none, and recovery from
   it starts empty.

## 5. The proofs

`PrimaryPipelineProofs` (any constants that satisfy `PipelineAssumption`):
`TypeCorrect` and `PipelineStaysChained`. Neither is inductive alone. The inductive
invariant `IInv` adds that ops in the pipeline are positive (a rollback sets the
sequencer to op - 1) and that a task continuing as a backup exists only after the
view ended (such a task overwrites the sequencer, which would tear it away from the
pipeline's tail). One lemma per mover of the pipeline (push, pop, rollback, ack),
one per action family, then the usual three steps.

Its second part adds the journal and the commit drivers, under the same assumption:
`CommittedStaysReachable`, `CommitMinIsSequential`, `RollbackHitsItsTail` and the action
property `PreparesLeaveAppliedOrUnacked`. The strengthening `JInv` says that
what was acked is journaled, that the pipeline is the window between commit_min and the
sequencer, that each task still owns the prepare it is to append, that two drivers never
stand at the same place (a driver that read a head before its await finds it gone or
unchanged), and that what was applied is a prefix.

`MetadataCheckpointProofs` (any ring, margin, number of ops, views, failures and crashes
within `CheckpointAssumption`): `NoOpIsStranded`, `ActedViewsSurvive`,
`RecoveryAcceptsEveryImage`, `MarginLeavesRoom`. The invariant has seven named parts. The
one that carries the argument is `Captured`: what the holder of the checkpoint read at an
earlier step is still covered by what a crash can leave at every later one; `Locked` says
that only the holder of the gate moves the journal while a view change writes the same
superblock. `MarginLeavesRoom` counts one op beyond the margin for every failed attempt on
a replica that has not lagged (`Room`).

`SuperblockProofs`: `SuperblockIsRegister`, the refinement of `DurableRegister`, step by
step. The invariant distinguishes three situations (a slot rotted, the store is down, the
store is open) and says for each where the newest acknowledged record is, where the next
write goes and what the kernel may still execute late: the slot that holds the newest
durable record is never the target of a write.

`PrepareJournalProofs` (any ring, ops, fork, failures and crashes): `IndexReads`,
`BootsAreAccepted`, `AppendsSurvive`, `RemovalsLast`, each the property of the run and with
its conditions. All rest on `JournalInvariant`, `Spec => [](Serial => IInv)`: the callers
take turns on a replica that never led, and on one that did until it adopts the later view.
There at most one append is in flight and none beside a rewrite, so these are theorems about
offsets, slots, the rename and crashes, not about overlapping writers; observation 4 shows
that the first is false where writers overlap.
The invariant knows three modes: open, a rewrite that renamed its copy, and a journal
poisoned because that rewrite failed afterwards. In the first the file is a run of settled
entries and at most one cell after it, every slot names a synced cell (`FileOk`), and until
a sync fails a cell that no slot names gave way to a later one of its slot and is in the
checkpoint (`CleanOk`). In the other two the new file holds every entry that is neither
checkpointed nor superseded (`NewFile`), and the old one is as it was, so either may come
back after a crash. `LiveOk` says why a rewrite may drop what it drops. Entries of both
histories may stand in one file until the checkpoint passes the fork; the lemma `FilesOn` says that
while all that is held is of one history, so is every file a crash can leave, which is what
the conditions of the properties are about. What the boot scan returns for such files
is found with least and greatest positions of a cell.

`ClientTableProofs` (any replicas, users and bounds; a finite set of clients, because the
capacity check counts them): `RequestsRunOnce`, `EndedSessionsActNoMore`,
`CommittedOpsAreRetained`, `ReplicasAgree`. Every one of these relates what one replica
admitted to what another applies later, and no relation between the variables alone is
inductive. The invariant says that there is a run of tables T[0], T[1], ..., T[M], one
after each committed op up to the furthest replica, of which every replica and every
snapshot holds the one of its op (`Hold`). Admission is remembered as a place k of this
run (`Admitted`): a request was admitted against T[k], and between k and the request there
are of its client only finalizations of other sessions; a registration found room for all
clients that were present at k or waited behind it. `Inert` (a session that is not live
stays so) and `Covers` (the watermark of a live session is above its requests) then give
the first two theorems; the run of tables itself gives the last. Before the proof TLC checked
the invariant with the tables computed from the log. T does not mention the cached replies;
that the latest reply is never lost, which a snapshot needs, is in `TableOk`.

`PartitionSessionsProofs` (any replicas, table, window, queues and bounds, and any finite set
of clients): `Retained`, `RequestsOnce`, `WindowsExact`, and for retirement
`SuccessorUnlessSplit` and `SuccessorAdmitted`. As for the client table, the invariant says
that there is a run of tables, and of frontiers, one after each op of the log, of which each
replica holds the one of its op, or a later one it was sent (`RunOk`). A write of the log is
new where it stands and there is room for it (`Admitted`), a session that wrote has its
entry until it is retired (`Remembered`), an entry tells what the log holds (`Exact`), and
the frontier is above the end of every retired session (`Demands`). Of what waits in the
queue and in the pipeline it says that no barrier and no write of one session are there
together (`Flight`), that a write admitted at an earlier table is still new where it will
stand (`FreshAt`), and that all admitted clients have room (`Room`). The second invariant,
`Retirement`, follows the proof of retirement from the barrier to the report (`Covers`,
`Proven`). `SuccessorUnlessSplit` says that a new session meets no receipt of an old one
while the sessions that end at one metadata op fit into a barrier; `SuccessorAdmitted` is
the case where a barrier has room for all clients. A barrier of the code has room for 128
sessions, so the hypothesis is one on the number of clients; observation 7 shows what
happens without it. The condition on owner installs is part of the property (observation 6).

`ConsumerGroupProofs` (any finite set of clients, any bounds, and a `None` that is no value
of an Option, `GroupAssumption`): `OneInstallPerGeneration`, `SettledOwnersAgree`,
`SkippedDrainsAreSafe`, `CachesAreRebuilt`. The invariant compares each row of the assignments with what was
published, installed and completed for its incarnation: an open handover is newer than
everything published but itself (`Opened`), a settled row names the last installation
(`Settled`), the owner is that of the last completion (`Owns`), a partition without a row
was never decided on (`RowsFit`), and skip_drain says exactly whether the owner is a member
(`Drains`). `Rebuilt` says that the lists of the members and the index of transitions are
those of the assignments, sorted. `RebalanceKeeps` shows that a rebalance keeps this at its op whatever the
balance asks for, also the second of one op, because only what earlier ops decided is
published then; `PublishKeeps` that publishing once at the end keeps it too. The lists
and the folds of the model need induction: `LeastNat` takes a least counterexample, from
which follow that a sorted list of a finite set exists and lists all of it
(`AscendingLists`), and that the two folds are defined and keep their types (`FilledType`,
`RemovalsKeep`). TLC checked the invariant on the instance of `consumer_group` first.

`OwnerInstallProofs`. First the quorum sizes (any finite, non-empty group):
`ViewChangeMeetsCommit`, every view-change quorum meets every commit quorum, and
`NackQuorumPrecludesCommit`, an op with a nack quorum was not committed as long as no
replica both acks and nacks it. Both rest on `QuorumSizes`, arithmetic by cases one, two and
more replicas; they are what the models with one log assume of the group. Then (any
decisions, groups, queues, bounds and any finite set of replicas) `LatchStaysLive`. The
latch a scan leaves is live only because the primary itself holds the install it names, and
because a truncation that could have removed it marks the scan (`LatchHeld`); a prepare is
ahead of what is applied only because no view change cuts below that, so the invariant also
says that a quorum holds every prefix that is committed, applied or being applied (`Safe`).
`StoresApply` is `CommittedOpsApply`: as long as no install is ordered twice, no committed op
fails to apply. Its invariant `Fits` (theorem `OwnersInvariant`) follows the owners: each
replica holds those the installs of its applied ops leave (`Rows`), a store of the log
carries the owner that the installs before it leave, unless one of these is there twice
(`StoresFit`), and a queued store has no unapplied install of its group ahead (`StoresWait`).
A store is admitted only past the fences, so these must cover every unapplied install: latch
and barrier of a primary whose scan is current do (`Covered`), a scan made since the view
started is certain, and only then is anything queued (`Settled`), because by then the
primary holds the whole log (`Sequenced`). A store that failed stands behind two copies of
an install, in a prefix that no view change cuts (`Excused`), so the condition is false from
then on.

Only model-checked, and why:

- `EveryPrepareSettles` and `EndedIsFinalized`: liveness under fairness, which the prover
  does not do.
- `Vsr`: `CommittedSurvivesViewChange` is false for five replicas (`vsr_five`), and what the
  others say of two replicas rests on the same merge. They are statements about three
  replicas, checked by `vsr_log` and `vsr_views`.
- `RebalanceIsMinimal` of `ConsumerGroup`: an optimum over all assignments, computed by
  folds over the members.

## 6. Plan

Done: the modules of section 2. What is left, in this order:

1. Once a vote is read at the op it was built for (section 4): the invariants of `Vsr` for
   any group, from the quorum theorems of section 5.
2. Restart of a replica in `Vsr`: `restore_history`, the Recovering status, untrusted
   logs and the guard on an old StartView. Two hazards of PROJECT.json wait for it (a
   certificate that names a removed entry, and a StartView from before the restart).
3. `ReplicatedLog`: the abstract specification of a group (a committed sequence that
   only grows, replicas that apply a prefix of it), which ClientTable,
   PartitionSessions and OwnerInstall already assume.
4. `PartitionLog`: append, flush, commit, rotation, polls and offset values, then crash
   and `segment_recovery` against its durable state; the partition journal with it.
5. `StateTransfer`: stages, chunks, supersession by a later view.

Not modelled, and not planned: the metadata state machine's other maps (sequential and
deterministic table updates), the wire formats, the network front ends, SDKs,
connectors, gateways, CLI and web UI (I/O and adaptation), routing between shards, and
the simulator (itself a checker).
