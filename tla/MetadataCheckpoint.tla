-------------------------- MODULE MetadataCheckpoint --------------------------
(***************************************************************************)
(* The checkpoint of the metadata plane on one replica: the snapshot is    *)
(* written, the superblock records the pairing of its op and checksum, and *)
(* only then the WAL is drained.  View changes write the same superblock,  *)
(* under a lock of their own, and nothing is sent in a view that is not    *)
(* durable.  A crash may come anywhere, and recovery checks the pairing.   *)
(*                                                                         *)
(* The WAL is the run of ops low .. last_op.  The snapshot file and the    *)
(* superblock are the sets of contents a crash may leave (DurableRegister  *)
(* says what the superblock promises; Superblock shows that it keeps it).  *)
(***************************************************************************)
EXTENDS Naturals, FiniteSets

CONSTANTS SlotCount, Margin, Queue,   \* slots of the journal, checkpoint_margin, prepare queue depth
          MaxOp, MaxView, MaxErrors, MaxCrashes   \* bounds

ASSUME CheckpointAssumption ==
    /\ {SlotCount, Margin, Queue} \subseteq Nat \ {0}
    /\ {MaxOp, MaxView, MaxErrors, MaxCrashes} \subseteq Nat
    /\ Margin >= Queue /\ SlotCount >= 4 * Margin

VARIABLES snaps,         \* the snapshots a crash may leave on disk
          superblocks,   \* the superblock records a crash may leave
          low,           \* the first op in the WAL
          last_op, snapshot_op, commit_min,
          view, view_durable,
          sent,          \* history: the latest view the replica sent anything in
          lagged,        \* history: a prepare came when Queue journaled ops were not applied
          last_checkpoint, checkpoint_pending,
          pc,            \* where the holder of the journal gate is
          cp,            \* the checkpoint it is taking
          writer,        \* the holder of the superblock lock and the record it writes
          sums,          \* checksums given out: every snapshot encodes its own created_at
          streak,        \* history: attempts to checkpoint that failed since the last success
          errors, crashes

durable == <<snaps, superblocks, low, last_op>>
coordinator == <<last_checkpoint, checkpoint_pending, cp, sums, streak>>
vars == <<durable, snapshot_op, commit_min, view, view_durable, sent, lagged, coordinator, pc, writer,
          errors, crashes>>

Checkpoint(op, sum) == [op |-> op, sum |-> sum]
None == [who |-> "none"]

Init ==
    /\ snaps = {Checkpoint(0, 0)}
    /\ superblocks = {[view |-> 0, ckpt |-> Checkpoint(0, 0)]}
    /\ low = 1 /\ last_op = 0 /\ snapshot_op = 0 /\ commit_min = 0
    /\ view = 0 /\ view_durable = 0 /\ sent = 0 /\ lagged = FALSE
    /\ last_checkpoint = Checkpoint(0, 0) /\ checkpoint_pending = FALSE
    /\ pc = "idle" /\ cp = Checkpoint(0, 0) /\ writer = None
    /\ sums = 0 /\ streak = 0 /\ errors = 0 /\ crashes = 0

remaining_capacity ==
    IF last_op <= snapshot_op THEN SlotCount
    ELSE IF last_op - snapshot_op >= SlotCount THEN 0 ELSE SlotCount - (last_op - snapshot_op)

\* A plausible slip: the journal is allowed one append too many.
should_checkpoint_late == remaining_capacity < Margin

should_checkpoint == remaining_capacity <= Margin

\* The slot of the next op is empty, or its entry is in the snapshot.
append_has_room == last_op + 1 <= SlotCount + snapshot_op

------------------------------------------------------------------------------
\* A primary with Queue ops that are not applied takes no more (its pipeline is full); a
\* backup journals what it is sent, however far it lags.
TakesGate(recorded) ==
    /\ pc = "idle" /\ last_op < MaxOp
    /\ lagged' = (lagged \/ last_op - commit_min >= Queue)
    /\ IF /\ should_checkpoint
          /\ \/ commit_min > last_checkpoint.op
             \/ commit_min = last_checkpoint.op /\ checkpoint_pending
       THEN /\ checkpoint_pending' = TRUE
            /\ cp' = Checkpoint(commit_min, sums + 1) /\ sums' = sums + 1
            /\ pc' = "snapshot"
            /\ last_checkpoint' = IF recorded THEN cp' ELSE last_checkpoint
       ELSE pc' = "append" /\ UNCHANGED <<checkpoint_pending, cp, sums, last_checkpoint>>
    /\ UNCHANGED <<durable, snapshot_op, commit_min, view, view_durable, sent,
                   streak, writer, errors, crashes>>

\* A plausible slip: the pairing is recorded before the snapshot is durable.
on_replicate_records_early == TakesGate(TRUE)

\* on_replicate takes the journal gate and checkpoints when the journal is low.  The op
\* to snapshot and the tables are captured before the first wait.  (It also skips the
\* checkpoint while the client table of a state transfer is ahead of commit_min; there is
\* no state transfer here.)
on_replicate == TakesGate(FALSE)

\* The snapshot was renamed into place and the directory synced.
persist_snapshot ==
    /\ pc = "snapshot" /\ pc' = "superblock"
    /\ snaps' = {cp} /\ last_checkpoint' = cp
    /\ UNCHANGED <<superblocks, low, last_op, snapshot_op, commit_min, view, view_durable, sent, lagged,
                   checkpoint_pending, cp, sums, streak, writer, errors, crashes>>

\* A plausible slip: the WAL is drained while the snapshot is still being written.
drain_at_once ==
    /\ pc \in {"snapshot", "drain"} /\ pc' = "append"
    /\ low' = cp.op
    /\ snapshot_op' = IF cp.op - 1 > snapshot_op THEN cp.op - 1 ELSE snapshot_op
    /\ checkpoint_pending' = FALSE /\ streak' = 0
    /\ UNCHANGED <<snaps, superblocks, last_op, commit_min, view, view_durable, sent, lagged,
                   last_checkpoint, cp, sums, writer, errors, crashes>>

\* The prefix below the checkpointed op is dropped from the WAL.
drain == pc = "drain" /\ drain_at_once

\* The prepare is appended whatever became of the checkpoint, if its slot is free.
append ==
    /\ pc = "append" /\ pc' = "idle"
    /\ last_op' = IF append_has_room THEN last_op + 1 ELSE last_op
    /\ UNCHANGED <<snaps, superblocks, low, snapshot_op, commit_min, view, view_durable, sent, lagged,
                   coordinator, writer, errors, crashes>>

\* A step of the checkpoint fails; the rest of it is withheld.  A snapshot whose
\* directory could not be synced may be there or not.  (A drain that fails after its rename
\* poisons the journal: nothing more is appended, as if the drain never ended.)
checkpoint_fails ==
    /\ pc \in {"snapshot", "drain"} /\ pc' = "append"
    /\ errors < MaxErrors /\ errors' = errors + 1 /\ streak' = streak + 1
    /\ snaps' \in {snaps, IF pc = "snapshot" THEN snaps \cup {cp} ELSE snaps}
    /\ UNCHANGED <<superblocks, low, last_op, snapshot_op, commit_min, view, view_durable, sent, lagged,
                   last_checkpoint, checkpoint_pending, cp, sums, writer, crashes>>

\* A plausible slip: the commit point passes the head of the journal.
commit_past_journal ==
    /\ pc # "refused" /\ commit_min' = commit_min + 1
    /\ UNCHANGED <<durable, snapshot_op, view, view_durable, sent, lagged, coordinator, pc, writer,
                   errors, crashes>>

commit == commit_min < last_op /\ commit_past_journal

------------------------------------------------------------------------------
\* The replica enters a later view, in memory.
enter_view ==
    /\ pc # "refused" /\ view < MaxView /\ view' = view + 1
    /\ UNCHANGED <<durable, snapshot_op, commit_min, view_durable, sent, lagged, coordinator, pc, writer,
                   errors, crashes>>

\* Under the superblock lock the current view is captured with the last checkpoint.
write_superblock(who) ==
    /\ writer = None
    /\ IF who = "view" THEN pc # "refused" /\ view # view_durable ELSE pc = "superblock"
    /\ writer' = [who |-> who, view |-> view, ckpt |-> last_checkpoint]
    /\ superblocks' = superblocks \cup {[view |-> view, ckpt |-> last_checkpoint]}
    /\ UNCHANGED <<snaps, low, last_op, snapshot_op, commit_min, view, view_durable, sent, lagged,
                   coordinator, pc, errors, crashes>>

Recorded(v) ==
    /\ writer # None /\ writer' = None
    /\ superblocks' = {[view |-> writer.view, ckpt |-> writer.ckpt]}
    /\ view_durable' = v
    /\ pc' = IF writer.who = "checkpoint" THEN "drain" ELSE pc
    /\ UNCHANGED <<snaps, low, last_op, snapshot_op, commit_min, view, sent, lagged, coordinator,
                   errors, crashes>>

\* A plausible slip: the view is read again after the write.
mark_current_view_durable == Recorded(view)

\* The write returned: the view it captured is durable.
mark_superblock_durable == Recorded(writer.view)

\* The write failed.  The record may have reached the disk all the same.
superblock_fails ==
    /\ writer # None /\ writer' = None
    /\ errors < MaxErrors /\ errors' = errors + 1
    /\ IF writer.who = "checkpoint"
       THEN pc' = "append" /\ streak' = streak + 1 ELSE UNCHANGED <<pc, streak>>
    /\ UNCHANGED <<durable, snapshot_op, commit_min, view, view_durable, sent, lagged,
                   last_checkpoint, checkpoint_pending, cp, sums, crashes>>

\* The gate on every view-scoped send.
send ==
    /\ pc # "refused" /\ view = view_durable /\ sent < view
    /\ sent' = view
    /\ UNCHANGED <<durable, snapshot_op, commit_min, view, view_durable, lagged, coordinator, pc, writer,
                   errors, crashes>>

------------------------------------------------------------------------------
\* What a crash may leave: the contents of the superblock, the snapshot and the first WAL op.
CrashImages ==
    {[sb |-> sb, snap |-> s, low |-> l] :
        sb \in superblocks,
        s \in snaps \cup (IF pc = "snapshot" THEN {cp} ELSE {}),
        l \in {low} \cup (IF pc = "drain" THEN {cp.op} ELSE {})}

\* The superblock must not point past the snapshot, nor at another one of the same op.
verify_checkpoint_pairing(sb, snap) ==
    ~(sb.ckpt.op > snap.op \/ (sb.ckpt.op = snap.op /\ sb.ckpt.sum # snap.sum))

\* Crash and recovery.  What the WAL proves committed is replayed over the snapshot.
recover ==
    /\ pc # "refused" /\ crashes < MaxCrashes /\ crashes' = crashes + 1
    /\ \E image \in CrashImages :
         /\ snaps' = {image.snap} /\ superblocks' = {image.sb} /\ low' = image.low
         /\ pc' = IF verify_checkpoint_pairing(image.sb, image.snap) THEN "idle" ELSE "refused"
         /\ snapshot_op' = image.snap.op
         /\ commit_min' \in {image.snap.op, IF commit_min > image.snap.op THEN commit_min
                                            ELSE image.snap.op}
         /\ view' = image.sb.view /\ view_durable' = image.sb.view
         /\ last_checkpoint' = image.snap
    /\ checkpoint_pending' = FALSE /\ writer' = None
    /\ UNCHANGED <<last_op, sent, lagged, cp, sums, streak, errors>>

Next == \/ on_replicate \/ persist_snapshot \/ drain \/ append \/ checkpoint_fails \/ commit
        \/ enter_view \/ write_superblock("view") \/ write_superblock("checkpoint")
        \/ mark_superblock_durable \/ superblock_fails \/ send
        \/ recover

Spec == Init /\ [][Next]_vars

------------------------------------------------------------------------------
Checkpoints == [op : 0 .. MaxOp, sum : Nat]

\* Every variable has the shape the coordinator gives it.
TypeOK ==
    /\ snaps \subseteq Checkpoints /\ superblocks \subseteq [view : 0 .. MaxView, ckpt : Checkpoints]
    /\ {low, last_op, snapshot_op, commit_min} \subseteq 0 .. MaxOp + 1
    /\ {view, view_durable, sent} \subseteq 0 .. MaxView
    /\ last_checkpoint \in Checkpoints /\ cp \in Checkpoints /\ checkpoint_pending \in BOOLEAN
    /\ lagged \in BOOLEAN
    /\ pc \in {"idle", "snapshot", "superblock", "drain", "append", "refused"}
    /\ writer = None \/ writer \in [who : {"view", "checkpoint"}, view : 0 .. MaxView, ckpt : Checkpoints]

\* Whatever snapshot and WAL a crash leaves together, every op the replica journaled is
\* in the one or in the other.
NothingStranded == \A image \in CrashImages : image.low <= image.snap.op + 1

\* The view a crash leaves in the superblock is at least every view the replica sent in,
\* however writes of views and checkpoints interleave.
ActedViewIsDurable == \A image \in CrashImages : image.sb.view >= sent

\* The margin leaves room for the prepare in hand after up to Margin failed attempts in a
\* row, across restarts too, as long as the replica keeps up as a primary must: fewer than
\* Queue journaled ops wait to be applied when a prepare comes.  (A backup may lag further,
\* and has prepares refused at a full ring.)
RoomToAppend == pc = "append" /\ streak <= Margin /\ ~lagged => append_has_room

\* Recovery accepts whatever a crash leaves, failed view writes included, as long as no
\* checkpoint is being taken again: the second snapshot of an op has another checksum.
RecoveryAccepts ==
    streak = 0 => \A image \in CrashImages : verify_checkpoint_pairing(image.sb, image.snap)
==============================================================================
