------------------------ MODULE MetadataCheckpointProofs ------------------------
(***************************************************************************)
(* What MetadataCheckpoint promises, for every size of the journal, every  *)
(* margin and queue depth with Queue <= Margin and 4 * Margin <= SlotCount *)
(* (which the configuration validates) and every bound: no op is lost      *)
(* between snapshot and WAL, no view that was acted in is forgotten,       *)
(* recovery accepts what a crash leaves, and the margin leaves room.       *)
(*                                                                         *)
(* None of the four is inductive.  The parts below say what the holder of  *)
(* the gate knows of the checkpoint it is taking, what the holder of the   *)
(* superblock lock knows of its record, and how the frontiers are ordered. *)
(***************************************************************************)
EXTENDS MetadataCheckpoint, TLAPS

Checkpointing == {"snapshot", "superblock", "drain"}

\* The type invariant, with the counters that have no bound of their own.
Types == TypeOK /\ {sums, streak, errors, crashes} \subseteq Nat

\* A record being written may already be on the disk; the checkpoint's own write names
\* the checkpoint.
Locked ==
    writer # None =>
        /\ [view |-> writer.view, ckpt |-> writer.ckpt] \in superblocks
        /\ writer.who = "checkpoint" => pc = "superblock" /\ writer.ckpt = cp

\* What holds of the captured checkpoint while it is taken.
Captured ==
    /\ pc \in Checkpointing \cup {"append"} => last_op < MaxOp
    /\ pc \in Checkpointing =>
          /\ checkpoint_pending
          /\ cp.op <= commit_min /\ low <= cp.op + 1 /\ snapshot_op <= cp.op
          /\ ~lagged => last_op < cp.op + Queue
    /\ pc \in {"superblock", "drain"} => snaps = {cp} /\ last_checkpoint = cp
    /\ pc = "drain" => \A sb \in superblocks : sb.ckpt = cp

\* The order of the frontiers.
Frontiers ==
    /\ commit_min <= last_op /\ low <= commit_min + 1
    /\ snapshot_op <= commit_min /\ last_checkpoint.op <= commit_min
    /\ \A s \in snaps : low <= s.op + 1 /\ snapshot_op <= s.op /\ s.op <= commit_min

\* The durable view lies between what was sent and what any record names.
Views ==
    /\ sent <= view_durable /\ view_durable <= view
    /\ \A sb \in superblocks : view_durable <= sb.view
    /\ writer # None => writer.view <= view

\* While no attempt failed, the snapshot on disk is the last checkpoint and every record
\* names that one or an earlier op.
Precedes(c, d) == c.op < d.op \/ c = d
Paired ==
    streak = 0 =>
        /\ snaps = {last_checkpoint}
        /\ \A sb \in superblocks : Precedes(sb.ckpt, last_checkpoint)
        /\ pc \notin Checkpointing => ~checkpoint_pending
        /\ pc = "snapshot" => last_checkpoint.op < cp.op

\* As long as the replica keeps up, the journal holds no more than one op beyond the margin
\* for every failed attempt.
Room ==
    /\ ~checkpoint_pending => last_checkpoint.op <= snapshot_op + 1
    /\ ~lagged => last_op + (IF pc = "append" THEN 1 ELSE 0) + Margin <= SlotCount + streak + snapshot_op

\* The inductive invariant.
IInv == Types /\ Locked /\ Captured /\ Frontiers /\ Views /\ Paired /\ Room

------------------------------------------------------------------------------
(* Facts about the values of the model *)

\* The sizes as numbers.
LEMMA Sizes ==
    /\ SlotCount \in Nat /\ Margin \in Nat \ {0} /\ Queue \in Nat \ {0}
    /\ MaxOp \in Nat /\ MaxView \in Nat /\ MaxErrors \in Nat /\ MaxCrashes \in Nat
    /\ Queue <= Margin /\ 4 * Margin <= SlotCount
BY CheckpointAssumption

\* The fields of a checkpoint.
LEMMA CheckpointFields ==
    ASSUME NEW c \in Checkpoints
    PROVE  c.op \in 0 .. MaxOp /\ c.sum \in Nat
BY DEF Checkpoints

\* A checkpoint made of its fields.
LEMMA CheckpointMade ==
    ASSUME NEW op \in 0 .. MaxOp, NEW sum \in Nat
    PROVE  /\ Checkpoint(op, sum) \in Checkpoints
           /\ Checkpoint(op, sum).op = op /\ Checkpoint(op, sum).sum = sum
BY DEF Checkpoint, Checkpoints

Records == [view : 0 .. MaxView, ckpt : Checkpoints]

\* The fields of a superblock record.
LEMMA RecordFields ==
    /\ \A sb \in Records : sb.view \in 0 .. MaxView /\ sb.ckpt \in Checkpoints
    /\ \A v \in 0 .. MaxView, c \in Checkpoints :
          LET sb == [view |-> v, ckpt |-> c]
          IN  sb \in Records /\ sb.view = v /\ sb.ckpt = c
BY DEF Records

\* The fields of a crash image.
LEMMA ImageFields ==
    \A image \in CrashImages :
        /\ image.sb \in superblocks
        /\ image.snap \in snaps \/ (pc = "snapshot" /\ image.snap = cp)
        /\ image.low = low \/ (pc = "drain" /\ image.low = cp.op)
BY DEF CrashImages

\* The typing facts the other steps need.
LEMMA TypeFacts ==
    ASSUME Types
    PROVE  /\ snaps \subseteq Checkpoints /\ superblocks \subseteq Records
           /\ low \in Nat /\ last_op \in Nat /\ snapshot_op \in Nat /\ commit_min \in Nat
           /\ view \in 0 .. MaxView /\ view_durable \in 0 .. MaxView /\ sent \in 0 .. MaxView
           /\ last_checkpoint \in Checkpoints /\ cp \in Checkpoints
           /\ checkpoint_pending \in BOOLEAN /\ lagged \in BOOLEAN
           /\ sums \in Nat /\ streak \in Nat /\ errors \in Nat /\ crashes \in Nat
           /\ writer # None =>
                 /\ writer.who \in {"view", "checkpoint"}
                 /\ writer.view \in 0 .. MaxView /\ writer.ckpt \in Checkpoints
BY Sizes DEF Types, TypeOK, Records

------------------------------------------------------------------------------
(* One lemma per action *)

\* The gate is taken, with or without a checkpoint.
LEMMA OnReplicateStep == ASSUME IInv, on_replicate PROVE IInv'
<1> USE Sizes DEF on_replicate, TakesGate, durable, coordinator
<1>0. Types /\ Locked /\ Captured /\ Frontiers /\ Views /\ Paired /\ Room
  BY DEF IInv
<1>a. commit_min \in 0 .. MaxOp /\ sums + 1 \in Nat
  BY <1>0, TypeFacts DEF Frontiers
<1>b. DEFINE c == Checkpoint(commit_min, sums + 1)
<1>c. c \in Checkpoints /\ c.op = commit_min
  BY <1>a, CheckpointMade
<1>d. last_checkpoint.op \in Nat /\ cp.op \in Nat
  BY <1>0, TypeFacts, CheckpointFields
<1> HIDE DEF c
<1>g. lagged' \in BOOLEAN /\ (~lagged' => ~lagged /\ last_op < commit_min + Queue)
  <2>1. lagged' = (lagged \/ last_op - commit_min >= Queue)
    OBVIOUS
  <2>2. ~(last_op - commit_min >= Queue) <=> last_op < commit_min + Queue
    BY <1>0, TypeFacts
  <2> QED BY <2>1, <2>2, Zenon
<1>e. CASE pc' = "snapshot"
  <2>0. /\ checkpoint_pending' = TRUE /\ cp' = c /\ sums' = sums + 1 /\ pc' = "snapshot"
        /\ last_checkpoint' = last_checkpoint
        /\ commit_min > last_checkpoint.op \/ (commit_min = last_checkpoint.op /\ checkpoint_pending)
        /\ UNCHANGED <<durable, snapshot_op, commit_min, view, view_durable, sent,
                       streak, writer, errors, crashes>>
        /\ pc = "idle" /\ last_op < MaxOp
    BY <1>e DEF c
  <2> USE <2>0 
  <2>1. Types'
    BY <1>0, <1>c, <1>a, <1>g, TypeFacts DEF Types, TypeOK
  <2>2. Locked'
    BY <1>0 DEF Locked
  <2>3. Captured'
    BY <1>0, <1>c, <1>g, TypeFacts DEF Captured, Checkpointing, Frontiers
  <2>4. Frontiers'
    BY <1>0 DEF Frontiers
  <2>5. Views'
    BY <1>0 DEF Views
  <2>6. Paired'
    BY <1>0, <1>c, <1>d, TypeFacts DEF Paired, Precedes, Checkpointing
  <2>7. Room'
    BY <1>0, <1>g DEF Room
  <2> QED BY <2>1, <2>2, <2>3, <2>4, <2>5, <2>6, <2>7 DEF IInv
<1>f. CASE pc' # "snapshot"
  <2>0. /\ pc' = "append" /\ pc = "idle" /\ last_op < MaxOp
        /\ ~should_checkpoint \/ (commit_min <= last_checkpoint.op
                                  /\ (commit_min = last_checkpoint.op => ~checkpoint_pending))
        /\ UNCHANGED <<durable, snapshot_op, commit_min, view, view_durable, sent, coordinator,
                       writer, errors, crashes>>
    BY <1>f, <1>0, <1>d, TypeFacts
  <2> USE <2>0
  <2>1. Types'
    BY <1>0, <1>g, TypeFacts DEF Types, TypeOK
  <2>2. Locked'
    BY <1>0 DEF Locked
  <2>3. Captured'
    BY <1>0, <1>g DEF Captured, Checkpointing
  <2>4. Frontiers'
    BY <1>0 DEF Frontiers
  <2>5. Views'
    BY <1>0 DEF Views
  <2>6. Paired'
    BY <1>0 DEF Paired, Precedes, Checkpointing
  <2>7. Room'
    <3>1. ~lagged' => last_op + Margin + 1 <= SlotCount + streak + snapshot_op
      <4>1. CASE ~should_checkpoint
        BY <4>1, <1>0, TypeFacts DEF should_checkpoint, remaining_capacity
      <4>2. CASE should_checkpoint
        BY <4>2, <1>0, <1>d, <1>g, TypeFacts DEF Room, Frontiers
      <4> QED BY <4>1, <4>2
    <3> QED BY <3>1, <1>0, <1>g, TypeFacts DEF Room
  <2> QED BY <2>1, <2>2, <2>3, <2>4, <2>5, <2>6, <2>7 DEF IInv
<1> QED BY <1>e, <1>f

\* The snapshot is durable.
LEMMA PersistSnapshotStep == ASSUME IInv, persist_snapshot PROVE IInv'
<1> USE Sizes, CheckpointFields, RecordFields DEF persist_snapshot, durable, coordinator
<1>0. Types /\ Locked /\ Captured /\ Frontiers /\ Views /\ Paired /\ Room
  BY DEF IInv
<1>1. Types'
  BY <1>0, TypeFacts DEF TypeOK, Records, Types
<1>2. Locked'
  BY <1>0, TypeFacts DEF Locked
<1>3. Captured'
  BY <1>0, TypeFacts DEF Checkpointing, Captured
<1>4. Frontiers'
  BY <1>0, TypeFacts DEF Captured, Checkpointing, Frontiers
<1>5. Views'
  BY <1>0, TypeFacts DEF Views
<1>6. Paired'
  BY <1>0, TypeFacts DEF Precedes, Checkpointing, Paired
<1>7. Room'
  BY <1>0, TypeFacts DEF Captured, Checkpointing, Room
<1> QED BY <1>1, <1>2, <1>3, <1>4, <1>5, <1>6, <1>7 DEF IInv

\* The WAL is drained.
LEMMA DrainStep == ASSUME IInv, drain PROVE IInv'
<1> USE Sizes, CheckpointFields, RecordFields DEF drain, drain_at_once, durable, coordinator
<1>0. Types /\ Locked /\ Captured /\ Frontiers /\ Views /\ Paired /\ Room
  BY DEF IInv
<1>1. Types'
  <2>1. cp.op \in 0 .. MaxOp /\ snapshot_op \in 0 .. MaxOp + 1 /\ last_op \in 0 .. MaxOp + 1
        /\ commit_min \in 0 .. MaxOp + 1
    BY <1>0, TypeFacts DEF Types, TypeOK
  <2>2. {low', last_op', snapshot_op', commit_min'} \subseteq 0 .. MaxOp + 1
    BY <2>1
  <2>3. TypeOK'
    BY <1>0, <2>2 DEF Types, TypeOK
  <2> QED BY <1>0, <2>3 DEF Types
<1>2. Locked'
  BY <1>0, TypeFacts DEF Locked
<1>3. Captured'
  BY <1>0, TypeFacts DEF Checkpointing, Captured
<1>4. Frontiers'
  BY <1>0, TypeFacts DEF Captured, Checkpointing, Frontiers
<1>5. Views'
  BY <1>0, TypeFacts DEF Views
<1>6. Paired'
  BY <1>0, TypeFacts DEF Captured, Precedes, Checkpointing, Paired
<1>7. Room'
  BY <1>0, TypeFacts DEF Captured, Checkpointing, Room
<1> QED BY <1>1, <1>2, <1>3, <1>4, <1>5, <1>6, <1>7 DEF IInv

\* The prepare is appended.
LEMMA AppendStep == ASSUME IInv, append PROVE IInv'
<1> USE Sizes, CheckpointFields, RecordFields DEF append, append_has_room, durable, coordinator
<1>0. Types /\ Locked /\ Captured /\ Frontiers /\ Views /\ Paired /\ Room
  BY DEF IInv
<1>1. Types'
  BY <1>0, TypeFacts DEF Captured, TypeOK, Records, Types
<1>2. Locked'
  BY <1>0, TypeFacts DEF Locked
<1>3. Captured'
  BY <1>0, TypeFacts DEF Checkpointing, Captured
<1>4. Frontiers'
  BY <1>0, TypeFacts DEF Frontiers
<1>5. Views'
  BY <1>0, TypeFacts DEF Views
<1>6. Paired'
  BY <1>0, TypeFacts DEF Precedes, Checkpointing, Paired
<1>7. Room'
  BY <1>0, TypeFacts DEF Room
<1> QED BY <1>1, <1>2, <1>3, <1>4, <1>5, <1>6, <1>7 DEF IInv

\* A step of the checkpoint fails.
LEMMA CheckpointFailsStep == ASSUME IInv, checkpoint_fails PROVE IInv'
<1> USE Sizes, CheckpointFields, RecordFields DEF checkpoint_fails, durable, coordinator
<1>0. Types /\ Locked /\ Captured /\ Frontiers /\ Views /\ Paired /\ Room
  BY DEF IInv
<1>1. Types'
  BY <1>0, TypeFacts DEF TypeOK, Records, Types
<1>2. Locked'
  BY <1>0, TypeFacts DEF Locked
<1>3. Captured'
  BY <1>0, TypeFacts DEF Checkpointing, Captured
<1>4. Frontiers'
  BY <1>0, TypeFacts DEF Captured, Checkpointing, Frontiers
<1>5. Views'
  BY <1>0, TypeFacts DEF Views
<1>6. Paired'
  BY <1>0, TypeFacts DEF Precedes, Checkpointing, Paired
<1>7. Room'
  BY <1>0, TypeFacts DEF Room
<1> QED BY <1>1, <1>2, <1>3, <1>4, <1>5, <1>6, <1>7 DEF IInv

\* An op is committed.
LEMMA CommitStep == ASSUME IInv, commit PROVE IInv'
<1> USE Sizes, CheckpointFields, RecordFields DEF commit, commit_past_journal, durable, coordinator
<1>0. Types /\ Locked /\ Captured /\ Frontiers /\ Views /\ Paired /\ Room
  BY DEF IInv
<1>1. Types'
  BY <1>0, TypeFacts DEF TypeOK, Records, Types
<1>2. Locked'
  BY <1>0, TypeFacts DEF Locked
<1>3. Captured'
  BY <1>0, TypeFacts DEF Checkpointing, Captured
<1>4. Frontiers'
  BY <1>0, TypeFacts DEF Frontiers
<1>5. Views'
  BY <1>0, TypeFacts DEF Views
<1>6. Paired'
  BY <1>0, TypeFacts DEF Precedes, Checkpointing, Paired
<1>7. Room'
  BY <1>0, TypeFacts DEF Room
<1> QED BY <1>1, <1>2, <1>3, <1>4, <1>5, <1>6, <1>7 DEF IInv

\* The view moves on in memory.
LEMMA EnterViewStep == ASSUME IInv, enter_view PROVE IInv'
<1> USE Sizes, CheckpointFields, RecordFields DEF enter_view, durable, coordinator
<1>0. Types /\ Locked /\ Captured /\ Frontiers /\ Views /\ Paired /\ Room
  BY DEF IInv
<1>1. Types'
  BY <1>0, TypeFacts DEF TypeOK, Records, Types
<1>2. Locked'
  BY <1>0, TypeFacts DEF Locked
<1>3. Captured'
  BY <1>0, TypeFacts DEF Checkpointing, Captured
<1>4. Frontiers'
  BY <1>0, TypeFacts DEF Frontiers
<1>5. Views'
  BY <1>0, TypeFacts DEF Views
<1>6. Paired'
  BY <1>0, TypeFacts DEF Precedes, Checkpointing, Paired
<1>7. Room'
  BY <1>0, TypeFacts DEF Room
<1> QED BY <1>1, <1>2, <1>3, <1>4, <1>5, <1>6, <1>7 DEF IInv

\* A superblock write starts.
LEMMA WriteSuperblockStep == ASSUME IInv, write_superblock("view") \/ write_superblock("checkpoint") PROVE IInv'
<1> USE Sizes, CheckpointFields, RecordFields DEF write_superblock, durable, coordinator
<1>0. Types /\ Locked /\ Captured /\ Frontiers /\ Views /\ Paired /\ Room
  BY DEF IInv
<1>1. Types'
  BY <1>0, TypeFacts DEF TypeOK, Records, Types
<1>2. Locked'
  BY <1>0, TypeFacts DEF Captured, Locked
<1>3. Captured'
  BY <1>0, TypeFacts DEF Checkpointing, Captured
<1>4. Frontiers'
  BY <1>0, TypeFacts DEF Frontiers
<1>5. Views'
  BY <1>0, TypeFacts DEF Views
<1>6. Paired'
  BY <1>0, TypeFacts DEF Precedes, Checkpointing, Paired
<1>7. Room'
  BY <1>0, TypeFacts DEF Room
<1> QED BY <1>1, <1>2, <1>3, <1>4, <1>5, <1>6, <1>7 DEF IInv

\* A superblock write returns.
LEMMA MarkDurableStep == ASSUME IInv, mark_superblock_durable PROVE IInv'
<1> USE Sizes, CheckpointFields, RecordFields DEF mark_superblock_durable, Recorded, durable, coordinator
<1>0. Types /\ Locked /\ Captured /\ Frontiers /\ Views /\ Paired /\ Room
  BY DEF IInv
<1>1. Types'
  BY <1>0, TypeFacts DEF TypeOK, Records, Types
<1>2. Locked'
  BY <1>0, TypeFacts DEF Locked
<1>3. Captured'
  BY <1>0, TypeFacts DEF Locked, Checkpointing, Captured
<1>4. Frontiers'
  BY <1>0, TypeFacts DEF Frontiers
<1>5. Views'
  BY <1>0, TypeFacts DEF Locked, Views
<1>6. Paired'
  BY <1>0, TypeFacts DEF Locked, Captured, Precedes, Checkpointing, Paired
<1>7. Room'
  BY <1>0, TypeFacts DEF Room
<1> QED BY <1>1, <1>2, <1>3, <1>4, <1>5, <1>6, <1>7 DEF IInv

\* A superblock write fails.
LEMMA SuperblockFailsStep == ASSUME IInv, superblock_fails PROVE IInv'
<1> USE Sizes, CheckpointFields, RecordFields DEF superblock_fails, durable, coordinator
<1>0. Types /\ Locked /\ Captured /\ Frontiers /\ Views /\ Paired /\ Room
  BY DEF IInv
<1>1. Types'
  BY <1>0, TypeFacts DEF TypeOK, Records, Types
<1>2. Locked'
  BY <1>0, TypeFacts DEF Locked
<1>3. Captured'
  BY <1>0, TypeFacts DEF Locked, Checkpointing, Captured
<1>4. Frontiers'
  BY <1>0, TypeFacts DEF Frontiers
<1>5. Views'
  BY <1>0, TypeFacts DEF Views
<1>6. Paired'
  BY <1>0, TypeFacts DEF Precedes, Checkpointing, Paired
<1>7. Room'
  BY <1>0, TypeFacts DEF Room
<1> QED BY <1>1, <1>2, <1>3, <1>4, <1>5, <1>6, <1>7 DEF IInv

\* The replica sends in its view.
LEMMA SendStep == ASSUME IInv, send PROVE IInv'
<1> USE Sizes, CheckpointFields, RecordFields DEF send, durable, coordinator
<1>0. Types /\ Locked /\ Captured /\ Frontiers /\ Views /\ Paired /\ Room
  BY DEF IInv
<1>1. Types'
  BY <1>0, TypeFacts DEF TypeOK, Records, Types
<1>2. Locked'
  BY <1>0, TypeFacts DEF Locked
<1>3. Captured'
  BY <1>0, TypeFacts DEF Checkpointing, Captured
<1>4. Frontiers'
  BY <1>0, TypeFacts DEF Frontiers
<1>5. Views'
  BY <1>0, TypeFacts DEF Views
<1>6. Paired'
  BY <1>0, TypeFacts DEF Precedes, Checkpointing, Paired
<1>7. Room'
  BY <1>0, TypeFacts DEF Room
<1> QED BY <1>1, <1>2, <1>3, <1>4, <1>5, <1>6, <1>7 DEF IInv

\* A crash leaves one of its images, and recovery starts from it.
LEMMA RecoverStep == ASSUME IInv, recover PROVE IInv'
<1> USE Sizes DEF recover
<1>0. Types /\ Locked /\ Captured /\ Frontiers /\ Views /\ Paired /\ Room
  BY DEF IInv
<1> PICK image \in CrashImages :
         /\ snaps' = {image.snap} /\ superblocks' = {image.sb} /\ low' = image.low
         /\ pc' = IF verify_checkpoint_pairing(image.sb, image.snap) THEN "idle" ELSE "refused"
         /\ snapshot_op' = image.snap.op
         /\ commit_min' \in {image.snap.op, IF commit_min > image.snap.op THEN commit_min
                                            ELSE image.snap.op}
         /\ view' = image.sb.view /\ view_durable' = image.sb.view
         /\ last_checkpoint' = image.snap
  OBVIOUS
<1>a. /\ image.sb \in superblocks
      /\ image.snap \in snaps \/ (pc = "snapshot" /\ image.snap = cp)
      /\ image.low = low \/ (pc = "drain" /\ image.low = cp.op)
  BY ImageFields
<1>b. /\ image.sb \in Records /\ image.snap \in Checkpoints
      /\ image.sb.view \in 0 .. MaxView /\ image.snap.op \in 0 .. MaxOp
      /\ cp.op \in 0 .. MaxOp
  BY <1>0, <1>a, TypeFacts, RecordFields, CheckpointFields
<1>c. /\ image.low <= image.snap.op + 1 /\ image.snap.op <= commit_min
      /\ snapshot_op <= image.snap.op
  BY <1>0, <1>a, <1>b, TypeFacts DEF Frontiers, Captured, Checkpointing
<1>d. image.low \in 0 .. MaxOp + 1 /\ commit_min \in 0 .. MaxOp + 1
  BY <1>0, <1>a, <1>b DEF Types, TypeOK
<1>e. /\ commit_min' \in 0 .. MaxOp + 1 /\ image.snap.op <= commit_min' /\ commit_min' <= commit_min
      /\ pc' \in {"idle", "refused"} /\ writer' = None /\ checkpoint_pending' = FALSE
      /\ last_op' = last_op /\ sent' = sent /\ lagged' = lagged /\ cp' = cp
      /\ UNCHANGED <<sums, streak, errors>> /\ crashes' = crashes + 1
  BY <1>b, <1>c, <1>d
<1>1. Types'
  <2>1. snaps' \subseteq Checkpoints /\ superblocks' \subseteq Records /\ last_checkpoint' \in Checkpoints
    BY <1>b
  <2>2. {low', last_op', snapshot_op', commit_min'} \subseteq 0 .. MaxOp + 1
    BY <1>0, <1>b, <1>d, <1>e DEF Types, TypeOK
  <2>3. {view', view_durable', sent'} \subseteq 0 .. MaxView
    BY <1>0, <1>b, <1>e DEF Types, TypeOK
  <2>4. cp' \in Checkpoints /\ lagged' \in BOOLEAN /\ {sums, streak, errors, crashes}' \subseteq Nat
    BY <1>0, <1>e DEF Types, TypeOK
  <2> QED BY <1>e, <2>1, <2>2, <2>3, <2>4 DEF Types, TypeOK, Records
<1>2. Locked'
  BY <1>e DEF Locked
<1>3. Captured'
  BY <1>e DEF Captured, Checkpointing
<1>4. Frontiers'
  BY <1>0, <1>b, <1>c, <1>d, <1>e, TypeFacts DEF Frontiers
<1>5. Views'
  <2>1. view' = image.sb.view /\ view_durable' = image.sb.view /\ superblocks' = {image.sb}
    OBVIOUS
  <2>2. sent <= view_durable /\ view_durable <= image.sb.view
    BY <1>0, <1>a DEF Views
  <2>3. sent <= image.sb.view /\ image.sb.view <= image.sb.view
    BY <2>2, <1>0, <1>b, TypeFacts
  <2>4. sent' = sent /\ writer' = None
    BY <1>e
  <2> HIDE DEF recover
  <2> QED BY <2>1, <2>3, <2>4, Zenon DEF Views
<1>6. Paired'
  BY <1>0, <1>a, <1>b, <1>e, TypeFacts, CheckpointFields, RecordFields
     DEF Paired, Precedes, Checkpointing
<1>7. Room'
  <2>1. ~lagged => last_op + Margin <= SlotCount + streak + snapshot_op
    BY <1>0, TypeFacts DEF Room
  <2> QED BY <2>1, <1>0, <1>b, <1>c, <1>e, TypeFacts DEF Room
<1> QED BY <1>1, <1>2, <1>3, <1>4, <1>5, <1>6, <1>7 DEF IInv

------------------------------------------------------------------------------
(* The theorems *)

\* The empty journal of a fresh replica satisfies the invariant.
LEMMA InitIInv == ASSUME Init PROVE IInv
<1> USE Sizes DEF Init
<1>0. Checkpoint(0, 0) \in Checkpoints /\ Checkpoint(0, 0).op = 0
  BY CheckpointMade
<1>1. Types
  <2>1. [view |-> 0, ckpt |-> Checkpoint(0, 0)] \in Records
    BY <1>0, RecordFields
  <2>2. snaps \subseteq Checkpoints /\ superblocks \subseteq Records
    BY <1>0, <2>1
  <2>3. {low, last_op, snapshot_op, commit_min} \subseteq 0 .. MaxOp + 1
    OBVIOUS
  <2>4. {view, view_durable, sent} \subseteq 0 .. MaxView /\ {sums, streak, errors, crashes} \subseteq Nat
    OBVIOUS
  <2> QED BY <1>0, <2>2, <2>3, <2>4 DEF Types, TypeOK, Records
<1>2. Locked /\ Captured
  BY DEF Locked, Captured, Checkpointing
<1>3. Frontiers /\ Views
  BY <1>0 DEF Frontiers, Views
<1>4. Paired /\ Room
  BY <1>0 DEF Paired, Precedes, Room, Checkpointing
<1> QED BY <1>1, <1>2, <1>3, <1>4 DEF IInv

\* Every step keeps the invariant.
LEMMA NextIInv == ASSUME IInv, [Next]_vars PROVE IInv'
<1>1. CASE Next
  BY <1>1, OnReplicateStep, PersistSnapshotStep, DrainStep, AppendStep, CheckpointFailsStep,
     CommitStep, EnterViewStep, WriteSuperblockStep, MarkDurableStep, SuperblockFailsStep,
     SendStep, RecoverStep DEF Next
<1>2. CASE UNCHANGED vars
  BY <1>2 DEF IInv, Types, TypeOK, Locked, Captured, Frontiers, Views, Paired, Precedes, Room,
              Checkpointing, vars, durable, coordinator
<1> QED BY <1>1, <1>2

\* The inductive invariant holds in every reachable state.
THEOREM InductiveInvariant == Spec => []IInv
BY InitIInv, NextIInv, PTL DEF Spec

\* Every variable of the checkpoint coordinator keeps its shape.
THEOREM TypeCorrect == Spec => []TypeOK
<1>1. IInv => TypeOK
  BY DEF IInv, Types
<1> QED BY <1>1, InductiveInvariant, PTL

\* Whatever pair of snapshot and WAL a crash leaves, no journaled op lies between the two:
\* the WAL is only drained below an op whose snapshot is already the one on disk.
THEOREM NoOpIsStranded == Spec => []NothingStranded
<1>1. ASSUME IInv PROVE NothingStranded
  <2> SUFFICES ASSUME NEW image \in CrashImages PROVE image.low <= image.snap.op + 1
    BY DEF NothingStranded
  <2>0. Types /\ Captured /\ Frontiers
    BY <1>1 DEF IInv
  <2>1. /\ image.snap \in snaps \/ (pc = "snapshot" /\ image.snap = cp)
        /\ image.low = low \/ (pc = "drain" /\ image.low = cp.op)
    BY ImageFields
  <2>2. image.snap.op \in Nat /\ cp.op \in Nat /\ low \in Nat
    BY <2>0, <2>1, TypeFacts, CheckpointFields, Sizes
  <2> QED BY <2>0, <2>1, <2>2 DEF Captured, Frontiers, Checkpointing
<1> QED BY <1>1, InductiveInvariant, PTL

\* No crash takes the replica back behind a view it sent in, however the writes of views
\* and checkpoints to the one superblock interleave and fail.
THEOREM ActedViewsSurvive == Spec => []ActedViewIsDurable
<1>1. ASSUME IInv PROVE ActedViewIsDurable
  <2> SUFFICES ASSUME NEW image \in CrashImages PROVE image.sb.view >= sent
    BY DEF ActedViewIsDurable
  <2>0. Types /\ Views
    BY <1>1 DEF IInv
  <2>1. image.sb \in superblocks /\ image.sb.view \in Nat
    BY <2>0, TypeFacts, RecordFields, ImageFields, Sizes
  <2> QED BY <2>0, <2>1, TypeFacts, Sizes DEF Views
<1> QED BY <1>1, InductiveInvariant, PTL

\* As long as no checkpoint attempt failed, recovery accepts every pair of superblock and
\* snapshot a crash can leave, also in the middle of a checkpoint or of a view write.
THEOREM RecoveryAcceptsEveryImage == Spec => []RecoveryAccepts
<1>1. ASSUME IInv PROVE RecoveryAccepts
  <2> SUFFICES ASSUME streak = 0, NEW image \in CrashImages
               PROVE  verify_checkpoint_pairing(image.sb, image.snap)
    BY DEF RecoveryAccepts
  <2>0. Types /\ Captured /\ Paired
    BY <1>1 DEF IInv
  <2>1. /\ image.sb \in superblocks
        /\ image.snap \in snaps \/ (pc = "snapshot" /\ image.snap = cp)
    BY ImageFields
  <2>2. /\ image.sb.ckpt.op \in Nat /\ image.snap.op \in Nat /\ last_checkpoint.op \in Nat
        /\ cp.op \in Nat
    BY <2>0, <2>1, TypeFacts, RecordFields, CheckpointFields, Sizes
  <2>3. Precedes(image.sb.ckpt, last_checkpoint) /\ snaps = {last_checkpoint}
    BY <2>0, <2>1 DEF Paired
  <2>4. Precedes(image.sb.ckpt, image.snap)
    BY <2>0, <2>1, <2>2, <2>3 DEF Paired, Precedes
  <2> QED BY <2>2, <2>4 DEF Precedes, verify_checkpoint_pairing
<1> QED BY <1>1, InductiveInvariant, PTL

\* The margin pays for one append per failed attempt: after up to Margin failures in a row
\* the slot of the prepare in hand is still free on a replica that keeps up as a primary must.
THEOREM MarginLeavesRoom == Spec => []RoomToAppend
<1>1. ASSUME IInv PROVE RoomToAppend
  BY <1>1, TypeFacts, Sizes DEF IInv, Room, RoomToAppend, append_has_room
<1> QED BY <1>1, InductiveInvariant, PTL
==============================================================================
