------------------------ MODULE PrimaryPipelineProofs ------------------------
(***************************************************************************)
(* The type invariant of PrimaryPipeline and the chain of its prepare      *)
(* queue, for any group, any queue depths and any bounds; then, from the   *)
(* chain, what the commit drivers rely on.                                 *)
(*                                                                         *)
(* PipelineIsChain is not inductive alone.  A rollback steps the sequencer *)
(* below the op it removes, so the ops of the queue must be positive; and  *)
(* an on_replicate task that continues as a backup overwrites the          *)
(* sequencer, which is harmless only because such a task exists only once  *)
(* the view is over.                                                       *)
(***************************************************************************)
EXTENDS PrimaryPipeline, FiniteSetTheorems, TLAPS

\* Every op in the pipeline is positive.
OpsArePositive == \A i \in 1..Len(prepare_queue) : prepare_queue[i].hdr.op > 0

\* A task that runs on as a backup was overtaken by a view change.
BackupTasksAreOvertaken == \A t \in tasks : t.is_backup => ~is_primary

\* The inductive invariant.
IInv == TypeOK /\ PipelineIsChain /\ OpsArePositive /\ BackupTasksAreOvertaken

-----------------------------------------------------------------------------
(* The operators of the model *)

\* A prefix of a sequence keeps its elements.
LEMMA SubSeqPrefix ==
    ASSUME NEW S, NEW s \in Seq(S), NEW k \in 0..Len(s)
    PROVE  /\ SubSeq(s, 1, k) \in Seq(S)
           /\ Len(SubSeq(s, 1, k)) = k
           /\ \A i \in 1..k : SubSeq(s, 1, k)[i] = s[i]
OBVIOUS

\* A request queue may be empty.
LEMMA EmptyRequestQueue == <<>> \in Seq(Clients)
OBVIOUS

\* The fields of a prepare header.
LEMMA HeaderFields ==
    ASSUME NEW h \in Header
    PROVE  /\ h.op \in Nat /\ h.checksum \in Nat /\ h.parent \in Nat
           /\ h.client \in Clients \cup {NoClient}
BY DEF Header

\* The fields of a pipeline entry.
LEMMA EntryFields ==
    ASSUME NEW e \in PipelineEntry
    PROVE  e.hdr \in Header /\ e.acks \in SUBSET Replicas /\ e.quorum \in BOOLEAN
BY DEF PipelineEntry

\* Both ways out of the commit loop and of the walk are driver states.
LEMMA DriverStates ==
    ASSUME TypeOK, NEW queue \in Seq(PipelineEntry), NEW min \in Nat, NEW max \in Nat
    PROVE  /\ peek_committable_head(queue, min, max) \in DriverState
           /\ walk_from(queue, min, max) \in DriverState
           /\ Idle \in DriverState
<1>1. NoHeader \in Header
  BY DEF NoHeader, Header
<1>2. queue # <<>> => queue[1].hdr \in Header
  BY EntryFields
<1>3. peek_committable_head(queue, min, max) \in DriverState
  BY <1>1, <1>2 DEF peek_committable_head, DriverState
<1>4. Journaled(min + 1) => (CHOOSE h \in journal : h.op = min + 1) \in Header
  BY DEF Journaled, TypeOK
<1>5. Idle \in DriverState
  BY <1>1 DEF Idle, DriverState
<1>6. walk_from(queue, min, max) \in DriverState
  BY <1>4, <1>5 DEF walk_from, DriverState
<1> QED BY <1>3, <1>5, <1>6

\* The commit point an ack quorum leads to.
LEMMA QuorumFrontierType ==
    ASSUME NEW queue \in Seq(PipelineEntry), NEW max \in Nat
    PROVE  quorum_frontier(queue, max) \in Nat
<1> DEFINE S == {k \in 1..Len(queue) : \A op \in (max + 1)..(max + k) :
                    \E i \in 1..Len(queue) : queue[i].hdr.op = op /\ queue[i].quorum}
<1>1. IsFiniteSet(1..Len(queue))
  BY FS_Interval
<1>2. IsFiniteSet(S)
  BY <1>1, FS_Subset
<1>3. Cardinality(S) \in Nat
  BY <1>2, FS_CardinalityType
<1>4. quorum_frontier(queue, max) = max + Cardinality(S)
  BY DEF quorum_frontier
<1> QED BY <1>3, <1>4

\* A new ack keeps an entry an entry of the same prepare.
LEMMA AddAckType ==
    ASSUME NEW e \in PipelineEntry, NEW r \in Replicas
    PROVE  add_ack(e, r) \in PipelineEntry /\ add_ack(e, r).hdr = e.hdr
<1> DEFINE acks == e.acks \cup {r}
           quorum == e.quorum \/ Cardinality(acks) >= quorum_replication
<1>1. acks \in SUBSET Replicas /\ quorum \in BOOLEAN /\ e.hdr \in Header
  BY EntryFields
<1>2. add_ack(e, r) = [hdr |-> e.hdr, acks |-> acks, quorum |-> quorum]
  BY Zenon DEF add_ack
<1> HIDE DEF acks, quorum
<1> QED BY <1>1, <1>2 DEF PipelineEntry

-----------------------------------------------------------------------------
(* What moves the pipeline *)

\* Steps that leave the pipeline, its end and the view alone keep the chain.
LEMMA ChainUntouched ==
    ASSUME PipelineIsChain, OpsArePositive,
           UNCHANGED <<status, sequencer, last_checksum, prepare_queue>>
    PROVE  PipelineIsChain' /\ OpsArePositive'
BY DEF PipelineIsChain, OpsArePositive, is_primary

\* push_prepare_entry extends the chain by the prepare it mints.
LEMMA PushExtendsChain ==
    ASSUME IInv, is_primary, ~prepare_queue_full, UNCHANGED status,
           NEW c \in Clients, push_prepare_entry(c)
    PROVE  /\ prepare_queue' \in Seq(PipelineEntry)
           /\ sequencer' \in Nat /\ last_checksum' \in Nat /\ minted' \in Nat
           /\ tasks' \in SUBSET Task
           /\ PipelineIsChain' /\ OpsArePositive' /\ BackupTasksAreOvertaken'
<1> DEFINE h == [op |-> sequencer + 1, checksum |-> minted + 1,
                 parent |-> last_checksum, client |-> c]
           e == [hdr |-> h, acks |-> {}, quorum |-> FALSE]
           t == [hdr |-> h, stage |-> "gate", is_backup |-> FALSE]
<1>1. h \in Header
  BY DEF IInv, TypeOK, Header
<1>2. e \in PipelineEntry /\ t \in Task
  BY <1>1 DEF PipelineEntry, Task
<1>3. /\ prepare_queue' = Append(prepare_queue, e)
      /\ sequencer' = sequencer + 1 /\ last_checksum' = minted + 1
      /\ minted' = minted + 1 /\ tasks' = tasks \cup {t}
  BY DEF push_prepare_entry
<1>4. prepare_queue \in Seq(PipelineEntry) /\ Len(prepare_queue) \in Nat
  BY DEF IInv, TypeOK
<1>5. e.hdr.op = sequencer + 1 /\ e.hdr.checksum = minted + 1 /\ e.hdr.parent = last_checksum
      /\ ~t.is_backup
  OBVIOUS
<1>6. Len(prepare_queue) < PREPARE_QUEUE_MAX
  BY <1>4, PipelineAssumption DEF prepare_queue_full
<1> HIDE DEF h, e, t
<1>7. /\ Len(prepare_queue') = Len(prepare_queue) + 1
      /\ \A i \in 1..Len(prepare_queue) : prepare_queue'[i] = prepare_queue[i]
      /\ prepare_queue'[Len(prepare_queue) + 1] = e
      /\ prepare_queue' \in Seq(PipelineEntry)
  BY <1>2, <1>3, <1>4
<1>8. PipelineIsChain'
  <2>1. Len(prepare_queue') <= PREPARE_QUEUE_MAX
    BY <1>4, <1>6, <1>7, PipelineAssumption
  <2>2. ASSUME NEW i \in 1..(Len(prepare_queue') - 1)
        PROVE  /\ prepare_queue'[i + 1].hdr.op = prepare_queue'[i].hdr.op + 1
               /\ prepare_queue'[i + 1].hdr.parent = prepare_queue'[i].hdr.checksum
    <3>1. CASE i = Len(prepare_queue)
      BY <3>1, <1>4, <1>5, <1>7 DEF IInv, PipelineIsChain
    <3>2. CASE i < Len(prepare_queue)
      BY <3>2, <1>4, <1>7 DEF IInv, PipelineIsChain
    <3> QED BY <3>1, <3>2, <1>4, <1>7
  <2>3. /\ prepare_queue'[Len(prepare_queue')].hdr.op = sequencer'
        /\ prepare_queue'[Len(prepare_queue')].hdr.checksum = last_checksum'
    BY <1>3, <1>5, <1>7
  <2> QED BY <2>1, <2>2, <2>3 DEF PipelineIsChain
<1>9. OpsArePositive'
  <2>1. e.hdr.op > 0
    BY <1>5 DEF IInv, TypeOK
  <2> QED BY <2>1, <1>4, <1>7 DEF IInv, OpsArePositive
<1>10. BackupTasksAreOvertaken'
  BY <1>3, <1>5 DEF IInv, BackupTasksAreOvertaken, is_primary
<1>11. /\ sequencer' \in Nat /\ last_checksum' \in Nat /\ minted' \in Nat
       /\ tasks' \in SUBSET Task
  BY <1>2, <1>3 DEF IInv, TypeOK
<1> QED BY <1>7, <1>8, <1>9, <1>10, <1>11

\* Popping the head keeps what is left of the chain.
LEMMA PopKeepsChain ==
    ASSUME IInv, prepare_queue # <<>>, prepare_queue' = Tail(prepare_queue),
           UNCHANGED <<status, sequencer, last_checksum>>
    PROVE  /\ prepare_queue' \in Seq(PipelineEntry)
           /\ PipelineIsChain' /\ OpsArePositive'
<1>1. prepare_queue \in Seq(PipelineEntry) /\ Len(prepare_queue) \in Nat \ {0}
  BY DEF IInv, TypeOK
<1>2. /\ Len(prepare_queue') = Len(prepare_queue) - 1
      /\ \A i \in 1..Len(prepare_queue') : prepare_queue'[i] = prepare_queue[i + 1]
      /\ prepare_queue' \in Seq(PipelineEntry)
  BY <1>1
<1>3. OpsArePositive'
  BY <1>1, <1>2 DEF IInv, OpsArePositive
<1>4. Len(prepare_queue') <= PREPARE_QUEUE_MAX
  BY <1>1, <1>2, PipelineAssumption DEF IInv, PipelineIsChain
<1>5. ASSUME NEW i \in 1..(Len(prepare_queue') - 1)
      PROVE  /\ prepare_queue'[i + 1].hdr.op = prepare_queue'[i].hdr.op + 1
             /\ prepare_queue'[i + 1].hdr.parent = prepare_queue'[i].hdr.checksum
  BY <1>1, <1>2 DEF IInv, PipelineIsChain
<1>6. is_primary' /\ Len(prepare_queue') > 0 =>
         /\ prepare_queue'[Len(prepare_queue')].hdr.op = sequencer'
         /\ prepare_queue'[Len(prepare_queue')].hdr.checksum = last_checksum'
  BY <1>1, <1>2 DEF IInv, PipelineIsChain, is_primary
<1> QED BY <1>2, <1>3, <1>4, <1>5, <1>6 DEF PipelineIsChain

\* rollback_pipelined_prepare hands back the tail: the sequencer and the parent
\* of the next prepare return to the entry before it, on every outcome.
LEMMA RollbackKeepsChain ==
    ASSUME IInv, UNCHANGED status, NEW h \in Header, rollback_pipelined_prepare(h)
    PROVE  /\ prepare_queue' \in Seq(PipelineEntry)
           /\ sequencer' \in Nat /\ last_checksum' \in Nat /\ fatal' \in BOOLEAN
           /\ PipelineIsChain' /\ OpsArePositive'
<1>1. CASE UNCHANGED <<prepare_queue, sequencer, last_checksum>>
  <2>1. PipelineIsChain' /\ OpsArePositive'
    BY <1>1, ChainUntouched DEF IInv
  <2>2. fatal' \in BOOLEAN
    BY Zenon DEF IInv, TypeOK, rollback_pipelined_prepare
  <2> QED BY <1>1, <2>1, <2>2 DEF IInv, TypeOK
<1>2. CASE /\ is_primary
           /\ sequencer = h.op
           /\ prepare_queue # <<>>
           /\ prepare_queue[Len(prepare_queue)].hdr = h
           /\ prepare_queue' = SubSeq(prepare_queue, 1, Len(prepare_queue) - 1)
           /\ sequencer' = h.op - 1
           /\ last_checksum' = h.parent
           /\ UNCHANGED fatal
  <2> DEFINE n == Len(prepare_queue)
  <2>1. prepare_queue \in Seq(PipelineEntry) /\ n \in Nat \ {0}
    BY <1>2 DEF IInv, TypeOK
  <2>2. /\ Len(prepare_queue') = n - 1
        /\ \A i \in 1..(n - 1) : prepare_queue'[i] = prepare_queue[i]
        /\ prepare_queue' \in Seq(PipelineEntry)
    <3> DEFINE front == SubSeq(prepare_queue, 1, n - 1)
    <3>1. prepare_queue \in Seq(PipelineEntry) /\ n - 1 \in 0..Len(prepare_queue)
      BY <2>1
    <3>2. /\ front \in Seq(PipelineEntry) /\ Len(front) = n - 1
          /\ \A i \in 1..(n - 1) : front[i] = prepare_queue[i]
      BY <3>1, SubSeqPrefix
    <3>3. prepare_queue' = front
      BY <1>2
    <3> HIDE DEF front
    <3> QED BY <3>2, <3>3
  <2>3. h.op > 0
    BY <1>2, <2>1 DEF IInv, OpsArePositive
  <2>4. sequencer' \in Nat /\ last_checksum' \in Nat /\ fatal' \in BOOLEAN
    BY <1>2, <2>3, HeaderFields DEF IInv, TypeOK
  <2>5. OpsArePositive'
    BY <2>1, <2>2 DEF IInv, OpsArePositive
  <2>6. Len(prepare_queue') <= PREPARE_QUEUE_MAX
    BY <2>1, <2>2, PipelineAssumption DEF IInv, PipelineIsChain
  <2>7. ASSUME NEW i \in 1..(Len(prepare_queue') - 1)
        PROVE  /\ prepare_queue'[i + 1].hdr.op = prepare_queue'[i].hdr.op + 1
               /\ prepare_queue'[i + 1].hdr.parent = prepare_queue'[i].hdr.checksum
    BY <2>1, <2>2 DEF IInv, PipelineIsChain
  <2>8. n - 1 > 0 => /\ prepare_queue'[n - 1].hdr.op = sequencer'
                    /\ prepare_queue'[n - 1].hdr.checksum = last_checksum'
    <3> SUFFICES ASSUME n - 1 > 0
                 PROVE  /\ prepare_queue[n - 1].hdr.op = h.op - 1
                        /\ prepare_queue[n - 1].hdr.checksum = h.parent
      BY <1>2, <2>1, <2>2
    <3>1. /\ prepare_queue[(n - 1) + 1].hdr.op = prepare_queue[n - 1].hdr.op + 1
          /\ prepare_queue[(n - 1) + 1].hdr.parent = prepare_queue[n - 1].hdr.checksum
      BY <2>1 DEF IInv, PipelineIsChain
    <3>2. (n - 1) + 1 = n /\ prepare_queue[n - 1].hdr.op \in Nat
      BY <2>1, EntryFields, HeaderFields
    <3> QED BY <1>2, <3>1, <3>2
  <2> QED BY <2>2, <2>4, <2>5, <2>6, <2>7, <2>8 DEF PipelineIsChain
<1> QED BY <1>1, <1>2 DEF rollback_pipelined_prepare

-----------------------------------------------------------------------------
(* The initial states *)

\* The queue rebuilt for a new view is a chain that ends at its head.
LEMMA InitIInv == Init => IInv
<1> SUFFICES ASSUME Init PROVE IInv
  OBVIOUS
<1>a. PICK head \in 0..MaxInherited : \E max, recovery \in 0..head : \E min \in 0..max :
          InitFrom(head, max, recovery, min)
  BY Zenon DEF Init, InitFrom
<1>b. PICK max \in 0..head, recovery \in 0..head : \E min \in 0..max :
          InitFrom(head, max, recovery, min)
  BY <1>a, Zenon
<1>c. PICK min \in 0..max : InitFrom(head, max, recovery, min)
  BY <1>b, Zenon
<1>1. /\ status = "Normal" /\ recovery_barrier = recovery
      /\ sequencer = head /\ last_checksum = head /\ minted = head
      /\ prepare_queue = rebuild_pipeline_entries(max, head)
      /\ request_queue = <<>>
      /\ journal = {Inherited(i) : i \in 1..head}
      /\ gate = 0 /\ tasks = {} /\ loopback = {}
      /\ commit_min = min /\ commit_max = max
      /\ applied = [i \in 1..min |-> i]
      /\ driver = [d \in Drivers |-> Idle]
      /\ fatal = FALSE
  BY <1>c DEF InitFrom
<1>2. /\ head \in Nat /\ max \in Nat /\ recovery \in Nat /\ min \in Nat
      /\ head - max \in Nat /\ head - max <= PREPARE_QUEUE_MAX
  BY PipelineAssumption
<1>3. ASSUME NEW i \in Nat \ {0} PROVE Inherited(i) \in Header
  BY DEF Inherited, Header
<1> DEFINE Entry(i) == [hdr |-> Inherited(max + i), acks |-> {Self}, quorum |-> FALSE]
<1>4. ASSUME NEW i \in 1..(head - max) PROVE Entry(i) \in PipelineEntry
  <2>1. Inherited(max + i) \in Header
    BY <1>2, <1>3
  <2> QED BY <2>1, PipelineAssumption DEF PipelineEntry
<1>5. /\ prepare_queue \in Seq(PipelineEntry) /\ Len(prepare_queue) = head - max
      /\ \A i \in 1..(head - max) : prepare_queue[i] = Entry(i)
  <2>1. prepare_queue = [i \in 1..(head - max) |-> Entry(i)]
    BY <1>1 DEF rebuild_pipeline_entries
  <2> HIDE DEF Entry
  <2> QED BY <1>2, <1>4, <2>1
<1>6. \A i \in 1..(head - max) :
          /\ prepare_queue[i].hdr.op = max + i
          /\ prepare_queue[i].hdr.checksum = max + i
          /\ prepare_queue[i].hdr.parent = max + i - 1
  <2> SUFFICES ASSUME NEW i \in 1..(head - max)
               PROVE  /\ prepare_queue[i].hdr.op = max + i
                      /\ prepare_queue[i].hdr.checksum = max + i
                      /\ prepare_queue[i].hdr.parent = max + i - 1
    OBVIOUS
  <2>1. Entry(i).hdr = Inherited(max + i)
    OBVIOUS
  <2>2. prepare_queue[i].hdr = Inherited(max + i)
    <3> HIDE DEF Entry
    <3> QED BY <1>5, <2>1
  <2> QED BY <2>2 DEF Inherited
<1> DEFINE n == Len(prepare_queue)
<1> HIDE DEF Entry
<1>7. PipelineIsChain
  <2>1. n <= PREPARE_QUEUE_MAX
    BY <1>2, <1>5
  <2>2. ASSUME NEW i \in 1..(n - 1)
        PROVE  /\ prepare_queue[i + 1].hdr.op = prepare_queue[i].hdr.op + 1
               /\ prepare_queue[i + 1].hdr.parent = prepare_queue[i].hdr.checksum
    <3>1. i \in 1..(head - max) /\ i + 1 \in 1..(head - max)
      BY <1>2, <1>5
    <3> QED BY <1>2, <1>6, <3>1
  <2>3. n > 0 => /\ prepare_queue[n].hdr.op = head
                 /\ prepare_queue[n].hdr.checksum = head
    <3>1. n > 0 => n \in 1..(head - max) /\ max + n = head
      BY <1>2, <1>5
    <3> QED BY <1>6, <3>1
  <2> QED BY <1>1, <2>1, <2>2, <2>3 DEF PipelineIsChain
<1>8. OpsArePositive
  <2> SUFFICES ASSUME NEW i \in 1..n PROVE prepare_queue[i].hdr.op > 0
    BY DEF OpsArePositive
  <2>1. i \in 1..(head - max) /\ max + i > 0
    BY <1>2, <1>5
  <2> QED BY <1>6, <2>1
<1>9. BackupTasksAreOvertaken
  BY <1>1 DEF BackupTasksAreOvertaken
<1>10. journal \in SUBSET Header
  BY <1>1, <1>2, <1>3
<1>11. applied \in Seq(Nat)
  BY <1>1, <1>2
<1>12. driver \in [Drivers -> DriverState]
  <2>1. Idle \in DriverState
    BY DEF Idle, NoHeader, Header, DriverState
  <2> QED BY <1>1, <2>1
<1>13. request_queue \in Seq(Clients)
  BY <1>1
<1>14. fatal \in BOOLEAN
  BY <1>1
<1>15. TypeOK
  BY <1>1, <1>2, <1>5, <1>10, <1>11, <1>12, <1>13, <1>14 DEF TypeOK
<1> QED BY <1>7, <1>8, <1>9, <1>15 DEF IInv

-----------------------------------------------------------------------------
(* The actions *)

\* Admitting a request pushes one prepare, queues it or refuses it.
LEMMA RequestStep ==
    ASSUME IInv, NEW c \in Clients, on_request(c) \/ submit_register_in_process(c)
    PROVE  IInv'
<1> DEFINE rest == <<status, recovery_barrier, journal, gate, loopback, commits, driver, fatal>>
<1>1. UNCHANGED rest
  BY DEF on_request, submit_register_in_process
<1>2. CASE ~prepare_queue_full /\ push_prepare_entry(c) /\ UNCHANGED request_queue /\ is_primary
  <2>1. /\ prepare_queue' \in Seq(PipelineEntry)
        /\ sequencer' \in Nat /\ last_checksum' \in Nat /\ minted' \in Nat
        /\ tasks' \in SUBSET Task
        /\ PipelineIsChain' /\ OpsArePositive' /\ BackupTasksAreOvertaken'
    BY <1>1, <1>2, PushExtendsChain
  <2> QED BY <1>1, <1>2, <2>1 DEF IInv, TypeOK, commits
<1>3. CASE push_request(c) /\ UNCHANGED <<prepare_queue, frontier, tasks>>
  <2>1. request_queue' \in Seq(Clients)
    BY <1>3 DEF push_request, IInv, TypeOK
  <2>2. PipelineIsChain' /\ OpsArePositive'
    BY <1>1, <1>3, ChainUntouched DEF IInv, frontier
  <2>3. BackupTasksAreOvertaken'
    BY <1>1, <1>3 DEF IInv, BackupTasksAreOvertaken, is_primary
  <2> QED BY <1>1, <1>3, <2>1, <2>2, <2>3 DEF IInv, TypeOK, commits, frontier
<1> QED BY <1>2, <1>3 DEF on_request, submit_register_in_process, is_caught_up_primary

\* A task that moves to its next stage keeps the prepare it carries.
LEMMA AdvanceType ==
    ASSUME IInv, NEW t \in tasks, NEW stage \in {"gate", "checkpoint", "append", "replicate"},
           UNCHANGED status, tasks' = Advance(t, stage)
    PROVE  tasks' \in SUBSET Task /\ BackupTasksAreOvertaken'
<1> DEFINE u == [t EXCEPT !.stage = stage]
<1>1. t \in Task
  BY DEF IInv, TypeOK
<1>2. u \in Task /\ u.is_backup = t.is_backup
  BY <1>1 DEF Task
<1>3. tasks' = (tasks \ {t}) \cup {u}
  BY DEF Advance
<1> HIDE DEF u
<1> QED BY <1>2, <1>3 DEF IInv, TypeOK, BackupTasksAreOvertaken, is_primary

\* The gate, the append and its rollback.
LEMMA AppendStep ==
    ASSUME IInv, NEW t \in tasks,
           acquire_gate(t) \/ begin_append(t) \/ append_ok(t) \/ append_failed(t)
    PROVE  IInv'
<1>1. t \in Task /\ t.hdr \in Header /\ t.hdr.checksum \in Nat
  BY HeaderFields DEF IInv, TypeOK, Task
<1>2. CASE acquire_gate(t)
  <2>1. tasks' \in SUBSET Task /\ BackupTasksAreOvertaken'
    BY <1>2, AdvanceType DEF acquire_gate
  <2>2. PipelineIsChain' /\ OpsArePositive'
    BY <1>2, ChainUntouched DEF IInv, acquire_gate, queues, frontier
  <2> QED BY <1>1, <1>2, <2>1, <2>2 DEF IInv, TypeOK, acquire_gate, queues, frontier, commits
<1>3. CASE begin_append(t)
  <2> DEFINE u == [hdr |-> t.hdr, stage |-> "append", is_backup |-> ~is_primary]
  <2>1. u \in Task /\ u.is_backup = ~is_primary
    <3>1. (~is_primary) \in BOOLEAN
      BY DEF is_primary
    <3> QED BY <1>1, <3>1 DEF Task
  <2>2. tasks' \subseteq tasks \cup {u} /\ gate' \in {gate, 0} /\ UNCHANGED status
    BY <1>3 DEF begin_append
  <2> HIDE DEF u
  <2>3. tasks' \in SUBSET Task /\ BackupTasksAreOvertaken'
    BY <2>1, <2>2 DEF IInv, TypeOK, BackupTasksAreOvertaken, is_primary
  <2>4. PipelineIsChain' /\ OpsArePositive'
    BY <1>3, ChainUntouched DEF IInv, begin_append, queues, frontier
  <2> QED BY <1>3, <2>2, <2>3, <2>4 DEF IInv, TypeOK, begin_append, queues, frontier, commits
<1>4. CASE append_ok(t)
  <2>1. tasks' \in SUBSET Task /\ BackupTasksAreOvertaken'
    BY <1>4, AdvanceType DEF append_ok
  <2>2. PipelineIsChain' /\ OpsArePositive'
    BY <1>4, ChainUntouched DEF IInv, append_ok, queues, frontier
  <2> QED BY <1>1, <1>4, <2>1, <2>2 DEF IInv, TypeOK, append_ok, queues, frontier, commits
<1>5. CASE append_failed(t)
  <2>1. UNCHANGED status /\ rollback_pipelined_prepare(t.hdr)
    BY <1>5 DEF append_failed
  <2>2. /\ prepare_queue' \in Seq(PipelineEntry)
        /\ sequencer' \in Nat /\ last_checksum' \in Nat /\ fatal' \in BOOLEAN
        /\ PipelineIsChain' /\ OpsArePositive'
    BY <1>1, <2>1, RollbackKeepsChain
  <2>3. tasks' \in SUBSET Task /\ BackupTasksAreOvertaken'
    BY <1>5 DEF append_failed, IInv, TypeOK, BackupTasksAreOvertaken, is_primary
  <2> QED BY <1>5, <2>2, <2>3 DEF IInv, TypeOK, append_failed, commits
<1> QED BY <1>2, <1>3, <1>4, <1>5

\* The end of on_replicate, after the append.
LEMMA FinishStep ==
    ASSUME IInv, NEW t \in tasks, NEW d \in Drivers, finish_replicate(t, d)
    PROVE  IInv'
<1>1. t \in Task /\ t.hdr \in Header /\ t.hdr.op \in Nat /\ t.hdr.checksum \in Nat
  BY HeaderFields DEF IInv, TypeOK, Task
<1>2. UNCHANGED <<status, recovery_barrier, minted, queues, journal, gate, commits, fatal>>
      /\ tasks' = tasks \ {t}
  BY DEF finish_replicate
<1>3. \/ UNCHANGED <<sequencer, last_checksum>>
      \/ t.is_backup /\ sequencer' = t.hdr.op /\ last_checksum' = t.hdr.checksum
  BY DEF finish_replicate
<1>4. PipelineIsChain' /\ OpsArePositive'
  <2>1. CASE UNCHANGED <<sequencer, last_checksum>>
    BY <1>2, <2>1, ChainUntouched DEF IInv, queues
  <2>2. CASE t.is_backup
    <3>1. ~is_primary /\ ~is_primary'
      BY <1>2, <2>2 DEF IInv, BackupTasksAreOvertaken, is_primary
    <3>2. prepare_queue' = prepare_queue
      BY <1>2 DEF queues
    <3> QED BY <3>1, <3>2 DEF IInv, PipelineIsChain, OpsArePositive
  <2> QED BY <1>3, <2>1, <2>2
<1>5. tasks' \in SUBSET Task /\ BackupTasksAreOvertaken'
  BY <1>2 DEF IInv, TypeOK, BackupTasksAreOvertaken, is_primary
<1>6. sequencer' \in Nat /\ last_checksum' \in Nat
  BY <1>1, <1>3 DEF IInv, TypeOK
<1>7. loopback' \in SUBSET Header
  BY <1>1 DEF finish_replicate, IInv, TypeOK
<1>8. driver' \in [Drivers -> DriverState]
  <2>1. walk_from(prepare_queue, commit_min, commit_max) \in DriverState
    BY DriverStates DEF IInv, TypeOK
  <2> QED BY <2>1 DEF finish_replicate, IInv, TypeOK
<1> QED BY <1>2, <1>4, <1>5, <1>6, <1>7, <1>8 DEF IInv, TypeOK, queues, commits

\* Acking an entry leaves its prepare where it stands.
LEMMA AckStep ==
    ASSUME IInv, NEW d \in Drivers, NEW r \in Replicas, NEW h \in Header, on_ack(d, r, h),
           UNCHANGED <<status, sequencer, last_checksum>>
    PROVE  /\ prepare_queue' \in Seq(PipelineEntry) /\ commit_max' \in Nat
           /\ driver' \in [Drivers -> DriverState]
           /\ PipelineIsChain' /\ OpsArePositive'
<1>1. PICK i \in 1..Len(prepare_queue) :
          LET e == prepare_queue[i]
              queue == [prepare_queue EXCEPT ![i] = add_ack(e, r)]
              new_commit == IF queue[i].quorum /\ ~e.quorum
                            THEN quorum_frontier(queue, commit_max)
                            ELSE commit_max
          IN  /\ prepare_queue' = queue
              /\ commit_max' = new_commit
              /\ driver' = IF new_commit > commit_max
                           THEN [driver EXCEPT ![d] =
                                   peek_committable_head(queue, commit_min, new_commit)]
                           ELSE driver
  BY Zenon DEF on_ack
<1> DEFINE ack == add_ack(prepare_queue[i], r)
<1>2. prepare_queue \in Seq(PipelineEntry) /\ prepare_queue[i] \in PipelineEntry
  BY DEF IInv, TypeOK
<1>3. ack \in PipelineEntry /\ ack.hdr = prepare_queue[i].hdr
  BY <1>2, AddAckType
<1>4. prepare_queue' = [prepare_queue EXCEPT ![i] = ack]
  BY <1>1
<1> HIDE DEF ack
<1>5. /\ prepare_queue' \in Seq(PipelineEntry)
      /\ Len(prepare_queue') = Len(prepare_queue)
      /\ \A j \in 1..Len(prepare_queue) : prepare_queue'[j].hdr = prepare_queue[j].hdr
  BY <1>2, <1>3, <1>4
<1>6. commit_max' \in Nat
  BY <1>1, <1>5, QuorumFrontierType DEF IInv, TypeOK
<1>7. driver' \in [Drivers -> DriverState]
  <2>1. peek_committable_head(prepare_queue', commit_min, commit_max') \in DriverState
    BY <1>5, <1>6, DriverStates DEF IInv, TypeOK
  <2>2. \/ driver' = driver
        \/ driver' = [driver EXCEPT ![d] =
                         peek_committable_head(prepare_queue', commit_min, commit_max')]
    BY <1>1, Zenon
  <2> QED BY <2>1, <2>2 DEF IInv, TypeOK
<1>8. OpsArePositive'
  BY <1>5 DEF IInv, OpsArePositive
<1>9. PipelineIsChain'
  <2>1. Len(prepare_queue) \in Nat
    BY <1>2
  <2> QED BY <1>5, <2>1 DEF IInv, PipelineIsChain, is_primary
<1> QED BY <1>5, <1>6, <1>7, <1>8, <1>9

\* Acks of backups, of the loopback queue and of the tick.
LEMMA AckStepsKeep ==
    ASSUME IInv, NEW d \in Drivers, NEW r \in Replicas, NEW h \in Header,
           backup_ack(r, h) \/ drain_loopback(d, h) \/ repair_primary_self_acks(h)
    PROVE  IInv'
<1>1. /\ UNCHANGED <<status, recovery_barrier, frontier, request_queue, journal, gate, tasks,
                     commit_min, applied, fatal>>
      /\ loopback' \in SUBSET Header
  BY DEF backup_ack, drain_loopback, repair_primary_self_acks, IInv, TypeOK, queues, commits
<1>2. BackupTasksAreOvertaken'
  BY <1>1 DEF IInv, BackupTasksAreOvertaken, is_primary
<1>3. CASE \E s \in Drivers, q \in Replicas : on_ack(s, q, h)
  <2>1. UNCHANGED <<status, sequencer, last_checksum>>
    BY <1>1 DEF frontier
  <2>2. /\ prepare_queue' \in Seq(PipelineEntry) /\ commit_max' \in Nat
        /\ driver' \in [Drivers -> DriverState]
        /\ PipelineIsChain' /\ OpsArePositive'
    BY <1>3, <2>1, AckStep
  <2> QED BY <1>1, <1>2, <2>2 DEF IInv, TypeOK, frontier
<1>4. CASE UNCHANGED <<prepare_queue, commit_max, driver>>
  <2>1. PipelineIsChain' /\ OpsArePositive'
    BY <1>1, <1>4, ChainUntouched DEF IInv, frontier
  <2> QED BY <1>1, <1>2, <1>4, <2>1 DEF IInv, TypeOK, frontier
<1>5. \/ \E s \in Drivers, q \in Replicas : on_ack(s, q, h)
      \/ UNCHANGED <<prepare_queue, commit_max, driver>>
  BY PipelineAssumption DEF backup_ack, drain_loopback, repair_primary_self_acks, queues, commits
<1> QED BY <1>3, <1>4, <1>5

\* The commit loop pops the head it read, or stops when it is gone.
LEMMA CommitHeadStep ==
    ASSUME IInv, NEW d \in Drivers, commit_head(d)
    PROVE  IInv'
<1> DEFINE h == driver[d].hdr
           ours == prepare_queue # <<>> /\ prepare_queue[1].hdr = h
<1>1. h \in Header /\ h.op \in Nat /\ h.checksum \in Nat
  <2>1. driver[d] \in DriverState
    BY DEF IInv, TypeOK
  <2> QED BY <2>1, HeaderFields DEF DriverState
<1>2. UNCHANGED <<status, recovery_barrier, frontier, request_queue, journal,
                  gate, tasks, loopback, commit_max, fatal>>
  BY DEF commit_head
<1>3. /\ prepare_queue' = IF ours THEN Tail(prepare_queue) ELSE prepare_queue
      /\ commit_min' = IF ours THEN h.op ELSE commit_min
      /\ applied' = IF ours THEN Append(applied, h.checksum) ELSE applied
      /\ driver' = [driver EXCEPT ![d] =
                      peek_committable_head(prepare_queue', commit_min', commit_max)]
  BY DEF commit_head
<1>4. prepare_queue' \in Seq(PipelineEntry) /\ PipelineIsChain' /\ OpsArePositive'
  <2>1. CASE ours
    BY <1>2, <1>3, <2>1, PopKeepsChain DEF frontier
  <2>2. CASE ~ours
    <3>1. PipelineIsChain' /\ OpsArePositive'
      BY <1>2, <1>3, <2>2, ChainUntouched DEF IInv, frontier
    <3> QED BY <1>3, <2>2, <3>1 DEF IInv, TypeOK
  <2> QED BY <2>1, <2>2
<1> HIDE DEF h, ours
<1>5. commit_min' \in Nat /\ applied' \in Seq(Nat)
  BY <1>1, <1>3 DEF IInv, TypeOK
<1>6. driver' \in [Drivers -> DriverState]
  <2>1. peek_committable_head(prepare_queue', commit_min', commit_max) \in DriverState
    BY <1>4, <1>5, DriverStates DEF IInv, TypeOK
  <2> QED BY <1>3, <2>1 DEF IInv, TypeOK
<1>7. BackupTasksAreOvertaken'
  BY <1>2 DEF IInv, BackupTasksAreOvertaken, is_primary
<1> QED BY <1>2, <1>4, <1>5, <1>6, <1>7 DEF IInv, TypeOK, frontier

\* Promoting queued requests pushes the prepares they become.
LEMMA DrainStep ==
    ASSUME IInv, NEW d \in Drivers, drain_request_queue(d)
    PROVE  IInv'
<1>1. UNCHANGED <<status, recovery_barrier, journal, gate, loopback, commits, fatal>>
  BY DEF drain_request_queue
<1>2. driver' \in [Drivers -> DriverState]
  <2>1. Idle \in DriverState
    BY DEF Idle, NoHeader, Header, DriverState
  <2> QED BY <2>1 DEF drain_request_queue, IInv, TypeOK
<1>3. CASE /\ ~prepare_queue_full /\ request_queue # <<>> /\ is_caught_up_primary
           /\ push_prepare_entry(Head(request_queue))
           /\ request_queue' = Tail(request_queue)
  <2>1. Head(request_queue) \in Clients /\ request_queue' \in Seq(Clients)
    BY <1>3 DEF IInv, TypeOK
  <2>2. is_primary /\ UNCHANGED status
    BY <1>1, <1>3 DEF is_caught_up_primary
  <2>3. /\ prepare_queue' \in Seq(PipelineEntry)
        /\ sequencer' \in Nat /\ last_checksum' \in Nat /\ minted' \in Nat
        /\ tasks' \in SUBSET Task
        /\ PipelineIsChain' /\ OpsArePositive' /\ BackupTasksAreOvertaken'
    BY <1>3, <2>1, <2>2, PushExtendsChain
  <2> QED BY <1>1, <1>2, <2>1, <2>3 DEF IInv, TypeOK, commits
<1>4. CASE UNCHANGED <<prepare_queue, frontier, tasks>> /\ (request_queue' = request_queue \/ request_queue' = <<>>)
  <2>1. request_queue' \in Seq(Clients)
    BY <1>4, EmptyRequestQueue DEF IInv, TypeOK
  <2>2. PipelineIsChain' /\ OpsArePositive'
    BY <1>1, <1>4, ChainUntouched DEF IInv, frontier
  <2>3. BackupTasksAreOvertaken'
    BY <1>1, <1>4 DEF IInv, BackupTasksAreOvertaken, is_primary
  <2> QED BY <1>1, <1>2, <1>4, <2>1, <2>2, <2>3 DEF IInv, TypeOK, commits, frontier
<1> QED BY <1>3, <1>4 DEF drain_request_queue, queues

\* The rest move only a driver, the applied prefix or the role.
LEMMA DriverStep ==
    ASSUME IInv,
           \/ \E d \in Drivers : cancel_driver(d) \/ walk_apply(d)
           \/ resume_stranded_commits \/ commit_journal \/ enter_view_change
    PROVE  IInv'
<1>1. /\ UNCHANGED <<recovery_barrier, frontier, prepare_queue, journal, gate, tasks,
                     commit_max, fatal>>
      /\ status' \in {status, "ViewChange"}
      /\ (request_queue' = request_queue \/ request_queue' = <<>>) /\ loopback' \in {loopback, {}}
  BY DEF cancel_driver, walk_apply, resume_stranded_commits, commit_journal,
         enter_view_change, queues, commits
<1>2. PipelineIsChain' /\ OpsArePositive'
  BY <1>1 DEF IInv, PipelineIsChain, OpsArePositive, is_primary, frontier
<1>3. BackupTasksAreOvertaken'
  BY <1>1 DEF IInv, BackupTasksAreOvertaken, is_primary
<1>4. commit_min' \in Nat /\ applied' \in Seq(Nat) /\ driver' \in [Drivers -> DriverState]
  <2>1. Idle \in DriverState
    BY DEF Idle, NoHeader, Header, DriverState
  <2>2. ASSUME NEW d \in Drivers
        PROVE  driver[d].hdr.op \in Nat /\ driver[d].hdr.checksum \in Nat
    <3>1. driver[d] \in DriverState
      BY DEF IInv, TypeOK
    <3> QED BY <3>1, HeaderFields DEF DriverState
  <2>3. ASSUME NEW min \in Nat
        PROVE  /\ peek_committable_head(prepare_queue, min, commit_max) \in DriverState
               /\ walk_from(prepare_queue, min, commit_max) \in DriverState
    BY DriverStates DEF IInv, TypeOK
  <2>4. CASE \E d \in Drivers : cancel_driver(d)
    BY <2>1, <2>4 DEF cancel_driver, IInv, TypeOK, commits
  <2>5. CASE \E d \in Drivers : walk_apply(d)
    BY <2>2, <2>3, <2>5 DEF walk_apply, IInv, TypeOK
  <2>6. CASE resume_stranded_commits \/ commit_journal
    <3>1. commit_min \in Nat
      BY DEF IInv, TypeOK
    <3> QED BY <2>3, <2>6, <3>1 DEF resume_stranded_commits, commit_journal, IInv, TypeOK, commits
  <2>7. CASE enter_view_change
    BY <2>7 DEF enter_view_change, IInv, TypeOK, commits
  <2> QED BY <2>4, <2>5, <2>6, <2>7
<1>5. request_queue' \in Seq(Clients)
  BY <1>1, EmptyRequestQueue DEF IInv, TypeOK
<1> QED BY <1>1, <1>2, <1>3, <1>4, <1>5 DEF IInv, TypeOK, frontier

\* Every step keeps the inductive invariant.
LEMMA NextIInv == IInv /\ [Next]_vars => IInv'
<1> SUFFICES ASSUME IInv, [Next]_vars PROVE IInv'
  OBVIOUS
<1>1. CASE Next
  <2>1. CASE \E c \in Clients : on_request(c) \/ submit_register_in_process(c)
    BY <2>1, RequestStep
  <2>2. CASE \E t \in tasks : acquire_gate(t) \/ begin_append(t) \/ append_ok(t)
                              \/ append_failed(t)
    BY <2>2, AppendStep
  <2>3. CASE \E t \in tasks, d \in Drivers : finish_replicate(t, d)
    BY <2>3, FinishStep
  <2>4. CASE \/ \E r \in Replicas, h \in journal : backup_ack(r, h)
             \/ \E d \in Drivers, h \in loopback : drain_loopback(d, h)
             \/ \E h \in journal : repair_primary_self_acks(h)
    BY <2>4, AckStepsKeep, PipelineAssumption DEF IInv, TypeOK
  <2>5. CASE \E d \in Drivers : commit_head(d)
    BY <2>5, CommitHeadStep
  <2>6. CASE \E d \in Drivers : drain_request_queue(d)
    BY <2>6, DrainStep
  <2>7. CASE \/ \E d \in Drivers : cancel_driver(d) \/ walk_apply(d)
             \/ resume_stranded_commits \/ commit_journal \/ enter_view_change
    BY <2>7, DriverStep
  <2> QED BY <1>1, <2>1, <2>2, <2>3, <2>4, <2>5, <2>6, <2>7 DEF Next
<1>2. CASE UNCHANGED vars
  <2>1. PipelineIsChain' /\ OpsArePositive'
    BY <1>2, ChainUntouched DEF IInv, vars
  <2>2. BackupTasksAreOvertaken'
    BY <1>2 DEF IInv, BackupTasksAreOvertaken, is_primary, vars
  <2> QED BY <1>2, <2>1, <2>2 DEF IInv, TypeOK, vars
<1> QED BY <1>1, <1>2

-----------------------------------------------------------------------------
(* The theorems *)

\* Every variable keeps its type: in particular no interleaving of rollbacks
\* takes the sequencer below zero, and the pipeline holds only entries.
THEOREM TypeCorrect == Spec => []TypeOK
<1>1. IInv => TypeOK
  BY DEF IInv
<1> QED BY <1>1, InitIInv, NextIInv, PTL DEF Spec

\* The prepare queue is at every moment a bounded run of consecutive,
\* hash-chained prepares that ends at the sequencer: the asserts of
\* LocalPipeline::push_prepare_entry and verify hold however pushes, acks,
\* rollbacks of failed appends and pops by competing drivers interleave.
THEOREM PipelineStaysChained == Spec => []PipelineIsChain
<1>1. IInv => PipelineIsChain
  BY DEF IInv
<1> QED BY <1>1, InitIInv, NextIInv, PTL DEF Spec

-----------------------------------------------------------------------------
(***************************************************************************)
(* What the commit drivers of PrimaryPipeline rely on, for any group, any  *)
(* queue depths, any drivers and any bounds: commit_min advances one op at *)
(* a time, every committed op can be reached, a rollback finds its prepare *)
(* at the tail, and nothing leaves the pipeline unless it was applied or   *)
(* nobody ever acked it.                                                   *)
(*                                                                         *)
(* The chain above is taken as given.  On top of it:                       *)
(* an entry is acked only once it is in the journal, and committed only    *)
(* once it has its quorum, so a prepare whose append is still open is      *)
(* neither; and the journal walk and the commit loop never run in the same *)
(* stretch of a view.  The walk runs until the commit point has reached    *)
(* the pipeline (Aligned), and nothing is minted or popped before that.    *)
(***************************************************************************)

Depth == Len(prepare_queue)
OpAt(i) == prepare_queue[i].hdr.op

\* The commit point has reached the pipeline: what is applied next is its head.
Aligned == IF prepare_queue = <<>> THEN commit_min = commit_max ELSE OpAt(1) = commit_min + 1

\* The ops of the pipeline are as far apart as its entries.
OpsAreConsecutive == \A i, j \in 1..Depth : OpAt(j) + i = OpAt(i) + j

\* Acks stand for entries of the journal, a quorum for acks.
AckedIsJournaled ==
    \A i \in 1..Depth :
        /\ prepare_queue[i].quorum => prepare_queue[i].acks # {}
        /\ prepare_queue[i].acks # {} => prepare_queue[i].hdr \in journal

\* The pipeline starts above what is applied and ends above what is committed, and
\* what it holds of the committed ops has its quorum.
Window ==
    /\ commit_min <= commit_max
    /\ \A op \in 1..commit_max : Journaled(op)
    /\ prepare_queue # <<>> =>
          /\ commit_min < OpAt(1) /\ OpAt(1) <= commit_max + 1 /\ commit_max <= OpAt(Depth)
          /\ \A i \in 1..Depth : OpAt(i) <= commit_max => prepare_queue[i].quorum
    /\ prepare_queue = <<>> /\ is_primary => commit_max = sequencer

\* Every prepare that is being appended is in the pipeline and not yet in the journal.
TasksOwnTheirPrepare ==
    /\ \A t \in tasks :
          IF t.stage = "replicate" THEN t.hdr \in journal
          ELSE t.hdr \notin journal /\ \E i \in 1..Depth : prepare_queue[i].hdr = t.hdr
    /\ \A t, u \in tasks : t.hdr = u.hdr => t = u
    /\ loopback \subseteq journal
    /\ \A h \in journal : h.checksum <= minted
    /\ \A t \in tasks : t.hdr.checksum <= minted
    /\ tasks # {} => Aligned

\* The commit loop runs only once the commit point reached the pipeline, the walk only
\* before that, and only the pump walks.
DriversTakeTurns ==
    \A d \in Drivers :
        /\ driver[d].mode = "commit" => Aligned /\ driver[d].hdr.op <= commit_max
        /\ driver[d].mode = "walk" =>
              /\ d = Pump /\ ~Aligned
              /\ commit_min < commit_max /\ driver[d].hdr.op = commit_min + 1

\* What is applied is the prefix up to commit_min.
AppliedIsPrefix == Len(applied) = commit_min

\* The inductive invariant, on top of IInv.
JInv == /\ OpsAreConsecutive /\ AckedIsJournaled /\ Window
        /\ TasksOwnTheirPrepare /\ DriversTakeTurns /\ AppliedIsPrefix

-----------------------------------------------------------------------------
(* Facts about the state *)

\* What the type invariant says of the numbers and the entries.
LEMMA StateFacts ==
    ASSUME IInv
    PROVE  /\ prepare_queue \in Seq(PipelineEntry) /\ Depth \in Nat
           /\ prepare_queue = <<>> <=> Depth = 0
           /\ \A i \in 1..Depth : /\ prepare_queue[i] \in PipelineEntry
                                  /\ prepare_queue[i].hdr \in Header
                                  /\ OpAt(i) \in Nat /\ OpAt(i) > 0
           /\ commit_min \in Nat /\ commit_max \in Nat /\ sequencer \in Nat /\ minted \in Nat
           /\ journal \subseteq Header /\ loopback \subseteq Header /\ tasks \subseteq Task
           /\ applied \in Seq(Nat) /\ driver \in [Drivers -> DriverState]
<1>1. TypeOK /\ OpsArePositive
  BY DEF IInv
<1>2. prepare_queue \in Seq(PipelineEntry) /\ Depth \in Nat /\ (prepare_queue = <<>> <=> Depth = 0)
  BY <1>1 DEF TypeOK, Depth
<1>3. ASSUME NEW i \in 1..Depth
      PROVE  /\ prepare_queue[i] \in PipelineEntry /\ prepare_queue[i].hdr \in Header
             /\ OpAt(i) \in Nat /\ OpAt(i) > 0
  <2>1. prepare_queue[i] \in PipelineEntry
    BY <1>2 DEF Depth
  <2>2. prepare_queue[i].hdr \in Header
    BY <2>1, EntryFields
  <2> QED BY <1>1, <2>1, <2>2, HeaderFields DEF OpAt, OpsArePositive, Depth
<1> QED BY <1>1, <1>2, <1>3 DEF TypeOK

\* A sequence without elements is the empty one.
LEMMA EmptyIffNoLength == ASSUME NEW S, NEW s \in Seq(S) PROVE s = <<>> <=> Len(s) = 0
OBVIOUS

\* The fields of a task and of what a driver holds.
LEMMA TaskFields ==
    ASSUME NEW t \in Task
    PROVE  /\ t.hdr \in Header /\ t.stage \in {"gate", "checkpoint", "append", "replicate"}
           /\ t.is_backup \in BOOLEAN
           /\ t.hdr.op \in Nat /\ t.hdr.checksum \in Nat
BY HeaderFields DEF Task

\* The prepare a driver holds.
LEMMA DriverFields ==
    ASSUME IInv, NEW d \in Drivers
    PROVE  driver[d].hdr \in Header /\ driver[d].hdr.op \in Nat /\ driver[d].hdr.checksum \in Nat
<1>1. driver[d] \in DriverState
  BY StateFacts
<1> QED BY <1>1, HeaderFields DEF DriverState

\* Two entries with the same op are the same entry.
LEMMA OpNamesEntry ==
    ASSUME IInv, OpsAreConsecutive, NEW i \in 1..Depth, NEW j \in 1..Depth, OpAt(i) = OpAt(j)
    PROVE  i = j
<1>1. OpAt(i) \in Nat /\ OpAt(j) \in Nat /\ Depth \in Nat
  BY StateFacts
<1> QED BY <1>1 DEF OpsAreConsecutive

\* A primary that is caught up applies the head of its pipeline next.
LEMMA CaughtUpIsAligned ==
    ASSUME IInv, Window, is_caught_up_primary
    PROVE  Aligned /\ is_primary /\ commit_min = commit_max
<1>1. is_primary /\ commit_min = commit_max
  BY DEF is_caught_up_primary
<1>2. prepare_queue # <<>> => OpAt(1) = commit_min + 1
  BY <1>1, StateFacts DEF Window
<1> QED BY <1>1, <1>2 DEF Aligned

\* The parts that hold of the pipeline, the journal and the commit point alone.
Still == OpsAreConsecutive /\ AckedIsJournaled /\ Window /\ AppliedIsPrefix

\* A step that moves only tasks, drivers and the role keeps them.
LEMMA StillUntouched ==
    ASSUME JInv, UNCHANGED <<prepare_queue, journal, commit_min, commit_max, applied>>,
           is_primary' => is_primary /\ sequencer' = sequencer
    PROVE  Still' /\ Aligned' = Aligned
BY DEF JInv, Still, OpsAreConsecutive, AckedIsJournaled, Window, AppliedIsPrefix, Aligned,
       Depth, OpAt, Journaled

\* Drivers keep their turns when they move on to nothing but draining or idling.
LEMMA TurnsKept ==
    ASSUME IInv, IInv', JInv, UNCHANGED <<commit_min, commit_max>>, Aligned' = Aligned,
           \A d \in Drivers : driver'[d] = driver[d] \/ driver'[d].mode \in {"idle", "drain"}
    PROVE  DriversTakeTurns'
BY DEF JInv, DriversTakeTurns

-----------------------------------------------------------------------------
(* Admission *)

\* A prepare is minted: it is new to the journal and to every task, and the pipeline
\* it joins is one whose head is applied next.
LEMMA PushKeeps ==
    ASSUME IInv, IInv', JInv, is_caught_up_primary, NEW c \in Clients, push_prepare_entry(c),
           UNCHANGED <<status, journal, loopback, commits, driver>>
    PROVE  JInv'
<1> DEFINE h == [op |-> sequencer + 1, checksum |-> minted + 1,
                 parent |-> last_checksum, client |-> c]
           e == [hdr |-> h, acks |-> {}, quorum |-> FALSE]
           u == [hdr |-> h, stage |-> "gate", is_backup |-> FALSE]
<1>0. OpsAreConsecutive /\ AckedIsJournaled /\ Window /\ TasksOwnTheirPrepare
        /\ DriversTakeTurns /\ AppliedIsPrefix
  BY DEF JInv
<1>1. Aligned /\ is_primary /\ commit_min = commit_max
  BY <1>0, CaughtUpIsAligned
<1>2. /\ prepare_queue' = Append(prepare_queue, e) /\ minted' = minted + 1
      /\ sequencer' = sequencer + 1 /\ tasks' = tasks \cup {u}
      /\ UNCHANGED <<status, journal, loopback, commit_min, commit_max, applied, driver>>
  BY DEF push_prepare_entry, commits
<1>3. e.hdr = h /\ e.acks = {} /\ e.quorum = FALSE /\ u.hdr = h /\ u.stage = "gate"
      /\ h.op = sequencer + 1 /\ h.checksum = minted + 1
  OBVIOUS
<1> HIDE DEF h, e, u
<1>n. PICK n \in Nat : n = Depth
  BY StateFacts
<1>4. /\ Depth' = n + 1 /\ prepare_queue'[n + 1] = e
      /\ \A i \in 1..n : prepare_queue'[i] = prepare_queue[i]
      /\ prepare_queue' # <<>>
  <2>1. prepare_queue \in Seq(PipelineEntry)
    BY StateFacts
  <2> QED BY <1>2, <1>n, <2>1 DEF Depth
<1>5. /\ OpAt(n + 1)' = sequencer + 1 /\ \A i \in 1..n : OpAt(i)' = OpAt(i)
      /\ n > 0 => OpAt(n) = sequencer
      /\ n = 0 => commit_max = sequencer
  <2>1. n > 0 => OpAt(n) = sequencer
    BY <1>1, <1>n DEF IInv, PipelineIsChain, OpAt, Depth
  <2>2. n = 0 => commit_max = sequencer
    BY <1>0, <1>1, <1>n, StateFacts DEF Window
  <2> QED BY <1>3, <1>4, <2>1, <2>2 DEF OpAt
<1>6. n \in Nat /\ sequencer \in Nat /\ commit_max \in Nat /\ commit_min \in Nat /\ minted \in Nat
      /\ \A i \in 1..n : OpAt(i) \in Nat
  BY <1>n, StateFacts
<1>7. OpsAreConsecutive'
  <2> SUFFICES ASSUME NEW i \in 1..n + 1, NEW j \in 1..n + 1
               PROVE  OpAt(j)' + i = OpAt(i)' + j
    BY <1>4 DEF OpsAreConsecutive
  <2>1. \A k \in 1..n : OpAt(k) + n = sequencer + k
    BY <1>0, <1>5, <1>6, <1>n DEF OpsAreConsecutive
  <2>2. \A k \in 1..n + 1 : OpAt(k)' + n = sequencer + k
    <3> TAKE k \in 1..n + 1
    <3>1. CASE k = n + 1
      BY <1>5, <1>6, <3>1
    <3>2. CASE k \in 1..n
      BY <1>5, <2>1, <3>2
    <3> QED BY <1>6, <3>1, <3>2
  <2>3. OpAt(i)' \in Nat /\ OpAt(j)' \in Nat
    BY <1>5, <1>6
  <2> QED BY <1>6, <2>2, <2>3
<1>8. AckedIsJournaled'
  <2> SUFFICES ASSUME NEW i \in 1..n + 1
               PROVE  /\ prepare_queue'[i].quorum => prepare_queue'[i].acks # {}
                      /\ prepare_queue'[i].acks # {} => prepare_queue'[i].hdr \in journal'
    BY <1>4 DEF AckedIsJournaled
  <2>1. CASE i = n + 1
    BY <1>3, <1>4, <2>1
  <2>2. CASE i \in 1..n
    BY <1>0, <1>2, <1>4, <1>n, <2>2 DEF AckedIsJournaled
  <2> QED BY <1>6, <2>1, <2>2
<1>9. OpAt(1)' = commit_min + 1
  <2>1. CASE n = 0
    BY <1>1, <1>5, <2>1
  <2>2. CASE n > 0
    BY <1>1, <1>5, <1>6, <2>2, <1>n, StateFacts DEF Aligned
  <2> QED BY <1>6, <2>1, <2>2
<1>10. Window'
  <2>1. \A i \in 1..n + 1 : OpAt(i)' <= commit_max => prepare_queue'[i].quorum
    <3> SUFFICES ASSUME NEW i \in 1..n + 1, OpAt(i)' <= commit_max
                 PROVE  prepare_queue'[i].quorum
      OBVIOUS
    <3>1. commit_max <= sequencer
      BY <1>0, <1>5, <1>6, <1>n, StateFacts DEF Window
    <3>2. i \in 1..n
      BY <1>5, <1>6, <3>1
    <3>3. prepare_queue # <<>> /\ OpAt(i) <= commit_max
      BY <1>5, <1>6, <3>2, <1>n, StateFacts
    <3>4. prepare_queue[i].quorum
      BY <1>0, <1>n, <3>2, <3>3 DEF Window
    <3> QED BY <1>4, <3>2, <3>4
  <2>2. commit_max <= sequencer + 1
    BY <1>0, <1>5, <1>6, <1>n, StateFacts DEF Window
  <2>3. \A op \in 1..commit_max : Journaled(op)'
    BY <1>0, <1>2 DEF Window, Journaled
  <2>4. OpAt(Depth)' = sequencer + 1
    BY <1>4, <1>5 DEF OpAt
  <2>5. \A i \in 1..Depth' : OpAt(i)' <= commit_max' => prepare_queue'[i].quorum
    BY <1>2, <1>4, <2>1
  <2>6. /\ commit_min' <= commit_max' /\ commit_min' < OpAt(1)' /\ OpAt(1)' <= commit_max' + 1
        /\ commit_max' <= OpAt(Depth)'
    BY <1>1, <1>2, <1>6, <1>9, <2>2, <2>4
  <2> QED BY <1>2, <1>4, <2>3, <2>5, <2>6 DEF Window
<1>11. Aligned'
  BY <1>2, <1>4, <1>9 DEF Aligned
<1>12. h \notin journal /\ \A t \in tasks : t.hdr # h
  BY <1>0, <1>3, <1>6, StateFacts, HeaderFields, TaskFields DEF TasksOwnTheirPrepare
<1>13. TasksOwnTheirPrepare'
  <2>1. ASSUME NEW t \in tasks'
        PROVE  IF t.stage = "replicate" THEN t.hdr \in journal'
               ELSE t.hdr \notin journal' /\ \E i \in 1..Depth' : prepare_queue'[i].hdr = t.hdr
    <3>1. CASE t = u
      BY <1>2, <1>3, <1>4, <1>6, <1>12, <3>1
    <3>2. CASE t \in tasks
      <4>1. CASE t.stage = "replicate"
        BY <1>0, <1>2, <3>2, <4>1 DEF TasksOwnTheirPrepare
      <4>2. CASE t.stage # "replicate"
        <5>1. t.hdr \notin journal /\ \E i \in 1..Depth : prepare_queue[i].hdr = t.hdr
          BY <1>0, <3>2, <4>2 DEF TasksOwnTheirPrepare
        <5>2. PICK i \in 1..n : prepare_queue[i].hdr = t.hdr
          BY <1>n, <5>1
        <5>3. i \in 1..Depth' /\ prepare_queue'[i].hdr = t.hdr
          BY <1>4, <1>6, <5>2
        <5> QED BY <1>2, <4>2, <5>1, <5>3
      <4> QED BY <4>1, <4>2
    <3> QED BY <1>2, <3>1, <3>2
  <2>2. \A t, v \in tasks' : t.hdr = v.hdr => t = v
    BY <1>0, <1>2, <1>3, <1>12 DEF TasksOwnTheirPrepare
  <2>3. loopback' \subseteq journal'
    BY <1>0, <1>2 DEF TasksOwnTheirPrepare
  <2>4. \A k \in journal' : k.checksum <= minted'
    BY <1>0, <1>2, <1>6, StateFacts, HeaderFields DEF TasksOwnTheirPrepare
  <2>5. \A t \in tasks' : t.hdr.checksum <= minted'
    BY <1>0, <1>2, <1>3, <1>6, StateFacts, TaskFields DEF TasksOwnTheirPrepare
  <2> QED BY <1>11, <2>1, <2>2, <2>3, <2>4, <2>5 DEF TasksOwnTheirPrepare
<1>14. DriversTakeTurns'
  BY <1>0, <1>1, <1>2, <1>11 DEF DriversTakeTurns
<1>15. AppliedIsPrefix'
  BY <1>0, <1>2 DEF AppliedIsPrefix
<1> QED BY <1>7, <1>8, <1>10, <1>13, <1>14, <1>15 DEF JInv

\* Admission: the prepare is minted, or the request waits.
LEMMA RequestKeeps ==
    ASSUME IInv, IInv', JInv, NEW c \in Clients, on_request(c) \/ submit_register_in_process(c)
    PROVE  JInv'
<1>1. CASE is_caught_up_primary /\ push_prepare_entry(c)
           /\ UNCHANGED <<status, journal, loopback, commits, driver>>
  BY <1>1, PushKeeps
<1>2. CASE UNCHANGED <<prepare_queue, frontier, tasks, status, journal, loopback, commits, driver>>
  <2>1. Still' /\ Aligned' = Aligned
    BY <1>2, StillUntouched DEF frontier, commits, is_primary
  <2>2. TasksOwnTheirPrepare'
    BY <1>2, <2>1 DEF JInv, TasksOwnTheirPrepare, frontier, Depth
  <2>3. DriversTakeTurns'
    BY <1>2, <2>1 DEF JInv, DriversTakeTurns, commits
  <2> QED BY <2>1, <2>2, <2>3 DEF JInv, Still
<1> QED BY <1>1, <1>2 DEF on_request, submit_register_in_process

-----------------------------------------------------------------------------
(* on_replicate *)

\* A task is replaced by one for the same prepare, or removed.
LEMMA TaskReplaced ==
    ASSUME IInv, JInv, NEW t \in tasks, NEW u, u.hdr = t.hdr,
           tasks' \subseteq (tasks \ {t}) \cup {u}, minted' = minted
    PROVE  /\ \A v, w \in tasks' : v.hdr = w.hdr => v = w
           /\ \A v \in tasks' : v.hdr.checksum <= minted'
           /\ \A v \in tasks' : (v \in tasks /\ v.hdr # t.hdr) \/ v = u
BY DEF JInv, TasksOwnTheirPrepare

\* Before the append only the stage of a task and the gate move.
LEMMA BeforeAppendKeeps ==
    ASSUME IInv, IInv', JInv, NEW t \in tasks, acquire_gate(t) \/ begin_append(t)
    PROVE  JInv'
<1>0. UNCHANGED <<status, frontier, prepare_queue, journal, loopback, commits, driver>>
  BY DEF acquire_gate, begin_append, queues
<1>1. \E u : /\ u.hdr = t.hdr /\ u.stage # "replicate" /\ t.stage # "replicate"
             /\ tasks' \subseteq (tasks \ {t}) \cup {u}
  <2>1. CASE acquire_gate(t)
    <3> DEFINE u == [t EXCEPT !.stage = "checkpoint"]
    <3>1. t \in Task
      BY StateFacts
    <3>2. u.hdr = t.hdr /\ u.stage = "checkpoint"
      BY <3>1 DEF Task
    <3>3. t.stage = "gate" /\ tasks' = (tasks \ {t}) \cup {u}
      BY <2>1 DEF acquire_gate, Advance
    <3> QED BY <3>2, <3>3
  <2>2. CASE begin_append(t)
    <3> DEFINE u == [hdr |-> t.hdr, stage |-> "append", is_backup |-> ~is_primary]
    <3>1. u.hdr = t.hdr /\ u.stage = "append"
      OBVIOUS
    <3>2. t.stage = "checkpoint" /\ tasks' \subseteq (tasks \ {t}) \cup {u}
      BY <2>2 DEF begin_append
    <3> QED BY <3>1, <3>2
  <2> QED BY <2>1, <2>2
<1>2. PICK u : /\ u.hdr = t.hdr /\ u.stage # "replicate" /\ t.stage # "replicate"
               /\ tasks' \subseteq (tasks \ {t}) \cup {u}
  BY <1>1
<1>3. Still' /\ Aligned' = Aligned
  BY <1>0, StillUntouched DEF frontier, commits, is_primary
<1>4. /\ \A v, w \in tasks' : v.hdr = w.hdr => v = w
      /\ \A v \in tasks' : v.hdr.checksum <= minted'
      /\ \A v \in tasks' : (v \in tasks /\ v.hdr # t.hdr) \/ v = u
  BY <1>0, <1>2, TaskReplaced DEF frontier
<1>5. TasksOwnTheirPrepare'
  BY <1>0, <1>2, <1>3, <1>4 DEF JInv, TasksOwnTheirPrepare, frontier, Depth
<1>6. DriversTakeTurns'
  BY <1>0, <1>3 DEF JInv, DriversTakeTurns, commits
<1> QED BY <1>3, <1>5, <1>6 DEF JInv, Still

\* The prepare reaches the journal.
LEMMA AppendOkKeeps == ASSUME IInv, IInv', JInv, NEW t \in tasks, append_ok(t) PROVE JInv'
<1> DEFINE u == [t EXCEPT !.stage = "replicate"]
<1>0. /\ UNCHANGED <<status, frontier, prepare_queue, loopback, commits, driver>>
      /\ journal' = journal \cup {t.hdr} /\ tasks' = (tasks \ {t}) \cup {u}
  BY DEF append_ok, queues, Advance
<1>1. t \in Task
  BY StateFacts
<1>2. u.hdr = t.hdr /\ u.stage = "replicate"
  BY <1>1 DEF Task
<1> HIDE DEF u
<1>3. /\ \A v, w \in tasks' : v.hdr = w.hdr => v = w
      /\ \A v \in tasks' : v.hdr.checksum <= minted'
      /\ \A v \in tasks' : (v \in tasks /\ v.hdr # t.hdr) \/ v = u
  BY <1>0, <1>2, TaskReplaced DEF frontier
<1>4. Aligned' = Aligned
  BY <1>0 DEF Aligned, OpAt, commits
<1>5. OpsAreConsecutive' /\ AppliedIsPrefix'
  BY <1>0 DEF JInv, OpsAreConsecutive, AppliedIsPrefix, Depth, OpAt, commits
<1>6. AckedIsJournaled'
  BY <1>0 DEF JInv, AckedIsJournaled, Depth
<1>7. Window'
  <2>1. \A op \in 1..commit_max : Journaled(op)'
    BY <1>0 DEF JInv, Window, Journaled
  <2> QED BY <1>0, <2>1 DEF JInv, Window, Depth, OpAt, commits, frontier, is_primary
<1>8. TasksOwnTheirPrepare'
  BY <1>0, <1>2, <1>3, <1>4 DEF JInv, TasksOwnTheirPrepare, frontier, Depth
<1>9. DriversTakeTurns'
  BY <1>0, <1>4 DEF JInv, DriversTakeTurns, commits
<1> QED BY <1>5, <1>6, <1>7, <1>8, <1>9 DEF JInv

\* The end of on_replicate.  A task is left only when the commit point has reached the
\* pipeline, so the walk a follower starts here finds nothing to do.
LEMMA FinishKeeps ==
    ASSUME IInv, IInv', JInv, NEW t \in tasks, NEW d \in Drivers, finish_replicate(t, d)
    PROVE  JInv'
<1>0. /\ UNCHANGED <<status, minted, prepare_queue, journal, commits>> /\ tasks' = tasks \ {t}
      /\ t.stage = "replicate" /\ loopback' \subseteq loopback \cup {t.hdr}
  BY DEF finish_replicate, queues
<1>1. is_primary' => is_primary /\ sequencer' = sequencer
  BY <1>0 DEF finish_replicate, IInv, BackupTasksAreOvertaken, is_primary
<1>2. Still' /\ Aligned' = Aligned
  BY <1>0, <1>1, StillUntouched DEF commits
<1>3. TasksOwnTheirPrepare'
  BY <1>0, <1>2 DEF JInv, TasksOwnTheirPrepare, Depth
<1>4. walk_from(prepare_queue, commit_min, commit_max) = Idle
  <2>1. Aligned
    BY DEF JInv, TasksOwnTheirPrepare
  <2>2. commit_min \in Nat /\ commit_max \in Nat
    BY StateFacts
  <2> QED BY <2>1, <2>2 DEF Aligned, walk_from, OpAt
<1>5. \A e \in Drivers : driver'[e] = driver[e] \/ driver'[e].mode \in {"idle", "drain"}
  <2>1. driver' = driver \/ driver' = [driver EXCEPT ![d] = Idle]
    BY <1>4 DEF finish_replicate
  <2>2. Idle.mode = "idle" /\ driver \in [Drivers -> DriverState]
    BY StateFacts DEF Idle
  <2> QED BY <2>1, <2>2
<1>6. DriversTakeTurns'
  BY <1>0, <1>2, <1>5, TurnsKept DEF commits
<1> QED BY <1>2, <1>3, <1>6 DEF JInv, Still

\* The tail of the pipeline is handed back: nobody acked it, so it is above the commit point.
LEMMA RollbackKeeps ==
    ASSUME IInv, IInv', JInv, NEW t \in tasks, t.stage = "append", is_primary, sequencer = t.hdr.op,
           prepare_queue # <<>>, prepare_queue[Depth].hdr = t.hdr,
           prepare_queue' = SubSeq(prepare_queue, 1, Depth - 1), sequencer' = t.hdr.op - 1,
           tasks' = tasks \ {t}, UNCHANGED <<status, minted, journal, loopback, commits, driver>>
    PROVE  JInv'
<1>0. OpsAreConsecutive /\ AckedIsJournaled /\ Window /\ TasksOwnTheirPrepare
        /\ DriversTakeTurns /\ AppliedIsPrefix
  BY DEF JInv
<1>n. PICK n \in Nat : n = Depth
  BY StateFacts
<1>1. /\ n > 0 /\ commit_min \in Nat /\ commit_max \in Nat /\ sequencer \in Nat
      /\ \A i \in 1..n : OpAt(i) \in Nat /\ OpAt(i) > 0
  BY <1>n, StateFacts
<1>2. /\ Depth' = n - 1 /\ \A i \in 1..(n - 1) : prepare_queue'[i] = prepare_queue[i]
      /\ prepare_queue' = <<>> <=> n = 1
  <2>1. prepare_queue \in Seq(PipelineEntry) /\ n - 1 \in 0..Len(prepare_queue)
    BY <1>n, <1>1, StateFacts DEF Depth
  <2>2. /\ SubSeq(prepare_queue, 1, n - 1) \in Seq(PipelineEntry)
        /\ Len(SubSeq(prepare_queue, 1, n - 1)) = n - 1
        /\ \A i \in 1..(n - 1) : SubSeq(prepare_queue, 1, n - 1)[i] = prepare_queue[i]
    BY <2>1, SubSeqPrefix
  <2>3. prepare_queue' = SubSeq(prepare_queue, 1, n - 1)
    BY <1>n
  <2>4. Depth' = n - 1 /\ prepare_queue' \in Seq(PipelineEntry)
    BY <2>2, <2>3 DEF Depth
  <2>5. prepare_queue' = <<>> <=> n = 1
    <3>1. Len(prepare_queue') = n - 1
      BY <2>4 DEF Depth
    <3>2. prepare_queue' = <<>> <=> Len(prepare_queue') = 0
      BY <2>4, EmptyIffNoLength
    <3> QED BY <1>n, <1>1, <3>1, <3>2
  <2> QED BY <2>2, <2>3, <2>4, <2>5
<1>3. \A i \in 1..(n - 1) : OpAt(i)' = OpAt(i)
  BY <1>2 DEF OpAt
<1>4. UNCHANGED <<status, journal, loopback, commit_min, commit_max, applied, driver>>
  BY DEF commits
<1>5. t.hdr \notin journal
  BY <1>0 DEF TasksOwnTheirPrepare
<1>6. OpAt(n) = t.hdr.op /\ OpAt(n) > commit_max
  <2>1. OpAt(n) = t.hdr.op
    BY <1>n DEF OpAt
  <2>2. prepare_queue[n].acks = {}
    BY <1>0, <1>1, <1>n, <1>5 DEF AckedIsJournaled
  <2>3. ~prepare_queue[n].quorum
    BY <1>0, <1>1, <1>n, <2>2 DEF AckedIsJournaled
  <2>4. ~(OpAt(n) <= commit_max)
    BY <1>0, <1>1, <1>n, <2>3 DEF Window
  <2> QED BY <1>1, <2>1, <2>4
<1>7. Aligned
  BY <1>0 DEF TasksOwnTheirPrepare
<1>8. OpAt(1) = commit_min + 1 /\ OpAt(1) <= commit_max + 1 /\ commit_min <= commit_max
  BY <1>0, <1>7 DEF Window, Aligned
<1>9. Aligned'
  <2>1. CASE n = 1
    BY <1>1, <1>2, <1>4, <1>6, <1>8, <2>1 DEF Aligned
  <2>2. CASE n > 1
    BY <1>1, <1>2, <1>3, <1>4, <1>8, <2>2 DEF Aligned
  <2> QED BY <1>1, <2>1, <2>2
<1>10. OpsAreConsecutive'
  BY <1>0, <1>1, <1>2, <1>3, <1>n DEF OpsAreConsecutive
<1>11. AckedIsJournaled'
  BY <1>0, <1>1, <1>2, <1>4, <1>n DEF AckedIsJournaled
<1>12. Window'
  <2>1. \A op \in 1..commit_max : Journaled(op)'
    BY <1>0, <1>4 DEF Window, Journaled
  <2>2. \A i \in 1..Depth' : OpAt(i)' <= commit_max' => prepare_queue'[i].quorum
    BY <1>0, <1>1, <1>2, <1>3, <1>4, <1>n DEF Window
  <2>3. n > 1 => commit_max' <= OpAt(Depth)'
    <3> SUFFICES ASSUME n > 1 PROVE commit_max' <= OpAt(Depth)'
      OBVIOUS
    <3>1. OpAt(n) + (n - 1) = OpAt(n - 1) + n
      BY <1>0, <1>1, <1>n DEF OpsAreConsecutive
    <3>2. OpAt(Depth)' = OpAt(n - 1)
      <4>1. OpAt(n - 1)' = OpAt(n - 1)
        BY <1>1, <1>3
      <4> QED BY <1>2, <4>1 DEF OpAt
    <3>3. OpAt(n - 1) \in Nat /\ OpAt(n) \in Nat
      BY <1>1
    <3> QED BY <1>1, <1>4, <1>6, <3>1, <3>2, <3>3
  <2>4. n = 1 => commit_max' = sequencer'
    BY <1>1, <1>4, <1>6, <1>8
  <2>5. n > 1 => OpAt(1)' = OpAt(1)
    BY <1>1, <1>3
  <2>6. n > 1 => commit_min' < OpAt(1)' /\ OpAt(1)' <= commit_max' + 1
    BY <1>1, <1>4, <1>8, <2>5
  <2>7. commit_min' <= commit_max' /\ \A op \in 1..commit_max' : Journaled(op)'
    BY <1>4, <1>8, <2>1
  <2>8. prepare_queue' # <<>> => n > 1
    BY <1>1, <1>2
  <2> QED BY <1>2, <2>2, <2>3, <2>4, <2>6, <2>7, <2>8 DEF Window
<1>13. TasksOwnTheirPrepare'
  <2>1. ASSUME NEW u \in tasks'
        PROVE  IF u.stage = "replicate" THEN u.hdr \in journal'
               ELSE u.hdr \notin journal' /\ \E i \in 1..Depth' : prepare_queue'[i].hdr = u.hdr
    <3>1. CASE u.stage = "replicate"
      BY <1>0, <1>4, <3>1 DEF TasksOwnTheirPrepare
    <3>2. CASE u.stage # "replicate"
      <4>1. u.hdr \notin journal /\ \E i \in 1..Depth : prepare_queue[i].hdr = u.hdr
        BY <1>0, <3>2 DEF TasksOwnTheirPrepare
      <4>2. PICK i \in 1..n : prepare_queue[i].hdr = u.hdr
        BY <1>n, <4>1
      <4>3. u.hdr # t.hdr
        BY <1>0 DEF TasksOwnTheirPrepare
      <4>4. i \in 1..Depth' /\ prepare_queue'[i].hdr = u.hdr
        BY <1>1, <1>2, <1>n, <4>2, <4>3
      <4> QED BY <1>4, <3>2, <4>1, <4>4
    <3> QED BY <3>1, <3>2
  <2> QED BY <1>0, <1>4, <1>9, <2>1 DEF TasksOwnTheirPrepare
<1>14. DriversTakeTurns'
  BY <1>0, <1>4, <1>7, <1>9 DEF DriversTakeTurns
<1>15. AppliedIsPrefix'
  BY <1>0, <1>4 DEF AppliedIsPrefix
<1> QED BY <1>10, <1>11, <1>12, <1>13, <1>14, <1>15 DEF JInv

\* An append fails: the prepare is handed back, left to the view change, or the process exits.
LEMMA AppendFailedKeeps == ASSUME IInv, IInv', JInv, NEW t \in tasks, append_failed(t) PROVE JInv'
<1>0. /\ UNCHANGED <<status, minted, journal, loopback, commits, driver>>
      /\ t.stage = "append" /\ tasks' = tasks \ {t} /\ rollback_pipelined_prepare(t.hdr)
  BY DEF append_failed
<1>1. CASE UNCHANGED <<prepare_queue, sequencer>>
  <2>1. Still' /\ Aligned' = Aligned
    BY <1>0, <1>1, StillUntouched DEF commits, is_primary
  <2>2. TasksOwnTheirPrepare'
    BY <1>0, <1>1, <2>1 DEF JInv, TasksOwnTheirPrepare, Depth
  <2>3. DriversTakeTurns'
    BY <1>0, <2>1 DEF JInv, DriversTakeTurns, commits
  <2> QED BY <2>1, <2>2, <2>3 DEF JInv, Still
<1>2. CASE ~UNCHANGED <<prepare_queue, sequencer>>
  <2>1. /\ is_primary /\ sequencer = t.hdr.op /\ prepare_queue # <<>>
        /\ prepare_queue[Depth].hdr = t.hdr
        /\ prepare_queue' = SubSeq(prepare_queue, 1, Depth - 1) /\ sequencer' = t.hdr.op - 1
    BY <1>0, <1>2 DEF rollback_pipelined_prepare, Depth
  <2> QED BY <1>0, <2>1, RollbackKeeps
<1> QED BY <1>1, <1>2

-----------------------------------------------------------------------------
(* Acks *)

\* The commit point walks over ops that each have their quorum in the pipeline.
LEMMA QuorumFrontierReached ==
    ASSUME NEW queue \in Seq(PipelineEntry), NEW max \in Nat
    PROVE  /\ quorum_frontier(queue, max) \in Nat /\ quorum_frontier(queue, max) >= max
           /\ \A op \in (max + 1)..quorum_frontier(queue, max) :
                \E i \in 1..Len(queue) : queue[i].hdr.op = op /\ queue[i].quorum
<1> DEFINE HasQuorum(op) == \E i \in 1..Len(queue) : queue[i].hdr.op = op /\ queue[i].quorum
           S == {k \in 1..Len(queue) : \A op \in (max + 1)..(max + k) : HasQuorum(op)}
           K == Cardinality(S)
<1>1. quorum_frontier(queue, max) = max + K
  BY DEF quorum_frontier
<1> HIDE DEF HasQuorum
<1>2. Len(queue) \in Nat
  OBVIOUS
<1>3. IsFiniteSet(S) /\ K \in Nat
  <2>1. IsFiniteSet(1..Len(queue))
    BY <1>2, FS_Interval
  <2>2. IsFiniteSet(S)
    BY <2>1, FS_Subset
  <2> QED BY <2>2, FS_CardinalityType
<1>4. K = 0 \/ K \in S
  <2> SUFFICES ASSUME K # 0, K \notin S PROVE FALSE
    OBVIOUS
  <2>1. S \subseteq 1..(K - 1)
    <3> SUFFICES ASSUME NEW k \in S, k \notin 1..(K - 1) PROVE FALSE
      OBVIOUS
    <3>1. k \in 1..Len(queue) /\ k >= K /\ K \in 1..Len(queue)
      BY <1>2, <1>3
    <3>2. \A op \in (max + 1)..(max + K) : HasQuorum(op)
      BY <1>2, <1>3, <3>1
    <3> QED BY <3>1, <3>2
  <2>2. IsFiniteSet(1..(K - 1)) /\ Cardinality(1..(K - 1)) = K - 1
    <3>1. K - 1 \in Nat
      BY <1>3
    <3> HIDE DEF K
    <3> QED BY <3>1, FS_Interval
  <2>3. Cardinality(S) <= Cardinality(1..(K - 1))
    <3> HIDE DEF S
    <3> QED BY <2>1, <2>2, FS_Subset
  <2> QED BY <1>3, <2>2, <2>3
<1>5. \A op \in (max + 1)..(max + K) : HasQuorum(op)
  BY <1>3, <1>4
<1> HIDE DEF K
<1> QED BY <1>1, <1>3, <1>5 DEF HasQuorum

\* An ack of a prepare in the journal: the commit point moves over quorums only.
LEMMA AckKeeps ==
    ASSUME IInv, IInv', JInv, NEW d \in Drivers, NEW r \in Replicas, NEW h \in journal,
           on_ack(d, r, h), loopback' \subseteq journal,
           UNCHANGED <<status, sequencer, minted, journal, tasks, commit_min, applied>>
    PROVE  JInv'
<1>0. OpsAreConsecutive /\ AckedIsJournaled /\ Window /\ TasksOwnTheirPrepare
        /\ DriversTakeTurns /\ AppliedIsPrefix
  BY DEF JInv
<1>n. PICK n \in Nat : n = Depth
  BY StateFacts
<1>1. PICK i \in 1..n :
          LET e == prepare_queue[i]
              queue == [prepare_queue EXCEPT ![i] = add_ack(e, r)]
              new_commit == IF queue[i].quorum /\ ~e.quorum
                            THEN quorum_frontier(queue, commit_max)
                            ELSE commit_max
          IN  /\ e.hdr = h
              /\ prepare_queue' = queue
              /\ commit_max' = new_commit
              /\ driver' = IF new_commit > commit_max
                           THEN [driver EXCEPT ![d] =
                                   peek_committable_head(queue, commit_min, new_commit)]
                           ELSE driver
  BY <1>n, Zenon DEF on_ack, Depth
<1> DEFINE ack == add_ack(prepare_queue[i], r)
<1>2. /\ prepare_queue \in Seq(PipelineEntry) /\ prepare_queue[i] \in PipelineEntry
      /\ commit_min \in Nat /\ commit_max \in Nat
      /\ \A j \in 1..n : OpAt(j) \in Nat /\ OpAt(j) > 0
      /\ Len(prepare_queue) = n /\ n > 0 /\ prepare_queue # <<>>
  BY <1>n, StateFacts DEF Depth
<1>3. /\ ack \in PipelineEntry /\ ack.hdr = h /\ ack.acks # {}
      /\ prepare_queue[i].quorum => ack.quorum
  <2>1. ack \in PipelineEntry /\ ack.hdr = prepare_queue[i].hdr
    BY <1>2, AddAckType
  <2>2. ack.acks # {} /\ (prepare_queue[i].quorum => ack.quorum)
    BY Zenon DEF add_ack
  <2> QED BY <1>1, <2>1, <2>2
<1>4. prepare_queue' = [prepare_queue EXCEPT ![i] = ack]
  BY <1>1
<1> HIDE DEF ack
<1>5. /\ prepare_queue' \in Seq(PipelineEntry) /\ Len(prepare_queue') = n /\ Depth' = n
      /\ prepare_queue'[i] = ack
      /\ \A j \in 1..n : j # i => prepare_queue'[j] = prepare_queue[j]
      /\ prepare_queue' # <<>>
  BY <1>2, <1>3, <1>4 DEF Depth
<1>6. \A j \in 1..n : /\ prepare_queue'[j].hdr = prepare_queue[j].hdr /\ OpAt(j)' = OpAt(j)
                      /\ prepare_queue[j].quorum => prepare_queue'[j].quorum
  BY <1>1, <1>3, <1>5 DEF OpAt
<1>7. /\ commit_max' \in Nat /\ commit_max' >= commit_max
      /\ \A op \in (commit_max + 1)..commit_max' :
           \E j \in 1..n : OpAt(j) = op /\ prepare_queue'[j].quorum
  <2>1. commit_max' = commit_max \/ commit_max' = quorum_frontier(prepare_queue', commit_max)
    BY <1>1
  <2>2. CASE commit_max' = commit_max
    BY <1>2, <2>2
  <2>3. CASE commit_max' = quorum_frontier(prepare_queue', commit_max)
    <3>1. /\ commit_max' \in Nat /\ commit_max' >= commit_max
          /\ \A op \in (commit_max + 1)..commit_max' :
               \E j \in 1..Len(prepare_queue') :
                  prepare_queue'[j].hdr.op = op /\ prepare_queue'[j].quorum
      BY <1>2, <1>5, <2>3, QuorumFrontierReached
    <3>2. \A j \in 1..n : prepare_queue'[j].hdr.op = OpAt(j)
      BY <1>6 DEF OpAt
    <3> QED BY <1>5, <3>1, <3>2
  <2> QED BY <2>1, <2>2, <2>3
<1>8. OpsAreConsecutive'
  BY <1>0, <1>5, <1>6, <1>n DEF OpsAreConsecutive
<1>9. AckedIsJournaled'
  <2> SUFFICES ASSUME NEW j \in 1..n
               PROVE  /\ prepare_queue'[j].quorum => prepare_queue'[j].acks # {}
                      /\ prepare_queue'[j].acks # {} => prepare_queue'[j].hdr \in journal'
    BY <1>5 DEF AckedIsJournaled
  <2>1. CASE j = i
    BY <1>3, <1>5, <2>1
  <2>2. CASE j # i
    BY <1>0, <1>5, <1>n, <2>2 DEF AckedIsJournaled
  <2> QED BY <2>1, <2>2
<1>10. \A j \in 1..n : OpAt(j) <= commit_max' => prepare_queue'[j].quorum
  <2> SUFFICES ASSUME NEW j \in 1..n, OpAt(j) <= commit_max' PROVE prepare_queue'[j].quorum
    OBVIOUS
  <2>1. CASE OpAt(j) <= commit_max
    <3>1. prepare_queue[j].quorum
      BY <1>0, <1>2, <1>n, <2>1 DEF Window
    <3> QED BY <1>6, <3>1
  <2>2. CASE OpAt(j) > commit_max
    <3>1. OpAt(j) \in (commit_max + 1)..commit_max'
      BY <1>2, <1>7, <2>2
    <3>2. PICK k \in 1..n : OpAt(k) = OpAt(j) /\ prepare_queue'[k].quorum
      BY <1>7, <3>1
    <3>3. k = j
      BY <1>0, <1>n, <3>2, OpNamesEntry
    <3> QED BY <3>2, <3>3
  <2> QED BY <1>2, <2>1, <2>2
<1>11. \A op \in 1..commit_max' : Journaled(op)'
  <2> SUFFICES ASSUME NEW op \in 1..commit_max' PROVE Journaled(op)'
    OBVIOUS
  <2>1. CASE op <= commit_max
    BY <1>0, <1>2, <2>1 DEF Window, Journaled
  <2>2. CASE op > commit_max
    <3>1. PICK j \in 1..n : OpAt(j) = op /\ prepare_queue'[j].quorum
      BY <1>2, <1>7, <2>2
    <3>2. prepare_queue'[j].hdr \in journal' /\ prepare_queue'[j].hdr.op = op
      BY <1>5, <1>6, <1>9, <3>1 DEF AckedIsJournaled, OpAt
    <3> QED BY <3>2 DEF Journaled
  <2> QED BY <1>2, <2>1, <2>2
<1>12. commit_max' <= OpAt(n)
  <2>1. CASE commit_max' = commit_max
    BY <1>0, <1>2, <1>n, <2>1 DEF Window
  <2>2. CASE commit_max' > commit_max
    <3>1. PICK j \in 1..n : OpAt(j) = commit_max'
      BY <1>2, <1>7, <2>2
    <3>2. OpAt(n) + j = OpAt(j) + n /\ n \in 1..n
      BY <1>0, <1>2, <1>n DEF OpsAreConsecutive
    <3> QED BY <1>2, <3>1, <3>2
  <2> QED BY <1>2, <1>7, <2>1, <2>2
<1>13. Window'
  <2>1. commit_min' <= commit_max' /\ commit_min' < OpAt(1)' /\ OpAt(1)' <= commit_max' + 1
    BY <1>0, <1>2, <1>6, <1>7 DEF Window
  <2>2. commit_max' <= OpAt(Depth)'
    <3>1. OpAt(n)' = OpAt(n)
      BY <1>2, <1>6
    <3> QED BY <1>5, <1>12, <3>1 DEF OpAt
  <2>3. \A j \in 1..Depth' : OpAt(j)' <= commit_max' => prepare_queue'[j].quorum
    BY <1>5, <1>6, <1>10
  <2> QED BY <1>5, <1>11, <2>1, <2>2, <2>3 DEF Window
<1>14. Aligned' = Aligned
  <2>1. OpAt(1)' = OpAt(1)
    BY <1>2, <1>6
  <2> QED BY <1>2, <1>5, <2>1 DEF Aligned
<1>15. TasksOwnTheirPrepare'
  <2>1. ASSUME NEW t \in tasks'
        PROVE  IF t.stage = "replicate" THEN t.hdr \in journal'
               ELSE t.hdr \notin journal' /\ \E j \in 1..Depth' : prepare_queue'[j].hdr = t.hdr
    BY <1>0, <1>5, <1>6, <1>n DEF TasksOwnTheirPrepare
  <2> QED BY <1>0, <1>14, <2>1 DEF TasksOwnTheirPrepare
<1>16. DriversTakeTurns'
  <2> DEFINE next == peek_committable_head(prepare_queue', commit_min, commit_max')
  <2>1. driver' = driver \/ driver' = [driver EXCEPT ![d] = next]
    BY <1>1, Zenon
  <2>2. /\ next.mode \in {"commit", "drain"}
        /\ next.mode = "commit" => Aligned' /\ next.hdr.op <= commit_max'
    BY <1>5 DEF peek_committable_head, Aligned, OpAt
  <2> HIDE DEF next
  <2> SUFFICES ASSUME NEW b \in Drivers
               PROVE  /\ driver'[b].mode = "commit" => Aligned' /\ driver'[b].hdr.op <= commit_max'
                      /\ driver'[b].mode = "walk" =>
                            /\ b = Pump /\ ~Aligned'
                            /\ commit_min' < commit_max' /\ driver'[b].hdr.op = commit_min' + 1
    BY DEF DriversTakeTurns
  <2>3. driver'[b] = driver[b] \/ driver'[b] = next
    BY <2>1, StateFacts
  <2>4. CASE driver'[b] = driver[b]
    BY <1>0, <1>2, <1>7, <1>14, <2>4, DriverFields DEF DriversTakeTurns
  <2>5. CASE driver'[b] = next
    BY <2>2, <2>5
  <2> QED BY <2>3, <2>4, <2>5
<1>17. AppliedIsPrefix'
  BY <1>0 DEF AppliedIsPrefix
<1> QED BY <1>8, <1>9, <1>13, <1>15, <1>16, <1>17 DEF JInv

\* Acks of backups, of the loopback queue and of the tick: all of prepares in the journal.
LEMMA AckStepsKeepTurns ==
    ASSUME IInv, IInv', JInv,
           \/ \E r \in Replicas, h \in journal : backup_ack(r, h)
           \/ \E d \in Drivers, h \in loopback : drain_loopback(d, h)
           \/ \E h \in journal : repair_primary_self_acks(h)
    PROVE  JInv'
<1>0. loopback \subseteq journal
  BY DEF JInv, TasksOwnTheirPrepare
<1>1. /\ UNCHANGED <<status, sequencer, minted, journal, tasks, commit_min, applied>>
      /\ loopback' \subseteq journal
  BY <1>0 DEF backup_ack, drain_loopback, repair_primary_self_acks, frontier, commits
<1>2. \/ \E d \in Drivers, r \in Replicas, h \in journal : on_ack(d, r, h)
      \/ UNCHANGED <<prepare_queue, commit_max, driver>>
  BY <1>0, PipelineAssumption DEF backup_ack, drain_loopback, repair_primary_self_acks, queues, commits
<1>3. CASE UNCHANGED <<prepare_queue, commit_max, driver>>
  <2>1. Still' /\ Aligned' = Aligned
    BY <1>1, <1>3, StillUntouched DEF is_primary
  <2>2. TasksOwnTheirPrepare'
    BY <1>1, <1>3, <2>1 DEF JInv, TasksOwnTheirPrepare, Depth
  <2>3. DriversTakeTurns'
    BY <1>1, <1>3, <2>1 DEF JInv, DriversTakeTurns
  <2> QED BY <2>1, <2>2, <2>3 DEF JInv, Still
<1> QED BY <1>1, <1>2, <1>3, AckKeeps

-----------------------------------------------------------------------------
(* The commit loop and the walk *)

\* The head is popped and applied: it was the one after commit_min.
LEMMA PopKeeps ==
    ASSUME IInv, IInv', JInv, NEW d \in Drivers, commit_head(d),
           prepare_queue # <<>>, prepare_queue[1].hdr = driver[d].hdr
    PROVE  /\ JInv'
           /\ driver[d].hdr.op = commit_min + 1
<1>0. OpsAreConsecutive /\ AckedIsJournaled /\ Window /\ TasksOwnTheirPrepare
        /\ DriversTakeTurns /\ AppliedIsPrefix
  BY DEF JInv
<1>n. PICK n \in Nat : n = Depth
  BY StateFacts
<1>1. /\ prepare_queue \in Seq(PipelineEntry) /\ Len(prepare_queue) = n /\ n > 0
      /\ commit_min \in Nat /\ commit_max \in Nat /\ sequencer \in Nat
      /\ \A i \in 1..n : OpAt(i) \in Nat
  BY <1>n, StateFacts DEF Depth
<1>2. /\ UNCHANGED <<status, sequencer, minted, journal, tasks, loopback, commit_max>>
      /\ prepare_queue' = Tail(prepare_queue) /\ commit_min' = driver[d].hdr.op
      /\ applied' = Append(applied, driver[d].hdr.checksum)
      /\ driver' = [driver EXCEPT ![d] = peek_committable_head(prepare_queue', commit_min', commit_max')]
      /\ driver[d].mode = "commit"
  BY DEF commit_head, frontier
<1>3. /\ Depth' = n - 1 /\ \A i \in 1..(n - 1) : prepare_queue'[i] = prepare_queue[i + 1]
      /\ prepare_queue' \in Seq(PipelineEntry)
  BY <1>1, <1>2 DEF Depth
<1>4. prepare_queue' = <<>> <=> n = 1
  <2>1. Len(prepare_queue') = n - 1
    BY <1>3 DEF Depth
  <2>2. prepare_queue' = <<>> <=> Len(prepare_queue') = 0
    BY <1>3, EmptyIffNoLength
  <2> QED BY <1>n, <1>1, <2>1, <2>2
<1>5. \A i \in 1..(n - 1) : OpAt(i)' = OpAt(i + 1)
  BY <1>3 DEF OpAt
<1>6. /\ Aligned /\ driver[d].hdr.op = OpAt(1) /\ OpAt(1) = commit_min + 1 /\ OpAt(1) <= commit_max
      /\ commit_min' = OpAt(1)
  BY <1>0, <1>2 DEF DriversTakeTurns, Aligned, OpAt
<1>7. prepare_queue[1].hdr \in journal
  <2>1. prepare_queue[1].quorum
    BY <1>0, <1>1, <1>6, <1>n DEF Window
  <2> QED BY <1>0, <1>1, <1>n, <2>1 DEF AckedIsJournaled
<1>8. n > 1 => OpAt(1)' = OpAt(1) + 1
  <2> SUFFICES ASSUME n > 1 PROVE OpAt(1)' = OpAt(1) + 1
    OBVIOUS
  <2>1. OpAt(2) + 1 = OpAt(1) + 2 /\ OpAt(1)' = OpAt(2) /\ OpAt(1) \in Nat /\ OpAt(2) \in Nat
    BY <1>0, <1>1, <1>5, <1>n DEF OpsAreConsecutive
  <2> QED BY <2>1
<1>9. n = 1 => commit_min' = commit_max' /\ (is_primary => commit_max' = sequencer')
  <2> SUFFICES ASSUME n = 1
               PROVE  commit_min' = commit_max' /\ (is_primary => commit_max' = sequencer')
    OBVIOUS
  <2>1. commit_max <= OpAt(1)
    BY <1>0, <1>n DEF Window
  <2>2. is_primary => OpAt(1) = sequencer
    BY <1>1, <1>n DEF IInv, PipelineIsChain, OpAt, Depth
  <2> QED BY <1>1, <1>2, <1>6, <2>1, <2>2
<1>10. Aligned'
  BY <1>1, <1>4, <1>6, <1>8, <1>9 DEF Aligned
<1>11. OpsAreConsecutive'
  <2> SUFFICES ASSUME NEW i \in 1..(n - 1), NEW j \in 1..(n - 1)
               PROVE  OpAt(j)' + i = OpAt(i)' + j
    BY <1>3 DEF OpsAreConsecutive
  <2>a. i + 1 \in 1..n /\ j + 1 \in 1..n
    BY <1>1
  <2>b. OpAt(j + 1) + (i + 1) = OpAt(i + 1) + (j + 1)
    BY <1>0, <1>n, <2>a, Zenon DEF OpsAreConsecutive
  <2>1. /\ i + 1 \in 1..n /\ j + 1 \in 1..n /\ OpAt(j + 1) + (i + 1) = OpAt(i + 1) + (j + 1)
        /\ OpAt(i)' = OpAt(i + 1) /\ OpAt(j)' = OpAt(j + 1)
    BY <1>5, <2>a, <2>b
  <2>2. OpAt(i + 1) \in Nat /\ OpAt(j + 1) \in Nat
    BY <1>1, <2>1
  <2> QED BY <2>1, <2>2
<1>12. AckedIsJournaled'
  BY <1>0, <1>1, <1>2, <1>3, <1>n DEF AckedIsJournaled
<1>13. Window'
  <2>1. commit_min' <= commit_max' /\ \A op \in 1..commit_max' : Journaled(op)'
    BY <1>0, <1>1, <1>2, <1>6 DEF Window, Journaled
  <2>2. n > 1 => commit_min' < OpAt(1)' /\ OpAt(1)' <= commit_max' + 1
    BY <1>1, <1>2, <1>6, <1>8
  <2>3. n > 1 => commit_max' <= OpAt(Depth)'
    <3> SUFFICES ASSUME n > 1 PROVE commit_max' <= OpAt(Depth)'
      OBVIOUS
    <3>1. OpAt(n - 1)' = OpAt(n)
      BY <1>1, <1>5
    <3>2. OpAt(Depth)' = OpAt(n)
      BY <1>3, <3>1 DEF OpAt
    <3> QED BY <1>0, <1>2, <1>n, <3>2 DEF Window
  <2>4. \A i \in 1..Depth' : OpAt(i)' <= commit_max' => prepare_queue'[i].quorum
    <3> SUFFICES ASSUME NEW i \in 1..(n - 1), OpAt(i)' <= commit_max' PROVE prepare_queue'[i].quorum
      BY <1>3
    <3>1. i + 1 \in 1..n /\ OpAt(i + 1) <= commit_max /\ prepare_queue'[i] = prepare_queue[i + 1]
      BY <1>1, <1>2, <1>3, <1>5
    <3>2. prepare_queue[i + 1].quorum
      BY <1>0, <1>n, <3>1 DEF Window
    <3> QED BY <3>1, <3>2
  <2>5. prepare_queue' # <<>> => n > 1
    BY <1>1, <1>4
  <2>6. prepare_queue' = <<>> /\ is_primary' => commit_max' = sequencer'
    BY <1>2, <1>4, <1>9 DEF is_primary
  <2> QED BY <2>1, <2>2, <2>3, <2>4, <2>5, <2>6 DEF Window
<1>14. TasksOwnTheirPrepare'
  <2>1. ASSUME NEW t \in tasks'
        PROVE  IF t.stage = "replicate" THEN t.hdr \in journal'
               ELSE t.hdr \notin journal' /\ \E i \in 1..Depth' : prepare_queue'[i].hdr = t.hdr
    <3>1. CASE t.stage = "replicate"
      BY <1>0, <1>2, <3>1 DEF TasksOwnTheirPrepare
    <3>2. CASE t.stage # "replicate"
      <4>1. t.hdr \notin journal /\ \E i \in 1..Depth : prepare_queue[i].hdr = t.hdr
        BY <1>0, <1>2, <3>2 DEF TasksOwnTheirPrepare
      <4>2. PICK i \in 1..n : prepare_queue[i].hdr = t.hdr
        BY <1>n, <4>1
      <4>3. i # 1
        BY <1>7, <4>1, <4>2
      <4>4. i - 1 \in 1..(n - 1) /\ i - 1 + 1 = i
        BY <1>1, <4>3
      <4>5. i - 1 \in 1..Depth' /\ prepare_queue'[i - 1].hdr = t.hdr
        BY <1>3, <4>2, <4>4
      <4> QED BY <1>2, <3>2, <4>1, <4>5
    <3> QED BY <3>1, <3>2
  <2> QED BY <1>0, <1>2, <1>10, <2>1 DEF TasksOwnTheirPrepare
<1>15. DriversTakeTurns'
  <2>1. PICK next : next = peek_committable_head(prepare_queue', commit_min', commit_max')
    OBVIOUS
  <2>2. next.mode \in {"commit", "drain"} /\ (next.mode = "commit" => next.hdr.op <= commit_max')
    BY <2>1 DEF peek_committable_head
  <2> SUFFICES ASSUME NEW b \in Drivers
               PROVE  /\ driver'[b].mode = "commit" => driver'[b].hdr.op <= commit_max'
                      /\ driver'[b].mode # "walk"
    BY <1>10 DEF DriversTakeTurns
  <2>3. driver'[b] = driver[b] \/ driver'[b] = next
    BY <1>2, <2>1, StateFacts
  <2> QED BY <1>0, <1>2, <1>6, <2>2, <2>3 DEF DriversTakeTurns
<1>16. AppliedIsPrefix'
  <2>1. Len(applied') = Len(applied) + 1
    BY <1>2, StateFacts, DriverFields
  <2> QED BY <1>0, <1>6, <2>1 DEF AppliedIsPrefix
<1> QED BY <1>6, <1>11, <1>12, <1>13, <1>14, <1>15, <1>16 DEF JInv

\* The commit loop applies its head, or finds that another driver did.
LEMMA CommitHeadKeeps == ASSUME IInv, IInv', JInv, NEW d \in Drivers, commit_head(d) PROVE JInv'
<1>1. CASE prepare_queue # <<>> /\ prepare_queue[1].hdr = driver[d].hdr
  BY <1>1, PopKeeps
<1>2. CASE ~(prepare_queue # <<>> /\ prepare_queue[1].hdr = driver[d].hdr)
  <2>1. /\ UNCHANGED <<status, sequencer, minted, journal, tasks, loopback, commit_max,
                       prepare_queue, commit_min, applied>>
        /\ driver' = [driver EXCEPT ![d] = peek_committable_head(prepare_queue, commit_min, commit_max)]
        /\ driver[d].mode = "commit"
    BY <1>2 DEF commit_head, frontier
  <2>2. Still' /\ Aligned' = Aligned
    BY <2>1, StillUntouched DEF is_primary
  <2>3. TasksOwnTheirPrepare'
    BY <2>1, <2>2 DEF JInv, TasksOwnTheirPrepare, Depth
  <2>4. DriversTakeTurns'
    <3>1. PICK next : next = peek_committable_head(prepare_queue, commit_min, commit_max)
      OBVIOUS
    <3>2. next.mode \in {"commit", "drain"} /\ (next.mode = "commit" => next.hdr.op <= commit_max)
      BY <3>1 DEF peek_committable_head
    <3>3. Aligned
      BY <2>1 DEF JInv, DriversTakeTurns
    <3>4. \A b \in Drivers : driver'[b] = driver[b] \/ driver'[b] = next
      BY <2>1, <3>1, StateFacts
    <3> QED BY <2>1, <2>2, <3>2, <3>3, <3>4 DEF JInv, DriversTakeTurns
  <2> QED BY <2>2, <2>3, <2>4 DEF JInv, Still
<1> QED BY <1>1, <1>2

\* Promoting queued requests.
LEMMA DrainKeeps == ASSUME IInv, IInv', JInv, NEW d \in Drivers, drain_request_queue(d) PROVE JInv'
<1>0. UNCHANGED <<status, journal, loopback, commits>>
  BY DEF drain_request_queue
<1>1. CASE is_caught_up_primary /\ request_queue # <<>> /\ driver' = driver
           /\ push_prepare_entry(Head(request_queue))
  <2>1. Head(request_queue) \in Clients
    BY <1>1 DEF IInv, TypeOK
  <2> QED BY <1>0, <1>1, <2>1, PushKeeps
<1>2. CASE /\ UNCHANGED <<prepare_queue, frontier, tasks>>
           /\ driver' = [driver EXCEPT ![d] = Idle]
  <2>1. Still' /\ Aligned' = Aligned
    BY <1>0, <1>2, StillUntouched DEF frontier, commits, is_primary
  <2>2. TasksOwnTheirPrepare'
    BY <1>0, <1>2, <2>1 DEF JInv, TasksOwnTheirPrepare, Depth, frontier
  <2>3. \A e \in Drivers : driver'[e] = driver[e] \/ driver'[e].mode \in {"idle", "drain"}
    BY <1>2, StateFacts DEF Idle
  <2>4. DriversTakeTurns'
    BY <1>0, <2>1, <2>3, TurnsKept DEF commits
  <2> QED BY <2>1, <2>2, <2>4 DEF JInv, Still
<1> QED BY <1>1, <1>2 DEF drain_request_queue, queues

\* Where the walk goes next: an op below the pipeline.
LEMMA WalkStays ==
    ASSUME IInv, NEW min \in Nat, NEW max \in Nat, NEW next, next = walk_from(prepare_queue, min, max)
    PROVE  \/ next = Idle
           \/ /\ next.mode = "walk" /\ min < max /\ next.hdr.op = min + 1
              /\ prepare_queue # <<>> => OpAt(1) # min + 1
<1>1. Journaled(min + 1) => (CHOOSE h \in journal : h.op = min + 1).op = min + 1
  BY DEF Journaled
<1> QED BY <1>1 DEF walk_from, OpAt

\* The walk applies the next op below the pipeline.
LEMMA WalkKeeps ==
    ASSUME IInv, IInv', JInv, NEW d \in Drivers, walk_apply(d)
    PROVE  JInv' /\ driver[d].hdr.op = commit_min + 1
<1>0. OpsAreConsecutive /\ AckedIsJournaled /\ Window /\ TasksOwnTheirPrepare
        /\ DriversTakeTurns /\ AppliedIsPrefix
  BY DEF JInv
<1>1. /\ UNCHANGED <<status, sequencer, minted, journal, tasks, loopback, commit_max, prepare_queue>>
      /\ commit_min' = driver[d].hdr.op
      /\ applied' = Append(applied, driver[d].hdr.checksum)
      /\ driver' = [driver EXCEPT ![d] = walk_from(prepare_queue, driver[d].hdr.op, commit_max)]
      /\ driver[d].mode = "walk"
  BY DEF walk_apply, frontier, queues
<1>2. d = Pump /\ ~Aligned /\ commit_min < commit_max /\ driver[d].hdr.op = commit_min + 1
  BY <1>0, <1>1 DEF DriversTakeTurns
<1>3. commit_min \in Nat /\ commit_max \in Nat /\ (prepare_queue # <<>> => OpAt(1) \in Nat)
  BY StateFacts
<1>4. prepare_queue # <<>> => commit_min + 1 < OpAt(1)
  BY <1>0, <1>2, <1>3 DEF Window, Aligned
<1>5. tasks = {}
  BY <1>0, <1>2 DEF TasksOwnTheirPrepare
<1>6. OpsAreConsecutive' /\ AckedIsJournaled'
  BY <1>0, <1>1 DEF OpsAreConsecutive, AckedIsJournaled, Depth, OpAt
<1>7. Window'
  BY <1>0, <1>1, <1>2, <1>3, <1>4 DEF Window, Depth, OpAt, is_primary, Journaled
<1>8. TasksOwnTheirPrepare'
  BY <1>0, <1>1, <1>5 DEF TasksOwnTheirPrepare
<1>9. DriversTakeTurns'
  <2>1. PICK next : next = walk_from(prepare_queue, commit_min + 1, commit_max)
    OBVIOUS
  <2>2. \/ next = Idle
        \/ /\ next.mode = "walk" /\ commit_min + 1 < commit_max /\ next.hdr.op = commit_min + 2
           /\ prepare_queue # <<>> => OpAt(1) # commit_min + 2
    <3>1. commit_min + 1 \in Nat
      BY <1>3
    <3> QED BY <1>3, <2>1, <3>1, WalkStays
  <2>3. \A b \in Drivers : (b # d /\ driver'[b] = driver[b]) \/ (b = d /\ driver'[b] = next)
    BY <1>1, <1>2, <2>1, StateFacts
  <2> SUFFICES ASSUME NEW b \in Drivers
               PROVE  /\ driver'[b].mode = "commit" => Aligned' /\ driver'[b].hdr.op <= commit_max'
                      /\ driver'[b].mode = "walk" =>
                            /\ b = Pump /\ ~Aligned'
                            /\ commit_min' < commit_max' /\ driver'[b].hdr.op = commit_min' + 1
    BY DEF DriversTakeTurns
  <2>4. CASE b # d
    <3>1. driver'[b] = driver[b] /\ driver[b].mode # "commit" /\ driver[b].mode # "walk"
      BY <1>0, <1>2, <2>3, <2>4 DEF DriversTakeTurns
    <3> QED BY <3>1
  <2>5. CASE b = d
    <3>1. CASE next = Idle
      BY <2>3, <2>5, <3>1 DEF Idle
    <3>2. CASE next # Idle
      <4>1. /\ driver'[b].mode = "walk" /\ commit_min' + 1 = driver'[b].hdr.op
            /\ commit_min' < commit_max'
        BY <1>1, <1>2, <1>3, <2>2, <2>3, <2>5, <3>2
      <4>2. ~Aligned'
        BY <1>1, <1>2, <1>3, <2>2, <3>2 DEF Aligned, OpAt
      <4> QED BY <1>2, <2>5, <4>1, <4>2
    <3> QED BY <3>1, <3>2
  <2> QED BY <2>4, <2>5
<1>10. AppliedIsPrefix'
  <2>1. Len(applied') = Len(applied) + 1
    BY <1>1, StateFacts, DriverFields
  <2> QED BY <1>0, <1>1, <1>2, <2>1 DEF AppliedIsPrefix
<1> QED BY <1>2, <1>6, <1>7, <1>8, <1>9, <1>10 DEF JInv

\* A driver is dropped, or the tick picks up what no driver is left for: the commit loop
\* where the commit point has reached the pipeline, the walk where it has not.
LEMMA DriverKeeps ==
    ASSUME IInv, IInv', JInv,
           \/ \E d \in Drivers : cancel_driver(d)
           \/ resume_stranded_commits \/ commit_journal \/ enter_view_change
    PROVE  JInv'
<1>1. /\ UNCHANGED <<minted, prepare_queue, journal, tasks, commit_min, commit_max, applied>>
      /\ is_primary' => is_primary /\ sequencer' = sequencer
      /\ loopback' = loopback \/ loopback' = {}
  BY DEF cancel_driver, resume_stranded_commits, commit_journal, enter_view_change, frontier,
         queues, commits, is_primary
<1>2. Still' /\ Aligned' = Aligned
  BY <1>1, StillUntouched
<1>3. TasksOwnTheirPrepare'
  BY <1>1, <1>2 DEF JInv, TasksOwnTheirPrepare, Depth
<1>4. DriversTakeTurns'
  <2>1. CASE enter_view_change \/ \E d \in Drivers : cancel_driver(d)
    <3>1. \A e \in Drivers : driver'[e] = driver[e] \/ driver'[e].mode \in {"idle", "drain"}
      BY <2>1, StateFacts DEF enter_view_change, cancel_driver, Idle
    <3> QED BY <1>1, <1>2, <3>1, TurnsKept
  <2>2. CASE resume_stranded_commits
    <3>1. PICK next : next = peek_committable_head(prepare_queue, commit_min, commit_max)
      OBVIOUS
    <3>2. /\ next.mode \in {"commit", "drain"}
          /\ next.mode = "commit" => Aligned /\ next.hdr.op <= commit_max
      BY <3>1 DEF peek_committable_head, Aligned, OpAt
    <3>3. \A b \in Drivers : driver'[b] = driver[b] \/ driver'[b] = next
      BY <2>2, <3>1, StateFacts DEF resume_stranded_commits
    <3> QED BY <1>1, <1>2, <3>2, <3>3 DEF JInv, DriversTakeTurns
  <2>3. CASE commit_journal
    <3>1. PICK next : next = walk_from(prepare_queue, commit_min, commit_max)
      OBVIOUS
    <3>2. commit_min \in Nat /\ commit_max \in Nat
      BY StateFacts
    <3>3. /\ next.mode = "walk" /\ commit_min < commit_max /\ next.hdr.op = commit_min + 1
          /\ prepare_queue # <<>> => OpAt(1) # commit_min + 1
      BY <2>3, <3>1, <3>2, WalkStays DEF commit_journal
    <3>4. ~Aligned
      BY <3>2, <3>3 DEF Aligned
    <3>5. \A b \in Drivers : driver'[b] = driver[b] \/ (b = Pump /\ driver'[b] = next)
      BY <2>3, <3>1, StateFacts DEF commit_journal
    <3> QED BY <1>1, <1>2, <3>3, <3>4, <3>5 DEF JInv, DriversTakeTurns
  <2> QED BY <2>1, <2>2, <2>3
<1> QED BY <1>2, <1>3, <1>4 DEF JInv, Still

-----------------------------------------------------------------------------
(* The inductive invariant *)

\* The rebuilt pipeline starts just above the commit point and its entries are in the journal.
LEMMA InitJInv == Init => JInv
<1> SUFFICES ASSUME Init PROVE JInv
  OBVIOUS
<1>a. PICK head \in 0..MaxInherited : \E max, recovery \in 0..head : \E min \in 0..max :
          InitFrom(head, max, recovery, min)
  BY Zenon DEF Init, InitFrom
<1>b. PICK max \in 0..head, recovery \in 0..head : \E min \in 0..max :
          InitFrom(head, max, recovery, min)
  BY <1>a, Zenon
<1>c. PICK min \in 0..max : InitFrom(head, max, recovery, min)
  BY <1>b, Zenon
<1>1. /\ sequencer = head /\ minted = head
      /\ prepare_queue = rebuild_pipeline_entries(max, head)
      /\ journal = {Inherited(i) : i \in 1..head}
      /\ tasks = {} /\ loopback = {}
      /\ commit_min = min /\ commit_max = max
      /\ applied = [i \in 1..min |-> i]
      /\ driver = [d \in Drivers |-> Idle]
  BY <1>c DEF InitFrom
<1>2. head \in Nat /\ max \in Nat /\ min \in Nat /\ head - max \in Nat /\ min <= max
  BY PipelineAssumption
<1>3. IInv
  BY InitIInv
<1>n. PICK n \in Nat : n = head - max
  BY <1>2
<1> DEFINE Entry(i) == [hdr |-> Inherited(max + i), acks |-> {Self}, quorum |-> FALSE]
<1>4. /\ Depth = n
      /\ \A i \in 1..n : prepare_queue[i] = Entry(i)
  <2>1. prepare_queue = [i \in 1..n |-> Entry(i)]
    BY <1>1, <1>n DEF rebuild_pipeline_entries
  <2>2. DOMAIN prepare_queue = 1..n /\ prepare_queue \in Seq(PipelineEntry)
    BY <1>3, <2>1, StateFacts
  <2>3. Depth = n
    BY <1>n, <2>2 DEF Depth
  <2> HIDE DEF Entry
  <2> QED BY <2>1, <2>3
<1>5. \A i \in 1..n : /\ OpAt(i) = max + i /\ prepare_queue[i].hdr = Inherited(max + i)
                      /\ prepare_queue[i].acks = {Self} /\ ~prepare_queue[i].quorum
  <2> SUFFICES ASSUME NEW i \in 1..n
               PROVE  /\ OpAt(i) = max + i /\ prepare_queue[i].hdr = Inherited(max + i)
                      /\ prepare_queue[i].acks = {Self} /\ ~prepare_queue[i].quorum
    OBVIOUS
  <2>1. prepare_queue[i] = Entry(i)
    BY <1>4
  <2>2. /\ prepare_queue[i].hdr = Inherited(max + i)
        /\ prepare_queue[i].acks = {Self} /\ ~prepare_queue[i].quorum
    BY <2>1
  <2>3. Inherited(max + i).op = max + i
    BY DEF Inherited
  <2> QED BY <2>2, <2>3 DEF OpAt
<1>6. \A i \in 1..n : max + i \in 1..head
  BY <1>2, <1>n
<1>7. \A i \in 1..head : Inherited(i) \in journal /\ Inherited(i).op = i /\ Inherited(i).checksum = i
  BY <1>1 DEF Inherited
<1>8. OpsAreConsecutive
  BY <1>2, <1>4, <1>5 DEF OpsAreConsecutive
<1>9. AckedIsJournaled
  <2>1. \A i \in 1..n : prepare_queue[i].hdr \in journal
    BY <1>5, <1>6, <1>7
  <2> QED BY <1>4, <1>5, <2>1 DEF AckedIsJournaled
<1>10. Window
  <2>1. \A op \in 1..max : Journaled(op)
    BY <1>2, <1>7 DEF Journaled
  <2>2. prepare_queue = <<>> <=> n = 0
    BY <1>3, <1>4, StateFacts
  <2>3. n # 0 => OpAt(1) = max + 1 /\ OpAt(n) = max + n
    BY <1>5, <1>n
  <2>4. \A i \in 1..n : ~(OpAt(i) <= max)
    BY <1>2, <1>5
  <2> QED BY <1>1, <1>2, <1>4, <1>n, <2>1, <2>2, <2>3, <2>4 DEF Window
<1>11. TasksOwnTheirPrepare
  <2>1. \A h \in journal : h.checksum <= minted
    BY <1>1, <1>7
  <2> QED BY <1>1, <2>1 DEF TasksOwnTheirPrepare
<1>12. DriversTakeTurns
  BY <1>1 DEF DriversTakeTurns, Idle
<1>13. AppliedIsPrefix
  <2>1. DOMAIN applied = 1..min /\ applied \in Seq(Nat)
    BY <1>1, <1>3, StateFacts
  <2> QED BY <1>1, <1>2, <2>1 DEF AppliedIsPrefix
<1> QED BY <1>8, <1>9, <1>10, <1>11, <1>12, <1>13 DEF JInv

\* Every step keeps the inductive invariant.
LEMMA NextJInv == IInv /\ IInv' /\ JInv /\ [Next]_vars => JInv'
<1> SUFFICES ASSUME IInv, IInv', JInv, [Next]_vars PROVE JInv'
  OBVIOUS
<1>1. CASE Next
  <2>1. CASE \E c \in Clients : on_request(c) \/ submit_register_in_process(c)
    BY <2>1, RequestKeeps
  <2>2. CASE \E t \in tasks : acquire_gate(t) \/ begin_append(t) \/ append_ok(t)
                              \/ append_failed(t)
    BY <2>2, BeforeAppendKeeps, AppendOkKeeps, AppendFailedKeeps
  <2>3. CASE \E t \in tasks, d \in Drivers : finish_replicate(t, d)
    BY <2>3, FinishKeeps
  <2>4. CASE \/ \E r \in Replicas, h \in journal : backup_ack(r, h)
             \/ \E d \in Drivers, h \in loopback : drain_loopback(d, h)
             \/ \E h \in journal : repair_primary_self_acks(h)
    BY <2>4, AckStepsKeepTurns
  <2>5. CASE \E d \in Drivers : commit_head(d) \/ drain_request_queue(d) \/ walk_apply(d)
    BY <2>5, CommitHeadKeeps, DrainKeeps, WalkKeeps
  <2>6. CASE \/ \E d \in Drivers : cancel_driver(d)
             \/ resume_stranded_commits \/ commit_journal \/ enter_view_change
    BY <2>6, DriverKeeps
  <2> QED BY <1>1, <2>1, <2>2, <2>3, <2>4, <2>5, <2>6 DEF Next
<1>2. CASE UNCHANGED vars
  <2>1. Still' /\ Aligned' = Aligned
    BY <1>2, StillUntouched DEF vars, is_primary
  <2>2. TasksOwnTheirPrepare' /\ DriversTakeTurns'
    BY <1>2, <2>1 DEF vars, JInv, TasksOwnTheirPrepare, DriversTakeTurns, Depth
  <2> QED BY <2>1, <2>2 DEF JInv, Still
<1> QED BY <1>1, <1>2

\* Both inductive invariants hold throughout.
LEMMA CommitInvariant == Spec => [](IInv /\ JInv)
<1>1. IInv /\ JInv /\ [Next]_vars => (IInv /\ JInv)'
  BY NextIInv, NextJInv
<1> QED BY <1>1, InitIInv, InitJInv, PTL DEF Spec

-----------------------------------------------------------------------------
(* The theorems *)

\* A committed op that is not applied yet is in the journal, and the driver whose turn
\* it is can reach it: commit_committable_prefix never misses a body, and no commit is
\* left where neither the loop nor the walk looks.
THEOREM CommittedStaysReachable == Spec => []CommittedIsReachable
<1>1. IInv /\ JInv => CommittedIsReachable
  <2> SUFFICES ASSUME IInv, JInv, NEW op \in (commit_min + 1)..commit_max
               PROVE  /\ Journaled(op)
                      /\ \/ prepare_queue = <<>>
                         \/ prepare_queue[1].hdr.op > op
                         \/ \E i \in 1..Len(prepare_queue) :
                               prepare_queue[i].hdr.op = op /\ prepare_queue[i].hdr \in journal
    BY DEF CommittedIsReachable
  <2>1. commit_min \in Nat /\ commit_max \in Nat /\ op \in Nat /\ op \in 1..commit_max
    BY StateFacts
  <2>2. Journaled(op)
    BY <2>1 DEF JInv, Window
  <2>3. CASE prepare_queue # <<>> /\ OpAt(1) <= op
    <3>n. PICK n \in Nat : n = Depth
      BY StateFacts
    <3>1. /\ n > 0 /\ OpAt(1) \in Nat /\ OpAt(n) \in Nat /\ OpAt(n) + 1 = OpAt(1) + n
          /\ commit_max <= OpAt(n)
      BY <2>3, <3>n, StateFacts DEF JInv, OpsAreConsecutive, Window
    <3>2. PICK i \in 1..n : i = op - OpAt(1) + 1
      BY <2>1, <2>3, <3>1
    <3>3. OpAt(i) \in Nat /\ OpAt(i) + 1 = OpAt(1) + i
      BY <3>1, <3>n, StateFacts DEF JInv, OpsAreConsecutive
    <3>4. OpAt(i) = op
      BY <2>1, <3>1, <3>2, <3>3
    <3>5. prepare_queue[i].quorum
      BY <2>1, <2>3, <3>4, <3>n DEF JInv, Window
    <3>6. prepare_queue[i].hdr \in journal
      BY <3>5, <3>n DEF JInv, AckedIsJournaled
    <3> QED BY <2>2, <3>4, <3>6, <3>n DEF OpAt, Depth
  <2>4. CASE prepare_queue # <<>> /\ ~(OpAt(1) <= op)
    <3>1. OpAt(1) \in Nat
      BY <2>4, StateFacts
    <3> QED BY <2>1, <2>2, <2>4, <3>1 DEF OpAt
  <2> QED BY <2>2, <2>3, <2>4
<1> QED BY <1>1, CommitInvariant, PTL

\* Whoever is about to apply an op is about to apply the one after commit_min, whatever
\* the other drivers did while it awaited the journal: the assert of advance_commit_min.
THEOREM CommitMinIsSequential == Spec => []AdvanceIsSequential
<1>1. IInv /\ JInv => AdvanceIsSequential
  BY DEF JInv, AdvanceIsSequential, DriversTakeTurns, Aligned, OpAt
<1> QED BY <1>1, CommitInvariant, PTL

\* A rollback whose op is still the last one minted finds its own prepare at the tail:
\* the TailMismatch exit of rollback_pipelined_prepare is unreachable.
THEOREM RollbackHitsItsTail == Spec => []RollbackFindsItsTail
<1>1. IInv /\ JInv => RollbackFindsItsTail
  <2> SUFFICES ASSUME IInv, JInv, NEW t \in tasks,
                      is_primary, t.stage = "append", sequencer = t.hdr.op
               PROVE  prepare_queue # <<>> /\ prepare_queue[Len(prepare_queue)].hdr = t.hdr
    BY DEF RollbackFindsItsTail
  <2>n. PICK n \in Nat : n = Depth
    BY StateFacts
  <2>1. PICK i \in 1..n : prepare_queue[i].hdr = t.hdr
    BY <2>n DEF JInv, TasksOwnTheirPrepare
  <2>2. n \in 1..n /\ prepare_queue # <<>>
    BY <2>1, <2>n, StateFacts
  <2>3. OpAt(n) = sequencer
    BY <2>2, <2>n DEF IInv, PipelineIsChain, OpAt, Depth
  <2>4. i = n
    BY <2>1, <2>2, <2>3, <2>n, OpNamesEntry DEF JInv, OpAt
  <2> QED BY <2>1, <2>2, <2>4, <2>n DEF Depth
<1> QED BY <1>1, CommitInvariant, PTL

\* How an entry may leave the pipeline in a step.
Leaves(i) ==
    \/ \E j \in 1..Len(prepare_queue') : prepare_queue'[j].hdr = prepare_queue[i].hdr
    \/ /\ prepare_queue[i].hdr.op <= commit_min'
       /\ applied'[prepare_queue[i].hdr.op] = prepare_queue[i].hdr.checksum
    \/ prepare_queue[i].acks = {} /\ prepare_queue[i].hdr \notin journal'

\* A step that leaves the pipeline alone, or only appends to it, keeps every entry.
LEMMA AppendLosesNothing ==
    ASSUME IInv, NEW e \in PipelineEntry, NEW i \in 1..Depth,
           prepare_queue' = prepare_queue \/ prepare_queue' = Append(prepare_queue, e)
    PROVE  Leaves(i)
<1>1. prepare_queue \in Seq(PipelineEntry) /\ Depth \in Nat
  BY StateFacts
<1>2. i \in 1..Len(prepare_queue') /\ prepare_queue'[i] = prepare_queue[i]
  BY <1>1 DEF Depth
<1> QED BY <1>2 DEF Leaves

\* An ack changes no header.
LEMMA AckLosesNothing ==
    ASSUME IInv, NEW d, NEW r \in Replicas, NEW h, on_ack(d, r, h), NEW i \in 1..Depth
    PROVE  Leaves(i)
<1>1. PICK k \in 1..Len(prepare_queue) :
          prepare_queue' = [prepare_queue EXCEPT ![k] = add_ack(prepare_queue[k], r)]
  BY Zenon DEF on_ack
<1>2. add_ack(prepare_queue[k], r).hdr = prepare_queue[k].hdr
  BY Zenon DEF add_ack
<1>3. prepare_queue \in Seq(PipelineEntry)
  BY StateFacts
<1>4. i \in 1..Len(prepare_queue') /\ prepare_queue'[i].hdr = prepare_queue[i].hdr
  BY <1>1, <1>2, <1>3 DEF Depth
<1> QED BY <1>4 DEF Leaves

\* The head that is popped has been applied at its op.
LEMMA PopApplies ==
    ASSUME IInv, IInv', JInv, NEW d \in Drivers, commit_head(d), NEW i \in 1..Depth
    PROVE  Leaves(i)
<1>n. PICK n \in Nat : n = Depth
  BY StateFacts
<1>0. prepare_queue \in Seq(PipelineEntry) /\ Len(prepare_queue) = n /\ i \in 1..n
  BY <1>n, StateFacts DEF Depth
<1>1. CASE prepare_queue # <<>> /\ prepare_queue[1].hdr = driver[d].hdr
  <2>1. /\ prepare_queue' = Tail(prepare_queue) /\ commit_min' = driver[d].hdr.op
        /\ applied' = Append(applied, driver[d].hdr.checksum)
    BY <1>1 DEF commit_head
  <2>2. driver[d].hdr.op = commit_min + 1
    BY <1>1, PopKeeps
  <2>3. CASE i = 1
    <3>1. applied \in Seq(Nat) /\ Len(applied) = commit_min /\ driver[d].hdr.checksum \in Nat
          /\ commit_min \in Nat
      BY StateFacts, DriverFields DEF JInv, AppliedIsPrefix
    <3>2. applied'[commit_min + 1] = driver[d].hdr.checksum
      BY <2>1, <3>1
    <3>3. prepare_queue[i].hdr = driver[d].hdr
      BY <1>1, <2>3
    <3>4. /\ prepare_queue[i].hdr.op <= commit_min'
          /\ applied'[prepare_queue[i].hdr.op] = prepare_queue[i].hdr.checksum
      BY <2>1, <2>2, <3>1, <3>2, <3>3
    <3> QED BY <3>4 DEF Leaves
  <2>4. CASE i # 1
    <3>1. i - 1 \in 1..(n - 1) /\ i - 1 + 1 = i
      BY <1>0, <2>4
    <3>2. Len(prepare_queue') = n - 1 /\ prepare_queue'[i - 1] = prepare_queue[i]
      BY <1>0, <1>1, <2>1, <3>1
    <3> QED BY <3>1, <3>2 DEF Leaves
  <2> QED BY <2>3, <2>4
<1>2. CASE ~(prepare_queue # <<>> /\ prepare_queue[1].hdr = driver[d].hdr)
  <2>1. prepare_queue' = prepare_queue
    BY <1>2 DEF commit_head
  <2> QED BY <1>0, <2>1 DEF Leaves
<1> QED BY <1>1, <1>2

\* The tail that is rolled back was never acked and is not in the journal.
LEMMA RollbackIsUnacked ==
    ASSUME IInv, JInv, NEW t \in tasks, append_failed(t), NEW i \in 1..Depth
    PROVE  Leaves(i)
<1>n. PICK n \in Nat : n = Depth
  BY StateFacts
<1>0. prepare_queue \in Seq(PipelineEntry) /\ Len(prepare_queue) = n /\ i \in 1..n
  BY <1>n, StateFacts DEF Depth
<1>1. t.stage = "append" /\ journal' = journal /\ rollback_pipelined_prepare(t.hdr)
  BY DEF append_failed
<1>2. CASE prepare_queue' = prepare_queue
  BY <1>0, <1>2 DEF Leaves
<1>3. CASE prepare_queue' # prepare_queue
  <2>1. prepare_queue[n].hdr = t.hdr /\ prepare_queue' = SubSeq(prepare_queue, 1, n - 1)
    BY <1>0, <1>1, <1>3 DEF rollback_pipelined_prepare
  <2>2. CASE i = n
    <3>1. t.hdr \notin journal
      BY <1>1 DEF JInv, TasksOwnTheirPrepare
    <3>2. prepare_queue[n].acks = {}
      BY <1>0, <1>n, <2>1, <3>1 DEF JInv, AckedIsJournaled
    <3> QED BY <1>1, <2>1, <2>2, <3>1, <3>2 DEF Leaves
  <2>3. CASE i # n
    <3>1. i \in 1..(n - 1)
      BY <1>0, <2>3
    <3>2. Len(prepare_queue') = n - 1 /\ prepare_queue'[i] = prepare_queue[i]
      BY <1>0, <2>1, <3>1
    <3> QED BY <3>1, <3>2 DEF Leaves
  <2> QED BY <2>2, <2>3
<1> QED BY <1>2, <1>3

\* No step takes a prepare out of the pipeline otherwise.
LEMMA StepLeaves ==
    ASSUME IInv, IInv', JInv, Next, NEW i \in 1..Depth
    PROVE  Leaves(i)
<1>1. ASSUME NEW c \in Clients, push_prepare_entry(c) PROVE Leaves(i)
  <2> DEFINE h == [op |-> sequencer + 1, checksum |-> minted + 1,
                   parent |-> last_checksum, client |-> c]
             e == [hdr |-> h, acks |-> {}, quorum |-> FALSE]
  <2>1. prepare_queue' = Append(prepare_queue, e)
    BY <1>1 DEF push_prepare_entry
  <2>2. h \in Header
    BY DEF IInv, TypeOK, Header
  <2>3. e \in PipelineEntry
    BY <2>2 DEF PipelineEntry
  <2> HIDE DEF e
  <2> QED BY <2>1, <2>3, AppendLosesNothing
<1>2. ASSUME prepare_queue' = prepare_queue PROVE Leaves(i)
  BY <1>2 DEF Leaves, Depth
<1>3. CASE \E c \in Clients : on_request(c) \/ submit_register_in_process(c)
  BY <1>1, <1>2, <1>3 DEF on_request, submit_register_in_process
<1>4. CASE \E t \in tasks : acquire_gate(t) \/ begin_append(t) \/ append_ok(t)
  BY <1>2, <1>4 DEF acquire_gate, begin_append, append_ok, queues
<1>5. CASE \E t \in tasks : append_failed(t)
  BY <1>5, RollbackIsUnacked
<1>6. CASE \E t \in tasks, d \in Drivers : finish_replicate(t, d)
  BY <1>2, <1>6 DEF finish_replicate, queues
<1>7. CASE \/ \E r \in Replicas, h \in journal : backup_ack(r, h)
           \/ \E d \in Drivers, h \in loopback : drain_loopback(d, h)
           \/ \E h \in journal : repair_primary_self_acks(h)
  <2>1. (\E d, h : \E r \in Replicas : on_ack(d, r, h)) \/ prepare_queue' = prepare_queue
    BY <1>7, PipelineAssumption DEF backup_ack, drain_loopback, repair_primary_self_acks, queues
  <2> QED BY <1>2, <2>1, AckLosesNothing
<1>8. CASE \E d \in Drivers : commit_head(d)
  BY <1>8, PopApplies
<1>9. CASE \E d \in Drivers : drain_request_queue(d)
  <2>1. prepare_queue' = prepare_queue \/ (request_queue # <<>> /\ push_prepare_entry(Head(request_queue)))
    BY <1>9 DEF drain_request_queue, queues
  <2>2. request_queue # <<>> => Head(request_queue) \in Clients
    BY DEF IInv, TypeOK
  <2> QED BY <1>1, <1>2, <2>1, <2>2
<1>10. CASE \/ \E d \in Drivers : cancel_driver(d) \/ walk_apply(d)
            \/ resume_stranded_commits \/ commit_journal \/ enter_view_change
  BY <1>2, <1>10 DEF cancel_driver, walk_apply, resume_stranded_commits, commit_journal,
                     enter_view_change, queues
<1> QED BY <1>3, <1>4, <1>5, <1>6, <1>7, <1>8, <1>9, <1>10 DEF Next

\* A prepare leaves the pipeline only by being applied at its op or, unacked by anyone and
\* absent from the journal, by a rollback: no interleaving of drivers, failed appends and
\* late acks loses one that some replica may have counted on.
THEOREM PreparesLeaveAppliedOrUnacked == Spec => LeavesAppliedOrUnacked
<1>1. IInv /\ JInv /\ IInv' /\ [Next]_vars =>
          [\A i \in 1..Len(prepare_queue) :
              LET e == prepare_queue[i]
              IN  \/ \E j \in 1..Len(prepare_queue') : prepare_queue'[j].hdr = e.hdr
                  \/ e.hdr.op <= commit_min' /\ applied'[e.hdr.op] = e.hdr.checksum
                  \/ e.acks = {} /\ e.hdr \notin journal']_vars
  BY StepLeaves DEF Leaves, Depth
<1> QED BY <1>1, CommitInvariant, PTL DEF Spec, LeavesAppliedOrUnacked
=============================================================================
