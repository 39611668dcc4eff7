---------------------------- MODULE PrepareJournal ----------------------------
(***************************************************************************)
(* The metadata WAL: an append-only file of prepares, an index of          *)
(* SlotCount slots over it, and the rewrites that drop a prefix (drain) or *)
(* a superseded run (remove_range).                                        *)
(*                                                                         *)
(* Every entry takes one cell of the file, whatever its size.  A cell is   *)
(* durable once a sync of the file returned after it was written.  The     *)
(* callers are in the model as far as they decide what is appended: two    *)
(* histories that part at op Fork, the second adopted with a later view.   *)
(***************************************************************************)
EXTENDS Integers, SequencesExt

CONSTANTS SlotCount,        \* slots of the index
          MaxOp,            \* bound on the ops appended
          Fork,             \* the first op on which the two histories differ
          MaxCrashes, MaxErrors,  \* bounds on crashes and on failed I/O calls
          MaxSyncErrors,    \* bound on syncs of an append that fail
          LedFirstView      \* was the replica primary of the first view: its appends then ran
                            \* in submit tasks, which the pump does not wait for

ASSUME JournalAssumption ==
    /\ {SlotCount, MaxOp, Fork} \subseteq Nat \ {0}
    /\ {MaxCrashes, MaxErrors, MaxSyncErrors} \subseteq Nat
    /\ LedFirstView \in BOOLEAN

VARIABLES wal,          \* the file at the journal's path
          stale,        \* the file a crash may bring back in its place, or NoFile
          gen, fd,      \* which file is at the path, and which one is open
          tail,         \* write_offset
          index,        \* headers and offsets of the slots
          last_op, snapshot_op, poisoned,
          appends,      \* appends that wait for their write or their sync
          rewrite,      \* the rewrite in flight (drain_in_flight), or None
          refused,      \* the last open refused the file
          view,         \* the history the replica follows
          ckpt,         \* the op of the durable checkpoint
          crashes, errors, sync_errors

storage == <<wal, stale, gen, fd, tail>>
memory == <<index, last_op, snapshot_op, poisoned>>
caller == <<view, ckpt>>
faults == <<crashes, errors, sync_errors>>
vars == <<storage, memory, appends, rewrite, refused, caller, faults>>

Entry(op, h) == [op |-> op, h |-> IF op < Fork THEN 1 ELSE h]
Entries == {Entry(op, h) : op \in 1 .. MaxOp, h \in 1 .. 2}
Parent(e) == Entry(e.op - 1, e.h)
Torn == [op |-> 0, h |-> 0]      \* a cell no entry can be read from
None == [none |-> TRUE]
NoFile == <<None>>

slot_for_op(op) == op % SlotCount
Cell(e, synced) == [e |-> e, synced |-> synced]
Held == {index[s] : s \in DOMAIN index} \ {None}
resident(op) == \E x \in Held : x.e.op = op
Divergent(e) == view = 2 /\ e.op >= Fork /\ e.h = 1

------------------------------------------------------------------------------
\* The scan of a file at boot.  A file is a sequence of entries and torn cells.

ChainBreak(f, i) == /\ i > 1
                    /\ f[i - 1] # Torn /\ f[i] # Torn
                    /\ f[i].op = f[i - 1].op + 1
                    /\ f[i - 1] # Parent(f[i])

Damaged(f) == {i \in DOMAIN f : f[i] = Torn \/ ChainBreak(f, i)}
FirstDamage(f) == CHOOSE i \in Damaged(f) : \A j \in Damaged(f) : i <= j

\* The entries before the first damage: what the scan indexes.
scanned(f) == IF Damaged(f) = {} THEN f ELSE SubSeq(f, 1, FirstDamage(f) - 1)

\* Damage is cut off only at the tail.  Where the header of the damaged cell can be read
\* (a broken chain, or a torn cell that is "readable") anything behind it refuses the file,
\* otherwise a complete entry does (truncate_or_fail).
damage_refused(f, readable) ==
    /\ Damaged(f) # {}
    /\ \E i \in FirstDamage(f) + 1 .. Len(f) :
           f[i] # Torn \/ readable \/ f[FirstDamage(f)] # Torn

\* The entry that occupies slot s after the first n entries of f.
Occupant(f, s, n) ==
    LET I == {i \in 1 .. n : slot_for_op(f[i].op) = s}
    IN IF I = {} THEN None ELSE LET i == CHOOSE i \in I : \A j \in I : j <= i
                                IN [e |-> f[i], at |-> i]

collision_refused(f) ==
    \E i \in DOMAIN scanned(f) :
        LET x == Occupant(f, slot_for_op(f[i].op), i - 1)
        IN x # None /\ x.e.op # f[i].op /\ x.e.op > ckpt

scan_refuses(f, readable) == damage_refused(f, readable) \/ collision_refused(f)

\* The files a crash may leave: of the cells not synced any may be torn, and any
\* number of them may be missing at the end.
Written(cells) == IF \E i \in DOMAIN cells : cells[i].synced
                  THEN CHOOSE n \in DOMAIN cells :
                          /\ cells[n].synced
                          /\ \A i \in n + 1 .. Len(cells) : ~cells[i].synced
                  ELSE 0
ImagesOf(cells) ==
    {[i \in 1 .. n |-> IF i \in T THEN Torn ELSE cells[i].e] :
        n \in Written(cells) .. Len(cells),
        T \in SUBSET {i \in DOMAIN cells : ~cells[i].synced}}
Images == ImagesOf(wal) \cup IF stale = NoFile THEN {} ELSE ImagesOf(stale)

------------------------------------------------------------------------------
Init ==
    /\ wal = <<>> /\ stale = NoFile /\ gen = 0 /\ fd = 0 /\ tail = 0
    /\ index = [s \in 0 .. SlotCount - 1 |-> None]
    /\ last_op = 0 /\ snapshot_op = 0 /\ poisoned = FALSE
    /\ appends = {} /\ rewrite = None /\ refused = FALSE
    /\ view = 1 /\ ckpt = 0
    /\ crashes = 0 /\ errors = 0 /\ sync_errors = 0

Usable == ~refused /\ ~poisoned
\* The journal gate, which on_replicate holds through its checkpoint and its append.
\* A replica that led the first view runs that section in submit tasks until it is deposed.
\* All that a backup does to the journal, the pump does, one after the other, and there the
\* gate is always free.
Gate == appends = {} /\ rewrite = None /\ (LedFirstView => view = 1)

\* A plausible slip: an entry that is not in a snapshot gives way.
evicts_anything(op) == TRUE

\* append's collision check: only a snapshotted entry gives up its slot.
slot_is_free(op) ==
    LET x == index[slot_for_op(op)] IN IF x = None THEN TRUE ELSE x.e.op <= snapshot_op

\* append reserves its offset before it waits for the write.
append(e) ==
    /\ Usable /\ slot_is_free(e.op)
    /\ tail' = tail + 1
    /\ appends' = appends \cup {[e |-> e, at |-> tail + 1, gen |-> fd, written |-> FALSE]}
    /\ UNCHANGED <<wal, stale, gen, fd, memory, rewrite, refused, caller, faults>>

\* A backup appends the op after its head, a primary the op it prepared.  Neither asks
\* whether the head is superseded: the chain is checked within one view only.
on_replicate ==
    LET op == (IF last_op > snapshot_op THEN last_op ELSE snapshot_op) + 1
    IN Gate /\ op <= MaxOp /\ append(Entry(op, view))

\* A repaired prepare of the adopted log lands at any op above the checkpoint that is not
\* resident, superseded entries below it or not.  The pump appends it, without the gate.
repair ==
    /\ IF LedFirstView THEN view = 2 /\ Cardinality(appends) < 2 ELSE Gate
    /\ \E op \in ckpt + 1 .. MaxOp :
         ~resident(op) /\ (\A a \in appends : a.e.op # op) /\ append(Entry(op, view))

Put(cells, at, c) == [i \in 1 .. (IF at > Len(cells) THEN at ELSE Len(cells)) |->
                         IF i = at THEN c
                         ELSE IF i <= Len(cells) THEN cells[i] ELSE Cell(Torn, FALSE)]

\* The write lands in the file that was open when it was issued.
write_append(a) ==
    /\ a \in appends /\ ~a.written /\ ~refused
    /\ wal' = IF a.gen = gen THEN Put(wal, a.at, Cell(a.e, FALSE)) ELSE wal
    /\ appends' = (appends \ {a}) \cup {[a EXCEPT !.written = TRUE]}
    /\ UNCHANGED <<stale, gen, fd, tail, memory, rewrite, refused, caller, faults>>

\* The append returns: its entry is indexed.
Indexed(a) ==
    /\ a \in appends /\ a.written /\ ~refused
    /\ index' = [index EXCEPT ![slot_for_op(a.e.op)] = [e |-> a.e, at |-> a.at]]
    /\ last_op' = IF a.e.op > last_op THEN a.e.op ELSE last_op
    /\ appends' = appends \ {a}
    /\ UNCHANGED <<stale, gen, fd, tail, snapshot_op, poisoned, rewrite, refused, caller, faults>>

\* A plausible slip: the entry is indexed without the sync.
index_unsynced(a) == Indexed(a) /\ UNCHANGED wal

\* The sync covers all that was written to the open file, and the entry is indexed.
fsync(a) == /\ Indexed(a)
            /\ wal' = IF fd = gen THEN [i \in DOMAIN wal |-> [wal[i] EXCEPT !.synced = TRUE]]
                                  ELSE wal

Fails(a) == /\ a \in appends /\ ~refused
            /\ appends' = appends \ {a}
            /\ UNCHANGED <<stale, gen, fd, memory, rewrite, refused, caller, crashes>>

\* The write fails, perhaps half done.  Its reservation is given back when no later
\* append reserved past it.
write_fails(a) ==
    /\ Fails(a) /\ ~a.written /\ errors < MaxErrors /\ errors' = errors + 1
    /\ wal' \in {wal, IF a.gen = gen THEN Put(wal, a.at, Cell(Torn, FALSE)) ELSE wal}
    /\ tail' = IF tail = a.at THEN a.at - 1 ELSE tail
    /\ UNCHANGED sync_errors

\* The sync fails: the bytes stay where they are, and no slot points at them.
fsync_fails(a) ==
    /\ Fails(a) /\ a.written /\ sync_errors < MaxSyncErrors /\ sync_errors' = sync_errors + 1
    /\ UNCHANGED <<wal, tail, errors>>

------------------------------------------------------------------------------
\* Rewrites.

\* The entries of a set of slots, in the order of their ops.
SortedByOp(S) == CHOOSE q \in [1 .. Cardinality(S) -> S] :
                     \A i, j \in DOMAIN q : i < j => q[i].e.op < q[j].e.op

begin_rewrite(kind, from, to) ==
    /\ Usable /\ rewrite = None
    /\ rewrite' = [kind |-> kind, from |-> from, to |-> to, renamed |-> FALSE,
                   live |-> SortedByOp({x \in Held : ~(x.e.op \in from .. to)})]
    /\ UNCHANGED <<storage, memory, appends, refused, caller, faults>>

\* The prefix below the checkpoint is dropped; the checkpointed op itself is kept.
drain == /\ Gate /\ ckpt - 1 > snapshot_op
         /\ begin_rewrite("drain", 0, ckpt - 1)

\* The pump drops superseded entries, without the gate: a run of them above which all that
\* is held belongs to the adopted log, ...
remove_range ==
    /\ LedFirstView \/ appends = {}
    /\ \E first \in Fork .. MaxOp : \E last \in first .. MaxOp :
         /\ \A op \in first .. last : \E x \in Held : x.e.op = op /\ Divergent(x.e)
         /\ \A x \in Held : x.e.op > last => ~Divergent(x.e)
         /\ begin_rewrite("remove_range", first, last)

\* ... or all that is above the head of the adopted log, with what was appended there since.
truncate_from ==
    /\ LedFirstView \/ appends = {}
    /\ \E above_head \in Fork .. MaxOp :
         /\ \E x \in Held : x.e.op >= above_head /\ Divergent(x.e)
         /\ begin_rewrite("remove_range", above_head, MaxOp)

\* The live entries are copied to a synced temporary file, renamed over the journal.
rename ==
    /\ rewrite # None /\ ~rewrite.renamed /\ ~refused
    /\ wal' = [i \in DOMAIN rewrite.live |-> Cell(wal[rewrite.live[i].at].e, TRUE)]
    /\ stale' = wal
    /\ gen' = gen + 1
    /\ rewrite' = [rewrite EXCEPT !.renamed = TRUE]
    /\ UNCHANGED <<fd, tail, memory, appends, refused, caller, faults>>

InRewrite(x) == x.e.op \in rewrite.from .. rewrite.to
NewOffset(x) == IF \E i \in DOMAIN rewrite.live : rewrite.live[i].e.op = x.e.op
                THEN CHOOSE i \in DOMAIN rewrite.live : rewrite.live[i].e.op = x.e.op
                ELSE x.at
Offsets == [x \in Held |-> NewOffset(x)]

Rewritten(offsets) ==
    /\ rewrite # None /\ rewrite.renamed /\ Usable
    /\ fd' = gen /\ tail' = Len(wal)
    /\ index' = [s \in DOMAIN index |->
                    IF index[s] = None THEN None
                    ELSE IF InRewrite(index[s]) THEN None
                    ELSE [index[s] EXCEPT !.at = offsets[index[s]]]]
    /\ snapshot_op' = IF rewrite.kind = "drain" /\ rewrite.to > snapshot_op
                      THEN rewrite.to ELSE snapshot_op
    /\ last_op' = IF rewrite.kind = "drain" THEN last_op
                  ELSE IF rewrite.live = <<>> THEN 0 ELSE Last(rewrite.live).e.op
    /\ rewrite' = None
    /\ UNCHANGED <<wal, gen, poisoned, appends, refused, caller, faults>>

\* Plausible slips: the directory is not synced; the offsets are those of the old file.
finish_undurable == Rewritten(Offsets) /\ UNCHANGED stale
finish_with_old_offsets == Rewritten([x \in Held |-> x.at]) /\ stale' = NoFile

\* The directory is synced, the file reopened and the index rebuilt.
finish_rewrite == Rewritten(Offsets) /\ stale' = NoFile

\* A failure before the rename leaves all as it was; one after it poisons the journal.
rewrite_fails ==
    /\ rewrite # None /\ Usable /\ errors < MaxErrors /\ errors' = errors + 1
    /\ poisoned' = rewrite.renamed
    /\ rewrite' = None
    /\ stale' \in {stale, IF rewrite.renamed THEN NoFile ELSE stale}
    /\ UNCHANGED <<wal, gen, fd, tail, index, last_op, snapshot_op, appends, refused, caller,
                   crashes, sync_errors>>

------------------------------------------------------------------------------
\* The node crashes and opens what the crash left.
open_with_slots ==
    /\ crashes < MaxCrashes /\ ~refused /\ crashes' = crashes + 1
    /\ \E f \in Images, readable \in BOOLEAN :
         LET kept == scanned(f) IN
         /\ refused' = scan_refuses(f, readable)
         /\ wal' = [i \in DOMAIN kept |-> Cell(kept[i], TRUE)]
         /\ tail' = Len(kept)
         /\ index' = [s \in DOMAIN index |-> Occupant(kept, s, Len(kept))]
         /\ last_op' = IF kept = <<>> THEN 0
                       ELSE CHOOSE op \in {kept[i].op : i \in DOMAIN kept} :
                                \A i \in DOMAIN kept : kept[i].op <= op
    /\ stale' = NoFile /\ fd' = gen /\ gen' = gen
    /\ snapshot_op' = ckpt /\ poisoned' = FALSE
    /\ appends' = {} /\ rewrite' = None
    /\ UNCHANGED <<caller, errors, sync_errors>>

\* The replica adopts the later history.  A backup does so in the pump.
adopt == /\ view = 1 /\ ~refused /\ ckpt < Fork
         /\ LedFirstView \/ Gate
         /\ view' = 2
         /\ UNCHANGED <<storage, memory, appends, rewrite, refused, ckpt, faults>>

\* A checkpoint of a prefix the replica holds and applied becomes durable.  It applies
\* nothing of the adopted log before all that this log supersedes is gone (commit_journal).
checkpoint ==
    /\ Gate /\ ~refused
    /\ \E op \in ckpt + 1 .. MaxOp :
         /\ op < Fork \/ (view = 2 /\ ~\E x \in Held : Divergent(x.e))
         /\ \A o \in ckpt + 1 .. op : \E x \in Held : x.e = Entry(o, view)
         /\ ckpt' = op
    /\ UNCHANGED <<storage, memory, appends, rewrite, refused, view, faults>>

Next == \/ on_replicate \/ repair
        \/ \E a \in appends : write_append(a) \/ fsync(a) \/ write_fails(a) \/ fsync_fails(a)
        \/ drain \/ remove_range \/ truncate_from \/ rename \/ finish_rewrite \/ rewrite_fails
        \/ open_with_slots \/ adopt \/ checkpoint

Spec == Init /\ [][Next]_vars

------------------------------------------------------------------------------
Files == Seq([e : Entries \cup {Torn}, synced : BOOLEAN])

\* Every variable has the shape the journal gives it, and the write offset stays
\* within the file.
TypeOK ==
    /\ wal \in Files /\ (stale = NoFile \/ stale \in Files)
    /\ gen \in Nat /\ fd \in Nat
    /\ tail \in Nat /\ (fd = gen => tail <= Len(wal) + Cardinality(appends))
    /\ \A s \in DOMAIN index : index[s] = None \/ index[s] \in [e : Entries, at : Nat \ {0}]
    /\ last_op \in 0 .. MaxOp /\ snapshot_op \in 0 .. MaxOp /\ ckpt \in 0 .. MaxOp
    /\ poisoned \in BOOLEAN /\ refused \in BOOLEAN /\ view \in {1, 2}
    /\ \A a \in appends : a \in [e : Entries, at : Nat \ {0}, gen : Nat, written : BOOLEAN]

\* Those who change the journal take turns.  Only on a replica deposed from the view it
\* led does an append of a submit task meet the repairs and removals of the pump.
Serial == LedFirstView => view = 1

\* A read through the index finds the entry the slot names, in the file that is open.
IndexReadsBack ==
    Serial /\ Usable /\ (rewrite = None \/ ~rewrite.renamed) =>
        \A x \in Held : x.at <= Len(wal) /\ wal[x.at].e = x.e

\* A superseded entry is held, and the adopted log was appended to nevertheless.
Superseding == \E x \in Held : Divergent(x.e)
Mixed == Superseding /\ \E y \in Held \cup appends : y.e.op >= Fork /\ y.e.h = 2

\* Whatever a crash leaves, the next boot accepts it: no run of appends, failed writes,
\* repairs out of order, rewrites and crashes makes the scan cry corruption.  (Two things
\* can: bytes that a failed sync left, and entries of the adopted log appended behind
\* superseded ones that are still held.  See the README.)
RebootIsAccepted ==
    Serial /\ ~refused /\ sync_errors = 0 /\ ~Mixed =>
        \A f \in Images, readable \in BOOLEAN : ~scan_refuses(f, readable)

\* An append that returned and that the replica may have acknowledged is read back at
\* every boot that accepts the file, until a checkpoint or the adopted view supersedes
\* it.  Of the adopted log the replica acknowledges nothing while it holds superseded
\* entries (send_prepare_ok asks for a proven log).  (Bytes of the first history that a
\* failed sync left do not chain to a repaired entry of the second; the README shows
\* what the scan then cuts off.)
CompletedSurvive ==
    Serial /\ ~refused /\ (sync_errors = 0 \/ view = 1) =>
        \A f \in Images, readable \in BOOLEAN : \A x \in Held :
            /\ ~scan_refuses(f, readable)
            /\ x.e.op > ckpt /\ (x.e.op < Fork \/ ~Superseding)
            => Contains(scanned(f), x.e)

\* After the last removal returned, no crash brings a removed entry back (bytes that a
\* failed sync left were never indexed).
RemovedStayRemoved ==
    Serial /\ Usable /\ rewrite = None /\ sync_errors = 0
    /\ (\A x \in Held \cup appends : ~Divergent(x.e)) =>
        \A f \in Images : \A i \in DOMAIN f : ~Divergent(f[i])
==============================================================================
