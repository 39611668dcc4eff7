------------------------------ MODULE Superblock ------------------------------
(***************************************************************************)
(* PingPongSuperblock: two files written alternately, each replaced by     *)
(* writing a temporary file, renaming it over the slot and syncing the     *)
(* directory.  The higher sequence wins when the store is opened.          *)
(*                                                                         *)
(* The payload is opaque to the store; here it is the number of the write, *)
(* so that "older" has a meaning.  A rename is visible at once and durable *)
(* only after the directory is synced: survives[s] is what a crash may     *)
(* leave in slot s.                                                        *)
(***************************************************************************)
EXTENDS Naturals, FiniteSets

CONSTANTS MaxWrites,   \* bound on the number of writes
          MaxCrashes,  \* bound on the number of crashes
          MaxRot       \* bound on the number of slots that decay

ASSUME SuperblockAssumption == MaxWrites \in Nat /\ MaxCrashes \in Nat /\ MaxRot \in Nat

VARIABLES file,      \* the content of each slot as a reader sees it
          survives,  \* the contents each slot may have after a crash
          store,     \* the open store, or Closed
          write,     \* the write in flight, or None
          orphan,    \* the rename of a dropped write the kernel may still execute, or None
          settled,   \* history: the newest payload acknowledged or read
          written,   \* history: how many writes were started
          crashes, rots

vars == <<file, survives, store, write, orphan, settled, written, crashes, rots>>

Slots == {"A", "B"}
other(s) == IF s = "A" THEN "B" ELSE "A"

None == [kind |-> "none"]
Absent == [kind |-> "absent", sequence |-> 0, payload |-> 0]
Corrupt == [kind |-> "corrupt", sequence |-> 0, payload |-> 0]
Record(sequence, payload) == [kind |-> "valid", sequence |-> sequence, payload |-> payload]
Closed == [open |-> FALSE]

Valid(c) == c.kind = "valid"

------------------------------------------------------------------------------
\* Reading and choosing.

sequence_of(c) == IF Valid(c) THEN c.sequence ELSE 0

has_unreadable_sequence(c) == c.kind = "corrupt"

\* The verdict on a pair of slots.
combine_slots(a, b) ==
    CASE Valid(a) /\ Valid(b) ->
            [kind |-> "present", payload |-> IF a.sequence >= b.sequence THEN a.payload ELSE b.payload]
      [] Valid(a) /\ b = Absent -> [kind |-> "present", payload |-> a.payload]
      [] a = Absent /\ Valid(b) -> [kind |-> "present", payload |-> b.payload]
      [] a = Absent /\ b = Absent -> [kind |-> "empty", payload |-> 0]
      [] OTHER -> [kind |-> "unreadable", payload |-> 0]

a_is_newest(a, b) == Valid(a) /\ (~Valid(b) \/ a.sequence >= b.sequence)

\* What open computes from the two slots.
open_store(a, b) ==
    [open          |-> TRUE,
     next_sequence |-> (IF sequence_of(a) >= sequence_of(b)
                        THEN sequence_of(a) ELSE sequence_of(b)) + 1,
     next_slot     |-> IF a_is_newest(a, b) THEN "B" ELSE "A",
     degraded      |-> has_unreadable_sequence(a) \/ has_unreadable_sequence(b)]

------------------------------------------------------------------------------
Init ==
    /\ file = [s \in Slots |-> Absent]
    /\ survives = [s \in Slots |-> {Absent}]
    /\ store = open_store(Absent, Absent)
    /\ write = None /\ orphan = None
    /\ settled = 0 /\ written = 0 /\ crashes = 0 /\ rots = 0

\* A plausible slip: the next write does not wait for the cleanup of a dropped one.
begin_write_at_once ==
    /\ store.open /\ ~store.degraded /\ write = None
    /\ written < MaxWrites /\ written' = written + 1
    /\ write' = [kind |-> "temp", slot |-> store.next_slot,
                 record |-> Record(store.next_sequence, written + 1)]
    /\ UNCHANGED <<file, survives, store, orphan, settled, crashes, rots>>

\* A writer enters under the superblock lock.  Creating the temporary file waits
\* for the permit a dropped write holds until its cleanup ran.
begin_write == orphan = None /\ begin_write_at_once

Renamed(s, record) ==
    /\ file' = [file EXCEPT ![s] = record]
    /\ survives' = [survives EXCEPT ![s] = @ \cup {record}]

\* The temporary file is written and synced, and renamed over the slot.
rename ==
    /\ write.kind = "temp"
    /\ Renamed(write.slot, write.record)
    /\ write' = [write EXCEPT !.kind = "renamed"]
    /\ UNCHANGED <<store, orphan, settled, written, crashes, rots>>

\* The directory is synced, which makes every rename in it durable, and the write returns:
\* the store aims at the other slot.
sync_directory ==
    /\ write.kind = "renamed"
    /\ survives' = [s \in Slots |-> {file[s]}]
    /\ store' = [store EXCEPT !.next_sequence = @ + 1, !.next_slot = other(@)]
    /\ settled' = write.record.payload
    /\ write' = None
    /\ UNCHANGED <<file, orphan, written, crashes, rots>>

\* An I/O error before the rename removes the temporary file; one after it leaves
\* the slot replaced.  The sequence and the slot of the next write stay as they were.
write_fails ==
    /\ write # None
    /\ write' = None
    /\ UNCHANGED <<file, survives, store, orphan, settled, written, crashes, rots>>

\* The future is dropped.  A rename already handed to the kernel may still happen.
drop_write ==
    /\ write # None
    /\ write' = None
    /\ orphan' = IF write.kind = "temp" THEN write ELSE None
    /\ UNCHANGED <<file, survives, store, settled, written, crashes, rots>>

late_rename ==
    /\ orphan # None
    /\ Renamed(orphan.slot, orphan.record)
    /\ orphan' = None
    /\ UNCHANGED <<store, write, settled, written, crashes, rots>>

\* The cleanup unlinks the temporary file, so that a later rename of it fails,
\* and gives up the permit.
cleanup ==
    /\ orphan # None
    /\ orphan' = None
    /\ UNCHANGED <<file, survives, store, write, settled, written, crashes, rots>>

\* Power fails: of the renames not yet synced, any may be lost.
crash ==
    /\ store.open /\ crashes < MaxCrashes
    /\ crashes' = crashes + 1
    /\ \E left \in [Slots -> UNION {survives[s] : s \in Slots}] :
         /\ \A s \in Slots : left[s] \in survives[s]
         /\ file' = left
         /\ survives' = [s \in Slots |-> {left[s]}]
    /\ store' = Closed /\ write' = None /\ orphan' = None
    /\ UNCHANGED <<settled, written, rots>>

\* A record that was once durable stops verifying while the node is down.
decay ==
    /\ ~store.open /\ rots < MaxRot
    /\ rots' = rots + 1
    /\ \E s \in Slots :
         /\ Valid(file[s])
         /\ file' = [file EXCEPT ![s] = Corrupt]
         /\ survives' = [survives EXCEPT ![s] = {Corrupt}]
    /\ UNCHANGED <<store, write, orphan, settled, written, crashes>>

\* The node boots on the record it finds; recovery refuses an unreadable one.
open_with_latest ==
    /\ ~store.open
    /\ store' = open_store(file["A"], file["B"])
    /\ LET found == combine_slots(file["A"], file["B"])
       IN settled' = IF found.kind = "unreadable" THEN settled ELSE found.payload
    /\ UNCHANGED <<file, survives, write, orphan, written, crashes, rots>>

\* The writer's part and the environment's.
Step == \/ begin_write \/ rename \/ sync_directory
        \/ open_with_latest

Fault == \/ write_fails \/ drop_write \/ late_rename \/ cleanup \/ crash \/ decay

Next == Step \/ Fault

Spec == Init /\ [][Next]_vars

------------------------------------------------------------------------------
Contents == {Absent, Corrupt} \cup
            {Record(n, p) : n \in 1 .. MaxWrites, p \in 1 .. MaxWrites}

\* Every variable has the shape the store gives it.
TypeOK ==
    /\ file \in [Slots -> Contents]
    /\ survives \in [Slots -> SUBSET Contents]
    /\ \/ store = Closed
       \/ store \in [open : {TRUE}, next_sequence : 1 .. MaxWrites + 1,
                     next_slot : Slots, degraded : BOOLEAN]
    /\ \/ write = None
       \/ write \in [kind : {"temp", "renamed"}, slot : Slots, record : Contents]
    /\ \/ orphan = None
       \/ orphan \in [kind : {"temp"}, slot : Slots, record : Contents]
    /\ settled \in 0 .. MaxWrites /\ written \in 0 .. MaxWrites
    /\ crashes \in 0 .. MaxCrashes /\ rots \in 0 .. MaxRot

\* The store implements the register consensus relies on: what a crash may reveal beyond
\* what is settled is open until a boot reads it, and a boot on any of the pairs of slots
\* a crash may leave is given a record.
Register == INSTANCE DurableRegister WITH
    maybe <- {c.payload : c \in {r \in survives["A"] \cup survives["B"] :
                                    Valid(r) /\ r.payload > settled}},
    readable <- \A a \in survives["A"], b \in survives["B"] : combine_slots(a, b).kind # "unreadable",
    decays <- rots

\* However writes are attempted, dropped, failed and torn by crashes, no boot is given a
\* record older than one whose write returned or that an earlier boot was given (view and
\* log_view do not go back), no crash leaves slots that boot refuses, and a decayed slot
\* makes it refuse.
ImplementsRegister == Register!Spec
==============================================================================
