--------------------------- MODULE SuperblockProofs ---------------------------
(***************************************************************************)
(* The superblock implements the register consensus relies on, for every   *)
(* number of writes, crashes and decayed slots.                            *)
(*                                                                         *)
(* The argument: the slot the store does not aim at holds what is settled, *)
(* alone; whatever attempts left in the slot it aims at is either older    *)
(* than that or carries the next sequence.  So the higher sequence is      *)
(* never an older record.  Once a slot decayed nothing is written any      *)
(* more, and every boot is refused.                                        *)
(***************************************************************************)
EXTENDS Superblock, TLAPS

\* A valid record with a given sequence, newer than what is settled.
Newer(c, n) == c = Record(n, c.payload) /\ c.payload \in settled + 1 .. written /\ n \in 1 .. written

\* A content that loses against what is settled.
Older(c, n) ==
    c = Absent \/ (/\ c = Record(c.sequence, c.payload)
                   /\ c.sequence \in 1 .. written /\ c.payload \in 1 .. written
                   /\ c.sequence < n /\ c.payload < settled)

\* What is settled, under a given sequence.
Settled(c, n) == IF n = 0 THEN c = Absent /\ settled = 0
                 ELSE c = Record(n, settled) /\ n \in 1 .. written /\ settled > 0

\* Every rename is durable.
Synced == \A s \in Slots : survives[s] = {file[s]}

\* A slot decayed: nothing is in flight and the store, if open, refuses writes.
Rotten ==
    /\ Synced /\ \E s \in Slots : file[s] = Corrupt
    /\ write = None /\ orphan = None
    /\ store = Closed \/ (store.open = TRUE /\ store.degraded = TRUE)

\* The node is down: one slot is settled and the other older, or an attempt beside it.
Down ==
    /\ store = Closed /\ Synced /\ write = None /\ orphan = None
    /\ \E s \in Slots, n \in 0 .. written :
         /\ Settled(file[other(s)], n)
         /\ Older(file[s], n) \/ Newer(file[s], n + 1)

\* A write that is in flight, or whose rename the kernel may still execute.
InFlight(w) ==
    /\ w = [kind |-> w.kind, slot |-> store.next_slot, record |-> w.record]
    /\ Newer(w.record, store.next_sequence)

\* An open store that takes writes.
Writable == store \in [open : {TRUE}, next_sequence : 1 .. written + 1, next_slot : Slots,
                       degraded : {FALSE}]

\* The node is up, on slots that verify.
Up ==
    /\ Writable
    /\ survives[other(store.next_slot)] = {file[other(store.next_slot)]}
    /\ Settled(file[other(store.next_slot)], store.next_sequence - 1)
    /\ file[store.next_slot] \in survives[store.next_slot]
    /\ \A c \in survives[store.next_slot] :
         Older(c, store.next_sequence - 1) \/ Newer(c, store.next_sequence)
    /\ write # None =>
         /\ InFlight(write) /\ orphan = None
         /\ write.kind = "temp" \/ (write.kind = "renamed" /\ file[write.slot] = write.record)
    /\ orphan # None => InFlight(orphan)

\* The inductive invariant.
IInv ==
    /\ file = [s \in Slots |-> file[s]] /\ survives = [s \in Slots |-> survives[s]]
    /\ written \in Nat /\ settled \in 0 .. written /\ rots \in Nat
    /\ Rotten \/ Down \/ Up

------------------------------------------------------------------------------
(* Slots, records and what combine_slots makes of them *)

\* There are two slots.
LEMMA TwoSlots ==
    \A s \in Slots : /\ other(s) \in Slots /\ other(s) # s /\ other(other(s)) = s
                     /\ Slots = {s, other(s)}
BY DEF Slots, other

\* The fields of the contents of a slot.
LEMMA ContentFields ==
    /\ Absent.kind = "absent" /\ Corrupt.kind = "corrupt" /\ ~Valid(Absent) /\ ~Valid(Corrupt)
    /\ \A n, p : /\ Record(n, p).kind = "valid" /\ Valid(Record(n, p)) /\ Record(n, p) # Absent
                 /\ Record(n, p) # Corrupt
                 /\ Record(n, p).sequence = n /\ Record(n, p).payload = p
BY DEF Absent, Corrupt, Valid, Record

\* A content that is not corrupt.
Verifies(c) == c = Absent \/ Valid(c)

\* Two slots that verify give a reader a record, or the news that there is none.
LEMMA CombineVerified ==
    ASSUME NEW a, NEW b, Verifies(a), Verifies(b)
    PROVE  combine_slots(a, b).kind # "unreadable"
BY ContentFields DEF combine_slots, Verifies

\* A corrupt slot makes the pair unreadable, whatever the other one holds.
LEMMA CombineCorrupt ==
    ASSUME NEW a, NEW b, a = Corrupt \/ b = Corrupt
    PROVE  combine_slots(a, b).kind = "unreadable"
BY ContentFields DEF combine_slots

------------------------------------------------------------------------------
(* The refinement mapping *)

Maybe == {c.payload : c \in {r \in survives["A"] \cup survives["B"] :
                                Valid(r) /\ r.payload > settled}}
Readable == \A a \in survives["A"], b \in survives["B"] : combine_slots(a, b).kind # "unreadable"

\* Membership in the set of values a crash may reveal.
LEMMA InMaybe ==
    \A v : v \in Maybe <=> \E s \in Slots : \E r \in survives[s] :
                               Valid(r) /\ r.payload > settled /\ v = r.payload
BY DEF Maybe, Slots

\* The same after a step.
LEMMA InMaybeNext ==
    \A v : v \in Maybe' <=> \E s \in Slots : \E r \in survives'[s] :
                               Valid(r) /\ r.payload > settled' /\ v = r.payload
BY DEF Maybe, Slots, Valid

\* A step of the register, in terms of the mapping.
LEMMA RegisterStep ==
    ASSUME \/ /\ \E v \in Maybe' : v > settled /\ Maybe' \subseteq Maybe \cup {v}
              /\ settled' = settled /\ Readable' = Readable /\ rots' = rots
           \/ Maybe' \subseteq Maybe /\ settled' = settled /\ Readable' = Readable /\ rots' = rots
           \/ /\ \E v \in Maybe : settled' = v
              /\ Maybe' = {} /\ Readable' = Readable /\ rots' = rots
           \/ /\ Readable /\ settled' \in Maybe \cup {settled}
              /\ Maybe' = {} /\ Readable' = Readable /\ rots' = rots
           \/ rots' = rots + 1 /\ ~Readable' /\ Maybe' \subseteq Maybe /\ settled' = settled
    PROVE  Register!Next
BY DEF Register!Next, Register!Attempt, Register!Lose, Register!Acknowledge, Register!Read,
       Register!Decay, Register!medium, Maybe, Readable

\* A step that leaves the disk and what is settled alone stutters.
LEMMA RegisterStutter ==
    ASSUME UNCHANGED <<survives, settled, rots>>
    PROVE  UNCHANGED Register!registerVars
BY DEF Register!registerVars, Register!medium

\* The store is readable exactly while no slot decayed.
LEMMA ReadableWhileHealthy == ASSUME IInv, Down \/ Up PROVE Readable
<1>1. \A s \in Slots : \A c \in survives[s] : Verifies(c)
  <2>1. CASE Down
    BY <2>1, TwoSlots, ContentFields DEF Down, Synced, Settled, Older, Newer, Verifies
  <2>2. CASE Up
    BY <2>2, TwoSlots, ContentFields DEF Up, Writable, Settled, Older, Newer, Verifies
  <2> QED BY <2>1, <2>2
<1> QED BY <1>1, CombineVerified DEF Readable, Slots

\* A decayed slot is noticed.
LEMMA UnreadableWhenRotten == ASSUME Rotten PROVE ~Readable
<1>1. /\ survives["A"] = {file["A"]} /\ survives["B"] = {file["B"]}
      /\ file["A"] = Corrupt \/ file["B"] = Corrupt
  BY DEF Rotten, Synced, Slots
<1>2. combine_slots(file["A"], file["B"]).kind = "unreadable"
  BY <1>1, CombineCorrupt
<1> QED BY <1>1, <1>2 DEF Readable

------------------------------------------------------------------------------
(* One lemma per action: it keeps the invariant and is a step of the register *)

RegisterMoves == [Register!Next]_(Register!registerVars)

\* While the node is up and nothing decayed, the slots read as follows.
LEMMA UpFacts ==
    ASSUME IInv, Up
    PROVE  /\ store.next_slot \in Slots /\ other(store.next_slot) \in Slots
           /\ other(store.next_slot) # store.next_slot
           /\ other(other(store.next_slot)) = store.next_slot
           /\ Slots = {store.next_slot, other(store.next_slot)}
           /\ store.open = TRUE /\ store.degraded = FALSE
           /\ store.next_sequence \in 1 .. written + 1
           /\ written \in Nat /\ settled \in 0 .. written
<1>1. /\ store.next_slot \in Slots /\ store.next_sequence \in 1 .. written + 1
      /\ store.open = TRUE /\ store.degraded = FALSE
  BY DEF Up, Writable
<1>2. written \in Nat /\ settled \in 0 .. written
  BY DEF IInv
<1> QED BY <1>1, <1>2, TwoSlots

\* A store opened on synced slots, one settled and the other older, is up.
LEMMA OpenedIsUp ==
    ASSUME Writable,
           Settled(file[other(store.next_slot)], store.next_sequence - 1),
           Older(file[store.next_slot], store.next_sequence - 1),
           Synced, write = None, orphan = None
    PROVE  Up
<1>1. store.next_slot \in Slots /\ other(store.next_slot) \in Slots
  BY TwoSlots DEF Writable
<1> QED BY <1>1 DEF Up, Synced

\* A closed store is not open.
LEMMA ClosedIsNotOpen == Closed.open = FALSE
BY DEF Closed

\* A record is put into the slot the store aims at: an attempt the register may reveal.
LEMMA RenameStep ==
    ASSUME IInv, Up, NEW record, Newer(record, store.next_sequence),
           Renamed(store.next_slot, record),
           store' = store, settled' = settled, written' = written, rots' = rots,
           write' # None => /\ InFlight(write)' /\ orphan' = None
                            /\ write'.kind = "renamed" /\ write'.record = record
                            /\ write'.slot = store.next_slot,
           orphan' = None
    PROVE  IInv' /\ RegisterMoves
<1> DEFINE x == store.next_slot
           o == other(store.next_slot)
<1>0. /\ x \in Slots /\ o \in Slots /\ o # x /\ Slots = {x, o}
      /\ written \in Nat /\ settled \in 0 .. written
  BY UpFacts
<1>1. /\ file'[x] = record /\ file'[o] = file[o]
      /\ survives'[x] = survives[x] \cup {record} /\ survives'[o] = survives[o]
      /\ file' = [s \in Slots |-> file'[s]] /\ survives' = [s \in Slots |-> survives'[s]]
  BY <1>0 DEF IInv, Renamed
<1>2. Up'
  BY <1>0, <1>1 DEF Up, Writable, Settled, Older, Newer
<1>3. IInv'
  BY <1>1, <1>2 DEF IInv
<1>4. Readable /\ Readable'
  BY <1>2, <1>3, ReadableWhileHealthy, PTL
<1>5. record.payload \in Maybe' /\ record.payload > settled
  BY <1>0, <1>1, InMaybeNext, ContentFields DEF Newer
<1>6. Maybe' \subseteq Maybe \cup {record.payload}
  BY <1>0, <1>1, InMaybe, InMaybeNext
<1> QED BY <1>3, <1>4, <1>5, <1>6, RegisterStep DEF RegisterMoves

\* A write starts: nothing reaches the disk yet.
LEMMA BeginWriteStep == ASSUME IInv, begin_write PROVE IInv' /\ RegisterMoves
<1> USE DEF begin_write, begin_write_at_once
<1>1. Up
  BY ClosedIsNotOpen DEF IInv, Rotten, Down
<1>2. /\ written \in Nat /\ settled \in 0 .. written /\ written' = written + 1
      /\ UNCHANGED <<file, survives, store, orphan, settled, rots>> /\ orphan = None
      /\ store.next_sequence \in 1 .. written + 1
  BY <1>1, UpFacts DEF Up
<1>3. write'.record = Record(store.next_sequence, written') /\ write'.kind = "temp"
  BY <1>2
<1>4. InFlight(write)'
  BY <1>2, <1>3, ContentFields DEF InFlight, Newer
<1>5. Settled(file[other(store.next_slot)], store.next_sequence - 1)'
  BY <1>1, <1>2 DEF Up, Settled
<1>6. \A c \in survives'[store'.next_slot] :
         Older(c, store.next_sequence - 1)' \/ Newer(c, store.next_sequence)'
  BY <1>1, <1>2 DEF Up, Older, Newer
<1>7. Writable'
  <2>1. 1 .. written + 1 \subseteq 1 .. written' + 1
    BY <1>2
  <2> QED BY <1>1, <1>2, <2>1 DEF Up, Writable
<1>8. Up'
  BY <1>1, <1>2, <1>3, <1>4, <1>5, <1>6, <1>7 DEF Up
<1> QED BY <1>1, <1>2, <1>8, RegisterStutter DEF IInv, RegisterMoves

\* The temporary file is renamed over the slot.
LEMMA RenameIsAttempt == ASSUME IInv, rename PROVE IInv' /\ RegisterMoves
<1> USE DEF rename
<1>1. write # None /\ write'.kind = "renamed"
  BY DEF None
<1>2. Up
  BY <1>1 DEF IInv, Rotten, Down
<1>3. InFlight(write) /\ orphan = None /\ write.slot = store.next_slot
  BY <1>1, <1>2 DEF Up, InFlight
<1>4. InFlight(write)' /\ write'.record = write.record /\ write'.slot = store.next_slot
  BY <1>3 DEF InFlight, Newer
<1> QED BY <1>1, <1>2, <1>3, <1>4, RenameStep DEF InFlight

\* The kernel executes the rename of a write that was dropped.
LEMMA LateRenameStep == ASSUME IInv, late_rename PROVE IInv' /\ RegisterMoves
<1> USE DEF late_rename
<1>1. Up
  BY DEF IInv, Rotten, Down
<1>2. InFlight(orphan) /\ write = None /\ orphan.slot = store.next_slot
  BY <1>1 DEF Up, InFlight
<1> QED BY <1>1, <1>2, RenameStep DEF InFlight

\* The directory is synced and the write returns: its record is acknowledged.
LEMMA SyncDirectoryStep == ASSUME IInv, sync_directory PROVE IInv' /\ RegisterMoves
<1> USE DEF sync_directory
<1> DEFINE x == store.next_slot
           o == other(store.next_slot)
           n == store.next_sequence
           p == write.record.payload
<1>1. write # None
  BY DEF None
<1>2. Up
  BY <1>1 DEF IInv, Rotten, Down
<1>3. /\ InFlight(write) /\ orphan = None /\ write.slot = x
      /\ file[x] = Record(n, p) /\ p \in settled + 1 .. written /\ n \in 1 .. written
  BY <1>1, <1>2 DEF Up, InFlight, Newer
<1>4. /\ x \in Slots /\ o \in Slots /\ o # x /\ Slots = {x, o} /\ other(o) = x
      /\ written \in Nat /\ settled \in 0 .. written
  BY <1>2, UpFacts
<1>5. /\ survives' = [s \in Slots |-> {file[s]}] /\ survives'[x] = {file[x]} /\ survives'[o] = {file[o]}
      /\ file' = file /\ written' = written /\ settled' = p /\ write' = None /\ orphan' = None
  BY <1>3, <1>4
<1>6. /\ Writable'
      /\ store'.next_sequence = n + 1 /\ store'.next_slot = o
  <2>1. /\ store \in [open : {TRUE}, next_sequence : 1 .. written + 1, next_slot : Slots,
                      degraded : {FALSE}]
        /\ store' = [store EXCEPT !.next_sequence = @ + 1, !.next_slot = other(@)]
    BY <1>2 DEF Up, Writable
  <2>2. n + 1 \in 1 .. written + 1
    BY <1>3, <1>4
  <2> QED BY <2>1, <2>2, <1>4, <1>5 DEF Writable
<1>7. Settled(file[o], n - 1)
  BY <1>2 DEF Up
<1>8. Older(file[store.next_slot], store.next_sequence - 1)'
  BY <1>3, <1>4, <1>5, <1>6, <1>7, ContentFields DEF Settled, Older
<1>9. Settled(file[other(store.next_slot)], store.next_sequence - 1)'
  BY <1>3, <1>4, <1>5, <1>6 DEF Settled
<1>10. Up'
  BY <1>3, <1>4, <1>5, <1>6, <1>8, <1>9 DEF Up
<1>11. IInv'
  BY <1>3, <1>4, <1>5, <1>10 DEF IInv
<1>12. Readable /\ Readable'
  BY <1>2, <1>10, <1>11, ReadableWhileHealthy, PTL
<1>13. p \in Maybe
  BY <1>2, <1>3, <1>4, InMaybe, ContentFields DEF Up
<1>14. Maybe' = {}
  BY <1>3, <1>4, <1>5, <1>8, InMaybeNext, ContentFields DEF Older
<1> QED BY <1>5, <1>11, <1>12, <1>13, <1>14, RegisterStep DEF RegisterMoves

\* A write fails, is dropped, or the cleanup of a dropped one ends: the disk stays as it is.
LEMMA AbandonStep ==
    ASSUME IInv, write_fails \/ drop_write \/ cleanup
    PROVE  IInv' /\ RegisterMoves
<1>1. UNCHANGED <<file, survives, store, settled, written, rots>>
  BY DEF write_fails, drop_write, cleanup
<1>2. Up
  BY DEF IInv, Rotten, Down, write_fails, drop_write, cleanup
<1>3. (write' = None \/ write' = write) /\ (orphan' \in {None, orphan} \/ (orphan' = write /\ write' = None))
  BY DEF write_fails, drop_write, cleanup
<1>4. write' = None \/ orphan' = None
  BY <1>2, <1>3 DEF Up, write_fails, drop_write, cleanup
<1>5. Up'
  BY <1>1, <1>2, <1>3, <1>4 DEF Up, InFlight, Newer, Older, Settled, Writable
<1> QED BY <1>1, <1>5, RegisterStutter DEF IInv, RegisterMoves

\* A crash leaves one of the contents of each slot: attempts may be lost.
LEMMA CrashStep == ASSUME IInv, crash PROVE IInv' /\ RegisterMoves
<1> USE DEF crash
<1>0. PICK left \in [Slots -> UNION {survives[s] : s \in Slots}] :
         /\ \A s \in Slots : left[s] \in survives[s]
         /\ file' = left
         /\ survives' = [s \in Slots |-> {left[s]}]
  OBVIOUS
<1>1. /\ \A s \in Slots : file'[s] \in survives[s] /\ survives'[s] = {file'[s]}
      /\ file' = [s \in Slots |-> file'[s]] /\ survives' = [s \in Slots |-> survives'[s]]
      /\ store' = Closed /\ write' = None /\ orphan' = None
      /\ UNCHANGED <<settled, written, rots>>
  BY <1>0
<1>2. Maybe' \subseteq Maybe
  BY <1>1, InMaybe, InMaybeNext
<1>3. CASE Rotten
  <2>1. Rotten'
    BY <1>1, <1>3 DEF Rotten, Synced
  <2>2. Readable' = Readable
    BY <1>1, <1>3 DEF Rotten, Synced, Readable, Slots
  <2> QED BY <1>1, <1>2, <2>1, <2>2, RegisterStep DEF IInv, RegisterMoves
<1>4. CASE Up
  <2>1. /\ store.next_slot \in Slots /\ store.next_sequence - 1 \in 0 .. written
        /\ store.next_sequence - 1 + 1 = store.next_sequence
    BY <1>4, UpFacts
  <2>2. Settled(file'[other(store.next_slot)], store.next_sequence - 1)
    BY <1>1, <1>4, UpFacts DEF Up
  <2>3. Older(file'[store.next_slot], store.next_sequence - 1)
          \/ Newer(file'[store.next_slot], store.next_sequence)
    BY <1>1, <1>4, UpFacts DEF Up
  <2>4. Down'
    BY <1>1, <2>1, <2>2, <2>3 DEF Down, Synced, Settled, Older, Newer
  <2>5. IInv'
    BY <1>1, <2>4 DEF IInv
  <2>6. Readable /\ Readable'
    BY <1>4, <2>4, <2>5, ReadableWhileHealthy, PTL
  <2> QED BY <1>1, <1>2, <2>5, <2>6, RegisterStep DEF RegisterMoves
<1>5. Rotten \/ Up
  BY ClosedIsNotOpen DEF IInv, Down
<1> QED BY <1>3, <1>4, <1>5

\* A slot decays while the node is down: readers are refused from then on.
LEMMA DecayStep == ASSUME IInv, decay PROVE IInv' /\ RegisterMoves
<1> USE DEF decay
<1>0. PICK s \in Slots : /\ Valid(file[s])
                         /\ file' = [file EXCEPT ![s] = Corrupt]
                         /\ survives' = [survives EXCEPT ![s] = {Corrupt}]
  OBVIOUS
<1>1. Rotten \/ Down
  BY DEF IInv, Up, Writable
<1>2. /\ store = Closed /\ Synced /\ write = None /\ orphan = None
      /\ rots \in Nat /\ rots' = rots + 1
      /\ UNCHANGED <<store, write, orphan, settled, written>>
  BY <1>1 DEF Rotten, Down, IInv
<1>3. /\ file'[s] = Corrupt /\ survives'[s] = {Corrupt}
      /\ \A t \in Slots \ {s} : file'[t] = file[t] /\ survives'[t] = survives[t]
      /\ file' = [t \in Slots |-> file'[t]] /\ survives' = [t \in Slots |-> survives'[t]]
  BY <1>0 DEF IInv
<1>4. Rotten'
  BY <1>2, <1>3 DEF Rotten, Synced
<1>5. IInv'
  BY <1>2, <1>3, <1>4 DEF IInv
<1>6. ~Readable'
  BY <1>4, UnreadableWhenRotten, PTL
<1>7. Maybe' \subseteq Maybe
  BY <1>2, <1>3, InMaybe, InMaybeNext, ContentFields
<1> QED BY <1>2, <1>5, <1>6, <1>7, RegisterStep DEF RegisterMoves

\* The store that is opened on a pair of slots one of which is settled, the other older.
LEMMA OpenOnSettled ==
    ASSUME NEW s \in Slots, NEW n \in 0 .. written, written \in Nat, settled \in 0 .. written,
           Settled(file[other(s)], n), Older(file[s], n)
    PROVE  /\ open_store(file["A"], file["B"]).next_sequence = n + 1
           /\ n > 0 => open_store(file["A"], file["B"]).next_slot = s
           /\ combine_slots(file["A"], file["B"]).payload = settled
BY TwoSlots, ContentFields DEF open_store, combine_slots, Settled, Older, a_is_newest, sequence_of,
   Slots, other

\* The store that is opened when an attempt that was never acknowledged survived.
LEMMA OpenOnAttempt ==
    ASSUME NEW s \in Slots, NEW n \in 0 .. written, written \in Nat, settled \in 0 .. written,
           Settled(file[other(s)], n), Newer(file[s], n + 1)
    PROVE  /\ open_store(file["A"], file["B"]).next_sequence = n + 2
           /\ open_store(file["A"], file["B"]).next_slot = other(s)
           /\ combine_slots(file["A"], file["B"]).payload = file[s].payload
BY TwoSlots, ContentFields DEF open_store, combine_slots, Settled, Newer, a_is_newest, sequence_of,
   Slots, other

\* A boot is given what is settled or an attempt that survived, or is refused.
LEMMA OpenStep == ASSUME IInv, open_with_latest PROVE IInv' /\ RegisterMoves
<1> USE DEF open_with_latest
<1>0. UNCHANGED <<file, survives, write, orphan, written, rots>>
  OBVIOUS
<1>1. CASE Rotten
  <2>1. file["A"] = Corrupt \/ file["B"] = Corrupt
    BY <1>1 DEF Rotten, Slots
  <2>2. store'.open = TRUE /\ store'.degraded = TRUE
    BY <2>1, ContentFields DEF open_store, has_unreadable_sequence
  <2>3. settled' = settled
    BY <2>1, CombineCorrupt
  <2>4. Rotten'
    BY <1>0, <1>1, <2>2 DEF Rotten, Synced
  <2> QED BY <1>0, <2>3, <2>4, RegisterStutter DEF IInv, RegisterMoves
<1>2. CASE Down
  <2>0. PICK s \in Slots, n \in 0 .. written :
          /\ Settled(file[other(s)], n)
          /\ Older(file[s], n) \/ Newer(file[s], n + 1)
    BY <1>2 DEF Down
  <2>1. /\ written \in Nat /\ settled \in 0 .. written /\ rots \in Nat
        /\ \A t \in Slots : survives[t] = {file[t]}
        /\ write = None /\ orphan = None
        /\ other(s) \in Slots /\ other(s) # s /\ other(other(s)) = s /\ Slots = {s, other(s)}
    BY <1>2, TwoSlots DEF IInv, Down, Synced
  <2>1a. Synced' /\ (write = None)' /\ (orphan = None)'
    BY <1>0, <2>1 DEF Synced
  <2>2. Verifies(file["A"]) /\ Verifies(file["B"])
    BY <2>0, <2>1, ContentFields DEF Slots, Settled, Older, Newer, Verifies
  <2>3. settled' = combine_slots(file["A"], file["B"]).payload
    BY <2>2, CombineVerified
  <2>4. /\ store'.open = TRUE /\ store'.degraded = FALSE
        /\ store' = [open |-> store'.open, next_sequence |-> store'.next_sequence,
                     next_slot |-> store'.next_slot, degraded |-> store'.degraded]
    BY <2>2, ContentFields DEF open_store, has_unreadable_sequence, Verifies, Valid
  <2>5. CASE Newer(file[s], n + 1)
    <3>1. /\ store'.next_sequence = n + 2 /\ store'.next_slot = other(s)
          /\ settled' = file[s].payload
      BY <2>0, <2>1, <2>3, <2>5, OpenOnAttempt
    <3>2. /\ settled' \in settled + 1 .. written /\ n + 1 \in 1 .. written
          /\ file[s] = Record(n + 1, settled')
      BY <3>1, <2>5 DEF Newer
    <3>3. Settled(file[other(store.next_slot)], store.next_sequence - 1)'
      BY <1>0, <2>1, <3>1, <3>2 DEF Settled
    <3>4. Older(file[store.next_slot], store.next_sequence - 1)'
      BY <1>0, <2>0, <2>1, <3>1, <3>2, ContentFields DEF Older, Settled
    <3>5. store'.next_sequence \in 1 .. written + 1 /\ store'.next_slot \in Slots
      BY <2>1, <3>1, <3>2
    <3>5a. Writable'
      BY <1>0, <2>4, <3>5 DEF Writable
    <3>6. Up'
      BY <1>0, <2>1, <2>1a, <3>3, <3>4, <3>5a, OpenedIsUp, PTL
    <3>7. IInv'
      BY <1>0, <2>1, <3>2, <3>6 DEF IInv
    <3>8. Readable /\ Readable'
      BY <1>2, <3>6, <3>7, ReadableWhileHealthy, PTL
    <3>9. settled' \in Maybe
      BY <2>1, <3>2, InMaybe, ContentFields
    <3>10. Maybe' = {}
      BY <1>0, <2>0, <2>1, <3>2, InMaybeNext, ContentFields DEF Settled
    <3> QED BY <1>0, <3>7, <3>8, <3>9, <3>10, RegisterStep DEF RegisterMoves
  <2>6. CASE Older(file[s], n)
    <3>1. /\ store'.next_sequence = n + 1
          /\ n > 0 => store'.next_slot = s
          /\ settled' = settled
      BY <2>0, <2>1, <2>3, <2>6, OpenOnSettled
    <3>2. store'.next_slot \in Slots
      BY DEF open_store, Slots
    <3>3. n = 0 => settled = 0 /\ \A t \in Slots : file[t] = Absent
      BY <2>0, <2>1, <2>6 DEF Settled, Older
    <3>4. /\ other(store'.next_slot) \in Slots /\ store'.next_sequence - 1 = n
          /\ store'.next_sequence \in 1 .. written + 1
      BY <2>1, <3>1, <3>2, TwoSlots
    <3>5. /\ Settled(file[other(store.next_slot)], store.next_sequence - 1)'
          /\ Older(file[store.next_slot], store.next_sequence - 1)'
      <4>1. CASE n = 0
        BY <1>0, <3>1, <3>2, <3>3, <3>4, <4>1 DEF Settled, Older
      <4>2. CASE n > 0
        <5>1. store'.next_slot = s
          BY <3>1, <4>2
        <5> QED BY <1>0, <2>0, <2>6, <3>1, <3>4, <5>1 DEF Settled, Older
      <4> QED BY <4>1, <4>2
    <3>5a. Writable'
      BY <1>0, <2>4, <3>2, <3>4 DEF Writable
    <3>6. Up'
      BY <1>0, <2>1, <2>1a, <3>5, <3>5a, OpenedIsUp, PTL
    <3>7. IInv'
      BY <1>0, <2>1, <3>1, <3>6 DEF IInv
    <3>8. Readable /\ Readable'
      BY <1>2, <3>6, <3>7, ReadableWhileHealthy, PTL
    <3>9. Maybe' = {}
      BY <1>0, <2>0, <2>1, <2>6, <3>1, InMaybeNext, ContentFields DEF Settled, Older
    <3> QED BY <1>0, <3>1, <3>7, <3>8, <3>9, RegisterStep DEF RegisterMoves
  <2> QED BY <2>0, <2>5, <2>6
<1>3. Rotten \/ Down
  BY DEF IInv, Up, Writable
<1> QED BY <1>1, <1>2, <1>3

------------------------------------------------------------------------------
(* The theorems *)

\* A fresh store is up, with nothing settled, and maps to the fresh register.
LEMMA InitMaps == ASSUME Init PROVE IInv /\ Register!Init
<1> USE DEF Init
<1>0. sequence_of(Absent) = 0 /\ ~a_is_newest(Absent, Absent)
  BY ContentFields DEF a_is_newest, sequence_of
<1>1. store.next_sequence = 1 /\ store.next_slot = "A"
  BY <1>0 DEF open_store
<1>2a. /\ store.open = TRUE /\ store.degraded = FALSE
       /\ store = [open |-> store.open, next_sequence |-> store.next_sequence,
                   next_slot |-> store.next_slot, degraded |-> store.degraded]
  BY ContentFields DEF open_store, has_unreadable_sequence
<1>2b. Writable
  <2>1. store.next_sequence \in 1 .. written + 1 /\ store.next_slot \in Slots
    BY <1>1 DEF Slots
  <2> HIDE DEF Init
  <2> QED BY <1>2a, <2>1 DEF Writable
<1>2. Up
  BY <1>1, <1>2b, OpenedIsUp DEF Slots, other, Settled, Older, Synced
<1>3. IInv
  BY <1>2 DEF IInv
<1>4. Readable
  BY <1>2, <1>3, ReadableWhileHealthy
<1>5. Maybe = {}
  BY InMaybe, ContentFields
<1> QED BY <1>3, <1>4, <1>5 DEF Register!Init, Maybe, Readable

\* Every step keeps the invariant and is a step or a stutter of the register.
LEMMA NextMaps == ASSUME IInv, [Next]_vars PROVE IInv' /\ RegisterMoves
<1>1. CASE Next
  BY <1>1, BeginWriteStep, RenameIsAttempt, SyncDirectoryStep, OpenStep, AbandonStep, LateRenameStep,
     CrashStep, DecayStep DEF Next, Step, Fault
<1>2. CASE UNCHANGED vars
  <2>1. IInv'
    BY <1>2 DEF vars, IInv, Rotten, Down, Up, Writable, Synced, Settled, Older, Newer, InFlight
  <2>2. RegisterMoves
    BY <1>2, RegisterStutter DEF vars, RegisterMoves
  <2> QED BY <2>1, <2>2
<1> QED BY <1>1, <1>2

\* The slots of a store, open or closed, are always in one of the three shapes: decayed and
\* refused, down, or up with the settled record alone in the slot that is not written.
THEOREM InductiveInvariant == Spec => []IInv
BY InitMaps, NextMaps, PTL DEF Spec

\* PingPongSuperblock implements the durable register: no boot is given a record older than
\* one whose write returned or that an earlier boot was given, no crash leaves slots that
\* boot refuses, and a decayed slot makes it refuse.
THEOREM SuperblockIsRegister == Spec => ImplementsRegister
<1>1. Init => IInv /\ Register!Init
  BY InitMaps
<1>2. IInv /\ [Next]_vars => IInv' /\ [Register!Next]_(Register!registerVars)
  BY NextMaps DEF RegisterMoves
<1> QED BY <1>1, <1>2, PTL DEF Spec, ImplementsRegister, Register!Spec
==============================================================================
