------------------------- MODULE PrepareJournalProofs -------------------------
(***************************************************************************)
(* Proofs about the metadata WAL of a replica on which those who change    *)
(* the journal take turns (Serial: it never led, or it is still in the     *)
(* view it led): the index reads back, a boot accepts what a crash left,   *)
(* acknowledged appends survive it and removed ones stay removed.          *)
(*                                                                         *)
(* The invariant knows three modes.  In the open one, the file is a run of *)
(* settled entries and at most one cell after it, each slot names a synced *)
(* cell, and until a sync fails a cell that no slot names gave way to a    *)
(* later one and is in the checkpoint.  Once a rewrite renamed its copy,   *)
(* and when it then failed, the new file holds every entry that is neither *)
(* checkpointed nor superseded, and the old one is as it was.  Entries of  *)
(* both histories may be in a file until the checkpoint passes the fork;   *)
(* while all that is held is of one, so is every file (FilesOn).  The      *)
(* predicates take the state they speak of as parameters, so that they can *)
(* be used of either file and of either state of a step.                   *)
(***************************************************************************)
EXTENDS PrepareJournal, FiniteSetTheorems, WellFoundedInduction, TLAPS

-----------------------------------------------------------------------------
(* The invariant *)

Ent == {e \in [op : 1 .. MaxOp, h : {1, 2}] : e.op < Fork => e.h = 1}
CellRecord == [e : Ent \cup {Torn}, synced : BOOLEAN]
HeldRecord == [e : Ent, at : Nat \ {0}]
AppendRecord == [e : Ent, at : Nat \ {0}, gen : Nat, written : BOOLEAN]
HeldIn(idx) == {idx[s] : s \in DOMAIN idx} \ {None}

IndexType(idx) ==
    /\ idx \in [0 .. SlotCount - 1 -> HeldRecord \cup {None}]
    /\ \A s \in DOMAIN idx : idx[s] # None => slot_for_op(idx[s].e.op) = s

\* A file of which b cells are settled: all are entries, no more than one cell
\* follows, and the synced cells come first.
SettledOk(w, b) ==
    /\ w \in Seq(CellRecord) /\ b \in Nat /\ b <= Len(w) /\ Len(w) <= b + 1
    /\ \A i \in 1 .. b : w[i].e \in Ent
    /\ \A i, j \in DOMAIN w : i < j /\ w[j].synced => w[i].synced
    /\ Len(w) = b + 1 => ~w[b + 1].synced

\* Each slot names a synced cell.
IndexOk(w, b, idx) ==
    \A x \in HeldIn(idx) : x.at \in 1 .. b /\ w[x.at].e = x.e /\ w[x.at].synced

\* An entry may take its slot.
FreeFor(e, idx, ck) == LET x == idx[slot_for_op(e.op)] IN x = None \/ x.e.op <= ck

TailOk(w, b, idx, ck) ==
    Len(w) = b + 1 => w[b + 1].e = Torn \/ FreeFor(w[b + 1].e, idx, ck)

\* Every settled cell is named by its slot, or it gave way to a later one of
\* the slot and is in the checkpoint.
CleanOk(w, b, idx, ck) ==
    \A i \in 1 .. b : LET x == idx[slot_for_op(w[i].e.op)]
                      IN /\ w[i].synced /\ x # None /\ i <= x.at
                         /\ i = x.at \/ w[i].e.op <= ck

\* The last holds until a sync fails: z counts the failures.
FileOk(w, b, idx, ck, z) ==
    /\ SettledOk(w, b) /\ IndexOk(w, b, idx) /\ TailOk(w, b, idx, ck)
    /\ z = 0 => CleanOk(w, b, idx, ck)

Base(ap, tl) == IF ap = {} THEN tl ELSE tl - 1

\* The one append in flight, if any, takes the cell after the settled ones.
AppendOk(w, gn, tl, idx, ap, rw, ck) ==
    /\ \A a, b \in ap : a = b
    /\ ap # {} => rw = None
    /\ ap = {} => \A i \in DOMAIN w : i > tl => w[i].e = Torn
    /\ \A a \in ap :
          /\ a \in AppendRecord /\ a.at = tl /\ a.gen = gn /\ FreeFor(a.e, idx, ck)
          /\ a.written => Len(w) = tl /\ w[tl].e = a.e
          /\ ~a.written => \A i \in DOMAIN w : i >= tl => w[i].e = Torn

\* A held entry that a boot may do without: it is in the checkpoint, or past the fork
\* while a superseded entry is held.
Superseded(x, idx, ck, v) ==
    \/ x.e.op <= ck
    \/ v = 2 /\ x.e.op >= Fork /\ \E y \in HeldIn(idx) : y.e.op >= Fork /\ y.e.h = 1

\* What a rewrite copies, and why it may drop the rest.
LiveSet(idx, from, to) == {x \in HeldIn(idx) : ~(x.e.op \in from .. to)}
Copies(live, S) ==
    /\ live \in Seq(S)
    /\ \A x \in S : \E i \in DOMAIN live : live[i] = x
    /\ \A i, j \in DOMAIN live : live[i] = live[j] => i = j
RewriteOf(kind, from, to, renamed, live) ==
    [kind |-> kind, from |-> from, to |-> to, renamed |-> renamed, live |-> live]
LiveOk(rw, idx, ck, v, z) ==
    rw # None =>
        /\ rw = RewriteOf(rw.kind, rw.from, rw.to, rw.renamed, rw.live)
        /\ rw.from \in Int /\ rw.to \in Int /\ rw.renamed \in BOOLEAN
        /\ rw.kind = "drain" => rw.to <= ck
        /\ Copies(rw.live, LiveSet(idx, rw.from, rw.to))
        /\ (z = 0 \/ v = 1) =>
              \A x \in HeldIn(idx) : x.e.op \in rw.from .. rw.to => Superseded(x, idx, ck, v)

\* The file at the path is the rewritten one, and the index that of the old.
NewFile(w, idx, ck, v, z) ==
    /\ w \in Seq(CellRecord)
    /\ \A i \in DOMAIN w : w[i].e \in Ent /\ w[i].synced
    /\ \A i, j \in DOMAIN w : slot_for_op(w[i].e.op) = slot_for_op(w[j].e.op) => i = j
    /\ \A i \in DOMAIN w : \E x \in HeldIn(idx) : x.e = w[i].e
    /\ (z = 0 \/ v = 1) =>
          \A x \in HeldIn(idx) : Superseded(x, idx, ck, v) \/ \E i \in DOMAIN w : w[i].e = x.e
Shadow(w, st, tl, idx, ap, ck, v, z) ==
    /\ ap = {} /\ NewFile(w, idx, ck, v, z)
    /\ st = NoFile \/ (FileOk(st, tl, idx, ck, z) /\ \A i \in DOMAIN st : i > tl => st[i].e = Torn)

OpenMode(w, st, gn, f, tl, idx, po, ap, rw, ck, z) ==
    /\ ~po /\ (rw = None \/ ~rw.renamed) /\ st = NoFile /\ f = gn
    /\ FileOk(w, Base(ap, tl), idx, ck, z) /\ AppendOk(w, gn, tl, idx, ap, rw, ck)
RenamedMode(w, st, tl, idx, po, ap, rw, ck, v, z) ==
    /\ ~po /\ rw # None /\ rw.renamed /\ Shadow(w, st, tl, idx, ap, ck, v, z)
    /\ DOMAIN w = DOMAIN rw.live
    /\ \A i \in DOMAIN w : w[i].e = rw.live[i].e
PoisonedMode(w, st, tl, idx, po, ap, rw, ck, v, z) ==
    po /\ rw = None /\ Shadow(w, st, tl, idx, ap, ck, v, z)

\* All entries are of history h.
On(e, h) == e.op < Fork \/ e.h = h
FileOn(w, h) == \A i \in DOMAIN w : On(w[i].e, h)
AllOn(w, st, idx, ap, h) ==
    /\ FileOn(w, h) /\ (st = NoFile \/ FileOn(st, h))
    /\ \A x \in HeldIn(idx) : On(x.e, h)
    /\ \A a \in ap : On(a.e, h)

\* A replica in the first view follows the first history.  Later it may have entries of
\* both; but what it appends is of the second and, until a sync fails, so is all it has
\* once it checkpointed past the fork.
HistoryOk(w, st, idx, ap, v, ck, z) ==
    /\ v = 1 => AllOn(w, st, idx, ap, 1) /\ ck < Fork
    /\ v = 2 /\ z = 0 /\ ck >= Fork => AllOn(w, st, idx, ap, 2)
    /\ \A a \in ap : On(a.e, v)

Types(gn, f, tl, idx, lo, sn, po, v, ck, z) ==
    /\ IndexType(idx) /\ gn \in Nat /\ f \in Nat /\ tl \in Nat /\ lo \in Nat /\ sn \in Nat
    /\ ck \in Nat /\ z \in Nat /\ sn <= ck /\ v \in {1, 2} /\ po \in BOOLEAN

\* The inductive invariant.
IInv ==
    /\ refused \in BOOLEAN
    /\ ~refused =>
        /\ Types(gen, fd, tail, index, last_op, snapshot_op, poisoned, view, ckpt, sync_errors)
        /\ \/ OpenMode(wal, stale, gen, fd, tail, index, poisoned, appends, rewrite, ckpt,
                       sync_errors)
           \/ RenamedMode(wal, stale, tail, index, poisoned, appends, rewrite, ckpt, view,
                          sync_errors)
           \/ PoisonedMode(wal, stale, tail, index, poisoned, appends, rewrite, ckpt, view,
                           sync_errors)
        /\ LiveOk(rewrite, index, ckpt, view, sync_errors)
        /\ HistoryOk(wal, stale, index, appends, view, ckpt, sync_errors)

-----------------------------------------------------------------------------
(* Least and greatest numbers *)

\* Every nonempty set of numbers has a least element.
LEMMA LeastNat == ASSUME NEW S, S \subseteq Nat, S # {} PROVE \E x \in S : \A y \in S : x <= y
<1>1. PICK R : R = {ss \in Nat \X Nat : ss[1] < ss[2]}
  OBVIOUS
<1>2. IsWellFoundedOn(R, Nat)
  BY <1>1, NatLessThanWellFounded, Zenon DEF OpToRel
<1>3. PICK x \in S : \A y \in S : ~ (<<y, x>> \in R)
  BY <1>2, WFMin
<1>4. ASSUME NEW y \in S PROVE x <= y
  <2>1. <<y, x>> \in Nat \X Nat /\ <<y, x>>[1] = y /\ <<y, x>>[2] = x
    OBVIOUS
  <2>2. ~(y < x)
    BY <1>1, <1>3, <2>1
  <2> QED BY <2>2
<1> QED BY <1>4

\* And every nonempty set of bounded numbers a greatest.
LEMMA GreatestNat ==
  ASSUME NEW n \in Nat, NEW S, S \subseteq 0 .. n, S # {}
  PROVE  \E x \in S : \A y \in S : y <= x
<1>1. PICK D : D = {k \in 0 .. n : n - k \in S}
  OBVIOUS
<1>2. D \subseteq Nat /\ D # {}
  <2>1. PICK y \in S : TRUE
    OBVIOUS
  <2>2. n - y \in 0 .. n /\ n - (n - y) = y
    OBVIOUS
  <2>3. n - y \in D
    BY <1>1, <2>2
  <2>4. D \subseteq Nat
    BY <1>1
  <2> QED BY <2>3, <2>4
<1>3. PICK d \in D : \A k \in D : d <= k
  BY <1>2, LeastNat
<1>4. n - d \in S /\ d \in 0 .. n
  BY <1>1
<1>5. ASSUME NEW y \in S PROVE y <= n - d
  <2>1. n - y \in 0 .. n /\ n - (n - y) = y
    OBVIOUS
  <2>2. n - y \in D
    BY <1>1, <2>1
  <2>3. d <= n - y
    BY <1>3, <2>2
  <2> QED BY <1>4, <2>3
<1> QED BY <1>4, <1>5

-----------------------------------------------------------------------------
(* Entries and histories *)

\* What is appended is an entry of the history of its view.
LEMMA EntryIs ==
  ASSUME NEW op \in 1 .. MaxOp, NEW v \in {1, 2}
  PROVE  Entry(op, v) \in Ent /\ On(Entry(op, v), v) /\ Entry(op, v).op = op
<1>1. PICK e : e = Entry(op, v)
  OBVIOUS
<1>2. e.op = op /\ e.h = IF op < Fork THEN 1 ELSE v
  BY <1>1 DEF Entry
<1>3. e \in [op : 1 .. MaxOp, h : {1, 2}]
  BY <1>1 DEF Entry
<1> QED BY <1>1, <1>2, <1>3 DEF Ent, On

\* No entry is torn.
LEMMA EntryIsWhole == Torn \notin Ent /\ Torn.op = 0 /\ \A e \in Ent : e.op \in Nat /\ e.op >= 1
<1>1. Torn.op = 0
  BY DEF Torn
<1>2. \A e \in Ent : e.op \in 1 .. MaxOp
  BY DEF Ent
<1>3. MaxOp \in Nat
  BY JournalAssumption
<1> QED BY <1>1, <1>2, <1>3

\* A slot of the index.
LEMMA SlotIs == \A op \in Nat : slot_for_op(op) \in 0 .. SlotCount - 1
  BY JournalAssumption DEF slot_for_op

\* Entries of one history form no break.
LEMMA NoBreak ==
  ASSUME NEW h, NEW d \in Ent, NEW e \in Ent, On(d, h), On(e, h), e.op = d.op + 1
  PROVE  d = Parent(e)
<1>1. d \in [op : 1 .. MaxOp, h : {1, 2}] /\ e \in [op : 1 .. MaxOp, h : {1, 2}]
  BY DEF Ent
<1>2. d = [op |-> d.op, h |-> d.h] /\ d.op \in Nat /\ e.op \in Nat
  BY <1>1, JournalAssumption
<1>3. e.op - 1 = d.op
  BY <1>2
<1>4. Parent(e) = [op |-> d.op, h |-> IF d.op < Fork THEN 1 ELSE e.h]
  BY <1>3 DEF Parent, Entry
<1>5. d.op < Fork => d.h = 1
  BY DEF Ent
<1>6. ~(d.op < Fork) => d.h = e.h
  BY <1>2, JournalAssumption DEF On
<1> QED BY <1>2, <1>4, <1>5, <1>6

-----------------------------------------------------------------------------
(* What a crash leaves, and what the scan makes of it *)

Parts == Ent \cup {Torn}

\* A file as far as a crash is concerned: its synced cells come first and are entries.
Ordered(w) ==
    /\ w \in Seq(CellRecord)
    /\ \A i, j \in DOMAIN w : i < j /\ w[j].synced => w[i].synced
    /\ \A i \in DOMAIN w : w[i].synced => w[i].e \in Ent

\* An image f of a file w.
ImageOf(f, w) ==
    /\ f \in Seq(Parts) /\ Len(f) <= Len(w)
    /\ \A i \in DOMAIN w : w[i].synced => i \in DOMAIN f /\ f[i] = w[i].e
    /\ \A i \in DOMAIN f : i \in DOMAIN w /\ (f[i] = Torn \/ f[i] = w[i].e)

\* The last synced cell.
LEMMA WrittenIs ==
  ASSUME NEW w, w \in Seq(CellRecord)
  PROVE  Written(w) \in 0 .. Len(w) /\ \A i \in DOMAIN w : w[i].synced => i <= Written(w)
<1>1. Len(w) \in Nat /\ DOMAIN w = 1 .. Len(w)
  OBVIOUS
<1>2. CASE ~\E i \in DOMAIN w : w[i].synced
  BY <1>1, <1>2 DEF Written
<1>3. CASE \E i \in DOMAIN w : w[i].synced
  <2>1. PICK S : S = {i \in DOMAIN w : w[i].synced}
    OBVIOUS
  <2>2. S \subseteq 0 .. Len(w) /\ S # {}
    BY <1>1, <1>3, <2>1
  <2>3. PICK x \in S : \A y \in S : y <= x
    BY <1>1, <2>2, GreatestNat
  <2> DEFINE Good(n) == w[n].synced /\ \A i \in n + 1 .. Len(w) : ~w[i].synced
  <2>4. x \in DOMAIN w /\ Good(x)
    <3>1. x \in DOMAIN w /\ w[x].synced
      BY <2>1
    <3>2. ASSUME NEW i \in x + 1 .. Len(w) PROVE ~w[i].synced
      <4>1. i \in DOMAIN w /\ ~(i <= x)
        BY <1>1, <3>1
      <4> QED BY <2>1, <2>3, <4>1
    <3> QED BY <3>1, <3>2
  <2>5. PICK m : m = CHOOSE n \in DOMAIN w : Good(n)
    OBVIOUS
  <2>6. m \in DOMAIN w /\ Good(m)
    <3> HIDE DEF Good
    <3> QED BY <2>4, <2>5
  <2>7. Written(w) = m
    BY <1>3, <2>5 DEF Written
  <2>8. ASSUME NEW i \in DOMAIN w, w[i].synced PROVE i <= m
    <3>1. ~(i \in m + 1 .. Len(w))
      BY <2>6, <2>8
    <3> QED BY <1>1, <2>6, <3>1
  <2> QED BY <1>1, <2>6, <2>7, <2>8
<1> QED BY <1>2, <1>3

\* The images of a file.
LEMMA ImagesAre ==
  ASSUME NEW w, w \in Seq(CellRecord), NEW f \in ImagesOf(w) PROVE ImageOf(f, w)
<1>1. Len(w) \in Nat /\ DOMAIN w = 1 .. Len(w) /\ \A i \in 1 .. Len(w) : w[i] \in CellRecord
  OBVIOUS
<1>2. PICK n \in Written(w) .. Len(w), T \in SUBSET {i \in DOMAIN w : ~w[i].synced} :
         f = [i \in 1 .. n |-> IF i \in T THEN Torn ELSE w[i].e]
  BY DEF ImagesOf
<1>3. Written(w) \in 0 .. Len(w) /\ \A i \in DOMAIN w : w[i].synced => i <= Written(w)
  BY WrittenIs
<1>4. n \in Nat /\ n <= Len(w) /\ \A i \in 1 .. n : i \in 1 .. Len(w)
  BY <1>1, <1>3
<1>5. \A i \in 1 .. n : w[i].e \in Parts
  BY <1>1, <1>4 DEF CellRecord, Parts
<1>6. f \in [1 .. n -> Parts]
  BY <1>2, <1>5 DEF Parts
<1>7. f \in Seq(Parts) /\ Len(f) = n /\ DOMAIN f = 1 .. n
  BY <1>4, <1>6
<1>8. ASSUME NEW i \in DOMAIN w, w[i].synced PROVE i \in DOMAIN f /\ f[i] = w[i].e
  <2>1. i \in 1 .. n
    BY <1>1, <1>3, <1>4, <1>8
  <2> QED BY <1>2, <1>7, <1>8, <2>1
<1>9. \A i \in DOMAIN f : i \in DOMAIN w /\ (f[i] = Torn \/ f[i] = w[i].e)
  BY <1>1, <1>2, <1>4, <1>7
<1> QED BY <1>4, <1>7, <1>8, <1>9 DEF ImageOf

\* The scan keeps a prefix without damage.
LEMMA ScannedIs ==
  ASSUME NEW f, f \in Seq(Parts)
  PROVE  /\ scanned(f) \in Seq(Ent) /\ Len(scanned(f)) <= Len(f)
         /\ \A i \in DOMAIN scanned(f) : i \in DOMAIN f /\ scanned(f)[i] = f[i]
         /\ Damaged(f) = {} => scanned(f) = f
         /\ Damaged(f) # {} => /\ FirstDamage(f) \in Damaged(f)
                               /\ \A j \in Damaged(f) : FirstDamage(f) <= j
                               /\ Len(scanned(f)) = FirstDamage(f) - 1
<1>1. Len(f) \in Nat /\ DOMAIN f = 1 .. Len(f) /\ \A i \in 1 .. Len(f) : f[i] \in Parts
  OBVIOUS
<1>2. Damaged(f) \subseteq 1 .. Len(f) /\ \A i \in 1 .. Len(f) : i \notin Damaged(f) => f[i] \in Ent
  BY <1>1 DEF Damaged, Parts
<1>3. CASE Damaged(f) = {}
  <2>1. scanned(f) = f
    BY <1>3 DEF scanned
  <2>2. f \in [1 .. Len(f) -> Ent]
    BY <1>1, <1>2, <1>3
  <2>3. f \in Seq(Ent)
    BY <1>1, <2>2
  <2> QED BY <1>1, <1>3, <2>1, <2>3
<1>4. CASE Damaged(f) # {}
  <2>1. \E i \in Damaged(f) : \A j \in Damaged(f) : i <= j
    <3>1. PICK S : S = Damaged(f) /\ S \subseteq Nat /\ S # {}
      BY <1>2, <1>4
    <3> QED BY <3>1, LeastNat
  <2>2. PICK d : d = FirstDamage(f) /\ d \in Damaged(f) /\ \A j \in Damaged(f) : d <= j
    BY <2>1 DEF FirstDamage
  <2>3. d \in 1 .. Len(f) /\ d - 1 \in Nat /\ d - 1 <= Len(f)
    BY <1>1, <1>2, <2>2
  <2>4. PICK g : g = SubSeq(f, 1, d - 1)
    OBVIOUS
  <2>5. scanned(f) = g
    BY <1>4, <2>2, <2>4 DEF scanned
  <2>6. Len(g) = d - 1 /\ \A i \in 1 .. (d - 1) : g[i] = f[i]
    BY <2>3, <2>4
  <2>7. g \in Seq(Parts) /\ DOMAIN g = 1 .. (d - 1)
    BY <2>3, <2>4, <2>6
  <2>8. \A i \in 1 .. (d - 1) : i \in 1 .. Len(f) /\ g[i] \in Ent
    <3> TAKE i \in 1 .. (d - 1)
    <3>1. i \in 1 .. Len(f) /\ ~(d <= i)
      BY <1>1, <2>3
    <3>2. i \notin Damaged(f)
      BY <2>2, <3>1
    <3> QED BY <1>2, <2>6, <3>1, <3>2
  <2>9. g \in [1 .. (d - 1) -> Ent]
    BY <2>7, <2>8
  <2>10. g \in Seq(Ent)
    BY <2>3, <2>9
  <2> QED BY <1>1, <1>4, <2>2, <2>3, <2>5, <2>6, <2>7, <2>8, <2>10
<1> QED BY <1>3, <1>4

\* In a file of one history only torn cells are damaged.
LEMMA DamagedIs ==
  ASSUME NEW w, Ordered(w), NEW h, FileOn(w, h), NEW f, ImageOf(f, w)
  PROVE  Damaged(f) = {i \in DOMAIN f : f[i] = Torn}
<1>1. Len(f) \in Nat /\ DOMAIN f = 1 .. Len(f) /\ \A i \in 1 .. Len(f) : f[i] \in Parts
  BY DEF ImageOf
<1>2. SUFFICES ASSUME NEW i \in DOMAIN f, ChainBreak(f, i) PROVE FALSE
  BY DEF Damaged
<1>3. i - 1 \in DOMAIN f /\ f[i - 1] # Torn /\ f[i] # Torn /\ f[i].op = f[i - 1].op + 1
      /\ f[i - 1] # Parent(f[i])
  BY <1>1, <1>2 DEF ChainBreak
<1>4. f[i] \in Ent /\ f[i - 1] \in Ent
  BY <1>1, <1>3 DEF Parts
<1>5. On(f[i], h) /\ On(f[i - 1], h)
  <2>1. i \in DOMAIN w /\ f[i] = w[i].e
    BY <1>3 DEF ImageOf
  <2>2. i - 1 \in DOMAIN w /\ f[i - 1] = w[i - 1].e
    BY <1>3 DEF ImageOf
  <2> QED BY <2>1, <2>2 DEF FileOn
<1> QED BY <1>3, <1>4, <1>5, NoBreak

\* In any file the chain does not break before the fork.
LEMMA WholeBeforeFork ==
  ASSUME NEW f, f \in Seq(Parts), NEW i \in DOMAIN f, f[i] # Torn, f[i].op < Fork
  PROVE  i \notin Damaged(f)
<1>1. SUFFICES ASSUME ChainBreak(f, i) PROVE FALSE
  BY DEF Damaged
<1>2. Len(f) \in Nat /\ DOMAIN f = 1 .. Len(f) /\ \A j \in 1 .. Len(f) : f[j] \in Parts
  OBVIOUS
<1>3. i - 1 \in DOMAIN f /\ f[i - 1] # Torn /\ f[i].op = f[i - 1].op + 1 /\ f[i - 1] # Parent(f[i])
  BY <1>1, <1>2 DEF ChainBreak
<1>4. f[i] \in Ent /\ f[i - 1] \in Ent
  BY <1>2, <1>3 DEF Parts
<1>5. f[i].op \in Nat /\ f[i - 1].op \in Nat /\ Fork \in Nat
  BY <1>4, EntryIsWhole, JournalAssumption
<1>6. On(f[i], 1) /\ On(f[i - 1], 1)
  BY <1>3, <1>5 DEF On
<1> QED BY <1>3, <1>4, <1>6, NoBreak

\* A synced cell is read back by every boot that accepts the file, if the file is of one
\* history or the cell before the fork.
LEMMA SyncedSurvive ==
  ASSUME NEW w, Ordered(w), NEW f, ImageOf(f, w), NEW r, ~damage_refused(f, r),
         NEW i \in DOMAIN w, w[i].synced, w[i].e.op < Fork \/ \E h : FileOn(w, h)
  PROVE  i \in DOMAIN scanned(f) /\ scanned(f)[i] = w[i].e
<1>1. i \in DOMAIN f /\ f[i] = w[i].e /\ f[i] \in Ent /\ f \in Seq(Parts)
  BY DEF ImageOf, Ordered
<1>2. f[i] # Torn
  BY <1>1, EntryIsWhole
<1>3. CASE Damaged(f) = {}
  BY <1>1, <1>3, ScannedIs
<1>4. CASE Damaged(f) # {}
  <2>1. PICK d : d = FirstDamage(f)
    OBVIOUS
  <2>2. d \in Damaged(f) /\ Len(scanned(f)) = d - 1 /\ scanned(f) \in Seq(Ent)
        /\ \A j \in DOMAIN scanned(f) : scanned(f)[j] = f[j]
    BY <1>1, <1>4, <2>1, ScannedIs
  <2>3. d \in DOMAIN f /\ i # d
    <3>1. CASE w[i].e.op < Fork
      <4>1. i \notin Damaged(f)
        BY <1>1, <1>2, <3>1, WholeBeforeFork
      <4> QED BY <2>2, <4>1 DEF Damaged
    <3>2. CASE \E h : FileOn(w, h)
      BY <1>2, <2>2, <3>2, DamagedIs
    <3> QED BY <3>1, <3>2
  <2>4. ~(i \in d + 1 .. Len(f))
    BY <1>2, <1>4, <2>1 DEF damage_refused
  <2>5. i < d
    BY <1>1, <2>3, <2>4
  <2>6. i \in DOMAIN scanned(f)
    <3>1. i \in Nat /\ i >= 1 /\ d \in Nat
      BY <1>1, <2>3
    <3>2. DOMAIN scanned(f) = 1 .. (d - 1)
      BY <2>2
    <3> QED BY <2>5, <3>1, <3>2
  <2> QED BY <1>1, <2>2, <2>6
<1> QED BY <1>3, <1>4

\* The entry that occupies a slot is the last of its cells.
LEMMA OccupantIs ==
  ASSUME NEW f, NEW n \in Nat, NEW s
  PROVE  LET I == {i \in 1 .. n : slot_for_op(f[i].op) = s}
         IN /\ I = {} => Occupant(f, s, n) = None
            /\ I # {} => \E i \in I : /\ Occupant(f, s, n) = [e |-> f[i], at |-> i]
                                      /\ \A j \in I : j <= i
<1>1. PICK I : I = {i \in 1 .. n : slot_for_op(f[i].op) = s}
  OBVIOUS
<1>2. CASE I = {}
  BY <1>1, <1>2 DEF Occupant
<1>3. CASE I # {}
  <2>1. I \subseteq 0 .. n
    BY <1>1
  <2>2. \E i \in I : \A j \in I : j <= i
    BY <1>3, <2>1, GreatestNat
  <2>3. PICK i : i = CHOOSE k \in I : \A j \in I : j <= k
    OBVIOUS
  <2>4. i \in I /\ \A j \in I : j <= i
    BY <2>2, <2>3
  <2>5. Occupant(f, s, n) = [e |-> f[i], at |-> i]
    BY <1>1, <1>3, <2>3 DEF Occupant
  <2> QED BY <1>1, <1>3, <2>4, <2>5
<1> QED BY <1>2, <1>3

\* A file that no failed sync spoilt: only the last cell may be unsynced or
\* torn, and of two entries of one slot the first is in the checkpoint.
Sound(w, ck) ==
    /\ Ordered(w)
    /\ \A i, j \in DOMAIN w : i < j =>
          /\ w[i].synced
          /\ w[j].e # Torn /\ slot_for_op(w[i].e.op) = slot_for_op(w[j].e.op) => w[i].e.op <= ck

\* A boot accepts it if it is of one history.
LEMMA SoundIsAccepted ==
  ASSUME ckpt \in Nat, NEW w, Sound(w, ckpt), NEW h, FileOn(w, h), NEW f, ImageOf(f, w), NEW r
  PROVE  ~scan_refuses(f, r)
<1>1. /\ Len(f) \in Nat /\ DOMAIN f = 1 .. Len(f) /\ f \in Seq(Parts) /\ Len(f) <= Len(w)
      /\ Len(w) \in Nat /\ DOMAIN w = 1 .. Len(w)
  BY DEF ImageOf, Sound, Ordered
<1>2. \A i \in DOMAIN f : f[i] = Torn => i = Len(w)
  <2> TAKE i \in DOMAIN f
  <2>1. i \in DOMAIN w /\ Len(w) \in DOMAIN w
    BY <1>1
  <2>2. i < Len(w) => w[i].synced
    BY <2>1 DEF Sound
  <2>3. w[i].synced => f[i] = w[i].e /\ w[i].e \in Ent
    BY <2>1 DEF Sound, Ordered, ImageOf
  <2> QED BY <1>1, <2>1, <2>2, <2>3, EntryIsWhole
<1>3. ~damage_refused(f, r)
  <2>1. SUFFICES ASSUME Damaged(f) # {}, NEW i \in FirstDamage(f) + 1 .. Len(f) PROVE FALSE
    BY DEF damage_refused
  <2>2. FirstDamage(f) \in Damaged(f)
    BY <1>1, <2>1, ScannedIs
  <2>3. FirstDamage(f) \in DOMAIN f /\ f[FirstDamage(f)] = Torn
    BY <2>2, DamagedIs DEF Sound
  <2>4. FirstDamage(f) = Len(w)
    BY <1>2, <2>3
  <2> QED BY <1>1, <2>1, <2>4
<1>4. ~collision_refused(f)
  <2>1. SUFFICES ASSUME NEW j \in DOMAIN scanned(f), NEW x,
                        x = Occupant(f, slot_for_op(f[j].op), j - 1),
                        x # None, x.e.op > ckpt
                 PROVE  FALSE
    BY DEF collision_refused
  <2>2. j \in DOMAIN f /\ f[j] = scanned(f)[j] /\ scanned(f)[j] \in Ent
    BY <1>1, ScannedIs
  <2>3. j - 1 \in Nat
    BY <1>1, <2>2
  <2>4. PICK I : I = {i \in 1 .. (j - 1) : slot_for_op(f[i].op) = slot_for_op(f[j].op)}
    OBVIOUS
  <2>5. PICK i \in I : x = [e |-> f[i], at |-> i]
    BY <2>1, <2>3, <2>4, OccupantIs
  <2>6. i \in DOMAIN f /\ i < j /\ slot_for_op(f[i].op) = slot_for_op(f[j].op) /\ x.e = f[i]
    BY <1>1, <2>2, <2>4, <2>5
  <2>7. f[j] # Torn /\ j \in DOMAIN w /\ f[j] = w[j].e
    BY <2>2, EntryIsWhole DEF ImageOf
  <2>8. i \in DOMAIN w /\ w[i].synced
    BY <2>6, <2>7 DEF ImageOf, Sound
  <2>9. f[i] = w[i].e /\ w[i].e \in Ent
    BY <2>8 DEF ImageOf, Sound, Ordered
  <2>10. w[i].e.op <= ckpt
    BY <2>6, <2>7, <2>8, <2>9 DEF Sound
  <2>11. PICK a : a = x.e.op /\ a = w[i].e.op
    BY <2>6, <2>9
  <2> QED BY <2>1, <2>9, <2>10, <2>11, EntryIsWhole
<1> QED BY <1>3, <1>4 DEF scan_refuses

-----------------------------------------------------------------------------
(* The files of the invariant *)

\* The slots hold what the index type says.
LEMMA HeldIs ==
  ASSUME NEW idx, IndexType(idx)
  PROVE  /\ \A x \in HeldIn(idx) : /\ x \in HeldRecord /\ x # None /\ x.e \in Ent
                                   /\ idx[slot_for_op(x.e.op)] = x
         /\ \A s \in DOMAIN idx : idx[s] # None => idx[s] \in HeldIn(idx)
<1>1. ASSUME NEW x \in HeldIn(idx)
      PROVE  x \in HeldRecord /\ x # None /\ x.e \in Ent /\ idx[slot_for_op(x.e.op)] = x
  <2>1. PICK s \in DOMAIN idx : x = idx[s] /\ x # None
    BY DEF HeldIn
  <2>2. x \in HeldRecord
    BY <2>1 DEF IndexType
  <2>3. slot_for_op(x.e.op) = s
    BY <2>1 DEF IndexType
  <2> QED BY <2>1, <2>2, <2>3 DEF HeldRecord
<1>2. \A s \in DOMAIN idx : idx[s] # None => idx[s] \in HeldIn(idx)
  BY DEF HeldIn
<1> QED BY <1>1, <1>2

\* The open file, and the old one of a rewrite.
LEMMA FileOrdered == ASSUME NEW w, NEW b, SettledOk(w, b) PROVE Ordered(w)
<1>1. Len(w) \in Nat /\ DOMAIN w = 1 .. Len(w) /\ b \in Nat /\ Len(w) <= b + 1
  BY DEF SettledOk
<1>2. ASSUME NEW i \in DOMAIN w, w[i].synced PROVE w[i].e \in Ent
  <2>1. i \in 1 .. Len(w)
    BY <1>1
  <2>2. CASE i = b + 1
    <3>1. Len(w) = b + 1
      <4>1. PICK n \in Nat : n = Len(w)
        BY <1>1
      <4>2. b + 1 \in 1 .. n /\ n <= b + 1
        BY <1>1, <2>1, <2>2, <4>1
      <4>3. n = b + 1
        BY <1>1, <4>2
      <4> QED BY <4>1, <4>3
    <3> QED BY <1>2, <2>2, <3>1 DEF SettledOk
  <2>3. CASE i # b + 1
    <3>1. i \in 1 .. b
      BY <1>1, <2>1, <2>3
    <3> QED BY <3>1 DEF SettledOk
  <2> QED BY <2>2, <2>3
<1> QED BY <1>2 DEF SettledOk, Ordered

\* Until a sync fails it is sound.
LEMMA FileSound ==
  ASSUME NEW w, NEW b, NEW idx, NEW ck \in Nat, FileOk(w, b, idx, ck, 0), IndexType(idx)
  PROVE  Sound(w, ck)
<1>1. /\ SettledOk(w, b) /\ IndexOk(w, b, idx) /\ TailOk(w, b, idx, ck) /\ CleanOk(w, b, idx, ck)
      /\ Ordered(w)
  BY FileOrdered DEF FileOk
<1>2. Len(w) \in Nat /\ DOMAIN w = 1 .. Len(w) /\ b \in Nat /\ b <= Len(w) /\ Len(w) <= b + 1
  BY <1>1 DEF SettledOk
<1>3. ASSUME NEW i \in DOMAIN w, NEW j \in DOMAIN w, i < j
      PROVE  /\ w[i].synced
             /\ w[j].e # Torn /\ slot_for_op(w[i].e.op) = slot_for_op(w[j].e.op) => w[i].e.op <= ck
  <2>1. i \in 1 .. b
    BY <1>2, <1>3
  <2>2. w[i].synced
    BY <1>1, <2>1 DEF CleanOk
  <2>3. SUFFICES ASSUME w[j].e # Torn, slot_for_op(w[i].e.op) = slot_for_op(w[j].e.op)
                 PROVE  w[i].e.op <= ck
    BY <2>2
  <2>4. PICK s, x : s = slot_for_op(w[i].e.op) /\ x = idx[s]
    OBVIOUS
  <2>5. x # None /\ i <= x.at /\ (i = x.at \/ w[i].e.op <= ck)
    BY <1>1, <2>1, <2>4 DEF CleanOk
  <2>6. CASE j \in 1 .. b
    <3>1. j <= x.at
      BY <1>1, <2>3, <2>4, <2>6 DEF CleanOk
    <3>2. i # x.at
      BY <1>2, <1>3, <2>6, <3>1
    <3> QED BY <2>5, <3>2
  <2>7. CASE j \notin 1 .. b
    <3>1. j = b + 1 /\ Len(w) = b + 1
      <4>1. j \in 1 .. Len(w)
        BY <1>2
      <4>2. PICK n \in Nat : n = Len(w)
        BY <1>2
      <4>3. j \in 1 .. n /\ n <= b + 1 /\ b \in Nat /\ j \notin 1 .. b
        BY <1>2, <2>7, <4>1, <4>2
      <4>4. j = b + 1 /\ n = b + 1
        BY <4>3
      <4> QED BY <4>2, <4>4
    <3>2. x.e.op <= ck
      BY <1>1, <2>3, <2>4, <2>5, <3>1 DEF TailOk, FreeFor
    <3>3. x \in HeldIn(idx)
      <4>1. w[i].e.op \in Nat
        BY <1>1, <2>1, EntryIsWhole DEF SettledOk
      <4>2. s \in DOMAIN idx
        BY <2>4, <4>1, SlotIs DEF IndexType
      <4> QED BY <2>4, <2>5, <4>2 DEF HeldIn
    <3>4. i = x.at => w[i].e = x.e
      BY <1>1, <3>3 DEF IndexOk
    <3> QED BY <2>5, <3>2, <3>4
  <2> QED BY <2>6, <2>7
<1> QED BY <1>1, <1>3 DEF Sound

\* And so is the new file of a rewrite.
LEMMA NewFileSound ==
  ASSUME NEW w, NEW idx, NEW ck, NEW v, NEW z, NewFile(w, idx, ck, v, z)
  PROVE  w \in Seq(CellRecord) /\ Ordered(w) /\ Sound(w, ck)
<1>1. Ordered(w)
  BY DEF NewFile, Ordered
<1>2. Len(w) \in Nat /\ DOMAIN w = 1 .. Len(w)
  BY DEF NewFile
<1>3. ASSUME NEW i \in DOMAIN w, NEW j \in DOMAIN w, i < j
      PROVE  w[i].synced /\ slot_for_op(w[i].e.op) # slot_for_op(w[j].e.op)
  <2>1. i # j
    BY <1>2, <1>3
  <2> QED BY <2>1 DEF NewFile
<1>4. w \in Seq(CellRecord)
  BY DEF NewFile
<1> QED BY <1>1, <1>3, <1>4 DEF Sound

-----------------------------------------------------------------------------
(* What the invariant says of a crash *)

\* Before a checkpoint past the fork, a file is of a history that all that is held is of.
LEMMA FileOnAs ==
  ASSUME NEW w, NEW b, NEW idx, NEW ck \in Nat, FileOk(w, b, idx, ck, 0), IndexType(idx),
         ck < Fork, NEW h, \A i \in DOMAIN w : i > b => On(w[i].e, h),
         \A x \in HeldIn(idx) : On(x.e, h)
  PROVE  FileOn(w, h)
<1>1. SUFFICES ASSUME NEW i \in DOMAIN w PROVE On(w[i].e, h)
  BY DEF FileOn
<1>2. w \in Seq(CellRecord) /\ b \in Nat /\ Fork \in Nat /\ DOMAIN w = 1 .. Len(w) /\ Len(w) \in Nat
  BY JournalAssumption DEF FileOk, SettledOk
<1>3. CASE i \in 1 .. b
  <2>1. w[i].e \in Ent /\ w[i].e.op \in Nat
    BY <1>3, EntryIsWhole DEF FileOk, SettledOk
  <2>2. PICK s, x : s = slot_for_op(w[i].e.op) /\ x = idx[s]
    OBVIOUS
  <2>3. x # None /\ (i = x.at \/ w[i].e.op <= ck)
    BY <1>3, <2>2 DEF FileOk, CleanOk
  <2>4. x \in HeldIn(idx)
    BY <2>1, <2>2, <2>3, SlotIs DEF IndexType, HeldIn
  <2>5. CASE w[i].e.op <= ck
    <3>1. w[i].e.op < Fork
      BY <1>2, <2>1, <2>5
    <3> QED BY <3>1 DEF On
  <2>6. CASE i = x.at
    <3>1. w[i].e = x.e
      BY <2>4, <2>6 DEF FileOk, IndexOk
    <3> QED BY <2>4, <3>1
  <2> QED BY <2>3, <2>5, <2>6
<1>4. CASE i > b
  BY <1>4
<1> QED BY <1>2, <1>3, <1>4

\* No history is told by a torn cell.
LEMMA TornOn == \A h : On(Torn, h)
BY EntryIsWhole, JournalAssumption DEF On

\* And so is all the replica has.
LEMMA FilesOn ==
  ASSUME IInv, ~refused, sync_errors = 0, ckpt < Fork, NEW h, \A x \in Held : On(x.e, h),
         \A a \in appends : On(a.e, h)
  PROVE  AllOn(wal, stale, index, appends, h)
<1>1. IndexType(index) /\ ckpt \in Nat /\ tail \in Nat
  BY DEF IInv, Types
<1>2. \A x \in HeldIn(index) : On(x.e, h)
  BY DEF Held, HeldIn
<1>3. PICK ck \in Nat : ck = ckpt
  BY <1>1
<1>4. CASE OpenMode(wal, stale, gen, fd, tail, index, poisoned, appends, rewrite, ckpt,
                    sync_errors)
  <2>1. PICK b : b = Base(appends, tail) /\ FileOk(wal, b, index, ck, 0)
    BY <1>3, <1>4 DEF OpenMode
  <2>2. AppendOk(wal, gen, tail, index, appends, rewrite, ckpt) /\ stale = NoFile
    BY <1>4 DEF OpenMode
  <2>3. DOMAIN wal \subseteq Nat /\ b \in Nat
    BY <2>1 DEF FileOk, SettledOk
  <2>4. ASSUME NEW i \in DOMAIN wal, i > b PROVE On(wal[i].e, h)
    <3>1. CASE appends = {}
      BY <2>1, <2>2, <2>4, <3>1, TornOn DEF Base, AppendOk
    <3>2. CASE appends # {}
      <4>1. PICK a \in appends : TRUE
        BY <3>2
      <4>2. i >= tail
        BY <1>1, <2>1, <2>3, <2>4, <3>2 DEF Base
      <4>3. CASE a.written
        <5>1. wal[tail].e = a.e /\ Len(wal) = tail
          BY <2>2, <4>3 DEF AppendOk
        <5>2. i = tail
          <6>1. i \in 1 .. Len(wal)
            BY <2>1 DEF FileOk, SettledOk
          <6> QED BY <1>1, <4>2, <5>1, <6>1
        <5> QED BY <5>1, <5>2
      <4>4. CASE ~a.written
        <5>1. wal[i].e = Torn
          BY <2>2, <4>2, <4>4 DEF AppendOk
        <5> QED BY <5>1, TornOn
      <4> QED BY <4>3, <4>4
    <3> QED BY <3>1, <3>2
  <2>5. FileOn(wal, h)
    BY <1>1, <1>2, <1>3, <2>1, <2>4, FileOnAs
  <2> QED BY <1>2, <2>2, <2>5 DEF AllOn
<1>5. CASE Shadow(wal, stale, tail, index, appends, ckpt, view, sync_errors)
  <2>1. FileOn(wal, h)
    BY <1>2, <1>5 DEF Shadow, NewFile, FileOn
  <2>2. ASSUME stale # NoFile PROVE FileOn(stale, h)
    <3>1. FileOk(stale, tail, index, ck, 0)
      BY <1>3, <1>5, <2>2 DEF Shadow
    <3>2. \A i \in DOMAIN stale : i > tail => On(stale[i].e, h)
      BY <1>5, <2>2, TornOn DEF Shadow
    <3> QED BY <1>1, <1>2, <1>3, <3>1, <3>2, FileOnAs
  <2> QED BY <1>2, <2>1, <2>2 DEF AllOn
<1> QED BY <1>4, <1>5 DEF IInv, RenamedMode, PoisonedMode

\* All that is held and written is of one history, unless entries of the second were
\* appended behind superseded ones.
LEMMA OneHistory ==
  ASSUME IInv, ~refused, (sync_errors = 0 /\ ~Mixed) \/ view = 1
  PROVE  \E h \in {1, 2} : AllOn(wal, stale, index, appends, h)
<1>1. HistoryOk(wal, stale, index, appends, view, ckpt, sync_errors) /\ view \in {1, 2}
      /\ ckpt \in Nat /\ IndexType(index) /\ Fork \in Nat
  BY JournalAssumption DEF IInv, Types
<1>2. CASE view = 1
  BY <1>1, <1>2 DEF HistoryOk
<1>3. CASE view = 2 /\ ckpt >= Fork
  BY <1>1, <1>3 DEF HistoryOk
<1>4. CASE view = 2 /\ ckpt < Fork
  <2>0. \A x \in Held \cup appends : x.e.op \in Nat /\ x.e.h \in {1, 2}
    <3>1. \A x \in Held : x.e \in Ent
      BY <1>1, HeldIs DEF Held, HeldIn
    <3>2. \A a \in appends : a.e \in Ent
      BY DEF IInv, OpenMode, AppendOk, AppendRecord, RenamedMode, PoisonedMode, Shadow
    <3>3. \A e \in Ent : e.op \in Nat /\ e.h \in {1, 2}
      BY EntryIsWhole DEF Ent
    <3> QED BY <3>1, <3>2, <3>3
  <2>1. CASE Superseding
    <3>1. \A y \in Held \cup appends : On(y.e, 1)
      <4> SUFFICES ASSUME NEW y \in Held \cup appends, ~(y.e.op < Fork) PROVE y.e.h = 1
        BY DEF On
      <4>1. y.e.op >= Fork
        BY <1>1, <2>0
      <4>2. y.e.h # 2
        BY <1>4, <2>1, <4>1 DEF Mixed
      <4> QED BY <2>0, <4>2
    <3> QED BY <1>4, <3>1, FilesOn
  <2>2. CASE ~Superseding
    <3>1. \A y \in Held : On(y.e, 2)
      <4> SUFFICES ASSUME NEW y \in Held, ~(y.e.op < Fork) PROVE y.e.h = 2
        BY DEF On
      <4>1. y.e.op >= Fork
        BY <1>1, <2>0
      <4>2. y.e.h # 1
        BY <1>4, <2>2, <4>1 DEF Superseding, Divergent
      <4> QED BY <2>0, <4>2
    <3>2. \A a \in appends : On(a.e, 2)
      BY <1>1, <1>4 DEF HistoryOk
    <3> QED BY <1>4, <3>1, <3>2, FilesOn
  <2> QED BY <2>1, <2>2
<1> QED BY <1>1, <1>2, <1>3, <1>4

\* Every image is one of a file the invariant describes.
LEMMA ImageCases ==
  ASSUME IInv, ~refused, NEW f \in Images
  PROVE  \E w : /\ ImageOf(f, w) /\ Ordered(w)
                /\ (w = wal \/ (stale # NoFile /\ w = stale))
                /\ \/ \E b : FileOk(w, b, index, ckpt, sync_errors)
                   \/ w = wal /\ NewFile(w, index, ckpt, view, sync_errors)
<1>1. CASE f \in ImagesOf(wal)
  <2>1. CASE OpenMode(wal, stale, gen, fd, tail, index, poisoned, appends, rewrite, ckpt,
                      sync_errors)
    <3>1. PICK b : b = Base(appends, tail)
      OBVIOUS
    <3>2. FileOk(wal, b, index, ckpt, sync_errors)
      BY <2>1, <3>1 DEF OpenMode
    <3>3. Ordered(wal) /\ wal \in Seq(CellRecord)
      BY <3>2, FileOrdered DEF FileOk, SettledOk
    <3> QED BY <1>1, <3>2, <3>3, ImagesAre
  <2>2. CASE NewFile(wal, index, ckpt, view, sync_errors)
    <3>1. Ordered(wal) /\ wal \in Seq(CellRecord)
      BY <2>2, NewFileSound
    <3> QED BY <1>1, <2>2, <3>1, ImagesAre
  <2> QED BY <2>1, <2>2 DEF IInv, RenamedMode, PoisonedMode, Shadow
<1>2. CASE stale # NoFile /\ f \in ImagesOf(stale)
  <2>1. FileOk(stale, tail, index, ckpt, sync_errors)
    BY <1>2 DEF IInv, OpenMode, RenamedMode, PoisonedMode, Shadow
  <2>2. Ordered(stale) /\ stale \in Seq(CellRecord)
    BY <2>1, FileOrdered DEF FileOk, SettledOk
  <2> QED BY <1>2, <2>1, <2>2, ImagesAre
<1> QED BY <1>1, <1>2 DEF Images

\* Until a sync fails every file is sound.
LEMMA ImageSound ==
  ASSUME IInv, ~refused, sync_errors = 0, NEW f \in Images
  PROVE  \E w : /\ ImageOf(f, w) /\ Sound(w, ckpt)
                /\ (w = wal \/ (stale # NoFile /\ w = stale))
<1>1. PICK w : /\ ImageOf(f, w) /\ Ordered(w) /\ (w = wal \/ (stale # NoFile /\ w = stale))
               /\ \/ \E b : FileOk(w, b, index, ckpt, sync_errors)
                  \/ w = wal /\ NewFile(w, index, ckpt, view, sync_errors)
  BY ImageCases
<1>2. IndexType(index) /\ ckpt \in Nat
  BY DEF IInv, Types
<1>3. Sound(w, ckpt)
  <2>1. CASE \E b : FileOk(w, b, index, ckpt, sync_errors)
    <3>1. PICK b : FileOk(w, b, index, ckpt, 0)
      BY <2>1
    <3>2. PICK ck \in Nat : ck = ckpt
      BY <1>2
    <3>3. FileOk(w, b, index, ck, 0)
      BY <3>1, <3>2
    <3>4. Sound(w, ck)
      BY <1>2, <3>3, FileSound
    <3> QED BY <3>2, <3>4
  <2>2. CASE NewFile(w, index, ckpt, view, sync_errors)
    BY <2>2, NewFileSound
  <2> QED BY <1>1, <2>1, <2>2
<1> QED BY <1>1, <1>3

\* A boot accepts whatever a crash leaves.
LEMMA InvReboot == (Serial => IInv) => RebootIsAccepted
<1> SUFFICES ASSUME IInv, ~refused, sync_errors = 0, ~Mixed, NEW f \in Images, NEW r \in BOOLEAN
             PROVE  ~scan_refuses(f, r)
  BY DEF RebootIsAccepted
<1>1. ckpt \in Nat
  BY DEF IInv, Types
<1>2. PICK w : /\ ImageOf(f, w) /\ Sound(w, ckpt) /\ (w = wal \/ (stale # NoFile /\ w = stale))
  BY ImageSound
<1>3. PICK h \in {1, 2} : AllOn(wal, stale, index, appends, h)
  BY OneHistory
<1>4. FileOn(w, h)
  BY <1>2, <1>3 DEF AllOn
<1> QED BY <1>1, <1>2, <1>4, SoundIsAccepted

\* Completed appends survive.
LEMMA InvSurvive == (Serial => IInv) => CompletedSurvive
<1> SUFFICES ASSUME IInv, ~refused, sync_errors = 0 \/ view = 1, NEW f \in Images,
                    NEW r \in BOOLEAN, NEW x \in Held, ~scan_refuses(f, r), x.e.op > ckpt,
                    x.e.op < Fork \/ ~Superseding
             PROVE  Contains(scanned(f), x.e)
  BY DEF CompletedSurvive
<1>1. PICK w : /\ ImageOf(f, w) /\ Ordered(w) /\ (w = wal \/ (stale # NoFile /\ w = stale))
               /\ \/ \E b : FileOk(w, b, index, ckpt, sync_errors)
                  \/ w = wal /\ NewFile(w, index, ckpt, view, sync_errors)
  BY ImageCases
<1>2. IndexType(index) /\ ckpt \in Nat /\ x \in HeldIn(index) /\ view \in {1, 2} /\ Fork \in Nat
  BY JournalAssumption DEF IInv, Types, Held, HeldIn
<1>3. x.e \in Ent /\ x.e.op \in Nat
  BY <1>2, HeldIs, EntryIsWhole
<1>4. x.e.op < Fork \/ \E h : FileOn(w, h)
  <2>1. SUFFICES ASSUME ~Superseding PROVE \E h : FileOn(w, h)
    OBVIOUS
  <2>2. PICK h \in {1, 2} : AllOn(wal, stale, index, appends, h)
    BY <2>1, OneHistory DEF Mixed
  <2> QED BY <1>1, <2>2 DEF AllOn
<1>5. ~Superseded(x, index, ckpt, view)
  <2>1. ~(x.e.op <= ckpt)
    BY <1>2, <1>3
  <2>2. ASSUME view = 2, x.e.op >= Fork, NEW y \in HeldIn(index), y.e.op >= Fork, y.e.h = 1
        PROVE  FALSE
    <3>1. Superseding
      BY <2>2 DEF Superseding, Divergent, Held, HeldIn
    <3> QED BY <1>2, <1>3, <2>2, <3>1
  <2> QED BY <2>1, <2>2 DEF Superseded
<1>6. \E i \in DOMAIN w : w[i].synced /\ w[i].e = x.e
  <2>1. ASSUME NEW b, FileOk(w, b, index, ckpt, sync_errors)
        PROVE  \E i \in DOMAIN w : w[i].synced /\ w[i].e = x.e
    <3>1. x.at \in 1 .. b /\ w[x.at].e = x.e /\ w[x.at].synced
      BY <1>2, <2>1 DEF FileOk, IndexOk
    <3>2. x.at \in DOMAIN w
      BY <2>1, <3>1 DEF FileOk, SettledOk
    <3> QED BY <3>1, <3>2
  <2>2. CASE w = wal /\ NewFile(w, index, ckpt, view, sync_errors)
    BY <1>2, <1>5, <2>2 DEF NewFile
  <2> QED BY <1>1, <2>1, <2>2
<1>7. PICK i \in DOMAIN w : w[i].synced /\ w[i].e = x.e
  BY <1>6
<1>8. ~damage_refused(f, r)
  BY DEF scan_refuses
<1>9. i \in DOMAIN scanned(f) /\ scanned(f)[i] = x.e
  <2>1. i \in DOMAIN scanned(f) /\ scanned(f)[i] = w[i].e
    BY <1>1, <1>4, <1>7, <1>8, SyncedSurvive
  <2> QED BY <1>7, <2>1
<1>10. scanned(f) \in Seq(Ent)
  <2>1. f \in Seq(Parts)
    BY <1>1 DEF ImageOf
  <2> QED BY <2>1, ScannedIs
<1>11. i \in 1 .. Len(scanned(f))
  BY <1>9, <1>10
<1> QED BY <1>9, <1>11 DEF Contains

\* The index reads back.
LEMMA InvReads == (Serial => IInv) => IndexReadsBack
<1> SUFFICES ASSUME IInv, Usable, rewrite = None \/ ~rewrite.renamed, NEW x \in Held
             PROVE  x.at <= Len(wal) /\ wal[x.at].e = x.e
  BY DEF IndexReadsBack
<1>1. OpenMode(wal, stale, gen, fd, tail, index, poisoned, appends, rewrite, ckpt, sync_errors)
  BY DEF IInv, Usable, RenamedMode, PoisonedMode
<1>2. PICK b : FileOk(wal, b, index, ckpt, sync_errors)
  BY <1>1 DEF OpenMode
<1>3. x \in HeldIn(index)
  BY DEF Held, HeldIn
<1>4. x.at \in 1 .. b /\ wal[x.at].e = x.e /\ b \in Nat /\ b <= Len(wal) /\ Len(wal) \in Nat
  BY <1>2, <1>3 DEF FileOk, IndexOk, SettledOk
<1> QED BY <1>4

\* Removed entries stay removed.
LEMMA InvRemoved == (Serial => IInv) => RemovedStayRemoved
<1> SUFFICES ASSUME IInv, Usable, rewrite = None, sync_errors = 0,
                    \A x \in Held \cup appends : ~Divergent(x.e),
                    NEW f \in Images, NEW i \in DOMAIN f, Divergent(f[i])
             PROVE  FALSE
  BY DEF RemovedStayRemoved
<1>1. OpenMode(wal, stale, gen, fd, tail, index, poisoned, appends, rewrite, ckpt, sync_errors)
      /\ stale = NoFile /\ ~refused
  BY DEF IInv, Usable, RenamedMode, PoisonedMode, OpenMode
<1>2. PICK b : b = Base(appends, tail) /\ FileOk(wal, b, index, ckpt, sync_errors)
  BY <1>1 DEF OpenMode
<1>3. /\ SettledOk(wal, b) /\ IndexOk(wal, b, index) /\ CleanOk(wal, b, index, ckpt)
      /\ wal \in Seq(CellRecord) /\ b \in Nat /\ Len(wal) <= b + 1 /\ Len(wal) \in Nat
  BY <1>2 DEF FileOk, SettledOk
<1>4. ImageOf(f, wal)
  BY <1>1, <1>3, ImagesAre DEF Images
<1>5. i \in DOMAIN wal /\ i \in 1 .. Len(wal) /\ view = 2 /\ f[i].op >= Fork /\ f[i].h = 1
  BY <1>3, <1>4 DEF ImageOf, Divergent
<1>6. f[i] # Torn
  BY <1>5, JournalAssumption, EntryIsWhole
<1>7. f[i] = wal[i].e /\ f[i] \in Ent
  BY <1>4, <1>6 DEF ImageOf, Parts
<1>8. f[i].op \in Nat /\ ckpt \in Nat /\ Fork \in Nat /\ tail \in Nat
  BY <1>1, <1>7, JournalAssumption, EntryIsWhole DEF IInv, Types
<1>9. ckpt < Fork
  <2>1. ~AllOn(wal, stale, index, appends, 2)
    <3>1. ~On(f[i], 2)
      BY <1>5, <1>8 DEF On
    <3> QED BY <1>5, <1>7, <3>1 DEF AllOn, FileOn
  <2>2. ~(ckpt >= Fork)
    BY <1>1, <1>5, <2>1 DEF IInv, HistoryOk
  <2> QED BY <1>8, <2>2
<1>10. CASE i \in 1 .. b
  <2>1. PICK s, x : s = slot_for_op(wal[i].e.op) /\ x = index[s]
    OBVIOUS
  <2>2. x # None /\ (i = x.at \/ wal[i].e.op <= ckpt)
    BY <1>3, <1>10, <2>1 DEF CleanOk
  <2>3. s \in DOMAIN index
    BY <1>1, <1>7, <1>8, <2>1, SlotIs DEF IInv, Types, IndexType
  <2>4. x \in Held /\ x \in HeldIn(index)
    BY <2>1, <2>2, <2>3 DEF Held, HeldIn
  <2>5. CASE i = x.at
    <3>1. x.e = f[i]
      BY <1>3, <1>7, <2>4, <2>5 DEF IndexOk
    <3> QED BY <2>4, <3>1
  <2>6. CASE wal[i].e.op <= ckpt
    BY <1>5, <1>7, <1>8, <1>9, <2>6
  <2> QED BY <2>2, <2>5, <2>6
<1>11. CASE i \notin 1 .. b
  <2>1. i = b + 1 /\ i = Len(wal)
    BY <1>3, <1>5, <1>11
  <2>2. AppendOk(wal, gen, tail, index, appends, rewrite, ckpt)
    BY <1>1 DEF OpenMode
  <2>3. CASE appends = {}
    <3>1. i > tail
      BY <1>2, <1>8, <2>1, <2>3 DEF Base
    <3> QED BY <1>5, <1>6, <1>7, <2>2, <2>3, <3>1 DEF AppendOk
  <2>4. CASE appends # {}
    <3>1. PICK a \in appends : TRUE
      BY <2>4
    <3>2. i = tail
      BY <1>2, <1>8, <2>1, <2>4 DEF Base
    <3>3. a.written => wal[i].e = a.e
      BY <2>2, <3>2 DEF AppendOk
    <3>4. ~a.written => wal[i].e = Torn
      BY <1>5, <1>8, <2>2, <3>2 DEF AppendOk
    <3> QED BY <1>6, <1>7, <3>1, <3>3, <3>4
  <2> QED BY <2>3, <2>4
<1> QED BY <1>10, <1>11

-----------------------------------------------------------------------------
(* The entries a rewrite copies *)

Rising(f) == \A i, j \in DOMAIN f : i < j => f[i].e.op < f[j].e.op
Risings(S, n) == {f \in [1 .. n -> S] : Rising(f)}

\* Slots of different ops.
Distinct(S) == S \in SUBSET HeldRecord /\ \A x, y \in S : x.e.op = y.e.op => x = y

\* They can be put in the order of their ops.
LEMMA HasRising ==
  ASSUME NEW S, Distinct(S), IsFiniteSet(S) PROVE Risings(S, Cardinality(S)) # {}
<1> DEFINE Bad == {n \in Nat : \E T : Distinct(T) /\ IsFiniteSet(T) /\ Cardinality(T) = n
                                      /\ Risings(T, n) = {}}
<1>1. SUFFICES ASSUME Risings(S, Cardinality(S)) = {} PROVE FALSE
  OBVIOUS
<1>2. Cardinality(S) \in Bad
  BY <1>1, FS_CardinalityType
<1>3. PICK n \in Bad : \A m \in Bad : n <= m
  <2> HIDE DEF Bad
  <2>1. Bad \subseteq Nat
    BY DEF Bad
  <2> QED BY <1>2, <2>1, LeastNat
<1>4. PICK T : Distinct(T) /\ IsFiniteSet(T) /\ Cardinality(T) = n /\ Risings(T, n) = {}
  OBVIOUS
<1>5. CASE T = {}
  <2>1. n = 0
    BY <1>4, <1>5, FS_EmptySet
  <2>2. [i \in 1 .. 0 |-> 0] \in [1 .. 0 -> T]
    OBVIOUS
  <2>3. [i \in 1 .. 0 |-> 0] \in Risings(T, 0)
    BY <2>2 DEF Risings, Rising
  <2> QED BY <1>4, <2>1, <2>3
<1>6. CASE T # {}
  <2>0. \A y \in T : y.e.op \in Nat
    BY <1>4, EntryIsWhole DEF Distinct, HeldRecord
  <2>1. PICK x \in T : \A y \in T : x.e.op <= y.e.op
    <3>1. PICK K : K = {y.e.op : y \in T}
      OBVIOUS
    <3>2. K \subseteq Nat /\ K # {}
      BY <1>6, <2>0, <3>1
    <3>3. PICK k \in K : \A l \in K : k <= l
      BY <3>2, LeastNat
    <3> QED BY <3>1, <3>3
  <2>2. IsFiniteSet(T \ {x}) /\ Cardinality(T \ {x}) = n - 1 /\ n \in Nat /\ n - 1 \in Nat
    <3>1. IsFiniteSet(T \ {x}) /\ Cardinality(T \ {x}) = n - 1 /\ n \in Nat
      BY <1>4, FS_RemoveElement, FS_CardinalityType
    <3>2. Cardinality(T \ {x}) \in Nat
      BY <3>1, FS_CardinalityType
    <3> QED BY <3>1, <3>2
  <2>3. n - 1 \notin Bad
    <3> HIDE DEF Bad
    <3> QED BY <1>3, <2>2
  <2>3a. Distinct(T \ {x})
    BY <1>4 DEF Distinct
  <2>4. PICK g \in Risings(T \ {x}, n - 1) : TRUE
    BY <2>2, <2>3, <2>3a
  <2>5. g \in [1 .. (n - 1) -> T \ {x}] /\ Rising(g)
    BY <2>4 DEF Risings
  <2>6. PICK f : f = [i \in 1 .. n |-> IF i = 1 THEN x ELSE g[i - 1]]
    OBVIOUS
  <2>7. f \in [1 .. n -> T]
    BY <2>2, <2>5, <2>6
  <2>8. ASSUME NEW i \in 1 .. n, NEW j \in 1 .. n, i < j PROVE f[i].e.op < f[j].e.op
    <3>1. j - 1 \in 1 .. (n - 1) /\ j # 1 /\ f[j] = g[j - 1] /\ g[j - 1] \in T \ {x}
      BY <2>2, <2>5, <2>6, <2>8
    <3>2. CASE i = 1
      <4>1. PICK y \in T : y = f[j] /\ y # x
        BY <3>1
      <4>2. x.e.op <= y.e.op /\ x.e.op # y.e.op /\ x.e.op \in Nat /\ y.e.op \in Nat
        BY <1>4, <2>0, <2>1, <4>1 DEF Distinct
      <4>3. f[i] = x
        BY <2>6, <3>2
      <4> QED BY <4>1, <4>2, <4>3
    <3>3. CASE i # 1
      <4>1. i - 1 \in 1 .. (n - 1) /\ f[i] = g[i - 1] /\ i - 1 < j - 1
        BY <2>2, <2>5, <2>6, <2>8, <3>3
      <4> QED BY <2>5, <3>1, <4>1 DEF Rising
    <3> QED BY <3>2, <3>3
  <2> QED BY <1>4, <2>7, <2>8 DEF Risings, Rising
<1> QED BY <1>5, <1>6

\* The sorted list copies them all, each once.
LEMMA SortedCopies ==
  ASSUME NEW S, Distinct(S), IsFiniteSet(S) PROVE Copies(SortedByOp(S), S)
<1>1. PICK n \in Nat : n = Cardinality(S)
  BY FS_CardinalityType
<1>2. \E f \in [1 .. n -> S] : \A i, j \in DOMAIN f : i < j => f[i].e.op < f[j].e.op
  BY <1>1, HasRising DEF Risings, Rising
<1>3. SortedByOp(S) \in [1 .. n -> S] /\ Rising(SortedByOp(S))
  BY <1>1, <1>2 DEF SortedByOp, Rising
<1>4. PICK f : f = SortedByOp(S)
  OBVIOUS
<1>5. \A y \in S : y.e.op \in Nat
  BY EntryIsWhole DEF Distinct, HeldRecord
<1>6. ASSUME NEW i \in 1 .. n, NEW j \in 1 .. n, f[i] = f[j] PROVE i = j
  <2>1. f[i].e.op \in Nat /\ (i < j => f[i].e.op < f[j].e.op) /\ (j < i => f[j].e.op < f[i].e.op)
    BY <1>3, <1>4, <1>5 DEF Rising
  <2>2. PICK k \in Nat : k = f[i].e.op /\ k = f[j].e.op
    BY <1>6, <2>1
  <2>3. ~(i < j) /\ ~(j < i)
    BY <2>1, <2>2
  <2> QED BY <2>3
<1>7. f \in Injection(1 .. n, S)
  BY <1>3, <1>4, <1>6 DEF Injection, IsInjective
<1>8. Cardinality(1 .. n) = n
  BY FS_Interval
<1>9. f \in Surjection(1 .. n, S)
  BY <1>1, <1>7, <1>8, FS_Injection
<1>10. f \in Seq(S) /\ DOMAIN f = 1 .. n
  BY <1>3, <1>4
<1>11. \A x \in S : \E i \in DOMAIN f : f[i] = x
  BY <1>9, <1>10 DEF Surjection
<1>12. \A i, j \in DOMAIN f : f[i] = f[j] => i = j
  BY <1>6, <1>10
<1> QED BY <1>4, <1>10, <1>11, <1>12 DEF Copies

\* The slots a rewrite keeps.
LEMMA LiveSetIs ==
  ASSUME NEW idx, IndexType(idx), NEW from, NEW to
  PROVE  Distinct(LiveSet(idx, from, to)) /\ IsFiniteSet(LiveSet(idx, from, to))
<1>1. PICK S : S = LiveSet(idx, from, to)
  OBVIOUS
<1>2. \A x \in S : x \in HeldIn(idx) /\ x \in HeldRecord /\ idx[slot_for_op(x.e.op)] = x
  BY <1>1, HeldIs DEF LiveSet
<1>3. Distinct(S)
  BY <1>2 DEF Distinct
<1>4. PICK D : D = {s \in 0 .. SlotCount - 1 : idx[s] \in S}
  OBVIOUS
<1>5. IsFiniteSet(D)
  <2>1. IsFiniteSet(0 .. SlotCount - 1)
    <3>1. 0 \in Int /\ SlotCount - 1 \in Int
      BY JournalAssumption
    <3> QED BY <3>1, FS_Interval
  <2> QED BY <1>4, <2>1, FS_Subset
<1>6. PICK g : g = [s \in D |-> idx[s]]
  OBVIOUS
<1>7. g \in Surjection(D, S)
  <2>1. g \in [D -> S]
    BY <1>4, <1>6
  <2>2. ASSUME NEW x \in S PROVE \E s \in D : g[s] = x
    <3>1. PICK s \in DOMAIN idx : x = idx[s]
      BY <1>2 DEF HeldIn
    <3>2. s \in D
      BY <1>4, <3>1 DEF IndexType
    <3> QED BY <1>6, <3>1, <3>2
  <2> QED BY <2>1, <2>2 DEF Surjection
<1>8. IsFiniteSet(S)
  BY <1>5, <1>7, FS_Surjection
<1> QED BY <1>1, <1>3, <1>8

-----------------------------------------------------------------------------
(* Appends *)

\* The invariant in a state that can append.
OpenState(w, st, gn, f, tl, idx, lo, sn, po, ap, rw, v, ck, z) ==
    /\ Types(gn, f, tl, idx, lo, sn, po, v, ck, z)
    /\ OpenMode(w, st, gn, f, tl, idx, po, ap, rw, ck, z)
    /\ LiveOk(rw, idx, ck, v, z) /\ HistoryOk(w, st, idx, ap, v, ck, z)

Opens == OpenState(wal, stale, gen, fd, tail, index, last_op, snapshot_op, poisoned, appends,
                   rewrite, view, ckpt, sync_errors)

\* Such a state keeps the invariant.
LEMMA OpensHolds == ASSUME Opens, refused \in BOOLEAN PROVE IInv
BY DEF Opens, OpenState, IInv

\* A journal with an append in flight, or one that may begin one, is open.
LEMMA IsOpen ==
  ASSUME IInv, ~refused, appends # {} \/ (~poisoned /\ rewrite = None)
  PROVE  Opens
BY DEF Opens, OpenState, IInv, RenamedMode, PoisonedMode, Shadow

\* A reservation.
LEMMA AppendKeeps ==
  ASSUME IInv, appends = {}, rewrite = None, NEW op \in 1 .. MaxOp, append(Entry(op, view))
  PROVE  IInv'
<1>1. ~refused /\ ~poisoned
  BY DEF append, Usable
<1>2. Opens
  BY <1>1, IsOpen
<1>3. Types(gen, fd, tail, index, last_op, snapshot_op, poisoned, view, ckpt, sync_errors)
  BY <1>2 DEF Opens, OpenState
<1>4. view \in {1, 2} /\ ckpt \in Nat /\ tail \in Nat /\ snapshot_op \in Nat /\ snapshot_op <= ckpt
      /\ gen \in Nat /\ IndexType(index)
  BY <1>3 DEF Types
<1>5. OpenMode(wal, stale, gen, fd, tail, index, poisoned, appends, rewrite, ckpt, sync_errors)
      /\ HistoryOk(wal, stale, index, appends, view, ckpt, sync_errors)
      /\ LiveOk(rewrite, index, ckpt, view, sync_errors)
  BY <1>2 DEF Opens, OpenState
<1>6. stale = NoFile /\ fd = gen /\ FileOk(wal, tail, index, ckpt, sync_errors)
      /\ \A i \in DOMAIN wal : i > tail => wal[i].e = Torn
  BY <1>5 DEF OpenMode, Base, AppendOk
<1>7. PICK e : e = Entry(op, view) /\ e \in Ent /\ On(e, view) /\ e.op = op
  BY <1>4, EntryIs
<1>8. PICK a : a = [e |-> e, at |-> tail + 1, gen |-> gen, written |-> FALSE]
  OBVIOUS
<1>9. /\ tail' = tail + 1 /\ appends' = {a} /\ slot_is_free(op)
      /\ UNCHANGED <<wal, stale, gen, fd, index, last_op, snapshot_op, poisoned, rewrite, refused,
                     view, ckpt, sync_errors>>
  BY <1>6, <1>7, <1>8 DEF append, memory, caller, faults
<1>10. FreeFor(e, index, ckpt)
  <2>1. PICK s, x : s = slot_for_op(op) /\ x = index[s]
    OBVIOUS
  <2>2. x = None \/ x.e.op <= snapshot_op
    BY <1>9, <2>1 DEF slot_is_free
  <2>3. s \in DOMAIN index
    BY <1>4, <2>1, SlotIs, JournalAssumption DEF IndexType
  <2>4. x # None => x.e.op \in Nat
    BY <1>4, <2>1, <2>3, HeldIs, EntryIsWhole
  <2>5. x = None \/ x.e.op <= ckpt
    BY <1>4, <2>2, <2>4
  <2> QED BY <1>7, <2>1, <2>5 DEF FreeFor
<1>11. Base({a}, tail + 1) = tail
  BY <1>4 DEF Base
<1>12. AppendOk(wal, gen, tail + 1, index, {a}, rewrite, ckpt)
  <2>1. /\ a \in AppendRecord /\ a.at = tail + 1 /\ a.gen = gen /\ a.e = e /\ ~a.written
    BY <1>4, <1>7, <1>8 DEF AppendRecord
  <2>2. \A i \in DOMAIN wal : i >= tail + 1 => wal[i].e = Torn
    <3> TAKE i \in DOMAIN wal
    <3>1. i \in Nat
      BY <1>6 DEF FileOk, SettledOk
    <3> QED BY <1>4, <1>6, <3>1
  <2> QED BY <1>10, <2>1, <2>2 DEF AppendOk
<1>13. OpenMode(wal, stale, gen, fd, tail + 1, index, poisoned, {a}, rewrite, ckpt, sync_errors)
  BY <1>5, <1>6, <1>11, <1>12 DEF OpenMode
<1>14. HistoryOk(wal, stale, index, {a}, view, ckpt, sync_errors)
  <2>1. a.e = e
    BY <1>8
  <2>2. AllOn(wal, stale, index, appends, view) => AllOn(wal, stale, index, {a}, view)
    BY <1>7, <2>1 DEF AllOn
  <2> QED BY <1>4, <1>5, <1>7, <2>1, <2>2 DEF HistoryOk
<1>15. Types(gen, fd, tail + 1, index, last_op, snapshot_op, poisoned, view, ckpt, sync_errors)
  BY <1>3 DEF Types
<1>16. OpenState(wal, stale, gen, fd, tail + 1, index, last_op, snapshot_op, poisoned, {a},
                 rewrite, view, ckpt, sync_errors)
  BY <1>5, <1>13, <1>14, <1>15 DEF OpenState
<1>17. Opens'
  BY <1>9, <1>16 DEF Opens
<1>18. refused' \in BOOLEAN
  BY <1>9 DEF IInv
<1> QED BY <1>17, <1>18 DEF Opens, OpenState, IInv

\* A backup's append.
LEMMA ReplicateKeeps == ASSUME IInv, on_replicate PROVE IInv'
<1>1. PICK op : /\ op = (IF last_op > snapshot_op THEN last_op ELSE snapshot_op) + 1
                /\ op <= MaxOp /\ append(Entry(op, view))
                /\ appends = {} /\ rewrite = None
  BY DEF on_replicate, Gate
<1>2. last_op \in Nat /\ snapshot_op \in Nat
  BY <1>1 DEF append, Usable, IInv, Types
<1>3. op \in 1 .. MaxOp
  BY <1>1, <1>2, JournalAssumption
<1> QED BY <1>1, <1>3, AppendKeeps

\* A repaired prepare.
LEMMA RepairKeeps == ASSUME IInv, Serial, repair PROVE IInv'
<1>1. appends = {} /\ rewrite = None
  BY DEF repair, Gate, Serial
<1>2. PICK op \in ckpt + 1 .. MaxOp : append(Entry(op, view))
  BY DEF repair
<1>3. ckpt \in Nat
  BY <1>2 DEF append, Usable, IInv, Types
<1>4. op \in 1 .. MaxOp
  BY <1>2, <1>3, JournalAssumption
<1> QED BY <1>1, <1>2, <1>4, AppendKeeps

-----------------------------------------------------------------------------
(* Writes and syncs of an append *)

\* A cell written after the settled ones.
LEMMA PutIs ==
  ASSUME NEW w, w \in Seq(CellRecord), NEW b \in Nat, b <= Len(w), Len(w) <= b + 1,
         NEW c \in CellRecord
  PROVE  /\ Put(w, b + 1, c) \in Seq(CellRecord) /\ Len(Put(w, b + 1, c)) = b + 1
         /\ \A i \in 1 .. b : Put(w, b + 1, c)[i] = w[i]
         /\ Put(w, b + 1, c)[b + 1] = c
<1>1. PICK n \in Nat : n = Len(w)
  OBVIOUS
<1>2. DOMAIN w = 1 .. n /\ n \in Nat /\ b <= n /\ n <= b + 1
  BY <1>1
<1>3. (IF b + 1 > n THEN b + 1 ELSE n) = b + 1
  BY <1>2
<1>4. PICK g : g = [i \in 1 .. b + 1 |-> IF i = b + 1 THEN c
                                        ELSE IF i <= n THEN w[i] ELSE Cell(Torn, FALSE)]
  OBVIOUS
<1>5. Put(w, b + 1, c) = g
  BY <1>1, <1>3, <1>4 DEF Put
<1>6. \A i \in 1 .. b + 1 : g[i] = IF i = b + 1 THEN c
                                   ELSE IF i <= n THEN w[i] ELSE Cell(Torn, FALSE)
  BY <1>4
<1>7. ASSUME NEW i \in 1 .. b PROVE g[i] = w[i] /\ g[i] \in CellRecord
  <2>1. i \in 1 .. b + 1 /\ i # b + 1 /\ i <= n /\ i \in DOMAIN w
    BY <1>2
  <2>2. w[i] \in CellRecord
    BY <2>1
  <2>3. g[i] = w[i]
    BY <1>6, <2>1
  <2> QED BY <2>2, <2>3
<1>8. g[b + 1] = c
  <2>1. b + 1 \in 1 .. b + 1
    OBVIOUS
  <2> QED BY <1>6, <2>1
<1>9. \A i \in 1 .. b + 1 : g[i] \in CellRecord
  <2> TAKE i \in 1 .. b + 1
  <2>1. i \in 1 .. b \/ i = b + 1
    OBVIOUS
  <2> QED BY <1>7, <1>8, <2>1
<1>10. g \in [1 .. b + 1 -> CellRecord]
  BY <1>4, <1>9
<1>11. g \in Seq(CellRecord) /\ Len(g) = b + 1
  BY <1>10
<1> QED BY <1>5, <1>7, <1>8, <1>11

PutOk(g, w, b, idx, ck, z, e) ==
    /\ FileOk(g, b, idx, ck, z) /\ Len(g) = b + 1 /\ DOMAIN g = 1 .. b + 1 /\ g[b + 1].e = e
    /\ \A i \in 1 .. b : g[i] = w[i]

\* Such a write leaves what is settled.
LEMMA PutKeeps ==
  ASSUME NEW w, NEW b \in Nat, NEW idx, NEW ck, NEW z, FileOk(w, b, idx, ck, z), NEW e,
         e = Torn \/ (e \in Ent /\ FreeFor(e, idx, ck))
  PROVE  PutOk(Put(w, b + 1, Cell(e, FALSE)), w, b, idx, ck, z, e)
<1>1. PICK c : c = Cell(e, FALSE)
  OBVIOUS
<1>2. c \in CellRecord /\ c.e = e /\ ~c.synced
  BY <1>1 DEF Cell, CellRecord
<1>3. /\ w \in Seq(CellRecord) /\ b <= Len(w) /\ Len(w) <= b + 1
      /\ \A i \in 1 .. b : w[i].e \in Ent
      /\ \A i, j \in DOMAIN w : i < j /\ w[j].synced => w[i].synced
      /\ Len(w) = b + 1 => ~w[b + 1].synced
  BY DEF FileOk, SettledOk
<1>4. PICK g : g = Put(w, b + 1, c)
  OBVIOUS
<1>5. /\ g \in Seq(CellRecord) /\ Len(g) = b + 1 /\ \A i \in 1 .. b : g[i] = w[i]
      /\ g[b + 1] = c
  BY <1>2, <1>3, <1>4, PutIs
<1>6. DOMAIN g = 1 .. b + 1
  BY <1>5
<1>7. SettledOk(g, b)
  <2>1. ASSUME NEW i \in DOMAIN g, NEW j \in DOMAIN g, i < j, g[j].synced PROVE g[i].synced
    <3>1. j # b + 1
      BY <1>2, <1>5, <2>1
    <3>2. i \in 1 .. b /\ j \in 1 .. b
      BY <1>6, <2>1, <3>1
    <3>3. i \in DOMAIN w /\ j \in DOMAIN w
      BY <1>3, <3>2
    <3> QED BY <1>3, <1>5, <2>1, <3>2, <3>3
  <2>2. b <= b + 1 /\ b + 1 <= b + 1
    OBVIOUS
  <2> QED BY <1>2, <1>3, <1>5, <2>1, <2>2 DEF SettledOk
<1>8. IndexOk(g, b, idx)
  BY <1>5 DEF IndexOk, FileOk
<1>9. TailOk(g, b, idx, ck)
  BY <1>2, <1>5 DEF TailOk
<1>10. z = 0 => CleanOk(g, b, idx, ck)
  BY <1>5 DEF CleanOk, FileOk
<1>11. FileOk(g, b, idx, ck, z)
  BY <1>7, <1>8, <1>9, <1>10 DEF FileOk
<1> QED BY <1>1, <1>2, <1>4, <1>5, <1>6, <1>11 DEF PutOk

\* What the invariant says of an append in flight.
Flying(a, b, w, st, gn, f, tl, idx, ap, rw, ck, z) ==
    /\ ap = {a} /\ a \in AppendRecord /\ a.at = tl /\ a.gen = gn /\ FreeFor(a.e, idx, ck)
    /\ a.e \in Ent /\ rw = None /\ st = NoFile /\ f = gn /\ b \in Nat /\ tl = b + 1
    /\ FileOk(w, b, idx, ck, z)
    /\ a.written => Len(w) = tl /\ w[tl].e = a.e
    /\ ~a.written => \A i \in DOMAIN w : i >= tl => w[i].e = Torn

\* An append in flight is the only one, and the journal is open.
LEMMA FlyingIs ==
  ASSUME IInv, ~refused, NEW a \in appends
  PROVE  /\ Opens
         /\ \E b \in Nat : Flying(a, b, wal, stale, gen, fd, tail, index, appends, rewrite, ckpt,
                                  sync_errors)
<1>1. Opens
  BY IsOpen
<1>2. OpenMode(wal, stale, gen, fd, tail, index, poisoned, appends, rewrite, ckpt, sync_errors)
      /\ tail \in Nat
  BY <1>1 DEF Opens, OpenState, Types
<1>3. AppendOk(wal, gen, tail, index, appends, rewrite, ckpt)
      /\ FileOk(wal, Base(appends, tail), index, ckpt, sync_errors)
      /\ stale = NoFile /\ fd = gen
  BY <1>2 DEF OpenMode
<1>4. appends = {a} /\ rewrite = None
  BY <1>3 DEF AppendOk
<1>5. /\ a \in AppendRecord /\ a.at = tail /\ a.gen = gen /\ FreeFor(a.e, index, ckpt)
      /\ a.written => Len(wal) = tail /\ wal[tail].e = a.e
      /\ ~a.written => \A i \in DOMAIN wal : i >= tail => wal[i].e = Torn
  BY <1>3 DEF AppendOk
<1>6. a.e \in Ent /\ tail # 0
  BY <1>5 DEF AppendRecord
<1>7. PICK b \in Nat : tail = b + 1 /\ b = tail - 1
  <2>1. tail - 1 \in Nat /\ tail = (tail - 1) + 1
    BY <1>2, <1>6
  <2> QED BY <2>1
<1>8. Base(appends, tail) = b
  BY <1>4, <1>7 DEF Base
<1>9. Flying(a, b, wal, stale, gen, fd, tail, index, appends, rewrite, ckpt, sync_errors)
  BY <1>3, <1>4, <1>5, <1>6, <1>7, <1>8 DEF Flying
<1> QED BY <1>1, <1>9

\* Files that gain no entry of another history keep what is known of the histories.
LEMMA HistoryKept ==
  ASSUME NEW w, NEW st, NEW idx, NEW ap, NEW v, NEW ck, NEW z, HistoryOk(w, st, idx, ap, v, ck, z),
         NEW w2, NEW st2, NEW idx2, NEW ap2, NEW z2, z2 = 0 => z = 0,
         \A h : AllOn(w, st, idx, ap, h) => AllOn(w2, st2, idx2, ap2, h),
         \A a2 \in ap2 : \E a \in ap : a2.e = a.e
  PROVE  HistoryOk(w2, st2, idx2, ap2, v, ck, z2)
<1>1. \A a2 \in ap2 : On(a2.e, v)
  BY DEF HistoryOk
<1> QED BY <1>1 DEF HistoryOk

\* An append that ended leaves an open journal.
LEMMA OpenAgain ==
  ASSUME NEW w, NEW b \in Nat, NEW idx, NEW ck, NEW z, NEW gn, FileOk(w, b, idx, ck, z),
         \A i \in DOMAIN w : i > b => w[i].e = Torn
  PROVE  OpenMode(w, NoFile, gn, gn, b, idx, FALSE, {}, None, ck, z)
<1>1. Base({}, b) = b
  BY DEF Base
<1>2. AppendOk(w, gn, b, idx, {}, None, ck)
  BY DEF AppendOk
<1> QED BY <1>1, <1>2 DEF OpenMode

\* The write of an append.
LEMMA WriteKeeps == ASSUME IInv, NEW a \in appends, write_append(a) PROVE IInv'
<1>1. /\ ~a.written /\ ~refused
      /\ wal' = IF a.gen = gen THEN Put(wal, a.at, Cell(a.e, FALSE)) ELSE wal
      /\ appends' = (appends \ {a}) \cup {[a EXCEPT !.written = TRUE]}
      /\ UNCHANGED <<stale, gen, fd, tail, index, last_op, snapshot_op, poisoned, rewrite, refused,
                     view, ckpt, sync_errors>>
  BY DEF write_append, memory, caller, faults
<1>2. PICK b \in Nat : Flying(a, b, wal, stale, gen, fd, tail, index, appends, rewrite, ckpt,
                              sync_errors)
  BY <1>1, FlyingIs
<1>3. /\ appends = {a} /\ a \in AppendRecord /\ a.at = tail /\ a.gen = gen
      /\ FreeFor(a.e, index, ckpt) /\ a.e \in Ent /\ rewrite = None /\ stale = NoFile /\ fd = gen
      /\ tail = b + 1 /\ FileOk(wal, b, index, ckpt, sync_errors)
  BY <1>2 DEF Flying
<1>4. PICK g : g = Put(wal, b + 1, Cell(a.e, FALSE))
  OBVIOUS
<1>5. /\ FileOk(g, b, index, ckpt, sync_errors) /\ Len(g) = b + 1 /\ DOMAIN g = 1 .. b + 1
      /\ g[b + 1].e = a.e /\ \A i \in 1 .. b : g[i] = wal[i]
  <2>1. PutOk(Put(wal, b + 1, Cell(a.e, FALSE)), wal, b, index, ckpt, sync_errors, a.e)
    BY <1>3, PutKeeps
  <2> QED BY <1>4, <2>1 DEF PutOk
<1>6. PICK c : c = [a EXCEPT !.written = TRUE]
  OBVIOUS
<1>7. c \in AppendRecord /\ c.e = a.e /\ c.at = tail /\ c.gen = gen /\ c.written
  BY <1>3, <1>6 DEF AppendRecord
<1>8. wal' = g /\ appends' = {c}
  BY <1>1, <1>3, <1>4, <1>6
<1>9. OpenState(wal, stale, gen, fd, tail, index, last_op, snapshot_op, poisoned, appends,
                rewrite, view, ckpt, sync_errors)
  BY <1>1, FlyingIs DEF Opens
<1>10. AppendOk(g, gen, tail, index, {c}, rewrite, ckpt)
  BY <1>3, <1>5, <1>7 DEF AppendOk
<1>11. Base({c}, tail) = b
  BY <1>3 DEF Base
<1>12. OpenMode(g, stale, gen, fd, tail, index, poisoned, {c}, rewrite, ckpt, sync_errors)
  BY <1>5, <1>9, <1>10, <1>11 DEF OpenState, OpenMode
<1>13. \A h : AllOn(wal, stale, index, appends, h) => AllOn(g, stale, index, {c}, h)
  <2> SUFFICES ASSUME NEW h, AllOn(wal, stale, index, appends, h)
               PROVE  AllOn(g, stale, index, {c}, h)
    OBVIOUS
  <2>1. On(a.e, h) /\ FileOn(wal, h)
    BY DEF AllOn
  <2>2. ASSUME NEW i \in DOMAIN g PROVE On(g[i].e, h)
    <3>1. CASE i = b + 1
      BY <1>5, <2>1, <3>1
    <3>2. CASE i \in 1 .. b
      <4>1. i \in DOMAIN wal
        BY <1>3, <3>2 DEF FileOk, SettledOk
      <4> QED BY <1>5, <2>1, <3>2, <4>1 DEF FileOn
    <3> QED BY <1>5, <3>1, <3>2
  <2> QED BY <1>7, <2>1, <2>2 DEF AllOn, FileOn
<1>14. HistoryOk(g, stale, index, {c}, view, ckpt, sync_errors)
  <2>1. HistoryOk(wal, stale, index, appends, view, ckpt, sync_errors)
    BY <1>9 DEF OpenState
  <2>2. \A d \in {c} : \E x \in appends : d.e = x.e
    BY <1>7
  <2> QED BY <1>13, <2>1, <2>2, HistoryKept
<1>15. OpenState(g, stale, gen, fd, tail, index, last_op, snapshot_op, poisoned, {c}, rewrite,
                 view, ckpt, sync_errors)
  BY <1>9, <1>12, <1>14 DEF OpenState
<1>16. Opens' /\ refused' \in BOOLEAN
  BY <1>1, <1>8, <1>15 DEF Opens, IInv
<1> QED BY <1>16 DEF Opens, OpenState, IInv

\* The state an append that ended leaves, if its files and its index are in order.
LEMMA Ended ==
  ASSUME Opens, NEW w, NEW b \in Nat, NEW idx, NEW lo \in Nat, NEW z \in Nat,
         FileOk(w, b, idx, ckpt, z), \A i \in DOMAIN w : i > b => w[i].e = Torn,
         IndexType(idx), stale = NoFile, fd = gen, rewrite = None, z = 0 => sync_errors = 0,
         \A h : AllOn(wal, stale, index, appends, h) => AllOn(w, stale, idx, {}, h)
  PROVE  OpenState(w, stale, gen, fd, b, idx, lo, snapshot_op, poisoned, {}, rewrite, view, ckpt, z)
<1>1. /\ Types(gen, fd, tail, index, last_op, snapshot_op, poisoned, view, ckpt, sync_errors)
      /\ HistoryOk(wal, stale, index, appends, view, ckpt, sync_errors)
      /\ ~poisoned
  BY DEF Opens, OpenState, OpenMode
<1>2. OpenMode(w, NoFile, gen, gen, b, idx, FALSE, {}, None, ckpt, z)
  BY OpenAgain
<1>3. poisoned = FALSE
  BY <1>1 DEF Types
<1>4. OpenMode(w, stale, gen, fd, b, idx, poisoned, {}, rewrite, ckpt, z)
  BY <1>2, <1>3
<1>5. HistoryOk(w, stale, idx, {}, view, ckpt, z)
  BY <1>1, HistoryKept
<1>6. Types(gen, fd, b, idx, lo, snapshot_op, poisoned, view, ckpt, z)
  BY <1>1 DEF Types
<1>7. LiveOk(rewrite, idx, ckpt, view, z)
  BY DEF LiveOk
<1> QED BY <1>4, <1>5, <1>6, <1>7 DEF OpenState

\* The write of an append fails.
LEMMA WriteFailsKeeps == ASSUME IInv, NEW a \in appends, write_fails(a) PROVE IInv'
<1>1. /\ ~a.written /\ ~refused
      /\ wal' \in {wal, IF a.gen = gen THEN Put(wal, a.at, Cell(Torn, FALSE)) ELSE wal}
      /\ appends' = appends \ {a} /\ tail' = IF tail = a.at THEN a.at - 1 ELSE tail
      /\ UNCHANGED <<stale, gen, fd, index, last_op, snapshot_op, poisoned, rewrite, refused,
                     view, ckpt, sync_errors>>
  BY DEF write_fails, Fails, memory, caller
<1>2. PICK b \in Nat : Flying(a, b, wal, stale, gen, fd, tail, index, appends, rewrite, ckpt,
                              sync_errors)
  BY <1>1, FlyingIs
<1>3. /\ appends = {a} /\ a.at = tail /\ a.gen = gen /\ rewrite = None /\ stale = NoFile
      /\ fd = gen /\ tail = b + 1 /\ FileOk(wal, b, index, ckpt, sync_errors)
      /\ \A i \in DOMAIN wal : i >= tail => wal[i].e = Torn
  BY <1>1, <1>2 DEF Flying
<1>4. PICK g : g = Put(wal, b + 1, Cell(Torn, FALSE))
  OBVIOUS
<1>5. /\ FileOk(g, b, index, ckpt, sync_errors) /\ Len(g) = b + 1 /\ DOMAIN g = 1 .. b + 1
      /\ g[b + 1].e = Torn /\ \A i \in 1 .. b : g[i] = wal[i]
  <2>1. PutOk(Put(wal, b + 1, Cell(Torn, FALSE)), wal, b, index, ckpt, sync_errors, Torn)
    BY <1>3, PutKeeps
  <2> QED BY <1>4, <2>1 DEF PutOk
<1>6. wal' \in {wal, g} /\ appends' = {} /\ tail' = b
  <2>1. Put(wal, a.at, Cell(Torn, FALSE)) = g
    BY <1>3, <1>4
  <2>2. tail' = b
    <3>1. tail' = tail - 1
      BY <1>1, <1>3
    <3> QED BY <1>3, <3>1
  <2> QED BY <1>1, <1>3, <2>1, <2>2
<1>7. DOMAIN wal \subseteq Nat /\ 1 .. b \subseteq DOMAIN wal
  BY <1>3 DEF FileOk, SettledOk
<1>8. \A i \in DOMAIN wal' : i > b => wal'[i].e = Torn
  BY <1>3, <1>5, <1>6, <1>7
<1>9. FileOk(wal', b, index, ckpt, sync_errors)
  BY <1>3, <1>5, <1>6
<1>10. \A h : AllOn(wal, stale, index, appends, h) => AllOn(wal', stale, index, {}, h)
  <2> SUFFICES ASSUME NEW h, AllOn(wal, stale, index, appends, h)
               PROVE  AllOn(wal', stale, index, {}, h)
    OBVIOUS
  <2>1. FileOn(wal, h) /\ On(Torn, h)
    BY EntryIsWhole, JournalAssumption DEF AllOn, On
  <2>2. ASSUME NEW i \in DOMAIN wal' PROVE On(wal'[i].e, h)
    BY <1>3, <1>5, <1>6, <1>7, <2>1 DEF FileOn
  <2> QED BY <2>1, <2>2 DEF AllOn, FileOn
<1>11. Opens /\ last_op \in Nat /\ sync_errors \in Nat /\ IndexType(index)
  BY <1>1, FlyingIs DEF Opens, OpenState, Types
<1>12. OpenState(wal', stale, gen, fd, b, index, last_op, snapshot_op, poisoned, {}, rewrite,
                 view, ckpt, sync_errors)
  BY <1>3, <1>8, <1>9, <1>10, <1>11, Ended
<1>13. Opens' /\ refused' \in BOOLEAN
  BY <1>1, <1>6, <1>12 DEF Opens, IInv
<1> QED BY <1>13 DEF Opens, OpenState, IInv

\* The sync of an append fails.
LEMMA SyncFailsKeeps == ASSUME IInv, NEW a \in appends, fsync_fails(a) PROVE IInv'
<1>1. /\ a.written /\ ~refused /\ appends' = appends \ {a} /\ sync_errors' = sync_errors + 1
      /\ UNCHANGED <<wal, stale, gen, fd, tail, index, last_op, snapshot_op, poisoned, rewrite,
                     refused, view, ckpt>>
  BY DEF fsync_fails, Fails, memory, caller
<1>2. PICK b \in Nat : Flying(a, b, wal, stale, gen, fd, tail, index, appends, rewrite, ckpt,
                              sync_errors)
  BY <1>1, FlyingIs
<1>3. /\ appends = {a} /\ a.e \in Ent /\ rewrite = None /\ stale = NoFile /\ fd = gen
      /\ tail = b + 1 /\ FileOk(wal, b, index, ckpt, sync_errors)
      /\ Len(wal) = b + 1 /\ wal[b + 1].e = a.e
  BY <1>1, <1>2 DEF Flying
<1>4. Opens /\ last_op \in Nat /\ sync_errors \in Nat /\ IndexType(index)
  BY <1>1, FlyingIs DEF Opens, OpenState, Types
<1>5. PICK z \in Nat : z = sync_errors + 1 /\ z # 0
  BY <1>4
<1>6. PICK t \in Nat : t = b + 1
  OBVIOUS
<1>7. FileOk(wal, t, index, ckpt, z)
  <2>1. \A i \in 1 .. t : wal[i].e \in Ent
    BY <1>3, <1>6 DEF FileOk, SettledOk
  <2>2. SettledOk(wal, t)
    BY <1>3, <1>6, <2>1 DEF FileOk, SettledOk
  <2>3. IndexOk(wal, t, index)
    BY <1>3, <1>6 DEF FileOk, IndexOk
  <2>4. TailOk(wal, t, index, ckpt)
    BY <1>3, <1>6 DEF TailOk
  <2> QED BY <1>5, <2>2, <2>3, <2>4 DEF FileOk
<1>8. \A i \in DOMAIN wal : i > t => wal[i].e = Torn
  <2>1. DOMAIN wal = 1 .. t
    BY <1>3, <1>6 DEF FileOk, SettledOk
  <2> QED BY <2>1
<1>9. \A h : AllOn(wal, stale, index, appends, h) => AllOn(wal, stale, index, {}, h)
  BY DEF AllOn
<1>10. OpenState(wal, stale, gen, fd, t, index, last_op, snapshot_op, poisoned, {}, rewrite,
                 view, ckpt, z)
  BY <1>3, <1>4, <1>5, <1>7, <1>8, <1>9, Ended
<1>11. Opens' /\ refused' \in BOOLEAN
  <2>1. appends' = {} /\ sync_errors' = z /\ tail' = t
    BY <1>1, <1>3, <1>5, <1>6
  <2> QED BY <1>1, <1>10, <2>1 DEF Opens, IInv
<1> QED BY <1>11 DEF Opens, OpenState, IInv

\* An index that differs from another in what one slot holds.
Takes(idx2, idx, s, x) ==
    /\ IndexType(idx2) /\ idx2[s] = x
    /\ \A r \in DOMAIN idx : r # s => idx2[r] = idx[r]
    /\ \A y \in HeldIn(idx2) : y \in HeldIn(idx) \/ y = x

\* The slot of an entry takes it.
LEMMA IndexTakes ==
  ASSUME NEW idx, IndexType(idx), NEW e \in Ent, NEW at \in Nat \ {0}, NEW idx2,
         idx2 = [idx EXCEPT ![slot_for_op(e.op)] = [e |-> e, at |-> at]]
  PROVE  Takes(idx2, idx, slot_for_op(e.op), [e |-> e, at |-> at])
<1>1. PICK s : s = slot_for_op(e.op) /\ s \in 0 .. SlotCount - 1
  BY SlotIs, EntryIsWhole
<1>2. PICK x : x = [e |-> e, at |-> at] /\ x \in HeldRecord /\ x.e = e
  BY DEF HeldRecord
<1>3. idx \in [0 .. SlotCount - 1 -> HeldRecord \cup {None}]
  BY DEF IndexType
<1>4. idx2 = [idx EXCEPT ![s] = x]
  BY <1>1, <1>2
<1>5. idx2 \in [0 .. SlotCount - 1 -> HeldRecord \cup {None}]
  BY <1>2, <1>3, <1>4
<1>6. idx2[s] = x /\ \A t \in 0 .. SlotCount - 1 : t # s => idx2[t] = idx[t]
  BY <1>1, <1>3, <1>4
<1>7. \A t \in DOMAIN idx2 : idx2[t] # None => slot_for_op(idx2[t].e.op) = t
  <2> TAKE t \in DOMAIN idx2
  <2>1. t \in 0 .. SlotCount - 1 /\ t \in DOMAIN idx
    BY <1>3, <1>5
  <2>2. CASE t = s
    BY <1>1, <1>2, <1>6, <2>2
  <2>3. CASE t # s
    BY <1>6, <2>1, <2>3 DEF IndexType
  <2> QED BY <2>2, <2>3
<1>8. IndexType(idx2)
  BY <1>5, <1>7 DEF IndexType
<1>9. \A y \in HeldIn(idx2) : y \in HeldIn(idx) \/ y = x
  <2> TAKE y \in HeldIn(idx2)
  <2>1. PICK t \in DOMAIN idx2 : y = idx2[t] /\ y # None
    BY DEF HeldIn
  <2>2. t \in 0 .. SlotCount - 1 /\ t \in DOMAIN idx
    BY <1>3, <1>5
  <2> QED BY <1>6, <2>1, <2>2 DEF HeldIn
<1> QED BY <1>1, <1>2, <1>3, <1>6, <1>8, <1>9 DEF Takes

\* The sync of an append.
LEMMA SyncKeeps == ASSUME IInv, NEW a \in appends, fsync(a) PROVE IInv'
<1>1. /\ a.written /\ ~refused /\ appends' = appends \ {a}
      /\ wal' = IF fd = gen THEN [i \in DOMAIN wal |-> [wal[i] EXCEPT !.synced = TRUE]] ELSE wal
      /\ index' = [index EXCEPT ![slot_for_op(a.e.op)] = [e |-> a.e, at |-> a.at]]
      /\ last_op' = IF a.e.op > last_op THEN a.e.op ELSE last_op
      /\ UNCHANGED <<stale, gen, fd, tail, snapshot_op, poisoned, rewrite, refused, view, ckpt,
                     sync_errors>>
  BY DEF fsync, Indexed, caller, faults
<1>2. PICK b \in Nat : Flying(a, b, wal, stale, gen, fd, tail, index, appends, rewrite, ckpt,
                              sync_errors)
  BY <1>1, FlyingIs
<1>3. /\ appends = {a} /\ a.e \in Ent /\ a.at = tail /\ rewrite = None /\ stale = NoFile
      /\ fd = gen /\ tail = b + 1 /\ FileOk(wal, b, index, ckpt, sync_errors)
      /\ Len(wal) = b + 1 /\ wal[b + 1].e = a.e /\ FreeFor(a.e, index, ckpt)
  BY <1>1, <1>2 DEF Flying
<1>4. Opens /\ last_op \in Nat /\ sync_errors \in Nat /\ IndexType(index) /\ ckpt \in Nat
  BY <1>1, FlyingIs DEF Opens, OpenState, Types
<1>5. PICK t \in Nat : t = b + 1 /\ t # 0
  OBVIOUS
<1>6. PICK x, s : /\ x = [e |-> a.e, at |-> t] /\ x.e = a.e /\ x.at = t /\ x # None
                  /\ s = slot_for_op(a.e.op)
  <2>1. PICK x : x = [e |-> a.e, at |-> t]
    OBVIOUS
  <2>2. x.e = a.e /\ x.at = t /\ DOMAIN x = {"e", "at"}
    BY <2>1
  <2>3. DOMAIN None = {"none"}
    BY DEF None
  <2>4. x # None
    BY <2>2, <2>3
  <2> QED BY <2>1, <2>2, <2>4
<1>7. PICK g : g = wal'
  OBVIOUS
<1>8. /\ wal \in Seq(CellRecord) /\ DOMAIN wal = 1 .. t /\ \A i \in 1 .. b : wal[i].e \in Ent
  BY <1>3, <1>5 DEF FileOk, SettledOk
<1>9. g \in Seq(CellRecord) /\ Len(g) = t /\ DOMAIN g = 1 .. t
      /\ \A i \in 1 .. t : g[i].e = wal[i].e /\ g[i].synced /\ g[i].e \in Ent
  <2>1. g = [i \in 1 .. t |-> [wal[i] EXCEPT !.synced = TRUE]]
    BY <1>1, <1>3, <1>7, <1>8
  <2>2. ASSUME NEW i \in 1 .. t
        PROVE  g[i] \in CellRecord /\ g[i].e = wal[i].e /\ g[i].synced /\ g[i].e \in Ent
    <3>1. wal[i] \in CellRecord
      BY <1>8
    <3>2. g[i] = [wal[i] EXCEPT !.synced = TRUE]
      BY <2>1
    <3>3. g[i] \in CellRecord /\ g[i].e = wal[i].e /\ g[i].synced
      BY <3>1, <3>2 DEF CellRecord
    <3>4. wal[i].e \in Ent
      <4>1. i \in 1 .. b \/ i = b + 1
        BY <1>5
      <4> QED BY <1>3, <1>8, <4>1
    <3> QED BY <3>3, <3>4
  <2>3. g \in [1 .. t -> CellRecord]
    BY <2>1, <2>2
  <2>4. g \in Seq(CellRecord) /\ Len(g) = t /\ DOMAIN g = 1 .. t
    BY <2>3
  <2> QED BY <2>2, <2>4
<1>10. PICK idx : idx = index'
  OBVIOUS
<1>11. idx = [index EXCEPT ![slot_for_op(a.e.op)] = [e |-> a.e, at |-> t]]
  BY <1>1, <1>3, <1>5, <1>10
<1>12. /\ IndexType(idx) /\ idx[s] = x
       /\ \A r \in DOMAIN index : r # s => idx[r] = index[r]
       /\ \A y \in HeldIn(idx) : y \in HeldIn(index) \/ y = x
  <2>1. t \in Nat \ {0}
    BY <1>5
  <2>2. Takes(idx, index, slot_for_op(a.e.op), [e |-> a.e, at |-> t])
    BY <1>3, <1>4, <1>11, <2>1, IndexTakes
  <2> QED BY <1>6, <2>2 DEF Takes
<1>13. SettledOk(g, t)
  BY <1>9 DEF SettledOk
<1>14. IndexOk(g, t, idx)
  <2> SUFFICES ASSUME NEW y \in HeldIn(idx)
               PROVE  y.at \in 1 .. t /\ g[y.at].e = y.e /\ g[y.at].synced
    BY DEF IndexOk
  <2>1. CASE y = x
    BY <1>3, <1>5, <1>6, <1>9, <2>1
  <2>2. CASE y \in HeldIn(index)
    <3>1. y.at \in 1 .. b /\ wal[y.at].e = y.e
      BY <1>3, <2>2 DEF FileOk, IndexOk
    <3>2. y.at \in 1 .. t
      BY <1>5, <3>1
    <3> QED BY <1>9, <3>1, <3>2
  <2> QED BY <1>12, <2>1, <2>2
<1>15. TailOk(g, t, idx, ckpt)
  BY <1>9 DEF TailOk
<1>16. ASSUME sync_errors = 0 PROVE CleanOk(g, t, idx, ckpt)
  <2>1. CleanOk(wal, b, index, ckpt) /\ IndexOk(wal, b, index)
    BY <1>3, <1>16 DEF FileOk
  <2> SUFFICES ASSUME NEW i \in 1 .. t
               PROVE  LET y == idx[slot_for_op(g[i].e.op)]
                      IN g[i].synced /\ y # None /\ i <= y.at /\ (i = y.at \/ g[i].e.op <= ckpt)
    BY DEF CleanOk
  <2>2. PICK r, y : r = slot_for_op(g[i].e.op) /\ y = idx[r]
    OBVIOUS
  <2>3. y # None /\ i <= y.at /\ (i = y.at \/ g[i].e.op <= ckpt)
    <3>1. CASE i = t
      <4>1. g[i].e = a.e
        BY <1>3, <1>5, <1>9, <3>1
      <4>2. y = x
        BY <1>6, <1>12, <2>2, <4>1
      <4> QED BY <1>6, <3>1, <4>2
    <3>2. CASE i # t
      <4>1. i \in 1 .. b
        BY <1>5, <3>2
      <4>2. PICK o : o = index[r]
        OBVIOUS
      <4>3. g[i].e = wal[i].e /\ r = slot_for_op(wal[i].e.op)
        BY <1>9, <2>2
      <4>4. o # None /\ i <= o.at /\ (i = o.at \/ g[i].e.op <= ckpt)
        BY <2>1, <4>1, <4>2, <4>3 DEF CleanOk
      <4>5. r \in DOMAIN index
        BY <1>4, <1>9, <2>2, SlotIs, EntryIsWhole DEF IndexType
      <4>6. CASE r # s
        BY <1>12, <2>2, <4>2, <4>4, <4>5, <4>6
      <4>7. CASE r = s
        <5>1. y = x /\ i <= y.at
          BY <1>6, <1>12, <2>2, <4>7
        <5>2. o.e.op <= ckpt
          BY <1>3, <1>6, <4>2, <4>4, <4>7 DEF FreeFor
        <5>3. o \in HeldIn(index)
          BY <1>4, <4>2, <4>4, <4>5, HeldIs
        <5>4. i = o.at => g[i].e = o.e
          BY <2>1, <4>3, <5>3 DEF IndexOk
        <5> QED BY <1>6, <4>4, <5>1, <5>2, <5>4
      <4> QED BY <4>6, <4>7
    <3> QED BY <3>1, <3>2
  <2> QED BY <1>9, <2>2, <2>3
<1>17. FileOk(g, t, idx, ckpt, sync_errors)
  BY <1>13, <1>14, <1>15, <1>16 DEF FileOk
<1>18. \A i \in DOMAIN g : i > t => g[i].e = Torn
  BY <1>9
<1>19. \A h : AllOn(wal, stale, index, appends, h) => AllOn(g, stale, idx, {}, h)
  <2> SUFFICES ASSUME NEW h, AllOn(wal, stale, index, appends, h)
               PROVE  AllOn(g, stale, idx, {}, h)
    OBVIOUS
  <2>1. On(a.e, h) /\ \A y \in HeldIn(index) : On(y.e, h)
    BY DEF AllOn
  <2>2. \A y \in HeldIn(idx) : On(y.e, h)
    BY <1>6, <1>12, <2>1
  <2>3. FileOn(g, h)
    BY <1>8, <1>9 DEF AllOn, FileOn
  <2> QED BY <2>2, <2>3 DEF AllOn
<1>20. last_op' \in Nat
  BY <1>1, <1>3, <1>4, EntryIsWhole
<1>21. PICK lo \in Nat : lo = last_op'
  BY <1>20
<1>22. OpenState(g, stale, gen, fd, t, idx, lo, snapshot_op, poisoned, {}, rewrite, view, ckpt,
                 sync_errors)
  BY <1>3, <1>4, <1>12, <1>17, <1>18, <1>19, Ended
<1>23. Opens' /\ refused' \in BOOLEAN
  <2>1. appends' = {} /\ tail' = t
    BY <1>1, <1>3, <1>5
  <2> QED BY <1>1, <1>7, <1>10, <1>21, <1>22, <2>1 DEF Opens, IInv
<1> QED BY <1>23 DEF Opens, OpenState, IInv

-----------------------------------------------------------------------------
(* Rewrites *)

\* A rewrite begins, if what it drops may be dropped.
LEMMA BeginKeeps ==
  ASSUME IInv, appends = {}, NEW kind, NEW from \in Int, NEW to \in Int,
         begin_rewrite(kind, from, to), kind = "drain" => to <= ckpt,
         sync_errors = 0 \/ view = 1 =>
             \A x \in HeldIn(index) : x.e.op \in from .. to => Superseded(x, index, ckpt, view)
  PROVE  IInv'
<1>1. /\ ~refused /\ ~poisoned /\ rewrite = None
      /\ UNCHANGED <<wal, stale, gen, fd, tail, index, last_op, snapshot_op, poisoned, appends,
                     refused, view, ckpt, sync_errors>>
  BY DEF begin_rewrite, Usable, storage, memory, caller, faults
<1>2. Opens
  BY <1>1, IsOpen
<1>3. IndexType(index)
  BY <1>2 DEF Opens, OpenState, Types
<1>4. PICK live : live = SortedByOp({x \in Held : ~(x.e.op \in from .. to)})
  OBVIOUS
<1>5. {x \in Held : ~(x.e.op \in from .. to)} = LiveSet(index, from, to)
  BY DEF Held, HeldIn, LiveSet
<1>6. Copies(live, LiveSet(index, from, to))
  BY <1>3, <1>4, <1>5, LiveSetIs, SortedCopies
<1>7. PICK rw : rw = [kind |-> kind, from |-> from, to |-> to, renamed |-> FALSE, live |-> live]
  OBVIOUS
<1>8. /\ rw.kind = kind /\ rw.from = from /\ rw.to = to /\ rw.renamed = FALSE /\ rw.live = live
  BY <1>7
<1>9. rewrite' = rw
  BY <1>4, <1>7 DEF begin_rewrite
<1>10. LiveOk(rw, index, ckpt, view, sync_errors)
  <2>1. rw = RewriteOf(rw.kind, rw.from, rw.to, rw.renamed, rw.live)
    BY <1>7, <1>8 DEF RewriteOf
  <2> QED BY <1>6, <1>8, <2>1 DEF LiveOk
<1>11. OpenMode(wal, stale, gen, fd, tail, index, poisoned, appends, rw, ckpt, sync_errors)
  BY <1>2, <1>8 DEF Opens, OpenState, OpenMode, AppendOk
<1>12. OpenState(wal, stale, gen, fd, tail, index, last_op, snapshot_op, poisoned, appends, rw,
                 view, ckpt, sync_errors)
  BY <1>2, <1>10, <1>11 DEF Opens, OpenState
<1>13. Opens' /\ refused' \in BOOLEAN
  BY <1>1, <1>9, <1>12 DEF Opens, IInv
<1> QED BY <1>13 DEF Opens, OpenState, IInv

\* A drain begins.
LEMMA DrainKeeps == ASSUME IInv, drain PROVE IInv'
<1>1. appends = {} /\ rewrite = None /\ begin_rewrite("drain", 0, ckpt - 1)
  BY DEF drain, Gate
<1>2. ckpt \in Nat /\ IndexType(index)
  BY <1>1 DEF begin_rewrite, Usable, IInv, Types
<1>3. PICK to \in Int : to = ckpt - 1 /\ to <= ckpt
  BY <1>2
<1>4. \A x \in HeldIn(index) : x.e.op \in 0 .. to => Superseded(x, index, ckpt, view)
  <2> SUFFICES ASSUME NEW x \in HeldIn(index), x.e.op \in 0 .. to
               PROVE  x.e.op <= ckpt
    BY DEF Superseded
  <2>1. x.e.op \in Nat
    BY <1>2, HeldIs, EntryIsWhole
  <2> QED BY <1>2, <1>3, <2>1
<1>5. begin_rewrite("drain", 0, to)
  BY <1>1, <1>3
<1> QED BY <1>1, <1>3, <1>4, <1>5, BeginKeeps

\* A removal begins: what is past the fork is superseded while a superseded entry is held.
LEMMA RemovalKeeps ==
  ASSUME IInv, appends = {}, NEW from \in Fork .. MaxOp, NEW to \in Int,
         begin_rewrite("remove_range", from, to), NEW y \in Held, Divergent(y.e)
  PROVE  IInv'
<1>1. view = 2 /\ y.e.op >= Fork /\ y.e.h = 1 /\ y \in HeldIn(index)
  BY DEF Divergent, Held, HeldIn
<1>2. IndexType(index) /\ from \in Int /\ Fork \in Nat
  BY JournalAssumption DEF begin_rewrite, Usable, IInv, Types
<1>3. ASSUME NEW x \in HeldIn(index), x.e.op \in from .. to PROVE Superseded(x, index, ckpt, view)
  <2>1. x.e.op \in Nat
    BY <1>2, HeldIs, EntryIsWhole
  <2>2. x.e.op >= Fork
    BY <1>2, <1>3, <2>1
  <2> QED BY <1>1, <2>2 DEF Superseded
<1>4. "remove_range" = "drain" => to <= ckpt
  OBVIOUS
<1> QED BY <1>2, <1>3, <1>4, BeginKeeps

\* A removal of a superseded run begins.
LEMMA RemoveKeeps == ASSUME IInv, Serial, remove_range PROVE IInv'
<1>1. PICK first \in Fork .. MaxOp : \E last \in first .. MaxOp :
         /\ \A op \in first .. last : \E x \in Held : x.e.op = op /\ Divergent(x.e)
         /\ begin_rewrite("remove_range", first, last)
  BY DEF remove_range
<1>2. PICK last \in first .. MaxOp :
         /\ \A op \in first .. last : \E x \in Held : x.e.op = op /\ Divergent(x.e)
         /\ begin_rewrite("remove_range", first, last)
  BY <1>1
<1>3. first \in first .. last /\ last \in Int
  BY <1>1, <1>2, JournalAssumption
<1>4. PICK y \in Held : Divergent(y.e)
  BY <1>2, <1>3
<1>5. appends = {}
  BY <1>4 DEF remove_range, Serial, Divergent
<1> QED BY <1>2, <1>3, <1>4, <1>5, RemovalKeeps

\* A removal of all above the head of the adopted log begins.
LEMMA TruncateKeeps == ASSUME IInv, Serial, truncate_from PROVE IInv'
<1>1. PICK above_head \in Fork .. MaxOp :
         /\ \E x \in Held : x.e.op >= above_head /\ Divergent(x.e)
         /\ begin_rewrite("remove_range", above_head, MaxOp)
  BY DEF truncate_from
<1>2. PICK y \in Held : Divergent(y.e)
  BY <1>1
<1>3. appends = {} /\ MaxOp \in Int
  BY <1>2, JournalAssumption DEF truncate_from, Serial, Divergent
<1> QED BY <1>1, <1>2, <1>3, RemovalKeeps

\* What the invariant says of a rewrite before its rename.
LEMMA Unrenamed ==
  ASSUME IInv, ~refused, rewrite # None, ~rewrite.renamed
  PROVE  /\ Opens /\ appends = {} /\ stale = NoFile /\ fd = gen /\ tail \in Nat /\ ~poisoned
         /\ FileOk(wal, tail, index, ckpt, sync_errors) /\ IndexType(index)
         /\ \A i \in DOMAIN wal : i > tail => wal[i].e = Torn
<1>1. Opens
  BY DEF Opens, OpenState, IInv, RenamedMode, PoisonedMode
<1>2. OpenMode(wal, stale, gen, fd, tail, index, poisoned, appends, rewrite, ckpt, sync_errors)
  BY <1>1 DEF Opens, OpenState
<1>3. appends = {}
  BY <1>2 DEF OpenMode, AppendOk
<1>4. Base(appends, tail) = tail
  BY <1>3 DEF Base
<1>5. tail \in Nat /\ IndexType(index)
  BY <1>1 DEF Opens, OpenState, Types
<1>6. \A i \in DOMAIN wal : i > tail => wal[i].e = Torn
  BY <1>2, <1>3 DEF OpenMode, AppendOk
<1> QED BY <1>1, <1>2, <1>3, <1>4, <1>5, <1>6 DEF OpenMode

\* A function on an initial segment is a sequence.
LEMMA SegmentIsSeq ==
  ASSUME NEW S, NEW n \in Nat, NEW f \in [1 .. n -> S]
  PROVE  f \in Seq(S) /\ Len(f) = n /\ DOMAIN f = 1 .. n
OBVIOUS

CopyOf(g, idx, rw) ==
    /\ DOMAIN g = DOMAIN rw.live
    /\ \A i \in DOMAIN g : g[i].e = rw.live[i].e /\ rw.live[i] \in HeldIn(idx)

\* The copy of the live entries.
LEMMA CopyIs ==
  ASSUME NEW w, NEW b, NEW idx, NEW ck, NEW z, FileOk(w, b, idx, ck, z), IndexType(idx), NEW v,
         NEW rw, rw # None, LiveOk(rw, idx, ck, v, z), NEW g,
         g = [i \in DOMAIN rw.live |-> Cell(w[rw.live[i].at].e, TRUE)]
  PROVE  NewFile(g, idx, ck, v, z) /\ CopyOf(g, idx, rw)
<1>1. PICK live, S : live = rw.live /\ S = LiveSet(idx, rw.from, rw.to)
  OBVIOUS
<1>2. /\ live \in Seq(S) /\ \A x \in S : \E i \in DOMAIN live : live[i] = x
      /\ \A i, j \in DOMAIN live : live[i] = live[j] => i = j
  BY <1>1 DEF LiveOk, Copies
<1>3. PICK n \in Nat : n = Len(live) /\ DOMAIN live = 1 .. n
  BY <1>2
<1>4. S \subseteq HeldIn(idx)
  BY <1>1 DEF LiveSet
<1>5. DOMAIN g = 1 .. n
  BY <1>1, <1>3
<1>6. ASSUME NEW i \in 1 .. n
      PROVE  /\ g[i] \in CellRecord /\ g[i].e = live[i].e /\ g[i].synced /\ g[i].e \in Ent
             /\ live[i] \in HeldIn(idx) /\ idx[slot_for_op(g[i].e.op)] = live[i]
  <2>1. live[i] \in HeldIn(idx)
    BY <1>2, <1>3, <1>4
  <2>2. live[i].e \in Ent /\ idx[slot_for_op(live[i].e.op)] = live[i]
    BY <2>1, HeldIs
  <2>3. w[live[i].at].e = live[i].e
    BY <2>1 DEF FileOk, IndexOk
  <2>4. g[i] = Cell(live[i].e, TRUE)
    BY <1>1, <1>3, <2>3
  <2>5. g[i] \in CellRecord /\ g[i].e = live[i].e /\ g[i].synced
    <3>1. PICK c, e : c = g[i] /\ e = live[i].e
      OBVIOUS
    <3>2. e \in Ent /\ c = [e |-> e, synced |-> TRUE]
      BY <2>2, <2>4, <3>1 DEF Cell
    <3>3. c \in CellRecord /\ c.e = e /\ c.synced
      BY <3>2 DEF CellRecord
    <3> QED BY <3>1, <3>3
  <2> QED BY <2>1, <2>2, <2>5
<1>7. g \in Seq(CellRecord)
  <2>1. g \in [1 .. n -> CellRecord]
    BY <1>1, <1>3, <1>6
  <2> QED BY <1>3, <2>1, SegmentIsSeq
<1>8. \A i, j \in DOMAIN g : slot_for_op(g[i].e.op) = slot_for_op(g[j].e.op) => i = j
  <2> SUFFICES ASSUME NEW i \in 1 .. n, NEW j \in 1 .. n,
                      slot_for_op(g[i].e.op) = slot_for_op(g[j].e.op)
               PROVE  i = j
    BY <1>5
  <2>1. live[i] = live[j]
    <3>1. idx[slot_for_op(g[i].e.op)] = live[i]
      BY <1>6
    <3>2. idx[slot_for_op(g[j].e.op)] = live[j]
      BY <1>6
    <3> QED BY <3>1, <3>2
  <2> QED BY <1>2, <1>3, <2>1
<1>9. ASSUME z = 0 \/ v = 1, NEW x \in HeldIn(idx)
      PROVE  Superseded(x, idx, ck, v) \/ \E i \in DOMAIN g : g[i].e = x.e
  <2>1. CASE x.e.op \in rw.from .. rw.to
    BY <1>9, <2>1 DEF LiveOk
  <2>2. CASE ~(x.e.op \in rw.from .. rw.to)
    <3>1. x \in S
      BY <1>1, <2>2 DEF LiveSet
    <3>2. PICK i \in DOMAIN live : live[i] = x
      BY <1>2, <3>1
    <3> QED BY <1>3, <1>5, <1>6, <3>2
  <2> QED BY <2>1, <2>2
<1>10. NewFile(g, idx, ck, v, z)
  <2>1. \A i \in DOMAIN g : \E x \in HeldIn(idx) : x.e = g[i].e
    BY <1>5, <1>6
  <2> QED BY <1>5, <1>6, <1>7, <1>8, <1>9, <2>1 DEF NewFile
<1> QED BY <1>1, <1>3, <1>5, <1>6, <1>10 DEF CopyOf

\* The rename is recorded.
LEMMA MarksRenamed ==
  ASSUME NEW x, x = RewriteOf(x.kind, x.from, x.to, x.renamed, x.live)
  PROVE  [x EXCEPT !.renamed = TRUE] = RewriteOf(x.kind, x.from, x.to, TRUE, x.live)
<1>1. PICK k, f, t, r, l, y, u :
          /\ x = RewriteOf(k, f, t, r, l) /\ y = RewriteOf(k, f, t, TRUE, l)
          /\ u = [x EXCEPT !.renamed = TRUE]
          /\ k = x.kind /\ f = x.from /\ t = x.to /\ r = x.renamed /\ l = x.live
  OBVIOUS
<1>2. /\ DOMAIN x = {"kind", "from", "to", "renamed", "live"}
      /\ DOMAIN y = {"kind", "from", "to", "renamed", "live"}
  BY <1>1 DEF RewriteOf
<1>3. \A s \in DOMAIN x : u[s] = y[s]
  <2>1. x.kind = k /\ x.from = f /\ x.to = t /\ x.live = l
    BY <1>1 DEF RewriteOf
  <2>2. y.kind = k /\ y.from = f /\ y.to = t /\ y.live = l /\ y.renamed = TRUE
    BY <1>1 DEF RewriteOf
  <2>3. u.renamed = TRUE /\ u.kind = x.kind /\ u.from = x.from /\ u.to = x.to /\ u.live = x.live
    BY <1>1, <1>2
  <2> QED BY <1>2, <2>1, <2>2, <2>3
<1>4. u = [s \in DOMAIN x |-> u[s]]
  BY <1>1
<1>5. y = [s \in DOMAIN x |-> y[s]]
  BY <1>1, <1>2 DEF RewriteOf
<1> QED BY <1>1, <1>3, <1>4, <1>5

\* The invariant after a rename.
RenamedState(w, st, gn, f, tl, idx, lo, sn, po, ap, rw, v, ck, z) ==
    /\ Types(gn, f, tl, idx, lo, sn, po, v, ck, z)
    /\ RenamedMode(w, st, tl, idx, po, ap, rw, ck, v, z)
    /\ LiveOk(rw, idx, ck, v, z) /\ HistoryOk(w, st, idx, ap, v, ck, z)

\* The temporary file takes the journal's place.
LEMMA RenameKeeps == ASSUME IInv, rename PROVE IInv'
<1>1. /\ ~refused /\ rewrite # None /\ ~rewrite.renamed
      /\ wal' = [i \in DOMAIN rewrite.live |-> Cell(wal[rewrite.live[i].at].e, TRUE)]
      /\ stale' = wal /\ gen' = gen + 1 /\ rewrite' = [rewrite EXCEPT !.renamed = TRUE]
      /\ UNCHANGED <<fd, tail, index, last_op, snapshot_op, poisoned, appends, refused, view, ckpt,
                     sync_errors>>
  BY DEF rename, memory, caller, faults
<1>2. /\ Opens /\ appends = {} /\ stale = NoFile /\ ~poisoned
      /\ FileOk(wal, tail, index, ckpt, sync_errors) /\ IndexType(index)
      /\ \A i \in DOMAIN wal : i > tail => wal[i].e = Torn
  BY <1>1, Unrenamed
<1>3. LiveOk(rewrite, index, ckpt, view, sync_errors)
      /\ HistoryOk(wal, stale, index, appends, view, ckpt, sync_errors)
      /\ Types(gen, fd, tail, index, last_op, snapshot_op, poisoned, view, ckpt, sync_errors)
  BY <1>2 DEF Opens, OpenState
<1>4. PICK g : g = wal'
  OBVIOUS
<1>5. /\ NewFile(g, index, ckpt, view, sync_errors) /\ DOMAIN g = DOMAIN rewrite.live
      /\ \A i \in DOMAIN g : g[i].e = rewrite.live[i].e /\ rewrite.live[i] \in HeldIn(index)
  <2>1. g = [i \in DOMAIN rewrite.live |-> Cell(wal[rewrite.live[i].at].e, TRUE)]
    BY <1>1, <1>4
  <2>2. NewFile(g, index, ckpt, view, sync_errors) /\ CopyOf(g, index, rewrite)
    BY <1>1, <1>2, <1>3, <2>1, CopyIs
  <2> QED BY <2>2 DEF CopyOf
<1>6. PICK rw : rw = RewriteOf(rewrite.kind, rewrite.from, rewrite.to, TRUE, rewrite.live)
  OBVIOUS
<1>7. /\ rw.kind = rewrite.kind /\ rw.from = rewrite.from /\ rw.to = rewrite.to /\ rw.renamed = TRUE
      /\ rw.live = rewrite.live /\ rw # None
      /\ rw = RewriteOf(rw.kind, rw.from, rw.to, rw.renamed, rw.live)
  <2>1. /\ rw.kind = rewrite.kind /\ rw.from = rewrite.from /\ rw.to = rewrite.to
        /\ rw.renamed = TRUE /\ rw.live = rewrite.live
        /\ DOMAIN rw = {"kind", "from", "to", "renamed", "live"}
    BY <1>6 DEF RewriteOf
  <2>2. DOMAIN None = {"none"}
    BY DEF None
  <2>3. rw # None
    BY <2>1, <2>2
  <2> QED BY <1>6, <2>1, <2>3
<1>8. rewrite' = rw
  <2>1. rewrite = RewriteOf(rewrite.kind, rewrite.from, rewrite.to, rewrite.renamed, rewrite.live)
    BY <1>1, <1>3 DEF LiveOk
  <2>2. PICK x : x = rewrite
    OBVIOUS
  <2>3. [x EXCEPT !.renamed = TRUE] = RewriteOf(x.kind, x.from, x.to, TRUE, x.live)
    BY <2>1, <2>2, MarksRenamed
  <2> QED BY <1>1, <1>6, <2>2, <2>3
<1>9. LiveOk(rw, index, ckpt, view, sync_errors)
  BY <1>1, <1>3, <1>7 DEF LiveOk
<1>10. RenamedMode(g, wal, tail, index, poisoned, appends, rw, ckpt, view, sync_errors)
  BY <1>2, <1>5, <1>7 DEF RenamedMode, Shadow
<1>11. \A h : AllOn(wal, stale, index, appends, h) => AllOn(g, wal, index, appends, h)
  <2> SUFFICES ASSUME NEW h, AllOn(wal, stale, index, appends, h)
               PROVE  AllOn(g, wal, index, appends, h)
    OBVIOUS
  <2>1. FileOn(g, h)
    BY <1>5 DEF AllOn, FileOn
  <2> QED BY <2>1 DEF AllOn
<1>12. HistoryOk(g, wal, index, appends, view, ckpt, sync_errors)
  BY <1>3, <1>11, HistoryKept
<1>13. Types(gen + 1, fd, tail, index, last_op, snapshot_op, poisoned, view, ckpt, sync_errors)
  BY <1>3 DEF Types
<1>14. RenamedState(g, wal, gen + 1, fd, tail, index, last_op, snapshot_op, poisoned, appends, rw,
                    view, ckpt, sync_errors)
  BY <1>9, <1>10, <1>12, <1>13 DEF RenamedState
<1>15. RenamedState(wal, stale, gen, fd, tail, index, last_op, snapshot_op, poisoned, appends,
                    rewrite, view, ckpt, sync_errors)'
  BY <1>1, <1>4, <1>8, <1>14
<1>16. refused' \in BOOLEAN
  BY <1>1 DEF IInv
<1> QED BY <1>15, <1>16 DEF RenamedState, IInv

\* A failed rewrite.
LEMMA RewriteFailsKeeps == ASSUME IInv, rewrite_fails PROVE IInv'
<1>1. /\ ~refused /\ ~poisoned /\ rewrite # None /\ poisoned' = rewrite.renamed /\ rewrite' = None
      /\ stale' \in {stale, IF rewrite.renamed THEN NoFile ELSE stale}
      /\ UNCHANGED <<wal, gen, fd, tail, index, last_op, snapshot_op, appends, refused, view, ckpt,
                     sync_errors>>
  BY DEF rewrite_fails, Usable, caller
<1>2. refused' \in BOOLEAN
  BY <1>1 DEF IInv
<1>3. LiveOk(rewrite, index, ckpt, view, sync_errors)
      /\ LiveOk(None, index, ckpt, view, sync_errors)
      /\ HistoryOk(wal, stale, index, appends, view, ckpt, sync_errors)
      /\ Types(gen, fd, tail, index, last_op, snapshot_op, poisoned, view, ckpt, sync_errors)
  BY <1>1 DEF IInv, LiveOk
<1>4. rewrite.renamed \in BOOLEAN
  BY <1>1, <1>3 DEF LiveOk
<1>5. CASE ~rewrite.renamed
  <2>1. stale' = stale /\ poisoned' = FALSE /\ poisoned = FALSE
    BY <1>1, <1>3, <1>4, <1>5 DEF Types
  <2>2. Opens
    BY <1>1, <1>5, Unrenamed
  <2>3. OpenMode(wal, stale, gen, fd, tail, index, FALSE, appends, None, ckpt, sync_errors)
    BY <2>2 DEF Opens, OpenState, OpenMode, AppendOk
  <2>4. OpenState(wal, stale, gen, fd, tail, index, last_op, snapshot_op, FALSE, appends, None,
                  view, ckpt, sync_errors)
    BY <1>3, <2>1, <2>3 DEF OpenState
  <2>5. Opens'
    BY <1>1, <2>1, <2>4 DEF Opens
  <2> QED BY <1>2, <2>5 DEF Opens, OpenState, IInv
<1>6. CASE rewrite.renamed
  <2>1. RenamedMode(wal, stale, tail, index, poisoned, appends, rewrite, ckpt, view, sync_errors)
    BY <1>1, <1>6 DEF IInv, OpenMode, PoisonedMode
  <2>2. PICK st : st = stale' /\ (st = stale \/ st = NoFile)
    BY <1>1, <1>6
  <2>3. PoisonedMode(wal, st, tail, index, TRUE, appends, None, ckpt, view, sync_errors)
    BY <2>1, <2>2 DEF RenamedMode, PoisonedMode, Shadow
  <2>4. HistoryOk(wal, st, index, appends, view, ckpt, sync_errors)
    <3>1. \A h : AllOn(wal, stale, index, appends, h) => AllOn(wal, st, index, appends, h)
      BY <2>2 DEF AllOn
    <3> QED BY <1>3, <3>1, HistoryKept
  <2>5. Types(gen, fd, tail, index, last_op, snapshot_op, TRUE, view, ckpt, sync_errors)
    BY <1>3 DEF Types
  <2>6. poisoned' = TRUE
    BY <1>1, <1>4, <1>6
  <2>7. PoisonedMode(wal, stale, tail, index, poisoned, appends, rewrite, ckpt, view, sync_errors)'
    BY <1>1, <2>2, <2>3, <2>6
  <2>8. /\ Types(gen, fd, tail, index, last_op, snapshot_op, poisoned, view, ckpt, sync_errors)'
        /\ LiveOk(rewrite, index, ckpt, view, sync_errors)'
        /\ HistoryOk(wal, stale, index, appends, view, ckpt, sync_errors)'
    BY <1>1, <1>3, <2>2, <2>4, <2>5, <2>6
  <2> QED BY <1>2, <2>7, <2>8 DEF IInv
<1> QED BY <1>5, <1>6

\* What the invariant says of a rewrite after its rename.
LEMMA RenamedIs ==
  ASSUME IInv, ~refused, ~poisoned, rewrite # None, rewrite.renamed
  PROVE  RenamedState(wal, stale, gen, fd, tail, index, last_op, snapshot_op, poisoned, appends,
                      rewrite, view, ckpt, sync_errors)
BY DEF IInv, RenamedState, OpenMode, PoisonedMode

\* Where a live entry is in the new file.
LEMMA OffsetIs ==
  ASSUME NEW x \in Held, NewFile(wal, index, ckpt, view, sync_errors), IndexType(index),
         LiveOk(rewrite, index, ckpt, view, sync_errors), rewrite # None, ~InRewrite(x)
  PROVE  /\ NewOffset(x) \in DOMAIN rewrite.live /\ rewrite.live[NewOffset(x)] = x
         /\ \A i \in DOMAIN rewrite.live : rewrite.live[i] = x => i = NewOffset(x)
<1>1. PICK live, S : live = rewrite.live /\ S = LiveSet(index, rewrite.from, rewrite.to)
  OBVIOUS
<1>2. /\ live \in Seq(S) /\ \A y \in S : \E i \in DOMAIN live : live[i] = y
      /\ \A i, j \in DOMAIN live : live[i] = live[j] => i = j
  BY <1>1 DEF LiveOk, Copies
<1>3. x \in S /\ x \in HeldIn(index)
  BY <1>1 DEF LiveSet, InRewrite, Held, HeldIn
<1>4. PICK k \in DOMAIN live : live[k] = x
  BY <1>2, <1>3
<1>5. PICK n : n = CHOOSE i \in DOMAIN live : live[i].e.op = x.e.op
  OBVIOUS
<1>6. n \in DOMAIN live /\ live[n].e.op = x.e.op
  BY <1>4, <1>5
<1>7. NewOffset(x) = n
  BY <1>1, <1>4, <1>5 DEF NewOffset
<1>8. live[n] \in HeldIn(index)
  <2>1. live[n] \in S
    BY <1>2, <1>6
  <2> QED BY <1>1, <2>1 DEF LiveSet
<1>9. live[n] = x
  <2>1. index[slot_for_op(x.e.op)] = x /\ index[slot_for_op(live[n].e.op)] = live[n]
    BY <1>3, <1>8, HeldIs
  <2> QED BY <1>6, <2>1
<1> QED BY <1>1, <1>2, <1>6, <1>7, <1>9

\* The file is reopened and the index rebuilt.
LEMMA FinishKeeps == ASSUME IInv, finish_rewrite PROVE IInv'
<1>1. /\ ~refused /\ ~poisoned /\ rewrite # None /\ rewrite.renamed
      /\ fd' = gen /\ tail' = Len(wal) /\ rewrite' = None /\ stale' = NoFile
      /\ index' = [s \in DOMAIN index |->
                      IF index[s] = None THEN None
                      ELSE IF InRewrite(index[s]) THEN None
                      ELSE [index[s] EXCEPT !.at = Offsets[index[s]]]]
      /\ snapshot_op' = IF rewrite.kind = "drain" /\ rewrite.to > snapshot_op
                        THEN rewrite.to ELSE snapshot_op
      /\ last_op' = IF rewrite.kind = "drain" THEN last_op
                    ELSE IF rewrite.live = <<>> THEN 0 ELSE Last(rewrite.live).e.op
      /\ UNCHANGED <<wal, gen, poisoned, appends, refused, view, ckpt, sync_errors>>
  BY DEF finish_rewrite, Rewritten, Usable, caller, faults
<1>2. /\ Types(gen, fd, tail, index, last_op, snapshot_op, poisoned, view, ckpt, sync_errors)
      /\ RenamedMode(wal, stale, tail, index, poisoned, appends, rewrite, ckpt, view, sync_errors)
      /\ LiveOk(rewrite, index, ckpt, view, sync_errors)
      /\ HistoryOk(wal, stale, index, appends, view, ckpt, sync_errors)
  BY <1>1, RenamedIs DEF RenamedState
<1>3. /\ NewFile(wal, index, ckpt, view, sync_errors) /\ appends = {}
      /\ DOMAIN wal = DOMAIN rewrite.live /\ \A i \in DOMAIN wal : wal[i].e = rewrite.live[i].e
  BY <1>2 DEF RenamedMode, Shadow
<1>4. IndexType(index) /\ ckpt \in Nat /\ snapshot_op \in Nat /\ snapshot_op <= ckpt
      /\ last_op \in Nat
  BY <1>2 DEF Types
<1>5. /\ wal \in Seq(CellRecord) /\ \A i \in DOMAIN wal : wal[i].e \in Ent /\ wal[i].synced
  BY <1>3 DEF NewFile
<1>6. PICK n \in Nat : n = Len(wal) /\ DOMAIN wal = 1 .. n
  BY <1>5
<1>7. PICK live : /\ live = rewrite.live /\ live \in Seq(LiveSet(index, rewrite.from, rewrite.to))
                  /\ \A i, j \in DOMAIN live : live[i] = live[j] => i = j
  BY <1>1, <1>2 DEF LiveOk, Copies
<1>8. \A i \in DOMAIN live : live[i] \in Held /\ live[i] \in HeldIn(index) /\ ~InRewrite(live[i])
  <2> TAKE i \in DOMAIN live
  <2>1. live[i] \in LiveSet(index, rewrite.from, rewrite.to)
    BY <1>7
  <2> QED BY <2>1 DEF LiveSet, InRewrite, Held, HeldIn
<1>9. PICK idx : idx = index' /\ DOMAIN idx = DOMAIN index
  BY <1>1
<1>10. ASSUME NEW s \in DOMAIN index, index[s] # None, ~InRewrite(index[s])
       PROVE  \E k \in 1 .. n : /\ idx[s] = [e |-> index[s].e, at |-> k] /\ live[k] = index[s]
                                /\ \A i \in 1 .. n : live[i] = index[s] => i = k
  <2>1. PICK x : x = index[s]
    OBVIOUS
  <2>2. x \in Held /\ x \in HeldIn(index)
    BY <1>10, <2>1 DEF Held, HeldIn
  <2>3. x \in HeldRecord
    BY <1>4, <2>2, HeldIs
  <2>4. PICK k : k = NewOffset(x)
    OBVIOUS
  <2>5. k \in DOMAIN live /\ live[k] = x /\ \A i \in DOMAIN live : live[i] = x => i = k
    <3>1. /\ NewOffset(x) \in DOMAIN rewrite.live /\ rewrite.live[NewOffset(x)] = x
          /\ \A i \in DOMAIN rewrite.live : rewrite.live[i] = x => i = NewOffset(x)
      BY <1>1, <1>2, <1>3, <1>4, <1>10, <2>1, <2>2, OffsetIs
    <3> QED BY <1>7, <2>4, <3>1
  <2>6. Offsets[x] = k
    BY <2>2, <2>4 DEF Offsets
  <2>7. idx[s] = [x EXCEPT !.at = k]
    BY <1>1, <1>9, <1>10, <2>1, <2>6
  <2>8. [x EXCEPT !.at = k] = [e |-> x.e, at |-> k]
    BY <2>3 DEF HeldRecord
  <2>9. DOMAIN live = 1 .. n
    BY <1>3, <1>6, <1>7
  <2>10. idx[s] = [e |-> index[s].e, at |-> k] /\ live[k] = index[s]
    BY <2>1, <2>5, <2>7, <2>8
  <2> QED BY <2>1, <2>5, <2>9, <2>10
<1>11. ASSUME NEW s \in DOMAIN index, index[s] = None \/ InRewrite(index[s])
       PROVE  idx[s] = None
  BY <1>1, <1>9, <1>11
<1>12. \A x \in HeldIn(idx) : \E y \in HeldIn(index), k \in 1 .. n :
            x = [e |-> y.e, at |-> k] /\ live[k] = y
  <2> TAKE x \in HeldIn(idx)
  <2>1. PICK s \in DOMAIN index : x = idx[s] /\ x # None
    BY <1>9 DEF HeldIn
  <2>2. index[s] # None /\ ~InRewrite(index[s])
    BY <1>11, <2>1
  <2>3. index[s] \in HeldIn(index)
    BY <2>2 DEF HeldIn
  <2> QED BY <1>10, <2>1, <2>2, <2>3
<1>13. IndexType(idx)
  <2>1. index \in [0 .. SlotCount - 1 -> HeldRecord \cup {None}]
        /\ DOMAIN index = 0 .. SlotCount - 1
    BY <1>4 DEF IndexType
  <2>2. ASSUME NEW s \in DOMAIN index, idx[s] # None
        PROVE  idx[s] \in HeldRecord /\ slot_for_op(idx[s].e.op) = s
    <3>1. index[s] # None /\ ~InRewrite(index[s])
      BY <1>11, <2>2
    <3>2. PICK k \in 1 .. n : idx[s] = [e |-> index[s].e, at |-> k]
      BY <1>10, <3>1
    <3>3. index[s] \in HeldRecord /\ slot_for_op(index[s].e.op) = s
      BY <1>4, <2>1, <3>1 DEF IndexType
    <3>4. PICK e : e = index[s].e /\ e \in Ent /\ slot_for_op(e.op) = s
      BY <3>3 DEF HeldRecord
    <3>5. idx[s] \in HeldRecord /\ idx[s].e = e
      BY <3>2, <3>4 DEF HeldRecord
    <3> QED BY <3>4, <3>5
  <2>3. idx \in [0 .. SlotCount - 1 -> HeldRecord \cup {None}]
    <3>1. idx = [s \in 0 .. SlotCount - 1 |-> idx[s]]
      BY <1>1, <1>9, <2>1
    <3>2. \A s \in 0 .. SlotCount - 1 : idx[s] \in HeldRecord \cup {None}
      BY <2>1, <2>2
    <3> QED BY <3>1, <3>2
  <2> QED BY <1>9, <2>2, <2>3 DEF IndexType
<1>14. SettledOk(wal, n)
  BY <1>5, <1>6 DEF SettledOk
<1>15. IndexOk(wal, n, idx)
  <2> SUFFICES ASSUME NEW x \in HeldIn(idx)
               PROVE  x.at \in 1 .. n /\ wal[x.at].e = x.e /\ wal[x.at].synced
    BY DEF IndexOk
  <2>1. PICK y \in HeldIn(index), k \in 1 .. n : x = [e |-> y.e, at |-> k] /\ live[k] = y
    BY <1>12
  <2>2. x.at = k /\ x.e = y.e
    BY <2>1
  <2>3. wal[k].e = y.e /\ wal[k].synced
    BY <1>3, <1>5, <1>6, <1>7, <2>1
  <2> QED BY <2>2, <2>3
<1>16. TailOk(wal, n, idx, ckpt)
  BY <1>6 DEF TailOk
<1>17. CleanOk(wal, n, idx, ckpt)
  <2> SUFFICES ASSUME NEW i \in 1 .. n
               PROVE  LET x == idx[slot_for_op(wal[i].e.op)]
                      IN wal[i].synced /\ x # None /\ i <= x.at /\ (i = x.at \/ wal[i].e.op <= ckpt)
    BY DEF CleanOk
  <2>1. PICK s, x : s = slot_for_op(wal[i].e.op) /\ x = idx[s]
    OBVIOUS
  <2>2. i \in DOMAIN live /\ wal[i].e = live[i].e /\ wal[i].e \in Ent /\ wal[i].synced
    BY <1>3, <1>5, <1>6, <1>7
  <2>3. index[s] = live[i] /\ live[i] # None /\ ~InRewrite(live[i])
    BY <1>4, <1>8, <2>1, <2>2, HeldIs
  <2>4. s \in DOMAIN index
    BY <1>4, <2>1, <2>2, SlotIs, EntryIsWhole DEF IndexType
  <2>5. PICK k \in 1 .. n : /\ idx[s] = [e |-> index[s].e, at |-> k]
                            /\ \A j \in 1 .. n : live[j] = index[s] => j = k
    BY <1>10, <2>3, <2>4
  <2>6. k = i
    BY <2>3, <2>5
  <2>7. x.at = i /\ x # None
    <3>1. x = [e |-> index[s].e, at |-> i]
      BY <2>1, <2>5, <2>6
    <3>2. DOMAIN x = {"e", "at"} /\ x.at = i
      BY <3>1
    <3>3. DOMAIN None = {"none"}
      BY DEF None
    <3> QED BY <3>2, <3>3
  <2>8. i <= x.at
    BY <2>7
  <2> QED BY <2>1, <2>2, <2>7, <2>8
<1>18. FileOk(wal, n, idx, ckpt, sync_errors)
  BY <1>14, <1>15, <1>16, <1>17 DEF FileOk
<1>19. OpenMode(wal, NoFile, gen, gen, n, idx, FALSE, {}, None, ckpt, sync_errors)
  <2>1. \A i \in DOMAIN wal : i > n => wal[i].e = Torn
    BY <1>6
  <2> QED BY <1>18, <2>1, OpenAgain
<1>20. PICK sn \in Nat : sn = snapshot_op' /\ sn <= ckpt
  <2>1. rewrite.to \in Int /\ (rewrite.kind = "drain" => rewrite.to <= ckpt)
    BY <1>1, <1>2 DEF LiveOk
  <2> QED BY <1>1, <1>4, <2>1
<1>21. PICK lo \in Nat : lo = last_op'
  <2>1. CASE rewrite.kind = "drain"
    BY <1>1, <1>4, <2>1
  <2>2. CASE rewrite.kind # "drain" /\ live = <<>>
    BY <1>1, <1>7, <2>2
  <2>3. CASE rewrite.kind # "drain" /\ live # <<>>
    <3>1. Len(live) \in DOMAIN live
      BY <1>7, <2>3
    <3>2. Last(live).e.op \in Nat
      BY <1>4, <1>8, <3>1, HeldIs, EntryIsWhole DEF Last
    <3> QED BY <1>1, <1>7, <2>3, <3>2
  <2> QED BY <2>1, <2>2, <2>3
<1>22. Types(gen, gen, n, idx, lo, sn, FALSE, view, ckpt, sync_errors)
  BY <1>2, <1>13, <1>20 DEF Types
<1>23. HistoryOk(wal, NoFile, idx, {}, view, ckpt, sync_errors)
  <2>1. \A h : AllOn(wal, stale, index, appends, h) => AllOn(wal, NoFile, idx, {}, h)
    <3> SUFFICES ASSUME NEW h, AllOn(wal, stale, index, appends, h)
                 PROVE  \A x \in HeldIn(idx) : On(x.e, h)
      BY DEF AllOn
    <3> TAKE x \in HeldIn(idx)
    <3>1. PICK y \in HeldIn(index), k \in 1 .. n : x = [e |-> y.e, at |-> k]
      BY <1>12
    <3>2. x.e = y.e
      BY <3>1
    <3> QED BY <3>2 DEF AllOn
  <2> QED BY <1>2, <2>1, HistoryKept
<1>24. OpenState(wal, NoFile, gen, gen, n, idx, lo, sn, FALSE, {}, None, view, ckpt, sync_errors)
  BY <1>19, <1>22, <1>23 DEF OpenState, LiveOk
<1>25. poisoned' = FALSE
  BY <1>1, <1>2 DEF Types
<1>26. Opens' /\ refused' \in BOOLEAN
  BY <1>1, <1>3, <1>6, <1>9, <1>20, <1>21, <1>24, <1>25 DEF Opens, IInv
<1> QED BY <1>26 DEF Opens, OpenState, IInv

-----------------------------------------------------------------------------
(* Boots *)

\* Of two kept entries of one slot the first is in the checkpoint.
LEMMA KeptIs ==
  ASSUME IInv, ~refused, sync_errors = 0, NEW f \in Images, NEW i \in DOMAIN scanned(f),
         NEW j \in DOMAIN scanned(f), i < j,
         slot_for_op(scanned(f)[i].op) = slot_for_op(scanned(f)[j].op)
  PROVE  scanned(f)[i].op <= ckpt
<1>1. PICK w : ImageOf(f, w) /\ Sound(w, ckpt)
  BY ImageSound
<1>2. PICK kept : kept = scanned(f)
  OBVIOUS
<1>3. f \in Seq(Parts) /\ \A k \in DOMAIN f : k \in DOMAIN w /\ (f[k] = Torn \/ f[k] = w[k].e)
  BY <1>1 DEF ImageOf
<1>4. kept \in Seq(Ent) /\ \A k \in DOMAIN kept : k \in DOMAIN f /\ kept[k] = f[k]
  BY <1>2, <1>3, ScannedIs
<1>5. \A k \in DOMAIN kept : k \in DOMAIN w /\ kept[k] = w[k].e /\ w[k].e # Torn
  <2> TAKE k \in DOMAIN kept
  <2>1. kept[k] \in Ent
    BY <1>4
  <2> QED BY <1>3, <1>4, <2>1, EntryIsWhole
<1>6. i \in DOMAIN kept /\ j \in DOMAIN kept
      /\ slot_for_op(kept[i].op) = slot_for_op(kept[j].op)
  BY <1>2
<1>7. w[i].e.op <= ckpt
  BY <1>1, <1>5, <1>6 DEF Sound
<1> QED BY <1>2, <1>5, <1>6, <1>7

\* What a crash leaves is of the histories the files were of.
LEMMA KeptOn ==
  ASSUME IInv, ~refused, NEW f \in Images, NEW h, AllOn(wal, stale, index, appends, h),
         NEW i \in DOMAIN scanned(f)
  PROVE  On(scanned(f)[i], h)
<1>1. PICK w : ImageOf(f, w) /\ (w = wal \/ (stale # NoFile /\ w = stale))
  BY ImageCases
<1>2. FileOn(w, h)
  BY <1>1 DEF AllOn
<1>3. f \in Seq(Parts) /\ \A k \in DOMAIN f : k \in DOMAIN w /\ (f[k] = Torn \/ f[k] = w[k].e)
  BY <1>1 DEF ImageOf
<1>4. scanned(f) \in Seq(Ent) /\ i \in DOMAIN f /\ scanned(f)[i] = f[i]
  BY <1>3, ScannedIs
<1>5. scanned(f)[i] \in Ent
  BY <1>4
<1>6. i \in DOMAIN w /\ scanned(f)[i] = w[i].e
  BY <1>3, <1>4, <1>5, EntryIsWhole
<1> QED BY <1>2, <1>6 DEF FileOn

\* The file and the index a boot makes of the kept entries.
Booted(g, idx, kept, n) ==
    /\ g \in Seq(CellRecord) /\ Len(g) = n /\ DOMAIN g = 1 .. n
    /\ \A i \in 1 .. n : g[i].e = kept[i] /\ g[i].synced /\ kept[i] \in Ent
    /\ IndexType(idx)
    /\ \A s \in DOMAIN idx : idx[s] # None =>
          \E i \in 1 .. n : idx[s] = [e |-> kept[i], at |-> i] /\ slot_for_op(kept[i].op) = s
    /\ \A i \in 1 .. n : \E j \in 1 .. n :
          /\ idx[slot_for_op(kept[i].op)] = [e |-> kept[j], at |-> j]
          /\ i <= j /\ slot_for_op(kept[i].op) = slot_for_op(kept[j].op)

\* A record of a slot.
LEMMA RecordIs ==
  ASSUME NEW e, NEW at
  PROVE  [e |-> e, at |-> at] # None /\ [e |-> e, at |-> at].e = e /\ [e |-> e, at |-> at].at = at
<1>1. PICK x : x = [e |-> e, at |-> at]
  OBVIOUS
<1>2. DOMAIN x = {"e", "at"} /\ x.e = e /\ x.at = at
  BY <1>1
<1>3. DOMAIN None = {"none"}
  BY DEF None
<1> QED BY <1>1, <1>2, <1>3

\* A synced cell.
LEMMA CellIs ==
  ASSUME NEW e \in Ent
  PROVE  Cell(e, TRUE) \in CellRecord /\ Cell(e, TRUE).e = e /\ Cell(e, TRUE).synced
BY DEF Cell, CellRecord

\* A boot makes them.
LEMMA BootedIs ==
  ASSUME NEW kept, kept \in Seq(Ent), NEW n \in Nat, n = Len(kept), NEW g, NEW idx,
         g = [i \in DOMAIN kept |-> Cell(kept[i], TRUE)],
         idx = [s \in 0 .. SlotCount - 1 |-> Occupant(kept, s, n)]
  PROVE  Booted(g, idx, kept, n)
<1>1. DOMAIN kept = 1 .. n /\ \A i \in 1 .. n : kept[i] \in Ent
  OBVIOUS
<1>2. ASSUME NEW i \in 1 .. n
      PROVE  g[i] \in CellRecord /\ g[i].e = kept[i] /\ g[i].synced
  <2>1. g[i] = Cell(kept[i], TRUE)
    BY <1>1
  <2> QED BY <1>1, <2>1, CellIs
<1>3. g \in Seq(CellRecord) /\ Len(g) = n /\ DOMAIN g = 1 .. n
  <2>1. g \in [1 .. n -> CellRecord]
    BY <1>1, <1>2
  <2> QED BY <2>1, SegmentIsSeq
<1>4. ASSUME NEW s \in 0 .. SlotCount - 1, NEW I, I = {i \in 1 .. n : slot_for_op(kept[i].op) = s}
      PROVE  /\ I = {} => idx[s] = None
             /\ I # {} => \E i \in I : idx[s] = [e |-> kept[i], at |-> i] /\ \A j \in I : j <= i
  <2>1. idx[s] = Occupant(kept, s, n)
    OBVIOUS
  <2> QED BY <1>4, <2>1, OccupantIs
<1>5. ASSUME NEW s \in 0 .. SlotCount - 1, idx[s] # None
      PROVE  \E i \in 1 .. n : idx[s] = [e |-> kept[i], at |-> i] /\ slot_for_op(kept[i].op) = s
  <2>1. PICK I : I = {i \in 1 .. n : slot_for_op(kept[i].op) = s}
    OBVIOUS
  <2>2. PICK i \in I : idx[s] = [e |-> kept[i], at |-> i]
    BY <1>4, <1>5, <2>1
  <2> QED BY <2>1, <2>2
<1>6. DOMAIN idx = 0 .. SlotCount - 1
  OBVIOUS
<1>7. IndexType(idx)
  <2>1. ASSUME NEW s \in 0 .. SlotCount - 1, idx[s] # None
        PROVE  idx[s] \in HeldRecord /\ slot_for_op(idx[s].e.op) = s
    <3>1. PICK i \in 1 .. n : idx[s] = [e |-> kept[i], at |-> i] /\ slot_for_op(kept[i].op) = s
      BY <1>5, <2>1
    <3>2. kept[i] \in Ent /\ i \in Nat \ {0}
      BY <1>1
    <3>3. idx[s] \in HeldRecord /\ idx[s].e = kept[i]
      BY <3>1, <3>2 DEF HeldRecord
    <3> QED BY <3>1, <3>3
  <2>2. idx \in [0 .. SlotCount - 1 -> HeldRecord \cup {None}]
    BY <2>1
  <2> QED BY <1>6, <2>1, <2>2 DEF IndexType
<1>8. ASSUME NEW i \in 1 .. n
      PROVE  \E j \in 1 .. n : /\ idx[slot_for_op(kept[i].op)] = [e |-> kept[j], at |-> j]
                               /\ i <= j /\ slot_for_op(kept[i].op) = slot_for_op(kept[j].op)
  <2>1. PICK s : s = slot_for_op(kept[i].op) /\ s \in 0 .. SlotCount - 1
    BY <1>1, SlotIs, EntryIsWhole
  <2>2. PICK I : I = {k \in 1 .. n : slot_for_op(kept[k].op) = s}
    OBVIOUS
  <2>3. i \in I
    BY <2>1, <2>2
  <2>4. PICK j \in I : idx[s] = [e |-> kept[j], at |-> j] /\ \A k \in I : k <= j
    BY <1>4, <2>1, <2>2, <2>3
  <2> QED BY <2>1, <2>2, <2>3, <2>4
<1> QED BY <1>1, <1>2, <1>3, <1>5, <1>6, <1>7, <1>8 DEF Booted

\* They are in order.
LEMMA BootedFile ==
  ASSUME NEW g, NEW idx, NEW kept, NEW n \in Nat, Booted(g, idx, kept, n), NEW ck, NEW z,
         z = 0 => \A i, j \in 1 .. n :
             i < j /\ slot_for_op(kept[i].op) = slot_for_op(kept[j].op) => kept[i].op <= ck
  PROVE  FileOk(g, n, idx, ck, z)
<1>1. /\ g \in Seq(CellRecord) /\ Len(g) = n /\ DOMAIN g = 1 .. n
      /\ \A i \in 1 .. n : g[i].e = kept[i] /\ g[i].synced /\ kept[i] \in Ent
  BY DEF Booted
<1>2. SettledOk(g, n)
  BY <1>1 DEF SettledOk
<1>3. IndexOk(g, n, idx)
  <2> SUFFICES ASSUME NEW x \in HeldIn(idx)
               PROVE  x.at \in 1 .. n /\ g[x.at].e = x.e /\ g[x.at].synced
    BY DEF IndexOk
  <2>1. PICK s \in DOMAIN idx : x = idx[s] /\ x # None
    BY DEF HeldIn
  <2>2. PICK i \in 1 .. n : x = [e |-> kept[i], at |-> i]
    BY <2>1 DEF Booted
  <2>3. x.at = i /\ x.e = kept[i]
    BY <2>2
  <2> QED BY <1>1, <2>3
<1>4. TailOk(g, n, idx, ck)
  BY <1>1 DEF TailOk
<1>5. ASSUME z = 0 PROVE CleanOk(g, n, idx, ck)
  <2> SUFFICES ASSUME NEW i \in 1 .. n
               PROVE  LET x == idx[slot_for_op(g[i].e.op)]
                      IN g[i].synced /\ x # None /\ i <= x.at /\ (i = x.at \/ g[i].e.op <= ck)
    BY DEF CleanOk
  <2>1. g[i].e = kept[i] /\ g[i].synced
    BY <1>1
  <2>2. PICK j \in 1 .. n : /\ idx[slot_for_op(kept[i].op)] = [e |-> kept[j], at |-> j]
                            /\ i <= j /\ slot_for_op(kept[i].op) = slot_for_op(kept[j].op)
    BY DEF Booted
  <2>3. PICK x : x = idx[slot_for_op(g[i].e.op)] /\ x # None /\ x.at = j
    BY <2>1, <2>2, RecordIs
  <2>4. i = j \/ kept[i].op <= ck
    <3>1. i = j \/ i < j
      BY <2>2
    <3> QED BY <1>5, <2>2, <3>1
  <2> QED BY <2>1, <2>2, <2>3, <2>4
<1> QED BY <1>2, <1>3, <1>4, <1>5 DEF FileOk

\* A crash, and the boot after it.
LEMMA BootKeeps == ASSUME IInv, open_with_slots PROVE IInv'
<1>1. PICK f \in Images, r \in BOOLEAN :
         /\ refused' = scan_refuses(f, r)
         /\ wal' = [i \in DOMAIN scanned(f) |-> Cell(scanned(f)[i], TRUE)]
         /\ tail' = Len(scanned(f))
         /\ index' = [s \in DOMAIN index |-> Occupant(scanned(f), s, Len(scanned(f)))]
         /\ last_op' = IF scanned(f) = <<>> THEN 0
                       ELSE CHOOSE op \in {scanned(f)[i].op : i \in DOMAIN scanned(f)} :
                                \A i \in DOMAIN scanned(f) : scanned(f)[i].op <= op
  BY DEF open_with_slots
<1>2. /\ ~refused /\ stale' = NoFile /\ fd' = gen /\ gen' = gen /\ snapshot_op' = ckpt
      /\ poisoned' = FALSE /\ appends' = {} /\ rewrite' = None
      /\ UNCHANGED <<view, ckpt, sync_errors>>
  BY DEF open_with_slots, caller
<1>3. refused' \in BOOLEAN
  BY <1>1 DEF scan_refuses, damage_refused, collision_refused
<1>4. /\ Types(gen, fd, tail, index, last_op, snapshot_op, poisoned, view, ckpt, sync_errors)
      /\ HistoryOk(wal, stale, index, appends, view, ckpt, sync_errors)
      /\ IndexType(index) /\ ckpt \in Nat /\ gen \in Nat
  BY <1>2 DEF IInv, Types
<1>5. PICK kept : kept = scanned(f)
  OBVIOUS
<1>6. kept \in Seq(Ent)
  <2>1. PICK w : ImageOf(f, w)
    BY <1>2, ImageCases
  <2> QED BY <1>5, <2>1, ScannedIs DEF ImageOf
<1>7. PICK n \in Nat : n = Len(kept) /\ DOMAIN kept = 1 .. n
  BY <1>6
<1>8. PICK g, idx : g = wal' /\ idx = index'
  OBVIOUS
<1>9. DOMAIN index = 0 .. SlotCount - 1
  BY <1>4 DEF IndexType
<1>10. Booted(g, idx, kept, n)
  <2>1. g = [i \in DOMAIN kept |-> Cell(kept[i], TRUE)]
    BY <1>1, <1>5, <1>8
  <2>2. idx = [s \in 0 .. SlotCount - 1 |-> Occupant(kept, s, n)]
    BY <1>1, <1>5, <1>7, <1>8, <1>9
  <2> QED BY <1>6, <1>7, <2>1, <2>2, BootedIs
<1>11. sync_errors = 0 => \A i, j \in 1 .. n :
           i < j /\ slot_for_op(kept[i].op) = slot_for_op(kept[j].op) => kept[i].op <= ckpt
  BY <1>2, <1>5, <1>7, KeptIs
<1>12. FileOk(g, n, idx, ckpt, sync_errors)
  BY <1>10, <1>11, BootedFile
<1>13. OpenMode(g, NoFile, gen, gen, n, idx, FALSE, {}, None, ckpt, sync_errors)
  <2>1. \A i \in DOMAIN g : i > n => g[i].e = Torn
    BY <1>10 DEF Booted
  <2> QED BY <1>12, <2>1, OpenAgain
<1>14. PICK lo \in Nat : lo = last_op'
  <2>1. CASE kept = <<>>
    BY <1>1, <1>5, <2>1
  <2>2. CASE kept # <<>>
    <3>1. PICK S : S = {kept[i].op : i \in DOMAIN kept}
      OBVIOUS
    <3>2. n # 0
      BY <1>6, <1>7, <2>2
    <3>3. 1 \in DOMAIN kept
      BY <1>7, <3>2
    <3>4. S # {}
      BY <3>1, <3>3
    <3>5. \A i \in DOMAIN kept : kept[i].op \in 1 .. MaxOp
      BY <1>6 DEF Ent
    <3>6. S \subseteq 0 .. MaxOp /\ MaxOp \in Nat
      BY <3>1, <3>5, JournalAssumption
    <3>7. PICK m \in S : \A y \in S : y <= m
      BY <3>4, <3>6, GreatestNat
    <3>8. \A i \in DOMAIN kept : kept[i].op <= m
      BY <3>1, <3>7
    <3>9. PICK c : c = CHOOSE op \in S : \A i \in DOMAIN kept : kept[i].op <= op
      OBVIOUS
    <3>10. c \in S
      BY <3>8, <3>9
    <3>11. c \in Nat
      BY <3>6, <3>10
    <3>12. last_op' = c
      BY <1>1, <1>5, <2>2, <3>1, <3>9
    <3> QED BY <3>11, <3>12
  <2> QED BY <2>1, <2>2
<1>15. Types(gen, gen, n, idx, lo, ckpt, FALSE, view, ckpt, sync_errors)
  <2>1. IndexType(idx)
    BY <1>10 DEF Booted
  <2> QED BY <1>4, <2>1 DEF Types
<1>16. HistoryOk(g, NoFile, idx, {}, view, ckpt, sync_errors)
  <2>1. ASSUME NEW h, AllOn(wal, stale, index, appends, h) PROVE AllOn(g, NoFile, idx, {}, h)
    <3>1. \A i \in 1 .. n : On(kept[i], h)
      BY <1>2, <1>5, <1>7, <2>1, KeptOn
    <3>2. FileOn(g, h)
      BY <1>10, <3>1 DEF Booted, FileOn
    <3>3. ASSUME NEW x \in HeldIn(idx) PROVE On(x.e, h)
      <4>1. PICK s \in DOMAIN idx : x = idx[s] /\ x # None
        BY DEF HeldIn
      <4>2. PICK i \in 1 .. n : x = [e |-> kept[i], at |-> i]
        BY <1>10, <4>1 DEF Booted
      <4>3. x.e = kept[i]
        BY <4>2
      <4> QED BY <3>1, <4>3
    <3> QED BY <3>2, <3>3 DEF AllOn
  <2> QED BY <1>4, <2>1, HistoryKept
<1>17. OpenState(g, NoFile, gen, gen, n, idx, lo, ckpt, FALSE, {}, None, view, ckpt, sync_errors)
  BY <1>13, <1>15, <1>16 DEF OpenState, LiveOk
<1>18. Opens'
  <2>1. tail' = n
    BY <1>1, <1>5, <1>7
  <2> QED BY <1>2, <1>8, <1>14, <1>17, <2>1 DEF Opens
<1> QED BY <1>3, <1>18 DEF Opens, OpenState, IInv

-----------------------------------------------------------------------------
(* The callers *)

\* What is superseded stays so.
LEMMA SupersededLater ==
  ASSUME NEW idx, IndexType(idx), NEW x \in HeldIn(idx), NEW ck \in Nat, NEW ck2 \in Nat,
         ck <= ck2, NEW v, NEW v2, v = 2 => v2 = 2, Superseded(x, idx, ck, v)
  PROVE  Superseded(x, idx, ck2, v2)
<1>1. x.e.op \in Nat
  BY HeldIs, EntryIsWhole
<1> QED BY <1>1 DEF Superseded

\* The replica adopts the later history.
LEMMA AdoptKeeps == ASSUME IInv, ~LedFirstView, adopt PROVE IInv'
<1>1. /\ view = 1 /\ ~refused /\ ckpt < Fork /\ view' = 2 /\ appends = {}
      /\ UNCHANGED <<wal, stale, gen, fd, tail, index, last_op, snapshot_op, poisoned, appends,
                     rewrite, refused, ckpt, sync_errors>>
  BY DEF adopt, Gate, storage, memory, faults
<1>2. /\ Types(gen, fd, tail, index, last_op, snapshot_op, poisoned, view, ckpt, sync_errors)
      /\ LiveOk(rewrite, index, ckpt, view, sync_errors)
      /\ HistoryOk(wal, stale, index, appends, view, ckpt, sync_errors)
      /\ IndexType(index) /\ ckpt \in Nat
  BY <1>1 DEF IInv, Types
<1>3. \A x \in HeldIn(index) : Superseded(x, index, ckpt, 1) => Superseded(x, index, ckpt, 2)
  BY DEF Superseded
<1>4. LiveOk(rewrite, index, ckpt, 2, sync_errors)
  BY <1>1, <1>2, <1>3 DEF LiveOk
<1>5. NewFile(wal, index, ckpt, 1, sync_errors) => NewFile(wal, index, ckpt, 2, sync_errors)
  BY <1>3 DEF NewFile
<1>6. RenamedMode(wal, stale, tail, index, poisoned, appends, rewrite, ckpt, 1, sync_errors)
      => RenamedMode(wal, stale, tail, index, poisoned, appends, rewrite, ckpt, 2, sync_errors)
  BY <1>5 DEF RenamedMode, Shadow
<1>7. PoisonedMode(wal, stale, tail, index, poisoned, appends, rewrite, ckpt, 1, sync_errors)
      => PoisonedMode(wal, stale, tail, index, poisoned, appends, rewrite, ckpt, 2, sync_errors)
  BY <1>5 DEF PoisonedMode, Shadow
<1>8. HistoryOk(wal, stale, index, appends, 2, ckpt, sync_errors)
  BY <1>1, <1>2, JournalAssumption DEF HistoryOk
<1>9. Types(gen, fd, tail, index, last_op, snapshot_op, poisoned, 2, ckpt, sync_errors)
  BY <1>2 DEF Types
<1>10. \/ OpenMode(wal, stale, gen, fd, tail, index, poisoned, appends, rewrite, ckpt, sync_errors)
       \/ RenamedMode(wal, stale, tail, index, poisoned, appends, rewrite, ckpt, 2, sync_errors)
       \/ PoisonedMode(wal, stale, tail, index, poisoned, appends, rewrite, ckpt, 2, sync_errors)
  BY <1>1, <1>6, <1>7 DEF IInv
<1>11. /\ refused' \in BOOLEAN
       /\ Types(gen, fd, tail, index, last_op, snapshot_op, poisoned, view, ckpt, sync_errors)'
       /\ LiveOk(rewrite, index, ckpt, view, sync_errors)'
       /\ HistoryOk(wal, stale, index, appends, view, ckpt, sync_errors)'
  BY <1>1, <1>4, <1>8, <1>9 DEF IInv
<1>12. (\/ OpenMode(wal, stale, gen, fd, tail, index, poisoned, appends, rewrite, ckpt, sync_errors)
        \/ RenamedMode(wal, stale, tail, index, poisoned, appends, rewrite, ckpt, view,
                       sync_errors)
        \/ PoisonedMode(wal, stale, tail, index, poisoned, appends, rewrite, ckpt, view,
                        sync_errors))'
  BY <1>1, <1>10
<1> QED BY <1>11, <1>12 DEF IInv

\* A file stays in order under a later checkpoint.
LEMMA FileLater ==
  ASSUME NEW w, NEW b, NEW idx, NEW ck \in Nat, NEW z, FileOk(w, b, idx, ck, z), IndexType(idx),
         NEW ck2 \in Nat, ck <= ck2
  PROVE  FileOk(w, b, idx, ck2, z)
<1>1. \A s \in DOMAIN idx : idx[s] # None => idx[s].e.op \in Nat
  BY HeldIs, EntryIsWhole
<1>2. \A e \in Ent : FreeFor(e, idx, ck) => FreeFor(e, idx, ck2)
  <2> SUFFICES ASSUME NEW e \in Ent, FreeFor(e, idx, ck) PROVE FreeFor(e, idx, ck2)
    OBVIOUS
  <2>1. PICK s, x : s = slot_for_op(e.op) /\ x = idx[s]
    OBVIOUS
  <2>2. s \in DOMAIN idx
    BY <2>1, SlotIs, EntryIsWhole DEF IndexType
  <2>3. x = None \/ x.e.op <= ck
    BY <2>1 DEF FreeFor
  <2>4. x = None \/ x.e.op <= ck2
    BY <1>1, <2>1, <2>2, <2>3
  <2> QED BY <2>1, <2>4 DEF FreeFor
<1>3. SettledOk(w, b) /\ IndexOk(w, b, idx) /\ TailOk(w, b, idx, ck)
      /\ (z = 0 => CleanOk(w, b, idx, ck)) /\ w \in Seq(CellRecord) /\ b \in Nat
  BY DEF FileOk, SettledOk
<1>4. TailOk(w, b, idx, ck2)
  <2> SUFFICES ASSUME Len(w) = b + 1, w[b + 1].e # Torn PROVE FreeFor(w[b + 1].e, idx, ck2)
    BY DEF TailOk
  <2>1. w[b + 1] \in CellRecord
    <3>1. b + 1 \in DOMAIN w
      BY <1>3
    <3> QED BY <1>3, <3>1
  <2>2. w[b + 1].e \in Ent
    BY <2>1 DEF CellRecord
  <2> QED BY <1>2, <1>3, <2>2 DEF TailOk
<1>5. ASSUME z = 0 PROVE CleanOk(w, b, idx, ck2)
  <2>1. CleanOk(w, b, idx, ck)
    BY <1>3, <1>5
  <2>2. \A i \in 1 .. b : w[i].e.op \in Nat
    BY <1>3, EntryIsWhole DEF SettledOk
  <2>3. \A i \in 1 .. b : w[i].e.op <= ck => w[i].e.op <= ck2
    BY <2>2
  <2> QED BY <2>1, <2>3 DEF CleanOk
<1> QED BY <1>3, <1>4, <1>5 DEF FileOk

\* So does the new file of a rewrite, and what is known of the two.
LEMMA ShadowLater ==
  ASSUME NEW w, NEW st, NEW tl, NEW idx, NEW ap, NEW ck \in Nat, NEW v, NEW z,
         Shadow(w, st, tl, idx, ap, ck, v, z), IndexType(idx), NEW ck2 \in Nat, ck <= ck2
  PROVE  Shadow(w, st, tl, idx, ap, ck2, v, z)
<1>1. \A x \in HeldIn(idx) : Superseded(x, idx, ck, v) => Superseded(x, idx, ck2, v)
  BY SupersededLater
<1>2. NewFile(w, idx, ck2, v, z)
  BY <1>1 DEF Shadow, NewFile
<1>3. FileOk(st, tl, idx, ck, z) => FileOk(st, tl, idx, ck2, z)
  BY FileLater
<1> QED BY <1>2, <1>3 DEF Shadow

\* A checkpoint becomes durable.
LEMMA CheckpointKeeps == ASSUME IInv, checkpoint PROVE IInv'
<1>1. /\ appends = {} /\ rewrite = None /\ ~refused
      /\ UNCHANGED <<wal, stale, gen, fd, tail, index, last_op, snapshot_op, poisoned, appends,
                     rewrite, refused, view, sync_errors>>
  BY DEF checkpoint, Gate, storage, memory, faults
<1>2. PICK op \in ckpt + 1 .. MaxOp :
         /\ op < Fork \/ (view = 2 /\ ~\E x \in Held : Divergent(x.e))
         /\ ckpt' = op
  BY DEF checkpoint
<1>3. /\ Types(gen, fd, tail, index, last_op, snapshot_op, poisoned, view, ckpt, sync_errors)
      /\ HistoryOk(wal, stale, index, appends, view, ckpt, sync_errors)
      /\ IndexType(index) /\ ckpt \in Nat /\ tail \in Nat /\ view \in {1, 2}
  BY <1>1 DEF IInv, Types
<1>4. op \in Nat /\ ckpt <= op /\ ckpt < op /\ Fork \in Nat /\ MaxOp \in Nat
  BY <1>2, <1>3, JournalAssumption
<1>5. PICK ck \in Nat : ck = ckpt
  BY <1>3
<1>6. \/ OpenMode(wal, stale, gen, fd, tail, index, poisoned, appends, rewrite, op, sync_errors)
      \/ PoisonedMode(wal, stale, tail, index, poisoned, appends, rewrite, op, view, sync_errors)
  <2>1. CASE OpenMode(wal, stale, gen, fd, tail, index, poisoned, appends, rewrite, ckpt,
                      sync_errors)
    <3>1. PICK b : b = Base(appends, tail) /\ FileOk(wal, b, index, ck, sync_errors)
      BY <1>5, <2>1 DEF OpenMode
    <3>2. FileOk(wal, b, index, op, sync_errors)
      BY <1>3, <1>4, <1>5, <3>1, FileLater
    <3>3. AppendOk(wal, gen, tail, index, appends, rewrite, op)
      BY <1>1, <2>1 DEF OpenMode, AppendOk
    <3> QED BY <2>1, <3>1, <3>2, <3>3 DEF OpenMode
  <2>2. CASE PoisonedMode(wal, stale, tail, index, poisoned, appends, rewrite, ckpt, view,
                          sync_errors)
    <3>1. Shadow(wal, stale, tail, index, appends, ck, view, sync_errors)
      BY <1>5, <2>2 DEF PoisonedMode
    <3>2. Shadow(wal, stale, tail, index, appends, op, view, sync_errors)
      BY <1>3, <1>4, <1>5, <3>1, ShadowLater
    <3> QED BY <2>2, <3>2 DEF PoisonedMode
  <2> QED BY <1>1, <2>1, <2>2 DEF IInv, RenamedMode
<1>7. HistoryOk(wal, stale, index, appends, view, op, sync_errors)
  <2>1. CASE view = 1
    BY <1>1, <1>2, <1>3, <1>4, <2>1 DEF HistoryOk
  <2>2. CASE view = 2 /\ ckpt >= Fork
    BY <1>1, <1>3, <2>2 DEF HistoryOk
  <2>3. CASE view = 2 /\ op >= Fork /\ ckpt < Fork /\ sync_errors = 0
    <3>1. \A x \in Held : On(x.e, 2)
      <4> SUFFICES ASSUME NEW x \in Held, ~(x.e.op < Fork) PROVE x.e.h = 2
        BY DEF On
      <4>1. x.e \in Ent
        BY <1>3, HeldIs DEF Held, HeldIn
      <4>2. x.e.op \in Nat /\ x.e.h \in {1, 2}
        BY <4>1, EntryIsWhole DEF Ent
      <4>3. ~Divergent(x.e)
        BY <1>2, <1>4, <2>3
      <4> QED BY <1>4, <2>3, <4>2, <4>3 DEF Divergent
    <3>2. AllOn(wal, stale, index, appends, 2)
      BY <1>1, <2>3, <3>1, FilesOn
    <3> QED BY <1>1, <2>3, <3>2 DEF HistoryOk
  <2>4. CASE view = 2 /\ op < Fork
    BY <1>1, <1>4, <2>4 DEF HistoryOk
  <2>5. CASE view = 2 /\ sync_errors # 0
    BY <1>1, <2>5 DEF HistoryOk
  <2> QED BY <1>3, <1>4, <2>1, <2>2, <2>3, <2>4, <2>5
<1>8. Types(gen, fd, tail, index, last_op, snapshot_op, poisoned, view, op, sync_errors)
  <2>1. snapshot_op \in Nat /\ snapshot_op <= ckpt
    BY <1>3 DEF Types
  <2>2. snapshot_op <= op
    BY <1>3, <1>4, <2>1
  <2> QED BY <1>3, <1>4, <2>2 DEF Types
<1>9. LiveOk(rewrite, index, op, view, sync_errors)
  BY <1>1 DEF LiveOk
<1>10. /\ refused' \in BOOLEAN
       /\ Types(gen, fd, tail, index, last_op, snapshot_op, poisoned, view, ckpt, sync_errors)'
       /\ LiveOk(rewrite, index, ckpt, view, sync_errors)'
       /\ HistoryOk(wal, stale, index, appends, view, ckpt, sync_errors)'
  BY <1>1, <1>2, <1>7, <1>8, <1>9 DEF IInv
<1>11. \/ OpenMode(wal, stale, gen, fd, tail, index, poisoned, appends, rewrite, ckpt, sync_errors)'
       \/ PoisonedMode(wal, stale, tail, index, poisoned, appends, rewrite, ckpt, view,
                       sync_errors)'
  BY <1>1, <1>2, <1>6
<1> QED BY <1>10, <1>11 DEF IInv

-----------------------------------------------------------------------------
(* The theorems *)

\* An empty journal.
LEMMA InitHolds == Init => IInv
<1> SUFFICES ASSUME Init PROVE IInv
  OBVIOUS
<1>1. /\ wal = <<>> /\ stale = NoFile /\ gen = 0 /\ fd = 0 /\ tail = 0
      /\ index = [s \in 0 .. SlotCount - 1 |-> None] /\ last_op = 0 /\ snapshot_op = 0
      /\ poisoned = FALSE /\ appends = {} /\ rewrite = None /\ refused = FALSE /\ view = 1
      /\ ckpt = 0 /\ sync_errors = 0
  BY DEF Init
<1>2. IndexType(index) /\ HeldIn(index) = {}
  BY <1>1 DEF IndexType, HeldIn
<1>3. wal \in Seq(CellRecord) /\ Len(wal) = 0 /\ DOMAIN wal = {}
  BY <1>1
<1>4. FileOk(wal, 0, index, 0, 0)
  <2>1. SettledOk(wal, 0)
    BY <1>3 DEF SettledOk
  <2>2. IndexOk(wal, 0, index)
    BY <1>2 DEF IndexOk
  <2>3. TailOk(wal, 0, index, 0)
    BY <1>3 DEF TailOk
  <2>4. CleanOk(wal, 0, index, 0)
    BY DEF CleanOk
  <2> QED BY <2>1, <2>2, <2>3, <2>4 DEF FileOk
<1>5. OpenMode(wal, NoFile, 0, 0, 0, index, FALSE, {}, None, 0, 0)
  BY <1>3, <1>4 DEF OpenMode, Base, AppendOk
<1>6. Types(0, 0, 0, index, 0, 0, FALSE, 1, 0, 0)
  BY <1>2 DEF Types
<1>7. HistoryOk(wal, NoFile, index, {}, 1, 0, 0)
  BY <1>2, <1>3, JournalAssumption DEF HistoryOk, AllOn, FileOn
<1>8. OpenState(wal, NoFile, 0, 0, 0, index, 0, 0, FALSE, {}, None, 1, 0, 0)
  BY <1>5, <1>6, <1>7 DEF OpenState, LiveOk
<1>9. Opens /\ refused \in BOOLEAN
  BY <1>1, <1>8 DEF Opens
<1> QED BY <1>9, OpensHolds

\* No replica goes back to an earlier view.
LEMMA ViewsRise == ASSUME [Next]_vars PROVE view' = view \/ (view' = 2 /\ adopt)
<1>1. CASE adopt
  BY <1>1 DEF adopt
<1>2. CASE on_replicate \/ repair
  BY <1>2 DEF on_replicate, repair, append, caller
<1>3. ASSUME NEW a \in appends, write_append(a) \/ fsync(a) \/ write_fails(a) \/ fsync_fails(a)
      PROVE  view' = view
  BY <1>3 DEF write_append, fsync, Indexed, write_fails, fsync_fails, Fails, caller
<1>4. CASE drain \/ remove_range \/ truncate_from
  BY <1>4 DEF drain, remove_range, truncate_from, begin_rewrite, caller
<1>5. CASE rename \/ finish_rewrite \/ rewrite_fails
  BY <1>5 DEF rename, finish_rewrite, Rewritten, rewrite_fails, caller
<1>6. CASE open_with_slots \/ checkpoint
  BY <1>6 DEF open_with_slots, checkpoint, caller
<1>7. CASE UNCHANGED vars
  BY <1>7 DEF vars, caller
<1> QED BY <1>1, <1>2, <1>3, <1>4, <1>5, <1>6, <1>7 DEF Next

\* Every step keeps the invariant as long as those who change the journal take turns.
LEMMA NextKeeps == ASSUME Serial', Serial => IInv, [Next]_vars PROVE IInv'
<1>0. Serial /\ IInv /\ (adopt => ~LedFirstView)
  <2>1. Serial
    BY ViewsRise DEF Serial
  <2>2. adopt => ~LedFirstView
    BY DEF adopt, Serial
  <2> QED BY <2>1, <2>2
<1>1. CASE on_replicate
  BY <1>0, <1>1, ReplicateKeeps
<1>2. CASE repair
  BY <1>0, <1>2, RepairKeeps
<1>3. ASSUME NEW a \in appends, write_append(a) \/ fsync(a) \/ write_fails(a) \/ fsync_fails(a)
      PROVE  IInv'
  BY <1>0, <1>3, WriteKeeps, SyncKeeps, WriteFailsKeeps, SyncFailsKeeps
<1>4. CASE drain
  BY <1>0, <1>4, DrainKeeps
<1>5. CASE remove_range
  BY <1>0, <1>5, RemoveKeeps
<1>13. CASE truncate_from
  BY <1>0, <1>13, TruncateKeeps
<1>6. CASE rename
  BY <1>0, <1>6, RenameKeeps
<1>7. CASE finish_rewrite
  BY <1>0, <1>7, FinishKeeps
<1>8. CASE rewrite_fails
  BY <1>0, <1>8, RewriteFailsKeeps
<1>9. CASE open_with_slots
  BY <1>0, <1>9, BootKeeps
<1>10. CASE adopt
  BY <1>0, <1>10, AdoptKeeps
<1>11. CASE checkpoint
  BY <1>0, <1>11, CheckpointKeeps
<1>12. CASE UNCHANGED vars
  BY <1>0, <1>12 DEF vars, storage, memory, caller, faults, IInv
<1> QED BY <1>1, <1>2, <1>3, <1>4, <1>5, <1>13, <1>6, <1>7, <1>8, <1>9, <1>10, <1>11, <1>12
        DEF Next

\* The inductive invariant holds as long as those who change the journal take turns: on a
\* replica that never led, and on one that is still in the view it led.  It is the first
\* of these that removes and repairs, the pump doing one after the other.
THEOREM JournalInvariant == Spec => [](Serial => IInv)
<1>1. Init => (Serial => IInv)
  BY InitHolds
<1>2. (Serial => IInv) /\ [Next]_vars => (Serial => IInv)'
  BY NextKeeps
<1> QED BY <1>1, <1>2, PTL DEF Spec

\* On such a replica a read through the index finds the entry its slot names, through any
\* sequence of appends, drains, removals, failed calls and crashes.  (It is not so on a
\* deposed primary, whose appends and removals overlap.)
THEOREM IndexReads == Spec => []IndexReadsBack
BY JournalInvariant, InvReads, PTL

\* On such a replica every boot accepts what a crash left, until the sync of an append
\* fails, and but for entries of the adopted log behind superseded ones still held.
THEOREM BootsAreAccepted == Spec => []RebootIsAccepted
BY JournalInvariant, InvReboot, PTL

\* On such a replica an append that returned, and that may have been acknowledged, is read
\* back at every boot that accepts the file: in the view in which it was appended, and
\* later unless the sync of another append failed.
THEOREM AppendsSurvive == Spec => []CompletedSurvive
BY JournalInvariant, InvSurvive, PTL

\* On such a replica no crash brings back an entry that remove_range or truncate_from
\* removed, once nothing superseded is left and until the sync of an append fails.
THEOREM RemovalsLast == Spec => []RemovedStayRemoved
BY JournalInvariant, InvRemoved, PTL
==============================================================================
