------------------------ MODULE PartitionSessionsProofs ------------------------
(***************************************************************************)
(* Proofs about PartitionSessions: a request of a session is committed at  *)
(* most once, a committed receipt is always kept, the window of an entry   *)
(* is that of the log, and a client that comes back is not fenced by a     *)
(* receipt of an older session.                                            *)
(*                                                                         *)
(* A log stands for a sequence of tables T and frontiers F, one after each *)
(* op (RunOk).  The invariant IInv says that every replica holds those of  *)
(* the op it applied last, and that what the primary let in, in the log    *)
(* beyond what it applied and in the queue, can still be applied: it is    *)
(* new, there is room for it and no barrier in flight retires its session  *)
(* (Flight, FreshAt, Room).  The invariant Retirement says that the        *)
(* sessions the metadata group finalized were retired by the committed     *)
(* log.                                                                    *)
(***************************************************************************)
EXTENDS PartitionSessions, FiniteSetTheorems, SequenceTheorems, TLAPS

-----------------------------------------------------------------------------
(* The tables a log stands for *)

Identity == [client : Clients, session : Nat \ {0}, ended : Nat]
OpRecord == [kind : {"write", "retire", "install"}, client : Clients \cup {0}, session : Nat,
             request : Nat, watermark : Nat, ids : SUBSET Identity]
\* The ops of a log; the ends a barrier names are bounded.
OpOk(op) == /\ op \in OpRecord /\ \E m \in Nat : \A x \in op.ids : x.ended <= m
            /\ op.kind = "write" => /\ op.client \in Clients /\ op.session > 0
                                    /\ op.request \in 1..MaxRequest

Pin == [request : Nat, commit : Nat]
Entry == [epoch : Nat \ {0}, watermark : Nat \ {0}, window : SUBSET Nat,
          latest_commit : Nat, pinned : Pin]
Tables == [Clients -> Entry \cup {None}]

IsWrite(op, c) == op.kind = "write" /\ op.client = c
IsOf(op, c, s) == IsWrite(op, c) /\ op.session = s
IsRequest(op, c, s, q) == IsOf(op, c, s) /\ op.request = q
NamesSession(op, c, s) == op.kind = "retire" /\ \E x \in op.ids : x.client = c /\ x.session = s

\* A table and a frontier after op, applied at index at.
After(t, op, at) ==
    IF op.kind = "retire" THEN forget_sessions(t, op.ids)
    ELSE IF op.kind = "write" THEN [t EXCEPT ![op.client] = commit_entry(@, op, at)]
    ELSE t
Raised(f, op) ==
    IF op.kind = "retire" THEN Max({f} \cup {x.ended : x \in op.ids})
    ELSE IF op.kind = "install" THEN Max({f, op.watermark}) ELSE f

Starts(lg, T, F) ==
    /\ lg \in Seq(OpRecord) /\ \A i \in 1..Len(lg) : OpOk(lg[i])
    /\ T \in [Nat -> Tables] /\ F \in [Nat -> Nat]
    /\ T[0] = [c \in Clients |-> None] /\ F[0] = 0
Follows(lg, T, F) ==
    \A k \in 1..Len(lg) : T[k] = After(T[k - 1], lg[k], k) /\ F[k] = Raised(F[k - 1], lg[k])

\* An entry stays until its client writes or its session is retired.
Frames(lg, T) ==
    \A k \in 0..Len(lg) : \A i \in 0..k : \A c \in Clients :
        (\A j \in (i + 1)..k : ~IsWrite(lg[j], c) /\ ~NamesSession(lg[j], c, T[i][c].epoch))
            => T[k][c] = T[i][c]

\* A write of the log is new where it stands, there is room for it, and its
\* session was not retired before.
Fits(lg, T, i, op) ==
    /\ check_partition_request(T[i], op) = "New" /\ Retains(T[i], op)
    /\ \A j \in 1..i : ~NamesSession(lg[j], op.client, op.session)
Admitted(lg, T) == \A i \in 1..Len(lg) : lg[i].kind = "write" => Fits(lg, T, i - 1, lg[i])

\* What an entry says of the log is so.
Exact(lg, k, c, e) ==
    /\ e.pinned.commit \in 1..k
    /\ \A j \in 1..k : IsRequest(lg[j], c, e.epoch, e.watermark) <=> j = e.pinned.commit
    /\ \A j \in 1..k : IsOf(lg[j], c, e.epoch) => lg[j].request <= e.watermark
    /\ \A b \in Nat : b \in e.window <=>
          (b < COMMITTED_WINDOW_BITS /\ \E j \in 1..k : IsRequest(lg[j], c, e.epoch, e.watermark - b))
    /\ e.pinned.request = e.watermark /\ e.latest_commit = e.pinned.commit
AllExact(lg, T) ==
    \A k \in 0..Len(lg) : \A c \in Clients : T[k][c] # None => Exact(lg, k, c, T[k][c])

\* A session that wrote has its entry until it is retired.
Remembered(lg, T) ==
    \A k \in 0..Len(lg) : \A j \in 1..k : lg[j].kind = "write" =>
        \/ T[k][lg[j].client].epoch = lg[j].session
        \/ \E i \in (j + 1)..k : NamesSession(lg[i], lg[j].client, lg[j].session)

\* An install may raise the frontier to anything, a barrier to an end it names.
RaisesTo(op, f) == \/ op.kind = "install"
                   \/ op.kind = "retire" /\ \E x \in op.ids : x.ended = f

\* The frontier never falls, and is above the end of every retired session.
Demands(lg, F) ==
    \A k \in 0..Len(lg) :
        /\ \A i \in 0..k : F[i] <= F[k]
        /\ \A j \in 1..k : lg[j].kind = "retire" => \A x \in lg[j].ids : x.ended <= F[k]
        /\ F[k] # 0 => \E j \in 1..k : RaisesTo(lg[j], F[k])

RunOk(lg, T, F) ==
    /\ Starts(lg, T, F) /\ Follows(lg, T, F) /\ Frames(lg, T) /\ Admitted(lg, T)
    /\ AllExact(lg, T) /\ Remembered(lg, T) /\ Demands(lg, F)

-----------------------------------------------------------------------------
(* Numbers and entries *)

\* The greater of two numbers.
LEMMA MaxOfTwo ==
  ASSUME NEW a \in Nat, NEW b \in Nat
  PROVE  Max({a, b}) = IF a >= b THEN a ELSE b
<1>1. \E x \in {a, b} : \A y \in {a, b} : x >= y
  OBVIOUS
<1>2. Max({a, b}) \in {a, b} /\ \A y \in {a, b} : Max({a, b}) >= y
  BY <1>1 DEF Max
<1> QED BY <1>2

\* Every nonempty set of numbers has a least one.
LEMMA LeastNat == ASSUME NEW S, S \subseteq Nat, S # {} PROVE \E x \in S : \A y \in S : x <= y
<1>1. PICK R : R = {ss \in Nat \X Nat : ss[1] < ss[2]}
  OBVIOUS
<1>2. IsWellFoundedOn(R, Nat)
  BY <1>1, NatLessThanWellFounded, Zenon DEF OpToRel
<1>3. PICK x \in S : \A y \in S : ~ (<<y, x>> \in R)
  BY <1>2, WFMin
<1>4. ASSUME NEW y \in S PROVE x <= y
  <2>1. <<y, x>> \in Nat \X Nat /\ <<y, x>>[1] = y /\ <<y, x>>[2] = x
    OBVIOUS
  <2>2. ~(y < x)
    BY <1>1, <1>3, <2>1
  <2> QED BY <2>2
<1> QED BY <1>4

\* A nonempty set of numbers up to m has a greatest one.
LEMMA MaxOfBounded ==
  ASSUME NEW S, S \subseteq Nat, S # {}, NEW m \in Nat, \A x \in S : x <= m
  PROVE  Max(S) \in S /\ \A x \in S : x <= Max(S)
<1> DEFINE Down == {m - x : x \in S}
<1>1. Down \subseteq Nat /\ Down # {}
  <2>1. PICK x \in S : TRUE
    OBVIOUS
  <2>2. m - x \in Down
    BY <2>1
  <2>3. Down \subseteq Nat
    OBVIOUS
  <2> QED BY <2>2, <2>3
<1>2. PICK d \in Down : \A y \in Down : d <= y
  <2> HIDE DEF Down
  <2> QED BY <1>1, LeastNat
<1>3. PICK g \in S : d = m - g
  BY <1>2
<1>4. \A y \in S : g >= y
  <2> TAKE y \in S
  <2>1. m - y \in Down /\ m - g <= m - y
    BY <1>2, <1>3
  <2> QED BY <2>1
<1>5. Max(S) \in S /\ \A y \in S : Max(S) >= y
  BY <1>3, <1>4 DEF Max
<1> QED BY <1>5

\* No entry is None.
LEMMA EntryIsNotNone == ASSUME NEW e \in Entry PROVE e # None
<1>1. e.epoch # 0
  BY DEF Entry
<1>2. None.epoch = 0
  BY DEF None
<1> QED BY <1>1, <1>2

\* What a barrier leaves of a client's entry.
LEMMA Forgotten ==
  ASSUME NEW t \in Tables, NEW op \in OpRecord, op.kind = "retire", NEW at, NEW c \in Clients
  PROVE  After(t, op, at)[c] = IF NamesSession(op, c, t[c].epoch) THEN None ELSE t[c]
BY DEF After, forget_sessions, NamesSession

\* What raises the frontier, and to where.
LEMMA RaisedBy ==
  ASSUME NEW f \in Nat, NEW op, OpOk(op)
  PROVE  /\ Raised(f, op) \in Nat /\ f <= Raised(f, op)
         /\ op.kind = "retire" => \A x \in op.ids : x.ended <= Raised(f, op)
         /\ Raised(f, op) = f \/ RaisesTo(op, Raised(f, op))
<1> DEFINE S == {f} \cup {x.ended : x \in op.ids}
<1>1. op \in OpRecord /\ op.watermark \in Nat /\ op.ids \subseteq Identity
  BY DEF OpOk, OpRecord
<1>2. PICK m \in Nat : \A x \in op.ids : x.ended <= m
  BY DEF OpOk
<1>3. S \subseteq Nat /\ S # {}
  BY <1>1 DEF Identity
<1>4. Max(S) \in S /\ \A x \in S : x <= Max(S)
  <2>1. m + f \in Nat /\ \A x \in S : x <= m + f
    BY <1>1, <1>2 DEF Identity
  <2> HIDE DEF S
  <2> QED BY <1>3, <2>1, MaxOfBounded
<1>5. CASE op.kind = "retire"
  <2>1. Raised(f, op) = Max(S)
    BY <1>5 DEF Raised
  <2> QED BY <1>3, <1>4, <1>5, <2>1 DEF RaisesTo
<1>6. CASE op.kind = "install"
  BY <1>1, <1>6, MaxOfTwo DEF Raised, RaisesTo
<1>7. CASE op.kind = "write"
  BY <1>7 DEF Raised
<1> QED BY <1>1, <1>5, <1>6, <1>7 DEF OpRecord

-----------------------------------------------------------------------------
(* The entry a committed write leaves *)

FirstEntry(op, at) ==
    [epoch |-> op.session, watermark |-> op.request, window |-> {0}, latest_commit |-> at,
     pinned |-> [request |-> op.request, commit |-> at]]
HigherEntry(e, op, at) ==
    [epoch |-> e.epoch, watermark |-> op.request,
     window |-> shift(e.window, op.request - e.watermark), latest_commit |-> at,
     pinned |-> [request |-> op.request, commit |-> at]]
LowerEntry(e, op) ==
    [epoch |-> e.epoch, watermark |-> e.watermark, window |-> e.window \cup {e.watermark - op.request},
     latest_commit |-> e.pinned.commit, pinned |-> e.pinned]

\* A late request of a session is new: above the watermark or in a hole of the window.
IsNew(e, op) ==
    /\ e.epoch = op.session
    /\ \/ op.request > e.watermark
       \/ /\ op.request <= e.watermark /\ e.watermark - op.request < COMMITTED_WINDOW_BITS
          /\ e.watermark - op.request \notin e.window

\* So check_partition_request finds it.
LEMMA NewRequest ==
  ASSUME NEW t \in Tables, NEW op, OpOk(op), op.kind = "write",
         check_partition_request(t, op) = "New"
  PROVE  t[op.client] # None => IsNew(t[op.client], op)
<1> DEFINE e == t[op.client]
<1> SUFFICES ASSUME e # None PROVE IsNew(e, op)
  OBVIOUS
<1>1. e \in Entry /\ e.watermark \in Nat /\ op.request \in Nat
  <2>1. op \in OpRecord /\ op.client \in Clients
    BY DEF OpOk
  <2> QED BY <2>1 DEF Tables, OpRecord, Entry
<1>2. e.epoch = op.session
  <2>1. check_partition_request(t, op) # "Fenced"
    OBVIOUS
  <2> QED BY <2>1 DEF check_partition_request
<1>3. PICK below \in Int : below = e.watermark - op.request
  BY <1>1
<1>4. below < 0 \/ (below < COMMITTED_WINDOW_BITS /\ below \notin e.window)
  <2>1. check_partition_request(t, op) =
          CASE below < 0 -> "New"
            [] below >= COMMITTED_WINDOW_BITS -> "AgedOut"
            [] OTHER -> IF below \in e.window THEN "Committed" ELSE "New"
    BY <1>2, <1>3 DEF check_partition_request
  <2> QED BY <2>1, SizesAssumption
<1> QED BY <1>1, <1>2, <1>3, <1>4 DEF IsNew

\* Conversely.
LEMMA NewIsAccepted ==
  ASSUME NEW t \in Tables, NEW op, OpOk(op), op.kind = "write",
         t[op.client] # None => IsNew(t[op.client], op)
  PROVE  check_partition_request(t, op) = "New"
<1> DEFINE e == t[op.client]
<1>1. CASE e = None
  BY <1>1 DEF check_partition_request
<1>2. CASE e # None
  <2>1. e \in Entry /\ e.watermark \in Nat /\ op.request \in Nat
    <3>1. op \in OpRecord /\ op.client \in Clients
      BY DEF OpOk
    <3> QED BY <3>1, <1>2 DEF Tables, OpRecord, Entry
  <2>2. PICK below \in Int : below = e.watermark - op.request
    BY <2>1
  <2>3. e.epoch = op.session /\ (below < 0 \/ (below < COMMITTED_WINDOW_BITS /\ below \notin e.window))
    BY <1>2, <2>1, <2>2 DEF IsNew
  <2>4. check_partition_request(t, op) =
          CASE below < 0 -> "New"
            [] below >= COMMITTED_WINDOW_BITS -> "AgedOut"
            [] OTHER -> IF below \in e.window THEN "Committed" ELSE "New"
    BY <1>2, <2>2, <2>3 DEF check_partition_request
  <2> QED BY <2>3, <2>4, SizesAssumption
<1> QED BY <1>1, <1>2

\* The entry after a write that was new.
LEMMA CommittedEntry ==
  ASSUME NEW e \in Entry \cup {None}, NEW op, OpOk(op), op.kind = "write", NEW at \in Nat,
         e # None => /\ IsNew(e, op) /\ 0 \in e.window
                     /\ e.pinned.request = e.watermark /\ e.latest_commit = e.pinned.commit
  PROVE  commit_entry(e, op, at) = IF e = None THEN FirstEntry(op, at)
                                   ELSE IF op.request > e.watermark THEN HigherEntry(e, op, at)
                                   ELSE LowerEntry(e, op)
<1> DEFINE f == commit_request(e, op, at)
<1>1. op \in OpRecord /\ op.request \in Nat /\ op.request > 0
  BY DEF OpOk, OpRecord
<1>2. CASE e = None
  <2>1. f = [epoch |-> op.session, watermark |-> op.request, window |-> {0},
             latest_commit |-> at, pinned |-> [request |-> 0, commit |-> 0]]
    BY <1>2 DEF commit_request
  <2>2. f.pinned.request = 0 /\ f.watermark = op.request
    BY <2>1
  <2>3. commit_entry(e, op, at) = [f EXCEPT !.latest_commit = at,
                                            !.pinned = [request |-> op.request, commit |-> at]]
    <3>1. op.request # f.pinned.request /\ ~(op.request < f.watermark)
      BY <1>1, <2>2
    <3> QED BY <3>1 DEF commit_entry
  <2>4. PICK g : g = f
    OBVIOUS
  <2>5. [g EXCEPT !.latest_commit = at, !.pinned = [request |-> op.request, commit |-> at]]
          = FirstEntry(op, at)
    <3>1. PICK y : y = [request |-> op.request, commit |-> at]
      OBVIOUS
    <3>2. PICK p : p = [request |-> 0, commit |-> 0]
      OBVIOUS
    <3>3. g = [epoch |-> op.session, watermark |-> op.request, window |-> {0},
               latest_commit |-> at, pinned |-> p]
      BY <2>1, <2>4, <3>2
    <3> HIDE DEF f
    <3>5. PICK h : h = [g EXCEPT !.latest_commit = at]
      OBVIOUS
    <3>6. h = g
      BY <3>3, <3>5
    <3>4. [h EXCEPT !.pinned = y]
            = [epoch |-> op.session, watermark |-> op.request, window |-> {0},
               latest_commit |-> at, pinned |-> y]
      BY <3>3, <3>6
    <3> QED BY <3>1, <3>4, <3>5 DEF FirstEntry
  <2> QED BY <1>2, <2>3, <2>4, <2>5
<1>3. CASE e # None
  <2>1. e \in Entry /\ e.watermark \in Nat /\ e.pinned.request \in Nat
    BY <1>3 DEF Entry, Pin
  <2>2. CASE op.request > e.watermark
    <3>1. f = [e EXCEPT !.watermark = op.request, !.window = shift(@, op.request - e.watermark),
                        !.latest_commit = at]
      BY <1>3, <2>2 DEF commit_request
    <3>2. f = [epoch |-> e.epoch, watermark |-> op.request,
               window |-> shift(e.window, op.request - e.watermark), latest_commit |-> at,
               pinned |-> e.pinned]
      BY <2>1, <3>1 DEF Entry
    <3>3. op.request # f.pinned.request /\ ~(op.request < f.watermark)
      BY <1>1, <1>3, <2>1, <2>2, <3>2
    <3>4. commit_entry(e, op, at) = [f EXCEPT !.latest_commit = at,
                                              !.pinned = [request |-> op.request, commit |-> at]]
      BY <3>3 DEF commit_entry
    <3>5. PICK g : g = f
      OBVIOUS
    <3>6. [g EXCEPT !.latest_commit = at, !.pinned = [request |-> op.request, commit |-> at]]
            = HigherEntry(e, op, at)
      <4>1. PICK y : y = [request |-> op.request, commit |-> at]
        OBVIOUS
      <4>2. PICK w : w = shift(e.window, op.request - e.watermark)
        OBVIOUS
      <4>3. g = [epoch |-> e.epoch, watermark |-> op.request, window |-> w, latest_commit |-> at,
                 pinned |-> e.pinned]
        BY <3>2, <3>5, <4>2
      <4> HIDE DEF f
      <4>5. PICK h : h = [g EXCEPT !.latest_commit = at]
        OBVIOUS
      <4>6. h = g
        BY <4>3, <4>5
      <4>4. [h EXCEPT !.pinned = y]
              = [epoch |-> e.epoch, watermark |-> op.request, window |-> w, latest_commit |-> at,
                 pinned |-> y]
        BY <4>3, <4>6
      <4> QED BY <4>1, <4>2, <4>4, <4>5 DEF HigherEntry
    <3> QED BY <1>3, <2>2, <3>4, <3>5, <3>6
  <2>3. CASE ~(op.request > e.watermark)
    <3>1. PICK below \in Nat : below = e.watermark - op.request
      BY <1>1, <2>1, <2>3
    <3>2. below < COMMITTED_WINDOW_BITS /\ below \notin e.window /\ below # 0
      BY <1>1, <1>3, <2>1, <2>3, <3>1 DEF IsNew
    <3>3. f = [e EXCEPT !.window = @ \cup {below}, !.latest_commit = Max({@, at})]
      <4>1. ~(below >= COMMITTED_WINDOW_BITS) /\ below \notin e.window
        BY <3>2, SizesAssumption
      <4> QED BY <1>3, <2>3, <3>1, <4>1 DEF commit_request
    <3>4. f = [epoch |-> e.epoch, watermark |-> e.watermark, window |-> e.window \cup {below},
               latest_commit |-> Max({e.latest_commit, at}), pinned |-> e.pinned]
      BY <2>1, <3>3 DEF Entry
    <3>5. op.request # f.pinned.request /\ op.request < f.watermark
      BY <1>1, <1>3, <2>1, <3>1, <3>2, <3>4
    <3>6. commit_entry(e, op, at) = [f EXCEPT !.latest_commit = f.pinned.commit]
      BY <3>5 DEF commit_entry
    <3>7. PICK g : g = f
      OBVIOUS
    <3>8. [g EXCEPT !.latest_commit = g.pinned.commit] = LowerEntry(e, op)
      <4> HIDE DEF f
      <4> QED BY <3>1, <3>4, <3>7 DEF LowerEntry
    <3> QED BY <1>3, <2>3, <3>6, <3>7, <3>8
  <2> QED BY <2>2, <2>3
<1> QED BY <1>2, <1>3

\* The shifted window, distance by distance.
LEMMA Shifted ==
  ASSUME NEW w \in SUBSET Nat, NEW gap \in Nat \ {0},
         \A b \in w : b < COMMITTED_WINDOW_BITS
  PROVE  /\ shift(w, gap) \subseteq Nat
         /\ \A b \in Nat : b \in shift(w, gap) <=>
               b = 0 \/ (b < COMMITTED_WINDOW_BITS /\ b >= gap /\ b - gap \in w)
<1>0. COMMITTED_WINDOW_BITS \in Nat \ {0}
  BY SizesAssumption
<1>1. CASE gap >= COMMITTED_WINDOW_BITS
  <2>1. shift(w, gap) = {0}
    BY <1>1 DEF shift
  <2> QED BY <1>0, <1>1, <2>1
<1>2. CASE ~(gap >= COMMITTED_WINDOW_BITS)
  <2>1. shift(w, gap) = {b \in {x + gap : x \in w} : b < COMMITTED_WINDOW_BITS} \cup {0}
    BY <1>2 DEF shift
  <2>2. ASSUME NEW b \in Nat, b \in shift(w, gap)
        PROVE  b = 0 \/ (b < COMMITTED_WINDOW_BITS /\ b >= gap /\ b - gap \in w)
    <3> SUFFICES ASSUME b # 0 PROVE b < COMMITTED_WINDOW_BITS /\ b >= gap /\ b - gap \in w
      OBVIOUS
    <3>1. b < COMMITTED_WINDOW_BITS
      BY <2>1, <2>2
    <3>2. PICK x \in w : b = x + gap
      BY <2>1, <2>2
    <3>3. b - gap = x /\ b >= gap
      BY <3>2
    <3> QED BY <3>1, <3>3
  <2>3. ASSUME NEW b \in Nat, b < COMMITTED_WINDOW_BITS, b >= gap, b - gap \in w
        PROVE  b \in shift(w, gap)
    <3>1. (b - gap) + gap = b
      OBVIOUS
    <3>2. b \in {x + gap : x \in w}
      BY <2>3, <3>1
    <3> QED BY <2>1, <2>3, <3>2
  <2>4. shift(w, gap) \subseteq Nat /\ 0 \in shift(w, gap)
    BY <2>1
  <2> QED BY <2>2, <2>3, <2>4
<1> QED BY <1>1, <1>2

\* The entry of a first write has its type.
LEMMA FirstType ==
  ASSUME NEW op, OpOk(op), op.kind = "write", NEW at \in Nat
  PROVE  FirstEntry(op, at) \in Entry
<1>1. op.session \in Nat \ {0} /\ op.request \in Nat \ {0}
  BY DEF OpOk, OpRecord
<1>2. PICK y \in Pin : y = [request |-> op.request, commit |-> at]
  BY <1>1 DEF Pin
<1>3. PICK w : w = {0} /\ w \in SUBSET Nat
  <2>1. {0} \in SUBSET Nat
    OBVIOUS
  <2> QED BY <2>1
<1>4. FirstEntry(op, at) = [epoch |-> op.session, watermark |-> op.request, window |-> w,
                            latest_commit |-> at, pinned |-> y]
  BY <1>2, <1>3 DEF FirstEntry
<1> QED BY <1>1, <1>2, <1>3, <1>4 DEF Entry

\* So has that of a higher one.
LEMMA HigherType ==
  ASSUME NEW e \in Entry, NEW op, OpOk(op), op.kind = "write", NEW at \in Nat,
         op.request > e.watermark, \A b \in e.window : b < COMMITTED_WINDOW_BITS
  PROVE  HigherEntry(e, op, at) \in Entry
<1>1. e.epoch \in Nat \ {0} /\ op.request \in Nat \ {0} /\ e.watermark \in Nat
      /\ e.window \in SUBSET Nat
  BY DEF OpOk, OpRecord, Entry
<1>2. PICK y \in Pin : y = [request |-> op.request, commit |-> at]
  BY <1>1 DEF Pin
<1>3. PICK gap \in Nat \ {0} : gap = op.request - e.watermark
  BY <1>1
<1>4. PICK w \in SUBSET Nat : w = shift(e.window, op.request - e.watermark)
  BY <1>1, <1>3, Shifted
<1>5. HigherEntry(e, op, at) = [epoch |-> e.epoch, watermark |-> op.request, window |-> w,
                                latest_commit |-> at, pinned |-> y]
  BY <1>2, <1>4 DEF HigherEntry
<1> QED BY <1>1, <1>5 DEF Entry

\* And that of a lower one.
LEMMA LowerType ==
  ASSUME NEW e \in Entry, NEW op, OpOk(op), op.kind = "write", op.request <= e.watermark
  PROVE  LowerEntry(e, op) \in Entry
<1>1. e.epoch \in Nat \ {0} /\ e.watermark \in Nat \ {0} /\ op.request \in Nat
      /\ e.window \in SUBSET Nat /\ e.pinned \in Pin /\ e.pinned.commit \in Nat
  BY DEF OpOk, OpRecord, Entry, Pin
<1>2. PICK w : w = e.window \cup {e.watermark - op.request} /\ w \in SUBSET Nat
  <2>1. e.watermark - op.request \in Nat
    BY <1>1
  <2>2. e.window \cup {e.watermark - op.request} \in SUBSET Nat
    BY <1>1, <2>1
  <2> QED BY <2>2
<1>3. LowerEntry(e, op) = [epoch |-> e.epoch, watermark |-> e.watermark, window |-> w,
                           latest_commit |-> e.pinned.commit, pinned |-> e.pinned]
  BY <1>2 DEF LowerEntry
<1> QED BY <1>1, <1>2, <1>3 DEF Entry

\* What is exact of the first n ops stays so when the next is not of the session.
LEMMA ExactKept ==
  ASSUME NEW lg, NEW n \in Nat, NEW c, NEW e \in Entry, Exact(lg, n, c, e),
         ~IsOf(lg[n + 1], c, e.epoch)
  PROVE  Exact(lg, n + 1, c, e)
<1>1. \A j \in 1..(n + 1) : j \in 1..n \/ j = n + 1
  OBVIOUS
<1>2. \A q : ~IsRequest(lg[n + 1], c, e.epoch, q)
  BY DEF IsRequest
<1>3. e.pinned.commit \in 1..n /\ e.pinned.commit # n + 1
  BY DEF Exact
<1>4. \A j \in 1..(n + 1) : IsRequest(lg[j], c, e.epoch, e.watermark) <=> j = e.pinned.commit
  BY <1>1, <1>2, <1>3 DEF Exact
<1>5. \A j \in 1..(n + 1) : IsOf(lg[j], c, e.epoch) => lg[j].request <= e.watermark
  BY <1>1 DEF Exact
<1>6. ASSUME NEW b \in Nat
      PROVE  (\E j \in 1..(n + 1) : IsRequest(lg[j], c, e.epoch, e.watermark - b))
                <=> (\E j \in 1..n : IsRequest(lg[j], c, e.epoch, e.watermark - b))
  BY <1>1, <1>2
<1>7. \A b \in Nat : b \in e.window <=>
          (b < COMMITTED_WINDOW_BITS /\ \E j \in 1..(n + 1) : IsRequest(lg[j], c, e.epoch, e.watermark - b))
  BY <1>6 DEF Exact
<1>8. e.pinned.commit \in 1..(n + 1) /\ e.pinned.request = e.watermark /\ e.latest_commit = e.pinned.commit
  BY <1>3 DEF Exact
<1> QED BY <1>4, <1>5, <1>7, <1>8 DEF Exact

\* Exactness looks at the first k ops only.
LEMMA ExactSame ==
  ASSUME NEW lg, NEW lg2, NEW k \in Nat, NEW c, NEW e, \A j \in 1..k : lg2[j] = lg[j],
         Exact(lg, k, c, e)
  PROVE  Exact(lg2, k, c, e)
<1>1. \A j \in 1..k : \A q : IsRequest(lg2[j], c, e.epoch, q) <=> IsRequest(lg[j], c, e.epoch, q)
  OBVIOUS
<1>2. \A j \in 1..k : IsOf(lg2[j], c, e.epoch) <=> IsOf(lg[j], c, e.epoch)
  OBVIOUS
<1> QED BY <1>1, <1>2 DEF Exact

\* The entry of a session's first write.
LEMMA ExactFirst ==
  ASSUME NEW lg, NEW n \in Nat, OpOk(lg[n + 1]), lg[n + 1].kind = "write",
         \A j \in 1..n : ~IsOf(lg[j], lg[n + 1].client, lg[n + 1].session)
  PROVE  Exact(lg, n + 1, lg[n + 1].client, FirstEntry(lg[n + 1], n + 1))
<1>1. PICK op : op = lg[n + 1]
  OBVIOUS
<1>2. PICK e : e = FirstEntry(op, n + 1)
  OBVIOUS
<1>3. /\ e.epoch = op.session /\ e.watermark = op.request /\ e.window = {0}
      /\ e.latest_commit = n + 1 /\ e.pinned.request = op.request /\ e.pinned.commit = n + 1
  BY <1>2 DEF FirstEntry
<1>4. op.request \in Nat \ {0} /\ IsRequest(op, op.client, op.session, op.request)
  BY <1>1 DEF OpOk, OpRecord, IsRequest, IsOf, IsWrite
<1>5. \A j \in 1..(n + 1) : IsOf(lg[j], op.client, op.session) <=> j = n + 1
  <2>1. \A j \in 1..(n + 1) : j \in 1..n \/ j = n + 1
    OBVIOUS
  <2> QED BY <1>1, <1>4, <2>1 DEF IsRequest
<1>6. \A j \in 1..(n + 1) : \A q : IsRequest(lg[j], op.client, op.session, q) <=> (j = n + 1 /\ q = op.request)
  BY <1>1, <1>4, <1>5 DEF IsRequest
<1>7. \A b \in Nat : b \in e.window <=>
          (b < COMMITTED_WINDOW_BITS /\ \E j \in 1..(n + 1) : IsRequest(lg[j], op.client, e.epoch, e.watermark - b))
  <2> TAKE b \in Nat
  <2>1. (\E j \in 1..(n + 1) : IsRequest(lg[j], op.client, e.epoch, e.watermark - b))
          <=> op.request - b = op.request
    <3>1. n + 1 \in 1..(n + 1)
      OBVIOUS
    <3>2. PICK q : q = op.request - b
      OBVIOUS
    <3>3. (\E j \in 1..(n + 1) : IsRequest(lg[j], op.client, op.session, q)) <=> q = op.request
      BY <1>6, <3>1
    <3> QED BY <1>3, <3>2, <3>3
  <2>2. op.request - b = op.request <=> b = 0
    BY <1>4
  <2> QED BY <1>3, <2>1, <2>2, SizesAssumption
<1>8. \A j \in 1..(n + 1) : IsOf(lg[j], op.client, e.epoch) => lg[j].request <= e.watermark
  BY <1>1, <1>3, <1>4, <1>5
<1>9. Exact(lg, n + 1, op.client, e)
  <2>1. n + 1 \in 1..(n + 1)
    OBVIOUS
  <2> QED BY <1>3, <1>6, <1>7, <1>8, <2>1 DEF Exact
<1> QED BY <1>1, <1>2, <1>9

\* The entry after a write above the watermark.
LEMMA ExactHigher ==
  ASSUME NEW lg, NEW n \in Nat, \A j \in 1..(n + 1) : OpOk(lg[j]), NEW c, NEW e \in Entry,
         Exact(lg, n, c, e), IsOf(lg[n + 1], c, e.epoch), lg[n + 1].request > e.watermark
  PROVE  Exact(lg, n + 1, c, HigherEntry(e, lg[n + 1], n + 1))
<1>1. PICK op : op = lg[n + 1]
  OBVIOUS
<1>2. PICK h : h = HigherEntry(e, op, n + 1)
  OBVIOUS
<1>3. /\ h.epoch = e.epoch /\ h.watermark = op.request
      /\ h.window = shift(e.window, op.request - e.watermark)
      /\ h.latest_commit = n + 1 /\ h.pinned.request = op.request /\ h.pinned.commit = n + 1
  BY <1>2 DEF HigherEntry
<1>4. op.request \in Nat /\ IsRequest(op, c, e.epoch, op.request) /\ e.watermark \in Nat
      /\ op.request > e.watermark /\ e.window \in SUBSET Nat
  BY <1>1 DEF OpOk, OpRecord, IsRequest, IsOf, IsWrite, Entry
<1>5. \A j \in 1..(n + 1) : j \in 1..n \/ j = n + 1
  OBVIOUS
<1>6. \A j \in 1..n : IsOf(lg[j], c, e.epoch) =>
          lg[j].request \in Nat /\ lg[j].request <= e.watermark /\ lg[j].request # op.request
  <2> TAKE j \in 1..n
  <2>1. lg[j].request \in Nat
    BY DEF OpOk, OpRecord
  <2> QED BY <1>4, <2>1 DEF Exact
<1>7. \A j \in 1..(n + 1) : IsRequest(lg[j], c, h.epoch, h.watermark) <=> j = h.pinned.commit
  BY <1>1, <1>3, <1>4, <1>5, <1>6 DEF IsRequest
<1>8. \A j \in 1..(n + 1) : IsOf(lg[j], c, h.epoch) => lg[j].request <= h.watermark
  BY <1>1, <1>3, <1>4, <1>5, <1>6
<1>9. PICK gap \in Nat \ {0} : gap = op.request - e.watermark
  BY <1>4
<1>10. \A b \in e.window : b < COMMITTED_WINDOW_BITS
  BY <1>4 DEF Exact
<1>11. \A b \in Nat : b \in h.window <=>
               b = 0 \/ (b < COMMITTED_WINDOW_BITS /\ b >= gap /\ b - gap \in e.window)
  BY <1>3, <1>4, <1>9, <1>10, Shifted
<1>12. ASSUME NEW b \in Nat
       PROVE  b \in h.window <=>
          (b < COMMITTED_WINDOW_BITS /\ \E j \in 1..(n + 1) : IsRequest(lg[j], c, h.epoch, h.watermark - b))
  <2>1. CASE b = 0
    <3>1. IsRequest(lg[n + 1], c, h.epoch, h.watermark - b)
      BY <1>1, <1>3, <1>4, <2>1
    <3>2. n + 1 \in 1..(n + 1)
      OBVIOUS
    <3> QED BY <1>11, <2>1, <3>1, <3>2, SizesAssumption
  <2>2. CASE b > 0 /\ b < gap
    <3>1. ~ \E j \in 1..(n + 1) : IsRequest(lg[j], c, h.epoch, h.watermark - b)
      <4> SUFFICES ASSUME NEW j \in 1..(n + 1), IsRequest(lg[j], c, e.epoch, op.request - b) PROVE FALSE
        BY <1>3
      <4>1. op.request - b > e.watermark /\ op.request - b < op.request
        BY <1>4, <1>9, <2>2
      <4> QED BY <1>1, <1>4, <1>5, <1>6, <4>1 DEF IsRequest
    <3> QED BY <1>11, <2>2, <3>1
  <2>3. CASE b >= gap
    <3>1. PICK d \in Nat : d = b - gap
      BY <2>3
    <3>2. op.request - b = e.watermark - d /\ op.request - b # op.request /\ b # 0
      BY <1>4, <1>9, <2>3, <3>1
    <3>3. (\E j \in 1..(n + 1) : IsRequest(lg[j], c, h.epoch, h.watermark - b))
             <=> (\E j \in 1..n : IsRequest(lg[j], c, e.epoch, e.watermark - d))
      <4>1. ~IsRequest(lg[n + 1], c, e.epoch, op.request - b)
        BY <1>1, <3>2 DEF IsRequest
      <4>2. \A j \in 1..n : j \in 1..(n + 1)
        OBVIOUS
      <4> QED BY <1>3, <1>5, <3>2, <4>1, <4>2
    <3>4. b < COMMITTED_WINDOW_BITS => d < COMMITTED_WINDOW_BITS
      BY <1>9, <2>3, <3>1, SizesAssumption
    <3>5. d \in e.window <=>
             (d < COMMITTED_WINDOW_BITS /\ \E j \in 1..n : IsRequest(lg[j], c, e.epoch, e.watermark - d))
      BY DEF Exact
    <3> QED BY <1>11, <2>3, <3>1, <3>2, <3>3, <3>4, <3>5
  <2> QED BY <1>9, <2>1, <2>2, <2>3
<1>13. Exact(lg, n + 1, c, h)
  <2>1. n + 1 \in 1..(n + 1)
    OBVIOUS
  <2> QED BY <1>3, <1>7, <1>8, <1>12, <2>1 DEF Exact
<1> QED BY <1>1, <1>2, <1>13

\* The entry after a write in a hole of the window.
LEMMA ExactLower ==
  ASSUME NEW lg, NEW n \in Nat, \A j \in 1..(n + 1) : OpOk(lg[j]), NEW c, NEW e \in Entry,
         Exact(lg, n, c, e), IsOf(lg[n + 1], c, e.epoch), lg[n + 1].request <= e.watermark,
         e.watermark - lg[n + 1].request < COMMITTED_WINDOW_BITS,
         e.watermark - lg[n + 1].request \notin e.window, 0 \in e.window
  PROVE  Exact(lg, n + 1, c, LowerEntry(e, lg[n + 1]))
<1>1. PICK op : op = lg[n + 1]
  OBVIOUS
<1>2. PICK h : h = LowerEntry(e, op)
  OBVIOUS
<1>3. op.request \in Nat /\ e.watermark \in Nat /\ IsRequest(op, c, e.epoch, op.request)
      /\ e.window \in SUBSET Nat
  BY <1>1 DEF OpOk, OpRecord, IsRequest, IsOf, IsWrite, Entry
<1>4. PICK d \in Nat : d = e.watermark - op.request
  BY <1>1, <1>3
<1>5. /\ h.epoch = e.epoch /\ h.watermark = e.watermark /\ h.window = e.window \cup {d}
      /\ h.latest_commit = e.pinned.commit /\ h.pinned = e.pinned
  BY <1>2, <1>4 DEF LowerEntry
<1>6. d # 0 /\ d < COMMITTED_WINDOW_BITS /\ op.request # e.watermark
  BY <1>1, <1>3, <1>4
<1>7. \A j \in 1..(n + 1) : j \in 1..n \/ j = n + 1
  OBVIOUS
<1>8. e.pinned.commit \in 1..n /\ e.pinned.commit # n + 1
  BY DEF Exact
<1>9. \A j \in 1..(n + 1) : IsRequest(lg[j], c, h.epoch, h.watermark) <=> j = h.pinned.commit
  <2>1. ~IsRequest(lg[n + 1], c, e.epoch, e.watermark)
    BY <1>1, <1>6 DEF IsRequest
  <2> QED BY <1>5, <1>7, <1>8, <2>1 DEF Exact
<1>10. \A j \in 1..(n + 1) : IsOf(lg[j], c, h.epoch) => lg[j].request <= h.watermark
  BY <1>1, <1>5, <1>7 DEF Exact
<1>11. ASSUME NEW b \in Nat
       PROVE  b \in h.window <=>
          (b < COMMITTED_WINDOW_BITS /\ \E j \in 1..(n + 1) : IsRequest(lg[j], c, h.epoch, h.watermark - b))
  <2>1. CASE b = d
    <3>1. h.watermark - b = op.request
      BY <1>3, <1>4, <1>5, <2>1
    <3>2. n + 1 \in 1..(n + 1)
      OBVIOUS
    <3> QED BY <1>1, <1>3, <1>5, <1>6, <2>1, <3>1, <3>2
  <2>2. CASE b # d
    <3>1. e.watermark - b # op.request
      BY <1>3, <1>4, <2>2
    <3>2. ~IsRequest(lg[n + 1], c, e.epoch, e.watermark - b)
      BY <1>1, <3>1 DEF IsRequest
    <3>3. \A j \in 1..n : j \in 1..(n + 1)
      OBVIOUS
    <3>4. b \in h.window <=> b \in e.window
      BY <1>5, <2>2
    <3> QED BY <1>5, <1>7, <3>2, <3>3, <3>4 DEF Exact
  <2> QED BY <2>1, <2>2
<1>12. Exact(lg, n + 1, c, h)
  <2>1. h.pinned.commit \in 1..(n + 1)
    BY <1>5, <1>8
  <2>2. h.pinned.request = h.watermark /\ h.latest_commit = h.pinned.commit
    BY <1>5 DEF Exact
  <2> QED BY <1>9, <1>10, <1>11, <2>1, <2>2 DEF Exact
<1> QED BY <1>1, <1>2, <1>12

-----------------------------------------------------------------------------
(* One more op *)

\* Zero is in the window of an exact entry, and nothing beyond the window's bits.
LEMMA ExactWindow ==
  ASSUME NEW lg, NEW n \in Nat, NEW c, NEW e \in Entry, Exact(lg, n, c, e)
  PROVE  0 \in e.window /\ \A b \in e.window : b < COMMITTED_WINDOW_BITS
<1>1. e.watermark - 0 = e.watermark /\ e.window \in SUBSET Nat
  BY DEF Entry
<1>2. IsRequest(lg[e.pinned.commit], c, e.epoch, e.watermark) /\ e.pinned.commit \in 1..n
  BY DEF Exact
<1>3. 0 \in e.window
  BY <1>1, <1>2, SizesAssumption DEF Exact
<1>4. \A b \in e.window : b < COMMITTED_WINDOW_BITS
  BY <1>1 DEF Exact
<1> QED BY <1>3, <1>4

\* What op makes of the entry of client c.
LEMMA AfterOp ==
  ASSUME NEW t \in Tables, NEW op, OpOk(op), NEW at, NEW c \in Clients
  PROVE  /\ op.kind = "retire" => After(t, op, at)[c] = IF NamesSession(op, c, t[c].epoch) THEN None ELSE t[c]
         /\ IsWrite(op, c) => After(t, op, at)[c] = commit_entry(t[c], op, at)
         /\ ~IsWrite(op, c) /\ ~NamesSession(op, c, t[c].epoch) => After(t, op, at)[c] = t[c]
         /\ DOMAIN After(t, op, at) = Clients
         /\ After(t, op, at) = [d \in Clients |-> After(t, op, at)[d]]
<1>1. op \in OpRecord
  BY DEF OpOk
<1>2. CASE op.kind = "retire"
  BY <1>1, <1>2, Forgotten DEF IsWrite, After, forget_sessions
<1>3. CASE op.kind = "write"
  <2>1. After(t, op, at) = [t EXCEPT ![op.client] = commit_entry(t[op.client], op, at)]
    BY <1>3 DEF After
  <2>2. After(t, op, at) = [d \in Clients |-> IF d = op.client THEN commit_entry(t[op.client], op, at) ELSE t[d]]
    BY <2>1 DEF Tables
  <2> QED BY <1>3, <2>2 DEF IsWrite, NamesSession
<1>4. CASE op.kind = "install"
  BY <1>4 DEF After, IsWrite, NamesSession, Tables
<1> QED BY <1>1, <1>2, <1>3, <1>4 DEF OpRecord

\* An op that may be appended to a log.
MayAppend(lg, T, op) == OpOk(op) /\ (op.kind = "write" => Fits(lg, T, Len(lg), op))

Extended(lg, T, op) == [T EXCEPT ![Len(lg) + 1] = After(T[Len(lg)], op, Len(lg) + 1)]
ExtendedF(lg, F, op) == [F EXCEPT ![Len(lg) + 1] = Raised(F[Len(lg)], op)]

\* A write that fits finds no entry and no write of its session before, or the
\* exact entry of its session.
LEMMA FitsWhere ==
  ASSUME NEW lg, NEW T, NEW F, RunOk(lg, T, F), NEW op, MayAppend(lg, T, op), op.kind = "write"
  PROVE  LET e == T[Len(lg)][op.client]
         IN  /\ e = None => \A j \in 1..Len(lg) : ~IsOf(lg[j], op.client, op.session)
             /\ e # None => /\ e \in Entry /\ IsNew(e, op) /\ Exact(lg, Len(lg), op.client, e)
                            /\ 0 \in e.window /\ \A b \in e.window : b < COMMITTED_WINDOW_BITS
<1> DEFINE n == Len(lg)
           e == T[n][op.client]
<1>1. n \in Nat /\ T[n] \in Tables /\ op.client \in Clients /\ op.session > 0 /\ n \in 0..n
  BY DEF RunOk, Starts, MayAppend, OpOk
<1>2. ASSUME e = None, NEW j \in 1..n, IsOf(lg[j], op.client, op.session) PROVE FALSE
  <2>1. T[n][lg[j].client].epoch = lg[j].session \/
        \E i \in (j + 1)..n : NamesSession(lg[i], lg[j].client, lg[j].session)
    BY <1>1, <1>2 DEF RunOk, Remembered, IsOf, IsWrite
  <2>2. lg[j].client = op.client /\ lg[j].session = op.session
    BY <1>2 DEF IsOf, IsWrite
  <2>3. \A i \in (j + 1)..n : ~NamesSession(lg[i], lg[j].client, lg[j].session)
    BY <1>1, <2>2 DEF MayAppend, Fits
  <2>4. T[n][op.client].epoch = 0 /\ op.session # 0
    <3>1. None.epoch = 0
      BY DEF None
    <3>2. op.session \in Nat
      BY DEF MayAppend, OpOk, OpRecord
    <3> QED BY <1>1, <1>2, <3>1, <3>2
  <2> QED BY <2>1, <2>2, <2>3, <2>4
<1>3. ASSUME e # None
      PROVE  e \in Entry /\ IsNew(e, op) /\ Exact(lg, n, op.client, e)
  <2>1. e \in Entry
    BY <1>1, <1>3 DEF Tables
  <2>2. IsNew(e, op)
    BY <1>1, <1>3, NewRequest DEF MayAppend, Fits
  <2>3. Exact(lg, n, op.client, e)
    BY <1>1, <1>3 DEF RunOk, AllExact
  <2> QED BY <2>1, <2>2, <2>3
<1>4. e # None => 0 \in e.window /\ \A b \in e.window : b < COMMITTED_WINDOW_BITS
  BY <1>1, <1>3, ExactWindow
<1> QED BY <1>2, <1>3, <1>4

\* The entry a write that fits leaves: typed, of its session, and exact.
LEMMA WrittenEntry ==
  ASSUME NEW lg, NEW T, NEW F, RunOk(lg, T, F), NEW op, MayAppend(lg, T, op), op.kind = "write",
         NEW lg2, lg2 = Append(lg, op)
  PROVE  LET n == Len(lg)
             f == commit_entry(T[n][op.client], op, n + 1)
         IN  f \in Entry /\ f.epoch = op.session /\ Exact(lg2, n + 1, op.client, f)
<1> DEFINE n == Len(lg)
           e == T[n][op.client]
           f == commit_entry(e, op, n + 1)
<1>1. n \in Nat /\ T[n] \in Tables /\ op.client \in Clients /\ OpOk(op) /\ e \in Entry \cup {None}
  <2>1. n \in Nat /\ T[n] \in Tables /\ op.client \in Clients
    BY DEF RunOk, Starts, MayAppend, OpOk
  <2>2. OpOk(op)
    BY DEF MayAppend
  <2> QED BY <2>1, <2>2 DEF Tables
<1>2. (\A j \in 1..n : lg2[j] = lg[j]) /\ lg2[n + 1] = op /\ \A j \in 1..(n + 1) : OpOk(lg2[j])
  <2>1. lg \in Seq(OpRecord) /\ \A j \in 1..n : OpOk(lg[j])
    BY DEF RunOk, Starts
  <2>2. (\A j \in 1..n : lg2[j] = lg[j]) /\ lg2[n + 1] = op
    BY <2>1
  <2>3. \A j \in 1..(n + 1) : j \in 1..n \/ j = n + 1
    BY <1>1
  <2> QED BY <1>1, <2>1, <2>2, <2>3
<1>3. /\ e = None => \A j \in 1..n : ~IsOf(lg[j], op.client, op.session)
      /\ e # None => /\ e \in Entry /\ IsNew(e, op) /\ Exact(lg, n, op.client, e)
                     /\ 0 \in e.window /\ \A b \in e.window : b < COMMITTED_WINDOW_BITS
  BY FitsWhere
<1>4. f = IF e = None THEN FirstEntry(op, n + 1)
          ELSE IF op.request > e.watermark THEN HigherEntry(e, op, n + 1) ELSE LowerEntry(e, op)
  <2>1. e # None => e.pinned.request = e.watermark /\ e.latest_commit = e.pinned.commit
    BY <1>3 DEF Exact
  <2>2. n + 1 \in Nat
    BY <1>1
  <2> QED BY <1>1, <1>3, <2>1, <2>2, CommittedEntry
<1>5. CASE e = None
  <2>1. f = FirstEntry(op, n + 1) /\ n + 1 \in Nat
    BY <1>1, <1>4, <1>5
  <2>2. f \in Entry
    BY <1>1, <2>1, FirstType
  <2>3. f.epoch = op.session
    BY <2>1 DEF FirstEntry
  <2>4. \A j \in 1..n : ~IsOf(lg2[j], lg2[n + 1].client, lg2[n + 1].session)
    BY <1>2, <1>3, <1>5
  <2>5. Exact(lg2, n + 1, lg2[n + 1].client, FirstEntry(lg2[n + 1], n + 1))
    BY <1>1, <1>2, <2>4, ExactFirst
  <2> QED BY <1>2, <2>1, <2>2, <2>3, <2>5
<1>6. CASE e # None
  <2>1. e \in Entry /\ IsNew(e, op) /\ Exact(lg2, n, op.client, e) /\ e.epoch = op.session
        /\ IsOf(op, op.client, e.epoch)
    <3>1. Exact(lg2, n, op.client, e)
      BY <1>1, <1>2, <1>3, <1>6, ExactSame
    <3> QED BY <1>3, <1>6, <3>1 DEF IsNew, IsOf, IsWrite
  <2>2. op.request \in Nat /\ e.watermark \in Nat
    BY <1>1, <2>1 DEF OpOk, OpRecord, Entry
  <2>3. CASE op.request > e.watermark
    <3>1. f = HigherEntry(e, op, n + 1) /\ n + 1 \in Nat
      BY <1>1, <1>4, <1>6, <2>3
    <3>2. f \in Entry
      BY <1>1, <1>3, <1>6, <2>1, <2>3, <3>1, HigherType
    <3>3. f.epoch = op.session
      BY <2>1, <3>1 DEF HigherEntry
    <3>4. Exact(lg2, n + 1, op.client, HigherEntry(e, lg2[n + 1], n + 1))
      BY <1>1, <1>2, <2>1, <2>3, ExactHigher
    <3> QED BY <1>2, <3>1, <3>2, <3>3, <3>4
  <2>4. CASE ~(op.request > e.watermark)
    <3>1. f = LowerEntry(e, op) /\ op.request <= e.watermark
      BY <1>4, <1>6, <2>2, <2>4
    <3>2. f \in Entry
      BY <1>1, <2>1, <3>1, LowerType
    <3>3. f.epoch = op.session
      BY <2>1, <3>1 DEF LowerEntry
    <3>4. e.watermark - op.request < COMMITTED_WINDOW_BITS /\ e.watermark - op.request \notin e.window
      BY <2>1, <2>2, <2>4 DEF IsNew
    <3>5. Exact(lg2, n + 1, op.client, LowerEntry(e, lg2[n + 1]))
      BY <1>1, <1>2, <1>3, <1>6, <2>1, <3>1, <3>4, ExactLower
    <3> QED BY <1>2, <3>1, <3>2, <3>3, <3>5
  <2> QED BY <2>3, <2>4
<1> QED BY <1>5, <1>6

\* Whatever the longer log is called.
LEMMA WrittenType ==
  ASSUME NEW lg, NEW T, NEW F, RunOk(lg, T, F), NEW op, MayAppend(lg, T, op), op.kind = "write"
  PROVE  LET f == commit_entry(T[Len(lg)][op.client], op, Len(lg) + 1)
         IN  f \in Entry /\ f.epoch = op.session
<1>1. PICK lg2 : lg2 = Append(lg, op)
  OBVIOUS
<1> QED BY <1>1, WrittenEntry

\* The table and the frontier after one more op have their types.
LEMMA ExtendedType ==
  ASSUME NEW lg, NEW T, NEW F, RunOk(lg, T, F), NEW op, MayAppend(lg, T, op)
  PROVE  /\ After(T[Len(lg)], op, Len(lg) + 1) \in Tables
         /\ Raised(F[Len(lg)], op) \in Nat
<1> DEFINE n == Len(lg)
           t == T[n]
<1>1. n \in Nat /\ t \in Tables /\ F[n] \in Nat
  BY DEF RunOk, Starts
<1>2. OpOk(op)
  BY DEF MayAppend
<1>3. ASSUME NEW c \in Clients PROVE After(t, op, n + 1)[c] \in Entry \cup {None}
  <2>1. t[c] \in Entry \cup {None}
    BY <1>1 DEF Tables
  <2>2. CASE op.kind = "retire"
    BY <1>1, <1>2, <2>1, <2>2, AfterOp
  <2>3. CASE IsWrite(op, c)
    <3>1. op.kind = "write" /\ op.client = c
      BY <2>3 DEF IsWrite
    <3>2. commit_entry(T[n][op.client], op, n + 1) \in Entry
      BY <3>1, WrittenType
    <3> QED BY <1>1, <1>2, <2>3, <3>1, <3>2, AfterOp
  <2>4. CASE op.kind # "retire" /\ ~IsWrite(op, c)
    <3>1. ~NamesSession(op, c, t[c].epoch)
      BY <2>4 DEF NamesSession
    <3> QED BY <1>1, <1>2, <2>1, <2>4, <3>1, AfterOp
  <2> QED BY <2>2, <2>3, <2>4
<1>4. After(t, op, n + 1) = [d \in Clients |-> After(t, op, n + 1)[d]]
  <2>1. CASE op.kind = "retire"
    BY <2>1 DEF After, forget_sessions
  <2>2. CASE op.kind = "write"
    BY <1>1, <2>2 DEF After, Tables
  <2>3. CASE op.kind # "retire" /\ op.kind # "write"
    BY <1>1, <2>3 DEF After, Tables
  <2> QED BY <2>1, <2>2, <2>3
<1>5. After(t, op, n + 1) \in Tables
  BY <1>3, <1>4 DEF Tables
<1>6. Raised(F[n], op) \in Nat
  BY <1>1, <1>2, RaisedBy
<1> QED BY <1>5, <1>6

\* The log and its run, one op longer.
Longer(lg, T, F, op, lg2, T2, F2) ==
    /\ lg2 = Append(lg, op) /\ T2 = Extended(lg, T, op) /\ F2 = ExtendedF(lg, F, op)

\* The longer log has a run again, which keeps everything the shorter one has.
LEMMA LongerIs ==
  ASSUME NEW lg, NEW T, NEW F, RunOk(lg, T, F), NEW op, MayAppend(lg, T, op),
         NEW lg2, NEW T2, NEW F2, Longer(lg, T, F, op, lg2, T2, F2)
  PROVE  LET n == Len(lg) IN
         /\ n \in Nat /\ Len(lg2) = n + 1 /\ lg2[n + 1] = op /\ \A j \in 1..n : lg2[j] = lg[j]
         /\ \A k \in 0..n : T2[k] = T[k] /\ F2[k] = F[k]
         /\ T2[n + 1] = After(T[n], op, n + 1) /\ F2[n + 1] = Raised(F[n], op)
         /\ Starts(lg2, T2, F2) /\ Follows(lg2, T2, F2)
<1> DEFINE n == Len(lg)
<1>1. lg \in Seq(OpRecord) /\ n \in Nat /\ \A i \in 1..n : OpOk(lg[i])
  BY DEF RunOk, Starts
<1>2. op \in OpRecord /\ OpOk(op)
  BY DEF MayAppend, OpOk
<1>3. /\ lg2 \in Seq(OpRecord) /\ Len(lg2) = n + 1 /\ lg2[n + 1] = op
      /\ \A j \in 1..n : lg2[j] = lg[j]
  BY <1>1, <1>2 DEF Longer
<1>4. T \in [Nat -> Tables] /\ F \in [Nat -> Nat] /\ n + 1 \in Nat
      /\ T[0] = [c \in Clients |-> None] /\ F[0] = 0
  BY <1>1 DEF RunOk, Starts
<1>5. After(T[n], op, n + 1) \in Tables /\ Raised(F[n], op) \in Nat
  BY ExtendedType
<1>6. /\ T2 = [T EXCEPT ![n + 1] = After(T[n], op, n + 1)]
      /\ F2 = [F EXCEPT ![n + 1] = Raised(F[n], op)]
  BY DEF Longer, Extended, ExtendedF
<1>7. /\ T2 \in [Nat -> Tables] /\ F2 \in [Nat -> Nat]
      /\ T2[n + 1] = After(T[n], op, n + 1) /\ F2[n + 1] = Raised(F[n], op)
      /\ \A k \in Nat : k # n + 1 => T2[k] = T[k] /\ F2[k] = F[k]
  BY <1>4, <1>5, <1>6
<1>8. \A k \in 0..n : T2[k] = T[k] /\ F2[k] = F[k]
  <2>1. \A k \in 0..n : k \in Nat /\ k # n + 1
    BY <1>1
  <2> QED BY <1>7, <2>1
<1>9. Starts(lg2, T2, F2)
  <2>1. \A i \in 1..(n + 1) : i \in 1..n \/ i = n + 1
    BY <1>1
  <2>2. \A i \in 1..(n + 1) : OpOk(lg2[i])
    BY <1>1, <1>2, <1>3, <2>1
  <2>3. 0 \in 0..n
    BY <1>1
  <2> QED BY <1>3, <1>4, <1>7, <1>8, <2>2, <2>3 DEF Starts
<1>10. Follows(lg2, T2, F2)
  <2> SUFFICES ASSUME NEW k \in 1..(n + 1)
               PROVE  T2[k] = After(T2[k - 1], lg2[k], k) /\ F2[k] = Raised(F2[k - 1], lg2[k])
    BY <1>3 DEF Follows
  <2>1. k - 1 \in 0..n
    BY <1>1
  <2>2. CASE k = n + 1
    <3>1. k - 1 = n
      BY <1>1, <2>2
    <3> QED BY <1>3, <1>7, <1>8, <2>1, <2>2, <3>1
  <2>3. CASE k # n + 1
    <3>1. k \in 1..n /\ k \in 0..n
      BY <1>1, <2>3
    <3>2. T[k] = After(T[k - 1], lg[k], k) /\ F[k] = Raised(F[k - 1], lg[k])
      BY <3>1 DEF RunOk, Follows
    <3> QED BY <1>3, <1>8, <2>1, <3>1, <3>2
  <2> QED BY <2>2, <2>3
<1> QED BY <1>1, <1>3, <1>7, <1>8, <1>9, <1>10

\* The entries of the longer log.
LEMMA LongerFrames ==
  ASSUME NEW lg, NEW T, NEW F, RunOk(lg, T, F), NEW op, MayAppend(lg, T, op),
         NEW lg2, NEW T2, NEW F2, Longer(lg, T, F, op, lg2, T2, F2)
  PROVE  Frames(lg2, T2) /\ Admitted(lg2, T2)
<1> DEFINE n == Len(lg)
<1>1. /\ n \in Nat /\ Len(lg2) = n + 1 /\ lg2[n + 1] = op /\ \A j \in 1..n : lg2[j] = lg[j]
      /\ \A k \in 0..n : T2[k] = T[k] /\ F2[k] = F[k]
      /\ T2[n + 1] = After(T[n], op, n + 1)
      /\ T[n] \in Tables /\ OpOk(op) /\ 0..(n + 1) = 0..n \cup {n + 1} /\ 1..(n + 1) = 1..n \cup {n + 1}
  <2>1. T[n] \in Tables /\ OpOk(op)
    BY LongerIs DEF RunOk, Starts, MayAppend
  <2> QED BY <2>1, LongerIs
<1>2. Frames(lg2, T2)
  <2> SUFFICES ASSUME NEW k \in 0..(n + 1), NEW i \in 0..k, NEW c \in Clients,
                      \A j \in (i + 1)..k : ~IsWrite(lg2[j], c) /\ ~NamesSession(lg2[j], c, T2[i][c].epoch)
               PROVE  T2[k][c] = T2[i][c]
    BY <1>1 DEF Frames
  <2>1. CASE k = i
    BY <2>1
  <2>2. CASE k \in 0..n
    <3>1. i \in 0..n /\ \A j \in (i + 1)..k : j \in 1..n
      BY <1>1, <2>2
    <3>2. \A j \in (i + 1)..k : ~IsWrite(lg[j], c) /\ ~NamesSession(lg[j], c, T[i][c].epoch)
      BY <1>1, <3>1
    <3>3. T[k][c] = T[i][c]
      BY <2>2, <3>2 DEF RunOk, Frames
    <3> QED BY <1>1, <2>2, <3>1, <3>3
  <2>3. CASE k = n + 1 /\ i # k
    <3>1. i \in 0..n /\ n \in 0..n /\ \A j \in (i + 1)..n : j \in 1..n /\ j \in (i + 1)..k
      BY <1>1, <2>3
    <3>2. \A j \in (i + 1)..n : ~IsWrite(lg[j], c) /\ ~NamesSession(lg[j], c, T[i][c].epoch)
      BY <1>1, <3>1
    <3>3. T[n][c] = T[i][c]
      BY <3>1, <3>2 DEF RunOk, Frames
    <3>4. n + 1 \in (i + 1)..k
      BY <1>1, <2>3, <3>1
    <3>5. ~IsWrite(op, c) /\ ~NamesSession(op, c, T[n][c].epoch)
      BY <1>1, <3>1, <3>3, <3>4
    <3>6. After(T[n], op, n + 1)[c] = T[n][c]
      BY <1>1, <3>5, AfterOp
    <3> QED BY <1>1, <2>3, <3>1, <3>3, <3>6
  <2> QED BY <1>1, <2>1, <2>2, <2>3
<1>3. Admitted(lg2, T2)
  <2> SUFFICES ASSUME NEW i \in 1..(n + 1), lg2[i].kind = "write" PROVE Fits(lg2, T2, i - 1, lg2[i])
    BY <1>1 DEF Admitted
  <2>1. i - 1 \in 0..n /\ \A j \in 1..(i - 1) : j \in 1..n
    BY <1>1
  <2>2. Fits(lg, T, i - 1, lg2[i])
    <3>1. CASE i = n + 1
      <4>1. i - 1 = n
        BY <1>1, <3>1
      <4> QED BY <1>1, <3>1, <4>1 DEF MayAppend
    <3>2. CASE i \in 1..n
      BY <1>1, <3>2 DEF RunOk, Admitted
    <3> QED BY <1>1, <3>1, <3>2
  <2> QED BY <1>1, <2>1, <2>2 DEF Fits
<1> QED BY <1>2, <1>3

\* They are exact.
LEMMA LongerExact ==
  ASSUME NEW lg, NEW T, NEW F, RunOk(lg, T, F), NEW op, MayAppend(lg, T, op),
         NEW lg2, NEW T2, NEW F2, Longer(lg, T, F, op, lg2, T2, F2)
  PROVE  AllExact(lg2, T2)
<1> DEFINE n == Len(lg)
<1>1. /\ n \in Nat /\ Len(lg2) = n + 1 /\ lg2[n + 1] = op /\ \A j \in 1..n : lg2[j] = lg[j]
      /\ \A k \in 0..n : T2[k] = T[k]
      /\ T2[n + 1] = After(T[n], op, n + 1)
      /\ T[n] \in Tables /\ OpOk(op) /\ 0..(n + 1) = 0..n \cup {n + 1}
  <2>1. T[n] \in Tables /\ OpOk(op)
    BY LongerIs DEF RunOk, Starts, MayAppend
  <2> QED BY <2>1, LongerIs
<1> SUFFICES ASSUME NEW k \in 0..(n + 1), NEW c \in Clients, T2[k][c] # None
             PROVE  Exact(lg2, k, c, T2[k][c])
  BY <1>1 DEF AllExact
<1>2. CASE k \in 0..n
  <2>1. Exact(lg, k, c, T[k][c])
    BY <1>1, <1>2 DEF RunOk, AllExact
  <2>2. \A j \in 1..k : lg2[j] = lg[j]
    BY <1>1, <1>2
  <2>3. k \in Nat
    BY <1>2
  <2>4. Exact(lg2, k, c, T[k][c])
    BY <2>1, <2>2, <2>3, ExactSame
  <2> QED BY <1>1, <1>2, <2>4
<1>3. CASE k = n + 1
  <2>1. CASE IsWrite(op, c)
    <3>1. op.kind = "write" /\ op.client = c
      BY <2>1 DEF IsWrite
    <3>2. Exact(lg2, n + 1, c, commit_entry(T[n][c], op, n + 1))
      BY <3>1, WrittenEntry DEF Longer
    <3> QED BY <1>1, <1>3, <2>1, <3>2, AfterOp
  <2>2. CASE ~IsWrite(op, c)
    <3>1. T2[k][c] = T[n][c]
      BY <1>1, <1>3, <2>2, AfterOp DEF NamesSession
    <3>2. T[n][c] \in Entry /\ Exact(lg, n, c, T[n][c])
      <4>1. n \in 0..n
        BY <1>1
      <4> QED BY <1>1, <3>1, <4>1 DEF RunOk, AllExact, Tables
    <3>3. Exact(lg2, n, c, T[n][c])
      BY <1>1, <3>2, ExactSame
    <3>4. ~IsOf(lg2[n + 1], c, T[n][c].epoch)
      BY <1>1, <2>2 DEF IsOf
    <3> QED BY <1>1, <1>3, <3>1, <3>2, <3>3, <3>4, ExactKept
  <2> QED BY <2>1, <2>2
<1> QED BY <1>1, <1>2, <1>3

\* And complete; the frontier follows.
LEMMA LongerRemembers ==
  ASSUME NEW lg, NEW T, NEW F, RunOk(lg, T, F), NEW op, MayAppend(lg, T, op),
         NEW lg2, NEW T2, NEW F2, Longer(lg, T, F, op, lg2, T2, F2)
  PROVE  Remembered(lg2, T2)
<1> DEFINE n == Len(lg)
<1>1. /\ n \in Nat /\ Len(lg2) = n + 1 /\ lg2[n + 1] = op /\ \A j \in 1..n : lg2[j] = lg[j]
      /\ \A k \in 0..n : T2[k] = T[k]
      /\ T2[n + 1] = After(T[n], op, n + 1)
      /\ T[n] \in Tables /\ OpOk(op) /\ 0..(n + 1) = 0..n \cup {n + 1}
      /\ \A j \in 1..n : OpOk(lg[j])
  <2>1. T[n] \in Tables /\ OpOk(op) /\ \A j \in 1..n : OpOk(lg[j])
    BY LongerIs DEF RunOk, Starts, MayAppend
  <2> QED BY <2>1, LongerIs
<1> SUFFICES ASSUME NEW k \in 0..(n + 1), NEW j \in 1..k, lg2[j].kind = "write"
             PROVE  \/ T2[k][lg2[j].client].epoch = lg2[j].session
                    \/ \E i \in (j + 1)..k : NamesSession(lg2[i], lg2[j].client, lg2[j].session)
  BY <1>1 DEF Remembered
<1>2. CASE k \in 0..n
  <2>1. j \in 1..n /\ \A i \in (j + 1)..k : i \in 1..n
    BY <1>1, <1>2
  <2>2. \/ T[k][lg[j].client].epoch = lg[j].session
        \/ \E i \in (j + 1)..k : NamesSession(lg[i], lg[j].client, lg[j].session)
    BY <1>1, <1>2, <2>1 DEF RunOk, Remembered
  <2> QED BY <1>1, <1>2, <2>1, <2>2
<1>3. CASE k = n + 1 /\ j = n + 1
  <2>1. op.kind = "write" /\ op.client \in Clients /\ lg2[j] = op
    BY <1>1, <1>3 DEF OpOk
  <2>2. commit_entry(T[n][op.client], op, n + 1).epoch = op.session
    BY <2>1, WrittenType
  <2> QED BY <1>1, <1>3, <2>1, <2>2, AfterOp DEF IsWrite
<1>4. CASE k = n + 1 /\ j # n + 1
  <2>1. j \in 1..n /\ n \in 0..n /\ (\A i \in (j + 1)..n : i \in 1..n /\ i \in (j + 1)..k)
        /\ n + 1 \in (j + 1)..k
    BY <1>1, <1>4
  <2>2. PICK c \in Clients : c = lg2[j].client
    BY <1>1, <1>4, <2>1 DEF OpOk
  <2>3. lg2[j] = lg[j]
    BY <1>1, <2>1
  <2>4. \/ T[n][c].epoch = lg[j].session
        \/ \E i \in (j + 1)..n : NamesSession(lg[i], c, lg[j].session)
    BY <2>1, <2>2, <2>3 DEF RunOk, Remembered
  <2>5. CASE \E i \in (j + 1)..n : NamesSession(lg[i], c, lg[j].session)
    BY <1>1, <2>1, <2>2, <2>3, <2>5
  <2>6. CASE T[n][c].epoch = lg[j].session
    <3>1. CASE IsWrite(op, c)
      <4>1. op.kind = "write" /\ op.client = c
        BY <3>1 DEF IsWrite
      <4>2. T2[k][c] = commit_entry(T[n][c], op, n + 1)
        BY <1>1, <1>4, <3>1, AfterOp
      <4>3. T2[k][c].epoch = op.session
        BY <4>1, <4>2, WrittenType
      <4>4. op.session = lg[j].session
        <5>1. T[n][c] # None
          <6>1. lg[j].session > 0 /\ None.epoch = 0 /\ lg[j].session \in Nat
            BY <1>1, <2>1, <2>3 DEF OpOk, OpRecord, None
          <6> QED BY <2>6, <6>1
        <5>2. IsNew(T[n][c], op)
          BY <4>1, <5>1, FitsWhere
        <5> QED BY <2>6, <5>2 DEF IsNew
      <4> QED BY <2>2, <2>3, <4>3, <4>4
    <3>2. CASE NamesSession(op, c, T[n][c].epoch)
      BY <1>1, <2>1, <2>2, <2>3, <2>6, <3>2
    <3>3. CASE ~IsWrite(op, c) /\ ~NamesSession(op, c, T[n][c].epoch)
      BY <1>1, <1>4, <2>2, <2>3, <2>6, <3>3, AfterOp
    <3> QED BY <3>1, <3>2, <3>3
  <2> QED BY <2>4, <2>5, <2>6
<1> QED BY <1>1, <1>2, <1>3, <1>4

\* And every demand of the longer log is met.
LEMMA LongerDemands ==
  ASSUME NEW lg, NEW T, NEW F, RunOk(lg, T, F), NEW op, MayAppend(lg, T, op),
         NEW lg2, NEW T2, NEW F2, Longer(lg, T, F, op, lg2, T2, F2)
  PROVE  Demands(lg2, F2)
<1> DEFINE n == Len(lg)
<1>1. /\ n \in Nat /\ Len(lg2) = n + 1 /\ lg2[n + 1] = op /\ \A j \in 1..n : lg2[j] = lg[j]
      /\ \A k \in 0..n : F2[k] = F[k]
      /\ F2[n + 1] = Raised(F[n], op)
      /\ F \in [Nat -> Nat] /\ OpOk(op) 
  <2>1. F \in [Nat -> Nat] /\ OpOk(op)
    BY LongerIs DEF RunOk, Starts, MayAppend
  <2>2. n \in Nat /\ Len(lg2) = n + 1 /\ lg2[n + 1] = op /\ \A j \in 1..n : lg2[j] = lg[j]
    BY LongerIs
  <2>3. (\A k \in 0..n : F2[k] = F[k]) /\ F2[n + 1] = Raised(F[n], op)
    BY LongerIs
  <2> QED BY <2>1, <2>2, <2>3
<1>0. n \in Nat /\ 0..(n + 1) = 0..n \cup {n + 1} /\ n \in 0..n
  <2>1. n \in Nat
    BY <1>1
  <2> HIDE DEF n
  <2> QED BY <2>1
<1>2. ASSUME NEW k \in 0..n
      PROVE  /\ \A i \in 0..k : F[i] <= F[k]
             /\ \A j \in 1..k : lg[j].kind = "retire" => \A x \in lg[j].ids : x.ended <= F[k]
             /\ F[k] # 0 => \E j \in 1..k : RaisesTo(lg[j], F[k])
  BY DEF RunOk, Demands
<1>3. /\ Raised(F[n], op) \in Nat /\ F[n] <= Raised(F[n], op)
      /\ op.kind = "retire" => \A x \in op.ids : x.ended <= Raised(F[n], op)
      /\ Raised(F[n], op) = F[n] \/ RaisesTo(op, Raised(F[n], op))
  BY <1>1, RaisedBy
<1> SUFFICES ASSUME NEW k \in 0..(n + 1)
             PROVE  /\ \A i \in 0..k : F2[i] <= F2[k]
                    /\ \A j \in 1..k : lg2[j].kind = "retire" => \A x \in lg2[j].ids : x.ended <= F2[k]
                    /\ F2[k] # 0 => \E j \in 1..k : RaisesTo(lg2[j], F2[k])
  BY <1>1 DEF Demands
<1>4. CASE k \in 0..n
  <2>1. (\A i \in 0..k : i \in 0..n) /\ \A j \in 1..k : j \in 1..n
    BY <1>0, <1>4
  <2>2. F2[k] = F[k] /\ (\A i \in 0..k : F2[i] = F[i]) /\ \A j \in 1..k : lg2[j] = lg[j]
    BY <1>1, <1>4, <2>1
  <2> QED BY <1>2, <1>4, <2>2
<1>5. CASE k = n + 1
  <2>1. F2[k] = Raised(F[n], op)
    BY <1>1, <1>5
  <2>2. ASSUME NEW i \in 0..k PROVE F2[i] <= F2[k]
    <3>1. CASE i = n + 1
      BY <1>3, <1>5, <2>1, <3>1
    <3>2. CASE i # n + 1
      <4>1. i \in 0..n /\ F2[i] = F[i] /\ F[i] \in Nat /\ F[n] \in Nat
        <5>1. i \in 0..n /\ i \in Nat
          BY <1>0, <1>5, <3>2
        <5> QED BY <1>0, <1>1, <5>1
      <4>2. F[i] <= F[n]
        BY <1>0, <1>2, <4>1
      <4> QED BY <1>3, <2>1, <4>1, <4>2
    <3> QED BY <3>1, <3>2
  <2>3. ASSUME NEW j \in 1..k, lg2[j].kind = "retire", NEW x \in lg2[j].ids PROVE x.ended <= F2[k]
    <3>1. CASE j = n + 1
      BY <1>1, <1>3, <2>1, <2>3, <3>1
    <3>2. CASE j # n + 1
      <4>1. j \in 1..n /\ lg2[j] = lg[j]
        <5>1. j \in 1..n
          BY <1>0, <1>5, <3>2
        <5> QED BY <1>1, <5>1
      <4>2. x.ended <= F[n]
        BY <1>0, <1>2, <2>3, <4>1
      <4>3. x.ended \in Nat /\ F[n] \in Nat
        <5>1. OpOk(lg[j])
          BY <4>1 DEF RunOk, Starts
        <5>2. x.ended \in Nat
          BY <2>3, <4>1, <5>1 DEF OpOk, OpRecord, Identity
        <5> QED BY <1>0, <1>1, <5>2
      <4> QED BY <1>3, <2>1, <4>2, <4>3
    <3> QED BY <3>1, <3>2
  <2>4. ASSUME F2[k] # 0
        PROVE  \E j \in 1..k : RaisesTo(lg2[j], F2[k])
    <3>1. CASE Raised(F[n], op) = F[n]
      <4>1. \A j \in 1..n : j \in 1..k
        BY <1>1, <1>5
      <4>2. F2[k] = F[n] /\ F[n] # 0
        BY <2>1, <2>4, <3>1
      <4>3. PICK j \in 1..n : RaisesTo(lg[j], F[n])
        BY <1>0, <1>2, <4>2
      <4>4. lg2[j] = lg[j] /\ j \in 1..k
        BY <1>1, <4>1, <4>3
      <4> QED BY <4>2, <4>3, <4>4
    <3>2. CASE Raised(F[n], op) # F[n]
      <4>1. n + 1 \in 1..k
        BY <1>1, <1>5
      <4> QED BY <1>1, <1>3, <2>1, <3>2, <4>1
    <3> QED BY <3>1, <3>2
  <2> QED BY <2>2, <2>3, <2>4
<1> QED BY <1>0, <1>4, <1>5

\* A log that is extended by an op that fits keeps its run.
LEMMA Extension ==
  ASSUME NEW lg, NEW T, NEW F, RunOk(lg, T, F), NEW op, MayAppend(lg, T, op)
  PROVE  /\ RunOk(Append(lg, op), Extended(lg, T, op), ExtendedF(lg, F, op))
         /\ \A k \in 0..Len(lg) : Extended(lg, T, op)[k] = T[k] /\ ExtendedF(lg, F, op)[k] = F[k]
         /\ Extended(lg, T, op)[Len(lg) + 1] = After(T[Len(lg)], op, Len(lg) + 1)
<1>1. PICK lg2, T2, F2 : Longer(lg, T, F, op, lg2, T2, F2)
  BY DEF Longer
<1>2. Starts(lg2, T2, F2) /\ Follows(lg2, T2, F2)
  BY <1>1, LongerIs
<1>3. Frames(lg2, T2) /\ Admitted(lg2, T2)
  BY <1>1, LongerFrames
<1>4. AllExact(lg2, T2)
  BY <1>1, LongerExact
<1>5. Remembered(lg2, T2)
  BY <1>1, LongerRemembers
<1>6. Demands(lg2, F2)
  BY <1>1, LongerDemands
<1>7. RunOk(lg2, T2, F2)
  BY <1>2, <1>3, <1>4, <1>5, <1>6 DEF RunOk
<1>8. /\ \A k \in 0..Len(lg) : T2[k] = T[k] /\ F2[k] = F[k]
      /\ T2[Len(lg) + 1] = After(T[Len(lg)], op, Len(lg) + 1)
  BY <1>1, LongerIs
<1> QED BY <1>1, <1>7, <1>8 DEF Longer

\* A log that is cut keeps it too.
LEMMA Cut ==
  ASSUME NEW lg, NEW T, NEW F, RunOk(lg, T, F), NEW n \in 0..Len(lg)
  PROVE  RunOk(SubSeq(lg, 1, n), T, F)
<1>1. PICK lg2 : lg2 = SubSeq(lg, 1, n)
  OBVIOUS
<1>2. lg \in Seq(OpRecord) /\ Len(lg) \in Nat
  BY DEF RunOk, Starts
<1>3. lg2 \in Seq(OpRecord) /\ Len(lg2) = n /\ \A j \in 1..n : lg2[j] = lg[j]
  BY <1>1, <1>2
<1>4. (\A k \in 0..n : k \in 0..Len(lg) /\ \A j \in 1..k : j \in 1..n) /\ \A j \in 1..n : j \in 1..Len(lg)
  BY <1>2
<1>5. Starts(lg2, T, F)
  BY <1>3, <1>4 DEF RunOk, Starts
<1>6. Follows(lg2, T, F)
  BY <1>3, <1>4 DEF RunOk, Follows
<1>7. Frames(lg2, T)
  <2> SUFFICES ASSUME NEW k \in 0..n, NEW i \in 0..k, NEW c \in Clients,
                      \A j \in (i + 1)..k : ~IsWrite(lg2[j], c) /\ ~NamesSession(lg2[j], c, T[i][c].epoch)
               PROVE  T[k][c] = T[i][c]
    BY <1>3 DEF Frames
  <2>1. \A j \in (i + 1)..k : j \in 1..n
    OBVIOUS
  <2> QED BY <1>3, <1>4, <2>1 DEF RunOk, Frames
<1>8. Admitted(lg2, T)
  <2> SUFFICES ASSUME NEW i \in 1..n, lg2[i].kind = "write" PROVE Fits(lg2, T, i - 1, lg2[i])
    BY <1>3 DEF Admitted
  <2>1. \A j \in 1..(i - 1) : j \in 1..n
    OBVIOUS
  <2>2. Fits(lg, T, i - 1, lg[i])
    BY <1>3, <1>4 DEF RunOk, Admitted
  <2> QED BY <1>3, <2>1, <2>2 DEF Fits
<1>9. AllExact(lg2, T)
  <2> SUFFICES ASSUME NEW k \in 0..n, NEW c \in Clients, T[k][c] # None PROVE Exact(lg2, k, c, T[k][c])
    BY <1>3 DEF AllExact
  <2>1. Exact(lg, k, c, T[k][c]) /\ k \in Nat /\ \A j \in 1..k : lg2[j] = lg[j]
    BY <1>3, <1>4 DEF RunOk, AllExact
  <2> QED BY <2>1, ExactSame
<1>10. Remembered(lg2, T)
  <2> SUFFICES ASSUME NEW k \in 0..n, NEW j \in 1..k, lg2[j].kind = "write"
               PROVE  \/ T[k][lg2[j].client].epoch = lg2[j].session
                      \/ \E i \in (j + 1)..k : NamesSession(lg2[i], lg2[j].client, lg2[j].session)
    BY <1>3 DEF Remembered
  <2>1. \A i \in (j + 1)..k : i \in 1..n
    OBVIOUS
  <2>2. lg2[j] = lg[j]
    BY <1>3, <1>4
  <2>3. \/ T[k][lg[j].client].epoch = lg[j].session
        \/ \E i \in (j + 1)..k : NamesSession(lg[i], lg[j].client, lg[j].session)
    BY <1>4, <2>2 DEF RunOk, Remembered
  <2> QED BY <1>3, <2>1, <2>2, <2>3
<1>11. Demands(lg2, F)
  <2> SUFFICES ASSUME NEW k \in 0..n
               PROVE  /\ \A i \in 0..k : F[i] <= F[k]
                      /\ \A j \in 1..k : lg2[j].kind = "retire" => \A x \in lg2[j].ids : x.ended <= F[k]
                      /\ F[k] # 0 => \E j \in 1..k : RaisesTo(lg2[j], F[k])
    BY <1>3 DEF Demands
  <2>1. \A j \in 1..k : lg2[j] = lg[j]
    BY <1>3, <1>4
  <2> QED BY <1>4, <2>1 DEF RunOk, Demands
<1> QED BY <1>1, <1>5, <1>6, <1>7, <1>8, <1>9, <1>10, <1>11 DEF RunOk

-----------------------------------------------------------------------------
(* What waits or is in the pipeline: the ops of A beyond b *)

\* At most one write of a client, and no barrier for its session.
Flight(A, b) ==
    \A i, j \in (b + 1)..Len(A) :
        /\ A[i].kind = "write" /\ A[j].kind = "write" /\ A[i].client = A[j].client => i = j
        /\ A[i].kind = "write" => ~NamesSession(A[j], A[i].client, A[i].session)

\* What waits for the log, of length n, is new at its end.
FreshAt(A, T, n) ==
    \A i \in (n + 1)..Len(A) : A[i].kind = "write" => check_partition_request(T[n], A[i]) = "New"

\* The clients that have an entry after op k, or will have one.
Claimed(A, T, k) ==
    {d \in Clients : T[k][d] # None \/ \E i \in (k + 1)..Len(A) : IsWrite(A[i], d)}
Room(A, T, b, n) == \A k \in b..n : Cardinality(Claimed(A, T, k)) <= Capacity

\* A extends the log lg.
Holds(A, lg) == /\ A \in Seq(OpRecord) /\ Len(lg) <= Len(A)
                /\ \A j \in 1..Len(lg) : A[j] = lg[j]

\* The types of a run.
LEMMA RunTypes ==
  ASSUME NEW lg, NEW T, NEW F, RunOk(lg, T, F), NEW A, Holds(A, lg)
  PROVE  /\ lg \in Seq(OpRecord) /\ Len(lg) \in Nat /\ A \in Seq(OpRecord) /\ Len(A) \in Nat
         /\ Len(lg) <= Len(A) /\ T \in [Nat -> Tables] /\ F \in [Nat -> Nat]
         /\ T[Len(lg)] \in Tables
<1>1. lg \in Seq(OpRecord) /\ Len(lg) \in Nat /\ T \in [Nat -> Tables] /\ F \in [Nat -> Nat]
  BY DEF RunOk, Starts
<1>2. A \in Seq(OpRecord) /\ Len(A) \in Nat /\ Len(lg) <= Len(A)
  BY DEF Holds
<1> QED BY <1>1, <1>2

\* Fewer claims are no more.
LEMMA FewerClaims ==
  ASSUME NEW S, NEW R, S \subseteq Clients, R \subseteq S, Cardinality(S) <= Capacity
  PROVE  Cardinality(R) <= Capacity /\ IsFiniteSet(S) /\ Cardinality(S) \in Nat
<1>1. IsFiniteSet(S)
  BY FS_Subset, SizesAssumption
<1>2. IsFiniteSet(R) /\ Cardinality(R) <= Cardinality(S)
  BY <1>1, FS_Subset
<1>3. Cardinality(R) \in Nat /\ Cardinality(S) \in Nat
  BY <1>1, <1>2, FS_CardinalityType
<1> QED BY <1>1, <1>2, <1>3, SizesAssumption

\* An entry that appears beyond b is that of a write in flight.
LEMMA ClaimsFall ==
  ASSUME NEW lg, NEW T, NEW F, RunOk(lg, T, F), NEW A, Holds(A, lg),
         NEW k \in 0..Len(lg), NEW b \in 0..k
  PROVE  Claimed(A, T, k) \subseteq Claimed(A, T, b)
<1> SUFFICES ASSUME NEW d \in Claimed(A, T, k) PROVE d \in Claimed(A, T, b)
  OBVIOUS
<1>1. d \in Clients /\ Len(A) \in Nat /\ Len(lg) \in Nat
  BY DEF Claimed, Holds, RunOk, Starts
<1>2. CASE \E i \in (k + 1)..Len(A) : IsWrite(A[i], d)
  <2>1. \A i \in (k + 1)..Len(A) : i \in (b + 1)..Len(A)
    BY <1>1
  <2> QED BY <1>1, <1>2, <2>1 DEF Claimed
<1>3. CASE T[k][d] # None
  <2>1. CASE T[b][d] # None
    BY <1>1, <2>1 DEF Claimed
  <2>2. CASE T[b][d] = None
    <3>1. T[b][d].epoch = 0
      BY <2>2 DEF None
    <3>2. PICK j \in (b + 1)..k : IsWrite(lg[j], d) \/ NamesSession(lg[j], d, 0)
      BY <1>1, <1>3, <2>2, <3>1 DEF RunOk, Frames
    <3>3. j \in 1..Len(lg) /\ A[j] = lg[j] /\ j \in (b + 1)..Len(A)
      BY <1>1 DEF Holds
    <3>4. ~NamesSession(lg[j], d, 0)
      <4>1. lg[j].ids \subseteq Identity
        BY <3>3 DEF RunOk, Starts, OpOk, OpRecord
      <4> QED BY <4>1 DEF NamesSession, Identity
    <3> QED BY <1>1, <3>2, <3>3, <3>4 DEF Claimed
  <2> QED BY <2>1, <2>2
<1> QED BY <1>2, <1>3 DEF Claimed

\* A write that was new when the primary looked, at b, is new at the end of the
\* log if nothing of its session is in flight.
LEMMA StillNew ==
  ASSUME NEW lg, NEW T, NEW F, RunOk(lg, T, F), NEW A, Holds(A, lg), NEW b \in 0..Len(lg),
         NEW op, OpOk(op), op.kind = "write", check_partition_request(T[b], op) = "New",
         \A j \in (b + 1)..Len(A) : /\ ~IsWrite(A[j], op.client)
                                    /\ ~NamesSession(A[j], op.client, op.session)
  PROVE  check_partition_request(T[Len(lg)], op) = "New"
<1> DEFINE n == Len(lg)
           c == op.client
<1>1. n \in Nat /\ Len(A) \in Nat /\ n <= Len(A) /\ c \in Clients /\ T \in [Nat -> Tables] /\ b \in Nat
  <2>1. n \in Nat /\ Len(A) \in Nat /\ n <= Len(A) /\ T \in [Nat -> Tables]
    BY RunTypes
  <2>2. c \in Clients
    BY DEF OpOk
  <2> QED BY <2>1, <2>2
<1>2. \A j \in (b + 1)..n : j \in (b + 1)..Len(A) /\ j \in 1..n /\ A[j] = lg[j]
  BY <1>1 DEF Holds
<1>3. T[b][c] = None \/ T[b][c].epoch = op.session
  BY <1>1, NewRequest DEF IsNew
<1>4. \A j \in (b + 1)..n : ~IsWrite(lg[j], c) /\ ~NamesSession(lg[j], c, T[b][c].epoch)
  <2> TAKE j \in (b + 1)..n
  <2>1. lg[j].ids \subseteq Identity
    BY <1>2 DEF RunOk, Starts, OpOk, OpRecord
  <2>2. ~NamesSession(lg[j], c, 0)
    BY <2>1 DEF NamesSession, Identity
  <2>3. None.epoch = 0
    BY DEF None
  <2> QED BY <1>2, <1>3, <2>2, <2>3
<1>5. T[n][c] = T[b][c]
  <2>1. n \in 0..n
    BY <1>1
  <2> QED BY <1>1, <1>4, <2>1 DEF RunOk, Frames
<1> QED BY <1>1, <1>5 DEF check_partition_request

\* What the primary checks before it admits op, b being what it applied.
Admissible(A, T, b, op) ==
    /\ op.kind = "write" =>
          /\ check_partition_request(T[b], op) = "New"
          /\ \A j \in (b + 1)..Len(A) : /\ ~IsWrite(A[j], op.client)
                                        /\ ~NamesSession(A[j], op.client, op.session)
          /\ op.client \in Claimed(A, T, b) \/ Cardinality(Claimed(A, T, b)) < Capacity
    /\ \A j \in (b + 1)..Len(A) : A[j].kind = "write" => ~NamesSession(op, A[j].client, A[j].session)

\* An op that was admitted waits with the others.
LEMMA Admission ==
  ASSUME NEW lg, NEW T, NEW F, RunOk(lg, T, F), NEW A, Holds(A, lg), NEW b \in 0..Len(lg),
         Flight(A, b), FreshAt(A, T, Len(lg)), Room(A, T, b, Len(lg)),
         NEW op, OpOk(op), Admissible(A, T, b, op), NEW B, B = Append(A, op)
  PROVE  /\ Holds(B, lg) /\ Flight(B, b) /\ FreshAt(B, T, Len(lg)) /\ Room(B, T, b, Len(lg))
         /\ Len(B) = Len(A) + 1 /\ B[Len(A) + 1] = op /\ \A i \in 1..Len(A) : B[i] = A[i]
<1> DEFINE n == Len(lg)
           a == Len(A)
<1>1. n \in Nat /\ a \in Nat /\ n <= a /\ A \in Seq(OpRecord) /\ op \in OpRecord /\ b \in Nat /\ b <= n
  <2>1. n \in Nat /\ a \in Nat /\ n <= a /\ A \in Seq(OpRecord)
    BY RunTypes
  <2>2. op \in OpRecord
    BY DEF OpOk
  <2> QED BY <2>1, <2>2
<1>2. B \in Seq(OpRecord) /\ Len(B) = a + 1 /\ B[a + 1] = op /\ \A i \in 1..a : B[i] = A[i]
  BY <1>1
<1>3. Holds(B, lg)
  <2>1. \A j \in 1..n : j \in 1..a
    BY <1>1
  <2> QED BY <1>1, <1>2, <2>1 DEF Holds
<1>4. \A i \in (b + 1)..(a + 1) : (i \in (b + 1)..a /\ B[i] = A[i]) \/ (i = a + 1 /\ B[i] = op)
  BY <1>1, <1>2
<1>5. Flight(B, b)
  <2> SUFFICES ASSUME NEW i \in (b + 1)..(a + 1), NEW j \in (b + 1)..(a + 1)
               PROVE  /\ B[i].kind = "write" /\ B[j].kind = "write" /\ B[i].client = B[j].client => i = j
                      /\ B[i].kind = "write" => ~NamesSession(B[j], B[i].client, B[i].session)
    BY <1>2 DEF Flight
  <2>1. CASE i \in (b + 1)..a /\ B[i] = A[i] /\ j \in (b + 1)..a /\ B[j] = A[j]
    BY <2>1 DEF Flight
  <2>2. CASE i \in (b + 1)..a /\ B[i] = A[i] /\ j = a + 1 /\ B[j] = op
    BY <2>2 DEF Admissible, IsWrite
  <2>3. CASE i = a + 1 /\ B[i] = op /\ j \in (b + 1)..a /\ B[j] = A[j]
    BY <2>3 DEF Admissible, IsWrite
  <2>4. CASE i = a + 1 /\ B[i] = op /\ j = a + 1 /\ B[j] = op
    BY <2>4 DEF NamesSession
  <2> QED BY <1>4, <2>1, <2>2, <2>3, <2>4
<1>6. FreshAt(B, T, n)
  <2> SUFFICES ASSUME NEW i \in (n + 1)..(a + 1), B[i].kind = "write"
               PROVE  check_partition_request(T[n], B[i]) = "New"
    BY <1>2 DEF FreshAt
  <2>1. CASE i \in (n + 1)..a
    <3>1. B[i] = A[i]
      BY <1>1, <1>2, <2>1
    <3> QED BY <2>1, <3>1 DEF FreshAt
  <2>2. CASE i = a + 1
    BY <1>2, <2>2, StillNew DEF Admissible
  <2> QED BY <1>1, <2>1, <2>2
<1>7. Room(B, T, b, n)
  <2> SUFFICES ASSUME NEW k \in b..n PROVE Cardinality(Claimed(B, T, k)) <= Capacity
    BY DEF Room
  <2>1. Claimed(B, T, k) \subseteq Claimed(A, T, k) \cup (IF op.kind = "write" THEN {op.client} ELSE {})
    <3> SUFFICES ASSUME NEW d \in Claimed(B, T, k), d \notin Claimed(A, T, k)
                 PROVE  op.kind = "write" /\ d = op.client
      OBVIOUS
    <3>1. d \in Clients /\ T[k][d] = None /\ \A i \in (k + 1)..a : ~IsWrite(A[i], d)
      BY DEF Claimed
    <3>2. PICK i \in (k + 1)..(a + 1) : IsWrite(B[i], d)
      BY <1>2, <3>1 DEF Claimed
    <3>3. i = a + 1
      <4>1. i \in (b + 1)..(a + 1) /\ (i \in (b + 1)..a => i \in (k + 1)..a)
        BY <1>1, <3>2
      <4> QED BY <1>4, <3>1, <3>2, <4>1
    <3> QED BY <1>2, <3>2, <3>3 DEF IsWrite
  <2>2. k \in 0..n /\ b \in 0..k /\ b \in b..n
    BY <1>1
  <2>3. Claimed(A, T, k) \subseteq Claimed(A, T, b)
    BY <2>2, ClaimsFall
  <2>4. Cardinality(Claimed(A, T, b)) <= Capacity /\ Claimed(A, T, b) \subseteq Clients
        /\ Claimed(B, T, k) \subseteq Clients
    BY <2>2 DEF Room, Claimed
  <2>5. CASE op.kind # "write" \/ op.client \in Claimed(A, T, b)
    <3>1. Claimed(B, T, k) \subseteq Claimed(A, T, b)
      BY <2>1, <2>3, <2>5
    <3> HIDE DEF n, a
    <3> QED BY <2>4, <3>1, FewerClaims
  <2>6. CASE op.kind = "write" /\ op.client \notin Claimed(A, T, b)
    <3>1. PICK S : S = Claimed(A, T, b)
      OBVIOUS
    <3>2. IsFiniteSet(S) /\ Cardinality(S) \in Nat /\ Cardinality(S) < Capacity
      BY <2>4, <2>6, <3>1, FewerClaims DEF Admissible
    <3>3. Cardinality(S \cup {op.client}) = Cardinality(S) + 1
      BY <2>6, <3>1, <3>2, FS_AddElement
    <3>4. Cardinality(S \cup {op.client}) <= Capacity
      BY <3>2, <3>3, SizesAssumption
    <3>5. op.client \in Clients
      BY <2>6 DEF OpOk
    <3>6. S \cup {op.client} \subseteq Clients /\ Claimed(B, T, k) \subseteq S \cup {op.client}
      BY <2>1, <2>3, <2>4, <2>6, <3>1, <3>5
    <3> QED BY <3>4, <3>6, FewerClaims
  <2> QED BY <2>5, <2>6
<1> QED BY <1>2, <1>3, <1>5, <1>6, <1>7

\* The table is never full for the next op of A.
LEMMA RoomForNext ==
  ASSUME NEW lg, NEW T, NEW F, RunOk(lg, T, F), NEW A, Holds(A, lg), Len(lg) < Len(A),
         NEW b \in 0..Len(lg), Room(A, T, b, Len(lg)), OpOk(A[Len(lg) + 1]),
         A[Len(lg) + 1].kind = "write", check_partition_request(T[Len(lg)], A[Len(lg) + 1]) = "New"
  PROVE  Retains(T[Len(lg)], A[Len(lg) + 1])
<1> DEFINE n == Len(lg)
<1>0. PICK op : op = A[n + 1]
  OBVIOUS
<1>1. n \in Nat /\ Len(A) \in Nat /\ T[n] \in Tables
  BY RunTypes
<1>2. op.client \in Clients /\ OpOk(op) /\ op.kind = "write"
  BY <1>0 DEF OpOk
<1>3. CASE T[n][op.client] # None
  BY <1>0, <1>1, <1>2, <1>3, NewRequest DEF IsNew, Retains
<1>4. CASE T[n][op.client] = None
  <2>1. PICK S : S = Claimed(A, T, n)
    OBVIOUS
  <2>2. PICK R : R = {c \in Clients : T[n][c] # None}
    OBVIOUS
  <2>3. S \subseteq Clients /\ Cardinality(S) <= Capacity
    <3>1. n \in b..n
      BY <1>1
    <3> QED BY <2>1, <3>1 DEF Room, Claimed
  <2>4. op.client \in S
    <3>1. n + 1 \in (n + 1)..Len(A) /\ IsWrite(A[n + 1], op.client)
      BY <1>0, <1>1, <1>2 DEF IsWrite
    <3> QED BY <1>2, <2>1, <3>1 DEF Claimed
  <2>5. IsFiniteSet(S) /\ Cardinality(S) \in Nat
    BY <2>3, FewerClaims
  <2>6. IsFiniteSet(S \ {op.client}) /\ Cardinality(S \ {op.client}) = Cardinality(S) - 1
    BY <2>4, <2>5, FS_RemoveElement
  <2>7. R \subseteq S \ {op.client}
    BY <1>4, <2>1, <2>2 DEF Claimed
  <2>8. IsFiniteSet(R) /\ Cardinality(R) <= Cardinality(S \ {op.client})
    BY <2>6, <2>7, FS_Subset
  <2>9. Cardinality(R) \in Nat
    BY <2>8, FS_CardinalityType
  <2>10. Cardinality(R) < Capacity
    BY <2>3, <2>5, <2>6, <2>8, <2>9, SizesAssumption
  <2> QED BY <1>0, <1>4, <2>2, <2>10 DEF Retains, count
<1> QED BY <1>3, <1>4

\* The next op of A joins the log.
Promotes(lg, T, F, A, b, op, T2, lg2) ==
    /\ RunOk(lg, T, F) /\ Holds(A, lg) /\ Len(lg) < Len(A)
    /\ b \in 0..Len(lg) /\ Flight(A, b) /\ FreshAt(A, T, Len(lg)) /\ Room(A, T, b, Len(lg))
    /\ op = A[Len(lg) + 1] /\ OpOk(op) /\ \A i \in 1..Len(A) : OpOk(A[i])
    /\ op.kind = "write" => \A j \in 1..b : ~NamesSession(lg[j], op.client, op.session)
    /\ T2 = Extended(lg, T, op) /\ lg2 = Append(lg, op)

\* It fits the log, and what waits behind it is still new and has room.
LEMMA Promotion ==
  ASSUME NEW lg, NEW T, NEW F, NEW A, NEW b, NEW op, NEW T2, NEW lg2,
         Promotes(lg, T, F, A, b, op, T2, lg2)
  PROVE  /\ MayAppend(lg, T, op)
         /\ Holds(A, lg2) /\ Len(lg2) = Len(lg) + 1
         /\ FreshAt(A, T2, Len(lg) + 1) /\ Room(A, T2, b, Len(lg) + 1)
<1> DEFINE n == Len(lg)
           a == Len(A)
<1>0. /\ RunOk(lg, T, F) /\ Holds(A, lg) /\ Len(lg) < Len(A)
      /\ b \in 0..Len(lg) /\ Flight(A, b) /\ FreshAt(A, T, Len(lg)) /\ Room(A, T, b, Len(lg))
      /\ op = A[Len(lg) + 1] /\ OpOk(op) /\ (\A i \in 1..Len(A) : OpOk(A[i]))
      /\ (op.kind = "write" => \A j \in 1..b : ~NamesSession(lg[j], op.client, op.session))
      /\ T2 = Extended(lg, T, op) /\ lg2 = Append(lg, op)
  BY DEF Promotes
<1> USE <1>0
<1>1. n \in Nat /\ a \in Nat /\ T[n] \in Tables /\ b \in Nat /\ b <= n /\ n < a
      /\ A \in Seq(OpRecord) /\ lg \in Seq(OpRecord)
  BY RunTypes
<1>2. n + 1 \in (n + 1)..a /\ n + 1 \in (b + 1)..a /\ n + 1 \in 1..a
  BY <1>1
<1>3. MayAppend(lg, T, op)
  <2> SUFFICES ASSUME op.kind = "write" PROVE Fits(lg, T, n, op)
    BY DEF MayAppend
  <2>1. check_partition_request(T[n], op) = "New"
    BY <1>2 DEF FreshAt
  <2>2. Retains(T[n], op)
    BY <2>1, RoomForNext
  <2>3. ASSUME NEW j \in 1..n PROVE ~NamesSession(lg[j], op.client, op.session)
    <3>1. CASE j \in 1..b
      BY <3>1
    <3>2. CASE j \notin 1..b
      <4>1. j \in (b + 1)..a /\ A[j] = lg[j]
        BY <1>1, <3>2 DEF Holds
      <4> QED BY <1>2, <4>1 DEF Flight
    <3> QED BY <3>1, <3>2
  <2> QED BY <2>1, <2>2, <2>3 DEF Fits
<1>4. /\ \A k \in 0..n : T2[k] = T[k]
      /\ T2[n + 1] = After(T[n], op, n + 1)
  BY <1>3, Extension
<1>5. Len(lg2) = n + 1 /\ lg2[n + 1] = op /\ \A j \in 1..n : lg2[j] = lg[j]
  BY <1>1
<1>6. Holds(A, lg2)
  <2>1. \A j \in 1..(n + 1) : j \in 1..n \/ j = n + 1
    BY <1>1
  <2> QED BY <1>1, <1>5, <2>1 DEF Holds
<1>7. FreshAt(A, T2, n + 1)
  <2> SUFFICES ASSUME NEW i \in (n + 2)..a, A[i].kind = "write"
               PROVE  check_partition_request(T2[n + 1], A[i]) = "New"
    <3>1. (n + 1) + 1 = n + 2
      BY <1>1
    <3> QED BY <3>1 DEF FreshAt
  <2>1. i \in (n + 1)..a /\ i \in (b + 1)..a /\ i \in 1..a /\ i # n + 1
    BY <1>1
  <2>2. OpOk(A[i]) /\ A[i].client \in Clients
    BY <2>1 DEF OpOk
  <2>3. check_partition_request(T[n], A[i]) = "New"
    BY <2>1 DEF FreshAt
  <2>4. ~IsWrite(op, A[i].client)
    BY <1>2, <2>1 DEF Flight, IsWrite
  <2>5. ~NamesSession(op, A[i].client, A[i].session)
    BY <1>2, <2>1 DEF Flight
  <2>6. T[n][A[i].client] = None \/ T[n][A[i].client].epoch = A[i].session
    BY <1>1, <2>2, <2>3, NewRequest DEF IsNew
  <2>7. ~NamesSession(op, A[i].client, T[n][A[i].client].epoch)
    <3>1. None.epoch = 0
      BY DEF None
    <3>2. op.ids \subseteq Identity
      BY DEF OpOk, OpRecord
    <3>3. ~NamesSession(op, A[i].client, 0)
      BY <3>2 DEF NamesSession, Identity
    <3> QED BY <2>5, <2>6, <3>1, <3>3
  <2>8. T2[n + 1][A[i].client] = T[n][A[i].client]
    <3>1. PICK c \in Clients : c = A[i].client
      BY <2>2
    <3>2. PICK t \in Tables : t = T[n]
      BY <1>1
    <3>3. ~IsWrite(op, c) /\ ~NamesSession(op, c, t[c].epoch)
      BY <2>4, <2>7, <3>1, <3>2
    <3>4. After(t, op, n + 1)[c] = t[c]
      BY <3>3, AfterOp
    <3> QED BY <1>4, <3>1, <3>2, <3>4
  <2> QED BY <2>3, <2>8 DEF check_partition_request
<1>8. Room(A, T2, b, n + 1)
  <2> SUFFICES ASSUME NEW k \in b..(n + 1) PROVE Cardinality(Claimed(A, T2, k)) <= Capacity
    BY DEF Room
  <2>1. CASE k \in b..n
    <3>1. T2[k] = T[k]
      BY <1>1, <1>4, <2>1
    <3>2. Claimed(A, T2, k) = Claimed(A, T, k)
      BY <3>1 DEF Claimed
    <3> QED BY <2>1, <3>2 DEF Room
  <2>2. CASE k = n + 1
    <3>1. RunOk(lg2, T2, ExtendedF(lg, F, op))
      BY <1>3, Extension
    <3>2. k \in 0..Len(lg2) /\ n \in 0..k /\ n \in b..n /\ n \in 0..n
      BY <1>1, <1>5, <2>2
    <3>3. Claimed(A, T2, k) \subseteq Claimed(A, T2, n)
      BY <1>6, <3>1, <3>2, ClaimsFall
    <3>4. Claimed(A, T2, n) = Claimed(A, T, n)
      BY <1>4, <3>2 DEF Claimed
    <3>5. Cardinality(Claimed(A, T, n)) <= Capacity /\ Claimed(A, T, n) \subseteq Clients
      BY <3>2 DEF Room, Claimed
    <3> QED BY <3>3, <3>4, <3>5, FewerClaims
  <2> QED BY <1>1, <2>1, <2>2
<1> QED BY <1>3, <1>5, <1>6, <1>7, <1>8

\* The next op is dropped instead.
LEMMA Dropping ==
  ASSUME NEW lg, NEW T, NEW F, RunOk(lg, T, F), NEW A, Holds(A, lg), Len(lg) < Len(A),
         NEW b \in 0..Len(lg), Flight(A, b), FreshAt(A, T, Len(lg)), Room(A, T, b, Len(lg)),
         NEW B, B \in Seq(OpRecord), Len(B) = Len(A) - 1,
         \A i \in 1..Len(B) : B[i] = IF i <= Len(lg) THEN A[i] ELSE A[i + 1]
  PROVE  /\ Holds(B, lg) /\ Flight(B, b) /\ FreshAt(B, T, Len(lg)) /\ Room(B, T, b, Len(lg))
<1> DEFINE n == Len(lg)
           a == Len(A)
<1>1. n \in Nat /\ a \in Nat /\ b \in Nat /\ b <= n /\ n < a /\ Len(B) = a - 1 /\ Len(B) \in Nat
  BY RunTypes
<1>2. Holds(B, lg)
  <2>1. \A j \in 1..n : j \in 1..Len(B) /\ j <= n
    BY <1>1
  <2>2. \A j \in 1..n : A[j] = lg[j]
    BY DEF Holds
  <2>3. n <= Len(B) /\ \A j \in 1..n : B[j] = lg[j]
    BY <1>1, <2>1, <2>2
  <2> QED BY <2>3 DEF Holds
<1> DEFINE w(i) == IF i <= n THEN i ELSE i + 1
<1>3. \A i \in (b + 1)..Len(B) : w(i) \in (b + 1)..a /\ B[i] = A[w(i)]
  BY <1>1
<1>4. \A i, j \in (b + 1)..Len(B) : w(i) = w(j) => i = j
  BY <1>1
<1>5. Flight(B, b)
  <2> SUFFICES ASSUME NEW i \in (b + 1)..Len(B), NEW j \in (b + 1)..Len(B)
               PROVE  /\ B[i].kind = "write" /\ B[j].kind = "write" /\ B[i].client = B[j].client => i = j
                      /\ B[i].kind = "write" => ~NamesSession(B[j], B[i].client, B[i].session)
    BY DEF Flight
  <2>1. PICK x \in (b + 1)..a : x = w(i) /\ B[i] = A[x]
    BY <1>3
  <2>2. PICK y \in (b + 1)..a : y = w(j) /\ B[j] = A[y]
    BY <1>3
  <2>3. x = y => i = j
    BY <1>4, <2>1, <2>2
  <2> HIDE DEF w
  <2> QED BY <2>1, <2>2, <2>3 DEF Flight
<1>6. FreshAt(B, T, n)
  <2> SUFFICES ASSUME NEW i \in (n + 1)..Len(B), B[i].kind = "write"
               PROVE  check_partition_request(T[n], B[i]) = "New"
    BY DEF FreshAt
  <2>1. i + 1 \in (n + 1)..a /\ B[i] = A[i + 1]
    BY <1>1
  <2> QED BY <2>1 DEF FreshAt
<1>7. Room(B, T, b, n)
  <2> SUFFICES ASSUME NEW k \in b..n PROVE Cardinality(Claimed(B, T, k)) <= Capacity
    BY DEF Room
  <2>1. Claimed(B, T, k) \subseteq Claimed(A, T, k)
    <3> SUFFICES ASSUME NEW d \in Clients, NEW i \in (k + 1)..Len(B), IsWrite(B[i], d)
                 PROVE  \E j \in (k + 1)..a : IsWrite(A[j], d)
      BY DEF Claimed
    <3>1. w(i) \in (k + 1)..a /\ B[i] = A[w(i)]
      BY <1>1
    <3> QED BY <3>1
  <2>2. Cardinality(Claimed(A, T, k)) <= Capacity /\ Claimed(A, T, k) \subseteq Clients
    BY DEF Room, Claimed
  <2> QED BY <2>1, <2>2, FewerClaims
<1> QED BY <1>2, <1>5, <1>6, <1>7

\* What waits is lost and the log is cut at n, d ops of which are applied.
Loses(lg, T, F, A, b, n, d, B) ==
    /\ RunOk(lg, T, F) /\ Holds(A, lg)
    /\ b \in 0..Len(lg) /\ Flight(A, b) /\ FreshAt(A, T, Len(lg)) /\ Room(A, T, b, Len(lg))
    /\ n \in b..Len(lg) /\ d \in b..n /\ B = SubSeq(lg, 1, n)

\* What waits is lost and the log is cut, while more of it may have been applied.
LEMMA Losing ==
  ASSUME NEW lg, NEW T, NEW F, NEW A, NEW b, NEW n, NEW d, NEW B, Loses(lg, T, F, A, b, n, d, B)
  PROVE  Holds(B, B) /\ Len(B) = n /\ Flight(B, d) /\ FreshAt(B, T, n) /\ Room(B, T, d, n)
<1>0. /\ RunOk(lg, T, F) /\ Holds(A, lg)
      /\ b \in 0..Len(lg) /\ Flight(A, b) /\ FreshAt(A, T, Len(lg)) /\ Room(A, T, b, Len(lg))
      /\ n \in b..Len(lg) /\ d \in b..n /\ B = SubSeq(lg, 1, n)
  BY DEF Loses
<1> USE <1>0
<1>1. lg \in Seq(OpRecord) /\ Len(lg) \in Nat /\ Len(A) \in Nat /\ Len(lg) <= Len(A) /\ n \in Nat /\ n <= Len(lg)
      /\ b \in Nat /\ d \in Nat /\ b <= d /\ d <= n
  <2>1. lg \in Seq(OpRecord) /\ Len(lg) \in Nat /\ Len(A) \in Nat /\ Len(lg) <= Len(A)
    BY RunTypes
  <2> QED BY <2>1
<1>2. B \in Seq(OpRecord) /\ Len(B) = n /\ \A i \in 1..n : B[i] = lg[i]
  BY <1>1
<1>3. \A i \in 1..n : B[i] = A[i]
  BY <1>1, <1>2 DEF Holds
<1>4. Holds(B, B)
  BY <1>1, <1>2 DEF Holds
<1>5. \A i \in (d + 1)..n : i \in (b + 1)..Len(A) /\ B[i] = A[i]
  BY <1>1, <1>3
<1>6. Flight(B, d)
  <2> SUFFICES ASSUME NEW i \in (d + 1)..n, NEW j \in (d + 1)..n
               PROVE  /\ B[i].kind = "write" /\ B[j].kind = "write" /\ B[i].client = B[j].client => i = j
                      /\ B[i].kind = "write" => ~NamesSession(B[j], B[i].client, B[i].session)
    BY <1>2 DEF Flight
  <2>1. i \in (b + 1)..Len(A) /\ B[i] = A[i] /\ j \in (b + 1)..Len(A) /\ B[j] = A[j]
    BY <1>5
  <2>2. Flight(A, b)
    OBVIOUS
  <2> HIDE <1>0
  <2> QED BY <2>1, <2>2 DEF Flight
<1>7. FreshAt(B, T, n)
  BY <1>1, <1>2 DEF FreshAt
<1>8. Room(B, T, d, n)
  <2> SUFFICES ASSUME NEW k \in d..n PROVE Cardinality(Claimed(B, T, k)) <= Capacity
    BY DEF Room
  <2>1. k \in b..Len(lg) /\ \A i \in (k + 1)..n : i \in (k + 1)..Len(A) /\ i \in (d + 1)..n
    BY <1>1
  <2>2. Claimed(B, T, k) \subseteq Claimed(A, T, k)
    BY <1>2, <1>5, <2>1 DEF Claimed
  <2>3. Cardinality(Claimed(A, T, k)) <= Capacity /\ Claimed(A, T, k) \subseteq Clients
    BY <2>1 DEF Room, Claimed
  <2> QED BY <2>2, <2>3, FewerClaims
<1> QED BY <1>2, <1>4, <1>6, <1>7, <1>8

\* More of the log is applied.
LEMMA Applying ==
  ASSUME NEW lg, NEW T, NEW F, RunOk(lg, T, F), NEW A, Holds(A, lg),
         NEW b \in 0..Len(lg), Flight(A, b), Room(A, T, b, Len(lg)), NEW d \in b..Len(lg)
  PROVE  Flight(A, d) /\ Room(A, T, d, Len(lg))
<1>1. Len(lg) \in Nat /\ Len(A) \in Nat /\ b \in Nat /\ d \in Nat /\ b <= d
  BY RunTypes
<1>2. (\A i \in (d + 1)..Len(A) : i \in (b + 1)..Len(A)) /\ \A k \in d..Len(lg) : k \in b..Len(lg)
  BY <1>1
<1> QED BY <1>2 DEF Flight, Room

\* A log with its run, and what waits behind it.
Waits(lg, T, F, A, b) ==
    /\ RunOk(lg, T, F) /\ Holds(A, lg) /\ b \in 0..Len(lg)
    /\ Flight(A, b) /\ FreshAt(A, T, Len(lg)) /\ Room(A, T, b, Len(lg))

\* So an admitted op waits with the others,
LEMMA AdmittedWaits ==
  ASSUME NEW lg, NEW T, NEW F, NEW A, NEW b, Waits(lg, T, F, A, b),
         NEW op, OpOk(op), Admissible(A, T, b, op)
  PROVE  Waits(lg, T, F, Append(A, op), b)
<1>1. PICK B : B = Append(A, op)
  OBVIOUS
<1>2. RunOk(lg, T, F) /\ Holds(A, lg) /\ b \in 0..Len(lg) /\ Flight(A, b) /\ FreshAt(A, T, Len(lg))
      /\ Room(A, T, b, Len(lg))
  BY DEF Waits
<1>3. Holds(B, lg) /\ Flight(B, b) /\ FreshAt(B, T, Len(lg)) /\ Room(B, T, b, Len(lg))
  BY <1>1, <1>2, Admission
<1> QED BY <1>1, <1>2, <1>3 DEF Waits

\* the next one joins the log,
LEMMA PromotedWaits ==
  ASSUME NEW lg, NEW T, NEW F, NEW A, NEW b, Waits(lg, T, F, A, b), Len(lg) < Len(A),
         \A i \in 1..Len(A) : OpOk(A[i]), NEW op, op = A[Len(lg) + 1],
         op.kind = "write" => \A j \in 1..b : ~NamesSession(lg[j], op.client, op.session)
  PROVE  \E T2, F2 : /\ Waits(Append(lg, op), T2, F2, A, b)
                     /\ \A k \in 0..Len(lg) : T2[k] = T[k] /\ F2[k] = F[k]
<1>1. PICK lg2 : lg2 = Append(lg, op)
  OBVIOUS
<1>2. RunOk(lg, T, F) /\ Holds(A, lg) /\ b \in 0..Len(lg) /\ Flight(A, b) /\ FreshAt(A, T, Len(lg))
      /\ Room(A, T, b, Len(lg))
  BY DEF Waits
<1>3. Len(lg) \in Nat /\ Len(A) \in Nat
  BY <1>2, RunTypes
<1>4. OpOk(op)
  <2>1. Len(lg) + 1 \in 1..Len(A)
    BY <1>3
  <2> QED BY <2>1
<1>5. PICK T2 : T2 = Extended(lg, T, op)
  OBVIOUS
<1>6. PICK F2 : F2 = ExtendedF(lg, F, op)
  OBVIOUS
<1>7. /\ MayAppend(lg, T, op) /\ Holds(A, lg2) /\ Len(lg2) = Len(lg) + 1
      /\ FreshAt(A, T2, Len(lg) + 1) /\ Room(A, T2, b, Len(lg) + 1)
  <2>1. Promotes(lg, T, F, A, b, op, T2, lg2)
    BY <1>1, <1>2, <1>4, <1>5 DEF Promotes
  <2> QED BY <2>1, Promotion
<1>8. RunOk(lg2, T2, F2) /\ \A k \in 0..Len(lg) : T2[k] = T[k] /\ F2[k] = F[k]
  BY <1>1, <1>2, <1>5, <1>6, <1>7, Extension
<1>9. b \in 0..Len(lg2)
  BY <1>2, <1>3, <1>7
<1>10. Waits(lg2, T2, F2, A, b)
  BY <1>2, <1>7, <1>8, <1>9 DEF Waits
<1> QED BY <1>1, <1>8, <1>10

\* or it is dropped,
LEMMA DroppedWaits ==
  ASSUME NEW lg, NEW T, NEW F, NEW A, NEW b, Waits(lg, T, F, A, b), Len(lg) < Len(A),
         NEW B, B \in Seq(OpRecord), Len(B) = Len(A) - 1,
         \A i \in 1..Len(B) : B[i] = IF i <= Len(lg) THEN A[i] ELSE A[i + 1]
  PROVE  Waits(lg, T, F, B, b)
<1>1. RunOk(lg, T, F) /\ Holds(A, lg) /\ b \in 0..Len(lg) /\ Flight(A, b) /\ FreshAt(A, T, Len(lg))
      /\ Room(A, T, b, Len(lg))
  BY DEF Waits
<1>2. Holds(B, lg) /\ Flight(B, b) /\ FreshAt(B, T, Len(lg)) /\ Room(B, T, b, Len(lg))
  BY <1>1, Dropping
<1> QED BY <1>1, <1>2 DEF Waits

\* or all is lost and the log is cut,
LEMMA CutWaits ==
  ASSUME NEW lg, NEW T, NEW F, NEW A, NEW b, Waits(lg, T, F, A, b),
         NEW n \in b..Len(lg), NEW d \in b..n, NEW B, B = SubSeq(lg, 1, n)
  PROVE  Waits(B, T, F, B, d) /\ Len(B) = n
<1>1. RunOk(lg, T, F) /\ Holds(A, lg) /\ b \in 0..Len(lg) /\ Flight(A, b) /\ FreshAt(A, T, Len(lg))
      /\ Room(A, T, b, Len(lg))
  BY DEF Waits
<1>2. Holds(B, B) /\ Len(B) = n /\ Flight(B, d) /\ FreshAt(B, T, n) /\ Room(B, T, d, n)
  <2>1. Loses(lg, T, F, A, b, n, d, B)
    BY <1>1 DEF Loses
  <2> QED BY <2>1, Losing
<1>3. Len(lg) \in Nat
  BY <1>1, RunTypes
<1>4. n \in 0..Len(lg) /\ d \in 0..n
  BY <1>1, <1>3
<1>5. RunOk(B, T, F)
  BY <1>1, <1>4, Cut
<1> QED BY <1>2, <1>4, <1>5 DEF Waits

\* or more of it is applied.
LEMMA AppliedWaits ==
  ASSUME NEW lg, NEW T, NEW F, NEW A, NEW b, Waits(lg, T, F, A, b), NEW d \in b..Len(lg)
  PROVE  Waits(lg, T, F, A, d)
<1>1. RunOk(lg, T, F) /\ Holds(A, lg) /\ b \in 0..Len(lg) /\ Flight(A, b) /\ FreshAt(A, T, Len(lg))
      /\ Room(A, T, b, Len(lg))
  BY DEF Waits
<1>2. Flight(A, d) /\ Room(A, T, d, Len(lg))
  BY <1>1, Applying
<1>3. Len(lg) \in Nat
  BY <1>1, RunTypes
<1>4. d \in 0..Len(lg)
  BY <1>1, <1>3
<1> QED BY <1>1, <1>2, <1>4 DEF Waits

-----------------------------------------------------------------------------
(* The invariant *)

Session == [client : Clients, session : Nat \ {0}, ended : Nat, finalized : Nat]

Types ==
    /\ meta \in Nat /\ sessions \subseteq Session
    /\ log \in Seq(OpRecord) /\ queue \in Seq(OpRecord)
    /\ commit \in Nat /\ inherited \in Nat /\ inherited <= commit /\ commit <= Len(log)
    /\ primary \in Replicas /\ applied \in [Replicas -> Nat]
    /\ \A r \in Replicas : applied[r] <= commit
    /\ table \in [Replicas -> Tables] /\ frontier \in [Replicas -> Nat]
    /\ ~fatal /\ (queue # <<>> => applied[primary] >= inherited)

\* A session is known by the op that opened it; what happens to it happens later.
Dated(x, m) == /\ x.session <= m /\ x.ended <= m /\ x.finalized <= m
               /\ x.ended # 0 => x.session < x.ended
               /\ x.finalized # 0 => x.ended # 0 /\ x.ended < x.finalized
SessionsOk ==
    /\ \A x, y \in sessions : x.session = y.session => x = y
    /\ \A x \in sessions : Dated(x, meta)

\* A write was dispatched while its session was active, a barrier names ended sessions.
WrittenIn(op, S) ==
    \E y \in S : /\ y.client = op.client /\ y.session = op.session
                 /\ y.ended # 0 => op.watermark < y.ended
EndedIn(x, S) ==
    \E y \in S : /\ y.client = x.client /\ y.session = x.session
                 /\ y.ended = x.ended /\ y.ended # 0
Suits(op, S, m) ==
    /\ op \in OpRecord /\ op.watermark <= m
    /\ op.kind = "write" => op.client \in Clients /\ op.request \in 1..MaxRequest /\ WrittenIn(op, S)
    /\ \A x \in op.ids : EndedIn(x, S)
AllSuit(lg, q, S, m) ==
    (\A i \in 1..Len(lg) : Suits(lg[i], S, m)) /\ (\A i \in 1..Len(q) : Suits(q[i], S, m))

BaseOf(ap, p, inh) == IF ap[p] >= inh THEN ap[p] ELSE inh

\* What the replicas hold and what is in flight, against the tables of the log.
Consistent(lg, q, ap, tb, fr, b, T, F) ==
    /\ RunOk(lg, T, F)
    /\ \A r \in Replicas : tb[r] = T[ap[r]] /\ fr[r] = F[ap[r]]
    /\ Flight(lg \o q, b) /\ FreshAt(lg \o q, T, Len(lg)) /\ Room(lg \o q, T, b, Len(lg))

TablesOk ==
    \E T, F : Consistent(log, queue, applied, table, frontier, BaseOf(applied, primary, inherited), T, F)

IInv == Types /\ SessionsOk /\ AllSuit(log, queue, sessions, meta) /\ TablesOk

\* The log and the queue as one sequence.
LEMMA Joined ==
  ASSUME NEW lg \in Seq(OpRecord), NEW q \in Seq(OpRecord)
  PROVE  /\ Holds(lg \o q, lg) /\ Len(lg \o q) = Len(lg) + Len(q)
         /\ \A i \in 1..Len(q) : (lg \o q)[Len(lg) + i] = q[i]
         /\ \A i \in 1..Len(lg) : (lg \o q)[i] = lg[i]
         /\ \A i \in (Len(lg) + 1)..Len(lg \o q) : i - Len(lg) \in 1..Len(q) /\ (lg \o q)[i] = q[i - Len(lg)]
BY DEF Holds

\* An op that suits the sessions is an op of a log.
LEMMA SuitsIsOk ==
  ASSUME NEW S, S \subseteq Session, NEW m \in Nat, \A x \in S : Dated(x, m), NEW op, Suits(op, S, m)
  PROVE  OpOk(op)
<1>1. op \in OpRecord
  BY DEF Suits
<1>2. \A x \in op.ids : x.ended <= m
  <2> TAKE x \in op.ids
  <2>1. PICK y \in S : y.ended = x.ended
    BY DEF Suits, EndedIn
  <2> QED BY <2>1 DEF Dated
<1>3. ASSUME op.kind = "write" PROVE op.client \in Clients /\ op.session > 0 /\ op.request \in 1..MaxRequest
  <2>1. PICK y \in S : y.session = op.session
    BY <1>3 DEF Suits, WrittenIn
  <2>2. op.session > 0
    BY <2>1 DEF Session
  <2> QED BY <1>3, <2>2 DEF Suits
<1> QED BY <1>1, <1>2, <1>3 DEF OpOk

\* All the ops in flight are.
LEMMA AllOk ==
  ASSUME Types, SessionsOk, NEW lg, NEW q, lg \in Seq(OpRecord), q \in Seq(OpRecord),
         AllSuit(lg, q, sessions, meta)
  PROVE  \A i \in 1..Len(lg \o q) : OpOk((lg \o q)[i])
<1> TAKE i \in 1..Len(lg \o q)
<1>1. sessions \subseteq Session /\ meta \in Nat /\ \A x \in sessions : Dated(x, meta)
  BY DEF Types, SessionsOk
<1>2. CASE i \in 1..Len(lg)
  <2>1. (lg \o q)[i] = lg[i]
    BY <1>2, Joined
  <2>2. Suits(lg[i], sessions, meta)
    BY <1>2 DEF AllSuit
  <2> QED BY <1>1, <2>1, <2>2, SuitsIsOk
<1>3. CASE i \notin 1..Len(lg)
  <2>1. i \in (Len(lg) + 1)..Len(lg \o q)
    BY <1>3, Joined
  <2>2. i - Len(lg) \in 1..Len(q) /\ (lg \o q)[i] = q[i - Len(lg)]
    BY <2>1, Joined
  <2>3. Suits(q[i - Len(lg)], sessions, meta)
    BY <2>2 DEF AllSuit
  <2> QED BY <1>1, <2>2, <2>3, SuitsIsOk
<1> QED BY <1>2, <1>3

\* Where the pipeline starts.
LEMMA BaseIs ==
  ASSUME Types
  PROVE  LET b == BaseOf(applied, primary, inherited) IN
         /\ b \in Nat /\ b <= commit /\ b \in 0..Len(log) /\ applied[primary] <= b /\ inherited <= b
         /\ applied[primary] >= inherited => b = applied[primary]
BY DEF Types, BaseOf

\* The ops in flight, as the primary looks at them.
LEMMA InFlightIs ==
  ASSUME Types
  PROVE  LET A == log \o queue
             b == BaseOf(applied, primary, inherited)
         IN  /\ \A i \in (b + 1)..Len(A) : A[i] \in InFlight
             /\ \A op \in InFlight : \E i \in (b + 1)..Len(A) : A[i] = op
<1> DEFINE A == log \o queue
           b == BaseOf(applied, primary, inherited)
           n == Len(log)
<1>1. log \in Seq(OpRecord) /\ queue \in Seq(OpRecord) /\ n \in Nat /\ Len(queue) \in Nat
  BY DEF Types
<1>2. Len(A) = n + Len(queue) /\ (\A i \in 1..n : A[i] = log[i])
      /\ (\A i \in 1..Len(queue) : A[n + i] = queue[i])
      /\ (\A i \in (n + 1)..Len(A) : i - n \in 1..Len(queue) /\ A[i] = queue[i - n])
  BY <1>1, Joined
<1>3. b \in 0..n /\ b \in Nat
  BY BaseIs
<1>4. \A i : i \in Pipeline <=> i \in (b + 1)..n
  BY <1>1, <1>3, BaseIs DEF Pipeline, BaseOf, Types
<1>5. Range(queue) = {queue[i] : i \in 1..Len(queue)}
  BY <1>1 DEF Range
<1>6. InFlight = {log[i] : i \in Pipeline} \cup Range(queue)
  BY DEF InFlight
<1>7. ASSUME NEW i \in (b + 1)..Len(A) PROVE A[i] \in InFlight
  <2>1. CASE i \in (b + 1)..n
    <3>1. i \in 1..n
      BY <1>3, <2>1
    <3> QED BY <1>2, <1>4, <1>6, <2>1, <3>1
  <2>2. CASE i \notin (b + 1)..n
    <3>1. i \in (n + 1)..Len(A)
      BY <1>1, <1>3, <2>2
    <3> QED BY <1>2, <1>5, <1>6, <3>1
  <2> QED BY <2>1, <2>2
<1>8. ASSUME NEW op \in InFlight PROVE \E i \in (b + 1)..Len(A) : A[i] = op
  <2>1. CASE \E i \in Pipeline : op = log[i]
    <3>1. PICK i \in (b + 1)..n : op = log[i]
      BY <1>4, <2>1
    <3>2. i \in 1..n /\ i \in (b + 1)..Len(A)
      BY <1>1, <1>2, <1>3, <3>1
    <3> QED BY <1>2, <3>1, <3>2
  <2>2. CASE \E i \in 1..Len(queue) : op = queue[i]
    <3>1. PICK i \in 1..Len(queue) : op = queue[i]
      BY <2>2
    <3>2. n + i \in (b + 1)..Len(A) /\ A[n + i] = queue[i]
      BY <1>1, <1>2, <1>3, <3>1
    <3> QED BY <3>1, <3>2
  <2> QED BY <1>5, <1>6, <2>1, <2>2
<1> QED BY <1>7, <1>8

\* Sequences put together.
LEMMA Together ==
  ASSUME NEW lg \in Seq(OpRecord), NEW q \in Seq(OpRecord), NEW op \in OpRecord
  PROVE  /\ lg \o Append(q, op) = Append(lg \o q, op)
         /\ lg \o <<>> = lg
         /\ q # <<>> => Append(lg, Head(q)) \o Tail(q) = lg \o q
<1>1. lg \o Append(q, op) = Append(lg \o q, op)
  OBVIOUS
<1>2. lg \o <<>> = lg
  OBVIOUS
<1>3. ASSUME q # <<>> PROVE Append(lg, Head(q)) \o Tail(q) = lg \o q
  <2>0. Head(q) \in OpRecord /\ Tail(q) \in Seq(OpRecord) /\ Append(lg, Head(q)) \in Seq(OpRecord)
    <3>1. Head(q) \in OpRecord /\ Tail(q) \in Seq(OpRecord)
      BY <1>3, HeadTailProperties
    <3> QED BY <3>1
  <2>1. PICK l2 : l2 = Append(lg, Head(q)) /\ l2 \in Seq(OpRecord)
    BY <2>0
  <2>2. PICK t : t = Tail(q) /\ t \in Seq(OpRecord)
    BY <2>0
  <2>3. Len(l2) = Len(lg) + 1 /\ Len(t) = Len(q) - 1 /\ Len(q) \in Nat /\ Len(q) > 0 /\ Len(lg) \in Nat
    BY <1>3, <2>0, <2>1, <2>2
  <2>4. l2 \o t \in Seq(OpRecord) /\ lg \o q \in Seq(OpRecord) /\ Len(l2 \o t) = Len(lg \o q)
        /\ Len(lg \o q) = Len(lg) + Len(q)
    BY <2>1, <2>2, <2>3
  <2>5. ASSUME NEW i \in 1..Len(lg \o q) PROVE (l2 \o t)[i] = (lg \o q)[i]
    <3>1. CASE i <= Len(lg)
      <4>1. i \in 1..Len(l2) /\ i \in 1..Len(lg) /\ l2[i] = lg[i]
        BY <2>1, <2>3, <2>4, <3>1
      <4> QED BY <4>1, Joined
    <3>2. CASE i = Len(lg) + 1
      <4>1. i \in 1..Len(l2) /\ l2[i] = Head(q) /\ 1 \in 1..Len(q) /\ Head(q) = q[1]
        BY <1>3, <2>1, <2>3, <3>2
      <4>2. (lg \o q)[Len(lg) + 1] = q[1]
        BY <4>1, Joined
      <4> QED BY <3>2, <4>1, <4>2, Joined
    <3>3. CASE i > Len(lg) + 1
      <4>1. i \in (Len(l2) + 1)..Len(l2 \o t) /\ i \in (Len(lg) + 1)..Len(lg \o q)
        BY <2>3, <2>4, <3>3
      <4>2. i - Len(l2) \in 1..Len(t) /\ (l2 \o t)[i] = t[i - Len(l2)]
        BY <4>1, Joined
      <4>3. (lg \o q)[i] = q[i - Len(lg)]
        BY <4>1, Joined
      <4>4. PICK k \in 1..Len(t) : k = i - Len(l2)
        BY <4>2
      <4>5. t[k] = q[k + 1] /\ k + 1 = i - Len(lg)
        BY <1>3, <2>2, <2>3, <2>4, <4>4
      <4> QED BY <4>2, <4>3, <4>4, <4>5
    <3> QED BY <2>3, <2>4, <3>1, <3>2, <3>3
  <2>6. l2 \o t = lg \o q
    BY <2>4, <2>5
  <2> QED BY <2>1, <2>2, <2>6
<1> QED BY <1>1, <1>2, <1>3

\* The sequence without the first op that waits.
LEMMA WithoutHead ==
  ASSUME NEW lg \in Seq(OpRecord), NEW q \in Seq(OpRecord), q # <<>>
  PROVE  LET A == lg \o q
             B == lg \o Tail(q)
         IN  /\ B \in Seq(OpRecord) /\ Len(B) = Len(A) - 1
             /\ \A i \in 1..Len(B) : B[i] = IF i <= Len(lg) THEN A[i] ELSE A[i + 1]
<1>1. PICK t : t = Tail(q) /\ t \in Seq(OpRecord)
  BY HeadTailProperties
<1>2. Len(t) = Len(q) - 1 /\ Len(q) \in Nat /\ Len(q) > 0 /\ Len(lg) \in Nat
      /\ \A k \in 1..Len(t) : t[k] = q[k + 1]
  BY <1>1
<1>3. lg \o t \in Seq(OpRecord) /\ Len(lg \o t) = Len(lg) + Len(t) /\ Len(lg \o q) = Len(lg) + Len(q)
  BY <1>1, <1>2
<1>4. ASSUME NEW i \in 1..Len(lg \o t)
      PROVE (lg \o t)[i] = IF i <= Len(lg) THEN (lg \o q)[i] ELSE (lg \o q)[i + 1]
  <2>1. CASE i <= Len(lg)
    <3>1. i \in 1..Len(lg)
      BY <1>2, <1>3, <2>1
    <3> QED BY <2>1, <3>1, Joined
  <2>2. CASE ~(i <= Len(lg))
    <3>1. i \in (Len(lg) + 1)..Len(lg \o t) /\ i + 1 \in (Len(lg) + 1)..Len(lg \o q)
      BY <1>2, <1>3, <2>2
    <3>2. i - Len(lg) \in 1..Len(t) /\ (lg \o t)[i] = t[i - Len(lg)]
      BY <3>1, Joined
    <3>3. (lg \o q)[i + 1] = q[(i + 1) - Len(lg)]
      BY <3>1, Joined
    <3>4. PICK k \in 1..Len(t) : k = i - Len(lg)
      BY <3>2
    <3>5. k + 1 = (i + 1) - Len(lg) /\ t[k] = q[k + 1]
      BY <1>2, <1>3, <3>4
    <3> QED BY <2>2, <3>2, <3>3, <3>4, <3>5
  <2> QED BY <2>1, <2>2
<1> QED BY <1>1, <1>2, <1>3, <1>4

\* The session of a write that the frontier lets pass is not retired in what the
\* primary applied.
LEMMA Unretired ==
  ASSUME Types, SessionsOk, AllSuit(log, queue, sessions, meta), NEW T, NEW F, RunOk(log, T, F),
         frontier[primary] = F[applied[primary]],
         NEW op, Suits(op, sessions, meta), op.kind = "write", ~behind_frontier(op)
  PROVE  \A j \in 1..applied[primary] : ~NamesSession(log[j], op.client, op.session)
<1> SUFFICES ASSUME NEW j \in 1..applied[primary], NamesSession(log[j], op.client, op.session)
             PROVE  FALSE
  OBVIOUS
<1>1. applied[primary] \in 0..Len(log) /\ j \in 1..Len(log) /\ applied[primary] \in Nat
      /\ F[applied[primary]] \in Nat
  <2>1. applied[primary] \in Nat /\ applied[primary] <= Len(log) /\ Len(log) \in Nat
    BY DEF Types
  <2>2. F \in [Nat -> Nat]
    BY DEF RunOk, Starts
  <2>3. applied[primary] \in 0..Len(log) /\ j \in 1..Len(log)
    BY <2>1
  <2> QED BY <2>1, <2>2, <2>3
<1>2. PICK x \in log[j].ids : x.client = op.client /\ x.session = op.session
  BY DEF NamesSession
<1>3. log[j].kind = "retire"
  BY DEF NamesSession
<1>4. PICK y \in sessions : y.session = x.session /\ y.ended = x.ended /\ y.ended # 0
  BY <1>1, <1>2 DEF AllSuit, Suits, EndedIn
<1>5. PICK z \in sessions : z.session = op.session /\ (z.ended # 0 => op.watermark < z.ended)
  BY DEF Suits, WrittenIn
<1>6. y = z
  BY <1>2, <1>4, <1>5 DEF SessionsOk
<1>7. x.ended <= F[applied[primary]]
  BY <1>1, <1>2, <1>3 DEF RunOk, Demands
<1>8. op.watermark \in Nat /\ y.ended \in Nat
  BY <1>4 DEF Suits, OpRecord, Types, Session
<1>9. op.watermark >= F[applied[primary]]
  BY <1>1, <1>8 DEF behind_frontier
<1> QED BY <1>1, <1>4, <1>5, <1>6, <1>7, <1>8, <1>9

\* The primary's state when it admits or promotes: what it applied is the base.
LEMMA PrimaryFacts ==
  ASSUME IInv, applied[primary] >= inherited
  PROVE  /\ BaseOf(applied, primary, inherited) = applied[primary]
         /\ applied[primary] \in 0..Len(log)
         /\ \E T, F : Consistent(log, queue, applied, table, frontier, applied[primary], T, F)
<1>1. BaseOf(applied, primary, inherited) = applied[primary] /\ applied[primary] \in 0..Len(log)
  BY BaseIs DEF IInv
<1> QED BY <1>1 DEF IInv, TablesOk

\* A request that the primary admits keeps the invariant.
LEMMA AdmitKeeps ==
  ASSUME IInv, NEW op, Suits(op, sessions, meta), op.kind = "write" => ~behind_frontier(op),
         \A T, F : Consistent(log, queue, applied, table, frontier, applied[primary], T, F)
                     => Admissible(log \o queue, T, applied[primary], op),
         Admit(op)
  PROVE  IInv'
<1>1. /\ applied[primary] >= inherited
      /\ UNCHANGED <<meta, sessions, reporters, commit, primary, inherited, views,
                     applied, table, frontier, fatal>>
  BY DEF Admit, metadata, replicas
<1>2. PICK T, F : Consistent(log, queue, applied, table, frontier, applied[primary], T, F)
  BY <1>1, PrimaryFacts
<1>3. log \in Seq(OpRecord) /\ queue \in Seq(OpRecord) /\ op \in OpRecord /\ OpOk(op)
      /\ applied[primary] \in 0..Len(log) /\ Len(log) \in Nat
  <2>1. log \in Seq(OpRecord) /\ queue \in Seq(OpRecord) /\ meta \in Nat /\ sessions \subseteq Session
    BY DEF IInv, Types
  <2>2. \A x \in sessions : Dated(x, meta)
    BY DEF IInv, SessionsOk
  <2>3. OpOk(op)
    BY <2>1, <2>2, SuitsIsOk
  <2> QED BY <1>1, <2>1, <2>3, PrimaryFacts DEF Suits
<1>4. PICK A : A = log \o queue
  OBVIOUS
<1>5. PICK B : B = Append(A, op)
  OBVIOUS
<1>6. PICK b : b = applied[primary]
  OBVIOUS
<1>7. Waits(log, T, F, A, b) /\ Admissible(A, T, b, op)
  <2>1. Holds(A, log)
    BY <1>3, <1>4, Joined
  <2> QED BY <1>2, <1>3, <1>4, <1>6, <2>1 DEF Consistent, Waits
<1>8. Waits(log, T, F, B, b)
  BY <1>3, <1>5, <1>7, AdmittedWaits
<1>9. SessionsOk'
  BY <1>1 DEF IInv, SessionsOk
<1>10. CASE queue' = Append(queue, op) /\ UNCHANGED log
  <2>1. Types'
    <3>1. queue' \in Seq(OpRecord)
      BY <1>3, <1>10
    <3> QED BY <1>1, <1>10, <3>1 DEF IInv, Types
  <2>2. AllSuit(log, queue, sessions, meta)'
    <3>1. Len(queue') = Len(queue) + 1 /\ Len(queue) \in Nat /\ queue'[Len(queue) + 1] = op
          /\ \A i \in 1..Len(queue) : queue'[i] = queue[i]
      BY <1>3, <1>10
    <3>2. \A i \in 1..Len(queue') : i \in 1..Len(queue) \/ i = Len(queue) + 1
      BY <3>1
    <3>3. \A i \in 1..Len(queue') : Suits(queue'[i], sessions, meta)
      BY <3>1, <3>2 DEF IInv, AllSuit
    <3>4. \A i \in 1..Len(log) : Suits(log[i], sessions, meta)
      BY DEF IInv, AllSuit
    <3> QED BY <1>1, <1>10, <3>3, <3>4 DEF AllSuit
  <2>3. log \o Append(queue, op) = B
    BY <1>3, <1>4, <1>5, Together
  <2>4. Consistent(log, Append(queue, op), applied, table, frontier, b, T, F)
    BY <1>2, <1>8, <2>3 DEF Consistent, Waits
  <2>5. TablesOk'
    <3>1. BaseOf(applied, primary, inherited) = b
      BY <1>1, <1>6, PrimaryFacts
    <3> QED BY <1>1, <1>10, <2>4, <3>1 DEF TablesOk
  <2> QED BY <1>9, <2>1, <2>2, <2>5 DEF IInv
<1>11. CASE queue = <<>> /\ log' = Append(log, op) /\ UNCHANGED queue
  <2>0. A = log /\ B = Append(log, op) /\ Len(B) = Len(log) + 1 /\ B[Len(log) + 1] = op
        /\ B \o <<>> = B
    <3>1. A = log
      BY <1>3, <1>4, <1>11, Together
    <3>2. B \in Seq(OpRecord)
      BY <1>3, <1>5, <3>1
    <3> QED BY <1>3, <1>5, <3>1, <3>2, Together
  <2>1. Types'
    <3>1. log' \in Seq(OpRecord) /\ Len(log') = Len(log) + 1
      BY <1>3, <1>11
    <3> QED BY <1>1, <1>3, <1>11, <3>1 DEF IInv, Types
  <2>2. (\A i \in 1..Len(B) : Suits(B[i], sessions, meta)) /\ \A i \in 1..Len(B) : OpOk(B[i])
    <3>0. \A i \in 1..Len(log) : B[i] = log[i]
      BY <1>3, <2>0
    <3>1. \A i \in 1..Len(B) : i \in 1..Len(log) \/ i = Len(log) + 1
      BY <1>3, <2>0
    <3>2. \A i \in 1..Len(B) : Suits(B[i], sessions, meta)
      BY <2>0, <3>1, <3>0 DEF IInv, AllSuit
    <3>3. sessions \subseteq Session /\ meta \in Nat /\ \A x \in sessions : Dated(x, meta)
      BY DEF IInv, Types, SessionsOk
    <3> QED BY <3>2, <3>3, SuitsIsOk
  <2>3. AllSuit(log, queue, sessions, meta)'
    <3>1. \A i \in 1..Len(queue) : Suits(queue[i], sessions, meta)
      BY DEF IInv, AllSuit
    <3> QED BY <1>1, <1>11, <2>0, <2>2, <3>1 DEF AllSuit
  <2>4. op.kind = "write" => \A j \in 1..b : ~NamesSession(log[j], op.client, op.session)
    BY <1>2, <1>6, Unretired DEF IInv, Consistent, Types
  <2>5. PICK T2, F2 : /\ Waits(Append(log, op), T2, F2, B, b)
                      /\ \A k \in 0..Len(log) : T2[k] = T[k] /\ F2[k] = F[k]
    <3>1. Len(log) < Len(B) /\ op = B[Len(log) + 1]
      BY <1>3, <2>0
    <3> QED BY <1>8, <2>2, <2>4, <3>1, PromotedWaits
  <2>9. \A r \in Replicas : table[r] = T2[applied[r]] /\ frontier[r] = F2[applied[r]]
    <3>1. \A r \in Replicas : applied[r] \in 0..Len(log)
      BY <1>3 DEF IInv, Types
    <3> QED BY <1>2, <2>5, <3>1 DEF Consistent
  <2>10. Consistent(B, <<>>, applied, table, frontier, b, T2, F2)
    BY <2>0, <2>5, <2>9 DEF Consistent, Waits
  <2>11. TablesOk'
    <3>1. BaseOf(applied, primary, inherited) = b
      BY <1>1, <1>6, PrimaryFacts
    <3> QED BY <1>1, <1>11, <2>0, <2>10, <3>1 DEF TablesOk
  <2> QED BY <1>9, <2>1, <2>3, <2>11 DEF IInv
<1> QED BY <1>10, <1>11 DEF Admit

-----------------------------------------------------------------------------
(* The requests *)

\* The clients that the primary counts are those that have an entry or will have one.
LEMMA CountedClaims ==
  ASSUME Types, NEW T, T[applied[primary]] = table[primary],
         applied[primary] >= inherited, NEW c \in Clients, has_retry_capacity(c)
  PROVE  LET C == Claimed(log \o queue, T, applied[primary])
         IN  c \in C \/ Cardinality(C) < Capacity
<1>1. PICK A, b : A = log \o queue /\ b = applied[primary] /\ b = BaseOf(applied, primary, inherited)
  BY BaseIs
<1>2. PICK t : t = table[primary]
  OBVIOUS
<1>3. PICK held : held = {d \in Clients : t[d] # None}
  OBVIOUS
<1>4. PICK pending : pending = {d \in Clients : pending_request(d) /\ t[d] = None}
  OBVIOUS
<1>5. PICK C : C = Claimed(A, T, b)
  OBVIOUS
<1>6. ASSUME NEW d \in Clients PROVE pending_request(d) <=> \E i \in (b + 1)..Len(A) : IsWrite(A[i], d)
  BY <1>1, InFlightIs DEF pending_request, IsWrite
<1>7. C = held \cup pending /\ held \cap pending = {} /\ C \subseteq Clients
  BY <1>1, <1>2, <1>3, <1>4, <1>5, <1>6 DEF Claimed
<1>8. IsFiniteSet(held) /\ IsFiniteSet(pending)
  BY <1>3, <1>4, FS_Subset, SizesAssumption
<1>9. Cardinality(held \cap pending) = 0 /\ Cardinality(held) \in Nat /\ Cardinality(pending) \in Nat
  BY <1>7, <1>8, FS_EmptySet, FS_CardinalityType
<1>10. Cardinality(C) = Cardinality(held) + Cardinality(pending)
  <2>1. Cardinality(held \cup pending) = Cardinality(held) + Cardinality(pending) - Cardinality(held \cap pending)
    BY <1>8, FS_Union
  <2> QED BY <1>7, <1>9, <2>1
<1>11. t[c] # None \/ c \in pending \/ count(t) + Cardinality(pending) < Capacity
  BY <1>2, <1>4 DEF has_retry_capacity
<1>12. count(t) = Cardinality(held)
  BY <1>3 DEF count
<1>13. c \in C \/ Cardinality(C) < Capacity
  BY <1>3, <1>7, <1>10, <1>11, <1>12
<1> QED BY <1>1, <1>5, <1>13

\* A write is admitted (on_write).
LEMMA WriteKeeps ==
  ASSUME IInv, NEW x \in sessions, NEW q \in 1..MaxRequest, NEW w \in 1..meta, on_write(x, q, w)
  PROVE  IInv'
<1>1. PICK op : op = Op("write", x.client, x.session, q, w, {})
  OBVIOUS
<1>2. /\ op.kind = "write" /\ op.client = x.client /\ op.session = x.session /\ op.request = q
      /\ op.watermark = w /\ op.ids = {}
  BY <1>1 DEF Op
<1>3. /\ w <= meta /\ (x.ended # 0 => w < x.ended)
      /\ ~behind_frontier(op) /\ ~retirement_conflict(op) /\ ~pending_request(op.client)
      /\ check_partition_request(table[primary], op) = "New" /\ has_retry_capacity(op.client)
      /\ Admit(op)
  BY <1>1 DEF on_write
<1>4. Types /\ x \in Session /\ x.client \in Clients /\ x.session \in Nat /\ w \in Nat /\ q \in Nat
  BY SizesAssumption DEF IInv, Types, Session
<1>5. Suits(op, sessions, meta)
  <2>1. op \in OpRecord
    BY <1>1, <1>4 DEF Op, OpRecord
  <2>2. WrittenIn(op, sessions)
    BY <1>2, <1>3 DEF WrittenIn
  <2> QED BY <1>2, <1>3, <1>4, <2>1, <2>2 DEF Suits
<1>6. applied[primary] >= inherited
  BY <1>3 DEF Admit
<1>7. PICK A, b : A = log \o queue /\ b = applied[primary] /\ b = BaseOf(applied, primary, inherited)
  BY <1>4, <1>6, BaseIs
<1>8. ASSUME NEW j \in (b + 1)..Len(A)
      PROVE  ~IsWrite(A[j], op.client) /\ ~NamesSession(A[j], op.client, op.session)
  <2>1. A[j] \in InFlight
    BY <1>4, <1>7, InFlightIs
  <2>2. ~pending_session_retirement(op.client, op.session)
    BY <1>2, <1>3 DEF retirement_conflict
  <2> QED BY <1>3, <2>1, <2>2 DEF pending_request, pending_session_retirement, IsWrite, NamesSession
<1>9. ASSUME NEW T, NEW F, Consistent(log, queue, applied, table, frontier, applied[primary], T, F)
      PROVE  Admissible(log \o queue, T, applied[primary], op)
  <2>1. table[primary] = T[applied[primary]]
    BY <1>4, <1>9 DEF Consistent, Types
  <2>2. op.client \in Claimed(A, T, b) \/ Cardinality(Claimed(A, T, b)) < Capacity
    BY <1>2, <1>3, <1>4, <1>6, <1>7, <2>1, CountedClaims
  <2>3. check_partition_request(T[b], op) = "New"
    BY <1>3, <1>7, <2>1
  <2>4. \A c, s : ~NamesSession(op, c, s)
    BY <1>2 DEF NamesSession
  <2>5. Admissible(A, T, b, op)
    BY <1>8, <2>2, <2>3, <2>4 DEF Admissible
  <2> QED BY <1>7, <2>5
<1> QED BY <1>3, <1>5, <1>9, AdmitKeeps

\* A barrier is admitted (retire_session).
LEMMA RetireKeeps ==
  ASSUME IInv, NEW m \in 1..meta, retire_session(m)
  PROVE  IInv'
<1>1. PICK batch : batch = Oldest(ended_sessions(m), MAX_SESSIONS_PER_RETIREMENT)
  OBVIOUS
<1>2. PICK ids : ids = {[client |-> x.client, session |-> x.session, ended |-> x.ended] : x \in batch}
  OBVIOUS
<1>3. PICK op : op = Op("retire", 0, 0, 0, m, ids)
  OBVIOUS
<1>4. op.kind = "retire" /\ op.watermark = m /\ op.ids = ids
  BY <1>3 DEF Op
<1>5. ~retirement_conflict(op) /\ Admit(op)
  BY <1>1, <1>2, <1>3 DEF retire_session
<1>6. Types /\ meta \in Nat /\ m \in Nat /\ m <= meta /\ sessions \subseteq Session
  BY DEF IInv, Types
<1>7. batch \subseteq sessions /\ \A x \in batch : x.ended # 0
  BY <1>1 DEF Oldest, ended_sessions
<1>8. Suits(op, sessions, meta)
  <2>1. ids \subseteq Identity
    BY <1>2, <1>6, <1>7 DEF Identity, Session
  <2>2. op \in OpRecord
    BY <1>3, <1>6, <2>1 DEF Op, OpRecord
  <2>3. \A y \in ids : EndedIn(y, sessions)
    BY <1>2, <1>7 DEF EndedIn
  <2> QED BY <1>4, <1>6, <2>2, <2>3 DEF Suits
<1>9. applied[primary] >= inherited
  BY <1>5 DEF Admit
<1>10. PICK A, b : A = log \o queue /\ b = applied[primary] /\ b = BaseOf(applied, primary, inherited)
  BY <1>6, <1>9, BaseIs
<1>11. ASSUME NEW j \in (b + 1)..Len(A), A[j].kind = "write"
       PROVE  ~NamesSession(op, A[j].client, A[j].session)
  <2>1. A[j] \in InFlight
    BY <1>6, <1>10, InFlightIs
  <2>2. \A x \in ids : ~pending_request(x.client)
    BY <1>4, <1>5 DEF retirement_conflict
  <2> QED BY <1>4, <1>11, <2>1, <2>2 DEF pending_request, NamesSession
<1>12. \A T : Admissible(A, T, b, op)
  BY <1>4, <1>11 DEF Admissible
<1> QED BY <1>4, <1>5, <1>8, <1>10, <1>12, AdmitKeeps

\* The install of an owner is admitted (install_owner).
LEMMA InstallOwnerKeeps ==
  ASSUME IInv, NEW m \in 1..meta, install_owner(m)
  PROVE  IInv'
<1>1. PICK op : op = Op("install", 0, 0, 0, m, {})
  OBVIOUS
<1>2. op.kind = "install" /\ op.watermark = m /\ op.ids = {} /\ Admit(op)
  BY <1>1 DEF Op, install_owner
<1>3. meta \in Nat /\ m \in Nat /\ m <= meta
  BY DEF IInv, Types
<1>4. Suits(op, sessions, meta)
  <2>1. op \in OpRecord
    BY <1>1, <1>3 DEF Op, OpRecord
  <2> QED BY <1>2, <1>3, <2>1 DEF Suits
<1>5. \A A, T, b : Admissible(A, T, b, op)
  BY <1>2 DEF Admissible, NamesSession
<1> QED BY <1>2, <1>4, <1>5, AdmitKeeps

-----------------------------------------------------------------------------
(* The queue, the commit frontier and the views *)

\* What is in flight, against the base of the pipeline.
LEMMA WaitsAre ==
  ASSUME Types, NEW T, NEW F, NEW b, b = BaseOf(applied, primary, inherited),
         Consistent(log, queue, applied, table, frontier, b, T, F)
  PROVE  Waits(log, T, F, log \o queue, b)
<1>1. b \in 0..Len(log)
  BY BaseIs
<1>2. Holds(log \o queue, log)
  BY Joined DEF Types
<1> QED BY <1>1, <1>2 DEF Consistent, Waits

\* The head of the queue joins the log, or is dropped (drain_request_queue_into_prepares).
LEMMA DrainKeeps == ASSUME IInv, drain_request_queue_into_prepares PROVE IInv'
<1>1. /\ queue # <<>> /\ queue' = Tail(queue)
      /\ UNCHANGED <<meta, sessions, reporters, commit, primary, inherited, views,
                     applied, table, frontier, fatal>>
  BY DEF drain_request_queue_into_prepares, metadata, replicas
<1>2. Types /\ applied[primary] >= inherited /\ log \in Seq(OpRecord) /\ queue \in Seq(OpRecord)
      /\ Len(log) \in Nat /\ SessionsOk /\ AllSuit(log, queue, sessions, meta)
  BY <1>1 DEF IInv, Types
<1>3. PICK b : b = applied[primary] /\ b = BaseOf(applied, primary, inherited)
  BY <1>1, <1>2, PrimaryFacts
<1>4. PICK T, F : Consistent(log, queue, applied, table, frontier, b, T, F)
  BY <1>3 DEF IInv, TablesOk
<1>5. PICK A : A = log \o queue
  OBVIOUS
<1>6. Waits(log, T, F, A, b)
  BY <1>2, <1>3, <1>4, <1>5, WaitsAre
<1>7. PICK t, h : t = Tail(queue) /\ h = Head(queue)
  OBVIOUS
<1>8. t \in Seq(OpRecord) /\ h \in OpRecord /\ Len(t) = Len(queue) - 1 /\ Len(queue) \in Nat
      /\ Len(queue) > 0 /\ h = queue[1] /\ \A i \in 1..Len(t) : t[i] = queue[i + 1]
  <2>1. t \in Seq(OpRecord) /\ h \in OpRecord
    BY <1>1, <1>2, <1>7, HeadTailProperties
  <2> QED BY <1>1, <1>2, <1>7, <2>1
<1>9. \A i \in 1..Len(t) : Suits(t[i], sessions, meta)
  <2> TAKE i \in 1..Len(t)
  <2>1. i + 1 \in 1..Len(queue) /\ t[i] = queue[i + 1]
    BY <1>8
  <2> QED BY <1>2, <2>1 DEF AllSuit
<1>10. Suits(h, sessions, meta)
  <2>1. 1 \in 1..Len(queue)
    BY <1>8
  <2> QED BY <1>2, <1>8, <2>1 DEF AllSuit
<1>11. SessionsOk'
  BY <1>1, <1>2 DEF SessionsOk
<1>12. Len(log) < Len(A) /\ A[Len(log) + 1] = h /\ A \in Seq(OpRecord)
  <2>1. Len(A) = Len(log) + Len(queue) /\ A[Len(log) + 1] = queue[1]
    <3>1. 1 \in 1..Len(queue)
      BY <1>8
    <3> QED BY <1>2, <1>5, <3>1, Joined
  <2>2. A \in Seq(OpRecord)
    BY <1>2, <1>5
  <2> QED BY <1>2, <1>8, <2>1, <2>2
<1>13. CASE UNCHANGED log
  <2>1. PICK B : B = log \o t
    OBVIOUS
  <2>2. B \in Seq(OpRecord) /\ Len(B) = Len(A) - 1
        /\ \A i \in 1..Len(B) : B[i] = IF i <= Len(log) THEN A[i] ELSE A[i + 1]
    BY <1>1, <1>2, <1>5, <1>7, <2>1, WithoutHead
  <2>3. Waits(log, T, F, B, b)
    BY <1>6, <1>12, <2>2, DroppedWaits
  <2>4. Consistent(log, t, applied, table, frontier, b, T, F)
    BY <1>4, <2>1, <2>3 DEF Consistent, Waits
  <2>5. TablesOk'
    BY <1>1, <1>3, <1>7, <1>13, <2>4 DEF TablesOk
  <2>6. Types'
    BY <1>1, <1>2, <1>7, <1>8, <1>13 DEF Types
  <2>7. AllSuit(log, queue, sessions, meta)'
    BY <1>1, <1>2, <1>7, <1>9, <1>13 DEF AllSuit
  <2> QED BY <1>11, <2>5, <2>6, <2>7 DEF IInv
<1>14. CASE ~(h.kind = "write" /\ behind_frontier(h)) /\ log' = Append(log, h)
  <2>1. PICK lg : lg = Append(log, h) /\ lg \in Seq(OpRecord)
    <3>1. Append(log, h) \in Seq(OpRecord)
      BY <1>2, <1>8
    <3> QED BY <3>1
  <2>2. lg \o t = A /\ Len(lg) = Len(log) + 1 /\ lg[Len(log) + 1] = h /\ \A i \in 1..Len(log) : lg[i] = log[i]
    <3>1. lg \o t = A
      BY <1>1, <1>2, <1>5, <1>7, <1>8, <2>1, Together
    <3> QED BY <1>2, <1>8, <2>1, <3>1
  <2>3. \A i \in 1..Len(A) : OpOk(A[i])
    BY <1>2, <1>5, AllOk
  <2>4. h.kind = "write" => \A j \in 1..b : ~NamesSession(log[j], h.client, h.session)
    <3>1. RunOk(log, T, F) /\ frontier[primary] = F[applied[primary]]
      BY <1>2, <1>4 DEF Consistent, Types
    <3> QED BY <1>2, <1>3, <1>10, <1>14, <3>1, Unretired
  <2>5. PICK T2, F2 : /\ Waits(Append(log, h), T2, F2, A, b)
                      /\ \A k \in 0..Len(log) : T2[k] = T[k] /\ F2[k] = F[k]
    BY <1>6, <1>12, <2>3, <2>4, PromotedWaits
  <2>6. \A r \in Replicas : table[r] = T2[applied[r]] /\ frontier[r] = F2[applied[r]]
    <3>1. \A r \in Replicas : applied[r] \in 0..Len(log)
      BY <1>2 DEF Types
    <3> QED BY <1>4, <2>5, <3>1 DEF Consistent
  <2>7. Consistent(lg, t, applied, table, frontier, b, T2, F2)
    BY <2>1, <2>2, <2>5, <2>6 DEF Consistent, Waits
  <2>8. TablesOk'
    BY <1>1, <1>3, <1>7, <1>14, <2>1, <2>7 DEF TablesOk
  <2>9. Types'
    BY <1>1, <1>2, <1>7, <1>8, <1>14, <2>1, <2>2 DEF Types
  <2>10. \A i \in 1..Len(lg) : Suits(lg[i], sessions, meta)
    <3>1. \A i \in 1..Len(lg) : i \in 1..Len(log) \/ i = Len(log) + 1
      BY <1>2, <2>2
    <3> QED BY <1>2, <1>10, <2>2, <3>1 DEF AllSuit
  <2>11. AllSuit(log, queue, sessions, meta)'
    BY <1>1, <1>7, <1>9, <1>14, <2>1, <2>10 DEF AllSuit
  <2> QED BY <1>11, <2>8, <2>9, <2>11 DEF IInv
<1> QED BY <1>7, <1>13, <1>14 DEF drain_request_queue_into_prepares

\* More of the log is committed (advance_commit_max).
LEMMA AdvanceKeeps == ASSUME IInv, advance_commit_max PROVE IInv'
<1>1. /\ UNCHANGED <<meta, sessions, reporters, log, primary, inherited, views, queue,
                     applied, table, frontier, fatal>>
      /\ commit' \in (commit + 1)..Len(log)
  BY DEF advance_commit_max, metadata, replicas
<1>2. Types'
  BY <1>1 DEF IInv, Types
<1> QED BY <1>1, <1>2 DEF IInv, SessionsOk, AllSuit, TablesOk

\* A view starts (start_view).
LEMMA StartViewKeeps == ASSUME IInv, NEW r \in Replicas, start_view(r) PROVE IInv'
<1>1. /\ primary' = r /\ inherited' = commit /\ queue' = <<>>
      /\ UNCHANGED <<meta, sessions, reporters, commit, applied, table, frontier, fatal>>
  BY DEF start_view, metadata, replicas
<1>2. PICK n \in commit..Len(log) : log' = SubSeq(log, 1, n)
  BY DEF start_view
<1>3. Types /\ log \in Seq(OpRecord) /\ Len(log) \in Nat /\ commit \in Nat /\ commit <= n /\ n <= Len(log)
      /\ AllSuit(log, queue, sessions, meta) /\ SessionsOk /\ n \in Nat
  BY <1>2 DEF IInv, Types
<1>4. PICK b : b = BaseOf(applied, primary, inherited)
  OBVIOUS
<1>5. b \in Nat /\ b <= commit
  BY <1>3, <1>4, BaseIs
<1>6. PICK T, F : Consistent(log, queue, applied, table, frontier, b, T, F)
  BY <1>4 DEF IInv, TablesOk
<1>7. PICK B : B = SubSeq(log, 1, n)
  OBVIOUS
<1>8. B \in Seq(OpRecord) /\ Len(B) = n /\ \A i \in 1..n : B[i] = log[i]
  BY <1>3, <1>7
<1>9. Waits(B, T, F, B, commit)
  <2>1. Waits(log, T, F, log \o queue, b)
    BY <1>3, <1>4, <1>6, WaitsAre
  <2>2. n \in b..Len(log) /\ commit \in b..n
    BY <1>3, <1>5
  <2> QED BY <1>7, <2>1, <2>2, CutWaits
<1>10. B \o <<>> = B
  BY <1>8
<1>11. Consistent(B, <<>>, applied, table, frontier, commit, T, F)
  BY <1>6, <1>9, <1>10 DEF Consistent, Waits
<1>12. BaseOf(applied, r, commit) = commit
  BY <1>3 DEF BaseOf, Types
<1>13. TablesOk'
  BY <1>1, <1>2, <1>7, <1>11, <1>12 DEF TablesOk
<1>14. Types'
  BY <1>1, <1>2, <1>3, <1>7, <1>8 DEF Types
<1>15. AllSuit(log, queue, sessions, meta)'
  <2>1. \A i \in 1..n : i \in 1..Len(log)
    BY <1>3
  <2>2. \A i \in 1..Len(B) : Suits(B[i], sessions, meta)
    BY <1>3, <1>8, <2>1 DEF AllSuit
  <2>3. Len(<<>>) = 0
    OBVIOUS
  <2> QED BY <1>1, <1>2, <1>7, <2>2, <2>3 DEF AllSuit
<1>16. SessionsOk'
  BY <1>1, <1>3 DEF SessionsOk
<1> QED BY <1>13, <1>14, <1>15, <1>16 DEF IInv

-----------------------------------------------------------------------------
(* The replicas *)

\* A replica that has the table and the frontier of a later op keeps the invariant.
LEMMA FurtherKeeps ==
  ASSUME IInv, NEW r \in Replicas, NEW k \in (applied[r] + 1)..commit, NEW T, NEW F,
         Consistent(log, queue, applied, table, frontier, BaseOf(applied, primary, inherited), T, F),
         applied' = [applied EXCEPT ![r] = k], table' = [table EXCEPT ![r] = T[k]],
         frontier' = [frontier EXCEPT ![r] = F[k]], ~fatal',
         UNCHANGED <<meta, sessions, log, commit, primary, inherited, queue>>
  PROVE  IInv'
<1>1. Types /\ commit \in Nat /\ commit <= Len(log) /\ Len(log) \in Nat /\ applied[r] \in Nat
      /\ k \in Nat /\ k <= commit /\ applied[r] < k
  BY DEF IInv, Types
<1>2. PICK b, d : b = BaseOf(applied, primary, inherited) /\ d = BaseOf(applied', primary, inherited)
  OBVIOUS
<1>3. \A s \in Replicas : applied'[s] \in Nat /\ applied'[s] <= commit /\ applied[s] <= applied'[s]
  BY <1>1 DEF Types
<1>4. b \in 0..Len(log) /\ d \in b..Len(log)
  <2>1. primary \in Replicas /\ inherited \in Nat /\ inherited <= commit /\ applied[primary] \in Nat
    BY <1>1 DEF Types
  <2>2. b \in Nat /\ b <= commit
    BY <1>1, <1>2, BaseIs
  <2>3. applied'[primary] \in Nat /\ applied'[primary] <= commit /\ applied[primary] <= applied'[primary]
    BY <1>3, <2>1
  <2>4. b <= d /\ d <= commit /\ d \in Nat
    BY <1>2, <2>1, <2>3 DEF BaseOf
  <2> QED BY <1>1, <2>2, <2>4
<1>5. RunOk(log, T, F) /\ T \in [Nat -> Tables] /\ F \in [Nat -> Nat]
  BY DEF Consistent, RunOk, Starts
<1>6. Waits(log, T, F, log \o queue, d)
  BY <1>1, <1>2, <1>4, WaitsAre, AppliedWaits
<1>7. \A s \in Replicas : table'[s] = T[applied'[s]] /\ frontier'[s] = F[applied'[s]]
  BY <1>1 DEF Consistent, Types
<1>8. Consistent(log, queue, applied', table', frontier', d, T, F)
  BY <1>6, <1>7 DEF Consistent, Waits
<1>9. TablesOk'
  BY <1>2, <1>8 DEF TablesOk
<1>10. Types'
  <2>1. applied' \in [Replicas -> Nat] /\ table' \in [Replicas -> Tables] /\ frontier' \in [Replicas -> Nat]
    BY <1>1, <1>5 DEF Types
  <2>2. queue # <<>> => applied'[primary] >= inherited
    <3>1. primary \in Replicas /\ inherited \in Nat /\ applied[primary] \in Nat
          /\ (queue # <<>> => applied[primary] >= inherited)
      BY <1>1 DEF Types
    <3>2. applied'[primary] \in Nat /\ applied[primary] <= applied'[primary]
      BY <1>3, <3>1
    <3> QED BY <3>1, <3>2
  <2> QED BY <1>1, <1>3, <2>1, <2>2 DEF Types
<1> QED BY <1>9, <1>10 DEF IInv, SessionsOk, AllSuit

\* A committed op is applied (publish_pending_commit).
LEMMA PublishKeeps == ASSUME IInv, NEW r \in Replicas, publish_pending_commit(r) PROVE IInv'
<1>1. PICK at, op : at = applied[r] + 1 /\ op = log[at]
  OBVIOUS
<1>2. Types /\ applied[r] \in Nat /\ at \in Nat /\ at \in (applied[r] + 1)..commit /\ at \in 1..Len(log)
      /\ commit \in Nat /\ Len(log) \in Nat
  BY <1>1 DEF IInv, Types, publish_pending_commit
<1>3. PICK T, F : Consistent(log, queue, applied, table, frontier, BaseOf(applied, primary, inherited), T, F)
  BY DEF IInv, TablesOk
<1>4. RunOk(log, T, F) /\ table[r] = T[applied[r]] /\ frontier[r] = F[applied[r]] /\ T[applied[r]] \in Tables
  BY <1>2, <1>3 DEF Consistent, RunOk, Starts
<1>5. at - 1 = applied[r]
  BY <1>1, <1>2
<1>6. T[at] = After(table[r], op, at) /\ F[at] = Raised(frontier[r], op)
  BY <1>1, <1>2, <1>4, <1>5 DEF RunOk, Follows
<1>7. op.kind = "write" => Retains(table[r], op)
  BY <1>1, <1>2, <1>4, <1>5 DEF RunOk, Admitted, Fits
<1>8. applied' = [applied EXCEPT ![r] = at] /\ ~fatal'
  BY <1>1, <1>7 DEF publish_pending_commit
<1>9. raised_frontier(r, op) = Raised(frontier[r], op)
  BY DEF raised_frontier, Raised
<1>10. frontier' = [frontier EXCEPT ![r] = F[at]]
  BY <1>1, <1>6, <1>9 DEF publish_pending_commit
<1>11. table' = [table EXCEPT ![r] = T[at]]
  <2>1. table \in [Replicas -> Tables]
    BY <1>2 DEF Types
  <2>2. CASE op.kind = "retire"
    BY <1>1, <1>6, <2>2 DEF publish_pending_commit, After
  <2>3. CASE op.kind = "write"
    <3>1. table' = [table EXCEPT ![r][op.client] = commit_entry(@, op, at)]
      BY <1>1, <1>7, <2>3 DEF publish_pending_commit
    <3>2. T[at] = [table[r] EXCEPT ![op.client] = commit_entry(@, op, at)]
      BY <1>6, <2>3 DEF After
    <3> QED BY <2>1, <3>1, <3>2
  <2>4. CASE op.kind # "retire" /\ op.kind # "write"
    <3>1. table' = table /\ T[at] = table[r]
      BY <1>1, <1>6, <2>4 DEF publish_pending_commit, After
    <3> QED BY <2>1, <3>1
  <2> QED BY <2>2, <2>3, <2>4
<1>12. UNCHANGED <<meta, sessions, log, commit, primary, inherited, queue>>
  BY DEF publish_pending_commit, metadata, consensus
<1> QED BY <1>2, <1>3, <1>8, <1>10, <1>11, <1>12, FurtherKeeps

\* The state of another replica is installed (publish_installed_state).
LEMMA InstallStateKeeps ==
  ASSUME IInv, NEW r \in Replicas, NEW s \in Replicas, publish_installed_state(r, s) PROVE IInv'
<1>1. PICK k : k = applied[s]
  OBVIOUS
<1>2. Types /\ applied[r] \in Nat /\ k \in (applied[r] + 1)..commit /\ k \in 0..Len(log)
      /\ applied[r] \in 0..k
  BY <1>1 DEF IInv, Types, publish_installed_state
<1>3. PICK T, F : Consistent(log, queue, applied, table, frontier, BaseOf(applied, primary, inherited), T, F)
  BY DEF IInv, TablesOk
<1>4. table[s] = T[k] /\ frontier[s] = F[k] /\ frontier[r] = F[applied[r]] /\ F[k] \in Nat /\ F[applied[r]] \in Nat
  <2>1. F \in [Nat -> Nat] /\ k \in Nat
    <3>1. F \in [Nat -> Nat]
      BY <1>3 DEF Consistent, RunOk, Starts
    <3> QED BY <1>1, <1>2, <3>1 DEF Types
  <2>2. table[s] = T[k] /\ frontier[s] = F[k] /\ frontier[r] = F[applied[r]]
    BY <1>1, <1>3 DEF Consistent
  <2> QED BY <1>2, <2>1, <2>2
<1>5. F[applied[r]] <= F[k]
  BY <1>2, <1>3 DEF Consistent, RunOk, Demands
<1>6. Max({frontier[r], frontier[s]}) = F[k]
  BY <1>4, <1>5, MaxOfTwo
<1>7. frontier' = [frontier EXCEPT ![r] = F[k]]
  BY <1>6 DEF publish_installed_state
<1>8. applied' = [applied EXCEPT ![r] = k] /\ table' = [table EXCEPT ![r] = T[k]]
  BY <1>1, <1>4 DEF publish_installed_state
<1>9. UNCHANGED <<meta, sessions, log, commit, primary, inherited, queue>> /\ ~fatal'
  BY <1>2 DEF publish_installed_state, metadata, consensus, Types
<1> QED BY <1>2, <1>3, <1>7, <1>8, <1>9, FurtherKeeps

-----------------------------------------------------------------------------
(* The metadata group *)

\* A session of S is still one of R, and ended no earlier.
Continues(y, R, m) ==
    \E z \in R : /\ z.client = y.client /\ z.session = y.session
                 /\ z.ended = y.ended \/ (y.ended = 0 /\ z.ended > m)

\* An op that suited the sessions suits them when they go on.
LEMMA StillSuits ==
  ASSUME NEW S, NEW R, NEW m \in Nat, S \subseteq Session, R \subseteq Session,
         \A y \in S : Continues(y, R, m), NEW op, Suits(op, S, m)
  PROVE  Suits(op, R, m + 1)
<1>1. op \in OpRecord /\ op.watermark \in Nat /\ op.watermark <= m
  BY DEF Suits, OpRecord
<1>2. ASSUME op.kind = "write" PROVE WrittenIn(op, R)
  <2>1. PICK y \in S : y.client = op.client /\ y.session = op.session /\ (y.ended # 0 => op.watermark < y.ended)
    BY <1>2 DEF Suits, WrittenIn
  <2>2. PICK z \in R : /\ z.client = y.client /\ z.session = y.session
                       /\ z.ended = y.ended \/ (y.ended = 0 /\ z.ended > m)
    BY <2>1 DEF Continues
  <2>3. z.ended \in Nat
    BY <2>2 DEF Session
  <2>4. z.ended # 0 => op.watermark < z.ended
    BY <1>1, <2>1, <2>2, <2>3
  <2> QED BY <2>1, <2>2, <2>4 DEF WrittenIn
<1>3. ASSUME NEW x \in op.ids PROVE EndedIn(x, R)
  <2>1. PICK y \in S : y.client = x.client /\ y.session = x.session /\ y.ended = x.ended /\ y.ended # 0
    BY DEF Suits, EndedIn
  <2>2. PICK z \in R : z.client = y.client /\ z.session = y.session /\ z.ended = y.ended
    BY <2>1 DEF Continues
  <2> QED BY <2>1, <2>2 DEF EndedIn
<1>4. op.watermark <= m + 1
  BY <1>1
<1> QED BY <1>1, <1>2, <1>3, <1>4 DEF Suits

\* A step of the metadata group keeps the invariant when the sessions go on.
LEMMA SessionsKeep ==
  ASSUME IInv, MetaStep, sessions' \subseteq Session, SessionsOk',
         \A y \in sessions : Continues(y, sessions', meta)
  PROVE  IInv'
<1>1. meta \in Nat /\ meta' = meta + 1 /\ sessions \subseteq Session
      /\ UNCHANGED <<log, commit, primary, inherited, views, queue, applied, table, frontier, fatal>>
  BY DEF IInv, Types, MetaStep, consensus, replicas
<1>2. Types'
  BY <1>1 DEF IInv, Types
<1>3. \A op : Suits(op, sessions, meta) => Suits(op, sessions', meta')
  BY <1>1, StillSuits
<1>4. AllSuit(log, queue, sessions, meta)'
  BY <1>1, <1>3 DEF IInv, AllSuit
<1> QED BY <1>1, <1>2, <1>4 DEF IInv, TablesOk

\* A session is opened (register).
LEMMA RegisterKeeps == ASSUME IInv, NEW c \in Clients, register(c) PROVE IInv'
<1>1. PICK z : z = [client |-> c, session |-> meta + 1, ended |-> 0, finalized |-> 0]
  OBVIOUS
<1>2. MetaStep /\ sessions' = sessions \cup {z} /\ meta' = meta + 1
  BY <1>1 DEF register, MetaStep
<1>3. meta \in Nat /\ sessions \subseteq Session /\ (\A x \in sessions : Dated(x, meta))
      /\ \A x, y \in sessions : x.session = y.session => x = y
  BY DEF IInv, Types, SessionsOk
<1>4. z \in Session /\ z.session = meta + 1 /\ z.ended = 0 /\ z.finalized = 0
  BY <1>1, <1>3 DEF Session
<1>5. \A x \in sessions : Dated(x, meta + 1) /\ x.session # meta + 1
  <2> TAKE x \in sessions
  <2>1. x.session \in Nat /\ x.ended \in Nat /\ x.finalized \in Nat /\ Dated(x, meta)
    BY <1>3 DEF Session
  <2> QED BY <1>3, <2>1 DEF Dated
<1>6. Dated(z, meta + 1)
  BY <1>3, <1>4 DEF Dated
<1>7. SessionsOk'
  BY <1>2, <1>3, <1>4, <1>5, <1>6 DEF SessionsOk
<1>8. \A y \in sessions : Continues(y, sessions', meta)
  BY <1>2 DEF Continues
<1> QED BY <1>2, <1>3, <1>4, <1>7, <1>8, SessionsKeep

\* The sessions of some set are replaced by what becomes of them.
LEMMA ReplacedKeep ==
  ASSUME IInv, MetaStep, NEW old, old \subseteq sessions, NEW g,
         \A x \in old : /\ g[x] \in Session /\ g[x].client = x.client /\ g[x].session = x.session
                        /\ g[x].ended = x.ended \/ (x.ended = 0 /\ g[x].ended > meta)
                        /\ Dated(g[x], meta + 1),
         sessions' = (sessions \ old) \cup {g[x] : x \in old}
  PROVE  IInv'
<1>1. meta' = meta + 1
  BY DEF MetaStep
<1>2. meta \in Nat /\ sessions \subseteq Session /\ (\A x \in sessions : Dated(x, meta))
      /\ \A x, y \in sessions : x.session = y.session => x = y
  BY DEF IInv, Types, SessionsOk
<1>3. \A x \in sessions : Dated(x, meta + 1)
  <2> TAKE x \in sessions
  <2>1. x.session \in Nat /\ x.ended \in Nat /\ x.finalized \in Nat /\ Dated(x, meta)
    BY <1>2 DEF Session
  <2> QED BY <1>2, <2>1 DEF Dated
<1>4. PICK h : h = [x \in sessions |-> IF x \in old THEN g[x] ELSE x]
  OBVIOUS
<1>5. sessions' = {h[x] : x \in sessions}
  BY <1>4
<1>6. \A x \in sessions : /\ h[x] \in Session /\ h[x].session = x.session /\ h[x].client = x.client
                          /\ Dated(h[x], meta + 1)
                          /\ h[x].ended = x.ended \/ (x.ended = 0 /\ h[x].ended > meta)
  BY <1>2, <1>3, <1>4
<1>7. SessionsOk'
  <2>1. \A y \in sessions' : Dated(y, meta')
    BY <1>1, <1>5, <1>6
  <2>2. ASSUME NEW y \in sessions', NEW z \in sessions', y.session = z.session PROVE y = z
    <3>1. PICK u \in sessions : y = h[u]
      BY <1>5
    <3>2. PICK v \in sessions : z = h[v]
      BY <1>5
    <3>3. u.session = v.session
      BY <1>6, <2>2, <3>1, <3>2
    <3> QED BY <1>2, <3>1, <3>2, <3>3
  <2> QED BY <2>1, <2>2 DEF SessionsOk
<1>8. sessions' \subseteq Session
  BY <1>5, <1>6
<1>9. \A y \in sessions : Continues(y, sessions', meta)
  <2> TAKE y \in sessions
  <2>1. h[y] \in sessions'
    BY <1>5
  <2> QED BY <1>6, <2>1 DEF Continues
<1> QED BY <1>7, <1>8, <1>9, SessionsKeep

\* Sessions end (end_sessions).
LEMMA EndKeeps == ASSUME IInv, NEW cs, end_sessions(cs) PROVE IInv'
<1>1. PICK live : live = {x \in sessions : x.ended = 0 /\ x.client \in cs}
  OBVIOUS
<1>2. MetaStep /\ sessions' = (sessions \ live) \cup {[x EXCEPT !.ended = meta + 1] : x \in live}
  BY <1>1 DEF end_sessions
<1>3. PICK g : g = [x \in live |-> [x EXCEPT !.ended = meta + 1]]
  OBVIOUS
<1>4. sessions' = (sessions \ live) \cup {g[x] : x \in live}
  BY <1>2, <1>3
<1>5. meta \in Nat /\ sessions \subseteq Session /\ (\A x \in sessions : Dated(x, meta)) /\ live \subseteq sessions
  BY <1>1 DEF IInv, Types, SessionsOk
<1>6. ASSUME NEW x \in live
      PROVE  /\ g[x] \in Session /\ g[x].client = x.client /\ g[x].session = x.session
             /\ x.ended = 0 /\ g[x].ended > meta /\ Dated(g[x], meta + 1)
  <2>1. x \in Session /\ Dated(x, meta) /\ x.ended = 0
    BY <1>1, <1>5
  <2>2. g[x] = [x EXCEPT !.ended = meta + 1]
    BY <1>3
  <2>3. g[x] \in Session /\ g[x].client = x.client /\ g[x].session = x.session /\ g[x].ended = meta + 1
        /\ g[x].finalized = x.finalized /\ x.session \in Nat /\ x.finalized \in Nat
    BY <1>5, <2>1, <2>2 DEF Session
  <2>4. x.session <= meta /\ x.finalized = 0
    BY <2>1 DEF Dated
  <2>5. Dated(g[x], meta + 1)
    BY <1>5, <2>3, <2>4 DEF Dated
  <2> QED BY <1>5, <2>1, <2>3, <2>5
<1> QED BY <1>2, <1>4, <1>5, <1>6, ReplacedKeep

\* The oldest ended session is finalized (submit_session_finalization).
LEMMA FinalizeKeeps == ASSUME IInv, submit_session_finalization PROVE IInv'
<1>1. MetaStep
  BY DEF submit_session_finalization
<1>2. PICK x \in Oldest(ended_sessions(meta), 1) :
         sessions' = (sessions \ {x}) \cup {[x EXCEPT !.finalized = meta + 1]}
  BY DEF submit_session_finalization
<1>3. meta \in Nat /\ sessions \subseteq Session /\ (\A y \in sessions : Dated(y, meta))
  BY DEF IInv, Types, SessionsOk
<1>4. x \in sessions /\ x \in Session /\ Dated(x, meta) /\ x.ended # 0 /\ x.ended <= meta
  BY <1>2, <1>3 DEF Oldest, ended_sessions
<1>5. PICK g : g = [y \in {x} |-> [x EXCEPT !.finalized = meta + 1]]
  OBVIOUS
<1>6. g[x] = [x EXCEPT !.finalized = meta + 1]
  BY <1>5
<1>7. g[x] \in Session /\ g[x].client = x.client /\ g[x].session = x.session /\ g[x].ended = x.ended
      /\ g[x].finalized = meta + 1 /\ x.session \in Nat /\ x.ended \in Nat
  BY <1>3, <1>4, <1>6 DEF Session
<1>8. Dated(g[x], meta + 1)
  <2>1. x.session <= meta /\ x.session < x.ended
    BY <1>4 DEF Dated
  <2> QED BY <1>3, <1>4, <1>7, <2>1 DEF Dated
<1>9. PICK old : old = {x}
  OBVIOUS
<1>10. old \subseteq sessions /\ sessions' = (sessions \ old) \cup {g[y] : y \in old}
  BY <1>2, <1>4, <1>6, <1>9
<1>11. \A y \in old : /\ g[y] \in Session /\ g[y].client = y.client /\ g[y].session = y.session
                      /\ g[y].ended = y.ended \/ (y.ended = 0 /\ g[y].ended > meta)
                      /\ Dated(g[y], meta + 1)
  BY <1>7, <1>8, <1>9
<1> QED BY <1>1, <1>10, <1>11, ReplacedKeep

-----------------------------------------------------------------------------
(* The invariant holds *)

\* An empty log has its run.
LEMMA EmptyRun ==
  \E T, F : /\ RunOk(<<>>, T, F) /\ T[0] = [c \in Clients |-> None] /\ F[0] = 0
            /\ \A k \in Nat : T[k] = [c \in Clients |-> None]
<1>1. PICK T, F : T = [k \in Nat |-> [c \in Clients |-> None]] /\ F = [k \in Nat |-> 0]
  OBVIOUS
<1>2. Len(<<>>) = 0 /\ <<>> \in Seq(OpRecord)
  OBVIOUS
<1>3. T \in [Nat -> Tables] /\ F \in [Nat -> Nat] /\ T[0] = [c \in Clients |-> None] /\ F[0] = 0
  BY <1>1 DEF Tables
<1>4. Starts(<<>>, T, F) /\ Follows(<<>>, T, F) /\ Admitted(<<>>, T)
  BY <1>2, <1>3 DEF Starts, Follows, Admitted
<1>5. Frames(<<>>, T)
  BY <1>2 DEF Frames
<1>6. AllExact(<<>>, T) /\ Remembered(<<>>, T) /\ Demands(<<>>, F)
  <2>1. \A k \in 0..0 : k = 0 /\ \A j \in 1..k : FALSE
    OBVIOUS
  <2> QED BY <1>2, <1>3, <2>1 DEF AllExact, Remembered, Demands
<1> QED BY <1>1, <1>3, <1>4, <1>5, <1>6 DEF RunOk

\* It holds at first.
LEMMA InitIInv == Init => IInv
<1> SUFFICES ASSUME Init PROVE IInv
  OBVIOUS
<1>1. /\ meta = 0 /\ sessions = {} /\ log = <<>> /\ commit = 0 /\ primary \in Replicas /\ inherited = 0
      /\ queue = <<>> /\ applied = [r \in Replicas |-> 0] /\ frontier = [r \in Replicas |-> 0]
      /\ table = [r \in Replicas |-> [c \in Clients |-> None]] /\ ~fatal
  BY DEF Init
<1>2. Len(<<>>) = 0 /\ <<>> \in Seq(OpRecord) /\ <<>> \o <<>> = <<>>
  OBVIOUS
<1>3. Types
  BY <1>1, <1>2 DEF Types, Tables
<1>4. SessionsOk /\ AllSuit(log, queue, sessions, meta)
  BY <1>1, <1>2 DEF SessionsOk, AllSuit
<1>5. PICK T, F : /\ RunOk(<<>>, T, F) /\ T[0] = [c \in Clients |-> None] /\ F[0] = 0
                  /\ \A k \in Nat : T[k] = [c \in Clients |-> None]
  BY EmptyRun
<1>6. BaseOf(applied, primary, inherited) = 0
  BY <1>1 DEF BaseOf
<1>7. Flight(<<>>, 0) /\ FreshAt(<<>>, T, 0)
  BY <1>2 DEF Flight, FreshAt
<1>8. Room(<<>>, T, 0, 0)
  <2> SUFFICES ASSUME NEW k \in 0..0 PROVE Cardinality(Claimed(<<>>, T, k)) <= Capacity
    BY DEF Room
  <2>1. Claimed(<<>>, T, k) = {}
    BY <1>2, <1>5 DEF Claimed
  <2>2. Cardinality(Claimed(<<>>, T, k)) = 0
    BY <2>1, FS_EmptySet
  <2> QED BY <2>2, SizesAssumption
<1>9. Consistent(<<>>, <<>>, applied, table, frontier, 0, T, F)
  BY <1>1, <1>2, <1>5, <1>7, <1>8 DEF Consistent
<1>10. TablesOk
  BY <1>1, <1>6, <1>9 DEF TablesOk
<1> QED BY <1>3, <1>4, <1>10 DEF IInv

\* Every step keeps it.
LEMMA NextIInv == IInv /\ [Next]_vars => IInv'
<1> SUFFICES ASSUME IInv, [Next]_vars PROVE IInv'
  OBVIOUS
<1>1. CASE Metadata
  BY <1>1, RegisterKeeps, EndKeeps, FinalizeKeeps DEF Metadata
<1>2. CASE on_request
  <2>1. CASE \E x \in sessions, q \in 1 .. MaxRequest, w \in 1 .. meta : on_write(x, q, w)
    BY <2>1, WriteKeeps
  <2>2. CASE \E m \in 1 .. meta : retire_session(m) \/ install_owner(m)
    BY <2>2, RetireKeeps, InstallOwnerKeeps
  <2> QED BY <1>2, <2>1, <2>2 DEF on_request
<1>3. CASE drain_request_queue_into_prepares
  BY <1>3, DrainKeeps
<1>4. CASE advance_commit_max
  BY <1>4, AdvanceKeeps
<1>5. ASSUME NEW r \in Replicas, report(r) PROVE IInv'
  <2>1. UNCHANGED <<meta, sessions, log, commit, primary, inherited, views, queue, applied, table, frontier, fatal>>
    BY <1>5 DEF report, consensus, replicas
  <2> QED BY <2>1 DEF IInv, Types, SessionsOk, AllSuit, TablesOk
<1>6. CASE UNCHANGED vars
  <2>1. UNCHANGED <<meta, sessions, log, commit, primary, inherited, views, queue, applied, table, frontier, fatal>>
    BY <1>6 DEF vars, metadata, consensus, replicas
  <2> QED BY <2>1 DEF IInv, Types, SessionsOk, AllSuit, TablesOk
<1> QED BY <1>1, <1>2, <1>3, <1>4, <1>5, <1>6, StartViewKeeps, PublishKeeps, InstallStateKeeps DEF Next

\* The log stands for tables and frontiers that the replicas hold up to what they applied,
\* and what the primary let in stays admissible until it is applied.
THEOREM InductiveInvariant == Spec => []IInv
<1>1. Init => IInv
  BY InitIInv
<1>2. IInv /\ [Next]_vars => IInv'
  BY NextIInv
<1> QED BY <1>1, <1>2, PTL DEF Spec

\* No committed receipt is ever refused (commit_partition_reply).
THEOREM Retained == Spec => []CommittedIsRetained
<1>1. IInv => CommittedIsRetained
  BY DEF IInv, Types, CommittedIsRetained
<1> QED BY <1>1, InductiveInvariant, PTL

-----------------------------------------------------------------------------
(* What the invariant says of the requests *)

\* A log holds a request of a session once.
LEMMA NoRepeat ==
  ASSUME NEW lg, NEW T, NEW F, RunOk(lg, T, F), NEW j \in 1..Len(lg), NEW i \in 1..(j - 1),
         NEW c, NEW s, NEW q, IsRequest(lg[i], c, s, q), IsRequest(lg[j], c, s, q)
  PROVE  FALSE
<1>1. Len(lg) \in Nat /\ j \in Nat /\ j - 1 \in 0..Len(lg) /\ i \in 1..Len(lg) /\ T \in [Nat -> Tables]
      /\ j - 1 \in Nat
  <2>0. lg \in Seq(OpRecord) /\ T \in [Nat -> Tables]
    BY DEF RunOk, Starts
  <2>1. Len(lg) \in Nat
    BY <2>0
  <2> QED BY <2>0, <2>1
<1>2. PICK k, op : k = j - 1 /\ op = lg[j]
  OBVIOUS
<1>3. OpOk(op) /\ op.kind = "write" /\ op.client = c /\ op.session = s /\ op.request = q
  BY <1>2 DEF RunOk, Starts, IsRequest, IsOf, IsWrite
<1>4. lg[i].kind = "write" /\ lg[i].client = c /\ lg[i].session = s /\ lg[i].request = q
  BY DEF IsRequest, IsOf, IsWrite
<1>5. c \in Clients /\ s > 0 /\ q \in Nat
  <2>1. op.client \in Clients /\ op.session > 0 /\ op.request \in 1..MaxRequest
    BY <1>3 DEF OpOk
  <2> QED BY <1>3, <2>1, SizesAssumption
<1>6. check_partition_request(T[k], op) = "New" /\ \A h \in 1..k : ~NamesSession(lg[h], c, s)
  BY <1>2, <1>3 DEF RunOk, Admitted, Fits
<1>7. T[k][c].epoch = s
  <2>1. k \in 0..Len(lg) /\ i \in 1..k /\ \A h \in (i + 1)..k : h \in 1..k
    BY <1>1, <1>2
  <2>2. T[k][c].epoch = s \/ \E h \in (i + 1)..k : NamesSession(lg[h], c, s)
    BY <1>4, <2>1 DEF RunOk, Remembered
  <2> QED BY <1>6, <2>1, <2>2
<1>8. PICK e : e = T[k][c]
  OBVIOUS
<1>9. e # None /\ e \in Entry /\ T[k] \in Tables
  <2>1. T[k] \in Tables
    BY <1>1, <1>2
  <2>2. e \in Entry \cup {None}
    BY <1>5, <1>8, <2>1 DEF Tables
  <2>3. e # None
    BY <1>5, <1>7, <1>8 DEF None
  <2> QED BY <2>1, <2>2, <2>3
<1>10. IsNew(e, op)
  BY <1>3, <1>6, <1>8, <1>9, NewRequest
<1>11. Exact(lg, k, c, e)
  BY <1>1, <1>2, <1>5, <1>8, <1>9 DEF RunOk, AllExact
<1>12. i \in 1..k /\ IsRequest(lg[i], c, e.epoch, q) /\ IsOf(lg[i], c, e.epoch)
  BY <1>1, <1>2, <1>7, <1>8 DEF IsRequest
<1>13. q <= e.watermark
  BY <1>4, <1>11, <1>12 DEF Exact
<1>14. e.watermark \in Nat
  BY <1>9 DEF Entry
<1>15. e.watermark - q \in Nat /\ e.watermark - (e.watermark - q) = q
  BY <1>5, <1>13, <1>14
<1>16. e.watermark - q < COMMITTED_WINDOW_BITS => e.watermark - q \in e.window
  BY <1>11, <1>12, <1>15 DEF Exact
<1> QED BY <1>3, <1>5, <1>10, <1>13, <1>14, <1>16 DEF IsNew

\* So does the committed part of the log.
LEMMA InvAtMostOnce == IInv => AtMostOnce
<1> SUFFICES ASSUME IInv, NEW i \in 1..commit, log[i].kind = "write"
             PROVE  CommittedAt(log[i].client, log[i].session, log[i].request, commit) = {i}
  BY DEF AtMostOnce
<1>1. PICK T, F : RunOk(log, T, F)
  BY DEF IInv, TablesOk, Consistent
<1>2. commit \in Nat /\ commit <= Len(log) /\ Len(log) \in Nat
  BY DEF IInv, Types
<1>3. PICK c, s, q : c = log[i].client /\ s = log[i].session /\ q = log[i].request
  OBVIOUS
<1>4. IsRequest(log[i], c, s, q)
  BY <1>3 DEF IsRequest, IsOf, IsWrite
<1>5. ASSUME NEW j \in 1..commit, IsRequest(log[j], c, s, q) PROVE j = i
  <2>1. CASE i < j
    <3>1. j \in 1..Len(log) /\ i \in 1..(j - 1)
      BY <1>2, <2>1
    <3> QED BY <1>1, <1>4, <1>5, <3>1, NoRepeat
  <2>2. CASE j < i
    <3>1. i \in 1..Len(log) /\ j \in 1..(i - 1)
      BY <1>2, <2>2
    <3> QED BY <1>1, <1>4, <1>5, <3>1, NoRepeat
  <2> QED BY <1>2, <2>1, <2>2
<1>6. CommittedAt(c, s, q, commit) = {j \in 1..commit : IsRequest(log[j], c, s, q)}
  BY DEF CommittedAt, IsRequest, IsOf, IsWrite
<1> QED BY <1>3, <1>4, <1>5, <1>6

\* An entry that is exact is what WindowIsExact says.
LEMMA ExactEntry ==
  ASSUME NEW k \in Nat, NEW c \in Clients, NEW e \in Entry, Exact(log, k, c, e),
         \A j \in 1..k : OpOk(log[j])
  PROVE  LET at(q) == CommittedAt(c, e.epoch, q, k)
         IN  /\ e.watermark = Max({q \in 1 .. MaxRequest : at(q) # {}})
             /\ e.window = {b \in 0 .. COMMITTED_WINDOW_BITS - 1 :
                               e.watermark - b >= 1 /\ at(e.watermark - b) # {}}
             /\ e.pinned.request = e.watermark /\ at(e.watermark) = {e.pinned.commit}
             /\ installs(e)
<1> DEFINE at(q) == CommittedAt(c, e.epoch, q, k)
<1>1. \A q, j : j \in at(q) <=> j \in 1..k /\ IsRequest(log[j], c, e.epoch, q)
  BY DEF CommittedAt, IsRequest, IsOf, IsWrite
<1> HIDE DEF at
<1>2. PICK w, p : w = e.watermark /\ p = e.pinned.commit
  OBVIOUS
<1>3. /\ w \in Nat /\ w > 0 /\ p \in 1..k /\ IsRequest(log[p], c, e.epoch, w)
      /\ \A j \in 1..k : IsRequest(log[j], c, e.epoch, w) <=> j = p
  BY <1>2 DEF Exact, Entry
<1>4. at(w) = {p}
  BY <1>1, <1>3
<1>5. \A q, j : IsRequest(log[j], c, e.epoch, q) /\ j \in 1..k => q \in 1..MaxRequest /\ q <= w
  <2> SUFFICES ASSUME NEW q, NEW j \in 1..k, IsRequest(log[j], c, e.epoch, q)
               PROVE  q \in 1..MaxRequest /\ q <= w
    OBVIOUS
  <2>1. log[j].kind = "write" /\ log[j].request = q /\ IsOf(log[j], c, e.epoch)
    BY DEF IsRequest, IsOf, IsWrite
  <2>2. log[j].request \in 1..MaxRequest
    BY <2>1 DEF OpOk
  <2>3. log[j].request <= e.watermark
    BY <2>1 DEF Exact
  <2> QED BY <1>2, <2>1, <2>2, <2>3
<1>6. w = Max({q \in 1..MaxRequest : at(q) # {}})
  <2>1. PICK Q : Q = {q \in 1..MaxRequest : at(q) # {}}
    OBVIOUS
  <2>2. w \in Q
    BY <1>3, <1>4, <1>5, <2>1
  <2>3. \A q \in Q : q <= w
    BY <1>1, <1>5, <2>1
  <2>4. Q \subseteq Nat /\ Q # {}
    BY <2>1, <2>2, SizesAssumption
  <2>5. Max(Q) \in Q /\ \A q \in Q : q <= Max(Q)
    BY <1>3, <2>3, <2>4, MaxOfBounded
  <2>6. Max(Q) <= w /\ w <= Max(Q) /\ Max(Q) \in Nat
    BY <2>2, <2>3, <2>4, <2>5
  <2>7. Max(Q) = w
    BY <1>3, <2>6
  <2> QED BY <2>1, <2>7
<1>7. e.window = {b \in 0 .. COMMITTED_WINDOW_BITS - 1 : w - b >= 1 /\ at(w - b) # {}}
  <2>1. PICK W : W = {b \in 0 .. COMMITTED_WINDOW_BITS - 1 : w - b >= 1 /\ at(w - b) # {}}
    OBVIOUS
  <2>2. e.window \subseteq Nat /\ COMMITTED_WINDOW_BITS \in Nat
    BY SizesAssumption DEF Entry
  <2>3. \A b \in Nat : b \in e.window <=> b < COMMITTED_WINDOW_BITS /\ at(w - b) # {}
    BY <1>1, <1>2 DEF Exact
  <2>4. \A b \in Nat : at(w - b) # {} => w - b >= 1
    BY <1>1, <1>5
  <2>5. \A b \in Nat : b \in W <=> b < COMMITTED_WINDOW_BITS /\ w - b >= 1 /\ at(w - b) # {}
    BY <2>1, <2>2
  <2>6. W \subseteq Nat
    BY <2>1, <2>2
  <2>7. \A b \in Nat : b \in W <=> b \in e.window
    BY <2>3, <2>4, <2>5
  <2> QED BY <2>1, <2>2, <2>6, <2>7
<1>8. installs(e)
  <2>1. 0 \in e.window
    BY ExactWindow
  <2>2. e.epoch \in Nat /\ e.epoch > 0 /\ e.pinned.request = e.watermark /\ e.pinned.commit = e.latest_commit
    BY DEF Exact, Entry
  <2>3. e.watermark - e.pinned.request = 0
    BY <1>2, <1>3, <2>2
  <2> QED BY <2>1, <2>2, <2>3, SizesAssumption DEF installs
<1>9. e.pinned.request = w
  BY <1>2 DEF Exact
<1> QED BY <1>2, <1>4, <1>6, <1>7, <1>8, <1>9 DEF at

\* Every replica's entries are exact.
LEMMA InvWindowIsExact == IInv => WindowIsExact
<1> SUFFICES ASSUME IInv, NEW r \in Replicas, NEW c \in Clients, table[r][c] # None
             PROVE  LET e == table[r][c]
                        at(q) == CommittedAt(c, e.epoch, q, applied[r])
                    IN  /\ e.watermark = Max({q \in 1 .. MaxRequest : at(q) # {}})
                        /\ e.window = {b \in 0 .. COMMITTED_WINDOW_BITS - 1 :
                                          e.watermark - b >= 1 /\ at(e.watermark - b) # {}}
                        /\ e.pinned.request = e.watermark /\ at(e.watermark) = {e.pinned.commit}
                        /\ installs(e)
  BY DEF WindowIsExact
<1>1. PICK T, F : RunOk(log, T, F) /\ table[r] = T[applied[r]]
  BY DEF IInv, TablesOk, Consistent
<1>2. PICK k, e : k = applied[r] /\ e = table[r][c]
  OBVIOUS
<1>3. k \in Nat /\ k \in 0..Len(log) /\ (\A j \in 1..k : j \in 1..Len(log)) /\ table[r] \in Tables
  BY <1>2 DEF IInv, Types
<1>4. e \in Entry
  BY <1>2, <1>3 DEF Tables
<1>5. Exact(log, k, c, e)
  BY <1>1, <1>2, <1>3 DEF RunOk, AllExact
<1>6. \A j \in 1..k : OpOk(log[j])
  BY <1>1, <1>3 DEF RunOk, Starts
<1> QED BY <1>2, <1>3, <1>4, <1>5, <1>6, ExactEntry

\* A request of a session is committed once (check_partition_request, pending_request
\* and the frontier), whatever is delayed, repeated, queued or lost.
THEOREM RequestsOnce == Spec => []AtMostOnce
BY InductiveInvariant, InvAtMostOnce, PTL

\* The window, the watermark and the pinned reply of an entry are those of the log, and
\* a lagging replica can take them over (commit_request, install_watermarks).
THEOREM WindowsExact == Spec => []WindowIsExact
BY InductiveInvariant, InvWindowIsExact, PTL

-----------------------------------------------------------------------------
(* The retirement of sessions *)

\* The ended sessions that are not finalized, and the one that is next.
Waiting(S) == {x \in S : x.ended # 0 /\ x.finalized = 0}
Eldest(S) == {x \in Waiting(S) : \A y \in Waiting(S) : ~Before(y, x)}

\* A session of a client opens after the ones before it are finalized.
Succeeds(S) == \A x, y \in S : x.client = y.client /\ x.session < y.session
                                 => x.finalized # 0 /\ x.finalized < y.session

\* No barrier splits the sessions that ended at one op: it has room for every client,
\* or there are none.
Unsplit(S) ==
    \/ MAX_SESSIONS_PER_RETIREMENT >= Cardinality(Clients)
    \/ \A x, y \in S : x.ended # 0 /\ x.ended = y.ended => x = y

\* A barrier names every session that ended up to one it names, or it is finalized.
Covers(op, S) ==
    op.kind = "retire" => \A y \in op.ids : \A x \in S :
        x.ended # 0 /\ x.ended <= y.ended => x.finalized # 0 \/ NamesSession(op, x.client, x.session)
OpsOf(lg, q) == {lg[i] : i \in 1..Len(lg)} \cup {q[i] : i \in 1..Len(q)}
AllCover(lg, q, S) == \A op \in OpsOf(lg, q) : Covers(op, S)

\* A session is finalized, or reported, when the committed log retires it.
NamedIn(x, lg, n) == \E j \in 1..n : NamesSession(lg[j], x.client, x.session)
Plain(lg, n) == \A i \in 1..n : lg[i].kind # "install"
Proven(S, rep, lg, n) ==
    \A x \in S : x.finalized # 0 \/ (rep # {} /\ x \in Eldest(S)) => NamedIn(x, lg, n)

Retirement ==
    /\ IsFiniteSet(sessions) /\ Succeeds(sessions)
    /\ reporters # {} => Waiting(sessions) # {}
    /\ Unsplit(sessions) => AllCover(log, queue, sessions)
    /\ Unsplit(sessions) /\ Plain(log, commit) => Proven(sessions, reporters, log, commit)

\* The oldest of a finite set are those with none before them.
LEMMA OldestIs ==
  ASSUME NEW ids, IsFiniteSet(ids)
  PROVE  Oldest(ids, 1) = {x \in ids : \A y \in ids : ~Before(y, x)}
<1>1. ASSUME NEW x \in ids
      PROVE  Cardinality({y \in ids : Before(y, x)}) < 1 <=> \A y \in ids : ~Before(y, x)
  <2>1. PICK B : B = {y \in ids : Before(y, x)}
    OBVIOUS
  <2>2. IsFiniteSet(B)
    BY <2>1, FS_Subset
  <2>3. Cardinality(B) \in Nat /\ (Cardinality(B) = 0 <=> B = {})
    BY <2>2, FS_CardinalityType, FS_EmptySet
  <2>4. Cardinality(B) < 1 <=> B = {}
    BY <2>3
  <2>5. B = {} <=> \A y \in ids : ~Before(y, x)
    BY <2>1
  <2> QED BY <2>1, <2>4, <2>5
<1> QED BY <1>1 DEF Oldest

\* Those that ended and are not finalized.
LEMMA EndedNow ==
  ASSUME IInv, Retirement
  PROVE  ended_sessions(meta) = Waiting(sessions) /\ Oldest(ended_sessions(meta), 1) = Eldest(sessions)
<1>1. ASSUME NEW x \in sessions
      PROVE  (x.ended # 0 /\ x.ended <= meta /\ (x.finalized = 0 \/ x.finalized > meta))
               <=> (x.ended # 0 /\ x.finalized = 0)
  <2>1. x.finalized \in Nat /\ x.ended \in Nat /\ meta \in Nat /\ Dated(x, meta)
    BY DEF IInv, Types, Session, SessionsOk
  <2> QED BY <2>1 DEF Dated
<1>2. ended_sessions(meta) = Waiting(sessions)
  BY <1>1 DEF ended_sessions, Waiting
<1>3. IsFiniteSet(Waiting(sessions))
  BY FS_Subset DEF Retirement, Waiting
<1> QED BY <1>2, <1>3, OldestIs DEF Eldest

\* An op that ended one of the sessions known at m ended one of each client at most.
LEMMA OnePerClient ==
  ASSUME IInv, Retirement, NEW m \in Nat, NEW x \in ended_sessions(m), NEW y \in ended_sessions(m),
         x.client = y.client
  PROVE  x = y
<1>1. x \in sessions /\ y \in sessions /\ x.ended <= m /\ y.ended <= m
      /\ (x.finalized = 0 \/ x.finalized > m) /\ (y.finalized = 0 \/ y.finalized > m)
      /\ x.ended # 0 /\ y.ended # 0
  BY DEF ended_sessions
<1>2. {x.session, x.ended, x.finalized, y.session, y.ended, y.finalized} \subseteq Nat
  BY <1>1 DEF IInv, Types, Session
<1>3. x.session < x.ended /\ y.session < y.ended
  BY <1>1 DEF IInv, SessionsOk, Dated
<1>4. ~(x.session < y.session)
  BY <1>1, <1>2, <1>3 DEF Retirement, Succeeds
<1>5. ~(y.session < x.session)
  BY <1>1, <1>2, <1>3 DEF Retirement, Succeeds
<1>6. x.session = y.session
  BY <1>2, <1>4, <1>5
<1> QED BY <1>1, <1>6 DEF IInv, SessionsOk

\* So fewer sessions than clients come before one of them.
LEMMA FewBefore ==
  ASSUME IInv, Retirement, NEW m \in Nat, NEW x \in ended_sessions(m)
  PROVE  Cardinality({z \in ended_sessions(m) : Before(z, x)}) < Cardinality(Clients)
<1>1. PICK B : B = {z \in ended_sessions(m) : Before(z, x)}
  OBVIOUS
<1>2. PICK D : D = Clients \ {x.client}
  OBVIOUS
<1>3. ended_sessions(m) \subseteq sessions /\ sessions \subseteq Session /\ x \in Session
  BY DEF ended_sessions, IInv, Types
<1>4. IsFiniteSet(B) /\ IsFiniteSet(Clients) /\ x.client \in Clients /\ Cardinality(Clients) \in Nat
  <2>1. IsFiniteSet(sessions) /\ B \subseteq sessions
    BY <1>1, <1>3 DEF Retirement
  <2> QED BY <1>3, <2>1, FS_Subset, SizesAssumption, FS_CardinalityType DEF Session
<1>5. IsFiniteSet(D) /\ Cardinality(D) = Cardinality(Clients) - 1
  BY <1>2, <1>4, FS_RemoveElement
<1>6. PICK g : g = [z \in B |-> z.client]
  OBVIOUS
<1>7. ~Before(x, x)
  <2>1. x.ended \in Nat /\ x.client \in Nat
    BY <1>3, SizesAssumption DEF Session
  <2> QED BY <2>1 DEF Before
<1>8. \A z \in B : z.client \in D
  <2> TAKE z \in B
  <2>1. z \in ended_sessions(m) /\ Before(z, x) /\ z.client \in Clients
    BY <1>1, <1>3 DEF Session
  <2>2. z.client # x.client
    BY <1>7, <2>1, OnePerClient
  <2> QED BY <1>2, <2>1, <2>2
<1>9. g \in Injection(B, D)
  <2>1. g \in [B -> D]
    BY <1>6, <1>8
  <2>2. \A a, b \in B : g[a] = g[b] => a = b
    <3> SUFFICES ASSUME NEW a \in B, NEW b \in B, g[a] = g[b] PROVE a = b
      OBVIOUS
    <3>1. a.client = b.client /\ a \in ended_sessions(m) /\ b \in ended_sessions(m)
      BY <1>1, <1>6
    <3> QED BY <3>1, OnePerClient
  <2> QED BY <2>1, <2>2 DEF Injection, IsInjective
<1>10. Cardinality(B) <= Cardinality(D)
  BY <1>4, <1>5, <1>9, FS_Injection
<1>11. Cardinality(B) \in Nat
  BY <1>4, FS_CardinalityType
<1>12. Cardinality(B) < Cardinality(Clients)
  BY <1>4, <1>5, <1>10, <1>11
<1> QED BY <1>1, <1>12

\* A barrier that the sweep makes covers what it names.
LEMMA BatchCovers ==
  ASSUME IInv, Retirement, Unsplit(sessions), NEW m \in Nat, NEW op, op.kind = "retire",
         op.ids = {[client |-> x.client, session |-> x.session, ended |-> x.ended] :
                     x \in Oldest(ended_sessions(m), MAX_SESSIONS_PER_RETIREMENT)}
  PROVE  Covers(op, sessions)
<1>1. PICK E : E = ended_sessions(m)
  OBVIOUS
<1>2. PICK batch : batch = Oldest(E, MAX_SESSIONS_PER_RETIREMENT)
  OBVIOUS
<1> SUFFICES ASSUME NEW i \in op.ids, NEW x \in sessions, x.ended # 0, x.ended <= i.ended, x.finalized = 0
             PROVE  NamesSession(op, x.client, x.session)
  BY DEF Covers
<1>3. PICK y \in batch : i.ended = y.ended
  BY <1>1, <1>2
<1>4. y \in E /\ y \in sessions /\ y.ended <= m /\ y.ended # 0
  BY <1>1, <1>2, <1>3 DEF Oldest, ended_sessions
<1>5. x \in Session /\ y \in Session /\ x.ended \in Nat /\ y.ended \in Nat /\ x.client \in Nat /\ y.client \in Nat
      /\ E \subseteq Session /\ E \subseteq sessions
  <2>1. sessions \subseteq Session /\ E \subseteq sessions
    BY <1>1 DEF IInv, Types, ended_sessions
  <2>2. x.client \in Clients /\ y.client \in Clients /\ x.ended \in Nat /\ y.ended \in Nat
    BY <1>4, <2>1 DEF Session
  <2> QED BY <1>4, <2>1, <2>2, SizesAssumption
<1>6. x \in E
  BY <1>1, <1>3, <1>4, <1>5 DEF ended_sessions
<1>7. IsFiniteSet(E)
  BY <1>5, FS_Subset DEF Retirement
<1>8. PICK Bx, By : Bx = {z \in E : Before(z, x)} /\ By = {z \in E : Before(z, y)}
  OBVIOUS
<1>9. IsFiniteSet(Bx) /\ IsFiniteSet(By) /\ Cardinality(Bx) \in Nat /\ Cardinality(By) \in Nat
      /\ MAX_SESSIONS_PER_RETIREMENT \in Nat /\ Cardinality(Clients) \in Nat
  BY <1>7, <1>8, FS_Subset, FS_CardinalityType, SizesAssumption
<1>10. Cardinality(By) < MAX_SESSIONS_PER_RETIREMENT
  BY <1>2, <1>3, <1>8 DEF Oldest
<1>11. Cardinality(Bx) < MAX_SESSIONS_PER_RETIREMENT
  <2>1. CASE x.ended < y.ended \/ x.client <= y.client
    <3>1. Bx \subseteq By
      <4> SUFFICES ASSUME NEW z \in E, Before(z, x) PROVE Before(z, y)
        BY <1>8
      <4>1. z.ended \in Nat /\ z.client \in Nat
        BY <1>5, SizesAssumption DEF Session
      <4> QED BY <1>3, <1>5, <2>1, <4>1 DEF Before
    <3>2. Cardinality(Bx) <= Cardinality(By)
      BY <1>9, <3>1, FS_Subset
    <3> QED BY <1>9, <1>10, <3>2
  <2>2. CASE x.ended = y.ended /\ MAX_SESSIONS_PER_RETIREMENT >= Cardinality(Clients)
    <3>1. Cardinality(Bx) < Cardinality(Clients)
      BY <1>1, <1>6, <1>8, FewBefore
    <3> QED BY <1>9, <2>2, <3>1
  <2>3. CASE x.ended = y.ended /\ x = y
    BY <1>8, <1>10, <2>3
  <2>4. x.ended < y.ended \/ x.ended = y.ended
    BY <1>3, <1>5
  <2> QED BY <1>4, <2>1, <2>2, <2>3, <2>4 DEF Unsplit
<1>12. x \in batch
  BY <1>2, <1>6, <1>8, <1>11 DEF Oldest
<1>13. PICK k : k = [client |-> x.client, session |-> x.session, ended |-> x.ended]
  OBVIOUS
<1>14. k \in op.ids
  BY <1>1, <1>2, <1>12, <1>13
<1> QED BY <1>13, <1>14 DEF NamesSession

\* What a log retired does not come back.
LEMMA GoneForGood ==
  ASSUME NEW lg, NEW T, NEW F, RunOk(lg, T, F), NEW c \in Clients, NEW s \in Nat \ {0},
         NEW j \in 1..Len(lg), NamesSession(lg[j], c, s), NEW n \in j..Len(lg), T[n][c].epoch = s
  PROVE  FALSE
<1>1. lg \in Seq(OpRecord) /\ T \in [Nat -> Tables]
  BY DEF RunOk, Starts
<1>2. Len(lg) \in Nat /\ j \in Nat /\ n \in Nat
  BY <1>1
<1>3. PICK K : K = {i \in j..n : T[i][c].epoch = s}
  OBVIOUS
<1>4. K \subseteq Nat /\ n \in K
  BY <1>2, <1>3
<1>5. PICK k \in K : \A i \in K : k <= i
  BY <1>4, LeastNat
<1>6. k \in Nat /\ k \in 1..Len(lg) /\ j <= k /\ k <= n /\ k - 1 \in Nat /\ T[k][c].epoch = s
  BY <1>2, <1>3, <1>5
<1>7. PICK t, op : t = T[k - 1] /\ op = lg[k]
  OBVIOUS
<1>8. t \in Tables /\ OpOk(op) /\ T[k] = After(t, op, k)
  BY <1>1, <1>6, <1>7 DEF RunOk, Starts, Follows
<1>9. ~IsWrite(op, c)
  <2> SUFFICES ASSUME IsWrite(op, c) PROVE FALSE
    OBVIOUS
  <2>1. op.kind = "write" /\ op.client = c
    BY DEF IsWrite
  <2>2. k \in 0..Len(lg) /\ k \in 1..k /\ \A i \in (k + 1)..k : FALSE
    BY <1>6
  <2>3. T[k][c].epoch = op.session
    BY <1>6, <1>7, <2>1, <2>2 DEF RunOk, Remembered
  <2>4. \A i \in 1..(k - 1) : ~NamesSession(lg[i], c, s)
    BY <1>6, <1>7, <2>1, <2>3 DEF RunOk, Admitted, Fits
  <2>5. j # k
    BY <1>7, <2>1 DEF NamesSession
  <2>6. j \in 1..(k - 1)
    BY <1>2, <1>6, <2>5
  <2> QED BY <2>4, <2>6
<1>10. None.epoch = 0 /\ s # 0
  BY DEF None
<1>11. T[k][c] = None \/ (T[k][c] = t[c] /\ ~NamesSession(op, c, t[c].epoch))
  <2>1. CASE NamesSession(op, c, t[c].epoch)
    <3>1. op.kind = "retire"
      BY <2>1 DEF NamesSession
    <3> QED BY <1>8, <2>1, <3>1, AfterOp
  <2>2. CASE ~NamesSession(op, c, t[c].epoch)
    BY <1>8, <1>9, <2>2, AfterOp
  <2> QED BY <2>1, <2>2
<1>12. t[c].epoch = s /\ ~NamesSession(op, c, s)
  BY <1>6, <1>10, <1>11
<1>13. j # k
  BY <1>7, <1>12
<1>14. k - 1 \in K /\ k - 1 < k
  BY <1>2, <1>3, <1>6, <1>7, <1>12, <1>13
<1> QED BY <1>5, <1>6, <1>14

\* A step that leaves the sessions and what is committed alone keeps the retirement, when
\* the barriers it adds cover what they name.
LEMMA LogRetires ==
  ASSUME IInv, Retirement, UNCHANGED <<sessions, reporters>>, commit' \in Nat, commit <= commit',
         \A i \in 1..commit : log'[i] = log[i],
         Unsplit(sessions) => \A op \in OpsOf(log', queue') : op \in OpsOf(log, queue) \/ Covers(op, sessions)
  PROVE  Retirement'
<1>1. commit \in Nat /\ \A i \in 1..commit : i \in 1..commit'
  BY DEF IInv, Types
<1>2. Plain(log', commit') => Plain(log, commit)
  BY <1>1 DEF Plain
<1>3. \A x : NamedIn(x, log, commit) => NamedIn(x, log', commit')
  BY <1>1 DEF NamedIn
<1>4. Unsplit(sessions) => AllCover(log', queue', sessions)
  BY DEF Retirement, AllCover
<1>5. Unsplit(sessions) /\ Plain(log', commit') => Proven(sessions, reporters, log', commit')
  BY <1>2, <1>3 DEF Retirement, Proven
<1> QED BY <1>4, <1>5 DEF Retirement

\* The ops of a longer sequence.
LEMMA OpsAppended ==
  ASSUME NEW q \in Seq(OpRecord), NEW op \in OpRecord, NEW i \in 1..Len(Append(q, op))
  PROVE  Append(q, op)[i] = op \/ (i \in 1..Len(q) /\ Append(q, op)[i] = q[i])
<1>1. Len(Append(q, op)) = Len(q) + 1 /\ Len(q) \in Nat
  OBVIOUS
<1>2. i \in 1..Len(q) \/ i = Len(q) + 1
  BY <1>1
<1> QED BY <1>1, <1>2

\* An op that is admitted.
LEMMA AdmitRetires ==
  ASSUME IInv, Retirement, NEW op \in OpRecord, Unsplit(sessions) => Covers(op, sessions), Admit(op)
  PROVE  Retirement'
<1>1. UNCHANGED <<sessions, reporters, commit>>
  BY DEF Admit, metadata
<1>2. commit \in Nat /\ commit <= Len(log) /\ log \in Seq(OpRecord) /\ queue \in Seq(OpRecord) /\ Len(log) \in Nat
  BY DEF IInv, Types
<1>3. CASE queue' = Append(queue, op) /\ UNCHANGED log
  <2>1. \A o \in OpsOf(log', queue') : o \in OpsOf(log, queue) \/ o = op
    BY <1>2, <1>3, OpsAppended DEF OpsOf
  <2> QED BY <1>1, <1>2, <1>3, <2>1, LogRetires
<1>4. CASE log' = Append(log, op) /\ UNCHANGED queue
  <2>1. \A o \in OpsOf(log', queue') : o \in OpsOf(log, queue) \/ o = op
    BY <1>2, <1>4, OpsAppended DEF OpsOf
  <2>2. \A i \in 1..commit : log'[i] = log[i]
    BY <1>2, <1>4
  <2> QED BY <1>1, <1>2, <2>1, <2>2, LogRetires
<1> QED BY <1>3, <1>4 DEF Admit

\* The requests.
LEMMA RequestRetires == ASSUME IInv, Retirement, on_request PROVE Retirement'
<1>1. ASSUME NEW x \in sessions, NEW q \in 1..MaxRequest, NEW w \in 1..meta, on_write(x, q, w)
      PROVE  Retirement'
  <2>1. PICK op : op = Op("write", x.client, x.session, q, w, {})
    OBVIOUS
  <2>2. Admit(op) /\ op.kind = "write"
    BY <1>1, <2>1 DEF on_write, Op
  <2>3. op \in OpRecord
    <3>1. meta \in Nat /\ x \in Session /\ w \in Nat /\ q \in Nat
      BY SizesAssumption DEF IInv, Types
    <3> QED BY <2>1, <3>1 DEF Op, OpRecord, Session
  <2> QED BY <2>2, <2>3, AdmitRetires DEF Covers
<1>2. ASSUME NEW m \in 1..meta, install_owner(m) PROVE Retirement'
  <2>1. PICK op : op = Op("install", 0, 0, 0, m, {})
    OBVIOUS
  <2>2. Admit(op) /\ op.kind = "install"
    BY <1>2, <2>1 DEF install_owner, Op
  <2>3. op \in OpRecord
    <3>1. m \in Nat
      BY DEF IInv, Types
    <3> QED BY <2>1, <3>1 DEF Op, OpRecord
  <2> QED BY <2>2, <2>3, AdmitRetires DEF Covers
<1>3. ASSUME NEW m \in 1..meta, retire_session(m) PROVE Retirement'
  <2>1. PICK ids : ids = {[client |-> x.client, session |-> x.session, ended |-> x.ended] :
                            x \in Oldest(ended_sessions(m), MAX_SESSIONS_PER_RETIREMENT)}
    OBVIOUS
  <2>2. PICK op : op = Op("retire", 0, 0, 0, m, ids)
    OBVIOUS
  <2>3. op.kind = "retire" /\ op.ids = ids /\ Admit(op) /\ m \in Nat
    BY <1>3, <2>1, <2>2 DEF retire_session, Op, IInv, Types
  <2>4. op \in OpRecord
    <3>1. \A x \in Oldest(ended_sessions(m), MAX_SESSIONS_PER_RETIREMENT) : x \in Session
      BY DEF IInv, Types, Oldest, ended_sessions
    <3>2. ids \subseteq Identity
      BY <2>1, <3>1 DEF Identity, Session
    <3> QED BY <2>2, <2>3, <3>2 DEF Op, OpRecord
  <2>5. Unsplit(sessions) => Covers(op, sessions)
    BY <2>1, <2>3, BatchCovers
  <2> QED BY <2>3, <2>4, <2>5, AdmitRetires
<1> QED BY <1>1, <1>2, <1>3 DEF on_request

\* The steps of the partition.
LEMMA PartitionRetires ==
  ASSUME IInv, Retirement,
         \/ drain_request_queue_into_prepares \/ advance_commit_max
         \/ \E r \in Replicas : \/ start_view(r) \/ publish_pending_commit(r)
                                \/ \E s \in Replicas : publish_installed_state(r, s)
  PROVE  Retirement'
<1>1. commit \in Nat /\ commit <= Len(log) /\ log \in Seq(OpRecord) /\ queue \in Seq(OpRecord) /\ Len(log) \in Nat
  BY DEF IInv, Types
<1>2. CASE drain_request_queue_into_prepares
  <2>1. UNCHANGED <<sessions, reporters, commit>> /\ queue # <<>> /\ queue' = Tail(queue)
    BY <1>2 DEF drain_request_queue_into_prepares, metadata
  <2>2. PICK h, t : h = Head(queue) /\ t = Tail(queue)
    OBVIOUS
  <2>3. h \in OpRecord /\ t \in Seq(OpRecord) /\ Len(queue) \in Nat /\ Len(t) = Len(queue) - 1 /\ Len(queue) > 0
        /\ h = queue[1] /\ \A i \in 1..Len(t) : t[i] = queue[i + 1]
    <3>1. h \in OpRecord /\ t \in Seq(OpRecord)
      BY <1>1, <2>1, <2>2, HeadTailProperties
    <3> QED BY <1>1, <2>1, <2>2, <3>1
  <2>4. \A i \in 1..Len(t) : i + 1 \in 1..Len(queue)
    BY <2>3
  <2>5. 1 \in 1..Len(queue)
    BY <2>3
  <2>6. h \in OpsOf(log, queue) /\ \A i \in 1..Len(t) : t[i] \in OpsOf(log, queue)
    BY <2>3, <2>4, <2>5 DEF OpsOf
  <2>7. CASE UNCHANGED log
    <3>1. \A o \in OpsOf(log', queue') : o \in OpsOf(log, queue)
      BY <2>1, <2>2, <2>6, <2>7 DEF OpsOf
    <3> QED BY <1>1, <2>1, <2>7, <3>1, LogRetires
  <2>8. CASE log' = Append(log, h)
    <3>1. \A o \in OpsOf(log', queue') : o \in OpsOf(log, queue)
      BY <1>1, <2>1, <2>2, <2>3, <2>6, <2>8, OpsAppended DEF OpsOf
    <3>2. \A i \in 1..commit : log'[i] = log[i]
      BY <1>1, <2>3, <2>8
    <3> QED BY <1>1, <2>1, <3>1, <3>2, LogRetires
  <2> QED BY <1>2, <2>2, <2>7, <2>8 DEF drain_request_queue_into_prepares
<1>3. CASE advance_commit_max
  <2>1. UNCHANGED <<sessions, reporters, log, queue>> /\ commit' \in (commit + 1)..Len(log)
    BY <1>3 DEF advance_commit_max, metadata
  <2>2. commit' \in Nat /\ commit <= commit'
    BY <1>1, <2>1
  <2> QED BY <2>1, <2>2, LogRetires
<1>4. ASSUME NEW r \in Replicas, start_view(r) PROVE Retirement'
  <2>1. UNCHANGED <<sessions, reporters, commit>> /\ queue' = <<>>
    BY <1>4 DEF start_view, metadata
  <2>2. PICK n \in commit..Len(log) : log' = SubSeq(log, 1, n)
    BY <1>4 DEF start_view
  <2>3. n \in Nat /\ Len(log') = n /\ \A i \in 1..n : log'[i] = log[i] /\ i \in 1..Len(log)
    BY <1>1, <2>2
  <2>4. \A i \in 1..commit : i \in 1..n
    BY <1>1, <2>2
  <2>5. \A o \in OpsOf(log', queue') : o \in OpsOf(log, queue)
    <3>1. Len(<<>>) = 0
      OBVIOUS
    <3> QED BY <2>1, <2>3, <3>1 DEF OpsOf
  <2> QED BY <1>1, <2>1, <2>3, <2>4, <2>5, LogRetires
<1>5. ASSUME UNCHANGED <<sessions, reporters, log, queue, commit>> PROVE Retirement'
  BY <1>5 DEF Retirement
<1>6. ASSUME NEW r \in Replicas, publish_pending_commit(r) PROVE Retirement'
  BY <1>5, <1>6 DEF publish_pending_commit, metadata, consensus
<1>7. ASSUME NEW r \in Replicas, NEW s \in Replicas, publish_installed_state(r, s) PROVE Retirement'
  BY <1>5, <1>7 DEF publish_installed_state, metadata, consensus
<1> QED BY <1>2, <1>3, <1>4, <1>6, <1>7

\* A barrier names no session that ended after what the metadata group applied.
LEMMA NamedEarlier ==
  ASSUME IInv, NEW op \in OpsOf(log, queue), NEW y \in op.ids
  PROVE  y.ended \in Nat /\ y.ended <= meta
<1>1. Suits(op, sessions, meta)
  BY DEF OpsOf, IInv, AllSuit
<1>2. PICK z \in sessions : z.ended = y.ended
  BY <1>1 DEF Suits, EndedIn
<1> QED BY <1>2 DEF IInv, Types, Session, SessionsOk, Dated

\* What becomes of the sessions when some end or one is finalized.
GoesOn(h) ==
    \A u \in sessions :
        /\ h[u].client = u.client /\ h[u].session = u.session
        /\ h[u].ended = u.ended \/ (u.ended = 0 /\ h[u].ended = meta + 1)
        /\ h[u].finalized = u.finalized \/ (u.finalized = 0 /\ h[u].finalized = meta + 1)

\* The sessions still follow one another and the barriers cover what they name.
LEMMA GoingOn ==
  ASSUME IInv, Retirement, NEW h, GoesOn(h), sessions' = {h[u] : u \in sessions}, UNCHANGED <<log, queue>>
  PROVE  /\ IsFiniteSet(sessions)' /\ Succeeds(sessions')
         /\ Unsplit(sessions') => Unsplit(sessions) /\ AllCover(log', queue', sessions')
<1>1. sessions \subseteq Session /\ meta \in Nat /\ (\A u \in sessions : Dated(u, meta))
      /\ \A u, v \in sessions : u.session = v.session => u = v
  BY DEF IInv, Types, SessionsOk
<1>2. IsFiniteSet(sessions')
  <2>1. PICK f : f = [u \in sessions |-> h[u]]
    OBVIOUS
  <2>2. f \in Surjection(sessions, sessions')
    BY <2>1 DEF Surjection
  <2> QED BY <2>2, FS_Surjection DEF Retirement
<1>3. Succeeds(sessions')
  <2> SUFFICES ASSUME NEW x \in sessions', NEW y \in sessions', x.client = y.client, x.session < y.session
               PROVE  x.finalized # 0 /\ x.finalized < y.session
    BY DEF Succeeds
  <2>1. PICK u \in sessions : x = h[u]
    OBVIOUS
  <2>2. PICK v \in sessions : y = h[v]
    OBVIOUS
  <2>3. u.client = v.client /\ u.session < v.session /\ y.session = v.session
    BY <2>1, <2>2 DEF GoesOn
  <2>4. u.finalized # 0 /\ u.finalized < v.session
    BY <2>3 DEF Retirement, Succeeds
  <2>5. x.finalized = u.finalized
    BY <2>1, <2>4 DEF GoesOn
  <2> QED BY <2>3, <2>4, <2>5
<1>4. ASSUME Unsplit(sessions') PROVE Unsplit(sessions)
  <2> SUFFICES ASSUME NEW u \in sessions, NEW v \in sessions, u.ended # 0, u.ended = v.ended,
                      \A x, y \in sessions' : x.ended # 0 /\ x.ended = y.ended => x = y
               PROVE  u = v
    BY <1>4 DEF Unsplit
  <2>1. h[u].ended = u.ended /\ h[v].ended = v.ended /\ h[u].session = u.session /\ h[v].session = v.session
    BY DEF GoesOn
  <2>2. h[u] = h[v]
    BY <2>1
  <2> QED BY <1>1, <2>1, <2>2
<1>5. ASSUME Unsplit(sessions') PROVE AllCover(log', queue', sessions')
  <2> SUFFICES ASSUME NEW op \in OpsOf(log, queue), op.kind = "retire", NEW y \in op.ids, NEW x \in sessions',
                      x.ended # 0, x.ended <= y.ended
               PROVE  x.finalized # 0 \/ NamesSession(op, x.client, x.session)
    BY DEF AllCover, Covers
  <2>1. PICK u \in sessions : x = h[u]
    OBVIOUS
  <2>2. y.ended \in Nat /\ y.ended <= meta
    BY NamedEarlier
  <2>3. x.ended = u.ended /\ x.client = u.client /\ x.session = u.session
    BY <1>1, <2>1, <2>2 DEF GoesOn
  <2>4. u.finalized # 0 \/ NamesSession(op, u.client, u.session)
    BY <1>4, <1>5, <2>3 DEF Retirement, AllCover, Covers
  <2>5. u.finalized # 0 => x.finalized = u.finalized
    BY <2>1 DEF GoesOn
  <2> QED BY <2>3, <2>4, <2>5
<1> QED BY <1>2, <1>3, <1>4, <1>5

\* A session opens.
LEMMA RegisterRetires == ASSUME IInv, Retirement, NEW c \in Clients, register(c) PROVE Retirement'
<1>1. PICK z : z = [client |-> c, session |-> meta + 1, ended |-> 0, finalized |-> 0]
  OBVIOUS
<1>2. sessions' = sessions \cup {z} /\ UNCHANGED <<reporters, log, queue, commit>>
      /\ \A x \in sessions : x.client = c => x.finalized # 0
  BY <1>1 DEF register, MetaStep, consensus
<1>3. z.client = c /\ z.session = meta + 1 /\ z.ended = 0 /\ z.finalized = 0
  BY <1>1
<1>4. meta \in Nat /\ sessions \subseteq Session /\ \A x \in sessions : Dated(x, meta)
  BY DEF IInv, Types, SessionsOk
<1>5. IsFiniteSet(sessions')
  BY <1>2, FS_AddElement DEF Retirement
<1>6. Succeeds(sessions')
  <2> SUFFICES ASSUME NEW x \in sessions', NEW y \in sessions', x.client = y.client, x.session < y.session
               PROVE  x.finalized # 0 /\ x.finalized < y.session
    BY DEF Succeeds
  <2>1. CASE x \in sessions /\ y \in sessions
    BY <2>1 DEF Retirement, Succeeds
  <2>2. CASE x \in sessions /\ y = z
    <3>1. x.finalized # 0 /\ x.finalized \in Nat /\ x.finalized <= meta
      BY <1>2, <1>3, <1>4, <2>2 DEF Dated, Session
    <3> QED BY <1>3, <1>4, <2>2, <3>1
  <2>3. CASE x = z /\ y \in sessions
    <3>1. y.session \in Nat /\ y.session <= meta
      BY <1>4, <2>3 DEF Dated, Session
    <3> QED BY <1>3, <1>4, <2>3, <3>1
  <2>4. CASE x = z /\ y = z
    BY <1>3, <1>4, <2>4
  <2> QED BY <1>2, <2>1, <2>2, <2>3, <2>4
<1>7. Waiting(sessions') = Waiting(sessions) /\ Eldest(sessions') = Eldest(sessions)
  <2>1. Waiting(sessions') = Waiting(sessions)
    BY <1>2, <1>3 DEF Waiting
  <2> QED BY <2>1 DEF Eldest
<1>8. Unsplit(sessions') => Unsplit(sessions)
  BY <1>2 DEF Unsplit
<1>9. Unsplit(sessions') => AllCover(log', queue', sessions')
  BY <1>2, <1>3, <1>8 DEF Retirement, AllCover, Covers
<1>10. Unsplit(sessions') /\ Plain(log', commit') => Proven(sessions', reporters', log', commit')
  <2> SUFFICES ASSUME Unsplit(sessions'), Plain(log', commit') PROVE Proven(sessions', reporters', log', commit')
    OBVIOUS
  <2>1. Proven(sessions, reporters, log, commit)
    BY <1>2, <1>8 DEF Retirement
  <2>2. z \notin Eldest(sessions')
    BY <1>3 DEF Eldest, Waiting
  <2> QED BY <1>2, <1>3, <1>7, <2>1, <2>2 DEF Proven
<1> QED BY <1>2, <1>5, <1>6, <1>7, <1>9, <1>10 DEF Retirement

\* Sessions end: later than those that already wait.
LEMMA EndRetires == ASSUME IInv, Retirement, NEW cs, end_sessions(cs) PROVE Retirement'
<1>1. PICK live : live = {x \in sessions : x.ended = 0 /\ x.client \in cs}
  OBVIOUS
<1>2. sessions' = (sessions \ live) \cup {[x EXCEPT !.ended = meta + 1] : x \in live}
      /\ UNCHANGED <<reporters, log, queue, commit>>
  BY <1>1 DEF end_sessions, MetaStep, consensus
<1>3. PICK h : h = [u \in sessions |-> IF u \in live THEN [u EXCEPT !.ended = meta + 1] ELSE u]
  OBVIOUS
<1>4. sessions' = {h[u] : u \in sessions}
  BY <1>1, <1>2, <1>3
<1>5. meta \in Nat /\ sessions \subseteq Session /\ \A x \in sessions : Dated(x, meta)
  BY DEF IInv, Types, SessionsOk
<1>6. \A u \in sessions : /\ h[u].client = u.client /\ h[u].session = u.session /\ h[u].finalized = u.finalized
                          /\ (h[u] = u \/ (u.ended = 0 /\ h[u].ended = meta + 1))
  BY <1>1, <1>3, <1>5 DEF Session
<1>7. GoesOn(h)
  BY <1>6 DEF GoesOn
<1>8. /\ IsFiniteSet(sessions') /\ Succeeds(sessions')
      /\ Unsplit(sessions') => Unsplit(sessions) /\ AllCover(log', queue', sessions')
  BY <1>2, <1>4, <1>7, GoingOn
<1>9. Waiting(sessions) \subseteq Waiting(sessions')
  <2> SUFFICES ASSUME NEW u \in sessions, u.ended # 0, u.finalized = 0 PROVE u \in Waiting(sessions')
    BY DEF Waiting
  <2>1. h[u] = u /\ u \in sessions'
    BY <1>4, <1>6
  <2> QED BY <2>1 DEF Waiting
<1>10. Unsplit(sessions') /\ Plain(log', commit') => Proven(sessions', reporters', log', commit')
  <2> SUFFICES ASSUME Unsplit(sessions'), Plain(log', commit'), NEW x \in sessions',
                      x.finalized # 0 \/ (reporters # {} /\ x \in Eldest(sessions'))
               PROVE  NamedIn(x, log, commit)
    BY <1>2 DEF Proven
  <2>1. Proven(sessions, reporters, log, commit)
    BY <1>2, <1>8 DEF Retirement
  <2>2. PICK u \in sessions : x = h[u]
    BY <1>4
  <2>3. CASE x.finalized # 0
    <3>1. NamedIn(u, log, commit)
      BY <1>6, <2>1, <2>2, <2>3 DEF Proven
    <3> QED BY <1>6, <2>2, <3>1 DEF NamedIn
  <2>4. CASE reporters # {} /\ x \in Eldest(sessions')
    <3>1. PICK y \in Waiting(sessions) : TRUE
      BY <2>4 DEF Retirement
    <3>2. y \in Waiting(sessions') /\ y.ended \in Nat /\ y.ended <= meta
      BY <1>5, <1>9, <3>1 DEF Waiting, Session, Dated
    <3>3. ~Before(y, x)
      BY <2>4, <3>2 DEF Eldest
    <3>4. x.ended # meta + 1
      BY <1>5, <3>2, <3>3 DEF Before
    <3>5. x = u
      BY <1>6, <2>2, <3>4
    <3>6. x \in Eldest(sessions)
      BY <1>9, <2>4, <3>5 DEF Eldest, Waiting
    <3> QED BY <2>1, <2>4, <3>5, <3>6 DEF Proven
  <2> QED BY <2>3, <2>4
<1>11. reporters' # {} => Waiting(sessions') # {}
  BY <1>2, <1>9 DEF Retirement
<1> QED BY <1>8, <1>10, <1>11 DEF Retirement

\* The next session is finalized: it was reported.
LEMMA FinalizeRetires == ASSUME IInv, Retirement, submit_session_finalization PROVE Retirement'
<1>1. UNCHANGED <<log, queue, commit>> /\ reporters' = {}
  BY DEF submit_session_finalization, MetaStep, consensus
<1>2. PICK x \in Oldest(ended_sessions(meta), 1) :
         sessions' = (sessions \ {x}) \cup {[x EXCEPT !.finalized = meta + 1]}
  BY DEF submit_session_finalization
<1>3. x \in Eldest(sessions) /\ x \in sessions /\ x.finalized = 0
  BY <1>2, EndedNow DEF Eldest, Waiting
<1>4. reporters # {}
  BY FS_EmptySet, SizesAssumption DEF submit_session_finalization, remote_quorum
<1>5. PICK h : h = [u \in sessions |-> IF u = x THEN [x EXCEPT !.finalized = meta + 1] ELSE u]
  OBVIOUS
<1>6. sessions' = {h[u] : u \in sessions}
  BY <1>2, <1>3, <1>5
<1>7. meta \in Nat /\ sessions \subseteq Session
  BY DEF IInv, Types
<1>8. \A u \in sessions : /\ h[u].client = u.client /\ h[u].session = u.session /\ h[u].ended = u.ended
                          /\ (h[u] = u \/ (u = x /\ h[u].finalized = meta + 1))
  BY <1>3, <1>5, <1>7 DEF Session
<1>9. GoesOn(h)
  BY <1>3, <1>8 DEF GoesOn
<1>10. /\ IsFiniteSet(sessions') /\ Succeeds(sessions')
       /\ Unsplit(sessions') => Unsplit(sessions) /\ AllCover(log', queue', sessions')
  BY <1>1, <1>6, <1>9, GoingOn
<1>11. Unsplit(sessions') /\ Plain(log', commit') => Proven(sessions', reporters', log', commit')
  <2> SUFFICES ASSUME Unsplit(sessions'), Plain(log', commit'), NEW y \in sessions', y.finalized # 0
               PROVE  NamedIn(y, log, commit)
    BY <1>1 DEF Proven
  <2>1. Proven(sessions, reporters, log, commit)
    BY <1>1, <1>10 DEF Retirement
  <2>2. PICK u \in sessions : y = h[u]
    BY <1>6
  <2>3. u.finalized # 0 \/ u = x
    BY <1>8, <2>2
  <2>4. NamedIn(u, log, commit)
    BY <1>3, <1>4, <2>1, <2>3 DEF Proven
  <2> QED BY <1>8, <2>2, <2>4 DEF NamedIn
<1> QED BY <1>1, <1>10, <1>11 DEF Retirement

\* A node reports: the frontier it looks at was raised by a barrier that covers the session.
LEMMA ReportRetires == ASSUME IInv, Retirement, NEW r \in Replicas, report(r) PROVE Retirement'
<1>1. UNCHANGED <<meta, sessions, log, queue, commit>>
  BY DEF report, consensus
<1>2. PICK x \in Eldest(sessions) : session_retired(r, x)
  BY EndedNow DEF report
<1>3. x \in sessions /\ x.ended # 0 /\ x.finalized = 0 /\ x \in Waiting(sessions)
  BY <1>2 DEF Eldest, Waiting
<1>4. meta \in Nat /\ sessions \subseteq Session /\ x.ended \in Nat
  BY <1>3 DEF IInv, Types, Session
<1>5. ASSUME Unsplit(sessions), Plain(log, commit) PROVE NamedIn(x, log, commit)
  <2>1. PICK T, F : RunOk(log, T, F) /\ frontier[r] = F[applied[r]]
    BY DEF IInv, TablesOk, Consistent
  <2>2. PICK k, f : k = applied[r] /\ f = F[k]
    OBVIOUS
  <2>3. k \in 0..Len(log) /\ k \in Nat /\ k <= commit /\ commit \in Nat /\ commit <= Len(log) /\ Len(log) \in Nat
        /\ frontier[r] \in Nat
    BY <2>2 DEF IInv, Types
  <2>4. f \in Nat /\ f >= x.ended /\ f # 0
    BY <1>2, <1>3, <1>4, <2>1, <2>2, <2>3 DEF session_retired
  <2>5. PICK j \in 1..k : RaisesTo(log[j], f)
    BY <2>1, <2>2, <2>3, <2>4 DEF RunOk, Demands
  <2>6. j \in 1..commit /\ j \in 1..Len(log)
    BY <2>3, <2>5
  <2>7. log[j].kind = "retire" /\ \E y \in log[j].ids : y.ended = f
    BY <1>5, <2>5, <2>6 DEF RaisesTo, Plain
  <2>8. Covers(log[j], sessions)
    BY <1>5, <2>6 DEF Retirement, AllCover, OpsOf
  <2>9. NamesSession(log[j], x.client, x.session)
    BY <1>3, <1>4, <2>4, <2>7, <2>8 DEF Covers
  <2> QED BY <2>6, <2>9 DEF NamedIn
<1>6. ASSUME NEW y \in Eldest(sessions) PROVE y = x
  <2>1. ~Before(x, y) /\ ~Before(y, x) /\ y \in sessions /\ y \in Waiting(sessions)
    BY <1>2, <1>3 DEF Eldest, Waiting
  <2>2. x.client \in Nat /\ y.client \in Nat /\ y.ended \in Nat
    BY <1>3, <1>4, <2>1, SizesAssumption DEF Session
  <2>3. x.client = y.client
    BY <1>4, <2>1, <2>2 DEF Before
  <2>4. x \in ended_sessions(meta) /\ y \in ended_sessions(meta)
    BY <1>3, <2>1, EndedNow
  <2> QED BY <1>4, <2>3, <2>4, OnePerClient
<1>7. Unsplit(sessions) /\ Plain(log, commit) => Proven(sessions, reporters', log, commit)
  <2> SUFFICES ASSUME Unsplit(sessions), Plain(log, commit) PROVE Proven(sessions, reporters', log, commit)
    OBVIOUS
  <2>1. Proven(sessions, reporters, log, commit) /\ NamedIn(x, log, commit)
    BY <1>5 DEF Retirement
  <2> QED BY <1>6, <2>1 DEF Proven
<1>8. Waiting(sessions) # {}
  BY <1>3
<1> QED BY <1>1, <1>7, <1>8 DEF Retirement

-----------------------------------------------------------------------------
(* A client that comes back *)

\* The retirement is sound.
THEOREM RetirementInvariant == Spec => []Retirement
<1>1. Init => Retirement
  <2> SUFFICES ASSUME Init PROVE Retirement
    OBVIOUS
  <2>1. sessions = {} /\ reporters = {} /\ log = <<>> /\ queue = <<>>
    BY DEF Init
  <2>2. IsFiniteSet({}) /\ Len(<<>>) = 0
    BY FS_EmptySet
  <2> QED BY <2>1, <2>2 DEF Retirement, Succeeds, AllCover, OpsOf, Proven
<1>2. IInv /\ Retirement /\ [Next]_vars => Retirement'
  <2> SUFFICES ASSUME IInv, Retirement, [Next]_vars PROVE Retirement'
    OBVIOUS
  <2>1. CASE Metadata
    BY <2>1, RegisterRetires, EndRetires, FinalizeRetires DEF Metadata
  <2>2. CASE on_request
    BY <2>2, RequestRetires
  <2>3. CASE UNCHANGED vars
    BY <2>3 DEF vars, metadata, consensus, Retirement
  <2> QED BY <2>1, <2>2, <2>3, ReportRetires, PartitionRetires DEF Next
<1> QED BY <1>1, <1>2, InductiveInvariant, PTL DEF Spec

\* An entry is of the session that is open.
LEMMA InvSuccessor == IInv /\ Retirement => (Unsplit(sessions) => SuccessorIsNotFenced)
<1> SUFFICES ASSUME IInv, Retirement, Unsplit(sessions), \A i \in DOMAIN log : log[i].kind # "install",
                    NEW x \in sessions, NEW r \in Replicas, x.finalized = 0, applied[r] = commit,
                    table[r][x.client] # None
             PROVE  table[r][x.client].epoch = x.session
  BY DEF SuccessorIsNotFenced
<1>1. PICK T, F : RunOk(log, T, F) /\ table[r] = T[applied[r]]
  BY DEF IInv, TablesOk, Consistent
<1>2. log \in Seq(OpRecord) /\ commit \in Nat /\ commit <= Len(log) /\ Len(log) \in Nat
      /\ sessions \subseteq Session /\ table[r] \in Tables /\ DOMAIN log = 1..Len(log)
  BY DEF IInv, Types
<1>3. PICK c, e : c = x.client /\ e = table[r][c]
  OBVIOUS
<1>4. c \in Clients /\ x.session \in Nat
  BY <1>2, <1>3 DEF Session
<1>5. e \in Entry /\ e # None /\ e = T[commit][c]
  BY <1>1, <1>2, <1>3, <1>4 DEF Tables
<1>6. Exact(log, commit, c, e)
  <2>1. commit \in 0..Len(log)
    BY <1>2
  <2> QED BY <1>1, <1>4, <1>5, <2>1 DEF RunOk, AllExact
<1>7. PICK p \in 1..commit : IsRequest(log[p], c, e.epoch, e.watermark)
  BY <1>6 DEF Exact
<1>8. PICK y \in sessions : y.client = c /\ y.session = e.epoch
  <2>1. p \in 1..Len(log) /\ log[p].kind = "write" /\ log[p].client = c /\ log[p].session = e.epoch
    BY <1>2, <1>7 DEF IsRequest, IsOf, IsWrite
  <2> QED BY <2>1 DEF IInv, AllSuit, Suits, WrittenIn
<1>9. CASE y.session = x.session
  BY <1>3, <1>8, <1>9
<1>10. CASE y.session # x.session
  <2>1. y.session \in Nat /\ y.session # 0
    BY <1>2, <1>8 DEF Session
  <2>2. y.session < x.session \/ x.session < y.session
    BY <1>4, <1>10, <2>1
  <2>3. y.finalized # 0
    BY <1>3, <1>8, <2>2 DEF Retirement, Succeeds
  <2>4. Plain(log, commit)
    BY <1>2 DEF Plain
  <2>5. PICK j \in 1..commit : NamesSession(log[j], y.client, y.session)
    BY <1>8, <2>3, <2>4 DEF Retirement, Proven, NamedIn
  <2>6. j \in 1..Len(log) /\ commit \in j..Len(log)
    BY <1>2, <2>5
  <2>7. NamesSession(log[j], c, y.session) /\ T[commit][c].epoch = y.session /\ y.session \in Nat \ {0}
    BY <1>5, <1>8, <2>1, <2>5
  <2> QED BY <1>1, <1>4, <2>6, <2>7, GoneForGood
<1> QED BY <1>9, <1>10

\* The partition keeps no receipt of an older session of a client that came back, as long
\* as no barrier splits the sessions that ended at one op (retire_session).
THEOREM SuccessorUnlessSplit == Spec => [](Unsplit(sessions) => SuccessorIsNotFenced)
BY InductiveInvariant, RetirementInvariant, InvSuccessor, PTL

\* So when a barrier has room for a session of every client (MAX_SESSIONS_PER_RETIREMENT).
THEOREM SuccessorAdmitted ==
  ASSUME MAX_SESSIONS_PER_RETIREMENT >= Cardinality(Clients)
  PROVE  Spec => []SuccessorIsNotFenced
<1>1. Unsplit(sessions)
  BY DEF Unsplit
<1>2. IInv /\ Retirement => SuccessorIsNotFenced
  BY <1>1, InvSuccessor
<1> QED BY <1>2, InductiveInvariant, RetirementInvariant, PTL
=============================================================================
