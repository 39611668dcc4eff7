-------------------------- MODULE PartitionSessions --------------------------
(***************************************************************************)
(* The retry protection of a partition and the retirement of sessions.     *)
(*                                                                         *)
(* The metadata group opens, ends and finalizes sessions.  A partition     *)
(* never sees those ops: a write carries the metadata op (its watermark)   *)
(* at which the dispatching node still held the session active, and each   *)
(* replica keeps, for every client, the window of request ids committed in *)
(* its session.  An ended session is retired by an ordered barrier in the  *)
(* partition's log, which forgets the receipts and raises the watermark    *)
(* the partition demands; a quorum of nodes that proves the retirement     *)
(* lets the metadata group finalize the session, and only then may the     *)
(* client register again.                                                  *)
(*                                                                         *)
(* Writes are delayed, reordered and duplicated at will: any write of any  *)
(* session the client ever had may arrive at any time.  The log is the one *)
(* the partition's VSR group agrees on (see Vsr): a commit frontier, and   *)
(* view changes that may drop what is above it.                            *)
(***************************************************************************)
EXTENDS Integers, Sequences, FiniteSets, TLC, SequencesExt, FiniteSetsExt

CONSTANTS
    Replicas, Clients,
    quorum_replication,           \* reporters that prove a retirement
    COMMITTED_WINDOW_BITS,        \* 128 in the code
    Capacity,                     \* entries of the retry table
    PIPELINE_MAX, QUEUE_MAX,      \* the two queues of the primary
    MAX_SESSIONS_PER_RETIREMENT,  \* identities of one barrier
    MaxRequest, MaxWrites, MaxOp, MaxMeta, MaxViews, MaxInstalls   \* bounds of the model

ASSUME SizesAssumption ==
    /\ Clients \subseteq Nat \ {0} /\ IsFiniteSet(Clients)
    /\ {quorum_replication, COMMITTED_WINDOW_BITS, Capacity, PIPELINE_MAX, QUEUE_MAX,
        MAX_SESSIONS_PER_RETIREMENT} \subseteq Nat \ {0}
    /\ MaxRequest \in Nat

VARIABLES
    meta,       \* ops of the metadata group
    sessions,   \* every session it opened: client, session, ended, finalized
    reporters,  \* nodes that proved the retirement of the oldest ended session
    log, commit, primary, inherited, views,
    queue,      \* requests that wait for a slot of the primary's pipeline
    applied, table, frontier,     \* of each replica
    fatal       \* a committed receipt could not be kept

metadata == <<meta, sessions, reporters>>
consensus == <<log, commit, primary, inherited, views, queue>>
replicas == <<applied, table, frontier, fatal>>
vars == <<metadata, consensus, replicas>>

None == [epoch |-> 0]

------------------------------------------------------------------------------
\* The retry table.

\* The committed window as the set of distances below the watermark.
shift(w, gap) == IF gap >= COMMITTED_WINDOW_BITS THEN {0}
                 ELSE {b \in {x + gap : x \in w} : b < COMMITTED_WINDOW_BITS} \cup {0}

count(t) == Cardinality({c \in Clients : t[c] # None})

\* A plausible slip: an id that is not marked and lies below the window is new.
check_forgets_window(t, op) ==
    LET e == t[op.client] IN
    CASE e = None -> "New"
      [] e # None /\ e.epoch # op.session -> "Fenced"
      [] OTHER -> IF e.watermark - op.request \in e.window THEN "Committed" ELSE "New"

\* A plausible slip: the entry of another session answers for this one.
check_any_session(t, op) ==
    LET e == t[op.client] IN
    CASE e = None \/ e.watermark < op.request -> "New"
      [] OTHER -> LET below == e.watermark - op.request IN
                  CASE below >= COMMITTED_WINDOW_BITS -> "AgedOut"
                    [] OTHER -> IF below \in e.window THEN "Committed" ELSE "New"

check_partition_request(t, op) ==
    LET e == t[op.client] IN
    CASE e = None -> "New"
      [] e # None /\ e.epoch # op.session -> "Fenced"
      [] OTHER -> LET below == e.watermark - op.request IN
                  CASE below < 0 -> "New"
                    [] below >= COMMITTED_WINDOW_BITS -> "AgedOut"
                    [] OTHER -> IF below \in e.window THEN "Committed" ELSE "New"

\* The id is folded into the window; a late lower id may be the newest commit.
commit_request(e, op, at) ==
    LET below == e.watermark - op.request IN
    CASE e = None -> [epoch |-> op.session, watermark |-> op.request, window |-> {0},
                      latest_commit |-> at, pinned |-> [request |-> 0, commit |-> 0]]
      [] e # None /\ op.request > e.watermark ->
           [e EXCEPT !.watermark = op.request, !.window = shift(@, op.request - e.watermark),
                     !.latest_commit = at]
      [] OTHER -> IF below >= COMMITTED_WINDOW_BITS \/ below \in e.window THEN e
                  ELSE [e EXCEPT !.window = @ \cup {below}, !.latest_commit = Max({@, at})]

\* A plausible slip: the reply of a late lower id replaces the one that is kept.
commit_pins_last(e, op, at) ==
    [commit_request(e, op, at) EXCEPT !.latest_commit = at,
                                      !.pinned = [request |-> op.request, commit |-> at]]

\* Then only the watermark's reply is kept, and the entry's latest commit is that reply's.
commit_entry(e, op, at) ==
    LET f == commit_request(e, op, at) IN
    CASE op.request = f.pinned.request -> f
      [] op.request < f.watermark -> [f EXCEPT !.latest_commit = f.pinned.commit]
      [] OTHER -> [f EXCEPT !.latest_commit = at, !.pinned = [request |-> op.request, commit |-> at]]

\* commit_partition_reply refuses another session and a full table.
Retains(t, op) == IF t[op.client] = None THEN count(t) < Capacity
                  ELSE t[op.client].epoch = op.session

forget_sessions(t, ids) ==
    [c \in Clients |-> IF \E x \in ids : x.client = c /\ x.session = t[c].epoch THEN None
                       ELSE t[c]]

\* What install_watermarks demands of an entry it restores.
installs(e) ==
    LET below == e.watermark - e.pinned.request IN
    /\ e.epoch > 0 /\ 0 \in e.window
    /\ below >= 0 /\ below < COMMITTED_WINDOW_BITS /\ below \in e.window
    /\ e.pinned.commit = e.latest_commit

------------------------------------------------------------------------------
Init ==
    /\ meta = 0 /\ sessions = {} /\ reporters = {}
    /\ log = <<>> /\ commit = 0 /\ primary \in Replicas /\ inherited = 0 /\ views = 0
    /\ queue = <<>>
    /\ applied = [r \in Replicas |-> 0]
    /\ table = [r \in Replicas |-> [c \in Clients |-> None]]
    /\ frontier = [r \in Replicas |-> 0]
    /\ fatal = FALSE

------------------------------------------------------------------------------
\* The metadata group.

MetaStep == meta' = meta + 1 /\ UNCHANGED <<consensus, replicas>>

\* A session is opened once the one before it is finalized.
register(c) ==
    /\ meta < MaxMeta /\ \A x \in sessions : x.client = c => x.finalized # 0
    /\ MetaStep
    /\ sessions' = sessions \cup {[client |-> c, session |-> meta + 1, ended |-> 0, finalized |-> 0]}
    /\ UNCHANGED reporters

\* A logout or an expiry ends one session, a revocation all of a user's at one op.
end_sessions(cs) ==
    LET live == {x \in sessions : x.ended = 0 /\ x.client \in cs} IN
    /\ meta < MaxMeta /\ {x.client : x \in live} = cs
    /\ MetaStep
    /\ sessions' = (sessions \ live) \cup {[x EXCEPT !.ended = meta + 1] : x \in live}
    /\ UNCHANGED reporters

\* What a node that applied the metadata ops up to m knows to be ended.
ended_sessions(m) == {x \in sessions : /\ x.ended # 0 /\ x.ended <= m
                                       /\ (x.finalized = 0 \/ x.finalized > m)}

\* Ordered by the op that ended them, then by client.
Before(x, y) == x.ended < y.ended \/ (x.ended = y.ended /\ x.client < y.client)
Oldest(ids, n) == {x \in ids : Cardinality({y \in ids : Before(y, x)}) < n}

------------------------------------------------------------------------------
\* The partition's primary.

Pipeline == {i \in applied[primary] + 1 .. Len(log) : i > inherited}
InFlight == {log[i] : i \in Pipeline} \cup Range(queue)

pending_request(c) == \E op \in InFlight : op.kind = "write" /\ op.client = c

pending_session_retirement(c, s) ==
    \E op \in InFlight : op.kind = "retire" /\ \E x \in op.ids : x.client = c /\ x.session = s

\* A plausible slip: a retirement is admitted beside a write of its session.
admit_beside(op) == FALSE

retirement_conflict(op) ==
    IF op.kind = "retire"
    THEN \E x \in op.ids : pending_request(x.client) \/ pending_session_retirement(x.client, x.session)
    ELSE pending_session_retirement(op.client, op.session)

has_retry_capacity(c) ==
    LET t == table[primary]
        pending == {d \in Clients : pending_request(d) /\ t[d] = None}
    IN t[c] # None \/ c \in pending \/ count(t) + Cardinality(pending) < Capacity

pipeline_is_full == Cardinality(Pipeline) >= PIPELINE_MAX

\* The request takes a pipeline slot, or waits for one; a write may also wait for the
\* reservation of its offsets.
Admit(op) ==
    /\ ~fatal /\ applied[primary] >= inherited
    /\ \/ /\ ~pipeline_is_full /\ queue = <<>> /\ Len(log) < MaxOp
          /\ log' = Append(log, op) /\ UNCHANGED queue
       \/ /\ pipeline_is_full \/ queue # <<>> \/ op.kind = "write"
          /\ Len(queue) < QUEUE_MAX
          /\ queue' = Append(queue, op) /\ UNCHANGED log
    /\ UNCHANGED <<metadata, commit, primary, inherited, views, replicas>>

behind_frontier(op) == op.watermark < frontier[primary]

Op(kind, c, s, q, w, ids) ==
    [kind |-> kind, client |-> c, session |-> s, request |-> q, watermark |-> w, ids |-> ids]

\* The ops of a kind in the log and in the queue, which MaxWrites and MaxInstalls bound.
Held(kind) == Cardinality({i \in DOMAIN (log \o queue) : (log \o queue)[i].kind = kind})

\* Any watermark at which some node held the session active.
on_write(x, q, w) ==
    LET op == Op("write", x.client, x.session, q, w, {}) IN
    /\ Held("write") < MaxWrites
    /\ w >= x.session /\ w <= meta /\ (x.ended # 0 => w < x.ended)
    /\ ~behind_frontier(op)
    /\ ~retirement_conflict(op)
    /\ ~pending_request(op.client)
    /\ check_partition_request(table[primary], op) = "New"
    /\ has_retry_capacity(op.client)
    /\ Admit(op)

\* Only the primary has a pipeline to look at.
session_retired(r, x) ==
    /\ r = primary => ~pending_request(x.client)
    /\ frontier[r] >= x.ended
    /\ table[r][x.client].epoch # x.session

\* The sweep of the primary's node, whose metadata may be behind.
retire_session(m) ==
    LET batch == Oldest(ended_sessions(m), MAX_SESSIONS_PER_RETIREMENT)
        identities == {[client |-> x.client, session |-> x.session, ended |-> x.ended] : x \in batch}
        op == Op("retire", 0, 0, 0, m, identities)
    IN /\ \E x \in Oldest(ended_sessions(m), 1) : ~session_retired(primary, x)
       /\ ~retirement_conflict(op)
       /\ Admit(op)

\* The owner of a consumer group, as decided at metadata op m, is installed in the log.
install_owner(m) ==
    /\ Held("install") < MaxInstalls
    /\ \A op \in InFlight : op.kind # "install"
    /\ Admit(Op("install", 0, 0, 0, m, {}))

drain_request_queue_into_prepares ==
    /\ ~fatal /\ queue # <<>> /\ ~pipeline_is_full
    /\ queue' = Tail(queue)
    /\ IF Head(queue).kind = "write" /\ behind_frontier(Head(queue)) THEN UNCHANGED log
       ELSE Len(log) < MaxOp /\ log' = Append(log, Head(queue))
    /\ UNCHANGED <<metadata, commit, primary, inherited, views, replicas>>

------------------------------------------------------------------------------
\* Replication.

advance_commit_max ==
    /\ ~fatal /\ \E n \in commit + 1 .. Len(log) : commit' = n
    /\ UNCHANGED <<metadata, log, primary, inherited, views, queue, replicas>>

\* Another replica takes over; what was not committed may be lost, what waited is.
start_view(r) ==
    /\ ~fatal /\ r # primary /\ views < MaxViews /\ views' = views + 1
    /\ primary' = r /\ inherited' = commit /\ queue' = <<>>
    /\ \E n \in commit .. Len(log) : log' = SubSeq(log, 1, n)
    /\ UNCHANGED <<metadata, commit, replicas>>

raised_frontier(r, op) ==
    CASE op.kind = "retire" -> Max({frontier[r]} \cup {x.ended : x \in op.ids})
      [] op.kind = "install" -> Max({frontier[r], op.watermark})
      [] OTHER -> frontier[r]

\* The committed op is applied and published on a replica.
publish_pending_commit(r) ==
    LET at == applied[r] + 1
        op == log[at]
        kept == Retains(table[r], op)
    IN /\ ~fatal /\ applied[r] < commit
       /\ applied' = [applied EXCEPT ![r] = IF op.kind # "write" \/ kept THEN at ELSE @]
       /\ frontier' = [frontier EXCEPT ![r] = raised_frontier(r, op)]
       /\ table' = CASE op.kind = "retire" ->
                          [table EXCEPT ![r] = forget_sessions(@, op.ids)]
                     [] op.kind = "write" /\ kept ->
                          [table EXCEPT ![r][op.client] = commit_entry(@, op, at)]
                     [] OTHER -> table
       /\ fatal' = (op.kind = "write" /\ ~kept)
       /\ UNCHANGED <<metadata, consensus>>

\* A lagging backup installs the state of another replica instead of the log.
publish_installed_state(r, s) ==
    /\ ~fatal /\ r # primary /\ applied[r] < applied[s]
    /\ \A c \in Clients : table[s][c] # None => installs(table[s][c])
    /\ applied' = [applied EXCEPT ![r] = applied[s]]
    /\ table' = [table EXCEPT ![r] = table[s]]
    /\ frontier' = [frontier EXCEPT ![r] = Max({@, frontier[s]})]
    /\ UNCHANGED <<metadata, consensus, fatal>>

\* A node reports that its replica retired the oldest ended session.
report(r) ==
    /\ ~fatal /\ r \notin reporters
    /\ \E x \in Oldest(ended_sessions(meta), 1) : session_retired(r, x)
    /\ reporters' = reporters \cup {r}
    /\ UNCHANGED <<meta, sessions, consensus, replicas>>

\* A plausible slip: one reporter more than the quorum.
above_quorum == Cardinality(reporters) > quorum_replication

remote_quorum == Cardinality(reporters) >= quorum_replication

submit_session_finalization ==
    /\ remote_quorum
    /\ MetaStep /\ reporters' = {}
    /\ \E x \in Oldest(ended_sessions(meta), 1) :
         sessions' = (sessions \ {x}) \cup {[x EXCEPT !.finalized = meta + 1]}

------------------------------------------------------------------------------
Metadata == \/ \E c \in Clients : register(c)
            \/ \E cs \in SUBSET Clients \ {{}} : end_sessions(cs)
            \/ submit_session_finalization

on_request == \/ \E x \in sessions, q \in 1 .. MaxRequest, w \in 1 .. meta : on_write(x, q, w)
              \/ \E m \in 1 .. meta : retire_session(m) \/ install_owner(m)

Next == \/ Metadata \/ on_request \/ drain_request_queue_into_prepares \/ advance_commit_max
        \/ \E r \in Replicas :
             \/ start_view(r) \/ publish_pending_commit(r) \/ report(r)
             \/ \E s \in Replicas : publish_installed_state(r, s)

Spec == Init /\ [][Next]_vars

\* Every timer and task of the retirement runs again, and the network delivers.
Fairness ==
    /\ WF_vars(drain_request_queue_into_prepares) /\ WF_vars(advance_commit_max)
    /\ WF_vars(retire_session(meta)) /\ WF_vars(submit_session_finalization)
    /\ WF_vars(\E r \in Replicas : publish_pending_commit(r))
    /\ WF_vars(\E r \in Replicas : report(r))

LiveSpec == Spec /\ Fairness

------------------------------------------------------------------------------
\* Every variable has its type; the window never grows past its bits and the table never
\* past its capacity (commit_request).
TypeOK ==
    /\ meta \in 0 .. MaxMeta + Cardinality(sessions) /\ reporters \subseteq Replicas
    /\ \A x \in sessions : x.client \in Clients /\ x.session \in 1 .. meta
    /\ commit \in 0 .. Len(log) /\ inherited \in 0 .. commit /\ Len(queue) <= QUEUE_MAX
    /\ \A r \in Replicas :
         /\ applied[r] \in 0 .. commit /\ frontier[r] \in 0 .. meta
         /\ count(table[r]) <= Capacity
         /\ \A c \in Clients : table[r][c] # None =>
              table[r][c].window \subseteq 0 .. COMMITTED_WINDOW_BITS - 1

\* Where a request of a session was committed, among the first n ops.
CommittedAt(c, s, q, n) ==
    {i \in 1 .. n : log[i].kind = "write" /\ log[i].client = c /\ log[i].session = s /\ log[i].request = q}

\* A request of a session is committed at one op only: neither a duplicate, nor a late one,
\* nor one that waited in the queue over a retirement or a view change runs again
\* (check_partition_request, pending_request, the frontier).
AtMostOnce ==
    \A i \in 1 .. commit : log[i].kind = "write" =>
        CommittedAt(log[i].client, log[i].session, log[i].request, commit) = {i}

\* A committed receipt is always kept: it never meets another session's entry or a full
\* table, which would fence the partition on every replica (commit_receipt).
CommittedIsRetained == ~fatal

\* The window and the watermark a replica keeps are those of the requests its log committed
\* in the session since the entry was made, and the reply it pins is the watermark's own
\* (commit_request and the shift by the gap between ids); a lagging replica can take the
\* entry over (install_watermarks).
WindowIsExact ==
    \A r \in Replicas, c \in Clients :
        LET e == table[r][c]
            at(q) == CommittedAt(c, e.epoch, q, applied[r])
        IN e # None =>
             /\ e.watermark = Max({q \in 1 .. MaxRequest : at(q) # {}})
             /\ e.window = {b \in 0 .. COMMITTED_WINDOW_BITS - 1 :
                               e.watermark - b >= 1 /\ at(e.watermark - b) # {}}
             /\ e.pinned.request = e.watermark /\ at(e.watermark) = {e.pinned.commit}
             /\ installs(e)

\* Once a client has a new session, the partition keeps no receipt of an older one: it would
\* fence the new session for good (retire_session, session_retired, finalization).  (Two
\* things break it, and the README shows both.  An owner install raises the frontier a
\* report is judged by: the property excludes it.  So does the first of several barriers
\* for sessions that end at one op: here a barrier has room for them all.)
SuccessorIsNotFenced ==
    (\A i \in DOMAIN log : log[i].kind # "install") => \A x \in sessions, r \in Replicas :
        x.finalized = 0 /\ applied[r] = commit /\ table[r][x.client] # None
            => table[r][x.client].epoch = x.session

\* Every session that ended is finalized in the end, so that its client can come back: late
\* writes, a full queue and a view change do not hold its retirement off for good.  At most
\* MaxMeta sessions end, so that is to say that none is left again and again.
EndedIsFinalized == []<>(ended_sessions(meta) = {})
=============================================================================
