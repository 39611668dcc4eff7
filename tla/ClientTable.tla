----------------------------- MODULE ClientTable -----------------------------
(***************************************************************************)
(* The client table of the metadata plane: sessions, request watermarks,   *)
(* cached replies and the end of sessions, on every replica of a group.    *)
(*                                                                         *)
(* Consensus is reduced to what it promises: one log, cut at a view change *)
(* only above the commit point, and replicas that apply the committed      *)
(* prefix at their own pace.  Admission runs on the primary against its    *)
(* own table; what it admits changes the table only when it is applied.    *)
(* A bind verifier is part of the user.  Epochs are ops, as in the code.   *)
(***************************************************************************)
EXTENDS Naturals, SequencesExt

CONSTANTS Replicas, Clients, Users,
          Capacity,          \* clients_max
          RingCapacity,      \* replies kept of a client
          MaxRequest, MaxOp, MaxViews, MaxRestarts,   \* bounds
          Nobody

ASSUME ClientTableAssumption ==
    /\ {Capacity, RingCapacity, MaxRequest, MaxOp} \subseteq Nat \ {0}
    /\ {MaxViews, MaxRestarts} \subseteq Nat
    /\ IsFiniteSet(Clients)
    /\ Nobody \notin Clients \cup Users

VARIABLES log, commit, primary,
          inherited,   \* the commit point the primary's view started from
          applied, table, active, snap,   \* of each replica
          fatal,       \* a replica met a committed op it could not retain
          executed,    \* history: the ops whose handler ran
          ends,        \* history: the sessions that ended, with the op that ended them
          views, restarts

consensus == <<log, commit, primary, inherited, views>>
replicas == <<applied, table, active, snap>>
history == <<fatal, executed, ends>>
vars == <<consensus, replicas, history, restarts>>

EXPIRED_SESSION_REQUEST_ID == MaxRequest + 1
Op(kind, c, u, s, q) ==
    [kind |-> kind, client |-> c, user |-> u, session |-> s, request |-> q,
     target |-> Nobody, moved |-> FALSE]
None == [user |-> Nobody, epoch |-> 0]
contains(t, c) == t[c] # None
count(t) == Cardinality({c \in Clients : contains(t, c)})
get_epoch(t, c) == IF t[c] = None THEN 0 ELSE IF t[c].ended # 0 THEN 0 ELSE t[c].epoch

------------------------------------------------------------------------------
\* The table's own operations.

check_request(t, c, s, q) ==
    IF t[c] = None THEN "NoSession"
    ELSE IF t[c].ended # 0 THEN "NoSession"
    ELSE IF s < t[c].epoch THEN "Fenced"
    ELSE IF s > t[c].epoch THEN "EpochAhead"
    ELSE IF q > t[c].watermark THEN "New" ELSE "Answered"

push_latest(e, reply) ==
    [e EXCEPT !.latest_commit = reply.commit,
              !.ring = IF Len(@) < RingCapacity THEN Append(@, reply) ELSE Append(Tail(@), reply)]

Retained(e, reply) ==
    IF reply.request = e.watermark
    THEN IF \E i \in DOMAIN e.ring : e.ring[i].request = reply.request
         THEN LET ring == [i \in DOMAIN e.ring |->
                              IF e.ring[i].request = reply.request THEN reply ELSE e.ring[i]]
              IN [e EXCEPT !.ring = ring, !.latest_commit = Last(ring).commit]
         ELSE push_latest(e, reply)
    ELSE [push_latest(e, reply) EXCEPT !.watermark = reply.request]

Regresses(e, reply) == reply.commit < e.latest_commit \/ reply.request < e.watermark

commit_reply(e, u, reply) ==
    IF e = None THEN [outcome |-> "NoEntry", entry |-> e]
    ELSE IF e.user # u THEN [outcome |-> "NoEntry", entry |-> e]
    ELSE IF Regresses(e, reply) THEN [outcome |-> "SkippedRegression", entry |-> e]
    ELSE IF e.ended # 0 /\ reply.commit > e.ended THEN [outcome |-> "SessionEnded", entry |-> e]
    ELSE [outcome |-> "Cached", entry |-> Retained(e, reply)]

registered(op, at) ==
    [user |-> op.user, epoch |-> at, watermark |-> 0, ended |-> 0, latest_commit |-> at,
     ring |-> <<[request |-> 0, commit |-> at, kind |-> "register"]>>]

end_user_sessions(t, u, at) ==
    [c \in Clients |-> IF t[c] = None THEN None
                       ELSE IF t[c].user = u /\ t[c].ended = 0 THEN [t[c] EXCEPT !.ended = at]
                       ELSE t[c]]

\* A plausible slip: the end of a session is not saved.
to_snapshot_without_end(t) ==
    [c \in Clients |-> IF t[c] = None THEN None
                       ELSE [t[c] EXCEPT !.ring = <<Last(@)>>, !.ended = 0]]

\* Of the replies only the latest is saved.
to_snapshot(t) == [c \in Clients |-> IF t[c] = None THEN None
                                     ELSE [t[c] EXCEPT !.ring = <<Last(@)>>]]

\* What from_snapshot demands of an entry it restores.
valid_metadata_protection(e) ==
    LET latest == Last(e.ring) IN
    /\ e.epoch > 0 /\ e.latest_commit >= e.epoch
    /\ latest.request = e.watermark /\ latest.commit = e.latest_commit
    /\ e.ended # 0 => \/ e.ended > e.latest_commit
                      \/ e.ended = e.latest_commit /\ latest.kind \in {"logout", "revoke"}
    /\ \A i \in DOMAIN e.ring :
         LET h == e.ring[i] IN
         /\ h.commit >= e.epoch /\ h.request <= e.watermark
         /\ (h.request = 0) = (h.kind = "register")
         /\ h.request = 0 => h.commit = e.epoch
         /\ i > 1 => h.request > e.ring[i - 1].request /\ h.commit > e.ring[i - 1].commit

------------------------------------------------------------------------------
Init ==
    /\ log = <<>> /\ commit = 0 /\ primary \in Replicas /\ inherited = 0
    /\ applied = [r \in Replicas |-> 0]
    /\ table = [r \in Replicas |-> [c \in Clients |-> None]]
    /\ active = [r \in Replicas |-> Users]
    /\ snap = [r \in Replicas |-> [op |-> 0, table |-> [c \in Clients |-> None], active |-> Users]]
    /\ fatal = FALSE /\ executed = {} /\ ends = {}
    /\ views = 0 /\ restarts = 0

\* The primary's table, and the prepares of a client that wait in its pipeline.
Table == table[primary]
Pending == {i \in applied[primary] + 1 .. Len(log) : i > inherited}
\* A plausible slip: what waits in the pipeline is not looked at.
ignore_pipeline(c) == FALSE

pipeline_has_message_from_client(c) ==
    \E i \in Pending : log[i].client = c /\ log[i].kind # "finalize"

\* A plausible slip: a new primary admits before it applied what it inherited.
any_primary_admits == TRUE

is_caught_up_primary == applied[primary] = commit

has_retry_capacity(c) ==
    LET pending == {d \in Clients : pipeline_has_message_from_client(d) /\ ~contains(Table, d)}
    IN c \in pending \/ count(Table) + Cardinality(pending) < Capacity

Prepare(op) ==
    /\ ~fatal /\ Len(log) < MaxOp
    /\ log' = Append(log, op)
    /\ UNCHANGED <<commit, primary, inherited, views, replicas, history, restarts>>

\* register_preflight: a session that exists is answered from the table or refused.
submit_register(c, u) ==
    /\ is_caught_up_primary /\ u \in active[primary]
    /\ ~contains(Table, c)
    /\ ~pipeline_has_message_from_client(c)
    /\ has_retry_capacity(c)
    /\ Prepare(Op("register", c, u, 0, 0))

Sessions == {i \in DOMAIN log : log[i].kind = "register"}

\* request_preflight.  The prepare carries the user of the session's entry.
request_admitted(c, s, q) ==
    /\ ~pipeline_has_message_from_client(c)
    /\ is_caught_up_primary
    /\ check_request(Table, c, s, q) = "New"

submit_request(c, s, q) ==
    /\ request_admitted(c, s, q)
    /\ Prepare(Op("request", c, Table[c].user, s, q))

\* An update or a deletion of a user that leaves it inactive, and one that makes it active.
submit_user_change(c, s, q) ==
    /\ request_admitted(c, s, q)
    /\ \E kind \in {"revoke", "activate"}, u \in Users :
         Prepare([Op(kind, c, Table[c].user, s, q) EXCEPT !.target = u])

\* A logout may be pipelined behind commits that are still being applied, if they
\* are in the pipeline.
submit_logout(c, s, q) ==
    /\ applied[primary] >= inherited
    /\ ~pipeline_has_message_from_client(c)
    /\ get_epoch(Table, c) = s
    /\ check_request(Table, c, s, q) = "New"
    /\ Prepare(Op("logout", c, Table[c].user, s, q))

submit_expired_logout(c, s) ==
    /\ is_caught_up_primary
    /\ ~pipeline_has_message_from_client(c)
    /\ get_epoch(Table, c) = s
    /\ Prepare(Op("logout", c, Table[c].user, s, EXPIRED_SESSION_REQUEST_ID))

\* Every partition retired the session.  An op ahead of it in the log may move the
\* namespace on, and the finalization then does nothing.
submit_session_finalization(c) ==
    /\ is_caught_up_primary
    /\ contains(Table, c) /\ Table[c].ended # 0
    /\ \E moved \in BOOLEAN :
         /\ moved => Len(log) > applied[primary]
         /\ Prepare([Op("finalize", c, Nobody, Table[c].epoch, Table[c].ended)
                        EXCEPT !.moved = moved])

\* A quorum acks.
advance_commit_max ==
    /\ ~fatal
    /\ \E n \in commit + 1 .. Len(log) : commit' = n
    /\ UNCHANGED <<log, primary, inherited, views, replicas, history, restarts>>

------------------------------------------------------------------------------
\* apply_committed_prepare, one action for each branch on the operation.

Next_op(r) == log[applied[r] + 1]
Applies(r, kinds) == /\ ~fatal /\ applied[r] < commit
                     /\ Next_op(r).kind \in kinds
                     /\ applied' = [applied EXCEPT ![r] = @ + 1]
                     /\ UNCHANGED <<consensus, snap, restarts>>
Reply(op, at) == [request |-> op.request, commit |-> at, kind |-> op.kind]

\* An inactive account gets no session; a matching one is kept; the rest is fatal.
commit_register(r) ==
    LET op == Next_op(r)
        at == applied[r] + 1
        e == table[r][op.client]
        same == IF e = None THEN FALSE ELSE e.user = op.user /\ e.ended = 0
        full == e = None /\ count(table[r]) >= Capacity
        denied == op.user \notin active[r]
    IN /\ Applies(r, {"register"})
       /\ fatal' = (~denied /\ (full \/ (e # None /\ ~same)))
       /\ table' = IF denied \/ full \/ e # None THEN table
                   ELSE [table EXCEPT ![r][op.client] = registered(op, at)]
       /\ UNCHANGED <<active, executed, ends>>

\* The result is kept before the session ends.  A logout that is late does nothing.
commit_logout(r) ==
    LET op == Next_op(r)
        at == applied[r] + 1
        e == table[r][op.client]
        late == IF e = None THEN TRUE
                ELSE \/ e.epoch # op.session \/ e.user # op.user \/ e.ended # 0
                     \/ op.request <= e.watermark /\ op.request # EXPIRED_SESSION_REQUEST_ID
        kept == commit_reply(e, op.user, Reply(op, at))
    IN /\ Applies(r, {"logout"})
       /\ fatal' = (~late /\ kept.outcome # "Cached")
       /\ table' = IF late \/ kept.outcome # "Cached" THEN table
                   ELSE [table EXCEPT ![r][op.client] = [kept.entry EXCEPT !.ended = at]]
       /\ ends' = IF late THEN ends ELSE ends \cup {[client |-> op.client, session |-> op.session, at |-> at]}
       /\ UNCHANGED <<active, executed>>

\* The exact identity is forgotten, and its client may register again.
finalize_session(r) ==
    LET op == Next_op(r)
        e == table[r][op.client]
        exact == IF e = None THEN FALSE
                 ELSE e.ended # 0 /\ e.ended = op.request /\ e.epoch = op.session
    IN /\ Applies(r, {"finalize"})
       /\ table' = IF exact /\ ~op.moved THEN [table EXCEPT ![r][op.client] = None] ELSE table
       /\ UNCHANGED <<active, history>>

\* A plausible slip: the session is not looked at again when the op is applied.
admit_stale_session(t, op) == FALSE

reject_stale_session(t, op) == get_epoch(t, op.client) # op.session

\* The handler runs unless the session ended meanwhile; a revocation ends the sessions of
\* its user; then the reply is retained, for a stale op too.
apply_request(r) ==
    LET op == Next_op(r)
        at == applied[r] + 1
        runs == ~reject_stale_session(table[r], op)
        revoked == IF runs /\ op.kind = "revoke" THEN end_user_sessions(table[r], op.target, at)
                   ELSE table[r]
        kept == commit_reply(revoked[op.client], op.user, Reply(op, at))
    IN /\ Applies(r, {"request", "revoke", "activate"})
       /\ fatal' = (kept.outcome \in {"NoEntry", "SkippedRegression"})
       /\ table' = [table EXCEPT ![r] = [revoked EXCEPT ![op.client] = kept.entry]]
       /\ active' = IF ~runs THEN active
                    ELSE CASE op.kind = "revoke" -> [active EXCEPT ![r] = @ \ {op.target}]
                           [] op.kind = "activate" -> [active EXCEPT ![r] = @ \cup {op.target}]
                           [] OTHER -> active
       /\ executed' = IF runs THEN executed \cup {at} ELSE executed
       /\ ends' = ends \cup {[client |-> c, session |-> revoked[c].epoch, at |-> at] :
                                c \in {d \in Clients : revoked[d] # table[r][d]}}

------------------------------------------------------------------------------
\* Another replica takes over; what was not committed may be lost.
start_view(r) ==
    /\ ~fatal /\ views < MaxViews /\ views' = views + 1
    /\ primary' = r /\ inherited' = commit
    /\ \E n \in commit .. Len(log) : log' = SubSeq(log, 1, n)
    /\ UNCHANGED <<commit, replicas, history, restarts>>

checkpoint(r) ==
    /\ ~fatal /\ applied[r] > snap[r].op /\ restarts < MaxRestarts
    /\ snap' = [snap EXCEPT ![r] = [op |-> applied[r], table |-> to_snapshot(table[r]),
                                    active |-> active[r]]]
    /\ UNCHANGED <<consensus, applied, table, active, history, restarts>>

\* A backup restarts from its snapshot and replays the log through the same code.
restart(r) ==
    /\ ~fatal /\ r # primary /\ snap[r].op > 0
    /\ restarts < MaxRestarts /\ restarts' = restarts + 1
    /\ applied' = [applied EXCEPT ![r] = snap[r].op]
    /\ table' = [table EXCEPT ![r] = snap[r].table]
    /\ active' = [active EXCEPT ![r] = snap[r].active]
    /\ UNCHANGED <<consensus, snap, history>>

Submit == \E c \in Clients :
    \/ \E u \in Users : submit_register(c, u)
    \/ \E s \in Sessions, q \in 1 .. MaxRequest :
         submit_request(c, s, q) \/ submit_user_change(c, s, q) \/ submit_logout(c, s, q)
    \/ \E s \in Sessions : submit_expired_logout(c, s)
    \/ submit_session_finalization(c)

Apply(r) == commit_register(r) \/ commit_logout(r) \/ finalize_session(r) \/ apply_request(r)

Next == \/ Submit \/ advance_commit_max
        \/ \E r \in Replicas : Apply(r) \/ start_view(r) \/ checkpoint(r) \/ restart(r)

Spec == Init /\ [][Next]_vars

------------------------------------------------------------------------------
\* Replicas, clients and users are interchangeable.
Symmetry == Permutations(Replicas) \cup Permutations(Clients) \cup Permutations(Users)

\* Every variable has the shape the table gives it, and a ring never outgrows its limit.
TypeOK ==
    /\ commit \in 0 .. Len(log) /\ inherited \in 0 .. commit /\ primary \in Replicas
    /\ applied \in [Replicas -> 0 .. commit]
    /\ \A r \in Replicas, c \in Clients :
         IF table[r][c] = None THEN TRUE
         ELSE /\ DOMAIN table[r][c] = DOMAIN registered(Op("register", c, Nobody, 0, 0), 1)
              /\ Len(table[r][c].ring) \in 1 .. RingCapacity
              /\ table[r][c].epoch \in 1 .. MaxOp /\ table[r][c].user \in Users
    /\ active \in [Replicas -> SUBSET Users]
    /\ fatal \in BOOLEAN /\ executed \subseteq 1 .. MaxOp

\* What the primary admits, every replica can retain when it is committed: no committed
\* op is ever fatal, although it was admitted against a table that changed before it applied.
CommittedIsRetained == ~fatal

\* A request of a session is executed at most once, however often it is retried, across
\* view changes and restarts, and whatever else of the client is in the pipeline.
AtMostOnce ==
    \A i, j \in executed :
        (i # j /\ log[i].client = log[j].client /\ log[i].session = log[j].session)
            => log[i].request # log[j].request

\* A request that was admitted before its session ended and committed after it is not
\* executed: ended sessions act no more.
EndedSessionsAreInert ==
    \A i \in executed, e \in ends :
        log[i].client = e.client /\ log[i].session = e.session => i <= e.at

\* Replicas that applied the same ops hold the same protection, restored or not (only the
\* older cached replies may differ), and a snapshot taken of it at any moment is one that
\* restore accepts.  (The comment of request_preflight, metadata_helpers.rs:80, says that
\* watermarks do not survive recovery.  It is older than the fold of the table into the
\* checkpoint, recovery.rs:686, which is what is modelled here.)
Protection(t) == [c \in Clients |-> IF t[c] = None THEN None ELSE [t[c] EXCEPT !.ring = <<>>]]
Restorable(t) == \A c \in Clients : contains(t, c) => valid_metadata_protection(to_snapshot(t)[c])
TablesAgree ==
    \A r1, r2 \in Replicas :
        applied[r1] = applied[r2] => /\ Protection(table[r1]) = Protection(table[r2])
                                     /\ active[r1] = active[r2]
                                     /\ Restorable(table[r1])
==============================================================================
