-------------------------- MODULE ClientTableProofs --------------------------
(***************************************************************************)
(* At-most-once execution, inert ended sessions, retention of everything   *)
(* committed and agreement of the replicas' tables, for any number of      *)
(* replicas, clients and users and any bounds.                             *)
(*                                                                         *)
(* Every property relates what one replica admitted to what another one    *)
(* applies later, so the invariant speaks of the tables the log stands     *)
(* for: T[n] is the protection (an entry without its cached replies) after *)
(* op n, for every op up to M that some replica may have applied.  A       *)
(* replica holds T[applied]; an op of the log was admitted against some    *)
(* T[k] below it, and nothing of its client lies between k and the op, so  *)
(* what admission saw still holds where the op is applied.                 *)
(***************************************************************************)
EXTENDS ClientTable, FiniteSetTheorems, TLAPS

-----------------------------------------------------------------------------
(* The protection and what an op makes of it *)

RequestKinds == {"request", "revoke", "activate"}

\* An entry without its replies.
Slim(e) == IF e = None THEN None
           ELSE [user |-> e.user, epoch |-> e.epoch, watermark |-> e.watermark,
                 ended |-> e.ended, latest_commit |-> e.latest_commit]
SlimTable(t) == [c \in Clients |-> Slim(t[c])]

SlimEntry == [user : Users, epoch : Nat, watermark : Nat, ended : Nat, latest_commit : Nat]

Present(t) == {c \in Clients : t[c] # None}
Live(t, c, s) == t[c] # None /\ t[c].ended = 0 /\ t[c].epoch = s

\* The table and the active users after op, applied at index at.
Fresh(op, at) == [user |-> op.user, epoch |-> at, watermark |-> 0, ended |-> 0,
                  latest_commit |-> at]
AfterRegister(t, users, op, at) ==
    IF op.user \notin users \/ t[op.client] # None THEN t
    ELSE [t EXCEPT ![op.client] = Fresh(op, at)]

LateLogout(e, op) ==
    \/ e = None \/ e.epoch # op.session \/ e.user # op.user \/ e.ended # 0
    \/ op.request <= e.watermark /\ op.request # EXPIRED_SESSION_REQUEST_ID
AfterLogout(t, op, at) ==
    IF LateLogout(t[op.client], op) THEN t
    ELSE [t EXCEPT ![op.client] = [user |-> @.user, epoch |-> @.epoch, watermark |-> op.request,
                                   ended |-> at, latest_commit |-> at]]

AfterFinalize(t, op) ==
    LET e == t[op.client]
    IN  IF e # None /\ e.ended # 0 /\ e.ended = op.request /\ e.epoch = op.session /\ ~op.moved
        THEN [t EXCEPT ![op.client] = None] ELSE t

Runs(t, op) == Live(t, op.client, op.session)
Ended(e, u, at) ==
    IF e # None /\ e.user = u /\ e.ended = 0
    THEN [user |-> e.user, epoch |-> e.epoch, watermark |-> e.watermark, ended |-> at,
          latest_commit |-> e.latest_commit]
    ELSE e
Revoked(t, op, at) ==
    IF Runs(t, op) /\ op.kind = "revoke" THEN [c \in Clients |-> Ended(t[c], op.target, at)] ELSE t
\* What the reply leaves of an entry it is retained in.
Answered(e, op, at) ==
    IF e.ended # 0 /\ at > e.ended THEN e
    ELSE [user |-> e.user, epoch |-> e.epoch, watermark |-> op.request, ended |-> e.ended,
          latest_commit |-> at]
AfterRequest(t, op, at) ==
    [Revoked(t, op, at) EXCEPT ![op.client] = Answered(@, op, at)]
ActiveAfter(t, users, op) ==
    IF op.kind = "revoke" /\ Runs(t, op) THEN users \ {op.target}
    ELSE IF op.kind = "activate" /\ Runs(t, op) THEN users \cup {op.target}
    ELSE users

TableAfter(t, users, op, at) ==
    IF op.kind = "register" THEN AfterRegister(t, users, op, at)
    ELSE IF op.kind = "logout" THEN AfterLogout(t, op, at)
    ELSE IF op.kind = "finalize" THEN AfterFinalize(t, op)
    ELSE AfterRequest(t, op, at)

-----------------------------------------------------------------------------
(* The invariant *)

OpRecord == [kind : RequestKinds \cup {"register", "logout", "finalize"},
             client : Clients, user : Users \cup {Nobody}, session : Nat, request : Nat,
             target : Users \cup {Nobody}, moved : BOOLEAN]

\* The tables the log stands for: T the tables, A the active users, up to op M.
Starts(M, T, A) ==
    /\ M \in 0..commit
    /\ T \in [0..M -> [Clients -> SlimEntry \cup {None}]]
    /\ A \in [0..M -> SUBSET Users]
    /\ T[0] = [c \in Clients |-> None] /\ A[0] = Users
Follows(M, T, A) ==
    \A n \in 0..(M - 1) :
        /\ T[n + 1] = TableAfter(T[n], A[n], log[n + 1], n + 1)
        /\ A[n + 1] = ActiveAfter(T[n], A[n], log[n + 1])

\* What an entry says of the past.
Dated(M, T) ==
    \A n \in 0..M : \A c \in Clients : T[n][c] # None =>
        /\ 0 < T[n][c].epoch /\ T[n][c].epoch <= T[n][c].latest_commit
        /\ T[n][c].latest_commit <= n /\ T[n][c].ended <= n
        /\ T[n][c].watermark <= EXPIRED_SESSION_REQUEST_ID

\* A session that is not live at its epoch or later is not live ever after.
Inert(M, T) ==
    \A m \in 0..M : \A n \in 0..m : \A c \in Clients : \A s \in 0..n :
        Live(T[m], c, s) => Live(T[n], c, s)

\* The watermark of a live session is above every request of it.
Covers(M, T) ==
    \A n \in 0..M : \A i \in 1..n :
        (log[i].kind \in RequestKinds /\ Live(T[n], log[i].client, log[i].session))
            => log[i].request <= T[n][log[i].client].watermark

\* What admission saw of the client, at k, holds up to the op at j.
RequestAdmitted(M, T, j, k) ==
    LET op == log[j] IN
    /\ Live(T[k], op.client, op.session)
    /\ \A i \in (k + 1)..(j - 1) : log[i].client = op.client =>
          log[i].kind = "finalize" /\ log[i].session # op.session
    /\ \A n \in k..(j - 1) : n <= M =>
          /\ T[n][op.client] # None /\ T[n][op.client].user = op.user
          /\ T[n][op.client].epoch = op.session /\ T[n][op.client].watermark < op.request
RegisterAdmitted(M, T, j, k, D) ==
    LET op == log[j] IN
    /\ \A i \in (k + 1)..(j - 1) : log[i].client = op.client => log[i].kind = "finalize"
    /\ \A i \in (k + 1)..(j - 1) : log[i].kind = "register" => log[i].client \in D
    /\ \A n \in k..(j - 1) : n <= M =>
          T[n][op.client] = None /\ Present(T[n]) \subseteq D
FinalizeAdmitted(T, j, k) ==
    log[j].session \in 0..k /\ ~Live(T[k], log[j].client, log[j].session)
AdmittedOp(M, T, j) ==
    /\ log[j].kind \in RequestKinds =>
          /\ log[j].user \in Users /\ log[j].session \in 1..(j - 1)
          /\ log[j].request \in 1..MaxRequest
          /\ log[j].kind # "request" => log[j].target \in Users
          /\ \E k \in 0..M : k < j /\ RequestAdmitted(M, T, j, k)
    /\ log[j].kind = "register" =>
          /\ log[j].user \in Users
          /\ \E k \in 0..M : k < j /\ \E D \in SUBSET Clients :
                Cardinality(D) < Capacity /\ RegisterAdmitted(M, T, j, k, D)
    /\ log[j].kind = "logout" => log[j].request \in 1..EXPIRED_SESSION_REQUEST_ID
    /\ log[j].kind = "finalize" => \E k \in 0..M : k < j /\ FinalizeAdmitted(T, j, k)
Admitted(M, T) == \A j \in 1..Len(log) : AdmittedOp(M, T, j)

\* A replica, and its snapshot, hold the tables of the log.
Holds(M, T, A, n, t, users) ==
    n \in 0..M /\ SlimTable(t) = T[n] /\ users = A[n]
Hold(M, T, A) ==
    \A r \in Replicas : /\ Holds(M, T, A, applied[r], table[r], active[r])
                        /\ Holds(M, T, A, snap[r].op, snap[r].table, snap[r].active)

\* What ran was live, what ended was not live from then on.
Ran(M, T) ==
    \A i \in executed : i \in 1..M /\ log[i].kind \in RequestKinds
                        /\ Live(T[i - 1], log[i].client, log[i].session)
Ends(M, T) ==
    \A e \in ends : /\ e.at \in 1..M /\ e.session \in 0..e.at /\ e.client \in Clients
                    /\ ~Live(T[e.at], e.client, e.session)

History(M, T, A) ==
    /\ Starts(M, T, A) /\ Follows(M, T, A) /\ Dated(M, T) /\ Inert(M, T) /\ Covers(M, T)
    /\ Admitted(M, T) /\ Hold(M, T, A) /\ Ran(M, T) /\ Ends(M, T)

\* The replies of an entry: the last one is the answer to the watermark.
Replies == Seq([request : Nat, commit : Nat,
                kind : RequestKinds \cup {"register", "logout"}])
Entry == [user : Users, epoch : Nat, watermark : Nat, ended : Nat, latest_commit : Nat,
          ring : Replies]
LatestOk(e) ==
    LET latest == Last(e.ring) IN
    /\ Len(e.ring) > 0
    /\ latest.request = e.watermark /\ latest.commit = e.latest_commit
    /\ (latest.request = 0) = (latest.kind = "register")
    /\ latest.request = 0 => latest.commit = e.epoch
    /\ e.ended # 0 => \/ e.ended > e.latest_commit
                      \/ e.ended = e.latest_commit /\ latest.kind \in {"logout", "revoke"}
TableOk(t) ==
    /\ t \in [Clients -> Entry \cup {None}]
    /\ \A c \in Clients : t[c] # None => LatestOk(t[c])

Types ==
    /\ log \in Seq(OpRecord) /\ commit \in 0..Len(log) /\ primary \in Replicas
    /\ inherited \in 0..commit
    /\ applied \in [Replicas -> Nat] /\ active \in [Replicas -> SUBSET Users]
    /\ table \in [Replicas -> [Clients -> Entry \cup {None}]]
    /\ snap \in [Replicas -> [op : Nat, table : [Clients -> Entry \cup {None}],
                              active : SUBSET Users]]
    /\ \A r \in Replicas : TableOk(table[r]) /\ TableOk(snap[r].table)

\* The inductive invariant.
IInv == ~fatal /\ Types /\ \E M, T, A : History(M, T, A)

-----------------------------------------------------------------------------
(* What an op makes of the protection *)

Tables == [Clients -> SlimEntry \cup {None}]

\* An entry is never the absent one: its user is a user.
LEMMA EntryIsNotNone ==
    /\ \A e \in SlimEntry : e # None
    /\ \A e \in Entry : e # None
<1>1. ASSUME NEW e, e.user \in Users PROVE e # None
  <2>1. None.user = Nobody
    BY DEF None
  <2> QED BY <1>1, <2>1, ClientTableAssumption
<1> QED BY <1>1 DEF SlimEntry, Entry

\* How the entry b of client c may change to a when op is applied at index at.
Changed(b, a, op, at, c) ==
    \/ a = b /\ ~(c = op.client /\ op.kind \in RequestKinds)
    \/ /\ c = op.client /\ op.kind = "register" /\ b = None
       /\ a = Fresh(op, at)
    \/ /\ c = op.client /\ op.kind = "logout" /\ b # None /\ b.ended = 0 /\ b.epoch = op.session
       /\ a = [user |-> b.user, epoch |-> b.epoch, watermark |-> op.request,
               ended |-> at, latest_commit |-> at]
    \/ /\ c = op.client /\ op.kind = "finalize" /\ b # None /\ b.ended # 0 /\ b.epoch = op.session
       /\ a = None
    \/ /\ c # op.client /\ op.kind = "revoke" /\ b # None /\ b.ended = 0
       /\ a = [user |-> b.user, epoch |-> b.epoch, watermark |-> b.watermark, ended |-> at,
               latest_commit |-> b.latest_commit]
    \/ c = op.client /\ op.kind \in RequestKinds /\ b # None /\ b.ended # 0 /\ a = b
    \/ /\ c = op.client /\ op.kind \in RequestKinds /\ b # None /\ b.ended = 0
       /\ \E ended \in {0, at} :
             a = [user |-> b.user, epoch |-> b.epoch, watermark |-> op.request, ended |-> ended,
                  latest_commit |-> at]

\* Those are all the ways.
LEMMA StepEntry ==
    ASSUME NEW t \in Tables, NEW users, NEW op \in OpRecord, NEW at \in Nat, at > 0,
           NEW c \in Clients,
           op.kind \in RequestKinds => t[op.client] # None,
           \A d \in Clients : t[d] # None => t[d].ended < at
    PROVE  Changed(t[c], TableAfter(t, users, op, at)[c], op, at, c)
<1>0. op.client \in Clients /\ DOMAIN t = Clients
  BY DEF OpRecord, Tables
<1>1. CASE op.kind = "register"
  <2>1. TableAfter(t, users, op, at) = AfterRegister(t, users, op, at)
    BY <1>1 DEF TableAfter
  <2> QED BY <1>0, <1>1, <2>1 DEF AfterRegister, Changed, RequestKinds, Tables
<1>2. CASE op.kind = "logout"
  <2>1. TableAfter(t, users, op, at) = AfterLogout(t, op, at)
    BY <1>2 DEF TableAfter
  <2> QED BY <1>0, <1>2, <2>1 DEF AfterLogout, LateLogout, Changed, RequestKinds, Tables
<1>3. CASE op.kind = "finalize"
  <2>1. TableAfter(t, users, op, at) = AfterFinalize(t, op)
    BY <1>3 DEF TableAfter
  <2> QED BY <1>0, <1>3, <2>1 DEF AfterFinalize, Changed, RequestKinds, Tables
<1>4. CASE op.kind \in RequestKinds
  <2>1. TableAfter(t, users, op, at) = AfterRequest(t, op, at)
    BY <1>4 DEF TableAfter, RequestKinds
  <2>2. PICK u \in [Clients -> SlimEntry \cup {None} \cup {Ended(t[d], op.target, at) : d \in Clients}] :
           u = Revoked(t, op, at)
    BY DEF Revoked, Tables
  <2>3. u[c] = t[c] \/ (op.kind = "revoke" /\ u[c] = Ended(t[c], op.target, at))
    BY <2>2 DEF Revoked
  <2>4. TableAfter(t, users, op, at)[c] = IF c = op.client THEN Answered(u[c], op, at) ELSE u[c]
    BY <1>0, <2>1, <2>2 DEF AfterRequest
  <2>5. u[c] = t[c] \/ (op.kind = "revoke" /\ t[c] # None /\ t[c].ended = 0
                        /\ u[c] = [user |-> t[c].user, epoch |-> t[c].epoch,
                                   watermark |-> t[c].watermark, ended |-> at,
                                   latest_commit |-> t[c].latest_commit])
    BY <2>3 DEF Ended
  <2>6. CASE c # op.client
    BY <2>4, <2>5, <2>6 DEF Changed
  <2>7. CASE c = op.client
    <3>1. t[c] # None /\ t[c].ended < at /\ t[c] \in SlimEntry /\ t[c].ended \in Nat
      BY <1>4, <2>7 DEF Tables, SlimEntry
    <3>2. CASE u[c] = t[c] /\ t[c].ended # 0
      BY <1>4, <2>4, <2>7, <3>1, <3>2 DEF Changed, Answered
    <3>3. CASE u[c] = t[c] /\ t[c].ended = 0
      BY <1>4, <2>4, <2>7, <3>1, <3>3 DEF Changed, Answered
    <3>4. CASE u[c] # t[c]
      <4>1. /\ u[c].ended = at /\ u[c].user = t[c].user /\ u[c].epoch = t[c].epoch /\ t[c].ended = 0
        BY <2>5, <3>4
      <4>2. Answered(u[c], op, at) = [user |-> t[c].user, epoch |-> t[c].epoch,
                                      watermark |-> op.request, ended |-> at, latest_commit |-> at]
        BY <4>1 DEF Answered
      <4> QED BY <1>4, <2>4, <2>7, <3>1, <4>1, <4>2 DEF Changed
    <3> QED BY <3>2, <3>3, <3>4
  <2> QED BY <2>6, <2>7
<1> QED BY <1>1, <1>2, <1>3, <1>4 DEF OpRecord, RequestKinds

\* A changed entry is an entry again, or absent.
LEMMA ChangedType ==
    ASSUME NEW b \in SlimEntry \cup {None}, NEW a, NEW op \in OpRecord, NEW at \in Nat, NEW c,
           Changed(b, a, op, at, c), op.kind = "register" => op.user \in Users
    PROVE  a \in SlimEntry \cup {None}
<1>1. op.request \in Nat
  BY DEF OpRecord
<1>2. b # None => b \in SlimEntry
  OBVIOUS
<1> QED BY <1>1, <1>2 DEF Changed, Fresh, SlimEntry

\* The table keeps its type.
LEMMA StepType ==
    ASSUME NEW t \in Tables, NEW users, NEW op \in OpRecord, NEW at \in Nat, at > 0,
           op.kind \in RequestKinds => t[op.client] # None,
           op.kind = "register" => op.user \in Users,
           \A d \in Clients : t[d] # None => t[d].ended < at
    PROVE  TableAfter(t, users, op, at) \in Tables
<1>1. DOMAIN TableAfter(t, users, op, at) = Clients
      /\ TableAfter(t, users, op, at) =
            [d \in Clients |-> TableAfter(t, users, op, at)[d]]
  BY DEF TableAfter, AfterRegister, AfterLogout, AfterFinalize, AfterRequest, Revoked, Tables
<1>2. ASSUME NEW d \in Clients PROVE TableAfter(t, users, op, at)[d] \in SlimEntry \cup {None}
  <2>1. Changed(t[d], TableAfter(t, users, op, at)[d], op, at, d)
    BY StepEntry
  <2>2. t[d] \in SlimEntry \cup {None}
    BY DEF Tables
  <2> QED BY <2>1, <2>2, ChangedType
<1> QED BY <1>1, <1>2 DEF Tables

-----------------------------------------------------------------------------
(* The tables of the log reach one op further *)

\* The ops of the log.
LEMMA LogOps ==
    ASSUME Types, NEW j \in 1..Len(log)
    PROVE  log[j] \in OpRecord /\ log[j].client \in Clients /\ log[j].request \in Nat
           /\ log[j].session \in Nat
<1>1. log[j] \in OpRecord
  BY DEF Types
<1> QED BY <1>1 DEF OpRecord

\* What the invariant says of the op after n.
LEMMA OpAdmitted ==
    ASSUME Types, NEW M, NEW T, NEW A, History(M, T, A), NEW n \in 0..M, n < commit
    PROVE  /\ n \in Nat /\ n + 1 \in 1..Len(log) /\ log[n + 1] \in OpRecord /\ T[n] \in Tables
           /\ log[n + 1].client \in Clients
           /\ log[n + 1].kind \in RequestKinds \cup {"register", "logout", "finalize"}
           /\ log[n + 1].kind \in RequestKinds =>
                 /\ log[n + 1].session > 0 /\ log[n + 1].request > 0
                 /\ log[n + 1].request <= EXPIRED_SESSION_REQUEST_ID
                 /\ T[n][log[n + 1].client] # None
                 /\ T[n][log[n + 1].client].user = log[n + 1].user
                 /\ T[n][log[n + 1].client].watermark < log[n + 1].request
           /\ log[n + 1].kind = "register" =>
                 /\ log[n + 1].user \in Users /\ T[n][log[n + 1].client] = None
                 /\ Cardinality(Present(T[n])) < Capacity
           /\ log[n + 1].kind = "logout" =>
                 log[n + 1].request > 0 /\ log[n + 1].request <= EXPIRED_SESSION_REQUEST_ID
           /\ log[n + 1].kind = "activate" => log[n + 1].target \in Users
           /\ \A d \in Clients : T[n][d] # None =>
                 /\ T[n][d].ended < n + 1 /\ T[n][d].latest_commit < n + 1
                 /\ T[n][d].epoch <= n /\ T[n][d].epoch > 0
                 /\ T[n][d].watermark <= EXPIRED_SESSION_REQUEST_ID
<1>1. M \in Nat /\ n \in Nat /\ n <= M /\ n + 1 \in 1..Len(log) /\ commit \in Nat
  BY DEF History, Starts, Types
<1>2. log[n + 1] \in OpRecord /\ T[n] \in Tables
  BY <1>1, LogOps DEF History, Starts, Tables
<1>3. log[n + 1].kind \in RequestKinds =>
         /\ T[n][log[n + 1].client] # None
         /\ T[n][log[n + 1].client].user = log[n + 1].user
         /\ T[n][log[n + 1].client].watermark < log[n + 1].request
  <2> SUFFICES ASSUME log[n + 1].kind \in RequestKinds
               PROVE  /\ T[n][log[n + 1].client] # None
                      /\ T[n][log[n + 1].client].user = log[n + 1].user
                      /\ T[n][log[n + 1].client].watermark < log[n + 1].request
    OBVIOUS
  <2>1. PICK k \in 0..M : k < n + 1 /\ RequestAdmitted(M, T, n + 1, k)
    BY <1>1 DEF History, Admitted, AdmittedOp
  <2>2. n \in k..((n + 1) - 1) /\ n <= M
    BY <1>1, <2>1
  <2> QED BY <2>1, <2>2 DEF RequestAdmitted
<1>4. log[n + 1].kind = "register" =>
         /\ log[n + 1].user \in Users /\ T[n][log[n + 1].client] = None
         /\ Cardinality(Present(T[n])) < Capacity
  <2> SUFFICES ASSUME log[n + 1].kind = "register"
               PROVE  /\ log[n + 1].user \in Users /\ T[n][log[n + 1].client] = None
                      /\ Cardinality(Present(T[n])) < Capacity
    OBVIOUS
  <2>1. /\ log[n + 1].user \in Users
        /\ \E k \in 0..M : k < n + 1 /\ \E D \in SUBSET Clients :
              Cardinality(D) < Capacity /\ RegisterAdmitted(M, T, n + 1, k, D)
    BY <1>1 DEF History, Admitted, AdmittedOp
  <2>2. PICK k \in 0..M, D \in SUBSET Clients :
            k < n + 1 /\ Cardinality(D) < Capacity /\ RegisterAdmitted(M, T, n + 1, k, D)
    BY <2>1
  <2>3. n \in k..((n + 1) - 1) /\ n <= M
    BY <1>1, <2>2
  <2>4. T[n][log[n + 1].client] = None /\ Present(T[n]) \subseteq D
    BY <2>2, <2>3 DEF RegisterAdmitted
  <2>5. IsFiniteSet(D)
    BY ClientTableAssumption, FS_Subset
  <2>6. /\ Cardinality(Present(T[n])) <= Cardinality(D)
        /\ IsFiniteSet(Present(T[n]))
    BY <2>4, <2>5, FS_Subset
  <2>7. Cardinality(Present(T[n])) \in Nat /\ Cardinality(D) \in Nat
    BY <2>5, <2>6, FS_CardinalityType
  <2>8. Capacity \in Nat
    BY ClientTableAssumption
  <2> QED BY <2>1, <2>2, <2>4, <2>6, <2>7, <2>8
<1>5. ASSUME NEW d \in Clients, T[n][d] # None
      PROVE  /\ T[n][d].ended < n + 1 /\ T[n][d].latest_commit < n + 1
             /\ T[n][d].epoch <= n /\ T[n][d].epoch > 0
             /\ T[n][d].watermark <= EXPIRED_SESSION_REQUEST_ID
  <2>1. T[n][d] \in SlimEntry
    BY <1>2, <1>5 DEF Tables
  <2>2. /\ T[n][d].ended \in Nat /\ T[n][d].latest_commit \in Nat /\ T[n][d].epoch \in Nat
        /\ 0 < T[n][d].epoch /\ T[n][d].epoch <= T[n][d].latest_commit
        /\ T[n][d].ended <= n /\ T[n][d].latest_commit <= n
        /\ T[n][d].watermark <= EXPIRED_SESSION_REQUEST_ID
    BY <1>5, <2>1 DEF History, Dated, SlimEntry
  <2> QED BY <1>1, <2>2
<1>6. /\ log[n + 1].kind = "logout" =>
            log[n + 1].request > 0 /\ log[n + 1].request <= EXPIRED_SESSION_REQUEST_ID
      /\ log[n + 1].kind \in RequestKinds =>
            /\ log[n + 1].request > 0 /\ log[n + 1].request <= EXPIRED_SESSION_REQUEST_ID
            /\ log[n + 1].session > 0
  BY <1>1, ClientTableAssumption DEF History, Admitted, AdmittedOp, EXPIRED_SESSION_REQUEST_ID
<1>7. log[n + 1].client \in Clients
      /\ log[n + 1].kind \in RequestKinds \cup {"register", "logout", "finalize"}
  BY <1>2 DEF OpRecord
<1>8. log[n + 1].kind = "activate" => log[n + 1].target \in Users
  BY <1>1 DEF History, Admitted, AdmittedOp, RequestKinds
<1> QED BY <1>1, <1>2, <1>3, <1>4, <1>5, <1>6, <1>7, <1>8

\* The same of the op after the last one.
LEMMA NextOpAdmitted ==
    ASSUME Types, NEW M, NEW T, NEW A, History(M, T, A), M < commit
    PROVE  /\ M \in Nat /\ M + 1 \in 1..Len(log) /\ log[M + 1] \in OpRecord /\ T[M] \in Tables
           /\ log[M + 1].client \in Clients
           /\ log[M + 1].kind \in RequestKinds \cup {"register", "logout", "finalize"}
           /\ log[M + 1].kind \in RequestKinds =>
                 /\ T[M][log[M + 1].client] # None
                 /\ T[M][log[M + 1].client].user = log[M + 1].user
                 /\ T[M][log[M + 1].client].watermark < log[M + 1].request
           /\ log[M + 1].kind = "register" =>
                 log[M + 1].user \in Users /\ T[M][log[M + 1].client] = None
           /\ log[M + 1].kind \in RequestKinds \cup {"logout"} =>
                 log[M + 1].request <= EXPIRED_SESSION_REQUEST_ID
           /\ log[M + 1].kind = "activate" => log[M + 1].target \in Users
           /\ \A d \in Clients : T[M][d] # None => T[M][d].ended < M + 1
<1>1. M \in 0..M
  BY DEF History, Starts, Types
<1> QED BY <1>1, OpAdmitted

\* The tables up to op M + 1.
NextT(M, T, A) == [n \in 0..(M + 1) |-> IF n <= M THEN T[n]
                                        ELSE TableAfter(T[M], A[M], log[M + 1], M + 1)]
NextA(M, T, A) == [n \in 0..(M + 1) |-> IF n <= M THEN A[n]
                                        ELSE ActiveAfter(T[M], A[M], log[M + 1])]

\* They agree with the old ones up to M, and each entry changed in one of the ways above.
LEMMA NextTables ==
    ASSUME Types, NEW M, NEW T, NEW A, History(M, T, A), M < commit
    PROVE  /\ \A n \in 0..M : NextT(M, T, A)[n] = T[n] /\ NextA(M, T, A)[n] = A[n]
           /\ NextT(M, T, A)[M + 1] = TableAfter(T[M], A[M], log[M + 1], M + 1)
           /\ NextA(M, T, A)[M + 1] = ActiveAfter(T[M], A[M], log[M + 1])
           /\ NextT(M, T, A)[M + 1] \in Tables
           /\ \A c \in Clients :
                 Changed(T[M][c], NextT(M, T, A)[M + 1][c], log[M + 1], M + 1, c)
<1>1. M \in Nat
  BY NextOpAdmitted
<1>2. /\ \A n \in 0..M : NextT(M, T, A)[n] = T[n] /\ NextA(M, T, A)[n] = A[n]
      /\ NextT(M, T, A)[M + 1] = TableAfter(T[M], A[M], log[M + 1], M + 1)
      /\ NextA(M, T, A)[M + 1] = ActiveAfter(T[M], A[M], log[M + 1])
  BY <1>1 DEF NextT, NextA
<1>3. TableAfter(T[M], A[M], log[M + 1], M + 1) \in Tables
  BY NextOpAdmitted, StepType
<1>4. ASSUME NEW c \in Clients
      PROVE  Changed(T[M][c], TableAfter(T[M], A[M], log[M + 1], M + 1)[c], log[M + 1], M + 1, c)
  BY NextOpAdmitted, StepEntry
<1> QED BY <1>2, <1>3, <1>4

\* A live session whose epoch is not the new op was live before it.
LEMMA LiveBefore ==
    ASSUME NEW b \in SlimEntry \cup {None}, NEW a, NEW op, NEW at \in Nat, at > 0, NEW c,
           Changed(b, a, op, at, c), NEW s \in Nat, s # at,
           a # None, a.ended = 0, a.epoch = s
    PROVE  b # None /\ b.ended = 0 /\ b.epoch = s
BY DEF Changed, Fresh

\* The starting point, the steps and the dates of the longer run of tables.
LEMMA ExtendDates ==
    ASSUME Types, NEW M, NEW T, NEW A, History(M, T, A), M < commit
    PROVE  /\ Starts(M + 1, NextT(M, T, A), NextA(M, T, A))
           /\ Follows(M + 1, NextT(M, T, A), NextA(M, T, A))
           /\ Dated(M + 1, NextT(M, T, A))
<1>0. PICK T2, A2 : T2 = NextT(M, T, A) /\ A2 = NextA(M, T, A)
  OBVIOUS
<1>1. /\ M \in Nat /\ commit \in Nat /\ 0 \in 0..M /\ M + 1 \in 0..commit
      /\ \A n \in 0..(M + 1) : n \in 0..M \/ n = M + 1
  BY NextOpAdmitted DEF Types
<1>2. /\ \A n \in 0..M : T2[n] = T[n] /\ A2[n] = A[n]
      /\ T2[M + 1] = TableAfter(T[M], A[M], log[M + 1], M + 1)
      /\ A2[M + 1] = ActiveAfter(T[M], A[M], log[M + 1])
      /\ T2[M + 1] \in Tables
      /\ \A c \in Clients : Changed(T[M][c], T2[M + 1][c], log[M + 1], M + 1, c)
  BY <1>0, NextTables
<1>3. /\ T \in [0..M -> Tables] /\ A \in [0..M -> SUBSET Users]
      /\ T[0] = [c \in Clients |-> None] /\ A[0] = Users
  BY DEF History, Starts, Tables
<1>4. Starts(M + 1, T2, A2)
  <2>1. A2[M + 1] \in SUBSET Users
    <3>1. log[M + 1].target \in Users \cup {Nobody} /\ A[M] \in SUBSET Users /\ M \in 0..M
      BY <1>1, <1>3, NextOpAdmitted DEF OpRecord
    <3>2. log[M + 1].kind = "activate" /\ Runs(T[M], log[M + 1]) => log[M + 1].target \in Users
      BY NextOpAdmitted
    <3> QED BY <1>2, <3>1, <3>2 DEF ActiveAfter
  <2>2. T2 = [n \in 0..(M + 1) |-> T2[n]] /\ A2 = [n \in 0..(M + 1) |-> A2[n]]
    BY <1>0 DEF NextT, NextA
  <2>3. \A n \in 0..(M + 1) : T2[n] \in Tables /\ A2[n] \in SUBSET Users
    BY <1>1, <1>2, <1>3, <2>1
  <2>4. T2[0] = [c \in Clients |-> None] /\ A2[0] = Users
    BY <1>1, <1>2, <1>3
  <2> QED BY <1>1, <2>2, <2>3, <2>4 DEF Starts, Tables
<1>5. Follows(M + 1, T2, A2)
  <2> SUFFICES ASSUME NEW n \in 0..M
               PROVE  /\ T2[n + 1] = TableAfter(T2[n], A2[n], log[n + 1], n + 1)
                      /\ A2[n + 1] = ActiveAfter(T2[n], A2[n], log[n + 1])
    BY <1>1 DEF Follows
  <2>1. CASE n = M
    BY <1>1, <1>2, <2>1
  <2>2. CASE n # M
    <3>1. n \in 0..(M - 1) /\ n + 1 \in 0..M
      BY <1>1, <2>2
    <3> QED BY <1>2, <3>1 DEF History, Follows
  <2> QED BY <2>1, <2>2
<1>6. Dated(M + 1, T2)
  <2> SUFFICES ASSUME NEW n \in 0..(M + 1), NEW c \in Clients, T2[n][c] # None
               PROVE  /\ 0 < T2[n][c].epoch /\ T2[n][c].epoch <= T2[n][c].latest_commit
                      /\ T2[n][c].latest_commit <= n /\ T2[n][c].ended <= n
                      /\ T2[n][c].watermark <= EXPIRED_SESSION_REQUEST_ID
    BY DEF Dated
  <2>1. CASE n \in 0..M
    BY <1>2, <2>1 DEF History, Dated
  <2>2. CASE n = M + 1
    <3>1. PICK b, a : b = T[M][c] /\ a = T2[M + 1][c]
      OBVIOUS
    <3>2. Changed(b, a, log[M + 1], M + 1, c) /\ a # None
      BY <1>2, <2>2, <3>1
    <3>3. b # None => /\ b \in SlimEntry
                      /\ 0 < b.epoch /\ b.epoch <= b.latest_commit /\ b.latest_commit <= M
                      /\ b.ended <= M /\ b.watermark <= EXPIRED_SESSION_REQUEST_ID
      BY <1>1, <1>3, <3>1 DEF History, Dated, Tables
    <3>4. b \in SlimEntry => b.epoch \in Nat /\ b.latest_commit \in Nat /\ b.ended \in Nat
      BY DEF SlimEntry
    <3>5. /\ log[M + 1].kind \in RequestKinds \cup {"logout"} =>
                log[M + 1].request <= EXPIRED_SESSION_REQUEST_ID
          /\ 0 <= EXPIRED_SESSION_REQUEST_ID
      BY NextOpAdmitted, ClientTableAssumption DEF EXPIRED_SESSION_REQUEST_ID
    <3>6. /\ 0 < a.epoch /\ a.epoch <= a.latest_commit
          /\ a.latest_commit <= M + 1 /\ a.ended <= M + 1
          /\ a.watermark <= EXPIRED_SESSION_REQUEST_ID
      BY <1>1, <3>2, <3>3, <3>4, <3>5 DEF Changed, Fresh
    <3> QED BY <2>2, <3>1, <3>6
  <2> QED BY <1>1, <2>1, <2>2
<1> QED BY <1>0, <1>4, <1>5, <1>6

\* Sessions that are not live stay so, and the watermark covers the new op too.
LEMMA ExtendSessions ==
    ASSUME Types, NEW M, NEW T, NEW A, History(M, T, A), M < commit
    PROVE  Inert(M + 1, NextT(M, T, A)) /\ Covers(M + 1, NextT(M, T, A))
<1>0. PICK T2 : T2 = NextT(M, T, A)
  OBVIOUS
<1>1. /\ M \in Nat /\ M \in 0..M
      /\ \A n \in 0..(M + 1) : n \in 0..M \/ n = M + 1
  BY NextOpAdmitted
<1>2. /\ \A n \in 0..M : T2[n] = T[n]
      /\ \A c \in Clients : Changed(T[M][c], T2[M + 1][c], log[M + 1], M + 1, c)
  BY <1>0, NextTables
<1>3. \A c \in Clients : T[M][c] \in SlimEntry \cup {None}
  BY NextOpAdmitted DEF Tables
<1>4. ASSUME NEW c \in Clients, NEW s \in 0..M, Live(T2[M + 1], c, s) PROVE Live(T[M], c, s)
  <2>1. /\ s \in Nat /\ s # M + 1 /\ M + 1 > 0 /\ M + 1 \in Nat
    BY <1>1
  <2> QED BY <1>2, <1>3, <1>4, <2>1, LiveBefore DEF Live
<1>5. Inert(M + 1, T2)
  <2> SUFFICES ASSUME NEW m \in 0..(M + 1), NEW n \in 0..m, NEW c \in Clients, NEW s \in 0..n,
                      Live(T2[m], c, s)
               PROVE  Live(T2[n], c, s)
    BY DEF Inert
  <2>1. CASE m \in 0..M
    <3>1. n \in 0..M
      BY <1>1, <2>1
    <3> QED BY <1>2, <2>1, <3>1 DEF History, Inert
  <2>2. CASE m = M + 1 /\ n # M + 1
    <3>1. n \in 0..M /\ s \in 0..M
      BY <1>1, <2>2
    <3>2. Live(T[M], c, s)
      BY <1>4, <2>2, <3>1
    <3>3. Live(T[n], c, s)
      BY <1>1, <3>1, <3>2 DEF History, Inert
    <3> QED BY <1>2, <3>1, <3>3
  <2> QED BY <1>1, <2>1, <2>2
<1>6. Covers(M + 1, T2)
  <2> SUFFICES ASSUME NEW n \in 0..(M + 1), NEW i \in 1..n, log[i].kind \in RequestKinds,
                      Live(T2[n], log[i].client, log[i].session)
               PROVE  log[i].request <= T2[n][log[i].client].watermark
    BY DEF Covers
  <2>1. CASE n \in 0..M
    BY <1>2, <2>1 DEF History, Covers
  <2>2. CASE n = M + 1 /\ i = M + 1
    <3>1. log[M + 1].client \in Clients /\ log[M + 1].request \in Nat
      BY NextOpAdmitted DEF OpRecord
    <3>2. PICK a : a = T2[M + 1][log[M + 1].client]
      OBVIOUS
    <3>3. a.ended = 0
      BY <2>2, <3>2 DEF Live
    <3>4. Changed(T[M][log[M + 1].client], a, log[M + 1], M + 1, log[M + 1].client)
      BY <1>2, <3>1, <3>2
    <3>5. a.watermark = log[M + 1].request
      BY <2>2, <3>3, <3>4 DEF Changed, RequestKinds, Fresh
    <3> QED BY <2>2, <3>1, <3>2, <3>5
  <2>3. CASE n = M + 1 /\ i # M + 1
    <3>1. i \in 1..M /\ i \in 1..Len(log)
      BY <1>1, <2>3, NextOpAdmitted
    <3>2. log[i] \in OpRecord
      BY <3>1 DEF Types
    <3>3. log[i].client \in Clients /\ log[i].request \in Nat /\ log[i].session \in 0..M
      <4>1. log[i].client \in Clients /\ log[i].request \in Nat
        BY <3>2 DEF OpRecord
      <4>2. log[i].session \in 1..(i - 1)
        BY <3>1 DEF History, Admitted, AdmittedOp
      <4> QED BY <1>1, <3>1, <4>1, <4>2
    <3>4. Live(T[M], log[i].client, log[i].session)
      BY <1>4, <2>3, <3>3
    <3>5. log[i].request <= T[M][log[i].client].watermark
      BY <1>1, <3>1, <3>4 DEF History, Covers
    <3>6. PICK b, a : b = T[M][log[i].client] /\ a = T2[M + 1][log[i].client]
      OBVIOUS
    <3>7. /\ Changed(b, a, log[M + 1], M + 1, log[i].client)
          /\ b # None /\ b.ended = 0 /\ a.ended = 0 /\ a # None /\ b \in SlimEntry
      BY <1>2, <1>3, <2>3, <3>3, <3>4, <3>6 DEF Live
    <3>8. a.watermark = b.watermark \/ (log[i].client = log[M + 1].client
                                        /\ log[M + 1].kind \in RequestKinds
                                        /\ a.watermark = log[M + 1].request)
      BY <1>1, <3>7 DEF Changed
    <3>9. log[M + 1].kind \in RequestKinds =>
             T[M][log[M + 1].client].watermark < log[M + 1].request
      BY NextOpAdmitted
    <3>10. b.watermark \in Nat /\ log[M + 1].request \in Nat
      BY <3>7, NextOpAdmitted DEF SlimEntry, OpRecord
    <3> QED BY <2>3, <3>3, <3>5, <3>6, <3>8, <3>9, <3>10
  <2> QED BY <1>1, <2>1, <2>2, <2>3
<1> QED BY <1>0, <1>5, <1>6

\* What admission saw still holds one op further.
LEMMA ExtendAdmission ==
    ASSUME Types, NEW M, NEW T, NEW A, History(M, T, A), M < commit
    PROVE  Admitted(M + 1, NextT(M, T, A))
<1>0. PICK T2 : T2 = NextT(M, T, A)
  OBVIOUS
<1>1. /\ M \in Nat /\ M \in 0..M /\ 0..M \subseteq 0..(M + 1)
      /\ \A n \in 0..(M + 1) : n \in 0..M \/ n = M + 1
  BY NextOpAdmitted
<1>2. /\ \A n \in 0..M : T2[n] = T[n]
      /\ \A c \in Clients : Changed(T[M][c], T2[M + 1][c], log[M + 1], M + 1, c)
  BY <1>0, NextTables
<1>3. ASSUME NEW j \in 1..Len(log), NEW k \in 0..M, k < j, RequestAdmitted(M, T, j, k)
      PROVE  RequestAdmitted(M + 1, T2, j, k)
  <2>1. Live(T2[k], log[j].client, log[j].session)
    BY <1>2, <1>3 DEF RequestAdmitted
  <2>2. ASSUME NEW n \in k..(j - 1), n <= M + 1
        PROVE  /\ T2[n][log[j].client] # None /\ T2[n][log[j].client].user = log[j].user
               /\ T2[n][log[j].client].epoch = log[j].session
               /\ T2[n][log[j].client].watermark < log[j].request
    <3>1. CASE n <= M
      <4>1. n \in 0..M
        BY <1>1, <3>1
      <4> QED BY <1>2, <1>3, <3>1, <4>1 DEF RequestAdmitted
    <3>2. CASE n = M + 1
      <4>1. M \in k..(j - 1) /\ M + 1 \in (k + 1)..(j - 1) /\ M <= M
        BY <1>1, <3>2, <2>2
      <4>2. PICK b, a : b = T[M][log[j].client] /\ a = T2[M + 1][log[j].client]
        OBVIOUS
      <4>3. b # None /\ b.user = log[j].user /\ b.epoch = log[j].session /\ b.watermark < log[j].request
        BY <1>3, <4>1, <4>2 DEF RequestAdmitted
      <4>4. log[M + 1].client = log[j].client =>
               log[M + 1].kind = "finalize" /\ log[M + 1].session # log[j].session
        BY <1>3, <4>1 DEF RequestAdmitted
      <4>5. log[j].client \in Clients
        BY LogOps
      <4>6. Changed(b, a, log[M + 1], M + 1, log[j].client)
        BY <1>2, <4>2, <4>5
      <4>7. a # None /\ a.user = b.user /\ a.epoch = b.epoch /\ a.watermark = b.watermark
        <5>1. CASE a = b
          BY <4>3, <5>1
        <5>2. CASE a = [user |-> b.user, epoch |-> b.epoch, watermark |-> b.watermark,
                        ended |-> M + 1, latest_commit |-> b.latest_commit]
          <6>1. b \in SlimEntry
            BY <4>2, <4>3, <4>5, NextOpAdmitted DEF Tables
          <6>2. a \in SlimEntry
            BY <1>1, <5>2, <6>1 DEF SlimEntry
          <6> QED BY <5>2, <6>2, EntryIsNotNone
        <5> QED BY <4>3, <4>4, <4>6, <5>1, <5>2 DEF Changed, RequestKinds
      <4> QED BY <3>2, <4>2, <4>3, <4>7
    <3>3. n \in Nat
      BY <1>1
    <3> QED BY <1>1, <2>2, <3>1, <3>2, <3>3
  <2> QED BY <1>3, <2>1, <2>2 DEF RequestAdmitted
<1>4. ASSUME NEW j \in 1..Len(log), NEW k \in 0..M, k < j, NEW D, RegisterAdmitted(M, T, j, k, D)
      PROVE  RegisterAdmitted(M + 1, T2, j, k, D)
  <2>1. ASSUME NEW n \in k..(j - 1), n <= M + 1
        PROVE  T2[n][log[j].client] = None /\ Present(T2[n]) \subseteq D
    <3>1. CASE n <= M
      <4>1. n \in 0..M
        BY <1>1, <3>1
      <4> QED BY <1>2, <1>4, <3>1, <4>1 DEF RegisterAdmitted
    <3>2. CASE n = M + 1
      <4>1. M \in k..(j - 1) /\ M + 1 \in (k + 1)..(j - 1) /\ M <= M
        BY <1>1, <3>2, <2>1
      <4>2. T[M][log[j].client] = None /\ Present(T[M]) \subseteq D
        BY <1>4, <4>1 DEF RegisterAdmitted
      <4>3. /\ log[M + 1].client = log[j].client => log[M + 1].kind = "finalize"
            /\ log[M + 1].kind = "register" => log[M + 1].client \in D
        BY <1>4, <4>1 DEF RegisterAdmitted
      <4>4. log[j].client \in Clients
        BY LogOps
      <4>5. T2[M + 1][log[j].client] = None
        BY <1>2, <4>2, <4>3, <4>4 DEF Changed, RequestKinds
      <4>6. ASSUME NEW c \in Clients, T2[M + 1][c] # None PROVE c \in D
        <5>1. CASE T[M][c] # None
          BY <4>2, <5>1 DEF Present
        <5>2. CASE T[M][c] = None
          BY <1>2, <4>3, <4>6, <5>2 DEF Changed
        <5> QED BY <5>1, <5>2
      <4> QED BY <3>2, <4>5, <4>6 DEF Present
    <3>3. n \in Nat
      BY <1>1
    <3> QED BY <1>1, <2>1, <3>1, <3>2, <3>3
  <2> QED BY <1>4, <2>1 DEF RegisterAdmitted
<1>5. ASSUME NEW j \in 1..Len(log), NEW k \in 0..M, FinalizeAdmitted(T, j, k)
      PROVE  FinalizeAdmitted(T2, j, k)
  BY <1>2, <1>5 DEF FinalizeAdmitted
<1>6. Admitted(M, T)
  BY DEF History
<1> SUFFICES ASSUME NEW j \in 1..Len(log)
             PROVE  /\ log[j].kind \in RequestKinds =>
                          \E k \in 0..(M + 1) : k < j /\ RequestAdmitted(M + 1, T2, j, k)
                    /\ log[j].kind = "register" =>
                          \E k \in 0..(M + 1) : k < j /\ \E D \in SUBSET Clients :
                             Cardinality(D) < Capacity /\ RegisterAdmitted(M + 1, T2, j, k, D)
                    /\ log[j].kind = "finalize" =>
                          \E k \in 0..(M + 1) : k < j /\ FinalizeAdmitted(T2, j, k)
  BY <1>0, <1>6 DEF Admitted, AdmittedOp
<1>7. ASSUME log[j].kind \in RequestKinds
      PROVE  \E k \in 0..(M + 1) : k < j /\ RequestAdmitted(M + 1, T2, j, k)
  <2>1. PICK k \in 0..M : k < j /\ RequestAdmitted(M, T, j, k)
    BY <1>6, <1>7 DEF Admitted, AdmittedOp
  <2> QED BY <1>1, <1>3, <2>1
<1>8. ASSUME log[j].kind = "register"
      PROVE  \E k \in 0..(M + 1) : k < j /\ \E D \in SUBSET Clients :
                Cardinality(D) < Capacity /\ RegisterAdmitted(M + 1, T2, j, k, D)
  <2>1. PICK k \in 0..M : k < j /\ \E D \in SUBSET Clients :
                Cardinality(D) < Capacity /\ RegisterAdmitted(M, T, j, k, D)
    BY <1>6, <1>8 DEF Admitted, AdmittedOp
  <2> QED BY <1>1, <1>4, <2>1
<1>9. ASSUME log[j].kind = "finalize"
      PROVE  \E k \in 0..(M + 1) : k < j /\ FinalizeAdmitted(T2, j, k)
  <2>1. PICK k \in 0..M : k < j /\ FinalizeAdmitted(T, j, k)
    BY <1>6, <1>9 DEF Admitted, AdmittedOp
  <2> QED BY <1>1, <1>5, <2>1
<1> QED BY <1>7, <1>8, <1>9

\* The tables of the log reach any committed op, one at a time.
LEMMA Extend ==
    ASSUME Types, NEW M, NEW T, NEW A, History(M, T, A), M < commit
    PROVE  History(M + 1, NextT(M, T, A), NextA(M, T, A))
<1>0. PICK T2, A2 : T2 = NextT(M, T, A) /\ A2 = NextA(M, T, A)
  OBVIOUS
<1>1. M \in Nat
  BY NextOpAdmitted
<1>2. \A n \in 0..M : T2[n] = T[n] /\ A2[n] = A[n]
  BY <1>0, NextTables
<1>3. Hold(M + 1, T2, A2)
  BY <1>1, <1>2 DEF History, Hold, Holds
<1>4. Ran(M + 1, T2)
  BY <1>1, <1>2 DEF History, Ran
<1>5. Ends(M + 1, T2)
  BY <1>1, <1>2 DEF History, Ends
<1> QED BY <1>0, <1>3, <1>4, <1>5, ExtendDates, ExtendSessions, ExtendAdmission DEF History

\* The admission of an op is about the log up to it.
LEMMA AdmissionKept ==
    ASSUME NEW M \in Nat, NEW T, NEW j \in Nat, AdmittedOp(M, T, j),
           \A i \in 1..j : log'[i] = log[i], j > 0
    PROVE  AdmittedOp(M, T, j)'
<1>1. log'[j] = log[j]
  OBVIOUS
<1>2. ASSUME NEW k \in 0..M, k < j, RequestAdmitted(M, T, j, k)
      PROVE  RequestAdmitted(M, T, j, k)'
  <2>1. \A i \in (k + 1)..(j - 1) : log'[i] = log[i]
    OBVIOUS
  <2> QED BY <1>1, <1>2, <2>1 DEF RequestAdmitted
<1>3. ASSUME NEW k \in 0..M, k < j, NEW D, RegisterAdmitted(M, T, j, k, D)
      PROVE  RegisterAdmitted(M, T, j, k, D)'
  <2>1. \A i \in (k + 1)..(j - 1) : log'[i] = log[i]
    OBVIOUS
  <2> QED BY <1>1, <1>3, <2>1 DEF RegisterAdmitted
<1>4. ASSUME NEW k \in 0..M, FinalizeAdmitted(T, j, k) PROVE FinalizeAdmitted(T, j, k)'
  BY <1>1, <1>4 DEF FinalizeAdmitted
<1>5. log[j].kind \in RequestKinds => \E k \in 0..M : k < j /\ RequestAdmitted(M, T, j, k)'
  BY <1>2 DEF AdmittedOp
<1>6. log[j].kind = "register" => \E k \in 0..M : k < j /\ \E D \in SUBSET Clients :
            Cardinality(D) < Capacity /\ RegisterAdmitted(M, T, j, k, D)'
  BY <1>3 DEF AdmittedOp
<1>7. log[j].kind = "finalize" => \E k \in 0..M : k < j /\ FinalizeAdmitted(T, j, k)'
  BY <1>4 DEF AdmittedOp
<1> QED BY <1>1, <1>5, <1>6, <1>7 DEF AdmittedOp

-----------------------------------------------------------------------------
(* What a replica makes of its table is what the op makes of the protection *)

ReplyRecord == [request : Nat, commit : Nat, kind : RequestKinds \cup {"register", "logout"}]

\* A reply that is retained becomes the latest one.
LEMMA RetainedEntry ==
    ASSUME NEW e \in Entry, LatestOk(e), NEW reply \in ReplyRecord
    PROVE  /\ Retained(e, reply) \in Entry
           /\ Retained(e, reply).user = e.user /\ Retained(e, reply).epoch = e.epoch
           /\ Retained(e, reply).ended = e.ended
           /\ Retained(e, reply).watermark = reply.request
           /\ Retained(e, reply).latest_commit = reply.commit
           /\ Len(Retained(e, reply).ring) > 0 /\ Last(Retained(e, reply).ring) = reply
<1>1. e.ring \in Seq(ReplyRecord) /\ Len(e.ring) > 0 /\ Len(e.ring) \in Nat
  BY DEF Entry, Replies, ReplyRecord, LatestOk
<1>2. reply.request \in Nat /\ reply.commit \in Nat
  BY DEF ReplyRecord
<1>3. RingCapacity \in Nat /\ RingCapacity > 0
  BY ClientTableAssumption
<1> DEFINE grown == IF Len(e.ring) < RingCapacity THEN Append(e.ring, reply)
                    ELSE Append(Tail(e.ring), reply)
<1>4. grown \in Seq(ReplyRecord) /\ Len(grown) > 0 /\ Last(grown) = reply
  BY <1>1, <1>3 DEF Last
<1>5. push_latest(e, reply) = [user |-> e.user, epoch |-> e.epoch, watermark |-> e.watermark,
                               ended |-> e.ended, latest_commit |-> reply.commit, ring |-> grown]
  <2>1. push_latest(e, reply) = [e EXCEPT !.latest_commit = reply.commit, !.ring = grown]
    BY DEF push_latest
  <2> HIDE DEF grown
  <2> QED BY <2>1 DEF Entry
<1>6. CASE reply.request = e.watermark
  <2>1. Len(e.ring) \in DOMAIN e.ring /\ e.ring[Len(e.ring)].request = reply.request
    BY <1>1, <1>6 DEF LatestOk, Last
  <2> DEFINE ring == [i \in DOMAIN e.ring |->
                         IF e.ring[i].request = reply.request THEN reply ELSE e.ring[i]]
  <2>2. Retained(e, reply) = [e EXCEPT !.ring = ring, !.latest_commit = Last(ring).commit]
    BY <1>6, <2>1 DEF Retained
  <2>3. ring \in Seq(ReplyRecord) /\ Len(ring) = Len(e.ring) /\ Last(ring) = reply
    <3>n. PICK n \in Nat : n = Len(e.ring)
      BY <1>1
    <3>1. DOMAIN e.ring = 1..n /\ n > 0 /\ \A i \in 1..n : e.ring[i] \in ReplyRecord
      BY <1>1, <3>n
    <3>2. ring = [i \in 1..n |-> IF e.ring[i].request = reply.request THEN reply ELSE e.ring[i]]
      BY <3>1
    <3>3. ring \in Seq(ReplyRecord) /\ Len(ring) = n
      BY <3>1, <3>2
    <3>4. ring[n] = reply
      BY <2>1, <3>1, <3>2, <3>n
    <3> QED BY <3>3, <3>4, <3>n DEF Last
  <2> HIDE DEF ring
  <2>4. Retained(e, reply) = [user |-> e.user, epoch |-> e.epoch, watermark |-> e.watermark,
                              ended |-> e.ended, latest_commit |-> reply.commit, ring |-> ring]
    BY <2>2, <2>3 DEF Entry
  <2> QED BY <1>1, <1>2, <1>6, <2>3, <2>4 DEF Entry, Replies, ReplyRecord
<1>7. CASE reply.request # e.watermark
  <2>1. Retained(e, reply) = [push_latest(e, reply) EXCEPT !.watermark = reply.request]
    BY <1>7 DEF Retained
  <2> HIDE DEF grown
  <2>2. Retained(e, reply) = [user |-> e.user, epoch |-> e.epoch, watermark |-> reply.request,
                              ended |-> e.ended, latest_commit |-> reply.commit, ring |-> grown]
    BY <1>5, <2>1
  <2> QED BY <1>1, <1>2, <1>4, <2>2 DEF Entry, Replies, ReplyRecord
<1> QED BY <1>6, <1>7

\* The protection of a table.
LEMMA SlimFields ==
    ASSUME NEW e \in Entry \cup {None}
    PROVE  /\ Slim(e) = None <=> e = None
           /\ e # None => /\ Slim(e) \in SlimEntry /\ e \in Entry
                          /\ Slim(e).user = e.user /\ Slim(e).epoch = e.epoch
                          /\ Slim(e).watermark = e.watermark /\ Slim(e).ended = e.ended
                          /\ Slim(e).latest_commit = e.latest_commit
<1>1. e # None => /\ Slim(e) \in SlimEntry /\ e \in Entry
                  /\ Slim(e).user = e.user /\ Slim(e).epoch = e.epoch
                  /\ Slim(e).watermark = e.watermark /\ Slim(e).ended = e.ended
                  /\ Slim(e).latest_commit = e.latest_commit
  BY DEF Slim, SlimEntry, Entry
<1> QED BY <1>1, EntryIsNotNone DEF Slim

\* An entry of the table changed: the protection changed at that client only.
LEMMA SlimUpdate ==
    ASSUME NEW t \in [Clients -> Entry \cup {None}], NEW c \in Clients, NEW e
    PROVE  SlimTable([t EXCEPT ![c] = e]) = [SlimTable(t) EXCEPT ![c] = Slim(e)]
BY DEF SlimTable

\* The entry a client has in the protection of a table.
LEMMA SlimAt ==
    ASSUME NEW t, TableOk(t), NEW c \in Clients
    PROVE  /\ SlimTable(t)[c] = Slim(t[c]) /\ t[c] \in Entry \cup {None}
           /\ SlimTable(t)[c] = None <=> t[c] = None
           /\ t[c] # None => /\ SlimTable(t)[c].user = t[c].user /\ SlimTable(t)[c].epoch = t[c].epoch
                             /\ SlimTable(t)[c].watermark = t[c].watermark
                             /\ SlimTable(t)[c].ended = t[c].ended
                             /\ SlimTable(t)[c].latest_commit = t[c].latest_commit
                             /\ t[c] \in Entry /\ LatestOk(t[c])
                             /\ t[c].user \in Users /\ t[c].epoch \in Nat /\ t[c].watermark \in Nat
                             /\ t[c].ended \in Nat /\ t[c].latest_commit \in Nat
<1>1. SlimTable(t)[c] = Slim(t[c]) /\ t[c] \in Entry \cup {None}
  BY DEF SlimTable, TableOk
<1>2. t[c] # None => LatestOk(t[c])
  BY DEF TableOk
<1> QED BY <1>1, <1>2, SlimFields DEF Entry

\* A table with one entry replaced.
LEMMA TableUpdate ==
    ASSUME NEW t, TableOk(t), NEW c \in Clients, NEW e \in Entry \cup {None}, e # None => LatestOk(e)
    PROVE  /\ TableOk([t EXCEPT ![c] = e])
           /\ SlimTable([t EXCEPT ![c] = e]) = [SlimTable(t) EXCEPT ![c] = Slim(e)]
BY SlimUpdate DEF TableOk

\* commit_register.
LEMMA RegisterSlim ==
    ASSUME NEW t, TableOk(t), NEW users, NEW op \in OpRecord, op.user \in Users, NEW at \in Nat, at > 0,
           NEW t2, t2 = IF op.user \notin users \/ t[op.client] # None THEN t
                        ELSE [t EXCEPT ![op.client] = registered(op, at)]
    PROVE  TableOk(t2) /\ SlimTable(t2) = AfterRegister(SlimTable(t), users, op, at)
<1>0. op.client \in Clients
  BY DEF OpRecord
<1>1. registered(op, at) \in Entry /\ LatestOk(registered(op, at))
  <2>1. <<[request |-> 0, commit |-> at, kind |-> "register"]>> \in Replies
    BY DEF Replies
  <2> QED BY <2>1 DEF registered, Entry, LatestOk, Last
<1>2. Slim(registered(op, at)) = Fresh(op, at)
  <2>1. registered(op, at) # None
    BY <1>1, EntryIsNotNone
  <2> QED BY <2>1 DEF Slim, registered, Fresh
<1>3. SlimTable(t)[op.client] = None <=> t[op.client] = None
  BY <1>0, SlimAt
<1> QED BY <1>0, <1>1, <1>2, <1>3, TableUpdate DEF AfterRegister

LogoutReply(t, op, at) == commit_reply(t[op.client], op.user, Reply(op, at))
LogoutTable(t, op, at) ==
    [t EXCEPT ![op.client] = [LogoutReply(t, op, at).entry EXCEPT !.ended = at]]

\* commit_logout: its reply is retained, unless the logout is late.
LEMMA LogoutSlim ==
    ASSUME NEW t, TableOk(t), NEW op \in OpRecord, op.kind = "logout", NEW at \in Nat, at > 0, op.request > 0,
           t[op.client] # None => /\ t[op.client].latest_commit < at
                                  /\ t[op.client].watermark <= EXPIRED_SESSION_REQUEST_ID,
           ~LateLogout(t[op.client], op)
    PROVE  /\ LogoutReply(t, op, at).outcome = "Cached" /\ TableOk(LogoutTable(t, op, at))
           /\ SlimTable(LogoutTable(t, op, at)) = AfterLogout(SlimTable(t), op, at)
<1>a. PICK kept, t2 : kept = LogoutReply(t, op, at) /\ t2 = LogoutTable(t, op, at)
  OBVIOUS
<1>0. op.client \in Clients /\ op.request \in Nat
  BY DEF OpRecord
<1>1. PICK e \in Entry : e = t[op.client] /\ LatestOk(e) /\ e # None
  BY <1>0, SlimAt DEF LateLogout
<1>2. /\ e.user = op.user /\ e.ended = 0 /\ e.latest_commit < at /\ e.latest_commit \in Nat
      /\ e.watermark \in Nat /\ e.watermark <= op.request
  BY <1>0, <1>1, ClientTableAssumption DEF LateLogout, Entry, EXPIRED_SESSION_REQUEST_ID
<1>3. Reply(op, at) \in ReplyRecord /\ Reply(op, at).request = op.request /\ Reply(op, at).commit = at
      /\ Reply(op, at).kind = "logout"
  BY <1>0 DEF Reply, ReplyRecord
<1>4. ~Regresses(e, Reply(op, at))
  BY <1>0, <1>2, <1>3 DEF Regresses
<1>5. kept.outcome = "Cached" /\ kept.entry = Retained(e, Reply(op, at))
  BY <1>a, <1>1, <1>2, <1>4 DEF commit_reply, LogoutReply
<1>6. PICK f \in Entry : /\ f = Retained(e, Reply(op, at)) /\ f.user = e.user /\ f.epoch = e.epoch
                         /\ f.watermark = op.request /\ f.latest_commit = at
                         /\ Len(f.ring) > 0 /\ Last(f.ring) = Reply(op, at)
  BY <1>1, <1>3, RetainedEntry
<1>7. PICK g \in Entry : /\ g = [f EXCEPT !.ended = at] /\ g.user = e.user /\ g.epoch = e.epoch
                         /\ g.watermark = op.request /\ g.latest_commit = at /\ g.ended = at
                         /\ g.ring = f.ring
  <2>1. [f EXCEPT !.ended = at] = [user |-> f.user, epoch |-> f.epoch, watermark |-> f.watermark,
                                   ended |-> at, latest_commit |-> f.latest_commit, ring |-> f.ring]
    BY DEF Entry
  <2>2. [f EXCEPT !.ended = at] \in Entry
    BY <2>1 DEF Entry
  <2> QED BY <1>6, <2>1, <2>2
<1>8. LatestOk(g)
  BY <1>0, <1>3, <1>6, <1>7 DEF LatestOk
<1>9. Slim(g) = [user |-> e.user, epoch |-> e.epoch, watermark |-> op.request, ended |-> at,
                 latest_commit |-> at]
  BY <1>7, EntryIsNotNone DEF Slim
<1>10. t2 = [t EXCEPT ![op.client] = g]
  BY <1>a, <1>5, <1>6, <1>7 DEF LogoutTable
<1>11. TableOk(t2) /\ SlimTable(t2) = [SlimTable(t) EXCEPT ![op.client] = Slim(g)]
  <2>1. g \in Entry \cup {None} /\ (g # None => LatestOk(g))
    BY <1>8
  <2>2. TableOk([t EXCEPT ![op.client] = g])
        /\ SlimTable([t EXCEPT ![op.client] = g]) = [SlimTable(t) EXCEPT ![op.client] = Slim(g)]
    BY <1>0, <2>1, TableUpdate
  <2> QED BY <1>10, <2>2
<1>12. ~LateLogout(SlimTable(t)[op.client], op) /\ SlimTable(t)[op.client].user = e.user
       /\ SlimTable(t)[op.client].epoch = e.epoch
  BY <1>0, <1>1, SlimAt DEF LateLogout
<1> QED BY <1>a, <1>5, <1>9, <1>11, <1>12 DEF AfterLogout

\* A late logout changes nothing in the protection either.
LEMMA LateSlim ==
    ASSUME NEW t, TableOk(t), NEW op \in OpRecord, NEW at
    PROVE  /\ LateLogout(t[op.client], op) <=> LateLogout(SlimTable(t)[op.client], op)
           /\ LateLogout(t[op.client], op) => AfterLogout(SlimTable(t), op, at) = SlimTable(t)
<1>0. op.client \in Clients
  BY DEF OpRecord
<1>1. LateLogout(t[op.client], op) <=> LateLogout(SlimTable(t)[op.client], op)
  BY <1>0, SlimAt DEF LateLogout
<1> QED BY <1>1 DEF AfterLogout

\* finalize_session.
LEMMA FinalizeSlim ==
    ASSUME NEW t, TableOk(t), NEW op \in OpRecord, NEW exact \in BOOLEAN,
           exact <=> /\ t[op.client] # None /\ t[op.client].ended # 0
                     /\ t[op.client].ended = op.request /\ t[op.client].epoch = op.session,
           NEW t2, t2 = IF exact /\ ~op.moved THEN [t EXCEPT ![op.client] = None] ELSE t
    PROVE  TableOk(t2) /\ SlimTable(t2) = AfterFinalize(SlimTable(t), op)
<1>0. op.client \in Clients
  BY DEF OpRecord
<1>1. TableOk([t EXCEPT ![op.client] = None])
      /\ SlimTable([t EXCEPT ![op.client] = None]) = [SlimTable(t) EXCEPT ![op.client] = None]
  <2>1. Slim(None) = None
    BY DEF Slim
  <2> QED BY <1>0, <2>1, TableUpdate
<1>2. exact <=> /\ SlimTable(t)[op.client] # None /\ SlimTable(t)[op.client].ended # 0
                /\ SlimTable(t)[op.client].ended = op.request
                /\ SlimTable(t)[op.client].epoch = op.session
  BY <1>0, SlimAt
<1> QED BY <1>1, <1>2 DEF AfterFinalize

\* A revocation ends the sessions of its user.
LEMMA EndSlim ==
    ASSUME NEW t, TableOk(t), NEW u, NEW at \in Nat, at > 0,
           \A c \in Clients : t[c] # None => t[c].latest_commit < at,
           NEW t2, t2 = end_user_sessions(t, u, at)
    PROVE  /\ TableOk(t2) /\ SlimTable(t2) = [c \in Clients |-> Ended(SlimTable(t)[c], u, at)]
           /\ \A c \in Clients :
                 /\ t2[c] = None <=> t[c] = None
                 /\ t2[c] # None => t2[c].epoch = t[c].epoch /\ t2[c].latest_commit = t[c].latest_commit
                 /\ t2[c] # t[c] => t2[c] # None /\ t[c].ended = 0 /\ t2[c].ended = at
<1>1. ASSUME NEW c \in Clients
      PROVE  /\ t2[c] \in Entry \cup {None} /\ (t2[c] # None => LatestOk(t2[c]))
             /\ Slim(t2[c]) = Ended(SlimTable(t)[c], u, at)
             /\ t2[c] = None <=> t[c] = None
             /\ t2[c] # None => t2[c].epoch = t[c].epoch /\ t2[c].latest_commit = t[c].latest_commit
             /\ t2[c] # t[c] => t2[c] # None /\ t[c].ended = 0 /\ t2[c].ended = at
  <2>0. PICK e : e = t[c]
    OBVIOUS
  <2>1. t2[c] = IF e = None THEN None ELSE IF e.user = u /\ e.ended = 0 THEN [e EXCEPT !.ended = at] ELSE e
    BY <2>0 DEF end_user_sessions
  <2>2. CASE e # None /\ e.user = u /\ e.ended = 0
    <3>1. e \in Entry /\ LatestOk(e) /\ e.latest_commit < at
      BY <2>0, <2>2, SlimAt
    <3>2. [e EXCEPT !.ended = at] = [user |-> e.user, epoch |-> e.epoch, watermark |-> e.watermark,
                                     ended |-> at, latest_commit |-> e.latest_commit, ring |-> e.ring]
      BY <3>1 DEF Entry
    <3>3. PICK f \in Entry : f = [e EXCEPT !.ended = at]
      <4>1. [e EXCEPT !.ended = at] \in Entry
        BY <3>1, <3>2 DEF Entry
      <4> QED BY <4>1
    <3>4. /\ t2[c] = f /\ f.user = e.user /\ f.epoch = e.epoch /\ f.watermark = e.watermark
          /\ f.ended = at /\ f.latest_commit = e.latest_commit /\ f.ring = e.ring /\ f # None
      BY <2>1, <2>2, <3>2, <3>3, EntryIsNotNone
    <3>5. LatestOk(f)
      BY <3>1, <3>4 DEF LatestOk
    <3>6. Slim(f) = [user |-> e.user, epoch |-> e.epoch, watermark |-> e.watermark, ended |-> at,
                     latest_commit |-> e.latest_commit]
      BY <3>4 DEF Slim
    <3>7. Ended(SlimTable(t)[c], u, at) = [user |-> e.user, epoch |-> e.epoch,
              watermark |-> e.watermark, ended |-> at, latest_commit |-> e.latest_commit]
      BY <2>0, <2>2, SlimAt DEF Ended
    <3> QED BY <2>0, <2>2, <3>4, <3>5, <3>6, <3>7
  <2>3. CASE ~(e # None /\ e.user = u /\ e.ended = 0)
    <3>1. t2[c] = e
      BY <2>1, <2>3
    <3>2. Ended(SlimTable(t)[c], u, at) = SlimTable(t)[c]
      BY <2>0, <2>3, SlimAt DEF Ended
    <3> QED BY <2>0, <3>1, <3>2, SlimAt
  <2> QED BY <2>2, <2>3
<1>2. t2 = [c \in Clients |-> t2[c]]
  BY DEF end_user_sessions
<1>3. TableOk(t2)
  BY <1>1, <1>2 DEF TableOk
<1>4. SlimTable(t2) = [c \in Clients |-> Ended(SlimTable(t)[c], u, at)]
  BY <1>1 DEF SlimTable
<1> QED BY <1>1, <1>3, <1>4

\* A request finds its session as the protection says.
LEMMA RunsSlim ==
    ASSUME NEW t, TableOk(t), NEW op \in OpRecord, op.session > 0
    PROVE  reject_stale_session(t, op) <=> ~Runs(SlimTable(t), op)
<1>1. op.client \in Clients /\ op.session \in Nat
  BY DEF OpRecord
<1> QED BY <1>1, SlimAt DEF reject_stale_session, get_epoch, Runs, Live

\* apply_request: the reply is retained, or the session ended before.
LEMMA RequestSlim ==
    ASSUME NEW t, TableOk(t), NEW op \in OpRecord, op.kind \in RequestKinds, op.session > 0,
           op.request > 0, NEW at \in Nat, at > 0,
           \A c \in Clients : t[c] # None => t[c].latest_commit < at /\ t[c].ended < at,
           t[op.client] # None, t[op.client].user = op.user, t[op.client].watermark < op.request,
           NEW runs \in BOOLEAN, runs <=> ~reject_stale_session(t, op),
           NEW revoked, revoked = IF runs /\ op.kind = "revoke"
                                  THEN end_user_sessions(t, op.target, at) ELSE t,
           NEW kept, kept = commit_reply(revoked[op.client], op.user, Reply(op, at)),
           NEW t2, t2 = [revoked EXCEPT ![op.client] = kept.entry]
    PROVE  /\ kept.outcome \notin {"NoEntry", "SkippedRegression"}
           /\ TableOk(t2) /\ SlimTable(t2) = AfterRequest(SlimTable(t), op, at)
           /\ \A c \in Clients : revoked[c] # None =>
                 t2[c] # None /\ t2[c].ended = revoked[c].ended /\ t2[c].epoch = revoked[c].epoch
<1>0. op.client \in Clients /\ op.request \in Nat
  BY DEF OpRecord
<1>1. runs <=> Runs(SlimTable(t), op)
  BY RunsSlim
<1>2. /\ TableOk(revoked) /\ SlimTable(revoked) = Revoked(SlimTable(t), op, at)
      /\ revoked[op.client] # None
      /\ revoked[op.client] # t[op.client] => op.kind = "revoke" /\ revoked[op.client].ended = at
      /\ revoked[op.client].latest_commit < at
  <2>1. CASE runs /\ op.kind = "revoke"
    <3>1. revoked = end_user_sessions(t, op.target, at)
      BY <2>1
    <3> QED BY <1>0, <1>1, <2>1, <3>1, EndSlim DEF Revoked
  <2>2. CASE ~(runs /\ op.kind = "revoke")
    BY <1>0, <1>1, <2>2 DEF Revoked
  <2> QED BY <2>1, <2>2
<1>3. PICK e \in Entry : e = revoked[op.client] /\ LatestOk(e)
  BY <1>0, <1>2, SlimAt
<1>4. e.user = op.user /\ e.watermark < op.request
  <2>1. CASE runs /\ op.kind = "revoke"
    <3>1. e = IF t[op.client].user = op.target /\ t[op.client].ended = 0
              THEN [t[op.client] EXCEPT !.ended = at] ELSE t[op.client]
      BY <1>0, <1>3, <2>1 DEF end_user_sessions
    <3>2. t[op.client] \in Entry
      BY <1>0, SlimAt
    <3>3. e.user = t[op.client].user /\ e.watermark = t[op.client].watermark
      BY <3>1, <3>2 DEF Entry
    <3> QED BY <3>3
  <2>2. CASE ~(runs /\ op.kind = "revoke")
    BY <1>3, <2>2
  <2> QED BY <2>1, <2>2
<1>5. e.ended \in Nat /\ e.watermark \in Nat /\ e.latest_commit \in Nat /\ e.latest_commit < at /\ e # None
  BY <1>2, <1>3, EntryIsNotNone DEF Entry
<1>6. Reply(op, at) \in ReplyRecord /\ Reply(op, at).request = op.request /\ Reply(op, at).commit = at
      /\ Reply(op, at).kind = op.kind
  BY <1>0 DEF Reply, ReplyRecord
<1>7. ~Regresses(e, Reply(op, at))
  BY <1>0, <1>4, <1>5, <1>6 DEF Regresses
<1>8. PICK es : es = SlimTable(revoked)[op.client]
  OBVIOUS
<1>9. /\ es.user = e.user /\ es.epoch = e.epoch /\ es.watermark = e.watermark /\ es.ended = e.ended
      /\ es.latest_commit = e.latest_commit /\ es = Slim(e)
  BY <1>0, <1>2, <1>3, <1>8, SlimAt
<1>10. PICK f : f = kept.entry
  OBVIOUS
<1>11. /\ kept.outcome \in {"SessionEnded", "Cached"} /\ f \in Entry /\ LatestOk(f)
       /\ Slim(f) = Answered(es, op, at) /\ f.ended = e.ended /\ f.epoch = e.epoch
  <2>1. CASE e.ended # 0 /\ at > e.ended
    <3>1. kept.outcome = "SessionEnded" /\ f = e
      BY <1>3, <1>4, <1>5, <1>6, <1>7, <1>10, <2>1 DEF commit_reply
    <3>2. Answered(es, op, at) = es
      BY <1>9, <2>1 DEF Answered
    <3> QED BY <1>3, <1>9, <3>1, <3>2
  <2>2. CASE ~(e.ended # 0 /\ at > e.ended)
    <3>1. kept.outcome = "Cached" /\ f = Retained(e, Reply(op, at))
      BY <1>3, <1>4, <1>5, <1>6, <1>7, <1>10, <2>2 DEF commit_reply
    <3>2. /\ f \in Entry /\ f.user = e.user /\ f.epoch = e.epoch /\ f.ended = e.ended
          /\ f.watermark = op.request /\ f.latest_commit = at
          /\ Len(f.ring) > 0 /\ Last(f.ring) = Reply(op, at)
      BY <1>3, <1>6, <3>1, RetainedEntry
    <3>3. e.ended # 0 => op.kind = "revoke" /\ e.ended = at
      BY <1>0, <1>2, <1>3, <1>5, <2>2
    <3>4. LatestOk(f)
      BY <1>0, <1>6, <3>2, <3>3 DEF LatestOk, RequestKinds
    <3>5. Slim(f) = [user |-> e.user, epoch |-> e.epoch, watermark |-> op.request,
                     ended |-> e.ended, latest_commit |-> at]
      BY <3>2, EntryIsNotNone DEF Slim
    <3>6. Answered(es, op, at) = [user |-> e.user, epoch |-> e.epoch, watermark |-> op.request,
                                  ended |-> e.ended, latest_commit |-> at]
      BY <1>9, <2>2 DEF Answered
    <3> QED BY <3>1, <3>2, <3>4, <3>5, <3>6
  <2> QED BY <2>1, <2>2
<1>12. TableOk(t2) /\ SlimTable(t2) = [SlimTable(revoked) EXCEPT ![op.client] = Slim(f)]
  <2>1. f \in Entry \cup {None} /\ (f # None => LatestOk(f))
    BY <1>11
  <2>2. TableOk([revoked EXCEPT ![op.client] = f])
        /\ SlimTable([revoked EXCEPT ![op.client] = f]) = [SlimTable(revoked) EXCEPT ![op.client] = Slim(f)]
    BY <1>0, <1>2, <2>1, TableUpdate
  <2> QED BY <1>10, <2>2
<1>13. AfterRequest(SlimTable(t), op, at) = [SlimTable(revoked) EXCEPT ![op.client] = Answered(es, op, at)]
  BY <1>2, <1>8 DEF AfterRequest
<1>14. ASSUME NEW c \in Clients, revoked[c] # None
       PROVE  t2[c] # None /\ t2[c].ended = revoked[c].ended /\ t2[c].epoch = revoked[c].epoch
  <2>1. t2[c] = IF c = op.client THEN f ELSE revoked[c]
    BY <1>2, <1>10 DEF TableOk
  <2> QED BY <1>3, <1>11, <1>14, <2>1, EntryIsNotNone
<1> QED BY <1>11, <1>12, <1>13, <1>14

-----------------------------------------------------------------------------
(* apply_committed_prepare *)

\* A replica that applied n ops applies the next: it holds the next table, the ops that
\* ran were live, and the sessions that ended are not.
AppliedAs(r, n, T, A) ==
    /\ \E t2 : TableOk(t2) /\ table' = [table EXCEPT ![r] = t2] /\ SlimTable(t2) = T[n + 1]
    /\ active' = [active EXCEPT ![r] = A[n + 1]]
    /\ ~fatal'
    /\ executed' = executed \/ (/\ executed' = executed \cup {n + 1}
                                /\ log[n + 1].kind \in RequestKinds /\ Runs(T[n], log[n + 1]))
    /\ \A e \in ends' : e \in ends \/ (/\ e.at = n + 1 /\ e.client \in Clients /\ e.session \in 0..e.at
                                       /\ ~Live(T[n + 1], e.client, e.session))

\* What the invariant says of a replica that has an op to apply.
LEMMA ReplicaFacts ==
    ASSUME Types, NEW M, NEW T, NEW A, History(M, T, A), NEW r \in Replicas, NEW n, n = applied[r], n < M
    PROVE  /\ n \in 0..M /\ n \in Nat /\ n < commit /\ n + 1 \in 0..M
           /\ TableOk(table[r]) /\ SlimTable(table[r]) = T[n] /\ active[r] = A[n]
           /\ T[n + 1] = TableAfter(T[n], A[n], log[n + 1], n + 1)
           /\ A[n + 1] = ActiveAfter(T[n], A[n], log[n + 1])
           /\ \A c \in Clients : table[r][c] # None =>
                 /\ table[r][c].ended < n + 1 /\ table[r][c].latest_commit < n + 1
                 /\ table[r][c].epoch <= n /\ table[r][c].epoch > 0 /\ table[r][c].epoch \in Nat
                 /\ table[r][c].watermark <= EXPIRED_SESSION_REQUEST_ID
<1>1. M \in Nat /\ M <= commit /\ commit \in Nat
  BY DEF History, Starts, Types
<1>2. n \in 0..M /\ SlimTable(table[r]) = T[n] /\ active[r] = A[n]
  BY DEF History, Hold, Holds
<1>3. n \in Nat /\ n < commit /\ n \in 0..(M - 1) /\ n + 1 \in 0..M
  BY <1>1, <1>2
<1>4. TableOk(table[r])
  BY DEF Types
<1>5. ASSUME NEW c \in Clients, table[r][c] # None
      PROVE  /\ table[r][c].ended < n + 1 /\ table[r][c].latest_commit < n + 1
             /\ table[r][c].epoch <= n /\ table[r][c].epoch > 0 /\ table[r][c].epoch \in Nat
             /\ table[r][c].watermark <= EXPIRED_SESSION_REQUEST_ID
  <2>1. /\ table[r][c].ended = T[n][c].ended /\ table[r][c].latest_commit = T[n][c].latest_commit
        /\ table[r][c].epoch = T[n][c].epoch /\ table[r][c].watermark = T[n][c].watermark
        /\ table[r][c].epoch \in Nat /\ T[n][c] # None
    BY <1>2, <1>4, <1>5, SlimAt
  <2>2. /\ T[n][c].ended < n + 1 /\ T[n][c].latest_commit < n + 1
        /\ T[n][c].epoch <= n /\ T[n][c].epoch > 0
        /\ T[n][c].watermark <= EXPIRED_SESSION_REQUEST_ID
    BY <1>2, <1>3, <2>1, OpAdmitted
  <2> QED BY <2>1, <2>2
<1> QED BY <1>2, <1>3, <1>4, <1>5 DEF History, Follows

\* An admitted registration finds room, and no entry of its client.
LEMMA RegisterApplies ==
    ASSUME Types, NEW M, NEW T, NEW A, History(M, T, A), NEW r \in Replicas, NEW n, n = applied[r],
           n < M, commit_register(r)
    PROVE  AppliedAs(r, n, T, A)
<1>0. PICK op, t : op = log[n + 1] /\ t = table[r]
  OBVIOUS
<1>1. op.kind = "register" /\ op.client \in Clients /\ op \in OpRecord
  BY <1>0, ReplicaFacts, OpAdmitted DEF commit_register, Applies, Next_op
<1>2. /\ op.user \in Users /\ T[n][op.client] = None
      /\ Cardinality(Present(T[n])) < Capacity
  <2>1. n \in 0..M /\ n < commit /\ log[n + 1].kind = "register"
    BY <1>0, <1>1, ReplicaFacts
  <2>2. /\ log[n + 1].user \in Users /\ T[n][log[n + 1].client] = None
        /\ Cardinality(Present(T[n])) < Capacity
    BY <2>1, OpAdmitted
  <2> QED BY <1>0, <2>2
<1>3. t[op.client] = None
  BY <1>0, <1>1, <1>2, ReplicaFacts, SlimAt
<1>4. count(t) < Capacity /\ count(t) \in Nat /\ Capacity \in Nat
  <2>1. {c \in Clients : contains(t, c)} = Present(T[n])
    BY <1>0, ReplicaFacts, SlimAt DEF contains, Present
  <2>2. count(t) \in Nat
    BY ClientTableAssumption, FS_Subset, FS_CardinalityType DEF count
  <2> QED BY <1>2, <2>1, <2>2, ClientTableAssumption DEF count
<1>5. PICK t2 : t2 = IF op.user \notin active[r] \/ t[op.client] # None THEN t
                     ELSE [t EXCEPT ![op.client] = registered(op, n + 1)]
  OBVIOUS
<1>6. TableOk(t2) /\ SlimTable(t2) = AfterRegister(SlimTable(t), active[r], op, n + 1)
  <2>1. n + 1 \in Nat /\ n + 1 > 0 /\ TableOk(t)
    BY <1>0, ReplicaFacts
  <2> QED BY <1>1, <1>2, <1>5, <2>1, RegisterSlim
<1>7. SlimTable(t2) = T[n + 1] /\ A[n + 1] = active[r]
  <2>1. /\ TableAfter(T[n], A[n], op, n + 1) = AfterRegister(T[n], A[n], op, n + 1)
        /\ ActiveAfter(T[n], A[n], op) = A[n]
    BY <1>1 DEF TableAfter, ActiveAfter
  <2> QED BY <1>0, <1>6, <2>1, ReplicaFacts
<1>8. ~fatal' /\ UNCHANGED <<active, executed, ends>> /\ table' = [table EXCEPT ![r] = t2]
  <2>1. table \in [Replicas -> [Clients -> Entry \cup {None}]]
    BY DEF Types
  <2>2. table' = IF op.user \notin active[r] THEN table
                 ELSE [table EXCEPT ![r][op.client] = registered(op, n + 1)]
    BY <1>0, <1>3, <1>4 DEF commit_register, Next_op
  <2>3. ~fatal'
    <3>1. ~(count(table[r]) >= Capacity) /\ table[r][log[applied[r] + 1].client] = None
      BY <1>0, <1>3, <1>4
    <3> QED BY <3>1 DEF commit_register, Next_op
  <2>4. table' = [table EXCEPT ![r] = t2]
    BY <1>0, <1>3, <1>5, <2>1, <2>2
  <2> QED BY <2>3, <2>4 DEF commit_register
<1>9. active' = [active EXCEPT ![r] = A[n + 1]]
  BY <1>7, <1>8 DEF Types
<1> QED BY <1>6, <1>7, <1>8, <1>9 DEF AppliedAs

\* A logout that is not late is retained, and its session is not live from then on.
LEMMA LogoutApplies ==
    ASSUME Types, NEW M, NEW T, NEW A, History(M, T, A), NEW r \in Replicas, NEW n, n = applied[r],
           n < M, commit_logout(r)
    PROVE  AppliedAs(r, n, T, A)
<1>0. PICK op, t : op = log[n + 1] /\ t = table[r]
  OBVIOUS
<1>a. /\ n \in Nat /\ n \in 0..M /\ n < commit /\ n + 1 \in Nat /\ n + 1 > 0
      /\ TableOk(t) /\ SlimTable(t) = T[n] /\ active[r] = A[n]
      /\ T[n + 1] = TableAfter(T[n], A[n], op, n + 1) /\ A[n + 1] = ActiveAfter(T[n], A[n], op)
      /\ \A c \in Clients : t[c] # None =>
            /\ t[c].latest_commit < n + 1 /\ t[c].watermark <= EXPIRED_SESSION_REQUEST_ID
            /\ t[c].epoch <= n /\ t[c].epoch \in Nat
  BY <1>0, ReplicaFacts
<1>1. op.kind = "logout" /\ op.client \in Clients /\ op \in OpRecord /\ op.request > 0
  BY <1>0, <1>a, OpAdmitted DEF commit_logout, Applies, Next_op
<1>2. /\ TableAfter(T[n], A[n], op, n + 1) = AfterLogout(T[n], op, n + 1)
      /\ ActiveAfter(T[n], A[n], op) = A[n]
  BY <1>1 DEF TableAfter, ActiveAfter
<1>3. UNCHANGED <<active, executed>>
  BY DEF commit_logout
<1>4. active' = [active EXCEPT ![r] = A[n + 1]]
  BY <1>a, <1>2, <1>3 DEF Types
<1>5. table \in [Replicas -> [Clients -> Entry \cup {None}]]
  BY DEF Types
<1>6. CASE LateLogout(t[op.client], op)
  <2>1. ~fatal' /\ table' = table /\ ends' = ends
    BY <1>0, <1>6 DEF commit_logout, Next_op, LateLogout
  <2>2. SlimTable(t) = T[n + 1]
    BY <1>a, <1>1, <1>2, <1>6, LateSlim
  <2>3. table' = [table EXCEPT ![r] = t]
    BY <1>0, <1>5, <2>1
  <2> QED BY <1>a, <1>3, <1>4, <2>1, <2>2, <2>3 DEF AppliedAs
<1>7. CASE ~LateLogout(t[op.client], op)
  <2>1. PICK kept, t2 : kept = LogoutReply(t, op, n + 1) /\ t2 = LogoutTable(t, op, n + 1)
    OBVIOUS
  <2>2. PICK last : last = [kept.entry EXCEPT !.ended = n + 1]
    OBVIOUS
  <2>3. kept.outcome = "Cached" /\ TableOk(t2) /\ SlimTable(t2) = AfterLogout(SlimTable(t), op, n + 1)
    <3>1. t[op.client] # None => /\ t[op.client].latest_commit < n + 1
                                 /\ t[op.client].watermark <= EXPIRED_SESSION_REQUEST_ID
      BY <1>a, <1>1
    <3> QED BY <1>a, <1>1, <1>7, <2>1, <3>1, LogoutSlim
  <2>4. /\ ~fatal'
        /\ table' = [table EXCEPT ![r][op.client] = last]
        /\ ends' = ends \cup {[client |-> op.client, session |-> op.session, at |-> n + 1]}
    <3>1. /\ table[r][Next_op(r).client] # None
          /\ ~(IF table[r][Next_op(r).client] = None THEN TRUE
               ELSE \/ table[r][Next_op(r).client].epoch # Next_op(r).session
                    \/ table[r][Next_op(r).client].user # Next_op(r).user
                    \/ table[r][Next_op(r).client].ended # 0
                    \/ /\ Next_op(r).request <= table[r][Next_op(r).client].watermark
                       /\ Next_op(r).request # EXPIRED_SESSION_REQUEST_ID)
      BY <1>0, <1>7 DEF LateLogout, Next_op
    <3>2. Next_op(r) = op /\ applied[r] + 1 = n + 1 /\ table[r] = t
      BY <1>0 DEF Next_op
    <3> QED BY <2>1, <2>2, <2>3, <3>1, <3>2 DEF commit_logout, LogoutReply
  <2>5. table' = [table EXCEPT ![r] = t2]
    <3>1. t2 = [t EXCEPT ![op.client] = last]
      BY <2>1, <2>2 DEF LogoutTable
    <3> QED BY <1>0, <1>1, <1>5, <2>4, <3>1
  <2>6. op.session \in 0..(n + 1) /\ ~Live(T[n + 1], op.client, op.session)
    <3>1. t[op.client] # None /\ t[op.client].epoch = op.session
      BY <1>7 DEF LateLogout
    <3>2. ~LateLogout(T[n][op.client], op)
      BY <1>a, <1>1, <1>7, LateSlim
    <3>3. T[n + 1] = [T[n] EXCEPT ![op.client] = [user |-> @.user, epoch |-> @.epoch,
                         watermark |-> op.request, ended |-> n + 1, latest_commit |-> n + 1]]
      BY <1>a, <1>2, <3>2 DEF AfterLogout
    <3>4. T[n] \in Tables
      BY <1>a, OpAdmitted
    <3>5. T[n + 1][op.client].ended = n + 1
      BY <1>1, <3>3, <3>4 DEF Tables
    <3> QED BY <1>a, <1>1, <3>1, <3>5 DEF Live
  <2>7. SlimTable(t2) = T[n + 1]
    BY <1>a, <1>2, <2>3
  <2>8. ASSUME NEW e \in ends', e \notin ends
        PROVE  /\ e.at = n + 1 /\ e.client \in Clients /\ e.session \in 0..e.at
               /\ ~Live(T[n + 1], e.client, e.session)
    <3>1. e = [client |-> op.client, session |-> op.session, at |-> n + 1]
      BY <2>4, <2>8
    <3> QED BY <1>1, <2>6, <3>1
  <2> QED BY <1>3, <1>4, <2>3, <2>4, <2>5, <2>7, <2>8 DEF AppliedAs
<1> QED BY <1>6, <1>7

\* A finalization forgets the exact identity or nothing.
LEMMA FinalizeApplies ==
    ASSUME Types, NEW M, NEW T, NEW A, History(M, T, A), NEW r \in Replicas, NEW n, n = applied[r],
           n < M, ~fatal, finalize_session(r)
    PROVE  AppliedAs(r, n, T, A)
<1>0. PICK op, t : op = log[n + 1] /\ t = table[r]
  OBVIOUS
<1>a. /\ n \in 0..M /\ n < commit
      /\ TableOk(t) /\ SlimTable(t) = T[n] /\ active[r] = A[n]
      /\ T[n + 1] = TableAfter(T[n], A[n], op, n + 1) /\ A[n + 1] = ActiveAfter(T[n], A[n], op)
  BY <1>0, ReplicaFacts
<1>1. op.kind = "finalize" /\ op.client \in Clients /\ op \in OpRecord
  BY <1>0, <1>a, OpAdmitted DEF finalize_session, Applies, Next_op
<1>2. /\ TableAfter(T[n], A[n], op, n + 1) = AfterFinalize(T[n], op)
      /\ ActiveAfter(T[n], A[n], op) = A[n]
  BY <1>1 DEF TableAfter, ActiveAfter
<1>3. UNCHANGED <<active, executed, ends, fatal>>
  BY DEF finalize_session, history
<1>4. active' = [active EXCEPT ![r] = A[n + 1]]
  BY <1>a, <1>2, <1>3 DEF Types
<1>5. table \in [Replicas -> [Clients -> Entry \cup {None}]]
  BY DEF Types
<1>6. PICK exact \in BOOLEAN :
          exact <=> /\ t[op.client] # None /\ t[op.client].ended # 0
                    /\ t[op.client].ended = op.request /\ t[op.client].epoch = op.session
  OBVIOUS
<1>7. PICK t2 : t2 = IF exact /\ ~op.moved THEN [t EXCEPT ![op.client] = None] ELSE t
  OBVIOUS
<1>8. TableOk(t2) /\ SlimTable(t2) = AfterFinalize(SlimTable(t), op)
  BY <1>a, <1>1, <1>6, <1>7, FinalizeSlim
<1>9. table' = [table EXCEPT ![r] = t2]
  <2>1. table' = IF exact /\ ~op.moved THEN [table EXCEPT ![r][op.client] = None] ELSE table
    BY <1>0, <1>6 DEF finalize_session, Next_op
  <2> QED BY <1>0, <1>1, <1>5, <1>7, <2>1
<1> QED BY <1>a, <1>2, <1>3, <1>4, <1>8, <1>9 DEF AppliedAs

\* An admitted request is retained, and runs only in a live session.
LEMMA RequestApplies ==
    ASSUME Types, NEW M, NEW T, NEW A, History(M, T, A), NEW r \in Replicas, NEW n, n = applied[r],
           n < M, apply_request(r)
    PROVE  AppliedAs(r, n, T, A)
<1>0. PICK op, t : op = log[n + 1] /\ t = table[r]
  OBVIOUS
<1>a. /\ n \in Nat /\ n \in 0..M /\ n < commit /\ n + 1 \in Nat /\ n + 1 > 0
      /\ TableOk(t) /\ SlimTable(t) = T[n] /\ active[r] = A[n]
      /\ T[n + 1] = TableAfter(T[n], A[n], op, n + 1) /\ A[n + 1] = ActiveAfter(T[n], A[n], op)
      /\ \A c \in Clients : t[c] # None =>
            /\ t[c].latest_commit < n + 1 /\ t[c].ended < n + 1
            /\ t[c].epoch <= n /\ t[c].epoch \in Nat
  BY <1>0, ReplicaFacts
<1>1. op.kind \in RequestKinds /\ op.client \in Clients /\ op \in OpRecord
  BY <1>0, <1>a, OpAdmitted DEF apply_request, Applies, Next_op, RequestKinds
<1>2. /\ op.session > 0 /\ op.request > 0 /\ T[n][op.client] # None
      /\ T[n][op.client].user = op.user /\ T[n][op.client].watermark < op.request
  BY <1>0, <1>a, <1>1, OpAdmitted
<1>3. t[op.client] # None /\ t[op.client].user = op.user /\ t[op.client].watermark < op.request
  BY <1>a, <1>1, <1>2, SlimAt
<1>4. TableAfter(T[n], A[n], op, n + 1) = AfterRequest(T[n], op, n + 1)
  BY <1>1 DEF TableAfter, RequestKinds
<1>5. PICK runs \in BOOLEAN : runs <=> ~reject_stale_session(t, op)
  OBVIOUS
<1>6. PICK revoked : revoked = IF runs /\ op.kind = "revoke"
                               THEN end_user_sessions(t, op.target, n + 1) ELSE t
  OBVIOUS
<1>7. PICK kept : kept = commit_reply(revoked[op.client], op.user, Reply(op, n + 1))
  OBVIOUS
<1>8. PICK t2 : t2 = [revoked EXCEPT ![op.client] = kept.entry]
  OBVIOUS
<1>9. /\ kept.outcome \notin {"NoEntry", "SkippedRegression"}
      /\ TableOk(t2) /\ SlimTable(t2) = AfterRequest(SlimTable(t), op, n + 1)
      /\ \A c \in Clients : revoked[c] # None =>
            t2[c] # None /\ t2[c].ended = revoked[c].ended /\ t2[c].epoch = revoked[c].epoch
  BY <1>a, <1>1, <1>2, <1>3, <1>5, <1>6, <1>7, <1>8, RequestSlim
<1>10. runs <=> Runs(T[n], op)
  BY <1>a, <1>1, <1>2, <1>5, RunsSlim
<1>11. /\ ~fatal' /\ table' = [table EXCEPT ![r] = t2]
       /\ executed' = IF runs THEN executed \cup {n + 1} ELSE executed
       /\ ends' = ends \cup {[client |-> c, session |-> revoked[c].epoch, at |-> n + 1] :
                                c \in {d \in Clients : revoked[d] # t[d]}}
       /\ active' = IF ~runs THEN active
                    ELSE CASE op.kind = "revoke" -> [active EXCEPT ![r] = @ \ {op.target}]
                           [] op.kind = "activate" -> [active EXCEPT ![r] = @ \cup {op.target}]
                           [] OTHER -> active
  <2>1. Next_op(r) = op /\ applied[r] + 1 = n + 1 /\ table[r] = t
    BY <1>0 DEF Next_op
  <2>2. revoked = IF ~reject_stale_session(t, op) /\ op.kind = "revoke"
                  THEN end_user_sessions(t, op.target, n + 1) ELSE t
    BY <1>5, <1>6
  <2>3. runs = ~reject_stale_session(t, op)
    BY <1>5 DEF reject_stale_session
  <2>4. /\ fatal' = (kept.outcome \in {"NoEntry", "SkippedRegression"})
        /\ table' = [table EXCEPT ![r] = [revoked EXCEPT ![op.client] = kept.entry]]
    BY <1>7, <2>1, <2>2 DEF apply_request
  <2>5. executed' = IF runs THEN executed \cup {n + 1} ELSE executed
    BY <2>1, <2>3 DEF apply_request
  <2>6. ends' = ends \cup {[client |-> c, session |-> revoked[c].epoch, at |-> n + 1] :
                              c \in {d \in Clients : revoked[d] # t[d]}}
    BY <2>1, <2>2 DEF apply_request
  <2>7. active' = IF ~runs THEN active
                  ELSE CASE op.kind = "revoke" -> [active EXCEPT ![r] = @ \ {op.target}]
                         [] op.kind = "activate" -> [active EXCEPT ![r] = @ \cup {op.target}]
                         [] OTHER -> active
    BY <2>1, <2>3 DEF apply_request
  <2> QED BY <1>8, <1>9, <2>4, <2>5, <2>6, <2>7
<1>12. active' = [active EXCEPT ![r] = A[n + 1]]
  <2>1. active \in [Replicas -> SUBSET Users]
    BY DEF Types
  <2>2. A[n + 1] = IF op.kind = "revoke" /\ runs THEN active[r] \ {op.target}
                   ELSE IF op.kind = "activate" /\ runs THEN active[r] \cup {op.target}
                   ELSE active[r]
    BY <1>a, <1>10 DEF ActiveAfter
  <2> QED BY <1>1, <1>11, <2>1, <2>2 DEF RequestKinds
<1>13. ASSUME NEW c \in Clients, revoked[c] # t[c]
       PROVE  revoked[c].epoch \in 0..(n + 1) /\ ~Live(T[n + 1], c, revoked[c].epoch)
  <2>1. revoked = end_user_sessions(t, op.target, n + 1)
    BY <1>6, <1>13
  <2>2. revoked[c] # None /\ revoked[c].epoch = t[c].epoch /\ revoked[c].ended = n + 1 /\ t[c] # None
    <3>1. \A d \in Clients : t[d] # None => t[d].latest_commit < n + 1
      BY <1>a
    <3> QED BY <1>a, <1>13, <2>1, <3>1, EndSlim
  <2>3. t2[c] # None /\ t2[c].ended = n + 1
    BY <1>9, <2>2
  <2>4. T[n + 1][c].ended = n + 1
    BY <1>a, <1>4, <1>9, <2>3, SlimAt
  <2> QED BY <1>a, <2>2, <2>4 DEF Live
<1>14. SlimTable(t2) = T[n + 1]
  BY <1>a, <1>4, <1>9
<1>15. executed' = executed \/ (/\ executed' = executed \cup {n + 1}
                                /\ log[n + 1].kind \in RequestKinds /\ Runs(T[n], log[n + 1]))
  BY <1>0, <1>1, <1>10, <1>11
<1>16. ASSUME NEW e \in ends', e \notin ends
       PROVE  /\ e.at = n + 1 /\ e.client \in Clients /\ e.session \in 0..e.at
              /\ ~Live(T[n + 1], e.client, e.session)
  <2>1. PICK c \in Clients : /\ revoked[c] # t[c]
                             /\ e = [client |-> c, session |-> revoked[c].epoch, at |-> n + 1]
    BY <1>11, <1>16
  <2> QED BY <1>13, <2>1
<1> QED BY <1>9, <1>11, <1>12, <1>14, <1>15, <1>16 DEF AppliedAs

\* Applying an op keeps the invariant.
LEMMA ApplyKeeps == ASSUME IInv, NEW r \in Replicas, Apply(r) PROVE IInv'
<1>0. /\ ~fatal /\ applied[r] < commit /\ applied' = [applied EXCEPT ![r] = @ + 1]
      /\ UNCHANGED <<log, commit, primary, inherited, snap>>
  BY DEF Apply, commit_register, commit_logout, finalize_session, apply_request, Applies, consensus
<1>1. Types
  BY DEF IInv
<1>2. PICK M, T, A : History(M, T, A) /\ applied[r] < M
  <2>1. PICK M, T, A : History(M, T, A)
    BY DEF IInv
  <2>2. applied[r] \in 0..M /\ M \in Nat /\ commit \in Nat
    BY <1>1, <2>1 DEF History, Hold, Holds, Starts, Types
  <2>3. CASE applied[r] < M
    BY <2>1, <2>3
  <2>4. CASE ~(applied[r] < M)
    <3>1. M = applied[r] /\ M < commit /\ applied[r] < M + 1
      BY <1>0, <2>2, <2>4
    <3>2. History(M + 1, NextT(M, T, A), NextA(M, T, A))
      BY <1>1, <2>1, <3>1, Extend
    <3> QED BY <3>1, <3>2
  <2> QED BY <2>3, <2>4
<1>3. PICK n : n = applied[r]
  OBVIOUS
<1>4. n \in Nat /\ n \in 0..M /\ n + 1 \in 0..M /\ n + 1 \in 1..M /\ M \in Nat
  BY <1>1, <1>2, <1>3, ReplicaFacts DEF History, Starts, Types
<1>5. AppliedAs(r, n, T, A)
  <2>1. CASE commit_register(r)
    BY <1>1, <1>2, <1>3, <2>1, RegisterApplies
  <2>2. CASE commit_logout(r)
    BY <1>1, <1>2, <1>3, <2>2, LogoutApplies
  <2>3. CASE finalize_session(r)
    BY <1>0, <1>1, <1>2, <1>3, <2>3, FinalizeApplies
  <2>4. CASE apply_request(r)
    BY <1>1, <1>2, <1>3, <2>4, RequestApplies
  <2> QED BY <2>1, <2>2, <2>3, <2>4 DEF Apply
<1>6. PICK t2 : TableOk(t2) /\ table' = [table EXCEPT ![r] = t2] /\ SlimTable(t2) = T[n + 1]
  BY <1>5 DEF AppliedAs
<1>7. /\ A \in [0..M -> SUBSET Users] /\ active \in [Replicas -> SUBSET Users]
      /\ table \in [Replicas -> [Clients -> Entry \cup {None}]] /\ applied \in [Replicas -> Nat]
  BY <1>1, <1>2 DEF History, Starts, Types
<1>8. /\ active' \in [Replicas -> SUBSET Users]
      /\ table' \in [Replicas -> [Clients -> Entry \cup {None}]] /\ applied' \in [Replicas -> Nat]
  BY <1>0, <1>4, <1>5, <1>6, <1>7 DEF AppliedAs, TableOk
<1>9. \A q \in Replicas : TableOk(table'[q])
  BY <1>1, <1>6, <1>7 DEF Types
<1>10. Types'
  BY <1>0, <1>1, <1>8, <1>9 DEF Types
<1>11. Starts(M, T, A)' /\ Follows(M, T, A)' /\ Dated(M, T)' /\ Inert(M, T)' /\ Covers(M, T)'
  BY <1>0, <1>2 DEF History, Starts, Follows, Dated, Inert, Covers
<1>12. Admitted(M, T)'
  <2> SUFFICES ASSUME NEW j \in 1..Len(log) PROVE AdmittedOp(M, T, j)'
    BY <1>0 DEF Admitted
  <2>1. AdmittedOp(M, T, j) /\ j \in Nat /\ j > 0
    BY <1>1, <1>2 DEF History, Admitted, Types
  <2> QED BY <1>0, <1>4, <2>1, AdmissionKept
<1>13. Hold(M, T, A)'
  <2> SUFFICES ASSUME NEW q \in Replicas
               PROVE  /\ Holds(M, T, A, applied'[q], table'[q], active'[q])
                      /\ Holds(M, T, A, snap'[q].op, snap'[q].table, snap'[q].active)
    BY DEF Hold, Holds
  <2>1. /\ Holds(M, T, A, applied[q], table[q], active[q])
        /\ Holds(M, T, A, snap[q].op, snap[q].table, snap[q].active)
    BY <1>2 DEF History, Hold
  <2>2. CASE q # r
    <3>1. applied'[q] = applied[q] /\ table'[q] = table[q] /\ active'[q] = active[q]
      BY <1>0, <1>5, <1>6, <1>7, <2>2 DEF AppliedAs
    <3> QED BY <1>0, <2>1, <3>1
  <2>3. CASE q = r
    <3>1. applied'[q] = n + 1 /\ table'[q] = t2 /\ active'[q] = A[n + 1]
      BY <1>0, <1>3, <1>5, <1>6, <1>7, <2>3 DEF AppliedAs
    <3>2. Holds(M, T, A, applied'[q], table'[q], active'[q])
      BY <1>4, <1>6, <3>1 DEF Holds
    <3> QED BY <1>0, <2>1, <3>2
  <2> QED BY <2>2, <2>3
<1>14. Ran(M, T)'
  <2> SUFFICES ASSUME NEW i \in executed'
               PROVE  /\ i \in 1..M /\ log[i].kind \in RequestKinds
                      /\ Live(T[i - 1], log[i].client, log[i].session)
    BY <1>0 DEF Ran
  <2>1. CASE i \in executed
    BY <1>2, <2>1 DEF History, Ran
  <2>2. CASE i \notin executed
    <3>1. i = n + 1 /\ log[n + 1].kind \in RequestKinds /\ Runs(T[n], log[n + 1]) /\ i - 1 = n
      BY <1>4, <1>5, <2>2 DEF AppliedAs
    <3> QED BY <1>4, <3>1 DEF Runs
  <2> QED BY <2>1, <2>2
<1>15. Ends(M, T)'
  <2> SUFFICES ASSUME NEW e \in ends'
               PROVE  /\ e.at \in 1..M /\ e.session \in 0..e.at /\ e.client \in Clients
                      /\ ~Live(T[e.at], e.client, e.session)
    BY DEF Ends
  <2>1. CASE e \in ends
    BY <1>2, <2>1 DEF History, Ends
  <2>2. CASE e \notin ends
    BY <1>4, <1>5, <2>2 DEF AppliedAs
  <2> QED BY <2>1, <2>2
<1>16. History(M, T, A)'
  BY <1>11, <1>12, <1>13, <1>14, <1>15 DEF History
<1>17. ~fatal'
  BY <1>5 DEF AppliedAs
<1> QED BY <1>10, <1>16, <1>17 DEF IInv

-----------------------------------------------------------------------------
(* Admission, view changes and restarts *)

\* The log grows or is cut above the commit point.
LEMMA LogChanges ==
    ASSUME Types, Types', ~fatal, NEW M, NEW T, NEW A, History(M, T, A),
           UNCHANGED <<applied, table, active, snap, fatal, executed, ends>>,
           M <= commit', M <= Len(log'),
           \A i \in 1..Len(log) : i <= Len(log') => log'[i] = log[i],
           \A j \in 1..Len(log') : j <= Len(log) \/ AdmittedOp(M, T, j)'
    PROVE  IInv'
<1>0. /\ M \in Nat /\ M <= Len(log) /\ Len(log) \in Nat /\ Len(log') \in Nat
      /\ commit' \in Nat
  BY DEF History, Starts, Types
<1>1. \A i \in 1..M : log'[i] = log[i]
  BY <1>0
<1>2. Starts(M, T, A)' /\ Dated(M, T)' /\ Inert(M, T)'
  BY <1>0 DEF History, Starts, Dated, Inert
<1>3. Follows(M, T, A)'
  <2> SUFFICES ASSUME NEW n \in 0..(M - 1)
               PROVE  /\ T[n + 1] = TableAfter(T[n], A[n], log'[n + 1], n + 1)
                      /\ A[n + 1] = ActiveAfter(T[n], A[n], log'[n + 1])
    BY DEF Follows
  <2>1. n + 1 \in 1..M
    BY <1>0
  <2> QED BY <1>1, <2>1 DEF History, Follows
<1>4. Covers(M, T)'
  <2> SUFFICES ASSUME NEW n \in 0..M, NEW i \in 1..n, log'[i].kind \in RequestKinds,
                      Live(T[n], log'[i].client, log'[i].session)
               PROVE  log'[i].request <= T[n][log'[i].client].watermark
    BY DEF Covers
  <2>1. i \in 1..M
    BY <1>0
  <2> QED BY <1>1, <2>1 DEF History, Covers
<1>5. Hold(M, T, A)'
  BY DEF History, Hold
<1>6. Ran(M, T)'
  BY <1>1 DEF History, Ran
<1>7. Ends(M, T)'
  BY DEF History, Ends
<1>8. Admitted(M, T)'
  <2> SUFFICES ASSUME NEW j \in 1..Len(log') PROVE AdmittedOp(M, T, j)'
    BY DEF Admitted
  <2>1. CASE j <= Len(log)
    <3>1. j \in 1..Len(log) /\ log'[j] = log[j]
      BY <1>0, <2>1
    <3>2. AdmittedOp(M, T, j)
      BY <3>1 DEF History, Admitted
    <3>3. j \in Nat /\ j > 0 /\ \A i \in 1..j : log'[i] = log[i]
      BY <1>0, <3>1
    <3> QED BY <1>0, <3>2, <3>3, AdmissionKept
  <2> QED BY <2>1
<1>9. History(M, T, A)'
  BY <1>2, <1>3, <1>4, <1>5, <1>6, <1>7, <1>8 DEF History
<1> QED BY <1>9 DEF IInv

\* What a primary that applied all it knows committed sees.
LEMMA CaughtUp ==
    ASSUME Types, NEW M, NEW T, NEW A, History(M, T, A), is_caught_up_primary
    PROVE  /\ M = commit /\ M \in Nat /\ M \in 0..M /\ M <= Len(log) /\ Len(log) \in Nat
           /\ TableOk(Table) /\ SlimTable(Table) = T[M] /\ active[primary] = A[M]
           /\ Pending = (M + 1)..Len(log)
           /\ \A c \in Clients : Table[c] # None =>
                 /\ T[M][c] # None /\ T[M][c].user = Table[c].user /\ T[M][c].epoch = Table[c].epoch
                 /\ T[M][c].watermark = Table[c].watermark /\ T[M][c].ended = Table[c].ended
                 /\ Table[c].epoch \in 1..M /\ Table[c].ended \in Nat /\ Table[c].watermark \in Nat
                 /\ Table[c].user \in Users
           /\ \A c \in Clients : Table[c] = None => T[M][c] = None
<1>1. /\ primary \in Replicas /\ commit \in Nat /\ commit <= Len(log) /\ Len(log) \in Nat
      /\ inherited \in Nat /\ inherited <= commit
  BY DEF Types
<1>2. /\ applied[primary] \in 0..M /\ M \in 0..commit /\ M \in Nat
      /\ SlimTable(Table) = T[applied[primary]] /\ active[primary] = A[applied[primary]]
      /\ TableOk(Table)
  BY <1>1 DEF History, Starts, Hold, Holds, Types, Table
<1>3. M = commit /\ M = applied[primary]
  BY <1>1, <1>2 DEF is_caught_up_primary
<1>4. Pending = (M + 1)..Len(log)
  BY <1>1, <1>3 DEF Pending
<1>5. ASSUME NEW c \in Clients, Table[c] # None
      PROVE  /\ T[M][c] # None /\ T[M][c].user = Table[c].user /\ T[M][c].epoch = Table[c].epoch
             /\ T[M][c].watermark = Table[c].watermark /\ T[M][c].ended = Table[c].ended
             /\ Table[c].epoch \in 1..M /\ Table[c].ended \in Nat /\ Table[c].watermark \in Nat
             /\ Table[c].user \in Users
  <2>1. /\ T[M][c] # None /\ T[M][c].user = Table[c].user /\ T[M][c].epoch = Table[c].epoch
        /\ T[M][c].watermark = Table[c].watermark /\ T[M][c].ended = Table[c].ended
        /\ T[M][c].latest_commit = Table[c].latest_commit
        /\ Table[c].epoch \in Nat /\ Table[c].ended \in Nat /\ Table[c].watermark \in Nat
        /\ Table[c].user \in Users /\ Table[c].latest_commit \in Nat
    BY <1>2, <1>3, <1>5, SlimAt
  <2>2. 0 < T[M][c].epoch /\ T[M][c].epoch <= T[M][c].latest_commit /\ T[M][c].latest_commit <= M
    BY <1>2, <2>1 DEF History, Dated
  <2> QED BY <1>2, <2>1, <2>2
<1>6. ASSUME NEW c \in Clients, Table[c] = None PROVE T[M][c] = None
  BY <1>2, <1>3, <1>6, SlimAt
<1> QED BY <1>1, <1>2, <1>3, <1>4, <1>5, <1>6

\* An op that is admitted may be appended.
LEMMA PrepareKeeps ==
    ASSUME ~fatal, Types, NEW M, NEW T, NEW A, History(M, T, A), NEW op \in OpRecord, Prepare(op),
           NEW n, n = Len(log), AdmittedOp(M, T, n + 1)'
    PROVE  IInv'
<1>1. /\ log \in Seq(OpRecord) /\ commit \in Nat /\ commit <= Len(log) /\ n \in Nat
      /\ M \in Nat /\ M <= commit
  BY DEF Types, History, Starts
<1>2. log' = Append(log, op) /\ UNCHANGED <<commit, primary, inherited>>
      /\ UNCHANGED <<applied, table, active, snap, fatal, executed, ends>>
  BY DEF Prepare, replicas, history
<1>3. /\ log' \in Seq(OpRecord) /\ Len(log') = n + 1
      /\ \A i \in 1..n : log'[i] = log[i]
  BY <1>1, <1>2
<1>4. Types'
  BY <1>1, <1>2, <1>3 DEF Types
<1>5. M <= commit' /\ M <= Len(log')
  BY <1>1, <1>2, <1>3
<1>6. \A i \in 1..Len(log) : i <= Len(log') => log'[i] = log[i]
  BY <1>3
<1>7. \A j \in 1..Len(log') : j <= Len(log) \/ j = n + 1
  BY <1>1, <1>3
<1> QED BY <1>2, <1>4, <1>5, <1>6, <1>7, LogChanges

\* The log after an op was appended.
LEMMA Appended ==
    ASSUME Types, NEW op \in OpRecord, Prepare(op), NEW n, n = Len(log)
    PROVE  log'[n + 1] = op /\ (\A i \in 1..n : log'[i] = log[i]) /\ n \in Nat
BY DEF Types, Prepare

\* Requests: the session is live where it is admitted, and of its client only
\* finalizations of other sessions are in the pipeline.
LEMMA RequestIsAdmitted ==
    ASSUME IInv, NEW c \in Clients, NEW s \in Nat, NEW q \in 1..MaxRequest, request_admitted(c, s, q),
           NEW op \in OpRecord, Prepare(op), op.kind \in RequestKinds, op.client = c,
           op.user = Table[c].user, op.session = s, op.request = q,
           op.kind # "request" => op.target \in Users
    PROVE  IInv'
<1>0. PICK M, T, A, n : History(M, T, A) /\ n = Len(log)
  BY DEF IInv
<1>1. Types /\ ~fatal /\ is_caught_up_primary
  BY DEF IInv, request_admitted
<1>2. log'[n + 1] = op /\ (\A i \in 1..n : log'[i] = log[i]) /\ n \in Nat
  BY <1>0, <1>1, Appended
<1>3. /\ M \in Nat /\ M \in 0..M /\ M <= n
      /\ Pending = (M + 1)..n
  BY <1>0, <1>1, CaughtUp
<1>4. Table[c] # None
  BY DEF request_admitted, check_request
<1>5. /\ T[M][c] # None /\ T[M][c].user = Table[c].user /\ T[M][c].epoch = Table[c].epoch
      /\ T[M][c].watermark = Table[c].watermark /\ T[M][c].ended = Table[c].ended
      /\ Table[c].epoch \in 1..M /\ Table[c].ended \in Nat /\ Table[c].watermark \in Nat
      /\ Table[c].user \in Users
  BY <1>0, <1>1, <1>4, CaughtUp
<1>6. Table[c].ended = 0 /\ Table[c].epoch = s /\ q > Table[c].watermark
  BY <1>4, <1>5 DEF request_admitted, check_request
<1>7. Live(T[M], c, s)
  BY <1>5, <1>6 DEF Live
<1>8. ASSUME NEW i \in (M + 1)..n, log[i].client = c
      PROVE  log[i].kind = "finalize" /\ log[i].session # s
  <2>1. log[i].kind = "finalize"
    BY <1>3, <1>8 DEF request_admitted, pipeline_has_message_from_client
  <2>2. i \in 1..Len(log)
    BY <1>0, <1>2, <1>3
  <2>3. PICK k \in 0..M : FinalizeAdmitted(T, i, k)
    BY <1>0, <2>1, <2>2 DEF History, Admitted, AdmittedOp
  <2>4. log[i].session \in 0..k /\ ~Live(T[k], c, log[i].session)
    BY <1>8, <2>3 DEF FinalizeAdmitted
  <2>5. log[i].session = s => Live(T[k], c, s)
    BY <1>0, <1>3, <1>7, <2>4 DEF History, Inert
  <2> QED BY <2>1, <2>4, <2>5
<1>9. RequestAdmitted(M, T, n + 1, M)'
  <2>1. \A i \in (M + 1)..((n + 1) - 1) : i \in (M + 1)..n /\ log'[i] = log[i]
    BY <1>2, <1>3
  <2>2. \A m \in M..((n + 1) - 1) : m <= M => m = M
    BY <1>2, <1>3
  <2>3. Live(T[M], log'[n + 1].client, log'[n + 1].session)
    BY <1>2, <1>7
  <2>4. \A i \in (M + 1)..((n + 1) - 1) : log'[i].client = log'[n + 1].client =>
           log'[i].kind = "finalize" /\ log'[i].session # log'[n + 1].session
    BY <1>2, <1>8, <2>1
  <2>5. \A m \in M..((n + 1) - 1) : m <= M =>
          /\ T[m][log'[n + 1].client] # None /\ T[m][log'[n + 1].client].user = log'[n + 1].user
          /\ T[m][log'[n + 1].client].epoch = log'[n + 1].session
          /\ T[m][log'[n + 1].client].watermark < log'[n + 1].request
    BY <1>2, <1>5, <1>6, <2>2
  <2> QED BY <2>3, <2>4, <2>5 DEF RequestAdmitted
<1>10. AdmittedOp(M, T, n + 1)'
  <2>1. s \in 1..((n + 1) - 1) /\ M < n + 1
    BY <1>2, <1>3, <1>5, <1>6
  <2> QED BY <1>2, <1>3, <1>5, <1>9, <2>1 DEF AdmittedOp, RequestKinds
<1> QED BY <1>0, <1>1, <1>10, PrepareKeeps

\* The ops of a primary are ops.
LEMMA OpType ==
    ASSUME NEW kind \in RequestKinds \cup {"register", "logout", "finalize"}, NEW c \in Clients,
           NEW u \in Users \cup {Nobody}, NEW s \in Nat, NEW q \in Nat
    PROVE  /\ Op(kind, c, u, s, q) \in OpRecord
           /\ \A x \in Users : [Op(kind, c, u, s, q) EXCEPT !.target = x] \in OpRecord
           /\ \A x \in BOOLEAN : [Op(kind, c, u, s, q) EXCEPT !.moved = x] \in OpRecord
BY DEF Op, OpRecord

\* The op that opened a session is an op of the log.
LEMMA SessionType == ASSUME Types, NEW s \in Sessions PROVE s \in Nat /\ s > 0
BY DEF Sessions, Types

\* A session that is not over has an entry.
LEMMA EpochOfSession ==
    ASSUME Types, NEW c \in Clients, NEW s \in Nat, s > 0, get_epoch(Table, c) = s
    PROVE  Table[c] # None /\ Table[c].user \in Users
<1>1. Table[c] # None
  BY DEF get_epoch
<1>2. TableOk(Table)
  BY DEF Types, Table
<1> QED BY <1>1, <1>2, SlimAt

\* Requests and changes of users.
LEMMA RequestKeeps ==
    ASSUME IInv, NEW c \in Clients, NEW s \in Sessions, NEW q \in 1..MaxRequest,
           submit_request(c, s, q) \/ submit_user_change(c, s, q)
    PROVE  IInv'
<1>1. request_admitted(c, s, q) /\ Types /\ s \in Nat /\ q \in Nat
  BY SessionType DEF submit_request, submit_user_change, IInv
<1>2. Table[c].user \in Users
  <2>1. Table[c] # None /\ TableOk(Table)
    BY <1>1 DEF request_admitted, check_request, Types, Table
  <2> QED BY <2>1, SlimAt
<1>3. CASE submit_request(c, s, q)
  <2>1. PICK op : op = Op("request", c, Table[c].user, s, q)
    OBVIOUS
  <2>2. /\ op \in OpRecord /\ op.kind = "request" /\ op.client = c /\ op.user = Table[c].user
        /\ op.session = s /\ op.request = q
    BY <1>1, <1>2, <2>1, OpType DEF Op, RequestKinds
  <2>3. Prepare(op)
    BY <1>3, <2>1 DEF submit_request
  <2> QED BY <1>1, <2>2, <2>3, RequestIsAdmitted DEF RequestKinds
<1>4. CASE submit_user_change(c, s, q)
  <2>1. PICK kind \in {"revoke", "activate"}, u \in Users :
           Prepare([Op(kind, c, Table[c].user, s, q) EXCEPT !.target = u])
    BY <1>4 DEF submit_user_change
  <2>2. PICK op : op = [Op(kind, c, Table[c].user, s, q) EXCEPT !.target = u]
    OBVIOUS
  <2>3. /\ op.kind = kind /\ op.client = c /\ op.user = Table[c].user
        /\ op.session = s /\ op.request = q /\ op.target = u
    BY <2>2 DEF Op
  <2>4. op \in OpRecord
    BY <1>1, <1>2, <2>2, OpType DEF RequestKinds
  <2> QED BY <1>1, <2>1, <2>2, <2>3, <2>4, RequestIsAdmitted DEF RequestKinds
<1> QED BY <1>3, <1>4

\* Logouts: nothing of them need hold where they are applied.
LEMMA LogoutIsAdmitted ==
    ASSUME IInv, NEW c \in Clients, NEW u \in Users, NEW s \in Nat,
           NEW q \in 1..EXPIRED_SESSION_REQUEST_ID, Prepare(Op("logout", c, u, s, q))
    PROVE  IInv'
<1>0. PICK M, T, A, n : History(M, T, A) /\ n = Len(log)
  BY DEF IInv
<1>1. Types /\ ~fatal /\ q \in Nat
  BY ClientTableAssumption DEF IInv, EXPIRED_SESSION_REQUEST_ID
<1>2. PICK op : op = Op("logout", c, u, s, q)
  OBVIOUS
<1>3. op \in OpRecord /\ op.kind = "logout" /\ op.request = q
  BY <1>1, <1>2, OpType DEF Op
<1>4. Prepare(op)
  BY <1>2
<1>5. log'[n + 1] = op
  BY <1>0, <1>1, <1>3, <1>4, Appended
<1>6. AdmittedOp(M, T, n + 1)'
  BY <1>3, <1>5 DEF AdmittedOp, RequestKinds
<1> QED BY <1>0, <1>1, <1>3, <1>4, <1>6, PrepareKeeps

\* Logouts of a client and of the server.
LEMMA LogoutKeeps ==
    ASSUME IInv, NEW c \in Clients, NEW s \in Sessions,
           (\E q \in 1..MaxRequest : submit_logout(c, s, q)) \/ submit_expired_logout(c, s)
    PROVE  IInv'
<1>1. Types /\ s \in Nat /\ s > 0
  BY SessionType DEF IInv
<1>2. get_epoch(Table, c) = s
  BY DEF submit_logout, submit_expired_logout
<1>3. Table[c].user \in Users
  BY <1>1, <1>2, EpochOfSession
<1>4. MaxRequest \in Nat /\ EXPIRED_SESSION_REQUEST_ID = MaxRequest + 1
  BY ClientTableAssumption DEF EXPIRED_SESSION_REQUEST_ID
<1>5. PICK q \in 1..EXPIRED_SESSION_REQUEST_ID : Prepare(Op("logout", c, Table[c].user, s, q))
  BY <1>4 DEF submit_logout, submit_expired_logout
<1> QED BY <1>1, <1>3, <1>5, LogoutIsAdmitted

\* Registrations: the clients that have an entry or wait for one leave room for this one.
LEMMA RegisterKeeps ==
    ASSUME IInv, NEW c \in Clients, NEW u \in Users, submit_register(c, u) PROVE IInv'
<1>0. PICK M, T, A, n : History(M, T, A) /\ n = Len(log)
  BY DEF IInv
<1>1. Types /\ ~fatal /\ is_caught_up_primary
  BY DEF IInv, submit_register
<1>2. PICK op : op = Op("register", c, u, 0, 0)
  OBVIOUS
<1>3. op \in OpRecord /\ op.kind = "register" /\ op.client = c /\ op.user = u
  BY <1>2, OpType DEF Op
<1>4. Prepare(op)
  BY <1>2 DEF submit_register
<1>5. log'[n + 1] = op /\ (\A i \in 1..n : log'[i] = log[i]) /\ n \in Nat
  BY <1>0, <1>1, <1>3, <1>4, Appended
<1>6. /\ M \in Nat /\ M \in 0..M /\ M <= n
      /\ Pending = (M + 1)..n
      /\ \A d \in Clients : Table[d] = None => T[M][d] = None
      /\ \A d \in Clients : Table[d] # None => T[M][d] # None
  BY <1>0, <1>1, CaughtUp
<1>7. T[M][c] = None
  BY <1>6 DEF submit_register, contains
<1> DEFINE present == {d \in Clients : contains(Table, d)}
           waiting == {d \in Clients : pipeline_has_message_from_client(d) /\ ~contains(Table, d)}
<1>d. PICK D : D = present \cup waiting
  OBVIOUS
<1>8. Present(T[M]) \subseteq D
  BY <1>6, <1>d DEF Present, contains
<1>9. Cardinality(D) < Capacity /\ D \in SUBSET Clients
  <2>1. IsFiniteSet(present) /\ IsFiniteSet(waiting) /\ IsFiniteSet(present \cap waiting)
    <3>1. present \in SUBSET Clients /\ waiting \in SUBSET Clients
          /\ present \cap waiting \in SUBSET Clients
      OBVIOUS
    <3> QED BY <3>1, ClientTableAssumption, FS_Subset
  <2>2. /\ Cardinality(present) \in Nat /\ Cardinality(waiting) \in Nat
        /\ Cardinality(present \cap waiting) \in Nat
    BY <2>1, FS_CardinalityType
  <2>3. Cardinality(D) = Cardinality(present) + Cardinality(waiting) - Cardinality(present \cap waiting)
    BY <1>d, <2>1, FS_Union
  <2>4. Cardinality(present) + Cardinality(waiting) < Capacity
    <3>1. c \notin waiting
      BY DEF submit_register
    <3>2. c \in waiting \/ count(Table) + Cardinality(waiting) < Capacity
      BY DEF submit_register, has_retry_capacity
    <3> QED BY <3>1, <3>2 DEF count
  <2>5. Capacity \in Nat
    BY ClientTableAssumption
  <2>6. D \in SUBSET Clients
    BY <1>d
  <2> HIDE DEF present, waiting
  <2> QED BY <2>2, <2>3, <2>4, <2>5, <2>6
<1>10. ASSUME NEW i \in (M + 1)..n
       PROVE  /\ log[i].client = c => log[i].kind = "finalize"
              /\ log[i].kind = "register" => log[i].client \in D
  <2>1. log[i].client \in Clients
    <3>1. i \in 1..Len(log)
      BY <1>0, <1>5, <1>6
    <3> QED BY <1>1, <3>1, LogOps
  <2>2. log[i].kind # "finalize" => pipeline_has_message_from_client(log[i].client)
    BY <1>6 DEF pipeline_has_message_from_client
  <2> QED BY <1>d, <2>1, <2>2 DEF submit_register
<1>11. RegisterAdmitted(M, T, n + 1, M, D)'
  <2>1. \A i \in (M + 1)..((n + 1) - 1) : i \in (M + 1)..n /\ log'[i] = log[i]
    BY <1>5, <1>6
  <2>2. \A m \in M..((n + 1) - 1) : m <= M => m = M
    BY <1>5, <1>6
  <2>3. \A i \in (M + 1)..((n + 1) - 1) :
          /\ log'[i].client = log'[n + 1].client => log'[i].kind = "finalize"
          /\ log'[i].kind = "register" => log'[i].client \in D
    BY <1>3, <1>5, <1>10, <2>1
  <2>4. \A m \in M..((n + 1) - 1) : m <= M =>
          T[m][log'[n + 1].client] = None /\ Present(T[m]) \subseteq D
    BY <1>3, <1>5, <1>7, <1>8, <2>2
  <2> QED BY <2>3, <2>4 DEF RegisterAdmitted, Present
<1>12. AdmittedOp(M, T, n + 1)'
  <2>1. M < n + 1
    BY <1>5, <1>6
  <2> QED BY <2>1, <1>3, <1>5, <1>6, <1>9, <1>11 DEF AdmittedOp, RequestKinds
<1> QED BY <1>0, <1>1, <1>3, <1>4, <1>12, PrepareKeeps

\* Finalizations: the session they name is over.
LEMMA FinalizationKeeps ==
    ASSUME IInv, NEW c \in Clients, submit_session_finalization(c) PROVE IInv'
<1>0. PICK M, T, A, n : History(M, T, A) /\ n = Len(log)
  BY DEF IInv
<1>1. Types /\ ~fatal /\ is_caught_up_primary /\ Table[c] # None /\ Table[c].ended # 0
  BY DEF IInv, submit_session_finalization, contains
<1>2. /\ M \in Nat /\ M \in 0..M /\ M <= n
      /\ T[M][c].epoch = Table[c].epoch /\ T[M][c].ended = Table[c].ended
      /\ Table[c].epoch \in 1..M /\ Table[c].ended \in Nat
  BY <1>0, <1>1, CaughtUp
<1>3. PICK moved \in BOOLEAN :
         Prepare([Op("finalize", c, Nobody, Table[c].epoch, Table[c].ended) EXCEPT !.moved = moved])
  BY DEF submit_session_finalization
<1>4. PICK op : op = [Op("finalize", c, Nobody, Table[c].epoch, Table[c].ended) EXCEPT !.moved = moved]
  OBVIOUS
<1>5. op.kind = "finalize" /\ op.client = c /\ op.session = Table[c].epoch
  BY <1>4 DEF Op
<1>6. op \in OpRecord /\ Prepare(op)
  <2>1. Table[c].epoch \in Nat
    BY <1>2
  <2> QED BY <1>2, <1>3, <1>4, <2>1, OpType
<1>7. log'[n + 1] = op /\ n \in Nat
  BY <1>0, <1>1, <1>6, Appended
<1>8. FinalizeAdmitted(T, n + 1, M)'
  <2>1. ~Live(T[M], c, op.session)
    BY <1>1, <1>2 DEF Live
  <2>2. op.session \in 0..M
    BY <1>2, <1>5
  <2> QED BY <1>5, <1>7, <2>1, <2>2 DEF FinalizeAdmitted
<1>9. AdmittedOp(M, T, n + 1)'
  <2>1. M < n + 1
    BY <1>2, <1>7
  <2> QED BY <1>2, <1>5, <1>7, <1>8, <2>1 DEF AdmittedOp, RequestKinds
<1> QED BY <1>0, <1>1, <1>6, <1>9, PrepareKeeps

\* More is committed.
LEMMA CommitKeeps == ASSUME IInv, advance_commit_max PROVE IInv'
<1>0. PICK M, T, A : History(M, T, A)
  BY DEF IInv
<1>1. Types /\ ~fatal /\ M \in Nat /\ M <= commit /\ commit \in Nat /\ commit <= Len(log)
      /\ Len(log) \in Nat
  BY <1>0 DEF IInv, History, Starts, Types
<1>2. /\ commit' \in (commit + 1)..Len(log) /\ UNCHANGED <<log, primary, inherited>>
      /\ UNCHANGED <<applied, table, active, snap, fatal, executed, ends>>
  BY DEF advance_commit_max, replicas, history
<1>3. Types'
  BY <1>1, <1>2 DEF Types
<1>4. M <= commit' /\ M <= Len(log')
  BY <1>1, <1>2
<1>5. \A j \in 1..Len(log') : j <= Len(log)
  BY <1>1, <1>2
<1>6. \A i \in 1..Len(log) : log'[i] = log[i]
  BY <1>2
<1> QED BY <1>0, <1>1, <1>2, <1>3, <1>4, <1>5, <1>6, LogChanges

\* A view change cuts the log above the commit point.
LEMMA ViewKeeps == ASSUME IInv, NEW r \in Replicas, start_view(r) PROVE IInv'
<1>0. PICK M, T, A : History(M, T, A)
  BY DEF IInv
<1>1. Types /\ ~fatal /\ M \in Nat /\ M <= commit /\ commit \in Nat /\ commit <= Len(log)
      /\ Len(log) \in Nat /\ log \in Seq(OpRecord)
  BY <1>0 DEF IInv, History, Starts, Types
<1>2. /\ primary' = r /\ inherited' = commit /\ commit' = commit
      /\ UNCHANGED <<applied, table, active, snap, fatal, executed, ends>>
  BY DEF start_view, replicas, history
<1>3. PICK n \in commit..Len(log) : log' = SubSeq(log, 1, n)
  BY DEF start_view
<1>4. log' \in Seq(OpRecord) /\ Len(log') = n /\ n \in Nat /\ \A i \in 1..n : log'[i] = log[i]
  BY <1>1, <1>3
<1>5. Types'
  BY <1>1, <1>2, <1>3, <1>4 DEF Types
<1>6. M <= commit' /\ M <= Len(log')
  BY <1>1, <1>2, <1>3, <1>4
<1>7. \A j \in 1..Len(log') : j <= Len(log)
  BY <1>1, <1>3, <1>4
<1>8. \A i \in 1..Len(log) : i <= Len(log') => log'[i] = log[i]
  BY <1>1, <1>4
<1> QED BY <1>0, <1>1, <1>2, <1>5, <1>6, <1>7, <1>8, LogChanges

\* Nothing changed but what a replica holds, and it holds a table of the log.
LEMMA ReplicaChanges ==
    ASSUME ~fatal, NEW M, NEW T, NEW A, History(M, T, A), Types', Hold(M, T, A)',
           UNCHANGED <<log, commit, fatal, executed, ends>>
    PROVE  IInv'
<1>1. /\ Starts(M, T, A)' /\ Follows(M, T, A)' /\ Dated(M, T)' /\ Inert(M, T)' /\ Covers(M, T)'
      /\ Ran(M, T)' /\ Ends(M, T)'
  BY DEF History, Starts, Follows, Dated, Inert, Covers, Ran, Ends
<1>2. M \in Nat
  BY DEF History, Starts
<1>3. Admitted(M, T)'
  <2> SUFFICES ASSUME NEW j \in 1..Len(log) PROVE AdmittedOp(M, T, j)'
    BY DEF Admitted
  <2>1. AdmittedOp(M, T, j) /\ j \in Nat /\ j > 0
    BY DEF History, Admitted
  <2> QED BY <1>2, <2>1, AdmissionKept
<1> QED BY <1>1, <1>3 DEF History, IInv

\* A snapshot drops replies only, and never the latest.
LEMMA SnapshotKeeps ==
    ASSUME NEW t, TableOk(t)
    PROVE  TableOk(to_snapshot(t)) /\ SlimTable(to_snapshot(t)) = SlimTable(t)
<1>1. ASSUME NEW c \in Clients, t[c] # None
      PROVE  /\ to_snapshot(t)[c] \in Entry /\ LatestOk(to_snapshot(t)[c])
             /\ Slim(to_snapshot(t)[c]) = Slim(t[c])
  <2>1. PICK e : e = t[c]
    OBVIOUS
  <2>2. e \in Entry /\ LatestOk(e)
    BY <1>1, <2>1, SlimAt
  <2>3. e.ring \in Seq(ReplyRecord) /\ Len(e.ring) > 0 /\ Len(e.ring) \in Nat
    BY <2>2 DEF Entry, Replies, ReplyRecord, LatestOk
  <2>4. PICK last : last = Last(e.ring) /\ last \in ReplyRecord
    BY <2>3 DEF Last
  <2>5. PICK f : f = [user |-> e.user, epoch |-> e.epoch, watermark |-> e.watermark, ended |-> e.ended,
                      latest_commit |-> e.latest_commit, ring |-> <<last>>]
    OBVIOUS
  <2>6. to_snapshot(t)[c] = f
    <3>1. to_snapshot(t)[c] = [e EXCEPT !.ring = <<last>>]
      BY <1>1, <2>1, <2>4 DEF to_snapshot
    <3> QED BY <2>2, <2>5, <3>1 DEF Entry
  <2>7. <<last>> \in Replies /\ Len(<<last>>) = 1 /\ Last(<<last>>) = last
    BY <2>4 DEF Replies, ReplyRecord, Last
  <2>8. f \in Entry
    BY <2>2, <2>5, <2>7 DEF Entry
  <2>9. LatestOk(f)
    BY <2>2, <2>4, <2>5, <2>7 DEF LatestOk
  <2>10. Slim(f) = Slim(e)
    BY <2>2, <2>5, <2>8, EntryIsNotNone DEF Slim
  <2> QED BY <2>1, <2>6, <2>8, <2>9, <2>10
<1>2. ASSUME NEW c \in Clients, t[c] = None PROVE to_snapshot(t)[c] = None
  BY <1>2 DEF to_snapshot
<1>3. to_snapshot(t) = [c \in Clients |-> to_snapshot(t)[c]]
  BY DEF to_snapshot
<1>4. \A c \in Clients : to_snapshot(t)[c] \in Entry \cup {None}
                         /\ (to_snapshot(t)[c] # None => LatestOk(to_snapshot(t)[c]))
                         /\ Slim(to_snapshot(t)[c]) = Slim(t[c])
  BY <1>1, <1>2
<1> QED BY <1>3, <1>4 DEF TableOk, SlimTable

\* A checkpoint saves the table of the ops it covers.
LEMMA CheckpointKeeps == ASSUME IInv, NEW r \in Replicas, checkpoint(r) PROVE IInv'
<1>0. PICK M, T, A : History(M, T, A)
  BY DEF IInv
<1>1. Types /\ ~fatal /\ applied[r] \in Nat /\ active[r] \in SUBSET Users /\ TableOk(table[r])
      /\ snap \in [Replicas -> [op : Nat, table : [Clients -> Entry \cup {None}],
                                active : SUBSET Users]]
  BY DEF IInv, Types
<1>2. /\ snap' = [snap EXCEPT ![r] = [op |-> applied[r], table |-> to_snapshot(table[r]),
                                      active |-> active[r]]]
      /\ UNCHANGED <<log, commit, primary, inherited, applied, table, active, fatal, executed, ends>>
  BY DEF checkpoint, consensus, history
<1>3. PICK t : t = to_snapshot(table[r])
  OBVIOUS
<1>4. TableOk(t) /\ SlimTable(t) = SlimTable(table[r]) /\ t \in [Clients -> Entry \cup {None}]
  BY <1>1, <1>3, SnapshotKeeps DEF TableOk
<1>5. /\ snap'[r].op = applied[r] /\ snap'[r].table = t /\ snap'[r].active = active[r]
      /\ \A q \in Replicas : q # r => snap'[q] = snap[q]
      /\ snap' \in [Replicas -> [op : Nat, table : [Clients -> Entry \cup {None}],
                                 active : SUBSET Users]]
  BY <1>1, <1>2, <1>3, <1>4
<1>6. Types'
  <2>1. \A q \in Replicas : TableOk(snap'[q].table) /\ TableOk(table[q])
    BY <1>1, <1>4, <1>5 DEF Types
  <2> QED BY <1>1, <1>2, <1>5, <2>1 DEF Types
<1>7. Hold(M, T, A)'
  <2> SUFFICES ASSUME NEW q \in Replicas
               PROVE  /\ Holds(M, T, A, applied[q], table[q], active[q])
                      /\ Holds(M, T, A, snap'[q].op, snap'[q].table, snap'[q].active)
    BY <1>2 DEF Hold, Holds
  <2>1. /\ Holds(M, T, A, applied[q], table[q], active[q])
        /\ Holds(M, T, A, snap[q].op, snap[q].table, snap[q].active)
    BY <1>0 DEF History, Hold
  <2> QED BY <1>4, <1>5, <2>1 DEF Holds
<1> QED BY <1>0, <1>1, <1>2, <1>6, <1>7, ReplicaChanges

\* A restart goes back to the table of the snapshot's op.
LEMMA RestartKeeps == ASSUME IInv, NEW r \in Replicas, restart(r) PROVE IInv'
<1>0. PICK M, T, A : History(M, T, A)
  BY DEF IInv
<1>1. Types /\ ~fatal
      /\ snap[r].op \in Nat /\ snap[r].table \in [Clients -> Entry \cup {None}]
      /\ snap[r].active \in SUBSET Users /\ TableOk(snap[r].table)
      /\ applied \in [Replicas -> Nat] /\ active \in [Replicas -> SUBSET Users]
      /\ table \in [Replicas -> [Clients -> Entry \cup {None}]]
  BY DEF IInv, Types
<1>2. /\ applied' = [applied EXCEPT ![r] = snap[r].op]
      /\ table' = [table EXCEPT ![r] = snap[r].table]
      /\ active' = [active EXCEPT ![r] = snap[r].active]
      /\ UNCHANGED <<log, commit, primary, inherited, snap, fatal, executed, ends>>
  BY DEF restart, consensus, history
<1>3. /\ applied' \in [Replicas -> Nat] /\ active' \in [Replicas -> SUBSET Users]
      /\ table' \in [Replicas -> [Clients -> Entry \cup {None}]]
      /\ applied'[r] = snap[r].op /\ table'[r] = snap[r].table /\ active'[r] = snap[r].active
      /\ \A q \in Replicas : q # r =>
            applied'[q] = applied[q] /\ table'[q] = table[q] /\ active'[q] = active[q]
  BY <1>1, <1>2
<1>4. Types'
  <2>1. \A q \in Replicas : TableOk(snap[q].table) /\ TableOk(table'[q])
    BY <1>1, <1>3 DEF Types
  <2> QED BY <1>1, <1>2, <1>3, <2>1 DEF Types
<1>5. Hold(M, T, A)'
  <2> SUFFICES ASSUME NEW q \in Replicas
               PROVE  /\ Holds(M, T, A, applied'[q], table'[q], active'[q])
                      /\ Holds(M, T, A, snap[q].op, snap[q].table, snap[q].active)
    BY <1>2 DEF Hold, Holds
  <2>1. /\ Holds(M, T, A, applied[q], table[q], active[q])
        /\ Holds(M, T, A, snap[q].op, snap[q].table, snap[q].active)
    BY <1>0 DEF History, Hold
  <2> QED BY <1>3, <2>1
<1> QED BY <1>0, <1>1, <1>2, <1>4, <1>5, ReplicaChanges

-----------------------------------------------------------------------------
(* The theorems *)

\* Nothing is logged at first, and every table is empty.
LEMMA InitIInv == Init => IInv
<1> SUFFICES ASSUME Init PROVE IInv
  OBVIOUS
<1>1. PICK empty : empty = [c \in Clients |-> None]
  OBVIOUS
<1>2. /\ empty \in [Clients -> Entry \cup {None}] /\ empty \in [Clients -> SlimEntry \cup {None}]
      /\ TableOk(empty) /\ SlimTable(empty) = empty
  BY <1>1 DEF TableOk, SlimTable, Slim
<1>3. /\ log = <<>> /\ Len(log) = 0 /\ commit = 0 /\ executed = {} /\ ends = {}
      /\ primary \in Replicas /\ inherited = 0
      /\ applied = [r \in Replicas |-> 0] /\ table = [r \in Replicas |-> empty]
      /\ active = [r \in Replicas |-> Users]
      /\ snap = [r \in Replicas |-> [op |-> 0, table |-> empty, active |-> Users]]
  BY <1>1 DEF Init
<1>4. Types
  BY <1>2, <1>3 DEF Types
<1>5. PICK T, A : T = [n \in 0..0 |-> empty] /\ A = [n \in 0..0 |-> Users]
  OBVIOUS
<1>6. 0 \in 0..0 /\ T[0] = empty /\ A[0] = Users /\ \A n \in 0..0 : n = 0
  BY <1>5
<1>7. Starts(0, T, A) /\ Follows(0, T, A)
  BY <1>1, <1>2, <1>3, <1>5, <1>6 DEF Starts, Follows
<1>8. \A n \in 0..0 : \A c \in Clients : T[n][c] = None
  BY <1>1, <1>6
<1>9. Dated(0, T) /\ Inert(0, T) /\ Covers(0, T)
  BY <1>6, <1>8 DEF Dated, Inert, Covers, Live
<1>10. Admitted(0, T) /\ Ran(0, T) /\ Ends(0, T)
  BY <1>3 DEF Admitted, Ran, Ends
<1>11. Hold(0, T, A)
  BY <1>2, <1>3, <1>6 DEF Hold, Holds
<1>12. ~fatal
  BY DEF Init
<1> QED BY <1>4, <1>7, <1>9, <1>10, <1>11, <1>12 DEF IInv, History

\* A step that changes none of the variables.
LEMMA StutterIInv == ASSUME IInv, UNCHANGED vars PROVE IInv'
<1>0. PICK M, T, A : History(M, T, A)
  BY DEF IInv
<1>1. UNCHANGED <<log, commit, primary, inherited, applied, table, active, snap, fatal, executed, ends>>
  BY DEF vars, consensus, replicas, history
<1>2. Types' /\ ~fatal
  BY <1>1 DEF IInv, Types
<1>3. Hold(M, T, A)'
  BY <1>0, <1>1 DEF History, Hold
<1> QED BY <1>0, <1>1, <1>2, <1>3, ReplicaChanges

\* Every step keeps the invariant.
LEMMA NextIInv == IInv /\ [Next]_vars => IInv'
<1> SUFFICES ASSUME IInv, [Next]_vars PROVE IInv'
  OBVIOUS
<1>1. CASE Submit
  <2>1. PICK c \in Clients :
          \/ \E u \in Users : submit_register(c, u)
          \/ \E s \in Sessions, q \in 1 .. MaxRequest :
               submit_request(c, s, q) \/ submit_user_change(c, s, q) \/ submit_logout(c, s, q)
          \/ \E s \in Sessions : submit_expired_logout(c, s)
          \/ submit_session_finalization(c)
    BY <1>1 DEF Submit
  <2> QED BY <2>1, RegisterKeeps, RequestKeeps, LogoutKeeps, FinalizationKeeps
<1>2. CASE advance_commit_max
  BY <1>2, CommitKeeps
<1>3. CASE \E r \in Replicas : Apply(r) \/ start_view(r) \/ checkpoint(r) \/ restart(r)
  BY <1>3, ApplyKeeps, ViewKeeps, CheckpointKeeps, RestartKeeps
<1>4. CASE UNCHANGED vars
  BY <1>4, StutterIInv
<1> QED BY <1>1, <1>2, <1>3, <1>4 DEF Next

\* The invariant holds of every run.
THEOREM InductiveInvariant == Spec => []IInv
<1>1. Init => IInv
  BY InitIInv
<1>2. IInv /\ [Next]_vars => IInv'
  BY NextIInv
<1> QED BY <1>1, <1>2, PTL DEF Spec

\* No committed op is ever one that a replica cannot retain: commit_register finds room and
\* no entry, a logout and a request find theirs, on every replica and after any restart.
THEOREM CommittedOpsAreRetained == Spec => []CommittedIsRetained
<1>1. IInv => CommittedIsRetained
  BY DEF IInv, CommittedIsRetained
<1> QED BY <1>1, InductiveInvariant, PTL

\* Of two ops of one session that both ran, the later one was admitted against a table whose
\* watermark was at least the earlier one's request.
LEMMA LaterIsNewer ==
    ASSUME Types, NEW M, NEW T, NEW A, History(M, T, A), NEW i \in executed, NEW j \in executed, i < j,
           log[i].client = log[j].client, log[i].session = log[j].session
    PROVE  log[i].request # log[j].request
<1>1. /\ i \in 1..M /\ j \in 1..M /\ M \in Nat /\ M <= Len(log) /\ Len(log) \in Nat
      /\ log[i].kind \in RequestKinds /\ log[j].kind \in RequestKinds
  BY DEF History, Ran, Starts, Types
<1>2. j \in 1..Len(log) /\ i \in 1..Len(log)
  BY <1>1
<1>3. PICK k \in 0..M : k < j /\ RequestAdmitted(M, T, j, k)
  BY <1>1, <1>2 DEF History, Admitted, AdmittedOp
<1>4. i <= k
  <2>1. i \in (k + 1)..(j - 1) => log[i].kind = "finalize"
    BY <1>3 DEF RequestAdmitted
  <2> QED BY <1>1, <1>3, <2>1 DEF RequestKinds
<1>5. Live(T[k], log[i].client, log[i].session)
  BY <1>3 DEF RequestAdmitted
<1>6. log[i].request <= T[k][log[i].client].watermark
  <2>1. i \in 1..k
    BY <1>1, <1>4
  <2> QED BY <1>1, <1>5, <2>1 DEF History, Covers
<1>7. T[k][log[j].client].watermark < log[j].request
  <2>1. k \in k..(j - 1) /\ k <= M
    BY <1>1, <1>3
  <2> QED BY <1>3, <2>1 DEF RequestAdmitted
<1>8. T[k][log[j].client].watermark \in Nat
  <2>1. T[k] \in Tables /\ log[j].client \in Clients
    BY <1>2, LogOps DEF History, Starts, Tables
  <2>2. T[k][log[j].client] \in SlimEntry
    BY <1>5, <2>1 DEF Live, Tables
  <2> QED BY <2>2 DEF SlimEntry
<1>9. log[i].request \in Nat /\ log[j].request \in Nat
  BY <1>2, LogOps
<1> QED BY <1>6, <1>7, <1>8, <1>9

\* A request of a session is executed at most once, across retries, view changes and restarts.
THEOREM RequestsRunOnce == Spec => []AtMostOnce
<1>1. IInv => AtMostOnce
  <2> SUFFICES ASSUME IInv, NEW i \in executed, NEW j \in executed, i # j,
                      log[i].client = log[j].client, log[i].session = log[j].session
               PROVE  log[i].request # log[j].request
    BY DEF AtMostOnce
  <2>1. PICK M, T, A : Types /\ History(M, T, A)
    BY DEF IInv
  <2>2. i \in 1..M /\ j \in 1..M /\ M \in Nat
    BY <2>1 DEF History, Ran, Starts
  <2>3. i < j \/ j < i
    BY <2>2
  <2> QED BY <2>1, <2>3, LaterIsNewer
<1> QED BY <1>1, InductiveInvariant, PTL

\* An op of a session runs only before the op that ended the session, whatever was admitted.
THEOREM EndedSessionsActNoMore == Spec => []EndedSessionsAreInert
<1>1. IInv => EndedSessionsAreInert
  <2> SUFFICES ASSUME IInv, NEW i \in executed, NEW e \in ends,
                      log[i].client = e.client, log[i].session = e.session
               PROVE  i <= e.at
    BY DEF EndedSessionsAreInert
  <2>1. PICK M, T, A : History(M, T, A)
    BY DEF IInv
  <2>2. /\ i \in 1..M /\ M \in Nat /\ Live(T[i - 1], e.client, e.session)
        /\ e.at \in 1..M /\ e.session \in 0..e.at /\ e.client \in Clients
        /\ ~Live(T[e.at], e.client, e.session)
    BY <2>1 DEF History, Ran, Ends, Starts
  <2>3. ~(i <= e.at) => i - 1 \in 0..M /\ e.at \in 0..(i - 1)
    BY <2>2
  <2>4. Inert(M, T)
    BY <2>1 DEF History
  <2> QED BY <2>2, <2>3, <2>4 DEF Inert
<1> QED BY <1>1, InductiveInvariant, PTL

\* The protection the runs compare is the protection of the proof.
LEMMA ProtectionIsSlim ==
    ASSUME NEW t, TableOk(t), NEW c \in Clients
    PROVE  /\ t[c] = None => Protection(t)[c] = None
           /\ t[c] # None => Protection(t)[c] =
                [user |-> Slim(t[c]).user, epoch |-> Slim(t[c]).epoch,
                 watermark |-> Slim(t[c]).watermark, ended |-> Slim(t[c]).ended,
                 latest_commit |-> Slim(t[c]).latest_commit, ring |-> <<>>]
<1>1. t[c] = None => Protection(t)[c] = None
  BY DEF Protection
<1>2. ASSUME t[c] # None
      PROVE  Protection(t)[c] =
                [user |-> Slim(t[c]).user, epoch |-> Slim(t[c]).epoch,
                 watermark |-> Slim(t[c]).watermark, ended |-> Slim(t[c]).ended,
                 latest_commit |-> Slim(t[c]).latest_commit, ring |-> <<>>]
  <2>1. Protection(t)[c] = [t[c] EXCEPT !.ring = <<>>]
    BY <1>2 DEF Protection
  <2>2. t[c] \in Entry
    BY <1>2, SlimAt
  <2>3. [t[c] EXCEPT !.ring = <<>>] =
            [user |-> t[c].user, epoch |-> t[c].epoch, watermark |-> t[c].watermark,
             ended |-> t[c].ended, latest_commit |-> t[c].latest_commit, ring |-> <<>>]
    BY <2>2 DEF Entry
  <2>4. /\ Slim(t[c]).user = t[c].user /\ Slim(t[c]).epoch = t[c].epoch
        /\ Slim(t[c]).watermark = t[c].watermark /\ Slim(t[c]).ended = t[c].ended
        /\ Slim(t[c]).latest_commit = t[c].latest_commit
    BY <1>2, <2>2, SlimFields
  <2> QED BY <2>1, <2>3, <2>4
<1> QED BY <1>1, <1>2

\* Tables of the same protection are equal to the runs' eyes.
LEMMA SameProtection ==
    ASSUME NEW t, TableOk(t), NEW u, TableOk(u), SlimTable(t) = SlimTable(u)
    PROVE  Protection(t) = Protection(u)
<1>1. ASSUME NEW c \in Clients PROVE Protection(t)[c] = Protection(u)[c]
  <2>1. Slim(t[c]) = Slim(u[c]) /\ (t[c] = None <=> u[c] = None)
    BY SlimAt
  <2> QED BY <2>1, ProtectionIsSlim
<1>2. Protection(t) = [c \in Clients |-> Protection(t)[c]]
      /\ Protection(u) = [c \in Clients |-> Protection(u)[c]]
  BY DEF Protection
<1> QED BY <1>1, <1>2

\* A snapshot of a table of the log is one that restore accepts.
LEMMA SnapshotIsAccepted ==
    ASSUME NEW M, NEW T, Dated(M, T), NEW n \in 0..M, NEW t, TableOk(t), SlimTable(t) = T[n]
    PROVE  Restorable(t)
<1> SUFFICES ASSUME NEW c \in Clients, t[c] # None
             PROVE  valid_metadata_protection(to_snapshot(t)[c])
  BY DEF Restorable, contains
<1>1. PICK f : f = to_snapshot(t)[c]
  OBVIOUS
<1>2. f # None /\ f \in Entry /\ LatestOk(f) /\ Slim(f) = T[n][c]
  BY <1>1, SnapshotKeeps, SlimAt
<1>3. /\ 0 < f.epoch /\ f.epoch <= f.latest_commit
      /\ f.epoch \in Nat /\ f.latest_commit \in Nat /\ f.watermark \in Nat /\ f.ended \in Nat
  <2>1. /\ T[n][c] # None /\ T[n][c].epoch = f.epoch /\ T[n][c].latest_commit = f.latest_commit
    BY <1>2, SlimFields
  <2>2. 0 < T[n][c].epoch /\ T[n][c].epoch <= T[n][c].latest_commit
    BY <2>1 DEF Dated
  <2> QED BY <1>2, <2>1, <2>2 DEF Entry
<1>4. f.ring = <<Last(t[c].ring)>>
  <2>1. f = [t[c] EXCEPT !.ring = <<Last(t[c].ring)>>] /\ t[c] \in Entry
    BY <1>1, SlimAt DEF to_snapshot
  <2> QED BY <2>1 DEF Entry
<1>5. /\ DOMAIN f.ring = {1} /\ f.ring[1] = Last(f.ring)
  BY <1>4 DEF Last
<1>6. PICK last : last = Last(f.ring)
  OBVIOUS
<1>7. /\ last.request = f.watermark /\ last.commit = f.latest_commit
      /\ (last.request = 0) = (last.kind = "register")
      /\ last.request = 0 => last.commit = f.epoch
      /\ f.ended # 0 => \/ f.ended > f.latest_commit
                        \/ f.ended = f.latest_commit /\ last.kind \in {"logout", "revoke"}
  BY <1>2, <1>6 DEF LatestOk
<1>8. \A i \in DOMAIN f.ring :
         /\ f.ring[i].commit >= f.epoch /\ f.ring[i].request <= f.watermark
         /\ (f.ring[i].request = 0) = (f.ring[i].kind = "register")
         /\ f.ring[i].request = 0 => f.ring[i].commit = f.epoch
         /\ i > 1 => f.ring[i].request > f.ring[i - 1].request /\ f.ring[i].commit > f.ring[i - 1].commit
  <2>1. \A i \in DOMAIN f.ring : i = 1 /\ ~(i > 1) /\ f.ring[i] = last
    BY <1>5, <1>6
  <2>2. last.commit >= f.epoch /\ last.request <= f.watermark
    BY <1>3, <1>7
  <2> QED BY <1>7, <2>1, <2>2
<1> QED BY <1>1, <1>3, <1>6, <1>7, <1>8 DEF valid_metadata_protection

\* Replicas that applied the same ops hold the same protection and the same active users,
\* however they came to it, and what they save is restored.
THEOREM ReplicasAgree == Spec => []TablesAgree
<1>1. IInv => TablesAgree
  <2> SUFFICES ASSUME IInv, NEW r1 \in Replicas, NEW r2 \in Replicas, applied[r1] = applied[r2]
               PROVE  /\ Protection(table[r1]) = Protection(table[r2])
                      /\ active[r1] = active[r2] /\ Restorable(table[r1])
    BY DEF TablesAgree
  <2>1. PICK M, T, A : Types /\ History(M, T, A)
    BY DEF IInv
  <2>2. /\ TableOk(table[r1]) /\ TableOk(table[r2]) /\ applied[r1] \in 0..M /\ Dated(M, T)
        /\ SlimTable(table[r1]) = T[applied[r1]] /\ SlimTable(table[r2]) = T[applied[r2]]
        /\ active[r1] = A[applied[r1]] /\ active[r2] = A[applied[r2]]
    BY <2>1 DEF Types, History, Hold, Holds
  <2> QED BY <2>2, SameProtection, SnapshotIsAccepted
<1> QED BY <1>1, InductiveInvariant, PTL
=============================================================================
