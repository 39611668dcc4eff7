------------------------------ MODULE DvcMerge ------------------------------
(***************************************************************************)
(* The log a new primary decides from the DoViewChange messages it         *)
(* collected (dvc_merge.rs), as operators on sets of DVC records.          *)
(*                                                                         *)
(* A DVC is [replica, log_view, op, commit, untrusted, suffix]; its suffix *)
(* is the sequence of slots [hdr, nack, present] that runs down from op,   *)
(* and may be empty.  A header is [op, checksum, parent, view, commit];    *)
(* checksum 0 marks a blank.  The group has n replicas.                    *)
(***************************************************************************)
EXTENDS Quorums, Sequences, FiniteSets, FiniteSetsExt

dvc_blank(op) == [op |-> op, checksum |-> 0, parent |-> 0, view |-> 0, commit |-> 0]

IsValid(h) == h.checksum # 0

\* DvcSuffix::index_of: slot i describes op d.op - (i - 1).
covers(d, op) == op <= d.op /\ d.op - op < Len(d.suffix)
slot(d, op) == d.suffix[d.op - op + 1]
valid_header_at(d, op) == covers(d, op) /\ IsValid(slot(d, op).hdr)

\* dvc_suffix_decode: the slots run down from op without a gap, and
\* neighbouring headers chain.
dvc_suffix_decodes(op, headers) ==
    /\ \A i \in 1..Len(headers) : headers[i].op = op - (i - 1)
    /\ \A i \in 1..(Len(headers) - 1) :
          IsValid(headers[i]) /\ IsValid(headers[i + 1])
              => headers[i].parent = headers[i + 1].checksum

\* dvc_record: one DVC per replica, an empty vote yields to a real one.
is_empty_vote(d) ==
    d.untrusted /\ d.log_view = 0 /\ d.op = 0 /\ d.commit = 0 /\ d.suffix = <<>>

dvc_accepts(dvcs, d) ==
    \A seated \in dvcs :
        seated.replica = d.replica => is_empty_vote(seated) /\ ~is_empty_vote(d)

dvc_record(dvcs, d) == {seated \in dvcs : seated.replica # d.replica} \cup {d}

-----------------------------------------------------------------------------
merge_commit_max(dvcs, ceiling) ==
    Max({d.commit : d \in dvcs}
        \cup {d.op - ceiling : d \in dvcs}
        \cup {d.suffix[1].hdr.commit : d \in {e \in dvcs : e.suffix # <<>>}})

\* Mutant: a replica that missed a view change speaks for the log.
every_sender(dvcs) == dvcs

\* The senders of the highest log_view.
canonical_senders(dvcs) ==
    {d \in dvcs : \A e \in dvcs : e.log_view <= d.log_view}

\* The header of the first canonical sender that has one, in replica order.
canonical_header_at(senders, op) ==
    LET holders == {d \in senders : valid_header_at(d, op)}
    IN  IF holders = {} THEN dvc_blank(op)
        ELSE slot(CHOOSE d \in holders :
                      \A e \in holders : d.replica <= e.replica, op).hdr

\* Senders of one log_view disagree about the op.
conflict_at(senders, op) ==
    \E d, e \in senders :
        /\ valid_header_at(d, op) /\ valid_header_at(e, op)
        /\ slot(d, op).hdr.checksum # slot(e, op).hdr.checksum

\* A canonical sender has the op in its window, and neither a header nor a nack.
abstained_at(senders, op) ==
    \E d \in senders :
        covers(d, op) /\ ~IsValid(slot(d, op).hdr) /\ ~slot(d, op).nack

-----------------------------------------------------------------------------
(* tally_op *)

copies_at(dvcs, canonical, op) ==
    {d \in dvcs : /\ valid_header_at(d, op)
                  /\ slot(d, op).present
                  /\ slot(d, op).hdr.checksum = canonical.checksum}

\* The sender's position proves that it is not in the ack set of the op.
nacks_op(d, senders, op, absence_nacks) ==
    \/ d.op < op /\ absence_nacks
    \/ /\ covers(d, op)
       /\ \/ slot(d, op).nack
          \/ /\ IsValid(slot(d, op).hdr)
             /\ \/ ~slot(d, op).present /\ op > d.commit
                \/ /\ d \notin senders
                   /\ IF IsValid(canonical_header_at(senders, op))
                      THEN slot(d, op).hdr.checksum
                               # canonical_header_at(senders, op).checksum
                      ELSE ~abstained_at(senders, op)

\* The op has a nack quorum.
dead_at(dvcs, senders, op, n, absence_nacks) ==
    Cardinality({d \in dvcs : nacks_op(d, senders, op, absence_nacks)})
        >= quorum_nack_prepare(n)

\* No header to install, no body of it anywhere, or two headers.
undecided_at(dvcs, senders, op) ==
    \/ conflict_at(senders, op)
    \/ ~IsValid(canonical_header_at(senders, op))
    \/ copies_at(dvcs, canonical_header_at(senders, op), op) = {}

-----------------------------------------------------------------------------
\* canonical_headers: the installed log from op_head down to the commit point.
canonical_headers(senders, op_head, commit_max) ==
    LET floor == Max({commit_max, 1})
    IN  IF op_head = 0 THEN <<>>
        ELSE [i \in 1..(op_head - floor + 1) |->
                  canonical_header_at(senders, op_head - (i - 1))]

installable(senders, headers) ==
    /\ \A i \in 1..Len(headers) :
          IsValid(headers[i]) /\ ~conflict_at(senders, headers[i].op)
    /\ \A i \in 1..(Len(headers) - 1) :
          headers[i].parent = headers[i + 1].checksum

\* What senders behind the canonical log_view report as committed, below the
\* installed headers.
claimed_committed(dvcs, senders, headers) ==
    LET installed == {headers[i].op : i \in 1..Len(headers)}
        Claims(d) == {d.suffix[i].hdr : i \in 1..Len(d.suffix)}
    IN  {h \in UNION {Claims(d) : d \in dvcs \ senders} :
            /\ IsValid(h)
            /\ h.op \notin installed
            /\ \E d \in dvcs \ senders : h \in Claims(d) /\ h.op <= d.commit}

claims_agree(claims) ==
    \A g, h \in claims : g.op = h.op => g.checksum = h.checksum

\* committed_elsewhere: the claims the installed log reaches by parent links.
committed_elsewhere(claims, headers) ==
    LET installed == {headers[i] : i \in 1..Len(headers)}
        Named(h, above) == \E c \in above : c.op = h.op + 1 /\ c.parent = h.checksum
    IN  {h \in claims :
            /\ headers # <<>>
            /\ h.op < headers[Len(headers)].op
            /\ \A op \in h.op..(headers[Len(headers)].op - 1) :
                  \E c \in claims : c.op = op /\ Named(c, claims \cup installed)}

-----------------------------------------------------------------------------
NoLog == [op_head |-> -1, commit_max |-> -1, headers |-> <<>>, elsewhere |-> {}]
Outcome(kind) == [kind |-> kind, log |-> NoLog]
Ready(head, max, headers, elsewhere) ==
    [kind |-> "Ready",
     log |-> [op_head |-> head, commit_max |-> max, headers |-> headers,
              elsewhere |-> elsewhere]]

\* The end of merge_dvc_quorum: the log up to op_head, if it can be installed.
install(senders, op_head, commit_max, headers, claims) ==
    IF ~installable(senders, headers) \/ ~claims_agree(claims)
    THEN Outcome("Deadlocked")
    ELSE Ready(op_head, commit_max, headers, committed_elsewhere(claims, headers))

install_below(dvcs, senders, op_head, commit_max, headers) ==
    install(senders, op_head, commit_max, headers,
            claimed_committed(dvcs, senders, headers))

\* The walk of merge_dvc_quorum has come to the first of `stops`, or to the end.
end_of_walk(dvcs, senders, n, absence_nacks, commit_max, op_head_max, stops) ==
    LET InstallTo(op_head) == install_below(dvcs, senders, op_head, commit_max,
                                  canonical_headers(senders, op_head, commit_max))
    IN  IF op_head_max = 0 THEN Ready(0, 0, <<>>, {})
        ELSE IF stops = {} THEN InstallTo(op_head_max)
        ELSE IF ~dead_at(dvcs, senders, Min(stops), n, absence_nacks)
        THEN Outcome(IF Cardinality(dvcs) < n THEN "AwaitingRepair" ELSE "Deadlocked")
        ELSE IF Min(stops) <= commit_max THEN Outcome("Deadlocked")
        ELSE InstallTo(Min(stops) - 1)

walk_ops(dvcs, senders, n, absence_nacks, commit_max, op_head_max) ==
    end_of_walk(dvcs, senders, n, absence_nacks, commit_max, op_head_max,
        {op \in Max({commit_max, 1})..op_head_max :
            \/ dead_at(dvcs, senders, op, n, absence_nacks)
            \/ undecided_at(dvcs, senders, op)})

merge_dvc_quorum(dvcs, senders, commit_max, n, view_change, absence_nacks) ==
    IF Cardinality(dvcs) < view_change THEN Outcome("AwaitingQuorum")
    ELSE walk_ops(dvcs, senders, n, absence_nacks, commit_max,
                  Max({d.op : d \in senders} \cup {commit_max}))

\* A quorum of trusted senders decides alone; otherwise every replica must have
\* reported, and a short log is no nack.
merge_view_change(dvcs, n, ceiling) ==
    LET trusted == {d \in dvcs : ~d.untrusted}
        Merge(votes, view_change, absence_nacks) ==
            merge_dvc_quorum(votes, canonical_senders(votes),
                             merge_commit_max(votes, ceiling), n, view_change, absence_nacks)
        Prefer(alone, everyone) ==
            IF alone.kind = "Ready" \/ trusted = dvcs THEN alone ELSE everyone
    IN  IF Cardinality(trusted) < quorum_view_change(n) /\ Cardinality(dvcs) < n
        THEN Outcome("AwaitingQuorum")
        ELSE IF Cardinality(trusted) < quorum_view_change(n) THEN Merge(dvcs, n, FALSE)
        ELSE IF Cardinality(dvcs) < n THEN Merge(trusted, quorum_view_change(n), TRUE)
        ELSE Prefer(Merge(trusted, quorum_view_change(n), TRUE), Merge(dvcs, n, FALSE))
=============================================================================
