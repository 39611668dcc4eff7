------------------------------ MODULE ViewLog ------------------------------
(***************************************************************************)
(* What a metadata replica says about its own log: the proof of the        *)
(* journal against the log a view decided (plane_helpers.rs), the suffix   *)
(* it puts in a DoViewChange, and the evidence for a repaired prepare.     *)
(*                                                                         *)
(* A journal is a function from the ops 1..n to headers; an op that is not *)
(* held maps to a blank.  A view's headers run down from its head op.      *)
(***************************************************************************)
EXTENDS DvcMerge

Held(journal, op) == op \in DOMAIN journal /\ IsValid(journal[op])

last_op(journal) == Max({0} \cup {op \in DOMAIN journal : Held(journal, op)})

\* canonical_header_at, view_header_at: the view's header at an op, or a blank.
named_at(headers, op) ==
    LET named == {i \in 1..Len(headers) : headers[i].op = op}
    IN  IF named = {} THEN dvc_blank(op) ELSE headers[Min(named)]

-----------------------------------------------------------------------------
(* The proof of the journal against the view's hash chain *)

\* Headers stamp the commit point of their primary: what the chained run of
\* held entries above the applied prefix says is committed.
locally_proven_commit(commit_floor, journal) ==
    LET Chained(op) == /\ Held(journal, op)
                       /\ op > commit_floor + 1 =>
                             journal[op].parent = journal[op - 1].checksum
        run == {op \in DOMAIN journal :
                   op > commit_floor /\ \A o \in (commit_floor + 1)..op : Chained(o)}
    IN  Max({commit_floor} \cup {Min({journal[op].commit, op - 1}) : op \in run})

\* The lowest op of the divergent run that ends at `last`.
divergent_run_first(last, expected, proven, headers, journal) ==
    LET Extends(op) ==
            LET named == named_at(headers, op)
                wanted == IF op = last THEN expected
                          ELSE named_at(headers, op + 1).parent
            IN  /\ IsValid(named) /\ named.checksum = wanted
                /\ Held(journal, op - 1)
                /\ journal[op - 1].checksum # named.parent
    IN  Min({first \in (proven + 1)..last :
                \A op \in (first + 1)..last : Extends(op)})

ProofResult(kind, first, last) == [kind |-> kind, first |-> first, last |-> last]

\* What the walk down from the head found: the chain breaks at the highest op of
\* `off_chain`, or holds but for the bodies of `bridged`.
proof_of(off_chain, bridged, Expected(_), proven, headers, journal) ==
    IF off_chain = {} /\ bridged = {} THEN ProofResult("Proven", 0, 0)
    ELSE IF off_chain = {} THEN ProofResult("Missing", Min(bridged), 0)
    ELSE IF Held(journal, Max(off_chain))
    THEN ProofResult("Divergent",
             divergent_run_first(Max(off_chain), Expected(Max(off_chain)), proven,
                                 headers, journal),
             Max(off_chain))
    ELSE ProofResult("Missing", Max(off_chain), Max(off_chain))

chain_proof(proven, headers, op_head, journal) ==
    LET Entry(op) == IF Held(journal, op) THEN journal[op] ELSE named_at(headers, op)
        Expected(op) == IF op = op_head THEN headers[1].checksum ELSE Entry(op + 1).parent
        OffChain(entry, op) == ~IsValid(entry) \/ entry.checksum # Expected(op)
    IN  IF op_head <= proven THEN ProofResult("Proven", 0, 0)
        ELSE IF \/ headers = <<>>
                \/ headers[1].op # op_head
                \/ ~IsValid(headers[1])
        THEN ProofResult("Missing", op_head, op_head)
        ELSE proof_of({op \in (proven + 1)..op_head : OffChain(Entry(op), op)},
                      {op \in (proven + 1)..op_head : ~Held(journal, op)},
                      Expected, proven, headers, journal)

\* "Missing": fetch `first`; entries above `last` match the view.  "Divergent":
\* the held entries first..last differ from the view.
view_log_proof(commit_floor, headers, op_head, journal) ==
    chain_proof(locally_proven_commit(commit_floor, journal), headers, op_head, journal)

-----------------------------------------------------------------------------
\* build_dvc_suffix: commit..head, where the head rises to the view's; ops in
\* `unproven` are not offered.
suffix_slot(o, commit, journal, named, unproven) ==
    LET copy == Held(journal, o) /\ journal[o].checksum = named.checksum
    IN  IF Held(journal, o) /\ o \notin unproven
        THEN [hdr |-> journal[o], nack |-> FALSE, present |-> TRUE]
        ELSE IF IsValid(named) /\ (o <= commit \/ ~copy)
        THEN [hdr |-> named, nack |-> FALSE, present |-> FALSE]
        ELSE [hdr |-> dvc_blank(o), present |-> FALSE,
              nack |-> o > commit /\ ~Held(journal, o)]

build_dvc_suffix(commit, op, journal, view_headers, unproven) ==
    LET head == IF view_headers = <<>> THEN op ELSE Max({op, view_headers[1].op})
        low == Max({commit, 1})
    IN  IF head = 0 \/ low > head THEN <<>>
        ELSE [i \in 1..(head - low + 1) |->
                 suffix_slot(head - (i - 1), commit, journal,
                             named_at(view_headers, head - (i - 1)), unproven)]

suffix_headers(suffix) == [i \in 1..Len(suffix) |-> suffix[i].hdr]

-----------------------------------------------------------------------------
(* Repair *)

merged_log_scan_floor(log, commit_min) ==
    Max({Min({log.commit_max, commit_min + 1}), 1})

\* repair_op_in_scope.
repair_op_in_scope(log, is_primary_elect, commit_min, op) ==
    IF is_primary_elect
    THEN \/ op >= merged_log_scan_floor(log, commit_min) /\ op <= log.op_head
         \/ \E h \in log.elsewhere : h.op = op
    ELSE op > commit_min

\* The log's own header at an op: its canonical suffix, then what other senders
\* committed.
log_header_at(log, op) ==
    IF IsValid(named_at(log.headers, op)) THEN named_at(log.headers, op)
    ELSE IF \E h \in log.elsewhere : h.op = op
    THEN CHOOSE h \in log.elsewhere : h.op = op
    ELSE dvc_blank(op)

\* The lowest op of the merged log that the journal does not hold, 0 if none.
first_op_not_covered(log, commit_min, journal) ==
    LET Covered(op) == /\ Held(journal, op)
                       /\ LET named == log_header_at(log, op)
                          IN  IsValid(named) => named.checksum = journal[op].checksum
        wanted == (merged_log_scan_floor(log, commit_min)..log.op_head)
                      \cup {h.op : h \in log.elsewhere}
        uncovered == {op \in wanted : ~Covered(op)}
    IN  IF uncovered = {} THEN 0 ELSE Min(uncovered)

\* repaired_prepare_evidence: `vouched` are the ops whose held entry the
\* view-log proof covers.
repaired_prepare_evidence(h, view, log, journal, vouched) ==
    LET Known(op) == IsValid(log_header_at(log, op)) \/ Held(journal, op)
        EntryAt(op) == IF IsValid(log_header_at(log, op)) THEN log_header_at(log, op)
                       ELSE journal[op]
        Vouched(op) == IsValid(log_header_at(log, op)) \/ (Held(journal, op) /\ op \in vouched)
        chains_below == EntryAt(h.op - 1).checksum = h.parent
        chains_above == EntryAt(h.op + 1).parent = h.checksum
        splices(op, chains) == Known(op) /\ ~chains
    IN  IF Vouched(h.op)
        THEN IF EntryAt(h.op).checksum = h.checksum THEN "Proven" ELSE "Contradicted"
        ELSE IF \/ Vouched(h.op - 1) /\ ~chains_below
                \/ Vouched(h.op + 1) /\ ~chains_above
        THEN "Contradicted"
        ELSE IF h.view >= view \/ (Vouched(h.op + 1) /\ chains_above) THEN "Proven"
        ELSE IF splices(h.op - 1, chains_below) \/ splices(h.op + 1, chains_above)
        THEN "Contradicted"
        ELSE "Unproven"
=============================================================================
