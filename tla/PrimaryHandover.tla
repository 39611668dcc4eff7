--------------------------- MODULE PrimaryHandover ---------------------------
(***************************************************************************)
(* A metadata primary that is superseded and adopts the next view's        *)
(* StartView while one of its own on_replicate calls is still awaiting.    *)
(* Both the pump, which adopts, and the overtaken task, which finds itself *)
(* a follower, then walk the journal.                                      *)
(***************************************************************************)
EXTENDS PrimaryPipeline

\* try_handle_start_view and the rest of on_start_view, in the case where the
\* announced log is the one this replica holds: the view's commit point is
\* adopted, the pipeline is cleared and the pump starts commit_journal.  It
\* lands while an append is in flight, not between an append and its self-ack,
\* where the task yields only if the superblock lock is taken.
adopt_start_view ==
    /\ ~fatal
    /\ driver[Pump] = Idle
    /\ status = "ViewChange"
    /\ \A op \in 1..journal_head : Journaled(op)
    /\ \A t \in tasks : t.stage # "replicate"
    /\ \E commit \in commit_max..journal_head :
          /\ commit_max' = commit
          /\ driver' = [driver EXCEPT ![Pump] = walk_from(<<>>, commit_min, commit)]
    /\ status' = "Backup"
    /\ sequencer' = journal_head
    /\ prepare_queue' = <<>>
    /\ UNCHANGED <<recovery_barrier, last_checksum, minted, request_queue,
                   journal, gate, tasks, loopback, commit_min, applied, fatal>>

HandoverSpec == Init /\ [][Next \/ adopt_start_view]_vars
=============================================================================
