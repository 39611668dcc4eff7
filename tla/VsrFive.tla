------------------------------- MODULE VsrFive -------------------------------
(***************************************************************************)
(* A group of five, too large to search freely, along one schedule: the    *)
(* phases below say who takes steps when.  Within a phase the steps come   *)
(* in any order, and a phase ends when it has reached what it is for.      *)
(* Every step is a step of Vsr, so every behaviour here is one of Vsr.     *)
(*                                                                         *)
(* Replica 0 leads view 0, replica 1 journals all of its prepares, replica *)
(* 2 only the first one, which commits.  Replicas 1, 3 and 4 change to     *)
(* view 1, which replica 2 joins: it learns the whole log from StartView   *)
(* and appends the retransmitted prepare of op 2, no more.  Replicas 2, 3  *)
(* and 4 then change to view 2.                                            *)
(***************************************************************************)
EXTENDS Vsr

VARIABLE phase

\* View 0: the first op reaches replica 2 and commits, the others replica 1 only.
Lead ==
    \/ on_request(0)
    \/ \E m \in Sent("Prepare") : on_replicate(1, m.hdr)
    \/ \E m \in Sent("Prepare") : m.hdr.op = 1 /\ on_replicate(2, m.hdr)
    \/ \E m \in Sent("PrepareOk") : m.op = 1 /\ on_ack(0, m)

\* The members of `group`, which hear of nobody else, change to view v.
ChangeView(v, group) ==
    \/ start_election(primary_index(v)) /\ node'[primary_index(v)].view = v
    \/ \E r \in group, m \in Sent("StartViewChange") :
          m.view = v /\ m.from \in group /\ handle_start_view_change(r, m)
    \/ \E r \in group, m \in Sent("DoViewChange") :
          m.view = v /\ m.dvc.replica \in group /\ handle_do_view_change(r, m)
    \/ advance_pending_metadata_view(primary_index(v))

\* Replica 2 adopts view 1 and receives one retransmitted prepare of it.
Join ==
    \/ \E m \in Sent("StartView") : on_start_view(2, m)
    \/ \E m \in Sent("Prepare") : m.view = 1 /\ m.hdr.op = 2 /\ on_replicate(2, m.hdr)

\* Replica r leads view v.
Leads(r, v) == node[r].view = v /\ is_normal(node[r])

Phases ==
    \/ phase = "lead" /\ Lead
       /\ phase' = IF commit_min(node'[0]) = 1 /\ node'[1].sequencer = MaxOps
                   THEN "view1" ELSE phase
    \/ phase = "view1" /\ ChangeView(1, {1, 3, 4})
       /\ phase' = IF Leads(1, 1)' THEN "join" ELSE phase
    \/ phase = "join" /\ Join
       /\ phase' = IF Held(node'[2].journal, 2) THEN "view2" ELSE phase
    \/ phase = "view2" /\ ChangeView(2, {2, 3, 4})
       /\ UNCHANGED phase

FiveInit == Init /\ phase = "lead"
FiveSpec == FiveInit /\ [][Phases]_<<vars, phase>>
==============================================================================
