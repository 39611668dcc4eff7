------------------------------- MODULE Quorums -------------------------------
(***************************************************************************)
(* The quorum sizes of a group of n replicas.  `max_faulty` counts the     *)
(* StartViewChange votes of other replicas that a DoViewChange waits for;  *)
(* the other three size the sets whose intersections carry the protocol.   *)
(***************************************************************************)
EXTENDS Integers

QUORUM_REPLICATION_MAX == 3

max_faulty(n) == (n - 1) \div 2

\* Acks that commit an op.
quorum_replication(n) ==
    LET half_rounded_up == (n + 1) \div 2
    IN  IF n = 2 THEN 2
        ELSE IF half_rounded_up < QUORUM_REPLICATION_MAX
        THEN half_rounded_up
        ELSE QUORUM_REPLICATION_MAX

\* Mutant: one DoViewChange too few.
quorum_view_change_short(n) == n - quorum_replication(n)

\* DoViewChanges that start a view.
quorum_view_change(n) ==
    IF n = 2 THEN 2 ELSE n - quorum_replication(n) + 1

\* Mutant: one nack too few.
quorum_nack_short(n) == n - quorum_replication(n)

\* Nacks that prove an op was never committed.
quorum_nack_prepare(n) == n - quorum_replication(n) + 1
=============================================================================
