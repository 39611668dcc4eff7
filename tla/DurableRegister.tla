--------------------------- MODULE DurableRegister ---------------------------
(***************************************************************************)
(* What consensus relies on when it persists its view before it acts in    *)
(* it: a register that survives crashes.  A value is a number that grows   *)
(* with every attempt to write, so "older" is "smaller".  No crash makes   *)
(* the register unreadable; decay of the medium may, and is noticed.       *)
(***************************************************************************)
EXTENDS Naturals

VARIABLES settled,   \* the newest value a write was acknowledged for, or a reader was given
          maybe,     \* newer values a crash may reveal: attempted, never acknowledged
          readable,  \* a reader is given a value, whatever a crash leaves
          decays     \* how often the medium decayed

medium == <<readable, decays>>
registerVars == <<settled, maybe, medium>>

Init == settled = 0 /\ maybe = {} /\ readable = TRUE /\ decays = 0

\* A write returns: its value is what every later reader finds, at least.
Acknowledge == \E v \in maybe : settled' = v /\ maybe' = {} /\ UNCHANGED medium

\* Attempts are lost in a crash.
Lose == maybe' \subseteq maybe /\ UNCHANGED <<settled, medium>>

\* A write reaches the disk, in the place of an earlier attempt or beside it.
Attempt ==
    \E v \in maybe' : v > settled /\ maybe' \subseteq maybe \cup {v} /\ UNCHANGED <<settled, medium>>

\* A reader is given the settled value or a newer one, which is settled from then on.
Read == readable /\ settled' \in maybe \cup {settled} /\ maybe' = {} /\ UNCHANGED medium

\* A part of the medium decays.  Readers are refused rather than given an older value.
Decay == /\ decays' = decays + 1 /\ readable' = FALSE
         /\ maybe' \subseteq maybe /\ UNCHANGED settled

Next == Attempt \/ Lose \/ Acknowledge \/ Read \/ Decay

Spec == Init /\ [][Next]_registerVars
==============================================================================
