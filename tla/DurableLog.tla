----------------------------- MODULE DurableLog -----------------------------
(***************************************************************************)
(* What the engine relies on when it writes to the WAL or the MANIFEST: a  *)
(* log that grows at its end, a promise that covers a prefix of it, and    *)
(* crashes that take only what was not promised.                           *)
(***************************************************************************)
EXTENDS Integers, Sequences

VARIABLES
    log,   \* the records a replay would deliver now
    kept   \* how many of them are promised to survive

DurableInit == log = << >> /\ kept = 0

Extend == (\E n \in 0..Len(log') : log = SubSeq(log', 1, n)) /\ kept' = kept

Promise == log' = log /\ kept' \in kept..Len(log)

Lose == (\E n \in kept..Len(log) : log' = SubSeq(log, 1, n)) /\ kept' = kept

DurableSpec == DurableInit /\ [][Extend \/ Promise \/ Lose]_<<log, kept>>

=============================================================================
