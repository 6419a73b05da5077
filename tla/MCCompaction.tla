---------------------------- MODULE MCCompaction ----------------------------
(* Instances of Compaction for TLC. *)
EXTENDS Compaction

CONSTANTS a1, s1

TwoRecords == {"a", "b"}
ThreeRecords == {"a", "b", "c"}
OneWindow2 == [a |-> 1, b |-> 2]
OneWindow3 == [a |-> 1, b |-> 2, c |-> 3]

OneAppender == {a1}
OneScanner == {s1}
NoScanner == {}

Never == {}
ServingPhases == {"manifest", "running", "closing", "draining"}
Disciplined == {"ordered", "quiesced"}
NoFault == {}
AllFaults == FaultKinds

\* Only the first session merges: the merges of different sessions of one window
\* do not share a name.
FirstSession == [n \in 1 .. MaxSessions |-> IF n = 1 THEN 1 ELSE 9]
EverySession == [n \in 1 .. MaxSessions |-> 1]

=============================================================================
