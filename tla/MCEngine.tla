------------------------------ MODULE MCEngine ------------------------------
(* Instances of Engine for TLC.  A record is named by a string; the window     *)
(* length is 10 unless the run says otherwise.                                 *)
EXTENDS EngineInv, TLC

CONSTANTS a1, a2

ThreeRecords == {"a", "b", "c"}
FourRecords == {"a", "b", "c", "d"}

\* One window of length 10, at distinct times; with length 2, a and then b and c.
OneWindow == [a |-> 1, b |-> 2, c |-> 3]

\* Two windows: a and b in [0,10), c in [10,20).
TwoWindows == [a |-> 1, b |-> 2, c |-> 11]

\* Two records in each of two windows.
TwoPairs == [a |-> 1, b |-> 2, c |-> 11, d |-> 12]

AllPhases == {"manifest", "segments", "running", "closing", "draining"}
ServingPhases == {"manifest", "running", "closing", "draining"}
Never == {}
NoPromise == {}
Disciplined == {"ordered", "quiesced"}

TwoAppenders == {a1, a2}
Symmetric == Permutations(TwoAppenders)

=============================================================================
