------------------------------- MODULE Router -------------------------------
(***************************************************************************)
(* The arithmetic of internal/partition: which time window a timestamp     *)
(* belongs to, which windows a query range touches, when a record is late  *)
(* and when a window may be sealed.  All of it is pure; the partition map  *)
(* and the partition states live in module Engine.                         *)
(*                                                                         *)
(* Timestamps and durations are integers in one unit (the code counts Unix *)
(* nanoseconds in int64).  The int64 overflow of Start + Duration for      *)
(* timestamps within one window of 2^63 is outside this model.             *)
(***************************************************************************)
EXTENDS Integers

CONSTANTS
    PartitionDuration,   \* Options.PartitionDuration
    LateArrivalWindow,   \* Options.LateArrivalWindow
    LateArrivalMode      \* Options.LateArrivalMode

ASSUME PartitionDurationAssumption == PartitionDuration \in Int /\ PartitionDuration > 0
ASSUME LateArrivalWindowAssumption == LateArrivalWindow \in Nat
ASSUME LateArrivalModeAssumption == LateArrivalMode \in {"Strict", "Tolerant"}

\* Go's integer division: the quotient is truncated towards zero.
GoQuotient(a, b) == IF a >= 0 THEN a \div b ELSE -((-a) \div b)

\* floorDiv: step the truncated quotient down when the signs differ and the
\* division is not exact.
FloorDiv(a, b) ==
    LET q == GoQuotient(a, b)
    IN  IF (a < 0) # (b < 0) /\ q * b # a THEN q - 1 ELSE q

WindowFor(ts) ==
    LET start == FloorDiv(ts, PartitionDuration) * PartitionDuration
    IN  [Start |-> start, End |-> start + PartitionDuration]

\* PartitionWindow.Overlaps: [start, end) shares a point with the window.
Overlaps(win, start, end) == win.Start < end /\ win.End > start

\* The test Router.Route applies in Strict mode.
IsLate(ts, now) == ts < now - LateArrivalWindow

\* TimePartition.IsSealable
IsSealable(win, now) == now > win.End + LateArrivalWindow

=============================================================================
