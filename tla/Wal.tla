-------------------------------- MODULE Wal ---------------------------------
(***************************************************************************)
(* internal/wal: the segments of the write-ahead log, the bufio.Writer in  *)
(* front of the active one, the sync modes, Rotate and Replay.             *)
(*                                                                         *)
(* Every operation holds w.mu, so its file-system calls come one after the *)
(* other and only a crash can fall between them.  The records are numbered *)
(* in the order of their Append.                                           *)
(***************************************************************************)
EXTENDS Frames

CONSTANTS
    SyncModes,   \* the WALSyncModes a WAL may be opened with
    BufCells,    \* capacity of the bufio.Writer (64 KiB in the code)
    PowerLoss,   \* a crash may also lose what was written and not synced
    MaxRecords,  \* bound: how many records are appended
    MaxFiles     \* bound: how many segments are created

ASSUME SyncModesAssumption == SyncModes \subseteq {"SyncAlways", "SyncPeriodic", "SyncNever"}
\* A record fits into the buffer, as with payloads below 64 KiB.
ASSUME BufAssumption == BufCells \in Nat /\ BufCells >= FrameLen
ASSUME PowerLossAssumption == PowerLoss \in BOOLEAN
ASSUME WalBoundsAssumption == MaxRecords \in Nat /\ MaxFiles \in Nat

VARIABLES
    syncMode,  \* w.syncMode, the same in every session
    segs,    \* the segment files in order; w.file is the last one
    synced,  \* how many cells of each are durable
    buf,     \* w.bw
    status,  \* "down", "open", "closed", or "failed": Open returned an error
    op,      \* the operation that holds w.mu, and its next call
    next,    \* the next record to append
    count,   \* records appended and, after a restart, not lost
    kept     \* history: how many of them a Sync has covered

vars == <<syncMode, segs, synced, buf, status, op, next, count, kept>>

Free == [name |-> "none", step |-> "free"]
Active == Len(segs)

TypeOK ==
    /\ syncMode \in SyncModes
    /\ segs \in Seq(Seq(CellsOf(1..MaxRecords)))
    /\ synced \in Seq(Nat) /\ Len(synced) = Len(segs)
    /\ \A i \in DOMAIN segs : synced[i] <= Len(segs[i])
    /\ buf \in Seq(CellsOf(1..MaxRecords)) /\ Len(buf) <= BufCells
    /\ status \in {"down", "open", "closed", "failed"}
    /\ op \in [name : {"none", "append", "tick", "rotate", "close"},
               step : {"free", "flush", "sync", "open"}]
    /\ next \in 1..(MaxRecords + 1) /\ count \in 0..MaxRecords /\ kept \in 0..count

Init ==
    /\ syncMode \in SyncModes
    /\ segs = << >> /\ synced = << >> /\ buf = << >>
    /\ status = "down" /\ op = Free
    /\ next = 1 /\ count = 0 /\ kept = 0

\* What replaying every segment delivers.
Log == Joined([i \in DOMAIN segs |-> Decoded(segs[i])])

\* os.OpenFile with O_CREATE of a segment that does not exist yet; lens are the
\* durable lengths of the others.
NewFile(lens) ==
    /\ Len(segs) < MaxFiles
    /\ segs' = Append(segs, << >>) /\ synced' = Append(lens, 0)

\* Engine.Open replays every segment, closes and thereby syncs it, and opens a
\* new one; an error of Replay ends it.
Open ==
    /\ status = "down"
    /\ IF \E i \in DOMAIN segs : ReplayFails(segs[i])
       THEN status' = "failed" /\ UNCHANGED <<segs, synced, count, kept>>
       ELSE /\ status' = "open"
            /\ NewFile([i \in DOMAIN segs |-> Len(segs[i])])
            /\ count' = Len(Log) /\ kept' = Len(Log)
    /\ UNCHANGED <<syncMode, buf, op, next>>

\* As BufferedWrite, for a buffer that grows instead of spilling.
BufferedWriteGrowing(cells) == buf' = buf \o cells /\ UNCHANGED segs

\* bufio.Writer.Write: a full buffer goes to the file, the rest stays.
BufferedWrite(cells) ==
    LET stream == buf \o cells
    IN  IF Len(stream) <= BufCells
        THEN buf' = stream /\ UNCHANGED segs
        ELSE /\ segs' = [segs EXCEPT ![Active] = @ \o SubSeq(stream, 1, BufCells)]
             /\ buf' = SubSeq(stream, BufCells + 1, Len(stream))

\* Append returns here unless the mode is SyncAlways.
AppendRecord ==
    /\ status = "open" /\ op = Free /\ next <= MaxRecords
    /\ BufferedWrite(Frame(next))
    /\ next' = next + 1 /\ count' = count + 1
    /\ op' = IF syncMode = "SyncAlways" THEN [name |-> "append", step |-> "flush"] ELSE Free
    /\ UNCHANGED <<syncMode, synced, status, kept>>

\* As Begin, for a WAL whose sync goroutine was never started.
BeginWithoutTicker(name) ==
    /\ status = "open" /\ op = Free
    /\ name # "tick"
    /\ op' = [name |-> name, step |-> "flush"]
    /\ UNCHANGED <<syncMode, segs, synced, buf, status, next, count, kept>>

\* periodicSync, Rotate or Close takes w.mu.
Begin(name) ==
    /\ status = "open" /\ op = Free
    /\ name = "tick" => syncMode = "SyncPeriodic"
    /\ op' = [name |-> name, step |-> "flush"]
    /\ UNCHANGED <<syncMode, segs, synced, buf, status, next, count, kept>>

\* As Flush, for code that syncs the file without flushing w.bw.
FlushNothing ==
    /\ op.step = "flush"
    /\ op' = [op EXCEPT !.step = "sync"]
    /\ UNCHANGED <<syncMode, segs, synced, buf, status, next, count, kept>>

\* As Flush, for a buffer that is not emptied.
FlushAgain ==
    /\ op.step = "flush"
    /\ segs' = [segs EXCEPT ![Active] = @ \o buf]
    /\ op' = [op EXCEPT !.step = "sync"]
    /\ UNCHANGED <<syncMode, buf, synced, status, next, count, kept>>

\* w.bw.Flush
Flush ==
    /\ op.step = "flush"
    /\ segs' = [segs EXCEPT ![Active] = @ \o buf] /\ buf' = << >>
    /\ op' = [op EXCEPT !.step = "sync"]
    /\ UNCHANGED <<syncMode, synced, status, next, count, kept>>

\* w.file.Sync, and for Close the closing of the file.
Sync ==
    /\ op.step = "sync"
    /\ synced' = [synced EXCEPT ![Active] = Len(segs[Active])]
    /\ kept' = count
    /\ op' = IF op.name = "rotate" THEN [op EXCEPT !.step = "open"] ELSE Free
    /\ status' = IF op.name = "close" THEN "closed" ELSE status
    /\ UNCHANGED <<syncMode, segs, buf, next, count>>

\* The end of Rotate: a new file and a new buffer.
RotateOpen ==
    /\ op.step = "open"
    /\ NewFile(synced)
    /\ op' = Free
    /\ UNCHANGED <<syncMode, buf, status, next, count, kept>>

\* os.OpenFile fails in Rotate: the old file stays in use.
RotateFails ==
    /\ op.step = "open"
    /\ op' = Free
    /\ UNCHANGED <<syncMode, segs, synced, buf, status, next, count, kept>>

\* The process exits after Close, or crashes: the buffer is lost and the active
\* segment is cut, at most down to what was synced.
Crash ==
    /\ status \in {"open", "closed"}
    /\ \E n \in IF PowerLoss THEN synced[Active]..Len(segs[Active]) ELSE {Len(segs[Active])} :
          /\ segs' = [segs EXCEPT ![Active] = SubSeq(@, 1, n)]
    /\ buf' = << >> /\ op' = Free /\ status' = "down"
    /\ UNCHANGED <<syncMode, synced, next, count, kept>>

Next ==
    \/ Open
    \/ AppendRecord
    \/ \E name \in {"tick", "rotate", "close"} : Begin(name)
    \/ Flush \/ Sync
    \/ RotateOpen \/ RotateFails
    \/ Crash

Spec == Init /\ [][Next]_vars

\* The ticker fires and the holder of w.mu goes on.
FairSpec ==
    /\ Spec
    /\ WF_vars(Begin("tick"))
    /\ WF_vars(Flush) /\ WF_vars(Sync) /\ WF_vars(RotateOpen \/ RotateFails)

-----------------------------------------------------------------------------
\* The WAL is a durable log: with SyncAlways every record whose Append returned,
\* in the other modes every record appended before the last completed Sync, is
\* delivered by each later replay of the segments, in order, whatever a crash
\* cuts off the active segment.
D == INSTANCE DurableLog WITH log <- Log, kept <- kept
IsDurableLog == D!DurableSpec

\* Replay delivers records in the order of their Append, none twice: the new
\* buffer of a Rotate and the cut of a crash never let cells of two records mix.
ReplayInOrder == \A i, j \in DOMAIN Log : i < j => Log[i] < Log[j]

\* "A partial last record is silently truncated": no crash leaves a segment that
\* makes Engine.Open fail.
TornTailIsSilent == status # "failed"

\* Unless the mode is SyncNever, a record does not stay in the buffer for ever:
\* Append or the ticker makes it durable unless the process stops first.
EventuallyKept ==
    \A k \in 1..MaxRecords :
        (status = "open" /\ syncMode # "SyncNever" /\ count = k) ~> (status # "open" \/ kept >= k)

-----------------------------------------------------------------------------
(* Why it is a durable log *)

\* What the segments before the active one deliver, and what an open WAL would
\* deliver if its buffer were flushed now.
Earlier == Joined([i \in 1..(Active - 1) |-> Decoded(segs[i])])
Stream == segs[Active] \o buf
Written == IF status \in {"open", "closed"} THEN Earlier \o Decoded(Stream) ELSE Log

\* The cells of the active segment and of the buffer are together whole frames; a
\* Sync finds the buffer empty, so the durable part of the segment ends behind a
\* frame, and the frames up to there hold what was promised.
WalInv ==
    /\ TypeOK
    /\ \A i \in DOMAIN segs : Whole(segs[i], Len(Decoded(segs[i])))
    /\ op.step # "free" => status = "open"
    /\ op.step \in {"sync", "open"} \/ status # "open" => buf = << >>
    /\ status \in {"open", "closed"} =>
          /\ Active > 0
          /\ Whole(Stream, Len(Decoded(Stream)))
          /\ Len(Stream) = Len(Decoded(Stream)) * FrameLen
          /\ \E n \in 0..Len(Decoded(Stream)) :
                synced[Active] = n * FrameLen /\ kept <= Len(Earlier) + n
          /\ count = Len(Written)
    /\ \A i, j \in DOMAIN Written : i < j => Written[i] < Written[j]
    /\ \A i \in DOMAIN Written : Written[i] < next
    /\ Len(Written) < next
    /\ kept <= Len(Log)

=============================================================================
