------------------------------ MODULE Manifest ------------------------------
(***************************************************************************)
(* internal/manifest: the append-only log of VersionEdits.  Unlike a WAL   *)
(* segment the file is opened again for appending after a crash, so Replay *)
(* has to cut a torn tail off and to continue the numbering of the edits.  *)
(***************************************************************************)
EXTENDS Frames, Functions

CONSTANTS
    MaxEdits,   \* bound: how many edits are appended
    MaxFaults   \* bound: how many fsyncs fail

ASSUME ManifestBoundsAssumption == MaxEdits \in Nat /\ MaxFaults \in Nat

VARIABLES
    file,      \* the cells of the MANIFEST
    durable,   \* how many of them are on disk
    seq,       \* m.seq
    stage,     \* "down", "open", "writing", "closed", or "failed": Replay failed
    nextEdit,  \* the next edit to append
    faults,    \* how many fsyncs failed
    acked      \* history: edits whose Append returned nil

manifestVars == <<file, durable, seq, stage, nextEdit, faults, acked>>

\* An edit as it is encoded: which one it is and its Seq field.
Edits == [id : 1..MaxEdits, Seq : 1..MaxEdits]

ManifestTypeOK ==
    /\ file \in Seq(CellsOf(Edits))
    /\ durable \in 0..Len(file)
    /\ seq \in 0..MaxEdits
    /\ stage \in {"down", "open", "writing", "closed", "failed"}
    /\ nextEdit \in 1..(MaxEdits + 1) /\ faults \in 0..MaxFaults
    /\ acked \subseteq 1..MaxEdits

ManifestInit ==
    /\ file = << >> /\ durable = 0 /\ seq = 0 /\ stage = "down"
    /\ nextEdit = 1 /\ faults = 0 /\ acked = {}

\* What Replay delivers.
EditLog == Decoded(file)

\* As Replay, leaving the torn tail in place.
ReplayKeepsTail ==
    /\ stage = "down"
    /\ IF ReplayFails(file)
       THEN stage' = "failed" /\ UNCHANGED seq
       ELSE /\ stage' = "open"
            /\ seq' = CHOOSE s \in {0} \cup {e.Seq : e \in Range(EditLog)} :
                          \A e \in Range(EditLog) : e.Seq <= s
    /\ UNCHANGED <<file, durable, nextEdit, faults, acked>>

\* As Replay, starting the numbering anew.
ReplayFromZero ==
    /\ stage = "down"
    /\ IF ReplayFails(file)
       THEN stage' = "failed" /\ UNCHANGED file
       ELSE /\ stage' = "open"
            /\ file' = SubSeq(file, 1, ValidBytes(file))
    /\ seq' = 0
    /\ UNCHANGED <<durable, nextEdit, faults, acked>>

\* Open and Replay: restore m.seq and truncate the file behind the last valid edit.
Replay ==
    /\ stage = "down"
    /\ IF ReplayFails(file)
       THEN stage' = "failed" /\ UNCHANGED <<file, seq>>
       ELSE /\ stage' = "open"
            /\ seq' = CHOOSE s \in {0} \cup {e.Seq : e \in Range(EditLog)} :
                          \A e \in Range(EditLog) : e.Seq <= s
            /\ file' = SubSeq(file, 1, ValidBytes(file))
    /\ UNCHANGED <<durable, nextEdit, faults, acked>>

\* Append: header and body go through the empty buffer to the file.
AppendWrite ==
    /\ stage = "open" /\ nextEdit <= MaxEdits
    /\ file' = file \o Frame([id |-> nextEdit, Seq |-> seq + 1])
    /\ nextEdit' = nextEdit + 1 /\ stage' = "writing"
    /\ UNCHANGED <<durable, seq, faults, acked>>

\* Append: fsync, and only then the new sequence number.
AppendSync ==
    /\ stage = "writing"
    /\ durable' = Len(file) /\ seq' = seq + 1 /\ stage' = "open"
    /\ acked' = acked \cup {nextEdit - 1}
    /\ UNCHANGED <<file, nextEdit, faults>>

\* The fsync fails: Append returns the error, the edit stays in the file.
AppendSyncFails ==
    /\ stage = "writing" /\ faults < MaxFaults
    /\ faults' = faults + 1 /\ stage' = "open"
    /\ UNCHANGED <<file, durable, seq, nextEdit, acked>>

\* Close flushes and syncs.
Close ==
    /\ stage = "open"
    /\ durable' = Len(file) /\ stage' = "closed"
    /\ UNCHANGED <<file, seq, nextEdit, faults, acked>>

\* The process exits, or crashes and loses some of what was not synced.
ManifestCrash ==
    /\ stage \in {"open", "writing", "closed"}
    /\ \E n \in durable..Len(file) : file' = SubSeq(file, 1, n)
    /\ seq' = 0 /\ stage' = "down"
    /\ UNCHANGED <<durable, nextEdit, faults, acked>>

ManifestNext == Replay \/ AppendWrite \/ AppendSync \/ AppendSyncFails \/ Close \/ ManifestCrash

ManifestSpec == ManifestInit /\ [][ManifestNext]_manifestVars

-----------------------------------------------------------------------------
\* Seq numbers the edits: along the file they never go down, and two edits whose
\* Append returned nil never share one, across restarts and failed fsyncs.
SeqNumbersEdits ==
    /\ \A i, j \in DOMAIN EditLog : i < j => EditLog[i].Seq <= EditLog[j].Seq
    /\ \A i, j \in DOMAIN EditLog :
          i # j /\ {EditLog[i].id, EditLog[j].id} \subseteq acked => EditLog[i].Seq # EditLog[j].Seq

\* An edit whose Append returned nil is delivered by every Replay from then on,
\* and in the order of the Appends: a crash cannot take it, an earlier torn tail
\* cannot hide it, and a failed fsync before it does no harm.
AckedEditsReplayed ==
    /\ acked \subseteq {e.id : e \in Range(EditLog)}
    /\ \A i, j \in DOMAIN EditLog : i < j => EditLog[i].id < EditLog[j].id

\* Why both hold.  The file is whole frames and, until Replay has cut it off, one
\* torn tail; the durable part of it ends behind a frame and holds every edit
\* acknowledged.  An edit written after a failed fsync repeats the number of the
\* one before it, so a number is below m.seq + 2, and below m.seq + 1 once its
\* edit is acknowledged.
ManifestInv ==
    /\ ManifestTypeOK
    /\ Whole(file, Len(EditLog))
    /\ stage \in {"open", "writing", "closed"} => Len(file) = Len(EditLog) * FrameLen
    /\ \E n \in 0..Len(EditLog) :
          durable = n * FrameLen /\ acked \subseteq {EditLog[i].id : i \in 1..n}
    /\ AckedEditsReplayed /\ SeqNumbersEdits
    /\ \A i \in DOMAIN EditLog : EditLog[i].id < nextEdit /\ EditLog[i].Seq <= EditLog[i].id
    /\ stage \in {"open", "writing", "closed"} =>
          \A i \in DOMAIN EditLog :
              EditLog[i].Seq <= seq + 1 /\ (EditLog[i].id \in acked => EditLog[i].Seq <= seq)
    /\ seq < nextEdit
    /\ stage = "writing" =>
          /\ Len(EditLog) > 0 /\ EditLog[Len(EditLog)] = [id |-> nextEdit - 1, Seq |-> seq + 1]
          /\ seq + 1 < nextEdit

=============================================================================
