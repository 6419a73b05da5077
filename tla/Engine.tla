------------------------------- MODULE Engine -------------------------------
(***************************************************************************)
(* The write, flush and recovery path of internal/engine: Append, the      *)
(* background flusher, the sealing of expired partitions, Close, and Open  *)
(* after a clean shutdown or a crash.                                      *)
(*                                                                         *)
(* Disk: the WAL segments (SyncAlways, so a segment holds exactly the      *)
(* records whose WAL append returned), the SSTable files and the MANIFEST. *)
(* Memory: the partition map with its memtables, the readers of the live   *)
(* SSTables, the flush queue and the goroutines' positions.                *)
(*                                                                         *)
(* One action is one stretch of code that no other goroutine can observe   *)
(* half done: a critical section, one file-system call, or one iteration   *)
(* of a recovery loop.  A crash may fall between any two of them.          *)
(***************************************************************************)
EXTENDS Router, FiniteSets, Sequences, Functions

CONSTANTS
    Records,        \* the records callers append, each at most once
    TsOf,           \* Record.Timestamp
    Appenders,      \* goroutines that call Engine.Append
    NoRecord,       \* an idle appender's record
    MemtableLimit,  \* Options.MemtableSizeBytes, in records
    FlushChCap,     \* capacity of flushCh (16 in the code)
    MaxNow,         \* bound: the clock stops here
    MaxSessions,    \* bound: how many times the store is opened
    MaxFaults,      \* bound: how many I/O calls of a flush fail
    CrashPhases,    \* the phases in which the process may crash
    Callers         \* what the callers promise, a subset of Promises

\* "ordered": records of a window are appended in increasing timestamp order.
\* "quiesced": no Append starts between a flush's walSeq++ and its SwapMemtable.
Promises == {"ordered", "quiesced"}

OpenPhases == {"manifest", "segments"}
Phases == {"down", "running", "closing", "draining", "closed"} \cup OpenPhases
FlushSteps == {"idle", "bump", "rotate", "create", "swap", "finish", "commit",
               "unlink", "register"}

ASSUME TsOfAssumption == TsOf \in [Records -> Int]
ASSUME NoRecordAssumption == NoRecord \notin Records
ASSUME BoundsAssumption ==
    /\ MemtableLimit \in Nat /\ FlushChCap \in Nat /\ MaxNow \in Nat
    /\ MaxSessions \in Nat /\ MaxFaults \in Nat
ASSUME CrashPhasesAssumption == CrashPhases \subseteq Phases \ {"down"}
ASSUME CallersAssumption == Callers \subseteq Promises

VARIABLES
    now,           \* the wall clock
    segs,          \* disk: WAL segment number -> the records in it
    sst,           \* disk: SSTable path -> [done, recs]
    manifest,      \* disk: the sequence of VersionEdits
    phase,         \* where the process is in the life of an Engine
    sessions,      \* how often the store was opened
    faults,        \* how many I/O calls failed
    editIdx,       \* Open: the next VersionEdit to replay
    todoSegs,      \* Open: walPaths still to replay
    todoParts,     \* Close: partitions of router.All() still to visit
    pstate,        \* router.partitions: window -> lifecycle state
    mem,           \* window -> records in the partition's memtable
    files,         \* e.files: paths of the open readers
    maxFlushedTS,  \* e.maxFlushedTS; a missing key reads 0 and is never stored as 0
    manifestErr,   \* the write error that bufio.Writer keeps: manifest.Append is refused
    walSeq,        \* e.walSeq
    curWAL,        \* the segment e.wal has open
    flushCh,       \* e.flushCh
    workers,       \* goroutines wg.Wait still waits for
    fpc, fwin, oldWAL, newSeq, snap,  \* flushPartition: position and locals
    apc, arec,     \* Append: position and record of each appender
    issued,        \* history: records whose Append was called
    acked,         \* history: records whose Append returned nil
    rejected       \* history: records whose Append returned an error

env == <<now, sessions, faults>>
disk == <<segs, sst, manifest>>
openVars == <<editIdx, todoSegs, manifestErr>>
router == <<pstate, mem>>
readers == <<files, maxFlushedTS>>
walVars == <<walSeq, curWAL>>
tasks == <<flushCh, workers, todoParts>>
locals == <<fwin, oldWAL, newSeq>>
flushVars == <<fpc, snap, locals>>
callers == <<apc, arec, issued, acked, rejected>>
vars == <<env, disk, phase, openVars, router, readers, walVars, tasks, flushVars, callers>>

-----------------------------------------------------------------------------
\* A window is named by its start.
Win(r) == WindowFor(TsOf[r]).Start
Windows == {Win(r) : r \in Records}
WindowOf(w) == [Start |-> w, End |-> w + PartitionDuration]

Paths == [win : Windows, seq : Nat]
FileEntries == [path : Paths, max : Int]
VersionEdits == [added : SUBSET FileEntries, deleted : SUBSET Paths]
SSTables == [done : BOOLEAN, recs : SUBSET Records]

Remove(f, k) == Restrict(f, DOMAIN f \ {k})
Live == {"running", "closing", "draining"}

\* sstable.NewReader succeeds: the file exists and its footer was written.
Readable(p) == p \in DOMAIN sst /\ sst[p].done

InMemory == UNION {mem[w] : w \in Windows}
InFiles == UNION {sst[p].recs : p \in files \cap DOMAIN sst}
Visible == InMemory \cup InFiles

TypeOK ==
    /\ now \in Nat /\ sessions \in Nat /\ faults \in Nat
    /\ DOMAIN segs \subseteq Nat
    /\ \A s \in DOMAIN segs : segs[s] \subseteq Records
    /\ DOMAIN sst \subseteq Paths
    /\ \A p \in DOMAIN sst : sst[p] \in SSTables
    /\ manifest \in Seq(VersionEdits)
    /\ phase \in Phases
    /\ editIdx \in Nat \ {0} /\ todoSegs \subseteq Nat
    /\ manifestErr \in BOOLEAN /\ todoParts \subseteq Windows
    /\ pstate \in [Windows -> {"none", "open", "sealed"}]
    /\ mem \in [Windows -> SUBSET Records]
    /\ files \subseteq Paths
    /\ maxFlushedTS \in [Windows -> Int]
    /\ walSeq \in Nat /\ curWAL \in Nat
    /\ flushCh \in Seq(Windows) /\ Len(flushCh) <= FlushChCap
    /\ workers \subseteq {"flusher", "compactor"}
    /\ fpc \in FlushSteps
    /\ fpc # "idle" => fwin \in Windows
    /\ oldWAL \in Nat /\ newSeq \in Nat /\ snap \subseteq Records
    /\ apc \in [Appenders -> {"idle", "route", "insert", "signal"}]
    /\ arec \in [Appenders -> Records \cup {NoRecord}]
    /\ \A a \in Appenders : apc[a] # "idle" => arec[a] \in Records
    /\ issued \subseteq Records /\ acked \subseteq issued /\ rejected \subseteq issued

-----------------------------------------------------------------------------

Init ==
    /\ now = 0 /\ sessions = 0 /\ faults = 0
    /\ segs = [s \in {} |-> {}]
    /\ sst = [p \in {} |-> {}]
    /\ manifest = << >>
    /\ phase = "down"
    /\ editIdx = 1 /\ todoSegs = {} /\ todoParts = {} /\ manifestErr = FALSE
    /\ pstate = [w \in Windows |-> "none"]
    /\ mem = [w \in Windows |-> {}]
    /\ files = {}
    /\ maxFlushedTS = [w \in Windows |-> 0]
    /\ walSeq = 0 /\ curWAL = 0
    /\ flushCh = << >> /\ workers = {}
    /\ fpc = "idle" /\ fwin = 0 /\ oldWAL = 0 /\ newSeq = 0 /\ snap = {}
    /\ apc = [a \in Appenders |-> "idle"]
    /\ arec = [a \in Appenders |-> NoRecord]
    /\ issued = {} /\ acked = {} /\ rejected = {}

-----------------------------------------------------------------------------
(* Open: recovery, one action per loop iteration *)

OpenBegin ==
    /\ phase = "down" /\ sessions < MaxSessions
    /\ phase' = "manifest" /\ sessions' = sessions + 1
    /\ UNCHANGED <<now, faults, disk, openVars, router, readers, walVars, tasks, flushVars, callers>>

\* One call of the callback given to manifest.Replay.  A file that cannot be
\* opened makes it return before it looks at the edit's deletions.  Every edit
\* the engine writes adds at most one file.  A deletion closes the first reader of
\* that path: one that the same edit opened stays if there was an older one.
ReplayEdit ==
    /\ phase = "manifest" /\ editIdx <= Len(manifest)
    /\ LET edit == manifest[editIdx]
           unreadable == \E fe \in edit.added : ~Readable(fe.path)
           opened == IF unreadable THEN {} ELSE edit.added
           Raises(w, fe) == fe.path.win = w /\ fe.max > maxFlushedTS[w]
           Stays(p) == p \in edit.deleted => p \in files
       IN  /\ files' = IF unreadable THEN files
                       ELSE (files \ edit.deleted) \cup {p \in {fe.path : fe \in opened} : Stays(p)}
           /\ maxFlushedTS' = [w \in Windows |->
                  IF \E fe \in opened : Raises(w, fe)
                  THEN (CHOOSE fe \in opened : Raises(w, fe)).max
                  ELSE maxFlushedTS[w]]
           /\ pstate' = [w \in Windows |->
                  IF \E fe \in opened : fe.path.win = w THEN "open" ELSE pstate[w]]
    /\ editIdx' = editIdx + 1
    /\ UNCHANGED <<phase, env, disk, todoSegs, manifestErr, mem, walVars, tasks, flushVars, callers>>

\* As RemoveOrphans, but the segments are counted instead of parsed.
RemoveOrphansCounting ==
    /\ phase = "manifest" /\ editIdx > Len(manifest)
    /\ sst' = Restrict(sst, DOMAIN sst \cap files)
    /\ todoSegs' = DOMAIN segs
    /\ walSeq' = Cardinality(DOMAIN segs)
    /\ phase' = "segments"
    /\ UNCHANGED <<env, segs, manifest, editIdx, manifestErr, router, readers, curWAL, tasks, flushVars, callers>>

\* As RemoveOrphans, but files without a reader stay.
RemoveOrphansLeaves ==
    /\ phase = "manifest" /\ editIdx > Len(manifest)
    /\ todoSegs' = DOMAIN segs
    /\ \E m \in DOMAIN segs \cup {0} :
          /\ \A s \in DOMAIN segs : s <= m
          /\ walSeq' = m
    /\ phase' = "segments"
    /\ UNCHANGED <<env, disk, editIdx, manifestErr, router, readers, curWAL, tasks, flushVars, callers>>

\* Remove every *.sst file without a reader, then glob the WAL segments and
\* take the highest segment number.
RemoveOrphans ==
    /\ phase = "manifest" /\ editIdx > Len(manifest)
    /\ sst' = Restrict(sst, DOMAIN sst \cap files)
    /\ todoSegs' = DOMAIN segs
    /\ \E m \in DOMAIN segs \cup {0} :
          /\ \A s \in DOMAIN segs : s <= m
          /\ walSeq' = m
    /\ phase' = "segments"
    /\ UNCHANGED <<env, segs, manifest, editIdx, manifestErr, router, readers, curWAL, tasks, flushVars, callers>>

\* A comparison that treats the last flushed timestamp itself as not flushed.
CoveredStrictly(r) == maxFlushedTS[Win(r)] # 0 /\ TsOf[r] < maxFlushedTS[Win(r)]

\* The replayed record is "already persisted in an SSTable".
Covered(r) == maxFlushedTS[Win(r)] # 0 /\ TsOf[r] <= maxFlushedTS[Win(r)]

\* Router.Route refuses the record.
Refused(r) == LateArrivalMode = "Strict" /\ IsLate(TsOf[r], now)

\* As ReplaySegment, but a replayed record skips the late-arrival test.
ReplaySegmentTolerant ==
    /\ phase = "segments"
    /\ \E s \in todoSegs :
          /\ \A t \in todoSegs : s <= t
          /\ LET fresh == {r \in segs[s] : ~Covered(r)}
             IN  /\ mem' = [w \in Windows |-> mem[w] \cup {r \in fresh : Win(r) = w}]
                 /\ pstate' = [w \in Windows |->
                        IF \E r \in fresh : Win(r) = w THEN "open" ELSE pstate[w]]
                 /\ segs' = IF fresh = {} THEN Remove(segs, s) ELSE segs
          /\ todoSegs' = todoSegs \ {s}
    /\ UNCHANGED <<phase, env, sst, manifest, editIdx, manifestErr, readers, walVars, tasks, flushVars, callers>>

\* Replay one segment, the lowest first; delete it if every record is covered.
\* A record Route refuses is logged and dropped, but counts as new.
ReplaySegment ==
    /\ phase = "segments"
    /\ \E s \in todoSegs :
          /\ \A t \in todoSegs : s <= t
          /\ LET fresh == {r \in segs[s] : ~Covered(r)}
                 routed == {r \in fresh : ~Refused(r)}
             IN  /\ mem' = [w \in Windows |-> mem[w] \cup {r \in routed : Win(r) = w}]
                 /\ pstate' = [w \in Windows |->
                        IF \E r \in routed : Win(r) = w THEN "open" ELSE pstate[w]]
                 /\ segs' = IF fresh = {} THEN Remove(segs, s) ELSE segs
          /\ todoSegs' = todoSegs \ {s}
    /\ UNCHANGED <<phase, env, sst, manifest, editIdx, manifestErr, readers, walVars, tasks, flushVars, callers>>

\* os.OpenFile with O_CREATE|O_APPEND: an existing segment keeps its records.
OpenSegment(s) ==
    segs' = [x \in DOMAIN segs \cup {s} |-> IF x \in DOMAIN segs THEN segs[x] ELSE {}]

OpenActiveWAL ==
    /\ phase = "segments" /\ todoSegs = {}
    /\ walSeq' = walSeq + 1 /\ curWAL' = walSeq + 1
    /\ OpenSegment(walSeq + 1)
    /\ phase' = "running" /\ workers' = {"flusher", "compactor"}
    /\ UNCHANGED <<env, sst, manifest, openVars, router, readers, flushCh, todoParts, flushVars, callers>>

-----------------------------------------------------------------------------
(* Append.  It holds e.mu.RLock from its first to its last step. *)

NoReaders == \A a \in Appenders : apc[a] = "idle"

\* What the callers promise about appending r now.
Promised(r) ==
    /\ "ordered" \in Callers => \A q \in issued : Win(q) = Win(r) => TsOf[q] < TsOf[r]
    /\ "quiesced" \in Callers => fpc \notin {"rotate", "create", "swap"}

\* The closed check and wal.Append.
AppendWAL(a, r) ==
    /\ phase = "running" /\ apc[a] = "idle"
    /\ r \notin issued /\ Promised(r)
    /\ segs' = [segs EXCEPT ![curWAL] = @ \cup {r}]
    /\ issued' = issued \cup {r}
    /\ apc' = [apc EXCEPT ![a] = "route"] /\ arec' = [arec EXCEPT ![a] = r]
    /\ UNCHANGED <<phase, env, sst, manifest, openVars, router, readers, walVars, tasks, flushVars, acked, rejected>>

AppendReturns(a) ==
    /\ apc' = [apc EXCEPT ![a] = "idle"]
    /\ arec' = [arec EXCEPT ![a] = NoRecord]

\* router.Route: refuse a late record, or find or create its partition.
AppendRoute(a) ==
    /\ apc[a] = "route"
    /\ LET w == Win(arec[a])
       IN  IF Refused(arec[a])
           THEN /\ AppendReturns(a)
                /\ rejected' = rejected \cup {arec[a]}
                /\ UNCHANGED pstate
           ELSE /\ apc' = [apc EXCEPT ![a] = "insert"]
                /\ pstate' = [pstate EXCEPT ![w] = IF @ = "none" THEN "open" ELSE @]
                /\ UNCHANGED <<arec, rejected>>
    /\ UNCHANGED <<phase, env, disk, openVars, mem, readers, walVars, tasks, flushVars, issued, acked>>

\* TimePartition.Append: insert the record, or refuse it if the partition is sealed.
AppendInsert(a) ==
    /\ apc[a] = "insert"
    /\ LET w == Win(arec[a])
       IN  IF pstate[w] = "open"
           THEN /\ mem' = [mem EXCEPT ![w] = @ \cup {arec[a]}]
                /\ apc' = [apc EXCEPT ![a] = "signal"]
                /\ UNCHANGED <<arec, rejected>>
           ELSE /\ AppendReturns(a)
                /\ rejected' = rejected \cup {arec[a]}
                /\ UNCHANGED mem
    /\ UNCHANGED <<phase, env, disk, openVars, pstate, readers, walVars, tasks, flushVars, issued, acked>>

\* As Signalled, without the capacity of the channel.
SignalledUnbounded(w) ==
    IF Cardinality(mem[w]) > MemtableLimit THEN Append(flushCh, w) ELSE flushCh

\* As Signalled, with the threshold one record too high.
SignalledLate(w) ==
    IF Cardinality(mem[w]) > MemtableLimit + 1 /\ Len(flushCh) < FlushChCap
    THEN Append(flushCh, w) ELSE flushCh

\* The non-blocking send to flushCh when the memtable of w is over the limit.
Signalled(w) ==
    IF Cardinality(mem[w]) > MemtableLimit /\ Len(flushCh) < FlushChCap
    THEN Append(flushCh, w) ELSE flushCh

\* The threshold test, by now on whatever other appenders and a flush have made
\* of the memtable, and the return of Append.
AppendSignal(a) ==
    /\ apc[a] = "signal"
    /\ flushCh' = Signalled(Win(arec[a]))
    /\ acked' = acked \cup {arec[a]}
    /\ AppendReturns(a)
    /\ UNCHANGED <<phase, env, disk, openVars, router, readers, walVars, workers, todoParts, flushVars, issued, rejected>>

-----------------------------------------------------------------------------
(* flushPartition, run by the flusher goroutine or by Close *)

\* What every step of flushPartition leaves alone.
FlushFrame ==
    UNCHANGED <<phase, now, sessions, editIdx, todoSegs, pstate, workers, todoParts, callers>>

FlushPath == [win |-> fwin, seq |-> newSeq]

FlushReturns == fpc' = "idle" /\ snap' = {}

\* runFlusher receives a partition.  After closeCh is closed its select may
\* still pick flushCh.
FlusherReceive ==
    /\ "flusher" \in workers /\ fpc = "idle" /\ flushCh # << >>
    /\ fpc' = "bump" /\ fwin' = Head(flushCh) /\ flushCh' = Tail(flushCh)
    /\ FlushFrame
    /\ UNCHANGED <<faults, manifestErr, disk, mem, readers, walVars, oldWAL, newSeq, snap>>

\* The first critical section of e.mu.
FlushBump ==
    /\ fpc = "bump" /\ NoReaders
    /\ oldWAL' = walSeq /\ newSeq' = walSeq + 1 /\ walSeq' = walSeq + 1
    /\ fpc' = "rotate"
    /\ FlushFrame
    /\ UNCHANGED <<faults, manifestErr, disk, mem, readers, curWAL, flushCh, fwin, snap>>

\* wal.Rotate
FlushRotate ==
    /\ fpc = "rotate"
    /\ OpenSegment(newSeq) /\ curWAL' = newSeq
    /\ fpc' = "create"
    /\ FlushFrame
    /\ UNCHANGED <<faults, manifestErr, sst, manifest, mem, readers, walSeq, flushCh, locals, snap>>

\* sstable.NewWriter creates or truncates the file.
FlushCreate ==
    /\ fpc = "create"
    /\ sst' = [p \in DOMAIN sst \cup {FlushPath} |->
                  IF p = FlushPath THEN [done |-> FALSE, recs |-> {}] ELSE sst[p]]
    /\ fpc' = "swap"
    /\ FlushFrame
    /\ UNCHANGED <<faults, manifestErr, segs, manifest, mem, readers, walVars, flushCh, locals, snap>>

\* SwapMemtable
FlushSwap ==
    /\ fpc = "swap"
    /\ snap' = mem[fwin] /\ mem' = [mem EXCEPT ![fwin] = {}]
    /\ fpc' = "finish"
    /\ FlushFrame
    /\ UNCHANGED <<faults, manifestErr, disk, readers, walVars, flushCh, locals>>

\* The Add loop and Finish.  An empty SSTable is removed again and the flush
\* ends there, leaving the old segment on disk.
FlushFinish ==
    /\ fpc = "finish"
    /\ IF snap = {}
       THEN sst' = Remove(sst, FlushPath) /\ fpc' = "idle"
       ELSE sst' = [sst EXCEPT ![FlushPath] = [done |-> TRUE, recs |-> snap]] /\ fpc' = "commit"
    /\ FlushFrame
    /\ UNCHANGED <<faults, manifestErr, segs, manifest, mem, readers, walVars, flushCh, locals, snap>>

\* m is meta.MaxTimestamp: the timestamp of the last record written.
IsMaxTS(m, S) == m \in {TsOf[r] : r \in S} /\ \A r \in S : TsOf[r] <= m

\* The VersionEdit of the flush reaches the manifest file.
WriteEdit ==
    \E m \in {TsOf[r] : r \in snap} :
        /\ IsMaxTS(m, snap)
        /\ manifest' = Append(manifest,
               [added |-> {[path |-> FlushPath, max |-> m]}, deleted |-> {}])

\* manifest.Append, durable when it returns.
FlushCommit ==
    /\ fpc = "commit" /\ ~manifestErr
    /\ WriteEdit
    /\ fpc' = "unlink"
    /\ FlushFrame
    /\ UNCHANGED <<faults, manifestErr, segs, sst, mem, readers, walVars, flushCh, locals, snap>>

\* os.Remove of the segment that was active when the flush started.
FlushUnlink ==
    /\ fpc = "unlink"
    /\ segs' = Remove(segs, oldWAL)
    /\ fpc' = "register"
    /\ FlushFrame
    /\ UNCHANGED <<faults, manifestErr, sst, manifest, mem, readers, walVars, flushCh, locals, snap>>

\* As FlushRegister, but the new reader replaces the window's others.
FlushRegisterOnly ==
    /\ fpc = "register" /\ NoReaders
    /\ files' = {p \in files : p.win # fwin} \cup {FlushPath}
    /\ \E m \in {TsOf[r] : r \in snap} :
          /\ IsMaxTS(m, snap)
          /\ maxFlushedTS' = [maxFlushedTS EXCEPT ![fwin] = IF m > @ THEN m ELSE @]
    /\ FlushReturns
    /\ FlushFrame
    /\ UNCHANGED <<faults, manifestErr, disk, mem, walVars, flushCh, locals>>

\* NewReader and the second critical section of e.mu.
FlushRegister ==
    /\ fpc = "register" /\ NoReaders
    /\ files' = files \cup {FlushPath}
    /\ \E m \in {TsOf[r] : r \in snap} :
          /\ IsMaxTS(m, snap)
          /\ maxFlushedTS' = [maxFlushedTS EXCEPT ![fwin] = IF m > @ THEN m ELSE @]
    /\ FlushReturns
    /\ FlushFrame
    /\ UNCHANGED <<faults, manifestErr, disk, mem, walVars, flushCh, locals>>

\* The call at which the flush stands fails: by a fault of the file system, or because
\* an earlier write to the manifest failed and its writer now refuses every edit.
FlushCallFails ==
    \/ /\ faults < MaxFaults /\ faults' = faults + 1
       /\ fpc \in {"rotate", "create", "finish", "commit", "unlink", "register"}
    \/ fpc = "commit" /\ manifestErr /\ UNCHANGED faults

\* As FlushFail, but a failed Rotate keeps the new walSeq.
FlushFailKeepsSeq ==
    /\ FlushCallFails
    /\ manifestErr' = (manifestErr \/ fpc = "commit")
    /\ IF fpc = "unlink" THEN fpc' = "register" /\ snap' = snap ELSE FlushReturns
    /\ FlushFrame
    /\ UNCHANGED <<disk, mem, readers, walVars, flushCh, locals>>

\* Rotate and NewWriter return the error with the memtable intact (Rotate also takes
\* walSeq back); after SwapMemtable the snapshot is dropped with it.  A failing write
\* to the manifest leaves no edit.  A failing os.Remove is only logged.
FlushFail ==
    /\ FlushCallFails
    /\ manifestErr' = (manifestErr \/ fpc = "commit")
    /\ walSeq' = IF fpc = "rotate" THEN walSeq - 1 ELSE walSeq
    /\ IF fpc = "unlink" THEN fpc' = "register" /\ snap' = snap ELSE FlushReturns
    /\ FlushFrame
    /\ UNCHANGED <<disk, mem, readers, curWAL, flushCh, locals>>

\* The fsync of manifest.Append fails after the edit was written: the flush
\* returns the error, but the next Open will find the edit.
FlushCommitUnsynced ==
    /\ faults < MaxFaults /\ faults' = faults + 1
    /\ fpc = "commit" /\ ~manifestErr
    /\ WriteEdit
    /\ FlushReturns
    /\ FlushFrame
    /\ UNCHANGED <<manifestErr, segs, sst, mem, readers, walVars, flushCh, locals>>

FlushStep ==
    \/ FlushBump \/ FlushRotate \/ FlushCreate \/ FlushSwap \/ FlushFinish
    \/ FlushCommit \/ FlushUnlink \/ FlushRegister

-----------------------------------------------------------------------------
(* The compactor's ticker: sealing (merging and retention: see Compaction) *)

\* One iteration of the loop of Router.SealExpired.
SealExpired(w) ==
    /\ "compactor" \in workers
    /\ pstate[w] = "open" /\ IsSealable(WindowOf(w), now)
    /\ pstate' = [pstate EXCEPT ![w] = "sealed"]
    /\ UNCHANGED <<phase, env, disk, openVars, mem, readers, walVars, tasks, flushVars, callers>>

-----------------------------------------------------------------------------
(* Close, process exit, crash, clock *)

\* closed = true and close(closeCh) under e.mu.
CloseBegin ==
    /\ phase = "running" /\ NoReaders
    /\ phase' = "closing"
    /\ UNCHANGED <<env, disk, openVars, router, readers, walVars, tasks, flushVars, callers>>

\* As WorkerExit, but runFlusher ranges over flushCh, which nobody closes.
WorkerExitRange(g) ==
    /\ phase = "closing" /\ g \in workers
    /\ g # "flusher"
    /\ workers' = workers \ {g}
    /\ UNCHANGED <<phase, env, disk, openVars, router, readers, walVars, flushCh, todoParts, flushVars, callers>>

\* runFlusher or runCompactor sees closeCh and returns.
WorkerExit(g) ==
    /\ phase = "closing" /\ g \in workers
    /\ g = "flusher" => fpc = "idle"
    /\ workers' = workers \ {g}
    /\ UNCHANGED <<phase, env, disk, openVars, router, readers, walVars, flushCh, todoParts, flushVars, callers>>

\* wg.Wait returns; router.All() lists the partitions.
CloseWaited ==
    /\ phase = "closing" /\ workers = {}
    /\ phase' = "draining"
    /\ todoParts' = {w \in Windows : pstate[w] # "none"}
    /\ UNCHANGED <<env, disk, openVars, router, readers, walVars, flushCh, workers, flushVars, callers>>

\* As NeedsFlush, with the threshold of Append.
NeedsFlushOversized(w) == pstate[w] = "open" /\ Cardinality(mem[w]) > MemtableLimit

\* The condition under which Close flushes a partition.
NeedsFlush(w) == pstate[w] = "open" /\ mem[w] # {}

\* One iteration of Close's loop over the partitions.
CloseVisit(w) ==
    /\ phase = "draining" /\ fpc = "idle" /\ w \in todoParts
    /\ todoParts' = todoParts \ {w}
    /\ IF NeedsFlush(w) THEN fpc' = "bump" /\ fwin' = w ELSE UNCHANGED <<fpc, fwin>>
    /\ UNCHANGED <<phase, env, disk, openVars, router, readers, walVars, flushCh, workers, oldWAL, newSeq, snap, callers>>

\* Readers, manifest and WAL are closed.
CloseEnd ==
    /\ phase = "draining" /\ fpc = "idle" /\ todoParts = {}
    /\ phase' = "closed"
    /\ UNCHANGED <<env, disk, openVars, router, readers, walVars, tasks, flushVars, callers>>

\* What the end of the process takes: everything but the disk and the histories.
LoseProcess ==
    /\ phase' = "down"
    /\ editIdx' = 1 /\ todoSegs' = {} /\ todoParts' = {} /\ manifestErr' = FALSE
    /\ pstate' = [w \in Windows |-> "none"]
    /\ mem' = [w \in Windows |-> {}]
    /\ files' = {}
    /\ maxFlushedTS' = [w \in Windows |-> 0]
    /\ walSeq' = 0 /\ curWAL' = 0
    /\ flushCh' = << >> /\ workers' = {}
    /\ fpc' = "idle" /\ fwin' = 0 /\ oldWAL' = 0 /\ newSeq' = 0 /\ snap' = {}
    /\ apc' = [a \in Appenders |-> "idle"]
    /\ arec' = [a \in Appenders |-> NoRecord]
    /\ UNCHANGED <<env, segs, manifest, issued, acked, rejected>>

LoseMemory == LoseProcess /\ UNCHANGED sst

Exit == phase = "closed" /\ LoseMemory

Crash == phase \in CrashPhases /\ LoseMemory

Tick ==
    /\ now < MaxNow
    /\ now' = now + 1
    /\ UNCHANGED <<phase, sessions, faults, disk, openVars, router, readers, walVars, tasks, flushVars, callers>>

OpenStep == ReplayEdit \/ RemoveOrphans \/ ReplaySegment \/ OpenActiveWAL
AppendStep(a) == AppendRoute(a) \/ AppendInsert(a) \/ AppendSignal(a)
CloseStep ==
    \/ \E g \in {"flusher", "compactor"} : WorkerExit(g)
    \/ CloseWaited
    \/ \E w \in Windows : CloseVisit(w)
    \/ CloseEnd

Next ==
    \/ OpenBegin
    \/ OpenStep
    \/ \E a \in Appenders, r \in Records : AppendWAL(a, r)
    \/ \E a \in Appenders : AppendStep(a)
    \/ FlusherReceive
    \/ FlushStep
    \/ FlushFail \/ FlushCommitUnsynced
    \/ \E w \in Windows : SealExpired(w)
    \/ CloseBegin
    \/ CloseStep
    \/ Exit
    \/ Crash
    \/ Tick

Spec == Init /\ [][Next]_vars

-----------------------------------------------------------------------------
(* Safety *)

\* No scan returns a record twice: while the engine serves calls, a record is in
\* at most one of the memtables, the snapshot a flush is writing (which that flush
\* will register) and the files the readers are open on; and in at most one WAL
\* segment, or the next Open would replay it twice.  Recovery is what could break
\* it: a record may be in a segment and in a committed SSTable, and only the
\* maxFlushedTS comparison of Open keeps it from being replayed.
NoDuplicates ==
    phase \in Live =>
        /\ snap \cap Visible = {}
        /\ InMemory \cap InFiles = {}
        /\ \A p, q \in files \cap DOMAIN sst : p # q => sst[p].recs \cap sst[q].recs = {}
        /\ \A s, t \in DOMAIN segs : s # t => segs[s] \cap segs[t] = {}

\* "No record that was durably acknowledged is ever lost": in every session,
\* whatever happened before, a record whose Append returned nil is in a memtable,
\* in a file with a reader, or in the snapshot of the flush under way.
AckedVisible == phase \in Live => acked \subseteq Visible \cup snap

\* A record whose Append returned an error never becomes visible, although
\* Append wrote it to the WAL before Route or the partition refused it.
RejectedStaysInvisible == phase \in Live => rejected \cap (Visible \cup snap) = {}

\* After Close, nothing that was in a memtable is left only in the WAL: what
\* Append acknowledged in this or an earlier session is in committed SSTables.
CloseCommitsAll == phase = "closed" => acked \subseteq InFiles

\* The files the manifest refers to: added and not deleted since.
Referenced ==
    {p \in DOMAIN sst :
        \E i \in DOMAIN manifest :
            /\ \E fe \in manifest[i].added : fe.path = p
            /\ \A j \in DOMAIN manifest : j >= i => p \notin manifest[j].deleted}
Committed == UNION {sst[p].recs : p \in {q \in Referenced : sst[q].done}}

\* A record that a committed SSTable holds stays in a committed SSTable: no flush
\* truncates, and no recovery removes, a file the manifest refers to.
CommittedStays == [][Committed \subseteq Committed']_vars

-----------------------------------------------------------------------------
(* Liveness *)

\* Goroutines that can run do run: Append returns, the flusher and the compactor
\* react to closed channels, Close and Open go on once called.
Fairness ==
    /\ WF_vars(OpenStep)
    /\ \A a \in Appenders : WF_vars(AppendStep(a))
    /\ WF_vars(FlusherReceive)
    /\ WF_vars(FlushStep \/ FlushFail)
    /\ WF_vars(CloseStep)

FairSpec == Spec /\ Fairness

\* "If the partition's memtable exceeds MemtableSizeBytes, a background flush is
\* triggered": an Append that finds its memtable oversized has it swapped out in the end,
\* or the engine stops serving, or flushCh is full of requests for other partitions.  The
\* send does not wait for room: such a request is dropped, and only the partition's next
\* Append repeats it.
OversizedIsFlushed ==
    \A w \in Windows :
        (/\ Cardinality(mem[w]) > MemtableLimit
         /\ \E a \in Appenders : apc[a] = "signal" /\ Win(arec[a]) = w)
            ~> (\/ phase # "running" \/ Cardinality(mem[w]) <= MemtableLimit
                \/ Len(flushCh) = FlushChCap /\ w \notin Range(flushCh))

\* Close returns: the goroutines exit and every partition is visited, also when
\* a flush was running or requests were queued when Close was called.
CloseReturns == phase = "closing" ~> phase \in {"closed", "down"}

=============================================================================
