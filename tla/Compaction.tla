----------------------------- MODULE Compaction -----------------------------
(***************************************************************************)
(* The compactor goroutine of internal/engine composed with everything     *)
(* Engine models: merging a window's SSTables into one, retiring SSTables  *)
(* older than the retention horizon, and the readers that scans hold while *)
(* both happen.                                                            *)
(*                                                                         *)
(* An unlinked file stays in sst while a reader maps it: `gone' names those *)
(* files, and the end of the process takes them away.                      *)
(***************************************************************************)
EXTENDS Engine

CONSTANTS
    MaxFilesPerPartition,  \* Options.MaxFilesPerPartition of each session's Open
    RetentionDuration,     \* Options.RetentionDuration; 0 disables retention
    CompactChCap,          \* capacity of compactCh (16 in the code)
    MaxMerges,             \* bound: how many merges a session starts
    CompactorFaults,       \* the calls of the compactor that may fail
    Scanners,              \* goroutines that call Engine.Scan
    ScansEndFirst          \* the callers close every iterator before they call Close

\* "write": creating or finishing the output, or a manifest append that leaves no
\* edit; "sync": the fsync of a written edit; "remove": one os.Remove; "open":
\* NewReader on the output.
FaultKinds == {"write", "sync", "remove", "open"}

ASSUME CompactionAssumption ==
    /\ MaxFilesPerPartition \in [1 .. MaxSessions -> Nat \ {0}]
    /\ RetentionDuration \in Nat /\ CompactChCap \in Nat /\ MaxMerges \in Nat
    /\ CompactorFaults \subseteq FaultKinds
    /\ ScansEndFirst \in BOOLEAN

CompactSteps == {"idle", "create", "finish", "commit", "remove", "install",
                 "retire", "unlink", "forget"}

VARIABLES
    compactSeq,     \* e.compactSeq
    compactCh,      \* e.compactCh
    cpc, cwin,      \* the compactor's position and window
    cin,            \* the files it merges or retires
    crecs,          \* the records its merge iterators return
    sweep,          \* windows sweepCompaction has still to visit
    expired,        \* candidates sweepRetention has still to retire
    closedReaders,  \* e.closedReaders: readers kept open until Close
    gone,           \* paths unlinked in this session, still mapped
    held,           \* the readers each scanner's iterators use
    want            \* history: the records those files held when the scan started

compactor == <<cpc, cwin, cin, crecs>>
sweeps == <<sweep, expired>>
unmapped == <<closedReaders, gone>>
scans == <<held, want>>
cvars == <<compactSeq, compactCh, compactor, sweeps, unmapped, scans>>
all == <<vars, cvars>>

-----------------------------------------------------------------------------
FilesOf(w) == {p \in files : p.win = w}
Output == [win |-> cwin, compact |-> compactSeq]
RecordsIn(F) == UNION {sst[p].recs : p \in F \cap DOMAIN sst}
MaxTS(S) == CHOOSE m \in {TsOf[r] : r \in S} : IsMaxTS(m, S)

\* The retention horizon, and the records before it.
Horizon == now - RetentionDuration
Expired == {r \in Records : RetentionDuration > 0 /\ TsOf[r] < Horizon}

\* runCompactor is back at its select.
AtSelect == "compactor" \in workers /\ cpc = "idle" /\ sweep = {} /\ expired = {}

CompactorTypeOK ==
    /\ compactSeq \in Nat
    /\ compactCh \in Seq(Windows) /\ Len(compactCh) <= CompactChCap
    /\ cpc \in CompactSteps
    /\ cpc # "idle" => cwin \in Windows /\ cin # {} /\ cin \subseteq FilesOf(cwin)
    /\ crecs \subseteq Records
    /\ sweep \subseteq Windows /\ expired \subseteq files
    /\ gone \subseteq DOMAIN sst /\ closedReaders \cap files = {}
    /\ \A s \in Scanners : want[s] \subseteq Records

CompactorInit ==
    /\ compactSeq = 0 /\ compactCh = << >>
    /\ cpc = "idle" /\ cwin = 0 /\ cin = {} /\ crecs = {}
    /\ sweep = {} /\ expired = {} /\ closedReaders = {} /\ gone = {}
    /\ held = [s \in Scanners |-> {}] /\ want = [s \in Scanners |-> {}]

\* What no step of the compactor changes.
CompactFrame ==
    UNCHANGED <<phase, now, sessions, segs, editIdx, todoSegs, mem, walVars, tasks, flushVars, callers, scans>>

CompactReturns == cpc' = "idle" /\ cwin' = 0 /\ cin' = {} /\ crecs' = {}

-----------------------------------------------------------------------------
(* maybeCompact and compaction.Merge *)

\* The reader list is copied under RLock and FIFOStrategy.PickMerge takes all of
\* it when there are more than MaxFilesPerPartition.
MaybeCompact(w) ==
    IF Cardinality(FilesOf(w)) > MaxFilesPerPartition[sessions] /\ compactSeq < MaxMerges
    THEN cpc' = "create" /\ cwin' = w /\ cin' = FilesOf(w) /\ UNCHANGED crecs
    ELSE UNCHANGED compactor

CompactReceive ==
    /\ AtSelect /\ compactCh # << >>
    /\ compactCh' = Tail(compactCh)
    /\ MaybeCompact(Head(compactCh))
    /\ CompactFrame
    /\ UNCHANGED <<faults, manifestErr, sst, manifest, pstate, readers, compactSeq, sweeps, unmapped>>

\* As SweepWindows, but leaves out windows that still take records.
SweepWindowsSealed == {p.win : p \in {q \in files : pstate[q.win] = "sealed"}}

\* The keys of e.files.
SweepWindows == {p.win : p \in files}

\* The ticker: Router.SealExpired, then the list of the windows that have files.
SweepCompaction ==
    /\ AtSelect
    /\ pstate' = [w \in Windows |->
           IF pstate[w] = "open" /\ IsSealable(WindowOf(w), now) THEN "sealed" ELSE pstate[w]]
    /\ sweep' = SweepWindows
    /\ CompactFrame
    /\ UNCHANGED <<faults, manifestErr, sst, manifest, readers, compactSeq, compactCh, compactor, expired, unmapped>>

SweepVisit(w) ==
    /\ cpc = "idle" /\ w \in sweep
    /\ sweep' = sweep \ {w}
    /\ MaybeCompact(w)
    /\ CompactFrame
    /\ UNCHANGED <<faults, manifestErr, sst, manifest, pstate, readers, compactSeq, compactCh, expired, unmapped>>

\* A numbering that starts again with each merge.
NextCompactSeqReset == 1

NextCompactSeq == compactSeq + 1

\* compactSeq++ under e.mu; the iterators are opened on the inputs, and NewWriter
\* creates the output or truncates the file that has its name.
MergeCreate ==
    /\ cpc = "create" /\ NoReaders
    /\ compactSeq' = NextCompactSeq
    /\ crecs' = RecordsIn(cin)
    /\ LET out == [win |-> cwin, compact |-> NextCompactSeq]
       IN  sst' = [p \in DOMAIN sst \cup {out} |->
                      IF p = out THEN [done |-> FALSE, recs |-> {}] ELSE sst[p]]
    /\ cpc' = "finish"
    /\ CompactFrame
    /\ UNCHANGED <<faults, manifestErr, manifest, pstate, readers, compactCh, cwin, cin, sweeps, unmapped>>

\* The merge loop and Finish.  When NewWriter truncated an input, reading on in
\* its mapping may instead fail or kill the process: CompactorFails, ProcessEnds.
MergeFinish ==
    /\ cpc = "finish"
    /\ sst' = [sst EXCEPT ![Output] = [done |-> TRUE, recs |-> crecs]]
    /\ cpc' = "commit"
    /\ CompactFrame
    /\ UNCHANGED <<faults, manifestErr, manifest, pstate, readers, compactSeq, compactCh, cwin, cin, crecs, sweeps, unmapped>>

\* The edit of a merge adds the output and deletes the inputs; that of a
\* retirement only deletes.
WriteCompactorEdit ==
    manifest' = Append(manifest,
        [added |-> IF cpc = "commit" THEN {[path |-> Output, max |-> MaxTS(crecs)]} ELSE {},
         deleted |-> cin])

\* manifest.Append in Merge or in retireWindow.
CompactorCommit ==
    /\ cpc \in {"commit", "retire"} /\ ~manifestErr
    /\ WriteCompactorEdit
    /\ cpc' = IF cpc = "commit" THEN "remove" ELSE "unlink"
    /\ CompactFrame
    /\ UNCHANGED <<faults, manifestErr, sst, pstate, readers, compactSeq, compactCh, cwin, cin, crecs, sweeps, unmapped>>

\* os.Remove of the inputs, or of the retired files.
CompactorRemove ==
    /\ cpc \in {"remove", "unlink"}
    /\ gone' = gone \cup cin
    /\ cpc' = IF cpc = "remove" THEN "install" ELSE "forget"
    /\ CompactFrame
    /\ UNCHANGED <<faults, manifestErr, sst, manifest, pstate, readers, compactSeq, compactCh, cwin, cin, crecs, sweeps, closedReaders>>

\* As ReplaceReaders, but from the list copied before the merge.
ReplaceReadersStale ==
    /\ files' = {p \in files : p.win # cwin} \cup {Output}
    /\ closedReaders' = closedReaders \cup cin

\* As ReplaceReaders, but the replaced readers are closed at once.
ReplaceReadersClosing == files' = (files \ cin) \cup {Output} /\ UNCHANGED closedReaders

\* As ReplaceReaders, but the inputs' readers stay in the window's list.
ReplaceReadersKeeping == files' = files \cup {Output} /\ UNCHANGED closedReaders

\* The readers that are current now and were not merged survive.
ReplaceReaders ==
    /\ files' = (files \ cin) \cup {Output}
    /\ closedReaders' = closedReaders \cup cin

\* NewReader on the output, which fails if it was removed as an input, and the
\* critical section that replaces the inputs' readers by it.
MergeInstall ==
    /\ cpc = "install" /\ NoReaders
    /\ IF Output \in gone
       THEN UNCHANGED <<files, closedReaders>>
       ELSE ReplaceReaders
    /\ CompactReturns
    /\ CompactFrame
    /\ UNCHANGED <<faults, manifestErr, sst, manifest, pstate, maxFlushedTS, compactSeq, compactCh, sweeps, gone>>

-----------------------------------------------------------------------------
(* sweepRetention and retireWindow *)

\* As PickExpired, but a file goes already when its largest timestamp is the horizon.
PickExpiredEarly == {p \in files : \A r \in sst[p].recs : TsOf[r] <= Horizon}

\* As PickExpired, with the horizon one unit too early.
PickExpiredLate == {p \in files : \A r \in sst[p].recs : TsOf[r] < Horizon - 1}

\* FIFOStrategy.PickExpired selects on the largest timestamp in the file.
PickExpired == {p \in files : sst[p].recs \subseteq Expired}

\* The horizon is fixed and the candidates are chosen under one RLock.
SweepRetention ==
    /\ AtSelect /\ RetentionDuration > 0
    /\ expired' = PickExpired
    /\ CompactFrame
    /\ UNCHANGED <<faults, manifestErr, sst, manifest, pstate, readers, compactSeq, compactCh, compactor, sweep, unmapped>>

RetireWindow(w) ==
    /\ cpc = "idle" /\ \E p \in expired : p.win = w
    /\ cpc' = "retire" /\ cwin' = w /\ cin' = {p \in expired : p.win = w}
    /\ expired' = expired \ cin'
    /\ CompactFrame
    /\ UNCHANGED <<faults, manifestErr, sst, manifest, pstate, readers, compactSeq, compactCh, crecs, sweep, unmapped>>

\* The critical section of retireWindow and, for a window left without files, the
\* marking of its partition.
RetireForget ==
    /\ cpc = "forget" /\ NoReaders
    /\ files' = files \ cin
    /\ closedReaders' = closedReaders \cup cin
    /\ LET emptied == FilesOf(cwin) \subseteq cin
       IN  /\ maxFlushedTS' = [maxFlushedTS EXCEPT ![cwin] = IF emptied THEN 0 ELSE @]
           /\ pstate' = [pstate EXCEPT ![cwin] =
                  IF emptied /\ @ = "sealed" THEN "deleted" ELSE @]
    /\ CompactReturns
    /\ CompactFrame
    /\ UNCHANGED <<faults, manifestErr, sst, manifest, compactSeq, compactCh, sweeps, gone>>

-----------------------------------------------------------------------------
(* Failing calls.  Each is logged; a merge or a retirement then ends. *)

CompactorFault(kind) ==
    /\ kind \in CompactorFaults
    /\ faults < MaxFaults /\ faults' = faults + 1

\* The call at which the compactor stands fails, or the manifest's writer refuses the
\* edit because an earlier write to it failed.
CompactorCallFails ==
    \/ CompactorFault("write") /\ cpc \in {"create", "finish", "commit", "retire"}
    \/ CompactorFault("open") /\ cpc = "install"
    \/ cpc \in {"commit", "retire"} /\ manifestErr /\ UNCHANGED faults

\* A merge that fails at NewWriter has used its number.
CompactorFails ==
    /\ CompactorCallFails
    /\ manifestErr' = (manifestErr \/ cpc \in {"commit", "retire"})
    /\ cpc = "create" => NoReaders
    /\ compactSeq' = IF cpc = "create" THEN compactSeq + 1 ELSE compactSeq
    /\ CompactReturns
    /\ CompactFrame
    /\ UNCHANGED <<sst, manifest, pstate, readers, compactCh, sweeps, unmapped>>

CompactorCommitUnsynced ==
    /\ CompactorFault("sync") /\ cpc \in {"commit", "retire"} /\ ~manifestErr
    /\ WriteCompactorEdit
    /\ CompactReturns
    /\ CompactFrame
    /\ UNCHANGED <<manifestErr, sst, pstate, readers, compactSeq, compactCh, sweeps, unmapped>>

CompactorRemoveFails ==
    /\ CompactorFault("remove") /\ cpc \in {"remove", "unlink"}
    /\ \E p \in cin : gone' = gone \cup (cin \ {p})
    /\ cpc' = IF cpc = "remove" THEN "install" ELSE "forget"
    /\ CompactFrame
    /\ UNCHANGED <<manifestErr, sst, manifest, pstate, readers, compactSeq, compactCh, cwin, cin, crecs, sweeps, closedReaders>>

-----------------------------------------------------------------------------
(* Scans, and the engine's steps that concern the compactor *)

\* Engine.Scan, one critical section: it returns iterators on the open readers.
ScanOpen(s) ==
    /\ phase = "running" /\ held[s] = {} /\ files # {}
    /\ held' = [held EXCEPT ![s] = files]
    /\ want' = [want EXCEPT ![s] = InFiles]
    /\ UNCHANGED <<vars, compactSeq, compactCh, compactor, sweeps, unmapped>>

\* The iterator is exhausted or closed.
ScanEnd(s) ==
    /\ held[s] # {}
    /\ held' = [held EXCEPT ![s] = {}] /\ want' = [want EXCEPT ![s] = {}]
    /\ UNCHANGED <<vars, compactSeq, compactCh, compactor, sweeps, unmapped>>

\* As SendCompact, without the capacity of the channel.
SendCompactUnbounded == compactCh' = Append(compactCh, fwin)

\* As SendCompact, but the send waits for room.
SendCompactBlocking ==
    /\ Len(compactCh) < CompactChCap
    /\ compactCh' = Append(compactCh, fwin)

\* The non-blocking send to compactCh.
SendCompact ==
    compactCh' = IF Len(compactCh) < CompactChCap THEN Append(compactCh, fwin) ELSE compactCh

\* A step of a flush; the last one also signals the compactor.
FlushSignals ==
    /\ FlushStep
    /\ IF fpc = "register" THEN SendCompact ELSE UNCHANGED compactCh
    /\ UNCHANGED <<compactSeq, compactor, sweeps, unmapped, scans>>

CloseCalled ==
    /\ ScansEndFirst => \A s \in Scanners : held[s] = {}
    /\ CloseBegin
    /\ UNCHANGED cvars

\* runCompactor returns only from its select.
CompactorExit == AtSelect /\ WorkerExit("compactor") /\ UNCHANGED cvars

\* The process ends, maybe between two os.Remove; the files it had unlinked go with
\* their last mapping.
ProcessEnds ==
    /\ phase = "closed" \/ phase \in CrashPhases
    /\ LoseProcess
    /\ \E unlinked \in SUBSET (IF cpc \in {"remove", "unlink"} THEN cin ELSE {}) :
           sst' = Restrict(sst, DOMAIN sst \ (gone \cup unlinked))
    /\ compactSeq' = 0 /\ compactCh' = << >>
    /\ CompactReturns
    /\ sweep' = {} /\ expired' = {} /\ closedReaders' = {} /\ gone' = {}
    /\ held' = [s \in Scanners |-> {}] /\ want' = [s \in Scanners |-> {}]

MergeStep ==
    \/ MergeCreate \/ MergeFinish \/ CompactorCommit \/ CompactorRemove \/ MergeInstall
    \/ \E w \in Windows : SweepVisit(w) \/ RetireWindow(w)
    \/ RetireForget

\* The steps of Engine that neither see nor touch the compactor's state.
EngineStep ==
    \/ OpenBegin \/ OpenStep
    \/ \E a \in Appenders, r \in Records : AppendWAL(a, r)
    \/ \E a \in Appenders : AppendStep(a)
    \/ FlusherReceive \/ FlushFail \/ FlushCommitUnsynced
    \/ WorkerExit("flusher") \/ CloseWaited \/ CloseEnd
    \/ \E w \in Windows : CloseVisit(w)
    \/ Tick

CNext ==
    \/ EngineStep /\ UNCHANGED cvars
    \/ FlushSignals
    \/ CompactReceive \/ SweepCompaction \/ SweepRetention
    \/ MergeStep
    \/ CompactorFails \/ CompactorCommitUnsynced \/ CompactorRemoveFails
    \/ \E s \in Scanners : ScanOpen(s) \/ ScanEnd(s)
    \/ CloseCalled \/ CompactorExit
    \/ ProcessEnds

CSpec == Init /\ CompactorInit /\ [][CNext]_all

-----------------------------------------------------------------------------
(* Safety *)

\* "If the process dies before the manifest write [...] input files remain live";
\* after it "both old and new files exist": at every moment of a merge or of a
\* retirement, a record in a file the manifest refers to stays in one, unless it
\* is older than the retention horizon (architecture.md:108; configuration.md:129
\* has the oldest timestamp of a partition decide for all of its files).
KeptUnlessExpired == [][Committed \subseteq Committed' \cup Expired]_all

\* What Append acknowledged is visible, or being flushed, in every session, and
\* only the retention horizon ends that.
AckedKept == phase \in Live => acked \subseteq Visible \cup snap \cup Expired

\* Once Open has replayed the manifest and removed the orphans, the readers are
\* open on exactly the files the manifest refers to, whatever adds and deletes of
\* flushes, merges and retirements it holds, and no other file is left.
OpenMatchesManifest ==
    phase = "segments" => files = Referenced /\ files = DOMAIN sst

\* The readers under an iterator stay open: merges and retirements only move
\* them to closedReaders, and Close, which unmaps those too, is called after the
\* scans have ended if the callers keep to that.
HeldReadersOpen ==
    \A s \in Scanners :
        /\ held[s] \subseteq files \cup closedReaders
        /\ ScansEndFirst /\ held[s] # {} => phase = "running"

\* Why HeldReadersOpen holds: a scan starts on readers of a running engine, and
\* only the end of the process or a Close called too early takes them away.
HeldInv ==
    /\ held = [s \in Scanners |-> held[s]]
    /\ HeldReadersOpen
    /\ \A s \in Scanners : held[s] # {} => phase \in Live \cup {"closed"}

\* An iterator reads what its files held when the scan was started, whatever is
\* merged, retired, unlinked or newly created meanwhile.
ScanIntact == \A s \in Scanners : RecordsIn(held[s]) = want[s]

-----------------------------------------------------------------------------
(* Liveness *)

\* The select of runCompactor picks among its ready cases at random and its
\* tickers keep firing, so a case that is ready again and again is taken.
CFairness ==
    /\ WF_all(EngineStep /\ phase \in OpenPhases /\ UNCHANGED cvars)
    /\ \A a \in Appenders : WF_all(AppendStep(a) /\ UNCHANGED cvars)
    /\ WF_all(FlusherReceive /\ UNCHANGED cvars)
    /\ WF_all(FlushSignals \/ (FlushFail /\ UNCHANGED cvars))
    /\ WF_all(MergeStep \/ CompactorFails)
    /\ SF_all(SweepCompaction)
    /\ SF_all(SweepRetention)
    /\ SF_all(CompactorExit)
    /\ WF_all((WorkerExit("flusher") \/ CloseWaited \/ CloseEnd) /\ UNCHANGED cvars)
    /\ WF_all((\E w \in Windows : CloseVisit(w)) /\ UNCHANGED cvars)

CFairSpec == CSpec /\ CFairness

\* A window with more than MaxFilesPerPartition files is eventually merged, also when the
\* signal to compactCh was dropped and when a merge failed, unless the engine stops or a
\* write to the manifest has failed: no edit is accepted from then on.
MergedEventually ==
    \A w \in Windows :
        (phase = "running" /\ Cardinality(FilesOf(w)) > MaxFilesPerPartition[sessions])
            ~> (\/ phase # "running" \/ manifestErr
                \/ Cardinality(FilesOf(w)) <= MaxFilesPerPartition[sessions])

\* A file whose records have all expired is eventually dropped, with the same exceptions.
ExpiredEventually ==
    (phase = "running" /\ \E p \in files : sst[p].recs \subseteq Expired)
        ~> (\/ phase # "running" \/ manifestErr
            \/ ~ \E p \in files : sst[p].recs \subseteq Expired)

\* Close returns although the compactor may be in the middle of a sweep.
CompactorLetsCloseReturn == phase = "closing" ~> phase \in {"closed", "down"}

=============================================================================
