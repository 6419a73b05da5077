-------------------------- MODULE CompactionProofs --------------------------
(***************************************************************************)
(* Theorems about module Compaction, for any number of sessions, windows,  *)
(* files, appenders and scanners, whatever the compactor, the flusher and  *)
(* crashes do: the readers under the iterators of scans, what the files    *)
(* hold (CompactionInv), and what recovery finds (CompactionOpenInv).      *)
(***************************************************************************)
EXTENDS CompactionStepProofs, CompactionOpenInv

\* The tuples of variables are abbreviations, expanded everywhere.
USE DEF env, disk, openVars, router, readers, walVars, tasks, flushVars, locals, callers,
        compactor, sweeps, unmapped, scans, cvars

-----------------------------------------------------------------------------
(* The readers under the iterators of scans *)

\* No step of the engine itself closes a reader while scans can be in progress:
\* only recovery drops readers, and no scan has started then.
LEMMA EngineKeepsReaders ==
  ASSUME EngineStep
  PROVE  \/ phase \notin Live \cup {"closed"}
         \/ files \subseteq files' /\ phase' = phase
         \/ files' = files /\ phase \in {"closing", "draining"} /\ phase' \in {"draining", "closed"}
<1>1. CASE OpenBegin
  BY Zenon, <1>1 DEF OpenBegin, Live
<1>2. CASE OpenStep
  BY Zenon, <1>2 DEF OpenStep, ReplayEdit, RemoveOrphans, ReplaySegment, OpenActiveWAL, Live
<1>3. CASE \E a \in Appenders, r \in Records : AppendWAL(a, r)
  BY Zenon, <1>3 DEF AppendWAL, readers
<1>4. CASE \E a \in Appenders : AppendStep(a)
  BY Zenon, <1>4 DEF AppendStep, AppendRoute, AppendInsert, AppendSignal, readers
<1>5. CASE FlusherReceive
  BY Zenon, <1>5 DEF FlusherReceive, FlushFrame, readers
<1>6. CASE FlushFail \/ FlushCommitUnsynced
  BY Zenon, <1>6 DEF FlushFail, FlushCommitUnsynced, FlushFrame, readers
<1>7. CASE WorkerExit("flusher")
  BY Zenon, <1>7 DEF WorkerExit, readers
<1>8. CASE CloseWaited
  BY Zenon, <1>8 DEF CloseWaited, readers
<1>9. CASE CloseEnd
  BY Zenon, <1>9 DEF CloseEnd, readers
<1>10. CASE \E w \in Windows : CloseVisit(w)
  BY Zenon, <1>10 DEF CloseVisit, readers
<1>11. CASE Tick
  BY Zenon, <1>11 DEF Tick, readers
<1>12. QED
  BY <1>1, <1>2, <1>3, <1>4, <1>5, <1>6, <1>7, <1>8, <1>9, <1>10, <1>11 DEF EngineStep

\* A flush only adds a reader.
LEMMA FlushKeepsReaders ==
  ASSUME FlushSignals
  PROVE  files \subseteq files' /\ UNCHANGED <<phase, closedReaders, held>>
<1>1. UNCHANGED <<closedReaders, held>>
  BY Zenon DEF FlushSignals, unmapped, scans
<1>2. phase' = phase
  BY Zenon DEF FlushSignals, FlushStep, FlushBump, FlushRotate, FlushCreate, FlushSwap,
               FlushFinish, FlushCommit, FlushUnlink, FlushRegister, FlushFrame
<1>3. files' = files \/ files' = files \cup {FlushPath}
  BY Zenon DEF FlushSignals, FlushStep, FlushBump, FlushRotate, FlushCreate, FlushSwap,
               FlushFinish, FlushCommit, FlushUnlink, FlushRegister, readers
<1>4. QED
  BY <1>1, <1>2, <1>3

\* A merge or a retirement moves readers from files to closedReaders and closes
\* none.
LEMMA CompactorKeepsReaders ==
  ASSUME \/ CompactReceive \/ SweepCompaction \/ SweepRetention \/ MergeStep
         \/ CompactorFails \/ CompactorCommitUnsynced \/ CompactorRemoveFails
  PROVE  /\ files \cup closedReaders \subseteq files' \cup closedReaders'
         /\ UNCHANGED <<phase, held>>
<1>1. CASE \/ CompactReceive \/ SweepCompaction \/ SweepRetention
           \/ CompactorFails \/ CompactorCommitUnsynced \/ CompactorRemoveFails
  <2>1. UNCHANGED <<files, closedReaders, phase, held>>
    BY Zenon, <1>1 DEF CompactReceive, SweepCompaction, SweepRetention, CompactorFails,
       CompactorCommitUnsynced, CompactorRemoveFails, CompactFrame, readers, unmapped, scans
  <2>2. QED
    BY <2>1
<1>2. CASE MergeCreate \/ MergeFinish \/ CompactorCommit \/ CompactorRemove
  <2>1. UNCHANGED <<files, closedReaders, phase, held>>
    BY Zenon, <1>2 DEF MergeCreate, MergeFinish, CompactorCommit, CompactorRemove,
       CompactFrame, readers, unmapped, scans
  <2>2. QED
    BY <2>1
<1>3. CASE \E w \in Windows : SweepVisit(w) \/ RetireWindow(w)
  <2>1. UNCHANGED <<files, closedReaders, phase, held>>
    BY Zenon, <1>3 DEF SweepVisit, RetireWindow, CompactFrame, readers, unmapped, scans
  <2>2. QED
    BY <2>1
<1>4. CASE MergeInstall
  <2>1. UNCHANGED <<phase, held>>
    BY Zenon, <1>4 DEF MergeInstall, CompactFrame, scans
  <2>2. \/ UNCHANGED <<files, closedReaders>>
        \/ files' = (files \ cin) \cup {Output} /\ closedReaders' = closedReaders \cup cin
    BY Zenon, <1>4 DEF MergeInstall, ReplaceReaders
  <2>3. QED
    BY <2>1, <2>2
<1>5. CASE RetireForget
  <2>1. UNCHANGED <<phase, held>>
    BY Zenon, <1>5 DEF RetireForget, CompactFrame, scans
  <2>2. files' = files \ cin /\ closedReaders' = closedReaders \cup cin
    BY Zenon, <1>5 DEF RetireForget
  <2>3. QED
    BY <2>1, <2>2
<1>6. QED
  BY <1>1, <1>2, <1>3, <1>4, <1>5 DEF MergeStep

\* Every step keeps the scans' readers open.
LEMMA HeldStep ==
  ASSUME HeldInv, [CNext]_all
  PROVE  HeldInv'
<1>1. CASE EngineStep /\ UNCHANGED cvars
  <2>1. UNCHANGED <<closedReaders, held>>
    BY Zenon, <1>1 DEF cvars, unmapped, scans
  <2>2. QED
    BY <1>1, <2>1, EngineKeepsReaders DEF HeldInv, HeldReadersOpen, Live
<1>2. CASE FlushSignals
  BY <1>2, FlushKeepsReaders DEF HeldInv, HeldReadersOpen
<1>3. CASE \/ CompactReceive \/ SweepCompaction \/ SweepRetention \/ MergeStep
           \/ CompactorFails \/ CompactorCommitUnsynced \/ CompactorRemoveFails
  BY <1>3, CompactorKeepsReaders DEF HeldInv, HeldReadersOpen
<1>4. CASE \E s \in Scanners : ScanOpen(s)
  <2>1. PICK s \in Scanners : ScanOpen(s)
    BY <1>4
  <2>2. UNCHANGED <<files, phase, closedReaders>>
    BY Zenon, <2>1 DEF ScanOpen, vars, readers, unmapped
  <2>3. phase = "running" /\ held' = [held EXCEPT ![s] = files]
    BY <2>1 DEF ScanOpen
  <2>4. QED
    BY <2>2, <2>3 DEF HeldInv, HeldReadersOpen, Live
<1>5. CASE \E s \in Scanners : ScanEnd(s)
  <2>1. PICK s \in Scanners : ScanEnd(s)
    BY <1>5
  <2>2. UNCHANGED <<files, phase, closedReaders>>
    BY Zenon, <2>1 DEF ScanEnd, vars, readers, unmapped
  <2>3. held' = [held EXCEPT ![s] = {}]
    BY <2>1 DEF ScanEnd
  <2>4. QED
    BY <2>2, <2>3 DEF HeldInv, HeldReadersOpen
<1>6. CASE CloseCalled
  <2>1. UNCHANGED <<files, closedReaders, held>> /\ phase' = "closing"
    BY Zenon, <1>6 DEF CloseCalled, CloseBegin, cvars, readers, unmapped, scans
  <2>2. ScansEndFirst => \A s \in Scanners : held[s] = {}
    BY <1>6 DEF CloseCalled
  <2>3. QED
    BY <2>1, <2>2 DEF HeldInv, HeldReadersOpen, Live
<1>7. CASE CompactorExit
  <2>1. UNCHANGED <<files, closedReaders, held, phase>>
    BY Zenon, <1>7 DEF CompactorExit, WorkerExit, cvars, readers, unmapped, scans
  <2>2. QED
    BY <2>1 DEF HeldInv, HeldReadersOpen
<1>8. CASE ProcessEnds
  <2>1. held' = [s \in Scanners |-> {}]
    BY <1>8 DEF ProcessEnds
  <2>2. QED
    BY <2>1 DEF HeldInv, HeldReadersOpen
<1>9. CASE UNCHANGED all
  <2>1. UNCHANGED <<files, closedReaders, held, phase>>
    BY Zenon, <1>9 DEF all, vars, cvars, readers, unmapped, scans
  <2>2. QED
    BY <2>1 DEF HeldInv, HeldReadersOpen
<1>10. QED
  BY <1>1, <1>2, <1>3, <1>4, <1>5, <1>6, <1>7, <1>8, <1>9 DEF CNext

\* The invariant of the scans' readers is inductive.
THEOREM HeldInvariance == CSpec => []HeldInv
<1>1. Init /\ CompactorInit => HeldInv
  BY DEF CompactorInit, HeldInv, HeldReadersOpen
<1>2. HeldInv /\ [CNext]_all => HeldInv'
  BY HeldStep
<1>3. QED
  BY <1>1, <1>2, PTL DEF CSpec

\* However merges, retirements, flushes, restarts and failing calls interleave with
\* scans, no reader under an open iterator is closed before Close.
THEOREM HeldReadersOpenHolds == CSpec => []HeldReadersOpen
<1>1. HeldInv => HeldReadersOpen
  BY DEF HeldInv
<1>2. QED
  BY <1>1, HeldInvariance, PTL

-----------------------------------------------------------------------------
(* What the files hold *)

\* The invariant holds of a new store.
LEMMA CInvInit == ASSUME Init, CompactorInit PROVE CInv
<1> USE DEF Init, CompactorInit
<1>1. manifest = << >> /\ DOMAIN manifest = {} /\ DOMAIN sst = {}
  OBVIOUS
<1>2. EngineTypes
  <2>1. /\ now = 0 /\ sessions = 0 /\ editIdx = 1 /\ walSeq = 0 /\ curWAL = 0 /\ oldWAL = 0 /\ newSeq = 0
        /\ flushCh = << >>
    BY Zenon
  <2>2. now \in Nat /\ sessions \in Nat /\ editIdx \in Nat \ {0} /\ walSeq \in Nat /\ curWAL \in Nat
        /\ oldWAL \in Nat /\ newSeq \in Nat /\ flushCh \in Seq(Windows)
    BY <2>1
  <2>3. DOMAIN segs = {}
    BY Zenon
  <2> QED
    BY Zenon, <2>2, <2>3 DEF EngineTypes, Phases, OpenPhases, FlushSteps
<1>3. CompactorTypes
  <2>1. compactSeq = 0 /\ compactCh = << >> /\ cpc = "idle" /\ crecs = {} /\ sweep = {}
    BY Zenon
  <2>2. 0 \in Nat /\ << >> \in Seq(Windows) /\ Len(<< >>) <= CompactChCap
    BY CompactionAssumption
  <2> QED
    BY Zenon, <2>1, <2>2 DEF CompactorTypes, CompactSteps
<1>4. CTypeInv
  <2>1. << >> \in Seq(Range(<< >>))
    OBVIOUS
  <2> QED
    BY Zenon, <1>1, <1>2, <1>3, <2>1 DEF CTypeInv
<1>5. CPositionInv
  BY Zenon DEF CPositionInv, Live, Opened
<1>6. Entries = {} /\ Listed = {} /\ Names = {}
  BY Zenon, <1>1 DEF Entries, Listed, Names
<1>7. CSeqInv
  BY Zenon, <1>6 DEF CSeqInv, Opened, Live, Flushing
<1>8. CFilesInv
  BY Zenon DEF CFilesInv, ReadersInv, PickedInv, FlushedInv, MergedInv, OpenReaders, Flushing, Merging
<1>9. CDataInv
  BY Zenon DEF CDataInv
<1>10. CManifestInv
  BY Zenon, <1>1, <1>6 DEF CManifestInv, Removing
<1>11. HeldInv
  BY Zenon DEF HeldInv, HeldReadersOpen
<1>12. CScanInv
  BY Zenon DEF CScanInv, ScanIntact, RecordsIn
<1> QED
  BY Zenon, <1>4, <1>5, <1>7, <1>8, <1>9, <1>10, <1>11, <1>12 DEF CInv

\* Every step that does not overwrite a file keeps the invariant.
LEMMA CInvStep ==
  ASSUME NoCrashInReplay, CInv, FreshOutput, [CNext]_all
  PROVE  CInv'
<1>1. CTypeInv' /\ CPositionInv' /\ CSeqInv'
  BY Zenon, CTypesStep, CPositionStep, CSeqStep
<1>2. ReadersInv' /\ PickedInv' /\ FlushedInv' /\ MergedInv'
  BY Zenon, ReadersStep, PickedStep, FlushedStep, MergedStep
<1>3. CDataInv' /\ CManifestInv' /\ CScanInv'
  BY Zenon, CDataStep, CManifestStep, CScanStep
<1>4. HeldInv'
  BY Zenon, HeldStep DEF CInv
<1> QED
  BY Zenon, <1>1, <1>2, <1>3, <1>4 DEF CInv, CFilesInv

\* The invariant of flushes, merges, retirements, scans and recovery is inductive as long
\* as each merge gets a new name, whatever calls fail and wherever the process stops but
\* in the replay of the segments.
THEOREM CInvariance ==
  ASSUME NoCrashInReplay
  PROVE  CSpec /\ []FreshOutput => []CInv
<1>1. Init /\ CompactorInit => CInv
  BY Zenon, CInvInit
<1>2. CInv /\ FreshOutput /\ [CNext]_all => CInv'
  BY Zenon, CInvStep
<1> QED
  BY <1>1, <1>2, PTL DEF CSpec

\* The compactor's state is well formed: its inputs are current files of its window, its
\* channel stays within its capacity, unlinked files are still mapped.
THEOREM CompactorTypeOKHolds ==
  ASSUME NoCrashInReplay
  PROVE  CSpec /\ []FreshOutput => []CompactorTypeOK
<1>1. CInv => CompactorTypeOK
  BY Zenon DEF CInv, CTypeInv, CompactorTypes, CFilesInv, ReadersInv, PickedInv, CScanInv, CompactorTypeOK
<1> QED
  BY <1>1, CInvariance, PTL

\* An iterator reads what its files held when Scan returned it, whatever is merged,
\* retired, unlinked or flushed meanwhile.
THEOREM ScanIntactHolds ==
  ASSUME NoCrashInReplay
  PROVE  CSpec /\ []FreshOutput => []ScanIntact
<1>1. CInv => ScanIntact
  BY Zenon DEF CInv, CScanInv
<1> QED
  BY <1>1, CInvariance, PTL

\* What the manifest refers to, as Engine says it.
LEMMA CommittedAlive ==
  /\ \A r : r \in Committed <=> \E p \in DOMAIN sst : Alive(p) /\ sst[p].done /\ r \in sst[p].recs
  /\ \A r : r \in Committed' <=> \E p \in DOMAIN sst' : Alive(p)' /\ sst'[p].done /\ r \in sst'[p].recs
<1>1. ASSUME NEW p PROVE (p \in Referenced <=> p \in DOMAIN sst /\ Alive(p))
  BY Zenon DEF Referenced, Alive, AddedForGood
<1>2. ASSUME NEW p PROVE (p \in Referenced' <=> p \in DOMAIN sst' /\ Alive(p)')
  BY Zenon DEF Referenced, Alive, AddedForGood
<1>3. ASSUME NEW r PROVE r \in Committed <=> \E p \in DOMAIN sst : Alive(p) /\ sst[p].done /\ r \in sst[p].recs
  BY Zenon, <1>1 DEF Committed
<1>4. ASSUME NEW r PROVE r \in Committed' <=> \E p \in DOMAIN sst' : Alive(p)' /\ sst'[p].done /\ r \in sst'[p].recs
  BY Zenon, <1>2 DEF Committed
<1> QED
  BY Zenon, <1>3, <1>4

\* A record leaves the committed files only when it is older than the retention horizon.
LEMMA KeptStep ==
  ASSUME CInv, FreshOutput, [CNext]_all
  PROVE  Committed \subseteq Committed' \cup Expired
<1>0. MergedInv /\ PickedInv /\ CDataInv /\ manifest \in Seq(Range(manifest))
  BY Zenon DEF CInv, CFilesInv, CTypeInv
<1> SUFFICES ASSUME NEW r \in Committed, r \notin Expired PROVE r \in Committed'
  BY Zenon
<1>1. PICK p \in DOMAIN sst : Alive(p) /\ sst[p].done /\ r \in sst[p].recs
  BY Zenon, CommittedAlive
<1>2. p \in DOMAIN sst' /\ sst'[p] = sst[p]
  BY Zenon, <1>1, AliveFileKept
<1>3. CASE Alive(p)'
  BY Zenon, <1>1, <1>2, <1>3, CommittedAlive
<1>4. CASE ~Alive(p)'
  <2>1. manifest' # manifest
    BY Zenon, <1>1, <1>4 DEF Alive, AddedForGood
  <2>2. CASE FlushCommit \/ FlushCommitUnsynced
    <3>1. PICK e : manifest' = Append(manifest, e) /\ e.deleted = {}
      BY Zenon, <2>2, FlushEdit
    <3> QED
      BY Zenon, <1>0, <1>1, <1>4, <3>1, AliveAppended
  <2>3. CASE (CompactorCommit \/ CompactorCommitUnsynced) /\ sst' = sst
    <3>1. PICK e : /\ manifest' = Append(manifest, e) /\ e.deleted = cin
                   /\ \/ cpc = "commit" /\ \E fe : e.added = {fe} /\ fe.path = Output
                      \/ cpc = "retire" /\ e.added = {}
      BY Zenon, <2>3, CompactorEdit
    <3>2. p \in cin
      BY Zenon, <1>0, <1>1, <1>4, <3>1, AliveAppended
    <3>3. CASE cpc = "retire"
      BY Zenon, <1>0, <1>1, <3>2, <3>3 DEF CDataInv
    <3>4. CASE cpc = "commit"
      <4>1. r \in crecs
        BY Zenon, <1>0, <1>1, <3>2, <3>4 DEF CDataInv
      <4>2. PICK q : q = Output
        BY Zenon
      <4>3. q \in DOMAIN sst /\ q \notin OpenReaders /\ sst[q] = [done |-> TRUE, recs |-> crecs]
        BY Zenon, <1>0, <3>4, <4>2 DEF MergedInv, Merging
      <4>4. q \notin cin
        BY Zenon, <1>0, <3>4, <4>3 DEF PickedInv, FilesOf, OpenReaders
      <4>5. \E fe \in e.added : fe.path = q
        BY Zenon, <3>1, <3>4, <4>2
      <4>6. Alive(q)'
        BY Zenon, <1>0, <3>1, <4>4, <4>5, AliveAppended
      <4>7. sst[q].done /\ sst[q].recs = crecs
        BY <4>3
      <4>8. q \in DOMAIN sst' /\ sst'[q].done /\ r \in sst'[q].recs
        BY Zenon, <2>3, <4>1, <4>3, <4>7
      <4> QED
        BY Zenon, <4>6, <4>8, CommittedAlive
    <3> QED
      BY Zenon, <3>1, <3>3, <3>4
  <2> QED
    BY Zenon, <2>1, <2>2, <2>3, ManifestCases
<1> QED
  BY Zenon, <1>3, <1>4

\* "Input files remain live" until the manifest write of a merge, and after it the output
\* holds what they held: no flush, merge, retirement, restart or failing call takes a
\* record out of the committed files before the retention horizon passes it.
THEOREM KeptUnlessExpiredHolds ==
  ASSUME NoCrashInReplay
  PROVE  CSpec /\ []FreshOutput => KeptUnlessExpired
<1>1. CInv /\ FreshOutput /\ [CNext]_all => [Committed \subseteq Committed' \cup Expired]_all
  BY Zenon, KeptStep
<1> QED
  BY <1>1, CInvariance, PTL DEF CSpec, KeptUnlessExpired

-----------------------------------------------------------------------------
(* Recovery opens what the manifest refers to *)

\* A name that the manifest does not have is not on disk either.
LEMMA UnusedIsFresh == UnusedOutput => FreshOutput
  BY Zenon DEF UnusedOutput, FreshOutput, Names

\* What an edit adds is new, and what it deletes is not.
LEMMA EditIsNew ==
  ASSUME CInv, ListedInv, [CNext]_all, manifest' # manifest
  PROVE  \E e : /\ manifest' = Append(manifest, e)
                /\ e.deleted \subseteq Listed
                /\ \A fe \in e.added :
                      /\ fe.path \notin Listed
                      /\ IsFlushed(fe.path) => e.deleted = {}
<1>0. PickedInv
  BY Zenon DEF CInv, CFilesInv
<1>1. CASE FlushCommit \/ FlushCommitUnsynced
  <2>1. PICK e : manifest' = Append(manifest, e) /\ e.deleted = {} /\ \E fe : e.added = {fe} /\ fe.path = FlushPath
    BY Zenon, <1>1, FlushEdit
  <2>2. FlushPath \notin Listed
    BY Zenon, <1>1 DEF FlushCommit, FlushCommitUnsynced, ListedInv
  <2>3. \A fe \in e.added : fe.path = FlushPath
    BY Zenon, <2>1
  <2> QED
    BY Zenon, <2>1, <2>2, <2>3
<1>2. CASE CompactorCommit \/ CompactorCommitUnsynced
  <2>1. PICK e : /\ manifest' = Append(manifest, e) /\ e.deleted = cin
                 /\ \/ cpc = "commit" /\ \E fe : e.added = {fe} /\ fe.path = Output
                    \/ cpc = "retire" /\ e.added = {}
    BY Zenon, <1>2, CompactorEdit
  <2>2. cin \subseteq Listed
    BY Zenon, <1>0, <2>1 DEF PickedInv, FilesOf, ListedInv
  <2>3. \A fe \in e.added : cpc = "commit" /\ fe.path = Output
    BY Zenon, <2>1
  <2>4. ~IsFlushed(Output) /\ (cpc = "commit" => Output \notin Listed)
    BY Zenon, MergedPath DEF Output, ListedInv
  <2> QED
    BY Zenon, <2>1, <2>2, <2>3, <2>4
<1> QED
  BY Zenon, <1>1, <1>2, ManifestCases

\* The names of the manifest stay there.
LEMMA ListedStays ==
  ASSUME CInv, [CNext]_all
  PROVE  Listed \subseteq Listed'
<1>0. manifest \in Seq(Range(manifest))
  BY Zenon DEF CInv, CTypeInv
<1>1. CASE manifest' = manifest
  BY Zenon, <1>1 DEF Listed, Entries
<1>2. CASE manifest' # manifest
  BY Zenon, <1>0, <1>2, EditAdds, ListedAppended
<1> QED
  BY Zenon, <1>1, <1>2

\* Every step keeps the edits in order.
LEMMA EditsStep ==
  ASSUME CInv, StrayInv, [CNext]_all
  PROVE  EditsInv'
<1>0. EditsInv /\ ListedInv /\ manifest \in Seq(Range(manifest))
  BY Zenon DEF CInv, CTypeInv, StrayInv
<1>1. CASE manifest' = manifest
  <2>1. Listed' = Listed
    BY Zenon, <1>1 DEF Listed, Entries
  <2> QED
    BY Zenon, <1>0, <1>1, <2>1 DEF EditsInv
<1>2. CASE manifest' # manifest
  <2>1. PICK e : /\ manifest' = Append(manifest, e)
                 /\ e.deleted \subseteq Listed
                 /\ \A fe \in e.added : fe.path \notin Listed /\ (IsFlushed(fe.path) => e.deleted = {})
    BY Zenon, <1>0, <1>2, EditIsNew
  <2> DEFINE n == Len(manifest) + 1
  <2>2. /\ DOMAIN manifest = 1 .. Len(manifest) /\ DOMAIN manifest' = 1 .. n
        /\ Len(manifest) \in Nat
        /\ \A i \in DOMAIN manifest : manifest'[i] = manifest[i]
        /\ manifest'[n] = e
    BY Zenon, <1>0, <2>1, EditAppended
  <2>3. /\ \A i \in DOMAIN manifest' : i \in DOMAIN manifest \/ i = n
        /\ \A i \in DOMAIN manifest : ~(n <= i)
    BY <2>2
  <2> HIDE DEF n
  <2>4. Listed \subseteq Listed'
    BY Zenon, ListedStays
  <2>5. ASSUME NEW i \in DOMAIN manifest
        PROVE  /\ manifest'[i].deleted \subseteq Listed'
               /\ \A fe \in manifest'[i].added :
                     /\ IsFlushed(fe.path) => manifest'[i].deleted = {}
                     /\ \A j \in DOMAIN manifest' : j <= i => fe.path \notin manifest'[j].deleted
    <3>1. \A j \in DOMAIN manifest' : j <= i => j \in DOMAIN manifest
      BY Zenon, <2>3
    <3> QED
      BY Zenon, <1>0, <2>2, <2>4, <3>1 DEF EditsInv
  <2>6. /\ manifest'[n].deleted \subseteq Listed'
        /\ \A fe \in manifest'[n].added :
              /\ IsFlushed(fe.path) => manifest'[n].deleted = {}
              /\ \A j \in DOMAIN manifest' : fe.path \notin manifest'[j].deleted
    <3>1. \A j \in DOMAIN manifest' : manifest'[j].deleted \subseteq Listed
      BY Zenon, <1>0, <2>1, <2>2, <2>3 DEF EditsInv
    <3> QED
      BY Zenon, <2>1, <2>2, <2>4, <3>1
  <2> QED
    BY Zenon, <2>3, <2>5, <2>6 DEF EditsInv
<1> QED
  BY Zenon, <1>1, <1>2

\* Where a flush is between the creation of its file and the registration.
LEMMA FlushMoves ==
  ASSUME CInv, [CNext]_all, fpc' \in {"swap", "finish", "commit", "unlink", "register"}
  PROVE  /\ FlushPath' = FlushPath
         /\ \/ FlushCreate /\ manifest' = manifest
            \/ fpc' = fpc /\ ~FlushCommit /\ ~FlushCommitUnsynced
            \/ fpc \in {"swap", "finish"} /\ fpc' \in {"finish", "commit"} /\ manifest' = manifest
            \/ FlushCommit /\ fpc' = "unlink"
            \/ fpc = "unlink" /\ fpc' = "register" /\ manifest' = manifest
<1>1. CASE UNCHANGED <<fpc, fwin, newSeq>>
  <2>1. ~FlushCommit /\ ~FlushCommitUnsynced
    BY Zenon, <1>1 DEF FlushCommit, FlushCommitUnsynced, FlushReturns
  <2> QED
    BY Zenon, <1>1, <2>1 DEF FlushPath
<1>2. CASE CQuiet
  BY Zenon, <1>1, <1>2 DEF CQuiet
<1>3. CASE OpenBegin \/ ReplayEdit \/ RemoveOrphans \/ ReplaySegment \/ OpenActiveWAL
  BY Zenon, <1>1, <1>3 DEF OpenBegin, ReplayEdit, RemoveOrphans, ReplaySegment, OpenActiveWAL
<1>4. CASE FlushBump \/ FlushRotate \/ FlushRegister \/ FlushCommitUnsynced
  BY Zenon, <1>4 DEF FlushBump, FlushRotate, FlushRegister, FlushCommitUnsynced, FlushReturns
<1>5. CASE FlushCreate \/ FlushSwap \/ FlushCommit \/ FlushUnlink
  BY Zenon, <1>5 DEF FlushCreate, FlushSwap, FlushCommit, FlushUnlink, FlushPath
<1>6. CASE FlushFinish
  BY Zenon, <1>6 DEF FlushFinish, FlushPath
<1>7. CASE FlushFail
  BY Zenon, <1>7 DEF FlushFail, FlushReturns, FlushPath
<1>8. CASE CompactorSteps
  BY Zenon, <1>1, <1>8, CompactorFrames DEF CompactFrame
<1>9. CASE ProcessEnds
  BY Zenon, <1>9 DEF ProcessEnds, LoseProcess
<1> QED
  BY Zenon, <1>2, <1>3, <1>4, <1>5, <1>6, <1>7, <1>8, <1>9, CStepCases DEF FlushSignals, FlushStep

\* Where a merge is between the creation of its output and the installation.
LEMMA MergeMoves ==
  ASSUME CInv, [CNext]_all, cpc' \in {"finish", "commit", "remove", "install"}
  PROVE  \/ MergeCreate /\ cpc' = "finish"
         \/ /\ UNCHANGED <<cwin, compactSeq, cin>> /\ ~ProcessEnds
            /\ \/ cpc' = cpc /\ ~CompactorCommit /\ ~CompactorCommitUnsynced
               \/ cpc = "finish" /\ cpc' = "commit" /\ manifest' = manifest
               \/ CompactorCommit /\ cpc = "commit" /\ cpc' = "remove"
               \/ (CompactorRemove \/ CompactorRemoveFails) /\ cpc = "remove" /\ cpc' = "install"
<1>0. ~ProcessEnds
  BY Zenon DEF ProcessEnds, CompactReturns
<1>1. CASE UNCHANGED <<cpc, cwin, compactSeq, cin>>
  <2>1. ~CompactorCommit /\ ~CompactorCommitUnsynced
    BY Zenon, <1>1 DEF CompactorCommit, CompactorCommitUnsynced, CompactReturns
  <2> QED
    BY Zenon, <1>0, <1>1, <2>1
<1>2. CASE CQuiet \/ FlushSignals
  BY Zenon, <1>1, <1>2 DEF CQuiet, FlushSignals
<1>3. CASE CompactReceive \/ SweepCompaction \/ SweepRetention \/ \E w \in Windows : SweepVisit(w) \/ RetireWindow(w)
  <2>1. cpc' \in {"create", "retire"} \/ UNCHANGED <<compactor, compactSeq>>
    BY Zenon, <1>3 DEF CompactReceive, SweepCompaction, SweepRetention, SweepVisit, RetireWindow, MaybeCompact
  <2> QED
    BY Zenon, <1>1, <2>1
<1>4. CASE MergeCreate \/ MergeFinish
  BY Zenon, <1>0, <1>4 DEF MergeCreate, MergeFinish
<1>5. CASE CompactorCommit
  BY Zenon, <1>0, <1>5 DEF CompactorCommit
<1>6. CASE CompactorRemove \/ CompactorRemoveFails
  <2>1. UNCHANGED <<cwin, compactSeq, cin>> /\ cpc' = IF cpc = "remove" THEN "install" ELSE "forget"
    BY Zenon, <1>6 DEF CompactorRemove, CompactorRemoveFails
  <2> QED
    BY Zenon, <1>0, <1>6, <2>1
<1>7. CASE MergeInstall \/ RetireForget \/ CompactorFails \/ CompactorCommitUnsynced
  BY Zenon, <1>7 DEF MergeInstall, RetireForget, CompactorFails, CompactorCommitUnsynced, CompactReturns
<1> QED
  BY Zenon, <1>0, <1>1, <1>2, <1>3, <1>4, <1>5, <1>6, <1>7, CStepCases DEF CompactorSteps

\* The manifest gets the names of the files that are being committed and no others.
LEMMA NewListed ==
  ASSUME CInv, [CNext]_all, NEW p \in Listed', p \notin Listed
  PROVE  \/ (FlushCommit \/ FlushCommitUnsynced) /\ p = FlushPath
         \/ (CompactorCommit \/ CompactorCommitUnsynced) /\ p = Output
<1>0. manifest \in Seq(Range(manifest))
  BY Zenon DEF CInv, CTypeInv
<1>1. manifest' # manifest
  BY Zenon DEF Listed, Entries
<1>2. CASE FlushCommit \/ FlushCommitUnsynced
  <2>1. PICK e : manifest' = Append(manifest, e) /\ \E fe : e.added = {fe} /\ fe.path = FlushPath
    BY Zenon, <1>2, FlushEdit
  <2>2. p \in {fe.path : fe \in e.added}
    BY Zenon, <1>0, <2>1, ListedAppended
  <2> QED
    BY Zenon, <1>2, <2>1, <2>2
<1>3. CASE CompactorCommit \/ CompactorCommitUnsynced
  <2>1. PICK e : /\ manifest' = Append(manifest, e)
                 /\ (\E fe : e.added = {fe} /\ fe.path = Output) \/ e.added = {}
    BY Zenon, <1>3, CompactorEdit
  <2>2. p \in {fe.path : fe \in e.added}
    BY Zenon, <1>0, <2>1, ListedAppended
  <2> QED
    BY Zenon, <1>3, <2>1, <2>2
<1> QED
  BY Zenon, <1>1, <1>2, <1>3, ManifestCases

\* The readers that recovery, flushes and merges open are on listed files.
LEMMA FilesListed ==
  ASSUME CInv, ListedInv, [CNext]_all
  PROVE  files' \subseteq Listed'
<1>1. ASSUME NEW p \in files', p \notin files PROVE p \in Listed
  <2>1. CASE ReplayEdit
    BY SMTT(30), <1>1, <2>1, ReplayOpens DEF Listed, Entries
  <2>2. CASE FlushRegister
    BY Zenon, <1>1, <2>2 DEF FlushRegister, ListedInv
  <2>3. CASE MergeInstall
    BY Zenon, <1>1, <2>3 DEF MergeInstall, ReplaceReaders, ListedInv
  <2>4. CASE RetireForget \/ ProcessEnds
    BY Zenon, <1>1, <2>4 DEF RetireForget, ProcessEnds, LoseProcess
  <2> QED
    BY Zenon, <1>1, <2>1, <2>2, <2>3, <2>4, ReaderCases
<1> QED
  BY Zenon, <1>1, ListedStays DEF ListedInv

\* Every step keeps a file out of the manifest until its commit and in it from then on.
LEMMA ListedStep ==
  ASSUME CInv, ListedInv, UnusedOutput, [CNext]_all
  PROVE  ListedInv'
<1>0. ListedInv /\ MergedInv /\ manifest \in Seq(Range(manifest))
  BY Zenon DEF CInv, CFilesInv, CTypeInv
<1>1. PICK f, o : f = FlushPath /\ o = Output
  BY Zenon
<1>2. f # o
  BY Zenon, <1>1, DifferentNames DEF FlushPath, Output
<1>3. fpc' \in {"swap", "finish", "commit"} => FlushPath' \notin Listed'
  <2> SUFFICES ASSUME fpc' \in {"swap", "finish", "commit"} PROVE FlushPath' \notin Listed'
    BY Zenon
  <2>1. FlushPath' = f
    BY Zenon, <1>1, FlushMoves
  <2>2. f \notin Listed
    BY Zenon, <1>0, <1>1, FlushMoves, FlushFresh DEF ListedInv, FlushCreate, Names
  <2>3. ~FlushCommit /\ ~FlushCommitUnsynced
    BY Zenon DEF FlushCommit, FlushCommitUnsynced, FlushReturns
  <2> QED
    BY Zenon, <1>1, <1>2, <2>1, <2>2, <2>3, NewListed
<1>4. fpc' \in {"unlink", "register"} => FlushPath' \in Listed'
  <2> SUFFICES ASSUME fpc' \in {"unlink", "register"} PROVE FlushPath' \in Listed'
    BY Zenon
  <2>1. FlushPath' = f
    BY Zenon, <1>1, FlushMoves
  <2>2. CASE FlushCommit
    <3>1. PICK e : manifest' = Append(manifest, e) /\ \E fe : e.added = {fe} /\ fe.path = FlushPath
      BY Zenon, <2>2, FlushEdit
    <3>2. f \in {fe.path : fe \in e.added}
      BY Zenon, <1>1, <3>1
    <3> QED
      BY Zenon, <1>0, <2>1, <3>1, <3>2, ListedAppended
  <2>3. CASE ~FlushCommit
    <3>1. fpc \in {"unlink", "register"}
      BY Zenon, <2>3, FlushMoves DEF FlushCreate
    <3> QED
      BY Zenon, <1>0, <1>1, <2>1, <3>1, ListedStays DEF ListedInv
  <2> QED
    BY Zenon, <2>2, <2>3
<1>5. cpc' \in {"finish", "commit"} => Output' \notin Listed'
  <2> SUFFICES ASSUME cpc' \in {"finish", "commit"} PROVE Output' \notin Listed'
    BY Zenon
  <2>1. CASE MergeCreate
    <3>1. PICK q : q = [win |-> cwin, compact |-> NextCompactSeq]
      BY Zenon
    <3>2. Output' = q /\ manifest' = manifest /\ q \notin Listed
      BY Zenon, <2>1, <3>1 DEF MergeCreate, Output, UnusedOutput, Names
    <3>3. Listed' = Listed
      BY Zenon, <3>2 DEF Listed, Entries
    <3> QED
      BY Zenon, <3>2, <3>3
  <2>2. CASE ~MergeCreate
    <3>1. Output' = o /\ cpc \in {"finish", "commit"} /\ ~CompactorCommit /\ ~CompactorCommitUnsynced
      <4>1. UNCHANGED <<cwin, compactSeq>> /\ cpc \in {"finish", "commit"}
        BY Zenon, <2>2, MergeMoves
      <4>2. ~CompactorCommit /\ ~CompactorCommitUnsynced
        BY Zenon DEF CompactorCommit, CompactorCommitUnsynced, CompactReturns
      <4> QED
        BY Zenon, <1>1, <4>1, <4>2 DEF Output
    <3>2. o \notin Listed
      BY Zenon, <1>0, <1>1, <3>1 DEF ListedInv
    <3> QED
      BY Zenon, <1>1, <1>2, <3>1, <3>2, NewListed
  <2> QED
    BY Zenon, <2>1, <2>2
<1>6. ASSUME cpc' \in {"remove", "install"}
      PROVE  /\ Output' \in Listed'
             /\ \A i \in DOMAIN manifest' : \A fe \in manifest'[i].added :
                   fe.path = Output' => manifest'[i].deleted = cin'
  <2>1. UNCHANGED <<cwin, compactSeq, cin>> /\ ((CompactorCommit /\ cpc = "commit") \/ cpc \in {"remove", "install"})
    BY Zenon, <1>6, MergeMoves
  <2>2. Output' = o
    BY Zenon, <1>1, <2>1 DEF Output
  <2>3. CASE CompactorCommit /\ cpc = "commit"
    <3>1. PICK e : /\ manifest' = Append(manifest, e) /\ e.deleted = cin
                   /\ \E fe : e.added = {fe} /\ fe.path = Output
      BY Zenon, <2>3, CompactorEdit
    <3>2. o \in {fe.path : fe \in e.added} /\ o \notin Listed
      BY Zenon, <1>0, <1>1, <2>3, <3>1 DEF ListedInv
    <3>3. /\ DOMAIN manifest = 1 .. Len(manifest) /\ DOMAIN manifest' = 1 .. (Len(manifest) + 1)
          /\ Len(manifest) \in Nat
          /\ \A i \in DOMAIN manifest : manifest'[i] = manifest[i]
          /\ manifest'[Len(manifest) + 1] = e
      BY Zenon, <1>0, <3>1, EditAppended
    <3>4. \A i \in DOMAIN manifest' : i \in DOMAIN manifest \/ i = Len(manifest) + 1
      BY <3>3
    <3>5. \A i \in DOMAIN manifest : \A fe \in manifest[i].added : fe.path # o
      BY Zenon, <3>2 DEF Listed, Entries
    <3>6. \A i \in DOMAIN manifest' : \A fe \in manifest'[i].added :
              fe.path = o => manifest'[i].deleted = cin
      BY Zenon, <3>1, <3>3, <3>4, <3>5
    <3>7. o \in Listed'
      BY Zenon, <1>0, <3>1, <3>2, ListedAppended
    <3> QED
      BY Zenon, <2>1, <2>2, <3>6, <3>7
  <2>4. CASE cpc \in {"remove", "install"}
    <3>1. o \in Listed /\ \A i \in DOMAIN manifest : \A fe \in manifest[i].added :
                                 fe.path = o => manifest[i].deleted = cin
      BY Zenon, <1>0, <1>1, <2>4 DEF ListedInv
    <3>2. CASE manifest' = manifest
      BY Zenon, <2>1, <2>2, <3>1, <3>2, ListedStays
    <3>3. CASE manifest' # manifest
      <4>1. PICK e : manifest' = Append(manifest, e) /\ \A fe \in e.added : fe.path \notin Listed
        BY Zenon, <3>3, EditIsNew
      <4>2. /\ DOMAIN manifest = 1 .. Len(manifest) /\ DOMAIN manifest' = 1 .. (Len(manifest) + 1)
            /\ Len(manifest) \in Nat
            /\ \A i \in DOMAIN manifest : manifest'[i] = manifest[i]
            /\ manifest'[Len(manifest) + 1] = e
        BY Zenon, <1>0, <4>1, EditAppended
      <4>3. \A i \in DOMAIN manifest' : i \in DOMAIN manifest \/ i = Len(manifest) + 1
        BY <4>2
      <4>4. \A fe \in e.added : fe.path # o
        BY Zenon, <3>1, <4>1
      <4>5. \A i \in DOMAIN manifest' : \A fe \in manifest'[i].added :
                fe.path = o => manifest'[i].deleted = cin
        BY Zenon, <3>1, <4>2, <4>3, <4>4
      <4> QED
        BY Zenon, <2>1, <2>2, <3>1, <4>5, ListedStays
    <3> QED
      BY Zenon, <3>2, <3>3
  <2> QED
    BY Zenon, <2>1, <2>3, <2>4
<1> QED
  BY Zenon, <1>3, <1>4, <1>5, <1>6, FilesListed DEF ListedInv

\* Where os.Remove does not fail, a merge goes on when its inputs are unlinked.
LEMMA UnlinkedStep ==
  ASSUME CInv, UnlinkedInv, RemovesSucceed, [CNext]_all
  PROVE  UnlinkedInv'
<1> SUFFICES ASSUME cpc' = "install" PROVE cin' \subseteq gone'
  BY Zenon DEF UnlinkedInv
<1>1. cin' = cin /\ ~ProcessEnds /\ ((cpc = "install" /\ cpc' = cpc) \/ CompactorRemove \/ CompactorRemoveFails)
  BY Zenon, MergeMoves
<1>2. CASE CompactorRemove
  BY Zenon, <1>1, <1>2 DEF CompactorRemove
<1>3. ~CompactorRemoveFails
  BY Zenon DEF CompactorRemoveFails, CompactorFault, RemovesSucceed
<1>4. CASE cpc = "install" /\ cpc' = cpc
  <2>1. gone' = gone
    BY Zenon, <1>1, <1>4, GoneStep DEF Removing
  <2> QED
    BY Zenon, <1>1, <1>4, <2>1 DEF UnlinkedInv
<1> QED
  BY Zenon, <1>1, <1>2, <1>3, <1>4

\* While segments are replayed, files and edits stay as the removal of orphans left them.
LEMMA SegmentsStep ==
  ASSUME CInv, [CNext]_all, phase' = "segments"
  PROVE  \/ RemoveOrphans
         \/ phase = "segments" /\ UNCHANGED <<sst, manifest, files>>
<1>1. CASE CQuiet
  BY Zenon, <1>1 DEF CQuiet
<1>2. CASE OpenBegin \/ ReplayEdit \/ OpenActiveWAL \/ ProcessEnds
  BY Zenon, <1>2 DEF OpenBegin, ReplayEdit, OpenActiveWAL, ProcessEnds, LoseProcess
<1>3. CASE ReplaySegment
  BY Zenon, <1>3 DEF ReplaySegment
<1>4. CASE FlushSignals \/ FlushFail \/ FlushCommitUnsynced
  <2>1. fpc # "idle"
    BY Zenon, <1>4 DEF FlushSignals, FlushStep, FlushBump, FlushRotate, FlushCreate, FlushSwap,
       FlushFinish, FlushCommit, FlushUnlink, FlushRegister, FlushFail, FlushCallFails, FlushCommitUnsynced
  <2>2. phase' = phase
    BY Zenon, <1>4 DEF FlushSignals, FlushStep, FlushBump, FlushRotate, FlushCreate, FlushSwap,
       FlushFinish, FlushCommit, FlushUnlink, FlushRegister, FlushFail, FlushCommitUnsynced, FlushFrame
  <2> QED
    BY Zenon, <2>1, <2>2, Recovering
<1>5. CASE CompactorSteps
  <2>1. phase' = phase
    BY Zenon, <1>5, CompactorFrames DEF CompactFrame
  <2>2. "compactor" \notin workers /\ cpc = "idle" /\ sweep = {} /\ expired = {}
    BY Zenon, <2>1, Recovering DEF CInv, CPositionInv
  <2>3. FALSE
    BY Zenon, <1>5, <2>2 DEF CompactorSteps, CompactReceive, SweepCompaction, SweepRetention, MergeCreate,
       MergeFinish, CompactorCommit, CompactorRemove, MergeInstall, SweepVisit, RetireWindow,
       RetireForget, CompactorFails, CompactorCallFails, CompactorCommitUnsynced, CompactorRemoveFails, AtSelect
  <2> QED
    BY Zenon, <2>3
<1> QED
  BY Zenon, <1>1, <1>2, <1>3, <1>4, <1>5, CStepCases

\* An engine is opened by the end of Open.
LEMMA OpenedStep ==
  ASSUME CInv, [CNext]_all, Opened'
  PROVE  Opened \/ phase = "segments"
<1>1. CASE CQuiet
  BY Zenon, <1>1 DEF CQuiet, Opened, Live
<1>2. CASE OpenBegin \/ ReplayEdit \/ RemoveOrphans \/ ReplaySegment \/ OpenActiveWAL \/ ProcessEnds
  BY Zenon, <1>2 DEF OpenBegin, ReplayEdit, RemoveOrphans, ReplaySegment, OpenActiveWAL, ProcessEnds,
     LoseProcess, Opened, Live
<1>3. CASE FlushSignals \/ FlushFail \/ FlushCommitUnsynced
  <2>1. phase' = phase
    BY Zenon, <1>3 DEF FlushSignals, FlushStep, FlushBump, FlushRotate, FlushCreate, FlushSwap,
       FlushFinish, FlushCommit, FlushUnlink, FlushRegister, FlushFail, FlushCommitUnsynced, FlushFrame
  <2> QED
    BY Zenon, <2>1 DEF Opened
<1>4. CASE CompactorSteps
  BY Zenon, <1>4, CompactorFrames DEF CompactFrame, Opened
<1> QED
  BY Zenon, <1>1, <1>2, <1>3, <1>4, CStepCases

\* The manifest does not bring back the name of a file that is gone.
LEMMA ListedFileFromBefore ==
  ASSUME CInv, UnusedOutput, [CNext]_all, NEW p \in Listed, p \in DOMAIN sst'
  PROVE  p \in DOMAIN sst
<1>1. CASE sst' = sst
  BY Zenon, <1>1
<1>2. CASE RemoveOrphans \/ ProcessEnds
  BY Zenon, <1>2 DEF RemoveOrphans, ProcessEnds, Restrict
<1>3. CASE FlushCreate
  <2>1. p # FlushPath
    BY Zenon, <1>3, FlushFresh DEF FlushCreate, Names
  <2> QED
    BY Zenon, <1>3, <2>1 DEF FlushCreate
<1>4. CASE MergeCreate
  <2>1. p # [win |-> cwin, compact |-> NextCompactSeq]
    BY Zenon, <1>4 DEF MergeCreate, UnusedOutput, Names
  <2> QED
    BY Zenon, <1>4, <2>1 DEF MergeCreate
<1>5. CASE FlushFinish \/ MergeFinish
  <2>1. DOMAIN sst' \subseteq DOMAIN sst
    BY Zenon, <1>5 DEF FlushFinish, MergeFinish, Remove, Restrict
  <2> QED
    BY Zenon, <2>1
<1> QED
  BY Zenon, <1>1, <1>2, <1>3, <1>4, <1>5, SstCases

\* A file that the manifest deletes and that is still there keeps the file that replaces it.
LEMMA StrayKept ==
  ASSUME CInv, StrayInv, UnusedOutput, [CNext]_all, phase' # "segments",
         NEW i \in DOMAIN manifest, NEW p \in manifest[i].deleted, p \in DOMAIN sst', p \notin gone',
         NEW fe \in manifest[i].added
  PROVE  /\ fe.path \in DOMAIN sst' /\ sst'[fe.path].done
         /\ Opened' => fe.path \notin OpenReaders'
<1>0. /\ EditsInv /\ ListedInv /\ StrayFilesInv /\ ReadersInv /\ PickedInv /\ CPositionInv
      /\ FreshOutput
  BY Zenon, UnusedIsFresh DEF StrayInv, CInv, CFilesInv
<1>1. p \in Listed /\ fe.path \in Listed
  BY Zenon, <1>0 DEF EditsInv, Listed, Entries
<1>2. p \in DOMAIN sst
  BY Zenon, <1>1, ListedFileFromBefore
<1>3. p \notin gone
  <2>1. CASE ProcessEnds
    BY Zenon, <2>1 DEF ProcessEnds, Restrict
  <2>2. CASE ~ProcessEnds
    <3>1. gone \subseteq gone'
      <4>1. CASE CompactorRemove \/ CompactorRemoveFails
        BY Zenon, <4>1 DEF CompactorRemove, CompactorRemoveFails
      <4>2. CASE CQuiet \/ FlushSignals \/ UNCHANGED cvars
        BY Zenon, <4>2 DEF CQuiet, FlushSignals
      <4>3. CASE \/ CompactReceive \/ SweepCompaction \/ SweepRetention \/ MergeCreate \/ MergeFinish
                 \/ CompactorCommit \/ MergeInstall \/ \E w \in Windows : SweepVisit(w) \/ RetireWindow(w)
        BY Zenon, <4>3 DEF CompactReceive, SweepCompaction, SweepRetention,
           MergeCreate, MergeFinish, CompactorCommit, MergeInstall, SweepVisit, RetireWindow
      <4>4. CASE RetireForget \/ CompactorFails \/ CompactorCommitUnsynced
        BY Zenon, <4>4 DEF RetireForget, CompactorFails, CompactorCommitUnsynced
      <4> QED
        BY Zenon, <2>2, <4>1, <4>2, <4>3, <4>4, CStepCases DEF CompactorSteps
    <3> QED
      BY Zenon, <3>1
  <2> QED
    BY Zenon, <2>1, <2>2
<1>4. phase # "segments"
  BY Zenon, <1>0, <1>2 DEF StrayFilesInv
<1>5. fe.path \in DOMAIN sst /\ sst[fe.path].done /\ (Opened => fe.path \notin OpenReaders)
  BY Zenon, <1>0, <1>2, <1>3, <1>4 DEF StrayFilesInv
<1>6. fe.path \in DOMAIN sst' /\ sst'[fe.path] = sst[fe.path]
  <2>1. CASE sst' = sst
    BY Zenon, <1>5, <2>1
  <2>2. CASE ProcessEnds
    <3>1. PICK unlinked \in SUBSET (IF cpc \in {"remove", "unlink"} THEN cin ELSE {}) :
             sst' = Restrict(sst, DOMAIN sst \ (gone \cup unlinked))
      BY Zenon, <2>2 DEF ProcessEnds
    <3>2. gone \subseteq OpenReaders /\ (cpc # "idle" => cin \subseteq OpenReaders)
      BY Zenon, <1>0 DEF ReadersInv, PickedInv, FilesOf, OpenReaders
    <3>3. unlinked \subseteq OpenReaders
      BY Zenon, <3>2
    <3>4. Opened \/ (gone = {} /\ cpc = "idle")
      BY Zenon, <1>0 DEF CPositionInv, Opened, Live
    <3>5. fe.path \notin gone \cup unlinked
      BY Zenon, <1>5, <3>2, <3>3, <3>4
    <3> QED
      BY Zenon, <1>5, <3>1, <3>5 DEF Restrict
  <2>3. CASE ~ProcessEnds /\ (FlushCreate \/ FlushFinish \/ MergeCreate \/ MergeFinish)
    <3>1. fpc # "idle" \/ cpc # "idle"
      BY Zenon, <2>3 DEF FlushCreate, FlushFinish, MergeCreate, MergeFinish
    <3>2. phase # "manifest"
      BY Zenon, <3>1, Recovering
    <3>3. FlushFinish => fe.path # FlushPath
      BY Zenon, <1>0, <1>1 DEF FlushFinish, ListedInv
    <3>4. MergeFinish => fe.path # Output
      BY Zenon, <1>0, <1>1 DEF MergeFinish, ListedInv
    <3> QED
      BY Zenon, <1>0, <1>5, <2>3, <3>2, <3>3, <3>4, FinishedFileKept
  <2>4. ~RemoveOrphans
    BY Zenon DEF RemoveOrphans
  <2> QED
    BY Zenon, <2>1, <2>2, <2>3, <2>4, SstCases
<1>7. ASSUME Opened' PROVE fe.path \notin OpenReaders'
  <2>1. Opened /\ fe.path \notin OpenReaders /\ ~ProcessEnds
    BY Zenon, <1>4, <1>5, <1>7, OpenedStep DEF ProcessEnds, LoseProcess, Opened, Live
  <2>2. ~ReplayEdit
    BY Zenon, <2>1 DEF ReplayEdit, Opened, Live
  <2>3. CASE FlushRegister /\ OpenReaders' = OpenReaders \cup {FlushPath}
    <3>1. IsFlushed(FlushPath) /\ ~IsFlushed(fe.path)
      BY Zenon, <1>0, FlushedPath DEF FlushPath, EditsInv
    <3> QED
      BY Zenon, <2>1, <2>3, <3>1
  <2>4. CASE MergeInstall /\ OpenReaders' = OpenReaders \cup {Output}
    <3>1. cpc = "install"
      BY Zenon, <2>4 DEF MergeInstall
    <3>2. fe.path # Output
      BY Zenon, <1>0, <1>3, <3>1 DEF ListedInv, StrayInv, UnlinkedInv
    <3> QED
      BY Zenon, <2>1, <2>4, <3>2
  <2> QED
    BY Zenon, <2>1, <2>2, <2>3, <2>4, NewReader
<1>8. sst'[fe.path].done
  BY Zenon, <1>5, <1>6
<1> QED
  BY Zenon, <1>6, <1>7, <1>8

\* At the end of the replay each open file has its edit, which no edit undoes.
LEMMA AllReplayed ==
  ASSUME CInv, StrayInv, RemoveOrphans, NEW p \in files
  PROVE  /\ \E i \in DOMAIN manifest :
               /\ \E fe \in manifest[i].added : fe.path = p
               /\ \A j \in DOMAIN manifest : j >= i => p \notin manifest[j].deleted
         /\ \A j \in DOMAIN manifest : p \notin manifest[j].deleted
<1>1. /\ editIdx \in Nat /\ editIdx > Len(manifest) /\ manifest \in Seq(Range(manifest))
      /\ phase = "manifest" /\ ReplayedInv /\ EditsInv
  BY Zenon DEF CInv, CTypeInv, EngineTypes, StrayInv, RemoveOrphans
<1>2. PICK i \in DOMAIN manifest :
         /\ i < editIdx /\ \E fe \in manifest[i].added : fe.path = p
         /\ \A j \in DOMAIN manifest : i <= j /\ j < editIdx => p \notin manifest[j].deleted
  BY Zenon, <1>1 DEF ReplayedInv
<1>3. DOMAIN manifest = 1 .. Len(manifest) /\ Len(manifest) \in Nat
  BY <1>1
<1>4. \A j \in DOMAIN manifest : j < editIdx /\ (j >= i <=> i <= j) /\ (j <= i \/ i <= j)
  BY <1>1, <1>3
<1>5. \A j \in DOMAIN manifest : j <= i => p \notin manifest[j].deleted
  BY Zenon, <1>1, <1>2 DEF EditsInv
<1> QED
  BY Zenon, <1>2, <1>4, <1>5

\* Files that the manifest deletes keep their replacements until they are gone.
LEMMA StrayFilesStep ==
  ASSUME CInv, StrayInv, UnusedOutput, [CNext]_all
  PROVE  StrayFilesInv'
<1>0. StrayFilesInv /\ manifest \in Seq(Range(manifest))
  BY Zenon DEF StrayInv, CInv, CTypeInv
<1>1. ASSUME phase' = "segments", NEW i \in DOMAIN manifest' PROVE manifest'[i].deleted \cap DOMAIN sst' = {}
  <2>1. CASE phase = "segments" /\ UNCHANGED <<sst, manifest, files>>
    <3>1. manifest' = manifest /\ sst' = sst
      BY Zenon, <2>1
    <3> QED
      BY Zenon, <1>0, <1>1, <2>1, <3>1 DEF StrayFilesInv
  <2>2. CASE RemoveOrphans
    <3>1. manifest' = manifest /\ DOMAIN sst' \subseteq files
      BY Zenon, <2>2 DEF RemoveOrphans, Restrict
    <3>2. \A p \in files : p \notin manifest[i].deleted
      BY Zenon, <1>1, <2>2, <3>1, AllReplayed
    <3> QED
      BY Zenon, <3>1, <3>2
  <2> QED
    BY Zenon, <1>1, <2>1, <2>2, SegmentsStep
<1>2. ASSUME phase' # "segments", NEW i \in DOMAIN manifest',
             NEW p \in manifest'[i].deleted \cap (DOMAIN sst' \ gone'), NEW fe \in manifest'[i].added
      PROVE  /\ fe.path \in DOMAIN sst' /\ sst'[fe.path].done
             /\ Opened' => fe.path \notin OpenReaders'
  <2>1. CASE i \in DOMAIN manifest /\ manifest'[i] = manifest[i]
    BY Zenon, <1>2, <2>1, StrayKept
  <2>2. CASE ~(i \in DOMAIN manifest /\ manifest'[i] = manifest[i])
    <3>1. manifest' # manifest
      BY Zenon, <1>2, <2>2
    <3>2. PICK e : /\ manifest' = Append(manifest, e) /\ sst' = sst
                   /\ \A f \in e.added : f.path \in DOMAIN sst /\ sst[f.path].done /\ f.path \notin OpenReaders
      BY Zenon, <3>1, EditAdds
    <3>3. manifest'[i] = e
      BY <1>0, <1>2, <2>2, <3>2
    <3>4. OpenReaders' = OpenReaders
      BY Zenon, <3>1, ManifestCases DEF OpenReaders
    <3> QED
      BY Zenon, <1>2, <3>2, <3>3, <3>4
  <2> QED
    BY Zenon, <2>1, <2>2
<1> QED
  BY Zenon, <1>1, <1>2 DEF StrayFilesInv

\* Replaying an edit closes the readers of the files it deletes: its added file can be read.
LEMMA ReplayDeletes ==
  ASSUME CInv, StrayInv, ReplayEdit, NEW p \in files', p \in files
  PROVE  p \notin manifest[editIdx].deleted
<1>0. StrayFilesInv /\ EditsInv /\ ReadersInv /\ CPositionInv /\ phase = "manifest"
  BY Zenon DEF StrayInv, CInv, CFilesInv, ReplayEdit
<1>1. editIdx \in DOMAIN manifest
  <2>1. /\ editIdx \in Nat \ {0} /\ editIdx <= Len(manifest) /\ manifest \in Seq(Range(manifest))
    BY Zenon DEF CInv, CTypeInv, EngineTypes, ReplayEdit
  <2> QED
    BY <2>1
<1>2. SUFFICES ASSUME p \in manifest[editIdx].deleted PROVE FALSE
  BY Zenon
<1>3. p \in DOMAIN sst /\ p \notin gone
  <2>1. p \in DOMAIN sst
    BY Zenon, <1>0 DEF ReadersInv, OpenReaders
  <2>2. gone = {}
    BY Zenon, <1>0 DEF CPositionInv, Opened, Live
  <2> QED
    BY Zenon, <2>1, <2>2
<1>4. \A fe \in manifest[editIdx].added : Readable(fe.path)
  BY Zenon, <1>0, <1>1, <1>2, <1>3 DEF StrayFilesInv, Readable
<1>5. \A fe \in manifest[editIdx].added : fe.path # p
  <2>1. editIdx <= editIdx
    BY DEF CInv, CTypeInv, EngineTypes
  <2> QED
    BY Zenon, <1>0, <1>1, <1>2, <2>1 DEF EditsInv
<1> QED
  BY Zenon, <1>2, <1>4, <1>5 DEF ReplayEdit

\* The replay keeps to the edits it has seen.
LEMMA ReplayedStep ==
  ASSUME CInv, StrayInv, [CNext]_all
  PROVE  ReplayedInv'
<1>0. ReplayedInv /\ EditsInv /\ editIdx \in Nat /\ manifest \in Seq(Range(manifest))
  BY Zenon DEF StrayInv, CInv, CTypeInv, EngineTypes
<1>1. CASE phase' # "manifest"
  BY Zenon, <1>1 DEF ReplayedInv
<1>2. CASE UNCHANGED <<phase, manifest, files, editIdx>>
  <2>1. phase' = phase /\ manifest' = manifest /\ files' = files /\ editIdx' = editIdx
    BY Zenon, <1>2
  <2> QED
    BY Zenon, <1>0, <2>1 DEF ReplayedInv
<1>3. CASE files' = {}
  BY Zenon, <1>3 DEF ReplayedInv
<1>4. CASE ReplayEdit /\ phase = "manifest" /\ manifest' = manifest
  <2> SUFFICES ASSUME NEW p \in files'
               PROVE  \E i \in DOMAIN manifest :
                        /\ i < editIdx' /\ \E fe \in manifest[i].added : fe.path = p
                        /\ \A j \in DOMAIN manifest : i <= j /\ j < editIdx' => p \notin manifest[j].deleted
    BY Zenon, <1>4 DEF ReplayedInv
  <2>0. editIdx' = editIdx + 1
    BY Zenon, <1>4 DEF ReplayEdit
  <2>1. DOMAIN manifest \subseteq Nat
    BY <1>0
  <2>2. \A j \in DOMAIN manifest : j < editIdx' => j < editIdx \/ j = editIdx
    BY <1>0, <2>0, <2>1
  <2>3. CASE p \in files
    <3>1. PICK i \in DOMAIN manifest :
             /\ i < editIdx /\ \E fe \in manifest[i].added : fe.path = p
             /\ \A j \in DOMAIN manifest : i <= j /\ j < editIdx => p \notin manifest[j].deleted
      BY Zenon, <1>0, <1>4, <2>3 DEF ReplayedInv
    <3>2. i < editIdx'
      BY <1>0, <2>0, <2>1, <3>1
    <3>3. p \notin manifest[editIdx].deleted
      BY Zenon, <1>4, <2>3, ReplayDeletes
    <3> QED
      BY Zenon, <2>2, <3>1, <3>2, <3>3
  <2>4. CASE p \notin files
    <3>1. editIdx \in DOMAIN manifest /\ \E fe \in manifest[editIdx].added : fe.path = p
      BY Zenon, <1>4, <2>4, ReplayOpens
    <3>2. editIdx < editIdx' /\ \A j \in DOMAIN manifest : j < editIdx' => j <= editIdx
      BY <1>0, <2>0, <2>1
    <3>3. \A j \in DOMAIN manifest : j <= editIdx => p \notin manifest[j].deleted
      BY Zenon, <1>0, <3>1 DEF EditsInv
    <3> QED
      BY Zenon, <3>1, <3>2, <3>3
  <2> QED
    BY Zenon, <2>3, <2>4
<1> QED
  BY Zenon, <1>1, <1>2, <1>3, <1>4, ReplayingStep

\* Open leaves the files that the manifest leaves, no more and no fewer.
LEMMA OpenMatchesStep ==
  ASSUME CInv, StrayInv, [CNext]_all
  PROVE  OpenMatchesManifest'
<1> SUFFICES ASSUME phase' = "segments" PROVE files' = Referenced' /\ files' = DOMAIN sst'
  BY Zenon DEF OpenMatchesManifest
<1>1. CASE phase = "segments" /\ UNCHANGED <<sst, manifest, files>>
  <2>1. sst' = sst /\ manifest' = manifest /\ files' = files /\ OpenMatchesManifest
    BY Zenon, <1>1 DEF StrayInv
  <2>2. Referenced' = Referenced
    BY Zenon, <2>1 DEF Referenced
  <2> QED
    BY Zenon, <1>1, <2>1, <2>2 DEF OpenMatchesManifest
<1>2. CASE RemoveOrphans
  <2>1. manifest' = manifest /\ files' = files /\ DOMAIN sst' = DOMAIN sst \cap files
    BY Zenon, <1>2 DEF RemoveOrphans, Restrict, readers
  <2>2. files \subseteq DOMAIN sst
    BY Zenon, <1>2 DEF RemoveOrphans, CInv, CFilesInv, ReadersInv, CPositionInv, OpenReaders, Live
  <2>3. files' = DOMAIN sst'
    BY Zenon, <2>1, <2>2
  <2>4. \A p \in files : p \in Referenced'
    BY Zenon, <1>2, <2>1, <2>2, AllReplayed DEF Referenced
  <2>5. Referenced' \subseteq DOMAIN sst'
    BY Zenon DEF Referenced
  <2> QED
    BY Zenon, <2>1, <2>3, <2>4, <2>5
<1> QED
  BY Zenon, <1>1, <1>2, SegmentsStep

\* Before the first Open there is no edit and no file.
LEMMA StrayInit == Init /\ CompactorInit => StrayInv
<1> SUFFICES ASSUME Init /\ CompactorInit PROVE StrayInv
  BY Zenon
<1>1. /\ manifest = <<>> /\ files = {} /\ phase = "down"
      /\ fpc = "idle" /\ cpc = "idle"
  BY Zenon DEF CompactorInit, Init
<1>2. DOMAIN manifest = {}
  BY <1>1
<1> QED
  BY Zenon, <1>1, <1>2 DEF StrayInv, EditsInv, ListedInv, UnlinkedInv, StrayFilesInv, ReplayedInv,
     OpenMatchesManifest

\* Each conjunct is carried over by the others and CInv.
LEMMA StrayStep ==
  ASSUME CInv, StrayInv, UnusedOutput, RemovesSucceed, [CNext]_all
  PROVE  StrayInv'
  BY Zenon, EditsStep, ListedStep, UnlinkedStep, StrayFilesStep, ReplayedStep, OpenMatchesStep DEF StrayInv

\* While no output name is taken and os.Remove succeeds, every Open ends with a reader of
\* each file that the manifest leaves, and with no other file in the directory.
THEOREM OpenMatchesManifestHolds ==
  ASSUME NoCrashInReplay, RemovesSucceed
  PROVE  CSpec /\ []UnusedOutput => []OpenMatchesManifest
<1>1. Init /\ CompactorInit => CInv /\ StrayInv
  BY Zenon, CInvInit, StrayInit
<1>2. CInv /\ StrayInv /\ UnusedOutput /\ [CNext]_all => CInv' /\ StrayInv'
  BY Zenon, UnusedIsFresh, CInvStep, StrayStep
<1>3. StrayInv => OpenMatchesManifest
  BY Zenon DEF StrayInv
<1> QED
  BY <1>1, <1>2, <1>3, PTL DEF CSpec

-----------------------------------------------------------------------------
(* In the first session every merge gets a new name *)

\* compactSeq and the number of sessions only grow while the process lives.
LEMMA NumbersGrow ==
  ASSUME CInv, [CNext]_all
  PROVE  /\ sessions' = sessions \/ OpenBegin
         /\ ProcessEnds \/ compactSeq' = compactSeq \/ compactSeq' = compactSeq + 1
<1>1. CASE CQuiet
  BY Zenon, <1>1 DEF CQuiet
<1>2. CASE (OpenBegin \/ ReplayEdit \/ RemoveOrphans \/ ReplaySegment \/ OpenActiveWAL) /\ UNCHANGED cvars
  BY Zenon, <1>2 DEF ReplayEdit, RemoveOrphans, ReplaySegment, OpenActiveWAL
<1>3. CASE FlushSignals \/ (FlushFail /\ UNCHANGED cvars) \/ (FlushCommitUnsynced /\ UNCHANGED cvars)
  BY Zenon, <1>3 DEF FlushSignals, FlushStep, FlushBump, FlushRotate, FlushCreate, FlushSwap,
     FlushFinish, FlushCommit, FlushUnlink, FlushRegister, FlushFail, FlushCommitUnsynced, FlushFrame
<1>4. CASE CompactorSteps
  <2>1. sessions' = sessions
    BY Zenon, <1>4, CompactorFrames DEF CompactFrame
  <2>2. compactSeq' = compactSeq \/ compactSeq' = compactSeq + 1
    BY Zenon, <1>4 DEF CompactorSteps, CompactReceive, SweepCompaction, SweepRetention, MergeCreate,
       MergeFinish, CompactorCommit, CompactorRemove, MergeInstall, SweepVisit, RetireWindow,
       RetireForget, CompactorFails, CompactorCommitUnsynced, CompactorRemoveFails, NextCompactSeq
  <2> QED
    BY Zenon, <2>1, <2>2
<1>5. CASE ProcessEnds
  BY Zenon, <1>5 DEF ProcessEnds, LoseProcess
<1> QED
  BY Zenon, <1>1, <1>2, <1>3, <1>4, <1>5, CStepCases

\* The only new name that is not of a flush is that of the merge.
LEMMA MergedNames ==
  ASSUME [CNext]_all, ~ProcessEnds, NEW p \in DOMAIN sst', ~IsFlushed(p)
  PROVE  p \in DOMAIN sst \/ (MergeCreate /\ p = [win |-> cwin, compact |-> NextCompactSeq])
<1>1. CASE sst' = sst
  BY Zenon, <1>1
<1>2. CASE RemoveOrphans
  BY Zenon, <1>2 DEF RemoveOrphans, Restrict
<1>3. CASE FlushCreate
  <2>1. IsFlushed(FlushPath)
    BY Zenon, FlushedPath DEF FlushPath
  <2>2. p # FlushPath
    BY Zenon, <2>1
  <2> QED
    BY Zenon, <1>3, <2>2 DEF FlushCreate
<1>4. CASE FlushFinish \/ MergeFinish
  <2>1. DOMAIN sst' \subseteq DOMAIN sst
    BY Zenon, <1>4 DEF FlushFinish, MergeFinish, Remove, Restrict
  <2> QED
    BY Zenon, <2>1
<1>5. CASE MergeCreate
  BY Zenon, <1>5 DEF MergeCreate
<1> QED
  BY Zenon, <1>1, <1>2, <1>3, <1>4, <1>5, SstCases

\* What the numbers say about the next name.
LEMMA FirstUnused == ASSUME CInv, FirstInv, MergesInFirstSession PROVE UnusedOutput
<1>1. SUFFICES ASSUME cpc = "create", [win |-> cwin, compact |-> NextCompactSeq] \in Names PROVE FALSE
  BY Zenon DEF UnusedOutput
<1>2. phase # "down"
  BY Zenon, <1>1, Recovering
<1>3. sessions = 1
  <2>1. sessions \in 1 .. MaxSessions /\ sessions <= 1
    BY Zenon, <1>1, <1>2 DEF CInv, CPositionInv, MergesInFirstSession
  <2> QED
    BY <2>1, BoundsAssumption
<1>4. [win |-> cwin, compact |-> NextCompactSeq].compact \in 1 .. compactSeq
  BY Zenon, <1>1, <1>2, <1>3, MergedPath DEF FirstInv
<1>5. compactSeq \in Nat
  BY Zenon DEF CInv, CTypeInv, CompactorTypes
<1> QED
  BY <1>4, <1>5 DEF NextCompactSeq

\* Without a process only Open does anything.
LEMMA DownStep ==
  ASSUME CInv, [CNext]_all, phase = "down", ~OpenBegin
  PROVE  phase' = "down" /\ sst' = sst /\ manifest' = manifest
<1>1. fpc = "idle" /\ cpc = "idle"
  BY Zenon, Recovering
<1>2. CASE CQuiet
  BY Zenon, <1>2 DEF CQuiet
<1>3. CASE FlushSignals \/ FlushFail \/ FlushCommitUnsynced
  BY Zenon, <1>1, <1>3 DEF FlushSignals, FlushStep, FlushBump, FlushRotate, FlushCreate, FlushSwap,
     FlushFinish, FlushCommit, FlushUnlink, FlushRegister, FlushFail, FlushCallFails, FlushCommitUnsynced
<1>4. CASE CompactorSteps
  <2>1. phase' = phase
    BY Zenon, <1>4, CompactorFrames DEF CompactFrame
  <2>2. sst' = sst
    BY Zenon, <1>1, <1>4, SstCases, Recovering, CrashPhasesAssumption
       DEF RemoveOrphans, FlushCreate, FlushFinish, MergeCreate, MergeFinish, ProcessEnds
  <2>3. manifest' = manifest
    BY Zenon, <1>1, ManifestCases, Recovering
       DEF FlushCommit, FlushCommitUnsynced, CompactorCommit, CompactorCommitUnsynced
  <2> QED
    BY Zenon, <2>1, <2>2, <2>3
<1>5. ~ProcessEnds /\ ~ReplayEdit /\ ~RemoveOrphans /\ ~ReplaySegment /\ ~OpenActiveWAL
  BY Zenon, CrashPhasesAssumption
     DEF ProcessEnds, ReplayEdit, RemoveOrphans, ReplaySegment, OpenActiveWAL
<1> QED
  BY Zenon, <1>2, <1>3, <1>4, <1>5, CStepCases

\* Every step of the first session keeps the numbers in order.
LEMMA FirstStep ==
  ASSUME CInv, FirstInv, [CNext]_all
  PROVE  FirstInv'
<1>0. /\ sessions \in Nat /\ MaxSessions \in Nat /\ compactSeq \in Nat
      /\ phase # "down" => sessions \in 1 .. MaxSessions
  BY Zenon, BoundsAssumption DEF CInv, CTypeInv, EngineTypes, CompactorTypes, CPositionInv
<1>1. CASE OpenBegin
  <2>1. sessions' = sessions + 1 /\ Names' = Names
    BY Zenon, <1>1 DEF OpenBegin, Names, Listed, Entries
  <2>2. sessions' # 0 /\ (sessions' = 1 => sessions = 0)
    BY <1>0, <2>1
  <2> QED
    BY Zenon, <2>1, <2>2 DEF FirstInv
<1>2. CASE ~OpenBegin /\ phase = "down"
  <2>1. phase' = "down" /\ sessions' = sessions /\ sst' = sst /\ manifest' = manifest
    BY Zenon, <1>2, DownStep, NumbersGrow
  <2>2. Names' = Names
    BY Zenon, <2>1 DEF Names, Listed, Entries
  <2> QED
    BY Zenon, <2>1, <2>2 DEF FirstInv
<1>3. CASE ~OpenBegin /\ phase # "down"
  <2>1. sessions' = sessions
    BY Zenon, <1>3, NumbersGrow
  <2>2. sessions' # 0
    BY <1>0, <1>3, <2>1
  <2>3. ASSUME sessions' = 1, phase' # "down", NEW p \in Names', ~IsFlushed(p)
        PROVE  p.compact \in 1 .. compactSeq'
    <3>0. ~ProcessEnds
      BY Zenon, <2>3 DEF ProcessEnds, LoseProcess
    <3>1. CASE p \in Names
      <4>1. p.compact \in 1 .. compactSeq
        BY Zenon, <1>3, <2>1, <2>3, <3>1 DEF FirstInv
      <4>2. compactSeq' = compactSeq \/ compactSeq' = compactSeq + 1
        BY Zenon, <3>0, NumbersGrow
      <4> QED
        BY <1>0, <4>1, <4>2
    <3>2. CASE MergeCreate /\ p = [win |-> cwin, compact |-> NextCompactSeq]
      <4>1. compactSeq' = compactSeq + 1 /\ p.compact = compactSeq + 1
        BY <3>2 DEF MergeCreate, NextCompactSeq
      <4> QED
        BY <1>0, <4>1
    <3>3. CASE p \in Listed'
      <4>1. ASSUME manifest' = manifest PROVE p \in Names
        BY Zenon, <3>3, <4>1 DEF Names, Listed, Entries
      <4>2. ASSUME manifest' # manifest PROVE p \in Names
        <5>1. PICK e : manifest' = Append(manifest, e) /\ \A fe \in e.added : fe.path \in DOMAIN sst
          BY Zenon, <4>2, EditAdds
        <5>2. manifest \in Seq(Range(manifest))
          BY Zenon DEF CInv, CTypeInv
        <5>3. Listed' = Listed \cup {fe.path : fe \in e.added}
          BY Zenon, <5>1, <5>2, ListedAppended
        <5> QED
          BY Zenon, <3>3, <5>1, <5>3 DEF Names
      <4>3. p \in Names
        BY Zenon, <4>1, <4>2
      <4> QED
        BY Zenon, <3>1, <4>3
    <3> QED
      BY Zenon, <2>3, <3>0, <3>1, <3>2, <3>3, MergedNames DEF Names
  <2> QED
    BY Zenon, <2>2, <2>3 DEF FirstInv
<1> QED
  BY Zenon, <1>1, <1>2, <1>3

\* A store whose merges all fall into its first session overwrites no file with one, however
\* often it is reopened: there the theorems above hold without their hypothesis on names.
THEOREM FirstSessionUnused ==
  ASSUME NoCrashInReplay
  PROVE  CSpec /\ []MergesInFirstSession => []UnusedOutput /\ []FreshOutput
<1>1. Init /\ CompactorInit => CInv /\ FirstInv
  <2>1. ASSUME Init PROVE FirstInv
    <3>1. DOMAIN sst = {} /\ sessions = 0 /\ manifest = << >>
      BY <2>1 DEF Init
    <3>2. DOMAIN manifest = {}
      BY <3>1
    <3>3. sessions # 1
      BY <3>1
    <3> QED
      BY Zenon, <3>1, <3>2, <3>3 DEF FirstInv, Names, Listed, Entries
  <2> QED
    BY Zenon, <2>1, CInvInit
<1>2. CInv /\ FirstInv /\ MergesInFirstSession => UnusedOutput /\ FreshOutput
  BY Zenon, FirstUnused, UnusedIsFresh
<1>3. CInv /\ FirstInv /\ MergesInFirstSession /\ [CNext]_all => CInv' /\ FirstInv'
  BY Zenon, <1>2, CInvStep, FirstStep
<1> QED
  BY <1>1, <1>2, <1>3, PTL DEF CSpec

=============================================================================
