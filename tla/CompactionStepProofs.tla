------------------------ MODULE CompactionStepProofs ------------------------
(***************************************************************************)
(* A step of Compaction keeps each conjunct of CInv: what a step changes   *)
(* first, then types and numbers, files and readers, and what the files    *)
(* hold.  CompactionProofs puts them together.                             *)
(***************************************************************************)
EXTENDS CompactionInv, TLAPS

-----------------------------------------------------------------------------
(* What a step changes *)

\* The tuples of variables are abbreviations, expanded everywhere.
USE DEF env, disk, openVars, router, readers, walVars, tasks, flushVars, locals, callers,
        compactor, sweeps, unmapped, scans, cvars

\* The paths of flushes have a segment number.
LEMMA FlushedPath ==
  ASSUME NEW w, NEW n
  PROVE  /\ IsFlushed([win |-> w, seq |-> n])
         /\ [win |-> w, seq |-> n].seq = n /\ [win |-> w, seq |-> n].win = w
  BY SMT DEF IsFlushed

\* The paths of merges have none.
LEMMA MergedPath ==
  ASSUME NEW w, NEW n
  PROVE  ~IsFlushed([win |-> w, compact |-> n]) /\ [win |-> w, compact |-> n].win = w
  BY SMT DEF IsFlushed

\* Every record lies in one of the windows.
LEMMA WindowOfRecord == ASSUME NEW r \in Records PROVE Win(r) \in Windows
  BY Zenon DEF Windows

CompactorSteps ==
    \/ CompactReceive \/ SweepCompaction \/ SweepRetention
    \/ MergeCreate \/ MergeFinish \/ CompactorCommit \/ CompactorRemove \/ MergeInstall
    \/ \E w \in Windows : SweepVisit(w) \/ RetireWindow(w)
    \/ RetireForget
    \/ CompactorFails \/ CompactorCommitUnsynced \/ CompactorRemoveFails

\* The compactor leaves the rest of the engine alone.
LEMMA CompactorFrames == ASSUME CompactorSteps PROVE CompactFrame
  BY Zenon DEF CompactorSteps, CompactReceive, SweepCompaction, SweepRetention, MergeCreate,
     MergeFinish, CompactorCommit, CompactorRemove, MergeInstall, SweepVisit, RetireWindow,
     RetireForget, CompactorFails, CompactorCommitUnsynced, CompactorRemoveFails

\* The steps that leave files, edits and the numbers of both alone.
CQuiet ==
    /\ UNCHANGED <<sst, manifest, files, newSeq, oldWAL, walSeq, curWAL, editIdx, todoSegs,
                   sessions, compactSeq, compactCh, compactor, sweeps, unmapped>>
    /\ DOMAIN segs' = DOMAIN segs
    /\ workers' \subseteq workers /\ ("compactor" \in workers \ workers' => AtSelect)
    /\ \/ phase' = phase
       \/ phase = "running" /\ phase' = "closing"
       \/ phase = "closing" /\ phase' = "draining" /\ workers = {}
       \/ phase = "draining" /\ phase' = "closed" /\ fpc = "idle"
    /\ \/ fpc' = fpc /\ fwin' = fwin
       \/ fpc = "idle" /\ fpc' = "bump" /\ phase \in Live /\ phase' = phase
    /\ now' = now \/ now' = now + 1

\* Every step is quiet, or one of the others.
LEMMA CStepCases ==
  ASSUME CInv, [CNext]_all
  PROVE  \/ CQuiet
         \/ OpenBegin /\ UNCHANGED cvars
         \/ ReplayEdit /\ UNCHANGED cvars
         \/ RemoveOrphans /\ UNCHANGED cvars
         \/ ReplaySegment /\ UNCHANGED cvars
         \/ OpenActiveWAL /\ UNCHANGED cvars
         \/ FlushFail /\ UNCHANGED cvars
         \/ FlushCommitUnsynced /\ UNCHANGED cvars
         \/ FlushSignals \/ CompactorSteps \/ ProcessEnds
<1>0. workers # {} => phase \in {"running", "closing"}
  BY Zenon DEF CInv, CPositionInv
<1>1. ASSUME NEW a \in Appenders, NEW r \in Records, AppendWAL(a, r), UNCHANGED cvars PROVE CQuiet
  BY Zenon, <1>1 DEF CQuiet, AppendWAL
<1>2. ASSUME NEW a \in Appenders, AppendStep(a), UNCHANGED cvars PROVE CQuiet
  BY Zenon, <1>2 DEF CQuiet, AppendStep, AppendRoute, AppendInsert, AppendSignal
<1>3. ASSUME FlusherReceive, UNCHANGED cvars PROVE CQuiet
  BY Zenon, <1>0, <1>3 DEF CQuiet, FlusherReceive, FlushFrame, Live
<1>4. ASSUME WorkerExit("flusher"), UNCHANGED cvars PROVE CQuiet
  <2>1. "compactor" \notin workers \ workers'
    BY Zenon, <1>4 DEF WorkerExit
  <2> QED
    BY Zenon, <1>4, <2>1 DEF CQuiet, WorkerExit
<1>5. ASSUME CloseWaited \/ CloseEnd \/ Tick, UNCHANGED cvars PROVE CQuiet
  BY Zenon, <1>5 DEF CQuiet, CloseWaited, CloseEnd, Tick
<1>6. ASSUME NEW w \in Windows, CloseVisit(w), UNCHANGED cvars PROVE CQuiet
  BY Zenon, <1>6 DEF CQuiet, CloseVisit, Live
<1>7. ASSUME NEW s \in Scanners, ScanOpen(s) \/ ScanEnd(s) PROVE CQuiet
  BY Zenon, <1>7 DEF CQuiet, ScanOpen, ScanEnd, vars
<1>8. CASE CloseCalled
  BY Zenon, <1>8 DEF CQuiet, CloseCalled, CloseBegin
<1>9. CASE CompactorExit
  BY Zenon, <1>9 DEF CQuiet, CompactorExit, WorkerExit
<1>10. CASE UNCHANGED all
  BY Zenon, <1>10 DEF CQuiet, all, vars
<1> QED
  BY Zenon, <1>1, <1>2, <1>3, <1>4, <1>5, <1>6, <1>7, <1>8, <1>9, <1>10
     DEF CNext, EngineStep, OpenStep, MergeStep, CompactorSteps

\* Every step keeps the types of the engine's state.
LEMMA EngineTypesStep ==
  ASSUME CInv, [CNext]_all
  PROVE  EngineTypes'
<1> USE TsOfAssumption, NoRecordAssumption
<1>0. EngineTypes /\ CPositionInv /\ CSeqInv
  BY Zenon DEF CInv, CTypeInv
<1>1. CASE OpenBegin
  BY <1>0, <1>1 DEF EngineTypes, OpenBegin, Phases, OpenPhases
<1>2. CASE ReplayEdit
  <2>1. /\ editIdx' = editIdx + 1
        /\ UNCHANGED <<phase, env, disk, todoSegs, mem, walVars, tasks, flushVars, callers>>
    BY Zenon, <1>2 DEF ReplayEdit
  <2> QED
    BY <1>0, <2>1 DEF EngineTypes
<1>3. CASE RemoveOrphans
  BY <1>0, <1>3 DEF EngineTypes, RemoveOrphans, Phases, OpenPhases
<1>4. CASE ReplaySegment
  <2>1. PICK s \in todoSegs :
            /\ mem' = [w \in Windows |-> mem[w] \cup
                          {r \in {q \in segs[s] : ~Covered(q) /\ ~Refused(q)} : Win(r) = w}]
            /\ segs' = segs \/ segs' = Remove(segs, s)
            /\ todoSegs' = todoSegs \ {s}
    BY <1>4 DEF ReplaySegment
  <2>2. segs[s] \subseteq Records
    BY Zenon, <1>0 DEF EngineTypes
  <2>3. mem' \in [Windows -> SUBSET Records]
    BY Zenon, <1>0, <2>1, <2>2 DEF EngineTypes
  <2>4. /\ DOMAIN segs' \subseteq Nat /\ \A x \in DOMAIN segs' : segs'[x] \subseteq Records
        /\ todoSegs' \subseteq DOMAIN segs'
    BY Zenon, <1>0, <2>1 DEF EngineTypes, Remove, Restrict
  <2> QED
    BY Zenon, <1>0, <1>4, <2>3, <2>4 DEF EngineTypes, ReplaySegment
<1>5. CASE OpenActiveWAL
  BY <1>0, <1>5 DEF EngineTypes, OpenActiveWAL, OpenSegment, Phases
<1>6. ASSUME NEW a \in Appenders, NEW r \in Records, AppendWAL(a, r) PROVE EngineTypes'
  BY Zenon, <1>0, <1>6 DEF EngineTypes, AppendWAL
<1>7. ASSUME NEW a \in Appenders, AppendRoute(a) PROVE EngineTypes'
  BY Zenon, <1>0, <1>7 DEF EngineTypes, AppendRoute, AppendReturns
<1>8. ASSUME NEW a \in Appenders, AppendInsert(a) PROVE EngineTypes'
  <2>1. arec[a] \in Records /\ Win(arec[a]) \in Windows
    BY Zenon, <1>0, <1>8, WindowOfRecord DEF EngineTypes, AppendInsert
  <2>2. CASE pstate[Win(arec[a])] = "open"
    <3>1. mem' = [mem EXCEPT ![Win(arec[a])] = @ \cup {arec[a]}]
      BY Zenon, <1>8, <2>2 DEF AppendInsert
    <3>2. mem' \in [Windows -> SUBSET Records]
      BY Zenon, <1>0, <2>1, <3>1 DEF EngineTypes
    <3> QED
      BY Zenon, <1>0, <1>8, <2>1, <2>2, <3>2 DEF EngineTypes, AppendInsert
  <2>3. CASE pstate[Win(arec[a])] # "open"
    BY ZenonT(30), <1>0, <1>8, <2>1, <2>3 DEF EngineTypes, AppendInsert, AppendReturns
  <2> QED
    BY Zenon, <2>2, <2>3
<1>9. ASSUME NEW a \in Appenders, AppendSignal(a) PROVE EngineTypes'
  <2>1. Win(arec[a]) \in Windows
    BY Zenon, <1>0, <1>9, WindowOfRecord DEF EngineTypes, AppendSignal
  <2>2. Signalled(Win(arec[a])) \in Seq(Windows)
    BY <1>0, <2>1 DEF EngineTypes, Signalled
  <2>3. flushCh' \in Seq(Windows)
    BY Zenon, <1>9, <2>2 DEF AppendSignal
  <2> QED
    BY Zenon, <1>0, <1>9, <2>3 DEF EngineTypes, AppendSignal, AppendReturns
<1>10. CASE FlusherReceive
  BY <1>0, <1>10 DEF EngineTypes, FlusherReceive, FlushFrame, FlushSteps
<1>11. CASE FlushBump
  BY <1>0, <1>11 DEF EngineTypes, FlushBump, FlushFrame, FlushSteps
<1>12. CASE FlushRotate
  BY Zenon, <1>0, <1>12 DEF EngineTypes, FlushRotate, FlushFrame, FlushSteps, OpenSegment
<1>13. CASE FlushCreate \/ FlushCommit \/ FlushSwap
  BY Zenon, <1>0, <1>13
     DEF EngineTypes, FlushCreate, FlushCommit, FlushSwap, FlushFrame, FlushSteps
<1>14. CASE FlushFinish
  BY Zenon, <1>0, <1>14 DEF EngineTypes, FlushFinish, FlushFrame, FlushSteps
<1>15. CASE FlushUnlink
  <2>1. todoSegs = {}
    BY Zenon, <1>0, <1>15 DEF CPositionInv, FlushUnlink, Live
  <2> QED
    BY Zenon, <1>0, <1>15, <2>1 DEF EngineTypes, FlushUnlink, FlushFrame, FlushSteps, Remove, Restrict
<1>16. CASE FlushRegister \/ FlushCommitUnsynced
  BY Zenon, <1>0, <1>16
     DEF EngineTypes, FlushRegister, FlushCommitUnsynced, FlushFrame, FlushReturns, FlushSteps
<1>17. CASE FlushFail
  BY SMTT(30), <1>0, <1>17 DEF EngineTypes, FlushFail, CSeqInv, FlushFrame, FlushReturns, FlushSteps
<1>18. CASE CloseCalled \/ CloseWaited \/ CloseEnd
  BY Zenon, <1>0, <1>18 DEF EngineTypes, CloseCalled, CloseBegin, CloseWaited, CloseEnd, Phases
<1>19. CASE WorkerExit("flusher") \/ CompactorExit
  BY Zenon, <1>0, <1>19 DEF EngineTypes, CompactorExit, WorkerExit
<1>20. ASSUME NEW w \in Windows, CloseVisit(w) PROVE EngineTypes'
  BY Zenon, <1>0, <1>20 DEF EngineTypes, CloseVisit, FlushSteps
<1>21. CASE Tick
  BY SMTT(30), <1>0, <1>21 DEF EngineTypes, Tick
<1>22. CASE CompactorSteps
  BY Zenon, <1>0, <1>22, CompactorFrames DEF EngineTypes, CompactFrame
<1>23. ASSUME NEW s \in Scanners, ScanOpen(s) \/ ScanEnd(s) PROVE EngineTypes'
  BY Zenon, <1>0, <1>23 DEF EngineTypes, ScanOpen, ScanEnd, vars
<1>24. CASE ProcessEnds
  <2>1. LoseProcess
    BY Zenon, <1>24 DEF ProcessEnds
  <2> QED
    BY SMTT(30), <1>0, <2>1 DEF EngineTypes, LoseProcess, Phases, FlushSteps
<1>25. CASE UNCHANGED all
  BY Zenon, <1>0, <1>25 DEF EngineTypes, all, vars
<1> QED
  BY Zenon, <1>1, <1>2, <1>3, <1>4, <1>5, <1>6, <1>7, <1>8, <1>9, <1>10, <1>11, <1>12, <1>13,
     <1>14, <1>15, <1>16, <1>17, <1>18, <1>19, <1>20, <1>21, <1>22, <1>23, <1>24, <1>25
     DEF CNext, EngineStep, OpenStep, AppendStep, FlushSignals, FlushStep, MergeStep, CompactorSteps

\* Every step keeps each goroutine where CPositionInv allows it.
LEMMA CPositionStep ==
  ASSUME CInv, [CNext]_all
  PROVE  CPositionInv'
<1>0. EngineTypes /\ CPositionInv
  BY Zenon DEF CInv, CTypeInv
<1>1. CASE CQuiet
  BY Zenon, <1>0, <1>1 DEF CQuiet, CPositionInv, AtSelect, Opened, Live
<1>2. CASE OpenBegin /\ UNCHANGED cvars
  <2>1. sessions' \in 1 .. MaxSessions
    BY SMTT(30), <1>0, <1>2, BoundsAssumption DEF EngineTypes, OpenBegin
  <2> QED
    BY Zenon, <1>0, <1>2, <2>1 DEF OpenBegin, CPositionInv, Opened, Live
<1>3. CASE (ReplayEdit \/ RemoveOrphans) /\ UNCHANGED cvars
  BY Zenon, <1>0, <1>3 DEF ReplayEdit, RemoveOrphans, CPositionInv, Opened, Live
<1>4. CASE (ReplaySegment \/ OpenActiveWAL) /\ UNCHANGED cvars
  BY Zenon, <1>0, <1>4 DEF ReplaySegment, OpenActiveWAL, CPositionInv, Opened, Live
<1>5. CASE FlushSignals \/ (FlushFail /\ UNCHANGED cvars) \/ (FlushCommitUnsynced /\ UNCHANGED cvars)
  <2>1. fpc # "idle"
    BY Zenon, <1>5 DEF FlushSignals, FlushStep, FlushBump, FlushRotate, FlushCreate, FlushSwap,
       FlushFinish, FlushCommit, FlushUnlink, FlushRegister, FlushFail, FlushCallFails,
       FlushCommitUnsynced
  <2>2. /\ FlushFrame /\ UNCHANGED <<cpc, sweep, expired, closedReaders, gone>>
    BY Zenon, <1>5 DEF FlushSignals, FlushStep, FlushBump, FlushRotate, FlushCreate, FlushSwap,
       FlushFinish, FlushCommit, FlushUnlink, FlushRegister, FlushFail, FlushCommitUnsynced
  <2>3. phase \in Live /\ phase # "down"
    BY Zenon, <1>0, <2>1 DEF CPositionInv, Live
  <2> QED
    BY Zenon, <1>0, <2>2, <2>3 DEF CPositionInv, FlushFrame, Opened, Live
<1>6. CASE CompactorSteps
  <2>1. CompactFrame
    BY Zenon, <1>6, CompactorFrames
  <2>2. \/ AtSelect \/ cpc # "idle" \/ sweep # {} \/ expired # {}
    BY Zenon, <1>6 DEF CompactorSteps, CompactReceive, SweepCompaction, SweepRetention, MergeCreate,
       MergeFinish, CompactorCommit, CompactorRemove, MergeInstall, SweepVisit, RetireWindow,
       RetireForget, CompactorFails, CompactorCallFails, CompactorCommitUnsynced, CompactorRemoveFails
  <2>3. "compactor" \in workers /\ phase \in {"running", "closing"}
    BY Zenon, <1>0, <2>2 DEF CPositionInv, AtSelect
  <2>4. sweep' = {} \/ expired' = {}
    <3>1. CASE CompactReceive \/ SweepCompaction \/ SweepRetention
      BY Zenon, <1>0, <3>1 DEF CompactReceive, SweepCompaction, SweepRetention, AtSelect, CPositionInv
    <3>2. CASE \E w \in Windows : SweepVisit(w) \/ RetireWindow(w)
      BY Zenon, <1>0, <3>2 DEF SweepVisit, RetireWindow, CPositionInv
    <3>3. CASE UNCHANGED sweeps
      BY Zenon, <1>0, <3>3 DEF CPositionInv
    <3> QED
      BY Zenon, <1>6, <3>1, <3>2, <3>3 DEF CompactorSteps, MergeCreate,
         MergeFinish, CompactorCommit, CompactorRemove, MergeInstall,
         RetireForget, CompactorFails, CompactorCommitUnsynced, CompactorRemoveFails
  <2> QED
    BY Zenon, <1>0, <2>1, <2>3, <2>4 DEF CPositionInv, CompactFrame, Opened, Live
<1>7. CASE ProcessEnds
  BY Zenon, <1>7 DEF ProcessEnds, LoseProcess, CompactReturns, CPositionInv, Opened, Live
<1> QED
  BY Zenon, <1>1, <1>2, <1>3, <1>4, <1>5, <1>6, <1>7, CStepCases

-----------------------------------------------------------------------------
(* The manifest and the names of the files *)

\* A sequence is one of its own elements.
LEMMA SeqOfRange ==
  ASSUME NEW S, NEW s \in Seq(S)
  PROVE  s \in Seq(Range(s))
<1>1. Len(s) \in Nat /\ DOMAIN s = 1 .. Len(s)
  OBVIOUS
<1>2. \A i \in 1 .. Len(s) : s[i] \in Range(s)
  BY <1>1, Zenon DEF Range
<1> QED
  BY <1>1, <1>2

\* A new edit comes behind the others.
LEMMA EditAppended ==
  ASSUME manifest \in Seq(Range(manifest)), NEW e, manifest' = Append(manifest, e)
  PROVE  /\ manifest' \in Seq(Range(manifest'))
         /\ Len(manifest) \in Nat /\ DOMAIN manifest = 1 .. Len(manifest)
         /\ DOMAIN manifest' = 1 .. (Len(manifest) + 1)
         /\ \A i \in DOMAIN manifest : manifest'[i] = manifest[i]
         /\ manifest'[Len(manifest) + 1] = e
<1>1. /\ Len(manifest) \in Nat /\ DOMAIN manifest = 1 .. Len(manifest)
      /\ manifest \in Seq(Range(manifest) \cup {e}) /\ manifest' \in Seq(Range(manifest) \cup {e})
      /\ Len(manifest') = Len(manifest) + 1
  OBVIOUS
<1>2. /\ \A i \in DOMAIN manifest : manifest'[i] = manifest[i]
      /\ manifest'[Len(manifest) + 1] = e
  BY <1>1
<1>3. DOMAIN manifest' = 1 .. (Len(manifest) + 1)
  BY <1>1
<1>4. manifest' \in Seq(Range(manifest'))
  BY Zenon, <1>1, SeqOfRange
<1> QED
  BY <1>1, <1>2, <1>3, <1>4

\* It lists what it adds.
LEMMA ListedAppended ==
  ASSUME manifest \in Seq(Range(manifest)), NEW e, manifest' = Append(manifest, e)
  PROVE  Listed' = Listed \cup {fe.path : fe \in e.added}
<1>1. /\ Len(manifest) \in Nat /\ DOMAIN manifest = 1 .. Len(manifest)
      /\ DOMAIN manifest' = 1 .. (Len(manifest) + 1)
      /\ \A i \in DOMAIN manifest : manifest'[i] = manifest[i]
      /\ manifest'[Len(manifest) + 1] = e
  BY EditAppended, Zenon
<1>2. DOMAIN manifest' = DOMAIN manifest \cup {Len(manifest) + 1}
  BY <1>1
<1>3. ASSUME NEW x PROVE x \in Entries' <=> x \in Entries \cup e.added
  <2>1. x \in Entries' <=> \E i \in DOMAIN manifest' : x \in manifest'[i].added
    BY Zenon DEF Entries
  <2>2. x \in Entries <=> \E i \in DOMAIN manifest : x \in manifest[i].added
    BY Zenon DEF Entries
  <2> QED
    BY <1>1, <1>2, <2>1, <2>2, Zenon
<1>4. Entries' = Entries \cup e.added
  BY <1>3, Zenon
<1> QED
  BY <1>4, Zenon DEF Listed

\* A file is referred to afterwards if it was or is added, and is not deleted.
LEMMA AliveAppended ==
  ASSUME manifest \in Seq(Range(manifest)), NEW e, manifest' = Append(manifest, e), NEW p
  PROVE  Alive(p)' <=> p \notin e.deleted /\ (Alive(p) \/ \E fe \in e.added : fe.path = p)
<1> DEFINE n == Len(manifest) + 1
<1>1. /\ Len(manifest) \in Nat /\ DOMAIN manifest = 1 .. Len(manifest)
      /\ DOMAIN manifest' = 1 .. n
      /\ \A i \in DOMAIN manifest : manifest'[i] = manifest[i]
      /\ manifest'[n] = e
  BY EditAppended, Zenon
<1>2. DOMAIN manifest' = DOMAIN manifest \cup {n} /\ n \notin DOMAIN manifest
  BY <1>1
<1>3. \A i \in DOMAIN manifest : n >= i
  BY <1>1
<1>4. \A i \in DOMAIN manifest : ~(i >= n)
  BY <1>1
<1>5. n >= n
  BY <1>1
<1> HIDE DEF n
<1>6. ASSUME Alive(p)' PROVE p \notin e.deleted /\ (Alive(p) \/ \E fe \in e.added : fe.path = p)
  <2>1. PICK i \in DOMAIN manifest' :
           /\ \E fe \in manifest'[i].added : fe.path = p
           /\ \A j \in DOMAIN manifest' : j >= i => p \notin manifest'[j].deleted
    BY <1>6, Zenon DEF Alive, AddedForGood
  <2>2. p \notin e.deleted
    BY <1>1, <1>2, <1>3, <1>5, <2>1, Zenon
  <2>3. CASE i \in DOMAIN manifest
    <3>1. AddedForGood(i, p)
      BY <1>1, <1>2, <2>1, <2>3, Zenon DEF AddedForGood
    <3> QED
      BY <2>2, <2>3, <3>1, Zenon DEF Alive
  <2>4. CASE i = n
    BY <1>1, <2>1, <2>2, <2>4, Zenon
  <2> QED
    BY <1>2, <2>3, <2>4, Zenon
<1>7. ASSUME p \notin e.deleted, Alive(p) PROVE Alive(p)'
  <2>1. PICK i \in DOMAIN manifest : AddedForGood(i, p)
    BY <1>7, Zenon DEF Alive
  <2>2. \E fe \in manifest'[i].added : fe.path = p
    BY <1>1, <2>1, Zenon DEF AddedForGood
  <2>3. \A j \in DOMAIN manifest' : j >= i => p \notin manifest'[j].deleted
    BY <1>1, <1>2, <1>7, <2>1, Zenon DEF AddedForGood
  <2> QED
    BY <1>2, <2>2, <2>3, Zenon DEF Alive, AddedForGood
<1>8. ASSUME p \notin e.deleted, \E fe \in e.added : fe.path = p PROVE Alive(p)'
  <2>1. \A j \in DOMAIN manifest' : j >= n => p \notin manifest'[j].deleted
    BY <1>1, <1>2, <1>4, <1>8, Zenon
  <2>2. \E fe \in manifest'[n].added : fe.path = p
    BY <1>1, <1>8, Zenon
  <2> QED
    BY <1>2, <2>1, <2>2, Zenon DEF Alive, AddedForGood
<1> QED
  BY <1>6, <1>7, <1>8, Zenon

\* Only four steps write to the manifest.
LEMMA ManifestCases ==
  ASSUME [CNext]_all
  PROVE  \/ manifest' = manifest
         \/ (FlushCommit \/ FlushCommitUnsynced) /\ UNCHANGED <<sst, gone, cin, files, closedReaders>>
         \/ (CompactorCommit \/ CompactorCommitUnsynced) /\ UNCHANGED <<sst, gone, files, closedReaders>>
<1>1. CASE EngineStep /\ UNCHANGED cvars
  <2>1. CASE FlushCommitUnsynced
    BY Zenon, <1>1, <2>1 DEF FlushCommitUnsynced
  <2>2. CASE OpenBegin \/ OpenStep \/ FlusherReceive \/ FlushFail \/ WorkerExit("flusher")
    BY Zenon, <2>2 DEF OpenBegin, OpenStep, ReplayEdit, RemoveOrphans, ReplaySegment, OpenActiveWAL,
       FlusherReceive, FlushFail, WorkerExit
  <2>3. CASE CloseWaited \/ CloseEnd \/ Tick \/ \E w \in Windows : CloseVisit(w)
    BY Zenon, <2>3 DEF CloseWaited, CloseEnd, CloseVisit, Tick
  <2>4. CASE \E a \in Appenders : AppendStep(a) \/ \E r \in Records : AppendWAL(a, r)
    BY Zenon, <2>4 DEF AppendStep, AppendRoute, AppendInsert, AppendSignal, AppendWAL
  <2> QED
    BY Zenon, <1>1, <2>1, <2>2, <2>3, <2>4 DEF EngineStep
<1>2. CASE FlushSignals
  <2>1. CASE FlushCommit
    BY Zenon, <1>2, <2>1 DEF FlushSignals, FlushCommit
  <2> QED
    BY Zenon, <1>2, <2>1 DEF FlushSignals, FlushStep, FlushBump, FlushRotate, FlushCreate, FlushSwap,
       FlushFinish, FlushUnlink, FlushRegister
<1>3. CASE CompactorSteps
  <2>1. CASE CompactorCommit \/ CompactorCommitUnsynced
    BY Zenon, <2>1 DEF CompactorCommit, CompactorCommitUnsynced
  <2> QED
    BY Zenon, <1>3, <2>1 DEF CompactorSteps, CompactReceive, SweepCompaction, SweepRetention, MergeCreate,
       MergeFinish, CompactorRemove, MergeInstall, SweepVisit, RetireWindow,
       RetireForget, CompactorFails, CompactorRemoveFails
<1>4. CASE \E s \in Scanners : ScanOpen(s) \/ ScanEnd(s)
  BY Zenon, <1>4 DEF ScanOpen, ScanEnd, vars
<1>5. CASE CloseCalled \/ CompactorExit \/ ProcessEnds \/ UNCHANGED all
  BY Zenon, <1>5 DEF CloseCalled, CloseBegin, CompactorExit, WorkerExit, ProcessEnds, LoseProcess, all, vars
<1> QED
  BY Zenon, <1>1, <1>2, <1>3, <1>4, <1>5 DEF CNext, MergeStep, CompactorSteps

\* The edit of a flush adds its file.
LEMMA FlushEdit ==
  ASSUME FlushCommit \/ FlushCommitUnsynced
  PROVE  \E e : /\ manifest' = Append(manifest, e) /\ e.deleted = {}
                /\ \E fe : e.added = {fe} /\ fe.path = FlushPath
<1>1. WriteEdit
  BY Zenon DEF FlushCommit, FlushCommitUnsynced
<1>2. PICK m : manifest' = Append(manifest, [added |-> {[path |-> FlushPath, max |-> m]}, deleted |-> {}])
  BY <1>1, Zenon DEF WriteEdit
<1> DEFINE fe == [path |-> FlushPath, max |-> m]
           e == [added |-> {fe}, deleted |-> {}]
<1>3. fe.path = FlushPath
  BY SMT
<1> HIDE DEF fe
<1>4. e.added = {fe} /\ e.deleted = {}
  BY SMT
<1>5. manifest' = Append(manifest, e)
  BY <1>2, Zenon DEF fe
<1> HIDE DEF e
<1> QED
  BY <1>3, <1>4, <1>5, Zenon

\* That of a merge adds the output and deletes the inputs; that of a retirement deletes.
LEMMA CompactorEdit ==
  ASSUME CompactorCommit \/ CompactorCommitUnsynced
  PROVE  \E e : /\ manifest' = Append(manifest, e) /\ e.deleted = cin
                /\ \/ cpc = "commit" /\ \E fe : e.added = {fe} /\ fe.path = Output
                   \/ cpc = "retire" /\ e.added = {}
<1>1. WriteCompactorEdit /\ cpc \in {"commit", "retire"}
  BY Zenon DEF CompactorCommit, CompactorCommitUnsynced
<1> DEFINE fe == [path |-> Output, max |-> MaxTS(crecs)]
           e == [added |-> IF cpc = "commit" THEN {fe} ELSE {}, deleted |-> cin]
<1>2. fe.path = Output
  BY SMT
<1>3. manifest' = Append(manifest, e)
  BY <1>1, Zenon DEF WriteCompactorEdit
<1> HIDE DEF fe
<1>4. e.deleted = cin /\ e.added = IF cpc = "commit" THEN {fe} ELSE {}
  BY SMT
<1> HIDE DEF e
<1> QED
  BY <1>1, <1>2, <1>3, <1>4, Zenon

\* Only six steps write, create or remove SSTable files.
LEMMA SstCases ==
  ASSUME [CNext]_all
  PROVE  \/ sst' = sst
         \/ RemoveOrphans \/ FlushCreate \/ FlushFinish \/ MergeCreate \/ MergeFinish \/ ProcessEnds
<1>1. CASE EngineStep /\ UNCHANGED cvars
  <2>2. CASE OpenBegin \/ OpenStep \/ FlusherReceive \/ FlushFail \/ FlushCommitUnsynced \/ WorkerExit("flusher")
    BY Zenon, <2>2 DEF OpenBegin, OpenStep, ReplayEdit, ReplaySegment, OpenActiveWAL,
       FlusherReceive, FlushFail, FlushCommitUnsynced, WorkerExit
  <2>3. CASE CloseWaited \/ CloseEnd \/ Tick \/ \E w \in Windows : CloseVisit(w)
    BY Zenon, <2>3 DEF CloseWaited, CloseEnd, CloseVisit, Tick
  <2>4. CASE \E a \in Appenders : AppendStep(a) \/ \E r \in Records : AppendWAL(a, r)
    BY Zenon, <2>4 DEF AppendStep, AppendRoute, AppendInsert, AppendSignal, AppendWAL
  <2> QED
    BY Zenon, <1>1, <2>2, <2>3, <2>4 DEF EngineStep
<1>2. CASE FlushSignals
  BY Zenon, <1>2 DEF FlushSignals, FlushStep, FlushBump, FlushRotate, FlushSwap,
       FlushCommit, FlushUnlink, FlushRegister
<1>3. CASE CompactorSteps
  BY Zenon, <1>3 DEF CompactorSteps, CompactReceive, SweepCompaction, SweepRetention,
       CompactorCommit, CompactorRemove, MergeInstall, SweepVisit, RetireWindow,
       RetireForget, CompactorFails, CompactorCommitUnsynced, CompactorRemoveFails
<1>4. CASE \E s \in Scanners : ScanOpen(s) \/ ScanEnd(s)
  BY Zenon, <1>4 DEF ScanOpen, ScanEnd, vars
<1>5. CASE CloseCalled \/ CompactorExit \/ UNCHANGED all
  BY Zenon, <1>5 DEF CloseCalled, CloseBegin, CompactorExit, WorkerExit, all, vars
<1> QED
  BY Zenon, <1>1, <1>2, <1>3, <1>4, <1>5 DEF CNext, MergeStep, CompactorSteps

\* The file of a flush is not the output of a merge, nor the other way round.
LEMMA DifferentNames ==
  ASSUME NEW w, NEW n, NEW v, NEW m
  PROVE  [win |-> w, seq |-> n] # [win |-> v, compact |-> m]
  BY FlushedPath, MergedPath, Zenon

\* A flush creates a file that is new.
LEMMA FlushFresh ==
  ASSUME CInv, fpc = "create"
  PROVE  FlushPath \notin Names
<1>1. \A p \in Names : IsFlushed(p) => p.seq < newSeq
  BY Zenon DEF CInv, CSeqInv
<1>2. newSeq \in Nat
  BY Zenon DEF CInv, CTypeInv, EngineTypes
<1>3. IsFlushed(FlushPath) /\ FlushPath.seq = newSeq
  BY FlushedPath, Zenon DEF FlushPath
<1> QED
  BY <1>1, <1>2, <1>3

\* What a step that goes on does to a file that its writer has finished: nothing, but for
\* the removal of orphans.
LEMMA FinishedFileKept ==
  ASSUME CInv, FreshOutput, [CNext]_all, ~ProcessEnds, NEW p \in DOMAIN sst,
         phase = "manifest" => p \in files,
         FlushFinish => p # FlushPath, MergeFinish => p # Output
  PROVE  p \in DOMAIN sst' /\ sst'[p] = sst[p]
<1>1. CASE sst' = sst
  BY Zenon, <1>1
<1>2. CASE RemoveOrphans
  BY Zenon, <1>2 DEF RemoveOrphans, Restrict
<1>3. CASE FlushCreate
  <2>1. p # FlushPath
    BY Zenon, <1>3, FlushFresh DEF FlushCreate, Names
  <2> QED
    BY Zenon, <1>3, <2>1 DEF FlushCreate
<1>4. CASE FlushFinish
  BY Zenon, <1>4 DEF FlushFinish, Remove, Restrict
<1>5. CASE MergeCreate
  <2>1. p # [win |-> cwin, compact |-> NextCompactSeq]
    BY Zenon, <1>5 DEF MergeCreate, FreshOutput
  <2> QED
    BY Zenon, <1>5, <2>1 DEF MergeCreate
<1>6. CASE MergeFinish
  BY Zenon, <1>6 DEF MergeFinish
<1> QED
  BY Zenon, <1>1, <1>2, <1>3, <1>4, <1>5, <1>6, SstCases

\* In particular, nothing happens to a file with a reader.
LEMMA ReadFileKept ==
  ASSUME CInv, FreshOutput, [CNext]_all, ~ProcessEnds, NEW p \in OpenReaders
  PROVE  p \in DOMAIN sst' /\ sst'[p] = sst[p]
<1>1. p \in DOMAIN sst
  BY Zenon DEF CInv, CFilesInv, ReadersInv
<1>2. phase = "manifest" => p \in files
  BY Zenon DEF CInv, CPositionInv, Opened, Live, OpenReaders
<1>3. FlushFinish => p # FlushPath
  BY Zenon DEF CInv, CFilesInv, FlushedInv, Flushing, FlushFinish
<1>4. MergeFinish => p # Output
  BY Zenon DEF CInv, CFilesInv, MergedInv, Merging, MergeFinish
<1> QED
  BY Zenon, <1>1, <1>2, <1>3, <1>4, FinishedFileKept

\* The only new name a flush brings up is that of its file.
LEMMA NamesStep ==
  ASSUME CInv, [CNext]_all, NEW p \in Names', IsFlushed(p)
  PROVE  p \in Names \/ (FlushCreate /\ p = FlushPath)
<1>0. manifest \in Seq(Range(manifest))
  BY Zenon DEF CInv, CTypeInv
<1>1. CASE p \in DOMAIN sst'
  <2>1. CASE sst' = sst
    BY Zenon, <1>1, <2>1 DEF Names
  <2>2. CASE RemoveOrphans \/ ProcessEnds
    BY Zenon, <1>1, <2>2 DEF RemoveOrphans, ProcessEnds, Restrict, Names
  <2>3. CASE FlushCreate
    BY Zenon, <1>1, <2>3 DEF FlushCreate, Names
  <2>4. CASE FlushFinish
    BY Zenon, <1>1, <2>4 DEF FlushFinish, Remove, Restrict, Names
  <2>5. CASE MergeCreate
    <3>1. p # [win |-> cwin, compact |-> NextCompactSeq]
      BY MergedPath, Zenon
    <3> QED
      BY Zenon, <1>1, <2>5, <3>1 DEF MergeCreate, Names
  <2>6. CASE MergeFinish
    BY Zenon, <1>1, <2>6 DEF MergeFinish, Names
  <2> QED
    BY Zenon, <2>1, <2>2, <2>3, <2>4, <2>5, <2>6, SstCases
<1>2. CASE p \in Listed'
  <2>1. CASE manifest' = manifest
    BY Zenon, <1>2, <2>1 DEF Names, Listed, Entries
  <2>2. CASE FlushCommit \/ FlushCommitUnsynced
    <3>1. PICK e : manifest' = Append(manifest, e) /\ \E fe : e.added = {fe} /\ fe.path = FlushPath
      BY <2>2, FlushEdit, Zenon
    <3>2. Listed' = Listed \cup {fe.path : fe \in e.added}
      BY <1>0, <3>1, ListedAppended, Zenon
    <3>3. FlushPath \in DOMAIN sst
      BY Zenon, <2>2 DEF FlushCommit, FlushCommitUnsynced, CInv, CFilesInv, FlushedInv, Flushing
    <3> QED
      BY <1>2, <3>1, <3>2, <3>3, Zenon DEF Names
  <2>3. CASE CompactorCommit \/ CompactorCommitUnsynced
    <3>1. PICK e : /\ manifest' = Append(manifest, e)
                   /\ \/ \E fe : e.added = {fe} /\ fe.path = Output
                      \/ e.added = {}
      BY <2>3, CompactorEdit, Zenon
    <3>2. Listed' = Listed \cup {fe.path : fe \in e.added}
      BY <1>0, <3>1, ListedAppended, Zenon
    <3>3. p # Output
      BY MergedPath, Zenon DEF Output
    <3> QED
      BY <1>2, <3>1, <3>2, <3>3, Zenon DEF Names
  <2> QED
    BY Zenon, <2>1, <2>2, <2>3, ManifestCases
<1> QED
  BY Zenon, <1>1, <1>2 DEF Names

\* Every step keeps the segment numbers ahead of those of the flushed files.  A crash in
\* the middle of ReplaySegment has to be excluded: it may leave no high segment.
LEMMA CSeqStep ==
  ASSUME CInv, NoCrashInReplay, [CNext]_all
  PROVE  CSeqInv'
<1>0. EngineTypes /\ CPositionInv /\ CSeqInv
  BY Zenon DEF CInv, CTypeInv
<1>1. ASSUME ~FlushCreate
      PROVE  /\ \A p \in Names' : IsFlushed(p) => p \in Names /\ p.seq \in Nat
             /\ \A n : SeqBelow(n) => \A p \in Names' : IsFlushed(p) => p.seq <= n
  <2>1. \A p \in Names' : IsFlushed(p) => p \in Names
    BY <1>1, NamesStep, Zenon
  <2> QED
    BY <1>0, <2>1, Zenon DEF CSeqInv, SeqBelow
<1>2. CASE UNCHANGED <<phase, curWAL, walSeq, fpc, oldWAL, newSeq>> /\ DOMAIN segs' = DOMAIN segs
  <2>1. ~FlushCreate
    BY Zenon, <1>2 DEF FlushCreate
  <2>2. \A p \in Names' : IsFlushed(p) => p \in Names /\ p.seq \in Nat
    BY Zenon, <1>1, <2>1
  <2> QED
    BY Zenon, <1>0, <1>2, <2>2 DEF CSeqInv, SeqBelow, Opened, Flushing
<1>3. CASE CQuiet
  <2>1. Names' = Names
    BY Zenon, <1>3 DEF CQuiet, Names, Listed, Entries
  <2> QED
    BY Zenon, <1>0, <1>3, <2>1 DEF CQuiet, CSeqInv, SeqBelow, Opened, Live, Flushing
<1>4. CASE OpenBegin
  <2>1. Names' = Names /\ fpc' = "idle" /\ segs' = segs /\ phase' = "manifest" /\ phase = "down"
    BY Zenon, <1>0, <1>4 DEF OpenBegin, Names, Listed, Entries, CPositionInv, Live
  <2> QED
    BY Zenon, <1>0, <2>1 DEF CSeqInv, SeqBelow, Opened, Live, Flushing
<1>5. CASE ReplayEdit
  <2>1. UNCHANGED <<phase, curWAL, walSeq, fpc, oldWAL, newSeq, segs>>
    BY Zenon, <1>5 DEF ReplayEdit
  <2> QED
    BY Zenon, <1>2, <2>1
<1>6. CASE RemoveOrphans
  <2>1. /\ phase = "manifest" /\ phase' = "segments" /\ fpc' = "idle" /\ fpc = "idle"
        /\ UNCHANGED segs
    BY Zenon, <1>0, <1>6 DEF RemoveOrphans, CPositionInv, Live
  <2>2. \A p \in Names' : IsFlushed(p) => p \in Names /\ p.seq \in Nat
    BY Zenon, <1>1, <2>1 DEF FlushCreate
  <2>3. \A p \in Names : IsFlushed(p) => \E s \in DOMAIN segs : p.seq <= s
    BY Zenon, <1>0, <2>1 DEF CSeqInv
  <2>4. walSeq' \in Nat /\ \A s \in DOMAIN segs : s \in Nat /\ s <= walSeq'
    BY SMTT(30), <1>0, <1>6 DEF RemoveOrphans, EngineTypes
  <2>5. \A p \in Names' : IsFlushed(p) => p.seq <= walSeq'
    BY <2>2, <2>3, <2>4
  <2> QED
    BY Zenon, <2>1, <2>2, <2>5 DEF CSeqInv, SeqBelow, Opened, Live, Flushing
<1>7. CASE ReplaySegment
  <2>1. UNCHANGED <<phase, curWAL, walSeq, fpc, oldWAL, newSeq, sst, manifest>> /\ phase = "segments"
    BY Zenon, <1>7 DEF ReplaySegment
  <2>2. fpc = "idle" /\ Names' = Names
    BY Zenon, <1>0, <2>1 DEF CPositionInv, Live, Names, Listed, Entries
  <2> QED
    BY Zenon, <1>0, <2>1, <2>2 DEF CSeqInv, SeqBelow, Opened, Live, Flushing
<1>8. CASE OpenActiveWAL
  <2>1. /\ phase = "segments" /\ phase' = "running" /\ fpc = "idle" /\ fpc' = "idle"
        /\ walSeq' = walSeq + 1 /\ curWAL' = walSeq + 1 /\ walSeq \in Nat
        /\ UNCHANGED <<sst, manifest>>
    BY Zenon, <1>0, <1>8 DEF OpenActiveWAL, CPositionInv, EngineTypes, Live
  <2>4. Names' = Names
    BY Zenon, <2>1 DEF Names, Listed, Entries
  <2>5. curWAL' \in DOMAIN segs'
    BY Zenon, <1>8 DEF OpenActiveWAL, OpenSegment
  <2>2. \A p \in Names : IsFlushed(p) => p.seq \in Nat /\ p.seq <= walSeq
    BY Zenon, <1>0, <2>1 DEF CSeqInv, SeqBelow
  <2>3. \A p \in Names : IsFlushed(p) => p.seq <= walSeq + 1
    BY <2>1, <2>2
  <2> QED
    BY Zenon, <2>1, <2>2, <2>3, <2>4, <2>5 DEF CSeqInv, SeqBelow, Opened, Live, Flushing
<1>9. CASE FlushBump
  <2>1. /\ fpc = "bump" /\ fpc' = "rotate" /\ UNCHANGED <<phase, segs, curWAL, sst, manifest>>
        /\ oldWAL' = walSeq /\ newSeq' = walSeq + 1 /\ walSeq' = walSeq + 1 /\ phase \in Live
    BY Zenon, <1>0, <1>9 DEF FlushBump, FlushFrame, CPositionInv
  <2>2. Names' = Names
    BY Zenon, <2>1 DEF Names, Listed, Entries
  <2> QED
    BY Zenon, <1>0, <2>1, <2>2 DEF CSeqInv, SeqBelow, Opened, Live, Flushing
<1>10. CASE FlushRotate
  <2>1. /\ phase \in Live /\ fpc = "rotate" /\ fpc' = "create" /\ curWAL' = newSeq
        /\ UNCHANGED <<phase, sst, manifest, walSeq, oldWAL, newSeq>>
        /\ DOMAIN segs' = DOMAIN segs \cup {newSeq}
    BY Zenon, <1>0, <1>10 DEF FlushRotate, OpenSegment, FlushFrame, CPositionInv
  <2>2. curWAL \in Nat /\ newSeq = curWAL + 1 /\ oldWAL = curWAL /\ walSeq = newSeq
    BY Zenon, <1>0, <2>1 DEF CSeqInv, EngineTypes
  <2>3. Names' = Names
    BY Zenon, <2>1 DEF Names, Listed, Entries
  <2>4. \A p \in Names : IsFlushed(p) => p.seq \in Nat /\ p.seq <= curWAL
    BY Zenon, <1>0, <2>1 DEF CSeqInv, SeqBelow, Opened
  <2>5. /\ \A p \in Names : IsFlushed(p) => p.seq \in Nat /\ p.seq < newSeq /\ p.seq <= newSeq
        /\ oldWAL < newSeq
    BY <2>2, <2>4
  <2> QED
    BY Zenon, <2>1, <2>2, <2>3, <2>5 DEF CSeqInv, SeqBelow, Opened, Live, Flushing
<1>11. CASE FlushCreate
  <2>1. /\ phase \in Live /\ fpc = "create" /\ fpc' = "swap"
        /\ UNCHANGED <<phase, segs, curWAL, walSeq, oldWAL, newSeq>>
    BY Zenon, <1>0, <1>11 DEF FlushCreate, FlushFrame, CPositionInv
  <2>2. newSeq = curWAL /\ newSeq \in Nat /\ oldWAL < newSeq /\ walSeq = curWAL /\ curWAL \in DOMAIN segs
    BY Zenon, <1>0, <2>1 DEF CSeqInv, EngineTypes, Opened
  <2>3. \A p \in Names : IsFlushed(p) => p.seq \in Nat /\ p.seq <= curWAL
    BY Zenon, <1>0, <2>1 DEF CSeqInv, SeqBelow, Opened
  <2>4. newSeq <= newSeq
    BY <2>2
  <2>5. \A p \in Names' : IsFlushed(p) => p.seq \in Nat /\ p.seq <= curWAL
    <3>1. FlushPath.seq = newSeq
      BY FlushedPath, Zenon DEF FlushPath
    <3> QED
      BY Zenon, <2>2, <2>3, <2>4, <3>1, NamesStep
  <2> QED
    BY Zenon, <2>1, <2>2, <2>5 DEF CSeqInv, SeqBelow, Opened, Live, Flushing
<1>12. CASE FlushSwap \/ FlushFinish \/ FlushCommit \/ FlushRegister \/ FlushCommitUnsynced
  <2>1. /\ UNCHANGED <<phase, segs, curWAL, walSeq, oldWAL, newSeq>>
        /\ fpc \notin {"create", "rotate"} /\ fpc # "idle"
        /\ fpc' \notin {"create", "rotate"} /\ (Flushing' => Flushing)
    BY Zenon, <1>12 DEF FlushSwap, FlushFinish, FlushCommit, FlushRegister, FlushCommitUnsynced,
       FlushReturns, FlushFrame, Flushing
  <2>2. \A p \in Names' : IsFlushed(p) => p \in Names /\ p.seq \in Nat
    BY Zenon, <1>1, <2>1 DEF FlushCreate
  <2>3. phase \in Live
    BY Zenon, <1>0, <2>1 DEF CPositionInv
  <2> QED
    BY Zenon, <1>0, <2>1, <2>2, <2>3 DEF CSeqInv, SeqBelow, Opened, Live
<1>13. CASE FlushUnlink
  <2>1. /\ fpc = "unlink" /\ fpc' = "register" /\ DOMAIN segs' = DOMAIN segs \ {oldWAL}
        /\ UNCHANGED <<phase, curWAL, walSeq, oldWAL, newSeq, sst, manifest>> /\ phase \in Live
    BY Zenon, <1>0, <1>13 DEF FlushUnlink, FlushFrame, Remove, Restrict, CPositionInv
  <2>2. Names' = Names /\ Flushing
    BY Zenon, <2>1 DEF Names, Listed, Entries, Flushing
  <2>3. curWAL \in Nat /\ oldWAL \in Nat /\ newSeq = curWAL /\ oldWAL < newSeq
    BY Zenon, <1>0, <2>2 DEF CSeqInv, EngineTypes
  <2>4. oldWAL # curWAL
    BY <2>3
  <2> QED
    BY Zenon, <1>0, <2>1, <2>2, <2>3, <2>4 DEF CSeqInv, SeqBelow, Opened, Live, Flushing
<1>14. CASE FlushFail
  <2>1. /\ UNCHANGED <<phase, segs, sst, manifest, curWAL, oldWAL, newSeq>>
        /\ fpc # "idle" /\ fpc' \notin {"create", "rotate"} /\ (Flushing' => fpc = "unlink")
        /\ walSeq' = IF fpc = "rotate" THEN walSeq - 1 ELSE walSeq
    BY Zenon, <1>14 DEF FlushFail, FlushCallFails, FlushReturns, FlushFrame, Flushing
  <2>2. phase \in Live /\ Names' = Names
    BY Zenon, <1>0, <2>1 DEF CPositionInv, Names, Listed, Entries
  <2>3. walSeq' = curWAL
    <3>1. CASE fpc = "rotate"
      <4>1. curWAL \in Nat /\ walSeq = curWAL + 1
        BY Zenon, <1>0, <3>1 DEF CSeqInv, EngineTypes
      <4> QED
        BY <2>1, <3>1, <4>1
    <3> QED
      BY Zenon, <1>0, <2>1, <2>2, <3>1 DEF CSeqInv, Opened
  <2> QED
    BY Zenon, <1>0, <2>1, <2>2, <2>3 DEF CSeqInv, SeqBelow, Opened, Live, Flushing
<1>15. CASE CompactorSteps
  <2>1. UNCHANGED <<phase, curWAL, walSeq, fpc, oldWAL, newSeq, segs>>
    BY Zenon, <1>15, CompactorFrames DEF CompactFrame
  <2> QED
    BY Zenon, <1>2, <2>1
<1>16. CASE ProcessEnds
  <2>1. phase \in Live \cup {"closed", "manifest"}
    BY Zenon, <1>16, CrashPhasesAssumption DEF ProcessEnds, NoCrashInReplay, Phases, OpenPhases, Live
  <2>2. \A p \in Names : IsFlushed(p) => \E s \in DOMAIN segs : p.seq <= s
    BY Zenon, <1>0, <2>1 DEF CSeqInv, SeqBelow, Opened, Live
  <2>3. phase' = "down" /\ fpc' = "idle" /\ segs' = segs
    BY Zenon, <1>16 DEF ProcessEnds, LoseProcess
  <2>4. \A p \in Names' : IsFlushed(p) => p \in Names /\ p.seq \in Nat
    BY Zenon, <1>1, <2>3 DEF FlushCreate
  <2> QED
    BY Zenon, <2>2, <2>3, <2>4 DEF CSeqInv, SeqBelow, Opened, Live, Flushing
<1> QED
  BY Zenon, <1>3, <1>4, <1>5, <1>6, <1>7, <1>8, <1>9, <1>10, <1>11, <1>12, <1>13, <1>14, <1>15,
     <1>16, CStepCases DEF FlushSignals, FlushStep

-----------------------------------------------------------------------------
(* The readers and the files being written *)

\* Only five steps open or close readers.
LEMMA ReaderCases ==
  ASSUME [CNext]_all
  PROVE  \/ UNCHANGED <<files, closedReaders>>
         \/ ReplayEdit /\ UNCHANGED cvars
         \/ FlushRegister /\ UNCHANGED <<compactSeq, compactor, sweeps, unmapped>>
         \/ MergeInstall \/ RetireForget \/ ProcessEnds
<1>1. CASE EngineStep /\ UNCHANGED cvars
  <2>2. CASE OpenBegin \/ OpenStep \/ FlusherReceive \/ FlushFail \/ FlushCommitUnsynced \/ WorkerExit("flusher")
    BY Zenon, <1>1, <2>2 DEF OpenBegin, OpenStep, RemoveOrphans, ReplaySegment, OpenActiveWAL,
       FlusherReceive, FlushFail, FlushCommitUnsynced, WorkerExit
  <2>3. CASE CloseWaited \/ CloseEnd \/ Tick \/ \E w \in Windows : CloseVisit(w)
    BY Zenon, <1>1, <2>3 DEF CloseWaited, CloseEnd, CloseVisit, Tick
  <2>4. CASE \E a \in Appenders : AppendStep(a) \/ \E r \in Records : AppendWAL(a, r)
    BY Zenon, <1>1, <2>4 DEF AppendStep, AppendRoute, AppendInsert, AppendSignal, AppendWAL
  <2> QED
    BY Zenon, <1>1, <2>2, <2>3, <2>4 DEF EngineStep
<1>2. CASE FlushSignals
  BY Zenon, <1>2 DEF FlushSignals, FlushStep, FlushBump, FlushRotate, FlushCreate, FlushSwap,
       FlushFinish, FlushCommit, FlushUnlink
<1>3. CASE CompactorSteps
  BY Zenon, <1>3 DEF CompactorSteps, CompactReceive, SweepCompaction, SweepRetention,
       MergeCreate, MergeFinish, CompactorCommit, CompactorRemove, SweepVisit, RetireWindow,
       CompactorFails, CompactorCommitUnsynced, CompactorRemoveFails
<1>4. CASE \E s \in Scanners : ScanOpen(s) \/ ScanEnd(s)
  BY Zenon, <1>4 DEF ScanOpen, ScanEnd, vars
<1>5. CASE CloseCalled \/ CompactorExit \/ UNCHANGED all
  BY Zenon, <1>5 DEF CloseCalled, CloseBegin, CompactorExit, WorkerExit, all, vars
<1> QED
  BY Zenon, <1>1, <1>2, <1>3, <1>4, <1>5 DEF CNext, MergeStep, CompactorSteps

\* A file is unlinked only as an input of the compactor.
LEMMA GoneStep ==
  ASSUME [CNext]_all, ~ProcessEnds
  PROVE  \/ gone' = gone
         \/ Removing /\ gone' \subseteq gone \cup cin /\ UNCHANGED <<files, closedReaders, manifest, sst>>
<1>1. CASE EngineStep /\ UNCHANGED cvars
  BY Zenon, <1>1
<1>2. CASE FlushSignals
  BY Zenon, <1>2 DEF FlushSignals
<1>3. CASE CompactorRemove
  BY Zenon, <1>3 DEF CompactorRemove, Removing
<1>4. CASE CompactorRemoveFails
  BY Zenon, <1>4 DEF CompactorRemoveFails, Removing
<1>5. CASE \/ CompactReceive \/ SweepCompaction \/ SweepRetention \/ MergeCreate \/ MergeFinish
           \/ CompactorCommit \/ MergeInstall \/ \E w \in Windows : SweepVisit(w) \/ RetireWindow(w)
  BY Zenon, <1>5 DEF CompactReceive, SweepCompaction, SweepRetention,
       MergeCreate, MergeFinish, CompactorCommit, MergeInstall, SweepVisit, RetireWindow
<1>6. CASE RetireForget \/ CompactorFails \/ CompactorCommitUnsynced
  BY Zenon, <1>6 DEF RetireForget, CompactorFails, CompactorCommitUnsynced
<1>7. CASE \E s \in Scanners : ScanOpen(s) \/ ScanEnd(s)
  BY Zenon, <1>7 DEF ScanOpen, ScanEnd
<1>8. CASE CloseCalled \/ CompactorExit \/ UNCHANGED all
  BY Zenon, <1>8 DEF CloseCalled, CompactorExit, all
<1> QED
  BY Zenon, <1>1, <1>2, <1>3, <1>4, <1>5, <1>6, <1>7, <1>8 DEF CNext, MergeStep

\* A reader is opened by recovery, or on the file that a flush or a merge has finished.
LEMMA NewReader ==
  ASSUME CInv, [CNext]_all, ~ProcessEnds
  PROVE  \/ OpenReaders' = OpenReaders
         \/ ReplayEdit /\ UNCHANGED cvars
         \/ FlushRegister /\ OpenReaders' = OpenReaders \cup {FlushPath}
         \/ MergeInstall /\ OpenReaders' = OpenReaders \cup {Output}
<1>0. gone \subseteq OpenReaders /\ (cpc # "idle" => cin \subseteq files) /\ (Merging => Output \notin OpenReaders)
  BY Zenon DEF CInv, CFilesInv, ReadersInv, PickedInv, MergedInv, FilesOf
<1>1. CASE UNCHANGED <<files, closedReaders>>
  BY Zenon, <1>1 DEF OpenReaders
<1>2. CASE FlushRegister /\ UNCHANGED <<compactSeq, compactor, sweeps, unmapped>>
  BY Zenon, <1>2 DEF FlushRegister, OpenReaders
<1>3. CASE MergeInstall
  <2>1. Output \notin gone /\ cin \subseteq files
    BY Zenon, <1>0, <1>3 DEF MergeInstall, Merging
  <2>2. files' = (files \ cin) \cup {Output} /\ closedReaders' = closedReaders \cup cin
    BY Zenon, <1>3, <2>1 DEF MergeInstall, ReplaceReaders
  <2> QED
    BY Zenon, <1>3, <2>1, <2>2 DEF OpenReaders
<1>4. CASE RetireForget
  <2>1. files' = files \ cin /\ closedReaders' = closedReaders \cup cin /\ cin \subseteq files
    BY Zenon, <1>0, <1>4 DEF RetireForget
  <2> QED
    BY Zenon, <2>1 DEF OpenReaders
<1> QED
  BY Zenon, <1>1, <1>2, <1>3, <1>4, ReaderCases

\* While no engine is open, its goroutines are idle.
LEMMA Recovering ==
  ASSUME CInv, phase \in {"down", "manifest", "segments"}
  PROVE  /\ fpc = "idle" /\ cpc = "idle" /\ sweep = {} /\ expired = {}
         /\ closedReaders = {} /\ gone = {}
<1>1. CPositionInv
  BY Zenon DEF CInv
<1>2. phase \notin Live /\ ~Opened /\ phase \notin {"running", "closing"}
  BY Zenon DEF Live, Opened
<1> QED
  BY Zenon, <1>1, <1>2 DEF CPositionInv

\* Replay opens complete files that the edit adds.
LEMMA ReplayOpens ==
  ASSUME CInv, ReplayEdit, NEW p \in files', p \notin files
  PROVE  /\ p \in DOMAIN sst /\ p.win \in Windows /\ editIdx \in DOMAIN manifest
         /\ \E fe \in manifest[editIdx].added : fe.path = p
<1>1. /\ \A fe \in manifest[editIdx].added : Readable(fe.path)
      /\ \E fe \in manifest[editIdx].added : fe.path = p
  BY Zenon DEF ReplayEdit
<1>2. editIdx \in DOMAIN manifest
  <2>1. /\ editIdx \in Nat \ {0} /\ editIdx <= Len(manifest)
        /\ manifest \in Seq(Range(manifest))
    BY Zenon DEF CInv, CTypeInv, EngineTypes, ReplayEdit
  <2> QED
    BY <2>1
<1> QED
  BY Zenon, <1>1, <1>2 DEF CInv, CManifestInv, Readable

\* Every step keeps the readers open on files that exist.
LEMMA ReadersStep ==
  ASSUME CInv, FreshOutput, [CNext]_all
  PROVE  ReadersInv'
<1>0. ReadersInv /\ PickedInv /\ FlushedInv /\ MergedInv /\ CTypeInv
  BY Zenon DEF CInv, CFilesInv
<1>1. CASE ProcessEnds
  BY Zenon, <1>1 DEF ProcessEnds, LoseProcess, ReadersInv, OpenReaders
<1>2. CASE ~ProcessEnds
  <2>1. OpenReaders \subseteq DOMAIN sst'
    BY Zenon, <1>2, ReadFileKept
  <2>2. gone' \subseteq OpenReaders
    BY Zenon, <1>0, <1>2, GoneStep DEF ReadersInv, PickedInv, FilesOf, OpenReaders, Removing
  <2>3. CASE UNCHANGED <<files, closedReaders>>
    BY Zenon, <1>0, <2>1, <2>2, <2>3 DEF ReadersInv, OpenReaders
  <2>4. CASE ReplayEdit /\ UNCHANGED cvars
    <3>1. closedReaders' = {} /\ gone' = {} /\ sst' = sst
      BY Zenon, <2>4, Recovering DEF ReplayEdit
    <3>2. \A p \in files' : p \in DOMAIN sst /\ p.win \in Windows
      BY Zenon, <1>0, <2>4, ReplayOpens DEF ReadersInv, OpenReaders
    <3> QED
      BY Zenon, <3>1, <3>2 DEF ReadersInv, OpenReaders
  <2>5. CASE FlushRegister /\ UNCHANGED <<compactSeq, compactor, sweeps, unmapped>>
    <3>1. /\ files' = files \cup {FlushPath} /\ sst' = sst /\ UNCHANGED <<closedReaders, gone>>
          /\ fpc = "register"
      BY Zenon, <2>5 DEF FlushRegister
    <3>2. FlushPath \in DOMAIN sst /\ FlushPath \notin OpenReaders
      BY Zenon, <1>0, <3>1 DEF FlushedInv, Flushing
    <3>3. FlushPath.win = fwin /\ fwin \in Windows
      BY Zenon, <1>0, <3>1, FlushedPath DEF FlushPath, CTypeInv, EngineTypes
    <3> QED
      BY Zenon, <1>0, <3>1, <3>2, <3>3 DEF ReadersInv, OpenReaders
  <2>6. CASE MergeInstall
    <3>1. /\ Output \in DOMAIN sst /\ Output \notin OpenReaders /\ Output \notin gone
          /\ cin \subseteq files /\ cwin \in Windows
      BY Zenon, <1>0, <2>6
         DEF MergeInstall, MergedInv, ReadersInv, PickedInv, Merging, FilesOf, CTypeInv, CompactorTypes
    <3>2. /\ files' = (files \ cin) \cup {Output} /\ closedReaders' = closedReaders \cup cin
          /\ UNCHANGED <<sst, gone>>
      BY Zenon, <2>6, <3>1 DEF MergeInstall, ReplaceReaders
    <3>3. Output.win = cwin
      BY Zenon, MergedPath DEF Output
    <3> QED
      BY Zenon, <1>0, <3>1, <3>2, <3>3 DEF ReadersInv, OpenReaders
  <2>7. CASE RetireForget
    <3>1. /\ files' = files \ cin /\ closedReaders' = closedReaders \cup cin /\ cin \subseteq files
          /\ UNCHANGED <<sst, gone>>
      BY Zenon, <1>0, <2>7 DEF RetireForget, PickedInv, FilesOf
    <3> QED
      BY Zenon, <1>0, <3>1 DEF ReadersInv, OpenReaders
  <2> QED
    BY Zenon, <1>2, <2>3, <2>4, <2>5, <2>6, <2>7, ReaderCases
<1> QED
  BY Zenon, <1>1, <1>2

\* The empty set has no elements to count.
LEMMA NoFiles == Cardinality({}) = 0
<1> DEFINE Counts(f) == f = [T \in SUBSET {} |-> IF T = {} THEN 0 ELSE 1 + f[T \ {CHOOSE x : x \in T}]]
           CS == CHOOSE CS : CS = [T \in SUBSET {} |-> IF T = {} THEN 0 ELSE 1 + CS[T \ {CHOOSE x : x \in T}]]
<1>1. Cardinality({}) = CS[{}]
  BY SMT DEF Cardinality
<1>2. \A f : Counts(f) => f[{}] = 0
  BY SMT
<1>3. \E f : Counts(f)
  <2> DEFINE f == [T \in SUBSET {} |-> 0]
  <2>1. Counts(f)
    BY SMT
  <2> QED
    BY <2>1, Zenon
<1>4. Counts(CS)
  BY <1>3, Zenon
<1> QED
  BY <1>1, <1>2, <1>4, Zenon

\* The compactor starts on a window with more than MaxFilesPerPartition files, so on some.
LEMMA PickedSome ==
  ASSUME CInv, phase # "down", NEW w \in Windows, MaybeCompact(w), expired = {}, cpc = "idle"
  PROVE  cpc' # "idle" => cin' # {} /\ cin' = FilesOf(w) /\ cwin' = w
<1>1. MaxFilesPerPartition[sessions] \in Nat
  BY Zenon, CompactionAssumption DEF CInv, CPositionInv
<1>2. ASSUME Cardinality(FilesOf(w)) > MaxFilesPerPartition[sessions] PROVE FilesOf(w) # {}
  <2>1. Cardinality({}) = 0
    BY NoFiles, Zenon
  <2> QED
    BY <1>1, <1>2, <2>1
<1> QED
  BY Zenon, <1>2 DEF MaybeCompact

\* Every step keeps the compactor on current files.
LEMMA PickedStep ==
  ASSUME CInv, [CNext]_all
  PROVE  PickedInv'
<1>0. ReadersInv /\ PickedInv /\ CTypeInv /\ CPositionInv
  BY Zenon DEF CInv, CFilesInv
<1>1. CASE CQuiet
  BY Zenon, <1>0, <1>1 DEF CQuiet, PickedInv, FilesOf
<1>2. CASE (OpenBegin \/ RemoveOrphans \/ ReplaySegment \/ OpenActiveWAL) /\ UNCHANGED cvars
  BY Zenon, <1>0, <1>2 DEF OpenBegin, RemoveOrphans, ReplaySegment, OpenActiveWAL, PickedInv, FilesOf
<1>3. CASE ReplayEdit /\ UNCHANGED cvars
  BY Zenon, <1>3, Recovering DEF ReplayEdit, PickedInv
<1>4. CASE FlushSignals \/ (FlushFail /\ UNCHANGED cvars) \/ (FlushCommitUnsynced /\ UNCHANGED cvars)
  <2>1. files \subseteq files' /\ UNCHANGED <<cpc, cwin, cin, expired>>
    BY Zenon, <1>4 DEF FlushSignals, FlushStep, FlushBump, FlushRotate, FlushCreate, FlushSwap,
       FlushFinish, FlushCommit, FlushUnlink, FlushRegister, FlushFail, FlushCommitUnsynced
  <2> QED
    BY Zenon, <1>0, <2>1 DEF PickedInv, FilesOf
<1>5. CASE CompactReceive
  <2>1. /\ expired = {} /\ cpc = "idle" /\ compactCh # << >> /\ MaybeCompact(Head(compactCh))
        /\ UNCHANGED <<files, expired>> /\ "compactor" \in workers
    BY Zenon, <1>5 DEF CompactReceive, AtSelect
  <2>2. phase # "down"
    BY Zenon, <1>0, <2>1 DEF CPositionInv
  <2>3. Head(compactCh) \in Windows
    BY <1>0, <2>1 DEF CTypeInv, CompactorTypes
  <2>4. cpc' # "idle" => cin' # {} /\ cin' = FilesOf(Head(compactCh)) /\ cwin' = Head(compactCh)
    BY Zenon, <2>1, <2>2, <2>3, PickedSome
  <2> QED
    BY Zenon, <2>1, <2>4 DEF PickedInv, FilesOf
<1>6. ASSUME NEW w \in Windows, SweepVisit(w) PROVE PickedInv'
  <2>1. cpc = "idle" /\ sweep # {} /\ MaybeCompact(w) /\ UNCHANGED <<files, expired>>
    BY Zenon, <1>6 DEF SweepVisit
  <2>2. phase # "down" /\ expired = {}
    BY Zenon, <1>0, <2>1 DEF CPositionInv
  <2>3. cpc' # "idle" => cin' # {} /\ cin' = FilesOf(w) /\ cwin' = w
    BY Zenon, <2>1, <2>2, PickedSome
  <2> QED
    BY Zenon, <2>1, <2>2, <2>3 DEF PickedInv, FilesOf
<1>7. CASE SweepRetention
  BY Zenon, <1>7 DEF SweepRetention, AtSelect, PickExpired, PickedInv
<1>8. CASE SweepCompaction
  BY Zenon, <1>0, <1>8 DEF SweepCompaction, PickedInv, FilesOf
<1>9. ASSUME NEW w \in Windows, RetireWindow(w) PROVE PickedInv'
  BY Zenon, <1>0, <1>9 DEF RetireWindow, PickedInv, FilesOf
<1>10. CASE MergeCreate \/ MergeFinish \/ CompactorCommit \/ CompactorRemove \/ CompactorRemoveFails
  <2>1. cpc # "idle" /\ UNCHANGED <<files, cin, cwin, expired>>
    BY Zenon, <1>10
       DEF MergeCreate, MergeFinish, CompactorCommit, CompactorRemove, CompactorRemoveFails
  <2> QED
    BY Zenon, <1>0, <2>1 DEF PickedInv, FilesOf
<1>11. CASE MergeInstall \/ RetireForget
  <2>1. cpc # "idle" /\ files \ cin \subseteq files' /\ cpc' = "idle" /\ expired' = expired
    BY Zenon, <1>11 DEF MergeInstall, ReplaceReaders, RetireForget, CompactReturns
  <2> QED
    BY Zenon, <1>0, <2>1 DEF PickedInv
<1>12. CASE CompactorFails \/ CompactorCommitUnsynced
  BY Zenon, <1>0, <1>12 DEF CompactorFails, CompactorCommitUnsynced, CompactReturns, PickedInv
<1>13. CASE ProcessEnds
  BY Zenon, <1>13 DEF ProcessEnds, CompactReturns, PickedInv
<1> QED
  BY Zenon, <1>1, <1>2, <1>3, <1>4, <1>5, <1>6, <1>7, <1>8, <1>9, <1>10, <1>11, <1>12, <1>13,
     CStepCases DEF CompactorSteps

\* Every step keeps the file of a flush to the flush.
LEMMA FlushedStep ==
  ASSUME CInv, FreshOutput, [CNext]_all
  PROVE  FlushedInv'
<1>0. ReadersInv /\ FlushedInv /\ CPositionInv
  BY Zenon DEF CInv, CFilesInv
<1>1. CASE fpc' \notin {"swap", "finish", "commit", "unlink", "register"}
  BY Zenon, <1>1 DEF FlushedInv, Flushing
<1>2. CASE UNCHANGED <<fpc, fwin, newSeq, sst, OpenReaders>>
  BY Zenon, <1>0, <1>2 DEF FlushedInv, Flushing, FlushPath
<1>3. CASE CQuiet
  BY Zenon, <1>1, <1>2, <1>3 DEF CQuiet, OpenReaders
<1>4. CASE (OpenBegin \/ ReplayEdit \/ RemoveOrphans \/ ReplaySegment \/ OpenActiveWAL) /\ UNCHANGED cvars
  <2>1. phase \in {"down", "manifest", "segments"} /\ fpc' = fpc
    BY Zenon, <1>4 DEF OpenBegin, ReplayEdit, RemoveOrphans, ReplaySegment, OpenActiveWAL
  <2>2. fpc' = "idle"
    BY Zenon, <2>1, Recovering
  <2> QED
    BY Zenon, <1>1, <2>2
<1>5. CASE FlushSignals
  <2>1. UNCHANGED unmapped
    BY Zenon, <1>5 DEF FlushSignals
  <2>2. CASE FlushBump \/ FlushRotate \/ FlushRegister
    BY Zenon, <1>1, <2>2 DEF FlushBump, FlushRotate, FlushRegister, FlushReturns
  <2>3. CASE FlushCreate
    <3>1. /\ fpc = "create" /\ fpc' = "swap" /\ UNCHANGED <<fwin, newSeq, files>>
          /\ FlushPath \in DOMAIN sst' /\ sst'[FlushPath] = [done |-> FALSE, recs |-> {}]
      BY Zenon, <2>3 DEF FlushCreate
    <3>2. FlushPath \notin OpenReaders
      BY Zenon, <1>0, <3>1, FlushFresh DEF Names, ReadersInv
    <3>3. FlushPath' = FlushPath /\ OpenReaders' = OpenReaders
      BY Zenon, <2>1, <3>1 DEF FlushPath, OpenReaders
    <3>4. ~sst'[FlushPath].done
      BY <3>1
    <3> QED
      BY Zenon, <3>1, <3>2, <3>3, <3>4 DEF FlushedInv, Flushing
  <2>4. CASE FlushSwap \/ FlushCommit \/ FlushUnlink
    <3>1. /\ UNCHANGED <<fwin, newSeq, files, sst>>
          /\ \/ fpc = "swap" /\ fpc' = "finish"
             \/ fpc = "commit" /\ fpc' = "unlink"
             \/ fpc = "unlink" /\ fpc' = "register"
      BY Zenon, <2>4 DEF FlushSwap, FlushCommit, FlushUnlink
    <3>2. FlushPath' = FlushPath /\ OpenReaders' = OpenReaders
      BY Zenon, <2>1, <3>1 DEF FlushPath, OpenReaders
    <3> QED
      BY Zenon, <1>0, <3>1, <3>2 DEF FlushedInv, Flushing
  <2>5. CASE FlushFinish
    <3>1. CASE snap = {}
      BY Zenon, <1>1, <2>5, <3>1 DEF FlushFinish
    <3>2. CASE snap # {}
      <4>1. /\ fpc = "finish" /\ fpc' = "commit" /\ UNCHANGED <<fwin, newSeq, files>>
            /\ sst' = [sst EXCEPT ![FlushPath] = [done |-> TRUE, recs |-> snap]]
        BY Zenon, <2>5, <3>2 DEF FlushFinish
      <4>2. FlushPath \in DOMAIN sst /\ FlushPath \notin OpenReaders
        BY Zenon, <1>0, <4>1 DEF FlushedInv, Flushing
      <4>3. FlushPath \in DOMAIN sst' /\ sst'[FlushPath] = [done |-> TRUE, recs |-> snap]
        BY Zenon, <4>1, <4>2
      <4>4. sst'[FlushPath].done
        BY <4>3
      <4>5. FlushPath' = FlushPath /\ OpenReaders' = OpenReaders
        BY Zenon, <2>1, <4>1 DEF FlushPath, OpenReaders
      <4> QED
        BY Zenon, <4>1, <4>2, <4>3, <4>4, <4>5 DEF FlushedInv, Flushing
    <3> QED
      BY Zenon, <3>1, <3>2
  <2> QED
    BY Zenon, <1>5, <2>2, <2>3, <2>4, <2>5 DEF FlushSignals, FlushStep
<1>6. CASE FlushFail /\ UNCHANGED cvars
  <2>1. /\ fpc' = "idle" \/ (fpc = "unlink" /\ fpc' = "register")
        /\ UNCHANGED <<fwin, newSeq, files, sst, closedReaders>>
    BY Zenon, <1>6 DEF FlushFail, FlushReturns
  <2>2. FlushPath' = FlushPath /\ OpenReaders' = OpenReaders
    BY Zenon, <2>1 DEF FlushPath, OpenReaders
  <2> QED
    BY Zenon, <1>0, <1>1, <2>1, <2>2 DEF FlushedInv, Flushing
<1>7. CASE FlushCommitUnsynced
  BY Zenon, <1>1, <1>7 DEF FlushCommitUnsynced, FlushReturns
<1>8. CASE CompactorSteps /\ ~ProcessEnds
  <2>1. UNCHANGED <<fpc, fwin, newSeq>>
    BY Zenon, <1>8, CompactorFrames DEF CompactFrame
  <2>2. CASE Flushing
    <3>1. FlushPath \in DOMAIN sst /\ FlushPath \notin OpenReaders /\ FlushPath # Output
      BY Zenon, <1>0, <2>2, DifferentNames DEF FlushedInv, FlushPath, Output
    <3>2. phase # "manifest"
      BY Zenon, <1>0, <2>2 DEF Flushing, CPositionInv, Live
    <3>3. ~FlushFinish /\ ~FlushRegister /\ ~ReplayEdit
      BY Zenon, <2>1, <3>2 DEF FlushFinish, FlushRegister, FlushReturns, ReplayEdit
    <3>4. FlushPath \in DOMAIN sst' /\ sst'[FlushPath] = sst[FlushPath]
      BY Zenon, <1>8, <3>1, <3>2, <3>3, FinishedFileKept
    <3>5. FlushPath \notin OpenReaders'
      BY Zenon, <1>8, <3>1, <3>3, NewReader
    <3>6. FlushPath' = FlushPath
      BY Zenon, <2>1 DEF FlushPath
    <3> QED
      BY Zenon, <1>0, <2>1, <3>4, <3>5, <3>6 DEF FlushedInv, Flushing
  <2> QED
    BY Zenon, <1>1, <2>1, <2>2 DEF Flushing
<1>9. CASE ProcessEnds
  BY Zenon, <1>1, <1>9 DEF ProcessEnds, LoseProcess
<1> QED
  BY Zenon, <1>3, <1>4, <1>5, <1>6, <1>7, <1>8, <1>9, CStepCases

\* Every step keeps the output of a merge to the merge.
LEMMA MergedStep ==
  ASSUME CInv, FreshOutput, [CNext]_all
  PROVE  MergedInv'
<1>0. ReadersInv /\ MergedInv /\ CPositionInv
  BY Zenon DEF CInv, CFilesInv
<1>1. CASE cpc' \notin {"finish", "commit", "remove", "install"}
  BY Zenon, <1>1 DEF MergedInv, Merging
<1>2. CASE UNCHANGED <<cpc, cwin, compactSeq, crecs, sst, OpenReaders>>
  BY Zenon, <1>0, <1>2 DEF MergedInv, Merging, Output
<1>3. CASE CQuiet
  BY Zenon, <1>2, <1>3 DEF CQuiet, OpenReaders
<1>4. CASE (OpenBegin \/ ReplayEdit \/ RemoveOrphans \/ ReplaySegment \/ OpenActiveWAL) /\ UNCHANGED cvars
  <2>1. phase \in {"down", "manifest", "segments"} /\ cpc' = cpc
    BY Zenon, <1>4 DEF OpenBegin, ReplayEdit, RemoveOrphans, ReplaySegment, OpenActiveWAL
  <2>2. cpc' = "idle"
    BY Zenon, <2>1, Recovering
  <2> QED
    BY Zenon, <1>1, <2>2
<1>5. CASE /\ FlushSignals \/ (FlushFail /\ UNCHANGED cvars) \/ (FlushCommitUnsynced /\ UNCHANGED cvars)
           /\ ~ProcessEnds
  <2>1. UNCHANGED <<compactSeq, cpc, cwin, crecs>>
    BY Zenon, <1>5 DEF FlushSignals
  <2>2. CASE Merging
    <3>1. Output \in DOMAIN sst /\ Output \notin OpenReaders /\ FlushPath # Output
      BY Zenon, <1>0, <2>2, DifferentNames DEF MergedInv, FlushPath, Output
    <3>2. phase # "manifest"
      BY Zenon, <2>2, Recovering DEF Merging
    <3>3. ~MergeFinish /\ ~MergeInstall /\ ~ReplayEdit
      BY Zenon, <2>1, <3>2 DEF MergeFinish, MergeInstall, CompactReturns, ReplayEdit
    <3>4. Output \in DOMAIN sst' /\ sst'[Output] = sst[Output]
      BY Zenon, <1>5, <3>1, <3>2, <3>3, FinishedFileKept
    <3>5. Output \notin OpenReaders'
      BY Zenon, <1>5, <3>1, <3>3, NewReader
    <3>6. Output' = Output
      BY Zenon, <2>1 DEF Output
    <3> QED
      BY Zenon, <1>0, <2>1, <3>4, <3>5, <3>6 DEF MergedInv, Merging
  <2> QED
    BY Zenon, <1>1, <2>1, <2>2 DEF Merging
<1>6. CASE MergeCreate
  <2> DEFINE out == [win |-> cwin, compact |-> NextCompactSeq]
  <2>1. /\ cpc = "create" /\ cpc' = "finish" /\ compactSeq' = NextCompactSeq
        /\ UNCHANGED <<cwin, files, closedReaders>>
        /\ out \in DOMAIN sst' /\ sst'[out] = [done |-> FALSE, recs |-> {}]
    BY Zenon, <1>6 DEF MergeCreate
  <2>2. out \notin OpenReaders
    BY Zenon, <1>0, <2>1 DEF FreshOutput, ReadersInv
  <2>3. Output' = out /\ OpenReaders' = OpenReaders
    BY Zenon, <2>1 DEF Output, OpenReaders
  <2>4. ~sst'[out].done
    BY <2>1
  <2> QED
    BY Zenon, <2>1, <2>2, <2>3, <2>4 DEF MergedInv, Merging
<1>7. CASE MergeFinish
  <2>1. /\ cpc = "finish" /\ cpc' = "commit" /\ UNCHANGED <<cwin, compactSeq, crecs, files, closedReaders>>
        /\ sst' = [sst EXCEPT ![Output] = [done |-> TRUE, recs |-> crecs]]
    BY Zenon, <1>7 DEF MergeFinish
  <2>2. Output \in DOMAIN sst /\ Output \notin OpenReaders
    BY Zenon, <1>0, <2>1 DEF MergedInv, Merging
  <2>3. Output \in DOMAIN sst' /\ sst'[Output] = [done |-> TRUE, recs |-> crecs]
    BY Zenon, <2>1, <2>2
  <2>4. Output' = Output /\ OpenReaders' = OpenReaders
    BY Zenon, <2>1 DEF Output, OpenReaders
  <2> QED
    BY Zenon, <2>1, <2>2, <2>3, <2>4 DEF MergedInv, Merging
<1>8. CASE CompactorCommit \/ CompactorRemove \/ CompactorRemoveFails
  <2>1. /\ UNCHANGED <<cwin, compactSeq, crecs, files, closedReaders, sst>>
        /\ \/ cpc = "commit" /\ cpc' = "remove"
           \/ cpc = "remove" /\ cpc' = "install"
           \/ cpc' \in {"unlink", "forget"}
    BY Zenon, <1>8 DEF CompactorCommit, CompactorRemove, CompactorRemoveFails
  <2>2. Output' = Output /\ OpenReaders' = OpenReaders
    BY Zenon, <2>1 DEF Output, OpenReaders
  <2> QED
    BY Zenon, <1>0, <1>1, <2>1, <2>2 DEF MergedInv, Merging
<1>9. CASE MergeInstall \/ RetireForget \/ CompactorFails \/ CompactorCommitUnsynced \/ ProcessEnds
  BY Zenon, <1>1, <1>9
     DEF MergeInstall, RetireForget, CompactorFails, CompactorCommitUnsynced, ProcessEnds, CompactReturns
<1>10. CASE CompactReceive \/ \E w \in Windows : SweepVisit(w) \/ RetireWindow(w)
  <2>1. cpc' \in {"idle", "create", "retire"}
    BY Zenon, <1>10 DEF CompactReceive, SweepVisit, RetireWindow, MaybeCompact, AtSelect
  <2> QED
    BY Zenon, <1>1, <2>1
<1>11. CASE SweepCompaction \/ SweepRetention
  BY Zenon, <1>2, <1>11 DEF SweepCompaction, SweepRetention, OpenReaders
<1> QED
  BY Zenon, <1>3, <1>4, <1>5, <1>6, <1>7, <1>8, <1>9, <1>10, <1>11, CStepCases DEF CompactorSteps

\* Every file holds records.
LEMMA SstTypesStep ==
  ASSUME CInv, [CNext]_all
  PROVE  \A p \in DOMAIN sst' : sst'[p] \in SSTables
<1>0. /\ \A p \in DOMAIN sst : sst[p] \in SSTables
      /\ snap \subseteq Records /\ crecs \subseteq Records
  BY Zenon DEF CInv, CTypeInv, EngineTypes, CompactorTypes
<1>1. ASSUME NEW S \in SUBSET Records, NEW b \in BOOLEAN PROVE [done |-> b, recs |-> S] \in SSTables
  BY SMT DEF SSTables
<1>2. [done |-> FALSE, recs |-> {}] \in SSTables
  BY Zenon, <1>1
<1>3. CASE sst' = sst
  BY Zenon, <1>0, <1>3
<1>4. CASE RemoveOrphans \/ ProcessEnds
  BY ZenonT(30), <1>0, <1>4 DEF RemoveOrphans, ProcessEnds, Restrict
<1>5. CASE FlushCreate
  BY Zenon, <1>0, <1>2, <1>5 DEF FlushCreate
<1>6. CASE MergeCreate
  BY Zenon, <1>0, <1>2, <1>6 DEF MergeCreate
<1>7. CASE FlushFinish
  <2>1. [done |-> TRUE, recs |-> snap] \in SSTables
    BY Zenon, <1>0, <1>1
  <2>2. CASE snap = {}
    BY Zenon, <1>0, <1>7, <2>2 DEF FlushFinish, Remove, Restrict
  <2>3. CASE snap # {}
    BY Zenon, <1>0, <1>7, <2>1, <2>3 DEF FlushFinish
  <2> QED
    BY Zenon, <2>2, <2>3
<1>8. CASE MergeFinish
  <2>1. [done |-> TRUE, recs |-> crecs] \in SSTables
    BY Zenon, <1>0, <1>1
  <2> QED
    BY Zenon, <1>0, <1>8, <2>1 DEF MergeFinish
<1> QED
  BY Zenon, <1>3, <1>4, <1>5, <1>6, <1>7, <1>8, SstCases

\* What any files hold is records.
LEMMA RecordsInFiles ==
  ASSUME CInv, NEW F
  PROVE  RecordsIn(F) \subseteq Records
<1>1. \A p \in DOMAIN sst : sst[p].recs \subseteq Records
  BY SMT DEF CInv, CTypeInv, SSTables
<1> QED
  BY Zenon, <1>1 DEF RecordsIn

\* Every step keeps the compactor's types.
LEMMA CompactorTypesStep ==
  ASSUME CInv, [CNext]_all
  PROVE  CompactorTypes'
<1>0. CompactorTypes /\ EngineTypes
  BY Zenon DEF CInv, CTypeInv
<1>1. CASE UNCHANGED <<compactSeq, compactCh, cpc, cwin, crecs, sweep>>
  BY Zenon, <1>0, <1>1 DEF CompactorTypes
<1>2. CASE FlushSignals
  <2>1. UNCHANGED <<compactSeq, cpc, cwin, crecs, sweep>>
    BY Zenon, <1>2 DEF FlushSignals
  <2>2. CASE fpc = "register"
    <3>1. compactCh' = IF Len(compactCh) < CompactChCap THEN Append(compactCh, fwin) ELSE compactCh
      BY Zenon, <1>2, <2>2 DEF FlushSignals, SendCompact
    <3>2. fwin \in Windows /\ compactCh \in Seq(Windows) /\ Len(compactCh) <= CompactChCap /\ CompactChCap \in Nat
      BY Zenon, <1>0, <2>2, CompactionAssumption DEF EngineTypes, CompactorTypes
    <3>3. compactCh' \in Seq(Windows) /\ Len(compactCh') <= CompactChCap
      BY <3>1, <3>2
    <3> QED
      BY Zenon, <1>0, <2>1, <3>3 DEF CompactorTypes
  <2>3. CASE fpc # "register"
    BY Zenon, <1>1, <1>2, <2>1, <2>3 DEF FlushSignals
  <2> QED
    BY Zenon, <2>2, <2>3
<1>3. ASSUME NEW w \in Windows, MaybeCompact(w)
      PROVE  cpc' \in CompactSteps /\ (cpc' # "idle" => cwin' \in Windows) /\ crecs' = crecs
  <2>1. (cpc' = "create" /\ cwin' = w /\ crecs' = crecs) \/ UNCHANGED compactor
    BY Zenon, <1>3 DEF MaybeCompact
  <2> QED
    BY Zenon, <1>0, <2>1 DEF CompactorTypes, CompactSteps
<1>4. CASE CompactReceive
  <2>1. /\ compactCh # << >> /\ compactCh' = Tail(compactCh) /\ MaybeCompact(Head(compactCh))
        /\ UNCHANGED <<compactSeq, sweep>>
    BY Zenon, <1>4 DEF CompactReceive
  <2>2. compactCh \in Seq(Windows) /\ Len(compactCh) <= CompactChCap /\ CompactChCap \in Nat
    BY Zenon, <1>0, CompactionAssumption DEF CompactorTypes
  <2>3. Head(compactCh) \in Windows /\ compactCh' \in Seq(Windows) /\ Len(compactCh') <= CompactChCap
    BY <2>1, <2>2
  <2> QED
    BY Zenon, <1>0, <1>3, <2>1, <2>3 DEF CompactorTypes
<1>5. CASE SweepCompaction \/ SweepRetention
  <2>1. UNCHANGED <<compactSeq, compactCh, cpc, cwin, crecs>>
    BY Zenon, <1>5 DEF SweepCompaction, SweepRetention
  <2>2. sweep' \subseteq Windows
    <3>1. CASE SweepCompaction
      BY Zenon, <3>1 DEF SweepCompaction, SweepWindows, CInv, CFilesInv, ReadersInv
    <3>2. CASE SweepRetention
      BY Zenon, <1>0, <3>2 DEF SweepRetention, CompactorTypes
    <3> QED
      BY Zenon, <1>5, <3>1, <3>2
  <2> QED
    BY Zenon, <1>0, <2>1, <2>2 DEF CompactorTypes
<1>6. CASE \E w \in Windows : SweepVisit(w)
  <2>1. PICK w \in Windows : SweepVisit(w)
    BY Zenon, <1>6
  <2>2. UNCHANGED <<compactSeq, compactCh>> /\ MaybeCompact(w) /\ sweep' \subseteq sweep
    BY Zenon, <2>1 DEF SweepVisit
  <2> QED
    BY Zenon, <1>0, <1>3, <2>2 DEF CompactorTypes
<1>7. CASE \E w \in Windows : RetireWindow(w)
  <2>1. PICK w \in Windows : RetireWindow(w)
    BY Zenon, <1>7
  <2>2. UNCHANGED <<compactSeq, compactCh, sweep, crecs>> /\ cpc' = "retire" /\ cwin' = w
    BY Zenon, <2>1 DEF RetireWindow
  <2> QED
    BY Zenon, <1>0, <2>2 DEF CompactorTypes, CompactSteps
<1>8. CASE MergeCreate
  <2>1. /\ UNCHANGED <<cwin, compactCh, sweep>> /\ cpc = "create" /\ cpc' = "finish"
        /\ compactSeq' = compactSeq + 1 /\ crecs' = RecordsIn(cin)
    BY Zenon, <1>8 DEF MergeCreate, NextCompactSeq
  <2>2. compactSeq' \in Nat
    BY <1>0, <2>1 DEF CompactorTypes
  <2> QED
    BY Zenon, <1>0, <2>1, <2>2, RecordsInFiles DEF CompactorTypes, CompactSteps
<1>9. CASE MergeFinish \/ CompactorCommit \/ CompactorRemove \/ CompactorRemoveFails
  <2>1. UNCHANGED <<cwin, compactCh, sweep, compactSeq, crecs>>
    BY Zenon, <1>9 DEF MergeFinish, CompactorCommit, CompactorRemove, CompactorRemoveFails
  <2>2. cpc \in {"finish", "commit", "retire", "remove", "unlink"}
    BY Zenon, <1>9 DEF MergeFinish, CompactorCommit, CompactorRemove, CompactorRemoveFails
  <2>3. cpc' \in {"commit", "remove", "unlink", "install", "forget"}
    BY Zenon, <1>9 DEF MergeFinish, CompactorCommit, CompactorRemove, CompactorRemoveFails
  <2>4. cwin \in Windows
    BY Zenon, <1>0, <2>2 DEF CompactorTypes
  <2> QED
    BY Zenon, <1>0, <2>1, <2>3, <2>4 DEF CompactorTypes, CompactSteps
<1>10. CASE MergeInstall \/ RetireForget \/ CompactorCommitUnsynced
  <2>1. UNCHANGED <<compactCh, sweep, compactSeq>> /\ cpc' = "idle" /\ crecs' = {}
    BY Zenon, <1>10 DEF MergeInstall, RetireForget, CompactorCommitUnsynced, CompactReturns
  <2> QED
    BY Zenon, <1>0, <2>1 DEF CompactorTypes, CompactSteps
<1>11. CASE CompactorFails
  <2>1. /\ UNCHANGED <<compactCh, sweep>> /\ cpc' = "idle" /\ crecs' = {}
        /\ compactSeq' = IF cpc = "create" THEN compactSeq + 1 ELSE compactSeq
    BY Zenon, <1>11 DEF CompactorFails, CompactReturns
  <2>2. compactSeq' \in Nat
    BY <1>0, <2>1 DEF CompactorTypes
  <2> QED
    BY Zenon, <1>0, <2>1, <2>2 DEF CompactorTypes, CompactSteps
<1>12. CASE ProcessEnds
  <2>1. compactSeq' = 0 /\ compactCh' = << >> /\ cpc' = "idle" /\ crecs' = {} /\ sweep' = {}
    BY Zenon, <1>12 DEF ProcessEnds, CompactReturns
  <2>2. 0 \in Nat /\ << >> \in Seq(Windows) /\ Len(<< >>) <= CompactChCap
    BY CompactionAssumption
  <2> QED
    BY Zenon, <2>1, <2>2 DEF CompactorTypes, CompactSteps
<1>13. CASE CQuiet
  BY Zenon, <1>1, <1>13 DEF CQuiet
<1> QED
  BY Zenon, <1>1, <1>2, <1>4, <1>5, <1>6, <1>7, <1>8, <1>9, <1>10, <1>11, <1>12, <1>13, CStepCases
     DEF CompactorSteps

\* Every step keeps the types.
LEMMA CTypesStep ==
  ASSUME CInv, [CNext]_all
  PROVE  CTypeInv'
<1>0. manifest \in Seq(Range(manifest))
  BY Zenon DEF CInv, CTypeInv
<1>1. manifest' \in Seq(Range(manifest'))
  <2>1. CASE manifest' = manifest
    BY Zenon, <1>0, <2>1
  <2>2. CASE \E e : manifest' = Append(manifest, e)
    BY Zenon, <1>0, <2>2, EditAppended
  <2> QED
    BY Zenon, <2>1, <2>2, ManifestCases, FlushEdit, CompactorEdit
<1> QED
  BY Zenon, <1>1, EngineTypesStep, SstTypesStep, CompactorTypesStep DEF CTypeInv

-----------------------------------------------------------------------------
(* What the files hold *)

\* The clock does not go back, so what has expired stays expired.
LEMMA ExpiredStays ==
  ASSUME CInv, [CNext]_all
  PROVE  Expired \subseteq Expired'
<1>1. now' = now \/ now' = now + 1
  <2>1. CASE EngineStep /\ UNCHANGED cvars
    <3>2. CASE OpenBegin \/ OpenStep \/ FlusherReceive \/ FlushFail \/ FlushCommitUnsynced \/ WorkerExit("flusher")
      BY Zenon, <3>2 DEF OpenBegin, OpenStep, ReplayEdit, RemoveOrphans, ReplaySegment, OpenActiveWAL,
         FlusherReceive, FlushFail, FlushCommitUnsynced, WorkerExit, FlushFrame
    <3>3. CASE CloseWaited \/ CloseEnd \/ Tick \/ \E w \in Windows : CloseVisit(w)
      BY Zenon, <3>3 DEF CloseWaited, CloseEnd, CloseVisit, Tick
    <3>4. CASE \E a \in Appenders : AppendStep(a) \/ \E r \in Records : AppendWAL(a, r)
      BY Zenon, <3>4 DEF AppendStep, AppendRoute, AppendInsert, AppendSignal, AppendWAL
    <3> QED
      BY Zenon, <2>1, <3>2, <3>3, <3>4 DEF EngineStep
  <2>2. CASE FlushSignals
    BY Zenon, <2>2 DEF FlushSignals, FlushStep, FlushBump, FlushRotate, FlushCreate, FlushSwap,
       FlushFinish, FlushCommit, FlushUnlink, FlushRegister, FlushFrame
  <2>3. CASE CompactorSteps
    BY Zenon, <2>3, CompactorFrames DEF CompactFrame
  <2>4. CASE \E s \in Scanners : ScanOpen(s) \/ ScanEnd(s)
    BY Zenon, <2>4 DEF ScanOpen, ScanEnd, vars
  <2>5. CASE CloseCalled \/ CompactorExit \/ ProcessEnds \/ UNCHANGED all
    BY Zenon, <2>5 DEF CloseCalled, CloseBegin, CompactorExit, WorkerExit, ProcessEnds, LoseProcess, all, vars
  <2> QED
    BY Zenon, <2>1, <2>2, <2>3, <2>4, <2>5 DEF CNext, MergeStep, CompactorSteps
<1>2. now \in Nat
  BY Zenon DEF CInv, CTypeInv, EngineTypes
<1>3. ASSUME NEW r \in Records, TsOf[r] < now - RetentionDuration PROVE TsOf[r] < now' - RetentionDuration
  <2>1. TsOf[r] \in Int /\ RetentionDuration \in Nat
    BY TsOfAssumption, CompactionAssumption, Zenon
  <2> QED
    BY <1>1, <1>2, <1>3, <2>1
<1> QED
  BY Zenon, <1>3 DEF Expired, Horizon

\* Where the compactor's inputs and its candidates come from.
LEMMA CompactorMoves ==
  ASSUME CInv, [CNext]_all, ~ProcessEnds
  PROVE  /\ \/ expired' \subseteq expired
            \/ expired' = PickExpired /\ sst' = sst
         /\ cpc' \in {"finish", "commit"} =>
               \/ MergeCreate
               \/ cpc \in {"finish", "commit"} /\ UNCHANGED <<cin, crecs>>
         /\ cpc' = "retire" => \/ cpc = "retire" /\ cin' = cin
                               \/ cin' \subseteq expired /\ sst' = sst
         /\ Removing' => CompactorCommit \/ (Removing /\ cin' = cin)
<1>1. CASE UNCHANGED <<cpc, cin, crecs, expired>>
  BY Zenon, <1>1 DEF Removing
<1>2. CASE CQuiet \/ FlushSignals
  BY Zenon, <1>1, <1>2 DEF CQuiet, FlushSignals
<1>3. CASE SweepCompaction \/ SweepRetention
  BY Zenon, <1>3 DEF SweepCompaction, SweepRetention, Removing
<1>4. CASE CompactReceive \/ \E w \in Windows : SweepVisit(w)
  <2>1. expired' = expired /\ (cpc' = "create" \/ UNCHANGED compactor)
    BY Zenon, <1>4 DEF CompactReceive, SweepVisit, MaybeCompact
  <2> QED
    BY Zenon, <1>1, <2>1 DEF Removing
<1>5. CASE \E w \in Windows : RetireWindow(w)
  <2>1. cpc' = "retire" /\ cin' \subseteq expired /\ expired' \subseteq expired /\ sst' = sst
    BY Zenon, <1>5 DEF RetireWindow
  <2> QED
    BY Zenon, <2>1 DEF Removing
<1>6. CASE MergeCreate \/ MergeFinish
  BY Zenon, <1>6 DEF MergeCreate, MergeFinish, Removing
<1>7. CASE CompactorCommit \/ CompactorRemove \/ CompactorRemoveFails
  <2>1. expired' = expired /\ cpc' \in {"remove", "unlink", "install", "forget"}
    BY Zenon, <1>7 DEF CompactorCommit, CompactorRemove, CompactorRemoveFails
  <2>2. CompactorCommit \/ cpc' \in {"install", "forget"}
    BY Zenon, <1>7 DEF CompactorRemove, CompactorRemoveFails
  <2> QED
    BY Zenon, <2>1, <2>2 DEF Removing
<1>8. CASE MergeInstall \/ RetireForget \/ CompactorFails \/ CompactorCommitUnsynced
  <2>1. expired' = expired /\ cpc' = "idle"
    BY Zenon, <1>8 DEF MergeInstall, RetireForget, CompactorFails, CompactorCommitUnsynced, CompactReturns
  <2> QED
    BY Zenon, <2>1 DEF Removing
<1> QED
  BY Zenon, <1>1, <1>2, <1>3, <1>4, <1>5, <1>6, <1>7, <1>8, CStepCases DEF CompactorSteps

\* Every step keeps true what the compactor knows of its inputs.
LEMMA CDataStep ==
  ASSUME CInv, FreshOutput, [CNext]_all
  PROVE  CDataInv'
<1>0. CDataInv /\ PickedInv /\ ReadersInv
  BY Zenon DEF CInv, CFilesInv
<1>1. CASE ProcessEnds
  BY Zenon, <1>1 DEF ProcessEnds, CompactReturns, CDataInv
<1>2. CASE ~ProcessEnds
  <2>1. \A p \in files : sst'[p] = sst[p]
    BY Zenon, <1>2, ReadFileKept DEF OpenReaders
  <2>2. (cpc # "idle" => cin \subseteq files) /\ expired \subseteq files
    BY Zenon, <1>0 DEF PickedInv, FilesOf
  <2>3. \A p \in expired' : sst'[p].recs \subseteq Expired'
    <3>1. CASE expired' \subseteq expired
      BY Zenon, <1>0, <2>1, <2>2, <3>1, ExpiredStays DEF CDataInv
    <3>2. CASE expired' = PickExpired /\ sst' = sst
      BY Zenon, <3>2, ExpiredStays DEF PickExpired
    <3> QED
      BY Zenon, <1>2, <3>1, <3>2, CompactorMoves
  <2>4. cpc' \in {"finish", "commit"} => \A p \in cin' : sst'[p].recs \subseteq crecs'
    <3>1. CASE MergeCreate
      <4>1. cpc = "create" /\ cin' = cin /\ crecs' = RecordsIn(cin)
        BY Zenon, <3>1 DEF MergeCreate
      <4>2. cin \subseteq files /\ files \subseteq DOMAIN sst
        BY Zenon, <1>0, <2>2, <4>1 DEF ReadersInv, OpenReaders
      <4>3. \A p \in cin : sst[p].recs \subseteq RecordsIn(cin)
        BY Zenon, <4>2 DEF RecordsIn
      <4> QED
        BY Zenon, <2>1, <4>1, <4>2, <4>3
    <3>2. CASE cpc \in {"finish", "commit"} /\ UNCHANGED <<cin, crecs>>
      BY Zenon, <1>0, <2>1, <2>2, <3>2 DEF CDataInv
    <3> QED
      BY Zenon, <1>2, <3>1, <3>2, CompactorMoves
  <2>5. cpc' = "retire" => \A p \in cin' : sst'[p].recs \subseteq Expired'
    <3>1. CASE cpc = "retire" /\ cin' = cin
      BY Zenon, <1>0, <2>1, <2>2, <3>1, ExpiredStays DEF CDataInv
    <3>2. CASE cin' \subseteq expired /\ sst' = sst
      BY Zenon, <1>0, <3>2, ExpiredStays DEF CDataInv
    <3> QED
      BY Zenon, <1>2, <3>1, <3>2, CompactorMoves
  <2> QED
    BY Zenon, <2>3, <2>4, <2>5 DEF CDataInv
<1> QED
  BY Zenon, <1>1, <1>2

\* Every step keeps what the scans' files hold.
LEMMA CScanStep ==
  ASSUME CInv, FreshOutput, [CNext]_all
  PROVE  CScanInv'
<1>0. CScanInv /\ HeldInv /\ ReadersInv
  BY Zenon DEF CInv, CFilesInv
<1>1. CASE ProcessEnds
  <2>1. held' = [s \in Scanners |-> {}] /\ want' = [s \in Scanners |-> {}]
    BY Zenon, <1>1 DEF ProcessEnds
  <2> QED
    BY Zenon, <2>1 DEF CScanInv, ScanIntact, RecordsIn
<1>2. CASE \E s \in Scanners : ScanOpen(s)
  <2>1. PICK s \in Scanners : ScanOpen(s)
    BY Zenon, <1>2
  <2>2. sst' = sst /\ held' = [held EXCEPT ![s] = files] /\ want' = [want EXCEPT ![s] = InFiles]
    BY Zenon, <2>1 DEF ScanOpen, vars
  <2>3. InFiles = RecordsIn(files) /\ InFiles \subseteq Records
    BY Zenon, RecordsInFiles DEF InFiles, RecordsIn
  <2>5. want' = [t \in Scanners |-> IF t = s THEN InFiles ELSE want[t]]
    BY Zenon, <1>0, <2>2 DEF CScanInv
  <2>6. held' = [t \in Scanners |-> IF t = s THEN files ELSE held[t]]
    BY Zenon, <1>0, <2>2 DEF HeldInv
  <2>7. ASSUME NEW t \in Scanners PROVE UNION {sst'[p].recs : p \in held'[t] \cap DOMAIN sst'} = want'[t]
    <3>1. RecordsIn(held'[t]) = want'[t]
      BY Zenon, <1>0, <2>3, <2>5, <2>6 DEF CScanInv, ScanIntact
    <3> QED
      BY Zenon, <2>2, <3>1 DEF RecordsIn
  <2> QED
    BY Zenon, <1>0, <2>3, <2>5, <2>7 DEF CScanInv, ScanIntact, RecordsIn
<1>3. CASE \E s \in Scanners : ScanEnd(s)
  <2>1. PICK s \in Scanners : ScanEnd(s)
    BY Zenon, <1>3
  <2>2. sst' = sst /\ held' = [held EXCEPT ![s] = {}] /\ want' = [want EXCEPT ![s] = {}]
    BY Zenon, <2>1 DEF ScanEnd, vars
  <2>5. want' = [t \in Scanners |-> IF t = s THEN {} ELSE want[t]]
    BY Zenon, <1>0, <2>2 DEF CScanInv
  <2>6. held' = [t \in Scanners |-> IF t = s THEN {} ELSE held[t]]
    BY Zenon, <1>0, <2>2 DEF HeldInv
  <2>7. ASSUME NEW t \in Scanners PROVE UNION {sst'[p].recs : p \in held'[t] \cap DOMAIN sst'} = want'[t]
    <3>1. RecordsIn({}) = {}
      BY Zenon DEF RecordsIn
    <3>2. RecordsIn(held'[t]) = want'[t]
      BY Zenon, <1>0, <2>5, <2>6, <3>1 DEF CScanInv, ScanIntact
    <3> QED
      BY Zenon, <2>2, <3>2 DEF RecordsIn
  <2> QED
    BY Zenon, <1>0, <2>5, <2>7 DEF CScanInv, ScanIntact, RecordsIn
<1>4. CASE ~ProcessEnds /\ UNCHANGED <<held, want>>
  <2>1. ASSUME NEW s \in Scanners, NEW p \in held[s] PROVE p \in DOMAIN sst /\ p \in DOMAIN sst' /\ sst'[p] = sst[p]
    <3>1. p \in OpenReaders
      BY Zenon, <1>0 DEF HeldInv, HeldReadersOpen, OpenReaders
    <3> QED
      BY Zenon, <1>0, <1>4, <3>1, ReadFileKept DEF ReadersInv
  <2>2. \A s \in Scanners : UNION {sst'[p].recs : p \in held[s] \cap DOMAIN sst'} = UNION {sst[p].recs : p \in held[s] \cap DOMAIN sst}
    BY Zenon, <2>1
  <2>3. ScanIntact'
    BY Zenon, <1>0, <1>4, <2>2 DEF CScanInv, ScanIntact, RecordsIn
  <2> QED
    BY Zenon, <1>0, <1>4, <2>3 DEF CScanInv
<1>5. ProcessEnds \/ UNCHANGED <<held, want>> \/ \E s \in Scanners : ScanOpen(s) \/ ScanEnd(s)
  <2>1. CASE EngineStep /\ UNCHANGED cvars
    BY Zenon, <2>1
  <2>2. CASE FlushSignals \/ CloseCalled \/ CompactorExit \/ UNCHANGED all
    BY Zenon, <2>2 DEF FlushSignals, CloseCalled, CompactorExit, all
  <2>3. CASE CompactorSteps
    BY Zenon, <2>3, CompactorFrames DEF CompactFrame
  <2> QED
    BY Zenon, <2>1, <2>2, <2>3 DEF CNext, MergeStep, CompactorSteps
<1> QED
  BY Zenon, <1>1, <1>2, <1>3, <1>4, <1>5

\* A file the manifest refers to is one that an edit added.
LEMMA AliveListed == ASSUME NEW p, Alive(p) PROVE p \in Listed
  BY Zenon DEF Alive, AddedForGood, Listed, Entries

\* A file the manifest refers to is complete and stays on disk.
LEMMA AliveFileKept ==
  ASSUME CInv, FreshOutput, [CNext]_all, NEW p, Alive(p)
  PROVE  p \in DOMAIN sst /\ p \in DOMAIN sst' /\ sst[p].done /\ sst'[p] = sst[p]
<1>0. CManifestInv /\ FlushedInv /\ MergedInv
  BY Zenon DEF CInv, CFilesInv
<1>1. p \in DOMAIN sst /\ sst[p].done
  BY Zenon, <1>0, AliveListed DEF CManifestInv
<1>2. CASE sst' = sst
  BY Zenon, <1>1, <1>2
<1>3. CASE RemoveOrphans
  <2>1. phase = "manifest" /\ editIdx > Len(manifest) /\ sst' = Restrict(sst, DOMAIN sst \cap files)
    BY Zenon, <1>3 DEF RemoveOrphans
  <2>2. PICK i \in DOMAIN manifest : AddedForGood(i, p)
    BY Zenon DEF Alive
  <2>3. i < editIdx
    <3>1. manifest \in Seq(Range(manifest)) /\ editIdx \in Nat
      BY Zenon DEF CInv, CTypeInv, EngineTypes
    <3>2. Len(manifest) \in Nat /\ i \in 1 .. Len(manifest)
      BY <3>1
    <3> QED
      BY <2>1, <3>1, <3>2
  <2>4. PICK fe \in manifest[i].added : fe.path = p
    BY Zenon, <2>2 DEF AddedForGood
  <2>5. AddedForGood(i, fe.path)
    BY Zenon, <2>2, <2>4
  <2>6. p \in files
    BY Zenon, <1>0, <2>1, <2>3, <2>4, <2>5 DEF CManifestInv
  <2> QED
    BY Zenon, <1>1, <2>1, <2>6 DEF Restrict
<1>4. CASE ProcessEnds
  <2>1. PICK unlinked \in SUBSET (IF cpc \in {"remove", "unlink"} THEN cin ELSE {}) :
           sst' = Restrict(sst, DOMAIN sst \ (gone \cup unlinked))
    BY Zenon, <1>4 DEF ProcessEnds
  <2>2. p \notin gone /\ (cpc \in {"remove", "unlink"} => p \notin cin)
    BY Zenon, <1>0 DEF CManifestInv, Removing
  <2>3. p \notin unlinked
    BY Zenon, <2>2
  <2> QED
    BY Zenon, <1>1, <2>1, <2>2, <2>3 DEF Restrict
<1>5. CASE ~ProcessEnds /\ (FlushCreate \/ FlushFinish \/ MergeCreate \/ MergeFinish)
  <2>1. fpc # "idle" \/ cpc # "idle"
    BY Zenon, <1>5 DEF FlushCreate, FlushFinish, MergeCreate, MergeFinish
  <2>2. phase # "manifest"
    BY Zenon, <2>1, Recovering
  <2>3. FlushFinish => p # FlushPath
    BY Zenon, <1>0, <1>1 DEF FlushFinish, FlushedInv
  <2>4. MergeFinish => p # Output
    BY Zenon, <1>0, <1>1 DEF MergeFinish, MergedInv
  <2> QED
    BY Zenon, <1>1, <1>5, <2>2, <2>3, <2>4, FinishedFileKept
<1> QED
  BY Zenon, <1>2, <1>3, <1>4, <1>5, SstCases

\* The file that a new edit adds is complete, on disk, and of one of the windows.
LEMMA EditAdds ==
  ASSUME CInv, [CNext]_all, manifest' # manifest
  PROVE  \E e : /\ manifest' = Append(manifest, e) /\ sst' = sst
                /\ \A fe \in e.added :
                      /\ e.added = {fe} /\ fe.path.win \in Windows
                      /\ fe.path \in DOMAIN sst /\ sst[fe.path].done /\ fe.path \notin OpenReaders
                /\ \/ FlushCommit \/ FlushCommitUnsynced
                   \/ (CompactorCommit \/ CompactorCommitUnsynced) /\ e.deleted = cin
<1>0. FlushedInv /\ MergedInv /\ EngineTypes /\ CompactorTypes
  BY Zenon DEF CInv, CFilesInv, CTypeInv
<1>1. CASE (FlushCommit \/ FlushCommitUnsynced) /\ sst' = sst
  <2>1. PICK e : manifest' = Append(manifest, e) /\ e.deleted = {} /\ \E fe : e.added = {fe} /\ fe.path = FlushPath
    BY Zenon, <1>1, FlushEdit
  <2>2. fpc = "commit"
    BY Zenon, <1>1 DEF FlushCommit, FlushCommitUnsynced
  <2>3. FlushPath.win \in Windows /\ FlushPath \in DOMAIN sst /\ sst[FlushPath].done /\ FlushPath \notin OpenReaders
    BY Zenon, <1>0, <2>2, FlushedPath DEF FlushPath, FlushedInv, Flushing, EngineTypes
  <2>4. \A fe \in e.added : e.added = {fe} /\ fe.path = FlushPath
    BY Zenon, <2>1
  <2> QED
    BY Zenon, <1>1, <2>1, <2>3, <2>4
<1>2. CASE (CompactorCommit \/ CompactorCommitUnsynced) /\ sst' = sst
  <2>1. PICK e : /\ manifest' = Append(manifest, e) /\ e.deleted = cin
                 /\ \/ cpc = "commit" /\ \E fe : e.added = {fe} /\ fe.path = Output
                    \/ cpc = "retire" /\ e.added = {}
    BY Zenon, <1>2, CompactorEdit
  <2>2. CASE cpc = "commit"
    <3>1. /\ Output \in DOMAIN sst /\ Output \notin OpenReaders
          /\ sst[Output] = [done |-> TRUE, recs |-> crecs] /\ Output.win \in Windows
      BY Zenon, <1>0, <2>2, MergedPath DEF Output, MergedInv, Merging, CompactorTypes
    <3>2. sst[Output].done
      BY <3>1
    <3>3. \A fe \in e.added : e.added = {fe} /\ fe.path = Output
      BY Zenon, <2>1, <2>2
    <3> QED
      BY Zenon, <1>2, <2>1, <3>1, <3>2, <3>3
  <2> QED
    BY Zenon, <1>2, <2>1, <2>2
<1> QED
  BY Zenon, <1>1, <1>2, ManifestCases

\* Replay opens the file of the edit at hand unless a later edit deletes it, and keeps the
\* others that stay.
LEMMA ReplayKeeps ==
  ASSUME CInv, ReplayEdit, NEW i \in DOMAIN manifest, i < editIdx',
         NEW fe \in manifest[i].added, AddedForGood(i, fe.path)
  PROVE  fe.path \in files'
<1>0. CManifestInv /\ editIdx \in Nat /\ editIdx' = editIdx + 1 /\ manifest \in Seq(Range(manifest))
  BY Zenon DEF CInv, CTypeInv, EngineTypes, ReplayEdit
<1>1. i \in Nat /\ (i < editIdx \/ i = editIdx) /\ editIdx >= i
  <2>1. i \in Nat
    BY <1>0
  <2> QED
    BY <1>0, <2>1
<1>2. editIdx \in DOMAIN manifest
  <2>1. editIdx <= Len(manifest) /\ editIdx \in Nat \ {0}
    BY Zenon DEF ReplayEdit, CInv, CTypeInv, EngineTypes
  <2> QED
    BY <1>0, <2>1
<1>3. fe.path \notin manifest[editIdx].deleted
  BY Zenon, <1>1, <1>2 DEF AddedForGood
<1> DEFINE unreadable == \E f \in manifest[editIdx].added : ~Readable(f.path)
<1>4. /\ unreadable => files' = files
      /\ ~unreadable => /\ files \ manifest[editIdx].deleted \subseteq files'
                        /\ \A f \in manifest[editIdx].added :
                              f.path \notin manifest[editIdx].deleted => f.path \in files'
  BY Zenon DEF ReplayEdit
<1>5. CASE i < editIdx
  <2>1. phase = "manifest"
    BY Zenon DEF ReplayEdit
  <2>2. fe.path \in files
    BY Zenon, <1>0, <1>5, <2>1 DEF CManifestInv
  <2> QED
    BY Zenon, <1>3, <1>4, <2>2
<1>6. CASE i = editIdx
  <2>1. Alive(fe.path)
    BY Zenon DEF Alive
  <2>2. Readable(fe.path)
    BY Zenon, <1>0, <2>1, AliveListed DEF CManifestInv, Readable
  <2>3. manifest[editIdx].added = {fe}
    BY Zenon, <1>0, <1>6 DEF CManifestInv
  <2>4. ~unreadable
    BY Zenon, <2>2, <2>3
  <2> QED
    BY Zenon, <1>3, <1>4, <1>6, <2>4
<1> QED
  BY Zenon, <1>1, <1>5, <1>6

\* While edits are replayed only the replay moves on.
LEMMA ReplayingStep ==
  ASSUME CInv, [CNext]_all, phase' = "manifest"
  PROVE  \/ UNCHANGED <<phase, manifest, files, editIdx>>
         \/ editIdx' = 1 /\ files' = {}
         \/ ReplayEdit /\ phase = "manifest" /\ manifest' = manifest
<1>1. CASE CQuiet
  BY Zenon, <1>1 DEF CQuiet
<1>2. CASE OpenBegin
  BY Zenon, <1>2 DEF OpenBegin, CInv, CPositionInv
<1>3. CASE ReplayEdit \/ RemoveOrphans \/ ReplaySegment \/ OpenActiveWAL
  BY Zenon, <1>3 DEF ReplayEdit, RemoveOrphans, ReplaySegment, OpenActiveWAL
<1>4. CASE FlushSignals \/ FlushFail \/ FlushCommitUnsynced
  <2>1. fpc # "idle"
    BY Zenon, <1>4 DEF FlushSignals, FlushStep, FlushBump, FlushRotate, FlushCreate, FlushSwap,
       FlushFinish, FlushCommit, FlushUnlink, FlushRegister, FlushFail, FlushCallFails, FlushCommitUnsynced
  <2>2. phase' = phase
    BY Zenon, <1>4 DEF FlushSignals, FlushStep, FlushBump, FlushRotate, FlushCreate, FlushSwap,
       FlushFinish, FlushCommit, FlushUnlink, FlushRegister, FlushFail, FlushCommitUnsynced, FlushFrame
  <2> QED
    BY Zenon, <2>1, <2>2, Recovering
<1>5. CASE CompactorSteps
  <2>1. phase' = phase /\ editIdx' = editIdx
    BY Zenon, <1>5, CompactorFrames DEF CompactFrame
  <2>2. "compactor" \notin workers /\ cpc = "idle" /\ sweep = {} /\ expired = {}
    BY Zenon, <2>1, Recovering DEF CInv, CPositionInv
  <2>3. FALSE
    BY Zenon, <1>5, <2>2 DEF CompactorSteps, CompactReceive, SweepCompaction, SweepRetention, MergeCreate,
       MergeFinish, CompactorCommit, CompactorRemove, MergeInstall, SweepVisit, RetireWindow,
       RetireForget, CompactorFails, CompactorCallFails, CompactorCommitUnsynced, CompactorRemoveFails, AtSelect
  <2> QED
    BY Zenon, <2>3
<1>6. CASE ProcessEnds
  BY Zenon, <1>6 DEF ProcessEnds, LoseProcess
<1> QED
  BY Zenon, <1>1, <1>2, <1>3, <1>4, <1>5, <1>6, CStepCases

\* Every step keeps the manifest in line with the files.
LEMMA CManifestStep ==
  ASSUME CInv, FreshOutput, [CNext]_all
  PROVE  CManifestInv'
<1>0. CManifestInv /\ ReadersInv /\ PickedInv /\ manifest \in Seq(Range(manifest))
  BY Zenon DEF CInv, CFilesInv, CTypeInv
<1> DEFINE Single(m) == \A i \in DOMAIN m : \A fe \in m[i].added : m[i].added = {fe} /\ fe.path.win \in Windows
           Replayed(m, n, F) == \A i \in DOMAIN m : i < n =>
               \A fe \in m[i].added :
                   (\A j \in DOMAIN m : j >= i => fe.path \notin m[j].deleted) => fe.path \in F
<1>1. Single(manifest')
  <2>1. CASE manifest' = manifest
    BY Zenon, <1>0, <2>1 DEF CManifestInv
  <2>2. CASE manifest' # manifest
    <3>1. PICK e : /\ manifest' = Append(manifest, e)
                   /\ \A fe \in e.added : e.added = {fe} /\ fe.path.win \in Windows
      BY Zenon, <2>2, EditAdds
    <3>2. /\ DOMAIN manifest = 1 .. Len(manifest) /\ DOMAIN manifest' = 1 .. (Len(manifest) + 1)
          /\ Len(manifest) \in Nat
          /\ \A i \in DOMAIN manifest : manifest'[i] = manifest[i]
          /\ manifest'[Len(manifest) + 1] = e
      BY Zenon, <1>0, <3>1, EditAppended
    <3>3. \A i \in DOMAIN manifest' : i \in DOMAIN manifest \/ i = Len(manifest) + 1
      BY <3>2
    <3>4. \A i \in DOMAIN manifest : \A fe \in manifest'[i].added : manifest'[i].added = {fe} /\ fe.path.win \in Windows
      BY Zenon, <1>0, <3>2 DEF CManifestInv
    <3>5. \A fe \in manifest'[Len(manifest) + 1].added :
              manifest'[Len(manifest) + 1].added = {fe} /\ fe.path.win \in Windows
      BY Zenon, <3>1, <3>2
    <3> QED
      BY Zenon, <3>3, <3>4, <3>5
  <2> QED
    BY Zenon, <2>1, <2>2
<1>2. ASSUME NEW p, Alive(p)' PROVE p \in DOMAIN sst' /\ sst'[p].done
  <2>1. CASE Alive(p)
    BY Zenon, <2>1, AliveFileKept
  <2>2. CASE ~Alive(p)
    <3>1. manifest' # manifest
      BY Zenon, <1>2, <2>2 DEF Alive, AddedForGood
    <3>2. PICK e : /\ manifest' = Append(manifest, e) /\ sst' = sst
                   /\ \A fe \in e.added : fe.path \in DOMAIN sst /\ sst[fe.path].done
      BY Zenon, <3>1, EditAdds
    <3>3. \E fe \in e.added : fe.path = p
      BY Zenon, <1>0, <1>2, <2>2, <3>2, AliveAppended
    <3> QED
      BY Zenon, <3>2, <3>3
  <2> QED
    BY Zenon, <2>1, <2>2
<1>3. ASSUME NEW p \in OpenReaders, ~Alive(p) PROVE ~Alive(p)'
  <2>1. CASE manifest' = manifest
    BY Zenon, <1>3, <2>1 DEF Alive, AddedForGood
  <2>2. CASE manifest' # manifest
    <3>1. PICK e : manifest' = Append(manifest, e) /\ \A fe \in e.added : fe.path \notin OpenReaders
      BY Zenon, <2>2, EditAdds
    <3>2. ~\E fe \in e.added : fe.path = p
      BY Zenon, <1>3, <3>1
    <3>3. Alive(p)' => Alive(p) \/ \E fe \in e.added : fe.path = p
      BY Zenon, <1>0, <3>1, AliveAppended
    <3> QED
      BY Zenon, <1>3, <3>2, <3>3
  <2> QED
    BY Zenon, <2>1, <2>2
<1>4. ASSUME NEW p \in gone' PROVE ~Alive(p)'
  <2>1. ~ProcessEnds
    BY Zenon, <1>4 DEF ProcessEnds
  <2>2. p \in OpenReaders /\ ~Alive(p)
    BY Zenon, <1>0, <1>4, <2>1, GoneStep DEF CManifestInv, ReadersInv, PickedInv, FilesOf, OpenReaders, Removing
  <2> QED
    BY Zenon, <1>3, <2>2
<1>5. ASSUME Removing', NEW p \in cin' PROVE ~Alive(p)'
  <2>1. ~ProcessEnds
    BY Zenon, <1>5 DEF ProcessEnds, CompactReturns, Removing
  <2>2. CASE CompactorCommit
    <3>1. cin' = cin
      BY Zenon, <2>2 DEF CompactorCommit
    <3>2. PICK e : manifest' = Append(manifest, e) /\ e.deleted = cin
      BY Zenon, <2>2, CompactorEdit
    <3> QED
      BY Zenon, <1>0, <1>5, <3>1, <3>2, AliveAppended
  <2>3. CASE Removing /\ cin' = cin
    <3>1. p \in OpenReaders /\ ~Alive(p)
      BY Zenon, <1>0, <1>5, <2>3 DEF CManifestInv, PickedInv, FilesOf, OpenReaders, Removing
    <3> QED
      BY Zenon, <1>3, <3>1
  <2> QED
    BY Zenon, <1>5, <2>1, <2>2, <2>3, CompactorMoves
<1>6. phase' = "manifest" => Replayed(manifest', editIdx', files')
  <2>1. CASE UNCHANGED <<phase, manifest, files, editIdx>>
    BY Zenon, <1>0, <2>1 DEF CManifestInv, AddedForGood
  <2>2. CASE editIdx' = 1 /\ files' = {} /\ phase' = "manifest"
    <3>1. CTypeInv'
      BY Zenon, CTypesStep
    <3>2. manifest' \in Seq(Range(manifest'))
      BY Zenon, <3>1 DEF CTypeInv
    <3>3. \A i \in DOMAIN manifest' : ~(i < editIdx')
      BY <2>2, <3>2
    <3> QED
      BY Zenon, <3>3
  <2>3. CASE ReplayEdit /\ phase = "manifest" /\ manifest' = manifest
    BY Zenon, <2>3, ReplayKeeps DEF AddedForGood
  <2> QED
    BY Zenon, <2>1, <2>2, <2>3, ReplayingStep
<1>7. phase' = "manifest" => \A i \in DOMAIN manifest' : i < editIdx' =>
          \A fe \in manifest'[i].added : AddedForGood(i, fe.path)' => fe.path \in files'
  BY Zenon, <1>6 DEF AddedForGood
<1> QED
  BY Zenon, <1>1, <1>2, <1>4, <1>5, <1>7 DEF CManifestInv

=============================================================================
