------------------------ MODULE CompactionAckedProofs ------------------------
(***************************************************************************)
(* AckedInv, of CompactionAckedInv, is inductive: what a step changes of   *)
(* the state it speaks of, and that every step keeps IssuedInv,            *)
(* HandoverInv, WindowInv, MaxInv and CoverInv, whatever the callers do    *)
(* and whichever calls fail.  CompactionDurableProofs has KeptInv and the  *)
(* theorems.                                                               *)
(***************************************************************************)
EXTENDS CompactionProofs, CompactionAckedInv

-----------------------------------------------------------------------------
(* What a step changes of what AckedInv looks at *)

StoreSame == UNCHANGED <<sst, manifest, files, maxFlushedTS>>
FlushSame == UNCHANGED <<fpc, fwin, oldWAL, newSeq, snap>>
CallersSame == UNCHANGED <<apc, arec, issued, acked>>
WalSame == UNCHANGED <<segs, curWAL, walSeq, todoSegs>>
CompactorSame == UNCHANGED <<cpc, cin, crecs>>

\* The steps that only move a goroutine on to work it has not begun.
AQuiet ==
    /\ StoreSame /\ WalSame /\ CallersSame /\ UNCHANGED <<mem, snap, oldWAL, newSeq>>
    /\ \/ phase' = phase
       \/ phase = "down" /\ phase' = "manifest"
       \/ Opened /\ Opened' /\ NoReaders
    /\ \/ fpc' = fpc /\ fwin' = fwin
       \/ fpc = "idle" /\ fpc' = "bump"
    /\ \/ CompactorSame
       \/ cpc = "idle" /\ cpc' \in {"create", "retire"}

OpeningStep == (ReplayEdit \/ RemoveOrphans \/ ReplaySegment \/ OpenActiveWAL) /\ UNCHANGED cvars
AppendingStep(a) == ((\E r \in Records : AppendWAL(a, r)) \/ AppendStep(a)) /\ UNCHANGED cvars
CompactingStep ==
    \/ MergeCreate \/ MergeFinish \/ CompactorCommit \/ CompactorRemove \/ MergeInstall
    \/ RetireForget
    \/ CompactorFails \/ CompactorCommitUnsynced \/ CompactorRemoveFails
FailingFlush == (FlushFail \/ FlushCommitUnsynced) /\ UNCHANGED cvars
FlushingStep == FlushSignals \/ FailingFlush

\* Nobody appends but to a running engine.
LEMMA IdleUnlessRunning ==
  ASSUME IssuedInv, phase # "running"
  PROVE  NoReaders
  BY Zenon DEF IssuedInv, InFlight, NoReaders

\* Open leaves the flusher, the callers and the compactor alone.
LEMMA OpeningFrame ==
  ASSUME OpeningStep
  PROVE  phase \in OpenPhases /\ FlushSame /\ CallersSame /\ CompactorSame
<1> USE DEF env, disk, openVars, router, readers, walVars, tasks, flushVars, locals, callers,
            compactor, sweeps, unmapped, scans, cvars
<1> USE DEF OpenPhases, FlushSame, CallersSame, CompactorSame
<1>1. CASE ReplayEdit /\ UNCHANGED cvars
  BY Zenon, <1>1 DEF ReplayEdit
<1>2. CASE RemoveOrphans /\ UNCHANGED cvars
  BY Zenon, <1>2 DEF RemoveOrphans
<1>3. CASE ReplaySegment /\ UNCHANGED cvars
  BY Zenon, <1>3 DEF ReplaySegment
<1>4. CASE OpenActiveWAL /\ UNCHANGED cvars
  BY Zenon, <1>4 DEF OpenActiveWAL
<1> QED
  BY Zenon, <1>1, <1>2, <1>3, <1>4 DEF OpeningStep

\* Append leaves the files, the flusher and the compactor alone.
LEMMA AppendingFrame ==
  ASSUME IssuedInv, NEW a \in Appenders, AppendingStep(a)
  PROVE  /\ phase = "running" /\ phase' = phase
         /\ StoreSame /\ FlushSame /\ CompactorSame /\ UNCHANGED <<curWAL, walSeq, todoSegs>>
<1> USE DEF env, disk, openVars, router, readers, walVars, tasks, flushVars, locals, callers,
            compactor, sweeps, unmapped, scans, cvars
<1> USE DEF StoreSame, FlushSame, CompactorSame
<1>1. ASSUME NEW r \in Records, AppendWAL(a, r), UNCHANGED cvars
      PROVE  /\ phase = "running" /\ phase' = phase
             /\ StoreSame /\ FlushSame /\ CompactorSame /\ UNCHANGED <<curWAL, walSeq, todoSegs>>
  BY Zenon, <1>1 DEF AppendWAL
<1>2. CASE AppendStep(a) /\ UNCHANGED cvars
  <2>1. phase = "running"
    BY Zenon, <1>2 DEF AppendStep, AppendRoute, AppendInsert, AppendSignal, IssuedInv, InFlight
  <2>2. CASE AppendRoute(a)
    BY Zenon, <1>2, <2>1, <2>2 DEF AppendRoute
  <2>3. CASE AppendInsert(a)
    BY Zenon, <1>2, <2>1, <2>3 DEF AppendInsert
  <2>4. CASE AppendSignal(a)
    BY Zenon, <1>2, <2>1, <2>4 DEF AppendSignal
  <2> QED
    BY Zenon, <1>2, <2>2, <2>3, <2>4 DEF AppendStep
<1> QED
  BY Zenon, <1>1, <1>2 DEF AppendingStep

\* A flush, failing or not, leaves the callers and the compactor alone.
LEMMA FlushingFrame ==
  ASSUME CInv, FlushingStep
  PROVE  /\ phase \in Live /\ phase' = phase
         /\ CallersSame /\ CompactorSame /\ todoSegs' = todoSegs /\ fwin' = fwin
<1> USE DEF env, disk, openVars, router, readers, walVars, tasks, flushVars, locals, callers,
            compactor, sweeps, unmapped, scans, cvars
<1> USE DEF CallersSame, CompactorSame, FlushFrame
<1>1. phase \in Live \/ fpc = "idle"
  BY Zenon DEF CInv, CPositionInv
<1>2. CASE FlushSignals
  <2>1. fpc # "idle" /\ FlushFrame /\ fwin' = fwin
    BY Zenon, <1>2 DEF FlushSignals, FlushStep, FlushBump, FlushRotate, FlushCreate, FlushSwap,
                 FlushFinish, FlushCommit, FlushUnlink, FlushRegister
  <2>2. CompactorSame
    BY Zenon, <1>2 DEF FlushSignals
  <2> QED
    BY Zenon, <1>1, <2>1, <2>2
<1>3. CASE FailingFlush
  <2>1. fpc # "idle" /\ FlushFrame /\ fwin' = fwin
    BY Zenon, <1>3 DEF FailingFlush, FlushFail, FlushCallFails, FlushCommitUnsynced
  <2>2. CompactorSame
    BY Zenon, <1>3 DEF FailingFlush
  <2> QED
    BY Zenon, <1>1, <2>1, <2>2
<1> QED
  BY Zenon, <1>2, <1>3 DEF FlushingStep

\* The compactor leaves segments, memtables, callers and the flusher alone.
LEMMA CompactingFrame ==
  ASSUME CInv, CompactingStep
  PROVE  /\ phase \in Live /\ phase' = phase
         /\ CallersSame /\ FlushSame /\ WalSame /\ mem' = mem /\ cpc # "idle"
<1> USE DEF env, disk, openVars, router, readers, walVars, tasks, flushVars, locals, callers,
            compactor, sweeps, unmapped, scans, cvars
<1> USE DEF CallersSame, FlushSame, WalSame
<1>1. CompactFrame /\ cpc # "idle"
  BY Zenon DEF CompactingStep, MergeCreate, MergeFinish, CompactorCommit, CompactorRemove,
               MergeInstall, RetireForget, CompactorFails, CompactorCallFails,
               CompactorCommitUnsynced, CompactorRemoveFails
<1>2. phase \in Live
  BY Zenon, <1>1 DEF CInv, CPositionInv, Live
<1> QED
  BY Zenon, <1>1, <1>2 DEF CompactFrame

\* Every step is quiet or one of these.
LEMMA AckedCases ==
  ASSUME CInv, IssuedInv, [CNext]_all
  PROVE  \/ AQuiet
         \/ OpeningStep
         \/ \E a \in Appenders : AppendingStep(a)
         \/ FlushingStep \/ CompactingStep \/ ProcessEnds
<1> USE DEF env, disk, openVars, router, readers, walVars, tasks, flushVars, locals, callers,
            compactor, sweeps, unmapped, scans, cvars
<1> DEFINE Cases == \/ AQuiet \/ OpeningStep \/ \E a \in Appenders : AppendingStep(a)
                    \/ FlushingStep \/ CompactingStep \/ ProcessEnds
<1> SUFFICES Cases
  BY Zenon
<1> USE DEF StoreSame, WalSame, CallersSame, CompactorSame, FlushFrame
<1>1. CASE OpenBegin /\ UNCHANGED cvars
  BY Zenon, <1>1 DEF OpenBegin, AQuiet
<1>2. CASE OpenStep /\ UNCHANGED cvars
  BY Zenon, <1>2 DEF OpenStep, OpeningStep
<1>3. ASSUME NEW a \in Appenders, NEW r \in Records, AppendWAL(a, r), UNCHANGED cvars
      PROVE  Cases
  BY Zenon, <1>3 DEF AppendingStep
<1>4. ASSUME NEW a \in Appenders, AppendStep(a), UNCHANGED cvars PROVE Cases
  BY Zenon, <1>4 DEF AppendingStep
<1>5. CASE FlusherReceive /\ UNCHANGED cvars
  BY Zenon, <1>5 DEF FlusherReceive, AQuiet
<1>6. CASE (FlushFail \/ FlushCommitUnsynced) /\ UNCHANGED cvars
  BY Zenon, <1>6 DEF FlushingStep, FailingFlush
<1>7. CASE WorkerExit("flusher") /\ UNCHANGED cvars
  BY Zenon, <1>7 DEF WorkerExit, AQuiet
<1>8. CASE (CloseWaited \/ CloseEnd) /\ UNCHANGED cvars
  <2>1. NoReaders
    BY Zenon, <1>8, IdleUnlessRunning DEF CloseWaited, CloseEnd
  <2> QED
    BY Zenon, <1>8, <2>1 DEF CloseWaited, CloseEnd, AQuiet, Opened, Live
<1>9. ASSUME NEW w \in Windows, CloseVisit(w), UNCHANGED cvars PROVE Cases
  BY Zenon, <1>9 DEF CloseVisit, AQuiet
<1>10. CASE Tick /\ UNCHANGED cvars
  BY Zenon, <1>10 DEF Tick, AQuiet
<1>11. CASE FlushSignals
  BY Zenon, <1>11 DEF FlushingStep
<1>12. CASE CompactReceive
  BY Zenon, <1>12 DEF CompactReceive, CompactFrame, MaybeCompact, AtSelect, AQuiet
<1>13. CASE SweepCompaction \/ SweepRetention
  BY Zenon, <1>13 DEF SweepCompaction, SweepRetention, CompactFrame, AQuiet
<1>14. ASSUME NEW w \in Windows, SweepVisit(w) \/ RetireWindow(w) PROVE Cases
  BY Zenon, <1>14 DEF SweepVisit, RetireWindow, CompactFrame, MaybeCompact, AQuiet
<1>15. CASE CompactingStep
  BY Zenon, <1>15
<1>16. ASSUME NEW s \in Scanners, ScanOpen(s) \/ ScanEnd(s) PROVE Cases
  BY Zenon, <1>16 DEF ScanOpen, ScanEnd, vars, AQuiet
<1>17. CASE CloseCalled
  BY Zenon, <1>17 DEF CloseCalled, CloseBegin, AQuiet, Opened, Live
<1>18. CASE CompactorExit
  BY Zenon, <1>18 DEF CompactorExit, WorkerExit, AQuiet
<1>19. CASE ProcessEnds
  BY Zenon, <1>19
<1>20. CASE UNCHANGED all
  BY Zenon, <1>20 DEF all, vars, AQuiet
<1> QED
  BY Zenon, <1>1, <1>2, <1>3, <1>4, <1>5, <1>6, <1>7, <1>8, <1>9, <1>10, <1>11, <1>12, <1>13,
     <1>14, <1>15, <1>16, <1>17, <1>18, <1>19, <1>20
     DEF CNext, EngineStep, MergeStep, CompactingStep

-----------------------------------------------------------------------------
(* The steps of Append *)

\* What wal.Append does.
LEMMA AppendWALEffect ==
  ASSUME CInv, NEW a \in Appenders, NEW r \in Records, AppendWAL(a, r)
  PROVE  /\ r \notin issued
         /\ curWAL \in DOMAIN segs /\ DOMAIN segs' = DOMAIN segs
         /\ segs'[curWAL] = segs[curWAL] \cup {r}
         /\ \A s \in DOMAIN segs : s # curWAL => segs'[s] = segs[s]
         /\ issued' = issued \cup {r} /\ UNCHANGED <<acked, mem>>
         /\ apc[a] = "idle" /\ apc'[a] = "route" /\ arec'[a] = r
         /\ \A b \in Appenders : b # a => apc'[b] = apc[b] /\ arec'[b] = arec[b]
<1> USE DEF env, disk, openVars, router, readers, walVars, tasks, flushVars, locals, callers,
            compactor, sweeps, unmapped, scans, cvars
<1>1. curWAL \in DOMAIN segs
  BY Zenon DEF AppendWAL, CInv, CSeqInv, Opened, Live
<1>2. /\ DOMAIN segs' = DOMAIN segs /\ segs'[curWAL] = segs[curWAL] \cup {r}
      /\ \A s \in DOMAIN segs : s # curWAL => segs'[s] = segs[s]
  <2>1. segs' = [segs EXCEPT ![curWAL] = @ \cup {r}]
    BY Zenon DEF AppendWAL
  <2> QED
    BY Zenon, <1>1, <2>1
<1>3. /\ apc \in [Appenders -> {"idle", "route", "insert", "signal"}]
      /\ arec \in [Appenders -> Records \cup {NoRecord}]
  BY Zenon DEF CInv, CTypeInv, EngineTypes
<1>4. /\ apc[a] = "idle" /\ apc'[a] = "route" /\ arec'[a] = r
      /\ \A b \in Appenders : b # a => apc'[b] = apc[b] /\ arec'[b] = arec[b]
  <2>1. /\ apc' = [apc EXCEPT ![a] = "route"] /\ arec' = [arec EXCEPT ![a] = r]
        /\ apc[a] = "idle"
    BY Zenon DEF AppendWAL
  <2> QED
    BY Zenon, <1>3, <2>1
<1> QED
  BY Zenon, <1>1, <1>2, <1>4 DEF AppendWAL

\* The steps after it: the record is routed, refused, inserted or acknowledged.
Routed(a) == Uninserted(a) /\ Uninserted(a)' /\ arec'[a] = arec[a] /\ UNCHANGED <<mem, acked>>
RefusedNow(a) == Uninserted(a) /\ apc'[a] = "idle" /\ UNCHANGED <<mem, acked>>
InsertedNow(a) ==
    /\ Uninserted(a) /\ apc'[a] = "signal" /\ arec'[a] = arec[a] /\ acked' = acked
    /\ mem'[Win(arec[a])] = mem[Win(arec[a])] \cup {arec[a]}
    /\ \A w \in Windows : w # Win(arec[a]) => mem'[w] = mem[w]
AckedNow(a) ==
    apc[a] = "signal" /\ apc'[a] = "idle" /\ acked' = acked \cup {arec[a]} /\ mem' = mem

\* A step of Append behind its WAL write leaves segments and history of issues alone.
LEMMA AppendStepEffect ==
  ASSUME CInv, NEW a \in Appenders, AppendStep(a)
  PROVE  /\ UNCHANGED <<segs, issued>> /\ apc[a] # "idle" /\ arec[a] \in Records
         /\ \A b \in Appenders : b # a => apc'[b] = apc[b] /\ arec'[b] = arec[b]
         /\ Routed(a) \/ RefusedNow(a) \/ InsertedNow(a) \/ AckedNow(a)
<1> USE DEF env, disk, openVars, router, readers, walVars, tasks, flushVars, locals, callers,
            compactor, sweeps, unmapped, scans, cvars
<1>1. /\ apc \in [Appenders -> {"idle", "route", "insert", "signal"}]
      /\ arec \in [Appenders -> Records \cup {NoRecord}]
      /\ mem \in [Windows -> SUBSET Records]
      /\ apc[a] # "idle" => arec[a] \in Records
  BY Zenon DEF CInv, CTypeInv, EngineTypes
<1>2. ASSUME AppendReturns(a)
      PROVE  /\ apc'[a] = "idle"
             /\ \A b \in Appenders : b # a => apc'[b] = apc[b] /\ arec'[b] = arec[b]
  BY Zenon, <1>1, <1>2 DEF AppendReturns
<1>3. ASSUME NEW v, apc' = [apc EXCEPT ![a] = v], arec' = arec
      PROVE  /\ apc'[a] = v /\ arec'[a] = arec[a]
             /\ \A b \in Appenders : b # a => apc'[b] = apc[b] /\ arec'[b] = arec[b]
  BY Zenon, <1>1, <1>3
<1>4. CASE AppendRoute(a)
  <2>1. apc[a] = "route" /\ UNCHANGED <<segs, issued, mem, acked>>
    BY Zenon, <1>4 DEF AppendRoute
  <2>2. CASE AppendReturns(a)
    BY Zenon, <1>1, <1>2, <2>1, <2>2 DEF RefusedNow, Uninserted
  <2>3. CASE apc' = [apc EXCEPT ![a] = "insert"] /\ arec' = arec
    BY Zenon, <1>1, <1>3, <2>1, <2>3 DEF Routed, Uninserted
  <2> QED
    BY Zenon, <1>4, <2>2, <2>3 DEF AppendRoute
<1>5. CASE AppendInsert(a)
  <2>1. apc[a] = "insert" /\ UNCHANGED <<segs, issued, acked>>
    BY Zenon, <1>5 DEF AppendInsert
  <2>2. CASE AppendReturns(a) /\ mem' = mem
    BY Zenon, <1>1, <1>2, <2>1, <2>2 DEF RefusedNow, Uninserted
  <2>3. CASE /\ apc' = [apc EXCEPT ![a] = "signal"] /\ arec' = arec
             /\ mem' = [mem EXCEPT ![Win(arec[a])] = @ \cup {arec[a]}]
    <3>1. Win(arec[a]) \in Windows
      BY Zenon, <1>1, <2>1, WindowOfRecord
    <3>2. /\ mem'[Win(arec[a])] = mem[Win(arec[a])] \cup {arec[a]}
          /\ \A w \in Windows : w # Win(arec[a]) => mem'[w] = mem[w]
      BY Zenon, <1>1, <2>3, <3>1
    <3> QED
      BY Zenon, <1>1, <1>3, <2>1, <2>3, <3>2 DEF InsertedNow, Uninserted
  <2> QED
    BY Zenon, <1>5, <2>2, <2>3 DEF AppendInsert
<1>6. CASE AppendSignal(a)
  BY Zenon, <1>1, <1>2, <1>6 DEF AppendSignal, AckedNow
<1> QED
  BY Zenon, <1>4, <1>5, <1>6 DEF AppendStep

-----------------------------------------------------------------------------
(* IssuedInv *)

\* A new or reopened segment: the others stay.
LEMMA OpenSegmentEffect ==
  ASSUME NEW n, OpenSegment(n)
  PROVE  /\ DOMAIN segs' = DOMAIN segs \cup {n}
         /\ \A s \in DOMAIN segs : segs'[s] = segs[s]
         /\ n \notin DOMAIN segs => segs'[n] = {}
  BY Zenon DEF OpenSegment

\* Replay of a segment: what it inserts, and when it deletes the segment.
LEMMA ReplaySegmentEffect ==
  ASSUME CInv, ReplaySegment
  PROVE  \E s \in todoSegs :
            /\ s \in DOMAIN segs /\ todoSegs' = todoSegs \ {s}
            /\ \A w \in Windows :
                  mem'[w] = mem[w] \cup {r \in segs[s] : ~Covered(r) /\ ~Refused(r) /\ Win(r) = w}
            /\ DOMAIN segs' \subseteq DOMAIN segs
            /\ \A t \in DOMAIN segs' : segs'[t] = segs[t]
            /\ \A t \in DOMAIN segs : t \notin DOMAIN segs' => t = s /\ \A r \in segs[s] : Covered(r)
<1>1. todoSegs \subseteq DOMAIN segs
  BY Zenon DEF CInv, CTypeInv, EngineTypes
<1>3. PICK s \in todoSegs :
        /\ mem' = [w \in Windows |-> mem[w] \cup
                      {r \in {q \in {p \in segs[s] : ~Covered(p)} : ~Refused(q)} : Win(r) = w}]
        /\ segs' = IF {p \in segs[s] : ~Covered(p)} = {} THEN Remove(segs, s) ELSE segs
        /\ todoSegs' = todoSegs \ {s}
  BY Zenon DEF ReplaySegment
<1>4. \A w \in Windows :
         mem'[w] = mem[w] \cup {r \in segs[s] : ~Covered(r) /\ ~Refused(r) /\ Win(r) = w}
  <2> TAKE w \in Windows
  <2>1. {r \in {q \in {p \in segs[s] : ~Covered(p)} : ~Refused(q)} : Win(r) = w}
           = {r \in segs[s] : ~Covered(r) /\ ~Refused(r) /\ Win(r) = w}
    BY Zenon
  <2>2. mem'[w] = mem[w] \cup {r \in {q \in {p \in segs[s] : ~Covered(p)} : ~Refused(q)} : Win(r) = w}
    BY Zenon, <1>3
  <2> QED
    BY Zenon, <2>1, <2>2
<1>5. CASE segs' = segs
  BY Zenon, <1>1, <1>3, <1>4, <1>5
<1>6. CASE {p \in segs[s] : ~Covered(p)} = {} /\ segs' = Remove(segs, s)
  <2>1. \A r \in segs[s] : Covered(r)
    BY Zenon, <1>6
  <2>2. DOMAIN segs' = DOMAIN segs \ {s} /\ \A t \in DOMAIN segs \ {s} : segs'[t] = segs[t]
    BY Zenon, <1>6 DEF Remove, Restrict
  <2> QED
    BY Zenon, <1>1, <1>3, <1>4, <2>1, <2>2
<1> QED
  BY Zenon, <1>3, <1>5, <1>6

\* FlushUnlink takes the segment away that was active before the flush.
LEMMA FlushUnlinkEffect ==
  ASSUME CInv, FlushUnlink
  PROVE  /\ DOMAIN segs' = DOMAIN segs \ {oldWAL} /\ oldWAL # curWAL
         /\ \A s \in DOMAIN segs' : segs'[s] = segs[s]
<1>1. segs' = Remove(segs, oldWAL) /\ fpc = "unlink"
  BY Zenon DEF FlushUnlink
<1>2. newSeq = curWAL /\ oldWAL < newSeq /\ newSeq \in Nat
  BY Zenon, <1>1 DEF CInv, CSeqInv, Flushing, CTypeInv, EngineTypes
<1>3. oldWAL # curWAL
  BY <1>2
<1> QED
  BY Zenon, <1>1, <1>3 DEF Remove, Restrict

\* SwapMemtable moves the memtable of the window to the snapshot.
LEMMA FlushSwapEffect ==
  ASSUME CInv, FlushSwap
  PROVE  /\ fwin \in Windows /\ snap' = mem[fwin] /\ mem'[fwin] = {}
         /\ \A w \in Windows : w # fwin => mem'[w] = mem[w]
<1>1. fwin \in Windows /\ mem \in [Windows -> SUBSET Records]
  BY Zenon DEF FlushSwap, CInv, CTypeInv, EngineTypes
<1>2. mem' = [mem EXCEPT ![fwin] = {}] /\ snap' = mem[fwin]
  BY Zenon DEF FlushSwap
<1> QED
  BY Zenon, <1>1, <1>2

\* Only six steps write, open or delete segments.
LEMMA SegsCases ==
  ASSUME CInv, IssuedInv, [CNext]_all
  PROVE  \/ segs' = segs
         \/ ReplaySegment \/ OpenActiveWAL \/ FlushRotate \/ FlushUnlink
         \/ \E a \in Appenders, r \in Records : AppendWAL(a, r) /\ UNCHANGED cvars
<1> USE DEF env, disk, openVars, router, readers, walVars, tasks, flushVars, locals, callers,
            compactor, sweeps, unmapped, scans, cvars
<1>1. CASE AQuiet
  BY Zenon, <1>1 DEF AQuiet, WalSame
<1>2. CASE OpeningStep
  BY Zenon, <1>2 DEF OpeningStep, ReplayEdit, RemoveOrphans
<1>3. ASSUME NEW a \in Appenders, AppendingStep(a), ~ \E r \in Records : AppendWAL(a, r)
      PROVE  segs' = segs
  BY Zenon, <1>3, AppendStepEffect DEF AppendingStep
<1>4. CASE FlushingStep
  BY Zenon, <1>4 DEF FlushingStep, FlushSignals, FlushStep, FlushBump, FlushCreate, FlushSwap, FlushFinish,
                     FlushCommit, FlushRegister, FailingFlush, FlushFail, FlushCommitUnsynced
<1>5. CASE CompactingStep
  BY Zenon, <1>5, CompactingFrame DEF WalSame
<1>6. CASE ProcessEnds
  BY Zenon, <1>6 DEF ProcessEnds, LoseProcess
<1> QED
  BY Zenon, <1>1, <1>2, <1>3, <1>4, <1>5, <1>6, AckedCases DEF AppendingStep

\* Only four steps change memtables.
LEMMA MemCases ==
  ASSUME CInv, IssuedInv, [CNext]_all
  PROVE  \/ mem' = mem
         \/ ReplaySegment \/ FlushSwap \/ ProcessEnds
         \/ \E a \in Appenders : AppendStep(a) /\ InsertedNow(a)
<1> USE DEF env, disk, openVars, router, readers, walVars, tasks, flushVars, locals, callers,
            compactor, sweeps, unmapped, scans, cvars
<1>1. CASE AQuiet
  BY Zenon, <1>1 DEF AQuiet
<1>2. CASE OpeningStep
  BY Zenon, <1>2 DEF OpeningStep, ReplayEdit, RemoveOrphans, OpenActiveWAL
<1>3. ASSUME NEW a \in Appenders, AppendingStep(a), ~(AppendStep(a) /\ InsertedNow(a))
      PROVE  mem' = mem
  <2>1. CASE AppendStep(a)
    BY Zenon, <1>3, <2>1, AppendStepEffect DEF Routed, RefusedNow, AckedNow
  <2>2. CASE \E r \in Records : AppendWAL(a, r)
    BY Zenon, <2>2 DEF AppendWAL
  <2> QED
    BY Zenon, <1>3, <2>1, <2>2 DEF AppendingStep
<1>4. CASE FlushingStep
  BY Zenon, <1>4 DEF FlushingStep, FlushSignals, FlushStep, FlushBump, FlushRotate, FlushCreate, FlushFinish,
                     FlushCommit, FlushUnlink, FlushRegister, FailingFlush, FlushFail, FlushCommitUnsynced
<1>5. CASE CompactingStep
  BY Zenon, <1>5, CompactingFrame
<1> QED
  BY Zenon, <1>1, <1>2, <1>3, <1>4, <1>5, AckedCases

\* Only the steps of a flush and the end of the process change the snapshot.
LEMMA SnapCases ==
  ASSUME CInv, IssuedInv, [CNext]_all
  PROVE  \/ snap' = snap /\ fpc' = fpc
         \/ snap' = snap /\ fpc = "idle" /\ fpc' = "bump"
         \/ FlushingStep
         \/ snap' = {} /\ fpc' = "idle" /\ ProcessEnds
<1>1. CASE AQuiet
  BY Zenon, <1>1 DEF AQuiet
<1>2. CASE OpeningStep
  BY Zenon, <1>2, OpeningFrame DEF FlushSame
<1>3. ASSUME NEW a \in Appenders, AppendingStep(a) PROVE snap' = snap /\ fpc' = fpc
  BY Zenon, <1>3, AppendingFrame DEF FlushSame
<1>4. CASE CompactingStep
  BY Zenon, <1>4, CompactingFrame DEF FlushSame
<1>5. CASE ProcessEnds
  BY Zenon, <1>5 DEF ProcessEnds, LoseProcess
<1> QED
  BY Zenon, <1>1, <1>2, <1>3, <1>4, <1>5, AckedCases

\* A snapshot is taken once, and dropped as a whole.
LEMMA SnapShrinks ==
  ASSUME CInv, IssuedInv, [CNext]_all
  PROVE  FlushSwap \/ snap' = snap \/ snap' = {}
<1>1. CASE FlushSignals
  BY Zenon, <1>1 DEF FlushSignals, FlushStep, FlushBump, FlushRotate, FlushCreate, FlushFinish,
                     FlushCommit, FlushUnlink, FlushRegister, FlushReturns
<1>2. CASE FailingFlush
  BY Zenon, <1>2 DEF FailingFlush, FlushFail, FlushCommitUnsynced, FlushReturns
<1> QED
  BY Zenon, <1>1, <1>2, SnapCases DEF FlushingStep

\* Only the steps of Append and the end of the process change what the callers know.
LEMMA CallersCases ==
  ASSUME CInv, IssuedInv, [CNext]_all
  PROVE  \/ CallersSame
         \/ \E a \in Appenders : AppendingStep(a)
         \/ ProcessEnds /\ UNCHANGED <<issued, acked>> /\ \A a \in Appenders : apc'[a] = "idle"
<1>1. CASE AQuiet
  BY Zenon, <1>1 DEF AQuiet
<1>2. CASE OpeningStep
  BY Zenon, <1>2, OpeningFrame
<1>3. CASE FlushingStep
  BY Zenon, <1>3, FlushingFrame
<1>4. CASE CompactingStep
  BY Zenon, <1>4, CompactingFrame
<1>5. CASE ProcessEnds
  BY Zenon, <1>5 DEF ProcessEnds, LoseProcess
<1> QED
  BY Zenon, <1>1, <1>2, <1>3, <1>4, <1>5, AckedCases

\* The engine stops running only when nobody appends.
LEMMA StopsRunning ==
  ASSUME CInv, IssuedInv, [CNext]_all, phase = "running", phase' # "running"
  PROVE  NoReaders \/ ProcessEnds
<1>1. CASE AQuiet
  BY Zenon, <1>1 DEF AQuiet
<1>2. CASE OpeningStep
  BY Zenon, <1>2, OpeningFrame DEF OpenPhases
<1>3. ~(\E a \in Appenders : AppendingStep(a)) /\ ~FlushingStep /\ ~CompactingStep
  BY Zenon, AppendingFrame, FlushingFrame, CompactingFrame
<1> QED
  BY Zenon, <1>1, <1>2, <1>3, AckedCases

\* Records are issued before they are anywhere.
LEMMA IssuedStep ==
  ASSUME CInv, IssuedInv, [CNext]_all
  PROVE  IssuedInv'
<1>2. /\ issued \subseteq Records /\ acked \subseteq issued /\ snap \subseteq issued
      /\ \A a \in Appenders : apc[a] # "idle" => phase = "running" /\ arec[a] \in issued
      /\ \A s \in DOMAIN segs : segs[s] \subseteq issued
      /\ \A w \in Windows : mem[w] \subseteq issued
      /\ fpc \notin {"finish", "commit", "unlink", "register"} => snap = {}
  BY Zenon DEF IssuedInv, InFlight
<1>3. /\ issued \subseteq issued' /\ issued' \subseteq Records /\ acked' \subseteq issued'
      /\ \A a \in Appenders : apc'[a] # "idle" => phase' = "running" /\ arec'[a] \in issued'
  <2>1. CASE CallersSame
    <3>1. \A a \in Appenders : apc'[a] # "idle" => phase' = "running"
      BY Zenon, <1>2, <2>1, StopsRunning DEF CallersSame, NoReaders, ProcessEnds, LoseProcess
    <3> QED
      BY Zenon, <1>2, <2>1, <3>1 DEF CallersSame
  <2>2. ASSUME NEW a \in Appenders, AppendingStep(a)
        PROVE  /\ issued \subseteq issued' /\ issued' \subseteq Records /\ acked' \subseteq issued'
               /\ \A b \in Appenders : apc'[b] # "idle" => phase' = "running" /\ arec'[b] \in issued'
    <3>1. phase' = "running"
      BY Zenon, <2>2, AppendingFrame
    <3>2. CASE AppendStep(a)
      <4>1. /\ issued' = issued /\ apc[a] # "idle"
            /\ \A b \in Appenders : b # a => apc'[b] = apc[b] /\ arec'[b] = arec[b]
        BY Zenon, <3>2, AppendStepEffect
      <4>2. acked' \subseteq issued /\ (apc'[a] # "idle" => arec'[a] = arec[a])
        BY Zenon, <1>2, <3>2, <4>1, AppendStepEffect DEF Routed, RefusedNow, InsertedNow, AckedNow
      <4> QED
        BY Zenon, <1>2, <3>1, <4>1, <4>2
    <3>3. ASSUME NEW r \in Records, AppendWAL(a, r)
          PROVE  /\ issued \subseteq issued' /\ issued' \subseteq Records /\ acked' \subseteq issued'
                 /\ \A b \in Appenders : apc'[b] # "idle" => arec'[b] \in issued'
      <4>1. /\ issued' = issued \cup {r} /\ acked' = acked /\ arec'[a] = r
            /\ \A b \in Appenders : b # a => apc'[b] = apc[b] /\ arec'[b] = arec[b]
        BY Zenon, <3>3, AppendWALEffect
      <4> QED
        BY Zenon, <1>2, <4>1
    <3> QED
      BY Zenon, <2>2, <3>1, <3>2, <3>3 DEF AppendingStep
  <2>3. CASE UNCHANGED <<issued, acked>> /\ \A a \in Appenders : apc'[a] = "idle"
    BY Zenon, <1>2, <2>3
  <2> QED
    BY Zenon, <2>1, <2>2, <2>3, CallersCases
<1>4. \A s \in DOMAIN segs' : segs'[s] \subseteq issued'
  <2>1. CASE segs' = segs
    BY Zenon, <1>2, <1>3, <2>1
  <2>2. CASE ReplaySegment
    <3>1. DOMAIN segs' \subseteq DOMAIN segs /\ \A t \in DOMAIN segs' : segs'[t] = segs[t]
      BY Zenon, <2>2, ReplaySegmentEffect
    <3> QED
      BY Zenon, <1>2, <1>3, <3>1
  <2>3. ASSUME NEW n, OpenSegment(n) PROVE \A s \in DOMAIN segs' : segs'[s] \subseteq issued'
    <3>1. /\ DOMAIN segs' = DOMAIN segs \cup {n} /\ \A s \in DOMAIN segs : segs'[s] = segs[s]
          /\ n \notin DOMAIN segs => segs'[n] = {}
      BY Zenon, <2>3, OpenSegmentEffect
    <3> QED
      BY Zenon, <1>2, <1>3, <3>1
  <2>4. CASE FlushUnlink
    <3>1. DOMAIN segs' = DOMAIN segs \ {oldWAL} /\ \A s \in DOMAIN segs' : segs'[s] = segs[s]
      BY Zenon, <2>4, FlushUnlinkEffect
    <3> QED
      BY Zenon, <1>2, <1>3, <3>1
  <2>5. ASSUME NEW a \in Appenders, NEW r \in Records, AppendWAL(a, r)
        PROVE  \A s \in DOMAIN segs' : segs'[s] \subseteq issued'
    <3>1. /\ DOMAIN segs' = DOMAIN segs /\ segs'[curWAL] = segs[curWAL] \cup {r}
          /\ curWAL \in DOMAIN segs
          /\ \A s \in DOMAIN segs : s # curWAL => segs'[s] = segs[s]
          /\ issued' = issued \cup {r}
      BY Zenon, <2>5, AppendWALEffect
    <3> QED
      BY Zenon, <1>2, <3>1
  <2> QED
    BY Zenon, <2>1, <2>2, <2>3, <2>4, <2>5, SegsCases DEF OpenActiveWAL, FlushRotate
<1>5. \A w \in Windows : mem'[w] \subseteq issued'
  <2>1. CASE mem' = mem
    BY Zenon, <1>2, <1>3, <2>1
  <2>2. CASE ReplaySegment
    <3>1. PICK s \in todoSegs : s \in DOMAIN segs /\ \A w \in Windows :
             mem'[w] = mem[w] \cup {r \in segs[s] : ~Covered(r) /\ ~Refused(r) /\ Win(r) = w}
      BY Zenon, <2>2, ReplaySegmentEffect
    <3> QED
      BY Zenon, <1>2, <1>3, <3>1
  <2>3. CASE FlushSwap
    BY Zenon, <1>2, <1>3, <2>3, FlushSwapEffect
  <2>4. CASE ProcessEnds
    BY Zenon, <2>4 DEF ProcessEnds, LoseProcess
  <2>5. ASSUME NEW a \in Appenders, AppendStep(a), InsertedNow(a)
        PROVE  \A w \in Windows : mem'[w] \subseteq issued'
    <3>1. arec[a] \in issued
      BY Zenon, <1>2, <2>5 DEF InsertedNow, Uninserted
    <3> QED
      BY Zenon, <1>2, <1>3, <2>5, <3>1 DEF InsertedNow
  <2> QED
    BY Zenon, <2>1, <2>2, <2>3, <2>4, <2>5, MemCases
<1>6. snap' \subseteq issued' /\ (fpc' \notin {"finish", "commit", "unlink", "register"} => snap' = {})
  <2>1. CASE FlushingStep
    <3>1. CASE FlushSwap
      BY Zenon, <1>2, <1>3, <3>1, FlushSwapEffect DEF FlushSwap
    <3>2. CASE FlushBump \/ FlushRotate \/ FlushCreate \/ FlushCommit \/ FlushUnlink
      BY Zenon, <1>2, <1>3, <3>2 DEF FlushBump, FlushRotate, FlushCreate, FlushCommit, FlushUnlink
    <3>3. CASE FlushFinish
      BY Zenon, <1>2, <1>3, <3>3 DEF FlushFinish
    <3>4. CASE FlushRegister \/ FlushCommitUnsynced
      BY Zenon, <3>4 DEF FlushRegister, FlushCommitUnsynced, FlushReturns
    <3>5. CASE FlushFail
      BY Zenon, <1>2, <1>3, <3>5 DEF FlushFail, FlushReturns
    <3> QED
      BY Zenon, <2>1, <3>1, <3>2, <3>3, <3>4, <3>5 DEF FlushingStep, FlushSignals, FlushStep, FailingFlush
  <2>2. CASE snap' = snap /\ (fpc' = fpc \/ (fpc = "idle" /\ fpc' = "bump"))
    BY Zenon, <1>2, <1>3, <2>2
  <2>3. CASE snap' = {} /\ fpc' = "idle"
    BY Zenon, <2>3
  <2> QED
    BY Zenon, <2>1, <2>2, <2>3, SnapCases
<1> QED
  BY Zenon, <1>3, <1>4, <1>5, <1>6 DEF IssuedInv, InFlight

-----------------------------------------------------------------------------
(* HandoverInv *)

\* Where the compactor is between the edit of a retirement and the end of it.
LEMMA RetireMoves ==
  ASSUME CInv, IssuedInv, [CNext]_all, cpc' \in {"unlink", "forget"}
  PROVE  ~ProcessEnds /\ cin' = cin /\ cpc \in {"retire", "unlink", "forget"}
<1>1. CASE AQuiet
  <2>1. ~ProcessEnds
    BY Zenon DEF ProcessEnds, CompactReturns
  <2> QED
    BY Zenon, <1>1, <2>1 DEF AQuiet, CompactorSame
<1>2. CASE OpeningStep
  <2>1. CompactorSame
    BY Zenon, <1>2, OpeningFrame
  <2> QED
    BY Zenon, <2>1 DEF ProcessEnds, CompactReturns, CompactorSame
<1>3. ASSUME NEW a \in Appenders, AppendingStep(a) PROVE CompactorSame
  BY Zenon, <1>3, AppendingFrame
<1>4. CASE CompactorSame
  BY Zenon, <1>4 DEF ProcessEnds, CompactReturns, CompactorSame
<1>5. CASE CompactingStep
  <2>1. ~ProcessEnds
    BY Zenon DEF ProcessEnds, CompactReturns
  <2>2. /\ ~MergeCreate /\ ~MergeFinish /\ ~MergeInstall /\ ~RetireForget
        /\ ~CompactorFails /\ ~CompactorCommitUnsynced
    BY Zenon DEF MergeCreate, MergeFinish, MergeInstall, RetireForget, CompactorFails,
                 CompactorCommitUnsynced, CompactReturns
  <2>3. CASE CompactorCommit
    BY Zenon, <2>1, <2>3 DEF CompactorCommit
  <2>4. CASE CompactorRemove \/ CompactorRemoveFails
    BY Zenon, <2>1, <2>4 DEF CompactorRemove, CompactorRemoveFails
  <2> QED
    BY Zenon, <1>5, <2>2, <2>3, <2>4 DEF CompactingStep
<1>6. ~ProcessEnds
  BY Zenon DEF ProcessEnds, CompactReturns
<1> QED
  BY Zenon, <1>1, <1>2, <1>3, <1>4, <1>5, <1>6, FlushingFrame, AckedCases

\* The records of files that stay in place stay with them.
LEMMA InputsKept ==
  ASSUME CInv, FreshOutput, [CNext]_all, ~ProcessEnds, cpc # "idle", NEW p \in cin
  PROVE  sst'[p] = sst[p]
<1>1. p \in OpenReaders
  BY Zenon DEF CInv, CFilesInv, PickedInv, FilesOf, OpenReaders
<1> QED
  BY Zenon, <1>1, ReadFileKept

\* A flush and the compactor hand on what they have taken over.
LEMMA HandoverStep ==
  ASSUME CInv, IssuedInv, HandoverInv, FreshOutput, [CNext]_all
  PROVE  HandoverInv'
<1>0. manifest \in Seq(Range(manifest)) /\ FlushedInv /\ PickedInv /\ CDataInv
  BY Zenon DEF CInv, CTypeInv, CFilesInv
<1>1. PICK f : f = FlushPath
  BY Zenon
<1>2. ASSUME fpc' \in {"commit", "unlink", "register"}
      PROVE  FlushPath' = f /\ snap' # {} /\ sst'[f] = [done |-> TRUE, recs |-> snap']
  <2>1. FlushPath' = f
    BY Zenon, <1>1, <1>2, FlushMoves
  <2>2. CASE FlushFinish
    <3>1. fpc = "finish" /\ snap' = snap /\ snap # {}
          /\ sst' = [sst EXCEPT ![f] = [done |-> TRUE, recs |-> snap]]
      BY Zenon, <1>1, <1>2, <2>2 DEF FlushFinish
    <3>2. f \in DOMAIN sst
      BY Zenon, <1>0, <1>1, <3>1 DEF FlushedInv, Flushing
    <3> QED
      BY Zenon, <2>1, <3>1, <3>2
  <2>3. CASE ~FlushFinish
    <3>1. fpc \in {"commit", "unlink", "register"} /\ ~ProcessEnds
      <4>1. ~ProcessEnds
        BY Zenon, <1>2 DEF ProcessEnds, LoseProcess
      <4>2. CASE FlushingStep
        <5>1. /\ ~FlushBump /\ ~FlushRotate /\ ~FlushCreate /\ ~FlushSwap /\ ~FlushRegister
              /\ ~FlushCommitUnsynced
          BY Zenon, <1>2 DEF FlushBump, FlushRotate, FlushCreate, FlushSwap, FlushRegister,
                             FlushCommitUnsynced, FlushReturns
        <5>2. FlushCommit \/ FlushUnlink \/ FlushFail
          BY Zenon, <2>3, <4>2, <5>1 DEF FlushingStep, FlushSignals, FlushStep, FailingFlush
        <5> QED
          BY Zenon, <1>2, <4>1, <5>2 DEF FlushCommit, FlushUnlink, FlushFail, FlushReturns
      <4> QED
        BY Zenon, <1>2, <4>1, <4>2, SnapCases
    <3>2. snap # {} /\ sst[f] = [done |-> TRUE, recs |-> snap] /\ f \in DOMAIN sst
      BY Zenon, <1>0, <1>1, <3>1 DEF HandoverInv, FlushedInv, Flushing
    <3>3. snap' = snap
      <4>1. CASE FlushingStep
        <5>1. ~FlushBump /\ ~FlushRotate /\ ~FlushCreate /\ ~FlushSwap
          BY Zenon, <3>1 DEF FlushBump, FlushRotate, FlushCreate, FlushSwap
        <5>2. ~FlushRegister /\ ~FlushCommitUnsynced
          BY Zenon, <1>2 DEF FlushRegister, FlushCommitUnsynced, FlushReturns
        <5>3. FlushFinish \/ FlushCommit \/ FlushUnlink \/ FlushFail
          BY Zenon, <4>1, <5>1, <5>2 DEF FlushingStep, FlushSignals, FlushStep, FailingFlush
        <5> QED
          BY Zenon, <1>2, <5>3 DEF FlushFinish, FlushCommit, FlushUnlink, FlushFail, FlushReturns
      <4> QED
        BY Zenon, <3>1, <4>1, SnapCases
    <3>4. phase = "manifest" => f \in files
      BY Zenon, <3>1 DEF CInv, CPositionInv, Live
    <3>5. MergeFinish => f # Output
      BY Zenon, <1>1, DifferentNames DEF FlushPath, Output
    <3>6. sst'[f] = sst[f]
      BY Zenon, <2>3, <3>1, <3>2, <3>4, <3>5, FinishedFileKept
    <3> QED
      BY Zenon, <2>1, <3>2, <3>3, <3>6
  <2> QED
    BY Zenon, <2>2, <2>3
<1>3. ASSUME fpc' \in {"unlink", "register"} PROVE Alive(f)'
  <2>1. CASE FlushCommit
    <3>1. PICK e : /\ manifest' = Append(manifest, e) /\ e.deleted = {}
                   /\ \E fe : e.added = {fe} /\ fe.path = FlushPath
      BY Zenon, <2>1, FlushEdit
    <3> QED
      BY Zenon, <1>0, <1>1, <3>1, AliveAppended
  <2>2. CASE ~FlushCommit
    <3>1. fpc \in {"unlink", "register"}
      BY Zenon, <1>3, <2>2, FlushMoves DEF FlushCreate
    <3>2. Alive(f) /\ f \notin OpenReaders /\ ~FlushCommitUnsynced
      BY Zenon, <1>0, <1>1, <3>1 DEF HandoverInv, FlushedInv, Flushing, FlushCommitUnsynced
    <3>3. CASE manifest' = manifest
      BY Zenon, <3>2, <3>3 DEF Alive, AddedForGood
    <3>4. CASE CompactorCommit \/ CompactorCommitUnsynced
      <4>1. PICK e : manifest' = Append(manifest, e) /\ e.deleted = cin
        BY Zenon, <3>4, CompactorEdit
      <4>2. f \notin cin
        BY Zenon, <1>0, <3>2, <3>4 DEF PickedInv, FilesOf, OpenReaders, CompactorCommit,
                                       CompactorCommitUnsynced
      <4> QED
        BY Zenon, <1>0, <3>2, <4>1, <4>2, AliveAppended
    <3> QED
      BY Zenon, <2>2, <3>2, <3>3, <3>4, ManifestCases
  <2> QED
    BY Zenon, <2>1, <2>2
<1>4. ASSUME cpc' \in {"remove", "install"} PROVE \A p \in cin' : sst'[p].recs \subseteq crecs'
  <2>1. /\ cin' = cin /\ ~ProcessEnds
        /\ \/ CompactorCommit /\ cpc = "commit"
           \/ cpc \in {"remove", "install"}
    BY Zenon, <1>4, MergeMoves DEF MergeCreate
  <2>2. \A p \in cin : sst[p].recs \subseteq crecs
    BY Zenon, <1>0, <2>1 DEF HandoverInv, CDataInv
  <2>3. crecs' = crecs
    <3>1. CASE CompactingStep
      <4>1. ~MergeCreate /\ ~MergeFinish
        BY Zenon, <2>1 DEF MergeCreate, MergeFinish
      <4>2. ~MergeInstall /\ ~RetireForget /\ ~CompactorFails /\ ~CompactorCommitUnsynced
        BY Zenon, <1>4 DEF MergeInstall, RetireForget, CompactorFails, CompactorCommitUnsynced, CompactReturns
      <4> QED
        BY Zenon, <3>1, <4>1, <4>2 DEF CompactingStep, CompactorCommit, CompactorRemove, CompactorRemoveFails
    <3>2. CASE AQuiet
      BY Zenon, <1>4, <2>1, <3>2 DEF AQuiet, CompactorSame
    <3> QED
      BY Zenon, <2>1, <3>1, <3>2, AckedCases, OpeningFrame, AppendingFrame, FlushingFrame DEF CompactorSame
  <2>4. \A p \in cin : sst'[p] = sst[p]
    BY Zenon, <2>1, InputsKept
  <2> QED
    BY Zenon, <2>1, <2>2, <2>3, <2>4
<1>5. ASSUME cpc' \in {"unlink", "forget"} PROVE \A p \in cin' : sst'[p].recs \subseteq Expired'
  <2>1. ~ProcessEnds /\ cin' = cin /\ cpc \in {"retire", "unlink", "forget"}
    BY Zenon, <1>5, RetireMoves
  <2>2. \A p \in cin : sst[p].recs \subseteq Expired
    BY Zenon, <1>0, <2>1 DEF HandoverInv, CDataInv
  <2>3. \A p \in cin : sst'[p] = sst[p]
    BY Zenon, <2>1, InputsKept
  <2> QED
    BY Zenon, <2>1, <2>2, <2>3, ExpiredStays
<1>6. fpc' \in {"unlink", "register"} => Alive(FlushPath)'
  <2> SUFFICES ASSUME fpc' \in {"unlink", "register"} PROVE Alive(FlushPath)'
    BY Zenon
  <2>1. FlushPath' = f /\ Alive(f)'
    BY Zenon, <1>2, <1>3
  <2> QED
    BY Zenon, <2>1 DEF Alive, AddedForGood
<1> QED
  BY Zenon, <1>2, <1>4, <1>5, <1>6 DEF HandoverInv

-----------------------------------------------------------------------------
(* WindowInv *)

\* A merge that goes on keeps its window and what it has read.
LEMMA MergeKeeps ==
  ASSUME CInv, [CNext]_all, cpc' \in {"finish", "commit"}, ~MergeCreate
  PROVE  cpc \in {"finish", "commit"} /\ crecs' = crecs /\ cwin' = cwin
<1>1. ~ProcessEnds
  BY Zenon DEF ProcessEnds, CompactReturns
<1> QED
  BY Zenon, <1>1, CompactorMoves, MergeMoves

\* Records stay among those of their window.
LEMMA WindowStep ==
  ASSUME CInv, IssuedInv, WindowInv, [CNext]_all
  PROVE  WindowInv'
<1>0. /\ \A w \in Windows : \A r \in mem[w] : Win(r) = w
      /\ \A r \in snap : Win(r) = fwin
      /\ \A p \in DOMAIN sst : \A r \in sst[p].recs : Win(r) = p.win
      /\ cpc \in {"finish", "commit"} => \A r \in crecs : Win(r) = cwin
  BY Zenon DEF WindowInv
<1>1. \A w \in Windows : \A r \in mem'[w] : Win(r) = w
  <2>1. CASE mem' = mem
    BY Zenon, <1>0, <2>1
  <2>2. CASE ReplaySegment
    <3>1. PICK s \in todoSegs : \A w \in Windows :
             mem'[w] = mem[w] \cup {r \in segs[s] : ~Covered(r) /\ ~Refused(r) /\ Win(r) = w}
      BY Zenon, <2>2, ReplaySegmentEffect
    <3>2. ASSUME NEW w \in Windows, NEW r \in mem'[w] PROVE Win(r) = w
      <4>1. r \in mem[w] \/ Win(r) = w
        BY Zenon, <3>1, <3>2
      <4> QED
        BY Zenon, <1>0, <3>2, <4>1
    <3> QED
      BY Zenon, <3>2
  <2>3. CASE FlushSwap
    BY Zenon, <1>0, <2>3, FlushSwapEffect
  <2>4. CASE ProcessEnds
    BY Zenon, <2>4 DEF ProcessEnds, LoseProcess
  <2>5. ASSUME NEW a \in Appenders, InsertedNow(a) PROVE \A w \in Windows : \A r \in mem'[w] : Win(r) = w
    BY Zenon, <1>0, <2>5 DEF InsertedNow
  <2> QED
    BY Zenon, <2>1, <2>2, <2>3, <2>4, <2>5, MemCases
<1>2. \A r \in snap' : Win(r) = fwin'
  <2>1. CASE FlushingStep
    <3>1. fwin' = fwin
      BY Zenon, <2>1, FlushingFrame
    <3>2. CASE FlushSwap
      BY Zenon, <1>0, <3>1, <3>2, FlushSwapEffect
    <3>3. CASE ~FlushSwap
      BY Zenon, <1>0, <3>1, <3>3, SnapShrinks
    <3> QED
      BY Zenon, <3>2, <3>3
  <2>2. CASE ~FlushingStep
    <3>1. snap' = snap \/ snap' = {}
      BY Zenon, <2>2, SnapCases
    <3>2. fwin' = fwin \/ snap' = {}
      <4>1. CASE AQuiet
        BY Zenon, <4>1 DEF AQuiet, IssuedInv
      <4>2. CASE ProcessEnds
        BY Zenon, <4>2 DEF ProcessEnds, LoseProcess
      <4> QED
        BY Zenon, <2>2, <4>1, <4>2, AckedCases, OpeningFrame, AppendingFrame, CompactingFrame DEF FlushSame
    <3> QED
      BY Zenon, <1>0, <3>1, <3>2
  <2> QED
    BY Zenon, <2>1, <2>2
<1>3. ASSUME NEW p \in DOMAIN sst', NEW r \in sst'[p].recs PROVE Win(r) = p.win
  <2>1. CASE p \in DOMAIN sst /\ sst'[p] = sst[p]
    BY Zenon, <1>0, <1>3, <2>1
  <2>2. CASE sst'[p].recs = {}
    BY Zenon, <1>3, <2>2
  <2>3. CASE sst'[p].recs = snap /\ p.win = fwin
    BY Zenon, <1>0, <1>3, <2>3
  <2>4. CASE cpc = "finish" /\ sst'[p].recs = crecs /\ p.win = cwin
    BY Zenon, <1>0, <1>3, <2>4
  <2>5. CASE RemoveOrphans \/ ProcessEnds
    <3>0. PICK D : D \subseteq DOMAIN sst /\ sst' = Restrict(sst, D)
      <4>1. (DOMAIN sst \cap files) \subseteq DOMAIN sst /\ \A U : (DOMAIN sst \ U) \subseteq DOMAIN sst
        BY Zenon
      <4> QED
        BY Zenon, <2>5, <4>1 DEF RemoveOrphans, ProcessEnds
    <3>1. p \in DOMAIN sst /\ sst'[p] = sst[p]
      BY Zenon, <1>3, <3>0 DEF Restrict
    <3> QED
      BY Zenon, <2>1, <3>1
  <2>6. CASE FlushCreate \/ MergeCreate
    <3>1. sst'[p] = [done |-> FALSE, recs |-> {}] \/ (p \in DOMAIN sst /\ sst'[p] = sst[p])
      <4>1. PICK f : sst' = [q \in DOMAIN sst \cup {f} |-> IF q = f THEN [done |-> FALSE, recs |-> {}] ELSE sst[q]]
        BY Zenon, <2>6 DEF FlushCreate, MergeCreate
      <4> QED
        BY Zenon, <1>3, <4>1
    <3>2. sst'[p] = [done |-> FALSE, recs |-> {}] => sst'[p].recs = {}
      BY SMT
    <3> QED
      BY Zenon, <2>1, <2>2, <3>1, <3>2
  <2>7. CASE FlushFinish
    <3>1. \/ p \in DOMAIN sst /\ sst'[p] = sst[p]
          \/ p = FlushPath /\ sst'[p] = [done |-> TRUE, recs |-> snap]
      BY Zenon, <1>3, <2>7 DEF FlushFinish, Remove, Restrict
    <3>2. sst'[p] = [done |-> TRUE, recs |-> snap] => sst'[p].recs = snap
      BY SMT
    <3>3. p = FlushPath => p.win = fwin
      BY Zenon, FlushedPath DEF FlushPath
    <3> QED
      BY Zenon, <2>1, <2>3, <3>1, <3>2, <3>3
  <2>8. CASE MergeFinish
    <3>1. \/ p \in DOMAIN sst /\ sst'[p] = sst[p]
          \/ p = Output /\ sst'[p] = [done |-> TRUE, recs |-> crecs]
      BY Zenon, <1>3, <2>8 DEF MergeFinish
    <3>2. sst'[p] = [done |-> TRUE, recs |-> crecs] => sst'[p].recs = crecs
      BY SMT
    <3>3. (p = Output => p.win = cwin) /\ cpc = "finish"
      BY Zenon, <2>8, MergedPath DEF Output, MergeFinish
    <3> QED
      BY Zenon, <2>1, <2>4, <3>1, <3>2, <3>3
  <2> QED
    BY Zenon, <1>3, <2>1, <2>5, <2>6, <2>7, <2>8, SstCases
<1>4. ASSUME cpc' \in {"finish", "commit"}, NEW r \in crecs' PROVE Win(r) = cwin'
  <2>1. CASE MergeCreate
    <3>1. crecs' = RecordsIn(cin) /\ cpc = "create" /\ cwin' = cwin
      BY Zenon, <2>1 DEF MergeCreate
    <3>2. PICK p \in cin : p \in DOMAIN sst /\ r \in sst[p].recs
      BY Zenon, <1>4, <3>1 DEF RecordsIn
    <3>3. p.win = cwin
      BY Zenon, <3>1, <3>2 DEF CInv, CFilesInv, PickedInv, FilesOf
    <3> QED
      BY Zenon, <1>0, <3>1, <3>2, <3>3
  <2>2. CASE ~MergeCreate
    BY Zenon, <1>0, <1>4, <2>2, MergeKeeps
  <2> QED
    BY Zenon, <2>1, <2>2
<1> QED
  BY Zenon, <1>1, <1>2, <1>3, <1>4 DEF WindowInv

-----------------------------------------------------------------------------
(* MaxInv *)

\* The entries of the manifest stay there.
LEMMA EntriesStay ==
  ASSUME CInv, [CNext]_all
  PROVE  Entries \subseteq Entries'
<1>0. manifest \in Seq(Range(manifest))
  BY Zenon DEF CInv, CTypeInv
<1>1. CASE manifest' = manifest
  BY Zenon, <1>1 DEF Entries
<1>2. CASE manifest' # manifest
  <2>1. PICK e : manifest' = Append(manifest, e)
    BY Zenon, <1>2, EditAdds
  <2>2. /\ DOMAIN manifest = 1 .. Len(manifest) /\ DOMAIN manifest' = 1 .. (Len(manifest) + 1)
        /\ Len(manifest) \in Nat /\ \A i \in DOMAIN manifest : manifest'[i] = manifest[i]
    BY Zenon, <1>0, <2>1, EditAppended
  <2>3. DOMAIN manifest \subseteq DOMAIN manifest'
    BY <2>2
  <2> QED
    BY Zenon, <2>2, <2>3 DEF Entries
<1> QED
  BY Zenon, <1>1, <1>2

\* An entry that a new edit adds.
LEMMA EntryAppended ==
  ASSUME manifest \in Seq(Range(manifest)), NEW e, manifest' = Append(manifest, e), NEW fe \in Entries'
  PROVE  fe \in Entries \/ fe \in e.added
<1>1. /\ DOMAIN manifest = 1 .. Len(manifest) /\ DOMAIN manifest' = 1 .. (Len(manifest) + 1)
      /\ Len(manifest) \in Nat /\ \A i \in DOMAIN manifest : manifest'[i] = manifest[i]
      /\ manifest'[Len(manifest) + 1] = e
  BY Zenon, EditAppended
<1>2. \A i \in DOMAIN manifest' : i \in DOMAIN manifest \/ i = Len(manifest) + 1
  BY <1>1
<1>3. PICK i \in DOMAIN manifest' : fe \in manifest'[i].added
  BY Zenon DEF Entries
<1>4. CASE i \in DOMAIN manifest
  BY Zenon, <1>1, <1>3, <1>4 DEF Entries
<1>5. CASE i = Len(manifest) + 1
  BY Zenon, <1>1, <1>3, <1>5
<1> QED
  BY Zenon, <1>2, <1>3, <1>4, <1>5

\* The largest timestamp of some records is one of theirs.
LEMMA MaxOfRecords ==
  ASSUME NEW S, S \subseteq Records, NEW m, IsMaxTS(m, S)
  PROVE  m \in Int /\ (\E q \in S : m = TsOf[q]) /\ \A r \in S : TsOf[r] <= m
<1>1. \A r \in Records : TsOf[r] \in Int
  BY Zenon, TsOfAssumption
<1> QED
  BY Zenon, <1>1 DEF IsMaxTS

\* What the edits of flushes and of merges add.
LEMMA NewEntry ==
  ASSUME CInv, MaxInv, MaxExists, [CNext]_all, NEW fe \in Entries', fe \notin Entries
  PROVE  \/ (FlushCommit \/ FlushCommitUnsynced) /\ fe.path = FlushPath /\ IsMaxTS(fe.max, snap)
         \/ (CompactorCommit \/ CompactorCommitUnsynced) /\ cpc = "commit" /\ fe.path = Output /\ IsMaxTS(fe.max, crecs)
<1>0. manifest \in Seq(Range(manifest)) /\ crecs \subseteq Records
  BY Zenon DEF CInv, CTypeInv, CompactorTypes
<1>1. manifest' # manifest
  BY Zenon DEF Entries
<1>2. CASE FlushCommit \/ FlushCommitUnsynced
  <2>1. PICK m : /\ IsMaxTS(m, snap)
                 /\ manifest' = Append(manifest, [added |-> {[path |-> FlushPath, max |-> m]}, deleted |-> {}])
    BY Zenon, <1>2 DEF FlushCommit, FlushCommitUnsynced, WriteEdit
  <2>2. PICK e : e = [added |-> {[path |-> FlushPath, max |-> m]}, deleted |-> {}]
    BY Zenon
  <2>3. fe \in e.added
    BY Zenon, <1>0, <2>1, <2>2, EntryAppended
  <2>4. fe = [path |-> FlushPath, max |-> m]
    BY <2>2, <2>3
  <2>5. fe.path = FlushPath /\ fe.max = m
    BY Zenon, <2>4
  <2> QED
    BY Zenon, <1>2, <2>1, <2>5
<1>3. CASE CompactorCommit \/ CompactorCommitUnsynced
  <2>1. PICK e : /\ manifest' = Append(manifest, e)
                 /\ e.added = IF cpc = "commit" THEN {[path |-> Output, max |-> MaxTS(crecs)]} ELSE {}
    <3>1. PICK x : x = IF cpc = "commit" THEN {[path |-> Output, max |-> MaxTS(crecs)]} ELSE {}
      BY Zenon
    <3>2. manifest' = Append(manifest, [added |-> x, deleted |-> cin])
      BY Zenon, <1>3, <3>1 DEF CompactorCommit, CompactorCommitUnsynced, WriteCompactorEdit
    <3>3. [added |-> x, deleted |-> cin].added = x
      BY Zenon
    <3> QED
      BY Zenon, <3>1, <3>2, <3>3
  <2>2. fe \in e.added
    BY Zenon, <1>0, <2>1, EntryAppended
  <2>3. cpc = "commit" /\ fe = [path |-> Output, max |-> MaxTS(crecs)]
    BY Zenon, <2>1, <2>2
  <2>4. fe.path = Output /\ fe.max = MaxTS(crecs)
    BY Zenon, <2>3
  <2>5. \E m \in {TsOf[r] : r \in crecs} : IsMaxTS(m, crecs)
    BY Zenon, <1>0, <2>3 DEF MaxInv, MaxExists
  <2>6. IsMaxTS(MaxTS(crecs), crecs)
    BY Zenon, <2>5 DEF MaxTS
  <2> QED
    BY Zenon, <1>3, <2>3, <2>4, <2>6
<1> QED
  BY Zenon, <1>1, <1>2, <1>3, ManifestCases

\* A file that the manifest names does not change while it is there.
LEMMA ListedFileSame ==
  ASSUME CInv, ListedInv, UnusedOutput, [CNext]_all, NEW p \in Listed, p \in DOMAIN sst'
  PROVE  p \in DOMAIN sst /\ sst'[p] = sst[p]
<1>1. p \in DOMAIN sst
  BY Zenon, ListedFileFromBefore
<1>2. CASE sst' = sst
  BY Zenon, <1>1, <1>2
<1>3. CASE RemoveOrphans
  BY Zenon, <1>1, <1>3 DEF RemoveOrphans, Restrict
<1>4. CASE FlushCreate
  <2>1. p # FlushPath
    BY Zenon, <1>4, FlushFresh DEF FlushCreate, Names
  <2> QED
    BY Zenon, <1>1, <1>4, <2>1 DEF FlushCreate
<1>5. CASE FlushFinish
  <2>1. p # FlushPath
    BY Zenon, <1>5 DEF FlushFinish, ListedInv
  <2> QED
    BY Zenon, <1>1, <1>5, <2>1 DEF FlushFinish, Remove, Restrict
<1>6. CASE MergeCreate
  <2>1. p # [win |-> cwin, compact |-> NextCompactSeq]
    BY Zenon, <1>6 DEF MergeCreate, UnusedOutput, Names
  <2> QED
    BY Zenon, <1>1, <1>6, <2>1 DEF MergeCreate
<1>7. CASE MergeFinish
  <2>1. p # Output
    BY Zenon, <1>7 DEF MergeFinish, ListedInv
  <2> QED
    BY Zenon, <1>1, <1>7, <2>1 DEF MergeFinish
<1>8. CASE ProcessEnds
  BY Zenon, <1>1, <1>8 DEF ProcessEnds, Restrict
<1> QED
  BY Zenon, <1>1, <1>2, <1>3, <1>4, <1>5, <1>6, <1>7, <1>8, SstCases

\* The edit of a merge does not raise the largest timestamp of its window.
LEMMA MergedMax ==
  ASSUME CInv, MaxInv, cpc = "commit", NEW m, IsMaxTS(m, crecs)
  PROVE  m \in Int /\ \E fe \in Entries : fe.path.win = cwin /\ fe.max \in Int /\ m <= fe.max
<1>1. crecs \subseteq Records
  BY Zenon DEF CInv, CTypeInv, CompactorTypes
<1>2. m \in Int /\ \E q \in crecs : m = TsOf[q]
  BY Zenon, <1>1, MaxOfRecords
<1> QED
  BY Zenon, <1>2 DEF MaxInv

\* What a merge reads is not newer than the files that it reads from.
LEMMA MergeReads ==
  ASSUME CInv, ListedInv, MaxInv, MergeCreate
  PROVE  crecs' # {} /\ \A r \in crecs' : \E fe \in Entries : fe.path.win = cwin' /\ TsOf[r] <= fe.max
<1>1. crecs' = RecordsIn(cin) /\ cpc = "create" /\ cwin' = cwin
  BY Zenon DEF MergeCreate
<1>2. cin # {} /\ \A p \in cin : p \in files /\ p.win = cwin
  BY Zenon, <1>1 DEF CInv, CFilesInv, PickedInv, FilesOf
<1>3. \A p \in cin : p \in DOMAIN sst /\ \E fe \in Entries : fe.path = p
  BY Zenon, <1>2 DEF CInv, CFilesInv, ReadersInv, OpenReaders, ListedInv, Listed
<1>4. \A p \in cin : sst[p].recs # {} /\ \E fe \in Entries :
         fe.path.win = cwin /\ \A r \in sst[p].recs : TsOf[r] <= fe.max
  <2> TAKE p \in cin
  <2>1. PICK fe \in Entries : fe.path = p
    BY Zenon, <1>3
  <2>2. fe.path \in DOMAIN sst /\ fe.path.win = cwin
    BY Zenon, <1>2, <1>3, <2>1
  <2>3. sst[fe.path].recs # {} /\ \A r \in sst[fe.path].recs : TsOf[r] <= fe.max
    BY Zenon, <2>2 DEF MaxInv
  <2> QED
    BY Zenon, <2>1, <2>2, <2>3
<1>5. \A r \in crecs' : \E p \in cin : r \in sst[p].recs
  BY Zenon, <1>1 DEF RecordsIn
<1>6. crecs' # {}
  <2>1. PICK p \in cin : p \in cin
    BY Zenon, <1>2
  <2>2. PICK r \in sst[p].recs : r \in sst[p].recs
    BY Zenon, <1>4
  <2>3. r \in RecordsIn(cin)
    BY Zenon, <1>3, <2>2 DEF RecordsIn
  <2> QED
    BY Zenon, <1>1, <2>3
<1> QED
  BY Zenon, <1>1, <1>4, <1>5, <1>6

\* The maxima of the edits bound what the files hold.
LEMMA MaxStep ==
  ASSUME CInv, ListedInv, IssuedInv, HandoverInv, MaxInv, MaxExists, UnusedOutput, [CNext]_all
  PROVE  MaxInv'
<1>0. snap \subseteq Records /\ crecs \subseteq Records
  BY Zenon DEF IssuedInv, CInv, CTypeInv, CompactorTypes
<1>1. ASSUME NEW fe \in Entries' PROVE fe.max \in Int
  <2>1. CASE fe \in Entries
    BY Zenon, <2>1 DEF MaxInv
  <2>2. CASE IsMaxTS(fe.max, snap)
    BY Zenon, <1>0, <2>2, MaxOfRecords
  <2>3. CASE IsMaxTS(fe.max, crecs)
    BY Zenon, <1>0, <2>3, MaxOfRecords
  <2> QED
    BY Zenon, <2>1, <2>2, <2>3, NewEntry
<1>2. ASSUME NEW fe \in Entries', fe.path \in DOMAIN sst'
      PROVE  sst'[fe.path].recs # {} /\ \A r \in sst'[fe.path].recs : TsOf[r] <= fe.max
  <2>1. CASE fe \in Entries
    <3>1. fe.path \in Listed
      BY Zenon, <2>1 DEF Listed
    <3>2. fe.path \in DOMAIN sst /\ sst'[fe.path] = sst[fe.path]
      BY Zenon, <1>2, <3>1, ListedFileSame
    <3> QED
      BY Zenon, <2>1, <3>2 DEF MaxInv
  <2>2. CASE (FlushCommit \/ FlushCommitUnsynced) /\ fe.path = FlushPath /\ IsMaxTS(fe.max, snap)
    <3>1. sst' = sst /\ snap # {} /\ sst[fe.path] = [done |-> TRUE, recs |-> snap]
      BY Zenon, <2>2 DEF FlushCommit, FlushCommitUnsynced, HandoverInv
    <3>2. sst'[fe.path].recs = snap
      BY <3>1
    <3> QED
      BY Zenon, <2>2, <3>1, <3>2 DEF IsMaxTS
  <2>3. CASE /\ CompactorCommit \/ CompactorCommitUnsynced
             /\ cpc = "commit" /\ fe.path = Output /\ IsMaxTS(fe.max, crecs)
    <3>1. /\ sst' = sst /\ crecs # {}
          /\ sst[fe.path] = [done |-> TRUE, recs |-> crecs]
      BY Zenon, <2>3 DEF CompactorCommit, CompactorCommitUnsynced, MaxInv, CInv, CFilesInv, MergedInv
    <3>2. sst'[fe.path].recs = crecs
      BY <3>1
    <3> QED
      BY Zenon, <2>3, <3>1, <3>2 DEF IsMaxTS
  <2> QED
    BY Zenon, <2>1, <2>2, <2>3, NewEntry
<1>3. ASSUME cpc' \in {"finish", "commit"}
      PROVE  crecs' # {} /\ \A r \in crecs' : \E fe \in Entries' : fe.path.win = cwin' /\ TsOf[r] <= fe.max
  <2>1. CASE MergeCreate
    BY Zenon, <2>1, MergeReads, EntriesStay
  <2>2. CASE ~MergeCreate
    <3>1. cpc \in {"finish", "commit"} /\ crecs' = crecs /\ cwin' = cwin
      BY Zenon, <1>3, <2>2, MergeKeeps
    <3> QED
      BY Zenon, <3>1, EntriesStay DEF MaxInv
  <2> QED
    BY Zenon, <2>1, <2>2
<1> QED
  BY Zenon, <1>1, <1>2, <1>3 DEF MaxInv

-----------------------------------------------------------------------------
(* CoverInv *)

\* A file that replay opens raises the maxFlushedTS of its window to the maximum its edit
\* names.
LEMMA ReplayRaises ==
  ASSUME CInv, ReplayEdit, NEW w \in Windows
  PROVE  \/ maxFlushedTS'[w] = maxFlushedTS[w]
         \/ \E fe \in Entries : fe.path.win = w /\ fe.max = maxFlushedTS'[w]
<1>1. editIdx \in DOMAIN manifest
  <2>1. manifest \in Seq(Range(manifest)) /\ editIdx \in Nat \ {0} /\ editIdx <= Len(manifest)
    BY Zenon DEF CInv, CTypeInv, EngineTypes, ReplayEdit
  <2> QED
    BY <2>1
<1> DEFINE Raises(fe) == fe.path.win = w /\ fe.max > maxFlushedTS[w]
           unreadable == \E fe \in manifest[editIdx].added : ~Readable(fe.path)
           opened == IF unreadable THEN {} ELSE manifest[editIdx].added
<1>2. maxFlushedTS'[w] = IF \E fe \in opened : Raises(fe)
                         THEN (CHOOSE fe \in opened : Raises(fe)).max ELSE maxFlushedTS[w]
  BY Zenon DEF ReplayEdit
<1>3. opened \subseteq manifest[editIdx].added
  BY Zenon
<1>4. \A fe : Raises(fe) => fe.path.win = w
  BY Zenon
<1> HIDE DEF opened, unreadable, Raises
<1>5. CASE \E fe \in opened : Raises(fe)
  <2>1. PICK g : g = CHOOSE fe \in opened : Raises(fe)
    BY Zenon
  <2>2. g \in opened /\ Raises(g)
    BY Zenon, <1>5, <2>1
  <2>3. g \in Entries
    BY Zenon, <1>1, <1>3, <2>2 DEF Entries
  <2>4. maxFlushedTS'[w] = g.max
    BY SMT, <1>2, <1>5, <2>1
  <2> QED
    BY Zenon, <1>4, <2>2, <2>3, <2>4
<1> QED
  BY Zenon, <1>2, <1>5

\* Once the manifest is replayed, what it refers to is open.
LEMMA RecoveredStep ==
  ASSUME CInv, CoverInv, [CNext]_all, phase' = "segments", NEW p \in Listed', Alive(p)'
  PROVE  p \in files'
<1>1. CASE RemoveOrphans
  <2>1. /\ phase = "manifest" /\ editIdx > Len(manifest) /\ files' = files /\ manifest' = manifest
        /\ manifest \in Seq(Range(manifest)) /\ editIdx \in Nat
    BY Zenon, <1>1 DEF RemoveOrphans, readers, CInv, CTypeInv, EngineTypes
  <2>2. \A i \in DOMAIN manifest : i < editIdx
    BY <2>1
  <2>3. PICK i \in DOMAIN manifest : AddedForGood(i, p)
    BY Zenon, <2>1 DEF Alive, AddedForGood
  <2>4. PICK fe \in manifest[i].added : fe.path = p
    BY Zenon, <2>3 DEF AddedForGood
  <2>5. AddedForGood(i, fe.path) /\ i < editIdx
    BY Zenon, <2>2, <2>3, <2>4
  <2>6. fe.path \in files
    BY Zenon, <2>1, <2>5 DEF CInv, CManifestInv
  <2> QED
    BY Zenon, <2>1, <2>4, <2>6
<1>2. CASE phase = "segments" /\ UNCHANGED <<manifest, files>>
  <2>1. p \in Listed
    BY Zenon, <1>2 DEF Listed, Entries
  <2>2. Alive(p)
    BY Zenon, <1>2 DEF Alive, AddedForGood
  <2> QED
    BY Zenon, <1>2, <2>1, <2>2 DEF CoverInv
<1> QED
  BY Zenon, <1>1, <1>2, SegmentsStep

\* While Open runs, maxFlushedTS holds maxima of files.
LEMMA CoverStep ==
  ASSUME CInv, IssuedInv, CoverInv, [CNext]_all
  PROVE  CoverInv'
<1> USE DEF env, disk, openVars, router, readers, walVars, tasks, flushVars, locals, callers,
            compactor, sweeps, unmapped, scans, cvars
<1> USE DEF OpenPhases
<1> DEFINE Known == /\ phase = "down" => \A w \in Windows : maxFlushedTS[w] = 0
                    /\ phase \in OpenPhases => \A w \in Windows :
                          maxFlushedTS[w] # 0 => \E fe \in Entries : fe.path.win = w /\ fe.max = maxFlushedTS[w]
<1>0. Known
  BY Zenon DEF CoverInv
<1>1. ASSUME AQuiet PROVE Known'
  <2>1. maxFlushedTS' = maxFlushedTS /\ Entries' = Entries
    BY Zenon, <1>1 DEF AQuiet, StoreSame, Entries
  <2>2. phase' = phase \/ (phase = "down" /\ phase' = "manifest") \/ phase' \in Live \cup {"closed"}
    BY Zenon, <1>1 DEF AQuiet, Opened
  <2>3. phase' = "down" => phase = "down"
    BY <2>2 DEF Live
  <2>4. phase' \in OpenPhases => phase \in OpenPhases \/ phase = "down"
    BY <2>2 DEF Live
  <2> QED
    BY Zenon, <1>0, <2>1, <2>3, <2>4
<1>2. ASSUME OpeningStep PROVE Known'
  <2>1. phase' # "down" /\ phase \in OpenPhases
    BY Zenon, <1>2, OpeningFrame DEF OpeningStep, ReplayEdit, RemoveOrphans, ReplaySegment, OpenActiveWAL
  <2>2. Entries' = Entries
    BY Zenon, <1>2 DEF OpeningStep, ReplayEdit, RemoveOrphans, ReplaySegment, OpenActiveWAL, Entries
  <2>3. maxFlushedTS' = maxFlushedTS \/ ReplayEdit
    BY Zenon, <1>2 DEF OpeningStep, RemoveOrphans, ReplaySegment, OpenActiveWAL
  <2>4. ASSUME NEW w \in Windows, maxFlushedTS'[w] # 0
        PROVE  \E fe \in Entries : fe.path.win = w /\ fe.max = maxFlushedTS'[w]
    <3>1. CASE maxFlushedTS'[w] = maxFlushedTS[w]
      BY Zenon, <1>0, <2>1, <2>4, <3>1
    <3>2. CASE ReplayEdit
      BY Zenon, <2>4, <3>1, <3>2, ReplayRaises
    <3> QED
      BY Zenon, <2>3, <3>1, <3>2
  <2> QED
    BY Zenon, <2>1, <2>2, <2>4
<1>3. ASSUME ProcessEnds PROVE Known'
  BY Zenon, <1>3 DEF ProcessEnds, LoseProcess
<1>4. ASSUME phase \in Live, phase' = phase PROVE Known'
  BY Zenon, <1>4 DEF Live
<1>5. (\E a \in Appenders : AppendingStep(a)) \/ FlushingStep \/ CompactingStep => phase \in Live /\ phase' = phase
  BY Zenon, AppendingFrame, FlushingFrame, CompactingFrame DEF Live
<1>6. Known'
  BY Zenon, <1>1, <1>2, <1>3, <1>4, <1>5, AckedCases
<1>7. phase' = "segments" => \A p \in Listed' : Alive(p)' => p \in files'
  BY Zenon, RecoveredStep
<1> QED
  BY Zenon, <1>6, <1>7 DEF CoverInv, Alive, AddedForGood

=============================================================================
