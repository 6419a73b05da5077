---------------------------- MODULE EngineProofs ----------------------------
(***************************************************************************)
(* Proofs about module Engine: type correctness, NoDuplicates and          *)
(* CommittedStays, for every value of the constants, from the inductive    *)
(* invariant IInv of EngineInv.  One lemma per conjunct of IInv shows that *)
(* a step keeps it; StepCases sorts the steps into those that touch the    *)
(* invariant's variables and the quiet rest.                               *)
(*                                                                         *)
(* Then what a caller may rely on: RejectedStaysInvisible in Strict mode,  *)
(* and AckedVisible and CloseCommitsAll across clean sessions.  Each rests *)
(* on IInv and on one more inductive invariant of EngineInv.               *)
(*                                                                         *)
(* Leaves without arithmetic name Zenon, which is much the faster prover   *)
(* for them.                                                               *)
(***************************************************************************)
EXTENDS EngineInv, TLAPS

\* The tuples of variables are abbreviations, expanded everywhere.
USE DEF env, disk, openVars, router, readers, walVars, tasks, flushVars, locals, callers

\* Every record lies in one of the windows.
LEMMA WinType == ASSUME NEW r \in Records PROVE Win(r) \in Windows
  BY Zenon DEF Windows

\* Every step keeps TypeOK.
LEMMA TypeStep ==
    ASSUME IInv, [Next]_vars
    PROVE  TypeOK'
<1> USE TsOfAssumption, NoRecordAssumption
<1>0. TypeOK /\ PositionInv /\ SeqInv /\ RecoveryInv /\ IssuedInv
  BY Zenon DEF IInv
<1>1. CASE OpenBegin
  BY <1>0, <1>1 DEF TypeOK, OpenBegin, Phases, OpenPhases
<1>2. CASE ReplayEdit
  <2>1. manifest[editIdx] \in VersionEdits
    BY SMTT(30), <1>0, <1>2 DEF TypeOK, ReplayEdit
  <2>2. /\ manifest[editIdx].added \subseteq FileEntries
        /\ \A fe \in manifest[editIdx].added : fe.path \in Paths /\ fe.max \in Int
    BY Zenon, <2>1 DEF VersionEdits, FileEntries
  <2>3. files' \subseteq Paths
    BY SMTT(30), <1>0, <1>2, <2>2 DEF TypeOK, ReplayEdit
  <2>4. maxFlushedTS' \in [Windows -> Int]
    BY Zenon, <1>0, <1>2, <2>2 DEF TypeOK, ReplayEdit
  <2>5. pstate' \in [Windows -> {"none", "open", "sealed"}]
    BY Zenon, <1>0, <1>2 DEF TypeOK, ReplayEdit
  <2>6. /\ editIdx' = editIdx + 1
        /\ UNCHANGED <<phase, env, disk, todoSegs, mem, walVars, tasks, flushVars, callers>>
    BY Zenon, <1>2 DEF ReplayEdit
  <2>7. manifestErr' \in BOOLEAN /\ editIdx' \in Nat \ {0}
    <3>1. editIdx + 1 \in Nat \ {0}
      BY <1>0 DEF TypeOK
    <3> QED
      BY Zenon, <1>0, <1>2, <2>6, <3>1 DEF TypeOK, ReplayEdit
  <2> QED
    BY Zenon, <1>0, <2>3, <2>4, <2>5, <2>6, <2>7 DEF TypeOK
<1>3. CASE RemoveOrphans
  BY <1>0, <1>3 DEF TypeOK, RemoveOrphans, Restrict, Phases, OpenPhases
<1>4. CASE ReplaySegment
  <2>1. PICK s \in todoSegs :
            /\ mem' = [w \in Windows |-> mem[w] \cup
                          {r \in {q \in segs[s] : ~Covered(q) /\ ~Refused(q)} : Win(r) = w}]
            /\ segs' = segs \/ segs' = Remove(segs, s)
            /\ todoSegs' = todoSegs \ {s}
    BY <1>4 DEF ReplaySegment
  <2>2. segs[s] \subseteq Records
    BY Zenon, <1>0 DEF TypeOK, RecoveryInv
  <2>3. mem' \in [Windows -> SUBSET Records]
    BY Zenon, <1>0, <2>1, <2>2 DEF TypeOK
  <2>4. DOMAIN segs' \subseteq Nat /\ \A x \in DOMAIN segs' : segs'[x] \subseteq Records
    BY SMTT(30), <1>0, <2>1 DEF TypeOK, Remove, Restrict
  <2>5. pstate' \in [Windows -> {"none", "open", "sealed"}]
    BY Zenon, <1>0, <1>4 DEF TypeOK, ReplaySegment
  <2> QED
    BY Zenon, <1>0, <1>4, <2>1, <2>3, <2>4, <2>5 DEF TypeOK, ReplaySegment
<1>5. CASE OpenActiveWAL
  BY <1>0, <1>5 DEF TypeOK, OpenActiveWAL, OpenSegment, Phases
<1>6. ASSUME NEW a \in Appenders, NEW r \in Records, AppendWAL(a, r) PROVE TypeOK'
  BY SMTT(30), <1>0, <1>6 DEF TypeOK, AppendWAL
<1>7. ASSUME NEW a \in Appenders, AppendRoute(a) PROVE TypeOK'
  <2>1. arec[a] \in Records /\ arec[a] \in issued /\ Win(arec[a]) \in Windows
    BY Zenon, <1>0, <1>7, WinType DEF TypeOK, IssuedInv, InFlight, AppendRoute
  <2>2. CASE Refused(arec[a])
    BY ZenonT(60), <1>0, <1>7, <2>1, <2>2 DEF TypeOK, AppendRoute, AppendReturns
  <2>3. CASE ~Refused(arec[a])
    <3>1. /\ apc' = [apc EXCEPT ![a] = "insert"] /\ UNCHANGED <<arec, rejected>>
          /\ pstate' = [pstate EXCEPT ![Win(arec[a])] = IF @ = "none" THEN "open" ELSE @]
      BY Zenon, <1>7, <2>3 DEF AppendRoute
    <3>2. pstate' \in [Windows -> {"none", "open", "sealed"}]
      BY Zenon, <1>0, <2>1, <3>1 DEF TypeOK
    <3>3. apc' \in [Appenders -> {"idle", "route", "insert", "signal"}]
      BY Zenon, <1>0, <3>1 DEF TypeOK
    <3> QED
      BY Zenon, <1>0, <1>7, <3>1, <3>2, <3>3 DEF TypeOK, AppendRoute
  <2> QED
    BY Zenon, <2>2, <2>3
<1>8. ASSUME NEW a \in Appenders, AppendInsert(a) PROVE TypeOK'
  <2>1. arec[a] \in Records /\ arec[a] \in issued /\ Win(arec[a]) \in Windows
    BY Zenon, <1>0, <1>8, WinType DEF TypeOK, IssuedInv, InFlight, AppendInsert
  <2>2. CASE pstate[Win(arec[a])] = "open"
    <3>1. mem' = [mem EXCEPT ![Win(arec[a])] = @ \cup {arec[a]}]
      BY Zenon, <1>8, <2>2 DEF AppendInsert
    <3>2. mem' \in [Windows -> SUBSET Records]
      BY Zenon, <1>0, <2>1, <3>1 DEF TypeOK
    <3> QED
      BY Zenon, <1>0, <1>8, <2>1, <2>2, <3>2 DEF TypeOK, AppendInsert
  <2>3. CASE pstate[Win(arec[a])] # "open"
    BY ZenonT(30), <1>0, <1>8, <2>1, <2>3 DEF TypeOK, AppendInsert, AppendReturns
  <2> QED
    BY Zenon, <2>2, <2>3
<1>8a. ASSUME NEW a \in Appenders, AppendSignal(a) PROVE TypeOK'
  <2>1. arec[a] \in Records /\ arec[a] \in issued /\ Win(arec[a]) \in Windows
    BY Zenon, <1>0, <1>8a, WinType DEF TypeOK, IssuedInv, InFlight, AppendSignal
  <2>2. /\ Signalled(Win(arec[a])) \in Seq(Windows)
        /\ Len(Signalled(Win(arec[a]))) <= FlushChCap
    BY <1>0, <2>1, BoundsAssumption DEF TypeOK, Signalled
  <2>3. flushCh' \in Seq(Windows) /\ Len(flushCh') <= FlushChCap
    BY Zenon, <1>8a, <2>2 DEF AppendSignal
  <2> QED
    BY Zenon, <1>0, <1>8a, <2>1, <2>3 DEF TypeOK, AppendSignal, AppendReturns
<1>9. CASE FlusherReceive
  BY <1>0, <1>9, BoundsAssumption DEF TypeOK, FlusherReceive, FlushFrame, FlushSteps
<1>10. CASE FlushBump
  BY <1>0, <1>10 DEF TypeOK, FlushBump, FlushFrame, FlushSteps
<1>11. CASE FlushRotate
  BY Zenon, <1>0, <1>11 DEF TypeOK, FlushRotate, FlushFrame, FlushSteps, OpenSegment
<1>12. CASE FlushCreate
  BY SMTT(30), <1>0, <1>12 DEF TypeOK, FlushCreate, FlushFrame, FlushSteps, FlushPath, Paths, SSTables
<1>13. CASE FlushSwap
  BY Zenon, <1>0, <1>13 DEF TypeOK, FlushSwap, FlushFrame, FlushSteps
<1>14. CASE FlushFinish
  <2>1. CASE snap = {}
    BY SMTT(30), <1>0, <1>14, <2>1 DEF TypeOK, FlushFinish, FlushFrame, FlushSteps, Remove, Restrict
  <2>2. CASE snap # {}
    <3>1. [done |-> TRUE, recs |-> snap] \in SSTables
      BY Zenon, <1>0 DEF TypeOK, SSTables
    <3>2. sst' = [sst EXCEPT ![FlushPath] = [done |-> TRUE, recs |-> snap]]
      BY Zenon, <1>14, <2>2 DEF FlushFinish
    <3>3. DOMAIN sst' = DOMAIN sst /\ \A p \in DOMAIN sst' : sst'[p] \in SSTables
      BY Zenon, <1>0, <3>1, <3>2 DEF TypeOK
    <3> QED
      BY Zenon, <1>0, <1>14, <2>2, <3>3 DEF TypeOK, FlushFinish, FlushFrame, FlushSteps
  <2> QED
    BY Zenon, <2>1, <2>2
<1>15. CASE FlushCommit \/ FlushCommitUnsynced
  <2>1. manifest' \in Seq(VersionEdits)
    <3>1. PICK m \in Int :
            manifest' = Append(manifest,
                [added |-> {[path |-> FlushPath, max |-> m]}, deleted |-> {}])
      BY Zenon, <1>0, <1>15 DEF TypeOK, FlushCommit, FlushCommitUnsynced, WriteEdit
    <3>2. FlushPath \in Paths /\ manifest \in Seq(VersionEdits)
      BY Zenon, <1>0, <1>15 DEF TypeOK, FlushCommit, FlushCommitUnsynced, FlushPath, Paths
    <3> QED
      BY <3>1, <3>2 DEF FileEntries, VersionEdits
  <2>2. CASE FlushCommit
    BY Zenon, <1>0, <2>1, <2>2 DEF TypeOK, FlushCommit, FlushFrame, FlushSteps
  <2>3. CASE FlushCommitUnsynced
    BY SMTT(30), <1>0, <2>1, <2>3 DEF TypeOK, FlushCommitUnsynced, FlushReturns, FlushFrame, FlushSteps
  <2> QED
    BY Zenon, <1>15, <2>2, <2>3
<1>16. CASE FlushUnlink
  BY Zenon, <1>0, <1>16 DEF TypeOK, FlushUnlink, FlushFrame, FlushSteps, Remove, Restrict
<1>17. CASE FlushRegister
  BY SMTT(30), <1>0, <1>17 DEF TypeOK, FlushRegister, FlushFrame, FlushReturns, FlushSteps, FlushPath, Paths
<1>18. CASE FlushFail
  <2>1. walSeq' \in Nat
    <3>1. fpc = "rotate" => walSeq = curWAL + 1
      BY Zenon, <1>0 DEF SeqInv
    <3>2. walSeq \in Nat /\ curWAL \in Nat /\ (walSeq = curWAL + 1 => walSeq - 1 = curWAL)
      BY <1>0 DEF TypeOK
    <3> QED
      BY Zenon, <1>18, <3>1, <3>2 DEF FlushFail
  <2>2. faults' \in Nat
    <3>1. faults + 1 \in Nat
      BY <1>0 DEF TypeOK
    <3> QED
      BY Zenon, <1>0, <1>18, <3>1 DEF FlushFail, FlushCallFails, TypeOK
  <2>3. manifestErr' \in BOOLEAN /\ fpc' \in FlushSteps /\ snap' \subseteq Records
    BY Zenon, <1>0, <1>18 DEF FlushFail, FlushReturns, FlushSteps, TypeOK
  <2>4. fpc' # "idle" => fpc # "idle"
    BY Zenon, <1>18 DEF FlushFail, FlushReturns
  <2> QED
    BY Zenon, <1>0, <1>18, <2>1, <2>2, <2>3, <2>4 DEF TypeOK, FlushFail, FlushFrame
<1>19. ASSUME NEW w \in Windows, SealExpired(w) PROVE TypeOK'
  BY Zenon, <1>0, <1>19 DEF TypeOK, SealExpired
<1>20. CASE CloseBegin
  BY Zenon, <1>0, <1>20 DEF TypeOK, CloseBegin, Phases
<1>21. ASSUME NEW g \in {"flusher", "compactor"}, WorkerExit(g) PROVE TypeOK'
  BY Zenon, <1>0, <1>21 DEF TypeOK, WorkerExit
<1>22. CASE CloseWaited
  BY Zenon, <1>0, <1>22 DEF TypeOK, CloseWaited, Phases
<1>23. ASSUME NEW w \in Windows, CloseVisit(w) PROVE TypeOK'
  BY Zenon, <1>0, <1>23 DEF TypeOK, CloseVisit, FlushSteps
<1>24. CASE CloseEnd
  BY Zenon, <1>0, <1>24 DEF TypeOK, CloseEnd, Phases
<1>25. CASE LoseMemory
  <2>1. /\ 0 \in Nat /\ 0 \in Int /\ 1 \in Nat \ {0}
        /\ << >> \in Seq(Windows) /\ << >> \in Seq(VersionEdits) /\ Len(<< >>) <= FlushChCap
    BY SMT, BoundsAssumption
  <2> QED
    BY Zenon, <1>0, <1>25, <2>1 DEF TypeOK, LoseMemory, LoseProcess, env, Phases, FlushSteps
<1>26. CASE Tick
  BY SMTT(30), <1>0, <1>26 DEF TypeOK, Tick
<1>27. CASE UNCHANGED vars
  BY Zenon, <1>0, <1>27 DEF TypeOK, vars
<1> QED
  BY Zenon, <1>1, <1>2, <1>3, <1>4, <1>5, <1>6, <1>7, <1>8, <1>8a, <1>9, <1>10, <1>11, <1>12,
     <1>13, <1>14, <1>15, <1>16, <1>17, <1>18, <1>19, <1>20, <1>21, <1>22, <1>23, <1>24, <1>25,
     <1>26, <1>27
     DEF Next, OpenStep, AppendStep, FlushStep, CloseStep, Exit, Crash

\* The steps that only move the process or the flusher forward.
Quiet ==
    /\ UNCHANGED <<disk, openVars, mem, readers, walVars, oldWAL, newSeq, snap, callers>>
    /\ workers' \subseteq workers
    /\ \/ phase' = phase
       \/ phase = "running" /\ phase' = "closing" /\ NoReaders
       \/ phase = "closing" /\ phase' = "draining" /\ workers = {}
       \/ phase = "draining" /\ phase' = "closed" /\ fpc = "idle"
    /\ \/ fpc' = fpc /\ fwin' = fwin
       \/ fpc = "idle" /\ fpc' = "bump" /\ phase \in Live /\ phase' = phase

\* The process ends, by itself or in a crash.
Stops == phase \in CrashPhases \cup {"closed"} /\ LoseMemory

\* Every step is quiet, ends the process, or is one of the actions that touch IInv.
LEMMA StepCases ==
    ASSUME IInv, [Next]_vars
    PROVE  \/ Quiet \/ OpenBegin \/ ReplayEdit \/ RemoveOrphans \/ ReplaySegment
           \/ OpenActiveWAL
           \/ \E a \in Appenders, r \in Records : AppendWAL(a, r)
           \/ \E a \in Appenders : AppendRoute(a) \/ AppendInsert(a) \/ AppendSignal(a)
           \/ FlushBump \/ FlushRotate \/ FlushCreate \/ FlushSwap \/ FlushFinish
           \/ FlushCommit \/ FlushUnlink \/ FlushRegister \/ FlushFail
           \/ FlushCommitUnsynced \/ Stops
<1>1. CASE Tick \/ CloseBegin \/ CloseWaited \/ CloseEnd \/ UNCHANGED vars
  BY Zenon, <1>1 DEF Quiet, Tick, CloseBegin, CloseWaited, CloseEnd, vars
<1>2. ASSUME NEW w \in Windows, SealExpired(w) PROVE Quiet
  BY Zenon, <1>2 DEF Quiet, SealExpired
<1>3. ASSUME NEW g \in {"flusher", "compactor"}, WorkerExit(g) PROVE Quiet
  BY Zenon, <1>3 DEF Quiet, WorkerExit
<1>4. ASSUME NEW w \in Windows, CloseVisit(w) PROVE Quiet
  BY Zenon, <1>4 DEF Quiet, CloseVisit, Live
<1>5. CASE FlusherReceive
  BY Zenon, <1>5 DEF Quiet, FlusherReceive, FlushFrame, IInv, PositionInv, Live
<1> QED
  BY Zenon, <1>1, <1>2, <1>3, <1>4, <1>5
     DEF Next, OpenStep, AppendStep, FlushStep, CloseStep, Exit, Crash, Stops

\* Every step keeps each goroutine where PositionInv allows it.
LEMMA PositionStep ==
    ASSUME IInv, [Next]_vars
    PROVE  PositionInv'
<1>0. TypeOK /\ PositionInv
  BY Zenon DEF IInv
<1>1. CASE Quiet
  BY Zenon, <1>0, <1>1 DEF Quiet, PositionInv, InFlight, NoReaders, Live
<1>2. CASE OpenBegin \/ RemoveOrphans \/ OpenActiveWAL
  BY Zenon, <1>0, <1>2 DEF OpenBegin, RemoveOrphans, OpenActiveWAL, PositionInv, InFlight, Live
<1>3. CASE ReplayEdit \/ ReplaySegment
  BY Zenon, <1>0, <1>3 DEF ReplayEdit, ReplaySegment, PositionInv, InFlight
<1>4. ASSUME NEW a \in Appenders, NEW r \in Records, AppendWAL(a, r) PROVE PositionInv'
  BY Zenon, <1>0, <1>4 DEF AppendWAL, PositionInv, InFlight, TypeOK
<1>5. ASSUME NEW a \in Appenders, AppendRoute(a) PROVE PositionInv'
  BY Zenon, <1>0, <1>5 DEF AppendRoute, AppendReturns, PositionInv, InFlight, TypeOK
<1>6. ASSUME NEW a \in Appenders, AppendInsert(a) \/ AppendSignal(a) PROVE PositionInv'
  BY Zenon, <1>0, <1>6
     DEF AppendInsert, AppendSignal, AppendReturns, PositionInv, InFlight, TypeOK
<1>7. CASE FlushBump \/ FlushRotate \/ FlushCreate \/ FlushSwap
  BY Zenon, <1>0, <1>7 DEF FlushBump, FlushRotate, FlushCreate, FlushSwap, FlushFrame, PositionInv,
                    InFlight
<1>8. CASE FlushFinish \/ FlushCommit \/ FlushUnlink
  BY Zenon, <1>0, <1>8
     DEF FlushFinish, FlushCommit, FlushUnlink, FlushFrame, PositionInv, InFlight
<1>9. CASE FlushRegister \/ FlushFail \/ FlushCommitUnsynced
  BY Zenon, <1>0, <1>9 DEF FlushRegister, FlushFail, FlushCommitUnsynced, FlushReturns, FlushFrame,
                    PositionInv, InFlight
<1>10. CASE Stops
  BY Zenon, <1>10 DEF Stops, LoseMemory, LoseProcess, PositionInv, InFlight
<1> QED
  BY Zenon, <1>1, <1>2, <1>3, <1>4, <1>5, <1>6, <1>7, <1>8, <1>9, <1>10, StepCases

\* Every step keeps the segment numbers ahead of the SSTable numbers.  This is where a
\* crash in the middle of ReplaySegment has to be excluded.
LEMMA SeqStep ==
    ASSUME IInv, NoCrashInReplay, [Next]_vars
    PROVE  SeqInv'
<1>0. TypeOK /\ PositionInv /\ SeqInv
  BY Zenon DEF IInv
<1>1. CASE UNCHANGED <<phase, segs, sst, curWAL, walSeq, fpc, oldWAL, newSeq>>
  BY Zenon, <1>0, <1>1 DEF SeqInv, Opened
<1>2. CASE Quiet
  BY Zenon, <1>0, <1>2 DEF Quiet, SeqInv, Opened, Live
<1>3. CASE OpenBegin
  BY Zenon, <1>0, <1>3 DEF OpenBegin, SeqInv, PositionInv, Opened, Live
<1>4. CASE RemoveOrphans
  <2>1. \A p \in DOMAIN sst' : p.seq <= walSeq'
    <3>1. \A p \in DOMAIN sst' : p \in DOMAIN sst /\ p.seq \in Nat
      BY Zenon, <1>0, <1>4 DEF RemoveOrphans, Restrict, TypeOK, Paths
    <3>2. \A p \in DOMAIN sst : \E s \in DOMAIN segs : p.seq <= s
      BY Zenon, <1>0, <1>4 DEF RemoveOrphans, SeqInv
    <3>3. walSeq' \in Nat /\ \A s \in DOMAIN segs : s \in Nat /\ s <= walSeq'
      BY SMTT(30), <1>0, <1>4 DEF RemoveOrphans, TypeOK
    <3> QED
      BY <3>1, <3>2, <3>3
  <2> QED
    BY Zenon, <1>0, <1>4, <2>1 DEF RemoveOrphans, SeqInv, PositionInv, Opened, Live
<1>5. CASE ReplaySegment
  BY Zenon, <1>0, <1>5 DEF ReplaySegment, SeqInv, PositionInv, Opened, Live
<1>6. CASE OpenActiveWAL
  BY SMTT(30), <1>0, <1>6
     DEF OpenActiveWAL, OpenSegment, SeqInv, PositionInv, TypeOK, Paths, Opened, Live
<1>7. ASSUME NEW a \in Appenders, NEW r \in Records, AppendWAL(a, r) PROVE SeqInv'
  BY Zenon, <1>0, <1>7 DEF AppendWAL, SeqInv, Opened
<1>8. CASE FlushBump
  BY Zenon, <1>0, <1>8 DEF FlushBump, FlushFrame, SeqInv, PositionInv, TypeOK, Opened, Live
<1>9. CASE FlushRotate
  <2>1. /\ phase \in Live /\ fpc = "rotate" /\ fpc' = "create" /\ curWAL' = newSeq
        /\ UNCHANGED <<phase, sst, walSeq, oldWAL, newSeq>>
        /\ DOMAIN segs' = DOMAIN segs \cup {newSeq}
    BY Zenon, <1>0, <1>9 DEF FlushRotate, OpenSegment, FlushFrame, PositionInv
  <2>2. curWAL \in Nat /\ newSeq = curWAL + 1 /\ oldWAL = curWAL /\ walSeq = newSeq
    BY Zenon, <1>0, <2>1 DEF SeqInv, TypeOK
  <2>3. \A p \in DOMAIN sst : p.seq \in Nat /\ p.seq < newSeq
    <3>1. \A p \in DOMAIN sst : p.seq \in Nat
      BY Zenon, <1>0 DEF TypeOK, Paths
    <3>2. \A p \in DOMAIN sst : p.seq <= curWAL
      BY Zenon, <1>0, <2>1 DEF SeqInv, Opened
    <3> QED
      BY <2>2, <3>1, <3>2
  <2> QED
    BY <2>1, <2>2, <2>3 DEF SeqInv, Opened, Live
<1>10. CASE FlushCreate
  <2>1. /\ phase \in Live /\ fpc = "create" /\ fpc' = "swap"
        /\ UNCHANGED <<phase, segs, curWAL, walSeq, oldWAL, newSeq>>
        /\ DOMAIN sst' = DOMAIN sst \cup {FlushPath} /\ FlushPath.seq = newSeq
    BY Zenon, <1>0, <1>10 DEF FlushCreate, FlushPath, FlushFrame, PositionInv
  <2>2. newSeq = curWAL /\ newSeq \in Nat
    BY Zenon, <1>0, <2>1 DEF SeqInv, TypeOK
  <2>3. \A p \in DOMAIN sst' : p.seq <= curWAL
    BY <1>0, <2>1, <2>2 DEF SeqInv, Opened
  <2> QED
    BY Zenon, <1>0, <2>1, <2>2, <2>3 DEF SeqInv, Opened, Live
<1>11. CASE FlushSwap \/ FlushCommit \/ FlushRegister \/ FlushCommitUnsynced
  BY Zenon, <1>0, <1>11
     DEF FlushSwap, FlushCommit, FlushRegister, FlushCommitUnsynced, FlushReturns,
                     FlushFrame, SeqInv, Opened
<1>12. CASE FlushFinish
  BY Zenon, <1>0, <1>12
     DEF FlushFinish, Remove, Restrict, FlushFrame, SeqInv, PositionInv, Opened, Live
<1>13. CASE FlushUnlink
  BY SMTT(30), <1>0, <1>13
     DEF FlushUnlink, Remove, Restrict, FlushFrame, SeqInv, PositionInv, TypeOK,
                     Opened, Live
<1>14. CASE FlushFail
  BY SMTT(30), <1>0, <1>14 DEF FlushFail, FlushReturns, FlushFrame, SeqInv, PositionInv, TypeOK,
                     Opened, Live
<1>15. CASE Stops
  <2>1. phase \in Live \cup {"closed", "manifest"}
    BY Zenon, <1>15, CrashPhasesAssumption DEF Stops, NoCrashInReplay, Phases, OpenPhases, Live
  <2>2. \A p \in DOMAIN sst : \E s \in DOMAIN segs : p.seq <= s
    BY Zenon, <1>0, <2>1 DEF SeqInv, Opened, Live
  <2> QED
    BY Zenon, <1>15, <2>2 DEF Stops, LoseMemory, LoseProcess, SeqInv, Opened, Live
<1> QED
  BY Zenon, <1>1, <1>2, <1>3, <1>4, <1>5, <1>6, <1>7, <1>8, <1>9, <1>10, <1>11, <1>12,
     <1>13, <1>14,
     <1>15, StepCases DEF ReplayEdit, AppendRoute, AppendInsert, AppendSignal

\* A step that does not write the manifest keeps what it lists.
LEMMA EntriesStable ==
    ASSUME manifest' = manifest
    PROVE  Entries' = Entries /\ Listed' = Listed
  BY Zenon DEF Entries, Listed

\* The file of a flush that is still writing is new to the manifest.
LEMMA FlushPathUnlisted ==
    ASSUME TypeOK, ManifestInv, SeqInv, FlushFileInv, FlushCreate \/ FlushFinish
    PROVE  FlushPath \notin Listed
<1>1. CASE FlushFinish
  <2>1. fpc = "finish"
    BY Zenon, <1>1 DEF FlushFinish
  <2> QED
    BY Zenon, <2>1 DEF FlushFileInv, Writing
<1>2. CASE FlushCreate
  <2>1. fpc = "create"
    BY Zenon, <1>2 DEF FlushCreate
  <2>2. newSeq \in Nat /\ \A p \in DOMAIN sst : p.seq < newSeq
    BY Zenon, <2>1 DEF TypeOK, SeqInv
  <2>3. FlushPath.seq = newSeq /\ ~(newSeq < newSeq)
    BY <2>2 DEF FlushPath
  <2>4. \A p \in Listed : p \in DOMAIN sst
    BY Zenon DEF ManifestInv, Listed
  <2> QED
    BY Zenon, <2>2, <2>3, <2>4
<1> QED
  BY <1>1, <1>2

\* WriteEdit adds exactly the file of the flush to what the manifest lists.
LEMMA EntriesCommit ==
    ASSUME TypeOK, WriteEdit
    PROVE  \E m \in Int :
              /\ \A r \in snap : TsOf[r] <= m
              /\ \E r \in snap : TsOf[r] = m
              /\ Entries' = Entries \cup {[path |-> FlushPath, max |-> m]}
              /\ Listed' = Listed \cup {FlushPath}
              /\ DOMAIN manifest' = DOMAIN manifest \cup {Len(manifest) + 1}
              /\ \A i \in DOMAIN manifest : manifest'[i] = manifest[i]
              /\ manifest'[Len(manifest) + 1].added = {[path |-> FlushPath, max |-> m]}
              /\ manifest'[Len(manifest) + 1].deleted = {}
<1>1. PICK m \in Int :
        /\ \A r \in snap : TsOf[r] <= m
        /\ \E r \in snap : TsOf[r] = m
        /\ manifest' = Append(manifest,
               [added |-> {[path |-> FlushPath, max |-> m]}, deleted |-> {}])
  BY Zenon, TsOfAssumption DEF WriteEdit, IsMaxTS, TypeOK
<1> DEFINE fe == [path |-> FlushPath, max |-> m]
<1>2. /\ DOMAIN manifest' = DOMAIN manifest \cup {Len(manifest) + 1}
      /\ \A i \in DOMAIN manifest : manifest'[i] = manifest[i]
      /\ manifest'[Len(manifest) + 1].added = {fe}
      /\ manifest'[Len(manifest) + 1].deleted = {}
  <2>1. manifest \in Seq(VersionEdits)
    BY Zenon DEF TypeOK
  <2> QED
    BY <1>1, <2>1
<1> HIDE DEF fe
<1>3. Entries' = Entries \cup {fe}
  <2>1. ASSUME NEW e \in Entries' PROVE e \in Entries \cup {fe}
    <3>1. PICK i \in DOMAIN manifest' : e \in manifest'[i].added
      BY Zenon DEF Entries
    <3>2. CASE i \in DOMAIN manifest
      BY Zenon, <1>2, <3>1, <3>2 DEF Entries
    <3>3. CASE i = Len(manifest) + 1
      BY Zenon, <1>2, <3>1, <3>3
    <3> QED
      BY Zenon, <1>2, <3>2, <3>3
  <2>2. ASSUME NEW e \in Entries \cup {fe} PROVE e \in Entries'
    <3>1. CASE e \in Entries
      <4>1. PICK i \in DOMAIN manifest : e \in manifest[i].added
        BY Zenon, <3>1 DEF Entries
      <4>2. i \in DOMAIN manifest' /\ e \in manifest'[i].added
        BY Zenon, <1>2, <4>1
      <4> QED
        BY Zenon, <4>2 DEF Entries
    <3>2. CASE e = fe
      <4>1. Len(manifest) + 1 \in DOMAIN manifest' /\ e \in manifest'[Len(manifest) + 1].added
        BY Zenon, <1>2, <3>2
      <4> QED
        BY Zenon, <4>1 DEF Entries
    <3> QED
      BY Zenon, <3>1, <3>2
  <2> QED
    BY Zenon, <2>1, <2>2
<1>4. Listed' = Listed \cup {FlushPath}
  <2>1. fe.path = FlushPath
    BY DEF fe
  <2> QED
    BY Zenon, <1>3, <2>1 DEF Listed
<1> QED
  BY Zenon, <1>1, <1>2, <1>3, <1>4 DEF fe

\* Every step keeps the files of the manifest complete and in place.
LEMMA ManifestStep ==
    ASSUME IInv, [Next]_vars
    PROVE  ManifestInv'
<1>0. TypeOK /\ PositionInv /\ SeqInv /\ ManifestInv /\ FlushFileInv /\ RecoveryInv
  BY Zenon DEF IInv
<1>1. CASE UNCHANGED <<manifest, sst, files>>
  BY Zenon, <1>0, <1>1, EntriesStable DEF ManifestInv
<1>2. CASE ReplayEdit
  <2>1. editIdx \in DOMAIN manifest /\ manifest[editIdx].added \subseteq Entries
    <3>1. manifest \in Seq(VersionEdits) /\ editIdx \in Nat \ {0} /\ editIdx <= Len(manifest)
      BY Zenon, <1>0, <1>2 DEF TypeOK, ReplayEdit
    <3> QED
      BY <3>1 DEF Entries
  <2>2. files' \subseteq Listed
    BY Zenon, <1>0, <1>2, <2>1 DEF ReplayEdit, ManifestInv, Listed
  <2>3. UNCHANGED <<manifest, sst>>
    BY Zenon, <1>2 DEF ReplayEdit
  <2> QED
    BY Zenon, <1>0, <2>2, <2>3, EntriesStable DEF ManifestInv
<1>3. CASE RemoveOrphans
  <2>1. \A fe \in Entries : fe.path \in files
    <3> TAKE fe \in Entries
    <3>1. PICK i \in DOMAIN manifest : fe \in manifest[i].added
      BY Zenon DEF Entries
    <3>2. i < editIdx /\ phase = "manifest"
      BY SMTT(30), <1>0, <1>3 DEF RemoveOrphans, TypeOK
    <3> QED
      BY Zenon, <1>0, <3>1, <3>2 DEF RecoveryInv
  <2>2. \A p \in files : p \in DOMAIN sst => p \in DOMAIN sst' /\ sst'[p] = sst[p]
    BY Zenon, <1>3 DEF RemoveOrphans, Restrict
  <2>3. UNCHANGED <<manifest, files>>
    BY Zenon, <1>3 DEF RemoveOrphans
  <2> QED
    BY Zenon, <1>0, <2>1, <2>2, <2>3, EntriesStable DEF ManifestInv
<1>4. CASE FlushCreate
  <2>1. FlushPath \notin DOMAIN sst
    BY SMTT(30), <1>0, <1>4 DEF SeqInv, FlushCreate, FlushPath, TypeOK, Paths
  <2>2. \A p \in DOMAIN sst : p \in DOMAIN sst' /\ sst'[p] = sst[p]
    BY Zenon, <1>4, <2>1 DEF FlushCreate
  <2>3. UNCHANGED <<manifest, files>>
    BY Zenon, <1>4 DEF FlushCreate
  <2> QED
    BY Zenon, <1>0, <2>2, <2>3, EntriesStable DEF ManifestInv
<1>5. CASE FlushFinish
  <2>1. \A fe \in Entries : fe.path # FlushPath
    BY Zenon, <1>0, <1>5 DEF FlushFileInv, Writing, FlushFinish, Listed
  <2>2. \A p \in DOMAIN sst : p # FlushPath => p \in DOMAIN sst' /\ sst'[p] = sst[p]
    BY Zenon, <1>5 DEF FlushFinish, Remove, Restrict
  <2>3. UNCHANGED <<manifest, files>>
    BY Zenon, <1>5 DEF FlushFinish, FlushFrame
  <2> QED
    BY Zenon, <1>0, <2>1, <2>2, <2>3, EntriesStable DEF ManifestInv
<1>6. CASE FlushCommit \/ FlushCommitUnsynced
  <2>1. PICK m \in Int :
          /\ \A r \in snap : TsOf[r] <= m
          /\ Entries' = Entries \cup {[path |-> FlushPath, max |-> m]}
          /\ Listed' = Listed \cup {FlushPath}
          /\ DOMAIN manifest' = DOMAIN manifest \cup {Len(manifest) + 1}
          /\ \A i \in DOMAIN manifest : manifest'[i] = manifest[i]
          /\ manifest'[Len(manifest) + 1].added = {[path |-> FlushPath, max |-> m]}
          /\ manifest'[Len(manifest) + 1].deleted = {}
    BY Zenon, <1>0, <1>6, EntriesCommit DEF FlushCommit, FlushCommitUnsynced
  <2>2. UNCHANGED <<sst, files>>
    BY Zenon, <1>6 DEF FlushCommit, FlushCommitUnsynced
  <2>3. \A i \in DOMAIN manifest' :
            manifest'[i].deleted = {} /\ \E fe \in manifest'[i].added : manifest'[i].added = {fe}
    BY ZenonT(30), <1>0, <2>1 DEF ManifestInv
  <2>4. /\ FlushPath \in DOMAIN sst /\ sst[FlushPath].done /\ sst[FlushPath].recs = snap
        /\ \A r \in snap : Win(r) = FlushPath.win
    <3>1. fpc = "commit"
      BY Zenon, <1>6 DEF FlushCommit, FlushCommitUnsynced
    <3>2. sst[FlushPath] = [done |-> TRUE, recs |-> snap] /\ \A r \in snap : Win(r) = fwin
      BY Zenon, <1>0, <3>1 DEF FlushFileInv
    <3>3. FlushPath \in DOMAIN sst
      BY Zenon, <1>0, <3>1 DEF FlushFileInv, Writing
    <3>4. FlushPath.win = fwin
      BY DEF FlushPath
    <3>5. sst[FlushPath].done /\ sst[FlushPath].recs = snap
      BY <3>2
    <3> QED
      BY Zenon, <3>2, <3>3, <3>4, <3>5
  <2>5. \A fe \in Entries' :
            /\ fe.path \in DOMAIN sst /\ sst[fe.path].done
            /\ \A r \in sst[fe.path].recs : Win(r) = fe.path.win /\ TsOf[r] <= fe.max
    BY SMTT(30), <1>0, <2>1, <2>4 DEF ManifestInv
  <2> QED
    BY Zenon, <1>0, <2>1, <2>2, <2>3, <2>5 DEF ManifestInv
<1>7. CASE FlushRegister
  <2>1. files' = files \cup {FlushPath} /\ FlushPath \in Listed
    BY Zenon, <1>0, <1>7 DEF FlushRegister, FlushFileInv, CommittedFlush
  <2>2. UNCHANGED <<manifest, sst>>
    BY Zenon, <1>7 DEF FlushRegister
  <2> QED
    BY Zenon, <1>0, <2>1, <2>2, EntriesStable DEF ManifestInv
<1>8. CASE Stops
  <2>1. UNCHANGED <<manifest, sst>> /\ files' = {}
    BY Zenon, <1>8 DEF Stops, LoseMemory, LoseProcess
  <2> QED
    BY Zenon, <1>0, <2>1, EntriesStable DEF ManifestInv
<1> QED
  BY Zenon, <1>1, <1>2, <1>3, <1>4, <1>5, <1>6, <1>7, <1>8, StepCases
     DEF Quiet, OpenBegin, ReplaySegment, OpenActiveWAL, AppendWAL, AppendRoute, AppendInsert,
         AppendSignal, FlushBump, FlushRotate, FlushSwap, FlushUnlink, FlushFail

\* AppendInsert adds at most the record of its appender, to the window of that record.
LEMMA InsertMem ==
    ASSUME TypeOK, NEW a \in Appenders, AppendInsert(a)
    PROVE  \A w \in Windows : \A r \in mem'[w] :
              r \in mem[w] \/ (r = arec[a] /\ w = Win(arec[a]))
<1>1. mem' = mem \/ mem' = [mem EXCEPT ![Win(arec[a])] = @ \cup {arec[a]}]
  BY Zenon DEF AppendInsert
<1>2. CASE mem' = mem
  BY Zenon, <1>2
<1>3. CASE mem' = [mem EXCEPT ![Win(arec[a])] = @ \cup {arec[a]}]
  BY Zenon, <1>3 DEF TypeOK
<1> QED
  BY Zenon, <1>1, <1>2, <1>3

\* Every step keeps a record issued before it is stored.
LEMMA IssuedStep ==
    ASSUME IInv, [Next]_vars
    PROVE  IssuedInv'
<1>0. TypeOK /\ PositionInv /\ SeqInv /\ FlushFileInv /\ RecoveryInv /\ IssuedInv
  BY Zenon DEF IInv
<1>1. CASE UNCHANGED <<segs, mem, snap, sst, callers>>
  BY Zenon, <1>0, <1>1 DEF IssuedInv, InFlight, Uninserted
<1>2. CASE RemoveOrphans
  <2>1. UNCHANGED <<segs, mem, snap, callers>> /\ DOMAIN sst' \subseteq DOMAIN sst
    BY Zenon, <1>2 DEF RemoveOrphans, Restrict
  <2>2. \A p \in DOMAIN sst' : sst'[p] = sst[p]
    BY Zenon, <1>2 DEF RemoveOrphans, Restrict
  <2> QED
    BY Zenon, <1>0, <2>1, <2>2 DEF IssuedInv, InFlight, Uninserted
<1>3. CASE ReplaySegment
  <2>1. UNCHANGED <<snap, sst, callers>> /\ \A a \in Appenders : ~InFlight(a)
    BY Zenon, <1>0, <1>3 DEF ReplaySegment, PositionInv
  <2>2. \A s \in DOMAIN segs' : s \in DOMAIN segs /\ segs'[s] = segs[s]
    BY Zenon, <1>3 DEF ReplaySegment, Remove, Restrict
  <2>3. PICK s \in DOMAIN segs :
            \A w \in Windows : \A r \in mem'[w] : r \in mem[w] \/ r \in segs[s]
    BY SMTT(30), <1>0, <1>3 DEF ReplaySegment, RecoveryInv
  <2> QED
    BY Zenon, <1>0, <2>1, <2>2, <2>3 DEF IssuedInv, InFlight, Uninserted
<1>4. CASE OpenActiveWAL \/ FlushRotate \/ FlushUnlink
  <2>1. UNCHANGED <<mem, snap, sst, callers>>
    BY Zenon, <1>4 DEF OpenActiveWAL, FlushRotate, FlushUnlink, FlushFrame
  <2>2. \A s \in DOMAIN segs' : segs'[s] = {} \/ (s \in DOMAIN segs /\ segs'[s] = segs[s])
    BY Zenon, <1>4 DEF OpenActiveWAL, FlushRotate, FlushUnlink, OpenSegment, Remove, Restrict
  <2> QED
    BY Zenon, <1>0, <2>1, <2>2 DEF IssuedInv, InFlight, Uninserted
<1>5. ASSUME NEW a \in Appenders, NEW r \in Records, AppendWAL(a, r) PROVE IssuedInv'
  <2>1. /\ r \notin issued /\ issued' = issued \cup {r} /\ UNCHANGED <<mem, snap, sst>>
        /\ apc' = [apc EXCEPT ![a] = "route"] /\ arec' = [arec EXCEPT ![a] = r]
        /\ segs' = [segs EXCEPT ![curWAL] = @ \cup {r}]
    BY Zenon, <1>5 DEF AppendWAL
  <2>2. \A s \in DOMAIN segs' : s \in DOMAIN segs /\ segs'[s] \subseteq segs[s] \cup {r}
    BY Zenon, <2>1
  <2>3. \A b \in Appenders : b # a => apc'[b] = apc[b] /\ arec'[b] = arec[b]
    BY Zenon, <1>0, <2>1 DEF TypeOK
  <2>4. arec'[a] = r
    BY Zenon, <1>0, <2>1 DEF TypeOK
  <2> QED
    BY SMTT(30), <1>0, <2>1, <2>2, <2>3, <2>4 DEF IssuedInv, InFlight, Uninserted
<1>6. ASSUME NEW a \in Appenders, AppendRoute(a) \/ AppendSignal(a) PROVE IssuedInv'
  <2>1. UNCHANGED <<segs, mem, snap, sst, issued>>
    BY Zenon, <1>6 DEF AppendRoute, AppendSignal
  <2>2. \A b \in Appenders : InFlight(b)' => InFlight(b) /\ arec'[b] = arec[b]
    BY Zenon, <1>0, <1>6 DEF AppendRoute, AppendSignal, AppendReturns, InFlight, TypeOK
  <2>3. \A b \in Appenders : Uninserted(b)' => Uninserted(b) /\ InFlight(b)'
    BY Zenon, <1>0, <1>6 DEF AppendRoute, AppendSignal, AppendReturns, Uninserted, InFlight, TypeOK
  <2> QED
    BY Zenon, <1>0, <2>1, <2>2, <2>3 DEF IssuedInv
<1>7. ASSUME NEW a \in Appenders, AppendInsert(a) PROVE IssuedInv'
  <2>1. UNCHANGED <<segs, snap, sst, issued>> /\ InFlight(a)
    BY Zenon, <1>7 DEF AppendInsert, InFlight
  <2>2. \A b \in Appenders : InFlight(b)' => InFlight(b) /\ arec'[b] = arec[b]
    BY Zenon, <1>0, <1>7 DEF AppendInsert, AppendReturns, InFlight, TypeOK
  <2>3. \A b \in Appenders : Uninserted(b)' => b # a /\ Uninserted(b) /\ InFlight(b)'
    BY Zenon, <1>0, <1>7 DEF AppendInsert, AppendReturns, Uninserted, InFlight, TypeOK
  <2>4. \A w \in Windows : \A r \in mem'[w] : r \in mem[w] \/ r = arec[a]
    BY Zenon, <1>0, <1>7, InsertMem
  <2>5. arec[a] \in issued
    BY Zenon, <1>0, <2>1 DEF IssuedInv
  <2>6. \A b \in Appenders : Uninserted(b)' => arec'[b] = arec[b] /\ arec[b] # arec[a]
    BY Zenon, <1>0, <2>1, <2>2, <2>3 DEF IssuedInv
  <2>7. \A b \in Appenders : Uninserted(b)' => \A w \in Windows : arec'[b] \notin mem'[w]
    BY Zenon, <1>0, <2>3, <2>4, <2>6 DEF IssuedInv
  <2>8. \A b \in Appenders : InFlight(b)' =>
            /\ arec'[b] \in issued
            /\ \A c \in Appenders : InFlight(c)' /\ b # c => arec'[b] # arec'[c]
    BY Zenon, <1>0, <2>2 DEF IssuedInv
  <2>9. \A w \in Windows : mem'[w] \subseteq issued
    BY Zenon, <1>0, <2>4, <2>5 DEF IssuedInv
  <2> QED
    BY Zenon, <1>0, <2>1, <2>3, <2>6, <2>7, <2>8, <2>9 DEF IssuedInv
<1>8. CASE FlushCreate
  <2>1. UNCHANGED <<segs, mem, snap, callers>>
    BY Zenon, <1>8 DEF FlushCreate, FlushFrame
  <2>2. \A p \in DOMAIN sst' : sst'[p].recs = {} \/ (p \in DOMAIN sst /\ sst'[p] = sst[p])
    BY Zenon, <1>8 DEF FlushCreate
  <2> QED
    BY Zenon, <1>0, <2>1, <2>2 DEF IssuedInv, InFlight, Uninserted
<1>9. CASE FlushSwap
  <2>1. UNCHANGED <<segs, sst, callers>> /\ snap' = mem[fwin] /\ fwin \in Windows
    BY Zenon, <1>0, <1>9 DEF FlushSwap, FlushFrame, TypeOK
  <2>2. \A w \in Windows : mem'[w] \subseteq mem[w]
    BY Zenon, <1>0, <1>9 DEF FlushSwap, TypeOK
  <2> QED
    BY Zenon, <1>0, <2>1, <2>2 DEF IssuedInv, InFlight, Uninserted
<1>10. CASE FlushFinish
  <2>1. UNCHANGED <<segs, mem, snap, callers>>
    BY Zenon, <1>10 DEF FlushFinish, FlushFrame
  <2>2. \A p \in DOMAIN sst' : p \in DOMAIN sst /\ (sst'[p].recs = snap \/ sst'[p] = sst[p])
    BY <1>10 DEF FlushFinish, Remove, Restrict
  <2> QED
    BY Zenon, <1>0, <2>1, <2>2 DEF IssuedInv, InFlight, Uninserted
<1>11. CASE FlushRegister \/ FlushFail \/ FlushCommitUnsynced
  <2>1. UNCHANGED <<segs, mem, sst, callers>> /\ snap' \subseteq snap
    BY Zenon, <1>11 DEF FlushRegister, FlushFail, FlushCommitUnsynced, FlushReturns, FlushFrame
  <2> QED
    BY Zenon, <1>0, <2>1 DEF IssuedInv, InFlight, Uninserted
<1>12. CASE Stops
  BY Zenon, <1>0, <1>12 DEF Stops, LoseMemory, LoseProcess, IssuedInv, InFlight, Uninserted
<1> QED
  BY Zenon, <1>1, <1>2, <1>3, <1>4, <1>5, <1>6, <1>7, <1>8, <1>9, <1>10, <1>11, <1>12, StepCases
     DEF Quiet, OpenBegin, ReplayEdit, FlushBump, FlushCommit, FlushFrame

\* Every step keeps the relation of the file being flushed to manifest and snapshot.
LEMMA FlushFileStep ==
    ASSUME IInv, [Next]_vars
    PROVE  FlushFileInv'
<1>0. TypeOK /\ PositionInv /\ SeqInv /\ ManifestInv /\ FlushFileInv
  BY Zenon DEF IInv
<1>1. CASE UNCHANGED <<sst, manifest, files, fpc, fwin, newSeq, snap, mem>>
  BY Zenon, <1>0, <1>1, EntriesStable DEF FlushFileInv, Writing, CommittedFlush, FlushPath
<1>2. CASE Quiet
  BY Zenon, <1>0, <1>2, EntriesStable
     DEF FlushFileInv, PositionInv, Quiet, Writing, CommittedFlush, FlushPath
<1>3. CASE ReplayEdit \/ RemoveOrphans
  <2>1. UNCHANGED <<fpc, fwin, newSeq, snap, mem>> /\ fpc = "idle"
    BY Zenon, <1>0, <1>3 DEF ReplayEdit, RemoveOrphans, PositionInv, Live
  <2> QED
    BY Zenon, <1>0, <2>1 DEF FlushFileInv, Writing, CommittedFlush
<1>4. CASE ReplaySegment
  <2>1. UNCHANGED <<fpc, fwin, newSeq, snap>> /\ fpc = "idle"
    BY Zenon, <1>0, <1>4 DEF ReplaySegment, PositionInv, Live
  <2>2. \A w \in Windows : \A r \in mem'[w] : Win(r) = w
    <3>1. \A w \in Windows : \A r \in mem[w] : Win(r) = w
      BY Zenon, <1>0 DEF FlushFileInv
    <3>2. PICK s \in todoSegs :
            mem' = [w \in Windows |->
                mem[w] \cup {r \in {q \in {o \in segs[s] : ~Covered(o)} : ~Refused(q)} : Win(r) = w}]
      BY Zenon, <1>4 DEF ReplaySegment
    <3> QED
      BY Zenon, <3>1, <3>2
  <2> QED
    BY Zenon, <1>0, <2>1, <2>2 DEF FlushFileInv, Writing, CommittedFlush
<1>5. ASSUME NEW a \in Appenders, AppendInsert(a) PROVE FlushFileInv'
  <2>1. \A w \in Windows : \A r \in mem'[w] : Win(r) = w
    BY Zenon, <1>0, <1>5, InsertMem DEF FlushFileInv
  <2>2. UNCHANGED <<sst, manifest, files, fpc, fwin, newSeq, snap>>
    BY Zenon, <1>5 DEF AppendInsert
  <2> QED
    BY Zenon, <1>0, <2>1, <2>2, EntriesStable
       DEF FlushFileInv, Writing, CommittedFlush, FlushPath
<1>6. CASE FlushBump \/ FlushRotate
  BY Zenon, <1>0, <1>6
     DEF FlushBump, FlushRotate, FlushFrame, FlushFileInv, Writing, CommittedFlush
<1>7. CASE FlushCreate
  <2>1. FlushPath \notin DOMAIN sst
    <3>1. newSeq \in Nat /\ \A p \in DOMAIN sst : p.seq < newSeq
      BY Zenon, <1>0, <1>7 DEF SeqInv, FlushCreate, TypeOK
    <3> QED
      BY SMTT(30), <3>1 DEF FlushPath
  <2>2. FlushPath \notin Listed
    BY Zenon, <1>0, <2>1 DEF ManifestInv, Listed
  <2>3. UNCHANGED <<manifest, fwin, newSeq, snap, mem>> /\ fpc' = "swap"
    BY Zenon, <1>7 DEF FlushCreate
  <2>4. FlushPath \in DOMAIN sst' /\ FlushPath' = FlushPath
    BY Zenon, <1>7, <2>3 DEF FlushCreate, FlushPath
  <2> QED
    BY Zenon, <1>0, <2>2, <2>3, <2>4, EntriesStable DEF FlushFileInv, Writing, CommittedFlush
<1>8. CASE FlushSwap
  <2>1. UNCHANGED <<manifest, sst, fwin, newSeq>> /\ fpc = "swap" /\ fpc' = "finish"
    BY Zenon, <1>8 DEF FlushSwap
  <2>2. /\ \A w \in Windows : \A r \in mem'[w] : Win(r) = w
        /\ \A r \in snap' : Win(r) = fwin
    BY Zenon, <1>0, <1>8 DEF FlushSwap, FlushFileInv, TypeOK
  <2> QED
    BY Zenon, <1>0, <2>1, <2>2, EntriesStable DEF FlushFileInv, Writing, CommittedFlush, FlushPath
<1>9. CASE FlushFinish
  <2>1. UNCHANGED <<manifest, fwin, newSeq, snap, mem>> /\ FlushPath' = FlushPath
    BY Zenon, <1>9 DEF FlushFinish, FlushPath
  <2>2. FlushPath \in DOMAIN sst /\ FlushPath \notin Listed
    BY Zenon, <1>0, <1>9 DEF FlushFinish, FlushFileInv, Writing
  <2>3. CASE snap = {}
    BY Zenon, <1>0, <1>9, <2>1, <2>3 DEF FlushFinish, FlushFileInv, Writing, CommittedFlush
  <2>4. CASE snap # {}
    <3>1. /\ fpc' = "commit" /\ DOMAIN sst' = DOMAIN sst
          /\ sst'[FlushPath] = [done |-> TRUE, recs |-> snap]
      BY Zenon, <1>9, <2>2, <2>4 DEF FlushFinish
    <3> QED
      BY Zenon, <1>0, <2>1, <2>2, <3>1, EntriesStable DEF FlushFileInv, Writing, CommittedFlush
  <2> QED
    BY Zenon, <2>3, <2>4
<1>10. CASE FlushCommit
  <2>1. Listed' = Listed \cup {FlushPath}
    BY Zenon, <1>0, <1>10, EntriesCommit DEF FlushCommit
  <2>2. /\ UNCHANGED <<sst, files, fwin, newSeq, snap, mem>> /\ FlushPath' = FlushPath
        /\ fpc = "commit" /\ fpc' = "unlink"
    BY Zenon, <1>10 DEF FlushCommit, FlushPath
  <2>3. FlushPath \notin files
    BY Zenon, <1>0, <2>2 DEF FlushFileInv, ManifestInv, Writing
  <2> QED
    BY SMTT(30), <1>0, <2>1, <2>2, <2>3 DEF FlushFileInv, Writing, CommittedFlush
<1>11. CASE FlushUnlink
  <2>1. /\ UNCHANGED <<sst, manifest, files, fwin, newSeq, snap, mem>> /\ FlushPath' = FlushPath
        /\ fpc = "unlink" /\ fpc' = "register"
    BY Zenon, <1>11 DEF FlushUnlink, FlushPath
  <2> QED
    BY Zenon, <1>0, <2>1, EntriesStable DEF FlushFileInv, Writing, CommittedFlush
<1>12. CASE FlushRegister
  BY Zenon, <1>0, <1>12 DEF FlushRegister, FlushReturns, FlushFileInv, Writing, CommittedFlush
<1>13. CASE FlushFail
  <2>1. UNCHANGED <<sst, manifest, files, fwin, newSeq, mem>> /\ FlushPath' = FlushPath
    BY Zenon, <1>13 DEF FlushFail, FlushPath
  <2>2. \/ fpc = "unlink" /\ fpc' = "register" /\ snap' = snap
        \/ fpc' = "idle" /\ snap' = {}
    BY Zenon, <1>13 DEF FlushFail, FlushReturns
  <2> QED
    BY Zenon, <1>0, <2>1, <2>2, EntriesStable DEF FlushFileInv, Writing, CommittedFlush
<1>14. CASE FlushCommitUnsynced
  BY Zenon, <1>0, <1>14
     DEF FlushCommitUnsynced, FlushReturns, FlushFileInv, Writing, CommittedFlush
<1>15. CASE Stops
  BY Zenon, <1>15 DEF Stops, LoseMemory, LoseProcess, FlushFileInv, Writing, CommittedFlush
<1> QED
  BY ZenonT(30), <1>1, <1>2, <1>3, <1>4, <1>5, <1>6, <1>7, <1>8, <1>9, <1>10, <1>11, <1>12,
     <1>13, <1>14,
     <1>15, StepCases DEF OpenBegin, OpenActiveWAL, AppendWAL, AppendRoute, AppendSignal

\* Replaying an edit opens its one file and raises maxFlushedTS of its window.
LEMMA ReplayEditOpens ==
    ASSUME TypeOK, ManifestInv, ReplayEdit
    PROVE  \E fe \in Entries :
              /\ editIdx \in DOMAIN manifest /\ manifest[editIdx].added = {fe}
              /\ fe.max \in Int /\ fe.path \in Paths /\ Readable(fe.path)
              /\ files' = files \cup {fe.path}
              /\ \A w \in Windows : maxFlushedTS'[w] =
                    IF fe.path.win = w /\ fe.max > maxFlushedTS[w] THEN fe.max ELSE maxFlushedTS[w]
<1>1. editIdx \in DOMAIN manifest
  <2>1. editIdx \in Nat \ {0} /\ manifest \in Seq(VersionEdits)
    BY Zenon DEF TypeOK
  <2>2. editIdx <= Len(manifest)
    BY Zenon DEF ReplayEdit
  <2> QED
    BY <2>1, <2>2
<1>2. PICK fe \in manifest[editIdx].added : manifest[editIdx].added = {fe}
  BY Zenon, <1>1 DEF ManifestInv
<1>3. fe \in Entries /\ Readable(fe.path) /\ manifest[editIdx].deleted = {}
  BY Zenon, <1>1, <1>2 DEF ManifestInv, Entries, Readable
<1>4. files' = files \cup {fe.path}
  BY Zenon, <1>2, <1>3 DEF ReplayEdit
<1>5. fe.max \in Int /\ fe.path \in Paths
  <2>1. manifest[editIdx] \in VersionEdits
    <3>1. manifest \in Seq(VersionEdits)
      BY Zenon DEF TypeOK
    <3> QED
      BY <1>1, <3>1
  <2> QED
    BY Zenon, <1>2, <2>1 DEF VersionEdits, FileEntries
<1>6. \A w \in Windows : maxFlushedTS'[w] =
          IF fe.path.win = w /\ fe.max > maxFlushedTS[w] THEN fe.max ELSE maxFlushedTS[w]
  <2> DEFINE Raises(w, e) == e.path.win = w /\ e.max > maxFlushedTS[w]
  <2>1. ~\E e \in manifest[editIdx].added : ~Readable(e.path)
    BY Zenon, <1>2, <1>3
  <2>2. maxFlushedTS' = [w \in Windows |->
            IF \E e \in manifest[editIdx].added : Raises(w, e)
            THEN (CHOOSE e \in manifest[editIdx].added : Raises(w, e)).max
            ELSE maxFlushedTS[w]]
    <3> DEFINE opened == IF \E e \in manifest[editIdx].added : ~Readable(e.path) THEN {}
                         ELSE manifest[editIdx].added
    <3>1. maxFlushedTS' = [w \in Windows |->
              IF \E e \in opened : Raises(w, e) THEN (CHOOSE e \in opened : Raises(w, e)).max
              ELSE maxFlushedTS[w]]
      BY Zenon DEF ReplayEdit
    <3>2. opened = manifest[editIdx].added
      BY Zenon, <2>1
    <3> HIDE DEF opened, Raises
    <3> QED
      BY Zenon, <3>1, <3>2
  <2> QED
    BY Zenon, <1>2, <2>2
<1> QED
  BY Zenon, <1>1, <1>2, <1>3, <1>4, <1>5, <1>6

\* Every step keeps what recovery has established so far.
LEMMA RecoveryStep ==
    ASSUME IInv, [Next]_vars
    PROVE  RecoveryInv'
<1>0. TypeOK /\ PositionInv /\ SeqInv /\ ManifestInv /\ FlushFileInv /\ RecoveryInv
  BY Zenon DEF IInv
<1>1. CASE OpenBegin
  <2>1. phase = "down" /\ phase' = "manifest" /\ UNCHANGED <<disk, editIdx, todoSegs, mem, readers>>
    BY Zenon, <1>1 DEF OpenBegin
  <2>2. editIdx' = 1 /\ \A i \in DOMAIN manifest' : ~(i < editIdx')
    <3>1. editIdx = 1 /\ manifest \in Seq(VersionEdits)
      BY Zenon, <1>0, <2>1 DEF RecoveryInv, TypeOK
    <3>2. \A i \in DOMAIN manifest : ~(i < 1)
      BY <3>1
    <3> QED
      BY Zenon, <2>1, <3>1, <3>2
  <2> QED
    BY Zenon, <1>0, <2>1, <2>2 DEF RecoveryInv
<1>2. CASE ReplayEdit
  <2>1. /\ phase = "manifest" /\ editIdx' = editIdx + 1
        /\ UNCHANGED <<phase, disk, todoSegs, mem>>
    BY Zenon, <1>2 DEF ReplayEdit
  <2>2. PICK fe \in Entries :
            /\ editIdx \in DOMAIN manifest /\ manifest[editIdx].added = {fe}
            /\ fe.max \in Int /\ fe.path \in Paths /\ Readable(fe.path)
            /\ files' = files \cup {fe.path}
            /\ \A w \in Windows : maxFlushedTS'[w] =
                  IF fe.path.win = w /\ fe.max > maxFlushedTS[w] THEN fe.max ELSE maxFlushedTS[w]
    BY Zenon, <1>0, <1>2, ReplayEditOpens
  <2>3. \A p \in files' : \A r \in sst[p].recs : TsOf[r] <= maxFlushedTS'[p.win]
    <3> TAKE p \in files'
    <3>1. p \in Paths /\ p.win \in Windows
      BY Zenon, <1>0, <2>2 DEF TypeOK, Paths
    <3>2. TAKE r \in sst[p].recs
    <3>3. r \in Records /\ TsOf[r] \in Int /\ maxFlushedTS[p.win] \in Int
      <4>1. p \in DOMAIN sst
        <5>1. \A q \in files : q \in DOMAIN sst
          BY Zenon, <1>0 DEF ManifestInv, Listed
        <5>2. fe.path \in DOMAIN sst /\ (p \in files \/ p = fe.path)
          BY Zenon, <2>2 DEF Readable
        <5> QED
          BY Zenon, <5>1, <5>2
      <4>2. sst[p] \in SSTables
        BY Zenon, <1>0, <4>1 DEF TypeOK
      <4> QED
        BY Zenon, <1>0, <3>1, <4>2, TsOfAssumption DEF TypeOK, SSTables
    <3>4. TsOf[r] <= maxFlushedTS[p.win] \/ (p = fe.path /\ TsOf[r] <= fe.max)
      BY Zenon, <1>0, <2>1, <2>2 DEF RecoveryInv, ManifestInv
    <3> QED
      BY SMTT(30), <2>2, <3>1, <3>3, <3>4
  <2>4. \A i \in DOMAIN manifest : i < editIdx + 1 =>
            \A e \in manifest[i].added : e.path \in files'
    <3> TAKE i \in DOMAIN manifest
    <3>1. i < editIdx + 1 => i < editIdx \/ i = editIdx
      <4>1. editIdx \in Nat /\ manifest \in Seq(VersionEdits)
        BY Zenon, <1>0 DEF TypeOK
      <4> QED
        BY <4>1
    <3> QED
      BY Zenon, <1>0, <2>1, <2>2, <3>1 DEF RecoveryInv
  <2> QED
    BY Zenon, <1>0, <2>1, <2>3, <2>4 DEF RecoveryInv
<1>3. CASE RemoveOrphans
  <2>1. Listed \subseteq files
    <3> SUFFICES ASSUME NEW fe \in Entries PROVE fe.path \in files
      BY Zenon DEF Listed
    <3>1. PICK i \in DOMAIN manifest : fe \in manifest[i].added
      BY Zenon DEF Entries
    <3>2. i < editIdx /\ phase = "manifest"
      BY SMTT(30), <1>0, <1>3 DEF RemoveOrphans, TypeOK
    <3> QED
      BY Zenon, <1>0, <3>1, <3>2 DEF RecoveryInv
  <2>2. \A p \in files : p \in DOMAIN sst' /\ sst'[p] = sst[p]
    BY Zenon, <1>0, <1>3 DEF RemoveOrphans, Restrict, ManifestInv, Listed
  <2>3. /\ UNCHANGED <<segs, manifest, files, maxFlushedTS>> /\ todoSegs' = DOMAIN segs
        /\ phase = "manifest" /\ phase' = "segments"
    BY Zenon, <1>3 DEF RemoveOrphans
  <2> QED
    BY Zenon, <1>0, <2>1, <2>2, <2>3, EntriesStable DEF RecoveryInv
<1>4. CASE ReplaySegment
  <2>1. /\ phase = "segments" /\ UNCHANGED <<phase, manifest, sst, files, maxFlushedTS>>
        /\ todoSegs' \subseteq DOMAIN segs'
    BY SMTT(30), <1>0, <1>4 DEF ReplaySegment, RecoveryInv, Remove, Restrict
  <2> QED
    BY Zenon, <1>0, <2>1, EntriesStable DEF RecoveryInv
<1>5. CASE OpenActiveWAL
  BY Zenon, <1>0, <1>5 DEF OpenActiveWAL, RecoveryInv, OpenSegment
<1>6. CASE Stops
  BY Zenon, <1>6 DEF Stops, LoseMemory, LoseProcess, RecoveryInv
<1>7. CASE /\ phase \in Live /\ phase' \notin {"down", "manifest", "segments"}
           /\ UNCHANGED todoSegs
  BY Zenon, <1>0, <1>7 DEF RecoveryInv, Live
<1>8. CASE UNCHANGED <<phase, disk, openVars, mem, readers>>
  BY Zenon, <1>0, <1>8, EntriesStable DEF RecoveryInv
<1>9. ASSUME NEW a \in Appenders, NEW r \in Records, AppendWAL(a, r) PROVE RecoveryInv'
  BY Zenon, <1>7, <1>9 DEF AppendWAL, Live
<1>10. ASSUME NEW a \in Appenders, AppendRoute(a) PROVE RecoveryInv'
  BY Zenon, <1>0, <1>7, <1>10 DEF AppendRoute, PositionInv, InFlight, Live
<1>11. ASSUME NEW a \in Appenders, AppendInsert(a) \/ AppendSignal(a) PROVE RecoveryInv'
  BY Zenon, <1>0, <1>7, <1>11 DEF AppendInsert, AppendSignal, PositionInv, InFlight, Live
<1>12. ASSUME fpc # "idle", FlushFrame PROVE RecoveryInv'
  BY Zenon, <1>0, <1>7, <1>12 DEF FlushFrame, PositionInv, Live
<1>13. CASE Quiet
  BY Zenon, <1>7, <1>8, <1>13 DEF Quiet, Live
<1>14. CASE FlushBump \/ FlushRotate \/ FlushCreate \/ FlushSwap \/ FlushFinish
            \/ FlushCommit \/ FlushUnlink \/ FlushRegister \/ FlushFail
            \/ FlushCommitUnsynced
  BY Zenon, <1>12, <1>14 DEF FlushBump, FlushRotate, FlushCreate, FlushSwap, FlushFinish,
                      FlushCommit, FlushUnlink, FlushRegister, FlushFail, FlushCallFails,
                      FlushCommitUnsynced
<1> QED
  BY Zenon, <1>1, <1>2, <1>3, <1>4, <1>5, <1>6, <1>9, <1>10, <1>11, <1>13, <1>14, StepCases

\* Every step keeps the places of a record disjoint.  Positive timestamps are needed
\* because a maxFlushedTS of 0 reads as "nothing flushed".
LEMMA DisjointStep ==
    ASSUME IInv, Positive, [Next]_vars
    PROVE  DisjointInv'
<1>0. /\ TypeOK /\ PositionInv /\ SeqInv /\ ManifestInv /\ FlushFileInv
      /\ RecoveryInv /\ IssuedInv /\ DisjointInv
  BY Zenon DEF IInv
<1>1. CASE UNCHANGED <<segs, sst, manifest, mem, snap, fpc, fwin, newSeq>>
  BY Zenon, <1>0, <1>1, EntriesStable DEF DisjointInv, CommittedFlush, FlushPath
<1>2. CASE Quiet
  BY Zenon, <1>0, <1>2, EntriesStable
     DEF Quiet, DisjointInv, PositionInv, CommittedFlush, FlushPath
<1>3. CASE RemoveOrphans
  <2>1. UNCHANGED <<segs, manifest, mem, snap, fpc, fwin, newSeq>>
    BY Zenon, <1>3 DEF RemoveOrphans
  <2>2. \A p \in Listed : sst'[p] = sst[p]
    <3>1. ManifestInv'
      BY Zenon, ManifestStep
    <3> QED
      BY ZenonT(30), <1>3, <2>1, <3>1, EntriesStable
         DEF ManifestInv, Listed, RemoveOrphans, Restrict
  <2> QED
    BY Zenon, <1>0, <2>1, <2>2, EntriesStable DEF DisjointInv, CommittedFlush, FlushPath
<1>4. CASE ReplaySegment
  <2>1. UNCHANGED <<sst, manifest, snap, fpc, fwin, newSeq>> /\ phase = "segments"
    BY Zenon, <1>4 DEF ReplaySegment
  <2>2. snap = {}
    BY Zenon, <1>0, <2>1 DEF PositionInv, Live
  <2>3. \A s \in DOMAIN segs' : s \in DOMAIN segs /\ segs'[s] = segs[s]
    BY Zenon, <1>4 DEF ReplaySegment, Remove, Restrict
  <2>4. \A w \in Windows : \A r \in mem'[w] : r \in mem[w] \/ (r \in Records /\ ~Covered(r))
    <3>1. \A s \in todoSegs : segs[s] \subseteq Records
      BY Zenon, <1>0 DEF RecoveryInv, TypeOK
    <3>2. PICK s \in todoSegs :
            mem' = [w \in Windows |->
                mem[w] \cup {r \in {q \in {o \in segs[s] : ~Covered(o)} : ~Refused(q)} : Win(r) = w}]
      BY Zenon, <1>4 DEF ReplaySegment
    <3> QED
      BY Zenon, <3>1, <3>2
  <2>5. \A p \in Listed : \A r \in sst[p].recs : Covered(r)
    <3> SUFFICES ASSUME NEW fe \in Entries, NEW r \in sst[fe.path].recs PROVE Covered(r)
      BY Zenon DEF Listed
    <3>1. /\ fe.path \in files /\ fe.path \in DOMAIN sst
          /\ Win(r) = fe.path.win /\ TsOf[r] <= maxFlushedTS[fe.path.win]
      BY Zenon, <1>0, <2>1 DEF RecoveryInv, ManifestInv, Listed
    <3>2. sst[fe.path] \in SSTables /\ fe.path.win \in Windows
      BY Zenon, <1>0, <3>1 DEF TypeOK, Paths
    <3>3. r \in Records
      BY Zenon, <3>2 DEF SSTables
    <3>4. TsOf[r] > 0 /\ TsOf[r] \in Int /\ maxFlushedTS[fe.path.win] \in Int
      BY Zenon, <1>0, <3>2, <3>3, TsOfAssumption DEF Positive, TypeOK
    <3>5. maxFlushedTS[Win(r)] # 0 /\ TsOf[r] <= maxFlushedTS[Win(r)]
      BY <3>1, <3>4
    <3> QED
      BY Zenon, <3>5 DEF Covered
  <2> QED
    BY Zenon, <1>0, <2>1, <2>2, <2>3, <2>4, <2>5, EntriesStable DEF DisjointInv
<1>5. CASE OpenActiveWAL \/ FlushRotate \/ FlushUnlink
  <2>1. /\ UNCHANGED <<sst, manifest, mem, snap, fwin, newSeq>>
        /\ CommittedFlush' = CommittedFlush
    BY SMTT(30), <1>5 DEF OpenActiveWAL, FlushRotate, FlushUnlink, FlushFrame, CommittedFlush
  <2>2. \A s \in DOMAIN segs' : segs'[s] = {} \/ (s \in DOMAIN segs /\ segs'[s] = segs[s])
    BY Zenon, <1>5 DEF OpenActiveWAL, FlushRotate, FlushUnlink, OpenSegment, Remove, Restrict
  <2> QED
    BY Zenon, <1>0, <2>1, <2>2, EntriesStable DEF DisjointInv, FlushPath
<1>6. ASSUME NEW a \in Appenders, NEW r \in Records, AppendWAL(a, r) PROVE DisjointInv'
  <2>1. /\ UNCHANGED <<sst, manifest, mem, snap, fpc, fwin, newSeq>> /\ r \notin issued
        /\ segs' = [segs EXCEPT ![curWAL] = @ \cup {r}]
    BY Zenon, <1>6 DEF AppendWAL
  <2>2. \A s, t \in DOMAIN segs' : s # t => segs'[s] \cap segs'[t] = {}
    <3>1. \A s \in DOMAIN segs : r \notin segs[s]
      BY Zenon, <1>0, <2>1 DEF IssuedInv
    <3>2. \A s, t \in DOMAIN segs : s # t => segs[s] \cap segs[t] = {}
      BY Zenon, <1>0 DEF DisjointInv
    <3>3. /\ DOMAIN segs' = DOMAIN segs
          /\ \A s \in DOMAIN segs : segs'[s] = segs[s] \/ (s = curWAL /\ segs'[s] = segs[s] \cup {r})
      BY Zenon, <2>1
    <3> QED
      BY <3>1, <3>2, <3>3
  <2> QED
    BY Zenon, <1>0, <2>1, <2>2, EntriesStable DEF DisjointInv, CommittedFlush, FlushPath
<1>7. ASSUME NEW a \in Appenders, AppendInsert(a) PROVE DisjointInv'
  <2>1. UNCHANGED <<segs, sst, manifest, snap, fpc, fwin, newSeq>> /\ Uninserted(a)
    BY Zenon, <1>7 DEF AppendInsert, Uninserted
  <2>2. \A w \in Windows : \A r \in mem'[w] : r \in mem[w] \/ r = arec[a]
    BY Zenon, <1>0, <1>7, InsertMem
  <2>3. arec[a] \notin snap /\ \A p \in Listed : arec[a] \notin sst[p].recs
    BY Zenon, <1>0, <2>1 DEF IssuedInv, ManifestInv, Listed
  <2> QED
    BY Zenon, <1>0, <2>1, <2>2, <2>3, EntriesStable DEF DisjointInv, CommittedFlush, FlushPath
<1>8. CASE FlushBump
  BY Zenon, <1>0, <1>8, EntriesStable DEF FlushBump, FlushFrame, DisjointInv, PositionInv, CommittedFlush
<1>9. CASE FlushCreate \/ FlushFinish
  <2>1. UNCHANGED <<segs, manifest, mem, snap, fwin, newSeq>> /\ ~CommittedFlush /\ ~CommittedFlush'
    BY Zenon, <1>9 DEF FlushCreate, FlushFinish, FlushFrame, CommittedFlush
  <2>2. FlushPath \notin Listed
    BY Zenon, <1>0, <1>9, FlushPathUnlisted
  <2>3. \A p \in Listed : p \in DOMAIN sst /\ p # FlushPath
    BY Zenon, <1>0, <2>2 DEF ManifestInv, Listed
  <2>4. \A p \in Listed : sst'[p] = sst[p]
    BY Zenon, <1>9, <2>3 DEF FlushCreate, FlushFinish, Remove, Restrict
  <2> QED
    BY Zenon, <1>0, <2>1, <2>4, EntriesStable DEF DisjointInv
<1>10. CASE FlushSwap
  <2>1. UNCHANGED <<segs, sst, manifest>> /\ snap' = mem[fwin] /\ fwin \in Windows
    BY Zenon, <1>0, <1>10 DEF FlushSwap, TypeOK
  <2>2. \A w \in Windows : \A r \in mem'[w] : r \in mem[w] /\ w # fwin
    BY Zenon, <1>0, <1>10 DEF FlushSwap, TypeOK
  <2>3. \A w \in Windows : \A r \in mem'[w] : r \notin snap'
    BY Zenon, <1>0, <2>1, <2>2 DEF FlushFileInv
  <2> QED
    BY Zenon, <1>0, <2>1, <2>2, <2>3, EntriesStable DEF DisjointInv
<1>11. CASE FlushCommit
  <2>1. Listed' = Listed \cup {FlushPath}
    BY Zenon, <1>0, <1>11, EntriesCommit DEF FlushCommit
  <2>2. /\ UNCHANGED <<segs, sst, mem, snap>> /\ FlushPath' = FlushPath /\ CommittedFlush'
        /\ ~CommittedFlush
    BY Zenon, <1>11 DEF FlushCommit, FlushPath, CommittedFlush
  <2>3. sst[FlushPath].recs = snap
    <3>1. fpc = "commit"
      BY Zenon, <1>11 DEF FlushCommit
    <3> QED
      BY <1>0, <3>1 DEF FlushFileInv
  <2>4. \A p \in Listed : \A r \in snap : r \notin sst[p].recs
    BY Zenon, <1>0, <2>2 DEF DisjointInv
  <2>5. \A p, q \in Listed' : p # q => \A r \in sst[p].recs : r \notin sst[q].recs
    <3>1. \A p, q \in Listed : p # q => \A r \in sst[p].recs : r \notin sst[q].recs
      BY Zenon, <1>0 DEF DisjointInv
    <3> QED
      BY Zenon, <2>1, <2>3, <2>4, <3>1
  <2>6. \A w \in Windows : \A r \in mem[w] :
            r \notin snap /\ \A p \in Listed' : r \notin sst[p].recs
    <3>1. \A w \in Windows : \A r \in mem[w] :
              r \notin snap /\ \A p \in Listed : r \notin sst[p].recs
      BY Zenon, <1>0 DEF DisjointInv
    <3> QED
      BY Zenon, <2>1, <2>3, <3>1
  <2>7. \A s, t \in DOMAIN segs : s # t => segs[s] \cap segs[t] = {}
    BY Zenon, <1>0 DEF DisjointInv
  <2>8. \A p \in Listed' : p # FlushPath => \A r \in snap : r \notin sst[p].recs
    BY Zenon, <2>1, <2>4
  <2> QED
    BY Zenon, <2>2, <2>5, <2>6, <2>7, <2>8 DEF DisjointInv
<1>12. CASE FlushRegister
  BY Zenon, <1>0, <1>12, EntriesStable DEF FlushRegister, FlushReturns, DisjointInv
<1>13. CASE FlushFail
  <2>1. UNCHANGED <<segs, sst, manifest, mem>> /\ FlushPath' = FlushPath
    BY Zenon, <1>13 DEF FlushFail, FlushPath
  <2>2. snap' = {} \/ (snap' = snap /\ CommittedFlush /\ CommittedFlush')
    BY Zenon, <1>13 DEF FlushFail, FlushReturns, CommittedFlush
  <2> QED
    BY Zenon, <1>0, <2>1, <2>2, EntriesStable DEF DisjointInv
<1>14. CASE FlushCommitUnsynced
  <2>1. Listed' = Listed \cup {FlushPath}
    BY Zenon, <1>0, <1>14, EntriesCommit DEF FlushCommitUnsynced
  <2>2. UNCHANGED <<segs, sst, mem>> /\ snap' = {} /\ ~CommittedFlush
    BY Zenon, <1>14 DEF FlushCommitUnsynced, FlushReturns, CommittedFlush
  <2>3. sst[FlushPath].recs = snap
    <3>1. fpc = "commit"
      BY Zenon, <1>14 DEF FlushCommitUnsynced
    <3> QED
      BY <1>0, <3>1 DEF FlushFileInv
  <2> QED
    BY SMTT(30), <1>0, <2>1, <2>2, <2>3 DEF DisjointInv
<1>15. CASE Stops
  BY Zenon, <1>0, <1>15, EntriesStable DEF Stops, LoseMemory, LoseProcess, DisjointInv
<1> QED
  BY Zenon, <1>1, <1>2, <1>3, <1>4, <1>5, <1>6, <1>7, <1>8, <1>9, <1>10, <1>11, <1>12,
     <1>13, <1>14,
     <1>15, StepCases DEF OpenBegin, ReplayEdit, AppendRoute, AppendSignal

-----------------------------------------------------------------------------
(* The invariant and what follows from it *)

\* The empty directory satisfies the invariant.
LEMMA InitIInv == Init => IInv
<1> SUFFICES ASSUME Init PROVE IInv
  OBVIOUS
<1>1. Entries = {} /\ Listed = {}
  BY DEF Init, Entries, Listed
<1>2. TypeOK
  <2>1. /\ 0 \in Nat /\ 0 \in Int /\ 1 \in Nat \ {0}
        /\ << >> \in Seq(Windows) /\ << >> \in Seq(VersionEdits) /\ Len(<< >>) <= FlushChCap
    BY SMT, BoundsAssumption
  <2> QED
    BY Zenon, <2>1 DEF Init, TypeOK, Phases, FlushSteps
<1>3. PositionInv /\ SeqInv /\ FlushFileInv /\ IssuedInv /\ DisjointInv
  BY Zenon, <1>1
     DEF Init, PositionInv, SeqInv, FlushFileInv, IssuedInv, DisjointInv, InFlight, Uninserted,
         Live, Opened, Writing, CommittedFlush
<1>4. ManifestInv /\ RecoveryInv
  BY SMTT(30), <1>1 DEF Init, ManifestInv, RecoveryInv
<1> QED
  BY Zenon, <1>2, <1>3, <1>4 DEF IInv

\* Every step keeps the invariant.
LEMMA IInvStep ==
    ASSUME Positive, NoCrashInReplay, IInv, [Next]_vars
    PROVE  IInv'
  BY Zenon, TypeStep, PositionStep, SeqStep, ManifestStep, FlushFileStep, RecoveryStep, IssuedStep,
     DisjointStep DEF IInv

\* Under its two hypotheses the engine keeps the whole invariant.
THEOREM Invariance ==
    ASSUME Positive, NoCrashInReplay
    PROVE  Spec => []IInv
<1>1. IInv /\ [Next]_vars => IInv'
  BY Zenon, IInvStep
<1> QED
  BY <1>1, InitIInv, PTL DEF Spec

\* Type correctness of every variable of the engine.
THEOREM TypeCorrect ==
    ASSUME Positive, NoCrashInReplay
    PROVE  Spec => []TypeOK
<1>1. IInv => TypeOK
  BY Zenon DEF IInv
<1> QED
  BY <1>1, Invariance, PTL

\* With positive timestamps, and no crash while Open deletes covered segments, no
\* scan returns a record twice, for any number of records, windows, appenders,
\* sessions, crashes and failing flushes.
THEOREM NoDuplicatesHolds ==
    ASSUME Positive, NoCrashInReplay
    PROVE  Spec => []NoDuplicates
<1>1. IInv => NoDuplicates
  <2> SUFFICES ASSUME IInv, phase \in Live PROVE NoDuplicates
    BY Zenon DEF NoDuplicates
  <2>0. ManifestInv /\ FlushFileInv /\ DisjointInv
    BY Zenon DEF IInv
  <2>1. files \subseteq Listed /\ Listed \subseteq DOMAIN sst
    BY Zenon, <2>0 DEF ManifestInv, Listed
  <2>2. \A p \in files : ~(CommittedFlush /\ p = FlushPath)
    BY Zenon, <2>0 DEF FlushFileInv
  <2>3. snap \cap Visible = {}
    BY SMTT(30), <2>0, <2>1, <2>2 DEF DisjointInv, Visible, InMemory, InFiles
  <2>4. InMemory \cap InFiles = {}
    BY <2>0, <2>1 DEF DisjointInv, InMemory, InFiles
  <2>5. \A p, q \in files \cap DOMAIN sst : p # q => sst[p].recs \cap sst[q].recs = {}
    BY Zenon, <2>0, <2>1 DEF DisjointInv
  <2>6. \A s, t \in DOMAIN segs : s # t => segs[s] \cap segs[t] = {}
    BY Zenon, <2>0 DEF DisjointInv
  <2> QED
    BY Zenon, <2>3, <2>4, <2>5, <2>6 DEF NoDuplicates
<1> QED
  BY <1>1, Invariance, PTL

\* A file the manifest lists keeps its place and its contents in every step.
LEMMA ListedStays ==
    ASSUME IInv, [Next]_vars, NEW p \in Listed
    PROVE  p \in Listed' /\ sst'[p] = sst[p]
<1>0. TypeOK /\ ManifestInv /\ FlushFileInv /\ SeqInv
  BY Zenon DEF IInv
<1>1. p \in DOMAIN sst
  BY Zenon, <1>0 DEF ManifestInv, Listed
<1>2. CASE UNCHANGED <<manifest, sst>>
  BY Zenon, <1>2, EntriesStable
<1>3. CASE RemoveOrphans
  <2>1. manifest' = manifest /\ ManifestInv'
    BY Zenon, <1>3, ManifestStep DEF RemoveOrphans
  <2> QED
    BY ZenonT(30), <1>3, <2>1, EntriesStable DEF ManifestInv, Listed, RemoveOrphans, Restrict
<1>4. CASE FlushCreate \/ FlushFinish
  <2>1. p # FlushPath /\ manifest' = manifest
    <3>1. FlushPath \notin Listed
      BY Zenon, <1>0, <1>4, FlushPathUnlisted
    <3> QED
      BY Zenon, <1>4, <3>1 DEF FlushCreate, FlushFinish
  <2> QED
    BY Zenon, <1>1, <1>4, <2>1, EntriesStable DEF FlushCreate, FlushFinish, Remove, Restrict
<1>5. CASE FlushCommit \/ FlushCommitUnsynced
  BY Zenon, <1>0, <1>5, EntriesCommit DEF FlushCommit, FlushCommitUnsynced
<1> QED
  BY Zenon, <1>2, <1>3, <1>4, <1>5, StepCases
     DEF Quiet, OpenBegin, ReplayEdit, ReplaySegment, OpenActiveWAL, AppendWAL, AppendRoute,
         AppendInsert, AppendSignal, FlushBump, FlushRotate, FlushSwap, FlushUnlink,
         FlushRegister, FlushFail, Stops, LoseMemory, LoseProcess

\* The committed records are those of the files the manifest lists.
LEMMA CommittedIsListed ==
    ASSUME IInv
    PROVE  Committed = UNION {sst[p].recs : p \in Listed}
<1>0. ManifestInv
  BY Zenon DEF IInv
<1>1. {q \in Referenced : sst[q].done} = Listed
  <2>1. ASSUME NEW q \in Referenced PROVE q \in Listed
    BY Zenon DEF Referenced, Listed, Entries
  <2>2. ASSUME NEW q \in Listed PROVE q \in Referenced /\ sst[q].done
    <3>1. PICK i \in DOMAIN manifest : \E fe \in manifest[i].added : fe.path = q
      BY Zenon DEF Listed, Entries
    <3>2. q \in DOMAIN sst /\ sst[q].done /\ \A j \in DOMAIN manifest : manifest[j].deleted = {}
      BY Zenon, <1>0, <3>1 DEF ManifestInv, Entries
    <3> QED
      BY Zenon, <3>1, <3>2 DEF Referenced
  <2> QED
    BY Zenon, <2>1, <2>2
<1> QED
  BY Zenon, <1>1 DEF Committed

\* Under the same hypotheses no step of any goroutine, crash or recovery takes a
\* record out of the committed SSTables.
THEOREM CommittedStaysHolds ==
    ASSUME Positive, NoCrashInReplay
    PROVE  Spec => CommittedStays
<1> DEFINE InListed == UNION {sst[p].recs : p \in Listed}
<1>1. IInv => Committed = InListed
  BY Zenon, CommittedIsListed
<1> HIDE DEF InListed
<1>2. (IInv => Committed = InListed)'
  BY <1>1, PTL
<1>3. IInv /\ IInv' /\ [Next]_vars => [Committed \subseteq Committed']_vars
  <2> SUFFICES ASSUME IInv, IInv', [Next]_vars PROVE Committed \subseteq Committed'
    OBVIOUS
  <2>1. \A p \in Listed : p \in Listed' /\ sst'[p] = sst[p]
    BY Zenon, ListedStays
  <2> QED
    BY Zenon, <1>1, <1>2, <2>1 DEF InListed
<1> QED
  BY <1>3, Invariance, PTL DEF Spec, CommittedStays

-----------------------------------------------------------------------------
(* The time windows of the router, for every window length and every        *)
(* timestamp, before and after the Unix epoch: they cover time, do not       *)
(* overlap, and a range query finds the window of every record in range.    *)

\* Go's truncated quotient leaves a remainder smaller than the divisor.
LEMMA GoQuotientBounds ==
    ASSUME NEW a \in Int, NEW b \in Int, b > 0
    PROVE  /\ GoQuotient(a, b) \in Int
           /\ a >= 0 => GoQuotient(a, b) * b <= a /\ a < GoQuotient(a, b) * b + b
           /\ a < 0 => a <= GoQuotient(a, b) * b /\ GoQuotient(a, b) * b < a + b
<1>1. ASSUME NEW n \in Nat
      PROVE  n \div b \in Int /\ (n \div b) * b <= n /\ n < (n \div b) * b + b
  <2>1. n = b * (n \div b) + (n % b) /\ n \div b \in Int /\ n % b \in 0..(b - 1)
    OBVIOUS
  <2> QED
    BY <2>1
<1>2. CASE a >= 0
  BY SMTT(30), <1>1, <1>2 DEF GoQuotient
<1>3. CASE a < 0
  <2> DEFINE q == (-a) \div b
  <2>1. -a \in Nat
    BY <1>3
  <2>2. q \in Int /\ q * b <= -a /\ -a < q * b + b
    BY <1>1, <2>1
  <2>3. GoQuotient(a, b) = -q
    BY <1>3 DEF GoQuotient
  <2>4. (-q) * b = -(q * b)
    BY <2>2
  <2> QED
    BY <1>3, <2>2, <2>3, <2>4
<1> QED
  BY <1>2, <1>3

\* floorDiv rounds towards minus infinity, also for a negative dividend.
LEMMA FloorDivBounds ==
    ASSUME NEW a \in Int, NEW b \in Int, b > 0
    PROVE  /\ FloorDiv(a, b) \in Int
           /\ FloorDiv(a, b) * b <= a
           /\ a < FloorDiv(a, b) * b + b
<1> DEFINE q == GoQuotient(a, b)
<1>1. /\ q \in Int
      /\ a >= 0 => q * b <= a /\ a < q * b + b
      /\ a < 0 => a <= q * b /\ q * b < a + b
  BY GoQuotientBounds
<1>2. (q - 1) * b = q * b - b
  BY <1>1
<1>3. FloorDiv(a, b) = IF a < 0 /\ q * b # a THEN q - 1 ELSE q
  BY DEF FloorDiv
<1> HIDE DEF q
<1> QED
  BY <1>1, <1>2, <1>3

\* Router.WindowFor puts every timestamp into a window that contains it and is
\* one PartitionDuration long.
THEOREM WindowContains ==
    \A ts \in Int :
        /\ WindowFor(ts).Start \in Int
        /\ WindowFor(ts).Start <= ts /\ ts < WindowFor(ts).End
        /\ WindowFor(ts).End = WindowFor(ts).Start + PartitionDuration
  BY FloorDivBounds, PartitionDurationAssumption DEF WindowFor

\* Distinct windows do not overlap, so an instant has one partition and a record
\* is looked up in one place.
THEOREM WindowsDisjoint ==
    \A s, t \in Int :
        WindowFor(s) # WindowFor(t) =>
            ~Overlaps(WindowFor(s), WindowFor(t).Start, WindowFor(t).End)
<1> SUFFICES ASSUME NEW s \in Int, NEW t \in Int, WindowFor(s) # WindowFor(t)
             PROVE  ~Overlaps(WindowFor(s), WindowFor(t).Start, WindowFor(t).End)
  OBVIOUS
<1> DEFINE D == PartitionDuration
           p == FloorDiv(s, D)
           q == FloorDiv(t, D)
<1>1. D \in Int /\ D > 0 /\ p \in Int /\ q \in Int
  BY FloorDivBounds, PartitionDurationAssumption
<1>2. /\ WindowFor(s) = [Start |-> p * D, End |-> p * D + D]
      /\ WindowFor(t) = [Start |-> q * D, End |-> q * D + D]
  BY DEF WindowFor
<1>3. p # q
  BY <1>2
<1> HIDE DEF D, p, q
<1>4. p * D + D <= q * D \/ q * D + D <= p * D
  <2>1. CASE p + 1 <= q
    <3>1. (p + 1) * D <= q * D
      BY <1>1, <2>1
    <3> QED
      BY <1>1, <3>1
  <2>2. CASE q + 1 <= p
    <3>1. (q + 1) * D <= p * D
      BY <1>1, <2>2
    <3> QED
      BY <1>1, <3>1
  <2> QED
    BY <1>1, <1>3, <2>1, <2>2
<1> QED
  BY <1>1, <1>2, <1>4 DEF Overlaps

\* A scan of [start, end) looks into the partition of every record in the range:
\* Router.Overlapping cannot leave out a window that holds one.
THEOREM RangeFindsWindow ==
    \A ts, start, end \in Int :
        start <= ts /\ ts < end => Overlaps(WindowFor(ts), start, end)
  BY WindowContains, PartitionDurationAssumption DEF Overlaps

\* A window is sealed only when a record for it would be refused as late: in
\* Strict mode Route never hands a record to a partition that SealExpired may
\* already have sealed at that time.
THEOREM SealedOnlyWhenLate ==
    \A ts, at \in Int : IsSealable(WindowFor(ts), at) => IsLate(ts, at)
  BY WindowContains, PartitionDurationAssumption, LateArrivalWindowAssumption
  DEF IsSealable, IsLate

-----------------------------------------------------------------------------
(* What a caller may rely on *)

\* What replaying a segment puts into a memtable.
LEMMA ReplayedMem ==
    ASSUME ReplaySegment, NEW w \in Windows, NEW r \in mem'[w]
    PROVE  r \in mem[w] \/ \E s \in todoSegs : r \in segs[s] /\ ~Covered(r) /\ ~Refused(r)
<1>1. PICK s \in todoSegs :
         mem' = [v \in Windows |-> mem[v] \cup
                    {q \in {q \in {q \in segs[s] : ~Covered(q)} : ~Refused(q)} : Win(q) = v}]
  BY Zenon DEF ReplaySegment
<1>2. mem'[w] = mem[w] \cup {q \in {q \in {q \in segs[s] : ~Covered(q)} : ~Refused(q)} : Win(q) = w}
  BY Zenon, <1>1
<1> QED
  BY Zenon, <1>2

\* Time does not go back; only the compactor seals, and only what is sealable; a
\* partition disappears only with the process.
LEMMA PartitionStep ==
    ASSUME IInv, [Next]_vars
    PROVE  /\ now \in Nat /\ now' \in Nat /\ now <= now' /\ (now' = now \/ (now < MaxNow /\ now' = now + 1))
           /\ \A w \in Windows : pstate'[w] = "sealed" =>
                 pstate[w] = "sealed" \/ IsSealable(WindowOf(w), now)
           /\ \A w \in Windows : pstate'[w] = "none" => pstate[w] = "none" \/ phase' = "down"
<1>0. TypeOK /\ TypeOK'
  BY Zenon, TypeStep DEF IInv
<1>1. now \in Nat /\ now' \in Nat
  BY Zenon, <1>0 DEF TypeOK
<1> DEFINE Sealing == \A w \in Windows : pstate'[w] = "sealed" =>
                         pstate[w] = "sealed" \/ IsSealable(WindowOf(w), now)
           Staying == \A w \in Windows : pstate'[w] = "none" => pstate[w] = "none" \/ phase' = "down"
<1>2. now' = now => now <= now' /\ (now' = now \/ (now < MaxNow /\ now' = now + 1))
  <2> SUFFICES ASSUME now' = now PROVE now <= now'
    BY Zenon
  <2> QED
    BY <1>1
<1>3. CASE Tick
  BY <1>1, <1>3 DEF Tick
<1>4. CASE pstate' = pstate /\ now' = now
  BY Zenon, <1>1, <1>2, <1>4
<1>5. ASSUME NEW w \in Windows, SealExpired(w) PROVE now' = now /\ Sealing /\ Staying
  BY Zenon, <1>0, <1>5 DEF SealExpired, TypeOK
<1>6. CASE ReplayEdit \/ ReplaySegment
  <2>1. now' = now /\ \A w \in Windows : pstate'[w] \in {"open", pstate[w]}
    BY Zenon, <1>6 DEF ReplayEdit, ReplaySegment
  <2> QED
    BY Zenon, <1>1, <1>2, <2>1
<1>7. ASSUME NEW a \in Appenders, AppendRoute(a) PROVE now' = now /\ Sealing /\ Staying
  <2>1. now' = now /\ \A w \in Windows : pstate'[w] \in {"open", pstate[w]}
    <3>1. now' = now /\ pstate \in [Windows -> {"none", "open", "sealed"}]
      BY Zenon, <1>0, <1>7 DEF AppendRoute, TypeOK
    <3>2. \/ pstate' = pstate
          \/ pstate' = [pstate EXCEPT ![Win(arec[a])] = IF @ = "none" THEN "open" ELSE @]
      BY Zenon, <1>7 DEF AppendRoute
    <3> QED
      BY Zenon, <3>1, <3>2
  <2> QED
    BY Zenon, <2>1
<1>8. CASE Stops
  BY Zenon, <1>1, <1>2, <1>8 DEF Stops, LoseMemory, LoseProcess
<1>9. CASE OpenBegin \/ RemoveOrphans \/ OpenActiveWAL \/ FlusherReceive \/ FlushFail
           \/ FlushCommitUnsynced \/ CloseBegin \/ CloseWaited \/ CloseEnd \/ UNCHANGED vars
  BY Zenon, <1>4, <1>9 DEF OpenBegin, RemoveOrphans, OpenActiveWAL, FlusherReceive, FlushFail,
                       FlushCommitUnsynced, FlushFrame, CloseBegin, CloseWaited, CloseEnd, vars
<1>10. ASSUME FlushStep PROVE pstate' = pstate /\ now' = now
  BY Zenon, <1>10 DEF FlushStep, FlushBump, FlushRotate, FlushCreate, FlushSwap, FlushFinish,
                     FlushCommit, FlushUnlink, FlushRegister, FlushFrame
<1>11. ASSUME NEW a \in Appenders, NEW r \in Records, AppendWAL(a, r)
       PROVE  pstate' = pstate /\ now' = now
  BY Zenon, <1>11 DEF AppendWAL
<1>12. ASSUME NEW a \in Appenders, AppendInsert(a) \/ AppendSignal(a)
       PROVE  pstate' = pstate /\ now' = now
  BY Zenon, <1>12 DEF AppendInsert, AppendSignal
<1>13. ASSUME NEW g \in {"flusher", "compactor"}, WorkerExit(g)
       PROVE  pstate' = pstate /\ now' = now
  BY Zenon, <1>13 DEF WorkerExit
<1>14. ASSUME NEW w \in Windows, CloseVisit(w) PROVE pstate' = pstate /\ now' = now
  BY Zenon, <1>14 DEF CloseVisit
<1> QED
  BY Zenon, <1>1, <1>3, <1>4, <1>5, <1>6, <1>7, <1>8, <1>9, <1>10, <1>11, <1>12, <1>13, <1>14, <1>2
     DEF Next, OpenStep, AppendStep, CloseStep, Exit, Crash, Stops

-----------------------------------------------------------------------------
(* Strict mode: a refused record stays invisible *)

\* A record is late from the moment its window may be sealed, and stays late.
LEMMA LateForGood ==
    ASSUME NEW r \in Records, NEW t \in Nat, NEW u \in Nat, t <= u
    PROVE  /\ IsLate(TsOf[r], t) => IsLate(TsOf[r], u)
           /\ IsSealable(WindowOf(Win(r)), t) => IsLate(TsOf[r], t)
           /\ IsSealable(WindowOf(Win(r)), t) => IsSealable(WindowOf(Win(r)), u)
<1>1. TsOf[r] \in Int
  BY TsOfAssumption
<1>2. /\ WindowFor(TsOf[r]).Start \in Int
      /\ TsOf[r] < WindowFor(TsOf[r]).Start + PartitionDuration
  BY <1>1, WindowContains
<1> QED
  BY <1>1, <1>2, LateArrivalWindowAssumption, PartitionDurationAssumption
     DEF IsLate, IsSealable, WindowOf, Win

\* Nothing brings a late, refused record back: replay refuses it again.
LEMMA InvisibleStep ==
    ASSUME Strict, IInv, [Next]_vars, NEW r \in Records, r \in issued,
           IsLate(TsOf[r], now), Invisible(r)
    PROVE  Invisible(r)'
<1>0. TypeOK /\ PositionInv /\ SeqInv /\ RecoveryInv
  BY Zenon DEF IInv
<1>1. CASE UNCHANGED <<mem, snap, sst, apc, arec>>
  BY Zenon, <1>1 DEF Invisible, InFlight
<1>2. CASE RemoveOrphans
  BY Zenon, <1>2 DEF RemoveOrphans, Restrict, Invisible, InFlight
<1>3. CASE ReplaySegment
  <2>1. UNCHANGED <<snap, sst, apc, arec>>
    BY Zenon, <1>3 DEF ReplaySegment
  <2>2. Refused(r)
    BY Zenon DEF Refused, Strict
  <2>3. \A w \in Windows : r \in mem'[w] => r \in mem[w]
    BY Zenon, <1>3, <2>2, ReplayedMem
  <2> QED
    BY Zenon, <2>1, <2>3 DEF Invisible, InFlight
<1>4. ASSUME NEW a \in Appenders, NEW q \in Records, AppendWAL(a, q) PROVE Invisible(r)'
  BY Zenon, <1>0, <1>4 DEF AppendWAL, Invisible, InFlight, TypeOK
<1>5. ASSUME NEW a \in Appenders, AppendRoute(a) \/ AppendSignal(a) PROVE Invisible(r)'
  <2>1. UNCHANGED <<mem, snap, sst>>
    BY Zenon, <1>5 DEF AppendRoute, AppendSignal
  <2>2. \A b \in Appenders : InFlight(b)' => InFlight(b) /\ arec'[b] = arec[b]
    BY Zenon, <1>0, <1>5 DEF AppendRoute, AppendSignal, AppendReturns, InFlight, TypeOK
  <2> QED
    BY Zenon, <2>1, <2>2 DEF Invisible
<1>6. ASSUME NEW a \in Appenders, AppendInsert(a) PROVE Invisible(r)'
  <2>1. UNCHANGED <<snap, sst>> /\ InFlight(a)
    BY Zenon, <1>6 DEF AppendInsert, InFlight
  <2>2. \A b \in Appenders : InFlight(b)' => InFlight(b) /\ arec'[b] = arec[b]
    BY Zenon, <1>0, <1>6 DEF AppendInsert, AppendReturns, InFlight, TypeOK
  <2>3. \A w \in Windows : \A q \in mem'[w] : q \in mem[w] \/ q = arec[a]
    BY Zenon, <1>0, <1>6, InsertMem
  <2> QED
    BY Zenon, <2>1, <2>2, <2>3 DEF Invisible
<1>7. CASE FlushCreate
  <2>1. UNCHANGED <<mem, snap, apc, arec>>
    BY Zenon, <1>7 DEF FlushCreate, FlushFrame
  <2>2. \A p \in DOMAIN sst' : sst'[p].recs = {} \/ (p \in DOMAIN sst /\ sst'[p] = sst[p])
    BY Zenon, <1>7 DEF FlushCreate
  <2> QED
    BY Zenon, <2>1, <2>2 DEF Invisible, InFlight
<1>8. CASE FlushSwap
  <2>1. UNCHANGED <<sst, apc, arec>> /\ snap' = mem[fwin] /\ fwin \in Windows
    BY Zenon, <1>0, <1>8 DEF FlushSwap, FlushFrame, TypeOK
  <2>2. \A w \in Windows : mem'[w] \subseteq mem[w]
    BY Zenon, <1>0, <1>8 DEF FlushSwap, TypeOK
  <2> QED
    BY Zenon, <2>1, <2>2 DEF Invisible, InFlight
<1>9. CASE FlushFinish
  <2>1. UNCHANGED <<mem, snap, apc, arec>>
    BY Zenon, <1>9 DEF FlushFinish, FlushFrame
  <2>2. \A p \in DOMAIN sst' : p \in DOMAIN sst /\ (sst'[p].recs = snap \/ sst'[p] = sst[p])
    BY <1>9 DEF FlushFinish, Remove, Restrict
  <2> QED
    BY Zenon, <2>1, <2>2 DEF Invisible, InFlight
<1>10. CASE FlushRegister \/ FlushFail \/ FlushCommitUnsynced
  <2>1. UNCHANGED <<mem, sst, apc, arec>> /\ snap' \subseteq snap
    BY Zenon, <1>10 DEF FlushRegister, FlushFail, FlushCommitUnsynced, FlushReturns, FlushFrame
  <2> QED
    BY Zenon, <2>1 DEF Invisible, InFlight
<1>11. CASE Stops
  BY Zenon, <1>11 DEF Stops, LoseMemory, LoseProcess, Invisible, InFlight
<1> QED
  BY Zenon, <1>1, <1>2, <1>3, <1>4, <1>5, <1>6, <1>7, <1>8, <1>9, <1>10, <1>11, StepCases
     DEF Quiet, OpenBegin, ReplayEdit, OpenActiveWAL, FlushBump, FlushRotate, FlushCommit,
         FlushUnlink, FlushFrame

\* A record becomes rejected in Route or in a sealed partition, before it is inserted.
LEMMA RejectedBy ==
    ASSUME IInv, [Next]_vars, NEW r \in rejected', r \notin rejected
    PROVE  \E a \in Appenders : r = arec[a] /\
              \/ AppendRoute(a) /\ Refused(arec[a])
              \/ AppendInsert(a) /\ pstate[Win(arec[a])] # "open"
<1>1. ASSUME NEW a \in Appenders, NEW q \in Records, AppendWAL(a, q) PROVE rejected' = rejected
  BY Zenon, <1>1 DEF AppendWAL
<1>2. ASSUME NEW a \in Appenders, AppendRoute(a)
      PROVE  rejected' = rejected \/ (Refused(arec[a]) /\ rejected' = rejected \cup {arec[a]})
  BY Zenon, <1>2 DEF AppendRoute
<1>3. ASSUME NEW a \in Appenders, AppendInsert(a)
      PROVE  \/ rejected' = rejected
             \/ pstate[Win(arec[a])] # "open" /\ rejected' = rejected \cup {arec[a]}
  BY Zenon, <1>3 DEF AppendInsert
<1>4. ASSUME NEW a \in Appenders, AppendSignal(a) PROVE rejected' = rejected
  BY Zenon, <1>4 DEF AppendSignal
<1>5. ASSUME Quiet \/ OpenBegin \/ ReplayEdit \/ RemoveOrphans \/ ReplaySegment \/ OpenActiveWAL
             \/ Stops
      PROVE  rejected' = rejected
  BY Zenon, <1>5 DEF Quiet, OpenBegin, ReplayEdit, RemoveOrphans, ReplaySegment, OpenActiveWAL,
                     Stops, LoseMemory, LoseProcess
<1>6. ASSUME FlushBump \/ FlushRotate \/ FlushCreate \/ FlushSwap \/ FlushFinish \/ FlushCommit
             \/ FlushUnlink \/ FlushRegister \/ FlushFail \/ FlushCommitUnsynced
      PROVE  rejected' = rejected
  BY Zenon, <1>6 DEF FlushBump, FlushRotate, FlushCreate, FlushSwap, FlushFinish, FlushCommit,
                     FlushUnlink, FlushRegister, FlushFail, FlushCommitUnsynced, FlushFrame
<1> QED
  BY Zenon, <1>1, <1>2, <1>3, <1>4, <1>5, <1>6, StepCases

\* Every step keeps RejectedInv.
LEMMA RejectedStep ==
    ASSUME Strict, IInv, IInv', RejectedInv, [Next]_vars
    PROVE  RejectedInv'
<1>0. TypeOK /\ TypeOK' /\ PositionInv' /\ IssuedInv /\ IssuedInv'
  BY Zenon DEF IInv
<1>1. now \in Nat /\ now' \in Nat /\ now <= now'
  BY Zenon, PartitionStep
<1>2. \A w \in Windows : pstate'[w] = "sealed" => IsSealable(WindowOf(w), now')
  <2> SUFFICES ASSUME NEW r \in Records, pstate'[Win(r)] = "sealed"
               PROVE  IsSealable(WindowOf(Win(r)), now')
    BY Zenon DEF Windows
  <2>1. IsSealable(WindowOf(Win(r)), now)
    BY Zenon, PartitionStep, WinType DEF RejectedInv
  <2> QED
    BY Zenon, <1>1, <2>1, LateForGood
<1>3. ASSUME NEW a \in Appenders, apc'[a] = "insert" PROVE pstate'[Win(arec'[a])] # "none"
  <2>1. arec'[a] \in Records /\ Win(arec'[a]) \in Windows /\ phase' # "down"
    BY Zenon, <1>0, <1>3, WinType DEF TypeOK, PositionInv, InFlight
  <2>2. CASE apc[a] = "insert" /\ arec'[a] = arec[a]
    BY Zenon, <2>1, <2>2, PartitionStep DEF RejectedInv
  <2>3. CASE AppendRoute(a)
    <3>1. apc \in [Appenders -> {"idle", "route", "insert", "signal"}]
          /\ pstate \in [Windows -> {"none", "open", "sealed"}]
      BY Zenon, <1>0 DEF TypeOK
    <3>2. CASE Refused(arec[a])
      <4>1. apc' = [apc EXCEPT ![a] = "idle"]
        BY Zenon, <2>3, <3>2 DEF AppendRoute, AppendReturns
      <4>2. apc'[a] = "idle"
        BY Zenon, <3>1, <4>1
      <4> QED
        BY <1>3, <4>2
    <3>3. CASE ~Refused(arec[a])
      <4>1. pstate' = [pstate EXCEPT ![Win(arec[a])] = IF @ = "none" THEN "open" ELSE @] /\ arec' = arec
        BY Zenon, <2>3, <3>3 DEF AppendRoute
      <4> QED
        BY <2>1, <3>1, <4>1
    <3> QED
      BY <3>2, <3>3
  <2>4. ASSUME NEW b \in Appenders, NEW q \in Records, AppendWAL(b, q)
        PROVE  apc[a] = "insert" /\ arec'[a] = arec[a]
    <3>1. DOMAIN apc = Appenders /\ DOMAIN arec = Appenders
      BY Zenon, <1>0 DEF TypeOK
    <3>2. apc' = [apc EXCEPT ![b] = "route"] /\ arec' = [arec EXCEPT ![b] = q] /\ apc[b] = "idle"
      BY Zenon, <2>4 DEF AppendWAL
    <3> QED
      BY <1>3, <3>1, <3>2
  <2>5. ASSUME NEW b \in Appenders, a # b, AppendRoute(b)
        PROVE  apc[a] = "insert" /\ arec'[a] = arec[a]
    BY Zenon, <1>0, <1>3, <2>5 DEF AppendRoute, AppendReturns, TypeOK
  <2>6. ASSUME NEW b \in Appenders, AppendInsert(b) \/ AppendSignal(b)
        PROVE  apc[a] = "insert" /\ arec'[a] = arec[a]
    BY ZenonT(30), <1>0, <1>3, <2>6 DEF AppendInsert, AppendSignal, AppendReturns, TypeOK
  <2>7. ASSUME UNCHANGED <<apc, arec>> PROVE apc[a] = "insert" /\ arec'[a] = arec[a]
    BY Zenon, <1>3, <2>7
  <2>8. ~Stops
    BY Zenon, <1>3 DEF Stops, LoseMemory, LoseProcess
  <2> QED
    BY Zenon, <2>2, <2>3, <2>4, <2>5, <2>6, <2>7, <2>8, StepCases
       DEF Quiet, OpenBegin, ReplayEdit, RemoveOrphans, ReplaySegment, OpenActiveWAL, FlushBump,
           FlushRotate, FlushCreate, FlushSwap, FlushFinish, FlushCommit, FlushUnlink,
           FlushRegister, FlushFail, FlushCommitUnsynced, FlushFrame
<1>4. ASSUME NEW r \in rejected' PROVE IsLate(TsOf[r], now') /\ Invisible(r)'
  <2>1. r \in Records
    BY Zenon, <1>0 DEF TypeOK
  <2>2. CASE r \in rejected
    <3>1. IsLate(TsOf[r], now) /\ Invisible(r) /\ r \in issued
      BY Zenon, <1>0, <2>2 DEF RejectedInv, TypeOK
    <3> QED
      BY Zenon, <1>1, <2>1, <3>1, LateForGood, InvisibleStep
  <2>3. CASE r \notin rejected
    <3>1. PICK a \in Appenders : r = arec[a] /\
              \/ AppendRoute(a) /\ Refused(arec[a])
              \/ AppendInsert(a) /\ pstate[Win(arec[a])] # "open"
      BY Zenon, <2>3, RejectedBy
    <3>2. IsLate(TsOf[r], now)
      <4>1. CASE AppendRoute(a) /\ Refused(arec[a])
        BY Zenon, <3>1, <4>1 DEF Refused
      <4>2. CASE AppendInsert(a) /\ pstate[Win(arec[a])] # "open"
        <5>1. pstate[Win(r)] = "sealed"
          BY Zenon, <1>0, <2>1, <3>1, <4>2, WinType DEF AppendInsert, RejectedInv, TypeOK
        <5>2. now <= now
          BY <1>1
        <5> QED
          BY Zenon, <1>1, <2>1, <5>1, <5>2, WinType, LateForGood DEF RejectedInv
      <4> QED
        BY Zenon, <3>1, <4>1, <4>2
    <3>3. Uninserted(a) /\ UNCHANGED <<snap, sst>>
      BY Zenon, <3>1 DEF AppendRoute, AppendInsert, Uninserted
    <3>4. \A w \in Windows : mem'[w] = mem[w]
      BY Zenon, <3>1 DEF AppendRoute, AppendInsert
    <3>5. \A b \in Appenders : InFlight(b)' => b # a /\ InFlight(b) /\ arec'[b] = arec[b]
      <4>1. apc' = [apc EXCEPT ![a] = "idle"] /\ arec' = [arec EXCEPT ![a] = NoRecord]
        BY Zenon, <3>1 DEF AppendRoute, AppendInsert, AppendReturns
      <4>2. DOMAIN apc = Appenders /\ DOMAIN arec = Appenders
        BY Zenon, <1>0 DEF TypeOK
      <4>3. \A b \in Appenders : apc'[b] # "idle" => b # a /\ apc[b] # "idle" /\ arec'[b] = arec[b]
        BY Zenon, <4>1, <4>2
      <4> QED
        BY Zenon, <4>3 DEF InFlight
    <3>6. \A b \in Appenders : InFlight(b)' => arec'[b] # r
      BY Zenon, <1>0, <3>1, <3>3, <3>5 DEF IssuedInv, Uninserted, InFlight
    <3>7. Invisible(r)'
      BY Zenon, <1>0, <3>1, <3>3, <3>4, <3>6 DEF IssuedInv, Invisible
    <3> QED
      BY Zenon, <1>1, <2>1, <3>2, <3>7, LateForGood
  <2> QED
    BY Zenon, <2>2, <2>3
<1> QED
  BY Zenon, <1>2, <1>3, <1>4 DEF RejectedInv

\* In Strict mode a record whose Append returned an error is never visible, in no
\* session, whatever crashes and failing flushes: the segment it was written to may be
\* replayed, but by then the record is late and Route refuses it again.
THEOREM RejectedStaysInvisibleHolds ==
    ASSUME Positive, NoCrashInReplay, Strict
    PROVE  Spec => []RejectedStaysInvisible
<1>1. Init => RejectedInv
  BY Zenon DEF Init, RejectedInv
<1>2. IInv /\ IInv' /\ RejectedInv /\ [Next]_vars => RejectedInv'
  BY Zenon, RejectedStep
<1>3. RejectedInv => RejectedStaysInvisible
  BY Zenon DEF RejectedInv, Invisible, RejectedStaysInvisible, Visible, InMemory, InFiles
<1> QED
  BY <1>1, <1>2, <1>3, Invariance, PTL DEF Spec

-----------------------------------------------------------------------------
(* Where an inserted record is *)

\* Without faults, now or before, no call of a flush fails.
LEMMA NoFaults ==
    ASSUME TypeOK, MaxFaults = 0, ~manifestErr
    PROVE  ~FlushFail /\ ~FlushCommitUnsynced
<1>1. faults \in Nat
  BY Zenon DEF TypeOK
<1>2. ~(faults < 0)
  BY <1>1
<1> QED
  BY Zenon, <1>2 DEF FlushFail, FlushCallFails, FlushCommitUnsynced

\* An inserted record was issued, and AppendInsert is what makes a record inserted.
LEMMA InsertedIssued ==
    ASSUME IInv
    PROVE  Inserted \subseteq issued
<1>1. acked \subseteq issued
  BY Zenon DEF IInv, TypeOK
<1>2. \A a \in Appenders : apc[a] = "signal" => arec[a] \in issued
  BY Zenon DEF IInv, IssuedInv, InFlight
<1> QED
  BY Zenon, <1>1, <1>2 DEF Inserted

\* A record enters Inserted only when its Append inserts it.
LEMMA InsertedStep ==
    ASSUME IInv, [Next]_vars, NEW r \in Inserted'
    PROVE  \/ r \in Inserted
           \/ \E a \in Appenders : /\ AppendInsert(a) /\ r = arec[a]
                                   /\ mem' = [mem EXCEPT ![Win(arec[a])] = @ \cup {arec[a]}]
<1>0. TypeOK
  BY Zenon DEF IInv
<1>1. CASE UNCHANGED <<apc, arec, acked>>
  BY Zenon, <1>1 DEF Inserted
<1>2. ASSUME NEW a \in Appenders, NEW q \in Records, AppendWAL(a, q) PROVE r \in Inserted
  <2>1. acked' = acked /\ \A b \in Appenders : apc'[b] = "signal" => apc[b] = "signal" /\ arec'[b] = arec[b]
    BY Zenon, <1>0, <1>2 DEF AppendWAL, TypeOK
  <2> QED
    BY Zenon, <2>1 DEF Inserted
<1>3. ASSUME NEW a \in Appenders, AppendRoute(a) PROVE r \in Inserted
  <2>1. acked' = acked /\ \A b \in Appenders : apc'[b] = "signal" => apc[b] = "signal" /\ arec'[b] = arec[b]
    BY Zenon, <1>0, <1>3 DEF AppendRoute, AppendReturns, TypeOK
  <2> QED
    BY Zenon, <2>1 DEF Inserted
<1>4. ASSUME NEW a \in Appenders, AppendSignal(a) PROVE r \in Inserted
  <2>1. /\ acked' = acked \cup {arec[a]} /\ apc[a] = "signal"
        /\ \A b \in Appenders : apc'[b] = "signal" => apc[b] = "signal" /\ arec'[b] = arec[b]
    BY Zenon, <1>0, <1>4 DEF AppendSignal, AppendReturns, TypeOK
  <2> QED
    BY Zenon, <2>1 DEF Inserted
<1>5. ASSUME NEW a \in Appenders, AppendInsert(a)
      PROVE  \/ r \in Inserted
             \/ r = arec[a] /\ mem' = [mem EXCEPT ![Win(arec[a])] = @ \cup {arec[a]}]
  <2>1. /\ acked' = acked
        /\ \A b \in Appenders : apc'[b] = "signal" /\ b # a => apc[b] = "signal" /\ arec'[b] = arec[b]
        /\ apc'[a] = "signal" => /\ arec'[a] = arec[a]
                                 /\ mem' = [mem EXCEPT ![Win(arec[a])] = @ \cup {arec[a]}]
    BY Zenon, <1>0, <1>5 DEF AppendInsert, AppendReturns, TypeOK
  <2> QED
    BY Zenon, <2>1 DEF Inserted
<1>6. CASE Stops
  BY Zenon, <1>6 DEF Stops, LoseMemory, LoseProcess, Inserted
<1> QED
  BY Zenon, <1>1, <1>2, <1>3, <1>4, <1>5, <1>6, StepCases
     DEF Quiet, OpenBegin, ReplayEdit, RemoveOrphans, ReplaySegment, OpenActiveWAL, FlushBump,
         FlushRotate, FlushCreate, FlushSwap, FlushFinish, FlushCommit, FlushUnlink,
         FlushRegister, FlushFail, FlushCommitUnsynced, FlushFrame

\* While the engine is open and no flush fails, scans see every inserted record: a flush
\* hands it from the memtable to the snapshot and from there to a file with a reader.
LEMMA SeenStep ==
    ASSUME MaxFaults = 0, ~manifestErr, IInv, IInv', [Next]_vars, Opened, Opened',
           \A r \in Inserted : Seen(r), NEW r \in Inserted'
    PROVE  Seen(r)'
<1>0. /\ TypeOK /\ TypeOK' /\ PositionInv /\ ManifestInv /\ FlushFileInv /\ ManifestInv'
  BY Zenon DEF IInv
<1>1. r \in Records /\ Win(r) \in Windows
  <2>1. issued' \subseteq Records /\ Inserted' \subseteq issued'
    <3>1. (IInv => Inserted \subseteq issued)'
      BY InsertedIssued, PTL
    <3> QED
      BY Zenon, <1>0, <3>1 DEF TypeOK
  <2> QED
    BY Zenon, <2>1, WinType
<1>2. CASE r \notin Inserted
  <2>1. PICK a \in Appenders : r = arec[a] /\ mem' = [mem EXCEPT ![Win(arec[a])] = @ \cup {arec[a]}]
    BY Zenon, <1>2, InsertedStep
  <2> QED
    BY Zenon, <1>0, <1>1, <2>1 DEF Seen, TypeOK
<1>3. CASE InOpenFile(r) /\ files \subseteq files'
  <2>1. PICK p \in files : r \in sst[p].recs
    BY Zenon, <1>3 DEF InOpenFile
  <2>2. sst'[p] = sst[p]
    BY Zenon, <1>0, ListedStays DEF ManifestInv
  <2> QED
    BY Zenon, <1>3, <2>1, <2>2 DEF Seen, InOpenFile
<1>4. CASE r \in Inserted /\ ~InOpenFile(r)
  <2>1. r \in mem[Win(r)] \/ r \in snap
    BY Zenon, <1>4 DEF Seen
  <2>2. CASE UNCHANGED <<mem, snap>>
    BY Zenon, <2>1, <2>2 DEF Seen
  <2>3. ASSUME NEW a \in Appenders, AppendInsert(a) PROVE Seen(r)'
    <3>1. snap' = snap
      BY Zenon, <2>3 DEF AppendInsert
    <3>2. CASE mem' = [mem EXCEPT ![Win(arec[a])] = @ \cup {arec[a]}]
      BY Zenon, <1>0, <1>1, <2>1, <3>1, <3>2 DEF Seen, TypeOK
    <3> QED
      BY Zenon, <2>2, <2>3, <3>1, <3>2 DEF AppendInsert
  <2>4. CASE FlushSwap
    <3>1. snap = {} /\ snap' = mem[fwin] /\ mem' = [mem EXCEPT ![fwin] = {}]
      BY Zenon, <1>0, <2>4 DEF FlushSwap, PositionInv
    <3> QED
      BY Zenon, <1>0, <1>1, <2>1, <3>1 DEF Seen, TypeOK
  <2>5. CASE FlushRegister
    <3>1. mem' = mem /\ FlushPath \in files' /\ UNCHANGED sst /\ fpc = "register"
      BY Zenon, <2>5 DEF FlushRegister
    <3>2. sst[FlushPath].recs = snap
      BY Zenon, <1>0, <3>1 DEF FlushFileInv, CommittedFlush
    <3> QED
      BY Zenon, <2>1, <3>1, <3>2 DEF Seen, InOpenFile
  <2>6. ~ReplaySegment /\ ~Stops
    BY Zenon DEF ReplaySegment, Stops, LoseMemory, LoseProcess, Opened, Live
  <2> QED
    BY Zenon, <1>0, <2>2, <2>3, <2>4, <2>5, <2>6, NoFaults, StepCases
       DEF Quiet, OpenBegin, ReplayEdit, RemoveOrphans, OpenActiveWAL, AppendWAL, AppendRoute,
           AppendSignal, FlushBump, FlushRotate, FlushCreate, FlushFinish, FlushCommit, FlushUnlink
<1>5. files \subseteq files'
  <2>1. ~ReplayEdit /\ ~Stops
    BY Zenon DEF ReplayEdit, Stops, LoseMemory, LoseProcess, Opened, Live
  <2> QED
    BY Zenon, <1>0, <2>1, NoFaults, StepCases
       DEF Quiet, OpenBegin, RemoveOrphans, ReplaySegment, OpenActiveWAL, AppendWAL, AppendRoute,
           AppendInsert, AppendSignal, FlushBump, FlushRotate, FlushCreate, FlushSwap, FlushFinish,
           FlushCommit, FlushUnlink, FlushRegister
<1> QED
  BY Zenon, <1>2, <1>3, <1>4, <1>5

\* Only the end of Open creates an Engine.
LEMMA OpensOnly ==
    ASSUME IInv, [Next]_vars, ~Opened, Opened'
    PROVE  OpenActiveWAL
<1>1. phase' # phase /\ phase \notin Live
  BY Zenon DEF Opened
<1> QED
  BY Zenon, <1>1, StepCases
     DEF Opened, Live, Quiet, OpenBegin, ReplayEdit, RemoveOrphans, ReplaySegment, AppendWAL,
         AppendRoute, AppendInsert, AppendSignal, FlushBump, FlushRotate, FlushCreate, FlushSwap,
         FlushFinish, FlushCommit, FlushUnlink, FlushRegister, FlushFail, FlushCommitUnsynced,
         FlushFrame, Stops, LoseMemory, LoseProcess

\* What scans see is what AckedVisible speaks of.
LEMMA SeenIsVisible ==
    ASSUME IInv, \A r \in Inserted : Seen(r)
    PROVE  acked \subseteq Visible \cup snap
<1> SUFFICES ASSUME NEW r \in acked PROVE r \in Visible \cup snap
  OBVIOUS
<1>1. Seen(r) /\ r \in Records
  BY Zenon DEF Inserted, IInv, TypeOK
<1>2. files \subseteq DOMAIN sst
  BY Zenon DEF IInv, ManifestInv, Listed
<1> QED
  BY Zenon, <1>1, <1>2, WinType DEF Seen, InOpenFile, Visible, InMemory, InFiles

-----------------------------------------------------------------------------
(* Clean sessions: Close leaves nothing behind *)

\* A memtable gets a record only in an open partition.
LEMMA FilledIsOpen ==
    ASSUME IInv, [Next]_vars, NEW w \in Windows, mem'[w] # {}
    PROVE  \/ mem[w] # {} /\ phase' # "down"
           \/ pstate'[w] = "open" /\ phase \in {"running", "segments"} /\ phase' = phase
<1>0. TypeOK /\ PositionInv /\ RecoveryInv
  BY Zenon DEF IInv
<1>1. CASE mem' = mem /\ phase' # "down"
  BY Zenon, <1>1
<1>2. CASE ReplaySegment
  <2>1. PICK R : /\ mem' = [v \in Windows |-> mem[v] \cup {r \in R : Win(r) = v}]
                 /\ pstate' = [v \in Windows |->
                        IF \E r \in R : Win(r) = v THEN "open" ELSE pstate[v]]
    BY Zenon, <1>2 DEF ReplaySegment
  <2>2. phase = "segments" /\ phase' = phase
    BY Zenon, <1>2 DEF ReplaySegment
  <2> QED
    BY <2>1, <2>2
<1>3. ASSUME NEW a \in Appenders, AppendInsert(a)
      PROVE  \/ mem[w] # {} /\ phase' # "down"
             \/ pstate'[w] = "open" /\ phase \in {"running", "segments"} /\ phase' = phase
  <2>1. phase = "running" /\ phase' = phase
    BY Zenon, <1>0, <1>3 DEF AppendInsert, PositionInv, InFlight
  <2> QED
    BY Zenon, <1>0, <1>3, <2>1 DEF AppendInsert, TypeOK
<1>4. CASE FlushSwap
  <2>1. phase' = phase /\ phase \in Live
    BY Zenon, <1>0, <1>4 DEF FlushSwap, FlushFrame, PositionInv
  <2> QED
    BY Zenon, <1>0, <1>4, <2>1 DEF FlushSwap, TypeOK, Live
<1>5. ~Stops
  BY Zenon DEF Stops, LoseMemory, LoseProcess
<1>6. ~(phase' = "down" /\ mem' = mem)
  <2> SUFFICES ASSUME phase' = "down", mem' = mem PROVE FALSE
    OBVIOUS
  <2>1. phase # "down"
    BY Zenon DEF IInv, RecoveryInv
  <2>2. FlushFrame => phase' = phase
    BY Zenon DEF FlushFrame
  <2> QED
    BY Zenon, <1>5, <2>1, <2>2, StepCases
       DEF Quiet, OpenBegin, ReplayEdit, RemoveOrphans, ReplaySegment, OpenActiveWAL, AppendWAL,
           AppendRoute, AppendInsert, AppendSignal, FlushBump, FlushRotate, FlushCreate, FlushSwap,
           FlushFinish, FlushCommit, FlushUnlink, FlushRegister, FlushFail, FlushCommitUnsynced
<1> QED
  BY Zenon, <1>1, <1>2, <1>3, <1>4, <1>5, <1>6, StepCases
     DEF Quiet, OpenBegin, ReplayEdit, RemoveOrphans, OpenActiveWAL, AppendWAL, AppendRoute,
         AppendSignal, FlushBump, FlushRotate, FlushCreate, FlushFinish, FlushCommit, FlushUnlink,
         FlushRegister, FlushFail, FlushCommitUnsynced

\* Close's loop comes to every memtable that is not empty.
LEMMA DrainStep ==
    ASSUME MaxFaults = 0, IInv, CleanInv, [Next]_vars, phase' = "draining",
           NEW w \in Windows, mem'[w] # {}
    PROVE  w \in todoParts' \/ (fwin' = w /\ fpc' \in {"bump", "rotate", "create", "swap"})
<1>0. TypeOK /\ PositionInv /\ CleanInv
  BY Zenon DEF IInv
<1>1. mem[w] # {} /\ pstate[w] = "open"
  BY Zenon, <1>0, FilledIsOpen DEF CleanInv
<1>2. CASE CloseWaited
  BY Zenon, <1>1, <1>2 DEF CloseWaited
<1>3. CASE phase # "draining" /\ ~CloseWaited
  <2>1. FlushFrame => phase' = phase
    BY Zenon DEF FlushFrame
  <2> QED
    BY Zenon, <1>3, <2>1
       DEF Next, vars, OpenBegin, OpenStep, ReplayEdit, RemoveOrphans, ReplaySegment, OpenActiveWAL,
           AppendWAL, AppendStep, AppendRoute, AppendInsert, AppendSignal, FlusherReceive, FlushStep,
           FlushBump, FlushRotate, FlushCreate, FlushSwap, FlushFinish, FlushCommit, FlushUnlink,
           FlushRegister, FlushFail, FlushCommitUnsynced, SealExpired, CloseBegin, CloseStep,
           WorkerExit, CloseVisit, CloseEnd, Exit, Crash, LoseMemory, LoseProcess, Tick
<1>4. CASE phase = "draining"
  <2>1. w \in todoParts \/ (fwin = w /\ fpc \in {"bump", "rotate", "create", "swap"})
    BY Zenon, <1>0, <1>1, <1>4 DEF CleanInv
  <2>2. workers = {} /\ \A a \in Appenders : apc[a] = "idle"
    BY Zenon, <1>0, <1>4 DEF PositionInv, InFlight
  <2>3. ASSUME NEW v \in Windows, CloseVisit(v)
        PROVE  w \in todoParts' \/ (fwin' = w /\ fpc' \in {"bump", "rotate", "create", "swap"})
    BY Zenon, <1>1, <2>1, <2>3 DEF CloseVisit, NeedsFlush
  <2>4. CASE FlushStep
    <3>1. todoParts' = todoParts /\ fwin' = fwin
      BY Zenon, <2>4 DEF FlushStep, FlushBump, FlushRotate, FlushCreate, FlushSwap, FlushFinish,
                         FlushCommit, FlushUnlink, FlushRegister, FlushFrame
    <3>2. FlushSwap => w # fwin
      BY Zenon, <1>0 DEF FlushSwap, TypeOK
    <3>3. fpc \in {"bump", "rotate", "create", "swap"} =>
              FlushSwap \/ fpc' \in {"bump", "rotate", "create", "swap"}
      BY Zenon, <2>4 DEF FlushStep, FlushBump, FlushRotate, FlushCreate, FlushSwap, FlushFinish,
                         FlushCommit, FlushUnlink, FlushRegister
    <3> QED
      BY Zenon, <2>1, <3>1, <3>2, <3>3
  <2>5. CASE UNCHANGED <<todoParts, fwin, fpc>>
    BY Zenon, <2>1, <2>5
  <2>6. /\ ~FlushFail /\ ~FlushCommitUnsynced /\ ~FlusherReceive /\ ~CloseWaited
        /\ ~Exit /\ ~Crash /\ ~OpenBegin /\ ~OpenStep /\ ~CloseBegin /\ ~CloseEnd
    BY Zenon, <1>0, <1>4, <2>2, NoFaults
       DEF CleanInv, FlusherReceive, CloseWaited, Exit, Crash, LoseMemory, LoseProcess, OpenBegin, OpenStep,
           ReplayEdit, RemoveOrphans, ReplaySegment, OpenActiveWAL, CloseBegin, CloseEnd
  <2> QED
    BY Zenon, <1>4, <2>2, <2>3, <2>4, <2>5, <2>6
       DEF Next, vars, AppendWAL, AppendStep, AppendRoute, AppendInsert, AppendSignal,
           SealExpired, CloseStep, WorkerExit, Tick
<1> QED
  BY Zenon, <1>2, <1>3, <1>4

\* Every step keeps CleanInv.
LEMMA CleanStep ==
    ASSUME CleanSetting, IInv, IInv', CleanInv, [Next]_vars
    PROVE  CleanInv'
<1>0. /\ TypeOK /\ TypeOK' /\ PositionInv /\ PositionInv' /\ ManifestInv /\ RecoveryInv
      /\ CleanInv /\ MaxFaults = 0 /\ CrashPhases = {}
  BY Zenon DEF IInv, CleanSetting
<1>1. now \in Nat /\ now <= MaxNow /\ now' \in Nat /\ now' <= MaxNow
  <2>1. now' = now \/ (now < MaxNow /\ now' = now + 1)
    BY Zenon, PartitionStep
  <2>2. now \in Nat /\ now' \in Nat /\ now <= MaxNow /\ MaxNow \in Nat
    BY Zenon, <1>0, BoundsAssumption DEF TypeOK, CleanInv
  <2> QED
    BY <2>1, <2>2
<1>2. \A w \in Windows : pstate'[w] # "sealed"
  <2> SUFFICES ASSUME NEW r \in Records, pstate'[Win(r)] = "sealed" PROVE FALSE
    BY Zenon DEF Windows
  <2>1. IsSealable(WindowOf(Win(r)), now)
    BY Zenon, <1>0, PartitionStep, WinType DEF CleanInv
  <2>2. IsSealable(WindowOf(Win(r)), MaxNow)
    BY Zenon, <1>1, <2>1, LateForGood, BoundsAssumption
  <2> QED
    BY Zenon, <2>2, WinType DEF CleanSetting
<1>3. \A w \in Windows : mem'[w] # {} => pstate'[w] = "open"
  <2> SUFFICES ASSUME NEW w \in Windows, mem'[w] # {}, pstate'[w] # "open" PROVE FALSE
    BY Zenon
  <2>1. mem[w] # {} /\ phase' # "down" /\ pstate[w] = "open"
    BY Zenon, <1>0, FilledIsOpen DEF CleanInv
  <2>2. pstate'[w] = "none"
    BY Zenon, <1>0, <1>2 DEF TypeOK
  <2> QED
    BY Zenon, <2>1, <2>2, PartitionStep
<1>4. ASSUME Opened', NEW r \in Inserted' PROVE Seen(r)'
  <2>1. CASE Opened
    BY Zenon, <1>0, <1>4, <2>1, SeenStep DEF CleanInv
  <2>2. CASE ~Opened
    <3>1. OpenActiveWAL
      BY Zenon, <1>4, <2>2, OpensOnly
    <3>2. phase = "segments" /\ UNCHANGED <<sst, mem, files, acked, apc, arec>>
      BY Zenon, <3>1 DEF OpenActiveWAL
    <3>3. r \in Inserted /\ Listed \subseteq files
      BY Zenon, <1>0, <1>4, <3>2 DEF Inserted, RecoveryInv
    <3> QED
      BY Zenon, <1>0, <2>2, <3>2, <3>3 DEF CleanInv, Seen, InCommitted, InOpenFile
  <2> QED
    BY Zenon, <2>1, <2>2
<1>5. ASSUME ~Opened', NEW r \in Inserted' PROVE InCommitted(r)'
  <2>1. r \in Inserted
    <3>1. \A a \in Appenders : apc'[a] = "idle"
      BY Zenon, <1>0, <1>5 DEF PositionInv, InFlight, Opened, Live
    <3>2. r \in acked'
      BY Zenon, <1>5, <3>1 DEF Inserted
    <3>3. ~\E a \in Appenders : AppendInsert(a)
      BY Zenon, <1>0, <1>5 DEF AppendInsert, PositionInv, InFlight, Opened, Live
    <3> QED
      BY Zenon, <1>5, <3>3, InsertedStep
  <2>2. InCommitted(r)
    <3>1. CASE ~Opened
      BY Zenon, <1>0, <2>1, <3>1 DEF CleanInv
    <3>2. CASE Opened
      <4>1. phase = "closed"
        <5>1. FlushFrame => phase' = phase
          BY Zenon DEF FlushFrame
        <5> QED
          BY Zenon, <1>0, <1>5, <3>2, <5>1, StepCases
             DEF Opened, Live, Quiet, OpenBegin, ReplayEdit, RemoveOrphans, ReplaySegment,
                 OpenActiveWAL, AppendWAL, AppendRoute, AppendInsert, AppendSignal, FlushBump,
                 FlushRotate, FlushCreate, FlushSwap, FlushFinish, FlushCommit, FlushUnlink,
                 FlushRegister, FlushFail, FlushCommitUnsynced, Stops
      <4>2. snap = {} /\ \A w \in Windows : mem[w] = {}
        BY Zenon, <1>0, <4>1 DEF PositionInv, CleanInv, Live
      <4>3. Seen(r) /\ r \in Records
        BY Zenon, <1>0, <2>1, <3>2, InsertedIssued DEF CleanInv, TypeOK
      <4> QED
        BY Zenon, <1>0, <4>2, <4>3, WinType DEF Seen, InOpenFile, InCommitted, ManifestInv
    <3> QED
      BY Zenon, <3>1, <3>2
  <2> QED
    BY Zenon, <2>2, ListedStays DEF InCommitted
<1>6. ASSUME phase' = "closed", NEW w \in Windows PROVE mem'[w] = {}
  <2> SUFFICES ASSUME mem'[w] # {} PROVE FALSE
    BY Zenon
  <2>1. mem[w] # {}
    BY Zenon, <1>6, FilledIsOpen
  <2>2. phase # "closed"
    BY Zenon, <1>0, <2>1 DEF CleanInv
  <2>3. CloseEnd
    <3>1. FlushFrame => phase' = phase
      BY Zenon DEF FlushFrame
    <3> QED
      BY Zenon, <1>6, <2>2, <3>1
         DEF Next, vars, OpenBegin, OpenStep, ReplayEdit, RemoveOrphans, ReplaySegment,
             OpenActiveWAL, AppendWAL, AppendStep, AppendRoute, AppendInsert, AppendSignal,
             FlusherReceive, FlushStep, FlushBump, FlushRotate, FlushCreate, FlushSwap, FlushFinish,
             FlushCommit, FlushUnlink, FlushRegister, FlushFail, FlushCommitUnsynced, SealExpired,
             CloseBegin, CloseStep, CloseWaited, WorkerExit, CloseVisit, Exit, Crash, LoseMemory,
             LoseProcess, Tick
  <2> QED
    BY Zenon, <1>0, <2>1, <2>3 DEF CleanInv, CloseEnd
<1>7. ASSUME phase' = "draining", NEW w \in Windows, mem'[w] # {}
      PROVE  w \in todoParts' \/ (fwin' = w /\ fpc' \in {"bump", "rotate", "create", "swap"})
  BY Zenon, <1>0, <1>7, DrainStep
<1>8. ~manifestErr'
  <2>1. ~FlushFail /\ ~manifestErr
    BY Zenon, <1>0, NoFaults DEF CleanInv
  <2> QED
    BY Zenon, <2>1, StepCases
       DEF Quiet, OpenBegin, ReplayEdit, RemoveOrphans, ReplaySegment, OpenActiveWAL, AppendWAL,
           AppendRoute, AppendInsert, AppendSignal, FlushBump, FlushRotate, FlushCreate, FlushSwap,
           FlushFinish, FlushCommit, FlushUnlink, FlushRegister, FlushCommitUnsynced, Stops,
           LoseMemory, LoseProcess
<1> QED
  BY Zenon, <1>1, <1>2, <1>3, <1>4, <1>5, <1>6, <1>7, <1>8 DEF CleanInv

\* CleanInv holds in every state of a system of clean sessions.
LEMMA CleanInvariance ==
    ASSUME Positive, CleanSetting
    PROVE  Spec => [](IInv /\ CleanInv)
<1>1. NoCrashInReplay
  BY Zenon DEF CleanSetting, NoCrashInReplay
<1>2. Init => CleanInv
  <2> SUFFICES ASSUME Init PROVE CleanInv
    OBVIOUS
  <2>1. /\ now = 0 /\ phase = "down" /\ acked = {} /\ ~manifestErr
        /\ \A a \in Appenders : apc[a] = "idle"
        /\ \A w \in Windows : mem[w] = {} /\ pstate[w] = "none"
    BY Zenon DEF Init
  <2>2. Inserted = {} /\ ~Opened /\ now <= MaxNow
    BY <2>1, BoundsAssumption DEF Inserted, Opened, Live
  <2> QED
    BY Zenon, <2>1, <2>2 DEF CleanInv
<1>3. IInv /\ IInv' /\ CleanInv /\ [Next]_vars => CleanInv'
  BY Zenon, CleanStep
<1> QED
  BY <1>1, <1>2, <1>3, Invariance, PTL DEF Spec

\* Without crashes, failing flushes and sealed partitions, a record whose Append
\* returned nil is visible in this and in every later session, for any number of
\* windows, records, appenders and sessions and for callers that promise nothing.
THEOREM AckedVisibleAcrossSessions ==
    ASSUME Positive, CleanSetting
    PROVE  Spec => []AckedVisible
<1>1. IInv /\ CleanInv => AckedVisible
  BY Zenon, SeenIsVisible DEF CleanInv, AckedVisible, Opened
<1> QED
  BY <1>1, CleanInvariance, PTL

\* Under the same hypotheses Close leaves nothing only in the WAL: once it returns,
\* every record ever acknowledged is in a file with a reader.
THEOREM CloseCommitsAllHolds ==
    ASSUME Positive, CleanSetting
    PROVE  Spec => []CloseCommitsAll
<1>1. IInv /\ CleanInv => CloseCommitsAll
  <2> SUFFICES ASSUME IInv, CleanInv, phase = "closed", NEW r \in acked PROVE r \in InFiles
    BY Zenon DEF CloseCommitsAll
  <2>1. Seen(r) /\ r \in Records
    BY Zenon DEF CleanInv, Opened, Inserted, IInv, TypeOK
  <2>2. snap = {} /\ mem[Win(r)] = {}
    BY Zenon, <2>1, WinType DEF IInv, PositionInv, CleanInv, Live
  <2>3. files \subseteq DOMAIN sst
    BY Zenon DEF IInv, ManifestInv, Listed
  <2> QED
    BY Zenon, <2>1, <2>2, <2>3 DEF Seen, InOpenFile, InFiles
<1> QED
  BY <1>1, CleanInvariance, PTL

=============================================================================
