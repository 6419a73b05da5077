----------------------- MODULE CompactionDurableProofs -----------------------
(***************************************************************************)
(* Which acknowledged records can be lost: a record that is never          *)
(* Endangered and that no failing flush drops keeps KeptInv, of            *)
(* CompactionAckedInv, through every step, and so stays visible until its  *)
(* retention ends.                                                         *)
(***************************************************************************)
EXTENDS CompactionAckedProofs

-----------------------------------------------------------------------------
(* Records on their way to the memtable *)

\* What has been inserted has been issued, and its Append has returned or will.
LEMMA InsertedIssued ==
  ASSUME IssuedInv
  PROVE  Inserted \subseteq issued /\ Inserted \subseteq Records /\ Inserted \subseteq Pending
  BY Zenon DEF IssuedInv, Inserted, InFlight, Pending

\* Only the insertion of a record adds one to those inserted.
LEMMA InsertedStep ==
  ASSUME CInv, IssuedInv, [CNext]_all, NEW r \in Inserted', r \notin Inserted
  PROVE  \E a \in Appenders : AppendStep(a) /\ InsertedNow(a) /\ r = arec[a] /\ UNCHANGED cvars
<1>0. r \in acked' \/ \E a \in Appenders : apc'[a] = "signal" /\ r = arec'[a]
  BY Zenon DEF Inserted
<1>1. r \notin acked /\ \A a \in Appenders : apc[a] = "signal" => r # arec[a]
  BY Zenon DEF Inserted
<1>2. CASE CallersSame
  BY Zenon, <1>0, <1>1, <1>2 DEF CallersSame
<1>3. CASE acked' = acked /\ \A a \in Appenders : apc'[a] = "idle"
  BY Zenon, <1>0, <1>1, <1>3
<1>4. ASSUME NEW a \in Appenders, NEW q \in Records, AppendWAL(a, q) PROVE FALSE
  <2>1. /\ acked' = acked /\ apc'[a] = "route"
        /\ \A b \in Appenders : b # a => apc'[b] = apc[b] /\ arec'[b] = arec[b]
    BY Zenon, <1>4, AppendWALEffect
  <2> QED
    BY Zenon, <1>0, <1>1, <2>1
<1>5. ASSUME NEW a \in Appenders, AppendStep(a)
      PROVE  InsertedNow(a) /\ r = arec[a]
  <2>1. /\ Routed(a) \/ RefusedNow(a) \/ InsertedNow(a) \/ AckedNow(a)
        /\ \A b \in Appenders : b # a => apc'[b] = apc[b] /\ arec'[b] = arec[b]
    BY Zenon, <1>5, AppendStepEffect
  <2>2. acked' = acked \/ (apc[a] = "signal" /\ acked' = acked \cup {arec[a]})
    BY Zenon, <2>1 DEF Routed, RefusedNow, InsertedNow, AckedNow
  <2>3. r \notin acked'
    BY Zenon, <1>1, <2>2
  <2>4. apc'[a] = "signal" /\ r = arec'[a]
    BY Zenon, <1>0, <1>1, <2>1, <2>3
  <2>5. InsertedNow(a)
    BY Zenon, <2>1, <2>4 DEF Routed, RefusedNow, AckedNow, Uninserted
  <2> QED
    BY Zenon, <2>4, <2>5 DEF InsertedNow
<1> QED
  BY Zenon, <1>2, <1>3, <1>4, <1>5, CallersCases DEF AppendingStep

\* Only its last step makes Open return.
LEMMA StaysOpened ==
  ASSUME CInv, IssuedInv, [CNext]_all, Opened', ~OpenActiveWAL
  PROVE  Opened
<1>1. CASE AQuiet
  BY Zenon, <1>1 DEF AQuiet, Opened, Live
<1>2. ~OpeningStep
  BY Zenon DEF OpeningStep, ReplayEdit, RemoveOrphans, ReplaySegment, Opened, Live
<1>3. ~ProcessEnds
  BY Zenon DEF ProcessEnds, LoseProcess, Opened, Live
<1> QED
  BY Zenon, <1>1, <1>2, <1>3, AckedCases, AppendingFrame, FlushingFrame, CompactingFrame DEF Opened, Live

\* A segment goes with what it holds when its flush has ended, or when replay has skipped
\* all of it as persisted.
LEMMA SegmentKept ==
  ASSUME CInv, IssuedInv, [CNext]_all, NEW r \in Pending, ~Endangered(r), InSegment(r),
         ReplaySegment => ~Covered(r)
  PROVE  InSegment(r)' \/ (FlushUnlink /\ r \in snap)
<1>0. PICK s \in DOMAIN segs : r \in segs[s]
  BY Zenon DEF InSegment
<1>1. CASE s \in DOMAIN segs' /\ r \in segs'[s]
  BY Zenon, <1>1 DEF InSegment
<1>2. CASE ReplaySegment
  <2>1. PICK t \in todoSegs :
           /\ \A u \in DOMAIN segs' : segs'[u] = segs[u]
           /\ \A u \in DOMAIN segs : u \notin DOMAIN segs' => u = t /\ \A q \in segs[t] : Covered(q)
    BY Zenon, <1>2, ReplaySegmentEffect
  <2> QED
    BY Zenon, <1>0, <1>1, <1>2, <2>1
<1>3. CASE OpenActiveWAL \/ FlushRotate
  <2>1. PICK n : OpenSegment(n)
    BY Zenon, <1>3 DEF OpenActiveWAL, FlushRotate
  <2> QED
    BY Zenon, <1>0, <1>1, <2>1, OpenSegmentEffect
<1>4. CASE FlushUnlink
  <2>1. CASE s = oldWAL
    <3>1. fpc = "unlink"
      BY Zenon, <1>4 DEF FlushUnlink
    <3>2. r \in snap
      BY Zenon, <1>0, <2>1, <3>1 DEF Endangered, Abandoned
    <3> QED
      BY Zenon, <1>4, <3>2
  <2>2. CASE s # oldWAL
    BY Zenon, <1>0, <1>1, <1>4, <2>2, FlushUnlinkEffect
  <2> QED
    BY Zenon, <2>1, <2>2
<1>5. ASSUME NEW a \in Appenders, NEW q \in Records, AppendWAL(a, q)
      PROVE  s \in DOMAIN segs' /\ r \in segs'[s]
  <2>1. /\ DOMAIN segs' = DOMAIN segs /\ segs'[curWAL] = segs[curWAL] \cup {q}
        /\ \A t \in DOMAIN segs : t # curWAL => segs'[t] = segs[t]
    BY Zenon, <1>5, AppendWALEffect
  <2> QED
    BY Zenon, <1>0, <2>1
<1> QED
  BY Zenon, <1>0, <1>1, <1>2, <1>3, <1>4, <1>5, SegsCases

\* A record on its way to the memtable has been so before, or has just been logged.
LEMMA UninsertedStep ==
  ASSUME CInv, IssuedInv, [CNext]_all, NEW a \in Appenders, Uninserted(a)'
  PROVE  \/ Uninserted(a) /\ arec'[a] = arec[a]
         \/ \E q \in Records : AppendWAL(a, q) /\ arec'[a] = q
<1>0. apc'[a] \in {"route", "insert"}
  BY Zenon DEF Uninserted
<1>1. CASE CallersSame
  BY Zenon, <1>0, <1>1 DEF CallersSame, Uninserted
<1>2. ASSUME NEW b \in Appenders, NEW q \in Records, AppendWAL(b, q)
      PROVE  \/ Uninserted(a) /\ arec'[a] = arec[a]
             \/ AppendWAL(a, q) /\ arec'[a] = q
  BY Zenon, <1>0, <1>2, AppendWALEffect DEF Uninserted
<1>3. ASSUME NEW b \in Appenders, AppendStep(b) PROVE Uninserted(a) /\ arec'[a] = arec[a]
  <2>1. CASE a = b
    <3>1. apc'[a] # "idle" /\ apc'[a] # "signal"
      BY <1>0
    <3> QED
      BY Zenon, <1>3, <2>1, <3>1, AppendStepEffect DEF Routed, RefusedNow, InsertedNow, AckedNow
  <2>2. CASE a # b
    BY Zenon, <1>0, <1>3, <2>2, AppendStepEffect DEF Uninserted
  <2> QED
    BY Zenon, <2>1, <2>2
<1>4. (\A b \in Appenders : apc'[b] = "idle") => FALSE
  BY <1>0
<1> QED
  BY Zenon, <1>1, <1>2, <1>3, <1>4, CallersCases DEF AppendingStep

\* From its WAL write to its insertion a record is in a segment.
LEMMA LoggedStep ==
  ASSUME CInv, IssuedInv, [CNext]_all, NEW r \in Records, ~Endangered(r), KeptInv(r),
         NEW a \in Appenders, Uninserted(a)', arec'[a] = r
  PROVE  InSegment(r)'
<1>1. ASSUME Uninserted(a), arec[a] = r PROVE InSegment(r)'
  <2>1. r \in Pending /\ InSegment(r) /\ phase = "running"
    BY Zenon, <1>1 DEF KeptInv, Pending, InFlight, Uninserted, IssuedInv
  <2>2. ~ReplaySegment
    BY Zenon, <2>1 DEF ReplaySegment
  <2>3. r \notin snap
    <3>1. TsOf[r] <= TsOf[r]
      BY TsOfAssumption
    <3> QED
      BY Zenon, <1>1, <2>1, <3>1 DEF Endangered, Overtaken
  <2> QED
    BY Zenon, <2>1, <2>2, <2>3, SegmentKept
<1>2. ASSUME AppendWAL(a, r) PROVE InSegment(r)'
  BY Zenon, <1>2, AppendWALEffect DEF InSegment
<1> QED
  BY Zenon, <1>1, <1>2, UninsertedStep

-----------------------------------------------------------------------------
(* The order of flushes *)

\* A record enters the memtable ahead of what the flush has taken.
LEMMA InsertedAhead ==
  ASSUME IssuedInv, NEW r \in Records, ~Endangered(r), NEW a \in Appenders, Uninserted(a), arec[a] = r
  PROVE  /\ \A q \in snap : Win(q) = Win(r) => TsOf[q] < TsOf[r]
         /\ MaxInv => Ahead(r)
<1>1. r \in Pending
  BY Zenon DEF Pending, InFlight, Uninserted
<1>2. /\ \A q \in snap : Win(q) = Win(r) => ~(TsOf[r] <= TsOf[q])
      /\ \A fe \in Entries : fe.path.win = Win(r) => ~(TsOf[r] <= fe.max)
  BY Zenon, <1>1 DEF Endangered, Overtaken
<1>3. snap \subseteq Records /\ TsOf[r] \in Int /\ \A q \in Records : TsOf[q] \in Int
  BY Zenon, TsOfAssumption DEF IssuedInv
<1>4. ASSUME NEW n, n \in Int, ~(TsOf[r] <= n) PROVE n < TsOf[r]
  BY <1>3, <1>4
<1> QED
  BY Zenon, <1>2, <1>3, <1>4 DEF MaxInv, Ahead

\* The memtable holds nothing of the window that is older than the snapshot.
LEMMA OrderStep ==
  ASSUME CInv, IssuedInv, WindowInv, [CNext]_all, NEW r \in Records, ~Endangered(r), KeptInv(r),
         r \in Inserted', r \in mem'[Win(r)], NEW q \in snap', Win(q) = Win(r)
  PROVE  TsOf[q] < TsOf[r]
<1>0. Win(r) \in Windows
  BY Zenon, WindowOfRecord
<1>1. CASE FlushSwap
  <2>1. fwin \in Windows /\ snap' = mem[fwin] /\ mem'[fwin] = {}
    BY Zenon, <1>1, FlushSwapEffect
  <2>2. Win(q) = fwin
    BY Zenon, <2>1 DEF WindowInv
  <2> QED
    BY Zenon, <2>1, <2>2
<1>2. ASSUME ~FlushSwap PROVE q \in snap
  BY Zenon, <1>2, SnapShrinks
<1>3. ASSUME q \in snap, NEW a \in Appenders, Uninserted(a), arec[a] = r PROVE TsOf[q] < TsOf[r]
  BY Zenon, <1>3, InsertedAhead
<1>4. ASSUME q \in snap, r \notin Inserted PROVE TsOf[q] < TsOf[r]
  BY Zenon, <1>3, <1>4, InsertedStep DEF InsertedNow
<1>5. ASSUME q \in snap, r \in Inserted, r \notin mem[Win(r)], ~FlushSwap PROVE TsOf[q] < TsOf[r]
  <2>1. ~ReplaySegment
    <3> SUFFICES ASSUME ReplaySegment PROVE FALSE
      OBVIOUS
    <3>1. fpc = "idle"
      BY Zenon DEF ReplaySegment, CInv, CPositionInv, Live
    <3>2. snap = {}
      BY <3>1 DEF IssuedInv
    <3> QED
      BY Zenon, <1>5, <3>2
  <2>2. ~ProcessEnds
    BY Zenon, <1>0 DEF ProcessEnds, LoseProcess
  <2>3. PICK a \in Appenders : InsertedNow(a)
    BY Zenon, <1>5, <2>1, <2>2, MemCases
  <2>4. Uninserted(a) /\ arec[a] = r
    BY Zenon, <1>0, <1>5, <2>3 DEF InsertedNow
  <2> QED
    BY Zenon, <1>3, <1>5, <2>4
<1> QED
  BY Zenon, <1>1, <1>2, <1>4, <1>5 DEF KeptInv

-----------------------------------------------------------------------------
(* What the disk keeps *)

\* A file that a flush or a merge adds is not newer than r: r stays ahead.
LEMMA AheadStays ==
  ASSUME CInv, IssuedInv, WindowInv, MaxInv, MaxExists, [CNext]_all, NEW r \in Records, Ahead(r),
         FlushCommit \/ FlushCommitUnsynced => \A q \in snap : Win(q) = Win(r) => TsOf[q] < TsOf[r]
  PROVE  Ahead(r)'
<1>1. TsOf[r] \in Int
  BY Zenon, TsOfAssumption
<1> SUFFICES ASSUME NEW fe \in Entries', fe.path.win = Win(r) PROVE fe.max < TsOf[r]
  BY Zenon DEF Ahead
<1>2. CASE fe \in Entries
  BY Zenon, <1>2 DEF Ahead
<1>3. CASE (FlushCommit \/ FlushCommitUnsynced) /\ fe.path = FlushPath /\ IsMaxTS(fe.max, snap)
  <2>1. snap \subseteq Records /\ FlushPath.win = fwin
    BY Zenon, FlushedPath DEF IssuedInv, FlushPath
  <2>2. IsMaxTS(fe.max, snap)
    BY Zenon, <1>3
  <2>3. \E q \in snap : fe.max = TsOf[q] /\ Win(q) = fwin
    <3>1. PICK q \in snap : fe.max = TsOf[q]
      BY Zenon, <2>2 DEF IsMaxTS
    <3> QED
      BY Zenon, <3>1 DEF WindowInv
  <2>4. fwin = Win(r)
    BY Zenon, <1>3, <2>1
  <2> QED
    BY Zenon, <1>3, <2>3, <2>4
<1>4. CASE cpc = "commit" /\ fe.path = Output /\ IsMaxTS(fe.max, crecs)
  <2>0. cwin = Win(r)
    BY Zenon, <1>4, MergedPath DEF Output
  <2>1. fe.max \in Int
    BY Zenon, <1>4, MergedMax
  <2>2. PICK g \in Entries : g.path.win = cwin /\ g.max \in Int /\ fe.max <= g.max
    BY Zenon, <1>4, MergedMax
  <2>3. g.max < TsOf[r]
    BY Zenon, <2>0, <2>2 DEF Ahead
  <2> QED
    BY <1>1, <2>1, <2>2, <2>3
<1> QED
  BY Zenon, <1>2, <1>3, <1>4, NewEntry

\* Replay skips nothing that is newer than the files of its window.
LEMMA AheadNotCovered ==
  ASSUME CoverInv, MaxInv, phase \in OpenPhases, NEW r \in Records, Ahead(r)
  PROVE  ~Covered(r)
<1> SUFFICES ASSUME maxFlushedTS[Win(r)] # 0, TsOf[r] <= maxFlushedTS[Win(r)] PROVE FALSE
  BY Zenon DEF Covered
<1>1. Win(r) \in Windows /\ TsOf[r] \in Int
  BY Zenon, WindowOfRecord, TsOfAssumption
<1>2. PICK fe \in Entries : fe.path.win = Win(r) /\ fe.max = maxFlushedTS[Win(r)]
  BY Zenon, <1>1 DEF CoverInv
<1>3. fe.max \in Int /\ fe.max < TsOf[r]
  BY Zenon, <1>2 DEF MaxInv, Ahead
<1> QED
  BY <1>1, <1>2, <1>3

\* Nor is it in a file.
LEMMA AheadNotInFile ==
  ASSUME CInv, ListedInv, WindowInv, MaxInv, NEW r \in Records, Ahead(r)
  PROVE  ~InOpenFile(r)
<1> SUFFICES ASSUME NEW p \in files, r \in sst[p].recs PROVE FALSE
  BY Zenon DEF InOpenFile
<1>1. p \in Listed /\ p \in DOMAIN sst
  BY Zenon DEF ListedInv, CInv, CFilesInv, ReadersInv, OpenReaders
<1>2. PICK fe \in Entries : fe.path = p
  BY Zenon, <1>1 DEF Listed
<1>3. fe.max \in Int /\ TsOf[r] <= fe.max /\ fe.max < TsOf[r]
  <2>1. fe.path \in DOMAIN sst /\ r \in sst[fe.path].recs
    BY Zenon, <1>1, <1>2
  <2>2. fe.path.win = Win(r)
    BY Zenon, <2>1 DEF WindowInv
  <2> QED
    BY Zenon, <2>1, <2>2 DEF MaxInv, Ahead
<1>4. TsOf[r] \in Int
  BY Zenon, TsOfAssumption
<1> QED
  BY <1>3, <1>4

\* The snapshot is committed with the file of the flush.
LEMMA SnapshotCommitted ==
  ASSUME CInv, HandoverInv, fpc \in {"unlink", "register"}
  PROVE  snap \subseteq Committed
<1>1. PICK f : f = FlushPath
  BY Zenon
<1>2. f \in DOMAIN sst /\ Alive(f) /\ sst[f] = [done |-> TRUE, recs |-> snap]
  BY Zenon, <1>1 DEF HandoverInv, CInv, CFilesInv, FlushedInv, Flushing
<1>3. sst[f].done /\ sst[f].recs = snap
  BY SMT, <1>2
<1> QED
  BY Zenon, <1>2, <1>3, CommittedAlive

\* Whatever is committed stays so until it expires.
LEMMA CommittedOrExpired ==
  ASSUME CInv, FreshOutput, [CNext]_all, NEW r, r \in Committed \/ r \in Expired
  PROVE  r \in Committed' \/ r \in Expired'
  BY Zenon, KeptStep, ExpiredStays

\* The commit of a flush leaves what it does not commit ahead of it.
LEMMA CommitTakesAll ==
  ASSUME CInv, AckedInv, FreshOutput, [CNext]_all, FlushCommit \/ FlushCommitUnsynced,
         NEW r \in Inserted, ~Dropped(r), KeptInv(r), Ahead(r)
  PROVE  r \in Expired' \/ r \in Committed' \/ \A q \in snap : Win(q) = Win(r) => TsOf[q] < TsOf[r]
<1> USE DEF AckedInv
<1>0. r \in Records
  BY Zenon, InsertedIssued
<1>1. Opened
  BY Zenon DEF FlushCommit, FlushCommitUnsynced, CInv, CPositionInv, Opened
<1>2. CASE r \in Expired
  BY Zenon, <1>2, ExpiredStays
<1>3. CASE r \in mem[Win(r)]
  BY Zenon, <1>3 DEF KeptInv
<1>4. CASE r \in snap
  <2>0. FlushCommit
    <3>1. FlushCommitUnsynced => fpc # "unlink"
      BY DEF FlushCommitUnsynced
    <3> QED
      BY Zenon, <1>4, <3>1 DEF Dropped
  <2>1. HandoverInv' /\ fpc' = "unlink" /\ snap' = snap
    BY Zenon, <2>0, HandoverStep DEF FlushCommit
  <2>2. PICK f : f = FlushPath
    BY Zenon
  <2>3. FlushPath' = f
    BY Zenon, <2>1, <2>2, FlushMoves
  <2>4. Alive(f)' /\ sst'[f] = [done |-> TRUE, recs |-> snap']
    BY Zenon, <2>1, <2>3 DEF HandoverInv, Alive, AddedForGood
  <2>5. sst'[f].done /\ sst'[f].recs = snap
    BY SMT, <2>1, <2>4
  <2>6. f \in DOMAIN sst'
    BY Zenon, <2>0, <2>2 DEF FlushCommit, CInv, CFilesInv, FlushedInv, Flushing
  <2> QED
    BY Zenon, <1>4, <2>4, <2>5, <2>6, CommittedAlive
<1> QED
  BY Zenon, <1>0, <1>1, <1>2, <1>3, <1>4, AheadNotInFile DEF KeptInv, Seen

\* An inserted record survives every step.
LEMMA SurvivesStep ==
  ASSUME CInv, AckedInv, MaxExists, FreshOutput, [CNext]_all,
         NEW r \in Records, ~Endangered(r), ~Dropped(r), KeptInv(r), r \in Inserted'
  PROVE  Durable(r)'
<1> USE DEF AckedInv
<1>1. ASSUME r \notin Inserted PROVE Ahead(r)' /\ InSegment(r)'
  <2>1. PICK a \in Appenders : AppendStep(a) /\ InsertedNow(a) /\ r = arec[a] /\ UNCHANGED cvars
    BY Zenon, <1>1, InsertedStep
  <2>2. Uninserted(a)
    BY Zenon, <2>1 DEF InsertedNow
  <2>3. Ahead(r) /\ InSegment(r)
    BY Zenon, <2>1, <2>2, InsertedAhead DEF KeptInv
  <2>4. Entries' = Entries
    BY Zenon, <2>1, AppendingFrame DEF AppendingStep, StoreSame, Entries
  <2>5. segs' = segs
    BY Zenon, <2>1, AppendStepEffect
  <2> QED
    BY Zenon, <2>3, <2>4, <2>5 DEF Ahead, InSegment
<1>2. r \in Expired \/ r \in Committed => r \in Expired' \/ r \in Committed'
  BY Zenon, CommittedOrExpired
<1>3. ASSUME r \in Inserted, Ahead(r), InSegment(r)
      PROVE  r \in Expired' \/ r \in Committed' \/ (Ahead(r)' /\ InSegment(r)')
  <2>1. r \in Pending
    BY Zenon, <1>3, InsertedIssued
  <2>2. r \in Expired' \/ r \in Committed' \/ Ahead(r)'
    <3>1. CASE FlushCommit \/ FlushCommitUnsynced => \A q \in snap : Win(q) = Win(r) => TsOf[q] < TsOf[r]
      BY Zenon, <1>3, <3>1, AheadStays
    <3>2. CASE FlushCommit \/ FlushCommitUnsynced
      BY Zenon, <1>3, <3>1, <3>2, CommitTakesAll
    <3> QED
      BY Zenon, <3>1, <3>2
  <2>3. ReplaySegment => ~Covered(r)
    <3>1. ReplaySegment => phase \in OpenPhases
      BY Zenon DEF ReplaySegment, OpenPhases
    <3> QED
      BY Zenon, <1>3, <3>1, AheadNotCovered
  <2>4. FlushUnlink /\ r \in snap => r \in Committed
    <3>1. FlushUnlink => fpc = "unlink"
      BY Zenon DEF FlushUnlink
    <3> QED
      BY Zenon, <3>1, SnapshotCommitted
  <2>5. InSegment(r)' \/ r \in Committed
    BY Zenon, <1>3, <2>1, <2>3, <2>4, SegmentKept
  <2> QED
    BY Zenon, <1>2, <2>2, <2>5
<1>4. r \in Expired' \/ r \in Committed' \/ (Ahead(r)' /\ InSegment(r)') => Durable(r)'
  BY Zenon DEF Durable
<1> QED
  BY Zenon, <1>1, <1>2, <1>3, <1>4 DEF KeptInv, Durable

\* Replay delivers what it does not skip as persisted.
LEMMA ReplayDelivers ==
  ASSUME CInv, AckedInv, FreshOutput, [CNext]_all, phase' = "segments",
         NEW r \in Records, ~Endangered(r), KeptInv(r), r \in Inserted'
  PROVE  Recoverable(r)'
<1> USE DEF AckedInv
<1>0. ~ProcessEnds /\ ~OpenActiveWAL /\ ~ReplayEdit
  BY Zenon DEF ProcessEnds, LoseProcess, OpenActiveWAL, ReplayEdit
<1>1. phase # "running"
  <2>1. ~RemoveOrphans => phase = "segments"
    BY Zenon, SegmentsStep
  <2> QED
    BY Zenon, <2>1 DEF RemoveOrphans
<1>2. r \in Inserted
  <2> SUFFICES ASSUME r \notin Inserted PROVE FALSE
    BY Zenon
  <2>1. PICK a \in Appenders : Uninserted(a)
    BY Zenon, InsertedStep DEF InsertedNow
  <2> QED
    BY Zenon, <1>1, <2>1 DEF IssuedInv, InFlight, Uninserted
<1>3. Win(r) \in Windows /\ r \in Pending
  BY Zenon, <1>2, InsertedIssued, WindowOfRecord
<1>4. CASE r \in Committed \/ r \in Expired
  BY Zenon, <1>4, CommittedOrExpired DEF Recoverable
<1>5. ASSUME RemoveOrphans, ~(r \in Committed \/ r \in Expired) PROVE \E s \in todoSegs' : r \in segs'[s]
  <2>1. todoSegs' = DOMAIN segs /\ segs' = segs
    BY Zenon, <1>5 DEF RemoveOrphans
  <2>2. \E s \in DOMAIN segs : r \in segs[s]
    BY Zenon, <1>2, <1>5 DEF KeptInv, Durable, InSegment
  <2> QED
    BY Zenon, <2>1, <2>2
<1>6. ASSUME ReplaySegment, ~(r \in Committed \/ r \in Expired)
      PROVE  r \in mem'[Win(r)] \/ \E s \in todoSegs' : r \in segs'[s]
  <2>1. phase = "segments" /\ phase \in OpenPhases
    BY Zenon, <1>6 DEF ReplaySegment, OpenPhases
  <2>2. ~Covered(r)
    BY Zenon, <1>2, <1>6, <2>1, AheadNotCovered DEF KeptInv, Durable
  <2>3. PICK s \in todoSegs :
           /\ todoSegs' = todoSegs \ {s}
           /\ \A w \in Windows : mem'[w] = mem[w] \cup {q \in segs[s] : ~Covered(q) /\ ~Refused(q) /\ Win(q) = w}
           /\ \A t \in DOMAIN segs' : segs'[t] = segs[t]
           /\ \A t \in DOMAIN segs : t \notin DOMAIN segs' => t = s
    BY Zenon, <1>6, ReplaySegmentEffect
  <2>4. r \in mem[Win(r)] \/ \E t \in todoSegs : r \in segs[t]
    BY Zenon, <1>2, <1>6, <2>1 DEF KeptInv, Recoverable
  <2>5. mem'[Win(r)] = mem[Win(r)] \cup {q \in segs[s] : ~Covered(q) /\ ~Refused(q) /\ Win(q) = Win(r)}
    BY Zenon, <1>3, <2>3
  <2>6. ASSUME NEW t \in todoSegs, r \in segs[t] PROVE r \in mem'[Win(r)] \/ \E u \in todoSegs' : r \in segs'[u]
    <3>1. CASE t = s
      <4>1. ~Refused(r)
        BY Zenon, <1>3, <2>1, <2>2, <2>6 DEF Endangered, RefusedAtReplay
      <4> QED
        BY Zenon, <2>2, <2>5, <2>6, <3>1, <4>1
    <3>2. CASE t # s
      <4>1. t \in DOMAIN segs
        BY Zenon, <2>6 DEF CInv, CTypeInv, EngineTypes
      <4>2. t \in todoSegs' /\ segs'[t] = segs[t]
        BY Zenon, <2>3, <2>6, <3>2, <4>1
      <4> QED
        BY Zenon, <2>6, <4>2
    <3> QED
      BY Zenon, <3>1, <3>2
  <2> QED
    BY Zenon, <2>4, <2>5, <2>6
<1>7. ASSUME ~RemoveOrphans, ~ReplaySegment, ~(r \in Committed \/ r \in Expired)
      PROVE  r \in mem'[Win(r)] \/ \E s \in todoSegs' : r \in segs'[s]
  <2>1. phase = "segments"
    BY Zenon, <1>7, SegmentsStep
  <2>2. AQuiet
    BY Zenon, <1>0, <1>7, <2>1, AckedCases, AppendingFrame, FlushingFrame, CompactingFrame DEF OpeningStep, Live
  <2>3. UNCHANGED <<mem, segs, todoSegs>>
    BY Zenon, <2>2 DEF AQuiet, WalSame
  <2> QED
    BY Zenon, <1>2, <1>7, <2>1, <2>3 DEF KeptInv, Recoverable
<1> QED
  BY Zenon, <1>4, <1>5, <1>6, <1>7 DEF Recoverable

-----------------------------------------------------------------------------
(* What scans see *)

\* A record in an open file stays in one, or its retention has ended.
LEMMA OpenFileStays ==
  ASSUME CInv, HandoverInv, FreshOutput, [CNext]_all, ~ProcessEnds, Opened,
         NEW p \in files, NEW r \in sst[p].recs
  PROVE  r \in Expired \/ InOpenFile(r)'
<1>0. ReadersInv /\ MergedInv
  BY Zenon DEF CInv, CFilesInv
<1>1. sst'[p] = sst[p]
  BY Zenon, ReadFileKept DEF OpenReaders
<1>2. CASE p \in files'
  BY Zenon, <1>1, <1>2 DEF InOpenFile
<1>3. ASSUME p \notin files', MergeInstall PROVE InOpenFile(r)'
  <2>1. PICK o : o = Output
    BY Zenon
  <2>2. cpc = "install"
    BY Zenon, <1>3 DEF MergeInstall
  <2>3. o \notin gone /\ sst[o] = [done |-> TRUE, recs |-> crecs]
    BY Zenon, <1>0, <2>1, <2>2 DEF MergedInv, Merging, ReadersInv
  <2>4. files' = (files \ cin) \cup {o} /\ sst' = sst
    BY Zenon, <1>3, <2>1, <2>3 DEF MergeInstall, ReplaceReaders
  <2>5. sst[p].recs \subseteq crecs
    BY Zenon, <1>3, <2>2, <2>4 DEF HandoverInv
  <2>6. r \in sst'[o].recs
    BY SMT, <2>3, <2>4, <2>5
  <2> QED
    BY Zenon, <2>4, <2>6 DEF InOpenFile
<1>4. ASSUME p \notin files', RetireForget PROVE r \in Expired
  <2>1. p \in cin /\ cpc = "forget"
    BY Zenon, <1>4 DEF RetireForget
  <2> QED
    BY Zenon, <2>1 DEF HandoverInv
<1>5. ASSUME p \notin files' PROVE MergeInstall \/ RetireForget
  <2>1. ~ReplayEdit
    BY Zenon DEF ReplayEdit, Opened, Live
  <2>2. ~FlushRegister
    BY Zenon, <1>5 DEF FlushRegister
  <2> QED
    BY Zenon, <1>5, <2>1, <2>2, ReaderCases
<1> QED
  BY Zenon, <1>2, <1>3, <1>4, <1>5

\* A record in the memtable or in a snapshot is handed on to the next place scans look at.
LEMMA InMemoryStays ==
  ASSUME CInv, IssuedInv, HandoverInv, [CNext]_all, ~ProcessEnds, Opened,
         NEW r \in Records, ~Dropped(r), r \in mem[Win(r)] \/ r \in snap
  PROVE  Seen(r)'
<1> USE DEF env, disk, openVars, router, readers, walVars, tasks, flushVars, locals, callers,
            compactor, sweeps, unmapped, scans, cvars
<1>0. Win(r) \in Windows
  BY Zenon, WindowOfRecord
<1>1. ASSUME r \in mem[Win(r)] PROVE r \in mem'[Win(r)] \/ r \in snap'
  <2>1. CASE FlushSwap
    BY Zenon, <1>0, <1>1, <2>1, FlushSwapEffect
  <2>2. ~ReplaySegment
    BY Zenon DEF ReplaySegment, Opened, Live
  <2>3. ASSUME NEW a \in Appenders, InsertedNow(a) PROVE r \in mem'[Win(r)]
    BY Zenon, <1>0, <1>1, <2>3 DEF InsertedNow
  <2> QED
    BY Zenon, <1>1, <2>1, <2>2, <2>3, MemCases
<1>2. ASSUME r \in snap, snap' # snap PROVE InOpenFile(r)'
  <2>1. fpc \in {"finish", "commit", "unlink", "register"}
    BY Zenon, <1>2 DEF IssuedInv
  <2>2. ~FlushSwap /\ ~FlushBump
    BY <2>1 DEF FlushSwap, FlushBump
  <2>3. FlushRegister
    <3>1. FlushingStep
      BY Zenon, <1>2, SnapCases
    <3>2. ~FailingFlush
      <4>1. fpc = "unlink" => ~FlushCommitUnsynced
        BY DEF FlushCommitUnsynced
      <4>2. fpc = "unlink" /\ FlushFail => snap' = snap
        BY Zenon DEF FlushFail
      <4> QED
        BY Zenon, <1>2, <4>1, <4>2 DEF Dropped, FailingFlush
    <3> QED
      BY Zenon, <1>2, <2>2, <3>1, <3>2 DEF FlushingStep, FlushSignals, FlushStep, FlushRotate, FlushCreate,
                                           FlushFinish, FlushCommit, FlushUnlink
  <2>4. PICK f : f = FlushPath
    BY Zenon
  <2>5. f \in files' /\ sst' = sst /\ sst[f] = [done |-> TRUE, recs |-> snap]
    BY Zenon, <2>3, <2>4 DEF FlushRegister, HandoverInv
  <2>6. r \in sst'[f].recs
    BY SMT, <1>2, <2>5
  <2> QED
    BY Zenon, <2>5, <2>6 DEF InOpenFile
<1>3. ASSUME r \in mem'[Win(r)] \/ r \in snap' \/ InOpenFile(r)' PROVE Seen(r)'
  BY Zenon, <1>3 DEF Seen
<1> QED
  BY Zenon, <1>1, <1>2, <1>3

\* While the engine is open, scans see every inserted record.
LEMMA SeenStep ==
  ASSUME CInv, AckedInv, FreshOutput, [CNext]_all, Opened',
         NEW r \in Records, ~Dropped(r), KeptInv(r), r \in Inserted'
  PROVE  r \in Expired' \/ Seen(r)'
<1> USE DEF env, disk, openVars, router, readers, walVars, tasks, flushVars, locals, callers,
            compactor, sweeps, unmapped, scans, cvars
<1> USE DEF AckedInv
<1>0. ~ProcessEnds
  BY Zenon DEF ProcessEnds, LoseProcess, Opened, Live
<1>1. ASSUME r \notin Inserted PROVE Seen(r)'
  <2>1. PICK a \in Appenders : InsertedNow(a) /\ r = arec[a]
    BY Zenon, <1>1, InsertedStep
  <2>2. r \in mem'[Win(r)]
    BY Zenon, <2>1 DEF InsertedNow
  <2> QED
    BY Zenon, <2>2 DEF Seen
<1>2. ASSUME r \in Inserted, OpenActiveWAL PROVE r \in Expired' \/ Seen(r)'
  <2>1. phase = "segments" /\ todoSegs = {} /\ UNCHANGED <<mem, files, sst>>
    BY Zenon, <1>2 DEF OpenActiveWAL
  <2>2. r \in Expired \/ r \in Committed \/ r \in mem[Win(r)]
    BY Zenon, <1>2, <2>1 DEF KeptInv, Recoverable
  <2>3. ASSUME r \in Committed PROVE InOpenFile(r)'
    <3>1. PICK p \in DOMAIN sst : Alive(p) /\ r \in sst[p].recs
      BY Zenon, <2>3, CommittedAlive
    <3>2. p \in Listed
      BY Zenon, <3>1 DEF Listed, Entries, Alive, AddedForGood
    <3>3. p \in files
      BY Zenon, <2>1, <3>1, <3>2 DEF CoverInv
    <3> QED
      BY Zenon, <2>1, <3>1, <3>3 DEF InOpenFile
  <2>4. r \in mem'[Win(r)] \/ InOpenFile(r)' => Seen(r)'
    BY Zenon DEF Seen
  <2> QED
    BY Zenon, <2>1, <2>2, <2>3, <2>4, ExpiredStays
<1>3. ASSUME r \in Inserted, ~OpenActiveWAL PROVE r \in Expired' \/ Seen(r)'
  <2>1. Opened
    BY Zenon, <1>3, StaysOpened
  <2>2. r \in Expired \/ r \in mem[Win(r)] \/ r \in snap \/ InOpenFile(r)
    BY Zenon, <1>3, <2>1 DEF KeptInv, Seen
  <2>3. CASE r \in mem[Win(r)] \/ r \in snap
    BY Zenon, <1>0, <2>1, <2>3, InMemoryStays
  <2>4. CASE InOpenFile(r)
    <3>1. PICK p \in files : r \in sst[p].recs
      BY Zenon, <2>4 DEF InOpenFile
    <3>2. r \in Expired \/ InOpenFile(r)'
      BY Zenon, <1>0, <2>1, <3>1, OpenFileStays
    <3>3. InOpenFile(r)' => Seen(r)'
      BY Zenon DEF Seen
    <3> QED
      BY Zenon, <3>2, <3>3, ExpiredStays
  <2> QED
    BY Zenon, <2>2, <2>3, <2>4, ExpiredStays
<1> QED
  BY Zenon, <1>1, <1>2, <1>3

\* A record that is neither endangered nor dropped keeps KeptInv.
LEMMA RecordStep ==
  ASSUME CInv, AckedInv, MaxExists, FreshOutput, [CNext]_all,
         NEW r \in Records, ~Endangered(r), ~Dropped(r), KeptInv(r)
  PROVE  KeptInv(r)'
<1>1. \A a \in Appenders : Uninserted(a)' /\ arec'[a] = r => InSegment(r)'
  BY Zenon, LoggedStep DEF AckedInv
<1>2. r \in Inserted' /\ r \in mem'[Win(r)] => \A q \in snap' : Win(q) = Win(r) => TsOf[q] < TsOf[r]
  BY Zenon, OrderStep DEF AckedInv
<1>3. r \in Inserted' => Durable(r)'
  BY Zenon, SurvivesStep
<1>4. r \in Inserted' /\ phase' = "segments" => Recoverable(r)'
  BY Zenon, ReplayDelivers
<1>5. r \in Inserted' /\ Opened' => r \in Expired' \/ Seen(r)'
  BY Zenon, SeenStep
<1> QED
  BY Zenon, <1>1, <1>2, <1>3, <1>4, <1>5 DEF KeptInv

-----------------------------------------------------------------------------
(* The theorems *)

\* A new store, before its first Open, satisfies AckedInv: there are no records.
LEMMA AckedInit == ASSUME Init, CompactorInit PROVE AckedInv /\ \A r \in Records : KeptInv(r)
<1> USE DEF Init, CompactorInit
<1>1. /\ manifest = << >> /\ DOMAIN manifest = {} /\ DOMAIN segs = {} /\ DOMAIN sst = {} /\ phase = "down"
      /\ fpc = "idle" /\ cpc = "idle" /\ acked = {} /\ issued = {} /\ snap = {}
  OBVIOUS
<1>2. /\ \A a \in Appenders : apc[a] = "idle"
      /\ \A w \in Windows : mem[w] = {} /\ maxFlushedTS[w] = 0
  BY Zenon
<1>3. Entries = {} /\ Inserted = {} /\ ~Opened /\ phase \notin OpenPhases
  BY <1>1, <1>2 DEF Entries, Inserted, Opened, Live, OpenPhases
<1>4. ListedInv
  BY Zenon, StrayInit DEF StrayInv
<1>5. IssuedInv /\ CoverInv /\ HandoverInv /\ MaxInv
  BY Zenon, <1>1, <1>2, <1>3 DEF IssuedInv, CoverInv, HandoverInv, MaxInv, InFlight
<1>6. WindowInv
  BY Zenon, <1>1, <1>2 DEF WindowInv
<1>7. \A r \in Records : KeptInv(r)
  BY Zenon, <1>2, <1>3 DEF KeptInv, Uninserted
<1> QED
  BY Zenon, <1>4, <1>5, <1>6, <1>7 DEF AckedInv

\* AckedInv is kept by every step, where merges take unused names.
LEMMA AckedStep ==
  ASSUME CInv, AckedInv, MaxExists, UnusedOutput, [CNext]_all
  PROVE  AckedInv'
<1>1. FreshOutput
  BY Zenon, UnusedIsFresh
<1>2. IssuedInv' /\ HandoverInv' /\ WindowInv'
  BY Zenon, <1>1, IssuedStep, HandoverStep, WindowStep DEF AckedInv
<1>3. ListedInv' /\ MaxInv' /\ CoverInv'
  BY Zenon, ListedStep, MaxStep, CoverStep DEF AckedInv
<1> QED
  BY Zenon, <1>2, <1>3 DEF AckedInv

\* What scans see is visible.
LEMMA SeenVisible ==
  ASSUME CInv, IssuedInv, NEW r \in Records, KeptInv(r), phase \in Live, r \in acked
  PROVE  r \in Visible \cup snap \cup Expired
<1>1. r \in Inserted /\ Opened
  BY Zenon DEF Inserted, Opened
<1>2. r \in Expired \/ r \in mem[Win(r)] \/ r \in snap \/ InOpenFile(r)
  BY Zenon, <1>1 DEF KeptInv, Seen
<1>3. ASSUME r \in mem[Win(r)] PROVE r \in Visible
  <2>1. Win(r) \in Windows
    BY Zenon, WindowOfRecord
  <2> QED
    BY Zenon, <1>3, <2>1 DEF Visible, InMemory
<1>4. ASSUME InOpenFile(r) PROVE r \in Visible
  <2>1. PICK p \in files : r \in sst[p].recs
    BY Zenon, <1>4 DEF InOpenFile
  <2>2. p \in files \cap DOMAIN sst
    BY Zenon DEF CInv, CFilesInv, ReadersInv, OpenReaders
  <2> QED
    BY Zenon, <2>1, <2>2 DEF Visible, InFiles
<1> QED
  BY Zenon, <1>2, <1>3, <1>4

\* A flush that fails is a step.
LEMMA DropMoves == ASSUME NEW r, Dropped(r) PROVE ~UNCHANGED all
<1>1. fpc' = "idle" /\ fpc # "idle"
  BY Zenon DEF Dropped, FlushFail, FlushCommitUnsynced, FlushCallFails, FlushReturns
<1> QED
  BY Zenon, <1>1 DEF all, vars, flushVars

\* A record is lost in no other way than the ones Endangered and Dropped list: if none of
\* them befalls r, then r, once Append has acknowledged it, is visible or being flushed
\* in every session until its retention ends.  This for any callers, windows and late
\* arrivals, whichever calls fail, whatever other records are lost, and across crashes
\* between any two steps outside the replay of segments.
THEOREM KeptUnlessEndangered ==
  ASSUME NoCrashInReplay, MaxExists, NEW r \in Records
  PROVE  CSpec /\ []UnusedOutput /\ []~Endangered(r) /\ [][~Dropped(r)]_all
         => [](phase \in Live /\ r \in acked => r \in Visible \cup snap \cup Expired)
<1>1. Init /\ CompactorInit => CInv /\ AckedInv /\ KeptInv(r)
  BY Zenon, CInvInit, AckedInit
<1>2. CInv /\ AckedInv /\ KeptInv(r) /\ UnusedOutput /\ ~Endangered(r) /\ [CNext]_all /\ [~Dropped(r)]_all
      => CInv' /\ AckedInv' /\ KeptInv(r)'
  <2> SUFFICES ASSUME CInv, AckedInv, KeptInv(r), UnusedOutput, ~Endangered(r), [CNext]_all, [~Dropped(r)]_all
               PROVE  CInv' /\ AckedInv' /\ KeptInv(r)'
    OBVIOUS
  <2>1. FreshOutput
    BY Zenon, UnusedIsFresh
  <2>2. ~Dropped(r)
    BY Zenon, DropMoves
  <2> QED
    BY Zenon, <2>1, <2>2, CInvStep, AckedStep, RecordStep
<1>3. CInv /\ AckedInv /\ KeptInv(r) => (phase \in Live /\ r \in acked => r \in Visible \cup snap \cup Expired)
  BY Zenon, SeenVisible DEF AckedInv
<1> QED
  BY <1>1, <1>2, <1>3, PTL DEF CSpec

\* "No record that was durably acknowledged is ever lost" where no record is endangered
\* or dropped.
THEOREM AckedKeptHolds ==
  ASSUME NoCrashInReplay, MaxExists
  PROVE  /\ CSpec /\ []UnusedOutput
         /\ [](\A r \in Records : ~Endangered(r)) /\ [][\A r \in Records : ~Dropped(r)]_all
         => []AckedKept
<1> DEFINE Kept == \A r \in Records : KeptInv(r)
           Safe == \A r \in Records : ~Endangered(r)
           Taken == \A r \in Records : ~Dropped(r)
<1>1. Init /\ CompactorInit => CInv /\ AckedInv /\ Kept
  BY Zenon, CInvInit, AckedInit
<1>2. CInv /\ AckedInv /\ Kept /\ UnusedOutput /\ Safe /\ [CNext]_all /\ [Taken]_all
      => CInv' /\ AckedInv' /\ Kept'
  <2> SUFFICES ASSUME CInv, AckedInv, Kept, UnusedOutput, Safe, [CNext]_all, [Taken]_all
               PROVE  CInv' /\ AckedInv' /\ Kept'
    OBVIOUS
  <2>1. FreshOutput
    BY Zenon, UnusedIsFresh
  <2>2. \A r \in Records : ~Dropped(r)
    BY Zenon, DropMoves
  <2>3. \A r \in Records : KeptInv(r)'
    BY Zenon, <2>1, <2>2, RecordStep
  <2> QED
    BY Zenon, <2>1, <2>3, CInvStep, AckedStep
<1>3. CInv /\ AckedInv /\ Kept => AckedKept
  <2> SUFFICES ASSUME CInv, AckedInv, Kept, phase \in Live, NEW r \in acked PROVE r \in Visible \cup snap \cup Expired
    BY Zenon DEF AckedKept
  <2>1. r \in Records
    BY Zenon DEF AckedInv, IssuedInv
  <2> QED
    BY Zenon, <2>1, SeenVisible DEF AckedInv
<1> QED
  BY <1>1, <1>2, <1>3, PTL DEF CSpec

=============================================================================
