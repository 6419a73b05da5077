----------------------------- MODULE EngineInv ------------------------------
(***************************************************************************)
(* The inductive invariants behind the safety properties of Engine.        *)
(*                                                                         *)
(* IInv, behind NoDuplicates and CommittedStays, needs two facts about the *)
(* environment: timestamps are positive, and the process does not crash    *)
(* while Open deletes covered segments.  Without the second walSeq         *)
(* restarts and a flush truncates a live file; a record at time 0 is in a  *)
(* segment and in an SSTable after a crash.                                *)
(*                                                                         *)
(* RejectedInv and CleanInv stand on IInv, each in the setting in which    *)
(* its property holds.                                                     *)
(***************************************************************************)
EXTENDS Engine

Positive == \A r \in Records : TsOf[r] > 0
NoCrashInReplay == "segments" \notin CrashPhases

\* The files some VersionEdit added.  No flush ever deletes one.
Entries == UNION {manifest[i].added : i \in DOMAIN manifest}
Listed == {fe.path : fe \in Entries}

\* An Engine exists: Open has returned and the process is alive.
Opened == phase \in Live \cup {"closed"}

Writing == fpc \in {"swap", "finish", "commit"}
CommittedFlush == fpc \in {"unlink", "register"}
InFlight(a) == apc[a] # "idle"
Uninserted(a) == apc[a] \in {"route", "insert"}

\* Which goroutine can be where.
PositionInv ==
    /\ phase \notin Live => fpc = "idle"
    /\ workers # {} => phase \in {"running", "closing"}
    /\ \A a \in Appenders : InFlight(a) => phase = "running"
    /\ fpc \notin {"finish", "commit", "unlink", "register"} => snap = {}
    /\ fpc \in {"commit", "unlink", "register"} => snap # {}

\* Segment numbers only grow: the active segment has the highest number of all
\* files, so a flush never reuses the path of an SSTable, and a restart finds a
\* segment at least as high as every SSTable.
SeqInv ==
    /\ Opened => curWAL \in DOMAIN segs /\ \A p \in DOMAIN sst : p.seq <= curWAL
    /\ Opened /\ fpc # "rotate" => walSeq = curWAL
    /\ fpc = "rotate" => oldWAL = curWAL /\ newSeq = curWAL + 1 /\ walSeq = newSeq
    /\ fpc \in {"create"} \cup {"swap", "finish", "commit", "unlink", "register"} =>
          newSeq = curWAL /\ oldWAL < newSeq
    /\ fpc = "create" => \A p \in DOMAIN sst : p.seq < newSeq
    /\ phase \in {"down", "manifest"} =>
          \A p \in DOMAIN sst : \E s \in DOMAIN segs : p.seq <= s
    /\ phase = "segments" => \A p \in DOMAIN sst : p.seq <= walSeq

\* Each edit adds one file, which is complete, stays on disk, and holds records of
\* its window up to the edit's maximum.
ManifestInv ==
    /\ \A i \in DOMAIN manifest :
          manifest[i].deleted = {} /\ \E fe \in manifest[i].added : manifest[i].added = {fe}
    /\ \A fe \in Entries :
          /\ fe.path \in DOMAIN sst /\ sst[fe.path].done
          /\ \A r \in sst[fe.path].recs : Win(r) = fe.path.win /\ TsOf[r] <= fe.max
    /\ files \subseteq Listed

\* The file of the flush under way.
FlushFileInv ==
    /\ Writing => FlushPath \in DOMAIN sst /\ FlushPath \notin Listed
    /\ fpc = "commit" => sst[FlushPath] = [done |-> TRUE, recs |-> snap]
    /\ CommittedFlush =>
          /\ FlushPath \in Listed /\ FlushPath \notin files
          /\ sst[FlushPath].recs = snap
    /\ \A w \in Windows : \A r \in mem[w] : Win(r) = w
    /\ \A r \in snap : Win(r) = fwin

\* How far recovery has come: every record of an opened file is covered.
RecoveryInv ==
    /\ phase \in {"down", "manifest"} => \A w \in Windows : mem[w] = {}
    /\ phase = "manifest" =>
          \A i \in DOMAIN manifest : i < editIdx => \A fe \in manifest[i].added : fe.path \in files
    /\ phase = "segments" => Listed \subseteq files
    /\ phase \in {"down", "manifest", "segments"} =>
          \A p \in files : \A r \in sst[p].recs : TsOf[r] <= maxFlushedTS[p.win]
    /\ phase = "down" => editIdx = 1
    /\ todoSegs \subseteq DOMAIN segs
    /\ phase # "segments" => todoSegs = {}

\* A record is issued before it is anywhere, and one that Append has not yet
\* inserted is in no memtable, snapshot or file.
IssuedInv ==
    /\ \A s \in DOMAIN segs : segs[s] \subseteq issued
    /\ \A w \in Windows : mem[w] \subseteq issued
    /\ snap \subseteq issued
    /\ \A p \in DOMAIN sst : sst[p].recs \subseteq issued
    /\ \A a \in Appenders : InFlight(a) =>
          /\ arec[a] \in issued
          /\ \A b \in Appenders : InFlight(b) /\ a # b => arec[a] # arec[b]
    /\ \A a \in Appenders : Uninserted(a) =>
          /\ \A w \in Windows : arec[a] \notin mem[w]
          /\ arec[a] \notin snap
          /\ \A p \in DOMAIN sst : arec[a] \notin sst[p].recs

\* The places a record can be are disjoint.
DisjointInv ==
    /\ \A s, t \in DOMAIN segs : s # t => segs[s] \cap segs[t] = {}
    /\ \A p, q \in Listed : p # q => \A r \in sst[p].recs : r \notin sst[q].recs
    /\ \A w \in Windows : \A r \in mem[w] :
          /\ r \notin snap
          /\ \A p \in Listed : r \notin sst[p].recs
    /\ \A p \in Listed : ~(CommittedFlush /\ p = FlushPath) =>
          \A r \in snap : r \notin sst[p].recs

IInv ==
    /\ TypeOK /\ PositionInv /\ SeqInv /\ ManifestInv /\ FlushFileInv
    /\ RecoveryInv /\ IssuedInv /\ DisjointInv

-----------------------------------------------------------------------------
(* RejectedStaysInvisible, in Strict mode *)

Strict == LateArrivalMode = "Strict"

\* r is in no place a scan looks at and on no way there.
Invisible(r) ==
    /\ \A a \in Appenders : InFlight(a) => arec[a] # r
    /\ \A w \in Windows : r \notin mem[w]
    /\ r \notin snap
    /\ \A p \in DOMAIN sst : r \notin sst[p].recs

\* A refused record is late for good, so that no replay takes it either.  A partition
\* is sealed only when its records are late.
RejectedInv ==
    /\ \A w \in Windows : pstate[w] = "sealed" => IsSealable(WindowOf(w), now)
    /\ \A a \in Appenders : apc[a] = "insert" => pstate[Win(arec[a])] # "none"
    /\ \A r \in rejected : IsLate(TsOf[r], now) /\ Invisible(r)

-----------------------------------------------------------------------------
(* AckedVisible and CloseCommitsAll, for any windows and callers, without crashes *)

\* The records Append has inserted and acknowledged or is about to.
Inserted == acked \cup {arec[a] : a \in {b \in Appenders : apc[b] = "signal"}}

InCommitted(r) == \E p \in Listed : r \in sst[p].recs
InOpenFile(r) == \E p \in files : r \in sst[p].recs
Seen(r) == r \in mem[Win(r)] \/ r \in snap \/ InOpenFile(r)

CleanSetting ==
    /\ CrashPhases = {} /\ MaxFaults = 0
    /\ \A w \in Windows : ~IsSealable(WindowOf(w), MaxNow)

\* No write has failed and no partition is sealed; Close comes to every memtable; and what was inserted is in
\* committed files whenever no engine is open.
CleanInv ==
    /\ now <= MaxNow /\ ~manifestErr
    /\ \A w \in Windows : pstate[w] # "sealed" /\ (mem[w] # {} => pstate[w] = "open")
    /\ phase = "draining" => \A w \in Windows :
          mem[w] # {} => w \in todoParts \/ (fwin = w /\ fpc \in {"bump", "rotate", "create", "swap"})
    /\ Opened => \A r \in Inserted : Seen(r)
    /\ ~Opened => \A r \in Inserted : InCommitted(r)
    /\ phase = "closed" => \A w \in Windows : mem[w] = {}

=============================================================================
