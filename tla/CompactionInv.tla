---------------------------- MODULE CompactionInv ----------------------------
(***************************************************************************)
(* The inductive invariants behind the safety properties of Compaction.    *)
(*                                                                         *)
(* They hold as long as no merge takes the name of a file that exists      *)
(* (FreshOutput), which is all that keeps the first merge of a later       *)
(* session from truncating a live file, and as long as the process does    *)
(* not crash while Open deletes covered segments (NoCrashInReplay).  Every *)
(* call of the flusher and of the compactor may fail.                      *)
(***************************************************************************)
EXTENDS Compaction

NoCrashInReplay == "segments" \notin CrashPhases

\* The files some VersionEdit added.
Entries == UNION {manifest[i].added : i \in DOMAIN manifest}
Listed == {fe.path : fe \in Entries}

\* An Engine exists: Open has returned and the process is alive.
Opened == phase \in Live \cup {"closed"}

\* compactSeq has brought the merge to a name that no file has.
FreshOutput == cpc = "create" => [win |-> cwin, compact |-> NextCompactSeq] \notin DOMAIN sst

\* The paths flushes give; those of merges have no segment number.
IsFlushed(p) == "seq" \in DOMAIN p

\* The names that are taken, on disk or in the manifest.
Names == DOMAIN sst \cup Listed
SeqBelow(n) == \A p \in Names : IsFlushed(p) => p.seq <= n

\* From its creation to its registration a new file belongs to its writer.
Flushing == fpc \in {"swap", "finish", "commit", "unlink", "register"}
Merging == cpc \in {"finish", "commit", "remove", "install"}
Removing == cpc \in {"remove", "unlink"}
OpenReaders == files \cup closedReaders

\* Edit i adds p and no edit from then on deletes it.
AddedForGood(i, p) ==
    /\ \E fe \in manifest[i].added : fe.path = p
    /\ \A j \in DOMAIN manifest : j >= i => p \notin manifest[j].deleted
Alive(p) == \E i \in DOMAIN manifest : AddedForGood(i, p)

\* The part of the state that no step of the compactor touches.
EngineTypes ==
    /\ now \in Nat /\ sessions \in Nat /\ phase \in Phases
    /\ DOMAIN segs \subseteq Nat /\ \A s \in DOMAIN segs : segs[s] \subseteq Records
    /\ editIdx \in Nat \ {0} /\ todoSegs \subseteq DOMAIN segs /\ todoParts \subseteq Windows
    /\ mem \in [Windows -> SUBSET Records] /\ snap \subseteq Records
    /\ walSeq \in Nat /\ curWAL \in Nat /\ oldWAL \in Nat /\ newSeq \in Nat
    /\ flushCh \in Seq(Windows)
    /\ fpc \in FlushSteps /\ (fpc # "idle" => fwin \in Windows)
    /\ apc \in [Appenders -> {"idle", "route", "insert", "signal"}]
    /\ arec \in [Appenders -> Records \cup {NoRecord}]
    /\ \A a \in Appenders : apc[a] # "idle" => arec[a] \in Records

\* The compactor's position, its channel and its numbers.
CompactorTypes ==
    /\ compactSeq \in Nat /\ cpc \in CompactSteps /\ (cpc # "idle" => cwin \in Windows)
    /\ compactCh \in Seq(Windows) /\ Len(compactCh) <= CompactChCap
    /\ crecs \subseteq Records /\ sweep \subseteq Windows

CTypeInv ==
    /\ EngineTypes
    /\ \A p \in DOMAIN sst : sst[p] \in SSTables
    /\ manifest \in Seq(Range(manifest))
    /\ CompactorTypes

\* Which goroutine can be where.
CPositionInv ==
    /\ phase \notin Live => fpc = "idle"
    /\ workers # {} => phase \in {"running", "closing"}
    /\ "compactor" \notin workers => cpc = "idle" /\ sweep = {} /\ expired = {}
    /\ sweep = {} \/ expired = {}
    /\ ~Opened => closedReaders = {} /\ gone = {}
    /\ phase = "down" => files = {} /\ editIdx = 1
    /\ phase # "down" => sessions \in 1 .. MaxSessions
    /\ phase # "segments" => todoSegs = {}

\* Segment numbers run ahead of the numbers of the flushed files, so that a flush always
\* creates a new file.
CSeqInv ==
    /\ \A p \in Names : IsFlushed(p) => p.seq \in Nat
    /\ Opened => curWAL \in DOMAIN segs /\ SeqBelow(curWAL)
    /\ Opened /\ fpc # "rotate" => walSeq = curWAL
    /\ fpc = "rotate" => oldWAL = curWAL /\ newSeq = curWAL + 1 /\ walSeq = newSeq
    /\ fpc = "create" \/ Flushing => newSeq = curWAL /\ oldWAL < newSeq
    /\ fpc = "create" => \A p \in Names : IsFlushed(p) => p.seq < newSeq
    /\ phase \in {"down", "manifest"} =>
          \A p \in Names : IsFlushed(p) => \E s \in DOMAIN segs : p.seq <= s
    /\ phase = "segments" => SeqBelow(walSeq)

\* Readers are open on files that exist.
ReadersInv ==
    /\ OpenReaders \subseteq DOMAIN sst /\ gone \subseteq OpenReaders
    /\ files \cap closedReaders = {}
    /\ \A p \in files : p.win \in Windows

\* The files the compactor works on are current.
PickedInv ==
    /\ cpc # "idle" => cin # {} /\ cin \subseteq FilesOf(cwin) /\ cin \cap expired = {}
    /\ expired \subseteq files

\* A file that is being written has no reader.
FlushedInv ==
    /\ Flushing => FlushPath \in DOMAIN sst /\ FlushPath \notin OpenReaders
    /\ fpc \in {"swap", "finish"} => ~sst[FlushPath].done
    /\ fpc \in {"commit", "unlink", "register"} => sst[FlushPath].done
MergedInv ==
    /\ Merging => Output \in DOMAIN sst /\ Output \notin OpenReaders
    /\ cpc = "finish" => ~sst[Output].done
    /\ cpc \in {"commit", "remove", "install"} => sst[Output] = [done |-> TRUE, recs |-> crecs]

CFilesInv == ReadersInv /\ PickedInv /\ FlushedInv /\ MergedInv

\* What the compactor has read of the files it is about to delete still holds.
CDataInv ==
    /\ cpc \in {"finish", "commit"} => \A p \in cin : sst[p].recs \subseteq crecs
    /\ \A p \in expired : sst[p].recs \subseteq Expired
    /\ cpc = "retire" => \A p \in cin : sst[p].recs \subseteq Expired

\* A file the manifest refers to is complete and on disk, and is never removed; replay
\* has opened every one that it has come to.
CManifestInv ==
    /\ \A i \in DOMAIN manifest : \A fe \in manifest[i].added :
          manifest[i].added = {fe} /\ fe.path.win \in Windows
    /\ \A p \in Listed : Alive(p) => p \in DOMAIN sst /\ sst[p].done
    /\ \A p \in gone : ~Alive(p)
    /\ Removing => \A p \in cin : ~Alive(p)
    /\ phase = "manifest" => \A i \in DOMAIN manifest : i < editIdx =>
          \A fe \in manifest[i].added : AddedForGood(i, fe.path) => fe.path \in files

\* A scan's files are open readers, and hold what they held when it started.
CScanInv ==
    /\ want = [s \in Scanners |-> want[s]]
    /\ \A s \in Scanners : want[s] \subseteq Records
    /\ ScanIntact

CInv ==
    /\ CTypeInv /\ CPositionInv /\ CSeqInv /\ CFilesInv /\ CDataInv /\ CManifestInv
    /\ HeldInv /\ CScanInv

=============================================================================
