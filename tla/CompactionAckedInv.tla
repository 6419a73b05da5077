------------------------- MODULE CompactionAckedInv -------------------------
(***************************************************************************)
(* How an acknowledged record is lost, and how it is kept otherwise.       *)
(*                                                                         *)
(* Endangered and Dropped list the situations in which the code lets go of *)
(* a record that Append has acknowledged or will acknowledge.  AckedInv    *)
(* and KeptInv, over CInv of CompactionInv, are the inductive invariant    *)
(* that shows that there are no others: how a record is handed on between  *)
(* the WAL segments, the memtable, flushed files, merges and retirements,  *)
(* and across crashes.                                                     *)
(***************************************************************************)
EXTENDS CompactionOpenInv

InFlight(a) == apc[a] # "idle"
Uninserted(a) == apc[a] \in {"route", "insert"}

\* The records that Append has acknowledged or may still acknowledge.
Pending == acked \cup {arec[a] : a \in {b \in Appenders : InFlight(b)}}

\* The flush is about to delete a segment with a record that its snapshot does not hold:
\* one of another window, or one that was logged before and inserted after the swap.
Abandoned(r) == fpc = "unlink" /\ oldWAL \in DOMAIN segs /\ r \in segs[oldWAL] /\ r \notin snap

\* While r is on its way to the memtable, a record of its window that is not older is in a
\* file or in the snapshot of a flush: the next Open takes r for persisted.
Overtaken(r) ==
    /\ \E a \in Appenders : Uninserted(a) /\ arec[a] = r
    /\ \/ \E fe \in Entries : fe.path.win = Win(r) /\ TsOf[r] <= fe.max
       \/ \E q \in snap : Win(q) = Win(r) /\ TsOf[r] <= TsOf[q]

\* Open is about to replay r into a Router that now refuses it as late.
RefusedAtReplay(r) ==
    phase = "segments" /\ Refused(r) /\ ~Covered(r) /\ \E s \in todoSegs : r \in segs[s]

Endangered(r) == r \in Pending /\ (Abandoned(r) \/ Overtaken(r) \/ RefusedAtReplay(r))

\* A step by which a flush fails with r in its snapshot, which goes with it.
Dropped(r) == r \in snap /\ fpc # "unlink" /\ (FlushFail \/ FlushCommitUnsynced)

\* The records are finitely many: a set of them has a largest timestamp.
MaxExists == \A S \in SUBSET Records : S # {} => \E m \in {TsOf[r] : r \in S} : IsMaxTS(m, S)

-----------------------------------------------------------------------------
(* What holds of all records *)

\* A record is issued before it is anywhere, and only a flush has a snapshot.
IssuedInv ==
    /\ issued \subseteq Records /\ acked \subseteq issued
    /\ \A a \in Appenders : InFlight(a) => phase = "running" /\ arec[a] \in issued
    /\ \A s \in DOMAIN segs : segs[s] \subseteq issued
    /\ \A w \in Windows : mem[w] \subseteq issued
    /\ snap \subseteq issued
    /\ fpc \notin {"finish", "commit", "unlink", "register"} => snap = {}

\* What a flush or the compactor hands from one place to the next.
HandoverInv ==
    /\ fpc \in {"commit", "unlink", "register"} =>
          snap # {} /\ sst[FlushPath] = [done |-> TRUE, recs |-> snap]
    /\ fpc \in {"unlink", "register"} => Alive(FlushPath)
    /\ cpc \in {"remove", "install"} => \A p \in cin : sst[p].recs \subseteq crecs
    /\ cpc \in {"unlink", "forget"} => \A p \in cin : sst[p].recs \subseteq Expired

\* Memtables, snapshots and files hold records of their window.
WindowInv ==
    /\ \A w \in Windows : \A r \in mem[w] : Win(r) = w
    /\ \A r \in snap : Win(r) = fwin
    /\ \A p \in DOMAIN sst : \A r \in sst[p].recs : Win(r) = p.win
    /\ cpc \in {"finish", "commit"} => \A r \in crecs : Win(r) = cwin

\* A file holds records up to the maximum its edit names; so do the inputs of a merge.
MaxInv ==
    /\ \A fe \in Entries : fe.max \in Int
    /\ \A fe \in Entries : fe.path \in DOMAIN sst =>
          sst[fe.path].recs # {} /\ \A r \in sst[fe.path].recs : TsOf[r] <= fe.max
    /\ cpc \in {"finish", "commit"} =>
          crecs # {} /\ \A r \in crecs : \E fe \in Entries : fe.path.win = cwin /\ TsOf[r] <= fe.max

\* What Open knows once it has replayed the manifest: maxima of files, and every file that
\* the manifest refers to.
CoverInv ==
    /\ phase = "down" => \A w \in Windows : maxFlushedTS[w] = 0
    /\ phase \in OpenPhases => \A w \in Windows :
          maxFlushedTS[w] # 0 => \E fe \in Entries : fe.path.win = w /\ fe.max = maxFlushedTS[w]
    /\ phase = "segments" => \A p \in Listed : Alive(p) => p \in files

AckedInv == ListedInv /\ IssuedInv /\ HandoverInv /\ WindowInv /\ MaxInv /\ CoverInv

-----------------------------------------------------------------------------
(* What holds of a record that is never endangered nor dropped *)

\* The records Append has inserted and acknowledged or is about to.
Inserted == acked \cup {arec[a] : a \in {b \in Appenders : apc[b] = "signal"}}

\* r is newer than every file of its window that the manifest has ever named: replay
\* will not skip it.
Ahead(r) == \A fe \in Entries : fe.path.win = Win(r) => fe.max < TsOf[r]

InSegment(r) == \E s \in DOMAIN segs : r \in segs[s]
InOpenFile(r) == \E p \in files : r \in sst[p].recs
Seen(r) == r \in mem[Win(r)] \/ r \in snap \/ InOpenFile(r)

\* The next Open will deliver r: it has expired, is committed, or is in a segment and
\* newer than the files.
Durable(r) == r \in Expired \/ r \in Committed \/ (Ahead(r) /\ InSegment(r))

\* What is left of recovery will deliver r.
Recoverable(r) ==
    r \in Expired \/ r \in Committed \/ r \in mem[Win(r)] \/ \E s \in todoSegs : r \in segs[s]

\* From its WAL write on r is in a segment, and from its insertion on it is durable; a
\* flush takes it before or together with what is newer; while the engine is open it is
\* where scans look.
KeptInv(r) ==
    /\ \A a \in Appenders : Uninserted(a) /\ arec[a] = r => InSegment(r)
    /\ r \in Inserted /\ r \in mem[Win(r)] => \A q \in snap : Win(q) = Win(r) => TsOf[q] < TsOf[r]
    /\ r \in Inserted => Durable(r)
    /\ r \in Inserted /\ phase = "segments" => Recoverable(r)
    /\ r \in Inserted /\ Opened => r \in Expired \/ Seen(r)

=============================================================================
