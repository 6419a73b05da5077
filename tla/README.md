# A TLA+ verification of timberdb

timberdb is an embedded, append-only store for time-stamped records. This
directory holds TLA+ models of its parts, the TLC configurations that check them,
and proofs checked by TLAPS. `PROJECT.json` is the index: which module models
which lines (`map`), what each run checks, the hazards of the code, where the code
departs from its comments (`findings`), and the theorems.

## 1. The system

| Part | Code | Modules | State of the model |
|---|---|---|---|
| Engine: Append, flush, recovery, Close | `internal/engine/engine.go` | `Engine`, `EngineInv`, `EngineProofs`, `MCEngine` | modelled but for the failures of section 5 |
| Compaction and retention | `engine.go`, `internal/compaction` | `Compaction`, `CompactionInv`, `CompactionOpenInv`, `CompactionAckedInv`, `CompactionStepProofs`, `CompactionProofs`, `CompactionAckedProofs`, `CompactionDurableProofs`, `MCCompaction`, `Merge` | modelled |
| Partition router and partitions | `internal/partition` | `Router`, `Engine`, `Compaction`, `EngineProofs` | modelled |
| Write-ahead log | `internal/wal` | `Wal`, `Frames`, `LogProofs`, `DurableLog` | modelled |
| Manifest | `internal/manifest` | `Manifest`, `Frames`, `LogProofs` | modelled |
| Memtable | `internal/memtable` | `Table`, `TableProofs`, `Engine` | modelled |
| SSTable writer and reader | `internal/sstable` | `Table`, `TableProofs` | modelled above the layout of index and footer |
| Block formats | `internal/sstable/block.go` | `Block`, `MCBlock` | modelled |
| Block cache | `internal/sstable/blockcache.go`, `readBlockRaw` | `BlockCache`, `BlockCacheProofs`, `MCBlock` | modelled |
| Aggregate | `Engine.Aggregate` | `Table`, `TableProofs` | columnar path over one file |
| Merge iterator, compaction's merge loop | `internal/engine/merge.go`, `internal/compaction/merge.go` | `Merge` | modelled |
| Compression, mmap, options, metrics, public API, CLI | | | not modelled: no control of their own |

`Append` writes the WAL, routes the record to the partition of its time window,
inserts it into that partition's memtable, and asks the flusher for a flush when
the memtable is too large. A flush rotates the WAL, swaps the memtable out, writes
it as an SSTable, commits the file in the MANIFEST, deletes the old WAL segment and
registers a reader. `Open` replays the MANIFEST, removes SSTables it does not
mention, replays the WAL segments that are left, and deletes those whose records
are all covered. `Close` stops the two goroutines and flushes what is open. The
compactor, the second goroutine, merges the SSTables of a window when there are too
many, and retires SSTables that are older than the retention horizon; both commit an
edit, unlink files and keep the replaced readers open for the scans that use them.

## 2. Modules

**Router** is the pure arithmetic of `internal/partition`: the window of a
timestamp (`FloorDiv` on top of Go's truncating division), overlap, lateness,
sealability. The partition map itself is a variable of `Engine`.

**Engine** has one action for each stretch of code that no other goroutine can see
half done: a critical section, one file-system call, or one iteration of a recovery
loop. The variables follow the fields of the `Engine` struct; `segs`, `sst` and
`manifest` are the disk, everything else but the histories is lost by `Crash` and `Exit`. `fpc`
is the position of the one `flushPartition` that can be running, `apc[a]` of each
`Append`. `e.mu` shows in two guards: the sections of a flush and of `Close` that
take the write lock need `NoReaders`, as `Append` holds the read lock throughout.

| Actions | Code |
|---|---|
| `OpenBegin`, `ReplayEdit`, `RemoveOrphans`, `ReplaySegment`, `OpenActiveWAL` | `Open` |
| `AppendWAL`, `AppendRoute`, `AppendInsert`, `AppendSignal` | `Append`, `Router.Route`, `TimePartition.Append` |
| `FlusherReceive`, `FlushBump` ... `FlushRegister` | `runFlusher`, `flushPartition` |
| `FlushFail`, `FlushCommitUnsynced` | the error returns of `flushPartition` (`FlushCallFails` says which calls can fail); a failed fsync of the MANIFEST |
| `SealExpired` | the compactor's ticker, as far as `Engine` needs it |
| `CloseBegin`, `WorkerExit`, `CloseWaited`, `CloseVisit`, `CloseEnd` | `Close` |

`manifestErr` is the error that the `bufio.Writer` of the MANIFEST keeps after a failed
write: from then on every `Manifest.Append` of the session fails, a flush's as well as
the compactor's. A failed fsync leaves no such error.

A `Scan` holds the read lock while it picks its sources, so what it can return is a
function of the state: `Visible`.

**Compaction** extends `Engine` by the compactor and by scans. `cpc` is the position
of the compactor in `maybeCompact` or `retireWindow`, `cin` the files it works on,
`sweep` and `expired` the rest of the list its loop walks. A flush of `Engine` also
sends to `compactCh` (`FlushSignals`), `Close` also waits for the compactor
(`CompactorExit`), and the end of the process also frees the files it had unlinked
(`ProcessEnds`): an unlinked file stays in `sst` while a reader maps it and is listed
in `gone`. The sections under the write lock need `NoReaders` as in `Engine`.

| Actions | Code |
|---|---|
| `CompactReceive`, `SweepCompaction`, `SweepVisit`, `SweepRetention`, `RetireWindow` | `runCompactor` and its two sweeps |
| `MergeCreate`, `MergeFinish`, `CompactorCommit`, `CompactorRemove`, `MergeInstall` | `maybeCompact`, `compaction.Merge` |
| `RetireWindow`, `CompactorCommit`, `CompactorRemove`, `RetireForget` | `retireWindow` |
| `CompactorFails`, `CompactorCommitUnsynced`, `CompactorRemoveFails` | the error returns (`CompactorCallFails` says of which calls), a failed fsync of the MANIFEST, a failed `os.Remove` |
| `ScanOpen`, `ScanEnd` | the life of an iterator returned by `Scan` |

**Frames** is the frame format the WAL and the MANIFEST share, cut into cells so
that a crash may cut a file between any two. **Wal** is `internal/wal` with the
buffered writer and the sync modes; **Manifest** is `internal/manifest`.
**DurableLog** is the abstract log the engine relies on: a step extends it, promises a
prefix, or loses what is not promised. `Wal` implements it (`IsDurableLog`, with the
refinement mapping `log <- Log`).

**Table** follows one partition's records from the memtable through the SSTable
writer into the reader; **Merge** is the heap merge, once as the scan uses it and
once as compaction does. **Block** has the row and the columnar block format with all
their decoders; a fixed-width field is one cell of a payload, so each offset and each
bound the code tests has its counterpart. **BlockCache** is the cache together with
the iterators that read through it: a slice is either memory of its own or a view of
an iterator's decompression buffer, whose contents change with the next read, so
aliasing shows.

Modules named `...Inv` hold the inductive invariants of section 4, those named
`...Proofs` the proofs. Modules named `MC...` hold the values TLC is given. Operators whose comment starts
with "As ..." are mutated forms of the next definition; no specification uses them.
They document what each property would catch (`mutants` in `PROJECT.json`).

## 3. Runs

Passing runs:

| Run | Checks | Instance |
|---|---|---|
| `Engine_sessions` | `AckedVisible`, `CloseCommitsAll`, `OversizedIsFlushed`, `CloseReturns` | `FairSpec`, 4 records in 2 windows, 2 appenders, a `flushCh` of 2 that can fill with requests of one window, 3 sessions, no crash |
| `Engine_crash` | `TypeOK`, `NoDuplicates`, `IInv`, `RejectedStaysInvisible`, `CommittedStays` | Strict mode, 3 records in 2 windows, a clock that passes a window's end, crashes except in segment replay, 1 I/O failure |
| `Compaction_durable` | `CompactorTypeOK`, `AckedKept`, `NoDuplicates`, `OpenMatchesManifest`, `HeldReadersOpen`, `ScanIntact`, `KeptUnlessExpired` | 3 records in 1 window, 3 sessions, crashes, a scan, merges in the first session, retention and sealing |
| `Compaction_faults` | `KeptUnlessExpired`, `MergedEventually`, `ExpiredEventually`, `CompactorLetsCloseReturn` | `CFairSpec`, 2 records, 2 sessions, crashes, any one call of the compactor or of a flush fails |
| `Wal_modes` | `TypeOK`, `ReplayInOrder`, `IsDurableLog`, `EventuallyKept` | `FairSpec`, each sync mode, process crash and power loss |
| `Manifest_log` | `SeqNumbersEdits`, `AckedEditsReplayed` | 5 edits, 2 failed fsyncs, power loss |
| `Table_scan` | `TypeOK`, `FlushNeverOutOfOrder`, `ScanAnswer`, `AggregateExact` | 5 records, 3 times, 2 sources, every query |
| `Merge_inputs` | `TypeOK`, `MergedInOrder`, `NoSilentLoss` | both merges, 4 iterators of up to 2 records, every failing call |
| `Block_reads` | `IInv`, `ViewIntact`, `ListMatchesMap`, `BytesAccounted`, `KeepsMostRecent`, `RoundTrip`, `MalformedIsRefused` | 2 iterators, 4 blocks of 4, 4, 5 and 9 cells in a cache of 8, 1 damaged block; blocks of 2 records, payloads of 6 cells |

Runs that end in a counterexample each show a place where the code does not do what
one of its comments, documents or tests says (`findings` quotes the line):

| Run | What happens |
|---|---|
| `Engine_v_windows` | with two windows a flush deletes the segment the other window still needs, and a crash loses acknowledged records |
| `Compaction_v_seq` | `compactSeq` restarts with the process: the first merge of a second session truncates the live output of the first session's merge, which is one of its own inputs |
| `Table_v_straddle` | a scan from `start` misses records at `start` that end the block before the one found |

### The conditions of the passing runs

The passing runs of the engine state conditions, and each is there because TLC finds
a counterexample without it. Changing the constants of a run as follows shows it:

| Change | What happens |
|---|---|
| `Compaction_durable` with `Callers = {"ordered"}` | an `Append` writes the old segment before `Rotate` and inserts after `SwapMemtable`: the record is in no SSTable when the segment is deleted (`AckedKept`) |
| `Compaction_durable` with `Callers = {"quiesced"}` | a record older than the last flush of its window is covered by `maxFlushedTS` although it was never flushed (`AckedKept`) |
| `Compaction_durable` with `LateArrivalMode = "Strict"` | replay applies the clock of the restart and drops acknowledged records that have aged (`AckedKept`) |
| `Compaction_durable` with `MaxFaults = 1` and the fault `"sync"` or `"open"` | the edit of a merge is in the MANIFEST but the merge counts as failed; the inputs are merged again and their records are in two files (`NoDuplicates`) |
| `Compaction_durable` with `MaxFaults = 1` and the fault `"remove"` | an input whose removal failed comes back when the output has been merged away as well: replay cannot open the output and returns before the edit's deletions (`OpenMatchesManifest`), although `merge.go:22` leaves such files to the next `Open` |
| `Engine_crash` with `PartitionDuration = 10`, `MaxNow = 0`, `MaxFaults = 0`, `MaxSessions = 3` and a crash also in phase `"segments"` | a crash while `Open` deletes covered segments restarts `walSeq`; a later flush truncates a live SSTable of the same name (`IInv`, then `CommittedStays`), although `engine.go:167` says that rotations do not collide |
| `Engine_sessions` with `MaxNow = 11` | `Close` skips a sealed partition (`CloseCommitsAll`), and the flush of the other window deletes its segment (`AckedVisible`), without a crash |
| `Engine_crash` with `LateArrivalMode = "Tolerant"` | an `Append` refused by the sealed partition is in the WAL and returns after a restart (`RejectedStaysInvisible`) |
| `Engine_crash` with a timestamp of 0 | `maxFlushedTS` keeps its zero value, and the record is replayed beside its SSTable (`NoDuplicates`) |
| `Wal_modes` with `TornTailIsSilent` | a segment that ends exactly behind a header makes `Replay` fail, where `wal.go:108` says that a partial last record is silently truncated |
| `Table_v_straddle` with `BlockRecords = 4` and the source and filter 0 (an empty, non-nil `SourceID`) | one block leaves no straddle, but the filter selects in a memtable and not in an SSTable (`ScanExact`) |

`OversizedIsFlushed` makes an exception of a `flushCh` full of requests of other
partitions: the request is then dropped and the oversized memtable stays until the
partition's next `Append`, or until `Close`. `MergedEventually` and `ExpiredEventually`
make an exception of a session in which a write to the MANIFEST has failed: no merge and
no retirement can be committed until the store is reopened.

With `MaxFaults = 1` a flush may fail as well, and a failed flush loses its snapshot
(`AckedKept`); the two rows on faults check the property they name alone.

Two more conditions are in the model. Merges happen in the first session only, as
`Compaction_v_seq` shows what happens otherwise. Callers end their scans before they
call `Close` (`ScansEndFirst`), which unmaps the files under an iterator.

The documents disagree on retention. The code (`fifo.go:37`), `retention_test.go` and
`architecture.md:108` let a file go when its newest record is behind the horizon.
`configuration.md:129` says that a partition goes with all its files when its *oldest*
timestamp is, and `configuration.md:135` that data up to `PartitionDuration` newer than the
cutoff may be deleted. `KeptUnlessExpired`, `AckedKept` and `ExpiredEventually` state the
rule of the code, by which no record newer than the horizon is deleted; a program that
followed `configuration.md` would violate the first two. `findings` lists it with
`Compaction_durable`, which shows that the documented deletion of newer data does not happen.

Retention is not final. The flush of records that `Open` replayed deletes the active
segment, not the one they were replayed from; when retention has dropped the window's
last file and with it `maxFlushedTS`, a third session replays that segment and serves
the retired records again. The repository nowhere excludes it, so no property does.

`Manifest.Replay` fails on a file that ends behind a header just as the WAL's does;
in `Manifest` the state `failed` is reachable.

### Bounds

`MaxNow`, `MaxSessions`, `MaxFaults`, `MaxRecords`, `MaxFiles`, `MaxEdits`, `MaxLen`,
`MaxDamage`, `MaxBlock`, `MaxCells` and `MaxMerges` bound the instances; each is named in its module and
appears in a guard or as the length of an input. Two windows with two records each are the
least in which one window's flush meets the other's records and a memtable can be
refilled; three records with two sessions the least in which a record is flushed,
one is in the WAL and one is in flight at a crash. Frames of two header and two
body cells have a cut inside and behind either part, and a buffer of six cells
spills in the middle of a record. Blocks of two records and five records make three
blocks with equal timestamps across both boundaries. Four iterators give the heap a
node with two children and one below them. Three records in one window are three
flushes: two files to merge and one that arrives meanwhile, or an output that is
merged again; in three sessions what was merged is recovered, and what was recovered
is recovered again. The clock of `Compaction_durable` passes the end of the window and
the expiry of the oldest record, so a sealed window can lose its only file. Every cache of `Block_reads` overflows with the second or
third block, and its largest block alone is too large for it. Deadlock is not checked where a system
that has used up its bounds may stop. The appenders are interchangeable, so the
safety runs use their symmetry; the runs with liveness properties do not.

### Fairness

`Engine!FairSpec` assumes weak fairness of Append's steps, the flusher, a running
flush, `Open` and `Close` once called. The Go scheduler runs runnable goroutines,
and a writer waiting for a `sync.RWMutex` keeps new readers out, so a flush gets the
lock although appends keep coming. Nothing is assumed of the callers, of the clock
or of failures. `Compaction!CFairSpec` adds weak fairness of the compactor's steps
between two visits to its `select`, and strong fairness of the two tickers and of the
closed `closeCh`: `select` chooses among its ready cases at random, a ticker keeps a
tick until it is received, and `closeCh` stays ready, so a case that is ready again
and again is taken. `compactCh` needs no fairness: the sweep finds what a dropped or
delayed signal was about. `Wal!FairSpec` assumes that the ticker fires in
`SyncPeriodic` and that the holder of `w.mu` goes on.

## 4. Proofs

The theorems hold for every value of the constants that satisfies the named
assumptions of the modules: any number of records, windows, appenders, scanners,
sessions, crashes and failures, any capacity, frame length, buffer and cache size.
Hypotheses beyond that are named in each theorem, and section 3 shows for each what
happens without it.

| Module | Theorems | Hypotheses |
|---|---|---|
| `EngineProofs` | `TypeCorrect`, `Invariance`, `NoDuplicatesHolds`, `CommittedStaysHolds` | `Positive`, `NoCrashInReplay` |
| | `WindowContains`, `WindowsDisjoint`, `RangeFindsWindow`, `SealedOnlyWhenLate` | none |
| | `RejectedStaysInvisibleHolds` | `Positive`, `NoCrashInReplay`, `Strict` |
| | `AckedVisibleAcrossSessions`, `CloseCommitsAllHolds` | `Positive`, `CleanSetting` |
| `CompactionProofs` | `HeldInvariance`, `HeldReadersOpenHolds` | none |
| | `CInvariance`, `CompactorTypeOKHolds`, `ScanIntactHolds`, `KeptUnlessExpiredHolds` | `NoCrashInReplay`, `[]FreshOutput` |
| | `OpenMatchesManifestHolds` | `NoCrashInReplay`, `RemovesSucceed`, `[]UnusedOutput` |
| | `FirstSessionUnused` | `NoCrashInReplay`, `[]MergesInFirstSession` |
| `CompactionDurableProofs` | `KeptUnlessEndangered` | `NoCrashInReplay`, `MaxExists`, `[]UnusedOutput`, the record never `Endangered` nor `Dropped` |
| | `AckedKeptHolds` | the same, of every record |
| `LogProofs` | `WalInvariance`, `TypeOKHolds`, `ReplayInOrderHolds`, `WalIsDurableLog` | none |
| | `ManifestInvariance`, `AckedEditsReplayedHolds`, `SeqNumbersEditsHolds` | none |
| `TableProofs` | `TableInvariance`, `TableTypeCorrect`, `FlushInOrder`, `AggregateCorrect` | none |
| | `ScanCorrect` | `NoEmptyFilter` |
| `BlockCacheProofs` | `CacheInvariance`, `ViewIntactHolds`, `ListMatchesMapHolds`, `BooksInvariance`, `BytesAccountedHolds`, `KeepsMostRecentHolds` | none |

`CompactionStepProofs` and `CompactionAckedProofs` hold lemmas only. None of the invariants
that the properties follow from is obvious, so each was checked by TLC before it was
proved; the numbers of states are given below. `IInv` of `Engine` and of `BlockCache`
are also in the runs.

### Engine

`Positive` says that timestamps are greater than 0, `NoCrashInReplay` that no crash
falls into the phase in which `Open` deletes covered segments.

`NoDuplicates` is not inductive. That a record is not both in a memtable and in a
file after recovery needs every record of an opened file to be covered by
`maxFlushedTS` (`RecoveryInv`), which needs every manifest entry to carry the
maximum of its file and the file to be complete and on disk (`ManifestInv`). That a
flush does not write over such a file needs the segment numbers to run ahead of the
file numbers in every phase, also across a crash (`SeqInv`): the active segment is
at least as high as every SSTable, so it passes the number on to the next session.
Within a session `FlushFileInv` says which file the running flush owns, `IssuedInv`
that a record in flight is nowhere yet, and `DisjointInv` is `NoDuplicates` for all
files the manifest lists. `IInv` is their conjunction with `TypeOK` and the
positions of the goroutines (`PositionInv`). Each conjunct has a lemma that a step
keeps it, with one case per action that can disturb it; `StepCases` sorts out the
actions that cannot. `CommittedStays` follows because a listed file is neither
truncated (its number is below the next flush's) nor removed (recovery opens all of
them).

`RejectedStaysInvisible` in Strict mode stands on `IInv` and `RejectedInv`: a refused
record is late, and stays late because the clock does not go back, so neither a replay
nor a partition takes it; a partition is sealed only when its window's records are late,
which is `SealedOnlyWhenLate` of the window arithmetic. (306,532 states.)

`AckedVisible` is proved of `Engine` where there are no crashes; across crashes it is a
special case of the theorem about `Compaction` below. `CleanSetting` has no crash, no
failing flush and a clock at which no window can be sealed, but any windows and callers.
`CleanInv` adds that `Close` comes to every memtable that is not empty and that what was
inserted is in committed files whenever no engine is open; `CloseCommitsAll` follows as
well. (69,801 states.)

The window arithmetic rests on `FloorDivBounds`, that stepping Go's truncated
quotient down once gives the floor also before the epoch, and assumes only that the
window length is positive and the late-arrival window is not negative.

### Compaction

`HeldInv` adds to `HeldReadersOpen` that a held reader belongs to an engine that is open
or closing: a merge and a retirement move readers to `closedReaders`, flushes only add
some, and only the end of the process, which takes the iterators with it, empties either
set.

The other theorems are about what the files hold, and there the restart of `compactSeq`
(`Compaction_v_seq`) stands in the way: a merge that takes the name of a live file
destroys it. Their hypothesis is that this does not happen. `FreshOutput` says that a
merge about to create its output gets a name that no file has, `UnusedOutput` that the
manifest does not list it either; both are assumed of the behaviour, not of the
constants, so the theorems cover every session of every store in which it holds.
Whatever calls of the flusher and the compactor fail is covered, too.
`FirstSessionUnused` shows where it does hold: in a store whose merges all fall into its
first session (`MergesInFirstSession`, as in `Compaction_durable`), however often it is
reopened, because `compactSeq` has gone through the numbers of all merged names
(`FirstInv`). With `MaxSessions = 1` that is no restriction.

`CInv` is the inductive invariant. `CSeqInv` is `SeqInv` again, for names that may
have been merged away; `CFilesInv` says that readers are on files that exist, that the
compactor's inputs are current, and that a file being written has no reader yet;
`CDataInv` that the output will hold what its inputs hold, and that a file to be retired
holds only expired records; `CManifestInv` that a file some edit added, and none deletes
from there on, is complete and on disk, and that replay opens it; `CScanInv` that the
files under an iterator hold what they held. `KeptUnlessExpired` follows step by step: an
edit that deletes files adds one with their records or deletes expired ones. (4,769,728
states with merges in every session and every fault, cut off where `FreshOutput` ends;
669,335 on the instance of `Compaction_durable`.)

`OpenMatchesManifest` needs more, because replay leaves out the deletions of an edit
whose added file it cannot open. `StrayInv` says why no file comes back that way: a file
that an edit deletes and that is still on disk keeps the file that this edit added on disk
(`StrayFilesInv`), as inputs are unlinked before the output gets a reader (`UnlinkedInv`); no name is
added again after it was deleted (`EditsInv`, `ListedInv`); and the edits replayed so far
account for the readers (`ReplayedInv`). It needs `RemovesSucceed`: section 3 shows
the file that comes back after a failed `os.Remove`. (4,441,568 states with merges in every
session and the other faults, cut off where `UnusedOutput` ends; 669,335 on the instance
of `Compaction_durable`.)

`AckedKept` is the promise the store as a whole makes: whenever the engine is open, in
this session or a later one, an acknowledged record is visible or being flushed until it
has expired. Section 3 shows that it does not hold in general. The theorem therefore says
of each single record how it can be lost, for any windows, callers, late-arrival mode and
failing calls, and that there is no other way:

* `Abandoned`: a flush deletes the old segment with the record in it, which its snapshot
  does not hold, as it belongs to another window or was inserted after the swap;
* `Overtaken`: while the record is on its way to the memtable, a record of its window that is
  not older is in a snapshot or a file, so that replay will take it for flushed;
* `RefusedAtReplay`: in Strict mode `Open` finds it late by the clock of the restart;
* `Dropped`: a flush fails and gives up its snapshot with the record in it.

`KeptUnlessEndangered` has no hypothesis about other records: these may be lost. The
situations are described in the terms of the running program, at the step where it happens,
and not by the absence of the record later. `MaxExists` says that a set of records that is
not empty has a largest timestamp, as any finite set has; to prove that would take an
induction over finite sets.

`AckedInv` holds of all records, whatever is lost: a flush hands its snapshot to a file and
a merge its inputs to an output before either is unlinked (`HandoverInv`), everything is in
its window (`WindowInv`), a file holds records up to the maximum its edit names
(`MaxInv`), and `maxFlushedTS` is the maximum of such a file, also if it has been merged away
or retired since (`CoverInv`). `KeptInv(r)` follows one record: once inserted it has expired, is
committed, or is in a segment and newer than every file of its window ever named in the
manifest, so that replay does not skip it (`Durable`); it is not behind a record that is
being flushed; during replay what is left of recovery delivers it (`Recoverable`); while the
engine is open it is where scans look. `CompactionAckedProofs` shows that a step keeps
`AckedInv`, `CompactionDurableProofs` that it keeps `KeptInv(r)`. (2,502,587 states with two
appenders that promise nothing, three records in two windows and a failing call, the
conclusion being checked for each record until it is endangered or dropped.)

### Logs

`LogProofs` begins with the frame format: how many frames `Replay` finds in a file, what
appending a frame does to them, and that a cut anywhere leaves the whole frames before
it. The number of frames is defined by a condition, so what a recursive reader would
need induction for follows from the least counterexample (`LeastElement`, from the
well-foundedness of `<`).

`ManifestInv` says that the file is whole frames with at most one torn one behind them, that
the durable part ends behind a frame and has every acknowledged edit in front of it,
and how numbers and `m.seq` are related while an edit whose fsync failed shares its
number with the next. (15,835 states.) `WalInv` says the same of segments and buffer:
together they are whole frames although a spill cuts the buffer anywhere, `Sync` finds
the buffer empty, and the promise is within the synced frames. (59,211 states.) That each
step of `Wal` is a step of `DurableLog` or a stutter is proved along with its
preservation, action by action (`WalStep`).

### Memtable and SSTable

`TableInv` says that the memtable is sorted (`Sorted`), that record `k` of block `i` is the
record of the memtable at position `At(i, k)`, as every block but the last is full
(`LayoutInv`), and where the iterator is (`PositionInv`). `FlushNeverOutOfOrder` follows
from `Sorted`, which an insertion keeps because the positions before the insertion point
are exactly the records that sort before the new one (`MemAppendSorts`).

`ScanAnswer` rests on `AnswerInv`: what the scan has returned, behind what a scan of the
memtable would have returned of the blocks before the first one read, is what it would have
returned so far. That a loop which stops at the first record past `end`, at a block that
begins past it, or before the first block loses nothing is `BeyondEnd` and `SkipsNothing`;
that what lies before the first block read can only be missing at the timestamp `start`
where two blocks meet is `BeforeScanStraddles`. `NoEmptyFilter` excludes the empty, non-nil
`SourceID` of section 3. `AggregateExact` is a bijection between the records a bucket
counts, by block and place, and the positions of the memtable whose timestamps are in it
(`BucketCounts`).

What a scan of the memtable returns is a recursive function of the position. Its facts
(`SelectedStep`, `SelectedFacts`) come from the least counterexample (`LeastElement`), like
those of the frame format, so no induction theorem with an operator parameter is needed.
(67,120 states.)

### Block cache

`ViewIntact` speaks only of iterators that are at a block; it holds because of what
lies in between: a cached slice is never an iterator's buffer, and the buffer holds the
block from its checksum until the iterator's next read (`SlicesInv`). `ListMatchesMap`
is inductive with the types; its lemmas are that a hit permutes the list
(`TouchedPermutes`) and that an insertion with its evictions keeps list and map equal
(`InsertMatches`). `BytesAccounted` and `KeepsMostRecent` rest on `BooksInv`: the list is
the beginning of the history of uses, which names a key once, and the byte count
is the sum along the list. (504,280 states.) The assumptions are the types of the constants
and that there is a block.

### Only model-checked

* Liveness under fairness and `ENABLED`, which TLAPS does not reason about:
  `OversizedIsFlushed`, `CloseReturns`, `MergedEventually`, `ExpiredEventually`,
  `CompactorLetsCloseReturn`, `EventuallyKept`.
* `NoDuplicates` of `Compaction` (`NoDuplicatesHolds` is about `Engine` without the
  compactor): it needs `DisjointInv` of `Engine` carried over to files that are merged away,
  some of whose records may also be in the output on disk. No proof has been attempted.
* `RoundTrip` and `MalformedIsRefused` of `Block`: what an encoder's folds over fields
  produce is to be compared with what decoders of another shape read back, an induction over
  data for which the induction theorems would need an operator as parameter.
* `Merge`, whose heap operators are RECURSIVE, which takes away the SMT solver.

## 5. Abstractions

* In `Engine` a WAL append is durable when it returns and a crash is the end of the
  process; `Wal` shows what that rests on (`SyncAlways`) and what the other modes
  give. `Wal` and `Manifest` add power loss: anything behind the last fsync may be
  cut. Directory entries and truncation are taken to be durable.
* A record is issued once, so a duplicate in the model is a duplicate by the engine.
* The size test and the send of `Append` are one action: acting on an older size can
  only send a request too many, which duplicate queue entries already allow.
* Removing orphans is one action: a crash in the middle leaves fewer orphans for the
  next `Open`.
* The clock does not run backwards. Timestamps are unbounded integers; the overflow
  of a window's end within one window of 2^63, and the record at `MaxInt64` that the
  exclusive end of `Freeze` leaves out, are outside the model.
* Block and frame checksums: a damaged or short unit is recognised, a whole one
  decodes to what was encoded. A record fits into the WAL buffer.
* The inputs of a merge, and the files of a retirement, are unlinked in one action: no
  other step of the process sees a single `os.Remove`. `ProcessEnds` may fall between
  two of them, and `CompactorRemoveFails` leaves one file.
* A merge reads its inputs when it opens them. Where its output took the name of an
  input, reading on in the truncated mapping may fail or kill the process;
  `CompactorFails` and `ProcessEnds` stand for that.
* `Aggregate` and the row and columnar iterators: `colScanIterator.Next` has the loop of
  `scanIterator.Next`, and the two are one in `Table`; what differs, the decoding of a
  block, is in `Block`.
* `BlockCache` takes a key to be one block for the life of the cache.

## 6. Not modelled

* Failing WAL writes, a failing `file.Close` in `Rotate`, failing `os.Remove` of orphans
  and covered segments. The code returns or logs them; what a failed write leaves in the
  WAL's buffered writer is left out with them. A failed write to the MANIFEST is in `Engine`
  and `Compaction`, with the error it leaves behind, but not in `Manifest`.
* Iterators used after `Close`: the file under them is unmapped.
* `Partitions`, `Metrics` and the counters of `internal/metrics`: reports nothing reads back.
* `compress.go` and the mmap files are calls into a library and the operating system,
  `options.go` and `record.go` plain data, `pkg/engine` forwards every call, and
  `cmd/timberdb` is argument parsing and output around it.
* The index and footer layout of an SSTable, which `NewReader` reads back by fixed
  offsets and whose damage makes it fail (`Readable` in `Engine`).
* An abstract store over `Engine` would have to carry every condition of section 3;
  `AckedKept`, `KeptUnlessExpired` and `NoDuplicates` state what it would promise.
