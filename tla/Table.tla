------------------------------- MODULE Table --------------------------------
(***************************************************************************)
(* One partition's records on their way through internal/memtable and      *)
(* internal/sstable: sorted insertion into the memtable, Freeze and the    *)
(* SSTable writer with its data blocks and indexes, and the range scans of *)
(* the finished file.                                                      *)
(*                                                                         *)
(* A record is its sort key; a source is a number, 0 the empty ID.  Block  *)
(* sizes count records.  A block decodes to the records it was encoded     *)
(* from (its CRC guards that), so a file is a sequence of blocks.          *)
(***************************************************************************)
EXTENDS Integers, FiniteSets, Sequences

CONSTANTS
    Times,         \* the timestamps that occur
    Sources,       \* the source IDs that occur
    Filters,       \* the SourceID arguments of Scan, possibly NilFilter
    NilFilter,     \* a nil SourceID
    BlockRecords,  \* WriterOptions.BlockSizeBytes, in records
    IndexSources,  \* WriterOptions.IndexSources
    MaxRecords     \* bound: records in the memtable

ASSUME TimesAssumption == Times \subseteq Int /\ Times # {} /\ Sources \subseteq Nat
ASSUME FiltersAssumption == Filters \subseteq Nat \cup {NilFilter}
ASSUME TableBoundsAssumption ==
    BlockRecords \in Nat \ {0} /\ MaxRecords \in Nat /\ IndexSources \in BOOLEAN

VARIABLES
    phase,    \* "fill", "write", "error", "finished", "scan", "failed", "done"
    mem,      \* Memtable.records
    pos,      \* the iterator of Freeze: records handed to the Writer
    pending,  \* Writer.pending
    blocks,   \* the data blocks written so far
    query,    \* the arguments of Scan
    blockIdx, recIdx,  \* the iterator (of either layout): the next record to look at
    out       \* what the scan has returned

vars == <<phase, mem, pos, pending, blocks, query, blockIdx, recIdx, out>>

Records == [ts : Times, src : Sources]
Bounds == Times \cup {t + 1 : t \in Times}
Queries == [start : Bounds, end : Bounds, src : Filters]

TypeOK ==
    /\ phase \in {"fill", "write", "error", "finished", "scan", "failed", "done"}
    /\ mem \in Seq(Records) /\ pos \in 0..Len(mem)
    /\ pending \in Seq(Records) /\ Len(pending) < BlockRecords
    /\ blocks \in Seq(Seq(Records))
    /\ \A i \in DOMAIN blocks : Len(blocks[i]) \in 1..BlockRecords
    /\ out \in Seq(Records)

NoQuery == [start |-> 0, end |-> 0, src |-> NilFilter]

Init ==
    /\ phase = "fill" /\ mem = << >> /\ pos = 0 /\ pending = << >> /\ blocks = << >>
    /\ query = NoQuery /\ blockIdx = 0 /\ recIdx = 0 /\ out = << >>

-----------------------------------------------------------------------------
(* Memtable *)

\* As Precedes, comparing timestamps only.
PrecedesByTime(r, s) == r.ts < s.ts

\* The order of the memtable: r sorts strictly before s.
Precedes(r, s) == r.ts < s.ts \/ (r.ts = s.ts /\ r.src < s.src)

\* insertionPoint: before the first record that does not sort before r.
InsertionPoint(r) == Cardinality({i \in DOMAIN mem : Precedes(mem[i], r)}) + 1

\* The tail is copied up by one to make room for r.
Inserted(s, at, r) == SubSeq(s, 1, at - 1) \o <<r>> \o SubSeq(s, at, Len(s))

MemAppend(r) ==
    /\ phase = "fill" /\ Len(mem) < MaxRecords
    /\ mem' = Inserted(mem, InsertionPoint(r), r)
    /\ UNCHANGED <<phase, pos, pending, blocks, query, blockIdx, recIdx, out>>

\* Memtable.Scan: a non-nil filter compares, also when it is empty.
MemMatches(r, q) ==
    /\ q.start <= r.ts /\ r.ts < q.end
    /\ q.src # NilFilter => r.src = q.src

\* What the iterator returns of the first n records of the copied slice s.
Selected(s, q, n) ==
    LET upTo[i \in 0..n] ==
            IF i = 0 THEN << >>
            ELSE IF MemMatches(s[i], q) THEN Append(upTo[i - 1], s[i]) ELSE upTo[i - 1]
    IN  upTo[n]

MemScan(q) == Selected(mem, q, Len(mem))

-----------------------------------------------------------------------------
(* Writer *)

BeginWrite ==
    /\ phase = "fill" /\ mem # << >>
    /\ phase' = "write"
    /\ UNCHANGED <<mem, pos, pending, blocks, query, blockIdx, recIdx, out>>

\* Add returns ErrOutOfOrder.
OutOfOrder(r) ==
    pos > 0 /\ (r.ts < mem[pos].ts \/ (r.ts = mem[pos].ts /\ r.src < mem[pos].src))

\* As Add, noticing a full block one record late.
AddLate ==
    /\ phase = "write" /\ pos < Len(mem)
    /\ LET r == mem[pos + 1]
           block == Append(pending, r)
       IN  IF OutOfOrder(r)
           THEN phase' = "error" /\ UNCHANGED <<pos, pending, blocks>>
           ELSE /\ pos' = pos + 1 /\ phase' = phase
                /\ IF Len(block) > BlockRecords
                   THEN blocks' = Append(blocks, block) /\ pending' = << >>
                   ELSE pending' = block /\ UNCHANGED blocks
    /\ UNCHANGED <<mem, query, blockIdx, recIdx, out>>

\* One Add of the flush loop; a full block is flushed with it.
Add ==
    /\ phase = "write" /\ pos < Len(mem)
    /\ LET r == mem[pos + 1]
           block == Append(pending, r)
       IN  IF OutOfOrder(r)
           THEN phase' = "error" /\ UNCHANGED <<pos, pending, blocks>>
           ELSE /\ pos' = pos + 1 /\ phase' = phase
                /\ IF Len(block) >= BlockRecords
                   THEN blocks' = Append(blocks, block) /\ pending' = << >>
                   ELSE pending' = block /\ UNCHANGED blocks
    /\ UNCHANGED <<mem, query, blockIdx, recIdx, out>>

\* Finish flushes the last block and writes the indexes and the footer.
Finish ==
    /\ phase = "write" /\ pos = Len(mem)
    /\ blocks' = IF pending = << >> THEN blocks ELSE Append(blocks, pending)
    /\ pending' = << >> /\ phase' = "finished"
    /\ UNCHANGED <<mem, pos, query, blockIdx, recIdx, out>>

\* The time index and the footer.
MinTimestampOf(i) == blocks[i][1].ts
MinTimestamp == MinTimestampOf(1)
MaxTimestamp == LET b == blocks[Len(blocks)] IN b[Len(b)].ts

\* The keys of the source index.
SrcIndex == UNION {{blocks[i][k].src : k \in DOMAIN blocks[i]} : i \in DOMAIN blocks}

-----------------------------------------------------------------------------
(* Reader *)

\* As StartBlock, not stepping back to the block that may hold start.
StartBlockAfter(start) ==
    LET n == Cardinality({i \in DOMAIN blocks : MinTimestampOf(i) <= start})
    IN  IF n = Len(blocks) THEN n ELSE n + 1

\* The last block whose minTimestamp is not after start, or the first block.
StartBlock(start) ==
    LET n == Cardinality({i \in DOMAIN blocks : MinTimestampOf(i) <= start})
    IN  IF n = 0 THEN 1 ELSE n

\* Reader.Scan answers emptyIter: the range misses the file, or the source does.
Skips(q) ==
    \/ MaxTimestamp < q.start \/ MinTimestamp >= q.end
    \/ IndexSources /\ q.src \notin {NilFilter, 0} /\ q.src \notin SrcIndex

Scan(q) ==
    /\ phase = "finished"
    /\ query' = q
    /\ IF Skips(q)
       THEN phase' = "done" /\ UNCHANGED <<blockIdx, recIdx>>
       ELSE phase' = "scan" /\ blockIdx' = StartBlock(q.start) /\ recIdx' = 1
    /\ UNCHANGED <<mem, pos, pending, blocks, out>>

\* Reading the first block fails its CRC or the read: Scan returns the error.
ScanFails(q) ==
    /\ phase = "finished" /\ ~Skips(q)
    /\ query' = q /\ phase' = "failed"
    /\ UNCHANGED <<mem, pos, pending, blocks, blockIdx, recIdx, out>>

\* Next keeps r: an empty SourceID filters nothing.
Matches(r, q) ==
    /\ q.start <= r.ts /\ r.ts < q.end
    /\ q.src \notin {NilFilter, 0} => r.src = q.src

\* One record of the current block.
NextRecord ==
    /\ phase = "scan" /\ recIdx <= Len(blocks[blockIdx])
    /\ LET r == blocks[blockIdx][recIdx]
       IN  /\ recIdx' = recIdx + 1
           /\ phase' = IF r.ts >= query.end THEN "done" ELSE "scan"
           /\ out' = IF Matches(r, query) THEN Append(out, r) ELSE out
    /\ UNCHANGED <<mem, pos, pending, blocks, query, blockIdx>>

MoreBlocks == blockIdx < Len(blocks) /\ MinTimestampOf(blockIdx + 1) < query.end

\* The current block is exhausted: load the next one, or stop.
NextBlock ==
    /\ phase = "scan" /\ recIdx > Len(blocks[blockIdx])
    /\ blockIdx' = blockIdx + 1
    /\ IF MoreBlocks
       THEN recIdx' = 1 /\ UNCHANGED phase
       ELSE phase' = "done" /\ UNCHANGED recIdx
    /\ UNCHANGED <<mem, pos, pending, blocks, query, out>>

\* Loading it fails: Next returns false and Err the error.
NextBlockFails ==
    /\ phase = "scan" /\ recIdx > Len(blocks[blockIdx]) /\ MoreBlocks
    /\ blockIdx' = blockIdx + 1 /\ phase' = "failed"
    /\ UNCHANGED <<mem, pos, pending, blocks, query, recIdx, out>>

-----------------------------------------------------------------------------
(* Aggregate over one columnar file, without a source filter *)

NBuckets(start, end, width) == (end - start + width - 1) \div width

\* As BlocksBefore, with the bound on the wrong side.
BlocksBeforeStart(start, end) == {i \in DOMAIN blocks : MinTimestampOf(i) < start}

\* The blocks read before the first whose minTimestamp reaches end.
BlocksBefore(start, end) ==
    {i \in DOMAIN blocks : \A j \in 1..i : MinTimestampOf(j) < end}

\* The records of block i that ScanTimestamps reports, by their position.
ScanTimestamps(i, start, end) ==
    {k \in DOMAIN blocks[i] : start <= blocks[i][k].ts /\ blocks[i][k].ts < end}

\* What addCount leaves in bucket b (from 0).
BucketCount(b, start, end, width) ==
    IF MaxTimestamp < start \/ MinTimestamp >= end THEN 0 ELSE
    Cardinality({x \in BlocksBefore(start, end) \X (1..BlockRecords) :
                    /\ x[2] \in ScanTimestamps(x[1], start, end)
                    /\ (blocks[x[1]][x[2]].ts - start) \div width = b})

-----------------------------------------------------------------------------
Done == phase \in {"done", "failed", "error"} /\ UNCHANGED vars

Next ==
    \/ \E r \in Records : MemAppend(r)
    \/ BeginWrite \/ Add \/ Finish
    \/ \E q \in Queries : Scan(q) \/ ScanFails(q)
    \/ NextRecord \/ NextBlock \/ NextBlockFails
    \/ Done

Spec == Init /\ [][Next]_vars

-----------------------------------------------------------------------------
(* Properties *)

\* A flush never fails with ErrOutOfOrder: whatever the order of the appends,
\* Freeze yields the records in the order Writer.Add demands.
FlushNeverOutOfOrder == phase # "error"

\* Two blocks meet at timestamp t.
Straddles(t) ==
    \E i \in 1..(Len(blocks) - 1) :
        blocks[i][Len(blocks[i])].ts = t /\ MinTimestampOf(i + 1) = t

\* A finished Scan of an SSTable returned what the memtable it was flushed from
\* would have returned, except that where blocks meet at the timestamp start
\* some records of that timestamp, from the front, may be missing.
ScanAnswer ==
    phase = "done" =>
        LET all == MemScan(query)
            missing == Len(all) - Len(out)
        IN  /\ missing >= 0 /\ out = SubSeq(all, missing + 1, Len(all))
            /\ missing > 0 => Straddles(query.start) /\ all[missing].ts = query.start

\* Reader.Scan returns the records with Timestamp in [start, end), filtered to
\* the source unless that is nil: its doc comment, without exceptions.
ScanExact == phase = "done" => out = MemScan(query)

\* Aggregate's columnar path puts every record of [start, end) into the bucket
\* of its timestamp and counts no other, also in a last bucket cut short by end
\* and where blocks meet at start.
AggregateExact ==
    phase = "finished" =>
        \A start, end \in Bounds : \A width \in 1..3 : start < end =>
            \A b \in 0..(NBuckets(start, end, width) - 1) :
                LET from == start + b * width
                    to == IF from + width < end THEN from + width ELSE end
                IN  BucketCount(b, start, end, width)
                        = Len(MemScan([start |-> from, end |-> to, src |-> NilFilter]))

-----------------------------------------------------------------------------
(* Why they hold *)

\* The memtable is in order.
Sorted == \A i, j \in DOMAIN mem : i < j => ~Precedes(mem[j], mem[i])

\* The position in the memtable of record k of block i: every block but the last is full.
At(i, k) == (i - 1) * BlockRecords + k

Writing == phase \in {"fill", "write", "error"}

\* The blocks hold the records added so far, in the order of the memtable.
LayoutInv ==
    /\ \A i \in DOMAIN blocks : \A k \in DOMAIN blocks[i] :
          At(i, k) \in 1..pos /\ blocks[i][k] = mem[At(i, k)]
    /\ \A i \in DOMAIN blocks : i < Len(blocks) \/ Writing => Len(blocks[i]) = BlockRecords
    /\ phase = "fill" => pos = 0 /\ blocks = << >> /\ pending = << >>
    /\ Writing =>
          /\ pos = At(Len(blocks) + 1, Len(pending))
          /\ \A k \in DOMAIN pending : pending[k] = mem[At(Len(blocks) + 1, k)]
    /\ phase = "write" => mem # << >>
    /\ ~Writing =>
          /\ mem # << >> /\ blocks # << >> /\ pending = << >> /\ pos = Len(mem)
          /\ Len(mem) = At(Len(blocks), Len(blocks[Len(blocks)]))

\* The first record the scan looks at.
FirstSeen == At(StartBlock(query.start), 1)

\* Where the iterator is.
PositionInv ==
    /\ phase \in {"fill", "write", "finished"} => out = << >>
    /\ phase \in {"scan", "done"} => query \in Queries
    /\ phase = "scan" =>
          /\ blockIdx \in DOMAIN blocks /\ recIdx \in 1..(Len(blocks[blockIdx]) + 1)
          /\ StartBlock(query.start) <= blockIdx

TableInv == TypeOK /\ FlushNeverOutOfOrder /\ Sorted /\ LayoutInv /\ PositionInv

\* The scan has returned what it should have of the records from FirstSeen on.
AnswerInv ==
    /\ phase = "scan" =>
          Selected(mem, query, At(blockIdx, recIdx) - 1)
              = Selected(mem, query, FirstSeen - 1) \o out
    /\ phase = "done" => MemScan(query) = Selected(mem, query, FirstSeen - 1) \o out

\* No caller asks for the records of the empty source.
NoEmptyFilter == 0 \notin Filters
=============================================================================
