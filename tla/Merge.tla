------------------------------- MODULE Merge --------------------------------
(***************************************************************************)
(* The k-way merge of sorted iterators, written twice in the source with   *)
(* the same heap: mergeIterator of internal/engine (a scan over a          *)
(* memtable and its SSTables) and Merge of internal/compaction.  They      *)
(* differ in when they advance the iterator that gave the last record and  *)
(* in what they do when an iterator fails.                                 *)
(*                                                                         *)
(* A record is its sort key, an integer; equal keys are duplicates or      *)
(* records of the same timestamp and source.  Heap slots count from 1.     *)
(***************************************************************************)
EXTENDS Integers, SequencesExt

CONSTANTS
    Keys,       \* the sort keys that occur
    Iters,      \* number of iterators
    MaxLen      \* bound: records of one iterator

ASSUME MergeAssumption ==
    Keys \subseteq Int /\ Iters \in Nat /\ MaxLen \in Nat

VARIABLES
    compacting,  \* TRUE: compaction.Merge, FALSE: mergeIterator
    input,   \* what each iterator would return
    fault,   \* the one call of Next that fails: [iter, at]; iter 0 for none
    pos,     \* records each iterator has returned
    heap,    \* minHeap: [key, index] records
    seeded,  \* iterators asked for their first record
    cur,     \* mergeIterator.curIdx, 0 for -1
    err,     \* an iterator's error was recorded
    out,     \* the merged records
    done     \* Next returned false, or Merge's loop ended

vars == <<compacting, input, fault, pos, heap, seeded, cur, err, out, done>>

Sorted(s) == \A i, j \in DOMAIN s : i <= j => s[i] <= s[j]
Inputs == {s \in BoundedSeq(Keys, MaxLen) : Sorted(s)}

TypeOK ==
    /\ compacting \in BOOLEAN
    /\ input \in [1..Iters -> Inputs]
    /\ \A i \in 1..Iters : pos[i] \in 0..Len(input[i])
    /\ heap \in Seq([key : Keys, index : 1..Iters])
    /\ seeded \in 0..Iters /\ cur \in 0..Iters
    /\ err \in BOOLEAN /\ done \in BOOLEAN /\ out \in Seq(Keys)

Init ==
    /\ compacting \in BOOLEAN
    /\ input \in [1..Iters -> Inputs]
    /\ fault \in [iter : 0..Iters, at : 1..(MaxLen + 1)]
    /\ fault.at <= IF fault.iter = 0 THEN 1 ELSE Len(input[fault.iter]) + 1
    /\ pos = [i \in 1..Iters |-> 0]
    /\ heap = << >> /\ seeded = 0 /\ cur = 0 /\ err = FALSE
    /\ out = << >> /\ done = FALSE

-----------------------------------------------------------------------------
(* The heap *)

Less(h, i, j) == h[i].key < h[j].key

Swap(h, i, j) == [h EXCEPT ![i] = h[j], ![j] = h[i]]

RECURSIVE Up(_, _)
Up(h, j) ==
    LET i == j \div 2
    IN  IF j = 1 \/ ~Less(h, j, i) THEN h ELSE Up(Swap(h, i, j), i)

\* As Down, never looking at the right child.
RECURSIVE DownLeft(_, _, _)
DownLeft(h, i, n) ==
    LET j == 2 * i
    IN  IF j > n \/ ~Less(h, j, i) THEN h ELSE DownLeft(Swap(h, i, j), j, n)

\* down(i0, n): only the first n slots take part.
RECURSIVE Down(_, _, _)
Down(h, i, n) ==
    LET j1 == 2 * i
        j == IF j1 + 1 <= n /\ Less(h, j1 + 1, j1) THEN j1 + 1 ELSE j1
    IN  IF j1 > n \/ ~Less(h, j, i) THEN h ELSE Down(Swap(h, i, j), j, n)

Push(h, item) == Up(Append(h, item), Len(h) + 1)

\* The heap after pop, with the popped item in the last slot.
Popped(h) == Down(Swap(h, 1, Len(h)), 1, Len(h) - 1)

-----------------------------------------------------------------------------
(* The iterators *)

Fails(i) == fault.iter = i /\ fault.at = pos[i] + 1
Exhausted(i) == pos[i] = Len(input[i])

\* As Advanced, taking a failed iterator for an exhausted one.
AdvancedSilently(i, h) ==
    IF Fails(i) \/ Exhausted(i)
    THEN [heap |-> h, pos |-> pos, err |-> err]
    ELSE [heap |-> Push(h, [key |-> input[i][pos[i] + 1], index |-> i]),
          pos |-> [pos EXCEPT ![i] = @ + 1], err |-> err]

\* As Advanced, moving the cursor before looking whether a record is left.
AdvancedBlindly(i, h) ==
    IF Fails(i) \/ Exhausted(i)
    THEN [heap |-> h, pos |-> [pos EXCEPT ![i] = @ + 1], err |-> err \/ Fails(i)]
    ELSE [heap |-> Push(h, [key |-> input[i][pos[i] + 1], index |-> i]),
          pos |-> [pos EXCEPT ![i] = @ + 1], err |-> err]

\* One call of iters[i].Next: its next record goes into the heap, or it is
\* exhausted, or it failed and Err is remembered.
Advanced(i, h) ==
    IF Fails(i) \/ Exhausted(i)
    THEN [heap |-> h, pos |-> pos, err |-> err \/ Fails(i)]
    ELSE [heap |-> Push(h, [key |-> input[i][pos[i] + 1], index |-> i]),
          pos |-> [pos EXCEPT ![i] = @ + 1], err |-> err]

Become(st) == heap' = st.heap /\ pos' = st.pos /\ err' = st.err

\* Seeding the heap; compaction gives up at the first error.
Seed ==
    /\ seeded < Iters /\ ~(compacting /\ err)
    /\ seeded' = seeded + 1
    /\ Become(Advanced(seeded + 1, heap))
    /\ UNCHANGED <<compacting, input, fault, cur, out, done>>

\* The record iterator i stands on after returning p[i] of them.
View(i, p) == input[i][p[i]]

\* mergeIterator.Next: advance the iterator of the last record, then pop.  An
\* error met while advancing shows in the call after this one.
MergeNext ==
    /\ ~compacting /\ seeded = Iters /\ ~err /\ ~done
    /\ LET st == IF cur = 0 THEN [heap |-> heap, pos |-> pos, err |-> err]
                 ELSE Advanced(cur, heap)
           h == Popped(st.heap)
           n == Len(st.heap)
       IN  IF st.heap = << >>
           THEN Become(st) /\ done' = TRUE /\ UNCHANGED <<cur, out>>
           ELSE /\ Become([st EXCEPT !.heap = SubSeq(h, 1, n - 1)])
                /\ cur' = h[n].index
                /\ out' = Append(out, View(h[n].index, st.pos))
                /\ UNCHANGED done
    /\ UNCHANGED <<compacting, input, fault, seeded>>

\* The loop of compaction.Merge: pop, Add, advance.
MergeStep ==
    /\ compacting /\ seeded = Iters /\ heap # << >> /\ ~err
    /\ LET h == Popped(heap)
           n == Len(heap)
       IN  /\ out' = Append(out, View(h[n].index, pos))
           /\ Become(Advanced(h[n].index, SubSeq(h, 1, n - 1)))
    /\ UNCHANGED <<compacting, input, fault, seeded, cur, done>>

\* Next returns false because of an error, Merge returns with or without one.
Return ==
    /\ ~done
    /\ IF compacting THEN err \/ (seeded = Iters /\ heap = << >>)
                     ELSE err /\ seeded = Iters
    /\ done' = TRUE
    /\ UNCHANGED <<compacting, input, fault, pos, heap, seeded, cur, err, out>>

Done == done /\ UNCHANGED vars

Next == Seed \/ MergeNext \/ MergeStep \/ Return \/ Done

Spec == Init /\ [][Next]_vars

-----------------------------------------------------------------------------
(* Properties *)

\* The merged stream is in (Timestamp, SourceID) order at every moment, so the
\* Writer of a compaction never refuses a record and a scan returns its
\* records in order, also when an iterator fails on the way.
MergedInOrder == Sorted(out)

Occurrences(k, s) == Len(SelectSeq(s, LAMBDA x : x = k))

\* A merge that ended without an error returned every record of every input as
\* often as it occurs; records go missing only behind a reported error.
NoSilentLoss ==
    done /\ ~err =>
        \A k \in Keys : Occurrences(k, out) = Occurrences(k, FlattenSeq(input))
=============================================================================
