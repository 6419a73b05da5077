-------------------------------- MODULE Block -------------------------------
(***************************************************************************)
(* The data-block formats of internal/sstable: encodeBlock and             *)
(* encodeColBlock with their decoders.                                     *)
(*                                                                         *)
(* A payload is a sequence of cells: one cell for a fixed-width field      *)
(* (count, timestamp, length, section size) and one for each byte of a     *)
(* source ID or record payload, so every offset the code computes has its  *)
(* counterpart here.  A block is the payload with its checksum, and the    *)
(* checksum tells any two payloads apart.                                  *)
(***************************************************************************)
EXTENDS Integers, SequencesExt

CONSTANTS
    Timestamps, Strings,  \* the field values of the records that occur
    MaxBlock,             \* bound: records in a block
    Cells,                \* the cells of arbitrary payloads
    MaxCells              \* bound: their length

ASSUME BlockAssumption ==
    Timestamps \subseteq Nat /\ Cells \subseteq Nat /\ MaxBlock \in Nat /\ MaxCells \in Nat

Records == [ts : Timestamps, src : Strings, payload : Strings]
BlocksOf == UNION {[1..n -> Records] : n \in 0..MaxBlock}
Payloads == UNION {[1..n -> Cells] : n \in 0..MaxCells}

Sealed(payload) == [payload |-> payload, crc |-> payload]

\* What the decoders answer: records, ErrBlockCorrupt, or an index out of range.
Decoded(recs) == [err |-> "nil", recs |-> recs]
ErrBlockCorrupt == [err |-> "corrupt", recs |-> << >>]
Panic == [err |-> "panic", recs |-> << >>]

Map(Op(_), s) == [i \in DOMAIN s |-> Op(s[i])]
Flat(Op(_), s) == FlattenSeq(Map(Op, s))
Prefixed(bytes) == <<Len(bytes)>> \o bytes
Slice(p, off, n) == SubSeq(p, off + 1, off + n)

-----------------------------------------------------------------------------
(* Encoders *)

encodeBlock(recs) ==
    Sealed(<<Len(recs)>>
           \o Flat(LAMBDA r : <<r.ts>> \o Prefixed(r.src) \o Prefixed(r.payload), recs))

encodeColBlock(recs) ==
    LET srcs == Flat(LAMBDA r : Prefixed(r.src), recs)
        payloads == Flat(LAMBDA r : Prefixed(r.payload), recs)
    IN  Sealed(<<Len(recs), Len(srcs), Len(payloads)>>
               \o Map(LAMBDA r : r.ts, recs) \o srcs \o payloads)

-----------------------------------------------------------------------------
(* Decoders.  An offset counts the cells before it. *)

\* A parse in progress, and how it stops.
Start(off) == [err |-> "nil", off |-> off, recs |-> << >>]
Corrupt(st) == [st EXCEPT !.err = "corrupt"]
Panics(st) == [st EXCEPT !.err = "panic"]

\* A length-prefixed string that must end by limit; `after' more cells must be
\* left behind it.  Its bytes are appended to st.recs.
String(p, st, limit, after) ==
    IF st.off + 1 > Len(p) THEN Panics(st)
    ELSE LET n == p[st.off + 1]
         IN  IF st.off + 1 + n + after > limit THEN Corrupt(st)
             ELSE [st EXCEPT !.off = @ + 1 + n, !.recs = Append(@, Slice(p, st.off + 1, n))]

\* As parseRecordAt, trusting that a record starts at the offset.
parseRecordAtUnchecked(p, st) ==
    IF st.off + 1 > Len(p) THEN Panics(st)
    ELSE LET src == String(p, Start(st.off + 1), Len(p), 1)
             pay == IF src.err # "nil" THEN src ELSE String(p, src, Len(p), 0)
         IN  IF pay.err # "nil" THEN [st EXCEPT !.err = pay.err]
             ELSE [err |-> "nil", off |-> pay.off,
                   recs |-> Append(st.recs, [ts |-> p[st.off + 1],
                                             src |-> pay.recs[1], payload |-> pay.recs[2]])]

\* One record of a row block, with the bounds the code tests in that order.
parseRecordAt(p, st) ==
    IF st.off + 2 > Len(p) THEN Corrupt(st)
    ELSE LET src == String(p, Start(st.off + 1), Len(p), 1)
             pay == IF src.err # "nil" THEN src ELSE String(p, src, Len(p), 0)
         IN  IF pay.err # "nil" THEN [st EXCEPT !.err = pay.err]
             ELSE [err |-> "nil", off |-> pay.off,
                   recs |-> Append(st.recs, [ts |-> p[st.off + 1],
                                             src |-> pay.recs[1], payload |-> pay.recs[2]])]

\* Op repeated n times, stopping at the first error.
Loop(Op(_), st, n) == FoldLeft(LAMBDA s, i : IF s.err = "nil" THEN Op(s) ELSE s, st, [i \in 1..n |-> i])

\* The shortest block has `header' fields before its checksum.
validateBlock(b, header) == Len(b.payload) >= header /\ b.crc = b.payload

decodeBlock(b) ==
    IF ~validateBlock(b, 1) THEN ErrBlockCorrupt
    ELSE LET p == b.payload
             st == Loop(LAMBDA s : parseRecordAt(p, s), Start(1), p[1])
         IN  IF st.err = "nil" THEN Decoded(st.recs) ELSE [err |-> st.err, recs |-> << >>]

\* One length-prefixed cell string of a column that ends at limit.
Column(p, st, limit) == IF st.off + 1 > limit THEN Corrupt(st) ELSE String(p, st, limit, 0)

decodeColBlock(b) ==
    IF ~validateBlock(b, 3) THEN ErrBlockCorrupt
    ELSE LET p == b.payload
             tsEnd == 3 + p[1]
             srcIDsEnd == tsEnd + p[2]
             srcs == Loop(LAMBDA s : Column(p, s, srcIDsEnd), Start(tsEnd), p[1])
             pays == Loop(LAMBDA s : Column(p, s, Len(p)), Start(srcIDsEnd), p[1])
         IN  IF tsEnd > Len(p) \/ srcIDsEnd > Len(p) THEN ErrBlockCorrupt
             ELSE IF srcs.err # "nil" THEN [err |-> srcs.err, recs |-> << >>]
             ELSE IF pays.err # "nil" THEN [err |-> pays.err, recs |-> << >>]
             ELSE Decoded([i \in 1..p[1] |-> [ts |-> p[3 + i], src |-> srcs.recs[i],
                                              payload |-> pays.recs[i]]])

\* As decodeColBlockTimestamps, with the header of a row block.
decodeColBlockTimestampsRow(b) ==
    IF ~validateBlock(b, 3) \/ 3 + b.payload[1] > Len(b.payload) THEN ErrBlockCorrupt
    ELSE Decoded([i \in 1..b.payload[1] |-> b.payload[1 + i]])

decodeColBlockTimestamps(b) ==
    IF ~validateBlock(b, 3) \/ 3 + b.payload[1] > Len(b.payload) THEN ErrBlockCorrupt
    ELSE Decoded([i \in 1..b.payload[1] |-> b.payload[3 + i]])

-----------------------------------------------------------------------------
(* The inputs: the records of a block, or any payload with a valid checksum *)

VARIABLES recs, raw

SampleInit == recs = << >> /\ raw = << >>
SampleNext ==
    /\ recs = << >> /\ raw = << >>
    /\ \/ recs' \in BlocksOf /\ UNCHANGED raw
       \/ raw' \in Payloads /\ UNCHANGED recs

\* What the writer encodes, in either format, the decoders give back, and the
\* timestamps that Aggregate reads alone are those of the records: the two layouts
\* place the variable-length fields so that no length is taken for another.
RoundTrip ==
    /\ decodeBlock(encodeBlock(recs)) = Decoded(recs)
    /\ decodeColBlock(encodeColBlock(recs)) = Decoded(recs)
    /\ decodeColBlockTimestamps(encodeColBlock(recs)) = Decoded(Map(LAMBDA r : r.ts, recs))

\* "Returns ErrBlockCorrupt if the CRC does not match or the data is malformed":
\* whatever counts and lengths a payload holds, no decoder reads past its end, and
\* where both columnar decoders succeed they agree on the timestamps.
MalformedIsRefused ==
    LET row == decodeBlock(Sealed(raw))
        col == decodeColBlock(Sealed(raw))
        times == decodeColBlockTimestamps(Sealed(raw))
    IN  /\ row.err # "panic" /\ col.err # "panic"
        /\ col.err = "nil" => times = Decoded(Map(LAMBDA r : r.ts, col.recs))

=============================================================================
