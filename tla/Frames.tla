------------------------------- MODULE Frames -------------------------------
(***************************************************************************)
(* The record format that the WAL and the MANIFEST share: a header (CRC32  *)
(* and length) and a body, written one after the other into a file.        *)
(*                                                                         *)
(* A file is a sequence of cells, the units in which a crash may cut it.   *)
(* The cells of a frame know their frame and their place in it, so that a  *)
(* run of cells passes the CRC exactly when it is one whole frame.         *)
(***************************************************************************)
EXTENDS Integers, Sequences

CONSTANTS HeaderCells, BodyCells

ASSUME CellsAssumption == HeaderCells \in Nat \ {0} /\ BodyCells \in Nat \ {0}

FrameLen == HeaderCells + BodyCells

\* The cells of the frames of records of S.
CellsOf(S) == [rec : S, cell : 1..FrameLen]

\* appendEncodeRecord / the header and body built by manifest.Append
Frame(r) == [i \in 1..FrameLen |-> [rec |-> r, cell |-> i]]

\* The k-th frame of file f is complete and its CRC matches.
Intact(f, k) ==
    LET first == (k - 1) * FrameLen + 1
    IN  k * FrameLen <= Len(f) /\ SubSeq(f, first, k * FrameLen) = Frame(f[first].rec)

\* How many frames Replay delivers: it stops at the first that is not intact.
ValidFrames(f) ==
    CHOOSE n \in 0..Len(f) :
        (\A k \in 1..n : Intact(f, k)) /\ ~Intact(f, n + 1)

ValidBytes(f) == ValidFrames(f) * FrameLen

\* The records Replay delivers, in order.
Decoded(f) == [k \in 1..ValidFrames(f) |-> f[k * FrameLen].rec]

\* The sequences of ss, one behind the other.
Joined(ss) ==
    LET upTo[i \in 0..Len(ss)] == IF i = 0 THEN << >> ELSE upTo[i - 1] \o ss[i]
    IN  upTo[Len(ss)]

\* Replay returns an error: a torn write ended exactly behind a header, where
\* io.ReadFull of the body reads nothing and returns io.EOF, which the code does
\* not treat like io.ErrUnexpectedEOF.
ReplayFails(f) == Len(f) - ValidBytes(f) = HeaderCells

\* f holds n whole frames and less than one more.
Whole(f, n) ==
    /\ n \in Nat /\ n * FrameLen <= Len(f) /\ Len(f) < n * FrameLen + FrameLen
    /\ \A k \in 1..n : Intact(f, k)

=============================================================================
