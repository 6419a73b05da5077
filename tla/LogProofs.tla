------------------------------ MODULE LogProofs ------------------------------
(***************************************************************************)
(* The two logs of the engine, the WAL and the MANIFEST, for every length  *)
(* of the header and of the body of a frame.                               *)
(*                                                                         *)
(* The record format: how many frames Replay finds in a file, and what     *)
(* appending a frame to the file or cutting it anywhere does to the        *)
(* records it decodes.  The segments of the write-ahead log, which         *)
(* implement a durable log for any number of records and segments, any     *)
(* length of the buffer, every sync mode, and crashes with and without     *)
(* power loss.  The MANIFEST as a log, for any number of edits, restarts   *)
(* and failed fsyncs, and whatever a crash leaves of what was not synced.  *)
(***************************************************************************)
EXTENDS Wal, Manifest, WellFoundedInduction, TLAPS

-----------------------------------------------------------------------------
(* Sequences *)

\* A function on 1..n is a sequence of length n.
LEMMA SeqOfFunction ==
  ASSUME NEW S, NEW n \in Nat, NEW f \in [1..n -> S]
  PROVE  f \in Seq(S) /\ Len(f) = n
OBVIOUS

\* The domain of a sequence.
LEMMA SeqDomain ==
  ASSUME NEW S, NEW s \in Seq(S)
  PROVE  DOMAIN s = 1..Len(s) /\ Len(s) \in Nat
OBVIOUS

\* A position that is not the last.
LEMMA BeforeLast ==
  ASSUME NEW n \in Nat, NEW i \in 1..n, i # n
  PROVE  i \in 1..(n - 1)
OBVIOUS

\* Two sequences with the same elements are equal.
LEMMA SameElements ==
  ASSUME NEW S, NEW s \in Seq(S), NEW t \in Seq(S), Len(t) = Len(s), \A i \in 1..Len(s) : s[i] = t[i]
  PROVE  s = t
<1>1. /\ s = [i \in 1..Len(s) |-> s[i]]
      /\ t = [i \in 1..Len(s) |-> t[i]]
  OBVIOUS
<1> QED
  BY <1>1

\* The elements of a concatenation.
LEMMA ConcatElements ==
  ASSUME NEW S, NEW s \in Seq(S), NEW t \in Seq(S)
  PROVE  /\ s \o t \in Seq(S) /\ Len(s \o t) = Len(s) + Len(t)
         /\ \A i \in 1..(Len(s) + Len(t)) : (s \o t)[i] = IF i <= Len(s) THEN s[i] ELSE t[i - Len(s)]
OBVIOUS

\* The elements of a sequence after an Append.
LEMMA AppendElements ==
  ASSUME NEW S, NEW s \in Seq(S), NEW e \in S
  PROVE  /\ Append(s, e) \in Seq(S) /\ Len(Append(s, e)) = Len(s) + 1
         /\ \A i \in 1..Len(s) : Append(s, e)[i] = s[i]
         /\ Append(s, e)[Len(s) + 1] = e
OBVIOUS

\* The elements of a part of a sequence.
LEMMA PartElements ==
  ASSUME NEW S, NEW s, NEW m \in Int, NEW n \in Int, m <= n + 1, \A i \in m..n : s[i] \in S
  PROVE  /\ SubSeq(s, m, n) \in Seq(S) /\ Len(SubSeq(s, m, n)) = n - m + 1
         /\ \A i \in 1..(n - m + 1) : SubSeq(s, m, n)[i] = s[m + i - 1]
OBVIOUS

\* The elements of a sequence of which one was replaced.
LEMMA ExceptElements ==
  ASSUME NEW S, NEW s \in Seq(S), NEW k \in 1..Len(s), NEW e \in S
  PROVE  /\ [s EXCEPT ![k] = e] \in Seq(S) /\ Len([s EXCEPT ![k] = e]) = Len(s)
         /\ \A i \in 1..Len(s) : [s EXCEPT ![k] = e][i] = IF i = k THEN e ELSE s[i]
OBVIOUS

\* Concatenation is associative.
LEMMA ConcatAgain ==
  ASSUME NEW S, NEW s \in Seq(S), NEW t \in Seq(S), NEW u \in Seq(S)
  PROVE  (s \o t) \o u = s \o (t \o u)
OBVIOUS

\* The empty sequence is the unit of concatenation.
LEMMA ConcatEmpty ==
  ASSUME NEW S, NEW s \in Seq(S)
  PROVE  s \o << >> = s /\ << >> \o s = s
OBVIOUS

\* Append is a concatenation with one element.
LEMMA AppendConcat ==
  ASSUME NEW S, NEW s \in Seq(S), NEW e \in S
  PROVE  Append(s, e) = s \o <<e>>
OBVIOUS

\* Two adjacent parts of a sequence are a part of it.
LEMMA PartsJoined ==
  ASSUME NEW S, NEW s \in Seq(S), NEW n \in 0..Len(s)
  PROVE  SubSeq(s, 1, n) \o SubSeq(s, n + 1, Len(s)) = s
<1> DEFINE u == SubSeq(s, 1, n)
           v == SubSeq(s, n + 1, Len(s))
<1>1. /\ u \in Seq(S) /\ Len(u) = n /\ \A i \in 1..n : u[i] = s[i]
      /\ v \in Seq(S) /\ Len(v) = Len(s) - n /\ \A i \in 1..(Len(s) - n) : v[i] = s[n + i]
  <2>1. Len(s) \in Nat /\ n \in Nat /\ n <= Len(s) /\ \A i \in 1..Len(s) : s[i] \in S
    OBVIOUS
  <2>2. u \in Seq(S) /\ Len(u) = n /\ \A i \in 1..n : u[i] = s[i]
    BY <2>1, PartElements
  <2>3. v \in Seq(S) /\ Len(v) = Len(s) - n /\ \A i \in 1..(Len(s) - n) : v[i] = s[n + i]
    BY <2>1, PartElements
  <2> QED
    BY <2>2, <2>3
<1> HIDE DEF u, v
<1> DEFINE w == u \o v
<1>2. w \in Seq(S) /\ Len(w) = Len(s) /\ \A i \in 1..Len(s) : s[i] = w[i]
  <2>1. /\ w \in Seq(S) /\ Len(w) = Len(u) + Len(v)
        /\ \A i \in 1..(Len(u) + Len(v)) : w[i] = IF i <= Len(u) THEN u[i] ELSE v[i - Len(u)]
    BY Zenon, <1>1, ConcatElements
  <2> HIDE DEF w
  <2>2. Len(s) \in Nat /\ n \in Nat /\ Len(u) + Len(v) = Len(s)
    BY <1>1
  <2>3. ASSUME NEW i \in 1..Len(s) PROVE s[i] = w[i]
    <3>1. w[i] = IF i <= n THEN u[i] ELSE v[i - n]
      BY Zenon, <1>1, <2>1, <2>2
    <3>2. CASE i <= n
      BY <1>1, <2>2, <3>1, <3>2
    <3>3. CASE ~(i <= n)
      <4>1. i - n \in 1..(Len(s) - n) /\ n + (i - n) = i
        BY <2>2, <3>3
      <4> QED
        BY Zenon, <1>1, <3>1, <3>3, <4>1
    <3> QED
      BY Zenon, <3>2, <3>3
  <2> QED
    BY Zenon, <2>1, <2>2, <2>3
<1> HIDE DEF w
<1>3. s = w
  BY Zenon, <1>2, SameElements
<1> QED
  BY Zenon, <1>3 DEF u, v, w

\* The whole of a sequence is a part of it.
LEMMA WholePart ==
  ASSUME NEW S, NEW s \in Seq(S)
  PROVE  SubSeq(s, 1, Len(s)) = s
OBVIOUS

-----------------------------------------------------------------------------
(* The record format *)

\* A set of natural numbers that is not empty has a least element: the form in
\* which the proofs use induction.
LEMMA LeastElement ==
  ASSUME NEW T, T \subseteq Nat, T # {}
  PROVE  \E n \in T : \A m \in T : n <= m
<1> DEFINE R == {p \in Nat \X Nat : p[1] < p[2]}
<1>1. IsWellFoundedOn(R, Nat)
  BY NatLessThanWellFounded, Zenon DEF OpToRel
<1>2. PICK n \in T : \A m \in T : ~(<<m, n>> \in R)
  <2> HIDE DEF R
  <2> QED
    BY <1>1, WFMin, Zenon
<1>3. ASSUME NEW m \in T PROVE n <= m
  <2>1. ~(<<m, n>> \in R)
    BY <1>2
  <2>2. m \in Nat /\ n \in Nat
    OBVIOUS
  <2>3. ~(m < n)
    BY <2>1, <2>2
  <2> QED
    BY <2>2, <2>3
<1> QED
  BY <1>3

\* A header and a body are at least one cell each.
LEMMA FrameLenType == FrameLen \in Nat /\ FrameLen >= 2
BY CellsAssumption DEF FrameLen

\* Multiples of the length of a frame.
LEMMA Multiples ==
  ASSUME NEW j \in Nat, NEW k \in Nat
  PROVE  /\ k * FrameLen \in Nat /\ k <= k * FrameLen
         /\ (k + 1) * FrameLen = k * FrameLen + FrameLen
         /\ j <= k => j * FrameLen <= k * FrameLen
         /\ j < k => j * FrameLen + FrameLen <= k * FrameLen
<1>1. FrameLen \in Nat /\ FrameLen >= 2
  BY FrameLenType
<1>2. \A a, b \in Nat : a * b \in Nat
  OBVIOUS
<1>3. k * FrameLen \in Nat /\ j * FrameLen \in Nat
  BY <1>1, <1>2
<1>4. (k + 1) * FrameLen = k * FrameLen + FrameLen
  BY <1>1
<1>5. k <= k * FrameLen
  BY <1>1
<1>6. ASSUME j <= k PROVE j * FrameLen <= k * FrameLen
  BY <1>1, <1>6
<1>7. ASSUME j < k PROVE j * FrameLen + FrameLen <= k * FrameLen
  <2>1. (j + 1) * FrameLen <= k * FrameLen
    BY <1>1, <1>7
  <2>2. (j + 1) * FrameLen = j * FrameLen + FrameLen
    BY <1>1
  <2> QED
    BY <2>1, <2>2
<1> QED
  BY <1>3, <1>4, <1>5, <1>6, <1>7

\* The frame written for a record.
LEMMA FrameCells ==
  ASSUME NEW S, NEW r \in S
  PROVE  /\ Frame(r) \in Seq(CellsOf(S)) /\ Len(Frame(r)) = FrameLen
         /\ \A i \in 1..FrameLen : Frame(r)[i] = [rec |-> r, cell |-> i]
<1>1. FrameLen \in Nat
  BY FrameLenType
<1>2. Frame(r) \in [1..FrameLen -> CellsOf(S)]
  BY DEF Frame, CellsOf
<1> QED
  BY <1>1, <1>2 DEF Frame

\* A frame is intact when its cells are those written for one record.
LEMMA IntactCells ==
  ASSUME NEW S, NEW f \in Seq(CellsOf(S)), NEW k \in Nat
  PROVE  Intact(f, k + 1) <=>
            /\ k * FrameLen + FrameLen <= Len(f)
            /\ \A i \in 1..FrameLen :
                  f[k * FrameLen + i] = [rec |-> f[k * FrameLen + 1].rec, cell |-> i]
<1> DEFINE b == k * FrameLen
           g == SubSeq(f, b + 1, b + FrameLen)
           h == Frame(f[b + 1].rec)
<1>1. FrameLen \in Nat /\ FrameLen >= 2 /\ b \in Nat
  BY FrameLenType, Multiples
<1>2. (k + 1) * FrameLen = b + FrameLen /\ ((k + 1) - 1) * FrameLen + 1 = b + 1
  BY Multiples, <1>1
<1>3. Intact(f, k + 1) <=> b + FrameLen <= Len(f) /\ g = h
  BY <1>2 DEF Intact
<1> HIDE DEF b
<1>4. ASSUME b + FrameLen <= Len(f)
      PROVE  g = h <=> \A i \in 1..FrameLen : f[b + i] = [rec |-> f[b + 1].rec, cell |-> i]
  <2>1. \A i \in (b + 1)..(b + FrameLen) : f[i] \in CellsOf(S)
    BY <1>1, <1>4
  <2>2. /\ g \in Seq(CellsOf(S)) /\ Len(g) = FrameLen
        /\ \A i \in 1..FrameLen : g[i] = f[b + i]
    BY <1>1, <2>1, PartElements
  <2>3. f[b + 1].rec \in S
    BY <1>1, <2>1 DEF CellsOf
  <2>4. /\ h \in Seq(CellsOf(S)) /\ Len(h) = FrameLen
        /\ \A i \in 1..FrameLen : h[i] = [rec |-> f[b + 1].rec, cell |-> i]
    BY <2>3, FrameCells
  <2> HIDE DEF g, h
  <2>5. g = h <=> \A i \in 1..FrameLen : g[i] = h[i]
    BY <2>2, <2>4, SameElements
  <2> QED
    BY <2>2, <2>4, <2>5
<1> QED
  BY <1>3, <1>4 DEF b

\* Replay delivers the n frames of a file that holds n whole frames.
LEMMA FramesCounted ==
  ASSUME NEW S, NEW f \in Seq(CellsOf(S)), NEW n, Whole(f, n)
  PROVE  ValidFrames(f) = n
<1>1. n \in Nat /\ Len(f) \in Nat /\ n <= Len(f)
  <2>1. n \in Nat /\ n * FrameLen <= Len(f) /\ Len(f) \in Nat
    BY DEF Whole
  <2>2. n <= n * FrameLen /\ n * FrameLen \in Nat
    BY <2>1, Multiples
  <2> QED
    BY <2>1, <2>2
<1>2. ~Intact(f, n + 1)
  <2>1. ~(n * FrameLen + FrameLen <= Len(f))
    <3>1. n * FrameLen \in Nat /\ FrameLen \in Nat
      BY <1>1, Multiples, FrameLenType
    <3>2. Len(f) < n * FrameLen + FrameLen
      BY DEF Whole
    <3> QED
      BY <1>1, <3>1, <3>2
  <2> QED
    BY <1>1, <2>1, IntactCells
<1> DEFINE P(m) == (\A k \in 1..m : Intact(f, k)) /\ ~Intact(f, m + 1)
<1>3. P(n) /\ n \in 0..Len(f)
  BY <1>1, <1>2 DEF Whole
<1>4. ASSUME NEW m \in 0..Len(f), P(m) PROVE m = n
  <2>1. m \in Nat /\ ~(m < n)
    <3>1. m < n => Intact(f, m + 1)
      BY <1>1, <1>3
    <3> QED
      BY <1>4, <3>1
  <2>2. ~(n < m)
    <3>1. n < m => Intact(f, n + 1)
      BY <1>1, <1>4
    <3> QED
      BY <1>2, <3>1
  <2> QED
    BY <1>1, <2>1, <2>2
<1>5. ValidFrames(f) = CHOOSE m \in 0..Len(f) : P(m)
  BY DEF ValidFrames
<1> HIDE DEF P
<1> QED
  BY <1>3, <1>4, <1>5

\* What Replay decodes from it.
LEMMA DecodedFrames ==
  ASSUME NEW S, NEW f \in Seq(CellsOf(S)), NEW n, Whole(f, n)
  PROVE  /\ Decoded(f) \in Seq(S) /\ Len(Decoded(f)) = n /\ n \in Nat
         /\ \A k \in 1..n : Decoded(f)[k] = f[k * FrameLen].rec
<1>1. ValidFrames(f) = n /\ n \in Nat
  BY FramesCounted DEF Whole
<1>2. \A k \in 1..n : f[k * FrameLen].rec \in S
  <2> TAKE k \in 1..n
  <2>1. k \in Nat /\ 1 <= k /\ k <= n
    BY <1>1
  <2>2. k * FrameLen \in Nat /\ n * FrameLen \in Nat /\ k <= k * FrameLen
    BY Zenon, <1>1, <2>1, Multiples
  <2>3. k * FrameLen <= n * FrameLen
    BY <1>1, <2>1, Multiples
  <2>4. n * FrameLen <= Len(f) /\ Len(f) \in Nat
    BY DEF Whole
  <2>5. k * FrameLen \in 1..Len(f)
    BY <2>1, <2>2, <2>3, <2>4
  <2>6. f[k * FrameLen] \in CellsOf(S)
    BY <2>5
  <2> QED
    BY <2>6 DEF CellsOf
<1>3. Decoded(f) = [k \in 1..n |-> f[k * FrameLen].rec]
  BY <1>1 DEF Decoded
<1> HIDE DEF Whole
<1>4. Decoded(f) \in [1..n -> S]
  BY <1>2, <1>3
<1> QED
  BY <1>1, <1>3, <1>4

\* The cells of an intact frame all carry its record.
LEMMA CellsOfFrame ==
  ASSUME NEW S, NEW f \in Seq(CellsOf(S)), NEW n, Whole(f, n), NEW k \in 0..(n - 1)
  PROVE  /\ k * FrameLen \in Nat /\ k * FrameLen + FrameLen <= Len(f)
         /\ \A i \in 1..FrameLen :
               f[k * FrameLen + i] = [rec |-> Decoded(f)[k + 1], cell |-> i]
<1>1. n \in Nat /\ k \in Nat /\ k + 1 \in 1..n /\ FrameLen \in Nat /\ FrameLen >= 2
  BY FrameLenType DEF Whole
<1>2. Intact(f, k + 1)
  BY <1>1 DEF Whole
<1>3. /\ k * FrameLen + FrameLen <= Len(f)
      /\ \A i \in 1..FrameLen :
            f[k * FrameLen + i] = [rec |-> f[k * FrameLen + 1].rec, cell |-> i]
  BY <1>1, <1>2, IntactCells
<1>4. Decoded(f)[k + 1] = f[(k + 1) * FrameLen].rec
  BY <1>1, DecodedFrames
<1>5. (k + 1) * FrameLen = k * FrameLen + FrameLen /\ k * FrameLen \in Nat
  BY <1>1, Multiples
<1>6. Decoded(f)[k + 1] = f[k * FrameLen + 1].rec
  <2>1. FrameLen \in 1..FrameLen
    BY <1>1
  <2>2. f[k * FrameLen + FrameLen] = [rec |-> f[k * FrameLen + 1].rec, cell |-> FrameLen]
    BY <1>3, <2>1, Zenon
  <2>3. f[k * FrameLen + FrameLen].rec = f[k * FrameLen + 1].rec
    BY <2>2, SMT
  <2> QED
    BY <1>4, <1>5, <2>3, Zenon
<1> QED
  BY <1>3, <1>5, <1>6

\* A file whose cells up to a whole number of frames are those of another file
\* decodes to the same records up to there.
LEMMA SameFrames ==
  ASSUME NEW S, NEW f \in Seq(CellsOf(S)), NEW g \in Seq(CellsOf(S)),
         NEW n, Whole(f, n), NEW q \in 0..n,
         q * FrameLen <= Len(g),
         \A i \in 1..(q * FrameLen) : g[i] = f[i]
  PROVE  /\ \A k \in 1..q : Intact(g, k)
         /\ \A k \in 1..q : g[k * FrameLen].rec = Decoded(f)[k]
<1>1. n \in Nat /\ q \in Nat /\ FrameLen \in Nat /\ FrameLen >= 2
  BY FrameLenType DEF Whole
<1>2. ASSUME NEW j \in 0..(q - 1)
      PROVE  Intact(g, j + 1) /\ g[(j + 1) * FrameLen].rec = Decoded(f)[j + 1]
  <2> DEFINE b == j * FrameLen
  <2>1. j \in Nat /\ j < q /\ j \in 0..(n - 1)
    BY <1>1
  <2>2. b \in Nat /\ b + FrameLen <= q * FrameLen /\ q * FrameLen \in Nat
    BY <1>1, <2>1, Multiples
  <2>3. \A i \in 1..FrameLen : f[b + i] = [rec |-> Decoded(f)[j + 1], cell |-> i]
    BY <2>1, CellsOfFrame
  <2>4. (j + 1) * FrameLen = b + FrameLen
    BY <2>1, Multiples
  <2> HIDE DEF b
  <2>5. \A i \in 1..FrameLen : g[b + i] = [rec |-> Decoded(f)[j + 1], cell |-> i]
    BY <1>1, <2>2, <2>3
  <2>6. /\ b + FrameLen <= Len(g)
        /\ \A i \in 1..FrameLen : g[b + i] = [rec |-> g[b + 1].rec, cell |-> i]
    <3>1. b + FrameLen <= Len(g)
      BY <1>1, <2>2
    <3>2. g[b + 1].rec = Decoded(f)[j + 1]
      <4>1. 1 \in 1..FrameLen
        BY <1>1
      <4>2. g[b + 1] = [rec |-> Decoded(f)[j + 1], cell |-> 1]
        BY <2>5, <4>1, Zenon
      <4> QED
        BY <4>2, SMT
    <3> QED
      BY <2>5, <3>1, <3>2, Zenon
  <2>7. Intact(g, j + 1)
    BY <2>1, <2>6, IntactCells DEF b
  <2>8. g[b + FrameLen].rec = Decoded(f)[j + 1]
    <3>1. FrameLen \in 1..FrameLen
      BY <1>1
    <3>2. g[b + FrameLen] = [rec |-> Decoded(f)[j + 1], cell |-> FrameLen]
      BY <2>5, <3>1, Zenon
    <3> QED
      BY <3>2, SMT
  <2> QED
    BY <2>4, <2>7, <2>8
<1>3. \A k \in 1..q : k - 1 \in 0..(q - 1) /\ (k - 1) + 1 = k
  BY <1>1
<1> QED
  BY Zenon, <1>2, <1>3

\* An empty file holds no frame.
LEMMA EmptyFile == Whole(<< >>, 0)
<1>1. FrameLen \in Nat /\ FrameLen >= 2
  BY FrameLenType
<1>2. 0 * FrameLen = 0
  BY <1>1
<1>3. Len(<< >>) = 0 /\ 1..0 = {}
  OBVIOUS
<1> QED
  BY <1>1, <1>2, <1>3 DEF Whole

\* manifest.Append and WAL.Append: a frame behind whole frames adds its record to
\* what Replay decodes.
LEMMA FrameAppended ==
  ASSUME NEW S, NEW f \in Seq(CellsOf(S)), NEW n, Whole(f, n), Len(f) = n * FrameLen,
         NEW r \in S
  PROVE  /\ f \o Frame(r) \in Seq(CellsOf(S))
         /\ Whole(f \o Frame(r), n + 1) /\ Len(f \o Frame(r)) = (n + 1) * FrameLen
         /\ Decoded(f \o Frame(r)) = Append(Decoded(f), r)
<1> DEFINE g == f \o Frame(r)
           b == n * FrameLen
<1>1. n \in Nat /\ b \in Nat /\ FrameLen \in Nat /\ FrameLen >= 2
  <2>1. n \in Nat
    BY DEF Whole
  <2> QED
    BY <2>1, Multiples, FrameLenType
<1>2. (n + 1) * FrameLen = b + FrameLen
  BY <1>1, Multiples
<1>3. /\ Frame(r) \in Seq(CellsOf(S)) /\ Len(Frame(r)) = FrameLen
      /\ \A i \in 1..FrameLen : Frame(r)[i] = [rec |-> r, cell |-> i]
  BY FrameCells
<1>4. /\ g \in Seq(CellsOf(S)) /\ Len(g) = b + FrameLen
      /\ \A i \in 1..(b + FrameLen) : g[i] = IF i <= b THEN f[i] ELSE Frame(r)[i - b]
  <2>1. Len(f) = b
    OBVIOUS
  <2> HIDE DEF b
  <2> QED
    BY ZenonT(60), <1>3, <2>1, ConcatElements
<1>5. /\ \A i \in 1..b : g[i] = f[i]
      /\ \A i \in 1..FrameLen : g[b + i] = [rec |-> r, cell |-> i]
  <2> HIDE DEF b, g
  <2>1. \A i \in 1..b : g[i] = f[i]
    BY <1>1, <1>4
  <2>2. ASSUME NEW i \in 1..FrameLen PROVE g[b + i] = Frame(r)[i]
    <3>1. b + i \in 1..(b + FrameLen) /\ ~(b + i <= b) /\ (b + i) - b = i
      BY <1>1
    <3> QED
      BY <1>4, <3>1
  <2> QED
    BY <1>3, <2>1, <2>2
<1>6. /\ \A k \in 1..n : Intact(g, k)
      /\ \A k \in 1..n : g[k * FrameLen].rec = Decoded(f)[k]
  <2>1. n \in 0..n /\ n * FrameLen <= Len(g)
    BY <1>1, <1>4
  <2> HIDE DEF g
  <2> QED
    BY SMTT(30), <1>4, <1>5, <2>1, SameFrames
<1>7. Intact(g, n + 1)
  <2>1. 1 \in 1..FrameLen
    BY <1>1
  <2>2. g[b + 1] = [rec |-> r, cell |-> 1]
    BY <1>5, <2>1, Zenon
  <2>3. g[b + 1].rec = r
    BY <2>2, SMT
  <2>4. b + FrameLen <= Len(g)
    BY <1>1, <1>4
  <2>5. \A i \in 1..FrameLen : g[b + i] = [rec |-> g[b + 1].rec, cell |-> i]
    BY <1>5, <2>3, Zenon
  <2> HIDE DEF g
  <2> QED
    BY <1>1, <1>4, <2>4, <2>5, IntactCells
<1>8. Whole(g, n + 1)
  <2>1. \A k \in 1..(n + 1) : k \in 1..n \/ k = n + 1
    BY <1>1
  <2>2. \A k \in 1..(n + 1) : Intact(g, k)
    BY <1>6, <1>7, <2>1, Zenon
  <2> HIDE DEF g, b
  <2>3. n + 1 \in Nat /\ b + FrameLen <= Len(g) /\ Len(g) < (b + FrameLen) + FrameLen
    BY <1>1, <1>4
  <2> QED
    BY <1>2, <2>2, <2>3 DEF Whole
<1>9. g[b + FrameLen].rec = r
  <2>1. FrameLen \in 1..FrameLen
    BY <1>1
  <2>2. g[b + FrameLen] = [rec |-> r, cell |-> FrameLen]
    BY <1>5, <2>1, Zenon
  <2> QED
    BY <2>2, SMT
<1>10. Decoded(g) = Append(Decoded(f), r)
  <2>1. /\ Decoded(g) \in Seq(S) /\ Len(Decoded(g)) = n + 1
        /\ \A k \in 1..(n + 1) : Decoded(g)[k] = g[k * FrameLen].rec
    <3> HIDE DEF g
    <3> QED
      BY <1>4, <1>8, DecodedFrames
  <2>2. Decoded(f) \in Seq(S) /\ Len(Decoded(f)) = n
    BY DecodedFrames
  <2>3. /\ Append(Decoded(f), r) \in Seq(S) /\ Len(Append(Decoded(f), r)) = n + 1
        /\ \A k \in 1..n : Append(Decoded(f), r)[k] = Decoded(f)[k]
        /\ Append(Decoded(f), r)[n + 1] = r
    BY <2>2, AppendElements
  <2>4. ASSUME NEW k \in 1..(n + 1) PROVE Decoded(g)[k] = Append(Decoded(f), r)[k]
    <3>1. CASE k \in 1..n
      BY <1>6, <2>1, <2>3, <3>1, Zenon
    <3>2. CASE k = n + 1
      BY <1>2, <1>9, <2>1, <2>3, <3>2, Zenon
    <3>3. k \in 1..n \/ k = n + 1
      BY <1>1
    <3> QED
      BY <3>1, <3>2, <3>3, Zenon
  <2> HIDE DEF g
  <2> QED
    BY <2>1, <2>3, <2>4, SameElements
<1> QED
  BY <1>2, <1>4, <1>8, <1>10

\* A crash: a file that is cut anywhere decodes to a prefix of what it held, all
\* the frames that were left whole.
LEMMA FileCut ==
  ASSUME NEW S, NEW f \in Seq(CellsOf(S)), NEW n, Whole(f, n), NEW m \in 0..Len(f)
  PROVE  \E q \in 0..n :
            /\ SubSeq(f, 1, m) \in Seq(CellsOf(S)) /\ Len(SubSeq(f, 1, m)) = m
            /\ Whole(SubSeq(f, 1, m), q)
            /\ Decoded(SubSeq(f, 1, m)) = SubSeq(Decoded(f), 1, q)
            /\ \A j \in Nat : j * FrameLen <= m => j <= q
<1> DEFINE q == m \div FrameLen
           g == SubSeq(f, 1, m)
<1>1. n \in Nat /\ FrameLen \in Nat /\ FrameLen >= 2 /\ m \in Nat /\ m <= Len(f)
  BY FrameLenType DEF Whole
<1>2. q \in Nat /\ q * FrameLen <= m /\ m < q * FrameLen + FrameLen
  <2>1. /\ m = FrameLen * (m \div FrameLen) + (m % FrameLen)
        /\ m \div FrameLen \in Int /\ m % FrameLen \in 0..(FrameLen - 1)
    BY <1>1
  <2>2. (m \div FrameLen) * FrameLen <= m /\ m < (m \div FrameLen) * FrameLen + FrameLen
    BY <1>1, <2>1
  <2>3. m \div FrameLen >= 0
    <3> DEFINE d == m \div FrameLen
    <3>1. d \in Int /\ m < d * FrameLen + FrameLen /\ d * FrameLen + FrameLen = (d + 1) * FrameLen
      BY <1>1, <2>1, <2>2
    <3> HIDE DEF d
    <3>2. d < 0 => (d + 1) * FrameLen <= 0
      BY <1>1, <3>1
    <3>3. ~(d < 0)
      BY <1>1, <3>1, <3>2
    <3> QED
      BY <3>1, <3>3 DEF d
  <2> QED
    BY <2>1, <2>2, <2>3
<1> HIDE DEF q
<1>3. \A j \in Nat : j * FrameLen <= m => j <= q
  <2> SUFFICES ASSUME NEW j \in Nat, j * FrameLen <= m, q < j PROVE FALSE
    BY <1>2
  <2>1. q * FrameLen + FrameLen <= j * FrameLen /\ q * FrameLen \in Nat /\ j * FrameLen \in Nat
    BY <1>2, Multiples
  <2> QED
    BY <1>1, <1>2, <2>1
<1>4. q \in 0..n
  <2>1. Len(f) < n * FrameLen + FrameLen /\ Len(f) \in Nat
    BY DEF Whole
  <2> SUFFICES ASSUME n < q PROVE FALSE
    BY <1>1, <1>2
  <2>2. n * FrameLen + FrameLen <= q * FrameLen /\ q * FrameLen \in Nat /\ n * FrameLen \in Nat
    BY <1>1, <1>2, Multiples
  <2> QED
    BY <1>1, <1>2, <2>1, <2>2
<1>5. g \in Seq(CellsOf(S)) /\ Len(g) = m /\ \A i \in 1..m : g[i] = f[i]
  BY <1>1
<1> HIDE DEF g
<1>6. /\ \A k \in 1..q : Intact(g, k)
      /\ \A k \in 1..q : g[k * FrameLen].rec = Decoded(f)[k]
  <2>1. \A i \in 1..(q * FrameLen) : g[i] = f[i]
    <3>1. q * FrameLen \in Nat
      BY <1>2, Multiples
    <3> QED
      BY <1>1, <1>2, <1>5, <3>1
  <2>2. q * FrameLen <= Len(g)
    BY <1>2, <1>5
  <2> QED
    BY <1>4, <1>5, <2>1, <2>2, SameFrames
<1>7. Whole(g, q)
  BY <1>2, <1>5, <1>6 DEF Whole
<1>8. Decoded(g) = SubSeq(Decoded(f), 1, q)
  <2>1. /\ Decoded(g) \in Seq(S) /\ Len(Decoded(g)) = q
        /\ \A k \in 1..q : Decoded(g)[k] = g[k * FrameLen].rec
    BY <1>5, <1>7, DecodedFrames
  <2>2. Decoded(f) \in Seq(S) /\ Len(Decoded(f)) = n
    BY DecodedFrames
  <2>3. /\ SubSeq(Decoded(f), 1, q) \in Seq(S) /\ Len(SubSeq(Decoded(f), 1, q)) = q
        /\ \A k \in 1..q : SubSeq(Decoded(f), 1, q)[k] = Decoded(f)[k]
    BY <1>1, <1>4, <2>2
  <2>4. \A k \in 1..q : Decoded(g)[k] = SubSeq(Decoded(f), 1, q)[k]
    BY <1>6, <2>1, <2>3, Zenon
  <2> QED
    BY <2>1, <2>3, <2>4, SameElements
<1> QED
  BY Zenon, <1>3, <1>4, <1>5, <1>7, <1>8 DEF g

-----------------------------------------------------------------------------
(* Concatenating what the segments of a log deliver. *)

\* g[i] is the concatenation of the first i sequences of ss.
Joins(g, ss) ==
    g = [i \in 0..Len(ss) |-> IF i = 0 THEN << >> ELSE g[i - 1] \o ss[i]]

\* There is such a g.
LEMMA JoinsExists ==
  ASSUME NEW ss, Len(ss) \in Nat
  PROVE  \E g : Joins(g, ss)
<1> DEFINE Up(g, n) == g = [i \in 0..n |-> IF i = 0 THEN << >> ELSE g[i - 1] \o ss[i]]
           T == {n \in Nat : ~ \E g : Up(g, n)}
<1>1. ASSUME T # {} PROVE FALSE
  <2>1. PICK n \in T : \A m \in T : n <= m
    <3>1. T \subseteq Nat
      BY Zenon
    <3> HIDE DEF T
    <3> QED
      BY Zenon, <1>1, <3>1, LeastElement
  <2>2. n \in Nat /\ ~ \E g : Up(g, n)
    BY Zenon, <2>1
  <2>3. n # 0
    <3>1. Up([i \in 0..0 |-> << >>], 0)
      <4>1. \A i \in 0..0 : i = 0
        OBVIOUS
      <4> QED
        BY <4>1
    <3> QED
      BY <2>2, <3>1, Zenon
  <2>4. n - 1 \in Nat /\ n - 1 \notin T
    <3>1. n - 1 \in Nat /\ ~(n <= n - 1)
      BY <2>2, <2>3
    <3> QED
      BY <2>1, <3>1, Zenon
  <2>5. PICK g : Up(g, n - 1)
    BY Zenon, <2>4
  <2> DEFINE h == [i \in 0..n |-> IF i = n THEN g[n - 1] \o ss[n] ELSE g[i]]
  <2>6. ASSUME NEW i \in 0..n
        PROVE  h[i] = IF i = 0 THEN << >> ELSE h[i - 1] \o ss[i]
    <3>1. i \in Nat /\ (i # 0 => i - 1 \in 0..n /\ i - 1 # n)
      BY <2>2
    <3>2. i # 0 => h[i - 1] = g[i - 1]
      BY <3>1
    <3>3. CASE i = n
      BY Zenon, <2>3, <3>1, <3>2, <3>3
    <3>4. CASE i # n
      <4>1. i \in 0..(n - 1)
        BY <2>2, <3>1, <3>4
      <4>2. g[i] = IF i = 0 THEN << >> ELSE g[i - 1] \o ss[i]
        BY <2>5, <4>1
      <4> QED
        BY <3>2, <3>4, <4>2
    <3> QED
      BY <3>3, <3>4
  <2>7. Up(h, n)
    <3>1. h = [i \in 0..n |-> h[i]]
      OBVIOUS
    <3> HIDE DEF h
    <3> QED
      BY <2>6, <3>1, Zenon
  <2> QED
    BY <2>2, <2>7, Zenon
<1>2. \E g : Up(g, Len(ss))
  BY <1>1, Zenon
<1> QED
  BY <1>2, Zenon DEF Joins

\* So Joined is its last element.
LEMMA JoinedIs ==
  ASSUME NEW ss, Len(ss) \in Nat
  PROVE  \E g : Joins(g, ss) /\ Joined(ss) = g[Len(ss)]
<1> DEFINE h == CHOOSE f : f = [i \in 0..Len(ss) |-> IF i = 0 THEN << >> ELSE f[i - 1] \o ss[i]]
<1>1. Joined(ss) = h[Len(ss)]
  BY Zenon DEF Joined
<1>2. \E g : Joins(g, ss)
  BY JoinsExists
<1>3. Joins(h, ss)
  BY <1>2, Zenon DEF Joins
<1> QED
  BY <1>1, <1>3, Zenon

\* The concatenations of the first sequences depend on those alone.
LEMMA JoinsUnique ==
  ASSUME NEW ss, NEW tt, NEW g, NEW h, Joins(g, ss), Joins(h, tt),
         Len(ss) \in Nat, Len(tt) \in Nat, Len(ss) <= Len(tt),
         \A i \in 1..Len(ss) : ss[i] = tt[i]
  PROVE  \A i \in 0..Len(ss) : g[i] = h[i]
<1> DEFINE T == {i \in 0..Len(ss) : g[i] # h[i]}
<1>0. Len(ss) \in Nat /\ Len(tt) \in Nat /\ Len(ss) <= Len(tt)
  OBVIOUS
<1>1. ASSUME T # {} PROVE FALSE
  <2>1. PICK n \in T : \A m \in T : n <= m
    <3>1. T \subseteq Nat
      OBVIOUS
    <3> HIDE DEF T
    <3> QED
      BY Zenon, <1>1, <3>1, LeastElement
  <2>2. n \in 0..Len(ss) /\ g[n] # h[n] /\ n \in 0..Len(tt)
    BY <1>0, <2>1
  <2>3. g[n] = IF n = 0 THEN << >> ELSE g[n - 1] \o ss[n]
    BY Zenon, <2>2 DEF Joins
  <2>4. h[n] = IF n = 0 THEN << >> ELSE h[n - 1] \o tt[n]
    BY Zenon, <2>2 DEF Joins
  <2>5. n # 0
    BY <2>2, <2>3, <2>4
  <2>6. n - 1 \in 0..Len(ss) /\ ~(n <= n - 1) /\ n \in 1..Len(ss)
    BY <1>0, <2>2, <2>5
  <2>7. g[n - 1] = h[n - 1] /\ ss[n] = tt[n]
    BY <2>1, <2>6
  <2> QED
    BY <2>2, <2>3, <2>4, <2>5, <2>7
<1> QED
  BY <1>1

\* The concatenation of sequences over S is one.
LEMMA JoinsTyped ==
  ASSUME NEW S, NEW ss \in Seq(Seq(S)), NEW g, Joins(g, ss)
  PROVE  \A i \in 0..Len(ss) : g[i] \in Seq(S)
<1> DEFINE T == {i \in 0..Len(ss) : g[i] \notin Seq(S)}
<1>0. Len(ss) \in Nat
  OBVIOUS
<1>1. ASSUME T # {} PROVE FALSE
  <2>1. PICK n \in T : \A m \in T : n <= m
    <3>1. T \subseteq Nat
      OBVIOUS
    <3> HIDE DEF T
    <3> QED
      BY Zenon, <1>1, <3>1, LeastElement
  <2>2. n \in 0..Len(ss) /\ g[n] \notin Seq(S)
    BY <1>0, <2>1
  <2>3. g[n] = IF n = 0 THEN << >> ELSE g[n - 1] \o ss[n]
    BY Zenon, <2>2 DEF Joins
  <2>4. n # 0
    <3>1. << >> \in Seq(S)
      OBVIOUS
    <3> QED
      BY <2>2, <2>3, <3>1, Zenon
  <2>5. n - 1 \in 0..Len(ss) /\ ~(n <= n - 1) /\ n \in 1..Len(ss)
    BY <1>0, <2>2, <2>4
  <2>6. g[n - 1] \in Seq(S) /\ ss[n] \in Seq(S)
    BY <2>1, <2>5
  <2>7. g[n - 1] \o ss[n] \in Seq(S)
    BY <2>6, ConcatElements
  <2> QED
    BY <2>2, <2>3, <2>4, <2>7, Zenon
<1> QED
  BY <1>1

\* One more sequence.
LEMMA JoinedOneMore ==
  ASSUME NEW S, NEW n \in Nat, NEW d, \A i \in 1..(n + 1) : d[i] \in Seq(S)
  PROVE  /\ Joined([i \in 1..n |-> d[i]]) \in Seq(S)
         /\ Joined([i \in 1..(n + 1) |-> d[i]]) = Joined([i \in 1..n |-> d[i]]) \o d[n + 1]
         /\ Joined([i \in 1..(n + 1) |-> d[i]]) \in Seq(S)
<1> DEFINE s == [i \in 1..n |-> d[i]]
           t == [i \in 1..(n + 1) |-> d[i]]
<1>1. /\ s \in Seq(Seq(S)) /\ Len(s) = n /\ t \in Seq(Seq(S)) /\ Len(t) = n + 1
      /\ \A i \in 1..n : s[i] = t[i]
      /\ t[n + 1] = d[n + 1] /\ d[n + 1] \in Seq(S)
  OBVIOUS
<1> SUFFICES /\ Joined(s) \in Seq(S) /\ Joined(t) \in Seq(S)
             /\ Joined(t) = Joined(s) \o d[n + 1]
  BY Zenon
<1> HIDE DEF s, t
<1>2. PICK g : Joins(g, s) /\ Joined(s) = g[n]
  BY <1>1, JoinedIs
<1>3. PICK h : Joins(h, t) /\ Joined(t) = h[n + 1]
  BY SMTT(30), <1>1, JoinedIs
<1>4. /\ n \in 0..n /\ n + 1 \in 0..(n + 1) /\ n + 1 # 0 /\ (n + 1) - 1 = n
      /\ n <= n + 1 /\ n + 1 \in Nat
  OBVIOUS
<1>5. h[n + 1] = h[n] \o t[n + 1]
  <2>1. h[n + 1] = IF n + 1 = 0 THEN << >> ELSE h[(n + 1) - 1] \o t[n + 1]
    BY Zenon, <1>1, <1>3, <1>4 DEF Joins
  <2> QED
    BY <1>4, <2>1, Zenon
<1>6. \A i \in 0..n : g[i] = h[i]
  <2>1. Len(s) \in Nat /\ Len(t) \in Nat /\ Len(s) <= Len(t) /\ \A i \in 1..Len(s) : s[i] = t[i]
    BY <1>1, <1>4, Zenon
  <2>2. \A i \in 0..Len(s) : g[i] = h[i]
    BY <1>2, <1>3, <2>1, JoinsUnique
  <2> QED
    BY <1>1, <2>2, Zenon
<1>7. g[n] \in Seq(S)
  BY <1>1, <1>2, <1>4, JoinsTyped
<1>8. g[n] \o d[n + 1] \in Seq(S)
  BY <1>1, <1>7, ConcatElements
<1> QED
  BY <1>1, <1>2, <1>3, <1>4, <1>5, <1>6, <1>7, <1>8, Zenon

\* Nothing to concatenate.
LEMMA JoinedNothing ==
  ASSUME NEW ss, Len(ss) = 0
  PROVE  Joined(ss) = << >>
<1>1. PICK g : Joins(g, ss) /\ Joined(ss) = g[0]
  BY JoinedIs
<1>2. g[0] = << >>
  <2>1. 0 \in 0..0
    OBVIOUS
  <2> QED
    BY <1>1, <2>1 DEF Joins
<1> QED
  BY <1>1, <1>2

-----------------------------------------------------------------------------
(* Increasing sequences, and prefixes. *)

\* w increases and stays below nx.
Ordered(w, nx) ==
    /\ \A i, j \in DOMAIN w : i < j => w[i] < w[j]
    /\ \A i \in DOMAIN w : w[i] < nx
    /\ Len(w) < nx

\* A larger element at the end.
LEMMA OrderedAppend ==
  ASSUME NEW S, S \subseteq Int, NEW w \in Seq(S), NEW nx \in S, Ordered(w, nx)
  PROVE  Ordered(Append(w, nx), nx + 1) /\ Append(w, nx) \in Seq(S)
<1> DEFINE v == Append(w, nx)
<1>1. /\ Len(w) \in Nat /\ DOMAIN w = 1..Len(w) /\ nx \in Int
      /\ \A i \in 1..Len(w) : w[i] \in Int
  <2>1. \A i \in 1..Len(w) : w[i] \in S
    OBVIOUS
  <2>2. \A i \in 1..Len(w) : w[i] \in Int
    BY <2>1, Zenon
  <2> QED
    BY <2>2
<1>2. /\ v \in Seq(S) /\ Len(v) = Len(w) + 1 /\ DOMAIN v = 1..(Len(w) + 1)
      /\ \A i \in 1..Len(w) : v[i] = w[i]
      /\ v[Len(w) + 1] = nx
  BY AppendElements
<1> HIDE DEF v
<1>3. \A i \in DOMAIN v : i \in 1..Len(w) \/ i = Len(w) + 1
  BY <1>1, <1>2
<1>4. ASSUME NEW i \in DOMAIN v PROVE v[i] < nx + 1
  <2>1. CASE i \in 1..Len(w)
    <3>1. v[i] = w[i] /\ w[i] < nx /\ w[i] \in Int
      BY <1>1, <1>2, <2>1, Zenon DEF Ordered
    <3> QED
      BY <1>1, <3>1
  <2>2. CASE i = Len(w) + 1
    BY <1>1, <1>2, <2>2
  <2> QED
    BY <1>3, <2>1, <2>2, Zenon
<1>5. ASSUME NEW i \in DOMAIN v, NEW j \in DOMAIN v, i < j PROVE v[i] < v[j]
  <2>1. i \in 1..Len(w)
    BY <1>1, <1>2, <1>5
  <2>2. CASE j \in 1..Len(w)
    BY <1>1, <1>2, <1>5, <2>1, <2>2, Zenon DEF Ordered
  <2>3. CASE j = Len(w) + 1
    BY <1>1, <1>2, <2>1, <2>3, Zenon DEF Ordered
  <2> QED
    BY <1>3, <2>2, <2>3, Zenon
<1>6. Len(v) < nx + 1
  BY <1>1, <1>2 DEF Ordered
<1> QED
  BY <1>2, <1>4, <1>5, <1>6, Zenon DEF Ordered, v

\* A prefix is in order.
LEMMA OrderedPrefix ==
  ASSUME NEW S, S \subseteq Int, NEW w \in Seq(S), NEW nx \in Int, Ordered(w, nx), NEW n \in 0..Len(w)
  PROVE  /\ Ordered(SubSeq(w, 1, n), nx) /\ SubSeq(w, 1, n) \in Seq(S)
         /\ Len(SubSeq(w, 1, n)) = n
<1> DEFINE v == SubSeq(w, 1, n)
<1>1. Len(w) \in Nat /\ DOMAIN w = 1..Len(w)
  OBVIOUS
<1>2. v \in Seq(S) /\ Len(v) = n /\ DOMAIN v = 1..n /\ \A i \in 1..n : v[i] = w[i]
  BY <1>1
<1> HIDE DEF v
<1>3. \A i \in 1..n : i \in DOMAIN w
  BY <1>1
<1>4. \A i, j \in DOMAIN v : i < j => v[i] < v[j]
  BY <1>2, <1>3, Zenon DEF Ordered
<1>5. \A i \in DOMAIN v : v[i] < nx
  BY <1>2, <1>3, Zenon DEF Ordered
<1>6. Len(v) < nx
  <2>1. Len(w) < nx
    BY Zenon DEF Ordered
  <2> QED
    BY <1>1, <1>2, <2>1
<1> QED
  BY <1>2, <1>4, <1>5, <1>6, Zenon DEF Ordered, v

\* A prefix of what follows a common beginning.
LEMMA PrefixBehind ==
  ASSUME NEW S, NEW b \in Seq(S), NEW d \in Seq(S), NEW q \in 0..Len(d)
  PROVE  /\ b \o SubSeq(d, 1, q) = SubSeq(b \o d, 1, Len(b) + q)
         /\ Len(b) + q \in 0..Len(b \o d) /\ Len(b \o d) = Len(b) + Len(d)
         /\ b \o d \in Seq(S)
<1> DEFINE e == SubSeq(d, 1, q)
           f == b \o d
           g == SubSeq(f, 1, Len(b) + q)
           h == b \o e
<1>1. Len(b) \in Nat /\ Len(d) \in Nat /\ q \in Nat /\ q <= Len(d)
  OBVIOUS
<1>2. e \in Seq(S) /\ Len(e) = q /\ \A i \in 1..q : e[i] = d[i]
  BY <1>1
<1>3. /\ f \in Seq(S) /\ Len(f) = Len(b) + Len(d)
      /\ \A i \in 1..(Len(b) + Len(d)) : f[i] = IF i <= Len(b) THEN b[i] ELSE d[i - Len(b)]
  BY ConcatElements
<1>4. /\ h \in Seq(S) /\ Len(h) = Len(b) + q
      /\ \A i \in 1..(Len(b) + q) : h[i] = IF i <= Len(b) THEN b[i] ELSE e[i - Len(b)]
  <2> HIDE DEF e
  <2> QED
    BY Zenon, <1>2, ConcatElements
<1> HIDE DEF e, f
<1>5. /\ g \in Seq(S) /\ Len(g) = Len(b) + q
      /\ \A i \in 1..(Len(b) + q) : g[i] = f[i]
  BY <1>1, <1>3
<1> HIDE DEF g, h
<1>6. ASSUME NEW i \in 1..(Len(b) + q) PROVE h[i] = g[i]
  <2>1. i \in 1..(Len(b) + Len(d))
    BY <1>1
  <2>2. CASE i <= Len(b)
    BY <1>3, <1>4, <1>5, <2>1, <2>2, Zenon
  <2>3. CASE ~(i <= Len(b))
    <3>1. i - Len(b) \in 1..q
      BY <1>1, <2>3
    <3> QED
      BY <1>2, <1>3, <1>4, <1>5, <2>1, <2>3, <3>1, Zenon
  <2> QED
    BY <2>2, <2>3
<1>7. h = g
  BY <1>4, <1>5, <1>6, SameElements
<1>8. Len(b) + q \in 0..Len(f)
  BY <1>1, <1>3
<1> QED
  BY <1>3, <1>7, <1>8, Zenon DEF e, f, g, h

\* Changing the last element of a sequence leaves the others alone.
LEMMA LastOnly ==
  ASSUME NEW C, NEW s \in Seq(C), Len(s) > 0, NEW f \in C
  PROVE  /\ [s EXCEPT ![Len(s)] = f] \in Seq(C) /\ Len([s EXCEPT ![Len(s)] = f]) = Len(s)
         /\ [s EXCEPT ![Len(s)] = f][Len(s)] = f
         /\ \A i \in 1..(Len(s) - 1) : [s EXCEPT ![Len(s)] = f][i] = s[i]
<1>1. Len(s) \in 1..Len(s) /\ Len(s) \in Nat
  OBVIOUS
<1>2. /\ [s EXCEPT ![Len(s)] = f] \in Seq(C) /\ Len([s EXCEPT ![Len(s)] = f]) = Len(s)
      /\ \A j \in 1..Len(s) : [s EXCEPT ![Len(s)] = f][j] = IF j = Len(s) THEN f ELSE s[j]
  BY <1>1, ExceptElements
<1>3. \A i \in 1..(Len(s) - 1) : i \in 1..Len(s) /\ i # Len(s)
  BY <1>1
<1> QED
  BY <1>1, <1>2, <1>3, Zenon

\* The first of two sequences put together.
LEMMA FirstOfTwo ==
  ASSUME NEW S, NEW a \in Seq(S), NEW b \in Seq(S)
  PROVE  /\ a \o b \in Seq(S) /\ a = SubSeq(a \o b, 1, Len(a))
         /\ Len(a) \in 0..Len(a \o b) /\ Len(a \o b) = Len(a) + Len(b)
<1>1. a \o b \in Seq(S) /\ Len(a \o b) = Len(a) + Len(b)
  BY ConcatElements
<1>2. Len(a) \in Nat /\ Len(b) \in Nat
  OBVIOUS
<1>3. a = SubSeq(a \o b, 1, Len(a))
  <2> DEFINE f == a \o b
             g == SubSeq(f, 1, Len(a))
  <2>1. \A i \in 1..(Len(a) + Len(b)) : f[i] = IF i <= Len(a) THEN a[i] ELSE b[i - Len(a)]
    BY ConcatElements
  <2>2. \A i \in 1..Len(a) : i \in 1..(Len(a) + Len(b)) /\ i <= Len(a)
    BY <1>2
  <2>3. f \in Seq(S) /\ Len(f) = Len(a) + Len(b)
    BY <1>1
  <2> HIDE DEF f
  <2>4. g \in Seq(S) /\ Len(g) = Len(a) /\ \A i \in 1..Len(a) : g[i] = f[i]
    BY <1>2, <2>3
  <2> HIDE DEF g
  <2>5. \A i \in 1..Len(a) : a[i] = g[i]
    BY <2>1, <2>2, <2>4, Zenon
  <2>6. a = g
    BY <2>4, <2>5, SameElements
  <2> QED
    BY <2>6 DEF f, g
<1> QED
  BY <1>1, <1>2, <1>3

\* Moving the first n cells of the buffer to the end of the file keeps the
\* cells of both in order.
LEMMA Spilled ==
  ASSUME NEW S, NEW a \in Seq(S), NEW t \in Seq(S), NEW n \in 0..Len(t)
  PROVE  /\ (a \o SubSeq(t, 1, n)) \o SubSeq(t, n + 1, Len(t)) = a \o t
         /\ a \o SubSeq(t, 1, n) \in Seq(S) /\ SubSeq(t, n + 1, Len(t)) \in Seq(S)
         /\ Len(SubSeq(t, n + 1, Len(t))) = Len(t) - n
         /\ a = SubSeq(a \o SubSeq(t, 1, n), 1, Len(a))
         /\ Len(a) \in 0..Len(a \o SubSeq(t, 1, n))
<1> DEFINE u == SubSeq(t, 1, n)
           v == SubSeq(t, n + 1, Len(t))
<1>1. Len(t) \in Nat /\ n \in Nat /\ n <= Len(t)
  OBVIOUS
<1>2. u \in Seq(S) /\ v \in Seq(S) /\ Len(v) = Len(t) - n
  BY <1>1
<1>3. u \o v = t
  BY Zenon, PartsJoined
<1> HIDE DEF u, v
<1>4. (a \o u) \o v = a \o t
  <2>1. \A y, z \in Seq(S) : (a \o y) \o z = a \o (y \o z)
    BY SMTT(60), ConcatAgain
  <2>2. (a \o u) \o v = a \o (u \o v)
    BY <1>2, <2>1, Zenon
  <2> QED
    BY <1>3, <2>2, Zenon
<1>5. a \o u \in Seq(S) /\ a = SubSeq(a \o u, 1, Len(a)) /\ Len(a) \in 0..Len(a \o u)
  BY <1>2, FirstOfTwo
<1> QED
  BY <1>2, <1>4, <1>5, Zenon DEF u, v

\* One more record at the end.
LEMMA AppendedBehind ==
  ASSUME NEW S, NEW b \in Seq(S), NEW d \in Seq(S), NEW r \in S
  PROVE  b \o Append(d, r) = Append(b \o d, r)
<1>1. <<r>> \in Seq(S)
  OBVIOUS
<1>2. Append(d, r) = d \o <<r>>
  BY AppendConcat
<1>3. b \o d \in Seq(S)
  BY ConcatElements
<1>4. Append(b \o d, r) = (b \o d) \o <<r>>
  BY <1>3, AppendConcat
<1>5. (b \o d) \o <<r>> = b \o (d \o <<r>>)
  BY <1>1, ConcatAgain
<1> QED
  BY <1>2, <1>4, <1>5, Zenon

-----------------------------------------------------------------------------
(* What the segments of the WAL deliver *)

Recs == 1..MaxRecords

\* What replaying the segments s delivers, and all of them but the last.
Delivered(s) == Joined([i \in DOMAIN s |-> Decoded(s[i])])
Before(s) == Joined([i \in 1..(Len(s) - 1) |-> Decoded(s[i])])

\* Segments of whole frames, maybe with a torn tail each.
Segments(s) ==
    s \in Seq(Seq(CellsOf(Recs))) /\ \A i \in DOMAIN s : Whole(s[i], Len(Decoded(s[i])))

\* The last segment delivers the end of the log.
LEMMA DeliveredSplit ==
  ASSUME NEW s, Segments(s), Len(s) > 0
  PROVE  /\ Before(s) \in Seq(Recs) /\ Decoded(s[Len(s)]) \in Seq(Recs)
         /\ Delivered(s) \in Seq(Recs)
         /\ Delivered(s) = Before(s) \o Decoded(s[Len(s)])
<1> DEFINE n == Len(s) - 1
           d == [i \in 1..Len(s) |-> Decoded(s[i])]
<1>1. s \in Seq(Seq(CellsOf(Recs))) /\ Len(s) \in Nat /\ DOMAIN s = 1..Len(s)
  BY DEF Segments
<1>2. n \in Nat /\ Len(s) = n + 1
  BY <1>1
<1>3. \A i \in 1..Len(s) : d[i] = Decoded(s[i]) /\ Decoded(s[i]) \in Seq(Recs)
  <2> TAKE i \in 1..Len(s)
  <2>1. s[i] \in Seq(CellsOf(Recs)) /\ Whole(s[i], Len(Decoded(s[i])))
    <3>1. i \in DOMAIN s
      BY <1>1, Zenon
    <3>2. s[i] \in Seq(CellsOf(Recs))
      BY <1>1, <3>1
    <3> QED
      BY <3>1, <3>2, Zenon DEF Segments
  <2> QED
    BY Zenon, <2>1, DecodedFrames
<1>4. Delivered(s) = Joined([i \in 1..(n + 1) |-> d[i]])
  <2>1. [i \in DOMAIN s |-> Decoded(s[i])] = [i \in 1..(n + 1) |-> d[i]]
    BY <1>1, <1>2
  <2> QED
    BY <2>1, Zenon DEF Delivered
<1>5. Before(s) = Joined([i \in 1..n |-> d[i]])
  <2>1. [i \in 1..(Len(s) - 1) |-> Decoded(s[i])] = [i \in 1..n |-> d[i]]
    BY <1>1, <1>2
  <2> QED
    BY <2>1, Zenon DEF Before
<1>6. \A i \in 1..(n + 1) : d[i] \in Seq(Recs)
  BY <1>2, <1>3
<1>7. n + 1 \in 1..Len(s)
  BY <1>2
<1> HIDE DEF d, n
<1>8. /\ Joined([i \in 1..n |-> d[i]]) \in Seq(Recs)
      /\ Joined([i \in 1..(n + 1) |-> d[i]]) = Joined([i \in 1..n |-> d[i]]) \o d[n + 1]
      /\ Joined([i \in 1..(n + 1) |-> d[i]]) \in Seq(Recs)
  BY Zenon, <1>2, <1>6, JoinedOneMore
<1> QED
  BY <1>2, <1>3, <1>4, <1>5, <1>7, <1>8, Zenon

\* It is a sequence of records.
LEMMA DeliveredTyped ==
  ASSUME NEW s, Segments(s)
  PROVE  Delivered(s) \in Seq(Recs) /\ (Len(s) = 0 => Delivered(s) = << >>)
<1>1. Len(s) \in Nat /\ DOMAIN s = 1..Len(s)
  BY DEF Segments
<1>2. CASE Len(s) > 0
  BY <1>2, DeliveredSplit
<1>3. CASE Len(s) = 0
  <2> DEFINE e == [i \in DOMAIN s |-> Decoded(s[i])]
  <2>1. Len(e) = 0
    BY <1>1, <1>3
  <2>2. Joined(e) = << >>
    BY <2>1, JoinedNothing
  <2>3. << >> \in Seq(Recs)
    OBVIOUS
  <2> QED
    BY <2>2, <2>3 DEF Delivered
<1> QED
  BY <1>1, <1>2, <1>3

\* os.OpenFile of a new segment changes nothing.
LEMMA DeliveredNewFile ==
  ASSUME NEW s, Segments(s), NEW t, t = Append(s, << >>)
  PROVE  /\ Segments(t) /\ Len(t) = Len(s) + 1 /\ Len(t) > 0 /\ t[Len(t)] = << >>
         /\ Delivered(t) = Delivered(s) /\ Before(t) = Delivered(s)
<1>1. s \in Seq(Seq(CellsOf(Recs))) /\ Len(s) \in Nat /\ DOMAIN s = 1..Len(s)
  BY DEF Segments
<1>2. << >> \in Seq(CellsOf(Recs)) /\ Whole(<< >>, 0)
  BY EmptyFile
<1>3. Decoded(<< >>) \in Seq(Recs) /\ Len(Decoded(<< >>)) = 0
  BY Zenon, <1>2, DecodedFrames
<1>4. Decoded(<< >>) = << >>
  BY <1>3
<1>5. /\ t \in Seq(Seq(CellsOf(Recs))) /\ Len(t) = Len(s) + 1 /\ DOMAIN t = 1..Len(t)
      /\ \A i \in 1..Len(s) : t[i] = s[i]
      /\ t[Len(s) + 1] = << >>
  BY <1>1, <1>2
<1>6. Segments(t)
  <2> SUFFICES ASSUME NEW i \in DOMAIN t PROVE Whole(t[i], Len(Decoded(t[i])))
    BY <1>5 DEF Segments
  <2>1. i \in 1..Len(s) \/ i = Len(s) + 1
    BY <1>1, <1>5
  <2>2. CASE i \in 1..Len(s)
    BY <1>1, <1>5, <2>2, Zenon DEF Segments
  <2>3. CASE i = Len(s) + 1
    BY <1>2, <1>3, <1>5, <2>3, Zenon
  <2> QED
    BY <2>1, <2>2, <2>3, Zenon
<1>7. Before(t) = Delivered(s)
  <2>1. [i \in 1..(Len(t) - 1) |-> Decoded(t[i])] = [i \in DOMAIN s |-> Decoded(s[i])]
    BY <1>1, <1>5
  <2> QED
    BY <2>1, Zenon DEF Before, Delivered
<1>8. Len(t) > 0
  BY <1>1, <1>5
<1>9. Delivered(t) = Before(t) \o Decoded(t[Len(t)]) /\ Before(t) \in Seq(Recs)
  BY Zenon, <1>6, <1>8, DeliveredSplit
<1>10. Before(t) \o << >> = Before(t)
  BY <1>9, ConcatEmpty
<1> QED
  BY <1>4, <1>5, <1>6, <1>7, <1>8, <1>9, <1>10, Zenon

\* Writing to the last segment or cutting it changes what that one delivers.
LEMMA LastSegment ==
  ASSUME NEW s, Segments(s), Len(s) > 0, NEW f \in Seq(CellsOf(Recs)), NEW n, Whole(f, n),
         NEW t \in Seq(Seq(CellsOf(Recs))), Len(t) = Len(s), t[Len(s)] = f,
         \A i \in 1..(Len(s) - 1) : t[i] = s[i]
  PROVE  /\ Segments(t) /\ Before(t) = Before(s)
         /\ Delivered(t) = Before(s) \o Decoded(f)
<1>1. Len(s) \in Nat /\ DOMAIN s = 1..Len(s)
  BY DEF Segments
<1>2. DOMAIN t = 1..Len(s)
  OBVIOUS
<1>3. Len(Decoded(f)) = n
  BY DecodedFrames
<1>4. Segments(t)
  <2> SUFFICES ASSUME NEW i \in 1..Len(s) PROVE Whole(t[i], Len(Decoded(t[i])))
    BY <1>2, Zenon DEF Segments
  <2>1. CASE i = Len(s)
    BY <1>3, <2>1, Zenon
  <2>2. CASE i # Len(s)
    <3>1. i \in 1..(Len(s) - 1)
      BY Zenon, <1>1, <2>2, BeforeLast
    <3> QED
      BY <1>1, <3>1, Zenon DEF Segments
  <2> QED
    BY <2>1, <2>2, Zenon
<1>6. Before(t) = Before(s)
  <2>1. [i \in 1..(Len(t) - 1) |-> Decoded(t[i])] = [i \in 1..(Len(s) - 1) |-> Decoded(s[i])]
    BY Zenon
  <2> QED
    BY <2>1, Zenon DEF Before
<1>7. Delivered(t) = Before(t) \o Decoded(t[Len(t)])
  BY Zenon, <1>4, DeliveredSplit
<1> QED
  BY <1>4, <1>6, <1>7, Zenon

-----------------------------------------------------------------------------
(* What the invariant says of the segments and of the buffer *)

\* The pieces of WalInv in the form the proofs cite.
LEMMA WalFacts ==
  ASSUME WalInv
  PROVE  /\ TypeOK /\ Segments(segs) /\ Active \in Nat
         /\ Log = Delivered(segs) /\ Log \in Seq(Recs) /\ Earlier = Before(segs)
         /\ Ordered(Written, next)
         /\ next \in 1..(MaxRecords + 1) /\ MaxRecords \in Nat
<1>1. TypeOK /\ segs \in Seq(Seq(CellsOf(Recs))) /\ next \in 1..(MaxRecords + 1)
  BY Zenon DEF WalInv, TypeOK, Recs
<1>2. Segments(segs)
  BY <1>1, Zenon DEF WalInv, Segments
<1>3. Active \in Nat
  BY <1>1 DEF Active
<1>4. Log = Delivered(segs) /\ Earlier = Before(segs)
  BY Zenon DEF Log, Delivered, Earlier, Before, Active
<1>5. Delivered(segs) \in Seq(Recs)
  BY <1>2, DeliveredTyped
<1>6. Ordered(Written, next)
  BY Zenon DEF WalInv, Ordered
<1> QED
  BY <1>1, <1>2, <1>3, <1>4, <1>5, <1>6, WalBoundsAssumption, Zenon

\* With an open file.
LEMMA OpenFacts ==
  ASSUME WalInv, status \in {"open", "closed"}
  PROVE  /\ Active > 0 /\ Active \in 1..Active
         /\ segs[Active] \in Seq(CellsOf(Recs)) /\ buf \in Seq(CellsOf(Recs))
         /\ Stream \in Seq(CellsOf(Recs)) /\ Len(Stream) = Len(segs[Active]) + Len(buf)
         /\ segs[Active] = SubSeq(Stream, 1, Len(segs[Active]))
         /\ Whole(Stream, Len(Decoded(Stream)))
         /\ Len(Stream) = Len(Decoded(Stream)) * FrameLen
         /\ Decoded(Stream) \in Seq(Recs) /\ Decoded(segs[Active]) \in Seq(Recs)
         /\ Earlier \in Seq(Recs)
         /\ Log = Earlier \o Decoded(segs[Active])
         /\ Written = Earlier \o Decoded(Stream) /\ Written \in Seq(Recs)
         /\ count = Len(Written)
         /\ Whole(segs[Active], Len(Decoded(segs[Active])))
<1>1. /\ Segments(segs) /\ Active \in Nat /\ Log = Delivered(segs) /\ Earlier = Before(segs)
  BY WalFacts
<1>2. /\ Active > 0 /\ Whole(Stream, Len(Decoded(Stream)))
      /\ Len(Stream) = Len(Decoded(Stream)) * FrameLen /\ count = Len(Written)
  BY Zenon DEF WalInv
<1>3. Active \in 1..Active /\ DOMAIN segs = 1..Active /\ segs \in Seq(Seq(CellsOf(Recs)))
  BY <1>1, <1>2 DEF Segments, Active
<1>4. segs[Active] \in Seq(CellsOf(Recs))
  BY <1>3 DEF Active
<1>5. buf \in Seq(CellsOf(Recs))
  BY Zenon DEF WalInv, TypeOK, Recs
<1>6. /\ Stream \in Seq(CellsOf(Recs)) /\ Len(Stream) = Len(segs[Active]) + Len(buf)
      /\ segs[Active] = SubSeq(Stream, 1, Len(segs[Active]))
  BY <1>4, <1>5, FirstOfTwo DEF Stream
<1>8. Decoded(Stream) \in Seq(Recs)
  BY <1>2, <1>6, DecodedFrames
<1>9. /\ Earlier \in Seq(Recs) /\ Decoded(segs[Active]) \in Seq(Recs)
      /\ Log = Earlier \o Decoded(segs[Active])
  <2>1. Len(segs) > 0
    BY <1>2, Zenon DEF Active
  <2>2. /\ Before(segs) \in Seq(Recs) /\ Decoded(segs[Len(segs)]) \in Seq(Recs)
        /\ Delivered(segs) = Before(segs) \o Decoded(segs[Len(segs)])
    BY Zenon, <1>1, <2>1, DeliveredSplit
  <2> QED
    BY <1>1, <2>2, Zenon DEF Active
<1>10. Written = Earlier \o Decoded(Stream)
  BY Zenon DEF Written
<1>11. Earlier \o Decoded(Stream) \in Seq(Recs)
  BY <1>8, <1>9, ConcatElements
<1>12. Whole(segs[Active], Len(Decoded(segs[Active])))
  BY <1>1, <1>3, Zenon DEF Segments
<1> QED
  BY <1>2, <1>3, <1>4, <1>5, <1>6, <1>8, <1>9, <1>10, <1>11, <1>12, Zenon

\* Writing behind the cells of the active segment lets the log grow.
LEMMA ActiveGrows ==
  ASSUME WalInv, status \in {"open", "closed"},
         NEW g \in Seq(CellsOf(Recs)), NEW k, Whole(g, k),
         Len(segs[Active]) <= Len(g), segs[Active] = SubSeq(g, 1, Len(segs[Active])),
         segs' = [segs EXCEPT ![Active] = g]
  PROVE  /\ Segments(segs') /\ Active' = Active /\ segs'[Active] = g /\ Earlier' = Earlier
         /\ \A i \in 1..(Active - 1) : segs'[i] = segs[i]
         /\ Log' = Earlier \o Decoded(g) /\ Log' \in Seq(Recs)
         /\ \E n \in 0..Len(Log') : Log = SubSeq(Log', 1, n) /\ Len(Log) = n
<1>1. /\ Segments(segs) /\ Active \in Nat /\ Log = Delivered(segs) /\ Earlier = Before(segs)
  BY WalFacts
<1>2. /\ Active > 0 /\ segs[Active] \in Seq(CellsOf(Recs)) /\ Earlier \in Seq(Recs)
      /\ Log = Earlier \o Decoded(segs[Active])
  BY Zenon, OpenFacts
<1> DEFINE s == segs'
<1>3. /\ s \in Seq(Seq(CellsOf(Recs))) /\ Len(s) = Len(segs) /\ s[Len(segs)] = g
      /\ \A i \in 1..(Len(segs) - 1) : s[i] = segs[i]
  <2>1. segs \in Seq(Seq(CellsOf(Recs))) /\ Len(segs) > 0
    BY <1>1, <1>2, Zenon DEF Segments, Active
  <2>2. s = [segs EXCEPT ![Len(segs)] = g]
    BY Zenon DEF Active
  <2> HIDE DEF s
  <2> QED
    BY <2>1, <2>2, LastOnly
<1> HIDE DEF s
<1>4. Segments(s) /\ Before(s) = Before(segs) /\ Delivered(s) = Before(segs) \o Decoded(g)
  <2>1. Len(segs) > 0
    BY <1>2, Zenon DEF Active
  <2> QED
    BY Zenon, <1>1, <1>3, <2>1, LastSegment
<1>5. Log' = Delivered(s) /\ Earlier' = Before(s) /\ Active' = Active
  <2>1. Active' = Active
    BY <1>3, Zenon DEF Active, s
  <2> QED
    BY <2>1, Zenon DEF Log, Earlier, Delivered, Before, Active, s
<1>6. PICK q \in 0..k : Decoded(segs[Active]) = SubSeq(Decoded(g), 1, q)
  <2> DEFINE m == Len(segs[Active])
  <2>1. m \in 0..Len(g)
    BY <1>2
  <2> HIDE DEF m
  <2>2. \E q \in 0..k : Decoded(SubSeq(g, 1, m)) = SubSeq(Decoded(g), 1, q)
    BY <2>1, FileCut
  <2> QED
    BY <2>2, Zenon DEF m
<1>7. Decoded(g) \in Seq(Recs) /\ Len(Decoded(g)) = k
  BY DecodedFrames
<1>8. /\ Log = SubSeq(Earlier \o Decoded(g), 1, Len(Earlier) + q)
      /\ Len(Earlier) + q \in 0..Len(Earlier \o Decoded(g))
      /\ Earlier \o Decoded(g) \in Seq(Recs)
  BY SMTT(60), <1>2, <1>6, <1>7, PrefixBehind
<1>9. Log' = Earlier \o Decoded(g)
  BY <1>1, <1>4, <1>5, Zenon
<1>10. \E n \in 0..Len(Log') : Log = SubSeq(Log', 1, n) /\ Len(Log) = n
  <2> DEFINE w == Earlier \o Decoded(g)
             n == Len(Earlier) + q
  <2>1. w \in Seq(Recs) /\ n \in 0..Len(w) /\ Log = SubSeq(w, 1, n)
    BY <1>8, Zenon
  <2> HIDE DEF w, n
  <2>2. Len(SubSeq(w, 1, n)) = n
    BY <2>1
  <2>3. Log' = w
    BY <1>9, Zenon DEF w
  <2> QED
    BY <2>1, <2>2, <2>3, Zenon
<1> QED
  BY <1>1, <1>3, <1>4, <1>5, <1>8, <1>9, <1>10, Zenon DEF s, Active

-----------------------------------------------------------------------------
(* Every step keeps the invariant and is a step of a durable log *)

\* The cells of the file and of the buffer are now those of T; some of them
\* have gone from the buffer to the file.
LEMMA StreamWritten ==
  ASSUME WalInv, status = "open", status' = status, synced' = synced, kept' = kept,
         NEW T \in Seq(CellsOf(Recs)), NEW k \in Nat, Len(Decoded(Stream)) <= k,
         Whole(T, k), Len(T) = k * FrameLen,
         NEW g \in Seq(CellsOf(Recs)), buf' \in Seq(CellsOf(Recs)), g \o buf' = T,
         Len(segs[Active]) <= Len(g), segs[Active] = SubSeq(g, 1, Len(segs[Active])),
         segs' = [segs EXCEPT ![Active] = g]
  PROVE  /\ D!Extend
         /\ Segments(segs') /\ Len(synced') = Len(segs')
         /\ \A i \in DOMAIN segs' : synced'[i] <= Len(segs'[i])
         /\ Active' > 0 /\ Whole(Stream', Len(Decoded(Stream'))) 
         /\ Len(Stream') = Len(Decoded(Stream')) * FrameLen
         /\ \E n \in 0..Len(Decoded(Stream')) :
               synced'[Active'] = n * FrameLen /\ kept' <= Len(Earlier') + n
         /\ Written' = Earlier \o Decoded(T)
         /\ kept' <= Len(Log')
<1>1. /\ Active > 0 /\ segs[Active] \in Seq(CellsOf(Recs)) /\ Active \in Nat /\ Log \in Seq(Recs)
      /\ Decoded(Stream) \in Seq(Recs) /\ Segments(segs)
  BY Zenon, OpenFacts, WalFacts
<1>2. g = SubSeq(T, 1, Len(g)) /\ Len(g) \in 0..Len(T)
  BY FirstOfTwo
<1>3. PICK q : Whole(g, q)
  <2> DEFINE m == Len(g)
  <2>1. m \in 0..Len(T) /\ g = SubSeq(T, 1, m)
    BY <1>2, Zenon
  <2> HIDE DEF m
  <2>2. \E q \in 0..k : Whole(SubSeq(T, 1, m), q)
    BY <2>1, FileCut
  <2> QED
    BY <2>1, <2>2, Zenon
<1>4. /\ Segments(segs') /\ Active' = Active /\ segs'[Active] = g /\ Earlier' = Earlier
      /\ \A i \in 1..(Active - 1) : segs'[i] = segs[i]
      /\ Log' \in Seq(Recs)
      /\ \E n \in 0..Len(Log') : Log = SubSeq(Log', 1, n) /\ Len(Log) = n
  BY Zenon, <1>3, ActiveGrows
<1>5. D!Extend
  BY <1>4, Zenon DEF D!Extend
<1>6. Stream' = T
  BY <1>4, Zenon DEF Stream
<1>7. Len(Decoded(T)) = k
  BY Zenon, DecodedFrames
<1>8. Whole(Stream', Len(Decoded(Stream'))) /\ Len(Stream') = Len(Decoded(Stream')) * FrameLen
  BY <1>6, <1>7, Zenon
<1>9. \E n \in 0..Len(Decoded(Stream')) :
         synced'[Active'] = n * FrameLen /\ kept' <= Len(Earlier') + n
  <2>1. PICK n \in 0..Len(Decoded(Stream)) : synced[Active] = n * FrameLen /\ kept <= Len(Earlier) + n
    BY Zenon DEF WalInv
  <2>2. n \in 0..k
    BY <1>1, <2>1
  <2> QED
    BY <1>4, <1>6, <1>7, <2>1, <2>2, Zenon
<1>10. Written' = Earlier \o Decoded(T)
  <2>1. status' \in {"open", "closed"}
    BY Zenon
  <2> QED
    BY <1>4, <1>6, <2>1, Zenon DEF Written
<1>11. kept' <= Len(Log')
  <2>1. kept <= Len(Log) /\ kept \in 0..count /\ count \in 0..MaxRecords
    BY Zenon DEF WalInv, TypeOK
  <2>2. Len(Log) <= Len(Log') /\ Len(Log) \in Nat /\ Len(Log') \in Nat
    BY <1>1, <1>4
  <2> QED
    BY <2>1, <2>2
<1>12. Len(synced') = Len(segs') /\ DOMAIN segs = 1..Active /\ DOMAIN segs' = 1..Active
  <2>1. Len(synced) = Len(segs) /\ Len(segs') = Len(segs)
    BY <1>4, Zenon DEF WalInv, TypeOK, Active
  <2>2. segs \in Seq(Seq(CellsOf(Recs))) /\ segs' \in Seq(Seq(CellsOf(Recs)))
    BY <1>1, <1>4, Zenon DEF Segments
  <2> QED
    BY <2>1, <2>2 DEF Active
<1>13. \A i \in DOMAIN segs' : synced'[i] <= Len(segs'[i])
  <2> SUFFICES ASSUME NEW i \in 1..Active PROVE synced[i] <= Len(segs'[i])
    BY <1>12, Zenon
  <2>1. synced[i] <= Len(segs[i]) /\ synced[i] \in Nat
    <3>1. synced[i] <= Len(segs[i])
      BY <1>12, Zenon DEF WalInv, TypeOK
    <3>2. synced \in Seq(Nat) /\ Len(synced) = Active
      BY Zenon DEF WalInv, TypeOK, Active
    <3> QED
      BY <3>1, <3>2
  <2>2. CASE i = Active
    <3>1. synced[i] <= Len(segs[Active]) /\ Len(segs[Active]) \in Nat /\ Len(g) \in Nat
      BY <1>1, <2>1, <2>2
    <3>2. segs'[i] = g
      BY <1>4, <2>2, Zenon
    <3> QED
      BY <2>1, <3>1, <3>2
  <2>3. CASE i # Active
    <3>1. i \in 1..(Active - 1)
      BY <1>1, <2>3
    <3> QED
      BY <1>4, <2>1, <3>1, Zenon
  <2> QED
    BY <2>2, <2>3
<1> QED
  BY <1>1, <1>4, <1>5, <1>8, <1>9, <1>10, <1>11, <1>12, <1>13, Zenon

\* bufio.Writer.Write of one frame: what is in the file and in the buffer grows
\* by the frame, however much of the buffer goes to the file.
LEMMA FrameBuffered ==
  ASSUME WalInv, status = "open", NEW r \in Recs, BufferedWrite(Frame(r))
  PROVE  /\ buf' \in Seq(CellsOf(Recs)) /\ Len(buf') <= BufCells
         /\ \E g \in Seq(CellsOf(Recs)) :
               /\ g \o buf' = Stream \o Frame(r)
               /\ Len(segs[Active]) <= Len(g) /\ segs[Active] = SubSeq(g, 1, Len(segs[Active]))
               /\ segs' = [segs EXCEPT ![Active] = g]
<1> DEFINE C == CellsOf(Recs)
           act == segs[Active]
           st == buf \o Frame(r)
<1>1. act \in Seq(C) /\ buf \in Seq(C) /\ Len(buf) <= BufCells /\ segs \in Seq(Seq(C))
  BY OpenFacts, Zenon DEF WalInv, TypeOK, Recs
<1>2. Frame(r) \in Seq(C) /\ Len(Frame(r)) = FrameLen
  BY FrameCells
<1>3. st \in Seq(C) /\ Len(st) = Len(buf) + FrameLen
  BY Zenon, <1>1, <1>2, ConcatElements
<1>4. act \o st = Stream \o Frame(r)
  <2>1. \A x, y, z \in Seq(C) : (x \o y) \o z = x \o (y \o z)
    BY SMTT(30), ConcatAgain
  <2> QED
    BY <1>1, <1>2, <2>1, Zenon DEF Stream
<1>5. /\ BufCells \in Nat /\ FrameLen \in Nat /\ BufCells >= FrameLen
      /\ Len(buf) \in Nat /\ Len(act) \in Nat
  BY <1>1, BufAssumption, FrameLenType
<1>6. \/ Len(st) <= BufCells /\ buf' = st /\ segs' = segs
      \/ /\ ~(Len(st) <= BufCells)
         /\ segs' = [segs EXCEPT ![Active] = act \o SubSeq(st, 1, BufCells)]
         /\ buf' = SubSeq(st, BufCells + 1, Len(st))
  BY Zenon DEF BufferedWrite
<1> HIDE DEF C, act, st
<1>7. CASE Len(st) <= BufCells /\ buf' = st /\ segs' = segs
  <2>1. segs' = [segs EXCEPT ![Active] = act]
    BY <1>1, <1>7 DEF act
  <2>2. Len(act) <= Len(act) /\ act = SubSeq(act, 1, Len(act))
    BY <1>1, <1>5, WholePart
  <2> QED
    BY <1>1, <1>3, <1>4, <1>7, <2>1, <2>2, Zenon DEF act, C
<1>8. CASE /\ ~(Len(st) <= BufCells)
           /\ segs' = [segs EXCEPT ![Active] = act \o SubSeq(st, 1, BufCells)]
           /\ buf' = SubSeq(st, BufCells + 1, Len(st))
  <2>1. BufCells \in 0..Len(st)
    BY <1>3, <1>5, <1>8
  <2>2. ASSUME NEW x \in Seq(C), NEW y \in Seq(C), NEW m \in 0..Len(y)
        PROVE  /\ (x \o SubSeq(y, 1, m)) \o SubSeq(y, m + 1, Len(y)) = x \o y
               /\ x \o SubSeq(y, 1, m) \in Seq(C) /\ SubSeq(y, m + 1, Len(y)) \in Seq(C)
               /\ Len(SubSeq(y, m + 1, Len(y))) = Len(y) - m
               /\ x = SubSeq(x \o SubSeq(y, 1, m), 1, Len(x))
               /\ Len(x) \in 0..Len(x \o SubSeq(y, 1, m))
    BY Zenon, Spilled
  <2> DEFINE g == act \o SubSeq(st, 1, BufCells)
  <2>3. /\ g \in Seq(C) /\ g \o buf' = act \o st /\ buf' \in Seq(C) /\ Len(buf') = Len(st) - BufCells
        /\ act = SubSeq(g, 1, Len(act)) /\ Len(act) \in 0..Len(g)
        /\ segs' = [segs EXCEPT ![Active] = g]
    <3>1. g \in Seq(C) /\ act = SubSeq(g, 1, Len(act)) /\ Len(act) \in 0..Len(g)
      BY <1>1, <1>3, <2>1, <2>2, Zenon
    <3>2. g \o buf' = act \o st
      BY <1>1, <1>3, <1>8, <2>1, <2>2, Zenon
    <3>3. buf' \in Seq(C) /\ Len(buf') = Len(st) - BufCells
      BY <1>1, <1>3, <1>8, <2>1, <2>2, Zenon
    <3> QED
      BY <1>8, <3>1, <3>2, <3>3, Zenon
  <2> HIDE DEF g
  <2>4. Len(buf') <= BufCells
    BY <1>1, <1>3, <1>5, <2>3
  <2>5. Len(act) <= Len(g)
    BY <2>3
  <2> QED
    BY <1>4, <2>3, <2>4, <2>5, Zenon DEF act, C
<1> QED
  BY <1>6, <1>7, <1>8, Zenon

\* Append puts its record behind all earlier ones.
LEMMA AppendStep ==
  ASSUME WalInv, AppendRecord
  PROVE  WalInv' /\ D!Extend
<1>1. /\ status = "open" /\ status' = status /\ synced' = synced /\ kept' = kept
      /\ syncMode' = syncMode /\ next' = next + 1 /\ count' = count + 1
      /\ BufferedWrite(Frame(next)) /\ next <= MaxRecords
  BY Zenon DEF AppendRecord
<1>2. next \in Recs /\ next \in Int /\ Ordered(Written, next) /\ TypeOK /\ MaxRecords \in Nat
  BY <1>1, WalFacts DEF Recs
<1>3. /\ Stream \in Seq(CellsOf(Recs)) /\ Whole(Stream, Len(Decoded(Stream)))
      /\ Len(Stream) = Len(Decoded(Stream)) * FrameLen /\ Decoded(Stream) \in Seq(Recs)
      /\ Earlier \in Seq(Recs) /\ Written = Earlier \o Decoded(Stream) /\ Written \in Seq(Recs)
      /\ count = Len(Written)
  BY Zenon, <1>1, OpenFacts
<1> DEFINE T == Stream \o Frame(next)
           k == Len(Decoded(Stream)) + 1
<1>4. /\ T \in Seq(CellsOf(Recs)) /\ Whole(T, k) /\ Len(T) = k * FrameLen
      /\ Decoded(T) = Append(Decoded(Stream), next)
  BY <1>2, <1>3, FrameAppended
<1>5. k \in Nat /\ Len(Decoded(Stream)) <= k
  BY <1>3
<1>6. /\ buf' \in Seq(CellsOf(Recs)) /\ Len(buf') <= BufCells
      /\ \E g \in Seq(CellsOf(Recs)) :
               /\ g \o buf' = T
               /\ Len(segs[Active]) <= Len(g) /\ segs[Active] = SubSeq(g, 1, Len(segs[Active]))
               /\ segs' = [segs EXCEPT ![Active] = g]
  BY Zenon, <1>1, <1>2, FrameBuffered
<1> HIDE DEF T, k
<1>7. /\ D!Extend
      /\ Segments(segs') /\ Len(synced') = Len(segs')
      /\ \A i \in DOMAIN segs' : synced'[i] <= Len(segs'[i])
      /\ Active' > 0 /\ Whole(Stream', Len(Decoded(Stream')))
      /\ Len(Stream') = Len(Decoded(Stream')) * FrameLen
      /\ \E n \in 0..Len(Decoded(Stream')) :
            synced'[Active'] = n * FrameLen /\ kept' <= Len(Earlier') + n
      /\ Written' = Earlier \o Decoded(T)
      /\ kept' <= Len(Log')
  BY Zenon, <1>1, <1>4, <1>5, <1>6, StreamWritten
<1>8. Written' = Append(Written, next)
  <2>1. Earlier \o Append(Decoded(Stream), next) = Append(Earlier \o Decoded(Stream), next)
    BY <1>2, <1>3, AppendedBehind
  <2> QED
    BY <1>3, <1>4, <1>7, <2>1, Zenon
<1>9. Ordered(Written', next') /\ Written' \in Seq(Recs)
  <2>1. Recs \subseteq Int
    BY DEF Recs
  <2> QED
    BY Zenon, <1>1, <1>2, <1>3, <1>8, <2>1, OrderedAppend
<1>10. count' = Len(Written')
  BY <1>1, <1>3, <1>8
<1>11. /\ next' \in 1..(MaxRecords + 1) /\ count' \in 0..MaxRecords /\ kept' \in 0..count'
  <2>1. /\ next \in 1..(MaxRecords + 1) /\ count \in 0..MaxRecords /\ kept \in 0..count
    BY <1>2, Zenon DEF TypeOK
  <2>2. Len(Written) < next
    BY <1>2, Zenon DEF Ordered
  <2> QED
    BY <1>1, <1>2, <1>3, <2>1, <2>2
<1>12. /\ op' \in [name : {"none", "append", "tick", "rotate", "close"},
                   step : {"free", "flush", "sync", "open"}]
       /\ op'.step \in {"free", "flush"}
  BY DEF AppendRecord, Free
<1>13. TypeOK'
  <2>1. synced' \in Seq(Nat) /\ status' \in {"down", "open", "closed", "failed"} /\ syncMode' \in SyncModes
    BY <1>1, <1>2, Zenon DEF TypeOK
  <2>2. segs' \in Seq(Seq(CellsOf(1..MaxRecords))) /\ buf' \in Seq(CellsOf(1..MaxRecords))
    BY <1>6, <1>7, Zenon DEF Segments, Recs
  <2> QED
    BY <1>6, <1>7, <1>11, <1>12, <2>1, <2>2, Zenon DEF TypeOK
<1>14. /\ \A i \in DOMAIN segs' : Whole(segs'[i], Len(Decoded(segs'[i])))
  BY <1>7, Zenon DEF Segments
<1>15. /\ op'.step # "free" => status' = "open"
       /\ op'.step \in {"sync", "open"} \/ status' # "open" => buf' = << >>
  BY <1>1, <1>12
<1> QED
  BY <1>7, <1>9, <1>10, <1>13, <1>14, <1>15, Zenon DEF WalInv, Ordered

\* What a step that leaves segments and buffer alone leaves alone.
LEMMA SameSegments ==
  ASSUME UNCHANGED <<segs, buf>>
  PROVE  Log' = Log /\ Earlier' = Earlier /\ Stream' = Stream /\ Active' = Active
<1>1. Active' = Active
  BY Zenon DEF Active
<1> QED
  BY <1>1, Zenon DEF Log, Earlier, Stream

\* w.bw.Flush: the buffer becomes the end of the file.
LEMMA FlushStep ==
  ASSUME WalInv, Flush
  PROVE  WalInv' /\ D!Extend
<1>1. /\ op.step = "flush" /\ status' = status /\ synced' = synced /\ kept' = kept
      /\ syncMode' = syncMode /\ next' = next /\ count' = count /\ buf' = << >>
      /\ segs' = [segs EXCEPT ![Active] = Stream] /\ op' = [op EXCEPT !.step = "sync"]
  BY Zenon DEF Flush, Stream
<1>2. status = "open"
  BY <1>1 DEF WalInv
<1>3. Ordered(Written, next) /\ TypeOK
  BY WalFacts
<1>4. /\ segs[Active] \in Seq(CellsOf(Recs)) /\ buf \in Seq(CellsOf(Recs))
      /\ Stream \in Seq(CellsOf(Recs)) /\ Len(Stream) = Len(segs[Active]) + Len(buf)
      /\ segs[Active] = SubSeq(Stream, 1, Len(segs[Active]))
      /\ Whole(Stream, Len(Decoded(Stream)))
      /\ Len(Stream) = Len(Decoded(Stream)) * FrameLen /\ Decoded(Stream) \in Seq(Recs)
      /\ Written = Earlier \o Decoded(Stream) /\ count = Len(Written)
  BY Zenon, <1>2, OpenFacts
<1> DEFINE T == Stream
           k == Len(Decoded(Stream))
<1>5. k \in Nat /\ k <= k /\ Len(segs[Active]) <= Len(T)
  BY <1>4
<1>6. << >> \in Seq(CellsOf(Recs)) /\ Len(<< >>) <= BufCells
  BY BufAssumption
<1>7. T \o << >> = T
  BY <1>4, ConcatEmpty
<1>8. /\ T \in Seq(CellsOf(Recs)) /\ Whole(T, k) /\ Len(T) = k * FrameLen /\ Len(Decoded(Stream)) <= k
      /\ buf' \in Seq(CellsOf(Recs)) /\ T \o buf' = T
      /\ segs[Active] = SubSeq(T, 1, Len(segs[Active]))
      /\ segs' = [segs EXCEPT ![Active] = T]
  BY <1>1, <1>4, <1>5, <1>6, <1>7, Zenon
<1> HIDE DEF T, k
<1>9. /\ D!Extend
      /\ Segments(segs') /\ Len(synced') = Len(segs')
      /\ \A i \in DOMAIN segs' : synced'[i] <= Len(segs'[i])
      /\ Active' > 0 /\ Whole(Stream', Len(Decoded(Stream')))
      /\ Len(Stream') = Len(Decoded(Stream')) * FrameLen
      /\ \E n \in 0..Len(Decoded(Stream')) :
            synced'[Active'] = n * FrameLen /\ kept' <= Len(Earlier') + n
      /\ Written' = Earlier \o Decoded(T)
      /\ kept' <= Len(Log')
  BY Zenon, <1>1, <1>2, <1>5, <1>8, StreamWritten
<1>10. Written' = Written
  BY <1>4, <1>9, Zenon DEF T
<1>11. op'.step = "sync" /\ op' \in [name : {"none", "append", "tick", "rotate", "close"},
                                     step : {"free", "flush", "sync", "open"}]
  BY <1>1, <1>3 DEF TypeOK
<1>12. TypeOK'
  <2>1. /\ synced' \in Seq(Nat) /\ status' \in {"down", "open", "closed", "failed"}
        /\ syncMode' \in SyncModes
        /\ next' \in 1..(MaxRecords + 1) /\ count' \in 0..MaxRecords /\ kept' \in 0..count'
    BY <1>1, <1>3, Zenon DEF TypeOK
  <2>2. segs' \in Seq(Seq(CellsOf(1..MaxRecords))) /\ buf' \in Seq(CellsOf(1..MaxRecords))
        /\ Len(buf') <= BufCells
    BY <1>1, <1>6, <1>8, <1>9, Zenon DEF Segments, Recs
  <2> QED
    BY <1>9, <1>11, <2>1, <2>2, Zenon DEF TypeOK
<1>13. \A i \in DOMAIN segs' : Whole(segs'[i], Len(Decoded(segs'[i])))
  BY <1>9, Zenon DEF Segments
<1> QED
  BY <1>1, <1>2, <1>3, <1>4, <1>9, <1>10, <1>12, <1>13, Zenon DEF WalInv, Ordered

\* w.file.Sync: with an empty buffer every record appended so far is promised.
LEMMA SyncStep ==
  ASSUME WalInv, Sync
  PROVE  WalInv' /\ D!Promise
<1>1. /\ op.step = "sync" /\ UNCHANGED <<syncMode, segs, buf, next, count>>
      /\ synced' = [synced EXCEPT ![Active] = Len(segs[Active])] /\ kept' = count
      /\ status' \in {status, "closed"}
      /\ op' = IF op.name = "rotate" THEN [op EXCEPT !.step = "open"] ELSE Free
  BY Zenon DEF Sync
<1>2. status = "open" /\ buf = << >> /\ (op.name # "close" => status' = "open")
  BY <1>1 DEF WalInv, Sync
<1>3. TypeOK /\ Ordered(Written, next) /\ Log \in Seq(Recs) /\ Active \in Nat
  BY WalFacts
<1>4. /\ Active > 0 /\ segs[Active] \in Seq(CellsOf(Recs))
      /\ Decoded(segs[Active]) \in Seq(Recs) /\ Earlier \in Seq(Recs)
      /\ Log = Earlier \o Decoded(segs[Active]) /\ count = Len(Written)
      /\ Written = Earlier \o Decoded(Stream)
      /\ Len(Stream) = Len(Decoded(Stream)) * FrameLen
      /\ Whole(Stream, Len(Decoded(Stream)))
  BY Zenon, <1>2, OpenFacts
<1>5. Stream = segs[Active] /\ Written = Log
  <2>1. segs[Active] \o << >> = segs[Active]
    BY <1>4, ConcatEmpty
  <2> QED
    BY <1>2, <1>4, <2>1, Zenon DEF Stream
<1>6. Log' = Log /\ Earlier' = Earlier /\ Stream' = Stream /\ Active' = Active
  BY <1>1, SameSegments, Zenon
<1>7. Written' = Written
  <2>1. status' \in {"open", "closed"} /\ status \in {"open", "closed"}
    BY <1>1, <1>2, Zenon
  <2> QED
    BY <1>6, <2>1, Zenon DEF Written
<1>8. /\ kept \in 0..count /\ kept <= Len(Log) /\ count = Len(Log) /\ count \in 0..MaxRecords
      /\ MaxRecords \in Nat
  BY <1>4, <1>5, WalBoundsAssumption, Zenon DEF WalInv, TypeOK
<1>9. D!Promise
  <2>1. kept' \in kept..Len(Log)
    BY <1>1, <1>8
  <2> QED
    BY <1>6, <2>1, Zenon DEF D!Promise
<1>10. /\ synced' \in Seq(Nat) /\ Len(synced') = Len(segs')
       /\ \A i \in DOMAIN segs' : synced'[i] <= Len(segs'[i])
       /\ synced'[Active] = Len(segs[Active])
  <2>1. synced \in Seq(Nat) /\ Len(synced) = Active /\ DOMAIN segs = 1..Active
    BY <1>3 DEF TypeOK, Active
  <2>2. Len(segs[Active]) \in Nat /\ Active \in 1..Active
    BY <1>3, <1>4
  <2>3. /\ synced' \in Seq(Nat) /\ Len(synced') = Active
        /\ \A i \in 1..Active : synced'[i] = IF i = Active THEN Len(segs[Active]) ELSE synced[i]
    BY <1>1, <2>1, <2>2, ExceptElements
  <2>4. Len(segs[Active]) <= Len(segs[Active]) /\ \A i \in 1..Active : synced[i] <= Len(segs[i])
    <3>1. \A i \in 1..Active : synced[i] <= Len(segs[i])
      BY <1>3, <2>1, Zenon DEF TypeOK
    <3> QED
      BY <2>2, <3>1
  <2> QED
    BY <1>1, <2>1, <2>2, <2>3, <2>4, Zenon DEF Active
<1>11. \E n \in 0..Len(Decoded(Stream')) :
          synced'[Active'] = n * FrameLen /\ kept' <= Len(Earlier') + n
  <2> DEFINE m == Len(Decoded(segs[Active]))
  <2>1. m \in 0..m /\ Len(Log) = Len(Earlier) + m /\ Len(Log) <= Len(Log)
    <3>1. Len(Earlier \o Decoded(segs[Active])) = Len(Earlier) + m
      BY <1>4, ConcatElements
    <3> QED
      BY <1>3, <1>4, <3>1
  <2>2. synced'[Active'] = m * FrameLen /\ kept' <= Len(Earlier') + m
    BY <1>1, <1>4, <1>5, <1>6, <1>8, <1>10, <2>1, Zenon
  <2> QED
    BY <1>5, <1>6, <2>1, <2>2, Zenon
<1>12. /\ op' \in [name : {"none", "append", "tick", "rotate", "close"},
                   step : {"free", "flush", "sync", "open"}]
       /\ op'.step \in {"free", "open"} /\ (op'.step = "open" => op.name = "rotate")
  BY Zenon, <1>1, <1>3 DEF TypeOK, Free
<1>13. kept' \in 0..count' /\ kept' <= Len(Log')
  BY <1>1, <1>6, <1>8
<1>14. TypeOK'
  <2>1. status' \in {"down", "open", "closed", "failed"}
    BY <1>1, <1>2, Zenon
  <2> QED
    BY <1>1, <1>3, <1>10, <1>12, <1>13, <2>1, Zenon DEF TypeOK
<1>15. /\ op'.step # "free" => status' = "open"
       /\ op'.step \in {"sync", "open"} \/ status' # "open" => buf' = << >>
  <2>1. op'.step # "free" => op.name = "rotate"
    BY <1>12
  <2>2. op.name = "rotate" => status' = "open"
    BY <1>2
  <2>3. buf' = << >>
    BY <1>1, <1>2, Zenon
  <2> QED
    BY <2>1, <2>2, <2>3, Zenon
<1>16. \A i \in DOMAIN segs' : Whole(segs'[i], Len(Decoded(segs'[i])))
  BY <1>1, Zenon DEF WalInv
<1>17. count' = Len(Written') /\ Active' > 0 /\ Ordered(Written', next')
  BY <1>1, <1>3, <1>4, <1>6, <1>7, Zenon
<1>18. Whole(Stream', Len(Decoded(Stream'))) /\ Len(Stream') = Len(Decoded(Stream')) * FrameLen
  BY <1>4, <1>6, Zenon
<1> QED
  BY <1>9, <1>11, <1>13, <1>14, <1>15, <1>16, <1>17, <1>18, Zenon DEF WalInv, Ordered

\* Taking w.mu, and os.OpenFile failing in Rotate, change only who holds it.
LEMMA HolderStep ==
  ASSUME WalInv, (\E name \in {"tick", "rotate", "close"} : Begin(name)) \/ RotateFails
  PROVE  WalInv' /\ UNCHANGED <<Log, kept>>
<1>1. /\ UNCHANGED <<syncMode, segs, synced, buf, status, next, count, kept>>
      /\ op' \in [name : {"none", "append", "tick", "rotate", "close"},
                  step : {"free", "flush", "sync", "open"}]
      /\ op'.step \in {"free", "flush"} /\ status = "open"
  <2>1. CASE RotateFails
    BY Zenon, <2>1 DEF RotateFails, Free, WalInv
  <2>2. CASE \E name \in {"tick", "rotate", "close"} : Begin(name)
    <3>1. PICK name \in {"tick", "rotate", "close"} : Begin(name)
      BY Zenon, <2>2
    <3>2. /\ UNCHANGED <<syncMode, segs, synced, buf, status, next, count, kept>>
          /\ status = "open" /\ op' = [name |-> name, step |-> "flush"]
      BY Zenon, <3>1 DEF Begin
    <3>3. /\ op' \in [name : {"none", "append", "tick", "rotate", "close"},
                      step : {"free", "flush", "sync", "open"}]
          /\ op'.step = "flush"
      <4>1. op' = [name |-> name, step |-> "flush"]
        BY Zenon, <3>2
      <4> QED
        BY <4>1
    <3> QED
      BY Zenon, <3>2, <3>3
  <2> QED
    BY <2>1, <2>2
<1>2. Log' = Log /\ Earlier' = Earlier /\ Stream' = Stream /\ Active' = Active
  BY <1>1, SameSegments, Zenon
<1>3. Written' = Written
  BY <1>1, <1>2, Zenon DEF Written
<1>4. TypeOK'
  BY <1>1, Zenon DEF WalInv, TypeOK
<1>5. /\ op'.step # "free" => status' = "open"
      /\ op'.step \in {"sync", "open"} \/ status' # "open" => buf' = << >>
  BY <1>1
<1> QED
  BY <1>1, <1>2, <1>3, <1>4, <1>5, Zenon DEF WalInv

\* A new segment behind a log whose buffer is empty.
LEMMA NewSegment ==
  ASSUME WalInv, buf = << >>, UNCHANGED <<syncMode, buf, next>>, status' = "open",
         op' \in [name : {"none", "append", "tick", "rotate", "close"},
                  step : {"free", "flush", "sync", "open"}], op'.step = "free",
         NEW lens \in Seq(Nat), Len(lens) = Active,
         \A i \in 1..Active : lens[i] <= Len(segs[i]),
         NewFile(lens), Written = Log, count' = Len(Log), kept' \in 0..Len(Log)
  PROVE  WalInv' /\ Log' = Log
<1>1. /\ TypeOK /\ Segments(segs) /\ Log = Delivered(segs) /\ Log \in Seq(Recs)
      /\ Ordered(Written, next) /\ Active \in Nat
  BY WalFacts
<1>2. segs' = Append(segs, << >>) /\ synced' = Append(lens, 0)
  BY Zenon DEF NewFile
<1>3. /\ Segments(segs') /\ Len(segs') = Len(segs) + 1 /\ Len(segs') > 0
      /\ segs'[Len(segs')] = << >>
      /\ Delivered(segs') = Delivered(segs) /\ Before(segs') = Delivered(segs)
  BY Zenon, <1>1, <1>2, DeliveredNewFile
<1>4. /\ Active' = Active + 1 /\ Active' > 0 /\ Log' = Log /\ Earlier' = Log
      /\ segs'[Active'] = << >>
  BY <1>1, <1>3, Zenon DEF Active, Log, Delivered, Earlier, Before
<1>5. Stream' = << >>
  <2>1. Stream' = << >> \o << >>
    BY <1>4, Zenon DEF Stream
  <2> QED
    BY <2>1
<1>6. << >> \in Seq(CellsOf(Recs)) /\ Whole(<< >>, 0)
  BY EmptyFile
<1>7. Decoded(<< >>) \in Seq(Recs) /\ Len(Decoded(<< >>)) = 0
  BY Zenon, <1>6, DecodedFrames
<1>8. Decoded(<< >>) = << >>
  BY <1>7
<1>9. 0 * FrameLen = 0 /\ Len(<< >>) = 0
  BY FrameLenType
<1>10. Whole(Stream', Len(Decoded(Stream'))) /\ Len(Stream') = Len(Decoded(Stream')) * FrameLen
  BY <1>5, <1>6, <1>7, <1>9, Zenon
<1>11. Written' = Log
  <2>1. Log \o << >> = Log
    BY <1>1, ConcatEmpty
  <2>2. status' \in {"open", "closed"}
    BY Zenon
  <2> QED
    BY <1>4, <1>5, <1>8, <2>1, <2>2, Zenon DEF Written
<1>12. /\ synced' \in Seq(Nat) /\ Len(synced') = Active + 1
       /\ synced'[Active + 1] = 0 /\ \A i \in 1..Active : synced'[i] = lens[i]
  <2>1. /\ Append(lens, 0) \in Seq(Nat) /\ Len(Append(lens, 0)) = Len(lens) + 1
        /\ \A i \in 1..Len(lens) : Append(lens, 0)[i] = lens[i]
        /\ Append(lens, 0)[Len(lens) + 1] = 0
    BY AppendElements
  <2> QED
    BY <1>2, <2>1, Zenon
<1>13. \A i \in DOMAIN segs' : synced'[i] <= Len(segs'[i])
  <2>1. /\ segs \in Seq(Seq(CellsOf(Recs))) /\ Len(segs) = Active
        /\ segs' \in Seq(Seq(CellsOf(Recs))) /\ Len(segs') = Active + 1
    BY <1>1, <1>3, Zenon DEF Segments, Active
  <2>2. DOMAIN segs' = 1..(Active + 1) /\ \A i \in 1..Active : segs'[i] = segs[i]
    <3>1. DOMAIN segs' = 1..(Active + 1)
      BY Zenon, <2>1, SeqDomain
    <3> DEFINE S == Seq(CellsOf(Recs))
               e == << >>
    <3>2. segs \in Seq(S) /\ e \in S
      BY Zenon, <1>6, <2>1
    <3> HIDE DEF S, e
    <3>3. \A i \in 1..Len(segs) : Append(segs, e)[i] = segs[i]
      BY <3>2, AppendElements
    <3> QED
      BY Zenon, <1>2, <2>1, <3>1, <3>3 DEF e
  <2> SUFFICES ASSUME NEW i \in 1..(Active + 1) PROVE synced'[i] <= Len(segs'[i])
    BY <2>2, Zenon
  <2>3. CASE i \in 1..Active
    BY <1>12, <2>2, <2>3, Zenon
  <2>4. CASE i = Active + 1
    <3>1. synced'[i] = 0 /\ segs'[i] = << >>
      BY <1>4, <1>12, <2>4, Zenon
    <3> QED
      BY <3>1
  <2>5. i \in 1..Active \/ i = Active + 1
    BY <1>1
  <2> QED
    BY <2>3, <2>4, <2>5
<1>14. \E n \in 0..Len(Decoded(Stream')) :
          synced'[Active'] = n * FrameLen /\ kept' <= Len(Earlier') + n
  <2>1. 0 \in 0..0 /\ kept' <= Len(Log) + 0
    BY <1>1
  <2> QED
    BY <1>4, <1>5, <1>7, <1>9, <1>12, <2>1, Zenon
<1>15. /\ count' \in 0..MaxRecords /\ kept' \in 0..count' /\ kept' <= Len(Log') /\ count' = Len(Written')
  <2>1. Len(Log) < next /\ next \in 1..(MaxRecords + 1) /\ MaxRecords \in Nat /\ Len(Log) \in Nat
    <3>1. next \in 1..(MaxRecords + 1) /\ MaxRecords \in Nat /\ Len(Written) < next
      BY Zenon, WalFacts DEF Ordered
    <3>2. Len(Log) \in Nat
      BY Zenon, <1>1, SeqDomain
    <3> QED
      BY Zenon, <3>1, <3>2
  <2>2. count' \in 0..MaxRecords
    BY <2>1
  <2>3. kept' <= Len(Log)
    BY <2>1
  <2> QED
    BY <1>4, <1>11, <2>2, <2>3, Zenon
<1>17. TypeOK'
  <2>1. segs' \in Seq(Seq(CellsOf(1..MaxRecords))) /\ Len(synced') = Len(segs')
    BY <1>3, <1>12, Zenon DEF Segments, Recs, Active
  <2> QED
    BY <1>1, <1>12, <1>13, <1>15, <2>1, Zenon DEF TypeOK
<1>18. \A i \in DOMAIN segs' : Whole(segs'[i], Len(Decoded(segs'[i])))
  BY <1>3, Zenon DEF Segments
<1>19. Ordered(Written', next')
  BY <1>1, <1>11, Zenon
<1>20. op'.step \notin {"sync", "open"}
  OBVIOUS
<1> QED
  BY <1>4, <1>10, <1>14, <1>15, <1>17, <1>18, <1>19, <1>20, Zenon DEF WalInv, Ordered

\* Engine.Open replays the segments and opens a new one; an error of Replay
\* leaves everything as it is.
LEMMA OpenStep ==
  ASSUME WalInv, Open
  PROVE  WalInv' /\ (D!Promise \/ UNCHANGED <<Log, kept>>)
<1>1. /\ status = "down" /\ UNCHANGED <<syncMode, buf, op, next>>
      /\ \/ status' = "failed" /\ UNCHANGED <<segs, synced, count, kept>>
         \/ /\ status' = "open" /\ NewFile([i \in DOMAIN segs |-> Len(segs[i])])
            /\ count' = Len(Log) /\ kept' = Len(Log)
  BY Zenon DEF Open
<1>2. TypeOK /\ Log \in Seq(Recs) /\ Segments(segs) /\ Active \in Nat
  BY WalFacts
<1>3. Written = Log /\ buf = << >> /\ op.step = "free"
  BY <1>1 DEF WalInv, Written
<1>4. CASE status' = "failed" /\ UNCHANGED <<segs, synced, count, kept>>
  <2>1. Log' = Log
    BY <1>1, <1>4, SameSegments, Zenon
  <2>2. Written' = Log
    BY <1>4, <2>1 DEF Written
  <2>3. TypeOK'
    BY <1>1, <1>2, <1>4, Zenon DEF TypeOK
  <2>4. status' \notin {"open", "closed"}
    BY <1>4
  <2> QED
    BY <1>1, <1>3, <1>4, <2>1, <2>2, <2>3, <2>4, Zenon DEF WalInv
<1>5. CASE /\ status' = "open" /\ NewFile([i \in DOMAIN segs |-> Len(segs[i])])
           /\ count' = Len(Log) /\ kept' = Len(Log)
  <2> DEFINE lens == [i \in DOMAIN segs |-> Len(segs[i])]
  <2>1. /\ lens \in Seq(Nat) /\ Len(lens) = Active /\ \A i \in 1..Active : lens[i] <= Len(segs[i])
    <3>1. segs \in Seq(Seq(CellsOf(Recs))) /\ DOMAIN segs = 1..Active
      BY <1>2 DEF Segments, Active
    <3>2. \A i \in 1..Active : Len(segs[i]) \in Nat
      BY <3>1
    <3>3. lens \in [1..Active -> Nat]
      BY <3>1, <3>2, Zenon
    <3>4. lens \in Seq(Nat) /\ Len(lens) = Active
      <4> HIDE DEF lens
      <4> QED
        BY <1>2, <3>3, SeqOfFunction
    <3>5. \A i \in 1..Active : lens[i] = Len(segs[i])
      BY <3>1, Zenon
    <3> QED
      BY <3>2, <3>4, <3>5
  <2>2. /\ op' \in [name : {"none", "append", "tick", "rotate", "close"},
                    step : {"free", "flush", "sync", "open"}]
        /\ op'.step = "free"
    BY <1>1, <1>2, <1>3, Zenon DEF TypeOK
  <2>3. Len(Log) \in 0..Len(Log)
    BY <1>2
  <2>4. WalInv' /\ Log' = Log
    <3>1. /\ UNCHANGED <<syncMode, buf, next>> /\ status' = "open" /\ NewFile(lens)
          /\ count' = Len(Log) /\ kept' \in 0..Len(Log)
      BY <1>1, <1>5, <2>3, Zenon
    <3> HIDE DEF lens
    <3> QED
      BY <1>3, <2>1, <2>2, <3>1, NewSegment
  <2>5. kept' \in kept..Len(Log)
    <3>1. kept <= Len(Log) /\ kept \in 0..count /\ count \in 0..MaxRecords
      BY Zenon DEF WalInv, TypeOK
    <3> QED
      BY <1>2, <1>5, <3>1
  <2>6. D!Promise
    BY <2>4, <2>5, Zenon DEF D!Promise
  <2> QED
    BY <2>4, <2>6
<1> QED
  BY <1>1, <1>4, <1>5, Zenon

\* The end of Rotate leaves the log as it is.
LEMMA RotateStep ==
  ASSUME WalInv, RotateOpen
  PROVE  WalInv' /\ UNCHANGED <<Log, kept>>
<1>1. /\ op.step = "open" /\ op' = Free /\ NewFile(synced)
      /\ UNCHANGED <<syncMode, buf, status, next, count, kept>>
  BY Zenon DEF RotateOpen
<1>2. status = "open" /\ buf = << >>
  BY <1>1 DEF WalInv
<1>3. TypeOK /\ Log \in Seq(Recs) /\ Segments(segs) /\ Active \in Nat
  BY WalFacts
<1>4. /\ segs[Active] \in Seq(CellsOf(Recs)) /\ Log = Earlier \o Decoded(segs[Active])
      /\ Written = Earlier \o Decoded(Stream) /\ count = Len(Written)
  BY Zenon, <1>2, OpenFacts
<1>5. Written = Log
  <2>1. segs[Active] \o << >> = segs[Active]
    BY <1>4, ConcatEmpty
  <2> QED
    BY <1>2, <1>4, <2>1, Zenon DEF Stream
<1>6. /\ synced \in Seq(Nat) /\ Len(synced) = Active /\ \A i \in 1..Active : synced[i] <= Len(segs[i])
  <2>1. DOMAIN segs = 1..Active
    BY <1>3 DEF Segments, Active
  <2> QED
    BY <1>3, <2>1, Zenon DEF TypeOK, Active
<1>7. kept' \in 0..Len(Log) /\ count' = Len(Log)
  <2>1. kept \in 0..count
    BY <1>3, Zenon DEF TypeOK
  <2> QED
    BY <1>1, <1>4, <1>5, <2>1, Zenon
<1>8. UNCHANGED <<syncMode, buf, next>> /\ status' = "open"
  BY <1>1, <1>2, Zenon
<1>9. /\ op' \in [name : {"none", "append", "tick", "rotate", "close"},
                  step : {"free", "flush", "sync", "open"}]
      /\ op'.step = "free"
  BY <1>1 DEF Free
<1>10. WalInv' /\ Log' = Log
  BY <1>1, <1>2, <1>5, <1>6, <1>7, <1>8, <1>9, NewSegment
<1> QED
  BY <1>1, <1>10

\* What is in the files is the beginning of what was written.
LEMMA LogOrdered ==
  ASSUME WalInv
  PROVE  Ordered(Log, next)
<1>1. Ordered(Written, next) /\ next \in Int
  BY WalFacts
<1>2. CASE status \notin {"open", "closed"}
  BY <1>1, <1>2, Zenon DEF Written
<1>3. CASE status \in {"open", "closed"}
  <2> DEFINE f == segs[Active]
             k == Len(f)
             e == Decoded(Stream)
  <2>1. /\ f \in Seq(CellsOf(Recs)) /\ buf \in Seq(CellsOf(Recs)) /\ Stream \in Seq(CellsOf(Recs))
        /\ Len(Stream) = Len(f) + Len(buf) /\ f = SubSeq(Stream, 1, k)
        /\ Whole(Stream, Len(e)) /\ e \in Seq(Recs) /\ Earlier \in Seq(Recs)
        /\ Log = Earlier \o Decoded(f) /\ Written = Earlier \o e /\ Written \in Seq(Recs)
    BY Zenon, <1>3, OpenFacts
  <2>2. k \in 0..Len(Stream)
    BY <2>1
  <2> HIDE DEF f, k, e
  <2>3. \E p \in 0..Len(e) : Decoded(SubSeq(Stream, 1, k)) = SubSeq(Decoded(Stream), 1, p)
    <3>1. Stream \in Seq(CellsOf(Recs)) /\ Whole(Stream, Len(e))
      BY <2>1, Zenon
    <3> QED
      BY <2>2, <3>1, FileCut
  <2>4. PICK p \in 0..Len(e) : Decoded(f) = SubSeq(e, 1, p)
    BY <2>1, <2>3, Zenon DEF e
  <2>5. /\ Earlier \o SubSeq(e, 1, p) = SubSeq(Earlier \o e, 1, Len(Earlier) + p)
        /\ Len(Earlier) + p \in 0..Len(Earlier \o e)
    BY SMTT(60), <2>1, <2>4, PrefixBehind
  <2>6. Log = SubSeq(Written, 1, Len(Earlier) + p) /\ Len(Earlier) + p \in 0..Len(Written)
    BY <2>1, <2>4, <2>5, Zenon
  <2>7. Recs \subseteq Int
    BY DEF Recs
  <2> QED
    BY ZenonT(60), <1>1, <2>1, <2>6, <2>7, OrderedPrefix
<1> QED
  BY <1>2, <1>3, Zenon

\* A crash takes the buffer and, of the file, only what no Sync has covered.
LEMMA CrashStep ==
  ASSUME WalInv, Crash
  PROVE  WalInv' /\ D!Lose
<1>1. /\ status \in {"open", "closed"} /\ buf' = << >> /\ op' = Free /\ status' = "down"
      /\ UNCHANGED <<syncMode, synced, next, count, kept>>
  BY Zenon DEF Crash
<1>2. /\ TypeOK /\ Segments(segs) /\ Log \in Seq(Recs) /\ Active \in Nat /\ Earlier = Before(segs)
      /\ Ordered(Written, next) /\ next \in Int
  BY WalFacts
<1>3. /\ Active > 0 /\ segs[Active] \in Seq(CellsOf(Recs)) /\ buf \in Seq(CellsOf(Recs))
      /\ Decoded(segs[Active]) \in Seq(Recs) /\ Earlier \in Seq(Recs)
      /\ Log = Earlier \o Decoded(segs[Active])
      /\ Stream \in Seq(CellsOf(Recs)) /\ Len(Stream) = Len(segs[Active]) + Len(buf)
      /\ segs[Active] = SubSeq(Stream, 1, Len(segs[Active]))
      /\ Whole(Stream, Len(Decoded(Stream))) /\ Decoded(Stream) \in Seq(Recs)
      /\ Written = Earlier \o Decoded(Stream) /\ Written \in Seq(Recs)
      /\ Whole(segs[Active], Len(Decoded(segs[Active])))
  BY Zenon, <1>1, OpenFacts
<1>4. synced[Active] \in Nat /\ synced[Active] <= Len(segs[Active])
  <2>1. synced \in Seq(Nat) /\ Len(synced) = Active /\ Active \in DOMAIN segs
    <3>1. synced \in Seq(Nat) /\ Len(synced) = Active /\ segs \in Seq(Seq(CellsOf(1..MaxRecords)))
      BY <1>2, Zenon DEF TypeOK, Active
    <3>2. Active = Len(segs) /\ Active \in 1..Active
      BY <1>2, <1>3 DEF Active
    <3>3. DOMAIN segs = 1..Len(segs)
      BY <3>1
    <3> QED
      BY <3>1, <3>2, <3>3, Zenon
  <2>2. synced[Active] <= Len(segs[Active])
    BY <1>2, <2>1, Zenon DEF TypeOK
  <2>3. Active \in 1..Len(synced)
    BY <1>2, <1>3, <2>1
  <2>4. synced[Active] \in Nat
    BY <2>1, <2>3
  <2> QED
    BY <2>2, <2>4, Zenon
<1>5. PICK m : /\ m \in 0..Len(segs[Active]) /\ synced[Active] <= m
               /\ segs' = [segs EXCEPT ![Active] = SubSeq(segs[Active], 1, m)]
  <2>1. PICK m \in IF PowerLoss THEN synced[Active]..Len(segs[Active]) ELSE {Len(segs[Active])} :
           segs' = [segs EXCEPT ![Active] = SubSeq(segs[Active], 1, m)]
    BY Zenon DEF Crash
  <2>2. m \in 0..Len(segs[Active]) /\ synced[Active] <= m
    <3>1. Len(segs[Active]) \in Nat
      BY <1>3
    <3> QED
      BY <1>4, <2>1, <3>1
  <2> QED
    BY <2>1, <2>2, Zenon
<1> DEFINE f == segs[Active]
           g == SubSeq(f, 1, m)
           d == Len(Decoded(f))
<1>6. PICK q \in 0..d : /\ g \in Seq(CellsOf(Recs)) /\ Len(g) = m /\ Whole(g, q)
                        /\ Decoded(g) = SubSeq(Decoded(f), 1, q)
                        /\ \A j \in Nat : j * FrameLen <= m => j <= q
  <2>1. f \in Seq(CellsOf(Recs)) /\ Whole(f, d) /\ m \in 0..Len(f)
    BY <1>3, <1>5, Zenon
  <2> HIDE DEF f, d
  <2> QED
    BY <2>1, FileCut
<1>7. /\ Segments(segs') /\ Active' = Active /\ segs'[Active] = g /\ Len(segs') = Len(segs)
      /\ \A i \in 1..(Active - 1) : segs'[i] = segs[i]
      /\ Log' = Earlier \o Decoded(g)
  <2> DEFINE s == segs'
  <2>1. s = [segs EXCEPT ![Len(segs)] = g] /\ segs \in Seq(Seq(CellsOf(Recs))) /\ Len(segs) > 0
    BY <1>2, <1>3, <1>5, Zenon DEF Segments, Active
  <2>2. /\ s \in Seq(Seq(CellsOf(Recs))) /\ Len(s) = Len(segs) /\ s[Len(segs)] = g
        /\ \A i \in 1..(Len(segs) - 1) : s[i] = segs[i]
    <3> HIDE DEF s, g
    <3> QED
      BY <1>6, <2>1, LastOnly
  <2>3. Segments(s) /\ Delivered(s) = Before(segs) \o Decoded(g)
    <3> HIDE DEF s, g
    <3> QED
      BY Zenon, <1>2, <1>6, <2>1, <2>2, LastSegment
  <2>4. Log' = Delivered(s)
    BY Zenon DEF Log, Delivered
  <2> QED
    BY <1>2, <2>2, <2>3, <2>4, Zenon DEF Active
<1> HIDE DEF f, g, d
<1>8. /\ Log' = SubSeq(Log, 1, Len(Earlier) + q) /\ Len(Earlier) + q \in 0..Len(Log)
  <2> DEFINE e == Decoded(f)
  <2>1. e \in Seq(Recs) /\ Earlier \in Seq(Recs) /\ q \in 0..Len(e) /\ Log = Earlier \o e
        /\ Log' = Earlier \o SubSeq(e, 1, q)
    BY <1>3, <1>6, <1>7, Zenon DEF f, d
  <2> HIDE DEF e
  <2>2. /\ Earlier \o SubSeq(e, 1, q) = SubSeq(Earlier \o e, 1, Len(Earlier) + q)
        /\ Len(Earlier) + q \in 0..Len(Earlier \o e)
    BY <2>1, PrefixBehind
  <2> QED
    BY <2>1, <2>2, Zenon
<1>9. kept \in Nat /\ kept <= Len(Earlier) + q
  <2>1. PICK n \in 0..Len(Decoded(Stream)) : synced[Active] = n * FrameLen /\ kept <= Len(Earlier) + n
    BY <1>1, Zenon DEF WalInv
  <2>2. n \in Nat /\ n * FrameLen <= m
    BY <1>3, <1>5, <2>1
  <2>3. n <= q
    BY <1>6, <2>2, Zenon
  <2>4. kept \in Nat /\ q \in Nat /\ Len(Earlier) \in Nat
    <3>1. kept \in 0..count /\ count \in 0..MaxRecords
      BY <1>2, Zenon DEF TypeOK
    <3>2. Len(Earlier) \in Nat
      BY <1>3
    <3>3. Decoded(f) \in Seq(Recs)
      BY <1>3, Zenon DEF f
    <3>4. d \in Nat
      BY <3>3 DEF d
    <3> QED
      BY <1>6, <3>1, <3>2, <3>4
  <2> QED
    BY <2>1, <2>2, <2>3, <2>4
<1>10. D!Lose
  <2>1. Len(Earlier) + q \in kept..Len(Log)
    BY <1>8, <1>9
  <2> QED
    BY <1>1, <1>8, <2>1, Zenon DEF D!Lose
<1>11. Written' = Log' /\ status' \notin {"open", "closed"} /\ op'.step = "free"
  BY <1>1 DEF Written, Free
<1>12. Ordered(Log', next) /\ Log' \in Seq(Recs) /\ Len(Log') = Len(Earlier) + q
  <2>1. Recs \subseteq Int
    BY DEF Recs
  <2>2. Ordered(Log, next)
    BY LogOrdered
  <2> QED
    BY Zenon, <1>2, <1>8, <2>1, <2>2, OrderedPrefix
<1>13. \A i \in DOMAIN segs' : synced'[i] <= Len(segs'[i])
  <2>1. DOMAIN segs = 1..Active /\ DOMAIN segs' = 1..Active
    <3>1. segs \in Seq(Seq(CellsOf(Recs))) /\ segs' \in Seq(Seq(CellsOf(Recs)))
      BY Zenon, <1>2, <1>7 DEF Segments
    <3>2. DOMAIN segs = 1..Len(segs) /\ DOMAIN segs' = 1..Len(segs')
      BY Zenon, <3>1, SeqDomain
    <3> QED
      BY Zenon, <1>7, <3>2 DEF Active
  <2> SUFFICES ASSUME NEW i \in 1..Active PROVE synced[i] <= Len(segs'[i])
    BY <1>1, <2>1, Zenon
  <2>2. CASE i = Active
    BY <1>5, <1>6, <1>7, <2>2, Zenon
  <2>3. CASE i # Active
    <3>1. i \in 1..(Active - 1)
      BY <1>2, <2>3
    <3> QED
      BY <1>2, <1>7, <2>1, <3>1, Zenon DEF TypeOK
  <2> QED
    BY <2>2, <2>3
<1>14. TypeOK'
  <2>1. segs' \in Seq(Seq(CellsOf(1..MaxRecords))) /\ Len(synced') = Len(segs')
    BY <1>1, <1>2, <1>7, Zenon DEF Segments, Recs, TypeOK
  <2>2. << >> \in Seq(CellsOf(1..MaxRecords)) /\ Len(<< >>) <= BufCells
    BY BufAssumption
  <2>3. op' \in [name : {"none", "append", "tick", "rotate", "close"},
                 step : {"free", "flush", "sync", "open"}]
    BY <1>1 DEF Free
  <2>4. /\ synced' \in Seq(Nat) /\ syncMode' \in SyncModes /\ next' \in 1..(MaxRecords + 1)
        /\ count' \in 0..MaxRecords /\ kept' \in 0..count'
    BY <1>1, <1>2, Zenon DEF TypeOK
  <2>5. status' \in {"down", "open", "closed", "failed"}
    BY <1>1
  <2> QED
    BY <1>1, <1>13, <2>1, <2>2, <2>3, <2>4, <2>5, Zenon DEF TypeOK
<1>15. \A i \in DOMAIN segs' : Whole(segs'[i], Len(Decoded(segs'[i])))
  BY <1>7, Zenon DEF Segments
<1>16. kept' <= Len(Log')
  BY <1>1, <1>9, <1>12, Zenon
<1> QED
  BY <1>1, <1>10, <1>11, <1>12, <1>14, <1>15, <1>16, Zenon DEF WalInv, Ordered

-----------------------------------------------------------------------------
(* The theorems about the WAL *)

\* Every step keeps the invariant and is a step of a durable log, or leaves the
\* log as it is.
LEMMA WalStep ==
  ASSUME WalInv, [Next]_vars
  PROVE  WalInv' /\ [D!Extend \/ D!Promise \/ D!Lose]_<<Log, kept>>
<1>1. CASE Open
  BY <1>1, OpenStep
<1>2. CASE AppendRecord
  BY <1>2, AppendStep
<1>3. CASE \E name \in {"tick", "rotate", "close"} : Begin(name)
  BY <1>3, HolderStep
<1>4. CASE Flush
  BY <1>4, FlushStep
<1>5. CASE Sync
  BY <1>5, SyncStep
<1>6. CASE RotateOpen
  BY <1>6, RotateStep
<1>7. CASE RotateFails
  BY <1>7, HolderStep
<1>8. CASE Crash
  BY <1>8, CrashStep
<1>9. CASE UNCHANGED vars
  <2>1. /\ UNCHANGED <<segs, buf>> /\ UNCHANGED <<syncMode, synced, status, op, next, count, kept>>
    BY <1>9, Zenon DEF vars
  <2>2. Log' = Log /\ Earlier' = Earlier /\ Stream' = Stream /\ Active' = Active
    BY <2>1, SameSegments, Zenon
  <2>3. Written' = Written
    BY <2>1, <2>2, Zenon DEF Written
  <2>4. TypeOK'
    BY <2>1, Zenon DEF WalInv, TypeOK
  <2> QED
    BY <2>1, <2>2, <2>3, <2>4, Zenon DEF WalInv
<1> QED
  BY <1>1, <1>2, <1>3, <1>4, <1>5, <1>6, <1>7, <1>8, <1>9, Zenon DEF Next

\* Without files there is nothing to deliver.
LEMMA WalStart ==
  ASSUME Init
  PROVE  WalInv /\ D!DurableInit
<1>1. /\ syncMode \in SyncModes /\ segs = << >> /\ synced = << >> /\ buf = << >>
      /\ status = "down" /\ op = Free /\ next = 1 /\ count = 0 /\ kept = 0
  BY Zenon DEF Init
<1>2. Segments(segs) /\ Len(segs) = 0
  BY <1>1 DEF Segments
<1>3. Log = << >>
  <2>1. Delivered(segs) = << >>
    BY <1>2, DeliveredTyped
  <2> QED
    BY <2>1, Zenon DEF Log, Delivered
<1>4. Written = << >> /\ status \notin {"open", "closed"}
  BY <1>1, <1>3 DEF Written
<1>5. op \in [name : {"none", "append", "tick", "rotate", "close"},
              step : {"free", "flush", "sync", "open"}] /\ op.step = "free"
  BY <1>1 DEF Free
<1>6. TypeOK
  BY <1>1, <1>5, BufAssumption, WalBoundsAssumption DEF TypeOK
<1>7. Ordered(Written, next) /\ kept <= Len(Log)
  BY <1>1, <1>3, <1>4 DEF Ordered
<1>8. \A i \in DOMAIN segs : Whole(segs[i], Len(Decoded(segs[i])))
  BY <1>2, Zenon DEF Segments
<1> QED
  BY <1>1, <1>3, <1>4, <1>5, <1>6, <1>7, <1>8, Zenon DEF WalInv, Ordered, D!DurableInit

\* What is in the active segment and the buffer is always whole frames, what was
\* synced ends behind one of them and holds what a Sync promised, and the records
\* are in the order of their Append.
THEOREM WalInvariance == Spec => []WalInv
<1>1. Init => WalInv
  BY WalStart
<1>2. WalInv /\ [Next]_vars => WalInv'
  BY WalStep
<1> QED
  BY <1>1, <1>2, PTL DEF Spec

\* Replay delivers the records in the order of their Append and none twice, after
\* any sequence of rotations, failed rotations, crashes and restarts.
THEOREM ReplayInOrderHolds == Spec => []ReplayInOrder
<1>1. WalInv => ReplayInOrder
  BY LogOrdered, Zenon DEF ReplayInOrder, Ordered
<1> QED
  BY <1>1, WalInvariance, PTL

\* The segments, the buffer and the torn tails fit together as declared.
THEOREM TypeOKHolds == Spec => []TypeOK
<1>1. WalInv => TypeOK
  BY Zenon DEF WalInv
<1> QED
  BY <1>1, WalInvariance, PTL

\* The write-ahead log implements a durable log: Append, a spill of the buffer and
\* Flush only extend what a replay delivers, Sync and a restart promise it, and a
\* crash takes nothing that was promised.
THEOREM WalIsDurableLog == Spec => IsDurableLog
<1>1. Init => D!DurableInit
  BY WalStart
<1>2. WalInv /\ [Next]_vars => [D!Extend \/ D!Promise \/ D!Lose]_<<Log, kept>>
  BY WalStep
<1> QED
  BY <1>1, <1>2, WalInvariance, PTL DEF Spec, IsDurableLog, D!DurableSpec

-----------------------------------------------------------------------------
(* The MANIFEST *)

\* What the invariant says of the file, with the lengths named.
LEMMA FileFacts ==
  ASSUME ManifestInv
  PROVE  /\ file \in Seq(CellsOf(Edits)) /\ EditLog \in Seq(Edits)
         /\ Len(EditLog) \in Nat /\ Len(file) \in Nat
         /\ DOMAIN EditLog = 1..Len(EditLog)
         /\ Whole(file, Len(EditLog)) /\ ValidFrames(file) = Len(EditLog)
<1>1. file \in Seq(CellsOf(Edits)) /\ Whole(file, Len(EditLog))
  BY DEF ManifestInv, ManifestTypeOK
<1>2. Decoded(file) \in Seq(Edits) /\ ValidFrames(file) = Len(EditLog)
  BY <1>1, DecodedFrames, FramesCounted
<1> QED
  BY <1>1, <1>2 DEF EditLog

\* A log cut to a prefix that keeps every acknowledged edit is as good as before.
LEMMA PrefixIsOrdered ==
  ASSUME ManifestInv, NEW q \in 0..Len(EditLog), EditLog' = SubSeq(EditLog, 1, q),
         acked' = acked,
         acked \subseteq {EditLog[i].id : i \in 1..q}
  PROVE  /\ AckedEditsReplayed' /\ SeqNumbersEdits'
         /\ DOMAIN EditLog' = 1..q /\ Len(EditLog') = q /\ EditLog' \in Seq(Edits)
         /\ \A i \in 1..q : EditLog'[i] = EditLog[i]
<1>1. EditLog \in Seq(Edits) /\ Len(EditLog) \in Nat /\ DOMAIN EditLog = 1..Len(EditLog)
  BY FileFacts
<1> DEFINE l == SubSeq(EditLog, 1, q)
<1>2. l \in Seq(Edits) /\ Len(l) = q /\ DOMAIN l = 1..q /\ \A i \in 1..q : l[i] = EditLog[i]
  BY <1>1
<1>3. 1..q \subseteq DOMAIN EditLog
  BY <1>1
<1>4. \A i, j \in 1..q : i < j => EditLog[i].Seq <= EditLog[j].Seq /\ EditLog[i].id < EditLog[j].id
  BY <1>3 DEF ManifestInv, SeqNumbersEdits, AckedEditsReplayed
<1>5. \A i, j \in 1..q :
         i # j /\ {EditLog[i].id, EditLog[j].id} \subseteq acked => EditLog[i].Seq # EditLog[j].Seq
  BY <1>3 DEF ManifestInv, SeqNumbersEdits
<1>6. acked \subseteq {e.id : e \in Range(l)}
  <2>1. Range(l) = {EditLog[i] : i \in 1..q}
    BY <1>2, Zenon DEF Range
  <2> QED
    BY <2>1, Zenon
<1> HIDE DEF l
<1>7. EditLog' = l
  BY DEF l
<1>8. \A i, j \in DOMAIN l : i < j => l[i].id < l[j].id
  BY <1>2, <1>4
<1>9. AckedEditsReplayed'
  BY <1>6, <1>7, <1>8, Zenon DEF AckedEditsReplayed
<1>10. /\ \A i, j \in DOMAIN l : i < j => l[i].Seq <= l[j].Seq
       /\ \A i, j \in DOMAIN l :
             i # j /\ {l[i].id, l[j].id} \subseteq acked => l[i].Seq # l[j].Seq
  <2>1. ASSUME NEW i \in 1..q, NEW j \in 1..q, i < j PROVE l[i].Seq <= l[j].Seq
    BY <1>2, <1>4, <2>1, Zenon
  <2>2. ASSUME NEW i \in 1..q, NEW j \in 1..q, i # j, {l[i].id, l[j].id} \subseteq acked
        PROVE  l[i].Seq # l[j].Seq
    <3>1. l[i] = EditLog[i] /\ l[j] = EditLog[j]
      BY <1>2, Zenon
    <3>2. {EditLog[i].id, EditLog[j].id} \subseteq acked
      BY <2>2, <3>1, Zenon
    <3> QED
      BY <1>5, <2>2, <3>1, <3>2, Zenon
  <2> QED
    BY <1>2, <2>1, <2>2, Zenon
<1>11. SeqNumbersEdits'
  BY <1>7, <1>10, Zenon DEF SeqNumbersEdits
<1> QED
  BY <1>2, <1>7, <1>9, <1>11, Zenon

\* Crash: the cut keeps the frames up to the durable length.
LEMMA ManifestCrashStep ==
  ASSUME ManifestInv, ManifestCrash
  PROVE  ManifestInv'
<1>1. /\ file \in Seq(CellsOf(Edits)) /\ EditLog \in Seq(Edits)
      /\ Len(EditLog) \in Nat /\ Len(file) \in Nat /\ DOMAIN EditLog = 1..Len(EditLog)
      /\ Whole(file, Len(EditLog))
  BY FileFacts
<1>2. PICK n \in 0..Len(EditLog) : durable = n * FrameLen /\ acked \subseteq {EditLog[i].id : i \in 1..n}
  BY DEF ManifestInv
<1>3. PICK m \in durable..Len(file) : file' = SubSeq(file, 1, m)
  BY DEF ManifestCrash
<1>4. m \in 0..Len(file) /\ durable \in Nat /\ n \in Nat /\ durable <= m
  BY <1>1, <1>3 DEF ManifestInv, ManifestTypeOK
<1>5. PICK q \in 0..Len(EditLog) :
         /\ file' \in Seq(CellsOf(Edits)) /\ Len(file') = m
         /\ Whole(file', q)
         /\ Decoded(file') = SubSeq(Decoded(file), 1, q)
         /\ \A j \in Nat : j * FrameLen <= m => j <= q
  BY Zenon, <1>1, <1>3, <1>4, FileCut
<1>6. n <= q
  BY <1>2, <1>4, <1>5
<1>7. acked \subseteq {EditLog[i].id : i \in 1..q} /\ n \in 0..q
  BY <1>1, <1>2, <1>4, <1>6
<1>8. /\ EditLog' = SubSeq(EditLog, 1, q) /\ acked' = acked
      /\ UNCHANGED <<durable, nextEdit, faults>> /\ seq' = 0 /\ stage' = "down"
  BY <1>5 DEF EditLog, ManifestCrash
<1>9. /\ AckedEditsReplayed' /\ SeqNumbersEdits'
      /\ DOMAIN EditLog' = 1..q /\ Len(EditLog') = q /\ EditLog' \in Seq(Edits)
      /\ \A i \in 1..q : EditLog'[i] = EditLog[i]
  BY <1>7, <1>8, PrefixIsOrdered
<1>10. ManifestTypeOK'
  <2>1. file' \in Seq(CellsOf(Edits)) /\ durable' \in 0..Len(file')
    BY <1>4, <1>5, <1>8
  <2>2. ManifestTypeOK
    BY DEF ManifestInv
  <2>3. 0 \in 0..MaxEdits
    BY ManifestBoundsAssumption
  <2> QED
    BY <1>8, <2>1, <2>2, <2>3, Zenon DEF ManifestTypeOK
<1>11. \A i \in 1..q : EditLog[i].id < nextEdit /\ EditLog[i].Seq <= EditLog[i].id
  BY <1>1 DEF ManifestInv
<1>12. 0 < nextEdit
  BY DEF ManifestInv, ManifestTypeOK
<1>13. \E k \in 0..q : durable = k * FrameLen /\ acked \subseteq {EditLog'[i].id : i \in 1..k}
  <2>1. \A i \in 1..n : EditLog'[i] = EditLog[i]
    BY <1>1, <1>7, <1>9
  <2> QED
    BY <1>2, <1>7, <2>1
<1> QED
  BY <1>5, <1>8, <1>9, <1>10, <1>11, <1>12, <1>13, Zenon DEF ManifestInv

\* The number Replay restores: that of the last edit, which is the largest.
LEMMA RestoredSeq ==
  ASSUME ManifestInv
  PROVE  \A top : top = (CHOOSE s \in {0} \cup {e.Seq : e \in Range(EditLog)} :
                            \A e \in Range(EditLog) : e.Seq <= s) =>
            /\ top \in 0..MaxEdits /\ top < nextEdit
            /\ \A i \in DOMAIN EditLog : EditLog[i].Seq <= top
<1>1. EditLog \in Seq(Edits) /\ Len(EditLog) \in Nat /\ DOMAIN EditLog = 1..Len(EditLog)
  BY FileFacts
<1>0. nextEdit \in Nat /\ nextEdit >= 1
  <2>1. nextEdit \in 1..(MaxEdits + 1)
    BY DEF ManifestInv, ManifestTypeOK
  <2> QED
    BY <2>1, ManifestBoundsAssumption
<1> DEFINE T == {0} \cup {e.Seq : e \in Range(EditLog)}
           Q(s) == \A e \in Range(EditLog) : e.Seq <= s
<1>2. Range(EditLog) = {EditLog[i] : i \in 1..Len(EditLog)}
  BY <1>1, Zenon DEF Range
<1>3. \E s \in T : Q(s)
  <2>1. CASE Len(EditLog) = 0
    <3>1. 1..0 = {}
      OBVIOUS
    <3> QED
      BY <1>2, <2>1, <3>1
  <2>2. CASE Len(EditLog) > 0
    <3>1. Len(EditLog) \in 1..Len(EditLog)
      BY <1>1, <2>2
    <3>2. \A i \in 1..Len(EditLog) : EditLog[i].Seq <= EditLog[Len(EditLog)].Seq
      <4> TAKE i \in 1..Len(EditLog)
      <4>1. CASE i = Len(EditLog)
        <5>1. EditLog[i] \in Edits
          BY <1>1
        <5> QED
          BY <4>1, <5>1 DEF Edits
      <4>2. CASE i < Len(EditLog)
        BY <1>1, <3>1, <4>2 DEF ManifestInv, SeqNumbersEdits
      <4>3. i = Len(EditLog) \/ i < Len(EditLog)
        <5>1. Len(EditLog) \in Nat
          BY <1>1, Zenon
        <5> HIDE DEF T, Q
        <5> QED
          BY <5>1
      <4> QED
        BY <4>1, <4>2, <4>3, Zenon
    <3>3. EditLog[Len(EditLog)].Seq \in T /\ Q(EditLog[Len(EditLog)].Seq)
      BY <1>2, <3>1, <3>2, Zenon
    <3> QED
      BY <3>3, Zenon
  <2> QED
    BY <1>1, <2>1, <2>2
<1>4. SUFFICES ASSUME NEW top \in T, Q(top)
               PROVE  /\ top \in 0..MaxEdits /\ top < nextEdit
                      /\ \A i \in DOMAIN EditLog : EditLog[i].Seq <= top
  <2>1. \A top : top = (CHOOSE s \in T : Q(s)) => top \in T /\ Q(top)
    <3> HIDE DEF T, Q
    <3> QED
      BY <1>3, Zenon
  <2> QED
    BY <2>1, Zenon
<1>5. top = 0 \/ \E i \in 1..Len(EditLog) : top = EditLog[i].Seq
  BY <1>2, <1>4, Zenon
<1>6. ASSUME NEW i \in 1..Len(EditLog), top = EditLog[i].Seq PROVE top \in 0..MaxEdits /\ top < nextEdit
  <2>1. EditLog[i] \in Edits /\ EditLog[i].id < nextEdit /\ EditLog[i].Seq <= EditLog[i].id
    BY <1>1 DEF ManifestInv
  <2>2. EditLog[i].Seq \in 1..MaxEdits /\ EditLog[i].id \in 1..MaxEdits
    BY <2>1 DEF Edits
  <2> DEFINE a == EditLog[i].Seq
             b == EditLog[i].id
  <2>3. a \in 1..MaxEdits /\ b \in 1..MaxEdits /\ b < nextEdit /\ a <= b
    BY <2>1, <2>2, Zenon
  <2> HIDE DEF a, b
  <2>4. a \in 0..MaxEdits /\ a < nextEdit
    BY <1>0, <2>3, ManifestBoundsAssumption
  <2> QED
    BY <1>6, <2>4, Zenon DEF a
<1>7. 0 \in 0..MaxEdits /\ 0 < nextEdit
  BY <1>0, ManifestBoundsAssumption
<1>8. \A i \in DOMAIN EditLog : EditLog[i].Seq <= top
  BY <1>1, <1>2, <1>4, Zenon
<1> QED
  BY <1>5, <1>6, <1>7, <1>8, Zenon

\* A step that changes neither the log nor what is acknowledged.
LEMMA SameLog ==
  ASSUME ManifestInv, EditLog' = EditLog, UNCHANGED <<durable, nextEdit, acked>>
  PROVE  /\ AckedEditsReplayed' /\ SeqNumbersEdits'
         /\ \E n \in 0..Len(EditLog') :
               durable' = n * FrameLen /\ acked' \subseteq {EditLog'[i].id : i \in 1..n}
         /\ \A i \in DOMAIN EditLog' : EditLog'[i].id < nextEdit' /\ EditLog'[i].Seq <= EditLog'[i].id
<1>1. /\ AckedEditsReplayed /\ SeqNumbersEdits
      /\ \E n \in 0..Len(EditLog) :
            durable = n * FrameLen /\ acked \subseteq {EditLog[i].id : i \in 1..n}
      /\ \A i \in DOMAIN EditLog : EditLog[i].id < nextEdit /\ EditLog[i].Seq <= EditLog[i].id
  BY Zenon DEF ManifestInv
<1>2. durable' = durable /\ nextEdit' = nextEdit /\ acked' = acked
  OBVIOUS
<1>3. AckedEditsReplayed' /\ SeqNumbersEdits'
  <2>1. AckedEditsReplayed'
    BY <1>1, <1>2, Zenon DEF AckedEditsReplayed
  <2>2. SeqNumbersEdits'
    <3>1. SeqNumbersEdits /\ acked' = acked /\ EditLog' = EditLog
      BY <1>1, <1>2, Zenon
    <3> QED
      BY <3>1, SMT DEF SeqNumbersEdits
  <2> QED
    BY <2>1, <2>2
<1>4. /\ \E n \in 0..Len(EditLog') :
            durable' = n * FrameLen /\ acked' \subseteq {EditLog'[i].id : i \in 1..n}
      /\ \A i \in DOMAIN EditLog' : EditLog'[i].id < nextEdit' /\ EditLog'[i].Seq <= EditLog'[i].id
  BY SMTT(30), <1>1, <1>2
<1> QED
  BY <1>3, <1>4, Zenon

\* Replay: the torn tail goes and the numbering is restored.
LEMMA ReplayStep ==
  ASSUME ManifestInv, Replay
  PROVE  ManifestInv'
<1>1. /\ file \in Seq(CellsOf(Edits)) /\ EditLog \in Seq(Edits)
      /\ Len(EditLog) \in Nat /\ Len(file) \in Nat /\ DOMAIN EditLog = 1..Len(EditLog)
      /\ Whole(file, Len(EditLog)) /\ ValidFrames(file) = Len(EditLog)
  BY FileFacts
<1>2. ManifestTypeOK /\ stage = "down" /\ UNCHANGED <<durable, nextEdit, faults, acked>>
  BY DEF ManifestInv, Replay
<1>3. CASE ReplayFails(file)
  <2>1. UNCHANGED <<file, seq>> /\ stage' = "failed" /\ EditLog' = EditLog
    BY <1>3, Zenon DEF Replay, EditLog
  <2>2. ManifestTypeOK'
    BY <1>2, <2>1, Zenon DEF ManifestTypeOK
  <2> QED
    BY <1>2, <2>1, <2>2, SameLog, Zenon DEF ManifestInv
<1>4. CASE ~ReplayFails(file)
  <2>1. /\ stage' = "open" /\ file' = SubSeq(file, 1, ValidBytes(file))
        /\ seq' = CHOOSE s \in {0} \cup {e.Seq : e \in Range(EditLog)} :
                     \A e \in Range(EditLog) : e.Seq <= s
    BY <1>4 DEF Replay
  <2>2. seq' \in 0..MaxEdits /\ seq' < nextEdit /\ \A i \in DOMAIN EditLog : EditLog[i].Seq <= seq'
    BY Zenon, <2>1, RestoredSeq
  <2> DEFINE m == Len(EditLog) * FrameLen
  <2>3. m \in 0..Len(file) /\ ValidBytes(file) = m
    BY <1>1, Multiples DEF Whole, ValidBytes
  <2>0. file' = SubSeq(file, 1, m)
    BY <2>1, <2>3
  <2> HIDE DEF m
  <2>4. PICK q \in 0..Len(EditLog) :
           /\ file' \in Seq(CellsOf(Edits)) /\ Len(file') = m
           /\ Whole(file', q)
           /\ Decoded(file') = SubSeq(Decoded(file), 1, q)
           /\ \A j \in Nat : j * FrameLen <= m => j <= q
    BY Zenon, <1>1, <2>0, <2>3, FileCut
  <2>5. q = Len(EditLog)
    <3>1. Len(EditLog) <= q
      <4>1. Len(EditLog) * FrameLen <= m
        BY <2>3 DEF m
      <4> QED
        BY <1>1, <2>4, <4>1
    <3>2. Len(EditLog) \in Nat /\ q <= Len(EditLog) /\ q \in Nat
      BY <1>1
    <3> HIDE DEF EditLog
    <3> QED
      BY <3>1, <3>2
  <2>6. EditLog' = EditLog
    BY <1>1, <2>4, <2>5, WholePart DEF EditLog
  <2>7. PICK n \in 0..Len(EditLog) : durable = n * FrameLen /\ acked \subseteq {EditLog[i].id : i \in 1..n}
    BY DEF ManifestInv
  <2>8. durable \in 0..m
    <3>1. n \in Nat /\ n <= Len(EditLog)
      BY <1>1
    <3> QED
      BY <1>1, <2>7, <3>1, Multiples DEF m
  <2>9. ManifestTypeOK'
    <3>1. file' \in Seq(CellsOf(Edits)) /\ durable' \in 0..Len(file')
      BY <1>2, <2>4, <2>8
    <3> QED
      BY <1>2, <2>1, <2>2, <3>1, Zenon DEF ManifestTypeOK
  <2>10. Whole(file', Len(EditLog')) /\ Len(file') = Len(EditLog') * FrameLen
    BY <2>4, <2>5, <2>6 DEF m
  <2>11. \A i \in DOMAIN EditLog : EditLog[i].Seq <= seq' + 1
    <3> TAKE i \in DOMAIN EditLog
    <3>1. EditLog[i] \in Edits
      BY <1>1
    <3>2. EditLog[i].Seq \in Int
      BY <3>1 DEF Edits
    <3> QED
      BY <2>2, <3>2
  <2>12. /\ AckedEditsReplayed' /\ SeqNumbersEdits'
         /\ \E k \in 0..Len(EditLog') :
               durable' = k * FrameLen /\ acked' \subseteq {EditLog'[i].id : i \in 1..k}
         /\ \A i \in DOMAIN EditLog' : EditLog'[i].id < nextEdit' /\ EditLog'[i].Seq <= EditLog'[i].id
    BY <1>2, <2>6, SameLog
  <2> QED
    BY <1>2, <2>1, <2>2, <2>6, <2>9, <2>10, <2>11, <2>12, Zenon DEF ManifestInv
<1> QED
  BY <1>3, <1>4

\* The write of Append: the new edit has the largest number so far or repeats that
\* of an edit that was not acknowledged.
LEMMA WriteStep ==
  ASSUME ManifestInv, AppendWrite
  PROVE  ManifestInv'
<1> DEFINE e == [id |-> nextEdit, Seq |-> seq + 1]
           n == Len(EditLog)
<1>1. /\ file \in Seq(CellsOf(Edits)) /\ EditLog \in Seq(Edits)
      /\ n \in Nat /\ Len(file) \in Nat /\ DOMAIN EditLog = 1..n
      /\ Whole(file, n)
  BY FileFacts
<1>2. /\ ManifestTypeOK /\ stage = "open" /\ UNCHANGED <<durable, seq, faults, acked>>
      /\ nextEdit <= MaxEdits /\ nextEdit' = nextEdit + 1 /\ stage' = "writing"
      /\ file' = file \o Frame(e)
  BY DEF ManifestInv, AppendWrite
<1>3. nextEdit \in 1..(MaxEdits + 1) /\ seq \in 0..MaxEdits /\ seq < nextEdit
  BY DEF ManifestInv, ManifestTypeOK
<1>4. e \in Edits
  BY <1>2, <1>3, ManifestBoundsAssumption DEF Edits
<1>5. Len(file) = n * FrameLen
  BY <1>2 DEF ManifestInv
<1> HIDE DEF e
<1>6. /\ file' \in Seq(CellsOf(Edits)) /\ Whole(file', n + 1)
      /\ Len(file') = (n + 1) * FrameLen /\ EditLog' = Append(EditLog, e)
  BY <1>1, <1>2, <1>4, <1>5, FrameAppended DEF EditLog
<1>7. /\ EditLog' \in Seq(Edits) /\ Len(EditLog') = n + 1 /\ DOMAIN EditLog' = 1..(n + 1)
      /\ \A i \in 1..n : EditLog'[i] = EditLog[i]
      /\ EditLog'[n + 1] = e
  BY <1>1, <1>4, <1>6, AppendElements
<1>8. e.id = nextEdit /\ e.Seq = seq + 1
  BY DEF e
<1>9. \A i \in 1..n : /\ EditLog[i].id < nextEdit /\ EditLog[i].Seq <= EditLog[i].id
                      /\ EditLog[i].Seq <= seq + 1
                      /\ EditLog[i].id \in acked => EditLog[i].Seq <= seq
                      /\ EditLog[i].id \in Int /\ EditLog[i].Seq \in Int
  <2>1. \A i \in 1..n : /\ EditLog[i].id < nextEdit /\ EditLog[i].Seq <= EditLog[i].id
                        /\ EditLog[i].Seq <= seq + 1
                        /\ EditLog[i].id \in acked => EditLog[i].Seq <= seq
    BY <1>1, <1>2, Zenon DEF ManifestInv
  <2>2. \A i \in 1..n : EditLog[i] \in Edits
    BY <1>1
  <2> QED
    BY <2>1, <2>2 DEF Edits
<1>10. PICK d \in 0..n : durable = d * FrameLen /\ acked \subseteq {EditLog[i].id : i \in 1..d}
  BY DEF ManifestInv
<1>11. nextEdit \notin acked
  <2>1. ASSUME nextEdit \in acked PROVE FALSE
    <3>1. PICK i \in 1..d : nextEdit = EditLog[i].id
      BY <1>10, <2>1
    <3>2. i \in 1..n
      BY <1>1
    <3>3. EditLog[i].id < nextEdit /\ nextEdit \in Int
      BY <1>3, <1>9, <3>2, ManifestBoundsAssumption
    <3> QED
      BY <3>1, <3>3
  <2> QED
    BY <2>1
<1> DEFINE l == EditLog'
<1> HIDE DEF n, l
<1>12. n \in Nat /\ l \in Seq(Edits) /\ Len(l) = n + 1 /\ DOMAIN l = 1..(n + 1)
  BY <1>1, <1>7, Zenon DEF l
<1>13. \A i \in 1..n : l[i] = EditLog[i]
  BY <1>7, Zenon DEF l
<1>14. l[n + 1].id = nextEdit /\ l[n + 1].Seq = seq + 1
  BY <1>7, <1>8, Zenon DEF l
<1>15. \A i, j \in 1..n : i < j => EditLog[i].Seq <= EditLog[j].Seq /\ EditLog[i].id < EditLog[j].id
  BY <1>1, Zenon DEF ManifestInv, SeqNumbersEdits, AckedEditsReplayed
<1>16. \A i, j \in 1..n :
          i # j /\ EditLog[i].id \in acked /\ EditLog[j].id \in acked => EditLog[i].Seq # EditLog[j].Seq
  BY Zenon, <1>1 DEF ManifestInv, SeqNumbersEdits
<1>17. \A i \in 1..(n + 1) : i \in 1..n \/ i = n + 1
  BY <1>12
<1>18. ASSUME NEW i \in 1..(n + 1), NEW j \in 1..(n + 1), i < j
       PROVE  l[i].Seq <= l[j].Seq /\ l[i].id < l[j].id
  <2>1. i \in 1..n
    BY <1>12, <1>18
  <2>2. CASE j \in 1..n
    BY <1>13, <1>15, <1>18, <2>1, <2>2, Zenon
  <2>3. CASE j = n + 1
    BY <1>9, <1>13, <1>14, <2>1, <2>3, Zenon
  <2> QED
    BY <1>17, <2>2, <2>3, Zenon
<1>19. ASSUME NEW i \in 1..(n + 1), NEW j \in 1..(n + 1), i # j,
              l[i].id \in acked, l[j].id \in acked
       PROVE  l[i].Seq # l[j].Seq
  <2>1. i \in 1..n /\ j \in 1..n
    BY <1>11, <1>14, <1>17, <1>19, Zenon
  <2> QED
    BY <1>13, <1>16, <1>19, <2>1, Zenon
<1>20. SeqNumbersEdits'
  <2>1. /\ \A i, j \in DOMAIN l : i < j => l[i].Seq <= l[j].Seq
        /\ \A i, j \in DOMAIN l :
              i # j /\ {l[i].id, l[j].id} \subseteq acked => l[i].Seq # l[j].Seq
    BY <1>12, <1>18, <1>19
  <2> QED
    BY <1>2, <2>1 DEF SeqNumbersEdits, l
<1>21. \A i \in 1..d : l[i] = EditLog[i] /\ i \in 1..(n + 1)
  BY <1>12, <1>13
<1>22. acked \subseteq {l[i].id : i \in 1..d}
  BY <1>10, <1>21
<1>23. AckedEditsReplayed'
  <2>1. \A i, j \in DOMAIN l : i < j => l[i].id < l[j].id
    BY <1>12, <1>18
  <2>2. acked \subseteq {x.id : x \in Range(l)}
    BY <1>12, <1>21, <1>22, Zenon DEF Range
  <2> QED
    BY <1>2, <2>1, <2>2 DEF AckedEditsReplayed, l
<1>24. \A i \in DOMAIN l :
          /\ l[i].id < nextEdit' /\ l[i].Seq <= l[i].id
          /\ l[i].Seq <= seq + 1 /\ (l[i].id \in acked => l[i].Seq <= seq)
  <2> SUFFICES ASSUME NEW i \in 1..(n + 1)
               PROVE  /\ l[i].id < nextEdit + 1 /\ l[i].Seq <= l[i].id
                      /\ l[i].Seq <= seq + 1 /\ (l[i].id \in acked => l[i].Seq <= seq)
    BY <1>2, <1>12, Zenon
  <2>1. CASE i \in 1..n
    <3>1. l[i] = EditLog[i] /\ nextEdit \in Int
      BY <1>3, <1>13, <2>1, ManifestBoundsAssumption
    <3> QED
      BY <1>9, <2>1, <3>1
  <2>2. CASE i = n + 1
    BY <1>3, <1>11, <1>14, <2>2, ManifestBoundsAssumption
  <2> QED
    BY <1>17, <2>1, <2>2, Zenon
<1>25. ManifestTypeOK'
  <2>1. file' \in Seq(CellsOf(Edits))
    BY <1>6
  <2>2. durable \in 0..Len(file)
    BY <1>2 DEF ManifestTypeOK
  <2>3. durable \in 0..Len(file')
    BY <1>1, <1>4, <2>2, FrameCells, <1>2, ConcatElements
  <2>4. nextEdit' \in 1..(MaxEdits + 1)
    BY <1>2, <1>3, ManifestBoundsAssumption
  <2> QED
    BY <1>2, <2>1, <2>3, <2>4, Zenon DEF ManifestTypeOK
<1>26. l[Len(l)] = [id |-> nextEdit' - 1, Seq |-> seq + 1] /\ Len(l) > 0
  <2>1. nextEdit' - 1 = nextEdit
    BY <1>2, <1>3, ManifestBoundsAssumption
  <2>2. l[n + 1] = [id |-> nextEdit, Seq |-> seq + 1]
    BY <1>7, Zenon DEF l, e
  <2> QED
    BY <1>12, <2>1, <2>2
<1>27. seq < nextEdit' /\ seq + 1 < nextEdit'
  BY <1>2, <1>3, ManifestBoundsAssumption
<1>28. \E k \in 0..Len(l) : durable = k * FrameLen /\ acked \subseteq {l[i].id : i \in 1..k}
  <2>1. d \in 0..Len(l)
    BY <1>12
  <2> QED
    BY <1>10, <1>22, <2>1, Zenon
<1>29. Whole(file', Len(l)) /\ Len(file') = Len(l) * FrameLen
  BY <1>6, <1>12, Zenon
<1> QED
  BY <1>2, <1>20, <1>23, <1>24, <1>25, <1>26, <1>27, <1>28, <1>29, Zenon DEF ManifestInv, l

\* The fsync of Append: the last edit of the file is acknowledged, with a number
\* that no acknowledged edit has.
LEMMA EditSyncStep ==
  ASSUME ManifestInv, AppendSync
  PROVE  ManifestInv'
<1> DEFINE n == Len(EditLog)
<1>1. /\ EditLog \in Seq(Edits) /\ n \in Nat /\ Len(file) \in Nat
      /\ DOMAIN EditLog = 1..n /\ Whole(file, n)
  BY FileFacts
<1>2. /\ ManifestTypeOK /\ stage = "writing" /\ UNCHANGED <<file, nextEdit, faults>>
      /\ durable' = Len(file) /\ seq' = seq + 1 /\ stage' = "open"
      /\ acked' = acked \cup {nextEdit - 1}
  BY Zenon DEF ManifestInv, AppendSync
<1>3. EditLog' = EditLog
  BY <1>2 DEF EditLog
<1>4. /\ n > 0 /\ EditLog[n] = [id |-> nextEdit - 1, Seq |-> seq + 1] /\ seq + 1 < nextEdit
      /\ Len(file) = n * FrameLen
  BY <1>2 DEF ManifestInv
<1>5. nextEdit \in 1..(MaxEdits + 1) /\ seq \in 0..MaxEdits
  BY DEF ManifestInv, ManifestTypeOK
<1>6. EditLog[n].id = nextEdit - 1 /\ EditLog[n].Seq = seq + 1
  BY <1>4
<1>7. \A i \in 1..n : /\ EditLog[i].id < nextEdit /\ EditLog[i].Seq <= EditLog[i].id
                      /\ EditLog[i].Seq <= seq + 1
                      /\ EditLog[i].id \in acked => EditLog[i].Seq <= seq
                      /\ EditLog[i].id \in Int /\ EditLog[i].Seq \in Int
  <2>1. \A i \in 1..n : /\ EditLog[i].id < nextEdit /\ EditLog[i].Seq <= EditLog[i].id
                        /\ EditLog[i].Seq <= seq + 1
                        /\ EditLog[i].id \in acked => EditLog[i].Seq <= seq
    BY <1>1, <1>2, Zenon DEF ManifestInv
  <2>2. \A i \in 1..n : EditLog[i] \in Edits
    BY <1>1
  <2> QED
    BY <2>1, <2>2 DEF Edits
<1>8. \A i, j \in 1..n : i < j => EditLog[i].Seq <= EditLog[j].Seq /\ EditLog[i].id < EditLog[j].id
  BY <1>1, Zenon DEF ManifestInv, SeqNumbersEdits, AckedEditsReplayed
<1>9. \A i, j \in 1..n :
         i # j /\ EditLog[i].id \in acked /\ EditLog[j].id \in acked => EditLog[i].Seq # EditLog[j].Seq
  BY Zenon, <1>1 DEF ManifestInv, SeqNumbersEdits
<1>10. acked \subseteq {EditLog[i].id : i \in 1..n}
  <2>1. PICK d \in 0..n : acked \subseteq {EditLog[i].id : i \in 1..d}
    BY DEF ManifestInv
  <2>2. 1..d \subseteq 1..n
    BY <1>1
  <2> QED
    BY <2>1, <2>2
<1> HIDE DEF n
<1>11. n \in 1..n
  BY <1>1, <1>4
<1>12. \A i \in 1..n : EditLog[i].id = nextEdit - 1 => i = n
  <2> SUFFICES ASSUME NEW i \in 1..n, i # n, EditLog[i].id = nextEdit - 1 PROVE FALSE
    OBVIOUS
  <2>1. i < n
    BY <1>1
  <2>2. EditLog[i].id < EditLog[n].id /\ EditLog[i].id \in Int
    BY <1>7, <1>8, <1>11, <2>1, Zenon
  <2> QED
    BY <1>6, <2>2
<1>13. ASSUME NEW i \in 1..n, NEW j \in 1..n, i # j,
              EditLog[i].id \in acked', EditLog[j].id \in acked'
       PROVE  EditLog[i].Seq # EditLog[j].Seq
  <2>1. \A k \in 1..n : EditLog[k].id \in acked' => EditLog[k].id \in acked \/ k = n
    BY <1>2, <1>12
  <2>2. CASE EditLog[i].id \in acked /\ EditLog[j].id \in acked
    BY <1>9, <1>13, <2>2, Zenon
  <2>3. \A k \in 1..n : EditLog[k].id \in acked => EditLog[k].Seq <= seq /\ EditLog[k].Seq \in Int
    BY <1>7, Zenon
  <2>4. \A k \in 1..n : EditLog[k].id \in acked => EditLog[k].Seq # seq + 1
    BY <1>5, <2>3, ManifestBoundsAssumption
  <2> QED
    BY <1>6, <1>13, <2>1, <2>2, <2>4, Zenon
<1>14. SeqNumbersEdits'
  <2>1. /\ \A i, j \in DOMAIN EditLog : i < j => EditLog[i].Seq <= EditLog[j].Seq
        /\ \A i, j \in DOMAIN EditLog :
              i # j /\ {EditLog[i].id, EditLog[j].id} \subseteq acked' => EditLog[i].Seq # EditLog[j].Seq
    BY <1>1, <1>8, <1>13
  <2> QED
    BY <1>3, <2>1, SMT DEF SeqNumbersEdits
<1>15. acked' \subseteq {EditLog[i].id : i \in 1..n}
  BY <1>2, <1>6, <1>10, <1>11
<1>16. AckedEditsReplayed'
  <2>1. \A i, j \in DOMAIN EditLog : i < j => EditLog[i].id < EditLog[j].id
    BY <1>1, <1>8, Zenon
  <2>2. acked' \subseteq {x.id : x \in Range(EditLog)}
    BY <1>1, <1>15, Zenon DEF Range
  <2> QED
    BY <1>3, <2>1, <2>2 DEF AckedEditsReplayed
<1>17. seq' < nextEdit' /\ seq' \in 0..MaxEdits /\ nextEdit - 1 \in 1..MaxEdits
  BY <1>2, <1>4, <1>5, ManifestBoundsAssumption
<1>18. ManifestTypeOK'
  <2>1. Len(file) \in 0..Len(file)
    BY <1>1
  <2>2. acked' \subseteq 1..MaxEdits
    BY <1>2, <1>17 DEF ManifestTypeOK
  <2> QED
    BY <1>2, <1>17, <2>1, <2>2, Zenon DEF ManifestTypeOK
<1>19. \A i \in DOMAIN EditLog : /\ EditLog[i].id < nextEdit' /\ EditLog[i].Seq <= EditLog[i].id
                             /\ EditLog[i].Seq <= seq' + 1 /\ EditLog[i].Seq <= seq'
  <2> TAKE i \in DOMAIN EditLog
  <2>1. /\ EditLog[i].id < nextEdit /\ EditLog[i].Seq <= EditLog[i].id
        /\ EditLog[i].Seq <= seq + 1 /\ EditLog[i].Seq \in Int
    BY <1>1, <1>7, Zenon
  <2> QED
    BY <1>2, <1>5, <2>1, ManifestBoundsAssumption
<1>20. \E k \in 0..n : durable' = k * FrameLen /\ acked' \subseteq {EditLog[i].id : i \in 1..k}
  <2>1. n \in 0..n
    BY <1>1
  <2> QED
    BY <1>2, <1>4, <1>15, <2>1, Zenon
<1>21. Whole(file', Len(EditLog')) /\ Len(file') = Len(EditLog') * FrameLen
  BY <1>1, <1>2, <1>3, <1>4 DEF n
<1>22. \E k \in 0..Len(EditLog') :
          durable' = k * FrameLen /\ acked' \subseteq {EditLog'[i].id : i \in 1..k}
  <2>1. PICK k \in 0..n : durable' = k * FrameLen /\ acked' \subseteq {EditLog[i].id : i \in 1..k}
    BY <1>20, Zenon
  <2>2. {EditLog'[i].id : i \in 1..k} = {EditLog[i].id : i \in 1..k} /\ k \in 0..Len(EditLog')
    BY <1>3 DEF n
  <2> QED
    BY <2>1, <2>2, Zenon
<1>23. \A i \in DOMAIN EditLog' : /\ EditLog'[i].id < nextEdit' /\ EditLog'[i].Seq <= EditLog'[i].id
                              /\ EditLog'[i].Seq <= seq' + 1 /\ EditLog'[i].Seq <= seq'
  BY <1>3, <1>19, Zenon
<1> QED
  BY <1>2, <1>14, <1>16, <1>17, <1>18, <1>21, <1>22, <1>23, Zenon DEF ManifestInv

\* A failed fsync leaves the edit in the file and does not count its number.
LEMMA SyncFailsStep ==
  ASSUME ManifestInv, AppendSyncFails
  PROVE  ManifestInv'
<1>1. /\ ManifestTypeOK /\ stage = "writing" /\ UNCHANGED <<file, durable, seq, nextEdit, acked>>
      /\ faults < MaxFaults /\ faults' = faults + 1 /\ stage' = "open"
  BY Zenon DEF ManifestInv, AppendSyncFails
<1>2. EditLog' = EditLog
  BY <1>1 DEF EditLog
<1>3. ManifestTypeOK'
  <2>1. faults' \in 0..MaxFaults
    BY <1>1, ManifestBoundsAssumption DEF ManifestTypeOK
  <2> QED
    BY <1>1, <2>1, Zenon DEF ManifestTypeOK
<1>4. /\ AckedEditsReplayed' /\ SeqNumbersEdits'
      /\ \E n \in 0..Len(EditLog') :
            durable' = n * FrameLen /\ acked' \subseteq {EditLog'[i].id : i \in 1..n}
      /\ \A i \in DOMAIN EditLog' : EditLog'[i].id < nextEdit' /\ EditLog'[i].Seq <= EditLog'[i].id
  BY Zenon, <1>1, <1>2, SameLog
<1>5. Whole(file', Len(EditLog')) /\ Len(file') = Len(EditLog') * FrameLen
  BY Zenon, <1>1, <1>2 DEF ManifestInv
<1>6. \A i \in DOMAIN EditLog :
         EditLog[i].Seq <= seq + 1 /\ (EditLog[i].id \in acked => EditLog[i].Seq <= seq)
  BY <1>1, Zenon DEF ManifestInv
<1>7. seq < nextEdit
  BY Zenon DEF ManifestInv
<1> QED
  BY <1>1, <1>2, <1>3, <1>4, <1>5, <1>6, <1>7, Zenon DEF ManifestInv

\* Close makes the whole file durable.
LEMMA CloseStep ==
  ASSUME ManifestInv, Close
  PROVE  ManifestInv'
<1>1. /\ ManifestTypeOK /\ stage = "open" /\ UNCHANGED <<file, seq, nextEdit, faults, acked>>
      /\ durable' = Len(file) /\ stage' = "closed"
  BY Zenon DEF ManifestInv, Close
<1>2. EditLog' = EditLog
  BY <1>1 DEF EditLog
<1>3. Len(EditLog) \in Nat /\ Len(file) \in Nat /\ Len(file) = Len(EditLog) * FrameLen
  BY Zenon, <1>1, FileFacts DEF ManifestInv
<1>4. ManifestTypeOK'
  <2>1. Len(file) \in 0..Len(file)
    BY <1>3
  <2> QED
    BY <1>1, <2>1, Zenon DEF ManifestTypeOK
<1>5. /\ AckedEditsReplayed /\ SeqNumbersEdits
      /\ \A i \in DOMAIN EditLog : EditLog[i].id < nextEdit /\ EditLog[i].Seq <= EditLog[i].id
      /\ \A i \in DOMAIN EditLog :
            EditLog[i].Seq <= seq + 1 /\ (EditLog[i].id \in acked => EditLog[i].Seq <= seq)
      /\ seq < nextEdit /\ Whole(file, Len(EditLog))
  BY <1>1, Zenon DEF ManifestInv
<1>6. AckedEditsReplayed' /\ SeqNumbersEdits'
  <2>1. acked' = acked /\ EditLog' = EditLog
    BY <1>1, <1>2
  <2>2. AckedEditsReplayed'
    BY <1>5, <2>1, Zenon DEF AckedEditsReplayed
  <2>3. SeqNumbersEdits'
    <3>1. \A i, j \in DOMAIN EditLog : i < j => EditLog[i].Seq <= EditLog[j].Seq
      BY Zenon, <1>5 DEF SeqNumbersEdits
    <3>2. \A i, j \in DOMAIN EditLog :
             i # j /\ {EditLog[i].id, EditLog[j].id} \subseteq acked => EditLog[i].Seq # EditLog[j].Seq
      BY Zenon, <1>5 DEF SeqNumbersEdits
    <3> QED
      BY Zenon, <2>1, <3>1, <3>2 DEF SeqNumbersEdits
  <2> QED
    BY <2>2, <2>3
<1>7. \E n \in 0..Len(EditLog) : Len(file) = n * FrameLen /\ acked \subseteq {EditLog[i].id : i \in 1..n}
  <2>1. PICK d \in 0..Len(EditLog) : acked \subseteq {EditLog[i].id : i \in 1..d}
    BY Zenon DEF ManifestInv
  <2>2. 1..d \subseteq 1..Len(EditLog) /\ Len(EditLog) \in 0..Len(EditLog)
    BY <1>3
  <2>3. acked \subseteq {EditLog[i].id : i \in 1..Len(EditLog)}
    BY <2>1, <2>2
  <2> QED
    BY <1>3, <2>2, <2>3, Zenon
<1>8. \E n \in 0..Len(EditLog') :
         durable' = n * FrameLen /\ acked' \subseteq {EditLog'[i].id : i \in 1..n}
  <2>1. PICK n \in 0..Len(EditLog) :
           Len(file) = n * FrameLen /\ acked \subseteq {EditLog[i].id : i \in 1..n}
    BY <1>7, Zenon
  <2>2. {EditLog'[i].id : i \in 1..n} = {EditLog[i].id : i \in 1..n} /\ n \in 0..Len(EditLog')
    BY <1>2
  <2> QED
    BY <1>1, <2>1, <2>2, Zenon
<1>9. /\ \A i \in DOMAIN EditLog' : EditLog'[i].id < nextEdit' /\ EditLog'[i].Seq <= EditLog'[i].id
      /\ \A i \in DOMAIN EditLog' :
            EditLog'[i].Seq <= seq' + 1 /\ (EditLog'[i].id \in acked' => EditLog'[i].Seq <= seq')
      /\ seq' < nextEdit' /\ Whole(file', Len(EditLog')) /\ Len(file') = Len(EditLog') * FrameLen
  BY <1>1, <1>2, <1>3, <1>5, Zenon
<1> QED
  BY <1>1, <1>4, <1>6, <1>8, <1>9, Zenon DEF ManifestInv

\* The invariant of the MANIFEST is inductive.
THEOREM ManifestInvariance == ManifestSpec => []ManifestInv
<1>1. ManifestInit => ManifestInv
  <2> SUFFICES ASSUME ManifestInit PROVE ManifestInv
    OBVIOUS
  <2>1. /\ file = << >> /\ durable = 0 /\ seq = 0 /\ stage = "down"
        /\ nextEdit = 1 /\ faults = 0 /\ acked = {}
    BY DEF ManifestInit
  <2>2. << >> \in Seq(CellsOf(Edits)) /\ Whole(<< >>, 0)
    BY EmptyFile
  <2>3. Decoded(<< >>) \in Seq(Edits) /\ Len(Decoded(<< >>)) = 0
    BY Zenon, <2>2, DecodedFrames
  <2>4. EditLog = << >> /\ Len(EditLog) = 0 /\ DOMAIN EditLog = {}
    BY <2>1, <2>3 DEF EditLog
  <2>5. ManifestTypeOK
    <3>1. 0 \in 0..Len(<< >>) /\ 0 \in 0..MaxEdits /\ 1 \in 1..(MaxEdits + 1) /\ 0 \in 0..MaxFaults
      BY ManifestBoundsAssumption
    <3>2. << >> \in Seq(CellsOf(Edits))
      OBVIOUS
    <3> QED
      BY <2>1, <3>1, <3>2 DEF ManifestTypeOK
  <2>6. AckedEditsReplayed /\ SeqNumbersEdits
    BY Zenon, <2>1, <2>4 DEF AckedEditsReplayed, SeqNumbersEdits
  <2>7. \E n \in 0..Len(EditLog) : durable = n * FrameLen /\ acked \subseteq {EditLog[i].id : i \in 1..n}
    <3>1. 0 \in 0..Len(EditLog) /\ 0 * FrameLen = 0
      BY <2>4, FrameLenType
    <3> QED
      BY <2>1, <3>1
  <2>8. Whole(file, Len(EditLog)) /\ seq < nextEdit
    BY <2>1, <2>2, <2>4
  <2> QED
    BY <2>1, <2>4, <2>5, <2>6, <2>7, <2>8, Zenon DEF ManifestInv
<1>2. ASSUME ManifestInv, [ManifestNext]_manifestVars PROVE ManifestInv'
  <2>1. CASE UNCHANGED manifestVars
    <3>1. UNCHANGED <<file, durable, seq, stage, nextEdit, faults, acked>>
      BY <2>1, Zenon DEF manifestVars
    <3>2. EditLog' = EditLog
      BY <3>1 DEF EditLog
    <3>3. ManifestTypeOK'
      BY <1>2, <3>1, Zenon DEF ManifestInv, ManifestTypeOK
    <3>4. /\ AckedEditsReplayed' /\ SeqNumbersEdits'
          /\ \E n \in 0..Len(EditLog') :
                durable' = n * FrameLen /\ acked' \subseteq {EditLog'[i].id : i \in 1..n}
          /\ \A i \in DOMAIN EditLog' : EditLog'[i].id < nextEdit' /\ EditLog'[i].Seq <= EditLog'[i].id
      BY <1>2, <3>1, <3>2, SameLog
    <3> QED
      BY <1>2, <3>1, <3>2, <3>3, <3>4, Zenon DEF ManifestInv
  <2> QED
    BY <1>2, <2>1, ReplayStep, WriteStep, EditSyncStep, SyncFailsStep, CloseStep, ManifestCrashStep
    DEF ManifestNext
<1> QED
  BY <1>1, <1>2, PTL DEF ManifestSpec

\* Every edit whose Append returned nil is delivered by each later Replay, in the
\* order of the Appends, whatever crashes, torn tails and failed fsyncs came
\* before or after it.
THEOREM AckedEditsReplayedHolds == ManifestSpec => []AckedEditsReplayed
<1>1. ManifestInv => AckedEditsReplayed
  BY Zenon DEF ManifestInv
<1> QED
  BY <1>1, ManifestInvariance, PTL

\* The numbers of the edits never go down along the file, and no two acknowledged
\* edits share one, although the number of a failed Append is used again.
THEOREM SeqNumbersEditsHolds == ManifestSpec => []SeqNumbersEdits
<1>1. ManifestInv => SeqNumbersEdits
  BY Zenon DEF ManifestInv
<1> QED
  BY <1>1, ManifestInvariance, PTL

=============================================================================
