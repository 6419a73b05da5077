----------------------------- MODULE TableProofs -----------------------------
(* One partition's records from the memtable through the SSTable to scans and   *)
(* aggregates, for any records, sources, ranges and block sizes.                *)
EXTENDS Table, FiniteSetTheorems, TLAPS

\* A set of natural numbers that is not empty has a least element: the form in
\* which the proofs use induction.
LEMMA LeastElement ==
  ASSUME NEW T, T \subseteq Nat, T # {}
  PROVE  \E n \in T : \A m \in T : n <= m
<1> DEFINE R == {p \in Nat \X Nat : p[1] < p[2]}
<1>1. IsWellFoundedOn(R, Nat)
  BY NatLessThanWellFounded, Zenon DEF OpToRel
<1>2. PICK n \in T : \A m \in T : ~(<<m, n>> \in R)
  <2> HIDE DEF R
  <2> QED
    BY <1>1, WFMin, Zenon
<1>3. ASSUME NEW m \in T PROVE n <= m
  <2>1. ~(<<m, n>> \in R)
    BY <1>2
  <2>2. m \in Nat /\ n \in Nat
    OBVIOUS
  <2>3. ~(m < n)
    BY <2>1, <2>2
  <2> QED
    BY <2>2, <2>3
<1> QED
  BY <1>3

\* A set of positions that goes down to the first is an interval, so that its size
\* is where sort.Search stops.
LEMMA DownwardClosed ==
  ASSUME NEW n \in Nat, NEW S \in SUBSET (1..n), \A i \in S : \A j \in 1..i : j \in S
  PROVE  \E k \in 0..n : S = 1..k /\ Cardinality(S) = k
<1>1. ASSUME NEW k \in 0..n PROVE Cardinality(1..k) = k
  <2>1. 1 \in Int /\ k \in Int
    BY <1>1
  <2>2. Cardinality(1..k) = IF 1 > k THEN 0 ELSE k - 1 + 1
    BY <2>1, FS_Interval, Zenon
  <2> QED
    BY <1>1, <2>2
<1>2. \E k \in 0..n : S = 1..k
  <2> DEFINE T == (1..n) \ S
  <2>1. CASE T = {}
    <3>1. \A i \in 1..n : i \in S
      BY <2>1
    <3>2. n \in 0..n
      OBVIOUS
    <3>3. S = 1..n
      BY <3>1, Zenon
    <3> QED
      BY <3>2, <3>3, Zenon
  <2>2. CASE T # {}
    <3>1. PICK t \in T : \A m \in T : t <= m
      <4>1. T \subseteq Nat
        OBVIOUS
      <4> HIDE DEF T
      <4> QED
        BY <2>2, <4>1, LeastElement, Zenon
    <3>2. t - 1 \in 0..n /\ t \in 1..n /\ t \notin S
      BY <3>1
    <3>3. S = 1..(t - 1)
      <4>1. ASSUME NEW i \in S PROVE i \in 1..(t - 1)
        <5>1. i \in 1..n /\ ~(t \in 1..i)
          BY <3>2
        <5> QED
          BY <3>2, <5>1
      <4>2. ASSUME NEW i \in 1..(t - 1) PROVE i \in S
        <5>1. i \in 1..n /\ ~(t <= i)
          BY <3>2
        <5> QED
          BY <3>1, <5>1
      <4> QED
        BY <4>1, <4>2, Zenon
    <3> QED
      BY <3>2, <3>3
  <2> QED
    BY <2>1, <2>2
<1> QED
  BY <1>1, <1>2, Zenon

-----------------------------------------------------------------------------
(* Memtable.Scan *)

\* g[i] is what the iterator returns of the first i records of s.
Selects(g, s, q, n) ==
    g = [i \in 0..n |-> IF i = 0 THEN << >>
                        ELSE IF MemMatches(s[i], q) THEN Append(g[i - 1], s[i]) ELSE g[i - 1]]

\* There is such a function.
LEMMA SelectsExists ==
  ASSUME NEW s, NEW q, NEW n \in Nat
  PROVE  \E g : Selects(g, s, q, n)
<1> DEFINE T == {m \in Nat : ~ \E g : Selects(g, s, q, m)}
<1>1. ASSUME T # {} PROVE FALSE
  <2>1. PICK m \in T : \A l \in T : m <= l
    <3>1. T \subseteq Nat
      OBVIOUS
    <3> HIDE DEF T
    <3> QED
      BY <1>1, <3>1, LeastElement, Zenon
  <2>2. m \in Nat /\ ~ \E g : Selects(g, s, q, m)
    BY <2>1
  <2>3. m # 0
    <3>1. ASSUME m = 0 PROVE FALSE
      <4> DEFINE g == [i \in 0..m |-> << >>]
      <4>1. \A i \in 0..m : i = 0
        BY <3>1
      <4>2. Selects(g, s, q, m)
        BY <4>1, Zenon DEF Selects
      <4> QED
        BY <2>2, <4>2, Zenon
    <3> QED
      BY <3>1, Zenon
  <2>4. m - 1 \in Nat /\ m - 1 \notin T
    <3>1. m - 1 \in Nat /\ ~(m <= m - 1)
      BY <2>2, <2>3
    <3> QED
      BY <2>1, <3>1, Zenon
  <2>5. PICK g : Selects(g, s, q, m - 1)
    BY <2>4
  <2> DEFINE last == IF MemMatches(s[m], q) THEN Append(g[m - 1], s[m]) ELSE g[m - 1]
             h == [i \in 0..m |-> IF i = m THEN last ELSE g[i]]
  <2>6. ASSUME NEW i \in 0..m
        PROVE  h[i] = IF i = 0 THEN << >>
                      ELSE IF MemMatches(s[i], q) THEN Append(h[i - 1], s[i]) ELSE h[i - 1]
    <3>1. i \in Nat /\ (i # 0 => i - 1 \in 0..m /\ i - 1 # m)
      BY <2>2
    <3>2. h[i] = (IF i = m THEN last ELSE g[i]) /\ (i # 0 => h[i - 1] = g[i - 1])
      BY <3>1, Zenon
    <3> HIDE DEF h
    <3>3. CASE i = m
      BY <2>3, <3>2, <3>3, Zenon
    <3>4. CASE i # m
      <4>1. i \in 0..(m - 1)
        BY <2>2, <3>1, <3>4
      <4>2. g[i] = IF i = 0 THEN << >>
                   ELSE IF MemMatches(s[i], q) THEN Append(g[i - 1], s[i]) ELSE g[i - 1]
        BY <2>5, <4>1, Zenon DEF Selects
      <4> QED
        BY <3>2, <3>4, <4>2, Zenon
    <3> QED
      BY <3>3, <3>4, Zenon
  <2>7. Selects(h, s, q, m)
    <3>1. h = [i \in 0..m |-> h[i]]
      OBVIOUS
    <3> HIDE DEF h
    <3> QED
      BY <2>6, <3>1, Zenon DEF Selects
  <2> QED
    BY <2>2, <2>7, Zenon
<1> QED
  BY <1>1, Zenon

\* It is determined by the records it is about.
LEMMA SelectsUnique ==
  ASSUME NEW s, NEW q, NEW n \in Nat, NEW m \in Nat, n <= m,
         NEW g, NEW h, Selects(g, s, q, n), Selects(h, s, q, m)
  PROVE  \A i \in 0..n : g[i] = h[i]
<1> DEFINE T == {i \in 0..n : g[i] # h[i]}
<1>1. ASSUME T # {} PROVE FALSE
  <2>1. PICK i \in T : \A l \in T : i <= l
    <3>1. T \subseteq Nat
      OBVIOUS
    <3> HIDE DEF T
    <3> QED
      BY <1>1, <3>1, LeastElement, Zenon
  <2>2. i \in 0..n /\ g[i] # h[i] /\ i \in 0..m
    BY <2>1
  <2>3. g[i] = IF i = 0 THEN << >>
               ELSE IF MemMatches(s[i], q) THEN Append(g[i - 1], s[i]) ELSE g[i - 1]
    BY <2>2, Zenon DEF Selects
  <2>4. h[i] = IF i = 0 THEN << >>
               ELSE IF MemMatches(s[i], q) THEN Append(h[i - 1], s[i]) ELSE h[i - 1]
    BY <2>2, Zenon DEF Selects
  <2>5. i # 0
    BY <2>2, <2>3, <2>4, Zenon
  <2>6. i - 1 \in 0..n /\ ~(i <= i - 1)
    BY <2>2, <2>5
  <2>7. g[i - 1] = h[i - 1]
    BY <2>1, <2>6, Zenon
  <2>8. CASE MemMatches(s[i], q)
    <3>1. g[i] = Append(g[i - 1], s[i]) /\ h[i] = Append(h[i - 1], s[i])
      BY <2>3, <2>4, <2>5, <2>8, Zenon
    <3> QED
      BY <2>2, <2>7, <3>1, Zenon
  <2>9. CASE ~MemMatches(s[i], q)
    <3>1. g[i] = g[i - 1] /\ h[i] = h[i - 1]
      BY <2>3, <2>4, <2>5, <2>9, Zenon
    <3> QED
      BY <2>2, <2>7, <3>1, Zenon
  <2> QED
    BY <2>8, <2>9, Zenon
<1> QED
  BY <1>1

\* So Selected is its last element.
LEMMA SelectedIs ==
  ASSUME NEW s, NEW q, NEW n \in Nat
  PROVE  \E g : Selects(g, s, q, n) /\ Selected(s, q, n) = g[n]
<1> DEFINE h == CHOOSE f : f = [i \in 0..n |->
                    IF i = 0 THEN << >>
                    ELSE IF MemMatches(s[i], q) THEN Append(f[i - 1], s[i]) ELSE f[i - 1]]
<1>1. Selected(s, q, n) = h[n]
  BY Zenon DEF Selected
<1>2. \E g : Selects(g, s, q, n)
  BY SelectsExists
<1>3. Selects(h, s, q, n)
  BY <1>2, Zenon DEF Selects
<1> QED
  BY <1>1, <1>3, Zenon

\* What Next returns of no record, and of one more.
LEMMA SelectedStep ==
  ASSUME NEW s, NEW q, NEW n \in Nat
  PROVE  /\ Selected(s, q, 0) = << >>
         /\ Selected(s, q, n + 1) = IF MemMatches(s[n + 1], q) THEN Append(Selected(s, q, n), s[n + 1])
                                    ELSE Selected(s, q, n)
<1>1. Selected(s, q, 0) = << >>
  <2>1. PICK g : Selects(g, s, q, 0) /\ Selected(s, q, 0) = g[0]
    BY SelectedIs
  <2>2. 0 \in 0..0
    OBVIOUS
  <2>3. g[0] = << >>
    BY <2>1, <2>2, Zenon DEF Selects
  <2> QED
    BY <2>1, <2>3, Zenon
<1>2. PICK g : Selects(g, s, q, n) /\ Selected(s, q, n) = g[n]
  BY SelectedIs, Zenon
<1>3. n + 1 \in Nat /\ n <= n + 1 /\ n \in 0..n /\ n + 1 \in 0..(n + 1) /\ n + 1 # 0 /\ (n + 1) - 1 = n
  OBVIOUS
<1>4. PICK h : Selects(h, s, q, n + 1) /\ Selected(s, q, n + 1) = h[n + 1]
  BY <1>3, SelectedIs, Zenon
<1>5. g[n] = h[n]
  <2>1. \A a, b : Selects(a, s, q, n) /\ Selects(b, s, q, n + 1) => \A i \in 0..n : a[i] = b[i]
    BY <1>3, SelectsUnique
  <2> QED
    BY <1>2, <1>3, <1>4, <2>1, Zenon
<1>6. h[n + 1] = IF n + 1 = 0 THEN << >>
                 ELSE IF MemMatches(s[n + 1], q) THEN Append(h[(n + 1) - 1], s[n + 1])
                 ELSE h[(n + 1) - 1]
  BY <1>3, <1>4, Zenon DEF Selects
<1>7. h[n + 1] = IF MemMatches(s[n + 1], q) THEN Append(h[n], s[n + 1]) ELSE h[n]
  BY <1>3, <1>6, Zenon
<1> QED
  BY <1>1, <1>2, <1>4, <1>5, <1>7, Zenon

\* The positions of the first n records that match.
Matching(s, q, n) == {i \in 1..n : MemMatches(s[i], q)}

\* Records that do not match add nothing.
LEMMA SelectedSame ==
  ASSUME NEW s, NEW q, NEW n \in Nat, NEW m \in 0..n,
         \A i \in (m + 1)..n : ~MemMatches(s[i], q)
  PROVE  Selected(s, q, n) = Selected(s, q, m)
<1> DEFINE T == {k \in m..n : Selected(s, q, k) # Selected(s, q, m)}
<1>1. ASSUME T # {} PROVE FALSE
  <2>1. PICK k \in T : \A l \in T : k <= l
    <3>1. T \subseteq Nat
      OBVIOUS
    <3> HIDE DEF T
    <3> QED
      BY <1>1, <3>1, LeastElement, Zenon
  <2>2. k \in m..n /\ Selected(s, q, k) # Selected(s, q, m)
    BY <2>1, Zenon
  <2>3. k # m
    BY <2>2, Zenon
  <2>4. k - 1 \in m..n /\ k - 1 \in Nat /\ ~(k <= k - 1) /\ k \in (m + 1)..n /\ (k - 1) + 1 = k
    BY <2>2, <2>3
  <2>5. Selected(s, q, k - 1) = Selected(s, q, m)
    BY <2>1, <2>4, Zenon
  <2>6. Selected(s, q, (k - 1) + 1) = Selected(s, q, k - 1)
    <3>1. ~MemMatches(s[(k - 1) + 1], q)
      BY <2>4, Zenon
    <3> QED
      BY <2>4, <3>1, SelectedStep, Zenon
  <2> QED
    BY <2>2, <2>4, <2>5, <2>6, Zenon
<1>2. n \in m..n
  OBVIOUS
<1> QED
  BY <1>1, <1>2, Zenon

\* One more record is one more matching position, or none.
LEMMA MatchingStep ==
  ASSUME NEW s, NEW q, NEW n \in Nat, IsFiniteSet(Matching(s, q, n))
  PROVE  /\ Matching(s, q, n) \subseteq Matching(s, q, n + 1)
         /\ IsFiniteSet(Matching(s, q, n + 1))
         /\ Cardinality(Matching(s, q, n)) \in Nat
         /\ Cardinality(Matching(s, q, n + 1))
              = IF MemMatches(s[n + 1], q) THEN Cardinality(Matching(s, q, n)) + 1
                ELSE Cardinality(Matching(s, q, n))
         /\ MemMatches(s[n + 1], q) => n + 1 \in Matching(s, q, n + 1)
<1> DEFINE M == Matching(s, q, n)
           N == Matching(s, q, n + 1)
<1>1. n + 1 \notin M
  BY DEF Matching
<1>2. 1..(n + 1) = (1..n) \cup {n + 1}
  OBVIOUS
<1>3. N = IF MemMatches(s[n + 1], q) THEN M \cup {n + 1} ELSE M
  BY <1>2, Zenon DEF Matching
<1>4. Cardinality(M) \in Nat /\ IsFiniteSet(M \cup {n + 1})
      /\ Cardinality(M \cup {n + 1}) = IF n + 1 \in M THEN Cardinality(M) ELSE Cardinality(M) + 1
  BY FS_CardinalityType, FS_AddElement, Zenon
<1> HIDE DEF M, N
<1>5. CASE MemMatches(s[n + 1], q)
  BY <1>1, <1>3, <1>4, <1>5, Zenon DEF M, N
<1>6. CASE ~MemMatches(s[n + 1], q)
  BY <1>3, <1>4, <1>6, Zenon DEF M, N
<1> QED
  BY <1>5, <1>6, Zenon

\* What one more record does to an answer.
LEMMA AppendRecord ==
  ASSUME NEW a \in Seq(Records), NEW r \in Records
  PROVE  /\ Append(a, r) \in Seq(Records) /\ Len(Append(a, r)) = Len(a) + 1
         /\ \A k \in DOMAIN Append(a, r) :
               (k \in DOMAIN a /\ Append(a, r)[k] = a[k]) \/ Append(a, r)[k] = r
  OBVIOUS

\* What is returned of the first n records are records that match.
FromMatching(s, q, n) ==
    \A k \in DOMAIN Selected(s, q, n) : \E i \in Matching(s, q, n) : Selected(s, q, n)[k] = s[i]

\* The answer consists of the records that match, as many as there are.
LEMMA SelectedFacts ==
  ASSUME NEW s \in Seq(Records), NEW q, NEW n \in 0..Len(s)
  PROVE  /\ Selected(s, q, n) \in Seq(Records)
         /\ FromMatching(s, q, n)
         /\ IsFiniteSet(Matching(s, q, n))
         /\ Len(Selected(s, q, n)) = Cardinality(Matching(s, q, n))
<1> DEFINE Good(m) == /\ Selected(s, q, m) \in Seq(Records)
                      /\ \A k \in DOMAIN Selected(s, q, m) :
                            \E i \in Matching(s, q, m) : Selected(s, q, m)[k] = s[i]
                      /\ IsFiniteSet(Matching(s, q, m))
                      /\ Len(Selected(s, q, m)) = Cardinality(Matching(s, q, m))
           T == {m \in 0..Len(s) : ~Good(m)}
<1>1. Good(0)
  <2>1. Selected(s, q, 0) = << >>
    BY SelectedStep, Zenon
  <2>2. Matching(s, q, 0) = {}
    BY DEF Matching
  <2>3. IsFiniteSet({}) /\ Cardinality({}) = 0
    BY FS_EmptySet
  <2>4. << >> \in Seq(Records) /\ Len(<< >>) = 0 /\ DOMAIN << >> = {}
    OBVIOUS
  <2> QED
    BY <2>1, <2>2, <2>3, <2>4, Zenon
<1>2. ASSUME NEW m \in Nat, m + 1 \in 0..Len(s), Good(m) PROVE Good(m + 1)
  <2> DEFINE a == Selected(s, q, m)
             b == Selected(s, q, m + 1)
             M == Matching(s, q, m)
             N == Matching(s, q, m + 1)
             r == s[m + 1]
  <2>1. b = IF MemMatches(r, q) THEN Append(a, r) ELSE a
    BY SelectedStep, Zenon
  <2>2. /\ M \subseteq N /\ IsFiniteSet(N) /\ Cardinality(M) \in Nat
        /\ Cardinality(N) = IF MemMatches(r, q) THEN Cardinality(M) + 1 ELSE Cardinality(M)
        /\ MemMatches(r, q) => m + 1 \in N
    BY <1>2, MatchingStep, Zenon
  <2>3. r \in Records
    <3>1. m + 1 \in 1..Len(s)
      BY <1>2
    <3> QED
      BY <3>1
  <2>4. /\ a \in Seq(Records) /\ Len(a) = Cardinality(M)
        /\ \A k \in DOMAIN a : \E i \in M : a[k] = s[i]
    BY <1>2, Zenon
  <2>5. r = s[m + 1]
    OBVIOUS
  <2> HIDE DEF a, b, M, N, r
  <2>6. CASE MemMatches(r, q)
    <3>1. b = Append(a, r) /\ Cardinality(N) = Cardinality(M) + 1 /\ m + 1 \in N
      BY <2>1, <2>2, <2>6, Zenon
    <3>2. b \in Seq(Records) /\ Len(b) = Cardinality(N)
      <4>1. b \in Seq(Records) /\ Len(b) = Len(a) + 1
        BY <2>3, <2>4, <3>1, AppendRecord, Zenon
      <4> QED
        BY <2>4, <3>1, <4>1, Zenon
    <3>3. ASSUME NEW k \in DOMAIN b PROVE \E i \in N : b[k] = s[i]
      <4>1. (k \in DOMAIN a /\ b[k] = a[k]) \/ b[k] = r
        BY <2>3, <2>4, <3>1, <3>3, AppendRecord, Zenon
      <4> QED
        BY <2>2, <2>4, <2>5, <3>1, <4>1, Zenon
    <3> QED
      BY <2>2, <3>2, <3>3, Zenon DEF b, N
  <2>7. CASE ~MemMatches(r, q)
    <3>1. b = a /\ Cardinality(N) = Cardinality(M)
      BY <2>1, <2>2, <2>7, Zenon
    <3> QED
      BY <2>2, <2>4, <3>1, Zenon DEF b, N
  <2> QED
    BY <2>6, <2>7, Zenon
<1> HIDE DEF Good
<1>3. ASSUME T # {} PROVE FALSE
  <2>1. PICK m \in T : \A l \in T : m <= l
    <3>1. T \subseteq Nat
      OBVIOUS
    <3> HIDE DEF T
    <3> QED
      BY <1>3, <3>1, LeastElement, Zenon
  <2>2. m \in 0..Len(s) /\ ~Good(m) /\ Len(s) \in Nat
    BY <2>1
  <2>3. m # 0
    BY <1>1, <2>2, Zenon
  <2>4. m - 1 \in 0..Len(s) /\ m - 1 \in Nat /\ ~(m <= m - 1) /\ (m - 1) + 1 = m
    BY <2>2, <2>3
  <2>5. Good(m - 1)
    BY <2>1, <2>4, Zenon
  <2>6. Good((m - 1) + 1)
    BY <1>2, <2>2, <2>4, <2>5, Zenon
  <2> QED
    BY <2>2, <2>4, <2>6, Zenon
<1>4. Good(n)
  BY <1>3, Zenon
<1> QED
  BY <1>4, Zenon DEF Good, FromMatching

-----------------------------------------------------------------------------
(* Memtable.Append *)

\* Where the records of a concatenation come from.
LEMMA ConcatRecords ==
  ASSUME NEW a \in Seq(Records), NEW b \in Seq(Records)
  PROVE  /\ a \o b \in Seq(Records) /\ Len(a \o b) = Len(a) + Len(b)
         /\ \A i \in 1..(Len(a) + Len(b)) :
               (a \o b)[i] = IF i <= Len(a) THEN a[i] ELSE b[i - Len(a)]
  OBVIOUS


\* The slice with r moved in behind its first k records.
LEMMA InsertedBehind ==
  ASSUME NEW s \in Seq(Records), NEW r \in Records, NEW k \in 0..Len(s)
  PROVE  /\ Inserted(s, k + 1, r) \in Seq(Records) /\ Len(Inserted(s, k + 1, r)) = Len(s) + 1
         /\ \A i \in 1..k : Inserted(s, k + 1, r)[i] = s[i]
         /\ Inserted(s, k + 1, r)[k + 1] = r
         /\ \A i \in (k + 2)..(Len(s) + 1) : Inserted(s, k + 1, r)[i] = s[i - 1]
<1> DEFINE t == Inserted(s, k + 1, r)
           a == SubSeq(s, 1, k)
           b == <<r>>
           c == SubSeq(s, k + 1, Len(s))
           d == a \o b
<1>1. Len(s) \in Nat /\ k \in Nat /\ k <= Len(s) /\ (k + 1) - 1 = k
  OBVIOUS
<1>2. a \in Seq(Records) /\ Len(a) = k /\ \A i \in 1..k : a[i] = s[i]
  BY <1>1
<1>3. c \in Seq(Records) /\ Len(c) = Len(s) - k /\ \A i \in 1..(Len(s) - k) : c[i] = s[k + i]
  BY <1>1
<1>4. b \in Seq(Records) /\ Len(b) = 1 /\ b[1] = r
  OBVIOUS
<1>5. t = d \o c
  BY <1>1, Zenon DEF Inserted
<1> HIDE DEF a, b, c, t
<1>6. d \in Seq(Records) /\ Len(d) = k + 1 /\ (\A i \in 1..k : d[i] = a[i]) /\ d[k + 1] = b[1]
  <2>1. /\ d \in Seq(Records) /\ Len(d) = Len(a) + Len(b)
        /\ \A i \in 1..(Len(a) + Len(b)) : d[i] = IF i <= Len(a) THEN a[i] ELSE b[i - Len(a)]
    BY <1>2, <1>4, ConcatRecords, Zenon
  <2> HIDE DEF d
  <2>2. \A i \in 1..(k + 1) : d[i] = IF i <= k THEN a[i] ELSE b[i - k]
    BY <1>2, <1>4, <2>1, Zenon
  <2>3. \A i \in 1..k : i \in 1..(k + 1) /\ i <= k
    BY <1>1
  <2>4. k + 1 \in 1..(k + 1) /\ ~(k + 1 <= k) /\ (k + 1) - k = 1
    BY <1>1
  <2>5. d[k + 1] = b[1]
    BY <2>2, <2>4, Zenon
  <2>6. ASSUME NEW i \in 1..k PROVE d[i] = a[i]
    BY <2>2, <2>3, Zenon
  <2> QED
    BY <1>2, <1>4, <2>1, <2>5, <2>6, Zenon
<1> HIDE DEF d
<1>7. /\ t \in Seq(Records) /\ Len(t) = Len(s) + 1
      /\ \A i \in 1..(k + 1) : t[i] = d[i]
      /\ \A i \in (k + 2)..(Len(s) + 1) : t[i] = c[i - (k + 1)]
  <2>1. /\ t \in Seq(Records) /\ Len(t) = Len(d) + Len(c)
        /\ \A i \in 1..(Len(d) + Len(c)) : t[i] = IF i <= Len(d) THEN d[i] ELSE c[i - Len(d)]
    BY <1>3, <1>5, <1>6, ConcatRecords, Zenon
  <2>2. Len(d) + Len(c) = Len(s) + 1
    BY <1>1, <1>3, <1>6
  <2>3. \A i \in 1..(k + 1) : i \in 1..(Len(s) + 1) /\ i <= k + 1
    BY <1>1
  <2>4. \A i \in (k + 2)..(Len(s) + 1) : i \in 1..(Len(s) + 1) /\ ~(i <= k + 1)
    BY <1>1
  <2> QED
    BY <1>6, <2>1, <2>2, <2>3, <2>4, Zenon
<1>8. ASSUME NEW i \in 1..k PROVE t[i] = s[i]
  <2>1. i \in 1..(k + 1)
    BY <1>1
  <2> QED
    BY <1>2, <1>6, <1>7, <2>1, Zenon
<1>9. t[k + 1] = r
  <2>1. k + 1 \in 1..(k + 1)
    BY <1>1
  <2> QED
    BY <1>4, <1>6, <1>7, <2>1, Zenon
<1>10. ASSUME NEW i \in (k + 2)..(Len(s) + 1) PROVE t[i] = s[i - 1]
  <2>1. i - (k + 1) \in 1..(Len(s) - k) /\ k + (i - (k + 1)) = i - 1
    BY <1>1
  <2>2. t[i] = c[i - (k + 1)] /\ c[i - (k + 1)] = s[k + (i - (k + 1))]
    BY <1>3, <1>7, <2>1, Zenon
  <2> QED
    BY <2>1, <2>2, Zenon
<1> QED
  BY <1>7, <1>8, <1>9, <1>10, Zenon DEF t

\* The order of the memtable is one.
LEMMA PrecedesOrder ==
  ASSUME NEW x \in Records, NEW y \in Records, NEW z \in Records
  PROVE  /\ Precedes(x, y) => ~Precedes(y, x)
         /\ Precedes(x, y) /\ ~Precedes(z, y) => ~Precedes(z, x)
         /\ ~Precedes(y, x) /\ Precedes(y, z) => Precedes(x, z)
<1>1. /\ x.ts \in Int /\ y.ts \in Int /\ z.ts \in Int
      /\ x.src \in Int /\ y.src \in Int /\ z.src \in Int
  <2>1. /\ x.ts \in Times /\ y.ts \in Times /\ z.ts \in Times
        /\ x.src \in Sources /\ y.src \in Sources /\ z.src \in Sources
    BY DEF Records
  <2>2. Times \subseteq Int /\ Sources \subseteq Int
    BY TimesAssumption
  <2> QED
    BY <2>1, <2>2, Zenon
<1> QED
  BY <1>1 DEF Precedes

\* Insertion at the insertion point keeps the order.
LEMMA MemAppendSorts ==
  ASSUME mem \in Seq(Records), Sorted, NEW r \in Records, MemAppend(r)
  PROVE  mem' \in Seq(Records) /\ Sorted' /\ Len(mem') = Len(mem) + 1
<1> DEFINE S == {i \in DOMAIN mem : Precedes(mem[i], r)}
<1>1. Len(mem) \in Nat /\ DOMAIN mem = 1..Len(mem) /\ \A i \in 1..Len(mem) : mem[i] \in Records
  OBVIOUS
<1>2. ASSUME NEW i \in S, NEW j \in 1..i PROVE j \in S
  <2>1. i \in DOMAIN mem /\ j \in DOMAIN mem /\ (j < i \/ j = i) /\ Precedes(mem[i], r)
    BY <1>1
  <2>2. ~(j < i) \/ ~Precedes(mem[i], mem[j])
    BY <2>1, Zenon DEF Sorted
  <2> QED
    BY <1>1, <2>1, <2>2, PrecedesOrder, Zenon
<1>3. PICK k \in 0..Len(mem) : S = 1..k /\ Cardinality(S) = k
  <2>1. S \in SUBSET (1..Len(mem))
    BY <1>1, Zenon
  <2> HIDE DEF S
  <2> QED
    BY <1>1, <1>2, <2>1, DownwardClosed, Zenon
<1>4. mem' = Inserted(mem, k + 1, r)
  BY <1>3, Zenon DEF MemAppend, InsertionPoint
<1>5. /\ mem' \in Seq(Records) /\ Len(mem') = Len(mem) + 1
      /\ \A i \in 1..k : mem'[i] = mem[i]
      /\ mem'[k + 1] = r
      /\ \A i \in (k + 2)..(Len(mem) + 1) : mem'[i] = mem[i - 1]
  <2> DEFINE t == Inserted(mem, k + 1, r)
  <2> HIDE DEF S
  <2>1. /\ t \in Seq(Records) /\ Len(t) = Len(mem) + 1
        /\ \A i \in 1..k : t[i] = mem[i]
        /\ t[k + 1] = r
        /\ \A i \in (k + 2)..(Len(mem) + 1) : t[i] = mem[i - 1]
    BY InsertedBehind, Zenon
  <2> QED
    BY <1>4, <2>1, Zenon
<1>6. \A i \in 1..k : Precedes(mem[i], r)
  BY <1>3, Zenon
<1>7. \A i \in (k + 1)..Len(mem) : ~Precedes(mem[i], r)
  <2>1. \A i \in (k + 1)..Len(mem) : i \in DOMAIN mem /\ i \notin 1..k
    BY <1>1
  <2> QED
    BY <1>3, <2>1, Zenon
<1> HIDE DEF S
<1>8. ASSUME NEW i \in 1..(Len(mem) + 1), NEW j \in 1..(Len(mem) + 1), i < j
      PROVE  ~Precedes(mem'[j], mem'[i])
  <2>1. CASE j <= k
    <3>1. i \in 1..k /\ j \in 1..k /\ i \in DOMAIN mem /\ j \in DOMAIN mem
      BY <1>1, <1>8, <2>1
    <3> QED
      BY <1>5, <1>8, <3>1, Zenon DEF Sorted
  <2>2. CASE j = k + 1
    <3>1. i \in 1..k /\ i \in 1..Len(mem)
      BY <1>1, <1>8, <2>2
    <3> QED
      BY <1>1, <1>5, <1>6, <2>2, <3>1, PrecedesOrder, Zenon
  <2>3. CASE j > k + 1 /\ i <= k
    <3>1. i \in 1..k /\ j \in (k + 2)..(Len(mem) + 1) /\ j - 1 \in DOMAIN mem /\ i \in DOMAIN mem /\ i < j - 1
      BY <1>1, <1>8, <2>3
    <3> QED
      BY <1>5, <3>1, Zenon DEF Sorted
  <2>4. CASE i = k + 1
    <3>1. j \in (k + 2)..(Len(mem) + 1) /\ j - 1 \in (k + 1)..Len(mem)
      BY <1>1, <1>8, <2>4
    <3> QED
      BY <1>5, <1>7, <2>4, <3>1, Zenon
  <2>5. CASE i > k + 1
    <3>1. /\ i \in (k + 2)..(Len(mem) + 1) /\ j \in (k + 2)..(Len(mem) + 1)
          /\ i - 1 \in DOMAIN mem /\ j - 1 \in DOMAIN mem /\ i - 1 < j - 1
      BY <1>1, <1>8, <2>5
    <3> QED
      BY <1>5, <3>1, Zenon DEF Sorted
  <2>6. j <= k \/ j = k + 1 \/ (j > k + 1 /\ i <= k) \/ i = k + 1 \/ i > k + 1
    BY <1>1
  <2> QED
    BY <2>1, <2>2, <2>3, <2>4, <2>5, <2>6, Zenon
<1>9. Sorted'
  <2>1. DOMAIN mem' = 1..(Len(mem) + 1)
    BY <1>1, <1>5
  <2> QED
    BY <1>8, <2>1, Zenon DEF Sorted, Precedes
<1> QED
  BY <1>5, <1>9, Zenon

-----------------------------------------------------------------------------
(* Where the writer puts the records *)

\* The positions of a block follow each other, and the blocks follow each other.
LEMMA Positions ==
  ASSUME NEW i \in Nat \ {0}
  PROVE  /\ At(i, 0) \in Nat /\ At(1, 0) = 0 /\ At(i + 1, 0) = At(i, 0) + BlockRecords
         /\ \A k \in Nat : At(i, k) = At(i, 0) + k
         /\ \A j \in Nat \ {0} : i < j => At(i, 0) + BlockRecords <= At(j, 0)
<1>1. BlockRecords \in Nat
  BY TableBoundsAssumption
<1>2. \A a, b \in Nat : a * b \in Nat
  OBVIOUS
<1>3. i - 1 \in Nat /\ (i + 1) - 1 = i /\ i \in Nat
  OBVIOUS
<1>4. (i - 1) * BlockRecords \in Nat /\ At(i, 0) = (i - 1) * BlockRecords
  BY <1>1, <1>2, <1>3 DEF At
<1>5. At(1, 0) = 0
  BY <1>1 DEF At
<1>6. i * BlockRecords = (i - 1) * BlockRecords + BlockRecords
  BY <1>1, <1>3
<1>7. At(i + 1, 0) = i * BlockRecords
  <2>1. At(i + 1, 0) = ((i + 1) - 1) * BlockRecords + 0
    BY DEF At
  <2>2. i * BlockRecords \in Nat
    BY <1>1, <1>2, <1>3
  <2> QED
    BY <1>3, <2>1, <2>2
<1>8. ASSUME NEW k \in Nat PROVE At(i, k) = At(i, 0) + k
  BY <1>4 DEF At
<1>9. ASSUME NEW j \in Nat \ {0}, i < j PROVE i * BlockRecords <= At(j, 0)
  <2>1. j - 1 \in Nat /\ i <= j - 1
    BY <1>3, <1>9
  <2>2. i * BlockRecords <= (j - 1) * BlockRecords
    BY <1>1, <1>3, <2>1
  <2>3. At(j, 0) = (j - 1) * BlockRecords
    BY <1>1, <1>2, <2>1 DEF At
  <2> QED
    BY <2>2, <2>3
<1> QED
  BY <1>4, <1>5, <1>6, <1>7, <1>8, <1>9

\* Every position is one of a block.
LEMMA PositionOf ==
  ASSUME NEW p \in Nat \ {0}
  PROVE  \E i \in Nat \ {0} : \E k \in 1..BlockRecords : p = At(i, k)
<1>1. BlockRecords \in Nat \ {0}
  BY TableBoundsAssumption
<1> DEFINE T == {i \in Nat \ {0} : p <= At(i, 0) + BlockRecords}
<1>2. p \in T
  <2>1. p - 1 \in Nat /\ (p - 1) * BlockRecords >= p - 1
    BY <1>1
  <2>2. At(p, 0) >= p - 1
    BY <1>1, <2>1 DEF At
  <2>3. At(p, 0) \in Nat
    BY Positions
  <2> QED
    BY <1>1, <2>2, <2>3
<1>3. PICK i \in T : \A j \in T : i <= j
  <2>1. T \subseteq Nat /\ T # {}
    BY <1>2
  <2> HIDE DEF T
  <2> QED
    BY <2>1, LeastElement, Zenon
<1>4. i \in Nat \ {0} /\ p <= At(i, 0) + BlockRecords
  BY <1>3
<1>5. At(i, 0) \in Nat /\ \A k \in Nat : At(i, k) = At(i, 0) + k
  BY <1>4, Positions
<1>6. At(i, 0) < p
  <2>1. CASE i = 1
    BY <2>1, Positions
  <2>2. CASE i # 1
    <3>1. i - 1 \in Nat \ {0} /\ (i - 1) + 1 = i /\ ~(i <= i - 1)
      BY <1>4, <2>2
    <3>2. At(i, 0) = At(i - 1, 0) + BlockRecords /\ At(i - 1, 0) \in Nat
      <4>1. At((i - 1) + 1, 0) = At(i - 1, 0) + BlockRecords /\ At(i - 1, 0) \in Nat
        BY <3>1, Positions, Zenon
      <4> QED
        BY <3>1, <4>1, Zenon
    <3>3. ~(p <= At(i - 1, 0) + BlockRecords)
      BY <1>3, <3>1, Zenon
    <3> QED
      BY <1>1, <3>2, <3>3
  <2> QED
    BY <2>1, <2>2
<1>7. p - At(i, 0) \in 1..BlockRecords /\ p - At(i, 0) \in Nat /\ At(i, 0) + (p - At(i, 0)) = p
  BY <1>1, <1>4, <1>5, <1>6
<1>8. At(i, p - At(i, 0)) = p
  BY <1>5, <1>7, Zenon
<1> QED
  BY <1>4, <1>7, <1>8, Zenon

\* A position belongs to one block.
LEMMA PositionUnique ==
  ASSUME NEW i \in Nat \ {0}, NEW j \in Nat \ {0},
         NEW k \in 1..BlockRecords, NEW l \in 1..BlockRecords
  PROVE  /\ At(i, k) = At(j, l) => i = j /\ k = l
         /\ At(i, k) < At(j, l) <=> i < j \/ (i = j /\ k < l)
<1>1. BlockRecords \in Nat /\ k \in Nat /\ l \in Nat
  BY TableBoundsAssumption
<1>2. /\ At(i, 0) \in Nat /\ At(j, 0) \in Nat
      /\ At(i, k) = At(i, 0) + k /\ At(j, l) = At(j, 0) + l
      /\ i < j => At(i, 0) + BlockRecords <= At(j, 0)
      /\ j < i => At(j, 0) + BlockRecords <= At(i, 0)
  BY <1>1, Positions, Zenon
<1> QED
  BY <1>1, <1>2

\* Timestamps are integers, and the memtable has them in order.
LEMMA TimesInOrder ==
  ASSUME TypeOK, Sorted, NEW i \in DOMAIN mem
  PROVE  /\ mem[i] \in Records /\ mem[i].ts \in Int
         /\ \A j \in DOMAIN mem : i <= j => mem[i].ts <= mem[j].ts
<1>1. mem \in Seq(Records)
  BY Zenon DEF TypeOK
<1>2. \A j \in DOMAIN mem : mem[j] \in Records /\ j \in Int
  BY <1>1
<1>3. ASSUME NEW j \in DOMAIN mem PROVE mem[j].ts \in Int
  <2>1. mem[j].ts \in Times
    BY <1>2 DEF Records
  <2> QED
    BY <2>1, TimesAssumption, Zenon
<1>4. ASSUME NEW j \in DOMAIN mem, i <= j PROVE mem[i].ts <= mem[j].ts
  <2>1. i = j \/ i < j
    BY <1>2, <1>4
  <2>2. i < j => ~Precedes(mem[j], mem[i])
    BY Zenon DEF Sorted
  <2>3. i < j => ~(mem[j].ts < mem[i].ts)
    BY <2>2, Zenon DEF Precedes
  <2> QED
    BY <1>3, <2>1, <2>3
<1> QED
  BY <1>2, <1>3, <1>4, Zenon

\* What a block that is written holds.
LEMMA BlockHolds ==
  ASSUME TypeOK, LayoutInv, NEW i \in DOMAIN blocks
  PROVE  /\ i \in Nat \ {0} /\ Len(blocks) \in Nat /\ DOMAIN blocks = 1..Len(blocks)
         /\ blocks[i] \in Seq(Records) /\ Len(blocks[i]) \in 1..BlockRecords
         /\ DOMAIN blocks[i] = 1..Len(blocks[i])
         /\ \A k \in 1..Len(blocks[i]) :
               k \in 1..BlockRecords /\ At(i, k) \in DOMAIN mem /\ blocks[i][k] = mem[At(i, k)]
<1>1. /\ blocks \in Seq(Seq(Records)) /\ mem \in Seq(Records) /\ pos \in 0..Len(mem)
      /\ Len(blocks[i]) \in 1..BlockRecords
  BY Zenon DEF TypeOK
<1>2. i \in Nat \ {0} /\ Len(blocks) \in Nat /\ DOMAIN blocks = 1..Len(blocks) /\ blocks[i] \in Seq(Records)
  BY <1>1
<1>3. DOMAIN blocks[i] = 1..Len(blocks[i])
  BY <1>2
<1>4. \A k \in 1..Len(blocks[i]) : At(i, k) \in 1..pos /\ blocks[i][k] = mem[At(i, k)]
  BY <1>3, Zenon DEF LayoutInv
<1>5. 1..pos \subseteq DOMAIN mem
  BY <1>1
<1>6. \A k \in 1..Len(blocks[i]) : k \in 1..BlockRecords
  BY <1>1, TableBoundsAssumption
<1> QED
  BY <1>1, <1>2, <1>3, <1>4, <1>5, <1>6, Zenon

\* The first records of the blocks are in order, so that the search of a scan
\* finds the last block that begins by t, or the first block.
LEMMA StartBlockFacts ==
  ASSUME TypeOK, Sorted, LayoutInv, blocks # << >>, NEW t \in Int
  PROVE  \E n \in 0..Len(blocks) :
            /\ \A i \in DOMAIN blocks : MinTimestampOf(i) <= t <=> i <= n
            /\ StartBlock(t) = (IF n = 0 THEN 1 ELSE n) /\ StartBlock(t) \in DOMAIN blocks
<1> DEFINE S == {i \in DOMAIN blocks : MinTimestampOf(i) <= t}
<1>1. Len(blocks) \in Nat \ {0} /\ DOMAIN blocks = 1..Len(blocks)
  <2>1. blocks \in Seq(Seq(Records))
    BY Zenon DEF TypeOK
  <2> QED
    BY <2>1
<1>2. ASSUME NEW i \in DOMAIN blocks
      PROVE /\ At(i, 1) \in DOMAIN mem /\ MinTimestampOf(i) = mem[At(i, 1)].ts
            /\ MinTimestampOf(i) \in Int
  <2>1. Len(blocks[i]) \in 1..BlockRecords
    BY BlockHolds, Zenon
  <2>2. 1 \in 1..Len(blocks[i])
    BY <2>1, TableBoundsAssumption
  <2>3. At(i, 1) \in DOMAIN mem /\ blocks[i][1] = mem[At(i, 1)]
    BY <2>2, BlockHolds, Zenon
  <2>4. mem[At(i, 1)].ts \in Int
    BY <2>3, TimesInOrder, Zenon
  <2> QED
    BY <2>3, <2>4, Zenon DEF MinTimestampOf
<1>3. ASSUME NEW i \in DOMAIN blocks, NEW j \in DOMAIN blocks, j <= i
      PROVE  MinTimestampOf(j) <= MinTimestampOf(i)
  <2>1. At(j, 1) <= At(i, 1)
    <3>1. i \in Nat \ {0} /\ j \in Nat \ {0}
      BY <1>1
    <3>2. BlockRecords \in Nat
      BY TableBoundsAssumption
    <3>3. /\ At(i, 0) \in Nat /\ At(j, 0) \in Nat
          /\ At(i, 1) = At(i, 0) + 1 /\ At(j, 1) = At(j, 0) + 1
          /\ j < i => At(j, 0) + BlockRecords <= At(i, 0)
      BY <3>1, Positions, Zenon
    <3> QED
      BY <1>3, <3>1, <3>2, <3>3
  <2>2. mem[At(j, 1)].ts <= mem[At(i, 1)].ts
    BY <1>2, <2>1, TimesInOrder, Zenon
  <2> QED
    BY <1>2, <2>2, Zenon
<1>4. ASSUME NEW i \in S, NEW j \in 1..i PROVE j \in S
  <2>1. i \in DOMAIN blocks /\ MinTimestampOf(i) <= t /\ j \in DOMAIN blocks /\ j <= i
    BY <1>1
  <2>2. MinTimestampOf(i) \in Int /\ MinTimestampOf(j) \in Int /\ MinTimestampOf(j) <= MinTimestampOf(i)
    BY <1>2, <1>3, <2>1, Zenon
  <2>3. MinTimestampOf(j) <= t
    BY <2>1, <2>2
  <2> QED
    BY <2>1, <2>3, Zenon
<1>5. PICK n \in 0..Len(blocks) : S = 1..n /\ Cardinality(S) = n
  <2>1. S \in SUBSET (1..Len(blocks)) /\ Len(blocks) \in Nat
    BY <1>1, Zenon
  <2> HIDE DEF S
  <2> QED
    BY <1>4, <2>1, DownwardClosed, Zenon
<1>6. StartBlock(t) = IF n = 0 THEN 1 ELSE n
  BY <1>5, Zenon DEF StartBlock
<1>7. StartBlock(t) \in DOMAIN blocks
  BY <1>1, <1>6
<1>8. ASSUME NEW i \in DOMAIN blocks PROVE MinTimestampOf(i) <= t <=> i <= n
  <2>1. i \in 1..n <=> i <= n
    BY <1>1
  <2>2. i \in S <=> MinTimestampOf(i) <= t
    BY Zenon
  <2> QED
    BY <1>5, <2>1, <2>2, Zenon
<1> QED
  BY <1>6, <1>7, <1>8, Zenon

-----------------------------------------------------------------------------
(* The invariant of the flush *)

\* The initial state.
LEMMA InitTable ==
  ASSUME Init
  PROVE  TableInv
<1>1. /\ phase = "fill" /\ mem = << >> /\ pos = 0 /\ pending = << >> /\ blocks = << >> /\ out = << >>
  BY Zenon DEF Init
<1>2. << >> \in Seq(Records) /\ << >> \in Seq(Seq(Records)) /\ Len(<< >>) = 0 /\ DOMAIN << >> = {}
  OBVIOUS
<1>3. 0 \in 0..0 /\ 0 < BlockRecords /\ 0 + 1 = 1
  BY TableBoundsAssumption
<1>4. TypeOK
  BY <1>1, <1>2, <1>3, Zenon DEF TypeOK
<1>5. Sorted
  BY <1>1, <1>2, Zenon DEF Sorted
<1>6. At(1, 0) = 0
  BY Positions
<1>7. LayoutInv
  BY <1>1, <1>2, <1>3, <1>6, Zenon DEF LayoutInv, Writing
<1>8. PositionInv /\ FlushNeverOutOfOrder
  BY <1>1, Zenon DEF PositionInv, FlushNeverOutOfOrder
<1> QED
  BY <1>4, <1>5, <1>7, <1>8, Zenon DEF TableInv

\* Memtable.Append.
LEMMA MemAppendKeeps ==
  ASSUME TableInv, NEW r \in Records, MemAppend(r)
  PROVE  TableInv'
<1>1. TypeOK /\ Sorted /\ LayoutInv /\ PositionInv
  BY Zenon DEF TableInv
<1>2. /\ phase = "fill" /\ phase' = phase /\ pos' = pos /\ pending' = pending /\ blocks' = blocks
      /\ out' = out
  BY Zenon DEF MemAppend
<1>3. mem \in Seq(Records)
  BY <1>1, Zenon DEF TypeOK
<1>4. mem' \in Seq(Records) /\ Sorted' /\ Len(mem') = Len(mem) + 1
  BY <1>1, <1>3, MemAppendSorts, Zenon
<1>5. pos = 0 /\ blocks = << >> /\ pending = << >> /\ out = << >>
  BY <1>1, <1>2, Zenon DEF LayoutInv, PositionInv
<1>6. << >> \in Seq(Records) /\ << >> \in Seq(Seq(Records)) /\ Len(<< >>) = 0 /\ DOMAIN << >> = {}
  OBVIOUS
<1>7. 0 \in 0..Len(mem') /\ 0 < BlockRecords /\ 0 + 1 = 1
  BY <1>4, TableBoundsAssumption
<1>8. TypeOK'
  BY <1>2, <1>4, <1>5, <1>6, <1>7, Zenon DEF TypeOK
<1>9. At(1, 0) = 0
  BY Positions
<1>10. LayoutInv'
  BY <1>2, <1>5, <1>6, <1>7, <1>9, Zenon DEF LayoutInv, Writing
<1>11. (PositionInv /\ FlushNeverOutOfOrder)'
  BY <1>2, <1>5, Zenon DEF PositionInv, FlushNeverOutOfOrder
<1> QED
  BY <1>4, <1>8, <1>10, <1>11, Zenon DEF TableInv

\* The start of a flush.
LEMMA BeginWriteKeeps ==
  ASSUME TableInv, BeginWrite
  PROVE  TableInv'
<1>1. TypeOK /\ Sorted /\ LayoutInv /\ PositionInv
  BY Zenon DEF TableInv
<1>2. /\ phase = "fill" /\ phase' = "write" /\ mem # << >> /\ mem' = mem /\ pos' = pos
      /\ pending' = pending /\ blocks' = blocks /\ out' = out
  BY Zenon DEF BeginWrite
<1>3. TypeOK'
  BY <1>1, <1>2, Zenon DEF TypeOK
<1>4. Sorted'
  BY <1>1, <1>2, Zenon DEF Sorted
<1>5. pos = 0 /\ blocks = << >> /\ pending = << >> /\ out = << >>
  BY <1>1, <1>2, Zenon DEF LayoutInv, PositionInv
<1>6. Len(<< >>) = 0 /\ DOMAIN << >> = {} /\ 0 + 1 = 1
  OBVIOUS
<1>7. At(1, 0) = 0
  BY Positions
<1>8. LayoutInv'
  BY <1>2, <1>5, <1>6, <1>7, Zenon DEF LayoutInv, Writing
<1>9. (PositionInv /\ FlushNeverOutOfOrder)'
  BY <1>2, <1>5, Zenon DEF PositionInv, FlushNeverOutOfOrder
<1> QED
  BY <1>3, <1>4, <1>8, <1>9, Zenon DEF TableInv

\* Appending a record to the pending ones, which are followed by it in the memtable.
LEMMA PendingGrows ==
  ASSUME TypeOK, LayoutInv, phase = "write", pos < Len(mem)
  PROVE  /\ Append(pending, mem[pos + 1]) \in Seq(Records)
         /\ Len(Append(pending, mem[pos + 1])) = Len(pending) + 1
         /\ DOMAIN Append(pending, mem[pos + 1]) = 1..(Len(pending) + 1)
         /\ pos + 1 = At(Len(blocks) + 1, Len(pending) + 1) /\ pos + 1 \in 1..Len(mem)
         /\ \A k \in 1..(Len(pending) + 1) :
               /\ At(Len(blocks) + 1, k) \in 1..(pos + 1)
               /\ Append(pending, mem[pos + 1])[k] = mem[At(Len(blocks) + 1, k)]
<1>1. /\ mem \in Seq(Records) /\ pos \in 0..Len(mem) /\ pending \in Seq(Records)
      /\ blocks \in Seq(Seq(Records))
  BY Zenon DEF TypeOK
<1>2. pos + 1 \in 1..Len(mem) /\ mem[pos + 1] \in Records /\ pos \in Nat
  BY <1>1
<1> DEFINE r == mem[pos + 1]
           b == Append(pending, r)
           n == Len(blocks) + 1
           c == Len(pending)
<1>3. r \in Records
  BY <1>2
<1>4. n \in Nat \ {0} /\ c \in Nat
  BY <1>1
<1>5. pos = At(n, c) /\ \A k \in 1..c : pending[k] = mem[At(n, k)]
  <2>1. DOMAIN pending = 1..c
    BY <1>1
  <2> QED
    BY <2>1, Zenon DEF LayoutInv, Writing
<1>6. At(n, 0) \in Nat /\ \A k \in Nat : At(n, k) = At(n, 0) + k
  <2> HIDE DEF n
  <2> QED
    BY <1>4, Positions, Zenon
<1>7. r = mem[pos + 1]
  OBVIOUS
<1> HIDE DEF n, r
<1>8. b \in Seq(Records) /\ Len(b) = c + 1 /\ DOMAIN b = 1..(c + 1)
      /\ b[c + 1] = r /\ \A k \in 1..c : b[k] = pending[k]
  BY <1>1, <1>3
<1>9. pos + 1 = At(n, c + 1)
  BY <1>4, <1>5, <1>6
<1>10. ASSUME NEW k \in 1..(c + 1) PROVE At(n, k) \in 1..(pos + 1) /\ b[k] = mem[At(n, k)]
  <2>1. At(n, k) = At(n, 0) + k /\ At(n, c) = At(n, 0) + c /\ k \in Nat
    BY <1>4, <1>6
  <2>2. At(n, k) \in 1..(pos + 1)
    <3>1. pos = At(n, 0) + c /\ At(n, 0) \in Nat
      BY <1>5, <1>6, <2>1, Zenon
    <3> QED
      BY <1>4, <2>1, <3>1
  <2>3. k \in 1..c \/ k = c + 1
    BY <1>4
  <2> HIDE DEF b, c
  <2>4. b[k] = mem[At(n, k)]
    BY <1>5, <1>7, <1>8, <1>9, <2>3, Zenon
  <2> QED
    BY <2>2, <2>4
<1> HIDE DEF b, c
<1> QED
  BY <1>2, <1>8, <1>9, <1>10, Zenon DEF b, c, n, r

\* Writer.flushBlock.
LEMMA FlushBlock ==
  ASSUME blocks \in Seq(Seq(Records)), NEW b \in Seq(Records)
  PROVE  /\ Append(blocks, b) \in Seq(Seq(Records)) /\ Len(Append(blocks, b)) = Len(blocks) + 1
         /\ DOMAIN Append(blocks, b) = 1..(Len(blocks) + 1)
         /\ Append(blocks, b)[Len(blocks) + 1] = b
         /\ \A i \in 1..Len(blocks) : Append(blocks, b)[i] = blocks[i]
  OBVIOUS

\* An Add that fills a block writes it.
LEMMA AddFull ==
  ASSUME TypeOK, LayoutInv, phase = "write", pos < Len(mem), phase' = phase, pos' = pos + 1,
         mem' = mem, Len(Append(pending, mem[pos + 1])) >= BlockRecords,
         blocks' = Append(blocks, Append(pending, mem[pos + 1])), pending' = << >>, out' = out
  PROVE  TypeOK' /\ LayoutInv'
<1> DEFINE b == Append(pending, mem[pos + 1])
           n == Len(blocks)
<1>1. /\ mem \in Seq(Records) /\ pos \in 0..Len(mem) /\ pending \in Seq(Records)
      /\ Len(pending) < BlockRecords /\ blocks \in Seq(Seq(Records)) /\ out \in Seq(Records)
      /\ \A i \in DOMAIN blocks : Len(blocks[i]) \in 1..BlockRecords
      /\ phase \in {"fill", "write", "error", "finished", "scan", "failed", "done"}
  BY Zenon DEF TypeOK
<1>2. /\ b \in Seq(Records) /\ Len(b) = Len(pending) + 1 /\ DOMAIN b = 1..(Len(pending) + 1)
      /\ pos + 1 = At(n + 1, Len(pending) + 1) /\ pos + 1 \in 1..Len(mem)
      /\ \A k \in 1..(Len(pending) + 1) : At(n + 1, k) \in 1..(pos + 1) /\ b[k] = mem[At(n + 1, k)]
  BY PendingGrows, Zenon
<1>3. n \in Nat /\ n + 1 \in Nat \ {0} /\ DOMAIN blocks = 1..n /\ BlockRecords \in Nat \ {0}
  BY <1>1, TableBoundsAssumption
<1>4. Len(b) >= BlockRecords
  OBVIOUS
<1>5. /\ blocks' \in Seq(Seq(Records)) /\ Len(blocks') = n + 1 /\ DOMAIN blocks' = 1..(n + 1)
      /\ blocks'[n + 1] = b /\ \A i \in 1..n : blocks'[i] = blocks[i]
  BY <1>1, <1>2, FlushBlock, Zenon
<1> HIDE DEF b, n
<1>6. Len(b) = BlockRecords /\ Len(b) \in 1..BlockRecords /\ Len(pending) + 1 = BlockRecords
  <2>1. Len(pending) \in Nat
    BY <1>1
  <2> QED
    BY <1>1, <1>2, <1>3, <1>4, <2>1
<1>7. pos' = At((n + 1) + 1, 0)
  <2>1. /\ At((n + 1) + 1, 0) = At(n + 1, 0) + BlockRecords
        /\ At(n + 1, BlockRecords) = At(n + 1, 0) + BlockRecords
    BY <1>3, Positions, Zenon
  <2> QED
    BY <1>2, <1>6, <2>1, Zenon
<1>8. \A i \in 1..(n + 1) : i \in 1..n \/ i = n + 1
  BY <1>3
<1>9. << >> \in Seq(Records) /\ Len(<< >>) = 0 /\ DOMAIN << >> = {} /\ 0 < BlockRecords
      /\ pos + 1 \in 0..Len(mem) /\ 1..pos \subseteq 1..(pos + 1)
  BY <1>1, <1>2, <1>3
<1>10. \A i \in 1..n : Len(blocks[i]) \in 1..BlockRecords
  BY <1>1, <1>3, Zenon
<1>11. TypeOK'
  <2>1. \A i \in DOMAIN blocks' : Len(blocks'[i]) \in 1..BlockRecords
    BY <1>5, <1>6, <1>8, <1>10, Zenon
  <2> QED
    BY <1>1, <1>5, <1>9, <2>1, Zenon DEF TypeOK
<1>12. LayoutInv'
  <2>1. /\ \A i \in 1..n : \A k \in DOMAIN blocks[i] : At(i, k) \in 1..pos /\ blocks[i][k] = mem[At(i, k)]
        /\ \A i \in 1..n : Len(blocks[i]) = BlockRecords
        /\ mem # << >>
    BY <1>3, Zenon DEF LayoutInv, Writing
  <2>2. ASSUME NEW i \in DOMAIN blocks', NEW k \in DOMAIN blocks'[i]
        PROVE  At(i, k) \in 1..pos' /\ blocks'[i][k] = mem'[At(i, k)]
    <3>1. CASE i \in 1..n
      <4>1. blocks'[i] = blocks[i]
        BY <1>5, <3>1, Zenon
      <4>2. At(i, k) \in 1..pos /\ blocks[i][k] = mem[At(i, k)]
        BY <2>1, <2>2, <3>1, <4>1, Zenon
      <4> QED
        BY <1>9, <4>1, <4>2, Zenon
    <3>2. CASE i = n + 1
      BY <1>2, <1>5, <2>2, <3>2, Zenon
    <3> QED
      BY <1>5, <1>8, <3>1, <3>2, Zenon
  <2>3. \A i \in DOMAIN blocks' : Len(blocks'[i]) = BlockRecords
    BY <1>5, <1>6, <1>8, <2>1, Zenon
  <2> QED
    BY <1>5, <1>7, <1>9, <2>1, <2>2, <2>3, Zenon DEF LayoutInv, Writing
<1> QED
  BY <1>11, <1>12

\* Any other Add leaves the record pending.
LEMMA AddNotFull ==
  ASSUME TypeOK, LayoutInv, phase = "write", pos < Len(mem), phase' = phase, pos' = pos + 1,
         mem' = mem, ~(Len(Append(pending, mem[pos + 1])) >= BlockRecords),
         blocks' = blocks, pending' = Append(pending, mem[pos + 1]), out' = out
  PROVE  TypeOK' /\ LayoutInv'
<1> DEFINE b == Append(pending, mem[pos + 1])
           n == Len(blocks)
<1>1. /\ mem \in Seq(Records) /\ pos \in 0..Len(mem) /\ pending \in Seq(Records)
      /\ blocks \in Seq(Seq(Records)) /\ out \in Seq(Records)
      /\ \A i \in DOMAIN blocks : Len(blocks[i]) \in 1..BlockRecords
      /\ phase \in {"fill", "write", "error", "finished", "scan", "failed", "done"}
  BY Zenon DEF TypeOK
<1>2. /\ b \in Seq(Records) /\ Len(b) = Len(pending) + 1 /\ DOMAIN b = 1..(Len(pending) + 1)
      /\ pos + 1 = At(n + 1, Len(pending) + 1) /\ pos + 1 \in 1..Len(mem)
      /\ \A k \in 1..(Len(pending) + 1) : At(n + 1, k) \in 1..(pos + 1) /\ b[k] = mem[At(n + 1, k)]
  BY PendingGrows, Zenon
<1>3. Len(b) < BlockRecords
  <2>1. Len(b) \in Nat /\ BlockRecords \in Nat
    BY <1>2, TableBoundsAssumption
  <2> QED
    BY <2>1
<1>4. pos + 1 \in 0..Len(mem) /\ 1..pos \subseteq 1..(pos + 1)
  BY <1>1, <1>2
<1> HIDE DEF b
<1>5. pending' = b
  BY DEF b
<1>6. TypeOK'
  BY <1>1, <1>2, <1>3, <1>4, <1>5, Zenon DEF TypeOK
<1>7. LayoutInv'
  <2>1. /\ \A i \in DOMAIN blocks : \A k \in DOMAIN blocks[i] :
              At(i, k) \in 1..pos /\ blocks[i][k] = mem[At(i, k)]
        /\ \A i \in DOMAIN blocks : Len(blocks[i]) = BlockRecords
        /\ mem # << >>
    BY Zenon DEF LayoutInv, Writing
  <2>2. \A i \in DOMAIN blocks : \A k \in DOMAIN blocks[i] : At(i, k) \in 1..(pos + 1)
    BY <1>4, <2>1, Zenon
  <2> QED
    BY <1>2, <1>5, <2>1, <2>2, Zenon DEF LayoutInv, Writing
<1> QED
  BY <1>6, <1>7

\* Writer.Add: the records come in order, so that ErrOutOfOrder is never returned.
LEMMA AddKeeps ==
  ASSUME TableInv, Add
  PROVE  TableInv'
<1>1. TypeOK /\ Sorted /\ LayoutInv /\ PositionInv
  BY Zenon DEF TableInv
<1>2. phase = "write" /\ pos < Len(mem) /\ mem' = mem /\ out' = out
  BY Zenon DEF Add
<1>3. ~OutOfOrder(mem[pos + 1])
  <2>1. mem \in Seq(Records) /\ pos \in 0..Len(mem)
    BY <1>1, Zenon DEF TypeOK
  <2>2. pos > 0 => pos \in DOMAIN mem /\ pos + 1 \in DOMAIN mem /\ pos < pos + 1
    BY <1>2, <2>1
  <2>3. pos > 0 => ~Precedes(mem[pos + 1], mem[pos])
    BY <1>1, <2>2, Zenon DEF Sorted
  <2> QED
    BY <2>3, Zenon DEF OutOfOrder, Precedes
<1>4. pos' = pos + 1 /\ phase' = phase
  BY <1>3, Zenon DEF Add
<1>5. TypeOK' /\ LayoutInv'
  <2>1. CASE Len(Append(pending, mem[pos + 1])) >= BlockRecords
    <3>1. blocks' = Append(blocks, Append(pending, mem[pos + 1])) /\ pending' = << >>
      BY <1>3, <2>1, Zenon DEF Add
    <3> QED
      BY <1>1, <1>2, <1>4, <2>1, <3>1, AddFull, Zenon
  <2>2. CASE ~(Len(Append(pending, mem[pos + 1])) >= BlockRecords)
    <3>1. blocks' = blocks /\ pending' = Append(pending, mem[pos + 1])
      BY <1>3, <2>2, Zenon DEF Add
    <3> QED
      BY <1>1, <1>2, <1>4, <2>2, <3>1, AddNotFull, Zenon
  <2> QED
    BY <2>1, <2>2, Zenon
<1>6. Sorted'
  BY <1>1, <1>2, Zenon DEF Sorted
<1>7. (PositionInv /\ FlushNeverOutOfOrder)'
  BY <1>1, <1>2, <1>4, Zenon DEF PositionInv, FlushNeverOutOfOrder
<1> QED
  BY <1>5, <1>6, <1>7, Zenon DEF TableInv

\* Writer.Finish with nothing pending.
LEMMA FinishEmpty ==
  ASSUME TypeOK, LayoutInv, phase = "write", pos = Len(mem), pending = << >>,
         phase' = "finished", pending' = << >>, blocks' = blocks, mem' = mem, pos' = pos, out' = out
  PROVE  TypeOK' /\ LayoutInv'
<1> DEFINE n == Len(blocks)
<1>1. mem \in Seq(Records) /\ blocks \in Seq(Seq(Records))
  BY Zenon DEF TypeOK
<1>2. TypeOK'
  <2>1. "finished" \in {"fill", "write", "error", "finished", "scan", "failed", "done"}
    OBVIOUS
  <2> QED
    BY <2>1, Zenon DEF TypeOK
<1>3. /\ pos = At(n + 1, Len(pending)) /\ mem # << >>
      /\ \A i \in DOMAIN blocks : Len(blocks[i]) = BlockRecords
  BY Zenon DEF LayoutInv, Writing
<1>4. n \in Nat /\ n + 1 \in Nat /\ DOMAIN blocks = 1..n /\ Len(<< >>) = 0 /\ 0 + 1 = 1
      /\ Len(mem) # 0 /\ BlockRecords \in Nat
  <2>1. mem # << >>
    BY <1>3, Zenon
  <2> QED
    BY <1>1, <2>1, TableBoundsAssumption
<1>5. n # 0
  <2>1. At(1, 0) = 0
    BY Positions
  <2> QED
    BY <1>3, <1>4, <2>1, Zenon
<1>6. n \in DOMAIN blocks /\ blocks # << >>
  BY <1>4, <1>5
<1>7. Len(mem) = At(n, Len(blocks[n]))
  <2>1. n \in Nat \ {0}
    BY <1>4, <1>5
  <2>2. At(n + 1, 0) = At(n, 0) + BlockRecords /\ At(n, BlockRecords) = At(n, 0) + BlockRecords
    <3> HIDE DEF n
    <3> QED
      BY <1>4, <2>1, Positions, Zenon
  <2> QED
    BY <1>3, <1>4, <1>6, <2>2, Zenon
<1>8. LayoutInv'
  BY <1>3, <1>6, <1>7, Zenon DEF LayoutInv, Writing
<1> QED
  BY <1>2, <1>8

\* Writer.Finish with a last block that is not full.
LEMMA FinishPending ==
  ASSUME TypeOK, LayoutInv, phase = "write", pos = Len(mem), pending # << >>,
         phase' = "finished", pending' = << >>, blocks' = Append(blocks, pending),
         mem' = mem, pos' = pos, out' = out
  PROVE  TypeOK' /\ LayoutInv'
<1> DEFINE n == Len(blocks)
<1>1. /\ mem \in Seq(Records) /\ pos \in 0..Len(mem) /\ pending \in Seq(Records)
      /\ Len(pending) < BlockRecords /\ blocks \in Seq(Seq(Records)) /\ out \in Seq(Records)
      /\ \A i \in DOMAIN blocks : Len(blocks[i]) \in 1..BlockRecords
  BY Zenon DEF TypeOK
<1>2. n \in Nat /\ n + 1 \in Nat \ {0} /\ DOMAIN blocks = 1..n /\ BlockRecords \in Nat \ {0}
  BY <1>1, TableBoundsAssumption
<1>3. /\ blocks' \in Seq(Seq(Records)) /\ Len(blocks') = n + 1 /\ DOMAIN blocks' = 1..(n + 1)
      /\ blocks'[n + 1] = pending /\ \A i \in 1..n : blocks'[i] = blocks[i]
  BY <1>1, FlushBlock, Zenon
<1> HIDE DEF n
<1>4. Len(pending) \in 1..BlockRecords /\ Len(pending) \in Nat /\ DOMAIN pending = 1..Len(pending)
  BY <1>1, <1>2
<1>5. << >> \in Seq(Records) /\ Len(<< >>) = 0 /\ 0 < BlockRecords
  BY <1>2
<1>6. \A i \in 1..(n + 1) : (i \in 1..n \/ i = n + 1) /\ (i < n + 1 => i \in 1..n)
  BY <1>2
<1>7. TypeOK'
  <2>1. \A i \in DOMAIN blocks' : Len(blocks'[i]) \in 1..BlockRecords
    BY <1>1, <1>2, <1>3, <1>4, <1>6, Zenon
  <2> QED
    BY <1>1, <1>3, <1>5, <2>1, Zenon DEF TypeOK
<1>8. /\ \A i \in 1..n : \A k \in DOMAIN blocks[i] : At(i, k) \in 1..pos /\ blocks[i][k] = mem[At(i, k)]
      /\ \A i \in 1..n : Len(blocks[i]) = BlockRecords
      /\ pos = At(n + 1, Len(pending)) /\ mem # << >>
      /\ \A k \in DOMAIN pending : pending[k] = mem[At(n + 1, k)]
  BY <1>2, Zenon DEF LayoutInv, Writing, n
<1>9. ASSUME NEW k \in DOMAIN pending PROVE At(n + 1, k) \in 1..pos
  <2>1. /\ At(n + 1, 0) \in Nat /\ At(n + 1, k) = At(n + 1, 0) + k
        /\ At(n + 1, Len(pending)) = At(n + 1, 0) + Len(pending)
    <3>1. k \in Nat
      BY <1>4
    <3> QED
      BY <1>2, <1>4, <3>1, Positions, Zenon
  <2>2. pos = At(n + 1, 0) + Len(pending)
    BY <1>8, <2>1, Zenon
  <2> QED
    BY <1>4, <2>1, <2>2
<1>10. ASSUME NEW i \in DOMAIN blocks', NEW k \in DOMAIN blocks'[i]
      PROVE  At(i, k) \in 1..pos' /\ blocks'[i][k] = mem'[At(i, k)]
  <2>1. CASE i \in 1..n
    <3>1. blocks'[i] = blocks[i]
      BY <1>3, <2>1, Zenon
    <3>2. At(i, k) \in 1..pos /\ blocks[i][k] = mem[At(i, k)]
      BY <1>8, <1>10, <2>1, <3>1, Zenon
    <3> QED
      BY <3>1, <3>2, Zenon
  <2>2. CASE i = n + 1
    BY <1>3, <1>8, <1>9, <1>10, <2>2, Zenon
  <2> QED
    BY <1>3, <1>6, <2>1, <2>2, Zenon
<1>11. \A i \in DOMAIN blocks' : i < Len(blocks') => Len(blocks'[i]) = BlockRecords
  BY <1>3, <1>6, <1>8, Zenon
<1>12. blocks' # << >>
  BY <1>2, <1>3, <1>5
<1>13. LayoutInv'
  BY <1>3, <1>8, <1>10, <1>11, <1>12, Zenon DEF LayoutInv, Writing
<1> QED
  BY <1>7, <1>13

\* Writer.Finish.
LEMMA FinishKeeps ==
  ASSUME TableInv, Finish
  PROVE  TableInv'
<1>1. TypeOK /\ Sorted /\ LayoutInv /\ PositionInv
  BY Zenon DEF TableInv
<1>2. /\ phase = "write" /\ pos = Len(mem) /\ pending' = << >> /\ phase' = "finished"
      /\ mem' = mem /\ pos' = pos /\ out' = out
  BY Zenon DEF Finish
<1>3. TypeOK' /\ LayoutInv'
  <2>1. CASE pending = << >>
    <3>1. blocks' = blocks
      BY <2>1, Zenon DEF Finish
    <3> QED
      BY <1>1, <1>2, <2>1, <3>1, FinishEmpty, Zenon
  <2>2. CASE pending # << >>
    <3>1. blocks' = Append(blocks, pending)
      BY <2>2, Zenon DEF Finish
    <3> QED
      BY <1>1, <1>2, <2>2, <3>1, FinishPending, Zenon
  <2> QED
    BY <2>1, <2>2, Zenon
<1>4. Sorted'
  BY <1>1, <1>2, Zenon DEF Sorted
<1>5. (PositionInv /\ FlushNeverOutOfOrder)'
  BY <1>1, <1>2, Zenon DEF PositionInv, FlushNeverOutOfOrder
<1> QED
  BY <1>3, <1>4, <1>5, Zenon DEF TableInv

-----------------------------------------------------------------------------
(* The invariant of a scan *)

\* The bounds of a query are integers.
LEMMA QueryBounds ==
  ASSUME NEW q \in Queries
  PROVE  q.start \in Int /\ q.end \in Int /\ q.src \in Filters
<1>1. q.start \in Bounds /\ q.end \in Bounds /\ q.src \in Filters
  BY DEF Queries
<1>2. ASSUME NEW t \in Bounds PROVE t \in Int
  BY TimesAssumption DEF Bounds
<1> QED
  BY <1>1, <1>2

\* A finished file stays as it is.
LEMMA FileKept ==
  ASSUME TableInv, ~Writing, phase' \in {"finished", "scan", "failed", "done"},
         mem' = mem, pos' = pos, pending' = pending, blocks' = blocks, out' \in Seq(Records)
  PROVE  TypeOK' /\ Sorted' /\ LayoutInv' /\ FlushNeverOutOfOrder'
<1>1. TypeOK /\ Sorted /\ LayoutInv
  BY Zenon DEF TableInv
<1>2. /\ phase' \in {"fill", "write", "error", "finished", "scan", "failed", "done"}
      /\ phase' # "fill" /\ phase' # "write" /\ phase' # "error"
  OBVIOUS
<1>3. TypeOK'
  BY <1>1, <1>2, Zenon DEF TypeOK
<1>4. Sorted'
  BY <1>1, Zenon DEF Sorted
<1>5. ~Writing'
  BY <1>2, Zenon DEF Writing
<1>6. LayoutInv'
  <2>1. \A i \in DOMAIN blocks : i < Len(blocks) => Len(blocks[i]) = BlockRecords
    BY <1>1, Zenon DEF LayoutInv
  <2>2. /\ mem # << >> /\ blocks # << >> /\ pending = << >> /\ pos = Len(mem)
        /\ Len(mem) = At(Len(blocks), Len(blocks[Len(blocks)]))
    BY <1>1, Zenon DEF LayoutInv
  <2>3. \A i \in DOMAIN blocks : \A k \in DOMAIN blocks[i] :
           At(i, k) \in 1..pos /\ blocks[i][k] = mem[At(i, k)]
    BY <1>1, Zenon DEF LayoutInv
  <2> QED
    BY <1>2, <1>5, <2>1, <2>2, <2>3, Zenon DEF LayoutInv
<1>7. FlushNeverOutOfOrder'
  BY <1>2, Zenon DEF FlushNeverOutOfOrder
<1> QED
  BY <1>3, <1>4, <1>6, <1>7

\* A finished file has blocks, and a scan of it starts in one of them.
LEMMA StartBlockIn ==
  ASSUME TableInv, ~Writing, NEW t \in Int
  PROVE  blocks # << >> /\ StartBlock(t) \in DOMAIN blocks /\ StartBlock(t) \in Nat \ {0}
<1>1. TypeOK /\ Sorted /\ LayoutInv
  BY Zenon DEF TableInv
<1>2. blocks # << >>
  BY <1>1, Zenon DEF LayoutInv
<1>3. StartBlock(t) \in DOMAIN blocks
  BY <1>1, <1>2, StartBlockFacts, Zenon
<1> QED
  BY <1>1, <1>2, <1>3, BlockHolds, Zenon

\* Reader.Scan.
LEMMA ScanKeeps ==
  ASSUME TableInv, NEW q \in Queries, Scan(q)
  PROVE  TableInv'
<1>1. /\ phase = "finished" /\ query' = q /\ mem' = mem /\ pos' = pos /\ pending' = pending
      /\ blocks' = blocks /\ out' = out
  BY Zenon DEF Scan
<1>2. ~Writing /\ out \in Seq(Records)
  BY <1>1, Zenon DEF Writing, TableInv, TypeOK
<1>3. phase' = "done" \/ (phase' = "scan" /\ blockIdx' = StartBlock(q.start) /\ recIdx' = 1)
  BY Zenon DEF Scan
<1>4. TypeOK' /\ Sorted' /\ LayoutInv' /\ FlushNeverOutOfOrder'
  BY <1>1, <1>2, <1>3, FileKept
<1>5. PositionInv'
  <2>1. CASE phase' = "done"
    BY <1>1, <2>1, Zenon DEF PositionInv
  <2>2. CASE phase' = "scan" /\ blockIdx' = StartBlock(q.start) /\ recIdx' = 1
    <3>1. StartBlock(q.start) \in DOMAIN blocks /\ StartBlock(q.start) \in Nat
      BY <1>2, QueryBounds, StartBlockIn, Zenon
    <3>2. Len(blocks[StartBlock(q.start)]) \in Nat
      <4>1. blocks \in Seq(Seq(Records))
        BY Zenon DEF TableInv, TypeOK
      <4> QED
        BY <3>1, <4>1
    <3>3. 1 \in 1..(Len(blocks[StartBlock(q.start)]) + 1) /\ StartBlock(q.start) <= StartBlock(q.start)
      BY <3>1, <3>2
    <3>4. StartBlock(query.start)' = StartBlock(q.start)
      BY <1>1 DEF StartBlock, MinTimestampOf
    <3> QED
      BY <1>1, <2>2, <3>1, <3>3, <3>4, Zenon DEF PositionInv
  <2> QED
    BY <1>3, <2>1, <2>2, Zenon
<1> QED
  BY <1>4, <1>5, Zenon DEF TableInv

\* Reader.Scan failing.
LEMMA ScanFailsKeeps ==
  ASSUME TableInv, NEW q \in Queries, ScanFails(q)
  PROVE  TableInv'
<1>1. /\ phase = "finished" /\ phase' = "failed" /\ mem' = mem /\ pos' = pos /\ pending' = pending
      /\ blocks' = blocks /\ out' = out
  BY Zenon DEF ScanFails
<1>2. ~Writing /\ out \in Seq(Records)
  BY <1>1, Zenon DEF Writing, TableInv, TypeOK
<1>3. TypeOK' /\ Sorted' /\ LayoutInv' /\ FlushNeverOutOfOrder'
  BY <1>1, <1>2, FileKept
<1>4. PositionInv'
  BY <1>1, Zenon DEF PositionInv
<1> QED
  BY <1>3, <1>4, Zenon DEF TableInv

\* The place of the iterator.
LEMMA ScanPosition ==
  ASSUME TableInv, phase = "scan"
  PROVE  /\ ~Writing /\ TypeOK /\ Sorted /\ LayoutInv /\ query \in Queries /\ out \in Seq(Records)
         /\ blockIdx \in DOMAIN blocks /\ blockIdx \in Nat \ {0} /\ DOMAIN blocks = 1..Len(blocks)
         /\ Len(blocks) \in Nat /\ Len(blocks[blockIdx]) \in 1..BlockRecords
         /\ recIdx \in 1..(Len(blocks[blockIdx]) + 1)
         /\ StartBlock(query.start) <= blockIdx /\ StartBlock(query.start) \in DOMAIN blocks
         /\ StartBlock(query.start) \in Nat \ {0}
<1>1. TypeOK /\ Sorted /\ LayoutInv /\ PositionInv
  BY Zenon DEF TableInv
<1>2. ~Writing
  BY Zenon DEF Writing
<1>3. /\ query \in Queries /\ blockIdx \in DOMAIN blocks
      /\ recIdx \in 1..(Len(blocks[blockIdx]) + 1) /\ StartBlock(query.start) <= blockIdx
  BY <1>1, Zenon DEF PositionInv
<1>4. out \in Seq(Records)
  BY <1>1, Zenon DEF TypeOK
<1>5. StartBlock(query.start) \in DOMAIN blocks /\ StartBlock(query.start) \in Nat \ {0}
  BY <1>2, <1>3, QueryBounds, StartBlockIn, Zenon
<1> QED
  BY <1>1, <1>2, <1>3, <1>4, <1>5, BlockHolds, Zenon

\* The search finds the same block while the file and the query stay.
LEMMA StartBlockKept ==
  ASSUME blocks' = blocks, query' = query
  PROVE  StartBlock(query.start)' = StartBlock(query.start)
  BY DEF StartBlock, MinTimestampOf

\* Next looks at a record.
LEMMA NextRecordKeeps ==
  ASSUME TableInv, NextRecord
  PROVE  TableInv'
<1> DEFINE r == blocks[blockIdx][recIdx]
<1>1. /\ phase = "scan" /\ recIdx <= Len(blocks[blockIdx]) /\ recIdx' = recIdx + 1
      /\ mem' = mem /\ pos' = pos /\ pending' = pending /\ blocks' = blocks /\ query' = query
      /\ blockIdx' = blockIdx
  BY Zenon DEF NextRecord
<1>2. phase' = (IF r.ts >= query.end THEN "done" ELSE "scan")
      /\ out' = (IF Matches(r, query) THEN Append(out, r) ELSE out)
  BY Zenon DEF NextRecord
<1>3. /\ ~Writing /\ TypeOK /\ query \in Queries /\ out \in Seq(Records) /\ blockIdx \in DOMAIN blocks
      /\ Len(blocks[blockIdx]) \in 1..BlockRecords /\ recIdx \in 1..(Len(blocks[blockIdx]) + 1)
      /\ StartBlock(query.start) <= blockIdx
  BY <1>1, ScanPosition, Zenon
<1>4. blocks \in Seq(Seq(Records))
  BY <1>3, Zenon DEF TypeOK
<1>5. recIdx \in DOMAIN blocks[blockIdx] /\ recIdx + 1 \in 1..(Len(blocks[blockIdx]) + 1)
      /\ r \in Records
  <2>1. blocks[blockIdx] \in Seq(Records) /\ Len(blocks[blockIdx]) \in Nat
    BY <1>3, <1>4
  <2>2. recIdx \in 1..Len(blocks[blockIdx]) /\ recIdx + 1 \in 1..(Len(blocks[blockIdx]) + 1)
    BY <1>1, <1>3, <2>1
  <2> QED
    BY <2>1, <2>2
<1> HIDE DEF r
<1>6. phase' \in {"scan", "done"} /\ out' \in Seq(Records)
  BY <1>2, <1>3, <1>5
<1>7. TypeOK' /\ Sorted' /\ LayoutInv' /\ FlushNeverOutOfOrder'
  BY <1>1, <1>3, <1>6, FileKept
<1>8. StartBlock(query.start)' = StartBlock(query.start)
  BY <1>1, StartBlockKept, Zenon
<1>9. phase' # "fill" /\ phase' # "write" /\ phase' # "finished"
  BY <1>6
<1>10. PositionInv'
  BY <1>1, <1>3, <1>5, <1>8, <1>9, Zenon DEF PositionInv
<1> QED
  BY <1>7, <1>10, Zenon DEF TableInv

\* Next loads another block, or the scan is over.
LEMMA NextBlockKeeps ==
  ASSUME TableInv, NextBlock
  PROVE  TableInv'
<1>1. /\ phase = "scan" /\ blockIdx' = blockIdx + 1
      /\ mem' = mem /\ pos' = pos /\ pending' = pending /\ blocks' = blocks /\ query' = query
      /\ out' = out
  BY Zenon DEF NextBlock
<1>2. (MoreBlocks /\ recIdx' = 1 /\ phase' = phase) \/ phase' = "done"
  BY Zenon DEF NextBlock
<1>3. /\ ~Writing /\ TypeOK /\ LayoutInv /\ query \in Queries /\ out \in Seq(Records)
      /\ blockIdx \in DOMAIN blocks /\ DOMAIN blocks = 1..Len(blocks) /\ Len(blocks) \in Nat
      /\ StartBlock(query.start) <= blockIdx /\ StartBlock(query.start) \in Nat
      /\ blockIdx \in Nat
  BY <1>1, ScanPosition, Zenon
<1>4. phase' \in {"scan", "done"}
  BY <1>1, <1>2
<1>5. TypeOK' /\ Sorted' /\ LayoutInv' /\ FlushNeverOutOfOrder'
  BY <1>1, <1>3, <1>4, FileKept
<1>6. StartBlock(query.start)' = StartBlock(query.start)
  BY <1>1, StartBlockKept, Zenon
<1>7. PositionInv'
  <2>1. CASE phase' = "done"
    BY <1>1, <1>3, <2>1, Zenon DEF PositionInv
  <2>2. CASE MoreBlocks /\ recIdx' = 1 /\ phase' = phase
    <3>1. blockIdx < Len(blocks)
      BY <2>2, Zenon DEF MoreBlocks
    <3>2. blockIdx + 1 \in DOMAIN blocks /\ StartBlock(query.start) <= blockIdx + 1
      BY <1>3, <3>1
    <3>3. Len(blocks[blockIdx + 1]) \in 1..BlockRecords
      BY <1>3, <3>2, Zenon DEF TypeOK
    <3>4. 1 \in 1..(Len(blocks[blockIdx + 1]) + 1)
      BY <3>3, TableBoundsAssumption
    <3> QED
      BY <1>1, <1>3, <1>6, <2>2, <3>2, <3>4, Zenon DEF PositionInv
  <2> QED
    BY <1>2, <2>1, <2>2, Zenon
<1> QED
  BY <1>5, <1>7, Zenon DEF TableInv

\* Next fails to load a block.
LEMMA NextBlockFailsKeeps ==
  ASSUME TableInv, NextBlockFails
  PROVE  TableInv'
<1>1. /\ phase = "scan" /\ phase' = "failed" /\ mem' = mem /\ pos' = pos /\ pending' = pending
      /\ blocks' = blocks /\ out' = out
  BY Zenon DEF NextBlockFails
<1>2. ~Writing /\ out \in Seq(Records)
  BY <1>1, ScanPosition, Zenon
<1>3. TypeOK' /\ Sorted' /\ LayoutInv' /\ FlushNeverOutOfOrder'
  BY <1>1, <1>2, FileKept
<1>4. PositionInv'
  BY <1>1, Zenon DEF PositionInv
<1> QED
  BY <1>3, <1>4, Zenon DEF TableInv

\* A step that changes nothing.
LEMMA TableStutters ==
  ASSUME TableInv, UNCHANGED vars
  PROVE  TableInv'
<1>1. /\ phase' = phase /\ mem' = mem /\ pos' = pos /\ pending' = pending /\ blocks' = blocks
      /\ query' = query /\ blockIdx' = blockIdx /\ recIdx' = recIdx /\ out' = out
  BY Zenon DEF vars
<1>2. TypeOK /\ Sorted /\ LayoutInv /\ PositionInv /\ FlushNeverOutOfOrder
  BY Zenon DEF TableInv
<1>3. TypeOK' /\ Sorted' /\ FlushNeverOutOfOrder'
  BY <1>1, <1>2, Zenon DEF TypeOK, Sorted, FlushNeverOutOfOrder
<1>4. LayoutInv'
  BY <1>1, <1>2, Zenon DEF LayoutInv, Writing
<1>5. StartBlock(query.start)' = StartBlock(query.start)
  BY <1>1, StartBlockKept, Zenon
<1>6. PositionInv'
  BY <1>1, <1>2, <1>5, Zenon DEF PositionInv
<1> QED
  BY <1>3, <1>4, <1>6, Zenon DEF TableInv

\* Every step keeps the invariant.
LEMMA TableStep ==
  ASSUME TableInv, [Next]_vars
  PROVE  TableInv'
<1>1. CASE \E r \in Records : MemAppend(r)
  BY <1>1, MemAppendKeeps, Zenon
<1>2. CASE BeginWrite
  BY <1>2, BeginWriteKeeps
<1>3. CASE Add
  BY <1>3, AddKeeps
<1>4. CASE Finish
  BY <1>4, FinishKeeps
<1>5. CASE \E q \in Queries : Scan(q) \/ ScanFails(q)
  BY <1>5, ScanKeeps, ScanFailsKeeps, Zenon
<1>6. CASE NextRecord
  BY <1>6, NextRecordKeeps
<1>7. CASE NextBlock
  BY <1>7, NextBlockKeeps
<1>8. CASE NextBlockFails
  BY <1>8, NextBlockFailsKeeps
<1>9. CASE Done \/ UNCHANGED vars
  BY <1>9, TableStutters, Zenon DEF Done
<1> QED
  BY <1>1, <1>2, <1>3, <1>4, <1>5, <1>6, <1>7, <1>8, <1>9, Zenon DEF Next

\* The invariant of the flush and of the scans: the memtable is in order, the blocks
\* hold its records in that order and are all full but the last, the iterator is in
\* a block.
THEOREM TableInvariance == Spec => []TableInv
<1>1. Init => TableInv
  BY InitTable
<1>2. TableInv /\ [Next]_vars => TableInv'
  BY TableStep
<1> QED
  BY <1>1, <1>2, PTL DEF Spec

\* The variables have their types, and no pending block is as large as a block.
THEOREM TableTypeCorrect == Spec => []TypeOK
<1>1. TableInv => TypeOK
  BY DEF TableInv
<1> QED
  BY <1>1, TableInvariance, PTL

\* Writer.Add never refuses a record of Freeze's iterator, in whatever order the
\* records were appended to the memtable.
THEOREM FlushInOrder == Spec => []FlushNeverOutOfOrder
<1>1. TableInv => FlushNeverOutOfOrder
  BY DEF TableInv
<1> QED
  BY <1>1, TableInvariance, PTL

-----------------------------------------------------------------------------
(* What a scan returns *)

\* Every record of the memtable is in a block of the finished file.
LEMMA InBlock ==
  ASSUME TableInv, ~Writing, NEW p \in DOMAIN mem
  PROVE  \E i \in DOMAIN blocks : \E k \in DOMAIN blocks[i] : p = At(i, k) /\ blocks[i][k] = mem[p]
<1>1. TypeOK /\ LayoutInv
  BY Zenon DEF TableInv
<1>2. /\ blocks # << >> /\ Len(mem) = At(Len(blocks), Len(blocks[Len(blocks)]))
      /\ \A i \in DOMAIN blocks : i < Len(blocks) => Len(blocks[i]) = BlockRecords
  BY <1>1, Zenon DEF LayoutInv
<1> DEFINE n == Len(blocks)
           l == Len(blocks[n])
<1>3. blocks \in Seq(Seq(Records)) /\ mem \in Seq(Records)
  BY <1>1, Zenon DEF TypeOK
<1>4. n \in Nat \ {0} /\ n \in DOMAIN blocks /\ DOMAIN blocks = 1..n
      /\ p \in Nat \ {0} /\ p <= Len(mem)
  BY <1>2, <1>3
<1>5. l \in 1..BlockRecords
  BY <1>1, <1>4, BlockHolds, Zenon
<1>6. PICK i \in Nat \ {0} : \E k \in 1..BlockRecords : p = At(i, k)
  BY <1>4, PositionOf, Zenon
<1>7. PICK k \in 1..BlockRecords : p = At(i, k)
  BY <1>6, Zenon
<1>8. ~(n < i) /\ (n = i => ~(l < k))
  <2>1. At(n, l) < At(i, k) <=> n < i \/ (n = i /\ l < k)
    <3> HIDE DEF n, l
    <3> QED
      BY <1>4, <1>5, PositionUnique, Zenon
  <2>2. At(n, l) = Len(mem)
    BY <1>2, Zenon
  <2>3. ~(Len(mem) < p)
    BY <1>3, <1>4
  <2> QED
    BY <1>7, <2>1, <2>2, <2>3, Zenon
<1> HIDE DEF n
<1>9. i \in DOMAIN blocks /\ (i = n \/ i < n)
  BY <1>4, <1>8
<1>10. Len(blocks[i]) \in 1..BlockRecords /\ DOMAIN blocks[i] = 1..Len(blocks[i])
  BY <1>1, <1>9, BlockHolds, Zenon
<1>11. k \in 1..Len(blocks[i])
  <2>1. CASE i = n
    <3>1. ~(Len(blocks[i]) < k)
      BY <1>8, <2>1, Zenon
    <3>2. Len(blocks[i]) \in Nat /\ k \in Nat /\ k >= 1
      BY <1>7, <1>10, TableBoundsAssumption
    <3> QED
      BY <3>1, <3>2
  <2>2. CASE i < n
    BY <1>2, <1>7, <1>9, <2>2, Zenon DEF n
  <2> QED
    BY <1>9, <2>1, <2>2, Zenon
<1>12. blocks[i][k] = mem[At(i, k)]
  BY <1>1, <1>9, <1>11, BlockHolds, Zenon
<1> QED
  BY <1>7, <1>9, <1>10, <1>11, <1>12, Zenon

\* The footer has the timestamps of the first and the last record.
LEMMA FooterTimes ==
  ASSUME TableInv, ~Writing
  PROVE  /\ mem \in Seq(Records) /\ Len(mem) \in Nat \ {0} /\ DOMAIN mem = 1..Len(mem)
         /\ MinTimestamp = mem[1].ts /\ MaxTimestamp = mem[Len(mem)].ts
         /\ \A p \in DOMAIN mem :
               mem[p].ts \in Int /\ mem[1].ts <= mem[p].ts /\ mem[p].ts <= mem[Len(mem)].ts
<1>1. TypeOK /\ Sorted /\ LayoutInv
  BY Zenon DEF TableInv
<1>2. /\ blocks # << >> /\ mem # << >> /\ Len(mem) = At(Len(blocks), Len(blocks[Len(blocks)]))
  BY <1>1, Zenon DEF LayoutInv
<1>3. blocks \in Seq(Seq(Records)) /\ mem \in Seq(Records)
  BY <1>1, Zenon DEF TypeOK
<1>4. 1 \in DOMAIN blocks /\ Len(blocks) \in DOMAIN blocks /\ Len(mem) \in Nat \ {0}
      /\ DOMAIN mem = 1..Len(mem)
  <2>1. blocks # << >> /\ mem # << >>
    BY <1>2
  <2> QED
    BY <1>3, <2>1
<1>5. ASSUME NEW i \in DOMAIN blocks
      PROVE 1 \in 1..Len(blocks[i]) /\ Len(blocks[i]) \in 1..Len(blocks[i])
  <2>1. Len(blocks[i]) \in 1..BlockRecords
    BY <1>1, BlockHolds, Zenon
  <2> QED
    BY <2>1, TableBoundsAssumption
<1>6. MinTimestamp = mem[1].ts
  <2>1. blocks[1][1] = mem[At(1, 1)]
    BY <1>1, <1>4, <1>5, BlockHolds, Zenon
  <2>2. At(1, 1) = 1
    BY TableBoundsAssumption DEF At
  <2> QED
    BY <2>1, <2>2, Zenon DEF MinTimestamp, MinTimestampOf
<1>7. MaxTimestamp = mem[Len(mem)].ts
  <2>1. blocks[Len(blocks)][Len(blocks[Len(blocks)])] = mem[At(Len(blocks), Len(blocks[Len(blocks)]))]
    BY <1>1, <1>4, <1>5, BlockHolds, Zenon
  <2> QED
    BY <1>2, <2>1, Zenon DEF MaxTimestamp
<1>8. ASSUME NEW p \in DOMAIN mem
      PROVE  mem[p].ts \in Int /\ mem[1].ts <= mem[p].ts /\ mem[p].ts <= mem[Len(mem)].ts
  <2>1. 1 \in DOMAIN mem /\ Len(mem) \in DOMAIN mem /\ 1 <= p /\ p <= Len(mem)
    BY <1>4
  <2> QED
    BY <1>1, <2>1, TimesInOrder, Zenon
<1> QED
  BY <1>3, <1>4, <1>6, <1>7, <1>8, Zenon

\* Reader.Scan answers emptyIter only when no record of the memtable matches.
LEMMA SkipsNothing ==
  ASSUME TableInv, ~Writing, NEW q \in Queries, Skips(q), NEW p \in DOMAIN mem
  PROVE  ~MemMatches(mem[p], q)
<1>1. /\ MinTimestamp = mem[1].ts /\ MaxTimestamp = mem[Len(mem)].ts
      /\ mem[p].ts \in Int /\ mem[1].ts <= mem[p].ts /\ mem[p].ts <= mem[Len(mem)].ts
      /\ mem[1].ts \in Int /\ mem[Len(mem)].ts \in Int
  <2>1. 1 \in DOMAIN mem /\ Len(mem) \in DOMAIN mem
    <3>1. Len(mem) \in Nat \ {0} /\ DOMAIN mem = 1..Len(mem)
      BY FooterTimes, Zenon
    <3> QED
      BY <3>1
  <2> QED
    BY <2>1, FooterTimes, Zenon
<1>2. q.start \in Int /\ q.end \in Int
  BY QueryBounds
<1>3. CASE MaxTimestamp < q.start
  <2>1. ~(q.start <= mem[p].ts)
    BY <1>1, <1>2, <1>3
  <2> QED
    BY <2>1, Zenon DEF MemMatches
<1>4. CASE MinTimestamp >= q.end
  <2>1. ~(mem[p].ts < q.end)
    BY <1>1, <1>2, <1>4
  <2> QED
    BY <2>1, Zenon DEF MemMatches
<1>5. CASE q.src \notin {NilFilter, 0} /\ q.src \notin SrcIndex
  <2>1. mem[p].src \in SrcIndex
    <3>1. PICK i \in DOMAIN blocks : \E k \in DOMAIN blocks[i] : blocks[i][k] = mem[p]
      BY InBlock, Zenon
    <3>2. mem[p].src \in {blocks[i][k].src : k \in DOMAIN blocks[i]}
      BY <3>1
    <3> QED
      BY <3>2 DEF SrcIndex
  <2> QED
    BY <1>5, <2>1, Zenon DEF MemMatches
<1> QED
  BY <1>3, <1>4, <1>5, Zenon DEF Skips

\* Where a record reaches end, the scan has seen all that match.
LEMMA BeyondEnd ==
  ASSUME TableInv, ~Writing, NEW q \in Queries, NEW m \in 0..Len(mem), m + 1 \in DOMAIN mem,
         mem[m + 1].ts >= q.end
  PROVE  MemScan(q) = Selected(mem, q, m)
<1>1. Len(mem) \in Nat /\ DOMAIN mem = 1..Len(mem)
  BY FooterTimes, Zenon
<1>2. ASSUME NEW i \in (m + 1)..Len(mem) PROVE ~MemMatches(mem[i], q)
  <2>1. i \in DOMAIN mem /\ m + 1 <= i
    BY <1>1
  <2>2. mem[m + 1].ts \in Int /\ mem[i].ts \in Int /\ mem[m + 1].ts <= mem[i].ts /\ q.end \in Int
    BY <2>1, TimesInOrder, QueryBounds, Zenon DEF TableInv
  <2>3. ~(mem[i].ts < q.end)
    BY <2>2
  <2> QED
    BY <2>3, Zenon DEF MemMatches
<1>3. Selected(mem, q, Len(mem)) = Selected(mem, q, m)
  BY <1>1, <1>2, SelectedSame, Zenon
<1> QED
  BY <1>3, Zenon DEF MemScan

\* Unless a caller asks for the empty source, the reader filters as the memtable does.
LEMMA FiltersAgree ==
  ASSUME NoEmptyFilter, NEW q \in Queries, NEW r
  PROVE  Matches(r, q) <=> MemMatches(r, q)
<1>1. q.src # 0
  BY QueryBounds, Zenon DEF NoEmptyFilter
<1> QED
  BY <1>1, Zenon DEF Matches, MemMatches

\* Answers grow at their end.
LEMMA AnswerGrows ==
  ASSUME NEW a \in Seq(Records), NEW b \in Seq(Records), NEW r \in Records
  PROVE  a \o << >> = a /\ Append(a \o b, r) = a \o Append(b, r)
  OBVIOUS

\* What precedes the first block of a scan.
LEMMA BeforeScan ==
  ASSUME TableInv, ~Writing, NEW q \in Queries
  PROVE  /\ At(StartBlock(q.start), 1) - 1 = At(StartBlock(q.start), 0)
         /\ At(StartBlock(q.start), 0) \in 0..Len(mem)
         /\ Selected(mem, q, At(StartBlock(q.start), 0)) \in Seq(Records)
         /\ FromMatching(mem, q, At(StartBlock(q.start), 0))
<1>1. /\ mem \in Seq(Records) /\ Len(mem) \in Nat /\ DOMAIN mem = 1..Len(mem)
  BY FooterTimes, Zenon
<1> DEFINE n == StartBlock(q.start)
<1>2. n \in DOMAIN blocks /\ n \in Nat \ {0}
  BY QueryBounds, StartBlockIn, Zenon
<1> HIDE DEF n
<1>3. At(n, 0) \in Nat /\ At(n, 1) = At(n, 0) + 1
  BY <1>2, Positions, Zenon
<1>4. At(n, 1) \in DOMAIN mem
  <2>1. TypeOK /\ LayoutInv
    BY Zenon DEF TableInv
  <2>2. Len(blocks[n]) \in 1..BlockRecords
    BY <1>2, <2>1, BlockHolds, Zenon
  <2>3. 1 \in 1..Len(blocks[n])
    BY <2>2, TableBoundsAssumption
  <2> QED
    BY <1>2, <2>1, <2>3, BlockHolds, Zenon
<1>5. At(n, 1) - 1 = At(n, 0) /\ At(n, 0) \in 0..Len(mem)
  BY <1>1, <1>3, <1>4
<1>6. /\ Selected(mem, q, At(n, 0)) \in Seq(Records)
      /\ FromMatching(mem, q, At(n, 0))
  BY <1>1, <1>5, SelectedFacts, Zenon
<1> QED
  BY <1>5, <1>6, Zenon DEF n

\* Scan begins with the answer of what precedes its first block, or with the whole answer.
LEMMA ScanAnswers ==
  ASSUME TableInv, NEW q \in Queries, Scan(q)
  PROVE  AnswerInv'
<1>1. /\ phase = "finished" /\ query' = q /\ mem' = mem /\ blocks' = blocks /\ out' = out
  BY Zenon DEF Scan
<1>2. ~Writing /\ out = << >>
  BY <1>1, Zenon DEF Writing, TableInv, PositionInv
<1> DEFINE before == Selected(mem, q, At(StartBlock(q.start), 0))
<1>3. FirstSeen' - 1 = At(StartBlock(q.start), 0)
  <2>1. StartBlock(query.start)' = StartBlock(q.start)
    BY <1>1 DEF StartBlock, MinTimestampOf
  <2>2. At(StartBlock(q.start), 1) - 1 = At(StartBlock(q.start), 0)
    BY <1>2, BeforeScan, Zenon
  <2>3. FirstSeen' = At(StartBlock(query.start)', 1)
    BY DEF FirstSeen, At
  <2> QED
    BY <2>1, <2>2, <2>3, Zenon
<1>4. before \o << >> = before
  <2>1. before \in Seq(Records)
    BY <1>2, BeforeScan, Zenon
  <2> HIDE DEF before
  <2> QED
    BY <2>1
<1>5. CASE Skips(q)
  <2>1. phase' = "done"
    BY <1>5, Zenon DEF Scan
  <2>2. MemScan(q) = before
    <3>1. At(StartBlock(q.start), 0) \in 0..Len(mem) /\ Len(mem) \in Nat /\ DOMAIN mem = 1..Len(mem)
      BY <1>2, BeforeScan, FooterTimes, Zenon
    <3>2. \A i \in (At(StartBlock(q.start), 0) + 1)..Len(mem) : i \in DOMAIN mem
      BY <3>1
    <3>3. \A i \in (At(StartBlock(q.start), 0) + 1)..Len(mem) : ~MemMatches(mem[i], q)
      BY <1>2, <1>5, <3>2, SkipsNothing, Zenon
    <3>4. Selected(mem, q, Len(mem)) = Selected(mem, q, At(StartBlock(q.start), 0))
      BY <3>1, <3>3, SelectedSame, Zenon
    <3> QED
      BY <3>4, Zenon DEF MemScan
  <2>3. MemScan(query)' = MemScan(q)
    BY <1>1, Zenon DEF MemScan
  <2>4. Selected(mem, query, FirstSeen - 1)' = before
    BY <1>1, <1>3, Zenon
  <2>5. MemScan(query)' = Selected(mem, query, FirstSeen - 1)' \o out'
    BY <1>1, <1>2, <1>4, <2>2, <2>3, <2>4, Zenon
  <2>6. phase' # "scan"
    BY <2>1
  <2> QED
    BY <2>5, <2>6, Zenon DEF AnswerInv
<1>6. CASE ~Skips(q)
  <2>1. phase' = "scan" /\ blockIdx' = StartBlock(q.start) /\ recIdx' = 1
    BY <1>6, Zenon DEF Scan
  <2>2. At(blockIdx, recIdx)' - 1 = At(StartBlock(q.start), 0)
    <3>1. At(StartBlock(q.start), 1) - 1 = At(StartBlock(q.start), 0)
      BY <1>2, BeforeScan, Zenon
    <3> QED
      BY <2>1, <3>1, Zenon DEF At
  <2>3. Selected(mem, query, At(blockIdx, recIdx) - 1)' = before
    BY <1>1, <2>2, Zenon
  <2>4. Selected(mem, query, FirstSeen - 1)' = before
    BY <1>1, <1>3, Zenon
  <2>5. phase' # "done"
    BY <2>1
  <2>6. out' = << >>
    BY <1>1, <1>2
  <2> HIDE DEF before
  <2>7. Selected(mem, query, At(blockIdx, recIdx) - 1)' = Selected(mem, query, FirstSeen - 1)' \o out'
    BY <1>4, <2>3, <2>4, <2>6, Zenon
  <2> QED
    BY <2>5, <2>7, Zenon DEF AnswerInv
<1> QED
  BY <1>5, <1>6

\* The first block of a scan stays.
LEMMA FirstSeenKept ==
  ASSUME mem' = mem, blocks' = blocks, query' = query
  PROVE  /\ Selected(mem, query, FirstSeen - 1)' = Selected(mem, query, FirstSeen - 1)
         /\ MemScan(query)' = MemScan(query)
<1>1. FirstSeen' = FirstSeen
  <2>1. StartBlock(query.start)' = StartBlock(query.start)
    BY StartBlockKept, Zenon
  <2> QED
    BY <2>1, Zenon DEF FirstSeen, At
<1>2. Selected(mem, query, FirstSeen - 1)' = Selected(mem, query, FirstSeen - 1)
  BY <1>1, Zenon
<1>3. MemScan(query)' = MemScan(query)
  BY Zenon DEF MemScan
<1> QED
  BY <1>2, <1>3

\* So does the answer up to where the iterator comes.
LEMMA SelectedKept ==
  ASSUME mem' = mem, query' = query, NEW n, At(blockIdx, recIdx)' - 1 = n
  PROVE  Selected(mem, query, At(blockIdx, recIdx) - 1)' = Selected(mem, query, n)
  BY Zenon

\* Next returns the record if it matches, and stops where the answer is complete.
LEMMA NextRecordAnswers ==
  ASSUME TableInv, AnswerInv, NoEmptyFilter, NextRecord
  PROVE  AnswerInv'
<1> DEFINE r == blocks[blockIdx][recIdx]
           p == At(blockIdx, recIdx)
           before == Selected(mem, query, FirstSeen - 1)
<1>1. /\ phase = "scan" /\ recIdx <= Len(blocks[blockIdx]) /\ recIdx' = recIdx + 1
      /\ mem' = mem /\ blocks' = blocks /\ query' = query /\ blockIdx' = blockIdx
  BY Zenon DEF NextRecord
<1>2. phase' = (IF r.ts >= query.end THEN "done" ELSE "scan")
      /\ out' = (IF Matches(r, query) THEN Append(out, r) ELSE out)
  BY Zenon DEF NextRecord
<1>3. /\ ~Writing /\ TypeOK /\ Sorted /\ LayoutInv /\ query \in Queries /\ out \in Seq(Records)
      /\ blockIdx \in DOMAIN blocks /\ blockIdx \in Nat \ {0}
      /\ Len(blocks[blockIdx]) \in 1..BlockRecords /\ recIdx \in 1..(Len(blocks[blockIdx]) + 1)
  BY <1>1, ScanPosition, Zenon
<1>4. recIdx \in 1..Len(blocks[blockIdx]) /\ recIdx \in Nat /\ recIdx + 1 \in Nat
  <2>1. Len(blocks[blockIdx]) \in Nat
    BY <1>3, TableBoundsAssumption
  <2> QED
    BY <1>1, <1>3, <2>1
<1>5. p \in DOMAIN mem /\ r = mem[p]
  BY <1>3, <1>4, BlockHolds, Zenon
<1>6. mem \in Seq(Records) /\ Len(mem) \in Nat /\ DOMAIN mem = 1..Len(mem)
  BY <1>3, FooterTimes, Zenon
<1>7. At(blockIdx, recIdx + 1) - 1 = p /\ p - 1 \in Nat /\ (p - 1) + 1 = p /\ p - 1 \in 0..Len(mem)
  <2>1. /\ At(blockIdx, 0) \in Nat /\ At(blockIdx, recIdx + 1) = At(blockIdx, 0) + (recIdx + 1)
        /\ p = At(blockIdx, 0) + recIdx
    BY <1>3, <1>4, Positions, Zenon
  <2> HIDE DEF p
  <2> QED
    BY <1>4, <1>5, <1>6, <2>1
<1>8. before \in Seq(Records) /\ r \in Records
  <2>1. before \in Seq(Records)
    BY <1>3, BeforeScan, Zenon DEF FirstSeen
  <2>2. mem[p] \in Records
    BY <1>3, <1>5, TimesInOrder, Zenon
  <2> QED
    BY <1>5, <2>1, <2>2, Zenon
<1>9. Selected(mem, query, p - 1) = before \o out
  BY <1>1, Zenon DEF AnswerInv
<1> HIDE DEF r, p, before
<1>10. Selected(mem, query, p) = IF MemMatches(r, query) THEN Append(Selected(mem, query, p - 1), r)
                                 ELSE Selected(mem, query, p - 1)
  <2>1. Selected(mem, query, (p - 1) + 1) =
            IF MemMatches(mem[(p - 1) + 1], query)
            THEN Append(Selected(mem, query, p - 1), mem[(p - 1) + 1])
            ELSE Selected(mem, query, p - 1)
    BY <1>7, SelectedStep, Zenon
  <2> QED
    BY <1>5, <1>7, <2>1, Zenon
<1>11. Selected(mem, query, p) = before \o out'
  <2>1. CASE MemMatches(r, query)
    <3>1. out' = Append(out, r)
      BY <1>2, <1>3, <2>1, FiltersAgree, Zenon
    <3>2. Append(before \o out, r) = before \o Append(out, r)
      BY <1>3, <1>8, AnswerGrows, Zenon
    <3> QED
      BY <1>9, <1>10, <2>1, <3>1, <3>2, Zenon
  <2>2. CASE ~MemMatches(r, query)
    <3>1. out' = out
      BY <1>2, <1>3, <2>2, FiltersAgree, Zenon
    <3> QED
      BY <1>9, <1>10, <2>2, <3>1, Zenon
  <2> QED
    BY <2>1, <2>2
<1>12. Selected(mem, query, FirstSeen - 1)' = before /\ MemScan(query)' = MemScan(query)
  BY <1>1, FirstSeenKept, Zenon DEF before
<1>13. CASE r.ts >= query.end
  <2>1. phase' = "done" /\ phase' # "scan"
    BY <1>2, <1>13
  <2>2. MemScan(query) = Selected(mem, query, p - 1)
    <3>1. (p - 1) + 1 \in DOMAIN mem /\ mem[(p - 1) + 1].ts >= query.end
      BY <1>5, <1>7, <1>13, Zenon
    <3> QED
      BY <1>3, <1>7, <3>1, BeyondEnd, Zenon
  <2>3. ~MemMatches(r, query)
    <3>1. r.ts \in Int /\ query.end \in Int
      BY <1>3, <1>5, TimesInOrder, QueryBounds, Zenon
    <3>2. ~(r.ts < query.end)
      BY <1>13, <3>1
    <3> QED
      BY <3>2, Zenon DEF MemMatches
  <2>4. MemScan(query)' = Selected(mem, query, FirstSeen - 1)' \o out'
    BY <1>10, <1>11, <1>12, <2>2, <2>3, Zenon
  <2> QED
    BY <2>1, <2>4, Zenon DEF AnswerInv
<1>14. CASE ~(r.ts >= query.end)
  <2>1. phase' = "scan" /\ phase' # "done"
    BY <1>2, <1>14
  <2>2. At(blockIdx, recIdx)' - 1 = p
    BY <1>1, <1>7, Zenon DEF At
  <2>3. Selected(mem, query, At(blockIdx, recIdx) - 1)' = Selected(mem, query, p)
    BY <1>1, <2>2, SelectedKept, Zenon
  <2>4. Selected(mem, query, At(blockIdx, recIdx) - 1)' = Selected(mem, query, FirstSeen - 1)' \o out'
    BY <1>11, <1>12, <2>3, Zenon
  <2> QED
    BY <2>1, <2>4, Zenon DEF AnswerInv
<1> QED
  BY <1>13, <1>14

\* Next goes on in the next block, or the answer is complete.
LEMMA NextBlockAnswers ==
  ASSUME TableInv, AnswerInv, NextBlock
  PROVE  AnswerInv'
<1> DEFINE p == At(blockIdx, recIdx)
<1>1. /\ phase = "scan" /\ recIdx > Len(blocks[blockIdx]) /\ blockIdx' = blockIdx + 1
      /\ mem' = mem /\ blocks' = blocks /\ query' = query /\ out' = out
  BY Zenon DEF NextBlock
<1>2. /\ ~Writing /\ TypeOK /\ LayoutInv /\ query \in Queries
      /\ blockIdx \in DOMAIN blocks /\ blockIdx \in Nat \ {0} /\ DOMAIN blocks = 1..Len(blocks)
      /\ Len(blocks) \in Nat
      /\ Len(blocks[blockIdx]) \in 1..BlockRecords /\ recIdx \in 1..(Len(blocks[blockIdx]) + 1)
  BY <1>1, ScanPosition, Zenon
<1>3. recIdx = Len(blocks[blockIdx]) + 1 /\ Len(blocks[blockIdx]) \in Nat /\ recIdx \in Nat
      /\ BlockRecords \in Nat \ {0}
  <2>1. Len(blocks[blockIdx]) \in Nat
    BY <1>2, TableBoundsAssumption
  <2> QED
    BY <1>1, <1>2, <2>1, TableBoundsAssumption
<1>4. p - 1 = At(blockIdx, Len(blocks[blockIdx])) /\ At(blockIdx, 0) \in Nat
      /\ p - 1 = At(blockIdx, 0) + Len(blocks[blockIdx])
  <2>1. /\ At(blockIdx, 0) \in Nat /\ p = At(blockIdx, 0) + recIdx
        /\ At(blockIdx, Len(blocks[blockIdx])) = At(blockIdx, 0) + Len(blocks[blockIdx])
    BY <1>2, <1>3, Positions, Zenon
  <2> HIDE DEF p
  <2> QED
    BY <1>3, <2>1
<1>5. Selected(mem, query, p - 1) = Selected(mem, query, FirstSeen - 1) \o out
  BY <1>1, Zenon DEF AnswerInv
<1>6. /\ Selected(mem, query, FirstSeen - 1)' = Selected(mem, query, FirstSeen - 1)
      /\ MemScan(query)' = MemScan(query)
  BY <1>1, FirstSeenKept, Zenon
<1> HIDE DEF p
<1>7. ASSUME blockIdx < Len(blocks)
      PROVE  /\ blockIdx + 1 \in DOMAIN blocks /\ At(blockIdx + 1, 1) - 1 = p - 1
             /\ p - 1 \in 0..Len(mem) /\ (p - 1) + 1 \in DOMAIN mem
             /\ MinTimestampOf(blockIdx + 1) = mem[(p - 1) + 1].ts
  <2>1. Len(blocks[blockIdx]) = BlockRecords
    BY <1>2, <1>7, Zenon DEF LayoutInv
  <2>2. blockIdx + 1 \in DOMAIN blocks /\ blockIdx + 1 \in Nat \ {0}
    BY <1>2, <1>7
  <2>3. /\ At(blockIdx + 1, 0) = At(blockIdx, 0) + BlockRecords
        /\ At(blockIdx + 1, 1) = At(blockIdx + 1, 0) + 1
    BY <1>2, <2>2, Positions, Zenon
  <2>4. At(blockIdx + 1, 1) - 1 = p - 1 /\ At(blockIdx + 1, 1) = (p - 1) + 1
    BY <1>3, <1>4, <2>1, <2>3
  <2>5. Len(blocks[blockIdx + 1]) \in 1..BlockRecords
    BY <1>2, <2>2, BlockHolds, Zenon
  <2>6. 1 \in 1..Len(blocks[blockIdx + 1])
    BY <2>5, TableBoundsAssumption
  <2>7. At(blockIdx + 1, 1) \in DOMAIN mem /\ blocks[blockIdx + 1][1] = mem[At(blockIdx + 1, 1)]
    BY <1>2, <2>2, <2>6, BlockHolds, Zenon
  <2>8. Len(mem) \in Nat /\ DOMAIN mem = 1..Len(mem)
    BY <1>2, FooterTimes, Zenon
  <2>9. p - 1 \in 0..Len(mem)
    BY <1>3, <1>4, <2>4, <2>7, <2>8
  <2> QED
    BY <2>2, <2>4, <2>7, <2>9, Zenon DEF MinTimestampOf
<1>8. CASE MoreBlocks
  <2>1. phase' = "scan" /\ recIdx' = 1 /\ phase' # "done"
    BY <1>1, <1>8 DEF NextBlock
  <2>2. At(blockIdx, recIdx)' - 1 = p - 1
    BY <1>1, <1>7, <1>8, <2>1, Zenon DEF MoreBlocks, At
  <2>3. Selected(mem, query, At(blockIdx, recIdx) - 1)' = Selected(mem, query, p - 1)
    BY <1>1, <2>2, SelectedKept, Zenon
  <2>4. Selected(mem, query, At(blockIdx, recIdx) - 1)' = Selected(mem, query, FirstSeen - 1)' \o out'
    BY <1>1, <1>5, <1>6, <2>3, Zenon
  <2> QED
    BY <2>1, <2>4, Zenon DEF AnswerInv
<1>9. CASE ~MoreBlocks
  <2>1. phase' = "done" /\ phase' # "scan"
    BY <1>9 DEF NextBlock
  <2>2. MemScan(query) = Selected(mem, query, p - 1)
    <3>1. CASE blockIdx < Len(blocks)
      <4>1. ~(MinTimestampOf(blockIdx + 1) < query.end)
        BY <1>9, <3>1, Zenon DEF MoreBlocks
      <4>2. mem[(p - 1) + 1].ts \in Int /\ query.end \in Int
        BY <1>2, <1>7, <3>1, TimesInOrder, QueryBounds, Zenon DEF TableInv
      <4>3. ~(mem[(p - 1) + 1].ts < query.end)
        BY <1>7, <3>1, <4>1, Zenon
      <4>4. mem[(p - 1) + 1].ts >= query.end
        BY <4>2, <4>3
      <4> QED
        BY <1>2, <1>7, <3>1, <4>4, BeyondEnd, Zenon
    <3>2. CASE ~(blockIdx < Len(blocks))
      <4>1. blockIdx = Len(blocks)
        BY <1>2, <3>2
      <4>2. Len(mem) = At(Len(blocks), Len(blocks[Len(blocks)]))
        BY <1>2, Zenon DEF LayoutInv
      <4> QED
        BY <1>4, <4>1, <4>2, Zenon DEF MemScan
    <3> QED
      BY <3>1, <3>2
  <2>3. MemScan(query)' = Selected(mem, query, FirstSeen - 1)' \o out'
    BY <1>1, <1>5, <1>6, <2>2, Zenon
  <2> QED
    BY <2>1, <2>3, Zenon DEF AnswerInv
<1> QED
  BY <1>8, <1>9

\* Every step of the scan keeps the answer.
LEMMA AnswerStep ==
  ASSUME TableInv, AnswerInv, NoEmptyFilter, [Next]_vars
  PROVE  AnswerInv'
<1>1. CASE phase' # "scan" /\ phase' # "done"
  BY <1>1, Zenon DEF AnswerInv
<1>2. CASE \E r \in Records : MemAppend(r)
  <2>1. phase' = "fill"
    BY <1>2, Zenon DEF MemAppend
  <2> QED
    BY <1>1, <2>1
<1>3. CASE BeginWrite
  <2>1. phase' = "write"
    BY <1>3, Zenon DEF BeginWrite
  <2> QED
    BY <1>1, <2>1
<1>4. CASE Add
  <2>1. phase' = "error" \/ phase' = "write"
    BY <1>4, Zenon DEF Add
  <2> QED
    BY <1>1, <2>1
<1>5. CASE Finish
  <2>1. phase' = "finished"
    BY <1>5, Zenon DEF Finish
  <2> QED
    BY <1>1, <2>1
<1>6. CASE \E q \in Queries : Scan(q)
  BY <1>6, ScanAnswers, Zenon
<1>7. CASE \E q \in Queries : ScanFails(q)
  <2>1. phase' = "failed"
    BY <1>7, Zenon DEF ScanFails
  <2> QED
    BY <1>1, <2>1
<1>8. CASE NextRecord
  BY <1>8, NextRecordAnswers
<1>9. CASE NextBlock
  BY <1>9, NextBlockAnswers
<1>10. CASE NextBlockFails
  <2>1. phase' = "failed"
    BY <1>10, Zenon DEF NextBlockFails
  <2> QED
    BY <1>1, <2>1
<1>11. CASE Done \/ UNCHANGED vars
  <2>1. /\ phase' = phase /\ mem' = mem /\ blocks' = blocks /\ query' = query
        /\ blockIdx' = blockIdx /\ recIdx' = recIdx /\ out' = out
    BY <1>11, Zenon DEF Done, vars
  <2>2. /\ Selected(mem, query, FirstSeen - 1)' = Selected(mem, query, FirstSeen - 1)
        /\ MemScan(query)' = MemScan(query)
    BY <2>1, FirstSeenKept, Zenon
  <2>3. At(blockIdx, recIdx)' - 1 = At(blockIdx, recIdx) - 1
    BY <2>1, Zenon DEF At
  <2>4. Selected(mem, query, At(blockIdx, recIdx) - 1)' = Selected(mem, query, At(blockIdx, recIdx) - 1)
    BY <2>1, <2>3, SelectedKept, Zenon
  <2> QED
    BY <2>1, <2>2, <2>4, Zenon DEF AnswerInv
<1> QED
  BY <1>2, <1>3, <1>4, <1>5, <1>6, <1>7, <1>8, <1>9, <1>10, <1>11, Zenon DEF Next

\* The records before the first block of a scan that match have the timestamp start,
\* and blocks meet there.
LEMMA BeforeScanStraddles ==
  ASSUME TableInv, ~Writing, NEW q \in Queries, NEW p \in Matching(mem, q, At(StartBlock(q.start), 0))
  PROVE  Straddles(q.start) /\ mem[p].ts = q.start
<1> DEFINE s == StartBlock(q.start)
           t == q.start
<1>1. TypeOK /\ Sorted /\ LayoutInv
  BY Zenon DEF TableInv
<1>2. t \in Int
  BY QueryBounds
<1>3. blocks # << >> /\ s \in DOMAIN blocks /\ s \in Nat \ {0}
  BY <1>2, StartBlockIn, Zenon
<1>4. PICK n \in 0..Len(blocks) :
        /\ \A i \in DOMAIN blocks : MinTimestampOf(i) <= t <=> i <= n
        /\ s = (IF n = 0 THEN 1 ELSE n)
  BY <1>1, <1>2, <1>3, StartBlockFacts, Zenon
<1>5. At(s, 0) \in 0..Len(mem) /\ Len(mem) \in Nat /\ DOMAIN mem = 1..Len(mem)
  BY BeforeScan, FooterTimes, Zenon
<1>6. p \in 1..At(s, 0) /\ MemMatches(mem[p], q)
  BY Zenon DEF Matching
<1> HIDE DEF s, t
<1>7. s # 1 /\ s - 1 \in Nat \ {0} /\ (s - 1) + 1 = s
  <2>1. At(1, 0) = 0
    BY Positions
  <2>2. s # 1
    <3>1. At(s, 0) # 0
      BY <1>5, <1>6
    <3> QED
      BY <2>1, <3>1, Zenon
  <2> QED
    BY <1>3, <2>2
<1>8. s <= n /\ s \in 1..Len(blocks) /\ Len(blocks) \in Nat /\ DOMAIN blocks = 1..Len(blocks)
  <2>1. blocks \in Seq(Seq(Records))
    BY <1>1, Zenon DEF TypeOK
  <2> QED
    BY <1>3, <1>4, <1>7, <2>1
<1>9. s - 1 \in DOMAIN blocks /\ s - 1 \in 1..(Len(blocks) - 1) /\ s - 1 < Len(blocks)
  BY <1>7, <1>8
<1>10. MinTimestampOf(s) <= t
  BY <1>3, <1>4, <1>8, Zenon
<1>11. /\ Len(blocks[s - 1]) = BlockRecords
       /\ At(s - 1, BlockRecords) = At(s, 0) /\ At(s, 1) = At(s, 0) + 1 /\ At(s, 0) \in Nat
  <2>1. Len(blocks[s - 1]) = BlockRecords
    BY <1>1, <1>9, Zenon DEF LayoutInv
  <2>2. BlockRecords \in Nat
    BY TableBoundsAssumption
  <2>3. /\ At((s - 1) + 1, 0) = At(s - 1, 0) + BlockRecords
        /\ At(s - 1, BlockRecords) = At(s - 1, 0) + BlockRecords
    BY <1>7, <2>2, Positions, Zenon
  <2>4. At(s, 1) = At(s, 0) + 1 /\ At(s, 0) \in Nat
    BY <1>3, Positions, Zenon
  <2> QED
    BY <1>7, <2>1, <2>3, <2>4, Zenon
<1>12. /\ blocks[s - 1][Len(blocks[s - 1])] = mem[At(s, 0)] /\ At(s, 0) \in DOMAIN mem
       /\ blocks[s][1] = mem[At(s, 1)] /\ At(s, 1) \in DOMAIN mem
  <2>1. Len(blocks[s]) \in 1..BlockRecords
    BY <1>1, <1>3, BlockHolds, Zenon
  <2>2. 1 \in 1..Len(blocks[s]) /\ BlockRecords \in 1..BlockRecords
    BY <2>1, TableBoundsAssumption
  <2>3. BlockRecords \in 1..Len(blocks[s - 1])
    BY <1>11, <2>2, Zenon
  <2>4. blocks[s - 1][BlockRecords] = mem[At(s - 1, BlockRecords)] /\ At(s - 1, BlockRecords) \in DOMAIN mem
    BY <1>1, <1>9, <2>3, BlockHolds, Zenon
  <2>5. blocks[s][1] = mem[At(s, 1)] /\ At(s, 1) \in DOMAIN mem
    BY <1>1, <1>3, <2>2, BlockHolds, Zenon
  <2> QED
    BY <1>11, <2>4, <2>5, Zenon
<1>13. p \in DOMAIN mem /\ p <= At(s, 0) /\ At(s, 0) <= At(s, 1)
  BY <1>5, <1>6, <1>11
<1>14. /\ mem[p].ts \in Int /\ mem[At(s, 0)].ts \in Int /\ mem[At(s, 1)].ts \in Int
       /\ mem[p].ts <= mem[At(s, 0)].ts /\ mem[At(s, 0)].ts <= mem[At(s, 1)].ts
  BY <1>1, <1>12, <1>13, TimesInOrder, Zenon
<1>15. t <= mem[p].ts /\ mem[At(s, 1)].ts <= t
  BY <1>6, <1>10, <1>12, Zenon DEF MemMatches, MinTimestampOf, t
<1>16. mem[p].ts = t /\ mem[At(s, 0)].ts = t /\ mem[At(s, 1)].ts = t
  BY <1>2, <1>14, <1>15
<1>17. blocks[s - 1][Len(blocks[s - 1])].ts = t /\ MinTimestampOf((s - 1) + 1) = t
  BY <1>7, <1>12, <1>16, Zenon DEF MinTimestampOf
<1> QED
  BY <1>9, <1>16, <1>17, Zenon DEF Straddles, t

\* Records that agree at every position are the same answer.
LEMMA SameRecords ==
  ASSUME NEW a \in Seq(Records), NEW b \in Seq(Records), Len(a) = Len(b),
         \A i \in 1..Len(a) : a[i] = b[i]
  PROVE  a = b
  OBVIOUS

\* What a complete answer says of the records returned.
LEMMA AnswerInvImplies ==
  ASSUME TableInv, AnswerInv
  PROVE  ScanAnswer
<1> SUFFICES ASSUME phase = "done"
             PROVE  LET all == MemScan(query)
                        missing == Len(all) - Len(out)
                    IN  /\ missing >= 0 /\ out = SubSeq(all, missing + 1, Len(all))
                        /\ missing > 0 => Straddles(query.start) /\ all[missing].ts = query.start
  BY Zenon DEF ScanAnswer
<1> DEFINE all == MemScan(query)
           missing == Len(all) - Len(out)
           m == At(StartBlock(query.start), 0)
           before == Selected(mem, query, m)
<1>1. ~Writing /\ query \in Queries /\ out \in Seq(Records)
  BY Zenon DEF Writing, TableInv, PositionInv, TypeOK
<1>2. m \in 0..Len(mem) /\ before \in Seq(Records) /\ FirstSeen - 1 = m /\ mem \in Seq(Records)
  BY <1>1, BeforeScan, FooterTimes, Zenon DEF FirstSeen
<1>3. all = before \o out
  BY <1>2, Zenon DEF AnswerInv
<1>4. ASSUME NEW k \in DOMAIN before PROVE Straddles(query.start) /\ before[k].ts = query.start
  <2>1. \E i \in Matching(mem, query, m) : before[k] = mem[i]
    <3>1. FromMatching(mem, query, m)
      BY <1>1, BeforeScan, Zenon
    <3> QED
      BY <1>4, <3>1, Zenon DEF FromMatching
  <2> QED
    BY <1>1, <2>1, BeforeScanStraddles, Zenon
<1> HIDE DEF all, before, m
<1>5. /\ all \in Seq(Records) /\ Len(all) = Len(before) + Len(out)
      /\ \A k \in 1..Len(all) : all[k] = IF k <= Len(before) THEN before[k] ELSE out[k - Len(before)]
  <2>1. /\ all \in Seq(Records) /\ Len(all) = Len(before) + Len(out)
        /\ \A k \in 1..(Len(before) + Len(out)) :
              all[k] = IF k <= Len(before) THEN before[k] ELSE out[k - Len(before)]
    BY <1>1, <1>2, <1>3, ConcatRecords, Zenon
  <2> QED
    BY <2>1, Zenon
<1>6. missing = Len(before) /\ Len(before) \in Nat /\ Len(out) \in Nat /\ DOMAIN before = 1..Len(before)
  BY <1>1, <1>2, <1>5
<1> HIDE DEF missing
<1>7. out = SubSeq(all, missing + 1, Len(all))
  <2>1. /\ SubSeq(all, missing + 1, Len(all)) \in Seq(Records)
        /\ Len(SubSeq(all, missing + 1, Len(all))) = Len(out)
        /\ \A k \in 1..Len(out) : SubSeq(all, missing + 1, Len(all))[k] = all[missing + k]
    BY <1>5, <1>6
  <2>2. ASSUME NEW k \in 1..Len(out) PROVE all[missing + k] = out[k]
    <3>1. missing + k \in 1..Len(all) /\ ~(missing + k <= Len(before)) /\ (missing + k) - Len(before) = k
      BY <1>5, <1>6
    <3> QED
      BY <1>5, <3>1, Zenon
  <2> QED
    BY <1>1, <2>1, <2>2, SameRecords, Zenon
<1>8. ASSUME missing > 0 PROVE Straddles(query.start) /\ all[missing].ts = query.start
  <2>1. missing \in DOMAIN before /\ missing \in 1..Len(all) /\ missing <= Len(before)
    BY <1>5, <1>6, <1>8
  <2>2. all[missing] = before[missing]
    BY <1>5, <2>1, Zenon
  <2> QED
    BY <1>4, <2>1, <2>2, Zenon
<1>9. missing >= 0
  BY <1>6
<1> QED
  BY <1>7, <1>8, <1>9, Zenon DEF all, missing

\* A finished scan returned what the memtable would have, but for records of the
\* timestamp start, from the front, where blocks meet at it; provided no caller asks
\* for the records of the empty source.
THEOREM ScanCorrect ==
  ASSUME NoEmptyFilter
  PROVE  Spec => []ScanAnswer
<1>1. Init => AnswerInv
  <2>1. Init => phase # "scan" /\ phase # "done"
    BY DEF Init
  <2> QED
    BY <2>1, Zenon DEF AnswerInv
<1>2. TableInv /\ AnswerInv /\ [Next]_vars => AnswerInv'
  BY AnswerStep
<1>3. TableInv /\ AnswerInv => ScanAnswer
  BY AnswerInvImplies
<1> QED
  BY <1>1, <1>2, <1>3, TableInvariance, PTL DEF Spec

-----------------------------------------------------------------------------
(* Aggregate *)

\* The end of bucket b.
BucketEnd(b, start, end, width) ==
    IF start + b * width + width < end THEN start + b * width + width ELSE end

\* addCount puts a record of timestamp t into bucket b.
InBucket(t, b, start, end, width) == start <= t /\ t < end /\ (t - start) \div width = b

\* The bucket of a timestamp is the range it stands for.
LEMMA BucketRange ==
  ASSUME NEW start \in Int, NEW end \in Int, NEW width \in 1..3, NEW b \in Nat, NEW t \in Int
  PROVE  start + b * width <= t /\ t < BucketEnd(b, start, end, width)
             <=> InBucket(t, b, start, end, width)
<1>1. width = 1 \/ width = 2 \/ width = 3
  OBVIOUS
<1>2. CASE width = 1
  BY <1>2 DEF BucketEnd, InBucket
<1>3. CASE width = 2
  BY <1>3 DEF BucketEnd, InBucket
<1>4. CASE width = 3
  BY <1>4 DEF BucketEnd, InBucket
<1> QED
  BY <1>1, <1>2, <1>3, <1>4

\* The records of a finished file within [start, end) are in the blocks that are read.
LEMMA ReadBlocks ==
  ASSUME TableInv, ~Writing, NEW i \in DOMAIN blocks, NEW k \in DOMAIN blocks[i], NEW start \in Int,
         NEW end \in Int, mem[At(i, k)].ts < end
  PROVE  i \in BlocksBefore(start, end)
<1>1. TypeOK /\ Sorted /\ LayoutInv
  BY Zenon DEF TableInv
<1>2. /\ i \in Nat \ {0} /\ DOMAIN blocks = 1..Len(blocks) /\ Len(blocks) \in Nat
      /\ k \in 1..BlockRecords /\ At(i, k) \in DOMAIN mem /\ i \in 1..Len(blocks)
  BY <1>1, BlockHolds, Zenon
<1>3. ASSUME NEW j \in 1..i PROVE MinTimestampOf(j) < end
  <2>1. j \in DOMAIN blocks /\ j \in Nat \ {0} /\ 1 \in 1..BlockRecords
    BY <1>2, TableBoundsAssumption
  <2>2. Len(blocks[j]) \in 1..BlockRecords
    BY <1>1, <2>1, BlockHolds, Zenon
  <2>3. 1 \in 1..Len(blocks[j])
    BY <2>2, TableBoundsAssumption
  <2>4. At(j, 1) \in DOMAIN mem /\ blocks[j][1] = mem[At(j, 1)]
    BY <1>1, <2>1, <2>3, BlockHolds, Zenon
  <2>5. ~(At(i, k) < At(j, 1))
    <3>1. ~(i < j \/ (i = j /\ k < 1))
      BY <1>2, <1>3, TableBoundsAssumption
    <3> QED
      BY <1>2, <2>1, <3>1, PositionUnique, Zenon
  <2>6. At(j, 1) <= At(i, k)
    <3>1. DOMAIN mem = 1..Len(mem) /\ Len(mem) \in Nat
      BY FooterTimes
    <3>2. At(j, 1) \in Int /\ At(i, k) \in Int
      BY <1>2, <2>4, <3>1
    <3> QED
      BY <2>5, <3>2
  <2>7. mem[At(j, 1)].ts \in Int /\ mem[At(i, k)].ts \in Int /\ mem[At(j, 1)].ts <= mem[At(i, k)].ts
    BY <1>1, <1>2, <2>4, <2>6, TimesInOrder, Zenon
  <2>8. mem[At(j, 1)].ts < end
    BY <2>7
  <2> QED
    BY <2>4, <2>8, Zenon DEF MinTimestampOf
<1> QED
  BY <1>3, Zenon DEF BlocksBefore

\* A bucket counts the records of the memtable in its range.
LEMMA BucketCounts ==
  ASSUME TableInv, ~Writing, NEW start \in Int, NEW end \in Int, NEW width \in 1..3, NEW b \in Nat
  PROVE  BucketCount(b, start, end, width)
           = Len(MemScan([start |-> start + b * width, end |-> BucketEnd(b, start, end, width),
                          src |-> NilFilter]))
<1> DEFINE to == BucketEnd(b, start, end, width)
           q == [start |-> start + b * width, end |-> to, src |-> NilFilter]
           M == Matching(mem, q, Len(mem))
           X == {x \in BlocksBefore(start, end) \X (1..BlockRecords) :
                    /\ x[2] \in ScanTimestamps(x[1], start, end)
                    /\ (blocks[x[1]][x[2]].ts - start) \div width = b}
           f == [x \in X |-> At(x[1], x[2])]
<1>1. /\ mem \in Seq(Records) /\ Len(mem) \in Nat /\ DOMAIN mem = 1..Len(mem)
      /\ Len(mem) \in 0..Len(mem) /\ TypeOK /\ LayoutInv
  <2>1. mem \in Seq(Records) /\ Len(mem) \in Nat \ {0} /\ DOMAIN mem = 1..Len(mem)
    BY FooterTimes, Zenon
  <2> QED
    BY <2>1 DEF TableInv
<1>2. ASSUME NEW p \in DOMAIN mem
      PROVE  /\ mem[p].ts \in Int
             /\ p \in M <=> InBucket(mem[p].ts, b, start, end, width)
  <2>1. mem[p].ts \in Int
    BY FooterTimes, Zenon
  <2>2. p \in M <=> MemMatches(mem[p], q)
    BY <1>1, Zenon DEF Matching
  <2>3. MemMatches(mem[p], q) <=> start + b * width <= mem[p].ts /\ mem[p].ts < to
    <3>1. q.start = start + b * width /\ q.end = to /\ q.src = NilFilter
      OBVIOUS
    <3> HIDE DEF q
    <3> QED
      BY <3>1, Zenon DEF MemMatches
  <2> HIDE DEF M
  <2> QED
    <3>1. start + b * width <= mem[p].ts /\ mem[p].ts < to
            <=> InBucket(mem[p].ts, b, start, end, width)
      BY <2>1, BucketRange, Zenon
    <3> QED
      BY <2>1, <2>2, <2>3, <3>1, Zenon
<1>3. IsFiniteSet(M) /\ Len(MemScan(q)) = Cardinality(M)
  <2> HIDE DEF q
  <2> QED
    BY <1>1, SelectedFacts, Zenon DEF MemScan
<1>4. M \subseteq DOMAIN mem
  BY <1>1, Zenon DEF Matching
<1> HIDE DEF q, M
<1>5. ASSUME MaxTimestamp < start \/ MinTimestamp >= end PROVE M = {}
  <2>1. ASSUME NEW p \in M PROVE FALSE
    <3>1. p \in DOMAIN mem
      BY <1>4, <2>1, Zenon
    <3>2. start <= mem[p].ts /\ mem[p].ts < end /\ mem[p].ts \in Int
      BY <1>2, <2>1, <3>1, Zenon DEF InBucket
    <3>3. 1 \in DOMAIN mem /\ Len(mem) \in DOMAIN mem
      BY <1>1, <3>1
    <3>4. /\ MinTimestamp = mem[1].ts /\ MaxTimestamp = mem[Len(mem)].ts
          /\ mem[1].ts \in Int /\ mem[Len(mem)].ts \in Int
          /\ mem[1].ts <= mem[p].ts /\ mem[p].ts <= mem[Len(mem)].ts
      BY <3>1, <3>3, FooterTimes, Zenon
    <3> QED
      BY <1>5, <3>2, <3>4
  <2> QED
    BY <2>1, Zenon
<1>6. ASSUME NEW x \in X
      PROVE  /\ x[1] \in DOMAIN blocks /\ x[1] \in Nat \ {0} /\ x[2] \in 1..BlockRecords
             /\ x = <<x[1], x[2]>> /\ f[x] = At(x[1], x[2]) /\ f[x] \in M
  <2>1. /\ x = <<x[1], x[2]>> /\ x[1] \in BlocksBefore(start, end) /\ x[2] \in 1..BlockRecords
        /\ x[2] \in ScanTimestamps(x[1], start, end) /\ (blocks[x[1]][x[2]].ts - start) \div width = b
    BY <1>6
  <2>2. x[1] \in DOMAIN blocks
    BY <2>1, Zenon DEF BlocksBefore
  <2>3. /\ x[2] \in DOMAIN blocks[x[1]] /\ start <= blocks[x[1]][x[2]].ts /\ blocks[x[1]][x[2]].ts < end
    BY <2>1, Zenon DEF ScanTimestamps
  <2>4. /\ x[1] \in Nat \ {0} /\ At(x[1], x[2]) \in DOMAIN mem
        /\ blocks[x[1]][x[2]] = mem[At(x[1], x[2])]
    BY <1>1, <2>2, <2>3, BlockHolds, Zenon
  <2>5. InBucket(mem[At(x[1], x[2])].ts, b, start, end, width)
    BY <2>1, <2>3, <2>4, Zenon DEF InBucket
  <2>6. At(x[1], x[2]) \in M
    BY <1>2, <2>4, <2>5, Zenon
  <2>7. f[x] = At(x[1], x[2])
    BY <1>6, Zenon
  <2> QED
    BY <2>1, <2>2, <2>4, <2>6, <2>7, Zenon
<1>7. ASSUME NEW p \in M PROVE \E x \in X : f[x] = p
  <2>1. p \in DOMAIN mem /\ start <= mem[p].ts /\ mem[p].ts < end /\ (mem[p].ts - start) \div width = b
    BY <1>2, <1>4, <1>7, Zenon DEF InBucket
  <2>2. PICK i \in DOMAIN blocks : \E k \in DOMAIN blocks[i] : p = At(i, k) /\ blocks[i][k] = mem[p]
    BY <2>1, InBlock, Zenon
  <2>3. PICK k \in DOMAIN blocks[i] : p = At(i, k) /\ blocks[i][k] = mem[p]
    BY <2>2, Zenon
  <2>4. i \in BlocksBefore(start, end)
    BY <2>1, <2>3, ReadBlocks, Zenon
  <2>5. k \in 1..BlockRecords
    BY <1>1, <2>3, BlockHolds, Zenon
  <2>6. k \in ScanTimestamps(i, start, end) /\ (blocks[i][k].ts - start) \div width = b
    BY <2>1, <2>3, Zenon DEF ScanTimestamps
  <2>7. <<i, k>> \in X
    BY <2>4, <2>5, <2>6
  <2>8. f[<<i, k>>] = At(i, k)
    BY <2>7
  <2> QED
    BY <2>3, <2>7, <2>8, Zenon
<1>8. X = {x \in BlocksBefore(start, end) \X (1..BlockRecords) :
             /\ x[2] \in ScanTimestamps(x[1], start, end)
             /\ (blocks[x[1]][x[2]].ts - start) \div width = b}
  OBVIOUS
<1>9. DOMAIN f = X /\ f = [x \in X |-> f[x]]
  BY Zenon
<1> HIDE DEF X, f
<1>10. f \in [X -> M]
  BY <1>6, <1>9, Zenon
<1>11. f \in Injection(X, M)
  <2>0. ASSUME NEW i \in Nat \ {0}, NEW j \in Nat \ {0},
               NEW k \in 1..BlockRecords, NEW l \in 1..BlockRecords, At(i, k) = At(j, l)
        PROVE  i = j /\ k = l
    BY <2>0, PositionUnique, SMT
  <2>1. ASSUME NEW x \in X, NEW y \in X, f[x] = f[y] PROVE x = y
    <3>1. At(x[1], x[2]) = At(y[1], y[2])
      BY <1>6, <2>1, Zenon
    <3>2. /\ x[1] \in Nat \ {0} /\ x[2] \in 1..BlockRecords /\ x = <<x[1], x[2]>>
          /\ y[1] \in Nat \ {0} /\ y[2] \in 1..BlockRecords /\ y = <<y[1], y[2]>>
      BY <1>6, Zenon
    <3>3. x[1] = y[1] /\ x[2] = y[2]
      BY <2>0, <3>1, <3>2, SMT
    <3> QED
      BY <3>2, <3>3
  <2> QED
    BY <1>10, <2>1, Zenon DEF Injection, IsInjective
<1>12. f \in Surjection(X, M)
  BY <1>7, <1>10, Zenon DEF Surjection
<1>13. Cardinality(X) = Cardinality(M)
  BY <1>3, <1>11, <1>12, FS_Injection, Zenon
<1>14. CASE MaxTimestamp < start \/ MinTimestamp >= end
  <2>1. Cardinality(M) = 0
    BY <1>5, <1>14, FS_EmptySet, Zenon
  <2> QED
    BY <1>3, <1>14, <2>1, Zenon DEF BucketCount, q
<1>15. CASE ~(MaxTimestamp < start \/ MinTimestamp >= end)
  BY <1>3, <1>8, <1>13, <1>15, Zenon DEF BucketCount, q
<1> QED
  BY <1>14, <1>15, Zenon

\* Aggregate's columnar path puts every record of the range into the bucket of its
\* timestamp and counts no other, for any records, block size and range.
THEOREM AggregateCorrect == Spec => []AggregateExact
<1>1. TableInv => AggregateExact
  <2> SUFFICES ASSUME TableInv, phase = "finished", NEW start \in Bounds, NEW end \in Bounds,
                      NEW width \in 1..3, start < end, NEW b \in 0..(NBuckets(start, end, width) - 1)
               PROVE  LET from == start + b * width
                          to == IF from + width < end THEN from + width ELSE end
                      IN  BucketCount(b, start, end, width)
                            = Len(MemScan([start |-> from, end |-> to, src |-> NilFilter]))
    BY Zenon DEF AggregateExact
  <2>1. ~Writing
    BY Zenon DEF Writing
  <2>2. start \in Int /\ end \in Int
    <3>1. ASSUME NEW t \in Bounds PROVE t \in Int
      BY TimesAssumption DEF Bounds
    <3> QED
      BY <3>1
  <2>3. b \in Nat
    OBVIOUS
  <2>4. BucketCount(b, start, end, width)
          = Len(MemScan([start |-> start + b * width, end |-> BucketEnd(b, start, end, width),
                         src |-> NilFilter]))
    BY <2>1, <2>2, <2>3, BucketCounts, Zenon
  <2> QED
    BY <2>4, Zenon DEF BucketEnd
<1> QED
  BY <1>1, TableInvariance, PTL

==============================================================================
