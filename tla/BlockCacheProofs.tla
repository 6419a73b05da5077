-------------------------- MODULE BlockCacheProofs --------------------------
(* The block cache for any number of iterators, blocks and bytes. *)
EXTENDS BlockCache, SequenceTheorems, WellFoundedInduction, TLAPS

\* lru.MoveToFront permutes the list: it stays free of repeats and names the same
\* keys.
LEMMA TouchedPermutes ==
  ASSUME NEW s \in Seq(Keys), NEW k \in {s[i] : i \in DOMAIN s},
         \A i, j \in DOMAIN s : s[i] = s[j] => i = j
  PROVE  /\ Touched(s, k) \in Seq(Keys)
         /\ \A i, j \in DOMAIN Touched(s, k) : Touched(s, k)[i] = Touched(s, k)[j] => i = j
         /\ {Touched(s, k)[i] : i \in DOMAIN Touched(s, k)} = {s[i] : i \in DOMAIN s}
<1> DEFINE at == CHOOSE i \in DOMAIN s : s[i] = k
           t == Touched(s, k)
<1>1. at \in 1..Len(s) /\ s[at] = k
  OBVIOUS
<1>2. t = [i \in 1..Len(s) |-> IF i = 1 THEN k ELSE IF i <= at THEN s[i - 1] ELSE s[i]]
  BY DEF Touched
<1> HIDE DEF at, t
<1>3. t \in Seq(Keys) /\ DOMAIN t = 1..Len(s) /\ DOMAIN s = 1..Len(s)
  <2>1. \A i \in 1..Len(s) : t[i] \in Keys
    BY <1>1, <1>2
  <2>2. QED
    BY <1>2, <2>1
<1>4. t[1] = k /\ (\A i \in 2..at : t[i] = s[i - 1]) /\ (\A i \in (at + 1)..Len(s) : t[i] = s[i])
  BY <1>1, <1>2
<1> DEFINE from(i) == IF i = 1 THEN at ELSE IF i <= at THEN i - 1 ELSE i
<1>5. ASSUME NEW i \in 1..Len(s), NEW j \in 1..Len(s), t[i] = t[j] PROVE i = j
  <2>1. from(i) \in 1..Len(s) /\ from(j) \in 1..Len(s)
    BY <1>1
  <2>2. t[i] = s[from(i)] /\ t[j] = s[from(j)]
    BY <1>1, <1>2
  <2>3. from(i) = from(j)
    BY <1>3, <1>5, <2>1, <2>2, Zenon
  <2>4. QED
    BY <1>1, <2>3
<1>6. {t[i] : i \in DOMAIN t} \subseteq {s[i] : i \in DOMAIN s}
  BY <1>1, <1>2, <1>3
<1>7. ASSUME NEW i \in 1..Len(s) PROVE \E j \in 1..Len(s) : t[j] = s[i]
  <2>1. CASE i = at
    BY <1>1, <1>4, <2>1
  <2>2. CASE i < at
    <3>1. i + 1 \in 2..at /\ i + 1 \in 1..Len(s)
      BY <1>1, <2>2
    <3>2. t[i + 1] = s[i]
      BY <1>4, <3>1
    <3>3. QED
      BY <3>1, <3>2
  <2>3. CASE i > at
    BY <1>1, <1>4, <2>3
  <2>4. QED
    BY <1>1, <2>1, <2>2, <2>3
<1>8. {s[i] : i \in DOMAIN s} \subseteq {t[i] : i \in DOMAIN t}
  <2> SUFFICES ASSUME NEW i \in 1..Len(s) PROVE s[i] \in {t[j] : j \in DOMAIN t}
    BY <1>3
  <2>1. PICK j \in 1..Len(s) : t[j] = s[i]
    BY <1>7
  <2>2. QED
    BY <1>3, <2>1
<1>9. {t[i] : i \in DOMAIN t} = {s[i] : i \in DOMAIN s}
  BY <1>6, <1>8, Zenon
<1>10. \A i, j \in DOMAIN t : t[i] = t[j] => i = j
  BY <1>3, <1>5
<1>11. QED
  BY <1>3, <1>9, <1>10, Zenon DEF t

\* A put keeps the list and the map in step: the keys the eviction loop takes from
\* the back are exactly those it deletes from the map.
LEMMA InsertMatches ==
  ASSUME TypeOK, ListMatchesMap, NEW r \in Readers, NEW k \in Keys, k \notin DOMAIN items,
         Insert(r, k)
  PROVE  lru' \in Seq(Keys) /\ DOMAIN items' \subseteq Keys /\ ListMatchesMap'
<1> DEFINE pushed == <<k>> \o lru
<1>1. /\ pushed \in Seq(Keys) /\ Len(pushed) = Len(lru) + 1
      /\ pushed[1] = k /\ \A i \in 2..Len(pushed) : pushed[i] = lru[i - 1]
  BY DEF TypeOK
<1>2. PICK n \in 0..Len(pushed) :
        /\ lru' = SubSeq(pushed, 1, n)
        /\ items' = [x \in (DOMAIN items \cup {k}) \ {pushed[i] : i \in (n + 1)..Len(pushed)} |->
                        IF x = k THEN Entry(r) ELSE items[x]]
  BY DEF Insert
<1> HIDE DEF pushed
<1>3. ASSUME NEW i \in 2..Len(pushed) PROVE pushed[i] \in DOMAIN items /\ i - 1 \in DOMAIN lru
  <2>1. i - 1 \in DOMAIN lru
    BY <1>1 DEF TypeOK
  <2>2. pushed[i] = lru[i - 1]
    BY <1>1
  <2>3. lru[i - 1] \in DOMAIN items
    BY <2>1, Zenon DEF ListMatchesMap
  <2>4. QED
    BY <2>1, <2>2, <2>3
<1>4. \A i, j \in 1..Len(pushed) : pushed[i] = pushed[j] => i = j
  <2> SUFFICES ASSUME NEW i \in 1..Len(pushed), NEW j \in 1..Len(pushed), pushed[i] = pushed[j]
               PROVE  i = j
    OBVIOUS
  <2>1. CASE i = 1 \/ j = 1
    BY <1>1, <1>3, <2>1
  <2>2. CASE i # 1 /\ j # 1
    <3>1. i \in 2..Len(pushed) /\ j \in 2..Len(pushed)
      BY <1>1, <2>2
    <3>2. lru[i - 1] = lru[j - 1] /\ i - 1 \in DOMAIN lru /\ j - 1 \in DOMAIN lru
      BY <1>1, <1>3, <3>1
    <3>3. i - 1 = j - 1
      BY <3>2 DEF ListMatchesMap
    <3>4. QED
      BY <3>3
  <2>3. QED
    BY <2>1, <2>2
<1>5. DOMAIN items \cup {k} = {pushed[i] : i \in 1..Len(pushed)}
  <2>1. \A x \in DOMAIN items : \E i \in 2..Len(pushed) : pushed[i] = x
    <3> SUFFICES ASSUME NEW x \in DOMAIN items PROVE \E i \in 2..Len(pushed) : pushed[i] = x
      OBVIOUS
    <3>1. PICK j \in DOMAIN lru : lru[j] = x
      BY DEF ListMatchesMap
    <3>2. j + 1 \in 2..Len(pushed) /\ (j + 1) - 1 = j
      BY <1>1 DEF TypeOK
    <3>3. pushed[j + 1] = x
      BY <1>1, <3>1, <3>2
    <3>4. QED
      BY <3>2, <3>3
  <2>2. QED
    BY <1>1, <1>3, <2>1
<1>6. /\ lru' \in Seq(Keys) /\ DOMAIN lru' = 1..n
      /\ \A i \in 1..n : lru'[i] = pushed[i]
  BY <1>1, <1>2
<1>7. DOMAIN items' = {pushed[i] : i \in 1..n}
  BY <1>1, <1>2, <1>4, <1>5
<1>8. QED
  <2>1. DOMAIN items' = {lru'[i] : i \in DOMAIN lru'}
    BY <1>6, <1>7
  <2>2. \A i, j \in DOMAIN lru' : lru'[i] = lru'[j] => i = j
    BY <1>1, <1>4, <1>6
  <2>3. DOMAIN items' \subseteq Keys
    BY <1>1, <1>2 DEF TypeOK
  <2>4. QED
    BY <1>6, <2>1, <2>2, <2>3 DEF ListMatchesMap

-----------------------------------------------------------------------------
\* The steps outside BlockCache leave its list and its map alone.
LEMMA ListStays == ASSUME ListMatchesMap, items' = items, lru' = lru PROVE ListMatchesMap'
  BY DEF ListMatchesMap

\* A cache is created empty.
LEMMA InitIInv == Init => IInv
<1> SUFFICES ASSUME Init PROVE IInv
  OBVIOUS
<1>1. DOMAIN items = {} /\ lru = << >> /\ DOMAIN lru = {}
  BY DEF Init
<1>2. TypeOK
  BY <1>1, KeysAssumption DEF Init, TypeOK
<1>3. ListMatchesMap
  BY <1>1 DEF ListMatchesMap
<1>4. SlicesInv
  BY <1>1 DEF Init, SlicesInv
<1>5. QED
  BY <1>2, <1>3, <1>4 DEF IInv

\* The iterator moves on: a hit, or a miss to be read from the file.
LEMMA GetIInv == ASSUME IInv, NEW r \in Readers, NEW k \in Keys, Get(r, k) PROVE IInv'
<1>1. CASE k \in DOMAIN items
  <2>1. /\ lru' = Touched(lru, k) /\ items' = items /\ key' = [key EXCEPT ![r] = k]
        /\ view' = [view EXCEPT ![r] = items[k]] /\ pc' = [pc EXCEPT ![r] = "view"]
        /\ UNCHANGED <<bad, decompBuf>>
    BY <1>1 DEF Get
  <2>2. lru' \in Seq(Keys) /\ ListMatchesMap'
    <3>1. lru \in Seq(Keys) /\ (\A i, j \in DOMAIN lru : lru[i] = lru[j] => i = j)
      BY DEF IInv, TypeOK, ListMatchesMap
    <3>2. k \in {lru[i] : i \in DOMAIN lru}
      BY <1>1 DEF IInv, ListMatchesMap
    <3>3. /\ Touched(lru, k) \in Seq(Keys)
          /\ \A i, j \in DOMAIN Touched(lru, k) : Touched(lru, k)[i] = Touched(lru, k)[j] => i = j
          /\ {Touched(lru, k)[i] : i \in DOMAIN Touched(lru, k)} = {lru[i] : i \in DOMAIN lru}
      BY <3>1, <3>2, TouchedPermutes, Zenon
    <3>4. QED
      BY <2>1, <3>3, Zenon DEF IInv, ListMatchesMap
  <2>3. items[k] = Copied(Written[k])
    BY <1>1 DEF IInv, SlicesInv
  <2>4. TypeOK'
    BY <2>1, <2>2, <2>3, Zenon DEF IInv, TypeOK
  <2>5. SlicesInv'
    BY <2>1, <2>3 DEF IInv, TypeOK, SlicesInv
  <2>6. QED
    BY <2>2, <2>4, <2>5 DEF IInv
<1>2. CASE k \notin DOMAIN items
  <2>1. /\ key' = [key EXCEPT ![r] = k] /\ pc' = [pc EXCEPT ![r] = "decompress"]
        /\ UNCHANGED <<lru, items, view, bad, decompBuf>>
    BY <1>2 DEF Get
  <2>2. TypeOK' /\ ListMatchesMap'
    BY <2>1, Zenon DEF IInv, TypeOK, ListMatchesMap
  <2>3. SlicesInv'
    BY <2>1 DEF IInv, TypeOK, SlicesInv
  <2>4. QED
    BY <2>2, <2>3 DEF IInv
<1>3. QED
  BY <1>1, <1>2

\* A validated block is in the iterator's buffer; a refused one is not looked at.
LEMMA DecompressIInv == ASSUME IInv, NEW r \in Readers, Decompress(r) PROVE IInv'
<1>1. UNCHANGED <<bad, items, lru, key, view>>
  BY DEF Decompress, cache
<1>2. PICK b \in Seq(Nat), p \in {"idle", "put"} :
        /\ decompBuf' = [decompBuf EXCEPT ![r] = b] /\ pc' = [pc EXCEPT ![r] = p]
        /\ p = "put" => b = Written[key[r]]
  <2>1. key[r] \in Keys /\ Written[key[r]] \in Seq(Nat) /\ decompBuf[r] \in Seq(Nat) /\ << >> \in Seq(Nat)
    BY WrittenAssumption DEF IInv, TypeOK
  <2>2. CASE key[r] \in bad
    <3>1. PICK junk \in {<< >>, decompBuf[r]} : decompBuf' = [decompBuf EXCEPT ![r] = junk]
      BY <2>2 DEF Decompress
    <3>2. pc' = [pc EXCEPT ![r] = "idle"]
      BY <2>2 DEF Decompress
    <3>3. QED
      BY <2>1, <3>1, <3>2, Zenon
  <2>3. CASE key[r] \notin bad
    BY <2>1, <2>3 DEF Decompress
  <2>4. QED
    BY <2>2, <2>3
<1>3. TypeOK'
  BY <1>1, <1>2, Zenon DEF IInv, TypeOK
<1>4. ListMatchesMap'
  BY <1>1, ListStays DEF IInv
<1>5. SlicesInv'
  BY <1>1, <1>2 DEF IInv, TypeOK, SlicesInv
<1>6. QED
  BY <1>3, <1>4, <1>5 DEF IInv

\* The cache keeps a copy, and the iterator looks at its own buffer.
LEMMA PutIInv == ASSUME IInv, NEW r \in Readers, Put(r) PROVE IInv'
<1>1. /\ view' = [view EXCEPT ![r] = OwnBuffer(r)] /\ pc' = [pc EXCEPT ![r] = "view"]
      /\ UNCHANGED <<bad, key, decompBuf>> /\ decompBuf[r] = Written[key[r]]
  BY DEF Put, IInv, SlicesInv
<1>2. /\ lru' \in Seq(Keys) /\ DOMAIN items' \subseteq Keys /\ ListMatchesMap'
      /\ \A k \in DOMAIN items' : items'[k] = Copied(Written[k])
  <2>1. CASE AlreadyCached(key[r])
    <3>1. UNCHANGED <<items, lru>>
      BY <2>1 DEF Put, cache
    <3>2. QED
      BY <3>1 DEF IInv, TypeOK, ListMatchesMap, SlicesInv
  <2>2. CASE ~AlreadyCached(key[r])
    <3>1. Insert(r, key[r]) /\ key[r] \notin DOMAIN items /\ key[r] \in Keys
      BY <2>2 DEF Put, AlreadyCached, IInv, TypeOK
    <3>2. lru' \in Seq(Keys) /\ DOMAIN items' \subseteq Keys /\ ListMatchesMap'
      BY <3>1, InsertMatches DEF IInv
    <3>3. \A x \in DOMAIN items' : IF x = key[r] THEN items'[x] = Entry(r)
                                   ELSE x \in DOMAIN items /\ items'[x] = items[x]
      BY <3>1 DEF Insert
    <3>4. Entry(r) = Copied(Written[key[r]])
      BY <1>1 DEF Entry
    <3>5. \A x \in DOMAIN items' : items'[x] = Copied(Written[x])
      BY <3>3, <3>4 DEF IInv, SlicesInv
    <3>6. QED
      BY <3>2, <3>5
  <2>3. QED
    BY <2>1, <2>2
<1>3. TypeOK'
  BY <1>1, <1>2, Zenon DEF IInv, TypeOK
<1>4. SlicesInv'
  BY <1>1, <1>2 DEF IInv, TypeOK, SlicesInv
<1>5. QED
  BY <1>2, <1>3, <1>4 DEF IInv

\* The inductive invariant of the cache and its iterators.
THEOREM CacheInvariance == Spec => []IInv
<1>1. ASSUME IInv, [Next]_vars PROVE IInv'
  <2>1. CASE \E r \in Readers, k \in Keys : Get(r, k)
    BY <1>1, <2>1, GetIInv
  <2>2. CASE \E r \in Readers : Decompress(r)
    BY <1>1, <2>2, DecompressIInv
  <2>3. CASE \E r \in Readers : Put(r)
    BY <1>1, <2>3, PutIInv
  <2>4. CASE \E k \in Keys : Damage(k)
    <3>1. UNCHANGED <<items, lru, pc, key, decompBuf, view>> /\ bad' \subseteq Keys
      BY <1>1, <2>4 DEF Damage, cache, IInv, TypeOK
    <3>2. TypeOK'
      BY <1>1, <3>1, Zenon DEF IInv, TypeOK
    <3>3. ListMatchesMap'
      BY <1>1, <3>1, ListStays DEF IInv
    <3>4. SlicesInv'
      BY <1>1, <3>1 DEF IInv, SlicesInv
    <3>5. QED
      BY <3>2, <3>3, <3>4 DEF IInv
  <2>5. CASE UNCHANGED vars
    <3>1. UNCHANGED <<bad, items, lru, pc, key, decompBuf, view>>
      BY <2>5 DEF vars, cache
    <3>2. TypeOK'
      BY <1>1, <3>1, Zenon DEF IInv, TypeOK
    <3>3. ListMatchesMap'
      BY <1>1, <3>1, ListStays DEF IInv
    <3>4. SlicesInv'
      BY <1>1, <3>1 DEF IInv, SlicesInv
    <3>5. QED
      BY <3>2, <3>3, <3>4 DEF IInv
  <2>6. QED
    BY <1>1, <2>1, <2>2, <2>3, <2>4, <2>5 DEF Next
<1>2. QED
  BY <1>1, InitIInv, PTL DEF Spec

\* However many iterators share the cache, whatever its size and whatever is
\* evicted, what an iterator looks at is what the writer sealed in the block.
THEOREM ViewIntactHolds == Spec => []ViewIntact
<1>1. IInv => ViewIntact
  <2> SUFFICES ASSUME IInv, NEW r \in Readers, pc[r] = "view"
               PROVE  Contents(view[r]) = Written[key[r]]
    BY DEF ViewIntact
  <2>1. CASE view[r] = OwnBuffer(r) /\ decompBuf[r] = Written[key[r]]
    BY <2>1 DEF OwnBuffer, Contents
  <2>2. CASE view[r] = Copied(Written[key[r]])
    BY <2>2 DEF Copied, Contents
  <2>3. QED
    BY <2>1, <2>2 DEF IInv, SlicesInv
<1>2. QED
  BY <1>1, CacheInvariance, PTL

\* The recency list and the map of BlockCache name the same keys, each once.
THEOREM ListMatchesMapHolds == Spec => []ListMatchesMap
<1>1. IInv => ListMatchesMap
  BY DEF IInv
<1>2. QED
  BY <1>1, CacheInvariance, PTL

-----------------------------------------------------------------------------
(* The books: bytes and recency *)

\* A set of natural numbers that is not empty has a least element: the form in
\* which the proofs use induction.
LEMMA LeastElement ==
  ASSUME NEW T, T \subseteq Nat, T # {}
  PROVE  \E n \in T : \A m \in T : n <= m
<1> DEFINE R == {p \in Nat \X Nat : p[1] < p[2]}
<1>1. IsWellFoundedOn(R, Nat)
  BY NatLessThanWellFounded, Zenon DEF OpToRel
<1>2. PICK n \in T : \A m \in T : ~(<<m, n>> \in R)
  <2> HIDE DEF R
  <2> QED
    BY <1>1, WFMin, Zenon
<1>3. ASSUME NEW m \in T PROVE n <= m
  <2>1. ~(<<m, n>> \in R)
    BY <1>2
  <2>2. m \in Nat /\ n \in Nat
    OBVIOUS
  <2>3. ~(m < n)
    BY <2>1, <2>2
  <2> QED
    BY <2>2, <2>3
<1> QED
  BY <1>3

\* g[i] is the size of the first i entries of s.
Adds(g, s, n) == g = [i \in 0..n |-> IF i = 0 THEN 0 ELSE g[i - 1] + Size(s[i])]

\* There is such a g.
LEMMA AddsExists ==
  ASSUME NEW s, NEW n \in Nat
  PROVE  \E g : Adds(g, s, n)
<1> DEFINE T == {m \in Nat : ~ \E g : Adds(g, s, m)}
<1>1. ASSUME T # {} PROVE FALSE
  <2>1. PICK m \in T : \A l \in T : m <= l
    <3>1. T \subseteq Nat
      OBVIOUS
    <3> HIDE DEF T
    <3> QED
      BY <1>1, <3>1, LeastElement, Zenon
  <2>2. m \in Nat /\ ~ \E g : Adds(g, s, m)
    BY <2>1
  <2>3. m # 0
    <3>1. Adds([i \in 0..0 |-> 0], s, 0)
      <4>1. \A i \in 0..0 : i = 0
        OBVIOUS
      <4> QED
        BY <4>1 DEF Adds
    <3> QED
      BY <2>2, <3>1, Zenon
  <2>4. m - 1 \in Nat /\ m - 1 \notin T
    <3>1. m - 1 \in Nat /\ ~(m <= m - 1)
      BY <2>2, <2>3
    <3> QED
      BY <2>1, <3>1, Zenon
  <2>5. PICK g : Adds(g, s, m - 1)
    BY <2>4
  <2> DEFINE h == [i \in 0..m |-> IF i = m THEN g[m - 1] + Size(s[m]) ELSE g[i]]
  <2>6. ASSUME NEW i \in 0..m
        PROVE  h[i] = IF i = 0 THEN 0 ELSE h[i - 1] + Size(s[i])
    <3>1. i \in Nat /\ (i # 0 => i - 1 \in 0..m /\ i - 1 # m)
      BY <2>2
    <3>2. i # 0 => h[i - 1] = g[i - 1]
      BY <3>1
    <3>3. CASE i = m
      BY <2>3, <3>1, <3>2, <3>3
    <3>4. CASE i # m
      <4>1. i \in 0..(m - 1)
        BY <2>2, <3>1, <3>4
      <4>2. g[i] = IF i = 0 THEN 0 ELSE g[i - 1] + Size(s[i])
        BY <2>5, <4>1 DEF Adds
      <4> QED
        BY <3>2, <3>4, <4>2
    <3> QED
      BY <3>3, <3>4
  <2>7. Adds(h, s, m)
    <3>1. h = [i \in 0..m |-> h[i]]
      OBVIOUS
    <3> HIDE DEF h
    <3> QED
      BY <2>6, <3>1, Zenon DEF Adds
  <2> QED
    BY <2>2, <2>7, Zenon
<1> QED
  BY <1>1, Zenon

\* The sizes of the first entries depend on those alone.
LEMMA AddsUnique ==
  ASSUME NEW s, NEW t, NEW n \in Nat, NEW m \in Nat, n <= m, \A i \in 1..n : s[i] = t[i],
         NEW g, NEW h, Adds(g, s, n), Adds(h, t, m)
  PROVE  \A i \in 0..n : g[i] = h[i]
<1> DEFINE T == {i \in 0..n : g[i] # h[i]}
<1>1. ASSUME T # {} PROVE FALSE
  <2>1. PICK i \in T : \A l \in T : i <= l
    <3>1. T \subseteq Nat
      OBVIOUS
    <3> HIDE DEF T
    <3> QED
      BY <1>1, <3>1, LeastElement, Zenon
  <2>2. i \in 0..n /\ g[i] # h[i] /\ i \in 0..m
    BY <2>1
  <2>3. g[i] = IF i = 0 THEN 0 ELSE g[i - 1] + Size(s[i])
    BY <2>2 DEF Adds
  <2>4. h[i] = IF i = 0 THEN 0 ELSE h[i - 1] + Size(t[i])
    BY <2>2 DEF Adds
  <2>5. i # 0
    BY <2>2, <2>3, <2>4, Zenon
  <2>6. i - 1 \in 0..n /\ ~(i <= i - 1) /\ i \in 1..n
    BY <2>2, <2>5
  <2>7. g[i - 1] = h[i - 1] /\ s[i] = t[i]
    BY <2>1, <2>6
  <2> QED
    BY <2>2, <2>3, <2>4, <2>5, <2>7, Zenon
<1> QED
  BY <1>1

\* So BytesOf is its last element.
LEMMA BytesOfIs ==
  ASSUME NEW s, NEW n \in Nat
  PROVE  \E g : Adds(g, s, n) /\ BytesOf(s, n) = g[n]
<1> DEFINE h == CHOOSE f : f = [i \in 0..n |-> IF i = 0 THEN 0 ELSE f[i - 1] + Size(s[i])]
<1>1. BytesOf(s, n) = h[n]
  BY Zenon DEF BytesOf
<1>2. \E g : Adds(g, s, n)
  BY AddsExists
<1>3. Adds(h, s, n)
  BY <1>2, Zenon DEF Adds
<1> QED
  BY <1>1, <1>3, Zenon

\* The size of no entry, and of one more.
LEMMA BytesOfMore ==
  ASSUME NEW s, NEW n \in Nat
  PROVE  /\ BytesOf(s, 0) = 0
         /\ BytesOf(s, n + 1) = BytesOf(s, n) + Size(s[n + 1])
<1>1. BytesOf(s, 0) = 0
  <2>1. PICK g : Adds(g, s, 0) /\ BytesOf(s, 0) = g[0]
    BY BytesOfIs
  <2>2. 0 \in 0..0
    OBVIOUS
  <2>3. g[0] = 0
    BY <2>1, <2>2 DEF Adds
  <2> QED
    BY <2>1, <2>3
<1>2. PICK g : Adds(g, s, n) /\ BytesOf(s, n) = g[n]
  BY BytesOfIs
<1>3. n + 1 \in Nat /\ n <= n + 1 /\ n \in 0..n /\ n + 1 \in 0..(n + 1) /\ n + 1 # 0 /\ (n + 1) - 1 = n
  OBVIOUS
<1>4. PICK h : Adds(h, s, n + 1) /\ BytesOf(s, n + 1) = h[n + 1]
  BY <1>3, BytesOfIs
<1>5. \A i \in 0..n : g[i] = h[i]
  <2>1. \A t, a, b : (\A i \in 1..n : s[i] = t[i]) /\ Adds(a, s, n) /\ Adds(b, t, n + 1)
                        => \A i \in 0..n : a[i] = b[i]
    BY SMTT(60), <1>3, AddsUnique
  <2>2. \A i \in 1..n : s[i] = s[i]
    OBVIOUS
  <2> QED
    BY <1>2, <1>4, <2>1, <2>2, Zenon
<1>6. h[n + 1] = h[n] + Size(s[n + 1])
  <2>1. h[n + 1] = IF n + 1 = 0 THEN 0 ELSE h[(n + 1) - 1] + Size(s[n + 1])
    BY <1>3, <1>4 DEF Adds
  <2> QED
    BY <1>3, <2>1, Zenon
<1> QED
  BY <1>1, <1>2, <1>3, <1>4, <1>5, <1>6, Zenon

\* Lists that begin alike.
LEMMA BytesOfSame ==
  ASSUME NEW s, NEW t, NEW n \in Nat, \A i \in 1..n : s[i] = t[i]
  PROVE  BytesOf(s, n) = BytesOf(t, n)
<1>1. PICK g : Adds(g, s, n) /\ BytesOf(s, n) = g[n]
  BY BytesOfIs
<1>2. PICK h : Adds(h, t, n) /\ BytesOf(t, n) = h[n]
  BY BytesOfIs
<1>3. n \in 0..n /\ n <= n
  OBVIOUS
<1>4. \A i \in 0..n : g[i] = h[i]
  BY SMTT(60), <1>1, <1>2, <1>3, AddsUnique
<1> QED
  BY <1>1, <1>2, <1>3, <1>4, Zenon

\* The size of a list is a number.
LEMMA BytesOfType ==
  ASSUME NEW s \in Seq(Keys), NEW n \in 0..Len(s)
  PROVE  BytesOf(s, n) \in Nat
<1> DEFINE T == {m \in 0..Len(s) : BytesOf(s, m) \notin Nat}
<1>1. ASSUME T # {} PROVE FALSE
  <2>1. PICK m \in T : \A l \in T : m <= l
    <3>1. T \subseteq Nat
      OBVIOUS
    <3> HIDE DEF T
    <3> QED
      BY <1>1, <3>1, LeastElement, Zenon
  <2>2. m \in 0..Len(s) /\ BytesOf(s, m) \notin Nat
    BY <2>1
  <2>3. m # 0
    BY <2>2, BytesOfMore
  <2>4. m - 1 \in 0..Len(s) /\ ~(m <= m - 1) /\ m \in 1..Len(s) /\ m - 1 \in Nat /\ (m - 1) + 1 = m
    BY <2>2, <2>3
  <2>5. BytesOf(s, m - 1) \in Nat
    BY <2>1, <2>4
  <2>6. Size(s[m]) \in Nat
    <3>1. s[m] \in Keys
      BY <2>4
    <3>2. Written[s[m]] \in Seq(Nat)
      BY <3>1, WrittenAssumption
    <3> QED
      BY <3>2 DEF Size
  <2>7. BytesOf(s, m) = BytesOf(s, m - 1) + Size(s[m])
    <3>1. BytesOf(s, (m - 1) + 1) = BytesOf(s, m - 1) + Size(s[(m - 1) + 1])
      BY <2>4, BytesOfMore
    <3> QED
      BY <2>4, <3>1, Zenon
  <2> QED
    BY <2>2, <2>5, <2>6, <2>7
<1> QED
  BY <1>1, Zenon

\* A new entry in front adds its size.
LEMMA BytesOfPushed ==
  ASSUME NEW s \in Seq(Keys), NEW k \in Keys, NEW p, p[1] = k, \A i \in 1..Len(s) : p[i + 1] = s[i]
  PROVE  \A j \in 0..Len(s) : BytesOf(p, j + 1) = Size(k) + BytesOf(s, j)
<1>1. Size(k) \in Nat
  <2>1. Written[k] \in Seq(Nat)
    BY WrittenAssumption
  <2> QED
    BY <2>1 DEF Size
<1> DEFINE T == {j \in 0..Len(s) : BytesOf(p, j + 1) # Size(k) + BytesOf(s, j)}
<1>2. ASSUME T # {} PROVE FALSE
  <2>1. PICK m \in T : \A l \in T : m <= l
    <3>1. T \subseteq Nat
      OBVIOUS
    <3> HIDE DEF T
    <3> QED
      BY <1>2, <3>1, LeastElement, Zenon
  <2>2. m \in 0..Len(s) /\ m \in Nat /\ BytesOf(p, m + 1) # Size(k) + BytesOf(s, m)
    BY <2>1
  <2>3. BytesOf(p, m + 1) = BytesOf(p, m) + Size(p[m + 1])
    BY <2>2, BytesOfMore
  <2>4. m # 0
    <3>1. BytesOf(p, 0) = 0 /\ BytesOf(s, 0) = 0
      BY BytesOfMore
    <3>2. ASSUME m = 0 PROVE BytesOf(p, m + 1) = 0 + Size(k) /\ BytesOf(s, m) = 0
      <4>1. m + 1 = 1
        BY <3>2
      <4> QED
        BY <2>3, <3>1, <3>2, <4>1, Zenon
    <3> QED
      BY <1>1, <2>2, <3>2
  <2>5. m - 1 \in 0..Len(s) /\ ~(m <= m - 1) /\ m \in 1..Len(s) /\ m - 1 \in Nat /\ (m - 1) + 1 = m
    BY <2>2, <2>4
  <2>6. BytesOf(p, m) = Size(k) + BytesOf(s, m - 1)
    <3>1. BytesOf(p, (m - 1) + 1) = Size(k) + BytesOf(s, m - 1)
      BY <2>1, <2>5, Zenon
    <3> QED
      BY <2>5, <3>1, Zenon
  <2>7. BytesOf(s, m) = BytesOf(s, m - 1) + Size(s[m])
    <3>1. BytesOf(s, (m - 1) + 1) = BytesOf(s, m - 1) + Size(s[(m - 1) + 1])
      BY <2>5, BytesOfMore
    <3> QED
      BY <2>5, <3>1, Zenon
  <2>8. Size(p[m + 1]) = Size(s[m]) /\ Size(s[m]) \in Nat
    <3>1. p[m + 1] = s[m] /\ s[m] \in Keys
      BY <2>5
    <3>2. Written[s[m]] \in Seq(Nat)
      BY <3>1, WrittenAssumption
    <3> QED
      BY <3>1, <3>2 DEF Size
  <2>9. BytesOf(s, m - 1) \in Nat
    BY <2>5, BytesOfType
  <2> QED
    BY <1>1, <2>2, <2>3, <2>6, <2>7, <2>8, <2>9
<1> QED
  BY <1>2, Zenon

\* lru.MoveToFront leaves the size as it is.
LEMMA BytesOfTouched ==
  ASSUME NEW s \in Seq(Keys), NEW at \in 1..Len(s), NEW t \in Seq(Keys), Len(t) = Len(s),
         t[1] = s[at], \A i \in 2..at : t[i] = s[i - 1],
         \A i \in (at + 1)..Len(s) : t[i] = s[i]
  PROVE  BytesOf(t, Len(t)) = BytesOf(s, Len(s))
<1>1. Len(s) \in Nat /\ at \in Nat /\ at >= 1 /\ at <= Len(s)
  OBVIOUS
<1> DEFINE front == SubSeq(s, 1, at - 1)
<1>2. /\ front \in Seq(Keys) /\ Len(front) = at - 1 /\ at - 1 \in Nat
      /\ \A i \in 1..(at - 1) : front[i] = s[i] /\ i + 1 \in 2..at /\ (i + 1) - 1 = i
  BY <1>1
<1> HIDE DEF front
<1>3. s[at] \in Keys
  BY <1>1
<1>4. \A i \in 1..Len(front) : t[i + 1] = front[i]
  BY <1>2, Zenon
<1>5. BytesOf(t, (at - 1) + 1) = Size(s[at]) + BytesOf(front, at - 1)
  <2>1. at - 1 \in 0..Len(front)
    BY <1>2
  <2> QED
    BY <1>2, <1>3, <1>4, <2>1, BytesOfPushed
<1>6. BytesOf(front, at - 1) = BytesOf(s, at - 1)
  <2>1. \A i \in 1..(at - 1) : front[i] = s[i]
    BY <1>2, Zenon
  <2> QED
    BY <1>2, <2>1, BytesOfSame
<1>7. BytesOf(s, (at - 1) + 1) = BytesOf(s, at - 1) + Size(s[(at - 1) + 1])
  BY <1>2, BytesOfMore, Zenon
<1>8. (at - 1) + 1 = at
  BY <1>1
<1>9. BytesOf(t, at) = BytesOf(s, at)
  <2>1. BytesOf(s, at - 1) \in Nat
    <3>1. at - 1 \in 0..Len(s)
      BY <1>1
    <3> QED
      BY <3>1, BytesOfType
  <2>2. Size(s[at]) \in Nat
    <3>1. Written[s[at]] \in Seq(Nat)
      BY <1>3, WrittenAssumption
    <3> QED
      BY <3>1 DEF Size
  <2>3. /\ BytesOf(t, at) = Size(s[at]) + BytesOf(s, at - 1)
        /\ BytesOf(s, at) = BytesOf(s, at - 1) + Size(s[at])
    BY <1>5, <1>6, <1>7, <1>8, Zenon
  <2> QED
    BY <2>1, <2>2, <2>3
<1> DEFINE T == {j \in at..Len(s) : BytesOf(t, j) # BytesOf(s, j)}
<1>10. ASSUME T # {} PROVE FALSE
  <2>1. PICK m \in T : \A l \in T : m <= l
    <3>1. T \subseteq Nat
      BY <1>1
    <3> HIDE DEF T
    <3> QED
      BY <1>10, <3>1, LeastElement, Zenon
  <2>2. m \in at..Len(s) /\ m \in Nat /\ BytesOf(t, m) # BytesOf(s, m)
    BY <1>1, <2>1
  <2>3. m # at
    BY <1>9, <2>2, Zenon
  <2>4. /\ m - 1 \in at..Len(s) /\ ~(m <= m - 1) /\ m \in (at + 1)..Len(s) /\ m - 1 \in Nat
        /\ (m - 1) + 1 = m
    BY <1>1, <2>2, <2>3
  <2>5. BytesOf(t, m - 1) = BytesOf(s, m - 1)
    BY <2>1, <2>4
  <2>6. /\ BytesOf(t, (m - 1) + 1) = BytesOf(t, m - 1) + Size(t[(m - 1) + 1])
        /\ BytesOf(s, (m - 1) + 1) = BytesOf(s, m - 1) + Size(s[(m - 1) + 1])
    BY <2>4, BytesOfMore, Zenon
  <2>7. t[m] = s[m]
    BY <2>4, Zenon
  <2> QED
    BY <2>2, <2>4, <2>5, <2>6, <2>7, Zenon
<1>11. Len(s) \in at..Len(s)
  BY <1>1
<1> QED
  BY <1>10, <1>11, Zenon

\* Where lru.MoveToFront puts the keys.
LEMMA TouchedShape ==
  ASSUME NEW s \in Seq(Keys), NEW at \in 1..Len(s),
         \A i, j \in DOMAIN s : s[i] = s[j] => i = j
  PROVE  /\ Touched(s, s[at]) \in Seq(Keys) /\ Len(Touched(s, s[at])) = Len(s)
         /\ Touched(s, s[at])[1] = s[at]
         /\ \A i \in 2..at : Touched(s, s[at])[i] = s[i - 1]
         /\ \A i \in (at + 1)..Len(s) : Touched(s, s[at])[i] = s[i]
<1> DEFINE k == s[at]
           p == CHOOSE i \in DOMAIN s : s[i] = k
           t == Touched(s, k)
<1>1. Len(s) \in Nat /\ DOMAIN s = 1..Len(s) /\ at \in 1..Len(s) /\ k \in Keys
  OBVIOUS
<1>2. p = at
  BY <1>1, Zenon
<1>3. t = [i \in 1..Len(s) |-> IF i = 1 THEN k ELSE IF i <= at THEN s[i - 1] ELSE s[i]]
  BY <1>2, Zenon DEF Touched
<1> HIDE DEF k, p, t
<1>4. t \in [1..Len(s) -> Keys]
  <2>1. \A i \in 1..Len(s) : s[i] \in Keys /\ (i # 1 => s[i - 1] \in Keys)
    BY <1>1
  <2> QED
    BY <1>1, <1>3, <2>1
<1>5. t \in Seq(Keys) /\ Len(t) = Len(s)
  BY <1>1, <1>4
<1>6. t[1] = k /\ (\A i \in 2..at : t[i] = s[i - 1]) /\ (\A i \in (at + 1)..Len(s) : t[i] = s[i])
  BY <1>1, <1>3
<1> QED
  BY <1>5, <1>6, Zenon DEF t, k

\* A key in front of a list.
LEMMA Pushed ==
  ASSUME NEW w \in Seq(Keys), NEW k \in Keys
  PROVE  /\ <<k>> \o w \in Seq(Keys) /\ Len(<<k>> \o w) = Len(w) + 1 /\ (<<k>> \o w)[1] = k
         /\ \A i \in 2..(Len(w) + 1) : (<<k>> \o w)[i] = w[i - 1]
  OBVIOUS

\* Taking a key out of the middle.
LEMMA CutOut ==
  ASSUME NEW s \in Seq(Keys), NEW at \in 1..Len(s)
  PROVE  \E w \in Seq(Keys) :
            /\ w = SubSeq(s, 1, at - 1) \o SubSeq(s, at + 1, Len(s)) /\ Len(w) = Len(s) - 1
            /\ \A i \in 1..(at - 1) : w[i] = s[i]
            /\ \A i \in at..(Len(s) - 1) : w[i] = s[i + 1]
<1>1. Len(s) \in Nat /\ at \in Nat /\ at >= 1 /\ at <= Len(s)
  OBVIOUS
<1> DEFINE a == SubSeq(s, 1, at - 1)
           b == SubSeq(s, at + 1, Len(s))
           w == a \o b
<1> HIDE DEF w
<1>4. a \in Seq(Keys) /\ Len(a) = at - 1 /\ \A i \in 1..(at - 1) : a[i] = s[i]
  BY <1>1
<1>5. /\ b \in Seq(Keys) /\ Len(b) = Len(s) - at
      /\ \A i \in 1..(Len(s) - at) : b[i] = s[at + i]
  <2>1. at + 1 \in Nat /\ at + 1 <= Len(s) + 1 /\ Len(s) - at \in Nat /\ at \in Nat
    BY <1>1
  <2>2. b \in Seq(Keys) /\ Len(b) = Len(s) - at
    BY <1>1, <2>1
  <2>3. \A i \in 1..(Len(s) - at) : b[i] = s[(at + 1) + i - 1]
    BY <1>1, <2>1
  <2>4. \A i \in 1..(Len(s) - at) : (at + 1) + i - 1 = at + i
    BY <2>1
  <2> QED
    BY <2>2, <2>3, <2>4, Zenon
<1> HIDE DEF a, b
<1>6. /\ w \in Seq(Keys) /\ Len(w) = Len(s) - 1
      /\ \A i \in 1..(at - 1) : w[i] = s[i]
      /\ \A i \in at..(Len(s) - 1) : w[i] = s[i + 1]
  <2>1. /\ w \in Seq(Keys) /\ Len(w) = Len(a) + Len(b)
        /\ \A i \in 1..(Len(a) + Len(b)) : w[i] = IF i <= Len(a) THEN a[i] ELSE b[i - Len(a)]
    BY <1>4, <1>5, ConcatProperties, Zenon DEF w
  <2>2. Len(a) + Len(b) = Len(s) - 1
    BY <1>1, <1>4, <1>5
  <2>3. \A i \in 1..(at - 1) : i \in 1..(Len(a) + Len(b)) /\ i <= Len(a)
    BY <1>1, <1>4, <1>5
  <2>4. \A i \in at..(Len(s) - 1) :
           /\ i \in 1..(Len(a) + Len(b)) /\ ~(i <= Len(a))
           /\ i - Len(a) \in 1..(Len(s) - at) /\ at + (i - Len(a)) = i + 1
    BY <1>1, <1>4, <1>5
  <2>5. \A i \in 1..(at - 1) : w[i] = s[i]
    BY <1>4, <2>1, <2>3, Zenon
  <2>6. ASSUME NEW i \in at..(Len(s) - 1) PROVE w[i] = s[i + 1]
    <3>1. w[i] = b[i - Len(a)]
      BY <2>1, <2>4, Zenon
    <3>2. b[i - Len(a)] = s[at + (i - Len(a))]
      BY <1>5, <2>4, Zenon
    <3> QED
      BY <2>4, <3>1, <3>2, Zenon
  <2> QED
    BY <2>1, <2>2, <2>5, <2>6, Zenon
<1> QED
  BY <1>6, Zenon DEF a, b, w

\* The history of a key that is in it moves the same way.
LEMMA MostRecentKnown ==
  ASSUME NEW s \in Seq(Keys), NEW at \in 1..Len(s),
         \A i, j \in DOMAIN s : s[i] = s[j] => i = j
  PROVE  MostRecent(s, s[at]) = Touched(s, s[at])
<1> DEFINE k == s[at]
           t == Touched(s, k)
<1>1. Len(s) \in Nat /\ DOMAIN s = 1..Len(s) /\ at \in 1..Len(s) /\ k \in Keys
  OBVIOUS
<1>2. /\ t \in Seq(Keys) /\ Len(t) = Len(s) /\ t[1] = k
      /\ \A i \in 2..at : t[i] = s[i - 1]
      /\ \A i \in (at + 1)..Len(s) : t[i] = s[i]
  BY TouchedShape
<1>3. PICK w \in Seq(Keys) :
         /\ w = SubSeq(s, 1, at - 1) \o SubSeq(s, at + 1, Len(s)) /\ Len(w) = Len(s) - 1
         /\ \A i \in 1..(at - 1) : w[i] = s[i]
         /\ \A i \in at..(Len(s) - 1) : w[i] = s[i + 1]
  BY CutOut, Zenon
<1> DEFINE m == <<k>> \o w
<1>4. MostRecent(s, k) = m
  <2>1. (CHOOSE i \in DOMAIN s : s[i] = k) = at
    BY <1>1, Zenon
  <2>2. \E i \in DOMAIN s : s[i] = k
    BY <1>1, Zenon
  <2> QED
    BY <1>3, <2>1, <2>2, Zenon DEF MostRecent, Without
<1>5. m \in Seq(Keys) /\ Len(m) = Len(s) /\ m[1] = k /\ \A i \in 2..Len(s) : m[i] = w[i - 1]
  <2>1. /\ m \in Seq(Keys) /\ Len(m) = Len(w) + 1 /\ m[1] = k
        /\ \A i \in 2..(Len(w) + 1) : m[i] = w[i - 1]
    BY <1>1, Pushed, Zenon
  <2>2. Len(w) + 1 = Len(s)
    <3>1. Len(w) = Len(s) - 1
      BY <1>3, Zenon
    <3>2. \A n \in Nat : (n - 1) + 1 = n
      OBVIOUS
    <3> QED
      BY <1>1, <3>1, <3>2, Zenon
  <2> QED
    BY <2>1, <2>2, Zenon
<1> HIDE DEF k, t, m
<1>6. /\ \A i \in 1..Len(s) : i = 1 \/ i \in 2..at \/ i \in (at + 1)..Len(s)
      /\ \A i \in 2..at : i \in 2..Len(s) /\ i - 1 \in 1..(at - 1)
      /\ \A i \in (at + 1)..Len(s) :
            i \in 2..Len(s) /\ i - 1 \in at..(Len(s) - 1) /\ (i - 1) + 1 = i
  BY <1>1
<1>7. ASSUME NEW i \in 1..Len(s) PROVE m[i] = t[i]
  <2>1. CASE i = 1
    BY <1>2, <1>5, <2>1, Zenon
  <2>2. CASE i \in 2..at
    BY ZenonT(60), <1>2, <1>3, <1>5, <1>6, <2>2
  <2>3. CASE i \in (at + 1)..Len(s)
    <3>1. w[i - 1] = s[(i - 1) + 1]
      BY <1>3, <1>6, <2>3, Zenon
    <3> QED
      BY <1>2, <1>5, <1>6, <2>3, <3>1, Zenon
  <2> QED
    BY <1>6, <2>1, <2>2, <2>3, Zenon
<1>8. m = t
  BY <1>2, <1>5, <1>7, SeqEqual
<1> QED
  BY <1>4, <1>8, Zenon DEF k, t

\* A key that is new goes in front of all others.
LEMMA MostRecentNew ==
  ASSUME NEW s \in Seq(Keys), NEW k \in Keys, \A i \in DOMAIN s : s[i] # k,
         \A i, j \in DOMAIN s : s[i] = s[j] => i = j
  PROVE  /\ MostRecent(s, k) \in Seq(Keys) /\ Len(MostRecent(s, k)) = Len(s) + 1
         /\ MostRecent(s, k)[1] = k /\ \A i \in 1..Len(s) : MostRecent(s, k)[i + 1] = s[i]
         /\ \A i, j \in DOMAIN MostRecent(s, k) : MostRecent(s, k)[i] = MostRecent(s, k)[j] => i = j
<1> DEFINE m == <<k>> \o s
<1>1. MostRecent(s, k) = m
  BY Zenon DEF MostRecent, Without
<1>2. /\ m \in Seq(Keys) /\ Len(m) = Len(s) + 1 /\ m[1] = k
      /\ DOMAIN m = 1..(Len(s) + 1) /\ DOMAIN s = 1..Len(s) /\ Len(s) \in Nat
      /\ \A i \in 2..(Len(s) + 1) : m[i] = s[i - 1]
  OBVIOUS
<1> HIDE DEF m
<1>3. \A i \in 1..Len(s) : m[i + 1] = s[i]
  <2>1. \A i \in 1..Len(s) : i + 1 \in 2..(Len(s) + 1) /\ (i + 1) - 1 = i
    BY <1>2
  <2> QED
    BY <1>2, <2>1, Zenon
<1>4. ASSUME NEW i \in 1..(Len(s) + 1), NEW j \in 1..(Len(s) + 1), m[i] = m[j] PROVE i = j
  <2>1. \A l \in 1..(Len(s) + 1) : l # 1 => l \in 2..(Len(s) + 1) /\ l - 1 \in 1..Len(s)
    BY <1>2
  <2>2. CASE i = 1 \/ j = 1
    <3>1. \A l \in 1..(Len(s) + 1) : m[l] = k => l = 1
      BY SMTT(30), <1>2, <2>1
    <3>2. m[i] = k /\ m[j] = k
      BY <1>2, <1>4, <2>2, Zenon
    <3> QED
      BY <3>1, <3>2, Zenon
  <2>3. CASE i # 1 /\ j # 1
    <3>1. s[i - 1] = s[j - 1] /\ i - 1 \in DOMAIN s /\ j - 1 \in DOMAIN s
      BY <1>2, <1>4, <2>1, <2>3, Zenon
    <3>2. i - 1 = j - 1
      BY <3>1, Zenon
    <3> QED
      BY <3>2
  <2> QED
    BY <2>2, <2>3
<1> QED
  BY <1>1, <1>2, <1>3, <1>4, Zenon

\* A list that begins another one.
LEMMA BeginsWith ==
  ASSUME NEW s \in Seq(Keys), NEW t \in Seq(Keys), Len(s) <= Len(t),
         \A i \in 1..Len(s) : s[i] = t[i]
  PROVE  s = SubSeq(t, 1, Len(s))
<1> DEFINE u == SubSeq(t, 1, Len(s))
<1>1. u \in Seq(Keys) /\ Len(u) = Len(s) /\ \A i \in 1..Len(s) : u[i] = t[i]
  OBVIOUS
<1> HIDE DEF u
<1>2. \A i \in 1..Len(s) : s[i] = u[i]
  BY <1>1, Zenon
<1>3. s = u
  BY <1>1, <1>2, SeqEqual
<1> QED
  BY <1>3 DEF u

\* A hit moves the key to the front of the list and of the history.
LEMMA HitBooks ==
  ASSUME IInv, BooksInv, NEW k \in DOMAIN items, usedBytes' = usedBytes,
         lru' = Touched(lru, k), recent' = MostRecent(recent, k)
  PROVE  BooksInv'
<1>1. /\ lru \in Seq(Keys) /\ (\A i, j \in DOMAIN lru : lru[i] = lru[j] => i = j)
      /\ \E i \in DOMAIN lru : lru[i] = k
  BY DEF IInv, TypeOK, ListMatchesMap
<1>2. /\ usedBytes = BytesOf(lru, Len(lru)) /\ usedBytes <= MaxBytes /\ recent \in Seq(Keys)
      /\ (\A i, j \in DOMAIN recent : recent[i] = recent[j] => i = j)
      /\ Len(lru) <= Len(recent) /\ lru = SubSeq(recent, 1, Len(lru))
  BY Zenon DEF BooksInv, BytesAccounted, KeepsMostRecent
<1>3. PICK at \in 1..Len(lru) : lru[at] = k
  BY <1>1
<1>4. Len(lru) \in Nat /\ Len(recent) \in Nat /\ at \in 1..Len(recent)
  BY SMTT(30), <1>1, <1>2
<1>5. \A i \in 1..Len(lru) : lru[i] = recent[i]
  <2> DEFINE n == Len(lru)
  <2>1. n \in Nat /\ n <= Len(recent)
    BY <1>2, <1>4
  <2> HIDE DEF n
  <2>2. \A i \in 1..n : SubSeq(recent, 1, n)[i] = recent[i]
    BY <1>2, <2>1
  <2> QED
    BY <1>2, <2>2, Zenon DEF n
<1>6. recent[at] = k
  BY <1>3, <1>5, Zenon
<1>7. /\ lru' \in Seq(Keys) /\ Len(lru') = Len(lru) /\ lru'[1] = k
      /\ \A i \in 2..at : lru'[i] = lru[i - 1]
      /\ \A i \in (at + 1)..Len(lru) : lru'[i] = lru[i]
  BY SMTT(30), <1>1, <1>3, TouchedShape
<1>8. recent' = Touched(recent, k)
  BY <1>2, <1>4, <1>6, MostRecentKnown
<1>9. /\ recent' \in Seq(Keys) /\ Len(recent') = Len(recent) /\ recent'[1] = k
      /\ \A i \in 2..at : recent'[i] = recent[i - 1]
      /\ \A i \in (at + 1)..Len(recent) : recent'[i] = recent[i]
  BY <1>2, <1>4, <1>6, <1>8, TouchedShape
<1>10. \A i, j \in DOMAIN recent' : recent'[i] = recent'[j] => i = j
  <2>1. k \in {recent[i] : i \in DOMAIN recent}
    BY <1>2, <1>4, <1>6
  <2> QED
    BY <1>2, <1>8, <2>1, TouchedPermutes
<1>11. ASSUME NEW i \in 1..Len(lru) PROVE lru'[i] = recent'[i]
  <2>1. CASE i = 1
    BY <1>7, <1>9, <2>1, Zenon
  <2>2. CASE i \in 2..at
    <3>1. i - 1 \in 1..Len(lru)
      BY <1>4, <2>2
    <3> QED
      BY <1>5, <1>7, <1>9, <2>2, <3>1, Zenon
  <2>3. CASE i \in (at + 1)..Len(lru)
    <3>1. i \in (at + 1)..Len(recent)
      BY <1>2, <1>4, <2>3
    <3> QED
      BY <1>5, <1>7, <1>9, <2>3, <3>1, Zenon
  <2>4. i = 1 \/ i \in 2..at \/ i \in (at + 1)..Len(lru)
    BY <1>4
  <2> QED
    BY <2>1, <2>2, <2>3, <2>4, Zenon
<1>12. Len(lru') <= Len(recent')
  BY <1>2, <1>7, <1>9, Zenon
<1>13. lru' = SubSeq(recent', 1, Len(lru'))
  <2>1. \A i \in 1..Len(lru') : lru'[i] = recent'[i]
    BY <1>7, <1>11, Zenon
  <2> QED
    BY <1>7, <1>9, <1>12, <2>1, BeginsWith
<1>14. usedBytes' = BytesOf(lru', Len(lru')) /\ usedBytes' <= MaxBytes
  <2>1. lru'[1] = lru[at]
    BY <1>3, <1>7, Zenon
  <2>2. BytesOf(lru', Len(lru')) = BytesOf(lru, Len(lru))
    BY <1>1, <1>7, <2>1, BytesOfTouched
  <2> QED
    BY <1>2, <2>2, Zenon
<1> QED
  BY <1>9, <1>10, <1>12, <1>13, <1>14, Zenon DEF BooksInv, BytesAccounted, KeepsMostRecent

\* A put counts what it adds and what its eviction loop takes away.
LEMMA InsertBooks ==
  ASSUME IInv, BooksInv, NEW r \in Readers, NEW k \in Keys, k \notin DOMAIN items,
         Insert(r, k), recent' = MostRecent(recent, k)
  PROVE  BooksInv'
<1>1. lru \in Seq(Keys) /\ (\A i \in DOMAIN lru : lru[i] # k)
  BY DEF IInv, TypeOK, ListMatchesMap
<1>2. /\ usedBytes = BytesOf(lru, Len(lru)) /\ recent \in Seq(Keys)
      /\ (\A i, j \in DOMAIN recent : recent[i] = recent[j] => i = j)
      /\ Len(lru) <= Len(recent) /\ lru = SubSeq(recent, 1, Len(lru))
  BY Zenon DEF BooksInv, BytesAccounted, KeepsMostRecent
<1>3. /\ Len(lru) \in Nat /\ DOMAIN lru = 1..Len(lru)
      /\ Len(recent) \in Nat /\ DOMAIN recent = 1..Len(recent)
  BY SMTT(30), <1>1, <1>2
<1>4. \A i \in 1..Len(lru) : lru[i] = recent[i]
  <2> DEFINE n == Len(lru)
  <2>1. n \in Nat /\ n <= Len(recent)
    BY <1>2, <1>3
  <2> HIDE DEF n
  <2>2. \A i \in 1..n : SubSeq(recent, 1, n)[i] = recent[i]
    BY <1>2, <2>1
  <2> QED
    BY <1>2, <2>2, Zenon DEF n
<1>5. /\ recent' \in Seq(Keys) /\ Len(lru) + 1 <= Len(recent') /\ recent'[1] = k
      /\ \A i \in 1..Len(lru) : recent'[i + 1] = lru[i]
      /\ \A i, j \in DOMAIN recent' : recent'[i] = recent'[j] => i = j
  <2>1. CASE \E i \in DOMAIN recent : recent[i] = k
    <3>1. PICK at \in 1..Len(recent) : recent[at] = k
      BY <1>3, <2>1, Zenon
    <3>2. at > Len(lru)
      <4>1. at \notin 1..Len(lru)
        BY <1>1, <1>3, <1>4, <3>1, Zenon
      <4> QED
        BY <1>3, <3>1, <4>1
    <3>3. recent' = Touched(recent, k)
      BY <1>2, <3>1, MostRecentKnown
    <3>4. /\ recent' \in Seq(Keys) /\ Len(recent') = Len(recent) /\ recent'[1] = k
          /\ \A i \in 2..at : recent'[i] = recent[i - 1]
      BY SMTT(30), <1>2, <3>1, <3>3, TouchedShape
    <3>5. \A i, j \in DOMAIN recent' : recent'[i] = recent'[j] => i = j
      <4>1. k \in {recent[i] : i \in DOMAIN recent}
        BY <1>3, <3>1
      <4> QED
        BY <1>2, <3>3, <4>1, TouchedPermutes
    <3>6. \A i \in 1..Len(lru) : i + 1 \in 2..at /\ (i + 1) - 1 = i
      BY <1>3, <3>1, <3>2
    <3>7. \A i \in 1..Len(lru) : recent'[i + 1] = lru[i]
      BY <1>4, <3>4, <3>6, Zenon
    <3>8. Len(lru) + 1 <= Len(recent')
      BY <1>3, <3>1, <3>2, <3>4
    <3> QED
      BY <3>4, <3>5, <3>7, <3>8, Zenon
  <2>2. CASE ~ \E i \in DOMAIN recent : recent[i] = k
    <3>1. \A i \in DOMAIN recent : recent[i] # k
      BY <2>2, Zenon
    <3>2. /\ recent' \in Seq(Keys) /\ Len(recent') = Len(recent) + 1 /\ recent'[1] = k
          /\ \A i \in 1..Len(recent) : recent'[i + 1] = recent[i]
          /\ \A i, j \in DOMAIN recent' : recent'[i] = recent'[j] => i = j
      BY SMTT(30), <1>2, <3>1, MostRecentNew
    <3>3. \A i \in 1..Len(lru) : i \in 1..Len(recent)
      BY <1>2, <1>3
    <3>4. \A i \in 1..Len(lru) : recent'[i + 1] = lru[i]
      BY <1>4, <3>2, <3>3, Zenon
    <3>5. Len(lru) + 1 <= Len(recent')
      BY <1>2, <1>3, <3>2
    <3> QED
      BY <3>2, <3>4, <3>5, Zenon
  <2> QED
    BY <2>1, <2>2
<1> DEFINE pushed == <<k>> \o lru
           len == Len(lru) + 1
<1>6. /\ pushed \in Seq(Keys) /\ Len(pushed) = len /\ len \in Nat /\ pushed[1] = k
      /\ \A i \in 2..len : pushed[i] = lru[i - 1]
  BY <1>1, <1>3
<1>7. PICK n \in 0..Len(pushed) :
        /\ IsKept(n, pushed) /\ lru' = SubSeq(pushed, 1, n)
        /\ usedBytes' = usedBytes + Size(k) - (BytesOf(pushed, Len(pushed)) - BytesOf(pushed, n))
  BY Zenon DEF Insert
<1> HIDE DEF pushed
<1>8. \A i \in 1..Len(lru) : pushed[i + 1] = lru[i]
  <2>1. \A i \in 1..Len(lru) : i + 1 \in 2..len /\ (i + 1) - 1 = i
    BY <1>3
  <2> QED
    BY <1>6, <2>1, Zenon
<1>9. BytesOf(pushed, len) = Size(k) + BytesOf(lru, Len(lru))
  <2>1. Len(lru) \in 0..Len(lru)
    BY <1>3
  <2>2. \A j \in 0..Len(lru) : BytesOf(pushed, j + 1) = Size(k) + BytesOf(lru, j)
    BY ZenonT(60), <1>1, <1>6, <1>8, BytesOfPushed
  <2> QED
    BY <2>1, <2>2, Zenon
<1> HIDE DEF len
<1>10. /\ lru' \in Seq(Keys) /\ Len(lru') = n /\ n \in Nat /\ n <= len
       /\ \A i \in 1..n : lru'[i] = pushed[i]
  BY <1>6, <1>7
<1>11. BytesOf(lru', n) = BytesOf(pushed, n)
  BY <1>10, BytesOfSame
<1>12. /\ BytesOf(pushed, n) \in Nat /\ BytesOf(lru, Len(lru)) \in Nat /\ Size(k) \in Nat
  <2>1. BytesOf(pushed, n) \in Nat
    BY <1>6, <1>7, BytesOfType
  <2>2. BytesOf(lru, Len(lru)) \in Nat
    <3>1. Len(lru) \in 0..Len(lru)
      BY <1>3
    <3> QED
      BY <1>1, <3>1, BytesOfType
  <2>3. Written[k] \in Seq(Nat)
    BY WrittenAssumption
  <2>4. Size(k) \in Nat
    BY <2>3 DEF Size
  <2> QED
    BY <2>1, <2>2, <2>4
<1>13. usedBytes' = BytesOf(pushed, n)
  <2>1. usedBytes' = usedBytes + Size(k) - ((Size(k) + BytesOf(lru, Len(lru))) - BytesOf(pushed, n))
    BY <1>6, <1>7, <1>9, Zenon
  <2>2. usedBytes = BytesOf(lru, Len(lru))
    BY <1>2, Zenon
  <2> QED
    BY <1>12, <2>1, <2>2
<1>14. usedBytes' = BytesOf(lru', Len(lru')) /\ usedBytes' <= MaxBytes
  BY <1>7, <1>10, <1>11, <1>13, Zenon DEF IsKept
<1>15. Len(lru') <= Len(recent')
  <2>1. Len(recent') \in Nat /\ Len(lru) + 1 <= Len(recent')
    BY <1>5
  <2> QED
    BY <1>3, <1>10, <2>1 DEF len
<1>16. ASSUME NEW i \in 1..Len(lru') PROVE lru'[i] = recent'[i]
  <2>1. i \in 1..n /\ (i # 1 => i - 1 \in 1..Len(lru) /\ (i - 1) + 1 = i)
    BY <1>3, <1>10 DEF len
  <2>2. CASE i = 1
    BY <1>5, <1>6, <1>10, <2>1, <2>2, Zenon
  <2>3. CASE i # 1
    <3>1. recent'[(i - 1) + 1] = lru[i - 1] /\ pushed[(i - 1) + 1] = lru[i - 1]
      BY <1>5, <1>8, <2>1, <2>3, Zenon
    <3> QED
      BY <1>10, <2>1, <2>3, <3>1, Zenon
  <2> QED
    BY <2>2, <2>3
<1>17. lru' = SubSeq(recent', 1, Len(lru'))
  BY <1>5, <1>10, <1>15, <1>16, BeginsWith
<1> QED
  BY <1>5, <1>14, <1>15, <1>17, Zenon DEF BooksInv, BytesAccounted, KeepsMostRecent

\* The other steps do not touch the books.
LEMMA BooksStay == ASSUME BooksInv, UNCHANGED cache PROVE BooksInv'
  BY Zenon DEF BooksInv, BytesAccounted, KeepsMostRecent, cache

\* The byte count, the list and its history.
THEOREM BooksInvariance == Spec => []BooksInv
<1>1. Init => BooksInv
  <2> SUFFICES ASSUME Init PROVE BooksInv
    OBVIOUS
  <2>1. lru = << >> /\ recent = << >> /\ usedBytes = 0
    BY DEF Init
  <2>2. BytesOf(lru, 0) = 0
    BY BytesOfMore
  <2>3. BytesAccounted
    BY <2>1, <2>2, CacheAssumption DEF BytesAccounted
  <2> QED
    BY <2>1, <2>3 DEF BooksInv, KeepsMostRecent
<1>2. ASSUME IInv, BooksInv, [Next]_vars PROVE BooksInv'
  <2>1. ASSUME NEW r \in Readers, NEW k \in Keys, Get(r, k) PROVE BooksInv'
    <3>1. CASE k \in DOMAIN items
      <4>1. lru' = Touched(lru, k) /\ recent' = MostRecent(recent, k) /\ usedBytes' = usedBytes
        BY <2>1, <3>1, Zenon DEF Get
      <4> QED
        BY <1>2, <3>1, <4>1, HitBooks
    <3>2. CASE k \notin DOMAIN items
      <4>1. UNCHANGED cache
        BY <2>1, <3>2, Zenon DEF Get, cache
      <4> QED
        BY <1>2, <4>1, BooksStay
    <3> QED
      BY <3>1, <3>2
  <2>2. ASSUME NEW r \in Readers, Decompress(r) PROVE BooksInv'
    BY <1>2, <2>2, BooksStay DEF Decompress
  <2>3. ASSUME NEW r \in Readers, Put(r) PROVE BooksInv'
    <3>1. CASE AlreadyCached(key[r])
      BY <1>2, <2>3, <3>1, BooksStay DEF Put
    <3>2. CASE ~AlreadyCached(key[r])
      <4>1. key[r] \in Keys /\ key[r] \notin DOMAIN items
        BY <1>2, <3>2 DEF IInv, TypeOK, AlreadyCached
      <4>2. Insert(r, key[r]) /\ recent' = MostRecent(recent, key[r])
        BY <2>3, <3>2, Zenon DEF Put
      <4> QED
        BY <1>2, <4>1, <4>2, InsertBooks
    <3> QED
      BY <3>1, <3>2
  <2>4. ASSUME NEW k \in Keys, Damage(k) PROVE BooksInv'
    BY <1>2, <2>4, BooksStay DEF Damage
  <2>5. CASE UNCHANGED vars
    BY <1>2, <2>5, BooksStay, Zenon DEF vars, cache
  <2> QED
    BY <1>2, <2>1, <2>2, <2>3, <2>4, <2>5, Zenon DEF Next
<1> QED
  BY <1>1, <1>2, CacheInvariance, PTL DEF Spec

\* usedBytes is at all times the size of what is cached, and within the bound,
\* whatever the sizes of the blocks and of the cache.
THEOREM BytesAccountedHolds == Spec => []BytesAccounted
<1>1. BooksInv => BytesAccounted
  BY Zenon DEF BooksInv
<1> QED
  BY <1>1, BooksInvariance, PTL

\* The cached keys are those most recently hit or inserted.
THEOREM KeepsMostRecentHolds == Spec => []KeepsMostRecent
<1>1. BooksInv => KeepsMostRecent
  BY Zenon DEF BooksInv
<1> QED
  BY <1>1, BooksInvariance, PTL

=============================================================================
