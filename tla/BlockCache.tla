----------------------------- MODULE BlockCache -----------------------------
(***************************************************************************)
(* sstable.BlockCache and the iterators of compressed SSTables that share  *)
(* it: Reader.readBlockRaw looks a block up, decompresses a missing one    *)
(* into the iterator's own reused buffer, validates it and offers it to    *)
(* the cache.                                                              *)
(*                                                                         *)
(* A slice is modelled by what it points to: an iterator's buffer, whose   *)
(* contents change with its next decompression, or memory of its own.      *)
(***************************************************************************)
EXTENDS Integers, Sequences, FiniteSets, Functions

CONSTANTS
    Readers,   \* scan iterators, each used by one goroutine
    Keys,      \* cacheKeys: the blocks of the live SSTables
    Written,   \* the payload the writer sealed in each block
    MaxBytes,  \* BlockCache.maxBytes
    MaxDamage  \* bound: how many blocks go bad on disk

ASSUME WrittenAssumption == Written \in [Keys -> Seq(Nat)]
ASSUME KeysAssumption == Keys # {}
ASSUME CacheAssumption == MaxBytes \in Nat /\ MaxDamage \in Nat

VARIABLES
    bad,        \* blocks that no longer decompress to what was written
    items,      \* BlockCache.items: key -> slice
    lru,        \* BlockCache.lru, front first
    usedBytes,  \* BlockCache.usedBytes
    pc, key,    \* position of each iterator and the block it is at
    decompBuf,  \* contents of each iterator's decompression buffer
    view,       \* the slice readBlockRaw returned to it
    recent      \* history: the keys ever cached, by their last hit or insertion

cache == <<items, lru, usedBytes, recent>>
vars == <<bad, cache, pc, key, decompBuf, view>>

OwnBuffer(r) == [kind |-> "buffer", reader |-> r]
Copied(data) == [kind |-> "own", data |-> data]
Contents(slice) == IF slice.kind = "buffer" THEN decompBuf[slice.reader] ELSE slice.data

Size(k) == Len(Written[k])

\* k in front of the other keys of s, which has no repeats.
Without(s, k) ==
    IF \E i \in DOMAIN s : s[i] = k
    THEN LET at == CHOOSE i \in DOMAIN s : s[i] = k
         IN  SubSeq(s, 1, at - 1) \o SubSeq(s, at + 1, Len(s))
    ELSE s
MostRecent(s, k) == <<k>> \o Without(s, k)

TypeOK ==
    /\ bad \subseteq Keys /\ DOMAIN items \subseteq Keys /\ lru \in Seq(Keys)
    /\ pc \in [Readers -> {"idle", "decompress", "put", "view"}]
    /\ key \in [Readers -> Keys] /\ decompBuf \in [Readers -> Seq(Nat)]
    /\ view \in [Readers -> {OwnBuffer(r) : r \in Readers} \cup {Copied(Written[k]) : k \in Keys}]

Init ==
    /\ bad = {} /\ items = [k \in {} |-> Copied(<< >>)] /\ lru = << >> /\ usedBytes = 0
    /\ pc = [r \in Readers |-> "idle"] /\ key = [r \in Readers |-> CHOOSE k \in Keys : TRUE]
    /\ decompBuf = [r \in Readers |-> << >>]
    /\ view = [r \in Readers |-> OwnBuffer(r)]
    /\ recent = << >>

-----------------------------------------------------------------------------
\* A hit that leaves the list alone.
TouchedNot(s, k) == s

\* lru.MoveToFront: the element of k goes to the front, those before it one back.
Touched(s, k) ==
    LET at == CHOOSE i \in DOMAIN s : s[i] = k
    IN  [i \in 1..Len(s) |-> IF i = 1 THEN k ELSE IF i <= at THEN s[i - 1] ELSE s[i]]

\* The iterator moves to block k: BlockCache.get.  The record views it handed
\* out for the block before are invalid from here on.
Get(r, k) ==
    /\ pc[r] \in {"idle", "view"}
    /\ key' = [key EXCEPT ![r] = k]
    /\ IF k \in DOMAIN items
       THEN /\ view' = [view EXCEPT ![r] = items[k]] /\ pc' = [pc EXCEPT ![r] = "view"]
            /\ lru' = Touched(lru, k) /\ recent' = MostRecent(recent, k)
       ELSE /\ pc' = [pc EXCEPT ![r] = "decompress"] /\ UNCHANGED <<view, lru, recent>>
    /\ UNCHANGED <<bad, items, usedBytes, decompBuf>>

\* decompress into the iterator's buffer and validateBlock.  A bad block either
\* does not decompress or fails its checksum; the buffer then holds anything.
Decompress(r) ==
    /\ pc[r] = "decompress"
    /\ IF key[r] \in bad
       THEN /\ pc' = [pc EXCEPT ![r] = "idle"]
            /\ \E junk \in {<< >>, decompBuf[r]} : decompBuf' = [decompBuf EXCEPT ![r] = junk]
       ELSE /\ pc' = [pc EXCEPT ![r] = "put"]
            /\ decompBuf' = [decompBuf EXCEPT ![r] = Written[key[r]]]
    /\ UNCHANGED <<bad, cache, key, view>>

\* The bytes of the n most recently used entries of s.
BytesOf(s, n) ==
    LET upTo[i \in 0..n] == IF i = 0 THEN 0 ELSE upTo[i - 1] + Size(s[i])
    IN  upTo[n]

\* How many entries the eviction loop leaves: it drops the back of the list until
\* the rest fits.
IsKept(n, s) ==
    /\ n \in 0..Len(s) /\ BytesOf(s, n) <= MaxBytes
    /\ \A m \in (n + 1)..Len(s) : BytesOf(s, m) > MaxBytes

\* A slice that still points into the iterator's buffer.
EntryAliased(r) == OwnBuffer(r)

\* The entry of put is a copy of the iterator's payload.
Entry(r) == Copied(decompBuf[r])

\* As Insert, with the byte counter left as it was.
InsertUncounted(r, k) ==
    LET pushed == <<k>> \o lru
    IN  \E n \in 0..Len(pushed) :
            /\ IsKept(n, pushed)
            /\ lru' = SubSeq(pushed, 1, n)
            /\ items' = [x \in (DOMAIN items \cup {k}) \ {pushed[i] : i \in (n + 1)..Len(pushed)} |->
                            IF x = k THEN Entry(r) ELSE items[x]]
            /\ usedBytes' = IF n = Len(pushed) THEN usedBytes + Size(k) ELSE usedBytes

\* Push k to the front, then delete from the map what the loop takes from the back.
Insert(r, k) ==
    LET pushed == <<k>> \o lru
    IN  \E n \in 0..Len(pushed) :
            /\ IsKept(n, pushed)
            /\ lru' = SubSeq(pushed, 1, n)
            /\ items' = [x \in (DOMAIN items \cup {k}) \ {pushed[i] : i \in (n + 1)..Len(pushed)} |->
                            IF x = k THEN Entry(r) ELSE items[x]]
            /\ usedBytes' = usedBytes + Size(k) - (BytesOf(pushed, Len(pushed)) - BytesOf(pushed, n))

\* As AlreadyCached, without looking.
AlreadyCachedNever(k) == FALSE

AlreadyCached(k) == k \in DOMAIN items

\* BlockCache.put; readBlockRaw then returns the iterator's own payload.
Put(r) ==
    /\ pc[r] = "put"
    /\ IF AlreadyCached(key[r])
       THEN UNCHANGED cache
       ELSE Insert(r, key[r]) /\ recent' = MostRecent(recent, key[r])
    /\ view' = [view EXCEPT ![r] = OwnBuffer(r)] /\ pc' = [pc EXCEPT ![r] = "view"]
    /\ UNCHANGED <<bad, key, decompBuf>>

\* A block on disk goes bad.
Damage(k) ==
    /\ Cardinality(bad) < MaxDamage /\ k \notin bad
    /\ bad' = bad \cup {k}
    /\ UNCHANGED <<cache, pc, key, decompBuf, view>>

Next ==
    \/ \E r \in Readers : (\E k \in Keys : Get(r, k)) \/ Decompress(r) \/ Put(r)
    \/ \E k \in Keys : Damage(k)

Spec == Init /\ [][Next]_vars

-----------------------------------------------------------------------------
\* An iterator that is at a block sees the payload the writer sealed there, for as
\* long as it is there: neither its own later reads, nor another iterator's miss
\* on the same block, nor the eviction of the entry it was given changes it.
ViewIntact == \A r \in Readers : pc[r] = "view" => Contents(view[r]) = Written[key[r]]

\* The list names every entry of the map exactly once, so an eviction always finds
\* the entry it subtracts, and every entry can be evicted.
ListMatchesMap ==
    /\ \A i, j \in DOMAIN lru : lru[i] = lru[j] => i = j
    /\ DOMAIN items = {lru[i] : i \in DOMAIN lru}

\* usedBytes is the size of what is cached, and the bound holds after every put,
\* also when one block alone exceeds it.
BytesAccounted == usedBytes = BytesOf(lru, Len(lru)) /\ usedBytes <= MaxBytes

\* Eviction takes the least recently used: what is cached are the keys most
\* recently hit or inserted.
KeepsMostRecent == lru = SubSeq(recent, 1, Len(lru))

\* Why ViewIntact holds: a cached slice is never an iterator's buffer, and an
\* iterator's buffer holds its block from the checksum on until its next read.
SlicesInv ==
    /\ \A k \in DOMAIN items : items[k] = Copied(Written[k])
    /\ \A r \in Readers :
          /\ pc[r] = "put" => decompBuf[r] = Written[key[r]]
          /\ pc[r] = "view" => \/ view[r] = OwnBuffer(r) /\ decompBuf[r] = Written[key[r]]
                               \/ view[r] = Copied(Written[key[r]])

IInv == TypeOK /\ ListMatchesMap /\ SlicesInv

\* Why the books are right: the list is the beginning of the history, which names
\* a key once, also while a key outside the list is far back in it.
BooksInv ==
    /\ BytesAccounted
    /\ recent \in Seq(Keys) /\ (\A i, j \in DOMAIN recent : recent[i] = recent[j] => i = j)
    /\ Len(lru) <= Len(recent) /\ KeepsMostRecent

=============================================================================
