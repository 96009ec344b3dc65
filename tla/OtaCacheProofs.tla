--------------------------- MODULE OtaCacheProofs ---------------------------
(***************************************************************************)
(* Theorems about the gateway's cache, for any size of the buffer and of   *)
(* its places, any chunks and any width of the counters.                   *)
(***************************************************************************)
EXTENDS OtaCache, FiniteSetTheorems, TLAPS

\* The counter has not passed the total before the status says COMPLETE.
NotYetFull == status # "COMPLETE" => cached_chunks = 0 \/ cached_chunks < total_chunks

\* The chunks that came lie in the places of their own.
InPlace ==
  \A chunk \in chunks :
    /\ chunk.len <= PlaceLen
    /\ chunk.index < Places =>
         \A k \in 0 .. chunk.len - 1 : ram[chunk.index * PlaceLen + k] = chunk.value

\* In an orderly download the counter counts the chunks, and the status follows
\* the counter.
Counted ==
  /\ IsFiniteSet(Present)
  /\ orderly /\ started /\ Present \subseteq 0 .. total_chunks - 1 =>
       /\ cached_chunks = Cardinality(Present)
       /\ total_chunks > 0 => (status = "COMPLETE" <=> cached_chunks >= total_chunks)

CacheInv == CacheTypeOK /\ NotYetFull /\ InPlace /\ Counted

LEMMA CacheSizes == Places \in Nat /\ PlaceLen \in Nat /\ PlaceLen > 0 /\ CountMod \in Nat
                    /\ CountMod > 0 /\ Indexes \subseteq Nat
BY CacheAssumption

----------------------------------------------------------------------------
(* Places *)

\* Products of naturals are naturals, and grow with their factors.
LEMMA PlacesGrow ==
  ASSUME NEW i \in Nat, NEW j \in Nat, NEW len \in Nat, i < j
  PROVE  /\ i * len \in Nat /\ j * len \in Nat
         /\ i * len + len <= j * len
<1>1. /\ i * len \in Nat /\ j * len \in Nat /\ j - i - 1 \in Nat
  OBVIOUS
<1>2. (j - i - 1) * len \in Nat
  BY <1>1
<1>3. j * len = i * len + len + (j - i - 1) * len
  OBVIOUS
<1>4. QED
  BY <1>1, <1>2, <1>3

\* Two places have no cell in common.
LEMMA PlacesApart ==
  ASSUME NEW i \in Nat, NEW j \in Nat, NEW k \in 0 .. PlaceLen - 1,
         NEW l \in 0 .. PlaceLen - 1, i # j
  PROVE  i * PlaceLen + k # j * PlaceLen + l
<1> DEFINE p == i * PlaceLen
           q == j * PlaceLen
<1>1. p \in Nat /\ q \in Nat /\ (p + PlaceLen <= q \/ q + PlaceLen <= p)
  <2>1. CASE i < j
    BY <2>1, PlacesGrow, CacheSizes
  <2>2. CASE j < i
    BY <2>2, PlacesGrow, CacheSizes
  <2>3. QED
    BY <2>1, <2>2
<1> HIDE DEF p, q
<1>2. p + k # q + l
  BY <1>1, CacheSizes
<1>3. QED
  BY <1>2 DEF p, q

\* A chunk that is not longer than its place fits the buffer exactly if its
\* place is inside, and its cells are then cells of the buffer.
LEMMA PlaceFits ==
  ASSUME NEW i \in Nat, NEW len \in 1 .. PlaceLen
  PROVE  /\ Fits(i, len) <=> i < Places
         /\ i < Places => \A k \in 0 .. len - 1 : i * PlaceLen + k \in RamCells
<1> DEFINE p == i * PlaceLen
           end == Places * PlaceLen
<1>1. p \in Nat /\ end \in Nat
  BY CacheSizes
<1>2. i < Places => p + PlaceLen <= end
  BY PlacesGrow, CacheSizes
<1>3. ~(i < Places) => end <= p
  <2>1. CASE i = Places
    BY <2>1, <1>1
  <2>2. CASE Places < i
    BY <2>2, <1>1, PlacesGrow, CacheSizes
  <2>3. QED
    BY <2>1, <2>2, CacheSizes
<1> HIDE DEF p, end
<1>4. p + len <= end <=> i < Places
  BY <1>1, <1>2, <1>3, CacheSizes
<1>5. i < Places => \A k \in 0 .. len - 1 : p + k \in 0 .. end - 1
  BY <1>1, <1>2, CacheSizes
<1>6. QED
  BY <1>4, <1>5 DEF p, end, Fits, RamCells

----------------------------------------------------------------------------
(* The calls *)

LEMMA InitHolds == CacheInit => CacheInv
<1> SUFFICES ASSUME CacheInit PROVE CacheInv
  OBVIOUS
<1>1. CacheTypeOK
  <2>1. 0 \in 0 .. CountMod - 1
    BY CacheSizes
  <2>2. QED
    BY <2>1 DEF CacheInit, CacheTypeOK, Statuses
<1>2. NotYetFull /\ InPlace /\ Present = {}
  BY DEF CacheInit, NotYetFull, InPlace, Present
<1>3. Counted
  BY <1>2, FS_EmptySet DEF CacheInit, Counted
<1>4. QED
  BY <1>1, <1>2, <1>3 DEF CacheInv

LEMMA StartKeeps ==
  ASSUME CacheInv, NEW total \in 0 .. CountMod - 1, Start(total)
  PROVE  CacheInv'
<1>1. CacheTypeOK' /\ NotYetFull' /\ InPlace'
  BY CacheSizes DEF CacheInv, Start, NewHistory, CacheTypeOK, NotYetFull, InPlace, Statuses
<1>2. Present' = {} /\ cached_chunks' = 0 /\ total_chunks' = total /\ status' = "PARTIAL"
  BY DEF Start, NewHistory, Present
<1>3. Counted'
  <2>1. IsFiniteSet(Present') /\ Cardinality(Present') = 0
    BY <1>2, FS_EmptySet
  <2>2. QED
    BY <1>2, <2>1, CacheSizes DEF Counted
<1>4. QED
  BY <1>1, <1>3 DEF CacheInv

LEMMA ClearKeeps ==
  ASSUME CacheInv, Clear
  PROVE  CacheInv'
<1>1. CacheTypeOK'
  <2>1. 0 \in 0 .. CountMod - 1
    BY CacheSizes
  <2>2. QED
    BY <2>1 DEF CacheInv, Clear, NewHistory, CacheTypeOK, Statuses
<1>2. NotYetFull' /\ InPlace' /\ Present' = {} /\ ~started'
  BY DEF Clear, NewHistory, NotYetFull, InPlace, Present
<1>3. Counted'
  BY <1>2, FS_EmptySet DEF Counted
<1>4. QED
  BY <1>1, <1>2, <1>3 DEF CacheInv

\* The type of a chunk's fields.
LEMMA ChunkFields ==
  ASSUME NEW chunk \in Chunks
  PROVE  /\ chunk.index \in Nat /\ chunk.value \in Values
         /\ chunk.len \in Nat /\ chunk.len > 0
<1>1. chunk.index \in Indexes /\ chunk.value \in Values /\ chunk.len \in 1 .. PlaceLen + 1
  BY DEF Chunks
<1> DEFINE len == chunk.len
<1> HIDE DEF len
<1>2. len \in Nat /\ len > 0
  BY <1>1, CacheSizes DEF len
<1>3. chunk.index \in Nat
  BY <1>1, CacheSizes
<1>4. QED
  BY <1>1, <1>2, <1>3 DEF len

LEMMA WriteKeepsType ==
  ASSUME CacheInv, NEW chunk \in Chunks, WriteChunk(chunk)
  PROVE  CacheTypeOK' /\ NotYetFull'
<1>1. cached_chunks' \in 0 .. CountMod - 1
  <2>1. cached_chunks + 1 \in Nat /\ cached_chunks' = (cached_chunks + 1) % CountMod
    BY DEF CacheInv, CacheTypeOK, WriteChunk
  <2>2. QED
    BY <2>1, CacheSizes
<1>2. ram' \in [RamCells -> Values \cup {Blank, Zero}]
  BY ChunkFields DEF CacheInv, CacheTypeOK, WriteChunk
<1>3. /\ status' = IF cached_chunks' >= total_chunks THEN "COMPLETE" ELSE status
      /\ total_chunks' = total_chunks /\ started' = started
      /\ orderly' \in BOOLEAN /\ chunks' \subseteq Chunks
  BY DEF CacheInv, CacheTypeOK, WriteChunk
<1>4. CacheTypeOK'
  BY <1>1, <1>2, <1>3 DEF CacheInv, CacheTypeOK, Statuses
<1>5. NotYetFull'
  BY <1>1, <1>3, CacheSizes DEF CacheInv, CacheTypeOK, NotYetFull
<1>6. QED
  BY <1>4, <1>5

LEMMA WriteKeepsPlaces ==
  ASSUME CacheInv, NEW chunk \in Chunks, WriteChunk(chunk)
  PROVE  InPlace'
<1> SUFFICES ASSUME NEW other \in chunks'
             PROVE  /\ other.len <= PlaceLen
                    /\ other.index < Places =>
                         \A k \in 0 .. other.len - 1 :
                           ram'[other.index * PlaceLen + k] = other.value
  BY DEF InPlace
<1>1. /\ orderly' /\ chunk.len <= PlaceLen
      /\ \A c \in chunks : c.index # chunk.index
      /\ chunks' = chunks \cup {chunk}
  BY DEF WriteChunk
<1>2. other \in Chunks /\ other.len <= PlaceLen
  BY <1>1 DEF CacheInv, CacheTypeOK, InPlace
<1>3. ASSUME other.index < Places, NEW k \in 0 .. other.len - 1
      PROVE  ram'[other.index * PlaceLen + k] = other.value
  <2> DEFINE cell == other.index * PlaceLen + k
  <2>1. cell \in RamCells
    BY <1>2, <1>3, ChunkFields, PlaceFits, CacheSizes
  <2>2. CASE other = chunk
    <3>1. Fits(chunk.index, chunk.len)
      BY <1>2, <1>3, <2>2, ChunkFields, PlaceFits, CacheSizes
    <3>2. cell \in Cells(chunk.index, chunk.len)
      BY <1>3, <2>2 DEF Cells
    <3>3. QED
      BY <2>1, <2>2, <3>1, <3>2 DEF WriteChunk
  <2>3. CASE other # chunk
    <3>1. other \in chunks /\ other.index # chunk.index
      BY <1>1, <2>3
    <3>2. ram[cell] = other.value
      BY <1>3, <3>1 DEF CacheInv, InPlace
    <3>3. cell \notin Cells(chunk.index, chunk.len)
      <4>1. SUFFICES ASSUME NEW l \in 0 .. chunk.len - 1
                     PROVE  cell # chunk.index * PlaceLen + l
        BY DEF Cells
      <4>2. k \in 0 .. PlaceLen - 1 /\ l \in 0 .. PlaceLen - 1
        BY <1>1, <1>2, ChunkFields, CacheSizes
      <4>3. QED
        BY <1>2, <3>1, <4>2, ChunkFields, PlacesApart
    <3>4. QED
      BY <2>1, <3>2, <3>3 DEF WriteChunk
  <2>4. QED
    BY <2>2, <2>3
<1>4. QED
  BY <1>2, <1>3

LEMMA WriteKeepsCount ==
  ASSUME CacheInv, NEW chunk \in Chunks, WriteChunk(chunk)
  PROVE  Counted'
<1>1. CASE ~orderly'
  <2>1. Present' = {}
    BY <1>1 DEF WriteChunk, Present
  <2>2. QED
    BY <1>1, <2>1, FS_EmptySet DEF Counted
<1>2. CASE orderly'
  <2>1. /\ orderly /\ started' = started /\ total_chunks' = total_chunks
        /\ Present' = Present \cup {chunk.index}
        /\ chunk.index \notin Present
    BY <1>2 DEF WriteChunk, Present
  <2>2. /\ IsFiniteSet(Present) /\ IsFiniteSet(Present')
        /\ Cardinality(Present) \in Nat
        /\ Cardinality(Present') = Cardinality(Present) + 1
    BY <2>1, FS_AddElement, FS_CardinalityType DEF CacheInv, Counted
  <2>3. ASSUME started, Present' \subseteq 0 .. total_chunks - 1
        PROVE  /\ cached_chunks' = Cardinality(Present')
               /\ status' = "COMPLETE" <=> cached_chunks' >= total_chunks
    <3>1. total_chunks \in Nat /\ total_chunks < CountMod
      BY CacheSizes DEF CacheInv, CacheTypeOK
    <3>2. total_chunks > 0
      BY <2>1, <2>3, <3>1
    <3>3. /\ cached_chunks = Cardinality(Present)
          /\ status = "COMPLETE" <=> cached_chunks >= total_chunks
      BY <2>1, <2>3, <3>2 DEF CacheInv, Counted
    <3>4. Cardinality(Present') <= total_chunks
      <4> DEFINE last == total_chunks - 1
      <4>1. last \in Nat
        BY <3>1, <3>2
      <4> HIDE DEF last
      <4>2. IsFiniteSet(0 .. last) /\ Cardinality(0 .. last) = IF 0 > last THEN 0 ELSE last - 0 + 1
        BY <4>1, FS_Interval
      <4>3. Present' \subseteq 0 .. last
        BY <2>3 DEF last
      <4>4. Cardinality(Present') <= Cardinality(0 .. last)
        BY <4>2, <4>3, FS_Subset
      <4>5. last + 1 = total_chunks
        BY <3>1 DEF last
      <4>6. QED
        BY <4>1, <4>2, <4>4, <4>5
    <3>5. cached_chunks' = cached_chunks + 1
      <4>1. cached_chunks' = (cached_chunks + 1) % CountMod
        BY DEF WriteChunk
      <4>2. cached_chunks + 1 \in Nat /\ cached_chunks + 1 < CountMod
        BY <2>2, <3>1, <3>3, <3>4, CacheSizes
      <4>3. QED
        BY <4>1, <4>2, CacheSizes
    <3>6. status # "COMPLETE"
      BY <2>2, <3>1, <3>3, <3>4
    <3>7. status' = IF cached_chunks' >= total_chunks THEN "COMPLETE" ELSE status
      BY DEF WriteChunk
    <3>8. QED
      BY <2>2, <3>3, <3>5, <3>6, <3>7
  <2>4. QED
    BY <2>1, <2>2, <2>3 DEF Counted
<1>3. QED
  BY <1>1, <1>2

LEMMA NextKeeps == CacheInv /\ [CacheNext]_cacheVars => CacheInv'
<1> SUFFICES ASSUME CacheInv, [CacheNext]_cacheVars PROVE CacheInv'
  OBVIOUS
<1>1. CASE \E total \in 0 .. CountMod - 1 : Start(total)
  BY <1>1, StartKeeps
<1>2. CASE \E chunk \in Chunks : WriteChunk(chunk)
  BY <1>2, WriteKeepsType, WriteKeepsPlaces, WriteKeepsCount DEF CacheInv
<1>3. CASE Clear
  BY <1>3, ClearKeeps
<1>4. CASE UNCHANGED cacheVars
  BY <1>4 DEF cacheVars, CacheInv, CacheTypeOK, NotYetFull, InPlace, Counted, Present
<1>5. QED
  BY <1>1, <1>2, <1>3, <1>4 DEF CacheNext

\* In every reachable state the counter has not passed the total before COMPLETE,
\* the chunks of an orderly download lie in their places, and they are counted.
THEOREM CacheInvariant == CacheSpec => []CacheInv
BY InitHolds, NextKeeps, PTL DEF CacheSpec

----------------------------------------------------------------------------
(* The theorems *)

LEMMA MissingBounded == CacheInv => MissingNeverWraps
<1> SUFFICES ASSUME CacheInv PROVE MissingNeverWraps
  OBVIOUS
<1>1. total_chunks \in Nat /\ cached_chunks \in Nat /\ total_chunks < CountMod
  BY CacheSizes DEF CacheInv, CacheTypeOK
<1>2. CASE status = "COMPLETE"
  BY <1>1, <1>2 DEF MissingNeverWraps, MissingChunks
<1>3. CASE status # "COMPLETE"
  <2>1. cached_chunks <= total_chunks
    BY <1>1, <1>3 DEF CacheInv, NotYetFull
  <2>2. total_chunks - cached_chunks \in 0 .. total_chunks
    BY <1>1, <2>1
  <2>3. (total_chunks - cached_chunks) % CountMod = total_chunks - cached_chunks
    BY <1>1, <2>2, CacheSizes
  <2>4. QED
    BY <1>3, <2>2, <2>3 DEF MissingNeverWraps, MissingChunks
<1>4. QED
  BY <1>2, <1>3

LEMMA ServedRight == CacheInv => ServedAsCached
<1> SUFFICES ASSUME CacheInv, NEW chunk \in chunks, Fits(chunk.index, PlaceLen),
                    NEW k \in 0 .. chunk.len - 1
             PROVE  ReadChunk(chunk.index)[k] = chunk.value
  BY DEF ServedAsCached
<1>1. chunk \in Chunks /\ chunk.len <= PlaceLen
  BY DEF CacheInv, CacheTypeOK, InPlace
<1>2. chunk.index < Places
  BY <1>1, ChunkFields, PlaceFits, CacheSizes
<1>3. k \in 0 .. PlaceLen - 1
  BY <1>1, ChunkFields, CacheSizes
<1>4. ram[chunk.index * PlaceLen + k] = chunk.value
  BY <1>2 DEF CacheInv, InPlace
<1>5. QED
  BY <1>3, <1>4 DEF ReadChunk

LEMMA CompleteRight == CacheInv => CompleteIsAll
<1> SUFFICES ASSUME CacheInv, orderly, started, total_chunks > 0,
                    Present \subseteq 0 .. total_chunks - 1
             PROVE  status = "COMPLETE" <=> Present = 0 .. total_chunks - 1
  BY DEF CompleteIsAll
<1> DEFINE last == total_chunks - 1
<1>1. last \in Nat /\ last + 1 = total_chunks
  BY DEF CacheInv, CacheTypeOK
<1>2. /\ IsFiniteSet(Present) /\ cached_chunks = Cardinality(Present)
      /\ status = "COMPLETE" <=> cached_chunks >= total_chunks
  BY DEF CacheInv, Counted
<1>3. Present \subseteq 0 .. last
  OBVIOUS
<1> HIDE DEF last
<1>4. IsFiniteSet(0 .. last) /\ Cardinality(0 .. last) = IF 0 > last THEN 0 ELSE last - 0 + 1
  BY <1>1, FS_Interval
<1>5. /\ Cardinality(Present) <= Cardinality(0 .. last)
      /\ Cardinality(Present) = Cardinality(0 .. last) => Present = 0 .. last
  BY <1>3, <1>4, FS_Subset
<1>6. Cardinality(Present) \in Nat
  BY <1>2, FS_CardinalityType
<1>7. status = "COMPLETE" <=> Present = 0 .. last
  BY <1>1, <1>2, <1>4, <1>5, <1>6
<1>8. QED
  BY <1>7 DEF last

\* Every variable of the cache keeps its type, counters inside their width
\* (ota_cache.c).
THEOREM CacheTypeCorrect == CacheSpec => []CacheTypeOK
BY CacheInvariant, PTL DEF CacheInv

\* The number of missing chunks never wraps, whatever the calls
\* (ota_cache_missing_chunks).
THEOREM MissingRight == CacheSpec => []MissingNeverWraps
BY CacheInvariant, MissingBounded, PTL

\* A chunk of an orderly download that lies inside the buffer is read back as it
\* was written (ota_cache_write_chunk, ota_cache_read_chunk).
THEOREM ServedAsWritten == CacheSpec => []ServedAsCached
BY CacheInvariant, ServedRight, PTL

\* The cache of an orderly download is COMPLETE exactly when every chunk came
\* (ota_cache_write_chunk).
THEOREM CompleteWhenAll == CacheSpec => []CompleteIsAll
BY CacheInvariant, CompleteRight, PTL
=============================================================================
