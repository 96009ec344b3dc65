------------------------------ MODULE OtaCache ------------------------------
(***************************************************************************)
(* The gateway's firmware cache (ota_cache.c), the RAM buffer it is today. *)
(*                                                                         *)
(* The buffer is a function from cells to values; the cells of a chunk all *)
(* hold its value, so a chunk is a value and a length.  Nothing keeps the  *)
(* calls in order: a chunk may be written before ota_cache_start, twice,   *)
(* past the end, or longer than its place.  The sizes in bytes decide      *)
(* nothing and are left out.                                               *)
(***************************************************************************)
EXTENDS Integers

CONSTANTS
  Places,      \* chunks that fit the buffer (16)
  PlaceLen,    \* cells of the 1024 bytes that the cache takes a chunk for
  Values,      \* contents of chunks
  Blank,       \* 0xFF, which ota_cache_start fills the buffer with
  Zero,        \* 0x00, of static memory at the start of the program
  CountMod,    \* total_chunks and cached_chunks are modulo this (2^16)
  Indexes      \* chunk indexes a caller uses

VARIABLES
  status, total_chunks, cached_chunks,
  ram,         \* g_ram_cache
  started,     \* history: was ota_cache_start called since init or clear?
  orderly,     \* history: since init, start or clear, did each chunk come once,
               \* and none longer than its place?
  chunks       \* history: as long as it is so, the chunks that came

cacheVars == <<status, total_chunks, cached_chunks, ram, started, orderly, chunks>>

Statuses == {"EMPTY", "PARTIAL", "COMPLETE"}

RamCells == 0 .. Places * PlaceLen - 1

\* A chunk may be shorter than its place, and longer: with its tag.
Chunks == [index : Indexes, value : Values, len : 1 .. PlaceLen + 1]

ASSUME CacheAssumption ==
  /\ Places \in Nat
  /\ PlaceLen \in Nat \ {0}
  /\ CountMod \in Nat \ {0}
  /\ Indexes \subseteq Nat

\* Nothing has been written yet.
NewHistory(isStarted) ==
  started' = isStarted /\ orderly' = TRUE /\ chunks' = {}

\* ota_cache_init, at the start of the program.
CacheInit ==
  /\ status = "EMPTY"
  /\ total_chunks = 0 /\ cached_chunks = 0
  /\ ram = [c \in RamCells |-> Zero]
  /\ started = FALSE /\ orderly = TRUE /\ chunks = {}

\* Slip: the status of the last download stays.
Start_KeepsStatus(total) ==
  /\ total_chunks' = total /\ cached_chunks' = 0
  /\ ram' = [c \in RamCells |-> Blank]
  /\ NewHistory(TRUE)
  /\ UNCHANGED status

\* A firmware that is too large is only warned of.
Start(total) ==
  /\ status' = "PARTIAL"
  /\ total_chunks' = total /\ cached_chunks' = 0
  /\ ram' = [c \in RamCells |-> Blank]
  /\ NewHistory(TRUE)

\* Slip: the chunks lie one behind the other as long as they are.
Cells_ByLength(index, len) == {index * len + k : k \in 0 .. len - 1}

Cells(index, len) == {index * PlaceLen + k : k \in 0 .. len - 1}

Fits(index, len) == index * PlaceLen + len <= Places * PlaceLen

\* Slip: the counter is wider than the total.
WriteChunk_WideCount(chunk) ==
  /\ ram' = IF Fits(chunk.index, chunk.len)
            THEN [c \in RamCells |->
                    IF c \in Cells(chunk.index, chunk.len) THEN chunk.value ELSE ram[c]]
            ELSE ram
  /\ cached_chunks' = cached_chunks + 1
  /\ status' = IF cached_chunks' >= total_chunks THEN "COMPLETE" ELSE status
  /\ orderly' = (/\ orderly /\ chunk.len <= PlaceLen
                 /\ \A other \in chunks : other.index # chunk.index)
  /\ chunks' = IF orderly' THEN chunks \cup {chunk} ELSE {}
  /\ UNCHANGED <<total_chunks, started>>

\* A chunk that does not fit is not stored, and counted like the others.
WriteChunk(chunk) ==
  /\ ram' = IF Fits(chunk.index, chunk.len)
            THEN [c \in RamCells |->
                    IF c \in Cells(chunk.index, chunk.len) THEN chunk.value ELSE ram[c]]
            ELSE ram
  /\ cached_chunks' = (cached_chunks + 1) % CountMod
  /\ status' = IF cached_chunks' >= total_chunks THEN "COMPLETE" ELSE status
  /\ orderly' = (/\ orderly /\ chunk.len <= PlaceLen
                 /\ \A other \in chunks : other.index # chunk.index)
  /\ chunks' = IF orderly' THEN chunks \cup {chunk} ELSE {}
  /\ UNCHANGED <<total_chunks, started>>

\* ota_cache_clear leaves the buffer and the total.
Clear ==
  /\ status' = "EMPTY"
  /\ cached_chunks' = 0
  /\ NewHistory(FALSE)
  /\ UNCHANGED <<total_chunks, ram>>

CacheNext ==
  \/ \E total \in 0 .. CountMod - 1 : Start(total)
  \/ \E chunk \in Chunks : WriteChunk(chunk)
  \/ Clear

CacheSpec == CacheInit /\ [][CacheNext]_cacheVars

\* What ota_cache_read_chunk returns: a whole place always, of zeros past the
\* end of the buffer.
ReadChunk(index) ==
  [k \in 0 .. PlaceLen - 1 |->
     IF Fits(index, PlaceLen) THEN ram[index * PlaceLen + k] ELSE Zero]

\* Slip: the status is not looked at.
MissingChunks_ByCount == (total_chunks - cached_chunks) % CountMod

\* ota_cache_missing_chunks, a uint16_t.
MissingChunks ==
  IF status = "COMPLETE" THEN 0 ELSE (total_chunks - cached_chunks) % CountMod

----------------------------------------------------------------------------
(* Properties *)

CacheTypeOK ==
  /\ status \in Statuses
  /\ total_chunks \in 0 .. CountMod - 1
  /\ cached_chunks \in 0 .. CountMod - 1
  /\ ram \in [RamCells -> Values \cup {Blank, Zero}]
  /\ started \in BOOLEAN /\ orderly \in BOOLEAN
  /\ chunks \subseteq Chunks

\* As long as each chunk came once and was no longer than its place, which is
\* what the cache counts on (it keeps no bitmap and knows no tag), a chunk
\* inside the buffer is read back as it was written, in whatever order the
\* chunks came (ota_cache_write_chunk, ota_cache_read_chunk).
ServedAsCached ==
  \A chunk \in chunks :
    Fits(chunk.index, PlaceLen) =>
      \A k \in 0 .. chunk.len - 1 : ReadChunk(chunk.index)[k] = chunk.value

Present == {chunk.index : chunk \in chunks}

\* Of a started download that is orderly in this sense, and whose chunks are
\* its own, the cache is COMPLETE exactly when no index is missing
\* (ota_cache_write_chunk).
CompleteIsAll ==
  /\ orderly /\ started /\ total_chunks > 0
  /\ Present \subseteq 0 .. total_chunks - 1
  => (status = "COMPLETE" <=> Present = 0 .. total_chunks - 1)

\* Whatever the calls, the difference in ota_cache_missing_chunks never wraps:
\* it asks for no more chunks than the firmware has, also when chunks came
\* twice and the counter itself has wrapped.
MissingNeverWraps == MissingChunks \in 0 .. total_chunks
=============================================================================
