-------------------------- MODULE OtaHandlerProofs --------------------------
(***************************************************************************)
(* Theorems about the node's OTA handler, for every flash, firmware, key,  *)
(* page size and sequence of packets, faults and resets.                   *)
(***************************************************************************)
EXTENDS NackHistory, FiniteSetTheorems, TLAPS

----------------------------------------------------------------------------
(* The flash driver *)

\* Erasing pages gives a flash, and touches no cell below the first of them.
LEMMA ErasedFlash ==
  ASSUME NEW f \in FlashContents, NEW start \in Nat, NEW n \in Nat
  PROVE  /\ PagesErased(f, start, n) \in FlashContents
         /\ \A c \in Cells : PagesErased(f, start, n)[c] \in {f[c], Erased}
         /\ \A c \in Cells : c < start => PagesErased(f, start, n)[c] = f[c]
BY FlashAssumption DEF PagesErased, FlashContents, Cells

\* A padded length is whole words that hold the data.
LEMMA PaddedLenBounds ==
  ASSUME NEW len \in Nat
  PROVE  /\ PaddedLen(len) \in Nat
         /\ len <= PaddedLen(len)
         /\ PaddedLen(len) <= len + 1
         /\ len % 2 = 0 => PaddedLen(len) = len
         /\ PaddedLen(len) % 2 = 0
BY DEF PaddedLen

\* Writing gives a flash, holds the data where it was written and touches
\* nothing outside the programmed cells.
LEMMA WrittenFlash ==
  ASSUME NEW f \in FlashContents, NEW addr \in Nat, NEW len \in Nat,
         NEW data \in [0 .. len - 1 -> Values], NEW n \in Nat
  PROVE  /\ CellsWritten(f, addr, data, len, n) \in FlashContents
         /\ \A j \in 0 .. n - 1 : addr + j \in Cells =>
              CellsWritten(f, addr, data, len, n)[addr + j] = PaddedData(data, len, j)
         /\ \A c \in Cells : (c < addr \/ addr + n <= c) =>
              CellsWritten(f, addr, data, len, n)[c] = f[c]
<1>1. \A j \in Nat : PaddedData(data, len, j) \in Values
  BY FlashAssumption DEF PaddedData
<1>2. \A c \in Cells : c \in Int
  BY FlashAssumption DEF Cells
<1>3. CellsWritten(f, addr, data, len, n) \in FlashContents
  <2>1. ASSUME NEW c \in Cells, addr <= c
        PROVE  PaddedData(data, len, c - addr) \in Values
    BY <1>1, <1>2, <2>1
  <2>2. QED
    BY <2>1 DEF CellsWritten, FlashContents
<1>4. ASSUME NEW j \in 0 .. n - 1, addr + j \in Cells
      PROVE  CellsWritten(f, addr, data, len, n)[addr + j] = PaddedData(data, len, j)
  BY <1>4 DEF CellsWritten
<1>5. ASSUME NEW c \in Cells, c < addr \/ addr + n <= c
      PROVE  CellsWritten(f, addr, data, len, n)[c] = f[c]
  BY <1>2, <1>5 DEF CellsWritten
<1>6. QED
  BY <1>3, <1>4, <1>5

\* The number of pages of a size is a natural number.
LEMMA PagesNat ==
  ASSUME NEW size \in Nat
  PROVE  NbPages(size) \in Nat
BY FlashAssumption DEF NbPages

----------------------------------------------------------------------------
(* Firmwares *)

LEMMA NextMultiple ==
  ASSUME NEW i \in Nat, NEW k \in Nat
  PROVE  i * k \in Nat /\ (i + 1) * k = i * k + k
OBVIOUS

\* The data of a chunk fits its length, and the length is between one cell and
\* the chunk size.
LEMMA ChunkBounds ==
  ASSUME NEW fw \in Firmwares, NEW i \in ChunkIndexes(fw)
  PROVE  /\ i \in Nat
         /\ ChunkOffset(fw, i) \in Nat
         /\ ChunkLen(fw, i) \in Nat
         /\ 0 < ChunkLen(fw, i)
         /\ ChunkLen(fw, i) <= fw.chunk_size
         /\ ChunkOffset(fw, i) + ChunkLen(fw, i) <= fw.fw_size
         /\ ChunkData(fw, i) \in [0 .. ChunkLen(fw, i) - 1 -> Values]
<1> DEFINE k == fw.chunk_size
           size == fw.fw_size
           off == i * k
<1>1. /\ i \in Nat
      /\ k \in Nat /\ k > 0
      /\ size \in Nat
      /\ off < size
      /\ fw.image \in [0 .. size - 1 -> Values]
  BY FirmwareAssumption DEF ChunkIndexes
<1>2. off \in Nat /\ (i + 1) * k = off + k
  BY <1>1, NextMultiple
<1>3. ChunkLen(fw, i) = IF off + k <= size THEN k ELSE size - off
  BY <1>2 DEF ChunkLen
<1> HIDE DEF k, size, off
<1>4. /\ ChunkLen(fw, i) \in Nat
      /\ 0 < ChunkLen(fw, i)
      /\ ChunkLen(fw, i) <= k
      /\ off + ChunkLen(fw, i) <= size
  BY <1>1, <1>2, <1>3
<1>5. ASSUME NEW j \in 0 .. ChunkLen(fw, i) - 1
      PROVE  fw.image[off + j] \in Values
  <2>1. off + j \in 0 .. size - 1
    BY <1>1, <1>2, <1>4
  <2>2. QED
    BY <1>1, <2>1
<1>6. ChunkOffset(fw, i) = off
  BY DEF ChunkOffset, off, k
<1>7. ChunkData(fw, i) \in [0 .. ChunkLen(fw, i) - 1 -> Values]
  BY <1>5, <1>6 DEF ChunkData
<1>8. QED
  BY <1>1, <1>2, <1>4, <1>6, <1>7 DEF k, size

\* The address of a chunk of the download's firmware.
LEMMA AddressNat ==
  ASSUME TypeOK, Bound, Active, NEW i \in ChunkIndexes(current_manifest)
  PROVE  /\ WriteAddress(i) \in Nat
         /\ WriteAddress(i) = InactiveSlot + ChunkOffset(current_manifest, i)
BY ChunkBounds, ContextAssumption DEF Bound, WriteAddress, ChunkOffset

\* A chunk that opens during a download belongs to the firmware downloaded:
\* no other manifest has the nonce base.
LEMMA OpensOnlyOwnChunks ==
  ASSUME TypeOK, Bound, Active, NEW fw \in Firmwares,
         NEW opens \in ChunkReadings(fw), opens
  PROVE  fw = current_manifest
<1>1. PICK key \in Keys, intact \in BOOLEAN : ChunkOpens(fw, key, intact)
  BY SMT DEF ChunkReadings, ChunkOpens
<1>2. fw.nonce_base = nonce_base
  BY <1>1, Zenon DEF ChunkOpens
<1>3. QED
  BY <1>2, NonceAssumption DEF Bound

----------------------------------------------------------------------------
(* Types, and the binding of a download to its manifest *)

LEMMA InitTyped == Init => TypeOK /\ Bound
BY ContextAssumption DEF Init, TypeOK, Bound, Active, States, Results, SealedNonces, MaxRetry

LEMMA RefuseTyped ==
  ASSUME TypeOK, Bound, NEW err \in Results, Refuse(err)
  PROVE  TypeOK' /\ Bound'
BY DEF Refuse, TypeOK, Bound, Active, ram

LEMMA RestartTyped ==
  ASSUME TypeOK, Restart("power") \/ Restart("software"), flash' \in FlashContents
  PROVE  TypeOK' /\ Bound'
BY ContextAssumption DEF Restart, TypeOK, Bound, Active, States, Results, SealedNonces

LEMMA StartTyped == TypeOK /\ Bound /\ StartSession => TypeOK' /\ Bound'
<1> SUFFICES ASSUME TypeOK, Bound, StartSession PROVE TypeOK' /\ Bound'
  OBVIOUS
<1>1. CASE Refuse("INVALID_STATE")
  BY <1>1, RefuseTyped DEF Results
<1>2. CASE ~Refuse("INVALID_STATE")
  BY <1>2 DEF StartSession, TypeOK, Bound, Active, States, Results
<1>3. QED
  BY <1>1, <1>2

LEMMA ChallengeTyped ==
  ASSUME TypeOK, Bound, NEW key \in Keys, HandleChallenge(key)
  PROVE  TypeOK' /\ Bound'
<1>1. CASE Refuse("INVALID_STATE")
  BY <1>1, RefuseTyped DEF Results
<1>2. CASE ~Refuse("INVALID_STATE")
  BY <1>2 DEF HandleChallenge, TypeOK, Bound, Active, States, Results
<1>3. QED
  BY <1>1, <1>2

LEMMA NackTyped == TypeOK /\ Bound /\ HandleNack => TypeOK' /\ Bound'
<1> SUFFICES ASSUME TypeOK, Bound, HandleNack PROVE TypeOK' /\ Bound'
  OBVIOUS
<1>1. retry_count' \in 0 .. RetryMod - 1
  BY ContextAssumption DEF HandleNack, TypeOK, MaxRetry
<1>2. QED
  BY <1>1 DEF HandleNack, TypeOK, Bound, Active, States, Results, WriteAddress

LEMMA BeginTyped ==
  ASSUME TypeOK, Bound, NEW fw \in Firmwares, state = "WAIT_MANIFEST", BeginDownload(fw),
         retry_count' \in 0 .. RetryMod - 1
  PROVE  TypeOK' /\ Bound'
<1>1. PICK n \in 0 .. NbPages(fw.fw_size) :
        /\ flash' = PagesErased(flash, InactiveSlot, n)
        /\ result' = EraseResult(InactiveSlot, fw.fw_size, n)
        /\ state' = IF result' = "OK" THEN "DOWNLOADING" ELSE state
  BY DEF BeginDownload
<1>2. n \in Nat
  BY PagesNat, FirmwareAssumption
<1>3. flash' \in FlashContents
  BY <1>1, <1>2, ErasedFlash, ContextAssumption DEF TypeOK
<1>4. result' \in Results
  BY <1>1 DEF EraseResult, Results
<1>5. state' \in {"DOWNLOADING", "WAIT_MANIFEST"}
  BY <1>1
<1>6. fw.total_chunks \in Nat /\ fw.nonce_base \in Nonces
  BY FirmwareAssumption
<1>7. /\ current_manifest' = fw
      /\ expected_chunks' = fw.total_chunks
      /\ received_chunks' = 0
      /\ bytes_written' = 0
      /\ target_address' = InactiveSlot
      /\ nonce_base' = fw.nonce_base
      /\ accepted' = {}
      /\ verdict' = "none"
      /\ UNCHANGED <<session_key, reset_cause>>
  BY DEF BeginDownload
<1>8. TypeOK'
  <2>1. /\ current_manifest' \in Firmwares \cup {NoManifest}
        /\ expected_chunks' \in Nat /\ received_chunks' \in Nat
        /\ bytes_written' \in Nat /\ target_address' \in Nat
        /\ accepted' \subseteq Nat /\ verdict' \in {"none", "match", "mismatch"}
    BY <1>6, <1>7, ContextAssumption
  <2>2. state' \in States /\ nonce_base' \in SealedNonces
    BY <1>5, <1>6, <1>7 DEF States, SealedNonces
  <2> QED
    BY <1>3, <1>4, <1>7, <2>1, <2>2 DEF TypeOK
<1>9. Bound'
  BY <1>6, <1>7 DEF Bound
<1>10. QED
  BY <1>8, <1>9

\* What an over-long manifest leaves behind current_manifest are numbers.
LEMMA OverrunTyped ==
  ASSUME TypeOK, NEW n
  PROVE  /\ OverrunProgress(n) =>
              /\ expected_chunks' \in Nat /\ received_chunks' \in Nat
              /\ bytes_written' \in Nat /\ target_address' \in Nat
         /\ OverrunRetry(n) => retry_count' \in 0 .. RetryMod - 1
BY ContextAssumption DEF OverrunProgress, OverrunRetry, TypeOK

\* A manifest that was refused changes nothing a download is bound to.
RefusedManifest ==
  /\ state = "WAIT_MANIFEST"
  /\ current_manifest' \in Firmwares \cup {NoManifest}
  /\ result' \in {"DECRYPT_FAILED", "INVALID_MANIFEST", "VERSION_ROLLBACK"}
  /\ \E n \in 0 .. Behind : OverrunProgress(n) /\ OverrunRetry(n)
  /\ UNCHANGED <<state, session_key, nonce_base, reset_cause, flash, accepted, verdict>>

LEMMA ManifestCases ==
  ASSUME TypeOK, NEW fw \in Firmwares, NEW opens, HandleManifest(fw, opens)
  PROVE  \/ Refuse("INVALID_STATE")
         \/ RefusedManifest
         \/ /\ state = "WAIT_MANIFEST" /\ BeginDownload(fw)
            /\ \E n \in {0, Behind} : OverrunRetry(n)
<1>1. current_manifest \in Firmwares \cup {NoManifest}
  BY DEF TypeOK
<1> QED
  BY <1>1 DEF HandleManifest, RefusedManifest

LEMMA ManifestTyped ==
  ASSUME TypeOK, Bound, NEW fw \in Firmwares, NEW opens, HandleManifest(fw, opens)
  PROVE  TypeOK' /\ Bound'
<1>1. CASE Refuse("INVALID_STATE")
  BY <1>1, RefuseTyped DEF Results
<1>2. CASE /\ state = "WAIT_MANIFEST" /\ BeginDownload(fw)
           /\ \E n \in {0, Behind} : OverrunRetry(n)
  BY <1>2, BeginTyped, OverrunTyped
<1>3. CASE RefusedManifest
  <2>1. /\ expected_chunks' \in Nat /\ received_chunks' \in Nat
        /\ bytes_written' \in Nat /\ target_address' \in Nat
        /\ retry_count' \in 0 .. RetryMod - 1
    BY <1>3, OverrunTyped DEF RefusedManifest
  <2> QED
    BY <1>3, <2>1 DEF RefusedManifest, TypeOK, Bound, Active, Results
<1>4. QED
  BY <1>1, <1>2, <1>3, ManifestCases

LEMMA StoreTyped ==
  ASSUME TypeOK, Bound, state = "DOWNLOADING",
         NEW i \in ChunkIndexes(current_manifest), StoreChunk(current_manifest, i)
  PROVE  TypeOK' /\ Bound'
<1> DEFINE fw == current_manifest
           len == ChunkLen(fw, i)
<1>1. fw \in Firmwares /\ Active
  BY DEF Bound, Active
<1>2. len \in Nat /\ ChunkData(fw, i) \in [0 .. len - 1 -> Values] /\ i \in Nat
  BY <1>1, ChunkBounds
<1>3. PICK n \in 0 .. PaddedLen(len) :
        /\ flash' = CellsWritten(flash, WriteAddress(i), ChunkData(fw, i), len, n)
        /\ \/ CountChunk(fw, i)
           \/ /\ result' = "FLASH_WRITE"
              /\ UNCHANGED <<state, received_chunks, bytes_written, accepted, verdict>>
  BY DEF StoreChunk, WriteResult
<1>4. flash' \in FlashContents
  <2>1. n \in Nat
    BY <1>2, PaddedLenBounds
  <2>2. WriteAddress(i) \in Nat
    BY <1>1, AddressNat
  <2>3. flash \in FlashContents
    BY DEF TypeOK
  <2> HIDE DEF fw, len
  <2>4. QED
    BY <1>2, <1>3, <2>1, <2>2, <2>3, WrittenFlash
<1>5. UNCHANGED <<session_key, nonce_base, current_manifest, expected_chunks,
                  target_address, retry_count, reset_cause>>
  BY DEF StoreChunk
<1> HIDE DEF fw, len
<1>6. CASE CountChunk(fw, i)
  <2>1. /\ received_chunks' \in Nat
        /\ bytes_written' \in Nat
        /\ accepted' \subseteq Nat
        /\ accepted' \subseteq accepted \cup {i}
    BY <1>2, <1>6 DEF CountChunk, TypeOK, len
  <2>2. /\ state' \in {"DOWNLOADING", "VERIFYING"}
        /\ result' \in {"OK", "HASH_MISMATCH"}
        /\ verdict' \in {"match", "mismatch", verdict}
    BY <1>6 DEF CountChunk
  <2>3. QED
    BY <1>1, <1>4, <1>5, <2>1, <2>2 DEF TypeOK, Bound, Active, States, Results, fw
<1>7. CASE /\ result' = "FLASH_WRITE"
           /\ UNCHANGED <<state, received_chunks, bytes_written, accepted, verdict>>
  BY <1>4, <1>5, <1>7 DEF TypeOK, Bound, Active, Results
<1>8. QED
  BY <1>3, <1>6, <1>7

LEMMA ChunkTyped ==
  ASSUME TypeOK, Bound, NEW fw \in Firmwares, NEW i \in ChunkIndexes(fw),
         NEW opens \in ChunkReadings(fw), HandleFwChunk(fw, i, opens)
  PROVE  TypeOK' /\ Bound'
<1>1. ASSUME NEW err \in {"INVALID_STATE", "CHUNK_MISSING", "DECRYPT_FAILED"}, Refuse(err)
      PROVE  TypeOK' /\ Bound'
  BY <1>1, RefuseTyped DEF Results
<1>2. CASE state = "DOWNLOADING" /\ opens /\ StoreChunk(fw, i)
  <2>1. fw = current_manifest
    BY <1>2, OpensOnlyOwnChunks DEF Active
  <2>2. QED
    BY <1>2, <2>1, StoreTyped
<1>3. QED
  BY <1>1, <1>2 DEF HandleFwChunk

----------------------------------------------------------------------------
(* What the handlers do to the flash *)

\* A flash that differs from the present one above the inactive slot's start only.
KeepsRunningSlot ==
  /\ flash' \in FlashContents
  /\ \A c \in Cells : c < InactiveSlot => flash'[c] = flash[c]

\* Erased pages, of a manifest taken or of a reset in the middle of the erase.
LEMMA EraseKeepsRunningSlot ==
  ASSUME TypeOK, NEW fw \in Firmwares, NEW n \in 0 .. NbPages(fw.fw_size),
         flash' = PagesErased(flash, InactiveSlot, n)
  PROVE  KeepsRunningSlot
<1>1. n \in Nat
  BY PagesNat, FirmwareAssumption
<1>2. flash \in FlashContents /\ InactiveSlot \in Nat
  BY ContextAssumption DEF TypeOK
<1>3. /\ flash' \in FlashContents
      /\ \A c \in Cells : c < InactiveSlot => flash'[c] = flash[c]
  BY <1>1, <1>2, ErasedFlash
<1>4. QED
  BY <1>3 DEF KeepsRunningSlot

\* A written prefix of a chunk, of a packet taken or of a reset in the middle of it.
LEMMA WriteKeepsRunningSlot ==
  ASSUME TypeOK, Bound, Active, NEW fw \in Firmwares, NEW i \in ChunkIndexes(fw),
         NEW opens \in ChunkReadings(fw), opens,
         NEW n \in 0 .. PaddedLen(ChunkLen(fw, i)),
         flash' = CellsWritten(flash, WriteAddress(i), ChunkData(fw, i), ChunkLen(fw, i), n)
  PROVE  KeepsRunningSlot
<1>1. fw = current_manifest
  BY OpensOnlyOwnChunks
<1>2. /\ WriteAddress(i) \in Nat
      /\ WriteAddress(i) >= InactiveSlot
  BY <1>1, AddressNat, ChunkBounds, ContextAssumption
<1>3. /\ ChunkLen(fw, i) \in Nat
      /\ ChunkData(fw, i) \in [0 .. ChunkLen(fw, i) - 1 -> Values]
  BY ChunkBounds
<1>4. n \in Nat
  BY <1>3, PaddedLenBounds
<1>5. \A c \in Cells : c \in Int
  BY FlashAssumption DEF Cells
<1>6. flash \in FlashContents
  BY DEF TypeOK
<1> DEFINE addr == WriteAddress(i)
           data == ChunkData(fw, i)
           len == ChunkLen(fw, i)
<1> HIDE DEF addr, data, len
<1>7. flash' = CellsWritten(flash, addr, data, len, n)
  BY DEF addr, data, len
<1>8. addr \in Nat /\ addr >= InactiveSlot /\ len \in Nat /\ data \in [0 .. len - 1 -> Values]
  BY <1>2, <1>3 DEF addr, data, len
<1>9. /\ flash' \in FlashContents
      /\ \A c \in Cells : c < addr => flash'[c] = flash[c]
  BY <1>4, <1>6, <1>7, <1>8, WrittenFlash
<1>10. QED
  BY <1>5, <1>8, <1>9, ContextAssumption DEF KeepsRunningSlot

LEMMA PowerFailureKeepsRunningSlot ==
  TypeOK /\ Bound /\ PowerFailure => KeepsRunningSlot /\ Restart("power")
<1> SUFFICES ASSUME TypeOK, Bound, PowerFailure
             PROVE  KeepsRunningSlot /\ Restart("power")
  OBVIOUS
<1>1. CASE Reset \/ StackOverrun
  BY <1>1 DEF Reset, StackOverrun, KeepsRunningSlot, TypeOK
<1>2. ASSUME NEW fw \in Firmwares, ResetDuringErase(fw)
      PROVE  KeepsRunningSlot /\ Restart("power")
  BY <1>2, EraseKeepsRunningSlot DEF ResetDuringErase
<1>3. ASSUME NEW fw \in Firmwares, NEW i \in ChunkIndexes(fw),
             NEW opens \in ChunkReadings(fw), ResetDuringWrite(fw, i, opens)
      PROVE  KeepsRunningSlot /\ Restart("power")
  BY <1>3, WriteKeepsRunningSlot DEF ResetDuringWrite, Active
<1>4. QED
  BY <1>1, <1>2, <1>3 DEF PowerFailure

LEMMA NextKeepsRunningSlot == TypeOK /\ Bound /\ [Next]_vars => KeepsRunningSlot
<1> SUFFICES ASSUME TypeOK, Bound, [Next]_vars PROVE KeepsRunningSlot
  OBVIOUS
<1>1. CASE UNCHANGED flash
  BY <1>1 DEF KeepsRunningSlot, TypeOK
<1>2. ASSUME NEW fw \in Firmwares, NEW opens, HandleManifest(fw, opens)
      PROVE  KeepsRunningSlot
  <2>1. CASE BeginDownload(fw)
    BY <2>1, EraseKeepsRunningSlot DEF BeginDownload
  <2>2. CASE ~BeginDownload(fw)
    BY <1>1, <1>2, <2>2 DEF HandleManifest, Refuse
  <2>3. QED
    BY <2>1, <2>2
<1>3. ASSUME NEW fw \in Firmwares, NEW i \in ChunkIndexes(fw),
             NEW opens \in ChunkReadings(fw), HandleFwChunk(fw, i, opens)
      PROVE  KeepsRunningSlot
  BY <1>1, <1>3, WriteKeepsRunningSlot
     DEF HandleFwChunk, StoreChunk, Refuse, Active
<1>4. CASE PowerFailure
  BY <1>4, PowerFailureKeepsRunningSlot
<1>5. CASE \/ StartSession
           \/ \E key \in Keys : HandleChallenge(key)
           \/ HandleCommit
           \/ HandleNack
           \/ UnknownPacket
           \/ UNCHANGED vars
  BY <1>1, <1>5
     DEF StartSession, HandleChallenge, HandleCommit, HandleNack, UnknownPacket, Refuse, vars
<1>6. QED
  BY <1>2, <1>3, <1>4, <1>5 DEF Next, Handlers, ReceiveManifest, ReceiveChunk

----------------------------------------------------------------------------
(* The first theorems *)

LEMMA NextTyped == TypeOK /\ Bound /\ [Next]_vars => TypeOK' /\ Bound'
<1> SUFFICES ASSUME TypeOK, Bound, [Next]_vars PROVE TypeOK' /\ Bound'
  OBVIOUS
<1>1. CASE StartSession
  BY <1>1, StartTyped
<1>2. CASE \E key \in Keys : HandleChallenge(key)
  BY <1>2, ChallengeTyped
<1>3. CASE ReceiveManifest
  BY <1>3, ManifestTyped DEF ReceiveManifest
<1>4. CASE ReceiveChunk
  BY <1>4, ChunkTyped DEF ReceiveChunk
<1>5. CASE HandleCommit
  BY <1>5, RefuseTyped, RestartTyped DEF HandleCommit, Results, TypeOK
<1>6. CASE HandleNack
  BY <1>6, NackTyped
<1>7. CASE UnknownPacket
  BY <1>7, RefuseTyped DEF UnknownPacket, Results
<1>8. CASE PowerFailure
  BY <1>8, PowerFailureKeepsRunningSlot, RestartTyped DEF KeepsRunningSlot
<1>9. CASE UNCHANGED vars
  BY <1>9 DEF vars, ram, TypeOK, Bound, Active
<1>10. QED
  BY <1>1, <1>2, <1>3, <1>4, <1>5, <1>6, <1>7, <1>8, <1>9 DEF Next, Handlers

\* Every variable keeps its type, and a download the manifest, key, nonce base
\* and target it was opened with.
THEOREM TypeCorrect == Spec => [](TypeOK /\ Bound)
<1>1. Init => TypeOK /\ Bound
  BY InitTyped
<1>2. TypeOK /\ Bound /\ [Next]_vars => (TypeOK /\ Bound)'
  BY NextTyped
<1>3. QED
  BY <1>1, <1>2, PTL DEF Spec

\* Whatever packets arrive and whenever the power fails, the update writes no
\* cell below the inactive slot: the bootloader, its metadata and the running
\* application stay as they are (get_inactive_slot_address, flash_erase_region,
\* the write address of handle_fw_chunk).
THEOREM RunningSlotSafe == Spec => RunningSlotUntouched
<1>1. TypeOK /\ Bound /\ [Next]_vars
        => [\A c \in Cells : c < InactiveSlot => flash'[c] = flash[c]]_vars
  BY NextKeepsRunningSlot DEF KeepsRunningSlot
<1>2. QED
  BY <1>1, TypeCorrect, PTL DEF Spec, RunningSlotUntouched

----------------------------------------------------------------------------
(* Chunks in the flash *)

\* The pages of a size hold it.
LEMMA PagesHold ==
  ASSUME NEW size \in Nat
  PROVE  size <= NbPages(size) * PageCells
BY FlashAssumption DEF NbPages

\* Multiples are at least their factor apart.
LEMMA MultiplesApart ==
  ASSUME NEW lo \in Nat, NEW hi \in Nat, NEW k \in Nat, lo < hi
  PROVE  lo * k + k <= hi * k
<1>1. PICK d \in Nat : hi = lo + 1 + d
  <2>1. hi - lo - 1 \in Nat /\ hi = lo + 1 + (hi - lo - 1)
    OBVIOUS
  <2>2. QED
    BY <2>1
<1>2. hi * k = lo * k + k + d * k
  BY <1>1
<1>3. lo * k \in Nat /\ d * k \in Nat
  BY <1>1, NextMultiple
<1>4. QED
  BY <1>2, <1>3

\* A chunk of a word-aligned firmware is written, padding included, before the
\* next one starts.
LEMMA PaddedChunkFits ==
  ASSUME NEW fw \in Firmwares, WordAligned(fw), NEW i \in ChunkIndexes(fw)
  PROVE  PaddedLen(ChunkLen(fw, i)) <= fw.chunk_size
<1>1. ChunkLen(fw, i) \in Nat /\ ChunkLen(fw, i) <= fw.chunk_size
  BY ChunkBounds
<1>2. fw.chunk_size \in Nat /\ fw.chunk_size % 2 = 0
  BY FirmwareAssumption DEF WordAligned
<1>3. QED
  BY <1>1, <1>2 DEF PaddedLen

\* Writing one chunk leaves the cells of the others alone.
LEMMA ChunksApart ==
  ASSUME NEW fw \in Firmwares, WordAligned(fw),
         NEW i \in ChunkIndexes(fw), NEW other \in ChunkIndexes(fw), other # i,
         NEW j \in 0 .. ChunkLen(fw, other) - 1
  PROVE  \/ ChunkOffset(fw, other) + j < ChunkOffset(fw, i)
         \/ ChunkOffset(fw, i) + PaddedLen(ChunkLen(fw, i)) <= ChunkOffset(fw, other) + j
<1> DEFINE k == fw.chunk_size
           pad == PaddedLen(ChunkLen(fw, i))
           len == ChunkLen(fw, other)
<1>1. /\ i \in Nat /\ other \in Nat /\ k \in Nat
      /\ len \in Nat /\ len <= k
      /\ pad \in Nat /\ pad <= k
  BY ChunkBounds, PaddedChunkFits, PaddedLenBounds, FirmwareAssumption
<1>2. i * k \in Nat /\ other * k \in Nat
  BY <1>1, NextMultiple
<1>3. i < other => i * k + k <= other * k
  BY <1>1, MultiplesApart
<1>4. other < i => other * k + k <= i * k
  BY <1>1, MultiplesApart
<1>5. ChunkOffset(fw, i) = i * k /\ ChunkOffset(fw, other) = other * k
  BY DEF ChunkOffset
<1>6. j \in 0 .. len - 1
  OBVIOUS
<1> HIDE DEF k, pad, len
<1>7. \/ other * k + j < i * k
      \/ i * k + pad <= other * k + j
  BY <1>1, <1>2, <1>3, <1>4, <1>6
<1>8. QED
  BY <1>5, <1>7 DEF pad

\* Every chunk but the last is full.
LEMMA FullChunk ==
  ASSUME NEW fw \in Firmwares, NEW i \in ChunkIndexes(fw), i # LastChunk(fw)
  PROVE  ChunkLen(fw, i) = fw.chunk_size
<1>1. i \in Nat /\ fw.total_chunks \in Nat /\ fw.fw_size \in Nat /\ fw.chunk_size \in Nat
  BY FirmwareAssumption DEF ChunkIndexes
<1>2. i + 1 \in ChunkIndexes(fw)
  BY <1>1 DEF ChunkIndexes, LastChunk
<1>3. (i + 1) * fw.chunk_size < fw.fw_size
  BY <1>2, FirmwareAssumption
<1>4. (i + 1) * fw.chunk_size \in Nat
  BY <1>1, NextMultiple
<1>5. QED
  BY <1>1, <1>3, <1>4 DEF ChunkLen

----------------------------------------------------------------------------
(* The inductive invariant *)

\* The part of IInv that speaks of the slot and the counters.
DownloadInv ==
  /\ SlotHoldsOnlyImage
  /\ AcceptedInFlash
  /\ CountIsExact
  /\ BytesAreExact
  /\ EndsAtCount

\* Nothing is claimed outside a download.
LEMMA IdleInv == ~Active' => DownloadInv'
BY DEF DownloadInv, SlotHoldsOnlyImage, AcceptedInFlash, CountIsExact, BytesAreExact,
       EndsAtCount, Active

\* The variables the claims are about.
downloadVars ==
  <<state, current_manifest, expected_chunks, received_chunks, bytes_written,
    target_address, flash, accepted>>

LEMMA QuietInv == DownloadInv /\ UNCHANGED downloadVars => DownloadInv'
BY DEF DownloadInv, SlotHoldsOnlyImage, AcceptedInFlash, CountIsExact, BytesAreExact,
       EndsAtCount, Active, WriteAddress, downloadVars

\* The erase leaves the whole place of the image erased.
LEMMA BeginInv ==
  ASSUME TypeOK, Bound, NEW fw \in Firmwares, state = "WAIT_MANIFEST", BeginDownload(fw)
  PROVE  DownloadInv'
<1>1. CASE state' # "DOWNLOADING"
  <2>1. ~Active'
    BY <1>1 DEF BeginDownload, Active
  <2>2. QED
    BY <2>1, IdleInv
<1>2. CASE state' = "DOWNLOADING"
  <2>1. /\ current_manifest' = fw
        /\ expected_chunks' = fw.total_chunks
        /\ received_chunks' = 0
        /\ bytes_written' = 0
        /\ target_address' = InactiveSlot
        /\ accepted' = {}
    BY DEF BeginDownload
  <2>2. flash' = PagesErased(flash, InactiveSlot, NbPages(fw.fw_size))
    BY <1>2 DEF BeginDownload, EraseResult
  <2>3. SlotHoldsOnlyImage'
    <3> SUFFICES ASSUME NEW i \in ChunkIndexes(fw),
                        NEW j \in 0 .. ChunkLen(fw, i) - 1,
                        InactiveSlot + i * fw.chunk_size + j \in Cells
                 PROVE  flash'[InactiveSlot + i * fw.chunk_size + j] = Erased
      BY <2>1 DEF SlotHoldsOnlyImage, WriteAddress
    <3> DEFINE off == i * fw.chunk_size
               end == NbPages(fw.fw_size) * PageCells
               len == ChunkLen(fw, i)
    <3>1. /\ off \in Nat /\ len \in Nat /\ off + len <= fw.fw_size
          /\ fw.fw_size \in Nat /\ InactiveSlot \in Nat
      BY ChunkBounds, FirmwareAssumption, ContextAssumption DEF ChunkOffset
    <3>2. fw.fw_size <= end /\ end \in Int
      BY <3>1, PagesHold, PagesNat, FlashAssumption
    <3>3. j \in 0 .. len - 1 /\ InactiveSlot + off + j \in Cells
      OBVIOUS
    <3> HIDE DEF off, end, len
    <3>4. /\ InactiveSlot <= InactiveSlot + off + j
          /\ InactiveSlot + off + j < InactiveSlot + end
      BY <3>1, <3>2, <3>3
    <3>5. flash'[InactiveSlot + off + j] = Erased
      BY <2>2, <3>3, <3>4 DEF PagesErased, end
    <3>6. QED
      BY <3>5 DEF off
  <2>4. AcceptedInFlash'
    BY <2>1 DEF AcceptedInFlash
  <2>5. Cardinality(accepted') = 0
    BY <2>1, FS_EmptySet
  <2>6. CountIsExact'
    BY <2>1, <2>5 DEF CountIsExact
  <2>7. BytesAreExact'
    <3>1. BytesAccepted(fw, {}) = 0
      BY FS_EmptySet, FirmwareAssumption DEF BytesAccepted
    <3>2. QED
      BY <2>1, <3>1 DEF BytesAreExact
  <2>8. EndsAtCount'
    BY <1>2, <2>1 DEF EndsAtCount
  <2>9. QED
    BY <2>3, <2>4, <2>6, <2>7, <2>8 DEF DownloadInv
<1>3. QED
  BY <1>1, <1>2

\* A prefix of chunk i is being programmed.
Programs(i, n) ==
  /\ CanProgram(flash, WriteAddress(i), ChunkData(current_manifest, i),
                ChunkLen(current_manifest, i), n)
  /\ flash' = CellsWritten(flash, WriteAddress(i), ChunkData(current_manifest, i),
                           ChunkLen(current_manifest, i), n)

\* Programming a chunk puts its data, or leaves what was there, in its own cells;
\* a complete one has all of them in the flash, with the data.
LEMMA OwnCells ==
  ASSUME TypeOK, Bound, Active,
         NEW i \in ChunkIndexes(current_manifest),
         NEW n \in 0 .. PaddedLen(ChunkLen(current_manifest, i)), Programs(i, n),
         NEW j \in 0 .. ChunkLen(current_manifest, i) - 1
  PROVE  /\ WriteAddress(i) + j \in Cells =>
              flash'[WriteAddress(i) + j] \in
                {flash[WriteAddress(i) + j], ChunkData(current_manifest, i)[j]}
         /\ n = PaddedLen(ChunkLen(current_manifest, i)) =>
              /\ WriteAddress(i) + j \in Cells
              /\ flash'[WriteAddress(i) + j] = ChunkData(current_manifest, i)[j]
<1> DEFINE addr == WriteAddress(i)
           data == ChunkData(current_manifest, i)
           len == ChunkLen(current_manifest, i)
<1>1. /\ addr \in Nat /\ len \in Nat /\ data \in [0 .. len - 1 -> Values]
      /\ flash \in FlashContents
  BY AddressNat, ChunkBounds DEF Bound, TypeOK
<1>2. len <= PaddedLen(len) /\ PaddedLen(len) \in Nat
  BY <1>1, PaddedLenBounds
<1>3. /\ j \in 0 .. len - 1
      /\ n \in 0 .. PaddedLen(len)
      /\ flash' = CellsWritten(flash, addr, data, len, n)
      /\ CanProgram(flash, addr, data, len, n)
  BY DEF Programs
<1> HIDE DEF addr, data, len
<1>4. n \in Nat /\ j \in Nat
  BY <1>1, <1>2, <1>3
<1>5. PaddedData(data, len, j) = data[j]
  BY <1>1, <1>3 DEF PaddedData
<1>6. /\ \A k \in 0 .. n - 1 : addr + k \in Cells =>
           CellsWritten(flash, addr, data, len, n)[addr + k] = PaddedData(data, len, k)
      /\ \A c \in Cells : (c < addr \/ addr + n <= c) =>
           CellsWritten(flash, addr, data, len, n)[c] = flash[c]
  <2>1. \A k \in 0 .. n - 1 : addr + k \in Cells =>
           CellsWritten(flash, addr, data, len, n)[addr + k] = PaddedData(data, len, k)
    BY <1>1, <1>4, WrittenFlash
  <2>2. \A c \in Cells : (c < addr \/ addr + n <= c) =>
           CellsWritten(flash, addr, data, len, n)[c] = flash[c]
    BY <1>1, <1>4, WrittenFlash
  <2>3. QED
    BY <2>1, <2>2
<1>7. ASSUME j < n
      PROVE  addr + j \in Cells /\ flash'[addr + j] = data[j]
  <2>1. j \in 0 .. n - 1
    BY <1>4, <1>7
  <2>2. addr + j \in Cells
    BY <1>3, <2>1 DEF CanProgram, Programmable
  <2>3. QED
    BY <1>3, <1>5, <1>6, <2>1, <2>2
<1>8. ASSUME n <= j, addr + j \in Cells
      PROVE  flash'[addr + j] = flash[addr + j]
  <2>1. addr + n <= addr + j
    BY <1>1, <1>4, <1>8
  <2>2. QED
    BY <1>3, <1>8, <1>6, <2>1
<1>9. n = PaddedLen(len) => j < n
  BY <1>1, <1>2, <1>3
<1>10. QED
  BY <1>4, <1>7, <1>8, <1>9 DEF addr, data, len

\* Programming a chunk leaves the cells of the others alone.
LEMMA OtherCells ==
  ASSUME TypeOK, Bound, Active, WordAligned(current_manifest),
         NEW i \in ChunkIndexes(current_manifest),
         NEW n \in 0 .. PaddedLen(ChunkLen(current_manifest, i)), Programs(i, n),
         NEW other \in ChunkIndexes(current_manifest), other # i,
         NEW j \in 0 .. ChunkLen(current_manifest, other) - 1,
         WriteAddress(other) + j \in Cells
  PROVE  flash'[WriteAddress(other) + j] = flash[WriteAddress(other) + j]
<1> DEFINE addr == WriteAddress(i)
           data == ChunkData(current_manifest, i)
           len == ChunkLen(current_manifest, i)
           c == WriteAddress(other) + j
<1>1. /\ addr \in Nat /\ len \in Nat /\ data \in [0 .. len - 1 -> Values]
      /\ flash \in FlashContents
  BY AddressNat, ChunkBounds DEF Bound, TypeOK
<1>2. PaddedLen(len) \in Nat
  BY <1>1, PaddedLenBounds
<1>3. /\ n \in 0 .. PaddedLen(len)
      /\ flash' = CellsWritten(flash, addr, data, len, n)
      /\ c \in Cells
  BY DEF Programs
<1>4. c < addr \/ addr + PaddedLen(len) <= c
  <2> DEFINE off == ChunkOffset(current_manifest, i)
             there == ChunkOffset(current_manifest, other)
  <2>1. there + j < off \/ off + PaddedLen(len) <= there + j
    BY ChunksApart DEF Bound
  <2>2. /\ off \in Nat /\ there \in Nat
        /\ addr = InactiveSlot + off
        /\ c = InactiveSlot + there + j
    BY AddressNat, ChunkBounds DEF Bound
  <2>3. j \in Int /\ InactiveSlot \in Nat
    BY ContextAssumption
  <2> HIDE DEF off, there, addr, len, c
  <2>4. QED
    BY <1>2, <2>1, <2>2, <2>3
<1>5. c \in Int
  BY <1>3, FlashAssumption DEF Cells
<1> HIDE DEF addr, data, len, c
<1>6. n \in Nat /\ (c < addr \/ addr + n <= c)
  BY <1>1, <1>2, <1>3, <1>4, <1>5
<1>7. flash'[c] = flash[c]
  <2>1. \A d \in Cells : (d < addr \/ addr + n <= d) =>
          CellsWritten(flash, addr, data, len, n)[d] = flash[d]
    BY <1>1, <1>6, WrittenFlash
  <2>2. QED
    BY <1>3, <1>6, <2>1
<1>8. QED
  BY <1>7 DEF c

\* A chunk with content, once accepted, is not accepted a second time: the flash
\* refuses it.
LEMMA NotTwice ==
  ASSUME TypeOK, Bound, Active, AcceptedInFlash, WordAligned(current_manifest),
         NEW i \in ChunkIndexes(current_manifest), HasContent(current_manifest, i),
         Programs(i, PaddedLen(ChunkLen(current_manifest, i)))
  PROVE  i \notin accepted
<1> SUFFICES ASSUME i \in accepted PROVE FALSE
  OBVIOUS
<1> DEFINE data == ChunkData(current_manifest, i)
           len == ChunkLen(current_manifest, i)
<1>1. PICK j \in 0 .. len - 1 : data[j] \notin Blank
  BY DEF HasContent, ChunkData
<1>2. flash[WriteAddress(i) + j] = data[j]
  BY DEF AcceptedInFlash
<1>3. len \in Nat
  BY ChunkBounds DEF Bound
<1>4. len <= PaddedLen(len) /\ PaddedLen(len) \in Nat
  BY <1>3, PaddedLenBounds
<1>5. CanProgram(flash, WriteAddress(i), data, len, PaddedLen(len))
  BY DEF Programs
<1> HIDE DEF data, len
<1>6. j \in 0 .. PaddedLen(len) - 1 /\ j < len
  BY <1>1, <1>3, <1>4
<1>7. PaddedData(data, len, j) = data[j]
  BY <1>6 DEF PaddedData
<1>8. flash[WriteAddress(i) + j] = Erased \/ data[j] = Zero
  BY <1>5, <1>6, <1>7 DEF CanProgram, Programmable
<1>9. QED
  BY <1>1, <1>2, <1>8 DEF Blank

\* The chunk indexes of a firmware are finite, and so is every set of them.
LEMMA FiniteIndexes ==
  ASSUME NEW fw \in Firmwares, NEW S, S \subseteq ChunkIndexes(fw)
  PROVE  /\ IsFiniteSet(S)
         /\ Cardinality(S) \in Nat
         /\ Cardinality(ChunkIndexes(fw)) = fw.total_chunks
         /\ Cardinality(S) <= fw.total_chunks
         /\ Cardinality(S) = fw.total_chunks => S = ChunkIndexes(fw)
<1>1. fw.total_chunks \in Nat
  BY FirmwareAssumption
<1>2. /\ IsFiniteSet(ChunkIndexes(fw))
      /\ Cardinality(ChunkIndexes(fw)) = fw.total_chunks
  <2> DEFINE last == fw.total_chunks - 1
  <2>1. last \in Int
    BY <1>1
  <2> HIDE DEF last
  <2>2. /\ IsFiniteSet(0 .. last)
        /\ Cardinality(0 .. last) = IF 0 > last THEN 0 ELSE last - 0 + 1
    BY <2>1, FS_Interval
  <2>3. QED
    BY <1>1, <2>2 DEF ChunkIndexes, last
<1>3. /\ IsFiniteSet(S)
      /\ Cardinality(S) <= Cardinality(ChunkIndexes(fw))
      /\ Cardinality(S) = Cardinality(ChunkIndexes(fw)) => S = ChunkIndexes(fw)
  BY <1>2, FS_Subset
<1>4. Cardinality(S) \in Nat
  BY <1>3, FS_CardinalityType
<1>5. QED
  BY <1>2, <1>3, <1>4

\* One more chunk counts one more, and adds its length to the bytes.
LEMMA OneMoreChunk ==
  ASSUME NEW fw \in Firmwares, NEW S, S \subseteq ChunkIndexes(fw),
         NEW i \in ChunkIndexes(fw), i \notin S
  PROVE  /\ Cardinality(S \cup {i}) = Cardinality(S) + 1
         /\ BytesAccepted(fw, S \cup {i}) = BytesAccepted(fw, S) + ChunkLen(fw, i)
<1> DEFINE k == fw.chunk_size
           last == LastChunk(fw)
           lastLen == ChunkLen(fw, last)
           card == Cardinality(S)
<1>1. IsFiniteSet(S) /\ card \in Nat
  BY FiniteIndexes
<1>2. Cardinality(S \cup {i}) = card + 1
  BY <1>1, FS_AddElement
<1>3. k \in Nat /\ i \in Nat /\ ChunkLen(fw, i) \in Nat
  BY FirmwareAssumption, ChunkBounds
<1>4. (card + 1) * k = card * k + k /\ card * k \in Nat
  BY <1>1, <1>3, NextMultiple
<1>5. BytesAccepted(fw, S) = card * k - (IF last \in S THEN k - lastLen ELSE 0)
  BY DEF BytesAccepted
<1>6. BytesAccepted(fw, S \cup {i}) =
        (card * k + k) - (IF last \in S \cup {i} THEN k - lastLen ELSE 0)
  BY <1>2, <1>4 DEF BytesAccepted
<1>7. CASE i = last
  <2>1. last \notin S /\ last \in S \cup {i} /\ lastLen = ChunkLen(fw, i)
    BY <1>7
  <2> HIDE DEF k, last, lastLen, card
  <2>2. QED
    BY <1>2, <1>3, <1>4, <1>5, <1>6, <2>1 DEF card
<1>8. CASE i # last
  <2>1. ChunkLen(fw, i) = k
    BY <1>8, FullChunk
  <2>2. last \in S \cup {i} <=> last \in S
    BY <1>8
  <2>3. last \in S => lastLen \in Nat
    BY ChunkBounds
  <2> HIDE DEF k, last, lastLen, card
  <2>4. QED
    BY <1>2, <1>3, <1>4, <1>5, <1>6, <2>1, <2>2, <2>3 DEF card
<1>9. QED
  BY <1>7, <1>8

\* A chunk written, in whole or in part, keeps the invariant.
LEMMA StoreInv ==
  ASSUME TypeOK, Bound, DownloadInv, state = "DOWNLOADING",
         NEW i \in ChunkIndexes(current_manifest), StoreChunk(current_manifest, i)
  PROVE  DownloadInv'
<1> DEFINE fw == current_manifest
           len == ChunkLen(fw, i)
           pad == PaddedLen(len)
<1>1. fw \in Firmwares /\ Active /\ accepted \subseteq ChunkIndexes(fw)
  BY DEF Bound, Active
<1>2. PICK n \in 0 .. pad :
        /\ Programs(i, n)
        /\ \/ n = pad /\ CountChunk(fw, i)
           \/ UNCHANGED <<state, received_chunks, bytes_written, accepted>>
  BY DEF StoreChunk, Programs, WriteStops, WriteResult
<1>3. UNCHANGED <<current_manifest, expected_chunks, target_address>>
  BY DEF StoreChunk
<1>4. /\ accepted' \subseteq accepted \cup {i}
      /\ i \in accepted' /\ i \notin accepted => n = pad
  BY <1>2 DEF CountChunk
<1>5. \A k \in ChunkIndexes(fw) : WriteAddress(k)' = WriteAddress(k)
  BY <1>3 DEF WriteAddress
<1>6. Active' => Active
  BY <1>1
<1>7. SlotHoldsOnlyImage'
  <2> SUFFICES ASSUME WordAligned(fw), NEW other \in ChunkIndexes(fw),
                      NEW j \in 0 .. ChunkLen(fw, other) - 1,
                      WriteAddress(other) + j \in Cells
               PROVE  flash'[WriteAddress(other) + j] \in {Erased, ChunkData(fw, other)[j]}
    BY <1>3, <1>5 DEF SlotHoldsOnlyImage
  <2>1. flash[WriteAddress(other) + j] \in {Erased, ChunkData(fw, other)[j]}
    BY <1>1 DEF DownloadInv, SlotHoldsOnlyImage
  <2>2. CASE other = i
    BY <1>1, <1>2, <2>1, <2>2, OwnCells
  <2>3. CASE other # i
    BY <1>1, <1>2, <2>1, <2>3, OtherCells
  <2>4. QED
    BY <2>2, <2>3
<1>8. AcceptedInFlash'
  <2> SUFFICES ASSUME WordAligned(fw), NEW other \in accepted',
                      NEW j \in 0 .. ChunkLen(fw, other) - 1
               PROVE  /\ WriteAddress(other) + j \in Cells
                      /\ flash'[WriteAddress(other) + j] = ChunkData(fw, other)[j]
    BY <1>1, <1>3, <1>4, <1>5 DEF AcceptedInFlash
  <2>1. other \in ChunkIndexes(fw)
    BY <1>1, <1>4
  <2>2. other \in accepted => /\ WriteAddress(other) + j \in Cells
                              /\ flash[WriteAddress(other) + j] = ChunkData(fw, other)[j]
    BY <1>1 DEF DownloadInv, AcceptedInFlash
  <2>3. CASE other # i
    BY <1>1, <1>2, <1>4, <2>1, <2>2, <2>3, OtherCells
  <2>4. CASE other = i /\ other \in accepted
    BY <1>1, <1>2, <2>2, <2>4, OwnCells
  <2>5. CASE other = i /\ other \notin accepted
    BY <1>1, <1>2, <1>4, <2>5, OwnCells
  <2>6. QED
    BY <2>3, <2>4, <2>5
<1>9. CASE UNCHANGED <<state, received_chunks, bytes_written, accepted>>
  BY <1>3, <1>7, <1>8, <1>9
     DEF DownloadInv, CountIsExact, BytesAreExact, EndsAtCount, Active
<1>10. CASE n = pad /\ CountChunk(fw, i)
  <2>1. /\ received_chunks' = received_chunks + 1
        /\ bytes_written' = bytes_written + len
        /\ accepted' = accepted \cup {i}
        /\ received_chunks \in Nat /\ expected_chunks \in Nat
    BY <1>10 DEF CountChunk, TypeOK
  <2>2. Trackable(fw) => i \notin accepted
    BY <1>1, <1>2, <1>10, NotTwice DEF Trackable, DownloadInv
  <2>3. CountIsExact'
    BY <1>1, <1>3, <2>1, <2>2, OneMoreChunk DEF CountIsExact, DownloadInv
  <2>4. BytesAreExact'
    BY <1>1, <1>3, <2>1, <2>2, OneMoreChunk DEF BytesAreExact, DownloadInv
  <2>5. EndsAtCount'
    <3>1. state' = IF received_chunks' >= expected_chunks THEN "VERIFYING" ELSE "DOWNLOADING"
      BY <1>10 DEF CountChunk
    <3>2. QED
      BY <1>3, <2>1, <3>1 DEF EndsAtCount
  <2>6. QED
    BY <1>7, <1>8, <2>3, <2>4, <2>5 DEF DownloadInv
<1>11. QED
  BY <1>2, <1>9, <1>10

\* Every other step leaves the download alone, or ends it.
LEMMA NextDownloadInv ==
  ASSUME TypeOK, Bound, DownloadInv, [Next]_vars
  PROVE  DownloadInv'
<1>1. ASSUME NEW err, Refuse(err) PROVE DownloadInv'
  BY <1>1, QuietInv DEF Refuse, ram, downloadVars
<1>2. ASSUME NEW cause, Restart(cause) PROVE DownloadInv'
  BY <1>2, IdleInv DEF Restart, Active
<1>3. CASE StartSession
  BY <1>1, <1>3, IdleInv DEF StartSession, Active
<1>4. CASE \E key \in Keys : HandleChallenge(key)
  BY <1>1, <1>4, IdleInv DEF HandleChallenge, Active
<1>5. ASSUME NEW fw \in Firmwares, NEW opens, HandleManifest(fw, opens)
      PROVE  DownloadInv'
  <2>1. CASE state = "WAIT_MANIFEST" /\ BeginDownload(fw)
    BY <2>1, BeginInv
  <2>2. CASE state = "WAIT_MANIFEST" /\ UNCHANGED state
    BY <2>2, IdleInv DEF Active
  <2>3. QED
    BY <1>1, <1>5, <2>1, <2>2 DEF HandleManifest
<1>6. ASSUME NEW fw \in Firmwares, NEW i \in ChunkIndexes(fw),
             NEW opens \in ChunkReadings(fw), HandleFwChunk(fw, i, opens)
      PROVE  DownloadInv'
  <2>1. CASE state = "DOWNLOADING" /\ opens /\ StoreChunk(fw, i)
    BY <2>1, OpensOnlyOwnChunks, StoreInv DEF Active
  <2>2. QED
    BY <1>1, <1>6, <2>1 DEF HandleFwChunk
<1>7. CASE HandleCommit
  BY <1>1, <1>2, <1>7 DEF HandleCommit
<1>8. CASE HandleNack
  <2>1. CASE state' = "ERROR"
    BY <2>1, IdleInv DEF Active
  <2>2. CASE UNCHANGED state
    BY <1>8, <2>2, QuietInv DEF HandleNack, downloadVars
  <2>3. QED
    BY <1>8, <2>1, <2>2 DEF HandleNack
<1>9. CASE UnknownPacket
  BY <1>1, <1>9 DEF UnknownPacket
<1>10. CASE PowerFailure
  BY <1>2, <1>10, PowerFailureKeepsRunningSlot
<1>11. CASE UNCHANGED vars
  BY <1>11, QuietInv DEF vars, ram, downloadVars
<1>12. QED
  BY <1>3, <1>4, <1>5, <1>6, <1>7, <1>8, <1>9, <1>10, <1>11
     DEF Next, Handlers, ReceiveManifest, ReceiveChunk

LEMMA Inductive ==
  /\ Init => IInv
  /\ IInv /\ [Next]_vars => IInv'
<1>1. IInv <=> TypeOK /\ Bound /\ DownloadInv
  BY DEF IInv, DownloadInv
<1>2. IInv' <=> TypeOK' /\ Bound' /\ DownloadInv'
  BY DEF IInv, DownloadInv
<1>3. Init => IInv
  BY InitTyped DEF IInv, Init, SlotHoldsOnlyImage, AcceptedInFlash, CountIsExact,
                   BytesAreExact, EndsAtCount, Active
<1>4. IInv /\ [Next]_vars => IInv'
  BY <1>1, <1>2, NextTyped, NextDownloadInv
<1>5. QED
  BY <1>3, <1>4

\* The inductive invariant holds of every behaviour.
THEOREM Invariant == Spec => []IInv
BY Inductive, PTL DEF Spec

\* The slot holds cells of the image that is downloaded and erased ones, nothing else.
THEOREM SlotSafe == Spec => []SlotHoldsOnlyImage
<1>1. IInv => SlotHoldsOnlyImage
  BY DEF IInv
<1>2. QED
  BY <1>1, Invariant, PTL

\* The chunk count is the number of different chunks written.
THEOREM CountCorrect == Spec => []CountIsExact
<1>1. IInv => CountIsExact
  BY DEF IInv
<1>2. QED
  BY <1>1, Invariant, PTL

\* Every cell of an image is in one of its chunks.
LEMMA CellInChunk ==
  ASSUME NEW fw \in Firmwares, NEW o \in 0 .. fw.fw_size - 1
  PROVE  \E i \in ChunkIndexes(fw) : \E j \in 0 .. ChunkLen(fw, i) - 1 :
           o = ChunkOffset(fw, i) + j /\ ChunkData(fw, i)[j] = fw.image[o]
<1> DEFINE k == fw.chunk_size
           total == fw.total_chunks
           size == fw.fw_size
           i == o \div k
<1>1. /\ k \in Nat \ {0} /\ total \in Nat /\ size \in Nat
      /\ size <= total * k
      /\ o \in Nat /\ o < size
  BY FirmwareAssumption
<1> HIDE DEF k, total, size
<1>2. i \in Nat /\ i * k <= o /\ o < i * k + k
  BY <1>1
<1> HIDE DEF i
<1>3. i < total
  <2> SUFFICES ASSUME total <= i PROVE FALSE
    BY <1>1, <1>2
  <2>1. i = total \/ total * k + k <= i * k
    BY <1>1, <1>2, MultiplesApart
  <2>2. total * k \in Nat /\ i * k \in Nat
    BY <1>1, <1>2, NextMultiple
  <2>3. QED
    BY <1>1, <1>2, <2>1, <2>2
<1>4. i \in ChunkIndexes(fw)
  BY <1>1, <1>2, <1>3 DEF ChunkIndexes, total
<1>5. i * k \in Nat /\ (i + 1) * k = i * k + k
  BY <1>1, <1>2, NextMultiple
<1>6. ChunkLen(fw, i) = IF i * k + k <= size THEN k ELSE size - i * k
  BY <1>5 DEF ChunkLen, k, size
<1>7. o - i * k \in 0 .. ChunkLen(fw, i) - 1
  BY <1>1, <1>2, <1>5, <1>6
<1>8. ChunkOffset(fw, i) = i * k /\ o = i * k + (o - i * k)
  BY <1>1, <1>5 DEF ChunkOffset, k
<1>9. ChunkData(fw, i)[o - i * k] = fw.image[o]
  BY <1>7, <1>8 DEF ChunkData
<1>10. QED
  BY <1>4, <1>7, <1>8, <1>9

\* The lengths of all the chunks add up to the size of the firmware.
LEMMA AllBytes ==
  ASSUME NEW fw \in Firmwares
  PROVE  BytesAccepted(fw, ChunkIndexes(fw)) = fw.fw_size
<1> DEFINE k == fw.chunk_size
           total == fw.total_chunks
           size == fw.fw_size
           last == total - 1
<1>1. /\ k \in Nat /\ total \in Nat /\ size \in Nat /\ size <= total * k
  BY FirmwareAssumption
<1>2. BytesAccepted(fw, ChunkIndexes(fw)) =
        total * k - (IF last \in ChunkIndexes(fw) THEN k - ChunkLen(fw, last) ELSE 0)
  BY FiniteIndexes DEF BytesAccepted, LastChunk
<1>3. CASE total = 0
  <2>1. last \notin ChunkIndexes(fw)
    BY <1>3 DEF ChunkIndexes
  <2>2. total * k = 0
    BY <1>1, <1>3
  <2> HIDE DEF k, total, size, last
  <2>3. QED
    BY <1>1, <1>2, <2>1, <2>2 DEF size
<1>4. CASE total # 0
  <2>1. last \in ChunkIndexes(fw) /\ last \in Nat
    BY <1>1, <1>4 DEF ChunkIndexes
  <2>2. total * k = last * k + k /\ last * k \in Nat /\ total = last + 1
    <3>1. total = last + 1
      BY <1>1
    <3>2. (last + 1) * k = last * k + k /\ last * k \in Nat
      BY <1>1, <2>1, NextMultiple
    <3> HIDE DEF k, last, total
    <3>3. QED
      BY <3>1, <3>2
  <2>3. ChunkLen(fw, last) = IF total * k <= size THEN k ELSE size - last * k
    BY <2>2 DEF ChunkLen
  <2> HIDE DEF k, total, size, last
  <2>4. QED
    BY <1>1, <1>2, <2>1, <2>2, <2>3 DEF size
<1>5. QED
  BY <1>3, <1>4

\* A download that ended has accepted every chunk.
LEMMA AllAccepted ==
  ASSUME IInv, state = "VERIFYING", Trackable(current_manifest)
  PROVE  accepted = ChunkIndexes(current_manifest)
<1>1. /\ current_manifest \in Firmwares
      /\ accepted \subseteq ChunkIndexes(current_manifest)
      /\ expected_chunks = current_manifest.total_chunks
  BY DEF IInv, Bound, Active
<1>2. /\ received_chunks = Cardinality(accepted)
      /\ received_chunks >= expected_chunks
  BY DEF IInv, CountIsExact, EndsAtCount, Active
<1>3. /\ Cardinality(accepted) \in Nat
      /\ Cardinality(accepted) <= current_manifest.total_chunks
      /\ Cardinality(accepted) = current_manifest.total_chunks
           => accepted = ChunkIndexes(current_manifest)
  BY <1>1, FiniteIndexes
<1>4. QED
  BY <1>1, <1>2, <1>3, FirmwareAssumption

LEMMA CompleteWhenVerifying == IInv => StagedImageComplete
<1> SUFFICES ASSUME IInv, state = "VERIFYING", Trackable(current_manifest)
             PROVE  /\ \A i \in ChunkIndexes(current_manifest) :
                         \A j \in 0 .. ChunkLen(current_manifest, i) - 1 :
                           ReadCell(flash, WriteAddress(i) + j)
                             = ChunkData(current_manifest, i)[j]
                    /\ bytes_written = current_manifest.fw_size
  BY DEF StagedImageComplete
<1>1. accepted = ChunkIndexes(current_manifest) /\ Active
  BY AllAccepted DEF Active
<1>2. AcceptedInFlash /\ BytesAreExact /\ WordAligned(current_manifest)
  BY DEF IInv, Trackable
<1>3. current_manifest \in Firmwares
  BY <1>1 DEF IInv, Bound
<1>4. bytes_written = current_manifest.fw_size
  BY <1>1, <1>2, <1>3, AllBytes DEF BytesAreExact
<1>5. QED
  BY <1>1, <1>2, <1>4 DEF AcceptedInFlash, ReadCell

\* A download that ended has put every cell of the image in the slot and has
\* accounted for exactly its size, whatever was lost, repeated, reordered,
\* refused or interrupted (the count of handle_fw_chunk and flash_write).
THEOREM StagingComplete == Spec => []StagedImageComplete
BY CompleteWhenVerifying, Invariant, PTL

----------------------------------------------------------------------------
(* The verdict, the NACK budget and the binding of the session *)

\* The steps that keep a download going: a refusal, a NACK or a chunk of its firmware.
LEMMA ActiveSteps ==
  ASSUME IInv, [Next]_vars, Active, Active'
  PROVE  \/ UNCHANGED <<state, session_key, nonce_base, current_manifest, expected_chunks,
                        target_address, flash, accepted, verdict>>
         \/ /\ state = "DOWNLOADING"
            /\ \E i \in ChunkIndexes(current_manifest) : StoreChunk(current_manifest, i)
<1> DEFINE Quiet == UNCHANGED <<state, session_key, nonce_base, current_manifest,
                                expected_chunks, target_address, flash, accepted, verdict>>
           Stores == /\ state = "DOWNLOADING"
                     /\ \E i \in ChunkIndexes(current_manifest) :
                          StoreChunk(current_manifest, i)
<1>0. TypeOK /\ Bound
  BY DEF IInv
<1>1. ASSUME NEW err, Refuse(err) PROVE Quiet
  BY <1>1 DEF Refuse, ram
<1>2. ASSUME NEW cause, Restart(cause) PROVE FALSE
  BY <1>2 DEF Restart, Active
<1>3. CASE StartSession \/ \E key \in Keys : HandleChallenge(key)
  BY <1>1, <1>3 DEF StartSession, HandleChallenge, Active
<1>4. ASSUME NEW fw \in Firmwares, NEW opens, HandleManifest(fw, opens)
      PROVE  Quiet
  BY <1>1, <1>4 DEF HandleManifest, Active
<1>5. ASSUME NEW fw \in Firmwares, NEW i \in ChunkIndexes(fw),
             NEW opens \in ChunkReadings(fw), HandleFwChunk(fw, i, opens)
      PROVE  Quiet \/ Stores
  <2>1. CASE state = "DOWNLOADING" /\ opens /\ StoreChunk(fw, i)
    <3>1. fw = current_manifest
      BY <1>0, <2>1, OpensOnlyOwnChunks
    <3>2. QED
      BY <2>1, <3>1
  <2>2. QED
    BY <1>1, <1>5, <2>1 DEF HandleFwChunk
<1>6. CASE HandleCommit
  BY <1>1, <1>2, <1>6 DEF HandleCommit
<1>7. CASE HandleNack
  BY <1>7 DEF HandleNack, Active
<1>8. CASE UnknownPacket \/ UNCHANGED vars
  BY <1>1, <1>8 DEF UnknownPacket, vars, ram
<1>9. CASE PowerFailure
  BY <1>0, <1>2, <1>9, PowerFailureKeepsRunningSlot
<1>10. QED
  BY <1>3, <1>4, <1>5, <1>6, <1>7, <1>8, <1>9 DEF Next, Handlers, ReceiveManifest, ReceiveChunk

\* What verify_downloaded_firmware reads of a complete slot is the image.
LEMMA ImageRead ==
  IInv /\ state = "VERIFYING" /\ Trackable(current_manifest) =>
    HashFirmware(flash, target_address, current_manifest.fw_size)
      = XorLanes(current_manifest.image, current_manifest.fw_size)
<1> SUFFICES ASSUME IInv, state = "VERIFYING", Trackable(current_manifest)
             PROVE  HashFirmware(flash, target_address, current_manifest.fw_size)
                      = XorLanes(current_manifest.image, current_manifest.fw_size)
  OBVIOUS
<1> DEFINE fw == current_manifest
           size == fw.fw_size
           read == [o \in 0 .. size - 1 |-> ReadCell(flash, target_address + o)]
<1>1. fw \in Firmwares /\ target_address = InactiveSlot /\ TypeOK /\ Bound /\ Active
  BY DEF IInv, Bound, Active
<1>2. fw.image \in [0 .. size - 1 -> Values]
  BY <1>1, FirmwareAssumption
<1>3. ASSUME NEW o \in 0 .. size - 1
      PROVE  ReadCell(flash, target_address + o) = fw.image[o]
  <2>0. PICK i \in ChunkIndexes(fw) : \E j \in 0 .. ChunkLen(fw, i) - 1 :
          o = ChunkOffset(fw, i) + j /\ ChunkData(fw, i)[j] = fw.image[o]
    BY <1>1, CellInChunk
  <2>1. PICK j \in 0 .. ChunkLen(fw, i) - 1 :
          o = ChunkOffset(fw, i) + j /\ ChunkData(fw, i)[j] = fw.image[o]
    BY <2>0
  <2>2. ReadCell(flash, WriteAddress(i) + j) = ChunkData(fw, i)[j]
    BY CompleteWhenVerifying DEF StagedImageComplete
  <2>3. WriteAddress(i) = InactiveSlot + ChunkOffset(fw, i) /\ ChunkOffset(fw, i) \in Nat
    BY <1>1, AddressNat, ChunkBounds
  <2>4. (InactiveSlot + ChunkOffset(fw, i)) + j = InactiveSlot + (ChunkOffset(fw, i) + j)
    BY <2>3, ContextAssumption
  <2>5. QED
    BY <1>1, <2>1, <2>2, <2>3, <2>4
<1>4. read = fw.image
  BY <1>2, <1>3
<1>5. QED
  BY <1>4 DEF HashFirmware

LEMMA VerdictStep ==
  ASSUME IInv, IInv', VerdictIsImageHash, [Next]_vars
  PROVE  VerdictIsImageHash'
<1> SUFFICES ASSUME state' = "VERIFYING", Trackable(current_manifest')
             PROVE  verdict' = "match" <=> ImageMatches(current_manifest')
  BY DEF VerdictIsImageHash
<1>1. Active'
  BY DEF Active
<1>2. CASE ~Active
  BY <1>1, <1>2 DEF Next, Handlers, vars, ram, Active, StartSession, HandleChallenge,
     ReceiveManifest, HandleManifest, BeginDownload, ReceiveChunk, HandleFwChunk,
     HandleCommit, HandleNack, UnknownPacket, PowerFailure, Reset, StackOverrun,
     ResetDuringErase, ResetDuringWrite, Refuse, Restart
<1>3. CASE Active /\ UNCHANGED <<state, current_manifest, verdict>>
  BY <1>3 DEF VerdictIsImageHash
<1>4. ASSUME Active, state = "DOWNLOADING",
             NEW i \in ChunkIndexes(current_manifest), StoreChunk(current_manifest, i)
      PROVE  verdict' = "match" <=> ImageMatches(current_manifest')
  <2>1. UNCHANGED <<current_manifest, target_address>>
    BY <1>4 DEF StoreChunk
  <2>2. verdict' = IF HashFirmware(flash', target_address, current_manifest.fw_size)
                      = current_manifest.fw_hash
                   THEN "match" ELSE "mismatch"
    BY <1>4 DEF StoreChunk, CountChunk
  <2>3. (IInv /\ state = "VERIFYING" /\ Trackable(current_manifest) =>
           HashFirmware(flash, target_address, current_manifest.fw_size)
             = XorLanes(current_manifest.image, current_manifest.fw_size))'
    BY ImageRead, PTL
  <2>4. QED
    BY <2>1, <2>2, <2>3 DEF ImageMatches
<1>5. QED
  BY <1>1, <1>2, <1>3, <1>4, ActiveSteps

\* The verdict of the verification is that of the published image, although it
\* is taken from the flash.
THEOREM VerdictCorrect == Spec => []VerdictIsImageHash
<1>1. Init => VerdictIsImageHash
  BY DEF Init, VerdictIsImageHash
<1>2. IInv /\ IInv' /\ VerdictIsImageHash /\ [Next]_vars => VerdictIsImageHash'
  BY VerdictStep
<1>3. QED
  BY <1>1, <1>2, Invariant, PTL DEF Spec

\* From the manifest to the commit, the key, the nonce base, the manifest and
\* the target do not change.
THEOREM BindingKept == Spec => SessionBinding
<1>1. IInv /\ [Next]_vars =>
        [Active /\ Active' =>
           UNCHANGED <<session_key, nonce_base, current_manifest, expected_chunks,
                       target_address>>]_vars
  BY ActiveSteps DEF StoreChunk
<1>2. QED
  BY <1>1, Invariant, PTL DEF Spec, SessionBinding

LEMMA SmallModulo ==
  ASSUME NEW x \in Nat, NEW m \in Nat, x < m
  PROVE  x % m = x
OBVIOUS

\* Only a NACK ends a session in ERROR.
LEMMA OnlyNackKills == [Next]_vars /\ ~HandleNack /\ state' = "ERROR" => state = "ERROR"
<1> SUFFICES ASSUME [Next]_vars, ~HandleNack, state' = "ERROR" PROVE state = "ERROR"
  OBVIOUS
<1>1. ASSUME NEW err, Refuse(err) PROVE state = "ERROR"
  BY <1>1 DEF Refuse, ram
<1>2. ASSUME NEW cause, Restart(cause) PROVE FALSE
  BY <1>2 DEF Restart
<1>3. CASE StartSession \/ (\E key \in Keys : HandleChallenge(key))
  BY <1>1, <1>3 DEF StartSession, HandleChallenge
<1>4. CASE ReceiveManifest
  BY <1>1, <1>4 DEF ReceiveManifest, HandleManifest, BeginDownload
<1>5. CASE ReceiveChunk
  BY <1>1, <1>5 DEF ReceiveChunk, HandleFwChunk, StoreChunk, CountChunk
<1>6. CASE HandleCommit \/ UnknownPacket
  BY <1>1, <1>2, <1>6 DEF HandleCommit, UnknownPacket
<1>7. CASE PowerFailure
  BY <1>2, <1>7 DEF PowerFailure, Reset, StackOverrun, ResetDuringErase, ResetDuringWrite
<1>8. CASE UNCHANGED vars
  BY <1>8 DEF vars, ram
<1> QED
  BY <1>3, <1>4, <1>5, <1>6, <1>7, <1>8 DEF Next, Handlers

\* A NACK that the session outlives spends one of the budget.
LEMMA NackSpends ==
  ASSUME TypeOK, BudgetLeft, HandleNack, CountNack
  PROVE  BudgetLeft'
<1>1. CASE state' = "ERROR"
  <2>1. survived' = 0
    BY <1>1 DEF CountNack
  <2> QED
    BY <2>1 DEF BudgetLeft
<1>2. CASE state' # "ERROR"
  <2>1. survived' = survived + 1
    BY <1>2 DEF CountNack
  <2>2. survived \in Nat /\ retry_count \in Nat /\ RetryMod \in Nat /\ RetryMod > MaxRetry
    BY ContextAssumption DEF BudgetLeft, TypeOK
  <2>3. retry_count' = (retry_count + 1) % RetryMod /\ ~(retry_count' >= MaxRetry)
    BY <1>2 DEF HandleNack
  <2>4. retry_count' \in Nat
    BY <2>2, <2>3 DEF MaxRetry
  <2>5. CASE survived = 0
    BY <1>2, <2>1, <2>2, <2>3, <2>4, <2>5 DEF BudgetLeft, MaxRetry
  <2>6. CASE survived > 0
    <3>1. retry_count < MaxRetry /\ survived <= retry_count + 1
      BY <2>6 DEF BudgetLeft
    <3>2. retry_count + 1 \in Nat /\ retry_count + 1 < RetryMod
      BY <2>2, <3>1 DEF MaxRetry
    <3>3. retry_count' = retry_count + 1
      BY <2>2, <2>3, <3>2, SmallModulo
    <3> QED
      BY <1>2, <2>1, <2>2, <2>3, <2>4, <3>1, <3>3 DEF BudgetLeft, MaxRetry
  <2> QED
    BY <2>2, <2>5, <2>6
<1> QED
  BY <1>1, <1>2

LEMMA NackStep ==
  ASSUME TypeOK, BudgetLeft, [HistoryNext]_historyVars
  PROVE  BudgetLeft'
<1>1. CASE UNCHANGED historyVars
  BY <1>1 DEF historyVars, vars, ram, BudgetLeft
<1>2. CASE HistoryNext /\ HandleNack
  BY <1>2, NackSpends DEF HistoryNext
<1>3. CASE HistoryNext /\ ~HandleNack
  <2>1. CASE retry_count' # retry_count
    <3>1. survived' = 0
      BY <1>3, <2>1 DEF HistoryNext, CountNack
    <3> QED
      BY <3>1 DEF BudgetLeft
  <2>2. CASE retry_count' = retry_count
    <3>1. survived' = survived
      BY <1>3, <2>2 DEF HistoryNext, CountNack
    <3>2. state' = "ERROR" => state = "ERROR"
      BY <1>3, OnlyNackKills DEF HistoryNext
    <3> QED
      BY <2>2, <3>1, <3>2 DEF BudgetLeft
  <2> QED
    BY <2>1, <2>2
<1> QED
  BY <1>1, <1>2, <1>3

\* A session outlives at most MaxRetry NACKs, whatever number an over-long manifest
\* leaves in the counter, and although the counter wraps (handle_nack, handle_manifest).
THEOREM NackBudgetKept == HistorySpec => []NackBudget
<1>1. HistoryInit => Init /\ BudgetLeft
  BY DEF HistoryInit, BudgetLeft
<1>2. [HistoryNext]_historyVars => [Next]_vars
  BY DEF HistoryNext, historyVars
<1>3. TypeOK /\ BudgetLeft /\ [HistoryNext]_historyVars => BudgetLeft'
  BY NackStep
<1>4. TypeOK /\ BudgetLeft => NackBudget
  BY DEF TypeOK, BudgetLeft, NackBudget, MaxRetry
<1>5. Init => TypeOK /\ Bound
  BY InitTyped
<1>6. TypeOK /\ Bound /\ [Next]_vars => (TypeOK /\ Bound)'
  BY NextTyped
<1>7. QED
  BY <1>1, <1>2, <1>3, <1>4, <1>5, <1>6, PTL DEF HistorySpec

----------------------------------------------------------------------------
(* The handler implements the staging of an image *)

stagingVars == <<StagingPhase, StagingFirmware, StagingHave, StagingVerdict>>

\* What is not a download is staging's initial state, which can always be returned to.
LEMMA AbandonStep == ~Tracked' => Staging!Abandon
BY DEF Staging!Abandon, StagingPhase, StagingFirmware, StagingHave, StagingVerdict

\* A download's firmware begins to be collected.
LEMMA BeginStep ==
  ASSUME NEW fw \in Firmwares, state = "WAIT_MANIFEST", BeginDownload(fw), Tracked'
  PROVE  Staging!Begin(fw)
<1>1. ~Tracked
  BY DEF Tracked, Active
<1>2. /\ current_manifest' = fw /\ accepted' = {} /\ verdict' = "none"
      /\ state' \in {"DOWNLOADING", state}
  BY DEF BeginDownload
<1>3. state' = "DOWNLOADING"
  BY <1>2 DEF Tracked, Active
<1>4. QED
  BY <1>1, <1>2, <1>3
     DEF Staging!Begin, StagingPhase, StagingFirmware, StagingHave, StagingVerdict

\* A chunk accepted is one that was missing; the last one ends the collection,
\* with the verdict of the published image.
LEMMA CollectStep ==
  ASSUME IInv, IInv', VerdictIsImageHash', Tracked, Tracked', state = "DOWNLOADING",
         NEW i \in ChunkIndexes(current_manifest), StoreChunk(current_manifest, i)
  PROVE  Staging!Collect \/ UNCHANGED stagingVars
<1> DEFINE fw == current_manifest
           n == PaddedLen(ChunkLen(fw, i))
<1>1. UNCHANGED <<current_manifest, expected_chunks, target_address>> /\ fw \in Firmwares
  BY DEF StoreChunk, IInv, Bound, Tracked
<1>2. CASE UNCHANGED <<state, accepted, verdict>>
  BY <1>1, <1>2 DEF stagingVars, StagingPhase, StagingFirmware, StagingHave, StagingVerdict
<1>3. CASE Programs(i, n) /\ CountChunk(fw, i)
  <2>1. i \in ChunkIndexes(fw) /\ i \notin accepted
    BY <1>3, NotTwice DEF IInv, Tracked, Trackable
  <2>2. /\ accepted' = accepted \cup {i}
        /\ state' = IF received_chunks' >= expected_chunks THEN "VERIFYING" ELSE state
        /\ state' # "VERIFYING" => UNCHANGED verdict
        /\ state' = "VERIFYING" => verdict' \in {"match", "mismatch"}
    BY <1>3 DEF CountChunk
  <2>3. /\ accepted' \subseteq ChunkIndexes(fw)
        /\ received_chunks' = Cardinality(accepted')
        /\ expected_chunks = fw.total_chunks
    BY <1>1 DEF IInv, Bound, CountIsExact, Tracked
  <2>4. received_chunks' >= expected_chunks <=> accepted' = ChunkIndexes(fw)
    <3>1. /\ Cardinality(accepted') \in Nat
          /\ Cardinality(accepted') <= fw.total_chunks
          /\ Cardinality(accepted') = fw.total_chunks => accepted' = ChunkIndexes(fw)
          /\ Cardinality(ChunkIndexes(fw)) = fw.total_chunks
      BY <1>1, <2>3, FiniteIndexes
    <3>2. fw.total_chunks \in Nat
      BY <1>1, FirmwareAssumption
    <3> HIDE DEF fw
    <3>3. QED
      BY <2>3, <3>1, <3>2
  <2>5. state' = "VERIFYING" => (verdict' = "match" <=> ImageMatches(fw))
    BY <1>1 DEF VerdictIsImageHash, Tracked
  <2>6. /\ StagingPhase = "collecting"
        /\ StagingFirmware = fw /\ StagingFirmware' = fw
        /\ StagingHave = accepted /\ StagingHave' = accepted'
        /\ StagingVerdict = verdict /\ StagingVerdict' = verdict'
        /\ StagingPhase' = IF state' = "DOWNLOADING" THEN "collecting" ELSE "staged"
    BY <1>1 DEF StagingPhase, StagingFirmware, StagingHave, StagingVerdict
  <2> HIDE DEF fw
  <2>7. CASE accepted' = ChunkIndexes(fw)
    <3>1. state' = "VERIFYING" /\ verdict' = IF ImageMatches(fw) THEN "match" ELSE "mismatch"
      BY <2>2, <2>4, <2>5, <2>7
    <3>2. QED
      BY <2>1, <2>2, <2>6, <2>7, <3>1 DEF Staging!Collect
  <2>8. CASE accepted' # ChunkIndexes(fw)
    <3>1. state' = "DOWNLOADING" /\ verdict' = verdict
      BY <2>2, <2>4, <2>8
    <3>2. QED
      BY <2>1, <2>2, <2>6, <2>8, <3>1 DEF Staging!Collect
  <2>9. QED
    BY <2>7, <2>8
<1>4. QED
  BY <1>2, <1>3 DEF StoreChunk, WriteStops, WriteResult, Programs

\* A download that is tracked starts with BeginDownload.
LEMMA TrackedFrom ==
  ASSUME IInv, [Next]_vars, ~Active, Active'
  PROVE  \E fw \in Firmwares : state = "WAIT_MANIFEST" /\ BeginDownload(fw)
BY DEF Next, Handlers, vars, ram, Active, StartSession, HandleChallenge,
   ReceiveManifest, HandleManifest, ReceiveChunk, HandleFwChunk,
   HandleCommit, HandleNack, UnknownPacket, PowerFailure, Reset, StackOverrun,
   ResetDuringErase, ResetDuringWrite, Refuse, Restart

LEMMA StagingStep ==
  ASSUME IInv, IInv', VerdictIsImageHash', [Next]_vars
  PROVE  Staging!Next \/ UNCHANGED stagingVars
<1>1. CASE ~Tracked'
  BY <1>1, AbandonStep DEF Staging!Next
<1>2. CASE Tracked' /\ ~Active
  <2>1. PICK fw \in Firmwares : state = "WAIT_MANIFEST" /\ BeginDownload(fw)
    BY <1>2, TrackedFrom DEF Tracked
  <2>2. Staging!Begin(fw)
    BY <1>2, <2>1, BeginStep
  <2>3. QED
    BY <2>2 DEF Staging!Next
<1>3. CASE Tracked' /\ Active
  <2>1. current_manifest' = current_manifest /\ Tracked
    BY <1>3, ActiveSteps DEF StoreChunk, Tracked
  <2>2. CASE UNCHANGED <<state, current_manifest, accepted, verdict>>
    BY <2>2 DEF stagingVars, StagingPhase, StagingFirmware, StagingHave, StagingVerdict,
                Tracked, Active
  <2>3. ASSUME state = "DOWNLOADING",
               NEW i \in ChunkIndexes(current_manifest), StoreChunk(current_manifest, i)
        PROVE  Staging!Next \/ UNCHANGED stagingVars
    BY <1>3, <2>1, <2>3, CollectStep DEF Staging!Next
  <2>4. QED
    BY <1>3, <2>2, <2>3, ActiveSteps DEF Tracked
<1>4. QED
  BY <1>1, <1>2, <1>3

\* The handler, with its flash, its packets in any order and its resets,
\* implements the staging of a firmware of which each chunk is collected once.
THEOREM StagingImplemented == Spec => ImplementsStaging
<1>1. Init => Staging!Init
  BY DEF Init, Staging!Init, StagingPhase, StagingFirmware, StagingHave, StagingVerdict,
         Tracked, Active
<1>2. IInv /\ IInv' /\ VerdictIsImageHash' /\ [Next]_vars
        => [Staging!Next]_(Staging!staging)
  BY StagingStep DEF Staging!staging, stagingVars
<1>3. QED
  BY <1>1, <1>2, Invariant, VerdictCorrect, PTL
     DEF Spec, ImplementsStaging, Staging!Spec
============================================================================
