----------------------------- MODULE OtaHandler -----------------------------
(***************************************************************************)
(* The OTA state machine of the node application (ota_handler.c), on top   *)
(* of the flash driver and the cryptographic port (crypto_port.c).         *)
(*                                                                         *)
(* The handlers run one after another in the application's main loop, so   *)
(* each is one action; a reset may come between two of them or in the      *)
(* middle of the two that work on the flash.  The RAM context is lost in a *)
(* reset, the flash is not.                                                *)
(*                                                                         *)
(* The peer is not constrained: any packet of the sets below may arrive at *)
(* any time, so packets are lost, repeated, reordered, replayed from an    *)
(* earlier session and damaged.  What it cannot do is seal a packet under  *)
(* a key or a nonce other than the one the packet names.                   *)
(***************************************************************************)
EXTENDS FlashDriver, FiniteSets

CONSTANTS
  Firmwares,        \* the firmwares a server may have published
  Keys,             \* session keys the challenge may lead to
  Nonces,           \* nonce bases manifests carry
  NoKey,            \* the zeroed key of a fresh context
  ZeroNonce,        \* the zeroed nonce base of a fresh context
  NoManifest,       \* current_manifest zeroed, or overwritten by a failed decryption
  SecurityCounter,  \* get_security_counter()
  InactiveSlot,     \* get_inactive_slot_address(), as a cell
  HashLanes,        \* lanes of the XOR checksum (16 half-words)
  RetryMod,         \* retry_count is modulo this (256)
  Strays,           \* numbers an over-long manifest may leave behind current_manifest
  InitialFlash      \* what the flash may hold at the first power-on

VARIABLES
  state,             \* ota_state_t
  session_key,
  nonce_base,
  current_manifest,
  expected_chunks,
  received_chunks,
  bytes_written,     \* in cells
  target_address,    \* in cells
  retry_count,
  result,            \* what the last call returned
  reset_cause,       \* why the node last started: "power" or "software"
  flash,
  accepted,          \* history: chunks written without an error since the manifest
  verdict            \* history: how the image compared with the manifest's hash

ram == <<state, session_key, nonce_base, current_manifest, expected_chunks,
         received_chunks, bytes_written, target_address, retry_count>>
vars == <<ram, result, reset_cause, flash, accepted, verdict>>

MaxRetry == 3

States == {"IDLE", "HANDSHAKE", "WAIT_MANIFEST", "DOWNLOADING", "VERIFYING", "ERROR"}

Results == {"OK", "INVALID_STATE", "DECRYPT_FAILED", "INVALID_MANIFEST",
            "VERSION_ROLLBACK", "CHUNK_MISSING", "HASH_MISMATCH", "FLASH_ERASE",
            "FLASH_WRITE", "NOT_SUPPORTED", "CONNECTION_LOST"}

----------------------------------------------------------------------------
(* Firmwares, manifests and packets *)

\* A firmware fw is its manifest and its image:
\*   fw.valid             magic and format_version are the expected ones
\*   fw.security_version
\*   fw.fw_size           in cells
\*   fw.chunk_size        in cells
\*   fw.total_chunks
\*   fw.fw_hash
\*   fw.nonce_base
\*   fw.image             the cell at each offset 0 .. fw_size - 1
ChunkIndexes(fw) == 0 .. fw.total_chunks - 1

\* The number of cells chunk i carries: chunk_size, and what is left for the last.
ChunkLen(fw, i) ==
  IF (i + 1) * fw.chunk_size <= fw.fw_size
  THEN fw.chunk_size ELSE fw.fw_size - i * fw.chunk_size

ChunkOffset(fw, i) == i * fw.chunk_size

ChunkData(fw, i) == [j \in 0 .. ChunkLen(fw, i) - 1 |-> fw.image[ChunkOffset(fw, i) + j]]

ASSUME FirmwareAssumption ==
  \A fw \in Firmwares :
    /\ fw.valid \in BOOLEAN
    /\ fw.security_version \in Nat
    /\ fw.fw_size \in Nat
    /\ fw.chunk_size \in Nat \ {0}
    /\ fw.total_chunks \in Nat
    /\ fw.nonce_base \in Nonces
    /\ fw.image \in [0 .. fw.fw_size - 1 -> Values]
    \* total_chunks is fw_size / chunk_size rounded up
    /\ fw.fw_size <= fw.total_chunks * fw.chunk_size
    /\ \A i \in ChunkIndexes(fw) : i * fw.chunk_size < fw.fw_size

\* The server draws the nonce base of every manifest at random.
ASSUME NonceAssumption ==
  \A fw, other \in Firmwares : fw.nonce_base = other.nonce_base => fw = other

ASSUME ContextAssumption ==
  /\ NoKey \notin Keys
  /\ ZeroNonce \notin Nonces
  /\ NoManifest \notin Firmwares
  /\ SecurityCounter \in Nat
  /\ InactiveSlot \in Nat
  /\ HashLanes \in Nat \ {0}
  /\ RetryMod \in Nat /\ RetryMod > MaxRetry
  /\ Strays \subseteq Nat
  /\ InitialFlash \subseteq FlashContents

----------------------------------------------------------------------------
(* crypto_port.c *)

\* The XOR checksum over an image of size cells.  A lane is represented by the
\* set of non-zero values it has met an odd number of times: values cancel in
\* pairs, their order is lost and zeros leave no trace.
XorLanes(image, size) ==
  [lane \in 0 .. HashLanes - 1 |->
    {v \in Values \ {Zero} :
       Cardinality({o \in 0 .. size - 1 :
         o % HashLanes = lane /\ image[o] = v}) % 2 = 1}]

\* Slip: the last cell is left out.
HashFirmware_Short(f, start, size) ==
  XorLanes([o \in 0 .. size - 1 |-> ReadCell(f, start + o)], size - 1)

HashFirmware(f, start, size) ==
  XorLanes([o \in 0 .. size - 1 |-> ReadCell(f, start + o)], size)

\* ASCON opens a chunk sealed under the key it was given and the nonce
\* nonce_base || counter, with the index and the chunk count it was given as
\* associated data, if nothing was damaged on the way.
ChunkOpens(fw, key, intact) ==
  /\ intact
  /\ key = session_key
  /\ fw.nonce_base = nonce_base
  /\ fw.total_chunks = expected_chunks

\* A sealed manifest has no associated data; its nonce is the context's nonce_base.
ManifestOpens(key, nonce, intact) == intact /\ key = session_key /\ nonce = nonce_base

----------------------------------------------------------------------------
(* ota_handler_init, and the resets that lead to it *)

Init ==
  /\ state = "IDLE"
  /\ session_key = NoKey
  /\ nonce_base = ZeroNonce
  /\ current_manifest = NoManifest
  /\ expected_chunks = 0
  /\ received_chunks = 0
  /\ bytes_written = 0
  /\ target_address = 0
  /\ retry_count = 0
  /\ result = "OK"
  /\ reset_cause = "power"
  /\ flash \in InitialFlash
  /\ accepted = {}
  /\ verdict = "none"

Restart(cause) ==
  /\ state' = "IDLE"
  /\ session_key' = NoKey
  /\ nonce_base' = ZeroNonce
  /\ current_manifest' = NoManifest
  /\ expected_chunks' = 0
  /\ received_chunks' = 0
  /\ bytes_written' = 0
  /\ target_address' = 0
  /\ retry_count' = 0
  /\ result' = "OK"
  /\ reset_cause' = cause
  /\ accepted' = {}
  /\ verdict' = "none"

Reset == Restart("power") /\ UNCHANGED flash

----------------------------------------------------------------------------
(* The handlers.  A handler that refuses a packet leaves everything alone. *)

Refuse(err) ==
  /\ result' = err
  /\ UNCHANGED <<ram, reset_cause, flash, accepted, verdict>>

StartSession ==
  \/ state # "IDLE" /\ Refuse("INVALID_STATE")
  \/ /\ state = "IDLE"
     /\ state' = "HANDSHAKE"
     /\ result' = "OK"
     /\ UNCHANGED <<session_key, nonce_base, current_manifest, expected_chunks,
                    received_chunks, bytes_written, target_address, retry_count,
                    reset_cause, flash, accepted, verdict>>

\* The challenge brings the server's public key and a nonce; with the device's
\* private key they give the session key.  The derivation cannot fail.
HandleChallenge(key) ==
  \/ state # "HANDSHAKE" /\ Refuse("INVALID_STATE")
  \/ /\ state = "HANDSHAKE"
     /\ session_key' = key
     /\ state' = "WAIT_MANIFEST"
     /\ result' = "OK"
     /\ UNCHANGED <<nonce_base, current_manifest, expected_chunks, received_chunks,
                    bytes_written, target_address, retry_count,
                    reset_cause, flash, accepted, verdict>>

\* A manifest that passed its checks: the context is set up before the erase,
\* and stays so when the erase fails.
BeginDownload(fw) ==
  /\ current_manifest' = fw
  /\ expected_chunks' = fw.total_chunks
  /\ received_chunks' = 0
  /\ bytes_written' = 0
  /\ target_address' = InactiveSlot
  /\ nonce_base' = fw.nonce_base
  /\ accepted' = {}
  /\ verdict' = "none"
  /\ \E n \in 0 .. NbPages(fw.fw_size) :
       /\ EraseStops(InactiveSlot, fw.fw_size, n)
       /\ flash' = PagesErased(flash, InactiveSlot, n)
       /\ result' = EraseResult(InactiveSlot, fw.fw_size, n)
       /\ state' = IF result' = "OK" THEN "DOWNLOADING" ELSE state
  /\ UNCHANGED <<session_key, reset_cause>>

\* An encrypted manifest is decrypted over current_manifest before its tag is
\* checked and whatever its length: one that is too long goes on over the first
\* n of the fields behind it, in the order of ota_context_t.  (last_error, which
\* only a failed key exchange sets, is not kept.)
Behind == 5

OverrunProgress(n) ==
  /\ expected_chunks' \in IF n > 0 THEN Strays ELSE {expected_chunks}
  /\ received_chunks' \in IF n > 1 THEN Strays ELSE {received_chunks}
  /\ bytes_written' \in IF n > 2 THEN Strays ELSE {bytes_written}
  /\ target_address' \in IF n > 3 THEN Strays ELSE {target_address}

OverrunRetry(n) ==
  retry_count' \in IF n = Behind THEN 0 .. RetryMod - 1 ELSE {retry_count}

\* Slip: a manifest is taken in any state.
HandleManifest_AnyState(fw, opens) ==
  /\ opens /\ fw.valid /\ fw.security_version >= SecurityCounter
  /\ BeginDownload(fw)
  /\ UNCHANGED retry_count

\* What a refused manifest leaves in current_manifest and behind it stays there;
\* one that is taken sets all it needs but retry_count.  The signature check
\* always passes.
HandleManifest(fw, opens) ==
  \/ state # "WAIT_MANIFEST" /\ Refuse("INVALID_STATE")
  \/ /\ state = "WAIT_MANIFEST"
     /\ \E n \in 0 .. Behind :
          /\ OverrunProgress(n) /\ OverrunRetry(n)
          /\ \/ /\ ~opens
                /\ \/ current_manifest' = NoManifest
                   \/ n = 0 /\ UNCHANGED current_manifest
                /\ result' = "DECRYPT_FAILED"
             \/ /\ opens /\ ~fw.valid
                /\ current_manifest' = fw
                /\ result' = "INVALID_MANIFEST"
             \/ /\ opens /\ fw.valid /\ fw.security_version < SecurityCounter
                /\ current_manifest' = fw
                /\ result' = "VERSION_ROLLBACK"
     /\ UNCHANGED <<state, session_key, nonce_base, reset_cause, flash, accepted, verdict>>
  \/ /\ state = "WAIT_MANIFEST"
     /\ opens /\ fw.valid /\ fw.security_version >= SecurityCounter
     /\ BeginDownload(fw)
     /\ \E n \in {0, Behind} : OverrunRetry(n)

\* Slip: offsets from the start of the flash.
WriteAddress_NoBase(i) == i * current_manifest.chunk_size

WriteAddress(i) == target_address + i * current_manifest.chunk_size

\* Slips: the download ends one chunk early, or waits for one more than there are.
CountChunk_Early(fw, i) ==
  /\ received_chunks' = received_chunks + 1
  /\ bytes_written' = bytes_written + ChunkLen(fw, i)
  /\ accepted' = accepted \cup {i}
  /\ state' = IF received_chunks' + 1 >= expected_chunks THEN "VERIFYING" ELSE state
  /\ result' = "OK"
  /\ UNCHANGED verdict

CountChunk_Late(fw, i) ==
  /\ received_chunks' = received_chunks + 1
  /\ bytes_written' = bytes_written + ChunkLen(fw, i)
  /\ accepted' = accepted \cup {i}
  /\ state' = IF received_chunks' > expected_chunks THEN "VERIFYING" ELSE state
  /\ result' = "OK"
  /\ UNCHANGED verdict

\* A chunk whose write went through: nothing records which chunk it was.  The
\* last one expected ends the download before its hash is compared.  received_chunks
\* cannot wrap: it stays below expected_chunks, both uint16_t.
CountChunk(fw, i) ==
  /\ received_chunks' = received_chunks + 1
  /\ bytes_written' = bytes_written + ChunkLen(fw, i)
  /\ accepted' = accepted \cup {i}
  /\ IF received_chunks' >= expected_chunks
     THEN /\ state' = "VERIFYING"
          /\ verdict' = IF HashFirmware(flash', target_address, current_manifest.fw_size)
                           = current_manifest.fw_hash
                        THEN "match" ELSE "mismatch"
          /\ result' = IF verdict' = "match" THEN "OK" ELSE "HASH_MISMATCH"
     ELSE /\ result' = "OK"
          /\ UNCHANGED <<state, verdict>>

\* Slip: a chunk is counted before flash_write's result is looked at.
StoreChunk_CountFirst(fw, i) ==
  /\ \E n \in 0 .. PaddedLen(ChunkLen(fw, i)) :
       /\ WriteStops(flash, WriteAddress(i), ChunkData(fw, i), ChunkLen(fw, i), n)
       /\ flash' = CellsWritten(flash, WriteAddress(i), ChunkData(fw, i), ChunkLen(fw, i), n)
       /\ CountChunk(fw, i)
  /\ UNCHANGED <<session_key, nonce_base, current_manifest, expected_chunks,
                 target_address, retry_count, reset_cause>>

StoreChunk(fw, i) ==
  /\ \E n \in 0 .. PaddedLen(ChunkLen(fw, i)) :
       /\ WriteStops(flash, WriteAddress(i), ChunkData(fw, i), ChunkLen(fw, i), n)
       /\ flash' = CellsWritten(flash, WriteAddress(i), ChunkData(fw, i), ChunkLen(fw, i), n)
       /\ \/ /\ WriteResult(ChunkLen(fw, i), n) = "OK"
             /\ CountChunk(fw, i)
          \/ /\ WriteResult(ChunkLen(fw, i), n) # "OK"
             /\ result' = WriteResult(ChunkLen(fw, i), n)
             /\ UNCHANGED <<state, received_chunks, bytes_written, accepted, verdict>>
  /\ UNCHANGED <<session_key, nonce_base, current_manifest, expected_chunks,
                 target_address, retry_count, reset_cause>>

\* chunk_size, which is not compared with the buffer the chunk is decrypted into,
\* is that of the packet's payload here: see StackOverrun.
HandleFwChunk(fw, i, opens) ==
  \/ state # "DOWNLOADING" /\ Refuse("INVALID_STATE")
  \/ state = "DOWNLOADING" /\ i >= expected_chunks /\ Refuse("CHUNK_MISSING")
  \/ /\ state = "DOWNLOADING" /\ i < expected_chunks /\ ~opens
     /\ Refuse("DECRYPT_FAILED")
  \/ /\ state = "DOWNLOADING" /\ i < expected_chunks /\ opens
     /\ StoreChunk(fw, i)

\* commit_update writes no metadata yet and succeeds; the node then resets itself.
HandleCommit ==
  \/ state # "VERIFYING" /\ Refuse("INVALID_STATE")
  \/ state = "VERIFYING" /\ Restart("software") /\ UNCHANGED flash

\* Slips: the error comes one NACK late; the counter is wider than uint8_t.
HandleNack_Late ==
  /\ retry_count' = (retry_count + 1) % RetryMod
  /\ IF retry_count' > MaxRetry
     THEN state' = "ERROR" /\ result' = "CONNECTION_LOST"
     ELSE state' = state /\ result' = "OK"
  /\ UNCHANGED <<session_key, nonce_base, current_manifest, expected_chunks,
                 received_chunks, bytes_written, target_address,
                 reset_cause, flash, accepted, verdict>>

HandleNack_Wide ==
  /\ retry_count' = retry_count + 1
  /\ state' = "ERROR" /\ result' = "CONNECTION_LOST"
  /\ UNCHANGED <<session_key, nonce_base, current_manifest, expected_chunks,
                 received_chunks, bytes_written, target_address,
                 reset_cause, flash, accepted, verdict>>

HandleNack ==
  /\ retry_count' = (retry_count + 1) % RetryMod
  /\ IF retry_count' >= MaxRetry
     THEN state' = "ERROR" /\ result' = "CONNECTION_LOST"
     ELSE state' = state /\ result' = "OK"
  /\ UNCHANGED <<session_key, nonce_base, current_manifest, expected_chunks,
                 received_chunks, bytes_written, target_address,
                 reset_cause, flash, accepted, verdict>>

\* SESSION_KEY, FW_VERIFY, ROLLBACK, REBOOT ...: the switch has no case for them.
UnknownPacket == Refuse("NOT_SUPPORTED")

----------------------------------------------------------------------------
(* Power failures in the middle of the two handlers that work on the flash *)

ResetDuringErase(fw) ==
  /\ state = "WAIT_MANIFEST"
  /\ fw.valid /\ fw.security_version >= SecurityCounter
  /\ \E n \in 0 .. NbPages(fw.fw_size) :
       /\ Aligned(InactiveSlot)
       /\ flash' = PagesErased(flash, InactiveSlot, n)
  /\ Restart("power")

ResetDuringWrite(fw, i, opens) ==
  /\ state = "DOWNLOADING"
  /\ i < expected_chunks /\ opens
  /\ \E n \in 0 .. PaddedLen(ChunkLen(fw, i)) :
       /\ CanProgram(flash, WriteAddress(i), ChunkData(fw, i), ChunkLen(fw, i), n)
       /\ flash' = CellsWritten(flash, WriteAddress(i), ChunkData(fw, i), ChunkLen(fw, i), n)
  /\ Restart("power")

\* A chunk packet whose chunk_size is more than its payload holds is decrypted,
\* before its tag is checked, past the 1024 bytes kept for it on the stack.  What
\* the build does then is undefined; here it refuses the packet as any other, or
\* ends in a fault handler, an endless loop that only a power failure leaves.
StackOverrun ==
  /\ state = "DOWNLOADING" /\ expected_chunks > 0
  /\ Reset

----------------------------------------------------------------------------
(* The packets that may arrive: plain or sealed manifests, sealed chunks, of any *)
(* firmware, under any key and nonce, damaged or not.                           *)

SealedNonces == Nonces \cup {ZeroNonce}

\* Whether a manifest packet can be read: a plain one always can.
ManifestReadings ==
  {TRUE} \cup {ManifestOpens(key, nonce, intact) :
                 key \in Keys, nonce \in SealedNonces, intact \in BOOLEAN}

\* Whether a packet with a chunk of fw can be read.
ChunkReadings(fw) == {ChunkOpens(fw, key, intact) : key \in Keys, intact \in BOOLEAN}

ReceiveManifest ==
  \E fw \in Firmwares, opens \in ManifestReadings : HandleManifest(fw, opens)

ReceiveChunk ==
  \E fw \in Firmwares :
    \E i \in ChunkIndexes(fw), opens \in ChunkReadings(fw) : HandleFwChunk(fw, i, opens)

PowerFailure ==
  \/ Reset
  \/ StackOverrun
  \/ \E fw \in Firmwares : ResetDuringErase(fw)
  \/ \E fw \in Firmwares :
       \E i \in ChunkIndexes(fw), opens \in ChunkReadings(fw) : ResetDuringWrite(fw, i, opens)

\* The calls after which the node goes on running.
Handlers ==
  \/ StartSession
  \/ \E key \in Keys : HandleChallenge(key)
  \/ ReceiveManifest
  \/ ReceiveChunk
  \/ HandleNack
  \/ UnknownPacket

Next == Handlers \/ HandleCommit \/ PowerFailure

Spec == Init /\ [][Next]_vars

\* A peer that keeps going: it starts a session, answers the HELLO, sends a
\* manifest while the node waits for one and every chunk of it during the download.
DeliverManifest(fw) ==
  state = "WAIT_MANIFEST" /\ HandleManifest(fw, TRUE)

DeliverChunk(fw, i) ==
  state = "DOWNLOADING" /\ current_manifest = fw /\ HandleFwChunk(fw, i, TRUE)

PeerFairness ==
  /\ WF_vars(StartSession)
  /\ \A key \in Keys : WF_vars(state = "HANDSHAKE" /\ HandleChallenge(key))
  /\ \A fw \in Firmwares :
       /\ WF_vars(DeliverManifest(fw))
       /\ \A i \in ChunkIndexes(fw) : WF_vars(DeliverChunk(fw, i))

FairSpec == Spec /\ PeerFairness

----------------------------------------------------------------------------
(* Properties *)

\* Every variable has its type.
TypeOK ==
  /\ state \in States
  /\ session_key \in Keys \cup {NoKey}
  /\ nonce_base \in SealedNonces
  /\ current_manifest \in Firmwares \cup {NoManifest}
  /\ expected_chunks \in Nat
  /\ received_chunks \in Nat
  /\ bytes_written \in Nat
  /\ target_address \in Nat
  /\ retry_count \in 0 .. RetryMod - 1
  /\ result \in Results
  /\ reset_cause \in {"power", "software"}
  /\ flash \in FlashContents
  /\ accepted \subseteq Nat
  /\ verdict \in {"none", "match", "mismatch"}

Active == state \in {"DOWNLOADING", "VERIFYING"}

\* Chunks start on word boundaries, so the padding of one never meets the next.
WordAligned(fw) == fw.chunk_size % 2 = 0

\* A chunk that flash refuses to be programmed with a second time.
HasContent(fw, i) ==
  \E j \in 0 .. ChunkLen(fw, i) - 1 : fw.image[ChunkOffset(fw, i) + j] \notin Blank

Trackable(fw) == WordAligned(fw) /\ \A i \in ChunkIndexes(fw) : HasContent(fw, i)

\* While a firmware is downloaded or waits for the commit, every cell of its
\* place in the slot is erased or holds the cell of that firmware's image:
\* nothing of an earlier image, of another session or of a neighbouring chunk
\* (flash_erase_region, the addresses of handle_fw_chunk, flash_write's padding).
SlotHoldsOnlyImage ==
  Active /\ WordAligned(current_manifest) =>
    \A i \in ChunkIndexes(current_manifest) :
      \A j \in 0 .. ChunkLen(current_manifest, i) - 1 :
        WriteAddress(i) + j \in Cells =>
          flash[WriteAddress(i) + j] \in {Erased, ChunkData(current_manifest, i)[j]}

\* handle_fw_chunk keeps a count and no record of which chunks came.  The count
\* is still the number of different chunks written, as long as every chunk has
\* a cell that the flash does not let be programmed twice.
CountIsExact ==
  Active /\ Trackable(current_manifest) => received_chunks = Cardinality(accepted)

\* A download that ended has put every chunk of the image in the slot, and has
\* accounted for exactly its size, in whatever order and however often the
\* chunks came and however many writes failed.
StagedImageComplete ==
  state = "VERIFYING" /\ Trackable(current_manifest) =>
    /\ \A i \in ChunkIndexes(current_manifest) :
         \A j \in 0 .. ChunkLen(current_manifest, i) - 1 :
           ReadCell(flash, WriteAddress(i) + j) = ChunkData(current_manifest, i)[j]
    /\ bytes_written = current_manifest.fw_size

\* The published image has the checksum its manifest announces.
ImageMatches(fw) == XorLanes(fw.image, fw.fw_size) = fw.fw_hash

\* verify_downloaded_firmware, which reads the flash, decides as a comparison
\* of the published image with the manifest's hash would.
VerdictIsImageHash ==
  state = "VERIFYING" /\ Trackable(current_manifest) =>
    (verdict = "match" <=> ImageMatches(current_manifest))

\* No step of the update changes a cell below the inactive slot, where the
\* bootloader, the metadata and the running application are; resets in the
\* middle of an erase or a write included.
RunningSlotUntouched ==
  [][\A c \in Cells : c < InactiveSlot => flash'[c] = flash[c]]_vars

\* From the manifest to the commit, the manifest (which later manifest packets
\* would be decrypted over), the key, the nonce base and the target stay put:
\* every chunk is opened and placed by the manifest that opened the download.
SessionBinding ==
  [][Active /\ Active' =>
       UNCHANGED <<session_key, nonce_base, current_manifest, expected_chunks,
                   target_address>>]_vars

\* The download implements the staging of an image, for every firmware whose
\* repeated chunks the flash refuses.
Tracked == Active /\ Trackable(current_manifest)

StagingPhase ==
  IF ~Tracked THEN "none" ELSE IF state = "DOWNLOADING" THEN "collecting" ELSE "staged"
StagingFirmware == IF Tracked THEN current_manifest ELSE NoManifest
StagingHave == IF Tracked THEN accepted ELSE {}
StagingVerdict == IF Tracked THEN verdict ELSE "none"

Staging == INSTANCE ImageStaging WITH
  None <- NoManifest, Chunks <- ChunkIndexes, Matches <- ImageMatches,
  phase <- StagingPhase, firmware <- StagingFirmware,
  have <- StagingHave, verdict <- StagingVerdict

ImplementsStaging == Staging!Spec

\* A firmware that has chunks, whose chunks stay clear of each other's padding,
\* and that fits the flash.
Deliverable(fw) ==
  /\ fw.total_chunks > 0
  /\ WordAligned(fw) \/ fw.total_chunks = 1
  /\ InactiveSlot + PaddedLen(fw.fw_size) <= FlashCells

Stalled == state = "DOWNLOADING" /\ ~Deliverable(current_manifest)

\* With a peer that keeps going and a flash without faults, a session never
\* stays in the middle unless its manifest announces a firmware that cannot be
\* delivered: one without chunks, past the flash, or with chunks that end inside
\* a word, whose padding makes the flash refuse their neighbours.  It reaches the
\* end of the download, or the NACK budget or a reset ends it; refused
\* repetitions and what an over-long manifest leaves behind do not stop it.
SessionProgress ==
  state \in {"HANDSHAKE", "WAIT_MANIFEST", "DOWNLOADING"}
    ~> state \in {"VERIFYING", "ERROR", "IDLE"} \/ Stalled

----------------------------------------------------------------------------
(* The inductive invariant behind the safety properties *)

\* A manifest is waited for only under a session key, and a download runs under
\* that key and the manifest that opened it.
Bound ==
  /\ state = "WAIT_MANIFEST" => session_key \in Keys
  /\ Active =>
       /\ current_manifest \in Firmwares
       /\ session_key \in Keys
       /\ nonce_base = current_manifest.nonce_base
       /\ expected_chunks = current_manifest.total_chunks
       /\ target_address = InactiveSlot
       /\ accepted \subseteq ChunkIndexes(current_manifest)

\* What was accepted is in the flash.
AcceptedInFlash ==
  Active /\ WordAligned(current_manifest) =>
    \A i \in accepted : \A j \in 0 .. ChunkLen(current_manifest, i) - 1 :
      /\ WriteAddress(i) + j \in Cells
      /\ flash[WriteAddress(i) + j] = ChunkData(current_manifest, i)[j]

\* Every chunk but the last has chunk_size cells.
LastChunk(fw) == fw.total_chunks - 1

BytesAccepted(fw, chunks) ==
  Cardinality(chunks) * fw.chunk_size
    - (IF LastChunk(fw) \in chunks THEN fw.chunk_size - ChunkLen(fw, LastChunk(fw)) ELSE 0)

BytesAreExact ==
  Active /\ Trackable(current_manifest) =>
    bytes_written = BytesAccepted(current_manifest, accepted)

\* The download goes on while chunks are missing in the count, and ends when none is.
EndsAtCount ==
  /\ state = "DOWNLOADING" => received_chunks < expected_chunks \/ received_chunks = 0
  /\ state = "VERIFYING" => received_chunks >= expected_chunks

IInv ==
  /\ TypeOK
  /\ Bound
  /\ SlotHoldsOnlyImage
  /\ AcceptedInFlash
  /\ CountIsExact
  /\ BytesAreExact
  /\ EndsAtCount

----------------------------------------------------------------------------
(* What the documentation and the comments say, and the code does not do *)

Commits == state = "VERIFYING" /\ state' = "IDLE" /\ reset_cause' = "software"

\* docs/technical/checklist.md: the image's hash is found equal to the
\* manifest's before the commit.
CommitOnlyVerified == [][Commits => verdict = "match"]_vars
============================================================================
