----------------------------- MODULE Packaging ------------------------------
(***************************************************************************)
(* The server side of an update: a form packages a firmware (packager_view *)
(* and packager_controller over packet_builder.py), another builds its     *)
(* manifest (manifest_controller over manifest_builder.py).  Each click    *)
(* starts a thread; nothing keeps two packaging threads from writing the   *)
(* same file.                                                              *)
(*                                                                         *)
(* A sealed chunk is a record of what it was sealed under and of its plain *)
(* text; its cipher text is as long as the plain text and the tag.  In a   *)
(* file an integer is one cell and each byte of a sealed chunk is a cell   *)
(* that names the chunk.  A write reaches the file at once.                *)
(***************************************************************************)
EXTENDS Integers, Sequences, FiniteSets

CONSTANTS
  Threads,      \* packaging threads that may run at a time
  Firmwares,    \* contents of firmware files, sequences of bytes
  ChunkSizes,   \* integers the user enters as the chunk size
  Keys,         \* 16-byte keys, entered or drawn
  TagSize,      \* ASCON_TAG_SIZE
  HeaderSize,   \* of a chunk in transit (8)
  MaxU16,       \* the largest "H" of struct.pack (65535)
  MaxDraws      \* bound: nonce bases that are drawn

VARIABLES
  file,         \* the package file at the output path
  shown,        \* used_key_var, the key the tab shows
  log,          \* the last result in the log
  pc, job,      \* of each packaging thread
  drawn,        \* nonce bases drawn: os.urandom never repeats one
  manifests,    \* manifests that were built and saved
  wanted,       \* history: manifests that were asked for
  sealed,       \* history: every chunk that was sealed
  saved,        \* history: the run that alone wrote the package in the file, if any
  overlapped    \* history: since no run was under way, did two overlap?

packVars == <<file, shown, log, pc, job, drawn, manifests, wanted, sealed, saved,
              overlapped>>

ASSUME PackagingAssumption ==
  /\ IsFiniteSet(Threads)
  /\ ChunkSizes \subseteq Int
  /\ TagSize \in Nat /\ HeaderSize \in Nat /\ MaxU16 \in Nat /\ MaxDraws \in Nat
  /\ \A fw \in Firmwares : fw = [p \in 1 .. Len(fw) |-> fw[p]] /\ Len(fw) \in Nat

Least(a, b) == IF a < b THEN a ELSE b
Most(a, b) == IF a < b THEN b ELSE a

----------------------------------------------------------------------------
(* packet_builder.py *)

\* The number of chunks, as manifest_builder, calculate_transfer_time and
\* estimate_transfer compute it.
NumChunks(len, size) == (len + size - 1) \div size

\* PacketBuilder.split_firmware: the parts from 0, size, 2 * size, ... on; there
\* are none if the size is negative.
SplitFirmware(fw, size) ==
  LET starts == {i \in 0 .. Len(fw) - 1 : size > 0 /\ i % size = 0}
  IN [i \in 1 .. Cardinality(starts) |->
        SubSeq(fw, (i - 1) * size + 1, Least(i * size, Len(fw)))]

\* Slip: the nonce is that of the firmware.
ChunkNonce_NoCounter(base, i) == [base |-> base, counter |-> 0]

\* derive_chunk_nonce; bases differ in the twelve bytes that it keeps.
ChunkNonce(base, i) == [base |-> base, counter |-> i]

\* PacketBuilder.encrypt_firmware (and iter_encrypted_chunks): struct.pack needs
\* index and total to fit 16 bits.
Encrypts(fw, size) == size # 0 /\ Len(SplitFirmware(fw, size)) <= MaxU16

EncryptFirmware(fw, key, base, size) ==
  LET chunks == SplitFirmware(fw, size)
  IN [i \in 1 .. Len(chunks) |->
        [key |-> key, nonce |-> ChunkNonce(base, i - 1),
         ad |-> [index |-> i - 1, total |-> Len(chunks)], plain |-> chunks[i]]]

SealedLen(chunk) == Len(chunk.plain) + TagSize

\* FirmwareChunk.to_bytes puts a header before it.
PacketLen(chunk) == HeaderSize + SealedLen(chunk)

\* Slip: the tag is forgotten.
TransferBytes_NoTag(len, size) == NumChunks(len, size) * (size + HeaderSize)

\* calculate_transfer_time, before the overhead and the baud rate.
TransferBytes(len, size) == NumChunks(len, size) * (size + TagSize + HeaderSize)

\* The cells of the file: integers, and the bytes of a chunk.
Int32(n) == [int |-> n]
SealedCells(chunk) == [k \in 1 .. SealedLen(chunk) |-> [of |-> chunk, at |-> k]]

\* What f.write does at the offset of its own file object: a gap is of zeros.
Overwritten(f, offset, cells) ==
  [i \in 1 .. Most(Len(f), offset + Len(cells)) |->
     IF i \in offset + 1 .. offset + Len(cells) THEN cells[i - offset]
     ELSE IF i <= Len(f) THEN f[i] ELSE Int32(0)]

----------------------------------------------------------------------------
(* The packager *)

NoKey == "(will be shown after packaging)"
NoJob == <<>>
NoRun == <<>>

PackInit ==
  /\ file = <<>> /\ shown = NoKey /\ log = "none"
  /\ pc = [t \in Threads |-> "idle"] /\ job = [t \in Threads |-> NoJob]
  /\ drawn = 0
  /\ manifests = {} /\ wanted = {}
  /\ sealed = {} /\ saved = NoRun /\ overlapped = FALSE

Running == {t \in Threads : pc[t] # "idle"}

GoesOn(t, next, newJob) ==
  /\ pc' = [pc EXCEPT ![t] = next]
  /\ job' = [job EXCEPT ![t] = newJob]

\* Slip: the thread leaves its work behind.
Ends_KeepsJob(t, result) == GoesOn(t, "idle", job[t]) /\ log' = result

\* The thread ends with a line in the log.
Ends(t, result) == GoesOn(t, "idle", NoJob) /\ log' = result

manifestVars == <<manifests, wanted>>

\* _package: the file is named at the click, ...
ClickPackage(t, fw) ==
  /\ pc[t] = "idle"
  /\ drawn + Cardinality(Running) < MaxDraws
  /\ GoesOn(t, "key", [fw |-> fw])
  /\ overlapped' = (Running # {})
  /\ UNCHANGED <<file, shown, log, drawn, sealed, saved, manifestVars>>

\* ... the thread resolves the key and shows it, ...
ResolveKey(t) ==
  /\ pc[t] = "key"
  /\ \/ \E key \in Keys : /\ shown' = key
                         /\ GoesOn(t, "encrypt", [fw |-> job[t].fw, key |-> key])
                         /\ UNCHANGED log
     \/ Ends(t, "failed") /\ UNCHANGED shown      \* not 32 hex digits
  /\ UNCHANGED <<file, drawn, sealed, saved, overlapped, manifestVars>>

\* ... package_firmware draws a nonce base and seals all chunks.  A chunk size
\* that is no number or 0, and too many chunks, raise an exception.
Encrypt(t) ==
  /\ pc[t] = "encrypt"
  /\ \/ /\ drawn' = drawn + 1
        /\ \E size \in ChunkSizes :
             IF Encrypts(job[t].fw, size)
             THEN LET chunks == EncryptFirmware(job[t].fw, job[t].key, drawn', size)
                  IN /\ sealed' = sealed \cup {chunks[i] : i \in 1 .. Len(chunks)}
                     /\ GoesOn(t, "open", [fw |-> job[t].fw, key |-> job[t].key,
                                           base |-> drawn', size |-> size,
                                           chunks |-> chunks, done |-> 0, offset |-> 0])
                     /\ UNCHANGED log
             ELSE Ends(t, "failed") /\ UNCHANGED sealed
     \/ Ends(t, "failed") /\ UNCHANGED <<drawn, sealed>>
  /\ UNCHANGED <<file, shown, saved, overlapped, manifestVars>>

\* Slip: the file is opened without being emptied.
OpenFile_KeepsFile(t) ==
  /\ pc[t] = "open"
  /\ saved' = NoRun
  /\ GoesOn(t, "header", job[t])
  /\ UNCHANGED <<file, shown, log, drawn, sealed, overlapped, manifestVars>>

\* open(output_path, "wb") empties the file, whoever is writing it.
OpenFile(t) ==
  /\ pc[t] = "open"
  /\ file' = <<>> /\ saved' = NoRun
  /\ GoesOn(t, "header", job[t])
  /\ UNCHANGED <<shown, log, drawn, sealed, overlapped, manifestVars>>

\* The thread writes cells behind those it wrote before.
Writes(t, cells, chunksDone) ==
  /\ file' = Overwritten(file, job[t].offset, cells)
  /\ GoesOn(t, "chunks", [job[t] EXCEPT !.offset = @ + Len(cells), !.done = chunksDone])

\* A negative chunk size does not fit the header.
WriteHeader(t) ==
  /\ pc[t] = "header"
  /\ IF job[t].size > 0
     THEN Writes(t, <<Int32(Len(job[t].chunks)), Int32(job[t].size)>>, 0) /\ UNCHANGED log
     ELSE Ends(t, "failed") /\ UNCHANGED file
  /\ UNCHANGED <<shown, drawn, sealed, saved, overlapped, manifestVars>>

\* The length of a chunk and the chunk; a length above 16 bits raises an
\* exception, with the header and what came before in the file.
WriteChunk(t) ==
  /\ pc[t] = "chunks" /\ job[t].done < Len(job[t].chunks)
  /\ LET chunk == job[t].chunks[job[t].done + 1]
     IN IF SealedLen(chunk) <= MaxU16
        THEN /\ Writes(t, <<Int32(SealedLen(chunk))>> \o SealedCells(chunk), job[t].done + 1)
             /\ UNCHANGED log
        ELSE Ends(t, "failed") /\ UNCHANGED file
  /\ UNCHANGED <<shown, drawn, sealed, saved, overlapped, manifestVars>>

\* The estimate that follows needs the firmware file again, which may be gone.
PackageSaved(t) ==
  /\ pc[t] = "chunks" /\ job[t].done = Len(job[t].chunks)
  /\ Ends(t, "saved") \/ Ends(t, "failed")
  /\ saved' = IF overlapped THEN NoRun
              ELSE [fw |-> job[t].fw, key |-> job[t].key, base |-> job[t].base,
                    size |-> job[t].size]
  /\ UNCHANGED <<file, shown, drawn, sealed, overlapped, manifestVars>>

\* The application is closed, or fails, and started again: what was not yet
\* flushed of a file that is being written is lost.
Restart ==
  /\ pc' = [t \in Threads |-> "idle"] /\ job' = [t \in Threads |-> NoJob]
  /\ shown' = NoKey /\ log' = "none"
  /\ IF \E t \in Threads : pc[t] \in {"header", "chunks"}
     THEN \E n \in 0 .. Len(file) : file' = SubSeq(file, 1, n) /\ saved' = NoRun
     ELSE UNCHANGED <<file, saved>>
  /\ UNCHANGED <<drawn, sealed, overlapped, manifestVars>>

----------------------------------------------------------------------------
(* The manifest builder *)

\* MANIFEST_FORMAT behind the byte order, as its characters.
MANIFEST_FORMAT ==
  <<"I", "B", "B", "H", "4", "s", "2", "s", "I", "I", "I", "I", "H", "H", "I", "I",
    "3", "2", "s", "1", "6", "s", "6", "4", "s">>

\* What build leaves of it to pack all but the signature: it cuts off the number
\* of "s" in "64s" and the length of "64s".
UnsignedFormat == SubSeq(MANIFEST_FORMAT, 1, Len(MANIFEST_FORMAT) - 1 - 3)

\* struct.pack refuses a count without a type behind it.
WellFormed(format) == format = <<>> \/ format[Len(format)] \in {"I", "B", "H", "s"}

\* build_manifest: the builder draws a nonce base of its own and packs it with
\* the sizes; the manifest is signed and saved if nothing raises an exception.
BuildManifest(fw, size) ==
  /\ drawn + Cardinality(Running) < MaxDraws
  /\ drawn' = drawn + 1
  /\ LET manifest == [fw |-> fw, size |-> size, base |-> drawn']
     IN /\ wanted' = wanted \cup {manifest}
        /\ manifests' = IF /\ WellFormed(UnsignedFormat)
                           /\ size \in 1 .. MaxU16 /\ NumChunks(Len(fw), size) <= MaxU16
                        THEN manifests \cup {manifest} ELSE manifests
  /\ UNCHANGED <<file, shown, log, pc, job, sealed, saved, overlapped>>

PackagerStep(t) ==
  \/ ResolveKey(t) \/ Encrypt(t) \/ OpenFile(t)
  \/ WriteHeader(t) \/ WriteChunk(t) \/ PackageSaved(t)

PackNext ==
  \/ \E t \in Threads : PackagerStep(t) \/ \E fw \in Firmwares : ClickPackage(t, fw)
  \/ \E fw \in Firmwares, size \in ChunkSizes : BuildManifest(fw, size)
  \/ Restart

PackSpec == PackInit /\ [][PackNext]_packVars

----------------------------------------------------------------------------
(* Properties *)

PackTypeOK ==
  /\ shown \in Keys \cup {NoKey} /\ log \in {"none", "saved", "failed"}
  /\ drawn \in 0 .. MaxDraws
  /\ \A t \in Threads :
       /\ pc[t] \in {"idle", "key", "encrypt", "open", "header", "chunks"}
       /\ pc[t] = "idle" <=> job[t] = NoJob
  /\ overlapped \in BOOLEAN

\* The integer at a place of a file, as a reader takes it.
IntAt(f, p) == IF p \in 1 .. Len(f) /\ "int" \in DOMAIN f[p] THEN f[p].int ELSE 0

\* Where the length of each chunk is, and behind the last chunk: one leads to the
\* next.
Places(f, total) ==
  LET at[i \in 1 .. total + 1] == IF i = 1 THEN 3 ELSE at[i - 1] + 1 + IntAt(f, at[i - 1])
  IN at

\* A reader of the documented format who has the key: the lengths lead from
\* chunk to chunk to the end of the file, chunk i opens under the i-th nonce of
\* one base and as the i-th of all, and the firmware is found at its place.
ReadsBack(f, key, fw) ==
  LET total == IntAt(f, 1)
      size  == IntAt(f, 2)
      at == Places(f, total)
      Opens(base, i, chunk) ==
        /\ SubSeq(f, at[i] + 1, at[i + 1] - 1) = SealedCells(chunk)
        /\ chunk.key = key /\ chunk.nonce = ChunkNonce(base, i - 1)
        /\ chunk.ad = [index |-> i - 1, total |-> total]
        /\ \A k \in 1 .. Len(chunk.plain) : chunk.plain[k] = fw[(i - 1) * size + k]
        /\ Len(chunk.plain) = Least(size, Len(fw) - (i - 1) * size)
  IN /\ Len(f) = at[total + 1] - 1
     /\ \E base \in 1 .. drawn : \A i \in 1 .. total : \E chunk \in sealed : Opens(base, i, chunk)
     /\ total * size >= Len(fw)

\* A package that one run wrote while no other was under way is read back as
\* the firmware it was made of, whatever failed before or after; and when the
\* log says so last, under the key that the tab shows
\* (PacketBuilder.package_firmware, _package).
PackageReadsBack ==
  saved # NoRun =>
    /\ ReadsBack(file, saved.key, saved.fw)
    /\ log = "saved" /\ Running = {} => shown = saved.key

\* No nonce seals two different chunks under a key: not within a firmware, not
\* when a firmware is packaged again with the same key, not when a run fails
\* half-way or two run at once (derive_chunk_nonce, encrypt_firmware).
NonceNeverReused ==
  \A c, d \in sealed : c.key = d.key /\ c.nonce = d.nonce => c = d

\* The chunks a firmware is split into are as many as the manifest and the
\* estimates count, and none is longer in transit than the estimate takes it
\* for, all but the last exactly as long (split_firmware, build,
\* calculate_transfer_time, to_bytes).
SizesAgree ==
  \A t \in Threads : pc[t] \in {"header", "chunks"} /\ job[t].size > 0 =>
    LET chunks == job[t].chunks
        n == Len(chunks)
        estimate == TransferBytes(Len(job[t].fw), job[t].size)
    IN /\ n = NumChunks(Len(job[t].fw), job[t].size)
       /\ \A i \in 1 .. n : /\ n * PacketLen(chunks[i]) <= estimate
                            /\ i < n => n * PacketLen(chunks[i]) = estimate

\* What the comments of derive_chunk_nonce and of the packager's form say of a
\* package: its chunks are sealed under the nonce base of the manifest that was
\* made for the same firmware and chunk size.
SealedForManifest ==
  \A wish \in wanted :
    saved # NoRun /\ saved.fw = wish.fw /\ saved.size = wish.size =>
      \E manifest \in manifests : manifest.fw = saved.fw /\ manifest.base = saved.base
=============================================================================
