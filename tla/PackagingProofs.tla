--------------------------- MODULE PackagingProofs --------------------------
(***************************************************************************)
(* Theorems about the packager, for any firmwares, chunk sizes, keys and   *)
(* number of threads: no nonce is used twice, the sizes agree, and a       *)
(* package that one run wrote is read back as the firmware it was made of. *)
(***************************************************************************)
EXTENDS Packaging, FiniteSetTheorems, TLAPS

\* Every thread at work has a firmware.
JobsHaveFirmware ==
  /\ pc \in [Threads -> {"idle", "key", "encrypt", "open", "header", "chunks"}]
  /\ job = [t \in Threads |-> job[t]]
  /\ \A t \in Threads : pc[t] # "idle" => job[t].fw \in Firmwares

\* What was sealed was sealed under a base that was drawn.
BasesWereDrawn ==
  /\ drawn \in Nat
  /\ \A c \in sealed : c.nonce.base \in 1 .. drawn

NonceInv == JobsHaveFirmware /\ BasesWereDrawn /\ NonceNeverReused

\* The parts of a firmware are numbered.
LEMMA PartsNumbered ==
  ASSUME NEW fw \in Firmwares, NEW size
  PROVE  Len(SplitFirmware(fw, size)) \in Nat
<1> DEFINE starts == {i \in 0 .. Len(fw) - 1 : size > 0 /\ i % size = 0}
<1> DEFINE last == Len(fw) - 1
<1>1. last \in Int
  BY PackagingAssumption
<1> HIDE DEF last
<1>2. IsFiniteSet(0 .. last)
  BY <1>1, FS_Interval
<1>3. starts \subseteq 0 .. last
  BY DEF last
<1>4. IsFiniteSet(starts)
  BY <1>2, <1>3, FS_Subset
<1> DEFINE count == Cardinality(starts)
<1>5. count \in Nat
  BY <1>4, FS_CardinalityType
<1>6. SplitFirmware(fw, size) =
        [i \in 1 .. count |-> SubSeq(fw, (i - 1) * size + 1, Least(i * size, Len(fw)))]
  BY DEF SplitFirmware
<1> HIDE DEF count
<1>7. QED
  BY <1>5, <1>6

\* The chunks of one firmware have a nonce each, all of one base.
LEMMA NoncesOfOne ==
  ASSUME NEW fw \in Firmwares, NEW key, NEW base, NEW size
  PROVE  LET chunks == EncryptFirmware(fw, key, base, size)
             new == {chunks[i] : i \in 1 .. Len(chunks)}
         IN /\ \A c \in new : c.nonce.base = base
            /\ \A c, d \in new : c.nonce = d.nonce => c = d
<1> DEFINE parts == SplitFirmware(fw, size)
<1> DEFINE count == Len(parts)
<1> DEFINE chunks == EncryptFirmware(fw, key, base, size)
<1>1. count \in Nat
  BY PartsNumbered
<1>2. chunks = [i \in 1 .. count |->
                  [key |-> key, nonce |-> ChunkNonce(base, i - 1),
                   ad |-> [index |-> i - 1, total |-> count], plain |-> parts[i]]]
  BY DEF EncryptFirmware
<1> HIDE DEF parts, count, chunks
<1>3. Len(chunks) = count
  BY <1>1, <1>2
<1>4. \A i \in 1 .. count : chunks[i].nonce = [base |-> base, counter |-> i - 1]
  BY <1>2 DEF ChunkNonce
<1>5. ASSUME NEW i \in 1 .. count
      PROVE  chunks[i].nonce.base = base /\ chunks[i].nonce.counter = i - 1
  <2> DEFINE nonce == chunks[i].nonce
  <2>1. nonce = [base |-> base, counter |-> i - 1]
    BY <1>4
  <2> HIDE DEF nonce
  <2>2. nonce.base = base /\ nonce.counter = i - 1
    BY <2>1
  <2>3. QED
    BY <2>2 DEF nonce
<1>6. ASSUME NEW i \in 1 .. count, NEW j \in 1 .. count, chunks[i].nonce = chunks[j].nonce
      PROVE  i = j
  BY <1>1, <1>5, <1>6
<1>7. QED
  BY <1>3, <1>5, <1>6 DEF chunks

LEMMA InitNonces == PackInit => NonceInv
<1> SUFFICES ASSUME PackInit PROVE NonceInv
  OBVIOUS
<1>1. JobsHaveFirmware
  BY DEF PackInit, JobsHaveFirmware
<1>2. BasesWereDrawn /\ NonceNeverReused
  BY DEF PackInit, BasesWereDrawn, NonceNeverReused
<1>3. QED
  BY <1>1, <1>2 DEF NonceInv

\* A thread goes on with the firmware it has, or ends.
LEMMA GoesOnWell ==
  ASSUME JobsHaveFirmware, NEW t \in Threads, NEW newJob,
         NEW next \in {"idle", "key", "encrypt", "open", "header", "chunks"},
         GoesOn(t, next, newJob), next # "idle" => newJob.fw \in Firmwares
  PROVE  JobsHaveFirmware'
<1>1. /\ pc' = [pc EXCEPT ![t] = next]
      /\ job' = [job EXCEPT ![t] = newJob]
  BY DEF GoesOn
<1>2. /\ pc' \in [Threads -> {"idle", "key", "encrypt", "open", "header", "chunks"}]
      /\ \A s \in Threads : pc'[s] = IF s = t THEN next ELSE pc[s]
  BY <1>1 DEF JobsHaveFirmware
<1>3. /\ job' = [s \in Threads |-> job'[s]]
      /\ \A s \in Threads : job'[s] = IF s = t THEN newJob ELSE job[s]
  BY <1>1 DEF JobsHaveFirmware
<1>4. QED
  BY <1>2, <1>3 DEF JobsHaveFirmware

\* A step that seals nothing.
LEMMA SealsNothing ==
  ASSUME NonceInv, UNCHANGED sealed, drawn' \in Nat, drawn <= drawn'
  PROVE  BasesWereDrawn' /\ NonceNeverReused'
BY DEF NonceInv, BasesWereDrawn, NonceNeverReused

LEMMA SealKeeps ==
  ASSUME NonceInv, NEW t \in Threads, Encrypt(t)
  PROVE  NonceInv'
<1>1. pc[t] = "encrypt" /\ job[t].fw \in Firmwares /\ drawn \in Nat
  BY DEF Encrypt, NonceInv, JobsHaveFirmware, BasesWereDrawn
<1>2. CASE /\ drawn' \in {drawn, drawn + 1} /\ UNCHANGED sealed
           /\ Ends(t, "failed")
  <2>1. JobsHaveFirmware'
    BY <1>2, GoesOnWell DEF Ends, NonceInv
  <2>2. BasesWereDrawn' /\ NonceNeverReused'
    BY <1>1, <1>2, SealsNothing
  <2>3. QED
    BY <2>1, <2>2 DEF NonceInv
<1>3. ASSUME NEW size \in ChunkSizes, drawn' = drawn + 1,
             LET chunks == EncryptFirmware(job[t].fw, job[t].key, drawn', size)
             IN /\ sealed' = sealed \cup {chunks[i] : i \in 1 .. Len(chunks)}
                /\ GoesOn(t, "open", [fw |-> job[t].fw, key |-> job[t].key,
                                      base |-> drawn', size |-> size,
                                      chunks |-> chunks, done |-> 0, offset |-> 0])
      PROVE  NonceInv'
  <2> DEFINE chunks == EncryptFirmware(job[t].fw, job[t].key, drawn', size)
             new == {chunks[i] : i \in 1 .. Len(chunks)}
  <2>1. JobsHaveFirmware'
    <3> DEFINE newJob == [fw |-> job[t].fw, key |-> job[t].key,
                          base |-> drawn', size |-> size,
                          chunks |-> chunks, done |-> 0, offset |-> 0]
    <3>1. GoesOn(t, "open", newJob)
      BY <1>3
    <3>2. newJob.fw \in Firmwares
      BY <1>1
    <3> HIDE DEF newJob
    <3>3. QED
      BY <3>1, <3>2, GoesOnWell DEF NonceInv
  <2>2. sealed' = sealed \cup new
    BY <1>3
  <2>3. /\ \A c \in new : c.nonce.base = drawn'
        /\ \A c, d \in new : c.nonce = d.nonce => c = d
    BY <1>1, NoncesOfOne
  <2> HIDE DEF chunks, new
  <2>4. \A c \in sealed : c.nonce.base \in 1 .. drawn
    BY DEF NonceInv, BasesWereDrawn
  <2>5. BasesWereDrawn'
    BY <1>1, <1>3, <2>2, <2>3, <2>4 DEF BasesWereDrawn
  <2>6. \A c \in sealed, d \in new : c.nonce.base # d.nonce.base
    BY <1>1, <1>3, <2>3, <2>4
  <2>7. NonceNeverReused'
    BY <2>2, <2>3, <2>6 DEF NonceInv, NonceNeverReused
  <2>8. QED
    BY <2>1, <2>5, <2>7 DEF NonceInv
<1>4. QED
  BY <1>2, <1>3 DEF Encrypt

LEMMA OthersKeep ==
  ASSUME NonceInv, NEW t \in Threads,
         \/ \E fw \in Firmwares : ClickPackage(t, fw)
         \/ ResolveKey(t) \/ OpenFile(t) \/ WriteHeader(t) \/ WriteChunk(t) \/ PackageSaved(t)
  PROVE  NonceInv'
<1>1. UNCHANGED <<sealed, drawn>> /\ drawn \in Nat
  BY DEF ClickPackage, ResolveKey, OpenFile, WriteHeader, WriteChunk, PackageSaved,
         NonceInv, BasesWereDrawn
<1>2. BasesWereDrawn' /\ NonceNeverReused'
  BY <1>1, SealsNothing
<1>3. pc[t] # "idle" => job[t].fw \in Firmwares
  BY DEF NonceInv, JobsHaveFirmware
<1>5. JobsHaveFirmware'
  <2>1. CASE \E fw \in Firmwares : ClickPackage(t, fw)
    <3>1. PICK fw \in Firmwares : GoesOn(t, "key", [fw |-> fw])
      BY <2>1 DEF ClickPackage
    <3>2. [fw |-> fw].fw \in Firmwares
      OBVIOUS
    <3>3. QED
      BY <3>1, <3>2, GoesOnWell DEF NonceInv
  <2>2. CASE ResolveKey(t)
    <3>1. CASE Ends(t, "failed")
      BY <3>1, GoesOnWell DEF Ends, NonceInv
    <3>2. CASE \E key \in Keys : GoesOn(t, "encrypt", [fw |-> job[t].fw, key |-> key])
      <4>1. PICK key \in Keys : GoesOn(t, "encrypt", [fw |-> job[t].fw, key |-> key])
        BY <3>2
      <4>2. [fw |-> job[t].fw, key |-> key].fw \in Firmwares
        BY <1>3, <2>2 DEF ResolveKey
      <4>3. QED
        BY <4>1, <4>2, GoesOnWell DEF NonceInv
    <3>3. QED
      BY <2>2, <3>1, <3>2 DEF ResolveKey
  <2>3. CASE OpenFile(t)
    BY <1>3, <2>3, GoesOnWell DEF OpenFile, NonceInv
  <2>4. ASSUME NEW cells, NEW n, pc[t] # "idle", Writes(t, cells, n)
        PROVE  JobsHaveFirmware'
    <3> DEFINE newJob == [job[t] EXCEPT !.offset = @ + Len(cells), !.done = n]
    <3>1. GoesOn(t, "chunks", newJob)
      BY <2>4 DEF Writes
    <3>2. newJob.fw = job[t].fw
      OBVIOUS
    <3> HIDE DEF newJob
    <3>3. QED
      BY <1>3, <2>4, <3>1, <3>2, GoesOnWell DEF NonceInv
  <2>5. CASE WriteHeader(t)
    <3>1. CASE Ends(t, "failed")
      BY <3>1, GoesOnWell DEF Ends, NonceInv
    <3>2. QED
      BY <2>4, <2>5, <3>1 DEF WriteHeader
  <2>6. CASE WriteChunk(t)
    <3>1. CASE Ends(t, "failed")
      BY <3>1, GoesOnWell DEF Ends, NonceInv
    <3>2. QED
      BY <2>4, <2>6, <3>1 DEF WriteChunk
  <2>7. CASE PackageSaved(t)
    BY <2>7, GoesOnWell DEF PackageSaved, Ends, NonceInv
  <2>8. QED
    BY <2>1, <2>2, <2>3, <2>5, <2>6, <2>7
<1>6. QED
  BY <1>2, <1>5 DEF NonceInv

LEMMA NextNonces == NonceInv /\ [PackNext]_packVars => NonceInv'
<1> SUFFICES ASSUME NonceInv, [PackNext]_packVars PROVE NonceInv'
  OBVIOUS
<1>1. CASE \E t \in Threads : PackagerStep(t) \/ \E fw \in Firmwares : ClickPackage(t, fw)
  BY <1>1, SealKeeps, OthersKeep DEF PackagerStep
<1>2. CASE \E fw \in Firmwares, size \in ChunkSizes : BuildManifest(fw, size)
  <2>1. UNCHANGED <<sealed, pc, job>> /\ drawn' = drawn + 1 /\ drawn \in Nat
    BY <1>2 DEF BuildManifest, NonceInv, BasesWereDrawn
  <2>2. BasesWereDrawn' /\ NonceNeverReused'
    BY <2>1, SealsNothing
  <2>3. JobsHaveFirmware'
    BY <2>1 DEF NonceInv, JobsHaveFirmware
  <2>4. QED
    BY <2>2, <2>3 DEF NonceInv
<1>3. CASE Restart
  <2>1. UNCHANGED <<sealed, drawn>> /\ drawn \in Nat
    BY <1>3 DEF Restart, NonceInv, BasesWereDrawn
  <2>2. BasesWereDrawn' /\ NonceNeverReused'
    BY <2>1, SealsNothing
  <2>3. JobsHaveFirmware'
    BY <1>3 DEF Restart, JobsHaveFirmware
  <2>4. QED
    BY <2>2, <2>3 DEF NonceInv
<1>4. CASE UNCHANGED packVars
  BY <1>4 DEF packVars, NonceInv, JobsHaveFirmware, BasesWereDrawn, NonceNeverReused
<1>5. QED
  BY <1>1, <1>2, <1>3, <1>4 DEF PackNext

\* No nonce seals two different chunks under a key, however often a firmware is
\* packaged, fails, or is packaged by two threads at once (derive_chunk_nonce,
\* encrypt_firmware).
THEOREM NoncesUnique == PackSpec => []NonceNeverReused
<1>1. NonceInv => NonceNeverReused
  BY DEF NonceInv
<1>2. QED
  BY <1>1, InitNonces, NextNonces, PTL DEF PackSpec

----------------------------------------------------------------------------
(* What the threads work on *)

\* What a run of the packager is about, and the chunks it seals.
Runs == [fw : Firmwares, key : Keys, base : Nat, size : ChunkSizes]
RunChunks(run) == EncryptFirmware(run.fw, run.key, run.base, run.size)

\* The job of a run that has written some chunks, up to an offset.
JobOf(run, done, offset) ==
  [fw |-> run.fw, key |-> run.key, base |-> run.base, size |-> run.size,
   chunks |-> RunChunks(run), done |-> done, offset |-> offset]

RunOf(j) == [fw |-> j.fw, key |-> j.key, base |-> j.base, size |-> j.size]

\* What a thread that has sealed its chunks works on.
SealedJob(j) ==
  /\ RunOf(j) \in Runs /\ Encrypts(j.fw, j.size)
  /\ j = JobOf(RunOf(j), j.done, j.offset)
  /\ j.done \in Nat /\ j.offset \in Nat

JobRight(state, j) ==
  /\ state \in {"idle", "key", "encrypt", "open", "header", "chunks"}
  /\ state = "idle" => j = NoJob
  /\ state = "key" => \E fw \in Firmwares : j = [fw |-> fw]
  /\ state = "encrypt" => \E fw \in Firmwares, key \in Keys : j = [fw |-> fw, key |-> key]
  /\ state \in {"open", "header", "chunks"} => SealedJob(j)
  /\ state \in {"open", "header"} => j.done = 0 /\ j.offset = 0
  /\ state = "chunks" => j.size > 0 /\ j.done <= Len(j.chunks)

JobsRight ==
  /\ pc = [t \in Threads |-> pc[t]] /\ job = [t \in Threads |-> job[t]]
  /\ \A t \in Threads : JobRight(pc[t], job[t])

\* Threads that may still draw a nonce base.
Drawing == {t \in Threads : pc[t] \in {"key", "encrypt"}}

DrawsBounded == drawn \in Nat /\ drawn + Cardinality(Drawing) <= MaxDraws

PackedInv ==
  /\ JobsRight /\ DrawsBounded
  /\ shown \in Keys \cup {NoKey} /\ log \in {"none", "saved", "failed"}
  /\ overlapped \in BOOLEAN

----------------------------------------------------------------------------
(* What is in the file *)

\* The place of chunk i, if the chunks before it are parts of the firmware.
Place(fw, size, i) == 3 + (i - 1) * (1 + TagSize) + Least((i - 1) * size, Len(fw))

\* The file holds the header and the first chunks of a run, and nothing else.
Holds(f, run, done) ==
  LET chunks == RunChunks(run)
      place(i) == Place(run.fw, run.size, i)
  IN /\ f = [p \in 1 .. Len(f) |-> f[p]]
     /\ Len(f) = place(done + 1) - 1
     /\ f[1] = Int32(Len(chunks)) /\ f[2] = Int32(run.size)
     /\ \A i \in 1 .. done :
          /\ f[place(i)] = Int32(SealedLen(chunks[i]))
          /\ \A k \in 1 .. SealedLen(chunks[i]) : f[place(i) + k] = SealedCells(chunks[i])[k]

\* The base of a run is among those drawn, its chunks are among those sealed.
WasSealed(run, bases, all) ==
  /\ run.base \in 1 .. bases
  /\ \A i \in 1 .. Len(RunChunks(run)) : RunChunks(run)[i] \in all

\* While no two runs overlap, the only one has shown its key, and the file is
\* empty or holds what it has written.
AloneRight ==
  ~overlapped =>
    /\ \A s, t \in Running : s = t
    /\ \A t \in Running :
         /\ pc[t] # "key" => shown = job[t].key
         /\ pc[t] = "header" => file = <<>>
         /\ pc[t] = "chunks" => /\ Holds(file, RunOf(job[t]), job[t].done)
                                /\ job[t].offset = Len(file)

\* A package that was saved is still in the file.
SavedRight ==
  saved # NoRun =>
    /\ saved \in Runs /\ saved.size > 0 /\ WasSealed(saved, drawn, sealed)
    /\ \A t \in Threads : pc[t] \notin {"header", "chunks"}
    /\ Holds(file, saved, Len(RunChunks(saved)))
    /\ log = "saved" /\ Running = {} => shown = saved.key

FileInv ==
  /\ JobsRight /\ drawn \in Nat
  /\ \A t \in Threads :
       pc[t] \in {"open", "header", "chunks"} => WasSealed(RunOf(job[t]), drawn, sealed)
  /\ AloneRight /\ SavedRight
----------------------------------------------------------------------------
(* The sizes *)

\* A part of the firmware, read as a sequence.
LEMMA PartOf ==
  ASSUME NEW fw \in Firmwares, NEW first \in Nat \ {0}, NEW last \in Nat,
         first <= last + 1, last <= Len(fw)
  PROVE  /\ Len(SubSeq(fw, first, last)) = last + 1 - first
         /\ \A k \in 1 .. last + 1 - first : SubSeq(fw, first, last)[k] = fw[first + k - 1]
<1>1. fw = [p \in 1 .. Len(fw) |-> fw[p]] /\ Len(fw) \in Nat
  BY PackagingAssumption
<1> DEFINE len == Len(fw)
           S == {fw[p] : p \in 1 .. len}
<1>2. fw = [p \in 1 .. len |-> fw[p]] /\ len \in Nat
  BY <1>1
<1> HIDE DEF len
<1>3. fw \in Seq(S)
  BY <1>2
<1> HIDE DEF S
<1>4. QED
  BY <1>3

\* Multiples.
LEMMA Multiples ==
  ASSUME NEW size \in Nat \ {0}, NEW i \in Nat, NEW j \in Nat
  PROVE  /\ i * size \in Nat /\ (i * size) % size = 0
         /\ i <= j <=> i * size <= j * size
         /\ (i + 1) * size = i * size + size
         /\ (i + j) * size = i * size + j * size
<1>1. i * size \in Nat /\ (i * size) % size = 0
  OBVIOUS
<1>2. i <= j => i * size <= j * size
  OBVIOUS
<1>3. i * size <= j * size => i <= j
  OBVIOUS
<1>4. (i + 1) * size = i * size + size /\ (i + j) * size = i * size + j * size
  OBVIOUS
<1>5. QED
  BY <1>1, <1>2, <1>3, <1>4

\* The number of chunks is the least one that covers the firmware.
LEMMA ChunksCover ==
  ASSUME NEW len \in Nat, NEW size \in Nat \ {0}
  PROVE  /\ NumChunks(len, size) \in Nat
         /\ NumChunks(len, size) * size >= len
         /\ \A i \in Nat : i < NumChunks(len, size) <=> i * size < len
<1> DEFINE a == len + size - 1
           n == a \div size
<1>1. a \in Nat
  OBVIOUS
<1> HIDE DEF a
<1>2. n \in Nat
  BY <1>1
<1>3. size * n <= a
  BY <1>1
<1>4. a < size * n + size
  BY <1>1
<1> HIDE DEF n
<1>5. n * size = size * n
  BY <1>2
<1> DEFINE all == n * size
<1>6. all \in Nat /\ all <= a /\ a < all + size
  BY <1>2, <1>3, <1>4, <1>5
<1> HIDE DEF all
<1>7. len <= all /\ all < len + size
  BY <1>6 DEF a
<1>8. ASSUME NEW i \in Nat
      PROVE  i < n <=> i * size < len
  <2> DEFINE mine == i * size
  <2>1. mine \in Nat /\ (i + 1) * size = mine + size
    BY Multiples
  <2>2. i < n => (i + 1) * size <= all
    BY <1>2, Multiples DEF all
  <2>3. n <= i => all <= mine
    BY <1>2, Multiples DEF all
  <2> HIDE DEF mine
  <2>4. i < n => mine < len
    BY <1>6, <1>7, <2>1, <2>2
  <2>5. n <= i => len <= mine
    BY <1>6, <1>7, <2>1, <2>3
  <2>6. QED
    BY <1>2, <2>1, <2>4, <2>5 DEF mine
<1>9. NumChunks(len, size) = n
  BY DEF NumChunks, n, a
<1>10. QED
  BY <1>2, <1>7, <1>8, <1>9 DEF all

\* A firmware is split into as many parts as the sizes say, each the next piece
\* of it.
LEMMA SplitParts ==
  ASSUME NEW fw \in Firmwares, NEW size \in Int, size > 0
  PROVE  LET parts == SplitFirmware(fw, size)
             n == NumChunks(Len(fw), size)
         IN /\ parts = [i \in 1 .. n |->
                          SubSeq(fw, (i - 1) * size + 1, Least(i * size, Len(fw)))]
            /\ Len(parts) = n
<1> DEFINE len == Len(fw)
           starts == {i \in 0 .. len - 1 : size > 0 /\ i % size = 0}
           n == NumChunks(len, size)
<1>1. len \in Nat /\ size \in Nat \ {0}
  BY PackagingAssumption
<1> HIDE DEF len
<1>2. /\ n \in Nat
      /\ \A i \in Nat : i < n <=> i * size < len
  BY <1>1, ChunksCover
<1> HIDE DEF n
<1> DEFINE at == [i \in 1 .. n |-> (i - 1) * size]
<1>3. ASSUME NEW i \in 1 .. n
      PROVE  at[i] \in starts
  <2>1. i - 1 \in Nat /\ i - 1 < n
    BY <1>2
  <2> DEFINE here == (i - 1) * size
  <2>2. here \in Nat /\ here < len /\ here % size = 0
    BY <1>1, <1>2, <2>1, Multiples
  <2> HIDE DEF here
  <2>3. here \in starts
    BY <1>1, <2>2
  <2>4. QED
    BY <2>3 DEF here
<1>4. ASSUME NEW i \in 1 .. n, NEW j \in 1 .. n, at[i] = at[j]
      PROVE  i = j
  <2>1. i - 1 \in Nat /\ j - 1 \in Nat
    BY <1>2
  <2>2. (i - 1) * size = (j - 1) * size
    BY <1>4
  <2>3. i - 1 <= j - 1 /\ j - 1 <= i - 1
    BY <1>1, <2>1, <2>2, Multiples
  <2>4. QED
    BY <1>2, <2>3
<1>5. ASSUME NEW s \in starts
      PROVE  \E i \in 1 .. n : at[i] = s
  <2> DEFINE q == s \div size
  <2>1. s \in Nat /\ s < len /\ s % size = 0
    BY <1>1
  <2>2. q \in Nat /\ s = size * q + (s % size)
    BY <1>1, <2>1
  <2> HIDE DEF q
  <2>3. s = q * size
    BY <1>1, <2>1, <2>2
  <2>4. q < n
    BY <1>2, <2>1, <2>2, <2>3
  <2>5. q + 1 \in 1 .. n /\ (q + 1) - 1 = q
    BY <1>2, <2>2, <2>4
  <2>6. QED
    BY <2>3, <2>5
<1>6. at \in Bijection(1 .. n, starts)
  <2> HIDE DEF starts
  <2>1. at = [i \in 1 .. n |-> at[i]]
    OBVIOUS
  <2> HIDE DEF at
  <2>2. QED
    BY <1>3, <1>4, <1>5, <2>1 DEF Bijection, Injection, Surjection, IsInjective
<1>7. Cardinality(starts) = n
  <2>1. ExistsBijection(1 .. n, starts)
    BY <1>6 DEF ExistsBijection
  <2> HIDE DEF starts
  <2>2. QED
    BY <1>2, <2>1, FS_CountingElements
<1> DEFINE part(i) == SubSeq(fw, (i - 1) * size + 1, Least(i * size, Len(fw)))
<1>8. SplitFirmware(fw, size) = [i \in 1 .. Cardinality(starts) |-> part(i)]
  BY DEF SplitFirmware, len
<1> HIDE DEF starts, part
<1>9. SplitFirmware(fw, size) = [i \in 1 .. n |-> part(i)]
  BY <1>7, <1>8
<1>10. Len(SplitFirmware(fw, size)) = n
  BY <1>2, <1>9
<1>11. QED
  BY <1>9, <1>10 DEF n, len, part

\* How long each part is, and what it is of.
LEMMA PartsRight ==
  ASSUME NEW fw \in Firmwares, NEW size \in Int, size > 0,
         NEW i \in 1 .. NumChunks(Len(fw), size)
  PROVE  LET part == SplitFirmware(fw, size)[i]
         IN /\ Len(part) \in 1 .. size
            /\ Len(part) = Least(i * size, Len(fw)) - (i - 1) * size
            /\ Len(part) = Least(size, Len(fw) - (i - 1) * size)
            /\ i < NumChunks(Len(fw), size) => Len(part) = size
            /\ \A k \in 1 .. Len(part) : part[k] = fw[(i - 1) * size + k]
<1> DEFINE len == Len(fw)
           n == NumChunks(len, size)
           from == (i - 1) * size
           to == i * size
           end == Least(to, len)
<1>1. len \in Nat /\ size \in Nat \ {0}
  BY PackagingAssumption
<1>2. /\ n \in Nat
      /\ \A j \in Nat : j < n <=> j * size < len
  BY <1>1, ChunksCover
<1>3. i \in Nat /\ i - 1 \in Nat /\ i - 1 < n /\ (i - 1) + 1 = i
  BY <1>2
<1>4. from \in Nat /\ to = from + size /\ to \in Nat
  BY <1>1, <1>3, Multiples
<1>5. from < len /\ (i < n <=> to < len)
  BY <1>2, <1>3
<1>6. SplitFirmware(fw, size)[i] = SubSeq(fw, from + 1, end)
  <2>1. i \in 1 .. n
    OBVIOUS
  <2>2. QED
    BY <2>1, SplitParts
<1> HIDE DEF from, to, n
<1>7. end \in Nat /\ end <= len /\ from < end /\ end - from <= size
  BY <1>1, <1>4, <1>5 DEF Least
<1>8. end - from = Least(size, len - from) /\ (i < n => end - from = size)
  BY <1>1, <1>4, <1>5 DEF Least
<1> HIDE DEF end, len
<1> DEFINE part == SubSeq(fw, from + 1, end)
<1>9. /\ Len(part) = end + 1 - (from + 1)
      /\ \A k \in 1 .. end + 1 - (from + 1) : part[k] = fw[from + 1 + k - 1]
  <2> DEFINE first == from + 1
  <2>1. first \in Nat \ {0} /\ first <= end + 1 /\ end <= Len(fw)
    BY <1>4, <1>7 DEF len
  <2> HIDE DEF first
  <2>2. /\ Len(SubSeq(fw, first, end)) = end + 1 - first
        /\ \A k \in 1 .. end + 1 - first : SubSeq(fw, first, end)[k] = fw[first + k - 1]
    BY <1>7, <2>1, PartOf
  <2>3. QED
    BY <2>2 DEF first
<1> HIDE DEF part
<1>10. end + 1 - (from + 1) = end - from /\ \A k \in Nat : from + 1 + k - 1 = from + k
  BY <1>4, <1>7
<1>11. Len(part) = end - from /\ \A k \in 1 .. Len(part) : part[k] = fw[from + k]
  BY <1>9, <1>10
<1>12. end - from \in 1 .. size
  BY <1>1, <1>4, <1>7
<1>13. SplitFirmware(fw, size)[i] = part
  BY <1>6 DEF part
<1>14. QED
  BY <1>8, <1>11, <1>12, <1>13 DEF n, end, from, to, len

\* The chunks of a run, one for each part of its firmware.
LEMMA ChunksRight ==
  ASSUME NEW run \in Runs
  PROVE  LET parts == SplitFirmware(run.fw, run.size)
             chunks == RunChunks(run)
         IN /\ Len(chunks) = Len(parts) /\ Len(chunks) \in Nat
            /\ \A i \in 1 .. Len(chunks) :
                 chunks[i] = [key |-> run.key, nonce |-> ChunkNonce(run.base, i - 1),
                              ad |-> [index |-> i - 1, total |-> Len(parts)],
                              plain |-> parts[i]]
<1> DEFINE parts == SplitFirmware(run.fw, run.size)
           count == Len(parts)
           chunks == RunChunks(run)
<1>1. run.fw \in Firmwares
  BY DEF Runs
<1>2. count \in Nat
  BY <1>1, PartsNumbered
<1>3. chunks = [i \in 1 .. count |->
                  [key |-> run.key, nonce |-> ChunkNonce(run.base, i - 1),
                   ad |-> [index |-> i - 1, total |-> count], plain |-> parts[i]]]
  BY DEF EncryptFirmware, RunChunks
<1> HIDE DEF chunks, count
<1>4. Len(chunks) = count
  BY <1>2, <1>3
<1>5. QED
  BY <1>2, <1>3, <1>4 DEF chunks, count

\* The chunks of a run cover its firmware, and all but the last are full.
LEMMA ChunkSizesRight ==
  ASSUME NEW run \in Runs, run.size > 0
  PROVE  LET chunks == RunChunks(run)
             n == NumChunks(Len(run.fw), run.size)
         IN /\ Len(chunks) = n /\ n \in Nat /\ n * run.size >= Len(run.fw)
            /\ \A i \in 1 .. n :
                 /\ SealedLen(chunks[i]) = Len(chunks[i].plain) + TagSize
                 /\ Len(chunks[i].plain) \in 1 .. run.size
                 /\ Len(chunks[i].plain) = Least(i * run.size, Len(run.fw)) - (i - 1) * run.size
                 /\ Len(chunks[i].plain) = Least(run.size, Len(run.fw) - (i - 1) * run.size)
                 /\ i < n => Len(chunks[i].plain) = run.size
                 /\ \A k \in 1 .. Len(chunks[i].plain) :
                      chunks[i].plain[k] = run.fw[(i - 1) * run.size + k]
<1> DEFINE fw == run.fw
           size == run.size
           chunks == RunChunks(run)
           n == NumChunks(Len(fw), size)
<1>1. fw \in Firmwares /\ size \in Int /\ size > 0
  BY PackagingAssumption DEF Runs
<1>2. Len(fw) \in Nat /\ size \in Nat \ {0}
  BY <1>1, PackagingAssumption
<1> HIDE DEF fw, size
<1>3. n \in Nat /\ n * size >= Len(fw)
  BY <1>2, ChunksCover
<1>4. Len(SplitFirmware(fw, size)) = n
  BY <1>1, SplitParts
<1>5. Len(chunks) = n
  BY <1>4, ChunksRight DEF fw, size
<1>6. ASSUME NEW i \in 1 .. n
      PROVE  chunks[i].plain = SplitFirmware(fw, size)[i]
  <2>1. chunks[i] = [key |-> run.key, nonce |-> ChunkNonce(run.base, i - 1),
                     ad |-> [index |-> i - 1, total |-> n],
                     plain |-> SplitFirmware(fw, size)[i]]
    BY <1>4, <1>5, ChunksRight DEF fw, size
  <2> HIDE DEF chunks
  <2>2. QED
    BY <2>1
<1> HIDE DEF chunks
<1>7. ASSUME NEW i \in 1 .. n
      PROVE  /\ SealedLen(chunks[i]) = Len(chunks[i].plain) + TagSize
             /\ Len(chunks[i].plain) \in 1 .. size
             /\ Len(chunks[i].plain) = Least(i * size, Len(fw)) - (i - 1) * size
             /\ Len(chunks[i].plain) = Least(size, Len(fw) - (i - 1) * size)
             /\ i < n => Len(chunks[i].plain) = size
             /\ \A k \in 1 .. Len(chunks[i].plain) :
                  chunks[i].plain[k] = fw[(i - 1) * size + k]
  <2> DEFINE part == SplitFirmware(fw, size)[i]
  <2>1. /\ Len(part) \in 1 .. size
        /\ Len(part) = Least(i * size, Len(fw)) - (i - 1) * size
        /\ Len(part) = Least(size, Len(fw) - (i - 1) * size)
        /\ i < n => Len(part) = size
        /\ \A k \in 1 .. Len(part) : part[k] = fw[(i - 1) * size + k]
    BY <1>1, PartsRight
  <2>2. chunks[i].plain = part
    BY <1>6
  <2> HIDE DEF part, n
  <2>3. QED
    BY <2>1, <2>2 DEF SealedLen
<1>8. QED
  BY <1>3, <1>5, <1>7 DEF fw, size, n, chunks

----------------------------------------------------------------------------
(* The threads go on as they should *)

\* The parts of a job.
LEMMA JobParts ==
  ASSUME NEW run, NEW done, NEW offset
  PROVE  LET j == JobOf(run, done, offset)
         IN /\ j.fw = run.fw /\ j.key = run.key /\ j.base = run.base /\ j.size = run.size
            /\ j.chunks = RunChunks(run) /\ j.done = done /\ j.offset = offset
BY DEF JobOf

LEMMA RunIsWhole ==
  ASSUME NEW run \in Runs
  PROVE  run = [fw |-> run.fw, key |-> run.key, base |-> run.base, size |-> run.size]
BY DEF Runs

LEMMA SealedJobMade ==
  ASSUME NEW run \in Runs, NEW done \in Nat, NEW offset \in Nat,
         Encrypts(run.fw, run.size)
  PROVE  /\ SealedJob(JobOf(run, done, offset))
         /\ RunOf(JobOf(run, done, offset)) = run
<1> DEFINE j == JobOf(run, done, offset)
<1>1. /\ j.fw = run.fw /\ j.key = run.key /\ j.base = run.base /\ j.size = run.size
      /\ j.done = done /\ j.offset = offset
  BY JobParts
<1>2. RunOf(j) = run
  <2> HIDE DEF j
  <2>1. QED
    BY <1>1, RunIsWhole DEF RunOf
<1>3. j = JobOf(RunOf(j), j.done, j.offset)
  BY <1>1, <1>2
<1> HIDE DEF j
<1>4. SealedJob(j)
  BY <1>1, <1>2, <1>3 DEF SealedJob
<1>5. QED
  BY <1>2, <1>4 DEF j

\* What a job that has been sealed is of.
LEMMA SealedJobParts ==
  ASSUME NEW j, SealedJob(j)
  PROVE  LET run == RunOf(j)
         IN /\ run \in Runs /\ j.fw = run.fw /\ j.key = run.key
            /\ j.base = run.base /\ j.size = run.size /\ j.size \in Int
            /\ j.chunks = RunChunks(run) /\ Len(j.chunks) \in Nat
            /\ Encrypts(run.fw, run.size)
<1> DEFINE run == RunOf(j)
<1>1. run \in Runs /\ Encrypts(j.fw, j.size) /\ j = JobOf(run, j.done, j.offset)
  BY DEF SealedJob
<1>2. run = [fw |-> j.fw, key |-> j.key, base |-> j.base, size |-> j.size]
  BY DEF RunOf
<1> HIDE DEF run
<1>3. j.fw = run.fw /\ j.key = run.key /\ j.base = run.base /\ j.size = run.size
  BY <1>2
<1>4. j.chunks = RunChunks(run)
  BY <1>1, JobParts
<1>5. Len(RunChunks(run)) \in Nat
  BY <1>1, ChunksRight
<1>6. run.size \in Int
  BY <1>1, PackagingAssumption DEF Runs
<1>7. QED
  BY <1>1, <1>3, <1>4, <1>5, <1>6 DEF run

\* A job after a write.
LEMMA JobWrites ==
  ASSUME NEW j, SealedJob(j), NEW n \in Nat, NEW done \in Nat
  PROVE  LET next == [j EXCEPT !.offset = @ + n, !.done = done]
         IN /\ SealedJob(next) /\ RunOf(next) = RunOf(j)
            /\ next = JobOf(RunOf(j), done, j.offset + n)
<1> DEFINE run == RunOf(j)
           next == [j EXCEPT !.offset = @ + n, !.done = done]
<1>1. run \in Runs /\ j = JobOf(run, j.done, j.offset) /\ j.offset \in Nat
      /\ Encrypts(j.fw, j.size)
  BY DEF SealedJob
<1>2. Encrypts(run.fw, run.size)
  BY SealedJobParts
<1> HIDE DEF run
<1>3. next = JobOf(run, done, j.offset + n)
  <2> DEFINE old == j.offset
             was == j.done
  <2>1. j = [fw |-> run.fw, key |-> run.key, base |-> run.base, size |-> run.size,
             chunks |-> RunChunks(run), done |-> was, offset |-> old]
    BY <1>1 DEF JobOf
  <2>2. next = [j EXCEPT !.offset = old + n, !.done = done]
    OBVIOUS
  <2> HIDE DEF old, was, next
  <2>3. next = [fw |-> run.fw, key |-> run.key, base |-> run.base, size |-> run.size,
                chunks |-> RunChunks(run), done |-> done, offset |-> old + n]
    BY <2>1, <2>2
  <2>4. QED
    BY <2>3 DEF JobOf, old
<1>4. j.offset + n \in Nat
  BY <1>1
<1> HIDE DEF next
<1>5. SealedJob(next) /\ RunOf(next) = run
  BY <1>1, <1>2, <1>3, <1>4, SealedJobMade
<1>6. QED
  BY <1>3, <1>5 DEF next, run

\* What the number of threads and the bound are, and what is known of the pc.
LEMMA ThreadMoves ==
  ASSUME JobsRight, NEW t \in Threads, NEW next, NEW newJob, GoesOn(t, next, newJob)
  PROVE  /\ pc' = [s \in Threads |-> IF s = t THEN next ELSE pc[s]]
         /\ job' = [s \in Threads |-> IF s = t THEN newJob ELSE job[s]]
<1>1. /\ pc' = [pc EXCEPT ![t] = next]
      /\ job' = [job EXCEPT ![t] = newJob]
  BY DEF GoesOn
<1>2. pc = [s \in Threads |-> pc[s]] /\ job = [s \in Threads |-> job[s]]
  BY DEF JobsRight
<1>3. QED
  BY <1>1, <1>2

LEMMA JobsMove ==
  ASSUME JobsRight, NEW t \in Threads, NEW next, NEW newJob,
         GoesOn(t, next, newJob), JobRight(next, newJob)
  PROVE  JobsRight'
<1>1. /\ pc' = [s \in Threads |-> IF s = t THEN next ELSE pc[s]]
      /\ job' = [s \in Threads |-> IF s = t THEN newJob ELSE job[s]]
  BY ThreadMoves
<1>2. \A s \in Threads : JobRight(pc[s], job[s])
  BY DEF JobsRight
<1>3. ASSUME NEW s \in Threads
      PROVE  JobRight(pc'[s], job'[s])
  BY <1>1, <1>2
<1>4. pc' = [s \in Threads |-> pc'[s]] /\ job' = [s \in Threads |-> job'[s]]
  BY <1>1
<1>5. QED
  BY <1>3, <1>4 DEF JobsRight

\* The jobs a thread goes on to.
LEMMA IdleJob == JobRight("idle", NoJob)
BY DEF JobRight

LEMMA KeyJob ==
  ASSUME NEW fw \in Firmwares
  PROVE  JobRight("key", [fw |-> fw])
BY DEF JobRight

LEMMA EncryptJob ==
  ASSUME NEW j, JobRight("key", j), NEW key \in Keys
  PROVE  JobRight("encrypt", [fw |-> j.fw, key |-> key])
<1>1. PICK fw \in Firmwares : j = [fw |-> fw]
  BY DEF JobRight
<1>2. j.fw = fw
  BY <1>1
<1>3. QED
  BY <1>2 DEF JobRight

\* The run of a thread that has drawn its nonce base.
DrawnRun(j, base, size) == [fw |-> j.fw, key |-> j.key, base |-> base, size |-> size]

LEMMA OpenJob ==
  ASSUME NEW j, JobRight("encrypt", j), NEW base \in Nat, NEW size \in ChunkSizes,
         Encrypts(j.fw, size)
  PROVE  LET run == DrawnRun(j, base, size)
             next == [fw |-> j.fw, key |-> j.key, base |-> base, size |-> size,
                      chunks |-> EncryptFirmware(j.fw, j.key, base, size),
                      done |-> 0, offset |-> 0]
         IN /\ next = JobOf(run, 0, 0) /\ JobRight("open", next)
            /\ run \in Runs /\ RunOf(next) = run
<1> DEFINE run == DrawnRun(j, base, size)
           next == [fw |-> j.fw, key |-> j.key, base |-> base, size |-> size,
                    chunks |-> EncryptFirmware(j.fw, j.key, base, size),
                    done |-> 0, offset |-> 0]
<1>1. PICK fw \in Firmwares, key \in Keys : j = [fw |-> fw, key |-> key]
  BY DEF JobRight
<1>2. j.fw \in Firmwares /\ j.key \in Keys
  BY <1>1
<1>3. run = [fw |-> j.fw, key |-> j.key, base |-> base, size |-> size]
  BY DEF DrawnRun
<1>4. run \in Runs
  BY <1>2, <1>3 DEF Runs
<1> HIDE DEF run
<1>5. run.fw = j.fw /\ run.key = j.key /\ run.base = base /\ run.size = size
  BY <1>3
<1>6. next = JobOf(run, 0, 0)
  BY <1>5 DEF JobOf, RunChunks
<1> HIDE DEF next
<1>7. SealedJob(next) /\ RunOf(next) = run
  BY <1>4, <1>5, <1>6, SealedJobMade
<1>8. next.done = 0 /\ next.offset = 0
  BY <1>6, JobParts
<1>9. JobRight("open", next)
  BY <1>7, <1>8 DEF JobRight
<1>10. QED
  BY <1>4, <1>6, <1>7, <1>9 DEF run, next

LEMMA HeaderJob ==
  ASSUME NEW j, JobRight("open", j)
  PROVE  JobRight("header", j)
BY DEF JobRight

\* The job of a thread that goes on writing.
LEMMA ChunksJob ==
  ASSUME NEW j, SealedJob(j), j.size > 0, NEW n \in Nat, NEW done \in Nat,
         done <= Len(j.chunks)
  PROVE  LET next == [j EXCEPT !.offset = @ + n, !.done = done]
         IN /\ JobRight("chunks", next) /\ RunOf(next) = RunOf(j)
            /\ next.done = done /\ next.offset = j.offset + n
<1> DEFINE next == [j EXCEPT !.offset = @ + n, !.done = done]
           run == RunOf(j)
           offset == j.offset + n
<1>1. SealedJob(next) /\ RunOf(next) = run /\ next = JobOf(run, done, offset)
  BY JobWrites
<1>2. j.size = run.size /\ j.chunks = RunChunks(run)
  BY SealedJobParts
<1> HIDE DEF next, run, offset
<1>3. next.size = run.size /\ next.chunks = RunChunks(run) /\ next.done = done
      /\ next.offset = offset
  BY <1>1, JobParts
<1>4. JobRight("chunks", next)
  BY <1>1, <1>2, <1>3 DEF JobRight
<1>5. QED
  BY <1>1, <1>3, <1>4 DEF next, run, offset

\* A cell before others.
LEMMA CellBefore ==
  ASSUME NEW n \in Nat, NEW cells, cells = [k \in 1 .. n |-> cells[k]], NEW first
  PROVE  /\ Len(<<first>> \o cells) = 1 + n
         /\ (<<first>> \o cells)[1] = first
         /\ \A k \in 1 .. n : (<<first>> \o cells)[1 + k] = cells[k]
<1> DEFINE S == {cells[k] : k \in 1 .. n} \cup {first}
<1>1. cells \in Seq(S) /\ Len(cells) = n /\ first \in S
  OBVIOUS
<1> HIDE DEF S
<1>2. QED
  BY <1>1

\* What is written is counted.
LEMMA Counted ==
  ASSUME NEW j, SealedJob(j), j.size > 0, NEW i \in 1 .. Len(j.chunks)
  PROVE  LET cells == <<Int32(SealedLen(j.chunks[i]))>> \o SealedCells(j.chunks[i])
         IN /\ SealedLen(j.chunks[i]) \in Nat
            /\ Len(cells) = 1 + SealedLen(j.chunks[i])
            /\ cells[1] = Int32(SealedLen(j.chunks[i]))
            /\ \A k \in 1 .. SealedLen(j.chunks[i]) :
                 cells[1 + k] = SealedCells(j.chunks[i])[k]
<1> DEFINE run == RunOf(j)
           chunk == j.chunks[i]
           n == SealedLen(chunk)
           sealedCells == SealedCells(chunk)
<1>1. run \in Runs /\ run.size > 0 /\ j.chunks = RunChunks(run)
  BY SealedJobParts
<1>2. Len(chunk.plain) \in Nat
  <2>1. Len(chunk.plain) \in 1 .. run.size /\ run.size \in Int
    BY <1>1, ChunkSizesRight, SealedJobParts
  <2>2. QED
    BY <2>1
<1> HIDE DEF chunk
<1>3. n \in Nat
  BY <1>2, PackagingAssumption DEF SealedLen
<1>4. sealedCells = [k \in 1 .. n |-> [of |-> chunk, at |-> k]]
  BY DEF SealedCells
<1> HIDE DEF n, sealedCells
<1> DEFINE first == Int32(n)
<1>5. sealedCells = [k \in 1 .. n |-> sealedCells[k]]
  BY <1>4
<1> HIDE DEF first
<1>6. /\ Len(<<first>> \o sealedCells) = 1 + n
      /\ (<<first>> \o sealedCells)[1] = first
      /\ \A k \in 1 .. n : (<<first>> \o sealedCells)[1 + k] = sealedCells[k]
  BY <1>3, <1>5, CellBefore
<1>7. QED
  BY <1>3, <1>6 DEF first, n, sealedCells, chunk

\* A write of the thread, by what it does to the job and to the file.
LEMMA WritesGoOn ==
  ASSUME NEW t \in Threads, NEW cells, NEW n, NEW done, Writes(t, cells, done), Len(cells) = n
  PROVE  LET j == job[t]
         IN /\ GoesOn(t, "chunks", [j EXCEPT !.offset = @ + n, !.done = done])
            /\ file' = Overwritten(file, j.offset, cells)
BY DEF Writes

LEMMA HeaderWrites ==
  ASSUME JobsRight, NEW t \in Threads, WriteHeader(t)
  PROVE  LET j == job[t]
             next == [j EXCEPT !.offset = @ + 2, !.done = 0]
         IN /\ pc[t] = "header" /\ SealedJob(j) /\ j.offset = 0
            /\ \/ Ends(t, "failed") /\ UNCHANGED file
               \/ /\ j.size > 0 /\ UNCHANGED log
                  /\ GoesOn(t, "chunks", next) /\ JobRight("chunks", next)
                  /\ file' = Overwritten(file, 0, <<Int32(Len(j.chunks)), Int32(j.size)>>)
<1> DEFINE j == job[t]
           next == [j EXCEPT !.offset = @ + 2, !.done = 0]
<1>1. pc[t] = "header" /\ JobRight(pc[t], j)
  BY DEF WriteHeader, JobsRight
<1>2. SealedJob(j) /\ j.offset = 0
  BY <1>1 DEF JobRight
<1>3. CASE Ends(t, "failed") /\ UNCHANGED file
  BY <1>1, <1>2, <1>3
<1>4. CASE /\ j.size > 0 /\ UNCHANGED log
           /\ Writes(t, <<Int32(Len(j.chunks)), Int32(j.size)>>, 0)
  <2> DEFINE cells == <<Int32(Len(j.chunks)), Int32(j.size)>>
  <2>1. Len(cells) = 2
    OBVIOUS
  <2>2. Writes(t, cells, 0)
    BY <1>4
  <2> HIDE DEF cells
  <2>3. GoesOn(t, "chunks", next) /\ file' = Overwritten(file, j.offset, cells)
    BY <2>1, <2>2, WritesGoOn
  <2>4. Len(j.chunks) \in Nat /\ SealedJob(j) /\ j.size > 0
    BY <1>2, <1>4, SealedJobParts
  <2>5. JobRight("chunks", next)
    <3> HIDE DEF j
    <3>1. 2 \in Nat /\ 0 \in Nat /\ 0 <= Len(j.chunks)
      BY <2>4
    <3>2. QED
      BY <2>4, <3>1, ChunksJob
  <2>6. QED
    BY <1>1, <1>2, <1>4, <2>3, <2>5 DEF cells
<1>5. QED
  BY <1>3, <1>4 DEF WriteHeader

LEMMA ChunkWrites ==
  ASSUME JobsRight, NEW t \in Threads, WriteChunk(t)
  PROVE  LET j == job[t]
             chunk == j.chunks[j.done + 1]
             next == [j EXCEPT !.offset = @ + (1 + SealedLen(chunk)), !.done = j.done + 1]
         IN /\ pc[t] = "chunks" /\ SealedJob(j) /\ j.size > 0 /\ j.done < Len(j.chunks)
            /\ \/ Ends(t, "failed") /\ UNCHANGED file
               \/ /\ UNCHANGED log
                  /\ GoesOn(t, "chunks", next) /\ JobRight("chunks", next)
                  /\ file' = Overwritten(file, j.offset,
                                         <<Int32(SealedLen(chunk))>> \o SealedCells(chunk))
<1> DEFINE j == job[t]
           i == j.done + 1
           chunk == j.chunks[i]
           n == 1 + SealedLen(chunk)
           next == [j EXCEPT !.offset = @ + n, !.done = i]
           cells == <<Int32(SealedLen(chunk))>> \o SealedCells(chunk)
<1>1. pc[t] = "chunks" /\ JobRight(pc[t], j) /\ j.done < Len(j.chunks)
  BY DEF WriteChunk, JobsRight
<1>2. SealedJob(j) /\ j.size > 0
  BY <1>1 DEF JobRight
<1>3. i \in 1 .. Len(j.chunks) /\ Len(j.chunks) \in Nat /\ i \in Nat
  <2>1. Len(j.chunks) \in Nat /\ j.done \in Nat
    BY <1>2, SealedJobParts DEF SealedJob
  <2>2. QED
    BY <1>1, <2>1
<1>4. n \in Nat /\ Len(cells) = n
  <2> HIDE DEF j, i
  <2>1. SealedLen(chunk) \in Nat /\ Len(cells) = 1 + SealedLen(chunk)
    BY <1>2, <1>3, Counted
  <2>2. QED
    BY <2>1
<1>5. CASE Ends(t, "failed") /\ UNCHANGED file
  BY <1>1, <1>2, <1>5
<1>6. CASE Writes(t, cells, i) /\ UNCHANGED log
  <2> HIDE DEF cells, n
  <2>1. GoesOn(t, "chunks", next) /\ file' = Overwritten(file, j.offset, cells)
    BY <1>4, <1>6, WritesGoOn
  <2>2. JobRight("chunks", next)
    <3> HIDE DEF j, i
    <3>1. i <= Len(j.chunks) /\ i \in Nat
      BY <1>3
    <3>2. QED
      BY <1>2, <1>4, <3>1, ChunksJob
  <2>3. QED
    BY <1>1, <1>2, <1>6, <2>1, <2>2 DEF cells, n
<1>7. QED
  BY <1>5, <1>6 DEF WriteChunk

LEMMA Encrypted ==
  ASSUME JobsRight, drawn \in Nat, NEW t \in Threads, Encrypt(t)
  PROVE  /\ pc[t] = "encrypt" /\ drawn' \in {drawn, drawn + 1}
         /\ \/ Ends(t, "failed") /\ UNCHANGED sealed
            \/ \E run \in Runs :
                 /\ run.fw = job[t].fw /\ run.key = job[t].key /\ run.base = drawn + 1
                 /\ drawn' = drawn + 1 /\ UNCHANGED log
                 /\ sealed' = sealed \cup {RunChunks(run)[i] : i \in 1 .. Len(RunChunks(run))}
                 /\ GoesOn(t, "open", JobOf(run, 0, 0)) /\ JobRight("open", JobOf(run, 0, 0))
                 /\ RunOf(JobOf(run, 0, 0)) = run
<1> DEFINE j == job[t]
           base == drawn + 1
<1>1. pc[t] = "encrypt" /\ JobRight("encrypt", j) /\ base \in Nat
  BY DEF Encrypt, JobsRight
<1>2. CASE Ends(t, "failed") /\ UNCHANGED sealed /\ drawn' \in {drawn, base}
  BY <1>1, <1>2
<1>3. ASSUME drawn' = base, UNCHANGED log,
             NEW size \in ChunkSizes, Encrypts(j.fw, size),
             LET chunks == EncryptFirmware(j.fw, j.key, base, size)
             IN /\ sealed' = sealed \cup {chunks[i] : i \in 1 .. Len(chunks)}
                /\ GoesOn(t, "open", [fw |-> j.fw, key |-> j.key, base |-> base, size |-> size,
                                      chunks |-> chunks, done |-> 0, offset |-> 0])
      PROVE  \E run \in Runs :
               /\ run.fw = j.fw /\ run.key = j.key /\ run.base = base
               /\ sealed' = sealed \cup {RunChunks(run)[i] : i \in 1 .. Len(RunChunks(run))}
               /\ GoesOn(t, "open", JobOf(run, 0, 0)) /\ JobRight("open", JobOf(run, 0, 0))
               /\ RunOf(JobOf(run, 0, 0)) = run
  <2> DEFINE run == DrawnRun(j, base, size)
             chunks == EncryptFirmware(j.fw, j.key, base, size)
             next == [fw |-> j.fw, key |-> j.key, base |-> base, size |-> size,
                      chunks |-> chunks, done |-> 0, offset |-> 0]
  <2>1. next = JobOf(run, 0, 0) /\ JobRight("open", next) /\ run \in Runs /\ RunOf(next) = run
    BY <1>1, <1>3, OpenJob
  <2>2. run.fw = j.fw /\ run.key = j.key /\ run.base = base /\ run.size = size
    BY DEF DrawnRun
  <2> HIDE DEF run
  <2>3. RunChunks(run) = chunks
    BY <2>2 DEF RunChunks
  <2>4. GoesOn(t, "open", next) /\ sealed' = sealed \cup {chunks[i] : i \in 1 .. Len(chunks)}
    BY <1>3
  <2> HIDE DEF next, chunks
  <2>5. QED
    BY <2>1, <2>2, <2>3, <2>4
<1>4. QED
  BY <1>1, <1>2, <1>3 DEF Encrypt

\* A thread that ends, or opens the file.
LEMMA EndsWell ==
  ASSUME JobsRight, NEW t \in Threads, NEW result, Ends(t, result)
  PROVE  JobsRight' /\ GoesOn(t, "idle", NoJob) /\ log' = result
BY JobsMove, IdleJob DEF Ends

\* Every step of a thread leaves it at a job that is right, and its place is
\* next; it may draw a nonce base only where it was about to.
LEMMA StepMoves ==
  ASSUME JobsRight, drawn \in Nat, NEW t \in Threads, PackagerStep(t)
  PROVE  \E next, newJob :
           /\ GoesOn(t, next, newJob) /\ JobRight(next, newJob) /\ pc[t] # "idle"
           /\ \/ drawn' = drawn /\ next \notin {"key", "encrypt"}
              \/ drawn' = drawn + 1 /\ pc[t] = "encrypt" /\ next \notin {"key", "encrypt"}
              \/ drawn' = drawn /\ pc[t] = "key" /\ next = "encrypt"
<1>1. JobRight(pc[t], job[t])
  BY DEF JobsRight
<1>2. CASE ResolveKey(t)
  <2>1. pc[t] = "key" /\ drawn' = drawn
    BY <1>2 DEF ResolveKey
  <2>2. CASE Ends(t, "failed")
    BY <2>1, <2>2, IdleJob DEF Ends
  <2>3. CASE \E key \in Keys : GoesOn(t, "encrypt", [fw |-> job[t].fw, key |-> key])
    <3>1. PICK key \in Keys : GoesOn(t, "encrypt", [fw |-> job[t].fw, key |-> key])
      BY <2>3
    <3>2. JobRight("encrypt", [fw |-> job[t].fw, key |-> key])
      BY <1>1, <2>1, EncryptJob
    <3>3. QED
      BY <2>1, <3>1, <3>2
  <2>4. QED
    BY <1>2, <2>2, <2>3 DEF ResolveKey
<1>3. CASE Encrypt(t)
  <2>1. pc[t] = "encrypt" /\ drawn' \in {drawn, drawn + 1}
    BY <1>3, Encrypted
  <2>2. CASE Ends(t, "failed")
    BY <2>1, <2>2, IdleJob DEF Ends
  <2>3. CASE \E run \in Runs : GoesOn(t, "open", JobOf(run, 0, 0))
                               /\ JobRight("open", JobOf(run, 0, 0))
    BY <2>1, <2>3
  <2>4. QED
    BY <1>3, <2>2, <2>3, Encrypted
<1>4. CASE OpenFile(t)
  <2>1. pc[t] = "open" /\ GoesOn(t, "header", job[t]) /\ drawn' = drawn
    BY <1>4 DEF OpenFile
  <2>2. JobRight("header", job[t])
    BY <1>1, <2>1, HeaderJob
  <2>3. QED
    BY <2>1, <2>2
<1>5. CASE WriteHeader(t)
  <2>1. pc[t] = "header" /\ drawn' = drawn
    BY <1>5 DEF WriteHeader
  <2>2. CASE Ends(t, "failed")
    BY <2>1, <2>2, IdleJob DEF Ends
  <2>3. CASE ~Ends(t, "failed")
    <3>1. PICK newJob : GoesOn(t, "chunks", newJob) /\ JobRight("chunks", newJob)
      BY <1>5, <2>3, HeaderWrites
    <3>2. QED
      BY <2>1, <3>1
  <2>4. QED
    BY <2>2, <2>3
<1>6. CASE WriteChunk(t)
  <2>1. pc[t] = "chunks" /\ drawn' = drawn
    BY <1>6 DEF WriteChunk
  <2>2. CASE Ends(t, "failed")
    BY <2>1, <2>2, IdleJob DEF Ends
  <2>3. CASE ~Ends(t, "failed")
    BY <1>6, <2>1, <2>3, ChunkWrites
  <2>4. QED
    BY <2>2, <2>3
<1>7. CASE PackageSaved(t)
  BY <1>7, IdleJob DEF PackageSaved, Ends
<1>8. QED
  BY <1>2, <1>3, <1>4, <1>5, <1>6, <1>7 DEF PackagerStep

\* The jobs stay right.
LEMMA NextJobs == JobsRight /\ drawn \in Nat /\ [PackNext]_packVars => JobsRight'
<1> SUFFICES ASSUME JobsRight, drawn \in Nat, [PackNext]_packVars
             PROVE  JobsRight'
  OBVIOUS
<1>1. ASSUME NEW t \in Threads, PackagerStep(t)
      PROVE  JobsRight'
  BY <1>1, StepMoves, JobsMove
<1>2. ASSUME NEW t \in Threads, NEW fw \in Firmwares, ClickPackage(t, fw)
      PROVE  JobsRight'
  <2>1. GoesOn(t, "key", [fw |-> fw])
    BY <1>2 DEF ClickPackage
  <2>2. QED
    BY <2>1, KeyJob, JobsMove
<1>3. CASE UNCHANGED <<pc, job>>
  BY <1>3 DEF JobsRight
<1>4. CASE Restart
  BY <1>4, IdleJob DEF Restart, JobsRight
<1>5. QED
  BY <1>1, <1>2, <1>3, <1>4 DEF PackNext, BuildManifest, packVars

LEMMA DrawingFinite ==
  /\ IsFiniteSet(Drawing) /\ Cardinality(Drawing) \in Nat
  /\ Cardinality(Drawing) <= Cardinality(Running) /\ Cardinality(Running) \in Nat
<1>1. IsFiniteSet(Threads) /\ Running \in SUBSET Threads /\ Drawing \in SUBSET Running
  BY PackagingAssumption DEF Running, Drawing
<1>2. IsFiniteSet(Running)
  BY <1>1, FS_Subset
<1>3. IsFiniteSet(Drawing) /\ Cardinality(Drawing) <= Cardinality(Running)
  BY <1>1, <1>2, FS_Subset
<1>4. QED
  BY <1>2, <1>3, FS_CardinalityType

LEMMA StepDraws ==
  ASSUME JobsRight, DrawsBounded, NEW t \in Threads, PackagerStep(t)
  PROVE  DrawsBounded'
<1>1. PICK next, newJob :
        /\ GoesOn(t, next, newJob)
        /\ \/ drawn' = drawn /\ next \notin {"key", "encrypt"}
           \/ drawn' = drawn + 1 /\ pc[t] = "encrypt" /\ next \notin {"key", "encrypt"}
           \/ drawn' = drawn /\ pc[t] = "key" /\ next = "encrypt"
  BY StepMoves DEF DrawsBounded
<1>2. pc' = [s \in Threads |-> IF s = t THEN next ELSE pc[s]]
  BY <1>1, ThreadMoves
<1>3. /\ IsFiniteSet(Drawing) /\ Cardinality(Drawing) \in Nat
      /\ drawn \in Nat /\ MaxDraws \in Nat /\ drawn + Cardinality(Drawing) <= MaxDraws
  BY DrawingFinite, PackagingAssumption DEF DrawsBounded
<1>4. CASE next \notin {"key", "encrypt"}
  <2>1. Drawing' = Drawing \ {t}
    BY <1>2, <1>4 DEF Drawing
  <2>2. Cardinality(Drawing') = IF t \in Drawing THEN Cardinality(Drawing) - 1
                                ELSE Cardinality(Drawing)
    BY <1>3, <2>1, FS_RemoveElement
  <2>3. pc[t] = "encrypt" => t \in Drawing
    BY DEF Drawing
  <2>4. QED
    BY <1>1, <1>3, <1>4, <2>2, <2>3 DEF DrawsBounded
<1>5. CASE drawn' = drawn /\ pc[t] = "key" /\ next = "encrypt"
  <2>1. Drawing' = Drawing
    BY <1>2, <1>5 DEF Drawing
  <2>2. QED
    BY <1>3, <1>5, <2>1 DEF DrawsBounded
<1>6. QED
  BY <1>1, <1>4, <1>5

LEMMA NextDraws == JobsRight /\ DrawsBounded /\ [PackNext]_packVars => DrawsBounded'
<1> SUFFICES ASSUME JobsRight, DrawsBounded, [PackNext]_packVars
             PROVE  DrawsBounded'
  OBVIOUS
<1>1. /\ IsFiniteSet(Drawing) /\ Cardinality(Drawing) \in Nat
      /\ Cardinality(Running) \in Nat /\ Cardinality(Drawing) <= Cardinality(Running)
      /\ drawn \in Nat /\ MaxDraws \in Nat /\ drawn + Cardinality(Drawing) <= MaxDraws
  BY DrawingFinite, PackagingAssumption DEF DrawsBounded
<1>2. ASSUME NEW t \in Threads, NEW fw \in Firmwares, ClickPackage(t, fw)
      PROVE  DrawsBounded'
  <2>1. GoesOn(t, "key", [fw |-> fw]) /\ drawn' = drawn
        /\ drawn + Cardinality(Running) < MaxDraws
    BY <1>2 DEF ClickPackage
  <2>2. pc' = [s \in Threads |-> IF s = t THEN "key" ELSE pc[s]]
    BY <2>1, ThreadMoves
  <2>3. Drawing' = Drawing \cup {t}
    BY <2>2 DEF Drawing
  <2>4. Cardinality(Drawing') \in {Cardinality(Drawing), Cardinality(Drawing) + 1}
    BY <1>1, <2>3, FS_AddElement
  <2>5. QED
    BY <1>1, <2>1, <2>4 DEF DrawsBounded
<1>3. CASE \E fw \in Firmwares, size \in ChunkSizes : BuildManifest(fw, size)
  <2>1. drawn' = drawn + 1 /\ drawn + Cardinality(Running) < MaxDraws /\ Drawing' = Drawing
    BY <1>3 DEF BuildManifest, Drawing
  <2>2. QED
    BY <1>1, <2>1 DEF DrawsBounded
<1>4. CASE Restart
  <2>1. drawn' = drawn /\ Drawing' = {}
    BY <1>4 DEF Restart, Drawing
  <2>2. Cardinality(Drawing') = 0
    BY <2>1, FS_EmptySet
  <2>3. QED
    BY <1>1, <2>1, <2>2 DEF DrawsBounded
<1>5. CASE UNCHANGED packVars
  BY <1>5 DEF packVars, DrawsBounded, Drawing
<1>6. QED
  BY <1>2, <1>3, <1>4, <1>5, StepDraws DEF PackNext

\* What the tab shows, and the log.
LEMMA NextShows ==
  ASSUME PackedInv, [PackNext]_packVars
  PROVE  /\ shown' \in Keys \cup {NoKey} /\ log' \in {"none", "saved", "failed"}
         /\ overlapped' \in BOOLEAN
<1>1. /\ shown \in Keys \cup {NoKey} /\ log \in {"none", "saved", "failed"}
      /\ overlapped \in BOOLEAN
  BY DEF PackedInv
<1>2. ASSUME NEW t \in Threads, PackagerStep(t)
      PROVE  /\ shown' \in Keys \cup {NoKey} /\ log' \in {"none", "saved", "failed"}
             /\ overlapped' = overlapped
  <2>1. CASE ResolveKey(t)
    BY <1>1, <2>1 DEF ResolveKey, Ends
  <2>2. CASE Encrypt(t)
    BY <1>1, <2>2 DEF Encrypt, Ends
  <2>3. CASE OpenFile(t) \/ WriteHeader(t) \/ WriteChunk(t) \/ PackageSaved(t)
    BY <1>1, <2>3 DEF OpenFile, WriteHeader, WriteChunk, PackageSaved, Ends
  <2>4. QED
    BY <1>2, <2>1, <2>2, <2>3 DEF PackagerStep
<1>3. CASE \/ \E t \in Threads, fw \in Firmwares : ClickPackage(t, fw)
           \/ \E fw \in Firmwares, size \in ChunkSizes : BuildManifest(fw, size)
           \/ UNCHANGED packVars
  BY <1>1, <1>3 DEF ClickPackage, BuildManifest, packVars
<1>4. CASE Restart
  BY <1>1, <1>4 DEF Restart
<1>5. QED
  BY <1>1, <1>2, <1>3, <1>4 DEF PackNext

LEMMA InitPacked == PackInit => PackedInv
<1> SUFFICES ASSUME PackInit PROVE PackedInv
  OBVIOUS
<1>1. JobsRight
  BY IdleJob DEF PackInit, JobsRight
<1>2. Cardinality(Drawing) = 0
  <2>1. Drawing = {}
    BY DEF PackInit, Drawing
  <2>2. QED
    BY <2>1, FS_EmptySet
<1>3. DrawsBounded
  BY <1>2, PackagingAssumption DEF PackInit, DrawsBounded
<1>4. QED
  BY <1>1, <1>3 DEF PackInit, PackedInv

LEMMA NextPacked == PackedInv /\ [PackNext]_packVars => PackedInv'
<1> SUFFICES ASSUME PackedInv, [PackNext]_packVars PROVE PackedInv'
  OBVIOUS
<1>1. JobsRight'
  BY NextJobs DEF PackedInv, DrawsBounded
<1>2. DrawsBounded'
  BY NextDraws DEF PackedInv
<1>3. QED
  BY <1>1, <1>2, NextShows DEF PackedInv

\* A job is there while a thread is at work, and only then.
LEMMA JobOrNot ==
  ASSUME NEW state, NEW j, JobRight(state, j)
  PROVE  state = "idle" <=> j = NoJob
<1>1. CASE state = "idle"
  BY <1>1 DEF JobRight
<1>2. CASE state = "key" \/ state = "encrypt"
  BY <1>2 DEF JobRight, NoJob
<1>3. CASE state \in {"open", "header", "chunks"}
  <2>1. j = JobOf(RunOf(j), j.done, j.offset)
    BY <1>3 DEF JobRight, SealedJob
  <2>2. \A run, done, offset : JobOf(run, done, offset) # <<>>
    BY DEF JobOf
  <2>3. QED
    BY <1>3, <2>1, <2>2 DEF NoJob
<1>4. QED
  BY <1>1, <1>2, <1>3 DEF JobRight

\* What the tab shows, the log and the threads are of the kinds they should be,
\* a thread has a job exactly while it is at work, and no more nonce bases are
\* drawn than the bound lets threads and manifests draw, through failures,
\* overlapping threads and restarts (packager_controller, packager_view).
THEOREM PackTypes == PackSpec => []PackTypeOK
<1>1. PackedInv => PackTypeOK
  <2> SUFFICES ASSUME PackedInv PROVE PackTypeOK
    OBVIOUS
  <2>1. drawn \in 0 .. MaxDraws
    BY DrawingFinite, PackagingAssumption DEF PackedInv, DrawsBounded
  <2>2. \A t \in Threads :
          /\ pc[t] \in {"idle", "key", "encrypt", "open", "header", "chunks"}
          /\ pc[t] = "idle" <=> job[t] = NoJob
    <3>1. \A t \in Threads : JobRight(pc[t], job[t])
      BY DEF PackedInv, JobsRight
    <3>2. \A t \in Threads :
            pc[t] \in {"idle", "key", "encrypt", "open", "header", "chunks"}
      BY <3>1 DEF JobRight
    <3>3. QED
      BY <3>1, <3>2, JobOrNot
  <2>3. QED
    BY <2>1, <2>2 DEF PackedInv, PackTypeOK
<1>2. QED
  BY <1>1, InitPacked, NextPacked, PTL DEF PackSpec

\* Sizes compared once for all chunks.
LEMMA EstimateRight ==
  ASSUME NEW n \in Nat, NEW a \in Nat, NEW b \in Nat, a <= b
  PROVE  n * a <= n * b /\ (a = b => n * a = n * b)
OBVIOUS

LEMMA SizesOfJobs ==
  ASSUME JobsRight
  PROVE  SizesAgree
<1> SUFFICES ASSUME NEW t \in Threads, pc[t] \in {"header", "chunks"}, job[t].size > 0
             PROVE  LET chunks == job[t].chunks
                        n == Len(chunks)
                        estimate == TransferBytes(Len(job[t].fw), job[t].size)
                    IN /\ n = NumChunks(Len(job[t].fw), job[t].size)
                       /\ \A i \in 1 .. n :
                            /\ n * PacketLen(chunks[i]) <= estimate
                            /\ i < n => n * PacketLen(chunks[i]) = estimate
  BY DEF SizesAgree
<1> DEFINE run == RunOf(job[t])
           n == NumChunks(Len(run.fw), run.size)
           chunks == RunChunks(run)
<1>1. SealedJob(job[t])
  BY DEF JobsRight, JobRight
<1>2. /\ run \in Runs /\ run.size > 0
      /\ job[t].fw = run.fw /\ job[t].size = run.size /\ job[t].chunks = chunks
  BY <1>1, SealedJobParts
<1>3. run.size \in Nat /\ TagSize \in Nat /\ HeaderSize \in Nat
  BY <1>2, PackagingAssumption DEF Runs
<1>4. /\ Len(chunks) = n /\ n \in Nat
      /\ \A i \in 1 .. n :
           /\ SealedLen(chunks[i]) = Len(chunks[i].plain) + TagSize
           /\ Len(chunks[i].plain) \in 1 .. run.size
           /\ i < n => Len(chunks[i].plain) = run.size
  BY <1>2, ChunkSizesRight
<1> DEFINE most == run.size + TagSize + HeaderSize
<1>5. most \in Nat /\ TransferBytes(Len(run.fw), run.size) = n * most
  BY <1>3 DEF TransferBytes
<1> HIDE DEF run, n, chunks
<1>6. ASSUME NEW i \in 1 .. n
      PROVE  /\ n * PacketLen(chunks[i]) <= n * most
             /\ i < n => n * PacketLen(chunks[i]) = n * most
  <2> DEFINE len == PacketLen(chunks[i])
             plain == Len(chunks[i].plain)
             size == run.size
  <2>1. /\ len = HeaderSize + (plain + TagSize) /\ plain \in 1 .. size
        /\ i < n => plain = size
    BY <1>4 DEF PacketLen
  <2>2. size \in Nat
    BY <1>3
  <2> HIDE DEF len, plain
  <2>3. len \in Nat /\ len <= most /\ (i < n => len = most)
    <3> HIDE DEF size
    <3>1. most = size + TagSize + HeaderSize
      BY DEF size
    <3> HIDE DEF most
    <3>2. QED
      BY <1>3, <2>1, <2>2, <3>1
  <2> HIDE DEF most
  <2>4. n * len <= n * most /\ (i < n => n * len = n * most)
    BY <1>4, <1>5, <2>3, EstimateRight
  <2>5. QED
    BY <2>4 DEF len
<1> HIDE DEF most
<1>7. n = NumChunks(Len(run.fw), run.size)
  BY DEF n
<1>8. QED
  BY <1>2, <1>4, <1>5, <1>6, <1>7

\* The chunks of every package are as many as the manifest and the estimates
\* count, and none is longer in transit than the estimate takes it for, for any
\* firmware and chunk size (split_firmware, build, calculate_transfer_time).
THEOREM SizesAlwaysAgree == PackSpec => []SizesAgree
<1>1. PackedInv => SizesAgree
  BY SizesOfJobs DEF PackedInv
<1>2. QED
  BY <1>1, InitPacked, NextPacked, PTL DEF PackSpec

----------------------------------------------------------------------------
(* The places in the file *)

\* A chunk is behind the one before it, its length between them.
LEMMA PlaceMoves ==
  ASSUME NEW run \in Runs, run.size > 0, NEW i \in 1 .. Len(RunChunks(run))
  PROVE  /\ Place(run.fw, run.size, i) \in Nat /\ Place(run.fw, run.size, i) >= 3
         /\ SealedLen(RunChunks(run)[i]) \in Nat
         /\ Place(run.fw, run.size, i + 1)
              = Place(run.fw, run.size, i) + 1 + SealedLen(RunChunks(run)[i])
<1> DEFINE len == Len(run.fw)
           size == run.size
           n == NumChunks(len, size)
           chunk == RunChunks(run)[i]
           from == (i - 1) * size
           to == i * size
           before == (i - 1) * (1 + TagSize)
           after == i * (1 + TagSize)
           plain == Len(chunk.plain)
<1>1. len \in Nat /\ size \in Nat \ {0} /\ TagSize \in Nat /\ 1 + TagSize \in Nat \ {0}
  BY PackagingAssumption DEF Runs
<1>2. n \in Nat /\ i \in 1 .. n
      /\ SealedLen(chunk) = plain + TagSize
      /\ plain = Least(to, len) - from
      /\ plain \in 1 .. size
  BY ChunkSizesRight
<1>3. i \in Nat /\ i - 1 \in Nat /\ (i - 1) + 1 = i /\ i - 1 < n
  BY <1>2
<1>4. from < len
  BY <1>1, <1>3, ChunksCover
<1>5. from \in Nat /\ to = from + size
  BY <1>1, <1>3, Multiples
<1>6. before \in Nat /\ after = before + (1 + TagSize)
  BY <1>1, <1>3, Multiples
<1>7. Place(run.fw, size, i) = 3 + before + Least(from, len)
  BY DEF Place
<1>8. Place(run.fw, size, i + 1) = 3 + after + Least(to, len)
  BY <1>3 DEF Place
<1> HIDE DEF len, n, from, to, before, after, plain, chunk, size
<1>9. Least(from, len) = from
  BY <1>1, <1>4, <1>5 DEF Least
<1>10. plain \in Nat /\ Least(to, len) = from + plain
  <2>1. Least(to, len) \in Nat
    BY <1>1, <1>5 DEF Least
  <2>2. QED
    BY <1>1, <1>2, <1>5, <2>1
<1> DEFINE here == Place(run.fw, size, i)
           there == Place(run.fw, size, i + 1)
           long == SealedLen(chunk)
<1>11. here = 3 + before + from /\ there = 3 + after + (from + plain) /\ long = plain + TagSize
  BY <1>2, <1>7, <1>8, <1>9, <1>10
<1> HIDE DEF here, there, long
<1>12. here \in Nat /\ here >= 3 /\ long \in Nat /\ there = here + 1 + long
  BY <1>1, <1>5, <1>6, <1>10, <1>11
<1>13. QED
  BY <1>12 DEF here, there, long, size, chunk

LEMMA PlaceFirst ==
  ASSUME NEW run \in Runs
  PROVE  Place(run.fw, run.size, 1) = 3
<1> DEFINE len == Len(run.fw)
           size == run.size
<1>1. len \in Nat /\ size \in Int
  BY PackagingAssumption DEF Runs
<1>2. Place(run.fw, size, 1) = 3 + (1 - 1) * (1 + TagSize) + Least((1 - 1) * size, len)
  BY DEF Place
<1> HIDE DEF len, size
<1>3. (1 - 1) * (1 + TagSize) = 0 /\ (1 - 1) * size = 0
  BY <1>1, PackagingAssumption
<1>4. Least(0, len) = 0
  BY <1>1 DEF Least
<1>5. QED
  BY <1>2, <1>3, <1>4 DEF size

\* The places of the chunks are in the order of the chunks.
LEMMA PlaceGrows ==
  ASSUME NEW run \in Runs, run.size > 0, NEW i \in Nat \ {0}, NEW j \in Nat \ {0}, i <= j
  PROVE  /\ Place(run.fw, run.size, i) \in Nat /\ Place(run.fw, run.size, j) \in Nat
         /\ Place(run.fw, run.size, i) <= Place(run.fw, run.size, j)
         /\ Place(run.fw, run.size, i) >= 3
<1> DEFINE len == Len(run.fw)
           size == run.size
           a == i - 1
           b == j - 1
<1>1. len \in Nat /\ size \in Nat \ {0} /\ 1 + TagSize \in Nat \ {0}
  BY PackagingAssumption DEF Runs
<1>2. a \in Nat /\ b \in Nat /\ a <= b
  OBVIOUS
<1>3. /\ Place(run.fw, size, i) = 3 + a * (1 + TagSize) + Least(a * size, len)
      /\ Place(run.fw, size, j) = 3 + b * (1 + TagSize) + Least(b * size, len)
  BY DEF Place
<1> HIDE DEF len, size, a, b
<1> DEFINE fromA == a * size
           fromB == b * size
           headA == a * (1 + TagSize)
           headB == b * (1 + TagSize)
<1>4. fromA \in Nat /\ fromB \in Nat /\ fromA <= fromB
  BY <1>1, <1>2, Multiples
<1>5. headA \in Nat /\ headB \in Nat /\ headA <= headB
  BY <1>1, <1>2, Multiples
<1> HIDE DEF fromA, fromB
<1>6. /\ Least(fromA, len) \in Nat /\ Least(fromB, len) \in Nat
      /\ Least(fromA, len) <= Least(fromB, len)
  BY <1>1, <1>4 DEF Least
<1> HIDE DEF headA, headB
<1>7. /\ Place(run.fw, size, i) = 3 + headA + Least(fromA, len)
      /\ Place(run.fw, size, j) = 3 + headB + Least(fromB, len)
  BY <1>3 DEF fromA, fromB, headA, headB
<1>8. QED
  BY <1>5, <1>6, <1>7 DEF size

----------------------------------------------------------------------------
(* What is written *)

\* A sequence of a length.
OfLength(f, n) == f = [p \in 1 .. n |-> f[p]] /\ Len(f) = n

\* Cells written at the end are behind the others.
LEMMA WrittenBehind ==
  ASSUME NEW f, NEW offset \in Nat, OfLength(f, offset),
         NEW cells, NEW n \in Nat, Len(cells) = n
  PROVE  LET g == Overwritten(f, offset, cells)
         IN /\ OfLength(g, offset + n)
            /\ \A p \in 1 .. offset : g[p] = f[p]
            /\ \A k \in 1 .. n : g[offset + k] = cells[k]
<1> DEFINE g == Overwritten(f, offset, cells)
<1>1. Most(Len(f), offset + Len(cells)) = offset + n
  BY DEF Most, OfLength
<1>2. g = [i \in 1 .. offset + n |->
             IF i \in offset + 1 .. offset + n THEN cells[i - offset]
             ELSE IF i <= offset THEN f[i] ELSE Int32(0)]
  BY <1>1 DEF Overwritten, OfLength
<1> HIDE DEF g
<1>3. OfLength(g, offset + n)
  BY <1>2 DEF OfLength
<1>4. \A p \in 1 .. offset : g[p] = f[p]
  BY <1>2
<1>5. ASSUME NEW k \in 1 .. n
      PROVE  g[offset + k] = cells[k]
  <2> DEFINE i == offset + k
  <2>1. i \in 1 .. offset + n /\ i \in offset + 1 .. offset + n /\ i - offset = k
    OBVIOUS
  <2> HIDE DEF i
  <2>2. g[i] = cells[i - offset]
    BY <1>2, <2>1
  <2>3. QED
    BY <2>1, <2>2 DEF i
<1>6. QED
  BY <1>3, <1>4, <1>5 DEF g

\* The header alone.
LEMMA HeaderHeld ==
  ASSUME NEW run \in Runs
  PROVE  LET g == Overwritten(<<>>, 0, <<Int32(Len(RunChunks(run))), Int32(run.size)>>)
         IN Holds(g, run, 0) /\ Len(g) = 2
<1> DEFINE a == Int32(Len(RunChunks(run)))
           b == Int32(run.size)
           cells == <<a, b>>
           g == Overwritten(<<>>, 0, cells)
<1> HIDE DEF a, b
<1>1. Len(cells) = 2 /\ cells[1] = a /\ cells[2] = b
  OBVIOUS
<1> HIDE DEF cells
<1>2. /\ OfLength(g, 0 + 2)
      /\ \A k \in 1 .. 2 : g[0 + k] = cells[k]
  <2> DEFINE f == <<>>
  <2>1. OfLength(f, 0)
    BY DEF OfLength
  <2> HIDE DEF f
  <2> DEFINE zero == 0
             two == 2
             h == Overwritten(f, zero, cells)
  <2>2. zero \in Nat /\ two \in Nat /\ OfLength(f, zero) /\ Len(cells) = two
    BY <1>1, <2>1
  <2> HIDE DEF zero, two
  <2>3. OfLength(h, zero + two)
    BY <2>2, WrittenBehind
  <2>4. \A k \in 1 .. two : h[zero + k] = cells[k]
    BY <2>2, WrittenBehind
  <2>5. QED
    BY <2>3, <2>4 DEF f, zero, two
<1> HIDE DEF g
<1>3. g = [p \in 1 .. Len(g) |-> g[p]] /\ Len(g) = 2 /\ g[1] = a /\ g[2] = b
  BY <1>1, <1>2 DEF OfLength
<1>4. Len(g) = Place(run.fw, run.size, 0 + 1) - 1
  BY <1>3, PlaceFirst
<1>5. QED
  BY <1>3, <1>4 DEF Holds, g, cells, a, b

\* One chunk more.
LEMMA ChunkHeld ==
  ASSUME NEW run \in Runs, run.size > 0, NEW done \in Nat, done < Len(RunChunks(run)),
         NEW f, Holds(f, run, done)
  PROVE  LET chunk == RunChunks(run)[done + 1]
             cells == <<Int32(SealedLen(chunk))>> \o SealedCells(chunk)
             g == Overwritten(f, Len(f), cells)
         IN Holds(g, run, done + 1) /\ Len(g) = Len(f) + (1 + SealedLen(chunk))
<1> DEFINE chunks == RunChunks(run)
           i == done + 1
           chunk == chunks[i]
           size == SealedLen(chunk)
           cells == <<Int32(size)>> \o SealedCells(chunk)
           g == Overwritten(f, Len(f), cells)
           place(k) == Place(run.fw, run.size, k)
           offset == place(i) - 1
<1>1. Len(chunks) \in Nat /\ i \in 1 .. Len(chunks) /\ i \in Nat
  <2>1. Len(chunks) \in Nat
    BY ChunksRight
  <2>2. QED
    BY <2>1
<1>2. /\ place(i) \in Nat /\ place(i) >= 3 /\ size \in Nat
      /\ place(i + 1) = place(i) + 1 + size
  BY <1>1, PlaceMoves
<1>3. /\ Len(f) = offset /\ f = [p \in 1 .. Len(f) |-> f[p]]
      /\ f[1] = Int32(Len(chunks)) /\ f[2] = Int32(run.size)
      /\ \A k \in 1 .. done :
           /\ f[place(k)] = Int32(SealedLen(chunks[k]))
           /\ \A c \in 1 .. SealedLen(chunks[k]) : f[place(k) + c] = SealedCells(chunks[k])[c]
  BY DEF Holds
<1>4. /\ Len(cells) = 1 + size /\ cells[1] = Int32(size)
      /\ \A k \in 1 .. size : cells[1 + k] = SealedCells(chunk)[k]
  <2> DEFINE rest == SealedCells(chunk)
             first == Int32(size)
  <2> HIDE DEF chunk
  <2>1. rest = [k \in 1 .. size |-> rest[k]]
    BY DEF SealedCells
  <2> HIDE DEF rest, first, size
  <2>2. QED
    BY <1>2, <2>1, CellBefore DEF rest, first
<1> HIDE DEF chunk, cells
<1>5. offset \in Nat /\ offset >= 2 /\ 1 + size \in Nat
  <2> HIDE DEF size, place
  <2>1. QED
    BY <1>2
<1>6. /\ OfLength(g, offset + (1 + size))
      /\ \A p \in 1 .. offset : g[p] = f[p]
      /\ \A k \in 1 .. 1 + size : g[offset + k] = cells[k]
  <2> HIDE DEF size, offset
  <2>1. OfLength(f, offset)
    BY <1>3 DEF OfLength
  <2> DEFINE n == 1 + size
             h == Overwritten(f, offset, cells)
  <2>2. n \in Nat /\ Len(cells) = n
    BY <1>4, <1>5
  <2> HIDE DEF n
  <2>3. /\ OfLength(h, offset + n)
        /\ \A p \in 1 .. offset : h[p] = f[p]
        /\ \A k \in 1 .. n : h[offset + k] = cells[k]
    <3>1. OfLength(h, offset + n)
      BY <1>5, <2>1, <2>2, WrittenBehind
    <3>2. \A p \in 1 .. offset : h[p] = f[p]
      BY <1>5, <2>1, <2>2, WrittenBehind
    <3>3. \A k \in 1 .. n : h[offset + k] = cells[k]
      BY <1>5, <2>1, <2>2, WrittenBehind
    <3>4. QED
      BY <3>1, <3>2, <3>3
  <2>4. h = g
    BY <1>3
  <2> HIDE DEF g, h
  <2>5. QED
    BY <2>3, <2>4 DEF n
<1> HIDE DEF g, size
<1>7. Len(g) = place(i + 1) - 1 /\ g = [p \in 1 .. Len(g) |-> g[p]]
  <2> HIDE DEF place
  <2>1. QED
    BY <1>2, <1>6 DEF OfLength
<1>8. g[1] = Int32(Len(chunks)) /\ g[2] = Int32(run.size)
  <2> HIDE DEF offset
  <2>1. 1 \in 1 .. offset /\ 2 \in 1 .. offset
    BY <1>5
  <2>2. QED
    BY <1>3, <1>6, <2>1
<1>9. ASSUME NEW k \in 1 .. done
      PROVE  /\ g[place(k)] = Int32(SealedLen(chunks[k]))
             /\ \A c \in 1 .. SealedLen(chunks[k]) : g[place(k) + c] = SealedCells(chunks[k])[c]
  <2> DEFINE here == place(k)
             long == SealedLen(chunks[k])
  <2>1. k \in 1 .. Len(chunks) /\ k + 1 \in Nat \ {0} /\ k + 1 <= i /\ i \in Nat \ {0}
    BY <1>1
  <2>2. here \in Nat /\ here >= 3 /\ long \in Nat /\ place(k + 1) = here + 1 + long
    BY <2>1, PlaceMoves
  <2>3. place(k + 1) <= place(i)
    BY <2>1, PlaceGrows
  <2> HIDE DEF here, long, place, chunks
  <2>4. here + long <= offset
    BY <1>2, <2>2, <2>3
  <2>5. here \in 1 .. offset /\ \A c \in 1 .. long : here + c \in 1 .. offset
    BY <1>5, <2>2, <2>4
  <2>6. f[here] = Int32(long) /\ \A c \in 1 .. long : f[here + c] = SealedCells(chunks[k])[c]
    BY <1>3 DEF here, long
  <2> HIDE DEF offset
  <2>7. g[here] = Int32(long) /\ \A c \in 1 .. long : g[here + c] = SealedCells(chunks[k])[c]
    BY <1>6, <2>5, <2>6
  <2>8. QED
    BY <2>7 DEF here, long
<1>10. /\ g[place(i)] = Int32(size)
       /\ \A c \in 1 .. size : g[place(i) + c] = SealedCells(chunk)[c]
  <2> HIDE DEF place
  <2>1. offset + 1 = place(i) /\ 1 \in 1 .. 1 + size
    BY <1>2, <1>5
  <2>2. \A c \in 1 .. size : 1 + c \in 1 .. 1 + size /\ offset + (1 + c) = place(i) + c
    BY <1>2, <1>5
  <2> HIDE DEF offset
  <2>3. g[place(i)] = Int32(size)
    BY <1>4, <1>6, <2>1
  <2>4. ASSUME NEW c \in 1 .. size
        PROVE  g[place(i) + c] = SealedCells(chunk)[c]
    <3>1. g[offset + (1 + c)] = cells[1 + c] /\ offset + (1 + c) = place(i) + c
      BY <1>6, <2>2
    <3>2. QED
      BY <1>4, <3>1
  <2>5. QED
    BY <2>3, <2>4
<1>11. \A k \in 1 .. i :
         /\ g[place(k)] = Int32(SealedLen(chunks[k]))
         /\ \A c \in 1 .. SealedLen(chunks[k]) : g[place(k) + c] = SealedCells(chunks[k])[c]
  <2>1. \A k \in 1 .. i : k \in 1 .. done \/ k = i
    OBVIOUS
  <2> HIDE DEF place, i
  <2>2. QED
    BY <1>9, <1>10, <2>1 DEF size, chunk
<1>12. Holds(g, run, i)
  BY <1>7, <1>8, <1>11 DEF Holds
<1>13. QED
  BY <1>3, <1>6, <1>12 DEF g, cells, chunk, size, OfLength

----------------------------------------------------------------------------
(* What is read back *)

\* The least of some numbers.
LEMMA LeastNumber ==
  ASSUME NEW Some, Some \subseteq Nat, Some # {}
  PROVE  \E n \in Some : \A m \in Some : n <= m
<1> DEFINE F == {0 .. n : n \in Some}
<1>1. F \subseteq FiniteSubsetsOf(Nat) /\ F # {}
  <2>1. ASSUME NEW n \in Some
        PROVE  0 .. n \in FiniteSubsetsOf(Nat)
    <3>1. n \in Int /\ 0 \in Int /\ 0 .. n \in SUBSET Nat
      OBVIOUS
    <3>2. IsFiniteSet(0 .. n)
      BY <3>1, FS_Interval
    <3>3. QED
      BY <3>1, <3>2 DEF FiniteSubsetsOf
  <2>2. QED
    BY <2>1
<1>2. IsWellFoundedOn(StrictSubsetOrdering(Nat), FiniteSubsetsOf(Nat))
  BY FS_StrictSubsetOrderingWellFounded
<1>3. PICK X \in F : \A Y \in F : ~ (<<Y, X>> \in StrictSubsetOrdering(Nat))
  <2> HIDE DEF F
  <2>1. QED
    BY <1>1, <1>2, WFMin
<1>4. PICK n \in Some : X = 0 .. n
  OBVIOUS
<1>5. ASSUME NEW m \in Some, m < n
      PROVE  FALSE
  <2>1. /\ 0 .. m \in F /\ 0 .. m \subseteq 0 .. n /\ 0 .. n # 0 .. m
        /\ 0 .. n \in SUBSET Nat /\ 0 .. m \in SUBSET Nat
    BY <1>5
  <2>2. <<0 .. m, 0 .. n>> \in StrictSubsetOrdering(Nat)
    BY <2>1 DEF StrictSubsetOrdering
  <2>3. QED
    BY <1>3, <1>4, <2>1, <2>2
<1>6. QED
  BY <1>5

\* Whatever leads from chunk to chunk gives the places.
LeadsOn(f, total, P) ==
  /\ P = [i \in 1 .. total + 1 |-> P[i]] /\ P[1] = 3
  /\ \A i \in 2 .. total + 1 : P[i] = P[i - 1] + 1 + IntAt(f, P[i - 1])

LEMMA PlacesAre ==
  ASSUME NEW f, NEW total \in Nat, NEW P, LeadsOn(f, total, P)
  PROVE  \A i \in 1 .. total + 1 : Places(f, total)[i] = P[i]
<1> DEFINE at == Places(f, total)
           Follows(q) == q = [i \in 1 .. total + 1 |->
                                IF i = 1 THEN 3 ELSE q[i - 1] + 1 + IntAt(f, q[i - 1])]
<1>1. at = CHOOSE q : Follows(q)
  BY DEF Places
<1>2. Follows(P)
  <2>1. \A i \in 1 .. total + 1 : i # 1 => i \in 2 .. total + 1
    OBVIOUS
  <2>2. \A i \in 1 .. total + 1 :
          P[i] = IF i = 1 THEN 3 ELSE P[i - 1] + 1 + IntAt(f, P[i - 1])
    BY <2>1 DEF LeadsOn
  <2>3. QED
    BY <2>2 DEF LeadsOn
<1>3. Follows(at)
  <2> HIDE DEF Follows, at
  <2>1. QED
    BY <1>1, <1>2
<1> HIDE DEF at
<1> DEFINE Wrong == {i \in 1 .. total + 1 : at[i] # P[i]}
<1>4. ASSUME Wrong # {}
      PROVE  FALSE
  <2>1. PICK n \in Wrong : \A m \in Wrong : n <= m
    <3>1. Wrong \subseteq Nat
      OBVIOUS
    <3> HIDE DEF Wrong
    <3>2. QED
      BY <1>4, <3>1, LeastNumber
  <2>2. n # 1
    BY <1>3 DEF LeadsOn
  <2>3. n - 1 \in 1 .. total + 1 /\ n - 1 \notin Wrong /\ n \in 2 .. total + 1
    BY <2>1, <2>2
  <2>4. at[n - 1] = P[n - 1]
    BY <2>3
  <2>5. at[n] = at[n - 1] + 1 + IntAt(f, at[n - 1])
    BY <1>3, <2>2, <2>3
  <2>6. QED
    BY <2>1, <2>3, <2>4, <2>5 DEF LeadsOn
<1>5. QED
  BY <1>4 DEF at

LEMMA IntFound ==
  ASSUME NEW f, NEW p \in 1 .. Len(f), NEW n, f[p] = Int32(n)
  PROVE  IntAt(f, p) = n
BY DEF IntAt, Int32

\* A piece of a sequence.
LEMMA PieceOf ==
  ASSUME NEW f, NEW n \in Nat, OfLength(f, n), NEW first \in Nat \ {0}, NEW last \in Nat,
         first <= last + 1, last <= n
  PROVE  SubSeq(f, first, last) = [k \in 1 .. last + 1 - first |-> f[first + k - 1]]
<1> DEFINE S == {f[p] : p \in 1 .. n}
<1>1. f \in Seq(S) /\ Len(f) = n
  BY DEF OfLength
<1> HIDE DEF S
<1>2. QED
  BY <1>1

\* The places a reader follows are those of the chunks.
LEMMA PlacesRead ==
  ASSUME NEW run \in Runs, run.size > 0, NEW f, Holds(f, run, Len(RunChunks(run)))
  PROVE  LET n == Len(RunChunks(run))
         IN /\ IntAt(f, 1) = n /\ IntAt(f, 2) = run.size
            /\ \A i \in 1 .. n + 1 : Places(f, n)[i] = Place(run.fw, run.size, i)
            /\ Len(f) = Place(run.fw, run.size, n + 1) - 1 /\ Len(f) \in Nat
<1> DEFINE chunks == RunChunks(run)
           n == Len(chunks)
           place(i) == Place(run.fw, run.size, i)
<1>1. n \in Nat
  BY ChunksRight
<1>2. /\ Len(f) = place(n + 1) - 1 /\ f[1] = Int32(n) /\ f[2] = Int32(run.size)
      /\ \A i \in 1 .. n : f[place(i)] = Int32(SealedLen(chunks[i]))
  BY DEF Holds
<1>3. \A i \in 1 .. n : /\ place(i) \in Nat /\ place(i) >= 3 /\ SealedLen(chunks[i]) \in Nat
                        /\ place(i + 1) = place(i) + 1 + SealedLen(chunks[i])
  BY PlaceMoves
<1>4. /\ place(n + 1) \in Nat /\ place(n + 1) >= 3
      /\ \A i \in 1 .. n : place(i) <= place(n + 1) /\ place(i + 1) <= place(n + 1)
  <2>1. n + 1 \in Nat \ {0}
    BY <1>1
  <2>2. place(n + 1) \in Nat /\ place(n + 1) >= 3
    BY <2>1, PlaceGrows
  <2>3. ASSUME NEW i \in 1 .. n
        PROVE  place(i) <= place(n + 1) /\ place(i + 1) <= place(n + 1)
    <3>1. i \in Nat \ {0} /\ i + 1 \in Nat \ {0} /\ i <= n + 1 /\ i + 1 <= n + 1
      BY <1>1
    <3>2. place(i) <= place(n + 1)
      BY <2>1, <3>1, PlaceGrows
    <3>3. place(i + 1) <= place(n + 1)
      BY <2>1, <3>1, PlaceGrows
    <3>4. QED
      BY <3>2, <3>3
  <2>4. QED
    BY <2>2, <2>3
<1>5. place(1) = 3
  BY PlaceFirst
<1> HIDE DEF n, chunks, place
<1>6. Len(f) \in Nat /\ Len(f) >= 2
  BY <1>2, <1>4
<1>7. IntAt(f, 1) = n /\ IntAt(f, 2) = run.size
  <2>1. 1 \in 1 .. Len(f) /\ 2 \in 1 .. Len(f)
    BY <1>6
  <2>2. QED
    BY <1>2, <2>1, IntFound
<1>8. \A i \in 1 .. n : IntAt(f, place(i)) = SealedLen(chunks[i])
  <2>1. ASSUME NEW i \in 1 .. n
        PROVE  place(i) \in 1 .. Len(f)
    <3> DEFINE here == place(i)
               long == SealedLen(chunks[i])
               last == place(n + 1)
    <3>1. here \in Nat /\ here >= 3 /\ long \in Nat /\ here + 1 + long <= last
      BY <1>3, <1>4
    <3>2. last \in Nat /\ Len(f) = last - 1
      BY <1>2, <1>4
    <3> HIDE DEF here, long, last
    <3>3. here \in 1 .. Len(f)
      BY <1>6, <3>1, <3>2
    <3>4. QED
      BY <3>3 DEF here
  <2>2. QED
    BY <1>2, <2>1, IntFound
<1> DEFINE P == [i \in 1 .. n + 1 |-> place(i)]
<1>9. \A i \in 1 .. n + 1 : P[i] = place(i)
  OBVIOUS
<1>10. P = [i \in 1 .. n + 1 |-> P[i]] /\ P[1] = 3
  BY <1>1, <1>5
<1>11. ASSUME NEW i \in 2 .. n + 1
       PROVE  P[i] = P[i - 1] + 1 + IntAt(f, P[i - 1])
  <2> DEFINE j == i - 1
  <2>1. j \in 1 .. n /\ j \in 1 .. n + 1 /\ i \in 1 .. n + 1 /\ j + 1 = i
    BY <1>1
  <2> HIDE DEF j
  <2>2. P[i] = place(i) /\ P[j] = place(j)
    BY <1>9, <2>1
  <2>3. place(j + 1) = place(j) + 1 + IntAt(f, place(j))
    BY <1>3, <1>8, <2>1
  <2> HIDE DEF P
  <2>4. P[i] = P[j] + 1 + IntAt(f, P[j])
    BY <2>1, <2>2, <2>3
  <2>5. QED
    BY <2>4 DEF j
<1> HIDE DEF P
<1>12. LeadsOn(f, n, P)
  BY <1>10, <1>11 DEF LeadsOn
<1>13. \A i \in 1 .. n + 1 : Places(f, n)[i] = P[i]
  BY <1>1, <1>12, PlacesAre
<1>14. QED
  BY <1>2, <1>6, <1>7, <1>9, <1>13 DEF n, chunks, place

\* The bytes between two places are those of the chunk.
LEMMA CellsRead ==
  ASSUME NEW run \in Runs, run.size > 0, NEW f, Holds(f, run, Len(RunChunks(run))),
         NEW i \in 1 .. Len(RunChunks(run))
  PROVE  SubSeq(f, Place(run.fw, run.size, i) + 1, Place(run.fw, run.size, i + 1) - 1)
           = SealedCells(RunChunks(run)[i])
<1> DEFINE chunks == RunChunks(run)
           n == Len(chunks)
           here == Place(run.fw, run.size, i)
           there == Place(run.fw, run.size, i + 1)
           last == Place(run.fw, run.size, n + 1)
           long == SealedLen(chunks[i])
           len == Len(f)
           cells == SealedCells(chunks[i])
<1>1. n \in Nat
  BY ChunksRight
<1>2. here \in Nat /\ here >= 3 /\ long \in Nat /\ there = here + 1 + long
  BY PlaceMoves
<1>3. there <= last /\ last \in Nat
  <2>1. i + 1 \in Nat \ {0} /\ n + 1 \in Nat \ {0} /\ i + 1 <= n + 1
    BY <1>1
  <2>2. QED
    BY <2>1, PlaceGrows
<1>4. len = last - 1 /\ len \in Nat
  BY PlacesRead
<1>5. f = [p \in 1 .. len |-> f[p]] /\ \A k \in 1 .. long : f[here + k] = cells[k]
  BY DEF Holds
<1>6. cells = [k \in 1 .. long |-> cells[k]]
  BY DEF SealedCells
<1> HIDE DEF chunks, n, here, there, last, long, len, cells
<1> DEFINE first == here + 1
           end == there - 1
<1>7. /\ first \in Nat \ {0} /\ end \in Nat /\ first <= end + 1 /\ end <= len
      /\ end + 1 - first = long
  BY <1>2, <1>3, <1>4
<1>8. OfLength(f, len)
  BY <1>5 DEF OfLength, len
<1>9. \A k \in 1 .. long : first + k - 1 = here + k
  BY <1>2
<1> HIDE DEF first, end
<1>10. SubSeq(f, first, end) = [k \in 1 .. end + 1 - first |-> f[first + k - 1]]
  BY <1>4, <1>7, <1>8, PieceOf
<1>11. SubSeq(f, first, end) = [k \in 1 .. long |-> cells[k]]
  <2>1. \A k \in 1 .. long : f[first + k - 1] = cells[k]
    BY <1>5, <1>9
  <2>2. QED
    BY <1>7, <1>10, <2>1
<1>12. SubSeq(f, first, end) = cells
  BY <1>6, <1>11
<1>13. QED
  BY <1>12 DEF first, end, here, there, cells, chunks

\* A reader with the key gets the firmware back.
LEMMA HeldReadsBack ==
  ASSUME NEW run \in Runs, run.size > 0, WasSealed(run, drawn, sealed),
         NEW f, Holds(f, run, Len(RunChunks(run)))
  PROVE  ReadsBack(f, run.key, run.fw)
<1> DEFINE chunks == RunChunks(run)
           n == Len(chunks)
           total == IntAt(f, 1)
           size == IntAt(f, 2)
           at == Places(f, total)
           fw == run.fw
           place(i) == Place(fw, run.size, i)
<1>1. /\ total = n /\ size = run.size
      /\ \A i \in 1 .. n + 1 : at[i] = place(i)
      /\ Len(f) = place(n + 1) - 1
  BY PlacesRead
<1>2. n \in Nat
  BY ChunksRight
<1>3. \A i \in 1 .. n : SubSeq(f, place(i) + 1, place(i + 1) - 1) = SealedCells(chunks[i])
  BY CellsRead
<1>4. ASSUME NEW i \in 1 .. n
      PROVE  /\ chunks[i].key = run.key /\ chunks[i].nonce = ChunkNonce(run.base, i - 1)
             /\ chunks[i].ad = [index |-> i - 1, total |-> n]
  <2>1. chunks[i] = [key |-> run.key, nonce |-> ChunkNonce(run.base, i - 1),
                     ad |-> [index |-> i - 1, total |-> n],
                     plain |-> SplitFirmware(fw, run.size)[i]]
    BY ChunksRight
  <2> HIDE DEF chunks
  <2>2. QED
    BY <2>1
<1>5. /\ n * run.size >= Len(fw)
      /\ \A i \in 1 .. n :
           /\ Len(chunks[i].plain) = Least(run.size, Len(fw) - (i - 1) * run.size)
           /\ \A k \in 1 .. Len(chunks[i].plain) :
                chunks[i].plain[k] = fw[(i - 1) * run.size + k]
  BY ChunkSizesRight
<1>6. run.base \in 1 .. drawn /\ \A i \in 1 .. n : chunks[i] \in sealed
  BY DEF WasSealed
<1> HIDE DEF chunks, n, total, size, at, fw, place
<1>7. Len(f) = at[total + 1] - 1
  BY <1>1, <1>2
<1>8. ASSUME NEW i \in 1 .. total
      PROVE  LET chunk == chunks[i]
             IN /\ SubSeq(f, at[i] + 1, at[i + 1] - 1) = SealedCells(chunk)
                /\ chunk.key = run.key /\ chunk.nonce = ChunkNonce(run.base, i - 1)
                /\ chunk.ad = [index |-> i - 1, total |-> total]
                /\ \A k \in 1 .. Len(chunk.plain) : chunk.plain[k] = fw[(i - 1) * size + k]
                /\ Len(chunk.plain) = Least(size, Len(fw) - (i - 1) * size)
                /\ chunk \in sealed
  <2>1. i \in 1 .. n /\ i \in 1 .. n + 1 /\ i + 1 \in 1 .. n + 1
    BY <1>1, <1>2
  <2>2. at[i] = place(i) /\ at[i + 1] = place(i + 1)
    BY <1>1, <2>1
  <2>3. SubSeq(f, at[i] + 1, at[i + 1] - 1) = SealedCells(chunks[i])
    BY <1>3, <2>1, <2>2
  <2>4. QED
    BY <1>1, <1>4, <1>5, <1>6, <2>1, <2>3
<1>9. total * size >= Len(fw)
  BY <1>1, <1>5
<1>10. \E base \in 1 .. drawn : \A i \in 1 .. total : \E chunk \in sealed :
         /\ SubSeq(f, at[i] + 1, at[i + 1] - 1) = SealedCells(chunk)
         /\ chunk.key = run.key /\ chunk.nonce = ChunkNonce(base, i - 1)
         /\ chunk.ad = [index |-> i - 1, total |-> total]
         /\ \A k \in 1 .. Len(chunk.plain) : chunk.plain[k] = fw[(i - 1) * size + k]
         /\ Len(chunk.plain) = Least(size, Len(fw) - (i - 1) * size)
  BY <1>6, <1>8
<1>11. QED
  BY <1>7, <1>9, <1>10 DEF ReadsBack, total, size, at, fw

----------------------------------------------------------------------------
(* What is in the file stays what it should be *)

\* A run that was sealed stays sealed.
LEMMA SealedStays ==
  ASSUME NEW run, NEW bases \in Nat, NEW all, WasSealed(run, bases, all),
         NEW more \in {bases, bases + 1}, NEW now, all \subseteq now
  PROVE  WasSealed(run, more, now)
<1>1. run.base \in 1 .. more
  <2> DEFINE base == run.base
  <2>1. base \in 1 .. bases
    BY DEF WasSealed
  <2> HIDE DEF base
  <2>2. base \in 1 .. more
    BY <2>1
  <2>3. QED
    BY <2>2 DEF base
<1>2. QED
  BY <1>1 DEF WasSealed

\* Which runs are under way after a thread has moved.
LEMMA RunningMoves ==
  ASSUME JobsRight, NEW t \in Threads, NEW next, NEW newJob, GoesOn(t, next, newJob)
  PROVE  Running' = IF next = "idle" THEN Running \ {t} ELSE Running \cup {t}
<1>1. pc' = [s \in Threads |-> IF s = t THEN next ELSE pc[s]]
  BY ThreadMoves
<1>2. QED
  BY <1>1 DEF Running

\* The jobs, the sealed chunks and the lone run after a thread has moved, if what
\* it leaves is right.
LEMMA MovesAlone ==
  ASSUME FileInv, NEW t \in Threads, NEW next, NEW newJob,
         GoesOn(t, next, newJob), JobRight(next, newJob),
         pc[t] # "idle", overlapped' = overlapped,
         drawn' \in {drawn, drawn + 1}, sealed \subseteq sealed',
         next \in {"open", "header", "chunks"} => WasSealed(RunOf(newJob), drawn', sealed'),
         ~overlapped /\ next # "idle" =>
           /\ next # "key" => shown' = newJob.key
           /\ next = "header" => file' = <<>>
           /\ next = "chunks" => /\ Holds(file', RunOf(newJob), newJob.done)
                                 /\ newJob.offset = Len(file')
  PROVE  /\ JobsRight' /\ drawn' \in Nat
         /\ \A s \in Threads :
              pc'[s] \in {"open", "header", "chunks"} =>
                WasSealed(RunOf(job'[s]), drawn', sealed')
         /\ AloneRight'
<1>1. JobsRight /\ drawn \in Nat /\ AloneRight
  BY DEF FileInv
<1>2. JobsRight' /\ drawn' \in Nat
  BY <1>1, JobsMove
<1>3. /\ pc' = [s \in Threads |-> IF s = t THEN next ELSE pc[s]]
      /\ job' = [s \in Threads |-> IF s = t THEN newJob ELSE job[s]]
  BY <1>1, ThreadMoves
<1>4. ASSUME NEW s \in Threads, pc'[s] \in {"open", "header", "chunks"}
      PROVE  WasSealed(RunOf(job'[s]), drawn', sealed')
  <2>1. CASE s = t
    BY <1>3, <1>4, <2>1
  <2>2. CASE s # t
    <3>1. pc[s] \in {"open", "header", "chunks"} /\ job'[s] = job[s]
      BY <1>3, <1>4, <2>2
    <3>2. WasSealed(RunOf(job[s]), drawn, sealed)
      BY <3>1 DEF FileInv
    <3>3. WasSealed(RunOf(job[s]), drawn', sealed')
      BY <1>1, <3>2, SealedStays
    <3>4. QED
      BY <3>1, <3>3
  <2>3. QED
    BY <2>1, <2>2
<1>5. AloneRight'
  <2>1. CASE overlapped
    BY <2>1 DEF AloneRight
  <2>2. CASE ~overlapped
    <3>1. Running = {t}
      <4>1. t \in Running
        BY DEF Running
      <4>2. \A s, r \in Running : s = r
        BY <1>1, <2>2 DEF AloneRight
      <4>3. QED
        BY <4>1, <4>2
    <3>2. Running' = IF next = "idle" THEN {} ELSE {t}
      BY <1>1, <3>1, RunningMoves
    <3>3. pc'[t] = next /\ job'[t] = newJob
      BY <1>3
    <3>4. QED
      BY <2>2, <3>2, <3>3 DEF AloneRight
  <2>3. QED
    BY <2>1, <2>2
<1>6. QED
  BY <1>2, <1>4, <1>5

\* A saved package stays, while no thread opens the file and none ends well.
LEMMA SavedStays ==
  ASSUME FileInv, NEW t \in Threads, NEW next, NEW newJob, GoesOn(t, next, newJob),
         next \notin {"header", "chunks"} \/ saved = NoRun,
         saved' = saved, file' = file \/ saved = NoRun,
         drawn' \in {drawn, drawn + 1}, sealed \subseteq sealed',
         next # "idle" \/ log' = "failed"
  PROVE  SavedRight'
<1>1. JobsRight /\ drawn \in Nat /\ SavedRight
  BY DEF FileInv
<1>2. CASE saved = NoRun
  BY <1>2 DEF SavedRight
<1>3. CASE saved # NoRun
  <2>1. pc' = [s \in Threads |-> IF s = t THEN next ELSE pc[s]]
    BY <1>1, ThreadMoves
  <2>2. /\ saved \in Runs /\ saved.size > 0 /\ WasSealed(saved, drawn, sealed)
        /\ \A s \in Threads : pc[s] \notin {"header", "chunks"}
        /\ Holds(file, saved, Len(RunChunks(saved)))
    BY <1>1, <1>3 DEF SavedRight
  <2>3. WasSealed(saved, drawn', sealed')
    BY <1>1, <2>2, SealedStays
  <2>4. \A s \in Threads : pc'[s] \notin {"header", "chunks"}
    BY <1>3, <2>1, <2>2
  <2>5. ~(log' = "saved" /\ Running' = {})
    BY <1>1, RunningMoves
  <2>6. saved' = saved /\ file' = file
    BY <1>3
  <2>7. QED
    BY <2>2, <2>3, <2>4, <2>5, <2>6 DEF SavedRight
<1>4. QED
  BY <1>2, <1>3

\* A thread that fails.
LEMMA FailsWell ==
  ASSUME FileInv, NEW t \in Threads, pc[t] # "idle", Ends(t, "failed"),
         UNCHANGED <<file, saved, sealed, overlapped>>, drawn' \in {drawn, drawn + 1}
  PROVE  FileInv'
<1>1. GoesOn(t, "idle", NoJob) /\ JobRight("idle", NoJob) /\ log' = "failed"
  BY IdleJob DEF Ends
<1>2. /\ JobsRight' /\ drawn' \in Nat
      /\ \A s \in Threads :
           pc'[s] \in {"open", "header", "chunks"} => WasSealed(RunOf(job'[s]), drawn', sealed')
      /\ AloneRight'
  BY <1>1, MovesAlone
<1>3. SavedRight'
  BY <1>1, SavedStays
<1>4. QED
  BY <1>2, <1>3 DEF FileInv

LEMMA KeyKeepsFile ==
  ASSUME FileInv, NEW t \in Threads, ResolveKey(t)
  PROVE  FileInv'
<1>1. pc[t] = "key" /\ UNCHANGED <<file, drawn, sealed, saved, overlapped>>
  BY DEF ResolveKey
<1>2. JobRight("key", job[t]) /\ drawn \in Nat
  BY <1>1 DEF FileInv, JobsRight
<1>3. CASE Ends(t, "failed")
  BY <1>1, <1>3, FailsWell
<1>4. ASSUME NEW key \in Keys, shown' = key,
             GoesOn(t, "encrypt", [fw |-> job[t].fw, key |-> key])
      PROVE  FileInv'
  <2> DEFINE newJob == [fw |-> job[t].fw, key |-> key]
  <2>1. JobRight("encrypt", newJob) /\ newJob.key = key
    BY <1>2, EncryptJob
  <2>2. GoesOn(t, "encrypt", newJob)
    BY <1>4
  <2> HIDE DEF newJob
  <2>3. /\ JobsRight' /\ drawn' \in Nat
        /\ \A s \in Threads :
             pc'[s] \in {"open", "header", "chunks"} => WasSealed(RunOf(job'[s]), drawn', sealed')
        /\ AloneRight'
    BY <1>1, <1>4, <2>1, <2>2, MovesAlone
  <2>4. SavedRight'
    BY <1>1, <2>2, SavedStays
  <2>5. QED
    BY <2>3, <2>4 DEF FileInv
<1>5. QED
  BY <1>3, <1>4 DEF ResolveKey

LEMMA EncryptKeepsFile ==
  ASSUME FileInv, NEW t \in Threads, Encrypt(t)
  PROVE  FileInv'
<1>1. UNCHANGED <<file, shown, saved, overlapped>> /\ JobsRight /\ drawn \in Nat
  BY DEF Encrypt, FileInv
<1>2. pc[t] = "encrypt" /\ drawn' \in {drawn, drawn + 1}
  BY <1>1, Encrypted
<1>3. CASE Ends(t, "failed") /\ UNCHANGED sealed
  BY <1>1, <1>2, <1>3, FailsWell
<1>4. ASSUME NEW run \in Runs, run.key = job[t].key, run.base = drawn + 1, drawn' = drawn + 1,
             sealed' = sealed \cup {RunChunks(run)[i] : i \in 1 .. Len(RunChunks(run))},
             GoesOn(t, "open", JobOf(run, 0, 0)), JobRight("open", JobOf(run, 0, 0)),
             RunOf(JobOf(run, 0, 0)) = run
      PROVE  FileInv'
  <2> DEFINE newJob == JobOf(run, 0, 0)
             base == run.base
  <2>1. newJob.key = run.key
    BY JobParts
  <2>2. base \in 1 .. drawn'
    BY <1>1, <1>4
  <2>3. WasSealed(run, drawn', sealed') /\ sealed \subseteq sealed'
    BY <1>4, <2>2 DEF WasSealed
  <2>4. ~overlapped => shown' = newJob.key
    <3>1. t \in Running
      BY <1>2 DEF Running
    <3>2. ~overlapped => shown = job[t].key
      BY <1>2, <3>1 DEF FileInv, AloneRight
    <3>3. QED
      BY <1>1, <1>4, <2>1, <3>2
  <2>5. GoesOn(t, "open", newJob) /\ JobRight("open", newJob) /\ RunOf(newJob) = run
    BY <1>4
  <2> HIDE DEF newJob
  <2>6. /\ JobsRight' /\ drawn' \in Nat
        /\ \A s \in Threads :
             pc'[s] \in {"open", "header", "chunks"} => WasSealed(RunOf(job'[s]), drawn', sealed')
        /\ AloneRight'
    BY <1>1, <1>2, <2>3, <2>4, <2>5, MovesAlone
  <2>7. SavedRight'
    BY <1>1, <1>2, <2>3, <2>5, SavedStays
  <2>8. QED
    BY <2>6, <2>7 DEF FileInv
<1>5. QED
  BY <1>1, <1>3, <1>4, Encrypted

LEMMA OpenKeepsFile ==
  ASSUME FileInv, NEW t \in Threads, OpenFile(t)
  PROVE  FileInv'
<1>1. /\ pc[t] = "open" /\ file' = <<>> /\ saved' = NoRun /\ GoesOn(t, "header", job[t])
      /\ UNCHANGED <<shown, drawn, sealed, overlapped>>
  BY DEF OpenFile
<1>2. JobRight("header", job[t])
  BY <1>1, HeaderJob DEF FileInv, JobsRight
<1>3. WasSealed(RunOf(job[t]), drawn', sealed')
  BY <1>1 DEF FileInv
<1>4. ~overlapped => shown' = job[t].key
  <2>1. t \in Running
    BY <1>1 DEF Running
  <2>2. QED
    BY <1>1, <2>1 DEF FileInv, AloneRight
<1>5. /\ JobsRight' /\ drawn' \in Nat
      /\ \A s \in Threads :
           pc'[s] \in {"open", "header", "chunks"} => WasSealed(RunOf(job'[s]), drawn', sealed')
      /\ AloneRight'
  BY <1>1, <1>2, <1>3, <1>4, MovesAlone
<1>6. SavedRight'
  BY <1>1 DEF SavedRight
<1>7. QED
  BY <1>5, <1>6 DEF FileInv

\* A thread that has written what it should goes on.
LEMMA WriteKeepsFile ==
  ASSUME FileInv, NEW t \in Threads, pc[t] \in {"header", "chunks"}, NEW newJob,
         GoesOn(t, "chunks", newJob), JobRight("chunks", newJob),
         RunOf(newJob) = RunOf(job[t]), newJob.key = job[t].key,
         UNCHANGED <<shown, drawn, sealed, saved, overlapped>>,
         ~overlapped => Holds(file', RunOf(newJob), newJob.done) /\ newJob.offset = Len(file')
  PROVE  FileInv'
<1>1. WasSealed(RunOf(newJob), drawn', sealed')
  BY DEF FileInv
<1>2. ~overlapped => shown' = newJob.key
  <2>1. t \in Running
    BY DEF Running
  <2>2. QED
    BY <2>1 DEF FileInv, AloneRight
<1>3. /\ JobsRight' /\ drawn' \in Nat
      /\ \A s \in Threads :
           pc'[s] \in {"open", "header", "chunks"} => WasSealed(RunOf(job'[s]), drawn', sealed')
      /\ AloneRight'
  BY <1>1, <1>2, MovesAlone
<1>4. saved = NoRun
  BY DEF FileInv, SavedRight
<1>5. SavedRight'
  BY <1>4 DEF SavedRight
<1>6. QED
  BY <1>3, <1>5 DEF FileInv

LEMMA HeaderKeepsFile ==
  ASSUME FileInv, NEW t \in Threads, WriteHeader(t)
  PROVE  FileInv'
<1> DEFINE j == job[t]
           newJob == [j EXCEPT !.offset = @ + 2, !.done = 0]
           cells == <<Int32(Len(j.chunks)), Int32(j.size)>>
<1>1. UNCHANGED <<shown, drawn, sealed, saved, overlapped>> /\ JobsRight /\ drawn \in Nat
  BY DEF WriteHeader, FileInv
<1>2. pc[t] = "header" /\ SealedJob(j) /\ j.offset = 0
  BY <1>1, HeaderWrites
<1>3. CASE Ends(t, "failed") /\ UNCHANGED file
  BY <1>1, <1>2, <1>3, FailsWell
<1>4. CASE /\ j.size > 0 /\ GoesOn(t, "chunks", newJob) /\ JobRight("chunks", newJob)
           /\ file' = Overwritten(file, 0, cells)
  <2>1. Len(j.chunks) \in Nat /\ RunOf(j) \in Runs
        /\ j.chunks = RunChunks(RunOf(j)) /\ j.size = RunOf(j).size
    BY <1>2, SealedJobParts
  <2>2. RunOf(newJob) = RunOf(j) /\ newJob.done = 0 /\ newJob.offset = 2
    <3> DEFINE two == 2
               zero == 0
               next == [j EXCEPT !.offset = @ + two, !.done = zero]
    <3>1. next = newJob
      OBVIOUS
    <3>2. two \in Nat /\ zero \in Nat /\ zero <= Len(j.chunks)
      BY <2>1
    <3> HIDE DEF two, zero, j
    <3>3. RunOf(next) = RunOf(j) /\ next.done = zero /\ next.offset = j.offset + two
      BY <1>2, <1>4, <3>2, ChunksJob
    <3> HIDE DEF next, newJob
    <3>4. QED
      BY <1>2, <3>1, <3>3 DEF two, zero
  <2>3. newJob.key = j.key
    OBVIOUS
  <2>4. ~overlapped => Holds(file', RunOf(newJob), newJob.done) /\ newJob.offset = Len(file')
    <3>1. SUFFICES ASSUME ~overlapped
                   PROVE  Holds(file', RunOf(newJob), newJob.done) /\ newJob.offset = Len(file')
      OBVIOUS
    <3>2. t \in Running
      BY <1>2 DEF Running
    <3>3. file = <<>>
      BY <1>2, <3>1, <3>2 DEF FileInv, AloneRight
    <3> DEFINE run == RunOf(j)
    <3>4. file' = Overwritten(<<>>, 0, <<Int32(Len(RunChunks(run))), Int32(run.size)>>)
      BY <1>4, <2>1, <3>3
    <3>5. run \in Runs
      BY <2>1
    <3> HIDE DEF run
    <3>6. Holds(file', run, 0) /\ Len(file') = 2
      BY <3>4, <3>5, HeaderHeld
    <3> HIDE DEF newJob
    <3>7. QED
      BY <2>2, <3>6 DEF run
  <2> HIDE DEF newJob
  <2>5. QED
    BY <1>1, <1>2, <1>4, <2>2, <2>3, <2>4, WriteKeepsFile
<1>5. QED
  BY <1>1, <1>3, <1>4, HeaderWrites

LEMMA ChunkKeepsFile ==
  ASSUME FileInv, NEW t \in Threads, WriteChunk(t)
  PROVE  FileInv'
<1> DEFINE j == job[t]
           i == j.done + 1
           chunk == j.chunks[i]
           n == 1 + SealedLen(chunk)
           newJob == [j EXCEPT !.offset = @ + n, !.done = i]
           cells == <<Int32(SealedLen(chunk))>> \o SealedCells(chunk)
<1>1. UNCHANGED <<shown, drawn, sealed, saved, overlapped>> /\ JobsRight /\ drawn \in Nat
  BY DEF WriteChunk, FileInv
<1>2. pc[t] = "chunks" /\ SealedJob(j) /\ j.size > 0 /\ j.done < Len(j.chunks)
  BY <1>1, ChunkWrites
<1>3. CASE Ends(t, "failed") /\ UNCHANGED file
  BY <1>1, <1>2, <1>3, FailsWell
<1>4. CASE /\ GoesOn(t, "chunks", newJob) /\ JobRight("chunks", newJob)
           /\ file' = Overwritten(file, j.offset, cells)
  <2> DEFINE run == RunOf(j)
  <2>1. run \in Runs /\ j.chunks = RunChunks(run) /\ j.size = run.size
        /\ Len(j.chunks) \in Nat /\ j.done \in Nat
    BY <1>2, SealedJobParts DEF SealedJob
  <2>2. i \in Nat /\ i <= Len(j.chunks) /\ i \in 1 .. Len(j.chunks)
    BY <1>2, <2>1
  <2>3. n \in Nat
    <3>1. SealedLen(chunk) \in Nat
      BY <1>2, <2>1, <2>2, PlaceMoves
    <3>2. QED
      BY <3>1
  <2>4. RunOf(newJob) = run /\ newJob.done = i /\ newJob.offset = j.offset + n
    <3> HIDE DEF j, i, n
    <3>1. QED
      BY <1>2, <2>2, <2>3, ChunksJob
  <2>5. newJob.key = j.key
    OBVIOUS
  <2>6. ~overlapped => Holds(file', RunOf(newJob), newJob.done) /\ newJob.offset = Len(file')
    <3>1. SUFFICES ASSUME ~overlapped
                   PROVE  Holds(file', RunOf(newJob), newJob.done) /\ newJob.offset = Len(file')
      OBVIOUS
    <3>2. t \in Running
      BY <1>2 DEF Running
    <3>3. Holds(file, run, j.done) /\ j.offset = Len(file)
      BY <1>2, <3>1, <3>2 DEF FileInv, AloneRight
    <3>4. j.done < Len(RunChunks(run)) /\ run.size > 0 /\ chunk = RunChunks(run)[j.done + 1]
      BY <1>2, <2>1
    <3>5. file' = Overwritten(file, Len(file), cells)
      BY <1>4, <3>3
    <3> DEFINE done == j.done
    <3>6. Holds(file', run, done + 1) /\ Len(file') = Len(file) + n
      <4>1. done \in Nat /\ done < Len(RunChunks(run)) /\ Holds(file, run, done)
            /\ chunk = RunChunks(run)[done + 1]
        BY <2>1, <3>3, <3>4
      <4> HIDE DEF done, run, chunk
      <4>2. QED
        BY <2>1, <3>4, <3>5, <4>1, ChunkHeld
    <3> HIDE DEF newJob, run, n
    <3>7. QED
      BY <2>4, <3>3, <3>6
  <2> HIDE DEF newJob
  <2>7. QED
    BY <1>1, <1>2, <1>4, <2>4, <2>5, <2>6, WriteKeepsFile
<1>5. QED
  BY <1>1, <1>3, <1>4, ChunkWrites

\* A run that ends well leaves its package in the file, if it was alone.
LEMMA SavingKeepsFile ==
  ASSUME FileInv, NEW t \in Threads, PackageSaved(t)
  PROVE  FileInv'
<1> DEFINE j == job[t]
           run == RunOf(j)
<1>1. /\ pc[t] = "chunks" /\ j.done = Len(j.chunks) /\ GoesOn(t, "idle", NoJob)
      /\ UNCHANGED <<file, shown, drawn, sealed, overlapped>>
      /\ saved' = IF overlapped THEN NoRun ELSE run
  BY DEF PackageSaved, Ends, RunOf
<1>2. JobsRight /\ drawn \in Nat /\ JobRight("chunks", j) /\ JobRight("idle", NoJob)
  BY <1>1, IdleJob DEF FileInv, JobsRight
<1>3. /\ JobsRight' /\ drawn' \in Nat
      /\ \A s \in Threads :
           pc'[s] \in {"open", "header", "chunks"} => WasSealed(RunOf(job'[s]), drawn', sealed')
      /\ AloneRight'
  BY <1>1, <1>2, MovesAlone
<1>4. SavedRight'
  <2>1. CASE overlapped
    BY <1>1, <2>1 DEF SavedRight
  <2>2. CASE ~overlapped
    <3>1. t \in Running
      BY <1>1 DEF Running
    <3>2. \A s \in Running : s = t
      BY <2>2, <3>1 DEF FileInv, AloneRight
    <3>3. Holds(file, run, j.done) /\ shown = j.key
      BY <1>1, <2>2, <3>1 DEF FileInv, AloneRight
    <3>4. SealedJob(j) /\ j.size > 0
      BY <1>2 DEF JobRight
    <3>5. run \in Runs /\ run.size > 0 /\ run.key = j.key
          /\ Len(RunChunks(run)) = Len(j.chunks)
      BY <3>4, SealedJobParts
    <3>6. WasSealed(run, drawn, sealed)
      BY <1>1 DEF FileInv
    <3>7. pc' = [s \in Threads |-> IF s = t THEN "idle" ELSE pc[s]]
      BY <1>1, <1>2, ThreadMoves
    <3>8. \A s \in Threads : pc'[s] \notin {"header", "chunks"}
      BY <3>2, <3>7 DEF Running
    <3>9. saved' = run /\ file' = file /\ drawn' = drawn /\ sealed' = sealed /\ shown' = shown
      BY <1>1, <2>2
    <3> HIDE DEF run
    <3>10. QED
      BY <1>1, <3>3, <3>5, <3>6, <3>8, <3>9 DEF SavedRight
  <2>3. QED
    BY <2>1, <2>2
<1>5. QED
  BY <1>3, <1>4 DEF FileInv

LEMMA ClickKeepsFile ==
  ASSUME FileInv, NEW t \in Threads, NEW fw \in Firmwares, ClickPackage(t, fw)
  PROVE  FileInv'
<1>1. /\ pc[t] = "idle" /\ GoesOn(t, "key", [fw |-> fw]) /\ overlapped' = (Running # {})
      /\ UNCHANGED <<file, shown, log, drawn, sealed, saved>>
  BY DEF ClickPackage
<1>2. JobsRight /\ drawn \in Nat
  BY DEF FileInv
<1>3. JobsRight'
  BY <1>1, <1>2, KeyJob, JobsMove
<1>4. /\ pc' = [s \in Threads |-> IF s = t THEN "key" ELSE pc[s]]
      /\ job' = [s \in Threads |-> IF s = t THEN [fw |-> fw] ELSE job[s]]
  BY <1>1, <1>2, ThreadMoves
<1>5. ASSUME NEW s \in Threads, pc'[s] \in {"open", "header", "chunks"}
      PROVE  WasSealed(RunOf(job'[s]), drawn', sealed')
  <2>1. s # t
    BY <1>4, <1>5
  <2>2. pc[s] \in {"open", "header", "chunks"} /\ job'[s] = job[s]
    BY <1>4, <1>5, <2>1
  <2>3. WasSealed(RunOf(job[s]), drawn, sealed)
    BY <2>2 DEF FileInv
  <2>4. QED
    BY <1>1, <2>2, <2>3
<1>6. Running' = Running \cup {t}
  BY <1>1, <1>2, RunningMoves
<1>7. AloneRight'
  <2>1. CASE Running # {}
    BY <1>1, <2>1 DEF AloneRight
  <2>2. CASE Running = {}
    <3>1. Running' = {t} /\ pc'[t] = "key"
      BY <1>4, <1>6, <2>2
    <3>2. QED
      BY <3>1 DEF AloneRight
  <2>3. QED
    BY <2>1, <2>2
<1>8. SavedRight'
  BY <1>1, SavedStays
<1>9. QED
  BY <1>1, <1>2, <1>3, <1>5, <1>7, <1>8 DEF FileInv

LEMMA ManifestKeepsFile ==
  ASSUME FileInv, NEW fw \in Firmwares, NEW size \in ChunkSizes, BuildManifest(fw, size)
  PROVE  FileInv'
<1>1. /\ drawn' = drawn + 1
      /\ UNCHANGED <<file, shown, log, pc, job, sealed, saved, overlapped>>
  BY DEF BuildManifest
<1>2. JobsRight /\ drawn \in Nat /\ AloneRight /\ SavedRight
  BY DEF FileInv
<1>3. JobsRight'
  BY <1>1, <1>2 DEF JobsRight
<1>4. ASSUME NEW s \in Threads, pc[s] \in {"open", "header", "chunks"}
      PROVE  WasSealed(RunOf(job[s]), drawn', sealed)
  <2>1. WasSealed(RunOf(job[s]), drawn, sealed)
    BY <1>4 DEF FileInv
  <2>2. QED
    BY <1>1, <1>2, <2>1, SealedStays
<1>5. Running' = Running
  BY <1>1 DEF Running
<1>6. AloneRight'
  BY <1>1, <1>2, <1>5 DEF AloneRight
<1>7. SavedRight'
  <2>1. saved # NoRun => WasSealed(saved, drawn', sealed)
    BY <1>1, <1>2, SealedStays DEF SavedRight
  <2>2. QED
    BY <1>1, <1>2, <1>5, <2>1 DEF SavedRight
<1>8. QED
  BY <1>1, <1>2, <1>3, <1>4, <1>6, <1>7 DEF FileInv

LEMMA RestartKeepsFile ==
  ASSUME FileInv, Restart
  PROVE  FileInv'
<1>1. /\ pc' = [t \in Threads |-> "idle"] /\ job' = [t \in Threads |-> NoJob]
      /\ log' = "none" /\ UNCHANGED <<drawn, sealed, overlapped>>
      /\ saved' = NoRun \/ (saved' = saved /\ file' = file)
  BY DEF Restart
<1>2. JobsRight'
  BY <1>1, IdleJob DEF JobsRight
<1>3. Running' = {}
  BY <1>1 DEF Running
<1>4. AloneRight'
  BY <1>3 DEF AloneRight
<1>5. SavedRight'
  <2>1. CASE saved' = NoRun
    BY <2>1 DEF SavedRight
  <2>2. CASE saved' = saved /\ file' = file
    BY <1>1, <2>2 DEF FileInv, SavedRight
  <2>3. QED
    BY <1>1, <2>1, <2>2
<1>6. QED
  BY <1>1, <1>2, <1>4, <1>5 DEF FileInv

LEMMA InitFile == PackInit => FileInv
<1> SUFFICES ASSUME PackInit PROVE FileInv
  OBVIOUS
<1>1. JobsRight /\ drawn \in Nat
  BY InitPacked DEF PackedInv, DrawsBounded
<1>2. AloneRight /\ SavedRight
  BY DEF PackInit, AloneRight, SavedRight, Running
<1>3. QED
  BY <1>1, <1>2 DEF PackInit, FileInv

LEMMA NextFile == FileInv /\ [PackNext]_packVars => FileInv'
<1> SUFFICES ASSUME FileInv, [PackNext]_packVars PROVE FileInv'
  OBVIOUS
<1>1. ASSUME NEW t \in Threads, PackagerStep(t)
      PROVE  FileInv'
  BY <1>1, KeyKeepsFile, EncryptKeepsFile, OpenKeepsFile, HeaderKeepsFile, ChunkKeepsFile,
     SavingKeepsFile DEF PackagerStep
<1>2. CASE UNCHANGED packVars
  BY <1>2 DEF packVars, FileInv, JobsRight, AloneRight, SavedRight, Running
<1>3. QED
  BY <1>1, <1>2, ClickKeepsFile, ManifestKeepsFile, RestartKeepsFile DEF PackNext

\* A package that one run wrote while no other was under way is read back as the
\* firmware it was made of, for any firmware, chunk size and key, whatever failed,
\* overlapped or was restarted before or after; and the key the tab shows is its
\* key when the log says last that it was saved (PacketBuilder.package_firmware,
\* _package).
THEOREM PackagesReadBack == PackSpec => []PackageReadsBack
<1>1. FileInv => PackageReadsBack
  <2> SUFFICES ASSUME FileInv, saved # NoRun
               PROVE  /\ ReadsBack(file, saved.key, saved.fw)
                      /\ log = "saved" /\ Running = {} => shown = saved.key
    BY DEF PackageReadsBack
  <2>1. /\ saved \in Runs /\ saved.size > 0 /\ WasSealed(saved, drawn, sealed)
        /\ Holds(file, saved, Len(RunChunks(saved)))
        /\ log = "saved" /\ Running = {} => shown = saved.key
    BY DEF FileInv, SavedRight
  <2>2. ReadsBack(file, saved.key, saved.fw)
    BY <2>1, HeldReadsBack
  <2>3. QED
    BY <2>1, <2>2
<1>2. QED
  BY <1>1, InitFile, NextFile, PTL DEF PackSpec
=============================================================================
