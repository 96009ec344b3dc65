# Verification of the ASCON-CRA OTA framework

TLA+ models, TLC runs and TLAPS proofs for the over-the-air update framework in
`src/`: a Python server that packages firmware, an ESP32 gateway that carries
it, and an STM32F103 node that stores, verifies and starts it. `PROJECT.json`
lists the components, the runs with their mutants, the source lines behind
every definition, the hazards, the findings and the theorems; this file says
how to read them.

## 1. The system

| Part | State it keeps | Operations | Talks to |
|---|---|---|---|
| Node OTA handler (`application/src/ota_handler.c`) | `g_ota_ctx` in RAM: state, session key, nonce base, manifest, chunk counts, target address, retry count | `ota_start_session`, `ota_process_packet` (challenge, manifest, chunk, commit, NACK) | flash driver, crypto port; packets from the gateway |
| Node flash driver (`flash_driver.c`) | the flash, which survives resets | erase region, write, read | STM32 HAL |
| Node crypto port (`crypto_port.c`) | none | encrypt, decrypt, decrypt chunk, hash firmware, verify signature | ASCON code |
| ASCON code (`aead.c`, `round.h`, `permutations.h`, `word.h`) | none | authenticated encryption and decryption | – |
| Node bootloader (`bootloader/src/main.c`) | metadata in flash, read in place | choose a slot, verify it, jump | starts the application |
| Node application (`application/src/main.c`) | none yet | initialises the handler, blinks | would feed packets to the handler |
| Gateway frame parser (`protocol_parser.c`) | parser state, partial frame | feed a byte, serialise | UART bridge |
| Gateway UART bridge (`uart_bridge.c`) | UART driver buffers | send, receive with timeout | node |
| Gateway OTA cache (`ota_cache.c`) | 16 KB of RAM, counters | start, write, read, clear | the OTA manager, once written |
| Gateway tasks (`main.c`) | – | WiFi, two tasks, both mostly TODO | all of the gateway |
| Server builders (`packet_builder.py`, `manifest_builder.py`, `crypto_utils.py`) | keys | split, seal, sign | package files |
| GUI connection tab (`gui/views/connection_view.py`, `connection_controller.py`, `connection_state.py`) | one shared `CONN`, no lock; callbacks waiting for the main thread; buttons and a panel | connect and disconnect, each in a thread of its own | gateway |
| GUI packager and manifest forms (`packager_view.py`, `manifest_view.py` and their controllers) | a form each; files | package a firmware, build a manifest, each in a thread of its own | server builders |

What is hard in it:

* **Order and loss.** The link loses, repeats and delays packets; the handler
  records how many chunks it wrote, never which.
* **Partial failure.** The F1 flash programs half-words and refuses to program
  a cell twice (except with 0x0000); a write can stop in the middle of a chunk.
* **Resets.** RAM is lost and flash is kept, in the middle of an erase or a
  write; the bootloader then decides from what is left.
* **Sharing.** Bootloader, metadata, running application and new image share
  one flash, with addresses computed from the manifest's numbers.
* **Trust before the check.** The handlers decrypt in place, or into a buffer
  of fixed size, before the tag is checked and whatever the length claimed.
* **Boundaries.** The cipher works on blocks of two words; a text may end in
  the middle of either, and the code treats each of these ends in its own way.
* **Threads.** Every click of the GUI starts a thread. Connect and disconnect
  threads write one state attribute by attribute, packaging threads one file
  write by write; nothing locks either, and results reach the widgets through a
  queue of callbacks, later than they were computed. The gateway has two tasks.

What makes each part correct: the *handler* stages an image only when every
chunk of one firmware, opened under one session, is in the slot, and its
verdict is about that image, and a session ends; the *flash driver* touches only the region it is
given; the *bootloader* starts an application whenever there is one; the
*device* keeps the application it has until the new one is good; the *frame
parser* returns the frames that come unbroken, from its buffers alone; the
*bridge* loses nothing on a quiet line; the *cache* is complete only when every
chunk is there; the *connection state* is connected exactly when a transport is
open, and buttons and panel say so; the *crypto port* opens what was sealed, gives
back what was sealed, and accepts no other bytes; a *package* reads back as the firmware it was
made of, and no nonce seals two chunks.

## 2. Modules

| Module | Models | Role |
|---|---|---|
| `FlashDriver` | `flash_driver.c` over the HAL | operators |
| `OtaHandler` | `ota_handler.c`, `crypto_port.c` | the node's state machine |
| `ImageStaging` | – | what a download promises (abstract) |
| `NackHistory` | – | the handler, with the NACKs a session has outlived |
| `MCOtaHandler` + 1 cfg | – | small instances of the handler |
| `MCNackHistory` (with `OtaHandler_progress.cfg`) | – | the same, with that history |
| `OtaHandlerProofs` | – | theorems about the handler |
| `AsconWords` | `word.h`, `ascon.h` | operators: words, bytes and their bits |
| `AsconPermutation` | `round.h`, `permutations.h` | operators: the rounds |
| `AsconAead` | `aead.c` | operators: authenticated encryption |
| `AeadMode` | – | what `aead.c` and `round.h` are to compute (abstract) |
| `CryptoPort` | the ASCON functions of `crypto_port.c` | a state machine over its calls |
| `MCNode` (with `OtaHandler_safety.cfg`) | – | handler and port, small words |
| `CryptoPortProofs` | – | theorems about rounds, mode and port |
| `Bootloader` | `bootloader/src/main.c` | operators: the choice of the slot |
| `Device` | bootloader, application and handler | composition over one flash |
| `MCDevice` + 2 cfg | – | small instances of the device |
| `DeviceProofs` | – | the theorem about the device |
| `Frames` | `protocol_packet.h`, `packet_build`, `protocol_serialize` | the layout of a frame |
| `FrameCollector` | – | what a receiver of frames promises (abstract) |
| `FrameParser` | the parser of `protocol_parser.c` | operators |
| `FrameReceiver` | – | the parser under any caller, against `FrameCollector` |
| `MCFrameParser` + 1 cfg | – | a small frame format |
| `FrameParserProofs` | – | theorems about the parser |
| `UartBridge` | `uart_bridge.c`, its task in `main.c` | parser, blocks, time-out, and a sending node |
| `MCUartBridge` + 2 cfg | – | small packets on the line |
| `UartBridgeProofs` | – | theorems about the bridge |
| `OtaCache` | `ota_cache.c` | the gateway's cache |
| `MCOtaCache` + 1 cfg | – | a small buffer |
| `OtaCacheProofs` | – | theorems about the cache |
| `Connection` | the connection tab, its controller and `CONN` | threads, callbacks and widgets |
| `MCConnection` + 1 cfg | – | three clicks |
| `ConnectionProofs` | – | theorems about the connection tab |
| `Packaging` | `packet_builder.py`, `manifest_builder.py`, their forms and controllers | threads that write a package, and the manifest |
| `MCPackaging` + 2 cfg | – | small firmwares and chunk sizes |
| `PackagingProofs` | – | theorems about the packager |

### FlashDriver

The flash is a function from half-word *cells* to values. A call of the driver
is a loop of HAL calls, given by **where it stops**: an erase by the number `n`
of finished pages (`EraseStops`, `PagesErased`), a write by the number of
programmed cells (`WriteStops`, `CellsWritten`). A call that fails, a HAL fault
(`FlashFaults`) and a power failure are the same loop stopped early, so one
definition serves the three. `PaddedData` is the driver's last word, filled
with zeros. Reading outside the modelled cells finds erased flash, writing
there fails, erasing there changes nothing.

### OtaHandler

One variable per field of `g_ota_ctx`, the result of the last call, the flash, and
two history variables (`accepted`: the chunks written without error since the
manifest; `verdict`: what the hash comparison found). One action per handler;
each is atomic because the handlers run one after another in the application's
main loop. `PowerFailure` is a reset between two handlers (`Reset`) or inside
one of the two that work on the flash (`ResetDuringErase`,
`ResetDuringWrite`, and `StackOverrun`, below).

| Code | Action |
|---|---|
| `ota_start_session` | `StartSession` |
| `handle_challenge` | `HandleChallenge(key)` |
| `handle_manifest` | `HandleManifest(fw, opens)`, `BeginDownload(fw)` |
| `handle_fw_chunk` | `HandleFwChunk(fw, i, opens)`, `StoreChunk`, `CountChunk`, `StackOverrun` |
| `handle_commit` | `HandleCommit` |
| `handle_nack` | `HandleNack` |
| `default` of the switch | `UnknownPacket` |

The peer is unconstrained: `Handlers` offers every packet at any time, so
packets are lost, repeated, reordered, damaged, or replayed from another
session. Authenticated encryption is ideal: a packet opens exactly under the
key, nonce and associated data it was sealed with. That it *does* open under
them, and gives what was sealed, is what `CryptoPort` shows of the code; that it
opens under no others is an assumption about the cipher, which no model of
the code can show. The key a challenge leads to
is a free choice of `Keys`.

Modelling choices a reader should know:

* `handle_manifest` decrypts *into* `current_manifest`, so a refused packet
  leaves its contents there (`NoManifest` stands for garbage); it sets up the
  context *before* the erase, and a failed erase leaves it set up.
* It decrypts as many bytes as the packet has (up to 1008 into the 154 of the
  manifest) and looks at the tag afterwards. A packet that is too long
  therefore overwrites the fields behind `current_manifest` in `ota_context_t`, a
  beginning of them in their order: `expected_chunks`, `received_chunks`,
  `bytes_written`, `target_address`, and `last_error` with `retry_count`
  (`OverrunProgress`, `OverrunRetry`; `n` of the `Behind` fields). Nothing
  restores them when the packet is refused. `BeginDownload` sets them all before
  they are used, but for `retry_count`, which takes any value here. The
  numbers the other four take are the constant `Strays`. What the linker puts
  behind `g_ota_ctx` in RAM is not in the source and not in the model. A plain
  manifest is copied by its size.
* `handle_fw_chunk` decrypts `chunk_size` bytes, a number of the packet, into
  `decrypted[1024]` on the stack, before the tag is looked at. Chunks that fit the
  payload of a packet fit the buffer. For the others the behaviour is undefined;
  `StackOverrun` gives it the outcomes that leave the code's control intact:
  the packet is refused as any damaged one, or the return goes astray and ends in
  a fault handler, an endless loop (`stm32f1xx_it.c`) until the power is cut.
  A node that goes on to execute what was on its stack is beyond any model of
  this code, and every statement here is made without it.
* The XOR checksum is abstracted lane by lane to the set of non-zero values
  that occur an odd number of times: order is lost, pairs cancel and zeros
  leave no trace, as in the code.
* The signature check always succeeds in the source, and so it does here.
* `chunk_size` and `fw_size` are arbitrary naturals tied only by
  `total_chunks` being their quotient rounded up, as the manifest builder
  computes it; the multiplications of `uint16_t` factors fit in 32 bits.
  Nonce bases differ between manifests (the builder draws them at random).
* `retry_count` keeps its width (`RetryMod`, 256 on the device). `NackHistory`
  counts beside it the NACKs a session has outlived, since a counter that wraps
  and is overwritten does not say.

### AsconWords, AsconPermutation, AsconAead and CryptoPort

A word is the set of its bits that are set, each named by its byte in memory and
its place in the byte; exclusive or is the symmetric difference, `PAD(n)` the
lowest bit of byte `n`. The number of bytes in a word and of bits in a byte are
constants (8 and 8 on the device), and so is the initial value `IV`: nothing in
the code's block handling depends on them. Rotations and round constants are
those of the source, modulo the width.

| Code | Definition |
|---|---|
| `ROUND`: the s-box statements, the linear layer | `Substitute`, `Diffuse`, `Round(c)` |
| `P8ROUNDS`, `P12ROUNDS`, `PROUNDS` | `Rounds`, `P8Rounds`, `P12Rounds` |
| `ascon_loadkey`, `ascon_initaead`, `ascon_adata` | `LoadKey`, `InitAead`, `AData` |
| the loop and the final block of `ascon_encrypt` | `Absorb`, `AddLast`, `Absorbing`, `Output`, `Encrypt` |
| the same of `ascon_decrypt` | `Insert`, `PutLast`, `Inserting`, `Output`, `Decrypt` |
| `ascon_final`, `ascon_gettag`, `ascon_verify` | `Final`, `GetTag`, `Verify` |
| `crypto_ascon_encrypt`, `_decrypt`, `_decrypt_chunk` | `AsconEncrypt`, `AsconDecrypt`, `AsconDecryptChunk` |

A loop over blocks is the function of the states *before* each block
(`Absorbing`, `Inserting`), so that the state after the last whole block and the
bytes written on the way are read off one definition. Lengths keep their
`uint16_t` width (`LenMod`): `AsconEncrypt` reports the length of text and tag
modulo it. Only the branches this build compiles are there: a rate of 16, a key
of 16 bytes. The rounds are the loop of `PROUNDS`, which the build unrolls.

The port keeps no state. `CryptoPort` is a state machine around its calls: a
text is sealed (`Seal`), the link leaves it, changes a byte or cuts the end off
(`Alter`), and one of the two decrypting functions is called with the same or
another key, nonce and associated data (`Open`, `OpenChunk`).

`AeadMode` says what all this is to compute, without words and special cases:
data is padded with one bit and zeros, every block is added to the whole rate,
and the s-box reads only old words (`SubstituteAtOnce`).

The code's `IV` is that of Ascon-AEAD128 as the standard has it
(`ASCON_128A_IV` in `constants.h`), while the server asks its library for
"Ascon-128a" (`crypto_utils.py`). What that library computes is not in the
repository; the properties here are of the node's code alone.

### Bootloader and Device

The bootloader runs alone from reset to jump, so a start is one step: `Boot`
picks a slot of `JumpsTo(MetadataOf(flash), flash)`. What the source leaves as
TODO (signature, hash, CRC, rollback, default metadata) does nothing in the
model either. Its stores to the locked flash are ignored, or raise a fault if
`StoresFault`; since neither lands, `boot_attempts` decides nothing.
The metadata is what the cells below slot A say, read by the constant operator
`ReadMetadata`, so that a write astray would change it.

`Device` composes: `RunHandler` is a call of the handler by the application
(today a commented example in `application/src/main.c`), which crashes the
node if it changes a cell of the running slot; `RunCommit` ends in a reset;
`LosePower` is a power failure in any mode. Slot B ends where the 64 KB flash
ends, and the application of each slot is taken to be linked for it (the linker
script in the repository only links for slot A).

### Frames, FrameParser and UartBridge

A byte is a number, the CRC any pair of functions of header and payload, and
the payload length any function of the header (`LengthIn`), so that nothing
depends on the field layout. `FrameParser` keeps the parser's record with its
buffers and index; `Feed(p, byte)` gives the record after a byte and the return
value, one operator per state of the switch (`FeedIdle`, …, `FeedError`). The
buffers keep what earlier frames left. In `FrameReceiver` the parser is fed any
byte and reset at any time, and `fed` remembers which of them it was.
`CollectedIn` reads the bytes of the frame under way off the buffers, which maps
the parser to `FrameCollector`, where they are one sequence. A step of the
collector that feeds a byte is determined: the byte is skipped outside a frame,
or taken, and then the frame grows, is handed out, or is reported to be none.
Only a reset lets go of a frame.

The CRC is abstract because its table is data. As data it has one entry that
differs from the name it is given (`CRC16-CCITT`, `protocol_packet.h:83`): entry
223, on line 38 of `protocol_parser.c`, is 0x3ab2 where the polynomial 0x1021
gives 0x3a92; the other 255 agree with it. Both directions of the gateway use the
same table and the node has no CRC code yet, so that nothing inside the
repository disagrees with itself; a peer that computes the CRC from the
polynomial would refuse the frames that meet the entry.

`UartBridge` is the caller in the gateway: `Call` sets up a new parser on the
stack, `ReadBlock` takes what has arrived (`uart_read_bytes`), `FeedBlock`
feeds the next byte and ends the call at a packet, *with the rest of the
block*, `Timeout` ends it between two blocks. The node sends packets at any
pace. The line itself loses nothing, and the driver's buffer (2048 bytes) never
overflows: what is lost in the model is lost by the bridge's own code.

### OtaCache

The buffer is a function from cells to values, a chunk a value with a length
that may be short, a place, or a place and a tag. Calls come in any order.
`WriteChunk` stores a chunk that fits and counts every one, `Start` fills the
buffer, `Clear` leaves it. `total_size` and `cached_size` decide nothing and are
left out. History variables remember the chunks that came as long as each came
once and none was longer than its place.

### Connection

`conn` is `CONN`, `queue` the callbacks that `_ui` handed to the main loop,
`buttons` and `panel` the widgets. There is one action for each statement that
touches `CONN` or schedules a callback, so two threads interleave between any
two assignments. A transport is named by the thread that opened it.

| Code | Action |
|---|---|
| `_connect`, the click | `ClickAndClose(mode)` (its `CONN.close` on the main thread), `StartConnect` |
| `_connect`, the thread | `Post` (buttons off), `Open`, `Store`, `Outcome`, `Post` |
| `connect_wifi`, `connect_serial` | `Open`, `Store(t)` per attribute |
| `_disconnect` | `ClickDisconnect`, `Close(t)`, `Post` |
| `ConnectionState.close` | `Close(a)`: close both transports, then clear (`Clears`) |
| callbacks in the main loop | `UpdateButtons` |
| `_refresh_status_panel` | `RefreshStatus`, `RefreshDetails` per attribute read |
| `App._on_close` | `ClickAndClose("quit")` |

`Open` chooses between success and failure. The latency and the name of the
device are stored, cleared and shown beside the target, which stands for them;
the two scans fill in the form and leave `CONN` alone. An attribute cleared by
another thread between test and use raises an exception that `close` swallows.

`overlapped` remembers whether an operation ever began while another was
running. The buttons do not prevent it: Connect is disabled by a callback that
runs later than the click, and then a second connect, or a disconnect racing
one, can leave `CONN` connected without a transport, holding one while not
connected, or holding both. No text of the repository says otherwise, so that
this is no finding, but it is why `OrderlyConnection` and half of
`ButtonsSettle` speak of operations that did not overlap; `HandlesAreOpen`,
`PanelSettles`, the other half and `WindowRecovers` hold for all.

### Packaging

A packaging thread goes through `ResolveKey`, `Encrypt`, `OpenFile`,
`WriteHeader`, `WriteChunk` for each chunk, and `PackageSaved`; each may end in
an exception, which the thread catches and logs. Any number run at a time over
one output path. `Overwritten` is what a write does at the offset of its own file
object. `Restart` is the application closed or killed: threads are daemons and
die with it, and an unflushed tail of a file is lost; short of that, a write
reaches the file at once. `SplitFirmware`, `EncryptFirmware`, `NumChunks`,
`PacketLen` and `TransferBytes` are the computations of `packet_builder.py`;
`SealedLen` is that of an ideal cipher. `BuildManifest` is the second form, with
`MANIFEST_FORMAT` kept as its characters because the code cuts some off.

`os.urandom` never repeats a nonce base, and bases differ in the twelve bytes
that `derive_chunk_nonce` keeps.

## 3. Runs

| Run | Question | Answer |
|---|---|---|
| `handler_safety` | Do slot, count, verdict and session stay right under every packet, fault and reset, and does the download implement `ImageStaging`? Does the crypto port open what was sealed, and nothing else? | pass |
| `handler_progress` | Does a session with a persistent peer come to an end, and how many NACKs does it outlive? | pass |
| `commit_unverified` | Is a commit always of a verified image, as `checklist.md` says? | **no** |
| `device_survives` | Does a node provisioned for slot A always start slot A? | pass |
| `boot_gives_up` | Does the bootloader give up only when neither slot can start? | **no** |
| `frame_parser` | Does the parser keep to its buffers and implement `FrameCollector`? | pass |
| `bridge_line` | What does the bridge lose of what the node sends, and does it only lose? | pass |
| `bridge_unescaped` | Was every packet the bridge hands out sent by the node? | **no**, if it holds a frame |
| `gateway_cache` | Is an orderly download read back and counted exactly? | pass |
| `connection` | What do `CONN`, the buttons and the panel say once overlapping clicks are through? | pass |
| `packaging` | Does a package read back, whatever failed or ran beside it, and are nonces and sizes right? | pass |
| `package_unopenable` | Is a package sealed for the manifest that is built for it? | **no** |

The properties:

* `SlotHoldsOnlyImage` – during a download each cell of the image's place is
  erased or holds the cell of that image. Nothing of an old image, another
  session or a neighbour chunk. Needs a chunk size of whole words
  (`WordAligned`): otherwise the zero padding of one chunk spoils the next.
* `CountIsExact` – the counter equals the number of *different* chunks
  written. It holds because the flash refuses a second write, which needs a cell
  that is neither erased nor zero in every chunk (`Trackable`): a chunk of blank
  cells is written over itself without an error and counted twice, and a download
  can then end without another chunk.
* `StagedImageComplete`, `VerdictIsImageHash` – in VERIFYING the whole image is
  in flash, `bytes_written` is its size, and the verdict read back from the
  flash is the comparison of the *published* image with its manifest.
* `NackBudget` – a session outlives at most `MaxRetry` NACKs, whatever an
  over-long manifest left in the counter. The budget announced is one less: left
  at its largest value, the `uint8_t` wraps to 0 with the first NACK, and the
  third from there is the end. Nothing but a restart sets the counter back,
  and another over-long manifest gives a session another budget, so the NACKs are
  counted from the last change that was not one.
* `RunningSlotUntouched`, `SessionBinding` – action properties over every step,
  resets inside a handler included.
* `ImplementsStaging` – refinement: `StagingPhase`, `StagingFirmware`,
  `StagingHave`, `StagingVerdict` map the handler's state to `ImageStaging`.
* `OpensAsSealed` – what `crypto_ascon_encrypt` sealed opens under the same key,
  nonce and associated data, and gives the text back, for texts that end
  anywhere in a block. The length of text and tag must fit in the `uint16_t`:
  beyond it fewer bytes are sent than were sealed.
* `OpensOnlySealed` – `crypto_ascon_decrypt` accepts a buffer exactly when it is
  what sealing the text it wrote gives: no bit of text or tag escapes the tag.
* `FollowsTheMode` – the bytes are those of `AeadMode`.
* `SessionProgress` – a session in HANDSHAKE, WAIT_MANIFEST or DOWNLOADING
  leaves them for VERIFYING, ERROR or, by a reset, IDLE, unless its manifest
  announces a firmware that cannot be delivered (`Deliverable`). The run has
  one of each sort, and each does stay in DOWNLOADING for ever: without a chunk
  (`NoChunk`: every chunk is refused as past the end), with several chunks
  that end inside a word (`Unaligned`: the padding of one is what the flash
  refuses the next for), and past the end of the flash (`TooLong`). Nothing in
  the handler refuses such a manifest.
* `ApplicationSurvives` – from slot A the device only ever runs the unchanged
  application of slot A, or is on its way there in the bootloader.
* `IndexInBuffer` – the parser's index stays inside the buffer that the next
  byte is stored in, whatever length a header claims.
* `ImplementsCollector` – refinement, byte by byte: 1 is returned at the last
  byte of every frame that begins while no other is under way and comes unbroken,
  and then the packet is that frame; an error is returned exactly at the byte with
  which a frame that had begun proves to be none; no remainder of an earlier
  frame counts.
* `QuietLineLosesNothing` – if no packet is sent while another is on its way,
  and no time-out falls into a packet, all arrive in order, start and end bytes
  in a payload notwithstanding.
* `ReceivedInOrder` – at any pace, with any blocks and time-outs, packets
  without an inner start byte are lost at worst, never repeated, reordered or
  invented.
* `ServedAsCached`, `CompleteIsAll` – while each chunk comes once and no longer
  than its place, it is read back as written, and COMPLETE means that none is
  missing. Both conditions are needed: the stub counts calls, and a chunk with
  its tag runs into the next place.
* `MissingNeverWraps` – without any condition, the `uint16_t` difference of
  `ota_cache_missing_chunks` never exceeds the total.
* `HandlesAreOpen` – at rest `CONN` keeps no transport that was closed, however
  clicks overlapped: whoever closed one clears it afterwards, and a clear that
  hits a newer transport drops it.
* `OrderlyConnection` – if no operation overlapped another, connected means one
  open transport, of the mode and target named.
* `PanelSettles` – with nothing left to run, the panel shows what `CONN` says.
* `ButtonsSettle` – with nothing left to run exactly one button is enabled; if
  no operation overlapped another, Disconnect exactly when connected.
* `WindowRecovers` – both buttons disabled lead to one enabled.
* `PackageReadsBack` – a package that one run wrote with no other under way is
  read back by the documented format, chunk by chunk under one key and base, as
  the firmware; and the key on the screen is its key.
* `NonceNeverReused` – under one key no nonce seals two chunks, over repeated,
  failed and simultaneous runs.
* `SizesAgree` – splitting, the manifest's count and the estimate agree, for a
  last chunk that is full, not full, or missing.

**Findings.** (1) `handle_commit` asks for the state VERIFYING only, which a
download with a wrong hash keeps. (2) The slot is chosen by its manifest and
refused by its stack pointer afterwards, without a look at the other slot; a
node running from slot B gets there by its first update, because the target is
slot B always. (3) Frames are not escaped, although
`docs/technical/system_overview.md` says so: a parser that starts inside a
packet takes bytes of its payload for a frame and hands out a packet that was
never sent. (4) `ManifestBuilder.build` cuts four characters off its format where
the signature has three, so that `struct.pack` raises an exception and no
manifest is ever built. (5) The packager draws a nonce base of its own and puts
it nowhere; the manifest builder draws another, which could not open the
package even if the manifest were built.

**Bounds.** The handler's instances have 8 cells, 2 to a page: a running slot
of one page and an inactive slot of three. Five firmwares cover the cases the
code separates: three chunks with a last one of half a word that needs padding;
a hash that is not the node's; a blank chunk; a bad magic; an old version. Two
keys suffice to replay a chunk of another session, two lanes to let values
cancel; either key may play the part of the other (`MCSymmetry`; no definition
names one). `RetryMod` is 4, the smallest that holds the budget, so the wrap comes
at once. `Strays` is one number: 0 in the two runs of the handler, where it tells
a field that was overwritten from one a download left, and 7 elsewhere, which is no
chunk count and no cell of the slot. The run of the progress has one key,
the three sorts of firmware that cannot be delivered, and two that can. The
initial inactive slot is blank or full of an old image. Nothing
else is bounded: counts are bounded by the code's own checks. The device's
instances put two metadata cells and a slot A of two cells before the same slot
B, with every content of the first metadata cell (active slot A, B, B with an
outdated manifest, erased). Four cell values are enough: two contents, the
erased and the zero value, which the driver treats each in its own way.

The run of `handler_safety` joins the handler with the port (`NodeSpec`). As the
port keeps nothing between calls, its answers are looked at over one state of
the handler, its first, and the handler runs with nothing in the port; a step of
`NodeSpec` is a step of `Spec` or of `PortSpec` that leaves the other alone, so
that the theorems about the two apply to it. Words have two bytes of two bits, a block four
bytes. Texts of 0 to 5 bytes end at every place of a first block and at the
start and inside of a second; one of eight bytes makes a length that overflows
(`LenMod` = 12). Associated data is absent, one block long (a chunk's four
bytes), or a block and a part. Two keys and two chunk numbers ask for what was
not sealed; every single byte is changed to every other, and every end cut off.
With words of 8 bytes of 8 bits the definitions were evaluated beside a compiled
`aead.c` on sixty pairs of lengths around the block boundaries, with the same
ciphertexts and tags.

The parser's format has bytes 0 to 3, a header of three bytes of which the last
is the length (3 is too long), payloads of at most two bytes, and a checksum
with collisions; every content of every buffer and every place for an error are
reached, and the parser's state is finite without a bound. On the line, four
packets (empty, plain, with an end byte, with a start byte inside) and blocks of
at most five bytes cut every frame at every place and let two frames share a
block; `MaxSent` is 3, since loss, repetition and reordering need two packets
and a third shows what comes after. The cache has two places, an index past the
end, three lengths, and counters that wrap at 4; its calls are not bounded.

The connection has three clicks (`MaxClicks`), the second on either transport
(`Choices`), two threads at a time (`MaxRunning`) and two callbacks waiting
(`MaxPending`): enough for a connect that races a disconnect, a connect of the
other transport that overwrites the attributes of the first, and a third
operation that finds what they left. The proofs are for any number of each.
The packager has two threads, two keys, three nonce bases (`MaxDraws`: a
thread in the middle of its work counts as one), firmwares of zero, three and
four bytes, and chunk sizes from -1 to 3. A tag of one byte, a header of two and
`MaxU16` = 3 put every limit inside: 1 makes too many chunks, 2 a last one that is
not full, 3 a sealed chunk too long for its length field. The counterexample of
`package_unopenable` needs one firmware and two bases.

**Fairness.** `HistoryFairSpec` and `ConnFairSpec` assume some. `HistoryFairSpec`
(`PeerFairness`): the application starts a session,
the peer answers the HELLO and repeats the manifest and each chunk until the
node has moved on, which is the streaming with acknowledgement and
retransmission the repository plans in `docs/technical/checklist.md` (line 44).
Its manifests are plain or open at their first delivery, so that none waits for
ever. Weak fairness per packet is enough since each stays deliverable until the state
changes. No fairness is assumed of resets, NACKs, damaged or repeated packets:
they may come for ever or never. The run has no flash faults: with them a cell
may fail for ever. `ConnFairSpec`: the operating system gives every thread its
turn, the calls a thread waits in have time-outs (4 s and 2 s), and the main
loop runs its callbacks; nothing is assumed of the user. Weak fairness per thread
is enough, since a thread's next step stays enabled but for a full queue of
callbacks, which is a bound of the model and which the main loop empties. The
invariants assume nothing.

`CHECK_DEADLOCK` is off for `connection` only: the process ends with its window,
and the last click may have been made. Everywhere else a node can always be
reset, a byte, a call, a time-out or a restart always come.

**Conditions.** Some properties hold under a condition, and say nothing of what
lies outside it: chunks that end inside a word or are blank (`WordAligned`,
`Trackable`), a chunk cached twice, past the buffer or with its tag
(`CompleteIsAll`, `ServedAsCached`), operations of the connection tab that
overlap (`OrderlyConnection`, the half of `ButtonsSettle`), packaging threads that
write one file (`PackageReadsBack`). There the code does go wrong, as the entries
above say, and no text of the repository promises otherwise. `MissingNeverWraps`,
`HandlesAreOpen`, `PanelSettles`, `WindowRecovers` and `NonceNeverReused`, which
have no condition, are what remains true there.

Every property of a passing run has a mutant: a definition whose name says the
slip (`NbPages_RoundedDown`, `StoreChunk_CountFirst`, `CountChunk_Late`,
`WriteAddress_NoBase`, …), put in place of the one it is named after, makes TLC
find the property violated.

## 4. Proofs

`OtaHandlerProofs` proves every safety property of the handler, `NackBudget`
included, for all values of the constants: any flash, page size, set of
firmwares, keys, number of lanes, and any numbers an over-long manifest leaves.
The assumptions are the named `ASSUME`s of `FlashDriver`
(`FlashAssumption`) and `OtaHandler` (`FirmwareAssumption`, `NonceAssumption`,
`ContextAssumption`).

The argument is one inductive invariant, `IInv`:

* `Bound`: a session that runs has a real key, and a download has the manifest,
  nonce base, chunk count and target of one published firmware. With unique
  nonce bases it follows that a chunk which opens belongs to `current_manifest`,
  the key fact about packets (`NonceAssumption` is used there).
* `SlotHoldsOnlyImage` and `AcceptedInFlash`: chunks have disjoint places; a
  chunk's cells are erased or right before, and right after it was written.
* `CountIsExact`: by `AcceptedInFlash` an accepted chunk has a cell that holds
  content, so its second write stops early and is not counted.
* `BytesAreExact`: the byte count is a function of the set of accepted chunks.
* `EndsAtCount`: VERIFYING exactly when the count has reached the total.

`StagedImageComplete` then follows because a set of `total_chunks` different
indexes below `total_chunks` is all of them, and `VerdictIsImageHash` because
the checksum is taken over those cells. None of the properties is inductive
alone: the count needs the flash contents, which need the binding to one
firmware. What an over-long manifest overwrites matters to none of them, since
they speak of `Active` states and `BeginDownload` sets the fields anew
(`OverrunTyped`, `RefusedManifest`, `ManifestCases`).

`NackBudgetKept` is `HistorySpec => []NackBudget`. Its invariant is `BudgetLeft`:
a session that has just outlived a NACK has a counter below `MaxRetry`, and
has outlived one NACK more than the counter says at most, the one that made it
wrap. Only a NACK leads to ERROR (`OnlyNackKills`), and one that does not costs
a step of the counter (`NackSpends`).

`StagingImplemented` shows Init and every step of the handler to be
one of `ImageStaging` or a stutter.

`DeviceProofs` proves `UpdatesNeverBrick`: `DeviceSpec => []ApplicationSurvives`.
The strengthening (`DeviceInv`) adds the handler's type and binding invariants
and that nothing below slot B differs from what was provisioned; the bootloader
reads nothing else when it starts slot A, so it goes on choosing slot A. The
step uses the handler's lemmas: outside the slot no action writes. It needs
`BootAssumption`, `MetadataAssumption` and `DeviceAssumption` besides those
above.

`CryptoPortProofs` proves all three properties of the port, from
`WordAssumption`, `AeadAssumption` and `PortAssumption`: for words of any width,
any initial value, texts and associated data of any length.

* `UpdatesInPlace`: the s-box statements of `round.h` overwrite words they still
  need, and read some that are already new (`x[4]` reads the new `x[0]`, `x[1]`
  the new `x[2]`); the outcome is still that of reading only old ones, whatever
  the words.
* The loops are recursive functions over the rounds and the blocks. `LeastNumber` (a set of
  numbers that is not empty has a least one) gives `EveryNumber`, induction over
  a *set* of numbers, and with it `WayOn`: a function with a given start and step
  exists, is unique and stays in its range. `RoundsKeepStates`, `StatesAbsorbing`,
  `StatesInserting` and `StatesOfSponge` are its instances.
* `AbsorbsPadded`: the code's three cases of a block add the padded block of the
  mode. `SameWay`: decryption, which puts ciphertext in the place of words, passes
  through the states of encryption; `TextOfCipher` and `CipherOfText` then say
  that either gives back what the other made, and `TagVerifies` that the
  comparison with the tag succeeds exactly for the tag that encryption computes.
* `PortInv` says what the buffer and the answer were made from; `SealedIsOpened`,
  `OpenedIsSealed` and `SealsAsTheMode` follow from it and the lemmas above.

`FrameParserProofs` proves the parser's type and `IndexInBuffer` (one inductive
invariant: the index is right because the length was checked, the length is
that of the header because the index was right) and, on top of it,
`ParserImplements`: `ReceiverSpec => ImplementsCollector`, for every frame format,
CRC and stream of bytes, from `FrameAssumption` and `NoByteAssumption` (a reset is
told from a byte). The refinement needs in
addition what `InFrame` says: a frame under way begins with a start byte, and
its payload length is that of its header and fits. `Collects` then follows state
by state: a byte stored in a buffer is a byte appended to the frame
(`StoredGrows`), the frame grows as long as its header says
(`GrowingByHeader`), and at its last byte it is whole exactly if the end byte
and the CRC are right (`WholeByTail`).

`UartBridgeProofs` proves both properties of the bridge from `FrameAssumption`
and `BridgeAssumption` (the packets the node sends can be built, and headers,
payloads and checksums are made of bytes).

* `QuietLineKeeps`: the invariant `LineInv` says (`OneUnderWay`) that all that was
  sent was received, or all but one packet: then what the parser has taken and
  what waits, in the block and on the line, are together the frame of that
  packet. An inner start or end byte is taken like any other, since the length
  tells the end.
* `ReceivedAsSent`: the invariant `OrderInv` (`InLine`) gives every packet sent
  the place its frame has or had on the line (`from`), and every packet received
  its place among those sent (`place`). Frames do not overlap (`Laid`). If start
  bytes only start packets, the parser is at no time in the middle of a frame
  whose beginning it has not seen, so that the next packet it hands out is one
  behind all received so far.

`OtaCacheProofs` proves all four properties of the cache from
`CacheAssumption`, for every size of buffer and places and every width of the
counters. The invariant `CacheInv` says where each chunk of an orderly download
lies (`InPlace`; places have no cell in common, `PlacesApart`), that the counter
is the number of the chunks (`Counted`), and that it has not passed the total
before the status is COMPLETE (`NotYetFull`), from which `MissingNeverWraps`
follows.

`ConnectionProofs` proves all five invariants of the connection tab from
`ClicksAssumption`, for any number of clicks, threads and waiting callbacks:

* `NoClosedHandles`: a transport that is closed and still held has someone at a
  place between closing and clearing it (`ClosedCleared`); at rest there is
  nobody.
* `PanelIsCurrent`: while anyone may still write `CONN`, a refresh is due
  (`RefreshDue`); otherwise what the panel has so far is what `CONN` says
  (`PanelInv`).
* `ConnectionIsOrderly`: as long as nothing overlapped, one operation is under
  way at most (`Alone`), and its place says what `CONN` holds (`OrderlyAt`).
* `ButtonsAreRight`: with both buttons disabled, or a callback waiting that
  disables Connect, a later callback that enables one waits or is due
  (`ButtonsInv`); and the last such callback tells the truth about `CONN` if
  nothing overlapped (`Announced`).

`PackagingProofs` proves all four properties of the packager from
`PackagingAssumption`, for any firmwares, chunk sizes, keys, and any finite
number of threads (finite, since the number of nonce bases a thread in the
middle of its work stands for is counted).

* `NoncesUnique`: what was sealed was sealed under a base already drawn, the next
  run seals under a fresh one, and the chunks of one run have counters that differ.
* `PackTypes`: `PackedInv` adds to the types what each thread's job holds at the
  place the thread has come to (`JobsRight`), and that the bases drawn and those
  still due stay within the bound (`DrawsBounded`).
* `SizesAlwaysAgree`: the chunks of a firmware are its length by the chunk size,
  rounded up, each no longer than the chunk size; so `len(chunks)`, the
  manifest's division and the estimate's agree.
* `PackagesReadBack`: `FileInv` says that as long as no two runs overlap the file
  holds what the only one has written so far, and nothing else (`AloneRight`,
  `Holds`), that a run which is writing has sealed all its chunks under its key and
  a base that was drawn (`WasSealed`), and that a package which was saved is still
  in the file (`SavedRight`). The reader finds the chunks by a recursive
  function over the lengths in the file (`Places`); that it finds them where they
  were written (`PlacesAre`) is an induction over the chunks, by `LeastNumber`.

`LeastNumber` stands in for the library's induction theorem, which the
provers cannot instantiate: it is proved from the well-foundedness of strict
inclusion on finite intervals of numbers, without a bound.

**Only model-checked:** `SessionProgress` and `WindowRecovers` (liveness under
fairness is out of the prover's reach) and the four counterexamples. Every
invariant, refinement and action property of the passing runs is proved.

## 5. Not modelled, and the plan

Left out for good: the other variants and the wrappers of the vendored ASCON
code, the HAL, generated files, widgets and
colours, WiFi set-up, the server's crypto wrappers beyond what they promise. Gateway
tasks are TODO loops. `ota_abort`, `ota_get_progress`, `ota_is_active` are
declared without a body.

`uart_bridge_send` and `send_raw` write what `Serialize` gives; the driver's
buffer limit, `ota_cache_has_chunk` (always true) and the gateway's OTA manager
(a TODO) are left out. Key generation writes files with fresh contents and keeps
no state; the scans of the connection tab only fill in its form.

There is no code yet between the packager and the gateway, nor between the
gateway and the node's handler: nothing reads a package, fills the cache or puts
a chunk into a frame (`FirmwareChunk.to_bytes` has no caller). The handler is
therefore checked against every packet instead of those of a sender, and a model
of the whole delivery would be an invention.

Of the node's port, the placeholder key generation, key agreement, key
derivation and signature check (marked TODO in the source) are left out, and so
is `crypto_ascon_mac`, an encryption of no text.

Planned next: the handler's `ChunkOpens` and `ManifestOpens` tied to
`AsconDecryptChunk` and `AsconDecrypt`, as far as the code decides it, and the
bridge as an implementation of an abstract lossy line.

## 6. Running it

    tlc -workers 2 -config OtaHandler_safety.cfg MCNode
    tlc -workers 2 -config OtaHandler_progress.cfg MCNackHistory
    tlc -workers 2 -config Device_survive.cfg MCDevice
    tlc -workers 2 -config FrameParser.cfg MCFrameParser
    tlc -workers 2 -config UartBridge_line.cfg MCUartBridge
    tlc -workers 2 -config OtaCache.cfg MCOtaCache
    tlc -workers 2 -config Connection.cfg MCConnection
    tlc -workers 2 -config Packaging.cfg MCPackaging
    tlapm OtaHandlerProofs.tla
    tlapm DeviceProofs.tla
    tlapm CryptoPortProofs.tla
    tlapm FrameParserProofs.tla
    tlapm UartBridgeProofs.tla
    tlapm OtaCacheProofs.tla
    tlapm ConnectionProofs.tla
    tlapm PackagingProofs.tla
