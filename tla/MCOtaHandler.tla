---------------------------- MODULE MCOtaHandler ----------------------------
(***************************************************************************)
(* Small instances of the node's OTA handler.                              *)
(*                                                                         *)
(* The flash has the running slot (cells 0 and 1) and the inactive slot    *)
(* (cells 2 to 7) in pages of two cells, with a word per page.             *)
(***************************************************************************)
EXTENDS OtaHandler, Sequences

CONSTANTS a, b, ff, zz    \* half-word values, ff erased and zz zero

MCValues == {a, b, ff, zz}
MCNonces == {"n1", "n2", "n3", "n4", "n5", "n6", "n7", "n8"}

Image(cells) == [o \in 0 .. Len(cells) - 1 |-> cells[o + 1]]

Firmware(nonce, version, chunk, cells) ==
  [valid |-> TRUE,
   security_version |-> version,
   fw_size |-> Len(cells),
   chunk_size |-> chunk,
   total_chunks |-> (Len(cells) + chunk - 1) \div chunk,
   fw_hash |-> XorLanes(Image(cells), Len(cells)),
   nonce_base |-> nonce,
   image |-> Image(cells)]

\* Three chunks, the last one half a word.
ThreeChunks == Firmware("n1", 1, 2, <<a, b, zz, a, a>>)

\* Two chunks, and a hash that is not the node's checksum of the image.
OtherHash == [Firmware("n2", 2, 2, <<b, a, b, ff>>)
               EXCEPT !.fw_hash = [lane \in 0 .. HashLanes - 1 |-> {}]]

\* One of its two chunks is blank.
BlankChunk == Firmware("n3", 1, 2, <<zz, ff, a, a>>)

BadMagic == [Firmware("n4", 1, 2, <<a, a>>) EXCEPT !.valid = FALSE]
OldVersion == Firmware("n5", 0, 2, <<a, a>>)

\* The running image in the first slot; the other one blank, or with an old image.
MCInitialFlash ==
  {[c \in Cells |-> IF c < InactiveSlot THEN a ELSE v] : v \in {ff, b}}

\* Chunks of half a word, no chunk, and more than the slot holds.
Unaligned == Firmware("n6", 1, 1, <<a, b>>)
NoChunk == Firmware("n7", 1, 2, <<>>)
TooLong == Firmware("n8", 1, 4, <<a, b, a, b, a, b, a, b>>)

OnlyOtherHash == {OtherHash}
AllFirmwares == {ThreeChunks, OtherHash, BlankChunk, BadMagic, OldVersion}
ToDeliver == {ThreeChunks, BlankChunk, Unaligned, NoChunk, TooLong}
============================================================================
