----------------------------- MODULE CryptoPort -----------------------------
(***************************************************************************)
(* The symmetric half of the node's cryptographic port (crypto_port.c),    *)
(* over the authenticated encryption of aead.c.                            *)
(*                                                                         *)
(* OtaHandler takes from the port that a packet sealed under the key, the  *)
(* nonce and the associated data it is opened with does open, and gives    *)
(* what was sealed.  The properties below say that of the code: a packet   *)
(* is sealed, the link leaves it or changes it, and the port opens it.     *)
(***************************************************************************)
EXTENDS AeadMode

CONSTANTS
  LenMod,            \* a length is a uint16_t, modulo this (65536)
  AeadKeys,          \* the keys the port is called with,
  AeadNonces,        \* the nonces,
  AssociatedData,    \* the associated data other than a chunk's,
  Plaintexts,        \* and the texts
  ChunkCount

ASSUME PortAssumption ==
  /\ LenMod \in Nat \ {0}
  /\ AeadKeys \subseteq Blocks
  /\ AeadNonces \subseteq Blocks
  /\ AssociatedData \subseteq Seq(Bytes)
  /\ Plaintexts \subseteq Seq(Bytes)
  /\ ChunkCount \in Nat

VARIABLES
  packet,   \* what is in the receive buffer, and what it was sealed from
  intact,   \* it holds what was sealed
  opened    \* the last answer of the port, and what it was asked with

portVars == <<packet, intact, opened>>

----------------------------------------------------------------------------
AsconEncrypt(key, nonce, plaintext, ad) ==
  LET e == AeadEncrypt(plaintext, ad, nonce, key)
  IN [ciphertext |-> e.out \o e.tag, len |-> (Len(plaintext) + TagBytes) % LenMod]

\* The plaintext is written whatever becomes of the tag.
AsconDecrypt(key, nonce, ciphertext, ad) ==
  LET clen == Len(ciphertext) - TagBytes
      d == AeadDecrypt(SubSeq(ciphertext, clen + 1, Len(ciphertext)),
                       SubSeq(ciphertext, 1, clen), ad, nonce, key)
  IN IF Len(ciphertext) < TagBytes
     THEN [result |-> "FRAME_ERROR", plaintext |-> <<>>]
     ELSE [result |-> IF d.verified THEN "OK" ELSE "MAC_VERIFY_FAILED",
           plaintext |-> d.out]

\* The associated data of a chunk: index and number of chunks, low byte first.
ChunkAd(i, total) == <<LowByte(i), LowByte(i \div 2 ^ ByteBits),
                       LowByte(total), LowByte(total \div 2 ^ ByteBits)>>

AsconDecryptChunk(key, nonce, ciphertext, i, total) ==
  AsconDecrypt(key, nonce, ciphertext, ChunkAd(i, total))

----------------------------------------------------------------------------
NoBlock == [p \in 1 .. Rate |-> {}]
NoPacket == [key |-> NoBlock, nonce |-> NoBlock, ad |-> <<>>, text |-> <<>>, bytes |-> <<>>]
NoAnswer == [key |-> NoBlock, nonce |-> NoBlock, ad |-> <<>>,
             result |-> "NONE", plaintext |-> <<>>]

PortInit ==
  /\ packet = NoPacket
  /\ intact = FALSE
  /\ opened = NoAnswer

\* The caller sends as many bytes as it is told there are.  One packet is looked at.
Seal(key, nonce, text, ad) ==
  LET sealed == AsconEncrypt(key, nonce, text, ad)
  IN /\ packet = NoPacket
     /\ packet' = [key |-> key, nonce |-> nonce, ad |-> ad, text |-> text,
                   bytes |-> SubSeq(sealed.ciphertext, 1, sealed.len)]
     /\ intact' = TRUE
     /\ UNCHANGED opened

SealAny ==
  \E key \in AeadKeys, nonce \in AeadNonces, text \in Plaintexts :
    \/ \E ad \in AssociatedData : Seal(key, nonce, text, ad)
    \/ \E i \in 0 .. ChunkCount - 1 : Seal(key, nonce, text, ChunkAd(i, ChunkCount))

\* The link changes one byte of what is sent, or loses its end; it does so once.
Alter ==
  /\ intact /\ opened = NoAnswer
  /\ \/ \E p \in 1 .. Len(packet.bytes) :
          \E byte \in Bytes \ {packet.bytes[p]} : packet' = [packet EXCEPT !.bytes[p] = byte]
     \/ \E n \in 0 .. Len(packet.bytes) - 1 :
          packet' = [packet EXCEPT !.bytes = SubSeq(@, 1, n)]
  /\ intact' = FALSE
  /\ UNCHANGED opened

Answer(key, nonce, ad, answer) ==
  /\ packet # NoPacket /\ opened = NoAnswer
  /\ opened' = [key |-> key, nonce |-> nonce, ad |-> ad,
                result |-> answer.result, plaintext |-> answer.plaintext]
  /\ UNCHANGED <<packet, intact>>

Open ==
  \E key \in AeadKeys, nonce \in AeadNonces, ad \in AssociatedData :
    Answer(key, nonce, ad, AsconDecrypt(key, nonce, packet.bytes, ad))

OpenChunk ==
  \E key \in AeadKeys, nonce \in AeadNonces, i \in 0 .. ChunkCount - 1 :
    Answer(key, nonce, ChunkAd(i, ChunkCount),
           AsconDecryptChunk(key, nonce, packet.bytes, i, ChunkCount))

\* The buffer is given to the next packet.
Discard ==
  /\ opened # NoAnswer
  /\ packet' = NoPacket
  /\ intact' = FALSE
  /\ opened' = NoAnswer

PortNext == SealAny \/ Alter \/ Open \/ OpenChunk \/ Discard

PortSpec == PortInit /\ [][PortNext]_portVars

----------------------------------------------------------------------------
(* Properties *)

AskedAsSealed ==
  opened.key = packet.key /\ opened.nonce = packet.nonce /\ opened.ad = packet.ad

\* What crypto_ascon_encrypt seals, of any length whose total still fits in its
\* uint16_t, crypto_ascon_decrypt opens under the same key, nonce and associated
\* data, and it writes the plaintext that was sealed.
OpensAsSealed ==
  opened # NoAnswer /\ intact /\ AskedAsSealed /\ Len(packet.text) + TagBytes < LenMod =>
    opened.result = "OK" /\ opened.plaintext = packet.text

\* crypto_ascon_decrypt accepts a buffer exactly when it is, byte for byte, the
\* sealed form of the plaintext it wrote: no byte of it escapes the tag.
OpensOnlySealed ==
  opened # NoAnswer =>
    (opened.result = "OK" <=>
      packet.bytes =
        AsconEncrypt(opened.key, opened.nonce, opened.plaintext, opened.ad).ciphertext)

\* aead.c, word by word and with its special cases for the last block, computes
\* the padded mode of AeadMode.
FollowsTheMode ==
  intact =>
    LET e == ModeEncrypt(packet.text, packet.ad, packet.nonce, packet.key)
    IN packet.bytes = SubSeq(e.out \o e.tag, 1, (Len(packet.text) + TagBytes) % LenMod)
=============================================================================
