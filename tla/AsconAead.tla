----------------------------- MODULE AsconAead -----------------------------
(***************************************************************************)
(* The authenticated encryption of the node (aead.c).                      *)
(*                                                                         *)
(* The state is a sponge of five words: data enters and leaves through the *)
(* first two (ASCON_AEAD_RATE is 16, two words of 8 bytes), and the        *)
(* permutation mixes all of them.                                          *)
(***************************************************************************)
EXTENDS AsconPermutation

CONSTANT IV   \* ASCON_128A_IV

Rate == 2 * WordBytes            \* ASCON_AEAD_RATE
TagBytes == 2 * WordBytes        \* CRYPTO_ABYTES
Blocks == [1 .. Rate -> Bytes]   \* keys (CRYPTO_KEYBYTES) and nonces (CRYPTO_NPUBBYTES)

ASSUME AeadAssumption == IV \in Words

----------------------------------------------------------------------------
LoadKey(k) == <<LoadBytes(k, 0, WordBytes), LoadBytes(k, WordBytes, WordBytes)>>

InitAead(key, npub) ==
  LET s == P12Rounds([x0 |-> IV, x1 |-> key[1], x2 |-> key[2],
              x3 |-> LoadBytes(npub, 0, WordBytes),
              x4 |-> LoadBytes(npub, WordBytes, WordBytes)])
  IN [s EXCEPT !.x3 = @ ^^ key[1], !.x4 = @ ^^ key[2]]

\* The last word of data, of which left bytes are left: padded, then added.
\* Slip: nothing is padded when no byte is left.
AddLast_PadsBytesOnly(w, data, at, left) ==
  IF left = 0 THEN w ELSE (w ^^ Pad(left)) ^^ LoadBytes(data, at, left)

AddLast(w, data, at, left) == (w ^^ Pad(left)) ^^ LoadBytes(data, at, left)

\* The same of a ciphertext, whose bytes take the place of the word's.
\* Slip: the plaintext bytes are not cleared first.
PutLast_NotCleared(w, c, at, left) == AddLast(w, c, at, left) ^^ LoadBytes(c, at, left)

PutLast(w, c, at, left) == Clear(AddLast(w, c, at, left), left) ^^ LoadBytes(c, at, left)

\* The state with block n of the data added: a whole block, as in the loops, or the
\* final one.
Absorb(s, data, n) ==
  LET at == n * Rate
      left == Len(data) - at
  IN IF left >= Rate
     THEN [s EXCEPT !.x0 = @ ^^ LoadBytes(data, at, WordBytes),
                    !.x1 = @ ^^ LoadBytes(data, at + WordBytes, WordBytes)]
     ELSE IF left >= WordBytes
     THEN [s EXCEPT !.x0 = @ ^^ LoadBytes(data, at, WordBytes),
                    !.x1 = AddLast(@, data, at + WordBytes, left - WordBytes)]
     ELSE [s EXCEPT !.x0 = AddLast(@, data, at, left)]

\* The state with block n of a ciphertext in the place of what was there.
Insert(s, c, n) ==
  LET at == n * Rate
      left == Len(c) - at
  IN IF left >= Rate
     THEN [s EXCEPT !.x0 = LoadBytes(c, at, WordBytes),
                    !.x1 = LoadBytes(c, at + WordBytes, WordBytes)]
     ELSE IF left >= WordBytes
     THEN [s EXCEPT !.x0 = LoadBytes(c, at, WordBytes),
                    !.x1 = PutLast(@, c, at + WordBytes, left - WordBytes)]
     ELSE [s EXCEPT !.x0 = PutLast(@, c, at, left)]

LastBlock(data) == Len(data) \div Rate

\* The state before each block, as the loops of ascon_adata and ascon_encrypt
\* (Absorbing) and of ascon_decrypt (Inserting) leave it.
Absorbing(s, data) ==
  LET before[n \in Nat] == IF n = 0 THEN s ELSE P8Rounds(Absorb(before[n - 1], data, n - 1))
  IN before

Inserting(s, c) ==
  LET before[n \in Nat] == IF n = 0 THEN s ELSE P8Rounds(Insert(before[n - 1], c, n - 1))
  IN before

\* Associated data, the final block included, and the domain separation.
AData(s, ad) ==
  LET t == IF Len(ad) = 0 THEN s ELSE Absorbing(s, ad)[LastBlock(ad) + 1]
  IN [t EXCEPT !.x4 = @ ^^ Dsep]

\* What comes out of the first two words once a block was added.
RateByte(s, p) == IF p < WordBytes THEN ByteOf(s.x0, p) ELSE ByteOf(s.x1, p - WordBytes)

Output(before, data) ==
  [q \in 1 .. Len(data) |->
     LET n == (q - 1) \div Rate
     IN RateByte(Absorb(before[n], data, n), (q - 1) % Rate)]

Encrypt(s, m) ==
  [state |-> Absorb(Absorbing(s, m)[LastBlock(m)], m, LastBlock(m)),
   out |-> Output(Absorbing(s, m), m)]

Decrypt(s, c) ==
  [state |-> Insert(Inserting(s, c)[LastBlock(c)], c, LastBlock(c)),
   out |-> Output(Inserting(s, c), c)]

Final(s, key) ==
  LET t == P12Rounds([s EXCEPT !.x2 = @ ^^ key[1], !.x3 = @ ^^ key[2]])
  IN [t EXCEPT !.x3 = @ ^^ key[1], !.x4 = @ ^^ key[2]]

GetTag(s) ==
  [p \in 1 .. TagBytes |->
     IF p <= WordBytes THEN ByteOf(s.x3, p - 1) ELSE ByteOf(s.x4, p - WordBytes - 1)]

\* Slip: the second word of the tag is not compared.
Verify_FirstWord(s, t) == s.x3 ^^ LoadBytes(t, 0, WordBytes) = {}

\* ascon_verify returns 0: no bit is left of the difference (NOTZERO).
Verify(s, t) ==
  (s.x3 ^^ LoadBytes(t, 0, WordBytes)) \cup (s.x4 ^^ LoadBytes(t, WordBytes, WordBytes)) = {}

Started(ad, npub, k) == AData(InitAead(LoadKey(k), npub), ad)

AeadEncrypt(m, ad, npub, k) ==
  LET e == Encrypt(Started(ad, npub, k), m)
  IN [out |-> e.out, tag |-> GetTag(Final(e.state, LoadKey(k)))]

\* The plaintext is written before the tag is looked at.
AeadDecrypt(t, c, ad, npub, k) ==
  LET d == Decrypt(Started(ad, npub, k), c)
  IN [out |-> d.out, verified |-> Verify(Final(d.state, LoadKey(k)), t)]
============================================================================
