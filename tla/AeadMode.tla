------------------------------ MODULE AeadMode ------------------------------
(***************************************************************************)
(* What aead.c and round.h are to compute, without their words, their      *)
(* special case for the last block and their updates in place: the data is *)
(* padded with one bit and zeros to whole blocks, every block is added to  *)
(* the whole rate, and the s-box maps all five words at once.              *)
(***************************************************************************)
EXTENDS AsconAead

RateBits == {<<p, b>> : p \in 0 .. Rate - 1, b \in Bits}

\* Block n of the padded data.
PaddedBlock(data, n) ==
  {x \in RateBits :
     LET q == n * Rate + x[1] + 1
     IN \/ q <= Len(data) /\ x[2] \in data[q]
        \/ q = Len(data) + 1 /\ x[2] = 0}

WithBlock(s, block) ==
  [s EXCEPT !.x0 = @ ^^ {x \in WordBits : x \in block},
            !.x1 = @ ^^ {x \in WordBits : <<x[1] + WordBytes, x[2]>> \in block}]

\* The state before each block.
Sponge(s, data) ==
  LET before[n \in Nat] ==
        IF n = 0 THEN s ELSE P8Rounds(WithBlock(before[n - 1], PaddedBlock(data, n - 1)))
  IN before

ModeAData(s, ad) ==
  LET t == IF ad = <<>> THEN s ELSE Sponge(s, ad)[LastBlock(ad) + 1]
  IN [t EXCEPT !.x4 = @ ^^ Dsep]

ModeStarted(ad, npub, k) == ModeAData(InitAead(LoadKey(k), npub), ad)

\* A ciphertext byte is a byte of the rate once the block is in it.
ModeState(s, m, n) == WithBlock(Sponge(s, m)[n], PaddedBlock(m, n))

ModeEncrypt(m, ad, npub, k) ==
  LET s == ModeStarted(ad, npub, k)
  IN [out |-> [q \in 1 .. Len(m) |->
                 RateByte(ModeState(s, m, (q - 1) \div Rate), (q - 1) % Rate)],
      tag |-> GetTag(Final(ModeState(s, m, LastBlock(m)), LoadKey(k)))]

\* Each word takes the next one, turned over, and the one after that, as they
\* were before any was changed.
SubstituteAtOnce(s) ==
  LET x0 == s.x0 ^^ s.x4
      x2 == s.x2 ^^ s.x1
      x4 == s.x4 ^^ s.x3
      y0 == x0 ^^ (x2 \ s.x1)
      y1 == s.x1 ^^ (s.x3 \ x2)
      y2 == x2 ^^ (x4 \ s.x3)
      y3 == s.x3 ^^ (x0 \ x4)
      y4 == x4 ^^ (s.x1 \ x0)
  IN [x0 |-> y0 ^^ y4, x1 |-> y1 ^^ y0, x2 |-> WordBits \ y2, x3 |-> y3 ^^ y2, x4 |-> y4]
=============================================================================
