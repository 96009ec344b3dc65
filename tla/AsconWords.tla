----------------------------- MODULE AsconWords -----------------------------
(***************************************************************************)
(* The words the node's ASCON code computes with (word.h, ascon.h).        *)
(*                                                                         *)
(* A word is the set of its bits that are set.  A bit is named by its byte *)
(* in memory order and its place in that byte, so that a load or a store   *)
(* is the same whatever the byte order of the machine.  A sequence of      *)
(* bytes is what a pointer and a length give.                              *)
(***************************************************************************)
EXTENDS Naturals, Sequences

CONSTANTS
  WordBytes,   \* 8
  ByteBits     \* 8

ASSUME WordAssumption ==
  /\ WordBytes \in Nat \ {0}
  /\ ByteBits \in Nat \ {0}

Bits == 0 .. ByteBits - 1
Bytes == SUBSET Bits
WordBits == {<<j, b>> : j \in 0 .. WordBytes - 1, b \in Bits}
Words == SUBSET WordBits
SpongeStates == [x0 : Words, x1 : Words, x2 : Words, x3 : Words, x4 : Words]   \* ascon_state_t

v ^^ w == (v \ w) \cup (w \ v)

\* The low byte of a number.
LowByte(n) == {b \in Bits : (n \div 2 ^ b) % 2 = 1}

\* n bytes of data, from an offset, in a word that is zero otherwise.
LoadBytes(data, at, n) ==
  {x \in WordBits : x[1] < n /\ x[2] \in data[at + x[1] + 1]}

\* Byte j of a word, as STOREBYTES writes it.
ByteOf(w, j) == {b \in Bits : <<j, b>> \in w}

Pad(i) == {<<i, 0>>} \cap WordBits
Dsep == {<<WordBytes - 1, ByteBits - 1>>}
Clear(w, n) == {x \in w : x[1] >= n}
=============================================================================
