-------------------------- MODULE AsconPermutation --------------------------
(***************************************************************************)
(* The permutation of the node's ASCON code (permutations.h, round.h), for *)
(* words of any width.                                                     *)
(***************************************************************************)
EXTENDS AsconWords

RoundConstant(c) == {x \in WordBits : x[1] = 0 /\ x[2] \in LowByte(c)}

Complement(w) == WordBits \ w

\* The word turned right by n bits, written with two shifts in the code.
Ror(w, n) ==
  LET source(x) == (x[1] * ByteBits + x[2] + n) % (WordBytes * ByteBits)
  IN {x \in WordBits : <<source(x) \div ByteBits, source(x) % ByteBits>> \in w}

\* The s-box layer, statement by statement: an update reads the words as the
\* updates before it left them.
Substitute(s) ==
  LET x0 == s.x0 ^^ s.x4
      x4 == s.x4 ^^ s.x3
      x2 == s.x2 ^^ s.x1
      xtemp == x0 \ x4
      y0 == x0 ^^ (x2 \ s.x1)
      y2 == x2 ^^ (x4 \ s.x3)
      y4 == x4 ^^ (s.x1 \ y0)
      y1 == s.x1 ^^ (s.x3 \ y2)
      y3 == s.x3 ^^ xtemp
  IN [x0 |-> y0 ^^ y4, x1 |-> y1 ^^ y0, x2 |-> Complement(y2), x3 |-> y3 ^^ y2, x4 |-> y4]

Turned(w, m, n) == (w ^^ Ror(w, m)) ^^ Ror(w, n)

Diffuse(s) ==
  [x0 |-> Turned(s.x0, 19, 28), x1 |-> Turned(s.x1, 61, 39), x2 |-> Turned(s.x2, 1, 6),
   x3 |-> Turned(s.x3, 10, 17), x4 |-> Turned(s.x4, 7, 41)]

\* One round of the permutation, by its constant.
Round(c) ==
  [s \in SpongeStates |-> Diffuse(Substitute([s EXCEPT !.x2 = @ ^^ RoundConstant(c)]))]

\* So many rounds: each constant is 15 less than the one before it.
Rounds(s, first, number) ==
  LET after[n \in Nat] == IF n = 0 THEN s ELSE Round(first - 15 * (n - 1))[after[n - 1]]
  IN after[number]

P8Rounds(s) == Rounds(s, 180, 8)
P12Rounds(s) == Rounds(s, 240, 12)
=============================================================================
