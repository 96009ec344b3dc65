-------------------------- MODULE CryptoPortProofs --------------------------
(***************************************************************************)
(* Theorems about the node's cryptographic port, for words of any width,   *)
(* any keys, nonces, associated data and texts of any length: the code     *)
(* computes the padded mode, what it seals it opens, and it opens nothing  *)
(* else.                                                                   *)
(***************************************************************************)
EXTENDS CryptoPort, SequenceTheorems, FiniteSetTheorems, TLAPS

----------------------------------------------------------------------------
(* The s-box *)

\* The s-box layer of round.h, which reads words it has already updated, maps the
\* words as if all of them were updated at once, whatever the words are.
THEOREM UpdatesInPlace ==
  ASSUME NEW s \in SpongeStates
  PROVE  Substitute(s) = SubstituteAtOnce(s)
<1> DEFINE x0 == s.x0 ^^ s.x4
           x4 == s.x4 ^^ s.x3
           x2 == s.x2 ^^ s.x1
           y0 == x0 ^^ (x2 \ s.x1)
           y2 == x2 ^^ (x4 \ s.x3)
<1>1. s.x1 \ y0 = s.x1 \ x0
  <2> HIDE DEF x0, x2
  <2>1. QED
    BY DEF ^^
<1>2. s.x3 \ y2 = s.x3 \ x2
  <2> HIDE DEF x4, x2
  <2>1. QED
    BY DEF ^^
<1>3. QED
  BY <1>1, <1>2 DEF Substitute, SubstituteAtOnce, Complement

----------------------------------------------------------------------------
(* Words and states *)

LEMMA DifferenceIsWord ==
  ASSUME NEW v \in Words, NEW w \in Words
  PROVE  v ^^ w \in Words
BY DEF Words, ^^

LEMMA AddedTwice ==
  ASSUME NEW v, NEW w
  PROVE  (v ^^ w) ^^ w = v /\ v ^^ (v ^^ w) = w
BY DEF ^^

LEMMA LoadsAreWords ==
  ASSUME NEW data, NEW at, NEW n, NEW w \in Words
  PROVE  /\ LoadBytes(data, at, n) \in Words
         /\ Pad(n) \in Words
         /\ Dsep \in Words
         /\ Clear(w, n) \in Words
         /\ AddLast(w, data, at, n) \in Words
         /\ PutLast(w, data, at, n) \in Words
<1>1. LoadBytes(data, at, n) \in Words /\ Pad(n) \in Words
  BY DEF LoadBytes, Pad, Words
<1>2. Dsep \in Words
  <2>1. WordBytes - 1 \in 0 .. WordBytes - 1 /\ ByteBits - 1 \in 0 .. ByteBits - 1
    BY WordAssumption
  <2>2. QED
    BY <2>1 DEF Dsep, Words, WordBits, Bits
<1>3. \A v \in Words : Clear(v, n) \in Words
  BY DEF Clear, Words
<1>4. AddLast(w, data, at, n) \in Words
  BY <1>1, DifferenceIsWord DEF AddLast
<1>5. PutLast(w, data, at, n) \in Words
  BY <1>1, <1>3, <1>4, DifferenceIsWord DEF PutLast
<1>6. QED
  BY <1>1, <1>2, <1>3, <1>4, <1>5

LEMMA StateWords ==
  ASSUME NEW s \in SpongeStates
  PROVE  /\ s.x0 \in Words /\ s.x1 \in Words /\ s.x2 \in Words
         /\ s.x3 \in Words /\ s.x4 \in Words
         /\ s = [x0 |-> s.x0, x1 |-> s.x1, x2 |-> s.x2, x3 |-> s.x3, x4 |-> s.x4]
BY DEF SpongeStates

\* The state with some of its words changed.
LEMMA ChangedWords ==
  ASSUME NEW s \in SpongeStates, NEW v \in Words, NEW w \in Words
  PROVE  /\ [s EXCEPT !.x0 = v] \in SpongeStates
         /\ [s EXCEPT !.x0 = v, !.x1 = w] \in SpongeStates
         /\ [s EXCEPT !.x2 = v] \in SpongeStates
         /\ [s EXCEPT !.x2 = v, !.x3 = w] \in SpongeStates
         /\ [s EXCEPT !.x3 = v, !.x4 = w] \in SpongeStates
         /\ [s EXCEPT !.x4 = v] \in SpongeStates
BY DEF SpongeStates

LEMMA TurnedIsWord ==
  ASSUME NEW w \in Words, NEW m, NEW n
  PROVE  Turned(w, m, n) \in Words
<1>1. Ror(w, m) \in Words /\ Ror(w, n) \in Words
  BY DEF Ror, Words
<1>2. QED
  BY <1>1, DifferenceIsWord DEF Turned

LEMMA RoundKeepsStates ==
  ASSUME NEW s \in SpongeStates, NEW c
  PROVE  Round(c)[s] \in SpongeStates
<1> DEFINE t == [s EXCEPT !.x2 = @ ^^ RoundConstant(c)]
           u == Substitute(t)
<1>1. t \in SpongeStates
  <2>1. RoundConstant(c) \in Words
    BY DEF RoundConstant, Words
  <2>2. QED
    BY <2>1, StateWords, DifferenceIsWord, ChangedWords
<1>2. u \in SpongeStates
  <2>1. \A v, w \in Words : v \ w \in Words /\ v ^^ w \in Words /\ Complement(v) \in Words
    BY DEF Words, ^^, Complement
  <2>2. t.x0 \in Words /\ t.x1 \in Words /\ t.x2 \in Words /\ t.x3 \in Words /\ t.x4 \in Words
    BY <1>1, StateWords
  <2> HIDE DEF t
  <2>3. QED
    BY <2>1, <2>2 DEF Substitute, SpongeStates
<1>3. Diffuse(u) \in SpongeStates
  <2> HIDE DEF u
  <2>1. QED
    BY <1>2, StateWords, TurnedIsWord DEF Diffuse, SpongeStates
<1>4. Round(c)[s] = Diffuse(u)
  BY DEF Round
<1>5. QED
  BY <1>3, <1>4

----------------------------------------------------------------------------
(* Recursion over rounds and blocks *)

LEMMA LeastNumber ==
  ASSUME NEW Some, Some \subseteq Nat, Some # {}
  PROVE  \E n \in Some : \A m \in Some : n <= m
<1> DEFINE F == {0 .. n : n \in Some}
<1>1. F \subseteq FiniteSubsetsOf(Nat) /\ F # {}
  <2>1. ASSUME NEW n \in Some
        PROVE  0 .. n \in FiniteSubsetsOf(Nat)
    <3>1. n \in Int /\ 0 \in Int /\ 0 .. n \in SUBSET Nat
      OBVIOUS
    <3>2. IsFiniteSet(0 .. n)
      BY <3>1, FS_Interval
    <3>3. QED
      BY <3>1, <3>2 DEF FiniteSubsetsOf
  <2>2. QED
    BY <2>1
<1>2. IsWellFoundedOn(StrictSubsetOrdering(Nat), FiniteSubsetsOf(Nat))
  BY FS_StrictSubsetOrderingWellFounded
<1>3. PICK X \in F : \A Y \in F : ~ (<<Y, X>> \in StrictSubsetOrdering(Nat))
  <2> HIDE DEF F
  <2>1. QED
    BY <1>1, <1>2, WFMin
<1>4. PICK n \in Some : X = 0 .. n
  OBVIOUS
<1>5. ASSUME NEW m \in Some, m < n
      PROVE  FALSE
  <2>1. /\ 0 .. m \in F /\ 0 .. m \subseteq 0 .. n /\ 0 .. n # 0 .. m
        /\ 0 .. n \in SUBSET Nat /\ 0 .. m \in SUBSET Nat
    BY <1>5
  <2>2. <<0 .. m, 0 .. n>> \in StrictSubsetOrdering(Nat)
    BY <2>1 DEF StrictSubsetOrdering
  <2>3. QED
    BY <1>3, <1>4, <2>1, <2>2
<1>6. QED
  BY <1>5

\* Induction, for the numbers in a set.
LEMMA EveryNumber ==
  ASSUME NEW P, 0 \in P, \A n \in Nat : n \in P => n + 1 \in P
  PROVE  Nat \subseteq P
<1> DEFINE Others == Nat \ P
<1>1. ASSUME Others # {}
      PROVE  FALSE
  <2>1. PICK n \in Others : \A m \in Others : n <= m
    BY <1>1, LeastNumber
  <2>2. n # 0 /\ n - 1 \in Nat /\ n - 1 \notin Others
    BY <2>1
  <2>3. QED
    BY <2>2
<1>2. QED
  BY <1>1

\* A function of the numbers that starts at a value and goes on by a step.
GoesOn(f, first, Step, upTo) ==
  /\ f[0] = first
  /\ \A i \in Nat : i < upTo => f[i + 1] = Step[<<i, f[i]>>]

\* Two such functions agree, as far as both go.
LEMMA OneWayOn ==
  ASSUME NEW f, NEW g, NEW first, NEW Step, NEW n \in Nat,
         GoesOn(f, first, Step, n), GoesOn(g, first, Step, n)
  PROVE  \A i \in 0 .. n : f[i] = g[i]
<1> DEFINE P == {i \in Nat : i <= n => f[i] = g[i]}
<1>1. 0 \in P
  BY DEF GoesOn
<1>2. ASSUME NEW i \in Nat, i \in P
      PROVE  i + 1 \in P
  <2>1. CASE i + 1 <= n
    <3>1. i < n /\ f[i] = g[i]
      BY <1>2, <2>1
    <3>2. f[i + 1] = Step[<<i, f[i]>>] /\ g[i + 1] = Step[<<i, g[i]>>]
      BY <3>1 DEF GoesOn
    <3>3. QED
      BY <3>1, <3>2
  <2>2. QED
    BY <2>1
<1> HIDE DEF P
<1>3. Nat \subseteq P
  BY <1>1, <1>2, EveryNumber
<1>4. QED
  BY <1>3 DEF P

IsWay(f, first, Step) ==
  \A n \in Nat : f[n] = IF n = 0 THEN first ELSE Step[<<n - 1, f[n - 1]>>]

\* There is one, when the step stays in a set.
LEMMA WayOn ==
  ASSUME NEW S, NEW first \in S, NEW Step, \A n \in Nat, s \in S : Step[<<n, s>>] \in S
  PROVE  \E f \in [Nat -> S] : IsWay(f, first, Step)
<1> DEFINE Upto(f, n) == f \in [Nat -> S] /\ GoesOn(f, first, Step, n)
           P == {n \in Nat : \E f : Upto(f, n)}
<1>1. 0 \in P
  <2>1. Upto([i \in Nat |-> first], 0)
    BY DEF GoesOn
  <2>2. QED
    BY <2>1
<1>2. ASSUME NEW n \in Nat, n \in P
      PROVE  n + 1 \in P
  <2>1. PICK f : Upto(f, n)
    BY <1>2
  <2> DEFINE g == [i \in Nat |-> IF i = n + 1 THEN Step[<<n, f[n]>>] ELSE f[i]]
  <2>2. g \in [Nat -> S]
    BY <2>1
  <2>3. GoesOn(g, first, Step, n + 1)
    <3>1. g[0] = first
      BY <2>1 DEF GoesOn
    <3>2. ASSUME NEW i \in Nat, i < n + 1
          PROVE  g[i + 1] = Step[<<i, g[i]>>]
      BY <2>1, <3>2 DEF GoesOn
    <3>3. QED
      BY <3>1, <3>2 DEF GoesOn
  <2>4. Upto(g, n + 1)
    BY <2>2, <2>3
  <2>5. QED
    BY <2>4
<1>3. Nat \subseteq P
  <2> HIDE DEF P
  <2>1. QED
    BY <1>1, <1>2, EveryNumber
<1> DEFINE way(n) == CHOOSE f : Upto(f, n)
           f == [n \in Nat |-> way(n)[n]]
<1>4. \A n \in Nat : Upto(way(n), n)
  BY <1>3
<1>5. f \in [Nat -> S]
  BY <1>4
<1>6. f[0] = first
  BY <1>4 DEF GoesOn
<1>7. ASSUME NEW n \in Nat
      PROVE  f[n + 1] = Step[<<n, f[n]>>]
  <2> DEFINE now == way(n)
             then == way(n + 1)
  <2>1. GoesOn(now, first, Step, n) /\ GoesOn(then, first, Step, n + 1)
    BY <1>4
  <2>2. f[n + 1] = then[n + 1] /\ f[n] = now[n]
    OBVIOUS
  <2> HIDE DEF way, f, now, then
  <2>3. GoesOn(then, first, Step, n) /\ then[n + 1] = Step[<<n, then[n]>>]
    BY <2>1 DEF GoesOn
  <2>4. now[n] = then[n]
    BY <2>1, <2>3, OneWayOn
  <2>5. QED
    BY <2>2, <2>3, <2>4
<1>8. ASSUME NEW n \in Nat, n # 0
      PROVE  f[n] = Step[<<n - 1, f[n - 1]>>]
  <2>1. n - 1 \in Nat /\ (n - 1) + 1 = n
    BY <1>8
  <2> HIDE DEF f
  <2>2. QED
    BY <1>7, <2>1
<1> HIDE DEF f
<1>9. QED
  BY <1>5, <1>6, <1>8 DEF IsWay

----------------------------------------------------------------------------
(* The permutation and the blocks *)

\* However many rounds, and whatever their constants.
LEMMA RoundsKeepStates ==
  ASSUME NEW s \in SpongeStates, NEW first, NEW number \in Nat
  PROVE  Rounds(s, first, number) \in SpongeStates
<1> DEFINE Step == [x \in Nat \X SpongeStates |-> Round(first - 15 * x[1])[x[2]]]
           Is(g) == g = [n \in Nat |->
                           IF n = 0 THEN s ELSE Round(first - 15 * (n - 1))[g[n - 1]]]
<1>1. \A n \in Nat, t \in SpongeStates :
        Step[<<n, t>>] = Round(first - 15 * n)[t] /\ Step[<<n, t>>] \in SpongeStates
  BY RoundKeepsStates
<1> HIDE DEF Step
<1>2. PICK f \in [Nat -> SpongeStates] : IsWay(f, s, Step)
  <2>1. \A n \in Nat, t \in SpongeStates : Step[<<n, t>>] \in SpongeStates
    BY <1>1
  <2>2. QED
    BY <2>1, WayOn
<1>3. Is(f)
  <2>1. \A n \in Nat : f[n] = IF n = 0 THEN s ELSE Step[<<n - 1, f[n - 1]>>]
    BY <1>2 DEF IsWay
  <2>2. ASSUME NEW n \in Nat, n # 0
        PROVE  Step[<<n - 1, f[n - 1]>>] = Round(first - 15 * (n - 1))[f[n - 1]]
    <3>1. n - 1 \in Nat /\ f[n - 1] \in SpongeStates
      BY <2>2
    <3>2. QED
      BY <1>1, <3>1
  <2>3. QED
    BY <1>2, <2>1, <2>2
<1> DEFINE after == CHOOSE g : Is(g)
<1>4. Is(after)
  BY <1>3
<1>5. Rounds(s, first, number) = after[number]
  BY DEF Rounds
<1> HIDE DEF after
<1>6. /\ after[0] = s
      /\ \A n \in Nat : after[n + 1] = Round(first - 15 * n)[after[n]]
  <2>1. \A n \in Nat :
          after[n] = IF n = 0 THEN s ELSE Round(first - 15 * (n - 1))[after[n - 1]]
    BY <1>4
  <2>2. ASSUME NEW n \in Nat
        PROVE  after[n + 1] = Round(first - 15 * n)[after[n]]
    <3> DEFINE m == n + 1
    <3>1. m \in Nat /\ m # 0 /\ m - 1 = n
      OBVIOUS
    <3> HIDE DEF m
    <3>2. after[m] = Round(first - 15 * (m - 1))[after[m - 1]]
      BY <2>1, <3>1
    <3>3. QED
      BY <3>1, <3>2 DEF m
  <2>3. QED
    BY <2>1, <2>2
<1> DEFINE P == {n \in Nat : after[n] \in SpongeStates}
<1>7. 0 \in P
  BY <1>6
<1>8. ASSUME NEW n \in Nat, n \in P
      PROVE  n + 1 \in P
  <2>1. after[n + 1] = Round(first - 15 * n)[after[n]] /\ after[n] \in SpongeStates
    BY <1>6, <1>8
  <2>2. Round(first - 15 * n)[after[n]] \in SpongeStates
    BY <2>1, RoundKeepsStates
  <2>3. QED
    BY <2>1, <2>2
<1> HIDE DEF P
<1>9. Nat \subseteq P
  BY <1>7, <1>8, EveryNumber
<1>10. QED
  BY <1>5, <1>9 DEF P

LEMMA PermutationKeepsStates ==
  ASSUME NEW s \in SpongeStates
  PROVE  P8Rounds(s) \in SpongeStates /\ P12Rounds(s) \in SpongeStates
BY RoundsKeepStates DEF P8Rounds, P12Rounds

LEMMA BlocksKeepStates ==
  ASSUME NEW s \in SpongeStates, NEW data, NEW n \in Nat
  PROVE  /\ Absorb(s, data, n) \in SpongeStates
         /\ Insert(s, data, n) \in SpongeStates
         /\ WithBlock(s, PaddedBlock(data, n)) \in SpongeStates
<1>1. Absorb(s, data, n) \in SpongeStates
  BY StateWords, LoadsAreWords, DifferenceIsWord, ChangedWords DEF Absorb
<1>2. Insert(s, data, n) \in SpongeStates
  BY StateWords, LoadsAreWords, ChangedWords DEF Insert
<1>3. WithBlock(s, PaddedBlock(data, n)) \in SpongeStates
  <2> DEFINE v == {x \in WordBits : x \in PaddedBlock(data, n)}
             w == {x \in WordBits : <<x[1] + WordBytes, x[2]>> \in PaddedBlock(data, n)}
  <2>1. v \in Words /\ w \in Words
    BY DEF Words
  <2>2. WithBlock(s, PaddedBlock(data, n)) = [s EXCEPT !.x0 = s.x0 ^^ v, !.x1 = s.x1 ^^ w]
    BY DEF WithBlock
  <2> DEFINE v0 == s.x0 ^^ v
             v1 == s.x1 ^^ w
  <2>3. v0 \in Words /\ v1 \in Words
    <3> HIDE DEF v, w
    <3>1. QED
      BY <2>1, StateWords, DifferenceIsWord
  <2>4. WithBlock(s, PaddedBlock(data, n)) = [s EXCEPT !.x0 = v0, !.x1 = v1]
    BY <2>2
  <2> HIDE DEF v0, v1
  <2>5. [s EXCEPT !.x0 = v0, !.x1 = v1] \in SpongeStates
    BY <2>3 DEF SpongeStates
  <2>6. QED
    BY <2>4, <2>5
<1>4. QED
  BY <1>1, <1>2, <1>3

----------------------------------------------------------------------------
(* The padded mode *)

\* A bit of a word: its byte and its place in it.
LEMMA BitsOfWords ==
  ASSUME NEW x \in WordBits
  PROVE  x[1] \in 0 .. WordBytes - 1 /\ x[2] \in Bits /\ x = <<x[1], x[2]>>
BY DEF WordBits

\* The word of the padded data at an offset.
PaddedAt(data, at) ==
  {x \in WordBits :
     \/ at + x[1] + 1 <= Len(data) /\ x[2] \in data[at + x[1] + 1]
     \/ at + x[1] = Len(data) /\ x[2] = 0}

LEMMA WordsOfBlock ==
  ASSUME NEW s \in SpongeStates, NEW data \in Seq(Bytes), NEW n \in Nat
  PROVE  WithBlock(s, PaddedBlock(data, n)) =
           [s EXCEPT !.x0 = @ ^^ PaddedAt(data, n * Rate),
                     !.x1 = @ ^^ PaddedAt(data, n * Rate + WordBytes)]
<1> DEFINE at == n * Rate
           size == Len(data)
<1>1. WordBytes \in Nat \ {0} /\ Rate = WordBytes + WordBytes /\ Rate \in Nat
  BY WordAssumption DEF Rate
<1>2. at \in Nat /\ size \in Nat
  BY <1>1
<1> HIDE DEF at, size
<1>3. {x \in WordBits : x \in PaddedBlock(data, n)} = PaddedAt(data, at)
  <2>1. ASSUME NEW x \in WordBits
        PROVE  x \in PaddedBlock(data, n) <=> x \in PaddedAt(data, at)
    <3>1. x[1] \in 0 .. WordBytes - 1 /\ x[2] \in Bits /\ x = <<x[1], x[2]>>
      BY BitsOfWords
    <3>2. x[1] \in 0 .. Rate - 1
      BY <1>1, <3>1
    <3>3. x \in RateBits
      BY <3>1, <3>2 DEF RateBits
    <3>4. at + x[1] + 1 = size + 1 <=> at + x[1] = size
      BY <1>2, <3>2
    <3>5. x \in PaddedBlock(data, n) <=>
            \/ at + x[1] + 1 <= size /\ x[2] \in data[at + x[1] + 1]
            \/ at + x[1] + 1 = size + 1 /\ x[2] = 0
      BY <3>3 DEF PaddedBlock, at, size
    <3>6. QED
      BY <3>4, <3>5 DEF PaddedAt, size
  <2>2. QED
    BY <2>1 DEF PaddedAt
<1>4. {x \in WordBits : <<x[1] + WordBytes, x[2]>> \in PaddedBlock(data, n)} =
        PaddedAt(data, at + WordBytes)
  <2>1. ASSUME NEW x \in WordBits
        PROVE  <<x[1] + WordBytes, x[2]>> \in PaddedBlock(data, n) <=>
                 x \in PaddedAt(data, at + WordBytes)
    <3>1. x[1] \in 0 .. WordBytes - 1 /\ x[2] \in Bits
      BY BitsOfWords
    <3>2. x[1] + WordBytes \in 0 .. Rate - 1
      BY <1>1, <3>1
    <3>3. <<x[1] + WordBytes, x[2]>> \in RateBits
      BY <3>1, <3>2 DEF RateBits
    <3>4. /\ at + (x[1] + WordBytes) + 1 = (at + WordBytes) + x[1] + 1
          /\ at + (x[1] + WordBytes) + 1 = size + 1 <=> (at + WordBytes) + x[1] = size
      BY <1>1, <1>2, <3>1
    <3>5. <<x[1] + WordBytes, x[2]>> \in PaddedBlock(data, n) <=>
            \/ /\ at + (x[1] + WordBytes) + 1 <= size
               /\ x[2] \in data[at + (x[1] + WordBytes) + 1]
            \/ at + (x[1] + WordBytes) + 1 = size + 1 /\ x[2] = 0
      BY <3>3 DEF PaddedBlock, at, size
    <3>6. QED
      BY <3>4, <3>5 DEF PaddedAt, size
  <2>2. QED
    BY <2>1 DEF PaddedAt
<1>5. QED
  BY <1>3, <1>4 DEF WithBlock, at

\* A word of the padded data is loaded whole, is the last one, or is none.
LEMMA PaddedWord ==
  ASSUME NEW data \in Seq(Bytes), NEW at \in Nat, NEW w
  PROVE  /\ Len(data) - at >= WordBytes => PaddedAt(data, at) = LoadBytes(data, at, WordBytes)
         /\ Len(data) - at \in 0 .. WordBytes - 1 =>
              AddLast(w, data, at, Len(data) - at) = w ^^ PaddedAt(data, at)
         /\ Len(data) < at => PaddedAt(data, at) = {}
<1> DEFINE size == Len(data)
           left == size - at
<1>1. WordBytes \in Nat \ {0} /\ size \in Nat
  BY WordAssumption
<1>2. \A x \in WordBits : x[1] \in 0 .. WordBytes - 1
  BY BitsOfWords
<1> HIDE DEF size
<1>3. ASSUME left >= WordBytes
      PROVE  PaddedAt(data, at) = LoadBytes(data, at, WordBytes)
  <2>1. \A x \in WordBits : /\ at + x[1] + 1 <= size /\ x[1] < WordBytes
                            /\ ~ (at + x[1] = size)
    BY <1>1, <1>2, <1>3
  <2>2. QED
    BY <2>1 DEF PaddedAt, LoadBytes, size
<1>4. ASSUME left \in 0 .. WordBytes - 1
      PROVE  AddLast(w, data, at, left) = w ^^ PaddedAt(data, at)
  <2>1. \A x \in WordBits : /\ at + x[1] + 1 <= size <=> x[1] < left
                            /\ at + x[1] = size <=> x[1] = left
                            /\ ~ (x[1] < left /\ x[1] = left)
    BY <1>1, <1>2, <1>4
  <2> DEFINE loaded == LoadBytes(data, at, left)
             padding == Pad(left)
  <2>2. PaddedAt(data, at) = loaded \cup {x \in WordBits : x[1] = left /\ x[2] = 0}
    BY <2>1 DEF PaddedAt, LoadBytes, size
  <2>3. {x \in WordBits : x[1] = left /\ x[2] = 0} = padding
    BY BitsOfWords DEF Pad
  <2>4. loaded \cap padding = {}
    BY <2>1, <2>3 DEF LoadBytes
  <2>5. AddLast(w, data, at, left) = (w ^^ padding) ^^ loaded
    BY DEF AddLast
  <2> HIDE DEF loaded, padding
  <2>6. (w ^^ padding) ^^ loaded = w ^^ (loaded \cup padding)
    BY <2>4 DEF ^^
  <2>7. QED
    BY <2>2, <2>3, <2>5, <2>6
<1>5. ASSUME size < at
      PROVE  PaddedAt(data, at) = {}
  <2>1. \A x \in WordBits : ~ (at + x[1] + 1 <= size) /\ ~ (at + x[1] = size)
    BY <1>1, <1>2, <1>5
  <2>2. QED
    BY <2>1 DEF PaddedAt, size
<1>6. QED
  BY <1>3, <1>4, <1>5 DEF size

\* The special cases for the last block add the padded block.
LEMMA AbsorbsPadded ==
  ASSUME NEW s \in SpongeStates, NEW data \in Seq(Bytes), NEW n \in Nat,
         n * Rate <= Len(data)
  PROVE  Absorb(s, data, n) = WithBlock(s, PaddedBlock(data, n))
<1> DEFINE at == n * Rate
           left == Len(data) - at
           second == at + WordBytes
           w0 == PaddedAt(data, at)
           w1 == PaddedAt(data, second)
<1>1. /\ WordBytes \in Nat \ {0} /\ Rate = WordBytes + WordBytes /\ Rate \in Nat
      /\ at \in Nat /\ Len(data) \in Nat
  BY WordAssumption DEF Rate
<1>2. /\ left \in Nat /\ second \in Nat
      /\ Len(data) - second = left - WordBytes
      /\ left >= Rate => left >= WordBytes /\ Len(data) - second >= WordBytes
      /\ left < Rate /\ left >= WordBytes => Len(data) - second \in 0 .. WordBytes - 1
      /\ left < WordBytes =>
           left \in 0 .. WordBytes - 1 /\ Len(data) < second /\ ~ (left >= Rate)
  <2> HIDE DEF at
  <2>1. QED
    BY <1>1 DEF at
<1>3. WithBlock(s, PaddedBlock(data, n)) = [s EXCEPT !.x0 = s.x0 ^^ w0, !.x1 = s.x1 ^^ w1]
  BY WordsOfBlock
<1>4. CASE left >= Rate
  <2>1. w0 = LoadBytes(data, at, WordBytes) /\ w1 = LoadBytes(data, second, WordBytes)
    BY <1>1, <1>2, <1>4, PaddedWord
  <2>2. QED
    BY <1>3, <1>4, <2>1 DEF Absorb
<1>5. CASE left < Rate /\ left >= WordBytes
  <2>1. w0 = LoadBytes(data, at, WordBytes)
    BY <1>1, <1>2, <1>5, PaddedWord
  <2>2. AddLast(s.x1, data, second, left - WordBytes) = s.x1 ^^ w1
    BY <1>1, <1>2, <1>5, PaddedWord
  <2>3. ~ (left >= Rate)
    BY <1>1, <1>2, <1>5
  <2>4. QED
    BY <1>3, <1>5, <2>1, <2>2, <2>3 DEF Absorb
<1>6. CASE left < WordBytes
  <2>1. AddLast(s.x0, data, at, left) = s.x0 ^^ w0
    BY <1>1, <1>2, <1>6, PaddedWord
  <2>2. w1 = {} /\ s.x1 ^^ w1 = s.x1
    BY <1>1, <1>2, <1>6, PaddedWord DEF ^^
  <2>3. ~ (left >= Rate) /\ ~ (left >= WordBytes)
    BY <1>1, <1>2, <1>6
  <2>4. Absorb(s, data, n) = [s EXCEPT !.x0 = s.x0 ^^ w0]
    BY <2>1, <2>3 DEF Absorb
  <2>5. QED
    BY <1>3, <2>2, <2>4 DEF SpongeStates
<1>7. QED
  BY <1>1, <1>2, <1>4, <1>5, <1>6

\* What stands before each block of data.
LEMMA StatesAbsorbing ==
  ASSUME NEW s \in SpongeStates, NEW data
  PROVE  /\ \A n \in Nat : Absorbing(s, data)[n] \in SpongeStates
         /\ Absorbing(s, data)[0] = s
         /\ \A n \in Nat : Absorbing(s, data)[n + 1] =
                             P8Rounds(Absorb(Absorbing(s, data)[n], data, n))
<1> DEFINE Step == [x \in Nat \X SpongeStates |-> P8Rounds(Absorb(x[2], data, x[1]))]
           before == Absorbing(s, data)
           Is(g) == g = [n \in Nat |->
                           IF n = 0 THEN s ELSE P8Rounds(Absorb(g[n - 1], data, n - 1))]
<1>1. \A n \in Nat, t \in SpongeStates :
        Step[<<n, t>>] = P8Rounds(Absorb(t, data, n)) /\ Step[<<n, t>>] \in SpongeStates
  BY BlocksKeepStates, PermutationKeepsStates
<1> HIDE DEF Step
<1>2. PICK f \in [Nat -> SpongeStates] : IsWay(f, s, Step)
  <2>1. \A n \in Nat, t \in SpongeStates : Step[<<n, t>>] \in SpongeStates
    BY <1>1
  <2>2. QED
    BY <2>1, WayOn
<1>3. Is(f)
  <2>1. \A n \in Nat : f[n] = IF n = 0 THEN s ELSE Step[<<n - 1, f[n - 1]>>]
    BY <1>2 DEF IsWay
  <2>2. ASSUME NEW n \in Nat, n # 0
        PROVE  Step[<<n - 1, f[n - 1]>>] = P8Rounds(Absorb(f[n - 1], data, n - 1))
    BY <1>1, <2>2
  <2>3. QED
    BY <1>2, <2>1, <2>2
<1>4. Is(before)
  <2>1. before = CHOOSE g : Is(g)
    BY DEF Absorbing
  <2>2. QED
    BY <1>3, <2>1
<1> HIDE DEF before
<1>5. /\ before[0] = s
      /\ \A n \in Nat : before[n + 1] = P8Rounds(Absorb(before[n], data, n))
  BY <1>4
<1>6. \A n \in Nat : before[n] \in SpongeStates
  <2> DEFINE P == {n \in Nat : before[n] \in SpongeStates}
  <2>1. 0 \in P
    BY <1>5
  <2>2. ASSUME NEW n \in Nat, n \in P
        PROVE  n + 1 \in P
    <3>1. P8Rounds(Absorb(before[n], data, n)) \in SpongeStates
      BY <2>2, BlocksKeepStates, PermutationKeepsStates
    <3>2. QED
      BY <1>5, <3>1
  <2> HIDE DEF P
  <2>3. Nat \subseteq P
    BY <2>1, <2>2, EveryNumber
  <2>4. QED
    BY <2>3 DEF P
<1>7. QED
  BY <1>5, <1>6 DEF before

\* What stands before each block of a ciphertext.
LEMMA StatesInserting ==
  ASSUME NEW s \in SpongeStates, NEW c
  PROVE  /\ \A n \in Nat : Inserting(s, c)[n] \in SpongeStates
         /\ Inserting(s, c)[0] = s
         /\ \A n \in Nat : Inserting(s, c)[n + 1] =
                             P8Rounds(Insert(Inserting(s, c)[n], c, n))
<1> DEFINE Step == [x \in Nat \X SpongeStates |-> P8Rounds(Insert(x[2], c, x[1]))]
           before == Inserting(s, c)
           Is(g) == g = [n \in Nat |->
                           IF n = 0 THEN s ELSE P8Rounds(Insert(g[n - 1], c, n - 1))]
<1>1. \A n \in Nat, t \in SpongeStates :
        Step[<<n, t>>] = P8Rounds(Insert(t, c, n)) /\ Step[<<n, t>>] \in SpongeStates
  BY BlocksKeepStates, PermutationKeepsStates
<1> HIDE DEF Step
<1>2. PICK f \in [Nat -> SpongeStates] : IsWay(f, s, Step)
  <2>1. \A n \in Nat, t \in SpongeStates : Step[<<n, t>>] \in SpongeStates
    BY <1>1
  <2>2. QED
    BY <2>1, WayOn
<1>3. Is(f)
  <2>1. \A n \in Nat : f[n] = IF n = 0 THEN s ELSE Step[<<n - 1, f[n - 1]>>]
    BY <1>2 DEF IsWay
  <2>2. ASSUME NEW n \in Nat, n # 0
        PROVE  Step[<<n - 1, f[n - 1]>>] = P8Rounds(Insert(f[n - 1], c, n - 1))
    BY <1>1, <2>2
  <2>3. QED
    BY <1>2, <2>1, <2>2
<1>4. Is(before)
  <2>1. before = CHOOSE g : Is(g)
    BY DEF Inserting
  <2>2. QED
    BY <1>3, <2>1
<1> HIDE DEF before
<1>5. /\ before[0] = s
      /\ \A n \in Nat : before[n + 1] = P8Rounds(Insert(before[n], c, n))
  BY <1>4
<1>6. \A n \in Nat : before[n] \in SpongeStates
  <2> DEFINE P == {n \in Nat : before[n] \in SpongeStates}
  <2>1. 0 \in P
    BY <1>5
  <2>2. ASSUME NEW n \in Nat, n \in P
        PROVE  n + 1 \in P
    <3>1. P8Rounds(Insert(before[n], c, n)) \in SpongeStates
      BY <2>2, BlocksKeepStates, PermutationKeepsStates
    <3>2. QED
      BY <1>5, <3>1
  <2> HIDE DEF P
  <2>3. Nat \subseteq P
    BY <2>1, <2>2, EveryNumber
  <2>4. QED
    BY <2>3 DEF P
<1>7. QED
  BY <1>5, <1>6 DEF before

\* What stands before each block of the padded data.
LEMMA StatesOfSponge ==
  ASSUME NEW s \in SpongeStates, NEW data
  PROVE  /\ \A n \in Nat : Sponge(s, data)[n] \in SpongeStates
         /\ Sponge(s, data)[0] = s
         /\ \A n \in Nat : Sponge(s, data)[n + 1] =
                             P8Rounds(WithBlock(Sponge(s, data)[n], PaddedBlock(data, n)))
<1> DEFINE Step == [x \in Nat \X SpongeStates |->
                      P8Rounds(WithBlock(x[2], PaddedBlock(data, x[1])))]
           before == Sponge(s, data)
           Is(g) == g = [n \in Nat |->
                           IF n = 0 THEN s
                           ELSE P8Rounds(WithBlock(g[n - 1], PaddedBlock(data, n - 1)))]
<1>1. \A n \in Nat, t \in SpongeStates :
        /\ Step[<<n, t>>] = P8Rounds(WithBlock(t, PaddedBlock(data, n)))
        /\ Step[<<n, t>>] \in SpongeStates
  BY BlocksKeepStates, PermutationKeepsStates
<1> HIDE DEF Step
<1>2. PICK f \in [Nat -> SpongeStates] : IsWay(f, s, Step)
  <2>1. \A n \in Nat, t \in SpongeStates : Step[<<n, t>>] \in SpongeStates
    BY <1>1
  <2>2. QED
    BY <2>1, WayOn
<1>3. Is(f)
  <2>1. \A n \in Nat : f[n] = IF n = 0 THEN s ELSE Step[<<n - 1, f[n - 1]>>]
    BY <1>2 DEF IsWay
  <2>2. ASSUME NEW n \in Nat, n # 0
        PROVE  Step[<<n - 1, f[n - 1]>>] = P8Rounds(WithBlock(f[n - 1], PaddedBlock(data, n - 1)))
    BY <1>1, <2>2
  <2>3. QED
    BY <1>2, <2>1, <2>2
<1>4. Is(before)
  <2>1. before = CHOOSE g : Is(g)
    BY DEF Sponge
  <2>2. QED
    BY <1>3, <2>1
<1> HIDE DEF before
<1>5. /\ before[0] = s
      /\ \A n \in Nat : before[n + 1] = P8Rounds(WithBlock(before[n], PaddedBlock(data, n)))
  BY <1>4
<1>6. \A n \in Nat : before[n] \in SpongeStates
  <2> DEFINE P == {n \in Nat : before[n] \in SpongeStates}
  <2>1. 0 \in P
    BY <1>5
  <2>2. ASSUME NEW n \in Nat, n \in P
        PROVE  n + 1 \in P
    <3>1. P8Rounds(WithBlock(before[n], PaddedBlock(data, n))) \in SpongeStates
      BY <2>2, BlocksKeepStates, PermutationKeepsStates
    <3>2. QED
      BY <1>5, <3>1
  <2> HIDE DEF P
  <2>3. Nat \subseteq P
    BY <2>1, <2>2, EveryNumber
  <2>4. QED
    BY <2>3 DEF P
<1>7. QED
  BY <1>5, <1>6 DEF before

\* The blocks of some data: every byte is in one of them.
LEMMA BlocksOfData ==
  ASSUME NEW data, Len(data) \in Nat
  PROVE  /\ LastBlock(data) \in Nat
         /\ \A n \in 0 .. LastBlock(data) : n * Rate <= Len(data)
         /\ \A q \in 1 .. Len(data) :
              /\ (q - 1) \div Rate \in 0 .. LastBlock(data)
              /\ (q - 1) % Rate \in 0 .. Rate - 1
              /\ q = ((q - 1) \div Rate) * Rate + ((q - 1) % Rate) + 1
<1> DEFINE size == Len(data)
           last == size \div Rate
           r == Rate
<1>1. r \in Nat \ {0} /\ size \in Nat
  BY WordAssumption DEF Rate
<1> HIDE DEF size, r
<1> DEFINE end == size \div r
<1>2. end \in Nat /\ r * end <= size /\ size < (r * end) + r
  BY <1>1
<1> HIDE DEF end
<1>3. ASSUME NEW n \in 0 .. end
      PROVE  n * r <= size
  <2>1. n * r <= end * r /\ end * r = r * end /\ n * r \in Nat
    BY <1>1, <1>2
  <2>2. QED
    BY <1>1, <1>2, <2>1
<1>4. ASSUME NEW q \in 1 .. size
      PROVE  /\ (q - 1) \div r \in 0 .. end
             /\ (q - 1) % r \in 0 .. r - 1
             /\ q = ((q - 1) \div r) * r + ((q - 1) % r) + 1
  <2> DEFINE n == (q - 1) \div r
             p == (q - 1) % r
  <2>1. n \in Nat /\ p \in 0 .. r - 1 /\ q - 1 = (r * n) + p
    BY <1>1
  <2> HIDE DEF n, p
  <2>2. r * n = n * r /\ r * n \in Nat
    BY <1>1, <2>1
  <2>3. ASSUME n > end
        PROVE  FALSE
    <3>1. n >= end + 1 /\ r * n >= r * (end + 1) /\ r * (end + 1) = (r * end) + r
      BY <1>1, <1>2, <2>1, <2>3
    <3>2. QED
      BY <1>1, <1>2, <2>1, <2>2, <3>1
  <2>4. n \in 0 .. end /\ q = n * r + p + 1
    BY <1>1, <1>2, <2>1, <2>2, <2>3
  <2>5. QED
    BY <2>1, <2>4 DEF n, p
<1>5. QED
  BY <1>2, <1>3, <1>4 DEF LastBlock, end, size, r

\* The code and the mode have the same state before each block.
LEMMA SameStates ==
  ASSUME NEW s \in SpongeStates, NEW data \in Seq(Bytes)
  PROVE  \A n \in 0 .. LastBlock(data) + 1 : Absorbing(s, data)[n] = Sponge(s, data)[n]
<1> DEFINE last == LastBlock(data)
           left == Absorbing(s, data)
           right == Sponge(s, data)
           P == {n \in Nat : n <= last + 1 => left[n] = right[n]}
<1>1. last \in Nat /\ \A n \in 0 .. last : n * Rate <= Len(data)
  BY BlocksOfData
<1>2. 0 \in P
  BY StatesAbsorbing, StatesOfSponge
<1>3. ASSUME NEW n \in Nat, n \in P
      PROVE  n + 1 \in P
  <2>1. CASE n + 1 <= last + 1
    <3>1. n \in 0 .. last /\ left[n] = right[n] /\ n * Rate <= Len(data)
      <4>1. n \in 0 .. last /\ n <= last + 1
        BY <1>1, <2>1
      <4>2. QED
        BY <1>1, <1>3, <4>1
    <3>2. left[n] \in SpongeStates
      BY StatesAbsorbing
    <3>3. /\ left[n + 1] = P8Rounds(Absorb(left[n], data, n))
          /\ right[n + 1] = P8Rounds(WithBlock(right[n], PaddedBlock(data, n)))
      BY StatesAbsorbing, StatesOfSponge
    <3>4. Absorb(left[n], data, n) = WithBlock(left[n], PaddedBlock(data, n))
      BY <3>1, <3>2, AbsorbsPadded
    <3>5. QED
      BY <3>1, <3>3, <3>4
  <2>2. QED
    BY <2>1
<1> HIDE DEF P
<1>4. Nat \subseteq P
  BY <1>2, <1>3, EveryNumber
<1>5. QED
  BY <1>1, <1>4 DEF P

LEMMA KeyWords ==
  ASSUME NEW k
  PROVE  LoadKey(k)[1] \in Words /\ LoadKey(k)[2] \in Words
BY DEF LoadKey, LoadBytes, Words

LEMMA InitIsState ==
  ASSUME NEW k, NEW npub
  PROVE  InitAead(LoadKey(k), npub) \in SpongeStates
<1> DEFINE key == LoadKey(k)
           x3 == LoadBytes(npub, 0, WordBytes)
           x4 == LoadBytes(npub, WordBytes, WordBytes)
           start == [x0 |-> IV, x1 |-> key[1], x2 |-> key[2], x3 |-> x3, x4 |-> x4]
           s == P12Rounds(start)
<1>1. key[1] \in Words /\ key[2] \in Words /\ x3 \in Words /\ x4 \in Words
  BY KeyWords, {} \in Words, LoadsAreWords DEF Words
<1>2. InitAead(key, npub) = [s EXCEPT !.x3 = s.x3 ^^ key[1], !.x4 = s.x4 ^^ key[2]]
  BY DEF InitAead
<1> HIDE DEF key, x3, x4
<1>3. start \in SpongeStates
  BY <1>1, AeadAssumption DEF SpongeStates
<1> HIDE DEF start
<1>4. s \in SpongeStates
  BY <1>3, PermutationKeepsStates
<1> HIDE DEF s
<1> DEFINE v3 == s.x3 ^^ key[1]
           v4 == s.x4 ^^ key[2]
<1>5. v3 \in Words /\ v4 \in Words
  BY <1>1, <1>4, StateWords, DifferenceIsWord
<1> HIDE DEF v3, v4
<1>6. [s EXCEPT !.x3 = v3, !.x4 = v4] \in SpongeStates
  BY <1>4, <1>5 DEF SpongeStates
<1>7. QED
  BY <1>2, <1>6 DEF v3, v4, key

LEMMA StartsAlike ==
  ASSUME NEW ad \in Seq(Bytes), NEW npub, NEW k
  PROVE  /\ Started(ad, npub, k) \in SpongeStates
         /\ Started(ad, npub, k) = ModeStarted(ad, npub, k)
<1> DEFINE s == InitAead(LoadKey(k), npub)
           last == LastBlock(ad)
           t == IF Len(ad) = 0 THEN s ELSE Absorbing(s, ad)[last + 1]
           u == IF ad = <<>> THEN s ELSE Sponge(s, ad)[last + 1]
<1>1. s \in SpongeStates
  BY InitIsState
<1>2. Len(ad) = 0 <=> ad = <<>>
  BY EmptySeq
<1>3. last \in Nat /\ last + 1 \in 0 .. last + 1
  BY BlocksOfData
<1> HIDE DEF s, last
<1>4. Absorbing(s, ad)[last + 1] = Sponge(s, ad)[last + 1]
  BY <1>1, <1>3, SameStates DEF last
<1>5. Absorbing(s, ad)[last + 1] \in SpongeStates
  BY <1>1, <1>3, StatesAbsorbing
<1>6. t \in SpongeStates /\ t = u
  BY <1>1, <1>2, <1>4, <1>5
<1>7. /\ Started(ad, npub, k) = [t EXCEPT !.x4 = t.x4 ^^ Dsep]
      /\ ModeStarted(ad, npub, k) = [u EXCEPT !.x4 = u.x4 ^^ Dsep]
  BY DEF Started, AData, ModeStarted, ModeAData, s, last
<1> HIDE DEF t, u
<1> DEFINE v == t.x4 ^^ Dsep
<1>8. v \in Words
  BY <1>6, StateWords, LoadsAreWords, DifferenceIsWord
<1> HIDE DEF v
<1>9. [t EXCEPT !.x4 = v] \in SpongeStates
  BY <1>6, <1>8 DEF SpongeStates
<1>10. QED
  BY <1>6, <1>7, <1>9 DEF v

\* The state with a block of the data added, in the code and in the mode.
LEMMA SameWithBlock ==
  ASSUME NEW s \in SpongeStates, NEW m \in Seq(Bytes), NEW n \in 0 .. LastBlock(m)
  PROVE  /\ Absorbing(s, m)[n] \in SpongeStates
         /\ Absorb(Absorbing(s, m)[n], m, n) = ModeState(s, m, n)
<1> DEFINE left == Absorbing(s, m)[n]
<1>1. LastBlock(m) \in Nat /\ n \in Nat /\ n * Rate <= Len(m)
  BY BlocksOfData
<1>2. n \in 0 .. LastBlock(m) + 1
  BY <1>1
<1>3. left \in SpongeStates
  BY <1>1, StatesAbsorbing
<1>4. left = Sponge(s, m)[n]
  BY <1>2, SameStates
<1> HIDE DEF left
<1>5. Absorb(left, m, n) = WithBlock(left, PaddedBlock(m, n))
  BY <1>1, <1>3, AbsorbsPadded
<1>6. QED
  BY <1>3, <1>4, <1>5 DEF ModeState, left

LEMMA ComputesTheMode ==
  ASSUME NEW m \in Seq(Bytes), NEW ad \in Seq(Bytes), NEW npub, NEW k
  PROVE  AeadEncrypt(m, ad, npub, k) = ModeEncrypt(m, ad, npub, k)
<1> DEFINE s == Started(ad, npub, k)
           last == LastBlock(m)
           block(q) == (q - 1) \div Rate
           place(q) == (q - 1) % Rate
<1>1. s \in SpongeStates /\ s = ModeStarted(ad, npub, k)
  BY StartsAlike
<1>2. last \in 0 .. last /\ \A q \in 1 .. Len(m) : block(q) \in 0 .. last
  BY BlocksOfData
<1> HIDE DEF s, last
<1>3. Absorb(Absorbing(s, m)[last], m, last) = ModeState(s, m, last)
  BY <1>1, <1>2, SameWithBlock DEF last
<1> HIDE DEF block
<1>4. \A q \in 1 .. Len(m) :
        Absorb(Absorbing(s, m)[block(q)], m, block(q)) = ModeState(s, m, block(q))
  BY <1>1, <1>2, SameWithBlock DEF last
<1>5. Encrypt(s, m) =
        [state |-> ModeState(s, m, last),
         out |-> [q \in 1 .. Len(m) |-> RateByte(ModeState(s, m, block(q)), place(q))]]
  BY <1>3, <1>4 DEF Encrypt, Output, last, block
<1>6. QED
  BY <1>1, <1>5 DEF AeadEncrypt, ModeEncrypt, s, last, block

----------------------------------------------------------------------------
(* A text and its ciphertext *)

\* A byte comes out as what was there with the byte of the data added.
LEMMA ByteAdded ==
  ASSUME NEW w, NEW data \in Seq(Bytes), NEW at \in Nat, NEW k \in 0 .. WordBytes,
         at + k <= Len(data), NEW j \in 0 .. k - 1
  PROVE  /\ ByteOf(w ^^ LoadBytes(data, at, k), j) = ByteOf(w, j) ^^ data[at + j + 1]
         /\ ByteOf(AddLast(w, data, at, k), j) = ByteOf(w, j) ^^ data[at + j + 1]
<1> DEFINE loaded == LoadBytes(data, at, k)
           padding == Pad(k)
           byte == data[at + j + 1]
<1>1. /\ WordBytes \in Nat /\ j \in 0 .. WordBytes - 1 /\ j < k /\ j # k
      /\ at + j + 1 \in 1 .. Len(data)
  BY WordAssumption
<1>2. byte \in Bytes
  BY <1>1
<1> HIDE DEF byte
<1>3. \A b \in Bits : <<j, b>> \in WordBits
  BY <1>1 DEF WordBits
<1>4. \A b \in Bits : <<j, b>> \in loaded <=> b \in byte
  BY <1>1, <1>3 DEF LoadBytes, byte
<1>5. \A b \in Bits : <<j, b>> \notin padding
  BY <1>1 DEF Pad
<1> HIDE DEF loaded, padding
<1>6. byte \subseteq Bits
  BY <1>2 DEF Bytes
<1>7. ByteOf(w ^^ loaded, j) = ByteOf(w, j) ^^ byte
  BY <1>4, <1>6 DEF ByteOf, ^^
<1>8. ByteOf((w ^^ padding) ^^ loaded, j) = ByteOf(w, j) ^^ byte
  BY <1>4, <1>5, <1>6 DEF ByteOf, ^^
<1>9. QED
  BY <1>7, <1>8 DEF AddLast, loaded, padding, byte

\* The bytes of a ciphertext are those of the text with the bytes of a word added.
CoversText(w, m, c, at, k) ==
  \A j \in 0 .. k - 1 : c[at + j + 1] = ByteOf(w, j) ^^ m[at + j + 1]

\* Then taking the ciphertext in leaves the word as adding the text does.
LEMMA WordInserted ==
  ASSUME NEW w \in Words, NEW m, NEW c, NEW at \in Nat, NEW k \in 0 .. WordBytes,
         CoversText(w, m, c, at, k)
  PROVE  /\ k = WordBytes => LoadBytes(c, at, k) = w ^^ LoadBytes(m, at, k)
         /\ PutLast(w, c, at, k) = AddLast(w, m, at, k)
<1> DEFINE text == LoadBytes(m, at, k)
           cipher == LoadBytes(c, at, k)
           padding == Pad(k)
           early == {x \in WordBits : x[1] < k}
<1>1. WordBytes \in Nat /\ w \subseteq WordBits
  BY WordAssumption DEF Words
<1>2. \A x \in WordBits : x[1] \in 0 .. WordBytes - 1 /\ x[2] \in Bits /\ x = <<x[1], x[2]>>
  BY BitsOfWords
<1>3. ASSUME NEW x \in early
      PROVE  (x \in cipher) <=> ((x \in w) # (x \in text))
  <2>1. x[1] \in 0 .. k - 1 /\ x[2] \in Bits /\ x = <<x[1], x[2]>> /\ x[1] < k
    BY <1>1, <1>2
  <2>2. c[at + x[1] + 1] = ByteOf(w, x[1]) ^^ m[at + x[1] + 1]
    BY <2>1 DEF CoversText
  <2>3. x[2] \in ByteOf(w, x[1]) <=> x \in w
    BY <2>1 DEF ByteOf
  <2>4. x \in cipher <=> x[2] \in c[at + x[1] + 1]
    BY <2>1 DEF LoadBytes
  <2>5. x \in text <=> x[2] \in m[at + x[1] + 1]
    BY <2>1 DEF LoadBytes
  <2>6. x[2] \in c[at + x[1] + 1] <=>
          ((x[2] \in ByteOf(w, x[1])) # (x[2] \in m[at + x[1] + 1]))
    BY <2>2 DEF ^^
  <2>7. QED
    BY <2>3, <2>4, <2>5, <2>6
<1>4. cipher \subseteq early /\ text \subseteq early
  BY DEF LoadBytes
<1>5. padding \subseteq WordBits \ early
  BY <1>1, <1>2 DEF Pad
<1>6. \A v : Clear(v, k) = {x \in v : x[1] >= k}
  BY DEF Clear
<1> DEFINE cleared == Clear((w ^^ padding) ^^ cipher, k)
<1>7. cleared = ((w ^^ padding) ^^ cipher) \ early
  <2>1. (w ^^ padding) ^^ cipher \subseteq WordBits
    BY <1>1, <1>4, <1>5 DEF ^^
  <2>2. \A x \in WordBits : x[1] >= k <=> x \notin early
    BY <1>1, <1>2
  <2> HIDE DEF early, padding, cipher
  <2>3. QED
    BY <1>6, <2>1, <2>2
<1>8. PutLast(w, c, at, k) = cleared ^^ cipher /\ AddLast(w, m, at, k) = (w ^^ padding) ^^ text
  BY DEF PutLast, AddLast
<1>9. k = WordBytes => early = WordBits
  BY <1>1, <1>2
<1> HIDE DEF early, text, cipher, padding, cleared
<1>10. cleared ^^ cipher = (w ^^ padding) ^^ text
  BY <1>1, <1>3, <1>4, <1>5, <1>7 DEF ^^
<1>11. early = WordBits => cipher = w ^^ text
  BY <1>1, <1>3, <1>4 DEF ^^
<1>12. QED
  BY <1>8, <1>9, <1>10, <1>11 DEF text, cipher

\* What a block is added to and the case it falls in.
LEMMA BlockCases ==
  ASSUME NEW n \in Nat, NEW size \in Nat, n * Rate <= size
  PROVE  /\ WordBytes \in Nat \ {0} /\ Rate = WordBytes + WordBytes /\ n * Rate \in Nat
         /\ n * Rate + WordBytes \in Nat
         /\ \/ size - n * Rate >= Rate
            \/ /\ ~ (size - n * Rate >= Rate) /\ size - n * Rate >= WordBytes
               /\ (size - n * Rate) - WordBytes \in 0 .. WordBytes - 1
            \/ /\ ~ (size - n * Rate >= Rate) /\ ~ (size - n * Rate >= WordBytes)
               /\ size - n * Rate \in 0 .. WordBytes - 1
<1> DEFINE at == n * Rate
<1>1. WordBytes \in Nat \ {0} /\ Rate = WordBytes + WordBytes
  BY WordAssumption DEF Rate
<1>2. at \in Nat
  BY <1>1
<1> HIDE DEF at
<1>3. QED
  BY <1>1, <1>2 DEF at

LEMMA BlockOut ==
  ASSUME NEW s \in SpongeStates, NEW data \in Seq(Bytes), NEW n \in Nat,
         NEW p \in 0 .. Rate - 1, n * Rate + p + 1 <= Len(data)
  PROVE  RateByte(Absorb(s, data, n), p) = RateByte(s, p) ^^ data[n * Rate + p + 1]
<1> DEFINE at == n * Rate
           second == at + WordBytes
           left == Len(data) - at
           t == Absorb(s, data, n)
<1>1. /\ WordBytes \in Nat \ {0} /\ Rate = WordBytes + WordBytes /\ at \in Nat
      /\ Len(data) \in Nat /\ second \in Nat
      /\ \/ left >= Rate
         \/ ~ (left >= Rate) /\ left >= WordBytes /\ left - WordBytes \in 0 .. WordBytes - 1
         \/ ~ (left >= Rate) /\ ~ (left >= WordBytes) /\ left \in 0 .. WordBytes - 1
  <2>1. WordBytes \in Nat \ {0} /\ Rate = WordBytes + WordBytes
    BY WordAssumption DEF Rate
  <2>2. at \in Nat /\ Len(data) \in Nat
    BY <2>1
  <2>3. at + p + 1 <= Len(data)
    OBVIOUS
  <2> HIDE DEF at
  <2>4. at <= Len(data)
    BY <2>1, <2>2, <2>3
  <2>5. QED
    BY <2>2, <2>4, BlockCases DEF at
<1>2. at + p + 1 <= Len(data)
  OBVIOUS
<1> HIDE DEF at
<1> DEFINE j == p - WordBytes
<1>3. CASE left >= Rate
  <2>1. /\ t.x0 = s.x0 ^^ LoadBytes(data, at, WordBytes)
        /\ t.x1 = s.x1 ^^ LoadBytes(data, second, WordBytes)
    BY <1>3 DEF Absorb, SpongeStates, at
  <2>2. CASE p < WordBytes
    <3>1. /\ p \in 0 .. WordBytes - 1 /\ WordBytes \in 0 .. WordBytes
          /\ at + WordBytes <= Len(data)
      BY <1>1, <1>3, <2>2
    <3>2. ByteOf(s.x0 ^^ LoadBytes(data, at, WordBytes), p) = ByteOf(s.x0, p) ^^ data[at + p + 1]
      BY <1>1, <3>1, ByteAdded
    <3>3. QED
      BY <2>1, <2>2, <3>2 DEF RateByte, at
  <2>3. CASE ~ (p < WordBytes)
    <3>1. /\ j \in 0 .. WordBytes - 1 /\ WordBytes \in 0 .. WordBytes
          /\ second + WordBytes <= Len(data) /\ second + j + 1 = at + p + 1
      BY <1>1, <1>3, <2>3
    <3>2. ByteOf(t.x1, j) = ByteOf(s.x1, j) ^^ data[second + j + 1]
      BY <1>1, <2>1, <3>1, ByteAdded
    <3>3. QED
      BY <2>3, <3>1, <3>2 DEF RateByte, at
  <2>4. QED
    BY <2>2, <2>3
<1>4. CASE ~ (left >= Rate) /\ left >= WordBytes /\ left - WordBytes \in 0 .. WordBytes - 1
  <2>1. /\ t.x0 = s.x0 ^^ LoadBytes(data, at, WordBytes)
        /\ t.x1 = AddLast(s.x1, data, second, left - WordBytes)
    BY <1>4 DEF Absorb, SpongeStates, at
  <2>2. CASE p < WordBytes
    <3>1. /\ p \in 0 .. WordBytes - 1 /\ WordBytes \in 0 .. WordBytes
          /\ at + WordBytes <= Len(data)
      BY <1>1, <1>4, <2>2
    <3>2. ByteOf(s.x0 ^^ LoadBytes(data, at, WordBytes), p) = ByteOf(s.x0, p) ^^ data[at + p + 1]
      BY <1>1, <3>1, ByteAdded
    <3>3. QED
      BY <2>1, <2>2, <3>2 DEF RateByte, at
  <2>3. CASE ~ (p < WordBytes)
    <3> DEFINE k == left - WordBytes
    <3>1. /\ k \in 0 .. WordBytes /\ j \in 0 .. k - 1
          /\ second + k <= Len(data) /\ second + j + 1 = at + p + 1
      BY <1>1, <1>2, <1>4, <2>3
    <3>2. t.x1 = AddLast(s.x1, data, second, k)
      BY <2>1
    <3> HIDE DEF k
    <3>3. ByteOf(t.x1, j) = ByteOf(s.x1, j) ^^ data[second + j + 1]
      BY <1>1, <3>1, <3>2, ByteAdded
    <3>4. QED
      BY <2>3, <3>1, <3>3 DEF RateByte, at
  <2>4. QED
    BY <2>2, <2>3
<1>5. CASE ~ (left >= Rate) /\ ~ (left >= WordBytes) /\ left \in 0 .. WordBytes - 1
  <2>1. t.x0 = AddLast(s.x0, data, at, left)
    BY <1>5 DEF Absorb, SpongeStates, at
  <2>2. left \in 0 .. WordBytes /\ p \in 0 .. left - 1 /\ at + left <= Len(data) /\ p < WordBytes
    BY <1>1, <1>2, <1>5
  <2> HIDE DEF left
  <2>3. ByteOf(AddLast(s.x0, data, at, left), p) = ByteOf(s.x0, p) ^^ data[at + p + 1]
    BY <1>1, <2>2, ByteAdded
  <2>4. QED
    BY <2>1, <2>2, <2>3 DEF RateByte, at
<1>6. QED
  BY <1>1, <1>3, <1>4, <1>5

\* A block of ciphertext taken in leaves the state as the block of text does.
LEMMA BlockIn ==
  ASSUME NEW s \in SpongeStates, NEW m, NEW c, NEW n \in Nat,
         Len(m) \in Nat, Len(c) = Len(m), n * Rate <= Len(m),
         \A p \in 0 .. Rate - 1 :
           n * Rate + p + 1 <= Len(m) =>
             c[n * Rate + p + 1] = RateByte(s, p) ^^ m[n * Rate + p + 1]
  PROVE  Insert(s, c, n) = Absorb(s, m, n)
<1> DEFINE at == n * Rate
           second == at + WordBytes
           left == Len(m) - at
<1>1. /\ WordBytes \in Nat \ {0} /\ Rate = WordBytes + WordBytes /\ at \in Nat
      /\ second \in Nat
      /\ \/ left >= Rate
         \/ ~ (left >= Rate) /\ left >= WordBytes /\ left - WordBytes \in 0 .. WordBytes - 1
         \/ ~ (left >= Rate) /\ ~ (left >= WordBytes) /\ left \in 0 .. WordBytes - 1
  BY BlockCases
<1>2. \A p \in 0 .. Rate - 1 :
        at + p + 1 <= Len(m) => c[at + p + 1] = RateByte(s, p) ^^ m[at + p + 1]
  OBVIOUS
<1>3. s.x0 \in Words /\ s.x1 \in Words
  BY StateWords
<1> HIDE DEF at
\* The bytes of the first word, and of the second.
<1>4. ASSUME NEW k \in 0 .. WordBytes, k <= left
      PROVE  CoversText(s.x0, m, c, at, k)
  <2>1. ASSUME NEW j \in 0 .. k - 1
        PROVE  c[at + j + 1] = ByteOf(s.x0, j) ^^ m[at + j + 1]
    <3>1. j \in 0 .. Rate - 1 /\ j < WordBytes /\ at + j + 1 <= Len(m)
      BY <1>1, <1>4, <2>1
    <3>2. QED
      BY <1>2, <3>1 DEF RateByte
  <2>2. QED
    BY <2>1 DEF CoversText
<1>5. ASSUME NEW k \in 0 .. WordBytes, k <= left - WordBytes
      PROVE  CoversText(s.x1, m, c, second, k)
  <2>1. ASSUME NEW j \in 0 .. k - 1
        PROVE  c[second + j + 1] = ByteOf(s.x1, j) ^^ m[second + j + 1]
    <3> DEFINE p == WordBytes + j
    <3>1. /\ p \in 0 .. Rate - 1 /\ ~ (p < WordBytes) /\ at + p + 1 <= Len(m)
          /\ p - WordBytes = j /\ at + p + 1 = second + j + 1
      BY <1>1, <1>5, <2>1
    <3> HIDE DEF p
    <3>2. QED
      BY <1>2, <3>1 DEF RateByte
  <2>2. QED
    BY <2>1 DEF CoversText
<1>6. left >= WordBytes =>
        LoadBytes(c, at, WordBytes) = s.x0 ^^ LoadBytes(m, at, WordBytes)
  <2>1. WordBytes \in 0 .. WordBytes
    BY <1>1
  <2>2. ASSUME left >= WordBytes
        PROVE  CoversText(s.x0, m, c, at, WordBytes)
    BY <1>4, <2>1, <2>2
  <2>3. QED
    BY <1>1, <1>3, <2>1, <2>2, WordInserted
<1>7. CASE left >= Rate
  <2>1. WordBytes \in 0 .. WordBytes /\ WordBytes <= left - WordBytes /\ left >= WordBytes
    BY <1>1, <1>7
  <2>2. CoversText(s.x1, m, c, second, WordBytes)
    BY <1>5, <2>1
  <2> HIDE DEF second
  <2>3. LoadBytes(c, second, WordBytes) = s.x1 ^^ LoadBytes(m, second, WordBytes)
    BY <1>1, <1>3, <2>1, <2>2, WordInserted
  <2>4. QED
    BY <1>6, <1>7, <2>1, <2>3 DEF Insert, Absorb, at, second
<1>8. CASE ~ (left >= Rate) /\ left >= WordBytes /\ left - WordBytes \in 0 .. WordBytes - 1
  <2> DEFINE k == left - WordBytes
  <2>1. k \in 0 .. WordBytes /\ k <= left - WordBytes
    BY <1>1, <1>8
  <2> HIDE DEF k
  <2>2. CoversText(s.x1, m, c, second, k)
    BY <1>5, <2>1
  <2> HIDE DEF second
  <2>3. PutLast(s.x1, c, second, k) = AddLast(s.x1, m, second, k)
    BY <1>1, <1>3, <2>1, <2>2, WordInserted
  <2>4. QED
    BY <1>6, <1>8, <2>3 DEF Insert, Absorb, at, k, second
<1>9. CASE ~ (left >= Rate) /\ ~ (left >= WordBytes) /\ left \in 0 .. WordBytes - 1
  <2>1. left \in 0 .. WordBytes /\ left <= left
    BY <1>1, <1>9
  <2> HIDE DEF left
  <2>2. CoversText(s.x0, m, c, at, left)
    BY <1>4, <2>1
  <2>3. PutLast(s.x0, c, at, left) = AddLast(s.x0, m, at, left)
    BY <1>1, <1>3, <2>1, <2>2, WordInserted
  <2>4. QED
    BY <1>9, <2>3 DEF Insert, Absorb, at, left
<1>10. QED
  BY <1>1, <1>7, <1>8, <1>9

LEMMA PlaceInBlock ==
  ASSUME NEW n \in Nat, NEW p \in 0 .. Rate - 1
  PROVE  /\ n * Rate + p + 1 \in Nat \ {0}
         /\ ((n * Rate + p + 1) - 1) \div Rate = n
         /\ ((n * Rate + p + 1) - 1) % Rate = p
<1> DEFINE r == Rate
<1>1. r \in Nat \ {0}
  BY WordAssumption DEF Rate
<1> HIDE DEF r
<1>2. p \in 0 .. r - 1
  BY DEF r
<1> DEFINE a == (n * r + p + 1) - 1
<1>3. a = (r * n) + p /\ r * n \in Nat /\ a \in Nat /\ a + 1 = n * r + p + 1
  BY <1>1, <1>2
<1> HIDE DEF a
<1> DEFINE b == a \div r
<1>4. b \in Nat /\ r * b <= a /\ a < (r * b) + r /\ a % r = a - r * b
  BY <1>1, <1>3
<1> HIDE DEF b
<1>5. ~ (b < n)
  <2>1. ASSUME b < n
        PROVE  FALSE
    <3>1. r * (b + 1) <= r * n /\ r * (b + 1) = (r * b) + r
      BY <1>1, <1>4, <2>1
    <3>2. QED
      BY <1>1, <1>2, <1>3, <1>4, <3>1
  <2>2. QED
    BY <2>1
<1>6. ~ (n < b)
  <2>1. ASSUME n < b
        PROVE  FALSE
    <3>1. r * (n + 1) <= r * b /\ r * (n + 1) = (r * n) + r
      BY <1>1, <1>4, <2>1
    <3>2. QED
      BY <1>1, <1>2, <1>3, <1>4, <3>1
  <2>2. QED
    BY <2>1
<1>7. b = n
  BY <1>4, <1>5, <1>6
<1>8. a % r = p
  BY <1>3, <1>4, <1>7
<1>9. QED
  BY <1>3, <1>7, <1>8 DEF a, b, r

\* The bytes of a ciphertext are those of the text with what came out of the rate.
Covers(before, m, c) ==
  /\ Len(m) \in Nat /\ Len(c) = Len(m)
  /\ \A q \in 1 .. Len(m) :
       c[q] = RateByte(before[(q - 1) \div Rate], (q - 1) % Rate) ^^ m[q]

LEMMA BlockCovered ==
  ASSUME NEW before, NEW m, NEW c, Covers(before, m, c), NEW n \in Nat,
         NEW p \in 0 .. Rate - 1, n * Rate + p + 1 <= Len(m)
  PROVE  c[n * Rate + p + 1] = RateByte(before[n], p) ^^ m[n * Rate + p + 1]
<1> DEFINE q == n * Rate + p + 1
<1>1. q \in Nat \ {0} /\ (q - 1) \div Rate = n /\ (q - 1) % Rate = p
  BY PlaceInBlock
<1>2. q <= Len(m)
  OBVIOUS
<1> HIDE DEF q
<1>3. q \in 1 .. Len(m)
  BY <1>1, <1>2 DEF Covers
<1>4. c[q] = RateByte(before[(q - 1) \div Rate], (q - 1) % Rate) ^^ m[q]
  BY <1>3 DEF Covers
<1>5. QED
  BY <1>1, <1>4 DEF q

\* Taking a ciphertext in leads through the states that adding its text leads
\* through.
LEMMA SameWay ==
  ASSUME NEW s \in SpongeStates, NEW m, NEW c,
         Covers(Absorbing(s, m), m, c) \/ Covers(Inserting(s, c), m, c)
  PROVE  \A n \in 0 .. LastBlock(m) :
           /\ Inserting(s, c)[n] = Absorbing(s, m)[n]
           /\ Insert(Inserting(s, c)[n], c, n) = Absorb(Absorbing(s, m)[n], m, n)
<1> DEFINE last == LastBlock(m)
           taken == Inserting(s, c)
           added == Absorbing(s, m)
           P == {n \in Nat : n <= last => taken[n] = added[n]}
<1>1. /\ Len(m) \in Nat /\ Len(c) = Len(m)
      /\ last \in Nat /\ \A n \in 0 .. last : n * Rate <= Len(m)
  BY BlocksOfData DEF Covers
<1>2. /\ \A n \in Nat : added[n] \in SpongeStates
      /\ taken[0] = s /\ added[0] = s
      /\ \A n \in Nat : /\ taken[n + 1] = P8Rounds(Insert(taken[n], c, n))
                        /\ added[n + 1] = P8Rounds(Absorb(added[n], m, n))
  BY StatesAbsorbing, StatesInserting
<1>3. ASSUME NEW n \in 0 .. last, taken[n] = added[n]
      PROVE  Insert(taken[n], c, n) = Absorb(added[n], m, n)
  <2> DEFINE t == added[n]
  <2>1. n \in Nat /\ n * Rate <= Len(m) /\ t \in SpongeStates
    BY <1>1, <1>2
  <2>2. ASSUME NEW p \in 0 .. Rate - 1, n * Rate + p + 1 <= Len(m)
        PROVE  c[n * Rate + p + 1] = RateByte(t, p) ^^ m[n * Rate + p + 1]
    <3>1. CASE Covers(added, m, c)
      <4> HIDE DEF taken, added
      <4>1. QED
        BY <2>1, <2>2, <3>1, BlockCovered
    <3>2. CASE Covers(taken, m, c)
      <4>1. taken[n] = t
        BY <1>3
      <4> HIDE DEF taken, added, t
      <4>2. c[n * Rate + p + 1] = RateByte(taken[n], p) ^^ m[n * Rate + p + 1]
        BY <2>1, <2>2, <3>2, BlockCovered
      <4>3. QED
        BY <4>1, <4>2
    <3>3. QED
      BY <3>1, <3>2
  <2> HIDE DEF t
  <2>3. Insert(t, c, n) = Absorb(t, m, n)
    BY <1>1, <2>1, <2>2, BlockIn
  <2>4. QED
    BY <1>3, <2>3 DEF t
<1> HIDE DEF taken, added, last
<1>4. 0 \in P
  BY <1>2
<1>5. ASSUME NEW n \in Nat, n \in P
      PROVE  n + 1 \in P
  <2>1. CASE n + 1 <= last
    <3>1. n \in 0 .. last /\ taken[n] = added[n]
      BY <1>1, <1>5, <2>1
    <3>2. taken[n + 1] = added[n + 1]
      BY <1>2, <1>3, <3>1
    <3>3. QED
      BY <3>2
  <2>2. QED
    BY <2>1
<1> HIDE DEF P
<1>6. Nat \subseteq P
  BY <1>4, <1>5, EveryNumber
<1>7. \A n \in 0 .. last : taken[n] = added[n]
  BY <1>1, <1>6 DEF P
<1>8. QED
  BY <1>3, <1>7 DEF taken, added, last

LEMMA RateBytesAreBytes ==
  ASSUME NEW s, NEW p
  PROVE  RateByte(s, p) \in Bytes
BY DEF RateByte, ByteOf, Bytes

\* What comes out when data is added to a run of states: as many bytes, each with
\* what was there added.
LEMMA OutputAdds ==
  ASSUME NEW before, NEW data \in Seq(Bytes), \A n \in Nat : before[n] \in SpongeStates
  PROVE  /\ Output(before, data) \in Seq(Bytes)
         /\ Len(Output(before, data)) = Len(data)
         /\ \A q \in 1 .. Len(data) :
              Output(before, data)[q] =
                RateByte(before[(q - 1) \div Rate], (q - 1) % Rate) ^^ data[q]
<1> DEFINE out == Output(before, data)
           block(q) == (q - 1) \div Rate
           place(q) == (q - 1) % Rate
<1>1. out = [q \in 1 .. Len(data) |-> RateByte(Absorb(before[block(q)], data, block(q)), place(q))]
  BY DEF Output
<1>2. Len(data) \in Nat /\ LastBlock(data) \in Nat
      /\ \A q \in 1 .. Len(data) :
           /\ block(q) \in 0 .. LastBlock(data)
           /\ place(q) \in 0 .. Rate - 1
           /\ q = block(q) * Rate + place(q) + 1
  BY BlocksOfData
<1> HIDE DEF out, block, place
<1>3. out \in [1 .. Len(data) -> Bytes]
  BY <1>1, RateBytesAreBytes
<1>4. out \in Seq(Bytes) /\ Len(out) = Len(data)
  BY <1>2, <1>3
<1>5. ASSUME NEW q \in 1 .. Len(data)
      PROVE  out[q] = RateByte(before[block(q)], place(q)) ^^ data[q]
  <2> DEFINE n == block(q)
             p == place(q)
  <2>1. n \in Nat /\ p \in 0 .. Rate - 1 /\ q = n * Rate + p + 1 /\ q <= Len(data)
    BY <1>2
  <2>2. out[q] = RateByte(Absorb(before[n], data, n), p)
    BY <1>1
  <2> HIDE DEF n, p
  <2>3. RateByte(Absorb(before[n], data, n), p) =
          RateByte(before[n], p) ^^ data[n * Rate + p + 1]
    BY <2>1, BlockOut
  <2>4. QED
    BY <2>1, <2>2, <2>3 DEF n, p
<1>6. QED
  BY <1>4, <1>5 DEF out, block, place

\* A ciphertext gives back its text, and a text its ciphertext, and both leave the
\* same state.
LEMMA TextOfCipher ==
  ASSUME NEW s \in SpongeStates, NEW m \in Seq(Bytes)
  PROVE  LET c == Encrypt(s, m).out
         IN /\ c \in Seq(Bytes) /\ Len(c) = Len(m)
            /\ Decrypt(s, c).out = m
            /\ Decrypt(s, c).state = Encrypt(s, m).state
<1> DEFINE added == Absorbing(s, m)
           c == Output(added, m)
           taken == Inserting(s, c)
           last == LastBlock(m)
           block(q) == (q - 1) \div Rate
           place(q) == (q - 1) % Rate
<1>1. Encrypt(s, m).out = c /\ Encrypt(s, m).state = Absorb(added[last], m, last)
  BY DEF Encrypt
<1>2. \A n \in Nat : added[n] \in SpongeStates /\ taken[n] \in SpongeStates
  BY StatesAbsorbing, StatesInserting
<1> HIDE DEF added
<1>3. /\ c \in Seq(Bytes) /\ Len(c) = Len(m) /\ Len(m) \in Nat
      /\ \A q \in 1 .. Len(m) : c[q] = RateByte(added[block(q)], place(q)) ^^ m[q]
  BY <1>2, OutputAdds
<1> HIDE DEF c
<1>4. Covers(added, m, c)
  BY <1>3 DEF Covers
<1>5. \A n \in 0 .. last :
        taken[n] = added[n] /\ Insert(taken[n], c, n) = Absorb(added[n], m, n)
  BY <1>4, SameWay DEF added
<1>6. /\ last \in 0 .. last
      /\ \A q \in 1 .. Len(m) : block(q) \in 0 .. last
  BY BlocksOfData
<1>7. LastBlock(c) = last
  BY <1>3 DEF LastBlock
<1>8. /\ Decrypt(s, c).state = Insert(taken[last], c, last)
      /\ Decrypt(s, c).out = Output(taken, c)
  BY <1>7 DEF Decrypt
<1> HIDE DEF taken, last
<1>9. /\ Output(taken, c) \in Seq(Bytes) /\ Len(Output(taken, c)) = Len(m)
      /\ \A q \in 1 .. Len(m) :
           Output(taken, c)[q] = RateByte(taken[block(q)], place(q)) ^^ c[q]
  BY <1>2, <1>3, OutputAdds
<1> HIDE DEF block, place
<1>10. ASSUME NEW q \in 1 .. Len(m)
       PROVE  Output(taken, c)[q] = m[q]
  <2>1. taken[block(q)] = added[block(q)]
    BY <1>5, <1>6
  <2>2. QED
    BY <1>3, <1>9, <2>1, AddedTwice
<1>11. Output(taken, c) = m
  BY <1>3, <1>9, <1>10, SeqEqual
<1>12. QED
  BY <1>1, <1>3, <1>5, <1>6, <1>8, <1>11

LEMMA CipherOfText ==
  ASSUME NEW s \in SpongeStates, NEW c \in Seq(Bytes)
  PROVE  LET m == Decrypt(s, c).out
         IN /\ m \in Seq(Bytes) /\ Len(m) = Len(c)
            /\ Encrypt(s, m).out = c
            /\ Encrypt(s, m).state = Decrypt(s, c).state
<1> DEFINE taken == Inserting(s, c)
           m == Output(taken, c)
           added == Absorbing(s, m)
           last == LastBlock(m)
           block(q) == (q - 1) \div Rate
           place(q) == (q - 1) % Rate
<1>1. Decrypt(s, c).out = m
  BY DEF Decrypt
<1>2. \A n \in Nat : added[n] \in SpongeStates /\ taken[n] \in SpongeStates
  BY StatesAbsorbing, StatesInserting
<1> HIDE DEF taken
<1>3. /\ m \in Seq(Bytes) /\ Len(m) = Len(c) /\ Len(c) \in Nat
      /\ \A q \in 1 .. Len(c) : m[q] = RateByte(taken[block(q)], place(q)) ^^ c[q]
  BY <1>2, OutputAdds
<1> HIDE DEF m
<1>4. Covers(taken, m, c)
  BY <1>3, AddedTwice DEF Covers
<1>5. \A n \in 0 .. last :
        taken[n] = added[n] /\ Insert(taken[n], c, n) = Absorb(added[n], m, n)
  BY <1>4, SameWay DEF taken
<1>6. /\ last \in 0 .. last
      /\ \A q \in 1 .. Len(m) : block(q) \in 0 .. last
  BY <1>3, BlocksOfData
<1>7. LastBlock(c) = last
  BY <1>3 DEF LastBlock
<1>8. /\ Decrypt(s, c).state = Insert(taken[last], c, last)
      /\ Encrypt(s, m).state = Absorb(added[last], m, last)
      /\ Encrypt(s, m).out = Output(added, m)
  BY <1>7 DEF Decrypt, Encrypt, taken
<1> HIDE DEF added, last
<1>9. /\ Output(added, m) \in Seq(Bytes) /\ Len(Output(added, m)) = Len(m)
      /\ \A q \in 1 .. Len(m) :
           Output(added, m)[q] = RateByte(added[block(q)], place(q)) ^^ m[q]
  BY <1>2, <1>3, OutputAdds
<1> HIDE DEF block, place
<1>10. ASSUME NEW q \in 1 .. Len(c)
       PROVE  Output(added, m)[q] = c[q]
  <2>1. taken[block(q)] = added[block(q)]
    BY <1>3, <1>5, <1>6
  <2>2. QED
    BY <1>3, <1>9, <2>1, AddedTwice
<1>11. Output(added, m) = c
  BY <1>3, <1>9, <1>10, SeqEqual
<1>12. QED
  BY <1>1, <1>3, <1>5, <1>6, <1>8, <1>11

----------------------------------------------------------------------------
(* The tag *)

LEMMA WordCompared ==
  ASSUME NEW w \in Words, NEW t, NEW at \in Nat,
         \A j \in 0 .. WordBytes - 1 : t[at + j + 1] \in Bytes
  PROVE  w = LoadBytes(t, at, WordBytes) <=>
           \A j \in 0 .. WordBytes - 1 : t[at + j + 1] = ByteOf(w, j)
<1> DEFINE loaded == LoadBytes(t, at, WordBytes)
<1>1. WordBytes \in Nat
  BY WordAssumption
<1>2. \A j \in 0 .. WordBytes - 1, b \in Bits :
        /\ <<j, b>> \in WordBits
        /\ <<j, b>> \in loaded <=> b \in t[at + j + 1]
        /\ <<j, b>> \in w <=> b \in ByteOf(w, j)
  <2>1. ASSUME NEW j \in 0 .. WordBytes - 1, NEW b \in Bits
        PROVE  /\ <<j, b>> \in WordBits
               /\ <<j, b>> \in loaded <=> b \in t[at + j + 1]
               /\ <<j, b>> \in w <=> b \in ByteOf(w, j)
    <3>1. <<j, b>> \in WordBits /\ j < WordBytes
      BY <1>1 DEF WordBits
    <3>2. QED
      BY <3>1 DEF LoadBytes, ByteOf
  <2>2. QED
    BY <2>1
<1>3. loaded \subseteq WordBits /\ w \subseteq WordBits
  BY DEF LoadBytes, Words
<1> HIDE DEF loaded
<1>4. ASSUME w = loaded, NEW j \in 0 .. WordBytes - 1
      PROVE  t[at + j + 1] = ByteOf(w, j)
  <2>1. t[at + j + 1] \subseteq Bits /\ ByteOf(w, j) \subseteq Bits
    BY DEF Bytes, ByteOf
  <2>2. \A b \in Bits : b \in t[at + j + 1] <=> b \in ByteOf(w, j)
    BY <1>2, <1>4
  <2>3. QED
    BY <2>1, <2>2
<1>5. ASSUME \A j \in 0 .. WordBytes - 1 : t[at + j + 1] = ByteOf(w, j)
      PROVE  w = loaded
  <2>1. ASSUME NEW x \in WordBits
        PROVE  x \in w <=> x \in loaded
    <3>1. x[1] \in 0 .. WordBytes - 1 /\ x[2] \in Bits /\ x = <<x[1], x[2]>>
      BY BitsOfWords
    <3>2. /\ x \in loaded <=> x[2] \in t[at + x[1] + 1]
          /\ x \in w <=> x[2] \in ByteOf(w, x[1])
      BY <1>2, <3>1
    <3>3. QED
      BY <1>5, <3>1, <3>2
  <2>2. QED
    BY <1>3, <2>1
<1>6. QED
  BY <1>4, <1>5 DEF loaded

\* ascon_verify accepts the tag that ascon_gettag writes, and no other.
LEMMA TagVerifies ==
  ASSUME NEW s \in SpongeStates, NEW t \in Seq(Bytes), Len(t) = TagBytes
  PROVE  Verify(s, t) <=> t = GetTag(s)
<1> DEFINE tag == GetTag(s)
<1>1. /\ WordBytes \in Nat \ {0} /\ TagBytes = WordBytes + WordBytes
      /\ 0 \in Nat /\ TagBytes \in Nat
  BY WordAssumption DEF TagBytes
<1>2. s.x3 \in Words /\ s.x4 \in Words
  BY StateWords
<1>3. \A p \in 1 .. TagBytes : t[p] \in Bytes
  BY ElementOfSeq
<1>4. /\ \A j \in 0 .. WordBytes - 1 : t[0 + j + 1] \in Bytes
      /\ \A j \in 0 .. WordBytes - 1 : t[WordBytes + j + 1] \in Bytes
  <2>1. \A j \in 0 .. WordBytes - 1 : /\ 0 + j + 1 \in 1 .. TagBytes
                                      /\ WordBytes + j + 1 \in 1 .. TagBytes
    BY <1>1
  <2>2. QED
    BY <1>3, <2>1
<1>5. Verify(s, t) <=> /\ s.x3 = LoadBytes(t, 0, WordBytes)
                       /\ s.x4 = LoadBytes(t, WordBytes, WordBytes)
  BY DEF Verify, ^^
<1>6. s.x3 = LoadBytes(t, 0, WordBytes) <=>
        \A j \in 0 .. WordBytes - 1 : t[0 + j + 1] = ByteOf(s.x3, j)
  BY <1>1, <1>2, <1>4, WordCompared
<1>7. s.x4 = LoadBytes(t, WordBytes, WordBytes) <=>
        \A j \in 0 .. WordBytes - 1 : t[WordBytes + j + 1] = ByteOf(s.x4, j)
  BY <1>1, <1>2, <1>4, WordCompared
<1>8. t = tag <=> \A p \in 1 .. TagBytes : t[p] = tag[p]
  <2>1. tag = [p \in 1 .. TagBytes |-> tag[p]]
    BY DEF GetTag
  <2>2. t = [p \in 1 .. TagBytes |-> t[p]]
    BY LenProperties
  <2> HIDE DEF tag
  <2>3. QED
    BY <2>1, <2>2
<1>9. \A p \in 1 .. TagBytes :
        tag[p] = IF p <= WordBytes THEN ByteOf(s.x3, p - 1)
                 ELSE ByteOf(s.x4, p - WordBytes - 1)
  BY DEF GetTag
<1> HIDE DEF tag
<1>10. ASSUME \A p \in 1 .. TagBytes : t[p] = tag[p], NEW j \in 0 .. WordBytes - 1
       PROVE  t[0 + j + 1] = ByteOf(s.x3, j) /\ t[WordBytes + j + 1] = ByteOf(s.x4, j)
  <2> DEFINE p == 0 + j + 1
             q == WordBytes + j + 1
  <2>1. /\ p \in 1 .. TagBytes /\ p <= WordBytes /\ p - 1 = j
        /\ q \in 1 .. TagBytes /\ ~ (q <= WordBytes) /\ q - WordBytes - 1 = j
    BY <1>1
  <2> HIDE DEF p, q
  <2>2. t[p] = ByteOf(s.x3, j) /\ t[q] = ByteOf(s.x4, j)
    BY <1>9, <1>10, <2>1
  <2>3. QED
    BY <2>2 DEF p, q
<1>11. ASSUME \A j \in 0 .. WordBytes - 1 : t[0 + j + 1] = ByteOf(s.x3, j),
              \A j \in 0 .. WordBytes - 1 : t[WordBytes + j + 1] = ByteOf(s.x4, j),
              NEW p \in 1 .. TagBytes
       PROVE  t[p] = tag[p]
  <2>1. CASE p <= WordBytes
    <3>1. p - 1 \in 0 .. WordBytes - 1 /\ 0 + (p - 1) + 1 = p
      BY <1>1, <2>1
    <3>2. t[p] = ByteOf(s.x3, p - 1)
      BY <1>11, <3>1
    <3>3. QED
      BY <1>9, <2>1, <3>2
  <2>2. CASE ~ (p <= WordBytes)
    <3> DEFINE j == p - WordBytes - 1
    <3>1. j \in 0 .. WordBytes - 1 /\ WordBytes + j + 1 = p
      BY <1>1, <2>2
    <3> HIDE DEF j
    <3>2. t[p] = ByteOf(s.x4, j)
      BY <1>11, <3>1
    <3>3. QED
      BY <1>9, <2>2, <3>2 DEF j
  <2>3. QED
    BY <2>1, <2>2
<1>12. QED
  BY <1>5, <1>6, <1>7, <1>8, <1>10, <1>11 DEF tag

LEMMA TagIsBytes ==
  ASSUME NEW s
  PROVE  GetTag(s) \in Seq(Bytes) /\ Len(GetTag(s)) = TagBytes
<1>1. TagBytes \in Nat
  BY WordAssumption DEF TagBytes
<1>2. GetTag(s) \in [1 .. TagBytes -> Bytes]
  BY DEF GetTag, ByteOf, Bytes
<1> DEFINE tag == GetTag(s)
<1> HIDE DEF tag
<1>3. tag \in Seq(Bytes) /\ Len(tag) = TagBytes
  BY <1>1, <1>2 DEF tag
<1>4. QED
  BY <1>3 DEF tag

LEMMA FinalIsState ==
  ASSUME NEW s \in SpongeStates, NEW k
  PROVE  Final(s, LoadKey(k)) \in SpongeStates
<1> DEFINE key == LoadKey(k)
           v2 == s.x2 ^^ key[1]
           v3 == s.x3 ^^ key[2]
           t == P12Rounds([s EXCEPT !.x2 = v2, !.x3 = v3])
           u3 == t.x3 ^^ key[1]
           u4 == t.x4 ^^ key[2]
<1>1. key[1] \in Words /\ key[2] \in Words
  BY KeyWords
<1>2. Final(s, key) = [t EXCEPT !.x3 = u3, !.x4 = u4]
  BY DEF Final
<1> HIDE DEF key
<1>3. v2 \in Words /\ v3 \in Words
  BY <1>1, StateWords, DifferenceIsWord
<1> HIDE DEF v2, v3
<1>4. [s EXCEPT !.x2 = v2, !.x3 = v3] \in SpongeStates
  BY <1>3 DEF SpongeStates
<1>5. t \in SpongeStates
  BY <1>4, PermutationKeepsStates
<1> HIDE DEF t
<1>6. u3 \in Words /\ u4 \in Words
  BY <1>1, <1>5, StateWords, DifferenceIsWord
<1> HIDE DEF u3, u4
<1>7. [t EXCEPT !.x3 = u3, !.x4 = u4] \in SpongeStates
  BY <1>5, <1>6 DEF SpongeStates
<1>8. QED
  BY <1>2, <1>7 DEF key

----------------------------------------------------------------------------
(* The port *)

LEMMA TwoParts ==
  ASSUME NEW c \in Seq(Bytes), NEW t \in Seq(Bytes)
  PROVE  /\ c \o t \in Seq(Bytes) /\ Len(c \o t) = Len(c) + Len(t)
         /\ SubSeq(c \o t, 1, Len(c)) = c
         /\ SubSeq(c \o t, Len(c) + 1, Len(c) + Len(t)) = t
<1> DEFINE b == c \o t
<1>1. Len(c) \in Nat /\ Len(t) \in Nat
  OBVIOUS
<1>2. /\ b \in Seq(Bytes) /\ Len(b) = Len(c) + Len(t)
      /\ \A i \in 1 .. Len(c) + Len(t) :
           b[i] = IF i <= Len(c) THEN c[i] ELSE t[i - Len(c)]
  BY ConcatProperties
<1> HIDE DEF b
<1>3. SubSeq(b, 1, Len(c)) = c
  <2>1. SubSeq(b, 1, Len(c)) = [i \in 1 .. Len(c) |-> b[i]]
    BY <1>1, <1>2
  <2>2. \A i \in 1 .. Len(c) : b[i] = c[i]
    BY <1>1, <1>2
  <2>3. QED
    BY <1>1, <2>1, <2>2
<1>4. SubSeq(b, Len(c) + 1, Len(c) + Len(t)) = t
  <2>1. SubSeq(b, Len(c) + 1, Len(c) + Len(t)) = [i \in 1 .. Len(t) |-> b[Len(c) + i]]
    BY <1>1, <1>2
  <2>2. \A i \in 1 .. Len(t) : b[Len(c) + i] = t[i]
    BY <1>1, <1>2
  <2>3. QED
    BY <1>1, <2>1, <2>2
<1>5. QED
  BY <1>2, <1>3, <1>4 DEF b

LEMMA SplitInTwo ==
  ASSUME NEW b \in Seq(Bytes), NEW n \in 0 .. Len(b)
  PROVE  /\ SubSeq(b, 1, n) \in Seq(Bytes) /\ Len(SubSeq(b, 1, n)) = n
         /\ SubSeq(b, n + 1, Len(b)) \in Seq(Bytes)
         /\ Len(SubSeq(b, n + 1, Len(b))) = Len(b) - n
         /\ b = SubSeq(b, 1, n) \o SubSeq(b, n + 1, Len(b))
<1> DEFINE c == SubSeq(b, 1, n)
           t == SubSeq(b, n + 1, Len(b))
<1>1. n \in Nat /\ Len(b) \in Nat
  OBVIOUS
<1>2. c \in Seq(Bytes) /\ Len(c) = n
  OBVIOUS
<1>3. t \in Seq(Bytes) /\ Len(t) = Len(b) - n
  OBVIOUS
<1>4. b = c \o t
  <2>1. SubSeq(b, 1, Len(b)) = b
    BY SubSeqFull
  <2>2. 1 \in 1 .. Len(b) + 1 /\ n \in 1 - 1 .. Len(b) /\ Len(b) \in n .. Len(b)
    BY <1>1
  <2>3. QED
    BY <2>1, <2>2, ConcatAdjacentSubSeq
<1>5. QED
  BY <1>2, <1>3, <1>4

\* What is sealed: the ciphertext of the text, then the tag of the state it leaves.
LEMMA SealedBytes ==
  ASSUME NEW text \in Seq(Bytes), NEW ad \in Seq(Bytes), NEW nonce, NEW key
  PROVE  /\ AsconEncrypt(key, nonce, text, ad).ciphertext \in Seq(Bytes)
         /\ Len(AsconEncrypt(key, nonce, text, ad).ciphertext) = Len(text) + TagBytes
         /\ AsconEncrypt(key, nonce, text, ad).len = (Len(text) + TagBytes) % LenMod
<1> DEFINE s == Started(ad, nonce, key)
           e == Encrypt(s, text)
           c == e.out
           tag == GetTag(Final(e.state, LoadKey(key)))
<1>1. AsconEncrypt(key, nonce, text, ad) =
        [ciphertext |-> c \o tag, len |-> (Len(text) + TagBytes) % LenMod]
  BY DEF AsconEncrypt, AeadEncrypt
<1>2. s \in SpongeStates
  BY StartsAlike
<1> HIDE DEF s
<1>3. c \in Seq(Bytes) /\ Len(c) = Len(text)
  BY <1>2, TextOfCipher
<1>4. tag \in Seq(Bytes) /\ Len(tag) = TagBytes
  BY TagIsBytes
<1> HIDE DEF c, tag
<1>5. c \o tag \in Seq(Bytes) /\ Len(c \o tag) = Len(text) + TagBytes
  BY <1>3, <1>4, TwoParts
<1>6. QED
  BY <1>1, <1>5

\* What is opened: the text of the ciphertext, when the tag that follows is that of
\* the state it leaves.
LEMMA OpenedForm ==
  ASSUME NEW c \in Seq(Bytes), NEW t \in Seq(Bytes), Len(t) = TagBytes,
         NEW ad \in Seq(Bytes), NEW nonce, NEW key
  PROVE  LET d == Decrypt(Started(ad, nonce, key), c)
         IN /\ AsconDecrypt(key, nonce, c \o t, ad).plaintext = d.out
            /\ AsconDecrypt(key, nonce, c \o t, ad) =
                 [result |-> IF Verify(Final(d.state, LoadKey(key)), t)
                             THEN "OK" ELSE "MAC_VERIFY_FAILED",
                  plaintext |-> d.out]
<1> DEFINE b == c \o t
           clen == Len(b) - TagBytes
<1>1. /\ Len(b) = Len(c) + Len(t) /\ Len(c) \in Nat
      /\ SubSeq(b, 1, Len(c)) = c /\ SubSeq(b, Len(c) + 1, Len(b)) = t
  <2>1. Len(b) = Len(c) + Len(t)
    BY TwoParts
  <2>2. SubSeq(b, 1, Len(c)) = c /\ SubSeq(b, Len(c) + 1, Len(c) + Len(t)) = t
    BY TwoParts
  <2> HIDE DEF b
  <2>3. Len(c) \in Nat
    OBVIOUS
  <2>4. QED
    BY <2>1, <2>2, <2>3
<1>2. TagBytes \in Nat
  BY WordAssumption DEF TagBytes
<1> HIDE DEF b
<1>3. clen = Len(c) /\ ~ (Len(b) < TagBytes)
  BY <1>1, <1>2
<1>4. SubSeq(b, 1, clen) = c /\ SubSeq(b, clen + 1, Len(b)) = t
  BY <1>1, <1>3
<1> HIDE DEF clen
<1>5. AsconDecrypt(key, nonce, b, ad) =
        [result |-> IF AeadDecrypt(t, c, ad, nonce, key).verified
                    THEN "OK" ELSE "MAC_VERIFY_FAILED",
         plaintext |-> AeadDecrypt(t, c, ad, nonce, key).out]
  BY <1>3, <1>4 DEF AsconDecrypt, clen
<1>6. QED
  BY <1>5 DEF AeadDecrypt, b

LEMMA SealedOpens ==
  ASSUME NEW text \in Seq(Bytes), NEW ad \in Seq(Bytes), NEW nonce, NEW key
  PROVE  AsconDecrypt(key, nonce, AsconEncrypt(key, nonce, text, ad).ciphertext, ad) =
           [result |-> "OK", plaintext |-> text]
<1> DEFINE s == Started(ad, nonce, key)
           e == Encrypt(s, text)
           c == e.out
           final == Final(e.state, LoadKey(key))
           tag == GetTag(final)
           d == Decrypt(s, c)
<1>1. /\ AsconEncrypt(key, nonce, text, ad).ciphertext = c \o tag
      /\ s \in SpongeStates
      /\ c \in Seq(Bytes)
      /\ tag \in Seq(Bytes) /\ Len(tag) = TagBytes
  <2>1. AsconEncrypt(key, nonce, text, ad) =
          [ciphertext |-> c \o tag, len |-> (Len(text) + TagBytes) % LenMod]
    BY DEF AsconEncrypt, AeadEncrypt
  <2>2. s \in SpongeStates /\ c \in Seq(Bytes)
    <3>1. s \in SpongeStates
      BY StartsAlike
    <3> HIDE DEF s
    <3>2. QED
      BY <3>1, TextOfCipher
  <2>3. tag \in Seq(Bytes) /\ Len(tag) = TagBytes
    BY TagIsBytes
  <2> HIDE DEF s, c, tag
  <2>4. QED
    BY <2>1, <2>2, <2>3
<1>2. d.out = text /\ d.state = e.state /\ e.state \in SpongeStates
  <2>1. d.out = text /\ d.state = e.state
    BY <1>1, TextOfCipher
  <2>2. e.state \in SpongeStates
    <3>1. LastBlock(text) \in Nat
      BY BlocksOfData
    <3>2. e.state = Absorb(Absorbing(s, text)[LastBlock(text)], text, LastBlock(text))
      BY DEF Encrypt
    <3>3. Absorbing(s, text)[LastBlock(text)] \in SpongeStates
      BY <1>1, <3>1, StatesAbsorbing
    <3>4. QED
      BY <3>1, <3>2, <3>3, BlocksKeepStates
  <2>3. QED
    BY <2>1, <2>2
<1>3. final \in SpongeStates
  BY <1>2, FinalIsState
<1>4. Verify(final, tag)
  BY <1>1, <1>3, TagVerifies
<1>5. AsconDecrypt(key, nonce, c \o tag, ad) =
        [result |-> IF Verify(Final(d.state, LoadKey(key)), tag)
                    THEN "OK" ELSE "MAC_VERIFY_FAILED",
         plaintext |-> d.out]
  BY <1>1, OpenedForm
<1>6. QED
  BY <1>1, <1>2, <1>4, <1>5

LEMMA OpenedWasSealed ==
  ASSUME NEW b \in Seq(Bytes), NEW ad \in Seq(Bytes), NEW nonce, NEW key
  PROVE  LET answer == AsconDecrypt(key, nonce, b, ad)
         IN /\ answer.plaintext \in Seq(Bytes)
            /\ answer.result = "OK" <=>
                 b = AsconEncrypt(key, nonce, answer.plaintext, ad).ciphertext
<1> DEFINE answer == AsconDecrypt(key, nonce, b, ad)
<1>1. TagBytes \in Nat /\ Len(b) \in Nat
  BY WordAssumption DEF TagBytes
<1>2. CASE Len(b) < TagBytes
  <2>1. answer = [result |-> "FRAME_ERROR", plaintext |-> <<>>]
    BY <1>2 DEF AsconDecrypt
  <2>2. <<>> \in Seq(Bytes) /\ Len(<<>>) = 0
    BY EmptySeq
  <2> DEFINE sealed == AsconEncrypt(key, nonce, <<>>, ad).ciphertext
  <2>3. Len(sealed) = 0 + TagBytes
    <3>1. \A text \in Seq(Bytes) :
            Len(AsconEncrypt(key, nonce, text, ad).ciphertext) = Len(text) + TagBytes
      BY SealedBytes
    <3>2. QED
      BY <2>2, <3>1
  <2> HIDE DEF sealed
  <2>4. b # sealed
    BY <1>1, <1>2, <2>3
  <2>5. QED
    BY <2>1, <2>2, <2>4 DEF sealed
<1>3. CASE ~ (Len(b) < TagBytes)
  <2> DEFINE clen == Len(b) - TagBytes
             c == SubSeq(b, 1, clen)
             t == SubSeq(b, clen + 1, Len(b))
             s == Started(ad, nonce, key)
             d == Decrypt(s, c)
             text == d.out
             final == Final(d.state, LoadKey(key))
  <2>1. clen \in 0 .. Len(b) /\ Len(b) - clen = TagBytes
    BY <1>1, <1>3
  <2> HIDE DEF clen
  <2>2. c \in Seq(Bytes) /\ t \in Seq(Bytes) /\ Len(t) = TagBytes /\ b = c \o t
    BY <2>1, SplitInTwo
  <2> HIDE DEF c, t
  <2>3. s \in SpongeStates
    BY StartsAlike
  <2>4. answer = [result |-> IF Verify(final, t) THEN "OK" ELSE "MAC_VERIFY_FAILED",
                  plaintext |-> text]
    BY <2>2, OpenedForm
  <2>5. /\ text \in Seq(Bytes) /\ Encrypt(s, text).out = c
        /\ Encrypt(s, text).state = d.state
    <3> HIDE DEF s
    <3>1. QED
      BY <2>2, <2>3, CipherOfText
  <2>6. d.state \in SpongeStates
    <3>1. LastBlock(c) \in Nat
      BY <2>2, BlocksOfData
    <3> HIDE DEF s
    <3>2. d.state = Insert(Inserting(s, c)[LastBlock(c)], c, LastBlock(c))
      BY DEF Decrypt
    <3>3. Inserting(s, c)[LastBlock(c)] \in SpongeStates
      BY <2>3, <3>1, StatesInserting
    <3>4. QED
      BY <3>1, <3>2, <3>3, BlocksKeepStates
  <2>7. final \in SpongeStates
    BY <2>6, FinalIsState
  <2> DEFINE tag == GetTag(final)
  <2>8. Verify(final, t) <=> t = tag
    BY <2>2, <2>7, TagVerifies
  <2>9. tag \in Seq(Bytes) /\ Len(tag) = TagBytes
    BY TagIsBytes
  <2>10. AsconEncrypt(key, nonce, text, ad).ciphertext = c \o tag
    <3> DEFINE e == Encrypt(s, text)
    <3> HIDE DEF text
    <3>1. AsconEncrypt(key, nonce, text, ad) =
            [ciphertext |-> e.out \o GetTag(Final(e.state, LoadKey(key))),
             len |-> (Len(text) + TagBytes) % LenMod]
      BY DEF AsconEncrypt, AeadEncrypt
    <3>2. e.out = c /\ e.state = d.state
      BY <2>5
    <3> HIDE DEF e, s
    <3>3. QED
      BY <3>1, <3>2 DEF text
  <2> HIDE DEF tag, text, final
  <2>11. c \o t = c \o tag <=> t = tag
    <3>1. /\ SubSeq(c \o t, Len(c) + 1, Len(c) + Len(t)) = t
          /\ SubSeq(c \o tag, Len(c) + 1, Len(c) + Len(tag)) = tag
      BY <2>2, <2>9, TwoParts
    <3>2. QED
      BY <2>2, <2>9, <3>1
  <2>12. answer.plaintext = text /\ (answer.result = "OK" <=> Verify(final, t))
    BY <2>4
  <2>13. b = AsconEncrypt(key, nonce, text, ad).ciphertext <=> Verify(final, t)
    BY <2>2, <2>8, <2>10, <2>11
  <2>14. text \in Seq(Bytes)
    BY <2>5
  <2> HIDE DEF answer
  <2>15. /\ answer.plaintext \in Seq(Bytes)
         /\ answer.result = "OK" <=>
              b = AsconEncrypt(key, nonce, answer.plaintext, ad).ciphertext
    BY <2>12, <2>13, <2>14
  <2>16. QED
    BY <2>15 DEF answer
<1>4. QED
  BY <1>2, <1>3

----------------------------------------------------------------------------
(* The theorems *)

\* A packet in the buffer that is intact is what was sealed, and an answer is that of
\* the port to what is in the buffer.
PortInv ==
  /\ packet.bytes \in Seq(Bytes) /\ packet.text \in Seq(Bytes) /\ packet.ad \in Seq(Bytes)
  /\ packet = [key |-> packet.key, nonce |-> packet.nonce, ad |-> packet.ad,
               text |-> packet.text, bytes |-> packet.bytes]
  /\ intact =>
       LET sealed == AsconEncrypt(packet.key, packet.nonce, packet.text, packet.ad)
       IN packet.bytes = SubSeq(sealed.ciphertext, 1, sealed.len)
  /\ opened # NoAnswer =>
       /\ packet # NoPacket
       /\ opened.ad \in Seq(Bytes)
       /\ opened.result =
            AsconDecrypt(opened.key, opened.nonce, packet.bytes, opened.ad).result
       /\ opened.plaintext =
            AsconDecrypt(opened.key, opened.nonce, packet.bytes, opened.ad).plaintext

LEMMA PortStarts == PortInit => PortInv
<1> SUFFICES ASSUME PortInit PROVE PortInv
  OBVIOUS
<1>1. <<>> \in Seq(Bytes)
  BY EmptySeq
<1>2. QED
  BY <1>1 DEF PortInit, PortInv, NoPacket

LEMMA ChunkAdIsBytes ==
  ASSUME NEW i, NEW total
  PROVE  ChunkAd(i, total) \in Seq(Bytes)
<1>1. \A n : LowByte(n) \in Bytes
  BY DEF LowByte, Bytes
<1>2. QED
  BY <1>1 DEF ChunkAd

LEMMA SealKeeps ==
  ASSUME NEW key, NEW nonce, NEW text \in Seq(Bytes), NEW ad \in Seq(Bytes),
         PortInv, Seal(key, nonce, text, ad)
  PROVE  PortInv'
<1> DEFINE sealed == AsconEncrypt(key, nonce, text, ad)
           bytes == SubSeq(sealed.ciphertext, 1, sealed.len)
<1>1. packet' = [key |-> key, nonce |-> nonce, ad |-> ad, text |-> text, bytes |-> bytes]
  BY DEF Seal
<1>2. bytes \in Seq(Bytes)
  <2> DEFINE whole == sealed.ciphertext
             n == sealed.len
             size == Len(text) + TagBytes
  <2>1. whole \in Seq(Bytes) /\ Len(whole) = size /\ n = size % LenMod
    BY SealedBytes
  <2>2. size \in Nat
    BY WordAssumption DEF TagBytes
  <2> HIDE DEF size, whole, n
  <2>3. n \in Nat /\ n <= size
    BY <2>1, <2>2, PortAssumption
  <2>4. SubSeq(whole, 1, n) \in Seq(Bytes)
    BY <2>1, <2>2, <2>3
  <2>5. QED
    BY <2>4 DEF whole, n
<1> HIDE DEF bytes, sealed
<1>3. opened' = NoAnswer
  BY DEF Seal, PortInv
<1>4. QED
  BY <1>1, <1>2, <1>3 DEF PortInv, bytes, sealed

LEMMA AlterKeeps ==
  ASSUME PortInv, Alter
  PROVE  PortInv'
<1>1. /\ packet.bytes \in Seq(Bytes) /\ packet.text \in Seq(Bytes)
      /\ packet.ad \in Seq(Bytes)
      /\ packet = [key |-> packet.key, nonce |-> packet.nonce, ad |-> packet.ad,
                   text |-> packet.text, bytes |-> packet.bytes]
  BY DEF PortInv
<1>2. PICK b \in Seq(Bytes) : packet' = [packet EXCEPT !.bytes = b]
  <2> DEFINE old == packet.bytes
  <2>1. CASE \E p \in 1 .. Len(old) :
               \E byte \in Bytes \ {old[p]} : packet' = [packet EXCEPT !.bytes[p] = byte]
    <3>1. PICK p \in 1 .. Len(old), byte \in Bytes : packet' = [packet EXCEPT !.bytes[p] = byte]
      BY <2>1
    <3> DEFINE b == [old EXCEPT ![p] = byte]
    <3>2. packet' = [packet EXCEPT !.bytes = b]
      BY <3>1
    <3>3. b \in Seq(Bytes)
      BY <1>1, ExceptSeq
    <3> HIDE DEF b
    <3>4. QED
      BY <3>2, <3>3
  <2>2. CASE \E n \in 0 .. Len(old) - 1 : packet' = [packet EXCEPT !.bytes = SubSeq(old, 1, n)]
    <3>1. PICK n \in 0 .. Len(old) - 1 : packet' = [packet EXCEPT !.bytes = SubSeq(old, 1, n)]
      BY <2>2
    <3> DEFINE b == SubSeq(old, 1, n)
    <3>2. b \in Seq(Bytes)
      <4> HIDE DEF old
      <4>1. old \in Seq(Bytes) /\ n \in 0 .. Len(old)
        BY <1>1 DEF old
      <4>2. QED
        BY <4>1, SplitInTwo
    <3>3. packet' = [packet EXCEPT !.bytes = b]
      BY <3>1
    <3> HIDE DEF b
    <3>4. QED
      BY <3>2, <3>3
  <2>3. QED
    BY <2>1, <2>2 DEF Alter
<1>3. opened' = NoAnswer /\ intact' = FALSE
  BY DEF Alter
<1>4. packet' = [key |-> packet.key, nonce |-> packet.nonce, ad |-> packet.ad,
                 text |-> packet.text, bytes |-> b]
  BY <1>1, <1>2
<1>5. QED
  BY <1>1, <1>2, <1>3, <1>4 DEF PortInv

LEMMA AnswerKeeps ==
  ASSUME NEW key, NEW nonce, NEW ad \in Seq(Bytes), PortInv,
         Answer(key, nonce, ad, AsconDecrypt(key, nonce, packet.bytes, ad))
  PROVE  PortInv'
<1> DEFINE answer == AsconDecrypt(key, nonce, packet.bytes, ad)
<1>1. /\ packet' = packet /\ intact' = intact /\ packet # NoPacket
      /\ opened' = [key |-> key, nonce |-> nonce, ad |-> ad,
                    result |-> answer.result, plaintext |-> answer.plaintext]
  BY DEF Answer
<1>2. /\ opened'.key = key /\ opened'.nonce = nonce /\ opened'.ad = ad
      /\ opened'.result = answer.result /\ opened'.plaintext = answer.plaintext
  BY <1>1
<1>3. AsconDecrypt(opened'.key, opened'.nonce, packet'.bytes, opened'.ad) = answer
  BY <1>1, <1>2
<1> HIDE DEF answer
<1>4. QED
  BY <1>1, <1>2, <1>3 DEF PortInv

LEMMA PortStep == PortInv /\ [PortNext]_portVars => PortInv'
<1> SUFFICES ASSUME PortInv, [PortNext]_portVars PROVE PortInv'
  OBVIOUS
<1>1. CASE SealAny
  BY <1>1, SealKeeps, ChunkAdIsBytes, PortAssumption DEF SealAny
<1>2. CASE Alter
  BY <1>2, AlterKeeps
<1>3. CASE Open
  BY <1>3, AnswerKeeps, PortAssumption DEF Open
<1>4. CASE OpenChunk
  BY <1>4, AnswerKeeps, ChunkAdIsBytes DEF OpenChunk, AsconDecryptChunk
<1>5. CASE Discard
  <2>1. <<>> \in Seq(Bytes)
    BY EmptySeq
  <2>2. QED
    BY <1>5, <2>1 DEF Discard, PortInv, NoPacket
<1>6. CASE UNCHANGED portVars
  BY <1>6 DEF portVars, PortInv
<1>7. QED
  BY <1>1, <1>2, <1>3, <1>4, <1>5, <1>6 DEF PortNext

LEMMA PortInvariant == PortSpec => []PortInv
<1>1. QED
  BY PortStarts, PortStep, PTL DEF PortSpec

\* What crypto_ascon_encrypt seals, crypto_ascon_decrypt opens under the same key,
\* nonce and associated data and gives the same text back: for texts and associated
\* data of any length, as long as text and tag fit in the uint16_t of a length.
THEOREM SealedIsOpened == PortSpec => []OpensAsSealed
<1>1. PortInv => OpensAsSealed
  <2> SUFFICES ASSUME PortInv, opened # NoAnswer, intact, AskedAsSealed,
                      Len(packet.text) + TagBytes < LenMod
               PROVE  opened.result = "OK" /\ opened.plaintext = packet.text
    BY DEF OpensAsSealed
  <2> DEFINE sealed == AsconEncrypt(packet.key, packet.nonce, packet.text, packet.ad)
             whole == sealed.ciphertext
             size == Len(packet.text) + TagBytes
  <2>1. packet.text \in Seq(Bytes) /\ packet.ad \in Seq(Bytes)
    BY DEF PortInv
  <2>2. whole \in Seq(Bytes) /\ Len(whole) = size /\ sealed.len = size % LenMod
    BY <2>1, SealedBytes
  <2>3. size \in Nat /\ size < LenMod
    <3>1. Len(packet.text) \in Nat
      BY <2>1
    <3>2. TagBytes \in Nat
      BY WordAssumption DEF TagBytes
    <3>3. QED
      BY <3>1, <3>2
  <2> HIDE DEF size
  <2>4. sealed.len = size
    BY <2>2, <2>3, PortAssumption
  <2>5. packet.bytes = SubSeq(whole, 1, sealed.len)
    BY DEF PortInv
  <2>6. SubSeq(whole, 1, Len(whole)) = whole
    BY <2>2, SubSeqFull
  <2>7. packet.bytes = whole
    BY <2>2, <2>4, <2>5, <2>6
  <2>8. AsconDecrypt(packet.key, packet.nonce, whole, packet.ad) =
          [result |-> "OK", plaintext |-> packet.text]
    BY <2>1, SealedOpens
  <2> HIDE DEF whole
  <2>9. /\ opened.result = AsconDecrypt(packet.key, packet.nonce, whole, packet.ad).result
        /\ opened.plaintext =
             AsconDecrypt(packet.key, packet.nonce, whole, packet.ad).plaintext
    BY <2>7 DEF PortInv, AskedAsSealed
  <2>10. QED
    BY <2>8, <2>9
<1>2. QED
  BY <1>1, PortInvariant, PTL

\* crypto_ascon_decrypt accepts a buffer exactly when it is, byte for byte, what
\* crypto_ascon_encrypt makes of the plaintext that was written: whatever arrives, of
\* whatever length.
THEOREM OpenedIsSealed == PortSpec => []OpensOnlySealed
<1>1. PortInv => OpensOnlySealed
  <2> SUFFICES ASSUME PortInv, opened # NoAnswer
               PROVE  opened.result = "OK" <=>
                        packet.bytes = AsconEncrypt(opened.key, opened.nonce,
                                                    opened.plaintext, opened.ad).ciphertext
    BY DEF OpensOnlySealed
  <2> DEFINE answer == AsconDecrypt(opened.key, opened.nonce, packet.bytes, opened.ad)
  <2>1. packet.bytes \in Seq(Bytes) /\ opened.ad \in Seq(Bytes)
    BY DEF PortInv
  <2>2. opened.result = answer.result /\ opened.plaintext = answer.plaintext
    BY DEF PortInv
  <2>3. answer.result = "OK" <=>
          packet.bytes =
            AsconEncrypt(opened.key, opened.nonce, answer.plaintext, opened.ad).ciphertext
    BY <2>1, OpenedWasSealed
  <2> HIDE DEF answer
  <2>4. QED
    BY <2>2, <2>3
<1>2. QED
  BY <1>1, PortInvariant, PTL

\* What is sealed is what the padded mode computes: the special cases of aead.c for
\* the last block and its loops change nothing, for any lengths and any word width.
THEOREM SealsAsTheMode == PortSpec => []FollowsTheMode
<1>1. PortInv => FollowsTheMode
  <2> SUFFICES ASSUME PortInv, intact
               PROVE  LET e == ModeEncrypt(packet.text, packet.ad, packet.nonce, packet.key)
                      IN packet.bytes =
                           SubSeq(e.out \o e.tag, 1, (Len(packet.text) + TagBytes) % LenMod)
    BY DEF FollowsTheMode
  <2>1. packet.text \in Seq(Bytes) /\ packet.ad \in Seq(Bytes)
    BY DEF PortInv
  <2>2. AeadEncrypt(packet.text, packet.ad, packet.nonce, packet.key) =
          ModeEncrypt(packet.text, packet.ad, packet.nonce, packet.key)
    BY <2>1, ComputesTheMode
  <2> DEFINE e == ModeEncrypt(packet.text, packet.ad, packet.nonce, packet.key)
             sealed == AsconEncrypt(packet.key, packet.nonce, packet.text, packet.ad)
  <2>3. /\ sealed.ciphertext = e.out \o e.tag
        /\ sealed.len = (Len(packet.text) + TagBytes) % LenMod
    BY <2>2 DEF AsconEncrypt
  <2>4. packet.bytes = SubSeq(sealed.ciphertext, 1, sealed.len)
    BY DEF PortInv
  <2> HIDE DEF sealed
  <2>5. QED
    BY <2>3, <2>4
<1>2. QED
  BY <1>1, PortInvariant, PTL
=============================================================================
