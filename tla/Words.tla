------------------------------- MODULE Words -------------------------------
(***************************************************************************)
(* The machine word of Nachos' simulated MIPS processor.  A word is four   *)
(* bytes, as in the source, but a byte has ByteBits bits (8 in the         *)
(* source), so that every width of the code keeps its ratio to the others: *)
(* an immediate is a half word, a shift amount has log2(WordBits) bits.    *)
(* A word is kept as the natural number its bits spell.                    *)
(***************************************************************************)
EXTENDS Integers

CONSTANT ByteBits
ASSUME ByteBitsAssumption == ByteBits \in Nat /\ ByteBits >= 2

HalfBits == 2 * ByteBits
WordBits == 4 * ByteBits

\* the powers of two that a word's bits stand for, and the number of words
TwoTo[n \in 0 .. WordBits] == IF n = 0 THEN 1 ELSE 2 * TwoTo[n - 1]

Byte == 0 .. TwoTo[ByteBits] - 1
Word == 0 .. TwoTo[WordBits] - 1

Wrap(n) == n % TwoTo[WordBits]
Low(w, bits) == w % TwoTo[bits]
Negative(w) == w >= TwoTo[WordBits - 1]
Signed(w) == IF Negative(w) THEN w - TwoTo[WordBits] ELSE w
SignExtend(w, bits) == IF Low(w, bits) >= TwoTo[bits - 1] THEN Wrap(Low(w, bits) - TwoTo[bits]) ELSE Low(w, bits)
Complement(w) == TwoTo[WordBits] - 1 - w

ShiftLeft(w, n) == Wrap(w * TwoTo[n])
ShiftRight(w, n) == w \div TwoTo[n]
ShiftRightSigned(w, n) == Wrap(Signed(w) \div TwoTo[n])

Bit(b) == IF b THEN 1 ELSE 0

\* a word as the set of its bits, and back
Bits(w) == {n \in 0 .. WordBits - 1 : (w \div TwoTo[n]) % 2 = 1}
Spelled(bits) ==
  LET low[n \in 0 .. WordBits] == IF n = 0 THEN 0 ELSE low[n - 1] + Bit(n - 1 \in bits) * TwoTo[n - 1]
  IN low[WordBits]

BitAnd(x, y) == Spelled(Bits(x) \cap Bits(y))
BitOr(x, y) == Spelled(Bits(x) \cup Bits(y))
BitXor(x, y) == Spelled((Bits(x) \ Bits(y)) \cup (Bits(y) \ Bits(x)))

\* C's division of integers truncates towards zero
Magnitude(n) == IF n < 0 THEN -n ELSE n
Quotient(x, y) == (IF (x < 0) = (y < 0) THEN 1 ELSE -1) * (Magnitude(x) \div Magnitude(y))
Remainder(x, y) == x - y * Quotient(x, y)
=============================================================================
