---------------------------- MODULE WordFunctions ----------------------------
(***************************************************************************)
(* The functions on machine words of linux-2022/quiz2, quiz3 and quiz4 and *)
(* linux-2023-summer/quiz1/problem2.c.  A word has W bits; a signed number *)
(* is given by the word that represents it.                                *)
(***************************************************************************)
EXTENDS Integers, Sequences, SequencesExt, Bitwise

CONSTANT W

ParametersOK == W \in 6 .. 14

Words == 0 .. 2^W - 1
Wrap(x) == x % 2^W
Bit(x, i) == (x \div 2^i) % 2
Signed(x) == IF x < 2^(W - 1) THEN x ELSE x - 2^W
Magnitude(x) == IF x < 0 THEN -x ELSE x
If(condition) == IF condition THEN 1 ELSE 0

\* Division of the language C, which rounds towards zero.
Quotient(x, d) ==
  LET q == Magnitude(x) \div Magnitude(d) IN IF (x < 0) = (d < 0) THEN q ELSE -q

-----------------------------------------------------------------------------
(* quiz2 *)

average(a, b) == Wrap(a + b) \div 2
average1(low, high) == Wrap(low + Wrap(high - low) \div 2)
average2(a, b) == Wrap((a \div 2) + (b \div 2) + (a & b & 1))
average3(a, b) == Wrap((a & b) + ((a ^^ b) \div 2))

max_uint32(a, b) == a ^^ ((a ^^ b) & Wrap(-If(a < b)))
max_int32(a, b) == a ^^ ((a ^^ b) & Wrap(-If(Signed(a) < Signed(b))))

OddPart[x \in Nat] == IF x % 2 = 1 THEN x ELSE OddPart[x \div 2]

\* The loop of gcd64; u is odd.
GcdLoop[u \in Nat, v \in Nat] ==
  LET w == OddPart[v]
  IN  IF v = 0 THEN u ELSE IF u < w THEN GcdLoop[u, w - u] ELSE GcdLoop[w, u - w]

gcd64(u, v) ==
  LET shift == CHOOSE s \in 0 .. W : Bit(u | v, s) = 1 /\ \A i \in 0 .. s - 1 : Bit(u | v, i) = 0
  IN  IF u = 0 \/ v = 0 THEN u | v
      ELSE Wrap(GcdLoop[OddPart[u \div 2^shift], v \div 2^shift] * 2^shift)

\* gcd64_ctz counts zeros with __builtin_ctz, which sees the lower half of a word and is undefined
\* if that is zero.
HalfWord == 2^(W \div 2)
Undefined == -1

CtzLoop[u \in Nat, v \in Nat] ==
  LET w == OddPart[v]
  IN  CASE v = 0 -> u
        [] v # 0 /\ v % HalfWord = 0 -> Undefined
        [] OTHER -> IF u < w THEN CtzLoop[u, w - u] ELSE CtzLoop[w, u - w]

gcd64_ctz(u, v) ==
  LET both == u | v
      shift == CHOOSE s \in 0 .. W : both % 2^(s + 1) = 2^s
      Shifted(x) == x \div 2^shift
      odd == CtzLoop[OddPart[Shifted(u)], Shifted(v)]
  IN  CASE u = 0 \/ v = 0 -> both
        [] u # 0 /\ v # 0 /\ (both % HalfWord = 0 \/ Shifted(u) % HalfWord = 0) -> Undefined
        [] OTHER -> IF odd = Undefined THEN Undefined ELSE Wrap(odd * 2^shift)

CountTrailingZeros(x) == CHOOSE r \in 0 .. W - 1 : x % 2^(r + 1) = 2^r

\* The positions of the bits of one word, from the lowest up.
PositionsFrom[bitset \in Nat, k \in Nat] ==
  IF bitset = 0 THEN <<>>
  ELSE <<k * W + CountTrailingZeros(bitset)>> \o PositionsFrom[bitset ^^ (bitset & Wrap(-bitset)), k]

improved(bitmap) == FlattenSeq([k \in DOMAIN bitmap |-> PositionsFrom[bitmap[k], k - 1]])

\* The product has twice the width of n.
is_divisible(n, M) == (n * M) % 2^(2 * W) <= M - 1
Reciprocal(d) == (2^(2 * W) - 1) \div d + 1

\* Where in "FizzBuzz%u" the text for n begins, and how long it is.
bitwise(n) ==
  LET div3 == If(is_divisible(n, Reciprocal(3)))
      div5 == If(is_divisible(n, Reciprocal(5)))
  IN  <<(8 \div 2^div5) \div 2^(4 * div3), 2 * 2^div3 * 2^div5>>

-----------------------------------------------------------------------------
(* quiz3, quiz4 *)

\* Of a byte: 204 is 0xCC, 51 is 0x33, 170 is 0xAA, 85 is 0x55.
rev8(x) ==
  LET halves == (x \div 16) | ((x * 16) % 256)
      pairs == ((halves & 204) \div 4) | (((halves & 51) * 4) % 256)
  IN  ((pairs & 170) \div 2) | (((pairs & 85) * 2) % 256)

\* Both loops; dvs is positive.
Subtract[dvd \in Nat, dvs \in Nat, shift \in Nat, res \in Nat] ==
  IF dvd < dvs THEN res
  ELSE IF dvd < Wrap(dvs * 2^shift) THEN Subtract[dvd, dvs, shift - 1, res]
  ELSE Subtract[dvd - Wrap(dvs * 2^shift), dvs, shift, res | 2^shift]

ShiftFor[dvd \in Nat, dvs \in Nat, shift \in Nat] ==
  IF dvd > Wrap(dvs * 2^shift) THEN ShiftFor[dvd, dvs, shift + 1] ELSE shift

INT_MAX == 2^(W - 1) - 1

divide(dividend, divisor) ==
  LET dvd == Magnitude(Signed(dividend))
      dvs == Magnitude(Signed(divisor))
      positive == (Signed(dividend) < 0) = (Signed(divisor) < 0)
      res == Subtract[dvd, dvs, ShiftFor[dvd, dvs, 0], 0]
  IN  IF positive /\ res >= INT_MAX THEN INT_MAX ELSE Wrap(IF positive THEN res ELSE -res)

\* One step of the binary search for the highest bit: by k bits, if there are that many.
Halve(s, k) ==
  LET m == IF s.v > 2^k - 1 THEN k ELSE 0 IN [v |-> s.v \div 2^m, ret |-> s.ret | m]

HighestBit(v, ret) == FoldLeft(Halve, [v |-> v, ret |-> ret], <<16, 8, 4, 2>>)

\* The number 1 does not count.
ilog32Mutant(v) == LET s == HighestBit(v, 0) IN s.ret + If(s.v > 1)

ilog32(v) == LET s == HighestBit(v, If(v > 0)) IN s.ret + If(s.v > 1)

ceil_log2(x) == LET s == HighestBit(x - 1, 0) IN (s.ret | (s.v \div 2)) + 1

RoundUp(x, mask) == Wrap(x + mask) & (2^W - 1 - mask)
RoundDown(x, mask) == x & (2^W - 1 - mask)
MAX_ALIGNMENT == 16

\* On numbers that are small enough for the sum.
DivideRoundClosest(x, d) ==
  IF (x > 0) = (d > 0) THEN Quotient(x + d \div 2, d) ELSE Quotient(x - d \div 2, d)

align_up(sz, alignment) ==
  LET mask == alignment - 1
  IN  IF alignment & mask = 0 THEN RoundUp(sz, mask) ELSE Wrap((Wrap(sz + mask) \div alignment) * alignment)

-----------------------------------------------------------------------------
(* What the functions are for *)

\* quiz2 problem1 and problem2: the mean, rounded down, and the maximum.  average1 takes the lower
\* number first.
Mean(a, b) == (a + b) \div 2
AverageRight(a, b) == average(a, b) = Mean(a, b)
MeansRight(a, b) ==
  /\ a + b \in Words => AverageRight(a, b)
  /\ a <= b => average1(a, b) = Mean(a, b)
  /\ average2(a, b) = Mean(a, b) /\ average3(a, b) = Mean(a, b)

MaximaRight(a, b) ==
  /\ {a, b} = {max_uint32(a, b)} \cup {c \in {a, b} : c < max_uint32(a, b)}
  /\ LET m == Signed(max_int32(a, b)) IN m \in {Signed(a), Signed(b)} /\ m >= Signed(a) /\ m >= Signed(b)

\* quiz2 problem3: a common divisor that all common divisors divide.
IsGcd(g, a, b) ==
  LET Divides(d, x) == \E q \in Words : d * q = x
  IN  g \in Words /\ \A d \in Words \ {0} : Divides(d, a) /\ Divides(d, b) <=> Divides(d, g)
CtzRight(a, b) == IsGcd(gcd64_ctz(a, b), a, b)
GcdRight(a, b) == IsGcd(gcd64(a, b), a, b) /\ (a < HalfWord /\ b < HalfWord => CtzRight(a, b))

\* quiz2 problem4: the positions of all bits, in ascending order.
PositionsRight(a, b) ==
  LET out == improved(<<a, b>>)
  IN  /\ ToSet(out) = {i \in 0 .. W - 1 : Bit(a, i) = 1} \cup {W + i : i \in {j \in 0 .. W - 1 : Bit(b, j) = 1}}
      /\ \A i \in 1 .. Len(out) - 1 : out[i] < out[i + 1]

\* quiz2 problem7: Fizz, Buzz, FizzBuzz or the number.
FizzBuzzRight(n) ==
  bitwise(n) = CASE n % 15 = 0 -> <<0, 8>> [] n % 15 \in {3, 6, 9, 12} -> <<0, 4>>
                 [] n % 15 \in {5, 10} -> <<4, 4>> [] OTHER -> <<8, 2>>

\* quiz3 problem3: the bits in reverse.
ReverseRight(x) == \A i \in 0 .. 7 : Bit(rev8(x), i) = Bit(x, 7 - i)

\* quiz3 problem5: the quotient, rounded towards zero, or INT_MAX if it is greater.
DivisionRight(a, b) ==
  LET q == Quotient(Signed(a), Signed(b))
  IN  b # 0 => Signed(divide(a, b)) = IF q > INT_MAX THEN INT_MAX ELSE q

\* quiz3 problem7: as many bits as v needs.  quiz4 problem1: the logarithm of a positive number,
\* rounded up.
CeilingRight(v) == ceil_log2(v) \in {k \in 0 .. 30 : v <= 2^k /\ \A j \in 0 .. k - 1 : 2^j < v}
LogarithmsRight(v) ==
  /\ v < 2^ilog32(v) /\ (v > 0 => 2^(ilog32(v) - 1) <= v)
  /\ v > 1 => CeilingRight(v)

\* quiz3 problem9 and 2023 quiz1 problem2: the next multiple of the alignment, if there is one.
NextMultiple(x, d) == ((x + d - 1) \div d) * d
RoundedToPointer(a, pointer) ==
  a + pointer - 1 \in Words => RoundUp(a, MAX_ALIGNMENT - 1) = NextMultiple(a, pointer)
AlignmentRight(a, b) ==
  /\ a + MAX_ALIGNMENT - 1 \in Words => RoundUp(a, MAX_ALIGNMENT - 1) = NextMultiple(a, MAX_ALIGNMENT)
  /\ RoundDown(a, MAX_ALIGNMENT - 1) = (a \div MAX_ALIGNMENT) * MAX_ALIGNMENT
  /\ b # 0 /\ a + b - 1 \in Words => align_up(a, b) = NextMultiple(a, b)

\* quiz3 problem10: the closest integer to the quotient.
ClosestRight(x, d) == 2 * Magnitude(x - d * DivideRoundClosest(x, d)) <= Magnitude(d)

\* All functions, within limits that the code has and its comments do not mention: for average the sum
\* must fit, for gcd64_ctz both numbers have half the width, ceil_log2 is for numbers
\* above 1 and DIVIDE_ROUND_CLOSEST for positive divisors.
ResultsRight(a, b) ==
  /\ MeansRight(a, b) /\ MaximaRight(a, b) /\ GcdRight(a, b) /\ PositionsRight(a, b)
  /\ FizzBuzzRight(a) /\ ReverseRight((a + b * 2^W) % 256) /\ DivisionRight(a, b)
  /\ LogarithmsRight(a * 2^(b % 24)) /\ AlignmentRight(a, b) /\ (Signed(b) > 0 => ClosestRight(Signed(a), Signed(b)))
=============================================================================
