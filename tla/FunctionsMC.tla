---------------------------- MODULE FunctionsMC ----------------------------
(***************************************************************************)
(* The functions on words, sequences, palindromes and lists: a behaviour   *)
(* is one application to one input.                                        *)
(***************************************************************************)
EXTENDS Integers

CONSTANTS W, N_DIGITS, QuadBits, None

VARIABLES function, input
vars == <<function, input>>

Words == INSTANCE WordFunctions
Exercise == INSTANCE ListExercises
List == INSTANCE CircularList

ParametersOK == Words!ParametersOK /\ Exercise!ParametersOK

Init == function = None /\ input = None

Apply(name, inputs) ==
  /\ function = None
  /\ function' = name /\ input' \in inputs

Digits == 0 .. 9
Palindromes ==
  {<<x, y, x>> : x \in Digits \ {0}, y \in Digits} \cup {<<x, x>> : x \in Digits \ {0}}

OnWords == Apply("words", [a : Words!Words, b : Words!Words])
OnSequences ==
  Apply("sequences", [nums : UNION {[1 .. k -> 0 .. 3] : k \in 0 .. 4}, target : 0 .. 6])
OnLists == Apply("lists", [first : 0 .. 4, second : 0 .. 3])
OnPalindromes == Apply("palindromes", [digits : Palindromes])

Next == OnWords \/ OnSequences \/ OnLists \/ OnPalindromes

Spec == Init /\ [][Next]_vars

\* The functions compute what they are for, for all inputs of the size the configuration
\* gives but those for which the comments below are wrong.
ResultsRight ==
  /\ function = "words" => Words!ResultsRight(input.a, input.b)
  /\ function = "sequences" => Exercise!ResultsRight(input.nums, input.target)
  /\ function = "lists" => List!RingsRight(input.first, input.second)
  /\ function = "palindromes" => Exercise!PalindromesRight(input.digits)

-----------------------------------------------------------------------------
(* What comments of the code say of all inputs, and the code does not do. *)

\* quiz2/problem1.c:3: average is an implementation of the mean.
AverageIsMean == \A a, b \in Words!Words : Words!AverageRight(a, b)

\* quiz2/problem3.c:41: gcd64_ctz finds the greatest common divisor, too.
CtzFindsGcd == \A a, b \in Words!Words : Words!CtzRight(a, b)

\* quiz4/problem1.c:3: ceil_log2 is the logarithm of a number greater than 0, rounded up.
CeilingOfLogarithm == \A v \in Words!Words \ {0} : Words!CeilingRight(v)

\* quiz3/problem9.c:12: ROUND_UP_TO_ALIGNMENT_SIZE rounds up to the next multiple of
\* sizeof(void *), which is 4 or 8.
RoundsToPointers == \E pointer \in {4, 8} : \A a \in Words!Words : Words!RoundedToPointer(a, pointer)

\* quiz3/problem10.c:3: DIVIDE_ROUND_CLOSEST is the integer closest to the quotient.
QuotientIsClosest ==
  \A x \in Words!Words, d \in Words!Words \ {0} : Words!ClosestRight(Words!Signed(x), Words!Signed(d))

\* quiz5/problem1/problem1.c:222: the palindrome after 99...9 is 10...01.
PalindromeIsNext == \A digits \in Palindromes : Exercise!NextPalindromeRight(digits)

\* One of these comments, at least, is right about every input.  Each of them has a
\* counterexample among the inputs, so none is.
SomeCommentRight ==
  function = None =>
    \/ AverageIsMean \/ CtzFindsGcd \/ CeilingOfLogarithm
    \/ RoundsToPointers \/ QuotientIsClosest \/ PalindromeIsNext
=============================================================================
