\* Words of six bits have sums that do not fit, numbers whose lower half is zero and
\* negative divisors; palindromes of two and three digits.
SPECIFICATION Spec
CONSTANTS
  W = 6
  N_DIGITS = 3
  QuadBits = 8
  None = None
INVARIANTS SomeCommentRight
CHECK_DEADLOCK FALSE
