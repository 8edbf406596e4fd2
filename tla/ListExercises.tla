---------------------------- MODULE ListExercises ----------------------------
(***************************************************************************)
(* Functions on sequences: linux-2022/quiz1 problems 1, 2 and 4, and the   *)
(* search for palindromic primes of quiz5/problem1.  Arrays, lists and     *)
(* decimal strings are sequences.  A hash table is the set of what was     *)
(* added to it: which bucket an entry is in makes no difference to those   *)
(* who find it there.                                                      *)
(***************************************************************************)
EXTENDS Integers, Sequences, FiniteSets, SequencesExt

CONSTANTS N_DIGITS,   \* of the palindromes that the sieve is made for
          QuadBits    \* bits of the sieve that are looked at together (64)

ParametersOK == N_DIGITS \in 1 .. 5 /\ QuadBits \in Nat \ {0}

-----------------------------------------------------------------------------
(* quiz1 problem1 *)

map_get(map, key) == {entry.data : entry \in {e \in map : e.key = key}}

map_add(map, key, data) ==
  IF map_get(map, key) = {} THEN map \cup {[key |-> key, data |-> data]} ELSE map

\* The map after the first i numbers.
MapOf(nums, i) == FoldLeftDomain(LAMBDA map, j : map_add(map, nums[j], j), {}, SubSeq(nums, 1, i))

\* The loop ends at the first number for which the other one is in the map.
twoSum(nums, target) ==
  LET Partner(i) == map_get(MapOf(nums, i - 1), target - nums[i])
      found == {i \in DOMAIN nums : Partner(i) # {}}
  IN  IF found = {} THEN <<>>
      ELSE LET i == Min(found) IN <<CHOOSE j \in Partner(i) : TRUE, i>>

-----------------------------------------------------------------------------
(* quiz1 problem2, on a sorted list *)

deleteDuplicates(list) ==
  LET from[i \in 1 .. Len(list) + 1] ==
        LET same == {j \in i .. Len(list) : \A k \in i .. j : list[k] = list[i]}
        IN  CASE i > Len(list) -> <<>>
              [] Cardinality(same) > 1 -> from[Max(same) + 1]
              [] OTHER -> <<list[i]>> \o from[i + 1]
  IN  from[1]

-----------------------------------------------------------------------------
(* quiz1 problem4 *)

\* How many numbers one after the other from num on are in table, in steps of direction.
Neighbours(table, num, direction) ==
  LET run[k \in 1 .. Cardinality(table) + 1] ==
        IF num + k * direction \in table THEN run[k + 1] ELSE k - 1
  IN  run[1]

\* A number that is still in the table is taken out with all its neighbours.
Visit(s, num) ==
  LET left == Neighbours(s.table, num, -1)
      right == Neighbours(s.table, num, 1)
      len == left + 1 + right
  IN  IF num \notin s.table THEN s
      ELSE [table |-> s.table \ (num - left .. num + right), length |-> IF len > s.length THEN len ELSE s.length]

longestConsecutive(nums) == FoldLeft(Visit, [table |-> ToSet(nums), length |-> 0], nums).length

-----------------------------------------------------------------------------
(* quiz5 problem1 *)

max == CHOOSE r \in 0 .. 10^N_DIGITS : r * r <= 10^N_DIGITS - 1 /\ (r + 1) * (r + 1) > 10^N_DIGITS - 1
half_max == max \div 2

\* Bit n stands for the odd number 2 n + 1.
Odd(n) == 2 * n + 1

Multiples(n) == {mul \in 2 * n .. max - 1 : mul % n = 0 /\ mul % 2 = 1}

\* The odd numbers that generate_sieve marks.
COMPOSITE ==
  FoldLeftDomain(LAMBDA c, i : IF Odd(i) \in c THEN c ELSE c \cup Multiples(Odd(i)), {1},
                 [i \in 1 .. (max - 1) \div 2 |-> i])

\* The odd numbers from 7 on in the words up to the one of half_max that are not marked.
Divisors == {Odd(n) : n \in 3 .. (half_max \div QuadBits + 1) * QuadBits - 1} \ COMPOSITE

isprime(val) == val % 2 = 1 /\ \A d \in Divisors : val % d # 0

is_divisible_by3(digits) ==
  LET M3 == (2^12 - 1) \div 3 + 1
  IN  (FoldLeft(+, 0, digits) * M3) % 2^12 <= M3 - 1

Number(digits) == FoldLeft(LAMBDA n, d : 10 * n + d, 0, digits)

\* The digits around the middle that are nines are set to zero, and the next ones increased.
getnextpalin(digits) ==
  LET len == Len(digits)
      Mirror(i) == len + 1 - i
      nines == {i \in 1 .. len : i <= Mirror(i) /\ \A j \in i .. Mirror(i) : digits[j] = 9}
      mid == Min(nines \cup {(len + 3) \div 2}) - 1
      next == [i \in 1 .. len |-> CASE i \in {mid, Mirror(mid)} -> digits[i] + 1
                                    [] mid < i /\ i < Mirror(mid) -> 0
                                    [] OTHER -> digits[i]]
  IN  IF mid = 0 THEN Number([i \in 1 .. len |-> 0]) + 2 ELSE Number(next)

\* main counts a palindrome with an odd number of digits as a prime.
Counted(digits) ==
  Last(digits) # 5 /\ ~is_divisible_by3(digits) /\ isprime(Number(digits))

-----------------------------------------------------------------------------
(* What the functions are for *)

\* Two places whose numbers add up to target, the second as early as possible, if there are any.
TwoSumRight(nums, target) ==
  LET pairs == {p \in (DOMAIN nums) \X (DOMAIN nums) : p[1] < p[2] /\ nums[p[1]] + nums[p[2]] = target}
      found == twoSum(nums, target)
  IN  IF pairs = {} THEN found = <<>> ELSE found \in pairs /\ \A p \in pairs : found[2] <= p[2]

\* The numbers that occur once, in order.
DuplicatesRight(nums) ==
  LET list == SortSeq(nums, <)
  IN  deleteDuplicates(list) = SelectSeq(list, LAMBDA x : Cardinality({i \in DOMAIN nums : nums[i] = x}) = 1)

ConsecutiveRight(nums) ==
  LET spans == {s \in ToSet(nums) \X ToSet(nums) : s[1] .. s[2] \subseteq ToSet(nums)}
  IN  longestConsecutive(nums) = Max({0} \cup {s[2] - s[1] + 1 : s \in spans})

\* The sieve leaves exactly the primes among the palindromes with an odd number of digits.
CountedRight(digits) ==
  Counted(digits) <=> \A d \in 2 .. max : Number(digits) % d # 0

\* The next palindrome; after 99...9 that is 10...01.
NextPalindromeRight(digits) ==
  LET IsPalindrome(n) == LET D(i) == (n \div 10^i) % 10
                             len == CHOOSE k \in 1 .. Len(digits) + 1 : 10^(k - 1) <= n /\ n < 10^k
                         IN  \A i \in 0 .. len - 1 : D(i) = D(len - 1 - i)
  IN  getnextpalin(digits) = Min({n \in Number(digits) + 1 .. 10^Len(digits) + 1 : IsPalindrome(n)})

ResultsRight(nums, target) ==
  TwoSumRight(nums, target) /\ DuplicatesRight(nums) /\ ConsecutiveRight(nums)

\* The palindrome that follows, within as many digits, and the primes.
PalindromesRight(digits) ==
  /\ (\E i \in DOMAIN digits : digits[i] # 9) => NextPalindromeRight(digits)
  /\ (Len(digits) = N_DIGITS => CountedRight(digits))
=============================================================================
