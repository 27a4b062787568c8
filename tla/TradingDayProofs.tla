--------------------------- MODULE TradingDayProofs ---------------------------
(***************************************************************************)
(* Theorems about TradingDay for any files, budgets, buying powers, ticks, *)
(* closes and holdings: the types, that no order is taken off an empty     *)
(* list, what the orders cost, how their prices are rounded, what the      *)
(* hedge leaves, that the split over auction and day adds up and keeps to  *)
(* the volume, and that the account is on target or flat in the end.       *)
(*                                                                         *)
(* First come lemmas about the operators of OrderArithmetic: sums, chosen  *)
(* elements, the values of lists of orders, what sizing, scaling,          *)
(* rounding, hedging, splitting, adjusting and closing do to a list.  Then *)
(* the inductive invariant IInv, and a lemma for each action.              *)
(***************************************************************************)
EXTENDS TradingDay, SequenceFacts, FiniteSetTheorems

-----------------------------------------------------------------------------
(* The sum of a sequence of numbers.                                       *)

SumsTo(sum, v, n) ==
  sum = [k \in 0 .. n |-> IF k = 0 THEN 0 ELSE sum[k - 1] + v[k]]

LEMMA SumExists ==
  ASSUME NEW n \in Nat, NEW v
  PROVE  \E sum : SumsTo(sum, v, n)
<1> DEFINE S == {k \in 0 .. n : \E sum : SumsTo(sum, v, k)}
<1>1. 0 \in S
  <2> DEFINE sum == [k \in 0 .. 0 |-> 0]
  <2>1. sum = [k \in 0 .. 0 |-> IF k = 0 THEN 0 ELSE sum[k - 1] + v[k]]
    OBVIOUS
  <2> HIDE DEF sum
  <2>2. SumsTo(sum, v, 0) /\ 0 \in 0 .. n
    BY <2>1 DEF SumsTo
  <2> QED
    BY <2>2
<1>2. ASSUME NEW k \in 0 .. n - 1, k \in S
      PROVE  k + 1 \in S
  <2>1. PICK sum : sum = [j \in 0 .. k |-> IF j = 0 THEN 0 ELSE sum[j - 1] + v[j]]
    BY <1>2 DEF SumsTo
  <2> DEFINE more == [j \in 0 .. k + 1 |-> IF j = k + 1 THEN sum[k] + v[k + 1] ELSE sum[j]]
  <2>2. ASSUME NEW j \in 0 .. k + 1
        PROVE  more[j] = IF j = 0 THEN 0 ELSE more[j - 1] + v[j]
    <3>1. CASE j = k + 1
      <4>1. (k + 1) - 1 = k /\ k \in 0 .. k + 1 /\ k # k + 1 /\ k + 1 # 0
        OBVIOUS
      <4>2. more[k] = sum[k]
        BY <4>1
      <4> QED
        BY <3>1, <4>1, <4>2
    <3>2. CASE j # k + 1 /\ j # 0
      <4>1. j \in 0 .. k /\ j - 1 \in 0 .. k + 1 /\ j - 1 # k + 1
        BY <3>2
      <4>2. sum[j] = sum[j - 1] + v[j]
        BY <2>1, <3>2, <4>1
      <4> QED
        BY <3>2, <4>1, <4>2
    <3>3. CASE j = 0
      <4>1. 0 \in 0 .. k /\ 0 # k + 1
        OBVIOUS
      <4>2. sum[0] = 0
        BY <2>1, <4>1
      <4> QED
        BY <3>3, <4>1, <4>2
    <3> QED
      BY <3>1, <3>2, <3>3
  <2>3. more = [j \in 0 .. k + 1 |-> more[j]]
    OBVIOUS
  <2> HIDE DEF more
  <2>4. more = [j \in 0 .. k + 1 |-> IF j = 0 THEN 0 ELSE more[j - 1] + v[j]]
    BY <2>2, <2>3
  <2> QED
    BY <2>4 DEF SumsTo
<1>3. \A k \in 0 .. n : k \in S
  <2> HIDE DEF S
  <2> QED
    BY <1>1, <1>2, UpTo
<1> QED
  BY <1>3

\* The running sums of v: the function that SumOf is the last value of.
LEMMA RunningSums ==
  ASSUME NEW n \in Nat, NEW v \in [1 .. n -> Int]
  PROVE  \E sum \in [0 .. n -> Int] :
           /\ sum[0] = 0
           /\ \A k \in 1 .. n : sum[k] = sum[k - 1] + v[k]
           /\ SumOf(v) = sum[n]
<1>1. Len(v) = n
  BY LenOf
<1> DEFINE sum == CHOOSE sum : SumsTo(sum, v, n)
<1>2. SumsTo(sum, v, n)
  BY SumExists
<1>3. SumOf(v) = sum[n]
  BY <1>1 DEF SumOf, SumsTo
<1> HIDE DEF sum
<1>4. /\ DOMAIN sum = 0 .. n
      /\ \A k \in 0 .. n : sum[k] = IF k = 0 THEN 0 ELSE sum[k - 1] + v[k]
  BY <1>2 DEF SumsTo
<1>4a. sum = [k \in 0 .. n |-> sum[k]]
  BY <1>2 DEF SumsTo
<1>4b. sum[0] = 0 /\ \A k \in 1 .. n : sum[k] = sum[k - 1] + v[k]
  BY <1>4
<1> DEFINE S == {k \in 0 .. n : sum[k] \in Int}
<1>5. 0 \in S
  BY <1>4b
<1>6. ASSUME NEW k \in 0 .. n - 1, k \in S
      PROVE  k + 1 \in S
  <2>1. k + 1 \in 1 .. n /\ (k + 1) - 1 = k /\ k + 1 # 0 /\ k + 1 \in 0 .. n
    OBVIOUS
  <2>2. sum[k + 1] = sum[k] + v[k + 1] /\ v[k + 1] \in Int
    BY <1>4b, <2>1
  <2> QED
    BY <1>6, <2>1, <2>2
<1>7. \A k \in 0 .. n : k \in S
  <2> HIDE DEF S
  <2> QED
    BY <1>5, <1>6, UpTo
<1>8. sum \in [0 .. n -> Int]
  BY <1>4a, <1>7
<1> QED
  BY <1>3, <1>4b, <1>8

LEMMA SumType ==
  ASSUME NEW n \in Nat, NEW v \in [1 .. n -> Int]
  PROVE  SumOf(v) \in Int /\ (n = 0 => SumOf(v) = 0)
<1>1. PICK sum \in [0 .. n -> Int] : sum[0] = 0 /\ SumOf(v) = sum[n]
  BY RunningSums
<1> QED
  BY <1>1

\* One more number adds to the sum.
LEMMA SumLast ==
  ASSUME NEW n \in Nat, NEW v \in [1 .. n + 1 -> Int]
  PROVE  SumOf(v) = SumOf([k \in 1 .. n |-> v[k]]) + v[n + 1]
<1> DEFINE w == [k \in 1 .. n |-> v[k]]
<1>1. w \in [1 .. n -> Int] /\ \A k \in 1 .. n : w[k] = v[k]
  OBVIOUS
<1> HIDE DEF w
<1>1a. n + 1 \in Nat
  OBVIOUS
<1>2. PICK sv \in [0 .. n + 1 -> Int] :
        /\ sv[0] = 0 /\ SumOf(v) = sv[n + 1]
        /\ \A k \in 1 .. n + 1 : sv[k] = sv[k - 1] + v[k]
  BY <1>1a, RunningSums
<1>3. PICK sw \in [0 .. n -> Int] :
        /\ sw[0] = 0 /\ SumOf(w) = sw[n]
        /\ \A k \in 1 .. n : sw[k] = sw[k - 1] + w[k]
  BY <1>1, RunningSums
<1> DEFINE S == {k \in 0 .. n : sv[k] = sw[k]}
<1>4. 0 \in S
  BY <1>2, <1>3
<1>5. ASSUME NEW k \in 0 .. n - 1, k \in S
      PROVE  k + 1 \in S
  <2>1. k + 1 \in 1 .. n /\ k + 1 \in 1 .. n + 1 /\ (k + 1) - 1 = k
    OBVIOUS
  <2>2. sv[k + 1] = sv[k] + v[k + 1] /\ sw[k + 1] = sw[k] + w[k + 1] /\ w[k + 1] = v[k + 1]
    BY <1>1, <1>2, <1>3, <2>1
  <2> QED
    BY <1>5, <2>1, <2>2
<1>6. \A k \in 0 .. n : k \in S
  <2> HIDE DEF S
  <2> QED
    BY <1>4, <1>5, UpTo
<1>7. sv[n] = sw[n] /\ n + 1 \in 1 .. n + 1 /\ (n + 1) - 1 = n
  BY <1>6
<1>8. sv[n + 1] = sv[n] + v[n + 1]
  BY <1>2, <1>7
<1> QED
  BY <1>2, <1>3, <1>7, <1>8 DEF w

\* Sums keep the order, element by element.
LEMMA SumLe ==
  ASSUME NEW n \in Nat, NEW v \in [1 .. n -> Int], NEW w \in [1 .. n -> Int],
         \A k \in 1 .. n : v[k] <= w[k]
  PROVE  SumOf(v) <= SumOf(w)
<1>1. PICK sv \in [0 .. n -> Int] :
        /\ sv[0] = 0 /\ SumOf(v) = sv[n]
        /\ \A k \in 1 .. n : sv[k] = sv[k - 1] + v[k]
  BY RunningSums
<1>2. PICK sw \in [0 .. n -> Int] :
        /\ sw[0] = 0 /\ SumOf(w) = sw[n]
        /\ \A k \in 1 .. n : sw[k] = sw[k - 1] + w[k]
  BY RunningSums
<1> DEFINE S == {k \in 0 .. n : sv[k] <= sw[k]}
<1>3. 0 \in S
  BY <1>1, <1>2
<1>4. ASSUME NEW k \in 0 .. n - 1, k \in S
      PROVE  k + 1 \in S
  <2>1. k + 1 \in 1 .. n /\ (k + 1) - 1 = k /\ k \in 0 .. n /\ k + 1 \in 0 .. n
    OBVIOUS
  <2>2. sv[k + 1] = sv[k] + v[k + 1] /\ sw[k + 1] = sw[k] + w[k + 1] /\ v[k + 1] <= w[k + 1]
    BY <1>1, <1>2, <2>1
  <2>3. sv[k] \in Int /\ sw[k] \in Int /\ v[k + 1] \in Int /\ w[k + 1] \in Int /\ sv[k] <= sw[k]
    BY <1>4, <2>1
  <2> QED
    BY <2>1, <2>2, <2>3
<1>5. \A k \in 0 .. n : k \in S
  <2> HIDE DEF S
  <2> QED
    BY <1>3, <1>4, UpTo
<1> QED
  BY <1>1, <1>2, <1>5

\* The sum of multiples and sums.
Linear(n, a, v, b, w) == [k \in 1 .. n |-> a * v[k] + b * w[k]]

\* The sum of a linear combination.
LEMMA SumLinear ==
  ASSUME NEW n \in Nat, NEW v \in [1 .. n -> Int], NEW w \in [1 .. n -> Int],
         NEW a \in Int, NEW b \in Int
  PROVE  SumOf(Linear(n, a, v, b, w)) = a * SumOf(v) + b * SumOf(w)
<1> DEFINE u == Linear(n, a, v, b, w)
<1>0. u \in [1 .. n -> Int] /\ \A k \in 1 .. n : u[k] = a * v[k] + b * w[k]
  BY DEF Linear
<1> HIDE DEF u
<1>1. PICK sv \in [0 .. n -> Int] :
        /\ sv[0] = 0 /\ SumOf(v) = sv[n]
        /\ \A k \in 1 .. n : sv[k] = sv[k - 1] + v[k]
  BY RunningSums
<1>2. PICK sw \in [0 .. n -> Int] :
        /\ sw[0] = 0 /\ SumOf(w) = sw[n]
        /\ \A k \in 1 .. n : sw[k] = sw[k - 1] + w[k]
  BY RunningSums
<1>3. PICK su \in [0 .. n -> Int] :
        /\ su[0] = 0 /\ SumOf(u) = su[n]
        /\ \A k \in 1 .. n : su[k] = su[k - 1] + u[k]
  BY <1>0, RunningSums
<1> DEFINE S == {k \in 0 .. n : su[k] = a * sv[k] + b * sw[k]}
<1>4. 0 \in S
  BY <1>1, <1>2, <1>3
<1>5. ASSUME NEW k \in 0 .. n - 1, k \in S
      PROVE  k + 1 \in S
  <2>1. k + 1 \in 1 .. n /\ (k + 1) - 1 = k /\ k \in 0 .. n /\ k + 1 \in 0 .. n
    OBVIOUS
  <2>2. /\ sv[k + 1] = sv[k] + v[k + 1] /\ sw[k + 1] = sw[k] + w[k + 1]
        /\ su[k + 1] = su[k] + u[k + 1] /\ u[k + 1] = a * v[k + 1] + b * w[k + 1]
    BY <1>0, <1>1, <1>2, <1>3, <2>1
  <2>3. /\ sv[k] \in Int /\ sw[k] \in Int /\ v[k + 1] \in Int /\ w[k + 1] \in Int
        /\ su[k] = a * sv[k] + b * sw[k]
    BY <1>5, <2>1
  <2>4. \A x, y, p, q \in Int : (a * x + b * y) + (a * p + b * q) = a * (x + p) + b * (y + q)
    OBVIOUS
  <2>5. su[k] + u[k + 1] = a * (sv[k] + v[k + 1]) + b * (sw[k] + w[k + 1])
    <3>1. (a * sv[k] + b * sw[k]) + (a * v[k + 1] + b * w[k + 1])
            = a * (sv[k] + v[k + 1]) + b * (sw[k] + w[k + 1])
      <4>1. PICK x \in Int, y \in Int, p \in Int, q \in Int :
              x = sv[k] /\ y = sw[k] /\ p = v[k + 1] /\ q = w[k + 1]
        BY <2>3
      <4>2. (a * x + b * y) + (a * p + b * q) = a * (x + p) + b * (y + q)
        BY ONLY <2>4
      <4> QED
        BY ONLY <4>1, <4>2, Zenon
    <3>2. su[k] + u[k + 1] = (a * sv[k] + b * sw[k]) + (a * v[k + 1] + b * w[k + 1])
      BY ONLY <2>2, <2>3, Zenon
    <3> QED
      BY ONLY <3>1, <3>2, Zenon
  <2>6. su[k + 1] = a * sv[k + 1] + b * sw[k + 1]
    BY ONLY <2>2, <2>5, Zenon
  <2> QED
    BY <2>1, <2>6
<1>6. \A k \in 0 .. n : k \in S
  <2> HIDE DEF S
  <2> QED
    BY <1>4, <1>5, UpTo
<1> QED
  BY <1>1, <1>2, <1>3, <1>6 DEF u

LEMMA SumPlus ==
  ASSUME NEW n \in Nat, NEW v \in [1 .. n -> Int], NEW w \in [1 .. n -> Int], NEW b \in Int
  PROVE  SumOf([k \in 1 .. n |-> v[k] + b * w[k]]) = SumOf(v) + b * SumOf(w)
<1>1. PICK one \in Int : one = 1
  OBVIOUS
<1>2. SumOf(Linear(n, one, v, b, w)) = one * SumOf(v) + b * SumOf(w)
  BY SumLinear
<1>3. Linear(n, one, v, b, w) = [k \in 1 .. n |-> v[k] + b * w[k]]
  BY <1>1 DEF Linear
<1>4. one * SumOf(v) = SumOf(v)
  BY <1>1, SumType
<1> QED
  BY <1>2, <1>3, <1>4

\* The sum of two added vectors.
LEMMA SumAdd ==
  ASSUME NEW n \in Nat, NEW v \in [1 .. n -> Int], NEW w \in [1 .. n -> Int]
  PROVE  SumOf([k \in 1 .. n |-> v[k] + w[k]]) = SumOf(v) + SumOf(w)
<1>1. PICK one \in Int : one = 1
  OBVIOUS
<1>2. SumOf([k \in 1 .. n |-> v[k] + one * w[k]]) = SumOf(v) + one * SumOf(w)
  BY SumPlus
<1>3. [k \in 1 .. n |-> v[k] + one * w[k]] = [k \in 1 .. n |-> v[k] + w[k]]
  BY <1>1
<1>4. one * SumOf(w) = SumOf(w)
  BY <1>1, SumType
<1> QED
  BY <1>2, <1>3, <1>4

\* A common factor comes out of a sum.
LEMMA SumTimes ==
  ASSUME NEW n \in Nat, NEW v \in [1 .. n -> Int], NEW a \in Int
  PROVE  SumOf([k \in 1 .. n |-> a * v[k]]) = a * SumOf(v)
<1>1. PICK zero \in Int : zero = 0
  OBVIOUS
<1>2. SumOf(Linear(n, a, v, zero, v)) = a * SumOf(v) + zero * SumOf(v)
  BY SumLinear
<1>3. Linear(n, a, v, zero, v) = [k \in 1 .. n |-> a * v[k]]
  BY <1>1 DEF Linear
<1>4. a * SumOf(v) + zero * SumOf(v) = a * SumOf(v)
  BY <1>1, SumType
<1> QED
  BY <1>2, <1>3, <1>4

\* The sum of numbers that are zero, all of them or all but one.
LEMMA SumZero ==
  ASSUME NEW n \in Nat, NEW v \in [1 .. n -> Int], \A k \in 1 .. n : v[k] = 0
  PROVE  SumOf(v) = 0
<1>1. PICK sum \in [0 .. n -> Int] :
        /\ sum[0] = 0 /\ SumOf(v) = sum[n]
        /\ \A k \in 1 .. n : sum[k] = sum[k - 1] + v[k]
  BY RunningSums
<1> DEFINE S == {k \in 0 .. n : sum[k] = 0}
<1>2. 0 \in S
  BY <1>1
<1>3. ASSUME NEW k \in 0 .. n - 1, k \in S
      PROVE  k + 1 \in S
  <2>1. k + 1 \in 1 .. n /\ (k + 1) - 1 = k /\ k + 1 \in 0 .. n
    OBVIOUS
  <2>2. sum[k + 1] = sum[k] + v[k + 1] /\ v[k + 1] = 0
    BY <1>1, <2>1
  <2> QED
    BY <1>3, <2>1, <2>2
<1>4. \A k \in 0 .. n : k \in S
  <2> HIDE DEF S
  <2> QED
    BY <1>2, <1>3, UpTo
<1> QED
  BY <1>1, <1>4

\* A sum of natural numbers is one.
LEMMA SumOfNaturals ==
  ASSUME NEW n \in Nat, NEW v \in [1 .. n -> Int], \A k \in 1 .. n : v[k] >= 0
  PROVE  SumOf(v) \in Nat
<1> DEFINE zeros == [k \in 1 .. n |-> 0]
<1>1. zeros \in [1 .. n -> Int] /\ \A k \in 1 .. n : zeros[k] = 0 /\ zeros[k] <= v[k]
  OBVIOUS
<1> HIDE DEF zeros
<1>2. SumOf(zeros) = 0 /\ SumOf(zeros) <= SumOf(v)
  BY <1>1, SumZero, SumLe
<1> QED
  BY <1>2, SumType

\* A sum of which one number at most is not 0.
LEMMA SumOne ==
  ASSUME NEW n \in Nat, NEW v \in [1 .. n -> Int], NEW i \in 1 .. n,
         \A k \in 1 .. n : k # i => v[k] = 0
  PROVE  SumOf(v) = v[i]
<1>1. PICK sum \in [0 .. n -> Int] :
        /\ sum[0] = 0 /\ SumOf(v) = sum[n]
        /\ \A k \in 1 .. n : sum[k] = sum[k - 1] + v[k]
  BY RunningSums
<1> DEFINE S == {k \in 0 .. n : sum[k] = IF k < i THEN 0 ELSE v[i]}
<1>2. 0 \in S
  BY <1>1
<1>3. ASSUME NEW k \in 0 .. n - 1, k \in S
      PROVE  k + 1 \in S
  <2>1. k + 1 \in 1 .. n /\ (k + 1) - 1 = k /\ k \in 0 .. n /\ k + 1 \in 0 .. n
    OBVIOUS
  <2>2. sum[k + 1] = sum[k] + v[k + 1] /\ v[k + 1] \in Int /\ v[i] \in Int /\ i \in Int
    BY <1>1, <2>1
  <2>3. CASE k + 1 = i
    BY <1>3, <2>1, <2>2, <2>3
  <2>4. CASE k + 1 # i
    <3>1. v[k + 1] = 0 /\ (k < i <=> k + 1 < i)
      BY <2>1, <2>2, <2>4
    <3> QED
      BY <1>3, <2>1, <2>2, <3>1
  <2> QED
    BY <2>3, <2>4
<1>4. \A k \in 0 .. n : k \in S
  <2> HIDE DEF S
  <2> QED
    BY <1>2, <1>3, UpTo
<1> QED
  BY <1>1, <1>4

-----------------------------------------------------------------------------
(* The elements at chosen indices.                                         *)

ChoosesUpTo(upTo, s, K, n) ==
  upTo = [k \in 0 .. n |->
            IF k = 0 THEN <<>> ELSE IF k \in K THEN Append(upTo[k - 1], s[k]) ELSE upTo[k - 1]]

\* The function that Chosen takes the last value of exists.
LEMMA ChoosesExists ==
  ASSUME NEW n \in Nat, NEW s, NEW K
  PROVE  \E upTo : ChoosesUpTo(upTo, s, K, n)
<1> DEFINE Step(u, k) == IF k \in K THEN Append(u[k - 1], s[k]) ELSE u[k - 1]
           S == {k \in 0 .. n : \E upTo : ChoosesUpTo(upTo, s, K, k)}
<1>1. 0 \in S
  <2> DEFINE upTo == [k \in 0 .. 0 |-> <<>>]
  <2>1. upTo = [k \in 0 .. 0 |-> IF k = 0 THEN <<>> ELSE Step(upTo, k)]
    OBVIOUS
  <2> HIDE DEF upTo
  <2>2. ChoosesUpTo(upTo, s, K, 0) /\ 0 \in 0 .. n
    BY <2>1 DEF ChoosesUpTo
  <2> QED
    BY <2>2
<1>2. ASSUME NEW k \in 0 .. n - 1, k \in S
      PROVE  k + 1 \in S
  <2>1. PICK upTo : upTo = [j \in 0 .. k |-> IF j = 0 THEN <<>> ELSE Step(upTo, j)]
    BY <1>2 DEF ChoosesUpTo
  <2> DEFINE more == [j \in 0 .. k + 1 |->
               IF j = k + 1 THEN (IF k + 1 \in K THEN Append(upTo[k], s[k + 1]) ELSE upTo[k])
               ELSE upTo[j]]
  <2>2. ASSUME NEW j \in 0 .. k + 1
        PROVE  more[j] = IF j = 0 THEN <<>> ELSE Step(more, j)
    <3>1. CASE j = k + 1
      <4>1. (k + 1) - 1 = k /\ k \in 0 .. k + 1 /\ k # k + 1 /\ k + 1 # 0
        OBVIOUS
      <4>2. more[k] = upTo[k]
        BY <4>1
      <4> QED
        BY <3>1, <4>1, <4>2
    <3>2. CASE j # k + 1 /\ j # 0
      <4>1. j \in 0 .. k /\ j - 1 \in 0 .. k + 1 /\ j - 1 # k + 1
        BY <3>2
      <4>2. upTo[j] = Step(upTo, j)
        BY <2>1, <3>2, <4>1
      <4>3. more[j] = upTo[j] /\ more[j - 1] = upTo[j - 1]
        BY <3>2, <4>1
      <4> HIDE DEF more
      <4> QED
        BY <3>2, <4>2, <4>3
    <3>3. CASE j = 0
      <4>1. 0 \in 0 .. k /\ 0 # k + 1
        OBVIOUS
      <4>2. upTo[0] = <<>>
        BY <2>1, <4>1
      <4> QED
        BY <3>3, <4>1, <4>2
    <3> QED
      BY <3>1, <3>2, <3>3
  <2>3. more = [j \in 0 .. k + 1 |-> more[j]]
    OBVIOUS
  <2> HIDE DEF more
  <2>4. more = [j \in 0 .. k + 1 |-> IF j = 0 THEN <<>> ELSE Step(more, j)]
    BY <2>2, <2>3
  <2>5. ChoosesUpTo(more, s, K, k + 1)
    BY <2>4 DEF ChoosesUpTo
  <2>6. k + 1 \in 0 .. n
    OBVIOUS
  <2> QED
    BY <2>5, <2>6
<1>3. \A k \in 0 .. n : k \in S
  <2> HIDE DEF S
  <2> QED
    BY <1>1, <1>2, UpTo
<1> QED
  BY <1>3

\* The elements of c are elements of s at the indices 1 .. n in K, none of them twice:
\* f[i] is the index that the i-th element had.
Picks(f, c, s, K, n) ==
  /\ f \in [1 .. Len(c) -> 1 .. n]
  /\ \A i, j \in 1 .. Len(c) : f[i] = f[j] => i = j
  /\ \A i \in 1 .. Len(c) : f[i] \in K /\ c[i] = s[f[i]]

\* A sum over the m elements picked is the sum over those indices.
SumsOver(f, m, K, n) ==
  \A w \in [1 .. n -> Int] :
    SumOf([i \in 1 .. m |-> w[f[i]]]) = SumOf([k \in 1 .. n |-> IF k \in K THEN w[k] ELSE 0])

\* c holds all those elements.
Holds(c, f, s, K, n) ==
  /\ Picks(f, c, s, K, n)
  /\ \A k \in 1 .. n : k \in K => \E i \in 1 .. Len(c) : f[i] = k
  /\ SumsOver(f, Len(c), K, n)

LEMMA HoldsFirst ==
  ASSUME NEW s, NEW K
  PROVE  Holds(<<>>, <<>>, s, K, 0)
<1>1. Len(<<>>) = 0
  BY EmptySeq
<1>2. <<>> \in [1 .. 0 -> 1 .. 0]
  OBVIOUS
<1>3. ASSUME NEW w \in [1 .. 0 -> Int]
      PROVE  SumOf([i \in 1 .. 0 |-> w[<<>>[i]]]) = SumOf([k \in 1 .. 0 |-> IF k \in K THEN w[k] ELSE 0])
  <2>1. [i \in 1 .. 0 |-> w[<<>>[i]]] = [k \in 1 .. 0 |-> IF k \in K THEN w[k] ELSE 0]
    OBVIOUS
  <2> QED
    BY <2>1
<1> QED
  BY <1>1, <1>2, <1>3 DEF Holds, Picks, SumsOver

\* The element at n + 1 is passed over.
LEMMA HoldsSkip ==
  ASSUME NEW n \in Nat, NEW S, NEW c \in Seq(S), NEW f, NEW s, NEW K,
         Holds(c, f, s, K, n), n + 1 \notin K
  PROVE  Holds(c, f, s, K, n + 1)
<1>1. /\ Picks(f, c, s, K, n + 1)
      /\ \A k \in 1 .. n + 1 : k \in K => \E i \in 1 .. Len(c) : f[i] = k
  <2>1. f \in [1 .. Len(c) -> 1 .. n] /\ 1 .. n \subseteq 1 .. n + 1
    BY DEF Holds, Picks
  <2>2. \A k \in 1 .. n + 1 : k \in K => k \in 1 .. n
    OBVIOUS
  <2>3. f \in [1 .. Len(c) -> 1 .. n + 1]
    BY <2>1
  <2>4. Picks(f, c, s, K, n + 1)
    BY <2>3 DEF Holds, Picks
  <2> QED
    BY <2>2, <2>4 DEF Holds
<1>2. ASSUME NEW w \in [1 .. n + 1 -> Int]
      PROVE  SumOf([i \in 1 .. Len(c) |-> w[f[i]]])
               = SumOf([k \in 1 .. n + 1 |-> IF k \in K THEN w[k] ELSE 0])
  <2> DEFINE v == [k \in 1 .. n |-> w[k]]
             u == [k \in 1 .. n + 1 |-> IF k \in K THEN w[k] ELSE 0]
             t == [k \in 1 .. n |-> IF k \in K THEN v[k] ELSE 0]
  <2>1. v \in [1 .. n -> Int] /\ u \in [1 .. n + 1 -> Int] /\ t \in [1 .. n -> Int]
    OBVIOUS
  <2>2. SumOf(u) = SumOf([k \in 1 .. n |-> u[k]]) + u[n + 1]
    <3> HIDE DEF u
    <3> QED
      BY <2>1, SumLast
  <2>3. [k \in 1 .. n |-> u[k]] = t
    OBVIOUS
  <2>4. u[n + 1] = 0 /\ SumOf(t) \in Int
    <3>1. u[n + 1] = 0
      OBVIOUS
    <3> HIDE DEF t
    <3> QED
      BY <2>1, <3>1, SumType
  <2>5. [i \in 1 .. Len(c) |-> w[f[i]]] = [i \in 1 .. Len(c) |-> v[f[i]]]
    BY DEF Holds, Picks
  <2>6. SumOf([i \in 1 .. Len(c) |-> v[f[i]]]) = SumOf(t)
    <3> HIDE DEF v
    <3> QED
      BY <2>1 DEF Holds, SumsOver
  <2>7. SumOf(u) = SumOf(t)
    <3> HIDE DEF u, t, v
    <3>1. SumOf(u) = SumOf(t) + u[n + 1]
      BY <2>2, <2>3, Zenon
    <3> QED
      BY <2>4, <3>1
  <2> QED
    BY <2>5, <2>6, <2>7
<1>3. SumsOver(f, Len(c), K, n + 1)
  BY <1>2 DEF SumsOver
<1> QED
  BY <1>1, <1>3 DEF Holds

\* The element at n + 1 is pushed back.
LEMMA HoldsPush ==
  ASSUME NEW n \in Nat, NEW S, NEW c \in Seq(S), NEW f, NEW s, NEW K,
         Holds(c, f, s, K, n), n + 1 \in K, s[n + 1] \in S
  PROVE  \E g : Holds(Append(c, s[n + 1]), g, s, K, n + 1)
<1> DEFINE d == Append(c, s[n + 1])
           g == [i \in 1 .. Len(c) + 1 |-> IF i = Len(c) + 1 THEN n + 1 ELSE f[i]]
<1>1. /\ Len(c) \in Nat /\ Len(d) = Len(c) + 1
      /\ \A i \in 1 .. Len(c) : d[i] = c[i]
      /\ d[Len(c) + 1] = s[n + 1]
  BY AppendProperties, LenProperties
<1>2. /\ f \in [1 .. Len(c) -> 1 .. n]
      /\ \A i, j \in 1 .. Len(c) : f[i] = f[j] => i = j
      /\ \A i \in 1 .. Len(c) : f[i] \in K /\ c[i] = s[f[i]]
      /\ \A k \in 1 .. n : k \in K => \E i \in 1 .. Len(c) : f[i] = k
  BY DEF Holds, Picks
<1> HIDE DEF d
<1>3. /\ \A i \in 1 .. Len(c) : i \in 1 .. Len(c) + 1 /\ i # Len(c) + 1
      /\ Len(c) + 1 \in 1 .. Len(c) + 1
      /\ \A i \in 1 .. Len(c) + 1 : i \in 1 .. Len(c) \/ i = Len(c) + 1
      /\ \A k \in 1 .. n : k \in 1 .. n + 1 /\ k # n + 1
      /\ \A k \in 1 .. n + 1 : k \in 1 .. n \/ k = n + 1
      /\ n + 1 \in 1 .. n + 1
  BY <1>1
<1>4. /\ \A i \in 1 .. Len(c) : g[i] = f[i] /\ f[i] \in 1 .. n
      /\ g[Len(c) + 1] = n + 1
  BY <1>2, <1>3
<1>5. g \in [1 .. Len(c) + 1 -> 1 .. n + 1]
  BY <1>2, <1>3
<1> HIDE DEF g
<1>6. \A i, j \in 1 .. Len(c) + 1 : g[i] = g[j] => i = j
  BY <1>2, <1>3, <1>4
<1>7. \A i \in 1 .. Len(c) + 1 : g[i] \in K /\ d[i] = s[g[i]]
  BY <1>1, <1>2, <1>3, <1>4
<1>8. \A k \in 1 .. n + 1 : k \in K => \E i \in 1 .. Len(c) + 1 : g[i] = k
  BY <1>2, <1>3, <1>4
<1>9. ASSUME NEW w \in [1 .. n + 1 -> Int]
      PROVE  SumOf([i \in 1 .. Len(c) + 1 |-> w[g[i]]])
               = SumOf([k \in 1 .. n + 1 |-> IF k \in K THEN w[k] ELSE 0])
  <2> DEFINE v == [k \in 1 .. n |-> w[k]]
             u == [k \in 1 .. n + 1 |-> IF k \in K THEN w[k] ELSE 0]
             t == [k \in 1 .. n |-> IF k \in K THEN v[k] ELSE 0]
             x == [i \in 1 .. Len(c) + 1 |-> w[g[i]]]
             y == [i \in 1 .. Len(c) |-> v[f[i]]]
  <2>1. v \in [1 .. n -> Int] /\ u \in [1 .. n + 1 -> Int] /\ t \in [1 .. n -> Int]
    BY <1>3
  <2>2. x \in [1 .. Len(c) + 1 -> Int] /\ y \in [1 .. Len(c) -> Int]
    BY <1>2, <1>5
  <2>3. [k \in 1 .. n |-> u[k]] = t /\ u[n + 1] = w[n + 1]
    BY <1>3
  <2>4. [i \in 1 .. Len(c) |-> x[i]] = y /\ x[Len(c) + 1] = w[n + 1]
    BY <1>2, <1>3, <1>4
  <2>5. SumOf(y) = SumOf(t)
    <3> HIDE DEF v
    <3> QED
      BY <2>1 DEF Holds, SumsOver
  <2> HIDE DEF v, u, t, x, y
  <2>6. SumOf(u) = SumOf([k \in 1 .. n |-> u[k]]) + u[n + 1]
    BY <2>1, SumLast
  <2>7. SumOf(x) = SumOf([i \in 1 .. Len(c) |-> x[i]]) + x[Len(c) + 1]
    BY <1>1, <2>2, SumLast
  <2>8. SumOf(x) = SumOf(u)
    BY <2>3, <2>4, <2>5, <2>6, <2>7
  <2> QED
    BY <2>8 DEF x, u
<1>10. Holds(d, g, s, K, n + 1)
  <2>1. Picks(g, d, s, K, n + 1)
    BY <1>1, <1>5, <1>6, <1>7 DEF Picks
  <2>2. SumsOver(g, Len(d), K, n + 1)
    BY <1>1, <1>9, Zenon DEF SumsOver
  <2> QED
    BY <1>1, <1>8, <2>1, <2>2 DEF Holds
<1> QED
  BY <1>10 DEF d

\* What Chosen keeps are the elements at the chosen places, in their order.
LEMMA ChosenFacts ==
  ASSUME NEW S, NEW s \in Seq(S), NEW K
  PROVE  /\ Chosen(s, K) \in Seq(S)
         /\ \E f : Holds(Chosen(s, K), f, s, K, Len(s))
<1>1. Len(s) \in Nat /\ \A k \in 1 .. Len(s) : s[k] \in S
  BY LenProperties, ElementOfSeq
<1> DEFINE upTo == CHOOSE upTo : ChoosesUpTo(upTo, s, K, Len(s))
<1>2. ChoosesUpTo(upTo, s, K, Len(s))
  BY <1>1, ChoosesExists
<1>3. Chosen(s, K) = upTo[Len(s)]
  BY DEF Chosen, ChoosesUpTo
<1> HIDE DEF upTo
<1>4. \A k \in 0 .. Len(s) : upTo[k] =
         IF k = 0 THEN <<>> ELSE IF k \in K THEN Append(upTo[k - 1], s[k]) ELSE upTo[k - 1]
  BY <1>2 DEF ChoosesUpTo
<1> DEFINE T == {k \in 0 .. Len(s) : upTo[k] \in Seq(S) /\ \E f : Holds(upTo[k], f, s, K, k)}
<1>5. 0 \in T
  <2>1. 0 \in 0 .. Len(s)
    BY <1>1
  <2>2. upTo[0] = <<>>
    BY <1>4, <2>1
  <2>3. Holds(upTo[0], <<>>, s, K, 0)
    BY <2>2, HoldsFirst
  <2>4. upTo[0] \in Seq(S)
    BY <2>2, EmptySeq
  <2> QED
    BY <2>1, <2>3, <2>4
<1>6. ASSUME NEW k \in 0 .. Len(s) - 1, k \in T
      PROVE  k + 1 \in T
  <2>1. k + 1 \in 1 .. Len(s) /\ k + 1 \in 0 .. Len(s) /\ (k + 1) - 1 = k /\ k \in Nat /\ k + 1 # 0
    BY <1>1
  <2>2. upTo[k] \in Seq(S) /\ s[k + 1] \in S
    BY <1>1, <1>6, <2>1
  <2>3. PICK f : Holds(upTo[k], f, s, K, k)
    BY <1>6
  <2>4. CASE k + 1 \in K
    <3>1. upTo[k + 1] = Append(upTo[k], s[k + 1])
      BY <1>4, <2>1, <2>4
    <3>2. \E g : Holds(Append(upTo[k], s[k + 1]), g, s, K, k + 1)
      BY <2>1, <2>2, <2>3, <2>4, HoldsPush
    <3>3. upTo[k + 1] \in Seq(S)
      BY <2>2, <3>1, AppendProperties
    <3> QED
      BY <2>1, <3>1, <3>2, <3>3
  <2>5. CASE k + 1 \notin K
    <3>1. upTo[k + 1] = upTo[k]
      BY <1>4, <2>1, <2>5
    <3>2. Holds(upTo[k], f, s, K, k + 1)
      BY <2>1, <2>2, <2>3, <2>5, HoldsSkip
    <3> QED
      BY <2>1, <2>2, <3>1, <3>2
  <2> QED
    BY <2>4, <2>5
<1>7. \A k \in 0 .. Len(s) : k \in T
  <2> HIDE DEF T
  <2> QED
    BY <1>1, <1>5, <1>6, UpTo
<1>8. Len(s) \in T
  BY <1>1, <1>7
<1> QED
  BY <1>3, <1>8

-----------------------------------------------------------------------------
(* Prices and quantities.                                                  *)

LEMMA Divide ==
  ASSUME NEW x \in Nat, NEW d \in Nat \ {0}
  PROVE  /\ x \div d \in Nat /\ x % d \in 0 .. d - 1
         /\ x = d * (x \div d) + (x % d)
<1>1. x % d \in 0 .. d - 1
  OBVIOUS
<1>2. x = d * (x \div d) + (x % d)
  BY Z3T(30)
<1>3. x \div d \in Nat
  OBVIOUS
<1> QED
  BY <1>1, <1>2, <1>3

\* abs, and the direction of a number.
LEMMA Magnitudes ==
  ASSUME NEW x \in Int
  PROVE  /\ Magnitude(x) \in Nat /\ Direction(x) \in {1, -1}
         /\ x = Direction(x) * Magnitude(x)
         /\ x > 0 => Direction(x) = 1 /\ Magnitude(x) = x
         /\ x <= 0 => Direction(x) = -1 /\ Magnitude(x) = -x
<1>1. CASE x > 0
  BY <1>1 DEF Magnitude, Direction
<1>2. CASE ~(x > 0)
  <2>1. Direction(x) = -1 /\ Magnitude(x) = -x
    BY <1>2 DEF Magnitude, Direction
  <2> QED
    BY <1>2, <2>1
<1> QED
  BY <1>1, <1>2

\* What a limit price gains by its rounding, for the trader: it loses no more than
\* half a cent, and gains less than a tick and half a cent.
LEMMA RoundNumGain ==
  ASSUME NEW share \in Int, NEW num \in Nat, NEW minTick \in Nat
  PROVE  /\ RoundNum(share, num, minTick) \in Nat
         /\ share # 0 =>
              LET gain == Direction(share) * (num - RoundNum(share, num, minTick))
              IN -(Cent \div 2) <= gain /\ gain < Cent * minTick + Cent \div 2
<1>0. Cent = 10 /\ Cent \div 2 = 5
  BY DEF Cent
<1>1. CASE minTick <= 1
  <2>1. RoundNum(share, num, minTick) = num
    BY <1>1 DEF RoundNum
  <2>2. Direction(share) \in Int
    BY Magnitudes
  <2>3. num - num = 0 /\ Direction(share) * 0 = 0
    BY <2>2
  <2> QED
    BY <1>0, <2>1, <2>3
<1>2. CASE ~(minTick <= 1)
  <2> DEFINE inum == (num + 5) \div 10
             fac  == inum \div minTick
             r    == inum % minTick
  <2>1. /\ inum \in Nat /\ num + 5 = 10 * inum + ((num + 5) % 10) /\ (num + 5) % 10 \in 0 .. 9
    BY Divide
  <2> HIDE DEF inum
  <2>2. fac \in Nat /\ r \in 0 .. minTick - 1 /\ inum = minTick * fac + r
    <3>1. minTick \in Nat \ {0}
      BY <1>2
    <3> QED
      BY <2>1, <3>1, Divide
  <2> HIDE DEF fac, r
  <2>3. RoundNum(share, num, minTick) =
          10 * (IF r = 0 THEN inum ELSE IF share < 0 THEN (fac + 1) * minTick ELSE fac * minTick)
    BY <1>0, <1>2 DEF RoundNum, inum, fac, r
  <2>4. (fac + 1) * minTick = inum - r + minTick /\ fac * minTick = inum - r
    BY <2>1, <2>2
  <2>5. RoundNum(share, num, minTick) =
          10 * (IF r = 0 THEN inum ELSE IF share < 0 THEN inum - r + minTick ELSE inum - r)
    BY <2>3, <2>4
  <2>6. fac * minTick \in Nat
    BY <2>2
  <2>7. RoundNum(share, num, minTick) \in Nat
    BY <2>1, <2>2, <2>4, <2>5, <2>6
  <2>8. CASE share > 0
    <3>1. Direction(share) = 1
      BY <2>8, Magnitudes
    <3>2. Direction(share) * (num - RoundNum(share, num, minTick))
            = num - RoundNum(share, num, minTick)
      BY <2>7, <3>1
    <3>3. -5 <= num - RoundNum(share, num, minTick) /\ num - RoundNum(share, num, minTick) < 10 * minTick + 5
      BY <2>1, <2>2, <2>5, <2>7, <2>8
    <3> QED
      BY <2>7, <3>2, <3>3 DEF Cent
  <2>9. CASE share < 0
    <3>1. Direction(share) = -1
      BY <2>9, Magnitudes
    <3>2. Direction(share) * (num - RoundNum(share, num, minTick))
            = RoundNum(share, num, minTick) - num
      BY <2>7, <3>1
    <3>3. -5 <= RoundNum(share, num, minTick) - num /\ RoundNum(share, num, minTick) - num < 10 * minTick + 5
      BY <2>1, <2>2, <2>5, <2>7, <2>9
    <3> QED
      BY <2>7, <3>2, <3>3 DEF Cent
  <2> QED
    BY <2>7, <2>8, <2>9
<1> QED
  BY <1>1, <1>2

\* A hedge leaves less than a round lot of the exposure, on its side.
LEMMA HedgeQtyLeaves ==
  ASSUME NEW exposure \in Int, NEW close \in Nat \ {0}
  PROVE  /\ HedgeQty(exposure, close) \in Int
         /\ Direction(exposure) * (exposure + HedgeQty(exposure, close) * close)
              \in 0 .. 100 * close - 1
<1> DEFINE m == Magnitude(exposure)
           q == m \div (100 * close)
           d == Direction(exposure)
<1>1. m \in Nat /\ d \in {1, -1} /\ exposure = d * m
  BY Magnitudes
<1> HIDE DEF m, d
<1>2. 100 * close \in Nat \ {0}
  OBVIOUS
<1>3. q \in Nat /\ m % (100 * close) \in 0 .. 100 * close - 1 /\ m = (100 * close) * q + (m % (100 * close))
  BY <1>1, <1>2, Divide
<1> HIDE DEF q
<1>4. HedgeQty(exposure, close) = -d * 100 * q
  BY DEF HedgeQty, q, m, d
<1>5. PICK r \in 0 .. 100 * close - 1 : m = (100 * close) * q + r
  BY <1>3
<1>6. CASE d = 1
  <2>1. exposure = m /\ HedgeQty(exposure, close) = -(100 * q)
    BY <1>1, <1>3, <1>4, <1>6
  <2>2. (-(100 * q)) * close = -((100 * close) * q)
    BY <1>3
  <2>3. exposure + HedgeQty(exposure, close) * close = r
    BY <1>1, <1>3, <1>5, <2>1, <2>2
  <2> QED
    BY <1>3, <1>5, <1>6, <2>1, <2>3 DEF d
<1>7. CASE d = -1
  <2>1. exposure = -m /\ HedgeQty(exposure, close) = 100 * q
    BY <1>1, <1>3, <1>4, <1>7
  <2>2. (100 * q) * close = (100 * close) * q
    BY <1>3
  <2>3. exposure + HedgeQty(exposure, close) * close = -r
    BY <1>1, <1>3, <1>5, <2>1, <2>2
  <2> QED
    BY <1>3, <1>5, <1>7, <2>1, <2>3 DEF d
<1> QED
  BY <1>1, <1>6, <1>7

\* An order on the side of its score.
Sided(qty, score) == IF score > 0 THEN qty >= 0 ELSE qty <= 0

\* Rounding down to tens takes less than ten.
LEMMA TensOf ==
  ASSUME NEW x \in Nat
  PROVE  Tens(x) \in Nat /\ Tens(x) <= x /\ x < Tens(x) + 10
<1>1. x \div 10 \in Nat /\ x % 10 \in 0 .. 9 /\ x = 10 * (x \div 10) + (x % 10)
  BY Divide
<1> QED
  BY <1>1 DEF Tens

\* A quantity scaled by num / den is on the same side and no more than num / den of it.
LEMMA ScaledQty ==
  ASSUME NEW qty \in Int, NEW num \in Nat, NEW den \in Nat \ {0}
  PROVE  LET scaled == Direction(qty) * Tens((Magnitude(qty) * num) \div den)
         IN /\ scaled \in Int
            /\ qty > 0 => scaled >= 0
            /\ qty <= 0 => scaled <= 0
            /\ den * Magnitude(scaled) <= num * Magnitude(qty)
<1> DEFINE m == Magnitude(qty)
           p == m * num
           x == p \div den
           t == Tens(x)
           scaled == Direction(qty) * t
<1>1. m \in Nat /\ Direction(qty) \in {1, -1}
  BY Magnitudes
<1> HIDE DEF m
<1>2. p \in Nat /\ p = num * m
  BY <1>1
<1> HIDE DEF p
<1>3. x \in Nat /\ p % den \in 0 .. den - 1 /\ p = den * x + (p % den)
  BY <1>2, Divide
<1> HIDE DEF x
<1>4. t \in Nat /\ t <= x
  BY <1>3, TensOf
<1> HIDE DEF t
<1>5. /\ scaled \in Int /\ Magnitude(scaled) = t
      /\ qty > 0 => scaled >= 0
      /\ qty <= 0 => scaled <= 0
  BY <1>1, <1>4, Magnitudes DEF Magnitude
<1>6. den * t <= den * x
  BY <1>3, <1>4
<1>7. den * t <= num * m
  <2>1. den * t \in Int /\ den * x \in Int
    BY <1>3, <1>4
  <2> QED
    BY <1>2, <1>3, <1>6, <2>1
<1> QED
  BY <1>5, <1>7 DEF t, x, p, m

-----------------------------------------------------------------------------
(* The value of a list of orders.                                          *)

\* The orders of genOrder.
Order == [ticker : STRING, price : Nat, qty : Int, spx : Nat, rut : Nat, dmv : Nat]

Stocks(s)     == [i \in DOMAIN s |-> s[i].price * Magnitude(s[i].qty)]
ExposedSpx(s) == [i \in DOMAIN s |-> s[i].qty * s[i].price * s[i].spx]
ExposedRut(s) == [i \in DOMAIN s |-> s[i].qty * s[i].price * s[i].rut]

\* What an order adds to the value of a list, if the exposures of the list are on the
\* sides a and b.
Adds(o, a, b) ==
  o.price * Magnitude(o.qty) + a * (o.qty * o.price * o.spx) + b * (o.qty * o.price * o.rut)

\* The value and the exposure of a list are sums over its orders.
LEMMA ValuesAreSums ==
  ASSUME NEW s
  PROVE  /\ StockValue(s) = SumOf(Stocks(s))
         /\ OrderHedgeCal(s) = [spx |-> SumOf(ExposedSpx(s)), rut |-> SumOf(ExposedRut(s))]
BY DEF StockValue, OrderHedgeCal, Total, MapSeq, Stocks, ExposedSpx, ExposedRut

LEMMA OrderValues ==
  ASSUME NEW o \in Order
  PROVE  /\ o.price * Magnitude(o.qty) \in Nat
         /\ o.qty * o.price * o.spx \in Int /\ o.qty * o.price * o.rut \in Int
<1>1. o.price \in Nat /\ o.qty \in Int /\ o.spx \in Nat /\ o.rut \in Nat
  BY DEF Order
<1>2. Magnitude(o.qty) \in Nat
  BY <1>1, Magnitudes
<1> QED
  BY <1>1, <1>2

LEMMA ValueTypes ==
  ASSUME NEW s \in Seq(Order)
  PROVE  /\ Len(s) \in Nat /\ DOMAIN s = 1 .. Len(s) /\ \A i \in 1 .. Len(s) : s[i] \in Order
         /\ Stocks(s) \in [1 .. Len(s) -> Int]
         /\ ExposedSpx(s) \in [1 .. Len(s) -> Int] /\ ExposedRut(s) \in [1 .. Len(s) -> Int]
         /\ StockValue(s) \in Int
         /\ OrderHedgeCal(s).spx \in Int /\ OrderHedgeCal(s).rut \in Int
<1>1. Len(s) \in Nat /\ DOMAIN s = 1 .. Len(s) /\ \A i \in 1 .. Len(s) : s[i] \in Order
  BY LenProperties, ElementOfSeq
<1>2. Stocks(s) \in [1 .. Len(s) -> Int]
  BY <1>1, OrderValues DEF Stocks
<1>3. ExposedSpx(s) \in [1 .. Len(s) -> Int]
  BY <1>1, OrderValues DEF ExposedSpx
<1>4. ExposedRut(s) \in [1 .. Len(s) -> Int]
  BY <1>1, OrderValues DEF ExposedRut
<1>5. SumOf(Stocks(s)) \in Int
  BY <1>1, <1>2, SumType
<1>6. SumOf(ExposedSpx(s)) \in Int
  BY <1>1, <1>3, SumType
<1>7. SumOf(ExposedRut(s)) \in Int
  BY <1>1, <1>4, SumType
<1> QED
  BY <1>1, <1>2, <1>3, <1>4, <1>5, <1>6, <1>7, ValuesAreSums

\* Nothing is worth nothing.
LEMMA ValueOfNone ==
  /\ StockValue(<<>>) = 0
  /\ OrderHedgeCal(<<>>).spx = 0 /\ OrderHedgeCal(<<>>).rut = 0
<1>1. /\ Stocks(<<>>) \in [1 .. 0 -> Int]
      /\ ExposedSpx(<<>>) \in [1 .. 0 -> Int] /\ ExposedRut(<<>>) \in [1 .. 0 -> Int]
  BY DEF Stocks, ExposedSpx, ExposedRut
<1>2. SumOf(Stocks(<<>>)) = 0
  BY <1>1, SumType
<1>3. SumOf(ExposedSpx(<<>>)) = 0
  BY <1>1, SumType
<1>4. SumOf(ExposedRut(<<>>)) = 0
  BY <1>1, SumType
<1> QED
  BY <1>2, <1>3, <1>4, ValuesAreSums

\* The last order takes its part of the values with it.
LEMMA ValueOfFront ==
  ASSUME NEW s \in Seq(Order), s # <<>>
  PROVE  LET o == Last(s)
         IN /\ Front(s) \in Seq(Order) /\ o \in Order
            /\ Len(Front(s)) = Len(s) - 1 /\ \A i \in 1 .. Len(s) - 1 : Front(s)[i] = s[i]
            /\ StockValue(Front(s)) = StockValue(s) - o.price * Magnitude(o.qty)
            /\ OrderHedgeCal(Front(s)).spx = OrderHedgeCal(s).spx - o.price * o.qty * o.spx
            /\ OrderHedgeCal(Front(s)).rut = OrderHedgeCal(s).rut - o.price * o.qty * o.rut
<1>1. PICK n \in Nat : Len(s) = n + 1
  <2>1. PICK m \in Nat : m = Len(s) /\ m # 0
    BY EmptySeq, LenProperties
  <2>2. m - 1 \in Nat /\ m = (m - 1) + 1
    BY ONLY <2>1, m \in Nat
  <2> QED
    BY <2>1, <2>2, Zenon
<1> DEFINE f == Front(s)
           o == Last(s)
<1>2. /\ f \in Seq(Order) /\ Len(f) = n
      /\ \A i \in 1 .. n : f[i] = s[i]
  BY <1>1, SubSeqProperties DEF Front
<1>3. o \in Order /\ o = s[n + 1]
  <2>1. n + 1 \in 1 .. Len(s)
    BY <1>1
  <2> QED
    BY <1>1, <2>1, ElementOfSeq DEF Last
<1> HIDE DEF f, o
<1>4. /\ Stocks(s) \in [1 .. n + 1 -> Int]
      /\ ExposedSpx(s) \in [1 .. n + 1 -> Int] /\ ExposedRut(s) \in [1 .. n + 1 -> Int]
  BY <1>1, ValueTypes
<1>5. DOMAIN f = 1 .. n /\ DOMAIN s = 1 .. n + 1
  BY <1>1, <1>2, LenProperties
<1>6. /\ Stocks(f) = [k \in 1 .. n |-> Stocks(s)[k]]
      /\ ExposedSpx(f) = [k \in 1 .. n |-> ExposedSpx(s)[k]]
      /\ ExposedRut(f) = [k \in 1 .. n |-> ExposedRut(s)[k]]
  BY <1>2, <1>5 DEF Stocks, ExposedSpx, ExposedRut
<1>7. n + 1 \in 1 .. n + 1
  OBVIOUS
<1>8. /\ Stocks(s)[n + 1] = o.price * Magnitude(o.qty)
      /\ ExposedSpx(s)[n + 1] = o.qty * o.price * o.spx
      /\ ExposedRut(s)[n + 1] = o.qty * o.price * o.rut
  BY <1>3, <1>5, <1>7 DEF Stocks, ExposedSpx, ExposedRut
<1>9. /\ SumOf(Stocks(s)) = SumOf(Stocks(f)) + o.price * Magnitude(o.qty)
  BY <1>4, <1>6, <1>8, SumLast
<1>10. SumOf(ExposedSpx(s)) = SumOf(ExposedSpx(f)) + o.qty * o.price * o.spx
  BY <1>4, <1>6, <1>8, SumLast
<1>11. SumOf(ExposedRut(s)) = SumOf(ExposedRut(f)) + o.qty * o.price * o.rut
  BY <1>4, <1>6, <1>8, SumLast
<1>12. /\ SumOf(Stocks(f)) \in Int /\ SumOf(ExposedSpx(f)) \in Int
       /\ SumOf(ExposedRut(f)) \in Int
  BY <1>2, ValueTypes, ValuesAreSums
<1>13. /\ o.price * Magnitude(o.qty) \in Int
       /\ o.qty * o.price * o.spx \in Int /\ o.qty * o.price * o.rut \in Int
  BY <1>3, OrderValues
<1>14. o.price * o.qty * o.spx = o.qty * o.price * o.spx /\ o.price * o.qty * o.rut = o.qty * o.price * o.rut
  <2>1. PICK p \in Nat, q \in Int : p = o.price /\ q = o.qty
    BY <1>3 DEF Order
  <2>2. p * q = q * p
    OBVIOUS
  <2> QED
    BY <2>1, <2>2, Zenon
<1>15. StockValue(f) = StockValue(s) - o.price * Magnitude(o.qty)
  BY <1>9, <1>12, <1>13, ValuesAreSums
<1>16. OrderHedgeCal(f).spx = OrderHedgeCal(s).spx - o.price * o.qty * o.spx
  BY <1>10, <1>12, <1>13, <1>14, ValuesAreSums
<1>17. OrderHedgeCal(f).rut = OrderHedgeCal(s).rut - o.price * o.qty * o.rut
  BY <1>11, <1>12, <1>13, <1>14, ValuesAreSums
<1> QED
  BY <1>1, <1>2, <1>3, <1>15, <1>16, <1>17 DEF f, o

\* The value of a list is the largest of what its orders add, over the sides of the
\* two exposures.
LEMMA SignedValue ==
  ASSUME NEW s \in Seq(Order), NEW a \in {1, -1}, NEW b \in {1, -1}
  PROVE  /\ [i \in 1 .. Len(s) |-> Adds(s[i], a, b)] \in [1 .. Len(s) -> Int]
         /\ SumOf([i \in 1 .. Len(s) |-> Adds(s[i], a, b)])
              = StockValue(s) + a * OrderHedgeCal(s).spx + b * OrderHedgeCal(s).rut
<1>1. PICK n \in Nat : n = Len(s)
  BY ValueTypes
<1>2. PICK v \in [1 .. n -> Int], x \in [1 .. n -> Int], y \in [1 .. n -> Int] :
        v = Stocks(s) /\ x = ExposedSpx(s) /\ y = ExposedRut(s)
  BY <1>1, ValueTypes
<1> DEFINE vx == [k \in 1 .. n |-> v[k] + a * x[k]]
           vxy == [k \in 1 .. n |-> vx[k] + b * y[k]]
<1>3. a \in Int /\ b \in Int
  OBVIOUS
<1>4. vx \in [1 .. n -> Int]
  BY <1>3
<1>5. SumOf(vx) = SumOf(v) + a * SumOf(x)
  BY <1>3, SumPlus
<1>6. SumOf(vxy) = SumOf(vx) + b * SumOf(y)
  <2> HIDE DEF vx
  <2> QED
    BY <1>3, <1>4, SumPlus
<1>8. vxy = [i \in 1 .. n |-> Adds(s[i], a, b)]
  <2>1. DOMAIN s = 1 .. n
    BY <1>1, ValueTypes
  <2>2. ASSUME NEW i \in 1 .. n
        PROVE  Adds(s[i], a, b) = (v[i] + a * x[i]) + b * y[i]
    <3>1. v[i] = s[i].price * Magnitude(s[i].qty)
      BY <1>2, <2>1 DEF Stocks
    <3>2. x[i] = s[i].qty * s[i].price * s[i].spx
      BY <1>2, <2>1 DEF ExposedSpx
    <3>3. y[i] = s[i].qty * s[i].price * s[i].rut
      BY <1>2, <2>1 DEF ExposedRut
    <3> QED
      BY <3>1, <3>2, <3>3, Zenon DEF Adds
  <2> QED
    BY <2>2, Zenon
<1>9. vxy \in [1 .. n -> Int]
  <2> HIDE DEF vx
  <2> QED
    BY <1>3, <1>4
<1>10. SumOf(vxy) = SumOf(v) + a * SumOf(x) + b * SumOf(y)
  <2> HIDE DEF vxy, vx
  <2> QED
    BY <1>5, <1>6
<1>11. SumOf(v) = StockValue(s) /\ SumOf(x) = OrderHedgeCal(s).spx /\ SumOf(y) = OrderHedgeCal(s).rut
  BY <1>2, ValuesAreSums
<1> HIDE DEF vxy
<1> QED
  BY <1>1, <1>8, <1>9, <1>10, <1>11

\* A limit on the value with its hedges, without absolute values.
LEMMA ValueBound ==
  ASSUME NEW stock \in Int, NEW e, e.spx \in Int, e.rut \in Int, NEW x \in Int
  PROVE  /\ TradeValue(stock, e) \in Int
         /\ TradeValue(stock, e) <= x <=>
              \A a, b \in {1, -1} : stock + a * e.spx + b * e.rut <= x
BY DEF TradeValue, Magnitude

\* Less of every order that hedges no more than its own value adds less.
LEMMA ScaledAdds ==
  ASSUME NEW p \in Nat, NEW q \in Int, NEW r \in Int, NEW spx \in Nat, NEW rut \in Nat,
         NEW num \in Nat, NEW den \in Nat \ {0}, NEW a \in {1, -1}, NEW b \in {1, -1},
         spx + rut <= 1, q > 0 => r >= 0, q <= 0 => r <= 0,
         den * Magnitude(r) <= num * Magnitude(q)
  PROVE  den * (p * Magnitude(r) + a * (r * p * spx) + b * (r * p * rut))
           <= num * (p * Magnitude(q) + a * (q * p * spx) + b * (q * p * rut))
<1>1. PICK m \in Nat, l \in Nat : m = p * Magnitude(q) /\ l = p * Magnitude(r)
  <2>1. p * Magnitude(q) \in Nat /\ p * Magnitude(r) \in Nat
    BY Magnitudes
  <2> QED
    BY <2>1
<1>2. den * l <= num * m
  <2>1. PICK x \in Nat, y \in Nat : x = Magnitude(q) /\ y = Magnitude(r)
    BY Magnitudes
  <2>2. den * y <= num * x
    BY <2>1
  <2>3. p * (den * y) <= p * (num * x)
    BY <2>2
  <2>4. p * (den * y) = den * (p * y) /\ p * (num * x) = num * (p * x)
    OBVIOUS
  <2> QED
    BY <1>1, <2>1, <2>3, <2>4
<1>3. PICK d \in {1, -1} : q * p = d * m /\ r * p = d * l
  <2>1. CASE q > 0
    <3>1. Magnitude(q) = q /\ Magnitude(r) = r
      BY <2>1 DEF Magnitude
    <3> QED
      BY <1>1, <3>1
  <2>2. CASE q <= 0
    <3>1. Magnitude(q) = -q /\ Magnitude(r) = -r
      BY <2>2 DEF Magnitude
    <3> QED
      BY <1>1, <3>1
  <2> QED
    BY <2>1, <2>2
<1>4. spx \in {0, 1} /\ rut \in {0, 1} /\ (spx = 0 \/ rut = 0)
  OBVIOUS
<1>5. PICK c \in {0, 1, 2} : /\ l + a * (d * l * spx) + b * (d * l * rut) = c * l
                             /\ m + a * (d * m * spx) + b * (d * m * rut) = c * m
  <2>1. CASE spx = 0 /\ rut = 0
    BY <2>1
  <2>2. CASE spx = 1 /\ rut = 0
    BY <2>2
  <2>3. CASE spx = 0 /\ rut = 1
    BY <2>3
  <2> QED
    BY <1>4, <2>1, <2>2, <2>3
<1>6. den * (c * l) <= num * (c * m)
  <2>1. CASE c = 0
    BY <2>1
  <2>2. CASE c = 1
    BY <1>2, <2>2
  <2>3. CASE c = 2
    <3>1. den * (2 * l) = 2 * (den * l) /\ num * (2 * m) = 2 * (num * m)
      OBVIOUS
    <3> QED
      BY <1>2, <2>3, <3>1
  <2> QED
    BY <2>1, <2>2, <2>3
<1> QED
  BY <1>1, <1>3, <1>5, <1>6

-----------------------------------------------------------------------------
(* The orders of a file.                                                   *)

\* Every order is of a row of the file, no two of one row, on the side of its score
\* and with its weights.
FromFile(file, orders) ==
  /\ orders \in Seq(Order)
  /\ \A i, j \in DOMAIN orders : orders[i].ticker = orders[j].ticker => i = j
  /\ \A i \in DOMAIN orders :
       /\ orders[i].ticker \in TickersOf(file)
       /\ \A j \in DOMAIN file : file[j].ticker = orders[i].ticker =>
            /\ Sided(orders[i].qty, file[j].score)
            /\ orders[i].spx = file[j].spx /\ orders[i].rut = file[j].rut

\* The orders have the limit prices of the file.
AtFilePrice(file, orders) ==
  \A i \in DOMAIN orders : \A j \in DOMAIN file :
    file[j].ticker = orders[i].ticker => orders[i].price = file[j].lmtPrice

\* Orders with their hedges are not worth less than nothing.
LEMMA ValueNotNegative ==
  ASSUME NEW orders \in Seq(Order)
  PROVE  TradeValue(StockValue(orders), OrderHedgeCal(orders)) >= 0
<1>1. PICK n \in Nat : n = Len(orders) /\ DOMAIN orders = 1 .. n /\ \A i \in 1 .. n : orders[i] \in Order
  BY ValueTypes
<1>2. /\ Stocks(orders) \in [1 .. n -> Int] /\ StockValue(orders) = SumOf(Stocks(orders))
      /\ OrderHedgeCal(orders).spx \in Int /\ OrderHedgeCal(orders).rut \in Int
  BY <1>1, ValueTypes, ValuesAreSums
<1>3. ASSUME NEW i \in 1 .. n
      PROVE  Stocks(orders)[i] >= 0
  <2>1. orders[i].price \in Nat /\ orders[i].qty \in Int
    BY <1>1 DEF Order
  <2>2. Magnitude(orders[i].qty) \in Nat
    BY <2>1 DEF Magnitude
  <2>3. orders[i].price * Magnitude(orders[i].qty) >= 0
    BY <2>1, <2>2
  <2> QED
    BY <1>1, <2>3 DEF Stocks
<1>4. StockValue(orders) \in Nat
  BY <1>2, <1>3, SumOfNaturals
<1> QED
  BY <1>2, <1>4 DEF TradeValue, Magnitude

\* The rows are rows of the file, none of them twice.
RowsOfFile(rows) ==
  /\ rows \in Seq(Signals)
  /\ \E g : Picks(g, rows, csv, 1 .. Len(csv), Len(csv))

\* genOrder buys what scores above 0 and sells the rest.
LEMMA SharesSided ==
  ASSUME NEW row \in Signals, NEW budget \in Nat, NEW maxPer \in Nat
  PROVE  /\ Shares(row, budget, maxPer) \in Int
         /\ Sided(Shares(row, budget, maxPer), row.score)
<1>1. row.score \in Int /\ row.price \in Nat \ {0} /\ row.dmv \in Nat
  BY DEF Signals
<1> DEFINE x == budget \div (10 * row.price)
           y == (maxPer * row.dmv) \div 100000
<1>2. x \in Nat
  <2>1. 10 * row.price \in Nat \ {0}
    BY <1>1
  <2> QED
    BY <2>1, Divide
<1>3. y \in Nat
  <2>1. maxPer * row.dmv \in Nat
    BY <1>1
  <2> QED
    BY <2>1, Divide
<1> HIDE DEF x, y
<1>4. PICK l \in Nat : l = Lower(x, y)
  BY <1>2, <1>3 DEF Lower
<1>5. Shares(row, budget, maxPer) =
        IF Magnitude(row.score) < 30 THEN 0 ELSE Direction(row.score) * 10 * l
  BY <1>4 DEF Shares, x, y
<1>6. CASE row.score > 0
  <2>1. Direction(row.score) = 1
    BY <1>6 DEF Direction
  <2>2. Shares(row, budget, maxPer) \in {0, 10 * l}
    BY <1>5, <2>1
  <2> QED
    BY <1>6, <2>2 DEF Sided
<1>7. CASE ~(row.score > 0)
  <2>1. Direction(row.score) = -1
    BY <1>7 DEF Direction
  <2>2. Direction(row.score) * 10 = -10 /\ -10 * l = 0 - 10 * l
    BY <2>1
  <2>3. Shares(row, budget, maxPer) = 0 \/ Shares(row, budget, maxPer) = 0 - 10 * l
    BY <1>5, <2>2
  <2> QED
    BY <1>7, <2>3 DEF Sided
<1> QED
  BY <1>6, <1>7

\* What a choice of elements keeps.
LEMMA ChosenElements ==
  ASSUME NEW S, NEW s \in Seq(S), NEW K, NEW c, c = Chosen(s, K)
  PROVE  c \in Seq(S) /\ \E f : Picks(f, c, s, K, Len(s))
BY ChosenFacts, Zenon DEF Holds

\* Sorting the rows of a file loses none and doubles none.
LEMMA SortedRows ==
  ASSUME csv \in Seq(Signals), NEW sorted \in Sortings(csv)
  PROVE  RowsOfFile(sorted)
<1>1. PICK n \in Nat : n = Len(csv)
  BY LenProperties
<1>2. PICK p \in Injection(1 .. n, 1 .. n) : sorted = [i \in 1 .. n |-> csv[p[i]]]
  BY <1>1 DEF Sortings
<1>3. p \in [1 .. n -> 1 .. n] /\ \A i, j \in 1 .. n : p[i] = p[j] => i = j
  BY <1>2 DEF Injection, IsInjective
<1>4. \A i \in 1 .. n : csv[i] \in Signals
  BY <1>1, ElementOfSeq
<1>5. sorted \in [1 .. n -> Signals]
  BY <1>2, <1>3, <1>4
<1>6. sorted \in Seq(Signals) /\ Len(sorted) = n
  BY <1>5, LenOf
<1>7. \A i \in 1 .. n : p[i] \in 1 .. n /\ sorted[i] = csv[p[i]]
  BY <1>2, <1>3
<1>8. Picks(p, sorted, csv, 1 .. n, n)
  BY <1>3, <1>6, <1>7, Zenon DEF Picks
<1> QED
  BY <1>1, <1>6, <1>8, Zenon DEF RowsOfFile

\* The rows that genOrder keeps are rows of the file.
LEMMA TradedRows ==
  ASSUME csv \in Seq(Signals), NEW sorted, RowsOfFile(sorted), NEW budget, NEW maxPer
  PROVE  RowsOfFile(Traded(sorted, budget, maxPer))
<1> DEFINE K == {i \in DOMAIN sorted : Shares(sorted[i], budget, maxPer) # 0
                                         /\ sorted[i].price >= 3 * Dollar}
           rows == Traded(sorted, budget, maxPer)
<1>1. sorted \in Seq(Signals) /\ rows = Chosen(sorted, K)
  BY DEF Traded, Where, RowsOfFile
<1> HIDE DEF K, rows
<1>2. rows \in Seq(Signals) /\ \E f : Picks(f, rows, sorted, K, Len(sorted))
  BY <1>1, ChosenElements, Zenon
<1>3. PICK f \in [1 .. Len(rows) -> 1 .. Len(sorted)] :
           /\ \A i, j \in 1 .. Len(rows) : f[i] = f[j] => i = j
           /\ \A i \in 1 .. Len(rows) : rows[i] = sorted[f[i]]
  BY <1>2, Zenon DEF Picks
<1>4. PICK g \in [1 .. Len(sorted) -> 1 .. Len(csv)] :
           /\ \A i, j \in 1 .. Len(sorted) : g[i] = g[j] => i = j
           /\ \A i \in 1 .. Len(sorted) : sorted[i] = csv[g[i]]
  BY DEF RowsOfFile, Picks
<1> DEFINE h == [i \in 1 .. Len(rows) |-> g[f[i]]]
<1>5. h \in [1 .. Len(rows) -> 1 .. Len(csv)]
  OBVIOUS
<1>6. \A i, j \in 1 .. Len(rows) : h[i] = h[j] => i = j
  BY <1>3, <1>4
<1>7. \A i \in 1 .. Len(rows) : rows[i] = csv[h[i]]
  BY <1>3, <1>4
<1>8. \A i \in 1 .. Len(rows) : h[i] \in 1 .. Len(csv)
  BY <1>5
<1> HIDE DEF h
<1>9. Picks(h, rows, csv, 1 .. Len(csv), Len(csv))
  BY <1>5, <1>6, <1>7, <1>8, Zenon DEF Picks
<1> QED
  BY <1>2, <1>9, Zenon DEF RowsOfFile, rows

\* A file has one row for a ticker.
OneRow == \A i, j \in DOMAIN csv : csv[i].ticker = csv[j].ticker => i = j

\* The orders that genOrder sizes are those of the file, at its prices.
LEMMA SizedFromFile ==
  ASSUME csv \in Seq(Signals), OneRow, NEW rows, RowsOfFile(rows),
         NEW budget \in Nat, NEW maxPer \in Nat
  PROVE  LET orders == SizedOrders(rows, budget, maxPer)
         IN /\ FromFile(csv, orders) /\ AtFilePrice(csv, orders)
            /\ Len(orders) = Len(rows) /\ DOMAIN rows = 1 .. Len(rows)
<1> DEFINE orders == SizedOrders(rows, budget, maxPer)
<1>1. PICK n \in Nat : n = Len(rows) /\ DOMAIN rows = 1 .. n /\ \A i \in 1 .. n : rows[i] \in Signals
  BY LenProperties, ElementOfSeq DEF RowsOfFile
<1>2. PICK g \in [1 .. n -> DOMAIN csv] :
        /\ \A i, j \in 1 .. n : g[i] = g[j] => i = j
        /\ \A i \in 1 .. n : rows[i] = csv[g[i]]
  <2>1. PICK g : Picks(g, rows, csv, 1 .. Len(csv), Len(csv))
    BY DEF RowsOfFile
  <2>2. DOMAIN csv = 1 .. Len(csv)
    BY LenProperties
  <2> QED
    BY <1>1, <2>1, <2>2, Zenon DEF Picks
<1>3. orders = [i \in 1 .. n |->
                  [ticker |-> rows[i].ticker, price |-> rows[i].lmtPrice,
                   qty |-> Shares(rows[i], budget, maxPer),
                   spx |-> rows[i].spx, rut |-> rows[i].rut, dmv |-> rows[i].dmv]]
  BY <1>1 DEF SizedOrders, MapSeq
<1> HIDE DEF orders
<1>4. ASSUME NEW i \in 1 .. n
      PROVE  /\ orders[i] \in Order
             /\ orders[i].ticker = csv[g[i]].ticker /\ orders[i].price = csv[g[i]].lmtPrice
             /\ orders[i].spx = csv[g[i]].spx /\ orders[i].rut = csv[g[i]].rut
             /\ Sided(orders[i].qty, csv[g[i]].score)
  <2>1. rows[i] \in Signals /\ rows[i] = csv[g[i]]
    BY <1>1, <1>2
  <2>2. Shares(rows[i], budget, maxPer) \in Int /\ Sided(Shares(rows[i], budget, maxPer), rows[i].score)
    BY <2>1, SharesSided
  <2>3. /\ rows[i].ticker \in STRING /\ rows[i].lmtPrice \in Nat
        /\ rows[i].spx \in Nat /\ rows[i].rut \in Nat /\ rows[i].dmv \in Nat
    BY <2>1 DEF Signals
  <2>4. orders[i] \in Order
    BY <1>3, <2>2, <2>3 DEF Order
  <2>5. /\ orders[i].ticker = rows[i].ticker /\ orders[i].price = rows[i].lmtPrice
        /\ orders[i].spx = rows[i].spx /\ orders[i].rut = rows[i].rut
        /\ orders[i].qty = Shares(rows[i], budget, maxPer)
    BY <1>3
  <2> QED
    BY <2>1, <2>2, <2>4, <2>5
<1>5. orders \in [1 .. n -> Order]
  BY <1>3, <1>4
<1>6. orders \in Seq(Order) /\ Len(orders) = n /\ DOMAIN orders = 1 .. n
  BY <1>5, LenOf
<1>7. \A i, j \in 1 .. n : orders[i].ticker = orders[j].ticker => i = j
  BY <1>2, <1>4 DEF OneRow
<1>8. \A i \in 1 .. n : \A j \in DOMAIN csv : csv[j].ticker = orders[i].ticker => j = g[i]
  BY <1>2, <1>4 DEF OneRow
<1>9. \A i \in 1 .. n : orders[i].ticker \in TickersOf(csv)
  <2>1. \A i \in 1 .. n : orders[i].ticker = csv[g[i]].ticker /\ g[i] \in DOMAIN csv
    BY <1>2, <1>4
  <2> QED
    BY <2>1, Zenon DEF TickersOf
<1>10. FromFile(csv, orders)
  <2>1. \A i \in 1 .. n : \A j \in DOMAIN csv : csv[j].ticker = orders[i].ticker =>
          /\ Sided(orders[i].qty, csv[j].score)
          /\ orders[i].spx = csv[j].spx /\ orders[i].rut = csv[j].rut
    BY <1>4, <1>8
  <2> QED
    BY <1>6, <1>7, <1>9, <2>1, Zenon DEF FromFile
<1>11. AtFilePrice(csv, orders)
  BY <1>4, <1>6, <1>8 DEF AtFilePrice
<1> QED
  BY <1>1, <1>6, <1>10, <1>11 DEF orders

\* The same orders with other quantities on their sides, or other prices.
LEMMA ChangedFromFile ==
  ASSUME NEW s, FromFile(csv, s), NEW r, r \in [DOMAIN s -> Order],
         \A i \in DOMAIN s : /\ r[i].ticker = s[i].ticker
                             /\ r[i].spx = s[i].spx /\ r[i].rut = s[i].rut
                             /\ s[i].qty > 0 => r[i].qty >= 0
                             /\ s[i].qty < 0 => r[i].qty <= 0
                             /\ s[i].qty = 0 => r[i].qty = 0
  PROVE  /\ FromFile(csv, r) /\ Len(r) = Len(s) /\ DOMAIN r = DOMAIN s
         /\ AtFilePrice(csv, s) /\ (\A i \in DOMAIN s : r[i].price = s[i].price) => AtFilePrice(csv, r)
<1>1. PICK n \in Nat : DOMAIN s = 1 .. n /\ n = Len(s)
  BY LenProperties DEF FromFile
<1>2. r \in Seq(Order) /\ Len(r) = n /\ DOMAIN r = 1 .. n
  BY <1>1, LenOf
<1>3. \A i \in 1 .. n : s[i].qty \in Int /\ r[i].qty \in Int
  <2>1. \A i \in 1 .. n : s[i] \in Order
    BY <1>1, ElementOfSeq DEF FromFile
  <2>2. \A i \in 1 .. n : r[i] \in Order
    BY <1>1
  <2> QED
    BY <2>1, <2>2 DEF Order
<1>4. ASSUME NEW i \in 1 .. n, NEW j \in DOMAIN csv, csv[j].ticker = r[i].ticker
      PROVE  /\ Sided(r[i].qty, csv[j].score)
             /\ r[i].spx = csv[j].spx /\ r[i].rut = csv[j].rut
  <2>1. /\ Sided(s[i].qty, csv[j].score)
        /\ s[i].spx = csv[j].spx /\ s[i].rut = csv[j].rut
    BY <1>1, <1>4 DEF FromFile
  <2> QED
    BY <1>1, <1>3, <2>1 DEF Sided
<1>5. \A i, j \in DOMAIN r : r[i].ticker = r[j].ticker => i = j
  BY <1>1, <1>2 DEF FromFile
<1>6. \A i \in DOMAIN r : r[i].ticker \in TickersOf(csv)
  BY <1>1, <1>2 DEF FromFile
<1>7. FromFile(csv, r)
  BY <1>2, <1>4, <1>5, <1>6 DEF FromFile
<1>8. AtFilePrice(csv, s) /\ (\A i \in DOMAIN s : r[i].price = s[i].price) => AtFilePrice(csv, r)
  BY <1>1, <1>2 DEF AtFilePrice
<1> QED
  BY <1>1, <1>2, <1>7, <1>8

\* They still are when the last is taken off.
LEMMA FrontFromFile ==
  ASSUME NEW s, FromFile(csv, s), s # <<>>
  PROVE  FromFile(csv, Front(s)) /\ (AtFilePrice(csv, s) => AtFilePrice(csv, Front(s)))
<1>1. /\ Front(s) \in Seq(Order) /\ Len(Front(s)) = Len(s) - 1
      /\ \A i \in 1 .. Len(s) - 1 : Front(s)[i] = s[i]
  BY ValueOfFront DEF FromFile
<1>2. /\ Len(s) \in Nat /\ DOMAIN s = 1 .. Len(s) /\ DOMAIN Front(s) = 1 .. Len(s) - 1
      /\ Len(Front(s)) \in Nat
  BY <1>1, LenProperties DEF FromFile
<1>3. \A i \in DOMAIN Front(s) : i \in DOMAIN s /\ Front(s)[i] = s[i]
  BY <1>1, <1>2
<1> QED
  BY <1>1, <1>3 DEF FromFile, AtFilePrice

\* Scaling keeps the orders on their sides, and the value of orders that hedge no more
\* than their own value within the ratio.
LEMMA ScaledFromFile ==
  ASSUME NEW s, FromFile(csv, s), NEW num \in Nat, NEW den \in Nat \ {0}
  PROVE  LET r == Scaled(s, num, den)
         IN /\ FromFile(csv, r) /\ (AtFilePrice(csv, s) => AtFilePrice(csv, r))
            /\ Len(r) = Len(s)
            /\ \A i \in DOMAIN s :
                 /\ r[i] = [s[i] EXCEPT !.qty = r[i].qty]
                 /\ s[i].qty > 0 => r[i].qty >= 0
                 /\ s[i].qty <= 0 => r[i].qty <= 0
                 /\ den * Magnitude(r[i].qty) <= num * Magnitude(s[i].qty)
<1> DEFINE r == Scaled(s, num, den)
           Q(q) == Direction(q) * Tens((Magnitude(q) * num) \div den)
<1>1. /\ s \in Seq(Order) /\ \A i \in DOMAIN s : s[i] \in Order
  BY ElementOfSeq, LenProperties DEF FromFile
<1>2. r = [i \in DOMAIN s |-> [s[i] EXCEPT !.qty = Q(s[i].qty)]]
  BY DEF Scaled, MapSeq
<1> HIDE DEF r
<1>3. ASSUME NEW i \in DOMAIN s
      PROVE  /\ Q(s[i].qty) \in Int
             /\ s[i].qty > 0 => Q(s[i].qty) >= 0
             /\ s[i].qty <= 0 => Q(s[i].qty) <= 0
             /\ den * Magnitude(Q(s[i].qty)) <= num * Magnitude(s[i].qty)
  <2>1. s[i].qty \in Int
    BY <1>1 DEF Order
  <2> QED
    BY <2>1, ScaledQty
<1>4. ASSUME NEW i \in DOMAIN s
      PROVE  Q(s[i].qty) = 0 \/ s[i].qty # 0
  <2>1. CASE s[i].qty = 0
    <3>1. Magnitude(0) * num = 0
      BY DEF Magnitude
    <3>2. 0 \div den = 0
      OBVIOUS
    <3>3. Tens(0) = 0
      BY DEF Tens
    <3> QED
      BY <2>1, <3>1, <3>2, <3>3 DEF Direction
  <2> QED
    BY <2>1
<1> HIDE DEF Q
<1>5. ASSUME NEW i \in DOMAIN s
      PROVE  /\ r[i].qty = Q(s[i].qty) /\ r[i] \in Order
             /\ r[i].ticker = s[i].ticker /\ r[i].price = s[i].price
             /\ r[i].spx = s[i].spx /\ r[i].rut = s[i].rut
             /\ r[i] = [s[i] EXCEPT !.qty = r[i].qty]
  BY <1>1, <1>2, <1>3 DEF Order
<1>6. \A i \in DOMAIN s : s[i].qty \in Int /\ r[i].qty \in Int
  BY <1>1, <1>5 DEF Order
<1>7. r \in [DOMAIN s -> Order]
  BY <1>2, <1>5
<1>8. /\ FromFile(csv, r) /\ Len(r) = Len(s)
      /\ AtFilePrice(csv, s) /\ (\A i \in DOMAIN s : r[i].price = s[i].price) => AtFilePrice(csv, r)
  <2>1. \A i \in DOMAIN s : /\ r[i].ticker = s[i].ticker
                            /\ r[i].spx = s[i].spx /\ r[i].rut = s[i].rut
                            /\ s[i].qty > 0 => r[i].qty >= 0
                            /\ s[i].qty < 0 => r[i].qty <= 0
                            /\ s[i].qty = 0 => r[i].qty = 0
    <3> SUFFICES ASSUME NEW i \in DOMAIN s
                 PROVE  /\ s[i].qty > 0 => r[i].qty >= 0
                        /\ s[i].qty < 0 => r[i].qty <= 0
                        /\ s[i].qty = 0 => r[i].qty = 0
      BY <1>5
    <3>1. s[i].qty \in Int /\ r[i].qty = Q(s[i].qty)
      BY <1>5, <1>6
    <3>2. /\ s[i].qty > 0 => r[i].qty >= 0
          /\ s[i].qty <= 0 => r[i].qty <= 0
      BY <1>3, <3>1
    <3>3. r[i].qty = 0 \/ s[i].qty # 0
      BY <1>4, <3>1
    <3> QED
      BY <3>1, <3>2, <3>3
  <2> QED
    BY <1>7, <2>1, ChangedFromFile
<1>9. \A i \in DOMAIN s :
                 /\ r[i] = [s[i] EXCEPT !.qty = r[i].qty]
                 /\ s[i].qty > 0 => r[i].qty >= 0
                 /\ s[i].qty <= 0 => r[i].qty <= 0
                 /\ den * Magnitude(r[i].qty) <= num * Magnitude(s[i].qty)
  BY <1>3, <1>5
<1> QED
  BY <1>5, <1>8, <1>9 DEF r

\* The value with its hedges is one of four sums without absolute values.
LEMMA ValueIsOne ==
  ASSUME NEW stock \in Int, NEW e, e.spx \in Int, e.rut \in Int
  PROVE  \E a, b \in {1, -1} : TradeValue(stock, e) = stock + a * e.spx + b * e.rut
<1>1. PICK a \in {1, -1} : Magnitude(e.spx) = a * e.spx
  BY DEF Magnitude
<1>2. PICK b \in {1, -1} : Magnitude(e.rut) = b * e.rut
  BY DEF Magnitude
<1> QED
  BY <1>1, <1>2 DEF TradeValue

\* What orders and their hedges cost.
ValueOf(orders) == TradeValue(StockValue(orders), OrderHedgeCal(orders))

LEMMA ScaledValue ==
  ASSUME NEW s \in Seq(Order), NEW r \in Seq(Order), Len(r) = Len(s),
         NEW num \in Nat, NEW den \in Nat \ {0},
         \A i \in 1 .. Len(s) :
           /\ r[i] = [s[i] EXCEPT !.qty = r[i].qty]
           /\ s[i].qty > 0 => r[i].qty >= 0
           /\ s[i].qty <= 0 => r[i].qty <= 0
           /\ den * Magnitude(r[i].qty) <= num * Magnitude(s[i].qty)
           /\ s[i].spx + s[i].rut <= 1
  PROVE  /\ ValueOf(s) \in Int /\ ValueOf(r) \in Int
         /\ den * ValueOf(r) <= num * ValueOf(s)
<1>1. PICK n \in Nat : n = Len(s) /\ n = Len(r)
  BY LenProperties
<1>2. /\ StockValue(s) \in Int /\ OrderHedgeCal(s).spx \in Int /\ OrderHedgeCal(s).rut \in Int
      /\ StockValue(r) \in Int /\ OrderHedgeCal(r).spx \in Int /\ OrderHedgeCal(r).rut \in Int
  BY ValueTypes
<1>3. ValueOf(s) \in Int /\ ValueOf(r) \in Int
  BY <1>2, ValueBound DEF ValueOf
<1>4. PICK a \in {1, -1}, b \in {1, -1} :
        ValueOf(r) = StockValue(r) + a * OrderHedgeCal(r).spx + b * OrderHedgeCal(r).rut
  BY <1>2, ValueIsOne DEF ValueOf
<1>5. StockValue(s) + a * OrderHedgeCal(s).spx + b * OrderHedgeCal(s).rut <= ValueOf(s)
  <2>1. PICK x \in Int : x = ValueOf(s)
    BY <1>3
  <2>2. TradeValue(StockValue(s), OrderHedgeCal(s)) <= x
    BY <2>1 DEF ValueOf
  <2>3. \A c, d \in {1, -1} : StockValue(s) + c * OrderHedgeCal(s).spx + d * OrderHedgeCal(s).rut <= x
    BY <1>2, <2>2, ValueBound
  <2> QED
    BY <2>1, <2>3
<1> DEFINE v == [i \in 1 .. n |-> Adds(s[i], a, b)]
           w == [i \in 1 .. n |-> Adds(r[i], a, b)]
<1>6. /\ v \in [1 .. n -> Int]
      /\ SumOf(v) = StockValue(s) + a * OrderHedgeCal(s).spx + b * OrderHedgeCal(s).rut
  BY <1>1, SignedValue
<1>7. /\ w \in [1 .. n -> Int]
      /\ SumOf(w) = StockValue(r) + a * OrderHedgeCal(r).spx + b * OrderHedgeCal(r).rut
  BY <1>1, SignedValue
<1>8. ASSUME NEW i \in 1 .. n
      PROVE  den * w[i] <= num * v[i]
  <2>1. s[i] \in Order /\ r[i] \in Order
    BY <1>1, ElementOfSeq
  <2>2. /\ r[i].qty \in Int /\ s[i].qty \in Int /\ s[i].price \in Nat
        /\ s[i].spx \in Nat /\ s[i].rut \in Nat
    BY <2>1 DEF Order
  <2>3. r[i].price = s[i].price /\ r[i].spx = s[i].spx /\ r[i].rut = s[i].rut
    <3>1. r[i] = [s[i] EXCEPT !.qty = r[i].qty]
      BY <1>1
    <3> QED
      BY <2>1, <3>1 DEF Order
  <2>4. /\ s[i].qty > 0 => r[i].qty >= 0
        /\ s[i].qty <= 0 => r[i].qty <= 0
        /\ den * Magnitude(r[i].qty) <= num * Magnitude(s[i].qty)
        /\ s[i].spx + s[i].rut <= 1
    BY <1>1
  <2>5. PICK p \in Nat, q \in Int, t \in Int, spx \in Nat, rut \in Nat :
          p = s[i].price /\ q = s[i].qty /\ t = r[i].qty /\ spx = s[i].spx /\ rut = s[i].rut
    BY <2>2
  <2>6. /\ q > 0 => t >= 0
        /\ q <= 0 => t <= 0
        /\ den * Magnitude(t) <= num * Magnitude(q)
        /\ spx + rut <= 1
    BY ONLY <2>4, <2>5, Zenon
  <2>7. den * (p * Magnitude(t) + a * (t * p * spx) + b * (t * p * rut))
           <= num * (p * Magnitude(q) + a * (q * p * spx) + b * (q * p * rut))
    BY ONLY <2>6, ScaledAdds, p \in Nat, q \in Int, t \in Int, spx \in Nat, rut \in Nat,
            num \in Nat, den \in Nat \ {0}, a \in {1, -1}, b \in {1, -1}
  <2> QED
    BY <2>3, <2>5, <2>7, Zenon DEF Adds
<1> HIDE DEF v, w
<1> DEFINE x == [i \in 1 .. n |-> den * w[i]]
           y == [i \in 1 .. n |-> num * v[i]]
<1>9. x \in [1 .. n -> Int] /\ y \in [1 .. n -> Int] /\ \A i \in 1 .. n : x[i] <= y[i]
  BY <1>6, <1>7, <1>8
<1>10. SumOf(x) = den * SumOf(w)
  <2>1. w \in [1 .. n -> Int] /\ den \in Int
    BY <1>7
  <2> QED
    BY ONLY <2>1, n \in Nat, SumTimes
<1>11. SumOf(y) = num * SumOf(v)
  <2>1. v \in [1 .. n -> Int] /\ num \in Int
    BY <1>6
  <2> QED
    BY ONLY <2>1, n \in Nat, SumTimes
<1>12. SumOf(x) <= SumOf(y)
  <2> HIDE DEF x, y
  <2> QED
    BY <1>9, SumLe
<1>13. PICK sv \in Int, sw \in Int, V \in Int :
         sv = SumOf(v) /\ sw = SumOf(w) /\ V = ValueOf(s) /\ sw = ValueOf(r) /\ sv <= V
  BY <1>3, <1>4, <1>5, <1>6, <1>7, SumType
<1>14. den * sw <= num * sv
  <2> HIDE DEF x, y
  <2> QED
    BY ONLY <1>10, <1>11, <1>12, <1>13, Zenon
<1>15. num * sv <= num * V
  <2>1. sv <= V
    BY <1>13
  <2> QED
    BY ONLY <2>1, num \in Nat, sv \in Int, V \in Int
<1>16. den * sw <= num * V
  BY ONLY <1>14, <1>15, den \in Nat, num \in Nat, sw \in Int, sv \in Int, V \in Int
<1> QED
  BY <1>3, <1>13, <1>16, Zenon

\* The value that genOrder compares with the buying power; it is no less than that of
\* the orders if limit prices are not above the prices.
LEMMA SizedValueBound ==
  ASSUME csv \in Seq(Signals), OneRow, NEW rows, RowsOfFile(rows),
         NEW budget \in Nat, NEW maxPer \in Nat
  PROVE  /\ SizedValue(rows, budget, maxPer) \in Nat
         /\ Moderate => ValueOf(SizedOrders(rows, budget, maxPer)) <= SizedValue(rows, budget, maxPer)
<1> DEFINE s == SizedOrders(rows, budget, maxPer)
           e == OrderHedgeCal(s)
<1>1. PICK n \in Nat : n = Len(rows) /\ DOMAIN rows = 1 .. n /\ \A i \in 1 .. n : rows[i] \in Signals
  BY LenProperties, ElementOfSeq DEF RowsOfFile
<1>2. s \in Seq(Order) /\ Len(s) = n
  BY <1>1, SizedFromFile DEF FromFile
<1>3. s = [i \in 1 .. n |->
             [ticker |-> rows[i].ticker, price |-> rows[i].lmtPrice,
              qty |-> Shares(rows[i], budget, maxPer),
              spx |-> rows[i].spx, rut |-> rows[i].rut, dmv |-> rows[i].dmv]]
  BY <1>1 DEF SizedOrders, MapSeq
<1> DEFINE v == [i \in 1 .. n |-> rows[i].price * Magnitude(Shares(rows[i], budget, maxPer))]
<1>4. SizedValue(rows, budget, maxPer) = TradeValue(SumOf(v), e)
  BY <1>1 DEF SizedValue, Total, MapSeq
<1> HIDE DEF s
<1>5. ASSUME NEW i \in 1 .. n
      PROVE  /\ v[i] \in Int
             /\ Stocks(s)[i] = rows[i].lmtPrice * Magnitude(Shares(rows[i], budget, maxPer))
             /\ rows[i].lmtPrice \in Nat /\ rows[i].price \in Nat
             /\ Magnitude(Shares(rows[i], budget, maxPer)) \in Nat
             /\ v[i] >= 0
  <2>1. rows[i].price \in Nat /\ rows[i].lmtPrice \in Nat
    BY <1>1 DEF Signals
  <2>2. Magnitude(Shares(rows[i], budget, maxPer)) \in Nat
    BY <1>1, SharesSided, Magnitudes
  <2>3. DOMAIN s = 1 .. n
    BY <1>3
  <2>4. Stocks(s)[i] = rows[i].lmtPrice * Magnitude(Shares(rows[i], budget, maxPer))
    BY <1>3, <2>3 DEF Stocks
  <2>5. v[i] = rows[i].price * Magnitude(Shares(rows[i], budget, maxPer))
    OBVIOUS
  <2>6. v[i] \in Nat
    BY <2>1, <2>2, <2>5
  <2> QED
    BY <2>1, <2>2, <2>4, <2>6
<1>6. v \in [1 .. n -> Int]
  BY <1>5
<1>7. SumOf(v) \in Nat
  <2> HIDE DEF v
  <2> QED
    BY <1>5, <1>6, SumOfNaturals
<1>8. e.spx \in Int /\ e.rut \in Int /\ StockValue(s) \in Int
  BY <1>2, ValueTypes
<1>9. SizedValue(rows, budget, maxPer) \in Nat
  <2> HIDE DEF v, e
  <2>1. Magnitude(e.spx) \in Nat
    BY <1>8 DEF Magnitude
  <2>2. Magnitude(e.rut) \in Nat
    BY <1>8 DEF Magnitude
  <2> QED
    BY <1>4, <1>7, <2>1, <2>2 DEF TradeValue
<1>10. ASSUME Moderate
       PROVE  ValueOf(s) <= SizedValue(rows, budget, maxPer)
  <2>1. PICK g \in [1 .. n -> 1 .. Len(csv)] : \A i \in 1 .. n : rows[i] = csv[g[i]]
    BY <1>1, Zenon DEF RowsOfFile, Picks
  <2>2. \A i \in 1 .. n : rows[i].lmtPrice <= rows[i].price
    <3>1. DOMAIN csv = 1 .. Len(csv)
      BY LenProperties
    <3> QED
      BY <1>10, <2>1, <3>1 DEF Moderate
  <2>3. ASSUME NEW i \in 1 .. n
        PROVE  Stocks(s)[i] <= v[i]
    <3>1. PICK l \in Nat, p \in Nat, m \in Nat :
            l = rows[i].lmtPrice /\ p = rows[i].price /\ m = Magnitude(Shares(rows[i], budget, maxPer))
      BY <1>5
    <3>2. l * m <= p * m
      <4>1. l <= p
        BY <2>2, <3>1
      <4> QED
        BY ONLY <4>1, l \in Nat, p \in Nat, m \in Nat
    <3>3. Stocks(s)[i] = l * m
      BY <1>5, <3>1
    <3> QED
      BY <3>1, <3>2, <3>3
  <2>4. Stocks(s) \in [1 .. n -> Int] /\ StockValue(s) = SumOf(Stocks(s))
    BY <1>2, ValueTypes, ValuesAreSums
  <2>5. StockValue(s) <= SumOf(v)
    <3> HIDE DEF v
    <3> QED
      BY <1>6, <2>3, <2>4, SumLe
  <2> HIDE DEF v, e
  <2>6. PICK x \in Int, y \in Int : x = Magnitude(e.spx) /\ y = Magnitude(e.rut)
    <3>1. Magnitude(e.spx) \in Int
      BY <1>8 DEF Magnitude
    <3>2. Magnitude(e.rut) \in Int
      BY <1>8 DEF Magnitude
    <3> QED
      BY ONLY <3>1, <3>2, Zenon
  <2>7. PICK a \in Int, b \in Int : a = StockValue(s) /\ b = SumOf(v) /\ a <= b
    BY <1>7, <1>8, <2>5
  <2>8. a + x + y <= b + x + y
    BY <2>7
  <2>9. TradeValue(StockValue(s), e) <= TradeValue(SumOf(v), e)
    BY ONLY <2>6, <2>7, <2>8, Zenon DEF TradeValue
  <2> QED
    BY <1>4, <2>9 DEF ValueOf, e
<1> QED
  BY <1>9, <1>10 DEF s

-----------------------------------------------------------------------------
(* Rounded orders.                                                         *)

\* The orders of genTradeOrder.
TradeOrder == [ticker : STRING, price : Nat, qty : Int]

LEMMA Repriced ==
  ASSUME NEW o, NEW p \in Nat
  PROVE  LET r == [o EXCEPT !.price = p]
         IN /\ o \in Order => /\ r \in Order /\ r.price = p /\ r.qty = o.qty /\ r.ticker = o.ticker
                              /\ r.spx = o.spx /\ r.rut = o.rut
            /\ o \in TradeOrder => r \in TradeOrder /\ r.price = p /\ r.qty = o.qty /\ r.ticker = o.ticker
BY DEF Order, TradeOrder

\* The price of an order that was at the price of the file is within the rounding.
Within(o, num) ==
  LET gain == Direction(o.qty) * (num - o.price)
  IN \E tick \in MinTicks :
       o.qty # 0 => -(Cent \div 2) <= gain /\ gain < Cent * tick + Cent \div 2

\* roundNum changes nothing but the price of an order, and that by less than a tick.
LEMMA RoundedOrder ==
  ASSUME NEW o, o \in Order \/ o \in TradeOrder, NEW tick \in MinTicks
  PROVE  LET r == [o EXCEPT !.price = RoundNum(o.qty, o.price, tick)]
         IN /\ r.qty = o.qty /\ r.ticker = o.ticker /\ r.qty \in Int
            /\ o \in Order => r \in Order /\ r.spx = o.spx /\ r.rut = o.rut
            /\ o \in TradeOrder => r \in TradeOrder
            /\ Within(r, o.price)
<1>1. o.qty \in Int /\ o.price \in Nat
  BY DEF Order, TradeOrder
<1>2. tick \in Nat
  BY TradingDayAssumption
<1> DEFINE p == RoundNum(o.qty, o.price, tick)
           r == [o EXCEPT !.price = p]
<1>3. /\ p \in Nat
      /\ o.qty # 0 =>
           LET gain == Direction(o.qty) * (o.price - p)
           IN -(Cent \div 2) <= gain /\ gain < Cent * tick + Cent \div 2
  BY <1>1, <1>2, RoundNumGain
<1> HIDE DEF p
<1>4. /\ r.qty = o.qty /\ r.ticker = o.ticker /\ r.price = p
      /\ o \in Order => r \in Order /\ r.spx = o.spx /\ r.rut = o.rut
      /\ o \in TradeOrder => r \in TradeOrder
  BY <1>3, Repriced
<1> HIDE DEF r
<1>5. Within(r, o.price)
  BY <1>3, <1>4, Zenon DEF Within
<1> QED
  BY <1>1, <1>4, <1>5, Zenon DEF r, p

\* So does truncLmtPrice for a list, each order with the tick of its ticker.
LEMMA RoundedList ==
  ASSUME NEW s, s \in Seq(Order) \/ s \in Seq(TradeOrder),
         \A i \in DOMAIN s : s[i].ticker \in TickersOf(csv),
         NEW tick \in [TickersOf(csv) -> MinTicks]
  PROVE  LET r == TruncLmtPrice(s, MapSeq(LAMBDA o : tick[o.ticker], s))
         IN /\ DOMAIN r = DOMAIN s
            /\ \A i \in DOMAIN s : r[i].qty = s[i].qty /\ r[i].ticker = s[i].ticker /\ r[i].qty \in Int
            /\ s \in Seq(TradeOrder) => r \in Seq(TradeOrder)
            /\ FromFile(csv, s) => FromFile(csv, r)
            /\ AtFilePrice(csv, s) =>
                 \A i \in DOMAIN s : \A j \in DOMAIN csv :
                   csv[j].ticker = r[i].ticker => Within(r[i], csv[j].lmtPrice)
<1> DEFINE r == TruncLmtPrice(s, MapSeq(LAMBDA o : tick[o.ticker], s))
           P(o) == RoundNum(o.qty, o.price, tick[o.ticker])
<1>1. r = [i \in DOMAIN s |-> [s[i] EXCEPT !.price = P(s[i])]]
  BY DEF TruncLmtPrice, MapSeq
<1> HIDE DEF r
<1>2. PICK n \in Nat : DOMAIN s = 1 .. n /\ n = Len(s)
  BY LenProperties
<1>3. /\ s \in Seq(Order) => \A i \in 1 .. n : s[i] \in Order
      /\ s \in Seq(TradeOrder) => \A i \in 1 .. n : s[i] \in TradeOrder
  BY <1>2, ElementOfSeq
<1>4. ASSUME NEW i \in 1 .. n
      PROVE  /\ r[i].qty = s[i].qty /\ r[i].ticker = s[i].ticker /\ r[i].qty \in Int
             /\ s[i] \in Order => r[i] \in Order /\ r[i].spx = s[i].spx /\ r[i].rut = s[i].rut
             /\ s[i] \in TradeOrder => r[i] \in TradeOrder
             /\ Within(r[i], s[i].price)
  <2>1. s[i] \in Order \/ s[i] \in TradeOrder
    BY <1>3
  <2>2. tick[s[i].ticker] \in MinTicks
    BY <1>2
  <2>3. r[i] = [s[i] EXCEPT !.price = P(s[i])]
    BY <1>1, <1>2
  <2> QED
    BY <2>1, <2>2, <2>3, RoundedOrder
<1>5. DOMAIN r = 1 .. n
  BY <1>1, <1>2
<1>6. r = [i \in 1 .. n |-> r[i]]
  BY <1>1, <1>2
<1>7. s \in Seq(TradeOrder) => r \in Seq(TradeOrder)
  <2> SUFFICES ASSUME s \in Seq(TradeOrder) PROVE r \in Seq(TradeOrder)
    OBVIOUS
  <2>1. r \in [1 .. n -> TradeOrder]
    BY <1>3, <1>4, <1>6
  <2> QED
    BY <2>1, LenOf
<1>8. FromFile(csv, s) => FromFile(csv, r)
  <2> SUFFICES ASSUME FromFile(csv, s) PROVE FromFile(csv, r)
    OBVIOUS
  <2>1. \A i \in 1 .. n : s[i] \in Order
    BY <1>3 DEF FromFile
  <2>2. r \in [DOMAIN s -> Order]
    BY <1>2, <1>4, <1>6, <2>1
  <2>3. \A i \in DOMAIN s : /\ r[i].ticker = s[i].ticker
                            /\ r[i].spx = s[i].spx /\ r[i].rut = s[i].rut
                            /\ r[i].qty = s[i].qty /\ s[i].qty \in Int
    BY <1>2, <1>4, <2>1
  <2>4. \A i \in DOMAIN s : /\ r[i].ticker = s[i].ticker
                            /\ r[i].spx = s[i].spx /\ r[i].rut = s[i].rut
                            /\ s[i].qty > 0 => r[i].qty >= 0
                            /\ s[i].qty < 0 => r[i].qty <= 0
                            /\ s[i].qty = 0 => r[i].qty = 0
    BY <1>2, <1>4, <2>3
  <2> QED
    BY <2>2, <2>4, ChangedFromFile
<1>9. ASSUME AtFilePrice(csv, s), NEW i \in DOMAIN s, NEW j \in DOMAIN csv, csv[j].ticker = r[i].ticker
      PROVE  Within(r[i], csv[j].lmtPrice)
  <2>1. s[i].price = csv[j].lmtPrice
    BY <1>2, <1>4, <1>9 DEF AtFilePrice
  <2> QED
    BY <1>2, <1>4, <2>1
<1> QED
  BY <1>2, <1>4, <1>5, <1>7, <1>8, <1>9, Zenon DEF r

-----------------------------------------------------------------------------
(* What a list of orders buys.                                             *)

LEMMA BoughtIsSum ==
  ASSUME NEW t, NEW orders
  PROVE  Bought(t, orders)
           = SumOf([i \in DOMAIN orders |-> IF orders[i].ticker = t THEN orders[i].qty ELSE 0])
BY DEF Bought, Total, MapSeq

LEMMA BoughtType ==
  ASSUME NEW t, NEW n \in Nat, NEW orders, DOMAIN orders = 1 .. n,
         \A i \in 1 .. n : orders[i].qty \in Int
  PROVE  Bought(t, orders) \in Int
<1> DEFINE v == [i \in 1 .. n |-> IF orders[i].ticker = t THEN orders[i].qty ELSE 0]
<1>1. v \in [1 .. n -> Int]
  OBVIOUS
<1>2. SumOf(v) \in Int
  <2> HIDE DEF v
  <2> QED
    BY <1>1, SumType
<1> QED
  BY <1>2, BoughtIsSum

\* The orders for chosen elements of s, q[k] the quantity for s[k].
PartOf(t, s, K, q) == [k \in 1 .. Len(s) |-> IF k \in K /\ s[k].ticker = t THEN q[k] ELSE 0]

\* What is bought of a ticker by orders made of chosen elements, as a sum over all.
LEMMA BoughtOfChosen ==
  ASSUME NEW t, NEW S, NEW s \in Seq(S), NEW K, NEW q \in [1 .. Len(s) -> Int],
         NEW c, c = Chosen(s, K), NEW orders, DOMAIN orders = DOMAIN c,
         \A i \in DOMAIN c : \A k \in 1 .. Len(s) : k \in K /\ c[i] = s[k] =>
           orders[i].ticker = s[k].ticker /\ orders[i].qty = q[k]
  PROVE  Bought(t, orders) = SumOf(PartOf(t, s, K, q))
<1>1. PICK n \in Nat, m \in Nat : n = Len(s) /\ m = Len(c) /\ DOMAIN c = 1 .. m
  BY ChosenFacts, LenProperties
<1>2. PICK f : Holds(c, f, s, K, n)
  BY <1>1, ChosenFacts
<1>3. /\ f \in [1 .. m -> 1 .. n]
      /\ \A i \in 1 .. m : f[i] \in K /\ c[i] = s[f[i]]
  BY <1>1, <1>2 DEF Holds, Picks
<1> DEFINE w == [k \in 1 .. n |-> IF s[k].ticker = t THEN q[k] ELSE 0]
<1>4. w \in [1 .. n -> Int]
  BY <1>1
<1>5. ASSUME NEW i \in 1 .. m
      PROVE  w[f[i]] = IF orders[i].ticker = t THEN orders[i].qty ELSE 0
  <2>1. orders[i].ticker = s[f[i]].ticker /\ orders[i].qty = q[f[i]]
    BY <1>1, <1>3
  <2> QED
    BY <1>3, <2>1
<1>6. SumOf([i \in 1 .. m |-> w[f[i]]]) = SumOf([k \in 1 .. n |-> IF k \in K THEN w[k] ELSE 0])
  <2> HIDE DEF w
  <2> QED
    BY <1>1, <1>2, <1>4 DEF Holds, SumsOver
<1>7. [i \in 1 .. m |-> w[f[i]]]
        = [i \in DOMAIN orders |-> IF orders[i].ticker = t THEN orders[i].qty ELSE 0]
  <2> HIDE DEF w
  <2> QED
    BY <1>1, <1>5
<1>8. [k \in 1 .. n |-> IF k \in K THEN w[k] ELSE 0]
        = PartOf(t, s, K, q)
  BY <1>1 DEF PartOf
<1> QED
  BY <1>1, <1>6, <1>7, <1>8, BoughtIsSum

-----------------------------------------------------------------------------
(* The split over auction and day.                                         *)

\* What the volume allows the auction beside an order is on its side.
LEMMA RestBounds ==
  ASSUME NEW o \in Order, NEW looPer \in Nat, NEW r, r = RestForLOO(o, looPer)
  PROVE  /\ r \in Int
         /\ o.qty > 0 => r >= 0
         /\ o.qty <= 0 => r <= 0
         /\ r # 0 => 10000 * (Magnitude(o.qty) + Magnitude(r)) <= looPer * o.dmv + 5 * 10000
<1>1. o.qty \in Int /\ o.dmv \in Nat
  BY DEF Order
<1>2. PICK m \in Nat, v \in Nat : m = Magnitude(o.qty) /\ v = looPer * o.dmv
  BY <1>1 DEF Magnitude
<1>2a. PICK rest \in Int : rest = v - 10000 * m
  OBVIOUS
<1> DEFINE x == (rest + 5 * 10000) \div (10 * 10000)
<1>3. r = IF rest > 10 * 10000 THEN Direction(o.qty) * 10 * x ELSE 0
  BY <1>2, <1>2a DEF RestForLOO
<1>4. CASE rest > 100000
  <2>1. PICK z \in Nat : z = rest + 50000
    BY <1>4
  <2>2. PICK d \in Nat \ {0} : d = 100000
    OBVIOUS
  <2>3. PICK y \in Nat : y = z \div d
    BY Divide
  <2>4. z % d \in 0 .. d - 1 /\ z = d * y + (z % d)
    BY <2>3, Divide
  <2>4a. y = x /\ 100000 * y <= rest + 50000
    <3>1. y = x
      BY <2>1, <2>2, <2>3
    <3>2. d * y = 100000 * y
      BY <2>2
    <3> HIDE DEF x
    <3> QED
      BY ONLY <2>1, <2>4, <3>1, <3>2, z \in Nat, d \in Nat, y \in Nat, rest \in Int
  <2> HIDE DEF x
  <2>5. CASE o.qty > 0
    <3>1. Direction(o.qty) = 1
      BY <2>5 DEF Direction
    <3>2. r = 10 * y
      BY <1>3, <1>4, <2>4a, <3>1
    <3>3. Magnitude(r) = 10 * y
      BY <3>2 DEF Magnitude
    <3> QED
      BY <1>1, <1>2, <1>2a, <2>4a, <2>5, <3>2, <3>3
  <2>6. CASE ~(o.qty > 0)
    <3>1. Direction(o.qty) = -1
      BY <2>6 DEF Direction
    <3>2. Direction(o.qty) * 10 = -10
      BY <3>1
    <3>3. r = -10 * y
      BY <1>3, <1>4, <2>4a, <3>2
    <3>4. Magnitude(r) = 10 * y
      BY <3>3 DEF Magnitude
    <3> QED
      BY <1>1, <1>2, <1>2a, <2>4a, <2>6, <3>3, <3>4
  <2> QED
    BY <2>5, <2>6
<1>5. CASE ~(rest > 100000)
  <2>1. r = 0
    BY <1>3, <1>5
  <2> QED
    BY <2>1
<1> QED
  BY <1>4, <1>5

\* The entry for a ticker comes from its order.
LEMMA RqlMapEntry ==
  ASSUME NEW ly, FromFile(csv, ly), NEW looPer \in Nat, NEW t \in DOMAIN RqlMap(ly, looPer)
  PROVE  \E i \in DOMAIN ly : ly[i].ticker = t /\ RqlMap(ly, looPer)[t] = RestForLOO(ly[i], looPer)
                              /\ RestForLOO(ly[i], looPer) # 0
<1> DEFINE InMap == {i \in DOMAIN ly : RestForLOO(ly[i], looPer) # 0}
           Is(i) == ly[i].ticker = t /\ \A j \in InMap : ly[j].ticker = t => j <= i
           latest == CHOOSE i \in InMap : Is(i)
<1>1. PICK i \in InMap : ly[i].ticker = t
  BY DEF RqlMap
<1>2. RqlMap(ly, looPer)[t] = RestForLOO(ly[latest], looPer)
  BY DEF RqlMap
<1>3. \A j \in InMap : ly[j].ticker = t => j = i
  BY <1>1 DEF FromFile
<1>4. i \in Nat
  BY LenProperties DEF FromFile
<1>5. Is(i)
  BY <1>1, <1>3, <1>4
<1>6. latest \in InMap /\ Is(latest)
  BY <1>5
<1>7. latest = i
  BY <1>3, <1>6
<1> QED
  BY <1>1, <1>2, <1>7

\* The part of an order that goes to the auction is on its side and no larger; with the
\* order of the other list for its ticker it stays within the volume.
LEMMA LOOQtyBounds ==
  ASSUME NEW ly, FromFile(csv, ly), NEW lt, FromFile(csv, lt), NEW looPer \in Nat, NEW k \in DOMAIN lt,
         lt[k].ticker \in DOMAIN RqlMap(ly, looPer),
         NEW q, q = LOOQty(lt[k], RqlMap(ly, looPer))
  PROVE  /\ q \in Int
         /\ \A i \in DOMAIN ly : ly[i].ticker = lt[k].ticker /\ ly[i].qty # 0 =>
              /\ q * lt[k].qty >= 0 /\ Magnitude(q) <= Magnitude(lt[k].qty)
              /\ 10000 * Magnitude(ly[i].qty + q) <= looPer * ly[i].dmv + 5 * 10000
<1>1. PICK i \in DOMAIN ly :
        /\ ly[i].ticker = lt[k].ticker
        /\ RqlMap(ly, looPer)[lt[k].ticker] = RestForLOO(ly[i], looPer)
        /\ RestForLOO(ly[i], looPer) # 0
  BY RqlMapEntry
<1>2. ly[i] \in Order /\ lt[k] \in Order
  BY ElementOfSeq, LenProperties DEF FromFile
<1>3. PICK r \in Int, x \in Int, y \in Int, v \in Int :
        /\ r = RestForLOO(ly[i], looPer) /\ x = ly[i].qty /\ y = lt[k].qty /\ v = looPer * ly[i].dmv
  <2>1. RestForLOO(ly[i], looPer) \in Int
    BY <1>2, RestBounds
  <2>2. ly[i].qty \in Int /\ lt[k].qty \in Int /\ looPer * ly[i].dmv \in Int
    BY <1>2 DEF Order
  <2> QED
    BY <2>1, <2>2
<1>4. /\ r \in Int
      /\ x > 0 => r >= 0
      /\ x <= 0 => r <= 0
      /\ 10000 * (Magnitude(x) + Magnitude(r)) <= v + 5 * 10000
  BY <1>1, <1>2, <1>3, RestBounds
<1>5. q = IF Magnitude(r) > Magnitude(y) THEN y ELSE r
  BY <1>1, <1>3 DEF LOOQty
<1>6. q \in Int /\ Magnitude(q) <= Magnitude(y) /\ Magnitude(q) <= Magnitude(r) /\ q \in {y, r}
  BY <1>4, <1>5 DEF Magnitude
<1>7. \A j \in DOMAIN ly : ly[j].ticker = lt[k].ticker => j = i
  BY <1>1 DEF FromFile
<1>8. PICK j \in DOMAIN csv : csv[j].ticker = lt[k].ticker
  BY DEF FromFile, TickersOf
<1>9. Sided(x, csv[j].score) /\ Sided(y, csv[j].score)
  BY <1>1, <1>3, <1>8 DEF FromFile
<1>10. ASSUME x # 0
       PROVE  /\ (x > 0 /\ q >= 0 /\ y >= 0) \/ (x < 0 /\ q <= 0 /\ y <= 0)
  <2>1. (x > 0 /\ y >= 0) \/ (x < 0 /\ y <= 0)
    BY <1>9, <1>10 DEF Sided
  <2> QED
    BY <1>4, <1>6, <2>1
<1>11. ASSUME x # 0
       PROVE  /\ q * y >= 0
              /\ 10000 * Magnitude(x + q) <= v + 5 * 10000
  <2>1. CASE x > 0 /\ q >= 0 /\ y >= 0
    <3>1. Magnitude(x + q) = Magnitude(x) + Magnitude(q)
      BY <1>6, <2>1 DEF Magnitude
    <3>2. Magnitude(x) \in Int /\ Magnitude(q) \in Int /\ Magnitude(r) \in Int
      BY <1>4, <1>6 DEF Magnitude
    <3>3. q * y >= 0
      BY <1>6, <2>1
    <3> QED
      BY <1>4, <1>6, <3>1, <3>2, <3>3
  <2>2. CASE x < 0 /\ q <= 0 /\ y <= 0
    <3>1. Magnitude(x + q) = Magnitude(x) + Magnitude(q)
      BY <1>6, <2>2 DEF Magnitude
    <3>2. Magnitude(x) \in Int /\ Magnitude(q) \in Int /\ Magnitude(r) \in Int
      BY <1>4, <1>6 DEF Magnitude
    <3>3. q * y >= 0
      <4>1. PICK a \in Nat, b \in Nat : q = -a /\ y = -b
        <5>1. -q \in Nat /\ -y \in Nat /\ q = -(-q) /\ y = -(-y)
          BY <1>6, <2>2
        <5> QED
          BY <5>1
      <4>2. (-a) * (-b) = a * b /\ a * b >= 0
        OBVIOUS
      <4> QED
        BY <4>1, <4>2
    <3> QED
      BY <1>4, <1>6, <3>1, <3>2, <3>3
  <2> QED
    BY <1>10, <1>11, <2>1, <2>2
<1> QED
  BY <1>3, <1>6, <1>7, <1>11

\* The two parts of every order of the list add up to it, whatever the ticker.
LEMMA SplitAdds ==
  ASSUME NEW ly, FromFile(csv, ly), NEW lt, FromFile(csv, lt), NEW looPer \in Nat, NEW t
  PROVE  LET R == RqlMap(ly, looPer)
         IN Bought(t, LOOOrders(lt, R)) + Bought(t, VWAPOrders(lt, R)) = Bought(t, lt)
<1> DEFINE R == RqlMap(ly, looPer)
           K == {k \in DOMAIN lt : lt[k].ticker \in DOMAIN R}
           c == Chosen(lt, K)
           loo == LOOOrders(lt, R)
           vwap == VWAPOrders(lt, R)
<1>1. PICK n \in Nat : n = Len(lt) /\ DOMAIN lt = 1 .. n /\ \A k \in 1 .. n : lt[k] \in Order
  BY LenProperties, ElementOfSeq DEF FromFile
<1> DEFINE q == [k \in 1 .. n |-> IF k \in K THEN LOOQty(lt[k], R) ELSE 0]
<1>2. q \in [1 .. n -> Int]
  <2>1. \A k \in 1 .. n : k \in K => LOOQty(lt[k], R) \in Int
    BY <1>1, LOOQtyBounds
  <2> HIDE DEF R, K
  <2> QED
    BY <2>1
<1>3. loo = [i \in DOMAIN c |-> [c[i] EXCEPT !.qty = LOOQty(c[i], R)]]
  BY DEF LOOOrders, Where, MapSeq
<1>4. vwap = [k \in 1 .. n |-> IF lt[k].ticker \in DOMAIN R
                                 THEN [lt[k] EXCEPT !.qty = @ - LOOQty(lt[k], R)] ELSE lt[k]]
  BY <1>1 DEF VWAPOrders, MapSeq
<1>5. \A k \in 1 .. n : k \in K <=> lt[k].ticker \in DOMAIN R
  BY <1>1
<1> HIDE DEF R, K, c, loo, vwap
<1>6. c \in Seq(Order)
  BY ChosenFacts DEF c, FromFile
<1>7. ASSUME NEW i \in DOMAIN c, NEW k \in 1 .. n, k \in K, c[i] = lt[k]
      PROVE  loo[i].ticker = lt[k].ticker /\ loo[i].qty = q[k]
  <2>1. lt[k] \in Order
    BY <1>1
  <2>2. loo[i] = [lt[k] EXCEPT !.qty = LOOQty(lt[k], R)]
    BY <1>3, <1>7
  <2>3. q[k] = LOOQty(lt[k], R)
    BY <1>7
  <2> HIDE DEF q
  <2> QED
    BY <2>1, <2>2, <2>3 DEF Order
<1>8. Bought(t, loo) = SumOf([k \in 1 .. n |-> IF k \in K /\ lt[k].ticker = t THEN q[k] ELSE 0])
  <2>1. lt \in Seq(Order) /\ q \in [1 .. Len(lt) -> Int] /\ DOMAIN loo = DOMAIN c
    BY <1>1, <1>2, <1>3 DEF FromFile
  <2>2. \A i \in DOMAIN c : \A k \in 1 .. Len(lt) : k \in K /\ c[i] = lt[k] =>
           loo[i].ticker = lt[k].ticker /\ loo[i].qty = q[k]
    BY <1>1, <1>7
  <2> HIDE DEF q
  <2>3. Bought(t, loo) = SumOf(PartOf(t, lt, K, q))
    BY <2>1, <2>2, BoughtOfChosen DEF c
  <2> QED
    BY <1>1, <2>3 DEF PartOf
<1>9. ASSUME NEW k \in 1 .. n
      PROVE  vwap[k].ticker = lt[k].ticker /\ vwap[k].qty = lt[k].qty - q[k] /\ lt[k].qty \in Int
  <2>1. lt[k] \in Order
    BY <1>1
  <2>2. CASE k \in K
    <3>1. vwap[k] = [lt[k] EXCEPT !.qty = lt[k].qty - LOOQty(lt[k], R)]
      BY <1>4, <1>5, <2>2
    <3>2. q[k] = LOOQty(lt[k], R)
      BY <2>2
    <3> HIDE DEF q
    <3> QED
      BY <2>1, <3>1, <3>2 DEF Order
  <2>3. CASE k \notin K
    <3>1. vwap[k] = lt[k]
      BY <1>4, <1>5, <2>3
    <3>2. q[k] = 0
      BY <2>3
    <3> HIDE DEF q
    <3> QED
      BY <2>1, <3>1, <3>2 DEF Order
  <2> QED
    BY <2>2, <2>3
<1> DEFINE v == [k \in 1 .. n |-> IF k \in K /\ lt[k].ticker = t THEN q[k] ELSE 0]
           w == [k \in 1 .. n |-> IF lt[k].ticker = t THEN lt[k].qty - q[k] ELSE 0]
           u == [k \in 1 .. n |-> IF lt[k].ticker = t THEN lt[k].qty ELSE 0]
<1>10. v \in [1 .. n -> Int] /\ w \in [1 .. n -> Int]
  <2> HIDE DEF q
  <2> QED
    BY <1>2, <1>9
<1>11. [k \in 1 .. n |-> v[k] + w[k]] = u
  <2>1. ASSUME NEW k \in 1 .. n
        PROVE  v[k] + w[k] = u[k]
    <3>1. k \notin K => q[k] = 0
      OBVIOUS
    <3>2. q[k] \in Int /\ lt[k].qty \in Int
      BY <1>2, <1>9
    <3> HIDE DEF q
    <3> QED
      BY <3>1, <3>2
  <2> HIDE DEF q, v, w
  <2> QED
    BY <2>1
<1>12. SumOf([k \in 1 .. n |-> v[k] + w[k]]) = SumOf(v) + SumOf(w)
  <2> HIDE DEF v, w
  <2> QED
    BY <1>10, SumAdd
<1>13. Bought(t, vwap) = SumOf(w)
  <2>1. DOMAIN vwap = 1 .. n
    BY <1>4
  <2>2. [i \in 1 .. n |-> IF vwap[i].ticker = t THEN vwap[i].qty ELSE 0] = w
    <3> HIDE DEF q
    <3> QED
      BY <1>9
  <2> HIDE DEF w
  <2> QED
    BY <2>1, <2>2, BoughtIsSum
<1>14. Bought(t, lt) = SumOf(u)
  BY <1>1, BoughtIsSum
<1>15. Bought(t, loo) + Bought(t, vwap) = Bought(t, lt)
  <2> HIDE DEF u, v, w
  <2>1. SumOf(u) = SumOf(v) + SumOf(w)
    BY <1>11, <1>12
  <2>2. Bought(t, loo) = SumOf(v)
    BY <1>8 DEF v
  <2> QED
    BY <1>13, <1>14, <2>1, <2>2
<1> QED
  BY <1>15 DEF loo, vwap, R

\* The auction's orders are parts of orders of lt.
LEMMA SplitElements ==
  ASSUME NEW ly, FromFile(csv, ly), NEW lt, FromFile(csv, lt), NEW looPer \in Nat,
         NEW loo, loo = LOOOrders(lt, RqlMap(ly, looPer)),
         NEW vwap, vwap = VWAPOrders(lt, RqlMap(ly, looPer))
  PROVE  /\ \A i \in DOMAIN loo :
              \E k \in DOMAIN lt : /\ lt[k].ticker \in DOMAIN RqlMap(ly, looPer)
                                   /\ loo[i].ticker = lt[k].ticker
                                   /\ loo[i].qty = LOOQty(lt[k], RqlMap(ly, looPer))
         /\ \A i \in DOMAIN loo : loo[i].qty \in Int
         /\ \A i \in DOMAIN vwap : vwap[i].qty \in Int
<1> DEFINE R == RqlMap(ly, looPer)
           K == {k \in DOMAIN lt : lt[k].ticker \in DOMAIN R}
           c == Chosen(lt, K)
<1>1. PICK n \in Nat : n = Len(lt) /\ DOMAIN lt = 1 .. n /\ \A k \in 1 .. n : lt[k] \in Order
  BY LenProperties, ElementOfSeq DEF FromFile
<1>2. \A k \in K : LOOQty(lt[k], R) \in Int
  BY <1>1, LOOQtyBounds
<1>3. loo = [i \in DOMAIN c |-> [c[i] EXCEPT !.qty = LOOQty(c[i], R)]]
  BY DEF LOOOrders, Where, MapSeq
<1>4. vwap = [k \in 1 .. n |-> IF lt[k].ticker \in DOMAIN R
                                 THEN [lt[k] EXCEPT !.qty = @ - LOOQty(lt[k], R)] ELSE lt[k]]
  BY <1>1 DEF VWAPOrders, MapSeq
<1>5. \A k \in 1 .. n : k \in K <=> lt[k].ticker \in DOMAIN R
  BY <1>1
<1> HIDE DEF R, K
<1>6. \A i \in DOMAIN c : \E k \in K : k \in 1 .. n /\ c[i] = lt[k]
  <2>1. PICK f \in [1 .. Len(c) -> 1 .. Len(lt)] : \A i \in 1 .. Len(c) : f[i] \in K /\ c[i] = lt[f[i]]
    <3>1. \E f : Picks(f, c, lt, K, Len(lt))
      BY ChosenElements DEF FromFile
    <3> HIDE DEF c
    <3> QED
      BY <3>1, Zenon DEF Picks
  <2>2. DOMAIN c = 1 .. Len(c)
    BY ChosenFacts, LenProperties DEF FromFile
  <2> QED
    BY <1>1, <2>1, <2>2
<1> HIDE DEF c
<1>7. ASSUME NEW i \in DOMAIN loo
      PROVE  \E k \in DOMAIN lt : /\ lt[k].ticker \in DOMAIN R
                                  /\ loo[i].ticker = lt[k].ticker
                                  /\ loo[i].qty = LOOQty(lt[k], R) /\ LOOQty(lt[k], R) \in Int
  <2>1. PICK k \in K : k \in 1 .. n /\ c[i] = lt[k]
    BY <1>3, <1>6
  <2>2. loo[i] = [lt[k] EXCEPT !.qty = LOOQty(lt[k], R)] /\ lt[k] \in Order
    BY <1>1, <1>3, <2>1
  <2>3. loo[i].ticker = lt[k].ticker /\ loo[i].qty = LOOQty(lt[k], R)
    BY <2>2 DEF Order
  <2> QED
    BY <1>1, <1>2, <1>5, <2>1, <2>3
<1>8. ASSUME NEW k \in DOMAIN vwap
      PROVE  vwap[k].qty \in Int
  <2>1. k \in 1 .. n /\ lt[k] \in Order /\ lt[k].qty \in Int
    BY <1>1, <1>4 DEF Order
  <2>2. CASE k \in K
    <3>1. vwap[k] = [lt[k] EXCEPT !.qty = lt[k].qty - LOOQty(lt[k], R)]
      BY <1>4, <1>5, <2>1, <2>2
    <3>2. vwap[k].qty = lt[k].qty - LOOQty(lt[k], R)
      BY <2>1, <3>1 DEF Order
    <3> QED
      BY <1>2, <2>1, <2>2, <3>2
  <2>3. CASE k \notin K
    BY <1>4, <1>5, <2>1, <2>3
  <2> QED
    BY <2>2, <2>3
<1> QED
  BY <1>7, <1>8 DEF R

-----------------------------------------------------------------------------
(* The positions and the orders that close them.                           *)

\* The elements of a finite set, each once.
LEMMA SetToSeqFacts ==
  ASSUME NEW S, IsFiniteSet(S)
  PROVE  \E n \in Nat :
           /\ SetToSeq(S) \in [1 .. n -> S]
           /\ \A i, j \in 1 .. n : SetToSeq(S)[i] = SetToSeq(S)[j] => i = j
           /\ \A x \in S : \E i \in 1 .. n : SetToSeq(S)[i] = x
<1>1. PICK n \in Nat : n = Cardinality(S) /\ ExistsBijection(1 .. n, S)
  BY FS_CardinalityType
<1>2. \E f \in [1 .. n -> S] : IsInjective(f)
  BY <1>1 DEF ExistsBijection, Bijection, Injection
<1>3. SetToSeq(S) \in [1 .. n -> S] /\ IsInjective(SetToSeq(S))
  BY <1>1, <1>2 DEF SetToSeq
<1>4. SetToSeq(S) \in Injection(1 .. n, S)
  BY <1>3 DEF Injection
<1>5. Cardinality(1 .. n) = n
  <2>1. 1 \in Int /\ n \in Int
    OBVIOUS
  <2>2. Cardinality(1 .. n) = IF 1 > n THEN 0 ELSE n - 1 + 1
    BY <2>1, FS_Interval
  <2> QED
    BY <2>2
<1>6. SetToSeq(S) \in Surjection(1 .. n, S)
  BY <1>1, <1>4, <1>5, FS_Injection
<1> QED
  BY <1>3, <1>6 DEF Surjection, IsInjective

\* An answer to reqPositions, and an order that closes.
Holding    == [ticker : STRING, secType : STRING, qty : Int]
CloseOrder == [ticker : STRING, qty : Int]

\* What is held can be asked for and counted.
HeldWell ==
  /\ IsFiniteSet(DOMAIN held) /\ DOMAIN held \subseteq STRING \X STRING
  /\ \A k \in DOMAIN held : held[k] \in Int

\* key tells what the positions are of.
Listed(key, n) ==
  /\ key \in [1 .. n -> DOMAIN held]
  /\ \A i, j \in 1 .. n : key[i] = key[j] => i = j
  /\ \A i \in 1 .. n : held[key[i]] # 0 \/ key[i] \in shown
  /\ \A k \in DOMAIN held : held[k] # 0 => \E i \in 1 .. n : key[i] = k
  /\ Positions = [i \in 1 .. n |-> [ticker |-> key[i][1], secType |-> key[i][2], qty |-> held[key[i]]]]

\* The positions of the account can be listed.
LEMMA PositionsListed ==
  ASSUME HeldWell
  PROVE  \E n \in Nat : \E key \in [1 .. n -> DOMAIN held] : Listed(key, n)
<1> DEFINE S == {k \in DOMAIN held : held[k] # 0 \/ k \in shown}
           key == SetToSeq(S)
<1>1. IsFiniteSet(S)
  BY FS_Subset DEF HeldWell
<1>2. PICK n \in Nat : /\ key \in [1 .. n -> S]
                       /\ \A i, j \in 1 .. n : key[i] = key[j] => i = j
                       /\ \A x \in S : \E i \in 1 .. n : key[i] = x
  <2> HIDE DEF S
  <2> QED
    BY <1>1, SetToSeqFacts
<1>3. Positions = [i \in DOMAIN key |-> [ticker |-> key[i][1], secType |-> key[i][2], qty |-> held[key[i]]]]
  BY DEF Positions, MapSeq
<1> HIDE DEF key
<1>4. key \in [1 .. n -> DOMAIN held] /\ DOMAIN key = 1 .. n
  BY <1>2
<1>5. \A i \in 1 .. n : held[key[i]] # 0 \/ key[i] \in shown
  BY <1>2
<1>6. \A k \in DOMAIN held : held[k] # 0 => \E i \in 1 .. n : key[i] = k
  BY <1>2
<1>7. Positions = [i \in 1 .. n |-> [ticker |-> key[i][1], secType |-> key[i][2], qty |-> held[key[i]]]]
  BY <1>3, <1>4
<1>8. Listed(key, n)
  BY <1>2, <1>4, <1>5, <1>6, <1>7, Zenon DEF Listed
<1> QED
  BY <1>4, <1>8

\* The whole answer to queryPos is holdings, one position for each.
LEMMA PositionsAreHoldings ==
  ASSUME HeldWell, NEW n \in Nat, NEW key, Listed(key, n)
  PROVE  /\ Positions \in Seq(Holding) /\ Len(Positions) = n /\ DOMAIN Positions = 1 .. n
         /\ \A i \in 1 .. n : /\ Positions[i].ticker = key[i][1] /\ Positions[i].secType = key[i][2]
                              /\ Positions[i].qty = held[key[i]]
                              /\ key[i] = <<key[i][1], key[i][2]>> /\ key[i] \in DOMAIN held
<1>1. /\ key \in [1 .. n -> DOMAIN held]
      /\ Positions = [i \in 1 .. n |-> [ticker |-> key[i][1], secType |-> key[i][2], qty |-> held[key[i]]]]
  BY DEF Listed
<1>2. \A i \in 1 .. n : /\ key[i] \in DOMAIN held /\ key[i] \in STRING \X STRING
                        /\ held[key[i]] \in Int
  BY <1>1 DEF HeldWell
<1>3. \A i \in 1 .. n : /\ key[i] = <<key[i][1], key[i][2]>>
                        /\ key[i][1] \in STRING /\ key[i][2] \in STRING
  BY <1>2
<1>4. \A i \in 1 .. n : Positions[i] = [ticker |-> key[i][1], secType |-> key[i][2], qty |-> held[key[i]]]
  BY <1>1
<1>5. \A i \in 1 .. n : Positions[i] \in Holding
  <2> SUFFICES ASSUME NEW i \in 1 .. n PROVE Positions[i] \in Holding
    OBVIOUS
  <2>1. PICK a \in STRING, b \in STRING, q \in Int :
          a = key[i][1] /\ b = key[i][2] /\ q = held[key[i]]
    BY <1>2, <1>3
  <2>2. Positions[i] = [ticker |-> a, secType |-> b, qty |-> q]
    BY <1>4, <2>1
  <2> QED
    BY ONLY <2>2, a \in STRING, b \in STRING, q \in Int DEF Holding
<1>6. Positions \in [1 .. n -> Holding]
  BY <1>1, <1>5
<1>7. Positions \in Seq(Holding) /\ Len(Positions) = n /\ DOMAIN Positions = 1 .. n
  BY <1>6, LenOf
<1> QED
  BY <1>2, <1>3, <1>4, <1>7

\* Whatever is answered, late or in part, is positions; without giving up it is all
\* of them.
LEMMA AnswersAreHoldings ==
  ASSUME HeldWell, late \in Seq(Holding), NEW answer \in Answers
  PROVE  /\ answer.got \in Seq(Holding) /\ answer.late \in Seq(Holding)
         /\ answer.gaveUp = FALSE => answer.got = Positions /\ answer.late = <<>> /\ gaveUp = FALSE
         /\ gaveUp \in BOOLEAN => answer.gaveUp \in BOOLEAN
<1>1. Positions \in Seq(Holding)
  BY PositionsListed, PositionsAreHoldings
<1> DEFINE stream == late \o Positions
<1>2. stream \in Seq(Holding) /\ Len(stream) \in Nat /\ Len(late) \in Nat
  BY <1>1, ConcatProperties, LenProperties
<1>2a. \/ answer = WholeAnswer
       \/ \E from \in 1 .. Len(late) + 1, to \in 0 .. Len(late \o Positions) :
            answer = PartAnswer(from, to)
  BY DEF Answers
<1>3. \/ answer = [got |-> Positions, late |-> <<>>, gaveUp |-> gaveUp]
      \/ \E from \in 1 .. Len(late) + 1, to \in 0 .. Len(stream) :
           answer = [got |-> SubSeq(stream, from, to),
                     late |-> SubSeq(stream, to + 1, Len(stream)), gaveUp |-> TRUE]
  BY <1>2a, Zenon DEF WholeAnswer, PartAnswer, stream
<1> HIDE DEF stream
<1>4. CASE answer = [got |-> Positions, late |-> <<>>, gaveUp |-> gaveUp]
  <2>1. <<>> \in Seq(Holding)
    BY EmptySeq
  <2> QED
    BY <1>1, <1>4, <2>1
<1>5. ASSUME NEW from \in 1 .. Len(late) + 1, NEW to \in 0 .. Len(stream),
             answer = [got |-> SubSeq(stream, from, to),
                       late |-> SubSeq(stream, to + 1, Len(stream)), gaveUp |-> TRUE]
      PROVE  /\ answer.got \in Seq(Holding) /\ answer.late \in Seq(Holding)
             /\ answer.gaveUp = TRUE
  <2>1. /\ from \in Int /\ to \in Int /\ from >= 1 /\ to <= Len(stream)
    BY <1>2
  <2>2. \A i \in 1 .. Len(stream) : stream[i] \in Holding
    BY <1>2, ElementOfSeq
  <2>3. \A i \in from .. to : stream[i] \in Holding
    BY <1>2, <2>1, <2>2
  <2>4. SubSeq(stream, from, to) \in Seq(Holding)
    BY <2>1, <2>3, SubSeqProperties
  <2>5. SubSeq(stream, to + 1, Len(stream)) \in Seq(Holding)
    BY <1>2, Drop
  <2> QED
    BY <1>5, <2>4, <2>5
<1> QED
  BY <1>3, <1>4, <1>5

\* Closing orders for chosen positions, all of which are stocks if they are in the
\* ticker: they sell what is held of it.
LEMMA ClosedBy ==
  ASSUME HeldWell, NEW n \in Nat, NEW key, Listed(key, n), NEW t, NEW K,
         \A i \in 1 .. n : i \in K /\ key[i][1] = t => key[i] = <<t, "STK">>
  PROVE  Bought(t, MapSeq(Close, Chosen(Positions, K)))
           = IF \E i \in 1 .. n : i \in K /\ key[i] = <<t, "STK">> THEN -held[<<t, "STK">>] ELSE 0
<1> DEFINE c == Chosen(Positions, K)
           orders == MapSeq(Close, c)
           k == <<t, "STK">>
<1>1. /\ Positions \in Seq(Holding) /\ Len(Positions) = n
      /\ \A i \in 1 .. n : /\ Positions[i].ticker = key[i][1] /\ Positions[i].qty = held[key[i]]
                           /\ key[i] = <<key[i][1], key[i][2]>> /\ key[i] \in DOMAIN held
  BY PositionsAreHoldings
<1> DEFINE q == [i \in 1 .. n |-> -held[key[i]]]
<1>2. q \in [1 .. n -> Int]
  BY <1>1 DEF HeldWell
<1>3. orders = [i \in DOMAIN c |-> [ticker |-> c[i].ticker, qty |-> -c[i].qty]]
  BY DEF MapSeq, Close
<1>4. DOMAIN orders = DOMAIN c
  BY <1>3
<1> HIDE DEF c, orders
<1>5. \A i \in DOMAIN c : \A j \in 1 .. Len(Positions) : j \in K /\ c[i] = Positions[j] =>
        orders[i].ticker = Positions[j].ticker /\ orders[i].qty = q[j]
  BY <1>1, <1>3
<1> DEFINE v == [j \in 1 .. n |-> IF j \in K /\ Positions[j].ticker = t THEN q[j] ELSE 0]
<1>6. v \in [1 .. n -> Int]
  BY <1>2
<1>7. Bought(t, orders) = SumOf(v)
  <2> HIDE DEF q, v
  <2>0. /\ q \in [1 .. Len(Positions) -> Int] /\ c = Chosen(Positions, K)
        /\ Positions \in Seq(Holding)
    BY <1>1, <1>2 DEF c
  <2>1. Bought(t, orders) = SumOf(PartOf(t, Positions, K, q))
    BY <1>4, <1>5, <2>0, BoughtOfChosen
  <2> QED
    BY <1>1, <2>1 DEF v, PartOf
<1>8. \A j \in 1 .. n : v[j] = IF j \in K /\ key[j] = k THEN -held[k] ELSE 0
  BY <1>1
<1> HIDE DEF v, k
<1>9. CASE \E i \in 1 .. n : i \in K /\ key[i] = k
  <2>1. PICK i \in 1 .. n : i \in K /\ key[i] = k
    BY <1>9
  <2>2. \A j \in 1 .. n : j # i => v[j] = 0
    BY <1>8, <2>1 DEF Listed
  <2>3. SumOf(v) = v[i]
    BY <1>6, <2>2, SumOne
  <2> QED
    BY <1>7, <1>8, <2>1, <2>3 DEF orders, c, k
<1>10. CASE ~(\E i \in 1 .. n : i \in K /\ key[i] = k)
  <2>1. \A j \in 1 .. n : v[j] = 0
    BY <1>8, <1>10
  <2>2. SumOf(v) = 0
    BY <1>6, <2>1, SumZero
  <2> QED
    BY <1>7, <1>10, <2>2 DEF orders, c, k
<1> QED
  BY <1>9, <1>10

\* The positions that a program closes, and in which tickers.
Closed(K, tickers, n, key) ==
  /\ \A i \in 1 .. n : i \in K => key[i][2] = "STK" /\ key[i][1] \in tickers
  /\ \A i \in 1 .. n : held[key[i]] # 0 /\ key[i][2] = "STK" /\ key[i][1] \in tickers => i \in K

\* Closing orders for the stocks of some tickers leave none of them, and all else.
LEMMA FlatAfter ==
  ASSUME HeldWell, NEW n \in Nat, NEW key, Listed(key, n), NEW K, NEW tickers,
         Closed(K, tickers, n, key), NEW k \in DOMAIN held
  PROVE  After(MapSeq(Close, Chosen(Positions, K)))[k]
           = IF k[2] = "STK" /\ k[1] \in tickers THEN 0 ELSE held[k]
<1> DEFINE orders == MapSeq(Close, Chosen(Positions, K))
<1>1. /\ k = <<k[1], k[2]>> /\ held[k] \in Int
  BY DEF HeldWell
<1>2. \A i \in 1 .. n : key[i] = <<key[i][1], key[i][2]>>
  BY PositionsAreHoldings
<1>3. After(orders)[k] = IF k[2] = "STK" THEN held[k] + Bought(k[1], orders) ELSE held[k]
  BY DEF After
<1>4. CASE k[2] = "STK"
  <2>1. k = <<k[1], "STK">>
    BY <1>1, <1>4
  <2>2. \A i \in 1 .. n : i \in K /\ key[i][1] = k[1] => key[i] = <<k[1], "STK">>
    BY <1>2 DEF Closed
  <2>3. Bought(k[1], orders)
          = IF \E i \in 1 .. n : i \in K /\ key[i] = <<k[1], "STK">> THEN -held[<<k[1], "STK">>] ELSE 0
    BY <2>2, ClosedBy
  <2>4. Bought(k[1], orders) = IF \E i \in 1 .. n : i \in K /\ key[i] = k THEN -held[k] ELSE 0
    BY <2>1, <2>3
  <2> HIDE DEF orders
  <2>5. CASE k[1] \in tickers
    <3>1. held[k] # 0 => \E i \in 1 .. n : i \in K /\ key[i] = k
      BY <1>4, <2>5 DEF Listed, Closed
    <3>2. PICK h \in Int : h = held[k]
      BY <1>1
    <3>3. Bought(k[1], orders) = -h
      BY <2>4, <3>1, <3>2
    <3>4. After(orders)[k] = 0
      BY <1>3, <1>4, <3>2, <3>3
    <3> QED
      BY <1>4, <2>5, <3>4 DEF orders
  <2>6. CASE k[1] \notin tickers
    <3>1. ~(\E i \in 1 .. n : i \in K /\ key[i] = k)
      BY <2>6 DEF Closed
    <3>2. Bought(k[1], orders) = 0
      BY <2>4, <3>1
    <3>3. After(orders)[k] = held[k]
      BY <1>1, <1>3, <1>4, <3>2
    <3> QED
      BY <1>4, <2>6, <3>3 DEF orders
  <2> QED
    BY <2>5, <2>6
<1>5. CASE k[2] # "STK"
  BY <1>3, <1>5
<1> QED
  BY <1>4, <1>5

-----------------------------------------------------------------------------
(* The adjustments of the announcements.                                   *)

LEMMA PositionType ==
  ASSUME NEW positions \in Seq(Holding), NEW t
  PROVE  Position(t, positions) \in Int
<1> DEFINE Found == {i \in DOMAIN positions : positions[i].ticker = t}
           Is(i) == \A j \in Found : i <= j
           first == CHOOSE i \in Found : Is(i)
<1>1. Position(t, positions) = IF Found = {} THEN 0 ELSE positions[first].qty
  BY DEF Position
<1>2. DOMAIN positions = 1 .. Len(positions) /\ Len(positions) \in Nat
  BY LenProperties
<1>3. CASE Found # {}
  <2>1. \E i \in Found : Is(i)
    <3>1. Found \in SUBSET Nat
      BY <1>2
    <3> HIDE DEF Found
    <3> QED
      BY <1>3, <3>1, Smallest
  <2>2. first \in Found
    <3> HIDE DEF Is, Found
    <3> QED
      BY <2>1
  <2>3. positions[first] \in Holding
    BY <1>2, <2>2, ElementOfSeq
  <2> QED
    BY <1>1, <1>3, <2>3 DEF Holding
<1> QED
  BY <1>1, <1>3

\* The positions tell what is held of a stock, if nothing else is listed in its ticker.
LEMMA PositionOfStock ==
  ASSUME HeldWell, NEW n \in Nat, NEW key, Listed(key, n), NEW t, <<t, "STK">> \in DOMAIN held,
         \A x \in DOMAIN held : x[1] = t /\ x[2] # "STK" => held[x] = 0 /\ x \notin shown
  PROVE  /\ Position(t, Positions) = held[<<t, "STK">>]
         /\ t \notin TickersOf(Positions) => held[<<t, "STK">>] = 0
<1> DEFINE k == <<t, "STK">>
           Found == {i \in DOMAIN Positions : Positions[i].ticker = t}
           first == CHOOSE i \in Found : \A j \in Found : i <= j
<1>1. /\ DOMAIN Positions = 1 .. n
      /\ \A i \in 1 .. n : /\ Positions[i].ticker = key[i][1] /\ Positions[i].secType = key[i][2]
                           /\ Positions[i].qty = held[key[i]]
                           /\ key[i] = <<key[i][1], key[i][2]>> /\ key[i] \in DOMAIN held
  BY PositionsAreHoldings
<1>2. /\ \A i, j \in 1 .. n : key[i] = key[j] => i = j
      /\ \A i \in 1 .. n : held[key[i]] # 0 \/ key[i] \in shown
      /\ held[k] # 0 => \E i \in 1 .. n : key[i] = k
  BY DEF Listed
<1>3. Position(t, Positions) = IF Found = {} THEN 0 ELSE Positions[first].qty
  BY DEF Position
<1>4. t \in TickersOf(Positions) <=> Found # {}
  BY DEF TickersOf
<1>5. \A i \in Found : i \in 1 .. n /\ key[i] = k
  <2> SUFFICES ASSUME NEW i \in Found PROVE i \in 1 .. n /\ key[i] = k
    OBVIOUS
  <2>1. i \in 1 .. n /\ key[i][1] = t
    BY <1>1
  <2>2. key[i][2] = "STK"
    BY <1>1, <1>2, <2>1
  <2> QED
    BY <1>1, <2>1, <2>2
<1>6. CASE Found = {}
  <2>1. held[k] = 0
    BY <1>1, <1>2, <1>6
  <2> QED
    BY <1>3, <1>6, <2>1
<1>7. CASE Found # {}
  <2>1. PICK i \in 1 .. n : key[i] = k
    BY <1>5, <1>7
  <2>2. Found = {i}
    <3>1. i \in Found
      BY <1>1, <2>1
    <3>2. \A j \in Found : j = i
      BY <1>2, <1>5, <2>1
    <3> QED
      BY <3>1, <3>2
  <2>3. first = i
    <3> HIDE DEF Found
    <3> QED
      BY <2>2
  <2>4. Positions[i].qty = held[k]
    BY <1>1, <2>1
  <2> HIDE DEF Found, first, k
  <2> QED
    BY <1>3, <1>4, <1>7, <2>2, <2>3, <2>4 DEF k
<1> QED
  BY <1>6, <1>7

\* What is bought before an announcement comes within 100 shares of the target and
\* the rounding to tens.
LEMMA AnAdjustmentReaches ==
  ASSUME NEW row \in Announcements, NEW qty \in Int, NEW isHeld \in BOOLEAN
  PROVE  LET adjustment == AnAdjustment(row, qty, isHeld)
             target     == (20000 * Dollar) \div row.lmtPrice
         IN /\ adjustment \in Int
            /\ row.day2er >= -2 => adjustment = -qty
            /\ row.day2er \in -20 .. -7 /\ (~isHeld => qty = 0) =>
                 /\ qty + adjustment > target - 100 - 10
                 /\ qty <= target => qty + adjustment <= target
<1>1. PICK p \in Nat \ {0} : p = row.lmtPrice
  BY DEF Announcements
<1>2. row.day2er \in Int
  BY DEF Announcements
<1>3. PICK d \in Nat \ {0} : d = 10 * p
  OBVIOUS
<1>4. PICK z \in Nat : z = 20000 * Dollar
  BY DEF Dollar
<1>5. PICK x \in Nat : x = z \div d
  BY Divide
<1>6. PICK y \in Nat : y = z \div p
  BY Divide
<1>7. z % d \in 0 .. d - 1 /\ z = d * x + (z % d)
  BY <1>5, Divide
<1>8. z % p \in 0 .. p - 1 /\ z = p * y + (z % p)
  BY <1>6, Divide
<1>9. PICK r \in 0 .. d - 1, s \in 0 .. p - 1 : z = d * x + r /\ z = p * y + s
  BY <1>7, <1>8
<1>10. d * x = p * (10 * x)
  BY ONLY <1>3, p \in Nat, x \in Nat
<1>11. 10 * x <= y
  <2> SUFFICES ASSUME 10 * x >= y + 1 PROVE FALSE
    OBVIOUS
  <2>1. p * (10 * x) >= p * (y + 1)
    BY ONLY 10 * x >= y + 1, p \in Nat, x \in Nat, y \in Nat
  <2>2. p * (y + 1) = p * y + p
    OBVIOUS
  <2>3. p * (10 * x) \in Nat /\ p * y \in Nat
    OBVIOUS
  <2> QED
    BY <1>9, <1>10, <2>1, <2>2, <2>3
<1>12. y < 10 * x + 10
  <2> SUFFICES ASSUME y >= 10 * x + 10 PROVE FALSE
    OBVIOUS
  <2>1. p * y >= p * (10 * x + 10)
    BY ONLY y >= 10 * x + 10, p \in Nat, x \in Nat, y \in Nat
  <2>2. p * (10 * x + 10) = p * (10 * x) + 10 * p
    OBVIOUS
  <2>3. p * (10 * x) \in Nat /\ p * y \in Nat
    OBVIOUS
  <2> QED
    BY <1>3, <1>9, <1>10, <2>1, <2>2, <2>3
<1>13. (20000 * Dollar) \div row.lmtPrice = y
  BY <1>1, <1>4, <1>6
<1>14. AnAdjustment(row, qty, isHeld) =
         IF row.day2er > -21 /\ row.day2er <= -7
           THEN IF ~isHeld THEN 10 * x ELSE IF 10 * x - qty >= 100 THEN 10 * x - qty ELSE 0
           ELSE IF row.day2er >= -2 THEN -qty ELSE 0
  <2>1. 10 * ((20000 * Dollar) \div (10 * row.lmtPrice)) = 10 * x
    BY <1>1, <1>3, <1>4, <1>5
  <2>2. CASE row.day2er > -21 /\ row.day2er <= -7
    BY <1>2, <2>1, <2>2 DEF AnAdjustment
  <2>3. CASE ~(row.day2er > -21 /\ row.day2er <= -7) /\ row.day2er >= -2
    BY <1>2, <2>3 DEF AnAdjustment
  <2>4. CASE ~(row.day2er > -21 /\ row.day2er <= -7) /\ ~(row.day2er >= -2)
    BY <1>2, <2>4 DEF AnAdjustment
  <2> QED
    BY <2>2, <2>3, <2>4
<1> DEFINE a == AnAdjustment(row, qty, isHeld)
<1>15. a \in Int
  BY <1>14
<1>16. row.day2er >= -2 => a = -qty
  BY <1>2, <1>14
<1>17. row.day2er \in -20 .. -7 /\ (~isHeld => qty = 0) =>
         /\ qty + a > y - 100 - 10
         /\ qty <= y => qty + a <= y
  BY <1>2, <1>11, <1>12, <1>14
<1> QED
  BY <1>13, <1>15, <1>16, <1>17

\* What genANOrder orders of a ticker is the adjustment of its row.
LEMMA ANOrders ==
  ASSUME csv \in Seq(Announcements), OneRow, NEW got \in Seq(Holding)
  PROVE  /\ \A i \in DOMAIN GenANOrder(csv, got) : GenANOrder(csv, got)[i].qty \in Int
         /\ \A i \in DOMAIN csv :
              Bought(csv[i].ticker, GenANOrder(csv, got))
                = AnAdjustment(csv[i], Position(csv[i].ticker, got), csv[i].ticker \in TickersOf(got))
<1> DEFINE Held(row) == row.ticker \in TickersOf(got)
           Qty(row) == AnAdjustment(row, Position(row.ticker, got), Held(row))
           Ordered(row) == Qty(row) # 0 \/ (row.day2er > -21 /\ row.day2er <= -7 /\ ~Held(row))
           K == {i \in DOMAIN csv : Ordered(csv[i])}
           c == Chosen(csv, K)
           orders == GenANOrder(csv, got)
<1>1. orders = [i \in DOMAIN c |-> [ticker |-> c[i].ticker, price |-> c[i].lmtPrice, qty |-> Qty(c[i])]]
  BY DEF GenANOrder, Where, MapSeq
<1>2. PICK n \in Nat : n = Len(csv) /\ DOMAIN csv = 1 .. n /\ \A i \in 1 .. n : csv[i] \in Announcements
  BY LenProperties, ElementOfSeq
<1>3. \A row \in Announcements : Qty(row) \in Int
  <2> SUFFICES ASSUME NEW row \in Announcements PROVE Qty(row) \in Int
    OBVIOUS
  <2>1. PICK p \in Int : p = Position(row.ticker, got)
    BY PositionType
  <2>2. AnAdjustment(row, p, TRUE) \in Int /\ AnAdjustment(row, p, FALSE) \in Int
    <3>1. \A b \in BOOLEAN : AnAdjustment(row, p, b) \in Int
      BY AnAdjustmentReaches
    <3> QED
      BY <3>1, Zenon
  <2>3. CASE Held(row)
    <3>1. Qty(row) = AnAdjustment(row, p, TRUE)
      BY <2>1, <2>3 DEF AnAdjustment
    <3> QED
      BY <2>2, <3>1
  <2>4. CASE ~Held(row)
    <3>1. Qty(row) = AnAdjustment(row, p, FALSE)
      BY <2>1, <2>4 DEF AnAdjustment
    <3> QED
      BY <2>2, <3>1
  <2> QED
    BY <2>3, <2>4
<1>4. \A i \in 1 .. n : i \notin K => Qty(csv[i]) = 0
  BY <1>2
<1> HIDE DEF Qty, K
<1> DEFINE q == [i \in 1 .. n |-> Qty(csv[i])]
<1>5. q \in [1 .. n -> Int]
  BY <1>2, <1>3
<1>6. c \in Seq(Announcements) /\ DOMAIN c = 1 .. Len(c)
  <2>1. c \in Seq(Announcements)
    BY ChosenFacts
  <2> QED
    BY <2>1, LenProperties
<1> HIDE DEF c, orders
<1>7. \A i \in DOMAIN orders : orders[i].qty \in Int
  <2>1. \A i \in DOMAIN c : c[i] \in Announcements
    BY <1>6, ElementOfSeq
  <2> QED
    BY <1>1, <1>3, <2>1
<1>8. ASSUME NEW i \in DOMAIN csv
      PROVE  Bought(csv[i].ticker, orders) = Qty(csv[i])
  <2> DEFINE t == csv[i].ticker
             v == [k \in 1 .. n |-> IF k \in K /\ csv[k].ticker = t THEN q[k] ELSE 0]
  <2>1. Bought(t, orders) = SumOf(v)
    <3>1. DOMAIN orders = DOMAIN c
      BY <1>1
    <3>2. \A j \in DOMAIN c : \A k \in 1 .. Len(csv) : k \in K /\ c[j] = csv[k] =>
            orders[j].ticker = csv[k].ticker /\ orders[j].qty = q[k]
      BY <1>1, <1>2
    <3>3. q \in [1 .. Len(csv) -> Int] /\ c = Chosen(csv, K)
      BY <1>2, <1>5 DEF c
    <3> HIDE DEF q, t, v
    <3>4. PICK file \in Seq(Announcements) : file = csv
      OBVIOUS
    <3>5. /\ q \in [1 .. Len(file) -> Int] /\ c = Chosen(file, K)
          /\ \A j \in DOMAIN c : \A k \in 1 .. Len(file) : k \in K /\ c[j] = file[k] =>
               orders[j].ticker = file[k].ticker /\ orders[j].qty = q[k]
      BY <3>2, <3>3, <3>4
    <3>6. Bought(t, orders) = SumOf(PartOf(t, file, K, q))
      BY <3>1, <3>5, BoughtOfChosen
    <3> QED
      BY <1>2, <3>4, <3>6 DEF v, PartOf
  <2>2. v \in [1 .. n -> Int]
    <3> HIDE DEF q
    <3> QED
      BY <1>5
  <2>3. \A k \in 1 .. n : k # i => v[k] = 0
    BY <1>2 DEF OneRow
  <2>4. v[i] = Qty(csv[i])
    BY <1>2, <1>4
  <2>5. SumOf(v) = v[i]
    <3>1. PICK x : x = v
      OBVIOUS
    <3>2. i \in 1 .. n /\ x \in [1 .. n -> Int] /\ \A k \in 1 .. n : k # i => x[k] = 0
      BY <1>2, <2>2, <2>3, <3>1, Zenon
    <3>3. SumOf(x) = x[i]
      BY ONLY <3>2, n \in Nat, SumOne
    <3> QED
      BY <3>1, <3>3, Zenon
  <2> QED
    BY <2>1, <2>4, <2>5
<1> QED
  BY <1>7, <1>8 DEF orders, Qty

-----------------------------------------------------------------------------
(* Single orders.                                                          *)

LEMMA BoughtByOne ==
  ASSUME NEW o, o.qty \in Int, NEW t
  PROVE  Bought(t, <<o>>) = IF o.ticker = t THEN o.qty ELSE 0
<1> DEFINE v == [i \in 1 .. 1 |-> IF o.ticker = t THEN o.qty ELSE 0]
<1>1. v \in [1 .. 1 -> Int] /\ v[1] = (IF o.ticker = t THEN o.qty ELSE 0) /\ 1 \in 1 .. 1
  OBVIOUS
<1>2. DOMAIN <<o>> = 1 .. 1 /\ \A i \in 1 .. 1 : <<o>>[i] = o
  OBVIOUS
<1>3. [i \in DOMAIN <<o>> |-> IF <<o>>[i].ticker = t THEN <<o>>[i].qty ELSE 0] = v
  BY <1>2
<1>4. \A k \in 1 .. 1 : k # 1 => v[k] = 0
  OBVIOUS
<1>5. SumOf(v) = v[1]
  <2> HIDE DEF v
  <2> QED
    BY <1>1, <1>4, SumOne
<1> QED
  BY <1>1, <1>3, <1>5, BoughtIsSum

LEMMA RemovedSeq ==
  ASSUME NEW S, NEW s \in Seq(S), NEW i \in DOMAIN s
  PROVE  RemoveAt(s, i) \in Seq(S)
<1>1. Len(s) \in Nat /\ i \in 1 .. Len(s) /\ \A j \in 1 .. Len(s) : s[j] \in S
  BY LenProperties, ElementOfSeq
<1>2. SubSeq(s, 1, i - 1) \in Seq(S)
  <2>1. 1 \in Int /\ i - 1 \in Int /\ \A j \in 1 .. i - 1 : s[j] \in S
    BY <1>1
  <2> QED
    BY <2>1, SubSeqProperties
<1>3. SubSeq(s, i + 1, Len(s)) \in Seq(S)
  <2>1. i + 1 \in Int /\ Len(s) \in Int /\ \A j \in i + 1 .. Len(s) : s[j] \in S
    BY <1>1
  <2> QED
    BY <2>1, SubSeqProperties
<1> QED
  BY <1>2, <1>3, ConcatProperties DEF RemoveAt

-----------------------------------------------------------------------------
(* The inductive invariant.                                                *)

\* What each program goes through, with the rows of which file.
Jobs ==
  /\ job \in {"signals", "an", "trades", "close", "closeAll"}
  /\ job = "signals" => /\ pc \in {"size", "remove", "undefined", "sized", "round", "hedge", "split", "sent"}
                        /\ csv \in SignalFiles
  /\ job = "an" => pc \in {"size", "sent"} /\ csv \in AnFiles
  /\ job = "trades" => /\ pc \in {"size", "round", "send", "poll", "positions", "close",
                                  "closing", "end"}
                       /\ csv \in TradeFiles
  /\ job \in {"close", "closeAll"} => pc \in {"close", "closing", "end"} /\ csv = <<>>

Sizing == [list : Lists, power : Powers \cup {0}, stock : Int,
           exposure : [spx : Int, rut : Int], branch : {"none", "whole", "factor", "remove"},
           residue : BOOLEAN]

\* The lists that are there, and what the program sizes.
ListsThere ==
  /\ sizing \in Sizing
  /\ DOMAIN ord \subseteq Lists \cup {"loo", "vwap", "hedge", "close"}
  /\ \A l \in DOMAIN ord : \A i \in DOMAIN ord[l] : ord[l][i].qty \in Int
  /\ job = "signals" =>
       /\ pc \in {"size", "remove", "sized"} => (sizing.list = "lt" => "ly" \in DOMAIN ord)
       /\ pc \in {"remove", "sized"} => sizing.list \in DOMAIN ord
       /\ pc \in {"size", "remove", "sized", "round", "hedge"} => DOMAIN ord \subseteq Lists
       /\ pc \in {"round", "hedge", "split"} => Lists \subseteq DOMAIN ord
  /\ job = "trades" =>
       /\ pc = "size" => DOMAIN ord = {}
       /\ pc \in {"round", "send"} => DOMAIN ord = {"lt"}
       /\ pc \in {"poll", "positions", "close"} => "lt" \in DOMAIN ord
  /\ pc = "closing" => "close" \in DOMAIN ord

\* The orders of the signals are those of the file, and until they are rounded they
\* have its prices; the running values are those of the list.
SignalOrders ==
  job = "signals" =>
    /\ pc # "sent" => \A l \in DOMAIN ord \cap Lists : FromFile(csv, ord[l])
    /\ pc \in {"size", "remove", "sized", "round"} =>
         \A l \in DOMAIN ord \cap Lists : AtFilePrice(csv, ord[l])
    /\ pc \in {"remove", "sized"} =>
         /\ sizing.stock = StockValue(ord[sizing.list])
         /\ sizing.exposure = OrderHedgeCal(ord[sizing.list])
    /\ pc = "remove" => sizing.branch = "remove"

\* There is one order for a row of the file of trades.
TradeOrders ==
  job = "trades" =>
    /\ pc \in {"round", "send", "poll", "positions", "close"} =>
         ord["lt"] \in Seq(TradeOrder) /\ TickersOf(ord["lt"]) = TickersOf(csv)
    /\ pc = "round" => AtFilePrice(csv, ord["lt"])

\* Orders in the tickers of a file.
OrdersIn(file) == {o \in TradeOrder : o.ticker \in TickersOf(file)}

\* Until positions are closed, the account has changed by orders of the day alone, which
\* are over when the program goes on without having given up.
Account ==
  /\ before \in Holdings /\ DOMAIN held = DOMAIN before /\ shown \subseteq DOMAIN held
  /\ \A k \in DOMAIN held : held[k] \in Int
  /\ open \in Seq(OrdersIn(csv))
  /\ job # "trades" \/ pc \in {"size", "round", "send"} => open = <<>>
  /\ ~gaveUp /\ pc \in {"positions", "close", "closing", "end"} => open = <<>>
  /\ pc # "end" => \A k \in DOMAIN held :
       held[k] = before[k] \/ (job = "trades" /\ k[2] = "STK" /\ k[1] \in TickersOf(csv))

\* Nothing is late unless a query has given up.
Answered ==
  /\ polls \in 0 .. MaxPolls /\ gaveUp \in BOOLEAN
  /\ late \in Seq(Holding)
  /\ ~gaveUp => late = <<>>

\* The closing orders make the account flat.
ClosesAll ==
  pc = "closing" =>
    /\ ord["close"] \in Seq(CloseOrder)
    /\ ~gaveUp /\ (job = "close" \/ OnlyStocks(Closing)) =>
         \A k \in DOMAIN held :
           After(ord["close"])[k] = IF k[2] = "STK" /\ k[1] \in Closing THEN 0 ELSE before[k]

\* An adjustment that leaves `after` of the `old` shares reaches the target of its row, and
\* does not go beyond it.
Reached(row, after, old) ==
  LET target == (20000 * Dollar) \div row.lmtPrice
  IN /\ row.day2er >= -2 => after = 0
     /\ row.day2er \in -20 .. -7 =>
          /\ after > target - 100 - 10
          /\ old <= target => after <= target

\* AdjustedToTarget, in terms of this.
AllReached ==
  SeesStocks =>
    \A i \in DOMAIN csv :
      Reached(csv[i], After(ord["lt"])[<<csv[i].ticker, "STK">>], before[<<csv[i].ticker, "STK">>])

IInv ==
  /\ Jobs /\ ListsThere /\ SignalOrders /\ TradeOrders /\ Account /\ Answered /\ ClosesAll
  /\ WithinBuyingPower /\ RoundedForTrader /\ HedgeLeavesLittle
  /\ SplitAddsUp /\ AuctionWithinVolume /\ AllReached /\ FlatAtEnd

\* Each program has rows of its kind.
LEMMA FileFacts ==
  ASSUME Jobs
  PROVE  /\ job = "signals" => csv \in Seq(Signals) /\ OneRow
         /\ job = "an" => csv \in Seq(Announcements) /\ OneRow
         /\ job = "trades" => csv \in Seq(Trades) /\ OneRow
BY TradingDayAssumption DEF Jobs, Files, OneRow

LEMMA AccountFacts ==
  ASSUME Account
  PROVE  HeldWell
BY TradingDayAssumption DEF Account, HeldWell

LEMMA SizingFacts ==
  ASSUME sizing \in Sizing
  PROVE  /\ sizing.power \in Int /\ sizing.stock \in Int
         /\ sizing.exposure.spx \in Int /\ sizing.exposure.rut \in Int
<1>1. /\ sizing.power \in Powers \cup {0} /\ sizing.stock \in Int
      /\ sizing.exposure \in [spx : Int, rut : Int]
  BY DEF Sizing
<1>2. sizing.power \in Int
  <2>1. Powers \subseteq Int
    BY TradingDayAssumption
  <2>2. PICK power : power = sizing.power
    OBVIOUS
  <2>3. power \in Powers \cup {0}
    BY <1>1, <2>2
  <2>4. power \in Int
    BY ONLY <2>1, <2>3
  <2> QED
    BY <2>2, <2>4
<1> QED
  BY <1>1, <1>2

\* What is said of one step of one program holds elsewhere.
LEMMA Elsewhere ==
  /\ pc' # "sized" => WithinBuyingPower'
  /\ pc' \notin {"hedge", "send"} => RoundedForTrader'
  /\ pc' # "split" => HedgeLeavesLittle'
  /\ pc' # "sent" => SplitAddsUp' /\ AuctionWithinVolume' /\ AllReached'
  /\ pc' # "end" => FlatAtEnd'
  /\ pc' # "closing" => ClosesAll'
  /\ job' # "signals" => SignalOrders' /\ SplitAddsUp' /\ AuctionWithinVolume'
  /\ job' # "trades" => TradeOrders'
  /\ job' # "an" => AllReached'
<1>1. pc' # "sized" => WithinBuyingPower'
  BY DEF WithinBuyingPower
<1>2. pc' \notin {"hedge", "send"} => RoundedForTrader'
  BY DEF RoundedForTrader
<1>3. pc' # "split" => HedgeLeavesLittle'
  BY DEF HedgeLeavesLittle
<1>4. pc' # "sent" \/ job' # "signals" => SplitAddsUp' /\ AuctionWithinVolume'
  BY DEF SplitAddsUp, AuctionWithinVolume
<1>5. pc' # "sent" \/ job' # "an" => AllReached'
  BY DEF AllReached, SeesStocks
<1>6. pc' # "end" => FlatAtEnd'
  BY DEF FlatAtEnd
<1>7. pc' # "closing" => ClosesAll'
  BY DEF ClosesAll
<1>8. job' # "signals" => SignalOrders'
  BY DEF SignalOrders
<1>9. job' # "trades" => TradeOrders'
  BY DEF TradeOrders
<1> QED
  BY <1>1, <1>2, <1>3, <1>4, <1>5, <1>6, <1>7, <1>8, <1>9

LEMMA InitIInv ==
  ASSUME Init
  PROVE  IInv
<1>1. Jobs
  BY DEF Init, Jobs
<1>2. sizing \in Sizing
  BY DEF Init, Sizing, NoSizing, Lists
<1>3. ord = [l \in {} |-> <<>>] /\ DOMAIN ord = {} /\ sizing.list = "ly"
  BY DEF Init, NoSizing
<1>4. pc \in {"size", "close"} /\ (job = "signals" => pc = "size") /\ (job = "trades" => pc = "size")
  BY DEF Init
<1>5. ListsThere
  BY <1>2, <1>3, <1>4 DEF ListsThere
<1>6. SignalOrders /\ TradeOrders
  BY <1>3, <1>4 DEF SignalOrders, TradeOrders
<1>7. Account
  <2>1. /\ held \in Holdings /\ shown \subseteq DOMAIN held /\ before = held /\ open = <<>>
    BY DEF Init
  <2>2. open \in Seq(OrdersIn(csv))
    BY <2>1, EmptySeq
  <2>3. \A k \in DOMAIN held : held[k] \in Int
    BY <2>1, TradingDayAssumption
  <2> QED
    BY <2>1, <2>2, <2>3 DEF Account
<1>8. Answered
  <2>1. late \in Seq(Holding)
    BY EmptySeq DEF Init
  <2>2. MaxPolls \in Nat
    BY TradingDayAssumption
  <2>3. polls \in 0 .. MaxPolls
    BY <2>2 DEF Init
  <2>4. gaveUp \in BOOLEAN /\ late = <<>>
    BY DEF Init
  <2> QED
    BY <2>1, <2>3, <2>4, Zenon DEF Answered
<1>9. ClosesAll /\ FlatAtEnd
  BY <1>4 DEF ClosesAll, FlatAtEnd
<1>10. WithinBuyingPower /\ RoundedForTrader /\ HedgeLeavesLittle
  BY <1>4 DEF WithinBuyingPower, RoundedForTrader, HedgeLeavesLittle
<1>11. SplitAddsUp /\ AuctionWithinVolume /\ AllReached
  BY <1>4 DEF SplitAddsUp, AuctionWithinVolume, AllReached, SeesStocks
<1> QED
  BY <1>1, <1>5, <1>6, <1>7, <1>8, <1>9, <1>10, <1>11 DEF IInv

-----------------------------------------------------------------------------
(* genOrder.                                                               *)

\* Orders scaled by power / value are worth no more than the power, if the unscaled
\* ones are worth no more than the value.
LEMMA Ratio ==
  ASSUME NEW value \in Nat \ {0}, NEW power \in Nat, NEW x \in Int, NEW y \in Int,
         value * x <= power * y, y <= value
  PROVE  x <= power
<1>1. power * y <= power * value
  BY ONLY y <= value, power \in Nat, y \in Int, value \in Nat
<1>2. value * x <= power * value
  BY ONLY <1>1, value * x <= power * y, value \in Nat, x \in Int, y \in Int, power \in Nat
<1> SUFFICES ASSUME x >= power + 1 PROVE FALSE
  OBVIOUS
<1>3. value * x >= value * (power + 1)
  BY ONLY x >= power + 1, value \in Nat, x \in Int, power \in Nat
<1>4. value * (power + 1) = power * value + value
  OBVIOUS
<1>5. power * value \in Int /\ value * x \in Int
  OBVIOUS
<1> QED
  BY ONLY <1>2, <1>3, <1>4, <1>5, value \in Nat \ {0}

\* Scaling all orders by power / value brings what they cost within the power.
LEMMA FactorWithin ==
  ASSUME csv \in Seq(Signals), Moderate, NEW orders, FromFile(csv, orders),
         NEW power \in Nat, NEW value \in Nat \ {0}, ValueOf(orders) <= value
  PROVE  ValueOf(Scaled(orders, power, value)) <= power
<1> DEFINE r == Scaled(orders, power, value)
<1>1. /\ FromFile(csv, r) /\ Len(r) = Len(orders)
      /\ \A i \in DOMAIN orders :
           /\ r[i] = [orders[i] EXCEPT !.qty = r[i].qty]
           /\ orders[i].qty > 0 => r[i].qty >= 0
           /\ orders[i].qty <= 0 => r[i].qty <= 0
           /\ value * Magnitude(r[i].qty) <= power * Magnitude(orders[i].qty)
  BY ScaledFromFile
<1>2. orders \in Seq(Order) /\ r \in Seq(Order) /\ DOMAIN orders = 1 .. Len(orders)
  BY <1>1, LenProperties DEF FromFile
<1>3. \A i \in DOMAIN orders : orders[i].spx + orders[i].rut <= 1
  <2> SUFFICES ASSUME NEW i \in DOMAIN orders PROVE orders[i].spx + orders[i].rut <= 1
    OBVIOUS
  <2>1. PICK j \in DOMAIN csv : csv[j].ticker = orders[i].ticker
    BY DEF FromFile, TickersOf
  <2>2. orders[i].spx = csv[j].spx /\ orders[i].rut = csv[j].rut
    BY <2>1 DEF FromFile
  <2>3. csv[j].spx + csv[j].rut <= 1
    BY DEF Moderate
  <2> QED
    BY <2>2, <2>3
<1> HIDE DEF r
<1>4. /\ ValueOf(orders) \in Int /\ ValueOf(r) \in Int
      /\ value * ValueOf(r) <= power * ValueOf(orders)
  BY <1>1, <1>2, <1>3, ScaledValue
<1>5. PICK x \in Int, y \in Int : /\ x = ValueOf(r) /\ y = ValueOf(orders)
                                  /\ value * x <= power * y /\ y <= value
  BY <1>4
<1>6. x <= power
  BY <1>5, Ratio
<1> QED
  BY <1>5, <1>6 DEF r

\* What genOrder leaves in a list.
LEMMA GenOrderResult ==
  ASSUME csv \in Seq(Signals), OneRow, NEW list \in Lists, NEW power \in Powers,
         NEW sorted \in Sortings(csv), NEW rows, rows = Traded(sorted, Budget[list], MaxPer[list]),
         NEW orders, orders = SizedOrders(rows, Budget[list], MaxPer[list]),
         NEW value, value = SizedValue(rows, Budget[list], MaxPer[list])
  PROVE  /\ FromFile(csv, orders) /\ AtFilePrice(csv, orders)
         /\ FromFile(csv, Scaled(orders, 67, 100)) /\ AtFilePrice(csv, Scaled(orders, 67, 100))
         /\ value \in Nat /\ power \in Int
         /\ Moderate /\ ~TooMuch(value, power) => ValueOf(orders) <= power
         /\ TooMuch(value, power) /\ ~FarTooMuch(value, power) =>
              /\ FromFile(csv, Scaled(orders, power, value))
              /\ AtFilePrice(csv, Scaled(orders, power, value))
              /\ Moderate => ValueOf(Scaled(orders, power, value)) <= power
<1>1. power \in Int /\ Budget[list] \in Nat /\ MaxPer[list] \in Nat
  BY TradingDayAssumption DEF Lists
<1>2. RowsOfFile(rows)
  BY SortedRows, TradedRows
<1>3. FromFile(csv, orders) /\ AtFilePrice(csv, orders)
  BY <1>1, <1>2, SizedFromFile
<1>4. value \in Nat /\ (Moderate => ValueOf(orders) <= value)
  BY <1>1, <1>2, SizedValueBound
<1>5. FromFile(csv, Scaled(orders, 67, 100)) /\ AtFilePrice(csv, Scaled(orders, 67, 100))
  <2>1. PICK num \in Nat, den \in Nat \ {0} : num = 67 /\ den = 100
    OBVIOUS
  <2>2. FromFile(csv, Scaled(orders, num, den)) /\ AtFilePrice(csv, Scaled(orders, num, den))
    BY <1>3, ScaledFromFile
  <2> QED
    BY <2>1, <2>2
<1>6. ASSUME Moderate, ~TooMuch(value, power)
      PROVE  ValueOf(orders) <= power
  <2>1. PICK v \in Int : v = ValueOf(orders)
    <3>1. StockValue(orders) \in Int /\ OrderHedgeCal(orders).spx \in Int /\ OrderHedgeCal(orders).rut \in Int
      BY <1>3, ValueTypes DEF FromFile
    <3>2. ValueOf(orders) \in Int
      BY <3>1, ValueBound DEF ValueOf
    <3> QED
      BY <3>2
  <2>2. v <= value /\ value <= power
    BY <1>1, <1>4, <1>6, <2>1 DEF TooMuch
  <2> QED
    BY <1>1, <1>4, <2>1, <2>2
<1>7. ASSUME TooMuch(value, power), ~FarTooMuch(value, power)
      PROVE  /\ FromFile(csv, Scaled(orders, power, value))
             /\ AtFilePrice(csv, Scaled(orders, power, value))
             /\ Moderate => ValueOf(Scaled(orders, power, value)) <= power
  <2>1. power \in Nat /\ value \in Nat \ {0}
    BY <1>1, <1>4, <1>7 DEF TooMuch, FarTooMuch
  <2>2. FromFile(csv, Scaled(orders, power, value)) /\ AtFilePrice(csv, Scaled(orders, power, value))
    BY <1>3, <2>1, ScaledFromFile
  <2>3. Moderate => ValueOf(Scaled(orders, power, value)) <= power
    BY <1>3, <1>4, <2>1, FactorWithin
  <2> QED
    BY <2>2, <2>3
<1> QED
  BY <1>1, <1>3, <1>4, <1>5, <1>6, <1>7

LEMMA GenOrderKeeps ==
  ASSUME IInv, GenOrder
  PROVE  IInv'
<1>1. /\ job = "signals" /\ pc = "size" /\ csv \in Seq(Signals) /\ OneRow
      /\ job' = job /\ csv' = csv /\ held' = held /\ shown' = shown /\ before' = before /\ open' = open
      /\ polls' = polls /\ late' = late /\ gaveUp' = gaveUp
  BY FileFacts DEF IInv, GenOrder, account, queries
<1>2. sizing \in Sizing /\ sizing.list \in Lists
  BY DEF IInv, ListsThere, Sizing
<1>3. PICK list \in Lists : list = sizing.list
  BY <1>2
<1> DEFINE Sizes(l, power, sorted, residue) ==
       LET rows   == Traded(sorted, Budget[l], MaxPer[l])
           orders == SizedOrders(rows, Budget[l], MaxPer[l])
           value  == SizedValue(rows, Budget[l], MaxPer[l])
           branch == IF ~TooMuch(value, power) THEN "whole"
                     ELSE IF FarTooMuch(value, power) THEN "remove" ELSE "factor"
           result == CASE branch = "whole"  -> orders
                       [] branch = "factor" -> Scaled(orders, power, value)
                       [] branch = "remove" -> Scaled(orders, 67, 100)
       IN /\ residue => branch = "remove" /\ StockValue(result) # 0
          /\ ord' = With(l, result)
          /\ sizing' = [list |-> l, power |-> power, branch |-> branch, residue |-> residue,
                        stock |-> StockValue(result), exposure |-> OrderHedgeCal(result)]
          /\ pc' = IF branch = "remove" THEN "remove" ELSE "sized"
<1>4. PICK power \in Powers, sorted \in Sortings(csv), residue \in BOOLEAN :
             Sizes(list, power, sorted, residue)
  <2>1. \E power \in Powers, sorted \in Sortings(csv), residue \in BOOLEAN :
          Sizes(sizing.list, power, sorted, residue)
    BY Zenon DEF GenOrder
  <2> HIDE DEF Sizes
  <2> QED
    BY <1>3, <2>1
<1>5. PICK rows : rows = Traded(sorted, Budget[list], MaxPer[list])
  OBVIOUS
<1>6. PICK orders : orders = SizedOrders(rows, Budget[list], MaxPer[list])
  OBVIOUS
<1>7. PICK value : value = SizedValue(rows, Budget[list], MaxPer[list])
  OBVIOUS
<1>8. PICK branch : branch = IF ~TooMuch(value, power) THEN "whole"
                             ELSE IF FarTooMuch(value, power) THEN "remove" ELSE "factor"
  OBVIOUS
<1>9. PICK result : result = CASE branch = "whole"  -> orders
                               [] branch = "factor" -> Scaled(orders, power, value)
                               [] branch = "remove" -> Scaled(orders, 67, 100)
  OBVIOUS
<1>10. /\ ord' = With(list, result)
       /\ sizing' = [list |-> list, power |-> power, branch |-> branch, residue |-> residue,
                     stock |-> StockValue(result), exposure |-> OrderHedgeCal(result)]
       /\ pc' = IF branch = "remove" THEN "remove" ELSE "sized"
  BY <1>4, <1>5, <1>6, <1>7, <1>8, <1>9, Zenon
<1>11. /\ FromFile(csv, orders) /\ AtFilePrice(csv, orders)
       /\ FromFile(csv, Scaled(orders, 67, 100)) /\ AtFilePrice(csv, Scaled(orders, 67, 100))
       /\ power \in Int
       /\ Moderate /\ ~TooMuch(value, power) => ValueOf(orders) <= power
       /\ TooMuch(value, power) /\ ~FarTooMuch(value, power) =>
            /\ FromFile(csv, Scaled(orders, power, value))
            /\ AtFilePrice(csv, Scaled(orders, power, value))
            /\ Moderate => ValueOf(Scaled(orders, power, value)) <= power
  BY <1>1, <1>5, <1>6, <1>7, GenOrderResult
<1>12. /\ branch \in {"whole", "factor", "remove"}
       /\ branch = "whole" => result = orders /\ ~TooMuch(value, power)
       /\ branch = "factor" => /\ result = Scaled(orders, power, value)
                               /\ TooMuch(value, power) /\ ~FarTooMuch(value, power)
       /\ branch = "remove" => result = Scaled(orders, 67, 100)
  BY <1>8, <1>9
<1>13. /\ FromFile(csv, result) /\ AtFilePrice(csv, result)
       /\ branch # "remove" /\ Moderate => ValueOf(result) <= power
  BY <1>11, <1>12
<1>14. /\ StockValue(result) \in Int /\ OrderHedgeCal(result) \in [spx : Int, rut : Int]
       /\ \A i \in DOMAIN result : result[i].qty \in Int
  <2>1. result \in Seq(Order)
    BY <1>13 DEF FromFile
  <2>2. DOMAIN result = 1 .. Len(result) /\ \A i \in 1 .. Len(result) : result[i] \in Order
    BY <2>1, ValueTypes
  <2>3. StockValue(result) \in Int /\ OrderHedgeCal(result).spx \in Int /\ OrderHedgeCal(result).rut \in Int
    BY <2>1, ValueTypes
  <2>4. OrderHedgeCal(result) \in [spx : Int, rut : Int]
    BY <2>3 DEF OrderHedgeCal
  <2> QED
    BY <2>2, <2>3, <2>4 DEF Order
<1>15. /\ DOMAIN ord' = DOMAIN ord \cup {list} /\ ord'[list] = result
       /\ \A l \in DOMAIN ord : l # list => ord'[l] = ord[l]
  BY <1>10 DEF With
<1>16. /\ pc' \in {"remove", "sized"} /\ (pc' = "remove" <=> branch = "remove")
       /\ sizing'.list = list /\ sizing'.power = power /\ sizing'.branch = branch
       /\ sizing'.stock = StockValue(result) /\ sizing'.exposure = OrderHedgeCal(result)
  BY <1>10, <1>12
<1>17. sizing' \in Sizing
  BY <1>10, <1>12, <1>14 DEF Sizing
<1>18. /\ DOMAIN ord \subseteq Lists /\ (list = "lt" => "ly" \in DOMAIN ord)
       /\ \A l \in DOMAIN ord : \A i \in DOMAIN ord[l] : ord[l][i].qty \in Int
       /\ \A l \in DOMAIN ord : FromFile(csv, ord[l]) /\ AtFilePrice(csv, ord[l])
  BY <1>1, <1>3 DEF IInv, ListsThere, SignalOrders
<1>19. Jobs'
  BY <1>1, <1>16 DEF IInv, Jobs
<1>20. ListsThere'
  <2>1. /\ DOMAIN ord' \subseteq Lists /\ list \in DOMAIN ord'
        /\ (list = "lt" => "ly" \in DOMAIN ord')
    BY <1>15, <1>18
  <2>2. \A l \in DOMAIN ord' : \A i \in DOMAIN ord'[l] : ord'[l][i].qty \in Int
    BY <1>14, <1>15, <1>18
  <2> QED
    BY <1>1, <1>16, <1>17, <2>1, <2>2 DEF ListsThere
<1>21. SignalOrders'
  <2>1. \A l \in DOMAIN ord' : FromFile(csv, ord'[l]) /\ AtFilePrice(csv, ord'[l])
    BY <1>13, <1>15, <1>18
  <2> QED
    BY <1>1, <1>15, <1>16, <2>1 DEF SignalOrders
<1>22. Account'
  BY <1>1, <1>16 DEF IInv, Account
<1>23. Answered'
  BY <1>1 DEF IInv, Answered
<1>24. WithinBuyingPower'
  <2>1. pc' = "sized" => branch # "remove"
    BY <1>16
  <2>2. Moderate' <=> Moderate
    BY <1>1 DEF Moderate
  <2>3. ValueOf(ord'[sizing'.list]) = ValueOf(result)
    BY <1>15, <1>16
  <2> QED
    BY <1>13, <1>16, <2>1, <2>2, <2>3 DEF WithinBuyingPower, ValueOf
<1> QED
  BY <1>1, <1>16, <1>19, <1>20, <1>21, <1>22, <1>23, <1>24, Elsewhere DEF IInv

\* An empty list is worth nothing and, for any buying power above that, not too much.
LEMMA FindsOrder ==
  ASSUME IInv
  PROVE  RemovalFindsOrder
<1> SUFFICES ASSUME pc = "remove", StillTooMuch, sizing.power > 0, ord[sizing.list] = <<>>
             PROVE  FALSE
  BY DEF RemovalFindsOrder
<1>1. job = "signals"
  BY DEF IInv, Jobs
<1>2. sizing.stock = StockValue(<<>>) /\ sizing.exposure = OrderHedgeCal(<<>>)
  BY <1>1 DEF IInv, SignalOrders
<1>3. sizing.stock = 0 /\ sizing.exposure.spx = 0 /\ sizing.exposure.rut = 0
  BY <1>2, ValueOfNone
<1>4. TradeValue(sizing.stock, sizing.exposure) = 0
  BY <1>3 DEF TradeValue, Magnitude
<1>5. sizing.power \in Int
  BY SizingFacts DEF IInv, ListsThere
<1> QED
  BY <1>4, <1>5 DEF StillTooMuch

LEMMA RemoveLastKeeps ==
  ASSUME IInv, RemoveLast
  PROVE  IInv'
<1>1. /\ pc = "remove" /\ pc' = pc /\ job' = job /\ csv' = csv
      /\ held' = held /\ shown' = shown /\ before' = before /\ open' = open
      /\ polls' = polls /\ late' = late /\ gaveUp' = gaveUp
  BY DEF RemoveLast, account, queries
<1>2. job = "signals"
  BY <1>1 DEF IInv, Jobs
<1>3. PICK list \in Lists : list = sizing.list
  BY DEF IInv, ListsThere, Sizing
<1>4. /\ sizing \in Sizing /\ list \in DOMAIN ord /\ DOMAIN ord \subseteq Lists
      /\ (list = "lt" => "ly" \in DOMAIN ord)
      /\ \A l \in DOMAIN ord : \A i \in DOMAIN ord[l] : ord[l][i].qty \in Int
      /\ \A l \in DOMAIN ord : FromFile(csv, ord[l]) /\ AtFilePrice(csv, ord[l])
      /\ sizing.stock = StockValue(ord[list]) /\ sizing.exposure = OrderHedgeCal(ord[list])
      /\ sizing.branch = "remove"
  BY <1>1, <1>2, <1>3 DEF IInv, ListsThere, SignalOrders
<1>5. PICK orders : orders = ord[list]
  OBVIOUS
<1>6. PICK o : o = Last(orders)
  OBVIOUS
<1>7. PICK residue \in BOOLEAN :
      /\ sizing' = [sizing EXCEPT
             !.stock        = @ - o.price * Magnitude(o.qty),
             !.exposure.spx = @ - o.price * o.qty * o.spx,
             !.exposure.rut = @ - o.price * o.qty * o.rut,
             !.residue      = residue]
      /\ ord' = With(list, Front(orders))
  BY <1>3, <1>5, <1>6 DEF RemoveLast
<1>8. FromFile(csv, orders) /\ AtFilePrice(csv, orders) /\ orders \in Seq(Order)
  BY <1>4, <1>5 DEF FromFile
<1>9. orders # <<>>
  BY <1>3, <1>5 DEF RemoveLast
<1>10. PICK front : front = Front(orders)
  OBVIOUS
<1>11. /\ front \in Seq(Order) /\ FromFile(csv, front) /\ AtFilePrice(csv, front)
       /\ StockValue(front) = StockValue(orders) - o.price * Magnitude(o.qty)
       /\ OrderHedgeCal(front).spx = OrderHedgeCal(orders).spx - o.price * o.qty * o.spx
       /\ OrderHedgeCal(front).rut = OrderHedgeCal(orders).rut - o.price * o.qty * o.rut
  BY <1>6, <1>8, <1>9, <1>10, ValueOfFront, FrontFromFile
<1>12. /\ StockValue(front) \in Int /\ OrderHedgeCal(front).spx \in Int /\ OrderHedgeCal(front).rut \in Int
       /\ \A i \in DOMAIN front : front[i] \in Order
  BY <1>11, ValueTypes
<1>13. /\ sizing' = [sizing EXCEPT !.stock = StockValue(front),
                       !.exposure.spx = OrderHedgeCal(front).spx,
                       !.exposure.rut = OrderHedgeCal(front).rut, !.residue = residue]
  BY <1>4, <1>5, <1>7, <1>11
<1>14. /\ sizing' \in Sizing /\ sizing'.list = list /\ sizing'.branch = "remove"
       /\ sizing'.stock = StockValue(front) /\ sizing'.exposure = OrderHedgeCal(front)
  <2>1. PICK st \in Int, sp \in Int, ru \in Int :
          st = StockValue(front) /\ sp = OrderHedgeCal(front).spx /\ ru = OrderHedgeCal(front).rut
    BY <1>12
  <2>2. OrderHedgeCal(front) = [spx |-> sp, rut |-> ru]
    BY <2>1 DEF OrderHedgeCal
  <2>3. sizing' = [sizing EXCEPT !.stock = st, !.exposure.spx = sp, !.exposure.rut = ru,
                                 !.residue = residue]
    BY <1>13, <2>1
  <2>4. /\ sizing' \in Sizing /\ sizing'.list = sizing.list /\ sizing'.branch = sizing.branch
        /\ sizing'.stock = st /\ sizing'.exposure = [spx |-> sp, rut |-> ru]
    BY <1>4, <2>3 DEF Sizing
  <2> QED
    BY <1>3, <1>4, <2>1, <2>2, <2>4
<1>15. /\ DOMAIN ord' = DOMAIN ord /\ ord'[list] = front
       /\ \A l \in DOMAIN ord : l # list => ord'[l] = ord[l]
  BY <1>4, <1>7, <1>10 DEF With
<1>16. Jobs'
  BY <1>1 DEF IInv, Jobs
<1>17. ListsThere'
  <2>1. \A l \in DOMAIN ord' : \A i \in DOMAIN ord'[l] : ord'[l][i].qty \in Int
    BY <1>4, <1>12, <1>15 DEF Order
  <2> QED
    BY <1>1, <1>2, <1>4, <1>14, <1>15, <2>1 DEF ListsThere
<1>18. SignalOrders'
  <2>1. \A l \in DOMAIN ord' : FromFile(csv, ord'[l]) /\ AtFilePrice(csv, ord'[l])
    BY <1>4, <1>11, <1>15
  <2> QED
    BY <1>1, <1>14, <1>15, <2>1 DEF SignalOrders
<1>19. Account'
  BY <1>1 DEF IInv, Account
<1>20. Answered'
  BY <1>1 DEF IInv, Answered
<1> QED
  BY <1>1, <1>2, <1>16, <1>17, <1>18, <1>19, <1>20, Elsewhere DEF IInv

LEMMA RemoveFromNoneKeeps ==
  ASSUME IInv, RemoveFromNone
  PROVE  IInv'
<1>1. /\ pc = "remove" /\ pc' = "undefined" /\ job' = job /\ csv' = csv
      /\ sizing' = sizing /\ ord' = ord /\ held' = held /\ shown' = shown /\ before' = before
      /\ open' = open /\ polls' = polls /\ late' = late /\ gaveUp' = gaveUp
  BY DEF RemoveFromNone, account, queries
<1>2. job = "signals"
  BY <1>1 DEF IInv, Jobs
<1>3. Jobs' /\ Account' /\ Answered'
  BY <1>1, <1>2 DEF IInv, Jobs, Account, Answered
<1>4. ListsThere' /\ SignalOrders'
  BY <1>1, <1>2 DEF IInv, ListsThere, SignalOrders
<1> QED
  BY <1>1, <1>2, <1>3, <1>4, Elsewhere DEF IInv

LEMMA RemovedEnoughKeeps ==
  ASSUME IInv, RemovedEnough
  PROVE  IInv'
<1>1. /\ pc = "remove" /\ pc' = "sized" /\ ~StillTooMuch /\ job' = job /\ csv' = csv
      /\ sizing' = sizing /\ ord' = ord /\ held' = held /\ shown' = shown /\ before' = before /\ open' = open
      /\ polls' = polls /\ late' = late /\ gaveUp' = gaveUp
  BY DEF RemovedEnough, account, queries
<1>2. job = "signals"
  BY <1>1 DEF IInv, Jobs
<1>3. Jobs' /\ Account' /\ Answered'
  BY <1>1, <1>2 DEF IInv, Jobs, Account, Answered
<1>4. ListsThere' /\ SignalOrders'
  BY <1>1, <1>2 DEF IInv, ListsThere, SignalOrders
<1>5. WithinBuyingPower'
  <2>1. /\ sizing.stock = StockValue(ord[sizing.list]) /\ sizing.exposure = OrderHedgeCal(ord[sizing.list])
        /\ sizing \in Sizing
    BY <1>1, <1>2 DEF IInv, SignalOrders, ListsThere
  <2>2. /\ sizing.power \in Int /\ sizing.stock \in Int
        /\ sizing.exposure.spx \in Int /\ sizing.exposure.rut \in Int
    BY <2>1, SizingFacts
  <2>3. PICK p \in Int, v \in Int : p = sizing.power /\ v = TradeValue(sizing.stock, sizing.exposure)
    BY <2>2, ValueBound
  <2>4. 10 * v <= 9 * p
    BY <1>1, <2>3 DEF StillTooMuch
  <2>5. v <= p
    <3>1. v >= 0
      <4>1. sizing.list \in DOMAIN ord \cap Lists
        BY <1>1, <1>2 DEF IInv, ListsThere, Sizing
      <4>2. ord[sizing.list] \in Seq(Order)
        BY <1>1, <1>2, <4>1 DEF IInv, SignalOrders, FromFile
      <4> QED
        BY <2>1, <2>3, <4>2, ValueNotNegative
    <3> QED
      BY <2>4, <3>1
  <2>6. TradeValue(StockValue(ord[sizing.list]), OrderHedgeCal(ord[sizing.list])) = v
    BY <2>1, <2>3
  <2> QED
    BY <1>1, <2>3, <2>4, <2>5, <2>6 DEF WithinBuyingPower
<1> QED
  BY <1>1, <1>2, <1>3, <1>4, <1>5, Elsewhere DEF IInv

LEMMA GenOrderReturnsKeeps ==
  ASSUME IInv, GenOrderReturns
  PROVE  IInv'
<1>1. /\ pc = "sized" /\ job' = job /\ csv' = csv
      /\ ord' = ord /\ held' = held /\ shown' = shown /\ before' = before /\ open' = open
      /\ polls' = polls /\ late' = late /\ gaveUp' = gaveUp
  BY DEF GenOrderReturns, account, queries
<1>2. job = "signals"
  BY <1>1 DEF IInv, Jobs
<1>3. sizing.list \in Lists /\ sizing.list \in DOMAIN ord /\ (sizing.list = "lt" => "ly" \in DOMAIN ord)
  BY <1>1, <1>2 DEF IInv, ListsThere, Sizing
<1>4. NoSizing \in Sizing /\ [NoSizing EXCEPT !.list = "lt"] \in Sizing /\ NoSizing.list = "ly"
      /\ [NoSizing EXCEPT !.list = "lt"].list = "lt"
  <2>1. NoSizing \in Sizing
    BY DEF NoSizing, Sizing, Lists
  <2>2. NoSizing.list = "ly"
    BY DEF NoSizing
  <2> HIDE DEF NoSizing
  <2>3. [NoSizing EXCEPT !.list = "lt"] \in Sizing
    BY <2>1 DEF Sizing, Lists
  <2>4. [NoSizing EXCEPT !.list = "lt"].list = "lt"
    BY <2>1 DEF Sizing
  <2> QED
    BY <2>1, <2>2, <2>3, <2>4
<1>5. /\ sizing' \in Sizing
      /\ \/ pc' = "size" /\ "ly" \in DOMAIN ord
         \/ pc' = "round" /\ Lists \subseteq DOMAIN ord
  BY <1>3, <1>4 DEF GenOrderReturns, Lists
<1>6. Jobs' /\ Account' /\ Answered'
  BY <1>1, <1>2, <1>5 DEF IInv, Jobs, Account, Answered
<1>7. ListsThere'
  BY <1>1, <1>2, <1>5 DEF IInv, ListsThere
<1>8. SignalOrders'
  BY <1>1, <1>2, <1>5 DEF IInv, SignalOrders
<1> QED
  BY <1>1, <1>2, <1>5, <1>6, <1>7, <1>8, Elsewhere DEF IInv

-----------------------------------------------------------------------------
(* truncLmtPrice, genHedgeOrder and splitLOOVWAPOrders.                    *)

\* A property of the orders of one list.
RoundedFor(file, orders) ==
  \A i \in DOMAIN orders : \A j \in DOMAIN file :
    file[j].ticker = orders[i].ticker => Within(orders[i], file[j].lmtPrice)

LEMMA RoundKeeps ==
  ASSUME IInv, Round
  PROVE  IInv'
<1>1. /\ pc = "round" /\ job' = job /\ csv' = csv /\ sizing' = sizing
      /\ held' = held /\ shown' = shown /\ before' = before /\ open' = open
      /\ polls' = polls /\ late' = late /\ gaveUp' = gaveUp
      /\ pc' = IF job = "signals" THEN "hedge" ELSE "send"
  BY DEF Round, account, queries
<1>2. job \in {"signals", "trades"} /\ pc' \in {"hedge", "send"}
  BY <1>1 DEF IInv, Jobs
<1>3. PICK tick \in [TickersOf(csv) -> MinTicks] :
        ord' = [l \in DOMAIN ord |-> TruncLmtPrice(ord[l], MapSeq(LAMBDA o : tick[o.ticker], ord[l]))]
  BY DEF Round
<1>4. ASSUME NEW l \in DOMAIN ord
      PROVE  /\ ord[l] \in Seq(Order) \/ ord[l] \in Seq(TradeOrder)
             /\ \A i \in DOMAIN ord[l] : ord[l][i].ticker \in TickersOf(csv)
             /\ AtFilePrice(csv, ord[l])
  <2>1. CASE job = "signals"
    <3>1. FromFile(csv, ord[l]) /\ AtFilePrice(csv, ord[l])
      BY <1>1, <2>1 DEF IInv, ListsThere, SignalOrders
    <3> QED
      BY <3>1 DEF FromFile
  <2>2. CASE job = "trades"
    <3>1. /\ l = "lt" /\ ord["lt"] \in Seq(TradeOrder) /\ TickersOf(ord["lt"]) = TickersOf(csv)
          /\ AtFilePrice(csv, ord["lt"])
      BY <1>1, <2>2 DEF IInv, ListsThere, TradeOrders
    <3>2. \A i \in DOMAIN ord["lt"] : ord["lt"][i].ticker \in TickersOf(ord["lt"])
      BY DEF TickersOf
    <3> QED
      BY <3>1, <3>2
  <2> QED
    BY <1>2, <2>1, <2>2
<1>5. ASSUME NEW l \in DOMAIN ord
      PROVE  /\ DOMAIN ord'[l] = DOMAIN ord[l]
             /\ \A i \in DOMAIN ord[l] :
                  /\ ord'[l][i].qty = ord[l][i].qty /\ ord'[l][i].ticker = ord[l][i].ticker
                  /\ ord'[l][i].qty \in Int
             /\ ord[l] \in Seq(TradeOrder) => ord'[l] \in Seq(TradeOrder)
             /\ FromFile(csv, ord[l]) => FromFile(csv, ord'[l])
             /\ RoundedFor(csv, ord'[l])
  <2>1. PICK s : s = ord[l]
    OBVIOUS
  <2>2. PICK r : r = TruncLmtPrice(s, MapSeq(LAMBDA o : tick[o.ticker], s))
    OBVIOUS
  <2>3. ord'[l] = r
    BY <1>3, <2>1, <2>2
  <2>4. /\ s \in Seq(Order) \/ s \in Seq(TradeOrder)
        /\ \A i \in DOMAIN s : s[i].ticker \in TickersOf(csv)
        /\ AtFilePrice(csv, s)
    BY <1>4, <2>1
  <2>5. /\ DOMAIN r = DOMAIN s
        /\ \A i \in DOMAIN s : r[i].qty = s[i].qty /\ r[i].ticker = s[i].ticker /\ r[i].qty \in Int
        /\ s \in Seq(TradeOrder) => r \in Seq(TradeOrder)
        /\ FromFile(csv, s) => FromFile(csv, r)
        /\ \A i \in DOMAIN s : \A j \in DOMAIN csv :
             csv[j].ticker = r[i].ticker => Within(r[i], csv[j].lmtPrice)
    BY <2>2, <2>4, RoundedList
  <2>6. RoundedFor(csv, r)
    BY <2>5 DEF RoundedFor
  <2> QED
    BY <2>1, <2>3, <2>5, <2>6
<1>6. DOMAIN ord' = DOMAIN ord
  BY <1>3
<1>7. Jobs'
  BY <1>1, <1>2 DEF IInv, Jobs
<1>8. ListsThere'
  <2>1. \A l \in DOMAIN ord' : \A i \in DOMAIN ord'[l] : ord'[l][i].qty \in Int
    BY <1>5, <1>6
  <2> QED
    BY <1>1, <1>2, <1>6, <2>1 DEF IInv, ListsThere
<1>9. SignalOrders'
  BY <1>1, <1>2, <1>5, <1>6 DEF IInv, SignalOrders
<1>10. TradeOrders'
  <2> SUFFICES ASSUME job = "trades"
               PROVE  ord'["lt"] \in Seq(TradeOrder) /\ TickersOf(ord'["lt"]) = TickersOf(csv)
    BY <1>1, <1>2 DEF TradeOrders
  <2>1. "lt" \in DOMAIN ord /\ ord["lt"] \in Seq(TradeOrder) /\ TickersOf(ord["lt"]) = TickersOf(csv)
    BY <1>1 DEF IInv, ListsThere, TradeOrders
  <2>2. /\ ord'["lt"] \in Seq(TradeOrder) /\ DOMAIN ord'["lt"] = DOMAIN ord["lt"]
        /\ \A i \in DOMAIN ord["lt"] : ord'["lt"][i].ticker = ord["lt"][i].ticker
    BY <1>5, <2>1
  <2>3. TickersOf(ord'["lt"]) = TickersOf(ord["lt"])
    BY <2>2 DEF TickersOf
  <2> QED
    BY <2>1, <2>2, <2>3
<1>11. Account' /\ Answered'
  BY <1>1, <1>2 DEF IInv, Account, Answered
<1>12. RoundedForTrader'
  <2>1. \A l \in DOMAIN ord' : RoundedFor(csv, ord'[l])
    BY <1>5, <1>6
  <2> QED
    BY <1>1, <2>1, Zenon DEF RoundedForTrader, RoundedFor, Within
<1> QED
  BY <1>1, <1>2, <1>7, <1>8, <1>9, <1>10, <1>11, <1>12, Elsewhere DEF IInv

LEMMA GenHedgeOrderKeeps ==
  ASSUME IInv, GenHedgeOrder
  PROVE  IInv'
<1>1. /\ pc = "hedge" /\ pc' = "split" /\ job' = job /\ csv' = csv /\ sizing' = sizing
      /\ held' = held /\ shown' = shown /\ before' = before /\ open' = open
      /\ polls' = polls /\ late' = late /\ gaveUp' = gaveUp
  BY DEF GenHedgeOrder, account, queries
<1>2. job = "signals"
  BY <1>1 DEF IInv, Jobs
<1>3. PICK exposure : exposure = OrderHedgeCal(ord["ly"])
  OBVIOUS
<1>4. \E spyClose, iwmClose \in Closes :
        ord' = With("hedge",
          <<[ticker |-> "SPY", price |-> HedgePrices(spyClose, iwmClose).spy,
             qty |-> HedgeQty(exposure.spx, HedgePrices(spyClose, iwmClose).spy)],
            [ticker |-> "IWM", price |-> HedgePrices(spyClose, iwmClose).iwm,
             qty |-> HedgeQty(exposure.rut, HedgePrices(spyClose, iwmClose).iwm)]>>)
  BY <1>3, Zenon DEF GenHedgeOrder
<1>5. PICK prices \in [spy : Nat \ {0}, iwm : Nat \ {0}] :
        ord' = With("hedge",
          <<[ticker |-> "SPY", price |-> prices.spy, qty |-> HedgeQty(exposure.spx, prices.spy)],
            [ticker |-> "IWM", price |-> prices.iwm, qty |-> HedgeQty(exposure.rut, prices.iwm)]>>)
  <2>1. ASSUME NEW spyClose \in Closes, NEW iwmClose \in Closes
        PROVE  HedgePrices(spyClose, iwmClose) \in [spy : Nat \ {0}, iwm : Nat \ {0}]
    <3>1. spyClose \in Nat /\ iwmClose \in Nat
      BY TradingDayAssumption
    <3> QED
      BY <3>1 DEF HedgePrices, Dollar
  <2> QED
    BY <1>4, <2>1, Zenon
<1>6. Lists \subseteq DOMAIN ord /\ DOMAIN ord \subseteq Lists
  BY <1>1, <1>2 DEF IInv, ListsThere
<1>7. FromFile(csv, ord["ly"]) /\ exposure.spx \in Int /\ exposure.rut \in Int
  <2>1. FromFile(csv, ord["ly"])
    BY <1>1, <1>2, <1>6 DEF IInv, SignalOrders, Lists
  <2> QED
    BY <1>3, <2>1, ValueTypes DEF FromFile
<1>8. PICK p \in Nat \ {0}, x \in Int : p = prices.spy /\ x = exposure.spx
  BY <1>5, <1>7
<1>9. PICK s \in Nat \ {0}, y \in Int : s = prices.iwm /\ y = exposure.rut
  BY <1>5, <1>7
<1>9a. PICK q, t : q = HedgeQty(x, p) /\ t = HedgeQty(y, s)
  OBVIOUS
<1>10. q \in Int /\ Direction(x) * (x + q * p) \in 0 .. 100 * p - 1
  BY <1>9a, HedgeQtyLeaves
<1>11. t \in Int /\ Direction(y) * (y + t * s) \in 0 .. 100 * s - 1
  BY <1>9a, HedgeQtyLeaves
<1>12. PICK hedge : hedge = <<[ticker |-> "SPY", price |-> p, qty |-> q],
                              [ticker |-> "IWM", price |-> s, qty |-> t]>>
  OBVIOUS
<1>13. /\ ord' = With("hedge", hedge) /\ DOMAIN hedge = 1 .. 2
       /\ hedge[1].price = p /\ hedge[1].qty = q /\ hedge[2].price = s /\ hedge[2].qty = t
       /\ \A i \in DOMAIN hedge : hedge[i].qty \in Int
  <2>1. ord' = With("hedge", hedge)
    BY <1>5, <1>8, <1>9, <1>9a, <1>12, Zenon
  <2>2. DOMAIN hedge = 1 .. 2 /\ hedge[1].price = p /\ hedge[1].qty = q /\ hedge[2].price = s /\ hedge[2].qty = t
    BY <1>12
  <2>3. \A i \in 1 .. 2 : i = 1 \/ i = 2
    OBVIOUS
  <2> QED
    BY <1>10, <1>11, <2>1, <2>2, <2>3
<1>14. /\ DOMAIN ord' = DOMAIN ord \cup {"hedge"} /\ ord'["hedge"] = hedge
       /\ \A l \in DOMAIN ord : ord'[l] = ord[l]
  <2>1. "hedge" \notin DOMAIN ord
    BY <1>6 DEF Lists
  <2> QED
    BY <1>13, <2>1 DEF With
<1>15. Jobs' /\ Account' /\ Answered'
  BY <1>1, <1>2 DEF IInv, Jobs, Account, Answered
<1>16. ListsThere'
  <2>1. \A l \in DOMAIN ord' : \A i \in DOMAIN ord'[l] : ord'[l][i].qty \in Int
    BY <1>13, <1>14 DEF IInv, ListsThere
  <2> QED
    BY <1>1, <1>2, <1>6, <1>14, <2>1 DEF IInv, ListsThere
<1>17. SignalOrders'
  <2>1. \A l \in DOMAIN ord' \cap Lists : FromFile(csv, ord'[l])
    BY <1>1, <1>2, <1>6, <1>14 DEF IInv, SignalOrders
  <2> QED
    BY <1>1, <2>1 DEF SignalOrders
<1>18. HedgeLeavesLittle'
  <2>1. ord'["ly"] = ord["ly"]
    BY <1>6, <1>14 DEF Lists
  <2>2. OrderHedgeCal(ord'["ly"]).spx = x /\ OrderHedgeCal(ord'["ly"]).rut = y
    BY <1>3, <1>8, <1>9, <2>1
  <2>3. /\ Direction(x) * (x + hedge[1].qty * hedge[1].price) \in 0 .. 100 * hedge[1].price - 1
        /\ Direction(y) * (y + hedge[2].qty * hedge[2].price) \in 0 .. 100 * hedge[2].price - 1
    BY <1>10, <1>11, <1>13, Zenon
  <2> QED
    BY <1>14, <2>2, <2>3, Zenon DEF HedgeLeavesLittle
<1> QED
  BY <1>1, <1>2, <1>15, <1>16, <1>17, <1>18, Elsewhere DEF IInv

LEMMA SplitLOOVWAPOrdersKeeps ==
  ASSUME IInv, SplitLOOVWAPOrders
  PROVE  IInv'
<1>1. /\ pc = "split" /\ pc' = "sent" /\ job' = job /\ csv' = csv /\ sizing' = sizing
      /\ held' = held /\ shown' = shown /\ before' = before /\ open' = open
      /\ polls' = polls /\ late' = late /\ gaveUp' = gaveUp
  BY DEF SplitLOOVWAPOrders, account, queries
<1>2. job = "signals"
  BY <1>1 DEF IInv, Jobs
<1>3. "ly" \in DOMAIN ord /\ "lt" \in DOMAIN ord
  BY <1>1, <1>2 DEF IInv, ListsThere, Lists
<1>4. PICK ly, lt : ly = ord["ly"] /\ lt = ord["lt"]
  OBVIOUS
<1>5. FromFile(csv, ly) /\ FromFile(csv, lt)
  BY <1>1, <1>2, <1>3, <1>4 DEF IInv, SignalOrders, Lists
<1>6. PICK loo : loo = LOOOrders(lt, RqlMap(ly, LOOPer))
  OBVIOUS
<1>7. PICK vwap : vwap = VWAPOrders(lt, RqlMap(ly, LOOPer))
  OBVIOUS
<1>8. ord' = [l \in DOMAIN ord \cup {"loo", "vwap"} |->
                CASE l = "loo" -> loo [] l = "vwap" -> vwap [] OTHER -> ord[l]]
  BY <1>4, <1>6, <1>7, Zenon DEF SplitLOOVWAPOrders
<1>9. /\ DOMAIN ord' = DOMAIN ord \cup {"loo", "vwap"} /\ ord'["loo"] = loo /\ ord'["vwap"] = vwap
      /\ \A l \in DOMAIN ord : l \notin {"loo", "vwap"} => ord'[l] = ord[l]
      /\ ord'["ly"] = ly /\ ord'["lt"] = lt
  BY <1>3, <1>4, <1>8
<1>10. LOOPer \in Nat
  BY TradingDayAssumption
<1>11. /\ \A i \in DOMAIN loo :
            \E k \in DOMAIN lt : /\ lt[k].ticker \in DOMAIN RqlMap(ly, LOOPer)
                                 /\ loo[i].ticker = lt[k].ticker
                                 /\ loo[i].qty = LOOQty(lt[k], RqlMap(ly, LOOPer))
       /\ \A i \in DOMAIN loo : loo[i].qty \in Int
       /\ \A i \in DOMAIN vwap : vwap[i].qty \in Int
  BY <1>5, <1>6, <1>7, <1>10, SplitElements
<1>12. Jobs' /\ Account' /\ Answered' /\ SignalOrders'
  BY <1>1, <1>2 DEF IInv, Jobs, Account, Answered, SignalOrders
<1>13. ListsThere'
  <2>1. \A l \in DOMAIN ord' : \A i \in DOMAIN ord'[l] : ord'[l][i].qty \in Int
    BY <1>9, <1>11 DEF IInv, ListsThere
  <2> QED
    BY <1>1, <1>2, <1>9, <2>1 DEF IInv, ListsThere
<1>14. SplitAddsUp'
  <2>1. \A t : Bought(t, loo) + Bought(t, vwap) = Bought(t, lt)
    BY <1>5, <1>6, <1>7, <1>10, SplitAdds
  <2> QED
    BY <1>9, <2>1 DEF SplitAddsUp
<1>15. AuctionWithinVolume'
  <2>1. ASSUME NEW a \in Range(ly), NEW b \in Range(lt), NEW c \in Range(loo),
               a.ticker = c.ticker, b.ticker = c.ticker, a.qty # 0
        PROVE  /\ c.qty * b.qty >= 0 /\ Magnitude(c.qty) <= Magnitude(b.qty)
               /\ 10000 * Magnitude(a.qty + c.qty) <= LOOPer * a.dmv + 5 * 10000
    <3>1. PICK i \in DOMAIN ly, m \in DOMAIN lt, j \in DOMAIN loo : a = ly[i] /\ b = lt[m] /\ c = loo[j]
      BY DEF Range
    <3>2. PICK k \in DOMAIN lt : /\ lt[k].ticker \in DOMAIN RqlMap(ly, LOOPer)
                                 /\ c.ticker = lt[k].ticker
                                 /\ c.qty = LOOQty(lt[k], RqlMap(ly, LOOPer))
      BY <1>11, <3>1
    <3>3. m = k
      BY <1>5, <2>1, <3>1, <3>2 DEF FromFile
    <3> QED
      BY <1>5, <1>10, <2>1, <3>1, <3>2, <3>3, LOOQtyBounds
  <2> QED
    BY <1>9, <2>1 DEF AuctionWithinVolume
<1> QED
  BY <1>1, <1>2, <1>12, <1>13, <1>14, <1>15, Elsewhere DEF IInv

-----------------------------------------------------------------------------
(* The orders of the other programs, and what TWS does with them.          *)

\* What is asked of queryPos: positions, and all of them if it has not given up.
LEMMA QueryPosKeeps ==
  ASSUME IInv, NEW answer, QueryPos(answer)
  PROVE  /\ answer \in Answers /\ HeldWell
         /\ answer.got \in Seq(Holding) /\ Answered'
         /\ gaveUp' = answer.gaveUp
         /\ ~gaveUp' => ~gaveUp /\ answer.got = Positions
<1>1. HeldWell
  BY AccountFacts DEF IInv
<1>2. /\ late \in Seq(Holding) /\ gaveUp \in BOOLEAN /\ polls \in 0 .. MaxPolls
  BY DEF IInv, Answered
<1>3. /\ answer \in Answers /\ late' = answer.late /\ gaveUp' = answer.gaveUp /\ polls' = polls
  BY DEF QueryPos
<1>4. /\ answer.got \in Seq(Holding) /\ answer.late \in Seq(Holding)
      /\ answer.gaveUp = FALSE => answer.got = Positions /\ answer.late = <<>> /\ gaveUp = FALSE
      /\ answer.gaveUp \in BOOLEAN
  BY <1>1, <1>2, <1>3, AnswersAreHoldings
<1>5. gaveUp' \in BOOLEAN /\ late' \in Seq(Holding) /\ polls' \in 0 .. MaxPolls /\ (~gaveUp' => late' = <<>>)
  BY <1>2, <1>3, <1>4
<1>6. Answered'
  BY <1>5, Zenon DEF Answered
<1>7. ~gaveUp' => ~gaveUp /\ answer.got = Positions
  BY <1>3, <1>4
<1> QED
  BY <1>1, <1>3, <1>4, <1>6, <1>7

LEMMA LookAtPositionsKeeps ==
  ASSUME IInv, LookAtPositions
  PROVE  IInv'
<1>1. /\ pc = "positions" /\ pc' = "close" /\ job' = job /\ csv' = csv /\ sizing' = sizing
      /\ ord' = ord /\ held' = held /\ shown' = shown /\ before' = before /\ open' = open
  BY DEF LookAtPositions, account
<1>2. job = "trades"
  BY <1>1 DEF IInv, Jobs
<1>3. PICK answer \in Answers : QueryPos(answer)
  BY DEF LookAtPositions
<1>4. Answered' /\ (~gaveUp' => ~gaveUp)
  BY <1>3, QueryPosKeeps
<1>5. Jobs' /\ ListsThere' /\ TradeOrders'
  BY <1>1, <1>2 DEF IInv, Jobs, ListsThere, TradeOrders
<1>6. Account'
  BY <1>1, <1>2, <1>4 DEF IInv, Account
<1> QED
  BY <1>1, <1>2, <1>4, <1>5, <1>6, Elsewhere DEF IInv

LEMMA PollKeeps ==
  ASSUME IInv, Poll
  PROVE  IInv'
<1>1. /\ pc = "poll" /\ job' = job /\ csv' = csv /\ sizing' = sizing
      /\ ord' = ord /\ held' = held /\ shown' = shown /\ before' = before /\ open' = open /\ late' = late
  BY DEF Poll, account
<1>2. job = "trades"
  BY <1>1 DEF IInv, Jobs
<1>3. MaxPolls \in Nat
  BY TradingDayAssumption
<1>4. /\ pc' \in {"poll", "positions", "close"} /\ polls' \in 0 .. MaxPolls
      /\ gaveUp' = gaveUp \/ gaveUp' = TRUE
      /\ pc' # "poll" => open = <<>> \/ gaveUp' = TRUE
  BY <1>1, <1>3 DEF Poll, IInv, Answered
<1>5. gaveUp' \in BOOLEAN
  BY <1>4 DEF IInv, Answered
<1>6. Answered'
  BY <1>1, <1>4, <1>5 DEF IInv, Answered
<1>7. Jobs' /\ ListsThere' /\ TradeOrders'
  BY <1>1, <1>2, <1>4 DEF IInv, Jobs, ListsThere, TradeOrders
<1>8. Account'
  BY <1>1, <1>2, <1>4 DEF IInv, Account
<1> QED
  BY <1>1, <1>2, <1>4, <1>6, <1>7, <1>8, Elsewhere DEF IInv

LEMMA SendOpeningKeeps ==
  ASSUME IInv, SendOpening
  PROVE  IInv'
<1>1. /\ pc = "send" /\ pc' = "poll" /\ job' = job /\ csv' = csv /\ sizing' = sizing
      /\ ord' = ord /\ held' = held /\ shown' = shown /\ before' = before /\ open' = ord["lt"]
      /\ polls' = polls /\ late' = late /\ gaveUp' = gaveUp
  BY DEF SendOpening, queries
<1>2. job = "trades"
  BY <1>1 DEF IInv, Jobs
<1>3. PICK lt \in Seq(TradeOrder) : lt = ord["lt"] /\ TickersOf(lt) = TickersOf(csv)
  BY <1>1, <1>2 DEF IInv, TradeOrders
<1>4. lt \in Seq(OrdersIn(csv))
  <2>1. PICK n \in Nat : n = Len(lt) /\ lt \in [1 .. n -> TradeOrder]
    BY LenProperties
  <2>2. \A i \in 1 .. n : lt[i] \in TradeOrder /\ lt[i].ticker \in TickersOf(lt)
    BY <2>1 DEF TickersOf
  <2>3. \A i \in 1 .. n : lt[i] \in OrdersIn(csv)
    BY <1>3, <2>2 DEF OrdersIn
  <2>4. lt \in [1 .. n -> OrdersIn(csv)]
    BY <2>1, <2>3
  <2> QED
    BY <2>4, LenOf
<1>5. Jobs' /\ ListsThere' /\ TradeOrders' /\ Answered'
  BY <1>1, <1>2 DEF IInv, Jobs, ListsThere, TradeOrders, Answered
<1>6. Account'
  BY <1>1, <1>2, <1>3, <1>4 DEF IInv, Account
<1> QED
  BY <1>1, <1>2, <1>5, <1>6, Elsewhere DEF IInv

LEMMA GenTradeKeeps ==
  ASSUME IInv, GenTrade
  PROVE  IInv'
<1>1. /\ job = "trades" /\ pc = "size" /\ job' = job /\ csv' = csv /\ sizing' = sizing
      /\ held' = held /\ shown' = shown /\ before' = before /\ open' = open
      /\ polls' = polls /\ late' = late /\ gaveUp' = gaveUp
      /\ pc' = IF csv = <<>> THEN "end" ELSE "round"
  BY DEF GenTrade, account, queries
<1>2. PICK file \in Seq(Trades) : file = csv /\ \A i, j \in DOMAIN file : file[i].ticker = file[j].ticker => i = j
  BY <1>1, FileFacts DEF IInv, OneRow
<1>3. PICK n \in Nat : n = Len(file) /\ DOMAIN file = 1 .. n /\ \A i \in 1 .. n : file[i] \in Trades
  BY LenProperties, ElementOfSeq
<1>4. PICK orders : orders = GenTradeOrder(file)
  OBVIOUS
<1>5. orders = [i \in 1 .. n |-> [ticker |-> file[i].ticker, price |-> file[i].lmtPrice, qty |-> file[i].qty]]
  BY <1>3, <1>4 DEF GenTradeOrder, MapSeq
<1>6. \A i \in 1 .. n : /\ orders[i].ticker = file[i].ticker /\ orders[i].price = file[i].lmtPrice
                        /\ orders[i] \in TradeOrder /\ orders[i].qty \in Int
  BY <1>3, <1>5 DEF Trades, TradeOrder
<1>7. orders \in Seq(TradeOrder) /\ DOMAIN orders = 1 .. n
  <2>1. orders \in [1 .. n -> TradeOrder]
    BY <1>5, <1>6
  <2> QED
    BY <2>1, LenOf
<1>8. TickersOf(orders) = TickersOf(file)
  BY <1>3, <1>6, <1>7 DEF TickersOf
<1>9. AtFilePrice(file, orders)
  BY <1>2, <1>3, <1>6, <1>7 DEF AtFilePrice
<1>10. DOMAIN ord' = {"lt"} /\ ord'["lt"] = orders
  <2>1. DOMAIN ord = {}
    BY <1>1 DEF IInv, ListsThere
  <2> QED
    BY <1>2, <1>4, <2>1 DEF GenTrade, With
<1>11. Jobs' /\ Answered'
  BY <1>1 DEF IInv, Jobs, Answered
<1>12. ListsThere'
  <2>1. \A l \in DOMAIN ord' : \A i \in DOMAIN ord'[l] : ord'[l][i].qty \in Int
    BY <1>6, <1>7, <1>10
  <2> QED
    BY <1>1, <1>10, <2>1 DEF IInv, ListsThere, Lists
<1>13. TradeOrders'
  BY <1>1, <1>2, <1>7, <1>8, <1>9, <1>10 DEF TradeOrders
<1>14. open = <<>>
  BY <1>1 DEF IInv, Account
<1>15. Account'
  BY <1>1, <1>14 DEF IInv, Account
<1>16. FlatAtEnd'
  <2> SUFFICES ASSUME pc' = "end", NEW k \in DOMAIN held
               PROVE  /\ held[k] = before[k] /\ k[1] \notin Closing'
    BY <1>1, Zenon DEF FlatAtEnd
  <2>1. csv = <<>>
    BY <1>1
  <2>2. TickersOf(csv) = {}
    BY <2>1 DEF TickersOf
  <2>3. Closing' = {}
    BY <1>1, <2>2 DEF Closing
  <2>4. held[k] = before[k]
    BY <1>1, <2>2 DEF IInv, Account
  <2> QED
    BY <2>3, <2>4
<1> QED
  BY <1>1, <1>11, <1>12, <1>13, <1>15, <1>16, Elsewhere DEF IInv


LEMMA GenANKeeps ==
  ASSUME IInv, GenAN
  PROVE  IInv'
<1>1. /\ job = "an" /\ pc = "size" /\ pc' = "sent" /\ job' = job /\ csv' = csv /\ sizing' = sizing
      /\ held' = held /\ shown' = shown /\ before' = before /\ open' = open
  BY DEF GenAN, account
<1>2. PICK answer \in Answers :
        QueryPos(answer) /\ ord' = With("lt", GenANOrder(csv, answer.got))
  BY DEF GenAN
<1>3. /\ HeldWell /\ answer.got \in Seq(Holding) /\ Answered'
      /\ ~gaveUp' => answer.got = Positions
  BY <1>2, QueryPosKeeps
<1>4. csv \in Seq(Announcements) /\ OneRow
  BY <1>1, FileFacts DEF IInv
<1>5. PICK got \in Seq(Holding) : got = answer.got
  BY <1>3
<1>6. PICK orders : orders = GenANOrder(csv, got)
  OBVIOUS
<1>7. /\ \A i \in DOMAIN orders : orders[i].qty \in Int
      /\ \A i \in DOMAIN csv :
           Bought(csv[i].ticker, orders)
             = AnAdjustment(csv[i], Position(csv[i].ticker, got), csv[i].ticker \in TickersOf(got))
  BY <1>4, <1>6, ANOrders
<1>8. /\ DOMAIN ord' = DOMAIN ord \cup {"lt"} /\ ord'["lt"] = orders
      /\ \A l \in DOMAIN ord : l # "lt" => ord'[l] = ord[l]
  BY <1>2, <1>5, <1>6 DEF With
<1>9. Jobs'
  BY <1>1 DEF IInv, Jobs
<1>10. ListsThere'
  <2>1. \A l \in DOMAIN ord' : \A i \in DOMAIN ord'[l] : ord'[l][i].qty \in Int
    BY <1>7, <1>8 DEF IInv, ListsThere
  <2> QED
    BY <1>1, <1>8, <2>1 DEF IInv, ListsThere, Lists
<1>11. Account'
  BY <1>1 DEF IInv, Account
<1>12. AllReached'
  <2> SUFFICES ASSUME ~gaveUp', OnlyStocks(TickersOf(csv)),
                      \A k \in shown : k[1] \in TickersOf(csv) => k[2] = "STK",
                      NEW i \in DOMAIN csv
               PROVE  Reached(csv[i], held[<<csv[i].ticker, "STK">>] + Bought(csv[i].ticker, orders),
                              before[<<csv[i].ticker, "STK">>])
    <3>1. \A i \in DOMAIN csv : <<csv[i].ticker, "STK">> \in DOMAIN held
      BY <1>1, TradingDayAssumption DEF IInv, Jobs, Account
    <3>2. \A k \in DOMAIN held :
            After(ord["lt"])'[k] = IF k[2] = "STK" THEN held[k] + Bought(k[1], orders) ELSE held[k]
      BY <1>1, <1>8 DEF After
    <3>3. \A i \in DOMAIN csv :
            After(ord["lt"])'[<<csv[i].ticker, "STK">>]
              = held[<<csv[i].ticker, "STK">>] + Bought(csv[i].ticker, orders)
      BY <3>1, <3>2
    <3>4. OnlyStocks(TickersOf(csv))' <=> OnlyStocks(TickersOf(csv))
      BY <1>1 DEF OnlyStocks
    <3> QED
      BY <1>1, <3>3, <3>4 DEF AllReached, SeesStocks
  <2> DEFINE t == csv[i].ticker
             k == <<t, "STK">>
  <2>1. k \in DOMAIN held
    BY <1>1, TradingDayAssumption DEF IInv, Jobs, Account
  <2>2. /\ DOMAIN before = DOMAIN held
        /\ \A x \in DOMAIN held : held[x] = before[x] /\ held[x] \in Int
    BY <1>1 DEF IInv, Account
  <2>3. \A x \in DOMAIN held : x[1] = t /\ x[2] # "STK" => held[x] = 0 /\ x \notin shown
    <3>1. t \in TickersOf(csv)
      BY DEF TickersOf
    <3> QED
      BY <2>2, <3>1 DEF OnlyStocks
  <2>4. got = Positions
    BY <1>3, <1>5
  <2>5. PICK n, key : n \in Nat /\ Listed(key, n)
    BY <1>3, PositionsListed
  <2>6. Position(t, got) = held[k] /\ (t \notin TickersOf(got) => held[k] = 0)
    BY <1>3, <2>1, <2>3, <2>4, <2>5, PositionOfStock
  <2>7. PICK h \in Int : h = held[k] /\ h = before[k]
    BY <2>1, <2>2
  <2>8. PICK row \in Announcements : row = csv[i]
    BY <1>4
  <2>9. PICK a : a = AnAdjustment(row, h, t \in TickersOf(got))
    OBVIOUS
  <2>10. \/ a = AnAdjustment(row, h, TRUE)
         \/ h = 0 /\ a = AnAdjustment(row, h, FALSE)
    <3>1. CASE t \in TickersOf(got)
      BY <2>9, <3>1 DEF AnAdjustment
    <3>2. CASE t \notin TickersOf(got)
      BY <2>6, <2>7, <2>9, <3>2 DEF AnAdjustment
    <3> QED
      BY <3>1, <3>2
  <2>11. Bought(t, orders) = a
    BY <1>7, <2>6, <2>7, <2>8, <2>9, Zenon
  <2>12. PICK target : target = (20000 * Dollar) \div row.lmtPrice
    OBVIOUS
  <2> DEFINE Reaches(x, held0) ==
        /\ x \in Int
        /\ row.day2er >= -2 => x = -h
        /\ row.day2er \in -20 .. -7 /\ (~held0 => h = 0) =>
             /\ h + x > target - 100 - 10
             /\ h <= target => h + x <= target
  <2>13. \A b \in BOOLEAN : Reaches(AnAdjustment(row, h, b), b)
    BY <2>12, AnAdjustmentReaches
  <2>14. Reaches(AnAdjustment(row, h, TRUE), TRUE) /\ Reaches(AnAdjustment(row, h, FALSE), FALSE)
    <3> HIDE DEF Reaches
    <3> QED
      BY <2>13, Zenon
  <2>14a. /\ a \in Int
          /\ row.day2er >= -2 => a = -h
          /\ row.day2er \in -20 .. -7 =>
               /\ h + a > target - 100 - 10
               /\ h <= target => h + a <= target
    <3>1. CASE a = AnAdjustment(row, h, TRUE)
      BY <2>14, <3>1
    <3>2. CASE h = 0 /\ a = AnAdjustment(row, h, FALSE)
      BY <2>14, <3>2
    <3> QED
      BY <2>10, <3>1, <3>2
  <2>15. /\ row.day2er >= -2 => h + a = 0
         /\ row.day2er \in -20 .. -7 =>
              /\ h + a > target - 100 - 10
              /\ h <= target => h + a <= target
    BY <2>14a
  <2>16. held[k] + Bought(t, orders) = h + a
    BY <2>7, <2>11, Zenon
  <2> QED
    <3>1. Reached(row, h + a, h)
      BY <2>12, <2>15 DEF Reached
    <3> QED
      BY <2>7, <2>8, <2>16, <3>1, Zenon
<1> QED
  BY <1>1, <1>3, <1>9, <1>10, <1>11, <1>12, Elsewhere DEF IInv

\* The closing orders of the three programs are for chosen positions.
Which(positions) ==
  {i \in DOMAIN positions :
     /\ positions[i].qty # 0
     /\ job = "close" => positions[i].secType = "STK"
     /\ job = "trades" => positions[i].ticker \in TickersOf(ord["lt"])}

\* All three ways to close send the opposite of chosen positions.
LEMMA ClosingOrders ==
  ASSUME job \in {"close", "closeAll", "trades"}, NEW positions,
         NEW orders, orders = CASE job = "close"    -> CloseAllStock(positions)
                                [] job = "closeAll" -> CloseAllPos(positions)
                                [] job = "trades"   -> ClosePart(ord["lt"], positions)
  PROVE  orders = MapSeq(Close, Chosen(positions, Which(positions)))
<1>1. CASE job = "close"
  <2>1. Which(positions) = {i \in DOMAIN positions : positions[i].qty # 0 /\ positions[i].secType = "STK"}
    BY <1>1 DEF Which
  <2>2. orders = CloseAllStock(positions)
    BY <1>1
  <2> QED
    BY <2>1, <2>2 DEF CloseAllStock, Where
<1>2. CASE job = "closeAll"
  <2>1. Which(positions) = {i \in DOMAIN positions : positions[i].qty # 0}
    BY <1>2 DEF Which
  <2>2. orders = CloseAllPos(positions)
    BY <1>2
  <2> QED
    BY <2>1, <2>2 DEF CloseAllPos, Where
<1>3. CASE job = "trades"
  <2>1. Which(positions) =
          {i \in DOMAIN positions : positions[i].qty # 0 /\ positions[i].ticker \in TickersOf(ord["lt"])}
    BY <1>3 DEF Which
  <2>2. orders = ClosePart(ord["lt"], positions)
    BY <1>3
  <2> QED
    BY <2>1, <2>2 DEF ClosePart, Where
<1> QED
  BY <1>1, <1>2, <1>3

LEMMA ClosingQty ==
  ASSUME NEW orders \in Seq(CloseOrder)
  PROVE  \A i \in DOMAIN orders : orders[i].qty \in Int
<1>1. DOMAIN orders = 1 .. Len(orders) /\ \A i \in 1 .. Len(orders) : orders[i] \in CloseOrder
  BY LenProperties, ElementOfSeq
<1> QED
  BY <1>1 DEF CloseOrder

LEMMA ClosePositionsKeeps ==
  ASSUME IInv, ClosePositions
  PROVE  IInv'
<1>1. /\ pc = "close" /\ pc' = "closing" /\ job' = job /\ csv' = csv /\ sizing' = sizing
      /\ held' = held /\ shown' = shown /\ before' = before /\ open' = open
  BY DEF ClosePositions, account
<1>2. job \in {"close", "closeAll", "trades"}
  BY <1>1 DEF IInv, Jobs
<1>3. PICK answer \in Answers :
        /\ QueryPos(answer)
        /\ ord' = With("close", CASE job = "close"    -> CloseAllStock(answer.got)
                                  [] job = "closeAll" -> CloseAllPos(answer.got)
                                  [] job = "trades"   -> ClosePart(ord["lt"], answer.got))
  BY DEF ClosePositions
<1>4. /\ HeldWell /\ answer.got \in Seq(Holding) /\ Answered'
      /\ ~gaveUp' => ~gaveUp /\ answer.got = Positions
  BY <1>3, QueryPosKeeps
<1>5. PICK got \in Seq(Holding) : got = answer.got
  BY <1>4
<1>6. PICK orders : orders = CASE job = "close"    -> CloseAllStock(got)
                               [] job = "closeAll" -> CloseAllPos(got)
                               [] job = "trades"   -> ClosePart(ord["lt"], got)
  OBVIOUS
<1>7. orders = MapSeq(Close, Chosen(got, Which(got)))
  BY <1>2, <1>6, ClosingOrders
<1>8. orders \in Seq(CloseOrder)
  <2>1. PICK c \in Seq(Holding) : c = Chosen(got, Which(got))
    BY ChosenFacts
  <2>2. PICK n \in Nat : n = Len(c) /\ DOMAIN c = 1 .. n /\ \A i \in 1 .. n : c[i] \in Holding
    BY LenProperties, ElementOfSeq
  <2>3. orders = [i \in 1 .. n |-> [ticker |-> c[i].ticker, qty |-> -c[i].qty]]
    BY <1>7, <2>1, <2>2 DEF MapSeq, Close
  <2>4. orders \in [1 .. n -> CloseOrder]
    BY <2>2, <2>3 DEF Holding, CloseOrder
  <2> QED
    BY <2>4, LenOf
<1>9. /\ DOMAIN ord' = DOMAIN ord \cup {"close"} /\ ord'["close"] = orders
      /\ \A l \in DOMAIN ord : l # "close" => ord'[l] = ord[l]
  <2>1. ord' = With("close", orders)
    BY <1>3, <1>5, <1>6, Zenon
  <2> QED
    BY <2>1 DEF With
<1>10. Jobs'
  BY <1>1, <1>2 DEF IInv, Jobs
<1>11. ListsThere'
  <2>1. \A i \in DOMAIN orders : orders[i].qty \in Int
    BY <1>8, ClosingQty
  <2>2. \A l \in DOMAIN ord' : \A i \in DOMAIN ord'[l] : ord'[l][i].qty \in Int
    BY <1>9, <2>1 DEF IInv, ListsThere
  <2> QED
    BY <1>1, <1>2, <1>9, <2>2 DEF IInv, ListsThere
<1>12. TradeOrders'
  BY <1>1 DEF TradeOrders
<1>13. Account'
  BY <1>1, <1>4 DEF IInv, Account
<1>14. ClosesAll'
  <2> SUFFICES ASSUME ~gaveUp', job = "close" \/ OnlyStocks(Closing), NEW k \in DOMAIN held
               PROVE  After(orders)[k] = IF k[2] = "STK" /\ k[1] \in Closing THEN 0 ELSE before[k]
    <3>1. Closing' = Closing
      BY <1>1 DEF Closing
    <3>2. After(ord["close"])' = After(orders)
      BY <1>1, <1>9 DEF After
    <3>3. \A T : OnlyStocks(T)' <=> OnlyStocks(T)
      BY <1>1 DEF OnlyStocks
    <3> QED
      BY <1>1, <1>8, <1>9, <3>1, <3>2, <3>3 DEF ClosesAll, OnlyStocks
  <2>1. got = Positions
    BY <1>4, <1>5
  <2>2. PICK n, key : n \in Nat /\ Listed(key, n)
    BY <1>4, PositionsListed
  <2>3. key \in [1 .. n -> DOMAIN held]
    BY <2>2 DEF Listed
  <2>4. /\ DOMAIN got = 1 .. n
        /\ \A i \in 1 .. n : /\ got[i].ticker = key[i][1] /\ got[i].secType = key[i][2]
                             /\ got[i].qty = held[key[i]]
    BY <1>4, <2>1, <2>2, PositionsAreHoldings
  <2>5. /\ DOMAIN before = DOMAIN held
        /\ \A x \in DOMAIN held :
             held[x] = before[x] \/ (job = "trades" /\ x[2] = "STK" /\ x[1] \in TickersOf(csv))
    BY <1>1 DEF IInv, Account
  <2>6. job = "trades" => TickersOf(ord["lt"]) = TickersOf(csv)
    BY <1>1 DEF IInv, TradeOrders
  <2>7. job # "close" => \A x \in DOMAIN held : held[x] # 0 /\ x[1] \in Closing => x[2] = "STK"
    BY <2>5 DEF OnlyStocks
  <2>8. \A x \in DOMAIN held : job # "trades" => x[1] \in Closing
    BY DEF Closing
  <2>9. job = "trades" => Closing = TickersOf(csv)
    BY DEF Closing
  <2>10. \A i \in 1 .. n : i \in Which(got) => key[i][2] = "STK" /\ key[i][1] \in Closing
    BY <1>2, <2>3, <2>4, <2>6, <2>7, <2>8, <2>9 DEF Which
  <2>11. \A i \in 1 .. n : held[key[i]] # 0 /\ key[i][2] = "STK" /\ key[i][1] \in Closing =>
           i \in Which(got)
    BY <1>2, <2>3, <2>4, <2>6, <2>9 DEF Which
  <2>12. Closed(Which(got), Closing, n, key)
    BY <2>10, <2>11, Zenon DEF Closed
  <2>13. After(orders)[k] = IF k[2] = "STK" /\ k[1] \in Closing THEN 0 ELSE held[k]
    BY <1>4, <1>7, <2>1, <2>2, <2>12, FlatAfter
  <2>14. k[2] # "STK" \/ k[1] \notin Closing => held[k] = before[k]
    BY <2>5, <2>9
  <2> QED
    BY <2>13, <2>14
<1> QED
  BY <1>1, <1>2, <1>4, <1>10, <1>11, <1>12, <1>13, <1>14, Elsewhere DEF IInv

LEMMA TwsClosedKeeps ==
  ASSUME IInv, TwsClosed
  PROVE  IInv'
<1>1. /\ pc = "closing" /\ pc' = "end" /\ job' = job /\ csv' = csv /\ sizing' = sizing
      /\ ord' = ord /\ shown' = shown /\ before' = before /\ open' = open
      /\ held' = After(ord["close"])
      /\ polls' = polls /\ late' = late /\ gaveUp' = gaveUp
  BY DEF TwsClosed, queries
<1>2. job \in {"close", "closeAll", "trades"}
  BY <1>1 DEF IInv, Jobs
<1>3. ord["close"] \in Seq(CloseOrder)
  BY <1>1 DEF IInv, ClosesAll
<1>4. DOMAIN held' = DOMAIN held /\ \A k \in DOMAIN held : held'[k] \in Int
  <2>1. DOMAIN held' = DOMAIN held
    BY <1>1 DEF After
  <2>2. PICK orders \in Seq(CloseOrder) : orders = ord["close"]
    BY <1>3
  <2>3. \A i \in DOMAIN orders : orders[i].qty \in Int
    BY ClosingQty
  <2>4. \A t : Bought(t, orders) \in Int
    BY <2>3, BoughtType
  <2>5. \A k \in DOMAIN held : held[k] \in Int
    BY DEF IInv, Account
  <2> QED
    BY <1>1, <2>1, <2>2, <2>4, <2>5 DEF After
<1>5. Jobs' /\ ListsThere' /\ TradeOrders' /\ Answered'
  BY <1>1, <1>2 DEF IInv, Jobs, ListsThere, TradeOrders, Answered
<1>6. Account'
  BY <1>1, <1>2, <1>4 DEF IInv, Account
<1>7. FlatAtEnd'
  <2>1. ~gaveUp /\ (job = "close" \/ OnlyStocks(Closing)) =>
          \A k \in DOMAIN held :
            held'[k] = IF k[2] = "STK" /\ k[1] \in Closing THEN 0 ELSE before[k]
    BY <1>1 DEF IInv, ClosesAll
  <2>2. Closing' = Closing
    BY <1>1, <1>4 DEF Closing
  <2>3. OnlyStocks(Closing)' <=> OnlyStocks(Closing)
    BY <1>1, <2>2 DEF OnlyStocks
  <2> QED
    BY <1>1, <1>4, <2>1, <2>2, <2>3 DEF FlatAtEnd
<1> QED
  BY <1>1, <1>2, <1>5, <1>6, <1>7, Elsewhere DEF IInv

LEMMA TwsOrderKeeps ==
  ASSUME IInv, TwsOrder
  PROVE  IInv'
<1>1. /\ pc' = pc /\ job' = job /\ csv' = csv /\ sizing' = sizing
      /\ ord' = ord /\ shown' = shown /\ before' = before
      /\ polls' = polls /\ late' = late /\ gaveUp' = gaveUp
  BY DEF TwsOrder, queries
<1>2. PICK i \in DOMAIN open :
        /\ open' = RemoveAt(open, i)
        /\ held' = After(<<open[i]>>) \/ held' = held
  BY DEF TwsOrder
<1>3. open \in Seq(OrdersIn(csv)) /\ open # <<>>
  <2>1. open \in Seq(OrdersIn(csv))
    BY DEF IInv, Account
  <2>2. DOMAIN <<>> = {}
    OBVIOUS
  <2> QED
    BY <1>2, <2>1, <2>2
<1>4. /\ job = "trades" /\ pc \in {"poll", "positions", "close", "closing", "end"}
      /\ pc # "poll" => gaveUp
  BY <1>3 DEF IInv, Account, Jobs, Answered
<1>5. open' \in Seq(OrdersIn(csv))
  BY <1>2, <1>3, RemovedSeq
<1>6. PICK o \in OrdersIn(csv) : o = open[i]
  BY <1>2, <1>3, ElementOfSeq, LenProperties
<1>7. o.qty \in Int /\ o.ticker \in TickersOf(csv)
  BY DEF OrdersIn, TradeOrder
<1>8. \A t : Bought(t, <<o>>) = IF o.ticker = t THEN o.qty ELSE 0
  BY <1>7, BoughtByOne
<1>9. \A k \in DOMAIN held : held[k] \in Int
  BY DEF IInv, Account
<1>10. /\ DOMAIN held' = DOMAIN held
       /\ \A k \in DOMAIN held :
            /\ held'[k] \in Int
            /\ held'[k] = held[k] \/ (k[2] = "STK" /\ k[1] = o.ticker)
  <2>1. CASE held' = held
    BY <1>9, <2>1
  <2>2. CASE held' = After(<<open[i]>>)
    <3>1. held' = [k \in DOMAIN held |-> IF k[2] = "STK" THEN held[k] + Bought(k[1], <<o>>) ELSE held[k]]
      BY <1>6, <2>2 DEF After
    <3>2. ASSUME NEW k \in DOMAIN held
          PROVE  held'[k] \in Int /\ (held'[k] = held[k] \/ (k[2] = "STK" /\ k[1] = o.ticker))
      <4>1. PICK h \in Int, b \in Int : h = held[k] /\ b = Bought(k[1], <<o>>)
        BY <1>7, <1>8, <1>9
      <4>2. k[1] # o.ticker => b = 0
        BY <1>8, <4>1
      <4>3. held'[k] = IF k[2] = "STK" THEN h + b ELSE h
        BY <3>1, <4>1
      <4> QED
        BY <4>1, <4>2, <4>3
    <3> QED
      BY <3>1, <3>2
  <2> QED
    BY <1>2, <2>1, <2>2
<1>11. Jobs' /\ ListsThere' /\ TradeOrders' /\ Answered'
  BY <1>1, <1>4 DEF IInv, Jobs, ListsThere, TradeOrders, Answered
<1>12. Account'
  <2>1. \A k \in DOMAIN held' : held'[k] \in Int
    BY <1>10
  <2>2. pc # "end" => \A k \in DOMAIN held' :
          held'[k] = before[k] \/ (k[2] = "STK" /\ k[1] \in TickersOf(csv))
    BY <1>7, <1>10 DEF IInv, Account
  <2>3. /\ before \in Holdings /\ DOMAIN held' = DOMAIN before
        /\ shown' = shown /\ shown \subseteq DOMAIN held'
    BY <1>1, <1>10 DEF IInv, Account
  <2> QED
    BY <1>1, <1>4, <1>5, <2>1, <2>2, <2>3 DEF Account
<1>13. ClosesAll'
  <2>1. pc = "closing" => ord["close"] \in Seq(CloseOrder) /\ gaveUp
    BY <1>4 DEF IInv, ClosesAll
  <2> QED
    BY <1>1, <2>1 DEF ClosesAll
<1>14. FlatAtEnd'
  BY <1>1, <1>4 DEF FlatAtEnd
<1> QED
  BY <1>1, <1>4, <1>11, <1>12, <1>13, <1>14, Elsewhere DEF IInv

LEMMA StutterKeeps ==
  ASSUME IInv, UNCHANGED vars
  PROVE  IInv'
<1>1. /\ pc' = pc /\ job' = job /\ csv' = csv /\ sizing' = sizing /\ ord' = ord
      /\ held' = held /\ shown' = shown /\ before' = before /\ open' = open
      /\ polls' = polls /\ late' = late /\ gaveUp' = gaveUp
  BY DEF vars
<1>2. Jobs' /\ ListsThere' /\ SignalOrders' /\ TradeOrders' /\ Account' /\ Answered'
  BY <1>1 DEF IInv, Jobs, ListsThere, SignalOrders, TradeOrders, Account, Answered
<1>3. ClosesAll' /\ FlatAtEnd' /\ AllReached'
  <2>1. ClosesAll'
    BY <1>1 DEF IInv, ClosesAll, Closing, OnlyStocks, After
  <2>2. FlatAtEnd'
    BY <1>1 DEF IInv, FlatAtEnd, Closing, OnlyStocks
  <2>3. AllReached'
    BY <1>1 DEF IInv, AllReached, SeesStocks, OnlyStocks, After
  <2> QED
    BY <2>1, <2>2, <2>3
<1>4. WithinBuyingPower' /\ RoundedForTrader' /\ HedgeLeavesLittle'
  BY <1>1 DEF IInv, WithinBuyingPower, RoundedForTrader, HedgeLeavesLittle, Moderate
<1>5. SplitAddsUp' /\ AuctionWithinVolume'
  BY <1>1 DEF IInv, SplitAddsUp, AuctionWithinVolume
<1> QED
  BY <1>2, <1>3, <1>4, <1>5 DEF IInv

LEMMA StepKeeps ==
  ASSUME IInv, [Next]_vars
  PROVE  IInv'
<1>1. CASE GenOrder \/ RemoveLast \/ RemoveFromNone \/ RemovedEnough \/ GenOrderReturns
  BY <1>1, GenOrderKeeps, RemoveLastKeeps, RemoveFromNoneKeeps, RemovedEnoughKeeps,
     GenOrderReturnsKeeps
<1>2. CASE Round \/ GenHedgeOrder \/ SplitLOOVWAPOrders
  BY <1>2, RoundKeeps, GenHedgeOrderKeeps, SplitLOOVWAPOrdersKeeps
<1>3. CASE GenAN \/ GenTrade \/ SendOpening
  BY <1>3, GenANKeeps, GenTradeKeeps, SendOpeningKeeps
<1>4. CASE Poll \/ LookAtPositions \/ ClosePositions
  BY <1>4, PollKeeps, LookAtPositionsKeeps, ClosePositionsKeeps
<1>5. CASE TwsOrder \/ TwsClosed
  BY <1>5, TwsOrderKeeps, TwsClosedKeeps
<1>6. CASE UNCHANGED vars
  BY <1>6, StutterKeeps
<1> QED
  BY <1>1, <1>2, <1>3, <1>4, <1>5, <1>6 DEF Next

LEMMA Invariant == Spec => []IInv
<1>1. Init => IInv
  BY InitIInv
<1>2. IInv /\ [Next]_vars => IInv'
  BY StepKeeps
<1> QED
  BY <1>1, <1>2, PTL DEF Spec

-----------------------------------------------------------------------------
(* What holds of every day.                                                *)

\* The program, its step, its file, its lists and the account are of the kinds that
\* TypeOK says, whatever the files, the answers and the fills.
THEOREM TypeCorrect == Spec => []TypeOK
<1>1. IInv => TypeOK
  <2> SUFFICES ASSUME IInv PROVE TypeOK
    OBVIOUS
  <2>1. /\ job \in {"signals", "an", "trades", "close", "closeAll"}
        /\ pc \in {"size", "remove", "undefined", "sized", "round", "hedge", "split", "send",
                   "poll", "positions", "close", "sent", "closing", "end"}
        /\ csv \in Files \cup {<<>>}
    BY DEF IInv, Jobs, Files
  <2>2. /\ sizing.list \in Lists /\ sizing.power \in Powers \cup {0}
        /\ sizing.branch \in {"none", "whole", "factor", "remove"} /\ sizing.residue \in BOOLEAN
    BY DEF IInv, ListsThere, Sizing
  <2>3. /\ DOMAIN ord \subseteq Lists \cup {"loo", "vwap", "hedge", "close"}
        /\ \A l \in DOMAIN ord : \A i \in DOMAIN ord[l] : ord[l][i].qty \in Int
        /\ job = "signals" /\ pc \in {"round", "hedge", "split"} => Lists \subseteq DOMAIN ord
    BY DEF IInv, ListsThere
  <2>4. /\ DOMAIN held = DOMAIN before /\ shown \subseteq DOMAIN held
        /\ \A k \in DOMAIN held : held[k] \in Int
        /\ polls \in 0 .. MaxPolls /\ gaveUp \in BOOLEAN
    BY DEF IInv, Account, Answered
  <2> QED
    BY <2>1, <2>2, <2>3, <2>4, Zenon DEF TypeOK
<1> QED
  BY <1>1, Invariant, PTL

\* With any buying power above 0, genOrder never takes an order off an empty list: the
\* running values are those of the list but for a residue of rounding, so that an empty
\* list is not worth more than nine tenths of the buying power.
THEOREM NeverRemovedFromNone == Spec => []RemovalFindsOrder
<1>1. IInv => RemovalFindsOrder
  BY FindsOrder
<1> QED
  BY <1>1, Invariant, PTL

\* genOrder keeps the orders and their hedges within the buying power: always after
\* the removal of orders, and for moderate rows if all quantities are scaled.
THEOREM PowerKept == Spec => []WithinBuyingPower
<1>1. IInv => WithinBuyingPower
  BY DEF IInv
<1> QED
  BY <1>1, Invariant, PTL

\* truncLmtPrice moves a limit price by less than a tick, to the trader's advantage but
\* for the rounding to a cent.
THEOREM RoundingKept == Spec => []RoundedForTrader
<1>1. IInv => RoundedForTrader
  BY DEF IInv
<1> QED
  BY <1>1, Invariant, PTL

\* genHedgeOrder leaves less than a round lot exposed.
THEOREM HedgeKept == Spec => []HedgeLeavesLittle
<1>1. IInv => HedgeLeavesLittle
  BY DEF IInv
<1> QED
  BY <1>1, Invariant, PTL

\* splitLOOVWAPOrders neither loses nor adds shares.
THEOREM SplitKept == Spec => []SplitAddsUp
<1>1. IInv => SplitAddsUp
  BY DEF IInv
<1> QED
  BY <1>1, Invariant, PTL

\* splitLOOVWAPOrders keeps the auction's part of each order within the volume that the
\* orders of both lists may take.
THEOREM AuctionKept == Spec => []AuctionWithinVolume
<1>1. IInv => AuctionWithinVolume
  BY DEF IInv
<1> QED
  BY <1>1, Invariant, PTL

\* The adjustments of genANOrder, once filled, reach their targets, whatever is held
\* when queryPos is answered whole.
THEOREM TargetsReached == Spec => []AdjustedToTarget
<1>1. IInv => AdjustedToTarget
  BY DEF IInv, AllReached, AdjustedToTarget, Reached
<1> QED
  BY <1>1, Invariant, PTL

\* A day that has given up nothing ends flat in the tickers that it closes.
THEOREM EndsFlat == Spec => []FlatAtEnd
<1>1. IInv => FlatAtEnd
  BY DEF IInv
<1> QED
  BY <1>1, Invariant, PTL
=============================================================================
