---------------------------- MODULE TotalsTheorems ----------------------------
(***************************************************************************)
(* Facts about Total, SumOver, Earliest and Ranked.  Induction is done on  *)
(* a least counterexample: a nonempty set of naturals has a least element, *)
(* which is WFMin of the library for the order < of Nat.                   *)
(***************************************************************************)
EXTENDS Totals, FiniteSetTheorems, TLAPS, WellFoundedInduction

(* A nonempty set of naturals has a least element. *)
THEOREM LeastNatural ==
  ASSUME NEW S, S \subseteq Nat, S # {}
  PROVE  \E x \in S : \A y \in S : x <= y
<1>1. PICK x \in S : \A y \in S : ~ (<<y, x>> \in OpToRel(<, Nat))
  BY NatLessThanWellFounded, WFMin
<1>2. \A y \in S : ~(y < x)
  BY <1>1 DEF OpToRel
<1> QED BY <1>2

(* ORDER BY one column of a nonempty set leaves a nonempty set. *)
THEOREM EarliestNonempty ==
  ASSUME NEW S, S # {}, NEW key, \A x \in S : key[x] \in Nat
  PROVE  Earliest(S, key) # {} /\ Earliest(S, key) \subseteq S
<1> DEFINE K == {key[x] : x \in S}
<1>1. K \subseteq Nat /\ K # {}
  OBVIOUS
<1>2. PICK k \in K : \A j \in K : k <= j
  BY <1>1, LeastNatural
<1> QED BY <1>2 DEF Earliest

(* The partial sums of f up to n. *)
Sums(f, n, s) ==
  s = [i \in 0 .. n |-> IF i = 0 THEN 0 ELSE s[i - 1] + f[i]]

(* The recursive definition of Total has a solution. *)
LEMMA SumsExist ==
  ASSUME NEW f, NEW n \in Nat, \A i \in 1 .. n : f[i] \in Int
  PROVE  \E s \in [0 .. n -> Int] : Sums(f, n, s)
<1> DEFINE Bad == {m \in 0 .. n : ~ \E s \in [0 .. m -> Int] : Sums(f, m, s)}
<1> SUFFICES ASSUME Bad # {} PROVE FALSE
  OBVIOUS
<1>1. PICK m \in Bad : \A y \in Bad : m <= y
  <2>1. Bad \subseteq Nat
    OBVIOUS
  <2> QED BY <2>1, LeastNatural
<1>2. m # 0
  <2> SUFFICES ASSUME m = 0 PROVE FALSE OBVIOUS
  <2> DEFINE z == [i \in 0 .. 0 |-> 0]
  <2>1. z \in [0 .. 0 -> Int] OBVIOUS
  <2>2. Sums(f, 0, z) BY DEF Sums
  <2> QED BY <1>1, <2>1, <2>2
<1>3. m - 1 \in 0 .. n /\ m - 1 \notin Bad /\ m \in 1 .. n
  BY <1>1, <1>2
<1>4. PICK s \in [0 .. (m - 1) -> Int] : Sums(f, m - 1, s)
  BY <1>3
<1> DEFINE t == [i \in 0 .. m |-> IF i = m THEN s[m - 1] + f[m] ELSE s[i]]
<1>5. t \in [0 .. m -> Int]
  BY <1>3, <1>4
<1>6. Sums(f, m, t)
  <2>1. ASSUME NEW i \in 0 .. m
        PROVE t[i] = IF i = 0 THEN 0 ELSE t[i - 1] + f[i]
    BY <1>2, <1>3, <1>4 DEF Sums
  <2> QED BY <2>1, <1>5 DEF Sums
<1> QED BY <1>1, <1>5, <1>6

(* Total is the last of the partial sums. *)
LEMMA TotalIsLastSum ==
  ASSUME NEW f, NEW n \in Nat, \A i \in 1 .. n : f[i] \in Int
  PROVE  \E s \in [0 .. n -> Int] :
           /\ s[0] = 0
           /\ \A i \in 1 .. n : s[i] = s[i - 1] + f[i]
           /\ Total(f, n) = s[n]
<1> DEFINE sum == CHOOSE s : Sums(f, n, s)
<1>1. PICK s \in [0 .. n -> Int] : Sums(f, n, s)
  BY SumsExist
<1>2. Sums(f, n, sum)
  BY <1>1
<1>3. Total(f, n) = sum[n]
  BY DEF Total, Sums
<1> HIDE DEF sum
<1>4. ASSUME NEW t, Sums(f, n, t)
      PROVE  /\ t[0] = 0
             /\ \A i \in 1 .. n : t[i] = t[i - 1] + f[i]
  BY <1>4 DEF Sums
<1>5. \A i \in 0 .. n : sum[i] = s[i]
  <2> DEFINE Bad == {i \in 0 .. n : sum[i] # s[i]}
  <2> SUFFICES ASSUME Bad # {} PROVE FALSE
    OBVIOUS
  <2>1. PICK m \in Bad : \A y \in Bad : m <= y
    <3>1. Bad \subseteq Nat
      OBVIOUS
    <3> QED BY <3>1, LeastNatural
  <2>2. m # 0
    BY <1>1, <1>2, <1>4
  <2>3. m - 1 \in 0 .. n /\ m - 1 \notin Bad /\ m \in 1 .. n
    BY <2>1, <2>2
  <2>4. sum[m] = sum[m - 1] + f[m] /\ s[m] = s[m - 1] + f[m]
    BY <1>1, <1>2, <1>4, <2>3
  <2> QED BY <2>1, <2>3, <2>4
<1> QED BY <1>1, <1>3, <1>4, <1>5

(* A sum of integers is an integer. *)
THEOREM TotalInteger ==
  ASSUME NEW f, NEW n \in Nat, \A i \in 1 .. n : f[i] \in Int
  PROVE  Total(f, n) \in Int
<1>1. PICK s \in [0 .. n -> Int] : Total(f, n) = s[n]
  BY TotalIsLastSum
<1> QED BY <1>1

(* A sum of naturals is a natural. *)
THEOREM TotalNatural ==
  ASSUME NEW f, NEW n \in Nat, \A i \in 1 .. n : f[i] \in Nat
  PROVE  Total(f, n) \in Nat
<1>1. PICK s \in [0 .. n -> Int] :
         /\ s[0] = 0
         /\ \A i \in 1 .. n : s[i] = s[i - 1] + f[i]
         /\ Total(f, n) = s[n]
  <2>1. \A i \in 1 .. n : f[i] \in Int
    OBVIOUS
  <2> QED BY <2>1, TotalIsLastSum
<1> DEFINE Bad == {i \in 0 .. n : s[i] < 0}
<1>2. Bad = {}
  <2> SUFFICES ASSUME Bad # {} PROVE FALSE
    OBVIOUS
  <2>1. PICK m \in Bad : \A y \in Bad : m <= y
    <3>1. Bad \subseteq Nat
      OBVIOUS
    <3> QED BY <3>1, LeastNatural
  <2>2. m # 0
    BY <1>1
  <2>3. m - 1 \in 0 .. n /\ m - 1 \notin Bad /\ m \in 1 .. n
    BY <2>1, <2>2
  <2>4. s[m - 1] >= 0 /\ s[m - 1] \in Int /\ f[m] \in Nat
    BY <2>3
  <2>5. s[m] = s[m - 1] + f[m]
    BY <1>1, <2>3
  <2> QED BY <2>1, <2>4, <2>5
<1> QED BY <1>1, <1>2

(* Changing f into g, which is no more than f but for d more at k, raises  *)
(* the sum by d at most.  With d = 0: the sum is monotone.                 *)
THEOREM TotalBound ==
  ASSUME NEW f, NEW g, NEW n \in Nat, NEW k \in Nat, NEW d \in Nat,
         \A i \in 1 .. n : f[i] \in Int /\ g[i] \in Int,
         \A i \in 1 .. n : g[i] <= f[i] + (IF i = k THEN d ELSE 0)
  PROVE  Total(g, n) <= Total(f, n) + d
<1>1. PICK s \in [0 .. n -> Int] :
         /\ s[0] = 0
         /\ \A i \in 1 .. n : s[i] = s[i - 1] + f[i]
         /\ Total(f, n) = s[n]
  BY TotalIsLastSum
<1>2. PICK t \in [0 .. n -> Int] :
         /\ t[0] = 0
         /\ \A i \in 1 .. n : t[i] = t[i - 1] + g[i]
         /\ Total(g, n) = t[n]
  BY TotalIsLastSum
<1> DEFINE up == [i \in 0 .. n |-> IF 0 < k /\ k <= i THEN d ELSE 0]
           Bad == {i \in 0 .. n : ~ (t[i] <= s[i] + up[i])}
<1>3. Bad = {}
  <2> SUFFICES ASSUME Bad # {} PROVE FALSE
    OBVIOUS
  <2>1. PICK m \in Bad : \A y \in Bad : m <= y
    <3>1. Bad \subseteq Nat
      OBVIOUS
    <3> QED BY <3>1, LeastNatural
  <2>2. m # 0
    BY <1>1, <1>2
  <2>3. m - 1 \in 0 .. n /\ m - 1 \notin Bad /\ m \in 1 .. n
    BY <2>1, <2>2
  <2>4. t[m - 1] <= s[m - 1] + up[m - 1]
    BY <2>3
  <2> DEFINE more == IF m = k THEN d ELSE 0
  <2>5. /\ s[m] \in Int /\ t[m] \in Int /\ s[m - 1] \in Int /\ t[m - 1] \in Int
        /\ f[m] \in Int /\ g[m] \in Int /\ g[m] <= f[m] + more
        /\ s[m] = s[m - 1] + f[m] /\ t[m] = t[m - 1] + g[m]
    BY <1>1, <1>2, <2>3
  <2>6. more \in Int /\ up[m - 1] \in Int /\ up[m] = up[m - 1] + more
    BY <2>3
  <2> HIDE DEF more
  <2>7. PICK s1 \in Int, t1 \in Int, u0 \in Int, u1 \in Int, x \in Int,
             y \in Int, e \in Int, s0 \in Int, t0 \in Int :
          /\ s1 = s[m] /\ t1 = t[m] /\ s0 = s[m - 1] /\ t0 = t[m - 1]
          /\ u1 = up[m] /\ u0 = up[m - 1] /\ x = f[m] /\ y = g[m] /\ e = more
    <3>1. up[m] \in Int
      BY <2>3
    <3> QED BY <3>1, <2>5, <2>6
  <2> HIDE DEF up, Bad
  <2>8. /\ s1 = s0 + x /\ t1 = t0 + y /\ y <= x + e
        /\ u1 = u0 + e /\ t0 <= s0 + u0
    BY <2>4, <2>5, <2>6, <2>7, Zenon
  <2>9. t1 <= s1 + u1
    BY <2>8
  <2>10. t[m] <= s[m] + up[m]
    BY <2>7, <2>9, Zenon
  <2> USE DEF Bad
  <2> QED BY <2>1, <2>10
<1>4. n \in 0 .. n
  OBVIOUS
<1>5. t[n] <= s[n] + up[n]
  BY <1>3, <1>4
<1> QED BY <1>1, <1>2, <1>4, <1>5
(* The sum is monotone. *)
THEOREM TotalMonotone ==
  ASSUME NEW f, NEW g, NEW n \in Nat,
         \A i \in 1 .. n : f[i] \in Int /\ g[i] \in Int,
         \A i \in 1 .. n : g[i] <= f[i]
  PROVE  Total(g, n) <= Total(f, n)
<1> DEFINE d == 0
<1>1. d \in Nat /\ \A x \in Int : x + d = x
  OBVIOUS
<1>2. \A i \in 1 .. n : g[i] <= f[i] + (IF i = 0 THEN d ELSE 0)
  OBVIOUS
<1>3. Total(f, n) \in Int
  BY TotalIsLastSum
<1> HIDE DEF d
<1>4. Total(g, n) <= Total(f, n) + d
  BY <1>1, <1>2, TotalBound
<1> QED BY <1>1, <1>3, <1>4

(* A sum of zeros is zero. *)
THEOREM TotalZero ==
  ASSUME NEW f, NEW n \in Nat, \A i \in 1 .. n : f[i] = 0
  PROVE  Total(f, n) = 0
<1>1. \A i \in 1 .. n : f[i] \in Int
  OBVIOUS
<1>2. PICK s \in [0 .. n -> Int] :
         /\ s[0] = 0
         /\ \A i \in 1 .. n : s[i] = s[i - 1] + f[i]
         /\ Total(f, n) = s[n]
  BY <1>1, TotalIsLastSum
<1> DEFINE Bad == {i \in 0 .. n : s[i] # 0}
<1>3. Bad = {}
  <2> SUFFICES ASSUME Bad # {} PROVE FALSE
    OBVIOUS
  <2>1. PICK m \in Bad : \A y \in Bad : m <= y
    <3>1. Bad \subseteq Nat
      OBVIOUS
    <3> QED BY <3>1, LeastNatural
  <2>2. m # 0
    BY <1>2
  <2>3. m - 1 \in 0 .. n /\ m - 1 \notin Bad /\ m \in 1 .. n
    BY <2>1, <2>2
  <2>4. s[m - 1] = 0 /\ f[m] = 0 /\ s[m] = s[m - 1] + f[m]
    BY <1>2, <2>3
  <2> QED BY <2>1, <2>4
<1> QED BY <1>2, <1>3

(* Induction up to n, on the set I of the numbers it holds for. *)
THEOREM UpTo ==
  ASSUME NEW n \in Nat, NEW I, 0 \in I,
         \A i \in 1 .. n : i - 1 \in I => i \in I
  PROVE  \A i \in 0 .. n : i \in I
<1> DEFINE Bad == {i \in 0 .. n : i \notin I}
<1> SUFFICES ASSUME Bad # {} PROVE FALSE
  OBVIOUS
<1>1. PICK m \in Bad : \A y \in Bad : m <= y
  <2>1. Bad \subseteq Nat
    OBVIOUS
  <2> QED BY <2>1, LeastNatural
<1>2. m # 0
  OBVIOUS
<1>3. m - 1 \in 0 .. n /\ m - 1 \notin Bad /\ m \in 1 .. n
  BY <1>1, <1>2
<1> QED BY <1>3

(* Raising one entry by d raises the sum by d. *)
THEOREM TotalOneMore ==
  ASSUME NEW f, NEW g, NEW n \in Nat, NEW k \in 1 .. n, NEW d \in Int,
         \A i \in 1 .. n : f[i] \in Int /\ g[i] \in Int,
         \A i \in 1 .. n : i # k => g[i] = f[i],
         g[k] = f[k] + d
  PROVE  Total(g, n) = Total(f, n) + d
<1>1. PICK s \in [0 .. n -> Int] :
         /\ s[0] = 0
         /\ \A i \in 1 .. n : s[i] = s[i - 1] + f[i]
         /\ Total(f, n) = s[n]
  BY TotalIsLastSum
<1>2. PICK t \in [0 .. n -> Int] :
         /\ t[0] = 0
         /\ \A i \in 1 .. n : t[i] = t[i - 1] + g[i]
         /\ Total(g, n) = t[n]
  BY TotalIsLastSum
<1> DEFINE I == {i \in 0 .. n : t[i] = IF k <= i THEN s[i] + d ELSE s[i]}
<1>3. 0 \in I
  BY <1>1, <1>2
<1>4. ASSUME NEW i \in 1 .. n, i - 1 \in I
      PROVE  i \in I
  <2>1. t[i - 1] = IF k <= i - 1 THEN s[i - 1] + d ELSE s[i - 1]
    BY <1>4
  <2> DEFINE s1 == s[i]
             t1 == t[i]
             s0 == s[i - 1]
             t0 == t[i - 1]
             x == f[i]
             y == g[i]
  <2>2. /\ s1 \in Int /\ t1 \in Int /\ s0 \in Int /\ t0 \in Int
        /\ x \in Int /\ y \in Int
    <3>1. i \in 0 .. n /\ i - 1 \in 0 .. n
      OBVIOUS
    <3> HIDE DEF I
    <3> QED BY <3>1
  <2>3. s1 = s0 + x /\ t1 = t0 + y
    BY <1>1, <1>2
  <2>4. y = IF i = k THEN x + d ELSE x
    OBVIOUS
  <2>5. t0 = IF k <= i - 1 THEN s0 + d ELSE s0
    BY <2>1
  <2> HIDE DEF I, s1, t1, s0, t0, x, y
  <2>6. t1 = IF k <= i THEN s1 + d ELSE s1
    <3>1. i \in Nat /\ k \in Nat /\ d \in Int
      OBVIOUS
    <3> QED BY <2>2, <2>3, <2>4, <2>5, <3>1
  <2>7. t[i] = IF k <= i THEN s[i] + d ELSE s[i]
    BY <2>6 DEF s1, t1
  <2> QED BY <2>7 DEF I
<1>5. n \in 0 .. n
  OBVIOUS
<1> HIDE DEF I
<1>6. n \in I
  BY <1>3, <1>4, <1>5, UpTo
<1>7. t[n] = s[n] + d
  BY <1>6 DEF I
<1> QED BY <1>1, <1>2, <1>7

(* The sum depends on the entries 1 .. n only. *)
THEOREM TotalSame ==
  ASSUME NEW f, NEW g, NEW n \in Nat,
         \A i \in 1 .. n : f[i] \in Int /\ g[i] = f[i]
  PROVE  Total(g, n) = Total(f, n)
<1>1. \A i \in 1 .. n : /\ f[i] \in Int /\ g[i] \in Int
                        /\ g[i] <= f[i] /\ f[i] <= g[i]
  OBVIOUS
<1>2. Total(g, n) <= Total(f, n) /\ Total(f, n) <= Total(g, n)
  BY <1>1, TotalMonotone
<1>3. Total(g, n) \in Int /\ Total(f, n) \in Int
  BY <1>1, TotalIsLastSum
<1> QED BY <1>2, <1>3

(* What is lower at k, and not lower as a sum, is higher elsewhere. *)
THEOREM TotalHigherElsewhere ==
  ASSUME NEW f, NEW g, NEW n \in Nat, NEW k \in 1 .. n,
         \A i \in 1 .. n : f[i] \in Int /\ g[i] \in Int,
         f[k] < g[k], Total(g, n) <= Total(f, n)
  PROVE  \E i \in 1 .. n : g[i] < f[i]
<1> SUFFICES ASSUME \A i \in 1 .. n : f[i] <= g[i]
             PROVE  FALSE
  OBVIOUS
<1>1. PICK x \in Int, y \in Int : x = f[k] /\ y = g[k] /\ x < y
  <2>1. f[k] \in Int /\ g[k] \in Int
    OBVIOUS
  <2> QED BY <2>1
<1> DEFINE h == [i \in 1 .. n |-> IF i = k THEN x ELSE g[i]]
<1>2. \A i \in 1 .. n : /\ h[i] \in Int /\ f[i] <= h[i]
                        /\ i # k => g[i] = h[i]
  BY <1>1
<1>3. y - x \in Int /\ y - x > 0 /\ y = x + (y - x) /\ h[k] = x
  BY <1>1
<1> HIDE DEF h
<1>4. g[k] = h[k] + (y - x)
  BY <1>1, <1>3, Zenon
<1>5. Total(g, n) = Total(h, n) + (y - x)
  BY <1>2, <1>3, <1>4, TotalOneMore
<1>6. Total(f, n) <= Total(h, n)
  BY <1>2, TotalMonotone
<1>7. Total(f, n) \in Int /\ Total(g, n) \in Int /\ Total(h, n) \in Int
  BY <1>2, TotalInteger
<1> QED BY <1>3, <1>5, <1>6, <1>7

(* A sum of no rows. *)
THEOREM TotalNone ==
  ASSUME NEW f
  PROVE  Total(f, 0) = 0
<1>1. \A i \in 1 .. 0 : f[i] = 0
  OBVIOUS
<1> QED BY <1>1, TotalZero

(* The last row of a sum. *)
THEOREM TotalStep ==
  ASSUME NEW f, NEW n \in Nat \ {0}, \A i \in 1 .. n : f[i] \in Int
  PROVE  Total(f, n) = Total(f, n - 1) + f[n]
<1>1. PICK s \in [0 .. n -> Int] :
         /\ s[0] = 0
         /\ \A i \in 1 .. n : s[i] = s[i - 1] + f[i]
         /\ Total(f, n) = s[n]
  BY TotalIsLastSum
<1>2. n - 1 \in Nat /\ \A i \in 1 .. n - 1 : f[i] \in Int
  OBVIOUS
<1>3. PICK t \in [0 .. n - 1 -> Int] :
         /\ t[0] = 0
         /\ \A i \in 1 .. n - 1 : t[i] = t[i - 1] + f[i]
         /\ Total(f, n - 1) = t[n - 1]
  BY <1>2, TotalIsLastSum
<1> DEFINE I == {i \in 0 .. n - 1 : t[i] = s[i]}
<1>4. 0 \in I
  BY <1>1, <1>3
<1>5. ASSUME NEW i \in 1 .. n - 1, i - 1 \in I
      PROVE  i \in I
  <2>1. t[i] = t[i - 1] + f[i] /\ s[i] = s[i - 1] + f[i] /\ t[i - 1] = s[i - 1]
    BY <1>1, <1>3, <1>5
  <2> QED BY <2>1
<1> HIDE DEF I
<1>6. n - 1 \in I
  <2>1. n - 1 \in 0 .. n - 1
    OBVIOUS
  <2> QED BY <1>2, <1>4, <1>5, <2>1, UpTo
<1>7. t[n - 1] = s[n - 1] /\ s[n] = s[n - 1] + f[n]
  BY <1>1, <1>6 DEF I
<1> QED BY <1>1, <1>3, <1>7

(* A sum of sums of two entries. *)
THEOREM TotalPlus ==
  ASSUME NEW n \in Nat, NEW f, NEW g, NEW h,
         \A i \in 1 .. n : f[i] \in Int /\ g[i] \in Int /\ h[i] = f[i] + g[i]
  PROVE  Total(h, n) = Total(f, n) + Total(g, n)
<1> DEFINE I == {i \in 0 .. n : Total(h, i) = Total(f, i) + Total(g, i)}
<1>1. 0 \in I
  BY TotalNone
<1>2. ASSUME NEW i \in 1 .. n, i - 1 \in I
      PROVE  i \in I
  <2>1. /\ i \in Nat \ {0} /\ i - 1 \in Nat
        /\ \A k \in 1 .. i : f[k] \in Int /\ g[k] \in Int /\ h[k] \in Int
        /\ \A k \in 1 .. i - 1 : f[k] \in Int /\ g[k] \in Int /\ h[k] \in Int
    OBVIOUS
  <2>2. /\ Total(f, i) = Total(f, i - 1) + f[i]
        /\ Total(g, i) = Total(g, i - 1) + g[i]
        /\ Total(h, i) = Total(h, i - 1) + h[i]
    BY <2>1, TotalStep
  <2>3. /\ Total(f, i - 1) \in Int /\ Total(g, i - 1) \in Int /\ Total(h, i - 1) \in Int
    BY <2>1, TotalInteger
  <2>4. /\ Total(h, i - 1) = Total(f, i - 1) + Total(g, i - 1) /\ h[i] = f[i] + g[i]
    BY <1>2
  <2>5. Total(h, i) = Total(f, i) + Total(g, i)
    BY <2>1, <2>2, <2>3, <2>4
  <2> QED BY <2>5
<1> HIDE DEF I
<1>3. n \in 0 .. n
  OBVIOUS
<1>4. n \in I
  BY <1>1, <1>2, <1>3, UpTo
<1> QED BY <1>4 DEF I

(* A sum of opposites. *)
THEOREM TotalOpposite ==
  ASSUME NEW n \in Nat, NEW f, NEW g,
         \A i \in 1 .. n : f[i] \in Int /\ g[i] = -f[i]
  PROVE  Total(g, n) = -Total(f, n)
<1> DEFINE z == [i \in 1 .. n |-> 0]
<1>1. \A i \in 1 .. n : f[i] \in Int /\ g[i] \in Int /\ z[i] = f[i] + g[i] /\ z[i] = 0
  OBVIOUS
<1> HIDE DEF z
<1>2. Total(z, n) = Total(f, n) + Total(g, n) /\ Total(z, n) = 0
  BY <1>1, TotalPlus, TotalZero
<1>3. Total(f, n) \in Int /\ Total(g, n) \in Int
  BY <1>1, TotalInteger
<1> QED BY <1>2, <1>3

(* A sum of which all entries but one are zero. *)
THEOREM TotalOnlyAt ==
  ASSUME NEW n \in Nat, NEW f, NEW k \in 1 .. n, f[k] \in Int,
         \A i \in 1 .. n : i # k => f[i] = 0
  PROVE  Total(f, n) = f[k]
<1> DEFINE z == [i \in 1 .. n |-> 0]
<1>1. PICK d \in Int : d = f[k]
  OBVIOUS
<1>2. \A i \in 1 .. n : z[i] = 0 /\ z[i] \in Int /\ f[i] \in Int
  BY <1>1
<1>3. f[k] = z[k] + d /\ \A i \in 1 .. n : i # k => f[i] = z[i]
  BY <1>1
<1> HIDE DEF z
<1>4. Total(f, n) = Total(z, n) + d
  BY <1>2, <1>3, TotalOneMore
<1>5. Total(z, n) = 0
  BY <1>2, TotalZero
<1> QED BY <1>1, <1>4, <1>5

(* The n rows of a table F of m columns, each summed, and its columns.     *)
BothWays(n, m, F, rows, columns) ==
  /\ n \in Nat /\ m \in Nat
  /\ \A i \in 1 .. n : \A j \in 1 .. m : F[i][j] \in Int
  /\ \A i \in 1 .. n : rows[i] = Total(F[i], m)
  /\ \A j \in 1 .. m : columns[j] = Total([i \in 1 .. n |-> F[i][j]], n)

(* The sum of a table by rows is its sum by columns. *)
THEOREM TotalSwap ==
  ASSUME NEW n, NEW m, NEW F, NEW rows, NEW columns, BothWays(n, m, F, rows, columns)
  PROVE  Total(rows, n) = Total(columns, m)
<1>0. /\ n \in Nat /\ m \in Nat
      /\ \A i \in 1 .. n, j \in 1 .. m : F[i][j] \in Int
      /\ \A i \in 1 .. n : rows[i] = Total(F[i], m)
      /\ \A j \in 1 .. m : columns[j] = Total([i \in 1 .. n |-> F[i][j]], n)
  BY DEF BothWays
<1> USE <1>0
<1> DEFINE Column(k) == [j \in 1 .. m |-> Total([i \in 1 .. n |-> F[i][j]], k)]
           I == {k \in 0 .. n : Total(rows, k) = Total(Column(k), m)}
<1>1. 0 \in I
  <2>1. \A j \in 1 .. m : Column(0)[j] = 0
    BY TotalNone
  <2> HIDE DEF Column
  <2>2. Total(Column(0), m) = 0 /\ Total(rows, 0) = 0
    BY <2>1, TotalZero, TotalNone
  <2> QED BY <2>2
<1>2. ASSUME NEW k \in 1 .. n, k - 1 \in I
      PROVE  k \in I
  <2>1. /\ k \in Nat \ {0}
        /\ \A i \in 1 .. k : rows[i] \in Int
    <3>1. \A i \in 1 .. n : Total(F[i], m) \in Int
      BY TotalInteger
    <3> QED BY <3>1
  <2>2. Total(rows, k) = Total(rows, k - 1) + Total(F[k], m)
    BY <2>1, TotalStep
  <2>3. \A j \in 1 .. m : /\ Column(k - 1)[j] \in Int /\ F[k][j] \in Int
                          /\ Column(k)[j] = Column(k - 1)[j] + F[k][j]
    <3> SUFFICES ASSUME NEW j \in 1 .. m
                 PROVE  /\ Column(k - 1)[j] \in Int
                        /\ Column(k)[j] = Column(k - 1)[j] + F[k][j]
      OBVIOUS
    <3> DEFINE c == [i \in 1 .. n |-> F[i][j]]
    <3>1. \A i \in 1 .. n : c[i] \in Int
      OBVIOUS
    <3>2. c[k] = F[k][j]
      OBVIOUS
    <3>3. Column(k)[j] = Total(c, k) /\ Column(k - 1)[j] = Total(c, k - 1)
      OBVIOUS
    <3> HIDE DEF c, Column
    <3>4. /\ \A i \in 1 .. k : c[i] \in Int
          /\ \A i \in 1 .. k - 1 : c[i] \in Int
          /\ k - 1 \in Nat
      BY <2>1, <3>1
    <3>5. Total(c, k) = Total(c, k - 1) + c[k]
      BY <2>1, <3>4, TotalStep
    <3>6. Total(c, k - 1) \in Int
      BY <3>4, TotalInteger
    <3>7. Column(k - 1)[j] \in Int
      BY <3>3, <3>6
    <3>8. Column(k)[j] = Column(k - 1)[j] + F[k][j]
      BY ONLY <3>2, <3>3, <3>5
    <3> QED BY <3>7, <3>8
  <2> HIDE DEF Column
  <2>4. Total(Column(k), m) = Total(Column(k - 1), m) + Total(F[k], m)
    <3>1. m \in Nat
      OBVIOUS
    <3> QED BY ONLY <2>3, <3>1, TotalPlus
  <2>5. Total(rows, k - 1) = Total(Column(k - 1), m)
    BY <1>2
  <2> QED BY <2>2, <2>4, <2>5
<1>3. n \in 0 .. n
  OBVIOUS
<1> HIDE DEF I
<1>4. n \in I
  BY <1>1, <1>2, <1>3, UpTo
<1>5. Total(rows, n) = Total(Column(n), m)
  BY <1>4 DEF I
<1>6. \A j \in 1 .. m : Column(n)[j] \in Int /\ columns[j] = Column(n)[j]
  <2>1. \A j \in 1 .. m : Total([i \in 1 .. n |-> F[i][j]], n) \in Int
    <3> SUFFICES ASSUME NEW j \in 1 .. m
                 PROVE  Total([i \in 1 .. n |-> F[i][j]], n) \in Int
      OBVIOUS
    <3> DEFINE c == [i \in 1 .. n |-> F[i][j]]
    <3>1. \A i \in 1 .. n : c[i] \in Int
      OBVIOUS
    <3> HIDE DEF c
    <3>2. Total(c, n) \in Int
      BY <3>1, TotalInteger
    <3> QED BY <3>2 DEF c
  <2> QED BY <2>1
<1> HIDE DEF Column
<1>7. Total(columns, m) = Total(Column(n), m)
  BY <1>6, TotalSame
<1> QED BY <1>5, <1>7

-----------------------------------------------------------------------------
(* q numbers the elements of S from 1 to n, each once. *)
NumberedBy(S, n, q) ==
  /\ n \in Nat /\ q \in [1 .. n -> S]
  /\ \A x \in S : \E i \in 1 .. n : q[i] = x
  /\ \A i, k \in 1 .. n : q[i] = q[k] => i = k

(* So does Numbered, for every finite set. *)
LEMMA NumberedIs ==
  ASSUME NEW S, IsFiniteSet(S)
  PROVE  NumberedBy(S, Cardinality(S), Numbered(S))
<1> DEFINE n == Cardinality(S)
           OneEach(q) == \A x \in S : \E i \in DOMAIN q :
                           \A j \in DOMAIN q : q[j] = x <=> j = i
<1>1. n \in Nat /\ ExistsBijection(1 .. n, S)
  BY FS_CardinalityType
<1>2. PICK b \in [1 .. n -> S] : /\ \A i, j \in 1 .. n : b[i] = b[j] => i = j
                                 /\ \A x \in S : \E i \in 1 .. n : b[i] = x
  BY <1>1 DEF ExistsBijection, Bijection, Injection, Surjection, IsInjective
<1>3. OneEach(b)
  <2> SUFFICES ASSUME NEW x \in S
               PROVE  \E i \in 1 .. n : \A j \in 1 .. n : b[j] = x <=> j = i
    BY <1>2
  <2>1. PICK i \in 1 .. n : b[i] = x
    BY <1>2
  <2>2. \A j \in 1 .. n : b[j] = x <=> j = i
    BY <1>2, <2>1
  <2> QED BY <2>2
<1>4. PICK q : q = Numbered(S) /\ q \in [1 .. n -> S] /\ OneEach(q)
  <2>1. Numbered(S) = CHOOSE q \in [1 .. n -> S] : OneEach(q)
    BY Zenon DEF Numbered
  <2> HIDE DEF n, OneEach
  <2>2. \E q \in [1 .. n -> S] : OneEach(q)
    BY <1>2, <1>3
  <2> QED BY <2>1, <2>2
<1>6. \A x \in S : \E i \in 1 .. n : \A j \in 1 .. n : q[j] = x <=> j = i
  BY <1>4
<1> HIDE DEF n
<1>7. \A x \in S : \E i \in 1 .. n : q[i] = x
  BY <1>6
<1>8. ASSUME NEW i \in 1 .. n, NEW k \in 1 .. n, q[i] = q[k]
      PROVE  i = k
  <2>1. PICK x \in S : x = q[i] /\ x = q[k]
    BY <1>4, <1>8
  <2>2. PICK l \in 1 .. n : \A j \in 1 .. n : q[j] = x <=> j = l
    BY <1>6
  <2> QED BY <2>1, <2>2
<1>9. NumberedBy(S, n, q)
  BY <1>1, <1>4, <1>7, <1>8 DEF NumberedBy
<1> QED BY <1>4, <1>9 DEF n

(* f[1 .. n] and g[1 .. m] have the same entries, numbered differently (q  *)
(* and p say which entry is which); entries of only one of them are zero.  *)
Matched(n, m, f, g, q, p) ==
  /\ n \in Nat /\ m \in Nat
  /\ \A i \in 1 .. n : f[i] \in Int
  /\ \A i, k \in 1 .. n : q[i] = q[k] => i = k
  /\ \A j, k \in 1 .. m : p[j] = p[k] => j = k
  /\ \A i \in 1 .. n : \A j \in 1 .. m : q[i] = p[j] => f[i] = g[j]
  /\ \A i \in 1 .. n : (\A j \in 1 .. m : q[i] # p[j]) => f[i] = 0
  /\ \A j \in 1 .. m : (\A i \in 1 .. n : q[i] # p[j]) => g[j] = 0

(* Then their sums are equal. *)
LEMMA TotalMatched ==
  ASSUME NEW n, NEW m, NEW f, NEW g, NEW q, NEW p, Matched(n, m, f, g, q, p)
  PROVE  Total(f, n) = Total(g, m)
<1>0. /\ n \in Nat /\ m \in Nat
      /\ \A i \in 1 .. n : f[i] \in Int
      /\ \A i, k \in 1 .. n : q[i] = q[k] => i = k
      /\ \A j, k \in 1 .. m : p[j] = p[k] => j = k
      /\ \A i \in 1 .. n : \A j \in 1 .. m : q[i] = p[j] => f[i] = g[j]
      /\ \A i \in 1 .. n : (\A j \in 1 .. m : q[i] # p[j]) => f[i] = 0
      /\ \A j \in 1 .. m : (\A i \in 1 .. n : q[i] # p[j]) => g[j] = 0
  BY DEF Matched
<1> DEFINE F == [i \in 1 .. n |-> [j \in 1 .. m |-> IF q[i] = p[j] THEN f[i] ELSE 0]]
           Column(j) == [i \in 1 .. n |-> F[i][j]]
<1>1. \A i \in 1 .. n, j \in 1 .. m : F[i][j] = IF q[i] = p[j] THEN f[i] ELSE 0
  OBVIOUS
<1>2. \A i \in 1 .. n, j \in 1 .. m : Column(j)[i] = IF q[i] = p[j] THEN f[i] ELSE 0
  OBVIOUS
<1>3. \A i \in 1 .. n, j \in 1 .. m : F[i][j] \in Int
  BY <1>0, <1>1
<1>4. \A j \in 1 .. m : Column(j) = [i \in 1 .. n |-> F[i][j]]
  OBVIOUS
<1> HIDE DEF F, Column
<1>5. ASSUME NEW i \in 1 .. n
      PROVE  f[i] = Total(F[i], m)
  <2>1. CASE \E j \in 1 .. m : q[i] = p[j]
    <3>1. PICK j \in 1 .. m : q[i] = p[j]
      BY <2>1
    <3>2. F[i][j] = f[i] /\ F[i][j] \in Int /\ \A k \in 1 .. m : k # j => F[i][k] = 0
      BY <1>0, <1>1, <3>1
    <3>3. Total(F[i], m) = F[i][j]
      BY <1>0, <3>2, TotalOnlyAt
    <3> QED BY <3>2, <3>3
  <2>2. CASE \A j \in 1 .. m : q[i] # p[j]
    <3>1. \A j \in 1 .. m : F[i][j] = 0
      BY <1>1, <2>2
    <3>2. Total(F[i], m) = 0
      BY <1>0, <3>1, TotalZero
    <3> QED BY <1>0, <2>2, <3>2
  <2> QED BY <2>1, <2>2
<1>6. ASSUME NEW j \in 1 .. m
      PROVE  g[j] = Total(Column(j), n)
  <2>1. CASE \E i \in 1 .. n : q[i] = p[j]
    <3>1. PICK i \in 1 .. n : q[i] = p[j]
      BY <2>1
    <3>2. /\ Column(j)[i] = f[i] /\ f[i] = g[j] /\ Column(j)[i] \in Int
          /\ \A k \in 1 .. n : k # i => Column(j)[k] = 0
      BY <1>0, <1>2, <3>1
    <3>3. Total(Column(j), n) = Column(j)[i]
      BY <1>0, <3>2, TotalOnlyAt
    <3> QED BY <3>2, <3>3
  <2>2. CASE \A i \in 1 .. n : q[i] # p[j]
    <3>1. \A i \in 1 .. n : Column(j)[i] = 0
      BY <1>2, <2>2
    <3>2. Total(Column(j), n) = 0
      BY <1>0, <3>1, TotalZero
    <3> QED BY <1>0, <2>2, <3>2
  <2> QED BY <2>1, <2>2
<1>7. \A j \in 1 .. m : g[j] = Total([i \in 1 .. n |-> F[i][j]], n)
  BY <1>4, <1>6
<1>8. \A i \in 1 .. n : f[i] = Total(F[i], m)
  BY <1>5
<1>9. BothWays(n, m, F, f, g)
  BY <1>0, <1>3, <1>7, <1>8 DEF BothWays
<1> QED BY <1>9, TotalSwap

(* A sum of integers over a finite set is an integer. *)
THEOREM SumInteger ==
  ASSUME NEW S, IsFiniteSet(S), NEW f, \A x \in S : f[x] \in Int
  PROVE  SumOver(S, f) \in Int
<1> DEFINE n == Cardinality(S)
           q == Numbered(S)
<1>2. /\ n \in Nat /\ q \in [1 .. n -> S]
      /\ \A x \in S : \E i \in 1 .. n : q[i] = x
      /\ \A i, j \in 1 .. n : q[i] = q[j] => i = j
  BY NumberedIs DEF NumberedBy
<1> DEFINE row == [i \in 1 .. n |-> f[q[i]]]
<1>3. SumOver(S, f) = Total(row, n)
  BY DEF SumOver
<1> HIDE DEF n, q
<1>5. \A i \in 1 .. n : row[i] \in Int
  BY <1>2
<1> HIDE DEF row
<1>4. Total(row, n) \in Int
  BY <1>2, <1>5, TotalInteger
<1> QED BY <1>3, <1>4

(* A sum of sums of two entries. *)
THEOREM SumPlus ==
  ASSUME NEW S, IsFiniteSet(S), NEW f, NEW g, NEW h,
         \A x \in S : f[x] \in Int /\ g[x] \in Int /\ h[x] = f[x] + g[x]
  PROVE  SumOver(S, h) = SumOver(S, f) + SumOver(S, g)
<1> DEFINE n == Cardinality(S)
           q == Numbered(S)
<1>2. /\ n \in Nat /\ q \in [1 .. n -> S]
      /\ \A x \in S : \E i \in 1 .. n : q[i] = x
      /\ \A i, j \in 1 .. n : q[i] = q[j] => i = j
  BY NumberedIs DEF NumberedBy
<1> DEFINE Row(l) == [i \in 1 .. n |-> l[q[i]]]
<1>4. /\ SumOver(S, f) = Total(Row(f), n)
      /\ SumOver(S, g) = Total(Row(g), n)
      /\ SumOver(S, h) = Total(Row(h), n)
  BY DEF SumOver
<1> HIDE DEF n, q
<1>3. \A i \in 1 .. n : /\ Row(f)[i] \in Int /\ Row(g)[i] \in Int
                        /\ Row(h)[i] = Row(f)[i] + Row(g)[i]
  BY <1>2
<1> HIDE DEF Row
<1>5. Total(Row(h), n) = Total(Row(f), n) + Total(Row(g), n)
  BY <1>2, <1>3, TotalPlus
<1> QED BY <1>4, <1>5

(* A sum of opposites. *)
THEOREM SumOpposite ==
  ASSUME NEW S, IsFiniteSet(S), NEW f, NEW g,
         \A x \in S : f[x] \in Int /\ g[x] = -f[x]
  PROVE  SumOver(S, g) = -SumOver(S, f)
<1> DEFINE n == Cardinality(S)
           q == Numbered(S)
<1>2. /\ n \in Nat /\ q \in [1 .. n -> S]
      /\ \A x \in S : \E i \in 1 .. n : q[i] = x
      /\ \A i, j \in 1 .. n : q[i] = q[j] => i = j
  BY NumberedIs DEF NumberedBy
<1> DEFINE Row(l) == [i \in 1 .. n |-> l[q[i]]]
<1>4. SumOver(S, f) = Total(Row(f), n) /\ SumOver(S, g) = Total(Row(g), n)
  BY DEF SumOver
<1> HIDE DEF n, q
<1>3. \A i \in 1 .. n : Row(f)[i] \in Int /\ Row(g)[i] = -Row(f)[i]
  BY <1>2
<1> HIDE DEF Row
<1>5. Total(Row(g), n) = -Total(Row(f), n)
  BY <1>2, <1>3, TotalOpposite
<1> QED BY <1>4, <1>5

(* Entries that are zero may be left out; the others may be given by       *)
(* another function.                                                       *)
THEOREM SumWithin ==
  ASSUME NEW S, IsFiniteSet(S), NEW T \in SUBSET S, NEW f, NEW g,
         \A x \in T : f[x] \in Int /\ g[x] = f[x],
         \A x \in S \ T : f[x] = 0
  PROVE  SumOver(S, f) = SumOver(T, g)
<1>1. IsFiniteSet(T)
  BY FS_Subset
<1> DEFINE n == Cardinality(S)
           q == Numbered(S)
<1>3. /\ n \in Nat /\ q \in [1 .. n -> S]
      /\ \A x \in S : \E i \in 1 .. n : q[i] = x
      /\ \A i, j \in 1 .. n : q[i] = q[j] => i = j
  BY NumberedIs DEF NumberedBy
<1> DEFINE m == Cardinality(T)
           p == Numbered(T)
<1>5. /\ m \in Nat /\ p \in [1 .. m -> T]
      /\ \A x \in T : \E i \in 1 .. m : p[i] = x
      /\ \A i, j \in 1 .. m : p[i] = p[j] => i = j
  BY <1>1, NumberedIs DEF NumberedBy
<1> DEFINE a == [i \in 1 .. n |-> f[q[i]]]
           b == [i \in 1 .. m |-> g[p[i]]]
<1>2. SumOver(S, f) = Total(a, n) /\ SumOver(T, g) = Total(b, m)
  BY DEF SumOver
<1> HIDE DEF n, q, m, p
<1>6. /\ \A i \in 1 .. n : a[i] = f[q[i]] /\ q[i] \in S
      /\ \A j \in 1 .. m : b[j] = g[p[j]] /\ p[j] \in T
  BY <1>3, <1>5
<1> HIDE DEF a, b
<1>7. \A i \in 1 .. n : a[i] \in Int
  BY <1>6
<1>8. \A i \in 1 .. n : \A j \in 1 .. m : q[i] = p[j] => a[i] = b[j]
  BY <1>6
<1>9. \A i \in 1 .. n : (\A j \in 1 .. m : q[i] # p[j]) => a[i] = 0
  BY <1>5, <1>6
<1>10. \A j \in 1 .. m : (\A i \in 1 .. n : q[i] # p[j]) => b[j] = 0
  BY <1>3, <1>6
<1>11. Matched(n, m, a, b, q, p)
  BY <1>3, <1>5, <1>7, <1>8, <1>9, <1>10 DEF Matched
<1>12. Total(a, n) = Total(b, m)
  BY <1>11, TotalMatched
<1> QED BY <1>2, <1>12

(* A sum of which all entries but one are zero. *)
THEOREM SumOnlyAt ==
  ASSUME NEW S, IsFiniteSet(S), NEW f, NEW k \in S, f[k] \in Int,
         \A x \in S : x # k => f[x] = 0
  PROVE  SumOver(S, f) = f[k]
<1> DEFINE n == Cardinality(S)
           q == Numbered(S)
<1>2. /\ n \in Nat /\ q \in [1 .. n -> S]
      /\ \A x \in S : \E i \in 1 .. n : q[i] = x
      /\ \A i, j \in 1 .. n : q[i] = q[j] => i = j
  BY NumberedIs DEF NumberedBy
<1> DEFINE row == [i \in 1 .. n |-> f[q[i]]]
<1>1. SumOver(S, f) = Total(row, n)
  BY DEF SumOver
<1> HIDE DEF n, q
<1>3. PICK c \in 1 .. n : q[c] = k
  BY <1>2
<1>4. row[c] = f[k] /\ \A i \in 1 .. n : i # c => row[i] = 0
  BY <1>2, <1>3
<1> HIDE DEF row
<1>5. Total(row, n) = row[c]
  BY <1>2, <1>4, TotalOnlyAt
<1> QED BY <1>1, <1>4, <1>5

(* A sum of zeros. *)
THEOREM SumZero ==
  ASSUME NEW S, IsFiniteSet(S), NEW f, \A x \in S : f[x] = 0
  PROVE  SumOver(S, f) = 0
<1> DEFINE g == [x \in S |-> 0]
<1>1. \A x \in S : f[x] \in Int /\ g[x] \in Int /\ g[x] = f[x] + f[x] /\ g[x] = f[x]
  OBVIOUS
<1> HIDE DEF g
<1>2. SumOver(S, g) = SumOver(S, f) + SumOver(S, f) /\ SumOver(S, f) \in Int
  BY <1>1, SumPlus, SumInteger
<1>3. SumOver(S, f) = SumOver(S, g)
  BY <1>1, SumWithin
<1> DEFINE a == SumOver(S, f)
<1>4. a = a + a /\ a \in Int
  BY <1>2, <1>3
<1> HIDE DEF a
<1>5. a = 0
  BY <1>4
<1> QED BY <1>5 DEF a

(* The sum over the ids 1 .. n is the total of the rows. *)
THEOREM SumOfRows ==
  ASSUME NEW n \in Nat, NEW f, \A i \in 1 .. n : f[i] \in Int
  PROVE  SumOver(1 .. n, f) = Total(f, n)
<1>1. IsFiniteSet(1 .. n)
  BY FS_Interval
<1> DEFINE m == Cardinality(1 .. n)
           p == Numbered(1 .. n)
<1>3. /\ m \in Nat /\ p \in [1 .. m -> 1 .. n]
      /\ \A x \in 1 .. n : \E i \in 1 .. m : p[i] = x
      /\ \A i, j \in 1 .. m : p[i] = p[j] => i = j
  BY <1>1, NumberedIs DEF NumberedBy
<1> DEFINE b == [i \in 1 .. m |-> f[p[i]]]
           q == [i \in 1 .. n |-> i]
<1>2. SumOver(1 .. n, f) = Total(b, m)
  BY DEF SumOver
<1> HIDE DEF m, p
<1>4. /\ \A i \in 1 .. n : q[i] = i
      /\ \A j \in 1 .. m : b[j] = f[p[j]] /\ p[j] \in 1 .. n
  BY <1>3
<1> HIDE DEF b, q
<1>5. /\ \A i, k \in 1 .. n : q[i] = q[k] => i = k
      /\ \A i \in 1 .. n : \A j \in 1 .. m : q[i] = p[j] => f[i] = b[j]
  BY <1>4
<1>6. \A i \in 1 .. n : (\A j \in 1 .. m : q[i] # p[j]) => f[i] = 0
  BY <1>3, <1>4
<1>7. \A j \in 1 .. m : (\A i \in 1 .. n : q[i] # p[j]) => b[j] = 0
  BY <1>4
<1>8. Matched(n, m, f, b, q, p)
  BY <1>3, <1>5, <1>6, <1>7 DEF Matched
<1> QED BY <1>2, <1>8, TotalMatched

(* The sum over rows named once each by q. *)
THEOREM SumNamed ==
  ASSUME NEW S, NEW n, NEW q, NumberedBy(S, n, q),
         NEW f, \A x \in S : f[x] \in Int
  PROVE  /\ IsFiniteSet(S) /\ Cardinality(S) = n
         /\ SumOver(S, f) = Total([i \in 1 .. n |-> f[q[i]]], n)
<1>1. /\ n \in Nat /\ q \in [1 .. n -> S]
      /\ \A x \in S : \E i \in 1 .. n : q[i] = x
      /\ \A i, k \in 1 .. n : q[i] = q[k] => i = k
  BY DEF NumberedBy
<1>2. IsFiniteSet(S) /\ Cardinality(S) = n
  <2>1. q \in Bijection(1 .. n, S)
    BY <1>1 DEF Bijection, Injection, Surjection, IsInjective
  <2>2. ExistsBijection(1 .. n, S)
    BY <2>1 DEF ExistsBijection
  <2>3. IsFiniteSet(1 .. n) /\ Cardinality(1 .. n) = n
    BY <1>1, FS_Interval
  <2> QED BY <2>2, <2>3, FS_Bijection
<1> DEFINE p == Numbered(S)
           a == [i \in 1 .. n |-> f[q[i]]]
           b == [i \in 1 .. n |-> f[p[i]]]
<1>3. /\ p \in [1 .. n -> S]
      /\ \A x \in S : \E i \in 1 .. n : p[i] = x
      /\ \A i, k \in 1 .. n : p[i] = p[k] => i = k
  BY <1>2, NumberedIs DEF NumberedBy
<1>4. SumOver(S, f) = Total(b, n)
  BY <1>2 DEF SumOver
<1> HIDE DEF p
<1>5. \A i \in 1 .. n : /\ a[i] = f[q[i]] /\ b[i] = f[p[i]]
                        /\ a[i] \in Int /\ q[i] \in S /\ p[i] \in S
  BY <1>1, <1>3
<1> HIDE DEF a, b
<1>6. \A i \in 1 .. n : \A j \in 1 .. n : q[i] = p[j] => a[i] = b[j]
  BY <1>5
<1>7. /\ \A i \in 1 .. n : (\A j \in 1 .. n : q[i] # p[j]) => a[i] = 0
      /\ \A j \in 1 .. n : (\A i \in 1 .. n : q[i] # p[j]) => b[j] = 0
  BY <1>1, <1>3, <1>5
<1>8. Matched(n, n, a, b, q, p)
  BY <1>1, <1>3, <1>5, <1>6, <1>7 DEF Matched
<1>9. Total(a, n) = Total(b, n)
  BY <1>8, TotalMatched
<1> QED BY <1>2, <1>4, <1>9 DEF a

(* The sums of F[x][y] over T for each x, and over S for each y. *)
CrossSums(S, T, F, rows, columns) ==
  /\ IsFiniteSet(S) /\ IsFiniteSet(T)
  /\ \A x \in S : \A y \in T : F[x][y] \in Int
  /\ \A x \in S : rows[x] = SumOver(T, F[x])
  /\ \A y \in T : columns[y] = SumOver(S, [x \in S |-> F[x][y]])

(* The order of two sums does not matter. *)
THEOREM SumSwap ==
  ASSUME NEW S, NEW T, NEW F, NEW rows, NEW columns, CrossSums(S, T, F, rows, columns)
  PROVE  SumOver(S, rows) = SumOver(T, columns)
<1>0. /\ IsFiniteSet(S) /\ IsFiniteSet(T)
      /\ \A x \in S, y \in T : F[x][y] \in Int
      /\ \A x \in S : rows[x] = SumOver(T, F[x])
      /\ \A y \in T : columns[y] = SumOver(S, [x \in S |-> F[x][y]])
  BY DEF CrossSums
<1> USE <1>0
<1> DEFINE n == Cardinality(S)
           q == Numbered(S)
<1>2. /\ n \in Nat /\ q \in [1 .. n -> S]
      /\ \A x \in S : \E i \in 1 .. n : q[i] = x
      /\ \A i, j \in 1 .. n : q[i] = q[j] => i = j
  BY NumberedIs DEF NumberedBy
<1> DEFINE m == Cardinality(T)
           p == Numbered(T)
<1>4. /\ m \in Nat /\ p \in [1 .. m -> T]
      /\ \A x \in T : \E i \in 1 .. m : p[i] = x
      /\ \A i, j \in 1 .. m : p[i] = p[j] => i = j
  BY NumberedIs DEF NumberedBy
<1> DEFINE G == [i \in 1 .. n |-> [j \in 1 .. m |-> F[q[i]][p[j]]]]
           r == [i \in 1 .. n |-> rows[q[i]]]
           c == [j \in 1 .. m |-> columns[p[j]]]
<1>1. SumOver(S, rows) = Total(r, n) /\ SumOver(T, columns) = Total(c, m)
  BY DEF SumOver
<1>3. \A x \in S : SumOver(T, F[x]) = Total([j \in 1 .. m |-> F[x][p[j]]], m)
  BY DEF SumOver
<1>5. ASSUME NEW y \in T
      PROVE  SumOver(S, [x \in S |-> F[x][y]]) = Total([i \in 1 .. n |-> F[q[i]][y]], n)
  <2>1. [i \in 1 .. n |-> [x \in S |-> F[x][y]][q[i]]] = [i \in 1 .. n |-> F[q[i]][y]]
    BY <1>2
  <2>2. SumOver(S, [x \in S |-> F[x][y]])
          = Total([i \in 1 .. n |-> [x \in S |-> F[x][y]][q[i]]], n)
    BY DEF SumOver
  <2> QED BY <2>1, <2>2
<1> HIDE DEF n, q, m, p
<1>6. \A i \in 1 .. n, j \in 1 .. m : G[i][j] \in Int
  BY <1>2, <1>4
<1>7. \A i \in 1 .. n : r[i] = Total(G[i], m)
  <2> SUFFICES ASSUME NEW i \in 1 .. n PROVE r[i] = Total(G[i], m)
    OBVIOUS
  <2>1. q[i] \in S /\ r[i] = rows[q[i]]
    BY <1>2
  <2>2. r[i] = SumOver(T, F[q[i]])
    BY <2>1
  <2>3. SumOver(T, F[q[i]]) = Total([j \in 1 .. m |-> F[q[i]][p[j]]], m)
    BY <1>3, <2>1
  <2>4. G[i] = [j \in 1 .. m |-> F[q[i]][p[j]]]
    OBVIOUS
  <2> QED BY <2>2, <2>3, <2>4
<1>8. \A j \in 1 .. m : c[j] = Total([i \in 1 .. n |-> G[i][j]], n)
  <2> SUFFICES ASSUME NEW j \in 1 .. m
               PROVE  c[j] = Total([i \in 1 .. n |-> G[i][j]], n)
    OBVIOUS
  <2>1. PICK y \in T : y = p[j]
    BY <1>4
  <2>2. c[j] = SumOver(S, [x \in S |-> F[x][y]])
    BY <2>1
  <2>3. c[j] = Total([i \in 1 .. n |-> F[q[i]][y]], n)
    BY <1>5, <2>2
  <2>4. [i \in 1 .. n |-> F[q[i]][y]] = [i \in 1 .. n |-> G[i][j]]
    BY <2>1
  <2> QED BY <2>3, <2>4
<1> HIDE DEF G, r, c
<1>9. BothWays(n, m, G, r, c)
  BY <1>2, <1>4, <1>6, <1>7, <1>8 DEF BothWays
<1> QED BY <1>1, <1>9, TotalSwap

-----------------------------------------------------------------------------
(* A nonempty finite set of rows has one whose key is greatest. *)
LEMMA GreatestKey ==
  ASSUME NEW S, IsFiniteSet(S), S # {}, NEW key, \A x \in S : key[x] \in Int
  PROVE  \E x \in S : \A y \in S : key[y] <= key[x]
<1> DEFINE HasGreatest(T) == \E x \in T : \A y \in T : key[y] <= key[x]
           I == {m \in Nat : \A T \in SUBSET S :
                   T # {} /\ Cardinality(T) = m => HasGreatest(T)}
<1>1. \A T \in SUBSET S : IsFiniteSet(T) /\ Cardinality(T) \in Nat
  BY FS_Subset, FS_CardinalityType
<1>2. 0 \in I
  <2>1. \A T \in SUBSET S : Cardinality(T) = 0 => T = {}
    BY <1>1, FS_EmptySet
  <2> QED BY <2>1
<1>3. \A i \in 1 .. Cardinality(S) : i - 1 \in I => i \in I
  <2> SUFFICES ASSUME NEW i \in 1 .. Cardinality(S), i - 1 \in I,
                      NEW T \in SUBSET S, T # {}, Cardinality(T) = i
               PROVE  HasGreatest(T)
    BY <1>1
  <2>1. PICK x \in T : TRUE
    OBVIOUS
  <2>2. T \ {x} \in SUBSET S /\ Cardinality(T \ {x}) = i - 1
    BY <1>1, <2>1, FS_RemoveElement
  <2>3. CASE T \ {x} = {}
    <3>1. \A y \in T : y = x
      BY <2>3
    <3> QED BY <2>1, <3>1
  <2>4. CASE T \ {x} # {}
    <3>1. HasGreatest(T \ {x})
      BY <2>2, <2>4
    <3>2. PICK z \in T \ {x} : \A y \in T \ {x} : key[y] <= key[z]
      BY <3>1
    <3>3. \A y \in T : y = x \/ key[y] <= key[z]
      BY <3>2
    <3>4. key[x] \in Int /\ key[z] \in Int /\ \A y \in T : key[y] \in Int
      BY <2>1, <3>2
    <3>5. CASE key[x] <= key[z]
      BY <3>3, <3>5
    <3>6. CASE key[z] <= key[x]
      <4>1. \A y \in T : key[y] <= key[x]
        BY <3>3, <3>4, <3>6
      <4> QED BY <2>1, <4>1
    <3> QED BY <3>4, <3>5, <3>6
  <2> QED BY <2>3, <2>4
<1>4. Cardinality(S) \in I
  <2>1. Cardinality(S) \in Nat
    BY <1>1
  <2> HIDE DEF I
  <2>2. \A i \in 0 .. Cardinality(S) : i \in I
    BY <1>2, <1>3, <2>1, UpTo
  <2> QED BY <2>1, <2>2
<1> QED BY <1>4

(* q names the n rows of a set by increasing key. *)
RankedBy(q, n, key) ==
  \A i, j \in 1 .. n : i < j => q[i] # q[j] /\ key[q[i]] <= key[q[j]]

(* A finite set can be put in the order of a key. *)
LEMMA OrderExists ==
  ASSUME NEW S, IsFiniteSet(S), NEW key, \A x \in S : key[x] \in Int
  PROVE  \E q \in [1 .. Cardinality(S) -> S] : RankedBy(q, Cardinality(S), key)
<1> DEFINE HasOrder(T) == \E q \in [1 .. Cardinality(T) -> T] : RankedBy(q, Cardinality(T), key)
           I == {m \in Nat : \A T \in SUBSET S : Cardinality(T) = m => HasOrder(T)}
<1>1. \A T \in SUBSET S : IsFiniteSet(T) /\ Cardinality(T) \in Nat
  BY FS_Subset, FS_CardinalityType
<1>2. 0 \in I
  <2> SUFFICES ASSUME NEW T \in SUBSET S, Cardinality(T) = 0 PROVE HasOrder(T)
    OBVIOUS
  <2> DEFINE q == [i \in 1 .. 0 |-> 0]
  <2>1. q \in [1 .. 0 -> T]
    OBVIOUS
  <2>2. RankedBy(q, 0, key)
    BY DEF RankedBy
  <2> QED BY <2>1, <2>2
<1>3. \A i \in 1 .. Cardinality(S) : i - 1 \in I => i \in I
  <2> SUFFICES ASSUME NEW i \in 1 .. Cardinality(S), i - 1 \in I,
                      NEW T \in SUBSET S, Cardinality(T) = i
               PROVE  HasOrder(T)
    BY <1>1
  <2>0. i \in Nat /\ i >= 1
    BY <1>1
  <2>1. T # {}
    <3>1. Cardinality({}) = 0
      BY FS_EmptySet
    <3> HIDE DEF I, HasOrder
    <3> QED BY <2>0, <3>1
  <2>2. PICK x \in T : \A y \in T : key[y] <= key[x]
    BY <1>1, <2>1, GreatestKey
  <2>3. T \ {x} \in SUBSET S /\ Cardinality(T \ {x}) = i - 1
    BY <1>1, <2>2, FS_RemoveElement
  <2>4. HasOrder(T \ {x})
    BY <2>3
  <2>5. PICK p \in [1 .. (i - 1) -> T \ {x}] : RankedBy(p, i - 1, key)
    BY <2>3, <2>4
  <2> DEFINE q == [k \in 1 .. i |-> IF k = i THEN x ELSE p[k]]
  <2>6. \A k \in 1 .. i : k # i => k \in 1 .. i - 1
    BY <2>0
  <2>7. \A k \in 1 .. i : q[k] \in T /\ (k # i => q[k] = p[k] /\ p[k] # x) /\ q[i] = x
    BY <2>0, <2>2, <2>5, <2>6
  <2>8. q \in [1 .. i -> T]
    BY <2>7
  <2> HIDE DEF q
  <2>9. RankedBy(q, i, key)
    <3> SUFFICES ASSUME NEW k \in 1 .. i, NEW l \in 1 .. i, k < l
                 PROVE  q[k] # q[l] /\ key[q[k]] <= key[q[l]]
      BY DEF RankedBy
    <3>1. k # i /\ k \in 1 .. i - 1
      BY <2>0
    <3>2. CASE l = i
      BY <2>2, <2>7, <3>1, <3>2
    <3>3. CASE l # i
      <4>1. l \in 1 .. i - 1
        BY <2>6, <3>3
      <4> QED BY <2>5, <2>7, <3>1, <3>3, <4>1 DEF RankedBy
    <3> QED BY <3>2, <3>3
  <2> QED BY <2>8, <2>9
<1>4. Cardinality(S) \in I
  <2>1. Cardinality(S) \in Nat
    BY <1>1
  <2> HIDE DEF I
  <2>2. \A i \in 0 .. Cardinality(S) : i \in I
    BY <1>2, <1>3, <2>1, UpTo
  <2> QED BY <2>1, <2>2
<1> QED BY <1>4

(* Ranked names every row of a finite set once, by increasing key. *)
THEOREM RankedIs ==
  ASSUME NEW S, IsFiniteSet(S), NEW key, \A x \in S : key[x] \in Int
  PROVE  NumberedBy(S, Cardinality(S), Ranked(S, key))
<1> DEFINE n == Cardinality(S)
           q == Ranked(S, key)
<1>1. n \in Nat /\ IsFiniteSet(1 .. n) /\ Cardinality(1 .. n) = n
  BY FS_CardinalityType, FS_Interval
<1>2. q \in [1 .. n -> S] /\ RankedBy(q, n, key)
  <2> DEFINE OK(p) == \A i, j \in DOMAIN p : i < j => p[i] # p[j] /\ key[p[i]] <= key[p[j]]
  <2>1. \E p \in [1 .. n -> S] : RankedBy(p, n, key)
    BY OrderExists
  <2>2. \A p \in [1 .. n -> S] : RankedBy(p, n, key) <=> OK(p)
    BY DEF RankedBy
  <2>3. \E p \in [1 .. n -> S] : OK(p)
    BY <2>1, <2>2
  <2>4. q = CHOOSE p \in [1 .. n -> S] : OK(p)
    BY Zenon DEF Ranked
  <2> HIDE DEF q, OK, n
  <2>5. q \in [1 .. n -> S] /\ OK(q)
    BY <2>3, <2>4
  <2> QED BY <2>2, <2>5
<1> HIDE DEF q, n
<1>3. \A i, j \in 1 .. n : q[i] = q[j] => i = j
  <2> SUFFICES ASSUME NEW i \in 1 .. n, NEW j \in 1 .. n, i # j
               PROVE  q[i] # q[j]
    OBVIOUS
  <2>1. i < j \/ j < i
    OBVIOUS
  <2> QED BY <1>2, <2>1 DEF RankedBy
<1>4. q \in Injection(1 .. n, S)
  BY <1>2, <1>3 DEF Injection, IsInjective
<1>5. q \in Surjection(1 .. n, S)
  BY <1>1, <1>4, FS_Injection DEF n
<1>6. \A x \in S : \E i \in 1 .. n : q[i] = x
  BY <1>5 DEF Surjection
<1>7. NumberedBy(S, n, q)
  BY <1>1, <1>2, <1>3, <1>6 DEF NumberedBy
<1> QED BY <1>7 DEF n, q
=============================================================================
