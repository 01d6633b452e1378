------------------------------- MODULE Totals -------------------------------
(***************************************************************************)
(* The SQL aggregate Sum("amount") over a column of rows numbered 1 .. n,  *)
(* and the choice of the earliest rows of an ORDER BY.  Both are recursive *)
(* functions or plain set comprehensions, so that theorems can be proved   *)
(* about them (see TotalsTheorems).                                        *)
(***************************************************************************)
EXTENDS Integers, FiniteSets

(* The sum of f[1], ..., f[n]. *)
Total(f, n) ==
  LET sum[i \in 0 .. n] == IF i = 0 THEN 0 ELSE sum[i - 1] + f[i]
  IN  sum[n]

(* The rows of a set, numbered in some order.                              *)
Numbered(S) ==
  CHOOSE q \in [1 .. Cardinality(S) -> S] :
    \A x \in S : \E i \in DOMAIN q : \A j \in DOMAIN q : q[j] = x <=> j = i

(* The rows of S in the order of a column, equal ones in any order.        *)
Ranked(S, key) ==
  CHOOSE q \in [1 .. Cardinality(S) -> S] :
    \A i, j \in DOMAIN q : i < j => q[i] # q[j] /\ key[q[i]] <= key[q[j]]

(* The sum of f[x] for x in the finite set S, as the loops of balances.py  *)
(* accumulate it: the order does not matter.                               *)
SumOver(S, f) ==
  LET q == Numbered(S) IN Total([i \in 1 .. Cardinality(S) |-> f[q[i]]], Cardinality(S))

(* The rows of S whose key is least: one column of an ORDER BY.            *)
Earliest(S, key) == {x \in S : \A y \in S : key[x] <= key[y]}

(* Mutant: what is left over instead of the lesser amount. *)
Leftover(a, b) == a - b

(* Python's min(a, b). *)
Lesser(a, b) == IF a <= b THEN a ELSE b
=============================================================================
