-------------------------- MODULE SplitLedgerProofs --------------------------
(***************************************************************************)
(* The allocations of SplitLedger are sound for every number of users,     *)
(* groups, expenses and settlements and for every set of splits and        *)
(* payments: no share and no settlement is ever allocated twice, and only  *)
(* real debts are paid.  The balances, claims and suggested payments of    *)
(* SplitBalances say what those allocations say.                           *)
(*                                                                         *)
(* The argument: rows are only ever removed (Cascade, FewerRows) or added  *)
(* one at a time by _consume_fifo, each no greater than what is open on    *)
(* both of its sides (ConsumeOneSound, ConsumeSound).                      *)
(***************************************************************************)
EXTENDS SplitBalances, SplitShares, TotalsTheorems, FiniteSetTheorems

Allocs == [SettlementIds -> [ExpenseIds -> Nat]]

(* The types of the three tables an allocation reads and writes. *)
Tables(ex, st, al) ==
  /\ ex \in [ExpenseIds -> Expense \cup {NoRow}]
  /\ st \in [SettlementIds -> Settlement \cup {NoRow}]
  /\ al \in Allocs

FollowDebts(ex, st, al) ==
  \A s \in SettlementIds, e \in ExpenseIds :
    al[s][e] > 0 => Owes(ex, st, s, e)

NotOverSpent(st, al) ==
  \A s \in SettlementIds : st[s] # NoRow => Remaining(st, al, s) >= 0

NotOverSettled(ex, st, al) ==
  \A e \in ExpenseIds, p \in Identities :
    ex[e] # NoRow => Open(ex, st, al, e, p) >= 0

Sound(ex, st, al) ==
  FollowDebts(ex, st, al) /\ NotOverSpent(st, al) /\ NotOverSettled(ex, st, al)

(* An id not yet handed out has no row. *)
FreshIds ==
  \A s \in SettlementIds : s > last.settlement => settlement[s] = NoRow

(* The inductive invariant. *)
IInv == TypeOK /\ Sound(expense, settlement, alloc) /\ FreshIds

-----------------------------------------------------------------------------
(* What _open_share_amount and _remaining_settlement_amount subtract are   *)
(* sums of natural numbers.                                                *)
LEMMA SumsAreNatural ==
  ASSUME NEW st, NEW al \in Allocs
  PROVE  /\ \A s \in SettlementIds : Total(al[s], MaxExpense) \in Nat
         /\ \A e \in ExpenseIds : \A p : Allocated(st, al, e, p) \in Nat
<1>1. ASSUME NEW s \in SettlementIds
      PROVE  Total(al[s], MaxExpense) \in Nat
  <2>1. \A i \in 1 .. MaxExpense : al[s][i] \in Nat
    BY DEF Allocs, ExpenseIds
  <2>2. MaxExpense \in Nat
    BY LedgerAssumption
  <2> QED BY <2>1, <2>2, TotalNatural
<1>2. ASSUME NEW e \in ExpenseIds, NEW p
      PROVE  Allocated(st, al, e, p) \in Nat
  <2> DEFINE f == [s \in SettlementIds |->
                     IF st[s] # NoRow /\ st[s].pay.debtor = p THEN al[s][e] ELSE 0]
  <2>1. \A i \in 1 .. MaxSettlement : f[i] \in Nat
    BY DEF Allocs, SettlementIds
  <2>2. MaxSettlement \in Nat
    BY LedgerAssumption
  <2> HIDE DEF f
  <2>3. Total(f, MaxSettlement) \in Nat
    BY <2>1, <2>2, TotalNatural
  <2> QED BY <2>3 DEF Allocated, f
<1> QED BY <1>1, <1>2

(* The fields that the sums read have the types of the columns. *)
LEMMA RowTypes ==
  ASSUME NEW ex, NEW st, NEW al, Tables(ex, st, al)
  PROVE  /\ \A s \in SettlementIds : st[s] # NoRow =>
              /\ st[s].pay.amount \in Nat /\ st[s].pay.debtor \in Identities
              /\ st[s].pay.date \in Nat /\ st[s].group \in {NoGroup} \cup GroupIds
         /\ \A e \in ExpenseIds : ex[e] # NoRow =>
              /\ \A p \in Identities : ex[e].split.share[p] \in Nat
              /\ ex[e].date \in Nat
<1>1. ASSUME NEW s \in SettlementIds, st[s] # NoRow
      PROVE  /\ st[s].pay.amount \in Nat /\ st[s].pay.debtor \in Identities
             /\ st[s].pay.date \in Nat /\ st[s].group \in {NoGroup} \cup GroupIds
  <2>1. st[s] \in Settlement
    BY <1>1 DEF Tables
  <2>2. st[s].pay \in Payment /\ st[s].group \in {NoGroup} \cup GroupIds
    BY <2>1 DEF Settlement
  <2> QED BY <2>2, LedgerAssumption DEF Payment
<1>2. ASSUME NEW e \in ExpenseIds, ex[e] # NoRow
      PROVE  /\ \A p \in Identities : ex[e].split.share[p] \in Nat
             /\ ex[e].date \in Nat
  <2>1. ex[e] \in Expense
    BY <1>2 DEF Tables
  <2>2. ex[e].split \in Split /\ ex[e].date \in Dates
    BY <2>1 DEF Expense
  <2> QED BY <2>2, LedgerAssumption DEF Split
<1> QED BY <1>1, <1>2

(* Rows may be removed, and the tables changed where no row is left,       *)
(* without losing soundness: what deletions and rewrites rely on.          *)
LEMMA FewerRows ==
  ASSUME NEW ex, NEW st, NEW al, Tables(ex, st, al), Sound(ex, st, al),
         NEW ex1, NEW st1, NEW al1, Tables(ex1, st1, al1),
         \A s \in SettlementIds, e \in ExpenseIds : al1[s][e] <= al[s][e],
         \A s \in SettlementIds :
           st1[s] = st[s] \/ \A e \in ExpenseIds : al1[s][e] = 0,
         \A e \in ExpenseIds :
           \/ ex1[e] # NoRow /\ ex[e] # NoRow /\ ex1[e].split = ex[e].split
           \/ \A s \in SettlementIds : al1[s][e] = 0
  PROVE  Sound(ex1, st1, al1)
<1>1. FollowDebts(ex1, st1, al1)
  <2> SUFFICES ASSUME NEW s \in SettlementIds, NEW e \in ExpenseIds,
                      al1[s][e] > 0
               PROVE  Owes(ex1, st1, s, e)
    BY DEF FollowDebts
  <2>1. al[s][e] \in Nat /\ al1[s][e] \in Nat
    BY DEF Tables, Allocs
  <2>2. al[s][e] > 0 /\ st1[s] = st[s]
    BY <2>1
  <2>3. ex1[e] # NoRow /\ ex[e] # NoRow /\ ex1[e].split = ex[e].split
    BY <2>1
  <2>4. Owes(ex, st, s, e)
    BY <2>2 DEF Sound, FollowDebts
  <2> QED BY <2>2, <2>3, <2>4 DEF Owes
<1>2. NotOverSpent(st1, al1)
  <2> SUFFICES ASSUME NEW s \in SettlementIds, st1[s] # NoRow
               PROVE  Remaining(st1, al1, s) >= 0
    BY DEF NotOverSpent
  <2>1. /\ MaxExpense \in Nat /\ st1[s].pay.amount \in Nat
        /\ Total(al1[s], MaxExpense) \in Nat
    BY LedgerAssumption, RowTypes, SumsAreNatural DEF Tables
  <2>2. CASE \A e \in ExpenseIds : al1[s][e] = 0
    <3>1. Total(al1[s], MaxExpense) = 0
      BY <2>1, <2>2, TotalZero DEF ExpenseIds
    <3> QED BY <2>1, <3>1 DEF Remaining
  <2>3. CASE st1[s] = st[s]
    <3>1. \A e \in 1 .. MaxExpense : al[s][e] \in Int /\ al1[s][e] \in Int
      <4>1. \A e \in ExpenseIds : al[s][e] \in Nat /\ al1[s][e] \in Nat
        BY DEF Tables, Allocs
      <4> QED BY <4>1 DEF ExpenseIds
    <3>2. \A e \in 1 .. MaxExpense : al1[s][e] <= al[s][e]
      BY DEF ExpenseIds
    <3>3. Total(al1[s], MaxExpense) <= Total(al[s], MaxExpense)
      <4> DEFINE f == al[s]
                 g == al1[s]
      <4>1. \A i \in 1 .. MaxExpense : f[i] \in Int /\ g[i] \in Int /\ g[i] <= f[i]
        BY <3>1, <3>2
      <4> HIDE DEF f, g
      <4>2. Total(g, MaxExpense) <= Total(f, MaxExpense)
        BY <2>1, <4>1, TotalMonotone
      <4> QED BY <4>2 DEF f, g
    <3>4. Total(al[s], MaxExpense) \in Nat
      BY SumsAreNatural DEF Tables
    <3>5. Remaining(st, al, s) >= 0
      BY <2>3 DEF Sound, NotOverSpent
    <3> QED BY <2>1, <2>3, <3>3, <3>4, <3>5 DEF Remaining
  <2> QED BY <2>2, <2>3
<1>3. NotOverSettled(ex1, st1, al1)
  <2> SUFFICES ASSUME NEW e \in ExpenseIds, NEW p \in Identities, ex1[e] # NoRow
               PROVE  Open(ex1, st1, al1, e, p) >= 0
    BY DEF NotOverSettled
  <2> DEFINE f == [s \in SettlementIds |->
                     IF st[s] # NoRow /\ st[s].pay.debtor = p THEN al[s][e] ELSE 0]
             g == [s \in SettlementIds |->
                     IF st1[s] # NoRow /\ st1[s].pay.debtor = p THEN al1[s][e] ELSE 0]
  <2>1. /\ MaxSettlement \in Nat /\ ex1[e].split.share[p] \in Nat
        /\ Allocated(st1, al1, e, p) \in Nat /\ Allocated(st, al, e, p) \in Nat
    BY LedgerAssumption, RowTypes, SumsAreNatural DEF Tables
  <2>2. Allocated(st, al, e, p) = Total(f, MaxSettlement)
        /\ Allocated(st1, al1, e, p) = Total(g, MaxSettlement)
    BY DEF Allocated
  <2>3. CASE \A s \in SettlementIds : al1[s][e] = 0
    <3>1. \A s \in 1 .. MaxSettlement : g[s] = 0
      BY <2>3 DEF SettlementIds
    <3> HIDE DEF g
    <3>2. Total(g, MaxSettlement) = 0
      BY <2>1, <3>1, TotalZero
    <3> QED BY <2>1, <2>2, <3>2 DEF Open
  <2>4. CASE ex[e] # NoRow /\ ex1[e].split = ex[e].split
    <3>1. \A s \in 1 .. MaxSettlement : f[s] \in Int /\ g[s] \in Int
      BY DEF Tables, Allocs, SettlementIds
    <3>2. \A s \in 1 .. MaxSettlement : g[s] <= f[s]
      <4> SUFFICES ASSUME NEW s \in SettlementIds
                   PROVE  g[s] <= f[s]
        BY DEF SettlementIds
      <4>1. al[s][e] \in Nat /\ al1[s][e] \in Nat /\ al1[s][e] <= al[s][e]
        BY DEF Tables, Allocs
      <4>2. CASE al1[s][e] = 0
        BY <4>1, <4>2
      <4>3. CASE st1[s] = st[s]
        BY <4>1, <4>3
      <4> QED BY <4>2, <4>3
    <3> HIDE DEF f, g
    <3>3. Total(g, MaxSettlement) <= Total(f, MaxSettlement)
      BY <2>1, <3>1, <3>2, TotalMonotone
    <3>4. Open(ex, st, al, e, p) >= 0
      BY <2>4 DEF Sound, NotOverSettled
    <3> QED BY <2>1, <2>2, <2>4, <3>3, <3>4 DEF Open
  <2> QED BY <2>3, <2>4
<1> QED BY <1>1, <1>2, <1>3 DEF Sound

(* A chosen first settlement is one of the candidates.                     *)
LEMMA FirstSettlementIn ==
  ASSUME NEW st, NEW S \in SUBSET SettlementIds, S # {},
         \A s \in S : /\ st[s].pay.date \in Nat
                      /\ st[s].group \in {NoGroup} \cup GroupIds
  PROVE  FirstSettlement(st, S) \in S
<1> DEFINE pass == [s \in S |-> IF st[s].group = NoGroup THEN MaxGroup + 1
                                                          ELSE st[s].group]
           date == [s \in S |-> st[s].pay.date]
           id   == [s \in S |-> s]
<1>1. \A s \in S : pass[s] \in Nat /\ date[s] \in Nat /\ id[s] \in Nat
  BY LedgerAssumption DEF GroupIds, SettlementIds
<1>2. FirstSettlement(st, S)
        = CHOOSE s \in S : s \in Earliest(Earliest(Earliest(S, pass), date), id)
  BY DEF FirstSettlement
<1> HIDE DEF pass, date, id
<1> DEFINE A == Earliest(S, pass)
           B == Earliest(A, date)
           C == Earliest(B, id)
<1>3. A # {} /\ A \subseteq S
  BY <1>1, EarliestNonempty
<1> HIDE DEF A
<1>4. B # {} /\ B \subseteq A
  BY <1>1, <1>3, EarliestNonempty
<1> HIDE DEF B
<1>5. C # {} /\ C \subseteq B
  BY <1>1, <1>3, <1>4, EarliestNonempty
<1>6. \E s \in S : s \in C
  BY <1>3, <1>4, <1>5
<1> QED BY <1>2, <1>6 DEF A, B

(* A chosen first share is one of the candidates. *)
LEMMA FirstShareIn ==
  ASSUME NEW ex, NEW E \in SUBSET ExpenseIds, E # {},
         \A e \in E : ex[e].date \in Nat
  PROVE  FirstShare(ex, E) \in E
<1> DEFINE date == [e \in E |-> ex[e].date]
           id   == [e \in E |-> e]
<1>1. \A e \in E : date[e] \in Nat /\ id[e] \in Nat
  BY DEF ExpenseIds
<1>2. FirstShare(ex, E) = CHOOSE e \in E : e \in Earliest(Earliest(E, date), id)
  BY DEF FirstShare
<1> HIDE DEF date, id
<1> DEFINE A == Earliest(E, date)
           B == Earliest(A, id)
<1>3. A # {} /\ A \subseteq E
  BY <1>1, EarliestNonempty
<1> HIDE DEF A
<1>4. B # {} /\ B \subseteq A
  BY <1>1, <1>3, EarliestNonempty
<1>5. \E e \in E : e \in B
  BY <1>3, <1>4
<1> QED BY <1>2, <1>5 DEF A

(* One row of _consume_fifo keeps the tables sound: it is no greater than  *)
(* what is open on either side.                                            *)
LEMMA ConsumeOneSound ==
  ASSUME NEW ex, NEW st, NEW al, Tables(ex, st, al), Sound(ex, st, al),
         NEW S \in SUBSET SettlementIds
  PROVE  /\ ConsumeOne(ex, st, al, S) \in Allocs
         /\ Sound(ex, st, ConsumeOne(ex, st, al, S))
<1> DEFINE M == Matches(ex, st, al, S)
           s == FirstSettlement(st, {m[1] : m \in M})
           e == FirstShare(ex, {m[2] : m \in {k \in M : k[1] = s}})
           d == st[s].pay.debtor
           take == Lesser(Remaining(st, al, s), Open(ex, st, al, e, d))
           new == [al EXCEPT ![s][e] = take]
<1>1. CASE M = {}
  <2>1. ConsumeOne(ex, st, al, S) = al
    BY <1>1 DEF ConsumeOne
  <2> QED BY <2>1 DEF Tables
<1>2. CASE M # {}
  <2>1. ConsumeOne(ex, st, al, S) = new
    BY <1>2 DEF ConsumeOne
  <2>2. \A m \in M : /\ m \in S \X ExpenseIds
                     /\ Owes(ex, st, m[1], m[2])
                     /\ Remaining(st, al, m[1]) > 0
                     /\ Open(ex, st, al, m[2], st[m[1]].pay.debtor) > 0
    BY DEF Matches, InScope
  <2> HIDE DEF M
  <2>3. s \in {m[1] : m \in M}
    <3> DEFINE T == {m[1] : m \in M}
    <3>1. T \subseteq SettlementIds /\ T # {}
      BY <1>2, <2>2
    <3>2. \A t \in T : /\ st[t].pay.date \in Nat
                       /\ st[t].group \in {NoGroup} \cup GroupIds
      <4>1. \A t \in T : t \in SettlementIds /\ st[t] # NoRow
        BY <2>2 DEF Owes
      <4> QED BY <4>1, RowTypes
    <3> HIDE DEF T
    <3>3. FirstSettlement(st, T) \in T
      BY <3>1, <3>2, FirstSettlementIn
    <3> QED BY <3>3 DEF T
  <2> HIDE DEF s
  <2>4. e \in {m[2] : m \in {k \in M : k[1] = s}}
    <3> DEFINE T == {m[2] : m \in {k \in M : k[1] = s}}
    <3>1. T \subseteq ExpenseIds /\ T # {}
      BY <2>2, <2>3
    <3>2. \A t \in T : ex[t].date \in Nat
      <4>1. \A t \in T : t \in ExpenseIds /\ ex[t] # NoRow
        BY <2>2 DEF Owes
      <4> QED BY <4>1, RowTypes
    <3> HIDE DEF T
    <3>3. FirstShare(ex, T) \in T
      BY <3>1, <3>2, FirstShareIn
    <3> QED BY <3>3 DEF T
  <2> HIDE DEF e
  <2>5. /\ s \in SettlementIds /\ e \in ExpenseIds /\ Owes(ex, st, s, e)
        /\ Remaining(st, al, s) > 0 /\ Open(ex, st, al, e, d) > 0
    BY <2>2, <2>4
  <2>6. st[s] # NoRow /\ ex[e] # NoRow /\ d \in Identities
    <3>1. st[s] # NoRow /\ ex[e] # NoRow
      BY <2>5 DEF Owes
    <3> QED BY <2>5, <3>1, RowTypes
  <2>7. /\ Remaining(st, al, s) \in Int /\ Open(ex, st, al, e, d) \in Int
        /\ Total(al[s], MaxExpense) \in Nat /\ Allocated(st, al, e, d) \in Nat
        /\ st[s].pay.amount \in Nat /\ ex[e].split.share[d] \in Nat
    <3>1. al \in Allocs
      BY DEF Tables
    <3>2. Total(al[s], MaxExpense) \in Nat /\ Allocated(st, al, e, d) \in Nat
      BY <2>5, <3>1, SumsAreNatural
    <3>3. st[s].pay.amount \in Nat /\ ex[e].split.share[d] \in Nat
      BY <2>5, <2>6, RowTypes
    <3> QED BY <3>2, <3>3 DEF Remaining, Open
  <2>8. /\ take \in Nat /\ take <= Remaining(st, al, s)
        /\ take <= Open(ex, st, al, e, d)
    BY <2>5, <2>7 DEF Lesser
  <2> HIDE DEF take, d
  <2>9. new \in Allocs
    BY <2>5, <2>8 DEF Tables, Allocs
  <2>10. \A t \in SettlementIds, f \in ExpenseIds :
           new[t][f] = IF t = s /\ f = e THEN take ELSE al[t][f]
    BY <2>5 DEF Tables, Allocs
  <2>11. \A t \in SettlementIds, f \in ExpenseIds :
           /\ al[t][f] \in Nat /\ new[t][f] \in Nat
           /\ new[t][f] <= al[t][f] + (IF t = s /\ f = e THEN take ELSE 0)
    BY <2>8, <2>10 DEF Tables, Allocs
  <2> HIDE DEF new
  <2>12. FollowDebts(ex, st, new)
    BY <2>5, <2>10 DEF Sound, FollowDebts
  <2>13. NotOverSpent(st, new)
    <3> SUFFICES ASSUME NEW t \in SettlementIds, st[t] # NoRow
                 PROVE  Remaining(st, new, t) >= 0
      BY DEF NotOverSpent
    <3>1. /\ st[t].pay.amount \in Nat /\ Total(al[t], MaxExpense) \in Nat
          /\ Total(new[t], MaxExpense) \in Nat /\ MaxExpense \in Nat
      BY <2>9, RowTypes, SumsAreNatural, LedgerAssumption DEF Tables
    <3>2. \A i \in 1 .. MaxExpense : al[t][i] \in Int /\ new[t][i] \in Int
      BY <2>11 DEF ExpenseIds
    <3>3. Remaining(st, al, t) >= 0
      BY DEF Sound, NotOverSpent
    <3>4. CASE t = s
      <4>1. \A i \in 1 .. MaxExpense :
              new[t][i] <= al[t][i] + (IF i = e THEN take ELSE 0)
        BY <2>11, <3>4 DEF ExpenseIds
      <4>2. Total(new[t], MaxExpense) <= Total(al[t], MaxExpense) + take
        <5> DEFINE f == al[t]
                   g == new[t]
        <5>1. /\ \A i \in 1 .. MaxExpense : f[i] \in Int /\ g[i] \in Int
              /\ \A i \in 1 .. MaxExpense :
                   g[i] <= f[i] + (IF i = e THEN take ELSE 0)
          BY <3>2, <4>1
        <5>2. e \in Nat
          BY <2>5 DEF ExpenseIds
        <5> HIDE DEF f, g
        <5>3. Total(g, MaxExpense) <= Total(f, MaxExpense) + take
          BY <2>8, <3>1, <5>1, <5>2, TotalBound
        <5> QED BY <5>3 DEF f, g
      <4>3. take <= st[t].pay.amount - Total(al[t], MaxExpense)
        BY <2>8, <3>4 DEF Remaining
      <4>4. st[t].pay.amount - Total(new[t], MaxExpense) >= 0
        BY <2>8, <3>1, <4>2, <4>3
      <4> QED BY <4>4 DEF Remaining
    <3>5. CASE t # s
      <4>1. \A i \in 1 .. MaxExpense : new[t][i] <= al[t][i]
        BY <2>10, <2>11, <3>5 DEF ExpenseIds
      <4>2. Total(new[t], MaxExpense) <= Total(al[t], MaxExpense)
        <5> DEFINE f == al[t]
                   g == new[t]
        <5>1. \A i \in 1 .. MaxExpense :
                f[i] \in Int /\ g[i] \in Int /\ g[i] <= f[i]
          BY <3>2, <4>1
        <5> HIDE DEF f, g
        <5>2. Total(g, MaxExpense) <= Total(f, MaxExpense)
          BY <3>1, <5>1, TotalMonotone
        <5> QED BY <5>2 DEF f, g
      <4> QED BY <3>1, <3>3, <4>2 DEF Remaining
    <3> QED BY <3>4, <3>5
  <2>14. NotOverSettled(ex, st, new)
    <3> SUFFICES ASSUME NEW f \in ExpenseIds, NEW p \in Identities, ex[f] # NoRow
                 PROVE  Open(ex, st, new, f, p) >= 0
      BY DEF NotOverSettled
    <3> DEFINE a == [t \in SettlementIds |->
                       IF st[t] # NoRow /\ st[t].pay.debtor = p THEN al[t][f] ELSE 0]
               b == [t \in SettlementIds |->
                       IF st[t] # NoRow /\ st[t].pay.debtor = p THEN new[t][f] ELSE 0]
    <3>1. /\ Allocated(st, al, f, p) = Total(a, MaxSettlement)
          /\ Allocated(st, new, f, p) = Total(b, MaxSettlement)
      BY DEF Allocated
    <3>2. /\ ex[f].split.share[p] \in Nat /\ MaxSettlement \in Nat
          /\ Allocated(st, al, f, p) \in Nat /\ Allocated(st, new, f, p) \in Nat
      BY <2>9, RowTypes, SumsAreNatural, LedgerAssumption DEF Tables
    <3>3. \A t \in 1 .. MaxSettlement : a[t] \in Int /\ b[t] \in Int
      BY <2>11 DEF SettlementIds
    <3>4. Open(ex, st, al, f, p) >= 0
      BY DEF Sound, NotOverSettled
    <3>5. CASE f = e /\ p = d
      <4>1. \A t \in 1 .. MaxSettlement :
              b[t] <= a[t] + (IF t = s THEN take ELSE 0)
        BY <2>8, <2>11, <3>5 DEF SettlementIds
      <4> HIDE DEF a, b
      <4>2. Total(b, MaxSettlement) <= Total(a, MaxSettlement) + take
        BY <2>5, <2>8, <3>2, <3>3, <4>1, TotalBound DEF SettlementIds
      <4> QED BY <2>8, <3>1, <3>2, <3>5, <4>2 DEF Open
    <3>6. CASE ~ (f = e /\ p = d)
      <4>1. \A t \in 1 .. MaxSettlement : b[t] <= a[t]
        <5> SUFFICES ASSUME NEW t \in SettlementIds
                     PROVE  b[t] <= a[t]
          BY DEF SettlementIds
        <5>1. CASE t = s /\ f = e
          <6>1. st[t].pay.debtor # p
            BY <3>6, <5>1 DEF d
          <6> QED BY <6>1
        <5>2. CASE ~ (t = s /\ f = e)
          BY <2>10, <2>11, <5>2
        <5> QED BY <5>1, <5>2
      <4> HIDE DEF a, b
      <4>2. Total(b, MaxSettlement) <= Total(a, MaxSettlement)
        BY <3>2, <3>3, <4>1, TotalMonotone
      <4> QED BY <3>1, <3>2, <3>4, <4>2 DEF Open
    <3> QED BY <3>5, <3>6
  <2> QED BY <2>1, <2>9, <2>12, <2>13, <2>14 DEF Sound
<1> QED BY <1>1, <1>2

(* _consume_fifo is a sequence of states of its rows, all of them sound,   *)
(* each reached from the one before by ConsumeOne.                         *)
LEMMA ConsumeSteps ==
  ASSUME NEW ex, NEW st, NEW al, Tables(ex, st, al), Sound(ex, st, al),
         NEW S \in SUBSET SettlementIds
  PROVE  /\ MaxSettlement * MaxExpense \in Nat
         /\ \E rows :
              /\ rows[0] = al
              /\ \A i \in 1 .. MaxSettlement * MaxExpense :
                   rows[i] = ConsumeOne(ex, st, rows[i - 1], S)
              /\ \A i \in 0 .. MaxSettlement * MaxExpense :
                   rows[i] \in Allocs /\ Sound(ex, st, rows[i])
              /\ Consume(ex, st, al, S) = rows[MaxSettlement * MaxExpense]
<1> DEFINE Good == {a \in Allocs : Sound(ex, st, a)}
           N == MaxSettlement * MaxExpense
           Rows(n, r) == r = [i \in 0 .. n |->
                                IF i = 0 THEN al ELSE ConsumeOne(ex, st, r[i - 1], S)]
<1>1. al \in Good /\ N \in Nat
  BY LedgerAssumption DEF Tables
<1>2. \A a \in Good : ConsumeOne(ex, st, a, S) \in Good
  <2> SUFFICES ASSUME NEW a \in Good
               PROVE  ConsumeOne(ex, st, a, S) \in Good
    OBVIOUS
  <2>1. Tables(ex, st, a) /\ Sound(ex, st, a)
    BY DEF Tables
  <2> QED BY <2>1, ConsumeOneSound
<1> HIDE DEF Good, N
<1>3. \E r \in [0 .. N -> Good] : Rows(N, r)
  <2> DEFINE Bad == {n \in 0 .. N : ~ \E r \in [0 .. n -> Good] : Rows(n, r)}
  <2> SUFFICES ASSUME Bad # {} PROVE FALSE
    <3>1. N \in 0 .. N /\ N \notin Bad => \E r \in [0 .. N -> Good] : Rows(N, r)
      <4> HIDE DEF Rows
      <4> QED OBVIOUS
    <3>2. N \in 0 .. N
      BY <1>1
    <3> HIDE DEF Bad, Rows
    <3> QED BY <3>1, <3>2
  <2>1. PICK m \in Bad : \A y \in Bad : m <= y
    <3>1. Bad \subseteq Nat
      OBVIOUS
    <3> QED BY <3>1, LeastNatural
  <2>2. m # 0
    <3> SUFFICES ASSUME m = 0 PROVE FALSE OBVIOUS
    <3> DEFINE z == [i \in 0 .. 0 |-> al]
    <3>1. z \in [0 .. 0 -> Good]
      BY <1>1
    <3>2. Rows(0, z)
      OBVIOUS
    <3> QED BY <2>1, <3>1, <3>2
  <2>3. m - 1 \in 0 .. N /\ m - 1 \notin Bad /\ m \in 1 .. N
    <3>1. m \in 0 .. N
      OBVIOUS
    <3> HIDE DEF Bad
    <3>2. m - 1 \in 0 .. N /\ m \in 1 .. N /\ ~ (m <= m - 1)
      BY <1>1, <2>2, <3>1
    <3> QED BY <2>1, <3>2
  <2>4. PICK r \in [0 .. (m - 1) -> Good] : Rows(m - 1, r)
    BY <2>3
  <2> DEFINE next == ConsumeOne(ex, st, r[m - 1], S)
             t == [i \in 0 .. m |-> IF i = m THEN next ELSE r[i]]
  <2>5. next \in Good
    <3>1. r[m - 1] \in Good
      BY <2>3, <2>4
    <3> QED BY <1>2, <3>1
  <2> HIDE DEF next
  <2>6. t \in [0 .. m -> Good]
    BY <2>3, <2>4, <2>5
  <2>7. Rows(m, t)
    <3>1. ASSUME NEW i \in 0 .. m
          PROVE  t[i] = IF i = 0 THEN al ELSE ConsumeOne(ex, st, t[i - 1], S)
      <4>1. CASE i = m
        BY <2>2, <2>3, <4>1 DEF next
      <4>2. CASE i # m
        <5>1. i \in 0 .. (m - 1)
          BY <2>3, <4>2
        <5>2. r[i] = IF i = 0 THEN al ELSE ConsumeOne(ex, st, r[i - 1], S)
          BY <2>4, <5>1
        <5>3. i # 0 => t[i - 1] = r[i - 1]
          BY <5>1, <2>3
        <5> QED BY <4>2, <5>2, <5>3
      <4> QED BY <4>1, <4>2
    <3> QED BY <3>1, <2>6
  <2> QED BY <2>1, <2>6, <2>7
<1> DEFINE rows == CHOOSE r : Rows(N, r)
<1>4. Rows(N, rows)
  BY <1>3
<1>5. Consume(ex, st, al, S) = rows[N]
  BY DEF Consume, N
<1> HIDE DEF rows
<1>6. \A i \in 0 .. N : rows[i] \in Good
  <2> DEFINE Bad == {i \in 0 .. N : rows[i] \notin Good}
  <2> SUFFICES ASSUME Bad # {} PROVE FALSE
    OBVIOUS
  <2>1. PICK m \in Bad : \A y \in Bad : m <= y
    <3>1. Bad \subseteq Nat
      OBVIOUS
    <3> QED BY <3>1, LeastNatural
  <2>2. m # 0
    BY <1>1, <1>4
  <2>3. m - 1 \in 0 .. N /\ m - 1 \notin Bad /\ m \in 1 .. N
    BY <1>1, <2>1, <2>2
  <2>4. rows[m] = ConsumeOne(ex, st, rows[m - 1], S)
    BY <1>4, <2>3
  <2>5. rows[m - 1] \in Good
    BY <2>3
  <2> QED BY <1>2, <2>1, <2>4, <2>5
<1>7. rows[0] = al /\ \A i \in 1 .. N : rows[i] = ConsumeOne(ex, st, rows[i - 1], S)
  BY <1>1, <1>4
<1> QED BY <1>1, <1>5, <1>6, <1>7 DEF Good, N

(* The whole of _consume_fifo keeps the tables sound. *)
LEMMA ConsumeSound ==
  ASSUME NEW ex, NEW st, NEW al, Tables(ex, st, al), Sound(ex, st, al),
         NEW S \in SUBSET SettlementIds
  PROVE  Consume(ex, st, al, S) \in Allocs /\ Sound(ex, st, Consume(ex, st, al, S))
<1>1. MaxSettlement * MaxExpense \in 0 .. MaxSettlement * MaxExpense
  BY ConsumeSteps
<1> QED BY <1>1, ConsumeSteps

(* Removing the rows of some settlements and shares, while changing these  *)
(* settlements and expenses in any way, and then rebuilding any pairs.     *)
LEMMA RebuildSound ==
  ASSUME NEW ex, NEW st, NEW al, Tables(ex, st, al), Sound(ex, st, al),
         NEW S \in SUBSET SettlementIds, NEW E \in SUBSET ExpenseIds,
         NEW ex1 \in [ExpenseIds -> Expense \cup {NoRow}],
         NEW st1 \in [SettlementIds -> Settlement \cup {NoRow}],
         \A s \in SettlementIds \ S : st1[s] = st[s],
         \A e \in ExpenseIds \ E : ex1[e] = ex[e],
         NEW P
  PROVE  /\ Rebuild(ex1, st1, Cascade(al, S, E), P) \in Allocs
         /\ Sound(ex1, st1, Rebuild(ex1, st1, Cascade(al, S, E), P))
         /\ Cascade(al, S, E) \in Allocs
         /\ Sound(ex1, st1, Cascade(al, S, E))
<1> DEFINE a == Cascade(al, S, E)
           R == OfPairs(st1, P)
           b == Cascade(a, R, {})
<1>1. \A s \in SettlementIds, e \in ExpenseIds :
        /\ al[s][e] \in Nat
        /\ a[s][e] = IF s \in S \/ e \in E THEN 0 ELSE al[s][e]
        /\ b[s][e] = IF s \in R THEN 0 ELSE a[s][e]
  BY DEF Tables, Allocs, Cascade
<1>2. a \in Allocs /\ b \in Allocs /\ R \in SUBSET SettlementIds
  BY <1>1 DEF Allocs, Cascade, OfPairs
<1>3. Rebuild(ex1, st1, a, P) = Consume(ex1, st1, b, R)
  BY DEF Rebuild
<1>4. Tables(ex1, st1, a) /\ Tables(ex1, st1, b)
  BY <1>2 DEF Tables
<1> HIDE DEF a, b, R
<1>5. Sound(ex1, st1, a)
  <2>1. \A s \in SettlementIds, e \in ExpenseIds : a[s][e] <= al[s][e]
    BY <1>1
  <2>2. \A s \in SettlementIds :
          st1[s] = st[s] \/ \A e \in ExpenseIds : a[s][e] = 0
    BY <1>1
  <2>3. \A e \in ExpenseIds :
          \/ ex1[e] # NoRow /\ ex[e] # NoRow /\ ex1[e].split = ex[e].split
          \/ \A s \in SettlementIds : a[s][e] = 0
    <3> SUFFICES ASSUME NEW e \in ExpenseIds, e \notin E, ex[e] = NoRow
                 PROVE  \A s \in SettlementIds : a[s][e] = 0
      BY <1>1
    <3>1. \A s \in SettlementIds : ~ (al[s][e] > 0)
      BY DEF Sound, FollowDebts, Owes
    <3> QED BY <1>1, <3>1
  <2> QED BY <1>4, <2>1, <2>2, <2>3, FewerRows
<1>6. Sound(ex1, st1, b)
  <2>1. \A s \in SettlementIds, e \in ExpenseIds :
          a[s][e] \in Nat /\ b[s][e] \in Nat /\ b[s][e] <= a[s][e]
    BY <1>1
  <2>2. \A e \in ExpenseIds :
          \/ ex1[e] # NoRow
          \/ \A s \in SettlementIds : b[s][e] = 0
    <3> SUFFICES ASSUME NEW e \in ExpenseIds, ex1[e] = NoRow
                 PROVE  \A s \in SettlementIds : b[s][e] = 0
      OBVIOUS
    <3>1. \A s \in SettlementIds : ~ (a[s][e] > 0)
      BY <1>5 DEF Sound, FollowDebts, Owes
    <3> QED BY <2>1, <3>1
  <2> QED BY <1>4, <1>5, <2>1, <2>2, FewerRows
<1>7. /\ Consume(ex1, st1, b, R) \in Allocs
      /\ Sound(ex1, st1, Consume(ex1, st1, b, R))
  BY <1>2, <1>4, <1>6, ConsumeSound
<1> QED BY <1>2, <1>3, <1>5, <1>7 DEF a

-----------------------------------------------------------------------------
(* The invariant, in the form the lemmas about the tables ask for.         *)
LEMMA InvImpliesTables ==
  ASSUME IInv
  PROVE  Tables(expense, settlement, alloc) /\ Sound(expense, settlement, alloc)
BY DEF IInv, TypeOK, Tables, Allocs

(* The empty tables of a new installation satisfy the invariant.           *)
LEMMA InitEstablishesInv == Init => IInv
<1> SUFFICES ASSUME Init PROVE IInv
  OBVIOUS
<1>1. TypeOK
  BY LedgerAssumption DEF Init, TypeOK
<1>2. Sound(expense, settlement, alloc)
  <2>1. \A s \in SettlementIds : settlement[s] = NoRow
    BY DEF Init
  <2>2. \A e \in ExpenseIds : expense[e] = NoRow
    BY DEF Init
  <2>3. \A s \in SettlementIds, e \in ExpenseIds : ~ (alloc[s][e] > 0)
    BY DEF Init
  <2> QED BY <2>1, <2>2, <2>3 DEF Sound, FollowDebts, NotOverSpent, NotOverSettled
<1>3. FreshIds
  BY DEF Init, FreshIds
<1> QED BY <1>1, <1>2, <1>3 DEF IInv

(* apply_split_shares, on a row of the right type. *)
LEMMA ApplySplitSharesSound ==
  ASSUME IInv, NEW e \in ExpenseIds, NEW row \in Expense, NEW sp \in Splits,
         ApplySplitShares(e, row, sp), UNCHANGED settlement
  PROVE  /\ expense' \in [ExpenseIds -> Expense \cup {NoRow}]
         /\ alloc' \in Allocs
         /\ Sound(expense', settlement', alloc')
<1> DEFINE new == [row EXCEPT !.split = sp, !.home = row.group,
                              !.adhoc = IF row.group = NoGroup THEN sp.among ELSE @]
           P == PairsOf(expense, e) \cup PairsOf(expense', e)
<1>1. sp \in Split /\ sp.among \in SUBSET Identities
  BY LedgerAssumption DEF Split
<1>2. new \in Expense
  BY <1>1 DEF Expense
<1>3. expense' = [expense EXCEPT ![e] = new]
  BY DEF ApplySplitShares
<1> HIDE DEF new
<1>4. expense' \in [ExpenseIds -> Expense \cup {NoRow}]
  BY <1>2, <1>3 DEF IInv, TypeOK
<1>5. \A f \in ExpenseIds \ {e} : expense'[f] = expense[f]
  BY <1>3 DEF IInv, TypeOK
<1>6. alloc' = Rebuild(expense', settlement, Cascade(alloc, {}, {e}), P)
  BY DEF ApplySplitShares
<1> HIDE DEF P
<1>7. /\ Tables(expense, settlement, alloc) /\ Sound(expense, settlement, alloc)
      /\ settlement \in [SettlementIds -> Settlement \cup {NoRow}]
  BY InvImpliesTables DEF Tables
<1>8. {} \in SUBSET SettlementIds /\ {e} \in SUBSET ExpenseIds
  OBVIOUS
<1>9. /\ Rebuild(expense', settlement, Cascade(alloc, {}, {e}), P) \in Allocs
      /\ Sound(expense', settlement,
               Rebuild(expense', settlement, Cascade(alloc, {}, {e}), P))
  BY <1>4, <1>5, <1>7, <1>8, RebuildSound
<1> QED BY <1>4, <1>6, <1>9

(* Every handler preserves the invariant. *)
LEMMA NextPreservesInv == IInv /\ [Next]_vars => IInv'
<1> SUFFICES ASSUME IInv, [Next]_vars PROVE IInv'
  OBVIOUS
<1> DEFINE T == Tables(expense, settlement, alloc)
           Groups == {NoGroup} \cup GroupIds
<1>0. /\ T /\ Sound(expense, settlement, alloc)
      /\ expense \in [ExpenseIds -> Expense \cup {NoRow}]
      /\ settlement \in [SettlementIds -> Settlement \cup {NoRow}]
      /\ alloc \in Allocs
  BY InvImpliesTables DEF Tables
<1> HIDE DEF T
<1>1. ASSUME NEW u \in Users, NEW g \in GroupIds, CreateGroup(u, g) PROVE IInv'
  <2>1. TypeOK'
    <3>1. creator' \in [GroupIds -> Users \cup {NoUser}]
      BY <1>1 DEF CreateGroup, IInv, TypeOK
    <3>2. members' \in [GroupIds -> SUBSET Identities]
      <4>1. {u} \in SUBSET Identities
        BY DEF Identities
      <4> QED BY <4>1, <1>1 DEF CreateGroup, IInv, TypeOK
    <3>3. last' \in [group : 0 .. MaxGroup, expense : 0 .. MaxExpense,
                     settlement : 0 .. MaxSettlement]
      <4>1. g \in 0 .. MaxGroup
        BY LedgerAssumption DEF GroupIds
      <4> QED BY <1>1, <4>1 DEF CreateGroup, IInv, TypeOK
    <3> QED BY <1>1, <3>1, <3>2, <3>3 DEF CreateGroup, IInv, TypeOK
  <2>2. FreshIds'
    BY <1>1 DEF CreateGroup, IInv, TypeOK, FreshIds
  <2>3. Sound(expense, settlement, alloc)'
    BY <1>0, <1>1 DEF CreateGroup
  <2> QED BY <2>1, <2>2, <2>3 DEF IInv
<1>2. ASSUME NEW u \in Users, ChangeMembers(u) PROVE IInv'
  <2> PICK g \in GroupIds, p \in Identities : AddMember(u, g, p) \/ RemoveMember(u, g, p)
    BY <1>2 DEF ChangeMembers
  <2>1. /\ members' \in [GroupIds -> SUBSET Identities]
        /\ UNCHANGED <<creator, expense, settlement, alloc, last>>
    BY DEF AddMember, RemoveMember, IInv, TypeOK
  <2>2. TypeOK' /\ FreshIds'
    BY <2>1 DEF IInv, TypeOK, FreshIds
  <2>3. Sound(expense, settlement, alloc)'
    BY <1>0, <2>1
  <2> QED BY <2>2, <2>3 DEF IInv
<1>3. ASSUME NEW u \in Users, NEW g \in GroupIds, DeleteGroup(u, g) PROVE IInv'
  <2> DEFINE E == {e \in ExpenseIds : expense[e] # NoRow /\ expense[e].group = g}
             S == {s \in SettlementIds :
                     settlement[s] # NoRow /\ settlement[s].group = g}
             P == UNION {PairsOf(expense, e) : e \in E}
             moved == {e \in ExpenseIds \ E : expense[e] # NoRow
                                              /\ expense[e].home = g}
             stripped(e) == [expense[e] EXCEPT !.split.among = {}]
             gone == E \cup moved
  <2>1. /\ expense' = [e \in ExpenseIds |-> IF e \in E THEN NoRow
                                            ELSE IF e \in moved THEN stripped(e)
                                                               ELSE expense[e]]
        /\ settlement' = [s \in SettlementIds |->
                            IF s \in S THEN NoRow ELSE settlement[s]]
        /\ alloc' = Rebuild(expense', settlement', Cascade(alloc, S, gone), P)
        /\ creator' = [creator EXCEPT ![g] = NoUser]
        /\ members' = [members EXCEPT ![g] = {}]
        /\ last' = last
    BY <1>3 DEF DeleteGroup
  <2>2. S \in SUBSET SettlementIds /\ gone \in SUBSET ExpenseIds
    OBVIOUS
  <2>7. \A e \in moved : stripped(e) \in Expense
    <3> SUFFICES ASSUME NEW e \in moved PROVE stripped(e) \in Expense
      OBVIOUS
    <3>1. expense[e] \in Expense
      BY <1>0
    <3>2. [expense[e].split EXCEPT !.among = {}] \in Split
      BY <3>1 DEF Expense, Split
    <3> QED BY <3>1, <3>2 DEF Expense
  <2>8. \A e \in ExpenseIds \ gone : e \notin E /\ e \notin moved
    OBVIOUS
  <2> HIDE DEF E, S, P, moved, stripped, gone
  <2>3. /\ expense' \in [ExpenseIds -> Expense \cup {NoRow}]
        /\ settlement' \in [SettlementIds -> Settlement \cup {NoRow}]
        /\ \A s \in SettlementIds \ S : settlement'[s] = settlement[s]
        /\ \A e \in ExpenseIds \ gone : expense'[e] = expense[e]
    BY <1>0, <2>1, <2>7, <2>8
  <2>4. alloc' \in Allocs /\ Sound(expense', settlement', alloc')
    <3>1. /\ Rebuild(expense', settlement', Cascade(alloc, S, gone), P) \in Allocs
          /\ Sound(expense', settlement',
                   Rebuild(expense', settlement', Cascade(alloc, S, gone), P))
      BY <1>0, <2>2, <2>3, RebuildSound DEF T
    <3> QED BY <2>1, <3>1
  <2>5. TypeOK'
    BY <2>1, <2>3, <2>4 DEF IInv, TypeOK, Allocs
  <2>6. FreshIds'
    BY <2>1 DEF IInv, TypeOK, FreshIds
  <2> QED BY <2>4, <2>5, <2>6 DEF IInv
<1>4. ASSUME NEW u \in Users, NEW g \in Groups, NEW d \in Dates, NEW sp \in Splits,
             CreateExpense(u, g, d, sp)
      PROVE  IInv'
  <2> DEFINE e == last.expense + 1
             row == [group |-> g, date |-> d, by |-> u, split |-> sp, adhoc |-> {},
                     home |-> g]
  <2>1. e \in ExpenseIds /\ e \in 0 .. MaxExpense
    BY <1>4, LedgerAssumption DEF CreateExpense, IInv, TypeOK, ExpenseIds
  <2>2. row \in Expense
    BY LedgerAssumption DEF Expense
  <2>3. /\ ApplySplitShares(e, row, sp)
        /\ last' = [last EXCEPT !.expense = e]
        /\ UNCHANGED <<creator, members, settlement>>
    BY <1>4 DEF CreateExpense, groupVars
  <2> HIDE DEF e, row
  <2>4. /\ expense' \in [ExpenseIds -> Expense \cup {NoRow}]
        /\ alloc' \in Allocs
        /\ Sound(expense', settlement', alloc')
    BY <2>1, <2>2, <2>3, ApplySplitSharesSound
  <2>5. TypeOK'
    BY <2>1, <2>3, <2>4 DEF IInv, TypeOK, Allocs
  <2>6. FreshIds'
    BY <2>3 DEF IInv, TypeOK, FreshIds
  <2> QED BY <2>4, <2>5, <2>6 DEF IInv
<1>5. ASSUME NEW u \in Users, NEW e \in ExpenseIds, NEW g \in Groups,
             NEW d \in Dates, NEW sp \in Splits, EditExpense(u, e, g, d, sp)
      PROVE  IInv'
  <2> DEFINE row == [expense[e] EXCEPT !.group = g, !.date = d]
  <2>1. expense[e] \in Expense
    BY <1>0, <1>5 DEF EditExpense, CanAccessExpense
  <2>2. row \in Expense
    BY <2>1 DEF Expense
  <2>3. /\ ApplySplitShares(e, row, sp)
        /\ UNCHANGED <<creator, members, settlement, last>>
    BY <1>5 DEF EditExpense, groupVars
  <2> HIDE DEF row
  <2>4. /\ expense' \in [ExpenseIds -> Expense \cup {NoRow}]
        /\ alloc' \in Allocs
        /\ Sound(expense', settlement', alloc')
    BY <2>2, <2>3, ApplySplitSharesSound
  <2>5. TypeOK'
    BY <2>3, <2>4 DEF IInv, TypeOK, Allocs
  <2>6. FreshIds'
    BY <2>3 DEF IInv, TypeOK, FreshIds
  <2> QED BY <2>4, <2>5, <2>6 DEF IInv
<1>6. ASSUME NEW u \in Users, NEW e \in ExpenseIds, NEW g \in Groups,
             NEW d \in Dates, PatchExpense(u, e, g, d)
      PROVE  IInv'
  <2> DEFINE new == [expense[e] EXCEPT !.group = g, !.date = d]
  <2>1. expense[e] \in Expense /\ expense[e] # NoRow
    BY <1>0, <1>6 DEF PatchExpense, CanAccessExpense
  <2>2. new \in Expense /\ new.split = expense[e].split
    BY <2>1 DEF Expense
  <2>3. /\ expense' = [expense EXCEPT ![e] = new]
        /\ UNCHANGED <<creator, members, settlement, alloc, last>>
    BY <1>6, <2>1 DEF PatchExpense, groupVars, IInv, TypeOK, Expense
  <2> HIDE DEF new
  <2>4. new # NoRow
    BY <2>2, LedgerAssumption
  <2>5. expense' \in [ExpenseIds -> Expense \cup {NoRow}]
    BY <1>0, <2>2, <2>3
  <2>6. \A f \in ExpenseIds :
          \/ /\ expense'[f] # NoRow /\ expense[f] # NoRow
             /\ expense'[f].split = expense[f].split
          \/ \A s \in SettlementIds : alloc[s][f] = 0
    <3> SUFFICES ASSUME NEW f \in ExpenseIds, expense[f] = NoRow
                 PROVE  \A s \in SettlementIds : alloc[s][f] = 0
      BY <1>0, <2>1, <2>2, <2>3, <2>4
    <3>1. \A s \in SettlementIds : alloc[s][f] \in Nat /\ ~ (alloc[s][f] > 0)
      BY <1>0 DEF Sound, FollowDebts, Owes, Allocs
    <3> QED BY <3>1
  <2>7. Tables(expense', settlement, alloc)
    BY <1>0, <2>5 DEF Tables
  <2>8. \A s \in SettlementIds, f \in ExpenseIds : alloc[s][f] <= alloc[s][f]
    BY <1>0 DEF Allocs
  <2>9. Sound(expense', settlement, alloc)
    BY <1>0, <2>6, <2>7, <2>8, FewerRows DEF T
  <2>10. TypeOK' /\ FreshIds'
    BY <2>3, <2>5 DEF IInv, TypeOK, FreshIds
  <2> QED BY <2>3, <2>9, <2>10 DEF IInv
<1>7. ASSUME NEW u \in Users, NEW e \in ExpenseIds, DeleteExpense(u, e)
      PROVE  IInv'
  <2> DEFINE P == PairsOf(expense, e)
  <2>1. /\ expense' = [expense EXCEPT ![e] = NoRow]
        /\ alloc' = Rebuild(expense', settlement, Cascade(alloc, {}, {e}), P)
        /\ UNCHANGED <<creator, members, settlement, last>>
    BY <1>7 DEF DeleteExpense, groupVars
  <2> HIDE DEF P
  <2>2. /\ expense' \in [ExpenseIds -> Expense \cup {NoRow}]
        /\ \A f \in ExpenseIds \ {e} : expense'[f] = expense[f]
        /\ {} \in SUBSET SettlementIds /\ {e} \in SUBSET ExpenseIds
    BY <1>0, <2>1
  <2>3. alloc' \in Allocs /\ Sound(expense', settlement, alloc')
    <3>1. /\ Rebuild(expense', settlement, Cascade(alloc, {}, {e}), P) \in Allocs
          /\ Sound(expense', settlement,
                   Rebuild(expense', settlement, Cascade(alloc, {}, {e}), P))
      BY <1>0, <2>2, RebuildSound DEF T
    <3> QED BY <2>1, <3>1
  <2>4. TypeOK' /\ FreshIds'
    BY <2>1, <2>2, <2>3 DEF IInv, TypeOK, FreshIds, Allocs
  <2> QED BY <2>1, <2>3, <2>4 DEF IInv
<1>8. ASSUME NEW u \in Users, NEW g \in Groups, NEW pay \in Payments,
             CreateSettlement(u, g, pay)
      PROVE  IInv'
  <2> DEFINE s == last.settlement + 1
             new == [group |-> g, pay |-> pay]
  <2>1. s \in SettlementIds /\ s \in 0 .. MaxSettlement /\ s > last.settlement
    BY <1>8, LedgerAssumption DEF CreateSettlement, IInv, TypeOK, SettlementIds
  <2>2. new \in Settlement
    BY LedgerAssumption DEF Settlement
  <2>3. /\ settlement' = [settlement EXCEPT ![s] = new]
        /\ last' = [last EXCEPT !.settlement = s]
        /\ alloc' = Consume(expense, settlement', alloc, {s})
        /\ UNCHANGED <<creator, members, expense>>
    BY <1>8 DEF CreateSettlement, groupVars
  <2>4. FreshIds'
    BY <2>1, <2>3 DEF IInv, TypeOK, FreshIds, SettlementIds
  <2>5. settlement[s] = NoRow
    BY <2>1 DEF IInv, FreshIds
  <2> HIDE DEF s, new
  <2>6. settlement' \in [SettlementIds -> Settlement \cup {NoRow}]
    BY <1>0, <2>2, <2>3
  <2>7. \A e \in ExpenseIds : alloc[s][e] = 0
    <3>1. \A e \in ExpenseIds : alloc[s][e] \in Nat /\ ~ (alloc[s][e] > 0)
      BY <1>0, <2>1, <2>5 DEF Sound, FollowDebts, Owes, Allocs
    <3> QED BY <3>1
  <2>8. \A t \in SettlementIds :
          settlement'[t] = settlement[t] \/ \A e \in ExpenseIds : alloc[t][e] = 0
    BY <1>0, <2>3, <2>7
  <2>9. \A e \in ExpenseIds :
          \/ expense[e] # NoRow
          \/ \A t \in SettlementIds : alloc[t][e] = 0
    <3> SUFFICES ASSUME NEW e \in ExpenseIds, expense[e] = NoRow
                 PROVE  \A t \in SettlementIds : alloc[t][e] = 0
      OBVIOUS
    <3>1. \A t \in SettlementIds : alloc[t][e] \in Nat /\ ~ (alloc[t][e] > 0)
      BY <1>0 DEF Sound, FollowDebts, Owes, Allocs
    <3> QED BY <3>1
  <2>10. \A t \in SettlementIds, e \in ExpenseIds : alloc[t][e] <= alloc[t][e]
    BY <1>0 DEF Allocs
  <2>11. Tables(expense, settlement', alloc)
    BY <1>0, <2>6 DEF Tables
  <2>12. Sound(expense, settlement', alloc)
    BY <1>0, <2>8, <2>9, <2>10, <2>11, FewerRows DEF T
  <2>13. {s} \in SUBSET SettlementIds
    BY <2>1
  <2>14. /\ Consume(expense, settlement', alloc, {s}) \in Allocs
         /\ Sound(expense, settlement', Consume(expense, settlement', alloc, {s}))
    BY <2>11, <2>12, <2>13, ConsumeSound
  <2>15. TypeOK'
    BY <2>1, <2>3, <2>6, <2>14 DEF IInv, TypeOK, Allocs
  <2> QED BY <2>3, <2>4, <2>14, <2>15 DEF IInv
<1>9. ASSUME NEW u \in Users, NEW s \in SettlementIds, DeleteSettlement(u, s)
      PROVE  IInv'
  <2>1. /\ settlement' = [settlement EXCEPT ![s] = NoRow]
        /\ alloc' = Cascade(alloc, {s}, {})
        /\ UNCHANGED <<creator, members, expense, last>>
    BY <1>9 DEF DeleteSettlement, groupVars
  <2>2. /\ settlement' \in [SettlementIds -> Settlement \cup {NoRow}]
        /\ \A t \in SettlementIds \ {s} : settlement'[t] = settlement[t]
        /\ {s} \in SUBSET SettlementIds /\ {} \in SUBSET ExpenseIds
    BY <1>0, <2>1
  <2>3. alloc' \in Allocs /\ Sound(expense, settlement', alloc')
    <3>1. /\ Cascade(alloc, {s}, {}) \in Allocs
          /\ Sound(expense, settlement', Cascade(alloc, {s}, {}))
      BY <1>0, <2>2, RebuildSound DEF T
    <3> QED BY <2>1, <3>1
  <2>4. TypeOK' /\ FreshIds'
    BY <2>1, <2>2, <2>3 DEF IInv, TypeOK, FreshIds, Allocs
  <2> QED BY <2>1, <2>3, <2>4 DEF IInv
<1>10. ASSUME NEW s \in SettlementIds, Backfill(s) PROVE IInv'
  <2> DEFINE P == {<<settlement[s].pay.debtor, settlement[s].pay.creditor>>}
  <2>1. /\ alloc' = Rebuild(expense, settlement, alloc, P)
        /\ UNCHANGED <<creator, members, expense, settlement, last>>
    BY <1>10 DEF Backfill, groupVars
  <2> HIDE DEF P
  <2>2. {} \in SUBSET SettlementIds /\ {} \in SUBSET ExpenseIds
    OBVIOUS
  <2>3. Cascade(alloc, {}, {}) = alloc
    BY <1>0 DEF Cascade, Allocs
  <2>4. /\ Rebuild(expense, settlement, Cascade(alloc, {}, {}), P) \in Allocs
        /\ Sound(expense, settlement,
                 Rebuild(expense, settlement, Cascade(alloc, {}, {}), P))
    BY <1>0, <2>2, RebuildSound DEF T
  <2>5. alloc' \in Allocs /\ Sound(expense, settlement, alloc')
    BY <2>1, <2>3, <2>4
  <2>6. TypeOK' /\ FreshIds'
    BY <2>1, <2>5 DEF IInv, TypeOK, FreshIds, Allocs
  <2> QED BY <2>1, <2>5, <2>6 DEF IInv
<1>11. ASSUME UNCHANGED vars PROVE IInv'
  <2>1. UNCHANGED <<creator, members, expense, settlement, alloc, last>>
    BY <1>11 DEF vars
  <2>2. TypeOK' /\ FreshIds'
    BY <2>1 DEF IInv, TypeOK, FreshIds
  <2>3. Sound(expense, settlement, alloc)'
    BY <2>1, <1>0
  <2> QED BY <2>2, <2>3 DEF IInv
<1>12. ASSUME NEW u \in Users, WriteExpense(u) PROVE IInv'
  BY <1>4, <1>5, <1>12 DEF WriteExpense
<1> QED
  BY <1>1, <1>2, <1>3, <1>6, <1>7, <1>8, <1>9, <1>10, <1>11, <1>12 DEF Next

(* The invariant holds in every reachable state. *)
THEOREM Invariance == Spec => []IInv
<1>1. Init => IInv
  BY InitEstablishesInv
<1>2. IInv /\ [Next]_vars => IInv'
  BY NextPreservesInv
<1> QED BY <1>1, <1>2, PTL DEF Spec

(* The tables keep their types. *)
THEOREM Typing == Spec => []TypeOK
<1>1. IInv => TypeOK
  BY DEF IInv
<1> QED BY <1>1, Invariance, PTL

(* No share is ever allocated beyond its amount: invariant (b) of the      *)
(* docstring of SplitSettlementAllocation, for handlers run one at a time. *)
THEOREM ShareSafety == Spec => []SharesNeverOverSettled
<1>1. IInv => SharesNeverOverSettled
  BY DEF IInv, Sound, NotOverSettled, SharesNeverOverSettled
<1> QED BY <1>1, Invariance, PTL

(* No payment is ever allocated beyond its amount. *)
THEOREM SettlementSafety == Spec => []SettlementsNeverOverSpent
<1>1. IInv => SettlementsNeverOverSpent
  BY DEF IInv, Sound, NotOverSpent, SettlementsNeverOverSpent
<1> QED BY <1>1, Invariance, PTL

(* Allocations pay only debts of the settlement's debtor to its creditor,  *)
(* never the payer's own share: invariant (a) of the same docstring.       *)
THEOREM DebtSafety == Spec => []AllocationsFollowDebts
<1>1. IInv => AllocationsFollowDebts
  BY DEF IInv, Sound, FollowDebts, AllocationsFollowDebts
<1> QED BY <1>1, Invariance, PTL

(***************************************************************************)
(* What _consume_fifo promises besides soundness, for every number of      *)
(* users, groups, expenses and settlements: after a rebuild no money of a  *)
(* rebuilt pair is idle, the oldest debts are the settled ones, and the    *)
(* rows are a function of the tables: rebuilding again changes nothing.    *)
(*                                                                         *)
(* The argument: each row exhausts one side of the first pair that is open *)
(* on both (RowOfConsume), so the pairs still open shrink with every row   *)
(* (ConsumeFills) and the rows are written in the order of the loops       *)
(* (Filled).  Rows written in that order, until no pair is open, are       *)
(* determined by the tables (FilledOnce): of two such fillings, take the   *)
(* first pair on which they differ.                                        *)
(***************************************************************************)


(* Every row is in the scope of its settlement. *)
RowsInScope(ex, st, al, S) ==
  \A s \in S, e \in ExpenseIds : al[s][e] > 0 => InScope(ex, st, s, e)

(* The loops have passed every row written before the pairs still open.    *)
WrittenFirst(ex, st, al, S) ==
  \A t \in S, e \in ExpenseIds :
    al[t][e] > 0 =>
      \A s \in S, f \in ExpenseIds :
        <<s, f>> \in Matches(ex, st, al, S)
          => Before(st, t, s) \/ (s = t /\ Older(ex, e, f))

(* The state of the rows between two rows of _consume_fifo. *)
Filled(ex, st, al, S) ==
  /\ SharesInOrder(ex, st, al, S)
  /\ SettlementsInOrder(ex, st, al, S)
  /\ RowsInScope(ex, st, al, S)
  /\ WrittenFirst(ex, st, al, S)

-----------------------------------------------------------------------------
(* The first settlement comes before every other candidate. *)
LEMMA FirstSettlementLeast ==
  ASSUME NEW st, NEW S \in SUBSET SettlementIds, S # {},
         \A s \in S : /\ st[s].pay.date \in Nat
                      /\ st[s].group \in {NoGroup} \cup GroupIds
  PROVE  /\ FirstSettlement(st, S) \in S
         /\ \A t \in S : t = FirstSettlement(st, S)
                         \/ Before(st, FirstSettlement(st, S), t)
<1> DEFINE pass == [s \in S |-> IF st[s].group = NoGroup THEN MaxGroup + 1
                                                          ELSE st[s].group]
           date == [s \in S |-> st[s].pay.date]
           id   == [s \in S |-> s]
           A == Earliest(S, pass)
           B == Earliest(A, date)
           C == Earliest(B, id)
<1>1. \A s \in S : /\ pass[s] \in Nat /\ date[s] \in Nat /\ id[s] \in Nat
                   /\ pass[s] = PassOf(st, s) /\ date[s] = st[s].pay.date
                   /\ id[s] = s
  BY LedgerAssumption DEF GroupIds, SettlementIds, PassOf
<1>2. FirstSettlement(st, S) = CHOOSE s \in S : s \in C
  BY DEF FirstSettlement
<1> HIDE DEF pass, date, id
<1>3. A # {} /\ A \subseteq S /\ A = {x \in S : \A y \in S : pass[x] <= pass[y]}
  <2>1. A # {} /\ A \subseteq S
    BY <1>1, EarliestNonempty
  <2>2. A = {x \in S : \A y \in S : pass[x] <= pass[y]}
    BY DEF Earliest
  <2> QED BY <2>1, <2>2
<1> HIDE DEF A
<1>4. B # {} /\ B \subseteq A /\ B = {x \in A : \A y \in A : date[x] <= date[y]}
  <2>1. B # {} /\ B \subseteq A
    BY <1>1, <1>3, EarliestNonempty
  <2>2. B = {x \in A : \A y \in A : date[x] <= date[y]}
    BY DEF Earliest
  <2> QED BY <2>1, <2>2
<1> HIDE DEF B
<1>5. C # {} /\ C \subseteq B /\ C = {x \in B : \A y \in B : id[x] <= id[y]}
  <2>1. C # {} /\ C \subseteq B
    BY <1>1, <1>3, <1>4, EarliestNonempty
  <2>2. C = {x \in B : \A y \in B : id[x] <= id[y]}
    BY DEF Earliest
  <2> QED BY <2>1, <2>2
<1> HIDE DEF C
<1>6. PICK s \in S : s = FirstSettlement(st, S) /\ s \in C
  BY <1>2, <1>3, <1>4, <1>5
<1>7. ASSUME NEW t \in S, t # s
      PROVE  Before(st, s, t)
  <2>1. /\ pass[s] \in Nat /\ pass[t] \in Nat /\ date[s] \in Nat /\ date[t] \in Nat
        /\ s \in Nat /\ t \in Nat
    BY <1>1 DEF SettlementIds
  <2>2. s \in A /\ s \in B /\ pass[s] <= pass[t]
    BY <1>3, <1>4, <1>5, <1>6
  <2>3. CASE t \notin A
    <3>1. PICK y \in S : ~ (pass[t] <= pass[y])
      BY <1>3, <2>3
    <3>2. pass[s] <= pass[y] /\ pass[y] \in Nat
      BY <1>1, <1>3, <2>2
    <3>3. pass[s] < pass[t]
      BY <2>1, <3>1, <3>2
    <3> QED BY <1>1, <3>3 DEF Before
  <2>4. CASE t \in A /\ t \notin B
    <3>1. PICK y \in A : ~ (date[t] <= date[y])
      BY <1>4, <2>4
    <3>2. date[s] <= date[y] /\ date[y] \in Nat
      BY <1>1, <1>3, <1>4, <2>2
    <3>3. date[s] < date[t] /\ pass[t] <= pass[s]
      BY <1>3, <2>1, <2>4, <3>1, <3>2
    <3>4. pass[s] = pass[t]
      BY <2>1, <2>2, <3>3
    <3> QED BY <1>1, <3>3, <3>4 DEF Before
  <2>5. CASE t \in A /\ t \in B
    <3>1. id[s] <= id[t] /\ date[s] <= date[t] /\ date[t] <= date[s]
          /\ pass[t] <= pass[s]
      BY <1>3, <1>4, <1>5, <1>6, <2>2, <2>5
    <3>2. s < t /\ date[s] = date[t] /\ pass[s] = pass[t]
      BY <1>1, <1>7, <2>1, <2>2, <3>1
    <3> QED BY <1>1, <3>2 DEF Before
  <2> QED BY <2>3, <2>4, <2>5
<1> QED BY <1>6, <1>7

(* The first share is older than every other candidate. *)
LEMMA FirstShareLeast ==
  ASSUME NEW ex, NEW E \in SUBSET ExpenseIds, E # {},
         \A e \in E : ex[e].date \in Nat
  PROVE  /\ FirstShare(ex, E) \in E
         /\ \A f \in E : f = FirstShare(ex, E) \/ Older(ex, FirstShare(ex, E), f)
<1> DEFINE date == [e \in E |-> ex[e].date]
           id   == [e \in E |-> e]
           A == Earliest(E, date)
           B == Earliest(A, id)
<1>1. \A e \in E : /\ date[e] \in Nat /\ id[e] \in Nat
                   /\ date[e] = ex[e].date /\ id[e] = e
  BY DEF ExpenseIds
<1>2. FirstShare(ex, E) = CHOOSE e \in E : e \in B
  BY DEF FirstShare
<1> HIDE DEF date, id
<1>3. A # {} /\ A \subseteq E /\ A = {x \in E : \A y \in E : date[x] <= date[y]}
  <2>1. A # {} /\ A \subseteq E
    BY <1>1, EarliestNonempty
  <2>2. A = {x \in E : \A y \in E : date[x] <= date[y]}
    BY DEF Earliest
  <2> QED BY <2>1, <2>2
<1> HIDE DEF A
<1>4. B # {} /\ B \subseteq A /\ B = {x \in A : \A y \in A : id[x] <= id[y]}
  <2>1. B # {} /\ B \subseteq A
    BY <1>1, <1>3, EarliestNonempty
  <2>2. B = {x \in A : \A y \in A : id[x] <= id[y]}
    BY DEF Earliest
  <2> QED BY <2>1, <2>2
<1> HIDE DEF B
<1>5. PICK e \in E : e = FirstShare(ex, E) /\ e \in B
  BY <1>2, <1>3, <1>4
<1>6. ASSUME NEW f \in E, f # e
      PROVE  Older(ex, e, f)
  <2>1. date[e] \in Nat /\ date[f] \in Nat /\ e \in Nat /\ f \in Nat
    BY <1>1 DEF ExpenseIds
  <2>2. e \in A /\ date[e] <= date[f]
    BY <1>3, <1>4, <1>5
  <2>3. CASE f \notin A
    <3>1. PICK y \in E : ~ (date[f] <= date[y])
      BY <1>3, <2>3
    <3>2. date[e] <= date[y] /\ date[y] \in Nat
      BY <1>1, <1>3, <2>2
    <3>3. date[e] < date[f]
      BY <2>1, <3>1, <3>2
    <3> QED BY <1>1, <3>3 DEF Older
  <2>4. CASE f \in A
    <3>1. id[e] <= id[f] /\ date[f] <= date[e]
      BY <1>3, <1>4, <1>5, <2>4
    <3>2. e < f /\ date[e] = date[f]
      BY <1>1, <1>6, <2>1, <2>2, <3>1
    <3> QED BY <1>1, <3>2 DEF Older
  <2> QED BY <2>3, <2>4
<1> QED BY <1>5, <1>6

(* Both orders are strict. *)
LEMMA OrdersAreStrict ==
  ASSUME NEW ex, NEW st, NEW al, Tables(ex, st, al)
  PROVE  /\ \A s \in SettlementIds, t \in SettlementIds :
              st[s] # NoRow /\ st[t] # NoRow /\ Before(st, s, t)
                => ~ Before(st, t, s) /\ s # t
         /\ \A e \in ExpenseIds, f \in ExpenseIds :
              ex[e] # NoRow /\ ex[f] # NoRow /\ Older(ex, e, f)
                => ~ Older(ex, f, e) /\ e # f
<1>1. \A s \in SettlementIds : st[s] # NoRow =>
        st[s].pay.date \in Nat /\ PassOf(st, s) \in Nat /\ s \in Nat
  BY RowTypes, LedgerAssumption DEF PassOf, GroupIds, SettlementIds, NoGroup
<1>2. \A e \in ExpenseIds : ex[e] # NoRow => ex[e].date \in Nat /\ e \in Nat
  BY RowTypes DEF ExpenseIds
<1> QED BY <1>1, <1>2 DEF Before, Older

(* What a row of `take` on the pair of s and e takes from both its sides,  *)
(* and from nothing else.                                                  *)
LEMMA RowTakes ==
  ASSUME NEW ex, NEW st, NEW al, Tables(ex, st, al), NEW new \in Allocs,
         NEW s \in SettlementIds, NEW e \in ExpenseIds, NEW take \in Nat,
         st[s] # NoRow, al[s][e] = 0,
         \A t \in SettlementIds, f \in ExpenseIds :
           new[t][f] = IF t = s /\ f = e THEN take ELSE al[t][f]
  PROVE  /\ \A t \in SettlementIds : st[t] # NoRow =>
              /\ Remaining(st, al, t) \in Int /\ Remaining(st, new, t) \in Int
              /\ Remaining(st, new, t)
                   = Remaining(st, al, t) - (IF t = s THEN take ELSE 0)
         /\ \A f \in ExpenseIds, p \in Identities : ex[f] # NoRow =>
              /\ Open(ex, st, al, f, p) \in Int /\ Open(ex, st, new, f, p) \in Int
              /\ Open(ex, st, new, f, p)
                   = Open(ex, st, al, f, p)
                       - (IF f = e /\ p = st[s].pay.debtor THEN take ELSE 0)
<1>0. /\ MaxExpense \in Nat /\ MaxSettlement \in Nat /\ al \in Allocs
      /\ s \in 1 .. MaxSettlement /\ e \in 1 .. MaxExpense
  BY LedgerAssumption DEF Tables, SettlementIds, ExpenseIds
<1>1. \A t \in SettlementIds, f \in ExpenseIds :
        al[t][f] \in Nat /\ new[t][f] \in Nat
  BY <1>0 DEF Allocs
<1>2. ASSUME NEW t \in SettlementIds, st[t] # NoRow
      PROVE  /\ Remaining(st, al, t) \in Int /\ Remaining(st, new, t) \in Int
             /\ Remaining(st, new, t)
                  = Remaining(st, al, t) - (IF t = s THEN take ELSE 0)
  <2>1. PICK d \in Int : d = IF t = s THEN take ELSE 0
    OBVIOUS
  <2>2. PICK f, g : f = al[t] /\ g = new[t]
    OBVIOUS
  <2>3. \A i \in 1 .. MaxExpense :
          f[i] \in Int /\ g[i] \in Int /\ (i # e => g[i] = f[i])
    BY <1>1, <2>1, <2>2 DEF ExpenseIds
  <2>4. g[e] = f[e] + d
    BY <1>1, <2>1, <2>2
  <2>5. Total(g, MaxExpense) = Total(f, MaxExpense) + d
    BY <1>0, <2>3, <2>4, TotalOneMore
  <2>6. /\ Total(al[t], MaxExpense) \in Nat /\ Total(new[t], MaxExpense) \in Nat
        /\ st[t].pay.amount \in Nat
    BY <1>0, <1>2, RowTypes, SumsAreNatural
  <2> QED BY <2>1, <2>2, <2>5, <2>6 DEF Remaining
<1>3. ASSUME NEW f \in ExpenseIds, NEW p \in Identities, ex[f] # NoRow
      PROVE  /\ Open(ex, st, al, f, p) \in Int /\ Open(ex, st, new, f, p) \in Int
             /\ Open(ex, st, new, f, p)
                  = Open(ex, st, al, f, p)
                      - (IF f = e /\ p = st[s].pay.debtor THEN take ELSE 0)
  <2> DEFINE a == [t \in SettlementIds |->
                     IF st[t] # NoRow /\ st[t].pay.debtor = p THEN al[t][f] ELSE 0]
             b == [t \in SettlementIds |->
                     IF st[t] # NoRow /\ st[t].pay.debtor = p THEN new[t][f] ELSE 0]
  <2>1. PICK d \in Int : d = IF f = e /\ p = st[s].pay.debtor THEN take ELSE 0
    OBVIOUS
  <2>2. /\ Allocated(st, al, f, p) = Total(a, MaxSettlement)
        /\ Allocated(st, new, f, p) = Total(b, MaxSettlement)
    BY DEF Allocated
  <2>3. \A i \in 1 .. MaxSettlement :
          a[i] \in Int /\ b[i] \in Int /\ (i # s => b[i] = a[i])
    BY <1>1, <2>1 DEF SettlementIds
  <2>4. b[s] = a[s] + d
    BY <1>1, <2>1
  <2> HIDE DEF a, b
  <2>5. Total(b, MaxSettlement) = Total(a, MaxSettlement) + d
    BY <1>0, <2>3, <2>4, TotalOneMore
  <2>6. /\ Allocated(st, al, f, p) \in Nat /\ Allocated(st, new, f, p) \in Nat
        /\ ex[f].split.share[p] \in Nat
    BY <1>0, <1>3, RowTypes, SumsAreNatural
  <2> QED BY <2>1, <2>2, <2>5, <2>6 DEF Open
<1> QED BY <1>2, <1>3

(* From al to new, take of payment s goes to the share of e: the first     *)
(* pair still open, and one of its sides is exhausted.                     *)
RowWritten(ex, st, al, S, new, s, e, take) ==
  /\ <<s, e>> \in Matches(ex, st, al, S)
  /\ \A t \in S, f \in ExpenseIds : <<t, f>> \in Matches(ex, st, al, S) =>
       \/ Before(st, s, t)
       \/ t = s /\ (f = e \/ Older(ex, e, f))
  /\ take > 0
  /\ \A t \in SettlementIds, f \in ExpenseIds :
       new[t][f] = IF t = s /\ f = e THEN take ELSE al[t][f]
  /\ al[s][e] = 0
  /\ \/ take = Remaining(st, al, s)
     \/ take = Open(ex, st, al, e, st[s].pay.debtor)

(* One row of _consume_fifo is written that way. *)
LEMMA RowOfConsume ==
  ASSUME NEW ex, NEW st, NEW al, Tables(ex, st, al), Sound(ex, st, al),
         NEW S \in SUBSET SettlementIds, Matches(ex, st, al, S) # {},
         WrittenFirst(ex, st, al, S),
         NEW new, new = ConsumeOne(ex, st, al, S)
  PROVE  \E s \in S, e \in ExpenseIds, take \in Nat :
           RowWritten(ex, st, al, S, new, s, e, take)
<1> DEFINE M == Matches(ex, st, al, S)
           T == {m[1] : m \in M}
           s == FirstSettlement(st, T)
           E == {m[2] : m \in {k \in M : k[1] = s}}
           e == FirstShare(ex, E)
           take == Lesser(Remaining(st, al, s), Open(ex, st, al, e, st[s].pay.debtor))
<1>1. new = [al EXCEPT ![s][e] = take]
  BY DEF ConsumeOne
<1>2. \A m \in M : /\ m \in S \X ExpenseIds
                   /\ Owes(ex, st, m[1], m[2])
                   /\ Remaining(st, al, m[1]) > 0
                   /\ Open(ex, st, al, m[2], st[m[1]].pay.debtor) > 0
  BY DEF Matches, InScope
<1>3. /\ \A t \in S, f \in ExpenseIds : <<t, f>> \in M => t \in T
      /\ \A t \in T : \E f \in ExpenseIds : <<t, f>> \in M
      /\ T \in SUBSET SettlementIds /\ T \subseteq S /\ T # {}
  <2> HIDE DEF M
  <2>1. M # {}
    BY DEF M
  <2> QED BY <1>2, <2>1
<1>4. /\ s \in T
      /\ \A t \in T : t = s \/ Before(st, s, t)
  <2>1. \A t \in T : /\ st[t].pay.date \in Nat
                     /\ st[t].group \in {NoGroup} \cup GroupIds
    <3>1. \A t \in T : t \in SettlementIds /\ st[t] # NoRow
      <4> HIDE DEF M
      <4> QED BY <1>2 DEF Owes
    <3> HIDE DEF T
    <3> QED BY <3>1, RowTypes
  <2> HIDE DEF T
  <2> QED BY <1>3, <2>1, FirstSettlementLeast
<1> HIDE DEF s
<1>5. /\ \A f \in ExpenseIds : <<s, f>> \in M => f \in E
      /\ \A f \in E : f \in ExpenseIds /\ <<s, f>> \in M
      /\ E \in SUBSET ExpenseIds /\ E # {}
  <2>1. s \in S /\ \E f \in ExpenseIds : <<s, f>> \in M
    BY <1>3, <1>4
  <2> HIDE DEF M
  <2> QED BY <1>2, <2>1
<1>6. /\ e \in E
      /\ \A f \in E : f = e \/ Older(ex, e, f)
  <2>1. \A f \in E : ex[f].date \in Nat
    <3>1. \A f \in E : f \in ExpenseIds /\ ex[f] # NoRow
      <4> HIDE DEF M
      <4> QED BY <1>2 DEF Owes
    <3> HIDE DEF E
    <3> QED BY <3>1, RowTypes
  <2> HIDE DEF E
  <2> QED BY <1>5, <2>1, FirstShareLeast
<1> HIDE DEF e, T, E, M
<1>7. <<s, e>> \in M /\ s \in S /\ s \in SettlementIds /\ e \in ExpenseIds
  BY <1>3, <1>4, <1>5, <1>6
<1>8. Owes(ex, st, s, e) /\ Remaining(st, al, s) > 0
      /\ Open(ex, st, al, e, st[s].pay.debtor) > 0
  <2>1. <<s, e>>[1] = s /\ <<s, e>>[2] = e
    OBVIOUS
  <2> QED BY <1>2, <1>7, <2>1
<1>9. /\ Remaining(st, al, s) \in Int
      /\ Open(ex, st, al, e, st[s].pay.debtor) \in Int
  <2>1. st[s] # NoRow /\ ex[e] # NoRow
    BY <1>8 DEF Owes
  <2>2. /\ Total(al[s], MaxExpense) \in Nat
        /\ Allocated(st, al, e, st[s].pay.debtor) \in Nat
    BY <1>7, SumsAreNatural DEF Tables
  <2>3. st[s].pay.amount \in Nat /\ ex[e].split.share[st[s].pay.debtor] \in Nat
    BY <1>7, <2>1, RowTypes
  <2> QED BY <2>2, <2>3 DEF Remaining, Open
<1>10. /\ take \in Nat /\ take > 0
       /\ \/ take = Remaining(st, al, s)
          \/ take = Open(ex, st, al, e, st[s].pay.debtor)
  BY <1>8, <1>9 DEF Lesser
<1> HIDE DEF take
<1>11. \A t \in SettlementIds, f \in ExpenseIds :
         new[t][f] = IF t = s /\ f = e THEN take ELSE al[t][f]
  BY <1>1, <1>7 DEF Tables, Allocs
<1>12. al[s][e] = 0
  <2> SUFFICES ASSUME al[s][e] > 0 PROVE FALSE
    BY <1>7 DEF Tables, Allocs
  <2>1. Before(st, s, s) \/ Older(ex, e, e)
    BY <1>7 DEF WrittenFirst, M
  <2>2. st[s] # NoRow /\ ex[e] # NoRow
    BY <1>8 DEF Owes
  <2> QED BY <1>7, <2>1, <2>2, OrdersAreStrict
<1>13. \A t \in S, f \in ExpenseIds : <<t, f>> \in M =>
         \/ Before(st, s, t)
         \/ t = s /\ (f = e \/ Older(ex, e, f))
  BY <1>3, <1>4, <1>5, <1>6
<1>14. RowWritten(ex, st, al, S, new, s, e, take)
  BY <1>7, <1>10, <1>11, <1>12, <1>13 DEF M, RowWritten
<1> QED BY <1>7, <1>10, <1>14

(* A pair that is open on both sides, spelt out. *)
LEMMA MatchIs ==
  ASSUME NEW ex, NEW st, NEW al, NEW S \in SUBSET SettlementIds
  PROVE  /\ \A s \in S, e \in ExpenseIds :
              <<s, e>> \in Matches(ex, st, al, S) <=>
                /\ InScope(ex, st, s, e) /\ Remaining(st, al, s) > 0
                /\ Open(ex, st, al, e, st[s].pay.debtor) > 0
         /\ \A m \in Matches(ex, st, al, S) :
              \E s \in S, e \in ExpenseIds : m = <<s, e>>
BY DEF Matches

(* The amounts of a pair in scope are numbers, and of sound rows never     *)
(* below zero.                                                             *)
LEMMA PairTypes ==
  ASSUME NEW ex, NEW st, NEW al, Tables(ex, st, al), Sound(ex, st, al),
         NEW s \in SettlementIds, NEW e \in ExpenseIds, Owes(ex, st, s, e)
  PROVE  /\ st[s] # NoRow /\ ex[e] # NoRow /\ st[s].pay.debtor \in Identities
         /\ Remaining(st, al, s) \in Int /\ Remaining(st, al, s) >= 0
         /\ Open(ex, st, al, e, st[s].pay.debtor) \in Int
         /\ Open(ex, st, al, e, st[s].pay.debtor) >= 0
<1>1. st[s] # NoRow /\ ex[e] # NoRow
  BY DEF Owes
<1>2. /\ Total(al[s], MaxExpense) \in Nat
      /\ Allocated(st, al, e, st[s].pay.debtor) \in Nat
  BY SumsAreNatural DEF Tables
<1>3. /\ st[s].pay.amount \in Nat /\ st[s].pay.debtor \in Identities
      /\ ex[e].split.share[st[s].pay.debtor] \in Nat
  BY <1>1, RowTypes
<1>4. Remaining(st, al, s) >= 0 /\ Open(ex, st, al, e, st[s].pay.debtor) >= 0
  BY <1>1, <1>3 DEF Sound, NotOverSpent, NotOverSettled
<1> QED BY <1>1, <1>2, <1>3, <1>4 DEF Remaining, Open

(* A row of _consume_fifo keeps the order of the rows, closes a pair and   *)
(* opens none.                                                             *)
LEMMA RowKeepsOrder ==
  ASSUME NEW ex, NEW st, NEW al, Tables(ex, st, al), Sound(ex, st, al),
         NEW S \in SUBSET SettlementIds, Matches(ex, st, al, S) # {},
         Filled(ex, st, al, S),
         NEW new, new = ConsumeOne(ex, st, al, S)
  PROVE  /\ Filled(ex, st, new, S)
         /\ \E m \in Matches(ex, st, al, S) :
              Matches(ex, st, new, S) \subseteq Matches(ex, st, al, S) \ {m}
         /\ \A t \in SettlementIds, f \in ExpenseIds :
              /\ new[t][f] >= al[t][f]
              /\ t \notin S => new[t][f] = al[t][f]
<1> DEFINE debtor(t) == st[t].pay.debtor
<1>1. new \in Allocs /\ Sound(ex, st, new) /\ Tables(ex, st, new)
  BY ConsumeOneSound DEF Tables
<1>2. PICK s \in S, e \in ExpenseIds, take \in Nat :
        /\ <<s, e>> \in Matches(ex, st, al, S)
        /\ \A t \in S, f \in ExpenseIds : <<t, f>> \in Matches(ex, st, al, S) =>
             \/ Before(st, s, t)
             \/ t = s /\ (f = e \/ Older(ex, e, f))
        /\ take > 0
        /\ \A t \in SettlementIds, f \in ExpenseIds :
             new[t][f] = IF t = s /\ f = e THEN take ELSE al[t][f]
        /\ al[s][e] = 0
        /\ \/ take = Remaining(st, al, s)
           \/ take = Open(ex, st, al, e, debtor(s))
  <2>1. WrittenFirst(ex, st, al, S)
    BY DEF Filled
  <2>2. \E s \in S, e \in ExpenseIds, take \in Nat :
          RowWritten(ex, st, al, S, new, s, e, take)
    BY <2>1, RowOfConsume
  <2> QED BY <2>2 DEF RowWritten, debtor
<1>3. /\ InScope(ex, st, s, e) /\ Owes(ex, st, s, e)
      /\ Remaining(st, al, s) > 0 /\ Open(ex, st, al, e, debtor(s)) > 0
      /\ st[s] # NoRow /\ ex[e] # NoRow /\ debtor(s) \in Identities
  <2>1. /\ InScope(ex, st, s, e)
        /\ Remaining(st, al, s) > 0 /\ Open(ex, st, al, e, debtor(s)) > 0
    BY <1>2, MatchIs
  <2>2. Owes(ex, st, s, e)
    BY <2>1 DEF InScope
  <2> QED BY <2>1, <2>2, PairTypes
<1>4. /\ \A t \in SettlementIds : st[t] # NoRow =>
           /\ Remaining(st, al, t) \in Int /\ Remaining(st, new, t) \in Int
           /\ Remaining(st, new, t)
                = Remaining(st, al, t) - (IF t = s THEN take ELSE 0)
      /\ \A f \in ExpenseIds, p \in Identities : ex[f] # NoRow =>
           /\ Open(ex, st, al, f, p) \in Int /\ Open(ex, st, new, f, p) \in Int
           /\ Open(ex, st, new, f, p)
                = Open(ex, st, al, f, p)
                    - (IF f = e /\ p = debtor(s) THEN take ELSE 0)
  BY <1>1, <1>2, <1>3, RowTakes
<1>5. \A t \in SettlementIds, f \in ExpenseIds : Owes(ex, st, t, f) =>
        /\ st[t] # NoRow /\ ex[f] # NoRow /\ debtor(t) \in Identities
        /\ Remaining(st, new, t) <= Remaining(st, al, t)
        /\ Open(ex, st, new, f, debtor(t)) <= Open(ex, st, al, f, debtor(t))
        /\ Open(ex, st, new, f, debtor(t)) >= 0
        /\ Open(ex, st, al, f, debtor(t)) >= 0
        /\ Remaining(st, new, t) \in Int /\ Remaining(st, al, t) \in Int
        /\ Open(ex, st, new, f, debtor(t)) \in Int
        /\ Open(ex, st, al, f, debtor(t)) \in Int
  <2> SUFFICES ASSUME NEW t \in SettlementIds, NEW f \in ExpenseIds,
                      Owes(ex, st, t, f)
               PROVE  /\ st[t] # NoRow /\ ex[f] # NoRow /\ debtor(t) \in Identities
                      /\ Remaining(st, new, t) <= Remaining(st, al, t)
                      /\ Open(ex, st, new, f, debtor(t))
                           <= Open(ex, st, al, f, debtor(t))
                      /\ Open(ex, st, new, f, debtor(t)) >= 0
                      /\ Open(ex, st, al, f, debtor(t)) >= 0
                      /\ Remaining(st, new, t) \in Int /\ Remaining(st, al, t) \in Int
                      /\ Open(ex, st, new, f, debtor(t)) \in Int
                      /\ Open(ex, st, al, f, debtor(t)) \in Int
    OBVIOUS
  <2>1. /\ st[t] # NoRow /\ ex[f] # NoRow /\ debtor(t) \in Identities
        /\ Open(ex, st, al, f, debtor(t)) >= 0
    BY PairTypes
  <2>2. Open(ex, st, new, f, debtor(t)) >= 0
    BY <1>1, PairTypes
  <2> HIDE DEF debtor
  <2>3. /\ Remaining(st, al, t) \in Int /\ Remaining(st, new, t) \in Int
        /\ Remaining(st, new, t) <= Remaining(st, al, t)
    BY <1>4, <2>1
  <2>4. /\ Open(ex, st, al, f, debtor(t)) \in Int
        /\ Open(ex, st, new, f, debtor(t)) \in Int
        /\ Open(ex, st, new, f, debtor(t)) <= Open(ex, st, al, f, debtor(t))
    BY <1>4, <2>1
  <2> QED BY <2>1, <2>2, <2>3, <2>4
<1>6. <<s, e>> \notin Matches(ex, st, new, S)
  <2>1. Remaining(st, new, s) = Remaining(st, al, s) - take
    BY <1>3, <1>4
  <2>2. Open(ex, st, new, e, debtor(s)) = Open(ex, st, al, e, debtor(s)) - take
    BY <1>3, <1>4
  <2>3. Remaining(st, new, s) = 0 \/ Open(ex, st, new, e, debtor(s)) = 0
    <3> HIDE DEF debtor
    <3> QED BY <1>2, <1>3, <1>5, <2>1, <2>2
  <2> QED BY <1>2, <2>3, MatchIs
<1>7. \A t \in S, f \in ExpenseIds :
        <<t, f>> \in Matches(ex, st, new, S) => <<t, f>> \in Matches(ex, st, al, S)
  <2> SUFFICES ASSUME NEW t \in S, NEW f \in ExpenseIds,
                      <<t, f>> \in Matches(ex, st, new, S)
               PROVE  <<t, f>> \in Matches(ex, st, al, S)
    OBVIOUS
  <2>1. /\ InScope(ex, st, t, f) /\ Remaining(st, new, t) > 0
        /\ Open(ex, st, new, f, debtor(t)) > 0
    BY MatchIs
  <2>2. Remaining(st, al, t) > 0 /\ Open(ex, st, al, f, debtor(t)) > 0
    <3> HIDE DEF debtor
    <3> QED BY <1>5, <2>1 DEF InScope
  <2> QED BY <2>1, <2>2, MatchIs
<1>8. Matches(ex, st, new, S) \subseteq Matches(ex, st, al, S) \ {<<s, e>>}
  <2> SUFFICES ASSUME NEW m \in Matches(ex, st, new, S)
               PROVE  m \in Matches(ex, st, al, S) /\ m # <<s, e>>
    OBVIOUS
  <2>1. PICK t \in S, f \in ExpenseIds : m = <<t, f>>
    BY MatchIs
  <2> QED BY <1>6, <1>7, <2>1
<1>9. WrittenFirst(ex, st, new, S)
  <2> SUFFICES ASSUME NEW t \in S, NEW f \in ExpenseIds, new[t][f] > 0,
                      NEW r \in S, NEW g \in ExpenseIds,
                      <<r, g>> \in Matches(ex, st, new, S)
               PROVE  Before(st, t, r) \/ (r = t /\ Older(ex, f, g))
    BY DEF WrittenFirst
  <2>1. <<r, g>> \in Matches(ex, st, al, S) /\ ~ (r = s /\ g = e)
    BY <1>6, <1>7
  <2>2. CASE t = s /\ f = e
    BY <1>2, <2>1, <2>2
  <2>3. CASE ~ (t = s /\ f = e)
    <3>1. al[t][f] > 0
      BY <1>2, <2>3
    <3> QED BY <2>1, <3>1 DEF Filled, WrittenFirst
  <2> QED BY <2>2, <2>3
<1>10. SharesInOrder(ex, st, new, S)
  <2> SUFFICES ASSUME NEW t \in S, NEW f \in ExpenseIds, new[t][f] > 0,
                      NEW g \in ExpenseIds, InScope(ex, st, t, g), Older(ex, g, f)
               PROVE  Open(ex, st, new, g, debtor(t)) = 0
    BY DEF SharesInOrder
  <2>1. /\ Open(ex, st, new, g, debtor(t)) <= Open(ex, st, al, g, debtor(t))
        /\ Open(ex, st, new, g, debtor(t)) >= 0 /\ ex[g] # NoRow
        /\ Open(ex, st, new, g, debtor(t)) \in Int
        /\ Open(ex, st, al, g, debtor(t)) >= 0
        /\ Open(ex, st, al, g, debtor(t)) \in Int
    BY <1>5 DEF InScope
  <2>2. Open(ex, st, al, g, debtor(t)) = 0
    <3>1. CASE t = s /\ f = e
      <4> SUFFICES ASSUME Open(ex, st, al, g, debtor(t)) > 0 PROVE FALSE
        BY <2>1
      <4>1. <<s, g>> \in Matches(ex, st, al, S)
        BY <1>3, <3>1, MatchIs
      <4>2. g = e \/ Older(ex, e, g)
        BY <1>2, <1>3, <4>1, OrdersAreStrict
      <4> QED BY <1>3, <2>1, <3>1, <4>2, OrdersAreStrict
    <3>2. CASE ~ (t = s /\ f = e)
      <4>1. al[t][f] > 0
        BY <1>2, <3>2
      <4> QED BY <4>1 DEF Filled, SharesInOrder
    <3> QED BY <3>1, <3>2
  <2> HIDE DEF debtor
  <2> QED BY <2>1, <2>2
<1>11. SettlementsInOrder(ex, st, new, S)
  <2> SUFFICES ASSUME NEW t1 \in S, NEW t2 \in S, NEW g \in ExpenseIds,
                      Before(st, t1, t2), debtor(t1) = debtor(t2),
                      InScope(ex, st, t1, g), new[t2][g] > 0
               PROVE  /\ Remaining(st, new, t1) = 0
                      /\ \A f \in ExpenseIds : Older(ex, g, f) => new[t1][f] = 0
    BY DEF SettlementsInOrder
  <2>1. /\ st[t1] # NoRow /\ st[t2] # NoRow /\ ex[g] # NoRow
        /\ Owes(ex, st, t1, g)
    <3>1. Owes(ex, st, t1, g) /\ Owes(ex, st, t2, g)
      BY <1>1 DEF InScope, Sound, FollowDebts
    <3> QED BY <3>1 DEF Owes
  <2>2. t1 # t2 /\ ~ Before(st, t2, t1)
    BY <2>1, OrdersAreStrict
  <2>3. /\ Remaining(st, new, t1) \in Int /\ Remaining(st, al, t1) \in Int
        /\ Remaining(st, new, t1) >= 0 /\ Remaining(st, al, t1) >= 0
        /\ Remaining(st, new, t1) <= Remaining(st, al, t1)
    BY <1>1, <1>5, <2>1, PairTypes
  <2>4. CASE t2 = s /\ g = e
    <3>1. Remaining(st, al, t1) = 0
      <4> SUFFICES ASSUME Remaining(st, al, t1) > 0 PROVE FALSE
        BY <2>3
      <4>1. Open(ex, st, al, g, debtor(t1)) > 0
        BY <1>3, <2>4
      <4>2. <<t1, g>> \in Matches(ex, st, al, S)
        BY <4>1, MatchIs
      <4> QED BY <1>2, <2>2, <2>4, <4>2
    <3>2. ASSUME NEW f \in ExpenseIds, Older(ex, g, f), new[t1][f] > 0
          PROVE  FALSE
      <4>1. al[t1][f] > 0
        BY <1>2, <2>2, <2>4, <3>2
      <4>2. Open(ex, st, al, g, debtor(t1)) = 0
        BY <3>2, <4>1 DEF Filled, SharesInOrder
      <4>3. Open(ex, st, al, e, debtor(s)) = 0
        BY <2>4, <4>2
      <4> HIDE DEF debtor
      <4> QED BY <1>3, <4>3
    <3>3. \A f \in ExpenseIds : new[t1][f] \in Nat
      BY <1>1 DEF Allocs
    <3> QED BY <2>3, <3>1, <3>2, <3>3
  <2>5. CASE ~ (t2 = s /\ g = e)
    <3>1. al[t2][g] > 0
      BY <1>2, <2>5
    <3>2. /\ Remaining(st, al, t1) = 0
          /\ \A f \in ExpenseIds : Older(ex, g, f) => al[t1][f] = 0
      BY <3>1 DEF Filled, SettlementsInOrder
    <3>3. t1 # s
      BY <1>3, <3>2
    <3> QED BY <1>2, <2>3, <3>2, <3>3
  <2> QED BY <2>4, <2>5
<1>12. \A t \in SettlementIds, f \in ExpenseIds :
         /\ new[t][f] >= al[t][f]
         /\ t \notin S => new[t][f] = al[t][f]
  <2>1. \A t \in SettlementIds, f \in ExpenseIds : al[t][f] \in Nat
    BY DEF Tables, Allocs
  <2> QED BY <1>2, <2>1
<1>13. RowsInScope(ex, st, new, S)
  BY <1>2, <1>3 DEF Filled, RowsInScope
<1> QED BY <1>2, <1>8, <1>9, <1>10, <1>11, <1>12, <1>13 DEF Filled

(* The pairs of settlement and share are at most as many as the rows that  *)
(* _consume_fifo may write.                                                *)
LEMMA MatchesAreFew ==
  ASSUME NEW ex, NEW st, NEW al, NEW S \in SUBSET SettlementIds
  PROVE  /\ IsFiniteSet(Matches(ex, st, al, S))
         /\ Cardinality(Matches(ex, st, al, S)) \in Nat
         /\ Cardinality(Matches(ex, st, al, S)) <= MaxSettlement * MaxExpense
         /\ Cardinality(Matches(ex, st, al, S)) = 0 <=> Matches(ex, st, al, S) = {}
<1> DEFINE M == Matches(ex, st, al, S)
           D == SettlementIds \X ExpenseIds
<1>1. M \in SUBSET D
  BY DEF Matches
<1>2. /\ IsFiniteSet(SettlementIds) /\ Cardinality(SettlementIds) = MaxSettlement
      /\ IsFiniteSet(ExpenseIds) /\ Cardinality(ExpenseIds) = MaxExpense
  <2>1. MaxSettlement \in Nat /\ MaxExpense \in Nat /\ 1 \in Int
    BY LedgerAssumption
  <2>2. /\ IsFiniteSet(1 .. MaxSettlement) /\ IsFiniteSet(1 .. MaxExpense)
        /\ Cardinality(1 .. MaxSettlement)
             = IF 1 > MaxSettlement THEN 0 ELSE MaxSettlement - 1 + 1
        /\ Cardinality(1 .. MaxExpense)
             = IF 1 > MaxExpense THEN 0 ELSE MaxExpense - 1 + 1
    BY <2>1, FS_Interval
  <2> QED BY <2>1, <2>2 DEF SettlementIds, ExpenseIds
<1>3. IsFiniteSet(D) /\ Cardinality(D) = MaxSettlement * MaxExpense
  BY <1>2, FS_Product
<1> HIDE DEF M, D
<1>4. IsFiniteSet(M) /\ Cardinality(M) <= Cardinality(D)
  BY <1>1, <1>3, FS_Subset
<1>5. Cardinality(M) \in Nat /\ (Cardinality(M) = 0 <=> M = {})
  BY <1>4, FS_CardinalityType, FS_EmptySet
<1> QED BY <1>3, <1>4, <1>5 DEF M

(* _consume_fifo stops only when no pair is open, in the order of its      *)
(* loops; it takes nothing back and leaves other settlements alone.        *)
LEMMA ConsumeFills ==
  ASSUME NEW ex, NEW st, NEW al, Tables(ex, st, al), Sound(ex, st, al),
         NEW S \in SUBSET SettlementIds, Filled(ex, st, al, S),
         NEW r, r = Consume(ex, st, al, S)
  PROVE  /\ r \in Allocs /\ Sound(ex, st, r)
         /\ Filled(ex, st, r, S) /\ Matches(ex, st, r, S) = {}
         /\ \A t \in SettlementIds, f \in ExpenseIds :
              /\ r[t][f] >= al[t][f]
              /\ t \notin S => r[t][f] = al[t][f]
<1> DEFINE N == MaxSettlement * MaxExpense
           C(a) == Cardinality(Matches(ex, st, a, S))
           Grown(a) == \A t \in SettlementIds, f \in ExpenseIds :
                         /\ a[t][f] >= al[t][f]
                         /\ t \notin S => a[t][f] = al[t][f]
<1>1. N \in Nat
  BY ConsumeSteps
<1>2. PICK rows :
        /\ rows[0] = al
        /\ \A i \in 1 .. N : rows[i] = ConsumeOne(ex, st, rows[i - 1], S)
        /\ \A i \in 0 .. N : rows[i] \in Allocs /\ Sound(ex, st, rows[i])
        /\ r = rows[N]
  BY ConsumeSteps
<1> DEFINE Good(i) == /\ Filled(ex, st, rows[i], S) /\ Grown(rows[i])
                      /\ Matches(ex, st, rows[i], S) = {} \/ C(rows[i]) + i <= N
           I == {i \in 0 .. N : Good(i)}
<1>3. Good(0)
  <2>1. Grown(al)
    BY DEF Tables, Allocs
  <2>2. C(al) + 0 <= N
    BY MatchesAreFew
  <2> HIDE DEF C, N, Grown
  <2> QED BY <1>2, <2>1, <2>2
<1>4. ASSUME NEW i \in 1 .. N, Good(i - 1)
      PROVE  Good(i)
  <2>1. /\ i - 1 \in 0 .. N /\ i \in 0 .. N
        /\ rows[i] = ConsumeOne(ex, st, rows[i - 1], S)
    BY <1>1, <1>2
  <2>2. PICK a, b : a = rows[i - 1] /\ b = rows[i]
    OBVIOUS
  <2>3. /\ Tables(ex, st, a) /\ Sound(ex, st, a) /\ b \in Allocs
        /\ b = ConsumeOne(ex, st, a, S) /\ Filled(ex, st, a, S) /\ Grown(a)
        /\ Matches(ex, st, a, S) = {} \/ C(a) + (i - 1) <= N
    <3>1. a \in Allocs /\ b \in Allocs /\ Sound(ex, st, a)
      BY <1>2, <2>1, <2>2
    <3> HIDE DEF C, N, Grown
    <3> QED BY <1>4, <2>1, <2>2, <3>1 DEF Tables
  <2>4. CASE Matches(ex, st, a, S) = {}
    <3>1. b = a
      BY <2>3, <2>4 DEF ConsumeOne
    <3> HIDE DEF C, N, Grown
    <3> QED BY <2>2, <2>3, <2>4, <3>1
  <2>5. CASE Matches(ex, st, a, S) # {}
    <3>1. /\ Filled(ex, st, b, S)
          /\ \E m \in Matches(ex, st, a, S) :
               Matches(ex, st, b, S) \subseteq Matches(ex, st, a, S) \ {m}
          /\ \A t \in SettlementIds, f \in ExpenseIds :
               /\ b[t][f] >= a[t][f]
               /\ t \notin S => b[t][f] = a[t][f]
      BY <2>3, <2>5, RowKeepsOrder
    <3>2. Grown(b)
      <4>1. \A t \in SettlementIds, f \in ExpenseIds :
              al[t][f] \in Nat /\ a[t][f] \in Nat /\ b[t][f] \in Nat
        BY <2>3 DEF Tables, Allocs
      <4> QED BY <2>3, <3>1, <4>1
    <3>3. C(b) + 1 <= C(a)
      <4>1. PICK m \in Matches(ex, st, a, S) :
              Matches(ex, st, b, S) \subseteq Matches(ex, st, a, S) \ {m}
        BY <3>1
      <4>2. PICK A, B, D : /\ A = Matches(ex, st, a, S)
                           /\ B = Matches(ex, st, b, S) /\ D = A \ {m}
        OBVIOUS
      <4>3. IsFiniteSet(A) /\ Cardinality(A) \in Nat /\ Cardinality(B) \in Nat
        BY <4>2, MatchesAreFew
      <4>4. IsFiniteSet(D) /\ Cardinality(D) = Cardinality(A) - 1
        BY <4>1, <4>2, <4>3, FS_RemoveElement
      <4>5. Cardinality(B) <= Cardinality(D)
        <5>1. B \in SUBSET D
          BY <4>1, <4>2
        <5> QED BY <4>4, <5>1, FS_Subset
      <4>6. Cardinality(B) + 1 <= Cardinality(A)
        BY <4>3, <4>4, <4>5
      <4> QED BY <4>2, <4>6
    <3>4. C(b) + i <= N
      <4>1. C(a) \in Nat /\ C(b) \in Nat
        BY MatchesAreFew
      <4> HIDE DEF C, N
      <4>2. C(a) + (i - 1) <= N
        BY <2>3, <2>5
      <4>3. i \in Int /\ N \in Nat
        BY <1>1
      <4> QED BY <3>3, <4>1, <4>2, <4>3
    <3> HIDE DEF C, N, Grown
    <3> QED BY <2>2, <3>1, <3>2, <3>4
  <2> QED BY <2>4, <2>5
<1> HIDE DEF Good, N
<1>5. Good(N)
  <2>1. 0 \in I /\ N \in 0 .. N
    BY <1>1, <1>3
  <2>2. \A i \in 1 .. N : i - 1 \in I => i \in I
    BY <1>1, <1>4
  <2> HIDE DEF I
  <2>3. N \in I
    BY <1>1, <2>1, <2>2, UpTo
  <2> QED BY <2>3 DEF I
<1>6. r \in Allocs /\ Sound(ex, st, r)
  BY <1>1, <1>2
<1>7. Filled(ex, st, r, S) /\ Grown(r)
  <2> HIDE DEF Grown
  <2> QED BY <1>2, <1>5 DEF Good
<1>8. Matches(ex, st, r, S) = {}
  <2> SUFFICES ASSUME C(r) + N <= N
               PROVE  Matches(ex, st, r, S) = {}
    <3> HIDE DEF C
    <3> QED BY <1>2, <1>5 DEF Good
  <2>1. C(r) \in Nat /\ (C(r) = 0 => Matches(ex, st, r, S) = {})
    BY MatchesAreFew
  <2> HIDE DEF C
  <2> QED BY <1>1, <2>1
<1> QED BY <1>6, <1>7, <1>8

(* Settlements without rows are where every rebuild starts.                *)
LEMMA NothingWritten ==
  ASSUME NEW ex, NEW st, NEW al, NEW S \in SUBSET SettlementIds,
         \A s \in S, e \in ExpenseIds : al[s][e] = 0
  PROVE  Filled(ex, st, al, S)
<1>1. \A s \in S, e \in ExpenseIds : ~ (al[s][e] > 0)
  OBVIOUS
<1> QED BY <1>1 DEF Filled, SharesInOrder, SettlementsInOrder, RowsInScope,
                     WrittenFirst

(* After a rebuild of the pairs P their settlements have the rows that     *)
(* _consume_fifo writes from nothing; all other rows are as before.        *)
LEMMA RebuildFills ==
  ASSUME NEW ex, NEW st, NEW al, Tables(ex, st, al), Sound(ex, st, al), NEW P,
         NEW r, r = Rebuild(ex, st, al, P)
  PROVE  /\ r \in Allocs /\ Sound(ex, st, r)
         /\ Filled(ex, st, r, OfPairs(st, P))
         /\ Matches(ex, st, r, OfPairs(st, P)) = {}
         /\ \A t \in SettlementIds \ OfPairs(st, P), f \in ExpenseIds :
              r[t][f] = al[t][f]
<1>1. PICK S \in SUBSET SettlementIds : S = OfPairs(st, P)
  BY DEF OfPairs
<1>2. PICK b : b = Cascade(al, S, {})
  OBVIOUS
<1>3. r = Consume(ex, st, b, S)
  BY <1>1, <1>2 DEF Rebuild
<1>4. \A s \in SettlementIds, e \in ExpenseIds :
        /\ al[s][e] \in Nat /\ b[s][e] <= al[s][e]
        /\ b[s][e] = IF s \in S THEN 0 ELSE al[s][e]
  BY <1>2 DEF Cascade, Tables, Allocs
<1>5. Tables(ex, st, b)
  BY <1>2, <1>4 DEF Cascade, Tables, Allocs
<1>6. Sound(ex, st, b)
  <2>1. \A e \in ExpenseIds :
          \/ ex[e] # NoRow
          \/ \A s \in SettlementIds : b[s][e] = 0
    <3>1. \A e \in ExpenseIds, s \in SettlementIds :
            ex[e] = NoRow => ~ (al[s][e] > 0)
      BY DEF Sound, FollowDebts, Owes
    <3> QED BY <1>4, <3>1
  <2> QED BY <1>4, <1>5, <2>1, FewerRows
<1>7. Filled(ex, st, b, S)
  BY <1>4, NothingWritten
<1>8. /\ r \in Allocs /\ Sound(ex, st, r)
      /\ Filled(ex, st, r, S) /\ Matches(ex, st, r, S) = {}
      /\ \A t \in SettlementIds, f \in ExpenseIds :
           t \notin S => r[t][f] = b[t][f]
  BY <1>3, <1>5, <1>6, <1>7, ConsumeFills
<1> QED BY <1>1, <1>4, <1>8

-----------------------------------------------------------------------------
(* What a rebuild leaves behind: no pair open, rows in the order of the    *)
(* loops.                                                                  *)
Complete(ex, st, al, S) ==
  /\ SharesInOrder(ex, st, al, S)
  /\ SettlementsInOrder(ex, st, al, S)
  /\ RowsInScope(ex, st, al, S)
  /\ Matches(ex, st, al, S) = {}

(* T are settlements between d and c. *)
OfPair(st, T, d, c) == T \subseteq OfPairs(st, {<<d, c>>})

(* What is complete for some settlements is complete for fewer of them.     *)
LEMMA CompleteOfFewer ==
  ASSUME NEW ex, NEW st, NEW al, NEW S \in SUBSET SettlementIds,
         Filled(ex, st, al, S), Matches(ex, st, al, S) = {},
         NEW T \in SUBSET S
  PROVE  Complete(ex, st, al, T)
<1>1. Matches(ex, st, al, T) = {}
  BY DEF Matches
<1> QED BY <1>1 DEF Filled, Complete, SharesInOrder, SettlementsInOrder, RowsInScope

(* Two allocations agree on the rows of all other settlements. *)
AgreeOutside(a, b, T) ==
  \A t \in SettlementIds \ T, e \in ExpenseIds : a[t][e] = b[t][e]

(* Two allocations agree on the other settlements between d and c. *)
AgreeBeside(st, a, b, T, d, c) ==
  \A t \in OfPairs(st, {<<d, c>>}) \ T, e \in ExpenseIds : a[t][e] = b[t][e]

(* Two allocations agree on the rows that the loops write before a row.    *)
AgreeBefore(ex, st, a, b, T, s, e) ==
  /\ \A t \in T : Before(st, t, s) => \A f \in ExpenseIds : a[t][f] = b[t][f]
  /\ \A f \in ExpenseIds : Older(ex, f, e) => a[s][f] = b[s][f]

(* Of two complete allocations of a pair of people neither is lower at the *)
(* first place where they differ.                                          *)
LEMMA NotLowerFirst ==
  ASSUME NEW ex, NEW st, NEW a, NEW b, NEW d, NEW c,
         NEW T, OfPair(st, T, d, c),
         Tables(ex, st, a), Sound(ex, st, a), Complete(ex, st, a, T),
         Tables(ex, st, b), Sound(ex, st, b), Complete(ex, st, b, T),
         AgreeBeside(st, a, b, T, d, c),
         NEW s \in T, NEW e \in ExpenseIds, a[s][e] < b[s][e],
         AgreeBefore(ex, st, a, b, T, s, e)
  PROVE  FALSE
<1>1. /\ T \in SUBSET SettlementIds /\ s \in SettlementIds
      /\ \A t \in SettlementIds :
           t \in T => st[t] # NoRow /\ st[t].pay.debtor = d /\ st[t].pay.creditor = c
  BY DEF OfPair, OfPairs
<1>2. \A t \in SettlementIds, f \in ExpenseIds : a[t][f] \in Nat /\ b[t][f] \in Nat
  BY DEF Tables, Allocs
<1>3. InScope(ex, st, s, e) /\ Owes(ex, st, s, e)
  <2>1. b[s][e] > 0
    BY <1>1, <1>2
  <2> QED BY <1>1, <2>1 DEF Complete, RowsInScope, InScope
<1>4. /\ st[s] # NoRow /\ ex[e] # NoRow /\ st[s].pay.debtor = d
      /\ ex[e].split.payer = c /\ d \in Identities
      /\ Remaining(st, a, s) \in Int /\ Remaining(st, a, s) >= 0
      /\ Remaining(st, b, s) \in Int /\ Remaining(st, b, s) >= 0
      /\ Open(ex, st, a, e, d) \in Int /\ Open(ex, st, a, e, d) >= 0
      /\ Open(ex, st, b, e, d) \in Int /\ Open(ex, st, b, e, d) >= 0
  <2>1. st[s].pay.debtor = d /\ st[s].pay.creditor = c /\ ex[e].split.payer = c
    BY <1>1, <1>3 DEF Owes
  <2> QED BY <1>1, <1>3, <2>1, PairTypes
(* Money of s that a does not spend on e goes to a younger share. *)
<1>5. ASSUME Remaining(st, a, s) = 0
      PROVE  \E f \in ExpenseIds : a[s][f] > 0 /\ Older(ex, e, f)
  <2>1. PICK g, h : g = a[s] /\ h = b[s]
    OBVIOUS
  <2>2. /\ \A i \in 1 .. MaxExpense : g[i] \in Int /\ h[i] \in Int
        /\ e \in 1 .. MaxExpense /\ g[e] < h[e] /\ MaxExpense \in Nat
    BY <1>1, <1>2, <2>1, LedgerAssumption DEF ExpenseIds
  <2>3. Total(h, MaxExpense) <= Total(g, MaxExpense)
    <3>1. /\ Total(g, MaxExpense) \in Int /\ Total(h, MaxExpense) \in Int
      BY <2>2, TotalInteger
    <3>2. st[s].pay.amount \in Nat
      BY <1>1, <1>4, RowTypes
    <3>3. /\ st[s].pay.amount - Total(g, MaxExpense) = 0
          /\ st[s].pay.amount - Total(h, MaxExpense) >= 0
      BY <1>4, <1>5, <2>1 DEF Remaining
    <3> QED BY <3>1, <3>2, <3>3
  <2>4. PICK f \in 1 .. MaxExpense : h[f] < g[f]
    BY <2>2, <2>3, TotalHigherElsewhere
  <2>5. f \in ExpenseIds /\ a[s][f] > b[s][f] /\ a[s][f] > 0
    <3>1. f \in ExpenseIds /\ b[s][f] < a[s][f]
      BY <2>1, <2>4 DEF ExpenseIds
    <3> QED BY <1>1, <1>2, <3>1
  <2>6. ex[f] # NoRow
    BY <1>1, <2>5 DEF Sound, FollowDebts, Owes
  <2>7. f # e /\ ~ Older(ex, f, e)
    <3>1. a[s][f] \in Nat /\ b[s][f] \in Nat /\ a[s][e] \in Nat /\ b[s][e] \in Nat
      BY <1>1, <1>2, <2>5
    <3>2. a[s][f] # b[s][f]
      BY <2>5, <3>1
    <3> QED BY <2>5, <3>1, <3>2 DEF AgreeBefore
  <2>8. /\ ex[f].date \in Nat /\ ex[e].date \in Nat /\ e \in Nat /\ f \in Nat
    BY <1>4, <2>5, <2>6, RowTypes DEF ExpenseIds
  <2> QED BY <2>5, <2>7, <2>8 DEF Older
<1>6. Open(ex, st, a, e, d) = 0
  <2>1. Remaining(st, a, s) = 0 \/ Open(ex, st, a, e, d) = 0
    <3>1. <<s, e>> \notin Matches(ex, st, a, T)
      BY DEF Complete
    <3>2. ~ (/\ Remaining(st, a, s) > 0
             /\ Open(ex, st, a, e, st[s].pay.debtor) > 0)
      BY <1>1, <1>3, <3>1, MatchIs
    <3> QED BY <1>4, <3>2
  <2>2. CASE Remaining(st, a, s) = 0
    BY <1>3, <1>4, <1>5, <2>2 DEF Complete, SharesInOrder
  <2> QED BY <2>1, <2>2
(* What a does not take from s for the share a later payment pays. *)
<1>7. \E t \in T : Before(st, s, t) /\ a[t][e] > 0
  <2> DEFINE g == [t \in SettlementIds |->
                     IF st[t] # NoRow /\ st[t].pay.debtor = d THEN a[t][e] ELSE 0]
             h == [t \in SettlementIds |->
                     IF st[t] # NoRow /\ st[t].pay.debtor = d THEN b[t][e] ELSE 0]
  <2>1. /\ Allocated(st, a, e, d) = Total(g, MaxSettlement)
        /\ Allocated(st, b, e, d) = Total(h, MaxSettlement)
    BY DEF Allocated
  <2>2. /\ \A i \in 1 .. MaxSettlement : g[i] \in Int /\ h[i] \in Int
        /\ s \in 1 .. MaxSettlement /\ g[s] < h[s] /\ MaxSettlement \in Nat
    BY <1>1, <1>2, <1>4, LedgerAssumption DEF SettlementIds
  <2>3. \A t \in SettlementIds :
          h[t] < g[t] => /\ st[t] # NoRow /\ st[t].pay.debtor = d
                         /\ b[t][e] < a[t][e]
    BY <1>2
  <2> HIDE DEF g, h
  <2>4. Total(h, MaxSettlement) <= Total(g, MaxSettlement)
    <3>1. Total(g, MaxSettlement) \in Int /\ Total(h, MaxSettlement) \in Int
      BY <2>2, TotalInteger
    <3>2. ex[e].split.share[d] \in Nat
      BY <1>4, RowTypes
    <3>3. /\ ex[e].split.share[d] - Total(g, MaxSettlement) = 0
          /\ ex[e].split.share[d] - Total(h, MaxSettlement) >= 0
      BY <1>4, <1>6, <2>1 DEF Open
    <3> QED BY <3>1, <3>2, <3>3
  <2>5. PICK t \in 1 .. MaxSettlement : h[t] < g[t]
    BY <2>2, <2>4, TotalHigherElsewhere
  <2>6. /\ t \in SettlementIds /\ st[t] # NoRow /\ st[t].pay.debtor = d
        /\ b[t][e] < a[t][e] /\ a[t][e] > 0
    <3>1. /\ t \in SettlementIds /\ st[t] # NoRow /\ st[t].pay.debtor = d
          /\ b[t][e] < a[t][e]
      BY <2>3, <2>5 DEF SettlementIds
    <3> QED BY <1>2, <3>1
  <2>7. t \in T
    <3>1. st[t].pay.creditor = c
      BY <1>4, <2>6 DEF Sound, FollowDebts, Owes
    <3>2. t \in OfPairs(st, {<<d, c>>})
      BY <2>6, <3>1 DEF OfPairs
    <3>3. a[t][e] \in Nat /\ b[t][e] \in Nat /\ b[t][e] < a[t][e]
      BY <1>2, <2>6
    <3>4. a[t][e] # b[t][e]
      BY <3>3
    <3> QED BY <3>2, <3>4 DEF AgreeBeside
  <2>8. t # s /\ ~ Before(st, t, s)
    <3>1. a[t][e] \in Nat /\ b[t][e] \in Nat /\ a[s][e] \in Nat /\ b[s][e] \in Nat
      BY <1>1, <1>2, <2>6
    <3>2. a[t][e] # b[t][e]
      BY <2>6, <3>1
    <3>3. t # s
      BY <2>6, <3>1
    <3> QED BY <2>7, <3>2, <3>3 DEF AgreeBefore
  <2>9. /\ PassOf(st, s) \in Nat /\ PassOf(st, t) \in Nat
        /\ st[s].pay.date \in Nat /\ st[t].pay.date \in Nat /\ s \in Nat /\ t \in Nat
    BY <1>1, <1>4, <2>6, RowTypes, LedgerAssumption
       DEF PassOf, GroupIds, SettlementIds, NoGroup
  <2> QED BY <2>6, <2>7, <2>8, <2>9 DEF Before
<1>8. PICK t \in T : Before(st, s, t) /\ a[t][e] > 0
  BY <1>7
<1>9. /\ Remaining(st, a, s) = 0
      /\ \A f \in ExpenseIds : Older(ex, e, f) => a[s][f] = 0
  <2>1. st[t].pay.debtor = d /\ st[s].pay.debtor = d
    BY <1>1, <1>8
  <2>2. SettlementsInOrder(ex, st, a, T)
    BY DEF Complete
  <2>3. /\ Before(st, s, t) /\ st[s].pay.debtor = st[t].pay.debtor
        /\ InScope(ex, st, s, e) /\ a[t][e] > 0
    BY <1>3, <1>8, <2>1
  <2> QED BY <2>2, <2>3 DEF SettlementsInOrder
<1> QED BY <1>5, <1>9

(* A complete allocation of settlements of a pair is determined by the     *)
(* tables and by the rows of the other settlements of the pair.            *)
LEMMA FilledAgree ==
  ASSUME NEW ex, NEW st, NEW a, NEW b, NEW d, NEW c,
         NEW T, OfPair(st, T, d, c),
         Tables(ex, st, a), Sound(ex, st, a), Complete(ex, st, a, T),
         Tables(ex, st, b), Sound(ex, st, b), Complete(ex, st, b, T),
         AgreeBeside(st, a, b, T, d, c)
  PROVE  \A t \in T, f \in ExpenseIds : a[t][f] = b[t][f]
<1>1. T \in SUBSET SettlementIds
  BY DEF OfPair, OfPairs
<1>2. \A t \in SettlementIds, f \in ExpenseIds : a[t][f] \in Nat /\ b[t][f] \in Nat
  BY DEF Tables, Allocs
<1>3. \A t \in T, f \in ExpenseIds : a[t][f] = b[t][f]
  <2> DEFINE M == {m \in T \X ExpenseIds : a[m[1]][m[2]] # b[m[1]][m[2]]}
             R == {m[1] : m \in M}
             s == FirstSettlement(st, R)
             E == {m[2] : m \in {k \in M : k[1] = s}}
             e == FirstShare(ex, E)
  <2>1. \A t \in T, f \in ExpenseIds : <<t, f>> \in M <=> a[t][f] # b[t][f]
    OBVIOUS
  <2>2. \A m \in M : m \in T \X ExpenseIds
    OBVIOUS
  <2> SUFFICES ASSUME M # {} PROVE FALSE
    <3> HIDE DEF M
    <3> QED BY <2>1
  <2> HIDE DEF M
  <2>3. /\ \A t \in T, f \in ExpenseIds : <<t, f>> \in M => t \in R
        /\ \A t \in R : \E f \in ExpenseIds : <<t, f>> \in M
        /\ R \in SUBSET T /\ R # {}
    BY <2>2
  <2>4. \A t \in T, f \in ExpenseIds :
          <<t, f>> \in M => st[t] # NoRow /\ ex[f] # NoRow
    <3> SUFFICES ASSUME NEW t \in T, NEW f \in ExpenseIds, a[t][f] # b[t][f]
                 PROVE  st[t] # NoRow /\ ex[f] # NoRow
      BY <2>1
    <3>1. PICK x \in Nat, y \in Nat : x = a[t][f] /\ y = b[t][f]
      BY <1>1, <1>2
    <3>2. x # y
      BY <3>1
    <3>3. x > 0 \/ y > 0
      BY <3>2
    <3>4. a[t][f] > 0 \/ b[t][f] > 0
      BY <3>1, <3>3, Zenon
    <3> QED BY <1>1, <3>4 DEF Sound, FollowDebts, Owes
  <2>5. s \in R /\ \A t \in R : t = s \/ Before(st, s, t)
    <3>1. \A t \in R : /\ st[t].pay.date \in Nat
                       /\ st[t].group \in {NoGroup} \cup GroupIds
      <4>1. \A t \in R : t \in SettlementIds /\ st[t] # NoRow
        <5> HIDE DEF R
        <5> QED BY <1>1, <2>3, <2>4
      <4> HIDE DEF R
      <4> QED BY <4>1, RowTypes
    <3>2. R \in SUBSET SettlementIds
      BY <1>1, <2>3
    <3> HIDE DEF R
    <3> QED BY <2>3, <3>1, <3>2, FirstSettlementLeast
  <2> HIDE DEF s
  <2>6. /\ \A f \in ExpenseIds : <<s, f>> \in M => f \in E
        /\ \A f \in E : f \in ExpenseIds /\ <<s, f>> \in M
        /\ E \in SUBSET ExpenseIds /\ E # {} /\ s \in T
    <3>1. s \in T /\ \E f \in ExpenseIds : <<s, f>> \in M
      BY <2>3, <2>5
    <3> QED BY <2>2, <3>1
  <2>7. e \in E /\ \A f \in E : f = e \/ Older(ex, e, f)
    <3>1. \A f \in E : ex[f].date \in Nat
      <4>1. \A f \in E : f \in ExpenseIds /\ ex[f] # NoRow
        <5> HIDE DEF E
        <5> QED BY <2>4, <2>6
      <4> HIDE DEF E
      <4> QED BY <4>1, RowTypes
    <3> HIDE DEF E
    <3> QED BY <2>6, <3>1, FirstShareLeast
  <2> HIDE DEF e, E, R
  <2>8. /\ s \in T /\ s \in SettlementIds /\ e \in ExpenseIds /\ <<s, e>> \in M
        /\ a[s][e] # b[s][e] /\ st[s] # NoRow /\ ex[e] # NoRow
    BY <1>1, <2>1, <2>4, <2>6, <2>7
  <2>9. \A t \in T : Before(st, t, s) => \A f \in ExpenseIds : a[t][f] = b[t][f]
    <3> SUFFICES ASSUME NEW t \in T, Before(st, t, s), NEW f \in ExpenseIds,
                        a[t][f] # b[t][f]
                 PROVE  FALSE
      OBVIOUS
    <3>1. st[t] # NoRow /\ t \in SettlementIds /\ (t = s \/ Before(st, s, t))
      BY <1>1, <2>1, <2>3, <2>4, <2>5
    <3> QED BY <2>8, <3>1, OrdersAreStrict
  <2>10. \A f \in ExpenseIds : Older(ex, f, e) => a[s][f] = b[s][f]
    <3> SUFFICES ASSUME NEW f \in ExpenseIds, Older(ex, f, e), a[s][f] # b[s][f]
                 PROVE  FALSE
      OBVIOUS
    <3>1. ex[f] # NoRow /\ (f = e \/ Older(ex, e, f))
      BY <2>1, <2>4, <2>6, <2>7
    <3> QED BY <2>8, <3>1, OrdersAreStrict
  <2>11. a[s][e] < b[s][e] \/ b[s][e] < a[s][e]
    BY <1>2, <2>8
  <2>12. AgreeBefore(ex, st, a, b, T, s, e) /\ AgreeBefore(ex, st, b, a, T, s, e)
    BY <2>9, <2>10 DEF AgreeBefore
  <2>13. AgreeBeside(st, b, a, T, d, c)
    BY DEF AgreeBeside
  <2>14. ~ (a[s][e] < b[s][e])
    BY <2>8, <2>12, NotLowerFirst
  <2>15. ~ (b[s][e] < a[s][e])
    BY <2>8, <2>12, <2>13, NotLowerFirst
  <2> QED BY <2>11, <2>14, <2>15
<1> QED BY <1>3

(* Complete allocations of a pair that agree elsewhere are the same.       *)
LEMMA FilledOnce ==
  ASSUME NEW ex, NEW st, NEW a, NEW b, NEW d, NEW c,
         NEW T, OfPair(st, T, d, c),
         Tables(ex, st, a), Sound(ex, st, a), Complete(ex, st, a, T),
         Tables(ex, st, b), Sound(ex, st, b), Complete(ex, st, b, T),
         AgreeOutside(a, b, T)
  PROVE  a = b
<1>1. AgreeBeside(st, a, b, T, d, c)
  BY DEF AgreeBeside, AgreeOutside, OfPairs
<1>2. \A t \in T, f \in ExpenseIds : a[t][f] = b[t][f]
  BY <1>1, FilledAgree
<1>3. \A t \in SettlementIds : a[t] = b[t]
  <2> SUFFICES ASSUME NEW t \in SettlementIds PROVE a[t] = b[t]
    OBVIOUS
  <2>1. a[t] \in [ExpenseIds -> Nat] /\ b[t] \in [ExpenseIds -> Nat]
    BY DEF Tables, Allocs
  <2>2. \A f \in ExpenseIds : a[t][f] = b[t][f]
    BY <1>2 DEF AgreeOutside
  <2> QED BY <2>1, <2>2
<1> QED BY <1>3 DEF Tables, Allocs

(* Rebuilding one of the pairs of a rebuild again changes nothing.         *)
LEMMA RebuildTwice ==
  ASSUME NEW ex, NEW st, NEW al, Tables(ex, st, al), Sound(ex, st, al), NEW P,
         NEW pr \in P, NEW a, a = Rebuild(ex, st, al, P),
         NEW d, NEW c, pr = <<d, c>>
  PROVE  Rebuild(ex, st, a, {pr}) = a
<1>1. PICK S, T, b : /\ S = OfPairs(st, P) /\ T = OfPairs(st, {pr})
                     /\ b = Rebuild(ex, st, a, {pr})
  OBVIOUS
<1>2. S \in SUBSET SettlementIds /\ T \in SUBSET S /\ T \in SUBSET T
      /\ T \in SUBSET SettlementIds
  BY <1>1 DEF OfPairs
<1>3. /\ a \in Allocs /\ Sound(ex, st, a)
      /\ Filled(ex, st, a, S) /\ Matches(ex, st, a, S) = {}
  BY <1>1, RebuildFills
<1>4. Tables(ex, st, a)
  BY <1>3 DEF Tables
<1>5. /\ b \in Allocs /\ Sound(ex, st, b)
      /\ Filled(ex, st, b, T) /\ Matches(ex, st, b, T) = {}
      /\ \A t \in SettlementIds \ T, f \in ExpenseIds : b[t][f] = a[t][f]
  <2>1. PICK Q : Q = {pr}
    OBVIOUS
  <2>2. b = Rebuild(ex, st, a, Q) /\ T = OfPairs(st, Q)
    BY <1>1, <2>1
  <2>3. /\ b \in Allocs /\ Sound(ex, st, b)
        /\ Filled(ex, st, b, OfPairs(st, Q)) /\ Matches(ex, st, b, OfPairs(st, Q)) = {}
        /\ \A t \in SettlementIds \ OfPairs(st, Q), f \in ExpenseIds :
             b[t][f] = a[t][f]
    BY <1>3, <1>4, <2>2, RebuildFills
  <2> QED BY <2>2, <2>3
<1>6. Tables(ex, st, b)
  BY <1>5 DEF Tables
<1>7. Complete(ex, st, a, T) /\ Complete(ex, st, b, T)
  BY <1>2, <1>3, <1>5, CompleteOfFewer
<1>8. OfPair(st, T, d, c)
  BY <1>1 DEF OfPair
<1>9. AgreeOutside(a, b, T)
  BY <1>5 DEF AgreeOutside
<1>10. a = b
  BY <1>3, <1>4, <1>5, <1>6, <1>7, <1>8, <1>9, FilledOnce
<1> QED BY <1>1, <1>10

-----------------------------------------------------------------------------
(* What the settlements between d and c, their rows and the shares that    *)
(* they can pay have in common before and after a step.                    *)
SameView(ex, st, al, ex1, st1, al1, d, c) ==
  /\ \A s \in OfPairs(st, {<<d, c>>}) \cup OfPairs(st1, {<<d, c>>}) :
       st1[s] = st[s] /\ \A e \in ExpenseIds : al1[s][e] = al[s][e]
  /\ \A e \in ExpenseIds : <<d, c>> \in PairsOf(ex1, e) =>
       ex[e] # NoRow /\ ex1[e].split = ex[e].split /\ ex1[e].group = ex[e].group

(* A pair of people of whom neither the settlements nor the shares nor the *)
(* rows change stays without idle money.                                   *)
LEMMA StaysExhausted ==
  ASSUME NEW ex, NEW st, NEW al, Tables(ex, st, al), Sound(ex, st, al),
         NEW ex1, NEW st1, NEW al1, Tables(ex1, st1, al1), Sound(ex1, st1, al1),
         NEW d, NEW c, Exhausted(ex, st, al, {<<d, c>>}),
         SameView(ex, st, al, ex1, st1, al1, d, c)
  PROVE  Exhausted(ex1, st1, al1, {<<d, c>>})
<1>0. PICK Q : Q = {<<d, c>>}
  OBVIOUS
<1>1. /\ OfPairs(st, Q) \in SUBSET SettlementIds
      /\ OfPairs(st1, Q) \in SUBSET SettlementIds
      /\ \A s \in SettlementIds :
           /\ s \in OfPairs(st, Q) <=>
                st[s] # NoRow /\ st[s].pay.debtor = d /\ st[s].pay.creditor = c
           /\ s \in OfPairs(st1, Q) <=>
                st1[s] # NoRow /\ st1[s].pay.debtor = d /\ st1[s].pay.creditor = c
  BY <1>0 DEF OfPairs
<1>2. \A s \in SettlementIds, e \in ExpenseIds : al[s][e] \in Nat /\ al1[s][e] \in Nat
  BY DEF Tables, Allocs
<1> SUFFICES ASSUME Matches(ex1, st1, al1, OfPairs(st1, Q)) # {}
             PROVE  FALSE
  BY <1>0 DEF Exhausted
<1>3. PICK s \in OfPairs(st1, Q), e \in ExpenseIds :
        <<s, e>> \in Matches(ex1, st1, al1, OfPairs(st1, Q))
  <2>1. PICK U \in SUBSET SettlementIds : U = OfPairs(st1, Q)
    BY <1>1
  <2>2. PICK m \in Matches(ex1, st1, al1, U) : TRUE
    BY <2>1
  <2>3. \E s \in U, e \in ExpenseIds : m = <<s, e>>
    BY MatchIs
  <2> QED BY <2>1, <2>2, <2>3
<1>4. /\ InScope(ex1, st1, s, e) /\ Remaining(st1, al1, s) > 0
      /\ Open(ex1, st1, al1, e, st1[s].pay.debtor) > 0
  BY <1>1, <1>3, MatchIs
<1>5. /\ s \in SettlementIds /\ st1[s] # NoRow /\ ex1[e] # NoRow
      /\ st1[s].pay.debtor = d /\ st1[s].pay.creditor = c
      /\ ex1[e].split.payer = c /\ d \in ex1[e].split.among \ {c}
  BY <1>1, <1>4 DEF InScope, Owes
<1>6. <<d, c>> \in PairsOf(ex1, e)
  BY <1>5 DEF PairsOf
<1>7. /\ ex[e] # NoRow /\ ex1[e].split = ex[e].split /\ ex1[e].group = ex[e].group
      /\ st1[s] = st[s] /\ \A f \in ExpenseIds : al1[s][f] = al[s][f]
  BY <1>0, <1>3, <1>6 DEF SameView
<1>8. InScope(ex, st, s, e) /\ s \in OfPairs(st, Q)
  BY <1>1, <1>4, <1>5, <1>7 DEF InScope, Owes
<1>9. Remaining(st, al, s) = Remaining(st1, al1, s)
  <2>1. PICK f, g : f = al[s] /\ g = al1[s]
    OBVIOUS
  <2>2. \A i \in 1 .. MaxExpense : f[i] \in Int /\ g[i] = f[i]
    BY <1>2, <1>5, <1>7, <2>1 DEF ExpenseIds
  <2>3. MaxExpense \in Nat
    BY LedgerAssumption
  <2>4. Total(g, MaxExpense) = Total(f, MaxExpense)
    BY <2>2, <2>3, TotalSame
  <2> QED BY <1>7, <2>1, <2>4 DEF Remaining
<1>10. Allocated(st, al, e, d) = Allocated(st1, al1, e, d)
  <2> DEFINE f == [t \in SettlementIds |->
                     IF st[t] # NoRow /\ st[t].pay.debtor = d THEN al[t][e] ELSE 0]
             g == [t \in SettlementIds |->
                     IF st1[t] # NoRow /\ st1[t].pay.debtor = d THEN al1[t][e] ELSE 0]
  <2>1. /\ Allocated(st, al, e, d) = Total(f, MaxSettlement)
        /\ Allocated(st1, al1, e, d) = Total(g, MaxSettlement)
    BY DEF Allocated
  <2>2. \A t \in SettlementIds : f[t] \in Int /\ g[t] = f[t]
    <3> SUFFICES ASSUME NEW t \in SettlementIds
                 PROVE  f[t] \in Int /\ g[t] = f[t]
      OBVIOUS
    <3>1. CASE t \in OfPairs(st, Q) \cup OfPairs(st1, Q)
      <4>1. st1[t] = st[t] /\ al1[t][e] = al[t][e]
        BY <1>0, <3>1 DEF SameView
      <4> QED BY <1>2, <4>1
    <3>2. CASE t \notin OfPairs(st, Q) /\ t \notin OfPairs(st1, Q)
      <4>1. st[t] # NoRow /\ st[t].pay.debtor = d => al[t][e] = 0
        <5> SUFFICES ASSUME st[t] # NoRow, st[t].pay.debtor = d, al[t][e] # 0
                     PROVE  FALSE
          OBVIOUS
        <5>1. al[t][e] > 0
          BY <1>2
        <5>2. st[t].pay.creditor = c
          BY <1>5, <1>7, <5>1 DEF Sound, FollowDebts, Owes
        <5> QED BY <1>1, <3>2, <5>2
      <4>2. st1[t] # NoRow /\ st1[t].pay.debtor = d => al1[t][e] = 0
        <5> SUFFICES ASSUME st1[t] # NoRow, st1[t].pay.debtor = d, al1[t][e] # 0
                     PROVE  FALSE
          OBVIOUS
        <5>1. al1[t][e] > 0
          BY <1>2
        <5>2. st1[t].pay.creditor = c
          BY <1>5, <5>1 DEF Sound, FollowDebts, Owes
        <5> QED BY <1>1, <3>2, <5>2
      <4> QED BY <4>1, <4>2
    <3> QED BY <3>1, <3>2
  <2> HIDE DEF f, g
  <2>3. /\ \A t \in 1 .. MaxSettlement : f[t] \in Int /\ g[t] = f[t]
        /\ MaxSettlement \in Nat
    BY <2>2, LedgerAssumption DEF SettlementIds
  <2>4. Total(g, MaxSettlement) = Total(f, MaxSettlement)
    BY <2>3, TotalSame
  <2> QED BY <2>1, <2>4
<1>11. Open(ex, st, al, e, st[s].pay.debtor) > 0 /\ Remaining(st, al, s) > 0
  BY <1>4, <1>5, <1>7, <1>9, <1>10 DEF Open
<1>12. <<s, e>> \in Matches(ex, st, al, OfPairs(st, Q))
  BY <1>1, <1>8, <1>11, MatchIs
<1> QED BY <1>0, <1>12 DEF Exhausted

(* Whatever rebuilds the pairs P after removing the rows of some expenses, *)
(* of which P holds all pairs, leaves no pair with more idle money.        *)
LEMMA RebuildLeavesNoneIdle ==
  ASSUME NEW ex, NEW st, NEW al, Tables(ex, st, al), Sound(ex, st, al),
         NEW ex1 \in [ExpenseIds -> Expense \cup {NoRow}],
         NEW E \in SUBSET ExpenseIds, NEW P,
         \A e \in ExpenseIds \ E : ex1[e] = ex[e],
         \A e \in E : PairsOf(ex, e) \subseteq P /\ PairsOf(ex1, e) \subseteq P,
         NEW r, r = Rebuild(ex1, st, Cascade(al, {}, E), P),
         NEW d, NEW c, <<d, c>> \in P \/ Exhausted(ex, st, al, {<<d, c>>})
  PROVE  Exhausted(ex1, st, r, {<<d, c>>})
<1>1. PICK b, R, Q : /\ b = Cascade(al, {}, E) /\ R = OfPairs(st, P)
                     /\ Q = {<<d, c>>}
  OBVIOUS
<1>2. /\ {} \in SUBSET SettlementIds /\ st \in [SettlementIds -> Settlement \cup {NoRow}]
      /\ \A s \in SettlementIds : st[s] = st[s]
  BY DEF Tables
<1>3. b \in Allocs /\ Sound(ex1, st, b) /\ Tables(ex1, st, b)
  <2>1. Cascade(al, {}, E) \in Allocs /\ Sound(ex1, st, Cascade(al, {}, E))
    BY <1>2, RebuildSound
  <2> QED BY <1>1, <1>2, <2>1 DEF Tables
<1>4. r = Rebuild(ex1, st, b, P)
  BY <1>1
<1>5. /\ r \in Allocs /\ Sound(ex1, st, r) /\ Matches(ex1, st, r, R) = {}
      /\ \A t \in SettlementIds \ R, f \in ExpenseIds : r[t][f] = b[t][f]
  BY <1>1, <1>3, <1>4, RebuildFills
<1>6. Tables(ex1, st, r)
  BY <1>3, <1>5 DEF Tables
<1>7. CASE <<d, c>> \in P
  <2>1. OfPairs(st, Q) \subseteq R
    BY <1>1, <1>7 DEF OfPairs
  <2>2. Matches(ex1, st, r, OfPairs(st, Q)) = {}
    BY <1>5, <2>1 DEF Matches
  <2> QED BY <1>1, <2>2 DEF Exhausted
<1>8. CASE <<d, c>> \notin P
  <2>1. \A s \in OfPairs(st, Q) :
          /\ s \in SettlementIds \ R /\ st[s] # NoRow
          /\ st[s].pay.debtor = d /\ st[s].pay.creditor = c
    BY <1>1, <1>8 DEF OfPairs
  <2>2. ASSUME NEW s \in OfPairs(st, Q), NEW e \in ExpenseIds
        PROVE  r[s][e] = al[s][e]
    <3>1. r[s][e] = b[s][e] /\ s \in SettlementIds /\ al[s][e] \in Nat
      BY <1>5, <2>1 DEF Tables, Allocs
    <3>2. CASE e \notin E
      BY <1>1, <3>1, <3>2 DEF Cascade
    <3>3. CASE e \in E
      <4>1. ~ (al[s][e] > 0)
        <5> SUFFICES ASSUME al[s][e] > 0 PROVE FALSE
          OBVIOUS
        <5>1. Owes(ex, st, s, e)
          BY <3>1 DEF Sound, FollowDebts
        <5>2. <<d, c>> \in PairsOf(ex, e)
          BY <2>1, <5>1 DEF Owes, PairsOf
        <5> QED BY <1>8, <3>3, <5>2
      <4> QED BY <1>1, <3>1, <3>3, <4>1 DEF Cascade
    <3> QED BY <3>2, <3>3
  <2>3. ASSUME NEW e \in ExpenseIds, <<d, c>> \in PairsOf(ex1, e)
        PROVE  /\ ex[e] # NoRow /\ ex1[e].split = ex[e].split
               /\ ex1[e].group = ex[e].group
    <3>1. e \notin E
      BY <1>8, <2>3
    <3>2. ex1[e] # NoRow
      BY <2>3 DEF PairsOf
    <3> QED BY <3>1, <3>2
  <2>4. Exhausted(ex, st, al, Q)
    BY <1>1, <1>8
  <2>5. SameView(ex, st, al, ex1, st, r, d, c)
    BY <1>1, <2>2, <2>3 DEF SameView
  <2> QED BY <1>1, <1>5, <1>6, <2>4, <2>5, StaysExhausted
<1> QED BY <1>7, <1>8

(* A new payment is spent until it or every share in its scope is used up. *)
LEMMA PaymentLeavesNoneIdle ==
  ASSUME NEW ex, NEW st, NEW al, Tables(ex, st, al),
         NEW s \in SettlementIds, st[s] = NoRow,
         NEW st1, Tables(ex, st1, al), Sound(ex, st1, al),
         \A t \in SettlementIds : t # s => st1[t] = st[t],
         \A e \in ExpenseIds : al[s][e] = 0,
         NEW S, \A x : x \in S <=> x = s, NEW r, r = Consume(ex, st1, al, S),
         NEW d, NEW c, Exhausted(ex, st, al, {<<d, c>>})
  PROVE  Exhausted(ex, st1, r, {<<d, c>>})
<1>0. S \in SUBSET SettlementIds
  OBVIOUS
<1>1. PICK U, U1 :
        /\ U = OfPairs(st, {<<d, c>>}) /\ U1 = OfPairs(st1, {<<d, c>>})
  OBVIOUS
<1>2. /\ U \in SUBSET SettlementIds /\ U1 \in SUBSET SettlementIds
      /\ \A t \in U1 : t # s => t \in U
  BY <1>1 DEF OfPairs
<1>3. Filled(ex, st1, al, S)
  BY <1>0, NothingWritten
<1>4. /\ r \in Allocs /\ Sound(ex, st1, r) /\ Matches(ex, st1, r, S) = {}
      /\ \A t \in SettlementIds, f \in ExpenseIds :
           /\ r[t][f] >= al[t][f]
           /\ t \notin S => r[t][f] = al[t][f]
  BY <1>0, <1>3, ConsumeFills
<1>5. \A t \in SettlementIds, f \in ExpenseIds : al[t][f] \in Nat /\ r[t][f] \in Nat
  BY <1>4 DEF Tables, Allocs
<1> SUFFICES ASSUME Matches(ex, st1, r, U1) # {}
             PROVE  FALSE
  BY <1>1 DEF Exhausted
<1>6. PICK t \in U1, e \in ExpenseIds : <<t, e>> \in Matches(ex, st1, r, U1)
  <2>1. PICK m \in Matches(ex, st1, r, U1) : TRUE
    OBVIOUS
  <2>2. \E t \in U1, e \in ExpenseIds : m = <<t, e>>
    BY <1>2, MatchIs
  <2> QED BY <2>1, <2>2
<1>7. /\ InScope(ex, st1, t, e) /\ Remaining(st1, r, t) > 0
      /\ Open(ex, st1, r, e, st1[t].pay.debtor) > 0
  BY <1>2, <1>6, MatchIs
<1>8. t # s
  <2>1. <<s, e>> \notin Matches(ex, st1, r, S)
    BY <1>4
  <2>2. ~ (/\ InScope(ex, st1, s, e) /\ Remaining(st1, r, s) > 0
           /\ Open(ex, st1, r, e, st1[s].pay.debtor) > 0)
    BY <1>0, <2>1, MatchIs
  <2> QED BY <1>7, <2>2
<1>9. /\ t \in SettlementIds /\ t \notin S /\ t \in U
      /\ st1[t] = st[t] /\ InScope(ex, st, t, e)
      /\ ex[e] # NoRow /\ st[t] # NoRow
  <2>1. t \in SettlementIds /\ t \notin S /\ t \in U /\ st1[t] = st[t]
    BY <1>2, <1>8
  <2> QED BY <1>7, <2>1 DEF InScope, Owes
<1>10. Remaining(st, al, t) = Remaining(st1, r, t)
  <2>1. PICK f, g : f = al[t] /\ g = r[t]
    OBVIOUS
  <2>2. \A i \in ExpenseIds : f[i] \in Int /\ g[i] = f[i]
    BY <1>4, <1>5, <1>9, <2>1
  <2>3. /\ \A i \in 1 .. MaxExpense : f[i] \in Int /\ g[i] = f[i]
        /\ MaxExpense \in Nat
    BY <2>2, LedgerAssumption DEF ExpenseIds
  <2>4. Total(g, MaxExpense) = Total(f, MaxExpense)
    BY <2>3, TotalSame
  <2> QED BY <1>9, <2>1, <2>4 DEF Remaining
<1>11. PICK p : p = st[t].pay.debtor /\ p \in Identities
  BY <1>9, RowTypes
<1>12. Allocated(st, al, e, p) <= Allocated(st1, r, e, p)
  <2> DEFINE f == [i \in SettlementIds |->
                     IF st[i] # NoRow /\ st[i].pay.debtor = p THEN al[i][e] ELSE 0]
             g == [i \in SettlementIds |->
                     IF st1[i] # NoRow /\ st1[i].pay.debtor = p THEN r[i][e] ELSE 0]
  <2>1. /\ Allocated(st, al, e, p) = Total(f, MaxSettlement)
        /\ Allocated(st1, r, e, p) = Total(g, MaxSettlement)
    BY DEF Allocated
  <2>2. \A i \in SettlementIds : f[i] \in Int /\ g[i] \in Int /\ f[i] <= g[i]
    <3> SUFFICES ASSUME NEW i \in SettlementIds
                 PROVE  f[i] \in Int /\ g[i] \in Int /\ f[i] <= g[i]
      OBVIOUS
    <3>1. al[i][e] \in Nat /\ r[i][e] \in Nat /\ al[i][e] <= r[i][e]
      BY <1>4, <1>5
    <3>2. CASE i = s
      BY <3>1, <3>2
    <3>3. CASE i # s
      <4>1. st1[i] = st[i]
        BY <3>3
      <4> QED BY <3>1, <4>1
    <3> QED BY <3>2, <3>3
  <2> HIDE DEF f, g
  <2>3. /\ \A i \in 1 .. MaxSettlement : f[i] \in Int /\ g[i] \in Int /\ f[i] <= g[i]
        /\ MaxSettlement \in Nat
    BY <2>2, LedgerAssumption DEF SettlementIds
  <2>4. Total(f, MaxSettlement) <= Total(g, MaxSettlement)
    BY <2>3, TotalMonotone
  <2> QED BY <2>1, <2>4
<1>13. Open(ex, st, al, e, p) > 0
  <2>1. /\ Allocated(st, al, e, p) \in Nat /\ Allocated(st1, r, e, p) \in Nat
        /\ ex[e].split.share[p] \in Nat
    BY <1>4, <1>9, <1>11, RowTypes, SumsAreNatural DEF Tables
  <2>2. Open(ex, st1, r, e, p) > 0
    BY <1>7, <1>9, <1>11
  <2> QED BY <1>12, <2>1, <2>2 DEF Open
<1>14. <<t, e>> \in Matches(ex, st, al, U)
  BY <1>2, <1>7, <1>9, <1>10, <1>11, <1>13, MatchIs
<1> QED BY <1>1, <1>14 DEF Exhausted

-----------------------------------------------------------------------------
(* The steps after which money may be idle that was not. *)
Loosened ==
  \/ Stripped # {}
  \/ \E s \in SettlementIds : settlement[s] # NoRow /\ settlement'[s] = NoRow
  \/ \E e \in ExpenseIds :
       /\ expense[e] # NoRow /\ expense'[e] # NoRow
       /\ expense[e].group # expense'[e].group

(* What every step does to the pairs it rewrites and to the others.        *)
PairsRebuilt ==
  \/ RewrittenPairs = {}
  \/ \E P, al :
       /\ Tables(expense', settlement', al) /\ Sound(expense', settlement', al)
       /\ alloc' = Rebuild(expense', settlement', al, P)
       /\ RewrittenPairs \subseteq P

(* Settlements are between identities.                                     *)
LEMMA PaidPairTypes ==
  ASSUME NEW st \in [SettlementIds -> Settlement \cup {NoRow}], NEW pr \in PaidPairs(st)
  PROVE  \E d \in Identities, c \in Identities : pr = <<d, c>>
<1>1. PICK s \in SettlementIds : st[s] # NoRow /\ pr = <<st[s].pay.debtor, st[s].pay.creditor>>
  BY DEF PaidPairs
<1>2. st[s].pay \in Payment
  BY <1>1 DEF Settlement
<1> QED BY <1>1, <1>2 DEF Payment

(* The two ways a step keeps a pair without idle money give NoneIdle.      *)
LEMMA NoneIdleIs ==
  ASSUME IInv',
         \A d \in Identities, c \in Identities :
           \/ <<d, c>> \in RewrittenPairs
           \/ ~ Loosened /\ Exhausted(expense, settlement, alloc, {<<d, c>>})
           => Exhausted(expense', settlement', alloc', {<<d, c>>})
  PROVE  NoneIdle
<1>1. PICK st : st = settlement'
  OBVIOUS
<1>2. st \in [SettlementIds -> Settlement \cup {NoRow}]
  BY <1>1 DEF IInv, TypeOK
<1>3. ASSUME NEW pr \in PaidPairs(st)
      PROVE  \E d \in Identities, c \in Identities : pr = <<d, c>>
  BY <1>2, <1>3, PaidPairTypes
<1> QED BY <1>1, <1>3 DEF NoneIdle, Loosened

(* A step that changes the split of no expense rewrites no pair.           *)
LEMMA NothingRewritten ==
  ASSUME \A e \in ExpenseIds : SplitOf(expense', e) = SplitOf(expense, e)
  PROVE  RewrittenPairs = {}
BY DEF RewrittenPairs

(* The splits that change are those of the expenses in E. *)
LEMMA RewrittenIn ==
  ASSUME NEW E \in SUBSET ExpenseIds, NEW P,
         \A e \in ExpenseIds \ E : expense'[e] = expense[e],
         \A e \in E \ Stripped :
           PairsOf(expense, e) \subseteq P /\ PairsOf(expense', e) \subseteq P
  PROVE  RewrittenPairs \subseteq P
<1> SUFFICES ASSUME NEW e \in ExpenseIds \ Stripped,
                    SplitOf(expense, e) # SplitOf(expense', e),
                    NEW pr \in PairsOf(expense, e) \cup PairsOf(expense', e)
             PROVE  pr \in P
  BY DEF RewrittenPairs
<1>1. e \in E
  BY DEF SplitOf
<1> QED BY <1>1

(* A handler that changes the expenses E and rebuilds all their pairs.     *)
LEMMA RewriteRebuilds ==
  ASSUME IInv, IInv', settlement' = settlement,
         NEW E \in SUBSET ExpenseIds, NEW P,
         \A e \in ExpenseIds \ E : expense'[e] = expense[e],
         \A e \in E : PairsOf(expense, e) \subseteq P /\ PairsOf(expense', e) \subseteq P,
         alloc' = Rebuild(expense', settlement', Cascade(alloc, {}, E), P)
  PROVE  NoneIdle /\ PairsRebuilt
<1>1. /\ Tables(expense, settlement, alloc) /\ Sound(expense, settlement, alloc)
      /\ {} \in SUBSET SettlementIds
  BY InvImpliesTables
<1>2. /\ expense' \in [ExpenseIds -> Expense \cup {NoRow}]
      /\ settlement' \in [SettlementIds -> Settlement \cup {NoRow}]
  BY DEF IInv, TypeOK
<1>3. RewrittenPairs \subseteq P
  BY RewrittenIn
<1>4. NoneIdle
  <2> SUFFICES ASSUME NEW d \in Identities, NEW c \in Identities,
                      \/ <<d, c>> \in RewrittenPairs
                      \/ Exhausted(expense, settlement, alloc, {<<d, c>>})
               PROVE  Exhausted(expense', settlement', alloc', {<<d, c>>})
    BY NoneIdleIs
  <2>1. <<d, c>> \in P \/ Exhausted(expense, settlement, alloc, {<<d, c>>})
    BY <1>3
  <2>2. PICK ex1, r : ex1 = expense' /\ r = alloc'
    OBVIOUS
  <2>3. /\ ex1 \in [ExpenseIds -> Expense \cup {NoRow}]
        /\ \A e \in ExpenseIds \ E : ex1[e] = expense[e]
        /\ \A e \in E : PairsOf(expense, e) \subseteq P /\ PairsOf(ex1, e) \subseteq P
        /\ r = Rebuild(ex1, settlement, Cascade(alloc, {}, E), P)
    BY <1>2, <2>2
  <2>4. Exhausted(ex1, settlement, r, {<<d, c>>})
    BY <1>1, <2>1, <2>3, RebuildLeavesNoneIdle
  <2> QED BY <2>2, <2>4
<1>5. PairsRebuilt
  <2>1. PICK al : al = Cascade(alloc, {}, E)
    OBVIOUS
  <2>2. al \in Allocs /\ Sound(expense', settlement', al)
    <3>1. \A s \in SettlementIds \ {} : settlement'[s] = settlement[s]
      OBVIOUS
    <3> QED BY <1>1, <1>2, <2>1, <3>1, RebuildSound
  <2>3. Tables(expense', settlement', al)
    BY <1>2, <2>2 DEF Tables
  <2>4. alloc' = Rebuild(expense', settlement', al, P)
    BY <2>1
  <2> QED BY <1>3, <2>2, <2>3, <2>4 DEF PairsRebuilt
<1> QED BY <1>4, <1>5

(* apply_split_shares rebuilds the pairs of the old and of the new shares. *)
LEMMA ApplySplitSharesRebuilds ==
  ASSUME IInv, IInv', NEW e \in ExpenseIds, NEW row, NEW sp,
         ApplySplitShares(e, row, sp), settlement' = settlement
  PROVE  NoneIdle /\ PairsRebuilt
<1>1. PICK P : P = PairsOf(expense, e) \cup PairsOf(expense', e)
  OBVIOUS
<1>2. \A f \in ExpenseIds \ {e} : expense'[f] = expense[f]
  BY DEF ApplySplitShares, IInv, TypeOK
<1>3. alloc' = Rebuild(expense', settlement', Cascade(alloc, {}, {e}), P)
  BY <1>1 DEF ApplySplitShares
<1>4. /\ {e} \in SUBSET ExpenseIds
      /\ \A f \in {e} : PairsOf(expense, f) \subseteq P
                        /\ PairsOf(expense', f) \subseteq P
  BY <1>1
<1> QED BY <1>2, <1>3, <1>4, RewriteRebuilds

(* Steps that change neither shares nor settlements nor rows. *)
LEMMA OnlyRowsOfExpenses ==
  ASSUME IInv, IInv', settlement' = settlement, alloc' = alloc,
         \A e \in ExpenseIds : SplitOf(expense', e) = SplitOf(expense, e),
         \A e \in ExpenseIds :
           expense'[e] # NoRow => expense[e] # NoRow
                                  /\ expense'[e].split = expense[e].split,
         ~ Loosened
  PROVE  NoneIdle /\ PairsRebuilt
<1>1. RewrittenPairs = {}
  BY NothingRewritten
<1>2. NoneIdle
  <2> SUFFICES ASSUME NEW d \in Identities, NEW c \in Identities,
                      Exhausted(expense, settlement, alloc, {<<d, c>>})
               PROVE  Exhausted(expense', settlement', alloc', {<<d, c>>})
    BY <1>1, NoneIdleIs
  <2>1. /\ Tables(expense, settlement, alloc) /\ Sound(expense, settlement, alloc)
    BY InvImpliesTables
  <2>2. (Tables(expense, settlement, alloc) /\ Sound(expense, settlement, alloc))'
    BY DEF IInv, TypeOK, Tables, Allocs
  <2>3. PICK ex1 : ex1 = expense'
    OBVIOUS
  <2>4. Tables(ex1, settlement, alloc) /\ Sound(ex1, settlement, alloc)
    BY <2>2, <2>3
  <2>5. ASSUME NEW e \in ExpenseIds, <<d, c>> \in PairsOf(ex1, e)
        PROVE  /\ expense[e] # NoRow /\ ex1[e].split = expense[e].split
               /\ ex1[e].group = expense[e].group
    <3>1. ex1[e] # NoRow
      BY <2>5 DEF PairsOf
    <3>2. expense[e] # NoRow /\ ex1[e].split = expense[e].split
      BY <2>3, <3>1
    <3> QED BY <2>3, <3>1, <3>2 DEF Loosened
  <2>6. SameView(expense, settlement, alloc, ex1, settlement, alloc, d, c)
    BY <2>5 DEF SameView
  <2>7. Exhausted(ex1, settlement, alloc, {<<d, c>>})
    BY <2>1, <2>4, <2>6, StaysExhausted
  <2> QED BY <2>3, <2>7
<1> QED BY <1>1, <1>2 DEF PairsRebuilt

(* Every step leaves no rewritten pair idle, and rebuilds what it rewrites.*)
LEMMA StepsRebuild ==
  ASSUME IInv, IInv', [Next]_vars
  PROVE  NoneIdle /\ PairsRebuilt
<1>0. /\ Tables(expense, settlement, alloc) /\ Sound(expense, settlement, alloc)
      /\ expense \in [ExpenseIds -> Expense \cup {NoRow}]
      /\ settlement \in [SettlementIds -> Settlement \cup {NoRow}]
      /\ alloc \in Allocs
      /\ expense' \in [ExpenseIds -> Expense \cup {NoRow}]
      /\ settlement' \in [SettlementIds -> Settlement \cup {NoRow}]
  BY InvImpliesTables DEF IInv, TypeOK, Tables
<1>1. ASSUME UNCHANGED <<expense, settlement, alloc>>
      PROVE  NoneIdle /\ PairsRebuilt
  <2>1. RewrittenPairs = {}
    BY <1>1, NothingRewritten
  <2>2. NoneIdle
    BY <1>1, <2>1, NoneIdleIs
  <2> QED BY <2>1, <2>2 DEF PairsRebuilt
<1>2. ASSUME NEW u \in Users, NEW g \in GroupIds, DeleteGroup(u, g)
      PROVE  NoneIdle /\ PairsRebuilt
  <2> DEFINE E0 == {e \in ExpenseIds : expense[e] # NoRow /\ expense[e].group = g}
             S0 == {s \in SettlementIds :
                      settlement[s] # NoRow /\ settlement[s].group = g}
             P0 == UNION {PairsOf(expense, e) : e \in E0}
             moved0 == {e \in ExpenseIds \ E0 : expense[e] # NoRow
                                                /\ expense[e].home = g}
  <2>1. PICK E, S, P, moved :
          /\ E = E0 /\ S = S0 /\ P = P0 /\ moved = moved0
    OBVIOUS
  <2>2. /\ expense' = [e \in ExpenseIds |->
                         IF e \in E THEN NoRow
                         ELSE IF e \in moved
                              THEN [expense[e] EXCEPT !.split.among = {}]
                              ELSE expense[e]]
        /\ settlement' = [s \in SettlementIds |->
                            IF s \in S THEN NoRow ELSE settlement[s]]
        /\ alloc' = Rebuild(expense', settlement', Cascade(alloc, S, E \cup moved), P)
    BY <1>2, <2>1 DEF DeleteGroup
  <2>3. /\ E \in SUBSET ExpenseIds /\ moved \in SUBSET ExpenseIds
        /\ S \in SUBSET SettlementIds
        /\ \A s \in S : settlement[s] # NoRow
        /\ \A e \in moved : e \notin E /\ expense[e] # NoRow
        /\ \A e \in E : PairsOf(expense, e) \subseteq P
    BY <2>1
  <2> HIDE DEF E0, S0, P0, moved0
  <2>4. PICK gone : gone = E \cup moved
    OBVIOUS
  <2>5. /\ \A e \in ExpenseIds \ gone : expense'[e] = expense[e]
        /\ \A s \in SettlementIds \ S : settlement'[s] = settlement[s]
        /\ gone \in SUBSET ExpenseIds
    BY <2>2, <2>3, <2>4
  <2>6. \A e \in moved : /\ expense'[e] \in Expense /\ expense'[e] # NoRow
                         /\ expense'[e].split.among = {}
    <3> SUFFICES ASSUME NEW e \in moved
                 PROVE  /\ expense'[e] \in Expense /\ expense'[e] # NoRow
                        /\ expense'[e].split.among = {}
      OBVIOUS
    <3>1. expense[e] \in Expense
      BY <1>0, <2>3
    <3>2. /\ expense[e].split \in Split
          /\ [expense[e].split EXCEPT !.among = {}] \in Split
          /\ [expense[e].split EXCEPT !.among = {}].among = {}
      BY <3>1 DEF Expense, Split
    <3>3. PICK sp \in Split : /\ sp = [expense[e].split EXCEPT !.among = {}]
                              /\ sp.among = {}
      BY <3>2
    <3>4. expense'[e] = [expense[e] EXCEPT !.split = sp]
      BY <2>2, <2>3, <3>3
    <3>5. expense'[e] \in Expense /\ expense'[e].split = sp
      BY <3>1, <3>4 DEF Expense
    <3> QED BY <3>3, <3>5, LedgerAssumption
  <2>7. ASSUME NEW e \in gone \ Stripped
        PROVE  PairsOf(expense, e) \subseteq P /\ PairsOf(expense', e) \subseteq P
    <3>1. CASE e \in E
      <4>1. expense'[e] = NoRow
        BY <2>2, <2>3, <3>1
      <4> QED BY <2>3, <3>1, <4>1 DEF PairsOf
    <3>2. CASE e \in moved
      <4>1. expense[e].split.among = {} /\ expense'[e].split.among = {}
        BY <2>3, <2>6, <3>2 DEF Stripped
      <4> QED BY <4>1 DEF PairsOf
    <3> QED BY <2>4, <3>1, <3>2
  <2>8. RewrittenPairs \subseteq P
    BY <2>5, <2>7, RewrittenIn
  <2>9. PICK al : al = Cascade(alloc, S, gone)
    OBVIOUS
  <2>10. /\ al \in Allocs /\ Sound(expense', settlement', al)
         /\ Tables(expense', settlement', al)
         /\ alloc' = Rebuild(expense', settlement', al, P)
    <3>1. al \in Allocs /\ Sound(expense', settlement', al)
      BY <1>0, <2>3, <2>5, <2>9, RebuildSound
    <3> QED BY <1>0, <2>2, <2>4, <2>9, <3>1 DEF Tables
  <2>11. PairsRebuilt
    BY <2>8, <2>10 DEF PairsRebuilt
  <2>12. NoneIdle
    <3>1. CASE Loosened
      <4> SUFFICES ASSUME NEW d \in Identities, NEW c \in Identities,
                          <<d, c>> \in P
                   PROVE  Exhausted(expense', settlement', alloc', {<<d, c>>})
        BY <2>8, <3>1, NoneIdleIs
      <4>1. Matches(expense', settlement', alloc', OfPairs(settlement', P)) = {}
        BY <2>10, RebuildFills
      <4>2. OfPairs(settlement', {<<d, c>>}) \subseteq OfPairs(settlement', P)
        BY DEF OfPairs
      <4>3. Matches(expense', settlement', alloc',
                    OfPairs(settlement', {<<d, c>>})) = {}
        BY <4>1, <4>2 DEF Matches
      <4> QED BY <4>3 DEF Exhausted
    <3>2. CASE ~ Loosened
      <4>1. S = {}
        BY <2>2, <2>3, <3>2 DEF Loosened
      <4>2. settlement' = settlement
        BY <1>0, <2>2, <4>1
      <4>3. \A e \in gone : PairsOf(expense, e) \subseteq P
                            /\ PairsOf(expense', e) \subseteq P
        BY <2>7, <3>2 DEF Loosened
      <4>4. alloc' = Rebuild(expense', settlement', Cascade(alloc, {}, gone), P)
        BY <2>9, <2>10, <4>1
      <4> QED BY <2>5, <4>2, <4>3, <4>4, RewriteRebuilds
    <3> QED BY <3>1, <3>2
  <2> QED BY <2>11, <2>12
<1>3. ASSUME NEW u \in Users, NEW g \in {NoGroup} \cup GroupIds, NEW d \in Dates,
             NEW sp \in Splits, CreateExpense(u, g, d, sp)
      PROVE  NoneIdle /\ PairsRebuilt
  <2>1. PICK e \in ExpenseIds : \E row : ApplySplitShares(e, row, sp)
    <3>1. last.expense + 1 \in ExpenseIds
      BY <1>3, LedgerAssumption DEF CreateExpense, IInv, TypeOK, ExpenseIds
    <3> QED BY <1>3, <3>1 DEF CreateExpense
  <2>2. settlement' = settlement
    BY <1>3 DEF CreateExpense
  <2> QED BY <2>1, <2>2, ApplySplitSharesRebuilds
<1>4. ASSUME NEW u \in Users, NEW e \in ExpenseIds, NEW g \in {NoGroup} \cup GroupIds,
             NEW d \in Dates, NEW sp \in Splits, EditExpense(u, e, g, d, sp)
      PROVE  NoneIdle /\ PairsRebuilt
  <2>1. PICK row : ApplySplitShares(e, row, sp)
    BY <1>4 DEF EditExpense
  <2>2. settlement' = settlement
    BY <1>4 DEF EditExpense
  <2> QED BY <2>1, <2>2, ApplySplitSharesRebuilds
<1>5. ASSUME NEW u \in Users, NEW e \in ExpenseIds, NEW g \in {NoGroup} \cup GroupIds,
             NEW d \in Dates, PatchExpense(u, e, g, d)
      PROVE  NoneIdle /\ PairsRebuilt
  <2>1. expense[e] \in Expense /\ expense[e] # NoRow
    BY <1>0, <1>5 DEF PatchExpense, CanAccessExpense
  <2>2. PICK new : new = [expense[e] EXCEPT !.group = g, !.date = d]
    OBVIOUS
  <2>3. new \in Expense /\ new.split = expense[e].split /\ new # NoRow
    BY <2>1, <2>2, LedgerAssumption DEF Expense
  <2>4. /\ expense' = [expense EXCEPT ![e] = new]
        /\ settlement' = settlement /\ alloc' = alloc
    BY <1>0, <1>5, <2>1, <2>2 DEF PatchExpense, Expense
  <2>5. \A f \in ExpenseIds :
          /\ SplitOf(expense', f) = SplitOf(expense, f)
          /\ expense'[f] # NoRow => expense[f] # NoRow
                                    /\ expense'[f].split = expense[f].split
    BY <1>0, <2>1, <2>3, <2>4 DEF SplitOf
  <2>6. RewrittenPairs = {}
    BY <2>5, NothingRewritten
  <2>7. CASE Loosened
    <3>1. NoneIdle
      BY <2>6, <2>7, NoneIdleIs
    <3> QED BY <2>6, <3>1 DEF PairsRebuilt
  <2>8. CASE ~ Loosened
    BY <2>4, <2>5, <2>8, OnlyRowsOfExpenses
  <2> QED BY <2>7, <2>8
<1>6. ASSUME NEW u \in Users, NEW e \in ExpenseIds, DeleteExpense(u, e)
      PROVE  NoneIdle /\ PairsRebuilt
  <2>1. PICK P : P = PairsOf(expense, e)
    OBVIOUS
  <2>2. /\ expense' = [expense EXCEPT ![e] = NoRow] /\ settlement' = settlement
        /\ alloc' = Rebuild(expense', settlement', Cascade(alloc, {}, {e}), P)
    BY <1>6, <2>1 DEF DeleteExpense
  <2>3. \A f \in ExpenseIds \ {e} : expense'[f] = expense[f]
    BY <1>0, <2>2
  <2>4. expense'[e] = NoRow
    BY <1>0, <2>2
  <2>5. /\ {e} \in SUBSET ExpenseIds
        /\ \A f \in {e} : PairsOf(expense, f) \subseteq P
                          /\ PairsOf(expense', f) \subseteq P
    BY <2>1, <2>4 DEF PairsOf
  <2> QED BY <2>2, <2>3, <2>5, RewriteRebuilds
<1>7. ASSUME NEW u \in Users, NEW g \in {NoGroup} \cup GroupIds, NEW pay \in Payments,
             CreateSettlement(u, g, pay)
      PROVE  NoneIdle /\ PairsRebuilt
  <2>1. PICK s, new : s = last.settlement + 1 /\ new = [group |-> g, pay |-> pay]
    OBVIOUS
  <2>2. s \in SettlementIds /\ s > last.settlement
    BY <1>7, <2>1, LedgerAssumption DEF CreateSettlement, IInv, TypeOK, SettlementIds
  <2>3. /\ settlement' = [settlement EXCEPT ![s] = new]
        /\ alloc' = Consume(expense, settlement', alloc, {s})
        /\ expense' = expense
    BY <1>7, <2>1 DEF CreateSettlement
  <2>4. settlement[s] = NoRow
    BY <2>2 DEF IInv, FreshIds
  <2>5. \A e \in ExpenseIds : alloc[s][e] = 0
    <3>1. \A e \in ExpenseIds : alloc[s][e] \in Nat /\ ~ (alloc[s][e] > 0)
      BY <1>0, <2>2, <2>4 DEF Sound, FollowDebts, Owes, Allocs
    <3> QED BY <3>1
  <2>6. PICK st1, r : st1 = settlement' /\ r = alloc'
    OBVIOUS
  <2>7. \A t \in SettlementIds : t # s => st1[t] = settlement[t]
    BY <1>0, <2>3, <2>6
  <2>8. Tables(expense, st1, alloc)
    BY <1>0, <2>6 DEF Tables
  <2>9. Sound(expense, st1, alloc)
    <3>1. \A t \in SettlementIds :
            st1[t] = settlement[t] \/ \A e \in ExpenseIds : alloc[t][e] = 0
      BY <2>5, <2>7
    <3>2. \A e \in ExpenseIds :
            \/ expense[e] # NoRow
            \/ \A t \in SettlementIds : alloc[t][e] = 0
      <4> SUFFICES ASSUME NEW e \in ExpenseIds, expense[e] = NoRow
                   PROVE  \A t \in SettlementIds : alloc[t][e] = 0
        OBVIOUS
      <4>1. \A t \in SettlementIds : alloc[t][e] \in Nat /\ ~ (alloc[t][e] > 0)
        BY <1>0 DEF Sound, FollowDebts, Owes, Allocs
      <4> QED BY <4>1
    <3>3. \A t \in SettlementIds, e \in ExpenseIds : alloc[t][e] <= alloc[t][e]
      BY <1>0 DEF Allocs
    <3> QED BY <1>0, <2>8, <3>1, <3>2, <3>3, FewerRows
  <2>10. RewrittenPairs = {}
    BY <2>3, NothingRewritten
  <2>11. NoneIdle
    <3> SUFFICES ASSUME NEW d \in Identities, NEW c \in Identities,
                        Exhausted(expense, settlement, alloc, {<<d, c>>})
                 PROVE  Exhausted(expense', settlement', alloc', {<<d, c>>})
      BY <2>10, NoneIdleIs
    <3>1. PICK S : S = {s}
      OBVIOUS
    <3>2. r = Consume(expense, st1, alloc, S) /\ \A x : x \in S <=> x = s
      BY <2>3, <2>6, <3>1
    <3>3. Exhausted(expense, st1, r, {<<d, c>>})
      BY <1>0, <2>2, <2>4, <2>5, <2>7, <2>8, <2>9, <3>2, PaymentLeavesNoneIdle
    <3> QED BY <2>3, <2>6, <3>3
  <2> QED BY <2>10, <2>11 DEF PairsRebuilt
<1>8. ASSUME NEW u \in Users, NEW s \in SettlementIds, DeleteSettlement(u, s)
      PROVE  NoneIdle /\ PairsRebuilt
  <2>1. expense' = expense /\ settlement[s] # NoRow /\ settlement'[s] = NoRow
    BY <1>0, <1>8 DEF DeleteSettlement, CanAccessSettlement
  <2>2. RewrittenPairs = {}
    BY <2>1, NothingRewritten
  <2>3. NoneIdle
    BY <2>1, <2>2, NoneIdleIs DEF Loosened
  <2> QED BY <2>2, <2>3 DEF PairsRebuilt
<1>9. ASSUME NEW s \in SettlementIds, Backfill(s)
      PROVE  NoneIdle /\ PairsRebuilt
  <2>1. PICK P : P = {<<settlement[s].pay.debtor, settlement[s].pay.creditor>>}
    OBVIOUS
  <2>2. /\ expense' = expense /\ settlement' = settlement
        /\ alloc' = Rebuild(expense, settlement, alloc, P)
    BY <1>9, <2>1 DEF Backfill
  <2>3. Cascade(alloc, {}, {}) = alloc
    BY <1>0 DEF Cascade, Allocs
  <2>4. alloc' = Rebuild(expense', settlement', Cascade(alloc, {}, {}), P)
    BY <2>2, <2>3
  <2> QED BY <2>2, <2>4, RewriteRebuilds
<1>10. ASSUME NEW u \in Users, ChangeMembers(u)
       PROVE  UNCHANGED <<expense, settlement, alloc>>
  BY <1>10 DEF ChangeMembers, AddMember, RemoveMember
<1>11. ASSUME NEW u \in Users, NEW g \in GroupIds, CreateGroup(u, g)
       PROVE  UNCHANGED <<expense, settlement, alloc>>
  BY <1>11 DEF CreateGroup
<1>12. ASSUME UNCHANGED vars
       PROVE  UNCHANGED <<expense, settlement, alloc>>
  BY <1>12 DEF vars
<1>13. ASSUME NEW u \in Users, WriteExpense(u)
       PROVE  NoneIdle /\ PairsRebuilt
  BY <1>3, <1>4, <1>13 DEF WriteExpense
<1> QED
  BY <1>1, <1>2, <1>5, <1>6, <1>7, <1>8, <1>9, <1>10, <1>11, <1>12, <1>13 DEF Next

-----------------------------------------------------------------------------
(* Whatever rewrites shares leaves no money of its pairs idle, and only    *)
(* the steps that rebuild nothing make money idle that was not.            *)
THEOREM NoIdleMoney == Spec => NoMoneyLeftIdle
<1>1. IInv /\ IInv' /\ [Next]_vars => NoneIdle
  BY StepsRebuild
<1> QED BY <1>1, Invariance, PTL DEF Spec, NoMoneyLeftIdle

(* After a rewrite a payment of its pairs reaches a share only when every  *)
(* older share it could pay is settled, and every earlier payment that     *)
(* could have reached that share is spent on it or on older ones.          *)
THEOREM OldestFirst == Spec => OldestDebtFirst
<1> DEFINE S == OfPairs(settlement', RewrittenPairs)
           InOrder == /\ SharesInOrder(expense', settlement', alloc', S)
                      /\ SettlementsInOrder(expense', settlement', alloc', S)
<1>1. ASSUME IInv, IInv', [Next]_vars PROVE InOrder
  <2>1. CASE RewrittenPairs = {}
    <3>1. S = {}
      BY <2>1 DEF OfPairs
    <3> QED BY <3>1 DEF SharesInOrder, SettlementsInOrder
  <2>2. ASSUME NEW P, NEW al,
               Tables(expense', settlement', al), Sound(expense', settlement', al),
               alloc' = Rebuild(expense', settlement', al, P),
               RewrittenPairs \subseteq P
        PROVE  InOrder
    <3>1. /\ SharesInOrder(expense', settlement', alloc', OfPairs(settlement', P))
          /\ SettlementsInOrder(expense', settlement', alloc', OfPairs(settlement', P))
      BY <2>2, RebuildFills DEF Filled
    <3>2. S \subseteq OfPairs(settlement', P)
      BY <2>2 DEF OfPairs
    <3> HIDE DEF S
    <3>3. SharesInOrder(expense', settlement', alloc', S)
      BY <3>1, <3>2 DEF SharesInOrder
    <3>4. SettlementsInOrder(expense', settlement', alloc', S)
      BY <3>1, <3>2 DEF SettlementsInOrder
    <3> QED BY <3>3, <3>4
  <2> HIDE DEF InOrder
  <2> QED BY <1>1, <2>1, <2>2, StepsRebuild DEF PairsRebuilt
<1>2. IInv /\ IInv' /\ [Next]_vars => InOrder
  BY <1>1
<1> QED BY <1>2, Invariance, PTL DEF Spec, OldestDebtFirst

(* The rows of a rewritten pair are a function of the tables: a backfill   *)
(* run after any handler finds them as it would write them.                *)
THEOREM BackfillIdempotent == Spec => BackfillChangesNothing
<1> DEFINE Same == \A pr \in RewrittenPairs :
                     Rebuild(expense', settlement', alloc', {pr}) = alloc'
<1>1. ASSUME IInv, IInv', [Next]_vars PROVE Same
  <2>1. CASE RewrittenPairs = {}
    BY <2>1
  <2>2. ASSUME NEW P, NEW al,
               Tables(expense', settlement', al), Sound(expense', settlement', al),
               alloc' = Rebuild(expense', settlement', al, P),
               RewrittenPairs \subseteq P
        PROVE  Same
    <3> SUFFICES ASSUME NEW pr \in RewrittenPairs
                 PROVE  Rebuild(expense', settlement', alloc', {pr}) = alloc'
      OBVIOUS
    <3>1. PICK d, c : pr = <<d, c>>
      BY DEF RewrittenPairs, PairsOf
    <3>2. PICK a : a = alloc'
      OBVIOUS
    <3>3. a = Rebuild(expense', settlement', al, P) /\ pr \in P
      BY <2>2, <3>2
    <3>4. Rebuild(expense', settlement', a, {pr}) = a
      BY <2>2, <3>1, <3>3, RebuildTwice
    <3> QED BY <3>2, <3>4
  <2> HIDE DEF Same
  <2> QED BY <1>1, <2>1, <2>2, StepsRebuild DEF PairsRebuilt
<1>2. IInv /\ IInv' /\ [Next]_vars => Same
  BY <1>1
<1> QED BY <1>2, Invariance, PTL DEF Spec, BackfillChangesNothing

-----------------------------------------------------------------------------
(* Shares that a payment of T with money left could reach.                 *)
Reached(ex, st, al, T) ==
  {e \in ExpenseIds : \E s \in T : InScope(ex, st, s, e) /\ Remaining(st, al, s) > 0}

(* Payments of T that could reach no other shares.                         *)
Confined(ex, st, al, T) ==
  {s \in T : \A e \in ExpenseIds : InScope(ex, st, s, e) => e \in Reached(ex, st, al, T)}

(* In a complete allocation of a pair the shares that idle money could     *)
(* reach are closed, by payments that could not go anywhere else: a        *)
(* cross-group payment comes after the payments of the group.              *)
LEMMA ReachedAreClosed ==
  ASSUME NEW ex, NEW st, NEW r, Tables(ex, st, r), Sound(ex, st, r),
         NEW d, NEW c, NEW T, T = OfPairs(st, {<<d, c>>}), Complete(ex, st, r, T),
         NEW e \in Reached(ex, st, r, T)
  PROVE  /\ e \in ExpenseIds /\ ex[e] # NoRow /\ d \in Identities
         /\ Open(ex, st, r, e, d) = 0
         /\ \A s \in SettlementIds : st[s] # NoRow /\ st[s].pay.debtor = d
              => r[s][e] = 0 \/ s \in Confined(ex, st, r, T)
<1>1. PICK idle \in T : InScope(ex, st, idle, e) /\ Remaining(st, r, idle) > 0
  BY DEF Reached
<1>2. /\ e \in ExpenseIds /\ idle \in SettlementIds /\ st[idle] # NoRow
      /\ st[idle].pay.debtor = d /\ st[idle].pay.creditor = c
  BY <1>1 DEF Reached, OfPairs
<1>3. Owes(ex, st, idle, e)
  BY <1>1 DEF InScope
<1>4. /\ ex[e] # NoRow /\ d \in Identities /\ ex[e].split.payer = c
      /\ Open(ex, st, r, e, d) \in Int /\ Open(ex, st, r, e, d) >= 0
  BY <1>2, <1>3, PairTypes DEF Owes
<1>5. Open(ex, st, r, e, d) = 0
  <2>1. <<idle, e>> \notin Matches(ex, st, r, T)
    BY DEF Complete
  <2>2. T \in SUBSET SettlementIds
    BY DEF OfPairs
  <2>3. ~ (Open(ex, st, r, e, d) > 0)
    BY <1>1, <1>2, <2>1, <2>2, MatchIs
  <2> QED BY <1>4, <2>3
<1>6. ASSUME NEW s \in SettlementIds, st[s] # NoRow, st[s].pay.debtor = d, r[s][e] # 0
      PROVE  s \in Confined(ex, st, r, T)
  <2>1. r[s][e] > 0
    BY <1>2, <1>6 DEF Tables, Allocs
  <2>2. Owes(ex, st, s, e)
    BY <1>2, <2>1 DEF Sound, FollowDebts
  <2>3. s \in T /\ st[s].pay.creditor = c
    BY <1>4, <1>6, <2>2 DEF Owes, OfPairs
  <2>4. InScope(ex, st, s, e)
    BY <1>2, <2>1, <2>3 DEF Complete, RowsInScope
  <2>5. ~ Before(st, idle, s)
    <3>1. SettlementsInOrder(ex, st, r, T)
      BY DEF Complete
    <3>2. Remaining(st, r, idle) # 0
      BY <1>1, <1>2, <1>3, PairTypes
    <3> QED BY <1>1, <1>2, <1>6, <2>1, <2>3, <3>1, <3>2 DEF SettlementsInOrder
  <2>6. ASSUME NEW f \in ExpenseIds, InScope(ex, st, s, f)
        PROVE  InScope(ex, st, idle, f)
    <3>1. Owes(ex, st, idle, f)
      BY <1>2, <1>6, <2>3, <2>6 DEF InScope, Owes
    <3>2. CASE st[idle].group = NoGroup
      BY <3>1, <3>2 DEF InScope
    <3>3. CASE st[idle].group # NoGroup
      <4>1. st[idle].group = ex[e].group
        BY <1>1, <3>3 DEF InScope
      <4>2. st[idle].group \in GroupIds
        BY <1>2, <3>3, RowTypes
      <4>3. st[s].group # NoGroup
        <5>1. st[s].group = NoGroup => PassOf(st, idle) < PassOf(st, s)
          BY <3>3, <4>2, LedgerAssumption DEF PassOf, GroupIds, NoGroup
        <5> QED BY <2>5, <5>1 DEF Before
      <4>4. st[s].group = ex[e].group /\ st[s].group = ex[f].group
        BY <2>4, <2>6, <4>3 DEF InScope
      <4> QED BY <3>1, <4>1, <4>4 DEF InScope
    <3> QED BY <3>2, <3>3
  <2> QED BY <1>1, <2>3, <2>6 DEF Confined, Reached
<1> QED BY <1>2, <1>4, <1>5, <1>6

(* The rows of the payments Y, summed by payment, are summed by share.     *)
LEMMA CoveredByShares ==
  ASSUME NEW al \in Allocs, NEW Y \in SUBSET SettlementIds
  PROVE  Total([s \in SettlementIds |-> IF s \in Y THEN Total(al[s], MaxExpense) ELSE 0],
               MaxSettlement)
           = Total([e \in ExpenseIds |->
                      Total([s \in SettlementIds |-> IF s \in Y THEN al[s][e] ELSE 0],
                            MaxSettlement)],
                   MaxExpense)
<1> DEFINE F == [s \in SettlementIds |-> [e \in ExpenseIds |-> IF s \in Y THEN al[s][e] ELSE 0]]
           rows == [s \in SettlementIds |-> IF s \in Y THEN Total(al[s], MaxExpense) ELSE 0]
           columns == [e \in ExpenseIds |->
                         Total([s \in SettlementIds |-> IF s \in Y THEN al[s][e] ELSE 0],
                               MaxSettlement)]
<1>1. /\ MaxSettlement \in Nat /\ MaxExpense \in Nat
      /\ SettlementIds = 1 .. MaxSettlement /\ ExpenseIds = 1 .. MaxExpense
  BY LedgerAssumption DEF SettlementIds, ExpenseIds
<1>2. \A s \in SettlementIds : \A e \in ExpenseIds : F[s][e] \in Int
  BY DEF Allocs
<1>3. ASSUME NEW s \in SettlementIds PROVE rows[s] = Total(F[s], MaxExpense)
  <2>1. CASE s \in Y
    <3>1. \A e \in 1 .. MaxExpense : al[s][e] \in Int /\ F[s][e] = al[s][e]
      BY <1>1, <2>1 DEF Allocs
    <3> HIDE DEF F
    <3>2. Total(F[s], MaxExpense) = Total(al[s], MaxExpense)
      BY <1>1, <3>1, TotalSame
    <3> QED BY <2>1, <3>2
  <2>2. CASE s \notin Y
    <3>1. \A e \in 1 .. MaxExpense : F[s][e] = 0
      BY <1>1, <2>2
    <3> HIDE DEF F
    <3>2. Total(F[s], MaxExpense) = 0
      BY <1>1, <3>1, TotalZero
    <3> QED BY <2>2, <3>2
  <2> QED BY <2>1, <2>2
<1>4. ASSUME NEW e \in ExpenseIds
      PROVE  columns[e] = Total([s \in 1 .. MaxSettlement |-> F[s][e]], MaxSettlement)
  <2>1. [s \in SettlementIds |-> IF s \in Y THEN al[s][e] ELSE 0]
          = [s \in 1 .. MaxSettlement |-> F[s][e]]
    BY <1>1
  <2> QED BY <2>1
<1> HIDE DEF F, rows, columns
<1>5. BothWays(MaxSettlement, MaxExpense, F, rows, columns)
  BY <1>1, <1>2, <1>3, <1>4 DEF BothWays
<1>6. Total(rows, MaxSettlement) = Total(columns, MaxExpense)
  BY <1>5, TotalSwap
<1> QED BY <1>6 DEF rows, columns

(* What a set of payments is allocated is what two halves of it are.       *)
LEMMA CoveredInHalves ==
  ASSUME NEW al \in Allocs, NEW T \in SUBSET SettlementIds, NEW Y \in SUBSET T
  PROVE  Total([s \in SettlementIds |-> IF s \in T THEN Total(al[s], MaxExpense) ELSE 0],
               MaxSettlement)
           = Total([s \in SettlementIds |->
                      IF s \in T \ Y THEN Total(al[s], MaxExpense) ELSE 0], MaxSettlement)
             + Total([s \in SettlementIds |->
                        IF s \in Y THEN Total(al[s], MaxExpense) ELSE 0], MaxSettlement)
<1> DEFINE h == [s \in SettlementIds |-> IF s \in T THEN Total(al[s], MaxExpense) ELSE 0]
           f == [s \in SettlementIds |-> IF s \in T \ Y THEN Total(al[s], MaxExpense) ELSE 0]
           g == [s \in SettlementIds |-> IF s \in Y THEN Total(al[s], MaxExpense) ELSE 0]
<1>1. /\ MaxSettlement \in Nat /\ SettlementIds = 1 .. MaxSettlement
  BY LedgerAssumption DEF SettlementIds
<1>2. \A s \in SettlementIds : Total(al[s], MaxExpense) \in Nat
  BY SumsAreNatural
<1>3. \A i \in 1 .. MaxSettlement : f[i] \in Int /\ g[i] \in Int /\ h[i] = f[i] + g[i]
  BY <1>1, <1>2
<1> HIDE DEF f, g, h
<1>4. Total(h, MaxSettlement) = Total(f, MaxSettlement) + Total(g, MaxSettlement)
  BY <1>1, <1>3, TotalPlus
<1> QED BY <1>4 DEF f, g, h

(* A rebuild allocates at least what the pair had allocated, if all of its *)
(* rows are in scope.                                                      *)
LEMMA RebuildCovers ==
  ASSUME NEW ex, NEW st, NEW al, Tables(ex, st, al), Sound(ex, st, al), NEW d, NEW c,
         NEW T, T = OfPairs(st, {<<d, c>>}), RowsInScope(ex, st, al, T),
         NEW r, r = Rebuild(ex, st, al, {<<d, c>>})
  PROVE  Covered(st, al, {<<d, c>>}) <= Covered(st, r, {<<d, c>>})
<1>1. /\ r \in Allocs /\ Sound(ex, st, r) /\ T \in SUBSET SettlementIds
      /\ Complete(ex, st, r, T)
  <2>1. T \in SUBSET SettlementIds
    BY DEF OfPairs
  <2>2. /\ r \in Allocs /\ Sound(ex, st, r)
        /\ Filled(ex, st, r, T) /\ Matches(ex, st, r, T) = {}
    BY RebuildFills
  <2> QED BY <2>1, <2>2, CompleteOfFewer
<1>2. al \in Allocs /\ Tables(ex, st, r)
  BY <1>1 DEF Tables
<1>3. PICK X : X = Reached(ex, st, r, T)
  OBVIOUS
<1>4. PICK Y : Y = Confined(ex, st, r, T)
  OBVIOUS
<1>5. Y \in SUBSET T /\ Y \in SUBSET SettlementIds
  BY <1>1, <1>4 DEF Confined
<1>6. /\ MaxSettlement \in Nat /\ MaxExpense \in Nat
      /\ SettlementIds = 1 .. MaxSettlement /\ ExpenseIds = 1 .. MaxExpense
  BY LedgerAssumption DEF SettlementIds, ExpenseIds
<1> DEFINE Half(x, S) == [s \in SettlementIds |-> IF s \in S THEN Total(x[s], MaxExpense) ELSE 0]
           Column(x) == [e \in ExpenseIds |->
                           Total([s \in SettlementIds |-> IF s \in Y THEN x[s][e] ELSE 0],
                                 MaxSettlement)]
(* Payments that could go elsewhere are spent. *)
<1>7. Total(Half(al, T \ Y), MaxSettlement) <= Total(Half(r, T \ Y), MaxSettlement)
  <2>1. \A s \in SettlementIds :
          Total(al[s], MaxExpense) \in Nat /\ Total(r[s], MaxExpense) \in Nat
    BY <1>1, <1>2, SumsAreNatural
  <2>2. ASSUME NEW s \in T \ Y PROVE Total(al[s], MaxExpense) <= Total(r[s], MaxExpense)
    <3>1. s \in SettlementIds /\ st[s] # NoRow
      BY <2>2 DEF OfPairs
    <3>2. ~ (Remaining(st, r, s) > 0)
      BY <1>4, <2>2 DEF Confined, Reached
    <3>3. st[s].pay.amount \in Nat
      BY <3>1, RowTypes
    <3>4. Remaining(st, al, s) >= 0
      BY <3>1 DEF Sound, NotOverSpent
    <3>5. /\ Remaining(st, al, s) = st[s].pay.amount - Total(al[s], MaxExpense)
          /\ Remaining(st, r, s) = st[s].pay.amount - Total(r[s], MaxExpense)
      BY DEF Remaining
    <3>6. Total(al[s], MaxExpense) \in Nat /\ Total(r[s], MaxExpense) \in Nat
      BY <2>1, <3>1
    <3> QED BY ONLY <3>2, <3>3, <3>4, <3>5, <3>6
  <2>3. \A s \in SettlementIds :
          /\ Half(al, T \ Y)[s] \in Int /\ Half(r, T \ Y)[s] \in Int
          /\ Half(al, T \ Y)[s] <= Half(r, T \ Y)[s]
    BY <2>1, <2>2
  <2> HIDE DEF Half
  <2> QED BY <1>6, <2>3, TotalMonotone
(* The shares that the others reach are closed by them. *)
<1>8. Total(Column(al), MaxExpense) <= Total(Column(r), MaxExpense)
  <2>1. ASSUME NEW x \in Allocs, NEW e \in ExpenseIds PROVE Column(x)[e] \in Nat
    <3> DEFINE f == [s \in SettlementIds |-> IF s \in Y THEN x[s][e] ELSE 0]
    <3>1. \A i \in 1 .. MaxSettlement : f[i] \in Nat
      BY <1>6 DEF Allocs
    <3> HIDE DEF f
    <3>2. Total(f, MaxSettlement) \in Nat
      BY <1>6, <3>1, TotalNatural
    <3> QED BY <3>2 DEF f
  <2>2. ASSUME NEW e \in ExpenseIds PROVE Column(al)[e] <= Column(r)[e]
    <3> DEFINE f == [s \in SettlementIds |-> IF s \in Y THEN al[s][e] ELSE 0]
               g == [s \in SettlementIds |-> IF s \in Y THEN r[s][e] ELSE 0]
               a == [s \in SettlementIds |->
                       IF st[s] # NoRow /\ st[s].pay.debtor = d THEN al[s][e] ELSE 0]
               b == [s \in SettlementIds |->
                       IF st[s] # NoRow /\ st[s].pay.debtor = d THEN r[s][e] ELSE 0]
    <3>1. \A s \in SettlementIds : al[s][e] \in Nat /\ r[s][e] \in Nat
      BY <1>1, <1>2 DEF Allocs
    <3>2. \A s \in SettlementIds :
            f[s] \in Int /\ g[s] \in Int /\ a[s] \in Int /\ b[s] \in Int
      BY <3>1
    <3>3. CASE e \in X
      <4>1. /\ ex[e] # NoRow /\ d \in Identities /\ Open(ex, st, r, e, d) = 0
            /\ \A s \in SettlementIds : st[s] # NoRow /\ st[s].pay.debtor = d
                 => r[s][e] = 0 \/ s \in Y
        BY <1>1, <1>2, <1>3, <1>4, <3>3, ReachedAreClosed
      <4>2. Allocated(st, al, e, d) <= Allocated(st, r, e, d)
        <5>1. Open(ex, st, al, e, d) >= 0
          BY <4>1 DEF Sound, NotOverSettled
        <5>2. Allocated(st, al, e, d) \in Nat /\ Allocated(st, r, e, d) \in Nat
          BY <1>1, <1>2, SumsAreNatural
        <5>3. ex[e].split.share[d] \in Nat
          BY <4>1, RowTypes
        <5> QED BY <4>1, <5>1, <5>2, <5>3 DEF Open
      <4>3. Total(a, MaxSettlement) <= Total(b, MaxSettlement)
        BY <4>2 DEF Allocated
      <4>4. \A s \in Y : st[s] # NoRow /\ st[s].pay.debtor = d
        BY <1>5 DEF OfPairs
      <4>5. \A s \in SettlementIds : f[s] <= a[s]
        BY <3>1, <4>4
      <4>6. \A s \in SettlementIds : g[s] = b[s]
        BY <4>1, <4>4
      <4>10. Column(al)[e] = Total(f, MaxSettlement) /\ Column(r)[e] = Total(g, MaxSettlement)
        OBVIOUS
      <4> HIDE DEF f, g, a, b, Column
      <4>7. Total(f, MaxSettlement) <= Total(a, MaxSettlement)
        BY <1>6, <3>2, <4>5, TotalMonotone
      <4>8. Total(g, MaxSettlement) = Total(b, MaxSettlement)
        BY <1>6, <3>2, <4>6, TotalSame
      <4>9. /\ Total(f, MaxSettlement) \in Int /\ Total(a, MaxSettlement) \in Int
            /\ Total(b, MaxSettlement) \in Int
        BY <1>6, <3>2, TotalInteger
      <4> QED BY <4>3, <4>7, <4>8, <4>9, <4>10
    <3>4. CASE e \notin X
      <4>1. \A s \in Y : ~ (al[s][e] > 0)
        BY <1>3, <1>4, <1>5, <3>4 DEF Confined, RowsInScope
      <4>2. \A s \in SettlementIds : f[s] = 0
        BY <1>5, <3>1, <4>1
      <4>3. Column(al)[e] = Total(f, MaxSettlement)
        OBVIOUS
      <4>4. Column(r)[e] \in Nat
        BY <1>1, <2>1
      <4> HIDE DEF f, Column
      <4>5. Total(f, MaxSettlement) = 0
        BY <1>6, <4>2, TotalZero
      <4> QED BY <4>3, <4>4, <4>5
    <3> QED BY <3>3, <3>4
  <2>3. \A e \in ExpenseIds : Column(al)[e] \in Nat /\ Column(r)[e] \in Nat
    BY <1>1, <1>2, <2>1
  <2> HIDE DEF Column
  <2>4. \A e \in ExpenseIds :
          /\ Column(al)[e] \in Int /\ Column(r)[e] \in Int
          /\ Column(al)[e] <= Column(r)[e]
    BY <2>2, <2>3
  <2> QED BY <1>6, <2>4, TotalMonotone
<1>9. ASSUME NEW x \in Allocs
      PROVE  Covered(st, x, {<<d, c>>})
               = Total(Half(x, T \ Y), MaxSettlement) + Total(Column(x), MaxExpense)
  <2>1. Total(Half(x, Y), MaxSettlement) = Total(Column(x), MaxExpense)
    BY <1>5, CoveredByShares
  <2>2. Total(Half(x, T), MaxSettlement)
          = Total(Half(x, T \ Y), MaxSettlement) + Total(Half(x, Y), MaxSettlement)
    BY <1>1, <1>5, CoveredInHalves
  <2>3. Covered(st, x, {<<d, c>>}) = Total(Half(x, T), MaxSettlement)
    BY DEF Covered
  <2> QED BY <2>1, <2>2, <2>3
<1>10. ASSUME NEW x \in Allocs
       PROVE  Total(Half(x, T \ Y), MaxSettlement) \in Int /\ Total(Column(x), MaxExpense) \in Int
  <2>1. \A s \in SettlementIds : Total(x[s], MaxExpense) \in Nat
    BY SumsAreNatural
  <2>2. \A i \in 1 .. MaxSettlement : Half(x, T \ Y)[i] \in Int /\ Half(x, Y)[i] \in Int
    BY <1>6, <2>1
  <2>3. Total(Half(x, Y), MaxSettlement) = Total(Column(x), MaxExpense)
    BY <1>5, CoveredByShares
  <2> HIDE DEF Half, Column
  <2>4. /\ Total(Half(x, T \ Y), MaxSettlement) \in Int
        /\ Total(Half(x, Y), MaxSettlement) \in Int
    BY <1>6, <2>2, TotalInteger
  <2> QED BY <2>3, <2>4
<1> HIDE DEF Half, Column
<1>11. /\ Covered(st, al, {<<d, c>>})
            = Total(Half(al, T \ Y), MaxSettlement) + Total(Column(al), MaxExpense)
       /\ Covered(st, r, {<<d, c>>})
            = Total(Half(r, T \ Y), MaxSettlement) + Total(Column(r), MaxExpense)
  BY <1>1, <1>2, <1>9
<1>12. /\ Total(Half(al, T \ Y), MaxSettlement) \in Int /\ Total(Column(al), MaxExpense) \in Int
       /\ Total(Half(r, T \ Y), MaxSettlement) \in Int /\ Total(Column(r), MaxExpense) \in Int
  BY <1>1, <1>2, <1>10
<1> QED BY ONLY <1>7, <1>8, <1>11, <1>12

(* The order of the two passes costs no money, in any state.               *)
THEOREM NothingIsLost == Spec => []RebuildLosesNothing
<1>1. IInv => RebuildLosesNothing
  <2> SUFFICES ASSUME IInv, NEW pr \in PaidPairs(settlement),
                      \A s \in OfPairs(settlement, {pr}), e \in ExpenseIds :
                        alloc[s][e] > 0 => InScope(expense, settlement, s, e)
               PROVE  Covered(settlement, alloc, {pr})
                        <= Covered(settlement,
                                   Rebuild(expense, settlement, alloc, {pr}), {pr})
    BY DEF RebuildLosesNothing
  <2>1. Tables(expense, settlement, alloc) /\ Sound(expense, settlement, alloc)
    BY InvImpliesTables DEF IInv
  <2>2. PICK d \in Identities, c \in Identities : pr = <<d, c>>
    BY <2>1, PaidPairTypes DEF Tables
  <2>3. PICK T : T = OfPairs(settlement, {<<d, c>>})
    OBVIOUS
  <2>4. RowsInScope(expense, settlement, alloc, T)
    BY <2>2, <2>3 DEF RowsInScope
  <2>5. PICK r : r = Rebuild(expense, settlement, alloc, {<<d, c>>})
    OBVIOUS
  <2>6. Covered(settlement, alloc, {<<d, c>>}) <= Covered(settlement, r, {<<d, c>>})
    BY <2>1, <2>3, <2>4, <2>5, RebuildCovers
  <2> QED BY <2>2, <2>5, <2>6
<1> QED BY <1>1, Invariance, PTL

(* The two passes leave no money of a pair idle beside a debt that it may  *)
(* settle, and a rebuild loses nothing.                                    *)
THEOREM ScopesAreExhausted == Spec => ScopesLeaveNothingIdle
<1>1. IInv /\ IInv' /\ [Next]_vars => NoneIdle
  BY StepsRebuild
<1> QED BY <1>1, Invariance, NothingIsLost, PTL DEF Spec, ScopesLeaveNothingIdle

(***************************************************************************)
(* The balances of SplitBalances say what the ledger says, for every       *)
(* number of users, groups, expenses and payments and for every amount.    *)
(*                                                                         *)
(* The argument: a balance is a sum over rows, a claim about balances is   *)
(* such a sum over identities, and the two sums may be taken in either     *)
(* order (SumSwap).  What one row adds up to over the identities is a      *)
(* statement about that row alone.  The rows are those the handlers write  *)
(* (Rows), and the allocations follow the debts (IInv).                    *)
(***************************************************************************)

(* A split with a share of its payer, or one stripped of all its shares.   *)
Sensible(sp) == sp \in Split /\ (sp.among = {} \/ sp.payer \in sp.among)

(* What the handlers guarantee of every row. *)
Rows(ex, st) ==
  /\ \A e \in ExpenseIds : ex[e] # NoRow =>
       ex[e].split.among = {} \/ ex[e].split \in Splits
  /\ \A s \in SettlementIds : st[s] # NoRow =>
       st[s].pay.debtor # st[s].pay.creditor

(* The inductive invariant. *)
BInv == IInv /\ Rows(expense, settlement)

(* apply_split_shares writes a split that was asked for. *)
LEMMA ApplySplitSharesRows ==
  ASSUME IInv, Rows(expense, settlement),
         NEW e \in ExpenseIds, NEW row \in Expense, NEW sp \in Splits,
         ApplySplitShares(e, row, sp), UNCHANGED settlement
  PROVE  Rows(expense, settlement)'
<1> DEFINE new == [row EXCEPT !.split = sp, !.home = row.group,
                              !.adhoc = IF row.group = NoGroup THEN sp.among ELSE @]
<1>1. new.split = sp
  BY DEF Expense
<1>2. expense' = [expense EXCEPT ![e] = new]
  BY DEF ApplySplitShares
<1> HIDE DEF new
<1>3. \A f \in ExpenseIds : expense'[f] = IF f = e THEN new ELSE expense[f]
  BY <1>2 DEF IInv, TypeOK
<1> QED BY <1>1, <1>3 DEF Rows

(* Every handler keeps the rows as they should be. *)
LEMMA NextPreservesRows == BInv /\ [Next]_vars => Rows(expense, settlement)'
<1> SUFFICES ASSUME IInv, Rows(expense, settlement), [Next]_vars
             PROVE  Rows(expense, settlement)'
  BY DEF BInv
<1> DEFINE Groups == {NoGroup} \cup GroupIds
<1>0. /\ expense \in [ExpenseIds -> Expense \cup {NoRow}]
      /\ settlement \in [SettlementIds -> Settlement \cup {NoRow}]
  BY DEF IInv, TypeOK
<1>1. ASSUME UNCHANGED <<expense, settlement>> PROVE Rows(expense, settlement)'
  BY <1>1
<1>2. ASSUME NEW u \in Users, ChangeMembers(u) PROVE Rows(expense, settlement)'
  BY <1>1, <1>2 DEF ChangeMembers, AddMember, RemoveMember
<1>3. ASSUME NEW u \in Users, NEW g \in GroupIds, CreateGroup(u, g)
      PROVE  Rows(expense, settlement)'
  BY <1>1, <1>3 DEF CreateGroup
<1>4. ASSUME NEW u \in Users, NEW g \in GroupIds, DeleteGroup(u, g)
      PROVE  Rows(expense, settlement)'
  <2> DEFINE E == {e \in ExpenseIds : expense[e] # NoRow /\ expense[e].group = g}
             moved == {e \in ExpenseIds \ E : expense[e] # NoRow /\ expense[e].home = g}
             S == {s \in SettlementIds :
                     settlement[s] # NoRow /\ settlement[s].group = g}
  <2>1. /\ expense' = [e \in ExpenseIds |->
                         IF e \in E THEN NoRow
                         ELSE IF e \in moved
                              THEN [expense[e] EXCEPT !.split.among = {}]
                              ELSE expense[e]]
        /\ settlement' = [s \in SettlementIds |->
                            IF s \in S THEN NoRow ELSE settlement[s]]
        /\ \A e \in moved : e \in ExpenseIds /\ expense[e] # NoRow
    BY <1>4 DEF DeleteGroup
  <2> HIDE DEF E, moved, S
  <2>2. ASSUME NEW e \in ExpenseIds, expense'[e] # NoRow
        PROVE  expense'[e].split.among = {} \/ expense'[e].split \in Splits
    <3>1. CASE e \in moved
      <4>1. expense[e] \in Expense /\ expense[e].split \in Split
        BY <1>0, <2>1, <3>1 DEF Expense
      <4>2. expense'[e] = [expense[e] EXCEPT !.split.among = {}]
        BY <2>1, <2>2, <3>1
      <4> QED BY <4>1, <4>2 DEF Expense, Split
    <3>2. CASE e \notin moved
      <4>1. expense'[e] = expense[e]
        BY <2>1, <2>2, <3>2
      <4> QED BY <2>2, <4>1 DEF Rows
    <3> QED BY <3>1, <3>2
  <2>3. \A s \in SettlementIds : settlement'[s] # NoRow => settlement'[s] = settlement[s]
    BY <2>1
  <2> QED BY <2>2, <2>3 DEF Rows
<1>5. ASSUME NEW u \in Users, NEW g \in Groups, NEW d \in Dates, NEW sp \in Splits,
             CreateExpense(u, g, d, sp)
      PROVE  Rows(expense, settlement)'
  <2> DEFINE e == last.expense + 1
             row == [group |-> g, date |-> d, by |-> u, split |-> sp, adhoc |-> {},
                     home |-> g]
  <2>1. e \in ExpenseIds
    BY <1>5, LedgerAssumption DEF CreateExpense, IInv, TypeOK, ExpenseIds
  <2>2. row \in Expense
    BY LedgerAssumption DEF Expense
  <2>3. ApplySplitShares(e, row, sp) /\ UNCHANGED settlement
    BY <1>5 DEF CreateExpense
  <2> HIDE DEF e, row
  <2> QED BY <2>1, <2>2, <2>3, ApplySplitSharesRows
<1>6. ASSUME NEW u \in Users, NEW e \in ExpenseIds, NEW g \in Groups,
             NEW d \in Dates, NEW sp \in Splits, EditExpense(u, e, g, d, sp)
      PROVE  Rows(expense, settlement)'
  <2> DEFINE row == [expense[e] EXCEPT !.group = g, !.date = d]
  <2>1. expense[e] \in Expense
    BY <1>0, <1>6 DEF EditExpense, CanAccessExpense
  <2>2. row \in Expense
    BY <2>1 DEF Expense
  <2>3. ApplySplitShares(e, row, sp) /\ UNCHANGED settlement
    BY <1>6 DEF EditExpense
  <2> HIDE DEF row
  <2> QED BY <2>2, <2>3, ApplySplitSharesRows
<1>7. ASSUME NEW u \in Users, WriteExpense(u) PROVE Rows(expense, settlement)'
  BY <1>5, <1>6, <1>7 DEF WriteExpense
<1>8. ASSUME NEW u \in Users, NEW e \in ExpenseIds, NEW g \in Groups,
             NEW d \in Dates, PatchExpense(u, e, g, d)
      PROVE  Rows(expense, settlement)'
  <2>1. expense[e] \in Expense /\ expense[e] # NoRow
    BY <1>0, <1>8 DEF PatchExpense, CanAccessExpense
  <2>2. /\ \A f \in ExpenseIds \ {e} : expense'[f] = expense[f]
        /\ expense'[e].split = expense[e].split
        /\ settlement' = settlement
    BY <1>0, <1>8, <2>1 DEF PatchExpense, Expense
  <2> QED BY <2>1, <2>2 DEF Rows
<1>9. ASSUME NEW u \in Users, NEW e \in ExpenseIds, DeleteExpense(u, e)
      PROVE  Rows(expense, settlement)'
  BY <1>0, <1>9 DEF DeleteExpense, Rows
<1>10. ASSUME NEW u \in Users, NEW g \in Groups, NEW pay \in Payments,
              CreateSettlement(u, g, pay)
       PROVE  Rows(expense, settlement)'
  <2>1. PICK s : settlement' = [settlement EXCEPT ![s] = [group |-> g, pay |-> pay]]
    BY <1>10 DEF CreateSettlement
  <2>2. pay.debtor # pay.creditor /\ expense' = expense
    BY <1>10 DEF CreateSettlement
  <2>3. \A t \in SettlementIds :
          settlement'[t] = settlement[t] \/ settlement'[t].pay = pay
    BY <1>0, <2>1
  <2> QED BY <2>2, <2>3 DEF Rows
<1>11. ASSUME NEW u \in Users, NEW s \in SettlementIds, DeleteSettlement(u, s)
       PROVE  Rows(expense, settlement)'
  BY <1>0, <1>11 DEF DeleteSettlement, Rows
<1>12. ASSUME NEW s \in SettlementIds, Backfill(s) PROVE Rows(expense, settlement)'
  BY <1>1, <1>12 DEF Backfill
<1>13. ASSUME UNCHANGED vars PROVE Rows(expense, settlement)'
  BY <1>1, <1>13 DEF vars
<1> QED
  BY <1>2, <1>3, <1>4, <1>7, <1>8, <1>9, <1>10, <1>11, <1>12, <1>13 DEF Next

(* The invariant holds in every reachable state. *)
THEOREM BalancesInvariance == Spec => []BInv
<1>1. Init => BInv
  <2>1. Init => Rows(expense, settlement)
    BY DEF Init, Rows
  <2> QED BY <2>1, InitEstablishesInv DEF BInv
<1>2. BInv /\ [Next]_vars => BInv'
  <2>1. BInv /\ [Next]_vars => IInv'
    BY NextPreservesInv DEF BInv
  <2>2. BInv /\ [Next]_vars => Rows(expense, settlement)'
    BY NextPreservesRows
  <2> QED BY <2>1, <2>2 DEF BInv
<1> QED BY <1>1, <1>2, PTL DEF Spec

-----------------------------------------------------------------------------
(* What one row adds up to.                                                *)

(* The columns of a split are natural numbers. *)
LEMMA MissedTypes ==
  ASSUME IsFiniteSet(Identities), NEW sp, Sensible(sp)
  PROVE  /\ IsFiniteSet(sp.among) /\ sp.among \subseteq Identities
         /\ sp.amount \in Int /\ sp.payer \in Identities
         /\ \A x \in Identities : sp.share[x] \in Int
         /\ SumOver(sp.among, sp.share) \in Int /\ Missed(sp) \in Int
<1>1. /\ sp.among \subseteq Identities /\ sp.amount \in Int /\ sp.payer \in Identities
      /\ \A x \in Identities : sp.share[x] \in Int
  BY DEF Sensible, Split
<1>2. IsFiniteSet(sp.among)
  BY <1>1, FS_Subset
<1>3. \A x \in sp.among : sp.share[x] \in Int
  BY <1>1
<1>4. SumOver(sp.among, sp.share) \in Int
  BY <1>2, <1>3, SumInteger
<1> QED BY <1>1, <1>2, <1>4 DEF Missed

(* The shares of one expense credit and debit the same, but for the cents  *)
(* the shares have missed.                                                 *)
LEMMA ShareEffectsCancel ==
  ASSUME IsFiniteSet(Identities), NEW sp, Sensible(sp)
  PROVE  SumOver(Identities, [k \in Identities |-> ShareEffect(sp, k)]) = Missed(sp)
<1> DEFINE f == [k \in Identities |-> ShareEffect(sp, k)]
<1>0. /\ IsFiniteSet(sp.among) /\ sp.among \in SUBSET Identities
      /\ sp.amount \in Int /\ sp.payer \in Identities
      /\ \A x \in Identities : sp.share[x] \in Int
      /\ SumOver(sp.among, sp.share) \in Int /\ Missed(sp) \in Int
  BY MissedTypes
<1>1. CASE sp.among = {}
  <2>1. \A k \in Identities : f[k] = 0
    BY <1>1 DEF ShareEffect
  <2> HIDE DEF f
  <2>2. SumOver(Identities, f) = 0
    BY <2>1, SumZero
  <2> QED BY <1>1, <2>2 DEF Missed, f
<1>2. CASE sp.payer \in sp.among
  <2> DEFINE paid == [k \in Identities |-> IF k = sp.payer THEN sp.amount ELSE 0]
             owed == [k \in Identities |-> IF k \in sp.among THEN sp.share[k] ELSE 0]
             minus == [k \in Identities |-> -owed[k]]
  <2>1. \A k \in Identities : /\ paid[k] \in Int /\ minus[k] \in Int
                              /\ f[k] = paid[k] + minus[k]
    BY <1>0, <1>2 DEF ShareEffect
  <2>2. /\ paid[sp.payer] \in Int /\ paid[sp.payer] = sp.amount
        /\ \A k \in Identities : k # sp.payer => paid[k] = 0
    BY <1>0
  <2>3. \A k \in Identities : owed[k] \in Int /\ minus[k] = -owed[k]
    BY <1>0
  <2>4. /\ \A k \in sp.among : owed[k] \in Int /\ sp.share[k] = owed[k]
        /\ \A k \in Identities \ sp.among : owed[k] = 0
    BY <1>0
  <2> HIDE DEF f, paid, owed, minus
  <2>5. SumOver(Identities, f) = SumOver(Identities, paid) + SumOver(Identities, minus)
    BY <2>1, SumPlus
  <2>6. SumOver(Identities, paid) = sp.amount
    BY <1>0, <2>2, SumOnlyAt
  <2>7. SumOver(Identities, minus) = -SumOver(Identities, owed)
    BY <2>3, SumOpposite
  <2>8. SumOver(Identities, owed) = SumOver(sp.among, sp.share)
    BY <1>0, <2>4, SumWithin
  <2>9. SumOver(Identities, f) = sp.amount - SumOver(sp.among, sp.share)
    BY <1>0, <2>5, <2>6, <2>7, <2>8
  <2>10. Missed(sp) = sp.amount - SumOver(sp.among, sp.share)
    BY <1>2 DEF Missed
  <2> QED BY <2>9, <2>10 DEF f
<1> QED BY <1>1, <1>2 DEF Sensible

(* A payment between two identities credits one with what it debits the    *)
(* other.                                                                  *)
LEMMA PaymentEffectsCancel ==
  ASSUME IsFiniteSet(Identities), NEW pay, NEW amount \in Int,
         pay.debtor \in Identities, pay.creditor \in Identities,
         pay.debtor # pay.creditor
  PROVE  SumOver(Identities, [k \in Identities |-> PaymentEffect(pay, amount, k)]) = 0
<1> DEFINE f == [k \in Identities |-> PaymentEffect(pay, amount, k)]
           out == [k \in Identities |-> IF k = pay.debtor THEN amount ELSE 0]
           in == [k \in Identities |-> IF k = pay.creditor THEN -amount ELSE 0]
<1>1. \A k \in Identities : out[k] \in Int /\ in[k] \in Int /\ f[k] = out[k] + in[k]
  BY DEF PaymentEffect
<1>2. /\ out[pay.debtor] \in Int /\ out[pay.debtor] = amount
      /\ \A k \in Identities : k # pay.debtor => out[k] = 0
  OBVIOUS
<1>3. /\ in[pay.creditor] \in Int /\ in[pay.creditor] = -amount
      /\ \A k \in Identities : k # pay.creditor => in[k] = 0
  OBVIOUS
<1> HIDE DEF f, out, in
<1>4. SumOver(Identities, f) = SumOver(Identities, out) + SumOver(Identities, in)
  BY <1>1, SumPlus
<1>5. SumOver(Identities, out) = amount
  BY <1>2, SumOnlyAt
<1>6. SumOver(Identities, in) = -amount
  BY <1>3, SumOnlyAt
<1>7. SumOver(Identities, f) = 0
  BY <1>4, <1>5, <1>6
<1> QED BY <1>7 DEF f

(* What the others owe me by one expense is what it does to my balance,    *)
(* but for the cents missed by an expense I have paid.                     *)
LEMMA OwedAddsUp ==
  ASSUME IsFiniteSet(Identities), NEW sp, Sensible(sp), NEW u \in Identities
  PROVE  SumOver(Identities, [k \in Identities |-> OwedIn(sp, u, k)])
           = ShareEffect(sp, u) - (IF sp.payer = u THEN Missed(sp) ELSE 0)
<1> DEFINE f == [k \in Identities |-> OwedIn(sp, u, k)]
<1>0. /\ IsFiniteSet(sp.among) /\ sp.among \in SUBSET Identities
      /\ sp.amount \in Int /\ sp.payer \in Identities
      /\ \A x \in Identities : sp.share[x] \in Int
      /\ SumOver(sp.among, sp.share) \in Int /\ Missed(sp) \in Int
  BY MissedTypes
<1>1. CASE sp.among = {}
  <2>1. \A k \in Identities : f[k] = 0
    BY <1>1 DEF OwedIn
  <2> HIDE DEF f
  <2>2. SumOver(Identities, f) = 0
    BY <2>1, SumZero
  <2>3. Missed(sp) = 0 /\ ShareEffect(sp, u) = 0
    BY <1>1 DEF Missed, ShareEffect
  <2> QED BY <2>2, <2>3 DEF f
<1>2. CASE sp.payer \in sp.among /\ u \notin sp.among
  <2>1. \A k \in Identities : f[k] = 0
    BY <1>2 DEF OwedIn
  <2> HIDE DEF f
  <2>2. SumOver(Identities, f) = 0
    BY <2>1, SumZero
  <2>3. sp.payer # u /\ ShareEffect(sp, u) = 0
    BY <1>2 DEF ShareEffect
  <2> QED BY <2>2, <2>3 DEF f
<1>3. CASE sp.payer \in sp.among /\ u \in sp.among /\ u # sp.payer
  <2>1. /\ f[sp.payer] \in Int /\ f[sp.payer] = -sp.share[u]
        /\ \A k \in Identities : k # sp.payer => f[k] = 0
    BY <1>0, <1>3 DEF OwedIn
  <2> HIDE DEF f
  <2>2. SumOver(Identities, f) = -sp.share[u]
    BY <1>0, <2>1, SumOnlyAt
  <2>3. ShareEffect(sp, u) = -sp.share[u] /\ sp.share[u] \in Int
    BY <1>0, <1>3 DEF ShareEffect
  <2> QED BY <1>3, <2>2, <2>3 DEF f
<1>4. CASE sp.payer \in sp.among /\ u = sp.payer
  <2> DEFINE mine == [k \in Identities |-> IF k = u THEN -sp.share[u] ELSE 0]
             owed == [k \in Identities |-> IF k \in sp.among THEN sp.share[k] ELSE 0]
  <2>1. \A k \in Identities : /\ owed[k] \in Int /\ mine[k] \in Int
                              /\ f[k] = owed[k] + mine[k]
    BY <1>0, <1>4 DEF OwedIn
  <2>2. /\ mine[u] \in Int /\ mine[u] = -sp.share[u]
        /\ \A k \in Identities : k # u => mine[k] = 0
    BY <1>0
  <2>3. /\ \A k \in sp.among : owed[k] \in Int /\ sp.share[k] = owed[k]
        /\ \A k \in Identities \ sp.among : owed[k] = 0
    BY <1>0
  <2> HIDE DEF f, owed, mine
  <2>4. SumOver(Identities, f) = SumOver(Identities, owed) + SumOver(Identities, mine)
    BY <2>1, SumPlus
  <2>5. SumOver(Identities, mine) = -sp.share[u]
    BY <2>2, SumOnlyAt
  <2>6. SumOver(Identities, owed) = SumOver(sp.among, sp.share)
    BY <1>0, <2>3, SumWithin
  <2>7. /\ ShareEffect(sp, u) = sp.amount - sp.share[u]
        /\ Missed(sp) = sp.amount - SumOver(sp.among, sp.share)
    BY <1>4 DEF Missed, ShareEffect
  <2>8. SumOver(Identities, f) = ShareEffect(sp, u) - Missed(sp)
    BY <1>0, <2>4, <2>5, <2>6, <2>7
  <2> QED BY <1>4, <2>8 DEF f
<1> QED BY <1>1, <1>2, <1>3, <1>4 DEF Sensible

(* A payment does to my balance what it does to my pairs. *)
LEMMA PaidAddsUp ==
  ASSUME IsFiniteSet(Identities), NEW pay, NEW u \in Identities,
         pay.amount \in Int, pay.debtor \in Identities, pay.creditor \in Identities,
         pay.debtor # pay.creditor
  PROVE  SumOver(Identities, [k \in Identities |-> PaidTo(pay, u, k)])
           = PaymentEffect(pay, pay.amount, u)
<1> DEFINE f == [k \in Identities |-> PaidTo(pay, u, k)]
<1>1. CASE u = pay.debtor
  <2>1. /\ f[pay.creditor] \in Int /\ f[pay.creditor] = pay.amount
        /\ \A k \in Identities : k # pay.creditor => f[k] = 0
    BY <1>1 DEF PaidTo
  <2> HIDE DEF f
  <2>2. SumOver(Identities, f) = pay.amount
    BY <2>1, SumOnlyAt
  <2> QED BY <1>1, <2>2 DEF f, PaymentEffect
<1>2. CASE u = pay.creditor
  <2>1. /\ f[pay.debtor] \in Int /\ f[pay.debtor] = -pay.amount
        /\ \A k \in Identities : k # pay.debtor => f[k] = 0
    BY <1>2 DEF PaidTo
  <2> HIDE DEF f
  <2>2. SumOver(Identities, f) = -pay.amount
    BY <2>1, SumOnlyAt
  <2> QED BY <1>2, <2>2 DEF f, PaymentEffect
<1>3. CASE u # pay.debtor /\ u # pay.creditor
  <2>1. \A k \in Identities : f[k] = 0
    BY <1>3 DEF PaidTo
  <2> HIDE DEF f
  <2>2. SumOver(Identities, f) = 0
    BY <2>1, SumZero
  <2> QED BY <1>3, <2>2 DEF f, PaymentEffect
<1> QED BY <1>1, <1>2, <1>3

-----------------------------------------------------------------------------
(* What all the rows add up to.                                            *)

(* The rows of every reachable state. *)
LEMMA RowFacts ==
  ASSUME BInv
  PROVE  /\ IsFiniteSet(Expenses) /\ IsFiniteSet(Settlements)
         /\ \A e \in Expenses : Sensible(expense[e].split)
         /\ \A s \in Settlements :
              /\ settlement[s].pay.amount \in Int
              /\ settlement[s].pay.debtor \in Identities
              /\ settlement[s].pay.creditor \in Identities
              /\ settlement[s].pay.debtor # settlement[s].pay.creditor
         /\ \A s \in SettlementIds, e \in ExpenseIds : alloc[s][e] \in Int
<1>1. /\ expense \in [ExpenseIds -> Expense \cup {NoRow}]
      /\ settlement \in [SettlementIds -> Settlement \cup {NoRow}]
      /\ alloc \in [SettlementIds -> [ExpenseIds -> Nat]]
      /\ Rows(expense, settlement)
  BY DEF BInv, IInv, TypeOK
<1>2. IsFiniteSet(Expenses) /\ IsFiniteSet(Settlements)
  <2>1. IsFiniteSet(1 .. MaxExpense) /\ IsFiniteSet(1 .. MaxSettlement)
    BY LedgerAssumption, FS_Interval
  <2>2. Expenses \subseteq 1 .. MaxExpense /\ Settlements \subseteq 1 .. MaxSettlement
    BY DEF Expenses, Settlements, ExpenseIds, SettlementIds
  <2> QED BY <2>1, <2>2, FS_Subset
<1>3. ASSUME NEW e \in Expenses PROVE Sensible(expense[e].split)
  <2>1. e \in ExpenseIds /\ expense[e] \in Expense
    BY <1>1 DEF Expenses
  <2>2. expense[e].split \in Split
    BY <2>1 DEF Expense
  <2>3. expense[e].split.among = {} \/ expense[e].split \in Splits
    BY <1>1, <2>1 DEF Rows, Expenses
  <2> QED BY <2>2, <2>3, LedgerAssumption DEF Sensible
<1>4. ASSUME NEW s \in Settlements
      PROVE  /\ settlement[s].pay.amount \in Int
             /\ settlement[s].pay.debtor \in Identities
             /\ settlement[s].pay.creditor \in Identities
             /\ settlement[s].pay.debtor # settlement[s].pay.creditor
  <2>1. s \in SettlementIds /\ settlement[s] \in Settlement
    BY <1>1 DEF Settlements
  <2>2. settlement[s].pay \in Payment
    BY <2>1 DEF Settlement
  <2>3. settlement[s].pay.debtor # settlement[s].pay.creditor
    BY <1>1, <2>1 DEF Rows, Settlements
  <2> QED BY <2>2, <2>3 DEF Payment
<1>5. \A s \in SettlementIds, e \in ExpenseIds : alloc[s][e] \in Int
  BY <1>1
<1> QED BY <1>2, <1>3, <1>4, <1>5

(* What rows add to a balance are integers. *)
LEMMA EffectsAreIntegers ==
  ASSUME IsFiniteSet(Identities), BInv
  PROVE  /\ \A e \in Expenses, u \in Identities :
              /\ ShareEffect(expense[e].split, u) \in Int
              /\ Missed(expense[e].split) \in Int
         /\ \A e \in Expenses, u, k \in Identities : OwedIn(expense[e].split, u, k) \in Int
         /\ \A s \in Settlements, u, k \in Identities : PaidTo(settlement[s].pay, u, k) \in Int
         /\ \A s \in Settlements, u \in Identities, a \in Int :
              PaymentEffect(settlement[s].pay, a, u) \in Int
<1>1. ASSUME NEW e \in Expenses, NEW u \in Identities
      PROVE  /\ ShareEffect(expense[e].split, u) \in Int
             /\ Missed(expense[e].split) \in Int
             /\ \A k \in Identities : OwedIn(expense[e].split, u, k) \in Int
  <2> DEFINE sp == expense[e].split
  <2>1. Sensible(sp)
    BY RowFacts
  <2> HIDE DEF sp
  <2>2. /\ sp.amount \in Int /\ \A x \in Identities : sp.share[x] \in Int
        /\ Missed(sp) \in Int
    BY <2>1, MissedTypes
  <2>3. ShareEffect(sp, u) \in Int /\ \A k \in Identities : OwedIn(sp, u, k) \in Int
    BY <2>2 DEF ShareEffect, OwedIn
  <2> QED BY <2>2, <2>3 DEF sp
<1>2. ASSUME NEW s \in Settlements
      PROVE  /\ \A u, k \in Identities : PaidTo(settlement[s].pay, u, k) \in Int
             /\ \A u \in Identities, a \in Int : PaymentEffect(settlement[s].pay, a, u) \in Int
  BY RowFacts DEF PaidTo, PaymentEffect
<1> QED BY <1>1, <1>2

(* The pairwise balances of an identity, summed row by row. *)
LEMMA RelativeAddsUp ==
  ASSUME IsFiniteSet(Identities), BInv, NEW u \in Identities
  PROVE  SumOver(Identities, [k \in Identities |-> Relative(Expenses, u, k)])
           = Balance(Expenses, Settlements, u)
             - SumOver(Expenses, [e \in Expenses |->
                 IF expense[e].split.payer = u THEN Missed(expense[e].split) ELSE 0])
<1> DEFINE rel == [k \in Identities |-> Relative(Expenses, u, k)]
           Owed == [k \in Identities |-> [e \in Expenses |-> OwedIn(expense[e].split, u, k)]]
           Paid == [k \in Identities |-> [s \in Settlements |-> PaidTo(settlement[s].pay, u, k)]]
           owed == [k \in Identities |-> SumOver(Expenses, Owed[k])]
           paid == [k \in Identities |-> SumOver(Settlements, Paid[k])]
           byExpense == [e \in Expenses |-> SumOver(Identities, [k \in Identities |-> Owed[k][e]])]
           byPayment == [s \in Settlements |-> SumOver(Identities, [k \in Identities |-> Paid[k][s]])]
           shares == [e \in Expenses |-> ShareEffect(expense[e].split, u)]
           lost == [e \in Expenses |->
                      IF expense[e].split.payer = u THEN Missed(expense[e].split) ELSE 0]
           minus == [e \in Expenses |-> -lost[e]]
           pays == [s \in Settlements |-> PaymentEffect(settlement[s].pay, settlement[s].pay.amount, u)]
<1>0. IsFiniteSet(Expenses) /\ IsFiniteSet(Settlements)
  BY RowFacts
<1>1. /\ \A k \in Identities, e \in Expenses : Owed[k][e] \in Int
      /\ \A k \in Identities, s \in Settlements : Paid[k][s] \in Int
  BY EffectsAreIntegers
<1>2. \A k \in Identities : /\ owed[k] = SumOver(Expenses, Owed[k])
                            /\ paid[k] = SumOver(Settlements, Paid[k])
  OBVIOUS
<1>3. /\ \A e \in Expenses :
           byExpense[e] = SumOver(Identities, [k \in Identities |-> Owed[k][e]])
      /\ \A s \in Settlements :
           byPayment[s] = SumOver(Identities, [k \in Identities |-> Paid[k][s]])
  OBVIOUS
<1>4. \A k \in Identities : rel[k] = owed[k] + paid[k]
  BY DEF Relative
<1>5. ASSUME NEW e \in Expenses
      PROVE  /\ shares[e] \in Int /\ lost[e] \in Int /\ minus[e] \in Int
             /\ minus[e] = -lost[e] /\ byExpense[e] = shares[e] + minus[e]
  <2>1. /\ ShareEffect(expense[e].split, u) \in Int /\ Missed(expense[e].split) \in Int
        /\ Sensible(expense[e].split)
    BY EffectsAreIntegers, RowFacts
  <2>2. [k \in Identities |-> Owed[k][e]]
          = [k \in Identities |-> OwedIn(expense[e].split, u, k)]
    OBVIOUS
  <2>3. SumOver(Identities, [k \in Identities |-> OwedIn(expense[e].split, u, k)])
          = ShareEffect(expense[e].split, u)
            - (IF expense[e].split.payer = u THEN Missed(expense[e].split) ELSE 0)
    BY <2>1, OwedAddsUp
  <2>4. byExpense[e] = ShareEffect(expense[e].split, u)
            - (IF expense[e].split.payer = u THEN Missed(expense[e].split) ELSE 0)
    BY <2>2, <2>3, Zenon
  <2> HIDE DEF byExpense
  <2> QED BY <2>1, <2>4
<1>6. ASSUME NEW s \in Settlements
      PROVE  pays[s] \in Int /\ pays[s] = byPayment[s]
  <2> DEFINE pay == settlement[s].pay
  <2>1. /\ pay.amount \in Int /\ pay.debtor \in Identities /\ pay.creditor \in Identities
        /\ pay.debtor # pay.creditor
    BY RowFacts
  <2>2. [k \in Identities |-> Paid[k][s]] = [k \in Identities |-> PaidTo(pay, u, k)]
    OBVIOUS
  <2>3. pays[s] \in Int /\ pays[s] = PaymentEffect(pay, pay.amount, u)
    BY <2>1, EffectsAreIntegers
  <2>5. byPayment[s] = SumOver(Identities, [k \in Identities |-> PaidTo(pay, u, k)])
    BY <2>2, Zenon
  <2> HIDE DEF pay
  <2>4. SumOver(Identities, [k \in Identities |-> PaidTo(pay, u, k)])
          = PaymentEffect(pay, pay.amount, u)
    BY <2>1, PaidAddsUp
  <2> QED BY <2>3, <2>4, <2>5
<1>7. Balance(Expenses, Settlements, u) = SumOver(Expenses, shares) + SumOver(Settlements, pays)
  BY DEF Balance
<1> HIDE DEF rel, Owed, Paid, owed, paid, byExpense, byPayment, shares, lost, minus, pays
<1>8. SumOver(Identities, owed) = SumOver(Expenses, byExpense)
  <2>1. CrossSums(Identities, Expenses, Owed, owed, byExpense)
    BY <1>0, <1>1, <1>2, <1>3 DEF CrossSums
  <2> QED BY <2>1, SumSwap
<1>9. SumOver(Identities, paid) = SumOver(Settlements, byPayment)
  <2>1. CrossSums(Identities, Settlements, Paid, paid, byPayment)
    BY <1>0, <1>1, <1>2, <1>3 DEF CrossSums
  <2> QED BY <2>1, SumSwap
<1>10. SumOver(Identities, rel) = SumOver(Identities, owed) + SumOver(Identities, paid)
  <2>1. \A k \in Identities : \A e \in Expenses : Owed[k][e] \in Int
    BY <1>1
  <2>2. \A k \in Identities : \A s \in Settlements : Paid[k][s] \in Int
    BY <1>1
  <2>3. ASSUME NEW k \in Identities PROVE owed[k] \in Int /\ paid[k] \in Int
    <3> DEFINE f == Owed[k]
               g == Paid[k]
    <3>1. (\A e \in Expenses : f[e] \in Int) /\ (\A s \in Settlements : g[s] \in Int)
      BY <2>1, <2>2
    <3>2. owed[k] = SumOver(Expenses, f) /\ paid[k] = SumOver(Settlements, g)
      BY <1>2
    <3> HIDE DEF f, g
    <3>3. SumOver(Expenses, f) \in Int /\ SumOver(Settlements, g) \in Int
      BY <1>0, <3>1, SumInteger
    <3> QED BY <3>2, <3>3
  <2>4. \A k \in Identities : owed[k] \in Int /\ paid[k] \in Int /\ rel[k] = owed[k] + paid[k]
    BY <1>4, <2>3
  <2> QED BY <2>4, SumPlus
<1>11. SumOver(Expenses, byExpense) = SumOver(Expenses, shares) + SumOver(Expenses, minus)
  BY <1>0, <1>5, SumPlus
<1>12. SumOver(Expenses, minus) = -SumOver(Expenses, lost)
  BY <1>0, <1>5, SumOpposite
<1>13. SumOver(Settlements, byPayment) = SumOver(Settlements, pays)
  <2>1. /\ \A s \in Settlements : byPayment[s] \in Int /\ pays[s] = byPayment[s]
        /\ \A s \in Settlements \ Settlements : byPayment[s] = 0
    BY <1>6
  <2> QED BY <1>0, <2>1, SumWithin
<1>14. /\ SumOver(Expenses, shares) \in Int /\ SumOver(Expenses, lost) \in Int
       /\ SumOver(Settlements, pays) \in Int
  BY <1>0, <1>5, <1>6, SumInteger
<1>15. SumOver(Identities, rel)
         = Balance(Expenses, Settlements, u) - SumOver(Expenses, lost)
  BY <1>7, <1>8, <1>9, <1>10, <1>11, <1>12, <1>13, <1>14
<1> QED BY <1>15 DEF rel, lost

(* The shares of E, over all identities. *)
LEMMA SharesCancel ==
  ASSUME IsFiniteSet(Identities), BInv, NEW E \in SUBSET Expenses
  PROVE  SumOver(Identities, [k \in Identities |->
           SumOver(E, [e \in E |-> ShareEffect(expense[e].split, k)])])
         = SumOver(E, [e \in E |-> Missed(expense[e].split)])
<1> DEFINE F == [k \in Identities |-> [e \in E |-> ShareEffect(expense[e].split, k)]]
           rows == [k \in Identities |-> SumOver(E, F[k])]
           columns == [e \in E |-> SumOver(Identities, [k \in Identities |-> F[k][e]])]
           missed == [e \in E |-> Missed(expense[e].split)]
           goal == [k \in Identities |->
                      SumOver(E, [e \in E |-> ShareEffect(expense[e].split, k)])]
<1>1. IsFiniteSet(E)
  BY RowFacts, FS_Subset
<1>2. \A k \in Identities : \A e \in E : F[k][e] \in Int
  BY EffectsAreIntegers
<1>3. /\ \A k \in Identities : rows[k] = SumOver(E, F[k])
      /\ \A e \in E : columns[e] = SumOver(Identities, [k \in Identities |-> F[k][e]])
  OBVIOUS
<1>4. goal = rows
  OBVIOUS
<1>5. ASSUME NEW e \in E PROVE columns[e] \in Int /\ missed[e] = columns[e]
  <2>1. Sensible(expense[e].split)
    BY RowFacts
  <2>2. [k \in Identities |-> F[k][e]]
          = [k \in Identities |-> ShareEffect(expense[e].split, k)]
    OBVIOUS
  <2>3. SumOver(Identities, [k \in Identities |-> ShareEffect(expense[e].split, k)])
          = Missed(expense[e].split)
    BY <2>1, ShareEffectsCancel
  <2>4. Missed(expense[e].split) \in Int
    BY <2>1, MissedTypes
  <2>5. columns[e] = Missed(expense[e].split)
    BY <2>2, <2>3, Zenon
  <2> HIDE DEF columns
  <2> QED BY <2>4, <2>5
<1> HIDE DEF F, rows, columns, missed, goal
<1>6. CrossSums(Identities, E, F, rows, columns)
  BY <1>1, <1>2, <1>3 DEF CrossSums
<1>7. SumOver(Identities, rows) = SumOver(E, columns)
  BY <1>6, SumSwap
<1>8. SumOver(E, columns) = SumOver(E, missed)
  <2>1. /\ \A e \in E : columns[e] \in Int /\ missed[e] = columns[e]
        /\ \A e \in E \ E : columns[e] = 0
    BY <1>5
  <2> QED BY <1>1, <2>1, SumWithin
<1>9. SumOver(Identities, goal) = SumOver(E, missed)
  BY <1>4, <1>7, <1>8
<1> QED BY <1>9 DEF goal, missed

(* The payments of S, whatever part of each counts, over all identities. *)
LEMMA PaymentsCancel ==
  ASSUME IsFiniteSet(Identities), BInv, NEW S \in SUBSET Settlements,
         NEW amount, \A s \in S : amount[s] \in Int
  PROVE  SumOver(Identities, [k \in Identities |->
           SumOver(S, [s \in S |-> PaymentEffect(settlement[s].pay, amount[s], k)])]) = 0
<1> DEFINE F == [k \in Identities |->
                   [s \in S |-> PaymentEffect(settlement[s].pay, amount[s], k)]]
           rows == [k \in Identities |-> SumOver(S, F[k])]
           columns == [s \in S |-> SumOver(Identities, [k \in Identities |-> F[k][s]])]
           goal == [k \in Identities |-> SumOver(S, [s \in S |->
                      PaymentEffect(settlement[s].pay, amount[s], k)])]
<1>1. IsFiniteSet(S)
  BY RowFacts, FS_Subset
<1>2. \A k \in Identities : \A s \in S : F[k][s] \in Int
  BY EffectsAreIntegers
<1>3. /\ \A k \in Identities : rows[k] = SumOver(S, F[k])
      /\ \A s \in S : columns[s] = SumOver(Identities, [k \in Identities |-> F[k][s]])
  OBVIOUS
<1>4. goal = rows
  OBVIOUS
<1>5. ASSUME NEW s \in S PROVE columns[s] = 0
  <2> DEFINE pay == settlement[s].pay
             a == amount[s]
  <2>1. /\ pay.debtor \in Identities /\ pay.creditor \in Identities
        /\ pay.debtor # pay.creditor /\ a \in Int
    BY RowFacts
  <2>2. [k \in Identities |-> F[k][s]] = [k \in Identities |-> PaymentEffect(pay, a, k)]
    OBVIOUS
  <2>3. columns[s] = SumOver(Identities, [k \in Identities |-> PaymentEffect(pay, a, k)])
    BY <2>2, Zenon
  <2> HIDE DEF pay, a
  <2>4. SumOver(Identities, [k \in Identities |-> PaymentEffect(pay, a, k)]) = 0
    BY <2>1, PaymentEffectsCancel
  <2> QED BY <2>3, <2>4
<1> HIDE DEF F, rows, columns, goal
<1>6. CrossSums(Identities, S, F, rows, columns)
  BY <1>1, <1>2, <1>3 DEF CrossSums
<1>7. SumOver(Identities, rows) = SumOver(S, columns)
  BY <1>6, SumSwap
<1>8. SumOver(S, columns) = 0
  BY <1>1, <1>5, SumZero
<1>9. SumOver(Identities, goal) = 0
  BY <1>4, <1>7, <1>8
<1> QED BY <1>9 DEF goal

(* The part of a payment allocated to the shares of E is an integer. *)
LEMMA AllocatedIsInteger ==
  ASSUME BInv, NEW s \in Settlements, NEW E \in SUBSET Expenses
  PROVE  AllocatedTo(alloc, s, E) \in Int
<1> DEFINE f == [e \in E |-> alloc[s][e]]
<1>1. IsFiniteSet(E)
  BY RowFacts, FS_Subset
<1>2. \A e \in E : f[e] \in Int
  BY RowFacts DEF Settlements, Expenses
<1> HIDE DEF f
<1>3. SumOver(E, f) \in Int
  BY <1>1, <1>2, SumInteger
<1> QED BY <1>3 DEF AllocatedTo, f

(* The book of a group balances, with the group payments in full and the   *)
(* cross-group ones as far as they are allocated to it.                    *)
LEMMA BooksBalance ==
  ASSUME IsFiniteSet(Identities), BInv
  PROVE  GroupBooksBalance
<1> SUFFICES ASSUME NEW g \in GroupIds
             PROVE  SumOver(Identities, [k \in Identities |-> GroupBalance(alloc, g, k)])
                      = SumOver(InGroup(expense, Expenses, g),
                          [e \in InGroup(expense, Expenses, g) |-> Missed(expense[e].split)])
  BY Zenon DEF GroupBooksBalance
<1> DEFINE E == InGroup(expense, Expenses, g)
           S == InGroup(settlement, Settlements, g)
           X == InGroup(settlement, Settlements, NoGroup)
           full == [s \in S |-> settlement[s].pay.amount]
           part == [s \in X |-> AllocatedTo(alloc, s, E)]
           all == [k \in Identities |-> GroupBalance(alloc, g, k)]
           shares == [k \in Identities |->
                        SumOver(E, [e \in E |-> ShareEffect(expense[e].split, k)])]
           own == [k \in Identities |-> SumOver(S, [s \in S |->
                     PaymentEffect(settlement[s].pay, full[s], k)])]
           cross == [k \in Identities |-> SumOver(X, [s \in X |->
                       PaymentEffect(settlement[s].pay, part[s], k)])]
           both == [k \in Identities |-> own[k] + cross[k]]
           missed == [e \in E |-> Missed(expense[e].split)]
<1>1. /\ E \in SUBSET Expenses /\ S \in SUBSET Settlements /\ X \in SUBSET Settlements
      /\ IsFiniteSet(E) /\ IsFiniteSet(S) /\ IsFiniteSet(X)
  <2>1. E \in SUBSET Expenses /\ S \in SUBSET Settlements /\ X \in SUBSET Settlements
    BY DEF InGroup
  <2> HIDE DEF E, S, X
  <2> QED BY <2>1, RowFacts, FS_Subset
<1>2. \A s \in S : full[s] \in Int
  BY <1>1, RowFacts
<1>3. \A s \in X : part[s] \in Int
  <2> HIDE DEF E, X
  <2> QED BY <1>1, AllocatedIsInteger
<1>4. \A k \in Identities : all[k] = shares[k] + own[k] + cross[k]
  <2> SUFFICES ASSUME NEW k \in Identities
               PROVE  all[k] = shares[k] + own[k] + cross[k]
    OBVIOUS
  <2>1. GroupBalance(alloc, g, k)
          = Balance(E, S, k)
            + SumOver(X, [s \in X |->
                PaymentEffect(settlement[s].pay, AllocatedTo(alloc, s, E), k)])
    BY Zenon DEF GroupBalance
  <2> HIDE DEF E, S, X
  <2>2. Balance(E, S, k) = shares[k] + own[k]
    <3>1. [s \in S |-> PaymentEffect(settlement[s].pay, full[s], k)]
            = [s \in S |-> PaymentEffect(settlement[s].pay, settlement[s].pay.amount, k)]
      OBVIOUS
    <3> QED BY <3>1 DEF Balance
  <2>3. [s \in X |-> PaymentEffect(settlement[s].pay, part[s], k)]
          = [s \in X |-> PaymentEffect(settlement[s].pay, AllocatedTo(alloc, s, E), k)]
    OBVIOUS
  <2> QED BY <2>1, <2>2, <2>3
<1> HIDE DEF E, S, X, full, part
<1>5. ASSUME NEW k \in Identities
      PROVE  shares[k] \in Int /\ own[k] \in Int /\ cross[k] \in Int
  <2> DEFINE f == [e \in E |-> ShareEffect(expense[e].split, k)]
             h == [s \in S |-> PaymentEffect(settlement[s].pay, full[s], k)]
             l == [s \in X |-> PaymentEffect(settlement[s].pay, part[s], k)]
  <2>1. /\ \A e \in E : f[e] \in Int
        /\ \A s \in S : h[s] \in Int
        /\ \A s \in X : l[s] \in Int
    BY <1>1, <1>2, <1>3, EffectsAreIntegers
  <2>2. shares[k] = SumOver(E, f) /\ own[k] = SumOver(S, h) /\ cross[k] = SumOver(X, l)
    OBVIOUS
  <2> HIDE DEF f, h, l, shares, own, cross
  <2>3. SumOver(E, f) \in Int /\ SumOver(S, h) \in Int /\ SumOver(X, l) \in Int
    BY <1>1, <2>1, SumInteger
  <2> QED BY <2>2, <2>3
<1>6. SumOver(Identities, shares) = SumOver(E, missed)
  BY <1>1, SharesCancel
<1>7. SumOver(Identities, own) = 0 /\ SumOver(Identities, cross) = 0
  BY <1>1, <1>2, <1>3, PaymentsCancel
<1>8. \A k \in Identities : /\ own[k] \in Int /\ cross[k] \in Int
                            /\ both[k] = own[k] + cross[k]
  BY <1>5
<1> HIDE DEF shares, own, cross, both, missed, all
<1>9. \A k \in Identities : /\ shares[k] \in Int /\ both[k] \in Int
                            /\ all[k] = shares[k] + both[k]
  BY <1>4, <1>5, <1>8
<1>10. SumOver(Identities, both) = SumOver(Identities, own) + SumOver(Identities, cross)
  BY <1>8, SumPlus
<1>11. SumOver(Identities, all) = SumOver(Identities, shares) + SumOver(Identities, both)
  BY <1>9, SumPlus
<1>12. SumOver(Identities, shares) \in Int
  BY <1>5, SumInteger
<1>13. SumOver(Identities, all) = SumOver(E, missed)
  BY <1>6, <1>7, <1>10, <1>11, <1>12
<1> QED BY <1>13 DEF all, missed, E

(* The pairs of a user add up to the balance of the user. *)
LEMMA PairsSum ==
  ASSUME IsFiniteSet(Identities), BInv
  PROVE  PairsAddUp
<1> SUFFICES ASSUME NEW u \in Users
             PROVE  LET paid == {e \in Expenses : expense[e].split.payer = u} IN
                    SumOver(Identities, [k \in Identities |-> Relative(Expenses, u, k)])
                      = Balance(Expenses, Settlements, u)
                        - SumOver(paid, [e \in paid |-> Missed(expense[e].split)])
  BY DEF PairsAddUp
<1> DEFINE paid == {e \in Expenses : expense[e].split.payer = u}
           lost == [e \in Expenses |->
                      IF expense[e].split.payer = u THEN Missed(expense[e].split) ELSE 0]
           mine == [e \in paid |-> Missed(expense[e].split)]
<1>1. SumOver(Identities, [k \in Identities |-> Relative(Expenses, u, k)])
        = Balance(Expenses, Settlements, u) - SumOver(Expenses, lost)
  BY RelativeAddsUp DEF Identities
<1>2. /\ IsFiniteSet(Expenses) /\ paid \in SUBSET Expenses
      /\ \A e \in paid : lost[e] \in Int /\ mine[e] = lost[e]
      /\ \A e \in Expenses \ paid : lost[e] = 0
  BY RowFacts, EffectsAreIntegers DEF Identities
<1> HIDE DEF paid, lost, mine
<1>3. SumOver(Expenses, lost) = SumOver(paid, mine)
  BY <1>2, SumWithin
<1>4. SumOver(Identities, [k \in Identities |-> Relative(Expenses, u, k)])
        = Balance(Expenses, Settlements, u) - SumOver(paid, mine)
  BY <1>1, <1>3
<1> QED BY <1>4 DEF paid, mine

(* What one owes the other, the other is owed. *)
LEMMA DebtsAreMutual ==
  ASSUME IsFiniteSet(Identities), BInv, NEW u \in Identities, NEW v \in Identities
  PROVE  /\ \A e \in Expenses :
              /\ OwedIn(expense[e].split, v, u) = -OwedIn(expense[e].split, u, v)
              /\ ~({u, v} \subseteq expense[e].split.among) =>
                    /\ OwedIn(expense[e].split, u, v) = 0
                    /\ OwedIn(expense[e].split, v, u) = 0
         /\ \A s \in Settlements :
              PaidTo(settlement[s].pay, v, u) = -PaidTo(settlement[s].pay, u, v)
<1>1. ASSUME NEW e \in Expenses
      PROVE  /\ OwedIn(expense[e].split, v, u) = -OwedIn(expense[e].split, u, v)
             /\ ~({u, v} \subseteq expense[e].split.among) =>
                   /\ OwedIn(expense[e].split, u, v) = 0
                   /\ OwedIn(expense[e].split, v, u) = 0
  <2> DEFINE sp == expense[e].split
  <2>1. Sensible(sp)
    BY RowFacts
  <2> HIDE DEF sp
  <2>2. \A x \in Identities : sp.share[x] \in Int
    BY <2>1, MissedTypes
  <2>3. OwedIn(sp, v, u) = -OwedIn(sp, u, v)
    BY <2>2 DEF OwedIn
  <2>4. ~({u, v} \subseteq sp.among) => OwedIn(sp, u, v) = 0 /\ OwedIn(sp, v, u) = 0
    BY DEF OwedIn
  <2> QED BY <2>3, <2>4 DEF sp
<1>2. ASSUME NEW s \in Settlements
      PROVE  PaidTo(settlement[s].pay, v, u) = -PaidTo(settlement[s].pay, u, v)
  <2> DEFINE pay == settlement[s].pay
  <2>1. pay.amount \in Int /\ pay.debtor # pay.creditor
    BY RowFacts
  <2> HIDE DEF pay
  <2>2. PaidTo(pay, v, u) = -PaidTo(pay, u, v)
    BY <2>1 DEF PaidTo
  <2> QED BY <2>2 DEF pay
<1> QED BY <1>1, <1>2

(* Two users who see the expenses they share see one debt. *)
LEMMA OverviewsMatch ==
  ASSUME IsFiniteSet(Identities), BInv
  PROVE  OverviewsAgree
<1> SUFFICES ASSUME NEW u \in Users, NEW v \in Users,
                    \A e \in Expenses :
                      {u, v} \subseteq expense[e].split.among => Sees(u, e) /\ Sees(v, e)
             PROVE  Overview(u, v) = -Overview(v, u)
  BY DEF OverviewsAgree
<1> DEFINE A == {e \in Expenses : Sees(u, e)}
           B == {e \in Expenses : Sees(v, e)}
           Shared == {e \in Expenses : {u, v} \subseteq expense[e].split.among}
           owedA == [e \in A |-> OwedIn(expense[e].split, u, v)]
           owedB == [e \in B |-> OwedIn(expense[e].split, v, u)]
           mine == [e \in Shared |-> OwedIn(expense[e].split, u, v)]
           yours == [e \in Shared |-> OwedIn(expense[e].split, v, u)]
           paidA == [s \in Settlements |-> PaidTo(settlement[s].pay, u, v)]
           paidB == [s \in Settlements |-> PaidTo(settlement[s].pay, v, u)]
<1>1. /\ u \in Identities /\ v \in Identities
      /\ A \in SUBSET Expenses /\ B \in SUBSET Expenses
      /\ Shared \in SUBSET A /\ Shared \in SUBSET B
  BY DEF Identities
<1>2. IsFiniteSet(A) /\ IsFiniteSet(B) /\ IsFiniteSet(Shared) /\ IsFiniteSet(Settlements)
  <2> HIDE DEF A, B, Shared
  <2> QED BY <1>1, RowFacts, FS_Subset
<1>3. /\ Overview(u, v) = SumOver(A, owedA) + SumOver(Settlements, paidA)
      /\ Overview(v, u) = SumOver(B, owedB) + SumOver(Settlements, paidB)
  BY DEF Overview, Relative
<1>4. /\ \A e \in Shared : owedA[e] \in Int /\ mine[e] = owedA[e]
      /\ \A e \in A \ Shared : owedA[e] = 0
  BY <1>1, EffectsAreIntegers, DebtsAreMutual
<1>5. /\ \A e \in Shared : owedB[e] \in Int /\ yours[e] = owedB[e]
      /\ \A e \in B \ Shared : owedB[e] = 0
  BY <1>1, EffectsAreIntegers, DebtsAreMutual
<1>6. \A e \in Shared : mine[e] \in Int /\ yours[e] = -mine[e]
  BY <1>1, EffectsAreIntegers, DebtsAreMutual
<1>7. \A s \in Settlements : paidA[s] \in Int /\ paidB[s] = -paidA[s]
  BY <1>1, EffectsAreIntegers, DebtsAreMutual
<1> HIDE DEF A, B, Shared, owedA, owedB, mine, yours, paidA, paidB
<1>8. SumOver(A, owedA) = SumOver(Shared, mine)
  BY <1>1, <1>2, <1>4, SumWithin
<1>9. SumOver(B, owedB) = SumOver(Shared, yours)
  BY <1>1, <1>2, <1>5, SumWithin
<1>10. SumOver(Shared, yours) = -SumOver(Shared, mine)
  BY <1>2, <1>6, SumOpposite
<1>11. SumOver(Settlements, paidB) = -SumOver(Settlements, paidA)
  BY <1>2, <1>7, SumOpposite
<1>12. SumOver(Shared, mine) \in Int /\ SumOver(Settlements, paidA) \in Int
  BY <1>2, <1>6, <1>7, SumInteger
<1> QED BY <1>3, <1>8, <1>9, <1>10, <1>11, <1>12

-----------------------------------------------------------------------------
(* The allocation table and the balances.                                  *)

(* The debts of d to c, and the payments of d to c. *)
DebtsOf(d, c) == {e \in Expenses : <<d, c>> \in PairsOf(expense, e)}
PaymentsOf(d, c) == OfPairs(settlement, {<<d, c>>})

(* The rows on the debts of d to c are the rows of the payments of d to c: *)
(* the two sides of the allocation table.                                  *)
LEMMA TwoSidesOfTheTable ==
  ASSUME BInv, NEW d \in Identities, NEW c \in Identities, d # c
  PROVE  SumOver(DebtsOf(d, c), [e \in DebtsOf(d, c) |-> Allocated(settlement, alloc, e, d)])
           = SumOver(PaymentsOf(d, c),
               [s \in PaymentsOf(d, c) |-> Total(alloc[s], MaxExpense)])
<1> DEFINE E == DebtsOf(d, c)
           S == PaymentsOf(d, c)
           F == [s \in S |-> [e \in E |-> alloc[s][e]]]
           rows == [s \in S |-> SumOver(E, F[s])]
           columns == [e \in E |-> SumOver(S, [s \in S |-> F[s][e]])]
           onDebt == [e \in E |-> Allocated(settlement, alloc, e, d)]
           ofPayment == [s \in S |-> Total(alloc[s], MaxExpense)]
<1>0. /\ MaxExpense \in Nat /\ MaxSettlement \in Nat
      /\ IsFiniteSet(Expenses) /\ IsFiniteSet(Settlements)
      /\ \A s \in SettlementIds, e \in ExpenseIds : alloc[s][e] \in Nat
      /\ \A s \in SettlementIds, e \in ExpenseIds :
           alloc[s][e] > 0 => Owes(expense, settlement, s, e)
  BY LedgerAssumption, RowFacts, InvImpliesTables
     DEF BInv, IInv, TypeOK, Sound, FollowDebts
<1>1. /\ E \in SUBSET ExpenseIds /\ S \in SUBSET SettlementIds
      /\ E \in SUBSET Expenses /\ S \in SUBSET Settlements
      /\ \A e \in E : /\ expense[e].split.payer = c
                      /\ d \in expense[e].split.among \ {c}
      /\ \A s \in S : /\ settlement[s].pay.debtor = d
                      /\ settlement[s].pay.creditor = c
  BY DEF DebtsOf, PaymentsOf, OfPairs, PairsOf, Expenses, Settlements
<1>2. IsFiniteSet(E) /\ IsFiniteSet(S)
  <2> HIDE DEF E, S
  <2> QED BY <1>0, <1>1, FS_Subset
<1>3. ASSUME NEW s \in SettlementIds, NEW e \in ExpenseIds, alloc[s][e] > 0
      PROVE  /\ settlement[s] # NoRow /\ expense[e] # NoRow
             /\ e \in E /\ settlement[s].pay.debtor = d => s \in S
             /\ s \in S => e \in E
  <2>1. /\ settlement[s] # NoRow /\ expense[e] # NoRow
        /\ expense[e].split.payer = settlement[s].pay.creditor
        /\ settlement[s].pay.debtor
             \in expense[e].split.among \ {expense[e].split.payer}
    BY <1>0, <1>3 DEF Owes
  <2>2. e \in E /\ settlement[s].pay.debtor = d => s \in S
    BY <1>1, <2>1 DEF PaymentsOf, OfPairs
  <2>3. s \in S => e \in E
    BY <1>1, <2>1 DEF DebtsOf, PairsOf, Expenses
  <2> QED BY <2>1, <2>2, <2>3
<1>4. ASSUME NEW s \in S PROVE rows[s] = ofPayment[s] /\ rows[s] \in Int
  <2> DEFINE f == alloc[s]
             h == F[s]
  <2>1. s \in SettlementIds /\ \A e \in 1 .. MaxExpense : f[e] \in Int
    BY <1>0, <1>1 DEF ExpenseIds
  <2>2. \A e \in E : f[e] \in Int /\ h[e] = f[e]
    BY <1>0, <1>1
  <2>3. \A e \in 1 .. MaxExpense \ E : f[e] = 0
    BY <1>0, <1>3, <2>1 DEF ExpenseIds
  <2>4. rows[s] = SumOver(E, h) /\ ofPayment[s] = Total(f, MaxExpense)
    OBVIOUS
  <2>5. E \in SUBSET (1 .. MaxExpense) /\ IsFiniteSet(1 .. MaxExpense)
    BY <1>0, <1>1, FS_Interval DEF ExpenseIds
  <2> HIDE DEF f, h, E, S, F, rows, ofPayment
  <2>6. SumOver(1 .. MaxExpense, f) = Total(f, MaxExpense)
    BY <1>0, <2>1, SumOfRows
  <2>7. SumOver(1 .. MaxExpense, f) = SumOver(E, h)
    <3> DEFINE ids == 1 .. MaxExpense
    <3>1. /\ IsFiniteSet(ids) /\ E \in SUBSET ids
          /\ \A x \in ids \ E : f[x] = 0
      BY <2>3, <2>5
    <3> HIDE DEF ids
    <3>2. SumOver(ids, f) = SumOver(E, h)
      BY <2>2, <3>1, SumWithin
    <3> QED BY <3>2 DEF ids
  <2>8. Total(f, MaxExpense) \in Int
    BY <1>0, <2>1, TotalInteger
  <2> QED BY <2>4, <2>6, <2>7, <2>8
<1>5. ASSUME NEW e \in E PROVE columns[e] = onDebt[e] /\ columns[e] \in Int
  <2> DEFINE f == [s \in SettlementIds |->
                     IF settlement[s] # NoRow /\ settlement[s].pay.debtor = d
                     THEN alloc[s][e] ELSE 0]
             h == [s \in S |-> F[s][e]]
  <2>1. e \in ExpenseIds /\ \A s \in 1 .. MaxSettlement : f[s] \in Int
    BY <1>0, <1>1 DEF SettlementIds
  <2>2. \A s \in S : f[s] \in Int /\ h[s] = f[s]
    BY <1>0, <1>1 DEF Settlements
  <2>3. \A s \in 1 .. MaxSettlement \ S : f[s] = 0
    <3> SUFFICES ASSUME NEW s \in SettlementIds, s \notin S
                 PROVE  f[s] = 0
      BY DEF SettlementIds
    <3>1. alloc[s][e] \in Nat
      BY <1>0, <2>1
    <3>2. CASE alloc[s][e] = 0
      BY <3>2
    <3>3. CASE alloc[s][e] > 0
      <4>1. ~(settlement[s].pay.debtor = d)
        BY <1>3, <2>1, <3>3
      <4> QED BY <4>1
    <3> QED BY <3>1, <3>2, <3>3
  <2>4. columns[e] = SumOver(S, h) /\ onDebt[e] = Total(f, MaxSettlement)
    BY DEF Allocated
  <2>5. S \in SUBSET (1 .. MaxSettlement) /\ IsFiniteSet(1 .. MaxSettlement)
    BY <1>0, <1>1, FS_Interval DEF SettlementIds
  <2> HIDE DEF f, h, E, S, F, columns, onDebt
  <2>6. SumOver(1 .. MaxSettlement, f) = Total(f, MaxSettlement)
    BY <1>0, <2>1, SumOfRows
  <2>7. SumOver(1 .. MaxSettlement, f) = SumOver(S, h)
    <3> DEFINE ids == 1 .. MaxSettlement
    <3>1. /\ IsFiniteSet(ids) /\ S \in SUBSET ids
          /\ \A x \in ids \ S : f[x] = 0
      BY <2>3, <2>5
    <3> HIDE DEF ids
    <3>2. SumOver(ids, f) = SumOver(S, h)
      BY <2>2, <3>1, SumWithin
    <3> QED BY <3>2 DEF ids
  <2>8. Total(f, MaxSettlement) \in Int
    BY <1>0, <2>1, TotalInteger
  <2> QED BY <2>4, <2>6, <2>7, <2>8
<1>6. /\ \A s \in S : \A e \in E : F[s][e] \in Int
      /\ \A s \in S : rows[s] = SumOver(E, F[s])
      /\ \A e \in E : columns[e] = SumOver(S, [s \in S |-> F[s][e]])
  BY <1>0, <1>1
<1> HIDE DEF E, S, F, rows, columns, onDebt, ofPayment
<1>7. CrossSums(S, E, F, rows, columns)
  BY <1>2, <1>6 DEF CrossSums
<1>8. SumOver(S, rows) = SumOver(E, columns)
  BY <1>7, SumSwap
<1>9. SumOver(S, rows) = SumOver(S, ofPayment)
  <2>1. /\ \A s \in S : rows[s] \in Int /\ ofPayment[s] = rows[s]
        /\ \A s \in S \ S : rows[s] = 0
    BY <1>4
  <2> QED BY <1>2, <2>1, SumWithin
<1>10. SumOver(E, columns) = SumOver(E, onDebt)
  <2>1. /\ \A e \in E : columns[e] \in Int /\ onDebt[e] = columns[e]
        /\ \A e \in E \ E : columns[e] = 0
    BY <1>5
  <2> QED BY <1>2, <2>1, SumWithin
<1>11. SumOver(E, onDebt) = SumOver(S, ofPayment)
  BY <1>8, <1>9, <1>10
<1> QED BY <1>11 DEF onDebt, ofPayment, E, S

(* The shares d owes to c, and the money d has paid to c. *)
Owing(d, c) ==
  SumOver(DebtsOf(d, c), [e \in DebtsOf(d, c) |-> expense[e].split.share[d]])
Handed(d, c) ==
  SumOver(PaymentsOf(d, c), [s \in PaymentsOf(d, c) |-> settlement[s].pay.amount])

(* The rows of one direction, and what is in them. *)
LEMMA DirectionTypes ==
  ASSUME IsFiniteSet(Identities), BInv, NEW d \in Identities, NEW c \in Identities
  PROVE  /\ DebtsOf(d, c) \in SUBSET Expenses /\ PaymentsOf(d, c) \in SUBSET Settlements
         /\ IsFiniteSet(DebtsOf(d, c)) /\ IsFiniteSet(PaymentsOf(d, c))
         /\ \A e \in Expenses : \A x \in Identities : expense[e].split.share[x] \in Int
         /\ \A s \in Settlements : settlement[s].pay.amount \in Int
         /\ Owing(d, c) \in Int /\ Handed(d, c) \in Int
<1> DEFINE E == DebtsOf(d, c)
           S == PaymentsOf(d, c)
           f == [e \in E |-> expense[e].split.share[d]]
           h == [s \in S |-> settlement[s].pay.amount]
<1>1. E \in SUBSET Expenses /\ S \in SUBSET Settlements
  BY DEF DebtsOf, PaymentsOf, OfPairs, Settlements
<1>2. \A e \in Expenses : \A x \in Identities : expense[e].split.share[x] \in Int
  BY RowFacts, MissedTypes
<1>3. \A s \in Settlements : settlement[s].pay.amount \in Int
  BY RowFacts
<1>4. (\A e \in E : f[e] \in Int) /\ (\A s \in S : h[s] \in Int)
  BY <1>1, <1>2, <1>3
<1>5. Owing(d, c) = SumOver(E, f) /\ Handed(d, c) = SumOver(S, h)
  BY DEF Owing, Handed
<1> HIDE DEF E, S, f, h
<1>6. IsFiniteSet(E) /\ IsFiniteSet(S)
  BY <1>1, RowFacts, FS_Subset
<1>7. SumOver(E, f) \in Int /\ SumOver(S, h) \in Int
  BY <1>4, <1>6, SumInteger
<1> QED BY <1>1, <1>2, <1>3, <1>5, <1>6, <1>7 DEF E, S

(* What is open less what is idle is what is owed less what is paid,       *)
(* however the allocations are made.                                       *)
LEMMA OpenLessUnspent ==
  ASSUME IsFiniteSet(Identities), BInv, NEW d \in Identities, NEW c \in Identities, d # c
  PROVE  StillOpen(d, c) - Unspent(d, c) = Owing(d, c) - Handed(d, c)
<1> DEFINE E == DebtsOf(d, c)
           S == PaymentsOf(d, c)
           share == [e \in E |-> expense[e].split.share[d]]
           settled == [e \in E |-> Allocated(settlement, alloc, e, d)]
           minusSettled == [e \in E |-> -settled[e]]
           open == [e \in E |-> Open(expense, settlement, alloc, e, d)]
           amount == [s \in S |-> settlement[s].pay.amount]
           spent == [s \in S |-> Total(alloc[s], MaxExpense)]
           minusSpent == [s \in S |-> -spent[s]]
           idle == [s \in S |-> Remaining(settlement, alloc, s)]
<1>1. /\ E \in SUBSET Expenses /\ S \in SUBSET Settlements
      /\ IsFiniteSet(E) /\ IsFiniteSet(S)
      /\ \A e \in Expenses : \A x \in Identities : expense[e].split.share[x] \in Int
      /\ \A s \in Settlements : settlement[s].pay.amount \in Int
      /\ Owing(d, c) \in Int /\ Handed(d, c) \in Int
  BY DirectionTypes
<1>2. /\ \A s \in SettlementIds : Total(alloc[s], MaxExpense) \in Nat
      /\ \A e \in ExpenseIds : \A p : Allocated(settlement, alloc, e, p) \in Nat
  <2>1. alloc \in Allocs
    BY DEF BInv, IInv, TypeOK, Allocs
  <2> QED BY <2>1, SumsAreNatural
<1>3. \A e \in E : /\ share[e] \in Int /\ settled[e] \in Int /\ minusSettled[e] \in Int
                   /\ minusSettled[e] = -settled[e] /\ open[e] = share[e] + minusSettled[e]
  BY <1>1, <1>2 DEF Open, Expenses
<1>4. \A s \in S : /\ amount[s] \in Int /\ spent[s] \in Int /\ minusSpent[s] \in Int
                   /\ minusSpent[s] = -spent[s] /\ idle[s] = amount[s] + minusSpent[s]
  BY <1>1, <1>2 DEF Remaining, Settlements
<1>5. StillOpen(d, c) = SumOver(E, open) /\ Unspent(d, c) = SumOver(S, idle)
  BY DEF StillOpen, Unspent, DebtsOf, PaymentsOf
<1>6. Owing(d, c) = SumOver(E, share) /\ Handed(d, c) = SumOver(S, amount)
  BY DEF Owing, Handed
<1>7. SumOver(E, settled) = SumOver(S, spent)
  BY TwoSidesOfTheTable
<1> HIDE DEF E, S, share, settled, minusSettled, open, amount, spent, minusSpent, idle
<1>8. /\ SumOver(E, open) = SumOver(E, share) + SumOver(E, minusSettled)
      /\ SumOver(E, minusSettled) = -SumOver(E, settled)
  BY <1>1, <1>3, SumPlus, SumOpposite
<1>9. /\ SumOver(S, idle) = SumOver(S, amount) + SumOver(S, minusSpent)
      /\ SumOver(S, minusSpent) = -SumOver(S, spent)
  BY <1>1, <1>4, SumPlus, SumOpposite
<1>10. SumOver(E, settled) \in Int
  BY <1>1, <1>3, SumInteger
<1> QED BY <1>1, <1>5, <1>6, <1>7, <1>8, <1>9, <1>10

(* The expenses between c and d, seen by c: those c has paid less those d  *)
(* has paid.                                                               *)
LEMMA OwedBothWays ==
  ASSUME IsFiniteSet(Identities), BInv, NEW d \in Identities, NEW c \in Identities, d # c,
         NEW P, P = {e \in Expenses : expense[e].split.payer \in expense[e].split.among}
  PROVE  SumOver(P, [e \in P |-> OwedIn(expense[e].split, c, d)])
           = Owing(d, c) - Owing(c, d)
<1> DEFINE A == DebtsOf(d, c)
           B == DebtsOf(c, d)
           f == [e \in P |-> OwedIn(expense[e].split, c, d)]
           a == [e \in P |-> IF e \in A THEN expense[e].split.share[d] ELSE 0]
           b == [e \in P |-> IF e \in B THEN expense[e].split.share[c] ELSE 0]
           minus == [e \in P |-> -b[e]]
           owedA == [e \in A |-> expense[e].split.share[d]]
           owedB == [e \in B |-> expense[e].split.share[c]]
<1>1. /\ A \in SUBSET Expenses /\ B \in SUBSET Expenses
      /\ \A e \in Expenses : \A x \in Identities : expense[e].split.share[x] \in Int
      /\ Owing(d, c) \in Int /\ Owing(c, d) \in Int
  BY DirectionTypes
<1>2. \A e \in Expenses :
        /\ e \in A <=> /\ expense[e].split.payer = c
                       /\ d \in expense[e].split.among
        /\ e \in B <=> /\ expense[e].split.payer = d
                       /\ c \in expense[e].split.among
  BY DEF DebtsOf, PairsOf, Expenses
<1>3. \A e \in Expenses : \/ expense[e].split.among = {}
                          \/ expense[e].split.payer \in expense[e].split.among
  BY RowFacts DEF Sensible
<1>4. A \in SUBSET P /\ B \in SUBSET P /\ IsFiniteSet(P)
  <2>1. A \in SUBSET P /\ B \in SUBSET P
    BY <1>1, <1>2, <1>3
  <2>2. P \in SUBSET Expenses
    OBVIOUS
  <2> QED BY <2>1, <2>2, RowFacts, FS_Subset
<1>5. \A e \in P : /\ a[e] \in Int /\ b[e] \in Int /\ minus[e] \in Int
                   /\ minus[e] = -b[e] /\ f[e] = a[e] + minus[e]
  <2> SUFFICES ASSUME NEW e \in P
               PROVE  /\ a[e] \in Int /\ b[e] \in Int /\ minus[e] \in Int
                      /\ minus[e] = -b[e] /\ f[e] = a[e] + minus[e]
    OBVIOUS
  <2>1. /\ e \in Expenses /\ expense[e].split.payer \in expense[e].split.among
        /\ expense[e].split.share[d] \in Int /\ expense[e].split.share[c] \in Int
    BY <1>1
  <2>2. /\ e \in A <=> expense[e].split.payer = c /\ d \in expense[e].split.among
        /\ e \in B <=> expense[e].split.payer = d /\ c \in expense[e].split.among
    BY <1>2, <2>1
  <2> HIDE DEF A, B
  <2> QED BY <2>1, <2>2 DEF OwedIn
<1>6. /\ \A e \in A : a[e] \in Int /\ owedA[e] = a[e]
      /\ \A e \in P \ A : a[e] = 0
      /\ \A e \in B : b[e] \in Int /\ owedB[e] = b[e]
      /\ \A e \in P \ B : b[e] = 0
  BY <1>1, <1>4
<1>7. Owing(d, c) = SumOver(A, owedA) /\ Owing(c, d) = SumOver(B, owedB)
  BY DEF Owing
<1> HIDE DEF A, B, f, a, b, minus, owedA, owedB
<1>8. SumOver(P, f) = SumOver(P, a) + SumOver(P, minus) /\ SumOver(P, minus) = -SumOver(P, b)
  BY <1>4, <1>5, SumPlus, SumOpposite
<1>9. SumOver(P, a) = SumOver(A, owedA)
  BY <1>4, <1>6, SumWithin
<1>10. SumOver(P, b) = SumOver(B, owedB)
  BY <1>4, <1>6, SumWithin
<1>11. SumOver(P, f) = Owing(d, c) - Owing(c, d)
  BY <1>1, <1>7, <1>8, <1>9, <1>10
<1> QED BY <1>11 DEF f

(* The payments between c and d, seen by c. *)
LEMMA PaidBothWays ==
  ASSUME IsFiniteSet(Identities), BInv, NEW d \in Identities, NEW c \in Identities, d # c
  PROVE  SumOver(Settlements, [s \in Settlements |-> PaidTo(settlement[s].pay, c, d)])
           = Handed(c, d) - Handed(d, c)
<1> DEFINE A == PaymentsOf(c, d)
           B == PaymentsOf(d, c)
           f == [s \in Settlements |-> PaidTo(settlement[s].pay, c, d)]
           a == [s \in Settlements |-> IF s \in A THEN settlement[s].pay.amount ELSE 0]
           b == [s \in Settlements |-> IF s \in B THEN settlement[s].pay.amount ELSE 0]
           minus == [s \in Settlements |-> -b[s]]
           handedA == [s \in A |-> settlement[s].pay.amount]
           handedB == [s \in B |-> settlement[s].pay.amount]
<1>1. /\ A \in SUBSET Settlements /\ B \in SUBSET Settlements
      /\ \A s \in Settlements : settlement[s].pay.amount \in Int
      /\ Handed(d, c) \in Int /\ Handed(c, d) \in Int
      /\ IsFiniteSet(Settlements)
  BY DirectionTypes, RowFacts
<1>2. \A s \in Settlements :
        /\ s \in A <=> settlement[s].pay.debtor = c /\ settlement[s].pay.creditor = d
        /\ s \in B <=> settlement[s].pay.debtor = d /\ settlement[s].pay.creditor = c
  BY DEF PaymentsOf, OfPairs, Settlements
<1>3. \A s \in Settlements : /\ a[s] \in Int /\ b[s] \in Int /\ minus[s] \in Int
                             /\ minus[s] = -b[s] /\ f[s] = a[s] + minus[s]
  <2> HIDE DEF A, B
  <2> QED BY <1>1, <1>2 DEF PaidTo
<1>4. /\ \A s \in A : a[s] \in Int /\ handedA[s] = a[s]
      /\ \A s \in Settlements \ A : a[s] = 0
      /\ \A s \in B : b[s] \in Int /\ handedB[s] = b[s]
      /\ \A s \in Settlements \ B : b[s] = 0
  BY <1>1
<1>5. Handed(c, d) = SumOver(A, handedA) /\ Handed(d, c) = SumOver(B, handedB)
  BY DEF Handed
<1> HIDE DEF A, B, f, a, b, minus, handedA, handedB
<1>6. /\ SumOver(Settlements, f) = SumOver(Settlements, a) + SumOver(Settlements, minus)
      /\ SumOver(Settlements, minus) = -SumOver(Settlements, b)
  BY <1>1, <1>3, SumPlus, SumOpposite
<1>7. SumOver(Settlements, a) = SumOver(A, handedA)
  BY <1>1, <1>4, SumWithin
<1>8. SumOver(Settlements, b) = SumOver(B, handedB)
  BY <1>1, <1>4, SumWithin
<1>9. SumOver(Settlements, f) = Handed(c, d) - Handed(d, c)
  BY <1>1, <1>5, <1>6, <1>7, <1>8
<1> QED BY <1>9 DEF f

(* The allocation table and the balance of a pair tell the same story.     *)
LEMMA AllocationsMatchBalances ==
  ASSUME IsFiniteSet(Identities), BInv
  PROVE  OpenDebtsMatchBalances
<1> SUFFICES ASSUME NEW c \in Users, NEW d \in Identities \ {c}
             PROVE  Relative({e \in Expenses :
                                expense[e].split.payer \in expense[e].split.among}, c, d)
                      = (StillOpen(d, c) - Unspent(d, c)) - (StillOpen(c, d) - Unspent(c, d))
  BY DEF OpenDebtsMatchBalances
<1> DEFINE P == {e \in Expenses : expense[e].split.payer \in expense[e].split.among}
<1>1. c \in Identities /\ d \in Identities /\ d # c
  BY DEF Identities
<1>2. Relative(P, c, d)
        = SumOver(P, [e \in P |-> OwedIn(expense[e].split, c, d)])
          + SumOver(Settlements, [s \in Settlements |-> PaidTo(settlement[s].pay, c, d)])
  BY DEF Relative
<1>3. SumOver(P, [e \in P |-> OwedIn(expense[e].split, c, d)]) = Owing(d, c) - Owing(c, d)
  BY <1>1, OwedBothWays
<1>4. SumOver(Settlements, [s \in Settlements |-> PaidTo(settlement[s].pay, c, d)])
        = Handed(c, d) - Handed(d, c)
  BY <1>1, PaidBothWays
<1>5. /\ StillOpen(d, c) - Unspent(d, c) = Owing(d, c) - Handed(d, c)
      /\ StillOpen(c, d) - Unspent(c, d) = Owing(c, d) - Handed(c, d)
  BY <1>1, OpenLessUnspent
<1>6. /\ Owing(d, c) \in Int /\ Owing(c, d) \in Int
      /\ Handed(d, c) \in Int /\ Handed(c, d) \in Int
  BY <1>1, DirectionTypes
<1> HIDE DEF P
<1>7. Relative(P, c, d)
        = (StillOpen(d, c) - Unspent(d, c)) - (StillOpen(c, d) - Unspent(c, d))
  BY <1>2, <1>3, <1>4, <1>5, <1>6
<1> QED BY <1>7 DEF P

-----------------------------------------------------------------------------
(* The loop of simplify_debts: who is left behind is settled, nobody has   *)
(* paid or got too much, every turn leaves somebody behind, and a turn     *)
(* that leaves the last of both sides behind saves a payment.              *)
Halfway(w, n, D, C, owing, due, nd, nc) ==
  /\ w \in [debt : [D -> Int], credit : [C -> Int], i : Nat, j : Nat, paid : Nat]
  /\ w.i \in 1 .. nd + 1 /\ w.j \in 1 .. nc + 1
  /\ \A k \in 1 .. nd : IF k < w.i THEN w.debt[owing[k]] = 0 ELSE w.debt[owing[k]] > 0
  /\ \A k \in 1 .. nc : IF k < w.j THEN w.credit[due[k]] = 0 ELSE w.credit[due[k]] > 0
  /\ w.i <= nd /\ w.j <= nc => w.i + w.j >= n + 2
  /\ w.paid + 2 <= w.i + w.j
  /\ w.i > nd /\ w.j > nc => w.paid + 3 <= w.i + w.j \/ (nd = 0 /\ nc = 0)

(* One payment keeps it so. *)
LEMMA PayNextKeeps ==
  ASSUME NEW D, NEW C, NEW nd, NEW nc, NEW owing, NEW due,
         NumberedBy(D, nd, owing), NumberedBy(C, nc, due),
         NEW n \in Nat, NEW w, Halfway(w, n, D, C, owing, due, nd, nc),
         w.i <= nd, w.j <= nc
  PROVE  Halfway(PayNext(w, owing, due), n + 1, D, C, owing, due, nd, nc)
<1>1. /\ nd \in Nat /\ nc \in Nat
      /\ owing \in [1 .. nd -> D] /\ due \in [1 .. nc -> C]
      /\ \A i, k \in 1 .. nd : owing[i] = owing[k] => i = k
      /\ \A i, k \in 1 .. nc : due[i] = due[k] => i = k
  BY DEF NumberedBy
<1>2. /\ w \in [debt : [D -> Int], credit : [C -> Int], i : Nat, j : Nat, paid : Nat]
      /\ \A k \in 1 .. nd : IF k < w.i THEN w.debt[owing[k]] = 0 ELSE w.debt[owing[k]] > 0
      /\ \A k \in 1 .. nc : IF k < w.j THEN w.credit[due[k]] = 0 ELSE w.credit[due[k]] > 0
      /\ w.i \in 1 .. nd /\ w.j \in 1 .. nc
      /\ w.i + w.j >= n + 2
      /\ w.paid + 2 <= w.i + w.j
  BY <1>1 DEF Halfway
<1> DEFINE d == owing[w.i]
           c == due[w.j]
           pay == Lesser(w.debt[d], w.credit[c])
           v == PayNext(w, owing, due)
           debt == [w.debt EXCEPT ![d] = @ - pay]
           credit == [w.credit EXCEPT ![c] = @ - pay]
           i == IF w.debt[d] = pay THEN w.i + 1 ELSE w.i
           j == IF w.credit[c] = pay THEN w.j + 1 ELSE w.j
<1>3. /\ v.debt = debt /\ v.credit = credit /\ v.i = i /\ v.j = j
      /\ v.paid = w.paid + 1
      /\ v = [debt |-> debt, credit |-> credit, i |-> i, j |-> j, paid |-> w.paid + 1]
  <2>1. v = [w EXCEPT !.debt = debt, !.credit = credit, !.i = i, !.j = j, !.paid = @ + 1]
    BY DEF PayNext
  <2> HIDE DEF v, debt, credit, i, j
  <2> QED BY <1>2, <2>1
<1>4. /\ d \in D /\ c \in C /\ w.debt[d] \in Int /\ w.credit[c] \in Int
      /\ w.debt[d] > 0 /\ w.credit[c] > 0
  BY <1>1, <1>2
<1>5. /\ pay \in Int /\ pay <= w.debt[d] /\ pay <= w.credit[c]
      /\ pay = w.debt[d] \/ pay = w.credit[c]
  BY <1>4 DEF Lesser
<1>6. /\ debt \in [D -> Int] /\ credit \in [C -> Int]
      /\ debt[d] = w.debt[d] - pay /\ credit[c] = w.credit[c] - pay
      /\ \A k \in 1 .. nd : k # w.i => debt[owing[k]] = w.debt[owing[k]]
      /\ \A k \in 1 .. nc : k # w.j => credit[due[k]] = w.credit[due[k]]
  <2>1. /\ w.debt \in [D -> Int] /\ w.credit \in [C -> Int]
        /\ \A k \in 1 .. nd : owing[k] \in D /\ (k # w.i => owing[k] # d)
        /\ \A k \in 1 .. nc : due[k] \in C /\ (k # w.j => due[k] # c)
    BY <1>1, <1>2
  <2> HIDE DEF pay, d, c
  <2> QED BY <1>4, <1>5, <2>1
<1>7. /\ i \in Nat /\ j \in Nat /\ w.i \in Nat /\ w.j \in Nat /\ w.paid \in Nat
      /\ i = w.i \/ i = w.i + 1
      /\ j = w.j \/ j = w.j + 1
      /\ i = w.i + 1 \/ j = w.j + 1
      /\ i = w.i + 1 <=> w.debt[d] = pay
      /\ j = w.j + 1 <=> w.credit[c] = pay
  <2> HIDE DEF pay, d, c
  <2> QED BY <1>2, <1>5
<1>8. v \in [debt : [D -> Int], credit : [C -> Int], i : Nat, j : Nat, paid : Nat]
  <2> HIDE DEF v, debt, credit, i, j
  <2> QED BY <1>3, <1>6, <1>7
<1>9. \A k \in 1 .. nd : IF k < v.i THEN v.debt[owing[k]] = 0 ELSE v.debt[owing[k]] > 0
  <2> SUFFICES ASSUME NEW k \in 1 .. nd
               PROVE  IF k < i THEN debt[owing[k]] = 0 ELSE debt[owing[k]] > 0
    <3> HIDE DEF v, debt, i
    <3> QED BY <1>3
  <2>0. k \in Nat /\ nd \in Nat
    BY <1>1
  <2>1. CASE k = w.i
    <3>1. owing[k] = d
      BY <2>1
    <3> HIDE DEF debt, i, d, pay, c
    <3> QED BY <2>0, <2>1, <3>1, <1>4, <1>5, <1>6, <1>7
  <2>2. CASE k # w.i
    <3>1. debt[owing[k]] = w.debt[owing[k]]
      BY <1>6, <2>2
    <3>2. IF k < w.i THEN w.debt[owing[k]] = 0 ELSE w.debt[owing[k]] > 0
      BY <1>2
    <3> HIDE DEF debt, i, d, pay, c
    <3> QED BY <2>0, <2>2, <3>1, <3>2, <1>7
  <2> QED BY <2>1, <2>2
<1>10. \A k \in 1 .. nc : IF k < v.j THEN v.credit[due[k]] = 0 ELSE v.credit[due[k]] > 0
  <2> SUFFICES ASSUME NEW k \in 1 .. nc
               PROVE  IF k < j THEN credit[due[k]] = 0 ELSE credit[due[k]] > 0
    <3> HIDE DEF v, credit, j
    <3> QED BY <1>3
  <2>0. k \in Nat /\ nc \in Nat
    BY <1>1
  <2>1. CASE k = w.j
    <3>1. due[k] = c
      BY <2>1
    <3> HIDE DEF credit, j, d, pay, c
    <3> QED BY <2>0, <2>1, <3>1, <1>4, <1>5, <1>6, <1>7
  <2>2. CASE k # w.j
    <3>1. credit[due[k]] = w.credit[due[k]]
      BY <1>6, <2>2
    <3>2. IF k < w.j THEN w.credit[due[k]] = 0 ELSE w.credit[due[k]] > 0
      BY <1>2
    <3> HIDE DEF credit, j, d, pay, c
    <3> QED BY <2>0, <2>2, <3>1, <3>2, <1>7
  <2> QED BY <2>1, <2>2
<1>11. /\ v.i \in 1 .. nd + 1 /\ v.j \in 1 .. nc + 1
       /\ v.i <= nd /\ v.j <= nc => v.i + v.j >= (n + 1) + 2
       /\ v.paid + 2 <= v.i + v.j
       /\ v.i > nd /\ v.j > nc => v.paid + 3 <= v.i + v.j \/ (nd = 0 /\ nc = 0)
  <2> HIDE DEF v, debt, credit, i, j, d, c, pay
  <2>1. /\ nd \in Nat /\ nc \in Nat /\ w.i \in 1 .. nd /\ w.j \in 1 .. nc
        /\ w.i + w.j >= n + 2 /\ w.paid + 2 <= w.i + w.j
    BY <1>1, <1>2
  <2>2. /\ i \in 1 .. nd + 1 /\ j \in 1 .. nc + 1
        /\ i + j >= n + 3
        /\ w.paid + 3 <= i + j
    BY <1>7, <2>1
  <2>3. i > nd /\ j > nc => w.paid + 4 <= i + j
    BY <1>7, <2>1
  <2> QED BY <1>3, <1>7, <2>1, <2>2, <2>3
<1> QED BY <1>8, <1>9, <1>10, <1>11, Zenon DEF Halfway

(* The turns of the loop, up to the m-th. *)
Turns(p, m, start, owing, due, nd, nc) ==
  p = [n \in 0 .. m |->
         IF n = 0 THEN start
         ELSE LET w == p[n - 1] IN
              IF w.i > nd \/ w.j > nc THEN w ELSE PayNext(w, owing, due)]

(* The recursive definition in Simplify has a solution. *)
LEMMA TurnsExist ==
  ASSUME NEW start, NEW owing, NEW due, NEW nd, NEW nc, NEW n \in Nat
  PROVE  \E p : Turns(p, n, start, owing, due, nd, nc)
<1> DEFINE I == {m \in 0 .. n : \E p : Turns(p, m, start, owing, due, nd, nc)}
           Step(w) == IF w.i > nd \/ w.j > nc THEN w ELSE PayNext(w, owing, due)
<1>1. 0 \in I
  <2> DEFINE p == [k \in 0 .. 0 |-> start]
  <2>1. Turns(p, 0, start, owing, due, nd, nc)
    BY DEF Turns
  <2> QED BY <2>1
<1>2. \A m \in 1 .. n : m - 1 \in I => m \in I
  <2> SUFFICES ASSUME NEW m \in 1 .. n, NEW p,
                      Turns(p, m - 1, start, owing, due, nd, nc)
               PROVE  \E q : Turns(q, m, start, owing, due, nd, nc)
    OBVIOUS
  <2> DEFINE q == [k \in 0 .. m |-> IF k = m THEN Step(p[m - 1]) ELSE p[k]]
  <2> HIDE DEF Step
  <2>1. p = [k \in 0 .. m - 1 |-> IF k = 0 THEN start ELSE Step(p[k - 1])]
    BY Zenon DEF Turns, Step
  <2>2. ASSUME NEW k \in 0 .. m
        PROVE  q[k] = IF k = 0 THEN start ELSE Step(q[k - 1])
    BY <2>1
  <2>3. q = [k \in 0 .. m |-> IF k = 0 THEN start ELSE Step(q[k - 1])]
    BY <2>2
  <2> HIDE DEF q
  <2>4. Turns(q, m, start, owing, due, nd, nc)
    BY <2>3, Zenon DEF Turns, Step
  <2> QED BY <2>4
<1> HIDE DEF I
<1>3. \A m \in 0 .. n : m \in I
  BY <1>1, <1>2, UpTo
<1>4. n \in I
  BY <1>3
<1> QED BY <1>4 DEF I

(* After as many turns as there are people on both sides the loop is over. *)
LEMMA LoopEnds ==
  ASSUME NEW D, NEW C, NEW nd, NEW nc, NEW owing, NEW due,
         NumberedBy(D, nd, owing), NumberedBy(C, nc, due),
         NEW start, Halfway(start, 0, D, C, owing, due, nd, nc),
         NEW p, Turns(p, nd + nc, start, owing, due, nd, nc)
  PROVE  /\ Halfway(p[nd + nc], nd + nc, D, C, owing, due, nd, nc)
         /\ p[nd + nc].i > nd \/ p[nd + nc].j > nc
<1>0. nd \in Nat /\ nc \in Nat /\ nd + nc \in Nat
  BY DEF NumberedBy
<1> DEFINE N == nd + nc
           I == {m \in 0 .. N : Halfway(p[m], m, D, C, owing, due, nd, nc)}
<1>1. /\ p[0] = start
      /\ \A n \in 1 .. N : p[n] = IF p[n - 1].i > nd \/ p[n - 1].j > nc THEN p[n - 1]
                                  ELSE PayNext(p[n - 1], owing, due)
  <2> DEFINE Step(w) == IF w.i > nd \/ w.j > nc THEN w ELSE PayNext(w, owing, due)
  <2>1. p = [n \in 0 .. N |-> IF n = 0 THEN start ELSE Step(p[n - 1])]
    BY Zenon DEF Turns
  <2> HIDE DEF Step, N
  <2>2. N \in Nat
    BY <1>0 DEF N
  <2>3. p[0] = start /\ \A n \in 1 .. N : p[n] = Step(p[n - 1])
    BY <2>1, <2>2
  <2> QED BY <2>3 DEF Step
<1> HIDE DEF N
<1>2. N \in Nat
  BY <1>0 DEF N
<1>3. 0 \in I
  BY <1>1, <1>2
<1>4. \A n \in 1 .. N : n - 1 \in I => n \in I
  <2> SUFFICES ASSUME NEW n \in 1 .. N, Halfway(p[n - 1], n - 1, D, C, owing, due, nd, nc)
               PROVE  Halfway(p[n], n, D, C, owing, due, nd, nc)
    OBVIOUS
  <2>0. n - 1 \in Nat /\ (n - 1) + 1 = n
    BY <1>2
  <2> DEFINE w == p[n - 1]
  <2>1. CASE w.i > nd \/ w.j > nc
    <3>1. p[n] = w
      BY <1>1, <2>1
    <3>2. ~(w.i <= nd /\ w.j <= nc)
      <4>1. w.i \in Nat /\ w.j \in Nat
        BY DEF Halfway
      <4> QED BY <1>0, <2>1, <4>1
    <3> QED BY <3>1, <3>2 DEF Halfway
  <2>2. CASE ~(w.i > nd \/ w.j > nc)
    <3>1. p[n] = PayNext(w, owing, due)
      BY <1>1, <2>2
    <3>2. w.i <= nd /\ w.j <= nc
      <4>1. w.i \in Nat /\ w.j \in Nat
        BY DEF Halfway
      <4> QED BY <1>0, <2>2, <4>1
    <3>3. Halfway(PayNext(w, owing, due), (n - 1) + 1, D, C, owing, due, nd, nc)
      BY <2>0, <3>2, PayNextKeeps
    <3> QED BY <2>0, <3>1, <3>3
  <2> QED BY <2>1, <2>2
<1>5. N \in I
  <2> HIDE DEF I
  <2>1. \A n \in 0 .. N : n \in I
    BY <1>2, <1>3, <1>4, UpTo
  <2> QED BY <1>2, <2>1
<1>6. Halfway(p[N], N, D, C, owing, due, nd, nc)
  BY <1>5
<1> DEFINE w == p[N]
<1>7. /\ w.i \in Nat /\ w.j \in Nat
      /\ w.i <= nd /\ w.j <= nc => w.i + w.j >= nd + nc + 2
  BY <1>6 DEF Halfway, N
<1> HIDE DEF w
<1>8. w.i > nd \/ w.j > nc
  BY <1>0, <1>7
<1> QED BY <1>6, <1>8 DEF w, N

(* What simplify_debts leaves of any balances. *)
Settled(left, open) ==
  /\ \A k \in DOMAIN left.debt : left.debt[k] >= 0
  /\ \A k \in DOMAIN left.credit : left.credit[k] >= 0
  /\ \/ \A k \in DOMAIN left.debt : left.debt[k] = 0
     \/ \A k \in DOMAIN left.credit : left.credit[k] = 0
  /\ open # {} => left.paid < Cardinality(open)

(* The payments suggested for any balances settle them. *)
THEOREM SimplifySettles ==
  ASSUME NEW S, IsFiniteSet(S), NEW bal \in [S -> Int]
  PROVE  Settled(Simplify(bal), {k \in S : bal[k] # 0})
<1> DEFINE D == {k \in S : bal[k] < 0}
           C == {k \in S : bal[k] > 0}
           nd == Cardinality(D)
           nc == Cardinality(C)
           owes == [k \in C |-> -bal[k]]
           owing == Ranked(D, bal)
           due == Ranked(C, owes)
           start == [debt |-> [k \in D |-> -bal[k]], credit |-> [k \in C |-> bal[k]],
                     i |-> 1, j |-> 1, paid |-> 0]
           pass == CHOOSE p : Turns(p, nd + nc, start, owing, due, nd, nc)
           left == pass[nd + nc]
           open == {k \in S : bal[k] # 0}
<1>1. Simplify(bal) = left
  <2>1. /\ {k \in DOMAIN bal : bal[k] < 0} = D
        /\ {k \in DOMAIN bal : bal[k] > 0} = C
    OBVIOUS
  <2> QED BY <2>1 DEF Simplify, Turns
<1>2. /\ IsFiniteSet(D) /\ IsFiniteSet(C) /\ nd \in Nat /\ nc \in Nat
      /\ \A k \in D : bal[k] \in Int /\ bal[k] < 0
      /\ \A k \in C : bal[k] \in Int /\ bal[k] > 0 /\ owes[k] \in Int
  <2>1. D \in SUBSET S /\ C \in SUBSET S
    OBVIOUS
  <2>2. IsFiniteSet(D) /\ IsFiniteSet(C)
    <3> HIDE DEF D, C
    <3> QED BY <2>1, FS_Subset
  <2>3. nd \in Nat /\ nc \in Nat
    BY <2>2, FS_CardinalityType
  <2>4. /\ \A k \in D : bal[k] \in Int /\ bal[k] < 0
        /\ \A k \in C : bal[k] \in Int /\ bal[k] > 0 /\ owes[k] \in Int
    OBVIOUS
  <2> QED BY <2>2, <2>3, <2>4
<1>3. Cardinality(open) = nd + nc
  <2>1. open = D \cup C /\ D \cap C = {}
    OBVIOUS
  <2> HIDE DEF D, C, open
  <2>2. /\ Cardinality(D \cup C) = nd + nc - Cardinality(D \cap C)
        /\ Cardinality({}) = 0
    BY <1>2, FS_Union, FS_EmptySet
  <2> HIDE DEF nd, nc
  <2>3. Cardinality(open) = nd + nc - 0
    BY <2>1, <2>2
  <2> QED BY <1>2, <2>3
<1> HIDE DEF D, C, owes
<1>4. NumberedBy(D, nd, owing) /\ NumberedBy(C, nc, due)
  BY <1>2, RankedIs
<1>5. /\ start.i = 1 /\ start.j = 1 /\ start.paid = 0
      /\ start.debt = [k \in D |-> -bal[k]] /\ start.credit = [k \in C |-> bal[k]]
      /\ start \in [debt : [D -> Int], credit : [C -> Int], i : Nat, j : Nat, paid : Nat]
  BY <1>2
<1> HIDE DEF nd, nc, owing, due, start
<1>6. Halfway(start, 0, D, C, owing, due, nd, nc)
  <2>1. /\ owing \in [1 .. nd -> D] /\ due \in [1 .. nc -> C]
    BY <1>4 DEF NumberedBy
  <2>2. \A k \in 1 .. nd : ~(k < start.i) /\ start.debt[owing[k]] > 0
    <3> SUFFICES ASSUME NEW k \in 1 .. nd PROVE ~(k < 1) /\ -bal[owing[k]] > 0
      BY <1>5, <2>1
    <3>1. bal[owing[k]] \in Int /\ bal[owing[k]] < 0
      BY <1>2, <2>1
    <3> QED BY <1>2, <3>1
  <2>3. \A k \in 1 .. nc : ~(k < start.j) /\ start.credit[due[k]] > 0
    <3> SUFFICES ASSUME NEW k \in 1 .. nc PROVE ~(k < 1) /\ bal[due[k]] > 0
      BY <1>5, <2>1
    <3> QED BY <1>2, <2>1
  <2>4. /\ start.i \in 1 .. nd + 1 /\ start.j \in 1 .. nc + 1
        /\ start.i <= nd /\ start.j <= nc => start.i + start.j >= 0 + 2
        /\ start.paid + 2 <= start.i + start.j
        /\ start.i > nd /\ start.j > nc =>
             start.paid + 3 <= start.i + start.j \/ (nd = 0 /\ nc = 0)
    BY <1>2, <1>5
  <2> QED BY <1>5, <2>2, <2>3, <2>4 DEF Halfway
<1>7. Turns(pass, nd + nc, start, owing, due, nd, nc)
  <2>1. nd + nc \in Nat
    BY <1>2
  <2>2. \E p : Turns(p, nd + nc, start, owing, due, nd, nc)
    BY <2>1, TurnsExist
  <2> QED BY <2>2
<1> HIDE DEF pass
<1>8. /\ Halfway(left, nd + nc, D, C, owing, due, nd, nc)
      /\ left.i > nd \/ left.j > nc
  BY <1>4, <1>6, <1>7, LoopEnds
<1> HIDE DEF left
<1>9. /\ left \in [debt : [D -> Int], credit : [C -> Int], i : Nat, j : Nat, paid : Nat]
      /\ left.i \in 1 .. nd + 1 /\ left.j \in 1 .. nc + 1
      /\ left.paid + 2 <= left.i + left.j
      /\ left.i > nd /\ left.j > nc => left.paid + 3 <= left.i + left.j \/ (nd = 0 /\ nc = 0)
  BY <1>8 DEF Halfway
<1>10. /\ \A k \in 1 .. nd : IF k < left.i THEN left.debt[owing[k]] = 0
                             ELSE left.debt[owing[k]] > 0
       /\ \A k \in 1 .. nc : IF k < left.j THEN left.credit[due[k]] = 0
                             ELSE left.credit[due[k]] > 0
  BY <1>8 DEF Halfway
<1>11. /\ \A x \in D : \E k \in 1 .. nd : owing[k] = x
       /\ \A x \in C : \E k \in 1 .. nc : due[k] = x
  BY <1>4 DEF NumberedBy
<1>12. DOMAIN left.debt = D /\ DOMAIN left.credit = C
  BY <1>9
<1>13. \A x \in D : left.debt[x] >= 0 /\ (left.i > nd => left.debt[x] = 0)
  <2> SUFFICES ASSUME NEW x \in D
               PROVE  left.debt[x] >= 0 /\ (left.i > nd => left.debt[x] = 0)
    OBVIOUS
  <2>1. PICK k \in 1 .. nd : owing[k] = x
    BY <1>11
  <2>2. left.i \in Nat /\ left.debt[x] \in Int
    BY <1>9
  <2>3. IF k < left.i THEN left.debt[x] = 0 ELSE left.debt[x] > 0
    BY <1>10, <2>1
  <2> QED BY <1>2, <2>2, <2>3
<1>14. \A x \in C : left.credit[x] >= 0 /\ (left.j > nc => left.credit[x] = 0)
  <2> SUFFICES ASSUME NEW x \in C
               PROVE  left.credit[x] >= 0 /\ (left.j > nc => left.credit[x] = 0)
    OBVIOUS
  <2>1. PICK k \in 1 .. nc : due[k] = x
    BY <1>11
  <2>2. left.j \in Nat /\ left.credit[x] \in Int
    BY <1>9
  <2>3. IF k < left.j THEN left.credit[x] = 0 ELSE left.credit[x] > 0
    BY <1>10, <2>1
  <2> QED BY <1>2, <2>2, <2>3
<1> HIDE DEF open
<1>15. IsFiniteSet(open)
  BY FS_Subset DEF open
<1>16. open # {} => left.paid < Cardinality(open)
  <2> SUFFICES ASSUME open # {} PROVE left.paid < nd + nc
    BY <1>3
  <2>1. nd + nc # 0
    BY <1>3, <1>15, FS_EmptySet
  <2>2. left.i \in Nat /\ left.j \in Nat /\ left.paid \in Nat
    BY <1>9
  <2> QED BY <1>2, <1>9, <2>1, <2>2
<1>17. Settled(left, open)
  BY <1>8, <1>12, <1>13, <1>14, <1>16 DEF Settled
<1> QED BY <1>1, <1>17 DEF open

(* The balance of an identity in a group is a whole number of cents. *)
LEMMA GroupBalanceIsInteger ==
  ASSUME IsFiniteSet(Identities), BInv, NEW g \in GroupIds, NEW k \in Identities
  PROVE  GroupBalance(alloc, g, k) \in Int
<1> DEFINE E == InGroup(expense, Expenses, g)
           S == InGroup(settlement, Settlements, g)
           X == InGroup(settlement, Settlements, NoGroup)
           shares == [e \in E |-> ShareEffect(expense[e].split, k)]
           own == [s \in S |-> PaymentEffect(settlement[s].pay, settlement[s].pay.amount, k)]
           cross == [s \in X |-> PaymentEffect(settlement[s].pay, AllocatedTo(alloc, s, E), k)]
<1>1. /\ E \in SUBSET Expenses /\ S \in SUBSET Settlements /\ X \in SUBSET Settlements
      /\ IsFiniteSet(E) /\ IsFiniteSet(S) /\ IsFiniteSet(X)
  <2>1. E \in SUBSET Expenses /\ S \in SUBSET Settlements /\ X \in SUBSET Settlements
    BY DEF InGroup
  <2> HIDE DEF E, S, X
  <2> QED BY <2>1, RowFacts, FS_Subset
<1>2. GroupBalance(alloc, g, k) = SumOver(E, shares) + SumOver(S, own) + SumOver(X, cross)
  BY Zenon DEF GroupBalance, Balance
<1> HIDE DEF E, S, X
<1>3. \A e \in E : shares[e] \in Int
  BY <1>1, EffectsAreIntegers
<1>4. \A s \in S : own[s] \in Int
  <2> SUFFICES ASSUME NEW s \in S
               PROVE  PaymentEffect(settlement[s].pay, settlement[s].pay.amount, k) \in Int
    OBVIOUS
  <2>1. settlement[s].pay.amount \in Int
    BY <1>1, RowFacts
  <2> QED BY <2>1 DEF PaymentEffect
<1>5. \A s \in X : cross[s] \in Int
  <2> SUFFICES ASSUME NEW s \in X
               PROVE  PaymentEffect(settlement[s].pay, AllocatedTo(alloc, s, E), k) \in Int
    OBVIOUS
  <2>1. AllocatedTo(alloc, s, E) \in Int
    BY <1>1, AllocatedIsInteger
  <2> QED BY <2>1 DEF PaymentEffect
<1> HIDE DEF shares, own, cross
<1>6. /\ SumOver(E, shares) \in Int /\ SumOver(S, own) \in Int /\ SumOver(X, cross) \in Int
  BY <1>1, <1>3, <1>4, <1>5, SumInteger
<1> QED BY <1>2, <1>6

-----------------------------------------------------------------------------
(* The shares of an amount.                                                *)

(* Every natural number is a multiple of n and a remainder. *)
LEMMA DivisionWithRemainder ==
  ASSUME NEW n \in Nat \ {0}, NEW b \in Nat
  PROVE  \E q \in Nat, r \in 0 .. n - 1 : b = q * n + r
<1> DEFINE I == {a \in 0 .. b : \E q \in Nat, r \in 0 .. n - 1 : a = q * n + r}
<1>1. 0 \in I
  <2>1. 0 = 0 * n + 0 /\ 0 \in Nat /\ 0 \in 0 .. n - 1
    OBVIOUS
  <2> QED BY <2>1
<1>2. ASSUME NEW a \in 1 .. b, a - 1 \in I PROVE a \in I
  <2>1. PICK q \in Nat, r \in 0 .. n - 1 : a - 1 = q * n + r
    BY <1>2
  <2>2. q * n \in Nat /\ (q + 1) * n = q * n + n
    OBVIOUS
  <2>3. CASE r + 1 < n
    <3>1. a = q * n + (r + 1) /\ r + 1 \in 0 .. n - 1
      BY <2>1, <2>2, <2>3
    <3> QED BY <3>1
  <2>4. CASE r + 1 = n
    <3>1. a = (q + 1) * n + 0 /\ 0 \in 0 .. n - 1 /\ q + 1 \in Nat
      BY <2>1, <2>2, <2>4
    <3> QED BY <3>1
  <2> QED BY <2>3, <2>4
<1> HIDE DEF I
<1>3. b \in I
  <2>1. b \in 0 .. b
    OBVIOUS
  <2> QED BY <1>1, <1>2, <2>1, UpTo
<1> QED BY <1>3 DEF I

(* The floor of a multiple of n and a remainder. *)
LEMMA DivisionIs ==
  ASSUME NEW n \in Nat \ {0}, NEW q \in Int, NEW r \in 0 .. n - 1
  PROVE  (q * n + r) \div n = q
OBVIOUS

(* Handing out D cents round and round to n shares hands out D cents: the  *)
(* loop of _distribute_remainder reaches share i as often as `turns` says. *)
LEMMA TurnsAddUp ==
  ASSUME NEW D \in Nat, NEW n \in Nat \ {0}, NEW turns,
         \A i \in 1 .. n : turns[i] = (D + n - i) \div n
  PROVE  /\ \A i \in 1 .. n : turns[i] \in Nat
         /\ Total(turns, n) = D
<1>1. PICK q \in Nat, r \in 0 .. n - 1 : D = q * n + r
  BY DivisionWithRemainder
<1>2. ASSUME NEW i \in 1 .. n
      PROVE  turns[i] = IF i <= r THEN q + 1 ELSE q
  <2>1. q * n \in Nat /\ (q + 1) * n = q * n + n
    OBVIOUS
  <2>2. CASE i <= r
    <3>1. D + n - i = (q + 1) * n + (r - i) /\ r - i \in 0 .. n - 1
      BY <1>1, <2>1, <2>2
    <3>2. ((q + 1) * n + (r - i)) \div n = q + 1
      <4>1. q + 1 \in Int
        OBVIOUS
      <4> QED BY <3>1, <4>1, DivisionIs
    <3> QED BY <2>2, <3>1, <3>2
  <2>3. CASE ~(i <= r)
    <3>1. D + n - i = q * n + (r + n - i) /\ r + n - i \in 0 .. n - 1
      BY <1>1, <2>1, <2>3
    <3>2. (q * n + (r + n - i)) \div n = q
      BY <3>1, DivisionIs
    <3> QED BY <2>3, <3>1, <3>2
  <2> QED BY <2>2, <2>3
<1>3. \A i \in 1 .. n : turns[i] \in Nat
  BY <1>2
<1> DEFINE I == {k \in 0 .. n : Total(turns, k) = q * k + (IF k <= r THEN k ELSE r)}
<1>4. 0 \in I
  BY TotalNone
<1>5. ASSUME NEW k \in 1 .. n, k - 1 \in I PROVE k \in I
  <2>1. k \in Nat \ {0} /\ \A i \in 1 .. k : turns[i] \in Int
    BY <1>3
  <2>2. Total(turns, k) = Total(turns, k - 1) + turns[k]
    BY <2>1, TotalStep
  <2>3. q * (k - 1) \in Int /\ q * k = q * (k - 1) + q
    OBVIOUS
  <2>4. Total(turns, k - 1) = q * (k - 1) + (IF k - 1 <= r THEN k - 1 ELSE r)
    BY <1>5
  <2>5. turns[k] = IF k <= r THEN q + 1 ELSE q
    BY <1>2
  <2> QED BY <2>2, <2>3, <2>4, <2>5
<1> HIDE DEF I
<1>6. n \in I
  <2>1. n \in 0 .. n
    OBVIOUS
  <2> QED BY <1>4, <1>5, <2>1, UpTo
<1>7. Total(turns, n) = D
  BY <1>1, <1>6 DEF I
<1> QED BY <1>3, <1>7

(* Rounding keeps cents natural, and moves them by half a cent at most.    *)
LEMMA RoundedIsNatural ==
  ASSUME NEW n \in Nat, NEW d \in Nat \ {0}
  PROVE  Q2(n, d) \in Nat
BY DEF Q2

(* From hundredths of a cent. *)
LEMMA RoundedToTheCent ==
  ASSUME NEW n \in Nat
  PROVE  /\ Q2(n, 100) \in Nat
         /\ 100 * Q2(n, 100) - n <= 50 /\ 100 * Q2(n, 100) - n >= -50
BY DEF Q2

(* One more rounding on top of k - 1. *)
LEMMA OneMoreRounding ==
  ASSUME NEW a \in Int, NEW b \in Int, NEW x \in Int, NEW y \in Int, NEW k \in Int,
         100 * a - b <= 50 * (k - 1), 100 * a - b >= -50 * (k - 1),
         100 * x - y <= 50, 100 * x - y >= -50
  PROVE  /\ 100 * (a + x) - (b + y) <= 50 * k
         /\ 100 * (a + x) - (b + y) >= -50 * k
OBVIOUS

(* k roundings of the shares and one of their sum. *)
LEMMA HalfCents ==
  ASSUME NEW t \in Int, NEW u \in Int, NEW m \in Int, NEW k \in Int,
         100 * t - u <= 50 * k, 100 * t - u >= -50 * k,
         100 * m - u <= 50, 100 * m - u >= -50
  PROVE  2 * (m - t) \in -(k + 1) .. (k + 1)
OBVIOUS

(* _distribute_remainder: whatever the rounding has lost or gained comes   *)
(* back, so that sum(shares) == total exactly, for every amount and every  *)
(* number of participants.                                                 *)
THEOREM RemainderDistributed ==
  ASSUME NEW total \in Nat, NEW n \in Nat \ {0}, NEW d \in Nat \ {0},
         NEW raw \in [1 .. n -> Nat], Len(raw) = n,
         NEW shares, shares = DistributeRemainder(total, raw, d), shares # Refused
  PROVE  /\ shares \in [1 .. n -> Nat]
         /\ Total(shares, n) = total
<1> DEFINE rounded == [i \in DOMAIN raw |-> Q2(raw[i], d)]
           diff == total - SumOf(rounded)
           step == IF diff > 0 THEN 1 ELSE -1
           turns == [i \in 1 .. n |-> (step * diff + n - i) \div n]
           moved == [i \in 1 .. n |-> step * turns[i]]
           all == [i \in DOMAIN raw |-> rounded[i]
                     + step * ((step * diff + Len(raw) - i) \div Len(raw))]
<1>1. /\ DOMAIN raw = 1 .. n
      /\ \A i \in 1 .. n : rounded[i] \in Nat
      /\ Len(rounded) = n
  <2>1. DOMAIN raw = 1 .. n /\ \A i \in 1 .. n : raw[i] \in Nat
    OBVIOUS
  <2>2. rounded = [i \in 1 .. n |-> Q2(raw[i], d)]
    BY <2>1
  <2>3. \A i \in 1 .. n : Q2(raw[i], d) \in Nat
    BY <2>1, RoundedIsNatural
  <2>4. rounded \in [1 .. n -> Nat]
    BY <2>2, <2>3
  <2>5. Len(rounded) = n
    BY <2>2
  <2> QED BY <2>1, <2>4, <2>5
<1>2. shares = all /\ ~ \E i \in DOMAIN raw : all[i] < 0
  BY DEF DistributeRemainder
<1> HIDE DEF rounded
<1>3. SumOf(rounded) = Total(rounded, n) /\ Total(rounded, n) \in Int
  <2>1. \A i \in 1 .. n : rounded[i] \in Int
    BY <1>1
  <2> QED BY <1>1, <2>1, TotalInteger DEF SumOf
<1>4. /\ diff = total - Total(rounded, n) /\ diff \in Int
      /\ step \in {1, -1} /\ step * diff \in Nat
  BY <1>3
<1> HIDE DEF diff
<1>5. (\A i \in 1 .. n : turns[i] \in Nat) /\ Total(turns, n) = step * diff
  <2> DEFINE D == step * diff
  <2>1. D \in Nat
    BY <1>4
  <2>2. \A i \in 1 .. n : turns[i] = (D + n - i) \div n
    OBVIOUS
  <2> HIDE DEF D, turns
  <2>3. (\A i \in 1 .. n : turns[i] \in Nat) /\ Total(turns, n) = D
    BY <2>1, <2>2, TurnsAddUp
  <2> QED BY <2>3 DEF D
<1>6. \A i \in 1 .. n : all[i] = rounded[i] + moved[i]
  BY <1>1
<1>7. \A i \in 1 .. n : turns[i] \in Int /\ moved[i] = step * turns[i]
  BY <1>5
<1>8. all \in [1 .. n -> Int]
  <2> HIDE DEF step, turns, all, moved
  <2>1. ASSUME NEW i \in 1 .. n PROVE all[i] \in Int
    <3>1. rounded[i] \in Int /\ turns[i] \in Int /\ moved[i] = step * turns[i]
      BY <1>1, <1>7
    <3>2. moved[i] \in Int
      <4>1. CASE step = 1
        BY <3>1, <4>1
      <4>2. CASE step = -1
        BY <3>1, <4>2
      <4> QED BY <1>4, <4>1, <4>2
    <3>3. all[i] = rounded[i] + moved[i]
      BY <1>6
    <3> QED BY <3>1, <3>2, <3>3
  <2> USE DEF all
  <2> QED BY <1>1, <2>1
<1>9. shares \in [1 .. n -> Nat]
  <2>1. \A i \in 1 .. n : ~(all[i] < 0)
    BY <1>1, <1>2
  <2> HIDE DEF all
  <2>2. \A i \in 1 .. n : all[i] \in Nat
    BY <1>8, <2>1
  <2> QED BY <1>2, <1>8, <2>2
<1> HIDE DEF turns, moved, all
<1>10. /\ \A i \in 1 .. n : moved[i] \in Int
       /\ Total(moved, n) = step * Total(turns, n)
  <2>1. CASE step = 1
    <3>1. \A i \in 1 .. n : turns[i] \in Int /\ moved[i] = turns[i]
      BY <1>7, <2>1
    <3>2. Total(moved, n) = Total(turns, n) /\ Total(turns, n) \in Int
      BY <3>1, TotalSame, TotalInteger
    <3> QED BY <2>1, <3>1, <3>2
  <2>2. CASE step = -1
    <3>1. \A i \in 1 .. n : turns[i] \in Int /\ moved[i] = -turns[i]
      BY <1>7, <2>2
    <3>2. Total(moved, n) = -Total(turns, n) /\ Total(turns, n) \in Int
      BY <3>1, TotalOpposite, TotalInteger
    <3> QED BY <2>2, <3>1, <3>2
  <2> QED BY <1>4, <2>1, <2>2
<1>11. Total(all, n) = Total(rounded, n) + Total(moved, n)
  <2>1. \A i \in 1 .. n : /\ rounded[i] \in Int /\ moved[i] \in Int
                          /\ all[i] = rounded[i] + moved[i]
    BY <1>1, <1>6, <1>10
  <2> QED BY <2>1, TotalPlus
<1>12. Total(all, n) = total
  BY <1>3, <1>4, <1>5, <1>10, <1>11
<1> QED BY <1>2, <1>9, <1>12

(* compute_exact_shares compares the rounded sum with the amount and then  *)
(* rounds each share: half a cent may be lost each time, and no more.      *)
THEOREM ExactWithinHalfCents ==
  ASSUME NEW total \in Nat, NEW n \in Nat \ {0},
         NEW raw \in [1 .. n -> Nat], Len(raw) = n,
         NEW shares, shares = ExactShares(total, raw), shares # Refused
  PROVE  /\ shares \in [1 .. n -> Nat]
         /\ 2 * (total - Total(shares, n)) \in -(n + 1) .. (n + 1)
<1>1. shares = [i \in 1 .. n |-> Q2(raw[i], 100)] /\ Q2(SumOf(raw), 100) = total
  BY DEF ExactShares
<1>2. \A i \in 1 .. n : raw[i] \in Nat
  OBVIOUS
<1>3. \A i \in 1 .. n : /\ shares[i] \in Nat
                        /\ 100 * shares[i] - raw[i] <= 50
                        /\ 100 * shares[i] - raw[i] >= -50
  <2> SUFFICES ASSUME NEW i \in 1 .. n
               PROVE  /\ shares[i] \in Nat
                      /\ 100 * shares[i] - raw[i] <= 50
                      /\ 100 * shares[i] - raw[i] >= -50
    OBVIOUS
  <2>1. PICK m \in Nat : m = raw[i]
    BY <1>2
  <2>2. /\ Q2(m, 100) \in Nat
        /\ 100 * Q2(m, 100) - m <= 50 /\ 100 * Q2(m, 100) - m >= -50
    BY RoundedToTheCent
  <2>3. shares[i] = Q2(m, 100)
    BY <1>1, <2>1
  <2> QED BY <2>1, <2>2, <2>3
<1>4. shares \in [1 .. n -> Nat]
  BY <1>1, <1>3
<1> DEFINE I == {k \in 0 .. n : /\ Total(shares, k) \in Int /\ Total(raw, k) \in Int
                                /\ 100 * Total(shares, k) - Total(raw, k) <= 50 * k
                                /\ 100 * Total(shares, k) - Total(raw, k) >= -50 * k}
<1>5. 0 \in I
  BY TotalNone
<1>6. ASSUME NEW k \in 1 .. n, k - 1 \in I PROVE k \in I
  <2>1. /\ k \in Nat \ {0}
        /\ \A i \in 1 .. k : shares[i] \in Int
        /\ \A i \in 1 .. k : raw[i] \in Int
    BY <1>2, <1>3
  <2>2. /\ Total(shares, k) = Total(shares, k - 1) + shares[k]
        /\ Total(raw, k) = Total(raw, k - 1) + raw[k]
    BY <2>1, TotalStep
  <2>3. /\ 100 * shares[k] - raw[k] <= 50 /\ 100 * shares[k] - raw[k] >= -50
        /\ shares[k] \in Nat /\ raw[k] \in Nat
    BY <1>2, <1>3
  <2>4. PICK a \in Int, b \in Int, x \in Nat, y \in Nat :
          /\ a = Total(shares, k - 1) /\ b = Total(raw, k - 1)
          /\ x = shares[k] /\ y = raw[k]
          /\ 100 * a - b <= 50 * (k - 1) /\ 100 * a - b >= -50 * (k - 1)
    BY <1>6, <2>3
  <2>5. Total(shares, k) = a + x /\ Total(raw, k) = b + y /\ 100 * x - y <= 50 /\ 100 * x - y >= -50
    BY <2>2, <2>3, <2>4
  <2>6. /\ 100 * (a + x) - (b + y) <= 50 * k
        /\ 100 * (a + x) - (b + y) >= -50 * k
    <3>1. /\ 100 * a - b <= 50 * (k - 1) /\ 100 * a - b >= -50 * (k - 1)
          /\ 100 * x - y <= 50 /\ 100 * x - y >= -50
      BY <2>4, <2>5
    <3>2. a \in Int /\ b \in Int /\ x \in Int /\ y \in Int /\ k \in Int
      OBVIOUS
    <3> QED BY <3>1, <3>2, OneMoreRounding
  <2> QED BY <2>5, <2>6
<1> HIDE DEF I
<1>7. n \in I
  <2>1. n \in 0 .. n
    OBVIOUS
  <2> QED BY <1>5, <1>6, <2>1, UpTo
<1>8. /\ Total(shares, n) \in Int /\ Total(raw, n) \in Nat
      /\ 100 * Total(shares, n) - Total(raw, n) <= 50 * n
      /\ 100 * Total(shares, n) - Total(raw, n) >= -50 * n
  BY <1>2, <1>7, TotalNatural DEF I
<1>9. 100 * total - Total(raw, n) <= 50 /\ 100 * total - Total(raw, n) >= -50
  <2>1. PICK m \in Nat : m = Total(raw, n)
    BY <1>8
  <2>2. total = Q2(m, 100)
    BY <1>1, <2>1 DEF SumOf
  <2> QED BY <2>1, <2>2, RoundedToTheCent
<1>10. 2 * (total - Total(shares, n)) \in -(n + 1) .. (n + 1)
  <2>1. /\ total \in Int /\ n \in Int
        /\ Total(shares, n) \in Int /\ Total(raw, n) \in Int
    BY <1>8
  <2> QED BY <1>8, <1>9, <2>1, HalfCents
<1> QED BY <1>4, <1>10

(* The four methods. *)
LEMMA MethodsCover ==
  ASSUME NEW total \in Nat, NEW n \in Nat \ {0}, NEW raw \in Seq(Nat),
         NEW method \in Methods, method # "EQUAL" => Len(raw) = n,
         NEW shares, shares = SharesOf(method, total, n, raw), shares # Refused
  PROVE  /\ shares \in [1 .. n -> Nat]
         /\ method # "EXACT" => Total(shares, n) = total
         /\ 2 * (total - Total(shares, n)) \in -(n + 1) .. (n + 1)
<1>0. method # "EQUAL" => raw \in [1 .. n -> Nat] /\ DOMAIN raw = 1 .. n
  OBVIOUS
<1>1. CASE method = "EQUAL"
  <2> DEFINE part == [i \in 1 .. n |-> total]
  <2>1. part \in [1 .. n -> Nat] /\ Len(part) = n
    OBVIOUS
  <2>2. shares = DistributeRemainder(total, part, n)
    BY <1>1 DEF SharesOf, EqualShares
  <2> HIDE DEF part
  <2>3. shares \in [1 .. n -> Nat] /\ Total(shares, n) = total
    BY <2>1, <2>2, RemainderDistributed
  <2> QED BY <2>3
<1>2. CASE method = "EXACT"
  <2>1. shares = ExactShares(total, raw)
    BY <1>2 DEF SharesOf
  <2>2. /\ shares \in [1 .. n -> Nat]
        /\ 2 * (total - Total(shares, n)) \in -(n + 1) .. (n + 1)
    BY <1>0, <1>2, <2>1, ExactWithinHalfCents
  <2> QED BY <1>2, <2>2
<1>3. CASE method = "PERCENTAGE"
  <2> DEFINE part == [i \in DOMAIN raw |-> total * raw[i]]
             d == 100 * 10000
  <2>1. part \in [1 .. n -> Nat] /\ Len(part) = n /\ d \in Nat \ {0}
    BY <1>0, <1>3
  <2>2. shares = DistributeRemainder(total, part, d)
    BY <1>3 DEF SharesOf, PercentageShares
  <2> HIDE DEF part, d
  <2>3. shares \in [1 .. n -> Nat] /\ Total(shares, n) = total
    BY <2>1, <2>2, RemainderDistributed
  <2> QED BY <2>3
<1>4. CASE method = "SHARES"
  <2> DEFINE part == [i \in DOMAIN raw |-> total * raw[i]]
             d == SumOf(raw)
  <2>1. part \in [1 .. n -> Nat] /\ Len(part) = n
    BY <1>0, <1>4
  <2>2. shares = DistributeRemainder(total, part, d) /\ d # 0
    BY <1>4 DEF SharesOf, WeightedShares
  <2>3. d \in Nat
    <3>1. \A i \in 1 .. n : raw[i] \in Nat
      BY <1>0, <1>4
    <3>2. Total(raw, n) \in Nat
      BY <3>1, TotalNatural
    <3> QED BY <1>4, <3>2 DEF SumOf
  <2> HIDE DEF part, d
  <2>4. shares \in [1 .. n -> Nat] /\ Total(shares, n) = total
    BY <2>1, <2>2, <2>3, RemainderDistributed
  <2> QED BY <2>4
<1> QED BY <1>1, <1>2, <1>3, <1>4 DEF Methods

(* A split as apply_split_shares writes it: distinct participants, one of  *)
(* whom has paid, and the shares of one of the four methods.               *)
Asked(sp) ==
  \E method \in Methods, total \in Nat, payer \in Identities,
     people \in Seq(Identities), raw \in Seq(Nat) :
    /\ payer \in ToSet(people)
    /\ \A i, k \in DOMAIN people : people[i] = people[k] => i = k
    /\ method # "EQUAL" => Len(raw) = Len(people)
    /\ sp \in Divided(method, total, payer, people, raw, Identities)

(* The shares of such a split cover its amount, all but half a cent each   *)
(* by the exact method.                                                    *)
Covers(sp) ==
  IF sp.method = "EXACT"
  THEN 2 * Missed(sp) \in -(Cardinality(sp.among) + 1) .. (Cardinality(sp.among) + 1)
  ELSE Missed(sp) = 0

(* It does so. *)
LEMMA AskedCovers ==
  ASSUME NEW sp, Asked(sp)
  PROVE  Covers(sp)
<1>1. PICK method \in Methods, total \in Nat, payer \in Identities,
           people \in Seq(Identities), raw \in Seq(Nat) :
         /\ payer \in ToSet(people)
         /\ \A i, k \in DOMAIN people : people[i] = people[k] => i = k
         /\ method # "EQUAL" => Len(raw) = Len(people)
         /\ sp \in Divided(method, total, payer, people, raw, Identities)
  BY DEF Asked
<1> DEFINE n == Len(people)
           S == ToSet(people)
           shares == SharesOf(method, total, n, raw)
           at(x) == CHOOSE i \in DOMAIN people : people[i] = x
           share == [x \in Identities |-> IF x \in S THEN shares[at(x)] ELSE 0]
<1>2. /\ shares # Refused
      /\ sp = [amount |-> total, method |-> method, payer |-> payer,
               among |-> S, share |-> share]
  BY <1>1 DEF Divided
<1>3. /\ DOMAIN people = 1 .. n /\ n \in Nat \ {0}
      /\ people \in [1 .. n -> S] /\ S \subseteq Identities
      /\ \A x \in S : \E i \in 1 .. n : people[i] = x
  BY <1>1 DEF ToSet
<1>4. NumberedBy(S, n, people)
  BY <1>1, <1>3 DEF NumberedBy
<1>5. \A i \in 1 .. n : at(people[i]) = i
  BY <1>1, <1>3
<1>6. \A i \in 1 .. n : people[i] \in S /\ share[people[i]] = shares[i]
  BY <1>3, <1>5
<1> HIDE DEF n, S, shares, share
<1>7. /\ shares \in [1 .. n -> Nat]
      /\ method # "EXACT" => Total(shares, n) = total
      /\ 2 * (total - Total(shares, n)) \in -(n + 1) .. (n + 1)
  <2>1. method # "EQUAL" => Len(raw) = n
    BY <1>1 DEF n
  <2>2. shares = SharesOf(method, total, n, raw)
    BY DEF shares
  <2> QED BY <1>2, <1>3, <2>1, <2>2, MethodsCover
<1> DEFINE named == [i \in 1 .. n |-> share[people[i]]]
<1>8. \A x \in S : share[x] \in Int
  <2> SUFFICES ASSUME NEW x \in S PROVE share[x] \in Int
    OBVIOUS
  <2>1. PICK i \in 1 .. n : people[i] = x
    BY <1>3
  <2> QED BY <1>6, <1>7, <2>1
<1>9. Cardinality(S) = n /\ SumOver(S, share) = Total(named, n)
  BY <1>4, <1>8, SumNamed
<1>10. \A i \in 1 .. n : shares[i] \in Int /\ named[i] = shares[i]
  BY <1>6, <1>7
<1> HIDE DEF named
<1>11. Total(named, n) = Total(shares, n)
  BY <1>3, <1>10, TotalSame
<1>12. S # {}
  BY <1>3
<1>13. Missed(sp) = total - Total(shares, n)
  BY <1>2, <1>9, <1>11, <1>12 DEF Missed
<1>14. sp.method = method /\ Cardinality(sp.among) = n
  BY <1>2, <1>9
<1>15. CASE method = "EXACT"
  BY <1>7, <1>13, <1>14, <1>15 DEF Covers
<1>16. CASE method # "EXACT"
  BY <1>7, <1>13, <1>14, <1>16 DEF Covers
<1> QED BY <1>15, <1>16

-----------------------------------------------------------------------------
(* The theorems: in every reachable state of a ledger of finitely many     *)
(* identities, whatever was created, edited, moved and deleted since.      *)

(* The shares of an expense add up to its amount ("in modo che             *)
(* sum(shares) == total"), by the exact method to half a cent each: for    *)
(* every amount, every number of participants and all raw inputs, from     *)
(* which apply_split_shares divides what the requests ask for.             *)
THEOREM SharesAddUp ==
  ASSUME \A sp \in Splits : Asked(sp)
  PROVE  Spec => []SharesCoverAmount
<1>1. BInv => SharesCoverAmount
  <2> SUFFICES ASSUME BInv, NEW e \in Expenses PROVE Covers(expense[e].split)
    BY DEF SharesCoverAmount, Covers
  <2>1. e \in ExpenseIds /\ expense[e] # NoRow
    BY DEF Expenses
  <2>2. CASE expense[e].split.among = {}
    <3> DEFINE sp == expense[e].split
    <3>1. Missed(sp) = 0 /\ Cardinality(sp.among) = 0
      BY <2>2, FS_EmptySet DEF Missed
    <3> HIDE DEF sp
    <3>2. Covers(sp)
      BY <3>1 DEF Covers
    <3> QED BY <3>2 DEF sp
  <2>3. CASE expense[e].split \in Splits
    BY <2>3, AskedCovers
  <2> QED BY <2>1, <2>2, <2>3 DEF BInv, Rows
<1> QED BY <1>1, BalancesInvariance, PTL

(* The balances of a group add up to the cents its shares have missed: the *)
(* group payments count in full, the cross-group ones as far as they are   *)
(* allocated to the group (compute_group_balances).                        *)
THEOREM BooksAreZeroSum ==
  ASSUME IsFiniteSet(Identities) PROVE Spec => []GroupBooksBalance
<1>1. BInv => GroupBooksBalance
  BY BooksBalance
<1> QED BY <1>1, BalancesInvariance, PTL

(* The pairwise balances of a user (compute_relative_balances) add up to   *)
(* the absolute one (compute_balances), but for the cents missed by the    *)
(* splits the user has paid.                                               *)
THEOREM PairsMakeTheWhole ==
  ASSUME IsFiniteSet(Identities) PROVE Spec => []PairsAddUp
<1>1. BInv => PairsAddUp
  BY PairsSum
<1> QED BY <1>1, BalancesInvariance, PTL

(* The allocation table and the balances, computed by code that shares     *)
(* nothing, agree: the open shares of a pair less its idle money, in both  *)
(* directions, are its balance (allocations.py against balances.py).       *)
THEOREM AllocationsTellTheBalance ==
  ASSUME IsFiniteSet(Identities) PROVE Spec => []OpenDebtsMatchBalances
<1>1. BInv => OpenDebtsMatchBalances
  BY AllocationsMatchBalances
<1> QED BY <1>1, BalancesInvariance, PTL

(* Two users who both see the expenses they share are told the same debt   *)
(* (SplitBalancesOverviewView).                                            *)
THEOREM OverviewsTellOneDebt ==
  ASSUME IsFiniteSet(Identities) PROVE Spec => []OverviewsAgree
<1>1. BInv => OverviewsAgree
  BY OverviewsMatch
<1> QED BY <1>1, BalancesInvariance, PTL

(* The payments suggested to a group (simplify_debts on its balances)      *)
(* settle it, and are at most one fewer than the members with a balance.   *)
THEOREM SuggestedPaymentsSettle ==
  ASSUME IsFiniteSet(Identities) PROVE Spec => []SuggestionsSettle
<1>1. BInv => SuggestionsSettle
  <2> SUFFICES ASSUME BInv, NEW g \in GroupIds
               PROVE  LET bal == [k \in Identities |-> GroupBalance(alloc, g, k)] IN
                      Settled(Simplify(bal), {k \in Identities : bal[k] # 0})
    BY Zenon DEF SuggestionsSettle, Settled
  <2> DEFINE bal == [k \in Identities |-> GroupBalance(alloc, g, k)]
  <2>1. bal \in [Identities -> Int]
    BY GroupBalanceIsInteger
  <2> HIDE DEF bal
  <2>2. Settled(Simplify(bal), {k \in Identities : bal[k] # 0})
    BY <2>1, SimplifySettles
  <2> QED BY <2>2 DEF bal
<1> QED BY <1>1, BalancesInvariance, PTL
=============================================================================
