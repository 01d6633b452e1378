----------------------------- MODULE SplitBalances -----------------------------
(***************************************************************************)
(* The balances computed from the ledger of SplitLedger: the absolute ones *)
(* of a group (compute_balances and compute_group_balances), the payments  *)
(* suggested to settle them (simplify_debts), and the pairwise ones of the *)
(* overview of a user (compute_relative_balances over the expenses the     *)
(* user sees).                                                             *)
(***************************************************************************)
EXTENDS SplitLedger

Expenses == {e \in ExpenseIds : expense[e] # NoRow}
Settlements == {s \in SettlementIds : settlement[s] # NoRow}
InGroup(rows, S, g) == {x \in S : rows[x].group = g}

(* What the shares of one expense add to the balance of k: the payer has   *)
(* advanced the whole amount.                                              *)
ShareEffect(sp, k) ==
  IF k \notin sp.among THEN 0
  ELSE IF k = sp.payer THEN sp.amount - sp.share[k] ELSE -sp.share[k]

PaymentEffect(pay, amount, k) ==
  IF k = pay.debtor THEN amount ELSE IF k = pay.creditor THEN -amount ELSE 0

(* compute_balances over the shares of E and the settlements of S. *)
Balance(E, S, k) ==
  SumOver(E, [e \in E |-> ShareEffect(expense[e].split, k)])
  + SumOver(S, [s \in S |->
      PaymentEffect(settlement[s].pay, settlement[s].pay.amount, k)])

(* The part of a cross-group settlement allocated to the shares of E. *)
AllocatedTo(al, s, E) == SumOver(E, [e \in E |-> al[s][e]])

(* Mutant: group settlements are counted a second time. *)
GroupBalanceTwice(al, g, k) ==
  LET E == InGroup(expense, Expenses, g) IN
  Balance(E, InGroup(settlement, Settlements, g), k)
  + SumOver(Settlements, [s \in Settlements |->
      IF k = settlement[s].pay.debtor THEN AllocatedTo(al, s, E) ELSE 0])

GroupBalance(al, g, k) ==
  LET E == InGroup(expense, Expenses, g)
      cross == InGroup(settlement, Settlements, NoGroup)
  IN  Balance(E, InGroup(settlement, Settlements, g), k)
      + SumOver(cross, [s \in cross |->
          PaymentEffect(settlement[s].pay, AllocatedTo(al, s, E), k)])

(* Mutant: the debtor pays all that is owed, whatever the creditor is due. *)
PayNextWhole(w, owing, due) ==
  LET pay == w.debt[owing[w.i]] IN
  [w EXCEPT !.debt[owing[w.i]] = 0,
            !.credit[due[w.j]] = @ - pay,
            !.i = @ + 1,
            !.j = IF w.credit[due[w.j]] <= pay THEN @ + 1 ELSE @,
            !.paid = @ + 1]

(* One turn of the loop of simplify_debts over the debtors `owing` and the *)
(* creditors `due`: the lesser side is settled, and left behind.           *)
PayNext(w, owing, due) ==
  LET d == owing[w.i]
      c == due[w.j]
      pay == Lesser(w.debt[d], w.credit[c])
  IN  [w EXCEPT !.debt[d] = @ - pay,
                !.credit[c] = @ - pay,
                !.i = IF w.debt[d] = pay THEN @ + 1 ELSE @,
                !.j = IF w.credit[c] = pay THEN @ + 1 ELSE @,
                !.paid = @ + 1]

(* simplify_debts: debtors and creditors by decreasing balance (equal ones *)
(* in any order), paired until one side is exhausted.  `paid` counts the   *)
(* suggested payments; debt and credit are what they leave.                *)
Simplify(bal) ==
  LET debtors == {k \in DOMAIN bal : bal[k] < 0}
      creditors == {k \in DOMAIN bal : bal[k] > 0}
      owing == Ranked(debtors, bal)
      due == Ranked(creditors, [k \in creditors |-> -bal[k]])
      pass[n \in 0 .. Cardinality(debtors) + Cardinality(creditors)] ==
        IF n = 0
        THEN [debt |-> [k \in debtors |-> -bal[k]],
              credit |-> [k \in creditors |-> bal[k]], i |-> 1, j |-> 1, paid |-> 0]
        ELSE LET w == pass[n - 1] IN
             IF w.i > Cardinality(debtors) \/ w.j > Cardinality(creditors) THEN w
             ELSE PayNext(w, owing, due)
  IN  pass[Cardinality(debtors) + Cardinality(creditors)]

(* Mutant: whoever shares an expense with me owes me, also when a third    *)
(* person has paid it.                                                     *)
OwedInAny(sp, me, k) ==
  IF sp.payer \notin sp.among \/ k = me THEN 0
  ELSE IF k = sp.payer
       THEN IF me \in sp.among THEN -sp.share[me] ELSE 0
       ELSE IF k \in sp.among THEN sp.share[k] ELSE 0

(* What k owes me by the shares of one expense: only debts between the     *)
(* payer and the others count, and an expense without payer is skipped.    *)
OwedIn(sp, me, k) ==
  IF sp.payer \notin sp.among \/ k = me THEN 0
  ELSE IF me = sp.payer
       THEN IF k \in sp.among THEN sp.share[k] ELSE 0
       ELSE IF k = sp.payer /\ me \in sp.among THEN -sp.share[me] ELSE 0

(* Mutant: only the payments I have made count. *)
PaidOnly(pay, me, k) ==
  IF pay.debtor = me /\ pay.creditor = k THEN pay.amount ELSE 0

PaidTo(pay, me, k) ==
  IF pay.debtor = me /\ pay.creditor = k THEN pay.amount
  ELSE IF pay.creditor = me /\ pay.debtor = k THEN -pay.amount ELSE 0

(* compute_relative_balances: positive when k owes me. *)
Relative(E, me, k) ==
  SumOver(E, [e \in E |-> OwedIn(expense[e].split, me, k)])
  + SumOver(Settlements, [s \in Settlements |-> PaidTo(settlement[s].pay, me, k)])

(* The shares that SplitBalancesOverviewView reads.  It reads every        *)
(* settlement of which the user is a party, and no other one counts.       *)
Sees(u, e) ==
  LET row == expense[e] IN
  \/ row.by = u \/ u \in row.adhoc
  \/ row.group # NoGroup /\ CanAccessGroup(u, row.group)

Overview(u, k) == Relative({e \in Expenses : Sees(u, e)}, u, k)

(***************************************************************************)
(* Properties.                                                             *)
(***************************************************************************)

(* The cents of an expense that its shares miss. *)
Missed(sp) ==
  IF sp.among = {} THEN 0 ELSE sp.amount - SumOver(sp.among, sp.share)

(* The shares add up to the amount ("in modo che sum(shares) == total"),   *)
(* whatever was created, edited and moved since; except by the exact       *)
(* method, which rounds each share and compares only the rounded sum: it   *)
(* misses at most half a cent for each share and one half for the sum.     *)
SharesCoverAmount ==
  \A e \in Expenses :
    LET sp == expense[e].split IN
    IF sp.method = "EXACT"
    THEN 2 * Missed(sp) \in -(Cardinality(sp.among) + 1) .. (Cardinality(sp.among) + 1)
    ELSE Missed(sp) = 0

(* The book of a group is a zero-sum game, cross-group payments included:  *)
(* what one member is owed others owe, but for the cents that an exact     *)
(* split has missed.                                                       *)
GroupBooksBalance ==
  \A g \in GroupIds :
    LET E == InGroup(expense, Expenses, g) IN
    SumOver(Identities, [k \in Identities |-> GroupBalance(alloc, g, k)])
      = SumOver(E, [e \in E |-> Missed(expense[e].split)])

(* The suggested payments settle the group: nobody is both left owing and  *)
(* left owed by others, nobody pays or gets too much, and they are at most *)
(* one fewer than the members with a balance ("al massimo n-1 transazioni").*)
SuggestionsSettle ==
  \A g \in GroupIds :
    LET bal == [k \in Identities |-> GroupBalance(alloc, g, k)]
        left == Simplify(bal)
        open == {k \in Identities : bal[k] # 0}
    IN  /\ \A k \in DOMAIN left.debt : left.debt[k] >= 0
        /\ \A k \in DOMAIN left.credit : left.credit[k] >= 0
        /\ \/ \A k \in DOMAIN left.debt : left.debt[k] = 0
           \/ \A k \in DOMAIN left.credit : left.credit[k] = 0
        /\ open # {} => left.paid < Cardinality(open)

(* The pairwise balances of a user add up to the absolute one              *)
(* (test_sum_of_relative_balances_matches_my_absolute_balance), but for    *)
(* the cents missed by the splits the user has paid.                       *)
PairsAddUp ==
  \A u \in Users :
    LET paid == {e \in Expenses : expense[e].split.payer = u} IN
    SumOver(Identities, [k \in Identities |-> Relative(Expenses, u, k)])
      = Balance(Expenses, Settlements, u)
        - SumOver(paid, [e \in paid |-> Missed(expense[e].split)])

(* The allocation table and the balances tell the same story: what a pair  *)
(* owes is its open shares less the money of its payments that has found   *)
(* no share, in both directions.                                           *)
StillOpen(d, c) ==
  LET E == {e \in Expenses : <<d, c>> \in PairsOf(expense, e)} IN
  SumOver(E, [e \in E |-> Open(expense, settlement, alloc, e, d)])

Unspent(d, c) ==
  LET S == OfPairs(settlement, {<<d, c>>}) IN
  SumOver(S, [s \in S |-> Remaining(settlement, alloc, s)])

OpenDebtsMatchBalances ==
  \A c \in Users : \A d \in Identities \ {c} :
    Relative({e \in Expenses : expense[e].split.payer \in expense[e].split.among}, c, d)
      = (StillOpen(d, c) - Unspent(d, c)) - (StillOpen(c, d) - Unspent(c, d))

(* Two users who both see the expenses they share see the same debt, with  *)
(* opposite signs.                                                         *)
OverviewsAgree ==
  \A u, v \in Users :
    (\A e \in Expenses :
       {u, v} \subseteq expense[e].split.among => Sees(u, e) /\ Sees(v, e))
    => Overview(u, v) = -Overview(v, u)

=============================================================================
