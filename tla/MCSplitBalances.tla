---------------------------- MODULE MCSplitBalances ----------------------------
(* Two parts of one small instance of SplitBalances: Ana and Ben, who are  *)
(* partners, and Cam, a contact of both.  "books": expenses among the three*)
(* and one payment.  "scope": Ben owes to Ana, in one group or outside of  *)
(* it, and two payments, for the order in which a rebuild spends group and *)
(* cross-group payments: the expense entered first is the younger one, and *)
(* the payments carry two dates and are recorded in either order.          *)
EXTENDS SplitBalances, SplitShares

CONSTANTS ana, ben, cam

VARIABLE part

MCBook == [u \in Users |-> Identities \ {u}]

Pay(p, q, n, d) == [debtor |-> p, creditor |-> q, amount |-> n, date |-> d]

(* 5 cents among three: 1.67 is rounded to 2, and the first gives one back. *)
Dinner == Divided("EQUAL", 5, ana, <<ana, ben, cam>>, <<>>, Identities)
(* 4 cents among three: 1.33 is rounded to 1, and the first gets one more. *)
Lunch == Divided("SHARES", 4, ben, <<ben, ana, cam>>, <<10000, 10000, 10000>>, Identities)
(* 1 cent of which each has 0.5: both are rounded to 1, and 1 is missed.   *)
Coffee == Divided("EXACT", 1, ben, <<ana, ben>>, <<50, 50>>, Identities)
(* Half of 3 cents is 2 for each, and the first participant gives one back. *)
Taxi == Divided("PERCENTAGE", 3, ana, <<ana, ben>>, <<500000, 500000>>, Identities)

BooksSplits == Dinner \cup Lunch \cup Coffee
BooksPayments == {Pay(ben, ana, 2, 1)}
ScopePayments == {Pay(ben, ana, 1, 2), Pay(ben, ana, 3, 1)}

MCSplits == BooksSplits \cup Taxi
MCPayments == BooksPayments \cup ScopePayments

(* What a part may write; Ana creates the groups and the first expense. *)
Limited ==
  /\ \A g \in GroupIds : creator'[g] # ben
  /\ expense'[1] # NoRow => expense'[1].by = ana
  /\ \/ /\ part = "books"
        /\ last'.settlement <= 1
        /\ \A e \in ExpenseIds :
             expense'[e] # NoRow =>
               expense'[e].split.amount # 3 /\ expense'[e].date = 1
        /\ \A s \in SettlementIds :
             settlement'[s] # NoRow => settlement'[s].pay \in BooksPayments
     \/ /\ part = "scope"
        /\ \A g \in GroupIds : cam \notin members'[g]
        /\ \A e \in ExpenseIds :
             expense'[e] # NoRow =>
               /\ expense'[e].by = ana /\ expense'[e].split.amount = 3
               /\ expense'[e].date = 1 + MaxExpense - e
        /\ \A s \in SettlementIds :
             settlement'[s] # NoRow => settlement'[s].pay \in ScopePayments

MCInit == part \in {"books", "scope"} /\ Init

MCNext == Next /\ Limited /\ UNCHANGED part

MCSpec == MCInit /\ [][MCNext]_<<vars, part>>

=============================================================================
