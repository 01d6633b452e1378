---------------------------- MODULE SplitAllocRace ----------------------------
(***************************************************************************)
(* Overlapping writers of the split ledger, statement by statement: the    *)
(* requests that register a payment (SplitSettlementSerializer.create and  *)
(* allocate_new_settlement) and those that create a shared expense         *)
(* (SplitExpenseSerializer.create, apply_split_shares and one              *)
(* rebuild_allocations_for_directed_pair per debtor).  Each request is one *)
(* database transaction; a statement sees the rows committed when it       *)
(* starts and the transaction's own writes (READ COMMITTED, the default of *)
(* the PostgreSQL stack).  At most Writers transactions are open at a time:*)
(* one on SQLite, where the first statement of both requests is an INSERT, *)
(* which takes the write lock; one per gunicorn worker on PostgreSQL.      *)
(* All expenses are standalone and paid by one creditor; a pair is named by*)
(* its debtor.  Requests are numbered by the date of their settlement or   *)
(* expense.                                                                *)
(***************************************************************************)
EXTENDS Integers, Sequences, FiniteSets, Totals

CONSTANTS
  Creditor, Debtors,  \* the identities
  Pays, Charges,      \* the requests, numbered by date
  MaxRequest,         \* requests ever sent
  Debtor,             \* Debtor[s]: who makes payment s
  Amount,             \* Amount[s]: its amount
  Due,                \* Due[e][d]: the share of d in expense e, 0 if none
  Writers,            \* write transactions open at a time
  Early,              \* requests that are over before the others begin
  Mortal,             \* requests whose worker may die while it serves them
  NoUser, NoRow       \* as in SplitLedger

Requests == Pays \cup Charges

ASSUME RaceAssumption ==
  /\ MaxRequest \in Nat
  /\ Requests \subseteq 1 .. MaxRequest /\ Pays \cap Charges = {}
  /\ Debtor \in [Pays -> Debtors] /\ Amount \in [Pays -> Nat \ {0}]
  /\ Due \in [Charges -> [Debtors -> Nat]]
  /\ Writers \in Nat \ {0} /\ Early \cup Mortal \subseteq Requests

VARIABLES
  stage,          \* stage[r]: the next statement of request r
  tx,             \* tx[r]: the writes and the local variables of request r
  rows,           \* rows[s][e]: the committed row of settlement s on expense e
  paid, charged,  \* the committed settlements and expenses, in commit order
  met             \* met[r]: requests that were active together with r

vars == <<stage, tx, rows, paid, charged, met>>

NoRows == [s \in Pays |-> [e \in Charges |-> 0]]

Fresh == [own |-> NoRows, gone |-> {}, found |-> {}, left |-> {}, shares |-> {},
          payments |-> {}, ahead |-> {}, pair |-> Creditor, pay |-> 0,
          share |-> 0, remaining |-> 0, take |-> 0]

Ended == {"committed", "failed"}
Active(r) == stage[r] \notin Ended \cup {"idle"}

Others(r) == {q \in Requests \ {r} : Active(q)}

(* What a statement of r sees. *)
Seen(r, q) == q = r \/ stage[q] = "committed"

RowSeen(r, s, e) ==
  IF tx[r].own[s][e] > 0 THEN tx[r].own[s][e]
  ELSE IF <<s, e>> \in tx[r].gone THEN 0 ELSE rows[s][e]

View(r) == [s \in Pays |-> [e \in Charges |-> RowSeen(r, s, e)]]

(* aggregate(Sum("amount")) over the rows al on the share of d in expense  *)
(* e, and over those of settlement s.                                      *)
Settled(al, e, d) ==
  Total([s \in 1 .. MaxRequest |->
           IF s \in Pays /\ Debtor[s] = d THEN al[s][e] ELSE 0], MaxRequest)

Spent(al, s) ==
  Total([e \in 1 .. MaxRequest |-> IF e \in Charges THEN al[s][e] ELSE 0], MaxRequest)

(* _open_share_amount and _remaining_settlement_amount, as r sees them. *)
OpenSeen(r, e) == Due[e][tx[r].pair] - Settled(View(r), e, tx[r].pair)
RemainingSeen(r, s) == Amount[s] - Spent(View(r), s)

(* Mutant: ORDER BY -date. *)
Latest(S) == CHOOSE x \in S : \A y \in S : y <= x

(* order_by("date", ...) *)
First(S) == CHOOSE x \in S : \A y \in S : x <= y

-----------------------------------------------------------------------------
Init ==
  /\ stage = [r \in Requests |-> "idle"]
  /\ tx = [r \in Requests |-> Fresh]
  /\ rows = NoRows
  /\ paid = <<>> /\ charged = <<>>
  /\ met = [r \in Requests |-> {}]

Goto(r, label) == stage' = [stage EXCEPT ![r] = label]

Unchanged == UNCHANGED <<rows, paid, charged, met>>

(* The transaction opens and INSERTs the settlement, or the expense with   *)
(* its shares.                                                             *)
Begin(r) ==
  /\ stage[r] = "idle"
  /\ Cardinality(Others(r)) < Writers
  /\ IF r \in Early THEN Others(r) = {}
                    ELSE \A q \in Early : stage[q] \in Ended
  /\ Goto(r, IF r \in Pays THEN "shares" ELSE "pair")
  /\ tx' = [tx EXCEPT ![r] =
              IF r \in Pays
              THEN [Fresh EXCEPT !.pair = Debtor[r], !.payments = {r}]
              ELSE [Fresh EXCEPT !.left = {d \in Debtors : Due[r][d] > 0}]]
  /\ met' = [q \in Requests |-> IF q = r THEN Others(r)
                                ELSE IF q \in Others(r) THEN met[q] \cup {r}
                                ELSE met[q]]
  /\ UNCHANGED <<rows, paid, charged>>

(* for debtor_key, creditor_key in old_pairs | new_pairs: a Python set, in *)
(* any order.  The DELETE of the rebuild starts: it finds the rows of the  *)
(* pair that are committed now.                                            *)
StartPair(r) ==
  /\ stage[r] = "pair"
  /\ \E d \in tx[r].left :
       tx' = [tx EXCEPT ![r].pair = d,
                        ![r].left = @ \ {d},
                        ![r].found = {m \in Pays \X Charges :
                                        Debtor[m[1]] = d /\ rows[m[1]][m[2]] > 0}]
  /\ Goto(r, "delete")
  /\ Unchanged

(* The active requests for whose end r waits: those that have deleted a row*)
(* that r deletes, or that have written or deleted the row r inserts (the  *)
(* unique constraint on settlement and share).                             *)
WaitsFor(r) ==
  CASE stage[r] = "delete" ->
         {q \in Others(r) : tx[q].gone \cap tx[r].found # {}}
    [] stage[r] = "insert" ->
         {q \in Others(r) : \/ <<tx[r].pay, tx[r].share>> \in tx[q].gone
                            \/ tx[q].own[tx[r].pay][tx[r].share] > 0}
    [] OTHER -> {}

(* Mutant: the DELETE is forgotten. *)
DeleteNothing(r) ==
  /\ stage[r] = "delete" /\ WaitsFor(r) = {}
  /\ tx' = [tx EXCEPT ![r].found = {}]
  /\ Goto(r, "shares")
  /\ Unchanged

(* The DELETE ends, once no row that it found is locked. *)
DeleteRows(r) ==
  /\ stage[r] = "delete" /\ WaitsFor(r) = {}
  /\ tx' = [tx EXCEPT ![r].gone = @ \cup tx[r].found, ![r].found = {}]
  /\ Goto(r, "shares")
  /\ Unchanged

(* shares = list(shares) *)
ListShares(r) ==
  /\ stage[r] = "shares"
  /\ tx' = [tx EXCEPT ![r].shares = {e \in Charges : Seen(r, e)
                                                     /\ Due[e][tx[r].pair] > 0}]
  /\ Goto(r, IF r \in Pays THEN "payment" ELSE "payments")
  /\ Unchanged

(* for settlement in settlements: the queryset is read here. *)
ListPayments(r) ==
  /\ stage[r] = "payments"
  /\ tx' = [tx EXCEPT ![r].payments = {s \in Pays : Seen(r, s)
                                                    /\ Debtor[s] = tx[r].pair}]
  /\ Goto(r, "payment")
  /\ Unchanged

(* _remaining_settlement_amount of the next settlement. *)
NextPayment(r) ==
  /\ stage[r] = "payment" /\ tx[r].payments # {}
  /\ LET s == First(tx[r].payments)
         remaining == RemainingSeen(r, s)
     IN  tx' = [tx EXCEPT ![r].payments = @ \ {s}, ![r].pay = s,
                          ![r].remaining = remaining,
                          ![r].ahead = IF remaining > 0 THEN tx[r].shares ELSE {}]
  /\ Goto(r, "share")
  /\ Unchanged

(* Mutants: take all the money, take the whole share, or do not move on  *)
(* from a share that is not open.                                          *)
NextShareAllMoney(r) ==
  /\ stage[r] = "share" /\ tx[r].ahead # {}
  /\ LET e == First(tx[r].ahead) IN
     /\ tx' = [tx EXCEPT ![r].ahead = @ \ {e}, ![r].share = e,
                         ![r].take = tx[r].remaining]
     /\ Goto(r, IF OpenSeen(r, e) > 0 THEN "insert" ELSE "share")
  /\ Unchanged

NextShareWhole(r) ==
  /\ stage[r] = "share" /\ tx[r].ahead # {}
  /\ LET e == First(tx[r].ahead) IN
     /\ tx' = [tx EXCEPT ![r].ahead = @ \ {e}, ![r].share = e,
                         ![r].take = OpenSeen(r, e)]
     /\ Goto(r, IF OpenSeen(r, e) > 0 THEN "insert" ELSE "share")
  /\ Unchanged

NextShareStuck(r) ==
  /\ stage[r] = "share" /\ tx[r].ahead # {}
  /\ LET e == First(tx[r].ahead) IN
     /\ OpenSeen(r, e) > 0
     /\ tx' = [tx EXCEPT ![r].ahead = @ \ {e}, ![r].share = e,
                         ![r].take = IF OpenSeen(r, e) < tx[r].remaining
                                     THEN OpenSeen(r, e) ELSE tx[r].remaining]
     /\ Goto(r, "insert")
  /\ Unchanged

(* _open_share_amount of the next share of this settlement. *)
NextShare(r) ==
  /\ stage[r] = "share" /\ tx[r].ahead # {}
  /\ LET e == First(tx[r].ahead)
         open == OpenSeen(r, e)
     IN  /\ tx' = [tx EXCEPT ![r].ahead = @ \ {e}, ![r].share = e,
                             ![r].take = IF open < tx[r].remaining
                                         THEN open ELSE tx[r].remaining]
         /\ Goto(r, IF open > 0 THEN "insert" ELSE "share")
  /\ Unchanged

EndPayment(r) ==
  /\ stage[r] = "share" /\ tx[r].ahead = {}
  /\ Goto(r, "payment")
  /\ UNCHANGED tx /\ Unchanged

(* A row of the settlement on the share that another request has committed *)
(* meanwhile, and that r has not deleted, refuses the INSERT.              *)
Duplicate(r) ==
  LET s == tx[r].pay
      e == tx[r].share
  IN  rows[s][e] > 0 /\ <<s, e>> \notin tx[r].gone

InsertRow(r) ==
  /\ stage[r] = "insert" /\ WaitsFor(r) = {} /\ ~Duplicate(r)
  /\ LET left == tx[r].remaining - tx[r].take IN
     tx' = [tx EXCEPT ![r].own[tx[r].pay][tx[r].share] = tx[r].take,
                      ![r].remaining = left,
                      ![r].ahead = IF left > 0 THEN @ ELSE {}]
  /\ Goto(r, "share")
  /\ Unchanged

(* Mutant: the loop over the pairs starts over. *)
EndPairAgain(r) ==
  /\ stage[r] = "payment" /\ tx[r].payments = {}
  /\ Goto(r, IF r \in Pays THEN "commit" ELSE "payments")
  /\ UNCHANGED tx /\ Unchanged

(* The rebuild of a pair is over. *)
EndPair(r) ==
  /\ stage[r] = "payment" /\ tx[r].payments = {}
  /\ Goto(r, IF r \in Pays THEN "commit" ELSE "pair")
  /\ UNCHANGED tx /\ Unchanged

EndCharge(r) ==
  /\ stage[r] = "pair" /\ tx[r].left = {}
  /\ Goto(r, "commit")
  /\ UNCHANGED tx /\ Unchanged

(* COMMIT.  A DELETE that waited for r skips the rows that r has deleted,  *)
(* and does not see those that r has written in their place.               *)
Commit(r) ==
  /\ stage[r] = "commit"
  /\ rows' = View(r)
  /\ tx' = [q \in Requests |->
              IF q = r THEN Fresh
                       ELSE [tx[q] EXCEPT !.found = @ \ tx[r].gone]]
  /\ IF r \in Pays THEN paid' = Append(paid, r) /\ UNCHANGED charged
                   ELSE charged' = Append(charged, r) /\ UNCHANGED paid
  /\ Goto(r, "committed")
  /\ UNCHANGED met

(* transaction.atomic() rolls everything back. *)
Rollback(r) ==
  /\ tx' = [tx EXCEPT ![r] = Fresh]
  /\ Goto(r, "failed")
  /\ Unchanged

Refused(r) ==
  stage[r] = "insert" /\ WaitsFor(r) = {} /\ Duplicate(r) /\ Rollback(r)

(* A worker that dies, or a client timeout, at any statement. *)
Crash(r) == r \in Mortal /\ Active(r) /\ Rollback(r)

(* Requests that wait for each other in a circle. *)
OnCycle(r) ==
  LET behind[n \in Nat] ==
        IF n = 0 THEN WaitsFor(r)
                 ELSE behind[n - 1] \cup UNION {WaitsFor(q) : q \in behind[n - 1]}
  IN  WaitsFor(r) # {} /\ r \in behind[Cardinality(Requests)]

(* The deadlock detector of PostgreSQL ends one of them. *)
Victim(r) == OnCycle(r) /\ Rollback(r)

Step(r) ==
  \/ StartPair(r) \/ DeleteRows(r) \/ ListShares(r) \/ ListPayments(r)
  \/ NextPayment(r) \/ NextShare(r) \/ EndPayment(r) \/ InsertRow(r)
  \/ EndPair(r) \/ EndCharge(r) \/ Commit(r) \/ Refused(r) \/ Victim(r)

Next == \E r \in Requests : Begin(r) \/ Step(r) \/ Crash(r)

(* The worker that serves a request runs it on; it need not accept one. *)
Spec == Init /\ [][Next]_vars /\ \A r \in Requests : WF_vars(Step(r))

-----------------------------------------------------------------------------
(* Invariant (b) of SplitSettlementAllocation: the committed rows of a     *)
(* share never exceed it.                                                  *)
ShareSound(al, e, d) == Settled(al, e, d) <= Due[e][d]

SharesNeverOverSettled == \A e \in Charges, d \in Debtors : ShareSound(rows, e, d)

(* The two passes "non possono mai allocare due volte" (allocations.py):   *)
(* the committed rows of a payment never exceed it.                        *)
PaymentSound(al, s) == Spent(al, s) <= Amount[s]

SettlementsNeverOverSpent == \A s \in Pays : PaymentSound(rows, s)

(* Every request that has begun ends: whatever waits, waits for a request  *)
(* that ends.                                                              *)
EveryRequestEnds == \A r \in Requests : Active(r) ~> stage[r] \in Ended

(* What overlapping writers have spoiled, the next expense of the same     *)
(* debtors repairs if it meets nobody: the rebuild starts from nothing.    *)
QuietRebuildRepairs ==
  [][\A r \in Charges :
       stage[r] = "commit" /\ stage'[r] = "committed" /\ met[r] = {} =>
         \A d \in Debtors : Due[r][d] > 0 =>
           /\ \A e \in Charges : ShareSound(rows', e, d)
           /\ \A s \in Pays : Debtor[s] = d => PaymentSound(rows', s)]_vars

(* One writer at a time, the statements implement the atomic ledger.       *)
SplitOfCharge(e) ==
  [amount |-> SumOver(Debtors, Due[e]), method |-> "EXACT",
   payer |-> Creditor,
   among |-> {Creditor} \cup {d \in Debtors : Due[e][d] > 0},
   share |-> [i \in {Creditor} \cup Debtors |->
                IF i = Creditor THEN 0 ELSE Due[e][i]]]

PaymentOf(s) == [debtor |-> Debtor[s], creditor |-> Creditor,
                 amount |-> Amount[s], date |-> s]

ExpenseRow(e) == [group |-> 0, date |-> e, by |-> Creditor,
                  split |-> SplitOfCharge(e), adhoc |-> SplitOfCharge(e).among,
                  home |-> 0]

Ledger == INSTANCE SplitLedger WITH
  Users <- {Creditor}, Contacts <- Debtors, Book <- [u \in {Creditor} |-> Debtors],
  MaxGroup <- 0, MaxExpense <- Cardinality(Charges),
  MaxSettlement <- Cardinality(Pays), Dates <- Requests,
  Splits <- {SplitOfCharge(e) : e \in Charges},
  Payments <- {PaymentOf(s) : s \in Pays},
  creator <- <<>>, members <- <<>>,
  expense <- [k \in 1 .. Cardinality(Charges) |->
                IF k <= Len(charged) THEN ExpenseRow(charged[k]) ELSE NoRow],
  settlement <- [k \in 1 .. Cardinality(Pays) |->
                   IF k <= Len(paid)
                   THEN [group |-> 0, pay |-> PaymentOf(paid[k])] ELSE NoRow],
  alloc <- [k \in 1 .. Cardinality(Pays) |-> [j \in 1 .. Cardinality(Charges) |->
              IF k <= Len(paid) /\ j <= Len(charged)
              THEN rows[paid[k]][charged[j]] ELSE 0]],
  last <- [group |-> 0, expense |-> Len(charged), settlement |-> Len(paid)]

(* Users are finitely many rows; the creditor is a user, and a participant *)
(* only of his own share; the two NULLs are no users and no rows.          *)
ASSUME MappingAssumption ==
  /\ IsFiniteSet(Debtors) /\ Creditor \notin Debtors /\ NoUser # Creditor
  /\ NoRow \notin Ledger!Expense /\ NoRow \notin Ledger!Settlement

(* Ledger!Spec, with the cheap disjunct of [Next]_vars first. *)
ImplementsLedger ==
  Ledger!Init /\ [][UNCHANGED <<rows, paid, charged>> \/ Ledger!Next]_vars
=============================================================================
