-------------------------------- MODULE WebSettle --------------------------------
(***************************************************************************)
(* The sheet that settles a debt: it opens on a balance of the overview or *)
(* on a suggested payment of a group, proposes the amount and, when every  *)
(* open expense of the two was paid from one account, that account.  From  *)
(* the overview the expenses are read first, while the user may close the  *)
(* sheet, open another one, or choose an account.  My own id is known.     *)
(***************************************************************************)
EXTENDS Integers, FiniteSets

CONSTANTS
  Me, Others,
  Accounts,
  Books,        \* what the expenses may be: sets of [with, account, open]
  MaxDebt,
  MaxOpenings,  \* bound: how often the sheet is opened
  None

Debts == -MaxDebt..MaxDebt
Reachable == -(2 * MaxDebt)..(2 * MaxDebt)   \* a settlement of too much turns a debt around
People == {Me} \cup Others

SettleAssumption ==
  /\ Me \notin Others /\ None \notin Accounts /\ MaxDebt \in Nat /\ MaxOpenings \in Nat
  /\ None \notin [with : Others, balance : Reachable]
  /\ \A b \in Books : b \subseteq [with : Others, account : Accounts \cup {None}, open : BOOLEAN]

VARIABLES
  debt,        \* debt[p]: what p owes me; negative: what I owe
  books,       \* the expenses between me and each of them
  sheet,       \* None, or the entry shown: [with, balance]
  amount,      \* what is in the field
  account,     \* the account shown, or None
  chosen,      \* history: I chose the account of this sheet
  reads,       \* reads of the expenses on their way: whom they are for
  sent,        \* settlements on their way
  submitting,
  openings,
  settled      \* history: settled[n], settlements made by the n-th opening

vars == <<debt, books, sheet, amount, account, chosen, reads, sent, submitting, openings, settled>>

Entries == [with : Others, balance : Reachable \ {0}]

DebtType == debt \in [Others -> Reachable] /\ books \in Books
SheetType ==
  /\ sheet \in Entries \cup {None} /\ (sheet # None => openings > 0)
  /\ amount \in Reachable /\ account \in Accounts \cup {None} /\ chosen \in BOOLEAN
  /\ reads \subseteq Others /\ (\A p \in reads : sheet # None /\ sheet.with = p)
SentType ==
  /\ submitting \in BOOLEAN /\ (submitting <=> sent # {}) /\ openings \in 0..MaxOpenings
  /\ settled \in [1..MaxOpenings -> Nat]
TypeOK == DebtType /\ SheetType /\ SentType

Init ==
  /\ debt \in [Others -> Debts] /\ books \in Books
  /\ sheet = None /\ amount = 0 /\ account = None /\ chosen = FALSE
  /\ reads = {} /\ sent = {} /\ submitting = FALSE
  /\ openings = 0 /\ settled = [n \in 1..MaxOpenings |-> 0]

(***************************************************************************)
(* Opening and closing                                                     *)
(***************************************************************************)
(* Mutant: settled expenses count as well. *)
AllBetween(p) == {e \in books : e.with = p}

OpenSplitExpensesBetween(p) == {e \in books : e.with = p /\ e.open}

SuggestSettleAccount(open) ==
  LET used == {e.account : e \in open} IN
  IF \E a \in used : used = {a} THEN CHOOSE a \in used : TRUE ELSE None

(* Mutant: a read that is no longer wanted is heard. *)
StillWanted == reads

(* The clean-up of the effect. *)
Cancelled == {}

Opened(entry) ==
  /\ sheet = None /\ openings < MaxOpenings /\ openings' = openings + 1
  /\ sheet' = entry /\ amount' = IF entry.balance < 0 THEN -entry.balance ELSE entry.balance
  /\ chosen' = FALSE
  /\ UNCHANGED <<debt, books, sent, submitting, settled>>

OpenFromOverview(p) ==
  /\ debt[p] # 0 /\ Opened([with |-> p, balance |-> debt[p]])
  /\ account' = None /\ reads' = Cancelled \cup {p}

SimplifiedTransactionToSettleEntry(tx) ==
  IF tx.from = Me THEN [with |-> tx.to, balance |-> -tx.amount]
  ELSE [with |-> tx.from, balance |-> tx.amount]

(* The suggested payments of a group of two are its debts.                 *)
Suggested ==
  {[from |-> p, to |-> Me, amount |-> debt[p]] : p \in {q \in Others : debt[q] > 0}} \cup
  {[from |-> Me, to |-> p, amount |-> -debt[p]] : p \in {q \in Others : debt[q] < 0}}

(* The expenses of the group are here already. *)
OpenFromGroup(tx) ==
  LET entry == SimplifiedTransactionToSettleEntry(tx) IN
  /\ Opened(entry) /\ reads' = Cancelled
  /\ account' = SuggestSettleAccount(OpenSplitExpensesBetween(entry.with))

Close ==
  /\ sheet # None /\ sheet' = None /\ reads' = Cancelled
  /\ UNCHANGED <<debt, books, amount, account, chosen, sent, submitting, openings, settled>>

HearExpenses(p) ==
  /\ reads' = reads \ {p}
  /\ account' = SuggestSettleAccount(OpenSplitExpensesBetween(p))
  /\ UNCHANGED <<debt, books, sheet, amount, chosen, sent, submitting, openings, settled>>
HearNothing(p) ==
  /\ reads' = reads \ {p}
  /\ UNCHANGED <<debt, books, sheet, amount, account, chosen, sent, submitting, openings, settled>>

(***************************************************************************)
(* Filling it in and sending it                                            *)
(***************************************************************************)
SetAmount(a) ==
  /\ sheet # None /\ amount' = a
  /\ UNCHANGED <<debt, books, sheet, account, chosen, reads, sent, submitting, openings, settled>>
SetLinkedAsset(a) ==
  /\ sheet # None /\ account' = a /\ chosen' = TRUE
  /\ UNCHANGED <<debt, books, sheet, amount, reads, sent, submitting, openings, settled>>

(* Mutant: the button works while an answer is awaited. *)
FreeAnyTime == TRUE

Free == ~submitting

(* Mutant: a positive balance is taken for what I owe. *)
OwedByMe(entry) == entry.balance < 0

OwedToMe(entry) == entry.balance > 0

HandleSubmit ==
  /\ sheet # None /\ Free /\ amount > 0
  /\ sent' = sent \cup {[n |-> openings, try |-> Cardinality(sent), shown |-> sheet, amount |-> amount,
                         payer |-> IF OwedToMe(sheet) THEN sheet.with ELSE Me,
                         payee |-> IF OwedToMe(sheet) THEN Me ELSE sheet.with]}
  /\ submitting' = TRUE
  /\ UNCHANGED <<debt, books, sheet, amount, account, chosen, reads, openings, settled>>

(* The server books a settlement of any amount.  The answer closes the     *)
(* sheet that is open, whichever it is.                                    *)
AddSplitSettlement(s) ==
  LET paid == IF s.payer = Me THEN s.amount ELSE -s.amount IN
  /\ debt[s.shown.with] + paid \in Reachable
  /\ debt' = [debt EXCEPT ![s.shown.with] = @ + paid]
  /\ settled' = [settled EXCEPT ![s.n] = @ + 1]
  /\ sent' = sent \ {s} /\ submitting' = FALSE /\ sheet' = None /\ reads' = Cancelled
  /\ UNCHANGED <<books, amount, account, chosen, openings>>

(* Mutant: the flag comes down after a success only. *)
StaysUp == TRUE

Down == FALSE

HearRefusal(s) ==
  /\ sent' = sent \ {s} /\ submitting' = Down
  /\ UNCHANGED <<debt, books, sheet, amount, account, chosen, reads, openings, settled>>

(* Somebody else spends or pays: bound, while the first sheet is open.     *)
SomebodyElse(p) ==
  /\ openings = 1 /\ sheet # None /\ \E d \in Debts : debt' = [debt EXCEPT ![p] = d]
  /\ UNCHANGED <<books, sheet, amount, account, chosen, reads, sent, submitting, openings, settled>>

Next ==
  \/ Close \/ HandleSubmit
  \/ \E p \in Others : OpenFromOverview(p) \/ SomebodyElse(p)
  \/ \E tx \in Suggested : OpenFromGroup(tx)
  \/ \E p \in reads : HearExpenses(p) \/ HearNothing(p)
  \/ \E a \in 0..MaxDebt : SetAmount(a)
  \/ \E a \in Accounts \cup {None} : SetLinkedAsset(a)
  \/ \E s \in sent : AddSplitSettlement(s) \/ HearRefusal(s)

Answer == \E s \in sent : AddSplitSettlement(s) \/ HearRefusal(s)
Spec == Init /\ [][Next]_vars /\ WF_vars(Answer)

(***************************************************************************)
(* Properties                                                              *)
(***************************************************************************)
(* "Never a risky guess": an account that I did not choose paid every open *)
(* expense between me and the one this sheet is about.                     *)
SuggestionIsOfThisPair ==
  sheet # None /\ ~chosen /\ account # None =>
    /\ \E e \in books : e.with = sheet.with /\ e.open
    /\ \A e \in books : e.with = sheet.with /\ e.open => e.account = account

(* A settlement of the amount proposed, for a debt that is still what the  *)
(* sheet shows, clears that debt: the right one of the two pays.           *)
ProposedClears ==
  \A s \in sent \ sent' :
    /\ settled' # settled /\ debt[s.shown.with] = s.shown.balance
    /\ s.amount \in {s.shown.balance, -s.shown.balance}
    => debt'[s.shown.with] = 0
SettlementClearsTheDebt == [][ProposedClears]_vars

(* One opening of the sheet books one settlement at most. *)
OneSettlementPerSheet == \A n \in 1..MaxOpenings : settled[n] <= 1

Working == submitting

(* The button comes back, also after an error. *)
SettlingEnds == Working ~> ~Working

(***************************************************************************)
(* The inductive invariant                                                 *)
(***************************************************************************)
(* One settlement is on its way, for a debt that its sheet showed, from    *)
(* the one of the two who owes.                                            *)
SentInv ==
  /\ \A s, t \in sent : s = t
  /\ \A s \in sent :
       /\ s.n \in 1..openings /\ s.shown \in Entries /\ s.amount \in Reachable /\ s.amount > 0
       /\ s.payer = IF s.shown.balance > 0 THEN s.shown.with ELSE Me

(* What has not been opened, is open or is being answered is not settled.  *)
SettledInv ==
  /\ \A n \in 1..MaxOpenings : n > openings => settled[n] = 0
  /\ sheet # None => settled[openings] = 0
  /\ \A s \in sent : settled[s.n] = 0

IInv ==
  DebtType /\ SheetType /\ SentType /\ SentInv /\ SettledInv /\ SuggestionIsOfThisPair /\ OneSettlementPerSheet
=============================================================================
