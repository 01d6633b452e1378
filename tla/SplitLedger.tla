----------------------------- MODULE SplitLedger -----------------------------
(***************************************************************************)
(* The shared ledger of the splitting app: groups with their members,      *)
(* expenses with one share per participant, settlements (payments between  *)
(* two identities) and the derived rows of SplitSettlementAllocation that  *)
(* say which share a settlement has paid.                                  *)
(*                                                                         *)
(* Every action is one request handler together with the transaction it    *)
(* opens, committed as a whole: the ledger on SQLite, or on PostgreSQL     *)
(* when no two writers overlap.  SplitAllocRace models overlapping         *)
(* writers.  Amounts are cents.  Expenses and settlements carry no         *)
(* linked_asset here (the mirror in the portfolio is another component).   *)
(***************************************************************************)
EXTENDS Integers, FiniteSets, Totals

CONSTANTS
  Users,          \* registered users
  Contacts,       \* local contacts of the address books
  Book,           \* Book[u]: linked partners of u and contacts owned by u
  MaxGroup,       \* groups ever created
  MaxExpense,     \* expenses ever created
  MaxSettlement,  \* settlements ever created
  Dates,          \* dates of expenses and settlements, in order
  Splits,         \* amount, payer and shares a request can ask for
  Payments,       \* debtor, creditor, amount and date of a settlement request
  NoUser,         \* created_by of a group that does not exist
  NoRow           \* an expense or a settlement that does not exist

Identities == Users \cup Contacts

(* group = None of a standalone expense or of a cross-group settlement. *)
NoGroup == 0

GroupIds == 1 .. MaxGroup
ExpenseIds == 1 .. MaxExpense
SettlementIds == 1 .. MaxSettlement

Methods == {"EQUAL", "EXACT", "PERCENTAGE", "SHARES"}

(* The amount of an expense and its shares: `among` are the participants,  *)
(* of whom `payer` has is_payer = True; an identity outside `among` has no *)
(* share.  SplitShares says how the shares come from the amount.           *)
Split == [amount : Nat, method : Methods, payer : Identities,
          among : SUBSET Identities, share : [Identities -> Nat]]

Payment == [debtor : Identities, creditor : Identities, amount : Nat \ {0},
            date : Dates]

(* `adhoc` are the SplitParticipant rows whose standalone_expense is this  *)
(* expense; they outlive a move of the expense into a group.  `home` is the*)
(* group whose SplitParticipant rows the shares refer to, NoGroup for adhoc*)
(* ones; it outlives a move of the expense out of that group.              *)
Expense == [group : {NoGroup} \cup GroupIds, date : Dates, by : Users,
            split : Split, adhoc : SUBSET Identities,
            home : {NoGroup} \cup GroupIds]

Settlement == [group : {NoGroup} \cup GroupIds, pay : Payment]

ASSUME LedgerAssumption ==
  /\ MaxGroup \in Nat /\ MaxExpense \in Nat /\ MaxSettlement \in Nat
  /\ Dates \subseteq Nat
  /\ Book \in [Users -> SUBSET Identities]
  /\ Splits \subseteq Split
  /\ \A sp \in Splits : sp.payer \in sp.among
  /\ Payments \subseteq Payment
  /\ NoUser \notin Users
  /\ NoRow \notin Expense /\ NoRow \notin Settlement

VARIABLES
  creator,     \* creator[g]: created_by of group g, NoUser if g does not exist
  members,     \* members[g]: the active participants of group g
  expense,     \* expense[e]: a row of SplitExpense with its shares, or NoRow
  settlement,  \* settlement[s]: a row of SplitSettlement, or NoRow
  alloc,       \* alloc[s][e]: the amount of settlement s on its debtor's share of e
  last         \* the last id handed out in each table

groupVars == <<creator, members>>
vars == <<creator, members, expense, settlement, alloc, last>>

-----------------------------------------------------------------------------
(* permissions.py and the querysets of the views.                          *)

CanAccessGroup(u, g) == creator[g] = u \/ u \in members[g]

CanAccessExpense(u, e) ==
  /\ expense[e] # NoRow
  /\ LET row == expense[e] IN
     IF row.group # NoGroup
     THEN /\ row.by = u \/ u \in members[row.group] \/ u \in row.adhoc
          /\ CanAccessGroup(u, row.group)
     ELSE row.by = u \/ u \in row.adhoc

CanAccessSettlement(u, s) ==
  /\ settlement[s] # NoRow
  /\ LET row == settlement[s] IN
     \/ u \in {row.pay.debtor, row.pay.creditor}
     \/ row.group # NoGroup /\ CanAccessGroup(u, row.group)

(* The group named in a request: none, or one the caller can access. *)
GroupAllowed(u, g) ==
  g = NoGroup \/ (g \in GroupIds /\ creator[g] # NoUser /\ CanAccessGroup(u, g))

(* _resolve_participant: active members of the group, or, for a standalone *)
(* expense, the caller and the people of the caller's address book.        *)
Resolvable(u, g, sp) ==
  IF g # NoGroup THEN sp.among \subseteq members[g]
                 ELSE sp.among \subseteq {u} \cup Book[u]

-----------------------------------------------------------------------------
(* allocations.py, as functions of the tables ex and st and of the rows al *)

(* _shares_owed_between: the debtor of s has a non-payer share of e, paid  *)
(* by the creditor of s.                                                   *)
Owes(ex, st, s, e) ==
  /\ st[s] # NoRow /\ ex[e] # NoRow
  /\ ex[e].split.payer = st[s].pay.creditor
  /\ st[s].pay.debtor \in ex[e].split.among \ {ex[e].split.payer}

(* The shares a settlement may consume: those of its group, or all.        *)
InScope(ex, st, s, e) ==
  Owes(ex, st, s, e) /\ st[s].group \in {NoGroup, ex[e].group}

(* What _open_share_amount subtracts: the rows on the share of p in e.     *)
Allocated(st, al, e, p) ==
  Total([s \in SettlementIds |->
           IF st[s] # NoRow /\ st[s].pay.debtor = p THEN al[s][e] ELSE 0],
        MaxSettlement)

Open(ex, st, al, e, p) == ex[e].split.share[p] - Allocated(st, al, e, p)

Remaining(st, al, s) == st[s].pay.amount - Total(al[s], MaxExpense)

(* The pairs of settlement and share one more row of which is possible.    *)
Matches(ex, st, al, S) ==
  {m \in S \X ExpenseIds :
     /\ InScope(ex, st, m[1], m[2])
     /\ Remaining(st, al, m[1]) > 0
     /\ Open(ex, st, al, m[2], st[m[1]].pay.debtor) > 0}

(* Mutant: the cross-group pass first (group = None sorts first). *)
FirstSettlementCrossFirst(st, S) ==
  LET pass == [s \in S |-> st[s].group]
      date == [s \in S |-> st[s].pay.date]
      id   == [s \in S |-> s]
  IN  CHOOSE s \in S : s \in Earliest(Earliest(Earliest(S, pass), date), id)

(* Mutant: one pass over all payments of the pair, by date. *)
FirstSettlementByDate(st, S) ==
  LET date == [s \in S |-> st[s].pay.date]
      id   == [s \in S |-> s]
  IN  CHOOSE s \in S : s \in Earliest(Earliest(S, date), id)

(* Group settlements by group id, then cross-group ones; within each by    *)
(* date, created_at and id (created_at and id grow together).              *)
FirstSettlement(st, S) ==
  LET pass == [s \in S |-> IF st[s].group = NoGroup THEN MaxGroup + 1
                                                    ELSE st[s].group]
      date == [s \in S |-> st[s].pay.date]
      id   == [s \in S |-> s]
  IN  CHOOSE s \in S : s \in Earliest(Earliest(Earliest(S, pass), date), id)

(* Mutant: shares ordered by expense id alone. *)
FirstShareById(ex, E) ==
  LET id == [e \in E |-> e] IN CHOOSE e \in E : e \in Earliest(E, id)

FirstShare(ex, E) ==
  LET date == [e \in E |-> ex[e].date]
      id   == [e \in E |-> e]
  IN  CHOOSE e \in E : e \in Earliest(Earliest(E, date), id)

(* Mutants: a row takes the whole of one side instead of the lesser.     *)
ConsumeOneOfShare(ex, st, al, S) ==
  LET M == Matches(ex, st, al, S)
      s == FirstSettlement(st, {m[1] : m \in M})
      e == FirstShare(ex, {m[2] : m \in {k \in M : k[1] = s}})
  IN  IF M = {} THEN al
      ELSE [al EXCEPT ![s][e] = Open(ex, st, al, e, st[s].pay.debtor)]

ConsumeOneOfSettlement(ex, st, al, S) ==
  LET M == Matches(ex, st, al, S)
      s == FirstSettlement(st, {m[1] : m \in M})
      e == FirstShare(ex, {m[2] : m \in {k \in M : k[1] = s}})
  IN  IF M = {} THEN al ELSE [al EXCEPT ![s][e] = Remaining(st, al, s)]

(* One row written by _consume_fifo.  Its nested loops visit settlements   *)
(* and, for each, shares in order, and write a row exactly for the first   *)
(* pair of which both sides are still open: each row exhausts one side, so *)
(* a pair passed over never opens again.                                   *)
ConsumeOne(ex, st, al, S) ==
  LET M == Matches(ex, st, al, S)
      s == FirstSettlement(st, {m[1] : m \in M})
      e == FirstShare(ex, {m[2] : m \in {k \in M : k[1] = s}})
      take == Lesser(Remaining(st, al, s), Open(ex, st, al, e, st[s].pay.debtor))
  IN  IF M = {} THEN al ELSE [al EXCEPT ![s][e] = take]

(* _consume_fifo to its end: one row at most per pair of ids. *)
Consume(ex, st, al, S) ==
  LET rows[i \in 0 .. MaxSettlement * MaxExpense] ==
        IF i = 0 THEN al ELSE ConsumeOne(ex, st, rows[i - 1], S)
  IN  rows[MaxSettlement * MaxExpense]

PairsOf(ex, e) ==
  IF ex[e] = NoRow THEN {}
  ELSE {<<d, ex[e].split.payer>> : d \in ex[e].split.among \ {ex[e].split.payer}}

OfPairs(st, P) ==
  {s \in SettlementIds :
     st[s] # NoRow /\ <<st[s].pay.debtor, st[s].pay.creditor>> \in P}

(* Rows of deleted settlements S and of deleted shares of E cascade. *)
Cascade(al, S, E) ==
  [s \in SettlementIds |-> [e \in ExpenseIds |->
     IF s \in S \/ e \in E THEN 0 ELSE al[s][e]]]

(* rebuild_allocations_for_directed_pair for every pair of P: their        *)
(* settlements and shares are disjoint, so the order of P does not matter. *)
Rebuild(ex, st, al, P) ==
  LET S == OfPairs(st, P) IN Consume(ex, st, Cascade(al, S, {}), S)

-----------------------------------------------------------------------------
Init ==
  /\ creator = [g \in GroupIds |-> NoUser]
  /\ members = [g \in GroupIds |-> {}]
  /\ expense = [e \in ExpenseIds |-> NoRow]
  /\ settlement = [s \in SettlementIds |-> NoRow]
  /\ alloc = [s \in SettlementIds |-> [e \in ExpenseIds |-> 0]]
  /\ last = [group |-> 0, expense |-> 0, settlement |-> 0]

CreateGroup(u, g) ==
  /\ g = last.group + 1
  /\ last' = [last EXCEPT !.group = @ + 1]
  /\ creator' = [creator EXCEPT ![g] = u]
  /\ members' = [members EXCEPT ![g] = {u}]
  /\ UNCHANGED <<expense, settlement, alloc>>

AddMember(u, g, p) ==
  /\ creator[g] # NoUser /\ CanAccessGroup(u, g)
  /\ p \in {u} \cup Book[u]
  /\ members' = [members EXCEPT ![g] = @ \cup {p}]
  /\ UNCHANGED <<creator, expense, settlement, alloc, last>>

RemoveMember(u, g, p) ==
  /\ creator[g] = u
  /\ p \in members[g]
  /\ members' = [members EXCEPT ![g] = @ \ {p}]
  /\ UNCHANGED <<creator, expense, settlement, alloc, last>>

(* SplitGroupViewSet.perform_destroy: the cascade takes the expenses of the*)
(* group, its settlements and its participants, and with the participants  *)
(* the shares of an expense that has been moved out of the group since.    *)
DeleteGroup(u, g) ==
  LET E == {e \in ExpenseIds : expense[e] # NoRow /\ expense[e].group = g}
      moved == {e \in ExpenseIds \ E : expense[e] # NoRow /\ expense[e].home = g}
      S == {s \in SettlementIds :
              settlement[s] # NoRow /\ settlement[s].group = g}
      P == UNION {PairsOf(expense, e) : e \in E}
  IN  /\ creator[g] # NoUser /\ CanAccessGroup(u, g)
      /\ creator' = [creator EXCEPT ![g] = NoUser]
      /\ members' = [members EXCEPT ![g] = {}]
      /\ expense' = [e \in ExpenseIds |->
                       IF e \in E THEN NoRow
                       ELSE IF e \in moved
                            THEN [expense[e] EXCEPT !.split.among = {}]
                            ELSE expense[e]]
      /\ settlement' = [s \in SettlementIds |->
                          IF s \in S THEN NoRow ELSE settlement[s]]
      /\ alloc' = Rebuild(expense', settlement',
                          Cascade(alloc, S, E \cup moved), P)
      /\ UNCHANGED last

(* Mutant: the old shares are deleted but only the new pairs rebuilt. *)
ApplySplitSharesNewPairs(e, row, sp) ==
  /\ expense' = [expense EXCEPT ![e] =
                   [row EXCEPT !.split = sp, !.home = row.group,
                               !.adhoc = IF row.group = NoGroup THEN sp.among ELSE @]]
  /\ alloc' = Rebuild(expense', settlement, Cascade(alloc, {}, {e}),
                      PairsOf(expense', e))

(* Mutant: the shares are updated in place, their rows never cascade. *)
ApplySplitSharesInPlace(e, row, sp) ==
  /\ expense' = [expense EXCEPT ![e] =
                   [row EXCEPT !.split = sp, !.home = row.group,
                               !.adhoc = IF row.group = NoGroup THEN sp.among ELSE @]]
  /\ alloc' = Rebuild(expense', settlement, alloc, PairsOf(expense', e))

(* apply_split_shares on the row `row` of expense e, already saved: the old*)
(* shares and their rows go, the pairs of the old and of the new shares    *)
(* are rebuilt, and a standalone expense keeps only its new participants.  *)
ApplySplitShares(e, row, sp) ==
  LET P == PairsOf(expense, e)
      new == [row EXCEPT !.split = sp, !.home = row.group,
                         !.adhoc = IF row.group = NoGroup THEN sp.among ELSE @]
  IN  /\ expense' = [expense EXCEPT ![e] = new]
      /\ alloc' = Rebuild(expense', settlement, Cascade(alloc, {}, {e}),
                          P \cup PairsOf(expense', e))

(* SplitExpenseSerializer.create *)
CreateExpense(u, g, d, sp) ==
  LET e == last.expense + 1 IN
  /\ e <= MaxExpense
  /\ GroupAllowed(u, g) /\ Resolvable(u, g, sp)
  /\ last' = [last EXCEPT !.expense = e]
  /\ ApplySplitShares(e, [group |-> g, date |-> d, by |-> u, split |-> sp,
                          adhoc |-> {}, home |-> g], sp)
  /\ UNCHANGED <<groupVars, settlement>>

(* SplitExpenseSerializer.update with `participants` in the request *)
EditExpense(u, e, g, d, sp) ==
  /\ CanAccessExpense(u, e)
  /\ GroupAllowed(u, g) /\ Resolvable(u, g, sp)
  /\ ApplySplitShares(e, [expense[e] EXCEPT !.group = g, !.date = d], sp)
  /\ UNCHANGED <<groupVars, settlement, last>>

(* SplitExpenseSerializer.update without `participants`: the row changes,  *)
(* the shares and the allocations stay.                                    *)
PatchExpense(u, e, g, d) ==
  /\ CanAccessExpense(u, e)
  /\ GroupAllowed(u, g)
  /\ expense' = [expense EXCEPT ![e].group = g, ![e].date = d]
  /\ UNCHANGED <<groupVars, settlement, alloc, last>>

(* Mutant: the delete relies on the cascade and rebuilds nothing. *)
DeleteExpenseByCascade(u, e) ==
  /\ CanAccessExpense(u, e)
  /\ expense' = [expense EXCEPT ![e] = NoRow]
  /\ alloc' = Cascade(alloc, {}, {e})
  /\ UNCHANGED <<groupVars, settlement, last>>

(* Mutant: the freed money is spent without starting from nothing. *)
DeleteExpenseOnTop(u, e) ==
  /\ CanAccessExpense(u, e)
  /\ expense' = [expense EXCEPT ![e] = NoRow]
  /\ alloc' = Consume(expense', settlement, Cascade(alloc, {}, {e}),
                      OfPairs(settlement, PairsOf(expense, e)))
  /\ UNCHANGED <<groupVars, settlement, last>>

(* delete_split_expense *)
DeleteExpense(u, e) ==
  /\ CanAccessExpense(u, e)
  /\ expense' = [expense EXCEPT ![e] = NoRow]
  /\ alloc' = Rebuild(expense', settlement, Cascade(alloc, {}, {e}),
                      PairsOf(expense, e))
  /\ UNCHANGED <<groupVars, settlement, last>>

(* SplitSettlementSerializer.validate and create, allocate_new_settlement *)
CreateSettlement(u, g, pay) ==
  LET s == last.settlement + 1 IN
  /\ s <= MaxSettlement
  /\ GroupAllowed(u, g)
  /\ pay.debtor # pay.creditor
  /\ u \in {pay.debtor, pay.creditor}
  /\ {pay.debtor, pay.creditor} \subseteq {u} \cup Book[u]
  /\ last' = [last EXCEPT !.settlement = s]
  /\ settlement' = [settlement EXCEPT ![s] = [group |-> g, pay |-> pay]]
  /\ alloc' = Consume(expense, settlement', alloc, {s})
  /\ UNCHANGED <<groupVars, expense>>

(* SplitSettlementViewSet.destroy: the rows cascade, nothing is rebuilt. *)
DeleteSettlement(u, s) ==
  /\ CanAccessSettlement(u, s)
  /\ settlement' = [settlement EXCEPT ![s] = NoRow]
  /\ alloc' = Cascade(alloc, {s}, {})
  /\ UNCHANGED <<groupVars, expense, last>>

(* backfill_split_allocations --apply, one pair: each is a transaction of  *)
(* its own, and the command may stop between two of them.                  *)
Backfill(s) ==
  /\ settlement[s] # NoRow
  /\ alloc' = Rebuild(expense, settlement, alloc,
                {<<settlement[s].pay.debtor, settlement[s].pay.creditor>>})
  /\ UNCHANGED <<groupVars, expense, settlement, last>>

ChangeMembers(u) ==
  \E g \in GroupIds, p \in Identities : AddMember(u, g, p) \/ RemoveMember(u, g, p)

WriteExpense(u) ==
  \E g \in {NoGroup} \cup GroupIds, d \in Dates, sp \in Splits :
    \/ CreateExpense(u, g, d, sp)
    \/ \E e \in ExpenseIds : EditExpense(u, e, g, d, sp)

Next ==
  \/ \E u \in Users :
       \/ ChangeMembers(u)
       \/ \E g \in GroupIds : CreateGroup(u, g) \/ DeleteGroup(u, g)
       \/ WriteExpense(u)
       \/ \E e \in ExpenseIds, g \in {NoGroup} \cup GroupIds, d \in Dates :
            PatchExpense(u, e, g, d)
       \/ \E e \in ExpenseIds : DeleteExpense(u, e)
       \/ \E g \in {NoGroup} \cup GroupIds, pay \in Payments :
            CreateSettlement(u, g, pay)
       \/ \E s \in SettlementIds : DeleteSettlement(u, s)
  \/ \E s \in SettlementIds : Backfill(s)

Spec == Init /\ [][Next]_vars

-----------------------------------------------------------------------------
(* Type invariant. *)
TypeOK ==
  /\ creator \in [GroupIds -> Users \cup {NoUser}]
  /\ members \in [GroupIds -> SUBSET Identities]
  /\ expense \in [ExpenseIds -> Expense \cup {NoRow}]
  /\ settlement \in [SettlementIds -> Settlement \cup {NoRow}]
  /\ alloc \in [SettlementIds -> [ExpenseIds -> Nat]]
  /\ last \in [group : 0 .. MaxGroup, expense : 0 .. MaxExpense,
               settlement : 0 .. MaxSettlement]

(* The allocations of a share never exceed its share_amount: invariant (b) *)
(* of the docstring of SplitSettlementAllocation.                          *)
SharesNeverOverSettled ==
  \A e \in ExpenseIds, p \in Identities :
    expense[e] # NoRow => Open(expense, settlement, alloc, e, p) >= 0

(* The allocations of a settlement never exceed its amount: one payment is *)
(* never counted twice.                                                    *)
SettlementsNeverOverSpent ==
  \A s \in SettlementIds :
    settlement[s] # NoRow => Remaining(settlement, alloc, s) >= 0

(* A settlement is allocated only to a share that its debtor really owes   *)
(* to its creditor, never to the share of the payer: invariant (a) of the  *)
(* same docstring; and no row outlives its settlement or its share.        *)
AllocationsFollowDebts ==
  \A s \in SettlementIds, e \in ExpenseIds :
    alloc[s][e] > 0 => Owes(expense, settlement, s, e)

(* Pairs whose shares a step has rewritten: created, edited or deleted.    *)
SplitOf(ex, e) == IF ex[e] = NoRow THEN NoRow ELSE ex[e].split

(* The expenses that lose their shares because another group is deleted.   *)
Stripped == {e \in ExpenseIds : expense[e] # NoRow /\ expense'[e] # NoRow
                                /\ expense[e].split.among # {}
                                /\ expense'[e].split.among = {}}

RewrittenPairs ==
  UNION {PairsOf(expense, e) \cup PairsOf(expense', e) :
           e \in {k \in ExpenseIds \ Stripped :
                     SplitOf(expense, k) # SplitOf(expense', k)}}

(* The pairs between which there are settlements.                          *)
PaidPairs(st) ==
  {<<st[s].pay.debtor, st[s].pay.creditor>> : s \in {t \in SettlementIds : st[t] # NoRow}}

(* No settlement of P has money left while a share in its scope is open.   *)
Exhausted(ex, st, al, P) == Matches(ex, st, al, OfPairs(st, P)) = {}

(* Whatever rewrites shares leaves no money of the pair idle; and no other *)
(* step makes money idle except the three that rebuild nothing: deleting a *)
(* settlement (its shares open again), moving an expense to another group  *)
(* by a PATCH (a group's payments come into scope) and stripping a moved   *)
(* expense of its shares (its payments are free again).                    *)
NoneIdle ==
  LET loosened == \/ Stripped # {}
                  \/ \E s \in SettlementIds :
                       settlement[s] # NoRow /\ settlement'[s] = NoRow
                  \/ \E e \in ExpenseIds :
                       /\ expense[e] # NoRow /\ expense'[e] # NoRow
                       /\ expense[e].group # expense'[e].group
  IN  \A pr \in PaidPairs(settlement') :
        \/ pr \in RewrittenPairs
        \/ ~loosened /\ Exhausted(expense, settlement, alloc, {pr})
        => Exhausted(expense', settlement', alloc', {pr})
NoMoneyLeftIdle == [][NoneIdle]_vars

(* The order of _consume_fifo: shares by date and id; settlements by pass  *)
(* (groups by id, then cross-group), date and id.                          *)
Older(ex, e, f) == ex[e].date < ex[f].date \/ (ex[e].date = ex[f].date /\ e < f)

PassOf(st, s) == IF st[s].group = NoGroup THEN MaxGroup + 1 ELSE st[s].group

Before(st, s, t) ==
  \/ PassOf(st, s) < PassOf(st, t)
  \/ /\ PassOf(st, s) = PassOf(st, t)
     /\ \/ st[s].pay.date < st[t].pay.date
        \/ st[s].pay.date = st[t].pay.date /\ s < t

(* A payment reaches a share only when the older ones in scope are paid. *)
SharesInOrder(ex, st, al, S) ==
  \A s \in S, f \in ExpenseIds :
    al[s][f] > 0 =>
      \A e \in ExpenseIds :
        InScope(ex, st, s, e) /\ Older(ex, e, f)
          => Open(ex, st, al, e, st[s].pay.debtor) = 0

(* A payment reaches a share only when the earlier payments that could     *)
(* have reached it are spent, and spent on no younger share.               *)
SettlementsInOrder(ex, st, al, S) ==
  \A s \in S, t \in S, e \in ExpenseIds :
    /\ Before(st, s, t) /\ st[s].pay.debtor = st[t].pay.debtor
    /\ InScope(ex, st, s, e) /\ al[t][e] > 0
    => /\ Remaining(st, al, s) = 0
       /\ \A f \in ExpenseIds : al[s][f] = 0 \/ ~Older(ex, e, f)

(* After a create or an edit that rewrites the shares of a pair, whatever  *)
(* the order in which its payments were recorded and whatever group        *)
(* payment has since displaced a cross-group one: a payment reaches a share*)
(* only when the older shares in its scope are settled, and only when every*)
(* payment before it (the group's before the cross-group ones, then by     *)
(* date) that could have reached the share is spent, and on no younger     *)
(* share (the FIFO by date of the docstring of allocations.py).            *)
OldestDebtFirst ==
  [][LET S == OfPairs(settlement', RewrittenPairs) IN
     /\ SharesInOrder(expense', settlement', alloc', S)
     /\ SettlementsInOrder(expense', settlement', alloc', S)]_vars

(* Running the backfill after an edit changes nothing: the rebuild depends *)
(* on the tables alone, not on the rows it finds (the help text of         *)
(* backfill_split_allocations).                                            *)
BackfillChangesNothing ==
  [][\A pr \in RewrittenPairs :
       Rebuild(expense', settlement', alloc', {pr}) = alloc']_vars

(* The order of the two passes (group payments first) never costs money: a *)
(* rebuild allocates at least what the pair had allocated, as long as every*)
(* row of the pair is still in scope.                                      *)
Covered(st, al, P) ==
  Total([s \in SettlementIds |->
           IF s \in OfPairs(st, P) THEN Total(al[s], MaxExpense) ELSE 0],
        MaxSettlement)

RebuildLosesNothing ==
  \A pr \in PaidPairs(settlement) :
    (\A s \in OfPairs(settlement, {pr}), e \in ExpenseIds :
       alloc[s][e] > 0 => InScope(expense, settlement, s, e))
    => Covered(settlement, alloc, {pr})
         <= Covered(settlement, Rebuild(expense, settlement, alloc, {pr}), {pr})

(* Group payments and cross-group payments, spent in two passes, leave     *)
(* nothing idle beside a debt they may settle, and a further rebuild would *)
(* not leave more open (rebuild_allocations_for_directed_pair).            *)
ScopesLeaveNothingIdle == [][NoneIdle /\ RebuildLosesNothing]_vars

(* "Deve esserci esattamente un pagatore" (the serializer; "un solo        *)
(* pagatore per spesa" in SplitExpenseShare): an expense of the ledger has *)
(* its payer's share for as long as it exists.                             *)
EveryExpenseHasItsPayer ==
  \A e \in ExpenseIds :
    expense[e] # NoRow => expense[e].split.payer \in expense[e].split.among

=============================================================================
