SPECIFICATION MCSpec
CONSTANTS
  ana = ana
  ben = ben
  cam = cam
  Users = {ana, ben}
  Contacts = {cam}
  NoUser = NoUser
  NoRow = NoRow
  Book <- MCBook
  MaxGroup = 1
  MaxExpense = 2
  MaxSettlement = 2
  Dates = {1, 2}
  Splits <- MCSplits
  Payments <- MCPayments
INVARIANTS
  SharesCoverAmount
  GroupBooksBalance
  SuggestionsSettle
  PairsAddUp
  OpenDebtsMatchBalances
  OverviewsAgree
PROPERTIES
  OldestDebtFirst
  ScopesLeaveNothingIdle
CHECK_DEADLOCK FALSE
