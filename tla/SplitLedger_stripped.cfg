SPECIFICATION Spec
CONSTANTS
  ana = ana
  ben = ben
  cam = cam
  Users = {ana}
  Contacts = {ben}
  NoUser = NoUser
  NoRow = NoRow
  Book <- MCBook
  MaxGroup = 1
  MaxExpense = 1
  MaxSettlement = 1
  Dates = {1}
  Splits <- ScopeSplits
  Payments <- ScopePayments
INVARIANTS
  EveryExpenseHasItsPayer
CHECK_DEADLOCK FALSE
