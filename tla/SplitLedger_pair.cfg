SPECIFICATION Spec
CONSTANTS
  ana = ana
  ben = ben
  cam = cam
  Users = {ana, ben}
  Contacts = {}
  NoUser = NoUser
  NoRow = NoRow
  Book <- MCBook
  MaxGroup = 0
  MaxExpense = 2
  MaxSettlement = 2
  Dates = {1, 2}
  Splits <- PairSplits
  Payments <- PairPayments
INVARIANTS
  TypeOK
  SharesNeverOverSettled
  SettlementsNeverOverSpent
  AllocationsFollowDebts
PROPERTIES
  NoMoneyLeftIdle
  BackfillChangesNothing
CHECK_DEADLOCK FALSE
