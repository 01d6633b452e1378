SPECIFICATION Spec
CONSTANTS
  ben = ben
  cam = cam
  Creditor = ana
  Debtors = {ben}
  Pays = {1, 3}
  Charges = {4}
  MaxRequest = 4
  Debtor <- MCDebtor
  Amount <- MCAmount
  Due <- MCDue
  Writers = 2
  Early = {}
  Mortal = {}
  NoUser = NoUser
  NoRow = NoRow
INVARIANTS
  SharesNeverOverSettled
CHECK_DEADLOCK FALSE
