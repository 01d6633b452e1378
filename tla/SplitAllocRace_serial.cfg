SPECIFICATION Spec
CONSTANTS
  ben = ben
  cam = cam
  Creditor = ana
  Debtors = {ben, cam}
  Pays = {1, 2, 3}
  Charges = {4, 5}
  MaxRequest = 5
  Debtor <- MCDebtor
  Amount <- MCAmount
  Due <- MCDue
  Writers = 1
  Early = {}
  Mortal = {1, 2, 3, 4, 5}
  NoUser = NoUser
  NoRow = NoRow
PROPERTIES
  ImplementsLedger
CHECK_DEADLOCK FALSE
