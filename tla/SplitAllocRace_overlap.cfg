SPECIFICATION Spec
CONSTANTS
  ben = ben
  cam = cam
  Creditor = ana
  Debtors = {ben, cam}
  Pays = {1, 2}
  Charges = {4, 5, 6, 7}
  MaxRequest = 7
  Debtor <- MCDebtor
  Amount <- MCAmount
  Due <- MCDueMixed
  Writers = 2
  Early = {2, 7}
  Mortal = {}
  NoUser = NoUser
  NoRow = NoRow
PROPERTIES
  EveryRequestEnds
  QuietRebuildRepairs
CHECK_DEADLOCK FALSE
