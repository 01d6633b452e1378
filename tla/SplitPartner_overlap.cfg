SPECIFICATION Spec
CONSTANTS
  ana = ana
  ben = ben
  Users = {ana, ben}
  Workers = {w1, w2}
  MaxLinks = 3
  None = None
SYMMETRY UserSymmetry
INVARIANTS
  TypeOK
  BothAgreed
  NoStandoff
  ReferencedContactStays
CHECK_DEADLOCK FALSE
