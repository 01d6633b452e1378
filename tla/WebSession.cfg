SPECIFICATION Spec
CONSTANTS
  ana = ana
  ben = ben
  Accounts = {ana, ben}
  Demo = ben
  Agreed = {ben}
  WithMfa = {ana}
  Tabs = {t1}
  MaxTokens = 3
  MaxOpen = 2
  None = None
INVARIANTS
  TypeOK
  RenewalsPresentFreshToken
  ShownAccountIsTheTokens
  CacheKeepsOwnAnswers
PROPERTIES
  OpensOnlyOnProof
CHECK_DEADLOCK FALSE
