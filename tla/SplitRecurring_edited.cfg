SPECIFICATION MCSpec
CONSTANTS
  ana = ana
  ben = ben
  w1 = w1
  w2 = w2
  cron = cron
  None = None
  Members = {ana}
  Creator = ana
  Workers = {w1}
  Cron = w1
  Length <- MCLength
  YearLength = 12
  Starts <- MCStartsEdited
  Ends <- MCEndsEdited
  MonthDays = {1, 2}
  Frequencies = {"MONTHLY"}
  Methods = {"EQUAL"}
  MaxCrashes = 0
  Parts = {"alone"}
INVARIANTS
  OncePerMonth
