SPECIFICATION MCSpec
CONSTANTS
  ana = ana
  ben = ben
  w1 = w1
  w2 = w2
  cron = cron
  None = None
  Members = {ana}
  Creator = ana
  Workers = {w1}
  Cron = w1
  Length <- MCLength
  YearLength = 2
  Starts <- MCStarts
  Ends <- MCEnds
  MonthDays = {1, 2}
  Frequencies = {"MONTHLY", "YEARLY"}
  Methods = {"EQUAL", "EXACT"}
  MaxCrashes = 0
  Parts = {"alone", "cron", "overlap"}
INVARIANTS
  TypeOK
  AnswersTellTheTruth
  BackfillLeavesNoHole
  NoOccurrenceWithoutShares
PROPERTIES
  DeletedIsLeftAlone
  CronGeneratesOwed
