SPECIFICATION HomeSpec
CONSTANTS
  LineCap = 2
  RadioCap = 1
  MaxReports = 2
  MaxRestarts = 0
  MaxSets = 1
  Asks <- MCMixed
  Clients <- MCOneClient
INVARIANTS
  ReplyIsForAsked
