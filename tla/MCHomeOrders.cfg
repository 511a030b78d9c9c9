SPECIFICATION HomeSpec
CONSTRAINT OneFlowReport
VIEW SilentView
CONSTANTS
  LineCap = 1
  RadioCap = 2
  MaxReports = 2
  MaxRestarts = 1
  MaxSets = 2
  Asks <- MCMixed
  Clients <- MCOneClient
INVARIANTS
  HomeType
  RowsAreOwn
PROPERTIES
  QuietRequestIsFresh
  RowsAdvance
  SetsInOrder
  HomeKeepsPromise
