SPECIFICATION LiveSpec
VIEW SilentView
CONSTANTS
  LineCap = 1
  RadioCap = 1
  MaxReports = 1
  MaxRestarts = 1
  MaxSets = 1
  Asks <- MCEach
  Clients <- MCTwoClients
PROPERTIES
  FirstServed
  HeardIsStored
