SPECIFICATION LiveSpec
CONSTANTS
  Turns <- MCTurns
  PassTimes <- MCPassTimes
  Degrees <- MCMild
  MaxPass = 2
  IdleLimit = 2
  IdleMod = 12
  Top = 4
  LowTop = 3
  Gap = 1
  Step = 2
  Upper0 = 2
  Lower0 = 0
  Span = 0
  MaxSaved = 10
  Frames <- MCNoFrames
  FirstSaved <- MCMild
INVARIANTS
  TypeOK
  DarkIsMenu
  Dims
PROPERTIES
  InputRegained
