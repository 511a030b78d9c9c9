SPECIFICATION Spec
VIEW SetPointView
CONSTANTS
  Turns <- MCSlowTurns
  PassTimes <- MCEvenPass
  Degrees <- MCDegrees
  MaxPass = 1
  IdleLimit = 1
  IdleMod = 5
  Top = 1
  LowTop = 0
  Gap = 1
  Step = 1
  Upper0 = 1
  Lower0 = 0
  Span = 1
  MaxSaved = 10
  Frames <- MCFrames
  FirstSaved <- MCFirstSaved
INVARIANTS
  SleepSaves
  ScreenTrue
