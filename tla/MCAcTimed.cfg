SPECIFICATION TSpec
CONSTANTS
  MillisMod = 33
  UIntMod = 8
  Second = 1
  Period = 2
  CoolDelay = 3
  Welcome = 1
  DefaultOn = 9
  DefaultOff = 6
  Waits <- MCWaits
  PassTimes <- MCPassTimes
  MaxUp = 36
INVARIANTS
  ServedInTime
  StoppedInTime
  TypeOK
  CoolNeedsFan
PROPERTIES
  CompressorRests
  FullRest
