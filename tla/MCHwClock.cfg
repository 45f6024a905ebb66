\* Four values on the pins; each level as short as the programs can follow.
CONSTANTS
  W = 4
  MinLow = 2
  MinHigh = 3
  MinOe = 4
  DriveTime = 3
  ReleaseTime = 4
SPECIFICATION FairSpec
INVARIANTS TypeOK ReleasedInTime DrivenInTime InStep
PROPERTIES CounterSpec LastCountShown
