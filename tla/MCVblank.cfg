\* The halves of vblank_count have three values.
CONSTANTS
  H = 3
  B = 2
  Costs = {1, 3}
  IsrCost = 1
  FramePace = 13
SPECIFICATION FairSpec
INVARIANTS TypeOK FramesCounted MeasuredAlone WaitedForFrame WaitIsPrompt FrameTicksExact
PROPERTIES WaitReturns
