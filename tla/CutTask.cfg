CONSTANTS
  CallerMasks <- MCCallerMasks
  Levels <- MCLevels
  MaxNest = 2
  Capacity = 2
SPECIFICATION FairSpec
INVARIANTS MaskBalance
PROPERTIES KeepsPromise ActivationServed
