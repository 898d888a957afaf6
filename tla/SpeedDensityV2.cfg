CONSTANTS
  NaN = NaN
  Calibrations <- SecondBuild
  MapValues <- MCMap
  IatValues <- MCIat
  RpmValues <- MCRpm
  Modes <- MCModes
  Seeds <- MCSeeds
SPECIFICATION Spec
INVARIANTS InvalidIsHighLoad
