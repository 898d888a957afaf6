CONSTANTS
  NaN = NaN
  CounterMod <- MCCounterMod
  Calibrations <- MCCalibrations
  MapValues <- MCMap
  BaroValues <- MCBaro
  ReadyValues <- MCReady
  LambdaValues <- MCLambda
SPECIFICATION FairSpec
INVARIANTS CountBelowLimit
PROPERTIES TripWhenConfirmed NoReleaseInBoost PersistentLeanIsCut VacuumReleases
