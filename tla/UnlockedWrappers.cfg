CONSTANTS
  NaN = NaN
  Calibrations <- MCCalibrations
  MapValues <- MCMap
  IatValues <- MCIat
  RpmValues <- MCRpm
  Modes <- MCModes
  Seeds <- MCSeeds
  OpenLoopCalibrations <- MCOpenLoop
  Pressures <- MCPressures
  Barometers <- MCBarometers
  Cylinders = 2
  IdleCalibrations <- MCIdle
  Angles <- MCAngles
  Readings <- MCReadings
SPECIFICATION WrapperSpec
INVARIANTS AirflowSane LoadOfOneSpeed ArmedIsOpenLoop VacuumKeepsStock RetardBounded
