CONSTANTS
  NaN = NaN
  Calibrations <- MCCalibrations
  RawValues <- MCRaw
SPECIFICATION Spec
INVARIANTS RichIsMeasured ReadyMeansMeasured
