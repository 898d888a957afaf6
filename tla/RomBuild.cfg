CONSTANTS
  MaxEdits = 2
  MaxKills = 1
SPECIFICATION Spec
INVARIANTS
  ImageIsComposite
  ChainsComplete
  ScriptAccepted
  PublishedIsProduct
  ChecksumHolds
PROPERTIES
  SourcesSurvive
  OutputAfterReread
