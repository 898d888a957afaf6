CONSTANTS
 Levels8 <- MCLevels8
 Levels16 <- MCLevels16
 Ratios <- MCRatios
 Bases = {0, 2}
 Runs <- MCRuns
 LabelSet = {l1, l2}
 Literals = {v1, v2}
 MaxItems = 3
 EditedNames <- MCEdited
 MaxEdits = 1
 Extras <- MCExtras
 MaxDefects = 2
 Serials = {"a", "b"}
 MaxDevices = 2
 Watches = {1, 2}
SPECIFICATION Spec
INVARIANTS FuelNeverLeaner MovesOneWay DecodesBack
 DefinitionComplete OnlyDefectsRefused SyncSettles RegenerationStable ReaderReleases
PROPERTY ProfileUsable
CHECK_DEADLOCK FALSE
