---------------------------- MODULE MCOfflineTools ----------------------------
\* Small instances of the offline tools.
EXTENDS OfflineTools

\* The ends of each width and a level between that is not a multiple of an axis step.
MCLevels8 == {0, 100, 255}
MCLevels16 == {0, 4500, 65535}
MCRatios == {<<653, 1000>>, <<4, 5>>}
\* A run just short of the reach of a conditional branch, and of an unconditional one.
MCRuns == {1, 126, 2047}
\* One table of each kind: renamed, in no pinned set, synchronized, in the AVLS
\* block, and of a dropped category.
MCEdited == {"Base Timing A", "Fan Modes", "Oil Temp Scaling", "AVLS Engage", "P0102"}
\* A channel of one byte, which fills a request beyond its limit.
MCExtras == {<<"P", 3>>}
=============================================================================
