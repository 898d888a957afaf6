-------------------------- MODULE CalibrationRegions --------------------------
(***************************************************************************)
(* Where the calibration of the two master builds writes, in the order it  *)
(* writes, and the regions each declares.  A region is an address and a    *)
(* length in bytes.                                                        *)
(***************************************************************************)
EXTENDS Integers, Sequences, SequencesExt

Words(n) == 4 * n
Each(addresses, length) == [i \in 1..Len(addresses) |-> <<addresses[i], length>>]

MapMinimum == <<\h7DD10, 4>>
BuildMarker == <<\h7FC4C, 4>>
\* Two rows of the low-speed volumetric efficiency table, five columns each.
IdleVe == Each(<<\h7E6F0, \h7E6F4, \h7E6F8, \h7E6FC, \h7E700,
                 \h7E724, \h7E728, \h7E72C, \h7E730, \h7E734>>, 4)

OpenLoopTables == << <<\h7771C, Words(14)>>, <<\h77808, Words(14)>>,
                     <<\h77754, Words(10)>>, <<\h77840, Words(10)>>,
                     <<\h7777C, 14 * 10>>, <<\h77868, 14 * 10>> >>
ClosedLoopTables == << <<\h77958, Words(9)>>, <<\h779B0, 9 * 13 * 2>>, <<\h772DC, 4>> >>

\* Address and rows of the six ignition maps, fifteen columns of one byte.
TimingMaps == << <<\h78AA0, 14>>, <<\h78BAC, 14>>, <<\h78CD0, 20>>,
                 <<\h78E34, 14>>, <<\h78F40, 14>>, <<\h79064, 20>> >>
TimingTables == << <<\h780BC, Words(15)>> >>
                  \o [i \in 1..6 |-> <<TimingMaps[i][1], 15 * TimingMaps[i][2]>>]
\* Knock advance and cam advance: the load axis, then the data.
KcaTables == << <<\h791D8, Words(15)>>, <<\h7924C, 15 * 14>>,
                <<\h79320, Words(15)>>, <<\h793AC, 15 * 20>> >>
AvcsTables == << <<\h7C54C, Words(14)>>, <<\h7C5B0, 14 * 11 * 2>>,
                 <<\h7C6E4, Words(14)>>, <<\h7C764, 14 * 18 * 2>> >>
\* The air temperature compensation and sensor curve, the engine speed limit.
SensorTables == << <<\h7834C, 7>>, <<\h72960, Words(30)>>, <<\h729D8, Words(30)>>, <<\h7644C, 8>> >>
InjectorTables == << <<\h76014, 4>>, <<\h72D54, 4>>, <<\h7B318, 10>>,
                     <<\h76B76, 32>>, <<\h76B96, 32>>, <<\h76BB6, 32>>, <<\h76BD6, 32>>,
                     <<\h7739C, 10>>, <<\h773BC, 10>>, <<\h763E0, 4>> >>
BoostTables == << <<\h7D7E0, Words(8)>>, <<\h7D7C4, 8>>, <<\h7D800, 4>>, <<\h7D804, 4>>,
                  <<\h7D808, 4>>, <<\h7D8C0, 4>> >>
ChecksumWord == <<\h7FB88, 4>>

MapTables == OpenLoopTables \o ClosedLoopTables \o TimingTables \o KcaTables \o AvcsTables
               \o SensorTables \o InjectorTables

\* Only the second build: transients, throttle and torque, learning, lean cut, idle.
TransientTables == << <<\h76AC8, 8>>, <<\h7963C, 4>>, <<\h76050, 4>>, <<\h7A738, 15 * 20 * 2>>,
                      <<\h7AA2C, 19 * 20 * 2>>, <<\h76D08, 32>>, <<\h76D48, 32>>,
                      <<\h7616C, Words(3)>>, <<\h7EAD4, 4>>, <<\h7EAD8, 4>>, <<\h7EADC, 4>> >>
IdleTables == Each(<<\h79D64, \h79D84, \h79DA4, \h79DC4, \h79DE4, \h79E04, \h79C9C, \h79CBC>>, 32)
KnockRanges == << <<\h78040, Words(4)>>, <<\h77FEC, Words(4)>>, <<\h78050, Words(7)>>, <<\h77FD8, 4>> >>

Writes1 == <<MapMinimum>> \o IdleVe \o <<BuildMarker>> \o MapTables \o BoostTables \o <<ChecksumWord>>
Writes2 == <<MapMinimum, BuildMarker>> \o MapTables \o TransientTables \o IdleTables
             \o KnockRanges \o BoostTables \o <<ChecksumWord>>
\* What each build declares: the second leaves out the knock learning ranges.
Declared1 == ToSet(<<MapMinimum, BuildMarker, ChecksumWord>> \o IdleVe \o MapTables \o BoostTables)
Declared2 == ToSet(<<MapMinimum, BuildMarker, ChecksumWord>> \o MapTables \o TransientTables
                     \o IdleTables \o BoostTables)

\* Tables of the hardware that a calibration must leave alone: the injector
\* voltage axis, the air flow meter, the load limit.
HardwareTables == { <<\h7B304, Words(5)>>, <<\h7B4B8, Words(44)>>, <<\h7B568, Words(44)>>,
                    <<\h73C68, 4>>, <<\h17620, 4>> }

Disjoint(r, q) == r[1] + r[2] <= q[1] \/ q[1] + q[2] <= r[1]
\* A write is refused where one was made before it.
Accepted(writes, k) == \A j \in 1..(k - 1) : Disjoint(writes[j], writes[k])

\* The calibration refuses none of its own writes: none reaches into a region
\* written before it, into a hardware table or past the end of the image.
ASSUME WritesFit == \A writes \in {Writes1, Writes2} : \A k \in 1..Len(writes) :
  /\ Accepted(writes, k) /\ writes[k][1] + writes[k][2] <= \h80000
  /\ \A table \in HardwareTables : Disjoint(writes[k], table)

\* The first build declares what it writes; the second writes the knock
\* learning ranges besides.
ASSUME WritesDeclared == /\ ToSet(Writes1) = Declared1
                         /\ ToSet(Writes2) = Declared2 \cup ToSet(KnockRanges)

=============================================================================
