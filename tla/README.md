# TLA+ models of the SH7055 turbo patches

This directory models the run-time code this repository adds to the D2WD610H
engine controller, the builders and calibration that put it into an image, the
generators of its definition and logger files, the USB to K-line bridge used to talk
to the controller and the kernel session that writes the flash. The modules
are written from the source: the Python files under `src/patches` and
`src/master_patch*` that emit SH-2E machine code instruction by instruction, and
`src/pico_kline_adapter/main.c`, the tools beside them and the two patches of the
flashing host and kernel. `PROJECT.json` maps every definition to the lines
it stands for, and lists the runs, the mutants, the theorems, the hazards and the
places where code and documentation disagree.

## The system

| Part | Source | State it keeps | Operations |
| --- | --- | --- | --- |
| Lean fuel-cut guard | `patches/fueling_safety` | state byte, 16-bit counter | one wrapper call per rev-limiter slot; start-up initialisation |
| Overboost wrapper and cut critical section | `patches/core/patch_boost.py` | cut flag (BF6C bit 80), injector inhibit word (B744), saved masks | lock, run the prior routine, add a cut, unlock |
| Pressure-forced open loop | `patches/fueling_safety` | closed-loop permission bit | wrapper around the stock target routine |
| Wideband publisher | `patches/wideband_o2` | eight RAM words (lambda, logger lambda, current, readiness; two banks) | decode and publish, or publish the fault values; inhibit helper |
| Speed-density airflow | `patches/speed_density`, variant in `master_patch_v2` | four airflow words | helper called by the stock airflow task |
| Rotational idle | `patches/core/patch_rotational_idle.py` | timing array of the stock task | retard six angles in place |
| K-line bridge | `pico_kline_adapter/main.c` | two byte queues, break and line-coding state | main loop services, TinyUSB callbacks |
| Native kernel and stock tasks | ECU ROM (external) | interrupt mask, activations | lock, unlock, dispatch, activate |
| Image builders, calibration, purge delete | `master_patch*`, `patches/*/…apply_to_rom` | a 512 KiB image, files | guarded writes, checksum, output |
| Flash host and kernel | `pico_kline_adapter/fastecu/*.patch` | flash blocks, kernel buffer and its index, the host's place | identify, compare, erase, load, validate or commit, compare again |
| Calibration maps | `master_patch*/master_calibration.py` | none: tables in, tables out | resample, bound, cap, round |
| Assembler, disassembler | `patches/core/sh2_*.py` | none | two-pass assembly, decoding |
| Definition generators | `master_patch*/build_definition.py`, `defs/sync_avls_metadata.py`, `patches/speed_density/build_definition.py` | four generated files | synchronise, derive, build |
| Logger tools | `master_patch/install_master_logger.py`, `logger_profiles.py` | definition and profiles | install, select, check |
| Diagnostics reader | `pico_kline_adapter/read_diagnostics.py` | USB handles | select a device, read snapshots, release |
| Analysis and audit tools, Ghidra scripts, query fix | `tools`, ... | files | read and report |

How they interact. All ECU parts share RAM without messages. The wideband task
publishes words the lean guard loads one at a time; sensor tasks publish
pressures the two fueling guards and the airflow helper load one at a time; the
lean wrapper calls the overboost wrapper, which calls the native limiter, which
rewrites the flag and word both wrappers then add to; the injector task, of higher
priority, reads both. Mutual exclusion is by the kernel's task lock (interrupts
stay enabled, dispatch is deferred) or not at all. The calibration of every
part is flash data a tuner edits, so each routine checks it at run time. The
bridge is a single loop; USB events arrive inside `tud_task`, the UART runs by itself.
The flashing host and the kernel exchange frames over that line, one request and one
reply at a time. The definition and logger tools meet only in the files they leave
for each other, in any order.

What is hard here: interleavings (a preempting injector task, interrupts that
read arrays being modified, loads of several words published separately),
ordering (the coding fence of the bridge, the double use of one counter),
numeric edges (NaN and infinity in flash tables, a 16-bit counter at its limit,
thresholds out of order, two roundings of one table), stale pairs of values, queues
at their limits, lost or late replies across several sessions, generators run twice or on each other's
output, and liveness (a deferred task, a latch, a pending coding, a half-written flash). The emulator tests of the repository
execute chosen paths of single calls; the models explore all orders of them.
`PROJECT.json` lists each hazard at its line.

What makes each part correct is stated in the next section, property by property.

## Modules

`SH2E` is the arithmetic: a float is an integer or NaN, every ordered comparison
with NaN is false, and an infinity is an integer beyond every limit of the
calibration. Rounding is not modelled: no property depends on it.

**LeanCut** (with `LeanRules`, the gates as operators on a calibration record).
One action is one wrapper call; the disjuncts of `Wrapper` are the exits of
`build_lean_cut_wrapper`: `Disabled`, `Disarm`, `StartDelay`, `DelayTick`,
`DelayDone`, `MonitorRich`, `MonitorLean`, `Trip`, `Hold`, `Release`. Calls are
atomic because the task lock keeps every task out that could change what they
write. Other tasks publish pressures, readiness and lambda, and the limiter's
decision, between calls. Two history variables count the latest armed and the
latest armed-and-not-rich calls.
- `TripWhenConfirmed`: the latch is set if and only if the transport delay and the
  confirmation count have elapsed over armed calls, the last of them all lean.
- `CountBelowLimit`: the counter shared by both phases never reaches its limit in RAM, so
  it never wraps, even for the largest limit the word can hold.
- `NoReleaseInBoost`: no release at a pressure at which the guard would arm.
- `PersistentLeanIsCut`, `VacuumReleases` (liveness).

**CutTask** opens a call up: lock, limiter's two stores, the two stores of each
added cut, unlock, dispatch, for either hook (`"overboost"` or the nested
`"lean"`), interleaved with interrupts (nested up to `MaxNest`), activations of
the injector task and its run. The kernel's routines are external; their contract
is the byte pattern `apply_to_rom` pins and the behaviour
`tests/test_cut_interrupt_execution.py` executes. **FuelGuard** is the abstract specification: decisions are published
whole and the injector sees flag and word of the last one.
- `KeepsPromise`: CutTask implements FuelGuard (refinement mapping: `demand` is the
  history variable `committed`, `requests` the kernel's activation count).
- `MaskBalance`: nested locks give back the mask they were entered with.
- `ActivationServed`: a deferred activation is served.

**WidebandFeed** publishes store by store (`Begin` decodes and lays out the
stores, `StoreNext` makes one), and the lean guard's rich test loads readiness and
then lambda. In the ECU the two exclude each other, but the code promises not to
depend on it, so they interleave freely; the behaviours with exclusion are among those.
- `RichIsMeasured`: a sample that passes the rich test carries a measured lambda.
- `ReadyMeansMeasured`: between publications readiness, inhibit status and all four
  lambda words tell the same story.

**PressureOpenLoop** takes the wrapper load by load, with no lock.
- `ArmedIsOpenLoop`: a call during which the lean guard could arm ends in open loop,
  although the two guards are calibrated separately.
- `VacuumKeepsStock`: the guard is no wider than its margin.

**SpeedDensity** takes the airflow helper load by load and store by store inside
the stock task that captured engine speed. A sensor may change between any two
loads, so a load reads any value. Native table lookups are functions in the calibration record.
- `AirflowSane`: only seeds, zero, the fail-safe or a positive value not above the
  ceiling is ever published.
- `LoadOfOneSpeed`: the airflow the caller divides by its captured speed was
  computed (`Airflow`, the reference definition) with that speed and with one reading of each other input.
- `InvalidIsHighLoad`: what the definition files say of the fail-safe; true of the
  first build, whose fail-safe is its ceiling, false of the second.

**RotationalIdle** retards the timing array cylinder by cylinder.
- `RetardBounded`: at every moment each angle is the stock one or a bounded retard of it.

**UnlockedWrappers** puts the last three together, as they share nothing: a behaviour
follows one of them, the other two rest, and one run checks all.

**KlineBridge** runs the main loop as a cycle of service functions. Host events are
enabled only inside `tud_task` (`pc = "usb"`), the UART, the clock and the USB IN
endpoint at any time. A host byte carries the coding it is due in and whether a break
hit it in the UART, a line byte its error flag and whether a break produced it.
- `HostStream`: towards the line no byte is repeated or reordered, and none is lost but those
  the UART already held when a break was asserted: `set_break` overrides the pin without
  waiting for the UART (`main.c:136-140`), which goes on shifting (`UartSends`, `cut`). What still
  waits in the bridge goes out whole after the break.
- `LineStream`: the same towards the host, except the drops the code makes knowingly.
- `CodingFence`: what the bridge has taken in goes out in the coding last asked for when it was
  taken, never in an older one, and no coding is applied under it. Bytes TinyUSB still holds when a
  coding arrives are held back and go out in the *new* one although the host sent them
  before it (`main.c:152` looks at the bridge's queue and the UART only): `SetCoding` makes them due in it.
- `BreakNeedsHost`, `FiniteBreakEnds`, `CodingApplied`.
- `NoSyntheticByte`, `UartErrorCounted`: what a comment or a
  document says, each violated by the code (see Findings).

**RomPatches** and **RomBuild** are the image builders. An image maps regions of
the flash to what they hold; a region is a set of bytes the components always
guard and write together. `RomPatches` gives each component what it demands of an
image (`BoostNeeds`, ...) and what it leaves (`BoostWrites`, ...): the tables
stand for the `apply_to_rom` functions, the calibration writers and the AVLS
writer. `RomBuild` runs the two master builders, the combined and the four
component builders: alias check, provenance, script, assertions and the second
reading before the output (masters) or after it (the others); a user replaces
files, moves links and kills runs. Files are known by their content ("pinned",
"other", a truncated "partial", ...). In a bench session the component functions
are called in any order, as the tests do; it touches no file, so it is modelled
only before any run or edit.
- `ImageIsComposite`: an image is determined by the set of components in it: the
  guards alone exclude every order that would undo a write.
- `ChainsComplete`: no half-installed chain of hooks, whichever orders are tried.
- `ScriptAccepted`: no builder is refused by its own guards or assertions.
- `PublishedIsProduct`: what is written is the pinned product; the second build's
  depends besides on a seed table, and on that in one region only.
- `ChecksumHolds`: nothing is written after the checksum that it covers.
- `SourcesSurvive`: only a link made after the check lets a run harm a protected file.
- `OutputAfterReread`: a master builder touches the output only after the second reading.

The tables were compared with the program while they were written: all orders of
the real components on the real stock image give 224 distinct images for the first
build's set and 272 for the second's, and the tables give the same numbers.

**CalibrationRegions** and **CalibrationMaps** are the calibration writers of the two
builds. The first lists what each writes, in order, against the regions it declares;
two assumptions, which TLC evaluates, say that the calibration refuses none of its own
writes (`WritesFit`) and that each build writes what it declares, but for the second's knock ranges (`WritesDeclared`). The second has every resampled or bounded map as an
operator on the stock table, with the source's axes and its one rounding each.
- `FuelNeverLeaner`: a tuned fuel cell is nowhere leaner than the stock surface of its bank at
  that knot, a bounded one the same in both banks; a scaled pulse is never shorter than the exact ratio.
- `MovesOneWay`: the first build's ignition and both builds' knock and cam advance never exceed the
  stock surface; the second's ignition only in its bounded columns and idle cells.

**Sh2Asm** assembles a routine item by item in two passes (labels, literal pool,
alignment, displacement ranges) and reads it back as the disassembler does.
- `DecodesBack`: an accepted routine's branches and literals decode to what was written, and
  a routine is refused only for a missing label or a displacement out of reach.

**DefinitionRules** and **DefinitionBuild** are the generators of the tuning
definitions: the AVLS source is edited, the synchroniser copies its block, another
script derives the speed-density file, two master builders prune, rename, re-parent
and add tables. The source is cut down to a part that has every kind of table.
- `DefinitionComplete`: a master shows every surviving table of its source, renamed, at its address
  and once, beside the added tables and no other, in the source's order.
- `OnlyDefectsRefused`: a master is refused only for a defect of the edited source, or because a
  derived file, made from an earlier source, holds one of its own tables twice.
- `SyncSettles`: after synchronising, the boost definition has the source's block beside its own
  tables and doing it again changes nothing, whatever edits came between and whether or not it had the oil scaling.

**LoggerTools** installs a logger definition for this controller out of an upstream
one with defects and selects profiles from the result. A channel's query is the number of its
addresses and the bytes at each. The installer asks for one address of the channels it makes
visible and looks at no other, so an installed definition may read a channel at two
addresses, none, or in another width; the profile builder counts what it finds there. A switch listed twice
upstream survives, as the installer compares sets. A profile is judged by the definition it was
built from; one installed later may not fit it.
- `RegenerationStable`: the installer takes its own output and gives it back unchanged.
- `ProfileUsable`: a profile that is built fits the controller's receive buffer by the installed
  definition's addresses and has every channel in it once; one of the nine selections is refused
  only for a channel that the definition reads otherwise than the shipped one.

**DiagnosticsReader** makes every library call of the reader fail, and interrupts it anywhere. An interrupt
where no handler is in force leaves something behind; the model names its place (`strays`):

| Place | Where (`read_diagnostics.py`) | What stays |
| --- | --- | --- |
| `init` | `libusb_init` has returned (170), the `try` not begun (173) | the library |
| `list` | `libusb_get_device_list` has returned (197), the `try` not begun (200) | the list |
| `open` | `libusb_open` has returned (222), the `try` not begun (225) | a handle |
| `keep` | after `self.handle = handle`, before `handle` is renewed (233-235) | nothing: closed here and again by `close` |
| `drop` | in the `finally` (236), before the handle is closed | a handle |
| `free` | in the `finally` (241), before the list is freed | the list |
| `with` | constructed, the `with` not entered (308) | handle and library |
| `close` | in `close` (260-266) | the library, and perhaps the handle |

- `ReaderReleases`: whichever call failed and wherever the user interrupted, at the end every handle, the
  list and the library are released but what a stray interrupt left, no handle is closed twice
  but at `keep`, and snapshots come from the one device that was meant.

**OfflineTools** starts one of these five tools on its own inputs, so that one run checks all.

**FlashSession** is the flashing host with `host_flash_safety.patch` and the kernel with
`kernel_180nm.patch`: each request may be lost, each reply lost, damaged, or late
into the next read; erase and commit may fail half way; a failed session may be
tried again while the kernel runs, with stale answers, a half-filled buffer and
writing still enabled. What the patches do not show of host and kernel is taken from
the code they apply to and marked external.
- `ReportIsTrue`: success means the whole flash is the file's; a test write never touches it.
- `AckMeansDone`: what the host counts as done the kernel has done.
- `Recoverable`: after a failed real write, trying again ends in success.

## Runs, bounds and fairness

| Run | What it shows | Bounds |
| --- | --- | --- |
| `LeanCut` | safety and liveness of the guard | 13 calibrations, counter of 2 bits, pressures on every side of each limit |
| `CutTask` | atomicity, masks, activations, refinement | interrupt levels 1, 2, 9; nesting 2; capacity 2 as in the kernel |
| `WidebandFeed` | publisher against reader, freely interleaved | 7 calibrations, counts on every side of the window |
| `UnlockedWrappers` | airflow, open loop and idle against changing sensors | 11, 8 and 10 calibrations, readings below, at and above each limit, 2 cylinders |
| `SpeedDensityV2` | the second build's fail-safe against its definition | that calibration alone |
| `KlineHost`, `KlineLine` | the bridge in each direction, with liveness in the first | queues of 1 or 2 (the UART's of 2 towards the line, so that a break meets a frame under way and one behind it), breaks of one tick, 3 codings |
| `RomBuild` | all builders and all component orders | 2 files replaced or links moved, 1 killed run |
| `OfflineTools` | maps, assembler, definitions, logger, reader | raw values at the ends and the middle of their range, routines of 3 items with runs just short of each reach, 1 edit, 2 defects, 2 devices |
| `FlashSession` | host and kernel over a bad line | 2 blocks of 2 buffers of 2 messages, 3 faults, any number of sessions |
| `KlineSynthetic`, `KlineErrors` | two documented claims that do not hold | as above |

Why the bounds are enough. Every comparison in the emitted code is between a
reading and a limit, or a limit and another, so one value in each region and one on
each boundary distinguishes all branches; the calibrations give every limit each
kind of malformed value the code tests for. A 2-bit counter has limits of zero, one,
inner and last value. Queues of two distinguish empty, partly full and full, and order from
loss. A file check and its use are two steps of one run, so two edits reach every pair of
them, and one kill leaves every truncated file a later run can meet. The two directions of the bridge meet only in the break, the connection and
the error flag, which both runs keep. Two blocks, buffers and messages distinguish
first, inner and last; a fault, a fault of the retry and one more after it reach every
state a session can leave behind, and the proofs cover the other sizes. Deadlock is
checked in every run but `OfflineTools`, whose tools end.

Fairness. LeanCut: weak fairness of the wrapper, which sits in a periodic slot.
CutTask: the running slot and the injector task proceed and interrupts return;
strong fairness where another interrupt may disable the step again and again,
since interrupts leave the tasks some processor time. KlineBridge: weak fairness of the main
loop (the watchdog resets a stalled one), of the UART's transmitter and of the clock; none of the host.
FlashSession: weak fairness of the session's own steps, each of which has a timeout in
the host; strong fairness of starting a real write with the right file, because
recovery is by the owner trying again; faults are bounded.

## Proofs

TLAPS proves, for every value of the constants:

- `LeanCutProofs`: type correctness, `CountBelowLimit`, `TripWhenConfirmed`,
  `NoReleaseInBoost`, and that the published cut is the union of limiter, overboost and
  lean (`CutIsUnion`, which no run needs). `TypeOK` is not inductive on its own, and
  `TripWhenConfirmed` needs to know how the counter relates to history: the
  invariant adds that in the delay phase the armed run is the count plus one, that in
  the monitor phase the lean run is at least the count and differs from it only by
  lean samples of the delay, and that each count is below its limit. One step per exit of the wrapper, then per conjunct.
- `CutTaskProofs`: types, `MaskBalance`, and `KeepsPromise`, the refinement of
  FuelGuard step by step. The invariant says which mask each saved word, interrupt frame
  and program point gives back, that another task runs only where the slot holds no lock, and
  that flag and word disagree only between the stores under the lock.
- `WidebandFeedProofs`: `RichIsMeasured` and `ReadyMeansMeasured`. The invariant says
  how far the publication has got through its eight stores and that every word it has passed
  holds what it stores there; a word not yet reached is the previous publication's.
- `UnlockedWrappersProofs`: first each wrapper alone, then that a behaviour of the three
  is one of each of them, so that `AirflowSane`, `LoadOfOneSpeed`, `ArmedIsOpenLoop`,
  `VacuumKeepsStock` and `RetardBounded` hold in the specification the run checks.
  The open-loop invariant says, at each program point, which pressures the history
  variables still vouch for (a positive margin puts the limit below the barometer while
  a positive arm threshold puts boost above it); the airflow's, what the registers say of
  the inputs loaded so far; the idle's, that cylinders not reached hold the stock angle.
- `KlineBridgeProofs`: `CodingFence`, `BreakNeedsHost`, `HostStream`, `LineStream`, for queues
  of any size. The streams are proved as equations: what was accepted is the
  concatenation of what left and what each queue on the way holds. The fence is not
  inductive; `Owed` adds that what TinyUSB holds is due in the coding last asked for, which is the
  UART's unless it is pending. `Struck` says of the UART which of its bytes a break has hit:
  all of them under one, and the first as long as its frame is cut.
- `FlashSessionProofs`: `ReportIsTrue` and `AckMeansDone`, from the initial condition and
  next-state relation alone (`FlashSafety`). The invariant says that after the
  identification the wire holds at most one answer to the pending request, and what that answer
  would mean if the host accepted it; stale answers are confined to the
  identification, where they decide nothing about the flash.
- `RomBuildProofs`, of the images: the guards are byte tests of single regions, and
  `GuardsMean` turns them into which components are there and which are not; `OneMorePart`
  says that a component so accepted turns the image of a set of components into that of one
  more. The invariant is then that the image is the composite of the components applied,
  in a build those of a prefix of the script, from which `ImageIsComposite`,
  `ChainsComplete`, `ScriptAccepted`, `ChecksumHolds` and `PublishedIsProduct` follow.
  Of the files: `SourcesSurvive` and `OutputAfterReread` for any number of edits
  and kills. That invariant carries what a passed check still says later: the output
  path, and then the opened file, lies outside the protected files unless it was
  moved since, and every protected source is confirmed or on the list still to be read.
- `OfflineToolsProofs`, one part a tool; but for the reader's, the invariants say what
  the state was made from, and the work is in the lemmas about the operators.
  - Calibration (`FuelStaysRich`, `MapsMoveOneWay`): a knot is bracketed by two cells of
    the stock axes; bilinear interpolation of raw values stays within the width of a cell; it is
    rounded once, towards rich or less advance; the bounds come after. `FuelAnySurface` and
    `ClFuelAnySurface` say it for every stock table of the right size, not only the checkered
    ones that a run tries.
  - Assembler (`RoutinesReadBack`): every item starts at an even address, the slot of a
    literal is the number of different literals first used before it, and the
    displacement taken apart is the one put together.
  - Definitions (`SyncKeepsSettled`, `MastersComplete`): what is synchronised is cut from two files
    by section, and the counts of the oil scaling leave none for the block copied, so the sections
    read back from the result are those that were written. A master is the pruned source and the
    added tables put in order: sorting rearranges (`Regrouped`: selecting by disjoint sets that cover
    everything keeps tables, counts and the order within each set), the validation has counted each name
    once, so names tell old tables from added ones, and selecting from the source and from
    what pruning made of it goes side by side (`OnlyBeside`). The invariant adds that the source is a
    sequence of tables under any edit and that the derived files have their own tables.
    Facts about `Only`, which is defined along the sequence, are proved for all sequences by a
    least counterexample.
  - Logger (`InstallingSettles`, `ProfilesUsable`): an installed definition is a fixed point of the
    installer, and has each channel once because its validation said so. A selection read as the
    shipped definition reads it is accepted, as `SelectionsCounted`, an assumption on constants that
    TLC evaluates, says that each of the nine then fits.
  - Reader (`ToolsLetGo`): what was opened and not closed is the handle at hand and
    the one kept, unless a stray interrupt left it, and while snapshots are read there
    was none; the candidates passed are settled in order.

Assumptions are those named in the modules. Most give constants their types, the counter at
least one value, and require at least one block, buffer, message and mode (`LeanCutAssumption`, `CutTaskAssumption`,
`WidebandAssumption`, `OpenLoopAssumption`, `RotationalIdleAssumption`, `SpeedDensityAssumption`,
`KlineAssumption`, `FlashAssumption`, `BudgetAssumption`, `CalAssumption`, `DefinitionAssumption`, `LoggerAssumption`,
`ReaderAssumption`; `NaNAssumption`: NaN is no number; `AsmAssumption`: routines start at even addresses).
Two state facts about finite tables of the source that TLC
evaluates and the provers would have to unfold by hand: `AxesAscend` and `SelectionsCounted`.

The proofs changed the model where it could not be reasoned about or was too narrow: the guards of two
components that test the same bytes share an operator (`RomPatches`), the assembler's
two passes and the selection of tables (`Only`) are recursive functions, which the provers can unfold, the
oil scaling is inserted by position into the section that holds the fuel table
there, and the boost definition may also be one made before the oil scaling existed, the only case in which the
synchroniser inserts it. `OnlyDefectsRefused` was false as first stated: three edits with a
synchronisation between them leave a boost definition with two tables of one name, which
refuses a master of a source without defect; it now says so.

Only model-checked: liveness (`PersistentLeanIsCut`, `VacuumReleases`, `ActivationServed`,
`FiniteBreakEnds`, `CodingApplied`, `Recoverable`), as fairness is beyond the prover; and
`OnlyDefectsRefused`, which says that a particular list of 50 tables passes every pin of the
builders' validation: for it the enumeration is the argument.

## Findings

- `KlineSynthetic`: a break shorter than a frame leaves its frame forming; it
  arrives after the drain of `set_break(false)` and reaches the host, against the
  comment at `main.c:145`.
- `KlineErrors`: a byte with an error followed by a good byte in one drain is never
  counted, against `README.md:91-92` of the adapter.
- `SpeedDensityV2`: the second build's fail-safe is 12 g/s while its definition
  (`D2WD610H_master_patch_v2.xml:59`) promises 500 g/s.

Two more were met while modelling and have no run of their own. (So were the reader's
stray interrupts, of which nothing in the repository says otherwise.) `patches/core/README.md:20-23`
says every builder refuses to overwrite a protected stock source; the component builders
compare their output with the root image only (`Protected`), so the base copy and the
SRF are not protected from them. `master_patch_v2/build_master_patch.py:2` builds "from canonical
stock", but `speed_density_component.py:81` seeds a table from a generated image
nothing verifies (`Start`, `Seeded`), which may even be the builder's own output path.

Four more, in the calibration of the second build (`master_patch_v2/master_calibration.py`):
the comment at 190-192 says "Existing timing is never increased" and that positive knock
advance is removed from 1.22 g/rev, while `build_timing_map` (631-669) sets the boost cells, on the
stock maps higher by up to 35.5 degrees in 78 to 127 cells of each, and the advance
caps of 6.0 to 2.5 degrees leave 98 of 140 cells positive; the docstring (4-6) says only declared regions are
written, while the four writes at 1042-1045 are in none of `CALIBRATION_REGIONS` (369-419;
`WritesDeclared` lists them); `build_base_air` (857-869) compares grams per second with a
raw floor, which the pinned stock tables do not notice. `MovesOneWay` claims only what holds.

## Not modelled

- Rounding and precision of the run-time arithmetic; the data of curves; LED timing,
  pins and the diagnostics report of the bridge; XML layout and description texts.
- Analysis and audit tools, Ghidra scripts, the query fix: they read and report, and no other part
  uses their output. The native code except where a patch relies on it.
- Logger: where the addresses lie, so that two channels of one address, which the profile builder
  counts once, or an address out of range do not occur.
- FlashSession: loss of power in a session (the host forbids it: a half-written controller does not start),
  contents that collide in a CRC, and the kernel's memory functions. The error branch
  of the last comparison is reached only under faults the kernel itself would report.
- Hazards accepted or not claimed by the source, hence no property: a reader between the
  stock decision and the revoke of closed loop (`fueling_safety_component.py:92`), the four
  words of one airflow read half-way (`patch_speed_density.py:506`), the ungated fail-safe
  constants (503), the receive loop while unmounted (203), TinyUSB's queue after a suspend (301). Those listed without a
  property in `PROJECT.json` say why.

Each part is a component in `PROJECT.json` with its status and reason.

## Plan

1. Done: LeanCut, CutTask over FuelGuard, WidebandFeed, the three unlocked wrappers,
   KlineBridge, with their proofs.
2. Done: RomPatches and RomBuild, with purge delete and the calibration writers, and their proofs.
3. Done: calibration maps, assembler, definition generators, logger tools, diagnostics
   reader, FlashSession, and their proofs but for the property above.
4. Left: `OnlyDefectsRefused` as a theorem; the byte queues'
   free-running 32-bit indices as a refinement of a bounded queue; a bridge and a
   flashing session composed, with the bridge's drops as the session's faults.
