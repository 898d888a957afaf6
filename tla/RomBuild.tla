------------------------------ MODULE RomBuild ------------------------------
(***************************************************************************)
(* Running the image builders.  A run checks its output path, reads the    *)
(* protected sources, applies its script of components to a private copy   *)
(* of the stock image, reads the sources again and writes the output; the  *)
(* two master builders write last, the others write before the second      *)
(* reading.  Meanwhile a user may replace a source file, redirect the      *)
(* output path by a link, or kill the run, which may leave half an output. *)
(* The second master builder also seeds a table from a research image when *)
(* it is imported; no check of any kind covers that file.                  *)
(*                                                                         *)
(* The components are library functions too: the tests apply them to       *)
(* images in orders of their own, and a component that refuses ends such a *)
(* bench session.  No file is written by one.                              *)
(***************************************************************************)
EXTENDS RomPatches, Naturals, Sequences

CONSTANTS MaxEdits, \* files replaced and links redirected, in all
          MaxKills  \* runs killed, in all
ASSUME BudgetAssumption == MaxEdits \in Nat /\ MaxKills \in Nat

VARIABLES builder, pc, todo, reads, \* the run: who, where, what is left to apply and to read
          rom, sum, applied,        \* the image, what its stored checksum sums up, the components in it
          seed,                     \* whether the seed of the second build's table was the known one
          confirmed,                \* history: sources found genuine again after the image was built
          relinked,                 \* history: the output path was redirected since it was checked
          outcome,                  \* how the latest run ended
          content, outRef, target,  \* files, the file the output path leads to, the file opened
          edits, kills
run == <<builder, pc, todo, reads, rom, sum, applied, seed, confirmed, target>>
vars == <<run, content, outRef, relinked, outcome, edits, kills>>

Protectable == {"root", "base", "srf", "donor"}
Sources == Protectable \cup {"candidate"}
Files == Sources \cup {"out"}
Masters == {"v1", "v2"}
Builders == Masters \cup {"combined", "boostOnly", "frontOnly", "rotIdleOnly", "sdOnly"}
Outcomes == {"none", "ok", "alias", "source", "guard", "bench", "killed"}

-----------------------------------------------------------------------------
\* What the builders are made of.

\* A mistake: the guards of the fueling component before the publisher they need.
ScriptV1Early == <<"boost", "omni", "rotIdle", "sd", "fueling", "wideband", "purge",
                   "cal1", "avls", "checksum">>
ScriptV1 == <<"boost", "omni", "rotIdle", "sd", "wideband", "purge",
              "fueling", "cal1", "avls", "checksum">>
ScriptV2 == <<"boost", "omni", "sd", "wideband", "purge",
              "fueling", "cal2", "avls", "checksum">>
\* A mistake: the checksum before the last write.
ScriptSdSummed == <<"sd", "checksum", "avls">>
ScriptSd == <<"sd", "avls", "checksum">>
ScriptCombined == <<"boost", "front">>
Script(b) == CASE b = "v1" -> ScriptV1
               [] b = "v2" -> ScriptV2
               [] b = "combined" -> ScriptCombined
               [] b = "boostOnly" -> <<"boost">>
               [] b = "frontOnly" -> <<"front">>
               [] b = "rotIdleOnly" -> <<"rotIdle">>
               [] b = "sdOnly" -> ScriptSd

\* The sources whose bytes a run compares before it patches anything.
Provenance(b) == CASE b \in Masters -> <<"root", "base", "srf">>
                   [] b = "combined" -> <<"root", "srf", "base">>
                   [] OTHER -> <<"root">>
\* Those it reads again, and those its output may not be.
Rereads(b) == CASE b = "v1" -> <<"root", "base", "srf", "donor">>
                [] b \in {"v2", "combined"} -> <<"root", "base", "srf">>
                [] OTHER -> <<"root">>
\* A mistake: every builder protects what the simplest does.
ProtectedRoot(b) == {"root"}
Protected(b) == CASE b = "v1" -> Protectable
                  [] b \in {"v2", "combined"} -> {"root", "base", "srf"}
                  [] OTHER -> {"root"}
\* A mistake: as the component builders do.
WritesEarly(b) == FALSE
WritesLast(b) == b \in Masters

\* Root and donor are pinned by their hashes, the others by comparison.
\* A mistake: the size is checked, the bytes are not.
RightSize(f) == content[f] \in {"pinned", "other"}
Genuine(f) == content[f] = "pinned"
\* The image a root file holds: anything but the pinned one differs somewhere.
ImageOf(f) == IF content[f] = "pinned" THEN Stock ELSE [Stock EXCEPT !.tables = "altered"]

Changed(image) == {r \in Regions : image[r] # Stock[r]}
\* The combined builder compares with a dry run of each component.
CombinedAgrees(image) ==
  LET boost == Patched("boost", Stock)
      front == Patched("front", Stock)
  IN /\ Changed(boost) \cap Changed(front) = {}
     /\ Changed(image) = Changed(boost) \cup Changed(front)
     /\ \A r \in Changed(boost) : image[r] = boost[r]
     /\ \A r \in Changed(front) : image[r] = front[r]
\* The last assertions on an image before it may leave the program.
Sound(b, image) ==
  /\ b = "v2" => image.timingPtr = "stock" /\ image.rotFlash = "erased"
  /\ b \in Masters => sum = Covered(image)
  /\ b = "combined" => CombinedAgrees(image)

-----------------------------------------------------------------------------
Init == /\ builder = "none" /\ pc = "idle" /\ todo = << >> /\ reads = << >>
        /\ rom = Stock /\ sum = Covered(Stock) /\ applied = {}
        /\ seed = TRUE /\ confirmed = {} /\ relinked = FALSE /\ outcome = "none"
        /\ content = [f \in Files |-> IF f = "out" THEN "old" ELSE "pinned"]
        /\ outRef \in Files /\ target = "out"
        /\ edits = 0 /\ kills = 0

\* The process ends: nothing of the run is left but the files.
End(o) == /\ outcome' = o /\ pc' = "idle"
          /\ todo' = << >> /\ reads' = << >> /\ applied' = {} /\ confirmed' = {}
          /\ rom' = Stock /\ sum' = Covered(Stock) /\ seed' = TRUE /\ target' = "out"
          /\ builder' = "none"

\* The seed is read before anything is checked; half a file may be too short.
SeedKnown == content["candidate"] = "pinned"
Start(b) == /\ pc = "idle"
            /\ builder' = b /\ pc' = "alias" /\ outcome' = "none"
            /\ seed' = (b = "v2" => SeedKnown)
            /\ UNCHANGED <<todo, reads, rom, sum, applied, confirmed, target, content,
                           outRef, relinked, edits, kills>>
SeedTooShort == /\ pc = "idle" /\ content["candidate"] = "partial"
                /\ outcome' = "source"
                /\ UNCHANGED <<run, content, outRef, relinked, edits, kills>>

RefuseAlias == /\ pc = "alias" /\ outRef \in Protected(builder)
               /\ End("alias")
               /\ UNCHANGED <<content, outRef, relinked, edits, kills>>

PassAlias == /\ pc = "alias" /\ outRef \notin Protected(builder)
             /\ pc' = "provenance" /\ reads' = Provenance(builder) /\ relinked' = FALSE
             /\ UNCHANGED <<builder, todo, rom, sum, applied, seed, confirmed, target, content,
                            outRef, outcome, edits, kills>>

RefuseSource == /\ pc \in {"provenance", "reread"} /\ reads # << >> /\ ~Genuine(Head(reads))
                /\ End("source")
                /\ UNCHANGED <<content, outRef, relinked, edits, kills>>

ReadSource == /\ pc = "provenance" /\ reads # << >> /\ Genuine(Head(reads))
              /\ reads' = Tail(reads)
              /\ rom' = IF Head(reads) = "root" THEN ImageOf("root") ELSE rom
              /\ IF Tail(reads) = << >>
                 THEN pc' = "apply" /\ todo' = Script(builder)
                 ELSE UNCHANGED <<pc, todo>>
              /\ UNCHANGED <<builder, sum, applied, seed, confirmed, target, content, outRef,
                             relinked, outcome, edits, kills>>

\* What the component of the second build leaves in its table.
Tabled(image, known) == IF known THEN image ELSE [image EXCEPT !.sdLowVe = "foreign"]
Seeded(image) == IF Head(todo) = "sd" THEN Tabled(image, seed) ELSE image
\* A calibration ends with a checksum of its own, and the first one reads the
\* injector donor, pinned by its hash.
Sums(c) == c \in {"cal1", "cal2"}
Apply == /\ pc = "apply" /\ todo # << >> /\ Head(todo) \in Components
         /\ CASE ~Accepts(Head(todo), rom) -> End("guard")
              [] Head(todo) = "cal1" /\ ~Genuine("donor") -> End("source")
              [] OTHER ->
                   /\ rom' = Seeded(Patched(Head(todo), rom))
                   /\ sum' = IF Sums(Head(todo)) THEN Covered(rom') ELSE sum
                   /\ applied' = applied \cup {Head(todo)} /\ todo' = Tail(todo)
                   /\ UNCHANGED <<builder, pc, reads, seed, confirmed, target, outcome>>
         /\ UNCHANGED <<content, outRef, relinked, edits, kills>>

FixChecksum == /\ pc = "apply" /\ todo # << >> /\ Head(todo) = "checksum"
               /\ sum' = Covered(rom) /\ todo' = Tail(todo)
               /\ UNCHANGED <<builder, pc, reads, rom, applied, seed, confirmed, target, content,
                              outRef, relinked, outcome, edits, kills>>

BuildDone == /\ pc = "apply" /\ todo = << >>
             /\ IF Sound(builder, rom)
                THEN /\ pc' = IF WritesLast(builder) THEN "reread" ELSE "open"
                     /\ reads' = Rereads(builder)
                     /\ UNCHANGED <<builder, todo, rom, sum, applied, seed, confirmed, target, outcome>>
                ELSE End("guard")
             /\ UNCHANGED <<content, outRef, relinked, edits, kills>>

Reread == /\ pc = "reread" /\ reads # << >> /\ Genuine(Head(reads))
          /\ reads' = Tail(reads) /\ confirmed' = confirmed \cup {Head(reads)}
          /\ UNCHANGED <<builder, pc, todo, rom, sum, applied, seed, target, content, outRef,
                         relinked, outcome, edits, kills>>

RereadDone == /\ pc = "reread" /\ reads = << >>
              /\ IF WritesLast(builder)
                 THEN /\ pc' = "open"
                      /\ UNCHANGED <<builder, todo, reads, rom, sum, applied, seed, confirmed,
                                     target, outcome>>
                 ELSE End("ok")
              /\ UNCHANGED <<content, outRef, relinked, edits, kills>>

\* Opening for writing follows the path as it leads now, and truncates.
OpenOutput == /\ pc = "open"
              /\ target' = outRef /\ content' = [content EXCEPT ![outRef] = "partial"]
              /\ pc' = "write"
              /\ UNCHANGED <<builder, todo, reads, rom, sum, applied, seed, confirmed,
                             outRef, relinked, outcome, edits, kills>>

WriteOutput == /\ pc = "write"
               /\ content' = [content EXCEPT ![target] = "built"]
               /\ IF WritesLast(builder)
                  THEN End("ok")
                  ELSE /\ pc' = "reread"
                       /\ UNCHANGED <<builder, todo, reads, rom, sum, applied, seed, confirmed,
                                      target, outcome>>
               /\ UNCHANGED <<outRef, relinked, edits, kills>>

Kill == /\ pc # "idle" /\ kills < MaxKills
        /\ kills' = kills + 1 /\ End("killed")
        /\ UNCHANGED <<content, outRef, relinked, edits>>

-----------------------------------------------------------------------------
\* The user's side.

ReplaceSource(f) == /\ pc # "bench" /\ edits < MaxEdits /\ edits' = edits + 1
                    /\ content' = [content EXCEPT ![f] = IF @ = "pinned" THEN "other" ELSE "pinned"]
                    /\ UNCHANGED <<run, outRef, relinked, outcome, kills>>

Relink(f) == /\ pc # "bench" /\ edits < MaxEdits /\ edits' = edits + 1
             /\ f # outRef /\ outRef' = f /\ relinked' = TRUE
             /\ UNCHANGED <<run, content, outcome, kills>>

\* A bench session reads and writes no file, so one before any run and any edit
\* stands for all of them.
StartBench == /\ pc = "idle" /\ outcome = "none" /\ edits = 0
              /\ builder' = "bench" /\ pc' = "bench" /\ outcome' = "none"
              /\ UNCHANGED <<todo, reads, rom, sum, applied, seed, confirmed, target, content,
                             outRef, relinked, edits, kills>>

BenchApply(c) == /\ pc = "bench" /\ Accepts(c, rom)
                 /\ rom' = Patched(c, rom) /\ applied' = applied \cup {c}
                 /\ UNCHANGED <<builder, pc, todo, reads, sum, seed, confirmed, target, content,
                                outRef, relinked, outcome, edits, kills>>

BenchRefused(c) == /\ pc = "bench" /\ ~Accepts(c, rom)
                   /\ End("bench")
                   /\ UNCHANGED <<content, outRef, relinked, edits, kills>>

Program == \/ RefuseAlias \/ PassAlias \/ RefuseSource \/ ReadSource
           \/ Apply \/ FixChecksum \/ BuildDone \/ Reread \/ RereadDone \/ OpenOutput \/ WriteOutput
User == \/ \E b \in Builders : Start(b)
        \/ SeedTooShort
        \/ \E f \in Sources : ReplaceSource(f)
        \/ \E f \in Files : Relink(f)
        \/ StartBench
        \/ \E c \in Components : BenchApply(c) \/ BenchRefused(c)
        \/ Kill
Next == Program \/ User
Spec == Init /\ [][Next]_vars

-----------------------------------------------------------------------------
Steps == Components \cup {"checksum"}

\* Values of the variables.
TypeOK ==
  /\ builder \in Builders \cup {"none", "bench"} /\ outcome \in Outcomes
  /\ pc \in {"idle", "alias", "provenance", "apply", "reread", "open", "write", "bench"}
  /\ todo \in Seq(Steps) /\ reads \in Seq(Sources)
  /\ rom \in [Regions -> Values] /\ sum \in [Regions \ {"marker"} -> Values]
  /\ applied \subseteq Components /\ confirmed \subseteq Sources /\ {seed, relinked} \subseteq BOOLEAN
  /\ content \in [Files -> {"pinned", "other", "old", "partial", "built"}]
  /\ outRef \in Files /\ target \in Files
  /\ edits \in 0 .. MaxEdits /\ kills \in 0 .. MaxKills

\* What an image is meant to hold once the components of S are in it: each
\* region what its last owner in this order of ownership leaves there.
Ownership == <<"boost", "omni", "rotIdle", "sd", "wideband", "front", "purge",
               "fueling", "cal1", "cal2", "avls">>
Owners(S, r) == {i \in DOMAIN Ownership : Ownership[i] \in S /\ r \in DOMAIN Writes[Ownership[i]]}
Composite(S) == [r \in Regions |->
  IF Owners(S, r) = {} THEN Stock[r]
  ELSE LET last == CHOOSE i \in Owners(S, r) : \A j \in Owners(S, r) : j <= i
       IN Writes[Ownership[last]][r]]

\* The guards alone keep the components from being composed wrongly: in
\* whatever order apply_to_rom functions are called, an image that none of
\* them refused is the one the set of its components determines; no later
\* component undoes what an earlier one wrote and owns.
ImageIsComposite == rom = IF "sd" \in applied THEN Tabled(Composite(applied), seed)
                                              ELSE Composite(applied)

\* No image holds half of a chain of hooks: a task pointer or entry hook leads
\* to code that is there; the lean guard sits on the overboost wrapper it calls,
\* has the wideband publisher's lambda to read, and nothing else writes the RAM
\* it took over from the front sensor's producer (the superseded single front
\* sensor shares the wideband's signature byte, so the byte proves nothing).
ChainsComplete ==
  /\ rom.limiterPtr \in {"overboost", "lean"} => rom.boostFlash = "boost" /\ rom.overboost = "on"
  /\ rom.timingPtr = "rotIdle" => rom.rotFlash = "rotIdle"
  /\ rom.airHelper = "sd" => rom.sdFlash = "sd" /\ rom.mafCode = "bypass"
  /\ rom.frontEntry = "wideband" => rom.wbFlash = "wideband" /\ rom.bank2Entry = "wideband"
  /\ rom.frontEntry = "mirror" => rom.frontFlash = "mirror" /\ rom.bank2Entry = "mirror"
  /\ rom.limiterPtr = "lean" => /\ rom.fsFlash = "guards" /\ rom.avcsInitPtr = "lean"
                                /\ rom.frontEntry = "wideband" /\ rom.pumpPtr = "noop"

\* The scripts meet the guards: a run of a builder is refused for its sources
\* or its output path, never by a component, an assertion or a checksum.
ScriptAccepted == outcome # "guard"

\* What is written is the builder's own image, made of the pinned stock image
\* and nothing else, whatever is replaced between the readings of the sources;
\* only the second build depends on more, on its seed in one table.
PublishedIsProduct ==
  pc = "write" => rom = Tabled(Composite({Script(builder)[i] : i \in DOMAIN Script(builder)}), seed)

\* An image that carries a repaired checksum carries the one of its own bytes:
\* nothing the checksum covers is written after it was computed.
ChecksumHolds == pc = "write" /\ builder \in Masters \cup {"sdOnly"} => sum = Covered(rom)

\* Files a builder says it protects; none lists the seed.
Promised(b) == CASE b \in {"v2", "combined"} -> {"root", "base", "srf"}
                 [] b = "v1" -> Protectable
                 [] OTHER -> {"root"}

\* No step of a run changes a protected file, by any alias or link the output
\* path had when it was checked; only a link made after the check gets past it.
KeepsSources == edits' = edits /\ ~relinked =>
                  \A f \in Promised(builder) : content'[f] = content[f]
SourcesSurvive == [][pc # "idle" => KeepsSources]_vars

\* A master builder touches its output only after every source it protects was
\* found genuine a second time, after the image was complete; so a run that
\* fails leaves the previous release alone.
RereadBefore == Promised(builder) \subseteq confirmed
OutputAfterReread ==
  [][(builder \in Masters /\ content' # content /\ edits' = edits) => RereadBefore]_vars
=============================================================================
