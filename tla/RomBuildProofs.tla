--------------------------- MODULE RomBuildProofs ---------------------------
(***************************************************************************)
(* Two arguments about the image builders.                                 *)
(*                                                                         *)
(* The files.  The protected files survive any number of runs, edits and   *)
(* kills, and the master builders write after the second reading.  Both    *)
(* need to know what the checks a run has passed still say at a later      *)
(* step: the output path leads past the protected files unless it was      *)
(* moved since, and a source is either confirmed or still to be read.      *)
(*                                                                         *)
(* The image.  A composite image holds in each region what its last owner  *)
(* leaves there; the regions more than one component writes are few        *)
(* (Shares), so a value of a composite says which components are in it     *)
(* (BoostValues to GuardValues).  Hence the guards of a component, which   *)
(* read bytes, ask for a set of components and exclude one (GuardsMean),   *)
(* and a component they accept turns the composite of a set into that of   *)
(* one more (OneMorePart): every later owner it shares a region with is    *)
(* excluded.  The invariant BuildInv follows from these by one step per    *)
(* action, and each promise of the builders from BuildInv.                 *)
(***************************************************************************)
EXTENDS RomBuild, TLAPS

Past == {"provenance", "apply", "reread", "open", "write"} \* after the alias check

FileTypes == /\ edits \in Nat /\ outRef \in Files /\ target \in Files
             /\ content \in [Files -> {"pinned", "other", "old", "partial", "built"}]
             /\ reads \in Seq(Sources) /\ confirmed \subseteq Sources
RunHasBuilder == pc \in Past \cup {"alias"} => builder \in Builders
PathChecked == pc \in Past /\ ~relinked => outRef \notin Protected(builder)
OpenedChecked == pc = "write" /\ ~relinked => target \notin Protected(builder)
ReadOrToRead == pc = "reread" /\ builder \in Masters =>
  \A f \in Promised(builder) : f \in confirmed \/ \E i \in 1..Len(reads) : reads[i] = f
ReadBeforeOutput == pc \in {"open", "write"} /\ builder \in Masters => RereadBefore

IInv == /\ FileTypes /\ RunHasBuilder /\ PathChecked /\ OpenedChecked
        /\ ReadOrToRead /\ ReadBeforeOutput
-----------------------------------------------------------------------------
(* What the builders promise is what they compare their output with.       *)
LEMMA PromisedIsProtected == \A b : Promised(b) = Protected(b)
  BY DEF Promised, Protected, Protectable

(* The sources read first are sources, and so are those read again.        *)
LEMMA ReadingLists ==
  ASSUME NEW b \in Builders
  PROVE  Provenance(b) \in Seq(Sources) /\ Rereads(b) \in Seq(Sources)
<1>1. {"root", "base", "srf", "donor"} \subseteq Sources
  BY DEF Sources, Protectable
<1>2. /\ <<"root", "base", "srf", "donor">> \in Seq(Sources)
      /\ <<"root", "base", "srf">> \in Seq(Sources)
      /\ <<"root", "srf", "base">> \in Seq(Sources)
      /\ <<"root">> \in Seq(Sources)
  BY <1>1
<1>3. Provenance(b) \in {<<"root", "base", "srf">>, <<"root", "srf", "base">>, <<"root">>}
  BY DEF Provenance
<1>4. Rereads(b) \in {<<"root", "base", "srf", "donor">>, <<"root", "base", "srf">>, <<"root">>}
  BY DEF Rereads
<1> QED  BY <1>2, <1>3, <1>4

(* A master builder reads again all it protects.                           *)
LEMMA RereadsAll ==
  ASSUME NEW b \in Masters, NEW f \in Promised(b)
  PROVE  \E i \in 1..Len(Rereads(b)) : Rereads(b)[i] = f
<1>1. CASE b = "v1"
  <2>1. Rereads(b) = <<"root", "base", "srf", "donor">>
    BY <1>1 DEF Rereads
  <2>2. f \in {"root", "base", "srf", "donor"}
    BY <1>1 DEF Promised, Protectable
  <2> QED  BY <2>1, <2>2
<1>2. CASE b = "v2"
  <2>1. Rereads(b) = <<"root", "base", "srf">>
    BY <1>2 DEF Rereads
  <2>2. f \in {"root", "base", "srf"}
    BY <1>2 DEF Promised, Protectable
  <2> QED  BY <2>1, <2>2
<1> QED  BY <1>1, <1>2 DEF Masters

(* Reading one source takes it off the list and leaves the others on it.   *)
LEMMA HeadOrTail ==
  ASSUME NEW s \in Seq(Sources), s # << >>, NEW i \in 1..Len(s)
  PROVE  s[i] = Head(s) \/ \E j \in 1..Len(Tail(s)) : Tail(s)[j] = s[i]
<1>1. CASE i = 1
  BY <1>1
<1>2. CASE i # 1
  <2>1. i - 1 \in 1..Len(Tail(s)) /\ Tail(s)[i - 1] = s[i]
    BY <1>2
  <2> QED  BY <2>1
<1> QED  BY <1>1, <1>2

-----------------------------------------------------------------------------
LEMMA InitEstablishes == Init => IInv
  BY DEF Init, IInv, FileTypes, RunHasBuilder, PathChecked, OpenedChecked, ReadOrToRead,
         ReadBeforeOutput, Past, Files, Sources, Protectable

(* The end of a run leaves no check to remember.                           *)
LEMMA EndKeeps ==
  ASSUME IInv, NEW o, End(o), UNCHANGED <<outRef, relinked>>, FileTypes'
  PROVE  IInv'
  BY DEF IInv, End, RunHasBuilder, PathChecked, OpenedChecked, ReadOrToRead,
         ReadBeforeOutput, Past

LEMMA EndTypes ==
  ASSUME FileTypes, NEW o, End(o), UNCHANGED <<content, outRef, edits>>
  PROVE  FileTypes'
  BY DEF FileTypes, End, Files
LEMMA StepKeeps == IInv /\ [Next]_vars => IInv'
<1> SUFFICES ASSUME IInv, [Next]_vars PROVE IInv'
  OBVIOUS
<1> USE DEF IInv, Past
<1>1. ASSUME NEW b \in Builders, Start(b) PROVE IInv'
  BY <1>1 DEF Start, FileTypes, RunHasBuilder, PathChecked, OpenedChecked,
              ReadOrToRead, ReadBeforeOutput
<1>2. CASE SeedTooShort
  BY <1>2 DEF SeedTooShort, run, FileTypes, RunHasBuilder, PathChecked, OpenedChecked,
              ReadOrToRead, ReadBeforeOutput, RereadBefore
<1>3. CASE RefuseAlias
  BY <1>3, EndTypes, EndKeeps DEF RefuseAlias
<1>4. CASE PassAlias
  BY <1>4, ReadingLists
     DEF PassAlias, FileTypes, RunHasBuilder, PathChecked, OpenedChecked,
         ReadOrToRead, ReadBeforeOutput
<1>5. CASE RefuseSource
  BY <1>5, EndTypes, EndKeeps DEF RefuseSource
<1>6. CASE ReadSource
  BY <1>6 DEF ReadSource, FileTypes, RunHasBuilder, PathChecked, OpenedChecked,
              ReadOrToRead, ReadBeforeOutput
<1>7. CASE Apply
  <2>1. CASE \E o \in Outcomes : End(o)
    BY <1>7, <2>1, EndTypes, EndKeeps DEF Apply
  <2>2. CASE UNCHANGED <<builder, pc, reads, seed, confirmed, target, outcome>>
    BY <1>7, <2>2 DEF Apply, FileTypes, RunHasBuilder, PathChecked, OpenedChecked,
                      ReadOrToRead, ReadBeforeOutput, RereadBefore
  <2> QED  BY <1>7, <2>1, <2>2 DEF Apply, Outcomes
<1>8. CASE FixChecksum
  BY <1>8 DEF FixChecksum, FileTypes, RunHasBuilder, PathChecked, OpenedChecked,
              ReadOrToRead, ReadBeforeOutput, RereadBefore
<1>9. CASE BuildDone
  <2>1. CASE Sound(builder, rom)
    <3>1. /\ pc = "apply" /\ builder \in Builders /\ reads' = Rereads(builder)
          /\ pc' = IF WritesLast(builder) THEN "reread" ELSE "open"
          /\ UNCHANGED <<builder, confirmed, target, content, outRef, relinked, edits>>
      BY <1>9, <2>1 DEF BuildDone, RunHasBuilder
    <3>2. FileTypes'
      BY <3>1, ReadingLists DEF FileTypes
    <3>3. ReadOrToRead'
      BY <3>1, RereadsAll DEF ReadOrToRead, Promised
    <3>4. ReadBeforeOutput'
      BY <3>1 DEF ReadBeforeOutput, WritesLast
    <3> QED  BY <3>1, <3>2, <3>3, <3>4 DEF RunHasBuilder, PathChecked, OpenedChecked
  <2>2. CASE ~Sound(builder, rom)
    BY <1>9, <2>2, EndTypes, EndKeeps DEF BuildDone
  <2> QED  BY <2>1, <2>2
<1>10. CASE Reread
  <2>1. /\ reads \in Seq(Sources) /\ reads # << >> /\ reads' = Tail(reads)
        /\ confirmed' = confirmed \cup {Head(reads)} /\ pc = "reread"
        /\ UNCHANGED <<builder, pc, target, content, outRef, relinked, edits>>
    BY <1>10 DEF Reread, FileTypes
  <2>2. FileTypes'
    BY <2>1 DEF FileTypes
  <2>3. ReadOrToRead'
    <3> SUFFICES ASSUME builder \in Masters, NEW f \in Promised(builder)
                 PROVE  f \in confirmed' \/ \E j \in 1..Len(reads') : reads'[j] = f
      BY <2>1 DEF ReadOrToRead, Promised
    <3>1. CASE f \in confirmed
      BY <2>1, <3>1
    <3>2. CASE \E i \in 1..Len(reads) : reads[i] = f
      BY <2>1, <3>2, HeadOrTail
    <3> QED  BY <2>1, <3>1, <3>2 DEF ReadOrToRead
  <2> QED  BY <2>1, <2>2, <2>3 DEF RunHasBuilder, PathChecked, OpenedChecked, ReadBeforeOutput
<1>11. CASE RereadDone
  <2>1. CASE WritesLast(builder)
    <3>1. /\ pc = "reread" /\ pc' = "open" /\ reads = << >>
          /\ UNCHANGED <<builder, reads, confirmed, target, content, outRef, relinked, edits>>
      BY <1>11, <2>1 DEF RereadDone
    <3>2. ReadBeforeOutput'
      BY <3>1 DEF ReadBeforeOutput, ReadOrToRead, RereadBefore, Promised
    <3> QED  BY <3>1, <3>2 DEF FileTypes, RunHasBuilder, PathChecked, OpenedChecked, ReadOrToRead
  <2>2. CASE ~WritesLast(builder)
    BY <1>11, <2>2, EndTypes, EndKeeps DEF RereadDone
  <2> QED  BY <2>1, <2>2
<1>12. CASE OpenOutput
  BY <1>12 DEF OpenOutput, FileTypes, RunHasBuilder, PathChecked, OpenedChecked,
               ReadOrToRead, ReadBeforeOutput, RereadBefore
<1>13. CASE WriteOutput
  <2>1. FileTypes /\ pc = "write" /\ target \in Files
        /\ content' = [content EXCEPT ![target] = "built"]
        /\ UNCHANGED <<outRef, relinked, edits>>
    BY <1>13 DEF WriteOutput, FileTypes
  <2>2. CASE WritesLast(builder)
    <3>1. End("ok")
      BY <1>13, <2>2 DEF WriteOutput
    <3>2. FileTypes'
      BY <2>1, <3>1 DEF FileTypes, End, Files
    <3> QED  BY <2>1, <3>1, <3>2, EndKeeps
  <2>3. CASE ~WritesLast(builder)
    <3>1. pc' = "reread" /\ UNCHANGED <<builder, reads, confirmed, target>>
      BY <1>13, <2>3 DEF WriteOutput
    <3> QED  BY <2>1, <2>3, <3>1 DEF FileTypes, RunHasBuilder, PathChecked, OpenedChecked,
                             ReadOrToRead, ReadBeforeOutput, WritesLast
  <2> QED  BY <2>2, <2>3
<1>14. ASSUME NEW f \in Sources, ReplaceSource(f) PROVE IInv'
  <2>1. /\ content' = [content EXCEPT ![f] = IF @ = "pinned" THEN "other" ELSE "pinned"]
        /\ edits' = edits + 1
        /\ UNCHANGED <<builder, pc, reads, confirmed, target, outRef, relinked>>
    BY <1>14 DEF ReplaceSource, run
  <2> QED  BY <2>1 DEF FileTypes, Files, RunHasBuilder, PathChecked, OpenedChecked,
                   ReadOrToRead, ReadBeforeOutput, RereadBefore
<1>15. ASSUME NEW f \in Files, Relink(f) PROVE IInv'
  BY <1>15 DEF Relink, run, FileTypes, RunHasBuilder, PathChecked, OpenedChecked,
               ReadOrToRead, ReadBeforeOutput, RereadBefore
<1>16. CASE StartBench
  BY <1>16 DEF StartBench, FileTypes, RunHasBuilder, PathChecked, OpenedChecked,
               ReadOrToRead, ReadBeforeOutput
<1>17. ASSUME NEW c \in Components, BenchApply(c) PROVE IInv'
  BY <1>17 DEF BenchApply, FileTypes, RunHasBuilder, PathChecked, OpenedChecked,
               ReadOrToRead, ReadBeforeOutput
<1>18. ASSUME NEW c \in Components, BenchRefused(c) PROVE IInv'
  BY <1>18, EndTypes, EndKeeps DEF BenchRefused
<1>19. CASE Kill
  BY <1>19, EndTypes, EndKeeps DEF Kill
<1>20. CASE UNCHANGED vars
  BY <1>20 DEF vars, run, FileTypes, RunHasBuilder, PathChecked, OpenedChecked,
               ReadOrToRead, ReadBeforeOutput, RereadBefore
<1> QED  BY <1>1, <1>2, <1>3, <1>4, <1>5, <1>6, <1>7, <1>8, <1>9, <1>10, <1>11, <1>12, <1>13,
            <1>14, <1>15, <1>16, <1>17, <1>18, <1>19, <1>20 DEF Next, Program, User

(* What each check of a run still says at every later step of it.          *)
THEOREM Invariance == Spec => []IInv
  BY InitEstablishes, StepKeeps, PTL DEF Spec

-----------------------------------------------------------------------------
(* Only the two steps that write the output, and the user, change a file.  *)
LEMMA FilesChange ==
  ASSUME IInv, [Next]_vars, edits' = edits, content' # content
  PROVE  OpenOutput \/ WriteOutput
<1>1. edits \in Nat
  BY DEF IInv, FileTypes
<1>2. ASSUME NEW f \in Sources, ReplaceSource(f) PROVE FALSE
  BY <1>1, <1>2 DEF ReplaceSource
<1>3. ASSUME NEW f \in Files, Relink(f) PROVE FALSE
  BY <1>3 DEF Relink
<1>4. ASSUME NEW b \in Builders, Start(b) PROVE FALSE
  BY <1>4 DEF Start
<1>5. ASSUME NEW c \in Components, BenchApply(c) \/ BenchRefused(c) PROVE FALSE
  BY <1>5 DEF BenchApply, BenchRefused
<1>6. ~(RefuseAlias \/ PassAlias \/ RefuseSource \/ ReadSource)
  BY DEF RefuseAlias, PassAlias, RefuseSource, ReadSource
<1>7. ~(Apply \/ FixChecksum \/ BuildDone \/ Reread \/ RereadDone)
  BY DEF Apply, FixChecksum, BuildDone, Reread, RereadDone
<1>8. ~(SeedTooShort \/ StartBench \/ Kill) /\ ~UNCHANGED vars
  BY DEF SeedTooShort, StartBench, Kill, vars
<1> QED  BY <1>2, <1>3, <1>4, <1>5, <1>6, <1>7, <1>8 DEF Next, Program, User

(* Protected files survive every run whose output path was not moved after *)
(* it was checked, however often files are replaced and runs are killed.   *)
THEOREM SourcesAreSafe == Spec => SourcesSurvive
<1>1. ASSUME IInv, [Next]_vars PROVE pc # "idle" => KeepsSources
  <2> SUFFICES ASSUME edits' = edits, ~relinked, NEW f \in Promised(builder)
               PROVE  content'[f] = content[f]
    BY DEF KeepsSources
  <2>1. f \in Protected(builder) /\ f \in Files
    BY PromisedIsProtected DEF Protected, Files, Sources, Protectable
  <2>2. content \in [Files -> {"pinned", "other", "old", "partial", "built"}]
    BY <1>1 DEF IInv, FileTypes
  <2>3. CASE OpenOutput
    BY <1>1, <2>1, <2>2, <2>3 DEF OpenOutput, IInv, PathChecked, Past
  <2>4. CASE WriteOutput
    BY <1>1, <2>1, <2>2, <2>4 DEF WriteOutput, IInv, OpenedChecked
  <2> QED  BY <1>1, <2>3, <2>4, FilesChange
<1> QED  BY <1>1, Invariance, PTL DEF Spec, SourcesSurvive

(* A master builder changes no file before its second reading is complete. *)
THEOREM OutputIsLast == Spec => OutputAfterReread
<1>1. ASSUME IInv, [Next]_vars
      PROVE  (builder \in Masters /\ content' # content /\ edits' = edits) => RereadBefore
  BY <1>1, FilesChange DEF OpenOutput, WriteOutput, IInv, ReadBeforeOutput
<1> QED  BY <1>1, Invariance, PTL DEF Spec, OutputAfterReread
-----------------------------------------------------------------------------
(* The position of each component in the order of ownership. *)
LEMMA Positions ==
  /\ DOMAIN Ownership = 1..11
  /\ Ownership[1] = "boost" /\ Ownership[2] = "omni" /\ Ownership[3] = "rotIdle"
  /\ Ownership[4] = "sd" /\ Ownership[5] = "wideband" /\ Ownership[6] = "front"
  /\ Ownership[7] = "purge" /\ Ownership[8] = "fueling" /\ Ownership[9] = "cal1"
  /\ Ownership[10] = "cal2" /\ Ownership[11] = "avls"
BY DEF Ownership

(* The owner that comes last leaves its bytes. *)
LEMMA LastOwner ==
  ASSUME NEW T, NEW r \in Regions, NEW i \in Owners(T, r), \A j \in Owners(T, r) : j <= i
  PROVE  Composite(T)[r] = Writes[Ownership[i]][r]
<1>1. \A j \in Owners(T, r) : j \in Nat
  BY Positions DEF Owners
<1> DEFINE last == CHOOSE n \in Owners(T, r) : \A j \in Owners(T, r) : j <= n
<1>2. last \in Owners(T, r) /\ \A j \in Owners(T, r) : j <= last
  OBVIOUS
<1>3. last = i
  BY <1>1, <1>2
<1> QED  BY <1>3 DEF Composite

\* The places of the components that write a region.
Owned(r) == {i \in 1..11 : r \in DOMAIN Writes[Ownership[i]]}

LEMMA OwnersOwn ==
  ASSUME NEW T, NEW r
  PROVE  Owners(T, r) = {i \in Owned(r) : Ownership[i] \in T}
BY Positions DEF Owned, Owners

\* What one, two or three owners in order leave in a region.
Under1(T, r, b) == IF b \in T THEN Writes[b][r] ELSE Stock[r]
Under2(T, r, b, c) == IF c \in T THEN Writes[c][r] ELSE Under1(T, r, b)
Under3(T, r, b, c, d) == IF d \in T THEN Writes[d][r] ELSE Under2(T, r, b, c)

(* A region no component writes, and one with one, two or three owners. *)
LEMMA Unowned ==
  ASSUME NEW T, NEW r \in Regions, Owned(r) = {}
  PROVE  Composite(T)[r] = Stock[r]
BY OwnersOwn DEF Composite

LEMMA OneOwner ==
  ASSUME NEW T, NEW r \in Regions, NEW i \in 1..11, Owned(r) = {i}
  PROVE  Composite(T)[r] = Under1(T, r, Ownership[i])
<1>1. CASE Ownership[i] \in T
  BY <1>1, OwnersOwn, LastOwner DEF Under1
<1>2. CASE Ownership[i] \notin T
  BY <1>2, OwnersOwn DEF Composite, Under1
<1> QED  BY <1>1, <1>2

LEMMA TwoOwners ==
  ASSUME NEW T, NEW r \in Regions, NEW i \in 1..11, NEW j \in 1..11, i < j, Owned(r) = {i, j}
  PROVE  Composite(T)[r] = Under2(T, r, Ownership[i], Ownership[j])
<1>1. CASE Ownership[j] \in T
  BY <1>1, OwnersOwn, LastOwner DEF Under2
<1>2. CASE Ownership[j] \notin T /\ Ownership[i] \in T
  BY <1>2, OwnersOwn, LastOwner DEF Under2, Under1
<1>3. CASE Ownership[j] \notin T /\ Ownership[i] \notin T
  BY <1>3, OwnersOwn DEF Composite, Under2, Under1
<1> QED  BY <1>1, <1>2, <1>3

LEMMA ThreeOwners ==
  ASSUME NEW T, NEW r \in Regions, NEW i \in 1..11, NEW j \in 1..11, NEW k \in 1..11,
         i < j, j < k, Owned(r) = {i, j, k}
  PROVE  Composite(T)[r] = Under3(T, r, Ownership[i], Ownership[j], Ownership[k])
<1>1. CASE Ownership[k] \in T
  BY <1>1, OwnersOwn, LastOwner DEF Under3
<1>2. CASE Ownership[k] \notin T /\ Ownership[j] \in T
  BY <1>2, OwnersOwn, LastOwner DEF Under3, Under2
<1>3. CASE Ownership[k] \notin T /\ Ownership[j] \notin T /\ Ownership[i] \in T
  BY <1>3, OwnersOwn, LastOwner DEF Under3, Under2, Under1
<1>4. CASE Ownership[k] \notin T /\ Ownership[j] \notin T /\ Ownership[i] \notin T
  BY <1>4, OwnersOwn DEF Composite, Under3, Under2, Under1
<1> QED  BY <1>1, <1>2, <1>3, <1>4

(* Who writes each region. *)
LEMMA Shares ==
  /\ \A r \in {"cutNative", "fanPtr", "airNative", "avcs",
               "frontNative", "o2Native", "purgeNative"} : Owned(r) = {}
  /\ \A r \in {"boostFlash", "ebcs", "overboost"} : Owned(r) = {1}
  /\ Owned("mapScale") = {1, 2}
  /\ Owned("limiterPtr") = {1, 8}
  /\ Owned("boostTune") = {1, 9, 10}
  /\ Owned("mapLowCel") = {2}
  /\ \A r \in {"rotFlash", "timingPtr"} : Owned(r) = {3}
  /\ \A r \in {"sdFlash", "airHelper", "loadFallback", "mafCode"} : Owned(r) = {4}
  /\ Owned("sdLowVe") = {4, 9}
  /\ Owned("sdMapMin") = {4, 9, 10}
  /\ \A r \in {"wbFlash", "bank1Entry", "bank1Dtc", "o2Terms"} : Owned(r) = {5}
  /\ \A r \in {"signature", "frontEntry", "bank2Entry", "pumpPtr", "sharedDtc"} : Owned(r) = {5, 6}
  /\ Owned("frontFlash") = {6}
  /\ Owned("purgeCode") = {7}
  /\ \A r \in {"fsFlash", "olPtr", "avcsInitPtr"} : Owned(r) = {8}
  /\ Owned("leanTune") = {8, 10}
  /\ \A r \in {"tables", "marker"} : Owned(r) = {9, 10}
  /\ Owned("avls") = {11}
<1> USE Positions DEF Owned, Writes, BoostWrites, OmniWrites, RotIdleWrites, SdWrites, WidebandWrites,
           FrontWrites, PurgeWrites, FuelingWrites, Cal1Writes, Cal2Writes, AvlsWrites
<1>1. \A r \in {"cutNative", "fanPtr", "airNative", "avcs",
                "frontNative", "o2Native", "purgeNative"} : Owned(r) = {}
  OBVIOUS
<1>2. \A r \in {"boostFlash", "ebcs", "overboost"} : Owned(r) = {1}
  OBVIOUS
<1>3. Owned("mapScale") = {1, 2}
  OBVIOUS
<1>4. Owned("limiterPtr") = {1, 8}
  OBVIOUS
<1>5. Owned("boostTune") = {1, 9, 10}
  OBVIOUS
<1>6. Owned("mapLowCel") = {2}
  OBVIOUS
<1>7. \A r \in {"rotFlash", "timingPtr"} : Owned(r) = {3}
  OBVIOUS
<1>8. \A r \in {"sdFlash", "airHelper", "loadFallback", "mafCode"} : Owned(r) = {4}
  OBVIOUS
<1>9. Owned("sdLowVe") = {4, 9}
  OBVIOUS
<1>10. Owned("sdMapMin") = {4, 9, 10}
  OBVIOUS
<1>11. \A r \in {"wbFlash", "bank1Entry", "bank1Dtc", "o2Terms"} : Owned(r) = {5}
  OBVIOUS
<1>12. \A r \in {"signature", "frontEntry", "bank2Entry", "pumpPtr", "sharedDtc"} : Owned(r) = {5, 6}
  OBVIOUS
<1>13. Owned("frontFlash") = {6}
  OBVIOUS
<1>14. Owned("purgeCode") = {7}
  OBVIOUS
<1>15. \A r \in {"fsFlash", "olPtr", "avcsInitPtr"} : Owned(r) = {8}
  OBVIOUS
<1>16. Owned("leanTune") = {8, 10}
  OBVIOUS
<1>17. \A r \in {"tables", "marker"} : Owned(r) = {9, 10}
  OBVIOUS
<1>18. Owned("avls") = {11}
  OBVIOUS
<1> QED  BY <1>1, <1>2, <1>3, <1>4, <1>5, <1>6, <1>7, <1>8, <1>9, <1>10, <1>11, <1>12, <1>13, <1>14,
            <1>15, <1>16, <1>17, <1>18

(* Each region of a composite by its owners. *)
LEMMA Layers ==
  ASSUME NEW T
  PROVE  /\ \A r \in {"cutNative", "fanPtr", "airNative", "avcs",
                      "frontNative", "o2Native", "purgeNative"} :
                Composite(T)[r] = Stock[r]
         /\ \A r \in {"boostFlash", "ebcs", "overboost"} :
                Composite(T)[r] = Under1(T, r, "boost")
         /\ Composite(T)["mapScale"] = Under2(T, "mapScale", "boost", "omni")
         /\ Composite(T)["limiterPtr"] = Under2(T, "limiterPtr", "boost", "fueling")
         /\ Composite(T)["boostTune"] = Under3(T, "boostTune", "boost", "cal1", "cal2")
         /\ Composite(T)["mapLowCel"] = Under1(T, "mapLowCel", "omni")
         /\ \A r \in {"rotFlash", "timingPtr"} :
                Composite(T)[r] = Under1(T, r, "rotIdle")
         /\ \A r \in {"sdFlash", "airHelper", "loadFallback", "mafCode"} :
                Composite(T)[r] = Under1(T, r, "sd")
         /\ Composite(T)["sdLowVe"] = Under2(T, "sdLowVe", "sd", "cal1")
         /\ Composite(T)["sdMapMin"] = Under3(T, "sdMapMin", "sd", "cal1", "cal2")
         /\ \A r \in {"wbFlash", "bank1Entry", "bank1Dtc", "o2Terms"} :
                Composite(T)[r] = Under1(T, r, "wideband")
         /\ \A r \in {"signature", "frontEntry", "bank2Entry", "pumpPtr", "sharedDtc"} :
                Composite(T)[r] = Under2(T, r, "wideband", "front")
         /\ Composite(T)["frontFlash"] = Under1(T, "frontFlash", "front")
         /\ Composite(T)["purgeCode"] = Under1(T, "purgeCode", "purge")
         /\ \A r \in {"fsFlash", "olPtr", "avcsInitPtr"} :
                Composite(T)[r] = Under1(T, r, "fueling")
         /\ Composite(T)["leanTune"] = Under2(T, "leanTune", "fueling", "cal2")
         /\ \A r \in {"tables", "marker"} :
                Composite(T)[r] = Under2(T, r, "cal1", "cal2")
         /\ Composite(T)["avls"] = Under1(T, "avls", "avls")
<1>1. \A r \in {"cutNative", "fanPtr", "airNative", "avcs",
                "frontNative", "o2Native", "purgeNative"} :
       Composite(T)[r] = Stock[r]
  BY Shares, Positions, Unowned DEF Regions, Free, Native
<1>2. \A r \in {"boostFlash", "ebcs", "overboost"} :
       Composite(T)[r] = Under1(T, r, "boost")
  BY Shares, Positions, OneOwner DEF Regions, Free, Native
<1>3. Composite(T)["mapScale"] = Under2(T, "mapScale", "boost", "omni")
  BY Shares, Positions, TwoOwners DEF Regions, Free, Native
<1>4. Composite(T)["limiterPtr"] = Under2(T, "limiterPtr", "boost", "fueling")
  BY Shares, Positions, TwoOwners DEF Regions, Free, Native
<1>5. Composite(T)["boostTune"] = Under3(T, "boostTune", "boost", "cal1", "cal2")
  <2>1. /\ Owned("boostTune") = {1, 9, 10} /\ "boostTune" \in Regions
        /\ Ownership[1] = "boost" /\ Ownership[9] = "cal1" /\ Ownership[10] = "cal2"
    BY Positions, Shares DEF Regions, Free
  <2>2. 1 \in 1..11 /\ 9 \in 1..11 /\ 10 \in 1..11 /\ 1 < 9 /\ 9 < 10
    OBVIOUS
  <2> QED  BY <2>1, <2>2, ThreeOwners
<1>6. Composite(T)["mapLowCel"] = Under1(T, "mapLowCel", "omni")
  BY Shares, Positions, OneOwner DEF Regions, Free, Native
<1>7. \A r \in {"rotFlash", "timingPtr"} :
       Composite(T)[r] = Under1(T, r, "rotIdle")
  BY Shares, Positions, OneOwner DEF Regions, Free, Native
<1>8. \A r \in {"sdFlash", "airHelper", "loadFallback", "mafCode"} :
       Composite(T)[r] = Under1(T, r, "sd")
  BY Shares, Positions, OneOwner DEF Regions, Free, Native
<1>9. Composite(T)["sdLowVe"] = Under2(T, "sdLowVe", "sd", "cal1")
  BY Shares, Positions, TwoOwners DEF Regions, Free, Native
<1>10. Composite(T)["sdMapMin"] = Under3(T, "sdMapMin", "sd", "cal1", "cal2")
  <2>1. /\ Owned("sdMapMin") = {4, 9, 10} /\ "sdMapMin" \in Regions
        /\ Ownership[4] = "sd" /\ Ownership[9] = "cal1" /\ Ownership[10] = "cal2"
    BY Positions, Shares DEF Regions, Free
  <2>2. 4 \in 1..11 /\ 9 \in 1..11 /\ 10 \in 1..11 /\ 4 < 9 /\ 9 < 10
    OBVIOUS
  <2> QED  BY <2>1, <2>2, ThreeOwners
<1>11. \A r \in {"wbFlash", "bank1Entry", "bank1Dtc", "o2Terms"} :
       Composite(T)[r] = Under1(T, r, "wideband")
  BY Shares, Positions, OneOwner DEF Regions, Free, Native
<1>12. \A r \in {"signature", "frontEntry", "bank2Entry", "pumpPtr", "sharedDtc"} :
       Composite(T)[r] = Under2(T, r, "wideband", "front")
  BY Shares, Positions, TwoOwners DEF Regions, Free, Native
<1>13. Composite(T)["frontFlash"] = Under1(T, "frontFlash", "front")
  BY Shares, Positions, OneOwner DEF Regions, Free, Native
<1>14. Composite(T)["purgeCode"] = Under1(T, "purgeCode", "purge")
  BY Shares, Positions, OneOwner DEF Regions, Free, Native
<1>15. \A r \in {"fsFlash", "olPtr", "avcsInitPtr"} :
       Composite(T)[r] = Under1(T, r, "fueling")
  BY Shares, Positions, OneOwner DEF Regions, Free, Native
<1>16. Composite(T)["leanTune"] = Under2(T, "leanTune", "fueling", "cal2")
  BY Shares, Positions, TwoOwners DEF Regions, Free, Native
<1>17. \A r \in {"tables", "marker"} :
       Composite(T)[r] = Under2(T, r, "cal1", "cal2")
  BY Shares, Positions, TwoOwners DEF Regions, Free, Native
<1>18. Composite(T)["avls"] = Under1(T, "avls", "avls")
  <2>1. Owned("avls") = {11} /\ Ownership[11] = "avls" /\ "avls" \in Regions /\ 11 \in 1..11
    BY Positions, Shares DEF Regions, Native
  <2> QED  BY <2>1, OneOwner
<1> QED  BY <1>1, <1>2, <1>3, <1>4, <1>5, <1>6, <1>7, <1>8, <1>9, <1>10, <1>11, <1>12, <1>13, <1>14,
            <1>15, <1>16, <1>17, <1>18

(* The values themselves, and what each says of the components applied. *)
LEMMA NeverWritten ==
  ASSUME NEW T
  PROVE  \A r \in {"cutNative", "fanPtr", "airNative", "avcs",
                   "frontNative", "o2Native", "purgeNative"} :
           Composite(T)[r] = "stock"
BY Layers DEF Stock, Regions, Free, Native

LEMMA BoostValues ==
  ASSUME NEW T
  PROVE  /\ Composite(T).boostFlash = IF "boost" \in T THEN "boost" ELSE "erased"
         /\ Composite(T).ebcs = IF "boost" \in T THEN "off" ELSE "erased"
         /\ Composite(T).overboost = IF "boost" \in T THEN "on" ELSE "erased"
         /\ Composite(T).mapScale = IF "omni" \in T THEN "omni"
                                    ELSE IF "boost" \in T THEN "donor" ELSE "stock"
         /\ Composite(T).limiterPtr = IF "fueling" \in T THEN "lean"
                                      ELSE IF "boost" \in T THEN "overboost" ELSE "stock"
         /\ Composite(T).boostTune = IF "cal1" \in T \/ "cal2" \in T THEN "tuned"
                                     ELSE IF "boost" \in T THEN "default" ELSE "erased"
         /\ Composite(T).mapLowCel = IF "omni" \in T THEN "omni" ELSE "stock"
<1>1. /\ Composite(T).boostFlash = IF "boost" \in T THEN "boost" ELSE "erased"
      /\ Composite(T).ebcs = IF "boost" \in T THEN "off" ELSE "erased"
      /\ Composite(T).overboost = IF "boost" \in T THEN "on" ELSE "erased"
  BY Layers DEF Under1, Writes, BoostWrites, Stock, Regions, Free, Native
<1>2. Composite(T).mapScale = IF "omni" \in T THEN "omni" ELSE IF "boost" \in T THEN "donor" ELSE "stock"
  BY Layers DEF Under1, Under2, Writes, BoostWrites, OmniWrites, Stock, Regions, Free, Native
<1>3. Composite(T).limiterPtr = IF "fueling" \in T THEN "lean"
                                ELSE IF "boost" \in T THEN "overboost" ELSE "stock"
  BY Layers DEF Under1, Under2, Writes, BoostWrites, FuelingWrites, Stock, Regions, Free, Native
<1>4. Composite(T).boostTune = IF "cal1" \in T \/ "cal2" \in T THEN "tuned"
                               ELSE IF "boost" \in T THEN "default" ELSE "erased"
  BY Layers DEF Under1, Under2, Under3, Writes, BoostWrites, Cal1Writes, Cal2Writes, Stock, Regions,
                Free, Native
<1>5. Composite(T).mapLowCel = IF "omni" \in T THEN "omni" ELSE "stock"
  BY Layers DEF Under1, Writes, OmniWrites, Stock, Regions, Free, Native
<1> QED  BY <1>1, <1>2, <1>3, <1>4, <1>5

LEMMA AirValues ==
  ASSUME NEW T
  PROVE  /\ Composite(T).rotFlash = IF "rotIdle" \in T THEN "rotIdle" ELSE "erased"
         /\ Composite(T).timingPtr = IF "rotIdle" \in T THEN "rotIdle" ELSE "stock"
         /\ Composite(T).sdFlash = IF "sd" \in T THEN "sd" ELSE "erased"
         /\ Composite(T).airHelper = IF "sd" \in T THEN "sd" ELSE "stock"
         /\ Composite(T).loadFallback = IF "sd" \in T THEN "zero" ELSE "stock"
         /\ Composite(T).mafCode = IF "sd" \in T THEN "bypass" ELSE "stock"
         /\ Composite(T).sdLowVe = IF "cal1" \in T THEN "idle"
                                   ELSE IF "sd" \in T THEN "default" ELSE "erased"
         /\ Composite(T).sdMapMin = IF "cal1" \in T \/ "cal2" \in T THEN "tuned"
                                    ELSE IF "sd" \in T THEN "default" ELSE "erased"
<1>1. /\ Composite(T).rotFlash = IF "rotIdle" \in T THEN "rotIdle" ELSE "erased"
      /\ Composite(T).timingPtr = IF "rotIdle" \in T THEN "rotIdle" ELSE "stock"
  BY Layers DEF Under1, Writes, RotIdleWrites, Stock, Regions, Free, Native
<1>2. /\ Composite(T).sdFlash = IF "sd" \in T THEN "sd" ELSE "erased"
      /\ Composite(T).airHelper = IF "sd" \in T THEN "sd" ELSE "stock"
      /\ Composite(T).loadFallback = IF "sd" \in T THEN "zero" ELSE "stock"
      /\ Composite(T).mafCode = IF "sd" \in T THEN "bypass" ELSE "stock"
  BY Layers DEF Under1, Writes, SdWrites, Stock, Regions, Free, Native
<1>3. Composite(T).sdLowVe = IF "cal1" \in T THEN "idle" ELSE IF "sd" \in T THEN "default" ELSE "erased"
  BY Layers DEF Under1, Under2, Writes, SdWrites, Cal1Writes, Stock, Regions, Free, Native
<1>4. Composite(T).sdMapMin = IF "cal1" \in T \/ "cal2" \in T THEN "tuned"
                              ELSE IF "sd" \in T THEN "default" ELSE "erased"
  BY Layers DEF Under1, Under2, Under3, Writes, SdWrites, Cal1Writes, Cal2Writes, Stock, Regions,
                Free, Native
<1> QED  BY <1>1, <1>2, <1>3, <1>4

LEMMA SensorValues ==
  ASSUME NEW T
  PROVE  /\ Composite(T).wbFlash = IF "wideband" \in T THEN "wideband" ELSE "erased"
         /\ Composite(T).bank1Entry = IF "wideband" \in T THEN "wideband" ELSE "stock"
         /\ Composite(T).bank1Dtc = IF "wideband" \in T THEN "off" ELSE "stock"
         /\ Composite(T).o2Terms = IF "wideband" \in T THEN "neutral" ELSE "stock"
         /\ Composite(T).signature = IF "wideband" \in T \/ "front" \in T THEN "one" ELSE "erased"
         /\ Composite(T).frontEntry = IF "front" \in T THEN "mirror"
                                      ELSE IF "wideband" \in T THEN "wideband" ELSE "stock"
         /\ Composite(T).bank2Entry = IF "front" \in T THEN "mirror"
                                      ELSE IF "wideband" \in T THEN "wideband" ELSE "stock"
         /\ Composite(T).pumpPtr = IF "front" \in T THEN "mirror"
                                   ELSE IF "wideband" \in T THEN "noop" ELSE "stock"
         /\ Composite(T).sharedDtc = IF "wideband" \in T \/ "front" \in T THEN "off" ELSE "stock"
         /\ Composite(T).frontFlash = IF "front" \in T THEN "mirror" ELSE "erased"
<1>1. /\ Composite(T).wbFlash = IF "wideband" \in T THEN "wideband" ELSE "erased"
      /\ Composite(T).bank1Entry = IF "wideband" \in T THEN "wideband" ELSE "stock"
      /\ Composite(T).bank1Dtc = IF "wideband" \in T THEN "off" ELSE "stock"
      /\ Composite(T).o2Terms = IF "wideband" \in T THEN "neutral" ELSE "stock"
  BY Layers DEF Under1, Writes, WidebandWrites, Stock, Regions, Free, Native
<1>2. /\ Composite(T).signature = IF "wideband" \in T \/ "front" \in T THEN "one" ELSE "erased"
      /\ Composite(T).frontEntry = IF "front" \in T THEN "mirror"
                                   ELSE IF "wideband" \in T THEN "wideband" ELSE "stock"
      /\ Composite(T).bank2Entry = IF "front" \in T THEN "mirror"
                                   ELSE IF "wideband" \in T THEN "wideband" ELSE "stock"
      /\ Composite(T).pumpPtr = IF "front" \in T THEN "mirror"
                                ELSE IF "wideband" \in T THEN "noop" ELSE "stock"
      /\ Composite(T).sharedDtc = IF "wideband" \in T \/ "front" \in T THEN "off" ELSE "stock"
  BY Layers DEF Under1, Under2, Writes, WidebandWrites, FrontWrites, Stock, Regions, Free, Native
<1>3. Composite(T).frontFlash = IF "front" \in T THEN "mirror" ELSE "erased"
  BY Layers DEF Under1, Writes, FrontWrites, Stock, Regions, Free, Native
<1> QED  BY <1>1, <1>2, <1>3

LEMMA GuardValues ==
  ASSUME NEW T
  PROVE  /\ Composite(T).purgeCode = IF "purge" \in T THEN "deleted" ELSE "stock"
         /\ Composite(T).fsFlash = IF "fueling" \in T THEN "guards" ELSE "erased"
         /\ Composite(T).olPtr = IF "fueling" \in T THEN "pressure" ELSE "stock"
         /\ Composite(T).avcsInitPtr = IF "fueling" \in T THEN "lean" ELSE "stock"
         /\ Composite(T).leanTune = IF "cal2" \in T THEN "second"
                                    ELSE IF "fueling" \in T THEN "default" ELSE "erased"
         /\ Composite(T).tables = IF "cal2" \in T THEN "second"
                                  ELSE IF "cal1" \in T THEN "first" ELSE "stock"
         /\ Composite(T).marker = IF "cal2" \in T THEN "second"
                                  ELSE IF "cal1" \in T THEN "first" ELSE "stock"
         /\ Composite(T).avls = IF "avls" \in T THEN "fixed" ELSE "stock"
<1>1. Composite(T).purgeCode = IF "purge" \in T THEN "deleted" ELSE "stock"
  BY Layers DEF Under1, Writes, PurgeWrites, Stock, Regions, Free, Native
<1>2. /\ Composite(T).fsFlash = IF "fueling" \in T THEN "guards" ELSE "erased"
      /\ Composite(T).olPtr = IF "fueling" \in T THEN "pressure" ELSE "stock"
      /\ Composite(T).avcsInitPtr = IF "fueling" \in T THEN "lean" ELSE "stock"
  BY Layers DEF Under1, Writes, FuelingWrites, Stock, Regions, Free, Native
<1>3. Composite(T).leanTune = IF "cal2" \in T THEN "second"
                              ELSE IF "fueling" \in T THEN "default" ELSE "erased"
  BY Layers DEF Under1, Under2, Writes, FuelingWrites, Cal2Writes, Stock, Regions, Free, Native
<1>4. /\ Composite(T).tables = IF "cal2" \in T THEN "second"
                               ELSE IF "cal1" \in T THEN "first" ELSE "stock"
      /\ Composite(T).marker = IF "cal2" \in T THEN "second"
                               ELSE IF "cal1" \in T THEN "first" ELSE "stock"
  BY Layers DEF Under1, Under2, Writes, Cal1Writes, Cal2Writes, Stock, Regions, Free, Native
<1>5. Composite(T).avls = IF "avls" \in T THEN "fixed" ELSE "stock"
  BY Layers DEF Under1, Writes, AvlsWrites, Stock, Regions, Free, Native
<1> QED  BY <1>1, <1>2, <1>3, <1>4, <1>5

\* An image holds all that f asks for.
Meets(f, image) == \A r \in DOMAIN f : image[r] = f[r]
LEMMA MeetsBoth ==
  ASSUME NEW f, NEW g, NEW image, DOMAIN f \cap DOMAIN g = {}
  PROVE  /\ Meets(Both(f, g), image) <=> Meets(f, image) /\ Meets(g, image)
         /\ DOMAIN Both(f, g) = DOMAIN f \cup DOMAIN g
<1>1. DOMAIN Both(f, g) = DOMAIN f \cup DOMAIN g
  BY DEF Both
<1>2. \A r \in DOMAIN f : Both(f, g)[r] = f[r]
  BY DEF Both
<1>3. \A r \in DOMAIN g : Both(f, g)[r] = g[r]
  BY DEF Both
<1> QED  BY <1>1, <1>2, <1>3 DEF Meets

(* The demands that several components share, and then each component's. *)
LEMMA LayeredDemands ==
  ASSUME NEW image
  PROVE  /\ (Accepts("fueling", image) <=>
            /\ image.signature = "one" /\ image.limiterPtr = "overboost" /\ image.frontEntry = "wideband"
            /\ image.pumpPtr = "noop" /\ image.frontNative = "stock" /\ image.avcs = "stock"
            /\ image.olPtr = "stock" /\ image.avcsInitPtr = "stock" /\ image.fsFlash = "erased"
            /\ image.leanTune = "erased")
         /\ (Accepts("cal1", image) <=>
            /\ image.ebcs = "off" /\ image.overboost = "on" /\ image.signature = "one"
            /\ image.tables = "stock" /\ image.airNative = "stock" /\ image.sdLowVe = "default")
         /\ (Accepts("cal2", image) <=>
            /\ image.ebcs = "off" /\ image.overboost = "on" /\ image.signature = "one"
            /\ image.tables = "stock" /\ image.airNative = "stock")
<1>0. \A c \in Components : Accepts(c, image) <=> Meets(Needs[c], image)
  BY DEF Accepts, Meets
<1> DEFINE stocks == IsStock({"avcs", "olPtr", "avcsInitPtr"})
           frees == IsErased({"fsFlash", "leanTune"})
           below == [signature |-> "one", limiterPtr |-> "overboost"]
<1>1. Accepts("fueling", image) <=> Meets(FuelingNeeds, image)
  BY <1>0 DEF Needs, Components
<1>2. /\ DOMAIN stocks = {"avcs", "olPtr", "avcsInitPtr"} /\ DOMAIN frees = {"fsFlash", "leanTune"}
      /\ DOMAIN below = {"signature", "limiterPtr"}
      /\ DOMAIN ScratchReclaimed = {"frontEntry", "pumpPtr", "frontNative"}
  BY DEF IsStock, IsErased, ScratchReclaimed
<1>3. /\ Meets(stocks, image) <=> image.avcs = "stock" /\ image.olPtr = "stock"
                                  /\ image.avcsInitPtr = "stock"
      /\ Meets(frees, image) <=> image.fsFlash = "erased" /\ image.leanTune = "erased"
      /\ Meets(below, image) <=> image.signature = "one" /\ image.limiterPtr = "overboost"
      /\ Meets(ScratchReclaimed, image) <=>
           image.frontEntry = "wideband" /\ image.pumpPtr = "noop" /\ image.frontNative = "stock"
  BY DEF IsStock, IsErased, ScratchReclaimed, Meets
<1>4. FuelingNeeds = Both(below, Both(ScratchReclaimed, Both(stocks, frees)))
  BY DEF FuelingNeeds
<1> HIDE DEF stocks, frees, below
<1>5. /\ DOMAIN stocks \cap DOMAIN frees = {}
      /\ DOMAIN ScratchReclaimed \cap (DOMAIN stocks \cup DOMAIN frees) = {}
      /\ DOMAIN below \cap (DOMAIN ScratchReclaimed \cup (DOMAIN stocks \cup DOMAIN frees)) = {}
  BY <1>2
<1> DEFINE own == Both(stocks, frees)
           hooks == Both(ScratchReclaimed, own)
<1>6. /\ Meets(own, image) <=> Meets(stocks, image) /\ Meets(frees, image)
      /\ DOMAIN own = DOMAIN stocks \cup DOMAIN frees
  BY <1>5, MeetsBoth
<1>7. FuelingNeeds = Both(below, hooks)
  BY <1>4
<1> HIDE DEF own
<1>8. /\ Meets(hooks, image) <=> Meets(ScratchReclaimed, image) /\ Meets(own, image)
      /\ DOMAIN hooks = DOMAIN ScratchReclaimed \cup DOMAIN own
  BY <1>5, <1>6, MeetsBoth
<1> HIDE DEF hooks
<1>9. Meets(FuelingNeeds, image) <=> Meets(below, image) /\ Meets(hooks, image)
  BY <1>5, <1>6, <1>7, <1>8, MeetsBoth
<1> DEFINE tuned == [ebcs |-> "off", overboost |-> "on", signature |-> "one"]
           plain == IsStock({"tables", "airNative"})
           fresh == [sdLowVe |-> "default"]
<1>10. /\ Meets(tuned, image) <=> image.ebcs = "off" /\ image.overboost = "on" /\ image.signature = "one"
       /\ Meets(plain, image) <=> image.tables = "stock" /\ image.airNative = "stock"
       /\ Meets(fresh, image) <=> image.sdLowVe = "default"
       /\ DOMAIN tuned \cap DOMAIN plain = {}
       /\ (DOMAIN tuned \cup DOMAIN plain) \cap DOMAIN fresh = {}
  BY DEF IsStock, Meets
<1>11. CalNeeds = Both(tuned, plain) /\ Cal1Needs = Both(CalNeeds, fresh)
  BY DEF CalNeeds, Cal1Needs
<1> HIDE DEF tuned, plain, fresh
<1>12. Meets(CalNeeds, image) <=> Meets(tuned, image) /\ Meets(plain, image)
  BY <1>10, <1>11, MeetsBoth
<1>13. DOMAIN CalNeeds = DOMAIN tuned \cup DOMAIN plain
  BY <1>10, <1>11, MeetsBoth
<1>14. Meets(Cal1Needs, image) <=> Meets(CalNeeds, image) /\ Meets(fresh, image)
  BY <1>10, <1>11, <1>13, MeetsBoth
<1>15. /\ Accepts("cal1", image) <=> Meets(Cal1Needs, image)
       /\ Accepts("cal2", image) <=> Meets(CalNeeds, image)
  BY <1>0 DEF Needs, Components, Cal2Needs
<1> QED BY <1>1, <1>3, <1>6, <1>8, <1>9, <1>10, <1>12, <1>14, <1>15

LEMMA Demands ==
  ASSUME NEW image
  PROVE  /\ (Accepts("boost", image) <=>
            /\ image.boostFlash = "erased" /\ image.boostTune = "erased" /\ image.ebcs = "erased"
            /\ image.overboost = "erased" /\ image.cutNative = "stock" /\ image.mapScale = "stock"
            /\ image.fanPtr = "stock" /\ image.limiterPtr = "stock")
         /\ (Accepts("omni", image) <=>
            /\ image.mapScale = "donor" /\ image.mapLowCel = "stock")
         /\ (Accepts("rotIdle", image) <=>
            /\ image.rotFlash = "erased" /\ image.timingPtr = "stock")
         /\ (Accepts("sd", image) <=>
            /\ image.sdFlash = "erased" /\ image.sdMapMin = "erased" /\ image.sdLowVe = "erased"
            /\ image.airNative = "stock" /\ image.airHelper = "stock" /\ image.loadFallback = "stock"
            /\ image.mafCode = "stock")
         /\ (Accepts("wideband", image) <=>
            /\ image.avcs = "stock" /\ image.fanPtr = "stock" /\ image.o2Native = "stock"
            /\ image.o2Terms = "stock" /\ image.frontEntry = "stock" /\ image.bank1Entry = "stock"
            /\ image.bank2Entry = "stock" /\ image.pumpPtr = "stock" /\ image.bank1Dtc = "stock"
            /\ image.sharedDtc = "stock" /\ image.wbFlash = "erased" /\ image.signature = "erased")
         /\ (Accepts("front", image) <=>
            /\ image.avcs = "stock" /\ image.avcsInitPtr = "stock" /\ image.frontEntry = "stock"
            /\ image.bank2Entry = "stock" /\ image.pumpPtr = "stock" /\ image.sharedDtc = "stock"
            /\ image.signature = "erased" /\ image.frontFlash = "erased")
         /\ (Accepts("purge", image) <=>
            /\ image.purgeCode = "stock" /\ image.purgeNative = "stock")
         /\ (Accepts("fueling", image) <=>
            /\ image.signature = "one" /\ image.limiterPtr = "overboost" /\ image.frontEntry = "wideband"
            /\ image.pumpPtr = "noop" /\ image.frontNative = "stock" /\ image.avcs = "stock"
            /\ image.olPtr = "stock" /\ image.avcsInitPtr = "stock" /\ image.fsFlash = "erased"
            /\ image.leanTune = "erased")
         /\ (Accepts("cal1", image) <=>
            /\ image.ebcs = "off" /\ image.overboost = "on" /\ image.signature = "one"
            /\ image.tables = "stock" /\ image.airNative = "stock" /\ image.sdLowVe = "default")
         /\ (Accepts("cal2", image) <=>
            /\ image.ebcs = "off" /\ image.overboost = "on" /\ image.signature = "one"
            /\ image.tables = "stock" /\ image.airNative = "stock")
         /\ Accepts("avls", image)
<1> USE DEF Accepts, Needs, Both, IsErased, IsStock
<1>1. Accepts("boost", image) <=>
       /\ image.boostFlash = "erased" /\ image.boostTune = "erased" /\ image.ebcs = "erased"
       /\ image.overboost = "erased" /\ image.cutNative = "stock" /\ image.mapScale = "stock"
       /\ image.fanPtr = "stock" /\ image.limiterPtr = "stock"
  BY DEF BoostNeeds
<1>2. Accepts("omni", image) <=>
       /\ image.mapScale = "donor" /\ image.mapLowCel = "stock"
  BY DEF OmniNeeds
<1>3. Accepts("rotIdle", image) <=>
       /\ image.rotFlash = "erased" /\ image.timingPtr = "stock"
  BY DEF RotIdleNeeds
<1>4. Accepts("sd", image) <=>
       /\ image.sdFlash = "erased" /\ image.sdMapMin = "erased" /\ image.sdLowVe = "erased"
       /\ image.airNative = "stock" /\ image.airHelper = "stock" /\ image.loadFallback = "stock"
       /\ image.mafCode = "stock"
  BY DEF SdNeeds
<1>5. Accepts("wideband", image) <=>
       /\ image.avcs = "stock" /\ image.fanPtr = "stock" /\ image.o2Native = "stock"
       /\ image.o2Terms = "stock" /\ image.frontEntry = "stock" /\ image.bank1Entry = "stock"
       /\ image.bank2Entry = "stock" /\ image.pumpPtr = "stock" /\ image.bank1Dtc = "stock"
       /\ image.sharedDtc = "stock" /\ image.wbFlash = "erased" /\ image.signature = "erased"
  BY DEF WidebandNeeds
<1>6. Accepts("front", image) <=>
       /\ image.avcs = "stock" /\ image.avcsInitPtr = "stock" /\ image.frontEntry = "stock"
       /\ image.bank2Entry = "stock" /\ image.pumpPtr = "stock" /\ image.sharedDtc = "stock"
       /\ image.signature = "erased" /\ image.frontFlash = "erased"
  BY DEF FrontNeeds
<1>7. Accepts("purge", image) <=>
       /\ image.purgeCode = "stock" /\ image.purgeNative = "stock"
  BY DEF PurgeNeeds
<1>8. Accepts("fueling", image) <=>
       /\ image.signature = "one" /\ image.limiterPtr = "overboost" /\ image.frontEntry = "wideband"
       /\ image.pumpPtr = "noop" /\ image.frontNative = "stock" /\ image.avcs = "stock"
       /\ image.olPtr = "stock" /\ image.avcsInitPtr = "stock" /\ image.fsFlash = "erased"
       /\ image.leanTune = "erased"
  BY LayeredDemands
<1>9. Accepts("cal1", image) <=>
       /\ image.ebcs = "off" /\ image.overboost = "on" /\ image.signature = "one"
       /\ image.tables = "stock" /\ image.airNative = "stock" /\ image.sdLowVe = "default"
  BY LayeredDemands
<1>10. Accepts("cal2", image) <=>
       /\ image.ebcs = "off" /\ image.overboost = "on" /\ image.signature = "one"
       /\ image.tables = "stock" /\ image.airNative = "stock"
  BY LayeredDemands
<1>11. Accepts("avls", image)
  BY DEF AvlsNeeds
<1> QED  BY <1>1, <1>2, <1>3, <1>4, <1>5, <1>6, <1>7, <1>8, <1>9, <1>10, <1>11

\* The components that have to be in an image already, and those that must not.
Requires == [boost |-> {}, omni |-> {"boost"}, rotIdle |-> {}, sd |-> {}, wideband |-> {},
             front |-> {}, purge |-> {}, fueling |-> {"boost", "wideband"},
             cal1 |-> {"boost", "sd"}, cal2 |-> {"boost"}, avls |-> {}]
Excludes == [boost |-> {"boost", "omni", "fueling", "cal1", "cal2"}, omni |-> {"omni"},
             rotIdle |-> {"rotIdle"}, sd |-> {"sd", "cal1", "cal2"},
             wideband |-> {"wideband", "front"}, front |-> {"wideband", "front", "fueling"},
             purge |-> {"purge"}, fueling |-> {"front", "fueling", "cal2"},
             cal1 |-> {"cal1", "cal2"}, cal2 |-> {"cal1", "cal2"}, avls |-> {}]
FitsIn(c, T) == /\ Requires[c] \subseteq T
                /\ Excludes[c] \cap T = {}
                /\ c \in {"cal1", "cal2"} => T \cap {"wideband", "front"} # {}
ImageOfParts(T, known) == IF "sd" \in T THEN Tabled(Composite(T), known) ELSE Composite(T)

(* Only one region depends on the seed. *)
LEMMA ImageAt ==
  ASSUME NEW T, NEW known \in BOOLEAN
  PROVE  /\ ImageOfParts(T, known) \in [Regions -> {Composite(T)[r] : r \in Regions} \cup {"foreign"}]
         /\ \A r \in Regions \ {"sdLowVe"} : ImageOfParts(T, known)[r] = Composite(T)[r]
         /\ ImageOfParts(T, known).sdLowVe
              = IF "sd" \in T /\ ~known THEN "foreign" ELSE Composite(T).sdLowVe
<1>1. Composite(T) = [r \in Regions |-> Composite(T)[r]]
  BY DEF Composite
<1>2. "sdLowVe" \in Regions
  BY DEF Regions, Free
<1> DEFINE comp == Composite(T)
<1> HIDE DEF comp
<1>3. /\ comp = [r \in Regions |-> comp[r]]
      /\ ImageOfParts(T, known) = IF "sd" \in T THEN Tabled(comp, known) ELSE comp
  BY <1>1 DEF comp, ImageOfParts
<1>4. /\ ImageOfParts(T, known) \in [Regions -> {comp[r] : r \in Regions} \cup {"foreign"}]
      /\ \A r \in Regions \ {"sdLowVe"} : ImageOfParts(T, known)[r] = comp[r]
      /\ ImageOfParts(T, known).sdLowVe = IF "sd" \in T /\ ~known THEN "foreign" ELSE comp.sdLowVe
  BY <1>2, <1>3 DEF Tabled
<1> QED  BY <1>4 DEF comp

(* Where each component fits, spelled out. *)
LEMMA FitsMeans ==
  ASSUME NEW T
  PROVE  /\ FitsIn("boost", T) <=> /\ "boost" \notin T /\ "omni" \notin T /\ "fueling" \notin T
                                   /\ "cal1" \notin T /\ "cal2" \notin T
         /\ FitsIn("omni", T) <=> "boost" \in T /\ "omni" \notin T
         /\ FitsIn("rotIdle", T) <=> "rotIdle" \notin T
         /\ FitsIn("sd", T) <=> "sd" \notin T /\ "cal1" \notin T /\ "cal2" \notin T
         /\ FitsIn("wideband", T) <=> "wideband" \notin T /\ "front" \notin T
         /\ FitsIn("front", T) <=> "wideband" \notin T /\ "front" \notin T /\ "fueling" \notin T
         /\ FitsIn("purge", T) <=> "purge" \notin T
         /\ FitsIn("fueling", T) <=> /\ "boost" \in T /\ "wideband" \in T /\ "front" \notin T
                                     /\ "fueling" \notin T /\ "cal2" \notin T
         /\ FitsIn("cal1", T) <=> /\ "boost" \in T /\ "sd" \in T /\ "cal1" \notin T /\ "cal2" \notin T
                                  /\ "wideband" \in T \/ "front" \in T
         /\ FitsIn("cal2", T) <=> /\ "boost" \in T /\ "cal1" \notin T /\ "cal2" \notin T
                                  /\ "wideband" \in T \/ "front" \in T
         /\ FitsIn("avls", T)
BY DEF FitsIn, Requires, Excludes

(* The guards of a component on a composite image. *)
LEMMA CompositeGuards ==
  ASSUME NEW T, NEW c \in Components
  PROVE  Accepts(c, Composite(T)) <=> FitsIn(c, T)
<1>1. Accepts("boost", Composite(T)) <=> FitsIn("boost", T)
  BY Demands, FitsMeans, NeverWritten, BoostValues
<1>2. Accepts("omni", Composite(T)) <=> FitsIn("omni", T)
  BY Demands, FitsMeans, BoostValues
<1>3. Accepts("rotIdle", Composite(T)) <=> FitsIn("rotIdle", T)
  BY Demands, FitsMeans, AirValues
<1>4. Accepts("sd", Composite(T)) <=> FitsIn("sd", T)
  BY Demands, FitsMeans, NeverWritten, AirValues
<1>5. Accepts("wideband", Composite(T)) <=> FitsIn("wideband", T)
  BY Demands, FitsMeans, NeverWritten, SensorValues
<1>6. Accepts("front", Composite(T)) <=> FitsIn("front", T)
  BY Demands, FitsMeans, NeverWritten, SensorValues, GuardValues
<1>7. Accepts("purge", Composite(T)) <=> FitsIn("purge", T)
  BY Demands, FitsMeans, NeverWritten, GuardValues
<1>8. Accepts("fueling", Composite(T)) <=> FitsIn("fueling", T)
  BY Demands, FitsMeans, NeverWritten, BoostValues, SensorValues, GuardValues
<1>9. Accepts("cal1", Composite(T)) <=> FitsIn("cal1", T)
  BY Demands, FitsMeans, NeverWritten, BoostValues, AirValues, SensorValues, GuardValues
<1>10. Accepts("cal2", Composite(T)) <=> FitsIn("cal2", T)
  BY Demands, FitsMeans, NeverWritten, BoostValues, SensorValues, GuardValues
<1>11. Accepts("avls", Composite(T)) <=> FitsIn("avls", T)
  BY Demands, FitsMeans
<1> QED  BY <1>1, <1>2, <1>3, <1>4, <1>5, <1>6, <1>7, <1>8, <1>9, <1>10, <1>11 DEF Components

(* What the guards of the components mean.  The signature and byte tests   *)
(* with which apply_to_rom opens accept the image of a set T of components *)
(* just when the components it builds on are in T and those it may not     *)
(* meet are not; the first calibration also needs the seed's table.        *)
THEOREM GuardsMean ==
  ASSUME NEW T, NEW known \in BOOLEAN, NEW c \in Components
  PROVE  Accepts(c, ImageOfParts(T, known)) <=> FitsIn(c, T) /\ (c = "cal1" => known)
<1> DEFINE image == ImageOfParts(T, known)
           comp == Composite(T)
<1>1. /\ \A r \in Regions \ {"sdLowVe"} : image[r] = comp[r]
      /\ image.sdLowVe = IF "sd" \in T /\ ~known THEN "foreign" ELSE comp.sdLowVe
  BY ImageAt
<1>2. Accepts(c, comp) <=> FitsIn(c, T)
  BY CompositeGuards
<1>3. /\ comp.sdLowVe = IF "cal1" \in T THEN "idle" ELSE IF "sd" \in T THEN "default" ELSE "erased"
      /\ comp.sdFlash = IF "sd" \in T THEN "sd" ELSE "erased"
  BY AirValues
<1> HIDE DEF image, comp
<1>4. CASE c \notin {"sd", "cal1"}
  <2>1. DOMAIN Needs[c] \subseteq Regions \ {"sdLowVe"}
    BY <1>4 DEF Components, Needs, BoostNeeds, OmniNeeds, RotIdleNeeds, WidebandNeeds, FrontNeeds,
       PurgeNeeds, FuelingNeeds, ScratchReclaimed, Cal2Needs, CalNeeds, AvlsNeeds, Both, IsErased,
       IsStock,
       Regions, Free, Native
  <2>2. Accepts(c, image) <=> Accepts(c, comp)
    BY <1>1, <2>1 DEF Accepts
  <2> QED  BY <1>2, <1>4, <2>2 DEF image
<1>5. CASE c = "sd"
  <2>1. image.sdFlash = comp.sdFlash /\ image.airNative = comp.airNative
        /\ image.airHelper = comp.airHelper
        /\ image.loadFallback = comp.loadFallback /\ image.mafCode = comp.mafCode
        /\ image.sdMapMin = comp.sdMapMin
    BY <1>1 DEF Regions, Free, Native
  <2>2. Accepts("sd", image) <=> Accepts("sd", comp)
    BY <1>1, <1>3, <2>1, Demands
  <2> QED  BY <1>2, <1>5, <2>2 DEF image
<1>6. CASE c = "cal1"
  <2>1. image.ebcs = comp.ebcs /\ image.overboost = comp.overboost /\ image.signature = comp.signature
        /\ image.tables = comp.tables /\ image.airNative = comp.airNative
    BY <1>1 DEF Regions, Free, Native
  <2>2. Accepts("cal1", comp) => "sd" \in T
    BY <1>2, <1>6, FitsMeans
  <2>3. Accepts("cal1", image) <=> Accepts("cal1", comp) /\ known
    BY <1>1, <1>3, <2>1, <2>2, Demands
  <2> QED  BY <1>2, <1>6, <2>3 DEF image
<1> QED  BY <1>4, <1>5, <1>6

(* Components write regions of the image. *)
LEMMA RegionsWritten == \A c \in Components : DOMAIN Writes[c] \subseteq Regions
BY DEF Components, Writes, BoostWrites, OmniWrites, RotIdleWrites, SdWrites, WidebandWrites,
       FrontWrites, PurgeWrites, FuelingWrites, Cal1Writes, Cal2Writes, AvlsWrites, Regions, Free, Native

(* Every component has one place. *)
LEMMA Place ==
  ASSUME NEW c \in Components
  PROVE  \E i \in 1..11 : Ownership[i] = c /\ \A j \in 1..11 : Ownership[j] = c => j = i
BY Positions DEF Components

(* A component that is accepted takes nothing back from a later owner. *)
LEMMA NothingUndone ==
  ASSUME NEW T, NEW i \in 1..11, NEW j \in 1..11, i < j, FitsIn(Ownership[i], T), Ownership[j] \in T,
         NEW r \in Regions
  PROVE  i \notin Owned(r) \/ j \notin Owned(r)
<1> SUFFICES ASSUME i \in Owned(r), j \in Owned(r) PROVE FALSE
  OBVIOUS
<1>1. <<i, j>> \in {<<1, 2>>, <<1, 8>>, <<1, 9>>, <<1, 10>>, <<4, 9>>, <<4, 10>>,
                   <<5, 6>>, <<8, 10>>, <<9, 10>>}
  BY Shares DEF Regions, Free, Native
<1> QED  BY <1>1, Positions, FitsMeans

(* One more component, region by region, and as an image. *)
LEMMA ComposedAt ==
  ASSUME NEW T, NEW c \in Components, FitsIn(c, T), NEW r \in Regions
  PROVE  Composite(T \cup {c})[r] = IF r \in DOMAIN Writes[c] THEN Writes[c][r] ELSE Composite(T)[r]
<1>1. PICK i \in 1..11 : Ownership[i] = c /\ \A j \in 1..11 : Ownership[j] = c => j = i
  BY Place
<1>2. i \in Owned(r) <=> r \in DOMAIN Writes[c]
  BY <1>1 DEF Owned
<1>3. CASE r \in DOMAIN Writes[c]
  <2>1. i \in Owners(T \cup {c}, r)
    BY <1>1, <1>2, <1>3, OwnersOwn
  <2>2. ASSUME NEW j \in Owners(T \cup {c}, r) PROVE j <= i
    <3>1. j \in Owned(r) /\ Ownership[j] \in T \cup {c} /\ j \in 1..11
      BY OwnersOwn DEF Owned
    <3> QED  BY <1>1, <1>2, <1>3, <3>1, NothingUndone
  <2> QED  BY <1>1, <1>3, <2>1, <2>2, LastOwner
<1>4. CASE r \notin DOMAIN Writes[c]
  <2>1. Owners(T \cup {c}, r) = Owners(T, r)
    BY <1>1, <1>2, <1>4, OwnersOwn DEF Owned
  <2> DEFINE top(owners) == IF owners = {} THEN Stock[r]
                            ELSE Writes[Ownership[CHOOSE n \in owners : \A j \in owners : j <= n]][r]
  <2>2. Composite(T)[r] = top(Owners(T, r)) /\ Composite(T \cup {c})[r] = top(Owners(T \cup {c}, r))
    BY DEF Composite
  <2> HIDE DEF top
  <2> QED  BY <1>4, <2>1, <2>2
<1> QED  BY <1>3, <1>4

LEMMA Composed ==
  ASSUME NEW T, NEW c \in Components, FitsIn(c, T)
  PROVE  Composite(T \cup {c}) = Patched(c, Composite(T))
<1> DEFINE old == Composite(T)
           new == Composite(T \cup {c})
<1>1. DOMAIN old = Regions /\ new = [r \in Regions |-> new[r]]
  BY DEF Composite
<1>2. \A r \in Regions : new[r] = IF r \in DOMAIN Writes[c] THEN Writes[c][r] ELSE old[r]
  BY ComposedAt
<1> HIDE DEF old, new
<1>3. DOMAIN Writes[c] \cup DOMAIN old = Regions
  BY <1>1, RegionsWritten
<1>4. Patched(c, old) = [r \in Regions |-> IF r \in DOMAIN Writes[c] THEN Writes[c][r] ELSE old[r]]
  BY <1>3 DEF Patched, Both
<1>5. new = Patched(c, old)
  BY <1>1, <1>2, <1>4
<1> QED  BY <1>5 DEF old, new

(* A component accepted by its guards makes of the image of a set of       *)
(* components the image of that set and itself: apply_to_rom takes back    *)
(* nothing an earlier component owns; the known or unknown seed stays      *)
(* where the speed-density tables carry it.                                *)
THEOREM OneMorePart ==
  ASSUME NEW T, NEW known \in BOOLEAN, NEW c \in Components, Accepts(c, ImageOfParts(T, known))
  PROVE  ImageOfParts(T \cup {c}, known)
           = IF c = "sd" THEN Tabled(Patched(c, ImageOfParts(T, known)), known)
             ELSE Patched(c, ImageOfParts(T, known))
<1>1. FitsIn(c, T) /\ (c = "cal1" => known)
  BY GuardsMean
<1> DEFINE comp == Composite(T)
<1>2. Composite(T \cup {c}) = Patched(c, comp)
  BY <1>1, Composed
<1>3. comp = [r \in Regions |-> comp[r]]
  BY DEF Composite
<1> HIDE DEF comp
<1>4. CASE c = "sd"
  <2>1. "sd" \notin T
    BY <1>1, <1>4, FitsMeans
  <2> QED  BY <1>2, <1>4, <2>1 DEF ImageOfParts, comp
<1>5. CASE c # "sd" /\ ("sd" \notin T \/ known)
  BY <1>2, <1>5 DEF ImageOfParts, Tabled, comp
<1>6. CASE c # "sd" /\ "sd" \in T /\ ~known
  <2>1. "sdLowVe" \notin DOMAIN Writes[c]
    BY <1>1, <1>6 DEF Components, Writes, BoostWrites, OmniWrites, RotIdleWrites, WidebandWrites,
       FrontWrites, PurgeWrites, FuelingWrites, Cal2Writes, AvlsWrites
  <2>2. "sdLowVe" \in Regions
    BY DEF Regions, Free
  <2> DEFINE foreign == [comp EXCEPT !.sdLowVe = "foreign"]
  <2>3. /\ foreign = [r \in Regions |-> IF r = "sdLowVe" THEN "foreign" ELSE comp[r]]
    BY <1>3, <2>2
  <2>4. DOMAIN Writes[c] \cup Regions = Regions
    BY RegionsWritten
  <2>5. /\ Patched(c, foreign) = [r \in Regions |-> IF r \in DOMAIN Writes[c] THEN Writes[c][r]
                                                    ELSE foreign[r]]
        /\ Patched(c, comp) = [r \in Regions |-> IF r \in DOMAIN Writes[c] THEN Writes[c][r]
                                                 ELSE comp[r]]
    BY <1>3, <2>3, <2>4 DEF Patched, Both
  <2>6. [Patched(c, comp) EXCEPT !.sdLowVe = "foreign"] = Patched(c, foreign)
    BY <2>1, <2>2, <2>3, <2>5
  <2> QED  BY <1>2, <1>6, <2>6 DEF ImageOfParts, Tabled, comp
<1> QED  BY <1>4, <1>5, <1>6

-----------------------------------------------------------------------------
\* The builders whose scripts end with a checksum, the parts a prefix of a script
\* applies, and the length of a script.
Checksummed == Masters \cup {"sdOnly"}
Parts(b, n) == {Script(b)[i] : i \in 1..n} \ {"checksum"}
Length(b) == Len(Script(b))

(* The scripts. *)
LEMMA Scripts ==
  /\ Script("v1") = ScriptV1 /\ Script("v2") = ScriptV2 /\ Script("combined") = ScriptCombined
  /\ Script("boostOnly") = <<"boost">> /\ Script("frontOnly") = <<"front">>
  /\ Script("rotIdleOnly") = <<"rotIdle">> /\ Script("sdOnly") = ScriptSd
BY Zenon DEF Script

(* How long each script is. *)
LEMMA ScriptSteps ==
  /\ Length("v1") = 10 /\ Length("v2") = 9 /\ Length("combined") = 2 /\ Length("sdOnly") = 3
  /\ Length("boostOnly") = 1 /\ Length("frontOnly") = 1 /\ Length("rotIdleOnly") = 1
  /\ \A b \in Builders : Script(b) \in Seq(Steps)
<1>1. /\ Length("v1") = 10 /\ Length("v2") = 9 /\ Length("combined") = 2 /\ Length("sdOnly") = 3
      /\ Length("boostOnly") = 1 /\ Length("frontOnly") = 1 /\ Length("rotIdleOnly") = 1
  BY Scripts DEF Length, ScriptV1, ScriptV2, ScriptCombined, ScriptSd
<1>2. /\ ScriptV1 \in Seq(Steps) /\ ScriptV2 \in Seq(Steps) /\ ScriptCombined \in Seq(Steps)
      /\ ScriptSd \in Seq(Steps)
      /\ <<"boost">> \in Seq(Steps) /\ <<"front">> \in Seq(Steps) /\ <<"rotIdle">> \in Seq(Steps)
  BY DEF ScriptV1, ScriptV2, ScriptCombined, ScriptSd, Steps, Components
<1> QED  BY <1>1, <1>2, Scripts DEF Builders, Masters

(* Every component of a script finds the image its guards ask for. *)
LEMMA ScriptFits ==
  ASSUME NEW b \in Builders, NEW n \in Nat, n < Length(b), Script(b)[n + 1] \in Components
  PROVE  FitsIn(Script(b)[n + 1], Parts(b, n))
<1>1. CASE b = "v1"
  <2>1. /\ Script(b)[1] = "boost" /\ Script(b)[2] = "omni" /\ Script(b)[3] = "rotIdle"
        /\ Script(b)[4] = "sd"
        /\ Script(b)[5] = "wideband" /\ Script(b)[6] = "purge" /\ Script(b)[7] = "fueling"
        /\ Script(b)[8] = "cal1" /\ Script(b)[9] = "avls" /\ Script(b)[10] = "checksum"
    BY <1>1, Scripts DEF ScriptV1
  <2>2. n \in 0..9
    BY <1>1, ScriptSteps
  <2>3. /\ "boost" \in Parts(b, n) <=> 1 <= n
        /\ "omni" \in Parts(b, n) <=> 2 <= n
        /\ "rotIdle" \in Parts(b, n) <=> 3 <= n
        /\ "sd" \in Parts(b, n) <=> 4 <= n
        /\ "wideband" \in Parts(b, n) <=> 5 <= n
        /\ "front" \notin Parts(b, n)
        /\ "purge" \in Parts(b, n) <=> 6 <= n
        /\ "fueling" \in Parts(b, n) <=> 7 <= n
        /\ "cal1" \in Parts(b, n) <=> 8 <= n
        /\ "cal2" \notin Parts(b, n)
    BY <2>1, <2>2 DEF Parts
  <2> QED  BY <2>1, <2>2, <2>3, FitsMeans DEF Components
<1>2. CASE b = "v2"
  <2>1. /\ Script(b)[1] = "boost" /\ Script(b)[2] = "omni" /\ Script(b)[3] = "sd"
        /\ Script(b)[4] = "wideband" /\ Script(b)[5] = "purge" /\ Script(b)[6] = "fueling"
        /\ Script(b)[7] = "cal2" /\ Script(b)[8] = "avls" /\ Script(b)[9] = "checksum"
    BY <1>2, Scripts DEF ScriptV2
  <2>2. n \in 0..8
    BY <1>2, ScriptSteps
  <2>3. /\ "boost" \in Parts(b, n) <=> 1 <= n
        /\ "omni" \in Parts(b, n) <=> 2 <= n
        /\ "sd" \in Parts(b, n) <=> 3 <= n
        /\ "wideband" \in Parts(b, n) <=> 4 <= n
        /\ "front" \notin Parts(b, n)
        /\ "purge" \in Parts(b, n) <=> 5 <= n
        /\ "fueling" \in Parts(b, n) <=> 6 <= n
        /\ "cal1" \notin Parts(b, n)
        /\ "cal2" \in Parts(b, n) <=> 7 <= n
    BY <2>1, <2>2 DEF Parts
  <2> QED  BY <2>1, <2>2, <2>3, FitsMeans DEF Components
<1>3. CASE b \in {"boostOnly", "frontOnly", "rotIdleOnly"}
  <2>1. n = 0 /\ Script(b)[1] \in {"boost", "front", "rotIdle"}
    BY <1>3, Scripts, ScriptSteps
  <2>2. Parts(b, n) = {}
    BY <2>1 DEF Parts
  <2> QED  BY <2>1, <2>2, FitsMeans
<1>4. CASE b = "combined"
  <2>1. n \in 0..1 /\ Script(b)[1] = "boost" /\ Script(b)[2] = "front"
    BY <1>4, Scripts, ScriptSteps DEF ScriptCombined
  <2>2. Parts(b, 0) = {} /\ Parts(b, 1) = {"boost"}
    BY <2>1 DEF Parts
  <2> QED  BY <2>1, <2>2, FitsMeans
<1>5. CASE b = "sdOnly"
  <2>1. n \in 0..2 /\ Script(b)[1] = "sd" /\ Script(b)[2] = "avls" /\ Script(b)[3] = "checksum"
    BY <1>5, Scripts, ScriptSteps DEF ScriptSd
  <2>2. Parts(b, 0) = {}
    BY DEF Parts
  <2> QED  BY <2>1, <2>2, FitsMeans DEF Components
<1> QED  BY <1>1, <1>2, <1>3, <1>4, <1>5 DEF Builders, Masters

(* Where the checksum stands, and the calibration that reads a donor. *)
LEMMA LastIsChecksum ==
  ASSUME NEW b \in Checksummed
  PROVE  Script(b)[Length(b)] = "checksum" /\ b \in Builders /\ Length(b) # 0
BY Scripts, ScriptSteps DEF Checksummed, Masters, Builders, ScriptV1, ScriptV2, ScriptSd

LEMMA ScriptHasCal ==
  ASSUME NEW b \in Builders, NEW n \in 1..Length(b), Script(b)[n] = "cal1"
  PROVE  b = "v1"
<1>1. CASE b = "v2"
  <2>1. n \in 1..9
    BY <1>1, ScriptSteps
  <2> QED  BY <1>1, <2>1, Scripts DEF ScriptV2
<1>2. CASE b = "combined"
  BY <1>2, Scripts, ScriptSteps DEF ScriptCombined
<1>3. CASE b = "sdOnly"
  BY <1>3, Scripts, ScriptSteps DEF ScriptSd
<1>4. CASE b \in {"boostOnly", "frontOnly", "rotIdleOnly"}
  BY <1>4, Scripts, ScriptSteps
<1> QED  BY <1>1, <1>2, <1>3, <1>4 DEF Builders, Masters

(* One more step of a script. *)
LEMMA PartsGrow ==
  ASSUME NEW b, NEW n \in Nat
  PROVE  /\ Script(b)[n + 1] # "checksum" => Parts(b, n + 1) = Parts(b, n) \cup {Script(b)[n + 1]}
         /\ Script(b)[n + 1] = "checksum" => Parts(b, n + 1) = Parts(b, n)
<1>1. 1..(n + 1) = 1..n \cup {n + 1}
  OBVIOUS
<1>2. {Script(b)[i] : i \in 1..(n + 1)} = {Script(b)[i] : i \in 1..n} \cup {Script(b)[n + 1]}
  BY <1>1
<1> QED  BY <1>2 DEF Parts

-----------------------------------------------------------------------------
Done == Length(builder) - Len(todo) \* how much of the script has been applied
\* The conjuncts of the invariant: who runs, what the seed was, a fresh image
\* until the first component, the prefix of the script applied so far, all of it
\* once the image is done, the checksum of a finished image, the components
\* that come together, and the image as the composite of its components.
Idle == pc = "idle" => builder = "none"
AtBench == pc = "bench" => builder = "bench"
SeedOfSecond == seed \in BOOLEAN /\ (builder # "v2" => seed)
Fresh == pc \in {"idle", "alias", "provenance"} => rom = Stock /\ applied = {}
Following == pc = "apply" =>
  /\ todo \in Seq(Steps) /\ Len(todo) <= Length(builder)
  /\ \A i \in 1..Len(todo) : todo[i] = Script(builder)[Done + i]
  /\ applied = Parts(builder, Done)
Complete == pc \in {"reread", "open", "write"} => applied = Parts(builder, Length(builder))
Summed == \/ pc \in {"reread", "open", "write"}
          \/ pc = "apply" /\ todo = << >>
          => (builder \in Checksummed => sum = Covered(rom))
Chained == /\ "fueling" \in applied => "boost" \in applied /\ "wideband" \in applied
           /\ ~("wideband" \in applied /\ "front" \in applied)
Made == rom = ImageOfParts(applied, seed)

BuildInv == /\ RunHasBuilder /\ Idle /\ AtBench /\ SeedOfSecond /\ Fresh /\ Following /\ Complete
            /\ Summed /\ Chained /\ Made /\ ScriptAccepted
-----------------------------------------------------------------------------
(* No component makes the stock image. *)
LEMMA NoParts ==
  ASSUME NEW known \in BOOLEAN
  PROVE  ImageOfParts({}, known) = Stock
<1>1. \A r \in Regions : Owners({}, r) = {}
  BY DEF Owners
<1>2. Composite({}) = [r \in Regions |-> Stock[r]]
  BY <1>1 DEF Composite
<1>3. Stock = [r \in Regions |-> Stock[r]]
  BY DEF Stock
<1> QED  BY <1>2, <1>3 DEF ImageOfParts

(* The invariant holds initially, and when a run ends. *)
LEMMA InitBuilds == Init => BuildInv
<1> SUFFICES ASSUME Init PROVE BuildInv
  OBVIOUS
<1>1. Made
  BY NoParts DEF Init, Made
<1> QED  BY <1>1 DEF Init, BuildInv, RunHasBuilder, Past, Idle, AtBench, SeedOfSecond, Fresh,
                     Following, Complete,
                     Summed, Chained, ScriptAccepted

LEMMA EndBuilds ==
  ASSUME NEW o, o # "guard", End(o)
  PROVE  BuildInv'
<1>1. Made'
  BY NoParts DEF End, Made
<1> QED  BY <1>1 DEF End, BuildInv, RunHasBuilder, Past, Idle, AtBench, SeedOfSecond, Fresh,
                     Following, Complete,
                     Summed, Chained, ScriptAccepted

(* A component accepted at the bench or in a build keeps the image what its *)
(* parts make it, and no half of a chain.                                  *)
LEMMA PartAdded ==
  ASSUME NEW c \in Components, Chained, Made, seed \in BOOLEAN, Accepts(c, rom), seed' = seed,
         applied' = applied \cup {c},
         rom' = IF c = "sd" THEN Tabled(Patched(c, rom), seed) ELSE Patched(c, rom)
  PROVE  Chained' /\ Made'
<1>1. FitsIn(c, applied)
  BY GuardsMean DEF Made
<1>2. Chained'
  BY <1>1, FitsMeans DEF Chained
<1>3. Made'
  BY OneMorePart DEF Made
<1> QED  BY <1>2, <1>3
-----------------------------------------------------------------------------
(* The builder's next component. *)
LEMMA ApplyBuilds == BuildInv /\ Apply => BuildInv'
<1> SUFFICES ASSUME BuildInv, Apply PROVE BuildInv'
  OBVIOUS
<1> DEFINE c == Head(todo)
<1>1. /\ pc = "apply" /\ todo # << >> /\ c \in Components /\ builder \in Builders /\ todo \in Seq(Steps)
      /\ Len(todo) <= Length(builder) /\ applied = Parts(builder, Done) /\ seed \in BOOLEAN
      /\ \A i \in 1..Len(todo) : todo[i] = Script(builder)[Done + i]
  BY DEF Apply, BuildInv, RunHasBuilder, Past, Following, SeedOfSecond
<1>2. Length(builder) \in Nat
  BY <1>1, ScriptSteps DEF Length
<1>3. Done \in Nat /\ Done < Length(builder) /\ c = Script(builder)[Done + 1]
  BY <1>1, <1>2 DEF Done
<1>4. FitsIn(c, applied)
  BY <1>1, <1>3, ScriptFits
<1>5. c = "cal1" => seed
  <2>1. Done + 1 \in 1..Length(builder)
    BY <1>2, <1>3
  <2> QED  BY <1>1, <1>3, <2>1, ScriptHasCal DEF BuildInv, SeedOfSecond
<1>6. Accepts(c, rom)
  BY <1>1, <1>4, <1>5, GuardsMean DEF BuildInv, Made
<1>7. CASE c = "cal1" /\ ~Genuine("donor")
  <2>1. End("source")
    BY <1>6, <1>7 DEF Apply
  <2> QED  BY <2>1, EndBuilds
<1>8. CASE ~(c = "cal1" /\ ~Genuine("donor"))
  <2>1. /\ rom' = Seeded(Patched(c, rom)) /\ applied' = applied \cup {c} /\ todo' = Tail(todo)
        /\ UNCHANGED <<builder, pc, seed, outcome>>
    BY <1>6, <1>8 DEF Apply
  <2>2. Chained' /\ Made'
    BY <1>1, <1>6, <2>1, PartAdded DEF BuildInv, Seeded
  <2>3. /\ todo' \in Seq(Steps) /\ Len(todo') = Len(todo) - 1
        /\ \A i \in 1..Len(todo') : todo'[i] = todo[i + 1]
    BY <1>1, <2>1
  <2>4. Done' = Done + 1 /\ builder' = builder
    BY <1>1, <1>2, <2>1, <2>3 DEF Done, Length
  <2>5. applied' = Parts(builder, Done + 1)
    BY <1>1, <1>3, <2>1, PartsGrow DEF Components
  <2>6. Following'
    <3>1. \A i \in 1..Len(todo') : todo'[i] = Script(builder)[Done' + i]
      <4> TAKE i \in 1..Len(todo')
      <4>1. i + 1 \in 1..Len(todo) /\ Done + (i + 1) = Done' + i
        BY <1>1, <1>3, <2>3, <2>4
      <4> QED  BY <1>1, <2>3, <4>1
    <3>2. Len(todo') <= Length(builder)
      BY <1>1, <1>2, <2>3
    <3>3. Length(builder)' = Length(builder) /\ Script(builder)' = Script(builder)
          /\ Parts(builder, Done)' = Parts(builder, Done + 1)
      BY <2>4 DEF Length, Parts
    <3> QED  BY <2>3, <2>4, <2>5, <3>1, <3>2, <3>3 DEF Following
  <2>7. Summed'
    <3>1. SUFFICES ASSUME builder \in Checksummed, todo' = << >> PROVE FALSE
      BY <1>1, <2>1 DEF Summed
    <3>2. Len(todo) = 1
      BY <1>1, <2>3, <3>1
    <3>3. Done + 1 = Length(builder)
      BY <1>2, <3>2 DEF Done
    <3> QED  BY <1>1, <1>3, <3>1, <3>3, LastIsChecksum DEF Components
  <2> QED  BY <1>1, <2>1, <2>2, <2>6, <2>7
           DEF BuildInv, RunHasBuilder, Past, Idle, AtBench, SeedOfSecond, Fresh, Complete,
               ScriptAccepted
<1> QED  BY <1>7, <1>8

(* Changed regions of the two dry runs are those their components write. *)
LEMMA DryRuns ==
  /\ Changed(Patched("boost", Stock)) = DOMAIN BoostWrites
  /\ Changed(Patched("front", Stock)) = DOMAIN FrontWrites
  /\ DOMAIN BoostWrites \cap DOMAIN FrontWrites = {}
<1>1. \A r \in Regions : /\ Patched("boost", Stock)[r] = IF r \in DOMAIN BoostWrites THEN BoostWrites[r]
                                                         ELSE Stock[r]
                         /\ Patched("front", Stock)[r] = IF r \in DOMAIN FrontWrites THEN FrontWrites[r]
                                                         ELSE Stock[r]
  BY DEF Patched, Both, Writes, Stock
<1>2. DOMAIN BoostWrites \subseteq Regions /\ DOMAIN FrontWrites \subseteq Regions
  BY RegionsWritten DEF Components, Writes
<1>3. \A r \in DOMAIN BoostWrites : BoostWrites[r] # Stock[r]
  BY DEF BoostWrites, Stock, Regions, Free, Native
<1>4. \A r \in DOMAIN FrontWrites : FrontWrites[r] # Stock[r]
  BY DEF FrontWrites, Stock, Regions, Free, Native
<1>5. DOMAIN BoostWrites \cap DOMAIN FrontWrites = {}
  BY DEF BoostWrites, FrontWrites
<1> QED  BY <1>1, <1>2, <1>3, <1>4, <1>5 DEF Changed

(* So the combined builder finds the union of its two dry runs. *)
LEMMA CombinedHolds == CombinedAgrees(Composite({"boost", "front"}))
<1> DEFINE image == Composite({"boost", "front"})
           boost == Patched("boost", Stock)
           front == Patched("front", Stock)
<1>1. Composite({"boost"}) = boost
  <2>1. FitsIn("boost", {}) /\ {} \cup {"boost"} = {"boost"} /\ "boost" \in Components
    BY FitsMeans DEF Components
  <2>2. Composite({}) = Stock
    BY NoParts DEF ImageOfParts
  <2> QED  BY <2>1, <2>2, Composed
<1>2. image = Patched("front", boost)
  <2>1. FitsIn("front", {"boost"}) /\ {"boost"} \cup {"front"} = {"boost", "front"}
        /\ "front" \in Components
    BY FitsMeans DEF Components
  <2> QED  BY <1>1, <2>1, Composed
<1>3. /\ DOMAIN boost = Regions
      /\ \A r \in Regions : boost[r] = IF r \in DOMAIN BoostWrites THEN BoostWrites[r] ELSE Stock[r]
      /\ \A r \in Regions : front[r] = IF r \in DOMAIN FrontWrites THEN FrontWrites[r] ELSE Stock[r]
  BY RegionsWritten DEF Patched, Both, Writes, Stock, Components
<1>4. \A r \in Regions : image[r] = IF r \in DOMAIN FrontWrites THEN FrontWrites[r] ELSE boost[r]
  BY <1>2, <1>3 DEF Patched, Both, Writes
<1>5. Changed(boost) \subseteq Regions /\ Changed(front) \subseteq Regions
  BY DEF Changed
<1> HIDE DEF image, boost, front
<1>6. Changed(boost) = DOMAIN BoostWrites /\ Changed(front) = DOMAIN FrontWrites
      /\ DOMAIN BoostWrites \cap DOMAIN FrontWrites = {}
  BY DryRuns DEF boost, front
<1>7. /\ \A r \in Changed(boost) : image[r] = boost[r]
      /\ \A r \in Changed(front) : image[r] = front[r]
  BY <1>3, <1>4, <1>5, <1>6
<1>8. Changed(image) = Changed(boost) \cup Changed(front)
  <2>1. ASSUME NEW r \in Regions
        PROVE  image[r] # Stock[r] <=> r \in Changed(boost) \/ r \in Changed(front)
    <3>1. CASE r \in Changed(boost)
      BY <1>7, <3>1 DEF Changed
    <3>2. CASE r \in Changed(front)
      BY <1>7, <3>2 DEF Changed
    <3>3. CASE r \notin Changed(boost) /\ r \notin Changed(front)
      BY <1>3, <1>4, <1>6, <3>3
    <3> QED  BY <3>1, <3>2, <3>3
  <2> QED  BY <1>5, <2>1 DEF Changed
<1> QED  BY <1>6, <1>7, <1>8 DEF CombinedAgrees, image, boost, front

(* A finished image passes the assertions on it. *)
LEMMA FinishedIsSound ==
  ASSUME BuildInv, pc = "apply", todo = << >>
  PROVE  Sound(builder, rom)
<1>1. builder \in Builders /\ Length(builder) \in Nat
  BY ScriptSteps DEF BuildInv, RunHasBuilder, Past, Length
<1>2. applied = Parts(builder, Length(builder))
  BY <1>1 DEF BuildInv, Following, Done
<1>3. rom = ImageOfParts(applied, seed) /\ seed \in BOOLEAN
  BY DEF BuildInv, Made, SeedOfSecond
<1>4. ASSUME builder = "v2" PROVE rom.timingPtr = "stock" /\ rom.rotFlash = "erased"
  <2>1. /\ Script(builder)[1] = "boost" /\ Script(builder)[2] = "omni" /\ Script(builder)[3] = "sd"
        /\ Script(builder)[4] = "wideband" /\ Script(builder)[5] = "purge"
        /\ Script(builder)[6] = "fueling"
        /\ Script(builder)[7] = "cal2" /\ Script(builder)[8] = "avls" /\ Script(builder)[9] = "checksum"
    BY <1>4, Scripts DEF ScriptV2
  <2>2. "rotIdle" \notin applied
    BY <1>2, <1>4, <2>1, ScriptSteps DEF Parts
  <2>3. "timingPtr" \in Regions \ {"sdLowVe"} /\ "rotFlash" \in Regions \ {"sdLowVe"}
    BY DEF Regions, Free, Native
  <2>4. rom.timingPtr = Composite(applied).timingPtr /\ rom.rotFlash = Composite(applied).rotFlash
    BY <1>3, <2>3, ImageAt
  <2> QED  BY <2>2, <2>4, AirValues
<1>5. builder \in Masters => sum = Covered(rom)
  BY DEF BuildInv, Summed, Checksummed
<1>6. ASSUME builder = "combined" PROVE CombinedAgrees(rom)
  <2>1. Script(builder)[1] = "boost" /\ Script(builder)[2] = "front" /\ Length(builder) = 2
    BY <1>6, Scripts, ScriptSteps DEF ScriptCombined
  <2>2. applied = {"boost", "front"}
    BY <1>2, <2>1 DEF Parts
  <2>3. rom = Composite({"boost", "front"})
    BY <1>3, <2>2 DEF ImageOfParts
  <2> QED  BY <2>3, CombinedHolds
<1> QED  BY <1>4, <1>5, <1>6 DEF Sound

(* A step that leaves the image and what it is made of alone. *)
Kept == UNCHANGED <<builder, todo, rom, sum, applied, seed, outcome>>

(* One step per action. *)
LEMMA StepBuilds == BuildInv /\ [Next]_vars => BuildInv'
<1> SUFFICES ASSUME BuildInv, [Next]_vars PROVE BuildInv'
  OBVIOUS
<1> USE DEF Past
<1>a. /\ RunHasBuilder /\ Idle /\ AtBench /\ SeedOfSecond /\ Fresh /\ Following /\ Complete
      /\ Summed /\ Chained /\ Made /\ ScriptAccepted
  BY DEF BuildInv
<1>1. ASSUME NEW b \in Builders, Start(b) PROVE BuildInv'
  <2>1. /\ pc = "idle" /\ builder' = b /\ pc' = "alias" /\ outcome' = "none"
        /\ seed' = (b = "v2" => SeedKnown) /\ rom' = rom /\ applied' = applied /\ rom = Stock
        /\ applied = {}
    BY <1>1, <1>a DEF Start, Fresh
  <2>2. seed' \in BOOLEAN /\ (builder' # "v2" => seed')
    BY <2>1 DEF SeedKnown
  <2>3. Made'
    BY <2>1, <2>2, NoParts DEF Made
  <2> QED  BY <2>1, <2>2, <2>3 DEF BuildInv, RunHasBuilder, Idle, AtBench, SeedOfSecond, Fresh,
                                   Following, Complete,
                     Summed, Chained, ScriptAccepted
<1>2. ASSUME Kept, pc' = pc PROVE BuildInv'
  <2>1. Following' /\ Complete' /\ Summed'
    BY <1>a, <1>2 DEF Kept, Following, Complete, Summed, Done, Length, Parts
  <2> QED  BY <1>a, <1>2, <2>1 DEF Kept, BuildInv, RunHasBuilder, Idle, AtBench, SeedOfSecond,
                                   Fresh, Chained, Made,
            ScriptAccepted
<1>3. CASE SeedTooShort
  <2>1. pc' = pc /\ outcome' = "source" /\ UNCHANGED <<builder, todo, rom, sum, applied, seed>>
        /\ pc = "idle"
    BY <1>3 DEF SeedTooShort, run
  <2> QED  BY <1>a, <2>1 DEF BuildInv, RunHasBuilder, Idle, AtBench, SeedOfSecond, Fresh, Following,
                             Complete,
                     Summed, Chained, Made, ScriptAccepted
<1>4. CASE RefuseAlias \/ RefuseSource \/ Kill \/ \E c \in Components : BenchRefused(c)
  <2>1. \E o \in Outcomes \ {"guard"} : End(o)
    BY <1>4 DEF RefuseAlias, RefuseSource, Kill, BenchRefused, Outcomes
  <2> QED  BY <2>1, EndBuilds
<1>5. CASE PassAlias
  <2>1. pc = "alias" /\ pc' = "provenance" /\ Kept
    BY <1>5 DEF PassAlias, Kept
  <2> QED  BY <1>a, <2>1 DEF Kept, BuildInv, RunHasBuilder, Idle, AtBench, SeedOfSecond, Fresh,
                             Following, Complete,
                     Summed, Chained, Made, ScriptAccepted
<1>6. CASE ReadSource
  <2>1. /\ pc = "provenance" /\ reads # << >> /\ Genuine(Head(reads)) /\ rom = Stock /\ applied = {}
        /\ rom' = IF Head(reads) = "root" THEN ImageOf("root") ELSE rom
        /\ UNCHANGED <<builder, sum, applied, seed, outcome>> /\ builder \in Builders
    BY <1>6, <1>a DEF ReadSource, Fresh, RunHasBuilder
  <2>2. rom' = Stock
    BY <2>1 DEF Genuine, ImageOf
  <2>3. Made' /\ Chained'
    BY <1>a, <2>1, <2>2 DEF Made, Chained
  <2>4. CASE pc' = pc /\ todo' = todo
    BY <1>a, <2>1, <2>2, <2>3, <2>4 DEF BuildInv, RunHasBuilder, Idle, AtBench, SeedOfSecond, Fresh,
                                        Following,
       Complete, Summed, ScriptAccepted
  <2>5. CASE pc' = "apply" /\ todo' = Script(builder)
    <3>1. Script(builder) \in Seq(Steps) /\ Length(builder) \in Nat
      BY <2>1, ScriptSteps DEF Length
    <3>2. Done' = 0 /\ Length(builder)' = Length(builder) /\ Script(builder)' = Script(builder)
      BY <2>1, <2>5, <3>1 DEF Done, Length
    <3>3. Parts(builder, Done)' = {}
      BY <2>1, <3>2 DEF Parts
    <3>4. Following'
      BY <2>1, <2>5, <3>1, <3>2, <3>3 DEF Following, Length
    <3>5. builder \in Checksummed => todo' # << >>
      BY <2>5, <3>1, LastIsChecksum DEF Length
    <3> QED  BY <1>a, <2>1, <2>2, <2>3, <2>5, <3>4, <3>5 DEF BuildInv, RunHasBuilder, Idle, AtBench,
                                                             SeedOfSecond,
             Fresh, Complete, Summed, ScriptAccepted
  <2> QED  BY <1>6, <2>4, <2>5 DEF ReadSource
<1>7. CASE Apply
  BY <1>7, ApplyBuilds
<1>8. CASE FixChecksum
  <2>1. /\ pc = "apply" /\ todo # << >> /\ Head(todo) = "checksum" /\ sum' = Covered(rom)
        /\ todo' = Tail(todo)
        /\ UNCHANGED <<builder, pc, rom, applied, seed, outcome>> /\ builder \in Builders
    BY <1>8, <1>a DEF FixChecksum, RunHasBuilder
  <2>2. /\ todo \in Seq(Steps) /\ Len(todo) <= Length(builder) /\ Length(builder) \in Nat
        /\ \A i \in 1..Len(todo) : todo[i] = Script(builder)[Done + i]
        /\ applied = Parts(builder, Done)
    BY <1>a, <2>1, ScriptSteps DEF Following, Length
  <2>3. /\ todo' \in Seq(Steps) /\ Len(todo') = Len(todo) - 1 /\ Len(todo) >= 1
        /\ \A i \in 1..Len(todo') : todo'[i] = todo[i + 1]
    BY <2>1, <2>2
  <2>4. Done' = Done + 1 /\ Done \in Nat
    BY <2>1, <2>2, <2>3 DEF Done, Length
  <2>5. Script(builder)[Done + 1] = "checksum"
    BY <2>1, <2>2, <2>3
  <2>6. applied' = Parts(builder, Done + 1)
    BY <2>1, <2>2, <2>4, <2>5, PartsGrow
  <2>7. \A i \in 1..Len(todo') : todo'[i] = Script(builder)[Done' + i]
    <3> TAKE i \in 1..Len(todo')
    <3>1. i + 1 \in 1..Len(todo) /\ Done + (i + 1) = Done' + i
      BY <2>2, <2>3, <2>4
    <3> QED  BY <2>2, <2>3, <3>1
  <2>8. Length(builder)' = Length(builder) /\ Script(builder)' = Script(builder)
        /\ Parts(builder, Done)' = Parts(builder, Done + 1)
    BY <2>1, <2>4 DEF Length, Parts
  <2>9. Following'
    BY <2>2, <2>3, <2>6, <2>7, <2>8 DEF Following
  <2>10. Covered(rom)' = Covered(rom)
    BY <2>1 DEF Covered
  <2> QED  BY <1>a, <2>1, <2>9, <2>10 DEF BuildInv, RunHasBuilder, Idle, AtBench, SeedOfSecond,
                                          Fresh, Complete,
                     Summed, Chained, Made, ScriptAccepted
<1>9. CASE BuildDone
  <2>1. /\ pc = "apply" /\ todo = << >> /\ builder \in Builders /\ Length(builder) \in Nat
        /\ applied = Parts(builder, Length(builder))
    BY <1>9, <1>a, ScriptSteps DEF BuildDone, Following, RunHasBuilder, Length, Done
  <2>2. pc' \in {"reread", "open"} /\ Kept
    BY <1>9, <2>1, FinishedIsSound DEF BuildDone, Kept
  <2>3. Complete' /\ Summed'
    BY <1>a, <2>1, <2>2 DEF Kept, Complete, Summed, Length, Parts, Covered
  <2> QED  BY <1>a, <2>1, <2>2, <2>3 DEF Kept, BuildInv, RunHasBuilder, Idle, AtBench, SeedOfSecond,
                                         Fresh, Following,
                     Chained, Made, ScriptAccepted
<1>10. ASSUME Kept, pc \in {"reread", "open", "write"}, pc' \in {"reread", "open", "write"}
       PROVE  BuildInv'
  <2>1. Complete' /\ Summed'
    BY <1>a, <1>10 DEF Kept, Complete, Summed, Length, Parts, Covered
  <2> QED  BY <1>a, <1>10, <2>1 DEF Kept, BuildInv, RunHasBuilder, Idle, AtBench, SeedOfSecond,
                                    Fresh, Following,
                     Chained, Made, ScriptAccepted
<1>11. CASE Reread
  BY <1>2, <1>11 DEF Reread, Kept
<1>12. CASE RereadDone
  <2>1. End("ok") \/ (Kept /\ pc = "reread" /\ pc' = "open")
    BY <1>12 DEF RereadDone, Kept
  <2> QED  BY <1>10, <2>1, EndBuilds
<1>13. CASE OpenOutput
  BY <1>10, <1>13 DEF OpenOutput, Kept
<1>14. CASE WriteOutput
  <2>1. End("ok") \/ (Kept /\ pc = "write" /\ pc' = "reread")
    BY <1>14 DEF WriteOutput, Kept
  <2> QED  BY <1>10, <2>1, EndBuilds
<1>15. CASE \/ \E f \in Sources : ReplaceSource(f)
            \/ \E f \in Files : Relink(f)
  BY <1>2, <1>15 DEF ReplaceSource, Relink, run, Kept
<1>16. CASE StartBench
  <2>1. /\ pc = "idle" /\ builder' = "bench" /\ pc' = "bench" /\ outcome' = "none" /\ builder = "none"
        /\ UNCHANGED <<todo, rom, sum, applied, seed>>
    BY <1>16, <1>a DEF StartBench, Idle
  <2> QED  BY <1>a, <2>1 DEF BuildInv, RunHasBuilder, Idle, AtBench, SeedOfSecond, Fresh, Following,
                             Complete,
                     Summed, Chained, Made, ScriptAccepted
<1>17. ASSUME NEW c \in Components, BenchApply(c) PROVE BuildInv'
  <2>1. /\ pc = "bench" /\ Accepts(c, rom) /\ rom' = Patched(c, rom) /\ applied' = applied \cup {c}
        /\ UNCHANGED <<builder, pc, todo, sum, seed, outcome>> /\ builder = "bench" /\ seed = TRUE
    BY <1>17, <1>a DEF BenchApply, AtBench, SeedOfSecond
  <2>2. Tabled(Patched(c, rom), seed) = Patched(c, rom)
    BY <2>1 DEF Tabled
  <2>3. Chained' /\ Made'
    BY <1>a, <2>1, <2>2, PartAdded
  <2> QED  BY <1>a, <2>1, <2>3 DEF BuildInv, RunHasBuilder, Idle, AtBench, SeedOfSecond, Fresh,
                                   Following, Complete,
                     Summed, ScriptAccepted
<1>18. CASE UNCHANGED vars
  BY <1>2, <1>18 DEF vars, run, Kept
<1> QED  BY <1>1, <1>3, <1>4, <1>5, <1>6, <1>7, <1>8, <1>9, <1>11, <1>12, <1>13, <1>14, <1>15,
            <1>16, <1>17, <1>18
         DEF Next, Program, User

(* At every step of a build or of a bench session the image is the         *)
(* composite of the components applied, which are a prefix of the          *)
(* builder's script.                                                       *)
THEOREM BuildInvariance == Spec => []BuildInv
  BY InitBuilds, StepBuilds, PTL DEF Spec

(* No builder is ever refused by the guard of a component it applies, by   *)
(* an assertion on the finished image or by its checksum: a run fails for  *)
(* its sources or its output path only.                                    *)
THEOREM ScriptsAccepted == Spec => []ScriptAccepted
  BY BuildInvariance, PTL DEF BuildInv

(* In whatever order apply_to_rom functions are called, an image none of   *)
(* them refused is the one that the set of its components determines.      *)
THEOREM ImagesAreComposite == Spec => []ImageIsComposite
<1>1. BuildInv => ImageIsComposite
  BY DEF BuildInv, Made, ImageIsComposite, ImageOfParts
<1> QED  BY <1>1, BuildInvariance, PTL

(* A master or speed-density image is written with the checksum of its own *)
(* bytes: nothing is patched after fix_checksums.                          *)
THEOREM ChecksumIsCurrent == Spec => []ChecksumHolds
<1>1. BuildInv => ChecksumHolds
  BY DEF BuildInv, Summed, ChecksumHolds, Checksummed
<1> QED  BY <1>1, BuildInvariance, PTL

(* A composite depends on the owners of each region alone. *)
LEMMA SameOwners ==
  ASSUME NEW A, NEW B, \A r \in Regions : Owners(A, r) = Owners(B, r)
  PROVE  Composite(A) = Composite(B)
<1> DEFINE top(r, owners) == IF owners = {} THEN Stock[r]
                             ELSE Writes[Ownership[CHOOSE n \in owners : \A j \in owners : j <= n]][r]
<1>1. /\ Composite(A) = [r \in Regions |-> top(r, Owners(A, r))]
      /\ Composite(B) = [r \in Regions |-> top(r, Owners(B, r))]
  BY DEF Composite
<1> HIDE DEF top
<1> QED  BY <1>1

(* What a builder writes is made of the pinned stock image and its own     *)
(* script, whatever the user replaced between two readings of the sources; *)
(* the second build depends on its seed in one table.                      *)
THEOREM ProductIsPublished == Spec => []PublishedIsProduct
<1>1. ASSUME BuildInv, pc = "write"
      PROVE  rom = Tabled(Composite({Script(builder)[i] : i \in DOMAIN Script(builder)}), seed)
  <2>1. builder \in Builders /\ seed \in BOOLEAN /\ (builder # "v2" => seed)
    BY <1>1 DEF BuildInv, RunHasBuilder, Past, SeedOfSecond
  <2>2. Length(builder) \in Nat /\ DOMAIN Script(builder) = 1..Length(builder)
    BY <2>1, ScriptSteps DEF Length
  <2> DEFINE all == {Script(builder)[i] : i \in DOMAIN Script(builder)}
  <2>3. applied = all \ {"checksum"}
    BY <1>1, <2>2 DEF BuildInv, Complete, Parts
  <2>4. \A i \in 1..11 : Ownership[i] # "checksum"
    BY Positions
  <2>5. \A r \in Regions : Owners(applied, r) = Owners(all, r)
    BY <2>3, <2>4, OwnersOwn DEF Owned
  <2>6. Composite(applied) = Composite(all)
    BY <2>5, SameOwners
  <2>7. CASE "sd" \in applied \/ seed
    BY <1>1, <2>6, <2>7 DEF BuildInv, Made, ImageOfParts, Tabled
  <2>8. CASE builder = "v2"
    <3>1. Script(builder)[3] = "sd"
      BY <2>8, Scripts DEF ScriptV2
    <3>2. 3 \in DOMAIN Script(builder)
      BY <2>2, <2>8, ScriptSteps
    <3>3. "sd" \in applied
      BY <2>3, <3>1, <3>2
    <3> QED  BY <2>7, <3>3
  <2> QED  BY <2>1, <2>7, <2>8
<1>2. BuildInv => PublishedIsProduct
  BY <1>1 DEF PublishedIsProduct
<1> QED  BY <1>2, BuildInvariance, PTL

(* No image of a build or a bench session holds half of a chain of hooks:  *)
(* a redirected task pointer or entry leads to code that is there, and the *)
(* lean guard stands on the overboost wrapper, the wideband publisher and  *)
(* the RAM it took over.                                                   *)
THEOREM ChainsAreComplete == Spec => []ChainsComplete
<1>1. ASSUME BuildInv PROVE ChainsComplete
  <2> DEFINE comp == Composite(applied)
  <2>1. \A r \in Regions \ {"sdLowVe"} : rom[r] = comp[r]
    BY <1>1, ImageAt DEF BuildInv, Made, SeedOfSecond
  <2> HIDE DEF comp
  <2>2. /\ rom.limiterPtr = comp.limiterPtr /\ rom.boostFlash = comp.boostFlash
        /\ rom.overboost = comp.overboost
        /\ rom.timingPtr = comp.timingPtr /\ rom.rotFlash = comp.rotFlash
        /\ rom.airHelper = comp.airHelper /\ rom.sdFlash = comp.sdFlash /\ rom.mafCode = comp.mafCode
    BY <2>1 DEF Regions, Free, Native
  <2>3. /\ rom.frontEntry = comp.frontEntry /\ rom.wbFlash = comp.wbFlash
        /\ rom.bank2Entry = comp.bank2Entry
        /\ rom.frontFlash = comp.frontFlash /\ rom.pumpPtr = comp.pumpPtr
        /\ rom.fsFlash = comp.fsFlash /\ rom.avcsInitPtr = comp.avcsInitPtr
    BY <2>1 DEF Regions, Free, Native
  <2>4. Chained
    BY <1>1 DEF BuildInv
  <2>5. rom.limiterPtr \in {"overboost", "lean"} => rom.boostFlash = "boost" /\ rom.overboost = "on"
    BY <2>2, <2>4, BoostValues DEF Chained, comp
  <2>6. /\ rom.timingPtr = "rotIdle" => rom.rotFlash = "rotIdle"
        /\ rom.airHelper = "sd" => rom.sdFlash = "sd" /\ rom.mafCode = "bypass"
    BY <2>2, AirValues DEF comp
  <2>7. /\ rom.frontEntry = "wideband" => rom.wbFlash = "wideband" /\ rom.bank2Entry = "wideband"
        /\ rom.frontEntry = "mirror" => rom.frontFlash = "mirror" /\ rom.bank2Entry = "mirror"
    BY <2>3, SensorValues DEF comp
  <2>8. rom.limiterPtr = "lean" => "fueling" \in applied
    BY <2>2, BoostValues DEF comp
  <2>9. "fueling" \in applied => /\ rom.fsFlash = "guards" /\ rom.avcsInitPtr = "lean"
                                 /\ rom.frontEntry = "wideband" /\ rom.pumpPtr = "noop"
    BY <2>3, <2>4, SensorValues, GuardValues DEF Chained, comp
  <2> QED  BY <2>5, <2>6, <2>7, <2>8, <2>9 DEF ChainsComplete
<1> QED  BY <1>1, BuildInvariance, PTL
=============================================================================
