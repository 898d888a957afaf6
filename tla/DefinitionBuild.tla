---------------------------- MODULE DefinitionBuild ----------------------------
(***************************************************************************)
(* The generators of the tuning definitions.  One definition, the AVLS     *)
(* source, is edited by hand; a script copies its AVLS block into the      *)
(* boost definition, another derives the speed-density definition from it, *)
(* and the two master builders make theirs from all three.  Nothing orders *)
(* the tools: a master may be built from stale derived files.              *)
(*                                                                         *)
(* A definition is the sequence of its tables in file order, each in a     *)
(* section: "parent" for the templates, "stock", "avls" and "after" for    *)
(* the target ROM, the second between its comment markers.                 *)
(***************************************************************************)
EXTENDS DefinitionRules, FiniteSets, FiniteSetsExt

CONSTANTS EditedNames,   \* tables of the source that may be edited
          MaxEdits       \* bound on the edits
ASSUME DefinitionAssumption == MaxEdits \in Nat

VARIABLES avls, boost, sd, \* the files
          master,          \* the last master definition, with its version and source
          outcome, edits
defVars == <<avls, boost, sd, master, outcome, edits>>

NoDefinition == [status |-> "none"]
Refused == [status |-> "refused"]

Template(n, c) == [rom |-> "parent", name |-> n, category |-> c, typed |-> TRUE, at |-> 0]
Reference(n, a) == [rom |-> "stock", name |-> n, category |-> "", typed |-> FALSE, at |-> a]
Typed(section, n, c, a) == [rom |-> section, name |-> n, category |-> c, typed |-> TRUE, at |-> a]

\* A part of the AVLS source with a table of every kind the builders treat apart.
Stock ==
  << <<"MAF Scaling", "Airflow / Load", \h7B568>>, <<"MAP Scaling", "MAP Sensor", \h72810>>,
     <<"Load Compensation", "Airflow / Load", \h742C8>>, <<"IAT Scaling", "Sensor Scalings", \h729D8>>,
     <<"Tip-in Minimum", "Tip-in", \h763E0>>, <<"Tip-in MRP", "Tip-in", \h76AC8>>,
     <<"Cranking IPW", "Cranking", \h76714>>, <<"OL Delay", "CL/OL Transition", \h772DC>>,
     <<"Base Timing A", "Advance", \h78AA0>>, <<"Base Timing B", "Advance", \h78BAC>>,
     <<"Base Timing C", "Advance", \h78CD0>>, <<"Base Timing D", "Advance", \h78E34>>,
     <<"Base Timing F", "Advance", \h79064>>, <<"Base Timing Idle", "Advance", \h78298>>,
     <<"Knock Advance A", "Advance", \h7924C>>, <<"Knock Advance B", "Advance", \h793AC>>,
     <<"Cam Advance A", "AVCS", \h7C5B0>>, <<"Cam Advance B", "AVCS", \h7C764>>,
     <<"Idle Speed Target", "Idle Control", \h79D64>>, <<"Fan Modes", "Thresholds", \h7BD3C>>,
     <<"Fuel Temp Scaling", "Sensor Scalings", \h7B3C0>>, <<"P0102", "Trouble Codes", \h5BD57>>,
     <<"Oil Temp Scaling", "Sensor Scalings", \h7B7C4>> >>
AvlsBlock == << Typed("avls", "AVLS Pedal Threshold", "AVLS", \h7D480),
                Typed("avls", "AVLS Engage", "AVLS", \h7D4BC),
                Typed("avls", "AVLS Release", "AVLS", \h7D4B8),
                Typed("avls", "AVLS Minimum RPM", "AVLS", \h7D4AC) >>
\* A definition with some of these tables.
Body(tables) == [i \in 1..Len(tables) |-> Template(tables[i][1], tables[i][2])]
                  \o [i \in 1..Len(tables) |-> Reference(tables[i][1], tables[i][3])]
Source == Body(Stock) \o AvlsBlock
Overboost == [i \in 1..2 |-> Typed("after", OverboostTables[i][1], OverboostTables[i][2], OverboostTables[i][3])]
BoostDefinition == Body(Stock) \o AvlsBlock \o Overboost
\* One made before the oil scaling was added to the source.
OlderBoost == Body(Front(Stock)) \o AvlsBlock \o Overboost

-----------------------------------------------------------------------------
\* Reading a definition.

\* Some of the tables, in file order.
Only(doc, tables) ==
  LET upTo[n \in 0..Len(doc)] ==
        IF n = 0 THEN <<>> ELSE IF doc[n] \in tables THEN Append(upTo[n - 1], doc[n]) ELSE upTo[n - 1]
  IN upTo[Len(doc)]
\* Those in some of the sections.
Within(doc, sections) == Only(doc, {t \in ToSet(doc) : t.rom \in sections})
Parent(doc) == Within(doc, {"parent"})
Target(doc) == Within(doc, {"stock", "avls", "after"})
Named(rom, name) == {i \in DOMAIN rom : rom[i].name = name}
Count(rom, name) == Cardinality(Named(rom, name))
TableByName(rom, name) == rom[CHOOSE i \in Named(rom, name) : TRUE]
ExactlyOne(rom, names) == \A n \in names : Count(rom, n) = 1

-----------------------------------------------------------------------------
\* The AVLS block and the oil scaling, copied from the source.

AvlsRange(doc) == Within(doc, {"avls"})

\* Each oil table after the fuel table of the same position.
InSection(t, section) ==
  [rom |-> section, name |-> t.name, category |-> t.category, typed |-> t.typed, at |-> t.at]
InsertOil(source, doc) ==
  LET oil == Named(source, "Oil Temp Scaling")
      fuel == Named(doc, "Fuel Temp Scaling")
      copy(i, j) == << InSection(source[i], doc[j].rom) >>
  IN SubSeq(doc, 1, Min(fuel)) \o copy(Min(oil), Min(fuel)) \o SubSeq(doc, Min(fuel) + 1, Max(fuel))
       \o copy(Max(oil), Max(fuel)) \o SubSeq(doc, Max(fuel) + 1, Len(doc))

\* A mistake: the block is added after what was there.
SyncAppended(source, doc) ==
  [status |-> "ok",
   doc |-> Within(doc, {"parent", "stock", "avls"}) \o AvlsRange(source) \o Within(doc, {"after"})]
Synchronized(source, doc) ==
  LET oiled == IF Count(doc, "Oil Temp Scaling") = 0 THEN InsertOil(source, doc) ELSE doc
  IN Within(oiled, {"parent", "stock"}) \o AvlsRange(source) \o Within(oiled, {"after"})
SyncAvls(source, doc) ==
  IF \/ Count(source, "Oil Temp Scaling") # 2
     \/ Count(doc, "Oil Temp Scaling") = 0 /\ Count(doc, "Fuel Temp Scaling") # 2
     \/ Count(doc, "Oil Temp Scaling") \notin {0, 2}
     \/ Count(Synchronized(source, doc), "AVLS Pedal Threshold") # 1
     \/ Count(Synchronized(source, doc), "Oil Temp Scaling") # 2
  THEN Refused ELSE [status |-> "ok", doc |-> Synchronized(source, doc)]

-----------------------------------------------------------------------------
\* The speed-density definition.

RemovedBySd == {"MAF Scaling", "P0102"} \cup HiddenAvls
SdTemplates == [i \in 1..Len(SdTables) |-> Template(SdTables[i][1], SdTables[i][2])]
SdReferences == [i \in 1..Len(SdTables) |-> [Reference(SdTables[i][1], SdTables[i][3]) EXCEPT !.rom = "after"]]
RenderSd(source) ==
  LET kept == Only(source, {t \in ToSet(source) : t.name \notin RemovedBySd})
      typed1D == {kept[i].name : i \in {j \in DOMAIN kept : kept[j].rom # "parent" /\ kept[j].typed}}
  IN IF Named(source, "SD Multiplier") # {} \/ ~ (AvlsNames \subseteq typed1D)
     THEN Refused
     ELSE [status |-> "ok", doc |-> Parent(kept) \o SdTemplates \o Target(kept) \o SdReferences]

-----------------------------------------------------------------------------
\* The master definition of a version.

ShouldDrop(t) == t.name \in DropNames \/ t.category \in DropCategories
InheritedDrops(doc) == {Parent(doc)[i].name : i \in {j \in DOMAIN Parent(doc) : ShouldDrop(Parent(doc)[j])}}

\* A mistake: a reference outlives the template dropped for its category.
PruneOwn(rom, inherited, renames) ==
  LET kept == Only(rom, {t \in ToSet(rom) : ~ShouldDrop(t)})
  IN [i \in DOMAIN kept |-> [kept[i] EXCEPT !.name = IF @ \in DOMAIN renames THEN renames[@] ELSE @]]
Prune(rom, inherited, renames) ==
  LET kept == Only(rom, {t \in ToSet(rom) : ~ShouldDrop(t) /\ t.name \notin inherited})
  IN [i \in DOMAIN kept |-> [kept[i] EXCEPT !.name = IF @ \in DOMAIN renames THEN renames[@] ELSE @]]
Prune1(rom, inherited) == Prune(rom, inherited, Renames(1))
Prune2(rom, inherited) == Prune(rom, inherited, Renames(2))

Templates(list) == [i \in DOMAIN list |-> Template(list[i][1], list[i][2])]
References(list) == [i \in DOMAIN list |-> Reference(list[i][1], list[i][3])]
TypedTables(list) == [i \in DOMAIN list |-> Typed("stock", list[i][1], list[i][2], list[i][3])]

AddedTemplates1 == Templates(WidebandTables) \o Templates(FuelingSafetyTables)
AddedTemplates2 == AddedTemplates1 \o Templates(RepairTables) \o Templates(TimingMinimumTables)
AddedReferences1 == References(WidebandTables) \o References(FuelingSafetyTables)
                      \o TypedTables(FuelPumpTables) \o TypedTables(RotationalTables)
AddedReferences2 == References(WidebandTables) \o References(FuelingSafetyTables)
                      \o TypedTables(FuelPumpTables) \o References(RepairTables)
                      \o References(TimingMinimumTables)

Order(v) == IF v = 1 THEN CategoryOrder1 ELSE CategoryOrder2
CategoryNames(v) == ToSet(Order(v))

\* By name first, then by the category given, else as it is.
Assigned(t, overrides, renames) ==
  IF t.name \in DOMAIN overrides THEN overrides[t.name]
  ELSE IF t.category \in DOMAIN renames THEN renames[t.category]
  ELSE t.category
Categorize1(rom) == [i \in DOMAIN rom |-> [rom[i] EXCEPT !.category = Assigned(rom[i], TableOverrides1, CategoryRenames1)]]
Categorize2(rom) == [i \in DOMAIN rom |-> [rom[i] EXCEPT !.category = Assigned(rom[i], TableOverrides2, CategoryRenames2)]]

\* The template categories by name; a reference without a category has its template's.
ParentCategories(parent) == {<<t.name, t.category>> : t \in ToSet(parent)}
Resolved(t, categories) ==
  IF t.category # "" \/ \A c \in categories : c[1] # t.name THEN t.category
  ELSE (CHOOSE c \in categories : c[1] = t.name)[2]

\* A mistake: the tables of one category in reverse.
SortedReversed(rom, parent, order) ==
  LET categories == ParentCategories(parent)
      grouped == {<<Resolved(t, categories), t>> : t \in ToSet(rom)}
  IN FlattenSeq([k \in DOMAIN order |-> Reverse(Only(rom, {t \in ToSet(rom) : <<order[k], t>> \in grouped}))])
Sorted(rom, parent, order) ==
  LET categories == ParentCategories(parent)
      grouped == {<<Resolved(t, categories), t>> : t \in ToSet(rom)}
  IN FlattenSeq([k \in DOMAIN order |-> Only(rom, {t \in ToSet(rom) : <<order[k], t>> \in grouped})])

ValidCategories(v, parent, target) ==
  LET categories == ParentCategories(parent)
      rank == [c \in CategoryNames(v) |-> CHOOSE k \in DOMAIN Order(v) : Order(v)[k] = c]
      ranked(rom) == /\ \A t \in ToSet(rom) : Resolved(t, categories) \in CategoryNames(v)
                     /\ \A i \in 1..(Len(rom) - 1) :
                          rank[Resolved(rom[i], categories)] <= rank[Resolved(rom[i + 1], categories)]
  IN ranked(parent) /\ ranked(target)
ValidNames(v, parent, target) ==
  LET names(rom) == {rom[i].name : i \in DOMAIN rom}
      forbidden == DropNames \cup (DOMAIN Renames(v) \ DOMAIN MapRenames)
                     \cup IF v = 2 THEN NamesOf(RotationalTables) ELSE {}
  IN /\ ExactlyOne(parent, names(parent)) /\ ExactlyOne(target, names(target))
     /\ \A i \in DOMAIN target : target[i].typed \/ target[i].name \in names(parent)
     /\ ExpectedCustom(v) \subseteq names(target)
     /\ (names(parent) \cup names(target)) \cap forbidden = {}
Validate1(parent, target) ==
  /\ ValidNames(1, parent, target) /\ ValidCategories(1, parent, target)
  /\ LET categories == ParentCategories(parent)
     IN \A e \in ExpectedCategories1 : /\ ExactlyOne(target, {e[1]})
                                       /\ Resolved(TableByName(target, e[1]), categories) = e[2]
  /\ \A e \in ExpectedAddresses(1) : ExactlyOne(target, {e[1]}) /\ TableByName(target, e[1]).at = e[2]
Validate2(parent, target) ==
  /\ ValidNames(2, parent, target) /\ ValidCategories(2, parent, target)
  /\ LET categories == ParentCategories(parent)
     IN \A e \in ExpectedCategories2 : /\ ExactlyOne(target, {e[1]})
                                       /\ Resolved(TableByName(target, e[1]), categories) = e[2]
  /\ \A e \in ExpectedAddresses(2) : ExactlyOne(target, {e[1]}) /\ TableByName(target, e[1]).at = e[2]

Described == {"Tip-in Minimum", "Tip-in MRP", "VE Low Lift", "VE High Lift", "Load Compensation",
              "Cranking IPW", "OL Delay", "Omni MAP Scaling", "SD MAP Range"}

\* Both ROMs pruned and extended, then grouped and put in order.
Extended(v, source, sdDoc, boostDoc) ==
  LET inherited == InheritedDrops(source)
      prune(rom) == IF v = 1 THEN Prune1(rom, inherited) ELSE Prune2(rom, inherited)
      copied(rom, list) == [i \in DOMAIN list |-> TableByName(rom, list[i][1])]
  IN [parent |-> prune(Parent(source)) \o copied(Parent(sdDoc), SdTables)
                   \o IF v = 1 THEN AddedTemplates1 ELSE AddedTemplates2,
      target |-> prune(Target(source)) \o copied(Target(sdDoc), SdTables)
                   \o copied(Target(boostDoc), OverboostTables)
                   \o IF v = 1 THEN AddedReferences1 ELSE AddedReferences2]
BuildTree(v, source, sdDoc, boostDoc) ==
  LET doc == Extended(v, source, sdDoc, boostDoc)
      categorize(rom) == IF v = 1 THEN Categorize1(rom) ELSE Categorize2(rom)
      parent == categorize(doc.parent)
      target == categorize(doc.target)
      categories == ParentCategories(parent)
      sorted == [parent |-> Sorted(parent, parent, Order(v)), target |-> Sorted(target, parent, Order(v))]
  IN IF \/ ~ExactlyOne(Parent(sdDoc), NamesOf(SdTables)) \/ ~ExactlyOne(Target(sdDoc), NamesOf(SdTables))
        \/ ~ExactlyOne(Target(boostDoc), NamesOf(OverboostTables))
     THEN Refused
     ELSE IF \/ ~ExactlyOne(doc.parent, {"IAT Scaling"} \cup Described)
             \/ ~ExactlyOne(doc.target, NamesOf(OverboostTables) \cup AvlsNames)
             \/ \E t \in ToSet(parent) \cup ToSet(target) : Resolved(t, categories) \notin CategoryNames(v)
             \/ ~ (IF v = 1 THEN Validate1(sorted.parent, sorted.target)
                            ELSE Validate2(sorted.parent, sorted.target))
     THEN Refused
     ELSE [status |-> "ok", doc |-> sorted]
BuildTree1(source, sdDoc, boostDoc) == BuildTree(1, source, sdDoc, boostDoc)
BuildTree2(source, sdDoc, boostDoc) == BuildTree(2, source, sdDoc, boostDoc)

-----------------------------------------------------------------------------
\* The tools, and the hand that edits the source.

DefInit == /\ avls = Source
           /\ boost \in {BoostDefinition, OlderBoost}
           /\ sd = RenderSd(Source).doc
           /\ master = NoDefinition
           /\ outcome = [tool |-> "none", status |-> "none"]
           /\ edits = 0

Edits(doc, i) ==
  {SubSeq(doc, 1, i - 1) \o SubSeq(doc, i + 1, Len(doc)),
   SubSeq(doc, 1, i) \o SubSeq(doc, i, Len(doc)),
   [doc EXCEPT ![i].at = @ + 4]}
  \cup {[doc EXCEPT ![i].category = c] : c \in IF doc[i].typed THEN {"OBD-II", "Limits", "New"} ELSE {}}
  \cup {[doc EXCEPT ![i].name = n] : n \in {"Normal Cam, Ratio 1", "Overboost Enable", "VE Low Lift", "Another"}}
  \cup {[doc EXCEPT ![i].category = "Limits", ![i].typed = TRUE]}
  \cup IF i < Len(doc) /\ doc[i].rom = doc[i + 1].rom
       THEN {[doc EXCEPT ![i] = doc[i + 1], ![i + 1] = doc[i]]} ELSE {}
EditSource ==
  /\ edits < MaxEdits
  /\ \E i \in DOMAIN avls : avls[i].name \in EditedNames /\ avls' \in Edits(avls, i)
  /\ edits' = edits + 1
  /\ outcome' = [tool |-> "edit", status |-> "none"]
  /\ UNCHANGED <<boost, sd, master>>

Synchronize ==
  LET new == SyncAvls(avls, boost)
  IN /\ boost' = IF new.status = "ok" THEN new.doc ELSE boost
     /\ outcome' = [tool |-> "sync",
                    status |-> IF new.status = "ok" /\ new.doc = boost THEN "current" ELSE new.status]
     /\ UNCHANGED <<avls, sd, master, edits>>
BuildSd ==
  LET new == RenderSd(avls)
  IN /\ sd' = IF new.status = "ok" THEN new.doc ELSE sd
     /\ outcome' = [tool |-> "sd", status |-> new.status]
     /\ UNCHANGED <<avls, boost, master, edits>>
BuildMaster(v) ==
  LET new == IF v = 1 THEN BuildTree1(avls, sd, boost) ELSE BuildTree2(avls, sd, boost)
  IN /\ master' = IF new.status = "ok"
                  THEN [status |-> "ok", version |-> v, doc |-> new.doc, from |-> avls]
                  ELSE master
     /\ outcome' = [tool |-> "master", status |-> new.status]
     /\ UNCHANGED <<avls, boost, sd, edits>>

DefNext == EditSource \/ Synchronize \/ BuildSd \/ \E v \in Versions : BuildMaster(v)
DefSpec == DefInit /\ [][DefNext]_defVars

-----------------------------------------------------------------------------
\* Properties.

\* What of a source a master must show: the tables that are not dropped, by
\* themselves or with their template.
Survives(doc, t) ==
  /\ ~ShouldDrop(t)
  /\ \A p \in ToSet(Parent(doc)) : p.name = t.name => ~ShouldDrop(p)
Surviving(doc, rom) == Only(rom, {t \in ToSet(rom) : Survives(doc, t)})
Published(v, n) == IF n \in DOMAIN Renames(v) THEN Renames(v)[n] ELSE n
AddedTables(references) ==
  {<<t.name, t.at>> : t \in ToSet(references \o References(SdTables) \o References(OverboostTables))}
Added1 == AddedTables(AddedReferences1)
Added2 == AddedTables(AddedReferences2)

\* A master shows every surviving table of the source it was built from, under
\* its new name and at its address, each once, beside the added tables and no
\* other, whatever the derived files were made from; the tables of a category
\* keep the source's order (build_tree, prune_and_rename,
\* apply_master_categories).
DefinitionComplete ==
  master.status = "ok" =>
    LET v == master.version
        from == Surviving(master.from, Target(master.from))
        target == master.doc.target
        categories == ParentCategories(master.doc.parent)
        old == {Published(v, t.name) : t \in ToSet(from)}
        grouped == {<<Resolved(t, categories), t.name>> : t \in {s \in ToSet(target) : s.name \in old}}
        added == IF v = 1 THEN Added1 ELSE Added2
    IN /\ Len(target) = Len(from) + Cardinality(added)
       /\ {<<t.name, t.at>> : t \in ToSet(target)}
            = {<<Published(v, t.name), t.at>> : t \in ToSet(from)} \cup added
       /\ \A c \in CategoryNames(v) :
            LET sourceOrder == Only(from, {t \in ToSet(from) : <<c, Published(v, t.name)>> \in grouped})
                shown == Only(target, {t \in ToSet(target) : <<c, t.name>> \in grouped})
            IN [i \in DOMAIN shown |-> shown[i].name]
                 = [i \in DOMAIN sourceOrder |-> Published(v, sourceOrder[i].name)]

\* A master is refused only for a defect of the source: a name it needs is
\* missing, two tables would have one name, a table has no category or no
\* template, or a pinned category or address was edited; or because a derived
\* file, made from an earlier source, has a table of its own twice (build_tree,
\* validate).
Defective(doc) ==
  LET parent == Surviving(doc, Parent(doc))
      target == Surviving(doc, Target(doc))
      names(rom, v) == {Published(v, rom[i].name) : i \in DOMAIN rom}
      unique(rom, v) == Cardinality(names(rom, v)) = Len(rom)
      original == Surviving(Source, Source)
  IN \/ \E v \in Versions : \/ ~unique(parent, v) \/ ~unique(target, v)
                            \/ names(target, v) \cap (NamesOf(SdTables) \cup NamesOf(OverboostTables)) # {}
                            \/ names(parent, v) \cap (NamesOf(SdTables) \cup NamesOf(OverboostTables)) # {}
     \/ \E t \in ToSet(original) \ ToSet(parent \o target) : t.name # "Fan Modes"
     \/ \E t \in ToSet(target) : ~t.typed /\ Named(parent, t.name) = {}
     \/ \E t \in ToSet(parent \o target) : t.typed /\ t.category = "New"
Clashing == \/ \E n \in NamesOf(SdTables) : Count(sd, n) > 2
            \/ \E n \in NamesOf(OverboostTables) : Count(boost, n) > 1
OnlyDefectsRefused == outcome = [tool |-> "master", status |-> "refused"] => Defective(avls) \/ Clashing

\* Synchronizing settles: right after it, the boost definition has the
\* source's AVLS block and its own tables, and doing it again or checking
\* changes nothing, however often and between whatever edits it ran (render).
SyncSettles ==
  outcome.tool = "sync" /\ outcome.status # "refused" =>
    /\ AvlsRange(boost) = AvlsRange(avls)
    /\ SyncAvls(avls, boost) = [status |-> "ok", doc |-> boost]
    /\ Within(boost, {"after"}) = Overboost
    /\ ExactlyOne(Parent(boost), {"Oil Temp Scaling"}) /\ ExactlyOne(Target(boost), {"Oil Temp Scaling"})

=============================================================================
