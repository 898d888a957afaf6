------------------------------ MODULE LoggerTools ------------------------------
(***************************************************************************)
(* The logger installer, which makes a definition for this one ECU out of  *)
(* a complete upstream logger definition, and the profile builder, which   *)
(* reads that definition to select channels for one request.  A channel is *)
(* its letter and number.                                                  *)
(*                                                                         *)
(* A definition has counts of the SSM protocol blocks, of the transports   *)
(* and modules kept and of the containers of gated parameters; how often   *)
(* each direct parameter and each switch is in it; the entries of each     *)
(* gated parameter and their records for this ECU and for others; and for  *)
(* each channel the profiles use its query: the addresses read for it and  *)
(* the bytes at each.                                                      *)
(***************************************************************************)
EXTENDS Integers, FiniteSets, FiniteSetsExt, Functions

CONSTANTS MaxDefects,  \* bound on the defects of the upstream definition
          Extras       \* channels a profile's author may add
ASSUME LoggerAssumption == MaxDefects \in Nat

VARIABLES upstream, installed, again, profile, defects
loggerVars == <<upstream, installed, again, profile, defects>>

P(numbers) == {<<"P", n>> : n \in numbers}
S(numbers) == {<<"S", n>> : n \in numbers}
E(numbers) == {<<"E", n>> : n \in numbers}

ParameterIds == E(500..537)
StandardParameterIds ==
  P(1..13 \cup 21..25 \cup 46..53 \cup 69..76 \cup 90..92 \cup 122..127 \cup 151..153 \cup 200..202
    \cup 239..241 \cup {17, 19, 29, 30, 35, 38, 60, 63, 64, 82, 115})
StandardSwitchIds ==
  S(15..30 \cup 62..68 \cup 130..133 \cup 169..171
    \cup {2, 4, 5, 7, 9, 11, 32, 70, 71, 73, 74, 148, 149, 154, 155, 158})
StockEcuParameterIds ==
  E(31..33 \cup 39..41 \cup 44..48 \cup 53..66 \cup {50, 51, 81, 84, 91, 105, 109, 113, 121, 123})
AlwaysVisible == E({32, 33, 50, 51, 60, 81, 84, 105, 123})

NoFile == [status |-> "none"]
RefusedFile == [status |-> "refused"]

Units == P(2..13 \cup 47..53 \cup 122..126 \cup {17, 21, 24, 30, 38, 92})
           \cup E({31, 32, 33, 39, 40, 41, 50, 51, 60, 81, 84, 105, 123} \cup 500..537)

\* The bytes at the one address the shipped definition has for a channel.
AddressBytes(id) ==
  IF id \in P({8, 12}) \cup E({501, 505, 507, 519, 525, 530, 532}) THEN 2
  ELSE IF id \in E({31, 32, 39, 40, 41, 50, 51, 60, 81, 84, 105, 123, 500, 502, 514, 515, 518, 520, 524, 528, 529}
                   \cup 508..513) THEN 4
  ELSE 1
Shipped == [id \in Units |-> [addresses |-> 1, length |-> AddressBytes(id)]]

Once(ids) == [id \in ids |-> 1]
Gated(ids) == [id \in ids |-> [entries |-> 1, here |-> 1, others |-> 1]]
Upstream == [status |-> "ok", ssm |-> 1, transports |-> 1, modules |-> 1, containers |-> 1,
             direct |-> Once(StandardParameterIds \cup P({99})),
             switches |-> Once(StandardSwitchIds \cup S({99})),
             gated |-> Gated(StockEcuParameterIds \cup E({200})),
             query |-> Shipped]

-----------------------------------------------------------------------------
\* The installer.

Validated(doc) ==
  /\ doc.ssm = 1 /\ doc.transports = 1 /\ doc.modules = 1 /\ doc.containers = 1
  /\ doc.direct = Once(StandardParameterIds \cup AlwaysVisible \cup ParameterIds)
  /\ DOMAIN doc.switches = StandardSwitchIds
  /\ DOMAIN doc.gated = StockEcuParameterIds \ AlwaysVisible
  /\ \A id \in DOMAIN doc.gated :
       doc.gated[id].entries = 1 /\ doc.gated[id].here = 1 /\ doc.gated[id].others = 0

\* The channels of the stock catalogue with a record for this ECU.
Supported(doc) == {id \in DOMAIN doc.gated \cap StockEcuParameterIds : doc.gated[id].here > 0}

\* A mistake: a visible channel is looked for among the gated ones only.
VisibleGated(doc) == Supported(doc) \cap AlwaysVisible
\* The visible channels, gated or, in an installed definition, already direct.
Visible(doc) == (Supported(doc) \cup DOMAIN doc.direct) \cap AlwaysVisible

\* What is left: the standard channels, the visible ones and the project's own
\* as direct ones; the other supported ones, for this ECU only. The project's own
\* come from its fragment; the others keep the addresses the source has for them.
Focused(doc) ==
  LET retained == Supported(doc) \ AlwaysVisible
      standard == DOMAIN doc.direct \cap StandardParameterIds
  IN [doc EXCEPT !.direct = [id \in standard \cup Visible(doc) \cup ParameterIds |->
                               IF id \in standard THEN doc.direct[id] ELSE 1],
                 !.switches = Restrict(@, DOMAIN @ \cap StandardSwitchIds),
                 !.gated = [id \in retained |-> [doc.gated[id] EXCEPT !.others = 0]],
                 !.query = [id \in Units |-> IF id \in ParameterIds THEN Shipped[id]
                                             ELSE doc.query[id]]]
\* How many entries the channels that stay gated have.
Total(counts) == FoldFunction(+, 0, counts)
Entries(doc) == [id \in Supported(doc) \ AlwaysVisible |-> doc.gated[id].entries]

BuildDefinition(doc) ==
  LET retained == Total(Entries(doc))
  IN IF \/ doc.ssm # 1 \/ doc.transports # 1 \/ doc.modules # 1 \/ doc.containers # 1
        \/ ~ (P({24, 30}) \subseteq DOMAIN doc.direct)
        \/ \E id \in Supported(doc) : \/ doc.gated[id].here # 1
                                      \/ id \in AlwaysVisible /\ doc.query[id].addresses # 1
        \/ Visible(doc) # AlwaysVisible
        \/ Supported(doc) = {}
        \/ retained + Cardinality(Visible(doc)) # Cardinality(StockEcuParameterIds)
        \/ ~Validated(Focused(doc))
     THEN RefusedFile ELSE Focused(doc)

\* One defect of an upstream definition: a count of its parts, a channel of one
\* of its lists missing or once too often, a gated channel or one of its counts,
\* a query with no address, one too many or another length.
Without(f, id) == Restrict(f, DOMAIN f \ {id})
OnceMore(f, id) == [x \in DOMAIN f \cup {id} |-> IF x = id /\ id \in DOMAIN f THEN f[x] + 1
                                                 ELSE IF x = id THEN 1 ELSE f[x]]
DamagedPart(doc) ==
  {[doc EXCEPT ![f] = n] : f \in {"ssm", "transports", "modules", "containers"}, n \in {0, 2}}
DamagedList(doc) ==
  {[doc EXCEPT !.direct = Without(doc.direct, id)] : id \in P({8, 24, 30})}
    \cup {[doc EXCEPT !.direct = OnceMore(doc.direct, id)] : id \in P({8}) \cup E({51, 500})}
    \cup {[doc EXCEPT !.switches = Without(doc.switches, id)] : id \in S({2})}
    \cup {[doc EXCEPT !.switches = OnceMore(doc.switches, id)] : id \in S({2})}
DamagedGated(doc) ==
  LET extra == Gated(E({500}))
  IN {[doc EXCEPT !.gated = Without(doc.gated, id)] : id \in E({31, 39, 51, 200})}
       \cup {[doc EXCEPT !.gated = [x \in DOMAIN doc.gated \cup DOMAIN extra |->
                                      IF x \in DOMAIN doc.gated THEN doc.gated[x] ELSE extra[x]]]}
DamagedEntry(doc, id) ==
  {[doc EXCEPT !.gated[id].here = n] : n \in {0, 2}} \cup {[doc EXCEPT !.gated[id].entries = 2]}
DamagedQuery(doc) ==
  LET ids == E({31, 51}) \cup P({8})
  IN {[doc EXCEPT !.query[id].addresses = n] : id \in ids, n \in {0, 2}}
       \cup {[doc EXCEPT !.query[id].length = n] : id \in ids, n \in {0, 1}}
Damaged(doc) == DamagedPart(doc) \cup DamagedList(doc) \cup DamagedGated(doc) \cup DamagedQuery(doc)
                  \cup UNION {DamagedEntry(doc, id) : id \in E({31, 51}) \cap DOMAIN doc.gated}

-----------------------------------------------------------------------------
\* The profiles.

MaxReceiveIndex == \h89
MaxAddresses == (MaxReceiveIndex - 6) \div 3

IdleParameters == P(2..6 \cup {8, 10, 11, 12, 13, 17, 21, 24, 47}) \cup E({32, 33, 50, 51, 60, 500, 501, 502})
AfterstartParameters == P({2, 7, 8, 11, 17, 21, 47}) \cup E({33, 123, 500} \cup 507..513)
RecoveryParameters == (IdleParameters \ (P({3, 4, 5, 6, 24}) \cup E({50, 502}))) \cup E({123, 511, 503, 524})
IdleAirParameters == P({2, 7, 8, 10, 11, 12, 13, 17, 30}) \cup E({32, 33, 60, 123, 500, 501, 511, 514, 515, 517})
MapSourceParameters == P({2, 8, 10, 11, 12, 13}) \cup E({32, 33, 51, 60, 500, 503, 511} \cup 518..523)
RoadParameters == P({2, 8, 9, 10, 11, 13, 21, 30}) \cup E({31, 32, 33, 39, 41, 123, 500, 503, 511, 518})
AvlsCutParameters == P({2, 8, 9, 10, 13, 21, 30} \cup 122..126)
                       \cup E({31, 39, 41, 500, 503, 504, 518, 520, 525, 526, 527})
AvcsParameters == P({2, 8, 9, 10, 13, 21, 30, 48, 49, 52, 53})
                    \cup E({31, 39, 41, 500, 504, 518, 525, 528, 529})
CutParameters == P({2, 8, 9, 10, 13, 17, 21, 30}) \cup E({31, 39, 41, 500, 503, 504, 518, 525} \cup 530..537)
ProfileSelections == {IdleParameters, AfterstartParameters, RecoveryParameters, IdleAirParameters,
                      MapSourceParameters, RoadParameters, AvlsCutParameters, AvcsParameters, CutParameters}

\* What the installed definition reads for the selection: no two channels share
\* an address, so the distinct queries are the channels.
AddressCount(file, selected) ==
  Total([id \in selected |-> file.query[id].addresses * file.query[id].length])
ASSUME SelectionsCounted == \A selected \in ProfileSelections :
  AddressCount(Upstream, selected) \in 1..MaxAddresses
\* Payload: command, padding and three bytes an address; header and checksum around it.
Frame(count) == 2 + 3 * count + 5

\* A channel with no unit, not in the definition, with no address or an empty one.
Unreadable(file, selected) ==
  \/ ~ (selected \subseteq Units) \/ file.status # "ok"
  \/ ~ (selected \subseteq DOMAIN file.direct \cup DOMAIN file.gated)
  \/ \E id \in selected : file.query[id].addresses = 0 \/ file.query[id].length = 0

\* A mistake: the limit forgets the checksum after the addresses.
RefusesLoose(file, selected) ==
  Unreadable(file, selected) \/ AddressCount(file, selected) \notin 1..((MaxReceiveIndex - 3) \div 3)
Refuses(file, selected) ==
  Unreadable(file, selected) \/ AddressCount(file, selected) \notin 1..MaxAddresses

ProfileOf(file, selected) ==
  IF Refuses(file, selected) THEN [status |-> "refused", selected |-> selected]
  ELSE [status |-> "ok", selected |-> selected, shown |-> Units]

-----------------------------------------------------------------------------
LoggerInit == /\ upstream = Upstream
              /\ installed = NoFile /\ again = NoFile
              /\ profile = NoFile
              /\ defects = 0

DamageUpstream == /\ defects < MaxDefects
                  /\ upstream' \in Damaged(upstream)
                  /\ defects' = defects + 1
                  /\ UNCHANGED <<installed, again, profile>>

\* The output may be named as the source or be a link to it: nothing is written.
Install == \E output \in {"new", "source", "link"} :
  /\ installed' = IF output # "new" \/ BuildDefinition(upstream) = RefusedFile THEN installed
                  ELSE BuildDefinition(upstream)
  /\ again' = NoFile
  /\ UNCHANGED <<upstream, profile, defects>>
\* The installed definition is the source of another installation.
Reinstall == /\ installed # NoFile
             /\ again' = BuildDefinition(installed)
             /\ UNCHANGED <<upstream, installed, profile, defects>>

\* One profile in a behaviour.
MakeProfile == \E selection \in ProfileSelections, extra \in SUBSET Extras :
  /\ installed # NoFile /\ profile = NoFile
  /\ profile' = ProfileOf(installed, selection \cup extra)
  /\ UNCHANGED <<upstream, installed, again, defects>>

LoggerNext == DamageUpstream \/ Install \/ Reinstall \/ MakeProfile
LoggerSpec == LoggerInit /\ [][LoggerNext]_loggerVars

-----------------------------------------------------------------------------
\* Properties.

\* An installed definition is a legal upstream: installing from it is never
\* refused and gives the same definition again, even if the first upstream
\* was damaged in a way the installer accepts (build_definition,
\* "Accept a previously generated master file").
RegenerationStable == again # NoFile => again = installed

\* A profile built from the installed definition has its checksum within the
\* ECU's receive buffer as that definition counts its addresses, and names only
\* channels that are in it exactly once. One of the nine selections is refused only
\* for a selected channel that the definition reads otherwise than the shipped
\* one does: the installer lets that pass, and the builder answers for it
\* (profile_bytes, address_count, request_sizes).
ProfileFits(file, made) ==
  made.status = "ok" =>
    /\ Frame(AddressCount(file, made.selected)) - 1 <= MaxReceiveIndex
    /\ made.selected \subseteq made.shown
    /\ \A id \in made.selected :
         /\ file.query[id].addresses # 0
         /\ \/ id \notin DOMAIN file.gated /\ file.direct[id] = 1
            \/ id \notin DOMAIN file.direct /\ file.gated[id].entries = 1
RefusedForCause(file, made) ==
  made.status = "refused" /\ made.selected \in ProfileSelections =>
    \E id \in made.selected : file.query[id] # Shipped[id]
ProfileUsable ==
  [][profile' # profile => /\ ProfileFits(installed, profile')
                           /\ RefusedForCause(installed, profile')]_loggerVars
=============================================================================
