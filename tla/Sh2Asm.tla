-------------------------------- MODULE Sh2Asm --------------------------------
(***************************************************************************)
(* The two-pass assembler that emits every patch routine, and the          *)
(* disassembler's reading of what it emits.  The routines are written as a *)
(* list of items: plain instructions of two bytes, labels, branches to     *)
(* labels and loads of 32-bit literals, whose pool follows the code.  An   *)
(* instruction without a displacement is only its size, so a run of them   *)
(* is one item.                                                            *)
(***************************************************************************)
EXTENDS Integers, Sequences, FiniteSets, FiniteSetsExt

CONSTANTS Bases,    \* addresses a routine may start at
          Runs,     \* lengths of the runs of plain instructions
          LabelSet, Literals,
          MaxItems  \* bound on the items of a routine
ASSUME AsmAssumption == /\ \A b \in Bases : b \in Nat /\ b % 2 = 0
                        /\ Runs \subseteq Nat \ {0}
                        /\ MaxItems \in Nat

VARIABLES base, items, listing
asmVars == <<base, items, listing>>

Branches == {"bt", "bf", "bra"}
NoListing == [status |-> "none"]

-----------------------------------------------------------------------------
\* Pass 1: an address for every item and the end of the code, a slot for every
\* literal, in the order of first use, after the code.

Bytes(item) == CASE item.kind = "label" -> 0
                 [] item.kind = "plain" -> 2 * item.count
                 [] OTHER -> 2

Place(start, list) ==
  LET at[i \in 1..(Len(list) + 1)] == IF i = 1 THEN start ELSE at[i - 1] + Bytes(list[i - 1])
  IN at

PoolStart(codeEnd) == codeEnd + ((4 - (codeEnd % 4)) % 4)

FirstUses(list) == {i \in 1..Len(list) : /\ list[i].kind = "pool"
                                         /\ \A j \in 1..(i - 1) : list[j] # list[i]}
Slot(list, codeEnd, value) ==
  LET first == Min({i \in 1..Len(list) : list[i].kind = "pool" /\ list[i].value = value})
  IN PoolStart(codeEnd) + 4 * Cardinality({j \in FirstUses(list) : j < first})

\* A label placed twice is where it was placed last.
Defined(list, name) == {i \in 1..Len(list) : list[i].kind = "label" /\ list[i].name = name}
LabelAddress(list, at, name) == at[Max(Defined(list, name))]

-----------------------------------------------------------------------------
\* Pass 2: the displacement of every item that has one, and whether it fits.

Relative(list) == {i \in 1..Len(list) : list[i].kind \in Branches \cup {"pool"}}

\* A mistake: the load counts from its own address, as the branches do.
DisplacementUnaligned(list, at, i) ==
  IF list[i].kind = "pool"
  THEN (Slot(list, at[Len(list) + 1], list[i].value) - (at[i] + 4)) \div 4
  ELSE (LabelAddress(list, at, list[i].name) - (at[i] + 4)) \div 2
Displacement(list, at, i) ==
  IF list[i].kind = "pool"
  THEN (Slot(list, at[Len(list) + 1], list[i].value) - ((at[i] - (at[i] % 4)) + 4)) \div 4
  ELSE (LabelAddress(list, at, list[i].name) - (at[i] + 4)) \div 2

Fits(kind, d) == /\ kind = "pool" => d \in 0..255
                 /\ kind \in {"bt", "bf"} => d \in -128..127
                 /\ kind = "bra" => d \in -2048..2047

Field(kind, d) == IF kind = "bra" THEN d % 4096 ELSE d % 256

\* The words that hold a displacement, the pool by address, and the end.
Listing(start, list) ==
  LET at == Place(start, list)
      codeEnd == at[Len(list) + 1]
      d(i) == Displacement(list, at, i)
  IN IF \E i \in Relative(list) : list[i].kind \in Branches /\ Defined(list, list[i].name) = {}
     THEN [status |-> "undefined"]
     ELSE IF \E i \in Relative(list) : ~Fits(list[i].kind, d(i))
     THEN [status |-> "range"]
     ELSE [status |-> "ok", codeEnd |-> codeEnd,
           words |-> [i \in Relative(list) |->
                        [at |-> at[i], kind |-> list[i].kind, field |-> Field(list[i].kind, d(i))]],
           pool |-> {<<Slot(list, codeEnd, list[i].value), list[i].value>> : i \in FirstUses(list)}]

-----------------------------------------------------------------------------
\* The disassembler: where a displacement leads.

Signed(v, modulus) == IF 2 * v >= modulus THEN v - modulus ELSE v
BranchTarget(word) ==
  IF word.kind = "pool" THEN (word.at - (word.at % 4)) + 4 + 4 * word.field
  ELSE word.at + 4 + 2 * Signed(word.field, IF word.kind = "bra" THEN 4096 ELSE 256)

-----------------------------------------------------------------------------
AsmInit == base \in Bases /\ items = <<>> /\ listing = NoListing

Emit(item) == /\ listing = NoListing
              /\ Len(items) < MaxItems
              /\ items' = Append(items, item)
              /\ UNCHANGED <<base, listing>>
Plain == \E n \in Runs : Emit([kind |-> "plain", count |-> n])
Label == \E l \in LabelSet : Emit([kind |-> "label", name |-> l])
MovlPool == \E v \in Literals : Emit([kind |-> "pool", value |-> v])
Branch == \E k \in Branches, l \in LabelSet : Emit([kind |-> k, name |-> l])
Assemble == /\ listing = NoListing
            /\ items # <<>>
            /\ listing' = Listing(base, items)
            /\ UNCHANGED <<base, items>>

AsmNext == Plain \/ Label \/ MovlPool \/ Branch \/ Assemble
AsmSpec == AsmInit /\ [][AsmNext]_asmVars

-----------------------------------------------------------------------------
\* Where the operand of an item is, and where one displacement can lead.
Goal(i) == LET at == Place(base, items)
           IN IF items[i].kind = "pool" THEN Slot(items, at[Len(items) + 1], items[i].value)
              ELSE LabelAddress(items, at, items[i].name)
Reach(i) == LET at == Place(base, items)
            IN IF items[i].kind = "pool" THEN {(at[i] - (at[i] % 4)) + 4 + 4 * f : f \in 0..255}
               ELSE {at[i] + 4 + 2 * f : f \in IF items[i].kind = "bra" THEN -2048..2047 ELSE -128..127}

ReadsBack == \A i \in Relative(items) :
  /\ BranchTarget(listing.words[i]) = Goal(i)
  /\ items[i].kind = "pool" => <<Goal(i), items[i].value>> \in listing.pool
PoolApart == \A p, q \in listing.pool :
  /\ p[1] % 4 = 0 /\ p[1] >= listing.codeEnd
  /\ p # q => p[1] # q[1] /\ p[2] # q[2]
LabelMissing == \E i \in Relative(items) :
  items[i].kind \in Branches /\ \A j \in 1..Len(items) : items[j] # [kind |-> "label", name |-> items[i].name]
OutOfReach == \E i \in Relative(items) : Goal(i) \notin Reach(i)

\* Read back, every branch leads to the last place of its label and every
\* load to the one slot with its literal: aligned, after the code, no slot
\* shared.  A routine is refused only when a label is missing or a
\* displacement cannot be encoded (Asm.assemble, dis_one).
DecodesBack == /\ listing.status = "ok" => ReadsBack /\ PoolApart
               /\ listing.status = "undefined" => LabelMissing
               /\ listing.status = "range" => OutOfReach

=============================================================================
