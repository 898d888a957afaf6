--------------------------- MODULE DiagnosticsReader ---------------------------
(***************************************************************************)
(* The reader of the bridge's diagnostics: which of the attached devices   *)
(* it opens, what it does with the snapshots, and how it lets go of the    *)
(* USB library on every way out.  Each library call may fail, and the user *)
(* may interrupt anywhere.  Where no handler is in force yet, or a handler *)
(* is itself interrupted, something is left behind: such an interrupt is a *)
(* stray, named for its place.                                             *)
(***************************************************************************)
EXTENDS Integers, Sequences, FiniteSets

CONSTANTS Serials,     \* serial numbers of the attached bridges
          MaxDevices,  \* bound on the attached devices
          Watches      \* numbers of snapshots asked for
ASSUME ReaderAssumption == MaxDevices \in Nat /\ Watches \subseteq 1..30

None == "none" \* no serial descriptor; none asked for

VARIABLES devices, requested, watch,          \* the call
          step, index, matches, handle, held, \* where it is and what it holds
          context, listed, opened, closed,    \* what the library has given
          shots, last,                        \* snapshots printed; the packet of the last
          strays                              \* where a stray interrupt came
Call == <<devices, requested, watch>>
Library == <<context, listed, opened, closed>>
readerVars == <<Call, step, index, matches, handle, held, Library, shots, last, strays>>

Device == [bridge : BOOLEAN, serial : Serials \cup {None}]
\* A packet by what is wrong with it.
Packet == {"valid", "short", "magic", "version", "flags"}
DecodeSnapshot(packet) == packet = "valid"

Candidates == {i \in DOMAIN devices : devices[i].bridge}
\* The candidate after i, past the list when there is none.
After(i) == IF \E j \in Candidates : j > i
            THEN CHOOSE j \in Candidates : j > i /\ \A k \in Candidates : k > i => j <= k
            ELSE Len(devices) + 1
Wanted(serial) == requested = None \/ serial = requested

ReaderInit ==
  /\ devices \in UNION {[1..n -> Device] : n \in 0..MaxDevices}
  /\ requested \in Serials \cup {None}
  /\ watch \in Watches
  /\ step = "init" /\ index = 0 /\ matches = 0 /\ handle = 0 /\ held = 0
  /\ context = "none" /\ listed = FALSE /\ opened = {} /\ closed = {}
  /\ shots = 0 /\ last = "valid" /\ strays = {}

\* Construction: what lets go of the context is in force only after libusb_init.
OpenLibrary ==
  /\ step = "init"
  /\ \/ context' = "live" /\ step' = "list" /\ UNCHANGED strays
     \/ context' = "live" /\ step' = "end" /\ strays' = strays \cup {"init"}
     \/ step' = "end" /\ UNCHANGED <<context, strays>>
  /\ UNCHANGED <<Call, index, matches, handle, held, listed, opened, closed, shots, last>>
\* A mistake: the construction has no handler, so a failed enumeration leaves the library.
GetDeviceListUnguarded ==
  /\ step = "list"
  /\ \/ listed' = TRUE /\ step' = "inspect" /\ UNCHANGED strays
     \/ listed' = TRUE /\ step' = "end" /\ strays' = strays \cup {"list"}
     \/ step' = "end" /\ UNCHANGED <<listed, strays>>
  /\ UNCHANGED <<Call, index, matches, handle, held, context, opened, closed, shots, last>>
GetDeviceList ==
  /\ step = "list"
  /\ \/ listed' = TRUE /\ step' = "inspect" /\ UNCHANGED strays
     \/ listed' = TRUE /\ step' = "close" /\ strays' = strays \cup {"list"}
     \/ step' = "close" /\ UNCHANGED <<listed, strays>>
  /\ UNCHANGED <<Call, index, matches, handle, held, context, opened, closed, shots, last>>
\* A descriptor that cannot be read, no bridge, or several and none named.
Inspect ==
  /\ step = "inspect"
  /\ index' = After(0)
  /\ step' \in IF Candidates = {} \/ (requested = None /\ Cardinality(Candidates) # 1)
               THEN {"free"} ELSE {"open", "free"}
  /\ UNCHANGED <<Call, matches, handle, held, Library, shots, last, strays>>
OpenDevice ==
  /\ step = "open" /\ index \in DOMAIN devices
  /\ \/ handle' = index /\ opened' = opened \cup {index} /\ step' = "serial" /\ UNCHANGED strays
     \/ /\ opened' = opened \cup {index} /\ step' = "free" /\ strays' = strays \cup {"open"}
        /\ UNCHANGED handle
     \/ step' = "free" /\ UNCHANGED <<handle, opened, strays>>
  /\ UNCHANGED <<Call, index, matches, held, context, listed, closed, shots, last>>
\* A handle that is not kept is closed before the next device or the error. It is
\* kept in two steps, the second of which keeps it from being closed as well.
ReadSerial ==
  /\ step = "serial"
  /\ LET wanted == Wanted(devices[index].serial)
     IN \/ /\ wanted /\ matches = 0
           /\ matches' = 1 /\ held' = handle
           /\ index' = After(index) /\ step' \in {"open", "free"}
           /\ UNCHANGED <<closed, strays>>
        \/ /\ wanted /\ matches = 0
           /\ matches' = 1 /\ held' = handle
           /\ closed' = closed \cup {handle} /\ step' = "free" /\ strays' = strays \cup {"keep"}
           /\ UNCHANGED index
        \/ /\ ~wanted
           /\ closed' = closed \cup {handle}
           /\ index' = After(index) /\ step' = "open"
           /\ UNCHANGED <<matches, held, strays>>
        \/ /\ wanted /\ matches = 1 \* a second of the same serial
           /\ matches' = 2 /\ closed' = closed \cup {handle} /\ step' = "free"
           /\ UNCHANGED <<index, held, strays>>
        \/ \* unreadable, not ASCII, or interrupted
           /\ closed' = closed \cup {handle} /\ step' = "free"
           /\ UNCHANGED <<index, matches, held, strays>>
        \/ \* interrupted as it is to be closed
           /\ step' = "free" /\ strays' = strays \cup {"drop"}
           /\ UNCHANGED <<index, matches, held, closed>>
  /\ handle' = 0
  /\ UNCHANGED <<Call, context, listed, opened, shots, last>>
\* All candidates are done: without a match, or interrupted, the list is freed and
\* the library left; or the one match is in the hands of the with statement.
EndSelection ==
  /\ step = "open" /\ index \notin DOMAIN devices
  /\ \/ step' = "free" /\ UNCHANGED <<listed, strays>>
     \/ matches = 1 /\ listed' = FALSE /\ step' = "read" /\ UNCHANGED strays
     \/ matches = 1 /\ listed' = FALSE /\ step' = "end" /\ strays' = strays \cup {"with"}
  /\ UNCHANGED <<Call, index, matches, handle, held, context, opened, closed, shots, last>>
FreeList ==
  /\ step = "free"
  /\ step' = "close"
  /\ \/ listed' = FALSE /\ UNCHANGED strays
     \/ strays' = strays \cup {"free"} /\ UNCHANGED listed
  /\ UNCHANGED <<Call, index, matches, handle, held, context, opened, closed, shots, last>>

\* One snapshot: printed when the packet decodes; a stall, an error, another
\* packet or an interrupt ends the reading.
Snapshot ==
  /\ step = "read"
  /\ \/ \E packet \in Packet :
          /\ last' = packet
          /\ shots' = IF DecodeSnapshot(packet) THEN shots + 1 ELSE shots
          /\ step' = IF DecodeSnapshot(packet) /\ shots' < watch THEN "wait" ELSE "close"
     \/ step' = "close" /\ UNCHANGED <<shots, last>>
  /\ UNCHANGED <<Call, index, matches, handle, held, Library, strays>>
Wait ==
  /\ step = "wait"
  /\ step' \in {"read", "close"}
  /\ UNCHANGED <<Call, index, matches, handle, held, Library, shots, last, strays>>
\* The handle first, then the library; an interrupt leaves the library, or both.
Close ==
  /\ step = "close" /\ step' = "end"
  /\ LET done == IF held # 0 THEN closed \cup {held} ELSE closed
     IN \/ closed' = done /\ held' = 0 /\ context' = "exited" /\ UNCHANGED strays
        \/ closed' \in {closed, done} /\ strays' = strays \cup {"close"} /\ UNCHANGED <<held, context>>
  /\ UNCHANGED <<Call, index, matches, handle, listed, opened, shots, last>>

ReaderNext == \/ OpenLibrary \/ GetDeviceList \/ Inspect \/ OpenDevice \/ ReadSerial \/ EndSelection
              \/ FreeList \/ Snapshot \/ Wait \/ Close
ReaderSpec == ReaderInit /\ [][ReaderNext]_readerVars

-----------------------------------------------------------------------------
\* Whichever call fails and wherever the user interrupts, at the end every handle
\* that was opened is closed, the list is freed and the library left, unless a
\* stray interrupt left that very thing: the context right after libusb_init, the
\* list right after it was got or as it is freed, a handle right after it was
\* opened or as it is closed, handle and context before the with statement or as
\* it closes them. No handle is closed twice, unless the interrupt came between
\* the two steps that keep it. Snapshots come from the one device that was meant,
\* with nothing else open, and no more of them than asked for (select_device,
\* snapshot, close).
ReaderReleases ==
  /\ handle # 0 => handle \in opened \ closed
  /\ held # 0 /\ step # "end" /\ "keep" \notin strays => held \in opened \ closed
  /\ step = "end" =>
       /\ listed => strays \cap {"list", "free"} # {}
       /\ opened # closed => strays \cap {"open", "drop", "with", "close"} # {}
       /\ context = "live" => strays \cap {"init", "with", "close"} # {}
  /\ step \in {"read", "wait"} =>
       /\ opened \ closed = {held} /\ context = "live" /\ ~listed
       /\ {i \in Candidates : Wanted(devices[i].serial)} = {held}
  /\ shots <= watch

=============================================================================
