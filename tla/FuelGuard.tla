------------------------------ MODULE FuelGuard ------------------------------
(***************************************************************************)
(* What the composed fuel cuts promise the injector task: decisions are    *)
(* published whole, and every activation of the injector task acts on the  *)
(* last published decision, in both interfaces the ECU reads it from.      *)
(***************************************************************************)
EXTENDS Naturals

CONSTANTS Reasons,   \* why fuel may be cut
          Capacity   \* activations of the injector task the kernel queues

VARIABLES demand,    \* the reasons the last decision found
          requests,  \* activations asked for and not completed
          seen       \* <<flag, word>> as the injector task last read them

vars == <<demand, requests, seen>>

Init == demand = {} /\ requests = 0 /\ seen = <<FALSE, FALSE>>

Publish == /\ demand' \in SUBSET Reasons
           /\ UNCHANGED <<requests, seen>>

Ask == /\ requests < Capacity
       /\ requests' = requests + 1
       /\ UNCHANGED <<demand, seen>>

Observe == /\ requests > 0
           /\ LET cut == demand # {} IN seen' = <<cut, cut>>
           /\ UNCHANGED <<demand, requests>>

Finish == /\ requests > 0
          /\ requests' = requests - 1
          /\ UNCHANGED <<demand, seen>>

Next == Publish \/ Ask \/ Observe \/ Finish

Spec == Init /\ [][Next]_vars
=============================================================================
