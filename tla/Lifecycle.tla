------------------------------ MODULE Lifecycle ------------------------------
(***************************************************************************)
(* What a controller of this provider promises about the one resource it   *)
(* holds at metal-API for an object: the private network of a              *)
(* MetalStackCluster, the raw machine of a MetalStackFirewall.             *)
(*                                                                         *)
(*   - the object names one resource; once it is on record it stays;       *)
(*   - only a deletion of the object gives a resource back, and only the   *)
(*     one on record;                                                      *)
(*   - an object under deletion goes after its resource, never before.     *)
(*                                                                         *)
(* Resources that were acquired and did not make it on record are outside  *)
(* of the promise: nobody gives them back.  And the promise ends with the  *)
(* first reconcile that works from an outdated copy of the record.         *)
(***************************************************************************)
CONSTANTS
  Resources,  \* the networks, or machines, of metal-API
  Nil         \* no resource

VARIABLES
  object,    \* "live", "deleting" or "gone"
  recorded,  \* the resource the object names
  held,      \* the resources that are allocated for this project
  astray     \* the controller has worked from an outdated copy

lifecycle == <<object, recorded, held, astray>>

Init ==
  /\ object = "live"
  /\ recorded \in Resources \cup {Nil}
  /\ held \in SUBSET Resources
  /\ astray = FALSE

\* A call that allocates may be carried out when the object is gone already.
Acquire ==
  /\ \E r \in Resources \ held : held' = held \cup {r}
  /\ UNCHANGED <<object, recorded, astray>>

Record ==
  /\ object # "gone" /\ recorded = Nil
  /\ recorded' \in held
  /\ UNCHANGED <<object, held, astray>>

\* A user deletes the object; without a finalizer it is gone at once.
Delete ==
  /\ object = "live"
  /\ object' \in {"deleting", "gone"}
  /\ UNCHANGED <<recorded, held, astray>>

Release ==
  /\ object = "deleting"
  /\ held' = held \ {recorded}
  /\ UNCHANGED <<object, recorded, astray>>

Remove ==
  /\ object = "deleting"
  /\ recorded \notin held
  /\ object' = "gone"
  /\ UNCHANGED <<recorded, held, astray>>

Next == Acquire \/ Record \/ Delete \/ Release \/ Remove

Spec == Init /\ [][Next \/ astray']_lifecycle
=============================================================================
