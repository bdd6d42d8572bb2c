------------------------ MODULE MetalStackMachineLeaks ------------------------
(***************************************************************************)
(* Every fault costs at most one machine: a proof of LeakBound of the      *)
(* MetalStackMachine controller, for every set of objects and machines and *)
(* every number and kind of faults.                                        *)
(*                                                                         *)
(* LeakBound counts machines no object leads to.  The invariant, Budget,   *)
(* counts more: a machine is loose unless an object with a finalizer names *)
(* it, because other objects may be removed at any time, and a reconcile   *)
(* that works from a copy that is not the live object will lose one more   *)
(* when it ends.                                                           *)
(***************************************************************************)
EXTENDS MetalStackMachineProofs, Counting

\* The reconcile in flight works from a copy that is not the live object.
Astray ==
  /\ pc \notin {"idle", "patchStatus"}
  /\ before.providerID # Live.providerID \/ ~Live.exists

Secured(m) ==
  \E o \in Objects : /\ metalMachine[o].exists /\ metalMachine[o].finalizer
                     /\ metalMachine[o].providerID = m

Loose == {m \in Machines : machines[m] = "own" /\ ~Secured(m) /\ ~InFlight(m)}

Risk == IF Astray THEN 1 ELSE 0
Waiver == Cardinality(RemovedUnguarded)

Budget == Cardinality(Loose) + Risk <= faults.count + Waiver

\* What the copies know of a deletion and of the finalizer is true of the objects.
KnownOf(o) ==
  /\ cached[o].deleting => metalMachine[o].deleting
  /\ cached[o].finalizer => metalMachine[o].finalizer \/ ~metalMachine[o].exists
Knowing ==
  pc # "idle" =>
    /\ before.deleting => Live.deleting
    /\ before.finalizer => Live.finalizer \/ ~Live.exists

\* Under deletion an object is held by its finalizer.
HeldOf(o) == metalMachine[o].exists /\ metalMachine[o].deleting => metalMachine[o].finalizer

Objectwise == \A o \in Objects : KnownOf(o) /\ HeldOf(o)

\* Only a reconcile of a deleted object that has found no machine drops the finalizer.
Keeping == pc # "idle" /\ ~before.deleting => obj.finalizer
Deleting == pc \in {"MachineFind", "MachineDelete"} => before.deleting
Dropped == before.finalizer /\ ~obj.finalizer
Dropping ==
  Dropped =>
    /\ pc \in {"patchSpec", "patchStatus"}
    /\ pc = "patchSpec" => /\ obj.providerID = before.providerID
                           /\ Parses(obj.providerID)
                           /\ machines[obj.providerID] # "own"

\* A reconcile gives an object a machine only when it names none.
Recording ==
  obj.providerID # before.providerID =>
    pc \in {"setNodeProviderID", "patchSpec", "patchStatus"} /\ ~Parses(before.providerID)

InHand == Knowing /\ Keeping /\ Deleting /\ Dropping /\ Recording

Informed == Objectwise /\ InHand

\* What a reconcile holds when none is in flight.
LEMMA IdleInHand ==
  ASSUME pc = "idle", before = obj
  PROVE  InHand
  BY DEF InHand, Knowing, Keeping, Deleting, Dropping, Dropped, Recording

\* The spec patch takes the finalizer of an object under deletion only.
LEMMA PatchedFields ==
  ASSUME TypeOK, cur \in Objects
  PROVE  /\ PatchedSpec(Live).deleting = Live.deleting
         /\ PatchedSpec(Live).finalizer = Merged(Live.finalizer, before.finalizer, obj.finalizer)
         /\ PatchedSpec(Live).providerID =
              Merged(Live.providerID, before.providerID, obj.providerID)
         /\ PatchedSpec(Live).exists <=> (~Live.deleting \/ PatchedSpec(Live).finalizer)
         /\ PatchedStatus(Live).exists = Live.exists
         /\ PatchedStatus(Live).deleting = Live.deleting
         /\ PatchedStatus(Live).finalizer = Live.finalizer
         /\ PatchedStatus(Live).providerID = Live.providerID
<1>1. Live \in MachineObject
  BY DEF Live, TypeOK
<1>2. QED
  BY <1>1 DEF PatchedSpec, PatchedStatus, MachineObject

LEMMA PatchInforms ==
  ASSUME TypeOK, cur \in Objects, Informed, pc = "patchSpec", Live.exists
  PROVE  /\ PatchedSpec(Live).deleting = Live.deleting
         /\ PatchedSpec(Live).exists => PatchedSpec(Live).finalizer
         /\ ~PatchedSpec(Live).exists => Dropped
<1>1. /\ PatchedSpec(Live).deleting = Live.deleting
      /\ PatchedSpec(Live).finalizer = Merged(Live.finalizer, before.finalizer, obj.finalizer)
      /\ PatchedSpec(Live).exists <=> (~Live.deleting \/ PatchedSpec(Live).finalizer)
  BY PatchedFields
<1>2. Live.finalizer \in BOOLEAN /\ before.finalizer \in BOOLEAN /\ obj.finalizer \in BOOLEAN
  BY DEF Live, TypeOK, MachineObject
<1>3. ~obj.finalizer => before.deleting
  BY DEF Informed, InHand, Keeping
<1>4. before.deleting => Live.deleting
  BY DEF Informed, InHand, Knowing
<1>5. before.finalizer => Live.finalizer
  BY DEF Informed, InHand, Knowing
<1>6. Live.deleting => Live.finalizer
  BY DEF Informed, Objectwise, HeldOf, Live
<1>7. ~PatchedSpec(Live).finalizer => ~obj.finalizer
  BY <1>1, <1>2, <1>5 DEF Merged
<1>8. Live.finalizer /\ ~PatchedSpec(Live).finalizer => Dropped
  BY <1>1, <1>2 DEF Merged, Dropped
<1>9. QED
  BY <1>1, <1>3, <1>4, <1>6, <1>7, <1>8

\* Steps that leave the objects and what is in flight as it is.
LEMMA InformedStays ==
  ASSUME Informed, UNCHANGED <<metalMachine, cached, cur, before>>,
         obj'.finalizer = obj.finalizer,
         obj'.providerID = obj.providerID,
         pc # "idle", pc' # "idle",
         pc' \in {"MachineFind", "MachineDelete"} => pc \in {"MachineFind", "MachineDelete"},
         pc \in {"setNodeProviderID", "patchSpec", "patchStatus"} =>
           pc' \in {"setNodeProviderID", "patchSpec", "patchStatus"},
         pc \in {"patchSpec", "patchStatus"} => pc' \in {pc, "patchStatus"},
         machines'[obj.providerID] = "own" => machines[obj.providerID] = "own"
  PROVE  Informed'
<1>1. Objectwise'
  BY DEF Informed, Objectwise, KnownOf, HeldOf
<1>2. Knowing' /\ Keeping' /\ Deleting' /\ Recording'
  BY DEF Informed, InHand, Knowing, Keeping, Deleting, Recording, Live
<1>3. Dropped' => Dropped
  BY DEF Dropped
<1>4. Dropping'
  BY <1>3 DEF Informed, InHand, Dropping, Parses
<1>5. QED
  BY <1>1, <1>2, <1>4 DEF Informed, InHand

\* A restart forgets what was in flight.
LEMMA InformedRestart ==
  ASSUME Informed, Restart, UNCHANGED metalMachine
  PROVE  Informed'
<1>1. pc' = "idle" /\ before' = obj' /\ cached' = metalMachine
  BY DEF Restart
<1>2. InHand'
  BY <1>1 DEF InHand, Knowing, Keeping, Deleting, Dropping, Dropped, Recording
<1>3. Objectwise'
  BY <1>1 DEF Informed, Objectwise, KnownOf, HeldOf
<1>4. QED
  BY <1>2, <1>3 DEF Informed

\* No step of the reconcile makes a copy know what is not true.
LEMMA InformedController ==
  ASSUME Inv, Informed, Controller
  PROVE  Informed'
<1> USE DEF kube, metal, local, Goto, Return
<1>0. /\ TypeOK /\ DeletesOwn /\ obj \in MachineObject
      /\ machines \in [Machines -> {"free", "own", "foreign"}]
  BY DEF Inv, TypeOK
<1>1. ASSUME NEW o \in Objects, Reconcile(o)
      PROVE  Informed'
  <2>1. UNCHANGED <<metalMachine, cached, machines>> /\ pc = "idle"
    BY <1>1 DEF Reconcile
  <2>2. Objectwise'
    BY <2>1 DEF Informed, Objectwise, KnownOf, HeldOf
  <2>3. CASE UNCHANGED local
    BY <2>1, <2>2, <2>3 DEF Informed, InHand, Knowing, Keeping, Deleting, Dropping, Dropped,
                            Recording
  <2>4. CASE ~UNCHANGED local
    <3>1. /\ cur' = o /\ before' = cached[o]
          /\ \/ obj' = cached[o] /\ cached[o].deleting
             \/ /\ obj' = [cached[o] EXCEPT !.finalizer = TRUE]
                /\ pc' \notin {"MachineFind", "MachineDelete"}
      BY <1>1, <2>4 DEF Reconcile
    <3>2. cached[o] \in MachineObject
      BY <1>0 DEF TypeOK
    <3>3. /\ [cached[o] EXCEPT !.finalizer = TRUE].finalizer = TRUE
          /\ [cached[o] EXCEPT !.finalizer = TRUE].providerID = cached[o].providerID
      BY <3>2 DEF MachineObject
    <3>4. obj'.providerID = before'.providerID
      BY <3>1, <3>3
    <3>5. Keeping' /\ ~Dropped'
      BY <3>1, <3>3 DEF Keeping, Dropped
    <3>6. Deleting' /\ Dropping' /\ Recording'
      BY <3>1, <3>4, <3>5 DEF Deleting, Dropping, Recording
    <3>7. Knowing'
      BY <2>1, <3>1 DEF Informed, Objectwise, KnownOf, Knowing, Live
    <3>8. QED
      BY <2>2, <3>5, <3>6, <3>7 DEF Informed, InHand
  <2>5. QED
    BY <2>3, <2>4
<1>2. CASE MachineGet
  BY <1>2, InformedStays DEF MachineGet
<1>3. CASE MachineCreate
  <2>1. /\ UNCHANGED <<metalMachine, cached, cur, before>> /\ pc = "MachineCreate"
        /\ pc' \in {"setNodeProviderID", "patchSpec"}
    BY <1>3 DEF MachineCreate, SetFailure, Fail
  <2>2. \/ obj'.providerID = obj.providerID
        \/ \E m \in Machines : Requested(m) /\ obj'.providerID = m
    <3>1. [obj EXCEPT !.failure = TRUE].providerID = obj.providerID
      BY <1>0 DEF MachineObject
    <3>2. \A m \in Machines : [obj EXCEPT !.providerID = m].providerID = m
      BY <1>0 DEF MachineObject
    <3>3. QED
      BY <1>3, <3>1, <3>2 DEF MachineCreate, Created, SetFailure, Fail
  <2>3. obj'.finalizer = obj.finalizer
    BY <1>0, <1>3 DEF MachineCreate, Created, SetFailure, Fail, MachineObject
  <2>4. ~Dropped'
    BY <2>1, <2>3 DEF Informed, InHand, Dropping, Dropped
  <2>5. obj.providerID = before.providerID
    BY <2>1 DEF Informed, InHand, Recording
  <2>6. Recording'
    BY <2>1, <2>2, <2>5 DEF Recording, Requested, Parses
  <2>7. Knowing' /\ Keeping' /\ Deleting' /\ Dropping'
    BY <2>1, <2>3, <2>4 DEF Informed, InHand, Knowing, Keeping, Deleting, Dropping, Live
  <2>8. Objectwise'
    BY <2>1 DEF Informed, Objectwise, KnownOf, HeldOf
  <2>9. QED
    BY <2>6, <2>7, <2>8 DEF Informed, InHand
<1>4. CASE SetNodeProviderID
  <2>1. /\ UNCHANGED <<metalMachine, cached, cur, before, machines>>
        /\ pc = "setNodeProviderID" /\ pc' = "patchSpec"
    BY <1>4 DEF SetNodeProviderID, Fail
  <2>2. obj'.finalizer = obj.finalizer /\ obj'.providerID = obj.providerID
    BY <1>0, <1>4 DEF SetNodeProviderID, Fail, MachineObject
  <2>3. QED
    BY <2>1, <2>2, InformedStays
<1>5. CASE MachineFind \/ MachineDelete
  <2>1. /\ UNCHANGED <<metalMachine, cached, cur, before>>
        /\ pc \in {"MachineFind", "MachineDelete"} /\ pc' \in {"MachineDelete", "patchSpec"}
    BY <1>5 DEF MachineFind, MachineDelete, DeleteRefused, LetGo, Fail
  <2>2. /\ Parses(obj.providerID) /\ before.deleting
        /\ obj.providerID = before.providerID
    BY <1>0, <2>1 DEF DeletesOwn, Informed, InHand, Deleting, Recording
  <2>3. CASE UNCHANGED obj
    <3>1. machines'[obj.providerID] = "own" => machines[obj.providerID] = "own"
      BY <1>0, <1>5, <2>2 DEF MachineFind, MachineDelete, Freed, Parses
    <3>2. QED
      BY <2>1, <2>3, <3>1, InformedStays
  <2>4. CASE LetGo
    <3>1. obj'.providerID = obj.providerID /\ pc' = "patchSpec"
      BY <1>0, <2>4 DEF LetGo, MachineObject
    <3>2. machines'[obj.providerID] # "own"
      <4>1. CASE MachineDelete
        <5>1. again' = FALSE
          BY <2>4 DEF LetGo
        <5>2. machines' = [machines EXCEPT ![obj.providerID] = "free"]
          BY <4>1, <5>1 DEF MachineDelete, DeleteRefused, Fail, Freed
        <5>3. QED
          BY <1>0, <2>2, <5>2 DEF Parses
      <4>2. CASE MachineFind
        <5>1. again' = FALSE /\ pc' = "patchSpec"
          BY <2>4 DEF LetGo
        <5>2. QED
          BY <4>2, <5>1 DEF MachineFind, Fail, Found
      <4>3. QED
        BY <1>5, <4>1, <4>2
    <3>3. Dropping' /\ Recording'
      BY <2>1, <2>2, <3>1, <3>2 DEF Dropping, Recording, Parses
    <3>4. Knowing' /\ Keeping' /\ Deleting'
      BY <2>1, <2>2, <3>1 DEF Informed, InHand, Knowing, Keeping, Deleting, Live
    <3>5. Objectwise'
      BY <2>1 DEF Informed, Objectwise, KnownOf, HeldOf
    <3>6. QED
      BY <3>3, <3>4, <3>5 DEF Informed, InHand
  <2>5. QED
    BY <1>5, <2>3, <2>4 DEF MachineFind, MachineDelete, DeleteRefused, Fail
<1>6. CASE PatchSpec
  <2>1. /\ UNCHANGED <<cached, cur, before, obj, machines>>
        /\ pc = "patchSpec" /\ pc' = "patchStatus" /\ cur \in Objects
    BY <1>0, <1>6 DEF PatchSpec, DeletesOwn
  <2>2. CASE UNCHANGED metalMachine
    BY <2>1, <2>2, InformedStays
  <2>3. CASE /\ Live.exists
             /\ metalMachine' = [metalMachine EXCEPT ![cur] = PatchedSpec(metalMachine[cur])]
    <3>1. metalMachine'[cur] = PatchedSpec(Live)
      BY <1>0, <2>1, <2>3 DEF TypeOK, Live
    <3>2. \A o \in Objects \ {cur} : metalMachine'[o] = metalMachine[o]
      BY <1>0, <2>3 DEF TypeOK
    <3>3. /\ metalMachine'[cur].deleting = metalMachine[cur].deleting
          /\ metalMachine'[cur].exists => metalMachine'[cur].finalizer
      BY <1>0, <2>1, <2>3, <3>1, PatchInforms DEF Live
    <3>4. Objectwise'
      BY <2>1, <3>2, <3>3 DEF Informed, Objectwise, KnownOf, HeldOf
    <3>5. Knowing'
      BY <2>1, <3>3 DEF Informed, InHand, Knowing, Live
    <3>6. Keeping' /\ Deleting' /\ Dropping' /\ Recording'
      BY <2>1 DEF Informed, InHand, Keeping, Deleting, Dropping, Dropped, Recording
    <3>7. QED
      BY <3>4, <3>5, <3>6 DEF Informed, InHand
  <2>4. QED
    BY <1>6, <2>2, <2>3 DEF PatchSpec, Live
<1>7. CASE PatchStatus
  <2>1. UNCHANGED cached /\ pc' = "idle" /\ before' = obj' /\ cur \in Objects
    BY <1>0, <1>7 DEF PatchStatus, DeletesOwn
  <2>2. metalMachine' \in {metalMachine,
                           [metalMachine EXCEPT ![cur] = PatchedStatus(metalMachine[cur])]}
    BY <1>7 DEF PatchStatus
  <2>3. \A o \in Objects : /\ metalMachine'[o].exists = metalMachine[o].exists
                           /\ metalMachine'[o].deleting = metalMachine[o].deleting
                           /\ metalMachine'[o].finalizer = metalMachine[o].finalizer
    BY <1>0, <2>1, <2>2, PatchedFields DEF TypeOK, Live
  <2>4. Objectwise'
    BY <2>1, <2>3 DEF Informed, Objectwise, KnownOf, HeldOf
  <2>5. InHand'
    BY <2>1 DEF InHand, Knowing, Keeping, Deleting, Dropping, Dropped, Recording
  <2>6. QED
    BY <2>4, <2>5 DEF Informed
<1>8. QED
  BY <1>1, <1>2, <1>3, <1>4, <1>5, <1>6, <1>7 DEF Controller

\* Nor does a step of the world.
LEMMA InformedEnvironment ==
  ASSUME Inv, Informed, Environment
  PROVE  Informed'
<1> USE DEF kube, metal, local
<1>0. /\ TypeOK /\ DeletesOwn /\ obj \in MachineObject
      /\ machines \in [Machines -> {"free", "own", "foreign"}]
  BY DEF Inv, TypeOK
<1>1. CASE Crash
  BY <1>1, InformedRestart DEF Crash
<1>s. ASSUME UNCHANGED <<metalMachine, cached, cur, before, obj, pc>>,
             \A m \in Machines : machines'[m] = "own" => machines[m] = "own"
      PROVE  Informed'
  <2>1. Objectwise'
    BY <1>s DEF Informed, Objectwise, KnownOf, HeldOf
  <2>2. Knowing' /\ Keeping' /\ Deleting' /\ Recording'
    BY <1>s DEF Informed, InHand, Knowing, Keeping, Deleting, Recording, Live
  <2>3. Dropping'
    BY <1>s DEF Informed, InHand, Dropping, Dropped, Parses
  <2>4. QED
    BY <2>1, <2>2, <2>3 DEF Informed, InHand
<1>2. ASSUME NEW o \in Objects, Refresh(o)
      PROVE  Informed'
  <2>1. /\ UNCHANGED <<metalMachine, cur, before, obj, pc, machines>>
        /\ \A p \in Objects : cached'[p] \in {cached[p], metalMachine[p]}
    BY <1>0, <1>2 DEF Refresh, TypeOK
  <2>2. Objectwise'
    BY <2>1 DEF Informed, Objectwise, KnownOf, HeldOf
  <2>3. InHand'
    BY <2>1 DEF Informed, InHand, Knowing, Keeping, Deleting, Recording, Live, Dropping, Dropped
  <2>4. QED
    BY <2>2, <2>3 DEF Informed
<1>3. ASSUME NEW o \in Objects, DeleteMachine(o)
      PROVE  Informed'
  <2>1. UNCHANGED <<cached, cur, before, obj, pc, machines>>
    BY <1>3 DEF DeleteMachine
  <2>2. metalMachine[o] \in MachineObject
    BY <1>0 DEF TypeOK
  <2>3. /\ metalMachine'[o].finalizer = metalMachine[o].finalizer
        /\ metalMachine[o].deleting => metalMachine'[o].deleting
        /\ metalMachine'[o].exists => metalMachine[o].exists
        /\ metalMachine'[o].exists /\ metalMachine'[o].deleting => metalMachine[o].finalizer
    BY <1>0, <1>3, <2>2 DEF DeleteMachine, TypeOK, MachineObject
  <2>4. \A p \in Objects \ {o} : metalMachine'[p] = metalMachine[p]
    BY <1>0, <1>3 DEF DeleteMachine, TypeOK
  <2>5. Objectwise'
    BY <2>1, <2>3, <2>4 DEF Informed, Objectwise, KnownOf, HeldOf
  <2>6. pc # "idle" => cur \in Objects
    BY <1>0 DEF DeletesOwn
  <2>7. Knowing'
    BY <2>1, <2>3, <2>4, <2>6 DEF Informed, InHand, Knowing, Live
  <2>8. Keeping' /\ Deleting' /\ Recording' /\ Dropping'
    BY <2>1 DEF Informed, InHand, Keeping, Deleting, Recording, Dropping, Dropped
  <2>9. QED
    BY <2>5, <2>7, <2>8 DEF Informed, InHand
<1>4. CASE \/ \E o \in Objects : SetOwnerRef(o) \/ SetBootstrap(o)
           \/ NetworkRecorded \/ AddressRecorded \/ ClusterGone
           \/ InfrastructureReady \/ TogglePause
           \/ (\E m \in Machines : NodeJoins(m)) \/ (\E n \in nodes : NodeDeleted(n))
  <2>1. UNCHANGED <<metalMachine, cached, cur, before, obj, pc, machines>>
    BY <1>4 DEF SetOwnerRef, SetBootstrap, NetworkRecorded, AddressRecorded, ClusterGone,
                ClusterMoves, InfrastructureReady, TogglePause, NodeJoins, NodeDeleted
  <2>2. QED
    BY <1>s, <2>1
<1>5. ASSUME NEW m \in Machines, NEW from \in {"free", "foreign"}, NEW to \in {"free", "foreign"},
             ForeignMoves(m, from, to)
      PROVE  Informed'
  <2>1. /\ UNCHANGED <<metalMachine, cached, cur, before, obj, pc>>
        /\ \A n \in Machines : machines'[n] = "own" => machines[n] = "own"
    BY <1>0, <1>5 DEF ForeignMoves
  <2>2. QED
    BY <1>s, <2>1
<1>6. Foreign \subseteq Machines
  BY MachineAssumptions DEF MachineAssumptions
<1>7. QED
  BY <1>1, <1>2, <1>3, <1>4, <1>5, <1>6 DEF Environment
-----------------------------------------------------------------------------
(* What a step costs                                                       *)

LEMMA BudgetTyped ==
  ASSUME TypeOK
  PROVE  /\ IsFiniteSet(Loose) /\ Cardinality(Loose) \in Nat
         /\ IsFiniteSet(RemovedUnguarded) /\ Waiver \in Nat
         /\ Risk \in 0..1 /\ faults.count \in Nat
<1>1. Loose \subseteq Machines /\ IsFiniteSet(Machines)
  BY MachineAssumptions DEF Loose, MachineAssumptions
<1>2. RemovedUnguarded \subseteq Objects /\ IsFiniteSet(Objects)
  BY MachineAssumptions DEF RemovedUnguarded, MachineAssumptions
<1>3. faults.count \in Nat
  BY MachineAssumptions DEF TypeOK, FaultLog, MachineAssumptions
<1>4. Risk \in 0..1
  BY DEF Risk
<1>5. QED
  BY <1>1, <1>2, <1>3, <1>4, NoMore DEF Waiver

LEMMA BudgetTypedNext ==
  ASSUME TypeOK'
  PROVE  /\ Cardinality(Loose') \in Nat /\ Waiver' \in Nat
         /\ Risk' \in 0..1 /\ faults'.count \in Nat
<1>1. Loose' \subseteq Machines /\ IsFiniteSet(Machines)
  BY MachineAssumptions DEF Loose, MachineAssumptions
<1>2. RemovedUnguarded' \subseteq Objects /\ IsFiniteSet(Objects)
  BY MachineAssumptions DEF RemovedUnguarded, MachineAssumptions
<1>3. faults'.count \in Nat
  BY MachineAssumptions DEF TypeOK, FaultLog, MachineAssumptions
<1>4. Risk' \in 0..1
  BY DEF Risk
<1>5. Cardinality(Loose') \in Nat /\ Cardinality(RemovedUnguarded') \in Nat
  BY <1>1, <1>2, NoMore
<1>6. QED
  BY <1>3, <1>4, <1>5 DEF Waiver

\* A fault is one fault.
LEMMA FaultCounts ==
  ASSUME TypeOK, NEW kind, Fault(kind)
  PROVE  faults'.count = faults.count + 1
  BY DEF Fault, Struck

\* A step that loses no machine.
LEMMA NothingLost ==
  ASSUME TypeOK, TypeOK', Budget, Loose' \subseteq Loose,
         Risk' + faults.count + Waiver <= Risk + faults'.count + Waiver'
  PROVE  Budget'
<1>1. Cardinality(Loose') <= Cardinality(Loose)
  BY BudgetTyped, NoMore
<1>2. /\ Cardinality(Loose) \in Nat /\ faults.count \in Nat /\ Risk \in 0..1 /\ Waiver \in Nat
  BY BudgetTyped
<1>3. /\ Cardinality(Loose') \in Nat /\ faults'.count \in Nat /\ Risk' \in 0..1
      /\ Waiver' \in Nat
  BY BudgetTypedNext
<1>4. Cardinality(Loose) + Risk <= faults.count + Waiver
  BY DEF Budget
<1>5. Cardinality(Loose') + Risk' <= faults'.count + Waiver'
  BY <1>1, <1>2, <1>3, <1>4
<1>6. QED
  BY <1>5 DEF Budget

\* A step that loses one machine, and pays for it.
LEMMA OneLost ==
  ASSUME TypeOK, TypeOK', Budget, NEW lost, Loose' \subseteq Loose \cup {lost},
         1 + Risk' + faults.count + Waiver <= Risk + faults'.count + Waiver'
  PROVE  Budget'
<1>1. Cardinality(Loose') <= Cardinality(Loose) + 1
  BY BudgetTyped, OneMore
<1>2. /\ Cardinality(Loose) \in Nat /\ faults.count \in Nat /\ Risk \in 0..1 /\ Waiver \in Nat
  BY BudgetTyped
<1>3. /\ Cardinality(Loose') \in Nat /\ faults'.count \in Nat /\ Risk' \in 0..1
      /\ Waiver' \in Nat
  BY BudgetTypedNext
<1>4. Cardinality(Loose) + Risk <= faults.count + Waiver
  BY DEF Budget
<1>5. Cardinality(Loose') + Risk' <= faults'.count + Waiver'
  BY <1>1, <1>2, <1>3, <1>4
<1>6. QED
  BY <1>5 DEF Budget

\* What the steps of the world and of the status patch leave alone.
Settled ==
  /\ \A o \in Objects : /\ metalMachine'[o].exists = metalMachine[o].exists
                        /\ metalMachine'[o].deleting = metalMachine[o].deleting
                        /\ metalMachine'[o].finalizer = metalMachine[o].finalizer
                        /\ metalMachine'[o].providerID = metalMachine[o].providerID

LEMMA SettledKeeps ==
  ASSUME Settled
  PROVE  /\ Waiver' = Waiver
         /\ \A m \in Machines : Secured(m)' <=> Secured(m)
<1>1. RemovedUnguarded' = RemovedUnguarded
  BY DEF Settled, RemovedUnguarded
<1>2. QED
  BY <1>1 DEF Settled, Waiver, Secured

\* A step that leaves the objects where they are, carries on what is in flight and
\* allocates nothing.
LEMMA Quiet ==
  ASSUME TypeOK, TypeOK', Budget, Settled,
         \A m \in Machines : machines'[m] = "own" => machines[m] = "own",
         pc \in {"setNodeProviderID", "patchSpec"} =>
           /\ pc' \in {"setNodeProviderID", "patchSpec"}
           /\ obj'.providerID = obj.providerID,
         Risk' + faults.count <= Risk + faults'.count
  PROVE  Budget'
<1>1. Loose' \subseteq Loose
  BY SettledKeeps DEF Loose, InFlight
<1>2. Waiver' = Waiver
  BY SettledKeeps
<1>3. /\ faults.count \in Nat /\ faults'.count \in Nat /\ Risk \in 0..1 /\ Risk' \in 0..1
      /\ Waiver \in Nat
  BY BudgetTyped, BudgetTypedNext
<1>4. Risk' + faults.count + Waiver <= Risk + faults'.count + Waiver'
  BY <1>2, <1>3
<1>5. QED
  BY <1>1, <1>4, NothingLost

\* A reconcile that ends without its patch may lose the machine in flight.
LEMMA Abandoned ==
  ASSUME TypeOK, TypeOK', Budget, UNCHANGED <<metalMachine, machines>>,
         pc' \in {"idle", "patchStatus"}, faults.count + 1 <= Risk + faults'.count
  PROVE  Budget'
<1>1. Settled
  BY DEF Settled
<1>2. Risk' = 0 /\ Waiver' = Waiver
  BY <1>1, SettledKeeps DEF Risk, Astray
<1>3. /\ faults.count \in Nat /\ faults'.count \in Nat /\ Risk \in 0..1 /\ Waiver \in Nat
  BY BudgetTyped, BudgetTypedNext
<1>4. Loose' \subseteq Loose \cup {obj.providerID}
  BY <1>1, SettledKeeps DEF Loose, InFlight
<1>5. 1 + Risk' + faults.count + Waiver <= Risk + faults'.count + Waiver'
  BY <1>2, <1>3
<1>6. QED
  BY <1>4, <1>5, OneLost

\* The end of a reconcile: its patch is not needed, or fails, or is applied.
LEMMA PatchPays ==
  ASSUME Inv, TypeOK', Informed, Budget, PatchSpec
  PROVE  Budget'
<1> USE DEF kube, metal, local
<1>0. TypeOK /\ DeletesOwn
  BY DEF Inv
<1>n. /\ faults.count \in Nat /\ faults'.count \in Nat /\ Risk \in 0..1 /\ Risk' \in 0..1
      /\ Waiver \in Nat /\ Waiver' \in Nat
  BY <1>0, BudgetTyped, BudgetTypedNext
<1>1. /\ UNCHANGED <<machines, cur>> /\ pc = "patchSpec" /\ pc' = "patchStatus"
      /\ cur \in Objects
  BY <1>0 DEF PatchSpec, DeletesOwn
<1>2. Risk' = 0
  BY <1>1 DEF Risk, Astray
<1>3. CASE Astray /\ UNCHANGED <<metalMachine, faults>>
  <2>1. Risk = 1
    BY <1>3 DEF Risk
  <2>2. faults.count + 1 <= Risk + faults'.count
    BY <1>n, <1>3, <2>1
  <2>3. QED
    BY <1>0, <1>1, <1>3, <2>2, Abandoned
<1>4. CASE ~Astray /\ UNCHANGED <<metalMachine, faults>> /\ SpecOf(obj) = SpecOf(before)
  <2>1. obj.providerID = before.providerID /\ obj.finalizer = before.finalizer
    BY <1>4 DEF SpecOf
  <2>2. Live.exists /\ Live.providerID = obj.providerID
    BY <1>1, <1>4, <2>1 DEF Astray
  <2>3. Live.finalizer
    <3>1. CASE before.deleting
      BY <1>1, <2>2, <3>1 DEF Informed, InHand, Knowing, Objectwise, HeldOf, Live
    <3>2. CASE ~before.deleting
      BY <1>1, <2>1, <2>2, <3>2 DEF Informed, InHand, Knowing, Keeping
    <3>3. QED
      BY <3>1, <3>2
  <2>4. Secured(obj.providerID)
    BY <1>1, <2>2, <2>3 DEF Secured, Live
  <2>5. Settled
    BY <1>4 DEF Settled
  <2>6. Loose' \subseteq Loose
    BY <1>1, <2>4, <2>5, SettledKeeps DEF Loose, InFlight
  <2>7. Waiver' = Waiver
    BY <2>5, SettledKeeps
  <2>8. faults'.count = faults.count
    BY <1>4
  <2>9. Risk' + faults.count + Waiver <= Risk + faults'.count + Waiver'
    BY <1>n, <1>2, <2>7, <2>8
  <2>10. QED
    BY <1>0, <2>6, <2>9, NothingLost
<1>5. CASE UNCHANGED metalMachine /\ Live.exists /\ Fault("patch")
  <2>1. faults.count + 1 <= Risk + faults'.count
    BY <1>0, <1>n, <1>5, FaultCounts
  <2>2. QED
    BY <1>0, <1>1, <1>5, <2>1, Abandoned
<1>6. CASE UNCHANGED <<metalMachine, faults>> /\ ~Live.exists
  BY <1>1, <1>3, <1>6 DEF Astray
<1>7. CASE /\ Live.exists /\ UNCHANGED faults
           /\ metalMachine' = [metalMachine EXCEPT ![cur] = PatchedSpec(metalMachine[cur])]
  <2> DEFINE o == metalMachine'[cur]
  <2>1. o = PatchedSpec(Live)
    BY <1>0, <1>1, <1>7 DEF TypeOK, Live
  <2>2. \A p \in Objects \ {cur} : metalMachine'[p] = metalMachine[p]
    BY <1>0, <1>7 DEF TypeOK
  <2>3. /\ o.deleting = Live.deleting
        /\ o.exists => o.finalizer
        /\ ~o.exists => Dropped
    BY <1>0, <1>1, <1>7, <2>1, PatchInforms
  <2>4. o.providerID = Merged(Live.providerID, before.providerID, obj.providerID)
    BY <1>0, <1>1, <2>1, PatchedFields
  <2>5. Dropped => /\ obj.providerID = before.providerID
                   /\ machines[obj.providerID] # "own"
    BY <1>1 DEF Informed, InHand, Dropping
  <2>6. Waiver' = Waiver
    <3>1. Dropped => Live.deleting
      BY <1>1 DEF Informed, InHand, Keeping, Knowing, Dropped
    <3>2. \A p \in Objects : ~metalMachine'[p].exists /\ ~metalMachine'[p].deleting <=>
                             ~metalMachine[p].exists /\ ~metalMachine[p].deleting
      BY <1>1, <1>7, <2>2, <2>3, <3>1 DEF Live
    <3>3. RemovedUnguarded' = RemovedUnguarded
      BY <3>2 DEF RemovedUnguarded
    <3>4. QED
      BY <3>3 DEF Waiver
  <2>7. \A m \in Machines : Secured(m) /\ m # Live.providerID => Secured(m)'
    BY <2>2 DEF Secured, Live
  <2>8. \A m \in Machines : o.exists /\ m = o.providerID => Secured(m)'
    BY <1>1, <2>3 DEF Secured
  <2>9. faults'.count = faults.count
    BY <1>7
  <2> HIDE DEF o
  <2>10. CASE Astray
    <3>1. PICK lost : Loose' \subseteq Loose \cup {lost}
      <4>1. CASE o.exists /\ o.providerID = obj.providerID
        <5>1. Loose' \subseteq Loose \cup {Live.providerID}
          BY <1>1, <2>7, <2>8, <4>1 DEF Loose, InFlight
        <5>2. QED
          BY <5>1
      <4>2. CASE o.exists /\ o.providerID = Live.providerID
        <5>1. Loose' \subseteq Loose \cup {obj.providerID}
          BY <1>1, <2>7, <2>8, <4>2 DEF Loose, InFlight
        <5>2. QED
          BY <5>1
      <4>3. CASE ~o.exists
        <5>1. Loose' \subseteq Loose \cup {Live.providerID}
          BY <1>1, <2>3, <2>5, <2>7, <4>3 DEF Loose, InFlight
        <5>2. QED
          BY <5>1
      <4>4. QED
        BY <2>4, <4>1, <4>2, <4>3 DEF Merged
    <3>2. Risk = 1
      BY <2>10 DEF Risk
    <3>3. 1 + Risk' + faults.count + Waiver <= Risk + faults'.count + Waiver'
      BY <1>n, <1>2, <2>6, <2>9, <3>2
    <3>4. QED
      BY <1>0, <3>1, <3>3, OneLost
  <2>11. CASE ~Astray
    <3>1. before.providerID = Live.providerID
      BY <1>1, <2>11 DEF Astray
    <3>2. o.providerID = obj.providerID
      BY <2>4, <3>1 DEF Merged
    <3>3. obj.providerID = Live.providerID \/ Live.providerID \notin Machines
      BY <3>1 DEF Informed, InHand, Recording, Parses
    <3>4. Loose' \subseteq Loose
      BY <1>1, <2>3, <2>5, <2>7, <2>8, <3>2, <3>3 DEF Loose, InFlight
    <3>5. Risk' + faults.count + Waiver <= Risk + faults'.count + Waiver'
      BY <1>n, <1>2, <2>6, <2>9
    <3>6. QED
      BY <1>0, <3>4, <3>5, NothingLost
  <2>12. QED
    BY <2>10, <2>11
<1>8. QED
  BY <1>3, <1>4, <1>5, <1>6, <1>7 DEF PatchSpec, Live

\* A step of the reconcile costs one machine at most, and only when a fault strikes
\* or has put the reconcile at risk.
LEMMA ControllerPays ==
  ASSUME Inv, TypeOK', Informed, Budget, Controller
  PROVE  Budget'
<1> USE DEF kube, metal, local, Goto, Return
<1>0. /\ TypeOK /\ DeletesOwn /\ obj \in MachineObject
      /\ machines \in [Machines -> {"free", "own", "foreign"}]
  BY DEF Inv, TypeOK
<1>n. /\ faults.count \in Nat /\ faults'.count \in Nat /\ Risk \in 0..1 /\ Risk' \in 0..1
      /\ Waiver \in Nat /\ Waiver' \in Nat
  BY <1>0, BudgetTyped, BudgetTypedNext
<1>u. UNCHANGED metalMachine => Settled
  BY DEF Settled
<1>r. UNCHANGED <<metalMachine, cur, before>> /\ pc \notin {"idle", "patchStatus"}
        => Risk' <= Risk
  BY DEF Risk, Astray, Live
<1>1. ASSUME NEW o \in Objects, Reconcile(o)
      PROVE  Budget'
  <2>1. UNCHANGED <<metalMachine, machines>> /\ pc = "idle"
    BY <1>1 DEF Reconcile
  <2>2. Settled /\ Risk = 0
    BY <1>u, <2>1 DEF Risk, Astray
  <2>3. CASE cached[o] = metalMachine[o]
    <3>1. Risk' = 0
      <4>1. CASE UNCHANGED local
        BY <2>1, <4>1 DEF Risk, Astray
      <4>2. CASE ~UNCHANGED local
        <5>1. cur' = o /\ before' = cached[o] /\ cached[o].exists
          BY <1>1, <4>2 DEF Reconcile, Resources
        <5>2. QED
          BY <2>1, <2>3, <5>1 DEF Risk, Astray, Live
      <4>3. QED
        BY <4>1, <4>2
    <3>2. faults'.count = faults.count
      BY <1>1, <2>3 DEF Reconcile
    <3>3. Risk' + faults.count <= Risk + faults'.count
      BY <1>n, <2>2, <3>1, <3>2
    <3>4. QED
      BY <1>0, <2>1, <2>2, <3>3, Quiet
  <2>4. CASE cached[o] # metalMachine[o]
    <3>1. faults'.count = faults.count + 1
      BY <1>0, <1>1, <2>4, FaultCounts DEF Reconcile
    <3>2. Risk' + faults.count <= Risk + faults'.count
      BY <1>n, <3>1
    <3>3. QED
      BY <1>0, <2>1, <2>2, <3>2, Quiet
  <2>5. QED
    BY <2>3, <2>4
<1>2. CASE MachineGet \/ MachineFind
  <2>1. /\ UNCHANGED <<metalMachine, machines, cur, before, faults>>
        /\ pc \in {"MachineGet", "MachineFind"}
    BY <1>2 DEF MachineGet, MachineFind
  <2>2. Risk' + faults.count <= Risk + faults'.count
    BY <1>n, <1>r, <2>1
  <2>3. QED
    BY <1>0, <1>u, <2>1, <2>2, Quiet
<1>3. CASE MachineCreate
  <2>1. /\ UNCHANGED <<metalMachine, cur, before>> /\ pc = "MachineCreate"
        /\ pc' \in {"setNodeProviderID", "patchSpec"}
    BY <1>3 DEF MachineCreate, SetFailure, Fail
  <2>2. Risk' <= Risk /\ Settled
    BY <1>r, <1>u, <2>1
  <2>3. CASE UNCHANGED machines
    <3>1. faults'.count >= faults.count
      BY <1>0, <1>3, <1>n, FaultCounts DEF MachineCreate
    <3>2. Risk' + faults.count <= Risk + faults'.count
      BY <1>n, <2>2, <3>1
    <3>3. QED
      BY <1>0, <2>1, <2>2, <2>3, <3>2, Quiet
  <2>4. ASSUME NEW m \in Machines, machines' = [machines EXCEPT ![m] = "own"],
               Created(m), pc' = "setNodeProviderID", UNCHANGED faults
        PROVE  Budget'
    <3>1. obj'.providerID = m
      BY <1>0, <2>4 DEF Created, MachineObject
    <3>2. Loose' \subseteq Loose
      BY <1>0, <2>1, <2>2, <2>4, <3>1, SettledKeeps DEF Loose, InFlight
    <3>3. faults'.count = faults.count /\ Waiver' = Waiver
      BY <2>2, <2>4, SettledKeeps
    <3>4. Risk' + faults.count + Waiver <= Risk + faults'.count + Waiver'
      BY <1>n, <2>2, <3>3
    <3>5. QED
      BY <1>0, <3>2, <3>4, NothingLost
  <2>5. ASSUME NEW m \in Machines, machines' = [machines EXCEPT ![m] = "own"],
               Fault("reply")
        PROVE  Budget'
    <3>1. Loose' \subseteq Loose \cup {m}
      BY <1>0, <2>1, <2>2, <2>5, SettledKeeps DEF Loose, InFlight
    <3>2. faults'.count = faults.count + 1
      BY <1>0, <2>5, FaultCounts
    <3>3. Waiver' = Waiver
      BY <2>2, SettledKeeps
    <3>4. 1 + Risk' + faults.count + Waiver <= Risk + faults'.count + Waiver'
      BY <1>n, <2>2, <3>2, <3>3
    <3>5. QED
      BY <1>0, <3>1, <3>4, OneLost
  <2>6. QED
    BY <1>3, <2>3, <2>4, <2>5 DEF MachineCreate
<1>4. CASE SetNodeProviderID
  <2>1. /\ UNCHANGED <<metalMachine, machines, cur, before, faults>>
        /\ pc = "setNodeProviderID" /\ pc' = "patchSpec"
    BY <1>4 DEF SetNodeProviderID, Fail
  <2>2. obj'.providerID = obj.providerID
    BY <1>0, <1>4 DEF SetNodeProviderID, Fail, MachineObject
  <2>3. Risk' + faults.count <= Risk + faults'.count
    BY <1>n, <1>r, <2>1
  <2>4. QED
    BY <1>0, <1>u, <2>1, <2>2, <2>3, Quiet
<1>5. CASE MachineDelete
  <2>1. UNCHANGED <<metalMachine, cur, before>> /\ pc = "MachineDelete"
    BY <1>5 DEF MachineDelete
  <2>2. faults'.count >= faults.count
    BY <1>0, <1>5, <1>n, FaultCounts DEF MachineDelete
  <2>3. Risk' + faults.count <= Risk + faults'.count
    BY <1>n, <1>r, <2>1, <2>2
  <2>4. \A m \in Machines : machines'[m] = "own" => machines[m] = "own"
    BY <1>0, <1>5 DEF MachineDelete, Freed
  <2>5. QED
    BY <1>0, <1>u, <2>1, <2>3, <2>4, Quiet
<1>6. CASE PatchSpec
  BY <1>6, PatchPays
<1>7. CASE PatchStatus
  <2>1. UNCHANGED machines /\ pc = "patchStatus" /\ pc' = "idle" /\ cur \in Objects
    BY <1>0, <1>7 DEF PatchStatus, DeletesOwn
  <2>2. metalMachine' \in {metalMachine,
                           [metalMachine EXCEPT ![cur] = PatchedStatus(metalMachine[cur])]}
    BY <1>7 DEF PatchStatus
  <2>3. Settled
    BY <1>0, <2>1, <2>2, PatchedFields DEF Settled, TypeOK, Live
  <2>4. Risk' = 0
    BY <2>1 DEF Risk, Astray
  <2>5. faults'.count >= faults.count
    BY <1>0, <1>7, <1>n, FaultCounts DEF PatchStatus
  <2>6. Risk' + faults.count <= Risk + faults'.count
    BY <1>n, <2>4, <2>5
  <2>7. QED
    BY <1>0, <2>1, <2>3, <2>6, Quiet
<1>8. QED
  BY <1>1, <1>2, <1>3, <1>4, <1>5, <1>6, <1>7 DEF Controller

\* A crash costs the machine in flight; the removal of an object without a finalizer
\* costs what a reconcile holds for it.
LEMMA EnvironmentPays ==
  ASSUME Inv, TypeOK', Informed, Budget, Environment
  PROVE  Budget'
<1> USE DEF kube, metal, local
<1>0. /\ TypeOK /\ DeletesOwn
      /\ machines \in [Machines -> {"free", "own", "foreign"}]
  BY DEF Inv, TypeOK
<1>n. /\ faults.count \in Nat /\ faults'.count \in Nat /\ Risk \in 0..1 /\ Risk' \in 0..1
      /\ Waiver \in Nat /\ Waiver' \in Nat
  BY <1>0, BudgetTyped, BudgetTypedNext
<1>1. CASE Crash
  <2>1. UNCHANGED <<metalMachine, machines>> /\ pc' = "idle"
    BY <1>1 DEF Crash, Restart
  <2>2. faults'.count = faults.count + 1
    BY <1>0, <1>1, FaultCounts DEF Crash
  <2>3. faults.count + 1 <= Risk + faults'.count
    BY <1>n, <2>2
  <2>4. QED
    BY <1>0, <2>1, <2>3, Abandoned
<1>s. ASSUME UNCHANGED <<metalMachine, cur, before, obj, pc>>,
             \A m \in Machines : machines'[m] = "own" => machines[m] = "own",
             faults'.count >= faults.count
      PROVE  Budget'
  <2>1. Settled
    BY <1>s DEF Settled
  <2>2. Risk' = Risk
    BY <1>s DEF Risk, Astray, Live
  <2>3. Risk' + faults.count <= Risk + faults'.count
    BY <1>n, <1>s, <2>2
  <2>4. QED
    BY <1>0, <1>s, <2>1, <2>3, Quiet
<1>2. CASE \/ \E o \in Objects : Refresh(o) \/ SetOwnerRef(o) \/ SetBootstrap(o)
           \/ NetworkRecorded \/ AddressRecorded \/ ClusterGone
           \/ InfrastructureReady \/ TogglePause
           \/ (\E m \in Machines : NodeJoins(m)) \/ (\E n \in nodes : NodeDeleted(n))
  <2>1. UNCHANGED <<metalMachine, cur, before, obj, pc, machines>>
    BY <1>2 DEF Refresh, SetOwnerRef, SetBootstrap, NetworkRecorded, AddressRecorded,
                ClusterGone, ClusterMoves, InfrastructureReady, TogglePause, NodeJoins, NodeDeleted
  <2>2. faults'.count >= faults.count
    BY <1>0, <1>2, <1>n, FaultCounts
    DEF Refresh, SetOwnerRef, SetBootstrap, NetworkRecorded, AddressRecorded,
        ClusterGone, InfrastructureReady, TogglePause, NodeJoins, NodeDeleted
  <2>3. QED
    BY <1>s, <2>1, <2>2
<1>3. ASSUME NEW m \in Machines, NEW from \in {"free", "foreign"}, NEW to \in {"free", "foreign"},
             ForeignMoves(m, from, to)
      PROVE  Budget'
  <2>1. /\ UNCHANGED <<metalMachine, cur, before, obj, pc, faults>>
        /\ \A n \in Machines : machines'[n] = "own" => machines[n] = "own"
    BY <1>0, <1>3 DEF ForeignMoves
  <2>2. faults'.count >= faults.count
    BY <1>n, <2>1
  <2>3. QED
    BY <1>s, <2>1, <2>2
<1>4. ASSUME NEW o \in Objects, DeleteMachine(o)
      PROVE  Budget'
  <2>1. /\ UNCHANGED <<cur, before, obj, pc, machines, faults>>
        /\ metalMachine[o].exists /\ ~metalMachine[o].deleting
    BY <1>4 DEF DeleteMachine
  <2>2. metalMachine[o] \in MachineObject
    BY <1>0 DEF TypeOK
  <2>3. \A p \in Objects \ {o} : metalMachine'[p] = metalMachine[p]
    BY <1>0, <1>4 DEF DeleteMachine, TypeOK
  <2>4. /\ metalMachine'[o].finalizer = metalMachine[o].finalizer
        /\ metalMachine'[o].providerID = metalMachine[o].providerID
        /\ metalMachine[o].finalizer => metalMachine'[o].exists
        /\ ~metalMachine[o].finalizer => ~metalMachine'[o].exists /\ ~metalMachine'[o].deleting
    BY <1>0, <1>4, <2>1, <2>2 DEF DeleteMachine, TypeOK, MachineObject
  <2>5. \A m \in Machines : Secured(m) => Secured(m)'
    BY <2>3, <2>4 DEF Secured
  <2>6. Loose' \subseteq Loose
    BY <2>1, <2>5 DEF Loose, InFlight
  <2>7. faults'.count = faults.count
    BY <2>1
  <2>8. CASE metalMachine[o].finalizer
    <3>1. RemovedUnguarded' = RemovedUnguarded
      BY <2>1, <2>3, <2>4, <2>8 DEF RemovedUnguarded
    <3>2. Risk' = Risk
      <4>1. pc # "idle" => cur \in Objects
        BY <1>0 DEF DeletesOwn
      <4>2. pc # "idle" => /\ metalMachine'[cur].exists = metalMachine[cur].exists
                           /\ metalMachine'[cur].providerID = metalMachine[cur].providerID
        BY <2>1, <2>2, <2>3, <2>4, <2>8, <4>1 DEF MachineObject
      <4>3. QED
        BY <2>1, <4>2 DEF Risk, Astray, Live
    <3>3. Waiver' = Waiver
      BY <3>1 DEF Waiver
    <3>4. Risk' + faults.count + Waiver <= Risk + faults'.count + Waiver'
      BY <1>n, <2>7, <3>2, <3>3
    <3>5. QED
      BY <1>0, <2>6, <3>4, NothingLost
  <2>9. CASE ~metalMachine[o].finalizer
    <3>1. RemovedUnguarded' = RemovedUnguarded \cup {o} /\ o \notin RemovedUnguarded
      BY <2>1, <2>3, <2>4, <2>9 DEF RemovedUnguarded
    <3>2. Waiver' = Waiver + 1
      BY <1>0, <3>1, BudgetTyped, FS_AddElement DEF Waiver
    <3>3. Risk' + faults.count + Waiver <= Risk + faults'.count + Waiver'
      BY <1>n, <2>7, <3>2
    <3>4. QED
      BY <1>0, <2>6, <3>3, NothingLost
  <2>10. QED
    BY <2>8, <2>9
<1>5. Foreign \subseteq Machines
  BY MachineAssumptions DEF MachineAssumptions
<1>6. QED
  BY <1>1, <1>2, <1>3, <1>4, <1>5 DEF Environment

\* Every fault, and the removal of every object that has no finalizer yet, costs at
\* most one machine, for every set of objects and machines, whatever provider IDs are
\* preset, and however many faults of whatever kind strike.
THEOREM LeakBounded == Spec => []LeakBound
<1> DEFINE Accounts == Informed /\ Budget
<1>1. Init => Accounts
  <2> SUFFICES ASSUME Init PROVE Accounts
    OBVIOUS
  <2>1. PICK preset \in Presets : metalMachine = [o \in Objects |-> NewMachine(preset[o])]
    BY DEF Init
  <2>2. \A o \in Objects : /\ metalMachine[o].exists /\ ~metalMachine[o].deleting
                           /\ ~metalMachine[o].finalizer
    BY <2>1 DEF NewMachine
  <2>3. pc = "idle" /\ before = obj /\ cached = metalMachine
    BY DEF Init
  <2>4. Informed
    BY <2>2, <2>3, IdleInHand DEF Informed, Objectwise, KnownOf, HeldOf
  <2>5. Loose = {} /\ RemovedUnguarded = {} /\ Risk = 0 /\ faults.count = 0
    BY <2>2, <2>3 DEF Init, Loose, RemovedUnguarded, Risk, Astray, NoFault
  <2>6. Budget
    BY <2>5, FS_EmptySet DEF Budget, Waiver
  <2>7. QED
    BY <2>4, <2>6
<1>2. Inv /\ Inv' /\ Accounts /\ [Next]_vars => Accounts'
  <2> SUFFICES ASSUME Inv, Inv', Accounts, [Next]_vars PROVE Accounts'
    OBVIOUS
  <2>1. TypeOK'
    BY DEF Inv
  <2>2. CASE Controller
    BY <2>1, <2>2, InformedController, ControllerPays
  <2>3. CASE Environment
    BY <2>1, <2>3, InformedEnvironment, EnvironmentPays
  <2>4. CASE UNCHANGED vars
    <3>1. UNCHANGED <<metalMachine, cached, cur, before, obj, pc, machines, faults>>
      BY <2>4 DEF vars, kube, metal, local
    <3>2. Informed'
      BY <3>1 DEF Informed, Objectwise, KnownOf, HeldOf, InHand, Knowing, Keeping, Deleting,
                  Recording, Live, Dropping, Dropped
    <3>3. Loose' = Loose /\ Risk' = Risk /\ Waiver' = Waiver
      BY <3>1 DEF Loose, Secured, InFlight, Risk, Astray, Live, Waiver, RemovedUnguarded
    <3>4. Budget'
      BY <3>1, <3>3 DEF Budget
    <3>5. QED
      BY <3>2, <3>4
  <2>5. QED
    BY <2>2, <2>3, <2>4 DEF Next
<1>3. Inv /\ Accounts => LeakBound
  <2> SUFFICES ASSUME Inv, Accounts PROVE LeakBound
    OBVIOUS
  <2>1. TypeOK
    BY DEF Inv
  <2>2. Orphans \subseteq Loose
    BY DEF Orphans, Loose, Secured, Recorded
  <2>3. /\ Cardinality(Orphans) \in Nat /\ Cardinality(Orphans) <= Cardinality(Loose)
        /\ Cardinality(Loose) \in Nat
    BY <2>1, <2>2, BudgetTyped, NoMore
  <2>4. Cardinality(Loose) <= faults.count + Waiver
    BY <2>1, <2>3, BudgetTyped DEF Budget
  <2>5. Cardinality(Orphans) <= faults.count + Waiver
    BY <2>1, <2>3, <2>4, BudgetTyped
  <2>6. QED
    BY <2>5 DEF LeakBound, Waiver
<1>4. QED
  BY <1>1, <1>2, <1>3, InvHolds, PTL DEF Spec
=============================================================================
