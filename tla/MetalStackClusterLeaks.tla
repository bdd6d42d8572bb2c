------------------------ MODULE MetalStackClusterLeaks ------------------------
(***************************************************************************)
(* Every fault costs at most one network: a proof of LeakBound of the      *)
(* MetalStackCluster controller, for every set of networks and addresses   *)
(* and every number and kind of faults.                                    *)
(*                                                                         *)
(* LeakBound says nothing of losses that are due.  The invariant, Budget,  *)
(* counts them with the networks already lost: a reconcile that works from *)
(* a copy that is not the live object will lose one when it ends.          *)
(***************************************************************************)
EXTENDS MetalStackClusterProofs, Counting

\* The reconcile in flight works from a copy that is not the live object.
Astray ==
  /\ pc \notin {"idle", "patchStatus"}
  /\ before.privateNetworkID # metalCluster.privateNetworkID \/ ~metalCluster.exists

Risk == IF Astray THEN 1 ELSE 0
Waiver == IF RemovedUnguarded THEN 1 ELSE 0

Budget == Cardinality(Orphans) + Risk <= faults.count + Waiver

Granting == {"allocateNetwork", "allocateControlPlaneIP", "createFirewall"}
Carrying == {"allocateControlPlaneIP", "createFirewall", "patchSpec"}

\* What the copies know of a deletion and of the finalizer is true of the object.
Knowing ==
  /\ before.deleting \/ cached.deleting => metalCluster.deleting
  /\ before.finalizer \/ cached.finalizer => metalCluster.finalizer \/ ~metalCluster.exists

\* A network the controller allocated is recorded with the finalizer.
Guarded ==
  (metalCluster.exists /\ ~metalCluster.finalizer) =>
    metalCluster.privateNetworkID \in Supplied \cup {Nil}
Guarding ==
  /\ pc \in Granting => obj.finalizer
  /\ obj.privateNetworkID # before.privateNetworkID => obj.finalizer

\* A reconcile gives the object a network only when it has none.
Filling == before.privateNetworkID # Nil => obj.privateNetworkID = before.privateNetworkID

\* Only a reconcile of a deleted object that has found no network drops the finalizer.
Deleting ==
  pc \in DeletionLabels => before.deleting /\ obj.privateNetworkID = before.privateNetworkID
Dropping ==
  Dropped =>
    /\ pc \in {"patchSpec", "patchStatus"}
    /\ before.deleting
    /\ obj.privateNetworkID = before.privateNetworkID
    /\ obj.privateNetworkID # Nil => networks[obj.privateNetworkID] # "allocated"

Informed == Knowing /\ Held /\ Guarded /\ Guarding /\ Filling /\ Deleting /\ Dropping

LEMMA BlankFinalizer == Blank.finalizer = FALSE
  BY DEF Blank, NewCluster

\* The spec patch takes the finalizer of an object under deletion only, and writes a
\* network the controller allocated only with the finalizer.
LEMMA PatchInforms ==
  ASSUME TypeOK, Informed, metalCluster.exists
  PROVE  /\ PatchedSpec.deleting = metalCluster.deleting
         /\ ~PatchedSpec.exists => Dropped
         /\ PatchedSpec.exists /\ PatchedSpec.deleting => PatchedSpec.finalizer
         /\ metalCluster.finalizer => PatchedSpec.finalizer \/ ~PatchedSpec.exists
         /\ PatchedSpec.exists /\ ~PatchedSpec.finalizer =>
              PatchedSpec.privateNetworkID \in Supplied \cup {Nil}
<1>1. /\ PatchedSpec.deleting = metalCluster.deleting
      /\ PatchedSpec.privateNetworkID =
           Merged(metalCluster.privateNetworkID, before.privateNetworkID, obj.privateNetworkID)
  BY PatchedFields
<1>2. /\ PatchedSpec.finalizer = Merged(metalCluster.finalizer, before.finalizer, obj.finalizer)
      /\ PatchedSpec.exists <=> (~metalCluster.deleting \/ PatchedSpec.finalizer)
  BY PatchedGuards
<1>3. /\ metalCluster.finalizer \in BOOLEAN /\ before.finalizer \in BOOLEAN
      /\ obj.finalizer \in BOOLEAN
  BY DEF TypeOK, ClusterObject
<1>4. metalCluster.finalizer /\ ~PatchedSpec.finalizer => Dropped
  BY <1>2, <1>3 DEF Merged, Dropped
<1>5. metalCluster.deleting => metalCluster.finalizer
  BY DEF Informed, Held
<1>6. Dropped => metalCluster.deleting
  BY DEF Informed, Dropping, Knowing
<1>7. ASSUME PatchedSpec.exists, ~PatchedSpec.finalizer
      PROVE  PatchedSpec.privateNetworkID \in Supplied \cup {Nil}
  <2>1. ~metalCluster.deleting /\ ~Dropped /\ ~metalCluster.finalizer
    BY <1>2, <1>4, <1>6, <1>7
  <2>2. ~before.finalizer
    BY <2>1 DEF Informed, Knowing
  <2>3. ~obj.finalizer
    BY <1>2, <1>3, <1>7, <2>2 DEF Merged
  <2>4. obj.privateNetworkID = before.privateNetworkID
    BY <2>3 DEF Informed, Guarding
  <2>5. PatchedSpec.privateNetworkID = metalCluster.privateNetworkID
    BY <1>1, <2>4 DEF Merged
  <2>6. QED
    BY <2>1, <2>5 DEF Informed, Guarded
<1>8. QED
  BY <1>1, <1>2, <1>4, <1>5, <1>6, <1>7

\* Steps that leave the object and what is in flight as it is.
LEMMA InformedStays ==
  ASSUME Informed, UNCHANGED <<metalCluster, before, cached>>,
         obj'.finalizer = obj.finalizer,
         obj'.privateNetworkID = obj.privateNetworkID,
         pc' \in Granting => pc \in Granting,
         pc' \in DeletionLabels => pc \in DeletionLabels,
         pc \in {"patchSpec", "patchStatus"} => pc' \in {"patchSpec", "patchStatus"},
         obj.privateNetworkID # Nil /\ networks'[obj.privateNetworkID] = "allocated" =>
           networks[obj.privateNetworkID] = "allocated"
  PROVE  Informed'
<1>1. Knowing' /\ Held' /\ Guarded'
  BY DEF Informed, Knowing, Held, Guarded
<1>2. Guarding' /\ Filling' /\ Deleting'
  BY DEF Informed, Guarding, Filling, Deleting
<1>3. Dropped' => Dropped
  BY DEF Dropped
<1>4. Dropping'
  BY <1>3 DEF Informed, Dropping
<1>5. QED
  BY <1>1, <1>2, <1>4 DEF Informed

\* A restart forgets what was in flight.
LEMMA InformedRestart ==
  ASSUME Informed, Restart, UNCHANGED metalCluster
  PROVE  Informed'
<1>1. pc' = "idle" /\ before' = Blank /\ obj' = Blank /\ cached' = metalCluster
  BY DEF Restart
<1>2. Knowing' /\ Held' /\ Guarded'
  BY <1>1, BlankFields, BlankFinalizer DEF Informed, Knowing, Held, Guarded
<1>3. Guarding' /\ Filling' /\ Deleting' /\ Dropping'
  BY <1>1 DEF Guarding, Granting, Filling, Deleting, DeletionLabels, Dropping, Dropped
<1>4. QED
  BY <1>2, <1>3 DEF Informed

\* No step of the reconcile makes a copy know what is not true.
LEMMA InformedController ==
  ASSUME NetworkInv, Informed, Controller
  PROVE  Informed'
<1> USE DEF kube, metal, local, Goto, Return
<1>0. /\ TypeOK /\ cached \in ClusterObject /\ obj \in ClusterObject
      /\ networks \in [Networks -> {"unused", "allocated", "freed"}]
  BY DEF NetworkInv, TypeOK
<1>1. CASE Reconcile
  <2>1. UNCHANGED <<metalCluster, cached, networks>> /\ pc = "idle"
    BY <1>1 DEF Reconcile
  <2>2. CASE UNCHANGED local
    BY <2>1, <2>2, InformedStays
  <2>3. CASE ~UNCHANGED local
    <3>1. /\ before' = cached
          /\ obj' \in {cached, [cached EXCEPT !.failure = TRUE], [cached EXCEPT !.finalizer = TRUE]}
          /\ pc' \in {"patchSpec", "deleteMachines", "allocateNetwork"}
          /\ pc' = "deleteMachines" => cached.deleting
          /\ pc' = "allocateNetwork" => obj' = [cached EXCEPT !.finalizer = TRUE]
      BY <1>1, <2>3 DEF Reconcile
    <3>2. /\ [cached EXCEPT !.failure = TRUE].finalizer = cached.finalizer
          /\ [cached EXCEPT !.finalizer = TRUE].finalizer = TRUE
          /\ [cached EXCEPT !.failure = TRUE].privateNetworkID = cached.privateNetworkID
          /\ [cached EXCEPT !.finalizer = TRUE].privateNetworkID = cached.privateNetworkID
      BY <1>0 DEF ClusterObject
    <3>3. obj'.privateNetworkID = before'.privateNetworkID
      BY <3>1, <3>2
    <3>4. obj'.finalizer \in {before'.finalizer, TRUE}
      BY <3>1, <3>2
    <3>5. ~Dropped'
      BY <3>4 DEF Dropped
    <3>6. Guarding'
      BY <3>1, <3>2, <3>3 DEF Guarding, Granting
    <3>7. Filling' /\ Deleting' /\ Dropping'
      BY <3>1, <3>3, <3>5 DEF Filling, Deleting, DeletionLabels, Dropping
    <3>8. Held' /\ Guarded'
      BY <2>1 DEF Informed, Held, Guarded
    <3>9. Knowing'
      BY <2>1, <3>1 DEF Informed, Knowing
    <3>10. QED
      BY <3>6, <3>7, <3>8, <3>9 DEF Informed
  <2>4. QED
    BY <2>2, <2>3
<1>2. CASE AllocateNetwork
  <2>1. /\ UNCHANGED <<metalCluster, before, cached>> /\ pc = "allocateNetwork"
        /\ pc' \in {"allocateControlPlaneIP", "patchSpec"}
    BY <1>2 DEF AllocateNetwork, Fail
  <2>2. CASE UNCHANGED <<obj, networks>>
    BY <2>1, <2>2, InformedStays DEF Granting, DeletionLabels
  <2>3. obj.finalizer /\ ~Dropped
    BY <2>1 DEF Informed, Guarding, Granting, Dropped
  <2>4. CASE UNCHANGED obj
    <3>1. ~Dropped'
      BY <2>1, <2>3, <2>4 DEF Dropped
    <3>2. Guarding' /\ Filling' /\ Deleting' /\ Dropping'
      BY <2>1, <2>3, <2>4, <3>1
      DEF Informed, Guarding, Filling, Deleting, DeletionLabels, Dropping
    <3>3. Knowing' /\ Held' /\ Guarded'
      BY <2>1 DEF Informed, Knowing, Held, Guarded
    <3>4. QED
      BY <3>2, <3>3 DEF Informed
  <2>5. ASSUME NEW n \in Networks, obj' = [obj EXCEPT !.privateNetworkID = n], NeedsNetwork
        PROVE  Informed'
    <3>1. obj'.finalizer = obj.finalizer
      BY <1>0, <2>5 DEF ClusterObject
    <3>2. before.privateNetworkID = Nil
      BY <2>5 DEF NeedsNetwork, Informed, Filling
    <3>3. ~Dropped'
      BY <2>1, <2>3, <3>1 DEF Dropped
    <3>4. Guarding' /\ Filling' /\ Deleting' /\ Dropping'
      BY <2>1, <2>3, <3>1, <3>2, <3>3 DEF Guarding, Filling, Deleting, DeletionLabels, Dropping
    <3>5. Knowing' /\ Held' /\ Guarded'
      BY <2>1 DEF Informed, Knowing, Held, Guarded
    <3>6. QED
      BY <3>4, <3>5 DEF Informed
  <2>6. QED
    BY <1>2, <2>4, <2>5 DEF AllocateNetwork, Refusal
<1>3. CASE AllocateControlPlaneIP \/ CreateFirewall
  <2>1. /\ UNCHANGED <<metalCluster, before, cached, networks>>
        /\ pc \in {"allocateControlPlaneIP", "createFirewall"}
        /\ pc' \in {"createFirewall", "patchSpec"}
    BY <1>3 DEF AllocateControlPlaneIP, CreateFirewall, Fail
  <2>2. /\ obj'.finalizer = obj.finalizer
        /\ obj'.privateNetworkID = obj.privateNetworkID
    <3>1. \A ip \in IPs : /\ [obj EXCEPT !.host = ip, !.ipAllocated = TRUE].finalizer = obj.finalizer
                          /\ [obj EXCEPT !.host = ip, !.ipAllocated = TRUE].privateNetworkID
                               = obj.privateNetworkID
      BY <1>0 DEF ClusterObject
    <3>2. /\ [obj EXCEPT !.ready = TRUE].finalizer = obj.finalizer
          /\ [obj EXCEPT !.ready = TRUE].privateNetworkID = obj.privateNetworkID
      BY <1>0 DEF ClusterObject
    <3>3. \/ obj' = obj
          \/ \E ip \in IPs : obj' = [obj EXCEPT !.host = ip, !.ipAllocated = TRUE]
          \/ obj' = [obj EXCEPT !.ready = TRUE]
      BY <1>3 DEF AllocateControlPlaneIP, CreateFirewall, AddressRefused, Address
    <3>4. QED
      BY <3>1, <3>2, <3>3
  <2>3. QED
    BY <2>1, <2>2, InformedStays DEF Granting, DeletionLabels
<1>4. CASE DeleteMachines \/ DeleteFirewall
  <2>1. /\ UNCHANGED <<metalCluster, before, obj, cached, networks>>
        /\ pc \in {"deleteMachines", "deleteFirewall"}
        /\ pc' \in {"deleteFirewall", "NetworkFind", "patchSpec"}
    BY <1>4 DEF DeleteMachines, DeleteFirewall, DeleteAllOf, Fail
  <2>2. QED
    BY <2>1, InformedStays DEF Granting, DeletionLabels
<1>5. CASE NetworkFind \/ NetworkFree
  <2>1. UNCHANGED metalCluster /\ pc \in {"NetworkFind", "NetworkFree"}
    BY <1>5 DEF NetworkFind, NetworkFree
  <2>2. before.deleting /\ obj.privateNetworkID = before.privateNetworkID
    BY <2>1 DEF Informed, Deleting, DeletionLabels
  <2>3. CASE Restart
    BY <2>1, <2>3, InformedRestart
  <2>4. CASE UNCHANGED <<before, obj, cached>> /\ pc' \in {"NetworkFree", "patchSpec"}
    <3>1. obj.privateNetworkID # Nil /\ networks'[obj.privateNetworkID] = "allocated" =>
            networks[obj.privateNetworkID] = "allocated"
      BY <1>0, <1>5 DEF NetworkFind, NetworkFree, ClusterObject
    <3>2. QED
      BY <2>1, <2>4, <3>1, InformedStays DEF Granting, DeletionLabels
  <2>5. CASE /\ UNCHANGED <<before, cached>> /\ pc' = "patchSpec"
             /\ obj' = [obj EXCEPT !.finalizer = FALSE]
             /\ obj.privateNetworkID # Nil => networks'[obj.privateNetworkID] # "allocated"
    <3>1. obj'.privateNetworkID = obj.privateNetworkID
      BY <1>0, <2>5 DEF ClusterObject
    <3>2. Guarding' /\ Filling' /\ Deleting' /\ Dropping'
      BY <2>2, <2>5, <3>1 DEF Guarding, Granting, Filling, Deleting, DeletionLabels, Dropping
    <3>3. Knowing' /\ Held' /\ Guarded'
      BY <2>1, <2>5 DEF Informed, Knowing, Held, Guarded
    <3>4. QED
      BY <3>2, <3>3 DEF Informed
  <2>6. CASE NetworkFind
    <3>1. \/ UNCHANGED <<before, obj, cached>> /\ pc' \in {"NetworkFree", "patchSpec"}
          \/ /\ UNCHANGED <<before, cached, networks>> /\ pc' = "patchSpec"
             /\ obj' = [obj EXCEPT !.finalizer = FALSE]
             /\ NetworksFound(obj.privateNetworkID) # 1
      BY <2>6 DEF NetworkFind, Fail
    <3>2. obj.privateNetworkID # Nil /\ NetworksFound(obj.privateNetworkID) # 1 =>
            networks[obj.privateNetworkID] # "allocated"
      BY DEF NetworksFound
    <3>3. QED
      BY <2>4, <2>5, <3>1, <3>2
  <2>7. CASE NetworkFree
    <3>1. \/ Restart
          \/ UNCHANGED <<before, obj, cached>> /\ pc' \in {"NetworkFree", "patchSpec"}
          \/ /\ UNCHANGED <<before, cached>> /\ pc' = "patchSpec"
             /\ obj' = [obj EXCEPT !.finalizer = FALSE]
             /\ networks' = [networks EXCEPT ![obj.privateNetworkID] = "freed"]
      BY <2>7 DEF NetworkFree, FreeRefused, Fail
    <3>2. obj.privateNetworkID # Nil => obj.privateNetworkID \in Networks
      BY <1>0 DEF ClusterObject
    <3>3. networks' = [networks EXCEPT ![obj.privateNetworkID] = "freed"] =>
            (obj.privateNetworkID # Nil => networks'[obj.privateNetworkID] # "allocated")
      BY <1>0, <3>2
    <3>4. QED
      BY <2>3, <2>4, <2>5, <3>1, <3>3
  <2>8. QED
    BY <1>5, <2>6, <2>7
<1>6. CASE PatchSpec
  <2>1. UNCHANGED <<before, obj, cached, networks>> /\ pc = "patchSpec" /\ pc' = "patchStatus"
    BY <1>6 DEF PatchSpec
  <2>2. CASE UNCHANGED metalCluster
    BY <2>1, <2>2, InformedStays DEF Granting, DeletionLabels
  <2>3. CASE metalCluster.exists /\ metalCluster' = PatchedSpec
    <3>1. /\ metalCluster'.deleting = metalCluster.deleting
          /\ metalCluster'.exists /\ metalCluster'.deleting => metalCluster'.finalizer
          /\ metalCluster.finalizer => metalCluster'.finalizer \/ ~metalCluster'.exists
          /\ metalCluster'.exists /\ ~metalCluster'.finalizer =>
               metalCluster'.privateNetworkID \in Supplied \cup {Nil}
      BY <1>0, <2>3, PatchInforms
    <3>2. Held' /\ Guarded'
      BY <3>1 DEF Held, Guarded
    <3>3. Knowing'
      BY <2>1, <2>3, <3>1 DEF Informed, Knowing
    <3>4. Guarding' /\ Filling' /\ Deleting'
      BY <2>1 DEF Informed, Guarding, Granting, Filling, Deleting, DeletionLabels
    <3>5. Dropping'
      BY <2>1 DEF Informed, Dropping, Dropped
    <3>6. QED
      BY <3>2, <3>3, <3>4, <3>5 DEF Informed
  <2>4. QED
    BY <1>6, <2>2, <2>3 DEF PatchSpec
<1>7. CASE PatchStatus
  <2>1. UNCHANGED cached /\ pc' = "idle" /\ before' = Blank /\ obj' = Blank
    BY <1>7 DEF PatchStatus
  <2>2. /\ metalCluster'.exists = metalCluster.exists
        /\ metalCluster'.deleting = metalCluster.deleting
        /\ metalCluster'.finalizer = metalCluster.finalizer
        /\ metalCluster'.privateNetworkID = metalCluster.privateNetworkID
    BY <1>0, <1>7, PatchedFields, PatchedGuards DEF PatchStatus
  <2>3. Held' /\ Guarded'
    BY <2>2 DEF Informed, Held, Guarded
  <2>4. Knowing'
    BY <2>1, <2>2, BlankFields, BlankFinalizer DEF Informed, Knowing
  <2>5. Guarding' /\ Filling' /\ Deleting' /\ Dropping'
    BY <2>1 DEF Guarding, Granting, Filling, Deleting, DeletionLabels, Dropping, Dropped
  <2>6. QED
    BY <2>3, <2>4, <2>5 DEF Informed
<1>8. QED
  BY <1>1, <1>2, <1>3, <1>4, <1>5, <1>6, <1>7 DEF Controller

\* Nor does a step of the world.
LEMMA InformedEnvironment ==
  ASSUME NetworkInv, Informed, Environment
  PROVE  Informed'
<1> USE DEF kube, metal, local
<1>0. TypeOK /\ metalCluster \in ClusterObject
  BY DEF NetworkInv, TypeOK
<1>1. CASE Crash
  BY <1>1, InformedRestart DEF Crash
<1>2. CASE Refresh
  <2>1. UNCHANGED <<metalCluster, before, obj, pc, networks>> /\ cached' = metalCluster
    BY <1>2 DEF Refresh
  <2>2. Knowing'
    BY <2>1 DEF Informed, Knowing
  <2>3. Held' /\ Guarded' /\ Guarding' /\ Filling' /\ Deleting' /\ Dropping'
    BY <2>1 DEF Informed, Held, Guarded, Guarding, Filling, Deleting, Dropping, Dropped
  <2>4. QED
    BY <2>2, <2>3 DEF Informed
<1>3. CASE SetOwnerRef \/ DeleteCluster
  <2>1. UNCHANGED <<cached, before, obj, pc, networks>>
    BY <1>3 DEF SetOwnerRef, DeleteCluster
  <2>2. /\ metalCluster.deleting => metalCluster'.deleting
        /\ metalCluster'.exists => metalCluster.exists
        /\ metalCluster'.finalizer = metalCluster.finalizer
        /\ metalCluster'.privateNetworkID = metalCluster.privateNetworkID
        /\ metalCluster'.exists /\ metalCluster'.deleting =>
             metalCluster.deleting \/ metalCluster.finalizer
    BY <1>0, <1>3 DEF SetOwnerRef, DeleteCluster, ClusterObject
  <2>3. Knowing' /\ Held' /\ Guarded'
    BY <2>1, <2>2 DEF Informed, Knowing, Held, Guarded
  <2>4. Guarding' /\ Filling' /\ Deleting' /\ Dropping'
    BY <2>1, <2>2 DEF Informed, Guarding, Filling, Deleting, Dropping, Dropped
  <2>5. QED
    BY <2>3, <2>4 DEF Informed
<1>4. CASE \/ TogglePause \/ CreateMachines
           \/ \E c \in Children : Attach(c) \/ DeleteChild(c) \/ Detach(c) \/ ChildGone(c)
  <2>1. UNCHANGED <<metalCluster, cached, before, obj, pc, networks>>
    BY <1>4 DEF TogglePause, CreateMachines, Attach, DeleteChild, Detach, ChildGone
  <2>2. QED
    BY <2>1, InformedStays
<1>5. QED
  BY <1>1, <1>2, <1>3, <1>4 DEF Environment
-----------------------------------------------------------------------------
(* What a step costs                                                       *)

LEMMA BudgetTyped ==
  ASSUME TypeOK
  PROVE  /\ IsFiniteSet(Orphans) /\ Cardinality(Orphans) \in Nat
         /\ Risk \in 0..1 /\ Waiver \in 0..1 /\ faults.count \in Nat
<1>1. Orphans \subseteq Networks /\ IsFiniteSet(Networks)
  BY ClusterAssumptions DEF Orphans, ClusterAssumptions
<1>2. faults.count \in Nat
  BY ClusterAssumptions DEF TypeOK, FaultLog, ClusterAssumptions
<1>3. Risk \in 0..1 /\ Waiver \in 0..1
  BY DEF Risk, Waiver
<1>4. QED
  BY <1>1, <1>2, <1>3, NoMore

\* A fault is one fault.
LEMMA FaultCounts ==
  ASSUME TypeOK, NEW kind, Fault(kind)
  PROVE  faults'.count = faults.count + 1
  BY DEF Fault, Struck

\* A step that loses no network.
LEMMA NothingLost ==
  ASSUME TypeOK, TypeOK', Budget, Orphans' \subseteq Orphans,
         Risk' + faults.count + Waiver <= Risk + faults'.count + Waiver'
  PROVE  Budget'
<1>1. Cardinality(Orphans') \in Nat /\ Cardinality(Orphans') <= Cardinality(Orphans)
  BY BudgetTyped, NoMore
<1>2. /\ Cardinality(Orphans) \in Nat /\ faults.count \in Nat
      /\ Risk \in 0..1 /\ Waiver \in 0..1
  BY BudgetTyped
<1>3. faults'.count \in Nat /\ Risk' \in 0..1 /\ Waiver' \in 0..1
  BY ClusterAssumptions DEF TypeOK, FaultLog, ClusterAssumptions, Risk, Waiver
<1>4. Cardinality(Orphans) + Risk <= faults.count + Waiver
  BY DEF Budget
<1>5. Cardinality(Orphans') + Risk' <= faults'.count + Waiver'
  BY <1>1, <1>2, <1>3, <1>4
<1>6. QED
  BY <1>5 DEF Budget

\* A step that loses one network, and pays for it.
LEMMA OneLost ==
  ASSUME TypeOK, TypeOK', Budget, NEW lost, Orphans' \subseteq Orphans \cup {lost},
         1 + Risk' + faults.count + Waiver <= Risk + faults'.count + Waiver'
  PROVE  Budget'
<1>1. Cardinality(Orphans') <= Cardinality(Orphans) + 1
  BY BudgetTyped, OneMore
<1>2. /\ Cardinality(Orphans) \in Nat /\ faults.count \in Nat
      /\ Risk \in 0..1 /\ Waiver \in 0..1
  BY BudgetTyped
<1>3. Cardinality(Orphans') \in Nat
  <2>1. Orphans' \subseteq Networks /\ IsFiniteSet(Networks)
    BY ClusterAssumptions DEF Orphans, ClusterAssumptions
  <2>2. QED
    BY <2>1, NoMore
<1>4. faults'.count \in Nat /\ Risk' \in 0..1 /\ Waiver' \in 0..1
  BY ClusterAssumptions DEF TypeOK, FaultLog, ClusterAssumptions, Risk, Waiver
<1>5. Cardinality(Orphans) + Risk <= faults.count + Waiver
  BY DEF Budget
<1>6. Cardinality(Orphans') + Risk' <= faults'.count + Waiver'
  BY <1>1, <1>2, <1>3, <1>4, <1>5
<1>7. QED
  BY <1>6 DEF Budget

\* A step that leaves the object where it is, carries on what is in flight and
\* allocates nothing.
LEMMA Quiet ==
  ASSUME TypeOK, TypeOK', Budget,
         metalCluster'.exists = metalCluster.exists,
         metalCluster'.privateNetworkID = metalCluster.privateNetworkID,
         Waiver' = Waiver,
         \A n \in Networks : networks'[n] = "allocated" => networks[n] = "allocated",
         pc \in Carrying => pc' \in Carrying /\ obj'.privateNetworkID = obj.privateNetworkID,
         Risk' + faults.count <= Risk + faults'.count
  PROVE  Budget'
<1>1. Orphans' \subseteq Orphans
  BY DEF Orphans, Recorded, InFlight, Carrying
<1>2. /\ faults.count \in Nat /\ faults'.count \in Nat /\ Risk \in 0..1 /\ Risk' \in 0..1
      /\ Waiver \in 0..1
  BY ClusterAssumptions DEF TypeOK, FaultLog, ClusterAssumptions, Risk, Waiver
<1>3. Risk' + faults.count + Waiver <= Risk + faults'.count + Waiver'
  BY <1>2
<1>4. QED
  BY <1>1, <1>3, NothingLost

\* A reconcile that ends without its patch may lose the network in flight.
LEMMA Abandoned ==
  ASSUME TypeOK, TypeOK', Budget, UNCHANGED <<metalCluster, networks>>,
         pc' \in {"idle", "patchStatus"}, faults.count + 1 <= Risk + faults'.count
  PROVE  Budget'
<1>1. Risk' = 0 /\ Waiver' = Waiver
  BY DEF Risk, Astray, Waiver, RemovedUnguarded
<1>2. /\ faults.count \in Nat /\ faults'.count \in Nat /\ Risk \in 0..1 /\ Waiver \in 0..1
  BY ClusterAssumptions DEF TypeOK, FaultLog, ClusterAssumptions, Risk, Waiver
<1>3. Orphans' \subseteq Orphans \cup {obj.privateNetworkID}
  BY DEF Orphans, Recorded, InFlight
<1>4. 1 + Risk' + faults.count + Waiver <= Risk + faults'.count + Waiver'
  BY <1>1, <1>2
<1>5. QED
  BY <1>3, <1>4, OneLost

\* The end of a reconcile: its patch is not needed, or fails, or is applied.
LEMMA PatchPays ==
  ASSUME TypeOK, TypeOK', Informed, Budget, PatchSpec
  PROVE  Budget'
<1> USE DEF kube, metal, local
<1>0. Nil \notin Networks
  BY ClusterAssumptions DEF ClusterAssumptions
<1>n. /\ faults.count \in Nat /\ faults'.count \in Nat /\ Risk \in 0..1 /\ Risk' \in 0..1
      /\ Waiver \in 0..1 /\ Waiver' \in 0..1
  BY ClusterAssumptions DEF TypeOK, FaultLog, ClusterAssumptions, Risk, Waiver
<1>1. UNCHANGED networks /\ pc = "patchSpec" /\ pc' = "patchStatus"
  BY DEF PatchSpec
<1>2. Risk' = 0
  BY <1>1 DEF Risk, Astray
<1>3. CASE obj.privateNetworkID = before.privateNetworkID /\ UNCHANGED <<metalCluster, faults>>
  <2>1. CASE Astray
    <3>1. Risk = 1
      BY <2>1 DEF Risk
    <3>2. faults.count + 1 <= Risk + faults'.count
      BY <1>n, <1>3, <3>1
    <3>3. QED
      BY <1>1, <1>3, <3>2, Abandoned
  <2>2. CASE ~Astray
    <3>1. Recorded(obj.privateNetworkID)
      BY <1>1, <1>3, <2>2 DEF Astray, Recorded
    <3>2. Orphans' \subseteq Orphans
      BY <1>1, <1>3, <3>1 DEF Orphans, Recorded, InFlight
    <3>3. Waiver' = Waiver
      BY <1>3 DEF Waiver, RemovedUnguarded
    <3>4. Risk' + faults.count + Waiver <= Risk + faults'.count + Waiver'
      BY <1>n, <1>2, <1>3, <3>3
    <3>5. QED
      BY <3>2, <3>4, NothingLost
  <2>3. QED
    BY <2>1, <2>2
<1>4. CASE UNCHANGED metalCluster /\ metalCluster.exists /\ Fault("patch")
  <2>1. faults.count + 1 <= Risk + faults'.count
    BY <1>n, <1>4, FaultCounts
  <2>2. QED
    BY <1>1, <1>4, <2>1, Abandoned
<1>5. CASE UNCHANGED <<metalCluster, faults>> /\ ~metalCluster.exists
  <2>1. Risk = 1
    BY <1>1, <1>5 DEF Risk, Astray
  <2>2. faults.count + 1 <= Risk + faults'.count
    BY <1>n, <1>5, <2>1
  <2>3. QED
    BY <1>1, <1>5, <2>2, Abandoned
<1>6. CASE metalCluster.exists /\ metalCluster' = PatchedSpec /\ UNCHANGED faults
  <2>1. ~metalCluster'.exists => Dropped
    BY <1>6, PatchInforms
  <2>2. metalCluster'.privateNetworkID =
          Merged(metalCluster.privateNetworkID, before.privateNetworkID, obj.privateNetworkID)
    BY <1>6, PatchedFields
  <2>3. Dropped =>
          /\ obj.privateNetworkID = before.privateNetworkID
          /\ obj.privateNetworkID # Nil => networks[obj.privateNetworkID] # "allocated"
    BY DEF Informed, Dropping
  <2>4. Waiver = 0
    BY <1>6 DEF Waiver, RemovedUnguarded
  <2>5. CASE Astray
    <3>1. PICK lost : Orphans' \subseteq Orphans \cup {lost}
      <4>1. CASE /\ metalCluster'.exists
                 /\ metalCluster'.privateNetworkID = obj.privateNetworkID
        <5>1. Orphans' \subseteq Orphans \cup {metalCluster.privateNetworkID}
          BY <1>1, <4>1 DEF Orphans, Recorded, InFlight
        <5>2. QED
          BY <5>1
      <4>2. CASE /\ metalCluster'.exists
                 /\ metalCluster'.privateNetworkID = metalCluster.privateNetworkID
        <5>1. Orphans' \subseteq Orphans \cup {obj.privateNetworkID}
          BY <1>1, <4>2 DEF Orphans, Recorded, InFlight
        <5>2. QED
          BY <5>1
      <4>3. CASE ~metalCluster'.exists
        <5>1. Orphans' \subseteq Orphans \cup {metalCluster.privateNetworkID}
          BY <1>0, <1>1, <2>1, <2>3, <4>3 DEF Orphans, Recorded, InFlight
        <5>2. QED
          BY <5>1
      <4>4. QED
        BY <2>2, <4>1, <4>2, <4>3 DEF Merged
    <3>2. Risk = 1
      BY <2>5 DEF Risk
    <3>3. 1 + Risk' + faults.count + Waiver <= Risk + faults'.count + Waiver'
      BY <1>n, <1>2, <1>6, <2>4, <3>2
    <3>4. QED
      BY <3>1, <3>3, OneLost
  <2>6. CASE ~Astray
    <3>1. before.privateNetworkID = metalCluster.privateNetworkID
      BY <1>1, <2>6 DEF Astray
    <3>2. metalCluster'.privateNetworkID = obj.privateNetworkID
      BY <2>2, <3>1 DEF Merged
    <3>3. \/ obj.privateNetworkID = metalCluster.privateNetworkID
          \/ metalCluster.privateNetworkID \notin Networks
      BY <1>0, <3>1 DEF Informed, Filling
    <3>4. Orphans' \subseteq Orphans
      BY <1>0, <1>1, <2>1, <2>3, <3>1, <3>2, <3>3 DEF Orphans, Recorded, InFlight
    <3>5. Risk' + faults.count + Waiver <= Risk + faults'.count + Waiver'
      BY <1>n, <1>2, <1>6, <2>4
    <3>6. QED
      BY <3>4, <3>5, NothingLost
  <2>7. QED
    BY <2>5, <2>6
<1>7. SpecOf(obj) = SpecOf(before) => obj.privateNetworkID = before.privateNetworkID
  BY DEF SpecOf
<1>8. QED
  BY <1>3, <1>4, <1>5, <1>6, <1>7 DEF PatchSpec

\* A step of the reconcile costs one network at most, and only when a fault strikes
\* or has put the reconcile at risk.
LEMMA ControllerPays ==
  ASSUME NetworkInv, TypeOK', Informed, Budget, Controller
  PROVE  Budget'
<1> USE DEF kube, metal, local, Goto, Return
<1>0. /\ TypeOK /\ metalCluster \in ClusterObject /\ obj \in ClusterObject
      /\ networks \in [Networks -> {"unused", "allocated", "freed"}]
  BY DEF NetworkInv, TypeOK
<1>n. /\ faults.count \in Nat /\ faults'.count \in Nat /\ Risk \in 0..1 /\ Risk' \in 0..1
      /\ Waiver \in 0..1 /\ Waiver' \in 0..1
  BY <1>0, ClusterAssumptions DEF TypeOK, FaultLog, ClusterAssumptions, Risk, Waiver
<1>w. UNCHANGED metalCluster => Waiver' = Waiver
  BY DEF Waiver, RemovedUnguarded
<1>r. UNCHANGED <<metalCluster, before>> /\ pc \notin {"idle", "patchStatus"} => Risk' <= Risk
  BY DEF Risk, Astray
<1>1. CASE Reconcile
  <2>1. UNCHANGED <<metalCluster, networks>> /\ pc = "idle"
    BY <1>1 DEF Reconcile
  <2>2. pc \notin Carrying /\ Risk = 0
    BY <2>1 DEF Carrying, Risk, Astray
  <2>3. CASE cached = metalCluster
    <3>1. Risk' = 0
      BY <1>1, <2>3 DEF Reconcile, Risk, Astray
    <3>2. faults'.count >= faults.count
      BY <1>0, <1>1, <1>n, <2>3, FaultCounts DEF Reconcile, Started, OwnerNotFound
    <3>3. Risk' + faults.count <= Risk + faults'.count
      BY <1>n, <2>2, <3>1, <3>2
    <3>4. QED
      BY <1>0, <1>w, <2>1, <2>2, <3>3, Quiet
  <2>4. CASE cached # metalCluster
    <3>1. faults'.count = faults.count + 1
      BY <1>0, <1>1, <2>4, FaultCounts DEF Reconcile, Started, OwnerNotFound
    <3>2. Risk' + faults.count <= Risk + faults'.count
      BY <1>n, <3>1
    <3>3. QED
      BY <1>0, <1>w, <2>1, <2>2, <3>2, Quiet
  <2>5. QED
    BY <2>3, <2>4
<1>2. CASE AllocateNetwork
  <2>1. /\ UNCHANGED <<metalCluster, before>> /\ pc = "allocateNetwork"
        /\ pc' \in {"allocateControlPlaneIP", "patchSpec"}
    BY <1>2 DEF AllocateNetwork, Fail
  <2>2. pc \notin Carrying /\ Risk' <= Risk /\ Waiver' = Waiver
    BY <1>r, <1>w, <2>1 DEF Carrying
  <2>3. CASE UNCHANGED <<networks, faults>>
    <3>1. Risk' + faults.count <= Risk + faults'.count
      BY <1>n, <2>2, <2>3
    <3>2. QED
      BY <1>0, <2>1, <2>2, <2>3, <3>1, Quiet
  <2>4. ASSUME NEW n \in Networks, networks' = [networks EXCEPT ![n] = "allocated"],
               obj' = [obj EXCEPT !.privateNetworkID = n],
               pc' = "allocateControlPlaneIP", UNCHANGED faults
        PROVE  Budget'
    <3>1. obj'.privateNetworkID = n
      BY <1>0, <2>4 DEF ClusterObject
    <3>2. Orphans' \subseteq Orphans
      BY <1>0, <2>1, <2>4, <3>1 DEF Orphans, Recorded, InFlight
    <3>3. faults'.count = faults.count
      BY <2>4
    <3>4. Risk' + faults.count + Waiver <= Risk + faults'.count + Waiver'
      BY <1>n, <2>2, <3>3
    <3>5. QED
      BY <1>0, <3>2, <3>4, NothingLost
  <2>5. ASSUME NEW n \in Networks, networks' = [networks EXCEPT ![n] = "allocated"],
               Fault("reply")
        PROVE  Budget'
    <3>1. Orphans' \subseteq Orphans \cup {n}
      BY <1>0, <2>1, <2>5 DEF Orphans, Recorded, InFlight
    <3>2. faults'.count = faults.count + 1
      BY <1>0, <2>5, FaultCounts
    <3>3. 1 + Risk' + faults.count + Waiver <= Risk + faults'.count + Waiver'
      BY <1>n, <2>2, <3>2
    <3>4. QED
      BY <1>0, <3>1, <3>3, OneLost
  <2>6. QED
    BY <1>2, <2>3, <2>4, <2>5 DEF AllocateNetwork
<1>3. CASE AllocateControlPlaneIP \/ CreateFirewall
  <2>1. /\ UNCHANGED <<metalCluster, before, networks>>
        /\ pc \in {"allocateControlPlaneIP", "createFirewall"} /\ pc' \in Carrying
    BY <1>3 DEF AllocateControlPlaneIP, CreateFirewall, Fail, Carrying
  <2>2. obj'.privateNetworkID = obj.privateNetworkID
    <3>1. \A ip \in IPs : [obj EXCEPT !.host = ip, !.ipAllocated = TRUE].privateNetworkID
                            = obj.privateNetworkID
      BY <1>0 DEF ClusterObject
    <3>2. [obj EXCEPT !.ready = TRUE].privateNetworkID = obj.privateNetworkID
      BY <1>0 DEF ClusterObject
    <3>3. \/ obj' = obj
          \/ \E ip \in IPs : obj' = [obj EXCEPT !.host = ip, !.ipAllocated = TRUE]
          \/ obj' = [obj EXCEPT !.ready = TRUE]
      BY <1>3 DEF AllocateControlPlaneIP, CreateFirewall, AddressRefused, Address
    <3>4. QED
      BY <3>1, <3>2, <3>3
  <2>3. faults'.count >= faults.count
    BY <1>0, <1>3, <1>n, FaultCounts DEF AllocateControlPlaneIP, CreateFirewall
  <2>4. Risk' + faults.count <= Risk + faults'.count
    BY <1>n, <1>r, <2>1, <2>3
  <2>5. QED
    BY <1>0, <1>w, <2>1, <2>2, <2>4, Quiet
<1>4. CASE DeleteMachines \/ DeleteFirewall \/ NetworkFind
  <2>1. /\ UNCHANGED <<metalCluster, before, networks>>
        /\ pc \notin Carrying /\ pc \notin {"idle", "patchStatus"}
    BY <1>4 DEF DeleteMachines, DeleteFirewall, NetworkFind, Carrying
  <2>2. faults'.count >= faults.count
    BY <1>0, <1>4, <1>n, FaultCounts DEF DeleteMachines, DeleteFirewall, NetworkFind
  <2>3. Risk' + faults.count <= Risk + faults'.count
    BY <1>n, <1>r, <2>1, <2>2
  <2>4. QED
    BY <1>0, <1>w, <2>1, <2>3, Quiet
<1>5. CASE NetworkFree
  <2>1. UNCHANGED metalCluster /\ pc = "NetworkFree" /\ pc \notin Carrying
    BY <1>5 DEF NetworkFree, Carrying
  <2>2. Risk' <= Risk
    <3>1. CASE UNCHANGED before
      BY <1>r, <2>1, <3>1
    <3>2. CASE Restart
      BY <1>n, <3>2 DEF Restart, Risk, Astray
    <3>3. QED
      BY <1>5, <3>1, <3>2 DEF NetworkFree
  <2>3. faults'.count >= faults.count
    BY <1>0, <1>5, <1>n, FaultCounts DEF NetworkFree
  <2>4. Risk' + faults.count <= Risk + faults'.count
    BY <1>n, <2>2, <2>3
  <2>5. \A n \in Networks : networks'[n] = "allocated" => networks[n] = "allocated"
    BY <1>0, <1>5 DEF NetworkFree
  <2>6. QED
    BY <1>0, <1>w, <2>1, <2>4, <2>5, Quiet
<1>6. CASE PatchSpec
  BY <1>0, <1>6, PatchPays
<1>7. CASE PatchStatus
  <2>1. UNCHANGED networks /\ pc = "patchStatus" /\ pc \notin Carrying /\ pc' = "idle"
    BY <1>7 DEF PatchStatus, Carrying
  <2>2. /\ metalCluster'.exists = metalCluster.exists
        /\ metalCluster'.deleting = metalCluster.deleting
        /\ metalCluster'.privateNetworkID = metalCluster.privateNetworkID
    BY <1>0, <1>7, PatchedFields DEF PatchStatus
  <2>3. Risk' = 0 /\ Waiver' = Waiver
    BY <2>1, <2>2 DEF Risk, Astray, Waiver, RemovedUnguarded
  <2>4. faults'.count >= faults.count
    BY <1>0, <1>7, <1>n, FaultCounts DEF PatchStatus
  <2>5. Risk' + faults.count <= Risk + faults'.count
    BY <1>n, <2>3, <2>4
  <2>6. QED
    BY <1>0, <2>1, <2>2, <2>3, <2>5, Quiet
<1>8. QED
  BY <1>1, <1>2, <1>3, <1>4, <1>5, <1>6, <1>7 DEF Controller

\* A crash costs the network in flight; the removal of an object without a finalizer
\* costs what a reconcile holds for it.
LEMMA EnvironmentPays ==
  ASSUME TypeOK, TypeOK', Informed, Budget, Environment
  PROVE  Budget'
<1> USE DEF kube, metal, local
<1>0. metalCluster \in ClusterObject
  BY DEF TypeOK
<1>n. /\ faults.count \in Nat /\ faults'.count \in Nat /\ Risk \in 0..1 /\ Risk' \in 0..1
      /\ Waiver \in 0..1 /\ Waiver' \in 0..1
  BY ClusterAssumptions DEF TypeOK, FaultLog, ClusterAssumptions, Risk, Waiver
<1>1. CASE Crash
  <2>1. UNCHANGED <<metalCluster, networks>> /\ pc' = "idle"
    BY <1>1 DEF Crash, Restart
  <2>2. faults'.count = faults.count + 1
    BY <1>1, FaultCounts DEF Crash
  <2>3. faults.count + 1 <= Risk + faults'.count
    BY <1>n, <2>2
  <2>4. QED
    BY <2>1, <2>3, Abandoned
<1>2. CASE \/ Refresh \/ TogglePause \/ CreateMachines
           \/ \E c \in Children : Attach(c) \/ DeleteChild(c) \/ Detach(c) \/ ChildGone(c)
  <2>1. UNCHANGED <<metalCluster, networks, pc, before, obj, faults>>
    BY <1>2 DEF Refresh, TogglePause, CreateMachines, Attach, DeleteChild, Detach, ChildGone
  <2>2. Risk' = Risk /\ Waiver' = Waiver
    BY <2>1 DEF Risk, Astray, Waiver, RemovedUnguarded
  <2>3. Risk' + faults.count <= Risk + faults'.count
    BY <1>n, <2>1, <2>2
  <2>4. QED
    BY <2>1, <2>2, <2>3, Quiet
<1>3. CASE SetOwnerRef
  <2>1. UNCHANGED <<networks, pc, before, obj, faults>>
    BY <1>3 DEF SetOwnerRef
  <2>2. /\ metalCluster'.exists = metalCluster.exists
        /\ metalCluster'.deleting = metalCluster.deleting
        /\ metalCluster'.privateNetworkID = metalCluster.privateNetworkID
    BY <1>0, <1>3 DEF SetOwnerRef, ClusterObject
  <2>3. Risk' = Risk /\ Waiver' = Waiver
    BY <2>1, <2>2 DEF Risk, Astray, Waiver, RemovedUnguarded
  <2>4. Risk' + faults.count <= Risk + faults'.count
    BY <1>n, <2>1, <2>3
  <2>5. QED
    BY <2>1, <2>2, <2>3, <2>4, Quiet
<1>4. CASE DeleteCluster
  <2>1. /\ UNCHANGED <<networks, pc, before, obj, faults>>
        /\ metalCluster.exists /\ ~metalCluster.deleting
    BY <1>4 DEF DeleteCluster
  <2>2. metalCluster'.privateNetworkID = metalCluster.privateNetworkID
    BY <1>0, <1>4 DEF DeleteCluster, ClusterObject
  <2>3. CASE metalCluster.finalizer
    <3>1. metalCluster'.exists = metalCluster.exists /\ metalCluster'.exists
      BY <1>0, <1>4, <2>1, <2>3 DEF DeleteCluster, ClusterObject
    <3>2. Risk' = Risk /\ Waiver' = Waiver
      BY <2>1, <2>2, <3>1 DEF Risk, Astray, Waiver, RemovedUnguarded
    <3>3. Risk' + faults.count <= Risk + faults'.count
      BY <1>n, <2>1, <3>2
    <3>4. QED
      BY <2>1, <2>2, <3>1, <3>2, <3>3, Quiet
  <2>4. CASE ~metalCluster.finalizer
    <3>1. ~metalCluster'.exists /\ ~metalCluster'.deleting
      BY <1>0, <1>4, <2>1, <2>4 DEF DeleteCluster, ClusterObject
    <3>2. metalCluster.privateNetworkID \in Supplied \cup {Nil}
      BY <2>1, <2>4 DEF Informed, Guarded
    <3>3. Nil \notin Networks
      BY ClusterAssumptions DEF ClusterAssumptions
    <3>4. Orphans' \subseteq Orphans
      BY <2>1, <3>2, <3>3 DEF Orphans, Recorded, InFlight
    <3>5. Waiver = 0 /\ Waiver' = 1
      BY <2>1, <3>1 DEF Waiver, RemovedUnguarded
    <3>6. Risk' + faults.count + Waiver <= Risk + faults'.count + Waiver'
      BY <1>n, <2>1, <3>5
    <3>7. QED
      BY <3>4, <3>6, NothingLost
  <2>5. QED
    BY <2>3, <2>4
<1>5. QED
  BY <1>1, <1>2, <1>3, <1>4 DEF Environment

\* Every fault, and the removal of an object that has no finalizer yet, costs at most
\* one network, for every set of networks and however many faults of whatever kind
\* strike.
THEOREM LeakBounded == Spec => []LeakBound
<1> DEFINE Accounts == Informed /\ Budget
<1>1. Init => Accounts
  <2> SUFFICES ASSUME Init PROVE Accounts
    OBVIOUS
  <2>1. PICK network \in Supplied \cup {Nil}, host \in IPs \cup {Nil} :
               metalCluster = NewCluster(network, host)
    BY DEF Init
  <2>2. /\ metalCluster.exists /\ ~metalCluster.deleting /\ ~metalCluster.finalizer
        /\ metalCluster.privateNetworkID \in Supplied \cup {Nil}
    BY <2>1 DEF NewCluster
  <2>3. pc = "idle" /\ before = obj /\ before = Blank /\ cached = metalCluster
    BY DEF Init
  <2>4. Knowing /\ Held /\ Guarded
    BY <2>2, <2>3, BlankFields, BlankFinalizer DEF Knowing, Held, Guarded
  <2>5. Guarding /\ Filling /\ Deleting /\ Dropping
    BY <2>3 DEF Guarding, Granting, Filling, Deleting, DeletionLabels, Dropping, Dropped
  <2>6. Orphans = {} /\ Risk = 0 /\ Waiver = 0 /\ faults.count = 0
    BY <2>2, <2>3 DEF Init, Orphans, Risk, Astray, Waiver, RemovedUnguarded, NoFault
  <2>7. Budget
    BY <2>6, FS_EmptySet DEF Budget
  <2>8. QED
    BY <2>4, <2>5, <2>7 DEF Informed
<1>2. NetworkInv /\ NetworkInv' /\ Accounts /\ [Next]_vars => Accounts'
  <2> SUFFICES ASSUME NetworkInv, NetworkInv', Accounts, [Next]_vars PROVE Accounts'
    OBVIOUS
  <2>1. TypeOK /\ TypeOK'
    BY DEF NetworkInv
  <2>2. CASE Controller
    BY <2>1, <2>2, InformedController, ControllerPays
  <2>3. CASE Environment
    BY <2>1, <2>3, InformedEnvironment, EnvironmentPays
  <2>4. CASE UNCHANGED vars
    <3>1. UNCHANGED <<metalCluster, before, cached, obj, pc, networks, faults>>
      BY <2>4 DEF vars, kube, metal, local
    <3>2. Informed'
      BY <3>1, InformedStays
    <3>3. Orphans' = Orphans /\ Risk' = Risk /\ Waiver' = Waiver
      BY <3>1 DEF Orphans, Recorded, InFlight, Risk, Astray, Waiver, RemovedUnguarded
    <3>4. Budget'
      BY <3>1, <3>3 DEF Budget
    <3>5. QED
      BY <3>2, <3>4
  <2>5. QED
    BY <2>2, <2>3, <2>4 DEF Next
<1>3. NetworkInv /\ Accounts => LeakBound
  <2> SUFFICES ASSUME NetworkInv, Accounts PROVE LeakBound
    OBVIOUS
  <2>1. TypeOK
    BY DEF NetworkInv
  <2>2. Cardinality(Orphans) <= faults.count + Waiver
    BY <2>1, BudgetTyped DEF Budget
  <2>3. QED
    BY <2>2 DEF LeakBound, Waiver
<1>4. QED
  BY <1>1, <1>2, <1>3, NetworkInvariant, PTL DEF Spec
=============================================================================
