----------------------- MODULE MetalStackClusterProofs -----------------------
(***************************************************************************)
(* Theorems about the MetalStackCluster controller, for every set of       *)
(* networks and addresses and every number of faults.                      *)
(***************************************************************************)
EXTENDS MetalStackCluster, FiniteSetTheorems, TLAPS

\* What every reconcile leaves behind when it ends, whatever it held.
LEMMA BlankTyped == Blank \in ClusterObject
  BY DEF Blank, NewCluster, ClusterObject

\* A restart of the manager keeps the types.
LEMMA RestartTyped ==
  ASSUME TypeOK, Restart
  PROVE  /\ pc' \in Labels /\ before' \in ClusterObject /\ obj' \in ClusterObject
         /\ again' \in BOOLEAN /\ cached' \in ClusterObject /\ queued' \in BOOLEAN
  BY BlankTyped DEF TypeOK, Restart, Labels

\* The fault budget is never overdrawn.
LEMMA FaultTyped ==
  ASSUME TypeOK, NEW kind, Fault(kind)
  PROVE  faults' \in FaultLog(MaxFaults)
<1>1. kind \in FaultKinds /\ MaxFaults \in Nat
  BY ClusterAssumptions DEF Fault, ClusterAssumptions
<1>2. faults \in [count: 0..MaxFaults, kinds: SUBSET FaultKinds] /\ faults.count < MaxFaults
  BY DEF TypeOK, Fault, FaultLog
<1>3. /\ faults.count + 1 \in 0..MaxFaults
      /\ faults.kinds \cup {kind} \in SUBSET FaultKinds
  BY <1>1, <1>2
<1>4. QED
  BY <1>3 DEF Fault, Struck, FaultLog

\* What the two patches make of the object is an object again.
LEMMA PatchTyped ==
  ASSUME TypeOK
  PROVE  PatchedSpec \in ClusterObject /\ PatchedStatus \in ClusterObject
<1>1. PatchedSpec \in ClusterObject
  <2> DEFINE finalizer == Merged(metalCluster.finalizer, before.finalizer, obj.finalizer)
             network == Merged(metalCluster.privateNetworkID, before.privateNetworkID,
                               obj.privateNetworkID)
             host == Merged(metalCluster.host, before.host, obj.host)
             o == [metalCluster EXCEPT !.finalizer = finalizer,
                                       !.privateNetworkID = network, !.host = host]
  <2>1. /\ finalizer \in BOOLEAN
        /\ network \in Networks \cup {Nil}
        /\ host \in IPs \cup {Nil}
    BY DEF TypeOK, Merged, ClusterObject
  <2>2. o \in ClusterObject
    <3> HIDE DEF finalizer, network, host
    <3>1. QED
      BY <2>1 DEF TypeOK, ClusterObject
  <2>3. \A b \in BOOLEAN : [o EXCEPT !.exists = b] \in ClusterObject
    <3> HIDE DEF o
    <3>1. QED
      BY <2>2 DEF ClusterObject
  <2>4. (~o.deleting \/ o.finalizer) \in BOOLEAN
    OBVIOUS
  <2>5. PatchedSpec = [o EXCEPT !.exists = ~o.deleting \/ o.finalizer]
    BY DEF PatchedSpec
  <2>6. QED
    <3> HIDE DEF o
    <3>1. QED
      BY <2>3, <2>4, <2>5
<1>2. PatchedStatus \in ClusterObject
  BY DEF TypeOK, PatchedStatus, Merged, ClusterObject
<1>3. QED
  BY <1>1, <1>2

\* The initial states are typed.
LEMMA InitTyped == Init => TypeOK
<1> SUFFICES ASSUME Init PROVE TypeOK
  OBVIOUS
<1>1. metalCluster \in ClusterObject
  <2>1. PICK network \in Supplied \cup {Nil}, host \in IPs \cup {Nil} :
               metalCluster = NewCluster(network, host)
    BY DEF Init
  <2>2. network \in Networks \cup {Nil}
    BY ClusterAssumptions DEF ClusterAssumptions
  <2>3. QED
    BY <2>1, <2>2 DEF NewCluster, ClusterObject
<1>2. networks \in [Networks -> {"unused", "allocated", "freed"}]
  BY DEF Init
<1>3. /\ child \in [Children -> {"absent", "live", "deleting"}]
      /\ attached \in [Children -> Networks \cup {Nil}]
      /\ ips \in SUBSET IPs
  BY DEF Init
<1>4. faults \in FaultLog(MaxFaults)
  BY ClusterAssumptions DEF Init, NoFault, FaultLog, ClusterAssumptions
<1>5. QED
  BY <1>1, <1>2, <1>3, <1>4, BlankTyped DEF Init, TypeOK, Labels

\* A step of the reconcile keeps the types.
LEMMA ControllerTyped == TypeOK /\ Controller => TypeOK'
<1> SUFFICES ASSUME TypeOK, Controller PROVE TypeOK'
  OBVIOUS
<1> USE DEF vars, kube, metal, local, Goto, Return
<1>1. CASE Reconcile
  <2>1. [cached EXCEPT !.failure = TRUE] \in ClusterObject
        /\ [cached EXCEPT !.finalizer = TRUE] \in ClusterObject
    BY DEF TypeOK, ClusterObject
  <2>2. before' \in ClusterObject /\ obj' \in ClusterObject
    BY <1>1, <2>1 DEF Reconcile, TypeOK
  <2>3. pc' \in Labels /\ again' \in BOOLEAN
    BY <1>1 DEF Reconcile, TypeOK, Labels
  <2>4. faults' \in FaultLog(MaxFaults)
    BY <1>1, FaultTyped DEF Reconcile, Started, OwnerNotFound, TypeOK
  <2>5. QED
    BY <1>1, <2>2, <2>3, <2>4 DEF Reconcile, TypeOK
<1>2. CASE AllocateNetwork
  <2>1. \A n \in Networks : [obj EXCEPT !.privateNetworkID = n] \in ClusterObject
    BY DEF TypeOK, ClusterObject
  <2>2. obj' \in ClusterObject
    BY <1>2, <2>1 DEF AllocateNetwork, Refusal, TypeOK
  <2>3. networks' \in [Networks -> {"unused", "allocated", "freed"}]
    BY <1>2 DEF AllocateNetwork, TypeOK
  <2>4. pc' \in Labels /\ again' \in BOOLEAN
    BY <1>2 DEF AllocateNetwork, Fail, TypeOK, Labels
  <2>5. faults' \in FaultLog(MaxFaults)
    BY <1>2, FaultTyped DEF AllocateNetwork, TypeOK
  <2>6. QED
    BY <1>2, <2>2, <2>3, <2>4, <2>5 DEF AllocateNetwork, TypeOK
<1>3. CASE AllocateControlPlaneIP
  <2>1. \A ip \in IPs : [obj EXCEPT !.host = ip, !.ipAllocated = TRUE] \in ClusterObject
    BY DEF TypeOK, ClusterObject
  <2>2. obj' \in ClusterObject
    BY <1>3, <2>1 DEF AllocateControlPlaneIP, Address, AddressRefused, TypeOK
  <2>3. ips' \in SUBSET IPs
    BY <1>3 DEF AllocateControlPlaneIP, TypeOK
  <2>4. pc' \in Labels /\ again' \in BOOLEAN
    BY <1>3 DEF AllocateControlPlaneIP, Fail, TypeOK, Labels
  <2>5. faults' \in FaultLog(MaxFaults)
    BY <1>3, FaultTyped DEF AllocateControlPlaneIP, TypeOK
  <2>6. QED
    BY <1>3, <2>2, <2>3, <2>4, <2>5 DEF AllocateControlPlaneIP, TypeOK
<1>4. CASE CreateFirewall
  <2>1. [obj EXCEPT !.ready = TRUE] \in ClusterObject
    BY DEF TypeOK, ClusterObject
  <2>2. obj' \in ClusterObject
    BY <1>4, <2>1 DEF CreateFirewall, Fail, TypeOK
  <2>3. child' \in [Children -> {"absent", "live", "deleting"}]
    BY <1>4 DEF CreateFirewall, TypeOK, Children
  <2>4. pc' \in Labels /\ again' \in BOOLEAN /\ faults' \in FaultLog(MaxFaults)
    BY <1>4, FaultTyped DEF CreateFirewall, Fail, TypeOK, Labels
  <2>5. QED
    BY <1>4, <2>2, <2>3, <2>4 DEF CreateFirewall, TypeOK
<1>5. CASE DeleteMachines
  <2>1. child' \in [Children -> {"absent", "live", "deleting"}]
    BY <1>5 DEF DeleteMachines, DeleteAllOf, Deleted, TypeOK, Children
  <2>2. pc' \in Labels /\ again' \in BOOLEAN
    BY <1>5 DEF DeleteMachines, DeleteAllOf, Fail, TypeOK, Labels
  <2>3. faults' \in FaultLog(MaxFaults)
    BY <1>5, FaultTyped DEF DeleteMachines, TypeOK
  <2>4. QED
    BY <1>5, <2>1, <2>2, <2>3 DEF DeleteMachines, TypeOK
<1>6. CASE DeleteFirewall
  <2>1. child' \in [Children -> {"absent", "live", "deleting"}]
    BY <1>6 DEF DeleteFirewall, DeleteAllOf, Deleted, TypeOK, Children
  <2>2. pc' \in Labels /\ again' \in BOOLEAN
    BY <1>6 DEF DeleteFirewall, DeleteAllOf, Fail, TypeOK, Labels
  <2>3. QED
    BY <1>6, <2>1, <2>2 DEF DeleteFirewall, TypeOK
<1>7. CASE NetworkFind
  <2>1. [obj EXCEPT !.finalizer = FALSE] \in ClusterObject
    BY DEF TypeOK, ClusterObject
  <2>2. pc' \in Labels /\ again' \in BOOLEAN /\ obj' \in ClusterObject
    BY <1>7, <2>1 DEF NetworkFind, Fail, TypeOK, Labels
  <2>3. QED
    BY <1>7, <2>2 DEF NetworkFind, TypeOK
<1>8. CASE NetworkFree
  <2>1. [obj EXCEPT !.finalizer = FALSE] \in ClusterObject
    BY DEF TypeOK, ClusterObject
  <2>2. /\ pc' \in Labels /\ before' \in ClusterObject /\ obj' \in ClusterObject
        /\ again' \in BOOLEAN /\ cached' \in ClusterObject /\ queued' \in BOOLEAN
    BY <1>8, <2>1, RestartTyped DEF NetworkFree, FreeRefused, Fail, TypeOK, Labels
  <2>3. networks' \in [Networks -> {"unused", "allocated", "freed"}]
    BY <1>8 DEF NetworkFree, TypeOK
  <2>4. faults' \in FaultLog(MaxFaults)
    BY <1>8, FaultTyped DEF NetworkFree, TypeOK
  <2>5. QED
    BY <1>8, <2>2, <2>3, <2>4 DEF NetworkFree, TypeOK
<1>9. CASE PatchSpec
  <2>1. metalCluster' \in ClusterObject
    BY <1>9, PatchTyped DEF PatchSpec, TypeOK
  <2>2. pc' \in Labels /\ again' \in BOOLEAN
    BY <1>9 DEF PatchSpec, TypeOK, Labels
  <2>3. faults' \in FaultLog(MaxFaults)
    BY <1>9, FaultTyped DEF PatchSpec, TypeOK
  <2>4. QED
    BY <1>9, <2>1, <2>2, <2>3 DEF PatchSpec, TypeOK
<1>10. CASE PatchStatus
  <2>1. metalCluster' \in ClusterObject
    BY <1>10, PatchTyped DEF PatchStatus, TypeOK
  <2>2. /\ pc' \in Labels /\ before' \in ClusterObject /\ obj' \in ClusterObject
        /\ again' \in BOOLEAN /\ queued' \in BOOLEAN
    BY <1>10, BlankTyped DEF PatchStatus, TypeOK, Labels
  <2>3. faults' \in FaultLog(MaxFaults)
    BY <1>10, FaultTyped DEF PatchStatus, TypeOK
  <2>4. QED
    BY <1>10, <2>1, <2>2, <2>3 DEF PatchStatus, TypeOK
<1>11. QED
  BY <1>1, <1>2, <1>3, <1>4, <1>5, <1>6, <1>7, <1>8, <1>9, <1>10 DEF Controller

\* A step of the world around the controller keeps the types.
LEMMA EnvironmentTyped == TypeOK /\ Environment => TypeOK'
<1> SUFFICES ASSUME TypeOK, Environment PROVE TypeOK'
  OBVIOUS
<1> USE DEF kube, metal, local
<1>1. CASE Crash
  BY <1>1, RestartTyped, FaultTyped DEF Crash, TypeOK
<1>2. CASE Refresh
  BY <1>2 DEF Refresh, TypeOK
<1>3. CASE SetOwnerRef
  <2>1. metalCluster' \in ClusterObject
    BY <1>3 DEF SetOwnerRef, TypeOK, ClusterObject
  <2>2. QED
    BY <1>3, <2>1 DEF SetOwnerRef, TypeOK
<1>4. CASE TogglePause
  BY <1>4 DEF TogglePause, TypeOK
<1>5. CASE DeleteCluster
  <2>1. metalCluster' \in ClusterObject
    BY <1>5 DEF DeleteCluster, TypeOK, ClusterObject
  <2>2. QED
    BY <1>5, <2>1 DEF DeleteCluster, TypeOK
<1>6. CASE CreateMachines
  BY <1>6 DEF CreateMachines, TypeOK, Children
<1>7. ASSUME NEW c \in Children, Attach(c) \/ DeleteChild(c) \/ Detach(c) \/ ChildGone(c)
      PROVE  TypeOK'
  <2>1. CASE Attach(c)
    <3>1. cached.privateNetworkID \in Networks \cup {Nil}
      BY DEF TypeOK, ClusterObject
    <3>2. attached' \in [Children -> Networks \cup {Nil}]
      BY <2>1, <3>1 DEF Attach, TypeOK
    <3>3. QED
      BY <2>1, <3>2 DEF Attach, TypeOK
  <2>2. CASE DeleteChild(c)
    BY <2>2 DEF DeleteChild, Deleted, TypeOK
  <2>3. CASE Detach(c)
    BY <2>3 DEF Detach, TypeOK
  <2>4. CASE ChildGone(c)
    BY <2>4 DEF ChildGone, TypeOK
  <2>5. QED
    BY <1>7, <2>1, <2>2, <2>3, <2>4
<1>8. QED
  BY <1>1, <1>2, <1>3, <1>4, <1>5, <1>6, <1>7 DEF Environment

LEMMA NextTyped == TypeOK /\ [Next]_vars => TypeOK'
<1> SUFFICES ASSUME TypeOK, [Next]_vars PROVE TypeOK'
  OBVIOUS
<1>1. CASE Next
  BY <1>1, ControllerTyped, EnvironmentTyped DEF Next
<1>2. CASE UNCHANGED vars
  BY <1>2 DEF vars, kube, metal, local, TypeOK
<1>3. QED
  BY <1>1, <1>2

\* Every variable keeps its type in every run of the controller.
THEOREM TypeCorrect == Spec => []TypeOK
BY InitTyped, NextTyped, PTL DEF Spec

-----------------------------------------------------------------------------
(* A live cluster keeps its network.  The invariant behind it speaks about *)
(* every copy of the object: a reconcile works from one copy while the     *)
(* user deletes another, so the model must rule out that a copy knows of a *)
(* deletion, or of a network, which the API server never saw.              *)

Copies == {metalCluster, cached, before, obj}

DeletionLabels == {"deleteMachines", "deleteFirewall", "NetworkFind", "NetworkFree"}

NetworkInv ==
  /\ TypeOK
  /\ cached.deleting => metalCluster.deleting
  /\ pc \in DeletionLabels => metalCluster.deleting
  /\ ~metalCluster.deleting => \A n \in Networks : networks[n] # "freed"
  /\ \A o \in Copies : o.privateNetworkID # Nil => networks[o.privateNetworkID] # "unused"

\* What each patch leaves alone and what it merges.
LEMMA PatchedFields ==
  ASSUME TypeOK
  PROVE  /\ PatchedSpec.deleting = metalCluster.deleting
         /\ PatchedSpec.ready = metalCluster.ready
         /\ PatchedSpec.ipAllocated = metalCluster.ipAllocated
         /\ PatchedSpec.privateNetworkID =
              Merged(metalCluster.privateNetworkID, before.privateNetworkID,
                     obj.privateNetworkID)
         /\ PatchedSpec.host = Merged(metalCluster.host, before.host, obj.host)
         /\ PatchedStatus.deleting = metalCluster.deleting
         /\ PatchedStatus.exists = metalCluster.exists
         /\ PatchedStatus.privateNetworkID = metalCluster.privateNetworkID
         /\ PatchedStatus.host = metalCluster.host
         /\ PatchedStatus.ready = Merged(metalCluster.ready, before.ready, obj.ready)
         /\ PatchedStatus.ipAllocated =
              Merged(metalCluster.ipAllocated, before.ipAllocated, obj.ipAllocated)
  BY DEF TypeOK, PatchedSpec, PatchedStatus, ClusterObject

\* What there is to know about the object between two reconciles.
LEMMA BlankFields ==
  /\ Blank.privateNetworkID = Nil /\ Blank.host = Nil
  /\ Blank.ready = FALSE /\ Blank.ipAllocated = FALSE /\ Blank.deleting = FALSE
  BY DEF Blank, NewCluster

\* A supplied network is allocated from the start.
LEMMA NetworkInvInit == Init => NetworkInv
<1> SUFFICES ASSUME Init PROVE NetworkInv
  OBVIOUS
<1>1. PICK network \in Supplied \cup {Nil}, host \in IPs \cup {Nil} :
             metalCluster = NewCluster(network, host)
  BY DEF Init
<1>2. metalCluster.privateNetworkID = network /\ ~metalCluster.deleting
  BY <1>1 DEF NewCluster
<1>3. \A o \in Copies : o.privateNetworkID \in {network, Nil}
  BY <1>2, BlankFields DEF Init, Copies
<1>4. Supplied \subseteq Networks
  BY ClusterAssumptions DEF ClusterAssumptions
<1>5. \A o \in Copies : o.privateNetworkID # Nil => networks[o.privateNetworkID] # "unused"
  BY <1>3, <1>4 DEF Init
<1>6. QED
  BY <1>2, <1>5, InitTyped DEF Init, NetworkInv, DeletionLabels

\* A step of the reconcile keeps NetworkInv: an ID is recorded only for a network
\* that was just allocated, and NetworkFree is reached under deletion only.
LEMMA NetworkInvController == NetworkInv /\ TypeOK' /\ Controller => NetworkInv'
<1> SUFFICES ASSUME NetworkInv, TypeOK', Controller PROVE NetworkInv'
  OBVIOUS
<1> USE DEF kube, metal, local, Goto, Return, Copies, DeletionLabels
<1>1. CASE Reconcile
  <2>1. /\ obj'.privateNetworkID \in {obj.privateNetworkID, cached.privateNetworkID}
        /\ before'.privateNetworkID \in {before.privateNetworkID, cached.privateNetworkID}
    BY <1>1 DEF Reconcile, NetworkInv, TypeOK, ClusterObject
  <2>2. pc' \in DeletionLabels => cached.deleting
    BY <1>1 DEF Reconcile
  <2>3. QED
    BY <1>1, <2>1, <2>2 DEF Reconcile, NetworkInv
<1>2. CASE AllocateNetwork
  <2>1. UNCHANGED <<metalCluster, cached, before>> /\ pc' \notin DeletionLabels
    BY <1>2 DEF AllocateNetwork, Fail
  <2>2. \A n \in Networks : networks'[n] \in {networks[n], "allocated"}
    BY <1>2 DEF AllocateNetwork, NetworkInv, TypeOK
  <2>3. \/ obj' = obj
        \/ \E n \in Networks : obj'.privateNetworkID = n /\ networks'[n] = "allocated"
    BY <1>2 DEF AllocateNetwork, Refusal, NetworkInv, TypeOK, ClusterObject
  <2>4. \A o \in Copies : o.privateNetworkID \in Networks \cup {Nil}
    BY DEF NetworkInv, TypeOK, ClusterObject
  <2>5. \A o \in Copies : o.privateNetworkID # Nil => networks'[o.privateNetworkID] # "unused"
    BY <2>2, <2>4 DEF NetworkInv
  <2>6. \A o \in Copies' : o.privateNetworkID # Nil => networks'[o.privateNetworkID] # "unused"
    BY <2>1, <2>3, <2>5
  <2>7. QED
    BY <2>1, <2>2, <2>6 DEF NetworkInv
<1>3. CASE AllocateControlPlaneIP
  <2>1. obj' = obj \/ \E ip \in IPs : Address(ip)
    BY <1>3 DEF AllocateControlPlaneIP, AddressRefused
  <2>2. obj'.privateNetworkID = obj.privateNetworkID
    <3>1. obj \in ClusterObject
      BY DEF NetworkInv, TypeOK
    <3>2. ASSUME NEW ip \in IPs, Address(ip)
          PROVE  obj'.privateNetworkID = obj.privateNetworkID
      BY <3>1, <3>2 DEF Address, ClusterObject
    <3>3. QED
      BY <2>1, <3>2
  <2>3. pc' \notin DeletionLabels
    BY <1>3 DEF AllocateControlPlaneIP, Fail
  <2>4. QED
    BY <1>3, <2>2, <2>3 DEF AllocateControlPlaneIP, NetworkInv
<1>4. CASE CreateFirewall
  <2>1. obj'.privateNetworkID = obj.privateNetworkID /\ pc' \notin DeletionLabels
    BY <1>4 DEF CreateFirewall, Fail, NetworkInv, TypeOK, ClusterObject
  <2>2. QED
    BY <1>4, <2>1 DEF CreateFirewall, NetworkInv
<1>5. CASE DeleteMachines
  BY <1>5 DEF DeleteMachines, NetworkInv
<1>6. CASE DeleteFirewall
  BY <1>6 DEF DeleteFirewall, NetworkInv
<1>7. CASE NetworkFind
  <2>1. obj'.privateNetworkID = obj.privateNetworkID
    BY <1>7 DEF NetworkFind, NetworkInv, TypeOK, ClusterObject
  <2>2. QED
    BY <1>7, <2>1 DEF NetworkFind, NetworkInv
<1>8. CASE NetworkFree
  <2>1. metalCluster.deleting /\ metalCluster' = metalCluster
    BY <1>8 DEF NetworkFree, NetworkInv
  <2>2. \A n \in Networks : networks'[n] \in {networks[n], "freed"}
    BY <1>8 DEF NetworkFree, NetworkInv, TypeOK
  <2>3. /\ cached' \in {cached, metalCluster}
        /\ before' \in {before, Blank}
        /\ obj' \in {obj, Blank, [obj EXCEPT !.finalizer = FALSE]}
    BY <1>8 DEF NetworkFree, FreeRefused, Fail, Restart
  <2>4. \A o \in Copies : o.privateNetworkID \in Networks \cup {Nil}
    BY DEF NetworkInv, TypeOK, ClusterObject
  <2>5. \A o \in Copies : o.privateNetworkID # Nil => networks'[o.privateNetworkID] # "unused"
    BY <2>2, <2>4 DEF NetworkInv
  <2>6. [obj EXCEPT !.finalizer = FALSE].privateNetworkID = obj.privateNetworkID
    BY DEF NetworkInv, TypeOK, ClusterObject
  <2>7. \A o \in Copies' : o.privateNetworkID # Nil => networks'[o.privateNetworkID] # "unused"
    BY <2>1, <2>3, <2>5, <2>6, BlankFields
  <2>8. cached'.deleting => metalCluster'.deleting
    BY <2>1
  <2>9. QED
    BY <2>1, <2>7, <2>8 DEF NetworkInv
<1>9. CASE PatchSpec
  <2>1. metalCluster' \in {metalCluster, PatchedSpec}
    BY <1>9 DEF PatchSpec
  <2>2. /\ PatchedSpec.deleting = metalCluster.deleting
        /\ PatchedSpec.privateNetworkID
             \in {metalCluster.privateNetworkID, obj.privateNetworkID}
    BY PatchedFields DEF Merged, NetworkInv
  <2>3. QED
    BY <1>9, <2>1, <2>2 DEF PatchSpec, NetworkInv
<1>10. CASE PatchStatus
  <2>1. /\ metalCluster'.deleting = metalCluster.deleting
        /\ metalCluster'.privateNetworkID = metalCluster.privateNetworkID
    BY <1>10, PatchedFields DEF PatchStatus, NetworkInv
  <2>2. QED
    BY <1>10, <2>1, BlankFields DEF PatchStatus, NetworkInv
<1>11. QED
  BY <1>1, <1>2, <1>3, <1>4, <1>5, <1>6, <1>7, <1>8, <1>9, <1>10 DEF Controller

\* A step of the world keeps NetworkInv: a deletion is never taken back.
LEMMA NetworkInvEnvironment == NetworkInv /\ TypeOK' /\ Environment => NetworkInv'
<1> SUFFICES ASSUME NetworkInv, TypeOK', Environment PROVE NetworkInv'
  OBVIOUS
<1> USE DEF kube, metal, local, Copies, DeletionLabels
<1>1. CASE Crash
  BY <1>1, BlankFields DEF Crash, Restart, NetworkInv
<1>2. CASE Refresh
  BY <1>2 DEF Refresh, NetworkInv
<1>3. CASE SetOwnerRef
  <2>1. /\ metalCluster'.deleting = metalCluster.deleting
        /\ metalCluster'.privateNetworkID = metalCluster.privateNetworkID
    BY <1>3 DEF SetOwnerRef, NetworkInv, TypeOK, ClusterObject
  <2>2. QED
    BY <1>3, <2>1 DEF SetOwnerRef, NetworkInv
<1>4. CASE TogglePause
  BY <1>4 DEF TogglePause, NetworkInv
<1>5. CASE DeleteCluster
  <2>1. /\ metalCluster.deleting => metalCluster'.deleting
        /\ metalCluster'.privateNetworkID = metalCluster.privateNetworkID
    BY <1>5 DEF DeleteCluster, NetworkInv, TypeOK, ClusterObject
  <2>2. QED
    BY <1>5, <2>1 DEF DeleteCluster, NetworkInv
<1>6. CASE CreateMachines
  BY <1>6 DEF CreateMachines, NetworkInv
<1>7. CASE \E c \in Children : Attach(c) \/ DeleteChild(c) \/ Detach(c) \/ ChildGone(c)
  BY <1>7 DEF Attach, DeleteChild, Detach, ChildGone, NetworkInv
<1>8. QED
  BY <1>1, <1>2, <1>3, <1>4, <1>5, <1>6, <1>7 DEF Environment

\* In every run no copy of the object knows of a deletion, or of a network, that
\* the API server and metal-API do not know of, and no network is freed before
\* the object is deleted.
THEOREM NetworkInvariant == Spec => []NetworkInv
<1>1. NetworkInv /\ TypeOK' /\ [Next]_vars => NetworkInv'
  <2> SUFFICES ASSUME NetworkInv, TypeOK', [Next]_vars PROVE NetworkInv'
    OBVIOUS
  <2>1. CASE Next
    BY <2>1, NetworkInvController, NetworkInvEnvironment DEF Next
  <2>2. CASE UNCHANGED vars
    BY <2>2 DEF vars, kube, metal, local, NetworkInv, Copies
  <2>3. QED
    BY <2>1, <2>2
<1>2. QED
  BY NetworkInvInit, TypeCorrect, <1>1, PTL DEF Spec

\* A cluster nobody deletes never loses the network its object names, however
\* many networks there are and however many faults of whatever kind strike.
THEOREM LiveNetwork == Spec => []LiveNetworkAllocated
<1>1. NetworkInv => LiveNetworkAllocated
  <2> SUFFICES ASSUME NetworkInv, ~metalCluster.deleting, metalCluster.privateNetworkID # Nil
               PROVE  networks[metalCluster.privateNetworkID] = "allocated"
    BY DEF LiveNetworkAllocated
  <2>1. metalCluster.privateNetworkID \in Networks
    BY DEF NetworkInv, TypeOK, ClusterObject
  <2>2. QED
    BY <2>1 DEF NetworkInv, TypeOK, Copies
<1>2. QED
  BY NetworkInvariant, <1>1, PTL

-----------------------------------------------------------------------------
(* Ready means recorded, as long as no patch request fails.  Ready and the *)
(* record it speaks about travel in two patches, and the reconcile that    *)
(* sends them may have started from a stale copy: the invariant follows    *)
(* the record through every copy and through the gap between the patches.  *)

\* What the status of one copy promises of its spec.
Backed(o) ==
  /\ o.ready => o.privateNetworkID # Nil /\ o.host # Nil
  /\ o.ipAllocated => o.host # Nil

\* What one copy has on record, another one has.
KeptIn(o, p) ==
  /\ o.privateNetworkID # Nil => p.privateNetworkID # Nil
  /\ o.host # Nil => p.host # Nil

\* A fault that has struck stays in the log.
LEMMA FaultsStay ==
  ASSUME [Next]_vars
  PROVE  faults.kinds \subseteq faults'.kinds
<1>1. faults' = faults \/ \E kind : Fault(kind)
  <2> USE DEF kube, metal, local
  <2>1. CASE Controller
    BY <2>1, ZenonT(60) DEF Controller, Reconcile, Started, OwnerNotFound, AllocateNetwork,
      AllocateControlPlaneIP, CreateFirewall, DeleteMachines, DeleteFirewall, NetworkFind,
      NetworkFree, PatchSpec, PatchStatus
  <2>2. CASE Environment
    BY <2>2, ZenonT(60) DEF Environment, Crash, Refresh, SetOwnerRef, TogglePause, DeleteCluster,
      CreateMachines, Attach, DeleteChild, Detach, ChildGone
  <2>3. QED
    BY <2>1, <2>2 DEF Next, vars
<1>2. QED
  BY <1>1 DEF Fault, Struck

ReadyInv ==
  /\ TypeOK
  /\ \A o \in Copies : Backed(o)
  /\ KeptIn(cached, metalCluster)
  /\ KeptIn(before, metalCluster)
  /\ KeptIn(before, obj)
  /\ pc = "allocateControlPlaneIP" => obj.privateNetworkID # Nil
  /\ pc = "createFirewall" => obj.privateNetworkID # Nil /\ obj.host # Nil
  /\ pc = "patchStatus" /\ metalCluster.exists => KeptIn(obj, metalCluster)

\* A new cluster is not ready.
LEMMA ReadyInvInit == Init => ReadyInv
<1> SUFFICES ASSUME Init PROVE ReadyInv
  OBVIOUS
<1>1. PICK network \in Supplied \cup {Nil}, host \in IPs \cup {Nil} :
             metalCluster = NewCluster(network, host)
  BY DEF Init
<1>2. ~metalCluster.ready /\ ~metalCluster.ipAllocated
  BY <1>1 DEF NewCluster
<1>3. QED
  BY <1>2, BlankFields, InitTyped DEF Init, ReadyInv, Copies, Backed, KeptIn

\* A restart forgets what the reconcile held and lists the live object.
LEMMA ReadyInvRestart ==
  ASSUME ReadyInv, TypeOK', Restart, metalCluster' = metalCluster
  PROVE  ReadyInv'
BY BlankFields DEF Restart, ReadyInv, Copies, Backed, KeptIn

\* A step of the reconcile keeps ReadyInv unless a patch request fails in it: ready is
\* set behind network and host, and the status follows the spec.
LEMMA ReadyInvController ==
  ASSUME Delivered', ReadyInv, TypeOK', Controller
  PROVE  ReadyInv'
<1> USE DEF kube, metal, local, Goto, Return, Copies, Backed, KeptIn
<1>0. /\ metalCluster \in ClusterObject /\ cached \in ClusterObject
      /\ before \in ClusterObject /\ obj \in ClusterObject
  BY DEF ReadyInv, TypeOK
<1>1. CASE Reconcile
  <2>1. \/ UNCHANGED <<before, obj, pc>>
        \/ /\ before' = cached
           /\ obj' \in {cached, [cached EXCEPT !.failure = TRUE],
                       [cached EXCEPT !.finalizer = TRUE]}
           /\ pc' \in {"patchSpec", "deleteMachines", "allocateNetwork"}
    BY <1>1 DEF Reconcile
  <2>2. \A o \in {cached, [cached EXCEPT !.failure = TRUE], [cached EXCEPT !.finalizer = TRUE]} :
          /\ o.privateNetworkID = cached.privateNetworkID /\ o.host = cached.host
          /\ o.ready = cached.ready /\ o.ipAllocated = cached.ipAllocated
    BY <1>0 DEF ClusterObject
  <2>3. UNCHANGED <<metalCluster, cached>>
    BY <1>1 DEF Reconcile
  <2>4. QED
    BY <2>1, <2>2, <2>3 DEF ReadyInv
<1>2. CASE AllocateNetwork
  <2>1. UNCHANGED <<metalCluster, cached, before>>
    BY <1>2 DEF AllocateNetwork
  <2>2. \/ obj' = obj /\ pc' = "patchSpec"
        \/ obj' = obj /\ obj.privateNetworkID # Nil /\ pc' = "allocateControlPlaneIP"
        \/ /\ \E n \in Networks : obj' = [obj EXCEPT !.privateNetworkID = n]
           /\ pc' = "allocateControlPlaneIP"
    BY <1>2 DEF AllocateNetwork, NeedsNetwork, Refusal, Fail
  <2>3. ASSUME NEW n \in Networks, obj' = [obj EXCEPT !.privateNetworkID = n]
        PROVE  /\ obj'.privateNetworkID # Nil /\ obj'.host = obj.host
               /\ obj'.ready = obj.ready /\ obj'.ipAllocated = obj.ipAllocated
    BY <1>0, <2>3, ClusterAssumptions DEF ClusterObject, ClusterAssumptions
  <2>4. QED
    BY <2>1, <2>2, <2>3 DEF ReadyInv
<1>3. CASE AllocateControlPlaneIP
  <2>1. UNCHANGED <<metalCluster, cached, before>> /\ obj.privateNetworkID # Nil
    BY <1>3 DEF AllocateControlPlaneIP, ReadyInv
  <2>2. \/ obj' = obj /\ pc' = "patchSpec"
        \/ obj' = obj /\ obj.ipAllocated /\ pc' = "createFirewall"
        \/ (\E ip \in IPs : Address(ip)) /\ pc' = "createFirewall"
    BY <1>3 DEF AllocateControlPlaneIP, AddressRefused, Fail
  <2>3. ASSUME NEW ip \in IPs, Address(ip)
        PROVE  /\ obj'.privateNetworkID = obj.privateNetworkID /\ obj'.host # Nil
               /\ obj'.ready = obj.ready
    BY <1>0, <2>3, ClusterAssumptions DEF Address, ClusterObject, ClusterAssumptions
  <2>4. QED
    BY <2>1, <2>2, <2>3 DEF ReadyInv
<1>4. CASE CreateFirewall
  <2>1. UNCHANGED <<metalCluster, cached, before>> /\ pc' = "patchSpec"
        /\ obj.privateNetworkID # Nil /\ obj.host # Nil
    BY <1>4 DEF CreateFirewall, Fail, ReadyInv
  <2>2. /\ obj'.privateNetworkID = obj.privateNetworkID /\ obj'.host = obj.host
        /\ obj'.ipAllocated = obj.ipAllocated
    BY <1>0, <1>4 DEF CreateFirewall, ClusterObject
  <2>3. QED
    BY <2>1, <2>2 DEF ReadyInv
<1>5. CASE DeleteMachines \/ DeleteFirewall
  BY <1>5 DEF DeleteMachines, DeleteFirewall, DeleteAllOf, Fail, ReadyInv
<1>6. CASE NetworkFind
  <2>1. /\ obj'.privateNetworkID = obj.privateNetworkID /\ obj'.host = obj.host
        /\ obj'.ready = obj.ready /\ obj'.ipAllocated = obj.ipAllocated
    BY <1>0, <1>6 DEF NetworkFind, ClusterObject
  <2>2. QED
    BY <1>6, <2>1 DEF NetworkFind, Fail, ReadyInv
<1>7. CASE NetworkFree
  <2>1. CASE Restart
    BY <1>7, <2>1, ReadyInvRestart DEF NetworkFree
  <2>2. CASE ~Restart
    <3>1. /\ UNCHANGED <<metalCluster, cached, before>> /\ pc' = "patchSpec"
          /\ obj' \in {obj, [obj EXCEPT !.finalizer = FALSE]}
      BY <1>7, <2>2 DEF NetworkFree, FreeRefused, Fail
    <3>2. /\ obj'.privateNetworkID = obj.privateNetworkID /\ obj'.host = obj.host
          /\ obj'.ready = obj.ready /\ obj'.ipAllocated = obj.ipAllocated
      BY <1>0, <3>1 DEF ClusterObject
    <3>3. QED
      BY <3>1, <3>2 DEF ReadyInv
  <2>3. QED
    BY <2>1, <2>2
<1>8. CASE PatchSpec
  <2>1. UNCHANGED <<cached, before, obj>> /\ pc' = "patchStatus"
    BY <1>8 DEF PatchSpec
  <2>2. CASE metalCluster' = PatchedSpec
    <3>1. /\ metalCluster'.privateNetworkID =
               Merged(metalCluster.privateNetworkID, before.privateNetworkID,
                      obj.privateNetworkID)
          /\ metalCluster'.host = Merged(metalCluster.host, before.host, obj.host)
          /\ metalCluster'.ready = metalCluster.ready
          /\ metalCluster'.ipAllocated = metalCluster.ipAllocated
      BY <2>2, PatchedFields DEF ReadyInv
    <3>2. /\ KeptIn(metalCluster, metalCluster')
          /\ KeptIn(obj, metalCluster')
      BY <3>1 DEF Merged, ReadyInv
    <3>3. QED
      BY <2>1, <3>1, <3>2 DEF ReadyInv
  <2>3. CASE metalCluster' # PatchedSpec
    <3>1. metalCluster' = metalCluster
      BY <1>8, <2>3 DEF PatchSpec
    <3>2. metalCluster.exists => SpecOf(obj) = SpecOf(before)
      BY <1>8, <2>3 DEF PatchSpec, Fault, Struck, Delivered
    <3>3. metalCluster.exists => KeptIn(obj, metalCluster)
      BY <3>2 DEF SpecOf, ReadyInv
    <3>4. QED
      BY <2>1, <3>1, <3>3 DEF ReadyInv
  <2>4. QED
    BY <2>2, <2>3
<1>9. CASE PatchStatus
  <2>1. /\ cached' = cached /\ before' = Blank /\ obj' = Blank /\ pc' = "idle"
        /\ pc = "patchStatus"
    BY <1>9 DEF PatchStatus
  <2>2. CASE metalCluster.exists /\ metalCluster' = PatchedStatus
    <3>1. /\ metalCluster'.privateNetworkID = metalCluster.privateNetworkID
          /\ metalCluster'.host = metalCluster.host
          /\ metalCluster'.ready \in {metalCluster.ready, obj.ready}
          /\ metalCluster'.ipAllocated \in {metalCluster.ipAllocated, obj.ipAllocated}
      BY <2>2, PatchedFields DEF Merged, ReadyInv
    <3>2. Backed(metalCluster')
      BY <2>1, <2>2, <3>1 DEF ReadyInv
    <3>3. QED
      BY <2>1, <3>1, <3>2, BlankFields DEF ReadyInv
  <2>3. CASE metalCluster' = metalCluster
    BY <2>1, <2>3, BlankFields DEF ReadyInv
  <2>4. QED
    BY <1>9, <2>2, <2>3 DEF PatchStatus
<1>10. QED
  BY <1>1, <1>2, <1>3, <1>4, <1>5, <1>6, <1>7, <1>8, <1>9 DEF Controller

\* A step of the world keeps ReadyInv.
LEMMA ReadyInvEnvironment ==
  ASSUME ReadyInv, TypeOK', Environment
  PROVE  ReadyInv'
<1> USE DEF kube, metal, local, Copies, Backed, KeptIn
<1>1. CASE Crash
  BY <1>1, ReadyInvRestart DEF Crash
<1>2. CASE Refresh
  BY <1>2 DEF Refresh, ReadyInv
<1>3. CASE SetOwnerRef \/ DeleteCluster
  <2>1. /\ metalCluster'.privateNetworkID = metalCluster.privateNetworkID
        /\ metalCluster'.host = metalCluster.host
        /\ metalCluster'.ready = metalCluster.ready
        /\ metalCluster'.ipAllocated = metalCluster.ipAllocated
        /\ metalCluster'.exists => metalCluster.exists
    BY <1>3 DEF SetOwnerRef, DeleteCluster, ReadyInv, TypeOK, ClusterObject
  <2>2. QED
    BY <1>3, <2>1 DEF SetOwnerRef, DeleteCluster, ReadyInv
<1>4. CASE TogglePause \/ CreateMachines
  BY <1>4 DEF TogglePause, CreateMachines, ReadyInv
<1>5. CASE \E c \in Children : Attach(c) \/ DeleteChild(c) \/ Detach(c) \/ ChildGone(c)
  BY <1>5 DEF Attach, DeleteChild, Detach, ChildGone, ReadyInv
<1>6. QED
  BY <1>1, <1>2, <1>3, <1>4, <1>5 DEF Environment

\* As long as no patch request has failed, a cluster that is reported ready has its
\* network and its control plane host on record, crashes and stale caches
\* notwithstanding.
THEOREM Ready == Spec => []ReadyRecorded
<1> DEFINE Inv == Delivered => ReadyInv
<1>1. Init => Inv
  BY ReadyInvInit
<1>2. Inv /\ TypeOK' /\ [Next]_vars => Inv'
  <2> SUFFICES ASSUME Inv, TypeOK', [Next]_vars, Delivered' PROVE ReadyInv'
    OBVIOUS
  <2>1. Delivered
    BY FaultsStay DEF Delivered
  <2>2. CASE Next
    BY <2>1, <2>2, ReadyInvController, ReadyInvEnvironment DEF Next
  <2>3. CASE UNCHANGED vars
    BY <2>1, <2>3 DEF vars, kube, metal, local, ReadyInv, Copies, Backed, KeptIn
  <2>4. QED
    BY <2>2, <2>3
<1>3. Inv => ReadyRecorded
  BY DEF ReadyInv, ReadyRecorded, Copies, Backed
<1>4. QED
  BY <1>1, <1>2, <1>3, TypeCorrect, PTL DEF Spec

-----------------------------------------------------------------------------
(* What is recorded stays.  With an up-to-date cache the copy a reconcile  *)
(* diffs against agrees with the live object until the first patch, and a  *)
(* reconcile fills in what is missing only.                                *)

StableInv ==
  /\ TypeOK
  /\ pc \notin {"idle", "patchStatus"} =>
       /\ before.privateNetworkID = metalCluster.privateNetworkID
       /\ before.host = metalCluster.host
  /\ before.privateNetworkID # Nil => obj.privateNetworkID = before.privateNetworkID
  /\ before.host # Nil => obj.host = before.host

\* One step: the record stays, and so does the invariant.
Kept ==
  /\ metalCluster.privateNetworkID # Nil =>
       metalCluster'.privateNetworkID = metalCluster.privateNetworkID
  /\ metalCluster.host # Nil => metalCluster'.host = metalCluster.host

\* Before the first reconcile nothing is held.
LEMMA StableInit == Init => StableInv
BY InitTyped, BlankFields DEF Init, StableInv

\* A reconcile that started from an old copy is never forgotten.
LEMMA FreshBefore ==
  ASSUME [Next]_vars, Fresh'
  PROVE  Fresh
BY FaultsStay DEF Fresh

\* A step of the reconcile keeps StableInv and the record unless it starts from an
\* old copy.
LEMMA StableController ==
  ASSUME Fresh', StableInv, TypeOK', Controller
  PROVE  StableInv' /\ Kept
<1> USE DEF kube, metal, local, Goto, Return, Kept
<1>0. cached \in ClusterObject /\ obj \in ClusterObject /\ metalCluster \in ClusterObject
  BY DEF StableInv, TypeOK
<1>1. CASE Reconcile
  <2>1. cached = metalCluster /\ UNCHANGED metalCluster
    BY <1>1 DEF Reconcile, Started, OwnerNotFound, Fault, Struck, Fresh
  <2>2. \/ UNCHANGED <<before, obj, pc>>
        \/ /\ before' = cached
           /\ obj' \in {cached, [cached EXCEPT !.failure = TRUE],
                       [cached EXCEPT !.finalizer = TRUE]}
    BY <1>1 DEF Reconcile
  <2>3. \A o \in {cached, [cached EXCEPT !.failure = TRUE], [cached EXCEPT !.finalizer = TRUE]} :
          o.privateNetworkID = cached.privateNetworkID /\ o.host = cached.host
    BY <1>0 DEF ClusterObject
  <2>4. QED
    BY <2>1, <2>2, <2>3 DEF StableInv
<1>2. CASE AllocateNetwork
  <2>1. UNCHANGED <<metalCluster, before>> /\ pc = "allocateNetwork"
    BY <1>2 DEF AllocateNetwork
  <2>2. \/ obj' = obj
        \/ /\ obj.privateNetworkID = Nil
           /\ \E n \in Networks : obj' = [obj EXCEPT !.privateNetworkID = n]
    BY <1>2, ZenonT(30) DEF AllocateNetwork, NeedsNetwork, Refusal
  <2>3. ASSUME NEW n \in Networks, obj' = [obj EXCEPT !.privateNetworkID = n]
        PROVE  obj'.host = obj.host
    BY <1>0, <2>3 DEF ClusterObject
  <2>4. QED
    BY <2>1, <2>2, <2>3 DEF StableInv
<1>3. CASE AllocateControlPlaneIP
  <2>1. UNCHANGED <<metalCluster, before>> /\ pc = "allocateControlPlaneIP"
    BY <1>3 DEF AllocateControlPlaneIP
  <2>2. obj' = obj \/ \E ip \in IPs : obj.host \in {Nil, ip} /\ Address(ip)
    BY <1>3 DEF AllocateControlPlaneIP, AddressRefused
  <2>3. ASSUME NEW ip \in IPs, obj.host \in {Nil, ip}, Address(ip)
        PROVE  /\ obj'.privateNetworkID = obj.privateNetworkID
               /\ obj.host # Nil => obj'.host = obj.host
    BY <1>0, <2>3 DEF Address, ClusterObject
  <2>4. QED
    BY <2>1, <2>2, <2>3 DEF StableInv
<1>4. CASE CreateFirewall
  <2>1. UNCHANGED <<metalCluster, before>> /\ pc = "createFirewall"
    BY <1>4 DEF CreateFirewall
  <2>2. obj'.privateNetworkID = obj.privateNetworkID /\ obj'.host = obj.host
    BY <1>0, <1>4 DEF CreateFirewall, ClusterObject
  <2>3. QED
    BY <2>1, <2>2 DEF StableInv
<1>5. CASE DeleteMachines \/ DeleteFirewall
  BY <1>5 DEF DeleteMachines, DeleteFirewall, StableInv
<1>6. CASE NetworkFind
  <2>1. UNCHANGED <<metalCluster, before>> /\ pc = "NetworkFind"
    BY <1>6 DEF NetworkFind
  <2>2. obj'.privateNetworkID = obj.privateNetworkID /\ obj'.host = obj.host
    BY <1>0, <1>6 DEF NetworkFind, ClusterObject
  <2>3. QED
    BY <2>1, <2>2 DEF StableInv
<1>7. CASE NetworkFree
  <2>1. UNCHANGED metalCluster /\ pc = "NetworkFree"
    BY <1>7 DEF NetworkFree
  <2>2. CASE Restart
    BY <2>1, <2>2, BlankFields DEF Restart, StableInv
  <2>3. CASE ~Restart
    <3>1. before' = before /\ obj' \in {obj, [obj EXCEPT !.finalizer = FALSE]}
      BY <1>7, <2>3 DEF NetworkFree, FreeRefused
    <3>2. obj'.privateNetworkID = obj.privateNetworkID /\ obj'.host = obj.host
      BY <1>0, <3>1 DEF ClusterObject
    <3>3. QED
      BY <2>1, <3>1, <3>2 DEF StableInv
  <2>4. QED
    BY <2>2, <2>3
<1>8. CASE PatchSpec
  <2>1. UNCHANGED <<before, obj>> /\ pc = "patchSpec" /\ pc' = "patchStatus"
    BY <1>8 DEF PatchSpec
  <2>2. metalCluster' \in {metalCluster, PatchedSpec}
    BY <1>8 DEF PatchSpec
  <2>3. /\ metalCluster.privateNetworkID # Nil =>
             PatchedSpec.privateNetworkID = metalCluster.privateNetworkID
        /\ metalCluster.host # Nil => PatchedSpec.host = metalCluster.host
    BY <2>1, PatchedFields DEF Merged, StableInv
  <2>4. QED
    BY <2>1, <2>2, <2>3 DEF StableInv
<1>9. CASE PatchStatus
  <2>1. pc' = "idle" /\ before' = Blank /\ obj' = Blank
        /\ metalCluster' \in {metalCluster, PatchedStatus}
    BY <1>9 DEF PatchStatus
  <2>2. QED
    BY <2>1, BlankFields, PatchedFields DEF StableInv
<1>10. QED
  BY <1>1, <1>2, <1>3, <1>4, <1>5, <1>6, <1>7, <1>8, <1>9 DEF Controller

\* A step of the world keeps StableInv and the record.
LEMMA StableEnvironment ==
  ASSUME StableInv, TypeOK', Environment
  PROVE  StableInv' /\ Kept
<1> USE DEF kube, metal, local, Kept
<1>1. CASE Crash
  BY <1>1, BlankFields DEF Crash, Restart, StableInv
<1>2. CASE SetOwnerRef \/ DeleteCluster
  <2>1. /\ metalCluster'.privateNetworkID = metalCluster.privateNetworkID
        /\ metalCluster'.host = metalCluster.host
    BY <1>2 DEF SetOwnerRef, DeleteCluster, StableInv, TypeOK, ClusterObject
  <2>2. QED
    BY <1>2, <2>1 DEF SetOwnerRef, DeleteCluster, StableInv
<1>3. CASE Refresh \/ TogglePause \/ CreateMachines
  BY <1>3 DEF Refresh, TogglePause, CreateMachines, StableInv
<1>4. CASE \E c \in Children : Attach(c) \/ DeleteChild(c) \/ Detach(c) \/ ChildGone(c)
  BY <1>4 DEF Attach, DeleteChild, Detach, ChildGone, StableInv
<1>5. QED
  BY <1>1, <1>2, <1>3, <1>4 DEF Environment

\* While every reconcile starts from an up-to-date copy, the network and the
\* control plane host of a cluster are never replaced once they are on record,
\* whatever else goes wrong.
THEOREM Stable == Spec => RecordStable
<1> DEFINE Inv == Fresh => StableInv
<1>1. Init => Inv
  BY StableInit
<1>2. Inv /\ TypeOK' /\ [Next]_vars => Inv' /\ [Fresh' => Kept]_vars
  <2> SUFFICES ASSUME Fresh => StableInv, TypeOK', [Next]_vars, Fresh'
               PROVE  StableInv' /\ [Fresh' => Kept]_vars
    BY DEF Kept
  <2>1. StableInv
    BY FreshBefore
  <2>2. CASE Next
    BY <2>1, <2>2, StableController, StableEnvironment DEF Next
  <2>3. CASE UNCHANGED vars
    BY <2>1, <2>3 DEF vars, kube, metal, local, StableInv
  <2>4. QED
    BY <2>2, <2>3
<1>3. QED
  BY <1>1, TypeCorrect, <1>2, PTL DEF Spec, RecordStable, Kept

-----------------------------------------------------------------------------
(* What a removed object leaves behind.  The finalizer is the only thing   *)
(* that keeps the object, so the invariant follows it from the reconcile   *)
(* that drops it to the patch that persists that.                          *)

\* Under deletion an object is held by its finalizer.
Held == (metalCluster.exists /\ metalCluster.deleting) => metalCluster.finalizer

\* The children are deleted one kind after the other.
Progress ==
  /\ pc \in {"deleteFirewall", "NetworkFind", "NetworkFree"} => child["machines"] # "live"
  /\ pc \in {"NetworkFind", "NetworkFree"} => child["firewall"] # "live"

Unattended == \A c \in Children : child[c] # "live"
FreedOf(id) == id # Nil => networks[id] = "freed"

\* A reconcile drops the finalizer only after the network and the children.
Dropped == before.finalizer /\ ~obj.finalizer
Releases ==
  /\ Dropped => pc \in {"patchSpec", "patchStatus"}
  /\ (Dropped /\ pc = "patchSpec") =>
       metalCluster.deleting /\ FreedOf(obj.privateNetworkID) /\ Unattended

\* A reconcile that changes the ID records a network that is still allocated, and
\* is not a deletion.
Records ==
  obj.privateNetworkID # before.privateNetworkID =>
    /\ pc \in {"allocateControlPlaneIP", "createFirewall", "patchSpec", "patchStatus"}
    /\ obj.privateNetworkID \in Networks
    /\ networks[obj.privateNetworkID] = "allocated"
    /\ ~Dropped

\* Once the object is gone nothing but the status patch is in flight.
Gone ==
  (~metalCluster.exists /\ metalCluster.deleting) =>
    /\ pc \in {"idle", "patchStatus"}
    /\ FreedOf(metalCluster.privateNetworkID)
    /\ Unattended

RemovalInv == StableInv /\ NetworkInv /\ Held /\ Progress /\ Releases /\ Records /\ Gone

\* What the patches do to the finalizer and to the object's existence.
LEMMA PatchedGuards ==
  ASSUME TypeOK
  PROVE  /\ PatchedSpec.finalizer = Merged(metalCluster.finalizer, before.finalizer, obj.finalizer)
         /\ PatchedSpec.exists <=> (~metalCluster.deleting \/ PatchedSpec.finalizer)
         /\ PatchedStatus.finalizer = metalCluster.finalizer
         /\ PatchedStatus.exists = metalCluster.exists
         /\ PatchedStatus.deleting = metalCluster.deleting
  BY DEF TypeOK, PatchedSpec, PatchedStatus, ClusterObject

\* The spec patch of a fresh reconcile writes obj's network, and ends the object's
\* existence only after a deletion.
LEMMA PatchReleases ==
  ASSUME RemovalInv, pc = "patchSpec", metalCluster.exists
  PROVE  /\ PatchedSpec.deleting = metalCluster.deleting
         /\ PatchedSpec.privateNetworkID = obj.privateNetworkID
         /\ PatchedSpec.exists /\ metalCluster.deleting => PatchedSpec.finalizer
         /\ ~PatchedSpec.exists => Dropped
<1>0. TypeOK
  BY DEF RemovalInv, NetworkInv
<1>1. /\ PatchedSpec.deleting = metalCluster.deleting
      /\ PatchedSpec.privateNetworkID =
           Merged(metalCluster.privateNetworkID, before.privateNetworkID, obj.privateNetworkID)
  BY <1>0, PatchedFields
<1>2. before.privateNetworkID = metalCluster.privateNetworkID
  BY DEF RemovalInv, StableInv
<1>3. PatchedSpec.privateNetworkID = obj.privateNetworkID
  BY <1>1, <1>2 DEF Merged
<1>4. PatchedSpec.exists <=> (~metalCluster.deleting \/ PatchedSpec.finalizer)
  BY <1>0, PatchedGuards
<1>5. ~PatchedSpec.exists => metalCluster.deleting /\ ~PatchedSpec.finalizer
  BY <1>4
<1>6. metalCluster.deleting => metalCluster.finalizer
  BY DEF RemovalInv, Held
<1>7. metalCluster.finalizer /\ ~PatchedSpec.finalizer => Dropped
  <2>1. /\ before.finalizer \in BOOLEAN /\ obj.finalizer \in BOOLEAN
        /\ metalCluster.finalizer \in BOOLEAN
    BY <1>0 DEF TypeOK, ClusterObject
  <2>2. QED
    BY <1>0, <2>1, PatchedGuards DEF Merged, Dropped
<1>8. QED
  BY <1>1, <1>3, <1>4, <1>5, <1>6, <1>7

\* The parts of the invariant that are new hold at the start.
LEMMA RemovalInvInit == Init => RemovalInv
<1> SUFFICES ASSUME Init PROVE RemovalInv
  OBVIOUS
<1>1. Held /\ Gone
  BY DEF Init, NewCluster, Held, Gone
<1>2. before = obj /\ pc = "idle"
  BY DEF Init
<1>3. Progress /\ Releases /\ Records
  BY <1>2 DEF Progress, Releases, Records, Dropped
<1>4. QED
  BY <1>1, <1>3, StableInit, NetworkInvInit DEF RemovalInv

\* After a restart nothing is in flight.
LEMMA RemovalRestart ==
  ASSUME RemovalInv, Restart, UNCHANGED kube, \A n \in Networks : networks'[n] = networks[n],
         metalCluster.privateNetworkID \in Networks \cup {Nil}
  PROVE  Held' /\ Progress' /\ Releases' /\ Records' /\ Gone'
<1>1. pc' = "idle" /\ before' = obj' /\ UNCHANGED <<metalCluster, child>>
  BY DEF Restart, kube
<1>2. Progress' /\ Releases' /\ Records'
  BY <1>1 DEF Progress, Releases, Records, Dropped
<1>3. Held'
  BY <1>1 DEF RemovalInv, Held
<1>4. Gone'
  BY <1>1 DEF RemovalInv, Gone, FreedOf, Unattended
<1>5. QED
  BY <1>2, <1>3, <1>4

\* A step of the reconcile preserves the invariant unless it starts from an old
\* copy.
LEMMA RemovalController ==
  ASSUME RemovalInv, Fresh', TypeOK', Controller
  PROVE  Held' /\ Progress' /\ Releases' /\ Records' /\ Gone'
<1> USE DEF kube, metal, local, Goto, Return
<1>0. /\ TypeOK /\ StableInv /\ NetworkInv
      /\ Held /\ Progress /\ Releases /\ Records /\ Gone
  BY DEF RemovalInv, NetworkInv
<1>a. cached \in ClusterObject /\ obj \in ClusterObject /\ metalCluster \in ClusterObject
  BY <1>0 DEF TypeOK
<1>b. \A o \in ClusterObject :
        /\ [o EXCEPT !.failure = TRUE].finalizer = o.finalizer
        /\ [o EXCEPT !.failure = TRUE].privateNetworkID = o.privateNetworkID
        /\ [o EXCEPT !.ready = TRUE].finalizer = o.finalizer
        /\ [o EXCEPT !.ready = TRUE].privateNetworkID = o.privateNetworkID
        /\ [o EXCEPT !.finalizer = TRUE].finalizer
        /\ [o EXCEPT !.finalizer = TRUE].privateNetworkID = o.privateNetworkID
        /\ ~[o EXCEPT !.finalizer = FALSE].finalizer
        /\ [o EXCEPT !.finalizer = FALSE].privateNetworkID = o.privateNetworkID
  BY DEF ClusterObject
<1>1. CASE Reconcile
  <2>1. cached = metalCluster /\ UNCHANGED <<metalCluster, child, networks>>
    BY <1>1 DEF Reconcile, Started, OwnerNotFound, Fault, Struck, Fresh
  <2>2. Held'
    BY <1>0, <2>1 DEF Held
  <2>3. CASE UNCHANGED local
    BY <1>0, <2>1, <2>2, <2>3 DEF Progress, Releases, Records, Dropped, Gone, FreedOf, Unattended
  <2>4. CASE ~UNCHANGED local
    <3>1. /\ cached.exists
          /\ before' = cached
          /\ obj' \in {cached, [cached EXCEPT !.failure = TRUE], [cached EXCEPT !.finalizer = TRUE]}
          /\ pc' \in {"patchSpec", "deleteMachines", "allocateNetwork"}
      BY <1>1, <2>4 DEF Reconcile
    <3>2. obj'.privateNetworkID = before'.privateNetworkID
      BY <1>a, <1>b, <3>1
    <3>3. before'.finalizer => obj'.finalizer
      <4>1. /\ [cached EXCEPT !.failure = TRUE].finalizer = cached.finalizer
            /\ [cached EXCEPT !.finalizer = TRUE].finalizer = TRUE
        BY <1>a DEF ClusterObject
      <4>2. obj'.finalizer \in {cached.finalizer, TRUE}
        BY <3>1, <4>1
      <4>3. QED
        BY <3>1, <4>2
    <3>4. Progress' /\ Releases' /\ Records'
      BY <3>1, <3>2, <3>3 DEF Progress, Releases, Records, Dropped
    <3>5. Gone'
      BY <2>1, <3>1 DEF Gone
    <3>6. QED
      BY <2>2, <3>4, <3>5
  <2>5. QED
    BY <2>3, <2>4
<1>2. CASE AllocateNetwork
  <2>1. /\ UNCHANGED <<metalCluster, child, before>>
        /\ pc = "allocateNetwork" /\ pc' \in {"allocateControlPlaneIP", "patchSpec"}
    BY <1>2 DEF AllocateNetwork, Fail
  <2>2. ~Dropped /\ obj.privateNetworkID = before.privateNetworkID
    BY <1>0, <2>1 DEF Releases, Records
  <2>3. \/ obj' = obj
        \/ \E n \in Networks : /\ obj' = [obj EXCEPT !.privateNetworkID = n]
                               /\ networks' = [networks EXCEPT ![n] = "allocated"]
    BY <1>2, ZenonT(30) DEF AllocateNetwork, Refusal
  <2>4. obj' = obj => ~Dropped' /\ Records'
    BY <2>1, <2>2 DEF Dropped, Records
  <2>5. ASSUME NEW n \in Networks, obj' = [obj EXCEPT !.privateNetworkID = n],
               networks' = [networks EXCEPT ![n] = "allocated"]
        PROVE  ~Dropped' /\ Records'
    <3>1. obj'.privateNetworkID = n /\ obj'.finalizer = obj.finalizer
      BY <1>a, <2>5 DEF ClusterObject
    <3>2. ~Dropped'
      BY <2>1, <2>2, <3>1 DEF Dropped
    <3>3. networks'[n] = "allocated"
      BY <1>0, <2>5 DEF TypeOK
    <3>4. pc' = "allocateControlPlaneIP" \/ pc' = "patchSpec"
      BY <2>1
    <3>5. QED
      BY <3>1, <3>2, <3>3, <3>4 DEF Records
  <2>6. QED
    BY <1>0, <2>1, <2>3, <2>4, <2>5 DEF Held, Progress, Releases, Gone
<1>3. CASE AllocateControlPlaneIP \/ CreateFirewall
  <2>1. /\ UNCHANGED <<metalCluster, networks, before>>
        /\ pc \in {"allocateControlPlaneIP", "createFirewall"}
        /\ pc' \in {"createFirewall", "patchSpec"}
    BY <1>3 DEF AllocateControlPlaneIP, CreateFirewall, Fail
  <2>2. /\ obj'.privateNetworkID = obj.privateNetworkID
        /\ obj'.finalizer = obj.finalizer
    <3>1. CASE obj' = obj
      BY <3>1
    <3>2. CASE obj' = [obj EXCEPT !.ready = TRUE]
      BY <1>a, <1>b, <3>2
    <3>3. ASSUME NEW ip \in IPs, Address(ip)
          PROVE  obj'.privateNetworkID = obj.privateNetworkID /\ obj'.finalizer = obj.finalizer
      BY <1>a, <3>3 DEF Address, ClusterObject
    <3>4. QED
      BY <1>3, <3>1, <3>2, <3>3, ZenonT(30) DEF AllocateControlPlaneIP, CreateFirewall, AddressRefused
  <2>3. ~Dropped /\ ~Dropped'
    BY <1>0, <2>1, <2>2 DEF Releases, Dropped
  <2>4. Records'
    BY <1>0, <2>1, <2>2, <2>3 DEF Records
  <2>5. QED
    BY <1>0, <2>1, <2>3, <2>4 DEF Held, Progress, Releases, Gone
<1>4. CASE DeleteMachines
  <2>1. /\ UNCHANGED <<metalCluster, networks, before, obj>>
        /\ pc = "deleteMachines" /\ pc' \in {"deleteFirewall", "patchSpec"}
    BY <1>4 DEF DeleteMachines, DeleteAllOf, Fail
  <2>2. pc' = "deleteFirewall" => child'["machines"] # "live"
    BY <1>0, <1>4 DEF DeleteMachines, DeleteAllOf, Deleted, Fail, Fault, Struck, Fresh, TypeOK,
                      Children
  <2>3. ~Dropped /\ ~Dropped'
    BY <1>0, <2>1 DEF Releases, Dropped
  <2>4. QED
    BY <1>0, <2>1, <2>2, <2>3 DEF Held, Progress, Releases, Records, Gone
<1>5. CASE DeleteFirewall
  <2>1. /\ UNCHANGED <<metalCluster, networks, before, obj>>
        /\ pc = "deleteFirewall" /\ pc' \in {"NetworkFind", "patchSpec"}
    BY <1>5 DEF DeleteFirewall, DeleteAllOf, Fail
  <2>2. pc' = "NetworkFind" => child'["firewall"] # "live" /\ child'["machines"] # "live"
    BY <1>0, <1>5 DEF DeleteFirewall, DeleteAllOf, Deleted, Fail, TypeOK, Children, Progress
  <2>3. ~Dropped /\ ~Dropped'
    BY <1>0, <2>1 DEF Releases, Dropped
  <2>4. QED
    BY <1>0, <2>1, <2>2, <2>3 DEF Held, Progress, Releases, Records, Gone
<1>6. CASE NetworkFind
  <2>1. /\ UNCHANGED <<metalCluster, child, networks, before>>
        /\ pc = "NetworkFind" /\ pc' \in {"NetworkFree", "patchSpec"}
    BY <1>6 DEF NetworkFind, Fail
  <2>2. /\ ~Dropped /\ metalCluster.deleting /\ Unattended
        /\ obj.privateNetworkID = before.privateNetworkID
    BY <1>0, <2>1 DEF Releases, NetworkInv, DeletionLabels, Progress, Unattended, Children, Records
  <2>3. \/ obj' = obj
        \/ /\ NetworksFound(obj.privateNetworkID) # 1
           /\ obj' = [obj EXCEPT !.finalizer = FALSE] /\ pc' = "patchSpec"
    BY <1>6 DEF NetworkFind
  <2>4. obj'.privateNetworkID = obj.privateNetworkID
    BY <1>a, <1>b, <2>3
  <2>5. Dropped' => pc' = "patchSpec" /\ FreedOf(obj.privateNetworkID)
    <3>1. CASE obj' = obj
      BY <2>1, <2>2, <3>1 DEF Dropped
    <3>2. CASE NetworksFound(obj.privateNetworkID) # 1 /\ pc' = "patchSpec"
      <4>1. obj.privateNetworkID \in Networks \cup {Nil}
        BY <1>a DEF ClusterObject
      <4>2. obj.privateNetworkID # Nil => networks[obj.privateNetworkID] # "unused"
        BY <1>0 DEF NetworkInv, Copies
      <4>3. FreedOf(obj.privateNetworkID)
        BY <1>0, <3>2, <4>1, <4>2 DEF FreedOf, NetworksFound, TypeOK
      <4>4. QED
        BY <3>2, <4>3
    <3>3. QED
      BY <2>3, <3>1, <3>2
  <2>6. Releases'
    BY <2>1, <2>2, <2>4, <2>5 DEF Releases, FreedOf, Unattended
  <2>7. Records'
    BY <2>1, <2>2, <2>4 DEF Records
  <2>8. QED
    BY <1>0, <2>1, <2>6, <2>7 DEF Held, Progress, Gone
<1>7. CASE NetworkFree
  <2>1. UNCHANGED <<metalCluster, child>> /\ pc = "NetworkFree"
    BY <1>7 DEF NetworkFree
  <2>2. /\ ~Dropped /\ metalCluster.deleting /\ Unattended
        /\ obj.privateNetworkID = before.privateNetworkID
    BY <1>0, <2>1 DEF Releases, NetworkInv, DeletionLabels, Progress, Unattended, Children, Records
  <2>3. CASE obj.privateNetworkID = Nil
    <3>1. Restart /\ UNCHANGED networks
      BY <1>7, <2>3 DEF NetworkFree
    <3>2. QED
      BY <1>0, <1>a, <2>1, <3>1, RemovalRestart DEF ClusterObject
  <2>4. CASE obj.privateNetworkID # Nil
    <3>1. /\ pc' = "patchSpec" /\ before' = before
          /\ \/ obj' = obj
             \/ /\ obj' = [obj EXCEPT !.finalizer = FALSE]
                /\ networks' = [networks EXCEPT ![obj.privateNetworkID] = "freed"]
      BY <1>7, <2>4 DEF NetworkFree, FreeRefused, Fail
    <3>2. obj'.privateNetworkID = obj.privateNetworkID
      BY <1>a, <1>b, <3>1
    <3>3. obj.privateNetworkID \in Networks
      BY <1>a, <2>4 DEF ClusterObject
    <3>4. Dropped' => FreedOf(obj.privateNetworkID)'
      <4>1. CASE obj' = obj
        BY <2>2, <3>1, <4>1 DEF Dropped
      <4>2. CASE networks' = [networks EXCEPT ![obj.privateNetworkID] = "freed"]
        BY <1>0, <3>2, <3>3, <4>2 DEF FreedOf, TypeOK
      <4>3. QED
        BY <3>1, <4>1, <4>2
    <3>5. Releases'
      BY <2>1, <2>2, <3>1, <3>2, <3>4 DEF Releases, Unattended, FreedOf
    <3>6. Records'
      BY <2>2, <3>1, <3>2 DEF Records
    <3>7. Progress'
      BY <3>1 DEF Progress
    <3>8. QED
      BY <1>0, <2>1, <3>5, <3>6, <3>7 DEF Held, Gone
  <2>5. QED
    BY <2>3, <2>4
<1>8. CASE PatchSpec
  <2>1. /\ UNCHANGED <<child, networks, before, obj>>
        /\ pc = "patchSpec" /\ pc' = "patchStatus"
    BY <1>8 DEF PatchSpec
  <2>2. Progress' /\ Releases' /\ Records'
    BY <1>0, <2>1 DEF Progress, Releases, Records, Dropped
  <2>3. CASE UNCHANGED metalCluster
    BY <1>0, <2>1, <2>2, <2>3 DEF Held, Gone
  <2>4. CASE metalCluster.exists /\ metalCluster' = PatchedSpec
    <3>1. Held'
      BY <2>1, <2>4, PatchReleases DEF Held
    <3>2. ~metalCluster'.exists =>
            FreedOf(metalCluster.privateNetworkID)' /\ Unattended'
      BY <1>0, <2>1, <2>4, PatchReleases DEF Releases, FreedOf, Unattended
    <3>3. QED
      BY <2>1, <2>2, <3>1, <3>2 DEF Gone
  <2>5. QED
    BY <1>8, <2>3, <2>4 DEF PatchSpec
<1>9. CASE PatchStatus
  <2>1. /\ UNCHANGED <<child, networks>> /\ pc' = "idle" /\ before' = obj'
        /\ pc = "patchStatus" /\ metalCluster' \in {metalCluster, PatchedStatus}
    BY <1>9 DEF PatchStatus
  <2>2. /\ metalCluster'.exists = metalCluster.exists
        /\ metalCluster'.deleting = metalCluster.deleting
        /\ metalCluster'.finalizer = metalCluster.finalizer
    BY <1>0, <2>1, PatchedGuards
  <2>3. metalCluster'.privateNetworkID = metalCluster.privateNetworkID
    BY <1>0, <2>1, PatchedFields
  <2>4. Progress' /\ Releases' /\ Records'
    BY <2>1 DEF Progress, Releases, Records, Dropped
  <2>5. QED
    BY <1>0, <2>1, <2>2, <2>3, <2>4 DEF Held, Gone, FreedOf, Unattended
<1>10. QED
  BY <1>1, <1>2, <1>3, <1>4, <1>5, <1>6, <1>7, <1>8, <1>9 DEF Controller

\* A step of the world preserves the invariant: nobody creates a child of a cluster
\* that is being deleted.
LEMMA RemovalEnvironment ==
  ASSUME RemovalInv, TypeOK', Environment
  PROVE  Held' /\ Progress' /\ Releases' /\ Records' /\ Gone'
<1> USE DEF kube, metal, local
<1>0. /\ TypeOK /\ NetworkInv
      /\ Held /\ Progress /\ Releases /\ Records /\ Gone
  BY DEF RemovalInv, NetworkInv
<1>1. CASE Crash
  BY <1>0, <1>1, RemovalRestart DEF Crash, TypeOK, ClusterObject
<1>2. CASE SetOwnerRef \/ DeleteCluster
  <2>1. /\ UNCHANGED <<child, networks, before, obj, pc>> /\ metalCluster.exists
        /\ metalCluster'.privateNetworkID = metalCluster.privateNetworkID
        /\ metalCluster'.finalizer = metalCluster.finalizer
    BY <1>0, <1>2 DEF SetOwnerRef, DeleteCluster, TypeOK, ClusterObject
  <2>2. /\ metalCluster'.exists \/ ~metalCluster'.deleting
        /\ metalCluster'.deleting => metalCluster.deleting \/ metalCluster.finalizer
        /\ metalCluster.deleting => metalCluster'.deleting
    BY <1>0, <1>2 DEF SetOwnerRef, DeleteCluster, TypeOK, ClusterObject
  <2>3. Held'
    BY <1>0, <2>1, <2>2 DEF Held
  <2>4. Progress' /\ Records'
    BY <1>0, <2>1 DEF Progress, Records, Dropped
  <2>5. Releases'
    BY <1>0, <2>1, <2>2 DEF Releases, Dropped, FreedOf, Unattended
  <2>6. QED
    BY <2>2, <2>3, <2>4, <2>5 DEF Gone
<1>3. CASE Refresh \/ TogglePause
  BY <1>0, <1>3 DEF Refresh, TogglePause, Held, Progress, Releases, Records, Gone, Dropped,
                    FreedOf, Unattended
<1>4. CASE CreateMachines
  <2>1. /\ UNCHANGED <<metalCluster, networks, before, obj, pc>>
        /\ metalCluster.exists /\ ~metalCluster.deleting
    BY <1>4 DEF CreateMachines
  <2>2. pc \notin DeletionLabels
    BY <1>0, <2>1 DEF NetworkInv
  <2>3. QED
    BY <1>0, <2>1, <2>2 DEF Held, Progress, Releases, Records, Gone, Dropped, DeletionLabels
<1>5. ASSUME NEW c \in Children, Attach(c) \/ DeleteChild(c) \/ Detach(c) \/ ChildGone(c)
      PROVE  Held' /\ Progress' /\ Releases' /\ Records' /\ Gone'
  <2>1. UNCHANGED <<metalCluster, networks, before, obj, pc>>
    BY <1>5 DEF Attach, DeleteChild, Detach, ChildGone
  <2>2. \A d \in Children : child'[d] = "live" => child[d] = "live"
    BY <1>0, <1>5 DEF Attach, DeleteChild, Detach, ChildGone, Deleted, TypeOK
  <2>3. "firewall" \in Children /\ "machines" \in Children
    BY DEF Children
  <2>4. Progress'
    BY <1>0, <2>1, <2>2, <2>3 DEF Progress
  <2>5. Unattended => Unattended'
    BY <2>2 DEF Unattended
  <2>6. QED
    BY <1>0, <2>1, <2>4, <2>5 DEF Held, Releases, Records, Gone, Dropped, FreedOf
<1>6. QED
  BY <1>1, <1>2, <1>3, <1>4, <1>5 DEF Environment

\* The invariant holds up to the first reconcile that starts from an old copy.
FreshInv == Fresh => RemovalInv

LEMMA RemovalInvHolds == Spec => []FreshInv
<1>1. Init => FreshInv
  BY RemovalInvInit DEF FreshInv
<1>2. FreshInv /\ TypeOK' /\ [Next]_vars => FreshInv'
  <2> SUFFICES ASSUME Fresh => RemovalInv, TypeOK', [Next]_vars, Fresh'
               PROVE  RemovalInv'
    BY DEF FreshInv
  <2>1. RemovalInv /\ StableInv /\ NetworkInv
    BY FreshBefore DEF RemovalInv
  <2>2. CASE Controller
    BY <2>1, <2>2, StableController, NetworkInvController, RemovalController DEF RemovalInv
  <2>3. CASE Environment
    BY <2>1, <2>3, StableEnvironment, NetworkInvEnvironment, RemovalEnvironment DEF RemovalInv
  <2>4. CASE UNCHANGED vars
    <3>1. StableInv'
      BY <2>1, <2>4 DEF vars, kube, metal, local, StableInv
    <3>2. NetworkInv'
      BY <2>1, <2>4 DEF vars, kube, metal, local, NetworkInv, Copies
    <3>3. Held' /\ Progress' /\ Releases' /\ Records' /\ Gone'
      BY <2>1, <2>4 DEF vars, kube, metal, local, RemovalInv, Held, Progress, Releases, Records,
                        Gone, Dropped, FreedOf, Unattended
    <3>4. QED
      BY <3>1, <3>2, <3>3 DEF RemovalInv
  <2>5. QED
    BY <2>2, <2>3, <2>4 DEF Next
<1>3. QED
  BY <1>1, TypeCorrect, <1>2, PTL DEF Spec

\* A cluster that is gone after a deletion leaves neither its network nor a child
\* that nobody deletes, whatever calls fail, answers are lost, patches fail and
\* managers crash, while no reconcile starts from a copy that is behind the API
\* server.
THEOREM RemovalLeaves == Spec => []RemovalLeavesNothing
<1>1. FreshInv => RemovalLeavesNothing
  BY DEF FreshInv, RemovalInv, RemovalLeavesNothing, Gone, FreedOf, Unattended
<1>2. QED
  BY <1>1, RemovalInvHolds, PTL

-----------------------------------------------------------------------------
(* The controller implements Lifecycle                                     *)

\* The three things Lifecycle speaks of.
Object == IF ~metalCluster.exists THEN "gone"
          ELSE IF metalCluster.deleting THEN "deleting" ELSE "live"
Recording == metalCluster.privateNetworkID
Holding == {n \in Networks : networks[n] = "allocated"}

\* A step of the controller or its world is one of Lifecycle, or changes nothing there.
Step ==
  \/ Lifecycle!Next
  \/ Object' = Object /\ Recording' = Recording /\ Holding' = Holding

\* A step that leaves the object and the networks alone changes nothing there.
LEMMA Elsewhere == ASSUME UNCHANGED <<metalCluster, networks>> PROVE Step
  BY DEF Step, Object, Recording, Holding

\* The steps of a reconcile: a network is freed only while the object that names it
\* waits for that, and an ID is recorded once.
LEMMA StepsOfController ==
  ASSUME RemovalInv, Fresh, Fresh', Controller
  PROVE  Step
<1> USE DEF kube, metal, local, Goto, Return
<1>0. /\ TypeOK /\ StableInv /\ NetworkInv
      /\ Held /\ Progress /\ Releases /\ Records /\ Gone
  BY DEF RemovalInv, NetworkInv
<1>1. CASE Reconcile \/ AllocateControlPlaneIP \/ CreateFirewall \/ DeleteMachines
           \/ DeleteFirewall \/ NetworkFind
  BY <1>1, Elsewhere DEF Reconcile, AllocateControlPlaneIP, CreateFirewall, DeleteMachines,
                         DeleteFirewall, NetworkFind
<1>2. CASE AllocateNetwork
  <2>1. UNCHANGED metalCluster
    BY <1>2 DEF AllocateNetwork
  <2>2. ASSUME NEW n \in Networks, networks[n] = "unused",
               networks' = [networks EXCEPT ![n] = "allocated"]
        PROVE  Lifecycle!Acquire
    <3>1. Holding' = Holding \cup {n} /\ n \in Networks \ Holding
      BY <1>0, <2>2 DEF Holding, TypeOK
    <3>2. Object' = Object /\ Recording' = Recording
      BY <2>1 DEF Object, Recording
    <3>3. QED
      BY <3>1, <3>2 DEF Lifecycle!Acquire, Object, Recording, Holding
  <2>3. QED
    BY <1>2, <2>1, <2>2, Elsewhere DEF AllocateNetwork, Step, Lifecycle!Next
<1>3. CASE NetworkFree
  <2>1. UNCHANGED metalCluster /\ pc = "NetworkFree"
    BY <1>3 DEF NetworkFree
  <2>2. ASSUME obj.privateNetworkID # Nil,
               networks' = [networks EXCEPT ![obj.privateNetworkID] = "freed"]
        PROVE  Lifecycle!Release
    <3>1. metalCluster.deleting /\ metalCluster.exists
      BY <1>0, <2>1 DEF NetworkInv, DeletionLabels, Gone
    <3>2. obj.privateNetworkID = metalCluster.privateNetworkID
      BY <1>0, <2>1 DEF Records, StableInv
    <3>3. Holding' = Holding \ {Recording}
      BY <1>0, <2>2, <3>2 DEF Holding, Recording, TypeOK
    <3>4. Object = "deleting" /\ Object' = Object /\ Recording' = Recording
      BY <2>1, <3>1 DEF Object, Recording
    <3>5. QED
      BY <3>3, <3>4 DEF Lifecycle!Release, Object, Recording, Holding
  <2>3. QED
    BY <1>3, <2>1, <2>2, Elsewhere DEF NetworkFree, Step, Lifecycle!Next
<1>4. CASE PatchSpec
  <2>1. UNCHANGED networks /\ pc = "patchSpec"
    BY <1>4 DEF PatchSpec
  <2>2. CASE UNCHANGED metalCluster
    BY <2>1, <2>2, Elsewhere
  <2>3. CASE metalCluster.exists /\ metalCluster' = PatchedSpec
    <3>1. Holding' = Holding
      BY <2>1 DEF Holding
    <3>2. /\ metalCluster'.deleting = metalCluster.deleting
          /\ metalCluster'.privateNetworkID = obj.privateNetworkID
          /\ ~metalCluster'.exists => Dropped
      BY <2>1, <2>3, PatchReleases
    <3>3. before.privateNetworkID = metalCluster.privateNetworkID
      BY <1>0, <2>1 DEF StableInv
    <3>4. CASE ~metalCluster'.exists
      <4>1. metalCluster.deleting /\ FreedOf(obj.privateNetworkID)
        BY <1>0, <2>1, <3>2, <3>4 DEF Releases
      <4>2. Recording' = Recording
        BY <1>0, <3>2, <3>3, <3>4 DEF Records, Recording
      <4>3. Recording \notin Holding
        BY <3>2, <4>1, <4>2, ClusterAssumptions DEF FreedOf, Recording, Holding, ClusterAssumptions
      <4>4. Object = "deleting" /\ Object' = "gone"
        BY <2>3, <3>4, <4>1 DEF Object
      <4>5. Lifecycle!Remove
        BY <3>1, <4>2, <4>3, <4>4 DEF Lifecycle!Remove, Object, Recording, Holding
      <4>6. QED
        BY <4>5 DEF Step, Lifecycle!Next
    <3>5. CASE metalCluster'.exists /\ obj.privateNetworkID = before.privateNetworkID
      BY <2>3, <3>1, <3>2, <3>3, <3>5 DEF Step, Object, Recording
    <3>6. CASE metalCluster'.exists /\ obj.privateNetworkID # before.privateNetworkID
      <4>1. Object' = Object /\ Object # "gone"
        BY <2>3, <3>2, <3>6 DEF Object
      <4>2. Recording = Nil
        BY <1>0, <3>3, <3>6 DEF Recording, StableInv
      <4>3. Recording' \in Holding
        BY <1>0, <3>2, <3>6 DEF Records, Recording, Holding
      <4>4. Lifecycle!Record
        BY <3>1, <4>1, <4>2, <4>3 DEF Lifecycle!Record, Object, Recording, Holding
      <4>5. QED
        BY <4>4 DEF Step, Lifecycle!Next
    <3>7. QED
      BY <3>4, <3>5, <3>6
  <2>4. QED
    BY <1>4, <2>2, <2>3 DEF PatchSpec
<1>5. CASE PatchStatus
  <2>1. UNCHANGED networks /\ metalCluster' \in {metalCluster, PatchedStatus}
    BY <1>5 DEF PatchStatus
  <2>2. /\ metalCluster'.exists = metalCluster.exists
        /\ metalCluster'.deleting = metalCluster.deleting
    BY <1>0, <2>1, PatchedGuards
  <2>3. metalCluster'.privateNetworkID = metalCluster.privateNetworkID
    BY <1>0, <2>1, PatchedFields
  <2>4. QED
    BY <2>1, <2>2, <2>3 DEF Step, Object, Recording, Holding
<1>6. QED
  BY <1>1, <1>2, <1>3, <1>4, <1>5 DEF Controller

\* The steps of the world: a user's deletion is the only one Lifecycle sees.
LEMMA StepsOfEnvironment ==
  ASSUME TypeOK, Fresh, Fresh', Environment
  PROVE  Step
<1> USE DEF kube, metal, local
<1>1. CASE Crash \/ Refresh \/ TogglePause \/ CreateMachines
  BY <1>1, Elsewhere DEF Crash, Refresh, TogglePause, CreateMachines
<1>2. CASE \E c \in Children : Attach(c) \/ DeleteChild(c) \/ Detach(c) \/ ChildGone(c)
  BY <1>2, Elsewhere DEF Attach, DeleteChild, Detach, ChildGone
<1>3. CASE SetOwnerRef
  <2>1. /\ metalCluster'.exists = metalCluster.exists
        /\ metalCluster'.deleting = metalCluster.deleting
        /\ metalCluster'.privateNetworkID = metalCluster.privateNetworkID
        /\ UNCHANGED networks
    BY <1>3 DEF SetOwnerRef, TypeOK, ClusterObject
  <2>2. QED
    BY <2>1 DEF Step, Object, Recording, Holding
<1>4. CASE DeleteCluster
  <2>1. Object = "live" /\ UNCHANGED networks
    BY <1>4 DEF DeleteCluster, Object
  <2>2. /\ metalCluster'.privateNetworkID = metalCluster.privateNetworkID
        /\ Object' \in {"deleting", "gone"}
    BY <1>4 DEF DeleteCluster, Object, TypeOK, ClusterObject
  <2>3. Recording' = Recording /\ Holding' = Holding
    BY <2>1, <2>2 DEF Recording, Holding
  <2>4. Lifecycle!Delete
    BY <2>1, <2>2, <2>3 DEF Lifecycle!Delete, Object, Recording, Holding
  <2>5. QED
    BY <2>4 DEF Step, Lifecycle!Next
<1>5. QED
  BY <1>1, <1>2, <1>3, <1>4 DEF Environment

\* The cluster controller implements the specification Lifecycle: for all networks,
\* addresses and numbers of faults, the network on record is never replaced, is freed
\* under deletion only, and is free before the object goes.
THEOREM Implements == Spec => KeepsNetwork
<1>1. Init => Lifecycle!Init
  <2> SUFFICES ASSUME Init PROVE Lifecycle!Init
    OBVIOUS
  <2>1. TypeOK
    BY InitTyped
  <2>2. Recording \in Networks \cup {Nil} /\ Holding \in SUBSET Networks
    BY <2>1 DEF TypeOK, ClusterObject, Recording, Holding
  <2>3. Object = "live"
    BY DEF Init, NewCluster, Object
  <2>4. Fresh
    BY DEF Init, NoFault, Fresh
  <2>5. QED
    BY <2>2, <2>3, <2>4 DEF Lifecycle!Init, Object, Recording, Holding
<1>2. FreshInv /\ TypeOK /\ [Next]_vars => [Lifecycle!Next \/ (~Fresh)']_(Lifecycle!lifecycle)
  <2> SUFFICES ASSUME FreshInv, TypeOK, [Next]_vars, Fresh'
               PROVE  Lifecycle!Next \/ UNCHANGED Lifecycle!lifecycle
    OBVIOUS
  <2>1. Fresh /\ RemovalInv
    BY FreshBefore DEF FreshInv
  <2>2. Step
    <3>1. CASE Next
      BY <2>1, <3>1, StepsOfController, StepsOfEnvironment DEF Next
    <3>2. CASE UNCHANGED vars
      BY <3>2, Elsewhere DEF vars, kube, metal
    <3>3. QED
      BY <3>1, <3>2
  <2>3. QED
    BY <2>1, <2>2 DEF Step, Lifecycle!lifecycle, Object, Recording, Holding
<1>3. QED
  BY <1>1, <1>2, TypeCorrect, RemovalInvHolds, PTL
  DEF Spec, KeepsNetwork, Lifecycle!Spec

-----------------------------------------------------------------------------
(* What the informer has seen of the object is not undone.  The firewall   *)
(* controller reads the same copy and relies on it.                        *)

\* An object that is gone does not come back, and one that has a network keeps one;
\* and the reconcile that frees a network knows which.
Advancing ==
  /\ TypeOK
  /\ metalCluster.exists => cached.exists
  /\ cached.privateNetworkID # Nil => metalCluster.privateNetworkID # Nil
  /\ before.privateNetworkID # Nil => obj.privateNetworkID # Nil
  /\ pc = "NetworkFree" => obj.privateNetworkID # Nil

LEMMA AdvancingInit == Init => Advancing
BY InitTyped, BlankFields DEF Init, Advancing

\* A search without an ID finds every network of the project, so never exactly one.
LEMMA ManyFound ==
  ASSUME TypeOK, Others > 1
  PROVE  NetworksFound(Nil) # 1
<1> DEFINE S == {n \in Networks : networks[n] = "allocated"}
<1>1. IsFiniteSet(S)
  BY ClusterAssumptions, FS_Subset DEF ClusterAssumptions
<1>2. Cardinality(S) \in Nat /\ Others \in Nat
  BY <1>1, ClusterAssumptions, FS_CardinalityType DEF ClusterAssumptions
<1>3. NetworksFound(Nil) = Others + Cardinality(S)
  BY DEF NetworksFound
<1>4. QED
  BY <1>2, <1>3

LEMMA AdvancingKept ==
  ASSUME Others > 1, Advancing, [Next]_vars
  PROVE  Advancing'
<1> USE DEF vars, kube, metal, local, Goto, Return
<1>0. TypeOK /\ TypeOK'
  BY NextTyped DEF Advancing
<1>1. CASE Reconcile
  <2>1. \/ UNCHANGED <<before, obj>>
        \/ /\ before' = cached
           /\ obj' \in {cached, [cached EXCEPT !.failure = TRUE],
                        [cached EXCEPT !.finalizer = TRUE]}
    BY <1>1 DEF Reconcile
  <2>2. before'.privateNetworkID # Nil => obj'.privateNetworkID # Nil
    BY <1>0, <2>1 DEF Advancing, TypeOK, ClusterObject
  <2>3. UNCHANGED <<metalCluster, cached>> /\ pc' # "NetworkFree"
    BY <1>1 DEF Reconcile, Advancing
  <2>4. QED
    BY <1>0, <2>2, <2>3 DEF Advancing
<1>2. CASE AllocateNetwork \/ AllocateControlPlaneIP \/ CreateFirewall
  <2>1. UNCHANGED <<metalCluster, cached, before>> /\ pc' # "NetworkFree"
    BY <1>2 DEF AllocateNetwork, AllocateControlPlaneIP, CreateFirewall, Fail
  <2>2. \/ obj'.privateNetworkID = obj.privateNetworkID
        \/ obj'.privateNetworkID \in Networks
    <3>1. \/ obj' \in {obj, [obj EXCEPT !.ready = TRUE]}
          \/ \E n \in Networks : obj' = [obj EXCEPT !.privateNetworkID = n]
          \/ \E ip \in IPs : obj' = [obj EXCEPT !.host = ip, !.ipAllocated = TRUE]
      BY <1>2 DEF AllocateNetwork, AllocateControlPlaneIP, CreateFirewall, Refusal,
                  Address, AddressRefused
    <3>2. obj \in ClusterObject
      BY <1>0 DEF TypeOK
    <3>3. /\ [obj EXCEPT !.ready = TRUE].privateNetworkID = obj.privateNetworkID
          /\ \A n \in Networks : [obj EXCEPT !.privateNetworkID = n].privateNetworkID = n
          /\ \A ip \in IPs : [obj EXCEPT !.host = ip, !.ipAllocated = TRUE].privateNetworkID
                              = obj.privateNetworkID
      BY <3>2 DEF ClusterObject
    <3>4. QED
      BY <3>1, <3>3
  <2>3. QED
    BY <1>0, <2>1, <2>2, ClusterAssumptions DEF Advancing, ClusterAssumptions
<1>3. CASE DeleteMachines \/ DeleteFirewall
  BY <1>0, <1>3 DEF DeleteMachines, DeleteFirewall, DeleteAllOf, Fail, Advancing
<1>4. CASE NetworkFind
  <2>1. UNCHANGED <<metalCluster, cached, before>>
    BY <1>4 DEF NetworkFind
  <2>2. obj'.privateNetworkID = obj.privateNetworkID
    BY <1>0, <1>4 DEF NetworkFind, Fail, TypeOK, ClusterObject
  <2>3. pc' = "NetworkFree" => obj.privateNetworkID # Nil
    BY <1>0, <1>4, ManyFound DEF NetworkFind, Fail
  <2>4. QED
    BY <1>0, <2>1, <2>2, <2>3 DEF Advancing
<1>5. CASE NetworkFree
  <2>1. UNCHANGED <<metalCluster, cached, before>> /\ pc' # "NetworkFree"
    BY <1>5 DEF NetworkFree, FreeRefused, Fail, Advancing
  <2>2. obj'.privateNetworkID = obj.privateNetworkID
    BY <1>0, <1>5 DEF NetworkFree, FreeRefused, Fail, Advancing, TypeOK, ClusterObject
  <2>3. QED
    BY <1>0, <2>1, <2>2 DEF Advancing
<1>6. CASE PatchSpec
  <2>1. UNCHANGED <<cached, before, obj>> /\ pc' # "NetworkFree"
    BY <1>6 DEF PatchSpec
  <2>2. \/ metalCluster' = metalCluster
        \/ metalCluster.exists /\ metalCluster' = PatchedSpec
    BY <1>6 DEF PatchSpec
  <2>3. metalCluster'.exists => metalCluster.exists
    BY <2>2
  <2>4. metalCluster.privateNetworkID # Nil => metalCluster'.privateNetworkID # Nil
    BY <1>0, <2>2, PatchedFields DEF Merged, Advancing
  <2>5. QED
    BY <1>0, <2>1, <2>3, <2>4 DEF Advancing
<1>7. CASE PatchStatus
  <2>1. UNCHANGED cached /\ pc' = "idle" /\ before' = Blank
    BY <1>7 DEF PatchStatus
  <2>2. metalCluster' \in {metalCluster, PatchedStatus}
    BY <1>7 DEF PatchStatus
  <2>3. /\ metalCluster'.exists = metalCluster.exists
        /\ metalCluster'.privateNetworkID = metalCluster.privateNetworkID
    BY <1>0, <2>2, PatchedFields, PatchedGuards
  <2>4. QED
    BY <1>0, <2>1, <2>3, BlankFields DEF Advancing
<1>8. CASE Crash
  BY <1>0, <1>8, BlankFields DEF Crash, Restart, Advancing
<1>9. CASE Refresh
  BY <1>0, <1>9 DEF Refresh, Advancing
<1>10. CASE SetOwnerRef \/ DeleteCluster
  <2>1. /\ metalCluster'.exists => metalCluster.exists
        /\ metalCluster'.privateNetworkID = metalCluster.privateNetworkID
    BY <1>0, <1>10 DEF SetOwnerRef, DeleteCluster, TypeOK, ClusterObject
  <2>2. UNCHANGED <<cached, before, obj, pc>>
    BY <1>10 DEF SetOwnerRef, DeleteCluster
  <2>3. QED
    BY <1>0, <2>1, <2>2 DEF Advancing
<1>11. CASE UNCHANGED <<metalCluster, cached, before, obj, pc>>
  BY <1>0, <1>11 DEF Advancing
<1>12. QED
  <2>1. CASE Controller
    BY <1>1, <1>2, <1>3, <1>4, <1>5, <1>6, <1>7, <2>1 DEF Controller
  <2>2. CASE Environment
    BY <1>8, <1>9, <1>10, <1>11, <2>2, Zenon DEF Environment, TogglePause, CreateMachines, Attach,
       DeleteChild, Detach, ChildGone
  <2>3. QED
    BY <1>11, <2>1, <2>2 DEF Next
-----------------------------------------------------------------------------
(* Nothing is forgotten.  The work queue, the copy in the cache and the    *)
(* reconcile in flight are three reasons to look at the object again: the  *)
(* invariant hands the duty on from one to the next.                       *)

\* What one copy knows of the live object, and what holds an object under deletion.
Known ==
  /\ Held
  /\ metalCluster.exists => cached.exists
  /\ cached.exists /\ cached.deleting => cached.finalizer
  /\ cached.deleting \/ before.deleting => metalCluster.deleting
  /\ cached.ready \/ before.ready => metalCluster.ready

\* A reconcile that does not ask for another one has finished its work: it has set
\* ready, or it drops the finalizer of an object under deletion.
Course ==
  /\ before.ready => obj.ready
  /\ pc \in {"allocateNetwork", "allocateControlPlaneIP", "createFirewall"} => ~before.deleting
  /\ pc \in DeletionLabels => before.deleting /\ before.finalizer
  /\ pc = "patchSpec" /\ ~again =>
       IF before.deleting THEN before.finalizer /\ ~obj.finalizer ELSE obj.ready
  /\ pc = "patchStatus" /\ ~again /\ metalCluster.exists => ~before.deleting /\ obj.ready
  /\ pc = "idle" => ~before.deleting

\* Without a place in the queue an object is finished, once the worker has let go of it,
\* and if it is under deletion then the informer has yet to say so, or the worker knows.
Awake ==
  metalCluster.exists /\ ~queued =>
    /\ pc = "idle" => metalCluster.ready
    /\ metalCluster.deleting => ~cached.deleting \/ before.deleting

Driven == TypeOK /\ Known /\ Course /\ Awake

LEMMA DrivenInit == Init => Driven
<1> SUFFICES ASSUME Init PROVE Driven
  OBVIOUS
<1>1. PICK network \in Supplied \cup {Nil}, host \in IPs \cup {Nil} :
             metalCluster = NewCluster(network, host)
  BY DEF Init
<1>2. ~metalCluster.deleting /\ ~metalCluster.ready
  BY <1>1 DEF NewCluster
<1>3. QED
  BY <1>2, BlankFields, InitTyped DEF Init, Driven, Known, Held, Course, Awake, DeletionLabels

\* A new process looks at every object.
LEMMA DrivenRestart ==
  ASSUME Driven, TypeOK', Restart, metalCluster' = metalCluster
  PROVE  Driven'
BY BlankFields DEF Restart, Driven, Known, Held, Course, Awake, DeletionLabels

\* A call in the middle of a reconcile leaves the object and its copies alone.
LEMMA DrivenOn ==
  ASSUME Driven, TypeOK', UNCHANGED <<metalCluster, cached, before, queued>>, pc # "idle",
         Course', pc' # "idle"
  PROVE  Driven'
BY DEF Driven, Known, Held, Awake

LEMMA DrivenController ==
  ASSUME Driven, TypeOK', Controller
  PROVE  Driven'
<1> USE DEF kube, metal, local, Goto, Return, Fail, DeletionLabels
<1>0. /\ metalCluster \in ClusterObject /\ cached \in ClusterObject
      /\ before \in ClusterObject /\ obj \in ClusterObject
      /\ again \in BOOLEAN /\ queued \in BOOLEAN
  BY DEF Driven, TypeOK
<1>1. CASE Reconcile
  <2>1. UNCHANGED <<metalCluster, cached>> /\ pc = "idle"
    BY <1>1 DEF Reconcile
  <2>2. CASE ~cached.exists
    <3>1. UNCHANGED local /\ ~metalCluster.exists
      BY <1>1, <2>2 DEF Reconcile, Driven, Known
    <3>2. QED
      BY <2>1, <3>1 DEF Driven, Known, Held, Course, Awake
  <2>3. CASE cached.exists
    <3>1. before' = cached
      BY <1>1, <2>3 DEF Reconcile
    <3>2. obj' \in {cached, [cached EXCEPT !.failure = TRUE], [cached EXCEPT !.finalizer = TRUE]}
      BY <1>1, <2>3 DEF Reconcile
    <3>3. obj'.ready = cached.ready
      BY <1>0, <3>2 DEF ClusterObject
    <3>4. \/ pc' = "patchSpec" /\ again'
          \/ pc' = "deleteMachines" /\ cached.deleting
          \/ pc' = "allocateNetwork" /\ ~cached.deleting
      BY <1>1, <2>3 DEF Reconcile
    <3>5. queued' = FALSE
      BY <1>1 DEF Reconcile
    <3>6. QED
      BY <2>1, <2>3, <3>1, <3>3, <3>4, <3>5 DEF Driven, Known, Held, Course, Awake
  <2>4. QED
    BY <2>2, <2>3
<1>2. CASE AllocateNetwork \/ AllocateControlPlaneIP
  <2>1. /\ UNCHANGED <<metalCluster, cached, before, queued>>
        /\ pc \in {"allocateNetwork", "allocateControlPlaneIP"}
        /\ \/ pc' \in {"allocateControlPlaneIP", "createFirewall"}
           \/ pc' = "patchSpec" /\ again'
    BY <1>2 DEF AllocateNetwork, AllocateControlPlaneIP
  <2>2. obj'.ready = obj.ready
    <3>1. \/ obj' = obj
          \/ \E n \in Networks : obj' = [obj EXCEPT !.privateNetworkID = n]
          \/ \E ip \in IPs : obj' = [obj EXCEPT !.host = ip, !.ipAllocated = TRUE]
      BY <1>2 DEF AllocateNetwork, AllocateControlPlaneIP, Refusal, Address, AddressRefused
    <3>2. QED
      BY <1>0, <3>1 DEF ClusterObject
  <2>3. Course'
    BY <2>1, <2>2 DEF Driven, Course
  <2>4. QED
    BY <2>1, <2>3, DrivenOn
<1>3. CASE CreateFirewall
  <2>1. /\ UNCHANGED <<metalCluster, cached, before, queued>>
        /\ pc = "createFirewall" /\ pc' = "patchSpec"
        /\ obj' = [obj EXCEPT !.ready = TRUE] \/ (again' /\ obj' = obj)
    BY <1>3 DEF CreateFirewall
  <2>2. Course'
    BY <1>0, <2>1 DEF Driven, Course, ClusterObject
  <2>3. QED
    BY <2>1, <2>2, DrivenOn
<1>4. CASE DeleteMachines \/ DeleteFirewall
  <2>1. /\ UNCHANGED <<metalCluster, cached, before, queued>> /\ pc \in DeletionLabels
        /\ pc' \in DeletionLabels \/ (pc' = "patchSpec" /\ again')
        /\ obj' = obj
    BY <1>4 DEF DeleteMachines, DeleteFirewall, DeleteAllOf
  <2>2. Course'
    BY <2>1 DEF Driven, Course
  <2>3. QED
    BY <2>1, <2>2, DrivenOn
<1>5. CASE NetworkFind \/ (NetworkFree /\ ~Restart)
  <2>1. /\ UNCHANGED <<metalCluster, cached, before, queued>> /\ pc \in DeletionLabels
        /\ \/ pc' = "NetworkFree"
           \/ pc' = "patchSpec" /\ (again' \/ obj' = [obj EXCEPT !.finalizer = FALSE])
        /\ obj' \in {obj, [obj EXCEPT !.finalizer = FALSE]}
    BY <1>5 DEF NetworkFind, NetworkFree, FreeRefused
  <2>2. Course'
    BY <1>0, <2>1 DEF Driven, Course, ClusterObject
  <2>3. QED
    BY <2>1, <2>2, DrivenOn
<1>6. CASE NetworkFree /\ Restart
  BY <1>6, DrivenRestart DEF NetworkFree
<1>7. CASE PatchSpec
  <2>1. UNCHANGED <<cached, before, obj, queued>> /\ pc = "patchSpec" /\ pc' = "patchStatus"
    BY <1>7 DEF PatchSpec
  <2>2. CASE metalCluster' = PatchedSpec /\ UNCHANGED again /\ metalCluster.exists
    <3>1. /\ metalCluster'.deleting = metalCluster.deleting
          /\ metalCluster'.ready = metalCluster.ready
          /\ metalCluster'.finalizer =
               Merged(metalCluster.finalizer, before.finalizer, obj.finalizer)
          /\ metalCluster'.exists <=> ~metalCluster'.deleting \/ metalCluster'.finalizer
      BY <2>2, PatchedFields, PatchedGuards DEF Driven
    <3>2. Known'
      BY <2>1, <2>2, <3>1 DEF Driven, Known, Held
    <3>3. Course'
      BY <2>1, <2>2, <3>1 DEF Merged, Driven, Known, Course
    <3>4. QED
      BY <2>1, <2>2, <3>1, <3>2, <3>3 DEF Driven, Awake
  <2>3. CASE /\ metalCluster' = metalCluster
             /\ again' \/ (UNCHANGED again /\ SpecOf(obj) = SpecOf(before))
    <3>1. Course'
      BY <2>1, <2>3 DEF SpecOf, Driven, Course
    <3>2. QED
      BY <2>1, <2>3, <3>1 DEF Driven, Known, Held, Awake
  <2>4. QED
    BY <1>7, <2>2, <2>3 DEF PatchSpec
<1>8. CASE PatchStatus
  <2>1. /\ UNCHANGED cached /\ pc = "patchStatus" /\ pc' = "idle" /\ before' = Blank
        /\ queued \/ again => queued'
    BY <1>8 DEF PatchStatus
  <2>2. /\ metalCluster'.exists = metalCluster.exists
        /\ metalCluster'.deleting = metalCluster.deleting
        /\ metalCluster'.finalizer = metalCluster.finalizer
    BY <1>0, <1>8, PatchedFields, PatchedGuards DEF PatchStatus, Driven, Merged
  <2>3. /\ metalCluster.ready => metalCluster'.ready
        /\ metalCluster.exists /\ obj.ready => metalCluster'.ready \/ queued'
    <3>1. (before.ready => obj.ready) /\ (before.ready => metalCluster.ready)
      BY DEF Driven, Known, Course
    <3>2. before.ready \in BOOLEAN /\ obj.ready \in BOOLEAN /\ metalCluster.ready \in BOOLEAN
      BY <1>0 DEF ClusterObject
    <3>3. CASE metalCluster' = metalCluster /\ StatusOf(obj) = StatusOf(before)
      BY <3>1, <3>3 DEF StatusOf
    <3>4. CASE metalCluster' = PatchedStatus
      <4>1. metalCluster'.ready = Merged(metalCluster.ready, before.ready, obj.ready)
        BY <3>4, PatchedFields DEF Driven
      <4>2. QED
        BY <3>1, <3>2, <4>1 DEF Merged
    <3>5. CASE metalCluster' = metalCluster /\ queued'
      BY <3>5
    <3>6. QED
      BY <1>8, <3>3, <3>4, <3>5 DEF PatchStatus
  <2>4. metalCluster.exists /\ ~queued' => obj.ready /\ ~before.deleting
    BY <2>1 DEF Driven, Course
  <2>5. Known'
    BY <2>1, <2>2, <2>3, BlankFields DEF Driven, Known, Held
  <2>6. Course'
    BY <2>1, BlankFields DEF Course
  <2>7. Awake'
    <3> SUFFICES ASSUME metalCluster'.exists, ~queued'
                 PROVE  metalCluster'.ready /\ (metalCluster'.deleting => ~cached'.deleting)
      BY DEF Awake
    <3>1. metalCluster.exists /\ ~queued /\ obj.ready /\ ~before.deleting
      BY <2>1, <2>2, <2>4
    <3>2. QED
      BY <2>1, <2>2, <2>3, <3>1 DEF Driven, Awake
  <2>8. QED
    BY <2>5, <2>6, <2>7 DEF Driven
<1>9. QED
  BY <1>1, <1>2, <1>3, <1>4, <1>5, <1>6, <1>7, <1>8 DEF Controller

\* The informer shows a deletion and queues the object in one step.
LEMMA DrivenEnvironment ==
  ASSUME Driven, TypeOK', Environment
  PROVE  Driven'
<1> USE DEF kube, metal, local
<1>0. metalCluster \in ClusterObject
  BY DEF Driven, TypeOK
<1>1. CASE Crash
  BY <1>1, DrivenRestart DEF Crash
<1>2. CASE Refresh
  BY <1>2 DEF Refresh, Driven, Known, Held, Course, Awake
<1>3. CASE SetOwnerRef
  <2>1. /\ metalCluster'.exists = metalCluster.exists
        /\ metalCluster'.deleting = metalCluster.deleting
        /\ metalCluster'.finalizer = metalCluster.finalizer
        /\ metalCluster'.ready = metalCluster.ready
    BY <1>0, <1>3 DEF SetOwnerRef, ClusterObject
  <2>2. QED
    BY <1>3, <2>1 DEF SetOwnerRef, Driven, Known, Held, Course, Awake
<1>4. CASE DeleteCluster
  <2>1. /\ metalCluster.exists /\ ~metalCluster.deleting
        /\ metalCluster'.ready = metalCluster.ready
        /\ metalCluster'.exists => metalCluster'.deleting /\ metalCluster'.finalizer
    BY <1>0, <1>4 DEF DeleteCluster, ClusterObject
  <2>2. UNCHANGED <<local, cached, queued>>
    BY <1>4 DEF DeleteCluster
  <2>3. ~cached.deleting /\ ~before.deleting
    BY <2>1 DEF Driven, Known
  <2>4. QED
    BY <2>1, <2>2, <2>3 DEF Driven, Known, Held, Course, Awake
<1>5. CASE TogglePause
  BY <1>5 DEF TogglePause, Driven, Known, Held, Course, Awake
<1>6. CASE UNCHANGED <<metalCluster, local, cached, queued>>
  BY <1>6 DEF Driven, Known, Held, Course, Awake
<1>7. QED
  BY <1>1, <1>2, <1>3, <1>4, <1>5, <1>6, Zenon DEF Environment, CreateMachines, Attach,
     DeleteChild, Detach, ChildGone

\* A cluster that nobody is at work on, and of which the informer has nothing to report,
\* is queued or finished, whatever failed and however often.
THEOREM NeverForgotten == Spec => []NothingForgotten
<1>1. Driven /\ [Next]_vars => Driven'
  <2> SUFFICES ASSUME Driven, [Next]_vars PROVE Driven'
    OBVIOUS
  <2>1. TypeOK'
    BY NextTyped DEF Driven
  <2>2. CASE Next
    BY <2>1, <2>2, DrivenController, DrivenEnvironment DEF Next
  <2>3. CASE UNCHANGED vars
    BY <2>1, <2>3 DEF vars, kube, metal, local, Driven, Known, Held, Course, Awake
  <2>4. QED
    BY <2>2, <2>3
<1>2. Driven => NothingForgotten
  <2> SUFFICES ASSUME Driven, metalCluster.exists, cached = metalCluster, pc = "idle", ~queued
               PROVE  metalCluster.ready /\ ~metalCluster.deleting
    BY DEF NothingForgotten
  <2>1. ~before.deleting
    BY DEF Driven, Course
  <2>2. QED
    BY <2>1 DEF Driven, Awake
<1>3. QED
  BY DrivenInit, <1>1, <1>2, PTL DEF Spec
=============================================================================
