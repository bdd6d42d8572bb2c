---------------------------- MODULE ProviderProofs ----------------------------
(***************************************************************************)
(* Theorems about the two controllers together: each works in the          *)
(* environment its own module assumes, so what is proved of each alone     *)
(* holds of both, for every set of addresses and machines and every number *)
(* of faults.                                                              *)
(***************************************************************************)
EXTENDS Provider, FiniteSetTheorems, TLAPS

\* The two modules C and F again, with the lemmas proved about them.
CP == INSTANCE MetalStackClusterProofs WITH
  Networks <- {Network}, Supplied <- {},
  cached <- clusterCache, child <- Child, attached <- Attached,
  pc <- clusterPC, before <- clusterBefore, obj <- clusterObj,
  again <- clusterAgain, queued <- clusterQueued, faults <- clusterFaults

FP == INSTANCE MetalStackFirewallProofs WITH
  Foreign <- {},
  cached <- firewallCache, metalCluster <- Seen,
  pc <- firewallPC, before <- firewallBefore, obj <- firewallObj,
  again <- firewallAgain, queued <- firewallQueued, faults <- firewallFaults

\* The constants here meet what the two modules assume of theirs.
LEMMA ClusterConstants == CP!ClusterAssumptions
<1>1. IsFiniteSet({Network})
  BY FS_Singleton
<1>2. CP!IsFiniteSet({Network})
  BY <1>1 DEF IsFiniteSet, CP!IsFiniteSet
<1>3. QED
  BY <1>2, ProviderAssumptions
  DEF CP!ClusterAssumptions, ProviderAssumptions, CP!FaultKinds, FaultKinds

LEMMA FirewallConstants == FP!FirewallAssumptions
<1>1. FP!IsFiniteSet(Machines)
  BY ProviderAssumptions DEF IsFiniteSet, FP!IsFiniteSet, ProviderAssumptions
<1>2. QED
  BY <1>1, ProviderAssumptions
  DEF FP!FirewallAssumptions, ProviderAssumptions, FP!FaultKinds, FaultKinds

-----------------------------------------------------------------------------
(* The definitions that CP and FP take from the modules of C and F are     *)
(* those of C and F; the provers do not know that before they see them.    *)

LEMMA SameClusterVars == UNCHANGED C!vars => UNCHANGED CP!vars
BY DEF C!vars, CP!vars, C!kube, CP!kube, C!metal, CP!metal, C!local, CP!local

LEMMA SameClusterInit == C!Init => CP!Init
BY DEF C!Init, CP!Init, C!NewCluster, CP!NewCluster, C!Blank, CP!Blank, C!Children,
   CP!Children, C!NoFault, CP!NoFault

LEMMA SameClusterNext == C!Next => CP!Next
<1> USE DEF C!kube, CP!kube, C!metal, CP!metal, C!local, CP!local, C!Goto, CP!Goto,
            C!Return, CP!Return, C!Fail, CP!Fail, C!Fault, CP!Fault, C!Struck, CP!Struck,
            C!Restart, CP!Restart, C!Blank, CP!Blank, C!NewCluster, CP!NewCluster,
            C!Merged, CP!Merged
<1>1. C!Reconcile => CP!Reconcile
  BY DEF C!Reconcile, CP!Reconcile, C!Started, CP!Started, C!OwnerNotFound, CP!OwnerNotFound
<1>2. C!AllocateNetwork => CP!AllocateNetwork
  BY DEF C!AllocateNetwork, CP!AllocateNetwork, C!NeedsNetwork, CP!NeedsNetwork,
         C!Refusal, CP!Refusal
<1>3. C!AllocateControlPlaneIP => CP!AllocateControlPlaneIP
  BY DEF C!AllocateControlPlaneIP, CP!AllocateControlPlaneIP, C!Address, CP!Address,
         C!AddressRefused, CP!AddressRefused
<1>4. C!CreateFirewall => CP!CreateFirewall
  BY DEF C!CreateFirewall, CP!CreateFirewall
<1>5. C!DeleteMachines => CP!DeleteMachines
  BY DEF C!DeleteMachines, CP!DeleteMachines, C!DeleteAllOf, CP!DeleteAllOf,
         C!Deleted, CP!Deleted
<1>6. C!DeleteFirewall => CP!DeleteFirewall
  BY DEF C!DeleteFirewall, CP!DeleteFirewall, C!DeleteAllOf, CP!DeleteAllOf,
         C!Deleted, CP!Deleted
<1>7. C!NetworkFind => CP!NetworkFind
  BY DEF C!NetworkFind, CP!NetworkFind, C!NetworksFound, CP!NetworksFound,
         C!Cardinality, CP!Cardinality
<1>8. C!NetworkFree => CP!NetworkFree
  BY DEF C!NetworkFree, CP!NetworkFree, C!FreeRefused, CP!FreeRefused,
         C!Children, CP!Children
<1>9. C!PatchSpec => CP!PatchSpec
  BY DEF C!PatchSpec, CP!PatchSpec, C!SpecOf, CP!SpecOf, C!PatchedSpec, CP!PatchedSpec
<1>10. C!PatchStatus => CP!PatchStatus
  BY DEF C!PatchStatus, CP!PatchStatus, C!StatusOf, CP!StatusOf, C!PatchedStatus,
         CP!PatchedStatus
<1>11. C!Environment => CP!Environment
  <2>1. C!Crash => CP!Crash
    BY DEF C!Crash, CP!Crash
  <2>2. C!Refresh => CP!Refresh
    BY DEF C!Refresh, CP!Refresh
  <2>3. C!SetOwnerRef => CP!SetOwnerRef
    BY DEF C!SetOwnerRef, CP!SetOwnerRef
  <2>4. C!TogglePause => CP!TogglePause
    BY DEF C!TogglePause, CP!TogglePause
  <2>5. C!DeleteCluster => CP!DeleteCluster
    BY DEF C!DeleteCluster, CP!DeleteCluster
  <2>6. C!CreateMachines => CP!CreateMachines
    BY DEF C!CreateMachines, CP!CreateMachines
  <2>7. ASSUME NEW c \in C!Children,
               C!Attach(c) \/ C!DeleteChild(c) \/ C!Detach(c) \/ C!ChildGone(c)
        PROVE  CP!Attach(c) \/ CP!DeleteChild(c) \/ CP!Detach(c) \/ CP!ChildGone(c)
    BY <2>7 DEF C!Attach, CP!Attach, C!DeleteChild, CP!DeleteChild, C!Detach, CP!Detach,
                C!ChildGone, CP!ChildGone, C!Deleted, CP!Deleted
  <2>8. C!Children = CP!Children
    BY DEF C!Children, CP!Children
  <2>9. QED
    BY <2>1, <2>2, <2>3, <2>4, <2>5, <2>6, <2>7, <2>8 DEF C!Environment, CP!Environment
<1>12. QED
  BY <1>1, <1>2, <1>3, <1>4, <1>5, <1>6, <1>7, <1>8, <1>9, <1>10, <1>11
  DEF C!Next, CP!Next, C!Controller, CP!Controller

LEMMA SameFirewallVars == UNCHANGED F!vars => UNCHANGED FP!vars
BY DEF F!vars, FP!vars, F!world, FP!world, F!local, FP!local

LEMMA SameFirewallInit == F!Init => FP!Init
BY DEF F!Init, FP!Init, F!NewFirewall, FP!NewFirewall, F!Blank, FP!Blank, F!ProviderIDs,
   FP!ProviderIDs, F!NoFault, FP!NoFault

LEMMA SameFirewallNext == F!Next => FP!Next
<1> USE DEF F!world, FP!world, F!local, FP!local, F!Goto, FP!Goto, F!Return, FP!Return,
            F!Fail, FP!Fail, F!Fault, FP!Fault, F!Struck, FP!Struck, F!Restart, FP!Restart,
            F!Blank, FP!Blank, F!NewFirewall, FP!NewFirewall, F!Merged, FP!Merged,
            F!Parses, FP!Parses, F!Own, FP!Own, F!LetGo, FP!LetGo
<1>1. F!Reconcile => FP!Reconcile
  BY DEF F!Reconcile, FP!Reconcile, F!Networked, FP!Networked
<1>2. F!MachineGet => FP!MachineGet
  BY DEF F!MachineGet, FP!MachineGet
<1>3. F!FirewallGet => FP!FirewallGet
  BY DEF F!FirewallGet, FP!FirewallGet
<1>4. F!CreateRawMachine => FP!CreateRawMachine
  BY DEF F!CreateRawMachine, FP!CreateRawMachine, F!Requested, FP!Requested,
         F!Created, FP!Created
<1>5. F!FirewallFind => FP!FirewallFind
  BY DEF F!FirewallFind, FP!FirewallFind, F!Found, FP!Found
<1>6. F!MachineDelete => FP!MachineDelete
  BY DEF F!MachineDelete, FP!MachineDelete, F!DeleteRefused, FP!DeleteRefused
<1>7. F!Patch => FP!Patch
  BY DEF F!Patch, FP!Patch, F!SendPatch, FP!SendPatch, F!Patched, FP!Patched
<1>8. F!Environment => FP!Environment
  BY DEF F!Environment, FP!Environment, F!Crash, FP!Crash, F!Refresh, FP!Refresh,
         F!NetworkRecorded, FP!NetworkRecorded, F!ClusterGone, FP!ClusterGone,
         F!KubeconfigWritten, FP!KubeconfigWritten, F!DeleteFirewall, FP!DeleteFirewall,
         F!Installed, FP!Installed, F!MachineMoves, FP!MachineMoves
<1>9. F!Panic => FP!Panic
  BY DEF F!Panic, FP!Panic, F!SendPatch, FP!SendPatch, F!Patched, FP!Patched
<1>10. QED
  BY <1>1, <1>2, <1>3, <1>4, <1>5, <1>6, <1>7, <1>8, <1>9
  DEF F!Next, FP!Next, F!Controller, FP!Controller

-----------------------------------------------------------------------------
(* Each controller in the environment it assumes                           *)

\* What the informer shows of the cluster is not undone, a firewall reconcile that is
\* in flight has seen the private network, and machines are in an allocated network.
Together ==
  /\ CP!Advancing
  /\ FP!Accurate
  /\ firewallPC # "idle" => clusterCache.privateNetworkID # Nil
  /\ Deployed # {} => networks[Network] = "allocated"

\* What the parts of Together say of the variables that the controllers share.
LEMMA TogetherSays ==
  ASSUME Together
  PROVE  /\ clusterCache.privateNetworkID \in {Network, Nil}
         /\ clusterObj.privateNetworkID \in {Network, Nil}
         /\ metalCluster.privateNetworkID \in {Network, Nil}
         /\ clusterPC = "NetworkFree" => clusterObj.privateNetworkID # Nil
         /\ networks \in [{Network} -> {"unused", "allocated", "freed"}]
         /\ machines \in [Machines -> {"waiting", "deployed", "free", "foreign"}]
         /\ firewallPC \in {"FirewallFind", "MachineDelete"} => firewall.deleting
<1>1. /\ clusterCache \in CP!ClusterObject
      /\ clusterObj \in CP!ClusterObject
      /\ metalCluster \in CP!ClusterObject
      /\ networks \in [{Network} -> {"unused", "allocated", "freed"}]
      /\ clusterPC = "NetworkFree" => clusterObj.privateNetworkID # Nil
  BY DEF Together, CP!Advancing, CP!TypeOK
<1>2. machines \in [Machines -> {"waiting", "deployed", "free", "foreign"}]
  BY DEF Together, FP!Accurate, FP!TypeOK, FP!Own
<1>3. firewallPC \in {"FirewallFind", "MachineDelete"} => firewall.deleting
  BY DEF Together, FP!Accurate, FP!Informed, FP!Deletes
<1>4. QED
  BY <1>1, <1>2, <1>3 DEF CP!ClusterObject

\* The cluster controller reads its own copy of the cluster, and only the informer
\* changes that copy.
LEMMA ClusterReads ==
  ASSUME Together, C!Controller
  PROVE  UNCHANGED clusterCache
<1>1. clusterPC = "NetworkFree" => clusterObj.privateNetworkID # Nil
  BY TogetherSays
<1>2. QED
  BY <1>1, Zenon
  DEF C!Controller, C!Reconcile, C!AllocateNetwork, C!AllocateControlPlaneIP, C!CreateFirewall,
      C!DeleteMachines, C!DeleteFirewall, C!NetworkFind, C!NetworkFree, C!PatchSpec,
      C!PatchStatus

\* A step that leaves the firewall and the copy of the cluster alone is none of F.
LEMMA FirewallStutters ==
  ASSUME UNCHANGED <<firewallVars, clusterCache>>
  PROVE  UNCHANGED F!vars
BY DEF firewallVars, F!vars, F!world, F!local, Seen

\* A step that leaves the cluster, the firewall object and the machines it holds alone
\* is none of C.
LEMMA ClusterStutters ==
  ASSUME UNCHANGED <<clusterVars, created>>,
         Child' = Child, Deployed' = Deployed
  PROVE  UNCHANGED C!vars
<1>1. Attached' = Attached
  BY DEF Attached
<1>2. QED
  BY <1>1 DEF clusterVars, C!vars, C!kube, C!metal, C!local

\* Each step is one of the firewall controller and its world: what happens to the
\* cluster is a network that is recorded, or a cluster that goes, or nothing to it.
LEMMA FirewallStep ==
  ASSUME Together, [Next]_vars
  PROVE  [F!Next]_(F!vars)
<1> USE DEF F!Next, F!Environment
<1>1. CASE ClusterController
  <2>1. CASE ClusterAlone
    BY <2>1, ClusterReads, FirewallStutters DEF ClusterAlone
  <2>2. CASE CreateFirewall
    BY <2>2, ClusterReads, FirewallStutters DEF CreateFirewall, C!Controller
  <2>3. CASE DeleteFirewall /\ C!DeleteFirewall
    BY <2>3 DEF DeleteFirewall
  <2>4. QED
    BY <1>1, <2>1, <2>2, <2>3 DEF ClusterController
<1>2. CASE FirewallController
  BY <1>2 DEF FirewallController
<1>3. CASE Panic \/ Crash
  BY <1>3 DEF Panic, Crash, F!Controller
<1>4. CASE ClusterInformer
  <2>1. UNCHANGED firewallVars /\ clusterCache' = metalCluster
    BY <1>4 DEF ClusterInformer, C!Refresh
  <2>2. /\ metalCluster.exists => clusterCache.exists
        /\ clusterCache.privateNetworkID # Nil => metalCluster.privateNetworkID # Nil
    BY DEF Together, CP!Advancing
  <2>3. \/ Seen' = Seen
        \/ Seen = "pending" /\ Seen' = "networked"
        \/ Seen # "gone" /\ Seen' = "gone"
    BY <2>1, <2>2 DEF Seen
  <2>4. QED
    BY <2>1, <2>3
    DEF firewallVars, F!vars, F!world, F!local, F!NetworkRecorded, F!ClusterGone
<1>5. CASE FirewallInformer
  BY <1>5 DEF FirewallInformer
<1>6. CASE User
  <2>1. CASE UNCHANGED <<created, firewallVars>> /\ (C!SetOwnerRef \/ C!DeleteCluster)
    BY <2>1, FirewallStutters DEF C!SetOwnerRef, C!DeleteCluster
  <2>2. CASE UNCHANGED clusterVars /\ DeleteFirewall
    BY <2>2 DEF DeleteFirewall
  <2>3. CASE UNCHANGED <<created, clusterVars>> /\ F!KubeconfigWritten
    BY <2>3
  <2>4. QED
    BY <1>6, <2>1, <2>2, <2>3 DEF User
<1>7. CASE Installed
  BY <1>7 DEF Installed
<1>8. CASE UNCHANGED vars
  BY <1>8, FirewallStutters DEF vars, clusterVars
<1>9. QED
  BY <1>1, <1>2, <1>3, <1>4, <1>5, <1>6, <1>7, <1>8 DEF Next

\* The firewall controller puts a machine into the network of the cluster, takes the
\* last one out, removes the object, or does nothing to the cluster.
LEMMA FirewallActs ==
  ASSUME Together, FirewallController
  PROVE  [C!Next]_(C!vars)
<1> USE DEF F!Goto, F!Return, F!Fail, F!local
<1>1. /\ UNCHANGED <<clusterVars, created>> /\ created
      /\ F!Controller /\ Accepted
  BY DEF FirewallController
<1>2. CASE F!Reconcile \/ F!MachineGet \/ F!FirewallGet \/ F!FirewallFind
  <2>1. UNCHANGED <<firewall, machines>>
    BY <1>2 DEF F!Reconcile, F!MachineGet, F!FirewallGet, F!FirewallFind
  <2>2. Child' = Child /\ Deployed' = Deployed
    BY <1>1, <2>1 DEF Child, Deployed
  <2>3. QED
    BY <1>1, <2>2, ClusterStutters
<1>3. CASE F!CreateRawMachine
  <2>1. UNCHANGED firewall /\ firewallPC # "idle"
    BY <1>3 DEF F!CreateRawMachine
  <2>2. Child' = Child
    BY <1>1, <2>1 DEF Child
  <2>3. CASE Deployed' = Deployed
    BY <1>1, <2>2, <2>3, ClusterStutters
  <2>4. CASE Deployed' # Deployed
    <3>1. PICK m \in Machines : machines[m] = "free" /\ machines' = [machines EXCEPT ![m] = "waiting"]
      <4>1. machines' # machines
        BY <2>4 DEF Deployed
      <4>2. QED
        BY <1>3, <4>1 DEF F!CreateRawMachine
    <3>2. Deployed' = Deployed \cup {m} /\ m \notin Deployed
      BY <3>1, TogetherSays DEF Deployed, F!Own
    <3>3. networks[Network] = "allocated"
      BY <1>1, <3>2 DEF Accepted
    <3>4. clusterCache.privateNetworkID = Network
      BY <2>1, TogetherSays DEF Together
    <3>5. CASE Deployed # {}
      <4>1. Attached' = Attached
        BY <3>2, <3>5 DEF Attached
      <4>2. QED
        BY <1>1, <2>2, <4>1 DEF clusterVars, C!vars, C!kube, C!metal, C!local
    <3>6. CASE Deployed = {}
      <4>1. /\ Attached["firewall"] = Nil
            /\ Attached' = [Attached EXCEPT !["firewall"] = Network]
        BY <3>2, <3>6 DEF Attached
      <4>2. C!Attach("firewall")
        BY <1>1, <2>2, <3>3, <3>4, <4>1, ProviderAssumptions
        DEF ProviderAssumptions, C!Attach, C!kube, C!local, clusterVars
      <4>3. QED
        BY <4>2 DEF C!Next, C!Environment, C!Children
    <3>7. QED
      BY <3>5, <3>6
  <2>5. QED
    BY <2>3, <2>4
<1>4. CASE F!MachineDelete
  <2>1. UNCHANGED firewall /\ firewallPC = "MachineDelete"
    BY <1>4 DEF F!MachineDelete
  <2>2. Child' = Child /\ Child["firewall"] # "live"
    BY <1>1, <2>1, TogetherSays DEF Child
  <2>3. Deployed' \subseteq Deployed
    BY <1>4, TogetherSays DEF F!MachineDelete, F!DeleteRefused, Deployed, F!Own
  <2>4. CASE Deployed' = {} /\ Deployed # {}
    <3>1. /\ Attached["firewall"] # Nil
          /\ Attached' = [Attached EXCEPT !["firewall"] = Nil]
      BY <2>4, ProviderAssumptions DEF Attached, ProviderAssumptions
    <3>2. C!Detach("firewall")
      BY <1>1, <2>2, <3>1 DEF C!Detach, C!kube, C!local, clusterVars
    <3>3. QED
      BY <3>2 DEF C!Next, C!Environment, C!Children
  <2>5. CASE Deployed' # {} \/ Deployed = {}
    <3>1. Attached' = Attached
      BY <2>3, <2>5 DEF Attached
    <3>2. QED
      BY <1>1, <2>2, <3>1 DEF clusterVars, C!vars, C!kube, C!metal, C!local
  <2>6. QED
    BY <2>4, <2>5
<1>5. CASE F!Patch
  <2>1. UNCHANGED machines
    BY <1>5 DEF F!Patch
  <2>2. Deployed' = Deployed /\ Attached' = Attached
    BY <2>1 DEF Deployed, Attached
  <2>3. CASE UNCHANGED firewall
    <3>1. Child' = Child
      BY <1>1, <2>3 DEF Child
    <3>2. QED
      BY <1>1, <2>2, <3>1, ClusterStutters
  <2>4. CASE firewall.exists /\ firewall' = F!Patched
    <3>1. /\ firewall'.deleting = firewall.deleting
          /\ ~firewall'.exists => firewall.deleting
      <4>1. F!Patched = FP!Patched
        BY DEF F!Patched, FP!Patched, F!Merged, FP!Merged
      <4>2. FP!TypeOK /\ FP!Informed /\ firewallPC = "patch"
        BY <1>5 DEF Together, FP!Accurate, F!Patch
      <4>3. QED
        BY <2>4, <4>1, <4>2, FP!PatchInforms, FirewallConstants
    <3>2. CASE firewall'.exists
      <4>1. Child' = Child
        BY <1>1, <2>4, <3>1, <3>2 DEF Child
      <4>2. QED
        BY <1>1, <2>2, <4>1, ClusterStutters
    <3>3. CASE ~firewall'.exists
      <4>1. /\ Child["firewall"] = "deleting"
            /\ Child' = [Child EXCEPT !["firewall"] = "absent"]
        BY <1>1, <2>4, <3>1, <3>3 DEF Child
      <4>2. C!ChildGone("firewall")
        BY <1>1, <2>2, <4>1 DEF C!ChildGone, C!metal, C!local, clusterVars
      <4>3. QED
        BY <4>2 DEF C!Next, C!Environment, C!Children
    <3>4. QED
      BY <3>2, <3>3
  <2>5. QED
    BY <1>5, <2>3, <2>4 DEF F!Patch, F!SendPatch
<1>6. ~F!Panic
  BY DEF FirewallController, Panics, F!Panic, F!Restart
<1>7. QED
  BY <1>1, <1>2, <1>3, <1>4, <1>5, <1>6 DEF F!Controller

\* Each step is one of the cluster controller and its world.
LEMMA ClusterStep ==
  ASSUME Together, [Next]_vars
  PROVE  [C!Next]_(C!vars)
<1> USE DEF C!Next, C!Environment
<1>1. CASE ClusterController \/ Panic \/ Crash \/ ClusterInformer
  BY <1>1 DEF ClusterController, ClusterAlone, CreateFirewall, C!Controller, Panic, Crash,
              Restart, ClusterInformer
<1>2. CASE FirewallController
  BY <1>2, FirewallActs
<1>3. CASE FirewallInformer
  <2>1. UNCHANGED <<created, clusterVars, firewall, machines>>
    BY <1>3 DEF FirewallInformer, F!Refresh
  <2>2. QED
    BY <2>1, ClusterStutters DEF Child, Deployed
<1>4. CASE User
  <2>1. CASE C!SetOwnerRef \/ C!DeleteCluster
    BY <2>1
  <2>2. CASE UNCHANGED clusterVars /\ DeleteFirewall
    <3>1. /\ created /\ UNCHANGED <<created, clusterVars, machines>>
          /\ firewall.exists /\ ~firewall.deleting
          /\ firewall' \in {[firewall EXCEPT !.deleting = TRUE], [firewall EXCEPT !.exists = FALSE]}
      BY <2>2 DEF DeleteFirewall, F!DeleteFirewall
    <3>2. firewall' \in FP!FirewallObject /\ firewall \in FP!FirewallObject
      <4>1. firewall \in FP!FirewallObject
        BY DEF Together, FP!Accurate, FP!TypeOK
      <4>2. QED
        BY <3>1, <4>1 DEF FP!FirewallObject
    <3>3. \/ firewall'.exists /\ firewall'.deleting
          \/ ~firewall'.exists
      BY <3>1, <3>2 DEF FP!FirewallObject
    <3>4. /\ Child["firewall"] = "live"
          /\ \E left \in {"deleting", "absent"} : Child' = [Child EXCEPT !["firewall"] = left]
      BY <3>1, <3>3 DEF Child
    <3>5. Attached' = Attached
      BY <3>1 DEF Attached, Deployed
    <3>6. C!DeleteChild("firewall")
      BY <3>1, <3>4, <3>5 DEF C!DeleteChild, C!Deleted, C!metal, C!local, clusterVars
    <3>7. QED
      BY <3>6 DEF C!Children
  <2>3. CASE UNCHANGED <<created, clusterVars>> /\ F!KubeconfigWritten
    <3>1. UNCHANGED <<created, clusterVars, firewall, machines>>
      BY <2>3 DEF F!KubeconfigWritten
    <3>2. QED
      BY <3>1, ClusterStutters DEF Child, Deployed
  <2>4. QED
    BY <1>4, <2>1, <2>2, <2>3 DEF User
<1>5. CASE Installed
  <2>1. UNCHANGED <<created, clusterVars, firewall>>
    BY <1>5 DEF Installed, F!Installed, F!MachineMoves
  <2>2. Deployed' = Deployed
    BY <1>5, TogetherSays DEF Installed, F!Installed, F!MachineMoves, Deployed, F!Own
  <2>3. QED
    BY <2>1, <2>2, ClusterStutters DEF Child
<1>6. CASE UNCHANGED vars
  BY <1>6, ClusterStutters DEF vars, firewallVars, Child, Deployed
<1>7. QED
  BY <1>1, <1>2, <1>3, <1>4, <1>5, <1>6 DEF Next

\* The initial states are initial for each controller.
LEMMA TogetherInit == Init => C!Init /\ F!Init /\ Together
<1> SUFFICES ASSUME Init PROVE C!Init /\ F!Init /\ Together
  OBVIOUS
<1>1. Deployed = {}
  BY DEF Init, Deployed, F!Own
<1>2. PICK host \in IPs \cup {Nil} : metalCluster = C!NewCluster(Nil, host)
  BY DEF Init
<1>3. C!Init
  <2>1. /\ Child = [c \in C!Children |-> "absent"]
        /\ Attached = [c \in C!Children |-> Nil]
    BY <1>1 DEF Init, Child, Attached, C!Children
  <2>2. networks = [n \in {Network} |-> IF n \in {} THEN "allocated" ELSE "unused"]
    BY DEF Init
  <2>3. C!NoFault = NoFault
    BY DEF C!NoFault, NoFault
  <2>4. QED
    BY <1>2, <2>1, <2>2, <2>3 DEF Init, C!Init
<1>4. F!Init
  <2>1. Seen = "pending"
    BY <1>2 DEF Init, Seen, C!NewCluster
  <2>2. F!NoFault = NoFault
    BY DEF F!NoFault, NoFault
  <2>3. QED
    BY <2>1, <2>2, ProviderAssumptions DEF Init, F!Init, F!ProviderIDs, ProviderAssumptions
<1>5. CP!Advancing
  BY <1>3, SameClusterInit, CP!AdvancingInit, ClusterConstants
<1>6. FP!Accurate
  BY <1>4, SameFirewallInit, FP!AccurateInit, FirewallConstants
<1>7. QED
  BY <1>1, <1>3, <1>4, <1>5, <1>6 DEF Init, Together

\* Each step keeps what the controllers know of each other: an informer never takes a
\* network back, and no network is freed with a machine in it.
LEMMA TogetherKept == Together /\ [Next]_vars => Together'
<1> SUFFICES ASSUME Together, [Next]_vars PROVE Together'
  OBVIOUS
<1>1. CP!Advancing'
  <2>1. [CP!Next]_(CP!vars)
    BY ClusterStep, SameClusterNext, SameClusterVars
  <2>2. QED
    BY <2>1, CP!AdvancingKept, ClusterConstants, ProviderAssumptions
    DEF Together, ProviderAssumptions
<1>2. FP!Accurate'
  <2>1. [FP!Next]_(FP!vars)
    BY FirewallStep, SameFirewallNext, SameFirewallVars
  <2>2. QED
    BY <2>1, FP!AccurateKept, FirewallConstants DEF Together
<1>3. firewallPC' # "idle" => clusterCache'.privateNetworkID # Nil
  <2>1. CASE FirewallController
    <3>1. UNCHANGED clusterCache /\ F!Controller
      BY <2>1 DEF FirewallController, clusterVars
    <3>2. CASE firewallPC # "idle"
      BY <3>1, <3>2 DEF Together
    <3>3. CASE firewallPC = "idle"
      <4>1. F!Reconcile
        BY <3>1, <3>3 DEF F!Controller, F!MachineGet, F!FirewallGet, F!CreateRawMachine,
                          F!FirewallFind, F!MachineDelete, F!Patch, F!Panic
      <4>2. firewallPC' = "idle" \/ Seen = "networked"
        BY <3>3, <4>1 DEF F!Reconcile, F!Networked, F!local
      <4>3. QED
        BY <3>1, <4>2 DEF Seen
    <3>4. QED
      BY <3>2, <3>3
  <2>2. CASE Panic \/ Crash
    BY <2>2 DEF Panic, F!Panic, Crash, F!Crash, F!Restart
  <2>3. CASE ClusterInformer
    <3>1. UNCHANGED firewallPC /\ clusterCache' = metalCluster
      BY <2>3 DEF ClusterInformer, C!Refresh, firewallVars
    <3>2. clusterCache.privateNetworkID # Nil => metalCluster.privateNetworkID # Nil
      BY DEF Together, CP!Advancing
    <3>3. QED
      BY <3>1, <3>2 DEF Together
  <2>4. CASE ClusterController
    <3>1. UNCHANGED clusterCache
      BY <2>4, ClusterReads
      DEF ClusterController, ClusterAlone, CreateFirewall, DeleteFirewall, C!Controller
    <3>2. UNCHANGED firewallPC
      BY <2>4 DEF ClusterController, ClusterAlone, CreateFirewall, DeleteFirewall,
                  F!DeleteFirewall, F!local, firewallVars
    <3>3. QED
      BY <3>1, <3>2 DEF Together
  <2>5. CASE FirewallInformer \/ User \/ Installed \/ UNCHANGED vars
    <3>1. UNCHANGED <<clusterCache, firewallPC>>
      BY <2>5 DEF FirewallInformer, F!Refresh, User, DeleteFirewall, F!DeleteFirewall,
                  F!KubeconfigWritten, C!SetOwnerRef, C!DeleteCluster, Installed,
                  F!Installed, F!MachineMoves, F!local, vars, clusterVars, firewallVars
    <3>2. QED
      BY <3>1 DEF Together
  <2>6. QED
    BY <2>1, <2>2, <2>3, <2>4, <2>5 DEF Next
<1>4. Deployed' # {} => networks'[Network] = "allocated"
  <2> SUFFICES ASSUME Deployed' # {} PROVE networks'[Network] = "allocated"
    OBVIOUS
  <2>1. CASE FirewallController
    BY <2>1 DEF FirewallController, Accepted, clusterVars, Together
  <2>2. CASE ~FirewallController
    <3>1. Deployed' = Deployed
      <4>1. CASE UNCHANGED machines
        BY <4>1 DEF Deployed
      <4>2. CASE Installed
        BY <4>2, TogetherSays DEF Installed, F!Installed, F!MachineMoves, Deployed, F!Own
      <4>3. QED
        BY <2>2, <4>1, <4>2
        DEF Next, ClusterController, ClusterAlone, CreateFirewall, DeleteFirewall,
            F!DeleteFirewall, Panic, Restart, Crash, ClusterInformer, FirewallInformer,
            F!Refresh, User, F!KubeconfigWritten, vars, firewallVars
    <3>2. networks[Network] = "allocated" /\ Attached["firewall"] = Network
      BY <3>1 DEF Together, Attached
    <3>3. CASE UNCHANGED networks
      BY <3>2, <3>3
    <3>4. CASE networks' # networks
      <4>1. C!AllocateNetwork \/ C!NetworkFree
        BY <2>2, <3>4
        DEF Next, ClusterController, ClusterAlone, CreateFirewall, C!Controller, C!Reconcile,
            C!AllocateControlPlaneIP, C!CreateFirewall, C!DeleteMachines, C!DeleteFirewall,
            C!NetworkFind, C!PatchSpec, C!PatchStatus, Panic, Restart, Crash, C!Crash,
            ClusterInformer, C!Refresh, FirewallInformer, User, C!SetOwnerRef,
            C!DeleteCluster, Installed, C!metal, vars, clusterVars
      <4>2. CASE C!AllocateNetwork
        BY <3>2, <4>2 DEF C!AllocateNetwork
      <4>3. CASE C!NetworkFree
        <5>1. clusterObj.privateNetworkID \in {Network, Nil}
          BY TogetherSays
        <5>2. QED
          BY <3>2, <3>4, <4>3, <5>1 DEF C!NetworkFree, C!Children
      <4>4. QED
        BY <4>1, <4>2, <4>3
    <3>5. QED
      BY <3>3, <3>4
  <2>3. QED
    BY <2>1, <2>2
<1>5. QED
  BY <1>1, <1>2, <1>3, <1>4 DEF Together

LEMMA TogetherHolds == Spec => []Together
BY TogetherInit, TogetherKept, PTL DEF Spec

\* The cluster controller works in the environment that its own module assumes: whatever
\* the firewall controller does with the firewall's machines and its object, and whenever
\* its panic takes the process down, is what that module lets its environment do.
THEOREM ClusterAssumed == Spec => ClusterAsAssumed
BY TogetherInit, TogetherHolds, ClusterStep, PTL DEF Spec, ClusterAsAssumed, C!Spec

\* The firewall controller works in the environment that its own module assumes: the
\* object is deleted by a user or by the cluster controller, its network is recorded once
\* and its cluster goes once, as the informer of the other controller shows them.
THEOREM FirewallAssumed == Spec => FirewallAsAssumed
BY TogetherInit, TogetherHolds, FirewallStep, PTL DEF Spec, FirewallAsAssumed, F!Spec

\* So what is proved of each module alone holds here.
LEMMA ClusterAlike == Spec => CP!Spec
<1>1. [C!Next]_(C!vars) => [CP!Next]_(CP!vars)
  BY SameClusterNext, SameClusterVars
<1>2. QED
  BY <1>1, ClusterAssumed, SameClusterInit, PTL DEF ClusterAsAssumed, C!Spec, CP!Spec

LEMMA FirewallAlike == Spec => FP!Spec
<1>1. [F!Next]_(F!vars) => [FP!Next]_(FP!vars)
  BY SameFirewallNext, SameFirewallVars
<1>2. QED
  BY <1>1, FirewallAssumed, SameFirewallInit, PTL DEF FirewallAsAssumed, F!Spec, FP!Spec

\* A removed cluster leaves no raw machine of a firewall behind: its network has been
\* freed, as the cluster controller proves alone, and metal-API frees none with a machine.
THEOREM RemovalFrees == Spec => []RemovalLeavesNoMachine
<1>1. CP!Spec => []CP!RemovalLeavesNothing
  BY CP!RemovalLeaves, ClusterConstants
<1>2. Together /\ CP!RemovalLeavesNothing => RemovalLeavesNoMachine
  BY TogetherSays DEF Together, CP!RemovalLeavesNothing, RemovalLeavesNoMachine, C!Fresh, CP!Fresh
<1>3. QED
  BY <1>1, <1>2, ClusterAlike, TogetherHolds, PTL

\* The two controllers implement Lifecycle when they run in one process: the network of
\* the cluster and the machine of its firewall, once on record, are never replaced, are
\* given back under deletion only, and are free before their object goes.
THEOREM LifecyclesTogether == Spec => CP!KeepsNetwork /\ FP!KeepsMachine
<1>1. CP!Spec => CP!KeepsNetwork
  BY CP!Implements, ClusterConstants
<1>2. FP!Spec => FP!KeepsMachine
  BY FP!Implements, FirewallConstants
<1>3. QED
  BY <1>1, <1>2, ClusterAlike, FirewallAlike

\* Neither controller forgets its object when they run together and die of each other's
\* panics: an object that is not queued, in the worker's hands or ahead of the informer is
\* finished.
THEOREM BothDriven == Spec => []CP!NothingForgotten /\ []FP!NothingForgotten
<1>1. CP!Spec => []CP!NothingForgotten
  BY CP!NeverForgotten, ClusterConstants
<1>2. FP!Spec => []FP!NothingForgotten
  BY FP!NeverForgotten, FirewallConstants
<1>3. QED
  BY <1>1, <1>2, ClusterAlike, FirewallAlike

\* The machines of the firewall that no object leads to cost a fault each, or the removal
\* of an object without a finalizer, even if the process dies of the firewall controller's
\* own panics, which cost none.
THEOREM LeaksTogether == Spec => []F!LeakBound
<1>1. FP!Spec => []FP!LeakBound
  BY FP!LeakBounded, FirewallConstants
<1>2. FP!LeakBound => F!LeakBound
  BY DEF FP!LeakBound, F!LeakBound, FP!Orphans, F!Orphans, FP!Own, F!Own, FP!Recorded,
         F!Recorded, FP!InFlight, F!InFlight, FP!Cardinality, F!Cardinality
<1>3. QED
  BY <1>1, <1>2, FirewallAlike, PTL
===============================================================================
