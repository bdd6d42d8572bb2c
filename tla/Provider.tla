------------------------------- MODULE Provider -------------------------------
(***************************************************************************)
(* The manager process (main.go) with the cluster controller and the       *)
(* firewall controller at work on one cluster and its firewall.  Each is   *)
(* the module of its own; here they meet, where those modules left the     *)
(* other one to their environment:                                         *)
(*                                                                         *)
(*   - the cluster controller creates and deletes the firewall object;     *)
(*   - the firewall controller reads the cluster, and its network, from    *)
(*     the informer cache of the cluster controller;                       *)
(*   - the firewall's raw machine sits in the cluster's network, which     *)
(*     metal-API frees when it is empty only;                              *)
(*   - they are one process: when one panics, both start again.            *)
(*                                                                         *)
(* Bounds: one private network, no Machine objects, nobody pauses the      *)
(* cluster, the firewall object is created once, no other project holds a  *)
(* machine, and a search for networks without an ID never finds exactly    *)
(* one.  A panic of the firewall controller counts as a fault of the       *)
(* cluster controller, which bounds their number.                          *)
(***************************************************************************)
EXTENDS PatchHelper, FiniteSets

CONSTANTS
  Network,   \* the private network the cluster can get
  IPs,       \* addresses of the public network
  Others,    \* how many further networks the project has
  Machines,  \* raw machines
  Presets,   \* the provider IDs a user may give to the firewall
  Nil,       \* an unset pointer or an empty string
  Malformed, \* a provider ID that does not parse
  Faults,    \* the kinds of faults that may strike
  MaxFaults  \* how many of them may strike

ASSUME ProviderAssumptions ==
  /\ Network # Nil /\ Nil \notin IPs
  /\ IsFiniteSet(Machines)
  /\ Presets \subseteq Machines \cup {Nil, Malformed}
  /\ Nil \notin Machines /\ Malformed \notin Machines /\ Nil # Malformed
  /\ Others \in Nat /\ Others > 1
  /\ Faults \subseteq FaultKinds
  /\ MaxFaults \in Nat

VARIABLES
  metalCluster, clusterCache, paused, networks, ips,
  clusterPC, clusterBefore, clusterObj, clusterAgain, clusterQueued, clusterFaults,
  created,  \* the firewall object has been created
  firewall, firewallCache, machines, kubeconfig,
  firewallPC, firewallBefore, firewallObj, firewallAgain, firewallQueued, firewallFaults

clusterVars ==
  <<metalCluster, clusterCache, paused, networks, ips, clusterPC, clusterBefore,
    clusterObj, clusterAgain, clusterQueued, clusterFaults>>
firewallVars ==
  <<firewall, firewallCache, machines, kubeconfig, firewallPC, firewallBefore,
    firewallObj, firewallAgain, firewallQueued, firewallFaults>>
vars == <<clusterVars, created, firewallVars>>

\* What the firewall controller sees of the cluster.  Mutant: the object is all it
\* looks for, a private network it takes for granted.
SeenUnchecked == IF clusterCache.exists THEN "networked" ELSE "gone"
Seen ==
  IF ~clusterCache.exists THEN "gone"
  ELSE IF clusterCache.privateNetworkID = Nil THEN "pending" ELSE "networked"

F == INSTANCE MetalStackFirewall WITH
  Foreign <- {},
  cached <- firewallCache, metalCluster <- Seen,
  pc <- firewallPC, before <- firewallBefore, obj <- firewallObj,
  again <- firewallAgain, queued <- firewallQueued, faults <- firewallFaults

\* What the cluster controller sees of the firewall, and metal-API of the network.
Deployed == {m \in Machines : machines[m] \in F!Own}

Child ==
  [c \in {"firewall", "machines"} |->
     IF c = "machines" \/ ~created \/ ~firewall.exists THEN "absent"
     ELSE IF firewall.deleting THEN "deleting" ELSE "live"]

Attached ==
  [c \in {"firewall", "machines"} |->
     IF c = "machines" \/ Deployed = {} THEN Nil ELSE Network]

C == INSTANCE MetalStackCluster WITH
  Networks <- {Network}, Supplied <- {},
  cached <- clusterCache, child <- Child, attached <- Attached,
  pc <- clusterPC, before <- clusterBefore, obj <- clusterObj,
  again <- clusterAgain, queued <- clusterQueued, faults <- clusterFaults

\* The manager starts both controllers on an empty cache.  The firewall will get the
\* provider ID of the firewallSpec, which a user may have set.
Init ==
  /\ created = FALSE
  /\ \E id \in Presets : firewall = F!NewFirewall(id)
  /\ firewallCache = firewall
  /\ machines = [m \in Machines |-> "free"]
  /\ kubeconfig = FALSE
  /\ firewallPC = "idle" /\ firewallBefore = F!Blank /\ firewallObj = F!Blank
  /\ firewallAgain = FALSE /\ firewallQueued = TRUE /\ firewallFaults = NoFault
  /\ \E host \in IPs \cup {Nil} : metalCluster = C!NewCluster(Nil, host)
  /\ clusterCache = metalCluster
  /\ paused = FALSE
  /\ networks = [n \in {Network} |-> "unused"]
  /\ ips = {}
  /\ clusterPC = "idle" /\ clusterBefore = C!Blank /\ clusterObj = C!Blank
  /\ clusterAgain = FALSE /\ clusterQueued = TRUE /\ clusterFaults = NoFault

-----------------------------------------------------------------------------
(* The cluster controller                                                  *)

\* A step that leaves the firewall object alone.
ClusterAlone == UNCHANGED <<created, firewallVars>> /\ C!Controller

\* Mutant: an object that exists already is updated, with the spec of a new one.
CreateOrUpdateFirewall ==
  /\ created' = TRUE
  /\ firewall' = [firewall EXCEPT !.providerID = Nil]
  /\ UNCHANGED <<firewallCache, machines, kubeconfig, firewallPC, firewallBefore,
                 firewallObj, firewallAgain, firewallQueued, firewallFaults>>
  /\ C!CreateFirewall
CreateFirewall ==
  /\ ~created
  /\ created' = TRUE
  /\ UNCHANGED firewallVars
  /\ C!CreateFirewall

\* The request deletes the firewall object; it goes when its finalizer goes.
DeleteFirewall == created /\ UNCHANGED <<created, clusterCache>> /\ F!DeleteFirewall

ClusterController ==
  \/ ClusterAlone
  \/ CreateFirewall
  \/ DeleteFirewall /\ C!DeleteFirewall

-----------------------------------------------------------------------------
(* The firewall controller                                                 *)

Panics == firewallPC = "MachineGet" /\ firewallPC' = "idle"

\* metal-API creates no firewall in a network that is not there.
Accepted == Deployed' \subseteq Deployed \/ networks[Network] = "allocated"

FirewallController ==
  /\ created
  /\ UNCHANGED <<clusterVars, created>>
  /\ F!Controller
  /\ ~Panics
  /\ Accepted

-----------------------------------------------------------------------------
(* The process, and the world around it                                    *)

\* The process starts again, and with it both controllers.  The cache of the clusters
\* may as well have caught up just before.
Restart ==
  /\ clusterCache = metalCluster
  /\ UNCHANGED <<created, clusterCache, machines, kubeconfig>>

Crash == Restart /\ F!Crash /\ C!Crash

\* The firewall controller panics: what it knows is patched, then both start again.
Panic == created /\ Restart /\ F!Panic /\ C!Crash

ClusterInformer == UNCHANGED <<created, firewallVars>> /\ C!Refresh
FirewallInformer == created /\ UNCHANGED <<created, clusterVars>> /\ F!Refresh

User ==
  \/ UNCHANGED <<created, firewallVars>> /\ (C!SetOwnerRef \/ C!DeleteCluster)
  \/ UNCHANGED clusterVars /\ DeleteFirewall
  \/ UNCHANGED <<created, clusterVars>> /\ F!KubeconfigWritten

Installed == \E m \in Machines : UNCHANGED <<created, clusterVars>> /\ F!Installed(m)

Next ==
  \/ ClusterController
  \/ FirewallController
  \/ Panic
  \/ Crash
  \/ ClusterInformer
  \/ FirewallInformer
  \/ User
  \/ Installed

Spec == Init /\ [][Next]_vars

\* Both controllers and the informers keep going, and a call of a deletion that is
\* made again and again succeeds some day.
Fairness ==
  /\ WF_vars(ClusterController)
  /\ WF_vars(FirewallController)
  /\ WF_vars(ClusterInformer)
  /\ WF_vars(FirewallInformer)
  /\ \A call \in {"deleteMachines", "deleteFirewall", "NetworkFind", "NetworkFree"} :
       SF_vars(ClusterController /\ clusterPC = call /\ ~clusterAgain')
  /\ \A call \in {"FirewallFind", "MachineDelete"} :
       SF_vars(FirewallController /\ firewallPC = call /\ ~firewallAgain')

FairSpec == Spec /\ Fairness

-----------------------------------------------------------------------------
(* Properties                                                              *)

\* Each controller works in the environment its own module assumes: what the
\* other one does is what that module lets its environment do.
ClusterAsAssumed == C!Spec
FirewallAsAssumed == F!Spec

\* A cluster that went through reconcileDelete leaves no raw machine of a firewall
\* behind, not even one that no object leads to, if its controller has always seen
\* the object as it was.
RemovalLeavesNoMachine ==
  (C!Fresh /\ ~metalCluster.exists /\ metalCluster.deleting /\ metalCluster.privateNetworkID # Nil)
    => Deployed = {}

\* A cluster that is deleted when its firewall's machine is on record and held, and
\* the firewall object by its finalizer, goes, and the firewall object with it: neither
\* of them waits for the other for ever, unless the manager dies, or an answer to the
\* firewall controller is lost.
TeardownCompletes ==
  []("crash" \notin clusterFaults.kinds /\ firewallFaults.count = 0) =>
    ((/\ metalCluster.deleting /\ created
      /\ F!Parses(firewall.providerID) /\ F!Found(firewall.providerID)
      /\ firewall.finalizer \/ firewall.deleting)
       ~> (~metalCluster.exists /\ ~firewall.exists))
=============================================================================
