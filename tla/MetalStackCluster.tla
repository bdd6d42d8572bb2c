-------------------------- MODULE MetalStackCluster --------------------------
(***************************************************************************)
(* The MetalStackCluster controller                                        *)
(* (controllers/metalstackcluster_controller.go) with the parts of the     *)
(* world it acts on: its object on the Kubernetes API server, the informer *)
(* cache it reads, the networks and addresses of metal-API, and the        *)
(* firewall and the machines that live in the cluster's private network.   *)
(*                                                                         *)
(* A reconcile is a sequence of steps, one per remote call, because the    *)
(* user, the other controllers and the informer move between two calls and *)
(* the manager may die there.  The controller has a single worker, so at   *)
(* most one reconcile is in flight; pc names the call it is about to make. *)
(***************************************************************************)
EXTENDS PatchHelper, FiniteSets

CONSTANTS
  Networks,   \* IDs of private networks
  Supplied,   \* the networks a user allocated and may name in the spec
  Others,     \* how many further networks the project has
  IPs,        \* addresses of the public network
  Nil,        \* an unset pointer or an empty string
  Faults,     \* the kinds of faults that may strike
  MaxFaults   \* how many of them may strike

ASSUME ClusterAssumptions ==
  /\ IsFiniteSet(Networks)
  /\ Supplied \subseteq Networks
  /\ Nil \notin Networks \cup IPs
  /\ Others \in Nat
  /\ Faults \subseteq FaultKinds
  /\ MaxFaults \in Nat

VARIABLES
  metalCluster,  \* the MetalStackCluster object on the API server
  cached,        \* the informer's copy of it
  paused,        \* the owner Cluster, or the object, is paused
  child,         \* state of the firewall object and of the Machine objects
  attached,      \* the network the raw machines of a child sit in
  networks,      \* state of every network at metal-API
  ips,           \* the addresses allocated at metal-API
  pc,            \* the next call of the reconcile in flight
  before,        \* the object as the patch helper remembers it
  obj,           \* the object as the reconcile has changed it
  again,         \* the reconcile asks to be run again
  queued,        \* the work queue holds a request
  faults         \* the faults that have struck

kube  == <<metalCluster, child>>
metal == <<networks, ips, attached>>
local == <<pc, before, obj, again>>
vars  == <<kube, metal, local, cached, paused, queued, faults>>

Children == {"firewall", "machines"}

ClusterObject ==
  [exists: BOOLEAN, ownerRef: BOOLEAN, deleting: BOOLEAN, finalizer: BOOLEAN,
   privateNetworkID: Networks \cup {Nil}, host: IPs \cup {Nil},
   ready: BOOLEAN, ipAllocated: BOOLEAN, failure: BOOLEAN]

\* A freshly applied object; a user may name a network and a control plane host.
NewCluster(network, host) ==
  [exists |-> TRUE, ownerRef |-> FALSE, deleting |-> FALSE, finalizer |-> FALSE,
   privateNetworkID |-> network, host |-> host,
   ready |-> FALSE, ipAllocated |-> FALSE, failure |-> FALSE]

Blank == [NewCluster(Nil, Nil) EXCEPT !.exists = FALSE]

Labels == {"idle", "allocateNetwork", "allocateControlPlaneIP", "createFirewall",
           "deleteMachines", "deleteFirewall", "NetworkFind", "NetworkFree",
           "patchSpec", "patchStatus"}

TypeOK ==
  /\ metalCluster \in ClusterObject
  /\ cached \in ClusterObject
  /\ paused \in BOOLEAN
  /\ child \in [Children -> {"absent", "live", "deleting"}]
  /\ attached \in [Children -> Networks \cup {Nil}]
  /\ networks \in [Networks -> {"unused", "allocated", "freed"}]
  /\ ips \in SUBSET IPs
  /\ pc \in Labels
  /\ before \in ClusterObject
  /\ obj \in ClusterObject
  /\ again \in BOOLEAN
  /\ queued \in BOOLEAN
  /\ faults \in FaultLog(MaxFaults)

Init ==
  /\ \E network \in Supplied \cup {Nil}, host \in IPs \cup {Nil} :
       metalCluster = NewCluster(network, host)
  /\ cached = metalCluster
  /\ paused = FALSE
  /\ child = [c \in Children |-> "absent"]
  /\ attached = [c \in Children |-> Nil]
  /\ networks = [n \in Networks |-> IF n \in Supplied THEN "allocated" ELSE "unused"]
  /\ ips = {}
  /\ pc = "idle" /\ before = Blank /\ obj = Blank /\ again = FALSE
  /\ queued = TRUE
  /\ faults = NoFault

-----------------------------------------------------------------------------
(* Control flow of a reconcile                                             *)

Goto(label) == pc' = label /\ UNCHANGED again

\* Return from Reconcile: the deferred function patches the object first.
Return(requeue) == pc' = "patchSpec" /\ again' = requeue

\* An error of a remote call that changed nothing: run again.  The mutant
\* forgets to ask for it.
FailForgotten == Return(FALSE)
Fail == Return(TRUE)

Fault(kind) ==
  /\ kind \in Faults
  /\ faults.count < MaxFaults
  /\ faults' = Struck(faults, kind)

\* The manager died and a new one started: the informer lists afresh and
\* delivers an event for every object; what the reconcile held is lost.
Restart ==
  /\ pc' = "idle" /\ before' = Blank /\ obj' = Blank /\ again' = FALSE
  /\ cached' = metalCluster
  /\ queued' = TRUE

Started == IF cached = metalCluster THEN UNCHANGED faults ELSE Fault("stale")

\* The owner is not found; from an old copy this counts as the one fault.
OwnerNotFound ==
  /\ "lookup" \in Faults
  /\ Fault(IF cached = metalCluster THEN "lookup" ELSE "stale")

\* Reconcile up to the first remote call: the object and its owner come from
\* the informer cache.
Reconcile ==
  /\ pc = "idle" /\ queued
  /\ queued' = FALSE
  /\ UNCHANGED <<kube, metal, cached, paused>>
  /\ \/ /\ ~cached.exists
        /\ Started
        /\ UNCHANGED local
     \/ /\ cached.exists /\ cached.ownerRef
        /\ OwnerNotFound
        /\ before' = cached
        /\ obj' = [cached EXCEPT !.failure = TRUE]
        /\ Return(TRUE)
     \/ /\ cached.exists /\ (~cached.ownerRef \/ paused)
        /\ Started
        /\ before' = cached
        /\ obj' = cached
        /\ Return(TRUE)
     \/ /\ cached.exists /\ cached.ownerRef /\ ~paused /\ cached.deleting
        /\ Started
        /\ before' = cached
        /\ obj' = cached
        /\ Goto("deleteMachines")
     \/ /\ cached.exists /\ cached.ownerRef /\ ~paused /\ ~cached.deleting
        /\ Started
        /\ before' = cached
        /\ obj' = [cached EXCEPT !.finalizer = TRUE]
        /\ Goto("allocateNetwork")

-----------------------------------------------------------------------------
(* reconcile: allocate the network, the address, the firewall object       *)

\* Mutant: the network counts as allocated only when the cluster is ready.
NeedsNetworkUntilReady == ~obj.ready
NeedsNetwork == obj.privateNetworkID = Nil

\* Mutant: the ID is taken from the response before the error is looked at.
RefusalRecorded == \E n \in Networks : obj' = [obj EXCEPT !.privateNetworkID = n]
Refusal == UNCHANGED obj

AllocateNetwork ==
  /\ pc = "allocateNetwork"
  /\ UNCHANGED <<kube, ips, attached, before, cached, paused, queued>>
  /\ \/ /\ ~NeedsNetwork
        /\ Goto("allocateControlPlaneIP")
        /\ UNCHANGED <<networks, obj, faults>>
     \/ /\ NeedsNetwork
        /\ \E n \in Networks :
             /\ networks[n] = "unused"
             /\ networks' = [networks EXCEPT ![n] = "allocated"]
             /\ \/ /\ obj' = [obj EXCEPT !.privateNetworkID = n]
                   /\ Goto("allocateControlPlaneIP")
                   /\ UNCHANGED faults
                \/ /\ Fault("reply")
                   /\ Return(TRUE)
                   /\ UNCHANGED obj
     \/ /\ NeedsNetwork
        /\ Fail
        /\ Refusal
        /\ UNCHANGED <<networks, faults>>

\* Mutants: the address lands in the network's field; the cluster is reported
\* ready although the address was refused.
AddressMisplaced(ip) == obj' = [obj EXCEPT !.privateNetworkID = ip, !.ipAllocated = TRUE]
Address(ip) == obj' = [obj EXCEPT !.host = ip, !.ipAllocated = TRUE]

AddressRefusedButReady == obj' = [obj EXCEPT !.ready = TRUE]
AddressRefused == UNCHANGED obj

\* metal-API refuses an address that is already allocated.
AllocateControlPlaneIP ==
  /\ pc = "allocateControlPlaneIP"
  /\ UNCHANGED <<kube, networks, attached, before, cached, paused, queued>>
  /\ \/ /\ obj.ipAllocated
        /\ Goto("createFirewall")
        /\ UNCHANGED <<ips, obj, faults>>
     \/ /\ ~obj.ipAllocated
        /\ \E ip \in IPs \ ips :
             /\ obj.host \in {Nil, ip}
             /\ ips' = ips \cup {ip}
             /\ \/ /\ Address(ip)
                   /\ Goto("createFirewall")
                   /\ UNCHANGED faults
                \/ /\ Fault("reply")
                   /\ Return(TRUE)
                   /\ UNCHANGED obj
     \/ /\ ~obj.ipAllocated
        /\ Fail
        /\ AddressRefused
        /\ UNCHANGED <<ips, faults>>

\* The firewall object is created when the informer shows none, although one of the name
\* that it still shows may be gone; Create of one that exists fails.
CreateFirewall ==
  /\ pc = "createFirewall"
  /\ UNCHANGED <<metalCluster, metal, before, cached, paused, queued>>
  /\ \/ /\ IF child["firewall"] = "absent" THEN Fault("stale") ELSE UNCHANGED faults
        /\ obj' = [obj EXCEPT !.ready = TRUE]
        /\ Return(FALSE)
        /\ UNCHANGED child
     \/ /\ child["firewall"] = "absent"
        /\ child' = [child EXCEPT !["firewall"] = "live"]
        /\ obj' = [obj EXCEPT !.ready = TRUE]
        /\ Return(FALSE)
        /\ UNCHANGED faults
     \/ /\ Fail
        /\ UNCHANGED <<child, obj, faults>>

-----------------------------------------------------------------------------
(* reconcileDelete: delete the children, free the network, let go          *)

\* An object that is deleted waits for its finalizers, or is gone at once.
Deleted(c) ==
  IF child[c] = "live"
  THEN \E left \in {"deleting", "absent"} : child' = [child EXCEPT ![c] = left]
  ELSE UNCHANGED child

DeleteAllOf(c, next) == Deleted(c) /\ Goto(next)

DeleteMachines ==
  /\ pc = "deleteMachines"
  /\ UNCHANGED <<metalCluster, metal, before, obj, cached, paused, queued>>
  /\ \/ /\ child["machines"] # "absent"
        /\ DeleteAllOf("machines", "deleteFirewall")
        /\ UNCHANGED faults
     \/ /\ IF child["machines"] = "absent" THEN UNCHANGED faults ELSE Fault("stale")
        /\ Goto("deleteFirewall")
        /\ UNCHANGED child
     \/ /\ Fail
        /\ UNCHANGED <<child, faults>>

DeleteFirewall ==
  /\ pc = "deleteFirewall"
  /\ UNCHANGED <<metalCluster, metal, before, obj, cached, paused, queued, faults>>
  /\ \/ DeleteAllOf("firewall", "NetworkFind")
     \/ Fail /\ UNCHANGED child

\* How many networks metal-API finds for an ID and the project; a nil ID does
\* not restrict the search.
NetworksFound(id) ==
  IF id = Nil
  THEN Others + Cardinality({n \in Networks : networks[n] = "allocated"})
  ELSE IF networks[id] = "allocated" THEN 1 ELSE 0

NetworkFind ==
  /\ pc = "NetworkFind"
  /\ UNCHANGED <<kube, metal, before, cached, paused, queued, faults>>
  /\ \/ /\ NetworksFound(obj.privateNetworkID) = 1
        /\ Goto("NetworkFree")
        /\ UNCHANGED obj
     \/ /\ NetworksFound(obj.privateNetworkID) # 1
        /\ obj' = [obj EXCEPT !.finalizer = FALSE]
        /\ Return(FALSE)
     \/ /\ Fail
        /\ UNCHANGED obj

\* Mutant: an error of NetworkFree does not keep the finalizer in place.
FreeRefusedLetGo == obj' = [obj EXCEPT !.finalizer = FALSE] /\ Return(FALSE)
FreeRefused == UNCHANGED obj /\ Fail

\* metal-API refuses to free a network with machines in it.  The ID is
\* dereferenced unchecked: a nil one panics and takes the manager down.
NetworkFree ==
  /\ pc = "NetworkFree"
  /\ UNCHANGED <<kube, ips, attached, paused>>
  /\ \/ /\ obj.privateNetworkID = Nil
        /\ Restart
        /\ UNCHANGED <<networks, faults>>
     \/ /\ obj.privateNetworkID # Nil
        /\ \A c \in Children : attached[c] # obj.privateNetworkID
        /\ networks' = [networks EXCEPT ![obj.privateNetworkID] = "freed"]
        /\ UNCHANGED <<before, cached, queued>>
        /\ \/ /\ obj' = [obj EXCEPT !.finalizer = FALSE]
              /\ Return(FALSE)
              /\ UNCHANGED faults
           \/ /\ Fault("reply")
              /\ Return(TRUE)
              /\ UNCHANGED obj
     \/ /\ obj.privateNetworkID # Nil
        /\ FreeRefused
        /\ UNCHANGED <<networks, before, cached, queued, faults>>

-----------------------------------------------------------------------------
(* The deferred patch                                                      *)

SpecOf(o) == <<o.finalizer, o.privateNetworkID, o.host>>
StatusOf(o) == <<o.ready, o.ipAllocated, o.failure>>

PatchedSpec ==
  LET o == [metalCluster EXCEPT
              !.finalizer = Merged(@, before.finalizer, obj.finalizer),
              !.privateNetworkID = Merged(@, before.privateNetworkID, obj.privateNetworkID),
              !.host = Merged(@, before.host, obj.host)]
  IN  [o EXCEPT !.exists = ~o.deleting \/ o.finalizer]

PatchedStatus ==
  [metalCluster EXCEPT
     !.ready = Merged(@, before.ready, obj.ready),
     !.ipAllocated = Merged(@, before.ipAllocated, obj.ipAllocated),
     !.failure = Merged(@, before.failure, obj.failure)]

PatchSpec ==
  /\ pc = "patchSpec"
  /\ pc' = "patchStatus"
  /\ UNCHANGED <<child, metal, before, obj, cached, paused, queued>>
  /\ \/ /\ SpecOf(obj) = SpecOf(before)
        /\ UNCHANGED <<metalCluster, again, faults>>
     \/ /\ SpecOf(obj) # SpecOf(before)
        /\ metalCluster.exists
        /\ metalCluster' = PatchedSpec
        /\ UNCHANGED <<again, faults>>
     \/ /\ SpecOf(obj) # SpecOf(before)
        /\ IF metalCluster.exists THEN Fault("patch") ELSE UNCHANGED faults
        /\ again' = TRUE
        /\ UNCHANGED metalCluster

PatchStatus ==
  /\ pc = "patchStatus"
  /\ pc' = "idle" /\ before' = Blank /\ obj' = Blank /\ again' = FALSE
  /\ UNCHANGED <<child, metal, cached, paused>>
  /\ \/ /\ StatusOf(obj) = StatusOf(before)
        /\ queued' = (queued \/ again)
        /\ UNCHANGED <<metalCluster, faults>>
     \/ /\ StatusOf(obj) # StatusOf(before)
        /\ metalCluster.exists
        /\ metalCluster' = PatchedStatus
        /\ queued' = (queued \/ again)
        /\ UNCHANGED faults
     \/ /\ StatusOf(obj) # StatusOf(before)
        /\ IF metalCluster.exists THEN Fault("patch") ELSE UNCHANGED faults
        /\ queued' = TRUE
        /\ UNCHANGED metalCluster

Controller ==
  \/ Reconcile
  \/ AllocateNetwork
  \/ AllocateControlPlaneIP
  \/ CreateFirewall
  \/ DeleteMachines
  \/ DeleteFirewall
  \/ NetworkFind
  \/ NetworkFree
  \/ PatchSpec
  \/ PatchStatus

-----------------------------------------------------------------------------
(* The manager, the informer, the user and the other controllers           *)

\* The process dies, on its own or by a panic in another controller.
Crash ==
  /\ Fault("crash")
  /\ Restart
  /\ UNCHANGED <<kube, metal, paused>>

\* The informer catches up and enqueues the object.
Refresh ==
  /\ cached # metalCluster
  /\ cached' = metalCluster
  /\ queued' = TRUE
  /\ UNCHANGED <<kube, metal, local, paused, faults>>

\* The Cluster controller of Cluster API adopts the object.
SetOwnerRef ==
  /\ metalCluster.exists /\ ~metalCluster.ownerRef
  /\ metalCluster' = [metalCluster EXCEPT !.ownerRef = TRUE]
  /\ UNCHANGED <<child, metal, local, cached, paused, queued, faults>>

\* A user pauses or resumes the Cluster; its watch enqueues the object.
TogglePause ==
  /\ paused' = ~paused
  /\ queued' = TRUE
  /\ UNCHANGED <<kube, metal, local, cached, faults>>

\* A user, or Cluster API, deletes the object; without a finalizer it is gone
\* at once.
DeleteCluster ==
  /\ metalCluster.exists /\ ~metalCluster.deleting
  /\ metalCluster' = IF metalCluster.finalizer
                     THEN [metalCluster EXCEPT !.deleting = TRUE]
                     ELSE [metalCluster EXCEPT !.exists = FALSE]
  /\ UNCHANGED <<child, metal, local, cached, paused, queued, faults>>

CreateMachines ==
  /\ metalCluster.exists /\ ~metalCluster.deleting
  /\ child["machines"] = "absent"
  /\ child' = [child EXCEPT !["machines"] = "live"]
  /\ UNCHANGED <<metalCluster, metal, local, cached, paused, queued, faults>>

\* The controller of a child puts a raw machine into the cluster's network, which
\* it learns from the same informer cache.  A reconcile of it that is in flight
\* does so although the child has been removed meanwhile.
Attach(c) ==
  /\ attached[c] = Nil
  /\ cached.privateNetworkID # Nil
  /\ networks[cached.privateNetworkID] = "allocated"
  /\ attached' = [attached EXCEPT ![c] = cached.privateNetworkID]
  /\ UNCHANGED <<kube, networks, ips, local, cached, paused, queued, faults>>

DeleteChild(c) ==
  /\ child[c] = "live"
  /\ Deleted(c)
  /\ UNCHANGED <<metalCluster, metal, local, cached, paused, queued, faults>>

\* The controller of a child gives its raw machines back, and lets go of it.  A
\* reconcile that works from an old copy may find one when the child is removed.
Detach(c) ==
  /\ child[c] # "live" /\ attached[c] # Nil
  /\ attached' = [attached EXCEPT ![c] = Nil]
  /\ UNCHANGED <<kube, networks, ips, local, cached, paused, queued, faults>>

ChildGone(c) ==
  /\ child[c] = "deleting"
  /\ child' = [child EXCEPT ![c] = "absent"]
  /\ UNCHANGED <<metalCluster, metal, local, cached, paused, queued, faults>>

Environment ==
  \/ Crash
  \/ Refresh
  \/ SetOwnerRef
  \/ TogglePause
  \/ DeleteCluster
  \/ CreateMachines
  \/ \E c \in Children : Attach(c) \/ DeleteChild(c) \/ Detach(c) \/ ChildGone(c)

Next == Controller \/ Environment

Spec == Init /\ [][Next]_vars

\* The manager, the informer and Cluster API keep running, and a call that is
\* made again and again succeeds some day.
Fairness ==
  /\ WF_vars(Controller)
  /\ WF_vars(Refresh)
  /\ WF_vars(SetOwnerRef)
  /\ \A c \in Children : /\ WF_vars(child[c] = "deleting" /\ Detach(c))
                         /\ WF_vars(ChildGone(c))
  /\ SF_vars(AllocateNetwork /\ ~again')
  /\ SF_vars(AllocateControlPlaneIP /\ ~again')
  /\ SF_vars(CreateFirewall /\ ~again')
  /\ SF_vars(DeleteMachines /\ ~again')
  /\ SF_vars(DeleteFirewall /\ ~again')
  /\ SF_vars(NetworkFind /\ ~again')
  /\ SF_vars(NetworkFree /\ ~again')

FairSpec == Spec /\ Fairness

-----------------------------------------------------------------------------
(* Properties                                                              *)

\* The object was removed while it carried no finalizer: the controller had no
\* part in it.
RemovedUnguarded == ~metalCluster.exists /\ ~metalCluster.deleting

Recorded(n) == metalCluster.exists /\ metalCluster.privateNetworkID = n

InFlight(n) ==
  /\ pc \in {"allocateControlPlaneIP", "createFirewall", "patchSpec"}
  /\ obj.privateNetworkID = n

\* Networks the controller allocated and nobody will ever free.
Orphans == {n \in Networks \ Supplied :
              networks[n] = "allocated" /\ ~Recorded(n) /\ ~InFlight(n)}

\* A network is allocated before its ID is persisted by the deferred patch, and
\* no list of networks is consulted before the next one is allocated.  Still,
\* every fault, and the removal of an object that has no finalizer yet, costs
\* at most one network.
LeakBound ==
  Cardinality(Orphans) <= faults.count + (IF RemovedUnguarded THEN 1 ELSE 0)

\* A cluster nobody deletes never loses the network its object names, whatever
\* stale copies the controller works from and wherever it dies.
LiveNetworkAllocated ==
  (metalCluster.exists /\ ~metalCluster.deleting /\ metalCluster.privateNetworkID # Nil)
    => networks[metalCluster.privateNetworkID] = "allocated"

\* No reconcile has started from a copy that was behind the API server.
Fresh == "stale" \notin faults.kinds

\* An object that went through reconcileDelete leaves neither its network nor a
\* child behind that nobody deletes, if every reconcile saw the object as it was.
RemovalLeavesNothing ==
  (Fresh /\ ~metalCluster.exists /\ metalCluster.deleting) =>
    /\ metalCluster.privateNetworkID # Nil =>
         networks[metalCluster.privateNetworkID] = "freed"
    /\ \A c \in Children : child[c] # "live"

\* Once the API server knows the network and the control plane host of a cluster,
\* no later reconcile replaces them, if every reconcile saw the object as it was.
RecordStable ==
  [][Fresh' =>
     /\ metalCluster.privateNetworkID # Nil =>
          metalCluster'.privateNetworkID = metalCluster.privateNetworkID
     /\ metalCluster.host # Nil => metalCluster'.host = metalCluster.host]_vars

\* How the object, its network and its controller look to the specification
\* Lifecycle, which speaks of the network on record only.
Lifecycle == INSTANCE Lifecycle WITH
  Resources <- Networks,
  object <- IF ~metalCluster.exists THEN "gone"
            ELSE IF metalCluster.deleting THEN "deleting" ELSE "live",
  recorded <- metalCluster.privateNetworkID,
  held <- {n \in Networks : networks[n] = "allocated"},
  astray <- ~Fresh

\* The cluster controller implements Lifecycle: the network on record is never
\* replaced, is freed under deletion only, and is free before the object goes.
KeepsNetwork == Lifecycle!Spec

\* No patch request has failed on the API server.
Delivered == "patch" \notin faults.kinds

\* A cluster that is reported ready has its network and its control plane host
\* on record, if every patch went through: Cluster API copies the host when it sees
\* ready.
ReadyRecorded ==
  (Delivered /\ metalCluster.exists /\ metalCluster.ready) =>
    metalCluster.privateNetworkID # Nil /\ metalCluster.host # Nil

\* No event comes for an object whose patch changed nothing, and the worker drops it
\* unless it is told to requeue.  Whatever failed, a cluster that nobody is at work
\* on, and of which the informer has nothing to report, is queued or finished.
NothingForgotten ==
  (metalCluster.exists /\ cached = metalCluster /\ pc = "idle" /\ ~queued) =>
    metalCluster.ready /\ ~metalCluster.deleting

\* A cluster becomes ready or is deleted, provided nobody keeps it paused.
EventuallyReady ==
  <>[]~paused => <>(metalCluster.ready \/ metalCluster.deleting \/ ~metalCluster.exists)

\* A raw machine in the cluster's network that no object leads to any more.
Stranded(c) == child[c] = "absent" /\ attached[c] # Nil

\* A cluster that is being deleted is gone some day, provided nobody keeps it
\* paused and no child has left a raw machine behind in its network.
DeletionCompletes ==
  <>[](~paused /\ \A c \in Children : ~Stranded(c)) =>
    (metalCluster.deleting ~> ~metalCluster.exists)
=============================================================================
