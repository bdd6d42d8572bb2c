------------------------- MODULE MetalStackMachine --------------------------
(***************************************************************************)
(* The MetalStackMachine controller                                        *)
(* (controllers/metalstackmachine_controller.go and _resources.go): every  *)
(* object gets a raw machine of metal-API, waits for the node that boots   *)
(* on it and writes the provider ID on the node.  The objects of one       *)
(* cluster share the pool of raw machines, the cluster's tag on them and   *)
(* the single worker of the controller.                                    *)
(*                                                                         *)
(* A reconcile is one step per remote call; cur is the object it is about  *)
(* and pc names the call it is about to make.                              *)
(***************************************************************************)
EXTENDS PatchHelper, FiniteSets

CONSTANTS
  Objects,       \* the MetalStackMachine objects of one cluster
  Machines,      \* IDs of raw machines
  Foreign,       \* the machines other projects compete for
  Presets,       \* the provider IDs users may give to the objects
  Unidentified,  \* the machines whose node reports no system UUID
  Nil,           \* an unset provider ID, no object
  Malformed,     \* a provider ID that does not parse
  Faults,        \* the kinds of faults that may strike
  MaxFaults      \* how many of them may strike

ProviderIDs == Machines \cup {Nil, Malformed}

ASSUME MachineAssumptions ==
  /\ IsFiniteSet(Objects) /\ IsFiniteSet(Machines)
  /\ Foreign \subseteq Machines /\ Unidentified \subseteq Machines
  /\ Presets \subseteq [Objects -> ProviderIDs]
  /\ Nil \notin Machines \cup Objects /\ Malformed \notin Machines /\ Nil # Malformed
  /\ Faults \subseteq FaultKinds
  /\ MaxFaults \in Nat

VARIABLES
  metalMachine,         \* the MetalStackMachine objects on the API server
  cached,               \* the informer's copies of them
  owned,                \* the objects that have their Machine as owner
  bootstrap,            \* the objects whose Machine names a bootstrap secret
  infrastructureReady,  \* the Cluster says so
  metalCluster,         \* what the informer knows of the MetalStackCluster
  paused,               \* the Cluster is paused
  machines,             \* state of every raw machine at metal-API
  nodes,                \* the Node objects of the workload cluster
  pc, cur, before, obj, again,  \* the reconcile in flight
  queued,               \* the objects in the work queue
  faults                \* the faults that have struck

local == <<pc, cur, before, obj, again>>
kube  == <<owned, bootstrap, infrastructureReady, metalCluster, paused>>
metal == <<machines, nodes>>
vars  == <<metalMachine, cached, kube, metal, local, queued, faults>>

MachineObject ==
  [exists: BOOLEAN, deleting: BOOLEAN, finalizer: BOOLEAN,
   providerID: ProviderIDs, ready: BOOLEAN, failure: BOOLEAN]

NewMachine(id) ==
  [exists |-> TRUE, deleting |-> FALSE, finalizer |-> FALSE,
   providerID |-> id, ready |-> FALSE, failure |-> FALSE]

\* A Node object: the raw machine it came from, the machine its provider ID names, and
\* whether the machine still runs it.
Node == [machine: Machines, providerID: Machines \cup {Nil}, running: BOOLEAN]

Blank == [NewMachine(Nil) EXCEPT !.exists = FALSE]

TypeOK ==
  /\ metalMachine \in [Objects -> MachineObject]
  /\ cached \in [Objects -> MachineObject]
  /\ owned \subseteq Objects /\ bootstrap \subseteq Objects
  /\ infrastructureReady \in BOOLEAN /\ paused \in BOOLEAN
  /\ metalCluster \in {"pending", "networked", "addressed", "gone"}
  /\ machines \in [Machines -> {"free", "own", "foreign"}]
  /\ nodes \subseteq Node
  /\ pc \in {"idle", "MachineGet", "MachineCreate", "setNodeProviderID",
             "MachineFind", "MachineDelete", "patchSpec", "patchStatus"}
  /\ cur \in Objects \cup {Nil}
  /\ before \in MachineObject /\ obj \in MachineObject
  /\ again \in BOOLEAN
  /\ queued \subseteq Objects
  /\ faults \in FaultLog(MaxFaults)

Init ==
  /\ \E preset \in Presets : metalMachine = [o \in Objects |-> NewMachine(preset[o])]
  /\ cached = metalMachine
  /\ owned = {} /\ bootstrap = {}
  /\ infrastructureReady = FALSE /\ paused = FALSE
  /\ metalCluster = "pending"
  /\ machines = [m \in Machines |-> "free"]
  /\ nodes = {}
  /\ pc = "idle" /\ cur = Nil /\ before = Blank /\ obj = Blank /\ again = FALSE
  /\ queued = Objects
  /\ faults = NoFault

-----------------------------------------------------------------------------
(* Control flow of a reconcile                                             *)

Parses(id) == id \in Machines

Goto(label) == pc' = label /\ UNCHANGED again

\* Return from Reconcile: the deferred function patches the object first.
Return(requeue) == pc' = "patchSpec" /\ again' = requeue

\* An error, or a node that is not there yet.  The mutant asks for no other run.
FailForgotten == Return(FALSE) /\ UNCHANGED obj
Fail == Return(TRUE) /\ UNCHANGED obj

Fault(kind) ==
  /\ kind \in Faults
  /\ faults.count < MaxFaults
  /\ faults' = Struck(faults, kind)

Restart ==
  /\ pc' = "idle" /\ cur' = Nil /\ before' = Blank /\ obj' = Blank /\ again' = FALSE
  /\ cached' = metalMachine
  /\ queued' = Objects

\* newMetalStackMachineResources and isReady: what has to be there.  A failed
\* object is never looked at again, not even to delete it.
Resources(o) ==
  /\ cached[o].exists /\ o \in owned /\ ~cached[o].failure
  /\ metalCluster \in {"networked", "addressed"}
  /\ infrastructureReady /\ o \in bootstrap

\* When something is missing the object is dropped and not queued again: only a
\* change of the object or of its Machine wakes the controller.
Reconcile(o) ==
  /\ pc = "idle" /\ o \in queued
  /\ IF cached[o] = metalMachine[o] THEN UNCHANGED faults ELSE Fault("stale")
  /\ UNCHANGED <<metalMachine, cached, kube, metal>>
  /\ \/ /\ ~Resources(o)
        /\ queued' = queued \ {o}
        /\ UNCHANGED local
     \/ /\ (Resources(o) /\ paused) \/ (cached[o].exists /\ "lookup" \in Faults)
        /\ UNCHANGED <<local, queued>>
     \/ /\ Resources(o) /\ ~paused
        /\ queued' = queued \ {o}
        /\ cur' = o
        /\ before' = cached[o]
        /\ \/ /\ cached[o].deleting
              /\ obj' = cached[o]
              /\ IF Parses(cached[o].providerID) THEN Goto("MachineFind") ELSE Return(TRUE)
           \/ /\ ~cached[o].deleting
              /\ obj' = [cached[o] EXCEPT !.finalizer = TRUE]
              /\ IF metalCluster = "networked" THEN Return(TRUE)
                 ELSE Goto(IF Parses(cached[o].providerID) THEN "MachineGet"
                                                           ELSE "MachineCreate")

-----------------------------------------------------------------------------
(* reconcile                                                               *)

\* A machine that is allocated is taken for the object's own.
MachineGet ==
  /\ pc = "MachineGet"
  /\ UNCHANGED <<metalMachine, cached, kube, metal, cur, before, obj, queued, faults>>
  /\ \/ Goto(IF machines[obj.providerID] = "free" THEN "MachineCreate" ELSE "setNodeProviderID")
     \/ Return(TRUE)

Requested(m) == Parses(obj.providerID) => m = obj.providerID

SetFailure == obj' = [obj EXCEPT !.failure = TRUE] /\ Return(TRUE)

\* Mutant: the ID of the new machine stays in the request and is not set.
CreatedForgotten(m) == UNCHANGED obj
Created(m) == obj' = [obj EXCEPT !.providerID = m]

\* The bootstrap secret may not be readable yet, which is an error like others;
\* every error of MachineCreate marks the object as failed.
MachineCreate ==
  /\ pc = "MachineCreate"
  /\ UNCHANGED <<metalMachine, cached, kube, nodes, cur, before, queued>>
  /\ \/ \E m \in Machines :
          /\ machines[m] = "free" /\ Requested(m)
          /\ machines' = [machines EXCEPT ![m] = "own"]
          /\ \/ Created(m) /\ Goto("setNodeProviderID") /\ UNCHANGED faults
             \/ Fault("reply") /\ SetFailure
     \/ /\ \A m \in Machines : Requested(m) => machines[m] # "free"
        /\ SetFailure
        /\ UNCHANGED <<machines, faults>>
     \/ /\ Fault("refuse")
        /\ SetFailure
        /\ UNCHANGED machines
     \/ /\ Fail
        /\ UNCHANGED <<machines, faults>>

\* A provider ID contains the system UUID of the machine it names, and the empty one of
\* every node that reports none.
Fits(m, id) == m = id \/ m \in Unidentified

\* Mutant: the first node in the list is taken.
MatchesAny(n) == n \in nodes
NodeMatches(n) == Fits(n.machine, obj.providerID)

\* Kubernetes lets the provider ID of a node be set but not changed.
SetNodeProviderID ==
  /\ pc = "setNodeProviderID"
  /\ UNCHANGED <<metalMachine, cached, kube, machines, cur, before, queued, faults>>
  /\ \/ /\ Parses(obj.providerID)
        /\ \E n \in nodes :
             /\ NodeMatches(n)
             /\ n.providerID \in {Nil, obj.providerID}
             /\ nodes' = (nodes \ {n}) \cup {[n EXCEPT !.providerID = obj.providerID]}
        /\ obj' = [obj EXCEPT !.ready = TRUE]
        /\ Return(FALSE)
     \/ Fail /\ UNCHANGED nodes

-----------------------------------------------------------------------------
(* reconcileDelete                                                         *)

\* Mutant: the finalizer stays, and the object is deleted once more.
Kept == UNCHANGED obj /\ Return(TRUE)
LetGo == obj' = [obj EXCEPT !.finalizer = FALSE] /\ Return(FALSE)

\* The machine is searched by ID, project and the tag of the cluster.  The
\* mutant leaves the tag out.
FoundUntagged(id) == machines[id] # "free"
Found(id) == machines[id] = "own"

MachineFind ==
  /\ pc = "MachineFind"
  /\ UNCHANGED <<metalMachine, cached, kube, metal, cur, before, queued, faults>>
  /\ \/ Found(obj.providerID) /\ Goto("MachineDelete") /\ UNCHANGED obj
     \/ ~Found(obj.providerID) /\ LetGo
     \/ Fail

\* The mutant lets go although the machine could not be deleted.
DeleteRefusedLetGo == LetGo
DeleteRefused == Fail

\* A machine that is given back leaves its Node object behind.
Freed(m) ==
  /\ machines' = [machines EXCEPT ![m] = "free"]
  /\ nodes' = {[n EXCEPT !.running = @ /\ n.machine # m] : n \in nodes}

MachineDelete ==
  /\ pc = "MachineDelete"
  /\ UNCHANGED <<metalMachine, cached, kube, cur, before, queued>>
  /\ \/ /\ Freed(obj.providerID)
        /\ \/ LetGo /\ UNCHANGED faults
           \/ Fault("reply") /\ Fail
     \/ /\ DeleteRefused
        /\ UNCHANGED <<metal, faults>>

-----------------------------------------------------------------------------
(* The deferred patch                                                      *)

PatchedSpec(live) ==
  LET o == [live EXCEPT
              !.finalizer = Merged(@, before.finalizer, obj.finalizer),
              !.providerID = Merged(@, before.providerID, obj.providerID)]
  IN  [o EXCEPT !.exists = ~o.deleting \/ o.finalizer]

\* Mutant: the failure is diffed against the wrong field.
StatusMisplaced(live) ==
  [live EXCEPT !.ready = Merged(@, before.ready, obj.ready),
               !.failure = Merged(@, before.providerID, obj.providerID)]

PatchedStatus(live) ==
  [live EXCEPT !.ready = Merged(@, before.ready, obj.ready),
               !.failure = Merged(@, before.failure, obj.failure)]

SpecOf(o) == <<o.finalizer, o.providerID>>
StatusOf(o) == <<o.ready, o.failure>>

PatchSpec ==
  /\ pc = "patchSpec"
  /\ pc' = "patchStatus"
  /\ UNCHANGED <<cached, kube, metal, cur, before, obj, queued>>
  /\ \/ /\ metalMachine[cur].exists \/ SpecOf(obj) = SpecOf(before)
        /\ metalMachine' = IF SpecOf(obj) = SpecOf(before) THEN metalMachine
                           ELSE [metalMachine EXCEPT ![cur] = PatchedSpec(@)]
        /\ UNCHANGED <<again, faults>>
     \/ /\ SpecOf(obj) # SpecOf(before)
        /\ IF metalMachine[cur].exists THEN Fault("patch") ELSE UNCHANGED faults
        /\ again' = TRUE
        /\ UNCHANGED metalMachine

PatchStatus ==
  /\ pc = "patchStatus"
  /\ pc' = "idle" /\ cur' = Nil /\ before' = Blank /\ obj' = Blank /\ again' = FALSE
  /\ UNCHANGED <<cached, kube, metal>>
  /\ \/ /\ metalMachine[cur].exists \/ StatusOf(obj) = StatusOf(before)
        /\ metalMachine' = IF StatusOf(obj) = StatusOf(before) THEN metalMachine
                           ELSE [metalMachine EXCEPT ![cur] = PatchedStatus(@)]
        /\ queued' = IF again THEN queued \cup {cur} ELSE queued
        /\ UNCHANGED faults
     \/ /\ StatusOf(obj) # StatusOf(before)
        /\ IF metalMachine[cur].exists THEN Fault("patch") ELSE UNCHANGED faults
        /\ queued' = queued \cup {cur}
        /\ UNCHANGED metalMachine

Controller ==
  \/ \E o \in Objects : Reconcile(o)
  \/ MachineGet
  \/ MachineCreate
  \/ SetNodeProviderID
  \/ MachineFind
  \/ MachineDelete
  \/ PatchSpec
  \/ PatchStatus

-----------------------------------------------------------------------------
(* The manager, the informers, Cluster API, the cluster, other projects    *)

\* The process dies, on its own or by a panic in another controller.
Crash ==
  /\ Fault("crash")
  /\ Restart
  /\ UNCHANGED <<metalMachine, kube, metal>>

Refresh(o) ==
  /\ cached[o] # metalMachine[o]
  /\ cached' = [cached EXCEPT ![o] = metalMachine[o]]
  /\ queued' = queued \cup {o}
  /\ UNCHANGED <<metalMachine, kube, metal, local, faults>>

\* The Machine controller adopts the object, which changes the object.
SetOwnerRef(o) ==
  /\ metalMachine[o].exists /\ o \notin owned
  /\ owned' = owned \cup {o}
  /\ queued' = queued \cup {o}
  /\ UNCHANGED <<metalMachine, cached, bootstrap, infrastructureReady, metalCluster, paused,
                 metal, local, faults>>

\* The bootstrap provider waits for the infrastructure and changes the Machine.
SetBootstrap(o) ==
  /\ infrastructureReady /\ o \notin bootstrap
  /\ bootstrap' = bootstrap \cup {o}
  /\ queued' = queued \cup {o}
  /\ UNCHANGED <<metalMachine, cached, owned, infrastructureReady, metalCluster, paused,
                 metal, local, faults>>

\* The cluster controller persists the network and then the address; nobody
\* tells the machine controller.
ClusterMoves(from, to) ==
  /\ metalCluster = from
  /\ metalCluster' = to
  /\ UNCHANGED <<metalMachine, cached, owned, bootstrap, infrastructureReady, paused,
                 metal, local, queued>>

NetworkRecorded == ClusterMoves("pending", "networked") /\ UNCHANGED faults

AddressRecorded == ClusterMoves("networked", "addressed") /\ UNCHANGED faults

\* Cluster API removes the MetalStackCluster after the machines.  Deleted by hand,
\* it goes when its network can be freed.
ClusterGone ==
  /\ \A o \in Objects : metalMachine[o].deleting \/ ~metalMachine[o].exists
  /\ \A m \in Machines : machines[m] # "own"
  /\ ClusterMoves("addressed", "gone")
  /\ UNCHANGED faults

\* Cluster API reports the infrastructure when the MetalStackCluster is ready;
\* the informer may not have seen the latter yet.
InfrastructureReady ==
  /\ ~infrastructureReady
  /\ infrastructureReady' = TRUE
  /\ IF metalCluster = "addressed" THEN UNCHANGED faults ELSE Fault("stale")
  /\ UNCHANGED <<metalMachine, cached, owned, bootstrap, metalCluster, paused, metal, local,
                 queued>>

TogglePause ==
  /\ paused' = ~paused
  /\ UNCHANGED <<metalMachine, cached, owned, bootstrap, infrastructureReady, metalCluster,
                 metal, local, queued, faults>>

DeleteMachine(o) ==
  /\ metalMachine[o].exists /\ ~metalMachine[o].deleting
  /\ metalMachine' = [metalMachine EXCEPT ![o] =
                        IF @.finalizer THEN [@ EXCEPT !.deleting = TRUE]
                                       ELSE [@ EXCEPT !.exists = FALSE]]
  /\ UNCHANGED <<cached, kube, metal, local, queued, faults>>

\* A machine boots and registers its node, under the name of the object it was allocated
\* for, so it is another Node object than one that was left behind.
NodeJoins(m) ==
  /\ machines[m] = "own"
  /\ \A n \in nodes : n.machine = m => ~n.running
  /\ nodes' = nodes \cup {[machine |-> m, providerID |-> Nil, running |-> TRUE]}
  /\ UNCHANGED <<metalMachine, cached, kube, machines, local, queued, faults>>

\* Cluster API removes the Node object that a machine has left behind, in its own time.
NodeDeleted(n) ==
  /\ ~n.running
  /\ nodes' = nodes \ {n}
  /\ UNCHANGED <<metalMachine, cached, kube, machines, local, queued, faults>>

ForeignMoves(m, from, to) ==
  /\ machines[m] = from
  /\ machines' = [machines EXCEPT ![m] = to]
  /\ UNCHANGED <<metalMachine, cached, kube, nodes, local, queued, faults>>

Environment ==
  \/ Crash
  \/ \E o \in Objects : Refresh(o) \/ SetOwnerRef(o) \/ SetBootstrap(o) \/ DeleteMachine(o)
  \/ NetworkRecorded
  \/ AddressRecorded
  \/ ClusterGone
  \/ InfrastructureReady
  \/ TogglePause
  \/ \E m \in Machines : NodeJoins(m)
  \/ \E n \in nodes : NodeDeleted(n)
  \/ \E m \in Foreign : ForeignMoves(m, "free", "foreign")
  \/ \E m \in Foreign : ForeignMoves(m, "foreign", "free")

Next == Controller \/ Environment

Spec == Init /\ [][Next]_vars

\* The work queue serves every object, the manager, the informers, Cluster API and
\* metal-stack keep going, and a call that is made again and again succeeds some
\* day, or fails the object.
Fairness ==
  /\ \A o \in Objects : /\ SF_vars(Reconcile(o))
                        /\ WF_vars(Refresh(o))
                        /\ WF_vars(SetOwnerRef(o))
                        /\ WF_vars(SetBootstrap(o))
  /\ WF_vars(pc # "idle" /\ Controller)
  /\ WF_vars(NetworkRecorded)
  /\ WF_vars(AddressRecorded)
  /\ WF_vars(InfrastructureReady)
  /\ \A m \in Machines : WF_vars(NodeJoins(m))
  /\ SF_vars(MachineGet /\ ~again')
  /\ SF_vars(MachineCreate /\ (again' => obj'.failure))
  /\ SF_vars(SetNodeProviderID /\ ~again')
  /\ SF_vars(MachineFind /\ ~again')
  /\ SF_vars(MachineDelete /\ ~again')

FairSpec == Spec /\ Fairness

-----------------------------------------------------------------------------
(* Properties                                                              *)

Lives(o) == metalMachine[o].exists /\ ~metalMachine[o].deleting

RemovedUnguarded == {o \in Objects : ~metalMachine[o].exists /\ ~metalMachine[o].deleting}

Recorded(m) == \E o \in Objects : metalMachine[o].exists /\ metalMachine[o].providerID = m

InFlight(m) == pc \in {"setNodeProviderID", "patchSpec"} /\ obj.providerID = m

\* Machines allocated for this cluster that no object leads to any more.
Orphans == {m \in Machines : machines[m] = "own" /\ ~Recorded(m) /\ ~InFlight(m)}

\* A machine is allocated before its ID is persisted and nobody looks for machines
\* that already carry the cluster's tag.  Still, a fault, or the removal of an
\* object that has no finalizer yet, costs at most one machine.
LeakBound == Cardinality(Orphans) <= faults.count + Cardinality(RemovedUnguarded)

\* A machine of somebody else is never deleted, although a provider ID may name
\* one.
NoForeignDelete == [][MachineDelete => machines[obj.providerID] # "foreign"]_vars

\* Calls may have failed, but none whose effect the controller did not see: no reply
\* and no patch was lost, no manager died, and every reconcile saw its object as it was.
Undisturbed == faults.kinds \cap {"crash", "patch", "reply", "stale"} = {}

\* The machine search of reconcileDelete cannot tell the machines of one cluster
\* apart, and a machine that was given back may be handed out again at once.
\* Undisturbed, no object's deletion takes another's machine.
NoSiblingDelete ==
  [][Undisturbed /\ MachineDelete => \A o \in Objects \ {cur} :
        metalMachine[o].exists => metalMachine[o].providerID # obj.providerID]_vars

\* A sibling of the object is on its way out, or gone, and the node its machine left
\* behind fits the provider ID.
LeftBehind(o, id) ==
  \E p \in Objects \ {o} : ~Lives(p) /\ Fits(metalMachine[p].providerID, id)

\* An object that is ready has a machine of its own, and a node that runs carries its
\* provider ID, unless a node was taken for it that a sibling had left behind; if its
\* controller has worked undisturbed.
ReadyHasNode ==
  Undisturbed => \A o \in Objects : Lives(o) /\ metalMachine[o].ready =>
    LET id == metalMachine[o].providerID
    IN  /\ Parses(id) /\ machines[id] = "own"
        /\ \A p \in Objects \ {o} : metalMachine[p].exists => metalMachine[p].providerID # id
        /\ \/ \E n \in nodes : n.running /\ n.providerID = id /\ Fits(n.machine, id)
           \/ LeftBehind(o, id)

\* No reconcile has started from a copy that was behind the API server, and Cluster API
\* has not told of an infrastructure that the informer does not show yet.
Fresh == "stale" \notin faults.kinds

\* An object that lacks something is dropped from the queue.  If every copy is fresh and
\* the cluster stays, an object that is dropped, and is neither ready nor failed, lacks its
\* owner or its bootstrap secret, and those wake the controller when they come.
NothingForgotten ==
  (Fresh /\ metalCluster # "gone") => \A o \in Objects :
    (metalMachine[o].exists /\ cached[o] = metalMachine[o] /\ cur # o /\ o \notin queued) =>
      \/ metalMachine[o].failure
      \/ metalMachine[o].ready /\ ~metalMachine[o].deleting
      \/ o \notin owned
      \/ o \notin bootstrap

\* An object that is not deleted becomes ready or fails, provided the Cluster does
\* not stay paused.
EventuallyReadyOrFailed ==
  <>[]~paused => \A o \in Objects :
    []Lives(o) => <>(metalMachine[o].ready \/ metalMachine[o].failure)

\* An object whose machine is on record is gone some day after it is deleted,
\* unless it fails, if its cluster stays and is not paused for good.
RecordedDeletionCompletes ==
  <>[](~paused /\ metalCluster = "addressed") => \A o \in Objects :
    (/\ metalMachine[o].deleting
     /\ Parses(metalMachine[o].providerID)) ~> (~metalMachine[o].exists \/ metalMachine[o].failure)

\* What the API documents of ready, and a test of the node: an object is ready when what
\* it stands for is, so the node of its machine has joined.
ReadyHasJoined ==
  \A o \in Objects : Lives(o) /\ metalMachine[o].ready =>
    \E n \in nodes : n.running /\ n.machine = metalMachine[o].providerID
=============================================================================
