----------------------- MODULE MetalStackMachineProofs -----------------------
(***************************************************************************)
(* Theorems about the MetalStackMachine controller, for every set of       *)
(* objects and machines and every number of faults.                        *)
(***************************************************************************)
EXTENDS MetalStackMachine, TLAPS

\* A reconcile in flight is about an object, and deletes a machine only after the
\* search by ID and tag has found it.  Nobody but this reconcile takes a machine
\* away from the cluster, so it is still the cluster's own when it is deleted.
DeletesOwn ==
  /\ pc # "idle" => cur \in Objects
  /\ pc = "MachineFind" => Parses(obj.providerID)
  /\ pc = "MachineDelete" => Parses(obj.providerID) /\ machines[obj.providerID] = "own"

Inv == TypeOK /\ DeletesOwn

LEMMA BlankTyped == Blank \in MachineObject
  BY DEF Blank, NewMachine, MachineObject, ProviderIDs

\* The fault budget is never overdrawn.
LEMMA FaultTyped ==
  ASSUME TypeOK, NEW kind, Fault(kind)
  PROVE  faults' \in FaultLog(MaxFaults)
<1>1. kind \in FaultKinds /\ MaxFaults \in Nat
  BY MachineAssumptions DEF Fault, MachineAssumptions
<1>2. faults \in [count: 0..MaxFaults, kinds: SUBSET FaultKinds] /\ faults.count < MaxFaults
  BY DEF TypeOK, Fault, FaultLog
<1>3. /\ faults.count + 1 \in 0..MaxFaults
      /\ faults.kinds \cup {kind} \in SUBSET FaultKinds
  BY <1>1, <1>2
<1>4. QED
  BY <1>3 DEF Fault, Struck, FaultLog

\* What a reconcile, and a patch, makes of an object is an object again.
LEMMA ObjectsTyped ==
  ASSUME NEW o \in MachineObject
  PROVE  /\ \A b \in BOOLEAN : /\ [o EXCEPT !.finalizer = b] \in MachineObject
                               /\ [o EXCEPT !.ready = b] \in MachineObject
                               /\ [o EXCEPT !.failure = b] \in MachineObject
                               /\ [o EXCEPT !.deleting = b] \in MachineObject
                               /\ [o EXCEPT !.exists = b] \in MachineObject
         /\ \A m \in Machines : [o EXCEPT !.providerID = m] \in MachineObject
  BY DEF MachineObject, ProviderIDs

LEMMA PatchTyped ==
  ASSUME TypeOK, NEW live \in MachineObject
  PROVE  PatchedSpec(live) \in MachineObject /\ PatchedStatus(live) \in MachineObject
<1>1. PatchedSpec(live) \in MachineObject
  <2> DEFINE finalizer == Merged(live.finalizer, before.finalizer, obj.finalizer)
             id == Merged(live.providerID, before.providerID, obj.providerID)
             o == [live EXCEPT !.finalizer = finalizer, !.providerID = id]
  <2>1. finalizer \in BOOLEAN /\ id \in ProviderIDs
    BY DEF TypeOK, Merged, MachineObject
  <2>2. o \in MachineObject
    <3> HIDE DEF finalizer, id
    <3>1. QED
      BY <2>1 DEF MachineObject
  <2>3. (~o.deleting \/ o.finalizer) \in BOOLEAN
    OBVIOUS
  <2>4. PatchedSpec(live) = [o EXCEPT !.exists = ~o.deleting \/ o.finalizer]
    BY DEF PatchedSpec
  <2>5. QED
    <3> HIDE DEF o
    <3>1. QED
      BY <2>2, <2>3, <2>4, ObjectsTyped
<1>2. PatchedStatus(live) \in MachineObject
  BY DEF TypeOK, PatchedStatus, Merged, MachineObject
<1>3. QED
  BY <1>1, <1>2

LEMMA InvInit == Init => Inv
<1> SUFFICES ASSUME Init PROVE Inv
  OBVIOUS
<1>1. metalMachine \in [Objects -> MachineObject]
  <2>1. PICK preset \in Presets : metalMachine = [o \in Objects |-> NewMachine(preset[o])]
    BY DEF Init
  <2>2. preset \in [Objects -> ProviderIDs]
    BY MachineAssumptions DEF MachineAssumptions
  <2>3. \A id \in ProviderIDs : NewMachine(id) \in MachineObject
    BY DEF NewMachine, MachineObject
  <2>4. QED
    BY <2>1, <2>2, <2>3
<1>2. faults \in FaultLog(MaxFaults)
  BY MachineAssumptions DEF Init, NoFault, FaultLog, MachineAssumptions
<1>3. machines \in [Machines -> {"free", "own", "foreign"}] /\ nodes \subseteq Node
  BY DEF Init
<1>4. QED
  BY <1>1, <1>2, <1>3, BlankTyped DEF Init, Inv, TypeOK, DeletesOwn

\* A restart forgets the reconcile in flight.
LEMMA RestartInv ==
  ASSUME Inv, Restart, UNCHANGED <<metalMachine, kube>>, faults' \in FaultLog(MaxFaults),
         UNCHANGED metal
  PROVE  Inv'
<1>1. TypeOK'
  BY BlankTyped DEF Restart, Inv, TypeOK, kube, metal
<1>2. QED
  BY <1>1 DEF Restart, Inv, DeletesOwn

\* A step of the reconcile keeps the invariant.
LEMMA InvController == Inv /\ Controller => Inv'
<1> SUFFICES ASSUME Inv, Controller PROVE Inv'
  OBVIOUS
<1> USE DEF kube, metal, local, Goto, Return
<1>0. TypeOK /\ DeletesOwn /\ obj \in MachineObject
  BY DEF Inv, TypeOK
<1>1. ASSUME NEW o \in Objects, Reconcile(o)
      PROVE  Inv'
  <2>0. cached[o] \in MachineObject /\ [cached[o] EXCEPT !.finalizer = TRUE] \in MachineObject
    BY <1>0, ObjectsTyped DEF TypeOK
  <2>1. faults' \in FaultLog(MaxFaults)
    BY <1>0, <1>1, FaultTyped DEF Reconcile, TypeOK
  <2>2. UNCHANGED <<metalMachine, cached, kube, metal>> /\ queued' \subseteq Objects
    BY <1>0, <1>1 DEF Reconcile, TypeOK
  <2>3. CASE UNCHANGED local
    BY <1>0, <2>1, <2>2, <2>3 DEF Inv, TypeOK, DeletesOwn
  <2>4. CASE ~UNCHANGED local
    <3>1. /\ cur' = o /\ before' = cached[o]
          /\ obj' \in {cached[o], [cached[o] EXCEPT !.finalizer = TRUE]}
          /\ pc' \in {"MachineFind", "patchSpec", "MachineGet", "MachineCreate"}
          /\ again' \in {again, TRUE}
          /\ pc' = "MachineFind" => Parses(cached[o].providerID) /\ obj' = cached[o]
      BY <1>1, <2>4 DEF Reconcile
    <3>2. QED
      BY <1>0, <2>0, <2>1, <2>2, <3>1 DEF Inv, TypeOK, DeletesOwn
  <2>5. QED
    BY <2>3, <2>4
<1>2. CASE MachineGet
  BY <1>0, <1>2 DEF MachineGet, Inv, TypeOK, DeletesOwn
<1>3. CASE MachineCreate
  <2>1. obj' \in MachineObject
    BY <1>0, <1>3, ObjectsTyped DEF MachineCreate, Created, SetFailure, Fail
  <2>2. machines' \in [Machines -> {"free", "own", "foreign"}]
    BY <1>0, <1>3 DEF MachineCreate, TypeOK
  <2>3. faults' \in FaultLog(MaxFaults)
    BY <1>0, <1>3, FaultTyped DEF MachineCreate, TypeOK
  <2>4. /\ pc = "MachineCreate" /\ pc' \in {"setNodeProviderID", "patchSpec"}
        /\ again' \in {again, TRUE}
    BY <1>3 DEF MachineCreate, SetFailure, Fail
  <2>5. QED
    BY <1>0, <1>3, <2>1, <2>2, <2>3, <2>4 DEF MachineCreate, Inv, TypeOK, DeletesOwn
<1>4. CASE SetNodeProviderID
  <2>1. obj' \in MachineObject /\ pc = "setNodeProviderID" /\ pc' = "patchSpec"
        /\ again' \in BOOLEAN
    BY <1>0, <1>4, ObjectsTyped DEF SetNodeProviderID, Fail
  <2>2. nodes' \subseteq Node
    <3>1. nodes \subseteq Node
      BY <1>0 DEF TypeOK
    <3>2. CASE UNCHANGED nodes
      BY <3>1, <3>2
    <3>3. CASE \E n \in nodes :
                 /\ Parses(obj.providerID)
                 /\ nodes' = (nodes \ {n}) \cup {[n EXCEPT !.providerID = obj.providerID]}
      <4>1. \A n \in nodes : Parses(obj.providerID) =>
               [n EXCEPT !.providerID = obj.providerID] \in Node
        BY <3>1 DEF Parses, Node
      <4>2. QED
        BY <3>1, <3>3, <4>1
    <3>4. QED
      BY <1>4, <3>2, <3>3 DEF SetNodeProviderID
  <2>3. QED
    BY <1>0, <1>4, <2>1, <2>2 DEF SetNodeProviderID, Inv, TypeOK, DeletesOwn
<1>5. CASE MachineFind
  <2>1. obj' \in MachineObject
    BY <1>0, <1>5, ObjectsTyped DEF MachineFind, LetGo, Fail
  <2>2. /\ pc = "MachineFind" /\ pc' \in {"MachineDelete", "patchSpec"}
        /\ again' \in {again, TRUE, FALSE}
        /\ pc' = "MachineDelete" => Found(obj.providerID) /\ obj' = obj
    BY <1>5 DEF MachineFind, LetGo, Fail
  <2>3. QED
    BY <1>0, <1>5, <2>1, <2>2 DEF MachineFind, Found, Inv, TypeOK, DeletesOwn
<1>6. CASE MachineDelete
  <2>1. obj' \in MachineObject /\ pc = "MachineDelete" /\ pc' = "patchSpec" /\ again' \in BOOLEAN
    BY <1>0, <1>6, ObjectsTyped DEF MachineDelete, DeleteRefused, LetGo, Fail
  <2>2. machines' \in [Machines -> {"free", "own", "foreign"}] /\ nodes' \subseteq Node
    <3>1. machines' \in [Machines -> {"free", "own", "foreign"}]
      BY <1>0, <1>6 DEF MachineDelete, Freed, TypeOK
    <3>2. nodes \subseteq Node
      BY <1>0 DEF TypeOK
    <3>3. \A n \in Node, b \in BOOLEAN : [n EXCEPT !.running = b] \in Node
      BY DEF Node
    <3>4. nodes' \subseteq Node
      <4>1. CASE UNCHANGED nodes
        BY <3>2, <4>1
      <4>2. CASE nodes' = {[n EXCEPT !.running = n.running /\ n.machine # obj.providerID] :
                             n \in nodes}
        <5>1. \A n \in nodes : [n EXCEPT !.running = n.running /\ n.machine # obj.providerID]
                                \in Node
          BY <3>2, <3>3
        <5>2. QED
          BY <4>2, <5>1
      <4>3. QED
        BY <1>6, <4>1, <4>2 DEF MachineDelete, Freed
    <3>5. QED
      BY <3>1, <3>4
  <2>3. faults' \in FaultLog(MaxFaults)
    BY <1>0, <1>6, FaultTyped DEF MachineDelete, TypeOK
  <2>4. QED
    BY <1>0, <1>6, <2>1, <2>2, <2>3 DEF MachineDelete, Inv, TypeOK, DeletesOwn
<1>7. CASE PatchSpec
  <2>1. metalMachine' \in [Objects -> MachineObject]
    <3>1. cur \in Objects
      BY <1>0, <1>7 DEF PatchSpec, DeletesOwn
    <3>2. PatchedSpec(metalMachine[cur]) \in MachineObject
      BY <1>0, <3>1, PatchTyped DEF TypeOK
    <3>3. metalMachine' \in {metalMachine,
                             [metalMachine EXCEPT ![cur] = PatchedSpec(metalMachine[cur])]}
      BY <1>7 DEF PatchSpec
    <3>4. QED
      BY <1>0, <3>1, <3>2, <3>3 DEF TypeOK
  <2>2. faults' \in FaultLog(MaxFaults) /\ again' \in BOOLEAN
    BY <1>0, <1>7, FaultTyped DEF PatchSpec, TypeOK
  <2>3. QED
    BY <1>0, <1>7, <2>1, <2>2 DEF PatchSpec, Inv, TypeOK, DeletesOwn
<1>8. CASE PatchStatus
  <2>0. cur \in Objects
    BY <1>0, <1>8 DEF PatchStatus, DeletesOwn
  <2>1. metalMachine' \in [Objects -> MachineObject]
    <3>1. PatchedStatus(metalMachine[cur]) \in MachineObject
      BY <1>0, <2>0, PatchTyped DEF TypeOK
    <3>2. metalMachine' \in {metalMachine,
                             [metalMachine EXCEPT ![cur] = PatchedStatus(metalMachine[cur])]}
      BY <1>8 DEF PatchStatus
    <3>3. QED
      BY <1>0, <2>0, <3>1, <3>2 DEF TypeOK
  <2>2. faults' \in FaultLog(MaxFaults) /\ queued' \subseteq Objects
    BY <1>0, <1>8, <2>0, FaultTyped DEF PatchStatus, TypeOK
  <2>3. QED
    BY <1>0, <1>8, <2>1, <2>2, BlankTyped DEF PatchStatus, Inv, TypeOK, DeletesOwn
<1>9. QED
  BY <1>1, <1>2, <1>3, <1>4, <1>5, <1>6, <1>7, <1>8 DEF Controller

\* A step of the world keeps the invariant: other projects take free machines only.
LEMMA InvEnvironment == Inv /\ Environment => Inv'
<1> SUFFICES ASSUME Inv, Environment PROVE Inv'
  OBVIOUS
<1> USE DEF kube, metal, local
<1>0. TypeOK /\ DeletesOwn
  BY DEF Inv
<1>1. CASE Crash
  BY <1>0, <1>1, FaultTyped, RestartInv DEF Crash
<1>2. ASSUME NEW o \in Objects, Refresh(o) \/ SetOwnerRef(o) \/ SetBootstrap(o)
      PROVE  Inv'
  <2>1. TypeOK'
    BY <1>0, <1>2 DEF Refresh, SetOwnerRef, SetBootstrap, TypeOK
  <2>2. UNCHANGED <<local, metal>>
    BY <1>2 DEF Refresh, SetOwnerRef, SetBootstrap
  <2>3. QED
    BY <1>0, <2>1, <2>2 DEF Inv, DeletesOwn
<1>3. ASSUME NEW o \in Objects, DeleteMachine(o)
      PROVE  Inv'
  <2>1. metalMachine[o] \in MachineObject
    BY <1>0 DEF TypeOK
  <2>2. metalMachine' \in [Objects -> MachineObject]
    BY <1>0, <1>3, <2>1, ObjectsTyped DEF DeleteMachine, TypeOK
  <2>3. QED
    BY <1>0, <1>3, <2>2 DEF DeleteMachine, Inv, TypeOK, DeletesOwn
<1>4. CASE NetworkRecorded \/ AddressRecorded \/ ClusterGone \/ TogglePause
  BY <1>0, <1>4 DEF NetworkRecorded, AddressRecorded, ClusterGone, TogglePause, ClusterMoves,
                    Inv, TypeOK, DeletesOwn
<1>5. CASE InfrastructureReady
  <2>1. faults' \in FaultLog(MaxFaults)
    BY <1>0, <1>5, FaultTyped DEF InfrastructureReady, TypeOK
  <2>2. QED
    BY <1>0, <1>5, <2>1 DEF InfrastructureReady, Inv, TypeOK, DeletesOwn
<1>6. CASE (\E m \in Machines : NodeJoins(m)) \/ (\E n \in nodes : NodeDeleted(n))
  <2>1. nodes' \subseteq Node
    <3>1. nodes \subseteq Node
      BY <1>0 DEF TypeOK
    <3>2. \A m \in Machines : [machine |-> m, providerID |-> Nil, running |-> TRUE] \in Node
      BY DEF Node
    <3>3. QED
      BY <1>6, <3>1, <3>2 DEF NodeJoins, NodeDeleted
  <2>2. UNCHANGED <<metalMachine, cached, kube, machines, local, queued, faults>>
    BY <1>6 DEF NodeJoins, NodeDeleted
  <2>3. QED
    BY <1>0, <2>1, <2>2 DEF Inv, TypeOK, DeletesOwn
<1>7. ASSUME NEW m \in Machines, NEW from \in {"free", "foreign"}, NEW to \in {"free", "foreign"},
             ForeignMoves(m, from, to)
      PROVE  Inv'
  BY <1>0, <1>7 DEF ForeignMoves, Inv, TypeOK, DeletesOwn
<1>8. Foreign \subseteq Machines
  BY MachineAssumptions DEF MachineAssumptions
<1>9. QED
  BY <1>1, <1>2, <1>3, <1>4, <1>5, <1>6, <1>7, <1>8 DEF Environment

LEMMA InvHolds == Spec => []Inv
<1>1. Inv /\ [Next]_vars => Inv'
  <2> SUFFICES ASSUME Inv, [Next]_vars PROVE Inv'
    OBVIOUS
  <2>1. CASE Next
    BY <2>1, InvController, InvEnvironment DEF Next
  <2>2. CASE UNCHANGED vars
    BY <2>2 DEF vars, kube, metal, local, Inv, TypeOK, DeletesOwn
  <2>3. QED
    BY <2>1, <2>2
<1>2. QED
  BY InvInit, <1>1, PTL DEF Spec

\* Every variable keeps its type in every run of the controller.
THEOREM TypeCorrect == Spec => []TypeOK
<1>1. Inv => TypeOK
  BY DEF Inv
<1>2. QED
  BY <1>1, InvHolds, PTL

\* No machine of another project is deleted, whatever provider IDs users give to the
\* objects, whoever takes the machines between two calls, and whatever fails.
THEOREM ForeignKept == Spec => NoForeignDelete
<1>1. Inv => [MachineDelete => machines[obj.providerID] # "foreign"]_vars
  BY DEF Inv, DeletesOwn, MachineDelete
<1>2. QED
  BY <1>1, InvHolds, PTL DEF NoForeignDelete

-----------------------------------------------------------------------------
(* Ready objects and siblings.  The provider ID is the only link from an   *)
(* object to its machine, so the invariant follows it from the reply of    *)
(* MachineCreate through the patch to the reply of MachineDelete.          *)

Live == metalMachine[cur]

\* The reconcile in flight has given the machine of o back, and o falls with the next
\* patch.
Returned(o) == cur = o /\ pc = "patchSpec" /\ ~obj.finalizer

\* No object but o names m.
Apart(m, o) == \A p \in Objects \ {o} : metalMachine[p].exists => metalMachine[p].providerID # m

\* m is the machine of o, or was until a moment ago.
Allocated(o, m) == machines[m] = "own" \/ Returned(o)

\* The machines of the objects that are deleted or gone.
Vacated ==
  {x \in Machines : \E p \in Objects : ~Lives(p) /\ metalMachine[p].providerID = x}

\* The machines in whose name a node runs, or may have been left behind.
Registered ==
  {m \in Machines : \/ \E n \in nodes : n.running /\ n.providerID = m /\ Fits(n.machine, m)
                    \/ \E x \in Vacated : Fits(x, m)}

\* Every node that does not run any more was left behind by such an object.
Traced == \A n \in nodes : n.running \/ n.machine \in Vacated

\* Under deletion an object is held by its finalizer.
Held == \A o \in Objects :
  metalMachine[o].exists /\ metalMachine[o].deleting => metalMachine[o].finalizer

\* An object that names a machine has it, and has it for itself.
Named == \A o \in Objects :
  metalMachine[o].exists /\ Parses(metalMachine[o].providerID) =>
    /\ metalMachine[o].finalizer
    /\ Allocated(o, metalMachine[o].providerID)
    /\ Apart(metalMachine[o].providerID, o)

Noded == \A o \in Objects :
  metalMachine[o].exists /\ metalMachine[o].ready => metalMachine[o].providerID \in Registered

\* Only a reconcile of a deleted object lets go of it.
Letting ==
  pc # "idle" =>
    /\ before.deleting => Live.deleting
    /\ ~obj.finalizer => before.deleting /\ pc \in {"patchSpec", "patchStatus"}
    /\ pc \in {"MachineFind", "MachineDelete"} =>
         before.deleting /\ obj.providerID = before.providerID

\* Up to its first patch a reconcile works from the live object.
Accurate ==
  pc \notin {"idle", "patchStatus"} =>
    /\ before.finalizer = Live.finalizer
    /\ before.providerID = Live.providerID
    /\ before.ready = Live.ready
    /\ before.finalizer => Live.exists
    /\ before.deleting \/ Parses(before.providerID) => before.finalizer

\* What it is about to write holds as well.
Holding ==
  pc \notin {"idle", "patchStatus"} =>
    /\ obj.providerID # before.providerID => ~Parses(before.providerID)
    /\ Parses(obj.providerID) => Apart(obj.providerID, cur) /\ Allocated(cur, obj.providerID)
    /\ obj.ready => obj.providerID \in Registered
    /\ pc = "MachineCreate" => ~Parses(obj.providerID)

\* Between the patches the first one is on record.
Persisting ==
  pc = "patchStatus" /\ Live.exists =>
    /\ obj.finalizer
    /\ Live.providerID = obj.providerID
    /\ before.ready = Live.ready
    /\ obj.ready => obj.providerID \in Registered

Lasting == Held /\ Named /\ Noded /\ Traced
Passing == Letting /\ Accurate /\ Holding /\ Persisting

Sound == Lasting /\ Passing

\* A fault that has struck stays in the log.
LEMMA FaultsStay ==
  ASSUME [Next]_vars
  PROVE  faults.kinds \subseteq faults'.kinds
<1>1. faults' = faults \/ \E kind : Fault(kind)
  <2> USE DEF kube, metal, local
  <2>1. CASE Controller
    BY <2>1, ZenonT(60) DEF Controller, Reconcile, MachineGet, MachineCreate, SetNodeProviderID,
      MachineFind, MachineDelete, PatchSpec, PatchStatus
  <2>2. CASE Environment
    BY <2>2, ZenonT(60) DEF Environment, Crash, Refresh, SetOwnerRef, SetBootstrap, DeleteMachine,
      NetworkRecorded, AddressRecorded, ClusterGone, InfrastructureReady, TogglePause,
      ClusterMoves, NodeJoins, NodeDeleted, ForeignMoves
  <2>3. QED
    BY <2>1, <2>2 DEF Next, vars
<1>2. QED
  BY <1>1 DEF Fault, Struck

LEMMA UndisturbedBefore ==
  ASSUME [Next]_vars, Undisturbed'
  PROVE  Undisturbed
BY FaultsStay DEF Undisturbed

\* Such a fault does not strike in a step that leaves the controller undisturbed.
LEMMA NotStruck ==
  ASSUME NEW kind \in {"crash", "patch", "reply", "stale"}, Undisturbed'
  PROVE  ~Fault(kind)
BY DEF Undisturbed, Fault, Struck

\* As long as the nodes and the objects stay as they are, so does what is known of both.
LEMMA NodesStay ==
  ASSUME UNCHANGED <<metalMachine, nodes>>
  PROVE  Registered' = Registered /\ Traced' = Traced
<1>1. Vacated' = Vacated
  BY DEF Vacated, Lives
<1>2. QED
  BY <1>1 DEF Registered, Traced

\* Nor does it get worse when objects are deleted.
LEMMA NodesKept ==
  ASSUME Traced, UNCHANGED nodes, Vacated \subseteq Vacated'
  PROVE  Registered \subseteq Registered' /\ Traced'
BY DEF Registered, Traced

\* Nothing changes for the worse while the objects and the reconcile stay as they are
\* and no machine or node of the cluster is lost.
LEMMA SoundFrame ==
  ASSUME Sound, UNCHANGED <<metalMachine, local>>, Registered \subseteq Registered', Traced',
         \A m \in Machines : machines[m] = "own" => machines'[m] = "own"
  PROVE  Sound'
<1> USE DEF local, Live, Returned, Apart, Allocated, Parses
<1>1. Lasting'
  BY DEF Sound, Lasting, Held, Named, Noded
<1>2. Passing'
  <2>1. Letting' /\ Accurate'
    BY DEF Sound, Passing, Letting, Accurate
  <2>2. Holding'
    BY DEF Sound, Passing, Holding
  <2>3. Persisting'
    BY DEF Sound, Passing, Persisting
  <2>4. QED
    BY <2>1, <2>2, <2>3 DEF Passing
<1>3. QED
  BY <1>1, <1>2 DEF Sound

\* The same for the objects alone, when no reconcile has let go of one.
LEMMA LastingFrame ==
  ASSUME Lasting, UNCHANGED metalMachine, pc # "patchSpec",
         Registered \subseteq Registered', Traced',
         \A m \in Machines : machines[m] = "own" => machines'[m] = "own"
  PROVE  Lasting'
BY DEF Lasting, Held, Named, Noded, Returned, Apart, Allocated, Parses

\* A call in the middle of a reconcile leaves the objects and its copy as they are.
LEMMA CallSound ==
  ASSUME Sound, pc \notin {"idle", "patchSpec", "patchStatus"}, pc' \notin {"idle", "patchStatus"},
         UNCHANGED <<metalMachine, cur, before>>, Lasting', Holding',
         ~obj'.finalizer => before.deleting /\ pc' = "patchSpec",
         pc' \in {"MachineFind", "MachineDelete"} =>
           before.deleting /\ obj'.providerID = before.providerID
  PROVE  Sound'
<1>1. Letting'
  BY DEF Sound, Passing, Letting, Live
<1>2. Accurate'
  BY DEF Sound, Passing, Accurate, Live
<1>3. Persisting'
  BY DEF Persisting
<1>4. QED
  BY <1>1, <1>2, <1>3 DEF Sound, Passing

LEMMA SoundReconcile ==
  ASSUME Inv, Sound, Undisturbed', NEW o \in Objects, Reconcile(o)
  PROVE  Sound'
<1> USE DEF local, kube, metal, Goto, Return
<1>1. /\ cached[o] = metalMachine[o] /\ metalMachine[o] \in MachineObject
      /\ pc = "idle" /\ UNCHANGED <<metalMachine, machines>>
      /\ Registered' = Registered /\ Traced'
  BY NotStruck, NodesStay DEF Reconcile, Inv, TypeOK, Sound, Lasting
<1>2. CASE UNCHANGED local
  BY <1>1, <1>2, SoundFrame
<1>3. CASE ~UNCHANGED local
  <2>1. /\ cur' = o /\ before' = metalMachine[o] /\ metalMachine[o].exists
        /\ obj' \in {metalMachine[o], [metalMachine[o] EXCEPT !.finalizer = TRUE]}
        /\ pc' \in {"MachineFind", "patchSpec", "MachineGet", "MachineCreate"}
        /\ pc' = "MachineFind" => metalMachine[o].deleting /\ obj' = metalMachine[o]
        /\ ~metalMachine[o].deleting => obj' = [metalMachine[o] EXCEPT !.finalizer = TRUE]
        /\ pc' = "MachineCreate" => ~Parses(metalMachine[o].providerID)
    BY <1>1, <1>3 DEF Reconcile, Resources
  <2>2. /\ metalMachine[o].deleting => metalMachine[o].finalizer
        /\ Parses(metalMachine[o].providerID) => metalMachine[o].finalizer
    BY <2>1 DEF Sound, Lasting, Held, Named
  <2>3. /\ obj'.finalizer
        /\ obj'.providerID = metalMachine[o].providerID /\ obj'.ready = metalMachine[o].ready
    BY <1>1, <2>1, <2>2 DEF MachineObject
  <2>4. Lasting'
    BY <1>1, LastingFrame DEF Sound
  <2>5. Letting' /\ Accurate' /\ Persisting'
    BY <1>1, <2>1, <2>2, <2>3 DEF Letting, Accurate, Persisting, Live
  <2>6. Holding'
    <3>1. ASSUME Parses(obj'.providerID)
          PROVE  Apart(metalMachine[o].providerID, o)' /\ Allocated(o, metalMachine[o].providerID)'
      BY <1>1, <2>1, <2>3, <2>4, <3>1 DEF Lasting, Named, Parses
    <3>2. ASSUME obj'.ready
          PROVE  obj'.providerID \in Registered'
      BY <1>1, <2>1, <2>3, <2>4, <3>2 DEF Lasting, Noded
    <3>3. QED
      BY <1>1, <2>1, <2>3, <3>1, <3>2
         DEF Holding, Parses, Apart, Allocated, Returned
  <2>7. QED
    BY <2>4, <2>5, <2>6 DEF Sound, Passing
<1>4. QED
  BY <1>2, <1>3

LEMMA SoundGet ==
  ASSUME Inv, Sound, MachineGet
  PROVE  Sound'
<1> USE DEF Goto, Return, metal, kube
<1>1. /\ pc = "MachineGet" /\ pc' \in {"MachineCreate", "setNodeProviderID", "patchSpec"}
      /\ UNCHANGED <<metalMachine, cur, before, obj, machines>>
      /\ pc' = "MachineCreate" => machines[obj.providerID] = "free"
      /\ Registered' = Registered /\ Traced'
  BY NodesStay DEF MachineGet, Sound, Lasting
<1>2. Lasting'
  BY <1>1, LastingFrame DEF Sound
<1>3. obj.finalizer
  BY <1>1 DEF Sound, Passing, Letting
<1>4. Holding'
  BY <1>1, <1>3
     DEF Sound, Passing, Holding, Parses, Apart, Allocated, Returned
<1>5. QED
  BY <1>1, <1>2, <1>3, <1>4, CallSound

LEMMA SoundCreate ==
  ASSUME Inv, Sound, Undisturbed', MachineCreate
  PROVE  Sound'
<1> USE DEF Goto, Return, metal, kube
<1>1. /\ pc = "MachineCreate" /\ pc' \in {"setNodeProviderID", "patchSpec"}
      /\ UNCHANGED <<metalMachine, cur, before>>
      /\ Registered' = Registered /\ Traced'
  BY NodesStay DEF MachineCreate, SetFailure, Fail, Sound, Lasting
<1>2. /\ obj \in MachineObject /\ machines \in [Machines -> {"free", "own", "foreign"}]
  BY DEF Inv, TypeOK
<1>3. obj.finalizer /\ ~Parses(obj.providerID) /\ ~obj.ready
  BY <1>1 DEF Sound, Passing, Letting, Holding, Registered, Parses
<1>4. CASE UNCHANGED machines
  <2>1. /\ obj'.finalizer = obj.finalizer /\ obj'.providerID = obj.providerID
        /\ obj'.ready = obj.ready
    <3>1. obj' \in {obj, [obj EXCEPT !.failure = TRUE]}
      BY <1>2, <1>4 DEF MachineCreate, SetFailure, Fail
    <3>2. QED
      BY <1>2, <3>1 DEF MachineObject
  <2>2. Lasting'
    BY <1>1, <1>4, LastingFrame DEF Sound
  <2>3. Holding'
    BY <1>1, <1>3, <2>1 DEF Sound, Passing, Holding, Parses
  <2>4. QED
    BY <1>1, <1>3, <2>1, <2>2, <2>3, CallSound
<1>5. CASE ~UNCHANGED machines
  <2>1. PICK m \in Machines :
          /\ machines[m] = "free" /\ machines' = [machines EXCEPT ![m] = "own"]
          /\ obj' = [obj EXCEPT !.providerID = m] /\ pc' = "setNodeProviderID"
    BY <1>5, NotStruck DEF MachineCreate, Created, Fail
  <2>2. obj'.finalizer /\ obj'.providerID = m /\ ~obj'.ready
    BY <1>2, <1>3, <2>1 DEF MachineObject
  <2>3. Lasting'
    BY <1>1, <1>2, <2>1, LastingFrame DEF Sound
  <2>4. \A o \in Objects : metalMachine[o].exists => metalMachine[o].providerID # m
    BY <1>1, <2>1 DEF Sound, Lasting, Named, Allocated, Returned, Parses
  <2>5. Apart(m, cur)' /\ Allocated(cur, m)'
    BY <1>1, <1>2, <2>1, <2>4 DEF Apart, Allocated
  <2>6. ~Parses(before.providerID)
    BY <1>1, <1>3 DEF Sound, Passing, Holding
  <2>7. Holding'
    BY <1>1, <2>1, <2>2, <2>5, <2>6 DEF Holding, Parses, Apart, Allocated, Returned
  <2>8. QED
    BY <1>1, <2>1, <2>2, <2>3, <2>7, CallSound
<1>6. QED
  BY <1>4, <1>5

LEMMA SoundNode ==
  ASSUME Inv, Sound, SetNodeProviderID
  PROVE  Sound'
<1> USE DEF Goto, Return, metal, kube
<1>1. /\ pc = "setNodeProviderID" /\ pc' = "patchSpec"
      /\ UNCHANGED <<metalMachine, cur, before, machines>>
  BY DEF SetNodeProviderID, Fail
<1>2. obj \in MachineObject /\ nodes \subseteq Node
  BY DEF Inv, TypeOK
<1>3. obj.finalizer
  BY <1>1 DEF Sound, Passing, Letting
<1>4. CASE UNCHANGED <<obj, nodes>>
  <2>1. Registered' = Registered /\ Traced'
    BY <1>1, <1>4, NodesStay DEF Sound, Lasting
  <2>2. Lasting'
    BY <1>1, <2>1, LastingFrame DEF Sound
  <2>3. Holding'
    BY <1>1, <1>3, <1>4, <2>1 DEF Sound, Passing, Holding, Parses, Apart, Allocated, Returned
  <2>4. QED
    BY <1>1, <1>3, <1>4, <2>2, <2>3, CallSound
<1>5. CASE ~UNCHANGED <<obj, nodes>>
  <2>1. PICK n \in nodes :
          /\ NodeMatches(n) /\ n.providerID \in {Nil, obj.providerID}
          /\ nodes' = (nodes \ {n}) \cup {[n EXCEPT !.providerID = obj.providerID]}
    BY <1>5 DEF SetNodeProviderID, Fail
  <2>2. Parses(obj.providerID) /\ obj' = [obj EXCEPT !.ready = TRUE]
    BY <1>5 DEF SetNodeProviderID, Fail
  <2>3. obj'.finalizer = obj.finalizer /\ obj'.providerID = obj.providerID
    BY <1>2, <2>2 DEF MachineObject
  <2> DEFINE named == [n EXCEPT !.providerID = obj.providerID]
  <2>4. /\ named.machine = n.machine /\ named.providerID = obj.providerID
        /\ named.running = n.running
    BY <1>2 DEF Node
  <2>5. Vacated' = Vacated
    BY <1>1 DEF Vacated, Lives
  <2>6. Traced'
    BY <2>1, <2>4, <2>5 DEF Sound, Lasting, Traced
  <2>7. Registered \subseteq Registered'
    <3> SUFFICES ASSUME NEW m \in Registered
                 PROVE  m \in Registered'
      OBVIOUS
    <3>1. m \in Machines /\ m # Nil
      BY MachineAssumptions DEF Registered, MachineAssumptions
    <3>2. CASE \E x \in Vacated : Fits(x, m)
      BY <2>5, <3>1, <3>2 DEF Registered
    <3>3. CASE \E k \in nodes : k.running /\ k.providerID = m /\ Fits(k.machine, m)
      <4>1. PICK k \in nodes : k.running /\ k.providerID = m /\ Fits(k.machine, m)
        BY <3>3
      <4>2. CASE k = n
        <5>1. named \in nodes' /\ named.running /\ named.providerID = m /\ Fits(named.machine, m)
          BY <2>1, <2>4, <3>1, <4>1, <4>2
        <5>2. QED
          BY <3>1, <5>1 DEF Registered
      <4>3. CASE k # n
        BY <2>1, <3>1, <4>1, <4>3 DEF Registered
      <4>4. QED
        BY <4>2, <4>3
    <3>4. QED
      BY <3>2, <3>3 DEF Registered
  <2>8. obj.providerID \in Registered'
    <3>1. Fits(n.machine, obj.providerID) /\ obj.providerID \in Machines
      BY <2>1, <2>2 DEF NodeMatches, Parses
    <3>2. CASE n.running
      <4>1. /\ named \in nodes' /\ named.running /\ named.providerID = obj.providerID
            /\ Fits(named.machine, obj.providerID)
        BY <2>1, <2>4, <3>1, <3>2
      <4>2. QED
        BY <3>1, <4>1 DEF Registered
    <3>3. CASE ~n.running
      <4>1. n.machine \in Vacated'
        BY <2>1, <2>5, <3>3 DEF Sound, Lasting, Traced
      <4>2. QED
        BY <3>1, <4>1 DEF Registered
    <3>4. QED
      BY <3>2, <3>3
  <2>9. Lasting'
    BY <1>1, <2>6, <2>7, LastingFrame DEF Sound
  <2>10. Holding'
    BY <1>1, <1>3, <2>2, <2>3, <2>8
       DEF Sound, Passing, Holding, Parses, Apart, Allocated, Returned
  <2>11. QED
    BY <1>1, <1>3, <2>3, <2>9, <2>10, CallSound
<1>6. QED
  BY <1>4, <1>5

LEMMA SoundFind ==
  ASSUME Inv, Sound, MachineFind
  PROVE  Sound'
<1> USE DEF Goto, Return, metal, kube
<1>1. /\ pc = "MachineFind" /\ pc' \in {"MachineDelete", "patchSpec"}
      /\ UNCHANGED <<metalMachine, cur, before, machines>>
      /\ Registered' = Registered /\ Traced'
  BY NodesStay DEF MachineFind, LetGo, Fail, Sound, Lasting
<1>2. Parses(obj.providerID)
  BY <1>1 DEF Inv, DeletesOwn
<1>3. /\ obj.finalizer /\ Found(obj.providerID)
      /\ before.deleting /\ obj.providerID = before.providerID
  BY <1>1, <1>2 DEF Sound, Passing, Letting, Holding, Allocated, Returned, Found
<1>4. UNCHANGED obj
  BY <1>3 DEF MachineFind, Fail
<1>5. Lasting'
  BY <1>1, LastingFrame DEF Sound
<1>6. Holding'
  BY <1>1, <1>3, <1>4
     DEF Sound, Passing, Holding, Parses, Apart, Allocated, Returned
<1>7. QED
  BY <1>1, <1>3, <1>4, <1>5, <1>6, CallSound

LEMMA SoundDelete ==
  ASSUME Inv, Sound, Undisturbed', MachineDelete
  PROVE  Sound'
<1> USE DEF Goto, Return, metal, kube
<1> DEFINE m == obj.providerID
<1>1. /\ pc = "MachineDelete" /\ pc' = "patchSpec"
      /\ UNCHANGED <<metalMachine, cur, before>>
  BY DEF MachineDelete, LetGo, DeleteRefused, Fail
<1>2. /\ obj \in MachineObject /\ Parses(m) /\ cur \in Objects
      /\ machines \in [Machines -> {"free", "own", "foreign"}]
      /\ nodes \subseteq Node
  BY <1>1 DEF Inv, TypeOK, DeletesOwn
<1>3. before.deleting /\ before.providerID = m /\ Apart(m, cur) /\ obj.finalizer
  BY <1>1, <1>2 DEF Sound, Passing, Letting, Holding
<1>4. CASE UNCHANGED <<obj, machines, nodes>>
  <2>1. Registered' = Registered /\ Traced'
    BY <1>1, <1>4, NodesStay DEF Sound, Lasting
  <2>2. Lasting'
    BY <1>1, <1>4, <2>1, LastingFrame DEF Sound
  <2>3. Holding'
    BY <1>1, <1>3, <1>4, <2>1 DEF Sound, Passing, Holding, Parses, Apart, Allocated, Returned
  <2>4. QED
    BY <1>1, <1>3, <1>4, <2>2, <2>3, CallSound
<1>5. CASE Freed(m) /\ LetGo
  <2>1. ~obj'.finalizer /\ obj'.providerID = m /\ obj'.ready = obj.ready
    BY <1>2, <1>5 DEF LetGo, MachineObject
  <2>2. Returned(cur)'
    BY <1>1, <2>1 DEF Returned
  <2>3. \A n \in Machines \ {m} : machines'[n] = machines[n]
    BY <1>2, <1>5 DEF Freed
  <2>4. Held'
    BY <1>1 DEF Sound, Lasting, Held
  <2>5. Named'
    <3> SUFFICES ASSUME NEW o \in Objects, metalMachine[o].exists,
                        Parses(metalMachine[o].providerID)
                 PROVE  /\ metalMachine[o].finalizer
                        /\ Allocated(o, metalMachine[o].providerID)'
                        /\ Apart(metalMachine[o].providerID, o)'
      BY <1>1 DEF Named, Parses
    <3>1. /\ metalMachine[o].finalizer /\ machines[metalMachine[o].providerID] = "own"
          /\ Apart(metalMachine[o].providerID, o)
      BY <1>1 DEF Sound, Lasting, Named, Allocated, Returned
    <3>2. o = cur \/ metalMachine[o].providerID # m
      BY <1>3 DEF Apart
    <3>3. Allocated(o, metalMachine[o].providerID)'
      BY <1>1, <2>2, <2>3, <3>1, <3>2 DEF Allocated, Returned, Parses
    <3>4. QED
      BY <1>1, <3>1, <3>3 DEF Apart
  <2>6. m \in Vacated /\ Vacated' = Vacated
    <3>1. Live.deleting /\ Live.providerID = m
      BY <1>1, <1>3 DEF Sound, Passing, Letting, Accurate
    <3>2. m \in Vacated
      BY <1>2, <3>1 DEF Vacated, Lives, Live, Parses
    <3>3. QED
      BY <1>1, <3>2 DEF Vacated, Lives
  <2>7. \A n \in nodes : [n EXCEPT !.running = n.running /\ n.machine # m] \in nodes'
    BY <1>5 DEF Freed
  <2>8. Traced'
    <3> SUFFICES ASSUME NEW k \in nodes', ~k.running
                 PROVE  k.machine \in Vacated
      BY <2>6 DEF Traced
    <3>1. PICK n \in nodes : k = [n EXCEPT !.running = n.running /\ n.machine # m]
      BY <1>5 DEF Freed
    <3>2. k.machine = n.machine /\ k.running = (n.running /\ n.machine # m)
      BY <1>2, <3>1 DEF Node
    <3>3. QED
      BY <2>6, <3>2 DEF Sound, Lasting, Traced
  <2>9. Registered \subseteq Registered'
    <3> SUFFICES ASSUME NEW r \in Registered
                 PROVE  r \in Registered'
      OBVIOUS
    <3>1. r \in Machines
      BY DEF Registered
    <3>2. CASE \E x \in Vacated : Fits(x, r)
      BY <2>6, <3>1, <3>2 DEF Registered
    <3>3. CASE \E n \in nodes : n.running /\ n.providerID = r /\ Fits(n.machine, r)
      <4>1. PICK n \in nodes : n.running /\ n.providerID = r /\ Fits(n.machine, r)
        BY <3>3
      <4>2. CASE n.machine = m
        BY <2>6, <3>1, <4>1, <4>2 DEF Registered
      <4>3. CASE n.machine # m
        <5> DEFINE k == [n EXCEPT !.running = n.running /\ n.machine # m]
        <5>1. k \in nodes' /\ k.running /\ k.providerID = r /\ k.machine = n.machine
          BY <1>2, <2>7, <4>1, <4>3 DEF Node
        <5>2. QED
          <6> HIDE DEF k
          <6>1. QED
            BY <3>1, <4>1, <5>1 DEF Registered
      <4>4. QED
        BY <4>2, <4>3
    <3>4. QED
      BY <3>2, <3>3 DEF Registered
  <2>10. Noded'
    BY <1>1, <2>9 DEF Sound, Lasting, Noded
  <2>11. Holding'
    <3>1. obj.ready => m \in Registered
      BY <1>1 DEF Sound, Passing, Holding
    <3>2. QED
      BY <1>1, <1>2, <1>3, <2>1, <2>2, <2>9, <3>1 DEF Holding, Parses, Apart, Allocated
  <2>12. QED
    BY <1>1, <1>3, <2>4, <2>5, <2>8, <2>10, <2>11, CallSound DEF Lasting
<1>6. QED
  BY <1>4, <1>5, NotStruck DEF MachineDelete, DeleteRefused, Fail

\* The first patch puts on record what the reconcile holds, or removes the object.
LEMMA SoundPatchSpec ==
  ASSUME Inv, Sound, Undisturbed', PatchSpec
  PROVE  Sound'
<1> USE DEF metal, kube
<1> DEFINE kept == obj.finalizer
           id == obj.providerID
<1>1. /\ pc = "patchSpec" /\ pc' = "patchStatus" /\ cur \in Objects
      /\ UNCHANGED <<cur, before, obj, machines, nodes>>
  BY DEF PatchSpec, Inv, DeletesOwn
<1>2. /\ metalMachine \in [Objects -> MachineObject] /\ Live \in MachineObject
      /\ before \in MachineObject /\ obj \in MachineObject
  BY <1>1 DEF Inv, TypeOK, Live
<1>3. /\ before.finalizer = Live.finalizer /\ before.providerID = Live.providerID
      /\ before.ready = Live.ready
      /\ before.deleting => before.finalizer /\ Live.deleting
      /\ ~kept => before.deleting
  BY <1>1 DEF Sound, Passing, Accurate, Letting
<1>4. /\ id # before.providerID => ~Parses(before.providerID)
      /\ Parses(id) => Apart(id, cur)
      /\ kept /\ Parses(id) => machines[id] = "own"
      /\ obj.ready => id \in Registered
  BY <1>1 DEF Sound, Passing, Holding, Allocated, Returned
<1>5. \A o \in Objects \ {cur} :
        metalMachine'[o] = metalMachine[o] /\ ~Returned(o) /\ ~Returned(o)'
  BY <1>1, <1>2 DEF PatchSpec, Returned
<1>6. /\ Live'.deleting = Live.deleting /\ Live'.ready = Live.ready
      /\ Live'.exists => kept /\ Live'.finalizer = kept /\ Live'.providerID = id /\ Live.exists
      /\ Live'.providerID \in {Live.providerID, id}
  <2>1. CASE SpecOf(obj) = SpecOf(before)
    <3>1. metalMachine' = metalMachine /\ kept = before.finalizer /\ id = before.providerID
      BY <2>1 DEF PatchSpec, SpecOf
    <3>2. Live' = Live
      BY <1>1, <3>1 DEF Live
    <3>3. kept
      BY <1>3, <3>1
    <3>4. QED
      BY <1>3, <3>1, <3>2, <3>3
  <2>2. CASE ~metalMachine[cur].exists /\ SpecOf(obj) # SpecOf(before)
    <3>1. Live' = Live /\ ~Live.exists
      BY <1>1, <2>2 DEF PatchSpec, Live
    <3>2. QED
      BY <3>1
  <2>3. CASE metalMachine[cur].exists /\ SpecOf(obj) # SpecOf(before)
    <3> DEFINE o == [Live EXCEPT !.finalizer = kept, !.providerID = id]
    <3>1. /\ kept \in BOOLEAN /\ id \in ProviderIDs
          /\ o \in MachineObject
      BY <1>2 DEF MachineObject
    <3>2. metalMachine' = [metalMachine EXCEPT ![cur] = PatchedSpec(metalMachine[cur])]
      BY <2>3, NotStruck DEF PatchSpec
    <3>3. Live' = PatchedSpec(Live)
      BY <1>1, <1>2, <3>2 DEF Live
    <3>4. /\ Merged(Live.finalizer, before.finalizer, kept) = kept
          /\ Merged(Live.providerID, before.providerID, id) = id
      BY <1>3 DEF Merged
    <3>5. PatchedSpec(Live) = [o EXCEPT !.exists = ~o.deleting \/ o.finalizer]
      BY <3>4 DEF PatchedSpec
    <3>6. /\ o.deleting = Live.deleting /\ o.ready = Live.ready
          /\ o.finalizer = kept /\ o.providerID = id
      BY <1>2 DEF MachineObject
    <3>7. /\ Live'.deleting = Live.deleting /\ Live'.ready = Live.ready
          /\ Live'.finalizer = kept /\ Live'.providerID = id
          /\ Live'.exists = (~Live.deleting \/ kept)
      <4> HIDE DEF o
      <4>1. QED
        BY <3>1, <3>3, <3>5, <3>6 DEF MachineObject
    <3>8. Live'.exists => kept
      BY <1>3, <3>7
    <3>9. Live.exists
      BY <2>3 DEF Live
    <3>10. QED
      BY <3>7, <3>8, <3>9
  <2>4. QED
    BY <2>1, <2>2, <2>3
<1>7. Live' = metalMachine'[cur]
  BY <1>1 DEF Live
<1> HIDE DEF kept, id
<1>8. Held'
  <2>1. Live.exists /\ Live.deleting => Live.finalizer
    BY <1>1 DEF Sound, Lasting, Held, Live
  <2>2. Live'.exists /\ Live'.deleting => Live'.finalizer
    BY <1>6
  <2>3. QED
    BY <1>5, <1>7, <2>2 DEF Sound, Lasting, Held
<1>9. Named'
  <2> SUFFICES ASSUME NEW o \in Objects, metalMachine'[o].exists,
                      Parses(metalMachine'[o].providerID)
               PROVE  /\ metalMachine'[o].finalizer
                      /\ Allocated(o, metalMachine[o].providerID)'
                      /\ Apart(metalMachine[o].providerID, o)'
    BY DEF Named, Parses
  <2>1. CASE o = cur
    <3>1. kept /\ metalMachine'[o].finalizer = kept /\ metalMachine'[o].providerID = id
      BY <1>6, <1>7, <2>1
    <3>2. machines'[metalMachine'[o].providerID] = "own"
      BY <1>1, <1>4, <3>1
    <3>3. Apart(id, cur)
      BY <1>4, <3>1
    <3>4. \A p \in Objects \ {o} : metalMachine'[p].exists => metalMachine'[p].providerID # id
      BY <1>5, <2>1, <3>3 DEF Apart
    <3>5. QED
      BY <3>1, <3>2, <3>4 DEF Allocated, Apart
  <2>2. CASE o # cur
    <3>1. /\ metalMachine[o].finalizer /\ machines[metalMachine[o].providerID] = "own"
          /\ Apart(metalMachine[o].providerID, o)
      BY <1>5, <2>2 DEF Sound, Lasting, Named, Allocated
    <3>2. metalMachine'[cur].exists => metalMachine'[cur].providerID # metalMachine[o].providerID
      BY <1>4, <1>5, <1>6, <1>7, <2>2 DEF Apart
    <3>3. \A p \in Objects \ {o} :
            metalMachine'[p].exists => metalMachine'[p].providerID # metalMachine[o].providerID
      BY <1>5, <3>1, <3>2 DEF Apart
    <3>4. QED
      BY <1>1, <1>5, <2>2, <3>1, <3>3 DEF Allocated, Apart
  <2>3. QED
    BY <2>1, <2>2
<1>10. Registered \subseteq Registered' /\ Traced' /\ Noded'
  <2>1. Parses(Live.providerID) => Live'.providerID = Live.providerID
    BY <1>3, <1>4, <1>6
  <2>2. Vacated \subseteq Vacated'
    <3> SUFFICES ASSUME NEW x \in Machines, NEW p \in Objects, ~Lives(p),
                        metalMachine[p].providerID = x
                 PROVE  ~Lives(p)' /\ metalMachine'[p].providerID = x
      BY DEF Vacated
    <3>1. CASE p = cur
      BY <1>6, <1>7, <2>1, <3>1 DEF Lives, Live, Parses
    <3>2. CASE p # cur
      BY <1>5, <3>2 DEF Lives
    <3>3. QED
      BY <3>1, <3>2
  <2>3. Registered \subseteq Registered' /\ Traced'
    BY <1>1, <2>2, NodesKept DEF Sound, Lasting
  <2>4. ASSUME NEW o \in Objects, metalMachine'[o].exists, metalMachine'[o].ready
        PROVE  metalMachine'[o].providerID \in Registered
    <3>1. CASE o = cur
      <4>1. Live.exists /\ Live.ready
        BY <1>6, <1>7, <2>4, <3>1
      <4>2. Live.providerID \in Registered
        BY <1>1, <4>1 DEF Sound, Lasting, Noded, Live
      <4>3. QED
        BY <1>7, <2>1, <3>1, <4>2 DEF Registered, Parses
    <3>2. CASE o # cur
      BY <1>5, <2>4, <3>2 DEF Sound, Lasting, Noded
    <3>3. QED
      BY <3>1, <3>2
  <2>5. QED
    BY <2>3, <2>4 DEF Noded
<1>11. Letting' /\ Accurate' /\ Holding'
  <2>1. before.deleting => Live.deleting
    BY <1>3
  <2>2. QED
    BY <1>1, <1>3, <1>6, <2>1 DEF Letting, Accurate, Holding, kept
<1>12. Persisting'
  BY <1>1, <1>3, <1>4, <1>6, <1>10 DEF Persisting, kept, id
<1>13. QED
  BY <1>8, <1>9, <1>10, <1>11, <1>12 DEF Sound, Lasting, Passing

\* The second one reports ready what the first has put on record.
LEMMA SoundPatchStatus ==
  ASSUME Inv, Sound, Undisturbed', PatchStatus
  PROVE  Sound'
<1> USE DEF metal, kube
<1>1. /\ pc = "patchStatus" /\ pc' = "idle" /\ cur \in Objects
      /\ UNCHANGED <<machines, nodes>>
  BY DEF PatchStatus, Inv, DeletesOwn
<1>2. Passing'
  BY <1>1 DEF Passing, Letting, Accurate, Holding, Persisting
<1>3. CASE UNCHANGED metalMachine
  BY <1>1, <1>2, <1>3, NodesStay, LastingFrame DEF Sound, Lasting
<1>4. CASE ~UNCHANGED metalMachine
  <2>1. /\ metalMachine[cur].exists
        /\ metalMachine' = [metalMachine EXCEPT ![cur] = PatchedStatus(metalMachine[cur])]
    BY <1>4, NotStruck DEF PatchStatus
  <2>2. metalMachine \in [Objects -> MachineObject] /\ metalMachine[cur] \in MachineObject
    BY <1>1 DEF Inv, TypeOK
  <2>3. \A o \in Objects \ {cur} : metalMachine'[o] = metalMachine[o]
    BY <2>1, <2>2
  <2>4. /\ metalMachine'[cur].exists = metalMachine[cur].exists
        /\ metalMachine'[cur].deleting = metalMachine[cur].deleting
        /\ metalMachine'[cur].finalizer = metalMachine[cur].finalizer
        /\ metalMachine'[cur].providerID = metalMachine[cur].providerID
        /\ metalMachine'[cur].ready = Merged(metalMachine[cur].ready, before.ready, obj.ready)
    BY <1>1, <2>1, <2>2 DEF PatchedStatus, MachineObject
  <2>5. \A o \in Objects :
          /\ metalMachine'[o].exists = metalMachine[o].exists
          /\ metalMachine'[o].deleting = metalMachine[o].deleting
          /\ metalMachine'[o].finalizer = metalMachine[o].finalizer
          /\ metalMachine'[o].providerID = metalMachine[o].providerID
    BY <2>3, <2>4
  <2>6. Held'
    BY <2>5 DEF Sound, Lasting, Held
  <2>7. Named'
    BY <1>1, <2>5 DEF Sound, Lasting, Named, Apart, Allocated, Returned, Parses
  <2>8. Registered \subseteq Registered' /\ Traced'
    <3>1. Vacated \subseteq Vacated'
      BY <2>5 DEF Vacated, Lives
    <3>2. QED
      BY <1>1, <3>1, NodesKept DEF Sound, Lasting
  <2>9. Noded'
    <3> SUFFICES ASSUME NEW o \in Objects, metalMachine'[o].exists, metalMachine'[o].ready
                 PROVE  metalMachine'[o].providerID \in Registered'
      BY DEF Noded
    <3>1. CASE metalMachine'[o].ready = metalMachine[o].ready
      BY <2>5, <2>8, <3>1 DEF Sound, Lasting, Noded
    <3>2. CASE o = cur /\ metalMachine'[o].ready # metalMachine[o].ready
      <4>1. metalMachine'[o].ready = obj.ready /\ metalMachine[o].providerID = obj.providerID
        BY <1>1, <2>1, <2>4, <3>2 DEF Sound, Passing, Persisting, Live, Merged
      <4>2. obj.providerID \in Registered
        BY <1>1, <2>1, <3>2, <4>1 DEF Sound, Passing, Persisting, Live
      <4>3. QED
        BY <2>5, <2>8, <4>1, <4>2
    <3>3. QED
      BY <2>3, <3>1, <3>2
  <2>10. QED
    BY <1>2, <2>6, <2>7, <2>9, <2>8 DEF Sound, Lasting
<1>5. QED
  BY <1>3, <1>4

\* Deletion marks an object that has a finalizer and removes one that has none.
LEMMA SoundDeleteMachine ==
  ASSUME Inv, Sound, NEW d \in Objects, DeleteMachine(d)
  PROVE  Sound'
<1> USE DEF kube, metal, local
<1>1. UNCHANGED <<pc, cur, before, obj, machines, nodes>> /\ metalMachine[d].exists
  BY DEF DeleteMachine
<1>2. metalMachine \in [Objects -> MachineObject] /\ (pc # "idle" => cur \in Objects)
  BY DEF Inv, TypeOK, DeletesOwn
<1>3. \A o \in Objects \ {d} : metalMachine'[o] = metalMachine[o]
  BY <1>2 DEF DeleteMachine
<1>4. /\ metalMachine'[d].finalizer = metalMachine[d].finalizer
      /\ metalMachine'[d].providerID = metalMachine[d].providerID
      /\ metalMachine'[d].ready = metalMachine[d].ready
      /\ metalMachine[d].deleting => metalMachine'[d].deleting
      /\ metalMachine'[d].exists = metalMachine[d].finalizer
  <2>0. metalMachine[d] \in MachineObject /\ ~metalMachine[d].deleting
    BY <1>2 DEF DeleteMachine
  <2>1. CASE metalMachine[d].finalizer
    <3>1. metalMachine'[d] = [metalMachine[d] EXCEPT !.deleting = TRUE]
      BY <1>2, <2>1 DEF DeleteMachine
    <3>2. QED
      BY <1>1, <2>0, <2>1, <3>1 DEF MachineObject
  <2>2. CASE ~metalMachine[d].finalizer
    <3>1. metalMachine'[d] = [metalMachine[d] EXCEPT !.exists = FALSE]
      BY <1>2, <2>2 DEF DeleteMachine
    <3>2. QED
      BY <2>0, <2>2, <3>1 DEF MachineObject
  <2>3. QED
    BY <2>1, <2>2
<1>5. \A o \in Objects :
        /\ metalMachine'[o].finalizer = metalMachine[o].finalizer
        /\ metalMachine'[o].providerID = metalMachine[o].providerID
        /\ metalMachine'[o].ready = metalMachine[o].ready
        /\ metalMachine[o].deleting => metalMachine'[o].deleting
        /\ metalMachine'[o].exists => metalMachine[o].exists
        /\ metalMachine[o].finalizer => metalMachine'[o].exists = metalMachine[o].exists
  BY <1>1, <1>3, <1>4
<1>6. Held'
  BY <1>3, <1>4 DEF Sound, Lasting, Held
<1>7. Registered \subseteq Registered' /\ Traced'
  <2>1. Vacated \subseteq Vacated'
    BY <1>5 DEF Vacated, Lives
  <2>2. QED
    BY <1>1, <2>1, NodesKept DEF Sound, Lasting
<1>8. Named' /\ Noded'
  BY <1>1, <1>5, <1>7 DEF Sound, Lasting, Named, Noded, Apart, Allocated, Returned, Parses
<1>9. Letting' /\ Accurate'
  BY <1>1, <1>2, <1>5 DEF Sound, Passing, Letting, Accurate, Live, Parses
<1>10. Holding'
  BY <1>1, <1>5, <1>7 DEF Sound, Passing, Holding, Apart, Allocated, Returned, Parses
<1>11. Persisting'
  BY <1>1, <1>2, <1>5, <1>7 DEF Sound, Passing, Persisting, Live
<1>12. QED
  BY <1>6, <1>7, <1>8, <1>9, <1>10, <1>11 DEF Sound, Lasting, Passing

LEMMA SoundController ==
  ASSUME Inv, Sound, Undisturbed', Controller
  PROVE  Sound'
BY SoundReconcile, SoundGet, SoundCreate, SoundNode, SoundFind, SoundDelete, SoundPatchSpec,
   SoundPatchStatus DEF Controller

\* Other projects take free machines only, and only a node that does not run is removed.
LEMMA SoundEnvironment ==
  ASSUME Inv, Sound, Undisturbed', Environment
  PROVE  Sound'
<1>1. CASE \E o \in Objects : DeleteMachine(o)
  BY <1>1, SoundDeleteMachine
<1>2. CASE (\E m \in Machines : NodeJoins(m)) \/ (\E n \in nodes : NodeDeleted(n))
  <2>1. UNCHANGED <<metalMachine, local, machines>>
    BY <1>2 DEF NodeJoins, NodeDeleted
  <2>2. Vacated' = Vacated
    BY <2>1 DEF Vacated, Lives
  <2>3. /\ \A n \in nodes : n.running => n \in nodes'
        /\ \A n \in nodes' : n.running \/ n \in nodes
    BY <1>2 DEF NodeJoins, NodeDeleted
  <2>4. Registered \subseteq Registered' /\ Traced'
    BY <2>2, <2>3 DEF Registered, Sound, Lasting, Traced
  <2>5. QED
    BY <2>1, <2>4, SoundFrame
<1>3. CASE /\ ~\E o \in Objects : DeleteMachine(o)
           /\ ~\E m \in Machines : NodeJoins(m)
           /\ ~\E n \in nodes : NodeDeleted(n)
  <2> USE DEF kube, metal, local
  <2>1. UNCHANGED <<metalMachine, local, nodes>>
    BY <1>3, NotStruck DEF Environment, Crash, Refresh, SetOwnerRef, SetBootstrap,
       NetworkRecorded, AddressRecorded, ClusterGone, InfrastructureReady, TogglePause,
       ClusterMoves, ForeignMoves
  <2>2. machines \in [Machines -> {"free", "own", "foreign"}]
    BY DEF Inv, TypeOK
  <2>3. ASSUME NEW m \in Machines, machines[m] = "own"
        PROVE  machines'[m] = "own"
    <3>1. CASE UNCHANGED machines
      BY <2>3, <3>1
    <3>2. CASE \E n \in Foreign : \/ ForeignMoves(n, "free", "foreign")
                                  \/ ForeignMoves(n, "foreign", "free")
      BY <2>2, <2>3, <3>2 DEF ForeignMoves
    <3>3. QED
      BY <1>3, <3>1, <3>2, NotStruck DEF Environment, Crash, Refresh, SetOwnerRef, SetBootstrap,
         NetworkRecorded, AddressRecorded, ClusterGone, InfrastructureReady, TogglePause,
         ClusterMoves
  <2>4. Registered' = Registered /\ Traced'
    BY <2>1, NodesStay DEF Sound, Lasting
  <2>5. QED
    BY <2>1, <2>3, <2>4, SoundFrame
<1>4. QED
  BY <1>1, <1>2, <1>3

LEMMA SoundInit ==
  ASSUME Init, Presets \subseteq [Objects -> {Nil, Malformed}]
  PROVE  Sound
<1>1. PICK preset \in Presets : metalMachine = [o \in Objects |-> NewMachine(preset[o])]
  BY DEF Init
<1>2. \A o \in Objects :
        /\ metalMachine[o].exists /\ ~metalMachine[o].deleting /\ ~metalMachine[o].ready
        /\ metalMachine[o].providerID \in {Nil, Malformed}
  BY <1>1 DEF NewMachine
<1>3. Lasting
  BY <1>2, MachineAssumptions DEF Init, Lasting, Held, Named, Noded, Traced, Parses,
     MachineAssumptions
<1>4. Passing
  BY DEF Init, Passing, Letting, Accurate, Holding, Persisting
<1>5. QED
  BY <1>3, <1>4 DEF Sound

\* The invariant, for users who name no machines.
LEMMA SoundHolds ==
  ASSUME Presets \subseteq [Objects -> {Nil, Malformed}]
  PROVE  Spec => [](Undisturbed => Sound)
<1> DEFINE S == Undisturbed => Sound
<1>1. Init => S
  BY SoundInit
<1>2. Inv /\ S /\ [Next]_vars => S'
  <2> SUFFICES ASSUME Inv, Undisturbed => Sound, [Next]_vars, Undisturbed'
               PROVE  Sound'
    OBVIOUS
  <2>1. Sound
    BY UndisturbedBefore
  <2>2. CASE Next
    BY <2>1, <2>2, SoundController, SoundEnvironment DEF Next
  <2>3. CASE UNCHANGED vars
    BY <2>1, <2>3, NodesStay, SoundFrame DEF vars, metal, Sound, Lasting
  <2>4. QED
    BY <2>2, <2>3
<1>3. QED
  BY <1>1, <1>2, InvHolds, PTL DEF Spec

\* While no reply, patch or manager is lost and no reconcile starts from an old copy,
\* an object that is ready, and not deleted, has a machine of this cluster for itself, and
\* a node runs that carries its provider ID and belongs to its machine, or reports no UUID;
\* or a node was taken for it that a sibling on the same machine, or on one whose node
\* reports none, has left behind.  Users must not name machines in provider IDs, which
\* siblings may share.
THEOREM ReadyHolds ==
  ASSUME Presets \subseteq [Objects -> {Nil, Malformed}]
  PROVE  Spec => []ReadyHasNode
<1>1. (Undisturbed => Sound) => ReadyHasNode
  <2> SUFFICES ASSUME Undisturbed, Sound, NEW o \in Objects, Lives(o), metalMachine[o].ready
               PROVE  LET id == metalMachine[o].providerID
                      IN  /\ Parses(id) /\ machines[id] = "own"
                          /\ \A p \in Objects \ {o} :
                               metalMachine[p].exists => metalMachine[p].providerID # id
                          /\ \/ \E n \in nodes : n.running /\ n.providerID = id
                                               /\ Fits(n.machine, id)
                             \/ LeftBehind(o, id)
    BY DEF ReadyHasNode
  <2> DEFINE id == metalMachine[o].providerID
  <2>1. metalMachine[o].exists /\ ~metalMachine[o].deleting
    BY DEF Lives
  <2>2. ~Returned(o)
    BY <2>1 DEF Sound, Passing, Letting, Live, Returned
  <2>3. id \in Registered /\ Parses(id)
    BY <2>1 DEF Sound, Lasting, Noded, Registered, Parses
  <2>4. machines[id] = "own" /\ Apart(id, o)
    BY <2>1, <2>2, <2>3 DEF Sound, Lasting, Named, Allocated
  <2>5. ASSUME NEW x \in Vacated, Fits(x, id)
        PROVE  LeftBehind(o, id)
    <3>1. PICK p \in Objects : ~Lives(p) /\ metalMachine[p].providerID = x
      BY DEF Vacated
    <3>2. QED
      BY <2>5, <3>1 DEF LeftBehind
  <2>6. QED
    BY <2>3, <2>4, <2>5 DEF Apart, Registered
<1>2. QED
  BY <1>1, SoundHolds, PTL

\* As long as the controller works undisturbed and users name no machines, no deletion
\* takes the machine of a sibling, whether or not nodes report their UUID, although a
\* machine that was given back is handed out again at once and the search by ID and
\* tag cannot tell siblings apart.
THEOREM SiblingsKept ==
  ASSUME Presets \subseteq [Objects -> {Nil, Malformed}]
  PROVE  Spec => NoSiblingDelete
<1>1. Inv /\ (Undisturbed => Sound) =>
        [Undisturbed /\ MachineDelete => \A o \in Objects \ {cur} :
           metalMachine[o].exists => metalMachine[o].providerID # obj.providerID]_vars
  BY DEF MachineDelete, Inv, DeletesOwn, Sound, Passing, Holding, Apart
<1>2. QED
  BY <1>1, InvHolds, SoundHolds, PTL DEF NoSiblingDelete

-----------------------------------------------------------------------------
(* Nothing is forgotten.  Objects that lack something are dropped from the *)
(* queue, so the invariant has to say what is there by the time an object  *)
(* has its owner and its bootstrap secret, besides following the duty to   *)
(* look at it again from the queue to the reconcile in flight and back.    *)

\* What the informer's copies know of the objects.
Seen == \A o \in Objects :
  /\ metalMachine[o].exists => cached[o].exists
  /\ cached[o].exists /\ cached[o].deleting => cached[o].finalizer
  /\ cached[o].deleting => metalMachine[o].deleting
  /\ cached[o].failure => metalMachine[o].failure
  /\ cached[o].ready => metalMachine[o].ready

\* What the reconcile in flight knows of its object.
Carried ==
  IF pc = "idle" THEN cur = Nil
  ELSE /\ cur \in Objects
       /\ cur \notin queued => before = cached[cur]
       /\ ~before.failure
       /\ before.deleting => Live.deleting
       /\ before.ready => obj.ready /\ Live.ready

\* A reconcile that does not ask for another one has set ready, or it drops the finalizer
\* of an object under deletion.
Course ==
  /\ pc \in {"MachineGet", "MachineCreate", "setNodeProviderID"} => ~before.deleting
  /\ pc \in {"MachineFind", "MachineDelete"} => before.deleting /\ before.finalizer
  /\ pc = "patchSpec" /\ ~again =>
       IF before.deleting THEN before.finalizer /\ ~obj.finalizer ELSE obj.ready
  /\ pc = "patchStatus" /\ ~again /\ Live.exists => ~before.deleting /\ obj.ready

\* A bootstrap secret comes after the infrastructure, and this after the address.
Timely ==
  /\ bootstrap # {} => infrastructureReady
  /\ Fresh /\ infrastructureReady => metalCluster \in {"addressed", "gone"}

\* What is neither queued nor in the worker's hands is finished or lacks something.
Awake ==
  Fresh /\ metalCluster # "gone" => \A o \in owned \cap bootstrap :
    o \in Objects \ queued /\ cur # o /\ metalMachine[o].exists /\ ~metalMachine[o].failure =>
      metalMachine[o].ready /\ ~cached[o].deleting

Driven == Held /\ Seen /\ Carried /\ Course /\ Timely /\ Awake

LEMMA DrivenInit == Init => Driven
<1> SUFFICES ASSUME Init PROVE Driven
  OBVIOUS
<1>1. PICK preset \in Presets : metalMachine = [o \in Objects |-> NewMachine(preset[o])]
  BY DEF Init
<1>2. \A o \in Objects : ~metalMachine[o].deleting
  BY <1>1 DEF NewMachine
<1>3. QED
  BY <1>2 DEF Init, Driven, Held, Seen, Carried, Course, Timely, Awake

\* A new process looks at every object.
LEMMA DrivenRestart ==
  ASSUME Driven, Restart, UNCHANGED <<metalMachine, kube>>, Fresh' => Fresh
  PROVE  Driven'
BY DEF Restart, kube, Driven, Held, Seen, Carried, Course, Timely, Awake, Live

\* A call in the middle of a reconcile leaves the objects and their copies alone.
LEMMA DrivenOn ==
  ASSUME Driven, Fresh' => Fresh, pc # "idle", pc' # "idle", Course', before.ready => obj'.ready,
         UNCHANGED <<metalMachine, cached, kube, cur, before, queued>>
  PROVE  Driven'
BY DEF kube, Driven, Held, Seen, Carried, Timely, Awake, Live

LEMMA DrivenReconcile ==
  ASSUME Inv, Driven, Fresh' => Fresh, NEW o \in Objects, Reconcile(o)
  PROVE  Driven'
<1> USE DEF kube, metal, local, Goto, Return
<1>1. UNCHANGED <<metalMachine, cached, kube>> /\ pc = "idle" /\ cur = Nil
  BY DEF Reconcile, Driven, Carried
<1>2. Held' /\ Seen' /\ Timely'
  BY <1>1 DEF Driven, Held, Seen, Timely
<1>3. cached[o] \in MachineObject
  BY DEF Inv, TypeOK
<1>4. CASE UNCHANGED <<local, queued>>
  BY <1>1, <1>2, <1>4 DEF Driven, Carried, Course, Awake, Live
<1>5. CASE ~Resources(o) /\ UNCHANGED local /\ queued' = queued \ {o}
  <2>1. ASSUME Fresh', metalCluster # "gone", o \in owned \cap bootstrap,
               metalMachine[o].exists, ~metalMachine[o].failure
        PROVE  FALSE
    <3>1. metalCluster = "addressed" /\ infrastructureReady
      BY <2>1 DEF Driven, Timely
    <3>2. cached[o].exists /\ ~cached[o].failure
      BY <2>1 DEF Driven, Seen
    <3>3. QED
      BY <1>5, <2>1, <3>1, <3>2 DEF Resources
  <2>2. Awake'
    BY <1>1, <1>5, <2>1 DEF Driven, Awake
  <2>3. QED
    BY <1>1, <1>2, <1>5, <2>2 DEF Driven, Carried, Course
<1>6. CASE Resources(o) /\ cur' = o /\ queued' = queued \ {o}
  <2>1. /\ before' = cached[o] /\ cached[o].exists /\ ~cached[o].failure
        /\ obj' \in {cached[o], [cached[o] EXCEPT !.finalizer = TRUE]}
        /\ \/ pc' = "patchSpec" /\ again'
           \/ pc' = "MachineFind" /\ cached[o].deleting
           \/ pc' \in {"MachineGet", "MachineCreate"} /\ ~cached[o].deleting
    BY <1>1, <1>6, MachineAssumptions DEF Reconcile, Resources, MachineAssumptions
  <2>2. obj'.ready = cached[o].ready
    BY <1>3, <2>1 DEF MachineObject
  <2>3. Carried'
    BY <1>1, <1>6, <2>1, <2>2 DEF Driven, Seen, Carried, Live
  <2>4. Course'
    BY <1>1, <2>1 DEF Driven, Seen, Course
  <2>5. Awake'
    BY <1>1, <1>6, MachineAssumptions DEF Driven, Awake, MachineAssumptions
  <2>6. QED
    BY <1>2, <2>3, <2>4, <2>5 DEF Driven
<1>7. QED
  BY <1>4, <1>5, <1>6 DEF Reconcile

LEMMA DrivenCall ==
  ASSUME Inv, Driven, Fresh' => Fresh,
         MachineGet \/ MachineCreate \/ SetNodeProviderID \/ MachineFind \/ MachineDelete
  PROVE  Driven'
<1> USE DEF kube, metal, Goto, Return, Fail
<1>0. obj \in MachineObject
  BY DEF Inv, TypeOK
<1>1. UNCHANGED <<metalMachine, cached, kube, cur, before, queued>> /\ pc # "idle" /\ pc' # "idle"
  BY DEF MachineGet, MachineCreate, SetNodeProviderID, MachineFind, MachineDelete, SetFailure,
         LetGo, DeleteRefused
<1>2. before.ready => obj.ready
  BY <1>1 DEF Driven, Carried
<1>3. CASE MachineGet \/ MachineCreate
  <2>1. /\ pc \in {"MachineGet", "MachineCreate"}
        /\ \/ pc' \in {"MachineCreate", "setNodeProviderID"}
           \/ pc' = "patchSpec" /\ again'
    BY <1>3 DEF MachineGet, MachineCreate, SetFailure
  <2>2. \/ obj' \in {obj, [obj EXCEPT !.failure = TRUE]}
        \/ \E m \in Machines : obj' = [obj EXCEPT !.providerID = m]
    BY <1>3 DEF MachineGet, MachineCreate, SetFailure, Created
  <2>3. obj'.ready = obj.ready
    BY <1>0, <2>2 DEF MachineObject
  <2>4. Course'
    BY <1>1, <2>1 DEF Driven, Course
  <2>5. QED
    BY <1>1, <1>2, <2>3, <2>4, DrivenOn
<1>4. CASE SetNodeProviderID
  <2>1. /\ pc = "setNodeProviderID" /\ pc' = "patchSpec"
        /\ obj' = [obj EXCEPT !.ready = TRUE] \/ (obj' = obj /\ again')
    BY <1>4 DEF SetNodeProviderID
  <2>2. (obj'.ready \/ again') /\ (before.ready => obj'.ready)
    BY <1>0, <1>2, <2>1 DEF MachineObject
  <2>3. Course'
    BY <1>1, <2>1, <2>2 DEF Driven, Course
  <2>4. QED
    BY <1>1, <2>2, <2>3, DrivenOn
<1>5. CASE MachineFind \/ MachineDelete
  <2>1. /\ pc \in {"MachineFind", "MachineDelete"}
        /\ \/ pc' = "MachineDelete" /\ obj' = obj
           \/ pc' = "patchSpec" /\ again' /\ obj' = obj
           \/ pc' = "patchSpec" /\ obj' = [obj EXCEPT !.finalizer = FALSE]
    BY <1>5 DEF MachineFind, MachineDelete, LetGo, DeleteRefused
  <2>2. /\ obj'.ready = obj.ready
        /\ obj' = [obj EXCEPT !.finalizer = FALSE] => ~obj'.finalizer
    BY <1>0, <2>1 DEF MachineObject
  <2>3. Course'
    BY <1>1, <2>1, <2>2 DEF Driven, Course
  <2>4. QED
    BY <1>1, <1>2, <2>2, <2>3, DrivenOn
<1>6. QED
  BY <1>3, <1>4, <1>5

\* What one patch makes of the object's other fields.
LEMMA PatchFields ==
  ASSUME NEW live \in MachineObject
  PROVE  /\ PatchedSpec(live).deleting = live.deleting
         /\ PatchedSpec(live).ready = live.ready /\ PatchedSpec(live).failure = live.failure
         /\ PatchedSpec(live).finalizer = Merged(live.finalizer, before.finalizer, obj.finalizer)
         /\ PatchedSpec(live).exists <=> ~live.deleting \/ PatchedSpec(live).finalizer
         /\ PatchedStatus(live).exists = live.exists
         /\ PatchedStatus(live).deleting = live.deleting
         /\ PatchedStatus(live).finalizer = live.finalizer
         /\ PatchedStatus(live).ready = Merged(live.ready, before.ready, obj.ready)
         /\ PatchedStatus(live).failure = Merged(live.failure, before.failure, obj.failure)
BY DEF PatchedSpec, PatchedStatus, MachineObject

LEMMA DrivenPatchSpec ==
  ASSUME Inv, Driven, Fresh' => Fresh, PatchSpec
  PROVE  Driven'
<1> USE DEF kube, metal
<1>1. /\ UNCHANGED <<cached, kube, cur, before, obj, queued>>
      /\ pc = "patchSpec" /\ pc' = "patchStatus" /\ cur \in Objects
  BY DEF PatchSpec, Inv, DeletesOwn
<1>2. /\ metalMachine \in [Objects -> MachineObject] /\ Live \in MachineObject
      /\ before \in MachineObject /\ obj \in MachineObject
  BY <1>1 DEF Inv, TypeOK, Live
<1>3. CASE /\ metalMachine' = metalMachine
           /\ again' \/ (UNCHANGED again /\ SpecOf(obj) = SpecOf(before))
  <2>1. Course'
    BY <1>1, <1>3 DEF SpecOf, Driven, Course, Live
  <2>2. QED
    BY <1>1, <1>3, <2>1 DEF Driven, Held, Seen, Carried, Timely, Awake, Live
<1>4. CASE /\ metalMachine' = [metalMachine EXCEPT ![cur] = PatchedSpec(@)]
           /\ UNCHANGED again /\ Live.exists
  <2>1. Live' = PatchedSpec(Live) /\ \A p \in Objects \ {cur} : metalMachine'[p] = metalMachine[p]
    BY <1>1, <1>2, <1>4 DEF Live
  <2>2. /\ Live'.deleting = Live.deleting /\ Live'.ready = Live.ready
        /\ Live'.failure = Live.failure
        /\ Live'.finalizer = Merged(Live.finalizer, before.finalizer, obj.finalizer)
        /\ Live'.exists <=> ~Live'.deleting \/ Live'.finalizer
    BY <1>2, <2>1, PatchFields
  <2>3. \A p \in Objects : /\ metalMachine'[p].exists => metalMachine[p].exists
                           /\ metalMachine'[p].deleting = metalMachine[p].deleting
                           /\ metalMachine'[p].ready = metalMachine[p].ready
                           /\ metalMachine'[p].failure = metalMachine[p].failure
    BY <1>1, <1>4, <2>1, <2>2 DEF Live
  <2>4. Held' /\ Seen'
    BY <1>1, <2>1, <2>2, <2>3 DEF Driven, Held, Seen, Live
  <2>5. Carried'
    BY <1>1, <2>2 DEF Driven, Carried
  <2>6. Course'
    <3>1. ASSUME ~again, before.deleting
          PROVE  ~Live'.exists
      <4>1. before.finalizer /\ ~obj.finalizer /\ Live.deleting
        BY <1>1, <3>1 DEF Driven, Course, Carried
      <4>2. QED
        BY <1>2, <2>2, <4>1 DEF Merged, MachineObject
    <3>2. QED
      BY <1>1, <1>4, <3>1 DEF Driven, Course
  <2>7. Awake'
    BY <1>1, <2>3 DEF Driven, Awake
  <2>8. QED
    BY <1>1, <2>4, <2>5, <2>6, <2>7 DEF Driven, Timely
<1>5. QED
  BY <1>3, <1>4 DEF PatchSpec, Live

LEMMA DrivenPatchStatus ==
  ASSUME Inv, Driven, Fresh' => Fresh, PatchStatus
  PROVE  Driven'
<1> USE DEF kube, metal
<1>1. /\ UNCHANGED <<cached, kube>> /\ pc = "patchStatus" /\ pc' = "idle" /\ cur' = Nil
      /\ cur \in Objects /\ queued' \in {queued, queued \cup {cur}}
      /\ again => cur \in queued'
  BY DEF PatchStatus, Inv, DeletesOwn
<1>2. /\ metalMachine \in [Objects -> MachineObject] /\ Live \in MachineObject
      /\ before \in MachineObject /\ obj \in MachineObject
  BY <1>1 DEF Inv, TypeOK, Live
<1>3. ~before.failure /\ (before.ready => obj.ready /\ Live.ready)
  BY <1>1 DEF Driven, Carried
<1>4. /\ \A p \in Objects \ {cur} : metalMachine'[p] = metalMachine[p]
      /\ metalMachine'[cur] \in {Live, PatchedStatus(Live)}
  BY <1>1, <1>2 DEF PatchStatus, Live
<1>5. /\ metalMachine'[cur].exists = Live.exists /\ metalMachine'[cur].deleting = Live.deleting
      /\ metalMachine'[cur].finalizer = Live.finalizer
      /\ Live.ready => metalMachine'[cur].ready
      /\ Live.failure => metalMachine'[cur].failure
  BY <1>2, <1>3, <1>4, PatchFields DEF Merged, MachineObject
<1>6. obj.ready => metalMachine'[cur].ready \/ cur \in queued'
  <2>1. CASE StatusOf(obj) = StatusOf(before)
    BY <1>3, <1>5, <2>1 DEF StatusOf
  <2>2. CASE metalMachine'[cur] = PatchedStatus(Live)
    BY <1>2, <1>3, <2>2, PatchFields DEF Merged, MachineObject
  <2>3. CASE cur \in queued'
    BY <2>3
  <2>4. QED
    BY <1>1, <1>2, <2>1, <2>2, <2>3 DEF PatchStatus, Live
<1>7. Held' /\ Seen'
  BY <1>1, <1>4, <1>5 DEF Driven, Held, Seen, Live
<1>8. Awake'
  <2> SUFFICES ASSUME Fresh', metalCluster # "gone", NEW o \in owned \cap bootstrap,
                      o \in Objects \ queued', metalMachine'[o].exists, ~metalMachine'[o].failure
               PROVE  metalMachine'[o].ready /\ ~cached[o].deleting
    BY <1>1 DEF Awake
  <2>1. CASE o # cur
    BY <1>1, <1>4, <2>1 DEF Driven, Awake
  <2>2. CASE o = cur
    <3>1. ~again /\ Live.exists /\ cur \notin queued
      BY <1>1, <1>5, <2>2
    <3>2. obj.ready /\ ~before.deleting /\ before = cached[cur]
      BY <1>1, <3>1 DEF Driven, Course, Carried
    <3>3. QED
      BY <1>6, <2>2, <3>2
  <2>3. QED
    BY <2>1, <2>2
<1>9. QED
  BY <1>1, <1>7, <1>8 DEF Driven, Carried, Course, Timely

\* The informer shows a deletion and queues the object in one step, and so does whoever
\* gives the object what it lacked.
LEMMA DrivenEnvironment ==
  ASSUME Inv, Driven, Fresh' => Fresh, Environment
  PROVE  Driven'
<1> USE DEF kube, metal, local
<1>0. /\ metalMachine \in [Objects -> MachineObject] /\ cached \in [Objects -> MachineObject]
      /\ metalCluster \in {"pending", "networked", "addressed", "gone"}
  BY DEF Inv, TypeOK
<1>1. CASE Crash
  BY <1>1, DrivenRestart DEF Crash
<1>2. ASSUME NEW o \in Objects, Refresh(o)
      PROVE  Driven'
  <2>1. /\ cached'[o] = metalMachine[o] /\ \A p \in Objects \ {o} : cached'[p] = cached[p]
        /\ queued' = queued \cup {o} /\ UNCHANGED <<metalMachine, kube, local>>
    BY <1>0, <1>2 DEF Refresh
  <2>2. Seen'
    BY <2>1 DEF Driven, Held, Seen
  <2>3. Carried' /\ Awake'
    BY <2>1 DEF Driven, Carried, Awake, Live
  <2>4. QED
    BY <2>1, <2>2, <2>3 DEF Driven, Held, Course, Timely, Live
<1>3. ASSUME NEW o \in Objects, SetOwnerRef(o) \/ SetBootstrap(o)
      PROVE  Driven'
  <2>1. /\ UNCHANGED <<metalMachine, cached, infrastructureReady, metalCluster, local>>
        /\ owned' \subseteq owned \cup {o} /\ bootstrap' \subseteq bootstrap \cup {o}
        /\ queued' = queued \cup {o}
        /\ bootstrap' # bootstrap => infrastructureReady
    BY <1>3 DEF SetOwnerRef, SetBootstrap
  <2>2. Carried' /\ Awake' /\ Timely'
    BY <2>1 DEF Driven, Carried, Awake, Timely, Live
  <2>3. QED
    BY <2>1, <2>2 DEF Driven, Held, Seen, Course, Live
<1>4. ASSUME NEW o \in Objects, DeleteMachine(o)
      PROVE  Driven'
  <2>1. /\ UNCHANGED <<cached, kube, local, queued>>
        /\ \A p \in Objects \ {o} : metalMachine'[p] = metalMachine[p]
        /\ ~metalMachine[o].deleting
        /\ metalMachine'[o].ready = metalMachine[o].ready
        /\ metalMachine'[o].failure = metalMachine[o].failure
        /\ metalMachine'[o].exists => metalMachine[o].exists
        /\ metalMachine'[o].exists /\ metalMachine'[o].deleting => metalMachine'[o].finalizer
    BY <1>0, <1>4 DEF DeleteMachine, MachineObject
  <2>2. ~cached[o].deleting /\ (pc # "idle" /\ cur = o => ~before.deleting)
    BY <2>1 DEF Driven, Seen, Carried, Live
  <2>3. Held' /\ Seen'
    BY <2>1, <2>2 DEF Driven, Held, Seen
  <2>4. Carried' /\ Course'
    BY <2>1, <2>2 DEF Driven, Carried, Course, Live
  <2>5. Awake'
    BY <2>1, <2>2 DEF Driven, Awake
  <2>6. QED
    BY <2>1, <2>3, <2>4, <2>5 DEF Driven, Timely
<1>5. ASSUME UNCHANGED <<metalMachine, cached, owned, bootstrap, local, queued>>, Timely',
             metalCluster = "gone" => metalCluster' = "gone"
      PROVE  Driven'
  BY <1>5 DEF Driven, Held, Seen, Carried, Course, Awake, Live
<1>6. CASE NetworkRecorded \/ AddressRecorded \/ ClusterGone
  <2>1. Timely'
    BY <1>6 DEF NetworkRecorded, AddressRecorded, ClusterGone, ClusterMoves, Driven, Timely
  <2>2. QED
    BY <1>5, <1>6, <2>1 DEF NetworkRecorded, AddressRecorded, ClusterGone, ClusterMoves
<1>7. CASE InfrastructureReady
  <2>1. Timely'
    BY <1>7 DEF InfrastructureReady, Fault, Struck, Fresh, Timely
  <2>2. QED
    BY <1>5, <1>7, <2>1 DEF InfrastructureReady
<1>8. CASE \/ TogglePause
           \/ \E m \in Machines : NodeJoins(m)
           \/ \E n \in nodes : NodeDeleted(n)
           \/ \E m \in Foreign : ForeignMoves(m, "free", "foreign")
           \/ \E m \in Foreign : ForeignMoves(m, "foreign", "free")
  <2>1. UNCHANGED <<metalMachine, cached, owned, bootstrap, infrastructureReady, metalCluster,
                    local, queued>>
    BY <1>8, Zenon DEF TogglePause, NodeJoins, NodeDeleted, ForeignMoves
  <2>2. QED
    BY <1>5, <2>1 DEF Driven, Timely
<1>9. QED
  BY <1>1, <1>2, <1>3, <1>4, <1>6, <1>7, <1>8, Zenon DEF Environment

\* An object that nobody is at work on, and of which the informer has nothing to report,
\* is queued, finished or failed, or waits for an owner or a bootstrap secret, as long as no
\* copy was stale and the cluster stays.
THEOREM NeverForgotten == Spec => []NothingForgotten
<1>1. Inv /\ Driven /\ [Next]_vars => Driven'
  <2> SUFFICES ASSUME Inv, Driven, [Next]_vars PROVE Driven'
    OBVIOUS
  <2>1. Fresh' => Fresh
    BY FaultsStay DEF Fresh
  <2>2. CASE Next
    BY <2>1, <2>2, DrivenReconcile, DrivenCall, DrivenPatchSpec, DrivenPatchStatus,
       DrivenEnvironment DEF Next, Controller
  <2>3. CASE UNCHANGED vars
    BY <2>1, <2>3 DEF vars, kube, local, Driven, Held, Seen, Carried, Course, Timely, Awake, Live
  <2>4. QED
    BY <2>2, <2>3
<1>2. Driven => NothingForgotten
  BY DEF Driven, Awake, NothingForgotten
<1>3. QED
  BY DrivenInit, <1>1, <1>2, InvHolds, PTL DEF Spec
=============================================================================
