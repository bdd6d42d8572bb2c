------------------------- MODULE MetalStackFirewall -------------------------
(***************************************************************************)
(* The MetalStackFirewall controller                                       *)
(* (controllers/metalstackfirewall_controller.go): it deploys the one      *)
(* firewall of a cluster on a raw machine of metal-API and gives the       *)
(* machine back when the object is deleted.  A machine is allocated before *)
(* its ID is persisted by the deferred patch, the ID may instead be given  *)
(* by a user, and other projects compete for the machines.                 *)
(*                                                                         *)
(* As in MetalStackCluster a reconcile is one step per remote call, of a   *)
(* single worker, and pc names the call it is about to make.               *)
(***************************************************************************)
EXTENDS PatchHelper, FiniteSets

CONSTANTS
  Machines,   \* IDs of raw machines
  Foreign,    \* the machines other projects compete for
  Nil,        \* an unset provider ID
  Malformed,  \* a provider ID that does not parse
  Faults,     \* the kinds of faults that may strike
  MaxFaults   \* how many of them may strike

ASSUME FirewallAssumptions ==
  /\ IsFiniteSet(Machines)
  /\ Foreign \subseteq Machines
  /\ Nil \notin Machines /\ Malformed \notin Machines /\ Nil # Malformed
  /\ Faults \subseteq FaultKinds
  /\ MaxFaults \in Nat

VARIABLES
  firewall,      \* the MetalStackFirewall object on the API server
  cached,        \* the informer's copy of it
  metalCluster,  \* the MetalStackCluster the object's label names
  kubeconfig,    \* the kubeconfig secret of the cluster exists
  machines,      \* state of every raw machine at metal-API
  pc,            \* the next call of the reconcile in flight
  before,        \* the object as the patch helper remembers it
  obj,           \* the object as the reconcile has changed it
  again,         \* the reconcile asks to be run again
  queued,        \* the work queue holds a request
  faults         \* the faults that have struck

local == <<pc, before, obj, again>>
world == <<metalCluster, kubeconfig>>
vars  == <<firewall, cached, world, machines, local, queued, faults>>

ProviderIDs == Machines \cup {Nil, Malformed}

FirewallObject ==
  [exists: BOOLEAN, deleting: BOOLEAN, finalizer: BOOLEAN,
   providerID: ProviderIDs, ready: BOOLEAN]

NewFirewall(id) ==
  [exists |-> TRUE, deleting |-> FALSE, finalizer |-> FALSE,
   providerID |-> id, ready |-> FALSE]

Blank == [NewFirewall(Nil) EXCEPT !.exists = FALSE]

\* A raw machine is free, allocated as this cluster's firewall and being
\* installed or deployed, or allocated by somebody else.
Own == {"waiting", "deployed"}

TypeOK ==
  /\ firewall \in FirewallObject
  /\ cached \in FirewallObject
  /\ metalCluster \in {"pending", "networked", "gone"}
  /\ kubeconfig \in BOOLEAN
  /\ machines \in [Machines -> Own \cup {"free", "foreign"}]
  /\ pc \in {"idle", "MachineGet", "FirewallGet", "createRawMachine",
             "FirewallFind", "MachineDelete", "patch"}
  /\ before \in FirewallObject
  /\ obj \in FirewallObject
  /\ again \in BOOLEAN
  /\ queued \in BOOLEAN
  /\ faults \in FaultLog(MaxFaults)

\* The cluster controller creates the object before it has persisted the
\* private network; the provider ID comes from the user's firewallSpec.
Init ==
  /\ \E id \in ProviderIDs : firewall = NewFirewall(id)
  /\ cached = firewall
  /\ metalCluster = "pending"
  /\ kubeconfig = FALSE
  /\ machines = [m \in Machines |-> "free"]
  /\ pc = "idle" /\ before = Blank /\ obj = Blank /\ again = FALSE
  /\ queued = TRUE
  /\ faults = NoFault

-----------------------------------------------------------------------------
(* Control flow of a reconcile                                             *)

Parses(id) == id \in Machines

Goto(label) == pc' = label /\ UNCHANGED again

\* Return from Reconcile: the deferred function patches the object first.
Return(requeue) == pc' = "patch" /\ again' = requeue

\* A refused call, or one that changed nothing.  The mutant does not ask for
\* another run.
FailForgotten == Return(FALSE) /\ UNCHANGED obj
Fail == Return(TRUE) /\ UNCHANGED obj

Fault(kind) ==
  /\ kind \in Faults
  /\ faults.count < MaxFaults
  /\ faults' = Struck(faults, kind)

Restart ==
  /\ pc' = "idle" /\ before' = Blank /\ obj' = Blank /\ again' = FALSE
  /\ cached' = firewall'
  /\ queued' = TRUE

Networked == metalCluster = "networked"

\* Without a MetalStackCluster that has a private network the reconcile is
\* queued again at once, for a firewall under deletion too.
Reconcile ==
  /\ pc = "idle" /\ queued
  /\ IF cached = firewall THEN UNCHANGED faults ELSE Fault("stale")
  /\ UNCHANGED <<firewall, cached, world, machines>>
  /\ \/ /\ ~cached.exists
        /\ queued' = FALSE
        /\ UNCHANGED local
     \/ /\ cached.exists /\ ~Networked
        /\ UNCHANGED <<local, queued>>
     \/ /\ cached.exists /\ Networked
        /\ queued' = FALSE
        /\ before' = cached
        /\ \/ /\ cached.deleting
              /\ obj' = cached
              /\ IF Parses(cached.providerID) THEN Goto("FirewallFind") ELSE Return(TRUE)
           \/ /\ ~cached.deleting
              /\ obj' = [cached EXCEPT !.finalizer = TRUE]
              /\ Goto(IF Parses(cached.providerID) THEN "MachineGet" ELSE "createRawMachine")

-----------------------------------------------------------------------------
(* reconcile: has the machine been deployed, and if there is none, get one *)

\* A call that fails is the action Panic.
MachineGet ==
  /\ pc = "MachineGet"
  /\ Goto(IF machines[obj.providerID] = "free" THEN "createRawMachine" ELSE "FirewallGet")
  /\ UNCHANGED <<firewall, cached, world, machines, before, obj, queued, faults>>

\* Whether a machine somebody else holds is a deployed firewall is not known.
FirewallGet ==
  /\ pc = "FirewallGet"
  /\ UNCHANGED <<firewall, cached, world, machines, before, queued, faults>>
  /\ \/ \E succeeded \in BOOLEAN :
          /\ machines[obj.providerID] \in Own =>
               (succeeded <=> machines[obj.providerID] = "deployed")
          /\ obj' = [obj EXCEPT !.ready = succeeded]
          /\ Return(~succeeded)
     \/ Fail

Requested(m) == Parses(obj.providerID) => m = obj.providerID

\* Mutant: the ID of the new machine stays in the request and is not set.
CreatedForgotten(m) == UNCHANGED obj
Created(m) == obj' = [obj EXCEPT !.providerID = m]

\* FirewallCreate is asked for the machine the object names, or for any one.
CreateRawMachine ==
  /\ pc = "createRawMachine"
  /\ UNCHANGED <<firewall, cached, world, before, queued>>
  /\ \/ /\ kubeconfig
        /\ \E m \in Machines :
             /\ machines[m] = "free"
             /\ Requested(m)
             /\ machines' = [machines EXCEPT ![m] = "waiting"]
             /\ \/ /\ Created(m)
                   /\ Return(TRUE)
                   /\ UNCHANGED faults
                \/ /\ Fault("reply")
                   /\ Fail
     \/ /\ Fail
        /\ UNCHANGED <<machines, faults>>

-----------------------------------------------------------------------------
(* reconcileDelete                                                         *)

\* metal-API finds the firewall by ID, project and the tag of the cluster.  The
\* mutant leaves the tag out.
FoundUntagged(id) == machines[id] # "free"
Found(id) == machines[id] \in Own

LetGo == obj' = [obj EXCEPT !.finalizer = FALSE] /\ Return(FALSE)

FirewallFind ==
  /\ pc = "FirewallFind"
  /\ UNCHANGED <<firewall, cached, world, machines, before, queued, faults>>
  /\ \/ Found(obj.providerID) /\ Goto("MachineDelete") /\ UNCHANGED obj
     \/ ~Found(obj.providerID) /\ LetGo
     \/ Fail

\* Mutant: the finalizer goes although the machine could not be deleted.
DeleteRefusedLetGo == LetGo
DeleteRefused == Fail

MachineDelete ==
  /\ pc = "MachineDelete"
  /\ UNCHANGED <<firewall, cached, world, before, queued>>
  /\ \/ /\ machines' = [machines EXCEPT ![obj.providerID] = "free"]
        /\ \/ LetGo /\ UNCHANGED faults
           \/ Fault("reply") /\ Fail
     \/ /\ DeleteRefused
        /\ UNCHANGED <<machines, faults>>

-----------------------------------------------------------------------------
(* The deferred patch                                                      *)

\* Mutant: the finalizer is diffed against the wrong field.
PatchMisplaced ==
  [firewall EXCEPT
     !.finalizer = Merged(@, before.finalizer, obj.providerID),
     !.providerID = Merged(@, before.providerID, obj.providerID)]

\* The custom resource has no status subresource: the second patch, of
\* status.ready, is answered with "not found" and changes nothing.
Patched ==
  LET o == [firewall EXCEPT
              !.finalizer = Merged(@, before.finalizer, obj.finalizer),
              !.providerID = Merged(@, before.providerID, obj.providerID)]
  IN  [o EXCEPT !.exists = ~o.deleting \/ o.finalizer]

SendPatch ==
  \/ /\ firewall.exists
     /\ firewall' = Patched
     /\ UNCHANGED faults
  \/ /\ IF firewall.exists THEN Fault("patch") ELSE UNCHANGED faults
     /\ UNCHANGED firewall

\* Reconcile does not name its results, so the deferred function cannot report
\* an error: a failed patch does not queue the object again.
Patch ==
  /\ pc = "patch"
  /\ pc' = "idle" /\ before' = Blank /\ obj' = Blank /\ again' = FALSE
  /\ queued' = (queued \/ again)
  /\ SendPatch
  /\ UNCHANGED <<cached, world, machines>>

\* The error of MachineGet is dropped and its empty response dereferenced.  The panic
\* runs the deferred function, too, and takes the manager down.
Panic ==
  /\ pc = "MachineGet"
  /\ SendPatch
  /\ Restart
  /\ UNCHANGED <<world, machines>>

Controller ==
  \/ Reconcile
  \/ MachineGet
  \/ FirewallGet
  \/ CreateRawMachine
  \/ FirewallFind
  \/ MachineDelete
  \/ Patch
  \/ Panic

-----------------------------------------------------------------------------
(* The manager, the informer, the cluster, metal-stack, other projects     *)

\* The process dies, on its own or by a panic in another controller.
Crash ==
  /\ Fault("crash")
  /\ UNCHANGED <<firewall, world, machines>>
  /\ Restart

Refresh ==
  /\ cached # firewall
  /\ cached' = firewall
  /\ queued' = TRUE
  /\ UNCHANGED <<firewall, world, machines, local, faults>>

\* The cluster controller persists the private network.
NetworkRecorded ==
  /\ metalCluster = "pending"
  /\ metalCluster' = "networked"
  /\ UNCHANGED <<firewall, cached, kubeconfig, machines, local, queued, faults>>

\* The MetalStackCluster goes: after its controller let go of it, or at once
\* while it carries no finalizer.
ClusterGone ==
  /\ metalCluster # "gone"
  /\ metalCluster' = "gone"
  /\ UNCHANGED <<firewall, cached, kubeconfig, machines, local, queued, faults>>

KubeconfigWritten ==
  /\ ~kubeconfig
  /\ kubeconfig' = TRUE
  /\ UNCHANGED <<firewall, cached, metalCluster, machines, local, queued, faults>>

DeleteFirewall ==
  /\ firewall.exists /\ ~firewall.deleting
  /\ firewall' = IF firewall.finalizer THEN [firewall EXCEPT !.deleting = TRUE]
                                       ELSE [firewall EXCEPT !.exists = FALSE]
  /\ UNCHANGED <<cached, world, machines, local, queued, faults>>

MachineMoves(m, from, to) ==
  /\ machines[m] = from
  /\ machines' = [machines EXCEPT ![m] = to]
  /\ UNCHANGED <<firewall, cached, world, local, queued, faults>>

Installed(m) == MachineMoves(m, "waiting", "deployed")

Environment ==
  \/ Crash
  \/ Refresh
  \/ NetworkRecorded
  \/ ClusterGone
  \/ KubeconfigWritten
  \/ DeleteFirewall
  \/ \E m \in Machines : Installed(m)
  \/ \E m \in Foreign : MachineMoves(m, "free", "foreign")
  \/ \E m \in Foreign : MachineMoves(m, "foreign", "free")

Next == Controller \/ Environment

Spec == Init /\ [][Next]_vars

\* The manager, the informer, the cluster and metal-stack keep going, and a call
\* that is made again and again succeeds some day.
Fairness ==
  /\ WF_vars(Controller)
  /\ WF_vars(Refresh)
  /\ WF_vars(NetworkRecorded)
  /\ WF_vars(KubeconfigWritten)
  /\ \A m \in Machines : WF_vars(Installed(m))
  /\ SF_vars(MachineGet)
  /\ SF_vars(FirewallGet /\ obj'.ready)
  /\ SF_vars(CreateRawMachine /\ machines' # machines)
  /\ SF_vars(FirewallFind /\ ~again')
  /\ SF_vars(MachineDelete /\ ~again')

FairSpec == Spec /\ Fairness

-----------------------------------------------------------------------------
(* Properties                                                              *)

Recorded(m) == firewall.exists /\ firewall.providerID = m

InFlight(m) == pc = "patch" /\ obj.providerID = m

\* Machines deployed for this cluster that no object leads to any more.
Orphans == {m \in Machines : machines[m] \in Own /\ ~Recorded(m) /\ ~InFlight(m)}

\* A machine is allocated before its ID is persisted, the error of the patch is
\* dropped, and nobody looks for a machine that already carries the cluster's
\* tag.  Still, a fault, or the removal of an object without a finalizer, costs
\* at most one machine.
LeakBound ==
  Cardinality(Orphans)
    <= faults.count + (IF firewall.exists \/ firewall.deleting THEN 0 ELSE 1)

\* The provider ID may name a machine of somebody else, because a user wrote it
\* there or because others were faster: such a machine is never deleted.
NoForeignDelete == [][MachineDelete => machines[obj.providerID] # "foreign"]_vars

\* No reconcile has started from a copy that was behind the API server.
Fresh == "stale" \notin faults.kinds

\* When an object that went through reconcileDelete is gone, so is its machine, if
\* every reconcile saw the object as it was.
RemovalFreesMachine ==
  (Fresh /\ ~firewall.exists /\ firewall.deleting /\ Parses(firewall.providerID))
    => machines[firewall.providerID] \notin Own

\* How the object, its machine and its controller look to the specification
\* Lifecycle.
Lifecycle == INSTANCE Lifecycle WITH
  Resources <- Machines,
  object <- IF ~firewall.exists THEN "gone"
            ELSE IF firewall.deleting THEN "deleting" ELSE "live",
  recorded <- IF Parses(firewall.providerID) THEN firewall.providerID ELSE Nil,
  held <- {m \in Machines : machines[m] \in Own},
  astray <- ~Fresh

\* The firewall controller implements Lifecycle: the machine on record is never
\* replaced, is given back under deletion only, and before the object goes.
KeepsMachine == Lifecycle!Spec

\* No patch request has failed on the API server.
Delivered == "patch" \notin faults.kinds

\* The error of a patch is dropped, and no event comes when the machine is deployed.
\* As long as the patches go through, a firewall that nobody is at work on, and of
\* which the informer has nothing to report, is queued, or it has a machine that is
\* not being installed any more.
NothingForgotten ==
  (Delivered /\ firewall.exists /\ cached = firewall /\ pc = "idle" /\ ~queued) =>
    /\ ~firewall.deleting
    /\ Parses(firewall.providerID)
    /\ machines[firewall.providerID] # "waiting"

\* A firewall that is not deleted, of a cluster that stays, is deployed some day, or
\* the machine it names is in other hands, or there is no machine left to take.
EventuallyDeployed ==
  [](firewall.exists /\ ~firewall.deleting /\ metalCluster # "gone") =>
    <>(\/ /\ Parses(firewall.providerID)
          /\ machines[firewall.providerID] \in {"deployed", "foreign"}
       \/ \A m \in Machines : machines[m] # "free")

\* A firewall whose machine is on record is gone some day after it is deleted, if
\* its cluster stays around for long enough and no patch is lost: the error of the
\* patch that removes the finalizer is dropped.
RecordedDeletionCompletes ==
  (<>[]Networked /\ []("patch" \notin faults.kinds)) =>
    ((firewall.deleting /\ Parses(firewall.providerID)) ~> ~firewall.exists)

\* What the end-to-end test waits for: a deleted firewall is gone some day.
DeletionCompletes == firewall.deleting ~> ~firewall.exists
=============================================================================
