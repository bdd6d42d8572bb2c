# Cluster API provider metal-stack: a verification project

The provider (`src/`) is a Kubernetes controller manager.  It turns three custom
resources, `MetalStackCluster`, `MetalStackFirewall` and `MetalStackMachine`, into
networks, addresses and raw machines that it allocates at *metal-API*, the service
that owns the hardware.  This directory holds TLA+ models of the three controllers, of
two of them together in one process, and of the API types with the code generated for
them; the TLC configurations that check the models on small instances; and TLAPS proofs
about each controller, about two of them together, and about the API types.

## 1. Inventory

| component | state it keeps | operations | status here |
|---|---|---|---|
| MetalStackCluster controller, `controllers/metalstackcluster_controller.go` | the object: finalizer, `privateNetworkID`, control plane `host`, `Ready`, `ControlPlaneIPAllocated`, failure | `reconcile`: allocate a network, allocate an address, create the firewall object; `reconcileDelete`: delete machines and firewall, find and free the network, remove the finalizer | `MetalStackCluster` |
| MetalStackFirewall controller, `controllers/metalstackfirewall_controller.go` | the object: finalizer, `providerID`, `Ready` | is the machine deployed, else create one; on deletion find the firewall by ID, project and tag, give the machine back | `MetalStackFirewall` |
| MetalStackMachine controller, `controllers/metalstackmachine_controller.go`, `_resources.go` | the objects: finalizer, `providerID`, `Ready`, failure | wait for everything it needs; allocate a machine; write the provider ID on the node; on deletion find the machine and give it back | `MetalStackMachine` |
| the deferred patch of all three (cluster-api's patch helper) | the copy taken at the start of a reconcile | two merge patches: metadata and spec, then status | `PatchHelper` and the `Patch*` actions |
| `controllers/util.go` | none | `getMetalStackCluster`, `getKubeconfig`, `toMachineNetworks` | guards of the firewall and machine models |
| `controllers/metalstackclient.go` | none | the interface to metal-API | the answers of metal-API, in every model |
| `controllers/metalstackfirewall_ignition_generator.go` | none | formats a file | not modelled: pure formatting |
| `api/v1alpha4`, `api/v1alpha3`: types, `zz_generated.*`, `conversion.go` | none | deep copies of what the informer cache holds; conversions between the versions, field by field for an object, by reinterpreted memory for most lists | `ApiObjects` |
| `main.go`, the manager process | the process that runs all controllers | start, panic, restart | `Provider` |
| `MetalStackMachineTemplate` | a spec with an optional preset `providerID` | copied into machines by Cluster API | `ApiObjects`; `Presets` of `MetalStackMachine` |
| mocks, tests, manifests | – | – | not modelled |

How they interact.  The controllers never call each other.  They share the
Kubernetes API server, which each of them reads through an *informer cache* that lags
behind, and metal-API.  The cluster controller creates and deletes the firewall
object; the other two read the `MetalStackCluster` and do nothing useful until its
private network is recorded; the machine controller also waits for
`ControlPlaneIPAllocated`, for `infrastructureReady` of the `Cluster` and for the
bootstrap secret, which Cluster API provides once the `MetalStackCluster` is ready.
At the end metal-API refuses to free a network with machines in it, so the cluster
waits for its children without looking at them.  All controllers live in one process
with one worker each: a panic in one restarts all of them.

What is hard here, and what each component has to guarantee:

* **Allocate first, record later.**  An ID returned by metal-API lives in memory until
  the deferred patch; there is no search for what an earlier run allocated.  A crash, a
  lost reply, a failed patch or a stale cache leads to a second allocation.
  *A fault may cost at most one network or machine* (`LeakBound`), *nothing recorded is
  replaced* (`RecordStable`), *a live cluster keeps its network* (`LiveNetworkAllocated`).
* **Two patches.**  Spec and status are persisted by two requests, the second one is
  sent even when the first one failed, and the manager may die in between.  *Ready
  implies recorded* (`ReadyRecorded`), *every cluster becomes ready* (`EventuallyReady`).
* **Deletion** has to free what was allocated, exactly that, and end
  (`RemovalLeavesNothing`, `RemovalFreesMachine`, `NoForeignDelete`, `NoSiblingDelete`,
  `DeletionCompletes`, `RecordedDeletionCompletes`).
* **Sharing.**  The firewall sits in the cluster's network, so the cluster waits, through
  metal-API, for a machine another controller gives back; and the copy of an object a
  reconcile works on must not share a pointer with the informer cache, although the new
  firewall object takes over pointers of the cluster's spec (`RemovalLeavesNoMachine`,
  `TeardownCompletes`, `CacheIntact`).
* **Waking up.**  Some waits are polled (`Requeue`), others drop the object and rely on
  a later event (`EventuallyDeployed`, `EventuallyReadyOrFailed`).  *An object nobody is at
  work on is queued, finished, or waits for something that will queue it*
  (`NothingForgotten`).

`PROJECT.json` lists every hazard with its line and the properties that watch it.

## 2. Modules

| module | what it is |
|---|---|
| `PatchHelper` | `Merged`, the effect of a merge patch on one field, and the log of faults |
| `MetalStackCluster` | the cluster controller with its world, its properties, its mutants |
| `MetalStackFirewall` | the firewall controller, likewise |
| `MetalStackMachine` | the machine controller with several objects of one cluster |
| `Lifecycle` | the abstract specification: what a controller promises about the one resource an object names |
| `Provider` | the manager process: instances of `MetalStackCluster` and `MetalStackFirewall` over one API server, one metal-API and one process |
| `ApiObjects` | the API types of both versions, their deep copies and conversions, and a reconcile that works on a copy of a cached object |
| `MC<module>` | sets, presets and symmetries for TLC |
| `MetalStackClusterProofs`, `MetalStackFirewallProofs`, `MetalStackMachineProofs`, `ApiObjectsProofs` | theorems about one module each, and their proofs |
| `MetalStackClusterLeaks`, `MetalStackMachineLeaks` | the proofs of `LeakBound` for clusters and machines; the one for firewalls is in `MetalStackFirewallProofs` |
| `ProviderProofs` | the two controllers together, from the theorems about each |
| `Counting` | two lemmas about the sizes of sets, for those proofs |

Operators whose comment says *Mutant* are plausible wrong versions of the operator that
follows them.  No specification uses them: each shows that a property notices the bug.

### How a reconcile is modelled

A reconcile reads its object from the cache (`cached`), keeps two copies of it
(`before`, what the patch helper remembers, and `obj`, what the code changes), makes
remote calls and ends in the deferred patch.  The models have **one step per remote
call**, because everything else in the world can move between two calls and the
manager can die there; code between two calls is part of the step of the call before.
`pc` names the next call: its labels are the names of the functions of the code, or of
the client methods it calls.  `again` is what `Reconcile` will return: an error or
`Requeue` put the object back into the work queue (`queued`).  There is one worker per
controller (`MaxConcurrentReconciles` is left at its default of one), so one `pc` per
model.

A remote call has up to four outcomes: it succeeds; it is refused and changes nothing,
which may happen at any time (`Fail`); metal-API carries it out and the caller sees an
error (fault `reply`); or the manager dies.  `Patched*` merges what changed between
`before` and `obj` into the *live* object, whatever happened to it in the meantime, and
removes the object when the last finalizer goes; a patch of an object that is gone
fails.  The one call that does not end in an error when it fails is `MachineGet` of the
firewall controller: its empty response is dereferenced, and Go runs the deferred patch
before the process dies (`Panic`).

The rest of the world is in the same module: the informer (`Refresh`: it catches up and
queues the object), Cluster API (`SetOwnerRef`, `SetBootstrap`, `InfrastructureReady`),
users (`TogglePause`, `Delete*`), the other two controllers as far as this one can see
them (`Attach`, `ChildGone`, `NetworkRecorded`, `AddressRecorded`, `ClusterGone`),
metal-stack (`Installed`, `NodeJoins`) and the other projects (`MachineMoves`,
`ForeignMoves`).

Faults strike at most `MaxFaults` times; `Faults` says which kinds may:
`crash` (the manager dies), `patch` (a patch request fails), `reply` (see above),
`stale` (a reconcile starts before the cache caught up), `refuse` (metal-API is out of
order when a machine is requested), `lookup` (an object is missing in the cache).
`faults` logs how many have struck and of which kinds.  A property that needs the absence
of one kind says so itself: `Fresh` is "no reconcile has started from a stale copy so
far".  `LeakBound` compares what was lost with the number of faults that struck.

### What the values stand for

*Cluster.*  `networks[n]` is `unused`, `allocated` or `freed`; a freed network ID is not
handed out again.  `Supplied` networks are named by a user in the spec.  `Others` counts
networks of the project that belong to nobody in the model: a search without an ID finds
them too.  `child["machines"]` stands for all `Machine` objects of the cluster,
`child["firewall"]` for the firewall object; `attached` is the network their raw
machines sit in.

*Firewall.*  `machines[m]` is `free`, `waiting` or `deployed` for this cluster's
firewall, or `foreign`.  The initial provider ID is nil, any machine, or one that does
not parse.

*Machine.*  `machines[m]` is `free`, `own` (allocated with this cluster's tag) or
`foreign`.  `nodes` are the Node objects of the workload cluster: the machine a node booted
on, the provider ID it carries, and whether the machine still runs it.  A machine that is
given back leaves its node behind (`Freed`) until Cluster API removes it, at any time
(`NodeDeleted`), and registers another one when it boots for another object (`NodeJoins`),
as the host name of a machine is the name of the object it was allocated for.  `Presets`
are the provider IDs the objects may start with, for instance from a shared
`MetalStackMachineTemplate`.  `Unidentified` machines run a node without a system UUID,
which fits every provider ID (`Fits`).
A `metalCluster` is `pending` until it has a network, then `networked`, then
`addressed`, and may be `gone`.

*Lifecycle.*  An `object` is live, under deletion or gone; it has one `recorded`
resource; `held` are the resources allocated at metal-API; `astray` says that a reconcile
has worked from an outdated copy, after which nothing is promised.  `MetalStackCluster`
and `MetalStackFirewall` instantiate it under a refinement mapping (`KeepsNetwork`,
`KeepsMachine`): object, record and held resources are functions of the concrete state.
The machine controller does not implement it: several of its objects may name one machine.

*Provider.*  The variables of the two controllers with prefixes.  What `MetalStackCluster`
leaves to its environment (`child`, `attached`) is computed from the firewall's state, and
what `MetalStackFirewall` leaves to its (`metalCluster`) from the cluster controller's
cache.  A step of one controller is a step of its module that leaves the other one's
variables alone; `CreateFirewall` and `DeleteFirewall` touch both; metal-API accepts a
firewall's machine only in a network that is allocated (`Accepted`); and a panic of the
firewall controller restarts both (`Panic`).  `Presets` are the provider IDs the
`firewallSpec` of the cluster may hold, as the one of `templates/cluster-template.yaml:81`.

*ApiObjects.*  The fields of each kind appear three times, as they do in the code: in the
types (`Hub`, `Spoke`, in the order of declaration), in the deep copies (`DeepCopied`), in
the conversions (`Converted`).  A field holds `Unset` or one of `Values`.  `shared` is the
set of fields of a reconcile's copy that point into the cache; a write through such a field
(`RemoveFinalizer`, `CreateFirewall`) changes the cache too.

## 3. Runs

Each run has its parameters in a `.cfg` (`cluster_faults` in `MCClusterFaults.cfg` and so
on).  `cluster_faults` and `machine_siblings` take up to three minutes, the others less.

| run | checks | bounds |
|---|---|---|
| `cluster_faults` | `TypeOK`, `LeakBound`, `LiveNetworkAllocated`, `RemovalLeavesNothing`, `ReadyRecorded`, `NothingForgotten`, `RecordStable`, `KeepsNetwork` | two faults of any kind, two networks to allocate and one supplied, two addresses; networks and addresses are symmetric |
| `cluster_live` | `EventuallyReady`, `DeletionCompletes` | one stale copy, fairness, one network, one address, two other networks in the project |
| `firewall` | `TypeOK`, `LeakBound`, `RemovalFreesMachine`, `NothingForgotten`, `NoForeignDelete`, `KeepsMachine`, `EventuallyDeployed`, `RecordedDeletionCompletes` | two faults of any kind, three machines, one of them contended, fairness |
| `machine_faults` | `TypeOK`, `LeakBound`, `NothingForgotten`, `NoForeignDelete` | two objects, two machines, one of them preset for both objects or for one whose sibling has a preset that names no machine, and contended by another project; one fault of any kind |
| `machine_siblings` | `LeakBound`, `ReadyHasNode`, `NoSiblingDelete` | two objects compete for two machines, neither of them preset; one machine is contended by another project, the other's node reports no system UUID; nodes stay behind; one fault of any kind |
| `machine_live` | `EventuallyReadyOrFailed`, `RecordedDeletionCompletes` | one object, no fault, fairness |
| `provider` | `RemovalLeavesNoMachine`, `ClusterAsAssumed`, `FirewallAsAssumed`, `TeardownCompletes` | both controllers, one private network, two machines, a firewall with a machine preset or none, one crash or lost reply, fairness |
| `api_objects` | `TypeOK`, `CacheIntact`, `RoundTrip`, `ListsAgree` | every kind, two values a field may have, three writes |

Why the bounds are enough for the interesting cases: a leak needs one allocation that is
lost and a second one, so two networks or machines; a clash needs two that claim the same
machine; every fault either strikes once or combines with another one, of which two cover
every pair.  For every invariant and every action property of these runs a theorem of
section 5 removes the bounds; they matter for liveness only.  A shared pointer needs one copy and one write
through it, a lost or a swapped field one field whose value differs from its neighbour's:
two values, three writes.

`ClusterAsAssumed` and `FirewallAsAssumed` compose the models: every run of the provider
is, for each of the two controllers, a run of the module that describes it alone.  What was
assumed about the other controller there is what it really does, so what is proved of the
two modules holds for the two together (section 5).

*Bounds of `Provider`*: one private network; no `Machine` objects; nobody pauses the
cluster; the firewall object is created once (one that a user removes is not created
again); no other project holds a machine; a panic of the firewall controller counts as one
of the cluster controller's faults (it is `Panic` together with the cluster module's
`Crash`, and `MaxFaults` bounds both), although the code can panic any number of times; and
the project has two other networks at least, so a search for networks without
an ID never finds exactly one (the finding of `cluster_nil_network`).

Deadlock is no error in three modules, where the world really may stop.  In the firewall
runs: once the only object is gone and every machine is installed.  In `provider`: once the
cluster and its firewall are gone, or a firewall is left that nobody can delete any more.
In `api_objects`: a template after its last change, as no reconcile reads templates.

### What the preconditions say

Several properties hold only if some kind of fault is absent, and TLC refutes them
with it.  This is part of the result.  Where a premise can be said of the state it is part
of the property, and the run lets every kind of fault strike.

* `RecordStable`, `RemovalLeavesNothing`, `RemovalFreesMachine`, `RemovalLeavesNoMachine`
  and the promise of `Lifecycle` hold while every reconcile started from a `Fresh` copy.  A
  reconcile that starts from a copy without the network allocates another one and
  overwrites the first.
* `ReadyRecorded` holds while every patch request was `Delivered`: when the first one fails
  and the second one does not, a cluster is ready with neither network nor host on record.
* `NothingForgotten` of a cluster needs no premise.  That of a firewall holds while every
  patch request was `Delivered`, because the error of a failed one is dropped.  That of a
  machine holds while every reconcile started `Fresh` and the `MetalStackCluster` stays: an
  object that is dropped while the informer still shows a cluster without a network is
  woken by nothing in the model, as its owner and its secret may have come already.
* `DeletionCompletes` of the cluster excludes a child that is gone and left a raw machine
  in the network (`Stranded`): metal-API refuses to free the network for ever, and no
  controller looks for such machines.
* `RecordedDeletionCompletes` of the firewall needs patches that succeed: the deferred
  function cannot report that one failed.  `EventuallyDeployed` allows for there being no
  machine left once every fault has cost one.
* `TeardownCompletes` starts from a firewall object that has its finalizer, or is being
  deleted, and whose machine is on record and held, without a crash of the manager or a lost
  answer to the firewall controller.  TLC shows what happens outside of that.  A manager that
  dies between giving the machine back and removing the finalizer leaves a firewall object
  that cannot be deleted once its cluster is gone (the finding of `firewall_stuck`); so
  does a cluster that is deleted before its firewall has a machine, preset or not: the
  network is empty, and the cluster goes first.  And a firewall object that is removed
  before its finalizer is persisted leaves its machine in the network, where nobody looks
  for it, so that the cluster's deletion never ends.
* `NoSiblingDelete` holds while the controller works `Undisturbed`: replies arrive, patches
  succeed, the manager survives and no copy is stale.  A machine that was given back is
  free at once, may be handed to a sibling under the same cluster tag, and a deletion that
  runs a second time takes it away.  One stale copy alone does no harm, two do: with the
  second one a reconcile repeats the deletion after the sibling got the machine.
* `ReadyHasNode` needs the same, for a machine a sibling deleted is not the ready object's
  any more, and a reconcile that starts from an old copy a second time allocates another
  machine under an object that is ready.  It also needs objects whose provider IDs were not
  preset to a machine, and neither the run nor the theorem has others: siblings with one
  preset share the machine.  What it says of the node is less than one would like.  A node
  without a system UUID is taken for the node of any machine, so all that is sure is that a
  running node carries the provider ID; and where a deleted sibling has left a node behind
  that fits (`LeftBehind`), not even that: the run `machine_leftover` shows why.
* `EventuallyReadyOrFailed` needs a provider ID that does not name a machine of another
  project: the controller takes any allocated machine for its own and waits for a node
  that never joins.

### Violations

Four runs check what a document, a comment or a test of the repository says and what the
code does not do; the quotations are in `PROJECT.json` under `findings`.

| run | what happens |
|---|---|
| `cluster_lost_address` | the manager dies between the patches: the host is recorded, `ControlPlaneIPAllocated` is not, and the address is asked for again and refused for ever |
| `cluster_nil_network` | deletion before there is a network: the search without an ID finds one foreign network and a nil pointer is dereferenced at every attempt |
| `firewall_stuck` | deletion before there is a machine: no provider ID to parse, no end; the machine controller does the same |
| `machine_leftover` | an object gets the machine of a deleted sibling while that machine's node is still listed: the node fits, and the object is ready before its machine has booted |

Four more things the models contain and no run is spent on: a refused `MachineCreate`, an
outage of metal-API included, fails a machine object for good, which a comment of the code
asks about, too (`metalstackmachine_controller.go:217-219`, "todo: When to unset?"); a failed lookup of the owner
marks a cluster with a fatal failure that no success clears
(`metalstackcluster_controller.go:103-109`, against `metalstackcluster_types.go:73`); the
control plane address is never freed (`:165`); and the status of a firewall is written to a
subresource the resource does not have, so a firewall is never ready
(`metalstackfirewall_controller.go:155`, against `docs/architecture.md:160`).

## 4. Fairness

`FairSpec` assumes what the platform provides: the worker takes the next step of a
reconcile and starts a queued one, the informer catches up, Cluster API adopts the
objects and writes its secrets, metal-stack installs machines and nodes join (weak
fairness each), and *a call that is made again and again succeeds some day* (strong
fairness of the successful outcome of each call: calls may fail any number of times, as
the code retries with a back-off and no limit; a failed `MachineGet` of the firewall
controller is retried by the next process).  No fairness is assumed of users,
faults or other projects; the pause is excluded by a premise (`<>[]~paused`), the
removal of the MetalStackCluster before its children likewise.  In the machine model the
queue serves each object (strong fairness per object, because the one worker is busy with
another one in between), which the FIFO work queue of controller-runtime gives.

`Provider` states its own fairness: both workers and both informers keep going (weak), and
the calls of the two deletions succeed some day (strong).  It assumes nothing of the calls
that allocate, of the user, or of metal-stack.

## 5. Proofs

All theorems hold for every value of the constants, so for all sets of networks,
addresses, objects and machines and for every kind and number of faults.  The assumptions
are `ClusterAssumptions`, `FirewallAssumptions`, `MachineAssumptions`, `ApiAssumptions` and
`ProviderAssumptions`, each in the module it is about, which TLC evaluates in the runs of
that module.  Two theorems about machines (`ReadyHolds`, `SiblingsKept`) restrict the
constants further: no object starts with the provider ID of a machine.

`MetalStackClusterProofs`:

* `TypeCorrect`: `Spec => []TypeOK`.
* `LiveNetwork`: `Spec => []LiveNetworkAllocated`.  The property is not inductive: a
  reconcile that frees the network works from a copy that says "deleted".
  `NetworkInv` adds that every copy of the object (`metalCluster`, `cached`, `before`,
  `obj`) which knows of a deletion is matched by the live object, that the labels of
  `reconcileDelete` are reached under deletion only, that nothing is freed before the
  deletion, and that every copy names a network that is in use.
  `NetworkInvariant` is `Spec => []NetworkInv`.
* `Ready`: `Spec => []ReadyRecorded`.  The invariant (`ReadyInv`) says of every copy that
  it is `Backed`: ready goes with network and host, and an allocated address with a host;
  and that what the reconcile holds is kept in the live object when the second patch is
  about to be sent.  It is an invariant as long as every patch was `Delivered`; as the log
  of faults only grows (`FaultsStay`), the step lemma may assume that of the step's end.
* `Stable`: `Spec => RecordStable`, an action property.  `StableInv` ties the copy the
  patch is diffed against to the live object until the first patch.  It is an invariant
  as long as the log is `Fresh`, and the step lemma is stated for a step that ends fresh.
* `RemovalLeaves`: `Spec => []RemovalLeavesNothing`.  The finalizer is the
  only thing that keeps the object, so `RemovalInv` follows it from the reconcile that drops
  it to the patch that persists that: an object under deletion has one (`Held`), the
  children are deleted one kind after the other (`Progress`), and the finalizer is dropped
  only when network and children are dealt with (`Releases`).  It too is an invariant as
  long as the log is `Fresh` (`FreshInv`).
* `Implements`: `Spec => KeepsNetwork`, the refinement of `Lifecycle`.  Initial states map
  to initial states; a step allocates, records, frees or removes under the mapping, or
  stutters, or has put the controller astray.  It uses the invariants above for the two
  steps that need a reason: freeing, and the patch.

* `NeverForgotten`: `Spec => []NothingForgotten`.  Three places hold the duty to look at the
  object again: the work queue, the reconcile in flight, and the informer that has a change
  to report.  The invariant `Driven` hands it on from one to the next: a reconcile that will
  not ask for another one has done its work (`Course`), an object that is not queued is
  finished (`Awake`), and the copies know nothing the live object does not (`Known`).

`MetalStackFirewallProofs`:

* `TypeCorrect`: `Spec => []TypeOK`.
* `ForeignKept`: `Spec => NoForeignDelete`, an action property.  It follows from
  `DeletesOwn`: the call that deletes a machine is reached only after the firewall was
  found with the cluster's tag, and no other project can take a machine away that carries
  it between the two calls.
* `RemovalFrees`: `Spec => []RemovalFreesMachine`.  `RemovalInvariant` adds that the
  reconcile started from the live finalizer and provider ID (`StartedFrom`), that it holds
  the finalizer unless it has found or made the machine free (`Keeps`, `Releases`), that an
  object under deletion has a finalizer (`Held`) and that nothing is in flight once it is
  gone (`Gone`).  The lemma `PatchReleases` is the heart of it: what the deferred merge
  patch leaves behind.
* `Implements`: `Spec => KeepsMachine`, the refinement of `Lifecycle`.
* `NeverForgotten`: `Spec => []NothingForgotten`, with an invariant `Driven` of the same
  shape.  No event tells the controller that its machine was installed, so `Course` says
  that a reconcile gives up asking only once it has seen that.
* `LeakBounded`, see below.

`MetalStackMachineProofs`, for any number of objects that share the worker and the pool:

* `TypeCorrect` (`Spec => []TypeOK`) and `ForeignKept` (`Spec => NoForeignDelete`), from the
  invariant `Inv`: types, and `DeletesOwn` as above.
* `ReadyHolds` (`Spec => []ReadyHasNode`) and `SiblingsKept` (`Spec => NoSiblingDelete`),
  from the invariant `Sound`.  The provider ID is the only link from an object to its
  machine, so `Sound` follows it from the reply of metal-API through the reconcile's copy
  and the two patches to the object.  `Lasting` says of every object that one under
  deletion has its finalizer (`Held`), that a machine it names is allocated and named by
  nobody else (`Named`), and that ready means a node with its provider ID, or one that a
  sibling has left behind (`Noded`, by way of `Registered`), all but the moment between the reply of `MachineDelete` and the removal of the finalizer.
  `Passing` says it of the one reconcile in flight: which deletions it may carry out, that
  its copy is the live object up to the first patch, that what it is about to write holds
  as well, and that the first patch is on record when the second one is sent.  None of this
  survives a crash or a lost patch, so the invariant is `Undisturbed => Sound`.  A node stays
  when its machine goes, so `Traced` says where it came from: a node that does not run any
  more is of a machine whose object is on its way out, or gone (`Vacated`).  Two
  objects that allocate in turn are told apart because a machine that is handed out is free
  and one that an object or a reconcile names is not.
* `NeverForgotten`: `Spec => []NothingForgotten`.  This controller drops objects that lack
  something, so `Driven` also has to say that a wait which drops the object is over before
  the last event that can end it: the address of the cluster comes before its
  infrastructure is ready, and that before any bootstrap secret (`Timely`).

`MetalStackClusterLeaks`, `MetalStackFirewallProofs`, `MetalStackMachineLeaks`: each proves
`LeakBounded`, which is `Spec => []LeakBound`.  `LeakBound` is far from inductive: most
faults lose nothing when they strike, they put a loss in store for later.  The invariant
is a budget that counts losses when they become inevitable:

    what is lost  +  Risk  [ +  what hangs on nothing ]  <=  faults  +  Waiver

`Risk` is 1 while a reconcile works from a copy that is not the live object (`Astray`): it
will lose at most one resource, when its patch is sent.  An object without a finalizer may
be removed by a user at any time, so for firewalls and machines, whose provider ID may come
from a user, a machine such an object names is counted already (`Loose`, `Unheld`), and the
removal is what `Waiver` pays for.  A stale start pays for the risk it takes, a crash for
the ID it forgets; a step that is no fault must not raise the left side.  What is needed to
see that, `Informed`, says that copies know of no deletion and no finalizer the API server
does not know of, that an object under deletion has a finalizer, that the finalizer is
dropped only by a reconcile that has found its resource gone, and that a reconcile gives an
object a resource only when it has none.  `Counting` holds the two facts about
`Cardinality` the steps use.

`ProviderProofs` takes the two controllers' proof modules as instances and shows that the
composition gives each one the world its module assumes:

* `ClusterAssumed` and `FirewallAssumed`: `Spec => ClusterAsAssumed` and
  `Spec => FirewallAsAssumed`, one lemma per controller (`ClusterStep`, `FirewallStep`) with
  one step per action of `Provider`.  Most actions map to an action of the module, or to a
  stutter, by their definitions; some need a reason, and that is the invariant `Together`.
  The firewall controller reads the cluster from a cache, and its module lets the cluster
  gain a network and disappear, never the reverse: so what the informer has seen must not
  be undone (`Advancing`, proved with the cluster controller).  A machine may sit only in an
  allocated network: a firewall is created by a reconcile that has seen the network on
  record, and metal-API frees none with machines in it.
* `RemovalFrees`: `Spec => []RemovalLeavesNoMachine`, from `RemovalLeaves` of the cluster
  controller: no child is left to delete and the network is freed, and by `Together` no
  firewall is deployed in a network that is not allocated.
* `LifecyclesTogether`, `LeaksTogether` and `BothDriven`: the refinements of `Lifecycle`, the
  bound on leaked machines and `NothingForgotten` hold for the two together.  They are the theorems of each module alone,
  applied to the runs that `ClusterAssumed` and `FirewallAssumed` show to be theirs.

One step failed at first, and TLC found the reason: a firewall reconcile that starts from
a stale copy finds and gives back the machine of a firewall object that has been removed.
`MetalStackCluster` let a child's machine go only while the child was being deleted.  Its
action `Detach` now asks no more than that the child is not live; fairness is still assumed
of a child under deletion only.

`ApiObjectsProofs`:

* `TypeCorrect`: `Spec => []TypeOK`, through the writes into the cache, too.
* `CacheIsolated`: `Spec => []CacheIntact`.  The lemma `NothingShared` compares the lists:
  every pointer and slice of a kind is copied anew.  The invariant `Apart` adds that the
  copy shares nothing, and keeps it through every write.
* `NothingLost`: `Spec => []RoundTrip`.  The conversions assign every field of every kind
  (`AllConverted`), and both versions have the same ones (`SameTypes`), so there and back
  is the identity.
* `ListsSame`: `Spec => []ListsAgree`.  The memory of an item is read in the other
  version's order of fields, which is the same order (`CastKeeps`).

Only model-checked is what the proof system cannot express: all liveness, for it needs
fairness and ENABLED (`EventuallyReady`, `DeletionCompletes`, `EventuallyDeployed`,
`RecordedDeletionCompletes`, `EventuallyReadyOrFailed`, `TeardownCompletes`).  The four
violations are TLC's, too.  What liveness rests on is proved: by `NothingForgotten` there is
always somebody who will look at an unfinished object again; that the looks get somewhere
is left to TLC.

## 6. Abstractions

Left out of the controllers: names, tags other than the cluster's, sizes, images, SSH keys,
user data and the addresses in a machine's status; logging; back-off times; the periodic
resync of the informers.  A failed lookup in the cache is a fault of the cluster controller
and, in the machine controller, one more run.  Cluster API and Kubernetes appear as far as
the code relies on them: merge patches without precondition, finalizers, owner references,
watches.  The node list of `getNode` is read and patched in one step: no other writer
touches a node's provider ID, and a node that disappears in between makes the patch fail.
Kubernetes lets a provider ID be set but not changed, so a patch of a node that carries
another one fails, too.  Cluster API removes the node of a machine that was given back
whenever it likes, or never; that it drains the node first is left out.

In `ApiObjects` a field is a name and a value; what the values are, and the fields inside a
nested structure, are left out.  The `Finalizers` stand for the metadata.

## 7. Not modelled

* *The firewall ignition generator* (`metalstackfirewall_ignition_generator.go`) formats a
  configuration file with a kubeconfig in it.  It keeps no state and calls nothing; that it
  fails is one of the errors of `createRawMachine`, which the firewall model has.
* *The deep copies of `v1alpha3`* are the same text as those of `v1alpha4`, and no code of
  the manager reaches them: `main.go` registers `v1alpha4` only.  For the same reason
  nothing serves the conversions; `ApiObjects` models what they would do.
* *Leader election* is off unless a flag turns it on, as
  `config/resources/manager/manager.yaml:22` does.  It belongs to controller-runtime; the
  models assume the one manager it is there to ensure.
* *Addresses of machines*: every control plane machine asks for the one address of the
  cluster, and metal-API decides what happens to the second one.
* *The machine controller within `Provider`*: two objects of each kind and three workers
  are beyond TLC here.  `MetalStackMachine` has the cluster, its network and its address as
  an environment, and `MetalStackCluster` has machines among its `Children`.
* *metal-API, Cluster API, controller-runtime* are external and appear as above; tests and
  mocks were read as statements about the program.

## 8. Plan

1. The machine controller as an instance of `Provider`, for one object and one machine,
   with the firewall deployed from the start to keep the state space small; then the lemma
   that gives it the world its module assumes, as `FirewallStep` does for the firewall.
2. The number of addresses the cluster controller asks for, as `LeakBound` for networks.
